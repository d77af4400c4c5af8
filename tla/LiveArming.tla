----------------------------- MODULE LiveArming -----------------------------
(***************************************************************************)
(* Staging the canary, arming and disarming live entries, the validation    *)
(* every use of an arming goes through, its one-shot consumption at the     *)
(* broker boundary, and the monitor that clears an arming gone invalid.     *)
(***************************************************************************)
EXTENDS LiveAccount

LatestRun == Len(runs)

\* The number of the run that must own the canary, 0 when there has never
\* been one; the latest run being terminal refuses the operation.
requireAcceptanceRunForCanary == LatestRun > 0 => runs[LatestRun].out = "none"

-----------------------------------------------------------------------------
stageLiveEntryCanary ==
  /\ acct.status = "ACTIVE" /\ ~acct.open
  /\ requireAcceptanceRunForCanary
  /\ ~entries
  /\ acct' = Disarmed
  /\ armings' = terminateArming("INVALIDATED")
  /\ intents' = blockEntryIntents({"received", "pending"})
  /\ entries' = TRUE
  /\ appr' = invalidateLiveWriteApprovals(Outdated(appr, {"ENTRY"}), {"ENTRY"})
  /\ UNCHANGED <<cred, policy, broker, posts, runs, wk, drain, mon, ops, changes>>

-----------------------------------------------------------------------------
(* ARM needs the lifecycle lock, so no submission is under way.             *)

armInsideTransaction ==
  /\ wk.pc = "idle"
  /\ acct.status = "ACTIVE" /\ ~acct.open /\ acct.active = 0
  /\ policy
  /\ requireAcceptanceRunForCanary
  /\ LatestRun > 0 => /\ ~runs[LatestRun].uncertain
                      /\ ~runs[LatestRun].claimed
                      /\ runs[LatestRun].arming = 0
  /\ gatherAndPersist("LIVE_ENTRY_ARMING")
  /\ Effective("ENTRY") /\ Effective("RISK")
  /\ entries
  /\ \A i \in Intents : intents[i].st \notin Nonterminal \cup {"filled"}
  /\ Len(armings) < MaxArmings
  /\ armings' = Append(armings, [entryRev |-> appr["ENTRY"].rev, riskRev |-> appr["RISK"].rev,
                                 fresh |-> TRUE, policy |-> policy, run |-> LatestRun,
                                 ended |-> "none"])
  /\ acct' = [acct EXCEPT !.open = TRUE, !.active = Len(armings) + 1]
  /\ runs' = IF LatestRun = 0 THEN runs
             ELSE [runs EXCEPT ![LatestRun].arming = Len(armings) + 1]
  /\ drain' = "none"
  /\ UNCHANGED <<entries, cred, policy, appr, intents, broker, posts, wk, mon, ops,
                 changes>>

-----------------------------------------------------------------------------
(* Validation.                                                             *)

evaluateLiveEntryArmingBinding(a) ==
  /\ appr["ENTRY"].rev = armings[a].entryRev
  /\ appr["RISK"].rev = armings[a].riskRev
  /\ armings[a].fresh
  /\ armings[a].policy = policy

validateActiveLiveEntryArming ==
  /\ acct.active # 0
  /\ armings[acct.active].ended = "none"
  /\ acct.status = "ACTIVE" /\ acct.open
  /\ cred = "ACTIVE"
  /\ policy
  /\ Effective("ENTRY") /\ Effective("RISK")
  /\ evaluateLiveEntryArmingBinding(acct.active)

\* The arming outlived the approval it copied its expiry from.
ArmingExpired ==
  /\ acct.active # 0
  /\ appr["ENTRY"].rev = armings[acct.active].entryRev
  /\ appr["ENTRY"].expired

acceptanceRunBindingMatches(a, i) ==
  armings[a].run = 0 \/ armings[a].run = intents[i].run

\* What the broker boundary checks before it lets an entry's POST out.
AuthorizedEntry(i) ==
  /\ validateActiveLiveEntryArming
  /\ intents[i].st = "submitting"
  /\ acceptanceRunBindingMatches(acct.active, i)
  /\ entries

\* The arming outlives the POST it authorized.
AuthorityNotConsumed(i) ==
  UNCHANGED <<acct, entries, appr, armings>>

\* One shot: the arming is ended, the latches closed and the assignments'
\* entries disabled in the transaction that authorizes the POST.
ConsumeEntryAuthority(i) ==
  /\ acct' = Disarmed
  /\ entries' = FALSE
  /\ appr' = Outdated(appr, {"ENTRY"})
  /\ armings' = terminateArming("CONSUMED")

-----------------------------------------------------------------------------
(* DISARM closes the authority first and then waits for the lifecycle lock, *)
(* for at most five seconds.                                                *)

DisarmTransaction(type) ==
  /\ closeEntryAuthority(type)
  /\ appr' = invalidateLiveWriteApprovals(AfterDisabling(appr), {"ENTRY"})
  /\ drain' = "pending"

disarmLiveEntries ==
  /\ acct.active # 0 \/ entries \/ appr["ENTRY"].status = "GRANTED"
  /\ DisarmTransaction("DISARMED")
  /\ UNCHANGED <<cred, policy, broker, posts, runs, wk, mon, ops, changes>>

\* The wait ends whether or not the lock was ever free.
DrainUnlocked ==
  /\ drain = "pending"
  /\ drain' \in {"drained", "attention"}
  /\ UNCHANGED <<acct, entries, cred, policy, appr, armings, intents, broker, posts,
                 runs, wk, mon, ops, changes>>

acquireDrain ==
  /\ drain = "pending"
  /\ drain' = IF wk.pc = "idle" THEN "drained" ELSE "attention"
  /\ UNCHANGED <<acct, entries, cred, policy, appr, armings, intents, broker, posts,
                 runs, wk, mon, ops, changes>>

-----------------------------------------------------------------------------
(* The monitor validates outside any transaction and disarms afterwards,    *)
(* whatever arming is active by then.                                       *)

\* An account that is no longer ACTIVE is skipped.
MonitorActiveOnly ==
  /\ mon = "idle"
  /\ acct.active # 0
  /\ acct.status = "ACTIVE"
  /\ ~validateActiveLiveEntryArming
  /\ mon' = IF ArmingExpired THEN "EXPIRED" ELSE "INVALIDATED"
  /\ UNCHANGED <<acct, entries, cred, policy, appr, armings, intents, broker, posts,
                 runs, wk, drain, ops, changes>>

monitorLiveEntryArmings ==
  /\ mon = "idle"
  /\ acct.active # 0
  /\ ~validateActiveLiveEntryArming
  /\ mon' = IF ArmingExpired THEN "EXPIRED" ELSE "INVALIDATED"
  /\ UNCHANGED <<acct, entries, cred, policy, appr, armings, intents, broker, posts,
                 runs, wk, drain, ops, changes>>

MonitorDisarm ==
  /\ mon # "idle"
  /\ DisarmTransaction(mon)
  /\ mon' = "idle"
  /\ UNCHANGED <<cred, policy, broker, posts, runs, wk, ops, changes>>

ArmingStep ==
  \/ stageLiveEntryCanary \/ armInsideTransaction
  \/ disarmLiveEntries \/ acquireDrain
  \/ monitorLiveEntryArmings \/ MonitorDisarm
=============================================================================
