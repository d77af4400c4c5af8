--------------------------- MODULE LiveAcceptance ---------------------------
(***************************************************************************)
(* The acceptance run of a live-entry canary: created, previewed, executed  *)
(* through the ordinary admission, verified against the broker, or aborted. *)
(* verify and abort are requests of several transactions; what they have    *)
(* read so far is kept in ops.                                              *)
(***************************************************************************)
EXTENDS LiveEntryWorker

Run == runs[LatestRun]

SafePosture == ~acct.open /\ acct.active = 0 /\ ~entries

RequestFrame == UNCHANGED <<cred, policy, broker, posts, wk, mon, changes>>

-----------------------------------------------------------------------------
\* At most one run of an account is not terminal (a partial unique index).
createLiveEntryAcceptanceRun ==
  /\ LatestRun < MaxRuns
  /\ LatestRun > 0 => Run.out # "none"
  /\ acct.status = "ACTIVE" \/ (acct.status = "PAUSED" /\ ~acct.open /\ acct.active = 0)
  /\ runs' = Append(runs, [arming |-> 0, preview |-> FALSE, claimed |-> FALSE,
                           uncertain |-> FALSE, fail |-> "none", out |-> "none"])
  /\ RequestFrame
  /\ UNCHANGED <<acct, entries, appr, armings, intents, drain, ops>>

previewLiveEntryAcceptanceRun ==
  /\ LatestRun > 0 /\ Run.out = "none" /\ ~Run.claimed /\ ~Run.uncertain
  /\ ~Run.preview
  /\ validateActiveLiveEntryArming
  /\ armings[acct.active].run = LatestRun
  /\ runs' = [runs EXCEPT ![LatestRun].preview = TRUE]
  /\ RequestFrame
  /\ UNCHANGED <<acct, entries, appr, armings, intents, drain, ops>>

\* The run is claimed in the transaction that admits its intent.
executeLiveEntryAcceptanceRun(i) ==
  /\ LatestRun > 0 /\ Run.out = "none" /\ ~Run.claimed /\ ~Run.uncertain
  /\ Run.preview
  /\ Run.arming = acct.active /\ ~ArmingExpired
  /\ validateActiveLiveEntryArming
  /\ admitEntryOrderIntent(i, LatestRun)
  /\ runs' = [runs EXCEPT ![LatestRun].claimed = TRUE]
  /\ RequestFrame
  /\ UNCHANGED <<acct, entries, appr, armings, drain, ops>>

-----------------------------------------------------------------------------
(* Abort: the run is read, the account disarmed and drained, the posture    *)
(* read back, and the outcome written if the run is still unclaimed.        *)

AbortRead ==
  /\ ops.abort = "none"
  /\ LatestRun > 0 /\ Run.out = "none" /\ ~Run.claimed
  /\ ops' = [ops EXCEPT !.abort = "read", !.aborting = LatestRun]
  /\ RequestFrame
  /\ UNCHANGED <<acct, entries, appr, armings, intents, runs, drain>>

AbortDisarm ==
  /\ ops.abort = "read"
  /\ DisarmTransaction("DISARMED")
  /\ ops' = [ops EXCEPT !.abort = "disarmed"]
  /\ RequestFrame
  /\ UNCHANGED runs

\* The posture is proven safe, or the abort is refused.
AbortPosture ==
  /\ ops.abort = "disarmed" /\ drain # "pending"
  /\ ops' = IF drain = "drained" /\ SafePosture THEN [ops EXCEPT !.abort = "safe"]
            ELSE [ops EXCEPT !.abort = "none", !.aborting = 0]
  /\ RequestFrame
  /\ UNCHANGED <<acct, entries, appr, armings, intents, runs, drain>>

\* The safe posture is taken for the proof that nothing was executed.
AbortUnchecked ==
  /\ ops.abort = "safe"
  /\ ops' = [ops EXCEPT !.abort = "none", !.aborting = 0]
  /\ runs' = IF runs[ops.aborting].out = "none"
             THEN [runs EXCEPT ![ops.aborting].out = "OPERATOR_ABORTED"]
             ELSE runs
  /\ RequestFrame
  /\ UNCHANGED <<acct, entries, appr, armings, intents, drain>>

AbortWrite ==
  /\ ops.abort = "safe"
  /\ ops' = [ops EXCEPT !.abort = "none", !.aborting = 0]
  /\ runs' = IF runs[ops.aborting].out = "none" /\ ~runs[ops.aborting].claimed
             THEN [runs EXCEPT ![ops.aborting].out = "OPERATOR_ABORTED"]
             ELSE runs
  /\ RequestFrame
  /\ UNCHANGED <<acct, entries, appr, armings, intents, drain>>

-----------------------------------------------------------------------------
(* Verification: sync and reconcile under the lifecycle lock, then judge    *)
(* what the rows say by then.                                               *)

RunIntent(r) == intents[CHOOSE i \in Intents : intents[i].run = r]

Verifiable == LatestRun > 0 /\ Run.out = "none" /\ Run.claimed

\* The observation failed, or the lock was taken.
VerifyUnobserved ==
  /\ Verifiable /\ ops.verdict = "none"
  /\ runs' = [runs EXCEPT ![LatestRun].uncertain = TRUE, ![LatestRun].fail = "unsafe"]
  /\ RequestFrame
  /\ UNCHANGED <<acct, entries, appr, armings, intents, drain, ops>>

\* Reconciliation reported something of the run's symbol, or the position
\* needs attention: whatever the rows say by then, the run stays unproven.
\* (The sync that preceded is an action of its own.)
VerifyUnproven ==
  /\ Verifiable /\ ops.verdict = "none"
  /\ wk.pc = "idle"
  /\ ~Run.uncertain
  /\ runs' = [runs EXCEPT ![LatestRun].uncertain = TRUE, ![LatestRun].fail = "unsafe"]
  /\ RequestFrame
  /\ UNCHANGED <<acct, entries, appr, armings, intents, drain, ops>>

\* Reconciliation reports an order the broker works or filled and no intent
\* accounts for; it may report other things as well.
Unaccounted ==
  \E i \in Intents : broker[i] \in {"open", "filled"} /\ intents[i].st \notin {"submitted", "filled"}

\* Order sync, then a reconciliation without findings.
VerifyObserve ==
  /\ Verifiable /\ ops.verdict = "none"
  /\ wk.pc = "idle"
  /\ ~Unaccounted
  /\ intents' = Synced
  /\ ops' = [ops EXCEPT !.verdict = "clean", !.judging = LatestRun]
  /\ RequestFrame
  /\ UNCHANGED <<acct, entries, appr, armings, runs, drain>>

Complete(r) ==
  /\ RunIntent(r).st = "filled"
  /\ armings[runs[r].arming].ended = "CONSUMED"
  /\ SafePosture

\* A safe classification of the failure, and no broker order on record.
FailedSafe(r) ==
  /\ runs[r].fail = "safe"
  /\ RunIntent(r).st \notin {"submitted", "filled", "canceled"}
  /\ SafePosture

verifyLiveEntryAcceptanceRun ==
  LET r == ops.judging
  IN  /\ ops.verdict # "none"
      /\ ops' = [ops EXCEPT !.verdict = "none", !.judging = 0]
      /\ runs' =
           IF runs[r].out # "none" THEN runs
           ELSE IF Complete(r) THEN [runs EXCEPT ![r].out = "CANARY_COMPLETE"]
           ELSE IF FailedSafe(r) THEN [runs EXCEPT ![r].out = "FAILED_SAFE"]
           ELSE IF runs[r].uncertain THEN runs
           ELSE [runs EXCEPT ![r].uncertain = TRUE, ![r].fail = "unsafe"]
      /\ RequestFrame
      /\ UNCHANGED <<acct, entries, appr, armings, intents, drain>>

AcceptanceStep ==
  \/ createLiveEntryAcceptanceRun \/ previewLiveEntryAcceptanceRun
  \/ \E i \in Intents : executeLiveEntryAcceptanceRun(i)
  \/ AbortRead \/ AbortDisarm \/ AbortPosture \/ AbortWrite
  \/ VerifyUnobserved \/ VerifyUnproven \/ VerifyObserve \/ verifyLiveEntryAcceptanceRun
=============================================================================
