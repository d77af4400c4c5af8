---------------------------- MODULE LiveAccount ----------------------------
(***************************************************************************)
(* The operations of the account's administrators: configuration edits,    *)
(* credentials, activation and deactivation, readiness assessments, and the *)
(* granting and revoking of the two live-write approvals.                   *)
(***************************************************************************)
EXTENDS LiveAuthority

Change == changes < MaxChanges /\ changes' = changes + 1

Exposure == \/ \E i \in Intents : intents[i].st \in {"submitted", "filled"}
            \/ \E i \in Intents : broker[i] \in {"open", "filled"}

-----------------------------------------------------------------------------
(* Configuration.                                                          *)

\* Account limits, allocations, sizing or the strategy: the ENTRY hashes
\* change and ENTRY is invalidated.
EditEntryConfiguration ==
  /\ Change
  /\ appr' = invalidateLiveWriteApprovals(Outdated(appr, {"ENTRY"}), {"ENTRY"})
  /\ armings' = OutdatedArming
  /\ UNCHANGED <<acct, entries, cred, policy, intents, broker, posts, runs, wk, drain, mon, ops>>

\* The exit profile, or an assignment's exits or enabled switched off: both.
EditExitConfiguration ==
  /\ Change
  /\ appr' = invalidateLiveWriteApprovals(Outdated(appr, Capabilities), Capabilities)
  /\ armings' = OutdatedArming
  /\ UNCHANGED <<acct, entries, cred, policy, intents, broker, posts, runs, wk, drain, mon, ops>>

\* The administrator sets the assignment's entriesEnabled directly.
updateTradingAccountSubscriptionForAdmin ==
  /\ Change
  /\ entries' = ~entries
  /\ appr' = invalidateLiveWriteApprovals(Outdated(appr, {"ENTRY"}), {"ENTRY"})
  /\ armings' = OutdatedArming
  /\ UNCHANGED <<acct, cred, policy, intents, broker, posts, runs, wk, drain, mon, ops>>

-----------------------------------------------------------------------------
(* Credentials.  Every credential write outdates both approvals' hashes.    *)

CredentialWritten(status, ap) ==
  /\ cred' = status
  /\ appr' = ap
  /\ armings' = OutdatedArming

upsertTradingAccountApiKeyCredential ==
  /\ acct.status # "ACTIVE"
  /\ CredentialWritten("NEEDS_VERIFICATION",
       invalidateLiveWriteApprovals(Outdated(appr, Capabilities), Capabilities))
  /\ acct' = [acct EXCEPT !.status = "NEEDS_CREDENTIALS", !.open = FALSE]
  /\ ops' = [ops EXCEPT !.verify = IF @ = "none" THEN @ ELSE "outdated"]
  /\ UNCHANGED <<entries, policy, intents, broker, posts, runs, wk, drain, mon, changes>>

revokeTradingAccountCredential ==
  /\ cred # "REVOKED"
  /\ Change
  /\ CredentialWritten("REVOKED",
       invalidateLiveWriteApprovals(Outdated(appr, Capabilities), Capabilities))
  /\ acct' = [acct EXCEPT !.status = "NEEDS_CREDENTIALS", !.open = FALSE]
  /\ ops' = [ops EXCEPT !.verify = IF @ = "none" THEN @ ELSE "outdated"]
  /\ UNCHANGED <<entries, policy, intents, broker, posts, runs, wk, drain, mon>>

\* Verification disarms an armed account first, then asks the broker.
VerifyCredentialStart ==
  /\ ops.verify = "none"
  /\ cred # "REVOKED"
  /\ Change
  /\ IF acct.status = "ACTIVE" /\ acct.open
     THEN /\ closeEntryAuthority("DISARMED")
          /\ appr' = invalidateLiveWriteApprovals(AfterDisabling(appr), {"ENTRY"})
          /\ drain' = "pending"
     ELSE UNCHANGED <<acct, entries, intents, armings, appr, drain>>
  /\ ops' = [ops EXCEPT !.verify = "calling"]
  /\ UNCHANGED <<cred, policy, broker, posts, runs, wk, mon>>

\* The broker answered, or did not; a credential replaced meanwhile refuses
\* the result.  Only an ACTIVE, disarmed account keeps its status.
VerifyCredentialFinish ==
  /\ ops.verify # "none"
  /\ ops' = [ops EXCEPT !.verify = "none"]
  /\ \/ /\ ops.verify = "outdated"
        /\ UNCHANGED <<cred, appr, armings, acct>>
     \/ /\ ops.verify = "calling"
        /\ CredentialWritten("INVALID", Outdated(appr, Capabilities))
        /\ acct' = [acct EXCEPT !.status = "ERROR", !.open = FALSE]
     \/ /\ ops.verify = "calling"
        /\ CredentialWritten("ACTIVE",
             invalidateLiveWriteApprovals(Outdated(appr, Capabilities), Capabilities))
        /\ acct' = [acct EXCEPT !.status = IF @ = "ACTIVE" /\ ~acct.open THEN @ ELSE "PAUSED",
                                !.open = FALSE]
  /\ UNCHANGED <<entries, policy, intents, broker, posts, runs, wk, drain, mon, changes>>

-----------------------------------------------------------------------------
(* Activation.  Deactivation blocks pending entries, disables the           *)
(* assignments and invalidates ENTRY; it leaves the arming to the monitor.  *)

deactivateTradingAccountForAdmin ==
  /\ Change
  /\ acct' = [acct EXCEPT !.status = "PAUSED", !.open = FALSE]
  /\ entries' = FALSE
  /\ intents' = blockEntryIntents({"pending"})
  /\ appr' = invalidateLiveWriteApprovals(AfterDisabling(appr), {"ENTRY"})
  /\ armings' = IF entries THEN OutdatedArming ELSE armings
  /\ UNCHANGED <<cred, policy, broker, posts, runs, wk, drain, mon, ops>>

-----------------------------------------------------------------------------
(* Readiness.  An assessment is honoured only while every fingerprint and   *)
(* approval revision it recorded is unchanged, and its gates are about the  *)
(* posture those fingerprints cover: taking it right before its use is the  *)
(* same as taking it earlier.  Its broker-side gates are taken to pass.     *)

NoOpenWork ==
  /\ ~Exposure
  /\ \A i \in Intents : intents[i].st \notin Nonterminal

gatherAndPersist(p) ==
  /\ cred = "ACTIVE"
  /\ NoOpenWork
  /\ ~acct.open
  /\ p = "LIVE_ACTIVATION" => acct.status = "PAUSED" /\ ~policy /\ ~entries
  /\ p = "LIVE_ENTRY_ARMING" => acct.status = "ACTIVE" /\ acct.active = 0 /\ policy /\ entries

activateTradingAccountForAdmin ==
  /\ acct.status = "PAUSED" /\ ~acct.open
  /\ gatherAndPersist("LIVE_ACTIVATION")
  /\ Effective("RISK") /\ ~Effective("ENTRY")
  /\ NoOpenWork
  /\ acct' = [acct EXCEPT !.status = "ACTIVE"]
  /\ UNCHANGED <<entries, cred, policy, appr, armings, intents, broker, posts,
                 runs, wk, drain, mon, ops, changes>>

\* The purpose of the assessment a grant must present.
resolveGrantReadinessPurpose(c) ==
  IF c = "RISK" /\ acct.status = "PAUSED" THEN "LIVE_ACTIVATION" ELSE "LIVE_ENTRY_ARMING"

\* An effective approval granted again changes nothing but its revision, which
\* only an active arming remembers, and is left out.
\* For RISK_REDUCING on a PAUSED account the assessment's verdict is not
\* looked at, only its currency and the credential it saw.
grantLiveWriteApproval(c) ==
  LET p == resolveGrantReadinessPurpose(c)
  IN  /\ c = "RISK" => acct.status \in {"PAUSED", "ACTIVE"} /\ ~acct.open
      /\ IF p = "LIVE_ACTIVATION" THEN cred = "ACTIVE" ELSE gatherAndPersist(p)
      /\ c = "ENTRY" => Effective("RISK")
      /\ ~Effective(c)
      /\ appr[c].rev < MaxRev
      /\ appr' = [appr EXCEPT ![c] = [status |-> "GRANTED", rev |-> @.rev + 1,
                                      fresh |-> TRUE, expired |-> FALSE]]
      /\ UNCHANGED <<acct, entries, cred, policy, armings, intents, broker, posts,
                     runs, wk, drain, mon, ops, changes>>

Revoked(c) == [appr EXCEPT ![c].status = "REVOKED", ![c].rev = @ + 1]

revokeEntryApproval ==
  /\ appr["ENTRY"].status # "MISSING"
  /\ Change
  /\ appr' = Revoked("ENTRY")
  /\ UNCHANGED <<acct, entries, cred, policy, armings, intents, broker, posts,
                 runs, wk, drain, mon, ops>>

\* RISK_REDUCING is revoked in two steps: the exposure is read first, the
\* approval changed in a transaction of its own, if its revision still is the
\* one the operator saw.
revokeRiskApprovalCheck ==
  /\ appr["RISK"].status # "MISSING"
  /\ ops.revoke = 0
  /\ ~Exposure
  /\ Change
  /\ ops' = [ops EXCEPT !.revoke = appr["RISK"].rev]
  /\ UNCHANGED <<acct, entries, cred, policy, appr, armings, intents, broker, posts,
                 runs, wk, drain, mon>>

revokeRiskApprovalCommit ==
  /\ ops.revoke # 0
  /\ ops' = [ops EXCEPT !.revoke = 0]
  /\ appr' = IF ops.revoke = appr["RISK"].rev THEN Revoked("RISK") ELSE appr
  /\ UNCHANGED <<acct, entries, cred, policy, armings, intents, broker, posts,
                 runs, wk, drain, mon, changes>>

\* An approval's expiresAt passes.
Expire(c) ==
  /\ appr[c].status = "GRANTED" /\ ~appr[c].expired
  /\ Change
  /\ appr' = [appr EXCEPT ![c].expired = TRUE]
  /\ UNCHANGED <<acct, entries, cred, policy, armings, intents, broker, posts,
                 runs, wk, drain, mon, ops>>

AccountStep ==
  \/ EditEntryConfiguration \/ EditExitConfiguration
  \/ updateTradingAccountSubscriptionForAdmin
  \/ upsertTradingAccountApiKeyCredential \/ revokeTradingAccountCredential
  \/ VerifyCredentialStart \/ VerifyCredentialFinish
  \/ deactivateTradingAccountForAdmin \/ activateTradingAccountForAdmin
  \/ \E c \in Capabilities : grantLiveWriteApproval(c) \/ Expire(c)
  \/ revokeEntryApproval \/ revokeRiskApprovalCheck \/ revokeRiskApprovalCommit
=============================================================================
