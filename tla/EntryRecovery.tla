---------------------------- MODULE EntryRecovery ----------------------------
(***************************************************************************)
(* Recovery of entries whose submission did not finish: stale 'submitting' *)
(* intents, held claims of terminal intents (the terminal-claim sweep),    *)
(* abandoned admissions, and the operator's remediation.  The first three  *)
(* hold the account lifecycle-mutation lock; the operator does not.  The   *)
(* thresholds that make an item due (5 and 15 minutes, the 60 second       *)
(* lease) are abstracted: a due item may be taken at any time.             *)
(***************************************************************************)
EXTENDS EntryWorker

recFrame == UNCHANGED <<api, posVars, fills, rec, brokerVars, faults, exts>>

-----------------------------------------------------------------------------
(* recoverStaleSubmittingIntentsForAccount *)

(* An intent without an unreleased claim throws and is only reported. *)
RecoverStaleSubmitting(i) ==
  /\ intent[i] = "submitting" /\ Held(i)
  /\ Begin(IF row[i] = "none" THEN "sLookup" ELSE "sSubmitted", i, "none")
  /\ UNCHANGED <<intentVars, claimVars, row, rel>>
  /\ recFrame

(* Mutant of StaleLookup: a failed lookup is taken for an order. *)
LookupAlwaysFinds ==
  /\ pc = "sLookup"
  /\ StepSeen("sSubmitted", IF Visible(cur) THEN bk[cur] ELSE "open")
  /\ UNCHANGED <<intentVars, claimVars, row, rel>>
  /\ recFrame

StaleLookup ==
  /\ pc = "sLookup"
  /\ IF Visible(cur) THEN StepSeen("sSubmitted", bk[cur]) ELSE Step("sAbsent")
  /\ UNCHANGED <<intentVars, claimVars, row, rel>>
  /\ recFrame

(* Links the local order, or persists the one the lookup returned. *)
StaleSubmitted ==
  /\ pc = "sSubmitted"
  /\ row' = IF row[cur] = "none" THEN [row EXCEPT ![cur] = seen] ELSE row
  /\ IF intent[cur] = "submitting"
     THEN /\ intent' = [intent EXCEPT ![cur] = "submitted"]
          /\ reason' = [reason EXCEPT ![cur] = "none"]
     ELSE UNCHANGED intentVars
  /\ Step("sLink")
  /\ UNCHANGED <<claimVars, rel>>
  /\ recFrame

StaleLinkClaim ==
  /\ pc = "sLink"
  /\ TransitionIgnoringErrors(cur, "BROKER_ORDER_ACTIVE")
  /\ Done
  /\ UNCHANGED <<intentVars, ev, row, rel>>
  /\ recFrame

(* Mutant of provenNotSent: no durable record and no outcome is enough. *)
ProvenByMissingRecord(i) ==
  /\ rec[i] # "durable"
  /\ \/ claim[i] \in {"ENTRY_PENDING", "ADMISSION_BLOCKED"}
     \/ claim[i] = "ENTRY_SUBMITTING" /\ MarkerProtocol(ev[i])

(* The claim never reached the broker boundary, or reached it under the    *)
(* marker protocol and no marker was written.                              *)
provenNotSent(i) ==
  /\ rec[i] = "none" /\ Classifications(ev[i]) = {}
  /\ \/ claim[i] \in {"ENTRY_PENDING", "ADMISSION_BLOCKED"}
     \/ claim[i] = "ENTRY_SUBMITTING" /\ MarkerProtocol(ev[i]) /\ Markers(ev[i]) = {}

(* One transaction after a confirmed absence.  Nothing is requeued. *)
StaleAbsent ==
  /\ pc = "sAbsent"
  /\ IF intent[cur] # "submitting" THEN Done /\ UNCHANGED <<intentVars, claimVars>>
     ELSE /\ intent' = [intent EXCEPT ![cur] = "failed"]
          /\ reason' = [reason EXCEPT ![cur] = preserveBlockReason(@,
                          IF provenNotSent(cur) THEN "other" ELSE "unknownOutcome")]
          /\ IF provenNotSent(cur)
             THEN /\ IF claim[cur] = "ENTRY_SUBMITTING"
                     THEN AppendEvidence(cur, "notSent") ELSE UNCHANGED ev
                  /\ UNCHANGED claim /\ Step("wRelease")
             ELSE recordEntryDispatchOutcome(cur, "unknown") /\ Done
  /\ UNCHANGED <<row, rel>>
  /\ recFrame

-----------------------------------------------------------------------------
(* recoverTerminalEntryClaimsForAccount *)

terminalClaimState(i) ==
  classifyTerminalEntryClaim(claim[i], ev[i], reason[i], rec[i] # "none", row[i] # "none")

(* The outcome to record: the latest one already recorded, or inferred     *)
(* from the block reason when a dispatch record exists, or unknown.        *)
sweepOutcome(i) ==
  LET K == {k \in DOMAIN ev[i] : ev[i][k] \in OutcomeKinds}
  IN IF K # {} THEN ev[i][CHOOSE k \in K : \A j \in K : j <= k]
     ELSE IF rec[i] # "none" THEN inferEntryDispatchOutcome(reason[i]) ELSE "unknown"

(* loadTerminalClaimCandidates, classification, and the branch taken. *)
SweepClaim(i) ==
  /\ Held(i) /\ pos[i] = "none"
  /\ intent[i] \in TERMINAL_ENTRY_INTENT_STATUSES
  /\ \/ /\ terminalClaimState(i) = "AUTOMATIC_NEVER_SUBMITTED_RELEASE"
        /\ Begin("wRelease", i, "none") /\ UNCHANGED rel
     \/ /\ terminalClaimState(i) = "AUTOMATIC_NOT_SENT_EVIDENCE_RECORDING"
        /\ Begin("record", i, "none")
        /\ rel' = [rel EXCEPT !["wk"] = Assessed("record", i)]
     \/ /\ terminalClaimState(i) = "AUTOMATIC_OUTCOME_RECORDING"
        /\ Begin("outcome", i, sweepOutcome(i)) /\ UNCHANGED rel
     \/ /\ terminalClaimState(i) = "AUTOMATIC_VERIFIED_RELEASE"
        /\ Begin("assess", i, "none") /\ UNCHANGED rel
  /\ UNCHANGED <<intentVars, claimVars, row>>
  /\ recFrame

(* Recorded only against exactly the evidence that was classified. *)
recordNotSentEvidenceAndRelease ==
  LET r == rel["wk"]
  IN /\ pc = "record"
     /\ IF claim[cur] = r.status /\ Len(ev[cur]) = r.n
        THEN AppendEvidence(cur, "notSent") /\ Step("wRelease")
        ELSE UNCHANGED ev /\ Done
     /\ rel' = [rel EXCEPT !["wk"] = NoRelease]
     /\ UNCHANGED <<intentVars, claim, row>>
     /\ recFrame

-----------------------------------------------------------------------------
(* Mutant of RecoverStaleAdmission: it asks for evidence of a worker. *)
RecoverOnlyClaimedAdmission(i) ==
  /\ intent[i] = "received" /\ claim[i] = "ENTRY_PENDING" /\ pos[i] = "none"
  /\ MarkerProtocol(ev[i])
  /\ intent' = [intent EXCEPT ![i] = "failed"]
  /\ reason' = [reason EXCEPT ![i] = "other"]
  /\ AppendEvidence(i, "notSent")
  /\ Begin("wRelease", i, "none")
  /\ UNCHANGED <<claim, row, rel>>
  /\ recFrame

(* recoverStaleAdmissionClaimsForAccount: one transaction under the        *)
(* account/Security lock, then the never-submitted release.                *)
RecoverStaleAdmission(i) ==
  /\ intent[i] = "received" /\ claim[i] = "ENTRY_PENDING" /\ pos[i] = "none"
  /\ \A k \in DOMAIN ev[i] : ev[i][k] \notin {"claimed", "claimedV0"}
  /\ Markers(ev[i]) = {} /\ Classifications(ev[i]) = {}
  /\ rec[i] = "none" /\ row[i] = "none" /\ fills[i] = 0
  /\ intent' = [intent EXCEPT ![i] = "failed"]
  /\ reason' = [reason EXCEPT ![i] = "other"]
  /\ AppendEvidence(i, "notSent")
  /\ Begin("wRelease", i, "none")
  /\ UNCHANGED <<claim, row, rel>>
  /\ recFrame

-----------------------------------------------------------------------------
(* applyEntryExposureRemediation, by the operator *)

opFrame == UNCHANGED <<intentVars, row, wkVars>> /\ recFrame

OperatorAssess(r) ==
  /\ rel["op"] = NoRelease
  /\ rel' = [rel EXCEPT !["op"] = r]
  /\ UNCHANGED claimVars
  /\ opFrame

(* No broker order: only under the delivery-evidence standard. *)
OperatorVerified(i, settled) ==
  /\ row[i] = "none" /\ ~ Visible(i)
  /\ rec[i] # "none" \/ ev[i] # <<>> \/ claim[i] = "UNRESOLVED"
  /\ assessEntryClaimRelease(i, settled)
  /\ OperatorAssess(Assessed("verified", i))

(* A terminal broker order: even for an UNRESOLVED claim. *)
OperatorConfirmed(i) ==
  /\ Held(i) /\ pos[i] # "open"
  /\ BrokerConfirmsNoExposure(i)
  /\ OperatorAssess(Assessed("confirmed", i))

(* A closed position nobody here ordered. *)
OperatorAdopted(a) ==
  /\ Held(a) /\ pos[a] = "closed"
  /\ bpos = {} /\ ~ OpenBuyAtBroker
  /\ OperatorAssess(Assessed("adopted", a))

OperatorCommit == CommitRelease("op") /\ opFrame

-----------------------------------------------------------------------------
RecoveryStep ==
  \/ StaleLookup \/ StaleSubmitted \/ StaleLinkClaim \/ StaleAbsent
  \/ recordNotSentEvidenceAndRelease

OperatorNext ==
  \/ \E i \in Intents :
       \/ OperatorConfirmed(i)
       \/ \E settled \in BOOLEAN : OperatorVerified(i, settled)
  \/ \E a \in Adoptions : OperatorAdopted(a)
  \/ OperatorCommit

RecoveryNext ==
  \/ \E i \in Intents :
       RecoverStaleSubmitting(i) \/ SweepClaim(i) \/ RecoverStaleAdmission(i)
  \/ RecoveryStep
  \/ OperatorNext
=============================================================================
