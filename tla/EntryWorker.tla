----------------------------- MODULE EntryWorker -----------------------------
(***************************************************************************)
(* One pending entry in the order worker (processPendingOrdersForAccount): *)
(* the claim for submission, the risk recheck, the broker boundary         *)
(* (submitOrderToBroker), the persistence of an accepted order, and the    *)
(* catch block that classifies a failure, persists it and only then        *)
(* decides on the claim's release.                                         *)
(*                                                                         *)
(* Steps w... belong to the worker, b... to submitOrderToBroker.  phase is *)
(* "pre" before the boundary, and then the boundary's own phase.           *)
(***************************************************************************)
EXTENDS EntryClaim

Phases == {"pre", "unclassified", "existing", "notDispatched", "started", "responded"}

(* error: a failed statement or read; domain: a claim or evidence conflict *)
(* the pre-dispatch proof excludes; denied, refused: market-policy denial  *)
(* or technical refusal; recorded: a dispatch record whose acknowledgement *)
(* was lost; guard: the adapter refused before the request; rejected,      *)
(* rejectedOther, uncertain: what became of the POST.                      *)
Errors == {"none", "error", "domain", "denied", "refused", "recorded", "guard",
           "rejected", "rejectedOther", "uncertain"}

Throw(e) == pc' = "wCatch" /\ err' = e /\ UNCHANGED <<cur, phase, seen>>

Enter(s, ph) == pc' = s /\ phase' = ph /\ UNCHANGED <<cur, err, seen>>

(* A statement commits; its acknowledgement arrives, or is lost and throws. *)
Acknowledged(s) ==
  \/ Step(s) /\ UNCHANGED faults
  \/ Throw("error") /\ Fault

wkFrame == UNCHANGED <<api, posVars, bfill, bpos, exts>>

(* What no step before the catch block writes, except as it says. *)
submitFrame == wkFrame /\ UNCHANGED <<fills, rel>>

-----------------------------------------------------------------------------
(* Claim for submission *)

ListPending(i) ==
  /\ intent[i] = "pending"
  /\ Begin("wRequire", i, "none")
  /\ UNCHANGED <<intentVars, claimVars, rec, row, bk, faults>>
  /\ submitFrame

requireEntryExposureClaim ==
  /\ pc = "wRequire"
  /\ IF Held(cur) /\ claim[cur] # "UNRESOLVED" THEN Step("wCas") ELSE Throw("domain")
  /\ UNCHANGED <<intentVars, claimVars, rec, row, bk, faults>>
  /\ submitFrame

(* The compare-and-set pending -> submitting. *)
ClaimIntent ==
  /\ pc = "wCas"
  /\ IF intent[cur] = "pending"
     THEN intent' = [intent EXCEPT ![cur] = "submitting"] /\ Acknowledged("wRead")
     ELSE Done /\ UNCHANGED <<intent, faults>>
  /\ UNCHANGED <<reason, claimVars, rec, row, bk>>
  /\ submitFrame

(* transitionEntryExposureClaim(ENTRY_SUBMITTING) outside a transaction: a *)
(* read, a compare-and-set, and the WORKER_CLAIMED event.                  *)
TransitionRead ==
  /\ pc = "wRead"
  /\ IF TransitionAllowed(cur, "ENTRY_SUBMITTING") THEN Step("wClaim") ELSE Throw("domain")
  /\ UNCHANGED <<intentVars, claimVars, rec, row, bk, faults>>
  /\ submitFrame

(* A claim released since it was read is not an error here. *)
TransitionCas ==
  /\ pc = "wClaim"
  /\ IF claim[cur] = "ENTRY_PENDING"
     THEN claim' = [claim EXCEPT ![cur] = "ENTRY_SUBMITTING"] /\ Acknowledged("wClaimEv")
     ELSE Step("wRisk") /\ UNCHANGED <<claim, faults>>
  /\ UNCHANGED <<intentVars, ev, rec, row, bk>>
  /\ submitFrame

TransitionEvent ==
  /\ pc = "wClaimEv"
  /\ AppendEvidence(cur, "claimed")
  /\ Acknowledged("wRisk")
  /\ UNCHANGED <<intentVars, claim, rec, row, bk>>
  /\ submitFrame

(* Request checks and the worker-time risk evaluation pass, or throw. *)
RiskRecheck ==
  /\ pc = "wRisk"
  /\ Enter("bExec", "unclassified") \/ Throw("error")
  /\ UNCHANGED <<intentVars, claimVars, rec, row, bk, faults>>
  /\ submitFrame

(* The refusal and its not-sent evidence commit together. *)
RiskBlocked ==
  /\ pc = "wRisk"
  /\ intent' = [intent EXCEPT ![cur] = "blocked"]
  /\ reason' = [reason EXCEPT ![cur] = "risk"]
  /\ AppendEvidence(cur, "notSent")
  /\ Acknowledged("wRelease")
  /\ UNCHANGED <<claim, rec, row, bk>>
  /\ submitFrame

-----------------------------------------------------------------------------
(* submitOrderToBroker *)

(* Mutant of requireExecutableEntryExposureClaim: the claim is not re-read. *)
ExecutableByIntentAlone ==
  /\ pc = "bExec"
  /\ IF intent[cur] = "submitting" THEN Step("bLookup") ELSE Throw("domain")
  /\ UNCHANGED <<intentVars, claimVars, rec, row, bk, faults>>
  /\ submitFrame

requireExecutableEntryExposureClaim ==
  /\ pc = "bExec"
  /\ IF intent[cur] = "submitting" /\ claim[cur] = "ENTRY_SUBMITTING"
     THEN Step("bLookup") ELSE Throw("domain")
  /\ UNCHANGED <<intentVars, claimVars, rec, row, bk, faults>>
  /\ submitFrame

(* The stable client-order-ID lookup: an existing order is adopted as is. *)
LookupExisting ==
  /\ pc = "bLookup"
  /\ IF Visible(cur)
     THEN pc' = "wAccept" /\ phase' = "existing" /\ seen' = bk[cur] /\ UNCHANGED <<cur, err>>
     ELSE Step("bLocal")
  /\ UNCHANGED <<intentVars, claimVars, rec, row, bk, faults>>
  /\ submitFrame

assertNoLocalEntryDispatchEvidence ==
  /\ pc = "bLocal"
  /\ IF rec[cur] = "none" /\ row[cur] = "none"
     THEN Enter("bAuth", "notDispatched") ELSE Throw("domain")
  /\ UNCHANGED <<intentVars, claimVars, rec, row, bk, faults>>
  /\ submitFrame

(* prepareEntryBrokerDispatch and authorizeDispatch.  PAPER: a denial, a   *)
(* technical refusal, or a committed dispatch record, whose lost           *)
(* acknowledgement is detected by re-reading it (recorded) or, when that   *)
(* read fails too, is reported as a technical refusal.  LIVE: no record.   *)
authorizeDispatch ==
  /\ pc = "bAuth"
  /\ \/ Live /\ Step("bMark") /\ UNCHANGED <<rec, faults>>
     \/ ~ Live /\ UNCHANGED <<rec, faults>> /\ (Throw("denied") \/ Throw("refused"))
     \/ /\ ~ Live
        /\ rec' = [rec EXCEPT ![cur] = "durable"]
        /\ \/ Step("bMark") /\ UNCHANGED faults
           \/ (Throw("recorded") \/ Throw("refused")) /\ Fault
  /\ UNCHANGED <<intentVars, claimVars, row, bk>>
  /\ submitFrame

(* The marker is durable before the phase leaves NOT_DISPATCHED. *)
recordAdapterInvocationStarted ==
  /\ pc = "bMark"
  /\ AppendEvidence(cur, "marker")
  /\ \/ Enter("bPost", "started") /\ UNCHANGED faults
     \/ Throw("error") /\ Fault
  /\ UNCHANGED <<intentVars, claim, rec, row, bk>>
  /\ submitFrame

(* A LIVE dispatch leaves best-effort telemetry; its POST also consumes    *)
(* the LIVE arming in the same guard that lets it out.                     *)
LiveRecord(kinds) ==
  \E k \in kinds : rec' = IF Live THEN [rec EXCEPT ![cur] = k] ELSE rec

AdapterGuard ==
  /\ pc = "bPost"
  /\ LiveRecord({"none", "weak"})
  /\ Throw("guard")
  /\ UNCHANGED <<intentVars, claimVars, row, bk, faults>>
  /\ submitFrame

submitAlpacaEntryOrder ==
  /\ pc = "bPost"
  /\ LiveRecord({"weak"})
  /\ bk' = [bk EXCEPT ![cur] = "sent"]
  /\ Step("bAwait")
  /\ UNCHANGED <<intentVars, claimVars, row, faults>>
  /\ submitFrame

(* The response: the order, a definitive rejection, another HTTP error, or *)
(* no usable answer at all while the request may still be on its way.      *)
AwaitResponse ==
  /\ pc = "bAwait"
  /\ \/ /\ Visible(cur)
        /\ pc' = "wAccept" /\ phase' = "responded" /\ seen' = bk[cur]
        /\ UNCHANGED <<cur, err, faults>>
     \/ bk[cur] = "refused" /\ Throw("rejected") /\ UNCHANGED faults
     \/ (Throw("rejectedOther") \/ Throw("uncertain")) /\ Fault
  /\ UNCHANGED <<intentVars, claimVars, rec, row, bk>>
  /\ submitFrame

-----------------------------------------------------------------------------
(* Persistence of an accepted order *)

(* Errors of this transition are ignored. *)
TransitionActive ==
  /\ pc = "wAccept"
  /\ \/ TransitionIgnoringErrors(cur, "BROKER_ORDER_ACTIVE") /\ UNCHANGED faults
     \/ UNCHANGED claim /\ Fault
  /\ Step("wPersist")
  /\ UNCHANGED <<intentVars, ev, rec, row, bk>>
  /\ submitFrame

PersistOrder ==
  /\ pc = "wPersist"
  /\ intent' = [intent EXCEPT ![cur] = "submitted"]
  /\ row' = IF row[cur] = "none" THEN [row EXCEPT ![cur] = seen] ELSE row
  /\ Acknowledged("confirm")
  /\ UNCHANGED <<reason, claimVars, rec, bk>>
  /\ submitFrame

-----------------------------------------------------------------------------
(* The catch block *)

(* Statements whose failure the worker's try block catches. *)
TryFails ==
  /\ pc \in {"wRequire", "wCas", "wRead", "wClaim", "wClaimEv", "wRisk", "bExec",
             "bLookup", "bLocal", "bAuth", "bMark", "wPersist"}
  /\ Throw("error") /\ Fault
  /\ UNCHANGED <<intentVars, claimVars, rec, row, bk>>
  /\ submitFrame

(* Mutant of definitelyNotDispatched: only an answer counts as a dispatch. *)
NotDispatchedUntilAnswered == phase \in {"pre", "notDispatched", "started"}

definitelyNotDispatched == phase \in {"pre", "notDispatched"}

(* proveWorkerPreDispatchNonDelivery(...).proven *)
proveWorkerPreDispatchNonDelivery(i) ==
  /\ claim[i] = "ENTRY_SUBMITTING" /\ pos[i] = "none"
  /\ intent[i] = "submitting" /\ reason[i] = "none"
  /\ MarkerProtocol(ev[i])
  /\ Cardinality({k \in DOMAIN ev[i] : ev[i][k] \in {"claimed", "claimedV0"}}) = 1
  /\ Markers(ev[i]) = {} /\ Classifications(ev[i]) = {}
  /\ rec[i] = "none" /\ row[i] = "none" /\ fills[i] = 0

(* preDispatchCandidate, then proven from durable evidence. *)
PreDispatchProven ==
  /\ phase = "unclassified" /\ err = "error"
  /\ proveWorkerPreDispatchNonDelivery(cur)

(* plan.kind = 'NOT_SENT'; `readable' is whether the dispatch records      *)
(* could be read.                                                          *)
PlanNotSent(readable) ==
  \/ definitelyNotDispatched /\ err # "recorded"
  \/ PreDispatchProven
  \/ err = "guard" /\ readable /\ rec[cur] = "none"

(* The classification of an OUTCOME plan. *)
entryDispatchOutcomeFor ==
  CASE err = "recorded" -> "ackLost"
    [] err = "guard" -> "localNonSend"
    [] err \in {"rejected", "rejectedOther"} -> err
    [] OTHER -> "uncertain"

failureBlockReason ==
  IF err \in {"recorded", "guard", "rejected", "rejectedOther"} THEN err
  ELSE IF definitelyNotDispatched \/ PreDispatchProven THEN "notSent" ELSE "uncertain"

(* One transaction: the terminal intent and its delivery evidence.  The    *)
(* listed intent's own block reason is null, so preserveBlockReason keeps  *)
(* the new one.  If it does not commit the claim stays as it is (Crash).   *)
PersistFailure(readable) ==
  /\ pc = "wCatch"
  /\ IF readable THEN UNCHANGED faults ELSE err = "guard" /\ Fault
  /\ intent' = [intent EXCEPT ![cur] = IF err = "denied" THEN "blocked" ELSE "failed"]
  /\ reason' = [reason EXCEPT ![cur] = failureBlockReason]
  /\ IF PlanNotSent(readable)
     THEN /\ IF claim[cur] \in PreDispatchClaimStatuses
             THEN AppendEvidence(cur, "notSent") ELSE UNCHANGED ev
          /\ UNCHANGED claim
          /\ Step("wRelease")
     ELSE /\ recordEntryDispatchOutcome(cur, entryDispatchOutcomeFor)
          /\ IF entryDispatchOutcomeFor \in LocalNonSend THEN Step("assess") ELSE Done
  /\ UNCHANGED <<rec, row, bk>>
  /\ submitFrame

-----------------------------------------------------------------------------
(* Release after a recorded failure; recovery enters here too. *)

(* releaseUnsubmittedOrRouteToRecovery: the never-submitted release. *)
releaseUnsubmittedOrRouteToRecovery ==
  /\ pc = "wRelease"
  /\ IF ReleaseThrows(cur, reason[cur])
     THEN Step("wRoute") /\ UNCHANGED claim
     ELSE Done /\ releaseUnsubmittedEntryExposureClaim(cur)
  /\ UNCHANGED <<intentVars, ev, rec, row, bk, faults>>
  /\ submitFrame

(* Mutant of RouteRefusedRelease: the lost acknowledgement is not passed on. *)
RouteWithoutClassification(readable) ==
  /\ pc = "wRoute"
  /\ IF readable THEN UNCHANGED faults ELSE Fault
  /\ IF readable /\ rec[cur] = "durable" /\ phase = "notDispatched"
     THEN Step("outcome") /\ UNCHANGED claim
     ELSE /\ Done
          /\ IF readable /\ rec[cur] # "none" THEN UNCHANGED claim
             ELSE TransitionIgnoringErrors(cur, "UNRESOLVED")
  /\ UNCHANGED <<intentVars, ev, rec, row, bk>>
  /\ submitFrame

(* A refused release: this attempt's dispatch record is a lost             *)
(* acknowledgement; an earlier attempt's record leaves the claim alone;    *)
(* without a (readable) record the refusal makes the claim UNRESOLVED.     *)
RouteRefusedRelease(readable) ==
  /\ pc = "wRoute"
  /\ IF readable THEN UNCHANGED faults ELSE Fault
  /\ IF readable /\ rec[cur] = "durable" /\ phase = "notDispatched"
     THEN StepSeen("outcome", "ackLost") /\ UNCHANGED claim
     ELSE /\ Done
          /\ IF readable /\ rec[cur] # "none" THEN UNCHANGED claim
             ELSE TransitionIgnoringErrors(cur, "UNRESOLVED")
  /\ UNCHANGED <<intentVars, ev, rec, row, bk>>
  /\ submitFrame

(* Without a dispatch record a recorded outcome waits for the next sweep. *)
VerifyIfRecorded == IF rec[cur] # "none" THEN Step("assess") ELSE Done

(* recordEntryDispatchOutcome outside a transaction: the claim becomes     *)
(* UNRESOLVED, and the outcome event is a statement of its own.            *)
RecordOutcome ==
  /\ pc = "outcome"
  /\ IF claim[cur] \in RecoverableStatuses
     THEN claim' = [claim EXCEPT ![cur] = "UNRESOLVED"] /\ Step("outcomeEv")
     ELSE UNCHANGED claim /\ VerifyIfRecorded
  /\ UNCHANGED <<intentVars, ev, rec, row, bk, faults>>
  /\ submitFrame

RecordOutcomeEvent ==
  /\ pc = "outcomeEv"
  /\ AppendEvidence(cur, seen)
  /\ VerifyIfRecorded
  /\ UNCHANGED <<intentVars, claim, rec, row, bk, faults>>
  /\ submitFrame

(* releaseVerifiedEntryExposureClaim: the assessment. *)
AssessVerified(settled) ==
  /\ pc = "assess"
  /\ IF assessEntryClaimRelease(cur, settled)
     THEN rel' = [rel EXCEPT !["wk"] = Assessed("verified", cur)] /\ Step("commit")
     ELSE Done /\ UNCHANGED rel
  /\ UNCHANGED <<intentVars, claimVars, rec, row, fills, bk, faults>>
  /\ wkFrame

-----------------------------------------------------------------------------
(* releaseConfirmedTerminalEntryClaim: shared with order and position sync *)

(* An error thrown while the worker persists an accepted order runs its    *)
(* catch block; order and position sync only end the item.                 *)
ConfirmThrows == IF phase = "pre" THEN Done ELSE Throw("error")

ConfirmRead ==
  /\ pc = "confirm"
  /\ IF ~ isTerminalBrokerOrderStatus(seen) \/ ~ Held(cur) \/ claim[cur] = "UNRESOLVED"
     THEN Done /\ UNCHANGED <<claim, rel>>
     ELSE IF seen = "filled" /\ pos[cur] = "none"
     THEN /\ TransitionIgnoringErrors(cur, "FILLED_AWAITING_POSITION")
          /\ UNCHANGED rel
          /\ IF TransitionAllowed(cur, "FILLED_AWAITING_POSITION") THEN Done ELSE ConfirmThrows
     ELSE IF pos[cur] # "open" /\ BrokerConfirmsNoExposure(cur)
     THEN /\ rel' = [rel EXCEPT !["wk"] = Assessed("confirmed", cur)]
          /\ UNCHANGED claim /\ Step("commit")
     ELSE Done /\ UNCHANGED <<claim, rel>>
  /\ UNCHANGED <<intentVars, ev, rec, row, fills, bk, faults>>
  /\ wkFrame

CommitHeld ==
  /\ pc = "commit"
  /\ CommitRelease("wk")
  /\ Done
  /\ UNCHANGED <<intentVars, rec, row, fills, bk, faults>>
  /\ wkFrame

(* A database error in the confirmation of an accepted order. *)
ConfirmFails ==
  /\ pc \in {"confirm", "commit"} /\ phase \in {"existing", "responded"}
  /\ rel' = [rel EXCEPT !["wk"] = NoRelease]
  /\ Throw("error") /\ Fault
  /\ UNCHANGED <<intentVars, claimVars, rec, row, fills, bk>>
  /\ wkFrame

(* The process dies, or an error outside any try block ends the item; the  *)
(* advisory lock is released with the session.                             *)
Crash ==
  /\ pc # "idle" /\ Fault
  /\ Done
  /\ rel' = [rel EXCEPT !["wk"] = NoRelease]
  /\ UNCHANGED <<intentVars, claimVars, rec, row, fills, bk>>
  /\ wkFrame

WorkerStep ==
  \/ requireEntryExposureClaim \/ ClaimIntent \/ TransitionRead \/ TransitionCas
  \/ TransitionEvent \/ RiskRecheck \/ RiskBlocked
  \/ requireExecutableEntryExposureClaim \/ LookupExisting
  \/ assertNoLocalEntryDispatchEvidence \/ authorizeDispatch
  \/ recordAdapterInvocationStarted \/ AdapterGuard \/ submitAlpacaEntryOrder
  \/ AwaitResponse \/ TransitionActive \/ PersistOrder
  \/ \E readable \in BOOLEAN : PersistFailure(readable) \/ RouteRefusedRelease(readable)
  \/ releaseUnsubmittedOrRouteToRecovery
  \/ RecordOutcome \/ RecordOutcomeEvent
  \/ \E settled \in BOOLEAN : AssessVerified(settled)
  \/ ConfirmRead \/ CommitHeld

WorkerNext ==
  \/ \E i \in Intents : ListPending(i)
  \/ WorkerStep
  \/ TryFails \/ ConfirmFails \/ Crash
=============================================================================
