-------------------------- MODULE DeliveryEvidence --------------------------
(***************************************************************************)
(* The pure decision functions over a claim's append-only delivery         *)
(* evidence (entry-delivery-evidence.service.ts) and over what the         *)
(* recovery code derives from it (entry-dispatch-recovery.service.ts).     *)
(*                                                                         *)
(* A log is the sequence of a claim's evidence events in event-id order.   *)
(* An event is abstracted to its kind:                                     *)
(*   claimed        WORKER_CLAIMED_FOR_SUBMISSION under ADAPTER_MARKER_V1  *)
(*   claimedV0      the same event written before the marker protocol      *)
(*   marker         ADAPTER_INVOCATION_STARTED                             *)
(*   notSent        NOT_SENT_EVIDENCE_RECORDED                             *)
(* and, for DISPATCH_OUTCOME_RECORDED, its classification:                 *)
(*   ackLost        NOT_SENT_DISPATCH_RECORD_ACK_LOST                      *)
(*   localNonSend   NOT_SENT_LOCAL_BLOCKED / NOT_SENT_LOCAL_RETRYABLE      *)
(*   rejected       BROKER_REJECTED with a definitive status code          *)
(*   rejectedOther  BROKER_REJECTED with any other status code             *)
(*   uncertain      DELIVERY_UNCERTAIN                                     *)
(*   unknown        DISPATCH_OUTCOME_UNKNOWN                               *)
(* An intent's free-text block reason is abstracted to the class the       *)
(* regular expressions of the code tell apart (BlockReasons).              *)
(***************************************************************************)
EXTENDS Naturals, Sequences

OutcomeKinds == {"ackLost", "localNonSend", "rejected", "rejectedOther",
                 "uncertain", "unknown"}

EvidenceKinds == OutcomeKinds \cup {"claimed", "claimedV0", "marker", "notSent"}

(* Classifications that prove no network request was issued. *)
LocalNonSend == {"notSent", "localNonSend", "ackLost"}

(* none: null; risk: a risk refusal; notSent: a market-policy refusal or    *)
(* LOCAL_PRE_DISPATCH_FAILURE; recorded: ENTRY_DISPATCH_RECORDED_NOT_SENT;  *)
(* guard, rejected, rejectedOther, uncertain: BROKER_WRITE_DELIVERY:...;    *)
(* unknownOutcome: *_OUTCOME_UNKNOWN; other: any other text.                *)
BlockReasons == {"none", "risk", "notSent", "recorded", "guard", "rejected",
                 "rejectedOther", "uncertain", "unknownOutcome", "other"}

-----------------------------------------------------------------------------
(* summarizeDeliveryEvidence *)

Recorded(log) == {k \in DOMAIN log : log[k] \in OutcomeKinds \cup {"notSent"}}

Markers(log) == {k \in DOMAIN log : log[k] = "marker"}

(* Mutant of Unpaired: any later record closes an invocation. *)
UnpairedIgnoringLaterAttempts(log) ==
  {m \in Markers(log) : ~ \E k \in Recorded(log) : m < k}

(* An adapter invocation is closed by a record written before the next     *)
(* invocation; an unclosed one is an unknown outcome.                      *)
Unpaired(log) ==
  {m \in Markers(log) :
     ~ \E k \in Recorded(log) :
          /\ m < k
          /\ \A n \in Markers(log) : m < n => k < n}

(* The classifications of summary.outcomes. *)
Classifications(log) ==
  {log[k] : k \in Recorded(log)}
    \cup (IF Unpaired(log) = {} THEN {} ELSE {"unknown"})

Ambiguous(log) == Classifications(log) \ LocalNonSend

(* summary.dispatchOutcomes: every outcome that is not a NOT_SENT record. *)
DispatchOutcomes(log) == Classifications(log) \ {"notSent"}

MarkerProtocol(log) == \E k \in DOMAIN log : log[k] = "claimed"

-----------------------------------------------------------------------------
(* Block reasons *)

blockReasonCarriesDeliveryUncertainty(reason) ==
  reason \in {"rejected", "rejectedOther", "uncertain", "unknownOutcome"}

preserveBlockReason(prior, next) ==
  IF blockReasonCarriesDeliveryUncertainty(prior) THEN prior ELSE next

-----------------------------------------------------------------------------
(* Release decisions *)

(* Mutant of evaluateNeverSubmittedRelease: ambiguous outcomes are not read. *)
NeverSubmittedIgnoringAmbiguity(status, log, reason) ==
  /\ ~ blockReasonCarriesDeliveryUncertainty(reason)
  /\ \/ status \in {"ENTRY_PENDING", "ADMISSION_BLOCKED"} /\ Markers(log) = {}
     \/ "notSent" \in Classifications(log)

(* evaluateNeverSubmittedRelease(...).proven *)
evaluateNeverSubmittedRelease(status, log, reason) ==
  /\ Ambiguous(log) = {}
  /\ ~ blockReasonCarriesDeliveryUncertainty(reason)
  /\ \/ status \in {"ENTRY_PENDING", "ADMISSION_BLOCKED"} /\ Markers(log) = {}
     \/ "notSent" \in Classifications(log)

(* Mutant of evaluateDispatchReleaseBasis: one definite record is enough. *)
ReleaseBasisOfAnyRecord(log, settled) ==
  LET found == Classifications(log)
  IN IF found \cap (LocalNonSend \cup {"rejected"}) = {} THEN "AMBIGUOUS_ABSENCE"
     ELSE IF "rejected" \in found /\ ~ settled THEN "PENDING" ELSE "CONCLUSIVE"

(* Mutant of evaluateDispatchReleaseBasis: every HTTP error is definitive. *)
ReleaseBasisTrustingAnyRejection(log, settled) ==
  LET found == Classifications(log)
  IN IF found = {} \/ ~ (found \subseteq LocalNonSend \cup {"rejected", "rejectedOther"})
     THEN "AMBIGUOUS_ABSENCE"
     ELSE IF "rejected" \in found /\ ~ settled THEN "PENDING" ELSE "CONCLUSIVE"

(* evaluateDispatchReleaseBasis(...).conclusiveness; a definitive          *)
(* rejection is PENDING until its settle window has elapsed.               *)
evaluateDispatchReleaseBasis(log, settled) ==
  LET found == Classifications(log)
  IN IF \/ found = {}
        \/ ~ (found \subseteq LocalNonSend \cup {"rejected"})
     THEN "AMBIGUOUS_ABSENCE"
     ELSE IF "rejected" \in found /\ ~ settled THEN "PENDING" ELSE "CONCLUSIVE"

(* inferEntryDispatchOutcome: the outcome the sweep infers from the block  *)
(* reason of a terminal intent that has a dispatch record.                 *)
inferEntryDispatchOutcome(reason) ==
  CASE reason = "guard" -> "localNonSend"
    [] reason \in {"rejected", "rejectedOther", "uncertain"} -> reason
    [] reason \in {"notSent", "recorded"} -> "ackLost"
    [] OTHER -> "unknown"

(* Mutant of legacyNotSentEvidence: a timeout text reads as a local refusal. *)
LegacyTimeoutIsNotSent(reason) == reason \in {"guard", "notSent", "risk", "uncertain"}

(* legacyNotSentEvidence(...) # null *)
legacyNotSentEvidence(reason) == reason \in {"guard", "notSent", "risk"}

PreDispatchClaimStatuses == {"ENTRY_PENDING", "ENTRY_SUBMITTING", "ADMISSION_BLOCKED"}

(* Mutant of classifyTerminalEntryClaim: an ambiguous claim with a dispatch *)
(* record is recorded again on every tick.                                  *)
ClassifyRecordingAgain(status, log, reason, recorded, held) ==
  CASE held -> "PROTECTED_EXPOSURE"
    [] ~held /\ evaluateNeverSubmittedRelease(status, log, reason) ->
         "AUTOMATIC_NEVER_SUBMITTED_RELEASE"
    [] ~held /\ evaluateDispatchReleaseBasis(log, FALSE) # "AMBIGUOUS_ABSENCE" ->
         "AUTOMATIC_VERIFIED_RELEASE"
    [] OTHER -> IF recorded THEN "AUTOMATIC_OUTCOME_RECORDING" ELSE "OPERATOR_INVESTIGATION"

(* classifyTerminalEntryClaim: `held' is whether a local broker order or   *)
(* an attached position exists, `recorded' whether a dispatch record does. *)
classifyTerminalEntryClaim(status, log, reason, recorded, held) ==
  CASE held -> "PROTECTED_EXPOSURE"
    [] ~held /\ status \in PreDispatchClaimStatuses ->
         IF recorded \/ DispatchOutcomes(log) # {}
         THEN "AUTOMATIC_OUTCOME_RECORDING"
         ELSE IF evaluateNeverSubmittedRelease(status, log, reason)
         THEN "AUTOMATIC_NEVER_SUBMITTED_RELEASE"
         ELSE IF /\ Markers(log) = {}
                 /\ \/ status = "ENTRY_SUBMITTING" /\ MarkerProtocol(log)
                    \/ legacyNotSentEvidence(reason)
         THEN "AUTOMATIC_NOT_SENT_EVIDENCE_RECORDING"
         ELSE "AUTOMATIC_OUTCOME_RECORDING"
    [] ~held /\ status = "UNRESOLVED" ->
         IF Classifications(log) = {}
         THEN IF recorded THEN "AUTOMATIC_OUTCOME_RECORDING" ELSE "OPERATOR_INVESTIGATION"
         ELSE IF evaluateDispatchReleaseBasis(log, FALSE) = "AMBIGUOUS_ABSENCE"
         THEN "OPERATOR_INVESTIGATION"
         ELSE "AUTOMATIC_VERIFIED_RELEASE"
    [] OTHER -> "PROTECTED_EXPOSURE"
=============================================================================
