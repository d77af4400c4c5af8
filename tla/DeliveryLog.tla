---------------------------- MODULE DeliveryLog ----------------------------
(***************************************************************************)
(* One claim's append-only delivery evidence, written by any sequence of   *)
(* workers and recoveries, next to a reference reading that looks at each  *)
(* event once, when it is appended: `open' says that the newest adapter    *)
(* invocation has no record yet, `lost' that an older one never got one.   *)
(***************************************************************************)
EXTENDS DeliveryEvidence

CONSTANT MaxEvents   \* bound: events of one claim

ASSUME MaxEventsAssumption == MaxEvents \in Nat

VARIABLES log, open, lost

logVars == <<log, open, lost>>

Init == log = <<>> /\ open = FALSE /\ lost = FALSE

(* A marker while another is open abandons the older one; a record closes  *)
(* the open one; a WORKER_CLAIMED event says nothing about delivery.       *)
AppendEvent(k) ==
  /\ Len(log) < MaxEvents
  /\ log' = Append(log, k)
  /\ open' = (k = "marker" \/ (open /\ k \in {"claimed", "claimedV0"}))
  /\ lost' = (lost \/ (k = "marker" /\ open))

(* The log may stay as it is. *)
Quiet == UNCHANGED logVars

Next == (\E k \in EvidenceKinds : AppendEvent(k)) \/ Quiet

Spec == Init /\ [][Next]_logVars

-----------------------------------------------------------------------------
(* The two-pass pairing of summarizeDeliveryEvidence finds an unclosed     *)
(* adapter invocation exactly when the reference reading has one: no later *)
(* attempt's record closes an earlier attempt's invocation.                *)
PairingAgrees == Unpaired(log) # {} <=> open \/ lost

(* Whatever the claim's status and block reason, a never-submitted release *)
(* is proven only when every adapter invocation was closed by a record     *)
(* that says no request was issued (evaluateNeverSubmittedRelease).        *)
NeverSubmittedProven ==
  \A s \in {"ENTRY_PENDING", "ENTRY_SUBMITTING"}, r \in BlockReasons :
    evaluateNeverSubmittedRelease(s, log, r) =>
      /\ ~ open /\ ~ lost
      /\ \A k \in DOMAIN log : log[k] \notin {"rejected", "rejectedOther", "uncertain", "unknown"}

(* Recorded uncertainty, and an abandoned invocation, are permanent: no    *)
(* later record of any writer makes the release basis conclusive again     *)
(* (evaluateDispatchReleaseBasis).                                         *)
AmbiguityPersists ==
  [][lost \/ (\E k \in DOMAIN log : log[k] \in {"rejectedOther", "uncertain", "unknown"})
       => \A settled \in BOOLEAN :
            evaluateDispatchReleaseBasis(log', settled) = "AMBIGUOUS_ABSENCE"]_logVars
=============================================================================
