--------------------------- MODULE EntryAdmission ---------------------------
(***************************************************************************)
(* Admission requests (submitOrder in place-order.service.ts) and the two  *)
(* administrative paths that withdraw entries not yet claimed by the       *)
(* worker: LIVE disarm (closeEntryAuthority) and account deactivation.     *)
(* None of them holds the account lifecycle-mutation lock, so each runs    *)
(* concurrently with the worker, with recovery and with each other.        *)
(***************************************************************************)
EXTENDS EntryClaim

ApiStates == {"idle", "open", "blockRelease", "cleanup", "done"}

apiFrame == UNCHANGED <<ev, rec, orderVars, posVars, wkVars, rel, brokerVars, exts>>

ApiGoto(i, s) == api' = [api EXCEPT ![i] = s]

(* Mutant of acquireEntryExposureClaim: only positions block an admission. *)
AcquireIgnoringClaims(i) ==
  /\ api[i] = "idle"
  /\ intent[i] = "none"
  /\ ~ ActivePosition
  /\ intent' = [intent EXCEPT ![i] = "received"]
  /\ claim' = [claim EXCEPT ![i] = "ENTRY_PENDING"]
  /\ ApiGoto(i, "open")
  /\ UNCHANGED <<reason, faults>>
  /\ apiFrame

(* acquireEntryExposureClaim: under the account/Security advisory lock, an *)
(* intent and its ENTRY_PENDING claim are created together, only when no   *)
(* claim is held and no tracked position is active.                        *)
acquireEntryExposureClaim(i) ==
  /\ api[i] = "idle"
  /\ intent[i] = "none"
  /\ \A o \in Owners : ~ Held(o)
  /\ ~ ActivePosition
  /\ intent' = [intent EXCEPT ![i] = "received"]
  /\ claim' = [claim EXCEPT ![i] = "ENTRY_PENDING"]
  /\ ApiGoto(i, "open")
  /\ UNCHANGED <<reason, faults>>
  /\ apiFrame

(* The compare-and-set received -> pending; an admission that no longer    *)
(* owns its intent goes to the catch block.                                *)
AdmitPending(i) ==
  /\ api[i] = "open"
  /\ IF intent[i] = "received"
     THEN /\ intent' = [intent EXCEPT ![i] = "pending"]
          /\ reason' = [reason EXCEPT ![i] = "none"]
          /\ ApiGoto(i, "done")
     ELSE UNCHANGED intentVars /\ ApiGoto(i, "cleanup")
  /\ UNCHANGED <<claim, faults>>
  /\ apiFrame

(* The compare-and-set commits, but its acknowledgement is lost and the    *)
(* request runs the catch block over an executable intent.                 *)
AdmitPendingAckLost(i) ==
  /\ api[i] = "open" /\ Fault
  /\ intent[i] = "received"
  /\ intent' = [intent EXCEPT ![i] = "pending"]
  /\ reason' = [reason EXCEPT ![i] = "none"]
  /\ ApiGoto(i, "cleanup")
  /\ UNCHANGED claim
  /\ apiFrame

(* Any statement of the request before it becomes executable fails. *)
AdmitFails(i) ==
  /\ api[i] \in {"open", "blockRelease"} /\ Fault
  /\ ApiGoto(i, "cleanup")
  /\ UNCHANGED <<intentVars, claim>>
  /\ apiFrame

(* The admission-time risk refusal: received -> blocked. *)
AdmitRiskBlocked(i) ==
  /\ api[i] = "open"
  /\ intent[i] = "received"
  /\ intent' = [intent EXCEPT ![i] = "blocked"]
  /\ reason' = [reason EXCEPT ![i] = "risk"]
  /\ ApiGoto(i, "blockRelease")
  /\ UNCHANGED <<claim, faults>>
  /\ apiFrame

(* Its release; the refusal is then thrown inside the try block, so the    *)
(* catch block runs whether or not the release committed.                  *)
AdmitRiskRelease(i) ==
  /\ api[i] = "blockRelease"
  /\ IF ReleaseThrows(i, reason[i]) THEN UNCHANGED claim
     ELSE releaseUnsubmittedEntryExposureClaim(i)
  /\ ApiGoto(i, "cleanup")
  /\ UNCHANGED <<intentVars, faults>>
  /\ apiFrame

(* The catch block: one transaction that fails a received or pending       *)
(* intent and releases its claim, and rolls both back when the release     *)
(* refuses.  Its errors are swallowed.                                     *)
AdmitCleanup(i) ==
  LET mine == intent[i] \in {"received", "pending"}
      text == IF mine THEN "other" ELSE reason[i]
  IN /\ api[i] = "cleanup"
     /\ IF ReleaseThrows(i, text) THEN UNCHANGED <<intentVars, claim>>
        ELSE /\ intent' = IF mine THEN [intent EXCEPT ![i] = "failed"] ELSE intent
             /\ reason' = [reason EXCEPT ![i] = text]
             /\ releaseUnsubmittedEntryExposureClaim(i)
     /\ ApiGoto(i, "done")
     /\ UNCHANGED faults
     /\ apiFrame

(* The request dies (process crash, or a lost acknowledgement of the       *)
(* admission transaction, which is outside the try block) or its catch     *)
(* block's transaction fails.                                              *)
AdmitDies(i) ==
  /\ api[i] \in {"open", "blockRelease", "cleanup"} /\ Fault
  /\ ApiGoto(i, "done")
  /\ UNCHANGED <<intentVars, claim>>
  /\ apiFrame

(* One transaction that blocks every entry in one of the given statuses    *)
(* and releases its claim; a refused release aborts the transaction.       *)
BlockEntries(statuses) ==
  LET entries == {i \in Intents : intent[i] \in statuses}
  IN /\ entries # {}
     /\ \A i \in entries : ~ ReleaseThrows(i, "other")
     /\ intent' = [i \in Intents |-> IF i \in entries THEN "blocked" ELSE intent[i]]
     /\ reason' = [i \in Intents |-> IF i \in entries THEN "other" ELSE reason[i]]
     /\ claim' = [o \in Owners |->
                    IF o \in entries /\ Held(o) THEN "RELEASED" ELSE claim[o]]
     /\ UNCHANGED <<api, faults>>
     /\ apiFrame

closeEntryAuthority == Live /\ BlockEntries({"received", "pending"})

deactivateTradingAccount == BlockEntries({"pending"})

AdmissionNext ==
  \/ \E i \in Intents :
       \/ acquireEntryExposureClaim(i)
       \/ AdmitPending(i) \/ AdmitPendingAckLost(i) \/ AdmitFails(i)
       \/ AdmitRiskBlocked(i) \/ AdmitRiskRelease(i)
       \/ AdmitCleanup(i) \/ AdmitDies(i)
  \/ closeEntryAuthority
  \/ deactivateTradingAccount
=============================================================================
