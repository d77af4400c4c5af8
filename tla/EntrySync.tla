------------------------------ MODULE EntrySync ------------------------------
(***************************************************************************)
(* How the database follows the broker: submitted-order sync, fill import, *)
(* position sync (a broker snapshot, then positions created, attached to   *)
(* the held claim or closed) and the closed-claim retry of reconciliation. *)
(* All of them hold the account lifecycle-mutation lock.  The broker and   *)
(* everybody else who trades on the account are the environment.           *)
(***************************************************************************)
EXTENDS EntryWorker

syncFrame == UNCHANGED <<ev, rec, api, rel, brokerVars, faults, exts>>

-----------------------------------------------------------------------------
(* syncSubmittedOrdersForAccountUnlocked *)

SUBMITTED_ORDER_SYNC_INTENT_STATUSES == {"submitted", "open", "partial", "doneForDay"}

(* The broker order is read; an unchanged status is re-evaluated only when *)
(* it is terminal without being conclusive.                                *)
SyncOrder(i) ==
  /\ intent[i] \in SUBMITTED_ORDER_SYNC_INTENT_STATUSES
  /\ row[i] # "none"
  /\ \/ bk[i] # row[i] /\ Begin("oRow", i, bk[i])
     \/ bk[i] = row[i] /\ bk[i] = "doneForDay" /\ Begin("confirm", i, bk[i])
  /\ UNCHANGED <<intentVars, claim, orderVars, posVars>>
  /\ syncFrame

SyncRow ==
  /\ pc = "oRow"
  /\ row' = [row EXCEPT ![cur] = seen]
  /\ Step("oIntent")
  /\ UNCHANGED <<intentVars, claim, fills, posVars>>
  /\ syncFrame

SyncIntent ==
  /\ pc = "oIntent"
  /\ intent' = [intent EXCEPT ![cur] = seen]
  /\ Step("oClaim")
  /\ UNCHANGED <<reason, claim, orderVars, posVars>>
  /\ syncFrame

SyncClaim ==
  /\ pc = "oClaim"
  /\ TransitionIgnoringErrors(cur,
       CASE seen = "partial" -> "PARTIALLY_FILLED"
         [] seen = "filled" -> "FILLED_AWAITING_POSITION"
         [] OTHER -> "BROKER_ORDER_ACTIVE")
  /\ Step("confirm")
  /\ UNCHANGED <<intentVars, orderVars, posVars>>
  /\ syncFrame

-----------------------------------------------------------------------------
(* upsertBrokerActivity: FILL activities are linked to an intent through   *)
(* its local broker order only.  All fills known to the broker arrive; the *)
(* claim's observation, the activity rows and the terminalization of a     *)
(* full fill are separate statements.                                      *)

ImportFill(i) ==
  /\ row[i] # "none" /\ bfill[i] > 0
  /\ Begin("aStore", i, "none")
  /\ TransitionIgnoringErrors(i, "PARTIALLY_FILLED")
  /\ UNCHANGED <<intentVars, orderVars, posVars>>
  /\ syncFrame

(* The same import as a step of a position's closing. *)
ImportOnClose ==
  /\ pc = "aImport"
  /\ IF row[cur] # "none" /\ bfill[cur] > 0
     THEN Step("aStore") /\ TransitionIgnoringErrors(cur, "PARTIALLY_FILLED")
     ELSE Step("confirm") /\ UNCHANGED claim
  /\ UNCHANGED <<intentVars, orderVars, posVars>>
  /\ syncFrame

StoreFill ==
  /\ pc = "aStore"
  /\ fills' = [fills EXCEPT ![cur] = bfill[cur]]
  /\ Step("aFull")
  /\ UNCHANGED <<intentVars, claim, row, posVars>>
  /\ syncFrame

(* One transaction; `linked' is whether the broker order or its intent     *)
(* names a tracked position.                                               *)
terminalizeImportedFullFill(linked) ==
  /\ pc = "aFull"
  /\ linked => pos[cur] # "none"
  /\ IF fills[cur] = OrderQty
     THEN /\ row' = IF row[cur] \in ConclusiveStatuses THEN row
                    ELSE [row EXCEPT ![cur] = "filled"]
          /\ intent' = IF intent[cur] \in ConclusiveStatuses THEN intent
                       ELSE [intent EXCEPT ![cur] = "filled"]
          /\ TransitionIgnoringErrors(cur,
               IF linked THEN "POSITION_OPEN" ELSE "FILLED_AWAITING_POSITION")
     ELSE UNCHANGED <<intent, row, claim>>
  /\ IF seen = "filled" THEN Step("confirm") ELSE Done
  /\ UNCHANGED <<reason, fills, posVars>>
  /\ syncFrame

-----------------------------------------------------------------------------
(* syncTrackedPositionsForAccountUnlocked *)

(* getNormalizedPositions: the snapshot shows a position, or none. *)
SnapshotPositions ==
  /\ \/ bpos # {} /\ Begin("pTrack", Nobody, "none")
     \/ bpos = {} /\ ActivePosition /\ Begin("pClose", Nobody, "none")
  /\ UNCHANGED <<intentVars, claim, orderVars, posVars>>
  /\ syncFrame

(* Mutant of attachEntryExposureClaimToPosition: UNRESOLVED is overwritten. *)
AttachUnresolvedToo(o, conflict) ==
  IF conflict \/ pos[o] = "closed"
  THEN /\ claim' = [claim EXCEPT ![o] = "UNRESOLVED"]
       /\ loose' = (pos[o] # "open")
       /\ UNCHANGED pos
  ELSE /\ claim' = [claim EXCEPT ![o] = "POSITION_OPEN"]
       /\ pos' = [pos EXCEPT ![o] = "open"]
       /\ loose' = FALSE

(* attachEntryExposureClaimToPosition with a held claim of o.  `conflict': *)
(* the position's resolved entry intent is another one.  An UNRESOLVED     *)
(* claim is never attached; a claim of another, closed position becomes    *)
(* UNRESOLVED.                                                             *)
attachEntryExposureClaimToPosition(o, conflict) ==
  IF conflict \/ claim[o] = "UNRESOLVED" \/ pos[o] = "closed"
  THEN /\ claim' = [claim EXCEPT ![o] = "UNRESOLVED"]
       /\ loose' = (pos[o] # "open")
       /\ UNCHANGED pos
  ELSE /\ claim' = [claim EXCEPT ![o] = "POSITION_OPEN"]
       /\ pos' = [pos EXCEPT ![o] = "open"]
       /\ loose' = FALSE

(* No held claim: the position is adopted under a claim of its own. *)
AdoptPosition(a) ==
  /\ claim[a] = "none"
  /\ claim' = [claim EXCEPT ![a] = "UNRESOLVED"]
  /\ pos' = [pos EXCEPT ![a] = "open"]
  /\ loose' = FALSE

(* A new position is created and attached in one transaction, with the     *)
(* entry intent its origin resolved to, if any; an existing one is only    *)
(* attached again.                                                         *)
TrackPosition(expected) ==
  /\ pc = "pTrack"
  /\ expected # Nobody => ~ ActivePosition /\ row[expected] # "none"
  /\ IF \E o \in Owners : Held(o)
     THEN \E o \in Owners :
            /\ Held(o)
            /\ attachEntryExposureClaimToPosition(o, expected # Nobody /\ expected # o)
     ELSE \E a \in Adoptions : AdoptPosition(a)
  /\ Done
  /\ UNCHANGED <<intentVars, orderVars>>
  /\ syncFrame

(* The snapshot shows no position: the active one is closed, fills are     *)
(* imported and the claim attached to it is released if possible.          *)
CloseLoosePosition ==
  /\ pc = "pClose" /\ loose
  /\ loose' = FALSE
  /\ Done
  /\ UNCHANGED <<intentVars, claim, orderVars, pos>>
  /\ syncFrame

ClosePosition(o) ==
  /\ pc = "pClose" /\ pos[o] = "open"
  /\ pos' = [pos EXCEPT ![o] = "closed"]
  /\ IF o \in Intents
     THEN pc' = "aImport" /\ cur' = o /\ seen' = "filled" /\ UNCHANGED <<phase, err>>
     ELSE Done
  /\ UNCHANGED <<intentVars, claim, orderVars, loose>>
  /\ syncFrame

(* Mutant of ReconcileClosedClaim: it waits for a status nobody writes. *)
ReconcileOnlyClosingClaims(i) ==
  /\ claim[i] = "POSITION_CLOSING" /\ pos[i] = "closed"
  /\ Begin("confirm", i, "filled")
  /\ UNCHANGED <<intentVars, claim, orderVars, posVars>>
  /\ syncFrame

(* reconcileTradingAccount retries the release of closed positions. *)
ReconcileClosedClaim(i) ==
  /\ Held(i) /\ claim[i] # "UNRESOLVED" /\ pos[i] = "closed"
  /\ Begin("confirm", i, "filled")
  /\ UNCHANGED <<intentVars, claim, orderVars, posVars>>
  /\ syncFrame

-----------------------------------------------------------------------------
(* The environment: the broker and other traders on the account *)

brokerFrame ==
  UNCHANGED <<intentVars, claimVars, rec, orderVars, posVars, api, wkVars, rel, faults>>

BrokerStatus(i, from, to) ==
  /\ bk[i] \in from
  /\ bk' = [bk EXCEPT ![i] = to]
  /\ UNCHANGED <<bfill, bpos, exts>>
  /\ brokerFrame

BrokerAccept(i) == BrokerStatus(i, {"sent"}, "open")

(* Rejected, or lost on the way: it never becomes an order. *)
BrokerRefuse(i) == BrokerStatus(i, {"sent"}, "refused")

BrokerCancel(i) == BrokerStatus(i, {"open", "partial", "doneForDay"}, "canceled")

BrokerDoneForDay(i) == BrokerStatus(i, {"open", "partial"}, "doneForDay")

BrokerResume(i) == BrokerStatus(i, {"doneForDay"}, IF bfill[i] = 0 THEN "open" ELSE "partial")

BrokerFill(i) ==
  /\ bk[i] \in {"open", "partial"}
  /\ bfill' = [bfill EXCEPT ![i] = @ + 1]
  /\ bk' = [bk EXCEPT ![i] = IF bfill[i] + 1 = OrderQty THEN "filled" ELSE "partial"]
  /\ bpos' = bpos \cup {i}
  /\ UNCHANGED exts
  /\ brokerFrame

(* The position is sold: by an exit of this system or by its owner. *)
BrokerExit ==
  /\ bpos # {}
  /\ bpos' = {}
  /\ UNCHANGED <<bk, bfill, exts>>
  /\ brokerFrame

(* A BUY nobody here ordered. *)
ExternalBuy(a) ==
  /\ exts < MaxExternal /\ exts' = exts + 1
  /\ claim[a] = "none" /\ a \notin bpos
  /\ bpos' = bpos \cup {a}
  /\ UNCHANGED <<bk, bfill>>
  /\ brokerFrame

-----------------------------------------------------------------------------
SyncStep ==
  \/ SyncRow \/ SyncIntent \/ SyncClaim
  \/ ImportOnClose \/ StoreFill
  \/ \E linked \in BOOLEAN : terminalizeImportedFullFill(linked)
  \/ \E expected \in Intents \cup {Nobody} : TrackPosition(expected)
  \/ CloseLoosePosition
  \/ \E o \in Owners : ClosePosition(o)

SyncNext ==
  \/ \E i \in Intents : SyncOrder(i) \/ ImportFill(i) \/ ReconcileClosedClaim(i)
  \/ SnapshotPositions
  \/ SyncStep

BrokerNext ==
  \/ \E i \in Intents :
       \/ BrokerAccept(i) \/ BrokerRefuse(i) \/ BrokerCancel(i)
       \/ BrokerDoneForDay(i) \/ BrokerResume(i) \/ BrokerFill(i)
  \/ BrokerExit
  \/ \E a \in Adoptions : ExternalBuy(a)
=============================================================================
