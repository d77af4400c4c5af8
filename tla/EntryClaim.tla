----------------------------- MODULE EntryClaim -----------------------------
(***************************************************************************)
(* State and claim operations of the entry-exposure lifecycle of ONE       *)
(* account/Security pair.  EntryExposureClaim rows, their OrderIntents and *)
(* broker orders live in PostgreSQL; the broker is external.  Every action *)
(* of the modules that extend this one is one database statement, one      *)
(* database transaction or one broker call.                                *)
(***************************************************************************)
EXTENDS DeliveryEvidence, FiniteSets

CONSTANTS
  Intents,      \* BUY OrderIntents that may be admitted for the pair
  Adoptions,    \* claims created for broker positions nobody here ordered
  Nobody,       \* no owner
  Live,         \* TRUE for a LIVE account, FALSE for a PAPER one
  OrderQty,     \* units an entry orders; the broker fills them one by one
  MaxFaults,    \* bound: crashes, failed statements and lost acknowledgements
  MaxExternal   \* bound: BUYs placed at the broker by somebody else

ASSUME ConstantsAssumption ==
  /\ Intents \cap Adoptions = {}
  /\ Nobody \notin Intents \cup Adoptions
  /\ Live \in BOOLEAN
  /\ OrderQty \in Nat \ {0}
  /\ MaxFaults \in Nat
  /\ MaxExternal \in Nat

Owners == Intents \cup Adoptions

VARIABLES
  intent,   \* OrderIntent.status
  reason,   \* OrderIntent.blockReason class
  claim,    \* EntryExposureClaim.status ("none": no row; RELEASED: releasedAt set)
  ev,       \* delivery-evidence events of the claim
  rec,      \* durable dispatch record: "none", "weak" (telemetry or consumed
            \* LIVE arming only) or "durable" (consumption / unenforced dispatch)
  row,      \* local BrokerOrder.status ("none": no row)
  fills,    \* imported BUY fill quantity attributed to the intent
  pos,      \* status of the TrackedPosition attached to the claim
  loose,    \* an active TrackedPosition attached to no claim exists
  api,      \* the admission request of the intent
  pc,       \* step of the workflow holding the account lifecycle-mutation lock
  cur,      \* the intent that workflow is processing
  phase,    \* broker-boundary phase of the submission attempt
  err,      \* class of the error the submission attempt threw
  seen,     \* what an earlier step of the item read or decided
  rel,      \* an evidence-based release in progress, per process
  bk,       \* the broker's order for the intent
  bfill,    \* quantity the broker filled
  bpos,     \* whose BUYs make up the broker's position
  faults,   \* faults so far
  exts      \* external BUYs so far

intentVars == <<intent, reason>>
claimVars  == <<claim, ev>>
orderVars  == <<row, fills>>
posVars    == <<pos, loose>>
wkVars     == <<pc, cur, phase, err, seen>>
brokerVars == <<bk, bfill, bpos>>
vars == <<intent, reason, claim, ev, rec, row, fills, pos, loose, api,
          pc, cur, phase, err, seen, rel, bk, bfill, bpos, faults, exts>>

-----------------------------------------------------------------------------
(* Statuses *)

ClaimStatuses ==
  {"ENTRY_PENDING", "ENTRY_SUBMITTING", "BROKER_ORDER_ACTIVE", "PARTIALLY_FILLED",
   "FILLED_AWAITING_POSITION", "POSITION_OPEN", "POSITION_CLOSING",
   "ADMISSION_BLOCKED", "UNRESOLVED", "RELEASED"}

(* Claim statuses whose row is still unreleased. *)
HeldStatuses == ClaimStatuses \ {"RELEASED"}

transitions ==
  [s \in ClaimStatuses |->
     CASE s = "ENTRY_PENDING" ->
            {"ENTRY_SUBMITTING", "ADMISSION_BLOCKED", "UNRESOLVED", "RELEASED"}
       [] s = "ENTRY_SUBMITTING" -> {"BROKER_ORDER_ACTIVE", "UNRESOLVED", "RELEASED"}
       [] s = "BROKER_ORDER_ACTIVE" ->
            {"PARTIALLY_FILLED", "FILLED_AWAITING_POSITION", "POSITION_OPEN",
             "UNRESOLVED", "RELEASED"}
       [] s = "PARTIALLY_FILLED" ->
            {"FILLED_AWAITING_POSITION", "POSITION_OPEN", "UNRESOLVED", "RELEASED"}
       [] s = "FILLED_AWAITING_POSITION" -> {"POSITION_OPEN", "UNRESOLVED", "RELEASED"}
       [] s = "POSITION_OPEN" -> {"POSITION_CLOSING", "UNRESOLVED", "RELEASED"}
       [] s = "POSITION_CLOSING" -> {"POSITION_OPEN", "UNRESOLVED", "RELEASED"}
       [] s = "ADMISSION_BLOCKED" -> {"UNRESOLVED", "RELEASED"}
       [] OTHER -> {}]

canTransitionEntryExposureClaim(from, to) == from = to \/ to \in transitions[from]

(* Broker order statuses: open stands for every working status, canceled   *)
(* for canceled, expired and rejected, doneForDay for done_for_day and     *)
(* calculated (reported terminal, yet not conclusively non-executable).    *)
OrderStatuses == {"open", "partial", "filled", "canceled", "doneForDay"}

isTerminalBrokerOrderStatus(s) == s \in {"filled", "canceled", "doneForDay"}

ConclusiveStatuses == {"filled", "canceled"}

(* bk: none, sent (a POST is in flight), refused (the request can never    *)
(* become an order), or the status of the order the broker holds.          *)
BrokerStatuses == {"none", "sent", "refused"} \cup OrderStatuses

IntentStatuses ==
  {"none", "received", "pending", "submitting", "submitted", "blocked", "failed"}
    \cup OrderStatuses

TERMINAL_ENTRY_INTENT_STATUSES == {"failed", "blocked", "canceled"}

(* RECOVERABLE_CLAIM_STATUSES *)
RecoverableStatuses == PreDispatchClaimStatuses \cup {"UNRESOLVED"}

-----------------------------------------------------------------------------
(* Readings of the state *)

Held(o) == claim[o] \in HeldStatuses

(* The broker returns the order of i to a lookup by client order ID. *)
Visible(i) == bk[i] \in OrderStatuses

(* getCompleteOpenAlpacaBuyOrdersForSymbol(...) # [] *)
OpenBuyAtBroker == \E i \in Intents : bk[i] \in {"open", "partial"}

ActivePosition == loose \/ \E o \in Owners : pos[o] = "open"

(* Local BUY broker orders other than those of S that may still execute. *)
LocalExecutableBuy(S) ==
  \E j \in Intents \ S : row[j] \in OrderStatuses \ ConclusiveStatuses

(* A fault the environment may still inject. *)
Fault == faults < MaxFaults /\ faults' = faults + 1

-----------------------------------------------------------------------------
(* Control of the workflow that holds the account lifecycle-mutation lock. *)
(* It processes one item at a time; "idle" means the lock is free.         *)

Step(s) == pc' = s /\ UNCHANGED <<cur, phase, err, seen>>

StepSeen(s, what) == pc' = s /\ seen' = what /\ UNCHANGED <<cur, phase, err>>

Begin(s, i, what) ==
  pc = "idle" /\ pc' = s /\ cur' = i /\ seen' = what /\ UNCHANGED <<phase, err>>

(* The item ends, and with it everything the process held in memory. *)
Done ==
  /\ pc' = "idle" /\ cur' = Nobody /\ phase' = "pre"
  /\ err' = "none" /\ seen' = "none"

-----------------------------------------------------------------------------
(* Claim operations.  An operation that throws is a predicate of the       *)
(* caller's guard; an operation that writes is an action on claimVars.     *)

(* transitionEntryExposureClaim(...) does not throw *)
TransitionAllowed(i, to) ==
  Held(i) /\ canTransitionEntryExposureClaim(claim[i], to)

(* transitionEntryExposureClaim(...).catch(() => undefined) *)
TransitionIgnoringErrors(i, to) ==
  claim' = IF TransitionAllowed(i, to) THEN [claim EXCEPT ![i] = to] ELSE claim

AppendEvidence(i, kind) == ev' = [ev EXCEPT ![i] = Append(@, kind)]

(* recordEntryDispatchOutcome: retains the claim as UNRESOLVED unless it   *)
(* already reflects broker exposure (a diagnostic only) or is released.    *)
recordEntryDispatchOutcome(i, kind) ==
  IF claim[i] \in RecoverableStatuses
  THEN claim' = [claim EXCEPT ![i] = "UNRESOLVED"] /\ AppendEvidence(i, kind)
  ELSE UNCHANGED claimVars

(* The checks of releaseUnsubmittedEntryExposureClaimLocked on a held      *)
(* claim; it throws when they fail.  r is the block reason it reads.       *)
MayReleaseUnsubmitted(i, r) ==
  /\ claim[i] \in PreDispatchClaimStatuses
  /\ row[i] = "none" /\ fills[i] = 0 /\ rec[i] = "none"
  /\ evaluateNeverSubmittedRelease(claim[i], ev[i], r)
  /\ pos[i] # "open"

ReleaseThrows(i, r) == Held(i) /\ ~ MayReleaseUnsubmitted(i, r)

(* releaseUnsubmittedEntryExposureClaim when it does not throw. *)
releaseUnsubmittedEntryExposureClaim(i) ==
  claim' = IF Held(i) THEN [claim EXCEPT ![i] = "RELEASED"] ELSE claim

-----------------------------------------------------------------------------
(* Evidence-based release: an assessment that reads the database and the   *)
(* broker, then a revalidation and compare-and-set under the               *)
(* account/Security advisory lock.  Between the two, other processes run.  *)

Procs == {"wk", "op"}

RelKinds == {"none", "verified", "record", "confirmed", "adopted"}

NoRelease == [kind |-> "none", own |-> Nobody, status |-> "RELEASED", n |-> 0, rec |-> FALSE]

(* What the revalidation compares with the state it finds. *)
Assessed(kind, o) ==
  [kind |-> kind, own |-> o, status |-> claim[o],
   n |-> IF o \in Intents THEN Len(ev[o]) ELSE 0,
   rec |-> o \in Intents /\ rec[o] # "none"]

(* localExposure: no order, activity or position stands against a release. *)
NoLocalExposure(i) ==
  /\ row[i] = "none" /\ fills[i] = 0
  /\ ~ ActivePosition /\ pos[i] = "none"
  /\ ~ LocalExecutableBuy({})

(* assessEntryClaimRelease(...).eligible *)
assessEntryClaimRelease(i, settled) ==
  /\ claim[i] \in RecoverableStatuses
  /\ evaluateDispatchReleaseBasis(ev[i], settled) = "CONCLUSIVE"
  /\ rec[i] # "none" \/ DispatchOutcomes(ev[i]) # {} => claim[i] = "UNRESOLVED"
  /\ intent[i] \in TERMINAL_ENTRY_INTENT_STATUSES
  /\ NoLocalExposure(i)
  /\ ~ Visible(i) /\ ~ OpenBuyAtBroker /\ bpos = {}

(* The final revalidation of releaseVerifiedEntryExposureClaim. *)
RevalidateVerified(r) ==
  /\ claim[r.own] = r.status
  /\ intent[r.own] \in TERMINAL_ENTRY_INTENT_STATUSES
  /\ NoLocalExposure(r.own)
  /\ Len(ev[r.own]) = r.n
  /\ (rec[r.own] # "none") = r.rec

(* Mutant of BrokerConfirmsNoExposure: the broker position is not read. *)
ConfirmsWithoutPositionCheck(i) ==
  /\ bk[i] \in ConclusiveStatuses
  /\ ~ OpenBuyAtBroker
  /\ fills[i] >= bfill[i]

(* Mutant of BrokerConfirmsNoExposure: every terminal status is conclusive. *)
ConfirmsAnyTerminalStatus(i) ==
  /\ isTerminalBrokerOrderStatus(bk[i])
  /\ bpos = {} /\ ~ OpenBuyAtBroker
  /\ fills[i] >= bfill[i]

(* The broker evidence releaseConfirmedTerminalEntryClaim requires. *)
BrokerConfirmsNoExposure(i) ==
  /\ bk[i] \in ConclusiveStatuses
  /\ bpos = {} /\ ~ OpenBuyAtBroker
  /\ fills[i] >= bfill[i]

(* Mutant of RevalidateConfirmed: positions are not counted again. *)
RevalidateIgnoringPositions(r) ==
  /\ Held(r.own)
  /\ ~ LocalExecutableBuy({r.own})
  /\ fills[r.own] >= bfill[r.own]

(* Its final revalidation under the advisory lock. *)
RevalidateConfirmed(r) ==
  /\ Held(r.own)
  /\ ~ ActivePosition
  /\ ~ LocalExecutableBuy({r.own})
  /\ fills[r.own] >= bfill[r.own]

(* The final revalidation of releaseClosedAdoptedPositionClaim. *)
RevalidateAdopted(r) ==
  /\ Held(r.own)
  /\ pos[r.own] = "closed" /\ ~ ActivePosition
  /\ ~ LocalExecutableBuy({})

Revalidated(r) ==
  \/ r.kind = "verified" /\ RevalidateVerified(r)
  \/ r.kind = "confirmed" /\ RevalidateConfirmed(r)
  \/ r.kind = "adopted" /\ RevalidateAdopted(r)

(* The locked revalidation and compare-and-set of process p. *)
CommitRelease(p) ==
  /\ rel[p].kind \in {"verified", "confirmed", "adopted"}
  /\ claim' = IF Revalidated(rel[p])
              THEN [claim EXCEPT ![rel[p].own] = "RELEASED"] ELSE claim
  /\ rel' = [rel EXCEPT ![p] = NoRelease]
  /\ UNCHANGED ev
=============================================================================
