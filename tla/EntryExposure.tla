---------------------------- MODULE EntryExposure ----------------------------
(***************************************************************************)
(* The entry-exposure lifecycle of one account/Security pair: admission,   *)
(* the order worker, recovery, the operator, broker synchronisation and    *)
(* the broker itself, interleaved.                                         *)
(***************************************************************************)
EXTENDS EntryAdmission, EntryRecovery, EntrySync

Steps ==
  {"idle", "wRequire", "wCas", "wRead", "wClaim", "wClaimEv", "wRisk", "bExec",
   "bLookup", "bLocal", "bAuth", "bMark", "bPost", "bAwait", "wAccept", "wPersist",
   "wCatch", "wRelease", "wRoute", "outcome", "outcomeEv", "assess", "commit",
   "confirm", "sLookup", "sSubmitted", "sLink", "sAbsent", "record",
   "oRow", "oIntent", "oClaim", "aImport", "aStore", "aFull", "pTrack", "pClose"}

Release ==
  [kind : RelKinds, own : Owners \cup {Nobody}, status : ClaimStatuses \cup {"none"},
   n : Nat, rec : BOOLEAN]

(* Entries a release without the marker protocol left behind: terminal     *)
(* ones whose block reason says what was known (no request for a local     *)
(* refusal; anything for an uncertain or unclassified failure), and ones   *)
(* whose worker died.                                                      *)
LegacyEntries ==
  [intent : {"failed"}, reason : {"guard", "notSent"}, bk : {"none"}]
    \cup [intent : {"blocked"}, reason : {"risk"}, bk : {"none"}]
    \cup [intent : {"failed"}, reason : {"uncertain", "other"},
          bk : {"none", "sent", "refused", "open"}]
    \cup [intent : {"submitting"}, reason : {"none"}, bk : {"none", "sent", "open"}]

(* Either nothing was admitted yet, or the intent in `old' is a legacy one. *)
Init ==
  \E old \in {{}} \cup {{i} : i \in Intents}, l \in LegacyEntries :
    /\ intent = [i \in Intents |-> IF i \in old THEN l.intent ELSE "none"]
    /\ reason = [i \in Intents |-> IF i \in old THEN l.reason ELSE "none"]
    /\ claim = [o \in Owners |-> IF o \in old THEN "ENTRY_SUBMITTING" ELSE "none"]
    /\ ev = [i \in Intents |-> IF i \in old THEN <<"claimedV0">> ELSE <<>>]
    /\ rec = [i \in Intents |-> "none"]
    /\ row = [i \in Intents |-> "none"]
    /\ fills = [i \in Intents |-> 0]
    /\ pos = [o \in Owners |-> "none"]
    /\ loose = FALSE
    /\ api = [i \in Intents |-> IF i \in old THEN "done" ELSE "idle"]
    /\ pc = "idle" /\ cur = Nobody /\ phase = "pre" /\ err = "none" /\ seen = "none"
    /\ rel = [p \in Procs |-> NoRelease]
    /\ bk = [i \in Intents |-> IF i \in old THEN l.bk ELSE "none"]
    /\ bfill = [i \in Intents |-> 0]
    /\ bpos = {}
    /\ faults = 0
    /\ exts = 0

(* With the lock free the system may rest; a workflow that holds the lock  *)
(* and has no step left is a deadlock.                                     *)
Rest == pc = "idle" /\ UNCHANGED vars

Next == AdmissionNext \/ WorkerNext \/ RecoveryNext \/ SyncNext \/ BrokerNext \/ Rest

Spec == Init /\ [][Next]_vars

-----------------------------------------------------------------------------
(* Types of the state. *)
TypeOK ==
  /\ intent \in [Intents -> IntentStatuses]
  /\ reason \in [Intents -> BlockReasons]
  /\ claim \in [Owners -> ClaimStatuses \cup {"none"}]
  /\ ev \in [Intents -> Seq(EvidenceKinds)]
  /\ rec \in [Intents -> {"none", "weak", "durable"}]
  /\ row \in [Intents -> OrderStatuses \cup {"none"}]
  /\ fills \in [Intents -> Nat]
  /\ pos \in [Owners -> {"none", "open", "closed"}]
  /\ loose \in BOOLEAN
  /\ api \in [Intents -> ApiStates]
  /\ pc \in Steps
  /\ cur \in Owners \cup {Nobody}
  /\ phase \in Phases
  /\ err \in Errors
  /\ seen \in OrderStatuses \cup OutcomeKinds \cup {"none"}
  /\ rel \in [Procs -> Release]
  /\ bk \in [Intents -> BrokerStatuses]
  /\ bfill \in [Intents -> Nat]
  /\ bpos \subseteq Owners
  /\ faults \in Nat
  /\ exts \in Nat

(* What each step of the lock holder relies on: an item of its own, the    *)
(* order status or outcome an earlier step read or decided, and what it    *)
(* established about the local broker order that only it may write; a      *)
(* claim belongs to an admitted intent.                                    *)
ControlOK ==
  /\ pc \notin {"idle", "pTrack", "pClose"} => cur \in Intents
  /\ pc \in {"wAccept", "wPersist", "oRow", "oIntent", "oClaim"} => seen \in OrderStatuses
  /\ pc \in {"outcome", "outcomeEv"} => seen \in OutcomeKinds
  /\ pc \in {"bAuth", "bMark", "bPost"} => row[cur] = "none"
  /\ pc \in {"wAccept", "wPersist"} => Visible(cur)
  /\ pc = "sSubmitted" => row[cur] # "none" \/ (Visible(cur) /\ seen \in OrderStatuses)
  /\ pc \in {"oRow", "oIntent", "oClaim", "aStore", "aFull"} => row[cur] # "none"
  /\ \A i \in Intents : intent[i] = "none" => claim[i] = "none"
  /\ \A p \in Procs :
       /\ rel[p].kind \in {"verified", "confirmed"} => rel[p].own \in Intents
       /\ rel[p].kind = "verified" => rel[p].status \in HeldStatuses
       /\ rel[p].kind = "adopted" => rel[p].own \in Adoptions

(* No local broker order is invented: each one stands for an order the     *)
(* broker really holds, although rows are written by the worker, by stale  *)
(* recovery, by order sync and by fill import, from what earlier steps     *)
(* read.                                                                   *)
LocalOrderBacked == \A i \in Intents : row[i] # "none" => Visible(i)

-----------------------------------------------------------------------------
(* Safety *)

(* At most one claim of the account/Security pair is unreleased, although  *)
(* admissions, adoption of broker positions and every release race         *)
(* (acquireEntryExposureClaim, attachEntryExposureClaimToPosition).        *)
ExclusiveOwner == \A o, p \in Owners : Held(o) /\ Held(p) => o = p

(* A BUY that is on its way to the broker, or that may still execute       *)
(* there, is always covered by its own unreleased claim, whatever crashed, *)
(* timed out or was recovered in between.                                  *)
ExposureCovered ==
  \A i \in Intents : bk[i] \in {"sent", "open", "partial", "doneForDay"} => Held(i)

(* Shares bought by an entry are covered by its claim until they are sold. *)
PositionCovered == \A i \in bpos \cap Intents : Held(i)

(* An active tracked position attached to a claim keeps that claim held,   *)
(* and there is at most one active tracked position.                       *)
PositionOwned ==
  \A o \in Owners :
    pos[o] = "open" => Held(o) /\ ~ loose /\ \A p \in Owners : pos[p] = "open" => p = o

(* Not-sent evidence is true: when everything recorded for a claim says    *)
(* that no request was issued, none ever was, although the record may be   *)
(* written by another process than the one that stopped.                   *)
NotSentIsTrue ==
  \A i \in Intents :
    Classifications(ev[i]) # {} /\ Classifications(ev[i]) \subseteq LocalNonSend
      => bk[i] = "none"

(* The terminal-claim sweep makes progress on every claim it may take: a   *)
(* proven release is not refused, recorded not-sent evidence proves the    *)
(* release, and a recorded outcome leaves the claim to verification or to  *)
(* an operator instead of being recorded again on every tick.              *)
SweepMakesProgress ==
  \A i \in Intents :
    Held(i) /\ pos[i] = "none" /\ intent[i] \in TERMINAL_ENTRY_INTENT_STATUSES =>
      LET after(status, kind) ==
            classifyTerminalEntryClaim(status, Append(ev[i], kind), reason[i],
                                       rec[i] # "none", FALSE)
      IN CASE terminalClaimState(i) = "AUTOMATIC_NEVER_SUBMITTED_RELEASE" ->
                MayReleaseUnsubmitted(i, reason[i])
           [] terminalClaimState(i) = "AUTOMATIC_NOT_SENT_EVIDENCE_RECORDING" ->
                after(claim[i], "notSent") = "AUTOMATIC_NEVER_SUBMITTED_RELEASE"
           [] terminalClaimState(i) = "AUTOMATIC_OUTCOME_RECORDING" ->
                after("UNRESOLVED", sweepOutcome(i)) # "AUTOMATIC_OUTCOME_RECORDING"
           [] OTHER -> TRUE

-----------------------------------------------------------------------------
(* Action properties *)

(* A POST leaves only for an intent that never had one, that is still the  *)
(* worker's, whose claim is still held for submission and whose adapter    *)
(* invocation is durably marked: nothing that runs beside the worker can   *)
(* take any of that away between the last check and the POST.              *)
PostAuthorized ==
  [][\A i \in Intents : bk'[i] = "sent" /\ bk[i] # "sent" =>
       /\ bk[i] = "none"
       /\ intent[i] = "submitting" /\ claim[i] = "ENTRY_SUBMITTING"
       /\ Unpaired(ev[i]) # {}]_vars

(* A claim whose delivery is uncertain or unknown is released only once    *)
(* the broker holds a conclusively terminal order for it: absence of an    *)
(* order is never evidence (entry-dispatch-recovery.service.ts).           *)
NoReleaseOnAbsence ==
  [][\A i \in Intents :
       /\ Held(i) /\ claim'[i] = "RELEASED"
       /\ Ambiguous(ev[i]) \ {"rejected"} # {}
       => bk[i] \in ConclusiveStatuses]_vars

(* A released claim is never held again, and an UNRESOLVED one leaves that *)
(* status only by being released: no late observation of a worker, a sync  *)
(* or an import makes it executable or attaches it.                        *)
ReviewedOwnership ==
  [][\A o \in Owners :
       /\ claim[o] = "RELEASED" => claim'[o] = "RELEASED"
       /\ claim[o] = "UNRESOLVED" =>
            claim'[o] \in {"UNRESOLVED", "RELEASED"} /\ (pos[o] = "none" => pos'[o] = "none")]_vars

-----------------------------------------------------------------------------
(* Refinement *)

(* The claim protocol implements single ownership of the exposure: the     *)
(* owner is whoever holds the unreleased claim, and an entry is exposed    *)
(* from its POST until its order can no longer execute and its shares are  *)
(* sold.                                                                   *)
Ownership ==
  INSTANCE ExposureOwnership WITH
    owner <- IF \E o \in Owners : Held(o) THEN CHOOSE o \in Owners : Held(o) ELSE Nobody,
    exposed <- {i \in Intents : bk[i] \in {"sent", "open", "partial", "doneForDay"} \/ i \in bpos}

ImplementsOwnership == Ownership!Spec

-----------------------------------------------------------------------------
(* Liveness.  The process that holds the lock goes on; every scheduled     *)
(* workflow gets the lock again and again while it has work (each worker   *)
(* tick tries every account, and the try-lock of a tick that lost is tried *)
(* again on the next); the settle window of a rejection elapses; and the   *)
(* broker answers a request it received.                                   *)
Fairness ==
  /\ WF_vars(WorkerStep \/ RecoveryStep \/ SyncStep)
  /\ SF_vars(AssessVerified(TRUE))
  /\ SF_vars(SnapshotPositions)
  /\ \A i \in Intents :
       /\ SF_vars(ListPending(i)) /\ SF_vars(RecoverStaleSubmitting(i))
       /\ SF_vars(SweepClaim(i)) /\ SF_vars(RecoverStaleAdmission(i))
       /\ SF_vars(SyncOrder(i)) /\ SF_vars(ImportFill(i)) /\ SF_vars(ReconcileClosedClaim(i))
       /\ WF_vars(BrokerAccept(i) \/ BrokerRefuse(i))

FairSpec == Spec /\ Fairness

(* An entry whose request never left does not hold the account/Security    *)
(* pair for ever: its claim is released, put under review (UNRESOLVED) or  *)
(* taken over by a position, whichever process died on the way.            *)
NeverSentResolved ==
  \A i \in Intents :
    (Held(i) /\ bk[i] = "none") ~>
      (~ Held(i) \/ claim[i] = "UNRESOLVED" \/ pos[i] # "none" \/ bk[i] # "none")

(* A closed position whose entry order is known here and can no longer     *)
(* execute gives its claim back, or hands it to review: the release that   *)
(* position sync could not finish is retried by reconciliation.            *)
ClosedPositionReleased ==
  \A i \in Intents :
    (pos[i] = "closed" /\ Held(i) /\ row[i] # "none" /\ bk[i] \in ConclusiveStatuses)
      ~> (~ Held(i) \/ claim[i] = "UNRESOLVED")
-----------------------------------------------------------------------------
(* A statement of the repository that the code does not keep *)

(* src/services/entry-dispatch-recovery.service.ts:749, of a terminal      *)
(* intent with a local broker order: "order sync and terminal broker-order *)
(* remediation own the claim".  Order sync then has to learn that the      *)
(* order was canceled.                                                     *)
TerminalOrderObserved ==
  \A i \in Intents :
    (Held(i) /\ row[i] # "none" /\ bk[i] = "canceled") ~> (row[i] = "canceled" \/ ~ Held(i))
=============================================================================
