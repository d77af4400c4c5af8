------------------------ MODULE EntryCoverageProofs ------------------------
(***************************************************************************)
(* Proofs that the claim of an entry covers everything the entry may still *)
(* do at the broker, for every set of intents and adoptions, PAPER or      *)
(* LIVE, and every bound.  The argument: an intent is submitted in one     *)
(* attempt only, so what was recorded as not sent, while the intent was    *)
(* leaving that attempt, stays true (UnsentOK, Over); a release under      *)
(* the never-submitted standard or on conclusive evidence therefore finds  *)
(* nothing at the broker, and one that was assessed before other processes *)
(* ran is still right when it commits (ReleaseOK).                         *)
(***************************************************************************)
EXTENDS EntryExposureProofs

(* The intent has not left its admission or its one submission attempt. *)
Early == {"none", "received", "pending", "submitting"}
Over(i) == intent[i] \notin Early

(* Steps of the attempt before its POST, and those after its intent was    *)
(* claimed.                                                                *)
BeforePost == {"wRequire", "wCas", "wRead", "wClaim", "wClaimEv", "wRisk", "bExec",
               "bLookup", "bLocal", "bAuth", "bMark", "bPost"}
Attempt == (BeforePost \ {"wRequire", "wCas"}) \cup {"bAwait"}

(* A log holds an event of one of the given kinds. *)
Has(log, kinds) == \E k \in DOMAIN log : log[k] \in kinds
Records == OutcomeKinds \cup {"notSent"}

(* Nothing is recorded of an early intent. *)
EarlyOK(i) == intent[i] \in Early => ~ Has(ev[i], Records) /\ reason[i] = "none"

(* Reasons that say no request was made. *)
UnsentReasons == {"guard", "notSent", "risk", "recorded"}

(* What shows that no request was made: a status, the absence of a marker, *)
(* a record, a reason.                                                     *)
Unsent(i) ==
  \/ intent[i] \in {"none", "received", "pending"}
  \/ claim[i] \in {"none", "ENTRY_PENDING", "ADMISSION_BLOCKED"}
  \/ Has(ev[i], {"claimed"}) /\ ~ Has(ev[i], {"marker"})
  \/ Has(ev[i], LocalNonSend)
  \/ reason[i] \in UnsentReasons

UnsentOK(i) == Unsent(i) => bk[i] = "none"

(* A rejection that was recorded is the broker's. *)
RefusedOK(i) == reason[i] = "rejected" \/ Has(ev[i], {"rejected"}) => bk[i] = "refused"

(* Shares were bought by an order; fills are imported for local orders. *)
BoughtOK(i) ==
  /\ i \in bpos => Visible(i)
  /\ row[i] = "none" => fills[i] = 0

(* A reason that carries uncertainty goes with a claim that left the       *)
(* statuses before dispatch, unless a release without markers wrote it.    *)
UncertainOK(i) ==
  blockReasonCarriesDeliveryUncertainty(reason[i]) /\ claim[i] \in PreDispatchClaimStatuses
    => ~ Has(ev[i], {"claimed"})

IntentOK(i) == EarlyOK(i) /\ UnsentOK(i) /\ RefusedOK(i) /\ BoughtOK(i) /\ UncertainOK(i)

(* The attempt owns its intent, from its check also the claim, and it      *)
(* leaves a marker before it posts; whoever classifies a failure or        *)
(* releases afterwards works on an intent that is over.                    *)
AttemptOK ==
  /\ pc \in Attempt => intent[cur] = "submitting"
  /\ pc \in {"bLookup", "bLocal", "bAuth", "bMark", "bPost"} => claim[cur] = "ENTRY_SUBMITTING"
  /\ pc = "bPost" => Has(ev[cur], {"marker"})
  /\ pc \in {"wRelease", "wRoute", "outcome", "outcomeEv", "assess", "record"} => Over(cur)

(* The phase of the submission boundary at each step. *)
PhaseOK ==
  /\ pc \in {"idle", "wRequire", "wCas", "wRead", "wClaim", "wClaimEv", "wRisk", "sLookup",
             "sSubmitted", "sLink", "sAbsent", "record", "oRow", "oIntent", "oClaim", "aImport",
             "aStore", "aFull", "pTrack", "pClose"} => phase = "pre"
  /\ pc \in {"bExec", "bLookup", "bLocal"} => phase = "unclassified"
  /\ pc \in {"bAuth", "bMark"} => phase = "notDispatched"
  /\ pc \in {"bPost", "bAwait"} => phase = "started"
  /\ pc \in {"wAccept", "wPersist"} => phase \in {"existing", "responded"}
  /\ pc = "confirm" => phase \in {"pre", "existing", "responded"}
  /\ pc = "wCatch" /\ err \in {"rejected", "rejectedOther"} => phase = "started"

(* Steps at which no request was made for the item. *)
NotYetSent ==
  \/ pc \in BeforePost \cup {"record"}
  \/ pc = "wCatch" /\ phase \in {"pre", "unclassified", "notDispatched"}
  \/ pc = "wCatch" /\ err \in {"guard", "recorded"}
  \/ pc \in {"wRelease", "wRoute"} /\ phase = "notDispatched"
  \/ pc \in {"outcome", "outcomeEv"} /\ seen \in LocalNonSend

(* Steps that know of a rejection. *)
Rejection ==
  \/ pc = "wCatch" /\ err = "rejected"
  \/ pc \in {"outcome", "outcomeEv"} /\ seen = "rejected"

ItemOK ==
  /\ AttemptOK /\ PhaseOK
  /\ NotYetSent => bk[cur] = "none"
  /\ Rejection => bk[cur] = "refused"

(* What an assessment found at the broker is still so. *)
Settled(r) ==
  /\ r.kind = "verified" =>
       /\ Over(r.own) /\ bk[r.own] \in {"none", "refused"}
       /\ r.n <= Len(ev[r.own])
       /\ r.n = Len(ev[r.own]) => Ambiguous(ev[r.own]) \subseteq {"rejected"}
  /\ r.kind = "confirmed" => bk[r.own] \in ConclusiveStatuses /\ r.own \notin bpos

ReleaseOK == \A p \in Procs : Settled(rel[p])

Evidence == (\A i \in Intents : IntentOK(i)) /\ ItemOK /\ ReleaseOK

Coverage == ExposureCovered /\ PositionCovered /\ PositionOwned

(* What a release may find of an owner: no order that may still execute,   *)
(* no shares, no open position, and no uncertain delivery unless the       *)
(* broker's order is conclusively over.                                    *)
Exposing == {"sent", "open", "partial", "doneForDay"}
Clear(o) ==
  /\ pos[o] # "open"
  /\ o \in Intents =>
       /\ bk[o] \notin Exposing /\ o \notin bpos
       /\ Ambiguous(ev[o]) \subseteq {"rejected"} \/ bk[o] \in ConclusiveStatuses

(* Claims are released only when Clear. *)
Releases == \A o \in Owners : Held(o) => Held(o)' \/ Clear(o)

-----------------------------------------------------------------------------
(* Changes of one entry *)

(* The log is kept or one event longer, and an intent that is over stays so. *)
Grown(i) ==
  /\ Over(i) => Over(i)'
  /\ ev'[i] = ev[i] \/ \E k \in EvidenceKinds : ev'[i] = Append(ev[i], k)

(* A change that says nothing about delivery: the intent may leave its     *)
(* attempt and the claim the statuses before dispatch.                     *)
Harmless(i) ==
  /\ bk'[i] = bk[i] /\ bpos' = bpos /\ ev'[i] = ev[i]
  /\ reason'[i] \in {reason[i], "none"}
  /\ intent'[i] = intent[i] \/ intent'[i] \notin Early
  /\ claim'[i] = claim[i] \/ claim'[i] \notin PreDispatchClaimStatuses \cup {"none"}
  /\ row'[i] = "none" => row[i] = "none" /\ fills'[i] = fills[i]

(* A change of an entry for which no request was made. *)
Fresh(i) ==
  /\ bk[i] = "none" /\ bk'[i] = bk[i] /\ bpos' = bpos
  /\ \/ ev'[i] = ev[i]
     \/ \E k \in EvidenceKinds \ {"rejected"} : ev'[i] = Append(ev[i], k)
  /\ reason'[i] # "rejected"
  /\ row'[i] = row[i] /\ fills'[i] = fills[i]
  /\ EarlyOK(i)' /\ UncertainOK(i)'
  /\ Over(i) => Over(i)'

(* A release in progress is kept, dropped, or was assessed in this step.   *)
NewRelease == \A p \in Procs : rel'[p] = rel[p] \/ rel'[p] = NoRelease \/ Settled(rel[p])'

(* One more event is all that an appended log holds in addition. *)
LEMMA HasAppend ==
  ASSUME NEW log \in Seq(EvidenceKinds), NEW k \in EvidenceKinds, NEW K
  PROVE  /\ Has(Append(log, k), K) <=> Has(log, K) \/ k \in K
         /\ Len(Append(log, k)) = Len(log) + 1
  <1>1. /\ DOMAIN Append(log, k) = 1..(Len(log) + 1)
        /\ \A j \in DOMAIN log : Append(log, k)[j] = log[j]
        /\ Append(log, k)[Len(log) + 1] = k
        /\ DOMAIN log = 1..Len(log) /\ Len(log) \in Nat
    OBVIOUS
  <1>2. Has(log, K) => Has(Append(log, k), K)
    BY <1>1 DEF Has
  <1>3. k \in K => Has(Append(log, k), K)
    BY <1>1 DEF Has
  <1>4. Has(Append(log, k), K) => Has(log, K) \/ k \in K
    BY <1>1 DEF Has
  <1> QED BY <1>2, <1>3, <1>4

(* A harmless change keeps what is known of the entry. *)
LEMMA HarmlessKeeps ==
  ASSUME NEW i \in Intents, IntentOK(i), Harmless(i)
  PROVE  IntentOK(i)' /\ Grown(i)
  BY DEF IntentOK, Harmless, Grown, EarlyOK, Early, Over, UnsentOK, Unsent, UnsentReasons,
         RefusedOK, BoughtOK, UncertainOK, Visible, Records,
         blockReasonCarriesDeliveryUncertainty, PreDispatchClaimStatuses

(* So does a change of an entry for which no request was made. *)
LEMMA FreshKeeps ==
  ASSUME TypeOK, NEW i \in Intents, IntentOK(i), Fresh(i)
  PROVE  IntentOK(i)' /\ Grown(i)
  <1>1. ev[i] \in Seq(EvidenceKinds)
    BY DEF TypeOK
  <1>2. ~ Has(ev[i], {"rejected"})
    BY DEF IntentOK, RefusedOK, Fresh
  <1>3. ~ Has(ev'[i], {"rejected"})
    <2>1. CASE ev'[i] = ev[i]
      BY <1>2, <2>1
    <2>2. CASE ev'[i] # ev[i]
      <3>1. PICK k \in EvidenceKinds \ {"rejected"} : ev'[i] = Append(ev[i], k)
        BY <2>2 DEF Fresh
      <3>2. Has(Append(ev[i], k), {"rejected"}) <=> Has(ev[i], {"rejected"}) \/ k \in {"rejected"}
        BY <1>1, HasAppend
      <3> QED BY <1>2, <3>1, <3>2
    <2> QED BY <2>1, <2>2
  <1>4. Grown(i)
    BY DEF Grown, Fresh
  <1>5. RefusedOK(i)' /\ UnsentOK(i)' /\ BoughtOK(i)'
    BY <1>3 DEF RefusedOK, UnsentOK, BoughtOK, Fresh, IntentOK, Visible
  <1> QED BY <1>4, <1>5 DEF Fresh, IntentOK

(* A pending release stays right whatever the other processes append, and  *)
(* so does everything else, when each entry keeps its evidence.            *)
LEMMA WholeKeeps ==
  ASSUME IInv, Evidence, UNCHANGED <<bk, bpos>>, NewRelease, ItemOK',
         \A i \in Intents : IntentOK(i)' /\ Grown(i)
  PROVE  Evidence'
  <1>1. ASSUME NEW p \in Procs PROVE Settled(rel[p])'
    <2>1. CASE rel'[p] = NoRelease
      BY <2>1, NoReleaseType DEF Settled
    <2>2. CASE rel'[p] = rel[p] /\ rel[p].kind = "verified"
      <3>1. rel[p].own \in Intents /\ Settled(rel[p])
        BY <2>2 DEF IInv, ControlOK, Evidence, ReleaseOK
      <3>2. /\ ev[rel[p].own] \in Seq(EvidenceKinds)
            /\ rel[p].n \in Nat
        BY <3>1 DEF IInv, TypeOK, Release
      <3>3. CASE ev'[rel[p].own] = ev[rel[p].own]
        BY <2>2, <3>1, <3>2, <3>3 DEF Settled, Grown
      <3>4. CASE ev'[rel[p].own] # ev[rel[p].own]
        <4>1. PICK k \in EvidenceKinds : ev'[rel[p].own] = Append(ev[rel[p].own], k)
          BY <3>1, <3>4 DEF Grown
        <4>2. Len(ev'[rel[p].own]) = Len(ev[rel[p].own]) + 1 /\ Len(ev[rel[p].own]) \in Nat
          BY <3>2, <4>1, HasAppend
        <4> QED BY <2>2, <3>1, <3>2, <4>2 DEF Settled, Grown
      <3> QED BY <3>3, <3>4
    <2>3. CASE rel'[p] = rel[p] /\ rel[p].kind # "verified"
      BY <2>3 DEF Settled, Evidence, ReleaseOK
    <2> QED BY <2>1, <2>2, <2>3 DEF NewRelease
  <1> QED BY <1>1 DEF Evidence, ReleaseOK

-----------------------------------------------------------------------------
(* What the release standards imply *)

(* A claim that may be released as never submitted has nothing at the      *)
(* broker (releaseUnsubmittedEntryExposureClaimLocked).                    *)
LEMMA UnsubmittedIsClear ==
  ASSUME IInv, Evidence, NEW i \in Intents, NEW r, MayReleaseUnsubmitted(i, r)
  PROVE  /\ Clear(i) /\ bk[i] = "none"
         /\ intent[i] = "submitting" => claim[i] # "ENTRY_SUBMITTING"
  <1>1. IntentOK(i)
    BY DEF Evidence
  <1>2. \/ claim[i] \in {"ENTRY_PENDING", "ADMISSION_BLOCKED"}
        \/ Has(ev[i], {"notSent"})
    BY DEF MayReleaseUnsubmitted, evaluateNeverSubmittedRelease, Classifications, Recorded, Has
  <1>3. Has(ev[i], {"notSent"}) => Has(ev[i], LocalNonSend) /\ Has(ev[i], Records)
    BY DEF Has, LocalNonSend, Records
  <1>4. bk[i] = "none"
    BY <1>1, <1>2, <1>3 DEF IntentOK, UnsentOK, Unsent
  <1>5. i \notin bpos
    BY <1>1, <1>4 DEF IntentOK, BoughtOK, Visible, OrderStatuses
  <1>6. Ambiguous(ev[i]) = {} /\ pos[i] # "open"
    BY DEF MayReleaseUnsubmitted, evaluateNeverSubmittedRelease
  <1>7. intent[i] = "submitting" => claim[i] # "ENTRY_SUBMITTING"
    BY <1>1, <1>2, <1>3 DEF IntentOK, EarlyOK, Early
  <1> QED BY <1>4, <1>5, <1>6, <1>7 DEF Clear, Exposing

(* A conclusive release basis was recorded of an attempt that left nothing *)
(* at the broker, whatever the lookup says (assessEntryClaimRelease).      *)
LEMMA AssessedIsSettled ==
  ASSUME IInv, Evidence, NEW i \in Intents, NEW settled, assessEntryClaimRelease(i, settled)
  PROVE  Settled(Assessed("verified", i)) /\ Over(i) /\ Held(i)
  <1>1. IntentOK(i)
    BY DEF Evidence
  <1> DEFINE found == Classifications(ev[i])
  <1>2. found # {} /\ found \subseteq LocalNonSend \cup {"rejected"}
    BY DEF assessEntryClaimRelease, evaluateDispatchReleaseBasis
  <1>3. Has(ev[i], LocalNonSend) \/ Has(ev[i], {"rejected"})
    <2>1. PICK c \in found : c \in LocalNonSend \cup {"rejected"}
      BY <1>2
    <2>2. c # "unknown"
      BY <2>1 DEF LocalNonSend
    <2>3. PICK k \in DOMAIN ev[i] : ev[i][k] = c
      BY <2>1, <2>2 DEF Classifications, Recorded
    <2> QED BY <2>1, <2>3 DEF Has
  <1>4. bk[i] \in {"none", "refused"}
    BY <1>1, <1>3 DEF IntentOK, UnsentOK, Unsent, RefusedOK
  <1>5. Over(i)
    BY DEF assessEntryClaimRelease, Over, Early, TERMINAL_ENTRY_INTENT_STATUSES
  <1>6. Ambiguous(ev[i]) \subseteq {"rejected"}
    BY <1>2 DEF Ambiguous
  <1>7. Held(i)
    BY DEF assessEntryClaimRelease, Held, HeldStatuses, ClaimStatuses, RecoverableStatuses,
           PreDispatchClaimStatuses
  <1>8. /\ Assessed("verified", i).kind = "verified"
        /\ Assessed("verified", i).own = i
        /\ Assessed("verified", i).n = Len(ev[i])
    BY DEF Assessed
  <1>9. Len(ev[i]) \in Nat
    BY DEF IInv, TypeOK
  <1> HIDE DEF found
  <1> QED BY <1>4, <1>5, <1>6, <1>7, <1>8, <1>9 DEF Settled

(* The broker's confirmation is about an order that is over and about an   *)
(* empty position.                                                         *)
LEMMA ConfirmedIsSettled ==
  ASSUME NEW i \in Intents, BrokerConfirmsNoExposure(i)
  PROVE  Settled(Assessed("confirmed", i))
  <1>1. /\ Assessed("confirmed", i).kind = "confirmed"
        /\ Assessed("confirmed", i).own = i
    BY DEF Assessed
  <1> QED BY <1>1 DEF Settled, BrokerConfirmsNoExposure

(* Other assessments claim nothing about the broker's order. *)
LEMMA OtherIsSettled ==
  ASSUME NEW kind \in {"record", "adopted"}, NEW o
  PROVE  Settled(Assessed(kind, o))
  <1>1. Assessed(kind, o).kind = kind
    BY DEF Assessed
  <1> QED BY <1>1 DEF Settled

(* What the locked revalidation lets through is Clear, although other      *)
(* processes ran since the assessment.                                     *)
LEMMA RevalidatedIsClear ==
  ASSUME IInv, Evidence, NEW p \in Procs, Revalidated(rel[p])
  PROVE  rel[p].own \in Owners /\ Clear(rel[p].own) /\ claim[rel[p].own] # "none"
  <1> DEFINE o == rel[p].own
  <1>1. Settled(rel[p])
    BY DEF Evidence, ReleaseOK
  <1>2. CASE rel[p].kind = "verified"
    <2>1. o \in Intents /\ claim[o] # "none" /\ IntentOK(o)
      BY <1>2 DEF IInv, ControlOK, Evidence, Revalidated, RevalidateVerified, HeldStatuses,
                  ClaimStatuses
    <2>2. Len(ev[o]) = rel[p].n /\ pos[o] # "open"
      BY <1>2 DEF Revalidated, RevalidateVerified, NoLocalExposure
    <2>3. bk[o] \in {"none", "refused"} /\ Ambiguous(ev[o]) \subseteq {"rejected"}
      BY <1>1, <1>2, <2>2 DEF Settled
    <2>4. o \notin bpos
      BY <2>1, <2>3 DEF IntentOK, BoughtOK, Visible, OrderStatuses
    <2> HIDE DEF o
    <2> QED BY <2>1, <2>2, <2>3, <2>4 DEF Clear, Exposing, o, Owners
  <1>3. CASE rel[p].kind = "confirmed"
    <2>1. o \in Intents /\ Held(o) /\ ~ ActivePosition
      BY <1>3 DEF IInv, ControlOK, Revalidated, RevalidateConfirmed
    <2>2. bk[o] \in ConclusiveStatuses /\ o \notin bpos
      BY <1>1, <1>3 DEF Settled
    <2>3. o \in Owners /\ pos[o] # "open"
      BY <2>1 DEF ActivePosition, Owners
    <2> HIDE DEF o
    <2> QED BY <2>1, <2>2, <2>3 DEF Clear, Exposing, ConclusiveStatuses, Held, HeldStatuses,
                                    ClaimStatuses, o
  <1>4. CASE rel[p].kind = "adopted"
    <2>1. o \in Adoptions /\ Held(o) /\ pos[o] = "closed"
      BY <1>4 DEF IInv, ControlOK, Revalidated, RevalidateAdopted
    <2>2. o \in Owners /\ o \notin Intents
      BY <2>1, ConstantsAssumption DEF Owners
    <2> HIDE DEF o
    <2> QED BY <2>1, <2>2 DEF Clear, Held, HeldStatuses, ClaimStatuses, o
  <1> QED BY <1>2, <1>3, <1>4 DEF Revalidated

-----------------------------------------------------------------------------
(* Admission *)

(* A step of nobody but an admission request or an operator leaves the     *)
(* lock holder's item as it is.                                            *)
LEMMA ItemKept ==
  ASSUME IInv, Evidence, UNCHANGED <<pc, cur, phase, err, seen, ev>>,
         \A i \in Intents :
           /\ bk[i] \in {"none", "refused"} => bk'[i] = bk[i]
           /\ Over(i) => Over(i)'
           /\ intent[i] = "submitting" =>
                /\ intent'[i] = "submitting"
                /\ bk[i] = "none" /\ claim[i] = "ENTRY_SUBMITTING"
                     => claim'[i] = "ENTRY_SUBMITTING"
  PROVE  ItemOK'
  <1>1. pc \notin {"idle", "pTrack", "pClose"} => cur \in Intents
    BY DEF IInv, ControlOK
  <1>2. AttemptOK' /\ PhaseOK'
    BY <1>1 DEF Evidence, ItemOK, AttemptOK, PhaseOK, Attempt, BeforePost, NotYetSent
  <1>3. (NotYetSent => bk[cur] = "none")'
    BY <1>1 DEF Evidence, ItemOK, NotYetSent, BeforePost
  <1>4. (Rejection => bk[cur] = "refused")'
    BY <1>1 DEF Evidence, ItemOK, Rejection
  <1> QED BY <1>2, <1>3, <1>4 DEF ItemOK

(* Steps that keep every claim held release nothing. *)
LEMMA HeldKept ==
  ASSUME UNCHANGED claim
  PROVE  Releases
  BY DEF Releases, Held

(* The never-submitted release of one entry. *)
LEMMA UnsubmittedReleases ==
  ASSUME IInv, Evidence, NEW i \in Intents, NEW r, ~ ReleaseThrows(i, r),
         releaseUnsubmittedEntryExposureClaim(i)
  PROVE  /\ Releases
         /\ \A j \in Intents : claim'[j] = claim[j] \/ claim'[j] = "RELEASED"
         /\ \A j \in Intents : intent[j] = "submitting" /\ claim[j] = "ENTRY_SUBMITTING"
              => claim'[j] = claim[j]
         /\ Held(i) => bk[i] = "none"
  <1>1. CASE ~ Held(i)
    <2>1. claim' = claim
      BY <1>1 DEF releaseUnsubmittedEntryExposureClaim
    <2> QED BY <1>1, <2>1, HeldKept
  <1>2. CASE Held(i)
    <2>1. /\ claim' = [claim EXCEPT ![i] = "RELEASED"]
          /\ claim \in [Owners -> ClaimStatuses \cup {"none"}]
      BY <1>2 DEF releaseUnsubmittedEntryExposureClaim, IInv, TypeOK
    <2>2. /\ Clear(i) /\ bk[i] = "none"
          /\ intent[i] = "submitting" => claim[i] # "ENTRY_SUBMITTING"
      BY <1>2, UnsubmittedIsClear DEF ReleaseThrows
    <2> QED BY <2>1, <2>2 DEF Releases, Held, Owners
  <1> QED BY <1>1, <1>2

(* Admission requests and the administrative paths: what they withdraw was *)
(* never sent, and the worker's item is not theirs.                        *)
LEMMA AdmissionCovers ==
  ASSUME IInv, Evidence, AdmissionNext
  PROVE  Evidence' /\ Releases
  <1>a. /\ \A i \in Intents : IntentOK(i)
        /\ UNCHANGED <<ev, row, fills, pos, loose, pc, cur, phase, err, seen, rel, bk, bpos>>
    BY DEF Evidence, AdmissionNext, acquireEntryExposureClaim, AdmitPending,
           AdmitPendingAckLost, AdmitFails, AdmitRiskBlocked, AdmitRiskRelease, AdmitCleanup,
           AdmitDies, closeEntryAuthority, deactivateTradingAccount, BlockEntries, apiFrame,
           orderVars, posVars, wkVars, brokerVars
  <1>b. NewRelease
    BY <1>a DEF NewRelease
  (* It is enough to look at each entry. *)
  <1>c. ASSUME \A i \in Intents : Harmless(i) \/ Fresh(i),
               \A i \in Intents : intent[i] = "submitting" =>
                 /\ intent'[i] = "submitting"
                 /\ claim[i] = "ENTRY_SUBMITTING" => claim'[i] = "ENTRY_SUBMITTING"
        PROVE  Evidence'
    <2>1. \A i \in Intents : IntentOK(i)' /\ Grown(i)
      BY <1>a, <1>c, HarmlessKeeps, FreshKeeps DEF IInv
    <2>2. ItemOK'
      BY <1>a, <1>c, <2>1, ItemKept DEF Grown
    <2> QED BY <1>a, <1>b, <2>1, <2>2, WholeKeeps
  (* An entry none of whose own fields changes. *)
  <1>d. ASSUME NEW j \in Intents, intent'[j] = intent[j], reason'[j] = reason[j],
               claim'[j] = claim[j] \/ claim'[j] = "RELEASED"
        PROVE  Harmless(j)
    BY <1>a, <1>d DEF Harmless, PreDispatchClaimStatuses
  (* An entry that was not yet listed, whatever it becomes. *)
  <1>e. ASSUME NEW j \in Intents, intent[j] \in {"none", "received", "pending"},
               \/ intent'[j] \in {"received", "pending"} /\ reason'[j] = "none"
               \/ intent'[j] \in {"failed", "blocked"} /\ reason'[j] \in {"risk", "other"}
        PROVE  Fresh(j)
    <2>1. bk[j] = "none" /\ ~ Has(ev[j], Records)
      BY <1>a, <1>e DEF IntentOK, UnsentOK, Unsent, EarlyOK, Early
    <2>2. EarlyOK(j)' /\ UncertainOK(j)' /\ (Over(j) => Over(j)')
      BY <1>a, <1>e, <2>1 DEF EarlyOK, Early, UncertainOK, Over,
                              blockReasonCarriesDeliveryUncertainty
    <2> QED BY <1>a, <1>e, <2>1, <2>2 DEF Fresh
  <1>f. /\ intent \in [Intents -> IntentStatuses] /\ reason \in [Intents -> BlockReasons]
        /\ claim \in [Owners -> ClaimStatuses \cup {"none"}] /\ Intents \subseteq Owners
    BY DEF IInv, TypeOK, Owners
  <1>1. ASSUME NEW i \in Intents, acquireEntryExposureClaim(i) PROVE Evidence' /\ Releases
    <2>1. /\ intent' = [intent EXCEPT ![i] = "received"] /\ reason' = reason
          /\ claim' = [claim EXCEPT ![i] = "ENTRY_PENDING"]
          /\ intent[i] = "none"
      BY <1>1 DEF acquireEntryExposureClaim
    <2>2. reason[i] = "none"
      BY <1>a, <2>1 DEF IntentOK, EarlyOK, Early
    <2>3. Fresh(i)
      BY <1>e, <1>f, <2>1, <2>2
    <2>4. \A j \in Intents \ {i} : Harmless(j)
      BY <1>d, <1>f, <2>1
    <2>5. Releases
      BY <1>f, <2>1 DEF Releases, Held, HeldStatuses, ClaimStatuses
    <2> QED BY <1>c, <1>f, <2>1, <2>3, <2>4, <2>5
  <1>2. ASSUME NEW i \in Intents, AdmitPending(i) \/ AdmitPendingAckLost(i)
        PROVE  Evidence' /\ Releases
    <2>1. /\ claim' = claim
          /\ \/ UNCHANGED <<intent, reason>>
             \/ /\ intent' = [intent EXCEPT ![i] = "pending"] /\ intent[i] = "received"
                /\ reason' = [reason EXCEPT ![i] = "none"]
      BY <1>2 DEF AdmitPending, AdmitPendingAckLost, intentVars
    <2>2. \A j \in Intents : j # i \/ UNCHANGED intent => Harmless(j) \/ Fresh(j)
      BY <1>d, <1>e, <1>f, <2>1
    <2>3. Harmless(i) \/ Fresh(i)
      BY <1>d, <1>e, <1>f, <2>1
    <2> QED BY <1>c, <1>f, <2>1, <2>2, <2>3, HeldKept
  <1>3. ASSUME NEW i \in Intents, AdmitFails(i) \/ AdmitDies(i) PROVE Evidence' /\ Releases
    <2>1. UNCHANGED <<intent, reason, claim>>
      BY <1>3 DEF AdmitFails, AdmitDies, intentVars
    <2> QED BY <1>c, <1>d, <2>1, HeldKept
  <1>4. ASSUME NEW i \in Intents, AdmitRiskBlocked(i) PROVE Evidence' /\ Releases
    <2>1. /\ claim' = claim /\ intent[i] = "received"
          /\ intent' = [intent EXCEPT ![i] = "blocked"]
          /\ reason' = [reason EXCEPT ![i] = "risk"]
      BY <1>4 DEF AdmitRiskBlocked
    <2>2. Fresh(i)
      BY <1>e, <1>f, <2>1
    <2>3. \A j \in Intents \ {i} : Harmless(j)
      BY <1>d, <1>f, <2>1
    <2> QED BY <1>c, <1>f, <2>1, <2>2, <2>3, HeldKept
  <1>5. ASSUME NEW i \in Intents, AdmitRiskRelease(i) PROVE Evidence' /\ Releases
    <2>1. /\ UNCHANGED <<intent, reason>>
          /\ \/ claim' = claim
             \/ ~ ReleaseThrows(i, reason[i]) /\ releaseUnsubmittedEntryExposureClaim(i)
      BY <1>5 DEF AdmitRiskRelease, intentVars
    <2>2. CASE claim' = claim
      BY <1>c, <1>d, <2>1, <2>2, HeldKept
    <2>3. CASE ~ ReleaseThrows(i, reason[i]) /\ releaseUnsubmittedEntryExposureClaim(i)
      <3>1. /\ Releases
            /\ \A j \in Intents : claim'[j] = claim[j] \/ claim'[j] = "RELEASED"
            /\ \A j \in Intents : intent[j] = "submitting" /\ claim[j] = "ENTRY_SUBMITTING"
                 => claim'[j] = claim[j]
        BY <2>3, UnsubmittedReleases
      <3> QED BY <1>c, <1>d, <2>1, <3>1
    <2> QED BY <2>1, <2>2, <2>3
  <1>6. ASSUME NEW i \in Intents, AdmitCleanup(i) PROVE Evidence' /\ Releases
    <2>1. PICK t :
            \/ UNCHANGED <<intent, reason, claim>>
            \/ /\ ~ ReleaseThrows(i, t) /\ releaseUnsubmittedEntryExposureClaim(i)
               /\ \/ /\ intent[i] \in {"received", "pending"}
                     /\ intent' = [intent EXCEPT ![i] = "failed"]
                     /\ reason' = [reason EXCEPT ![i] = "other"]
                  \/ intent' = intent /\ reason' = [reason EXCEPT ![i] = reason[i]]
      BY <1>6 DEF AdmitCleanup, intentVars
    <2>2. CASE UNCHANGED <<intent, reason, claim>>
      BY <1>c, <1>d, <2>2, HeldKept
    <2>3. CASE ~ UNCHANGED <<intent, reason, claim>>
      <3>1. /\ Releases
            /\ \A j \in Intents : claim'[j] = claim[j] \/ claim'[j] = "RELEASED"
            /\ \A j \in Intents : intent[j] = "submitting" /\ claim[j] = "ENTRY_SUBMITTING"
                 => claim'[j] = claim[j]
        BY <2>1, <2>3, UnsubmittedReleases
      <3>2. \/ /\ intent[i] \in {"received", "pending"}
               /\ intent' = [intent EXCEPT ![i] = "failed"]
               /\ reason' = [reason EXCEPT ![i] = "other"]
            \/ intent' = intent /\ reason' = reason
        BY <1>f, <2>1, <2>3
      <3>3. \A j \in Intents \ {i} : Harmless(j)
        BY <1>d, <1>f, <3>1, <3>2
      <3>4. Harmless(i) \/ Fresh(i)
        BY <1>d, <1>e, <1>f, <3>1, <3>2
      <3> QED BY <1>c, <1>f, <3>1, <3>2, <3>3, <3>4
    <2> QED BY <2>2, <2>3
  <1>7. ASSUME NEW S \in SUBSET {"received", "pending"}, BlockEntries(S)
        PROVE  Evidence' /\ Releases
    <2>1. ASSUME NEW j \in Intents, intent[j] \in S
          PROVE  /\ intent'[j] = "blocked" /\ reason'[j] = "other"
                 /\ Held(j) => Clear(j)
      BY <1>7, <2>1, UnsubmittedIsClear DEF BlockEntries, ReleaseThrows
    <2>2. ASSUME NEW o \in Owners, o \notin Intents \/ intent[o] \notin S
          PROVE  claim'[o] = claim[o]
      BY <1>7, <2>2 DEF BlockEntries
    <2>3. ASSUME NEW j \in Intents, intent[j] \notin S
          PROVE  intent'[j] = intent[j] /\ reason'[j] = reason[j]
      BY <1>7, <2>3 DEF BlockEntries
    <2>4. \A j \in Intents : Harmless(j) \/ Fresh(j)
      BY <1>d, <1>e, <1>f, <2>1, <2>2, <2>3
    <2>5. Releases
      BY <2>1, <2>2 DEF Releases, Held
    <2>6. \A j \in Intents : intent[j] = "submitting" =>
            intent'[j] = "submitting" /\ claim'[j] = claim[j]
      BY <1>f, <2>2, <2>3
    <2> QED BY <1>c, <2>4, <2>5, <2>6
  <1> QED
    BY <1>1, <1>2, <1>3, <1>4, <1>5, <1>6, <1>7
    DEF AdmissionNext, closeEntryAuthority, deactivateTradingAccount

-----------------------------------------------------------------------------
(* Steps of the lock holder *)

(* Claim statuses that an observation of the broker, or a review, writes. *)
ActiveStatuses == HeldStatuses \ PreDispatchClaimStatuses

(* When the item ends nothing is known of it any more. *)
LEMMA DoneItem ==
  ASSUME Done
  PROVE  ItemOK'
  BY DEF Done, ItemOK, AttemptOK, Attempt, BeforePost, PhaseOK, NotYetSent, Rejection

(* Steps that say nothing about delivery. *)
LEMMA HarmlessStep ==
  ASSUME IInv, Evidence, UNCHANGED <<bk, bpos>>, \A i \in Intents : Harmless(i),
         NewRelease, ItemOK'
  PROVE  Evidence'
  <1>1. \A i \in Intents : IntentOK(i)' /\ Grown(i)
    BY HarmlessKeeps DEF Evidence
  <1> QED BY <1>1, WholeKeeps

(* Steps that only read, or write what is not evidence. *)
LEMMA QuietStep ==
  ASSUME IInv, Evidence, UNCHANGED <<intent, reason, claim, ev, row, fills, bk, bpos>>,
         NewRelease, ItemOK'
  PROVE  Evidence' /\ Releases
  <1>1. \A i \in Intents : Harmless(i)
    BY DEF Harmless
  <1> QED BY <1>1, HarmlessStep, HeldKept

(* Steps that write evidence for one entry only. *)
LEMMA EntryStep ==
  ASSUME IInv, Evidence, UNCHANGED <<bk, bpos>>, NewRelease, ItemOK',
         NEW c \in Intents, IntentOK(c)' /\ Grown(c),
         \A i \in Intents \ {c} :
           /\ intent'[i] = intent[i] /\ reason'[i] = reason[i] /\ claim'[i] = claim[i]
           /\ ev'[i] = ev[i] /\ row'[i] = row[i] /\ fills'[i] = fills[i]
  PROVE  Evidence'
  <1>1. \A i \in Intents \ {c} : Harmless(i)
    BY DEF Harmless
  <1>2. \A i \in Intents : IntentOK(i)' /\ Grown(i)
    BY <1>1, HarmlessKeeps DEF Evidence
  <1> QED BY <1>2, WholeKeeps

(* A claim transition towards the broker's state keeps every claim held.   *)
LEMMA TransitionCovers ==
  ASSUME IInv, NEW i \in Intents, NEW to \in ActiveStatuses, TransitionIgnoringErrors(i, to)
  PROVE  /\ Releases
         /\ \A o \in Owners : claim'[o] = claim[o] \/ claim'[o] \in ActiveStatuses
  BY DEF Releases, Held, TransitionIgnoringErrors, ActiveStatuses, IInv, TypeOK

(* A dropped or kept release is no new one. *)
LEMMA ReleaseDropped ==
  ASSUME IInv, rel' = rel \/ rel' = [rel EXCEPT !["wk"] = NoRelease]
  PROVE  NewRelease
  BY DEF NewRelease, IInv, TypeOK

(* The submission attempt up to its POST: no request was made for the      *)
(* entry, and its claim is not touched by anybody else once it was checked.*)
LEMMA AttemptCovers ==
  ASSUME IInv, Evidence,
         \/ \E i \in Intents : ListPending(i)
         \/ requireEntryExposureClaim \/ ClaimIntent \/ TransitionRead \/ TransitionCas
         \/ TransitionEvent \/ RiskRecheck \/ RiskBlocked
         \/ requireExecutableEntryExposureClaim \/ LookupExisting
         \/ assertNoLocalEntryDispatchEvidence \/ authorizeDispatch
         \/ recordAdapterInvocationStarted \/ AdapterGuard \/ AwaitResponse \/ TryFails
  PROVE  Evidence' /\ Releases
  <1> USE DEF intentVars, claimVars, wkVars, wkFrame, submitFrame, Step, StepSeen, Begin,
              Throw, Enter, Acknowledged
  <1>a. UNCHANGED <<fills, rel, row, bk, bpos>>
    BY DEF ListPending, requireEntryExposureClaim, ClaimIntent, TransitionRead, TransitionCas,
           TransitionEvent, RiskRecheck, RiskBlocked, requireExecutableEntryExposureClaim,
           LookupExisting, assertNoLocalEntryDispatchEvidence, authorizeDispatch,
           recordAdapterInvocationStarted, AdapterGuard, AwaitResponse, TryFails
  <1>b. NewRelease
    BY <1>a, ReleaseDropped
  <1>c. ASSUME UNCHANGED <<intent, reason, claim, ev>>, ItemOK' PROVE Evidence' /\ Releases
    BY <1>a, <1>b, <1>c, QuietStep
  <1>d. /\ ItemOK /\ \A i \in Intents : IntentOK(i)
        /\ pc \notin {"idle", "pTrack", "pClose"} => cur \in Intents
    BY DEF Evidence, IInv, ControlOK
  <1>e. /\ intent \in [Intents -> IntentStatuses] /\ reason \in [Intents -> BlockReasons]
        /\ claim \in [Owners -> ClaimStatuses \cup {"none"}] /\ Intents \subseteq Owners
        /\ ev \in [Intents -> Seq(EvidenceKinds)]
    BY DEF IInv, TypeOK, Owners
  <1>1. ASSUME NEW i \in Intents, ListPending(i) PROVE Evidence' /\ Releases
    <2>1. bk[i] = "none" /\ phase = "pre"
      BY <1>1, <1>d DEF ListPending, IntentOK, UnsentOK, Unsent, ItemOK, PhaseOK
    <2>2. ItemOK'
      BY <1>1, <2>1 DEF ListPending, ItemOK, AttemptOK, Attempt, BeforePost, PhaseOK,
                        NotYetSent, Rejection
    <2> QED BY <1>1, <1>c, <2>2 DEF ListPending
  <1>2. ASSUME \/ requireEntryExposureClaim \/ TransitionRead \/ RiskRecheck
               \/ requireExecutableEntryExposureClaim \/ LookupExisting
               \/ assertNoLocalEntryDispatchEvidence \/ authorizeDispatch \/ AdapterGuard
        PROVE  Evidence' /\ Releases
    <2>1. UNCHANGED <<intent, reason, claim, ev>> /\ cur' = cur /\ pc \in BeforePost
      BY <1>2 DEF requireEntryExposureClaim, TransitionRead, RiskRecheck,
           requireExecutableEntryExposureClaim, LookupExisting,
           assertNoLocalEntryDispatchEvidence, authorizeDispatch, AdapterGuard, BeforePost
    <2>2. bk[cur] = "none" /\ ~ Visible(cur)
      BY <1>d, <2>1 DEF ItemOK, NotYetSent, Visible, OrderStatuses
    <2>3. /\ AttemptOK' /\ PhaseOK'
          /\ ~ Rejection'
      BY <1>2, <1>d, <2>1, <2>2
      DEF requireEntryExposureClaim, TransitionRead, RiskRecheck,
           requireExecutableEntryExposureClaim, LookupExisting,
           assertNoLocalEntryDispatchEvidence, authorizeDispatch, AdapterGuard,
           ItemOK, AttemptOK, Attempt, BeforePost, PhaseOK, Rejection
    <2> QED BY <1>a, <1>c, <2>1, <2>2, <2>3 DEF ItemOK
  <1>3. ASSUME TryFails PROVE Evidence' /\ Releases
    <2>1. /\ pc \in BeforePost \cup {"wPersist"} /\ pc # "bPost"
          /\ pc' = "wCatch" /\ err' = "error" /\ UNCHANGED <<cur, phase, seen>>
          /\ UNCHANGED <<intent, reason, claim, ev>>
      BY <1>3 DEF TryFails, BeforePost
    <2>2. ItemOK'
      BY <1>a, <1>d, <2>1
      DEF ItemOK, AttemptOK, Attempt, BeforePost, PhaseOK, NotYetSent, Rejection
    <2> QED BY <1>c, <2>1, <2>2
  <1>4. ASSUME AwaitResponse PROVE Evidence' /\ Releases
    <2>1. ItemOK'
      BY <1>4, <1>a, <1>d
      DEF AwaitResponse, ItemOK, AttemptOK, Attempt, BeforePost, PhaseOK, NotYetSent, Rejection
    <2> QED BY <1>4, <1>c, <2>1 DEF AwaitResponse
  (* The steps that write, on an entry for which no request was made. *)
  <1>5. ASSUME NEW c \in Intents, Fresh(c), ItemOK',
               \A i \in Intents \ {c} :
                 /\ intent'[i] = intent[i] /\ reason'[i] = reason[i] /\ claim'[i] = claim[i]
                 /\ ev'[i] = ev[i]
        PROVE  Evidence'
    <2>1. IntentOK(c)' /\ Grown(c)
      BY <1>5, <1>d, FreshKeeps DEF IInv
    <2> QED BY <1>5, <1>a, <1>b, <2>1, EntryStep
  <1>6. ASSUME ClaimIntent PROVE Evidence' /\ Releases
    <2>1. cur \in Intents /\ bk[cur] = "none" /\ phase = "pre"
      BY <1>6, <1>d DEF ClaimIntent, ItemOK, NotYetSent, BeforePost, PhaseOK
    <2>c. PICK c \in Intents : c = cur
      BY <2>1
    <2>2. CASE intent[cur] = "pending"
      <3>1. /\ intent' = [intent EXCEPT ![cur] = "submitting"]
            /\ UNCHANGED <<reason, claim, ev, cur, phase>>
            /\ pc' = "wRead" \/ (pc' = "wCatch" /\ err' = "error")
        BY <1>6, <2>2 DEF ClaimIntent
      <3>2. EarlyOK(c) /\ UncertainOK(c)
        BY <2>c, <1>d, <2>1 DEF IntentOK
      <3>3. Fresh(c)
        BY <2>c, <1>a, <1>e, <2>1, <2>2, <3>1, <3>2
        DEF Fresh, EarlyOK, Early, UncertainOK, Over
      <3>4. ItemOK'
        BY <1>a, <1>e, <2>1, <3>1
        DEF ItemOK, AttemptOK, Attempt, BeforePost, PhaseOK, NotYetSent, Rejection
      <3> QED BY <2>c, <1>5, <1>e, <2>1, <3>1, <3>3, <3>4, HeldKept
    <2>3. CASE intent[cur] # "pending"
      BY <1>6, <1>c, <2>3, DoneItem DEF ClaimIntent
    <2> QED BY <2>2, <2>3
  <1>7. ASSUME TransitionCas PROVE Evidence' /\ Releases
    <2>1. /\ cur \in Intents /\ bk[cur] = "none" /\ phase = "pre"
          /\ intent[cur] = "submitting"
      BY <1>7, <1>d DEF TransitionCas, ItemOK, NotYetSent, BeforePost, PhaseOK, AttemptOK, Attempt
    <2>c. PICK c \in Intents : c = cur
      BY <2>1
    <2>2. CASE claim[cur] = "ENTRY_PENDING"
      <3>1. /\ claim' = [claim EXCEPT ![cur] = "ENTRY_SUBMITTING"]
            /\ UNCHANGED <<intent, reason, ev, cur, phase>>
            /\ pc' = "wClaimEv" \/ (pc' = "wCatch" /\ err' = "error")
        BY <1>7, <2>2 DEF TransitionCas
      <3>2. EarlyOK(c)
        BY <2>c, <1>d, <2>1 DEF IntentOK
      <3>3. Fresh(c)
        BY <2>c, <1>a, <1>e, <2>1, <3>1, <3>2
        DEF Fresh, EarlyOK, Early, UncertainOK, Over, blockReasonCarriesDeliveryUncertainty
      <3>4. ItemOK'
        BY <1>a, <1>e, <2>1, <3>1
        DEF ItemOK, AttemptOK, Attempt, BeforePost, PhaseOK, NotYetSent, Rejection
      <3>5. Releases
        BY <1>e, <3>1 DEF Releases, Held, HeldStatuses, ClaimStatuses
      <3> QED BY <2>c, <1>5, <1>e, <2>1, <3>1, <3>3, <3>4, <3>5
    <2>3. CASE claim[cur] # "ENTRY_PENDING"
      <3>1. pc' = "wRisk" /\ UNCHANGED <<intent, reason, claim, ev, cur, phase, err, seen>>
        BY <1>7, <2>3 DEF TransitionCas
      <3>2. ItemOK'
        BY <1>a, <2>1, <3>1
        DEF ItemOK, AttemptOK, Attempt, BeforePost, PhaseOK, NotYetSent, Rejection
      <3> QED BY <1>c, <3>1, <3>2
    <2> QED BY <2>2, <2>3
  (* An event is appended while the intent is submitting. *)
  <1>8. ASSUME TransitionEvent \/ recordAdapterInvocationStarted
        PROVE  Evidence' /\ Releases
    <2>1. PICK k \in {"claimed", "marker"} :
            /\ ev' = [ev EXCEPT ![cur] = Append(ev[cur], k)]
            /\ k = "claimed" => pc = "wClaimEv"
            /\ k = "marker" => pc = "bMark"
      BY <1>8 DEF TransitionEvent, recordAdapterInvocationStarted, AppendEvidence
    <2>2. /\ UNCHANGED <<intent, reason, claim, cur>>
          /\ \/ pc = "wClaimEv" /\ pc' = "wRisk" /\ phase' = phase
             \/ pc = "bMark" /\ pc' = "bPost" /\ phase' = "started"
             \/ pc' = "wCatch" /\ err' = "error" /\ phase' = phase
      BY <1>8 DEF TransitionEvent, recordAdapterInvocationStarted
    <2>3. /\ cur \in Intents /\ bk[cur] = "none" /\ intent[cur] = "submitting"
          /\ pc = "wClaimEv" => phase = "pre"
          /\ pc = "bMark" => phase = "notDispatched" /\ claim[cur] = "ENTRY_SUBMITTING"
      BY <1>d, <2>1 DEF ItemOK, NotYetSent, BeforePost, PhaseOK, AttemptOK, Attempt
    <2>c. PICK c \in Intents : c = cur
      BY <2>3
    <2>4. /\ ev'[cur] = Append(ev[cur], k) /\ k \in EvidenceKinds \ {"rejected"}
          /\ k \notin Records
      BY <1>e, <2>1, <2>3 DEF EvidenceKinds, Records, OutcomeKinds
    <2>5. /\ ~ Has(ev'[cur], Records) /\ reason[cur] = "none"
          /\ k = "marker" => Has(ev'[cur], {"marker"})
      <3>1. ~ Has(ev[cur], Records) /\ reason[cur] = "none"
        BY <1>d, <2>3 DEF IntentOK, EarlyOK, Early
      <3> QED BY <1>e, <2>3, <2>4, <3>1, HasAppend
    <2>6. Fresh(c)
      BY <2>c, <1>a, <2>2, <2>3, <2>4, <2>5
      DEF Fresh, EarlyOK, UncertainOK, Over, Early, blockReasonCarriesDeliveryUncertainty
    <2>7. ItemOK'
      BY <1>a, <2>1, <2>2, <2>3, <2>5
      DEF ItemOK, AttemptOK, Attempt, BeforePost, PhaseOK, NotYetSent, Rejection
    <2> QED BY <2>c, <1>5, <1>e, <2>1, <2>2, <2>3, <2>6, <2>7, HeldKept
  <1>9. ASSUME RiskBlocked PROVE Evidence' /\ Releases
    <2>1. /\ cur \in Intents /\ bk[cur] = "none" /\ phase = "pre"
      BY <1>9, <1>d DEF RiskBlocked, ItemOK, NotYetSent, BeforePost, PhaseOK, AttemptOK, Attempt
    <2>c. PICK c \in Intents : c = cur
      BY <2>1
    <2>2. /\ intent' = [intent EXCEPT ![cur] = "blocked"]
          /\ reason' = [reason EXCEPT ![cur] = "risk"]
          /\ ev' = [ev EXCEPT ![cur] = Append(ev[cur], "notSent")]
          /\ UNCHANGED <<claim, cur, phase>>
          /\ pc' = "wRelease" \/ (pc' = "wCatch" /\ err' = "error")
      BY <1>9 DEF RiskBlocked, AppendEvidence
    <2>3. /\ intent'[cur] = "blocked" /\ reason'[cur] = "risk"
          /\ ev'[cur] = Append(ev[cur], "notSent")
          /\ "notSent" \in EvidenceKinds \ {"rejected"}
      BY <1>e, <2>1, <2>2 DEF EvidenceKinds
    <2>4. Fresh(c)
      BY <2>c, <1>a, <2>1, <2>3
      DEF Fresh, EarlyOK, UncertainOK, Over, Early, blockReasonCarriesDeliveryUncertainty
    <2>5. ItemOK'
      BY <1>a, <2>1, <2>2, <2>3
      DEF ItemOK, AttemptOK, Attempt, BeforePost, PhaseOK, NotYetSent, Rejection, Over, Early
    <2> QED BY <2>c, <1>5, <1>e, <2>1, <2>2, <2>4, <2>5, HeldKept
  <1> QED BY <1>1, <1>2, <1>3, <1>4, <1>6, <1>7, <1>8, <1>9

(* The POST: it leaves once for an intent, from an attempt that holds the  *)
(* claim and has left its marker (submitAlpacaEntryOrder).                 *)
LEMMA PostCovers ==
  ASSUME IInv, Evidence, submitAlpacaEntryOrder
  PROVE  /\ Evidence' /\ UNCHANGED <<claim, ev, pos, loose, bpos, intent>>
         /\ cur \in Intents /\ bk[cur] = "none" /\ bk' = [bk EXCEPT ![cur] = "sent"]
         /\ intent[cur] = "submitting" /\ claim[cur] = "ENTRY_SUBMITTING"
         /\ Unpaired(ev[cur]) # {}
  <1>1. /\ UNCHANGED <<intent, reason, claim, ev, row, fills, rel, pos, loose, bpos>>
        /\ bk' = [bk EXCEPT ![cur] = "sent"] /\ pc = "bPost"
        /\ pc' = "bAwait" /\ UNCHANGED <<cur, phase, err, seen>>
    BY DEF submitAlpacaEntryOrder, submitFrame, wkFrame, intentVars, claimVars, posVars, Step
  <1>2. /\ cur \in Intents /\ bk[cur] = "none" /\ intent[cur] = "submitting"
        /\ claim[cur] = "ENTRY_SUBMITTING" /\ Has(ev[cur], {"marker"}) /\ phase = "started"
    BY <1>1 DEF IInv, ControlOK, Evidence, ItemOK, AttemptOK, Attempt, NotYetSent, BeforePost,
                PhaseOK
  <1>3. PICK c \in Intents : c = cur
    BY <1>2
  <1>4. IntentOK(c) /\ ~ Has(ev[c], Records) /\ reason[c] = "none"
    BY <1>2, <1>3 DEF Evidence, IntentOK, EarlyOK, Early
  <1>5. ~ Has(ev[c], LocalNonSend) /\ ~ Has(ev[c], {"rejected"})
    BY <1>4 DEF Has, LocalNonSend, Records, OutcomeKinds
  <1>6. bk'[c] = "sent" /\ \A i \in Intents \ {c} : bk'[i] = bk[i]
    BY <1>1, <1>3 DEF IInv, TypeOK
  <1>7. IntentOK(c)'
    <2>1. c \notin bpos
      BY <1>2, <1>3, <1>4 DEF IntentOK, BoughtOK, Visible, OrderStatuses
    <2>2. ~ Unsent(c)
      BY <1>2, <1>3, <1>4, <1>5 DEF Unsent, UnsentReasons
    <2>3. ~ Unsent(c)'
      BY <1>1, <2>2 DEF Unsent
    <2> QED BY <1>1, <1>4, <1>5, <2>1, <2>3
            DEF IntentOK, EarlyOK, UnsentOK, RefusedOK, BoughtOK, UncertainOK
  <1>8. \A i \in Intents : IntentOK(i)'
    <2>1. \A i \in Intents \ {c} : Harmless(i)
      BY <1>1, <1>6 DEF Harmless
    <2> QED BY <1>7, <2>1, HarmlessKeeps DEF Evidence
  <1>9. ItemOK'
    BY <1>1, <1>2 DEF ItemOK, AttemptOK, Attempt, BeforePost, PhaseOK, NotYetSent, Rejection
  <1>10. ReleaseOK'
    <2> SUFFICES ASSUME NEW p \in Procs PROVE Settled(rel[p])'
        BY DEF ReleaseOK
    <2>1. Settled(rel[p]) /\ rel'[p] = rel[p]
      BY <1>1 DEF Evidence, ReleaseOK
    <2>2. rel[p].kind \in {"verified", "confirmed"} => rel[p].own \in Intents \ {c}
      BY <1>2, <1>3, <2>1 DEF IInv, ControlOK, Settled, Over, Early, ConclusiveStatuses
    <2> QED BY <1>1, <1>6, <2>1, <2>2 DEF Settled, Over
  <1>11. Unpaired(ev[c]) # {}
    BY <1>2, <1>3, <1>4 DEF Unpaired, Markers, Recorded, Has, Records
  <1> QED BY <1>1, <1>2, <1>3, <1>8, <1>9, <1>10, <1>11 DEF Evidence

(* The catch block records as not sent only what was not sent, and as a    *)
(* rejection only the broker's (PersistFailure).                           *)
LEMMA FailureCovers ==
  ASSUME IInv, Evidence, NEW readable \in BOOLEAN, PersistFailure(readable)
  PROVE  Evidence' /\ Releases
  <1>1. pc = "wCatch" /\ cur \in Intents
    BY DEF PersistFailure, IInv, ControlOK
  <1>2. PICK c \in Intents : c = cur
    BY <1>1
  <1>3. /\ intent \in [Intents -> IntentStatuses] /\ reason \in [Intents -> BlockReasons]
        /\ claim \in [Owners -> ClaimStatuses \cup {"none"}] /\ Intents \subseteq Owners
        /\ ev \in [Intents -> Seq(EvidenceKinds)] /\ ev[c] \in Seq(EvidenceKinds)
    BY DEF IInv, TypeOK, Owners
  <1>4. /\ UNCHANGED <<row, fills, rel, bk, bpos>> /\ NewRelease
        /\ IntentOK(c) /\ ItemOK
    BY ReleaseDropped DEF PersistFailure, submitFrame, wkFrame, Evidence
  <1>5. PICK s \in {"blocked", "failed"} : intent' = [intent EXCEPT ![c] = s]
    BY <1>2 DEF PersistFailure
  <1>6. reason' = [reason EXCEPT ![c] = failureBlockReason]
    BY <1>2 DEF PersistFailure
  (* What the plan and the reason say of the attempt. *)
  <1>7. /\ PlanNotSent(readable) => bk[c] = "none"
        /\ entryDispatchOutcomeFor \in LocalNonSend => bk[c] = "none"
        /\ entryDispatchOutcomeFor = "rejected" => bk[c] = "refused"
        /\ failureBlockReason \in UnsentReasons => bk[c] = "none"
        /\ failureBlockReason = "rejected" => bk[c] = "refused"
        /\ PlanNotSent(readable) => ~ blockReasonCarriesDeliveryUncertainty(failureBlockReason)
    <2>1. /\ phase \in {"pre", "unclassified", "notDispatched"} => bk[c] = "none"
          /\ err \in {"guard", "recorded"} => bk[c] = "none"
          /\ err = "rejected" => bk[c] = "refused"
          /\ err \in {"rejected", "rejectedOther"} => phase = "started"
      BY <1>1, <1>2, <1>4 DEF ItemOK, NotYetSent, Rejection, PhaseOK
    <2>2. definitelyNotDispatched \/ PreDispatchProven =>
            phase \in {"pre", "unclassified", "notDispatched"}
      BY DEF definitelyNotDispatched, PreDispatchProven
    <2>3. PlanNotSent(readable) =>
            definitelyNotDispatched \/ PreDispatchProven \/ err = "guard"
      BY DEF PlanNotSent
    <2>4. /\ entryDispatchOutcomeFor \in LocalNonSend => err \in {"guard", "recorded"}
          /\ entryDispatchOutcomeFor = "rejected" => err = "rejected"
      BY DEF entryDispatchOutcomeFor, LocalNonSend
    <2>5. /\ failureBlockReason = "rejected" => err = "rejected"
          /\ failureBlockReason = "rejectedOther" => err = "rejectedOther"
          /\ failureBlockReason \in {"guard", "recorded"} => err \in {"guard", "recorded"}
          /\ failureBlockReason = "notSent" => definitelyNotDispatched \/ PreDispatchProven
          /\ failureBlockReason = "uncertain" =>
               ~ (definitelyNotDispatched \/ PreDispatchProven) /\ err # "guard"
          /\ failureBlockReason \notin {"risk", "unknownOutcome"}
      BY DEF failureBlockReason
    <2> QED BY <2>1, <2>2, <2>3, <2>4, <2>5
            DEF UnsentReasons, blockReasonCarriesDeliveryUncertainty
  (* What is written, and where the step goes. *)
  <1>8. \/ /\ UNCHANGED <<ev, claim>>
           /\ PlanNotSent(readable) \/ claim[c] \notin RecoverableStatuses
        \/ /\ ev' = [ev EXCEPT ![c] = Append(ev[c], "notSent")] /\ UNCHANGED claim
           /\ PlanNotSent(readable)
        \/ /\ ev' = [ev EXCEPT ![c] = Append(ev[c], entryDispatchOutcomeFor)]
           /\ claim' = [claim EXCEPT ![c] = "UNRESOLVED"]
           /\ claim[c] \in RecoverableStatuses
    BY <1>2 DEF PersistFailure, recordEntryDispatchOutcome, AppendEvidence, claimVars
  <1>9. PICK k \in OutcomeKinds \cup {"notSent"} :
          /\ ev'[c] = ev[c] \/ ev'[c] = Append(ev[c], k)
          /\ \A i \in Intents \ {c} : ev'[i] = ev[i]
          /\ k \in LocalNonSend => bk[c] = "none"
          /\ k = "rejected" => bk[c] = "refused"
    <2>1. entryDispatchOutcomeFor \in OutcomeKinds
      BY DEF entryDispatchOutcomeFor, OutcomeKinds, IInv, TypeOK, Errors
    <2>2. CASE ev' = ev
      <3>1. "unknown" \in OutcomeKinds \cup {"notSent"} /\ "unknown" \notin LocalNonSend
        BY DEF OutcomeKinds, LocalNonSend
      <3> QED BY <2>2, <3>1
    <2>3. CASE PlanNotSent(readable) /\ ev' = [ev EXCEPT ![c] = Append(ev[c], "notSent")]
      <3>1. /\ ev'[c] = Append(ev[c], "notSent")
            /\ \A i \in Intents \ {c} : ev'[i] = ev[i]
        BY <1>3, <2>3
      <3>2. bk[c] = "none" /\ "notSent" # "rejected"
        BY <1>7, <2>3
      <3> QED BY <3>1, <3>2
    <2>4. CASE ev' = [ev EXCEPT ![c] = Append(ev[c], entryDispatchOutcomeFor)]
      BY <1>3, <1>7, <2>1, <2>4
    <2> QED BY <1>8, <2>2, <2>3, <2>4
  <1>10. /\ intent'[c] = s /\ reason'[c] = failureBlockReason
         /\ \A i \in Intents \ {c} :
              /\ intent'[i] = intent[i] /\ reason'[i] = reason[i] /\ claim'[i] = claim[i]
              /\ ev'[i] = ev[i] /\ row'[i] = row[i] /\ fills'[i] = fills[i]
         /\ claim'[c] = claim[c] \/ (claim'[c] = "UNRESOLVED" /\ claim[c] \in RecoverableStatuses)
         /\ claim'[c] \in PreDispatchClaimStatuses => PlanNotSent(readable)
    BY <1>3, <1>4, <1>5, <1>6, <1>8, <1>9 DEF RecoverableStatuses, PreDispatchClaimStatuses
  <1>11. /\ k \in EvidenceKinds /\ k \notin {"claimed", "marker"}
         /\ \A K : Has(ev'[c], K) => Has(ev[c], K) \/ k \in K
         /\ Has(ev'[c], {"claimed"}) <=> Has(ev[c], {"claimed"})
         /\ Has(ev'[c], {"marker"}) <=> Has(ev[c], {"marker"})
    <2>1. k \in EvidenceKinds /\ k \notin {"claimed", "marker"}
      BY DEF EvidenceKinds, OutcomeKinds
    <2>2. \A K : Has(Append(ev[c], k), K) <=> Has(ev[c], K) \/ k \in K
      BY <1>3, <2>1, HasAppend
    <2> QED BY <1>9, <2>1, <2>2
  <1>12. IntentOK(c)'
    <2>1. EarlyOK(c)'
      BY <1>10 DEF EarlyOK, Early
    <2>2. UnsentOK(c)'
      <3>1. UnsentOK(c)
        BY <1>4 DEF IntentOK
      <3>2. Unsent(c)' => bk[c] = "none"
        <4>1. Unsent(c)' => \/ claim'[c] \in {"none", "ENTRY_PENDING", "ADMISSION_BLOCKED"}
                            \/ Has(ev'[c], {"claimed"}) /\ ~ Has(ev'[c], {"marker"})
                            \/ Has(ev'[c], LocalNonSend)
                            \/ reason'[c] \in UnsentReasons
          BY <1>10 DEF Unsent
        <4> QED BY <1>7, <1>9, <1>10, <1>11, <3>1, <4>1 DEF UnsentOK, Unsent
      <3> QED BY <1>4, <3>2 DEF UnsentOK
    <2>3. RefusedOK(c)'
      BY <1>4, <1>7, <1>9, <1>10, <1>11 DEF RefusedOK, IntentOK
    <2>4. BoughtOK(c)'
      BY <1>4 DEF BoughtOK, IntentOK, Visible
    <2>5. UncertainOK(c)'
      BY <1>7, <1>10 DEF UncertainOK
    <2> QED BY <2>1, <2>2, <2>3, <2>4, <2>5 DEF IntentOK
  <1>13. Grown(c)
    BY <1>9, <1>10, <1>11 DEF Grown, Over, Early
  <1>14. Releases
    BY <1>3, <1>8 DEF Releases, Held, HeldStatuses, ClaimStatuses
  <1>15. ItemOK'
    <2>1. Done \/ (pc' \in {"wRelease", "assess"} /\ UNCHANGED <<cur, phase, err, seen>>)
      <3> HIDE DEF Done
      <3> QED BY DEF PersistFailure, Step
    <2>2. CASE pc' \in {"wRelease", "assess"} /\ UNCHANGED <<cur, phase, err, seen>>
      BY <1>1, <1>2, <1>4, <1>10, <2>2
      DEF ItemOK, AttemptOK, Attempt, BeforePost, PhaseOK, NotYetSent, Rejection, Over, Early
    <2> QED BY <2>1, <2>2, DoneItem
  <1> QED BY <1>4, <1>10, <1>12, <1>13, <1>14, <1>15, EntryStep

(* The rest of the worker: persistence of an accepted order, the release   *)
(* after a failure, and the evidence-based releases.                       *)
LEMMA WorkerCovers ==
  ASSUME IInv, Evidence, WorkerNext, ~ submitAlpacaEntryOrder
  PROVE  Evidence' /\ Releases /\ UNCHANGED <<bk, bpos, pos, loose>>
  <1> USE DEF intentVars, claimVars, posVars, wkFrame, submitFrame
  <1>a. UNCHANGED <<bk, bpos, pos, loose>>
    BY DEF WorkerNext, WorkerStep, ListPending, requireEntryExposureClaim, ClaimIntent,
           TransitionRead, TransitionCas, TransitionEvent, RiskRecheck, RiskBlocked,
           requireExecutableEntryExposureClaim, LookupExisting,
           assertNoLocalEntryDispatchEvidence, authorizeDispatch,
           recordAdapterInvocationStarted, AdapterGuard, AwaitResponse, TryFails,
           TransitionActive, PersistOrder, PersistFailure, RouteRefusedRelease,
           releaseUnsubmittedOrRouteToRecovery, RecordOutcome, RecordOutcomeEvent,
           AssessVerified, ConfirmRead, CommitHeld, ConfirmFails, Crash
  <1>b. /\ ItemOK /\ \A i \in Intents : IntentOK(i)
        /\ pc \notin {"idle", "pTrack", "pClose"} => cur \in Intents
    BY DEF Evidence, IInv, ControlOK
  <1>c. /\ intent \in [Intents -> IntentStatuses] /\ reason \in [Intents -> BlockReasons]
        /\ claim \in [Owners -> ClaimStatuses \cup {"none"}] /\ Intents \subseteq Owners
        /\ ev \in [Intents -> Seq(EvidenceKinds)] /\ row \in [Intents -> OrderStatuses \cup {"none"}]
        /\ rel \in [Procs -> Release] /\ "wk" \in Procs
    BY DEF IInv, TypeOK, Owners, Procs
  (* Only claims change, to a status other than those before dispatch. *)
  <1>d. ASSUME UNCHANGED <<intent, reason, ev, row, fills>>,
               \A o \in Owners : \/ claim'[o] = claim[o]
                                 \/ claim'[o] \notin PreDispatchClaimStatuses \cup {"none"},
               NewRelease, ItemOK'
        PROVE  Evidence'
    <2>1. \A i \in Intents : Harmless(i)
      BY <1>a, <1>c, <1>d DEF Harmless
    <2> QED BY <1>a, <1>d, <2>1, HarmlessStep
  <1>e. /\ \A o \in ActiveStatuses : o \notin PreDispatchClaimStatuses \cup {"none"}
        /\ {"BROKER_ORDER_ACTIVE", "UNRESOLVED", "FILLED_AWAITING_POSITION"} \subseteq ActiveStatuses
    BY DEF ActiveStatuses, HeldStatuses, ClaimStatuses, PreDispatchClaimStatuses
  <1>1. ASSUME TransitionActive PROVE Evidence' /\ Releases
    <2>1. /\ Releases
          /\ \A o \in Owners : claim'[o] = claim[o] \/ claim'[o] \in ActiveStatuses
      BY <1>1, <1>b, <1>e, TransitionCovers, HeldKept DEF TransitionActive
    <2>2. ItemOK'
      BY <1>1, <1>b
      DEF TransitionActive, Step, ItemOK, AttemptOK, Attempt, BeforePost, PhaseOK, NotYetSent,
          Rejection
    <2>3. UNCHANGED <<intent, reason, ev, row, fills>> /\ NewRelease
      BY <1>1, ReleaseDropped DEF TransitionActive
    <2> QED BY <1>d, <1>e, <2>1, <2>2, <2>3
  <1>2. ASSUME PersistOrder PROVE Evidence' /\ Releases
    <2>1. /\ intent' = [intent EXCEPT ![cur] = "submitted"]
          /\ row' = row \/ row' = [row EXCEPT ![cur] = seen]
          /\ UNCHANGED <<reason, claim, ev, fills, cur, phase>> /\ NewRelease
          /\ pc = "wPersist"
          /\ pc' = "confirm" \/ (pc' = "wCatch" /\ err' = "error")
      BY <1>2, ReleaseDropped DEF PersistOrder, Acknowledged, Step, Throw
    <2>2. seen # "none"
      BY <2>1 DEF IInv, ControlOK, OrderStatuses
    <2>3. \A i \in Intents : Harmless(i)
      BY <1>a, <1>c, <2>1, <2>2 DEF Harmless, Early
    <2>4. ItemOK'
      BY <1>b, <2>1
      DEF ItemOK, AttemptOK, Attempt, BeforePost, PhaseOK, NotYetSent, Rejection
    <2> QED BY <1>a, <2>1, <2>3, <2>4, HarmlessStep, HeldKept
  <1>3. ASSUME NEW readable \in BOOLEAN, RouteRefusedRelease(readable)
        PROVE  Evidence' /\ Releases
    <2>1. /\ UNCHANGED <<intent, reason, ev, row, fills>> /\ NewRelease /\ pc = "wRoute"
      BY <1>3, ReleaseDropped DEF RouteRefusedRelease
    <2>2. claim' = claim \/ TransitionIgnoringErrors(cur, "UNRESOLVED")
      BY <1>3 DEF RouteRefusedRelease
    <2>3. /\ Releases
          /\ \A o \in Owners : claim'[o] = claim[o] \/ claim'[o] \in ActiveStatuses
      BY <1>b, <1>e, <2>1, <2>2, TransitionCovers, HeldKept
    <2>4. \/ Done
          \/ /\ pc' = "outcome" /\ seen' = "ackLost" /\ phase = "notDispatched"
             /\ UNCHANGED <<cur, phase, err, claim>>
      <3> HIDE DEF Done
      <3> QED BY <1>3 DEF RouteRefusedRelease, StepSeen
    <2>5. CASE /\ pc' = "outcome" /\ seen' = "ackLost" /\ phase = "notDispatched"
               /\ UNCHANGED <<cur, phase, err, claim>>
      <3>1. ItemOK'
        BY <1>a, <1>b, <2>1, <2>5
        DEF ItemOK, AttemptOK, Attempt, BeforePost, PhaseOK, NotYetSent, Rejection, Over
      <3> QED BY <1>d, <1>e, <2>1, <2>3, <3>1
    <2> QED BY <1>d, <1>e, <2>1, <2>3, <2>4, <2>5, DoneItem
  <1>4. ASSUME releaseUnsubmittedOrRouteToRecovery PROVE Evidence' /\ Releases
    <2>1. /\ UNCHANGED <<intent, reason, ev, row, fills>> /\ NewRelease /\ pc = "wRelease"
      BY <1>4, ReleaseDropped DEF releaseUnsubmittedOrRouteToRecovery
    <2>2. PICK c \in Intents, r \in BlockReasons : c = cur /\ r = reason[c]
      BY <1>b, <1>c, <2>1
    <2>3. CASE ReleaseThrows(c, r)
      <3>1. claim' = claim /\ pc' = "wRoute" /\ UNCHANGED <<cur, phase, err, seen>>
        BY <1>4, <2>2, <2>3 DEF releaseUnsubmittedOrRouteToRecovery, Step
      <3>2. ItemOK'
        BY <1>a, <1>b, <2>1, <3>1
        DEF ItemOK, AttemptOK, Attempt, BeforePost, PhaseOK, NotYetSent, Rejection, Over
      <3> QED BY <1>d, <2>1, <3>1, <3>2, HeldKept
    <2>4. CASE ~ ReleaseThrows(c, r)
      <3>1. Done /\ releaseUnsubmittedEntryExposureClaim(c)
        <4> HIDE DEF Done
        <4> QED BY <1>4, <2>2, <2>4 DEF releaseUnsubmittedOrRouteToRecovery
      <3>2. Releases
        BY <2>4, <3>1, UnsubmittedReleases
      <3>3. \A o \in Owners : claim'[o] = claim[o] \/ claim'[o] = "RELEASED"
        BY <1>c, <3>1 DEF releaseUnsubmittedEntryExposureClaim
      <3> QED BY <1>d, <2>1, <3>1, <3>2, <3>3, DoneItem DEF PreDispatchClaimStatuses
    <2> QED BY <2>3, <2>4
  <1>5. ASSUME RecordOutcome PROVE Evidence' /\ Releases
    <2>1. /\ UNCHANGED <<intent, reason, ev, row, fills>> /\ NewRelease /\ pc = "outcome"
      BY <1>5, ReleaseDropped DEF RecordOutcome
    <2>2. \/ claim' = claim
          \/ /\ claim' = [claim EXCEPT ![cur] = "UNRESOLVED"]
             /\ claim[cur] \in RecoverableStatuses
      BY <1>5 DEF RecordOutcome
    <2>3. /\ Releases
          /\ \A o \in Owners : claim'[o] = claim[o] \/ claim'[o] = "UNRESOLVED"
      BY <1>b, <1>c, <2>1, <2>2 DEF Releases, Held, HeldStatuses, ClaimStatuses
    <2>4. \/ Done
          \/ pc' \in {"outcomeEv", "assess"} /\ UNCHANGED <<cur, phase, err, seen>>
      <3> HIDE DEF Done
      <3> QED BY <1>5 DEF RecordOutcome, VerifyIfRecorded, Step
    <2>5. ItemOK'
      <3>1. CASE pc' \in {"outcomeEv", "assess"} /\ UNCHANGED <<cur, phase, err, seen>>
        BY <1>a, <1>b, <2>1, <3>1
        DEF ItemOK, AttemptOK, Attempt, BeforePost, PhaseOK, NotYetSent, Rejection, Over
      <3> QED BY <2>4, <3>1, DoneItem
    <2> QED BY <1>d, <2>1, <2>3, <2>5 DEF PreDispatchClaimStatuses
  <1>6. ASSUME RecordOutcomeEvent PROVE Evidence' /\ Releases
    <2>1. /\ UNCHANGED <<intent, reason, claim, row, fills>> /\ NewRelease /\ pc = "outcomeEv"
          /\ ev' = [ev EXCEPT ![cur] = Append(ev[cur], seen)]
      BY <1>6, ReleaseDropped DEF RecordOutcomeEvent, AppendEvidence
    <2>2. /\ cur \in Intents /\ seen \in OutcomeKinds /\ Over(cur)
          /\ seen \in LocalNonSend => bk[cur] = "none"
          /\ seen = "rejected" => bk[cur] = "refused"
      BY <1>b, <2>1 DEF IInv, ControlOK, ItemOK, AttemptOK, NotYetSent, Rejection
    <2>3. PICK c \in Intents, k \in OutcomeKinds : c = cur /\ k = seen
      BY <2>2
    <2>4. /\ ev'[c] = Append(ev[c], k) /\ k \in EvidenceKinds /\ ev[c] \in Seq(EvidenceKinds)
          /\ k \notin {"claimed", "marker"}
      BY <1>c, <2>1, <2>3 DEF EvidenceKinds, OutcomeKinds
    <2>5. \A K : Has(ev'[c], K) <=> Has(ev[c], K) \/ k \in K
      BY <2>4, HasAppend
    <2>6. Grown(c)
      BY <2>1, <2>4 DEF Grown, Over
    <2>7. IntentOK(c)'
      <3>1. IntentOK(c) /\ intent[c] \notin Early
        BY <1>b, <2>2, <2>3 DEF Over
      <3>2. UnsentOK(c)' /\ RefusedOK(c)'
        <4>1. Has(ev'[c], LocalNonSend) => Has(ev[c], LocalNonSend) \/ bk[c] = "none"
          BY <2>2, <2>3, <2>5
        <4>2. Has(ev'[c], {"rejected"}) => Has(ev[c], {"rejected"}) \/ bk[c] = "refused"
          BY <2>2, <2>3, <2>5
        <4>3. /\ Has(ev'[c], {"claimed"}) <=> Has(ev[c], {"claimed"})
              /\ Has(ev'[c], {"marker"}) <=> Has(ev[c], {"marker"})
          BY <2>4, <2>5
        <4>4. Unsent(c)' => Unsent(c) \/ bk[c] = "none"
          BY <2>1, <4>1, <4>3 DEF Unsent
        <4> QED BY <1>a, <2>1, <3>1, <4>2, <4>4 DEF UnsentOK, RefusedOK, IntentOK
      <3>3. EarlyOK(c)' /\ BoughtOK(c)' /\ UncertainOK(c)'
        BY <1>a, <2>1, <2>4, <2>5, <3>1 DEF EarlyOK, BoughtOK, UncertainOK, IntentOK, Visible
      <3> QED BY <3>2, <3>3 DEF IntentOK
    <2>8. ItemOK'
      <3>1. Done \/ (pc' = "assess" /\ UNCHANGED <<cur, phase, err, seen>>)
        <4> HIDE DEF Done
        <4> QED BY <1>6 DEF RecordOutcomeEvent, VerifyIfRecorded, Step
      <3>2. CASE pc' = "assess" /\ UNCHANGED <<cur, phase, err, seen>>
        BY <2>1, <2>2, <3>2
        DEF ItemOK, AttemptOK, Attempt, BeforePost, PhaseOK, NotYetSent, Rejection, Over
      <3> QED BY <3>1, <3>2, DoneItem
    <2> QED BY <1>a, <1>c, <2>1, <2>3, <2>6, <2>7, <2>8, EntryStep, HeldKept
  <1>7. ASSUME NEW settled \in BOOLEAN, AssessVerified(settled) PROVE Evidence' /\ Releases
    <2>1. UNCHANGED <<intent, reason, claim, ev, row, fills>> /\ pc = "assess"
      BY <1>7 DEF AssessVerified
    <2>2. PICK c \in Intents : c = cur
      BY <1>b, <2>1
    <2>3. CASE ~ assessEntryClaimRelease(c, settled)
      <3>1. Done /\ rel' = rel
        <4> HIDE DEF Done
        <4> QED BY <1>7, <2>2, <2>3 DEF AssessVerified
      <3> QED BY <1>a, <2>1, <3>1, ReleaseDropped, QuietStep, DoneItem
    <2>4. CASE assessEntryClaimRelease(c, settled)
      <3>1. PICK r : r = Assessed("verified", c)
        OBVIOUS
      <3>2. rel' = [rel EXCEPT !["wk"] = r] /\ pc' = "commit"
        BY <1>7, <2>2, <2>4, <3>1 DEF AssessVerified, Step
      <3>3. Settled(r)
        BY <2>4, <3>1, AssessedIsSettled
      <3>4. Settled(r)'
        BY <1>a, <2>1, <3>3 DEF Settled, Over
      <3>5. NewRelease
        BY <1>c, <3>2, <3>4 DEF NewRelease
      <3>6. ItemOK'
        BY <3>2 DEF ItemOK, AttemptOK, Attempt, BeforePost, PhaseOK, NotYetSent, Rejection
      <3> QED BY <1>a, <2>1, <3>5, <3>6, QuietStep
    <2> QED BY <2>3, <2>4
  <1>8. ASSUME ConfirmRead PROVE Evidence' /\ Releases
    <2>1. UNCHANGED <<intent, reason, ev, row, fills>> /\ pc = "confirm"
      BY <1>8 DEF ConfirmRead
    <2>2. PICK c \in Intents : c = cur
      BY <1>b, <2>1
    <2>3. claim' = claim \/ TransitionIgnoringErrors(c, "FILLED_AWAITING_POSITION")
      BY <1>8, <2>2 DEF ConfirmRead
    <2>4. /\ Releases
          /\ \A o \in Owners : claim'[o] = claim[o] \/ claim'[o] \in ActiveStatuses
      BY <1>e, <2>3, TransitionCovers, HeldKept
    <2>5. PICK r : r = Assessed("confirmed", c)
      OBVIOUS
    <2>6. NewRelease
      <3>1. rel' = rel \/ (rel' = [rel EXCEPT !["wk"] = r] /\ BrokerConfirmsNoExposure(c))
        BY <1>8, <2>2, <2>5 DEF ConfirmRead
      <3>2. CASE rel' = rel
        BY <3>2, ReleaseDropped
      <3>3. CASE rel' = [rel EXCEPT !["wk"] = r] /\ BrokerConfirmsNoExposure(c)
        <4>1. Settled(r)
          BY <2>5, <3>3, ConfirmedIsSettled
        <4>2. Settled(r)'
          BY <1>a, <2>1, <4>1 DEF Settled, Over
        <4> QED BY <1>c, <3>3, <4>2 DEF NewRelease
      <3> QED BY <3>1, <3>2, <3>3
    <2>7. ItemOK'
      <3>1. \/ Done
            \/ pc' = "commit"
            \/ pc' = "wCatch" /\ err' = "error" /\ phase # "pre" /\ UNCHANGED <<cur, phase>>
        <4> HIDE DEF Done
        <4> QED BY <1>8 DEF ConfirmRead, ConfirmThrows, Throw, Step
      <3>2. phase \in {"pre", "existing", "responded"}
        BY <1>b, <2>1 DEF ItemOK, PhaseOK
      <3>3. CASE pc' = "commit"
        BY <3>3 DEF ItemOK, AttemptOK, Attempt, BeforePost, PhaseOK, NotYetSent, Rejection
      <3>4. CASE pc' = "wCatch" /\ err' = "error" /\ phase # "pre" /\ UNCHANGED <<cur, phase>>
        BY <3>2, <3>4 DEF ItemOK, AttemptOK, Attempt, BeforePost, PhaseOK, NotYetSent, Rejection
      <3> QED BY <3>1, <3>3, <3>4, DoneItem
    <2> QED BY <1>d, <1>e, <2>1, <2>4, <2>6, <2>7
  <1>9. ASSUME CommitHeld PROVE Evidence' /\ Releases
    <2>1. /\ UNCHANGED <<intent, reason, ev, row, fills>> /\ Done
          /\ rel' = [rel EXCEPT !["wk"] = NoRelease]
      <3> HIDE DEF Done
      <3> QED BY <1>9 DEF CommitHeld, CommitRelease
    <2>a. PICK p \in Procs : p = "wk"
      BY <1>c
    <2>2. PICK o : o = rel[p].own
      OBVIOUS
    <2>3. \/ claim' = claim
          \/ claim' = [claim EXCEPT ![o] = "RELEASED"] /\ Revalidated(rel[p])
      BY <1>9, <2>a, <2>2 DEF CommitHeld, CommitRelease
    <2>4. Revalidated(rel[p]) => o \in Owners /\ Clear(o)
      BY <2>2, RevalidatedIsClear
    <2>5. Releases /\ \A q \in Owners : claim'[q] = claim[q] \/ claim'[q] = "RELEASED"
      BY <1>c, <2>3, <2>4 DEF Releases, Held
    <2> QED BY <1>d, <2>1, <2>5, ReleaseDropped, DoneItem DEF PreDispatchClaimStatuses
  <1>10. ASSUME ConfirmFails PROVE Evidence' /\ Releases
    <2>1. /\ UNCHANGED <<intent, reason, claim, ev, row, fills>> /\ NewRelease
          /\ pc' = "wCatch" /\ err' = "error" /\ UNCHANGED <<cur, phase>>
          /\ phase \in {"existing", "responded"}
      BY <1>10, ReleaseDropped DEF ConfirmFails, Throw
    <2>2. ItemOK'
      BY <2>1 DEF ItemOK, AttemptOK, Attempt, BeforePost, PhaseOK, NotYetSent, Rejection
    <2> QED BY <1>a, <2>1, <2>2, QuietStep
  <1>11. ASSUME Crash PROVE Evidence' /\ Releases
    <2>1. UNCHANGED <<intent, reason, claim, ev, row, fills>> /\ NewRelease /\ Done
      <3> HIDE DEF Done
      <3> QED BY <1>11, ReleaseDropped DEF Crash
    <2> QED BY <1>a, <2>1, DoneItem, QuietStep
  <1> HIDE DEF intentVars, claimVars, posVars, wkFrame, submitFrame
  <1> QED
    BY <1>a, <1>1, <1>2, <1>3, <1>4, <1>5, <1>6, <1>7, <1>8, <1>9, <1>10, <1>11,
       AttemptCovers, FailureCovers
    DEF WorkerNext, WorkerStep

-----------------------------------------------------------------------------
(* Recovery and the operator *)

(* The outcome the sweep records is one that was recorded before, or that  *)
(* the block reason carries: not sent, or a rejection, only when so.       *)
LEMMA SweepOutcomeTrue ==
  ASSUME IInv, NEW i \in Intents, IntentOK(i)
  PROVE  /\ sweepOutcome(i) \in LocalNonSend => bk[i] = "none"
         /\ sweepOutcome(i) = "rejected" => bk[i] = "refused"
  <1> DEFINE K == {k \in DOMAIN ev[i] : ev[i][k] \in OutcomeKinds}
  <1>1. CASE K # {}
    <2>1. Len(ev[i]) \in Nat /\ K \subseteq 0..Len(ev[i])
      BY DEF IInv, TypeOK
    <2>2. \E k \in K : \A j \in K : j <= k
      BY <1>1, <2>1, LatestExists
    <2>3. PICK k \in K : sweepOutcome(i) = ev[i][k]
      BY <1>1, <2>2 DEF sweepOutcome
    <2>4. /\ sweepOutcome(i) \in LocalNonSend => Has(ev[i], LocalNonSend)
          /\ sweepOutcome(i) = "rejected" => Has(ev[i], {"rejected"})
      BY <2>3 DEF Has
    <2> QED BY <2>4 DEF IntentOK, UnsentOK, Unsent, RefusedOK
  <1>2. CASE K = {}
    <2>1. \/ sweepOutcome(i) = "unknown"
          \/ sweepOutcome(i) = inferEntryDispatchOutcome(reason[i])
      BY <1>2 DEF sweepOutcome
    <2>2. CASE sweepOutcome(i) = inferEntryDispatchOutcome(reason[i])
      <3>1. reason[i] \in BlockReasons
        BY DEF IInv, TypeOK
      <3>2. /\ sweepOutcome(i) \in LocalNonSend => reason[i] \in UnsentReasons
            /\ sweepOutcome(i) = "rejected" => reason[i] = "rejected"
        BY <2>2, <3>1 DEF inferEntryDispatchOutcome, LocalNonSend, UnsentReasons, BlockReasons
      <3> QED BY <3>2 DEF IntentOK, UnsentOK, Unsent, RefusedOK
    <2> QED BY <2>1, <2>2 DEF LocalNonSend
  <1> QED BY <1>1, <1>2

(* The sweep records not-sent evidence only for an entry that was not sent. *)
LEMMA NotSentRecordingTrue ==
  ASSUME NEW i \in Intents, IntentOK(i),
         terminalClaimState(i) = "AUTOMATIC_NOT_SENT_EVIDENCE_RECORDING"
  PROVE  /\ bk[i] = "none" /\ row[i] = "none" /\ rec[i] = "none"
         /\ claim[i] \in PreDispatchClaimStatuses
         /\ DispatchOutcomes(ev[i]) = {} /\ Markers(ev[i]) = {}
         /\ ~ blockReasonCarriesDeliveryUncertainty(reason[i])
  <1>1. /\ row[i] = "none" /\ claim[i] \in PreDispatchClaimStatuses
        /\ rec[i] = "none" /\ DispatchOutcomes(ev[i]) = {}
        /\ Markers(ev[i]) = {}
        /\ MarkerProtocol(ev[i]) \/ legacyNotSentEvidence(reason[i])
    BY DEF terminalClaimState, classifyTerminalEntryClaim
  <1>2. ~ Has(ev[i], {"marker"})
    BY <1>1 DEF Markers, Has
  <1>3. MarkerProtocol(ev[i]) => Has(ev[i], {"claimed"})
    BY DEF MarkerProtocol, Has
  <1>4. legacyNotSentEvidence(reason[i]) =>
          reason[i] \in UnsentReasons /\ ~ blockReasonCarriesDeliveryUncertainty(reason[i])
    BY DEF legacyNotSentEvidence, UnsentReasons, blockReasonCarriesDeliveryUncertainty
  <1>5. MarkerProtocol(ev[i]) => ~ blockReasonCarriesDeliveryUncertainty(reason[i])
    BY <1>1, <1>3 DEF IntentOK, UncertainOK
  <1>6. bk[i] = "none"
    BY <1>1, <1>2, <1>3, <1>4 DEF IntentOK, UnsentOK, Unsent
  <1> QED BY <1>1, <1>4, <1>5, <1>6

(* Stale recovery after a confirmed absence: only a submission that never  *)
(* reached its marker is recorded as not sent (StaleAbsent).               *)
LEMMA AbsentCovers ==
  ASSUME IInv, Evidence, StaleAbsent
  PROVE  Evidence' /\ Releases
  <1>1. /\ UNCHANGED <<row, fills, rel, bk, bpos>> /\ NewRelease
        /\ pc = "sAbsent" /\ cur \in Intents /\ phase = "pre"
    BY ReleaseDropped DEF StaleAbsent, recFrame, brokerVars, IInv, ControlOK, Evidence, ItemOK,
                          PhaseOK
  <1>2. PICK c \in Intents : c = cur
    BY <1>1
  <1>3. CASE intent[c] # "submitting"
    <2>1. UNCHANGED <<intent, reason, claim, ev>> /\ Done
      <3> HIDE DEF Done
      <3> QED BY <1>2, <1>3 DEF StaleAbsent, intentVars, claimVars
    <2> QED BY <1>1, <2>1, DoneItem, QuietStep
  <1>4. CASE intent[c] = "submitting"
    <2>1. /\ intent \in [Intents -> IntentStatuses] /\ reason \in [Intents -> BlockReasons]
          /\ claim \in [Owners -> ClaimStatuses \cup {"none"}] /\ Intents \subseteq Owners
          /\ ev \in [Intents -> Seq(EvidenceKinds)] /\ ev[c] \in Seq(EvidenceKinds)
      BY DEF IInv, TypeOK, Owners
    <2>2. /\ IntentOK(c) /\ reason[c] = "none" /\ ~ Has(ev[c], Records)
      BY <1>4 DEF Evidence, IntentOK, EarlyOK, Early
    <2>3. ~ Has(ev[c], LocalNonSend) /\ ~ Has(ev[c], {"rejected"})
      BY <2>2 DEF Has, LocalNonSend, Records, OutcomeKinds
    <2>4. provenNotSent(c) => bk[c] = "none"
      BY <2>2 DEF provenNotSent, IntentOK, UnsentOK, Unsent, MarkerProtocol, Markers, Has
    <2>5. /\ intent' = [intent EXCEPT ![c] = "failed"]
          /\ reason' = [reason EXCEPT ![c] = IF provenNotSent(c) THEN "other" ELSE "unknownOutcome"]
      <3>1. preserveBlockReason(reason[c], IF provenNotSent(c) THEN "other" ELSE "unknownOutcome")
              = IF provenNotSent(c) THEN "other" ELSE "unknownOutcome"
        BY <2>2 DEF preserveBlockReason, blockReasonCarriesDeliveryUncertainty
      <3> QED BY <1>2, <1>4, <3>1 DEF StaleAbsent
    <2>6. CASE provenNotSent(c)
      <3>1. /\ ev' = ev \/ ev' = [ev EXCEPT ![c] = Append(ev[c], "notSent")]
            /\ claim' = claim /\ pc' = "wRelease" /\ UNCHANGED <<cur, phase, err, seen>>
        BY <1>2, <1>4, <2>6 DEF StaleAbsent, AppendEvidence, Step
      <3>2. /\ intent'[c] = "failed" /\ reason'[c] = "other"
            /\ ev'[c] = ev[c] \/ ev'[c] = Append(ev[c], "notSent")
            /\ "notSent" \in EvidenceKinds \ {"rejected"}
            /\ \A i \in Intents \ {c} : /\ intent'[i] = intent[i] /\ reason'[i] = reason[i]
                                        /\ ev'[i] = ev[i]
        BY <2>1, <2>5, <2>6, <3>1 DEF EvidenceKinds
      <3>3. Fresh(c)
        BY <1>1, <2>4, <2>6, <3>2
        DEF Fresh, EarlyOK, UncertainOK, Over, Early, blockReasonCarriesDeliveryUncertainty
      <3>4. IntentOK(c)' /\ Grown(c)
        BY <2>2, <3>3, FreshKeeps DEF IInv
      <3>5. ItemOK'
        BY <1>1, <1>2, <3>1, <3>2
        DEF ItemOK, AttemptOK, Attempt, BeforePost, PhaseOK, NotYetSent, Rejection, Over, Early
      <3> QED BY <1>1, <3>1, <3>2, <3>4, <3>5, EntryStep, HeldKept
    <2>7. CASE ~ provenNotSent(c)
      <3>1. /\ Done
            /\ \/ UNCHANGED <<claim, ev>> /\ claim[c] \notin RecoverableStatuses
               \/ /\ claim' = [claim EXCEPT ![c] = "UNRESOLVED"]
                  /\ ev' = [ev EXCEPT ![c] = Append(ev[c], "unknown")]
                  /\ claim[c] \in RecoverableStatuses
        <4> HIDE DEF Done
        <4> QED BY <1>2, <1>4, <2>7
                DEF StaleAbsent, recordEntryDispatchOutcome, AppendEvidence, claimVars
      <3>2. /\ intent'[c] = "failed" /\ reason'[c] = "unknownOutcome"
            /\ ev'[c] = ev[c] \/ ev'[c] = Append(ev[c], "unknown")
            /\ \A i \in Intents \ {c} : /\ intent'[i] = intent[i] /\ reason'[i] = reason[i]
                                        /\ ev'[i] = ev[i] /\ claim'[i] = claim[i]
            /\ claim'[c] = claim[c] \/ claim'[c] = "UNRESOLVED"
            /\ claim'[c] \notin PreDispatchClaimStatuses
        BY <2>1, <2>5, <2>7, <3>1 DEF RecoverableStatuses, PreDispatchClaimStatuses
      <3>3. /\ "unknown" \in EvidenceKinds /\ "unknown" \notin LocalNonSend
            /\ \A K : Has(Append(ev[c], "unknown"), K) <=> Has(ev[c], K) \/ "unknown" \in K
        <4>1. "unknown" \in EvidenceKinds /\ "unknown" \notin LocalNonSend
          BY DEF EvidenceKinds, OutcomeKinds, LocalNonSend
        <4> QED BY <2>1, <4>1, HasAppend
      <3>4. /\ ~ Has(ev'[c], LocalNonSend) /\ ~ Has(ev'[c], {"rejected"})
            /\ Has(ev'[c], {"claimed"}) <=> Has(ev[c], {"claimed"})
            /\ Has(ev'[c], {"marker"}) <=> Has(ev[c], {"marker"})
        BY <2>3, <3>2, <3>3
      <3>5. Unsent(c)' => Unsent(c)
        BY <3>2, <3>4 DEF Unsent, UnsentReasons
      <3>6. IntentOK(c)'
        BY <1>1, <2>2, <3>2, <3>4, <3>5
        DEF IntentOK, EarlyOK, Early, UnsentOK, RefusedOK, BoughtOK, UncertainOK, Visible
      <3>7. Grown(c)
        BY <3>2, <3>3 DEF Grown, Over, Early
      <3>8. Releases
        BY <2>1, <3>1 DEF Releases, Held, HeldStatuses, ClaimStatuses
      <3> QED BY <1>1, <3>1, <3>2, <3>6, <3>7, <3>8, DoneItem, EntryStep
    <2> QED BY <2>6, <2>7
  <1> QED BY <1>3, <1>4

(* Stale submissions, the terminal-claim sweep, abandoned admissions and   *)
(* the operator's remediation.                                             *)
LEMMA RecoveryCovers ==
  ASSUME IInv, Evidence, RecoveryNext
  PROVE  Evidence' /\ Releases /\ UNCHANGED <<bk, bpos, pos, loose>>
  <1> USE DEF intentVars, claimVars, posVars, brokerVars, wkVars, recFrame, opFrame, OperatorAssess
  <1>a. UNCHANGED <<bk, bpos, pos, loose, fills>>
    BY DEF RecoveryNext, RecoveryStep, OperatorNext, RecoverStaleSubmitting, SweepClaim,
           RecoverStaleAdmission, StaleLookup, StaleSubmitted, StaleLinkClaim, StaleAbsent,
           recordNotSentEvidenceAndRelease, OperatorConfirmed, OperatorVerified,
           OperatorAdopted, OperatorCommit
  <1>b. /\ ItemOK /\ \A i \in Intents : IntentOK(i)
        /\ pc \notin {"idle", "pTrack", "pClose"} => cur \in Intents
        /\ pc \in {"idle", "sLookup", "sSubmitted", "sLink", "record"} => phase = "pre"
    BY DEF Evidence, IInv, ControlOK, ItemOK, PhaseOK
  <1>c. /\ intent \in [Intents -> IntentStatuses] /\ reason \in [Intents -> BlockReasons]
        /\ claim \in [Owners -> ClaimStatuses \cup {"none"}] /\ Intents \subseteq Owners
        /\ ev \in [Intents -> Seq(EvidenceKinds)] /\ row \in [Intents -> OrderStatuses \cup {"none"}]
        /\ rel \in [Procs -> Release] /\ "wk" \in Procs /\ "op" \in Procs
    BY DEF IInv, TypeOK, Owners, Procs
  (* A new assessment of process p. *)
  <1>d. ASSUME NEW p \in Procs, NEW r, rel' = [rel EXCEPT ![p] = r], Settled(r),
               UNCHANGED <<intent, ev>>
        PROVE  NewRelease
    <2>1. Settled(r)'
      BY <1>a, <1>d DEF Settled, Over
    <2> QED BY <1>c, <1>d, <2>1 DEF NewRelease
  <1>1. ASSUME NEW i \in Intents, RecoverStaleSubmitting(i) PROVE Evidence' /\ Releases
    <2>1. /\ UNCHANGED <<intent, reason, claim, ev, row>> /\ NewRelease /\ phase' = "pre"
          /\ pc' \in {"sLookup", "sSubmitted"}
      BY <1>1, <1>b, ReleaseDropped DEF RecoverStaleSubmitting, Begin
    <2>2. ItemOK'
      BY <2>1 DEF ItemOK, AttemptOK, Attempt, BeforePost, PhaseOK, NotYetSent, Rejection
    <2> QED BY <1>a, <2>1, <2>2, QuietStep
  <1>2. ASSUME NEW i \in Intents, SweepClaim(i) PROVE Evidence' /\ Releases
    <2>1. /\ UNCHANGED <<intent, reason, claim, ev, row>> /\ phase' = "pre" /\ cur' = i
          /\ Over(i)'
      BY <1>2, <1>b DEF SweepClaim, Begin, Over, Early, TERMINAL_ENTRY_INTENT_STATUSES
    <2>2. CASE pc' = "record"
      <3>1. /\ terminalClaimState(i) = "AUTOMATIC_NOT_SENT_EVIDENCE_RECORDING"
            /\ rel' = [rel EXCEPT !["wk"] = Assessed("record", i)]
        BY <1>2, <2>2 DEF SweepClaim, Begin
      <3>2. bk[i] = "none"
        BY <1>b, <3>1, NotSentRecordingTrue
      <3>3. ItemOK'
        BY <1>a, <2>1, <2>2, <3>2
        DEF ItemOK, AttemptOK, Attempt, BeforePost, PhaseOK, NotYetSent, Rejection
      <3>4. NewRelease
        BY <1>c, <1>d, <2>1, <3>1, OtherIsSettled
      <3> QED BY <1>a, <2>1, <3>3, <3>4, QuietStep
    <2>3. CASE pc' # "record"
      <3>1. /\ rel' = rel /\ pc' \in {"wRelease", "outcome", "assess"}
            /\ pc' = "outcome" => seen' = sweepOutcome(i)
        BY <1>2, <2>3 DEF SweepClaim, Begin
      <3>2. /\ sweepOutcome(i) \in LocalNonSend => bk[i] = "none"
            /\ sweepOutcome(i) = "rejected" => bk[i] = "refused"
        BY <1>b, SweepOutcomeTrue
      <3>3. ItemOK'
        BY <1>a, <2>1, <3>1, <3>2
        DEF ItemOK, AttemptOK, Attempt, BeforePost, PhaseOK, NotYetSent, Rejection
      <3> QED BY <1>a, <2>1, <3>1, <3>3, ReleaseDropped, QuietStep
    <2> QED BY <2>2, <2>3
  <1>3. ASSUME NEW i \in Intents, RecoverStaleAdmission(i) PROVE Evidence' /\ Releases
    <2>1. /\ intent' = [intent EXCEPT ![i] = "failed"] /\ intent[i] = "received"
          /\ reason' = [reason EXCEPT ![i] = "other"]
          /\ ev' = [ev EXCEPT ![i] = Append(ev[i], "notSent")]
          /\ UNCHANGED <<claim, row>> /\ NewRelease
          /\ pc' = "wRelease" /\ cur' = i /\ phase' = "pre"
      BY <1>3, <1>b, ReleaseDropped DEF RecoverStaleAdmission, Begin, AppendEvidence
    <2>2. /\ bk[i] = "none" /\ "notSent" \in EvidenceKinds \ {"rejected"}
          /\ intent'[i] = "failed" /\ reason'[i] = "other" /\ ev'[i] = Append(ev[i], "notSent")
      BY <1>b, <1>c, <2>1 DEF IntentOK, UnsentOK, Unsent, EvidenceKinds
    <2>3. Fresh(i)
      BY <1>a, <2>1, <2>2
      DEF Fresh, EarlyOK, UncertainOK, Over, Early, blockReasonCarriesDeliveryUncertainty
    <2>4. IntentOK(i)' /\ Grown(i)
      BY <1>b, <2>3, FreshKeeps DEF IInv
    <2>5. ItemOK'
      BY <2>1, <2>2
      DEF ItemOK, AttemptOK, Attempt, BeforePost, PhaseOK, NotYetSent, Rejection, Over, Early
    <2> QED BY <1>a, <1>c, <2>1, <2>4, <2>5, EntryStep, HeldKept
  <1>4. ASSUME StaleLookup PROVE Evidence' /\ Releases
    <2>1. /\ UNCHANGED <<intent, reason, claim, ev, row>> /\ NewRelease /\ phase' = "pre"
          /\ pc' \in {"sSubmitted", "sAbsent"}
      BY <1>4, <1>b, ReleaseDropped DEF StaleLookup, Step, StepSeen
    <2>2. ItemOK'
      BY <2>1 DEF ItemOK, AttemptOK, Attempt, BeforePost, PhaseOK, NotYetSent, Rejection
    <2> QED BY <1>a, <2>1, <2>2, QuietStep
  <1>5. ASSUME StaleSubmitted PROVE Evidence' /\ Releases
    <2>1. /\ row' = row \/ (row' = [row EXCEPT ![cur] = seen] /\ row[cur] = "none")
          /\ \/ UNCHANGED <<intent, reason>>
             \/ /\ intent' = [intent EXCEPT ![cur] = "submitted"]
                /\ reason' = [reason EXCEPT ![cur] = "none"]
          /\ UNCHANGED <<claim, ev>> /\ NewRelease /\ phase' = "pre" /\ pc' = "sLink"
          /\ pc = "sSubmitted"
      BY <1>5, <1>b, ReleaseDropped DEF StaleSubmitted, Step
    <2>2. row[cur] = "none" => seen # "none"
      BY <2>1 DEF IInv, ControlOK, OrderStatuses
    <2>3. \A i \in Intents : Harmless(i)
      BY <1>a, <1>c, <2>1, <2>2 DEF Harmless, Early
    <2>4. ItemOK'
      BY <2>1 DEF ItemOK, AttemptOK, Attempt, BeforePost, PhaseOK, NotYetSent, Rejection
    <2> QED BY <1>a, <2>1, <2>3, <2>4, HarmlessStep, HeldKept
  <1>6. ASSUME StaleLinkClaim PROVE Evidence' /\ Releases
    <2>1. /\ UNCHANGED <<intent, reason, ev, row>> /\ NewRelease /\ Done /\ cur \in Intents
          /\ TransitionIgnoringErrors(cur, "BROKER_ORDER_ACTIVE")
      <3> HIDE DEF Done
      <3> QED BY <1>6, <1>b, ReleaseDropped DEF StaleLinkClaim
    <2>2. "BROKER_ORDER_ACTIVE" \in ActiveStatuses
      BY DEF ActiveStatuses, HeldStatuses, ClaimStatuses, PreDispatchClaimStatuses
    <2>3. /\ Releases
          /\ \A o \in Owners : claim'[o] = claim[o] \/ claim'[o] \in ActiveStatuses
      BY <2>1, <2>2, TransitionCovers
    <2>4. \A i \in Intents : Harmless(i)
      BY <1>a, <1>c, <2>1, <2>3 DEF Harmless, ActiveStatuses, HeldStatuses, ClaimStatuses
    <2> QED BY <1>a, <2>1, <2>3, <2>4, DoneItem, HarmlessStep
  <1>7. ASSUME recordNotSentEvidenceAndRelease PROVE Evidence' /\ Releases
    <2>1. /\ UNCHANGED <<intent, reason, claim, row>> /\ NewRelease /\ pc = "record"
          /\ \/ ev' = ev /\ Done
             \/ /\ ev' = [ev EXCEPT ![cur] = Append(ev[cur], "notSent")]
                /\ pc' = "wRelease" /\ UNCHANGED <<cur, phase, err, seen>>
      <3> HIDE DEF Done
      <3> QED BY <1>7, ReleaseDropped DEF recordNotSentEvidenceAndRelease, AppendEvidence, Step
    <2>2. /\ cur \in Intents /\ bk[cur] = "none" /\ Over(cur) /\ phase = "pre"
      BY <1>b, <2>1 DEF ItemOK, NotYetSent, AttemptOK
    <2>3. PICK c \in Intents : c = cur
      BY <2>2
    <2>4. CASE ev' = ev /\ Done
      BY <1>a, <2>1, <2>4, DoneItem, QuietStep
    <2>5. CASE /\ ev' = [ev EXCEPT ![cur] = Append(ev[cur], "notSent")]
               /\ pc' = "wRelease" /\ UNCHANGED <<cur, phase, err, seen>>
      <3>1. /\ ev'[c] = Append(ev[c], "notSent") /\ ev[c] \in Seq(EvidenceKinds)
            /\ "notSent" \in EvidenceKinds \ {"rejected"}
        BY <1>c, <2>3, <2>5 DEF EvidenceKinds
      <3>2. Has(ev'[c], {"claimed"}) => Has(ev[c], {"claimed"})
        BY <3>1, HasAppend
      <3>3. IntentOK(c) /\ bk[c] = "none" /\ Over(c)
        BY <1>b, <2>2, <2>3
      <3>4. reason[c] # "rejected"
        BY <3>3 DEF IntentOK, RefusedOK
      <3>5. Fresh(c)
        BY <1>a, <2>1, <3>1, <3>2, <3>3, <3>4
        DEF Fresh, EarlyOK, UncertainOK, Over, IntentOK
      <3>6. IntentOK(c)' /\ Grown(c)
        BY <3>3, <3>5, FreshKeeps DEF IInv
      <3>7. ItemOK'
        BY <2>1, <2>2, <2>5
        DEF ItemOK, AttemptOK, Attempt, BeforePost, PhaseOK, NotYetSent, Rejection, Over
      <3> QED BY <1>a, <1>c, <2>1, <2>3, <2>5, <3>6, <3>7, EntryStep, HeldKept
    <2> QED BY <2>1, <2>4, <2>5
  (* The operator, who does not hold the lock. *)
  <1>8. ASSUME UNCHANGED <<intent, reason, claim, ev, row, pc, cur, phase, err, seen>>,
               NewRelease
        PROVE  Evidence' /\ Releases
    <2>1. ItemOK'
      BY <1>8, <1>a, ItemKept DEF Over
    <2> QED BY <1>8, <1>a, <2>1, QuietStep
  <1>9. ASSUME NEW i \in Intents, NEW settled \in BOOLEAN, OperatorVerified(i, settled)
        PROVE  Evidence' /\ Releases
    <2>1. /\ UNCHANGED <<intent, reason, claim, ev, row, pc, cur, phase, err, seen>>
          /\ rel' = [rel EXCEPT !["op"] = Assessed("verified", i)]
          /\ assessEntryClaimRelease(i, settled)
      BY <1>9 DEF OperatorVerified
    <2>2. NewRelease
      BY <1>c, <1>d, <2>1, AssessedIsSettled
    <2> QED BY <1>8, <2>1, <2>2
  <1>10. ASSUME NEW i \in Intents, OperatorConfirmed(i) PROVE Evidence' /\ Releases
    <2>1. /\ UNCHANGED <<intent, reason, claim, ev, row, pc, cur, phase, err, seen>>
          /\ rel' = [rel EXCEPT !["op"] = Assessed("confirmed", i)]
          /\ BrokerConfirmsNoExposure(i)
      BY <1>10 DEF OperatorConfirmed
    <2>2. NewRelease
      BY <1>c, <1>d, <2>1, ConfirmedIsSettled
    <2> QED BY <1>8, <2>1, <2>2
  <1>11. ASSUME NEW a \in Adoptions, OperatorAdopted(a) PROVE Evidence' /\ Releases
    <2>1. /\ UNCHANGED <<intent, reason, claim, ev, row, pc, cur, phase, err, seen>>
          /\ rel' = [rel EXCEPT !["op"] = Assessed("adopted", a)]
      BY <1>11 DEF OperatorAdopted
    <2>2. NewRelease
      BY <1>c, <1>d, <2>1, OtherIsSettled
    <2> QED BY <1>8, <2>1, <2>2
  <1>12. ASSUME OperatorCommit PROVE Evidence' /\ Releases
    <2>1. /\ UNCHANGED <<intent, reason, ev, row, pc, cur, phase, err, seen>>
          /\ rel' = [rel EXCEPT !["op"] = NoRelease]
      BY <1>12 DEF OperatorCommit, CommitRelease
    <2>2. NewRelease
      BY <1>c, <2>1 DEF NewRelease
    <2>3. PICK p \in Procs : p = "op"
      BY <1>c
    <2>4. PICK o : o = rel[p].own
      OBVIOUS
    <2>5. \/ claim' = claim
          \/ claim' = [claim EXCEPT ![o] = "RELEASED"] /\ Revalidated(rel[p])
      BY <1>12, <2>3, <2>4 DEF OperatorCommit, CommitRelease
    <2>6. Revalidated(rel[p]) => o \in Owners /\ Clear(o)
      BY <2>4, RevalidatedIsClear
    <2>7. Releases /\ \A q \in Owners : claim'[q] = claim[q] \/ claim'[q] = "RELEASED"
      BY <1>c, <2>5, <2>6 DEF Releases, Held
    <2>8. \A i \in Intents : Harmless(i)
      BY <1>a, <1>c, <2>1, <2>7 DEF Harmless, PreDispatchClaimStatuses
    (* An attempt before its POST keeps its claim: a verified release is of an *)
    (* intent that is over, a confirmed one of an order the broker holds.      *)
    <2>9. \A i \in Intents : intent[i] = "submitting" /\ bk[i] = "none" => claim'[i] = claim[i]
      <3>1. Settled(rel[p])
        BY DEF Evidence, ReleaseOK
      <3>2. Revalidated(rel[p]) =>
              \/ o \notin Intents
              \/ intent[o] # "submitting" \/ bk[o] # "none"
        BY <2>4, <3>1, ConstantsAssumption
        DEF Revalidated, Settled, Over, Early, ConclusiveStatuses, IInv, ControlOK
      <3> QED BY <1>c, <2>5, <3>2
    <2>10. ItemOK'
      BY <1>a, <2>1, <2>9, ItemKept DEF Over
    <2> QED BY <1>a, <2>1, <2>2, <2>7, <2>8, <2>10, HarmlessStep
  <1> HIDE DEF intentVars, claimVars, posVars, brokerVars, wkVars, recFrame, opFrame, OperatorAssess
  <1> QED
    BY <1>a, <1>1, <1>2, <1>3, <1>4, <1>5, <1>6, <1>7, <1>9, <1>10, <1>11, <1>12, AbsentCovers
    DEF RecoveryNext, RecoveryStep, OperatorNext

-----------------------------------------------------------------------------
(* Synchronisation, position tracking and the broker *)

(* No tracked position is opened. *)
Closes == (\A o \in Owners : pos'[o] = "open" => pos[o] = "open") /\ (loose' => loose)

(* Order sync, fill import, closing of positions and reconciliation follow *)
(* the broker; none of them says anything about delivery.                  *)
LEMMA SyncCovers ==
  ASSUME IInv, Evidence, SyncNext, \A e \in Intents \cup {Nobody} : ~ TrackPosition(e)
  PROVE  Evidence' /\ Releases /\ UNCHANGED <<bk, bpos>> /\ Closes
  <1> USE DEF intentVars, orderVars, posVars, brokerVars, syncFrame
  <1>a. UNCHANGED <<bk, bpos, ev, rel>>
    BY DEF SyncNext, SyncStep, SyncOrder, ImportFill, ReconcileClosedClaim, SnapshotPositions,
           SyncRow, SyncIntent, SyncClaim, ImportOnClose, StoreFill,
           terminalizeImportedFullFill, CloseLoosePosition, ClosePosition
  <1>b. /\ NewRelease /\ ItemOK
        /\ pc \notin {"idle", "pTrack", "pClose"} => cur \in Intents
        /\ pc \in {"idle", "oRow", "oIntent", "oClaim", "aImport", "aStore", "aFull", "pTrack",
                   "pClose"} => phase = "pre"
    BY <1>a, ReleaseDropped DEF Evidence, IInv, ControlOK, ItemOK, PhaseOK
  <1>c. /\ intent \in [Intents -> IntentStatuses] /\ reason \in [Intents -> BlockReasons]
        /\ claim \in [Owners -> ClaimStatuses \cup {"none"}] /\ Intents \subseteq Owners
        /\ row \in [Intents -> OrderStatuses \cup {"none"}] /\ fills \in [Intents -> Nat]
        /\ pos \in [Owners -> {"none", "open", "closed"}]
    BY DEF IInv, TypeOK, Owners
  <1>d. ASSUME phase' = "pre",
               pc' \in {"idle", "oRow", "oIntent", "oClaim", "aImport", "aStore", "aFull",
                        "pTrack", "pClose", "confirm"}
        PROVE  ItemOK'
    BY <1>d DEF ItemOK, AttemptOK, Attempt, BeforePost, PhaseOK, NotYetSent, Rejection
  (* Claims only move towards what the broker shows. *)
  <1>e. ASSUME reason' = reason,
               \A i \in Intents : /\ intent'[i] = intent[i] \/ intent'[i] \in OrderStatuses
                                  /\ row'[i] = "none" => row[i] = "none" /\ fills'[i] = fills[i],
               \A o \in Owners : claim'[o] = claim[o] \/ claim'[o] \in ActiveStatuses,
               ItemOK'
        PROVE  Evidence' /\ Releases
    <2>1. \A i \in Intents : Harmless(i)
      BY <1>a, <1>c, <1>e DEF Harmless, Early, OrderStatuses, ActiveStatuses, HeldStatuses, ClaimStatuses
    <2>2. Releases
      BY <1>e DEF Releases, Held, ActiveStatuses
    <2> QED BY <1>a, <1>b, <1>e, <2>1, <2>2, HarmlessStep
  <1>f. {"PARTIALLY_FILLED", "FILLED_AWAITING_POSITION", "BROKER_ORDER_ACTIVE", "POSITION_OPEN"}
          \subseteq ActiveStatuses
    BY DEF ActiveStatuses, HeldStatuses, ClaimStatuses, PreDispatchClaimStatuses
  <1>1. ASSUME NEW i \in Intents, SyncOrder(i) \/ ReconcileClosedClaim(i)
        PROVE  Evidence' /\ Releases /\ Closes
    <2>1. /\ UNCHANGED <<intent, reason, claim, row, fills, pos, loose>>
          /\ phase' = "pre" /\ pc' \in {"oRow", "confirm"}
      BY <1>1, <1>b DEF SyncOrder, ReconcileClosedClaim, Begin
    <2> QED BY <1>d, <1>e, <2>1 DEF Closes
  <1>2. ASSUME NEW i \in Intents, ImportFill(i) PROVE Evidence' /\ Releases /\ Closes
    <2>1. /\ UNCHANGED <<intent, reason, row, fills, pos, loose>>
          /\ phase' = "pre" /\ pc' = "aStore"
          /\ TransitionIgnoringErrors(i, "PARTIALLY_FILLED")
      BY <1>2, <1>b DEF ImportFill, Begin
    <2>2. \A o \in Owners : claim'[o] = claim[o] \/ claim'[o] \in ActiveStatuses
      BY <1>f, <2>1, TransitionCovers
    <2> QED BY <1>d, <1>e, <2>1, <2>2 DEF Closes
  <1>3. ASSUME SnapshotPositions PROVE Evidence' /\ Releases /\ Closes
    <2>1. /\ UNCHANGED <<intent, reason, claim, row, fills, pos, loose>>
          /\ phase' = "pre" /\ pc' \in {"pTrack", "pClose"}
      BY <1>3, <1>b DEF SnapshotPositions, Begin
    <2> QED BY <1>d, <1>e, <2>1 DEF Closes
  <1>4. ASSUME SyncRow PROVE Evidence' /\ Releases /\ Closes
    <2>1. /\ UNCHANGED <<intent, reason, claim, fills, pos, loose>>
          /\ row' = [row EXCEPT ![cur] = seen] /\ pc = "oRow"
          /\ phase' = "pre" /\ pc' = "oIntent"
      BY <1>4, <1>b DEF SyncRow, Step
    <2>2. seen # "none"
      BY <2>1 DEF IInv, ControlOK, OrderStatuses
    <2> QED BY <1>c, <1>d, <1>e, <2>1, <2>2 DEF Closes
  <1>5. ASSUME SyncIntent PROVE Evidence' /\ Releases /\ Closes
    <2>1. /\ UNCHANGED <<reason, claim, row, fills, pos, loose>>
          /\ intent' = [intent EXCEPT ![cur] = seen] /\ pc = "oIntent"
          /\ phase' = "pre" /\ pc' = "oClaim"
      BY <1>5, <1>b DEF SyncIntent, Step
    <2>2. seen \in OrderStatuses
      BY <2>1 DEF IInv, ControlOK
    <2> QED BY <1>c, <1>d, <1>e, <2>1, <2>2 DEF Closes
  <1>6. ASSUME SyncClaim PROVE Evidence' /\ Releases /\ Closes
    <2>1. /\ UNCHANGED <<intent, reason, row, fills, pos, loose>>
          /\ phase' = "pre" /\ pc' = "confirm" /\ pc = "oClaim"
      BY <1>6, <1>b DEF SyncClaim, Step
    <2>2. PICK to \in ActiveStatuses : TransitionIgnoringErrors(cur, to)
      BY <1>6, <1>f DEF SyncClaim
    <2>3. \A o \in Owners : claim'[o] = claim[o] \/ claim'[o] \in ActiveStatuses
      BY <1>b, <2>1, <2>2, TransitionCovers
    <2> QED BY <1>d, <1>e, <2>1, <2>3 DEF Closes
  <1>7. ASSUME ImportOnClose PROVE Evidence' /\ Releases /\ Closes
    <2>1. /\ UNCHANGED <<intent, reason, row, fills, pos, loose>>
          /\ phase' = "pre" /\ pc' \in {"aStore", "confirm"} /\ pc = "aImport"
          /\ claim' = claim \/ TransitionIgnoringErrors(cur, "PARTIALLY_FILLED")
      BY <1>7, <1>b DEF ImportOnClose, Step
    <2>2. \A o \in Owners : claim'[o] = claim[o] \/ claim'[o] \in ActiveStatuses
      BY <1>b, <1>f, <2>1, TransitionCovers
    <2> QED BY <1>d, <1>e, <2>1, <2>2 DEF Closes
  <1>8. ASSUME StoreFill PROVE Evidence' /\ Releases /\ Closes
    <2>1. /\ UNCHANGED <<intent, reason, claim, row, pos, loose>>
          /\ fills' = [fills EXCEPT ![cur] = bfill[cur]] /\ pc = "aStore"
          /\ phase' = "pre" /\ pc' = "aFull"
      BY <1>8, <1>b DEF StoreFill, Step
    <2>2. row[cur] # "none"
      BY <2>1 DEF IInv, ControlOK
    <2> QED BY <1>c, <1>d, <1>e, <2>1, <2>2 DEF Closes
  <1>9. ASSUME NEW linked \in BOOLEAN, terminalizeImportedFullFill(linked)
        PROVE  Evidence' /\ Releases /\ Closes
    <2>1. /\ row' = row \/ row' = [row EXCEPT ![cur] = "filled"]
          /\ intent' = intent \/ intent' = [intent EXCEPT ![cur] = "filled"]
          /\ UNCHANGED <<reason, fills, pos, loose>> /\ pc = "aFull"
      BY <1>9 DEF terminalizeImportedFullFill
    <2>2. \/ claim' = claim
          \/ \E to \in ActiveStatuses : TransitionIgnoringErrors(cur, to)
      BY <1>9, <1>f DEF terminalizeImportedFullFill
    <2>3. \A o \in Owners : claim'[o] = claim[o] \/ claim'[o] \in ActiveStatuses
      BY <1>b, <2>1, <2>2, TransitionCovers
    <2>4. ItemOK'
      <3>1. Done \/ (pc' = "confirm" /\ phase' = "pre")
        <4> HIDE DEF Done
        <4> QED BY <1>9, <1>b DEF terminalizeImportedFullFill, Step
      <3> QED BY <1>d, <3>1, DoneItem
    <2>5. \A i \in Intents : /\ intent'[i] = intent[i] \/ intent'[i] \in OrderStatuses
                             /\ row'[i] = "none" => row[i] = "none" /\ fills'[i] = fills[i]
      BY <1>c, <2>1 DEF OrderStatuses
    <2> QED BY <1>e, <2>1, <2>3, <2>4, <2>5 DEF Closes
  <1>10. ASSUME CloseLoosePosition PROVE Evidence' /\ Releases /\ Closes
    <2>1. UNCHANGED <<intent, reason, claim, row, fills, pos>> /\ Done /\ ~ loose'
      <3> HIDE DEF Done
      <3> QED BY <1>10 DEF CloseLoosePosition
    <2> QED BY <1>e, <2>1, DoneItem DEF Closes
  <1>11. ASSUME NEW o \in Owners, ClosePosition(o) PROVE Evidence' /\ Releases /\ Closes
    <2>1. /\ UNCHANGED <<intent, reason, claim, row, fills, loose>>
          /\ pos' = [pos EXCEPT ![o] = "closed"]
          /\ Done \/ (pc' = "aImport" /\ phase' = "pre")
      <3> HIDE DEF Done
      <3> QED BY <1>11, <1>b DEF ClosePosition
    <2>2. Closes
      BY <1>c, <2>1 DEF Closes
    <2> QED BY <1>d, <1>e, <2>1, <2>2, DoneItem
  <1> HIDE DEF intentVars, orderVars, posVars, brokerVars, syncFrame
  <1> QED
    BY <1>a, <1>1, <1>2, <1>3, <1>4, <1>5, <1>6, <1>7, <1>8, <1>9, <1>10, <1>11
    DEF SyncNext, SyncStep

(* A tracked position belongs to the one held claim, or none is tracked    *)
(* under a claim: the position of a conflicting or UNRESOLVED claim is     *)
(* tracked on its own.                                                     *)
LEMMA TrackCovers ==
  ASSUME IInv, ExclusiveOwner, Evidence, PositionOwned, NEW e \in Intents \cup {Nobody},
         TrackPosition(e)
  PROVE  /\ Evidence' /\ Releases /\ PositionOwned' /\ UNCHANGED <<bk, bpos>>
         /\ \A o \in Owners : Held(o)' => Held(o) \/ \A p \in Owners : ~ Held(p)
         /\ \A o, p \in Owners : Held(o)' /\ Held(p)' => o = p
  <1>1. /\ UNCHANGED <<intent, reason, row, fills, bk, bpos, ev, rel>> /\ Done
    <2> HIDE DEF Done
    <2> QED BY DEF TrackPosition, syncFrame, intentVars, orderVars, brokerVars
  <1>2. /\ claim \in [Owners -> ClaimStatuses \cup {"none"}] /\ Intents \subseteq Owners
        /\ pos \in [Owners -> {"none", "open", "closed"}]
    BY DEF IInv, TypeOK, Owners
  <1>3. PICK o \in Owners, s \in {"UNRESOLVED", "POSITION_OPEN"} :
          /\ \A p \in Owners : Held(p) => p = o
          /\ Held(o) \/ \A p \in Owners : ~ Held(p)
          /\ claim' = [claim EXCEPT ![o] = s]
          /\ \/ pos' = pos /\ (loose' <=> pos[o] # "open")
             \/ pos' = [pos EXCEPT ![o] = "open"] /\ ~ loose'
    <2>1. CASE \E o \in Owners : Held(o)
      <3>1. PICK o \in Owners :
              /\ Held(o)
              /\ attachEntryExposureClaimToPosition(o, e # Nobody /\ e # o)
        BY <2>1 DEF TrackPosition
      <3>2. \A p \in Owners : Held(p) => p = o
        BY <3>1 DEF ExclusiveOwner
      <3>3. \/ /\ claim' = [claim EXCEPT ![o] = "UNRESOLVED"]
               /\ pos' = pos /\ (loose' <=> pos[o] # "open")
            \/ /\ claim' = [claim EXCEPT ![o] = "POSITION_OPEN"]
               /\ pos' = [pos EXCEPT ![o] = "open"] /\ ~ loose'
        BY <3>1, Zenon DEF attachEntryExposureClaimToPosition
      <3> QED BY <3>1, <3>2, <3>3
    <2>2. CASE ~ \E o \in Owners : Held(o)
      <3>1. PICK a \in Adoptions : AdoptPosition(a)
        BY <2>2 DEF TrackPosition
      <3>2. a \in Owners /\ claim' = [claim EXCEPT ![a] = "UNRESOLVED"]
        BY <3>1 DEF AdoptPosition, Owners
      <3>3. pos' = [pos EXCEPT ![a] = "open"] /\ ~ loose'
        BY <3>1 DEF AdoptPosition
      <3> QED BY <2>2, <3>2, <3>3
    <2> QED BY <2>1, <2>2
  <1>4. /\ claim'[o] = s /\ \A p \in Owners \ {o} : claim'[p] = claim[p]
        /\ s \in ActiveStatuses /\ s \in HeldStatuses
    BY <1>2, <1>3 DEF ActiveStatuses, HeldStatuses, ClaimStatuses, PreDispatchClaimStatuses
  <1>5. Releases /\ Held(o)' /\ \A p \in Owners : Held(p)' => p = o
    BY <1>3, <1>4 DEF Releases, Held
  <1>6. \A i \in Intents : Harmless(i)
    BY <1>1, <1>2, <1>4 DEF Harmless, ActiveStatuses, HeldStatuses, ClaimStatuses
  <1>7. Evidence'
    BY <1>1, <1>6, ReleaseDropped, DoneItem, HarmlessStep
  <1>8. \A p \in Owners : pos[p] = "open" => p = o
    BY <1>3 DEF PositionOwned
  <1>9. PositionOwned'
    <2> SUFFICES ASSUME NEW q \in Owners, pos'[q] = "open"
                 PROVE  Held(q)' /\ ~ loose' /\ \A p \in Owners : pos'[p] = "open" => p = q
        BY DEF PositionOwned
    <2>1. \A p \in Owners : pos'[p] = "open" => p = o
      BY <1>2, <1>3, <1>8
    <2>2. q = o /\ ~ loose'
      BY <1>2, <1>3, <2>1
    <2> QED BY <1>5, <2>1, <2>2
  <1> QED BY <1>1, <1>3, <1>5, <1>7, <1>9

(* How the broker changes an order and the position. *)
BrokerChange ==
  \/ /\ bpos' = bpos
     /\ \E i \in Intents, from \in Exposing, to \in {"refused"} \cup OrderStatuses :
          /\ bk[i] = from /\ bk' = [bk EXCEPT ![i] = to]
          /\ from # "sent" => to \in OrderStatuses
  \/ \E i \in Intents, to \in {"partial", "filled"} :
       /\ bk[i] \in {"open", "partial"} /\ bk' = [bk EXCEPT ![i] = to]
       /\ bpos' = bpos \cup {i}
  \/ bk' = bk /\ (bpos' = {} \/ \E a \in Adoptions : bpos' = bpos \cup {a})

(* The broker and other traders: an order that can no longer execute stays *)
(* so, a refused request stays refused, one that was not made stays so.    *)
LEMMA BrokerCovers ==
  ASSUME IInv, Evidence, BrokerNext
  PROVE  /\ Evidence' /\ UNCHANGED <<claim, ev, intent, pos, loose>>
         /\ \A i \in Intents :
              /\ bk'[i] = "sent" => bk[i] = "sent"
              /\ bk'[i] \in Exposing => bk[i] \in Exposing
              /\ i \in bpos' => i \in bpos \/ bk[i] \in Exposing
  <1>a. /\ UNCHANGED <<intent, reason, claim, ev, row, fills, pos, loose, rel>>
        /\ UNCHANGED <<pc, cur, phase, err, seen>>
    BY DEF BrokerNext, BrokerAccept, BrokerRefuse, BrokerCancel, BrokerDoneForDay, BrokerResume,
           BrokerFill, BrokerExit, ExternalBuy, BrokerStatus, brokerFrame, intentVars, claimVars,
           orderVars, posVars, wkVars
  <1>b. /\ bk \in [Intents -> BrokerStatuses] /\ Intents \cap Adoptions = {}
        /\ bpos \subseteq Owners
    BY ConstantsAssumption DEF IInv, TypeOK
  (* How the orders and the position change. *)
  <1>1. BrokerChange
    <2> USE DEF BrokerChange
    <2>1. ASSUME NEW i \in Intents, BrokerAccept(i) PROVE BrokerChange
      BY <2>1 DEF BrokerAccept, BrokerStatus, Exposing, OrderStatuses
    <2>2. ASSUME NEW i \in Intents, BrokerRefuse(i) PROVE BrokerChange
      BY <2>2 DEF BrokerRefuse, BrokerStatus, Exposing, OrderStatuses
    <2>3. ASSUME NEW i \in Intents, BrokerCancel(i) PROVE BrokerChange
      BY <2>3 DEF BrokerCancel, BrokerStatus, Exposing, OrderStatuses
    <2>4. ASSUME NEW i \in Intents, BrokerDoneForDay(i) PROVE BrokerChange
      BY <2>4 DEF BrokerDoneForDay, BrokerStatus, Exposing, OrderStatuses
    <2>5. ASSUME NEW i \in Intents, BrokerResume(i) PROVE BrokerChange
      BY <2>5 DEF BrokerResume, BrokerStatus, Exposing, OrderStatuses
    <2>6. ASSUME NEW i \in Intents, BrokerFill(i) PROVE BrokerChange
      BY <2>6 DEF BrokerFill
    <2>7. ASSUME BrokerExit PROVE BrokerChange
      BY <2>7 DEF BrokerExit
    <2>8. ASSUME NEW a \in Adoptions, ExternalBuy(a) PROVE BrokerChange
      BY <2>8 DEF ExternalBuy
    <2> QED BY <2>1, <2>2, <2>3, <2>4, <2>5, <2>6, <2>7, <2>8 DEF BrokerNext
  <1>2. \A i \in Intents :
          /\ bk[i] \notin Exposing => bk'[i] = bk[i] /\ (i \in bpos' => i \in bpos)
          /\ bk[i] \in OrderStatuses => bk'[i] \in OrderStatuses
          /\ i \in bpos' => i \in bpos \/ bk'[i] \in OrderStatuses
          /\ bk'[i] = "sent" => bk[i] = "sent"
    BY <1>1, <1>b DEF BrokerChange, Exposing, OrderStatuses
  <1>3. ASSUME NEW i \in Intents PROVE IntentOK(i)'
    <2>1. IntentOK(i)
      BY DEF Evidence
    <2>2. bk[i] \in {"none", "refused"} => bk'[i] = bk[i]
      BY <1>2 DEF Exposing
    <2>3. Unsent(i)' <=> Unsent(i)
      BY <1>a DEF Unsent
    <2> QED BY <1>2, <1>a, <2>1, <2>2, <2>3
            DEF IntentOK, EarlyOK, UnsentOK, RefusedOK, BoughtOK, UncertainOK, Visible
  <1>4. ItemOK'
    BY <1>2, <1>a, ItemKept DEF Over, Exposing
  <1>5. ReleaseOK'
    <2> SUFFICES ASSUME NEW p \in Procs PROVE Settled(rel[p])'
        BY DEF ReleaseOK
    <2>1. Settled(rel[p]) /\ rel'[p] = rel[p]
      BY <1>a DEF Evidence, ReleaseOK
    <2>2. rel[p].kind \in {"verified", "confirmed"} =>
            rel[p].own \in Intents /\ bk[rel[p].own] \notin Exposing
      BY <2>1 DEF IInv, ControlOK, Settled, ConclusiveStatuses, Exposing
    <2> QED BY <1>2, <1>a, <2>1, <2>2 DEF Settled, Over
  <1> QED BY <1>1, <1>2, <1>3, <1>4, <1>5, <1>a DEF Evidence, Exposing


-----------------------------------------------------------------------------
(* Initial states *)

(* Every initial state, legacy entries included: they left the marker out, *)
(* so only their block reason says anything.                               *)
LEMMA InitEvidence == Init => Evidence /\ Coverage
  <1> SUFFICES ASSUME Init PROVE Evidence /\ Coverage
      OBVIOUS
  <1>0. PICK old \in {{}} \cup {{i} : i \in Intents}, l \in LegacyEntries : Init!(old, l)
    BY DEF Init
  <1>1. /\ old \subseteq Intents
        /\ l.intent \in {"failed", "blocked", "submitting"}
        /\ l.intent = "submitting" => l.reason = "none"
        /\ l.reason \in UnsentReasons => l.bk = "none"
        /\ l.reason # "rejected"
    BY DEF LegacyEntries, UnsentReasons
  <1>2. \A K : ~ Has(<<>>, K)
    BY DEF Has
  <1>3. \A K : Has(<<"claimedV0">>, K) => "claimedV0" \in K
    BY DEF Has
  <1>4. ASSUME NEW i \in Intents PROVE IntentOK(i)
    <2>1. /\ ~ Has(ev[i], Records) /\ ~ Has(ev[i], {"claimed"}) /\ ~ Has(ev[i], LocalNonSend)
          /\ ~ Has(ev[i], {"rejected"})
      BY <1>0, <1>2, <1>3 DEF Records, OutcomeKinds, LocalNonSend
    <2>2. EarlyOK(i) /\ RefusedOK(i) /\ BoughtOK(i) /\ UncertainOK(i)
      BY <1>0, <1>1, <2>1 DEF EarlyOK, Early, RefusedOK, BoughtOK, UncertainOK
    <2>3. UnsentOK(i)
      BY <1>0, <1>1, <2>1 DEF UnsentOK, Unsent, UnsentReasons, Owners
    <2> QED BY <2>2, <2>3 DEF IntentOK
  <1>5. ItemOK
    BY <1>0 DEF ItemOK, AttemptOK, Attempt, BeforePost, PhaseOK, NotYetSent, Rejection
  <1>6. ReleaseOK
    BY <1>0, NoReleaseType DEF ReleaseOK, Settled
  <1>7. Coverage
    BY <1>0, <1>1 DEF Coverage, ExposureCovered, PositionCovered, PositionOwned, Held, Owners,
                HeldStatuses, ClaimStatuses
  <1> QED BY <1>4, <1>5, <1>6, <1>7 DEF Evidence

-----------------------------------------------------------------------------
(* The whole system *)

(* A claim becomes held only when no other is. *)
Gains == \A o \in Owners : Held(o)' => Held(o) \/ \A p \in Owners : ~ Held(p)

(* Every step is of one of two kinds: it moves claims, and releases only   *)
(* what is Clear, or it moves orders and shares at the broker, and creates *)
(* exposure only by an authorized POST or by executing an order.           *)
ClaimsMove == UNCHANGED <<bk, bpos>> /\ Releases /\ Gains
BrokerMoves ==
  /\ UNCHANGED claim
  /\ \A i \in Intents :
       bk'[i] = "sent" /\ bk[i] # "sent" =>
         /\ bk[i] = "none"
         /\ intent[i] = "submitting" /\ claim[i] = "ENTRY_SUBMITTING"
         /\ Unpaired(ev[i]) # {}

(* A step that closes positions and releases only what is Clear leaves     *)
(* everything covered.                                                     *)
LEMMA ReleasesKeepCoverage ==
  ASSUME Coverage, Releases, UNCHANGED <<bk, bpos>>, Closes
  PROVE  Coverage'
  <1> USE DEF Coverage, Releases, Clear
  <1>1. ExposureCovered'
    BY DEF ExposureCovered, Exposing, Owners
  <1>2. PositionCovered'
    BY DEF PositionCovered, Owners
  <1>3. PositionOwned'
    <2>1. ASSUME NEW o \in Owners, pos'[o] = "open"
          PROVE  Held(o)' /\ ~ loose' /\ \A p \in Owners : pos'[p] = "open" => p = o
      <3>1. pos[o] = "open" /\ (loose' => loose)
        BY <2>1 DEF Closes
      <3>2. Held(o) /\ ~ loose /\ \A p \in Owners : pos[p] = "open" => p = o
        BY <3>1 DEF PositionOwned
      <3> QED BY <3>1, <3>2 DEF Closes
    <2> QED BY <2>1 DEF PositionOwned
  <1> QED BY <1>1, <1>2, <1>3

(* An advancing step makes no claim held. *)
LEMMA AdvanceGains ==
  ASSUME IInv, Advance
  PROVE  Gains
  BY DEF IInv, TypeOK, Advance, ClaimChange, Gains, Held, HeldStatuses, ClaimStatuses

(* The induction step, with the kind of the step. *)
LEMMA NextCovers ==
  ASSUME IInv, ExclusiveOwner, Evidence, Coverage, [Next]_vars
  PROVE  Evidence' /\ Coverage' /\ (ClaimsMove \/ BrokerMoves)
  <1>0. ASSUME UNCHANGED <<pos, loose>> PROVE Closes
    BY <1>0 DEF Closes
  <1>1. CASE AdmissionNext
    <2>1. UNCHANGED <<bk, bpos, pos, loose>>
      BY <1>1 DEF AdmissionNext, acquireEntryExposureClaim, AdmitPending,
             AdmitPendingAckLost, AdmitFails, AdmitRiskBlocked, AdmitRiskRelease, AdmitCleanup,
             AdmitDies, closeEntryAuthority, deactivateTradingAccount, BlockEntries, apiFrame,
             orderVars, posVars, wkVars, brokerVars
    <2>2. Evidence' /\ Releases
      BY <1>1, AdmissionCovers
    <2>3. Gains
      <3>1. ASSUME NEW i \in Intents, acquireEntryExposureClaim(i) PROVE Gains
        BY <3>1, AcquireIInv DEF Gains
      <3> QED BY <1>1, <3>1, AdmissionIInv, AdvanceGains
    <2> QED BY <1>0, <2>1, <2>2, <2>3, ReleasesKeepCoverage DEF ClaimsMove
  <1>2. CASE submitAlpacaEntryOrder
    <2>1. PICK c \in Intents : c = cur
      BY <1>2, PostCovers
    <2>2. /\ Evidence' /\ UNCHANGED <<claim, ev, pos, loose, bpos, intent>>
          /\ bk[c] = "none" /\ bk' = [bk EXCEPT ![c] = "sent"]
          /\ intent[c] = "submitting" /\ claim[c] = "ENTRY_SUBMITTING"
          /\ Unpaired(ev[c]) # {}
      BY <1>2, <2>1, PostCovers
    <2>3. BrokerMoves
      BY <2>2 DEF BrokerMoves, IInv, TypeOK
    <2>4. Coverage'
      BY <2>2 DEF Coverage, ExposureCovered, PositionCovered, PositionOwned, IInv, TypeOK,
                  Held, HeldStatuses, ClaimStatuses
    <2> QED BY <2>2, <2>3, <2>4
  <1>3. CASE WorkerNext /\ ~ submitAlpacaEntryOrder
    <2>1. Evidence' /\ Releases /\ UNCHANGED <<bk, bpos, pos, loose>>
      BY <1>3, WorkerCovers
    <2>2. Gains
      BY <1>3, WorkerIInv, AdvanceGains
    <2> QED BY <1>0, <2>1, <2>2, ReleasesKeepCoverage DEF ClaimsMove
  <1>4. CASE RecoveryNext
    <2>1. Evidence' /\ Releases /\ UNCHANGED <<bk, bpos, pos, loose>>
      BY <1>4, RecoveryCovers
    <2>2. Gains
      BY <1>4, RecoveryIInv, AdvanceGains
    <2> QED BY <1>0, <2>1, <2>2, ReleasesKeepCoverage DEF ClaimsMove
  <1>5. CASE SyncNext
    <2>1. ASSUME NEW e \in Intents \cup {Nobody}, TrackPosition(e)
          PROVE  Evidence' /\ Coverage' /\ ClaimsMove
      <3>1. /\ Evidence' /\ Releases /\ PositionOwned' /\ UNCHANGED <<bk, bpos>>
            /\ \A o \in Owners : Held(o)' => Held(o) \/ \A p \in Owners : ~ Held(p)
        BY <2>1, TrackCovers DEF Coverage
      <3>2. ExposureCovered' /\ PositionCovered'
        BY <3>1 DEF Coverage, Releases, Clear, ExposureCovered, PositionCovered, Exposing, Owners
      <3> QED BY <3>1, <3>2 DEF Coverage, ClaimsMove, Gains
    <2>2. ASSUME \A e \in Intents \cup {Nobody} : ~ TrackPosition(e)
          PROVE  Evidence' /\ Coverage' /\ ClaimsMove
      <3>1. Evidence' /\ Releases /\ UNCHANGED <<bk, bpos>> /\ Closes
        BY <1>5, <2>2, SyncCovers
      <3>2. Gains
        BY <1>5, <2>2, SyncIInv, AdvanceGains
      <3> QED BY <3>1, <3>2, ReleasesKeepCoverage DEF ClaimsMove
    <2> QED BY <2>1, <2>2
  <1>6. CASE BrokerNext
    <2>1. /\ Evidence' /\ UNCHANGED <<claim, ev, intent, pos, loose>>
          /\ \A i \in Intents :
               /\ bk'[i] = "sent" => bk[i] = "sent"
               /\ bk'[i] \in Exposing => bk[i] \in Exposing
               /\ i \in bpos' => i \in bpos \/ bk[i] \in Exposing
      BY <1>6, BrokerCovers
    <2>2. Coverage'
      BY <2>1 DEF Coverage, ExposureCovered, PositionCovered, PositionOwned, Exposing, Held
    <2> QED BY <2>1, <2>2 DEF BrokerMoves
  <1>7. CASE UNCHANGED vars
    <2>1. UNCHANGED <<intent, reason, claim, ev, rec, row, fills, pos, loose, pc, cur, phase, err,
                      seen, rel, bk, bpos>>
      BY <1>7 DEF vars
    <2>2. Coverage' /\ BrokerMoves
      BY <2>1 DEF Coverage, ExposureCovered, PositionCovered, PositionOwned, Held, BrokerMoves
    <2>3. ASSUME NEW i \in Intents PROVE IntentOK(i)' /\ Grown(i)
      BY <2>1, HarmlessKeeps DEF Harmless, Evidence
    <2>4. NewRelease /\ ItemOK'
      BY <2>1 DEF NewRelease, Evidence, ItemOK, AttemptOK, PhaseOK, NotYetSent, Rejection, Over
    <2> QED BY <2>1, <2>2, <2>3, <2>4, WholeKeeps
  <1> QED BY <1>1, <1>2, <1>3, <1>4, <1>5, <1>6, <1>7 DEF Next, Rest


-----------------------------------------------------------------------------
(* Theorems *)

(* Every reachable state keeps the evidence true and everything covered.   *)
THEOREM Covered == Spec => [](Evidence /\ Coverage)
  <1>1. Init => Evidence /\ Coverage
    BY InitEvidence
  <1>2. IInv /\ ExclusiveOwner /\ (Evidence /\ Coverage) /\ [Next]_vars => (Evidence /\ Coverage)'
    BY NextCovers
  <1> QED BY <1>1, <1>2, Invariance, PTL DEF Spec

(* What each step of the lock holder relies on holds whenever it runs.     *)
THEOREM ControlCorrect == Spec => []ControlOK
  <1>1. IInv => ControlOK
    BY DEF IInv
  <1> QED BY <1>1, Invariance, PTL

(* A BUY on its way to the broker, or that may still execute there, is     *)
(* covered by its own unreleased claim, whatever crashed, timed out or was *)
(* recovered in between.                                                   *)
THEOREM ExposureIsCovered == Spec => []ExposureCovered
  <1>1. Evidence /\ Coverage => ExposureCovered
    BY DEF Coverage
  <1> QED BY <1>1, Covered, PTL

(* Shares bought by an entry are covered by its claim until they are sold. *)
THEOREM PositionIsCovered == Spec => []PositionCovered
  <1>1. Evidence /\ Coverage => PositionCovered
    BY DEF Coverage
  <1> QED BY <1>1, Covered, PTL

(* The active tracked position is the only one, and its claim is held.     *)
THEOREM PositionIsOwned == Spec => []PositionOwned
  <1>1. Evidence /\ Coverage => PositionOwned
    BY DEF Coverage
  <1> QED BY <1>1, Covered, PTL

(* Records that say no request was issued are true, whoever wrote them and *)
(* however late.                                                           *)
THEOREM NotSentRecordsAreTrue == Spec => []NotSentIsTrue
  <1>1. ASSUME Evidence PROVE NotSentIsTrue
    <2>1. ASSUME NEW i \in Intents, Classifications(ev[i]) # {},
                 Classifications(ev[i]) \subseteq LocalNonSend
          PROVE  bk[i] = "none"
      <3>1. PICK c \in Classifications(ev[i]) : c \in LocalNonSend
        BY <2>1
      <3>2. PICK k \in DOMAIN ev[i] : ev[i][k] = c
        BY <3>1 DEF Classifications, Recorded, LocalNonSend
      <3> QED BY <1>1, <3>1, <3>2 DEF Has, Evidence, IntentOK, UnsentOK, Unsent
    <2> QED BY <2>1 DEF NotSentIsTrue
  <1> QED BY <1>1, Covered, PTL

(* The kind of every step of the system. *)
LEMMA StepKinds == Spec => [][ClaimsMove \/ BrokerMoves]_vars
  <1>1. IInv /\ ExclusiveOwner /\ (Evidence /\ Coverage) /\ [Next]_vars => ClaimsMove \/ BrokerMoves
    BY NextCovers
  <1> QED BY <1>1, Invariance, Covered, PTL DEF Spec

(* A POST leaves only for an intent that never had one, that is still the  *)
(* worker's, whose claim is held for submission and whose adapter          *)
(* invocation is durably marked (submitAlpacaEntryOrder).                  *)
THEOREM PostsAreAuthorized == Spec => PostAuthorized
  <1>1. ClaimsMove \/ BrokerMoves =>
          \A i \in Intents : bk'[i] = "sent" /\ bk[i] # "sent" =>
            /\ bk[i] = "none"
            /\ intent[i] = "submitting" /\ claim[i] = "ENTRY_SUBMITTING"
            /\ Unpaired(ev[i]) # {}
    BY DEF ClaimsMove, BrokerMoves
  <1> QED BY <1>1, StepKinds, PTL DEF PostAuthorized

(* A claim whose delivery is uncertain is released only once the broker    *)
(* holds a conclusively terminal order for it: the absence of an order is  *)
(* never evidence.                                                         *)
THEOREM AbsenceIsNotEvidence == Spec => NoReleaseOnAbsence
  <1>1. ClaimsMove \/ BrokerMoves =>
          \A i \in Intents :
            /\ Held(i) /\ claim'[i] = "RELEASED"
            /\ Ambiguous(ev[i]) \ {"rejected"} # {}
            => bk[i] \in ConclusiveStatuses
    BY DEF ClaimsMove, BrokerMoves, Releases, Clear, Held, HeldStatuses, Owners
  <1> QED BY <1>1, StepKinds, PTL DEF NoReleaseOnAbsence


-----------------------------------------------------------------------------
(* Progress of the sweep *)

(* An appended record is among the classifications; without a marker       *)
(* nothing else but what was recorded before is.                           *)
LEMMA RecordAppended ==
  ASSUME NEW log \in Seq(EvidenceKinds), NEW k \in Records
  PROVE  /\ k \in Classifications(Append(log, k))
         /\ Markers(log) = {} =>
              Classifications(Append(log, k)) \subseteq Classifications(log) \cup {k}
  <1>1. /\ DOMAIN Append(log, k) = 1..(Len(log) + 1)
        /\ \A j \in DOMAIN log : Append(log, k)[j] = log[j]
        /\ Append(log, k)[Len(log) + 1] = k
        /\ DOMAIN log = 1..Len(log) /\ Len(log) \in Nat
    BY DEF Records, OutcomeKinds, EvidenceKinds
  <1>2. Recorded(Append(log, k)) = Recorded(log) \cup {Len(log) + 1}
    BY <1>1 DEF Recorded, Records
  <1>3. k \in Classifications(Append(log, k))
    BY <1>1, <1>2 DEF Classifications
  <1>4. ASSUME Markers(log) = {}
        PROVE  Classifications(Append(log, k)) \subseteq Classifications(log) \cup {k}
    <2>1. Markers(Append(log, k)) = {}
      BY <1>1, <1>4 DEF Markers, Records, OutcomeKinds
    <2>2. Unpaired(Append(log, k)) = {} /\ Unpaired(log) = {}
      BY <1>4, <2>1 DEF Unpaired
    <2>3. \A j \in Recorded(log) : j \in DOMAIN log /\ Append(log, k)[j] = log[j]
      BY <1>1 DEF Recorded
    <2> QED BY <1>1, <1>2, <2>2, <2>3 DEF Classifications
  <1> QED BY <1>3, <1>4

(* Whatever the sweep decides about a claim is possible and leads on: a    *)
(* proven release is accepted, a not-sent record proves the release, and   *)
(* an outcome is not recorded again (runTerminalEntryClaimSweep).          *)
LEMMA SweepLeadsOn ==
  ASSUME IInv, Evidence
  PROVE  SweepMakesProgress
  <1> DEFINE after(i, status, kind) ==
        classifyTerminalEntryClaim(status, Append(ev[i], kind), reason[i], rec[i] # "none", FALSE)
  <1>1. ASSUME NEW i \in Intents, Held(i), pos[i] = "none"
        PROVE  /\ terminalClaimState(i) = "AUTOMATIC_NEVER_SUBMITTED_RELEASE" =>
                    MayReleaseUnsubmitted(i, reason[i])
               /\ terminalClaimState(i) = "AUTOMATIC_NOT_SENT_EVIDENCE_RECORDING" =>
                    after(i, claim[i], "notSent") = "AUTOMATIC_NEVER_SUBMITTED_RELEASE"
               /\ terminalClaimState(i) = "AUTOMATIC_OUTCOME_RECORDING" =>
                    after(i, "UNRESOLVED", sweepOutcome(i)) # "AUTOMATIC_OUTCOME_RECORDING"
    <2>0. IntentOK(i) /\ ev[i] \in Seq(EvidenceKinds)
      BY DEF Evidence, IInv, TypeOK
    <2>1. ASSUME terminalClaimState(i) = "AUTOMATIC_NEVER_SUBMITTED_RELEASE"
          PROVE  MayReleaseUnsubmitted(i, reason[i])
      <3>1. /\ row[i] = "none" /\ rec[i] = "none" /\ claim[i] \in PreDispatchClaimStatuses
            /\ evaluateNeverSubmittedRelease(claim[i], ev[i], reason[i])
        BY <2>1 DEF terminalClaimState, classifyTerminalEntryClaim
      <3>2. fills[i] = 0
        BY <2>0, <3>1 DEF IntentOK, BoughtOK
      <3> QED BY <1>1, <3>1, <3>2 DEF MayReleaseUnsubmitted
    <2>2. ASSUME terminalClaimState(i) = "AUTOMATIC_NOT_SENT_EVIDENCE_RECORDING"
          PROVE  after(i, claim[i], "notSent") = "AUTOMATIC_NEVER_SUBMITTED_RELEASE"
      <3>1. /\ rec[i] = "none" /\ claim[i] \in PreDispatchClaimStatuses
            /\ DispatchOutcomes(ev[i]) = {} /\ Markers(ev[i]) = {}
            /\ ~ blockReasonCarriesDeliveryUncertainty(reason[i])
        BY <2>0, <2>2, NotSentRecordingTrue
      <3> DEFINE log == Append(ev[i], "notSent")
      <3>2. /\ "notSent" \in Classifications(log)
            /\ Classifications(log) \subseteq Classifications(ev[i]) \cup {"notSent"}
        BY <2>0, <3>1, RecordAppended DEF Records
      <3> HIDE DEF log
      <3>3. DispatchOutcomes(log) = {} /\ Ambiguous(log) = {}
        BY <3>1, <3>2 DEF DispatchOutcomes, Ambiguous, LocalNonSend
      <3>4. evaluateNeverSubmittedRelease(claim[i], log, reason[i])
        BY <3>1, <3>2, <3>3 DEF evaluateNeverSubmittedRelease
      <3>5. classifyTerminalEntryClaim(claim[i], log, reason[i], FALSE, FALSE)
              = "AUTOMATIC_NEVER_SUBMITTED_RELEASE"
        <4>1. claim[i] # "UNRESOLVED"
          BY <3>1 DEF PreDispatchClaimStatuses
        <4> QED BY <3>1, <3>3, <3>4, <4>1, Zenon DEF classifyTerminalEntryClaim
      <3>6. (rec[i] # "none") = FALSE
        BY <3>1
      <3> QED BY <3>5, <3>6 DEF log
    <2>3. after(i, "UNRESOLVED", sweepOutcome(i)) # "AUTOMATIC_OUTCOME_RECORDING"
      <3> DEFINE log == Append(ev[i], sweepOutcome(i))
      <3>1. sweepOutcome(i) \in Records
        BY SweepOutcomeType DEF IInv, Records
      <3>2. Classifications(log) # {}
        BY <2>0, <3>1, RecordAppended
      <3> HIDE DEF log
      <3>3. classifyTerminalEntryClaim("UNRESOLVED", log, reason[i], rec[i] # "none", FALSE)
              # "AUTOMATIC_OUTCOME_RECORDING"
        BY <3>2 DEF classifyTerminalEntryClaim, PreDispatchClaimStatuses
      <3> QED BY <3>3 DEF log
    <2> QED BY <2>1, <2>2, <2>3
  <1> HIDE DEF after
  <1> QED BY <1>1 DEF SweepMakesProgress, after

(* The terminal-claim sweep makes progress on every claim it may take.     *)
THEOREM SweepProgresses == Spec => []SweepMakesProgress
  <1>1. IInv /\ Evidence => SweepMakesProgress
    BY SweepLeadsOn
  <1> QED BY <1>1, Invariance, Covered, PTL

-----------------------------------------------------------------------------
(* Refinement *)

(* The holder of the unreleased claim, and the entries with exposure. *)
Owner == IF \E o \in Owners : Held(o) THEN CHOOSE o \in Owners : Held(o) ELSE Nobody
Exposed == {i \in Intents : bk[i] \in {"sent", "open", "partial", "doneForDay"} \/ i \in bpos}

(* Whoever holds the claim is the owner, and exposure is the owner's. *)
OwnerOK ==
  /\ Owner \in Owners \cup {Nobody}
  /\ \A o \in Owners : Held(o) <=> o = Owner
  /\ Exposed \subseteq {Owner} \cap Owners

(* With a single unreleased claim that covers all exposure, it is so. *)
LEMMA OwnerHolds == ExclusiveOwner /\ Coverage => OwnerOK
  <1> SUFFICES ASSUME ExclusiveOwner, Coverage PROVE OwnerOK
    OBVIOUS
  <1>0. Nobody \notin Owners
    BY ConstantsAssumption DEF Owners
  <1>1. Owner \in Owners \cup {Nobody} /\ \A o \in Owners : Held(o) <=> o = Owner
    <2>1. CASE \E o \in Owners : Held(o)
      <3>1. Owner = CHOOSE o \in Owners : Held(o)
        BY <2>1 DEF Owner
      <3>2. Owner \in Owners /\ Held(Owner)
        BY <2>1, <3>1
      <3> QED BY <3>2 DEF ExclusiveOwner
    <2>2. CASE ~ \E o \in Owners : Held(o)
      BY <1>0, <2>2 DEF Owner
    <2> QED BY <2>1, <2>2
  <1>2. Exposed \subseteq {Owner} \cap Owners
    BY <1>1 DEF Exposed, Coverage, ExposureCovered, PositionCovered, Owners
  <1> QED BY <1>1, <1>2 DEF OwnerOK

(* So it is after every step. *)
LEMMA OwnerAlways == Spec => []OwnerOK
  <1>1. (Evidence /\ Coverage) /\ ExclusiveOwner => OwnerOK
    BY OwnerHolds
  <1> QED BY <1>1, Invariance, Covered, PTL

(* Every step is a step of single ownership, or none: claims move by       *)
(* Acquire and Release while exposure stays, exposure of the owner moves   *)
(* by Expose and Settle while claims stay.                                 *)
LEMMA OwnershipStep ==
  ASSUME OwnerOK, OwnerOK', ClaimsMove \/ BrokerMoves
  PROVE  \/ Owner' = Owner /\ Exposed' = Exposed
         \/ \E o \in Owners :
              \/ Owner = Nobody /\ Owner' = o /\ Exposed' = Exposed
              \/ Owner = o /\ Exposed' = Exposed \cup {o} /\ Owner' = Owner
              \/ Exposed' = Exposed \ {o} /\ Owner' = Owner
         \/ Owner # Nobody /\ Owner \notin Exposed /\ Owner' = Nobody /\ Exposed' = Exposed
  <1>0. Nobody \notin Owners
    BY ConstantsAssumption DEF Owners
  <1>1. /\ Owner \in Owners \cup {Nobody} /\ Owner' \in Owners \cup {Nobody}
        /\ \A o \in Owners : Held(o) <=> o = Owner
        /\ \A o \in Owners : Held(o)' <=> o = Owner'
        /\ Exposed \subseteq {Owner} \cap Owners /\ Exposed' \subseteq {Owner'} \cap Owners
    BY DEF OwnerOK, Owners
  <1>2. CASE ClaimsMove
    <2>1. Exposed' = Exposed
      BY <1>2 DEF ClaimsMove, Exposed
    <2>2. CASE Owner = Nobody
      BY <1>1, <2>1, <2>2
    <2>3. CASE Owner # Nobody /\ Owner' = Nobody
      <3>1. PICK o \in Owners : o = Owner
        BY <1>1, <2>3
      <3>2. Held(o) /\ ~ Held(o)'
        BY <1>0, <1>1, <2>3, <3>1
      <3>3. Clear(o)
        BY <1>2, <3>2 DEF ClaimsMove, Releases
      <3>4. o \notin Exposed
        BY <3>3 DEF Clear, Exposing, Exposed
      <3> QED BY <2>1, <2>3, <3>1, <3>4
    <2>4. CASE Owner # Nobody /\ Owner' # Nobody
      <3>1. PICK o \in Owners, p \in Owners : o = Owner /\ p = Owner'
        BY <1>1, <2>4
      <3>2. Held(o) /\ Held(p)'
        BY <1>1, <3>1
      <3>3. Held(p)
        BY <1>2, <3>2 DEF ClaimsMove, Gains
      <3> QED BY <1>1, <2>1, <3>1, <3>3
    <2> QED BY <2>2, <2>3, <2>4
  <1>3. CASE BrokerMoves
    <2>1. Owner' = Owner
      BY <1>3 DEF BrokerMoves, Owner, Held
    <2>2. CASE Owner = Nobody
      BY <1>0, <1>1, <2>1, <2>2
    <2>3. CASE Owner # Nobody
      <3>1. PICK o \in Owners : o = Owner
        BY <1>1, <2>3
      <3>2. Exposed \in {{}, {o}} /\ Exposed' \in {{}, {o}}
        BY <1>1, <2>1, <3>1
      <3>3. \/ Exposed' = Exposed
            \/ Exposed' = Exposed \cup {o}
            \/ Exposed' = Exposed \ {o}
        BY <3>2
      <3> QED BY <2>1, <3>1, <3>3
    <2> QED BY <2>2, <2>3
  <1> QED BY <1>2, <1>3

(* The claim protocol implements single ownership of the exposure of an    *)
(* account/Security pair (ExposureOwnership): one owner, who alone creates *)
(* exposure and gives the pair back only when none is left.                *)
THEOREM OwnershipImplemented == Spec => ImplementsOwnership
  <1>1. OwnerOK => Ownership!Init
    BY DEF OwnerOK, Ownership!Init, Owner, Exposed
  <1>2. OwnerOK /\ OwnerOK' /\ (ClaimsMove \/ BrokerMoves)
          => [Ownership!Next]_<<Owner, Exposed>>
    BY OwnershipStep DEF Ownership!Next, Ownership!Acquire, Ownership!Expose, Ownership!Settle,
                         Ownership!Release, Owner, Exposed
  <1>3. Spec => [][Ownership!Next]_<<Owner, Exposed>>
    <2>1. OwnerOK /\ OwnerOK' /\ UNCHANGED vars => UNCHANGED <<Owner, Exposed>>
      BY DEF vars, Owner, Exposed, Held
    <2> QED BY <1>2, <2>1, OwnerAlways, StepKinds, PTL
  <1>4. Spec => Ownership!Init
    BY <1>1, OwnerAlways, PTL
  <1> QED BY <1>3, <1>4, PTL DEF ImplementsOwnership, Ownership!Spec, Owner, Exposed
=============================================================================
