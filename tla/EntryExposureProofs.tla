------------------------- MODULE EntryExposureProofs -------------------------
(***************************************************************************)
(* Proofs about the entry-exposure lifecycle, for every set of intents and *)
(* adoptions and every bound.  IInv is inductive; beside it every step     *)
(* but two (an admission and the tracking of a broker position) obeys      *)
(* Advance, which never makes a claim held; the two exceptions act only    *)
(* when no claim is held.  That is the whole argument for single ownership.*)
(***************************************************************************)
EXTENDS EntryExposure, TLAPS, NatSets

(* The inductive invariant.  LocalOrderBacked alone is not inductive: the  *)
(* worker, stale recovery and order sync write the status an earlier step  *)
(* read, and ControlOK says what that earlier step established.            *)
IInv == TypeOK /\ ControlOK /\ LocalOrderBacked

(* How a step that is neither an admission nor the tracking of a position  *)
(* may change claims: none appears, none returns from RELEASED, and        *)
(* UNRESOLVED is left only for RELEASED.                                   *)
ClaimChange ==
  /\ claim' \in [Owners -> ClaimStatuses \cup {"none"}]
  /\ \A o \in Owners :
       /\ claim[o] = "none" => claim'[o] = "none"
       /\ claim[o] = "RELEASED" => claim'[o] = "RELEASED"
       /\ claim[o] = "UNRESOLVED" => claim'[o] \in {"UNRESOLVED", "RELEASED"}

Advance ==
  /\ ClaimChange
  /\ \A o \in Owners : pos[o] = "none" => pos'[o] = "none"

-----------------------------------------------------------------------------
(* What the claim operations return and preserve *)

(* A statement that does not write claims changes none. *)
LEMMA ClaimKept ==
  ASSUME TypeOK, UNCHANGED claim
  PROVE  ClaimChange
  BY DEF TypeOK, ClaimChange

(* Nor does a step that writes neither claims nor positions advance them.  *)
LEMMA NothingAdvanced ==
  ASSUME TypeOK, UNCHANGED <<claim, pos>>
  PROVE  Advance
  BY ClaimKept DEF Advance

(* transitionEntryExposureClaim, errors ignored: the transition table has  *)
(* no edge out of UNRESOLVED, and a released or missing claim throws.      *)
LEMMA TransitionChange ==
  ASSUME TypeOK, NEW i \in Intents, NEW to \in ClaimStatuses,
         TransitionIgnoringErrors(i, to)
  PROVE  ClaimChange
  <1>1. CASE ~ TransitionAllowed(i, to)
    BY <1>1, ClaimKept DEF TransitionIgnoringErrors
  <1>2. CASE TransitionAllowed(i, to)
    <2>1. claim' = [claim EXCEPT ![i] = to] /\ i \in Owners
      BY <1>2 DEF TransitionIgnoringErrors, Owners
    <2>2. /\ claim[i] \in HeldStatuses
          /\ claim[i] = to \/ to \in transitions[claim[i]]
      BY <1>2 DEF TransitionAllowed, Held, canTransitionEntryExposureClaim
    <2>3. claim[i] = "UNRESOLVED" => to = "UNRESOLVED"
      BY <2>2 DEF transitions, HeldStatuses, ClaimStatuses
    <2> QED BY <2>1, <2>2, <2>3 DEF TypeOK, ClaimChange, HeldStatuses, ClaimStatuses
  <1> QED BY <1>1, <1>2

(* recordEntryDispatchOutcome only retains recoverable claims. *)
LEMMA OutcomeChange ==
  ASSUME TypeOK, NEW i \in Intents, NEW kind, recordEntryDispatchOutcome(i, kind)
  PROVE  ClaimChange
  BY DEF TypeOK, ClaimChange, recordEntryDispatchOutcome, claimVars, Owners,
         RecoverableStatuses, PreDispatchClaimStatuses, ClaimStatuses

(* releaseUnsubmittedEntryExposureClaim releases a held claim only. *)
LEMMA UnsubmittedChange ==
  ASSUME TypeOK, NEW i \in Intents, releaseUnsubmittedEntryExposureClaim(i)
  PROVE  ClaimChange
  BY DEF TypeOK, ClaimChange, releaseUnsubmittedEntryExposureClaim, Owners, Held,
         HeldStatuses, ClaimStatuses

(* The locked compare-and-set of an evidence-based release: whatever ran   *)
(* since the assessment, the claim it releases exists.                     *)
LEMMA CommitChange ==
  ASSUME IInv, NEW p \in Procs, CommitRelease(p)
  PROVE  ClaimChange
  <1> USE DEF IInv
  <1>1. CASE ~ Revalidated(rel[p])
    BY <1>1, ClaimKept DEF CommitRelease
  <1>2. CASE Revalidated(rel[p])
    <2>1. claim' = [claim EXCEPT ![rel[p].own] = "RELEASED"]
      BY <1>2 DEF CommitRelease
    <2>2. rel[p].own \in Owners
      BY DEF ControlOK, Owners, CommitRelease
    <2>3. claim[rel[p].own] # "none"
      BY <1>2 DEF Revalidated, RevalidateVerified, RevalidateConfirmed,
              RevalidateAdopted, Held, HeldStatuses, ClaimStatuses, ControlOK
    <2> QED BY <2>1, <2>2, <2>3 DEF TypeOK, ClaimChange, ClaimStatuses
  <1> QED BY <1>1, <1>2

(* An assessment is remembered as a well-formed release record. *)
LEMMA AssessedType ==
  ASSUME TypeOK, NEW kind \in RelKinds, NEW o \in Owners
  PROVE  /\ Assessed(kind, o) \in Release
         /\ Assessed(kind, o).kind = kind
         /\ Assessed(kind, o).own = o
         /\ Assessed(kind, o).status = claim[o]
  <1>1. claim[o] \in ClaimStatuses \cup {"none"}
    BY DEF TypeOK
  <1>2. (IF o \in Intents THEN Len(ev[o]) ELSE 0) \in Nat
    BY DEF TypeOK
  <1> QED BY <1>1, <1>2 DEF Assessed, Release

(* The empty record, written when a release ends, is one too. *)
LEMMA NoReleaseType ==
  /\ NoRelease \in Release
  /\ NoRelease.kind = "none"
  BY DEF NoRelease, Release, RelKinds, ClaimStatuses

(* Appending to a claim's evidence keeps every log a log. *)
LEMMA AppendType ==
  ASSUME TypeOK, NEW i \in Intents, NEW k \in EvidenceKinds, AppendEvidence(i, k)
  PROVE  ev' \in [Intents -> Seq(EvidenceKinds)]
  BY DEF TypeOK, AppendEvidence

(* A status written to a row keeps the rows well formed, and no intent or  *)
(* order row disappears.                                                   *)
LEMMA IntentSet ==
  ASSUME TypeOK, NEW i, NEW s \in IntentStatuses \ {"none"},
         intent' = [intent EXCEPT ![i] = s]
  PROVE  /\ intent' \in [Intents -> IntentStatuses]
         /\ \A j \in Intents : intent'[j] = "none" => intent[j] = "none"
  BY DEF TypeOK

(* So does a block reason. *)
LEMMA ReasonSet ==
  ASSUME TypeOK, NEW i, NEW r \in BlockReasons, reason' = [reason EXCEPT ![i] = r]
  PROVE  reason' \in [Intents -> BlockReasons]
  BY DEF TypeOK

(* The status of an order row that exists may change, and it goes on      *)
(* existing.                                                               *)
LEMMA RowSet ==
  ASSUME TypeOK, NEW i \in Intents, NEW s \in OrderStatuses, row[i] # "none",
         row' = [row EXCEPT ![i] = s]
  PROVE  /\ row' \in [Intents -> OrderStatuses \cup {"none"}]
         /\ \A j \in Intents : row'[j] = "none" <=> row[j] = "none"
  BY DEF TypeOK, OrderStatuses

(* An admission request that moves on keeps the requests well formed. *)
LEMMA ApiSet ==
  ASSUME TypeOK, NEW i, NEW s \in ApiStates, ApiGoto(i, s)
  PROVE  api' \in [Intents -> ApiStates]
  BY DEF TypeOK, ApiGoto

(* A claim that is neither missing, released nor under review may take any *)
(* status; one that is not missing or released may become UNRESOLVED.      *)
LEMMA ClaimSet ==
  ASSUME TypeOK, NEW o \in Owners, NEW s \in ClaimStatuses,
         claim[o] \notin {"none", "RELEASED"},
         claim[o] # "UNRESOLVED" \/ s = "UNRESOLVED",
         claim' = [claim EXCEPT ![o] = s]
  PROVE  ClaimChange
  BY DEF TypeOK, ClaimChange, ClaimStatuses

(* The outcome the terminal-claim sweep records is an outcome: the latest  *)
(* recorded one, or the one inferred from the block reason.                *)
LEMMA SweepOutcomeType ==
  ASSUME TypeOK, NEW i \in Intents
  PROVE  sweepOutcome(i) \in OutcomeKinds
  <1> DEFINE K == {k \in DOMAIN ev[i] : ev[i][k] \in OutcomeKinds}
  <1>1. CASE K # {}
    <2>1. Len(ev[i]) \in Nat /\ K \subseteq 0..Len(ev[i])
      BY DEF TypeOK
    <2>2. \E k \in K : \A j \in K : j <= k
      BY <1>1, <2>1, LatestExists
    <2>3. (CHOOSE k \in K : \A j \in K : j <= k) \in K
      BY <2>2
    <2> QED BY <1>1, <2>3 DEF sweepOutcome
  <1>2. CASE K = {}
    BY <1>2 DEF sweepOutcome, inferEntryDispatchOutcome, OutcomeKinds
  <1> QED BY <1>1, <1>2

-----------------------------------------------------------------------------
(* Initial states *)

(* Every initial state, legacy entries included, satisfies the invariant   *)
(* and has at most one unreleased claim.                                   *)
LEMMA InitIInv == Init => IInv /\ ExclusiveOwner
  <1> SUFFICES ASSUME Init PROVE IInv /\ ExclusiveOwner
      OBVIOUS
  <1> USE ConstantsAssumption
  <1>0. PICK old \in {{}} \cup {{i} : i \in Intents}, l \in LegacyEntries : Init!(old, l)
    BY DEF Init
  <1>a. /\ old \subseteq Intents
        /\ l.intent \in {"failed", "blocked", "submitting"}
        /\ l.reason \in {"guard", "notSent", "risk", "uncertain", "other", "none"}
        /\ l.bk \in {"none", "sent", "refused", "open"}
    BY DEF LegacyEntries
  <1>1. TypeOK
    <2>1. ev \in [Intents -> Seq(EvidenceKinds)]
      <3>1. <<"claimedV0">> \in Seq(EvidenceKinds) /\ <<>> \in Seq(EvidenceKinds)
        BY DEF EvidenceKinds
      <3> QED BY <1>0, <3>1
    <2>2. rel \in [Procs -> Release]
      BY <1>0, NoReleaseType
    <2>3. /\ intent \in [Intents -> IntentStatuses]
          /\ reason \in [Intents -> BlockReasons]
          /\ claim \in [Owners -> ClaimStatuses \cup {"none"}]
          /\ bk \in [Intents -> BrokerStatuses]
      BY <1>0, <1>a DEF Owners, ClaimStatuses, IntentStatuses, BlockReasons,
                        BrokerStatuses, OrderStatuses
    <2> QED BY <1>0, <2>1, <2>2, <2>3 DEF TypeOK, Owners, ApiStates, Steps, Phases, Errors
  <1>2. ControlOK
    BY <1>0, <1>a, NoReleaseType DEF ControlOK, Owners
  <1>3. LocalOrderBacked
    BY <1>0 DEF LocalOrderBacked
  <1>4. ExclusiveOwner
    <2>1. \A o, p \in old : o = p
      OBVIOUS
    <2> QED BY <1>0, <2>1 DEF ExclusiveOwner, Held, HeldStatuses, ClaimStatuses
  <1> QED BY <1>1, <1>2, <1>3, <1>4 DEF IInv

-----------------------------------------------------------------------------
(* Steps *)

(* An admission creates a claim only when no claim is held. *)
LEMMA AcquireIInv ==
  ASSUME IInv, NEW i \in Intents, acquireEntryExposureClaim(i)
  PROVE  /\ IInv'
         /\ \A o \in Owners : ~ Held(o)
         /\ claim' = [claim EXCEPT ![i] = "ENTRY_PENDING"]
         /\ claim[i] = "none"
         /\ UNCHANGED pos
  <1> USE DEF acquireEntryExposureClaim, apiFrame, posVars
  <1>1. IInv'
    BY SMTT(30) DEF IInv, TypeOK, ControlOK, LocalOrderBacked, Visible, Owners, ClaimStatuses,
           IntentStatuses, ApiStates, ApiGoto, orderVars, wkVars, brokerVars
  <1>2. claim[i] = "none"
    BY DEF IInv, ControlOK
  <1> QED BY <1>1, <1>2

(* Blocking a set of unsubmitted entries (LIVE disarm, deactivation). *)
LEMMA BlockIInv ==
  ASSUME IInv, NEW S, BlockEntries(S)
  PROVE  IInv' /\ Advance
  <1> USE DEF BlockEntries, Held, HeldStatuses, IInv, TypeOK, ControlOK, LocalOrderBacked,
          Visible, Owners, ClaimStatuses, IntentStatuses, BlockReasons, apiFrame,
          orderVars, posVars, wkVars, brokerVars
  <1>1. IInv'
    OBVIOUS
  <1>2. Advance
    BY DEF Advance, ClaimChange
  <1> QED BY <1>1, <1>2

(* The other steps of an admission request, and the two administrative     *)
(* paths.                                                                  *)
LEMMA AdmissionIInv ==
  ASSUME IInv, AdmissionNext, \A i \in Intents : ~ acquireEntryExposureClaim(i)
  PROVE  IInv' /\ Advance
  <1> USE ConstantsAssumption
      DEF IInv, TypeOK, ControlOK, LocalOrderBacked, Visible, IntentStatuses,
          BlockReasons, ApiStates, apiFrame, ApiGoto, orderVars, posVars,
          wkVars, brokerVars, intentVars, Fault
  <1>1. ASSUME NEW i \in Intents, AdmitPending(i) PROVE IInv' /\ Advance
    <2>1. CASE intent[i] = "received"
      <3>1. /\ intent' = [intent EXCEPT ![i] = "pending"]
            /\ reason' = [reason EXCEPT ![i] = "none"]
            /\ api' = [api EXCEPT ![i] = "done"]
        BY <1>1, <2>1 DEF AdmitPending
      <3> QED BY <1>1, <2>1, <3>1, NothingAdvanced, SMTT(30) DEF AdmitPending
    <2>2. CASE intent[i] # "received"
      <3>1. /\ UNCHANGED <<intent, reason, claim, faults>> /\ apiFrame
            /\ api' \in [Intents -> ApiStates]
        BY <1>1, <2>2, ApiSet DEF AdmitPending
      <3>2. TypeOK'
        BY <3>1, SMTT(30)
      <3>3. ControlOK' /\ LocalOrderBacked'
        BY <3>1, SMTT(30)
      <3> QED BY <3>1, <3>2, <3>3, NothingAdvanced
    <2> QED BY <2>1, <2>2
  <1>2. ASSUME NEW i \in Intents, AdmitPendingAckLost(i) PROVE IInv' /\ Advance
    BY <1>2, NothingAdvanced, SMTT(30) DEF AdmitPendingAckLost
  <1>3. ASSUME NEW i \in Intents, AdmitFails(i) PROVE IInv' /\ Advance
    BY <1>3, NothingAdvanced, SMTT(30) DEF AdmitFails
  <1>4. ASSUME NEW i \in Intents, AdmitRiskBlocked(i) PROVE IInv' /\ Advance
    BY <1>4, NothingAdvanced, SMTT(30) DEF AdmitRiskBlocked
  <1>5. ASSUME NEW i \in Intents, AdmitRiskRelease(i) PROVE IInv' /\ Advance
    <2>1. ClaimChange
      BY <1>5, ClaimKept, UnsubmittedChange DEF AdmitRiskRelease
    <2>2. Advance
      BY <1>5, <2>1 DEF AdmitRiskRelease, Advance
    <2>3. IInv'
      <3>1. /\ UNCHANGED <<intent, reason, faults>> /\ apiFrame
            /\ api' \in [Intents -> ApiStates]
        BY <1>5, ApiSet DEF AdmitRiskRelease
      <3>2. TypeOK'
        BY <2>1, <3>1, SMTT(30) DEF ClaimChange
      <3>3. ControlOK' /\ LocalOrderBacked'
        BY <2>1, <3>1, SMTT(30) DEF ClaimChange, Owners
      <3> QED BY <3>2, <3>3
    <2> QED BY <2>2, <2>3
  <1>6. ASSUME NEW i \in Intents, AdmitCleanup(i) PROVE IInv' /\ Advance
    <2>1. ClaimChange
      BY <1>6, ClaimKept, UnsubmittedChange DEF AdmitCleanup
    <2>2. Advance
      BY <1>6, <2>1 DEF AdmitCleanup, Advance
    <2>3. /\ intent' \in [Intents -> IntentStatuses]
          /\ reason' \in [Intents -> BlockReasons]
          /\ \A j \in Intents : intent'[j] = "none" => intent[j] = "none"
      <3>1. PICK t \in BlockReasons :
              /\ intent' = intent \/ intent' = [intent EXCEPT ![i] = "failed"]
              /\ reason' = reason \/ reason' = [reason EXCEPT ![i] = t]
        <4>1. "other" \in BlockReasons /\ reason[i] \in BlockReasons
          OBVIOUS
        <4> QED BY <1>6, <4>1 DEF AdmitCleanup
      <3>2. "failed" \in IntentStatuses \ {"none"}
        OBVIOUS
      <3>3. reason' \in [Intents -> BlockReasons]
        BY <3>1, ReasonSet
      <3>4. CASE intent' = intent
        BY <3>3, <3>4
      <3>5. CASE intent' = [intent EXCEPT ![i] = "failed"]
        BY <3>2, <3>3, <3>5, IntentSet
      <3> QED BY <3>1, <3>4, <3>5
    <2>4. IInv'
      <3>1. /\ UNCHANGED faults /\ apiFrame
            /\ api' \in [Intents -> ApiStates]
        BY <1>6, ApiSet DEF AdmitCleanup
      <3>2. TypeOK'
        BY <2>1, <2>3, <3>1, SMTT(30) DEF ClaimChange
      <3>3. ControlOK' /\ LocalOrderBacked'
        BY <2>1, <2>3, <3>1, SMTT(30) DEF ClaimChange, Owners
      <3> QED BY <3>2, <3>3
    <2> QED BY <2>2, <2>4
  <1>7. ASSUME NEW i \in Intents, AdmitDies(i) PROVE IInv' /\ Advance
    BY <1>7, NothingAdvanced, SMTT(30) DEF AdmitDies
  <1> QED
    BY <1>1, <1>2, <1>3, <1>4, <1>5, <1>6, <1>7, BlockIInv
    DEF AdmissionNext, closeEntryAuthority, deactivateTradingAccount

(* The order worker: every statement of the claim for submission, of the   *)
(* broker boundary, of persistence and of the catch block.                 *)
LEMMA WorkerIInv ==
  ASSUME IInv, WorkerNext
  PROVE  IInv' /\ Advance
  <1> USE ConstantsAssumption
      DEF IInv, TypeOK, ControlOK, LocalOrderBacked, Visible, IntentStatuses,
          BlockReasons, OrderStatuses, BrokerStatuses, EvidenceKinds, OutcomeKinds,
          Steps, Phases, Errors, Procs, intentVars, claimVars, orderVars, posVars,
          wkVars, brokerVars, Fault, Step, StepSeen, Begin, Done, Throw, Enter,
          Acknowledged, wkFrame, submitFrame
  <1>1. ASSUME NEW i \in Intents, ListPending(i) PROVE IInv' /\ Advance
    BY <1>1, NothingAdvanced, SMTT(30) DEF ListPending, Owners
  <1>2. ASSUME requireEntryExposureClaim PROVE IInv' /\ Advance
    BY <1>2, NothingAdvanced, SMTT(30) DEF requireEntryExposureClaim
  <1>3. ASSUME ClaimIntent PROVE IInv' /\ Advance
    <2>1. CASE intent[cur] = "pending"
      <3>1. intent' = [intent EXCEPT ![cur] = "submitting"]
        BY <1>3, <2>1 DEF ClaimIntent
      <3>2. /\ intent' \in [Intents -> IntentStatuses]
            /\ \A i \in Intents : intent'[i] = "none" => intent[i] = "none"
        <4>1. "submitting" \in IntentStatuses \ {"none"}
          OBVIOUS
        <4> QED BY <3>1, <4>1, IntentSet
      <3>3. /\ pc' \in {"wRead", "wCatch"} /\ cur \in Intents /\ cur' = cur /\ phase' = phase
            /\ err' \in Errors /\ seen' = seen /\ faults' \in Nat
        BY <1>3, <2>1 DEF ClaimIntent
      <3>4. UNCHANGED <<reason, claimVars, rec, row, bk>> /\ submitFrame
        BY <1>3 DEF ClaimIntent
      <3>5. TypeOK'
        BY <3>2, <3>3, <3>4, SMTT(30)
      <3>6. ControlOK' /\ LocalOrderBacked'
        BY <3>2, <3>3, <3>4, SMTT(30)
      <3> QED BY <3>4, <3>5, <3>6, NothingAdvanced
    <2>2. CASE intent[cur] # "pending"
      BY <1>3, <2>2, NothingAdvanced, SMTT(30) DEF ClaimIntent
    <2> QED BY <2>1, <2>2
  <1>4. ASSUME TransitionRead PROVE IInv' /\ Advance
    BY <1>4, NothingAdvanced, SMTT(30) DEF TransitionRead
  <1>5. ASSUME TransitionCas PROVE IInv' /\ Advance
    <2>1. ClaimChange
      <3>1. CASE claim[cur] = "ENTRY_PENDING"
        <4>1. claim' = [claim EXCEPT ![cur] = "ENTRY_SUBMITTING"]
          BY <1>5, <3>1 DEF TransitionCas
        <4>2. cur \in Owners /\ "ENTRY_SUBMITTING" \in ClaimStatuses
          BY <1>5 DEF TransitionCas, Owners, ClaimStatuses
        <4> QED BY <3>1, <4>1, <4>2, ClaimSet
      <3>2. CASE claim[cur] # "ENTRY_PENDING"
        BY <1>5, <3>2, ClaimKept DEF TransitionCas
      <3> QED BY <3>1, <3>2
    <2>2. Advance
      BY <1>5, <2>1 DEF TransitionCas, Advance
    <2>3. IInv'
      BY <1>5, <2>1, SMTT(30) DEF TransitionCas, ClaimChange, Owners
    <2> QED BY <2>2, <2>3
  <1>6. ASSUME TransitionEvent PROVE IInv' /\ Advance
    <2>1. ev' \in [Intents -> Seq(EvidenceKinds)]
      BY <1>6, AppendType DEF TransitionEvent
    <2>2. /\ pc' \in {"wRisk", "wCatch"} /\ cur \in Intents /\ cur' = cur /\ phase' = phase
          /\ err' \in Errors /\ seen' = seen /\ faults' \in Nat
      BY <1>6 DEF TransitionEvent
    <2>3. UNCHANGED <<intentVars, claim, rec, row, bk>> /\ submitFrame
      BY <1>6 DEF TransitionEvent
    <2>4. TypeOK'
      BY <2>1, <2>2, <2>3, SMTT(30)
    <2>5. ControlOK' /\ LocalOrderBacked'
      BY <2>2, <2>3, SMTT(30)
    <2> QED BY <2>3, <2>4, <2>5, NothingAdvanced
  <1>7. ASSUME RiskRecheck PROVE IInv' /\ Advance
    BY <1>7, NothingAdvanced, SMTT(30) DEF RiskRecheck
  <1>8. ASSUME RiskBlocked PROVE IInv' /\ Advance
    <2>1. ev' \in [Intents -> Seq(EvidenceKinds)]
      BY <1>8, AppendType DEF RiskBlocked
    <2>2. /\ intent' = [intent EXCEPT ![cur] = "blocked"]
          /\ reason' = [reason EXCEPT ![cur] = "risk"]
          /\ UNCHANGED <<claim, rec, row, bk, fills, rel, api, pos, loose, bfill, bpos, exts>>
      BY <1>8 DEF RiskBlocked
    <2>3. /\ pc' \in {"wRelease", "wCatch"} /\ cur' = cur /\ phase' = phase
          /\ err' \in Errors /\ seen' = seen /\ faults' \in Nat
      BY <1>8 DEF RiskBlocked
    <2>4. LocalOrderBacked'
      BY <2>2
    <2>5. intent' \in [Intents -> IntentStatuses] /\ reason' \in [Intents -> BlockReasons]
      BY <2>2
    <2>6. TypeOK'
      BY <2>1, <2>2, <2>3, <2>5, SMTT(30)
    <2>7. ControlOK'
      BY <1>8, <2>2, <2>3, SMTT(30) DEF RiskBlocked, Owners
    <2> QED BY <2>2, <2>4, <2>6, <2>7, NothingAdvanced
  <1>9. ASSUME requireExecutableEntryExposureClaim PROVE IInv' /\ Advance
    BY <1>9, NothingAdvanced, SMTT(30) DEF requireExecutableEntryExposureClaim
  <1>10. ASSUME LookupExisting PROVE IInv' /\ Advance
    BY <1>10, NothingAdvanced, SMTT(30) DEF LookupExisting
  <1>11. ASSUME assertNoLocalEntryDispatchEvidence PROVE IInv' /\ Advance
    BY <1>11, NothingAdvanced, SMTT(30) DEF assertNoLocalEntryDispatchEvidence
  <1>12. ASSUME authorizeDispatch PROVE IInv' /\ Advance
    <2>1. rec' \in [Intents -> {"none", "weak", "durable"}]
      BY <1>12 DEF authorizeDispatch
    <2> QED BY <1>12, <2>1, NothingAdvanced, SMTT(30) DEF authorizeDispatch
  <1>13. ASSUME recordAdapterInvocationStarted PROVE IInv' /\ Advance
    <2>1. ev' \in [Intents -> Seq(EvidenceKinds)]
      BY <1>13, AppendType DEF recordAdapterInvocationStarted
    <2>2. /\ pc' \in {"bPost", "wCatch"} /\ cur \in Intents /\ cur' = cur /\ phase' \in Phases
          /\ err' \in Errors /\ seen' = seen /\ faults' \in Nat /\ row[cur] = "none"
      BY <1>13 DEF recordAdapterInvocationStarted
    <2>3. UNCHANGED <<intentVars, claim, rec, row, bk>> /\ submitFrame
      BY <1>13 DEF recordAdapterInvocationStarted
    <2>4. TypeOK'
      BY <2>1, <2>2, <2>3, SMTT(30)
    <2>5. ControlOK' /\ LocalOrderBacked'
      BY <2>2, <2>3, SMTT(30)
    <2> QED BY <2>3, <2>4, <2>5, NothingAdvanced
  <1>14. ASSUME AdapterGuard PROVE IInv' /\ Advance
    BY <1>14, NothingAdvanced, SMTT(30) DEF AdapterGuard, LiveRecord
  <1>15. ASSUME submitAlpacaEntryOrder PROVE IInv' /\ Advance
    BY <1>15, NothingAdvanced, SMTT(30) DEF submitAlpacaEntryOrder, LiveRecord
  <1>16. ASSUME AwaitResponse PROVE IInv' /\ Advance
    BY <1>16, NothingAdvanced, SMTT(30) DEF AwaitResponse
  <1>17. ASSUME TransitionActive PROVE IInv' /\ Advance
    <2>1. ClaimChange
      BY <1>17, ClaimKept, TransitionChange DEF TransitionActive, ClaimStatuses
    <2>2. Advance
      BY <1>17, <2>1 DEF TransitionActive, Advance
    <2>3. IInv'
      BY <1>17, <2>1, SMTT(30) DEF TransitionActive, ClaimChange, Owners
    <2> QED BY <2>2, <2>3
  <1>18. ASSUME PersistOrder PROVE IInv' /\ Advance
    BY <1>18, NothingAdvanced, SMTT(30) DEF PersistOrder
  <1>19. ASSUME NEW readable \in BOOLEAN, PersistFailure(readable) PROVE IInv' /\ Advance
    <2>1. entryDispatchOutcomeFor \in OutcomeKinds /\ failureBlockReason \in BlockReasons
      BY DEF entryDispatchOutcomeFor, failureBlockReason
    <2>2. ClaimChange
      BY <1>19, ClaimKept, OutcomeChange DEF PersistFailure
    <2>3. ev' \in [Intents -> Seq(EvidenceKinds)]
      BY <1>19, <2>1, AppendType DEF PersistFailure, recordEntryDispatchOutcome
    <2>4. Advance
      BY <1>19, <2>2 DEF PersistFailure, Advance
    <2>5. /\ intent' \in [Intents -> IntentStatuses]
          /\ reason' \in [Intents -> BlockReasons]
          /\ \A i \in Intents : intent'[i] = "none" => intent[i] = "none"
      BY <1>19, <2>1 DEF PersistFailure
    <2>6. Step("wRelease") \/ Step("assess") \/ Done
      <3> HIDE DEF Step, Done
      <3> QED BY <1>19 DEF PersistFailure
    <2>a. /\ cur \in Intents /\ faults' \in Nat
          /\ UNCHANGED <<rec, row, bk>> /\ submitFrame
      BY <1>19 DEF PersistFailure
    <2>7. TypeOK'
      BY <2>2, <2>3, <2>5, <2>6, <2>a, SMTT(30) DEF ClaimChange
    <2>8. ControlOK' /\ LocalOrderBacked'
      BY <2>2, <2>5, <2>6, <2>a, SMTT(30) DEF ClaimChange, Owners
    <2> QED BY <2>4, <2>7, <2>8
  <1>20. ASSUME NEW readable \in BOOLEAN, RouteRefusedRelease(readable) PROVE IInv' /\ Advance
    <2>1. ClaimChange
      BY <1>20, ClaimKept, TransitionChange DEF RouteRefusedRelease, ClaimStatuses
    <2>2. Advance
      BY <1>20, <2>1 DEF RouteRefusedRelease, Advance
    <2>3. IInv'
      BY <1>20, <2>1, SMTT(30) DEF RouteRefusedRelease, ClaimChange, Owners
    <2> QED BY <2>2, <2>3
  <1>21. ASSUME releaseUnsubmittedOrRouteToRecovery PROVE IInv' /\ Advance
    <2>1. ClaimChange
      BY <1>21, ClaimKept, UnsubmittedChange DEF releaseUnsubmittedOrRouteToRecovery, ClaimStatuses
    <2>2. Advance
      BY <1>21, <2>1 DEF releaseUnsubmittedOrRouteToRecovery, Advance
    <2>3. IInv'
      BY <1>21, <2>1, SMTT(30) DEF releaseUnsubmittedOrRouteToRecovery, ClaimChange, Owners
    <2> QED BY <2>2, <2>3
  <1>22. ASSUME RecordOutcome PROVE IInv' /\ Advance
    <2>1. ClaimChange
      <3>1. CASE claim[cur] \in RecoverableStatuses
        <4>1. claim' = [claim EXCEPT ![cur] = "UNRESOLVED"] /\ cur \in Intents
          BY <1>22, <3>1 DEF RecordOutcome
        <4>2. cur \in Owners /\ "UNRESOLVED" \in ClaimStatuses
          BY <4>1 DEF Owners, ClaimStatuses
        <4>3. claim[cur] \notin {"none", "RELEASED"}
          BY <3>1 DEF RecoverableStatuses, PreDispatchClaimStatuses
        <4> QED BY <4>1, <4>2, <4>3, ClaimSet
      <3>2. CASE claim[cur] \notin RecoverableStatuses
        BY <1>22, <3>2, ClaimKept DEF RecordOutcome
      <3> QED BY <3>1, <3>2
    <2>2. Advance
      BY <1>22, <2>1 DEF RecordOutcome, Advance
    <2>3. \/ pc' \in {"outcomeEv", "assess"} /\ UNCHANGED <<cur, phase, err, seen>>
          \/ Done
      BY <1>22 DEF RecordOutcome, VerifyIfRecorded
    <2>4. TypeOK'
      BY <1>22, <2>1, <2>3, SMTT(30) DEF RecordOutcome, ClaimChange
    <2>5. ControlOK' /\ LocalOrderBacked'
      BY <1>22, <2>1, <2>3, SMTT(30) DEF RecordOutcome, ClaimChange, Owners
    <2> QED BY <2>2, <2>4, <2>5
  <1>23. ASSUME RecordOutcomeEvent PROVE IInv' /\ Advance
    <2>1. ev' \in [Intents -> Seq(EvidenceKinds)]
      BY <1>23, AppendType DEF RecordOutcomeEvent
    <2>2. Step("assess") \/ Done
      <3> HIDE DEF Step, Done
      <3> QED BY <1>23 DEF RecordOutcomeEvent, VerifyIfRecorded
    <2>3. /\ UNCHANGED <<intentVars, claim, rec, row, bk, faults>> /\ submitFrame
          /\ cur \in Intents
      BY <1>23 DEF RecordOutcomeEvent
    <2>4. TypeOK'
      BY <2>1, <2>2, <2>3, SMTT(30)
    <2>5. ControlOK' /\ LocalOrderBacked'
      BY <2>2, <2>3, SMTT(30)
    <2> QED BY <2>3, <2>4, <2>5, NothingAdvanced
  <1>24. ASSUME NEW settled \in BOOLEAN, AssessVerified(settled) PROVE IInv' /\ Advance
    <2>1. CASE ~ assessEntryClaimRelease(cur, settled)
      BY <1>24, <2>1, NothingAdvanced, SMTT(30) DEF AssessVerified
    <2>2. CASE assessEntryClaimRelease(cur, settled)
      <3>1. claim[cur] \in HeldStatuses
        BY <2>2 DEF assessEntryClaimRelease, RecoverableStatuses, PreDispatchClaimStatuses,
                    HeldStatuses, ClaimStatuses
      <3>2. /\ cur \in Intents
            /\ rel' = [rel EXCEPT !["wk"] = Assessed("verified", cur)]
            /\ Assessed("verified", cur) \in Release
            /\ Assessed("verified", cur).kind = "verified"
            /\ Assessed("verified", cur).own = cur
            /\ Assessed("verified", cur).status \in HeldStatuses
        BY <1>24, <2>2, <3>1, AssessedType DEF AssessVerified, RelKinds, Owners
      <3> QED BY <1>24, <2>2, <3>2, NothingAdvanced, SMTT(30) DEF AssessVerified
    <2> QED BY <2>1, <2>2
  <1>25. ASSUME ConfirmRead PROVE IInv' /\ Advance
    <2>1. ClaimChange
      BY <1>25, ClaimKept, TransitionChange DEF ConfirmRead, ClaimStatuses
    <2>2. Advance
      BY <1>25, <2>1 DEF ConfirmRead, Advance
    <2>a. UNCHANGED <<intentVars, ev, rec, row, fills, bk, faults>> /\ wkFrame
      BY <1>25 DEF ConfirmRead
    <2>b. Done \/ Throw("error") \/ Step("commit")
      <3> HIDE DEF Done, Throw, Step
      <3> QED BY <1>25 DEF ConfirmRead, ConfirmThrows
    <2>3. CASE UNCHANGED rel
      <3>1. TypeOK'
        BY <2>1, <2>3, <2>a, <2>b, SMTT(30) DEF ClaimChange
      <3>2. ControlOK' /\ LocalOrderBacked'
        BY <1>25, <2>1, <2>3, <2>a, <2>b, SMTT(30) DEF ConfirmRead, ClaimChange, Owners
      <3> QED BY <2>2, <3>1, <3>2
    <2>4. CASE rel' = [rel EXCEPT !["wk"] = Assessed("confirmed", cur)]
      <3>1. /\ cur \in Intents
            /\ Assessed("confirmed", cur) \in Release
            /\ Assessed("confirmed", cur).kind = "confirmed"
            /\ Assessed("confirmed", cur).own = cur
        BY <1>25, AssessedType DEF ConfirmRead, RelKinds, Owners
      <3>2. TypeOK'
        BY <2>1, <2>4, <2>a, <2>b, <3>1, SMTT(30) DEF ClaimChange
      <3>3. ControlOK' /\ LocalOrderBacked'
        BY <1>25, <2>1, <2>4, <2>a, <2>b, <3>1, SMTT(30) DEF ConfirmRead, ClaimChange, Owners
      <3> QED BY <2>2, <3>2, <3>3
    <2> QED BY <1>25, <2>2, <2>3, <2>4 DEF ConfirmRead
  <1>26. ASSUME CommitHeld PROVE IInv' /\ Advance
    <2>1. ClaimChange
      BY <1>26, CommitChange DEF CommitHeld
    <2>2. Advance
      BY <1>26, <2>1 DEF CommitHeld, Advance
    <2>3. IInv'
      BY <1>26, <2>1, NoReleaseType, SMTT(30) DEF CommitHeld, CommitRelease, ClaimChange, Owners
    <2> QED BY <2>2, <2>3
  <1>27. ASSUME TryFails PROVE IInv' /\ Advance
    BY <1>27, NothingAdvanced, SMTT(30) DEF TryFails
  <1>28. ASSUME ConfirmFails PROVE IInv' /\ Advance
    BY <1>28, NothingAdvanced, NoReleaseType, SMTT(30) DEF ConfirmFails
  <1>29. ASSUME Crash PROVE IInv' /\ Advance
    BY <1>29, NothingAdvanced, NoReleaseType, SMTT(30) DEF Crash
  <1> HIDE DEF IInv
  <1> QED
    BY <1>1, <1>2, <1>3, <1>4, <1>5, <1>6, <1>7, <1>8, <1>9, <1>10, <1>11,
       <1>12, <1>13, <1>14, <1>15, <1>16, <1>17, <1>18, <1>19, <1>20, <1>21,
       <1>22, <1>23, <1>24, <1>25, <1>26, <1>27, <1>28, <1>29
    DEF WorkerNext, WorkerStep

(* Stale submissions, the terminal-claim sweep, abandoned admissions and   *)
(* the operator.                                                           *)
LEMMA RecoveryIInv ==
  ASSUME IInv, RecoveryNext
  PROVE  IInv' /\ Advance
  <1> USE ConstantsAssumption
      DEF IInv, TypeOK, ControlOK, LocalOrderBacked, Visible, IntentStatuses,
          BlockReasons, OrderStatuses, BrokerStatuses, EvidenceKinds, OutcomeKinds,
          Steps, Phases, Errors, Procs, intentVars, claimVars, orderVars, posVars,
          wkVars, brokerVars, Fault, Step, StepSeen, Begin, Done, recFrame
  <1>1. ASSUME NEW i \in Intents, RecoverStaleSubmitting(i) PROVE IInv' /\ Advance
    BY <1>1, NothingAdvanced, SMTT(30) DEF RecoverStaleSubmitting, Owners
  <1>2. ASSUME NEW i \in Intents, SweepClaim(i) PROVE IInv' /\ Advance
    <2>1. sweepOutcome(i) \in OutcomeKinds
      BY SweepOutcomeType
    <2>2. /\ UNCHANGED <<intentVars, claimVars, row>> /\ recFrame
          /\ phase' = phase /\ err' = err /\ cur' = i /\ i \in Owners
      BY <1>2 DEF SweepClaim, Owners
    <2>3. CASE pc' = "record"
      <3>1. /\ Assessed("record", i) \in Release
            /\ Assessed("record", i).kind = "record"
        BY <2>2, AssessedType DEF RelKinds
      <3>2. rel' = [rel EXCEPT !["wk"] = Assessed("record", i)] /\ seen' = "none"
        BY <1>2, <2>3 DEF SweepClaim
      <3> QED BY <2>2, <2>3, <3>1, <3>2, NothingAdvanced
    <2>4. CASE pc' # "record"
      <3>1. /\ rel' = rel /\ pc' \in {"wRelease", "outcome", "assess"}
            /\ (seen' = "none" /\ pc' # "outcome") \/ seen' = sweepOutcome(i)
        BY <1>2, <2>4 DEF SweepClaim
      <3> QED BY <2>1, <2>2, <3>1, NothingAdvanced
    <2> QED BY <2>3, <2>4
  <1>3. ASSUME NEW i \in Intents, RecoverStaleAdmission(i) PROVE IInv' /\ Advance
    <2>1. ev' \in [Intents -> Seq(EvidenceKinds)]
      BY <1>3, AppendType DEF RecoverStaleAdmission
    <2>2. /\ intent' = [intent EXCEPT ![i] = "failed"]
          /\ reason' = [reason EXCEPT ![i] = "other"]
          /\ pc' = "wRelease" /\ cur' = i /\ seen' = "none" /\ UNCHANGED <<phase, err>>
          /\ UNCHANGED <<claim, row, rel>> /\ recFrame /\ i \in Owners
      BY <1>3 DEF RecoverStaleAdmission, Owners
    <2>3. /\ intent' \in [Intents -> IntentStatuses] /\ reason' \in [Intents -> BlockReasons]
          /\ \A j \in Intents : intent'[j] = "none" => intent[j] = "none"
      BY <2>2
    <2> QED BY <2>1, <2>2, <2>3, NothingAdvanced
  <1>4. ASSUME StaleLookup PROVE IInv' /\ Advance
    BY <1>4, NothingAdvanced, SMTT(30) DEF StaleLookup
  <1>5. ASSUME StaleSubmitted PROVE IInv' /\ Advance
    <2>1. /\ row' \in [Intents -> OrderStatuses \cup {"none"}]
          /\ \A i \in Intents : row'[i] # "none" => Visible(i)
      BY <1>5 DEF StaleSubmitted
    <2>2. /\ intent' \in [Intents -> IntentStatuses]
          /\ reason' \in [Intents -> BlockReasons]
          /\ \A i \in Intents : intent'[i] = "none" => intent[i] = "none"
      <3>1. CASE intent[cur] = "submitting"
        <4>1. /\ intent' = [intent EXCEPT ![cur] = "submitted"]
              /\ reason' = [reason EXCEPT ![cur] = "none"]
          BY <1>5, <3>1 DEF StaleSubmitted
        <4>2. "submitted" \in IntentStatuses \ {"none"} /\ "none" \in BlockReasons
          OBVIOUS
        <4> QED BY <4>1, <4>2, IntentSet, ReasonSet
      <3>2. CASE intent[cur] # "submitting"
        BY <1>5, <3>2 DEF StaleSubmitted
      <3> QED BY <3>1, <3>2
    <2>3. pc' = "sLink" /\ UNCHANGED <<cur, phase, err, seen, claim, ev, rel>> /\ recFrame
      BY <1>5 DEF StaleSubmitted
    <2> QED BY <1>5, <2>1, <2>2, <2>3, NothingAdvanced, SMTT(30) DEF StaleSubmitted
  <1>6. ASSUME StaleLinkClaim PROVE IInv' /\ Advance
    <2>1. ClaimChange
      BY <1>6, ClaimKept, TransitionChange DEF StaleLinkClaim, ClaimStatuses
    <2>2. Advance
      BY <1>6, <2>1 DEF StaleLinkClaim, Advance
    <2>3. IInv'
      BY <1>6, <2>1, SMTT(30) DEF StaleLinkClaim, ClaimChange, Owners
    <2> QED BY <2>2, <2>3
  <1>7. ASSUME StaleAbsent PROVE IInv' /\ Advance
    <2>1. ClaimChange
      BY <1>7, ClaimKept, OutcomeChange DEF StaleAbsent
    <2>2. Advance
      BY <1>7, <2>1 DEF StaleAbsent, Advance
    <2>3. ev' \in [Intents -> Seq(EvidenceKinds)]
      BY <1>7, AppendType DEF StaleAbsent, recordEntryDispatchOutcome
    <2>4. /\ intent' \in [Intents -> IntentStatuses]
          /\ reason' \in [Intents -> BlockReasons]
          /\ \A i \in Intents : intent'[i] = "none" => intent[i] = "none"
      <3>1. CASE intent[cur] # "submitting"
        BY <1>7, <3>1 DEF StaleAbsent
      <3>2. CASE intent[cur] = "submitting"
        <4>1. PICK t \in {"other", "unknownOutcome"} :
                /\ intent' = [intent EXCEPT ![cur] = "failed"]
                /\ reason' = [reason EXCEPT ![cur] = preserveBlockReason(reason[cur], t)]
          BY <1>7, <3>2 DEF StaleAbsent
        <4>2. cur \in Intents
          BY <1>7 DEF StaleAbsent
        <4>3. preserveBlockReason(reason[cur], t) \in BlockReasons
          BY <4>2 DEF preserveBlockReason
        <4>4. "failed" \in IntentStatuses \ {"none"}
          OBVIOUS
        <4> QED BY <4>1, <4>3, <4>4, IntentSet, ReasonSet
      <3> QED BY <3>1, <3>2
    <2>5. Step("wRelease") \/ Done
      <3> HIDE DEF Step, Done
      <3> QED BY <1>7 DEF StaleAbsent
    <2>6. UNCHANGED <<row, rel>> /\ recFrame /\ cur \in Intents
      BY <1>7 DEF StaleAbsent
    <2>7. TypeOK'
      BY <2>1, <2>3, <2>4, <2>5, <2>6, SMTT(30) DEF ClaimChange
    <2>8. ControlOK' /\ LocalOrderBacked'
      BY <2>1, <2>4, <2>5, <2>6, SMTT(30) DEF ClaimChange, Owners
    <2> QED BY <2>2, <2>7, <2>8
  <1>8. ASSUME recordNotSentEvidenceAndRelease PROVE IInv' /\ Advance
    <2>1. ev' \in [Intents -> Seq(EvidenceKinds)]
      BY <1>8, AppendType DEF recordNotSentEvidenceAndRelease
    <2>2. Step("wRelease") \/ Done
      <3> HIDE DEF Step, Done
      <3> QED BY <1>8 DEF recordNotSentEvidenceAndRelease
    <2>3. /\ UNCHANGED <<intentVars, claim, row>> /\ recFrame /\ cur \in Intents
          /\ rel' = [rel EXCEPT !["wk"] = NoRelease]
      BY <1>8 DEF recordNotSentEvidenceAndRelease
    <2>4. rel' \in [Procs -> Release] /\ \A p \in Procs : rel'[p] \in {rel[p], NoRelease}
      BY <2>3, NoReleaseType
    <2>5. TypeOK'
      BY <2>1, <2>2, <2>3, <2>4, SMTT(30)
    <2>6. LocalOrderBacked'
      BY <2>3
    <2>7. ASSUME NEW p \in Procs
          PROVE  /\ rel'[p].kind \in {"verified", "confirmed"} => rel'[p].own \in Intents
                 /\ rel'[p].kind = "verified" => rel'[p].status \in HeldStatuses
                 /\ rel'[p].kind = "adopted" => rel'[p].own \in Adoptions
      BY <2>4, NoReleaseType
    <2>8. ControlOK'
      BY <2>2, <2>3, <2>7, SMTT(30)
    <2> QED BY <2>3, <2>5, <2>6, <2>8, NothingAdvanced
  <1>9. ASSUME NEW i \in Intents, OperatorConfirmed(i) PROVE IInv' /\ Advance
    <2>1. Held(i)
      BY <1>9 DEF OperatorConfirmed, Held
    <2>2. /\ Assessed("confirmed", i) \in Release
          /\ Assessed("confirmed", i).kind = "confirmed"
          /\ Assessed("confirmed", i).own = i
          /\ Assessed("confirmed", i).status = claim[i]
      BY AssessedType DEF RelKinds, Owners
    <2>3. /\ rel' = [rel EXCEPT !["op"] = Assessed("confirmed", i)]
          /\ UNCHANGED claimVars /\ opFrame
      BY <1>9 DEF OperatorConfirmed, OperatorAssess
    <2>4. TypeOK'
      BY <2>2, <2>3, SMTT(30) DEF opFrame
    <2>5. ControlOK' /\ LocalOrderBacked'
      BY <2>1, <2>2, <2>3, SMTT(30) DEF opFrame
    <2> QED BY <2>3, <2>4, <2>5, NothingAdvanced, SMTT(30) DEF opFrame
  <1>10. ASSUME NEW i \in Intents, NEW settled \in BOOLEAN, OperatorVerified(i, settled)
        PROVE  IInv' /\ Advance
    <2>1. claim[i] \in HeldStatuses
      BY <1>10 DEF OperatorVerified, assessEntryClaimRelease, RecoverableStatuses,
              PreDispatchClaimStatuses, HeldStatuses, ClaimStatuses
    <2>2. /\ Assessed("verified", i) \in Release
          /\ Assessed("verified", i).kind = "verified"
          /\ Assessed("verified", i).own = i
          /\ Assessed("verified", i).status = claim[i]
      BY AssessedType DEF RelKinds, Owners
    <2>3. /\ rel' = [rel EXCEPT !["op"] = Assessed("verified", i)]
          /\ UNCHANGED claimVars /\ opFrame
      BY <1>10 DEF OperatorVerified, OperatorAssess
    <2>4. TypeOK'
      BY <2>2, <2>3, SMTT(30) DEF opFrame
    <2>5. ControlOK' /\ LocalOrderBacked'
      BY <2>1, <2>2, <2>3, SMTT(30) DEF opFrame
    <2> QED BY <2>3, <2>4, <2>5, NothingAdvanced, SMTT(30) DEF opFrame
  <1>11. ASSUME NEW a \in Adoptions, OperatorAdopted(a) PROVE IInv' /\ Advance
    <2>1. Held(a)
      BY <1>11 DEF OperatorAdopted, Held
    <2>2. /\ Assessed("adopted", a) \in Release
          /\ Assessed("adopted", a).kind = "adopted"
          /\ Assessed("adopted", a).own = a
          /\ Assessed("adopted", a).status = claim[a]
      BY AssessedType DEF RelKinds, Owners
    <2>3. /\ rel' = [rel EXCEPT !["op"] = Assessed("adopted", a)]
          /\ UNCHANGED claimVars /\ opFrame
      BY <1>11 DEF OperatorAdopted, OperatorAssess
    <2>4. TypeOK'
      BY <2>2, <2>3, SMTT(30) DEF opFrame
    <2>5. ControlOK' /\ LocalOrderBacked'
      BY <2>1, <2>2, <2>3, SMTT(30) DEF opFrame
    <2> QED BY <2>3, <2>4, <2>5, NothingAdvanced, SMTT(30) DEF opFrame
  <1>12. ASSUME OperatorCommit PROVE IInv' /\ Advance
    <2>1. ClaimChange
      BY <1>12, CommitChange DEF OperatorCommit
    <2>2. Advance
      BY <1>12, <2>1 DEF OperatorCommit, opFrame, Advance
    <2>3. IInv'
      BY <1>12, <2>1, NoReleaseType, SMTT(30)
      DEF OperatorCommit, opFrame, CommitRelease, ClaimChange, Owners
    <2> QED BY <2>2, <2>3
  <1>13. CASE OperatorNext
    <2> HIDE DEF IInv
    <2> QED BY <1>9, <1>10, <1>11, <1>12, <1>13 DEF OperatorNext
  <1>14. CASE RecoveryStep
    BY <1>4, <1>5, <1>6, <1>7, <1>8, <1>14 DEF RecoveryStep
  <1> QED
    BY <1>1, <1>2, <1>3, <1>13, <1>14 DEF RecoveryNext

(* Order sync, fill import, the closing of positions and the closed-claim  *)
(* retry: everything of the sync workflows but the tracking of a position. *)
LEMMA SyncIInv ==
  ASSUME IInv, SyncNext,
         \A e \in Intents \cup {Nobody} : ~ TrackPosition(e)
  PROVE  IInv' /\ Advance
  <1> USE ConstantsAssumption
      DEF IInv, TypeOK, ControlOK, LocalOrderBacked, Visible, IntentStatuses,
          BlockReasons, OrderStatuses, BrokerStatuses, EvidenceKinds, OutcomeKinds,
          Steps, Phases, Errors, Procs, intentVars, claimVars, orderVars, posVars,
          wkVars, brokerVars, Fault, Step, StepSeen, Begin, Done, syncFrame
  <1>1. ASSUME NEW i \in Intents, SyncOrder(i) PROVE IInv' /\ Advance
    BY <1>1, NothingAdvanced, SMTT(30) DEF SyncOrder, Owners
  <1>2. ASSUME NEW i \in Intents, ImportFill(i) PROVE IInv' /\ Advance
    <2>1. ClaimChange
      BY <1>2, TransitionChange DEF ImportFill, ClaimStatuses
    <2>2. Advance
      BY <1>2, <2>1 DEF ImportFill, Advance
    <2>3. IInv'
      BY <1>2, <2>1, SMTT(30) DEF ImportFill, ClaimChange, Owners
    <2> QED BY <2>2, <2>3
  <1>3. ASSUME NEW i \in Intents, ReconcileClosedClaim(i) PROVE IInv' /\ Advance
    BY <1>3, NothingAdvanced, SMTT(30) DEF ReconcileClosedClaim, Owners
  <1>4. ASSUME SnapshotPositions PROVE IInv' /\ Advance
    BY <1>4, NothingAdvanced, SMTT(30) DEF SnapshotPositions
  <1>5. ASSUME SyncRow PROVE IInv' /\ Advance
    BY <1>5, NothingAdvanced, SMTT(30) DEF SyncRow
  <1>6. ASSUME SyncIntent PROVE IInv' /\ Advance
    BY <1>6, NothingAdvanced, SMTT(30) DEF SyncIntent
  <1>7. ASSUME SyncClaim PROVE IInv' /\ Advance
    <2>1. ClaimChange
      BY <1>7, TransitionChange DEF SyncClaim, ClaimStatuses
    <2>2. Advance
      BY <1>7, <2>1 DEF SyncClaim, Advance
    <2>3. IInv'
      BY <1>7, <2>1, SMTT(30) DEF SyncClaim, ClaimChange, Owners
    <2> QED BY <2>2, <2>3
  <1>8. ASSUME ImportOnClose PROVE IInv' /\ Advance
    <2>1. ClaimChange
      BY <1>8, ClaimKept, TransitionChange DEF ImportOnClose, ClaimStatuses
    <2>2. Advance
      BY <1>8, <2>1 DEF ImportOnClose, Advance
    <2>3. IInv'
      BY <1>8, <2>1, SMTT(30) DEF ImportOnClose, ClaimChange, Owners
    <2> QED BY <2>2, <2>3
  <1>9. ASSUME StoreFill PROVE IInv' /\ Advance
    BY <1>9, NothingAdvanced, SMTT(30) DEF StoreFill
  <1>10. ASSUME NEW linked \in BOOLEAN, terminalizeImportedFullFill(linked) PROVE IInv' /\ Advance
    <2>1. ClaimChange
      BY <1>10, ClaimKept, TransitionChange DEF terminalizeImportedFullFill, ClaimStatuses
    <2>2. Advance
      BY <1>10, <2>1 DEF terminalizeImportedFullFill, Advance
    <2>3. /\ row' \in [Intents -> OrderStatuses \cup {"none"}]
          /\ \A i \in Intents : row'[i] = "none" <=> row[i] = "none"
      <3>1. row' = row \/ row' = [row EXCEPT ![cur] = "filled"]
        BY <1>10 DEF terminalizeImportedFullFill
      <3>2. row[cur] # "none" /\ cur \in Intents /\ "filled" \in OrderStatuses
        BY <1>10 DEF terminalizeImportedFullFill
      <3>3. CASE row' = row
        BY <3>3
      <3>4. CASE row' = [row EXCEPT ![cur] = "filled"]
        BY <3>2, <3>4, RowSet
      <3> QED BY <3>1, <3>3, <3>4
    <2>4. /\ intent' \in [Intents -> IntentStatuses]
          /\ \A i \in Intents : intent'[i] = "none" => intent[i] = "none"
      <3>1. intent' = intent \/ intent' = [intent EXCEPT ![cur] = "filled"]
        BY <1>10 DEF terminalizeImportedFullFill
      <3>2. CASE intent' = intent
        BY <3>2
      <3>3. CASE intent' = [intent EXCEPT ![cur] = "filled"]
        <4>1. "filled" \in IntentStatuses \ {"none"}
          OBVIOUS
        <4> QED BY <3>3, <4>1, IntentSet
      <3> QED BY <3>1, <3>2, <3>3
    <2>5. Step("confirm") \/ Done
      <3> HIDE DEF Step, Done
      <3> QED BY <1>10 DEF terminalizeImportedFullFill
    <2>6. UNCHANGED <<reason, fills, posVars>> /\ syncFrame /\ cur \in Intents
      BY <1>10 DEF terminalizeImportedFullFill
    <2>7. TypeOK'
      BY <2>1, <2>3, <2>4, <2>5, <2>6, SMTT(30) DEF ClaimChange
    <2>8. ControlOK' /\ LocalOrderBacked'
      BY <2>1, <2>3, <2>4, <2>5, <2>6, SMTT(30) DEF ClaimChange, Owners
    <2> QED BY <2>2, <2>7, <2>8
  <1>11. ASSUME CloseLoosePosition PROVE IInv' /\ Advance
    <2>1. /\ loose' \in BOOLEAN /\ Done
          /\ UNCHANGED <<intentVars, claim, orderVars, pos>> /\ syncFrame
      BY <1>11 DEF CloseLoosePosition
    <2>2. TypeOK'
      BY <2>1
    <2>3. ControlOK' /\ LocalOrderBacked'
      BY <2>1, SMTT(30)
    <2> QED BY <2>1, <2>2, <2>3, NothingAdvanced
  <1>12. ASSUME NEW o \in Owners, ClosePosition(o) PROVE IInv' /\ Advance
    BY <1>12, ClaimKept, SMTT(30) DEF ClosePosition, Advance, Owners
  <1> HIDE DEF IInv
  <1> QED
    BY <1>1, <1>2, <1>3, <1>4, <1>5, <1>6, <1>7, <1>8, <1>9, <1>10, <1>11, <1>12
    DEF SyncNext, SyncStep

(* The broker and other traders: they change no state of this system, and  *)
(* an order the broker holds stays one.                                    *)
LEMMA BrokerIInv ==
  ASSUME IInv, BrokerNext
  PROVE  IInv' /\ Advance
  <1> USE ConstantsAssumption
      DEF IInv, TypeOK, ControlOK, LocalOrderBacked, Visible, IntentStatuses,
          BlockReasons, OrderStatuses, BrokerStatuses, EvidenceKinds, OutcomeKinds,
          Steps, Phases, Errors, Procs, intentVars, claimVars, orderVars, posVars,
          wkVars, brokerVars, Fault, brokerFrame
  <1>1. ASSUME NEW i \in Intents, BrokerAccept(i) PROVE IInv' /\ Advance
    <2>1. /\ bk[i] \in BrokerStatuses /\ bk' = [bk EXCEPT ![i] = "open"]
          /\ UNCHANGED <<bfill, bpos, exts>> /\ brokerFrame
      BY <1>1 DEF BrokerAccept, BrokerStatus
    <2>2. bk' \in [Intents -> BrokerStatuses] /\ \A j \in Intents : Visible(j) => Visible(j)'
      BY <2>1
    <2>3. TypeOK'
      BY <2>1, <2>2, SMTT(30)
    <2>4. ControlOK' /\ LocalOrderBacked'
      BY <2>1, <2>2, SMTT(30)
    <2> QED BY <2>1, <2>3, <2>4, NothingAdvanced
  <1>2. ASSUME NEW i \in Intents, BrokerCancel(i) PROVE IInv' /\ Advance
    <2>1. /\ bk[i] \in BrokerStatuses /\ bk' = [bk EXCEPT ![i] = "canceled"]
          /\ UNCHANGED <<bfill, bpos, exts>> /\ brokerFrame
      BY <1>2 DEF BrokerCancel, BrokerStatus
    <2>2. bk' \in [Intents -> BrokerStatuses] /\ \A j \in Intents : Visible(j) => Visible(j)'
      BY <2>1
    <2>3. TypeOK'
      BY <2>1, <2>2, SMTT(30)
    <2>4. ControlOK' /\ LocalOrderBacked'
      BY <2>1, <2>2, SMTT(30)
    <2> QED BY <2>1, <2>3, <2>4, NothingAdvanced
  <1>3. ASSUME NEW i \in Intents, BrokerDoneForDay(i) PROVE IInv' /\ Advance
    <2>1. /\ bk[i] \in BrokerStatuses /\ bk' = [bk EXCEPT ![i] = "doneForDay"]
          /\ UNCHANGED <<bfill, bpos, exts>> /\ brokerFrame
      BY <1>3 DEF BrokerDoneForDay, BrokerStatus
    <2>2. bk' \in [Intents -> BrokerStatuses] /\ \A j \in Intents : Visible(j) => Visible(j)'
      BY <2>1
    <2>3. TypeOK'
      BY <2>1, <2>2, SMTT(30)
    <2>4. ControlOK' /\ LocalOrderBacked'
      BY <2>1, <2>2, SMTT(30)
    <2> QED BY <2>1, <2>3, <2>4, NothingAdvanced
  <1>4. ASSUME NEW i \in Intents, BrokerResume(i) PROVE IInv' /\ Advance
    BY <1>4, NothingAdvanced, SMTT(30) DEF BrokerResume, BrokerStatus
  <1>5. ASSUME NEW i \in Intents, BrokerRefuse(i) PROVE IInv' /\ Advance
    <2>1. bk[i] = "sent" /\ bk' = [bk EXCEPT ![i] = "refused"]
      BY <1>5 DEF BrokerRefuse, BrokerStatus
    <2>2. UNCHANGED <<bfill, bpos, exts>> /\ brokerFrame
      BY <1>5 DEF BrokerRefuse, BrokerStatus
    <2>3. bk' \in [Intents -> BrokerStatuses] /\ \A j \in Intents : Visible(j) => Visible(j)'
      BY <2>1, <2>2
    <2>4. Advance
      BY <2>2, NothingAdvanced
    <2>5. TypeOK'
      BY <2>2, <2>3, SMTT(30)
    <2>6. ControlOK' /\ LocalOrderBacked'
      BY <2>2, <2>3, SMTT(30)
    <2> QED BY <2>4, <2>5, <2>6
  <1>6. ASSUME NEW i \in Intents, BrokerFill(i) PROVE IInv' /\ Advance
    <2>1. PICK s \in {"filled", "partial"} : bk' = [bk EXCEPT ![i] = s]
      BY <1>6 DEF BrokerFill
    <2>2. /\ bk[i] \in {"open", "partial"}
          /\ bfill' \in [Intents -> Nat] /\ bpos' \subseteq Owners
          /\ UNCHANGED exts /\ brokerFrame
      BY <1>6 DEF BrokerFill, Owners
    <2>3. bk' \in [Intents -> BrokerStatuses] /\ \A j \in Intents : Visible(j) => Visible(j)'
      BY <2>1, <2>2
    <2>4. Advance
      BY <2>2, NothingAdvanced
    <2>5. TypeOK'
      BY <2>2, <2>3, SMTT(30)
    <2>6. ControlOK' /\ LocalOrderBacked'
      BY <2>2, <2>3, SMTT(30)
    <2> QED BY <2>4, <2>5, <2>6
  <1>7. ASSUME BrokerExit PROVE IInv' /\ Advance
    BY <1>7, NothingAdvanced, SMTT(30) DEF BrokerExit
  <1>8. ASSUME NEW a \in Adoptions, ExternalBuy(a) PROVE IInv' /\ Advance
    BY <1>8, NothingAdvanced, SMTT(30) DEF ExternalBuy, Owners
  <1> HIDE DEF IInv
  <1> QED
    BY <1>1, <1>2, <1>3, <1>4, <1>5, <1>6, <1>7, <1>8
    DEF BrokerNext

(* A broker position is attached to the one held claim, or adopted under a *)
(* claim of its own when none is held; an UNRESOLVED claim stays so and    *)
(* is not attached.                                                        *)
LEMMA TrackIInv ==
  ASSUME IInv, ExclusiveOwner, NEW expected \in Intents \cup {Nobody}, TrackPosition(expected)
  PROVE  /\ IInv' /\ ExclusiveOwner'
         /\ \A o \in Owners :
              /\ claim[o] = "RELEASED" => claim'[o] = "RELEASED"
              /\ claim[o] = "UNRESOLVED" =>
                   /\ claim'[o] \in {"UNRESOLVED", "RELEASED"}
                   /\ pos[o] = "none" => pos'[o] = "none"
  <1> USE DEF IInv
  <1>1. \E o \in Owners :
          /\ claim[o] # "RELEASED"
          /\ \A p \in Owners : Held(p) => p = o
          /\ claim[o] = "none" => o \in Adoptions
          /\ \/ /\ claim' = [claim EXCEPT ![o] = "UNRESOLVED"]
                /\ pos' = pos \/ (claim[o] = "none" /\ pos' = [pos EXCEPT ![o] = "open"])
             \/ /\ claim' = [claim EXCEPT ![o] = "POSITION_OPEN"]
                /\ claim[o] # "UNRESOLVED"
                /\ pos' = [pos EXCEPT ![o] = "open"]
    <2>1. CASE \E o \in Owners : Held(o)
      <3>1. PICK o \in Owners :
              /\ Held(o)
              /\ attachEntryExposureClaimToPosition(o, expected # Nobody /\ expected # o)
        BY <2>1 DEF TrackPosition
      <3>2. claim[o] # "RELEASED" /\ claim[o] # "none"
        BY <3>1 DEF Held, HeldStatuses, ClaimStatuses
      <3>3. \A p \in Owners : Held(p) => p = o
        BY <3>1 DEF ExclusiveOwner
      <3> QED BY <3>1, <3>2, <3>3 DEF attachEntryExposureClaimToPosition
    <2>2. CASE ~ \E o \in Owners : Held(o)
      <3>1. PICK a \in Adoptions : AdoptPosition(a)
        BY <2>2 DEF TrackPosition
      <3> QED BY <2>2, <3>1 DEF AdoptPosition, Owners
    <2> QED BY <2>1, <2>2
  <1>2. PICK o \in Owners : <1>1!(o)
    BY <1>1
  <1>3. /\ claim' \in [Owners -> ClaimStatuses \cup {"none"}]
        /\ pos' \in [Owners -> {"none", "open", "closed"}]
    BY <1>2 DEF TypeOK, ClaimStatuses
  <1>4. \A p \in Owners \ {o} : claim'[p] = claim[p]
    BY <1>2 DEF TypeOK
  <1>5. ExclusiveOwner'
    BY <1>2, <1>4 DEF ExclusiveOwner, Held
  <1>6. \A p \in Owners :
          /\ claim[p] = "RELEASED" => claim'[p] = "RELEASED"
          /\ claim[p] = "UNRESOLVED" =>
               /\ claim'[p] \in {"UNRESOLVED", "RELEASED"}
               /\ pos[p] = "none" => pos'[p] = "none"
    BY <1>2, <1>4 DEF TypeOK
  <1>7. /\ loose' \in BOOLEAN /\ Done
        /\ UNCHANGED <<intentVars, orderVars>> /\ syncFrame
    BY DEF TrackPosition, attachEntryExposureClaimToPosition, AdoptPosition
  <1>8. \A i \in Intents : intent'[i] = "none" => claim'[i] = "none"
    BY <1>2, <1>4, <1>7, ConstantsAssumption DEF ControlOK, Owners, intentVars
  <1>9. IInv'
    BY <1>3, <1>7, <1>8
    DEF TypeOK, ControlOK, LocalOrderBacked, Visible, Steps, Phases, Errors, Done,
        syncFrame, intentVars, orderVars, brokerVars
  <1> QED BY <1>5, <1>6, <1>9

-----------------------------------------------------------------------------
(* Theorems *)

(* A step that only advances claims makes none held.  *)
LEMMA AdvanceKeepsOwner ==
  ASSUME IInv, ExclusiveOwner, Advance
  PROVE  ExclusiveOwner'
  <1>1. \A o \in Owners : Held(o)' => Held(o)
    BY DEF IInv, TypeOK, Advance, ClaimChange, Held, HeldStatuses, ClaimStatuses
  <1> QED BY <1>1 DEF ExclusiveOwner

(* What every step of the system does to claims. *)
ClaimStep ==
  \A o \in Owners :
    /\ claim[o] = "RELEASED" => claim'[o] = "RELEASED"
    /\ claim[o] = "UNRESOLVED" =>
         claim'[o] \in {"UNRESOLVED", "RELEASED"} /\ (pos[o] = "none" => pos'[o] = "none")

(* The induction step: every action of every process preserves the         *)
(* invariant and single ownership, and respects ClaimStep.                 *)
LEMMA NextIInv ==
  ASSUME IInv, ExclusiveOwner, [Next]_vars
  PROVE  IInv' /\ ExclusiveOwner' /\ ClaimStep
  <1> USE DEF ClaimStep
  <1>0. ASSUME IInv', Advance PROVE IInv' /\ ExclusiveOwner' /\ ClaimStep
    BY <1>0, AdvanceKeepsOwner DEF Advance, ClaimChange
  <1>1. CASE AdmissionNext
    <2>1. ASSUME NEW i \in Intents, acquireEntryExposureClaim(i)
          PROVE  IInv' /\ ExclusiveOwner' /\ ClaimStep
      <3>1. /\ IInv' /\ UNCHANGED pos
            /\ \A o \in Owners : ~ Held(o)
            /\ claim' = [claim EXCEPT ![i] = "ENTRY_PENDING"]
            /\ claim[i] = "none"
        BY <2>1, AcquireIInv
      <3>2. \A o \in Owners \ {i} : claim'[o] = claim[o]
        BY <3>1 DEF IInv, TypeOK
      <3>3. \A o \in Owners : claim[o] # "UNRESOLVED"
        BY <3>1 DEF Held, HeldStatuses, ClaimStatuses
      <3> QED BY <3>1, <3>2, <3>3 DEF ExclusiveOwner, Held
    <2> QED BY <1>0, <1>1, <2>1, AdmissionIInv
  <1>2. CASE WorkerNext
    BY <1>0, <1>2, WorkerIInv
  <1>3. CASE RecoveryNext
    BY <1>0, <1>3, RecoveryIInv
  <1>4. CASE SyncNext
    <2>1. ASSUME NEW e \in Intents \cup {Nobody}, TrackPosition(e)
          PROVE  IInv' /\ ExclusiveOwner' /\ ClaimStep
      BY <2>1, TrackIInv
    <2> QED BY <1>0, <1>4, <2>1, SyncIInv
  <1>5. CASE BrokerNext
    BY <1>0, <1>5, BrokerIInv
  <1>6. CASE UNCHANGED vars
    <2>1. Advance
      BY <1>6, NothingAdvanced DEF IInv, vars
    <2>2. IInv'
      BY <1>6 DEF IInv, TypeOK, ControlOK, LocalOrderBacked, Visible, vars
    <2> QED BY <1>0, <2>1, <2>2
  <1> QED BY <1>1, <1>2, <1>3, <1>4, <1>5, <1>6 DEF Next, Rest

(* Every reachable state satisfies the inductive invariant and has at most *)
(* one unreleased claim.                                                   *)
THEOREM Invariance == Spec => [](IInv /\ ExclusiveOwner)
  <1>1. Init => IInv /\ ExclusiveOwner
    BY InitIInv
  <1>2. IInv /\ ExclusiveOwner /\ [Next]_vars => (IInv /\ ExclusiveOwner)'
    BY NextIInv
  <1> QED BY <1>1, <1>2, PTL DEF Spec

(* Type correctness: rows, events and records are always well formed.      *)
THEOREM TypeCorrect == Spec => []TypeOK
  <1>1. IInv => TypeOK
    BY DEF IInv
  <1> QED BY <1>1, Invariance, PTL

(* A local broker order always stands for an order the broker holds,       *)
(* although four workflows write it from what they read earlier.           *)
THEOREM LocalOrdersBacked == Spec => []LocalOrderBacked
  <1>1. IInv => LocalOrderBacked
    BY DEF IInv
  <1> QED BY <1>1, Invariance, PTL

(* At most one claim of an account/Security pair is unreleased, for any    *)
(* number of racing admissions, adoptions, crashes and releases            *)
(* (acquireEntryExposureClaim, attachEntryExposureClaimToPosition).        *)
THEOREM SingleOwner == Spec => []ExclusiveOwner
  BY Invariance, PTL

(* A released claim never returns and an UNRESOLVED claim is left only by  *)
(* its release, whatever a late worker, sync or import step observes.      *)
THEOREM ReviewRespected == Spec => ReviewedOwnership
  <1>1. IInv /\ ExclusiveOwner /\ [Next]_vars => [ClaimStep]_vars
    BY NextIInv
  <1>2. Spec => [][ClaimStep]_vars
    BY <1>1, Invariance, PTL DEF Spec
  <1> QED BY <1>2 DEF ReviewedOwnership, ClaimStep
=============================================================================
