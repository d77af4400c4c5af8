-------------------------- MODULE DeliveryLogProofs --------------------------
(***************************************************************************)
(* The pairing of adapter invocations with delivery records, for logs of   *)
(* any length.                                                             *)
(***************************************************************************)
EXTENDS DeliveryLog, TLAPS

(* m is an adapter invocation no record closes. *)
IsUnpaired(m) ==
  /\ m \in Markers(log)
  /\ ~ \E k \in Recorded(log) : m < k /\ \A n \in Markers(log) : m < n => k < n

(* What the two flags of the reference reading say about the log: an open  *)
(* invocation is one that every record precedes, a lost one is unclosed    *)
(* although a later invocation follows.                                    *)
OpenMeans == open <=> \E m \in Markers(log) : \A k \in Recorded(log) : k < m
LostMeans == lost <=> \E m \in Markers(log) :
                        IsUnpaired(m) /\ \E n \in Markers(log) : m < n

LogInv ==
  /\ log \in Seq(EvidenceKinds)
  /\ open \in BOOLEAN /\ lost \in BOOLEAN
  /\ OpenMeans /\ LostMeans

(* An append adds one position behind all the others. *)
LEMMA AppendPositions ==
  ASSUME LogInv, NEW k \in EvidenceKinds, log' = Append(log, k)
  PROVE  /\ log' \in Seq(EvidenceKinds)
         /\ Markers(log') = Markers(log) \cup (IF k = "marker" THEN {Len(log) + 1} ELSE {})
         /\ Recorded(log') = Recorded(log) \cup
              (IF k \in OutcomeKinds \cup {"notSent"} THEN {Len(log) + 1} ELSE {})
  <1> USE DEF LogInv
  <1>1. /\ log' \in Seq(EvidenceKinds) /\ DOMAIN log' = DOMAIN log \cup {Len(log) + 1}
        /\ Len(log) + 1 \notin DOMAIN log
        /\ \A j \in DOMAIN log : log'[j] = log[j]
        /\ log'[Len(log) + 1] = k
    OBVIOUS
  <1> QED BY <1>1 DEF Markers, Recorded

(* Positions are positive integers up to the length, and no event is both  *)
(* an invocation and a record.                                             *)
LEMMA Positions ==
  ASSUME LogInv
  PROVE  /\ Len(log) \in Nat
         /\ \A j \in Markers(log) \cup Recorded(log) : j \in Nat /\ 1 <= j /\ j <= Len(log)
         /\ Markers(log) \cap Recorded(log) = {}
  <1> USE DEF LogInv, Markers, Recorded
  <1>1. Len(log) \in Nat /\ \A j \in DOMAIN log : j \in Nat /\ 1 <= j /\ j <= Len(log)
    OBVIOUS
  <1>2. Markers(log) \cap Recorded(log) = {}
    BY DEF OutcomeKinds
  <1> QED BY <1>1, <1>2

(* Appending an event keeps both readings of the log in step. *)
LEMMA AppendLogInv ==
  ASSUME LogInv, NEW k \in EvidenceKinds, AppendEvent(k)
  PROVE  LogInv'
  <1> DEFINE M == Markers(log)
             R == Recorded(log)
             L == Len(log) + 1
  <1>1. /\ log' \in Seq(EvidenceKinds)
        /\ Markers(log') = M \cup (IF k = "marker" THEN {L} ELSE {})
        /\ Recorded(log') = R \cup (IF k \in OutcomeKinds \cup {"notSent"} THEN {L} ELSE {})
    BY AppendPositions DEF AppendEvent
  <1>2. /\ L \in Nat
        /\ \A j \in M \cup R : j \in Nat /\ j < L
        /\ M \cap R = {}
    BY Positions
  <1>3. /\ open \in BOOLEAN /\ lost \in BOOLEAN
        /\ open <=> \E m \in M : \A j \in R : j < m
        /\ lost <=> \E m \in M : /\ ~ \E j \in R : m < j /\ \A n \in M : m < n => j < n
                                 /\ \E n \in M : m < n
    BY DEF LogInv, OpenMeans, LostMeans, IsUnpaired
  <1>4. /\ open' = (k = "marker" \/ (open /\ k \in {"claimed", "claimedV0"}))
        /\ lost' = (lost \/ (k = "marker" /\ open))
    BY DEF AppendEvent
  <1> HIDE DEF M, R, L
  <1>5. CASE k = "marker"
    <2>1. Markers(log') = M \cup {L} /\ Recorded(log') = R
      BY <1>1, <1>5 DEF OutcomeKinds
    <2>2. OpenMeans'
      BY <1>2, <1>4, <1>5, <2>1 DEF OpenMeans
    <2>3. LostMeans'
      <3> DEFINE U(m) == /\ ~ \E j \in R : m < j /\ \A n \in M \cup {L} : m < n => j < n
                         /\ \E n \in M \cup {L} : m < n
      <3>1. ASSUME lost PROVE \E m \in M \cup {L} : U(m)
        <4>1. PICK m \in M : /\ ~ \E j \in R : m < j /\ \A n \in M : m < n => j < n
                             /\ \E n \in M : m < n
          BY <1>3, <3>1
        <4> QED BY <4>1
      <3>2. ASSUME open PROVE \E m \in M \cup {L} : U(m)
        <4>1. PICK m \in M : \A j \in R : j < m
          BY <1>3, <3>2
        <4>2. m < L /\ \A j \in R : ~ (m < j)
          BY <1>2, <4>1
        <4> QED BY <4>2
      <3>3. ASSUME NEW m \in M \cup {L}, U(m) PROVE lost \/ open
        <4>1. m \in M
          BY <1>2, <3>3
        <4>2. ~ \E j \in R : m < j /\ \A n \in M : m < n => j < n
          BY <1>2, <3>3
        <4>3. CASE \E n \in M : m < n
          BY <1>3, <4>1, <4>2, <4>3
        <4>4. CASE ~ \E n \in M : m < n
          <5>1. ASSUME NEW j \in R PROVE j < m
            <6>1. ~ (m < j) /\ j # m /\ j \in Nat /\ m \in Nat
              BY <1>2, <4>1, <4>2, <4>4
            <6> QED BY <6>1
          <5> QED BY <1>3, <4>1, <5>1
        <4> QED BY <4>3, <4>4
      <3>4. lost' <=> \E m \in M \cup {L} : U(m)
        BY <1>4, <1>5, <3>1, <3>2, <3>3
      <3> QED BY <2>1, <3>4 DEF LostMeans, IsUnpaired
    <2> QED BY <1>1, <1>3, <1>4, <2>2, <2>3 DEF LogInv
  <1>6. CASE k \in OutcomeKinds \cup {"notSent"}
    <2>1. Markers(log') = M /\ Recorded(log') = R \cup {L}
      BY <1>1, <1>6 DEF OutcomeKinds
    <2>2. OpenMeans'
      <3>1. ~ open'
        BY <1>4, <1>6 DEF OutcomeKinds
      <3>2. \A m \in M : ~ (L < m)
        BY <1>2
      <3> QED BY <2>1, <3>1, <3>2 DEF OpenMeans
    <2>3. LostMeans'
      <3>1. lost' = lost
        BY <1>3, <1>4, <1>6 DEF OutcomeKinds
      <3>2. ASSUME NEW m \in M, NEW n \in M, m < n
            PROVE  (\E j \in R : m < j /\ \A q \in M : m < q => j < q)
                     <=> \E j \in R \cup {L} : m < j /\ \A q \in M : m < q => j < q
        <4>1. ~ (L < n)
          BY <1>2
        <4> QED BY <3>2, <4>1
      <3> QED BY <1>3, <2>1, <3>1, <3>2 DEF LostMeans, IsUnpaired
    <2> QED BY <1>1, <1>3, <1>4, <2>2, <2>3 DEF LogInv
  <1>7. CASE k \in {"claimed", "claimedV0"}
    <2>1. Markers(log') = M /\ Recorded(log') = R
      BY <1>1, <1>7 DEF OutcomeKinds
    <2>2. OpenMeans' /\ LostMeans'
      BY <1>3, <1>4, <1>7, <2>1 DEF OpenMeans, LostMeans, IsUnpaired
    <2> QED BY <1>1, <1>3, <1>4, <2>2 DEF LogInv
  <1> QED BY <1>5, <1>6, <1>7 DEF EvidenceKinds

(* The invariant holds of every log that can be written. *)
LEMMA LogInvariance == Spec => []LogInv
  <1>1. Init => LogInv
    <2> SUFFICES ASSUME Init PROVE LogInv
        OBVIOUS
    <2>1. log \in Seq(EvidenceKinds) /\ Markers(log) = {} /\ ~ open /\ ~ lost
      BY DEF Init, Markers
    <2> QED BY <2>1 DEF Init, LogInv, OpenMeans, LostMeans
  <1>2. LogInv /\ [Next]_logVars => LogInv'
    <2> SUFFICES ASSUME LogInv, [Next]_logVars PROVE LogInv'
        OBVIOUS
    <2>1. CASE UNCHANGED logVars
      BY <2>1 DEF LogInv, OpenMeans, LostMeans, IsUnpaired, logVars
    <2>2. ASSUME NEW k \in EvidenceKinds, AppendEvent(k) PROVE LogInv'
      BY <2>2, AppendLogInv
    <2> QED BY <2>1, <2>2 DEF Next, Quiet
  <1> QED BY <1>1, <1>2, PTL DEF Spec

(* The two-pass pairing of summarizeDeliveryEvidence finds an unclosed     *)
(* adapter invocation exactly when a reading event by event does, for logs *)
(* of every length.                                                        *)
THEOREM PairingCorrect == Spec => []PairingAgrees
  <1>1. LogInv => PairingAgrees
    <2> SUFFICES ASSUME LogInv PROVE PairingAgrees
        OBVIOUS
    <2>1. Unpaired(log) # {} <=> \E m \in Markers(log) : IsUnpaired(m)
      BY DEF Unpaired, IsUnpaired
    <2>2. ASSUME NEW m \in Markers(log), IsUnpaired(m) PROVE open \/ lost
      BY <2>2, Positions DEF LogInv, OpenMeans, LostMeans, IsUnpaired
    <2>3. ASSUME open \/ lost PROVE \E m \in Markers(log) : IsUnpaired(m)
      BY <2>3, Positions DEF LogInv, OpenMeans, LostMeans, IsUnpaired
    <2> QED BY <2>1, <2>2, <2>3 DEF PairingAgrees
  <1> QED BY <1>1, LogInvariance, PTL

(* A never-submitted release is proven only when every adapter invocation  *)
(* was closed and nothing recorded speaks of a request                     *)
(* (evaluateNeverSubmittedRelease), for logs of every length.              *)
THEOREM NeverSubmittedSound == Spec => []NeverSubmittedProven
  <1>1. LogInv /\ PairingAgrees => NeverSubmittedProven
    BY DEF NeverSubmittedProven, PairingAgrees, evaluateNeverSubmittedRelease, Ambiguous,
           Classifications, LocalNonSend, Recorded, OutcomeKinds
  <1> QED BY <1>1, LogInvariance, PairingCorrect, PTL

(* Uncertainty is permanent: once an invocation was abandoned, or an       *)
(* uncertain outcome was recorded, no later event of any writer makes the  *)
(* release basis conclusive (evaluateDispatchReleaseBasis).                *)
THEOREM AmbiguityPermanent == Spec => AmbiguityPersists
  <1> DEFINE bad == {"rejectedOther", "uncertain", "unknown"}
             A == lost \/ (\E k \in DOMAIN log : log[k] \in bad) =>
                    \A settled \in BOOLEAN :
                      evaluateDispatchReleaseBasis(log', settled) = "AMBIGUOUS_ABSENCE"
  <1>1. LogInv /\ PairingAgrees' /\ [Next]_logVars => [A]_logVars
    <2> SUFFICES ASSUME LogInv, PairingAgrees', NEW e \in EvidenceKinds, AppendEvent(e),
                        lost \/ (\E k \in DOMAIN log : log[k] \in bad)
                 PROVE  \A settled \in BOOLEAN :
                          evaluateDispatchReleaseBasis(log', settled) = "AMBIGUOUS_ABSENCE"
        BY DEF Next, Quiet
    <2>1. SUFFICES \E c \in bad : c \in Classifications(log')
      BY DEF evaluateDispatchReleaseBasis, LocalNonSend
    <2>2. CASE lost
      <3>1. Unpaired(log') # {}
        BY <2>2 DEF AppendEvent, PairingAgrees
      <3> QED BY <3>1 DEF Classifications
    <2>3. CASE \E k \in DOMAIN log : log[k] \in bad
      <3>1. PICK k \in DOMAIN log : log[k] \in bad
        BY <2>3
      <3>2. k \in DOMAIN log' /\ log'[k] = log[k]
        BY DEF AppendEvent, LogInv
      <3> QED BY <3>1, <3>2 DEF Classifications, Recorded, OutcomeKinds
    <2> QED BY <2>2, <2>3
  <1>2. Spec => [][A]_logVars
    BY <1>1, LogInvariance, PairingCorrect, PTL DEF Spec
  <1> QED BY <1>2 DEF AmbiguityPersists
=============================================================================
