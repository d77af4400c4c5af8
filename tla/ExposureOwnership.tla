-------------------------- MODULE ExposureOwnership --------------------------
(***************************************************************************)
(* What the entry-exposure claim promises for one account/Security pair,   *)
(* without any of its machinery: a single owner, who alone may create      *)
(* exposure (a BUY on its way or at the broker, or the shares it bought),  *)
(* and who gives the pair back only when nothing of that exposure is left. *)
(***************************************************************************)
CONSTANTS Owners, Nobody

VARIABLES
  owner,    \* who owns the pair, or Nobody
  exposed   \* the owners that have exposure at the broker

Init ==
  /\ owner \in Owners \cup {Nobody}
  /\ exposed \subseteq {owner} \cap Owners

Acquire(o) ==
  /\ owner = Nobody
  /\ owner' = o
  /\ UNCHANGED exposed

Expose(o) ==
  /\ owner = o
  /\ exposed' = exposed \cup {o}
  /\ UNCHANGED owner

Settle(o) ==
  /\ exposed' = exposed \ {o}
  /\ UNCHANGED owner

Release ==
  /\ owner # Nobody /\ owner \notin exposed
  /\ owner' = Nobody
  /\ UNCHANGED exposed

Next ==
  \/ \E o \in Owners : Acquire(o) \/ Expose(o) \/ Settle(o)
  \/ Release

Spec == Init /\ [][Next]_<<owner, exposed>>
=============================================================================
