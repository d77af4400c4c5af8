------------------------------ MODULE ExitOrders ------------------------------
(***************************************************************************)
(* The state that every exit of one tracked long position touches: the     *)
(* position, its exit state, the sell intents, the local broker orders,    *)
(* imported fills, the exit-verification attention and the EXIT_SUBMISSION *)
(* lock; and the broker that owns the orders and the shares.               *)
(*                                                                         *)
(* The broker is as permissive as it can be: it refuses a duplicate client *)
(* order id and nothing else, so a sell of shares that are not held would  *)
(* make the account short; and it may carry out a request long after the   *)
(* submitter stopped waiting for it.                                       *)
(***************************************************************************)
EXTENDS Integers, FiniteSets

CONSTANTS Qty,         \* shares of the position when it was opened
          Closes,      \* identities available to close-position intents
          Profiles,    \* exit profiles the subscription may have
          MaxRev,      \* revisions of the attention episode that are told apart
          MaxFaults,   \* failed calls and dead processes
          MaxCancels,  \* broker orders that end without filling
          Nobody       \* no process, no intent

ASSUME ExitAssumption ==
  /\ Qty \in Nat \ {0} /\ Profiles \subseteq {"fixed", "trailing"}
  /\ MaxRev \in 1..4 /\ MaxFaults \in Nat /\ MaxCancels \in Nat
  /\ IsFiniteSet(Closes)

VARIABLES pos,      \* TrackedPosition: status, qty
          intent,   \* OrderIntent: status and what its blockReason says
          row,      \* BrokerOrder by client order id: status, owning intent
          xs,       \* PositionExitState
          attn,     \* EXIT_VERIFICATION attention: open, revision
          fills,    \* imported FILL activities by client id: all, attributed
          lock,     \* holder of the EXIT_SUBMISSION lock
          w,        \* the processes
          ord,      \* the broker's orders by client order id
          held,     \* the broker's position
          sent,     \* intents one of whose attempts reached `fetch'
          profile,  \* exit profile of the subscription
          faults, cancels

vars == <<pos, intent, row, xs, attn, fills, lock, w, ord, held, sent, profile,
          faults, cancels>>

(* A corrective attempt is identified by the attention revision it acts on. *)
AttemptId == <<"corrective-r1", "corrective-r2", "corrective-r3">>
Correctives == {AttemptId[r] : r \in 1..(MaxRev - 1)}
Intents == Closes \cup {"trail"} \cup Correctives

(* Every close-position intent of a position has the client order id       *)
(* ai-exit-close-{account}-{position}; the trailing stop has one id; a     *)
(* corrective attempt one per revision.                                    *)
Cids == {"close", "trail"} \cup Correctives
Cid(i) == IF i \in Closes THEN "close" ELSE i

Submitters == {"evaluator", "owner", "corrective"}

(* Recovery, order sync, activity import, position sync and reconciliation *)
(* hold LIFECYCLE_MUTATION: of the account's, one runs at a time.          *)
Procs == Submitters \cup {"lifecycle"}

(* Intents are distinct rows, whoever created them. *)
ASSUME IdentityAssumption ==
  /\ Closes \cap ({"trail"} \cup Correctives) = {}
  /\ Nobody \notin Intents \cup Cids \cup Procs

(* The sum of f over the client order ids. *)
Total(f) ==
  LET Of(c) == IF c \in Cids THEN f[c] ELSE 0
  IN Of("close") + Of("trail") + Of("corrective-r1") + Of("corrective-r2") + Of("corrective-r3")

-----------------------------------------------------------------------------
(* "canceled" stands for every terminal status but filled. *)
OrderStatuses == {"new", "partially_filled", "filled", "canceled"}
Terminal == {"filled", "canceled"}
Nonterminal == OrderStatuses \ Terminal

Idle == [pc |-> "idle", i |-> Nobody, q |-> 0, loc |-> 0, att |-> 0,
         h |-> 0, a |-> 0, out |-> "none", seen |-> "none"]

At(p, l) == w[p].pc = l
Goto(p, l) == w' = [w EXCEPT ![p].pc = l]
Stop(p) == w' = [w EXCEPT ![p] = Idle]

(* A failing call of the broker or the database. *)
Fault == faults < MaxFaults /\ faults' = faults + 1

-----------------------------------------------------------------------------
(* The broker (external). *)
Working(c) == ord[c].st \in Nonterminal
Remaining(c) == IF Working(c) THEN ord[c].qty - ord[c].done ELSE 0
Reserved == Total([c \in Cids |-> Remaining(c)])
Available == held - Reserved

(* POST /v2/orders. An order may be accepted while its submitter waits, or *)
(* late, out of the requests of its client id that are still travelling    *)
(* (wire, by quantity). With one accepted, the id is taken: the others are *)
(* refused. A request that is lost is one that never arrives.              *)
NewOrder(q, late) == [st |-> "new", qty |-> q, done |-> 0, wire |-> {}, late |-> late]

Accept(c, q) == ord[c].st = "none" /\ ord' = [ord EXCEPT ![c] = NewOrder(q, FALSE)]

Travel(c, q) == ord[c].st = "none" /\ ord' = [ord EXCEPT ![c].wire = @ \cup {q}]

LateAccept(c) ==
  /\ ord[c].st = "none"
  /\ \E q \in ord[c].wire : ord' = [ord EXCEPT ![c] = NewOrder(q, TRUE)]
  /\ UNCHANGED <<pos, intent, row, xs, attn, fills, lock, w, held, sent, profile, faults, cancels>>

FillShare(c) ==
  /\ Working(c)
  /\ ord' = [ord EXCEPT ![c].done = @ + 1,
                        ![c].st = IF ord[c].done + 1 = ord[c].qty THEN "filled"
                                  ELSE "partially_filled"]
  /\ held' = held - 1
  /\ UNCHANGED <<pos, intent, row, xs, attn, fills, lock, w, sent, profile, faults, cancels>>

EndUnfilled(c) ==
  /\ Working(c) /\ cancels < MaxCancels
  /\ ord' = [ord EXCEPT ![c].st = "canceled"]
  /\ cancels' = cancels + 1
  /\ UNCHANGED <<pos, intent, row, xs, attn, fills, lock, w, held, sent, profile, faults>>

BrokerNext == \E c \in Cids : LateAccept(c) \/ FillShare(c) \/ EndUnfilled(c)

-----------------------------------------------------------------------------
(* A process dies, or a database statement fails where nothing catches it; *)
(* the advisory lock goes with its session.                                *)
Abort(p) ==
  /\ w[p].pc # "idle" /\ Fault
  /\ Stop(p)
  /\ lock' = IF lock = p THEN Nobody ELSE lock
  /\ UNCHANGED <<pos, intent, row, xs, attn, fills, ord, held, sent, profile, cancels>>

(* Shares that imported fills attribute to the position. *)
Attributed == Total([c \in Cids |-> fills[c].mine])

=============================================================================
