------------------------- MODULE ExitLifecycleProofs -------------------------
(***************************************************************************)
(* Proofs about the exits of one position, for every quantity, every set   *)
(* of close intents and every bound.  ShortOnlyByLateOrders is not         *)
(* inductive: that the sells accepted while their submitter waits stay     *)
(* within the shares held needs the lock (LockOK), what its holder         *)
(* verified and only late orders can change (VerifyOK), and that one such  *)
(* sell works at a time, for what the late ones left (OrdersOK).  That a   *)
(* working close is known needs the one writer of each close intent        *)
(* (CloseOK), that copied terminal statuses are true (EvidenceOK), and for *)
(* requests still on their way what becomes of the intent that sent them   *)
(* (CarriedOK).                                                            *)
(***************************************************************************)
EXTENDS ExitLifecycle, TLAPS

(* Where a submitter holds the EXIT_SUBMISSION lock. *)
Verifying == {"xPos", "xOrders", "xPost", "xBlock", "xAttention"}

(* The lock excludes: who verifies holds it; the corrective close holds it *)
(* until it has recorded how its attempt ended.                            *)
LockOK ==
  /\ \A p \in Submitters : w[p].pc \in Verifying => lock = p
  /\ \A p \in Submitters : w[p].pc = "xFind" => p = "corrective"
  /\ w["corrective"].pc \in {"xFind", "done"} => lock = "corrective"
  /\ w["corrective"].pc # "xLock"

(* Where a submitter has an intent to submit, or the outcome of one. *)
Submitting == Verifying \cup {"trailLookup", "xLock", "xFind", "execute", "done"}

(* What is submitted, recovered or synchronized is an intent. *)
BusyOK ==
  /\ \A p \in Submitters : w[p].pc \in Submitting => w[p].i \in Intents
  /\ w["lifecycle"].pc \in {"recover", "absent", "syncRow", "syncIntent"}
       => w["lifecycle"].i \in Intents

(* What the evaluator knows of the protective order at its steps: an order *)
(* that is linked, or was when the tick began, was accepted.               *)
Protects == /\ w["evaluator"].pc \in {"protRead", "protWrite", "decide"}
                 => w["evaluator"].i = Nobody
            /\ w["evaluator"].pc \in {"trailLookup", "persist", "mark"}
                 => w["evaluator"].i = "trail"

TrailOK == /\ Protects
           /\ xs.bid \/ w["evaluator"].pc = "protRead" => ord["trail"].st # "none"

(* An order accepted while its submitter waited. *)
Prompt(c) == Working(c) /\ ~ord[c].late

(* What such orders may still sell. *)
Budget == held + LateDone

(* At most one of them works, for no more than that; a request travels     *)
(* only while its client id is free.                                       *)
OrdersOK ==
  /\ 0 <= Budget
  /\ \A c \in Cids : Working(c) => ord[c].done < ord[c].qty
  /\ \A c \in Cids : Prompt(c) => ord[c].qty - ord[c].done <= Budget
  /\ \A c, d \in Cids : Prompt(c) /\ Prompt(d) => c = d
  /\ \A c \in Cids : ord[c].wire # {} => ord[c].st = "none"
  /\ \A c \in Cids : ord[c].st = "none" => ord[c].done = 0

NoneWorking == \A c \in Cids : ~ Working(c)
NonePrompt == \A c \in Cids : ~ Prompt(c)

(* A quantity that was verified: what is held, but for late orders. *)
Verified(q) == held <= q /\ q <= Budget /\ NonePrompt

(* What was verified still holds: a position read as fully available is    *)
(* only sold from by late orders, for only the holder of the lock posts.   *)
VerifyOK ==
  \A p \in Submitters :
    /\ w[p].pc = "xOrders" /\ w[p].a = w[p].h => Verified(w[p].h)
    /\ w[p].pc = "xPost" => w[p].q > 0 /\ Verified(w[p].q)

(* From the claim of an exit to the end of its verification. *)
Claimed == {"trailLookup", "xLock", "xPos", "xOrders"}

(* The local quantity only ever shrinks towards the shares held. *)
LocalOK ==
  /\ held <= pos.qty
  /\ w["lifecycle"].pc = "position" => /\ held <= w["lifecycle"].h
                                       /\ w["lifecycle"].h <= pos.qty
                                       /\ pos.st # "closed"
  /\ w["lifecycle"].pc = "closing" => pos.st = "closed" /\ held <= 0
  /\ \A p \in Submitters \ {"corrective"} : w[p].pc \in Claimed => pos.qty <= w[p].loc

(* The order a process read a status of. *)
SeenCid(p) == IF w[p].i = Nobody THEN "trail" ELSE Cid(w[p].i)

(* A status that ends an order, wherever it was copied to, is the broker's *)
(* own; and what has a status was accepted.                                *)
True(c, st) ==
  /\ st \in Terminal => ord[c].st = st
  /\ st \in OrderStatuses => ord[c].st # "none"

RowsTrue == \A c \in Cids : True(c, row[c].st) /\ (row[c].by # Nobody => row[c].st # "none")

StateTrue == True("trail", xs.ost) /\ (xs.ost = "canceled" /\ pos.st # "closed" => xs.att)

SeenTrue(p) ==
  /\ True(SeenCid(p), w[p].seen)
  /\ w[p].seen = "again" => w[p].pc \in {"trailLookup", "trailFailed"}
  /\ w[p].pc = "done" /\ w[p].out \in {"sent", "found"} => w[p].seen \in OrderStatuses
  /\ w[p].pc \in {"protWrite", "persist", "mark", "syncRow", "syncIntent"}
       => w[p].seen \in OrderStatuses

EvidenceOK == RowsTrue /\ StateTrue /\ \A p \in Procs : SeenTrue(p)

(* A close intent somebody works on is submitting, until its verification  *)
(* was refused.                                                            *)
Pending(p) ==
  \/ intent[w[p].i].st = "submitting"
  \/ /\ intent[w[p].i].st = "blocked"
     /\ \/ w[p].pc = "xAttention"
        \/ w[p].pc = "done" /\ w[p].out \in {"verify", "verify503"}

(* One close intent is active at a time, and its row has one writer. *)
CloseOK ==
  /\ w["corrective"].i \in Correctives \cup {Nobody}
  /\ \A p \in Submitters : w[p].i \in Closes => Pending(p)
  /\ \A p, q \in Submitters : w[p].i \in Closes /\ w[p].i = w[q].i => p = q
  /\ \A i, j \in Closes : intent[i].st \in ActiveClose /\ intent[j].st \in ActiveClose => i = j
  /\ w["lifecycle"].pc \in {"recover", "absent"} /\ w["lifecycle"].i \in Closes
       => /\ intent[w["lifecycle"].i].st = "submitting"
          /\ \A p \in Submitters : w[p].i # w["lifecycle"].i
  /\ w["lifecycle"].pc \in {"syncRow", "syncIntent"} /\ w["lifecycle"].i \in Closes
       => /\ intent[w["lifecycle"].i].st \notin {"none", "submitting"}
          /\ \A p \in Submitters : w[p].i # w["lifecycle"].i
  /\ \A c \in Cids : row[c].by \in Closes
       => /\ c = "close" /\ intent[row[c].by].st # "none"
          /\ \A p \in Submitters : w[p].i # row[c].by

(* The intent that accounts for a close order without a local row, unless  *)
(* the order was accepted late.                                            *)
Accounts(i) ==
  /\ intent[i].st = "submitting"
  /\ \A p \in Submitters : w[p].i = i => w[p].pc = "done" /\ w[p].out \in {"sent", "uncertain"}
  /\ w["lifecycle"].i = i => /\ w["lifecycle"].pc # "absent"
                             /\ w["lifecycle"].pc = "recover" => w["lifecycle"].seen # "none"

KnownOK ==
  Prompt("close") => \/ row["close"].st \in Nonterminal
                     \/ row["close"].st = "none" /\ \E i \in Closes : Accounts(i)

IInv == /\ TypeOK /\ LockOK /\ BusyOK /\ TrailOK /\ OrdersOK /\ VerifyOK /\ LocalOK /\ EvidenceOK
        /\ CloseOK /\ KnownOK

-----------------------------------------------------------------------------
(* What the steps of a process write *)

(* Nobody but p moves. *)
Others(p) == \A q \in Procs \ {p} : w'[q] = w[q]

(* An assignment to a process's record is seen in that record alone. *)
LEMMA Assign ==
  ASSUME w \in [Procs -> Process], NEW p \in Procs, NEW v \in Process, w' = [w EXCEPT ![p] = v]
  PROVE  w' \in [Procs -> Process] /\ w'[p] = v /\ Others(p)
  BY DEF Others

(* The record of a process at rest. *)
LEMMA IdleType == Idle \in Process
  BY ExitAssumption DEF Idle, Process, Steps, Outcomes, OrderStatuses

(* A process goes on elsewhere. *)
LEMMA GotoStep ==
  ASSUME TypeOK, NEW p \in Procs, NEW l \in Steps, Goto(p, l)
  PROVE  /\ w' \in [Procs -> Process] /\ Others(p)
         /\ w'[p] = [w[p] EXCEPT !.pc = l]
  <1> DEFINE v == [w[p] EXCEPT !.pc = l]
  <1>1. w[p] \in Process
    BY DEF TypeOK
  <1>2. v \in Process
    BY <1>1 DEF Process
  <1>3. w' = [w EXCEPT ![p] = v]
    BY DEF Goto
  <1> HIDE DEF v
  <1>4. w \in [Procs -> Process]
    BY DEF TypeOK
  <1>5. w' \in [Procs -> Process] /\ w'[p] = v /\ Others(p)
    BY <1>2, <1>3, <1>4, Assign
  <1> QED BY <1>5 DEF v

(* A process comes to rest. *)
LEMMA StopStep ==
  ASSUME TypeOK, NEW p \in Procs, Stop(p)
  PROVE  w' \in [Procs -> Process] /\ Others(p) /\ w'[p] = Idle
  BY IdleType, Assign DEF Stop, TypeOK

(* A submission ends. *)
LEMMA EndedStep ==
  ASSUME TypeOK, NEW p \in Procs, NEW out \in Outcomes,
         NEW seen \in OrderStatuses \cup {"none"}, Ended(p, out, seen)
  PROVE  /\ w' \in [Procs -> Process] /\ Others(p)
         /\ w'[p] = [Idle EXCEPT !.pc = "done", !.i = w[p].i, !.out = out, !.seen = seen]
  <1> DEFINE v == [Idle EXCEPT !.pc = "done", !.i = w[p].i, !.out = out, !.seen = seen]
  <1>1. w[p].i \in Intents \cup {Nobody}
    BY DEF TypeOK, Process
  <1>2. v \in Process
    BY <1>1, IdleType DEF Process, Steps, Idle
  <1>3. w' = [w EXCEPT ![p] = v]
    BY DEF Ended
  <1> HIDE DEF v
  <1>5. w' \in [Procs -> Process] /\ w'[p] = v /\ Others(p)
    BY <1>2, <1>3, Assign DEF TypeOK
  <1> QED BY <1>5 DEF v

(* A verification is refused. *)
LEMMA RefuseStep ==
  ASSUME TypeOK, NEW p \in Procs, Refuse(p)
  PROVE  /\ w' \in [Procs -> Process] /\ Others(p)
         /\ w'[p] = [Idle EXCEPT !.pc = "xBlock", !.i = w[p].i]
  <1> DEFINE v == [Idle EXCEPT !.pc = "xBlock", !.i = w[p].i]
  <1>1. w[p].i \in Intents \cup {Nobody}
    BY DEF TypeOK, Process
  <1>2. v \in Process
    BY <1>1, IdleType DEF Process, Steps, Idle
  <1>3. w' = [w EXCEPT ![p] = v]
    BY DEF Refuse
  <1> HIDE DEF v
  <1>5. w' \in [Procs -> Process] /\ w'[p] = v /\ Others(p)
    BY <1>2, <1>3, Assign DEF TypeOK
  <1> QED BY <1>5 DEF v

-----------------------------------------------------------------------------
(* What a step must respect to keep each part of the invariant *)

(* A step of one submitter. *)
LEMMA LockKeeps ==
  ASSUME LockOK, NEW p \in Submitters, Others(p),
         \A q \in Submitters \ {p} : lock = q => lock' = q,
         w'[p].pc \in Verifying => lock' = p,
         w'[p].pc = "xFind" => p = "corrective",
         p = "corrective" => /\ w'[p].pc # "xLock"
                             /\ w'[p].pc \in {"xFind", "done"} => lock' = p
  PROVE  LockOK'
  BY DEF LockOK, Others, Procs, Submitters

(* Nothing happened at the broker. *)
LEMMA SameBroker ==
  ASSUME ord' = ord, held' = held
  PROVE  /\ Budget' = Budget /\ LateDone' = LateDone
         /\ \A c : Working(c)' = Working(c) /\ Prompt(c)' = Prompt(c)
  BY DEF Budget, LateDone, Prompt, Working

LEMMA SameOrders ==
  ASSUME OrdersOK, ord' = ord, held' = held
  PROVE  OrdersOK'
  BY SameBroker DEF OrdersOK

(* A step that leaves the broker alone. *)
LEMMA VerifyKeeps ==
  ASSUME VerifyOK, NEW p \in Procs, Others(p), ord' = ord, held' = held,
         p \in Submitters =>
           /\ w'[p].pc = "xOrders" /\ w'[p].a = w'[p].h => Verified(w'[p].h)
           /\ w'[p].pc = "xPost" => w'[p].q > 0 /\ Verified(w'[p].q)
  PROVE  VerifyOK'
  <1>1. \A q : Verified(q)' <=> Verified(q)
    BY SameBroker DEF Verified, NonePrompt
  <1> QED BY <1>1 DEF VerifyOK, Others, Procs

(* A step of one submitter that leaves the quantities alone. *)
LEMMA LocalKeeps ==
  ASSUME LocalOK, NEW p \in Submitters, Others(p), held' = held, pos'.qty = pos.qty,
         pos'.st = "closed" <=> pos.st = "closed",
         p # "corrective" /\ w'[p].pc \in Claimed => pos.qty <= w'[p].loc
  PROVE  LocalOK'
  BY DEF LocalOK, Others, Procs, Submitters

(* A step that leaves the broker's orders alone. *)
LEMMA EvidenceKeeps ==
  ASSUME EvidenceOK, NEW p \in Procs, Others(p), ord' = ord,
         RowsTrue', StateTrue', SeenTrue(p)'
  PROVE  EvidenceOK'
  <1>1. \A q \in Procs \ {p} : SeenTrue(q)'
    BY DEF EvidenceOK, Others, SeenTrue, True, SeenCid
  <1> QED BY <1>1 DEF EvidenceOK

(* A step of one submitter that leaves the close intents and the close     *)
(* order alone, and takes up no close.                                     *)
LEMMA CloseKeeps ==
  ASSUME CloseOK, NEW p \in Submitters, Others(p),
         \A i \in Closes : intent'[i] = intent[i],
         \A c \in Cids : row'[c].by \in Closes => row'[c].by = row[c].by,
         p = "corrective" => w'[p].i \in Correctives \cup {Nobody},
         w'[p].i \in Closes => w'[p].i = w[p].i /\ Pending(p)'
  PROVE  CloseOK'
  <1> USE DEF Procs, Submitters
  <1>1. (w["corrective"].i \in Correctives \cup {Nobody})'
    BY DEF CloseOK, Others
  <1>2. \A q \in Submitters : w'[q].i \in Closes => w'[q].i = w[q].i
    BY DEF Others
  <1>3. \A q \in Submitters : (w[q].i \in Closes => Pending(q))'
    <2> TAKE q \in Submitters
    <2>1. CASE q = p
      BY <2>1
    <2>2. CASE q # p
      BY <2>2, <1>2 DEF CloseOK, Others, Pending
    <2> QED BY <2>1, <2>2
  <1>4. w'["lifecycle"] = w["lifecycle"]
    BY DEF Others
  <1>5. (\A q, r \in Submitters : w[q].i \in Closes /\ w[q].i = w[r].i => q = r)'
    BY <1>2 DEF CloseOK
  <1>6. (\A i, j \in Closes :
           intent[i].st \in ActiveClose /\ intent[j].st \in ActiveClose => i = j)'
    BY DEF CloseOK
  <1>7. (w["lifecycle"].pc \in {"recover", "absent"} /\ w["lifecycle"].i \in Closes
          => /\ intent[w["lifecycle"].i].st = "submitting"
             /\ \A q \in Submitters : w[q].i # w["lifecycle"].i)'
    BY <1>2, <1>4 DEF CloseOK
  <1>8. (w["lifecycle"].pc \in {"syncRow", "syncIntent"} /\ w["lifecycle"].i \in Closes
          => /\ intent[w["lifecycle"].i].st \notin {"none", "submitting"}
             /\ \A q \in Submitters : w[q].i # w["lifecycle"].i)'
    BY <1>2, <1>4 DEF CloseOK
  <1>9. (\A c \in Cids : row[c].by \in Closes
           => /\ c = "close" /\ intent[row[c].by].st # "none"
              /\ \A q \in Submitters : w[q].i # row[c].by)'
    BY <1>2 DEF CloseOK
  <1> QED BY <1>1, <1>3, <1>5, <1>6, <1>7, <1>8, <1>9 DEF CloseOK

(* Such a step also leaves a working close order known, if it does not     *)
(* start on an intent that accounts for one.                               *)
LEMMA KnownKeeps ==
  ASSUME KnownOK, NEW p \in Submitters, Others(p),
         \A i \in Closes : intent'[i] = intent[i],
         row'["close"].st = row["close"].st,
         Prompt("close")' => Prompt("close"),
         w'[p].i \in Closes => w'[p].i = w[p].i /\ w[p].pc # "done"
  PROVE  KnownOK'
  <1> USE DEF Procs, Submitters
  <1>1. \A q \in Submitters : w'[q].i \in Closes => w'[q].i = w[q].i
    BY DEF Others
  <1>2. ASSUME NEW i \in Closes, Accounts(i) PROVE Accounts(i)'
    <2>1. w[p].i = i => w'[p].i # i
      BY <1>2 DEF Accounts
    <2>2. \A q \in Submitters : w'[q].i = i => w'[q] = w[q]
      BY <1>1, <2>1 DEF Others
    <2>3. w'["lifecycle"] = w["lifecycle"]
      BY DEF Others
    <2> QED BY <1>2, <2>1, <2>2, <2>3 DEF Accounts
  <1> QED BY <1>2 DEF KnownOK

(* A step of one submitter that writes its own record, the lock and the    *)
(* attention.                                                              *)
LEMMA OwnStep ==
  ASSUME IInv, NEW p \in Submitters, Others(p), w' \in [Procs -> Process],
         UNCHANGED <<pos, intent, row, xs, fills, ord, held, profile, cancels>>,
         attn' \in Attention, sent' \subseteq Intents, faults' \in 0..MaxFaults, lock' \in Submitters \cup {Nobody},
         LockOK', VerifyOK', SeenTrue(p)',
         p = "evaluator" => Protects',
         p = "evaluator" /\ w'[p].pc = "protRead" => ord["trail"].st # "none",
         w'[p].pc \in Submitting => w'[p].i \in Intents,
         p # "corrective" /\ w'[p].pc \in Claimed => pos.qty <= w'[p].loc,
         p = "corrective" => w'[p].i \in Correctives \cup {Nobody},
         w'[p].i \in Closes => w'[p].i = w[p].i /\ w[p].pc # "done" /\ Pending(p)'
  PROVE  IInv'
  <1> USE DEF IInv
  <1>1. TypeOK'
    BY DEF TypeOK
  <1>2. OrdersOK' /\ BusyOK'
    BY SameOrders DEF BusyOK, Others, Procs, Submitters
  <1>9. TrailOK'
    BY DEF TrailOK, Protects, Others, Procs, Submitters
  <1>3. LocalOK'
    BY LocalKeeps
  <1>4. p \in Procs
    BY DEF Procs
  <1>5. RowsTrue' /\ StateTrue'
    BY DEF EvidenceOK, RowsTrue, StateTrue, True
  <1>6. EvidenceOK'
    BY <1>4, <1>5, EvidenceKeeps
  <1>7. CloseOK'
    BY CloseKeeps
  <1>8. KnownOK'
    BY KnownKeeps DEF Prompt, Working
  <1> QED BY <1>1, <1>2, <1>3, <1>6, <1>7, <1>8, <1>9

-----------------------------------------------------------------------------
(* verified-exit-submission.service *)

(* A fault is counted. *)
LEMMA FaultStep ==
  ASSUME TypeOK, Fault
  PROVE  faults' \in 0..MaxFaults
  BY ExitAssumption DEF TypeOK, Fault

(* What a process that is not done with a close says of its intent. *)
LEMMA PendingSame ==
  ASSUME IInv, NEW p \in Submitters, intent' = intent, w'[p].i = w[p].i, w'[p].i \in Closes,
         w[p].pc \notin {"xAttention", "done"}
  PROVE  Pending(p)'
  BY DEF IInv, CloseOK, Pending

(* A submitter's own id stays a corrective's or another's. *)
LEMMA SameOwner ==
  ASSUME IInv, NEW p \in Submitters, w'[p].i = w[p].i
  PROVE  p = "corrective" => w'[p].i \in Correctives \cup {Nobody}
  BY DEF IInv, CloseOK

(* The end of a call, with a status that the broker's order has if any. *)
LEMMA EndedKeeps ==
  ASSUME IInv, NEW p \in Submitters, NEW out \in Outcomes,
         NEW seen \in OrderStatuses \cup {"none"},
         Ended(p, out, seen),
         UNCHANGED <<pos, intent, row, xs, fills, ord, held, profile, cancels>>,
         attn' \in Attention, sent' \subseteq Intents, faults' \in 0..MaxFaults,
         w[p].pc \in {"xLock", "xFind", "xOrders", "xPost", "xAttention"},
         w[p].pc = "xLock" => lock = Nobody \/ lock' = lock,
         w[p].pc = "xAttention" => out \in {"verify", "verify503"},
         Leave(p) \/ (lock' = lock /\ w[p].pc = "xLock"),
         seen \in OrderStatuses => Cid(w[p].i) \in Cids /\ seen = ord[Cid(w[p].i)].st,
         out \in {"sent", "found"} => seen \in OrderStatuses
  PROVE  IInv'
  <1>1. p \in Procs /\ TypeOK
    BY DEF IInv, Procs
  <1>2. /\ w' \in [Procs -> Process] /\ Others(p)
        /\ w'[p] = [Idle EXCEPT !.pc = "done", !.i = w[p].i, !.out = out, !.seen = seen]
    BY <1>1, EndedStep
  <1>3. w'[p].pc = "done" /\ w'[p].i = w[p].i /\ w'[p].out = out /\ w'[p].seen = seen
    BY <1>2 DEF Idle
  <1>4. lock' \in Submitters \cup {Nobody}
    BY <1>1 DEF TypeOK, Leave
  <1>5. LockOK
    BY DEF IInv
  <1>6. \A q \in Submitters \ {p} : lock = q => lock' = q
    BY <1>5, IdentityAssumption DEF Leave, LockOK, Verifying, Corrective, Procs
  <1>7. p = "corrective" => lock' = p
    BY <1>5 DEF Leave, LockOK, Verifying, Corrective
  <1>8. LockOK'
    BY <1>2, <1>3, <1>5, <1>6, <1>7, LockKeeps DEF Verifying
  <1>9. VerifyOK'
    BY <1>1, <1>2, <1>3, VerifyKeeps DEF IInv
  <1>10. SeenTrue(p)'
    <2>1. w[p].i = Nobody => Cid(w[p].i) \notin Cids
      BY IdentityAssumption DEF Cid, Intents, Cids
    <2> QED BY <1>3, <2>1 DEF SeenTrue, True, SeenCid, OrderStatuses, Terminal
  <1>11. w'[p].i \in Closes => Pending(p)'
    BY <1>3 DEF IInv, CloseOK, Pending
  <1>12. w'[p].i \in Intents
    BY <1>3 DEF IInv, BusyOK, Submitting, Verifying
  <1> QED
    BY <1>2, <1>3, <1>4, <1>8, <1>9, <1>10, <1>11, <1>12, SameOwner, OwnStep
    DEF Protects, Claimed, Submitting, Verifying


(* A refusal leaves the lock with the submitter. *)
LEMMA RefuseKeeps ==
  ASSUME IInv, NEW p \in Submitters, Refuse(p),
         UNCHANGED <<pos, intent, row, xs, attn, fills, ord, held, sent, profile, cancels>>,
         faults' \in 0..MaxFaults, lock' = p,
         w[p].pc \in {"xLock", "xFind", "xPos", "xOrders"},
         w[p].pc = "xLock" => lock = Nobody
  PROVE  IInv'
  <1>1. p \in Procs /\ TypeOK
    BY DEF IInv, Procs
  <1>2. /\ w' \in [Procs -> Process] /\ Others(p)
        /\ w'[p] = [Idle EXCEPT !.pc = "xBlock", !.i = w[p].i]
    BY <1>1, RefuseStep
  <1>3. w'[p].pc = "xBlock" /\ w'[p].i = w[p].i /\ w'[p].seen = "none"
    BY <1>2 DEF Idle
  <1>4. LockOK
    BY DEF IInv
  <1>5. \A q \in Submitters \ {p} : lock = q => lock' = q
    BY <1>4, IdentityAssumption DEF LockOK, Verifying, Procs
  <1>6. LockOK'
    BY <1>2, <1>3, <1>4, <1>5, LockKeeps
  <1>7. VerifyOK'
    BY <1>1, <1>2, <1>3, VerifyKeeps DEF IInv
  <1>8. SeenTrue(p)'
    BY <1>3 DEF SeenTrue, True, OrderStatuses, Terminal
  <1>9. w'[p].i \in Closes => Pending(p)'
    BY <1>3, PendingSame
  <1>10. w[p].i \in Intents
    BY DEF IInv, BusyOK, Submitting, Verifying
  <1> QED
    BY <1>1, <1>2, <1>3, <1>6, <1>7, <1>8, <1>9, <1>10, SameOwner, OwnStep
    DEF Protects, Claimed, TypeOK

(* The recovery by client id, whoever holds the lock. *)
LEMMA RecoverKeeps ==
  ASSUME IInv, NEW p \in Submitters, xRecover(p),
         UNCHANGED <<pos, intent, row, xs, attn, fills, ord, held, sent, profile, cancels>>,
         (w[p].pc = "xLock" /\ lock = Nobody) \/ w[p].pc = "xFind"
  PROVE  IInv'
  <1> DEFINE c == Cid(w[p].i)
  <1>1. p \in Procs /\ TypeOK /\ LockOK /\ w[p] \in Process
    BY DEF IInv, Procs, TypeOK
  <1>2. w[p].i \in Intents /\ c \in Cids
    BY DEF IInv, BusyOK, Submitting, Verifying, Cid, Intents, Cids
  <1>3. attn' \in Attention /\ sent' \subseteq Intents /\ faults \in 0..MaxFaults
    BY <1>1 DEF TypeOK
  <1>4. CASE Ended(p, "local", "none") /\ Leave(p) /\ UNCHANGED faults
    BY <1>1, <1>3, <1>4, EndedKeeps DEF Outcomes, OrderStatuses
  <1>5. CASE Fault /\ Refuse(p) /\ lock' = p
    BY <1>1, <1>5, FaultStep, RefuseKeeps
  <1>6. CASE ord[c].st # "none" /\ Ended(p, "found", ord[c].st) /\ Leave(p) /\ UNCHANGED faults
    <2> DEFINE st == ord[c].st
    <2>1. st \in OrderStatuses
      BY <1>1, <1>2, <1>6 DEF TypeOK, BrokerOrder
    <2>2. st = ord[Cid(w[p].i)].st /\ Cid(w[p].i) \in Cids /\ Ended(p, "found", st)
      BY <1>2, <1>6
    <2> HIDE DEF st, c
    <2> QED BY <1>1, <1>3, <1>6, <2>1, <2>2, EndedKeeps DEF Outcomes
  <1>7. CASE Goto(p, "xPos") /\ lock' = p /\ UNCHANGED faults
    <2>1. /\ w' \in [Procs -> Process] /\ Others(p)
          /\ w'[p] = [w[p] EXCEPT !.pc = "xPos"]
      BY <1>1, <1>7, GotoStep DEF Steps
    <2>2. /\ w'[p].pc = "xPos" /\ w'[p].i = w[p].i /\ w'[p].seen = w[p].seen
          /\ w'[p].loc = w[p].loc
      BY <1>1, <2>1 DEF Process
    <2>3. \A q \in Submitters \ {p} : lock = q => lock' = q
      BY <1>1, IdentityAssumption DEF LockOK, Verifying, Procs
    <2>4. LockOK'
      BY <1>1, <1>7, <2>1, <2>2, <2>3, LockKeeps
    <2>5. VerifyOK'
      BY <1>1, <2>1, <2>2, VerifyKeeps DEF IInv
    <2>6. SeenTrue(p)'
      BY <1>1, <2>2 DEF IInv, EvidenceOK, SeenTrue, True, SeenCid, OrderStatuses
    <2>7. w'[p].i \in Closes => Pending(p)'
      BY <2>2, PendingSame
    <2>8. p # "corrective" => pos.qty <= w'[p].loc
      BY <1>1, <2>2 DEF IInv, LocalOK, Claimed, LockOK
    <2> QED
      BY <1>1, <1>2, <1>3, <1>7, <2>1, <2>2, <2>4, <2>5, <2>6, <2>7, <2>8, SameOwner, OwnStep DEF Protects
  <1> QED BY <1>4, <1>5, <1>6, <1>7 DEF xRecover

(* submitVerifiedExit and its corrective variant *)
LEMMA SubmitKeeps ==
  ASSUME IInv, NEW p \in Submitters, submitVerifiedExit(p) \/ submitVerifiedCorrectiveExit(p)
  PROVE  IInv'
  <1>1. CASE At(p, "xLock") /\ lock # Nobody /\ Ended(p, "error", "none")
             /\ UNCHANGED <<lock, faults, pos, intent, row, xs, attn, fills, ord, held, sent,
                            profile, cancels>>
    <2>1. /\ attn' \in Attention /\ sent' \subseteq Intents /\ faults' \in 0..MaxFaults
      BY <1>1 DEF IInv, TypeOK
    <2> QED BY <1>1, <2>1, EndedKeeps DEF Outcomes, OrderStatuses, At
  <1> QED
    BY <1>1, RecoverKeeps DEF submitVerifiedExit, submitVerifiedCorrectiveExit, At


(* There are five client order ids at most. *)
LEMMA FewCids ==
  /\ Cids \subseteq {"close", "trail", "corrective-r1", "corrective-r2", "corrective-r3"}
  /\ "close" \in Cids /\ "trail" \in Cids /\ Correctives \subseteq Cids
  /\ "close" \notin Correctives /\ "trail" \notin Correctives
  BY ExitAssumption DEF Cids, Correctives, AttemptId

(* A sum of naturals is zero when each of them is. *)
LEMMA TotalZero ==
  ASSUME NEW f \in [Cids -> Nat]
  PROVE  Total(f) \in Nat /\ (Total(f) = 0 <=> \A c \in Cids : f[c] = 0)
  <1> DEFINE Of(c) == IF c \in Cids THEN f[c] ELSE 0
  <1>1. \A c : Of(c) \in Nat
    OBVIOUS
  <1>2. Total(f) = Of("close") + Of("trail") + Of("corrective-r1") + Of("corrective-r2")
                     + Of("corrective-r3")
    BY DEF Total
  <1>3. (\A c \in Cids : f[c] = 0)
          <=> /\ Of("close") = 0 /\ Of("trail") = 0 /\ Of("corrective-r1") = 0
              /\ Of("corrective-r2") = 0 /\ Of("corrective-r3") = 0
    BY FewCids
  <1> HIDE DEF Of
  <1> QED BY <1>1, <1>2, <1>3

(* Nothing is reserved exactly when nothing works. *)
LEMMA ReservedZero ==
  ASSUME TypeOK, OrdersOK
  PROVE  Reserved \in Nat /\ (Reserved = 0 <=> NoneWorking)
  <1> DEFINE f == [c \in Cids |-> Remaining(c)]
  <1>1. \A c \in Cids : Remaining(c) \in Nat /\ (Remaining(c) = 0 <=> ~ Working(c))
    <2> TAKE c \in Cids
    <2>1. ord[c].qty \in Nat /\ ord[c].done \in Nat
      BY ExitAssumption DEF TypeOK, BrokerOrder
    <2>2. Working(c) => ord[c].done < ord[c].qty
      BY DEF OrdersOK
    <2> HIDE DEF f
    <2> QED BY <2>1, <2>2 DEF Remaining
  <1>2. f \in [Cids -> Nat] /\ \A c \in Cids : f[c] = Remaining(c)
    BY <1>1
  <1>3. Reserved = Total(f)
    BY DEF Reserved
  <1> HIDE DEF f
  <1> QED BY <1>1, <1>2, <1>3, TotalZero DEF NoneWorking

(* Late orders sold a number of shares. *)
LEMMA LateNat ==
  ASSUME TypeOK
  PROVE  LateDone \in Nat
  <1> DEFINE f == [c \in Cids |-> IF ord[c].late THEN ord[c].done ELSE 0]
  <1>1. \A c \in Cids : ord[c].done \in Nat
    BY ExitAssumption DEF TypeOK, BrokerOrder
  <1>2. f \in [Cids -> Nat] /\ LateDone = Total(f)
    BY <1>1 DEF LateDone
  <1> HIDE DEF f
  <1> QED BY <1>2, TotalZero

(* They sold as many as before when each did. *)
LEMMA LateSame ==
  ASSUME \A c \in Cids : (IF ord[c].late THEN ord[c].done ELSE 0)'
                          = IF ord[c].late THEN ord[c].done ELSE 0
  PROVE  LateDone' = LateDone
  <1>1. [c \in Cids |-> IF ord[c].late THEN ord[c].done ELSE 0]'
          = [c \in Cids |-> IF ord[c].late THEN ord[c].done ELSE 0]
    OBVIOUS
  <1> QED BY <1>1 DEF LateDone

(* The position is read: if all of it is available nothing works. *)
LEMMA ReadKeeps ==
  ASSUME IInv, NEW p \in Submitters, xReadPosition(p)
  PROVE  IInv'
  <1>1. p \in Procs /\ TypeOK /\ LockOK /\ OrdersOK /\ w[p] \in Process /\ w[p].pc = "xPos"
    BY DEF IInv, Procs, TypeOK, xReadPosition, At
  <1>2. /\ attn' \in Attention /\ sent' \subseteq Intents /\ faults \in 0..MaxFaults
        /\ lock' = p
    BY <1>1 DEF TypeOK, xReadPosition, LockOK, Verifying
  <1>3. CASE Fault /\ Refuse(p)
    BY <1>1, <1>2, <1>3, FaultStep, RefuseKeeps DEF xReadPosition
  <1>4. CASE /\ w' = [w EXCEPT ![p].pc = "xOrders", ![p].h = held, ![p].a = Available]
             /\ UNCHANGED faults
    <2> DEFINE av == Available
               v == [w[p] EXCEPT !.pc = "xOrders", !.h = held, !.a = av]
    <2>1. held \in Int /\ av \in Int /\ (av = held => Verified(held))
      BY <1>1, ReservedZero, LateNat DEF TypeOK, Available, Verified, Budget, NonePrompt, Prompt,
         NoneWorking
    <2>2. w' = [w EXCEPT ![p] = v]
      BY <1>1, <1>4 DEF TypeOK
    <2> HIDE DEF av
    <2>3. v \in Process
      BY <1>1, <2>1 DEF Process, Steps
    <2>4. /\ v.pc = "xOrders" /\ v.h = held /\ v.a = av /\ v.i = w[p].i /\ v.seen = w[p].seen
          /\ v.loc = w[p].loc
      BY <1>1 DEF Process
    <2> HIDE DEF v
    <2>5. w' \in [Procs -> Process] /\ w'[p] = v /\ Others(p)
      BY <1>1, <2>2, <2>3, Assign DEF TypeOK
    <2>6. LockOK'
      BY <1>1, <1>2, <2>4, <2>5, LockKeeps DEF LockOK, Verifying
    <2>7. VerifyOK'
      BY <1>1, <2>1, <2>4, <2>5, VerifyKeeps DEF IInv, xReadPosition
    <2>8. SeenTrue(p)'
      BY <1>1, <2>4, <2>5
      DEF IInv, EvidenceOK, SeenTrue, True, SeenCid, OrderStatuses, xReadPosition
    <2>9. w'[p].i \in Closes => Pending(p)'
      BY <1>1, <2>4, <2>5, PendingSame DEF xReadPosition
    <2>10. p # "corrective" => pos.qty <= w'[p].loc
      BY <1>1, <2>4, <2>5 DEF IInv, LocalOK, Claimed
    <2>11. w'[p].i \in Intents
      BY <1>1, <2>4, <2>5 DEF IInv, BusyOK, Submitting, Verifying
    <2> QED
      BY <1>1, <1>2, <1>4, <2>4, <2>5, <2>6, <2>7, <2>8, <2>9, <2>10, <2>11, SameOwner, OwnStep
      DEF Protects, xReadPosition
  <1> QED BY <1>3, <1>4 DEF xReadPosition

(* The verification: what it passes was read of a position that did not    *)
(* move since.                                                             *)
LEMMA VerifiedHolds ==
  ASSUME IInv, NEW p \in Submitters, At(p, "xOrders"), ExitVerified(p)
  PROVE  w[p].q > 0 /\ Verified(w[p].q)
  BY DEF IInv, VerifyOK, At, ExitVerified, QuantityVerified, FullyAvailable

(* An attention that was resolved. *)
LEMMA ResolvedType ==
  ASSUME TypeOK
  PROVE  attn \in Attention /\ [attn EXCEPT !.open = FALSE] \in Attention
  BY DEF TypeOK, Attention

(* The verification passes, or is refused. *)
LEMMA VerificationKeeps ==
  ASSUME IInv, NEW p \in Submitters, xVerify(p)
  PROVE  IInv'
  <1>1. p \in Procs /\ TypeOK /\ LockOK /\ w[p] \in Process /\ w[p].pc = "xOrders"
    BY DEF IInv, Procs, TypeOK, xVerify, At
  <1>2. /\ sent' \subseteq Intents /\ faults \in 0..MaxFaults /\ lock = p
    BY <1>1 DEF TypeOK, xVerify, LockOK, Verifying
  <1>3. /\ UNCHANGED <<pos, intent, row, xs, fills, ord, held, sent, profile, cancels>>
    BY DEF xVerify
  <1>4. CASE Refuse(p) /\ UNCHANGED <<attn, lock>> /\ (Fault \/ UNCHANGED faults)
    <2>1. faults' \in 0..MaxFaults
      BY <1>1, <1>2, <1>4, FaultStep
    <2> QED BY <1>1, <1>2, <1>3, <1>4, <2>1, RefuseKeeps
  <1>5. CASE Fault /\ Ended(p, "error", "none") /\ Leave(p) /\ UNCHANGED attn
    <2>1. faults' \in 0..MaxFaults /\ attn' \in Attention
      BY <1>1, <1>5, FaultStep, ResolvedType
    <2> QED BY <1>1, <1>2, <1>3, <1>5, <2>1, EndedKeeps DEF Outcomes, OrderStatuses
  <1>6. CASE /\ ExitVerified(p) /\ UNCHANGED <<lock, faults>>
             /\ w' = [w EXCEPT ![p] = [Idle EXCEPT !.pc = "xPost", !.i = w[p].i, !.q = w[p].q]]
             /\ attn' = IF Corrective(p) THEN attn ELSE [attn EXCEPT !.open = FALSE]
    <2> DEFINE v == [Idle EXCEPT !.pc = "xPost", !.i = w[p].i, !.q = w[p].q]
    <2>1. v \in Process
      BY <1>1, IdleType DEF Process, Steps, Idle
    <2>2. v.pc = "xPost" /\ v.i = w[p].i /\ v.q = w[p].q /\ v.seen = "none"
      BY DEF Idle
    <2>3. w' = [w EXCEPT ![p] = v]
      BY <1>6
    <2> HIDE DEF v
    <2>5. w' \in [Procs -> Process] /\ w'[p] = v /\ Others(p)
      BY <1>1, <2>1, <2>3, Assign DEF TypeOK
    <2>6. LockOK'
      BY <1>1, <1>2, <1>6, <2>2, <2>5, LockKeeps DEF LockOK, Verifying
    <2>7. VerifyOK'
      <3>1. w[p].q > 0 /\ Verified(w[p].q)
        BY <1>1, <1>6, VerifiedHolds DEF At
      <3> QED BY <1>1, <1>3, <2>2, <2>5, <3>1, VerifyKeeps DEF IInv
    <2>8. SeenTrue(p)'
      BY <2>2, <2>5 DEF SeenTrue, True, OrderStatuses, Terminal
    <2>9. w'[p].i \in Closes => Pending(p)'
      BY <1>1, <1>3, <2>2, <2>5, PendingSame
    <2>10. w'[p].i \in Intents
      BY <1>1, <2>2, <2>5 DEF IInv, BusyOK, Submitting, Verifying
    <2>11. attn' \in Attention
      BY <1>1, <1>6, ResolvedType
    <2> QED
      BY <1>1, <1>2, <1>3, <1>6, <2>2, <2>5, <2>6, <2>7, <2>8, <2>9, <2>10, <2>11, SameOwner,
         OwnStep DEF Protects, Claimed
  <1> QED BY <1>4, <1>5, <1>6 DEF xVerify


(* A POST that reaches the broker: p held the lock, no prompt order works, *)
(* and what it sells is what is held. The order is accepted, or the        *)
(* request left on its way. The intent accounts for an accepted order      *)
(* until there is a row.                                                   *)
LEMMA AcceptKeeps ==
  ASSUME IInv, NEW p \in Submitters, At(p, "xPost"),
         NEW out \in {"sent", "uncertain", "rejected"}, NEW seen \in {"new", "none"},
         Ended(p, out, seen), out = "sent" => seen = "new",
         \/ Accept(Cid(w[p].i), w[p].q) /\ out # "rejected"
         \/ Travel(Cid(w[p].i), w[p].q) /\ seen = "none",
         sent' = sent \cup {w[p].i}, faults' \in 0..MaxFaults,
         Leave(p), UNCHANGED <<pos, intent, row, xs, attn, fills, held, profile, cancels>>
  PROVE  IInv'
  <1>0. PICK i \in Intents : i = w[p].i
    BY DEF IInv, At, BusyOK, Submitting, Verifying
  <1>c. PICK c \in Cids : c = Cid(i)
    BY DEF Cid, Intents, Cids
  <1>1. /\ p \in Procs /\ TypeOK /\ LockOK /\ w[p] \in Process /\ w[p].pc = "xPost" /\ lock = p
        /\ i # Nobody /\ OrdersOK
    BY IdentityAssumption DEF IInv, Procs, TypeOK, At, Verifying, LockOK
  <1>q. PICK q \in 1..Qty : q = w[p].q
    <2>1. w[p].q \in 0..Qty /\ w[p].q > 0
      BY <1>1 DEF IInv, VerifyOK, Process
    <2> QED BY <2>1, ExitAssumption
  <1>2. Verified(q)
    BY <1>1, <1>q DEF IInv, VerifyOK
  <1>4. /\ w' \in [Procs -> Process] /\ Others(p)
        /\ w'[p] = [Idle EXCEPT !.pc = "done", !.i = w[p].i, !.out = out, !.seen = seen]
    <2>1. out \in Outcomes /\ seen \in OrderStatuses \cup {"none"}
      BY DEF Outcomes, OrderStatuses
    <2> QED BY <1>1, <2>1, EndedStep
  <1>5. w'[p].pc = "done" /\ w'[p].i = i /\ w'[p].out = out /\ w'[p].seen = seen
    BY <1>0, <1>4 DEF Idle
  <1>6. lock' \in Submitters \cup {Nobody} /\ (p = "corrective" => lock' = p)
    BY <1>1 DEF Leave, Corrective
  <1>7. /\ ord[c].st = "none" /\ ord[c].done = 0
        /\ ord' \in [Cids -> BrokerOrder] /\ \A d \in Cids \ {c} : ord'[d] = ord[d]
        /\ ord'[c].done = 0
        /\ \/ /\ ord'[c].st = "new" /\ ord'[c].qty = q /\ ~ord'[c].late /\ ord'[c].wire = {}
              /\ out # "rejected"
           \/ ord'[c].st = "none" /\ seen = "none"
    <2>1. ord[c].st = "none" /\ ord[c].done = 0
      BY <1>0, <1>c, <1>1 DEF Accept, Travel, OrdersOK
    <2>2. ord[c] \in BrokerOrder /\ ord \in [Cids -> BrokerOrder] /\ q \in 0..Qty /\ 0 \in 0..Qty
      BY <1>1, ExitAssumption DEF TypeOK
    <2>3. CASE Accept(Cid(w[p].i), w[p].q) /\ out # "rejected"
      <3> DEFINE e == NewOrder(q, FALSE)
      <3>1. ord' = [ord EXCEPT ![c] = e]
        BY <1>0, <1>c, <1>q, <2>3 DEF Accept
      <3>2. /\ e \in BrokerOrder /\ e.st = "new" /\ e.qty = q /\ ~e.late /\ e.wire = {}
            /\ e.done = 0
        BY <2>2 DEF NewOrder, BrokerOrder, OrderStatuses
      <3> HIDE DEF e
      <3> QED BY <2>1, <2>2, <2>3, <3>1, <3>2
    <2>4. CASE Travel(Cid(w[p].i), w[p].q) /\ seen = "none"
      <3> DEFINE e == [ord[c] EXCEPT !.wire = @ \cup {q}]
      <3>1. ord' = [ord EXCEPT ![c] = e]
        BY <1>0, <1>c, <1>q, <2>2, <2>4 DEF Travel
      <3>2. e \in BrokerOrder /\ e.st = ord[c].st /\ e.done = ord[c].done
        BY <2>2 DEF BrokerOrder
      <3> HIDE DEF e
      <3> QED BY <2>1, <2>2, <2>4, <3>1, <3>2
    <2> QED BY <2>3, <2>4
  <1>8. TypeOK'
    BY <1>0, <1>1, <1>4, <1>6, <1>7 DEF TypeOK
  <1>9. LockOK'
    BY <1>1, <1>4, <1>5, <1>6, LockKeeps DEF LockOK, Verifying
  <1>10. BusyOK'
    BY <1>4, <1>5 DEF IInv, BusyOK, Submitting, Verifying, Others, Procs, Submitters
  <1>20. TrailOK'
    BY <1>4, <1>5, <1>7, FewCids DEF IInv, TrailOK, Protects, Others, Procs, Submitters
  <1>21. LateDone' = LateDone /\ Budget' = Budget
    <2>1. LateDone' = LateDone
      BY <1>7, LateSame
    <2> QED BY <2>1 DEF Budget
  <1>11. \A d \in Cids : /\ d # c => (Working(d)' <=> Working(d)) /\ ~Prompt(d)'
                         /\ d = c /\ Working(d)' => /\ ord'[d].st = "new" /\ ord'[d].qty = q
                                                    /\ ord'[d].done = 0
    BY <1>2, <1>7 DEF Verified, NonePrompt, Prompt, Working, Nonterminal, OrderStatuses, Terminal
  <1>12. OrdersOK'
    <2>1. 0 <= Budget'
      BY <1>1, <1>21 DEF OrdersOK
    <2>2. \A d \in Cids : Working(d)' => ord'[d].done < ord'[d].qty
      BY <1>1, <1>7, <1>11 DEF OrdersOK
    <2>3. \A d \in Cids : Prompt(d)' => ord'[d].qty - ord'[d].done <= Budget'
      <3>1. \A d \in Cids : Prompt(d)' => d = c /\ Working(d)'
        BY <1>11 DEF Prompt
      <3>2. q - 0 <= Budget
        BY <1>2 DEF Verified
      <3> QED BY <1>11, <1>21, <3>1, <3>2
    <2>4. \A d, e \in Cids : Prompt(d)' /\ Prompt(e)' => d = e
      BY <1>11
    <2>5. \A d \in Cids : /\ ord'[d].wire # {} => ord'[d].st = "none"
                          /\ ord'[d].st = "none" => ord'[d].done = 0
      BY <1>1, <1>7 DEF OrdersOK
    <2> QED BY <2>1, <2>2, <2>3, <2>4, <2>5 DEF OrdersOK
  <1>13. VerifyOK'
    <2>1. \A r \in Submitters : w'[r].pc \notin {"xOrders", "xPost"}
      BY <1>1, <1>4, <1>5 DEF LockOK, Others, Procs, Verifying
    <2> QED BY <2>1 DEF VerifyOK
  <1>14. LocalOK'
    BY <1>4, <1>5, LocalKeeps DEF IInv, Claimed
  <1>15. \A d \in Cids : \A st : True(d, st) => True(d, st)'
    BY <1>7 DEF True, Terminal, OrderStatuses
  <1>16. EvidenceOK'
    <2>1. RowsTrue' /\ StateTrue'
      BY <1>15, FewCids DEF IInv, EvidenceOK, RowsTrue, StateTrue
    <2>2. ASSUME NEW r \in Procs \ {p} PROVE SeenTrue(r)'
      <3>1. SeenCid(r) \in Cids /\ SeenCid(r)' = SeenCid(r) /\ w'[r] = w[r]
        BY <1>1, <1>4, FewCids DEF Others, SeenCid, TypeOK, Process, Cid, Intents, Cids
      <3>2. SeenTrue(r)
        BY DEF IInv, EvidenceOK
      <3> QED BY <1>15, <3>1, <3>2 DEF SeenTrue
    <2>3. SeenTrue(p)'
      <3>1. SeenCid(p)' = c
        BY <1>c, <1>1, <1>5 DEF SeenCid
      <3> QED BY <1>5, <1>7, <3>1 DEF SeenTrue, True, OrderStatuses, Terminal
    <2> QED BY <2>1, <2>2, <2>3 DEF EvidenceOK
  <1>17. w[p].i \in Closes => intent[i].st = "submitting" /\ Pending(p)'
    BY <1>0, <1>1, <1>5 DEF IInv, CloseOK, Pending
  <1>18. CloseOK'
    BY <1>0, <1>4, <1>5, <1>17, SameOwner, CloseKeeps DEF IInv
  <1>19. KnownOK'
    <2>1. SUFFICES ASSUME Prompt("close")' PROVE KnownOK'
      BY DEF KnownOK
    <2>2. c = "close" /\ ord["close"].st = "none" /\ out # "rejected"
      BY <1>7, <1>11, <2>1, FewCids DEF Prompt, Working, Nonterminal, OrderStatuses, Terminal
    <2>3. i \in Closes
      BY <1>1, <2>2, FewCids, <1>c DEF Cid, Intents
    <2>4. row'["close"].st = "none"
      BY <1>1, <2>2, FewCids DEF IInv, EvidenceOK, RowsTrue, True, TypeOK, LocalOrder
    <2>5. Accounts(i)'
      <3>1. intent'[i].st = "submitting"
        BY <1>0, <1>17, <2>3
      <3>2. \A r \in Submitters : w'[r].i = i => r = p
        BY <1>0, <1>4, <2>3 DEF IInv, CloseOK, Others, Procs
      <3>3. w["lifecycle"].i = i => w["lifecycle"].pc \notin {"recover", "absent"}
        BY <1>0, <2>3 DEF IInv, CloseOK
      <3>4. w'["lifecycle"] = w["lifecycle"]
        BY <1>4 DEF Others, Procs, Submitters
      <3>5. \A r \in Submitters :
              w'[r].i = i => w'[r].pc = "done" /\ w'[r].out \in {"sent", "uncertain"}
        BY <1>5, <2>2, <3>2
      <3> QED BY <3>1, <3>3, <3>4, <3>5 DEF Accounts
    <2> QED BY <2>3, <2>4, <2>5 DEF KnownOK
  <1> QED
    BY <1>8, <1>9, <1>10, <1>12, <1>13, <1>14, <1>16, <1>18, <1>19, <1>20 DEF IInv

(* The POST, and the calls that do not reach the broker or find the id     *)
(* taken.                                                                  *)
LEMMA PostKeeps ==
  ASSUME IInv, NEW p \in Submitters, xPost(p)
  PROVE  IInv'
  <1> DEFINE c == Cid(w[p].i)
  <1>1. p \in Procs /\ TypeOK /\ w[p].pc = "xPost" /\ w[p].i \in Intents /\ c \in Cids
    BY DEF IInv, Procs, xPost, At, BusyOK, Submitting, Verifying, Cid, Intents, Cids
  <1>2. /\ Leave(p) /\ UNCHANGED <<pos, intent, row, xs, attn, fills, held, profile, cancels>>
        /\ attn' \in Attention /\ At(p, "xPost") /\ faults \in 0..MaxFaults
    BY <1>1 DEF xPost, TypeOK
  <1>3. sent' = IF w'[p].out \in {"notSent", "blocked", "error"} THEN sent ELSE sent \cup {w[p].i}
    BY DEF xPost
  <1>s. sent' \subseteq Intents
    BY <1>1, <1>3 DEF TypeOK
  <1>o. ASSUME NEW o \in Outcomes, NEW st \in OrderStatuses \cup {"none"}, Ended(p, o, st)
        PROVE  w'[p].out = o
    <2>1. w'[p] = [Idle EXCEPT !.pc = "done", !.i = w[p].i, !.out = o, !.seen = st]
      BY <1>1, <1>o DEF Ended, TypeOK
    <2> QED BY <2>1 DEF Idle
  <1>4. CASE /\ Accept(c, w[p].q) \/ Travel(c, w[p].q) \/ UNCHANGED ord
             /\ Fault /\ Ended(p, "uncertain", "none")
    <2>1. faults' \in 0..MaxFaults
      BY <1>1, <1>4, FaultStep
    <2>2. sent' = sent \cup {w[p].i}
      BY <1>3, <1>4, <1>o DEF Outcomes, OrderStatuses
    <2>3. CASE Accept(c, w[p].q) \/ Travel(c, w[p].q)
      BY <1>2, <1>4, <2>1, <2>2, <2>3, AcceptKeeps
    <2>4. CASE UNCHANGED ord
      BY <1>1, <1>2, <1>s, <1>4, <2>1, <2>4, EndedKeeps DEF Outcomes, OrderStatuses
    <2> QED BY <1>4, <2>3, <2>4
  <1>5. CASE Accept(c, w[p].q) /\ Ended(p, "sent", "new") /\ UNCHANGED faults
    <2>1. sent' = sent \cup {w[p].i}
      BY <1>3, <1>5, <1>o DEF Outcomes, OrderStatuses
    <2> QED BY <1>2, <1>5, <2>1, AcceptKeeps
  <1>6. CASE ord[c].st # "none" /\ UNCHANGED <<ord, faults>> /\ Ended(p, "found", ord[c].st)
    <2> DEFINE st == ord[c].st
    <2>1. st \in OrderStatuses /\ st = ord[Cid(w[p].i)].st /\ Cid(w[p].i) \in Cids
      BY <1>1, <1>6 DEF TypeOK, BrokerOrder
    <2>2. Ended(p, "found", st) /\ UNCHANGED <<ord, faults>>
      BY <1>6
    <2> HIDE DEF st, c
    <2> QED BY <1>1, <1>2, <1>s, <2>1, <2>2, EndedKeeps DEF Outcomes
  <1>7. CASE /\ ord[c].st = "none" /\ (Travel(c, w[p].q) \/ UNCHANGED ord)
             /\ Fault /\ Ended(p, "rejected", "none")
    <2>1. faults' \in 0..MaxFaults
      BY <1>1, <1>7, FaultStep
    <2>2. sent' = sent \cup {w[p].i}
      BY <1>3, <1>7, <1>o DEF Outcomes, OrderStatuses
    <2>3. CASE Travel(c, w[p].q)
      BY <1>2, <1>7, <2>1, <2>2, <2>3, AcceptKeeps
    <2>4. CASE UNCHANGED ord
      BY <1>1, <1>2, <1>s, <1>7, <2>1, <2>4, EndedKeeps DEF Outcomes, OrderStatuses
    <2> QED BY <1>7, <2>3, <2>4
  <1>8. CASE /\ Fault /\ UNCHANGED ord
             /\ \E o \in {"notSent", "blocked", "error"} : Ended(p, o, "none")
    <2>1. PICK o \in {"notSent", "blocked", "error"} : Ended(p, o, "none")
      BY <1>8
    <2>2. faults' \in 0..MaxFaults
      BY <1>1, <1>8, FaultStep
    <2> QED BY <1>1, <1>2, <1>s, <1>8, <2>1, <2>2, EndedKeeps DEF Outcomes, OrderStatuses
  <1> QED
    BY <1>4, <1>5, <1>6, <1>7, <1>8 DEF xPost


(* A submitter writes the intent it works on. *)
LEMMA CloseWrite ==
  ASSUME CloseOK, NEW p \in Submitters, Others(p), NEW i \in Intents, w[p].i = i,
         \A j \in Intents \ {i} : intent'[j] = intent[j],
         intent'[i].st \in ActiveClose => intent[i].st \in ActiveClose,
         intent'[i].st # "none",
         intent'[i].st = "submitting" => intent[i].st = "submitting",
         \A c \in Cids : row'[c].by \in Closes => \/ row'[c].by = row[c].by
                                                  \/ c = "close" /\ row'[c].by = i /\ w'[p].i # i,
         p = "corrective" => w'[p].i \in Correctives \cup {Nobody},
         w'[p].i \in Closes => w'[p].i = w[p].i /\ Pending(p)'
  PROVE  CloseOK'
  <1> USE DEF Procs, Submitters
  <1>0. Closes \subseteq Intents
    BY DEF Intents
  <1>1. (w["corrective"].i \in Correctives \cup {Nobody})'
    BY DEF CloseOK, Others
  <1>2. \A q \in Submitters : w'[q].i \in Closes => w'[q].i = w[q].i
    BY DEF Others
  <1>3. \A q \in Submitters : (w[q].i \in Closes => Pending(q))'
    <2> TAKE q \in Submitters
    <2>1. CASE q = p
      BY <2>1
    <2>2. CASE q # p /\ w'[q].i \in Closes
      <3>1. w'[q] = w[q] /\ w[q].i \in Closes /\ w[q].i # i
        BY <2>2 DEF CloseOK, Others
      <3>2. intent'[w[q].i] = intent[w[q].i]
        BY <1>0, <3>1
      <3> QED BY <3>1, <3>2 DEF CloseOK, Pending
    <2> QED BY <2>1, <2>2
  <1>4. w'["lifecycle"] = w["lifecycle"]
    BY DEF Others
  <1>5. (\A q, r \in Submitters : w[q].i \in Closes /\ w[q].i = w[r].i => q = r)'
    BY <1>2 DEF CloseOK
  <1>6. (\A j, k \in Closes :
           intent[j].st \in ActiveClose /\ intent[k].st \in ActiveClose => j = k)'
    BY <1>0 DEF CloseOK
  <1>7. (w["lifecycle"].pc \in {"recover", "absent"} /\ w["lifecycle"].i \in Closes
          => /\ intent[w["lifecycle"].i].st = "submitting"
             /\ \A q \in Submitters : w[q].i # w["lifecycle"].i)'
    BY <1>0, <1>2, <1>4 DEF CloseOK
  <1>8. (w["lifecycle"].pc \in {"syncRow", "syncIntent"} /\ w["lifecycle"].i \in Closes
          => /\ intent[w["lifecycle"].i].st \notin {"none", "submitting"}
             /\ \A q \in Submitters : w[q].i # w["lifecycle"].i)'
    BY <1>0, <1>2, <1>4 DEF CloseOK
  <1>9. (\A c \in Cids : row[c].by \in Closes
           => /\ c = "close" /\ intent[row[c].by].st # "none"
              /\ \A q \in Submitters : w[q].i # row[c].by)'
    <2> SUFFICES ASSUME NEW c \in Cids, row'[c].by \in Closes
                 PROVE  /\ c = "close" /\ intent'[row'[c].by].st # "none"
                        /\ \A q \in Submitters : w'[q].i # row'[c].by
      OBVIOUS
    <2>1. CASE row'[c].by = row[c].by
      BY <1>0, <1>2, <2>1 DEF CloseOK
    <2>2. CASE c = "close" /\ row'[c].by = i /\ w'[p].i # i
      BY <1>2, <2>2 DEF CloseOK, Others
    <2> QED BY <2>1, <2>2
  <1> QED BY <1>1, <1>3, <1>5, <1>6, <1>7, <1>8, <1>9 DEF CloseOK

(* ... and leaves a working close order known, if its intent does not      *)
(* account for it, or still does, or a row takes over.                     *)
LEMMA KnownWrite ==
  ASSUME KnownOK, NEW p \in Submitters, Others(p), NEW i \in Intents, w[p].i = i,
         \A j \in Intents \ {i} : intent'[j] = intent[j], ord' = ord,
         \/ /\ row'["close"].st = row["close"].st
            /\ Accounts(i) => Accounts(i)'
            /\ w'[p].i \in Closes => w'[p].i = i
         \/ Prompt("close") => row'["close"].st \in Nonterminal
  PROVE  KnownOK'
  <1> USE DEF Procs, Submitters
  <1>1. CASE Prompt("close") => row'["close"].st \in Nonterminal
    BY <1>1 DEF KnownOK, Prompt, Working
  <1>2. CASE /\ row'["close"].st = row["close"].st
             /\ Accounts(i) => Accounts(i)'
             /\ w'[p].i \in Closes => w'[p].i = i
    <2>1. ASSUME NEW j \in Closes, Accounts(j) PROVE Accounts(j)'
      <3>1. CASE j = i
        BY <1>2, <2>1, <3>1
      <3>2. CASE j # i
        <4>1. intent'[j] = intent[j] /\ w'["lifecycle"] = w["lifecycle"]
          BY <3>2 DEF Intents, Others
        <4>2. \A q \in Submitters : w'[q].i = j => w'[q] = w[q]
          BY <1>2, <3>2 DEF Others
        <4> QED BY <2>1, <4>1, <4>2 DEF Accounts
      <3> QED BY <3>1, <3>2
    <2> QED BY <1>2, <2>1 DEF KnownOK, Prompt, Working
  <1> QED BY <1>1, <1>2

(* block() marks the intent. *)
LEMMA BlockKeeps ==
  ASSUME IInv, NEW p \in Submitters, xBlock(p)
  PROVE  IInv'
  <1>0. PICK i \in Intents : i = w[p].i
    BY DEF IInv, xBlock, At, BusyOK, Submitting, Verifying
  <1>1. /\ p \in Procs /\ TypeOK /\ LockOK /\ w[p] \in Process /\ w[p].pc = "xBlock" /\ lock = p
    BY DEF IInv, Procs, TypeOK, xBlock, At, LockOK, Verifying
  <1>2. UNCHANGED <<pos, row, xs, attn, fills, lock, ord, held, sent, profile, faults, cancels>>
    BY DEF xBlock
  <1>3. /\ w' \in [Procs -> Process] /\ Others(p)
        /\ w'[p] = [w[p] EXCEPT !.pc = "xAttention"]
    BY <1>1, GotoStep DEF Steps, xBlock
  <1>4. w'[p].pc = "xAttention" /\ w'[p].i = i /\ w'[p].seen = w[p].seen
    BY <1>0, <1>1, <1>3 DEF Process
  <1>5. /\ intent' \in [Intents -> Intent] /\ intent'[i].st = "blocked"
        /\ \A j \in Intents \ {i} : intent'[j] = intent[j]
    <2> DEFINE e == [st |-> "blocked", why |-> "verification"]
    <2>1. e \in Intent
      BY DEF Intent
    <2>2. e.st = "blocked" /\ intent' = [intent EXCEPT ![i] = e]
      BY <1>0 DEF xBlock
    <2> HIDE DEF e
    <2> QED BY <1>1, <2>1, <2>2 DEF TypeOK
  <1>6. TypeOK'
    BY <1>1, <1>2, <1>3, <1>5 DEF TypeOK
  <1>7. LockOK'
    BY <1>1, <1>2, <1>3, <1>4, LockKeeps DEF Verifying, LockOK
  <1>8. BusyOK' /\ OrdersOK' /\ TrailOK'
    BY <1>2, <1>3, <1>4, SameOrders DEF IInv, BusyOK, Others, Procs, Submitters, TrailOK, Protects
  <1>9. VerifyOK'
    BY <1>1, <1>2, <1>3, <1>4, VerifyKeeps DEF IInv
  <1>10. LocalOK'
    BY <1>2, <1>3, <1>4, LocalKeeps DEF IInv, Claimed
  <1>11. EvidenceOK'
    <2>1. RowsTrue' /\ StateTrue' /\ SeenTrue(p)
      BY <1>1, <1>2 DEF IInv, EvidenceOK, RowsTrue, StateTrue, True
    <2>2. SeenTrue(p)'
      BY <1>0, <1>1, <1>2, <1>4, <2>1 DEF SeenTrue, True, SeenCid
    <2> QED BY <1>1, <1>2, <1>3, <2>1, <2>2, EvidenceKeeps DEF IInv
  <1>12. CloseOK'
    <2>1. intent'[w'[p].i].st = "blocked"
      BY <1>4, <1>5
    <2>2. Pending(p)'
      BY <1>4, <2>1 DEF Pending
    <2>3. p = "corrective" => w'[p].i \in Correctives \cup {Nobody}
      BY <1>0, <1>4, SameOwner
    <2>4. \A c \in Cids : row'[c].by \in Closes => row'[c].by = row[c].by
      BY <1>2
    <2> QED BY <1>0, <1>3, <1>4, <1>5, <2>2, <2>3, <2>4, CloseWrite DEF IInv, ActiveClose
  <1>13. KnownOK'
    <2>1. ~ Accounts(i)
      BY <1>0, <1>1 DEF Accounts
    <2> QED BY <1>0, <1>2, <1>3, <1>4, <1>5, <2>1, KnownWrite DEF IInv
  <1> QED BY <1>6, <1>7, <1>8, <1>9, <1>10, <1>11, <1>12, <1>13 DEF IInv

(* A further revision of the attention. *)
LEMMA ObservedType ==
  ASSUME TypeOK
  PROVE  Observed \in Attention
  BY ExitAssumption DEF TypeOK, Attention, Observed

(* The attention after a refusal. *)
LEMMA AttentionKeeps ==
  ASSUME IInv, NEW p \in Submitters, xAttention(p)
  PROVE  IInv'
  <1>1. p \in Procs /\ TypeOK /\ w[p].pc = "xAttention"
    BY DEF IInv, Procs, xAttention, At
  <1>2. /\ Leave(p) /\ UNCHANGED <<pos, intent, row, xs, fills, ord, held, sent, profile, cancels>>
        /\ sent \subseteq Intents /\ faults \in 0..MaxFaults /\ attn \in Attention
    BY <1>1 DEF xAttention, TypeOK
  <1>3. CASE attn' = Observed /\ Ended(p, "verify", "none") /\ UNCHANGED faults
    BY <1>1, <1>2, <1>3, ObservedType, EndedKeeps DEF Outcomes, OrderStatuses
  <1>4. CASE Fault /\ UNCHANGED attn /\ Ended(p, "verify503", "none")
    BY <1>1, <1>2, <1>4, FaultStep, EndedKeeps DEF Outcomes, OrderStatuses
  <1> QED BY <1>3, <1>4 DEF xAttention

(* The service as a whole. *)
LEMMA VerificationNextKeeps ==
  ASSUME IInv, VerificationNext
  PROVE  IInv'
  BY SubmitKeeps, ReadKeeps, VerificationKeeps, PostKeeps, BlockKeeps, AttentionKeeps
  DEF VerificationNext


-----------------------------------------------------------------------------
(* close-position.service *)

(* A close is claimed when nothing accounts for a working close order, so  *)
(* that none works.                                                        *)
LEMMA ClaimKeeps ==
  ASSUME IInv, NEW p \in {"owner", "evaluator"}, NEW i \in Closes, ClaimClose(p, i),
         UNCHANGED <<row, xs, attn, fills, lock, ord, held, sent, profile, faults, cancels>>
  PROVE  IInv'
  <1> DEFINE v == [Idle EXCEPT !.pc = "xLock", !.i = i, !.q = pos.qty, !.loc = pos.qty]
             e == [st |-> "submitting", why |-> "none"]
  <1>1. p \in Submitters /\ p \in Procs /\ p # "corrective" /\ TypeOK /\ i \in Intents
    BY DEF IInv, Procs, Submitters, Intents
  <1>2. pos.qty \in 0..Qty /\ pos.qty \in Int
    BY <1>1 DEF TypeOK, Position
  <1>3. v \in Process /\ v.pc = "xLock" /\ v.i = i /\ v.loc = pos.qty /\ v.seen = "none"
    BY <1>1, <1>2, IdleType DEF Process, Steps, Idle
  <1>4. e \in Intent /\ e.st = "submitting"
    BY DEF Intent
  <1>5. w' = [w EXCEPT ![p] = v] /\ intent' = [intent EXCEPT ![i] = e]
    BY DEF ClaimClose
  <1> HIDE DEF v, e
  <1>6. w' \in [Procs -> Process] /\ w'[p] = v /\ Others(p)
    BY <1>1, <1>3, <1>5, Assign DEF TypeOK
  <1>7. /\ intent' \in [Intents -> Intent] /\ intent'[i].st = "submitting"
        /\ \A j \in Intents \ {i} : intent'[j] = intent[j]
    BY <1>1, <1>4, <1>5 DEF TypeOK
  <1>8. pos' \in Position /\ pos'.qty = pos.qty /\ pos'.st # "closed" /\ pos.st # "closed"
    BY <1>1 DEF TypeOK, Position, ClaimClose, Closable
  <1>9. intent[i].st = "none" /\ \A j \in Closes : intent[j].st \notin ActiveClose
    BY DEF ClaimClose, Closable
  <1>10. ~ Prompt("close")
    BY FewCids DEF IInv, KnownOK, ClaimClose, Closable, Accounts, ActiveClose
  <1>11. TypeOK'
    BY <1>1, <1>6, <1>7, <1>8 DEF TypeOK
  <1>12. LockOK'
    BY <1>1, <1>3, <1>6, LockKeeps DEF Verifying, IInv
  <1>13. BusyOK' /\ OrdersOK' /\ TrailOK'
    BY <1>1, <1>3, <1>6, SameOrders DEF IInv, BusyOK, Others, Procs, Submitters, TrailOK, Protects
  <1>14. VerifyOK'
    BY <1>1, <1>3, <1>6, VerifyKeeps DEF IInv
  <1>15. LocalOK'
    BY <1>1, <1>2, <1>3, <1>6, <1>8, LocalKeeps DEF IInv
  <1>16. EvidenceOK'
    <2>1. RowsTrue' /\ StateTrue'
      BY <1>8 DEF IInv, EvidenceOK, RowsTrue, StateTrue, True
    <2>2. SeenTrue(p)'
      BY <1>3, <1>6 DEF SeenTrue, True, OrderStatuses, Terminal
    <2> QED BY <1>1, <1>6, <2>1, <2>2, EvidenceKeeps DEF IInv
  <1>17. CloseOK'
    <2> USE DEF Procs, Submitters
    <2>1. CloseOK /\ Closes \subseteq Intents
      BY DEF IInv, Intents
    <2>2. w'["lifecycle"] = w["lifecycle"] /\ w'["corrective"] = w["corrective"]
      BY <1>1, <1>6 DEF Others
    <2>3. \A q \in Submitters : w[q].i # i
      BY <1>9, <2>1 DEF CloseOK, Pending
    <2>4. \A q \in Submitters \ {p} : w'[q] = w[q] /\ w'[q].i # i
      BY <1>6, <2>3 DEF Others
    <2>5. \A q \in Submitters : (w[q].i \in Closes => Pending(q))'
      <3> TAKE q \in Submitters
      <3>1. CASE q = p
        BY <1>3, <1>6, <1>7, <3>1 DEF Pending
      <3>2. CASE q # p /\ w'[q].i \in Closes
        <4>1. intent'[w'[q].i] = intent[w[q].i]
          BY <1>7, <2>1, <2>4, <3>2
        <4> QED BY <2>1, <2>4, <3>2, <4>1 DEF CloseOK, Pending
      <3> QED BY <3>1, <3>2
    <2>6. (\A q, r \in Submitters : w[q].i \in Closes /\ w[q].i = w[r].i => q = r)'
      BY <1>3, <1>6, <2>1, <2>4 DEF CloseOK
    <2>7. (\A j, k \in Closes :
             intent[j].st \in ActiveClose /\ intent[k].st \in ActiveClose => j = k)'
      BY <1>7, <1>9, <2>1
    <2>8. (w["lifecycle"].pc \in {"recover", "absent"} /\ w["lifecycle"].i \in Closes
            => /\ intent[w["lifecycle"].i].st = "submitting"
               /\ \A q \in Submitters : w[q].i # w["lifecycle"].i)'
      BY <1>3, <1>6, <1>7, <1>9, <2>1, <2>2, <2>4 DEF CloseOK
    <2>9. (w["lifecycle"].pc \in {"syncRow", "syncIntent"} /\ w["lifecycle"].i \in Closes
            => /\ intent[w["lifecycle"].i].st \notin {"none", "submitting"}
               /\ \A q \in Submitters : w[q].i # w["lifecycle"].i)'
      BY <1>3, <1>6, <1>7, <1>9, <2>1, <2>2, <2>4 DEF CloseOK
    <2>10. (\A c \in Cids : row[c].by \in Closes
             => /\ c = "close" /\ intent[row[c].by].st # "none"
                /\ \A q \in Submitters : w[q].i # row[c].by)'
      BY <1>3, <1>6, <1>7, <1>9, <2>1, <2>4 DEF CloseOK
    <2> QED BY <2>1, <2>2, <2>5, <2>6, <2>7, <2>8, <2>9, <2>10 DEF CloseOK
  <1>18. KnownOK'
    BY <1>10 DEF KnownOK, Prompt, Working
  <1> QED
    BY <1>11, <1>12, <1>13, <1>14, <1>15, <1>16, <1>17, <1>18 DEF IInv

(* The owner's close. *)
LEMMA OwnerKeeps ==
  ASSUME IInv, NEW i \in Closes, OwnerClose(i)
  PROVE  IInv'
  BY ClaimKeeps DEF OwnerClose

(* A position that is released keeps its quantity. *)
LEMMA ReopenType ==
  ASSUME TypeOK
  PROVE  /\ Reopen \in Position /\ Reopen.qty = pos.qty
         /\ Reopen.st = "closed" <=> pos.st = "closed"
  BY DEF TypeOK, Position, Reopen


(* A step of one submitter that writes rows and changes no quantity. *)
LEMMA WriteStep ==
  ASSUME IInv, NEW p \in Submitters, Others(p), w' \in [Procs -> Process],
         UNCHANGED <<fills, ord, held, sent, profile, cancels>>,
         attn' \in Attention, faults' \in 0..MaxFaults, lock' \in Submitters \cup {Nobody},
         intent' \in [Intents -> Intent], row' \in [Cids -> LocalOrder], xs' \in ExitState,
         pos' \in Position, pos'.qty = pos.qty, pos'.st = "closed" <=> pos.st = "closed",
         LockOK', w'[p].pc \notin {"xOrders", "xPost"},
         w'[p].pc \in Submitting => w'[p].i \in Intents,
         p # "corrective" /\ w'[p].pc \in Claimed => pos.qty <= w'[p].loc,
         p = "evaluator" => Protects', w'[p].pc # "protRead",
         xs'.bid => xs.bid \/ ord["trail"].st # "none",
         RowsTrue', StateTrue', SeenTrue(p)', CloseOK', KnownOK'
  PROVE  IInv'
  <1> USE DEF IInv
  <1>1. TypeOK'
    BY DEF TypeOK
  <1>2. OrdersOK' /\ BusyOK'
    BY SameOrders DEF BusyOK, Others, Procs, Submitters
  <1>7. TrailOK'
    BY DEF TrailOK, Protects, Others, Procs, Submitters
  <1>3. LocalOK'
    BY LocalKeeps
  <1>4. p \in Procs
    BY DEF Procs
  <1>5. VerifyOK'
    BY <1>4, VerifyKeeps
  <1>6. EvidenceOK'
    BY <1>4, EvidenceKeeps
  <1> QED BY <1>1, <1>2, <1>3, <1>5, <1>6, <1>7

(* The end of closePosition. *)
LEMMA FinishCloseKeeps ==
  ASSUME IInv, NEW p \in Submitters, FinishClose(p)
  PROVE  IInv'
  <1>0. PICK i \in Closes : i = w[p].i
    BY DEF FinishClose
  <1>1. PICK out \in Outcomes \cup OrderStatuses, seen \in OrderStatuses \cup {"none", "again"} :
          out = w[p].out /\ seen = w[p].seen
    BY DEF IInv, TypeOK, Procs, Process
  <1>2. /\ p \in Procs /\ TypeOK /\ i \in Intents /\ w[p].pc = "done" /\ Cid(i) = "close"
        /\ p # "corrective" /\ i # Nobody
    BY <1>0, IdentityAssumption
    DEF IInv, Procs, Intents, FinishClose, At, Cid, CloseOK
  <1>3. w' \in [Procs -> Process] /\ Others(p) /\ w'[p] = Idle
    BY <1>2, StopStep DEF FinishClose
  <1>4. w'[p].pc = "idle" /\ w'[p].i = Nobody /\ w'[p].seen = "none"
    BY <1>3 DEF Idle
  <1>5. UNCHANGED <<xs, attn, fills, lock, ord, held, sent, profile, faults, cancels>>
    BY DEF FinishClose
  <1>6. /\ attn' \in Attention /\ faults' \in 0..MaxFaults /\ lock' \in Submitters \cup {Nobody}
        /\ xs' \in ExitState
    BY <1>2, <1>5 DEF TypeOK
  <1>7. LockOK'
    BY <1>2, <1>3, <1>4, <1>5, LockKeeps DEF IInv, Verifying
  <1>8. SeenTrue(p)'
    BY <1>4 DEF SeenTrue, True, OrderStatuses, Terminal
  <1>9. \/ intent[i].st = "submitting"
        \/ intent[i].st = "blocked" /\ out \in {"verify", "verify503"}
    BY <1>0, <1>1, <1>2 DEF IInv, CloseOK, Pending
  <1>10. intent[i] \in Intent /\ row["close"] \in LocalOrder
    BY <1>2, FewCids DEF TypeOK
  <1>11. PICK e \in Intent :
           /\ intent' = [intent EXCEPT ![i] = e]
           /\ \/ e.st = "submitted" /\ intent[i].st = "submitting"
              \/ e.st = intent[i].st
              \/ e.st \in {"blocked", "failed"}
           /\ out = "uncertain" => e.st = intent[i].st
    <2>1. CASE out = "local"
      <3> DEFINE f == [st |-> "submitted", why |-> "none"]
      <3>1. f \in Intent /\ f.st = "submitted"
        BY DEF Intent
      <3>2. intent' = [intent EXCEPT ![i] = f]
        BY <1>0, <1>1, <2>1 DEF FinishClose
      <3> HIDE DEF f
      <3> QED BY <1>9, <2>1, <3>1, <3>2
    <2>2. CASE out \in {"sent", "found"}
      <3> DEFINE f == [st |-> "submitted", why |-> "none"]
      <3>1. f \in Intent /\ f.st = "submitted"
        BY DEF Intent
      <3>2. intent' = [intent EXCEPT ![i] = f]
        BY <1>0, <1>1, <1>9, <2>2 DEF FinishClose
      <3> HIDE DEF f
      <3> QED BY <1>9, <2>2, <3>1, <3>2
    <2>3. CASE out \in {"verify", "verify503"}
      <3> DEFINE f == IF intent[i].st \in {"pending", "submitting"}
                      THEN [st |-> "blocked", why |-> "verification"] ELSE intent[i]
      <3>1. f \in Intent /\ (f.st = "blocked" \/ f.st = intent[i].st)
        BY <1>10 DEF Intent
      <3>2. intent' = [intent EXCEPT ![i] = f]
        BY <1>0, <1>1, <2>3 DEF FinishClose
      <3> HIDE DEF f
      <3> QED BY <2>3, <3>1, <3>2
    <2>4. CASE out \in {"notSent", "blocked", "rejected"}
      <3> DEFINE f == [st |-> Unsent(out), why |-> out]
      <3>1. f \in Intent /\ f.st \in {"blocked", "failed"}
        BY <2>4 DEF Intent, Unsent
      <3>2. intent' = [intent EXCEPT ![i] = f]
        BY <1>0, <1>1, <1>9, <2>4 DEF FinishClose
      <3> HIDE DEF f
      <3> QED BY <2>4, <3>1, <3>2
    <2>5. CASE out \in {"uncertain", "error"}
      <3> DEFINE f == [intent[i] EXCEPT !.why = "uncertain"]
      <3>1. f \in Intent /\ f.st = intent[i].st
        BY <1>10 DEF Intent
      <3>2. intent' = [intent EXCEPT ![i] = f]
        BY <1>0, <1>1, <1>2, <1>9, <2>5 DEF FinishClose, TypeOK
      <3> HIDE DEF f
      <3> QED BY <2>5, <3>1, <3>2
    <2> QED BY <1>0, <1>1, <2>1, <2>2, <2>3, <2>4, <2>5 DEF FinishClose
  <1>12. /\ intent' \in [Intents -> Intent] /\ intent'[i] = e
         /\ \A j \in Intents \ {i} : intent'[j] = intent[j]
    BY <1>2, <1>11 DEF TypeOK
  <1>13. pos' \in Position /\ pos'.qty = pos.qty /\ (pos'.st = "closed" <=> pos.st = "closed")
    BY <1>2, ReopenType DEF FinishClose, TypeOK
  <1>14. \/ row' = row /\ out \notin {"sent", "found"}
         \/ /\ row' = [row EXCEPT !["close"] = [st |-> seen, by |-> i]]
            /\ out \in {"sent", "found"} /\ seen \in OrderStatuses
    BY <1>0, <1>1, <1>2 DEF FinishClose, IInv, EvidenceOK, SeenTrue
  <1>15. True("close", seen)
    BY <1>0, <1>1, <1>2 DEF IInv, EvidenceOK, SeenTrue, SeenCid
  <1>16. row' \in [Cids -> LocalOrder] /\ RowsTrue'
    <2>1. CASE row' = row
      BY <1>2, <1>5, <2>1 DEF IInv, TypeOK, EvidenceOK, RowsTrue, True
    <2>2. CASE row' # row
      <3> DEFINE r == [st |-> seen, by |-> i]
      <3>1. r \in LocalOrder /\ r.st = seen /\ seen # "none"
        BY <1>2, <1>14, <2>2 DEF LocalOrder, OrderStatuses
      <3>2. row' = [row EXCEPT !["close"] = r]
        BY <1>14, <2>2
      <3> HIDE DEF r
      <3>3. /\ row' \in [Cids -> LocalOrder] /\ row'["close"] = r
            /\ \A c \in Cids \ {"close"} : row'[c] = row[c]
        BY <1>2, <3>1, <3>2, FewCids DEF TypeOK
      <3>4. \A c \in Cids : row'[c] = row[c] \/ (c = "close" /\ row'[c].st = seen)
        BY <3>1, <3>3
      <3> QED BY <1>5, <1>15, <3>1, <3>3, <3>4 DEF IInv, EvidenceOK, RowsTrue, True
    <2> QED BY <2>1, <2>2
  <1>17. StateTrue'
    BY <1>5, <1>13 DEF IInv, EvidenceOK, StateTrue, True
  <1>18. \A c \in Cids : row'[c].by = row[c].by \/ (c = "close" /\ row'[c].by = i)
    BY <1>2, <1>14, FewCids DEF TypeOK
  <1>19. CloseOK'
    <2>1. CloseOK /\ w'[p].i \notin Closes /\ w'[p].i # i
      BY <1>2, <1>4, IdentityAssumption DEF IInv, Intents
    <2>2. intent[i].st # "none"
      BY <1>9
    <2>3. /\ intent'[i].st \in ActiveClose => intent[i].st \in ActiveClose
          /\ intent'[i].st # "none"
          /\ intent'[i].st = "submitting" => intent[i].st = "submitting"
      BY <1>11, <1>12, <2>2 DEF ActiveClose
    <2> QED BY <1>0, <1>2, <1>3, <1>12, <1>18, <2>1, <2>3, CloseWrite
  <1>20. KnownOK'
    <2>1. KnownOK /\ w'[p].i \notin Closes /\ w'[p].i # i
      BY <1>2, <1>4, IdentityAssumption DEF IInv, Intents
    <2>2. CASE out \notin {"sent", "found"}
      <3>1. Accounts(i) => out = "uncertain"
        BY <1>0, <1>1, <2>2 DEF Accounts
      <3>2. Accounts(i) => Accounts(i)'
        BY <1>3, <1>11, <1>12, <2>1, <3>1 DEF Accounts, Others, Procs, Submitters
      <3> QED BY <1>0, <1>2, <1>3, <1>5, <1>12, <1>14, <2>1, <2>2, <3>2, KnownWrite
    <2>3. CASE out \in {"sent", "found"}
      <3>1. row'["close"].st = seen /\ seen \in OrderStatuses
        BY <1>2, <1>14, <2>3, FewCids DEF TypeOK
      <3>2. Prompt("close") => seen \in Nonterminal
        BY <1>15, <3>1 DEF True, Prompt, Working, Nonterminal
      <3> QED BY <1>0, <1>2, <1>3, <1>5, <1>12, <2>1, <3>1, <3>2, KnownWrite
    <2> QED BY <2>2, <2>3
  <1> QED
    BY <1>2, <1>3, <1>4, <1>5, <1>6, <1>7, <1>8, <1>12, <1>13, <1>16, <1>17, <1>19, <1>20,
       WriteStep DEF Protects, Submitting, Verifying, Claimed


-----------------------------------------------------------------------------
(* The process that holds LIFECYCLE_MUTATION *)

(* A step of it that changes no quantity and reads no position. *)
LEMMA LocalLife ==
  ASSUME LocalOK, Others("lifecycle"), held' = held, pos'.qty = pos.qty,
         w'["lifecycle"].pc \notin {"position", "closing"}
  PROVE  LocalOK'
  BY DEF LocalOK, Others, Procs, Submitters

(* A step of it that leaves intents alone which submitters work on. *)
LEMMA CloseLife ==
  ASSUME CloseOK, Others("lifecycle"),
         \A j \in Closes :
           \/ intent'[j] = intent[j]
           \/ /\ \A q \in Submitters : w[q].i # j
              /\ intent'[j].st # "none"
              /\ intent'[j].st \in ActiveClose => intent[j].st \in ActiveClose,
         \A c \in Cids : row'[c].by \in Closes =>
           \/ row'[c].by = row[c].by
           \/ /\ c = "close" /\ intent'[row'[c].by].st # "none"
              /\ \A q \in Submitters : w[q].i # row'[c].by,
         w'["lifecycle"].pc \in {"recover", "absent"} /\ w'["lifecycle"].i \in Closes
           => /\ intent'[w'["lifecycle"].i].st = "submitting"
              /\ \A q \in Submitters : w[q].i # w'["lifecycle"].i,
         w'["lifecycle"].pc \in {"syncRow", "syncIntent"} /\ w'["lifecycle"].i \in Closes
           => /\ intent'[w'["lifecycle"].i].st \notin {"none", "submitting"}
              /\ \A q \in Submitters : w[q].i # w'["lifecycle"].i
  PROVE  CloseOK'
  <1>1. \A q \in Submitters : w'[q] = w[q]
    BY DEF Others, Procs, Submitters
  <1>2. (w["corrective"].i \in Correctives \cup {Nobody})'
    BY <1>1 DEF CloseOK, Submitters
  <1>3. \A q \in Submitters : (w[q].i \in Closes => Pending(q))'
    <2> SUFFICES ASSUME NEW q \in Submitters, w'[q].i \in Closes PROVE Pending(q)'
      OBVIOUS
    <2>1. intent'[w[q].i] = intent[w[q].i]
      BY <1>1
    <2> QED BY <1>1, <2>1 DEF CloseOK, Pending
  <1>4. (\A q, r \in Submitters : w[q].i \in Closes /\ w[q].i = w[r].i => q = r)'
    BY <1>1 DEF CloseOK
  <1>5. (\A j, k \in Closes :
           intent[j].st \in ActiveClose /\ intent[k].st \in ActiveClose => j = k)'
    BY DEF CloseOK
  <1>6. (w["lifecycle"].pc \in {"recover", "absent"} /\ w["lifecycle"].i \in Closes
          => /\ intent[w["lifecycle"].i].st = "submitting"
             /\ \A q \in Submitters : w[q].i # w["lifecycle"].i)'
    BY <1>1
  <1>7. (w["lifecycle"].pc \in {"syncRow", "syncIntent"} /\ w["lifecycle"].i \in Closes
          => /\ intent[w["lifecycle"].i].st \notin {"none", "submitting"}
             /\ \A q \in Submitters : w[q].i # w["lifecycle"].i)'
    BY <1>1
  <1>8. (\A c \in Cids : row[c].by \in Closes
           => /\ c = "close" /\ intent[row[c].by].st # "none"
              /\ \A q \in Submitters : w[q].i # row[c].by)'
    BY <1>1 DEF CloseOK
  <1> QED BY <1>2, <1>3, <1>4, <1>5, <1>6, <1>7, <1>8 DEF CloseOK

(* A step of it that keeps a working close order known. *)
LEMMA KnownLife ==
  ASSUME KnownOK, ord' = ord,
         Prompt("close") => \/ row'["close"].st \in Nonterminal
                             \/ /\ row'["close"].st = row["close"].st
                                /\ \A j \in Closes : Accounts(j) => Accounts(j)'
  PROVE  KnownOK'
  BY DEF KnownOK, Prompt, Working

(* An intent still accounts for the order after a step of it. *)
LEMMA AccountsLife ==
  ASSUME NEW j \in Closes, Accounts(j), Others("lifecycle"),
         intent'[j].st = "submitting",
         w'["lifecycle"].i = j => /\ w'["lifecycle"].pc # "absent"
                                  /\ w'["lifecycle"].pc = "recover" => w'["lifecycle"].seen # "none"
  PROVE  Accounts(j)'
  BY DEF Accounts, Others, Procs, Submitters

(* A step of it that leaves the broker, the lock and the bounds alone. *)
LEMMA LifeStep ==
  ASSUME IInv, Others("lifecycle"), w' \in [Procs -> Process],
         UNCHANGED <<lock, ord, held, sent, profile, cancels>>,
         faults' = faults \/ faults' \in 0..MaxFaults,
         xs'.bid => xs.bid \/ ord["trail"].st # "none",
         pos' \in Position, intent' \in [Intents -> Intent], row' \in [Cids -> LocalOrder],
         xs' \in ExitState, attn' \in Attention, fills' \in [Cids -> Fill],
         w'["lifecycle"].pc \in {"recover", "absent", "syncRow", "syncIntent"}
           => w'["lifecycle"].i \in Intents,
         LocalOK', RowsTrue', StateTrue', SeenTrue("lifecycle")', CloseOK', KnownOK'
  PROVE  IInv'
  <1> USE DEF IInv
  <1>1. TypeOK'
    BY DEF TypeOK
  <1>2. \A q \in Submitters : w'[q] = w[q]
    BY DEF Others, Procs, Submitters
  <1>3. LockOK' /\ BusyOK' /\ TrailOK'
    BY <1>2 DEF LockOK, BusyOK, TrailOK, Protects, Submitters
  <1>4. OrdersOK'
    BY SameOrders
  <1>5. "lifecycle" \in Procs /\ "lifecycle" \notin Submitters
    BY DEF Procs, Submitters
  <1>6. VerifyOK'
    BY <1>5, VerifyKeeps
  <1>7. EvidenceOK'
    BY <1>5, EvidenceKeeps
  <1> QED BY <1>1, <1>3, <1>4, <1>6, <1>7

(* At rest it says nothing of anything. *)
LEMMA LifeIdle ==
  ASSUME TypeOK, Stop("lifecycle")
  PROVE  /\ w' \in [Procs -> Process] /\ Others("lifecycle")
         /\ w'["lifecycle"].pc = "idle" /\ w'["lifecycle"].i = Nobody
         /\ SeenTrue("lifecycle")'
  <1>1. w' \in [Procs -> Process] /\ Others("lifecycle") /\ w'["lifecycle"] = Idle
    BY StopStep DEF Procs
  <1>2. /\ w'["lifecycle"].pc = "idle" /\ w'["lifecycle"].i = Nobody
        /\ w'["lifecycle"].seen = "none"
    BY <1>1 DEF Idle
  <1> QED BY <1>1, <1>2 DEF SeenTrue, True, OrderStatuses, Terminal

(* One intent's state changes. *)
LEMMA IntentChange ==
  ASSUME TypeOK, NEW i \in Intents, NEW e \in Intent, intent' = [intent EXCEPT ![i] = e]
  PROVE  /\ intent' \in [Intents -> Intent] /\ intent'[i] = e
         /\ \A j \in Intents \ {i} : intent'[j] = intent[j]
  BY DEF TypeOK

(* One local order changes, to a status the broker's order has. *)
LEMMA RowChange ==
  ASSUME TypeOK, RowsTrue, NEW c \in Cids, NEW r \in LocalOrder, row' = [row EXCEPT ![c] = r],
         ord' = ord, True(c, r.st), r.by # Nobody => r.st # "none"
  PROVE  /\ row' \in [Cids -> LocalOrder] /\ row'[c] = r /\ RowsTrue'
         /\ \A d \in Cids \ {c} : row'[d] = row[d]
  <1>1. /\ row' \in [Cids -> LocalOrder] /\ row'[c] = r
        /\ \A d \in Cids \ {c} : row'[d] = row[d]
    BY DEF TypeOK
  <1>2. \A d \in Cids : row'[d] = row[d] \/ (d = c /\ row'[d] = r)
    BY <1>1
  <1> QED BY <1>1, <1>2 DEF RowsTrue, True


(* The client order id of an intent. *)
LEMMA CidOf ==
  ASSUME NEW i \in Intents
  PROVE  Cid(i) \in Cids /\ (Cid(i) = "close" <=> i \in Closes) /\ i # Nobody
  BY FewCids, IdentityAssumption DEF Cid, Intents, Cids

(* The rows as they were. *)
LEMMA SameRows ==
  ASSUME IInv
  PROVE  /\ TypeOK /\ RowsTrue /\ StateTrue /\ CloseOK /\ KnownOK /\ LocalOK
         /\ pos \in Position /\ intent \in [Intents -> Intent] /\ row \in [Cids -> LocalOrder]
         /\ xs \in ExitState /\ attn \in Attention /\ fills \in [Cids -> Fill]
         /\ Closes \subseteq Intents
         /\ row' = row /\ ord' = ord => RowsTrue'
         /\ xs' = xs /\ ord' = ord /\ (pos'.st = "closed" <=> pos.st = "closed") => StateTrue'
  BY DEF IInv, TypeOK, EvidenceOK, RowsTrue, StateTrue, True, Intents

(* The order worker recovers a sell intent whose submitter is gone: its    *)
(* order is persisted, or is looked up.                                    *)
LEMMA RecoverLookupKeeps ==
  ASSUME IInv, NEW i \in Intents, RecoverLookup(i)
  PROVE  IInv'
  <1> DEFINE c == Cid(i)
  <1>1. /\ TypeOK /\ RowsTrue /\ StateTrue /\ CloseOK /\ KnownOK /\ LocalOK
        /\ pos \in Position /\ intent \in [Intents -> Intent] /\ row \in [Cids -> LocalOrder]
        /\ xs \in ExitState /\ attn \in Attention /\ fills \in [Cids -> Fill]
        /\ Closes \subseteq Intents
    BY SameRows
  <1>2. UNCHANGED <<pos, row, xs, attn, fills, lock, ord, held, sent, profile, faults, cancels>>
    BY DEF RecoverLookup
  <1>3. RowsTrue' /\ StateTrue'
    BY <1>2, SameRows
  <1>4. c \in Cids /\ (c = "close" <=> i \in Closes) /\ i # Nobody
    BY CidOf
  <1>5. intent[i].st = "submitting" /\ (\A q \in Submitters : w[q].i # i)
        /\ w["lifecycle"].pc = "idle"
    BY DEF RecoverLookup, Stale, At
  <1> HIDE DEF c
  <1>6. CASE /\ row[c].by = i /\ UNCHANGED w
             /\ intent' = [intent EXCEPT ![i] = [st |-> "submitted", why |-> "none"]]
    <2> DEFINE e == [st |-> "submitted", why |-> "none"]
    <2>1. e \in Intent /\ e.st = "submitted"
      BY DEF Intent
    <2>2. intent' = [intent EXCEPT ![i] = e]
      BY <1>6
    <2> HIDE DEF e
    <2>3. /\ intent' \in [Intents -> Intent] /\ intent'[i] = e
          /\ \A j \in Intents \ {i} : intent'[j] = intent[j]
      BY <1>1, <2>1, <2>2, IntentChange
    <2>4. Others("lifecycle") /\ w' \in [Procs -> Process] /\ w'["lifecycle"].pc = "idle"
      BY <1>1, <1>5, <1>6 DEF Others, TypeOK
    <2>5. LocalOK'
      BY <1>1, <1>2, <2>4, LocalLife
    <2>6. SeenTrue("lifecycle")'
      BY <1>2, <1>6 DEF IInv, EvidenceOK, SeenTrue, True, SeenCid, Procs
    <2>7. CloseOK'
      <3>1. \A j \in Closes :
              \/ intent'[j] = intent[j]
              \/ /\ \A q \in Submitters : w[q].i # j
                 /\ intent'[j].st # "none"
                 /\ intent'[j].st \in ActiveClose => intent[j].st \in ActiveClose
        BY <1>1, <1>5, <2>1, <2>3 DEF ActiveClose
      <3> QED BY <1>1, <1>2, <2>4, <3>1, CloseLife
    <2>8. KnownOK'
      <3>1. i \in Closes /\ Prompt("close") => row["close"].st \in Nonterminal
        BY <1>1, <1>4, <1>6 DEF RowsTrue, KnownOK
      <3>2. i \notin Closes => \A j \in Closes : Accounts(j) => Accounts(j)'
        BY <1>1, <1>6, <2>3 DEF Accounts
      <3> QED BY <1>1, <1>2, <3>1, <3>2, KnownLife
    <2> QED BY <1>1, <1>2, <1>3, <2>3, <2>4, <2>5, <2>6, <2>7, <2>8, LifeStep
  <1>7. CASE /\ w' = [w EXCEPT !["lifecycle"] = [Idle EXCEPT !.pc = "recover", !.i = i,
                   !.seen = ord[c].st, !.out = intent[i].why]]
             /\ UNCHANGED intent
    <2> DEFINE st == ord[c].st
               why == intent[i].why
               v == [Idle EXCEPT !.pc = "recover", !.i = i, !.seen = st, !.out = why]
    <2>1. st \in OrderStatuses \cup {"none"} /\ why \in Outcomes
      BY <1>1, <1>4 DEF TypeOK, BrokerOrder, Intent, Outcomes
    <2>2. st = ord[c].st /\ w' = [w EXCEPT !["lifecycle"] = v]
      BY <1>7
    <2> HIDE DEF st, why
    <2>3. v \in Process /\ v.pc = "recover" /\ v.i = i /\ v.seen = st
      BY <2>1, IdleType DEF Process, Steps, Idle
    <2> HIDE DEF v
    <2>4. /\ w' \in [Procs -> Process] /\ Others("lifecycle") /\ w'["lifecycle"] = v
      BY <1>1, <2>2, <2>3, Assign DEF TypeOK, Procs
    <2>5. LocalOK'
      BY <1>1, <1>2, <2>3, <2>4, LocalLife
    <2>6. SeenTrue("lifecycle")'
      <3>1. SeenCid("lifecycle")' = c
        BY <1>4, <2>3, <2>4 DEF SeenCid, c
      <3> QED BY <1>2, <2>1, <2>2, <2>3, <2>4, <3>1 DEF SeenTrue, True, OrderStatuses, Terminal
    <2>7. CloseOK'
      BY <1>1, <1>2, <1>5, <1>7, <2>3, <2>4, CloseLife
    <2>8. KnownOK'
      <3>1. ASSUME NEW j \in Closes, Accounts(j), Prompt("close") PROVE Accounts(j)'
        <4>1. j = i => v.seen # "none"
          BY <1>4, <2>2, <2>3, <3>1 DEF Prompt, Working, Nonterminal, OrderStatuses
        <4>2. intent'[j].st = "submitting"
          BY <1>7, <3>1 DEF Accounts
        <4> QED BY <2>3, <2>4, <3>1, <4>1, <4>2, AccountsLife
      <3> QED BY <1>1, <1>2, <3>1, KnownLife
    <2> QED BY <1>1, <1>2, <1>3, <1>7, <2>3, <2>4, <2>5, <2>6, <2>7, <2>8, LifeStep
  <1> QED BY <1>6, <1>7 DEF RecoverLookup, c

(* Reconciliation looks a stale close up. *)
LEMMA AbsentLookupKeeps ==
  ASSUME IInv, NEW i \in Intents, AbsentLookup(i)
  PROVE  IInv'
  <1> DEFINE v == [Idle EXCEPT !.pc = "absent", !.i = i]
  <1>1. /\ TypeOK /\ RowsTrue /\ StateTrue /\ CloseOK /\ KnownOK /\ LocalOK
        /\ pos \in Position /\ intent \in [Intents -> Intent] /\ row \in [Cids -> LocalOrder]
        /\ xs \in ExitState /\ attn \in Attention /\ fills \in [Cids -> Fill]
        /\ Closes \subseteq Intents
    BY SameRows
  <1>2. UNCHANGED <<pos, intent, row, xs, attn, fills, lock, ord, held, sent, profile, faults,
                    cancels>>
    BY DEF AbsentLookup
  <1>3. RowsTrue' /\ StateTrue'
    BY <1>2, SameRows
  <1>4. v \in Process /\ v.pc = "absent" /\ v.i = i /\ v.seen = "none"
    BY IdleType DEF Process, Steps, Idle
  <1>5. w' = [w EXCEPT !["lifecycle"] = v]
    BY DEF AbsentLookup
  <1> HIDE DEF v
  <1>6. w' \in [Procs -> Process] /\ Others("lifecycle") /\ w'["lifecycle"] = v
    BY <1>1, <1>4, <1>5, Assign DEF TypeOK, Procs
  <1>7. LocalOK'
    BY <1>1, <1>2, <1>4, <1>6, LocalLife
  <1>8. SeenTrue("lifecycle")'
    BY <1>4, <1>6 DEF SeenTrue, True, OrderStatuses, Terminal
  <1>9. CloseOK'
    BY <1>1, <1>2, <1>4, <1>6, CloseLife DEF AbsentLookup, Stale
  <1>10. ~ Prompt("close")
    BY DEF AbsentLookup, Cid, Prompt, Working, Nonterminal, OrderStatuses
  <1>11. KnownOK'
    BY <1>1, <1>2, <1>10, KnownLife
  <1> QED BY <1>1, <1>2, <1>3, <1>4, <1>6, <1>7, <1>8, <1>9, <1>11, LifeStep

(* ... and fails it, which it may since nobody submits that intent again.  *)
LEMMA AbsentFinalizeKeeps ==
  ASSUME IInv, AbsentFinalize
  PROVE  IInv'
  <1>0. PICK i \in Intents : i = w["lifecycle"].i
    BY DEF IInv, BusyOK, AbsentFinalize, At
  <1>1. /\ TypeOK /\ RowsTrue /\ StateTrue /\ CloseOK /\ KnownOK /\ LocalOK
        /\ pos \in Position /\ intent \in [Intents -> Intent] /\ row \in [Cids -> LocalOrder]
        /\ xs \in ExitState /\ attn \in Attention /\ fills \in [Cids -> Fill]
        /\ Closes \subseteq Intents
    BY SameRows
  <1>2. UNCHANGED <<row, xs, attn, fills, lock, ord, held, sent, profile, faults, cancels>>
    BY DEF AbsentFinalize
  <1>3. /\ w' \in [Procs -> Process] /\ Others("lifecycle")
        /\ w'["lifecycle"].pc = "idle" /\ w'["lifecycle"].i = Nobody
        /\ SeenTrue("lifecycle")'
    BY <1>1, LifeIdle DEF AbsentFinalize
  <1>4. pos' \in Position /\ pos'.qty = pos.qty /\ (pos'.st = "closed" <=> pos.st = "closed")
    BY <1>1, ReopenType DEF AbsentFinalize
  <1>5. RowsTrue' /\ StateTrue'
    BY <1>2, <1>4, SameRows
  <1>6. /\ intent' \in [Intents -> Intent] /\ (intent'[i] = intent[i] \/ intent'[i].st = "failed")
        /\ \A j \in Intents \ {i} : intent'[j] = intent[j]
    <2> DEFINE e == [st |-> "failed", why |-> "absent"]
    <2>1. e \in Intent /\ e.st = "failed"
      BY DEF Intent
    <2>2. intent' = intent \/ intent' = [intent EXCEPT ![i] = e]
      BY <1>0 DEF AbsentFinalize
    <2> HIDE DEF e
    <2>3. CASE intent' = intent
      BY <1>1, <2>3
    <2>4. CASE intent' = [intent EXCEPT ![i] = e]
      BY <1>1, <2>1, <2>4, IntentChange
    <2> QED BY <2>2, <2>3, <2>4
  <1>7. LocalOK'
    BY <1>1, <1>2, <1>3, <1>4, LocalLife
  <1>8. CloseOK'
    <2>1. i \in Closes => \A q \in Submitters : w[q].i # i
      BY <1>0, <1>1 DEF CloseOK, AbsentFinalize, At
    <2>2. \A j \in Closes :
            \/ intent'[j] = intent[j]
            \/ /\ \A q \in Submitters : w[q].i # j
               /\ intent'[j].st # "none"
               /\ intent'[j].st \in ActiveClose => intent[j].st \in ActiveClose
      BY <1>1, <1>6, <2>1 DEF ActiveClose
    <2> QED BY <1>1, <1>2, <1>3, <2>2, CloseLife
  <1>9. KnownOK'
    <2>1. ASSUME NEW j \in Closes, Accounts(j) PROVE Accounts(j)'
      <3>1. j # i
        BY <1>0, <2>1 DEF Accounts, AbsentFinalize, At
      <3>2. intent'[j].st = "submitting"
        BY <1>1, <1>6, <2>1, <3>1 DEF Accounts
      <3> QED BY <1>3, <2>1, <3>2, AccountsLife
    <2> QED BY <1>1, <1>2, <2>1, KnownLife
  <1> QED BY <1>1, <1>2, <1>3, <1>4, <1>5, <1>6, <1>7, <1>8, <1>9, LifeStep


(* The result of the order worker's lookup is applied. *)
LEMMA RecoverApplyKeeps ==
  ASSUME IInv, RecoverApply
  PROVE  IInv'
  <1>0. PICK i \in Intents : i = w["lifecycle"].i
    BY DEF IInv, BusyOK, RecoverApply, At
  <1>c. PICK c \in Cids : c = Cid(i) /\ (c = "close" <=> i \in Closes) /\ i # Nobody
    BY CidOf
  <1>1. /\ TypeOK /\ RowsTrue /\ StateTrue /\ CloseOK /\ KnownOK /\ LocalOK
        /\ pos \in Position /\ intent \in [Intents -> Intent] /\ row \in [Cids -> LocalOrder]
        /\ xs \in ExitState /\ attn \in Attention /\ fills \in [Cids -> Fill]
        /\ Closes \subseteq Intents
    BY SameRows
  <1>2. UNCHANGED <<xs, attn, fills, lock, ord, held, sent, profile, faults, cancels>>
    BY DEF RecoverApply
  <1>3. /\ w' \in [Procs -> Process] /\ Others("lifecycle")
        /\ w'["lifecycle"].pc = "idle" /\ w'["lifecycle"].i = Nobody
        /\ SeenTrue("lifecycle")'
    BY <1>1, LifeIdle DEF RecoverApply
  <1>4. pos' \in Position /\ pos'.qty = pos.qty /\ (pos'.st = "closed" <=> pos.st = "closed")
    BY <1>1, ReopenType DEF RecoverApply
  <1>5. StateTrue'
    BY <1>2, <1>4, SameRows
  <1>6. PICK seen \in OrderStatuses \cup {"none"} :
          seen = w["lifecycle"].seen /\ True(c, seen)
    BY <1>0, <1>1, <1>c
    DEF IInv, EvidenceOK, SeenTrue, SeenCid, TypeOK, Process, Procs, RecoverApply, At
  <1>7. PICK why \in Outcomes \cup OrderStatuses : why = w["lifecycle"].out
    BY <1>1 DEF TypeOK, Process, Procs
  <1>8. intent[i] \in Intent /\ row[c] \in LocalOrder
    BY <1>1
  <1>9. i \in Closes => intent[i].st = "submitting" /\ \A q \in Submitters : w[q].i # i
    BY <1>0, <1>1 DEF CloseOK, RecoverApply, At
  <1>10. LocalOK'
    BY <1>1, <1>2, <1>3, <1>4, LocalLife
  <1>11. CASE seen # "none"
    <2> DEFINE e == IF intent[i].st = "submitting"
                    THEN [st |-> "submitted", why |-> "none"] ELSE intent[i]
               r == IF row[c].st = "none" THEN [st |-> seen, by |-> i] ELSE row[c]
    <2>1. e \in Intent /\ (e.st = intent[i].st \/ (e.st = "submitted" /\ intent[i].st = "submitting"))
      BY <1>8 DEF Intent
    <2>2. /\ r \in LocalOrder /\ (r = row[c] \/ (r.st = seen /\ r.by = i /\ row[c].st = "none"))
          /\ r.st # "none"
      BY <1>8, <1>11 DEF LocalOrder
    <2>3. intent' = [intent EXCEPT ![i] = e] /\ row' = [row EXCEPT ![c] = r]
      BY <1>0, <1>c, <1>6, <1>11 DEF RecoverApply
    <2> HIDE DEF e, r
    <2>4. /\ intent' \in [Intents -> Intent] /\ intent'[i] = e
          /\ \A j \in Intents \ {i} : intent'[j] = intent[j]
      BY <1>1, <2>1, <2>3, IntentChange
    <2>5. True(c, r.st)
      BY <1>1, <1>6, <2>2 DEF RowsTrue
    <2>6. /\ row' \in [Cids -> LocalOrder] /\ row'[c] = r /\ RowsTrue'
          /\ \A d \in Cids \ {c} : row'[d] = row[d]
      BY <1>1, <1>2, <2>2, <2>3, <2>5, RowChange
    <2>7. CloseOK'
      <3>1. \A j \in Closes :
              \/ intent'[j] = intent[j]
              \/ /\ \A q \in Submitters : w[q].i # j
                 /\ intent'[j].st # "none"
                 /\ intent'[j].st \in ActiveClose => intent[j].st \in ActiveClose
        BY <1>1, <1>9, <2>1, <2>4 DEF ActiveClose
      <3>2. \A d \in Cids : row'[d].by \in Closes =>
              \/ row'[d].by = row[d].by
              \/ /\ d = "close" /\ intent'[row'[d].by].st # "none"
                 /\ \A q \in Submitters : w[q].i # row'[d].by
        BY <1>c, <1>9, <2>1, <2>2, <2>4, <2>6
      <3> QED BY <1>1, <1>3, <3>1, <3>2, CloseLife
    <2>8. KnownOK'
      <3>1. CASE i \in Closes
        <4>1. Prompt("close") => r.st \in Nonterminal
          BY <1>1, <1>c, <1>6, <1>11, <2>2, <3>1 DEF True, Prompt, Working, KnownOK, Nonterminal
        <4> QED BY <1>1, <1>2, <1>c, <2>6, <3>1, <4>1, KnownLife
      <3>2. CASE i \notin Closes
        <4>1. ASSUME NEW j \in Closes, Accounts(j) PROVE Accounts(j)'
          <5>1. intent'[j].st = "submitting"
            BY <1>1, <2>4, <3>2, <4>1 DEF Accounts
          <5> QED BY <1>3, <4>1, <5>1, AccountsLife
        <4>2. row'["close"] = row["close"]
          BY <1>c, <2>6, <3>2, FewCids
        <4> QED BY <1>1, <1>2, <4>1, <4>2, KnownLife
      <3> QED BY <3>1, <3>2
    <2> QED
      BY <1>1, <1>2, <1>3, <1>4, <1>5, <1>10, <2>4, <2>6, <2>7, <2>8, LifeStep
  <1>12. CASE seen = "none"
    <2>1. PICK e \in Intent :
            /\ intent' = [intent EXCEPT ![i] = e]
            /\ e.st = intent[i].st \/ e.st \in {"blocked", "failed"}
      <3>1. CASE why \in {"notSent", "blocked", "rejected"}
        <4> DEFINE f == [intent[i] EXCEPT !.st = IF @ = "submitting" THEN Unsent(why) ELSE @]
        <4>1. Unsent(why) \in {"blocked", "failed"}
          BY DEF Unsent
        <4>2. f \in Intent /\ (f.st = intent[i].st \/ f.st \in {"blocked", "failed"})
          BY <1>8, <4>1 DEF Intent
        <4>3. intent' = [intent EXCEPT ![i] = f]
          BY <1>0, <1>1, <1>6, <1>7, <1>12, <3>1 DEF RecoverApply
        <4> HIDE DEF f
        <4> QED BY <4>2, <4>3
      <3>2. CASE why \in {"none", "verification", "uncertain"}
        <4> DEFINE f == [intent[i] EXCEPT !.why = IF intent[i].st = "submitting" /\ why = "none"
                                                  THEN "uncertain" ELSE @]
        <4>2. f \in Intent /\ f.st = intent[i].st
          BY <1>8 DEF Intent
        <4>3. intent' = [intent EXCEPT ![i] = f]
          BY <1>0, <1>1, <1>6, <1>7, <1>12, <3>2 DEF RecoverApply
        <4> HIDE DEF f
        <4> QED BY <4>2, <4>3
      <3> QED BY <1>6, <1>7, <1>12, <3>1, <3>2 DEF RecoverApply
    <2>2. row' = row /\ RowsTrue'
      BY <1>2, <1>6, <1>12, SameRows DEF RecoverApply
    <2>3. /\ intent' \in [Intents -> Intent] /\ intent'[i] = e
          /\ \A j \in Intents \ {i} : intent'[j] = intent[j]
      BY <1>1, <2>1, IntentChange
    <2>4. CloseOK'
      <3>1. \A j \in Closes :
              \/ intent'[j] = intent[j]
              \/ /\ \A q \in Submitters : w[q].i # j
                 /\ intent'[j].st # "none"
                 /\ intent'[j].st \in ActiveClose => intent[j].st \in ActiveClose
        BY <1>1, <1>9, <2>1, <2>3 DEF ActiveClose
      <3> QED BY <1>1, <1>3, <2>2, <3>1, CloseLife
    <2>5. KnownOK'
      <3>1. ASSUME NEW j \in Closes, Accounts(j) PROVE Accounts(j)'
        <4>1. j # i
          BY <1>0, <1>6, <1>12, <3>1 DEF Accounts, RecoverApply, At
        <4>2. intent'[j].st = "submitting"
          BY <1>1, <2>3, <3>1, <4>1 DEF Accounts
        <4> QED BY <1>3, <3>1, <4>2, AccountsLife
      <3> QED BY <1>1, <1>2, <2>2, <3>1, KnownLife
    <2> QED
      BY <1>1, <1>2, <1>3, <1>4, <1>5, <1>10, <2>2, <2>3, <2>4, <2>5, LifeStep
  <1> QED BY <1>11, <1>12

(* close-position.service and the two recoveries *)
LEMMA CloseNextKeeps ==
  ASSUME IInv, CloseNext
  PROVE  IInv'
  BY OwnerKeeps, FinishCloseKeeps, RecoverLookupKeeps, AbsentLookupKeeps, RecoverApplyKeeps,
     AbsentFinalizeKeeps DEF CloseNext


-----------------------------------------------------------------------------
(* What the workers learn from the broker *)

(* What a synchronized protective order writes. *)
LEMMA ProtectiveType ==
  ASSUME TypeOK, NEW st \in OrderStatuses \cup {"none"}
  PROVE  /\ Protective(st) \in ExitState /\ Protective(st).ost = st
         /\ st = "canceled" => Protective(st).att
  <1>1. ExitStatusOf(st) \in ExitStatuses
    BY DEF ExitStatusOf, ExitStatuses
  <1>2. Protective(st) \in ExitState
    <2> DEFINE b == (st = "canceled")
    <2>1. b \in BOOLEAN
      OBVIOUS
    <2>2. Protective(st) = [xs EXCEPT !.st = ExitStatusOf(st), !.cid = TRUE, !.bid = TRUE,
                                      !.ost = st, !.att = b]
      BY DEF Protective
    <2> HIDE DEF b
    <2> QED BY <1>1, <2>1, <2>2 DEF TypeOK, ExitState
  <1>3. xs \in ExitState
    BY DEF TypeOK
  <1>4. Protective(st).ost = st
    BY <1>3 DEF Protective, ExitState
  <1>5. Protective(st).att = (st = "canceled")
    BY <1>3 DEF Protective, ExitState
  <1> QED BY <1>2, <1>4, <1>5

(* It is what the broker says, and a dead order is flagged. *)
LEMMA ProtectiveTrue ==
  ASSUME TypeOK, NEW st \in OrderStatuses, True("trail", st), ord' = ord,
         xs' = Protective(st)
  PROVE  xs' \in ExitState /\ StateTrue' /\ ord["trail"].st # "none"
  BY ProtectiveType DEF StateTrue, True

(* The status of an order is read; a trailing order's exit state is        *)
(* written at once.                                                        *)
LEMMA SyncReadKeeps ==
  ASSUME IInv, NEW i \in Intents, SyncRead(i)
  PROVE  IInv'
  <1>c. PICK c \in Cids : c = Cid(i) /\ (c = "close" <=> i \in Closes) /\ i # Nobody
    BY CidOf
  <1>1. /\ TypeOK /\ RowsTrue /\ StateTrue /\ CloseOK /\ KnownOK /\ LocalOK
        /\ pos \in Position /\ intent \in [Intents -> Intent] /\ row \in [Cids -> LocalOrder]
        /\ xs \in ExitState /\ attn \in Attention /\ fills \in [Cids -> Fill]
        /\ Closes \subseteq Intents
    BY SameRows
  <1>2. UNCHANGED <<pos, intent, row, attn, fills, lock, ord, held, sent, profile, faults,
                    cancels>>
    BY DEF SyncRead
  <1>3. intent[i].st \in {"submitted"} \cup Nonterminal /\ row[c].by = i
    BY <1>c DEF SyncRead, Syncable
  <1>4. /\ xs' \in ExitState /\ StateTrue'
        /\ xs'.bid => xs.bid \/ ord["trail"].st # "none"
    <2>1. CASE xs' = xs
      BY <1>1, <1>2, <2>1, SameRows
    <2>2. CASE i = "trail" /\ xs' = Protective(ord["trail"].st)
      <3>1. PICK st \in OrderStatuses : st = ord["trail"].st
        BY <1>1, <1>c, <1>3, <2>2, FewCids, IdentityAssumption
        DEF TypeOK, BrokerOrder, RowsTrue, True, LocalOrder, Cid
      <3>2. True("trail", st)
        BY <3>1 DEF True, OrderStatuses
      <3> QED BY <1>1, <1>2, <2>2, <3>1, <3>2, ProtectiveTrue
    <2> QED BY <2>1, <2>2 DEF SyncRead
  <1>5. PICK st \in OrderStatuses : st = ord[c].st
    BY <1>1, <1>c, <1>3 DEF TypeOK, BrokerOrder, RowsTrue, True, LocalOrder
  <1>6. PICK old \in OrderStatuses \cup {"none"} : old = row[c].st
    BY <1>1 DEF LocalOrder
  <1> DEFINE v == [Idle EXCEPT !.pc = "syncRow", !.i = i, !.seen = st, !.out = old]
  <1>7. w' = [w EXCEPT !["lifecycle"] = v]
    BY <1>c, <1>5, <1>6 DEF SyncRead
  <1>8. v \in Process /\ v.pc = "syncRow" /\ v.i = i /\ v.seen = st
    BY IdleType DEF Process, Steps, Idle, Outcomes
  <1> HIDE DEF v
  <1>9. w' \in [Procs -> Process] /\ Others("lifecycle") /\ w'["lifecycle"] = v
    BY <1>1, <1>7, <1>8, Assign DEF TypeOK, Procs
  <1>10. LocalOK'
    BY <1>1, <1>2, <1>8, <1>9, LocalLife
  <1>11. SeenTrue("lifecycle")'
    <2>1. SeenCid("lifecycle")' = c
      BY <1>c, <1>8, <1>9 DEF SeenCid
    <2> QED BY <1>2, <1>5, <1>8, <1>9, <2>1 DEF SeenTrue, True, OrderStatuses, Terminal
  <1>12. CloseOK'
    <2>1. i \in Closes => /\ intent[i].st \notin {"none", "submitting"}
                          /\ \A q \in Submitters : w[q].i # i
      BY <1>1, <1>3 DEF CloseOK, Nonterminal, OrderStatuses
    <2> QED BY <1>1, <1>2, <1>8, <1>9, <2>1, CloseLife
  <1>13. KnownOK'
    <2>1. ASSUME NEW j \in Closes, Accounts(j) PROVE Accounts(j)'
      <3>1. intent'[j].st = "submitting"
        BY <1>2, <2>1 DEF Accounts
      <3> QED BY <1>8, <1>9, <2>1, <3>1, AccountsLife
    <2> QED BY <1>1, <1>2, <2>1, KnownLife
  <1> QED
    BY <1>1, <1>2, <1>4, <1>8, <1>9, <1>10, <1>11, <1>12, <1>13, SameRows, LifeStep

(* It is written to the local order ... *)
LEMMA SyncRowKeeps ==
  ASSUME IInv, SyncRow
  PROVE  IInv'
  <1>0. PICK i \in Intents : i = w["lifecycle"].i
    BY DEF IInv, BusyOK, SyncRow, At
  <1>c. PICK c \in Cids : c = Cid(i) /\ (c = "close" <=> i \in Closes) /\ i # Nobody
    BY CidOf
  <1>1. /\ TypeOK /\ RowsTrue /\ StateTrue /\ CloseOK /\ KnownOK /\ LocalOK
        /\ pos \in Position /\ intent \in [Intents -> Intent] /\ row \in [Cids -> LocalOrder]
        /\ xs \in ExitState /\ attn \in Attention /\ fills \in [Cids -> Fill]
        /\ Closes \subseteq Intents
    BY SameRows
  <1>2. UNCHANGED <<pos, intent, xs, attn, fills, lock, ord, held, sent, profile, faults,
                    cancels>>
    BY DEF SyncRow
  <1>3. StateTrue' /\ row[c] \in LocalOrder
    BY <1>1, <1>2, SameRows
  <1>4. PICK seen \in OrderStatuses : seen = w["lifecycle"].seen /\ True(c, seen)
    BY <1>0, <1>c DEF IInv, EvidenceOK, SeenTrue, SeenCid, Procs, SyncRow, At
  <1>5. CASE row' = row /\ Stop("lifecycle")
    <2>1. /\ w' \in [Procs -> Process] /\ Others("lifecycle")
          /\ w'["lifecycle"].pc = "idle" /\ w'["lifecycle"].i = Nobody
          /\ SeenTrue("lifecycle")'
      BY <1>1, <1>5, LifeIdle
    <2>2. LocalOK' /\ RowsTrue'
      BY <1>1, <1>2, <1>5, <2>1, LocalLife, SameRows
    <2>3. CloseOK'
      BY <1>1, <1>2, <1>5, <2>1, CloseLife
    <2>4. ASSUME NEW j \in Closes, Accounts(j) PROVE Accounts(j)'
      <3>1. intent'[j].st = "submitting"
        BY <1>2, <2>4 DEF Accounts
      <3> QED BY <2>1, <2>4, <3>1, AccountsLife
    <2>5. KnownOK'
      BY <1>1, <1>2, <1>5, <2>4, KnownLife
    <2> QED BY <1>1, <1>2, <1>3, <1>5, <2>1, <2>2, <2>3, <2>5, LifeStep
  <1>6. CASE row' = [row EXCEPT ![c].st = seen] /\ Goto("lifecycle", "syncIntent")
    <2> DEFINE r == [row[c] EXCEPT !.st = seen]
    <2>1. r \in LocalOrder /\ r.st = seen /\ r.by = row[c].by
      BY <1>3 DEF LocalOrder
    <2>2. row' = [row EXCEPT ![c] = r]
      BY <1>1, <1>6
    <2> HIDE DEF r
    <2>3. /\ row' \in [Cids -> LocalOrder] /\ row'[c] = r /\ RowsTrue'
          /\ \A d \in Cids \ {c} : row'[d] = row[d]
      BY <1>1, <1>2, <1>4, <2>1, <2>2, RowChange DEF OrderStatuses
    <2>4. /\ w' \in [Procs -> Process] /\ Others("lifecycle")
          /\ w'["lifecycle"] = [w["lifecycle"] EXCEPT !.pc = "syncIntent"]
      BY <1>1, <1>6, GotoStep DEF Steps, Procs
    <2>5. w["lifecycle"] \in Process /\ w["lifecycle"].pc = "syncRow"
      BY <1>1 DEF TypeOK, Procs, SyncRow, At
    <2>6. /\ w'["lifecycle"].pc = "syncIntent" /\ w'["lifecycle"].i = i
          /\ w'["lifecycle"].seen = seen
      BY <1>0, <1>4, <2>4, <2>5 DEF Process
    <2>7. LocalOK'
      BY <1>1, <1>2, <2>4, <2>6, LocalLife
    <2>8. SeenTrue("lifecycle")'
      <3>1. SeenCid("lifecycle")' = c
        BY <1>c, <2>6 DEF SeenCid
      <3> QED BY <1>2, <1>4, <2>6, <3>1 DEF SeenTrue, True, OrderStatuses, Terminal
    <2>9. CloseOK'
      <3>1. \A d \in Cids : row'[d].by = row[d].by
        BY <2>1, <2>3
      <3>2. i \in Closes => /\ intent'[i].st \notin {"none", "submitting"}
                            /\ \A q \in Submitters : w[q].i # i
        BY <1>0, <1>1, <1>2, <2>5 DEF CloseOK
      <3> QED BY <1>1, <1>2, <2>4, <2>6, <3>1, <3>2, CloseLife
    <2>10. KnownOK'
      <3>1. ASSUME NEW j \in Closes, Accounts(j) PROVE Accounts(j)'
        <4>1. intent'[j].st = "submitting"
          BY <1>2, <3>1 DEF Accounts
        <4> QED BY <2>4, <2>6, <3>1, <4>1, AccountsLife
      <3>2. c = "close" /\ Prompt("close") => row'["close"].st \in Nonterminal
        BY <1>4, <2>1, <2>3 DEF True, Prompt, Working, Nonterminal
      <3>3. c # "close" => row'["close"] = row["close"]
        BY <2>3, FewCids
      <3> QED BY <1>1, <1>2, <3>1, <3>2, <3>3, KnownLife
    <2> QED
      BY <1>1, <1>2, <1>3, <2>3, <2>4, <2>6, <2>7, <2>8, <2>9, <2>10, LifeStep
  <1> QED BY <1>0, <1>c, <1>4, <1>5, <1>6 DEF SyncRow

(* ... and then to the intent. *)
LEMMA SyncIntentKeeps ==
  ASSUME IInv, SyncIntent
  PROVE  IInv'
  <1>0. PICK i \in Intents : i = w["lifecycle"].i
    BY DEF IInv, BusyOK, SyncIntent, At
  <1>1. /\ TypeOK /\ RowsTrue /\ StateTrue /\ CloseOK /\ KnownOK /\ LocalOK
        /\ pos \in Position /\ intent \in [Intents -> Intent] /\ row \in [Cids -> LocalOrder]
        /\ xs \in ExitState /\ attn \in Attention /\ fills \in [Cids -> Fill]
        /\ Closes \subseteq Intents
    BY SameRows
  <1>2. UNCHANGED <<pos, row, xs, attn, fills, lock, ord, held, sent, profile, faults, cancels>>
    BY DEF SyncIntent
  <1>3. /\ w' \in [Procs -> Process] /\ Others("lifecycle")
        /\ w'["lifecycle"].pc = "idle" /\ w'["lifecycle"].i = Nobody
        /\ SeenTrue("lifecycle")'
    BY <1>1, LifeIdle DEF SyncIntent
  <1>4. PICK seen \in OrderStatuses : seen = w["lifecycle"].seen
    BY DEF IInv, EvidenceOK, SeenTrue, Procs, SyncIntent, At
  <1> DEFINE e == [intent[i] EXCEPT !.st = seen]
  <1>5. e \in Intent /\ e.st = seen
    BY <1>1 DEF Intent
  <1>6. intent' = [intent EXCEPT ![i] = e]
    BY <1>0, <1>1, <1>4 DEF SyncIntent
  <1> HIDE DEF e
  <1>7. /\ intent' \in [Intents -> Intent] /\ intent'[i] = e
        /\ \A j \in Intents \ {i} : intent'[j] = intent[j]
    BY <1>1, <1>5, <1>6, IntentChange
  <1>8. i \in Closes => /\ intent[i].st \notin {"none", "submitting"}
                        /\ \A q \in Submitters : w[q].i # i
    BY <1>0, <1>1 DEF CloseOK, SyncIntent, At
  <1>9. CloseOK'
    <2>1. \A j \in Closes :
            \/ intent'[j] = intent[j]
            \/ /\ \A q \in Submitters : w[q].i # j
               /\ intent'[j].st # "none"
               /\ intent'[j].st \in ActiveClose => intent[j].st \in ActiveClose
      BY <1>1, <1>5, <1>7, <1>8 DEF ActiveClose, OrderStatuses
    <2> QED BY <1>1, <1>2, <1>3, <2>1, CloseLife
  <1>10. KnownOK'
    <2>1. ASSUME NEW j \in Closes, Accounts(j) PROVE Accounts(j)'
      <3>1. intent'[j].st = "submitting"
        BY <1>1, <1>7, <1>8, <2>1 DEF Accounts
      <3> QED BY <1>3, <2>1, <3>1, AccountsLife
    <2> QED BY <1>1, <1>2, <2>1, KnownLife
  <1> QED BY <1>1, <1>2, <1>3, <1>7, <1>9, <1>10, SameRows, LocalLife, LifeStep


(* Imported fills are bounded by the position. *)
LEMMA ImportedType ==
  ASSUME TypeOK, NEW c \in Cids
  PROVE  Imported(c) \in Fill
  BY DEF TypeOK, Imported, Fill, BrokerOrder

(* A full fill is an order that works no more. *)
LEMMA FullFillTrue ==
  ASSUME TypeOK, NEW c \in Cids, FullFill(c)
  PROVE  /\ True(c, "filled") /\ ~ Working(c)
         /\ [row[c] EXCEPT !.st = "filled"] \in LocalOrder
  <1>1. ord[c].st = "filled"
    BY DEF FullFill
  <1>2. row[c] \in LocalOrder
    BY DEF TypeOK
  <1> QED BY <1>1, <1>2
    DEF LocalOrder, True, Working, OrderStatuses, Terminal, Nonterminal

(* Fills of one order are imported. *)
LEMMA ImportKeeps ==
  ASSUME IInv, NEW c \in Cids, ImportFills(c)
  PROVE  IInv'
  <1>1. /\ TypeOK /\ RowsTrue /\ StateTrue /\ CloseOK /\ KnownOK /\ LocalOK
        /\ pos \in Position /\ intent \in [Intents -> Intent] /\ row \in [Cids -> LocalOrder]
        /\ xs \in ExitState /\ attn \in Attention /\ fills \in [Cids -> Fill]
        /\ Closes \subseteq Intents
    BY SameRows
  <1>2. UNCHANGED <<pos, xs, attn, lock, w, ord, held, sent, profile, faults, cancels>>
    BY DEF ImportFills
  <1>3. fills' \in [Cids -> Fill]
    <2> DEFINE f == Imported(c)
    <2>1. f \in Fill
      BY <1>1, ImportedType
    <2>2. fills' = [fills EXCEPT ![c] = f]
      BY DEF ImportFills
    <2> HIDE DEF f
    <2> QED BY <1>1, <2>1, <2>2
  <1>4. /\ Others("lifecycle") /\ w' \in [Procs -> Process] /\ w'["lifecycle"].pc = "idle"
        /\ SeenTrue("lifecycle")'
    BY <1>1, <1>2
    DEF TypeOK, Others, ImportFills, At, IInv, EvidenceOK, SeenTrue, True, SeenCid, Procs
  <1>5. LocalOK' /\ StateTrue'
    BY <1>1, <1>2, <1>4, LocalLife, SameRows
  <1>6. CASE row' = row /\ intent' = intent
    <2>1. CloseOK' /\ RowsTrue'
      BY <1>1, <1>2, <1>4, <1>6, CloseLife, SameRows
    <2>2. KnownOK'
      BY <1>1, <1>2, <1>6 DEF KnownOK, Accounts, Prompt, Working
    <2> QED BY <1>1, <1>2, <1>3, <1>4, <1>5, <1>6, <2>1, <2>2, LifeStep
  <1>7. CASE FullFill(c)
    <2> DEFINE r == IF row[c].st \notin Terminal THEN [row[c] EXCEPT !.st = "filled"] ELSE row[c]
    <2>1. row[c] \in LocalOrder /\ row[c].st # "none"
      BY <1>1, <1>7 DEF FullFill
    <2>2. r \in LocalOrder /\ r.by = row[c].by /\ r.st # "none" /\ True(c, r.st)
      <3>1. CASE row[c].st \notin Terminal
        <4>1. r = [row[c] EXCEPT !.st = "filled"]
          BY <3>1
        <4>2. r.st = "filled" /\ r.by = row[c].by
          BY <2>1, <4>1 DEF LocalOrder
        <4> QED BY <1>1, <1>7, <4>1, <4>2, FullFillTrue
      <3>2. CASE row[c].st \in Terminal
        BY <1>1, <2>1, <3>2 DEF RowsTrue
      <3> QED BY <3>1, <3>2
    <2>3. row' = [row EXCEPT ![c] = r]
      BY <1>1, <1>7, <2>1 DEF ImportFills, LocalOrder
    <2> HIDE DEF r
    <2>4. /\ row' \in [Cids -> LocalOrder] /\ row'[c] = r /\ RowsTrue'
          /\ \A d \in Cids \ {c} : row'[d] = row[d]
      BY <1>1, <1>2, <2>2, <2>3, RowChange
    <2>5. \A d \in Cids : row'[d].by = row[d].by
      BY <2>2, <2>4
    <2>6. /\ intent' \in [Intents -> Intent]
          /\ \A j \in Intents : \/ intent'[j] = intent[j]
                                \/ intent'[j].st = "filled" /\ j = row[c].by
      <3>1. CASE intent' = intent
        BY <1>1, <3>1
      <3>2. CASE row[c].by \in Intents /\ intent' # intent
        <4>1. PICK k \in Intents : k = row[c].by
          BY <3>2
        <4> DEFINE e == [intent[k] EXCEPT !.st = "filled"]
        <4>2. e \in Intent /\ e.st = "filled"
          BY <1>1 DEF Intent, OrderStatuses
        <4>3. intent' = [intent EXCEPT ![k] = e]
          BY <1>1, <3>2, <4>1 DEF ImportFills
        <4> HIDE DEF e
        <4> QED BY <1>1, <4>1, <4>2, <4>3, IntentChange
      <3>3. CASE row[c].by \notin Intents
        BY <1>1, <3>3 DEF ImportFills
      <3> QED BY <3>1, <3>2, <3>3
    <2>7. CloseOK'
      <3>1. \A j \in Closes :
              \/ intent'[j] = intent[j]
              \/ /\ \A q \in Submitters : w[q].i # j
                 /\ intent'[j].st # "none"
                 /\ intent'[j].st \in ActiveClose => intent[j].st \in ActiveClose
        BY <1>1, <2>6 DEF ActiveClose, CloseOK
      <3> QED BY <1>1, <1>4, <2>5, <3>1, CloseLife
    <2>8. KnownOK'
      <3>1. CASE c = "close"
        BY <1>1, <1>2, <1>7, <3>1, FullFillTrue, KnownLife DEF Prompt
      <3>2. CASE c # "close"
        <4>1. row[c].by \notin Closes
          BY <1>1, <3>2 DEF CloseOK
        <4>2. \A j \in Closes : intent'[j] = intent[j]
          BY <1>1, <2>6, <4>1
        <4>3. row'["close"] = row["close"]
          BY <2>4, <3>2, FewCids
        <4> QED BY <1>1, <1>2, <4>2, <4>3 DEF KnownOK, Accounts, Prompt, Working
      <3> QED BY <3>1, <3>2
    <2> QED BY <1>1, <1>2, <1>3, <1>4, <1>5, <2>4, <2>6, <2>7, <2>8, LifeStep
  <1> QED BY <1>6, <1>7 DEF ImportFills

(* Position sync reads the broker's quantity ... *)
LEMMA PositionReadKeeps ==
  ASSUME IInv, PositionRead
  PROVE  IInv'
  <1>1. /\ TypeOK /\ RowsTrue /\ StateTrue /\ CloseOK /\ KnownOK /\ LocalOK
        /\ pos \in Position /\ intent \in [Intents -> Intent] /\ row \in [Cids -> LocalOrder]
        /\ xs \in ExitState /\ attn \in Attention /\ fills \in [Cids -> Fill]
        /\ Closes \subseteq Intents
    BY SameRows
  <1>2. UNCHANGED <<pos, intent, row, xs, attn, fills, lock, ord, held, sent, profile, faults,
                    cancels>> /\ pos.st # "closed"
    BY DEF PositionRead
  <1> DEFINE v == [Idle EXCEPT !.pc = "position", !.h = held]
  <1>3. v \in Process /\ v.pc = "position" /\ v.h = held /\ v.i = Nobody /\ v.seen = "none"
    BY <1>1, IdleType DEF Process, Steps, Idle, TypeOK
  <1>4. w' = [w EXCEPT !["lifecycle"] = v]
    BY DEF PositionRead
  <1> HIDE DEF v
  <1>5. w' \in [Procs -> Process] /\ Others("lifecycle") /\ w'["lifecycle"] = v
    BY <1>1, <1>3, <1>4, Assign DEF TypeOK, Procs
  <1>6. LocalOK'
    BY <1>1, <1>2, <1>3, <1>5 DEF LocalOK, Others, Procs, Submitters, TypeOK, Position
  <1>7. SeenTrue("lifecycle")'
    BY <1>3, <1>5 DEF SeenTrue, True, OrderStatuses, Terminal
  <1>8. CloseOK'
    BY <1>1, <1>2, <1>3, <1>5, CloseLife
  <1>9. ASSUME NEW j \in Closes, Accounts(j) PROVE Accounts(j)'
    <2>1. intent'[j].st = "submitting"
      BY <1>2, <1>9 DEF Accounts
    <2> QED BY <1>3, <1>5, <1>9, <2>1, AccountsLife
  <1>10. KnownOK'
    BY <1>1, <1>2, <1>9, KnownLife
  <1> QED BY <1>1, <1>2, <1>3, <1>5, <1>6, <1>7, <1>8, <1>10, SameRows, LifeStep

(* ... and writes it: nothing was sold in between that would make it grow. *)
LEMMA PositionApplyKeeps ==
  ASSUME IInv, PositionApply
  PROVE  IInv'
  <1>1. /\ TypeOK /\ RowsTrue /\ StateTrue /\ CloseOK /\ KnownOK /\ LocalOK
        /\ pos \in Position /\ intent \in [Intents -> Intent] /\ row \in [Cids -> LocalOrder]
        /\ xs \in ExitState /\ attn \in Attention /\ fills \in [Cids -> Fill]
        /\ Closes \subseteq Intents
    BY SameRows
  <1>2. UNCHANGED <<intent, row, xs, attn, fills, lock, ord, held, sent, profile, faults,
                    cancels>>
    BY DEF PositionApply
  <1>3. w["lifecycle"] \in Process /\ w["lifecycle"].pc = "position"
    BY <1>1 DEF TypeOK, Procs, PositionApply, At
  <1>4. PICK h \in Int : h = w["lifecycle"].h
    BY <1>3 DEF Process
  <1>5. /\ held <= h /\ h <= pos.qty /\ pos.st # "closed" /\ pos.qty \in 1..Qty /\ held \in Int
    BY <1>1, <1>3, <1>4 DEF LocalOK, Position, TypeOK
  <1>6. StateTrue'
    BY <1>1, <1>2, <1>5 DEF StateTrue, True
  <1>7. RowsTrue'
    BY <1>2, SameRows
  <1>8. CASE /\ h # 0 /\ Stop("lifecycle")
             /\ pos' = IF h > 0 THEN [st |-> "open", qty |-> h] ELSE pos
    <2>1. /\ w' \in [Procs -> Process] /\ Others("lifecycle")
          /\ w'["lifecycle"].pc = "idle" /\ w'["lifecycle"].i = Nobody
          /\ SeenTrue("lifecycle")'
      BY <1>1, <1>8, LifeIdle
    <2>2. pos' \in Position /\ held <= pos'.qty /\ pos'.qty <= pos.qty /\ pos'.qty \in Int
      <3>1. CASE h > 0
        <4>1. h \in 1..Qty
          BY <1>5, <3>1, ExitAssumption
        <4> QED BY <1>5, <1>8, <3>1, <4>1 DEF Position
      <3>2. CASE ~(h > 0)
        BY <1>1, <1>5, <1>8, <3>2, ExitAssumption
      <3> QED BY <3>1, <3>2
    <2>3. LocalOK'
      <3>1. \A p \in Submitters \ {"corrective"} : w'[p] = w[p] /\ w[p].loc \in Int
        BY <1>1, <2>1 DEF Others, Procs, Submitters, TypeOK, Process
      <3> QED BY <1>1, <1>2, <1>5, <2>1, <2>2, <3>1, ExitAssumption DEF LocalOK
    <2>4. CloseOK'
      BY <1>1, <1>2, <2>1, CloseLife
    <2>5. ASSUME NEW j \in Closes, Accounts(j) PROVE Accounts(j)'
      <3>1. intent'[j].st = "submitting"
        BY <1>2, <2>5 DEF Accounts
      <3> QED BY <2>1, <2>5, <3>1, AccountsLife
    <2>6. KnownOK'
      BY <1>1, <1>2, <2>5, KnownLife
    <2> QED BY <1>1, <1>2, <1>6, <1>7, <2>1, <2>2, <2>3, <2>4, <2>6, LifeStep
  <1>9. CASE h = 0 /\ pos' = [pos EXCEPT !.st = "closed"] /\ Goto("lifecycle", "closing")
    <2>1. /\ w' \in [Procs -> Process] /\ Others("lifecycle")
          /\ w'["lifecycle"] = [w["lifecycle"] EXCEPT !.pc = "closing"]
      BY <1>1, <1>9, GotoStep DEF Steps, Procs
    <2>2. /\ w'["lifecycle"].pc = "closing" /\ w'["lifecycle"].i = w["lifecycle"].i
          /\ w'["lifecycle"].seen = w["lifecycle"].seen
      BY <1>3, <2>1 DEF Process
    <2>3. pos' \in Position /\ pos'.qty = pos.qty /\ pos'.st = "closed"
      BY <1>1, <1>9 DEF Position
    <2>4. LocalOK'
      BY <1>1, <1>2, <1>5, <1>9, <2>1, <2>2, <2>3 DEF LocalOK, Others, Procs, Submitters
    <2>5. SeenTrue("lifecycle")'
      BY <1>2, <1>3, <2>2 DEF IInv, EvidenceOK, SeenTrue, True, SeenCid, Procs
    <2>6. CloseOK'
      BY <1>1, <1>2, <2>1, <2>2, CloseLife
    <2>7. ASSUME NEW j \in Closes, Accounts(j) PROVE Accounts(j)'
      <3>1. intent'[j].st = "submitting"
        BY <1>2, <2>7 DEF Accounts
      <3> QED BY <2>1, <2>2, <2>7, <3>1, AccountsLife
    <2>8. KnownOK'
      BY <1>1, <1>2, <2>7, KnownLife
    <2> QED BY <1>1, <1>2, <1>6, <1>7, <2>1, <2>2, <2>3, <2>4, <2>5, <2>6, <2>8, LifeStep
  <1> QED BY <1>4, <1>8, <1>9 DEF PositionApply


(* The fills of a closed position are fills. *)
LEMMA ClosedFillsType ==
  ASSUME TypeOK
  PROVE  ClosedFills \in [Cids -> Fill]
  <1> DEFINE new == [c \in Cids |-> Imported(c)]
             all == [c \in Cids |-> [new[c] EXCEPT !.mine = @ + (new[c].seen - @)]]
  <1>1. new \in [Cids -> Fill]
    BY ImportedType
  <1>2. ClosedFills = new \/ ClosedFills = all
    BY DEF ClosedFills
  <1> HIDE DEF new
  <1>3. ASSUME NEW c \in Cids PROVE [new[c] EXCEPT !.mine = @ + (new[c].seen - @)] \in Fill
    <2>1. new[c] \in Fill /\ new[c].seen \in 0..Qty /\ new[c].mine \in 0..Qty
      BY <1>1 DEF Fill
    <2>2. new[c].mine + (new[c].seen - new[c].mine) = new[c].seen
      BY <2>1, ExitAssumption
    <2> QED BY <2>1, <2>2 DEF Fill
  <1>4. all \in [Cids -> Fill]
    BY <1>3
  <1> QED BY <1>1, <1>2, <1>4

(* A closed position is settled. *)
LEMMA PositionClosedKeeps ==
  ASSUME IInv, PositionClosed
  PROVE  IInv'
  <1>1. /\ TypeOK /\ RowsTrue /\ StateTrue /\ CloseOK /\ KnownOK /\ LocalOK
        /\ pos \in Position /\ intent \in [Intents -> Intent] /\ row \in [Cids -> LocalOrder]
        /\ xs \in ExitState /\ attn \in Attention /\ fills \in [Cids -> Fill]
        /\ Closes \subseteq Intents
    BY SameRows
  <1>2. UNCHANGED <<pos, lock, ord, held, sent, profile, faults, cancels>>
    BY DEF PositionClosed
  <1>3. /\ w' \in [Procs -> Process] /\ Others("lifecycle")
        /\ w'["lifecycle"].pc = "idle" /\ w'["lifecycle"].i = Nobody
        /\ SeenTrue("lifecycle")'
    BY <1>1, LifeIdle DEF PositionClosed
  <1>4. fills' \in [Cids -> Fill] /\ attn' \in Attention
    BY <1>1, ClosedFillsType, ResolvedType DEF PositionClosed
  <1>5. xs' \in ExitState /\ xs'.ost = xs.ost /\ xs'.bid = xs.bid
    <2>1. xs' = [xs EXCEPT !.st = "closed", !.att = FALSE]
      BY DEF PositionClosed
    <2>2. "closed" \in ExitStatuses /\ FALSE \in BOOLEAN
      BY DEF ExitStatuses
    <2> QED BY <1>1, <2>1, <2>2 DEF ExitState
  <1>6. pos.st = "closed"
    BY <1>1 DEF LocalOK, PositionClosed, At
  <1>7. LocalOK' /\ StateTrue'
    BY <1>1, <1>2, <1>3, <1>5, <1>6, LocalLife DEF StateTrue, True
  <1>8. ASSUME NEW c \in Cids
        PROVE  /\ row'[c] \in LocalOrder /\ row'[c].by = row[c].by
               /\ \/ row'[c] = row[c]
                  \/ row'[c].st = "filled" /\ FullFill(c)
    <2>1. row'[c] = IF FullFill(c) /\ row[c].st \notin Terminal
                    THEN [row[c] EXCEPT !.st = "filled"] ELSE row[c]
      BY DEF PositionClosed
    <2>2. row[c] \in LocalOrder
      BY <1>1
    <2>3. CASE FullFill(c) /\ row[c].st \notin Terminal
      <3>1. [row[c] EXCEPT !.st = "filled"] \in LocalOrder
        BY <1>1, <2>3, FullFillTrue
      <3> QED BY <2>1, <2>2, <2>3, <3>1 DEF LocalOrder
    <2>4. CASE ~ (FullFill(c) /\ row[c].st \notin Terminal)
      BY <2>1, <2>2, <2>4
    <2> QED BY <2>3, <2>4
  <1>9. row' \in [Cids -> LocalOrder]
    <2>1. row' = [c \in Cids |-> row'[c]]
      BY DEF PositionClosed
    <2> QED BY <1>8, <2>1
  <1>10. RowsTrue'
    <2> SUFFICES ASSUME NEW c \in Cids
                 PROVE  (True(c, row[c].st) /\ (row[c].by # Nobody => row[c].st # "none"))'
      BY DEF RowsTrue
    <2>1. CASE row'[c] = row[c]
      BY <1>1, <1>2, <2>1 DEF RowsTrue, True
    <2>2. CASE row'[c].st = "filled" /\ FullFill(c)
      BY <1>1, <1>2, <2>2, FullFillTrue DEF True
    <2> QED BY <1>8, <2>1, <2>2
  <1>11. ASSUME NEW i \in Intents
         PROVE  /\ intent'[i] \in Intent
                /\ \/ intent'[i] = intent[i]
                   \/ intent'[i].st = "filled" /\ FullFill(Cid(i)) /\ row[Cid(i)].by = i
    <2>1. intent'[i] = IF FullFill(Cid(i)) /\ row[Cid(i)].by = i /\ intent[i].st \notin Terminal
                       THEN [intent[i] EXCEPT !.st = "filled"] ELSE intent[i]
      BY DEF PositionClosed
    <2>2. intent[i] \in Intent
      BY <1>1
    <2>3. [intent[i] EXCEPT !.st = "filled"] \in Intent /\ [intent[i] EXCEPT !.st = "filled"].st = "filled"
      BY <2>2 DEF Intent, OrderStatuses
    <2> QED BY <2>1, <2>2, <2>3
  <1>12. intent' \in [Intents -> Intent]
    <2>1. intent' = [i \in Intents |-> intent'[i]]
      BY DEF PositionClosed
    <2> QED BY <1>11, <2>1
  <1>13. CloseOK'
    <2>1. \A j \in Closes :
            \/ intent'[j] = intent[j]
            \/ /\ \A q \in Submitters : w[q].i # j
               /\ intent'[j].st # "none"
               /\ intent'[j].st \in ActiveClose => intent[j].st \in ActiveClose
      BY <1>1, <1>11, CidOf DEF ActiveClose, CloseOK
    <2> QED BY <1>1, <1>3, <1>8, <2>1, CloseLife
  <1>14. KnownOK'
    <2>1. CASE FullFill("close")
      BY <1>1, <1>2, <2>1, FullFillTrue, FewCids, KnownLife DEF Prompt
    <2>2. CASE ~ FullFill("close")
      <3>1. row'["close"] = row["close"]
        BY <1>8, <2>2, FewCids
      <3>2. \A j \in Closes : intent'[j] = intent[j]
        BY <1>1, <1>11, <2>2, CidOf
      <3>3. ASSUME NEW j \in Closes, Accounts(j) PROVE Accounts(j)'
        <4>1. intent'[j].st = "submitting"
          BY <3>2, <3>3 DEF Accounts
        <4> QED BY <1>3, <3>3, <4>1, AccountsLife
      <3> QED BY <1>1, <1>2, <3>1, <3>3, KnownLife
    <2> QED BY <2>1, <2>2
  <1> QED
    BY <1>1, <1>2, <1>3, <1>4, <1>5, <1>7, <1>9, <1>10, <1>12, <1>13, <1>14, LifeStep

(* The sync workers *)
LEMMA SyncNextKeeps ==
  ASSUME IInv, SyncNext
  PROVE  IInv'
  BY SyncReadKeeps, ImportKeeps, SyncRowKeeps, SyncIntentKeeps, PositionReadKeeps,
     PositionApplyKeeps, PositionClosedKeeps DEF SyncNext

-----------------------------------------------------------------------------
(* The broker, and processes that die *)

(* What the broker does makes no copied status false. *)
LEMMA BrokerEvidence ==
  ASSUME TypeOK, EvidenceOK, UNCHANGED <<pos, row, xs, w>>,
         \A d \in Cids : \A s : True(d, s) => True(d, s)'
  PROVE  EvidenceOK'
  <1>1. RowsTrue' /\ StateTrue'
    BY FewCids DEF EvidenceOK, RowsTrue, StateTrue
  <1>2. ASSUME NEW q \in Procs PROVE SeenTrue(q)'
    <2>1. SeenCid(q) \in Cids
      BY FewCids DEF SeenCid, TypeOK, Process, Cid, Intents, Cids
    <2> QED BY <2>1 DEF EvidenceOK, SeenTrue, SeenCid
  <1> QED BY <1>1, <1>2 DEF EvidenceOK

(* An order that ends makes none work and sells nothing. *)
LEMMA BrokerKeeps ==
  ASSUME IInv, TypeOK',
         UNCHANGED <<pos, intent, row, xs, attn, fills, lock, w, held, sent, profile, faults>>,
         \A d \in Cids : \A s : True(d, s) => True(d, s)',
         \A d \in Cids : /\ (Working(d)' => Working(d)) /\ (Prompt(d)' => Prompt(d))
                         /\ ord[d].st # "none" => ord'[d].st # "none"
                         /\ ord'[d].wire # {} => ord'[d].st = "none"
                         /\ ord'[d].late = ord[d].late /\ ord'[d].done = ord[d].done
                         /\ ord'[d].qty = ord[d].qty
  PROVE  IInv'
  <1>1. Budget' = Budget
    <2>1. LateDone' = LateDone
      BY LateSame
    <2> QED BY <2>1 DEF Budget
  <1>2. OrdersOK'
    BY <1>1 DEF IInv, OrdersOK
  <1>3. VerifyOK'
    BY <1>1 DEF IInv, VerifyOK, Verified, NonePrompt
  <1>4. TrailOK'
    BY FewCids DEF IInv, TrailOK, Protects
  <1>5. LockOK' /\ BusyOK' /\ LocalOK' /\ CloseOK'
    BY DEF IInv, LockOK, BusyOK, LocalOK, CloseOK, Pending
  <1>6. EvidenceOK'
    BY BrokerEvidence DEF IInv
  <1>7. KnownOK'
    BY FewCids DEF IInv, KnownOK, Accounts
  <1> QED BY <1>2, <1>3, <1>4, <1>5, <1>6, <1>7 DEF IInv

(* A sum changes as the one summand that changes. *)
LEMMA TotalChange ==
  ASSUME NEW f \in [Cids -> Int], NEW g \in [Cids -> Int], NEW c \in Cids,
         \A d \in Cids \ {c} : g[d] = f[d]
  PROVE  Total(g) = Total(f) + (g[c] - f[c])
  <1> DEFINE F(d) == IF d \in Cids THEN f[d] ELSE 0
             G(d) == IF d \in Cids THEN g[d] ELSE 0
  <1>1. \A d : F(d) \in Int /\ G(d) \in Int
    OBVIOUS
  <1>2. /\ Total(f) = F("close") + F("trail") + F("corrective-r1") + F("corrective-r2")
                        + F("corrective-r3")
        /\ Total(g) = G("close") + G("trail") + G("corrective-r1") + G("corrective-r2")
                        + G("corrective-r3")
    BY DEF Total
  <1>3. \A d : d # c => G(d) = F(d)
    OBVIOUS
  <1>4. F(c) = f[c] /\ G(c) = g[c]
    OBVIOUS
  <1>5. c \in {"close", "trail", "corrective-r1", "corrective-r2", "corrective-r3"}
    BY FewCids
  <1> HIDE DEF F, G
  <1> QED BY <1>1, <1>2, <1>3, <1>4, <1>5

(* A share sold by a late order is one that verified sells need not cover. *)
LEMMA LateShare ==
  ASSUME TypeOK, NEW c \in Cids, ord' \in [Cids -> BrokerOrder],
         \A d \in Cids \ {c} : ord'[d] = ord[d],
         ord'[c].late = ord[c].late, ord'[c].done = ord[c].done + 1
  PROVE  LateDone' = IF ord[c].late THEN LateDone + 1 ELSE LateDone
  <1> DEFINE f == [d \in Cids |-> IF ord[d].late THEN ord[d].done ELSE 0]
             g == [d \in Cids |-> IF ord'[d].late THEN ord'[d].done ELSE 0]
  <1>1. \A d \in Cids : ord[d].done \in Int /\ ord'[d].done \in Int
    BY ExitAssumption DEF TypeOK, BrokerOrder
  <1>2. f \in [Cids -> Int] /\ g \in [Cids -> Int] /\ \A d \in Cids \ {c} : g[d] = f[d]
    BY <1>1
  <1>3. g[c] - f[c] = IF ord[c].late THEN 1 ELSE 0
    BY <1>1
  <1>4. LateDone = Total(f) /\ LateDone' = Total(g)
    BY DEF LateDone
  <1> HIDE DEF f, g
  <1>5. Total(g) = Total(f) + (g[c] - f[c])
    BY <1>2, TotalChange
  <1>6. LateDone \in Int
    BY LateNat
  <1> QED BY <1>3, <1>4, <1>5, <1>6

(* A share is sold. *)
LEMMA FillKeeps ==
  ASSUME IInv, NEW c \in Cids, FillShare(c)
  PROVE  IInv'
  <1>1. TypeOK /\ OrdersOK /\ ord[c] \in BrokerOrder /\ Working(c)
    BY DEF IInv, TypeOK, FillShare
  <1>2. UNCHANGED <<pos, intent, row, xs, attn, fills, lock, w, sent, profile, faults, cancels>>
    BY DEF FillShare
  <1>3. /\ ord[c].done < ord[c].qty /\ held \in Int
        /\ ord[c].qty \in 0..Qty /\ ord[c].done \in 0..Qty /\ Qty \in Nat
    BY <1>1, ExitAssumption DEF OrdersOK, BrokerOrder, TypeOK
  <1> DEFINE n == ord[c].done + 1
             st == IF n = ord[c].qty THEN "filled" ELSE "partially_filled"
             e == [ord[c] EXCEPT !.done = n, !.st = st]
  <1>4. n \in 0..Qty /\ n <= ord[c].qty /\ st \in {"filled", "partially_filled"}
        /\ (st = "filled" <=> n = ord[c].qty)
    BY <1>3
  <1>5. ord' = [ord EXCEPT ![c] = e] /\ held' = held - 1
    BY <1>1 DEF FillShare, TypeOK
  <1>6. n = ord[c].done + 1
    OBVIOUS
  <1> HIDE DEF n, st
  <1>7. /\ e \in BrokerOrder /\ e.st = st /\ e.done = n /\ e.qty = ord[c].qty
        /\ e.late = ord[c].late /\ e.wire = ord[c].wire
    BY <1>1, <1>4 DEF BrokerOrder, OrderStatuses
  <1> HIDE DEF e
  <1>8. ord' \in [Cids -> BrokerOrder] /\ ord'[c] = e /\ \A d \in Cids \ {c} : ord'[d] = ord[d]
    BY <1>1, <1>5, <1>7 DEF TypeOK
  <1>9. TypeOK'
    BY <1>1, <1>2, <1>3, <1>5, <1>8 DEF TypeOK
  <1>10. LockOK' /\ BusyOK' /\ TrailOK'
    BY <1>2, <1>4, <1>7, <1>8, FewCids DEF IInv, LockOK, BusyOK, TrailOK, Protects
  <1>11. \A d \in Cids : (Working(d)' => Working(d)) /\ (Prompt(d)' => Prompt(d))
    BY <1>1, <1>7, <1>8 DEF Prompt, Working
  <1>19. Budget \in Int /\ Budget' = IF ord[c].late THEN Budget ELSE Budget - 1
    <2>1. LateDone' = IF ord[c].late THEN LateDone + 1 ELSE LateDone
      BY <1>1, <1>6, <1>7, <1>8, LateShare
    <2> QED BY <1>1, <1>3, <1>5, <2>1, LateNat DEF Budget
  <1>12. OrdersOK'
    <2>1. Working(c)' => n < ord[c].qty
      BY <1>3, <1>4, <1>7, <1>8 DEF Working, Nonterminal, OrderStatuses, Terminal
    <2>2. ~ord[c].late => 1 <= Budget /\ (Prompt(c)' => ord[c].qty - n <= Budget')
      BY <1>1, <1>3, <1>6, <1>19 DEF OrdersOK, Prompt
    <2>3. ASSUME NEW d \in Cids, Prompt(d)'
          PROVE  ord'[d].qty - ord'[d].done <= Budget'
      <3>1. CASE ord[c].late
        <4>1. d # c /\ Prompt(d)
          BY <1>7, <1>8, <1>11, <2>3, <3>1 DEF Prompt
        <4> QED BY <1>1, <1>8, <1>19, <3>1, <4>1 DEF OrdersOK
      <3>2. CASE ~ord[c].late
        <4>1. d = c
          BY <1>1, <1>11, <2>3, <3>2 DEF OrdersOK, Prompt
        <4> QED BY <1>7, <1>8, <2>2, <2>3, <3>2, <4>1
      <3> QED BY <3>1, <3>2
    <2>4. 0 <= Budget'
      BY <1>1, <1>19, <2>2 DEF OrdersOK
    <2>5. \A d \in Cids : Working(d)' => ord'[d].done < ord'[d].qty
      BY <1>1, <1>7, <1>8, <1>11, <2>1 DEF OrdersOK
    <2>6. \A d \in Cids : /\ ord'[d].wire # {} => ord'[d].st = "none"
                          /\ ord'[d].st = "none" => ord'[d].done = 0
      BY <1>1, <1>4, <1>7, <1>8 DEF OrdersOK, Working, Nonterminal, OrderStatuses
    <2>7. \A d, k \in Cids : Prompt(d)' /\ Prompt(k)' => d = k
      BY <1>1, <1>11 DEF OrdersOK
    <2> QED BY <2>3, <2>4, <2>5, <2>6, <2>7 DEF OrdersOK
  <1>13. VerifyOK'
    <2>1. ASSUME NEW q \in Int, Verified(q) PROVE Verified(q)'
      <3>1. ord[c].late
        BY <1>1, <2>1 DEF Verified, NonePrompt, Prompt
      <3> QED BY <1>3, <1>5, <1>11, <1>19, <2>1, <3>1 DEF Verified, NonePrompt
    <2>2. \A p \in Submitters : w[p].h \in Int /\ w[p].q \in Int
      BY <1>1 DEF TypeOK, Process, Procs
    <2> QED BY <1>2, <2>1, <2>2 DEF IInv, VerifyOK
  <1>14. LocalOK'
    <2>1. held' < held /\ held' \in Int /\ held \in Int
      BY <1>3, <1>5
    <2>2. w["lifecycle"].h \in Int /\ pos.qty \in Int
      BY <1>1 DEF TypeOK, Process, Procs, Position
    <2> QED BY <1>2, <2>1, <2>2 DEF IInv, LocalOK
  <1>15. \A d \in Cids : \A s : True(d, s) => True(d, s)'
    BY <1>1, <1>4, <1>7, <1>8 DEF True, Working, Terminal, OrderStatuses, Nonterminal
  <1>16. EvidenceOK'
    BY <1>1, <1>2, <1>15, BrokerEvidence DEF IInv
  <1>17. CloseOK'
    BY <1>2 DEF IInv, CloseOK, Pending
  <1>18. KnownOK'
    BY <1>2, <1>11, FewCids DEF IInv, KnownOK, Accounts
  <1> QED
    BY <1>9, <1>10, <1>12, <1>13, <1>14, <1>16, <1>17, <1>18 DEF IInv

(* An order ends. *)
LEMMA EndKeeps ==
  ASSUME IInv, NEW c \in Cids, EndUnfilled(c)
  PROVE  IInv'
  <1>1. TypeOK /\ OrdersOK /\ ord[c] \in BrokerOrder /\ Working(c)
    BY DEF IInv, TypeOK, EndUnfilled
  <1>2. UNCHANGED <<pos, intent, row, xs, attn, fills, lock, w, held, sent, profile, faults>>
    BY DEF EndUnfilled
  <1>3. cancels' \in 0..MaxCancels
    BY <1>1, ExitAssumption DEF EndUnfilled, TypeOK
  <1> DEFINE e == [ord[c] EXCEPT !.st = "canceled"]
  <1>4. ord' = [ord EXCEPT ![c] = e]
    BY <1>1 DEF EndUnfilled, TypeOK
  <1>5. /\ e \in BrokerOrder /\ e.st = "canceled" /\ e.late = ord[c].late /\ e.done = ord[c].done
        /\ e.qty = ord[c].qty /\ e.wire = ord[c].wire
    BY <1>1 DEF BrokerOrder, OrderStatuses
  <1> HIDE DEF e
  <1>6. ord' \in [Cids -> BrokerOrder] /\ ord'[c] = e /\ \A d \in Cids \ {c} : ord'[d] = ord[d]
    BY <1>1, <1>4, <1>5 DEF TypeOK
  <1>7. TypeOK'
    BY <1>1, <1>2, <1>3, <1>6 DEF TypeOK
  <1>12. \A d \in Cids : \A s : True(d, s) => True(d, s)'
    BY <1>1, <1>5, <1>6 DEF True, Working, Terminal, OrderStatuses, Nonterminal
  <1>13. \A d \in Cids : /\ (Working(d)' => Working(d)) /\ (Prompt(d)' => Prompt(d))
                         /\ ord[d].st # "none" => ord'[d].st # "none"
                         /\ ord'[d].wire # {} => ord'[d].st = "none"
                         /\ ord'[d].late = ord[d].late /\ ord'[d].done = ord[d].done
                         /\ ord'[d].qty = ord[d].qty
    BY <1>1, <1>5, <1>6
    DEF Prompt, Working, Nonterminal, Terminal, OrderStatuses, OrdersOK
  <1> QED BY <1>2, <1>7, <1>12, <1>13, BrokerKeeps

(* A request that travelled is carried out after all. *)
LEMMA LateKeeps ==
  ASSUME IInv, NEW c \in Cids, LateAccept(c)
  PROVE  IInv'
  <1>1. TypeOK /\ OrdersOK /\ ord[c] \in BrokerOrder /\ ord[c].st = "none" /\ ord[c].done = 0
    BY DEF IInv, TypeOK, LateAccept, OrdersOK
  <1>2. UNCHANGED <<pos, intent, row, xs, attn, fills, lock, w, held, sent, profile, faults,
                    cancels>>
    BY DEF LateAccept
  <1>3. PICK q \in ord[c].wire : ord' = [ord EXCEPT ![c] = NewOrder(q, TRUE)]
    BY DEF LateAccept
  <1>4. q \in 1..Qty /\ q \in 0..Qty /\ 0 \in 0..Qty /\ q > 0
    BY <1>1, <1>3, ExitAssumption DEF BrokerOrder
  <1> DEFINE e == NewOrder(q, TRUE)
  <1>5. /\ e \in BrokerOrder /\ e.st = "new" /\ e.late /\ e.done = 0 /\ e.qty = q /\ e.wire = {}
    BY <1>4 DEF BrokerOrder, OrderStatuses, NewOrder
  <1>6. ord' = [ord EXCEPT ![c] = e]
    BY <1>3
  <1> HIDE DEF e
  <1>7. ord' \in [Cids -> BrokerOrder] /\ ord'[c] = e /\ \A d \in Cids \ {c} : ord'[d] = ord[d]
    BY <1>1, <1>5, <1>6 DEF TypeOK
  <1>8. TypeOK'
    BY <1>1, <1>2, <1>7 DEF TypeOK
  <1>9. \A d \in Cids : \A s : True(d, s) => True(d, s)'
    BY <1>1, <1>5, <1>7 DEF True, Terminal, OrderStatuses
  <1>10. \A d \in Cids : /\ Prompt(d)' => Prompt(d) /\ d # c
                         /\ d # c /\ Working(d)' => Working(d)
    BY <1>5, <1>7 DEF Prompt, Working
  <1>11. Budget' = Budget
    <2>1. LateDone' = LateDone
      BY <1>1, <1>5, <1>7, LateSame
    <2> QED BY <1>2, <2>1 DEF Budget
  <1>12. OrdersOK'
    <2>1. \A d \in Cids : Working(d)' => ord'[d].done < ord'[d].qty
      BY <1>1, <1>4, <1>5, <1>7, <1>10 DEF OrdersOK
    <2>2. \A d \in Cids : /\ ord'[d].wire # {} => ord'[d].st = "none"
                          /\ ord'[d].st = "none" => ord'[d].done = 0
      BY <1>1, <1>5, <1>7 DEF OrdersOK
    <2>3. \A d \in Cids : Prompt(d)' => ord'[d].qty - ord'[d].done <= Budget'
      BY <1>1, <1>7, <1>10, <1>11 DEF OrdersOK
    <2> QED BY <1>1, <1>10, <1>11, <2>1, <2>2, <2>3 DEF OrdersOK
  <1>13. VerifyOK'
    BY <1>2, <1>10, <1>11 DEF IInv, VerifyOK, Verified, NonePrompt
  <1>14. TrailOK'
    BY <1>2, <1>5, <1>7, FewCids DEF IInv, TrailOK, Protects
  <1>15. LockOK' /\ BusyOK' /\ LocalOK' /\ CloseOK'
    BY <1>2 DEF IInv, LockOK, BusyOK, LocalOK, CloseOK, Pending
  <1>16. EvidenceOK'
    BY <1>1, <1>2, <1>9, BrokerEvidence DEF IInv
  <1>17. KnownOK'
    BY <1>2, <1>10, FewCids DEF IInv, KnownOK, Accounts
  <1> QED BY <1>8, <1>12, <1>13, <1>14, <1>15, <1>16, <1>17 DEF IInv


(* A process dies. *)
LEMMA AbortKeeps ==
  ASSUME IInv, NEW p \in Procs, Abort(p)
  PROVE  IInv'
  <1>1. TypeOK /\ faults' \in 0..MaxFaults /\ attn \in Attention /\ sent \subseteq Intents
    BY FaultStep DEF IInv, Abort, TypeOK
  <1>2. UNCHANGED <<pos, intent, row, xs, attn, fills, ord, held, sent, profile, cancels>>
    BY DEF Abort
  <1>3. w' \in [Procs -> Process] /\ Others(p) /\ w'[p] = Idle
    BY <1>1, StopStep DEF Abort
  <1>4. w'[p].pc = "idle" /\ w'[p].i = Nobody /\ w'[p].seen = "none"
    BY <1>3 DEF Idle
  <1>5. SeenTrue(p)'
    BY <1>4 DEF SeenTrue, True, OrderStatuses, Terminal
  <1>6. Nobody \notin Closes
    BY IdentityAssumption DEF Intents
  <1>7. CASE p \in Submitters
    <2>1. lock' \in Submitters \cup {Nobody} /\ (\A q \in Submitters \ {p} : lock = q => lock' = q)
      BY <1>1 DEF TypeOK, Abort
    <2>2. LockOK'
      BY <1>3, <1>4, <1>7, <2>1, LockKeeps DEF IInv, Verifying
    <2>3. VerifyOK'
      BY <1>2, <1>3, <1>4, VerifyKeeps DEF IInv
    <2> QED
      BY <1>1, <1>2, <1>3, <1>4, <1>5, <1>6, <1>7, <2>1, <2>2, <2>3, OwnStep
      DEF Protects, Claimed, Submitting, Verifying
  <1>8. CASE p = "lifecycle"
    <2>1. lock' = lock
      BY <1>1, <1>8, IdentityAssumption DEF TypeOK, Abort, Procs, Submitters
    <2>2. LocalOK'
      BY <1>2, <1>3, <1>4, <1>8, LocalLife DEF IInv
    <2>3. CloseOK'
      BY <1>2, <1>3, <1>4, <1>8, CloseLife DEF IInv
    <2>4. ASSUME NEW j \in Closes, Accounts(j) PROVE Accounts(j)'
      <3>1. intent'[j].st = "submitting"
        BY <1>2, <2>4 DEF Accounts
      <3> QED BY <1>3, <1>4, <1>6, <1>8, <2>4, <3>1, AccountsLife
    <2>5. KnownOK'
      BY <1>2, <2>4, KnownLife DEF IInv
    <2> QED
      BY <1>1, <1>2, <1>3, <1>4, <1>5, <1>8, <2>1, <2>2, <2>3, <2>5, SameRows, LifeStep
  <1> QED BY <1>7, <1>8 DEF Procs

-----------------------------------------------------------------------------
(* exit-evaluator.service and trailing-stop-exit.service *)

(* A step of the evaluator outside a submission and a close. *)
LEMMA TrailStep ==
  ASSUME IInv, Others("evaluator"), w' \in [Procs -> Process],
         UNCHANGED <<pos, attn, fills, lock, ord, held, sent, profile, cancels>>,
         faults' = faults \/ faults' \in 0..MaxFaults,
         intent' \in [Intents -> Intent], \A j \in Closes : intent'[j] = intent[j],
         row' \in [Cids -> LocalOrder], RowsTrue', row'["close"] = row["close"],
         \A c \in Cids : row'[c].by \in Closes => row'[c].by = row[c].by,
         xs' \in ExitState, StateTrue', xs'.bid => xs.bid \/ ord["trail"].st # "none",
         w'["evaluator"].pc \notin Verifying \cup {"xFind", "protRead"},
         w'["evaluator"].i \in {"trail", Nobody},
         w'["evaluator"].pc \in Submitting => w'["evaluator"].i = "trail",
         w'["evaluator"].pc \in Claimed => pos.qty <= w'["evaluator"].loc,
         Protects', SeenTrue("evaluator")'
  PROVE  IInv'
  <1> USE DEF IInv
  <1>1. /\ "evaluator" \in Submitters /\ "evaluator" # "corrective"
        /\ w'["evaluator"].i \notin Closes
        /\ "trail" \in Intents
    BY IdentityAssumption DEF Submitters, Intents
  <1>2. LockOK'
    BY <1>1, LockKeeps
  <1>3. CloseOK'
    BY <1>1, CloseKeeps
  <1>4. KnownOK'
    BY <1>1, KnownKeeps DEF Prompt, Working
  <1>5. /\ attn' \in Attention /\ faults' \in 0..MaxFaults /\ lock' \in Submitters \cup {Nobody}
        /\ pos' \in Position
    BY DEF TypeOK
  <1> QED BY <1>1, <1>2, <1>3, <1>4, <1>5, WriteStep DEF Verifying

(* The start of a tick. *)
LEMMA EvaluatorStartKeeps ==
  ASSUME IInv, EvaluatorStart
  PROVE  IInv'
  <1>1. TypeOK /\ attn \in Attention /\ sent \subseteq Intents /\ faults \in 0..MaxFaults
        /\ lock \in Submitters \cup {Nobody} /\ pos \in Position
    BY DEF IInv, TypeOK
  <1>2. UNCHANGED <<pos, intent, row, xs, attn, fills, lock, ord, held, sent, profile, faults,
                    cancels>>
    BY DEF EvaluatorStart
  <1>3. \E v \in Process : /\ w' = [w EXCEPT !["evaluator"] = v]
                            /\ v.pc \in {"protRead", "decide"} /\ v.i = Nobody
                            /\ v.seen = "none" /\ (v.pc = "protRead" => xs.bid)
    <2> DEFINE r == [Idle EXCEPT !.pc = "protRead"]
               d(b) == [Idle EXCEPT !.pc = "decide", !.a = b]
    <2>1. r \in Process /\ r.pc = "protRead" /\ r.i = Nobody /\ r.seen = "none"
      BY IdleType DEF Process, Idle, Steps
    <2>2. \A b \in Int : d(b) \in Process /\ d(b).pc = "decide" /\ d(b).i = Nobody
                         /\ d(b).seen = "none"
      BY IdleType DEF Process, Idle, Steps
    <2>3. CASE xs.bid /\ w' = [w EXCEPT !["evaluator"] = r]
      <3> HIDE DEF r
      <3> QED BY <2>1, <2>3
    <2> DEFINE a == IF xs.unlocked THEN 1 ELSE 0
    <2>4. CASE w' = [w EXCEPT !["evaluator"] = d(a)]
      <3>1. a \in Int
        OBVIOUS
      <3> HIDE DEF d, a
      <3> QED BY <2>2, <2>4, <3>1
    <2>5. (xs.bid /\ w' = [w EXCEPT !["evaluator"] = r]) \/ w' = [w EXCEPT !["evaluator"] = d(a)]
      BY DEF EvaluatorStart
    <2> HIDE DEF r, d, a
    <2> QED BY <2>3, <2>4, <2>5
  <1>5. PICK v \in Process : /\ w' = [w EXCEPT !["evaluator"] = v]
                             /\ v.pc \in {"protRead", "decide"} /\ v.i = Nobody
                             /\ v.seen = "none" /\ (v.pc = "protRead" => xs.bid)
    BY <1>3
  <1>7. w' \in [Procs -> Process] /\ Others("evaluator") /\ w'["evaluator"] = v
    BY <1>1, <1>5, Assign DEF TypeOK, Procs, Submitters
  <1>8. "evaluator" \in Submitters /\ "evaluator" # "corrective" /\ "evaluator" \in Procs
    BY DEF Submitters, Procs
  <1>9. LockOK'
    BY <1>2, <1>5, <1>7, <1>8, LockKeeps DEF IInv, Verifying
  <1>10. VerifyOK'
    BY <1>2, <1>5, <1>7, <1>8, VerifyKeeps DEF IInv
  <1>11. SeenTrue("evaluator")'
    BY <1>5, <1>7 DEF SeenTrue, True, OrderStatuses, Terminal
  <1>12. v.pc = "protRead" => ord["trail"].st # "none"
    BY <1>5 DEF IInv, TrailOK
  <1>13. Nobody \notin Closes
    BY IdentityAssumption DEF Intents
  <1> QED
    BY <1>1, <1>2, <1>5, <1>7, <1>8, <1>9, <1>10, <1>11, <1>12, <1>13, OwnStep
    DEF Protects, Claimed, Submitting, Verifying


(* The evaluator comes to rest. *)
LEMMA EvaluatorIdle ==
  ASSUME TypeOK, Stop("evaluator")
  PROVE  /\ w' \in [Procs -> Process] /\ Others("evaluator")
         /\ w'["evaluator"].pc = "idle" /\ w'["evaluator"].i = Nobody
         /\ SeenTrue("evaluator")'
  <1>1. w' \in [Procs -> Process] /\ Others("evaluator") /\ w'["evaluator"] = Idle
    BY StopStep DEF Procs, Submitters
  <1>2. /\ w'["evaluator"].pc = "idle" /\ w'["evaluator"].i = Nobody
        /\ w'["evaluator"].seen = "none"
    BY <1>1 DEF Idle
  <1> QED BY <1>1, <1>2 DEF SeenTrue, True, OrderStatuses, Terminal

(* The protective order is read. *)
LEMMA ProtectiveReadKeeps ==
  ASSUME IInv, ProtectiveRead
  PROVE  IInv'
  <1>1. /\ TypeOK /\ RowsTrue /\ StateTrue /\ intent \in [Intents -> Intent]
        /\ row \in [Cids -> LocalOrder] /\ xs \in ExitState /\ TrailOK
        /\ w["evaluator"] \in Process /\ "evaluator" \in Procs
    BY DEF IInv, TypeOK, EvidenceOK, Procs, Submitters
  <1>2. UNCHANGED <<pos, intent, row, xs, attn, fills, lock, ord, held, sent, profile, cancels>>
    BY DEF ProtectiveRead
  <1>3. w["evaluator"].pc = "protRead" /\ w["evaluator"].i = Nobody /\ ord["trail"].st # "none"
    BY <1>1 DEF ProtectiveRead, At, TrailOK, Protects
  <1>4. RowsTrue' /\ StateTrue'
    BY <1>2, SameRows
  <1>5. CASE Fault /\ Stop("evaluator")
    <2>1. faults' \in 0..MaxFaults
      BY <1>1, <1>5, FaultStep
    <2> QED
      BY <1>1, <1>2, <1>4, <1>5, <2>1, EvaluatorIdle, TrailStep
      DEF Protects, Claimed, Submitting, Verifying
  <1>6. CASE /\ w' = [w EXCEPT !["evaluator"].pc = "protWrite",
                               !["evaluator"].seen = ord["trail"].st]
             /\ UNCHANGED faults
    <2>1. PICK st \in OrderStatuses : st = ord["trail"].st
      BY <1>1, <1>3, FewCids DEF TypeOK, BrokerOrder
    <2> DEFINE v == [w["evaluator"] EXCEPT !.pc = "protWrite", !.seen = st]
    <2>2. w' = [w EXCEPT !["evaluator"] = v]
      BY <1>1, <1>6, <2>1 DEF TypeOK
    <2>3. v \in Process /\ v.pc = "protWrite" /\ v.i = Nobody /\ v.seen = st
      BY <1>1, <1>3 DEF Process, Steps
    <2> HIDE DEF v
    <2>4. w' \in [Procs -> Process] /\ Others("evaluator") /\ w'["evaluator"] = v
      BY <1>1, <2>2, <2>3, Assign DEF TypeOK
    <2>5. SeenTrue("evaluator")'
      BY <1>2, <2>1, <2>3, <2>4 DEF SeenTrue, True, SeenCid, OrderStatuses, Terminal
    <2> QED
      BY <1>1, <1>2, <1>4, <1>6, <2>3, <2>4, <2>5, TrailStep
      DEF Protects, Claimed, Submitting, Verifying
  <1> QED BY <1>5, <1>6 DEF ProtectiveRead

(* What was read is written to the exit state and the local order. *)
LEMMA ProtectiveWriteKeeps ==
  ASSUME IInv, ProtectiveWrite
  PROVE  IInv'
  <1>1. /\ TypeOK /\ RowsTrue /\ StateTrue /\ intent \in [Intents -> Intent]
        /\ row \in [Cids -> LocalOrder] /\ xs \in ExitState /\ TrailOK
        /\ w["evaluator"] \in Process /\ "evaluator" \in Procs
    BY DEF IInv, TypeOK, EvidenceOK, Procs, Submitters
  <1>2. UNCHANGED <<pos, intent, attn, fills, lock, ord, held, sent, profile, faults, cancels>>
    BY DEF ProtectiveWrite
  <1>3. w["evaluator"].pc = "protWrite" /\ w["evaluator"].i = Nobody
    BY <1>1 DEF ProtectiveWrite, At, TrailOK, Protects
  <1>4. PICK st \in OrderStatuses : st = w["evaluator"].seen /\ True("trail", st)
    BY <1>1, <1>3 DEF IInv, EvidenceOK, SeenTrue, SeenCid
  <1>5. /\ w' \in [Procs -> Process] /\ Others("evaluator")
        /\ w'["evaluator"].pc = "idle" /\ w'["evaluator"].i = Nobody
        /\ SeenTrue("evaluator")'
    BY <1>1, EvaluatorIdle DEF ProtectiveWrite
  <1>8. xs' \in ExitState /\ StateTrue' /\ ord["trail"].st # "none"
    BY <1>1, <1>2, <1>4, ProtectiveTrue DEF ProtectiveWrite
  <1> DEFINE r == IF row["trail"].st = "none" THEN row["trail"]
                  ELSE [row["trail"] EXCEPT !.st = st]
  <1>9. row["trail"] \in LocalOrder
    BY <1>1, FewCids
  <1>10. /\ r \in LocalOrder /\ r.by = row["trail"].by
         /\ r.st = row["trail"].st \/ r.st = st
    BY <1>9 DEF LocalOrder
  <1>11. row' = [row EXCEPT !["trail"] = r]
    BY <1>1, <1>4, <1>9, FewCids DEF ProtectiveWrite, LocalOrder
  <1>12. True("trail", r.st) /\ (r.by # Nobody => r.st # "none")
    BY <1>1, <1>4, <1>10, FewCids DEF RowsTrue, OrderStatuses
  <1> HIDE DEF r
  <1>13. /\ row' \in [Cids -> LocalOrder] /\ row'["trail"] = r /\ RowsTrue'
         /\ \A d \in Cids \ {"trail"} : row'[d] = row[d]
    BY <1>1, <1>2, <1>10, <1>11, <1>12, FewCids, RowChange
  <1>14. row'["close"] = row["close"] /\ \A c \in Cids : row'[c].by = row[c].by
    BY <1>10, <1>13, FewCids
  <1> QED
    BY <1>1, <1>2, <1>5, <1>8, <1>13, <1>14, TrailStep
    DEF Protects, Claimed, Submitting, Verifying

(* The decision. *)
LEMMA DecideKeeps ==
  ASSUME IInv, EvaluatorDecide
  PROVE  IInv'
  <1>1. /\ TypeOK /\ RowsTrue /\ StateTrue /\ intent \in [Intents -> Intent]
        /\ row \in [Cids -> LocalOrder] /\ xs \in ExitState
        /\ w["evaluator"] \in Process /\ "evaluator" \in Procs
    BY DEF IInv, TypeOK, EvidenceOK, Procs, Submitters
  <1>2. UNCHANGED <<row, attn, fills, lock, ord, held, sent, profile, faults, cancels>>
    BY DEF EvaluatorDecide
  <1>3. RowsTrue'
    BY <1>2, SameRows
  <1>4. CASE Stop("evaluator") /\ UNCHANGED <<pos, intent, xs>>
    BY <1>1, <1>2, <1>3, <1>4, EvaluatorIdle, SameRows, TrailStep
    DEF Protects, Claimed, Submitting, Verifying
  <1>5. CASE \E i \in Closes : ClaimClose("evaluator", i) /\ UNCHANGED xs
    BY <1>2, <1>5, ClaimKeeps
  <1>6. CASE /\ Goto("evaluator", "trailClaim") /\ UNCHANGED <<pos, intent>>
             /\ xs' = IF w["evaluator"].a = 0
                      THEN [xs EXCEPT !.st = "target_unlocked", !.unlocked = TRUE] ELSE xs
    <2>1. /\ w' \in [Procs -> Process] /\ Others("evaluator")
          /\ w'["evaluator"] = [w["evaluator"] EXCEPT !.pc = "trailClaim"]
      BY <1>1, <1>6, GotoStep DEF Steps
    <2>2. /\ w'["evaluator"].pc = "trailClaim" /\ w'["evaluator"].i = w["evaluator"].i
          /\ w'["evaluator"].seen = w["evaluator"].seen
          /\ w["evaluator"].pc = "decide" /\ w["evaluator"].i = Nobody
      BY <1>1, <2>1 DEF Process, EvaluatorDecide, At, IInv, TrailOK, Protects
    <2>3. SeenTrue("evaluator")'
      BY <1>1, <1>2, <2>2 DEF IInv, EvidenceOK, SeenTrue, True, SeenCid
    <2>4. xs' \in ExitState /\ xs'.ost = xs.ost /\ xs'.att = xs.att /\ xs'.bid = xs.bid
      <3>1. "target_unlocked" \in ExitStatuses /\ TRUE \in BOOLEAN
        BY DEF ExitStatuses
      <3> QED BY <1>1, <1>6, <3>1 DEF ExitState
    <2>5. StateTrue'
      BY <1>1, <1>2, <1>6, <2>4 DEF StateTrue, True
    <2> QED
      BY <1>1, <1>2, <1>3, <1>6, <2>1, <2>2, <2>3, <2>4, <2>5, TrailStep
      DEF Protects, Claimed, Submitting, Verifying
  <1> QED BY <1>4, <1>5, <1>6 DEF EvaluatorDecide


(* The trailing intent changes. *)
LEMMA TrailIntent ==
  ASSUME TypeOK, NEW e \in Intent, intent' = [intent EXCEPT !["trail"] = e]
  PROVE  intent' \in [Intents -> Intent] /\ \A j \in Closes : intent'[j] = intent[j]
  BY IntentChange, IdentityAssumption DEF Intents

(* The evaluator starts on the trailing intent, once more or for the first *)
(* time.                                                                   *)
LEMMA TrailTaken ==
  ASSUME TypeOK, NEW v \in Process, w' = [w EXCEPT !["evaluator"] = v],
         v.pc = "trailLookup", v.i = "trail", v.loc = pos.qty, v.seen \in {"none", "again"}
  PROVE  /\ w' \in [Procs -> Process] /\ Others("evaluator")
         /\ w'["evaluator"].pc = "trailLookup" /\ w'["evaluator"].i = "trail"
         /\ pos.qty <= w'["evaluator"].loc
         /\ SeenTrue("evaluator")'
  <1>1. pos.qty \in Int
    BY DEF TypeOK, Position
  <1>2. w' \in [Procs -> Process] /\ Others("evaluator") /\ w'["evaluator"] = v
    BY Assign DEF TypeOK, Procs, Submitters
  <1>3. SeenTrue("evaluator")'
    BY <1>2 DEF SeenTrue, True, OrderStatuses, Terminal
  <1> QED BY <1>1, <1>2, <1>3

(* submitTrailingStopExitOrder up to its claim *)
LEMMA TrailClaimKeeps ==
  ASSUME IInv, TrailClaim
  PROVE  IInv'
  <1>1. /\ TypeOK /\ RowsTrue /\ StateTrue /\ intent \in [Intents -> Intent]
        /\ row \in [Cids -> LocalOrder] /\ xs \in ExitState
        /\ w["evaluator"] \in Process /\ "evaluator" \in Procs
    BY DEF IInv, TypeOK, EvidenceOK, Procs, Submitters
  <1>2. UNCHANGED <<pos, row, attn, fills, lock, ord, held, sent, profile, faults, cancels>>
    BY DEF TrailClaim
  <1>3. RowsTrue'
    BY <1>2, SameRows
  <1>8. /\ pos.qty \in 0..Qty /\ "trail" \in Intents \cup {Nobody} /\ "trailLookup" \in Steps
    BY <1>1 DEF TypeOK, Position, Intents, Steps
  <1>4. CASE Stop("evaluator") /\ UNCHANGED <<xs, intent>>
    BY <1>1, <1>2, <1>3, <1>4, EvaluatorIdle, SameRows, TrailStep
    DEF Protects, Claimed, Submitting, Verifying
  <1>5. CASE /\ row["trail"].st # "none" /\ xs' = Protective(row["trail"].st)
             /\ Stop("evaluator") /\ UNCHANGED intent
    <2>1. PICK st \in OrderStatuses : st = row["trail"].st
      BY <1>1, <1>5, FewCids DEF LocalOrder
    <2>2. True("trail", st)
      BY <1>1, <2>1, FewCids DEF RowsTrue
    <2>3. xs' \in ExitState /\ StateTrue' /\ ord["trail"].st # "none"
      BY <1>1, <1>2, <1>5, <2>1, <2>2, ProtectiveTrue
    <2> QED
      BY <1>1, <1>2, <1>3, <1>5, <2>3, EvaluatorIdle, TrailStep
      DEF Protects, Claimed, Submitting, Verifying
  <1>6. CASE /\ w' = [w EXCEPT !["evaluator"] = [Idle EXCEPT !.pc = "trailLookup", !.i = "trail",
                      !.q = pos.qty, !.loc = pos.qty, !.seen = "again",
                      !.out = intent["trail"].why]]
             /\ UNCHANGED <<intent, xs>>
    <2>1. PICK why \in Outcomes : why = intent["trail"].why
      BY <1>1 DEF Intents, Intent, Outcomes
    <2>2. /\ w' \in [Procs -> Process] /\ Others("evaluator")
          /\ w'["evaluator"].pc = "trailLookup" /\ w'["evaluator"].i = "trail"
          /\ pos.qty <= w'["evaluator"].loc
          /\ SeenTrue("evaluator")'
      <3> DEFINE v == [Idle EXCEPT !.pc = "trailLookup", !.i = "trail", !.q = pos.qty,
                                   !.loc = pos.qty, !.seen = "again", !.out = why]
      <3>1. /\ v \in Process /\ v.pc = "trailLookup" /\ v.i = "trail" /\ v.loc = pos.qty
            /\ v.seen = "again"
        BY <1>8, IdleType DEF Process, Idle
      <3> HIDE DEF v
      <3>2. w' = [w EXCEPT !["evaluator"] = v]
        BY <1>6, <2>1 DEF v
      <3> QED BY <1>1, <3>1, <3>2, TrailTaken
    <2> QED
      BY <1>1, <1>2, <1>3, <1>6, <2>2, SameRows, TrailStep DEF Protects, Verifying
  <1>7. CASE /\ xs' = [xs EXCEPT !.st = "submitting", !.cid = TRUE, !.ost = "pending"]
             /\ intent' = [intent EXCEPT !["trail"] = [st |-> "submitting", why |-> "none"]]
             /\ w' = [w EXCEPT !["evaluator"] = [Idle EXCEPT !.pc = "trailLookup", !.i = "trail",
                        !.q = pos.qty, !.loc = pos.qty]]
    <2>2. /\ w' \in [Procs -> Process] /\ Others("evaluator")
          /\ w'["evaluator"].pc = "trailLookup" /\ w'["evaluator"].i = "trail"
          /\ pos.qty <= w'["evaluator"].loc
          /\ SeenTrue("evaluator")'
      <3> DEFINE v == [Idle EXCEPT !.pc = "trailLookup", !.i = "trail", !.q = pos.qty,
                                   !.loc = pos.qty]
      <3>1. /\ v \in Process /\ v.pc = "trailLookup" /\ v.i = "trail" /\ v.loc = pos.qty
            /\ v.seen = "none"
        BY <1>8, IdleType DEF Process, Idle
      <3> HIDE DEF v
      <3>2. w' = [w EXCEPT !["evaluator"] = v]
        BY <1>7 DEF v
      <3> QED BY <1>1, <3>1, <3>2, TrailTaken
    <2>3. xs' \in ExitState /\ xs'.ost = "pending" /\ xs'.bid = xs.bid
      <3>1. "submitting" \in ExitStatuses /\ TRUE \in BOOLEAN
        BY DEF ExitStatuses
      <3> QED BY <1>1, <1>7, <3>1 DEF ExitState
    <2>4. StateTrue'
      BY <2>3 DEF StateTrue, True, OrderStatuses, Terminal
    <2>5. [st |-> "submitting", why |-> "none"] \in Intent
      BY DEF Intent
    <2>6. intent' \in [Intents -> Intent] /\ \A j \in Closes : intent'[j] = intent[j]
      BY <1>1, <1>7, <2>5, TrailIntent
    <2> QED
      BY <1>1, <1>2, <1>3, <2>2, <2>3, <2>4, <2>6, TrailStep DEF Protects, Verifying
  <1> QED BY <1>4, <1>5, <1>6, <1>7 DEF TrailClaim

(* ... its lookup by client id ... *)
LEMMA TrailLookupKeeps ==
  ASSUME IInv, TrailLookup
  PROVE  IInv'
  <1>1. /\ TypeOK /\ RowsTrue /\ StateTrue /\ intent \in [Intents -> Intent]
        /\ row \in [Cids -> LocalOrder] /\ xs \in ExitState
        /\ w["evaluator"] \in Process /\ "evaluator" \in Procs
    BY DEF IInv, TypeOK, EvidenceOK, Procs, Submitters
  <1>2. UNCHANGED <<pos, intent, row, xs, attn, fills, lock, ord, held, sent, profile, cancels>>
    BY DEF TrailLookup
  <1>3. RowsTrue' /\ StateTrue'
    BY <1>2, SameRows
  <1>4. /\ w["evaluator"].pc = "trailLookup" /\ w["evaluator"].i = "trail"
        /\ pos.qty <= w["evaluator"].loc
    BY DEF TrailLookup, At, IInv, TrailOK, Protects, LocalOK, Claimed, Submitters
  <1>5. CASE Stop("evaluator") /\ UNCHANGED faults
    BY <1>1, <1>2, <1>3, <1>5, EvaluatorIdle, TrailStep
    DEF Protects, Claimed, Submitting, Verifying
  <1>6. CASE Fault /\ Goto("evaluator", "trailFailed")
    <2>1. faults' \in 0..MaxFaults
      BY <1>1, <1>6, FaultStep
    <2>2. /\ w' \in [Procs -> Process] /\ Others("evaluator")
          /\ w'["evaluator"] = [w["evaluator"] EXCEPT !.pc = "trailFailed"]
      BY <1>1, <1>6, GotoStep DEF Steps
    <2>3. /\ w'["evaluator"].pc = "trailFailed" /\ w'["evaluator"].i = "trail"
          /\ w'["evaluator"].seen = w["evaluator"].seen
      BY <1>1, <1>4, <2>2 DEF Process
    <2>4. SeenTrue("evaluator")'
      BY <1>1, <1>2, <1>4, <2>3 DEF IInv, EvidenceOK, SeenTrue, True, SeenCid
    <2> QED
      BY <1>1, <1>2, <1>3, <2>1, <2>2, <2>3, <2>4, TrailStep
      DEF Protects, Claimed, Submitting, Verifying
  <1>7. ASSUME NEW l \in {"persist", "xLock"}, NEW st \in OrderStatuses \cup {"none"},
               l = "persist" => st = ord["trail"].st /\ st # "none", l = "xLock" => st = "none",
               w' = [w EXCEPT !["evaluator"].pc = l, !["evaluator"].seen = st,
                              !["evaluator"].out = "none"],
               UNCHANGED faults
        PROVE  IInv'
    <2> DEFINE v == [w["evaluator"] EXCEPT !.pc = l, !.seen = st, !.out = "none"]
    <2>1. w' = [w EXCEPT !["evaluator"] = v]
      BY <1>1, <1>7 DEF TypeOK
    <2>2. l \in Steps /\ "none" \in Outcomes
      BY DEF Steps, Outcomes
    <2>3. v \in Process /\ v.pc = l /\ v.i = "trail" /\ v.seen = st /\ v.loc = w["evaluator"].loc
      BY <1>1, <1>4, <2>2 DEF Process
    <2> HIDE DEF v
    <2>4. w' \in [Procs -> Process] /\ Others("evaluator") /\ w'["evaluator"] = v
      BY <1>1, <2>1, <2>3, Assign DEF TypeOK
    <2>5. SeenCid("evaluator")' = "trail"
      BY <2>3, <2>4, IdentityAssumption DEF SeenCid, Cid, Intents
    <2>6. SeenTrue("evaluator")'
      BY <1>2, <1>7, <2>3, <2>4, <2>5 DEF SeenTrue, True, OrderStatuses, Terminal
    <2> QED
      BY <1>1, <1>2, <1>3, <1>4, <1>7, <2>3, <2>4, <2>6, TrailStep
      DEF Protects, Claimed, Submitting, Verifying
  <1>8. CASE /\ ord["trail"].st # "none" /\ UNCHANGED faults
             /\ w' = [w EXCEPT !["evaluator"].pc = "persist",
                               !["evaluator"].seen = ord["trail"].st, !["evaluator"].out = "none"]
    <2>1. PICK st \in OrderStatuses : st = ord["trail"].st
      BY <1>1, <1>8, FewCids DEF TypeOK, BrokerOrder
    <2> QED BY <1>7, <1>8, <2>1
  <1> QED BY <1>5, <1>6, <1>7, <1>8 DEF TrailLookup


(* The end of the submission. *)
LEMMA TrailDoneKeeps ==
  ASSUME IInv, TrailDone
  PROVE  IInv'
  <1>1. /\ TypeOK /\ RowsTrue /\ StateTrue /\ intent \in [Intents -> Intent]
        /\ row \in [Cids -> LocalOrder] /\ xs \in ExitState
        /\ w["evaluator"] \in Process /\ "evaluator" \in Procs
    BY DEF IInv, TypeOK, EvidenceOK, Procs, Submitters
  <1>2. UNCHANGED <<pos, row, xs, attn, fills, lock, ord, held, sent, profile, faults, cancels>>
    BY DEF TrailDone
  <1>3. RowsTrue' /\ StateTrue'
    BY <1>2, SameRows
  <1>4. w["evaluator"].pc = "done" /\ w["evaluator"].i = "trail" /\ SeenTrue("evaluator")
    BY <1>1 DEF TrailDone, At, IInv, EvidenceOK
  <1>5. CASE Stop("evaluator") /\ UNCHANGED intent
    BY <1>1, <1>2, <1>3, <1>5, EvaluatorIdle, TrailStep
    DEF Protects, Claimed, Submitting, Verifying
  <1>6. ASSUME NEW l \in {"persist", "trailFailed"}, Goto("evaluator", l),
               l = "persist" => w["evaluator"].seen \in OrderStatuses,
               intent' \in [Intents -> Intent], \A j \in Closes : intent'[j] = intent[j]
        PROVE  IInv'
    <2> l \in Steps
      BY DEF Steps
    <2>1. /\ w' \in [Procs -> Process] /\ Others("evaluator")
          /\ w'["evaluator"] = [w["evaluator"] EXCEPT !.pc = l]
      BY <1>1, <1>6, GotoStep
    <2>2. /\ w'["evaluator"].pc = l /\ w'["evaluator"].i = "trail"
          /\ w'["evaluator"].seen = w["evaluator"].seen
      BY <1>1, <1>4, <2>1 DEF Process
    <2>3. SeenTrue("evaluator")'
      BY <1>2, <1>4, <1>6, <2>2 DEF SeenTrue, True, SeenCid
    <2> QED
      BY <1>1, <1>2, <1>3, <1>6, <2>1, <2>2, <2>3, TrailStep
      DEF Protects, Claimed, Submitting, Verifying
  <1>7. CASE w["evaluator"].out \in {"sent", "found"} /\ Goto("evaluator", "persist")
             /\ UNCHANGED intent
    BY <1>1, <1>4, <1>6, <1>7 DEF SeenTrue
  <1>8. CASE /\ \E e \in Intent : intent' = [intent EXCEPT !["trail"] = e]
             /\ Goto("evaluator", "trailFailed")
    BY <1>1, <1>6, <1>8, TrailIntent
  <1>9. \A out : [st |-> IF TrailClass(out) = "blocked" THEN "blocked"
                         ELSE IF TrailClass(out) = "notSent" THEN "failed" ELSE "submitting",
                  why |-> TrailClass(out)] \in Intent
    BY DEF Intent, TrailClass
  <1> QED BY <1>5, <1>7, <1>8, <1>9 DEF TrailDone

(* The trailing order gets its local row, or the write fails. *)
LEMMA TrailPersistKeeps ==
  ASSUME IInv, TrailPersist
  PROVE  IInv'
  <1>1. /\ TypeOK /\ RowsTrue /\ StateTrue /\ intent \in [Intents -> Intent]
        /\ row \in [Cids -> LocalOrder] /\ xs \in ExitState
        /\ w["evaluator"] \in Process /\ "evaluator" \in Procs
    BY DEF IInv, TypeOK, EvidenceOK, Procs, Submitters
  <1>2. UNCHANGED <<pos, xs, attn, fills, lock, ord, held, sent, profile, cancels>>
    BY DEF TrailPersist
  <1>3. w["evaluator"].pc = "persist" /\ w["evaluator"].i = "trail" /\ SeenTrue("evaluator")
    BY <1>1 DEF TrailPersist, At, IInv, EvidenceOK, TrailOK, Protects
  <1>4. SeenCid("evaluator") = "trail"
    BY <1>3, IdentityAssumption DEF SeenCid, Cid, Intents
  <1>5. PICK st \in OrderStatuses : st = w["evaluator"].seen /\ True("trail", st)
    BY <1>3, <1>4 DEF SeenTrue
  <1>6. StateTrue'
    BY <1>2, SameRows
  <1>7. ASSUME NEW l \in {"mark", "trailFailed"}, Goto("evaluator", l)
        PROVE  /\ w' \in [Procs -> Process] /\ Others("evaluator")
               /\ w'["evaluator"].pc = l /\ w'["evaluator"].i = "trail"
               /\ SeenTrue("evaluator")'
    <2> l \in Steps
      BY DEF Steps
    <2>1. /\ w' \in [Procs -> Process] /\ Others("evaluator")
          /\ w'["evaluator"] = [w["evaluator"] EXCEPT !.pc = l]
      BY <1>1, <1>7, GotoStep
    <2>2. /\ w'["evaluator"].pc = l /\ w'["evaluator"].i = "trail"
          /\ w'["evaluator"].seen = st
      BY <1>1, <1>3, <1>5, <2>1 DEF Process
    <2>3. SeenCid("evaluator")' = "trail"
      BY <2>2, IdentityAssumption DEF SeenCid, Cid, Intents
    <2> QED BY <1>2, <1>5, <2>1, <2>2, <2>3 DEF SeenTrue, True, OrderStatuses
  <1>8. CASE /\ row' = [row EXCEPT !["trail"] = [st |-> st, by |-> "trail"]]
             /\ Goto("evaluator", "mark") /\ UNCHANGED <<intent, faults>>
    <2>1. [st |-> st, by |-> "trail"] \in LocalOrder
      BY DEF LocalOrder, Intents
    <2>2. /\ row' \in [Cids -> LocalOrder] /\ RowsTrue'
          /\ row'["trail"] = [st |-> st, by |-> "trail"]
          /\ \A d \in Cids \ {"trail"} : row'[d] = row[d]
      BY <1>1, <1>2, <1>5, <1>8, <2>1, FewCids, RowChange DEF OrderStatuses
    <2>3. row'["close"] = row["close"]
      BY <2>2, FewCids
    <2>4. \A c \in Cids : row'[c].by \in Closes => row'[c].by = row[c].by
      BY <2>2, IdentityAssumption
    <2> QED
      BY <1>1, <1>2, <1>6, <1>7, <1>8, <2>2, <2>3, <2>4, TrailStep
      DEF Protects, Claimed, Submitting, Verifying
  <1>9. CASE /\ Fault /\ UNCHANGED row /\ Goto("evaluator", "trailFailed")
             /\ intent' = [intent EXCEPT !["trail"] = [st |-> "submitting", why |-> "uncertain"]]
    <2>1. faults' \in 0..MaxFaults
      BY <1>1, <1>9, FaultStep
    <2>2. [st |-> "submitting", why |-> "uncertain"] \in Intent
      BY DEF Intent
    <2>3. intent' \in [Intents -> Intent] /\ \A j \in Closes : intent'[j] = intent[j]
      BY <1>1, <1>9, <2>2, TrailIntent
    <2>4. RowsTrue'
      BY <1>2, <1>9, SameRows
    <2> QED
      BY <1>1, <1>2, <1>6, <1>7, <1>9, <2>1, <2>3, <2>4, TrailStep
      DEF Protects, Claimed, Submitting, Verifying
  <1> QED BY <1>5, <1>8, <1>9 DEF TrailPersist

(* ... then the intent and the exit state. *)
LEMMA TrailMarkKeeps ==
  ASSUME IInv, TrailMark
  PROVE  IInv'
  <1>1. /\ TypeOK /\ RowsTrue /\ StateTrue /\ intent \in [Intents -> Intent]
        /\ row \in [Cids -> LocalOrder] /\ xs \in ExitState
        /\ w["evaluator"] \in Process /\ "evaluator" \in Procs
    BY DEF IInv, TypeOK, EvidenceOK, Procs, Submitters
  <1>2. UNCHANGED <<pos, row, attn, fills, lock, ord, held, sent, profile, faults, cancels>>
    BY DEF TrailMark
  <1>3. w["evaluator"].pc = "mark" /\ w["evaluator"].i = "trail" /\ SeenTrue("evaluator")
    BY <1>1 DEF TrailMark, At, IInv, EvidenceOK, TrailOK, Protects
  <1>4. SeenCid("evaluator") = "trail"
    BY <1>3, IdentityAssumption DEF SeenCid, Cid, Intents
  <1>5. PICK st \in OrderStatuses : st = w["evaluator"].seen /\ True("trail", st)
    BY <1>3, <1>4 DEF SeenTrue
  <1>6. xs' \in ExitState /\ StateTrue' /\ ord["trail"].st # "none"
    BY <1>1, <1>2, <1>5, ProtectiveTrue DEF TrailMark
  <1>7. [st |-> "submitted", why |-> "none"] \in Intent
    BY DEF Intent
  <1>8. intent' \in [Intents -> Intent] /\ \A j \in Closes : intent'[j] = intent[j]
    BY <1>1, <1>7, TrailIntent DEF TrailMark
  <1>9. RowsTrue'
    BY <1>2, SameRows
  <1>10. /\ w' \in [Procs -> Process] /\ Others("evaluator")
         /\ w'["evaluator"].pc = "idle" /\ w'["evaluator"].i = Nobody
         /\ SeenTrue("evaluator")'
    BY <1>1, EvaluatorIdle DEF TrailMark
  <1> QED
    BY <1>1, <1>2, <1>6, <1>8, <1>9, <1>10, TrailStep
    DEF Protects, Claimed, Submitting, Verifying

(* A failed submission is marked in the exit state. *)
LEMMA TrailFailedKeeps ==
  ASSUME IInv, TrailFailed
  PROVE  IInv'
  <1>1. /\ TypeOK /\ RowsTrue /\ StateTrue /\ intent \in [Intents -> Intent]
        /\ row \in [Cids -> LocalOrder] /\ xs \in ExitState
        /\ w["evaluator"] \in Process /\ "evaluator" \in Procs
    BY DEF IInv, TypeOK, EvidenceOK, Procs, Submitters
  <1>2. UNCHANGED <<pos, intent, row, attn, fills, lock, ord, held, sent, profile, faults, cancels>>
    BY DEF TrailFailed
  <1>3. RowsTrue'
    BY <1>2, SameRows
  <1>4. xs' \in ExitState /\ xs'.ost = "submit_failed" /\ xs'.bid = xs.bid
    <2>1. "submit_failed" \in ExitStatuses /\ TRUE \in BOOLEAN
      BY DEF ExitStatuses
    <2> QED BY <1>1, <2>1 DEF TrailFailed, ExitState
  <1>5. StateTrue'
    BY <1>4 DEF StateTrue, True, OrderStatuses, Terminal
  <1>6. /\ w' \in [Procs -> Process] /\ Others("evaluator")
        /\ w'["evaluator"].pc = "idle" /\ w'["evaluator"].i = Nobody
        /\ SeenTrue("evaluator")'
    BY <1>1, EvaluatorIdle DEF TrailFailed
  <1> QED
    BY <1>1, <1>2, <1>3, <1>4, <1>5, <1>6, TrailStep
    DEF Protects, Claimed, Submitting, Verifying

(* The steps of the evaluator. *)
LEMMA TrailingNextKeeps ==
  ASSUME IInv, TrailingNext
  PROVE  IInv'
  BY EvaluatorStartKeeps, ProtectiveReadKeeps, ProtectiveWriteKeeps, DecideKeeps, TrailClaimKeeps,
     TrailLookupKeeps, TrailDoneKeeps, TrailPersistKeeps, TrailMarkKeeps, TrailFailedKeeps
  DEF TrailingNext


-----------------------------------------------------------------------------
(* remaining-exposure-close.service *)

(* A step of the corrective close that leaves the broker, the position and *)
(* the close intents alone.                                                *)
LEMMA CorrectiveStep ==
  ASSUME IInv, Others("corrective"), w' \in [Procs -> Process],
         UNCHANGED <<pos, xs, fills, ord, held, sent, profile, faults, cancels>>,
         attn' \in Attention, lock' \in Submitters \cup {Nobody},
         \A q \in Submitters \ {"corrective"} : lock = q => lock' = q,
         intent' \in [Intents -> Intent], \A j \in Closes : intent'[j] = intent[j],
         row' \in [Cids -> LocalOrder], RowsTrue', row'["close"] = row["close"],
         \A c \in Cids : row'[c].by \in Closes => row'[c].by = row[c].by,
         w'["corrective"].pc \in {"idle", "execute", "xFind"},
         w'["corrective"].pc = "xFind" => lock' = "corrective",
         w'["corrective"].i \in Correctives \cup {Nobody},
         w'["corrective"].pc # "idle" => w'["corrective"].i \in Correctives,
         SeenTrue("corrective")'
  PROVE  IInv'
  <1> "corrective" \in Submitters
    BY DEF Submitters
  <1>1. w'["corrective"].i \notin Closes
    BY IdentityAssumption DEF Intents
  <1>2. LockOK'
    BY LockKeeps DEF IInv, Verifying
  <1>3. CloseOK'
    BY <1>1, CloseKeeps DEF IInv
  <1>4. KnownOK'
    BY <1>1, KnownKeeps DEF IInv, Prompt, Working
  <1>5. StateTrue'
    BY SameRows
  <1>6. w'["corrective"].pc \in Submitting => w'["corrective"].i \in Intents
    BY DEF Intents, Submitting, Verifying
  <1>7. pos' \in Position /\ xs' \in ExitState /\ faults' \in 0..MaxFaults
    BY DEF IInv, TypeOK
  <1> QED
    BY <1>2, <1>3, <1>4, <1>5, <1>6, <1>7, WriteStep

(* A corrective intent changes. *)
LEMMA CorrectiveIntent ==
  ASSUME TypeOK, NEW i \in Correctives, NEW e \in Intent, intent' = [intent EXCEPT ![i] = e]
  PROVE  intent' \in [Intents -> Intent] /\ \A j \in Closes : intent'[j] = intent[j]
  BY IntentChange, IdentityAssumption DEF Intents

(* A corrective attempt gets its local row. *)
LEMMA CorrectiveRow ==
  ASSUME TypeOK, RowsTrue, NEW i \in Correctives, NEW st \in OrderStatuses, True(i, st),
         row' = [row EXCEPT ![i] = [st |-> st, by |-> i]], ord' = ord
  PROVE  /\ row' \in [Cids -> LocalOrder] /\ RowsTrue' /\ row'["close"] = row["close"]
         /\ \A c \in Cids : row'[c].by \in Closes => row'[c].by = row[c].by
  <1>1. i \in Cids /\ i # "close" /\ i \notin Closes /\ i \in Intents /\ "close" \in Cids
    BY FewCids, IdentityAssumption DEF Intents
  <1> DEFINE r == [st |-> st, by |-> i]
  <1>2. r \in LocalOrder /\ r.st = st /\ r.by = i /\ st # "none"
    BY <1>1 DEF LocalOrder, OrderStatuses
  <1> HIDE DEF r
  <1>3. /\ row' \in [Cids -> LocalOrder] /\ row'[i] = r /\ RowsTrue'
        /\ \A d \in Cids \ {i} : row'[d] = row[d]
    BY <1>1, <1>2, RowChange DEF r
  <1> QED BY <1>1, <1>2, <1>3

(* The corrective close comes to rest. *)
LEMMA CorrectiveIdle ==
  ASSUME TypeOK, Stop("corrective")
  PROVE  /\ w' \in [Procs -> Process] /\ Others("corrective")
         /\ w'["corrective"].pc = "idle" /\ w'["corrective"].i = Nobody
         /\ SeenTrue("corrective")'
  <1>1. w' \in [Procs -> Process] /\ Others("corrective") /\ w'["corrective"] = Idle
    BY StopStep DEF Procs, Submitters
  <1>2. /\ w'["corrective"].pc = "idle" /\ w'["corrective"].i = Nobody
        /\ w'["corrective"].seen = "none"
    BY <1>1 DEF Idle
  <1> QED BY <1>1, <1>2 DEF SeenTrue, True, OrderStatuses, Terminal

(* The fills attributed to the position are a natural number. *)
LEMMA AttributedType ==
  ASSUME TypeOK
  PROVE  Attributed \in Nat
  <1> DEFINE f == [c \in Cids |-> fills[c].mine]
  <1>1. f \in [Cids -> Nat]
    BY ExitAssumption DEF TypeOK, Fill
  <1> HIDE DEF f
  <1>2. Total(f) \in Nat
    BY <1>1, TotalZero
  <1> QED BY <1>2 DEF Attributed, f

(* The preview. *)
LEMMA PreviewKeeps ==
  ASSUME IInv, Preview
  PROVE  IInv'
  <1>1. /\ TypeOK /\ RowsTrue /\ intent \in [Intents -> Intent] /\ lock \in Submitters \cup {Nobody}
        /\ row \in [Cids -> LocalOrder] /\ attn \in Attention /\ held \in Int /\ pos.qty \in 0..Qty
    BY ExitAssumption DEF IInv, TypeOK, EvidenceOK, Position
  <1>2. UNCHANGED <<pos, intent, row, xs, attn, fills, lock, ord, held, sent, profile, faults, cancels>>
    BY DEF Preview
  <1>3. RowsTrue'
    BY <1>2, SameRows
  <1>4. PICK i \in Correctives : i = AttemptOf(attn.rev)
    BY DEF Preview, AttemptOf, Correctives
  <1>5. PICK k \in Nat : k = Attributed
    BY <1>1, AttributedType
  <1>6. PICK q \in Int : q = pos.qty - Attributed /\ q = pos.qty - k
    BY <1>1, <1>5
  <1>12. q = held /\ held > 0
    BY <1>6 DEF Preview, Unblocked, RemainderEquation
  <1>13. k \in 0..Qty /\ q \in 0..Qty
    BY <1>1, <1>5, <1>6, <1>12, ExitAssumption
  <1> DEFINE v == [Idle EXCEPT !.pc = "execute", !.i = i, !.q = q, !.loc = pos.qty, !.att = k]
  <1>7. i \in Intents /\ "execute" \in Steps /\ "corrective" \in Procs
    BY DEF Intents, Steps, Procs, Submitters
  <1>8. v \in Process /\ v.pc = "execute" /\ v.i = i /\ v.seen = "none"
    BY <1>1, <1>7, <1>13, IdleType DEF Process, Idle
  <1> HIDE DEF v
  <1>9. w' = [w EXCEPT !["corrective"] = v]
    BY <1>4, <1>5, <1>6 DEF Preview, v
  <1>10. w' \in [Procs -> Process] /\ Others("corrective") /\ w'["corrective"] = v
    BY <1>1, <1>7, <1>8, <1>9, Assign DEF TypeOK
  <1>11. SeenTrue("corrective")'
    BY <1>8, <1>10 DEF SeenTrue, True, OrderStatuses, Terminal
  <1> QED
    BY <1>1, <1>2, <1>3, <1>8, <1>10, <1>11, CorrectiveStep

(* The execution takes the lock and claims the attempt, recovers it, or    *)
(* gives up.                                                               *)
LEMMA ExecuteKeeps ==
  ASSUME IInv, executeRemainingExposureClose
  PROVE  IInv'
  <1>1. /\ TypeOK /\ RowsTrue /\ intent \in [Intents -> Intent] /\ lock \in Submitters \cup {Nobody}
        /\ row \in [Cids -> LocalOrder] /\ attn \in Attention /\ ord \in [Cids -> BrokerOrder]
        /\ w["corrective"] \in Process /\ "corrective" \in Procs /\ "corrective" \in Submitters
    BY DEF IInv, TypeOK, EvidenceOK, Procs, Submitters
  <1>2. UNCHANGED <<pos, xs, attn, fills, ord, held, sent, profile, faults, cancels>>
    BY DEF executeRemainingExposureClose
  <1>3. PICK i \in Correctives : i = w["corrective"].i
    BY <1>1, CidOf DEF executeRemainingExposureClose, At, IInv, BusyOK, CloseOK, Submitting
  <1>4. /\ Nobody \notin Submitters /\ i \in Cids
    BY IdentityAssumption, FewCids DEF Procs
  <1>5. CASE Stop("corrective") /\ UNCHANGED <<row, intent, lock>>
    BY <1>1, <1>2, <1>5, SameRows, CorrectiveIdle, CorrectiveStep
  <1>6. CASE /\ lock = Nobody /\ ord[i].st # "none"
             /\ row' = [row EXCEPT ![i] = [st |-> ord[i].st, by |-> i]]
             /\ intent' = [intent EXCEPT ![i] = [st |-> "submitted", why |-> "none"]]
             /\ Stop("corrective") /\ UNCHANGED lock
    <2>1. PICK st \in OrderStatuses : st = ord[i].st
      BY <1>1, <1>4, <1>6 DEF BrokerOrder
    <2>2. True(i, st)
      BY <2>1, <1>6 DEF True
    <2>3. [st |-> "submitted", why |-> "none"] \in Intent
      BY DEF Intent
    <2>4. intent' \in [Intents -> Intent] /\ \A j \in Closes : intent'[j] = intent[j]
      BY <1>1, <1>6, <2>3, CorrectiveIntent
    <2>5. /\ row' \in [Cids -> LocalOrder] /\ RowsTrue' /\ row'["close"] = row["close"]
          /\ \A c \in Cids : row'[c].by \in Closes => row'[c].by = row[c].by
      BY <1>1, <1>2, <1>6, <2>1, <2>2, CorrectiveRow
    <2> QED
      BY <1>1, <1>2, <1>6, <2>4, <2>5, CorrectiveIdle, CorrectiveStep
  <1>7. CASE /\ lock = Nobody /\ Goto("corrective", "xFind") /\ lock' = "corrective" /\ UNCHANGED row
             /\ intent' = [intent EXCEPT ![i] = [st |-> "submitting", why |-> "none"]]
    <2>1. [st |-> "submitting", why |-> "none"] \in Intent
      BY DEF Intent
    <2>2. intent' \in [Intents -> Intent] /\ \A j \in Closes : intent'[j] = intent[j]
      BY <1>1, <1>7, <2>1, CorrectiveIntent
    <2>3. /\ w' \in [Procs -> Process] /\ Others("corrective")
          /\ w'["corrective"] = [w["corrective"] EXCEPT !.pc = "xFind"]
      BY <1>1, <1>7, GotoStep DEF Steps
    <2>4. /\ w'["corrective"].pc = "xFind" /\ w'["corrective"].i = i
          /\ w'["corrective"].seen = w["corrective"].seen /\ w["corrective"].pc = "execute"
      BY <1>1, <1>3, <2>3 DEF Process, executeRemainingExposureClose, At
    <2>5. SeenTrue("corrective")'
      BY <1>1, <1>2, <1>3, <2>4 DEF IInv, EvidenceOK, SeenTrue, True, SeenCid
    <2>6. RowsTrue'
      BY <1>2, <1>7, SameRows
    <2> QED
      BY <1>1, <1>2, <1>4, <1>7, <2>2, <2>3, <2>4, <2>5, <2>6, CorrectiveStep
  <1> QED BY <1>3, <1>5, <1>6, <1>7 DEF executeRemainingExposureClose

(* The end of a corrective attempt. *)
LEMMA FinishCorrectiveKeeps ==
  ASSUME IInv, FinishCorrective
  PROVE  IInv'
  <1>1. /\ TypeOK /\ RowsTrue /\ intent \in [Intents -> Intent] /\ LockOK
        /\ row \in [Cids -> LocalOrder] /\ attn \in Attention /\ ord \in [Cids -> BrokerOrder]
        /\ w["corrective"] \in Process /\ "corrective" \in Procs /\ "corrective" \in Submitters
    BY DEF IInv, TypeOK, EvidenceOK, Procs, Submitters
  <1>2. UNCHANGED <<pos, xs, fills, ord, held, sent, profile, faults, cancels>>
    BY DEF FinishCorrective
  <1>3. PICK i \in Correctives : i = w["corrective"].i
    BY <1>1, CidOf DEF FinishCorrective, At, IInv, BusyOK, CloseOK, Submitting
  <1>4. lock = "corrective" /\ lock' = Nobody /\ w["corrective"].pc = "done"
    BY <1>1 DEF LockOK, FinishCorrective, At
  <1>5. /\ w' \in [Procs -> Process] /\ Others("corrective")
        /\ w'["corrective"].pc = "idle" /\ w'["corrective"].i = Nobody
        /\ SeenTrue("corrective")'
    BY <1>1, CorrectiveIdle DEF FinishCorrective
  <1>6. CASE UNCHANGED <<row, intent, attn>>
    BY <1>1, <1>2, <1>4, <1>5, <1>6, SameRows, CorrectiveStep
  <1>7. CASE /\ w["corrective"].out \in {"sent", "found"} /\ UNCHANGED attn
             /\ row' = [row EXCEPT ![i] = [st |-> w["corrective"].seen, by |-> i]]
             /\ intent' = [intent EXCEPT ![i] = [st |-> "submitted", why |-> "none"]]
    <2>1. SeenCid("corrective") = i
      BY <1>3, IdentityAssumption DEF SeenCid, Cid, Intents
    <2>2. PICK st \in OrderStatuses : st = w["corrective"].seen /\ True(i, st)
      BY <1>1, <1>4, <1>7, <2>1 DEF IInv, EvidenceOK, SeenTrue
    <2>3. [st |-> "submitted", why |-> "none"] \in Intent
      BY DEF Intent
    <2>4. intent' \in [Intents -> Intent] /\ \A j \in Closes : intent'[j] = intent[j]
      BY <1>1, <1>7, <2>3, CorrectiveIntent
    <2>5. /\ row' \in [Cids -> LocalOrder] /\ RowsTrue' /\ row'["close"] = row["close"]
          /\ \A c \in Cids : row'[c].by \in Closes => row'[c].by = row[c].by
      BY <1>1, <1>2, <1>7, <2>2, CorrectiveRow
    <2> QED
      BY <1>1, <1>2, <1>4, <1>5, <1>7, <2>4, <2>5, CorrectiveStep
  <1>8. CASE /\ \E e \in Intent : intent' = [intent EXCEPT ![i] = e]
             /\ attn' \in {attn, Observed} /\ UNCHANGED row
    <2>1. intent' \in [Intents -> Intent] /\ \A j \in Closes : intent'[j] = intent[j]
      BY <1>1, <1>8, CorrectiveIntent
    <2>2. attn' \in Attention /\ RowsTrue'
      BY <1>1, <1>2, <1>8, ObservedType, SameRows
    <2> QED
      BY <1>1, <1>2, <1>4, <1>5, <1>8, <2>1, <2>2, CorrectiveStep
  <1>9. \A out : [st |-> IF CorrectiveClass(out) = "uncertain" THEN "submitting"
                         ELSE Unsent(CorrectiveClass(out)),
                  why |-> CorrectiveClass(out)] \in Intent
    BY DEF Intent, CorrectiveClass, Unsent
  <1> QED BY <1>3, <1>6, <1>7, <1>8, <1>9 DEF FinishCorrective

(* The steps of the corrective close. *)
LEMMA CorrectiveNextKeeps ==
  ASSUME IInv, CorrectiveNext
  PROVE  IInv'
  BY PreviewKeeps, ExecuteKeeps, FinishCorrectiveKeeps DEF CorrectiveNext


-----------------------------------------------------------------------------
(* The invariant of the whole *)

(* The position that was just opened. *)
LEMMA InitIInv ==
  ASSUME Init
  PROVE  IInv
  <1>1. /\ \A p \in Procs : w[p] = Idle
        /\ \A c \in Cids : ord[c] = NoOrder /\ row[c] = [st |-> "none", by |-> Nobody]
        /\ \A i \in Intents : intent[i] = [st |-> "none", why |-> "none"]
        /\ "trail" \in Cids /\ "close" \in Cids /\ Closes \subseteq Intents
        /\ Submitters \subseteq Procs
        /\ "lifecycle" \in Procs /\ "evaluator" \in Procs /\ "corrective" \in Procs
    BY FewCids DEF Init, Procs, Submitters, Intents
  <1>2. /\ Idle.pc = "idle" /\ Idle.i = Nobody /\ Idle.seen = "none" /\ Idle.out = "none"
        /\ NoOrder.st = "none" /\ NoOrder.done = 0 /\ NoOrder.wire = {}
    BY DEF Idle, NoOrder
  <1>3. \A p \in Procs : /\ w[p].pc = "idle" /\ w[p].i = Nobody /\ w[p].seen = "none"
                         /\ w[p].i \notin Intents
    BY <1>1, <1>2, IdentityAssumption
  <1>4. \A c \in Cids : /\ ord[c].st = "none" /\ ord[c].done = 0 /\ ord[c].wire = {}
                        /\ row[c].st = "none" /\ row[c].by = Nobody
    BY <1>1, <1>2
  <1>5. \A i \in Intents : intent[i].st = "none"
    BY <1>1
  <1>6. TypeOK
    <2>1. pos \in Position /\ held \in Int /\ sent \subseteq Intents /\ lock \in Submitters \cup {Nobody}
      BY ExitAssumption DEF Init, Position
    <2>2. [st |-> "none", why |-> "none"] \in Intent
      BY DEF Intent
    <2>3. [st |-> "none", by |-> Nobody] \in LocalOrder
      BY DEF LocalOrder
    <2>4. xs \in ExitState
      BY DEF Init, ExitState, ExitStatuses
    <2>5. attn \in Attention
      BY ExitAssumption DEF Init, Attention
    <2>6. [seen |-> 0, mine |-> 0] \in Fill
      BY ExitAssumption DEF Fill
    <2>7. NoOrder \in BrokerOrder
      BY ExitAssumption DEF NoOrder, BrokerOrder
    <2>8. profile \in Profiles /\ faults \in 0..MaxFaults /\ cancels \in 0..MaxCancels
      BY ExitAssumption DEF Init
    <2>9. /\ intent \in [Intents -> Intent] /\ row \in [Cids -> LocalOrder]
          /\ fills \in [Cids -> Fill] /\ w \in [Procs -> Process] /\ ord \in [Cids -> BrokerOrder]
      BY <2>2, <2>3, <2>6, <2>7, IdleType DEF Init
    <2> QED BY <2>1, <2>4, <2>5, <2>8, <2>9 DEF TypeOK
  <1>7. LockOK /\ BusyOK
    BY <1>1, <1>3 DEF LockOK, BusyOK, Verifying, Submitting
  <1>8. TrailOK
    BY <1>1, <1>3 DEF TrailOK, Protects, Init
  <1>9. OrdersOK /\ VerifyOK
    <2>1. \A c \in Cids : ~Working(c) /\ ~Prompt(c)
      BY <1>4 DEF Prompt, Working, Nonterminal, OrderStatuses
    <2>2. 0 <= Budget
      BY <1>6, LateNat, ExitAssumption DEF Budget, Init
    <2> QED BY <1>1, <1>3, <1>4, <2>1, <2>2 DEF OrdersOK, VerifyOK
  <1>10. LocalOK
    BY <1>1, <1>3, ExitAssumption DEF LocalOK, Claimed, Init, Procs
  <1>11. RowsTrue /\ StateTrue
    BY <1>1, <1>4 DEF RowsTrue, StateTrue, True, OrderStatuses, Terminal, Init
  <1>12. \A p \in Procs : SeenTrue(p)
    BY <1>3 DEF SeenTrue, True, OrderStatuses, Terminal
  <1>13. CloseOK
    <2>1. \A p \in Submitters : w[p].i \notin Closes
      BY <1>1, <1>3
    <2>2. \A i \in Closes : intent[i].st \notin ActiveClose
      BY <1>1, <1>5 DEF ActiveClose
    <2>3. Nobody \notin Closes
      BY IdentityAssumption DEF Intents
    <2> QED BY <1>1, <1>3, <1>4, <2>1, <2>2, <2>3 DEF CloseOK
  <1>14. KnownOK
    BY <1>1, <1>4 DEF KnownOK, Prompt, Working, Nonterminal, OrderStatuses
  <1> QED
    BY <1>6, <1>7, <1>8, <1>9, <1>10, <1>11, <1>12, <1>13, <1>14 DEF IInv, EvidenceOK

(* Nothing changes. *)
LEMMA RestKeeps ==
  ASSUME IInv, UNCHANGED vars
  PROVE  IInv'
  <1>1. (TypeOK /\ LockOK /\ BusyOK /\ TrailOK)'
    BY DEF IInv, vars, TypeOK, LockOK, BusyOK, TrailOK, Protects
  <1>2. (OrdersOK /\ VerifyOK /\ LocalOK)'
    BY SameOrders, SameBroker
    DEF IInv, vars, VerifyOK, LocalOK, Verified, NonePrompt
  <1>3. EvidenceOK'
    BY DEF IInv, vars, EvidenceOK, RowsTrue, StateTrue, SeenTrue, True, SeenCid
  <1>4. (CloseOK /\ KnownOK)'
    BY DEF IInv, vars, CloseOK, KnownOK, Pending, Accounts, Prompt, Working
  <1> QED BY <1>1, <1>2, <1>3, <1>4 DEF IInv

(* Every step keeps the invariant. *)
LEMMA NextKeeps ==
  ASSUME IInv, [Next]_vars
  PROVE  IInv'
  BY VerificationNextKeeps, CloseNextKeeps, TrailingNextKeeps, CorrectiveNextKeeps, SyncNextKeeps,
     FillKeeps, EndKeeps, LateKeeps, AbortKeeps, RestKeeps
  DEF Next, BrokerNext, Rest

(* The inductive invariant of the exit lifecycle. *)
THEOREM Inductive == Spec => []IInv
  BY InitIInv, NextKeeps, PTL DEF Spec

(* The state of every exit of a position keeps its type: no status of the  *)
(* schema is left, no bound exceeded, whatever the number of close         *)
(* intents, shares, faults and cancellations.                              *)
THEOREM TypeCorrect == Spec => []TypeOK
  <1>1. IInv => TypeOK
    BY DEF IInv
  <1> QED BY <1>1, Inductive, PTL

(* The account is made short by late orders only: of the sells it sees     *)
(* through, verified-exit-submission.service makes no more than the broker *)
(* holds, for any quantity, any number of close requests, failed calls,    *)
(* requests carried out late, dead processes and canceled orders.          *)
THEOREM SellsWithinHoldings == Spec => []ShortOnlyByLateOrders
  <1>1. ASSUME IInv PROVE ShortOnlyByLateOrders
    <2>1. held \in Int /\ LateDone \in Nat
      BY <1>1, LateNat DEF IInv, TypeOK
    <2> QED BY <1>1, <2>1 DEF IInv, OrdersOK, Budget, ShortOnlyByLateOrders
  <1> QED BY <1>1, Inductive, PTL

(* A protective order that is locally known to be canceled is flagged in   *)
(* the exit state, or will be read again by the evaluator.                 *)
THEOREM DeadProtectionIsNoticed == Spec => []DeadProtectionNoticed
  <1>1. ASSUME IInv PROVE DeadProtectionNoticed
    <2>1. SUFFICES ASSUME row["trail"].st = "canceled", pos.st # "closed", xs.ost \in Terminal
                   PROVE  xs.att
      BY DEF DeadProtectionNoticed
    <2>2. ord["trail"].st = "canceled"
      BY <1>1, <2>1, FewCids DEF IInv, EvidenceOK, RowsTrue, True, Terminal
    <2>3. xs.ost = "canceled"
      BY <1>1, <2>1, <2>2 DEF IInv, EvidenceOK, StateTrue, True
    <2> QED BY <1>1, <2>1, <2>3 DEF IInv, EvidenceOK, StateTrue
  <1> QED BY <1>1, Inductive, PTL


-----------------------------------------------------------------------------
(* What becomes of a close request that is still on its way *)

(* A close that works at the broker, or will. *)
Pursued == Working("close") \/ ord["close"].wire # {}

Final == {"rejected", "absent"}

(* An intent that may have sent such a request: it is submitting, and who  *)
(* works on it has yet to record how the POST ended.                       *)
Carries(i) ==
  /\ intent[i].st = "submitting"
  /\ \A p \in Submitters :
       w[p].i = i => w[p].pc = "done" /\ w[p].out \in {"sent", "uncertain", "rejected"}

CarriedOK == Pursued => GivenUp \/ row["close"].st # "none" \/ \E i \in Closes : Carries(i)

(* A close that is given up is over; one that is not may only be recorded  *)
(* as uncertain, which recovery reads.                                     *)
WhyOf(i) ==
  /\ intent[i].why \in Final => intent[i].st \notin {"none", "submitting"}
  /\ intent[i].st = "submitting" => intent[i].why \in {"none", "uncertain"}

WhyOK ==
  /\ \A i \in Closes : WhyOf(i)
  /\ w["lifecycle"].pc = "recover" /\ w["lifecycle"].i \in Closes
       => w["lifecycle"].out \in {"none", "uncertain"}

(* What a step may do to one close intent. *)
Hands(i) ==
  \/ intent'[i] = intent[i]
  \/ /\ WhyOf(i)'
     /\ intent[i].why \in Final => intent'[i].why \in Final
     /\ Carries(i) /\ Pursued =>
          Carries(i)' \/ intent'[i].why \in Final \/ row'["close"].st # "none"

(* A step of one process that sends no close. *)
LEMMA CarriedStep ==
  ASSUME WhyOK, CarriedOK, NEW p \in Procs, Others(p),
         \A i \in Closes : Hands(i),
         row'["close"].st = "none" => row["close"].st = "none",
         Pursued' => Pursued,
         p \in Submitters /\ w'[p].i \in Closes => w'[p].i = w[p].i /\ w[p].pc # "done",
         p = "lifecycle" /\ w'[p].pc = "recover" /\ w'[p].i \in Closes
           => w'[p].out \in {"none", "uncertain"}
  PROVE  WhyOK' /\ CarriedOK'
  <1>1. WhyOK'
    <2>1. \A i \in Closes : WhyOf(i)'
      BY DEF WhyOK, WhyOf, Hands
    <2>2. (w["lifecycle"].pc = "recover" /\ w["lifecycle"].i \in Closes
             => w["lifecycle"].out \in {"none", "uncertain"})'
      BY DEF WhyOK, Others, Procs
    <2> QED BY <2>1, <2>2 DEF WhyOK
  <1>2. GivenUp => GivenUp'
    BY DEF GivenUp, Hands, Final
  <1>3. ASSUME NEW i \in Closes, Carries(i), intent'[i] = intent[i] PROVE Carries(i)'
    BY <1>3 DEF Carries, Others, Procs
  <1>4. ASSUME NEW i \in Closes, Carries(i), Pursued
        PROVE  Carries(i)' \/ GivenUp' \/ row'["close"].st # "none"
    BY <1>3, <1>4 DEF Hands, GivenUp, Final
  <1> QED BY <1>1, <1>2, <1>4 DEF CarriedOK

(* A step that leaves the broker's orders alone. *)
LEMMA SamePursued ==
  ASSUME ord'["close"] = ord["close"]
  PROVE  Pursued' = Pursued
  BY DEF Pursued, Working

(* Nothing but a process's own record is written. *)
LEMMA CarriedMove ==
  ASSUME IInv, WhyOK, CarriedOK, NEW p \in Submitters, Others(p), UNCHANGED <<intent, row, ord>>,
         w'[p].i \in Closes => w'[p].i = w[p].i /\ w[p].pc # "done"
  PROVE  WhyOK' /\ CarriedOK'
  BY CarriedStep, SamePursued DEF Hands, Procs, Submitters

(* The submission of an exit, but for the POST and the block. *)
LEMMA VerificationCarries ==
  ASSUME IInv, WhyOK, CarriedOK, NEW p \in Submitters,
         \/ submitVerifiedExit(p) \/ submitVerifiedCorrectiveExit(p) \/ xReadPosition(p)
         \/ xVerify(p) \/ xAttention(p)
  PROVE  WhyOK' /\ CarriedOK'
  <1>1. TypeOK /\ p \in Procs /\ w[p] \in Process /\ w \in [Procs -> Process]
    BY DEF IInv, TypeOK, Procs
  <1>2. UNCHANGED <<intent, row, ord>> /\ w[p].pc # "done"
    BY DEF submitVerifiedExit, submitVerifiedCorrectiveExit, xReadPosition, xVerify, xAttention, At
  <1>3. ASSUME NEW o, NEW s, Ended(p, o, s) PROVE Others(p) /\ w'[p].i = w[p].i
    BY <1>1, <1>3 DEF Ended, Others, Idle
  <1>4. ASSUME Refuse(p) PROVE Others(p) /\ w'[p].i = w[p].i
    BY <1>1, <1>4 DEF Refuse, Others, Idle
  <1>5. ASSUME NEW l, Goto(p, l) PROVE Others(p) /\ w'[p].i = w[p].i
    BY <1>1, <1>5 DEF Goto, Others, Process
  <1>6. ASSUME xRecover(p) PROVE Others(p) /\ w'[p].i = w[p].i
    BY <1>3, <1>4, <1>5, <1>6 DEF xRecover
  <1>7. CASE submitVerifiedExit(p) \/ submitVerifiedCorrectiveExit(p)
    BY <1>2, <1>3, <1>6, <1>7, CarriedMove DEF submitVerifiedExit, submitVerifiedCorrectiveExit
  <1>8. CASE xReadPosition(p)
    <2>1. CASE w' = [w EXCEPT ![p].pc = "xOrders", ![p].h = held, ![p].a = Available]
      <3>1. Others(p) /\ w'[p].i = w[p].i
        BY <1>1, <2>1 DEF Others, Process
      <3> QED BY <1>2, <3>1, CarriedMove
    <2> QED BY <1>2, <1>4, <1>8, <2>1, CarriedMove DEF xReadPosition
  <1>9. CASE xVerify(p)
    <2>1. CASE w' = [w EXCEPT ![p] = [Idle EXCEPT !.pc = "xPost", !.i = w[p].i, !.q = w[p].q]]
      <3>1. Others(p) /\ w'[p].i = w[p].i
        BY <1>1, <2>1 DEF Others, Idle
      <3> QED BY <1>2, <3>1, CarriedMove
    <2> QED BY <1>2, <1>3, <1>4, <1>9, <2>1, CarriedMove DEF xVerify
  <1>10. CASE xAttention(p)
    BY <1>2, <1>3, <1>10, CarriedMove DEF xAttention
  <1> QED BY <1>7, <1>8, <1>9, <1>10

(* The block of a refused verification: the intent sent nothing yet. *)
LEMMA BlockCarries ==
  ASSUME IInv, WhyOK, CarriedOK, NEW p \in Submitters, xBlock(p)
  PROVE  WhyOK' /\ CarriedOK'
  <1>1. /\ TypeOK /\ p \in Procs /\ w[p] \in Process /\ w \in [Procs -> Process] /\ CloseOK
        /\ intent \in [Intents -> Intent] /\ Closes \subseteq Intents
    BY DEF IInv, TypeOK, Procs, Intents
  <1>2. w[p].pc = "xBlock" /\ UNCHANGED <<row, ord>>
    BY DEF xBlock, At
  <1>3. Others(p) /\ w'[p].i = w[p].i
    BY <1>1 DEF xBlock, Goto, Others, Process
  <1>4. ASSUME NEW i \in Closes PROVE Hands(i)
    <2>1. CASE i = w[p].i
      <3>1. intent'[i].st = "blocked" /\ intent'[i].why = "verification"
        BY <1>1, <2>1 DEF xBlock
      <3>2. intent[i].st = "submitting"
        BY <1>1, <1>2, <2>1 DEF CloseOK, Pending
      <3>3. ~ Carries(i)
        BY <1>2, <2>1 DEF Carries
      <3> QED BY <3>1, <3>2, <3>3 DEF Hands, WhyOf, WhyOK, Final
    <2>2. CASE i # w[p].i
      BY <1>1, <2>2 DEF xBlock, Hands
    <2> QED BY <2>1, <2>2
  <1> QED BY <1>1, <1>2, <1>3, <1>4, CarriedStep, SamePursued DEF Procs, Submitters

(* The POST: from here on its intent carries the request. *)
LEMMA PostCarries ==
  ASSUME IInv, WhyOK, CarriedOK, NEW p \in Submitters, xPost(p)
  PROVE  WhyOK' /\ CarriedOK'
  <1> DEFINE c == Cid(w[p].i)
  <1>1. /\ TypeOK /\ p \in Procs /\ w[p] \in Process /\ w \in [Procs -> Process] /\ CloseOK
        /\ w[p].i \in Intents /\ c \in Cids /\ ord \in [Cids -> BrokerOrder]
    BY DEF IInv, TypeOK, Procs, xPost, At, BusyOK, Submitting, Verifying, Cid, Intents, Cids
  <1>2. w[p].pc = "xPost" /\ UNCHANGED <<intent, row>>
    BY DEF xPost, At
  <1>3. ASSUME NEW o, NEW s, Ended(p, o, s)
        PROVE  Others(p) /\ w'[p].i = w[p].i /\ w'[p].pc = "done" /\ w'[p].out = o
    BY <1>1, <1>3 DEF Ended, Others, Idle
  <1>4. CASE ord'["close"] = ord["close"]
    <2>1. Others(p) /\ w'[p].i = w[p].i
      BY <1>3 DEF xPost
    <2> QED
      BY <1>2, <1>4, <2>1, CarriedStep, SamePursued DEF Hands, Procs, Submitters
  <1>5. CASE ord'["close"] # ord["close"]
    <2>1. Accept(c, w[p].q) \/ Travel(c, w[p].q)
      BY <1>5 DEF xPost
    <2>2. c = "close"
      BY <1>1, <1>5, <2>1, FewCids DEF Accept, Travel
    <2>3. w[p].i \in Closes
      BY <1>1, <2>2, FewCids DEF Cid, Intents
    <2>4. \E o \in {"sent", "uncertain", "rejected"}, s \in {"new", "none"} : Ended(p, o, s)
      BY <1>1, <1>5 DEF xPost, Accept, Travel
    <2>5. /\ Others(p) /\ w'[p].i = w[p].i /\ w'[p].pc = "done"
          /\ w'[p].out \in {"sent", "uncertain", "rejected"}
      BY <1>3, <2>4
    <2>6. intent[w[p].i].st = "submitting"
      BY <1>1, <1>2, <2>3 DEF CloseOK, Pending
    <2>7. \A q \in Submitters : w'[q].i = w[p].i => q = p
      BY <1>1, <2>3, <2>5 DEF CloseOK, Others, Procs
    <2>8. Carries(w[p].i)'
      BY <1>2, <2>5, <2>6, <2>7 DEF Carries
    <2>9. WhyOK'
      BY <1>2, <2>5 DEF WhyOK, WhyOf, Others, Procs, Submitters
    <2> QED BY <2>3, <2>5, <2>8, <2>9 DEF CarriedOK
  <1> QED BY <1>4, <1>5

(* The claim of a close: its intent is new. *)
LEMMA ClaimCarries ==
  ASSUME IInv, WhyOK, CarriedOK, NEW p \in Submitters, NEW i \in Closes, ClaimClose(p, i),
         row'["close"] = row["close"], ord' = ord
  PROVE  WhyOK' /\ CarriedOK'
  <1>1. /\ TypeOK /\ p \in Procs /\ w \in [Procs -> Process] /\ CloseOK
        /\ intent \in [Intents -> Intent] /\ Closes \subseteq Intents
    BY DEF IInv, TypeOK, Procs, Intents
  <1>2. /\ intent[i].st = "none" /\ intent'[i].st = "submitting" /\ intent'[i].why = "none"
        /\ \A j \in Closes : j # i => intent'[j] = intent[j]
        /\ \A j \in Closes : intent[j].st # "submitting"
    BY <1>1 DEF ClaimClose, Closable, ActiveClose
  <1>3. Others(p) /\ w'["lifecycle"] = w["lifecycle"]
    BY <1>1 DEF ClaimClose, Others, Procs, Submitters
  <1>4. \A j \in Closes : ~ Carries(j)
    BY <1>2 DEF Carries
  <1>5. WhyOK'
    BY <1>2, <1>3 DEF WhyOK, WhyOf, Final
  <1>6. GivenUp => GivenUp'
    BY <1>2 DEF GivenUp, WhyOK, WhyOf, Final
  <1> QED BY <1>4, <1>5, <1>6, SamePursued DEF CarriedOK

(* The end of a close: a request that may have left stays uncertain, has a *)
(* local order, or is given up.                                            *)
LEMMA FinishCarries ==
  ASSUME IInv, WhyOK, CarriedOK, NEW p \in Submitters, FinishClose(p)
  PROVE  WhyOK' /\ CarriedOK'
  <1>0. PICK i : i = w[p].i
    OBVIOUS
  <1> USE <1>0
  <1>1. /\ TypeOK /\ p \in Procs /\ w[p] \in Process /\ w \in [Procs -> Process] /\ CloseOK
        /\ intent \in [Intents -> Intent] /\ Closes \subseteq Intents /\ Stop(p)
        /\ row \in [Cids -> LocalOrder] /\ RowsTrue
    BY DEF IInv, TypeOK, Procs, Intents, FinishClose, EvidenceOK
  <1>2. w[p].pc = "done" /\ i \in Closes /\ ord' = ord /\ Cid(i) = "close" /\ "close" \in Cids
    BY FewCids DEF FinishClose, At, Cid
  <1>3. Others(p) /\ w'[p] = Idle
    BY <1>1, StopStep
  <1>4. w'[p].i = Nobody /\ Nobody \notin Closes
    BY <1>3, IdentityAssumption DEF Idle, Intents
  <1>5. \A j \in Closes : j # i => intent'[j] = intent[j]
    BY <1>1 DEF FinishClose
  <1>6. \/ intent[i].st = "submitting"
        \/ intent[i].st = "blocked" /\ w[p].out \in {"verify", "verify503"}
    BY <1>1, <1>2 DEF CloseOK, Pending
  <1>7. SeenTrue(p) /\ SeenCid(p) = "close"
    BY <1>1, <1>2, <1>4 DEF IInv, EvidenceOK, SeenCid
  <1>8. row'["close"].st = "none" => row["close"].st = "none"
    <2>1. CASE w[p].out \in {"sent", "found"}
      <3>1. row'["close"].st = w[p].seen
        BY <1>1, <1>2, <2>1 DEF FinishClose
      <3>2. w[p].seen \in OrderStatuses
        BY <1>2, <1>7, <2>1 DEF SeenTrue
      <3> QED BY <3>1, <3>2 DEF OrderStatuses
    <2> QED BY <2>1 DEF FinishClose
  <1>9. WhyOf(i)
    BY <1>2 DEF WhyOK
  <1>10. \A q \in Submitters : w'[q].i # i
    BY <1>1, <1>2, <1>3, <1>4 DEF CloseOK, Others, Procs
  <1>11. Hands(i)
    <2>1. CASE w[p].out \in {"verify", "verify503"}
      <3>1. ~ Carries(i)
        BY <2>1 DEF Carries
      <3>2. \/ intent'[i] = intent[i]
            \/ intent'[i].st = "blocked" /\ intent'[i].why = "verification"
               /\ intent[i].st = "submitting"
        BY <1>1, <1>2, <1>6, <2>1 DEF FinishClose
      <3> QED BY <1>9, <3>1, <3>2 DEF Hands, WhyOf, Final
    <2>2. CASE w[p].out = "local"
      <3>1. ~ Carries(i)
        BY <2>2 DEF Carries
      <3>2. intent'[i].st = "submitted" /\ intent'[i].why = "none" /\ intent[i].st = "submitting"
        BY <1>1, <1>2, <1>6, <2>2 DEF FinishClose
      <3> QED BY <1>9, <3>1, <3>2 DEF Hands, WhyOf, Final
    <2>3. CASE w[p].out \in {"sent", "found"}
      <3>1. row'["close"].st = w[p].seen /\ w[p].seen \in OrderStatuses
        BY <1>1, <1>2, <1>7, <2>3 DEF FinishClose, SeenTrue
      <3>2. intent'[i].st = "submitted" /\ intent'[i].why = "none" /\ intent[i].st = "submitting"
        BY <1>1, <1>2, <1>6, <2>3 DEF FinishClose
      <3> QED BY <1>9, <3>1, <3>2 DEF Hands, WhyOf, Final, OrderStatuses
    <2>4. CASE w[p].out \in {"notSent", "blocked", "rejected"}
      <3>1. /\ intent'[i].st \in {"blocked", "failed"} /\ intent'[i].why = w[p].out
            /\ intent[i].st = "submitting"
        BY <1>1, <1>2, <1>6, <2>4 DEF FinishClose, Unsent
      <3>2. Carries(i) => intent'[i].why = "rejected"
        BY <2>4, <3>1 DEF Carries
      <3> QED BY <1>9, <3>1, <3>2 DEF Hands, WhyOf, Final
    <2>5. CASE w[p].out \in {"uncertain", "error"}
      <3>1. intent[i] \in Intent /\ intent[i].st = "submitting"
        BY <1>1, <1>2, <1>6, <2>5
      <3>2. intent' = [intent EXCEPT ![i].why = IF intent[i].st = "submitting"
                                               THEN "uncertain" ELSE @]
        BY <2>5 DEF FinishClose
      <3>3. intent'[i].st = "submitting" /\ intent'[i].why = "uncertain"
        BY <1>1, <1>2, <3>1, <3>2 DEF Intent
      <3>4. Carries(i)'
        BY <1>10, <3>3 DEF Carries
      <3> QED BY <1>9, <3>1, <3>3, <3>4 DEF Hands, WhyOf, Final
    <2> QED BY <2>1, <2>2, <2>3, <2>4, <2>5 DEF FinishClose
  <1>12. \A j \in Closes : Hands(j)
    BY <1>5, <1>11 DEF Hands
  <1> QED
    BY <1>1, <1>2, <1>3, <1>4, <1>8, <1>12, CarriedStep, SamePursued DEF Procs, Submitters

(* A local order of a close intent is an order. *)
LEMMA CloseRow ==
  ASSUME IInv, NEW i \in Closes, row["close"].by = i
  PROVE  row["close"].st # "none"
  BY IdentityAssumption, FewCids DEF IInv, EvidenceOK, RowsTrue, Intents

(* A step of the lifecycle workers. *)
LEMMA CarriedLife ==
  ASSUME IInv, WhyOK, CarriedOK, Others("lifecycle"), ord' = ord,
         \A i \in Closes : Hands(i),
         row'["close"].st = "none" => row["close"].st = "none",
         w'["lifecycle"].pc = "recover" /\ w'["lifecycle"].i \in Closes
           => w'["lifecycle"].out \in {"none", "uncertain"}
  PROVE  WhyOK' /\ CarriedOK'
  BY CarriedStep, SamePursued DEF Procs, Submitters

(* The lookups of the two recoveries. *)
LEMMA LookupCarries ==
  ASSUME IInv, WhyOK, CarriedOK, NEW i \in Intents, RecoverLookup(i) \/ AbsentLookup(i)
  PROVE  WhyOK' /\ CarriedOK'
  <1>1. /\ TypeOK /\ w \in [Procs -> Process] /\ "lifecycle" \in Procs
        /\ intent \in [Intents -> Intent] /\ Closes \subseteq Intents
    BY DEF IInv, TypeOK, Procs, Intents
  <1>2. UNCHANGED <<row, ord>> /\ w["lifecycle"].pc = "idle" /\ intent[i].st = "submitting"
    BY DEF RecoverLookup, AbsentLookup, Stale, At
  <1>3. CASE RecoverLookup(i) /\ w' = w /\ row[Cid(i)].by = i
    <2>1. intent' = [intent EXCEPT ![i] = [st |-> "submitted", why |-> "none"]]
      BY <1>3 DEF RecoverLookup
    <2>2. ASSUME NEW j \in Closes PROVE Hands(j)
      <3>1. CASE j = i
        <4>1. row["close"].st # "none"
          BY <1>3, <3>1, CloseRow DEF Cid
        <4>2. intent'[j].st = "submitted" /\ intent'[j].why = "none"
          BY <1>1, <2>1, <3>1
        <4> QED BY <1>2, <3>1, <4>1, <4>2 DEF Hands, WhyOK, WhyOf, Final
      <3>2. CASE j # i
        BY <1>1, <2>1, <3>2 DEF Hands
      <3> QED BY <3>1, <3>2
    <2> QED BY <1>2, <1>3, <2>2, CarriedLife DEF Others
  <1>4. CASE UNCHANGED intent
             /\ w' = [w EXCEPT !["lifecycle"] = [Idle EXCEPT !.pc = "recover", !.i = i,
                        !.seen = ord[Cid(i)].st, !.out = intent[i].why]]
    <2>1. /\ Others("lifecycle") /\ w'["lifecycle"].i = i
          /\ w'["lifecycle"].out = intent[i].why
      BY <1>1, <1>4 DEF Others, Idle
    <2>2. i \in Closes => intent[i].why \in {"none", "uncertain"}
      BY <1>2 DEF WhyOK, WhyOf
    <2> QED BY <1>2, <1>4, <2>1, <2>2, CarriedLife DEF Hands
  <1>5. CASE AbsentLookup(i)
    <2>1. Others("lifecycle") /\ w'["lifecycle"].pc = "absent" /\ UNCHANGED intent
      BY <1>1, <1>5 DEF AbsentLookup, Others, Idle
    <2> QED BY <1>2, <2>1, CarriedLife DEF Hands
  <1> QED BY <1>3, <1>4, <1>5 DEF RecoverLookup

(* Their writes: an order that was found has a row, an absent one is given *)
(* up, an unclear one stays.                                               *)
LEMMA RecoverCarries ==
  ASSUME IInv, WhyOK, CarriedOK, RecoverApply \/ AbsentFinalize
  PROVE  WhyOK' /\ CarriedOK'
  <1>0. PICK i, seen, why : /\ i = w["lifecycle"].i /\ seen = w["lifecycle"].seen
                            /\ why = w["lifecycle"].out
    OBVIOUS
  <1> USE <1>0
  <1>1. /\ TypeOK /\ w \in [Procs -> Process] /\ "lifecycle" \in Procs /\ CloseOK
        /\ intent \in [Intents -> Intent] /\ Closes \subseteq Intents /\ Stop("lifecycle")
        /\ row \in [Cids -> LocalOrder] /\ w["lifecycle"].pc \in {"recover", "absent"}
        /\ ord' = ord /\ i \in Intents
    BY DEF IInv, TypeOK, Procs, Intents, RecoverApply, AbsentFinalize, At, BusyOK
  <1>2. Others("lifecycle") /\ w'["lifecycle"].pc = "idle"
    BY <1>1, LifeIdle
  <1>3. \A j \in Closes : j # i => intent'[j] = intent[j]
    BY <1>1 DEF RecoverApply, AbsentFinalize
  <1>4. row'["close"].st = "none" => row["close"].st = "none"
    BY <1>1, FewCids DEF RecoverApply, AbsentFinalize
  <1>5. i \in Closes => Hands(i)
    <2> SUFFICES ASSUME i \in Closes PROVE Hands(i)
      OBVIOUS
    <2>1. /\ intent[i].st = "submitting" /\ intent[i] \in Intent /\ WhyOf(i)
          /\ \A p \in Submitters : w[p].i # i
          /\ Cid(i) = "close" /\ "close" \in Cids
      BY <1>1, FewCids DEF CloseOK, WhyOK, Cid
    <2>2. \A p \in Submitters : w'[p].i # i
      BY <1>2, <2>1 DEF Others, Procs, Submitters
    <2>3. CASE AbsentFinalize
      <3>1. intent'[i].st = "failed" /\ intent'[i].why = "absent"
        BY <1>1, <2>1, <2>3 DEF AbsentFinalize
      <3> QED BY <3>1 DEF Hands, WhyOf, Final
    <2>4. CASE RecoverApply /\ seen # "none"
      <3>1. intent'[i].st = "submitted" /\ intent'[i].why = "none"
        BY <1>1, <2>1, <2>4 DEF RecoverApply
      <3>2. row'["close"].st # "none"
        BY <1>1, <2>1, <2>4 DEF RecoverApply
      <3> QED BY <2>1, <3>1, <3>2 DEF Hands, WhyOf, Final
    <2>5. CASE RecoverApply /\ seen = "none"
      <3>1. why \in {"none", "uncertain"}
        BY <2>5 DEF WhyOK, RecoverApply, At
      <3>2. intent' = [intent EXCEPT ![i].why = IF intent[i].st = "submitting" /\ why = "none"
                                               THEN "uncertain" ELSE @]
        BY <2>5, <3>1 DEF RecoverApply
      <3>3. intent'[i].st = "submitting" /\ intent'[i].why \in {"uncertain", intent[i].why}
        BY <1>1, <2>1, <3>2 DEF Intent
      <3>4. Carries(i)'
        BY <2>2, <3>3 DEF Carries
      <3> QED BY <2>1, <3>3, <3>4 DEF Hands, WhyOf, Final
    <2> QED BY <2>3, <2>4, <2>5
  <1>6. \A j \in Closes : Hands(j)
    BY <1>3, <1>5 DEF Hands
  <1> QED BY <1>1, <1>2, <1>4, <1>6, CarriedLife

(* A tick of the evaluator, but for the claim of a close, concerns the     *)
(* trailing stop.                                                          *)
LEMMA TrailingCarries ==
  ASSUME IInv, WhyOK, CarriedOK, TrailingNext
  PROVE  WhyOK' /\ CarriedOK'
  <1>1. /\ TypeOK /\ w \in [Procs -> Process] /\ "evaluator" \in Submitters /\ "evaluator" \in Procs
        /\ w["evaluator"] \in Process /\ Protects
        /\ intent \in [Intents -> Intent] /\ row \in [Cids -> LocalOrder]
        /\ "trail" \notin Closes /\ Nobody \notin Closes
    BY IdentityAssumption DEF IInv, TypeOK, Procs, Submitters, TrailOK, Intents
  <1>2. ord' = ord
    BY DEF TrailingNext, EvaluatorStart, ProtectiveRead, ProtectiveWrite, EvaluatorDecide,
           TrailClaim, TrailLookup, TrailDone, TrailPersist, TrailMark, TrailFailed
  <1>5. row'["close"] = row["close"]
    BY <1>1, FewCids
    DEF TrailingNext, EvaluatorStart, ProtectiveRead, ProtectiveWrite, EvaluatorDecide,
        TrailClaim, TrailLookup, TrailDone, TrailPersist, TrailMark, TrailFailed
  <1>3. CASE \E i \in Closes : ClaimClose("evaluator", i)
    BY <1>1, <1>2, <1>5, <1>3, ClaimCarries
  <1>4. CASE ~ \E i \in Closes : ClaimClose("evaluator", i)
    <2>1. \A i \in Closes : intent'[i] = intent[i]
      <3>1. intent' = intent \/ \E e : intent' = [intent EXCEPT !["trail"] = e]
        <4>1. CASE TrailDone
          BY <4>1 DEF TrailDone
        <4>2. CASE TrailClaim \/ TrailPersist \/ TrailMark
          BY <4>2 DEF TrailClaim, TrailPersist, TrailMark
        <4> QED
          BY <1>4, <4>1, <4>2
          DEF TrailingNext, EvaluatorStart, ProtectiveRead, ProtectiveWrite, EvaluatorDecide,
              TrailLookup, TrailFailed
      <3> QED BY <1>1, <3>1 DEF Intents
    <2>3. ASSUME Stop("evaluator") PROVE Others("evaluator") /\ w'["evaluator"].i \notin Closes
      BY <1>1, <2>3, EvaluatorIdle
    <2>4. ASSUME NEW l, Goto("evaluator", l)
          PROVE  Others("evaluator") /\ w'["evaluator"].i = w["evaluator"].i
      BY <1>1, <2>4 DEF Goto, Others, Process
    <2>5. Others("evaluator")
      BY <1>1, <1>4, <2>3, <2>4
      DEF TrailingNext, EvaluatorStart, ProtectiveRead, ProtectiveWrite, EvaluatorDecide,
          TrailClaim, TrailLookup, TrailDone, TrailPersist, TrailMark, TrailFailed, Others
    <2>6. w'["evaluator"].i \notin Closes
      <3>1. CASE EvaluatorStart
        BY <1>1, <3>1 DEF EvaluatorStart, Idle
      <3>2. CASE ProtectiveRead
        BY <1>1, <2>3, <3>2 DEF ProtectiveRead, At, Protects, Process
      <3>3. CASE ProtectiveWrite \/ TrailMark \/ TrailFailed
        BY <2>3, <3>3 DEF ProtectiveWrite, TrailMark, TrailFailed
      <3>4. CASE EvaluatorDecide
        BY <1>1, <1>4, <2>3, <2>4, <3>4 DEF EvaluatorDecide, At, Protects
      <3>5. CASE TrailClaim
        BY <1>1, <2>3, <3>5 DEF TrailClaim, Idle
      <3>6. CASE TrailLookup
        BY <1>1, <2>3, <2>4, <3>6 DEF TrailLookup, At, Protects, Process
      <3>7. CASE TrailDone
        BY <1>1, <2>3, <2>4, <3>7 DEF TrailDone
      <3>8. CASE TrailPersist
        BY <1>1, <2>4, <3>8 DEF TrailPersist, At, Protects
      <3> QED BY <3>1, <3>2, <3>3, <3>4, <3>5, <3>6, <3>7, <3>8 DEF TrailingNext
    <2> QED
      BY <1>1, <1>2, <1>5, <2>1, <2>5, <2>6, CarriedStep, SamePursued DEF Hands, Submitters
  <1> QED BY <1>3, <1>4

(* A corrective close has its own intents and orders. *)
LEMMA CorrectiveCarries ==
  ASSUME IInv, WhyOK, CarriedOK, CorrectiveNext
  PROVE  WhyOK' /\ CarriedOK'
  <1>1. /\ TypeOK /\ w \in [Procs -> Process]
        /\ "corrective" \in Submitters /\ "corrective" \in Procs /\ w["corrective"] \in Process
        /\ intent \in [Intents -> Intent] /\ row \in [Cids -> LocalOrder]
        /\ w["corrective"].i \in Correctives \cup {Nobody}
        /\ w["corrective"].i \notin Closes /\ Nobody \notin Closes
        /\ Correctives \cap Closes = {}
    BY IdentityAssumption DEF IInv, TypeOK, Procs, Submitters, CloseOK, Intents
  <1>2. ord' = ord
    BY DEF CorrectiveNext, Preview, executeRemainingExposureClose, FinishCorrective
  <1>3. w["corrective"].i # "close"
    BY <1>1, IdentityAssumption, FewCids DEF Cids
  <1>4. \A i \in Closes : intent'[i] = intent[i]
    <2>1. intent' = intent \/ \E e : intent' = [intent EXCEPT ![w["corrective"].i] = e]
      <3>1. CASE FinishCorrective
        BY <3>1 DEF FinishCorrective
      <3> QED BY <3>1 DEF CorrectiveNext, Preview, executeRemainingExposureClose
    <2> QED BY <1>1, <2>1 DEF Intents
  <1>5. row'["close"] = row["close"]
    BY <1>1, <1>3, FewCids
    DEF CorrectiveNext, Preview, executeRemainingExposureClose, FinishCorrective
  <1>6. ASSUME Stop("corrective") PROVE Others("corrective") /\ w'["corrective"].i \notin Closes
    BY <1>1, <1>6, CorrectiveIdle
  <1>7. Others("corrective") /\ w'["corrective"].i \notin Closes
    <2>1. CASE Preview
      <3>1. AttemptOf(attn.rev) \in Correctives
        BY <2>1 DEF Preview, AttemptOf, Correctives
      <3>2. Others("corrective") /\ w'["corrective"].i = AttemptOf(attn.rev)
        BY <1>1, <2>1 DEF Preview, Others, Idle
      <3> QED BY <1>1, <3>1, <3>2
    <2>2. CASE Goto("corrective", "xFind")
      BY <1>1, <2>2 DEF Goto, Others, Process
    <2> QED
      BY <1>6, <2>1, <2>2 DEF CorrectiveNext, executeRemainingExposureClose, FinishCorrective
  <1> QED
    BY <1>1, <1>2, <1>4, <1>5, <1>7, CarriedStep, SamePursued DEF Hands, Submitters

(* What the sync workers learn of a close order is written to its row; an  *)
(* intent that carries a request has none.                                 *)
LEMMA SyncCarries ==
  ASSUME IInv, WhyOK, CarriedOK, SyncNext
  PROVE  WhyOK' /\ CarriedOK'
  <1>1. /\ TypeOK /\ w \in [Procs -> Process] /\ "lifecycle" \in Procs /\ CloseOK
        /\ w["lifecycle"] \in Process /\ Nobody \notin Closes /\ Closes \subseteq Intents
        /\ intent \in [Intents -> Intent] /\ row \in [Cids -> LocalOrder] /\ "close" \in Cids
        /\ EvidenceOK /\ BusyOK /\ SeenTrue("lifecycle")
    BY IdentityAssumption, FewCids DEF IInv, TypeOK, Procs, Intents, EvidenceOK
  <1>2. ord' = ord
    BY DEF SyncNext, SyncRead, ImportFills, SyncRow, SyncIntent, PositionRead, PositionApply,
           PositionClosed
  <1>3. ASSUME Stop("lifecycle") PROVE Others("lifecycle") /\ w'["lifecycle"].pc = "idle"
    BY <1>1, <1>3, LifeIdle
  <1>4. ASSUME NEW l, Goto("lifecycle", l) PROVE Others("lifecycle") /\ w'["lifecycle"].pc = l
    BY <1>1, <1>4 DEF Goto, Others, Process
  <1>5. CASE (\E i \in Intents : SyncRead(i)) \/ PositionRead
    <2>1. Others("lifecycle") /\ w'["lifecycle"].pc \in {"syncRow", "position"}
      BY <1>1, <1>5 DEF SyncRead, PositionRead, Others, Idle
    <2>2. UNCHANGED <<intent, row>>
      BY <1>5 DEF SyncRead, PositionRead
    <2> QED BY <1>2, <2>1, <2>2, CarriedLife DEF Hands
  <1>6. CASE PositionApply
    BY <1>2, <1>3, <1>4, <1>6, CarriedLife DEF PositionApply, Hands
  <1>7. CASE SyncRow
    <2>1. UNCHANGED intent
      BY <1>7 DEF SyncRow
    <2>2. w["lifecycle"].seen \in OrderStatuses
      BY <1>1, <1>7 DEF SyncRow, At, SeenTrue
    <2>3. row'["close"].st = "none" => row["close"].st = "none"
      BY <1>1, <1>7, <2>2 DEF SyncRow, LocalOrder, OrderStatuses
    <2> QED BY <1>2, <1>3, <1>4, <1>7, <2>1, <2>3, CarriedLife DEF SyncRow, Hands
  <1>8. CASE SyncIntent
    <2>1. PICK i : i = w["lifecycle"].i
      OBVIOUS
    <2>2. w["lifecycle"].seen \in OrderStatuses /\ i \in Intents /\ UNCHANGED row
      BY <1>1, <1>8, <2>1 DEF SyncIntent, At, SeenTrue, BusyOK
    <2>3. ASSUME NEW j \in Closes PROVE Hands(j)
      <3>1. CASE j = i
        <4>1. intent[j].st \notin {"none", "submitting"} /\ intent[j] \in Intent
          BY <1>1, <1>8, <2>1, <3>1 DEF SyncIntent, At, CloseOK
        <4>2. intent'[j].st = w["lifecycle"].seen /\ intent'[j].why = intent[j].why
          BY <1>1, <1>8, <2>1, <3>1, <4>1 DEF SyncIntent, Intent
        <4> QED BY <2>2, <4>1, <4>2 DEF Hands, WhyOf, Carries, OrderStatuses
      <3>2. CASE j # i
        BY <1>1, <1>8, <2>1, <3>2 DEF SyncIntent, Hands
      <3> QED BY <3>1, <3>2
    <2> QED BY <1>2, <1>3, <1>8, <2>2, <2>3, CarriedLife DEF SyncIntent
  <1>9. CASE \E c \in Cids : ImportFills(c)
    <2>1. PICK c \in Cids : ImportFills(c)
      BY <1>9
    <2>2. row'["close"].st = "none" => row["close"].st = "none"
      BY <1>1, <2>1 DEF ImportFills, LocalOrder
    <2>3. w' = w
      BY <2>1 DEF ImportFills
    <2>4. ASSUME NEW j \in Closes, intent'[j] # intent[j] PROVE Hands(j)
      <3>1. row[c].by = j /\ FullFill(c) /\ intent' = [intent EXCEPT ![j].st = "filled"]
        BY <1>1, <2>1, <2>4 DEF ImportFills
      <3>2. c = "close" /\ row["close"].st # "none" /\ intent[j] \in Intent
        BY <1>1, <3>1 DEF CloseOK, FullFill
      <3>3. intent'[j].st = "filled" /\ intent'[j].why = intent[j].why
        BY <1>1, <3>1, <3>2 DEF Intent
      <3> QED BY <2>2, <3>2, <3>3 DEF Hands, WhyOf
    <2>5. \A j \in Closes : Hands(j)
      BY <2>4 DEF Hands
    <2>6. Others("lifecycle") /\ w'["lifecycle"].pc = "idle"
      BY <2>1, <2>3 DEF Others, ImportFills, At
    <2> QED BY <1>2, <2>2, <2>5, <2>6, CarriedLife
  <1>10. CASE PositionClosed
    <2>1. row'["close"].st = "none" => row["close"].st = "none"
      BY <1>1, <1>10 DEF PositionClosed, LocalOrder
    <2>2. ASSUME NEW j \in Closes, intent'[j] # intent[j] PROVE Hands(j)
      <3>1. FullFill("close") /\ intent'[j] = [intent[j] EXCEPT !.st = "filled"]
        BY <1>1, <1>10, <2>2 DEF PositionClosed, Cid
      <3>2. intent'[j].st = "filled" /\ intent'[j].why = intent[j].why
        BY <1>1, <3>1 DEF Intent
      <3> QED BY <2>1, <3>1, <3>2 DEF Hands, WhyOf, FullFill
    <2>3. \A j \in Closes : Hands(j)
      BY <2>2 DEF Hands
    <2> QED BY <1>2, <1>3, <1>10, <2>1, <2>3, CarriedLife DEF PositionClosed
  <1> QED BY <1>5, <1>6, <1>7, <1>8, <1>9, <1>10 DEF SyncNext

(* The broker only carries on with a close that it had, or that travelled; *)
(* a process that dies leaves its intent as it is.                         *)
LEMMA RestCarries ==
  ASSUME IInv, WhyOK, CarriedOK, BrokerNext \/ (\E p \in Procs : Abort(p)) \/ UNCHANGED vars
  PROVE  WhyOK' /\ CarriedOK'
  <1>1. TypeOK /\ w \in [Procs -> Process] /\ Nobody \notin Closes /\ ord \in [Cids -> BrokerOrder]
    BY IdentityAssumption DEF IInv, TypeOK, Intents
  <1>2. UNCHANGED <<intent, row>>
    BY DEF BrokerNext, LateAccept, FillShare, EndUnfilled, Abort, vars
  <1>3. CASE BrokerNext \/ UNCHANGED vars
    <2>1. w' = w
      BY <1>3 DEF BrokerNext, LateAccept, FillShare, EndUnfilled, vars
    <2>2. Pursued' => Pursued
      <3>1. CASE ord'["close"] = ord["close"]
        BY <3>1, SamePursued
      <3>2. CASE ord'["close"] # ord["close"]
        <4>1. LateAccept("close") \/ FillShare("close") \/ EndUnfilled("close")
          <5>1. PICK c \in Cids : LateAccept(c) \/ FillShare(c) \/ EndUnfilled(c)
            BY <1>3, <3>2 DEF BrokerNext, vars
          <5>2. \E e : ord' = [ord EXCEPT ![c] = e]
            <6>1. CASE LateAccept(c)
              BY <6>1 DEF LateAccept
            <6>2. CASE FillShare(c)
              BY <1>1, <6>2 DEF FillShare
            <6>3. CASE EndUnfilled(c)
              BY <1>1, <6>3 DEF EndUnfilled
            <6> QED BY <5>1, <6>1, <6>2, <6>3
          <5>3. c = "close"
            BY <1>1, <3>2, <5>2, FewCids
          <5> QED BY <5>1, <5>3
        <4> QED BY <4>1 DEF LateAccept, FillShare, EndUnfilled, Pursued
      <3> QED BY <3>1, <3>2
    <2>3. WhyOK'
      BY <1>2, <2>1 DEF WhyOK, WhyOf
    <2>4. GivenUp' = GivenUp /\ \A i : Carries(i)' = Carries(i)
      BY <1>2, <2>1 DEF GivenUp, Carries
    <2> QED BY <1>2, <2>2, <2>3, <2>4 DEF CarriedOK
  <1>4. CASE \E p \in Procs : Abort(p)
    <2>1. PICK p \in Procs : Abort(p)
      BY <1>4
    <2>2. Others(p) /\ w'[p] = Idle /\ ord' = ord
      BY <1>1, <2>1, StopStep DEF Abort
    <2>3. w'[p].i = Nobody /\ w'[p].pc = "idle"
      BY <2>2 DEF Idle
    <2> QED BY <1>1, <1>2, <2>2, <2>3, CarriedStep, SamePursued DEF Hands
  <1> QED BY <1>3, <1>4

(* Every step. *)
LEMMA NextCarries ==
  ASSUME IInv, WhyOK, CarriedOK, [Next]_vars
  PROVE  WhyOK' /\ CarriedOK'
  <1>1. CASE VerificationNext
    BY <1>1, VerificationCarries, PostCarries, BlockCarries DEF VerificationNext
  <1>2. CASE \E i \in Closes : OwnerClose(i)
    BY <1>2, ClaimCarries DEF OwnerClose, Submitters
  <1>3. CASE CloseNext
    BY <1>2, <1>3, FinishCarries, LookupCarries, RecoverCarries DEF CloseNext
  <1> QED
    BY <1>1, <1>3, TrailingCarries, CorrectiveCarries, SyncCarries, RestCarries DEF Next, Rest

(* While a close of the position works at the broker or may still arrive   *)
(* there, no further close can be claimed, unless the intent that sent it  *)
(* was given up; and then the order was accepted late. For any number of   *)
(* close intents, lost answers, requests carried out late, crashes and     *)
(* recoveries, and half-finished synchronizations.                         *)
THEOREM CloseIsKnown == Spec => []CloseKnownOrGivenUp
  <1>1. Init => WhyOK /\ CarriedOK
    <2> SUFFICES ASSUME Init PROVE WhyOK /\ CarriedOK
      OBVIOUS
    <2>1. \A i \in Closes : intent[i].st = "none" /\ intent[i].why = "none"
      BY DEF Init, Intents
    <2>2. w["lifecycle"].pc = "idle"
      BY DEF Init, Procs, Idle
    <2>3. ord["close"].st = "none" /\ ord["close"].wire = {}
      BY FewCids DEF Init, NoOrder
    <2> QED BY <2>1, <2>2, <2>3 DEF WhyOK, WhyOf, Final, CarriedOK, Pursued, Working, Nonterminal,
                                  OrderStatuses
  <1>2. IInv /\ WhyOK /\ CarriedOK /\ [Next]_vars => (WhyOK /\ CarriedOK)'
    BY NextCarries
  <1>3. IInv /\ CarriedOK => CloseKnownOrGivenUp
    <2> SUFFICES ASSUME IInv, CarriedOK, Pursued, Closable
                 PROVE  GivenUp /\ (Working("close") => ord["close"].late)
      BY DEF CloseKnownOrGivenUp, Pursued
    <2>1. row["close"].st \notin Nonterminal
      BY FewCids DEF Closable
    <2>2. \A i \in Closes : ~ Carries(i) /\ ~ Accounts(i)
      BY DEF Closable, ActiveClose, Carries, Accounts
    <2>3. ~ Prompt("close")
      BY <2>1, <2>2 DEF IInv, KnownOK
    <2>4. row["close"].st = "none"
      <3> SUFFICES ASSUME row["close"].st # "none" PROVE FALSE
        OBVIOUS
      <3>1. row["close"].st \in Terminal
        BY <2>1, FewCids DEF IInv, TypeOK, LocalOrder, Nonterminal, Terminal
      <3>2. ord["close"].st \in Terminal
        BY <3>1, FewCids DEF IInv, EvidenceOK, RowsTrue, True
      <3> QED BY <3>2, FewCids DEF Pursued, Working, IInv, OrdersOK, Nonterminal, Terminal
    <2> QED BY <2>2, <2>3, <2>4 DEF CarriedOK, Prompt
  <1>4. Spec => [](WhyOK /\ CarriedOK)
    BY <1>1, <1>2, Inductive, PTL DEF Spec
  <1> QED BY <1>3, <1>4, Inductive, PTL

-----------------------------------------------------------------------------
(* What a step may never do *)

(* Only the POST creates an order and only the broker changes one. *)
LEMMA WhoOrders ==
  ASSUME Next
  PROVE  (\E p \in Submitters : xPost(p)) \/ BrokerNext \/ ord' = ord
  <1>1. CASE VerificationNext
    BY <1>1 DEF VerificationNext, submitVerifiedExit, submitVerifiedCorrectiveExit, xReadPosition,
       xVerify, xBlock, xAttention
  <1>2. CASE CloseNext
    BY <1>2 DEF CloseNext, OwnerClose, FinishClose, RecoverLookup, AbsentLookup, RecoverApply,
       AbsentFinalize
  <1>3. CASE TrailingNext
    BY <1>3 DEF TrailingNext, EvaluatorStart, ProtectiveRead, ProtectiveWrite, EvaluatorDecide,
       TrailClaim, TrailLookup, TrailDone, TrailPersist, TrailMark, TrailFailed
  <1>4. CASE CorrectiveNext
    BY <1>4 DEF CorrectiveNext, Preview, executeRemainingExposureClose, FinishCorrective
  <1>5. CASE SyncNext
    BY <1>5 DEF SyncNext, SyncRead, ImportFills, SyncRow, SyncIntent, PositionRead, PositionApply,
       PositionClosed
  <1>6. CASE Rest \/ \E p \in Procs : Abort(p)
    BY <1>6 DEF Rest, Abort, vars
  <1> QED BY <1>1, <1>2, <1>3, <1>4, <1>5, <1>6 DEF Next

(* Only a passed verification and the closure of the position write an     *)
(* attention that is not newly observed.                                   *)
LEMMA WhoResolves ==
  ASSUME Next
  PROVE  \/ \E p \in Submitters : xVerify(p)
         \/ PositionClosed \/ attn' = attn \/ attn' = Observed
  <1>1. CASE VerificationNext
    BY <1>1 DEF VerificationNext, submitVerifiedExit, submitVerifiedCorrectiveExit, xReadPosition,
       xPost, xBlock, xAttention
  <1>2. CASE CloseNext
    BY <1>2 DEF CloseNext, OwnerClose, FinishClose, RecoverLookup, AbsentLookup, RecoverApply,
       AbsentFinalize
  <1>3. CASE TrailingNext
    BY <1>3 DEF TrailingNext, EvaluatorStart, ProtectiveRead, ProtectiveWrite, EvaluatorDecide,
       TrailClaim, TrailLookup, TrailDone, TrailPersist, TrailMark, TrailFailed
  <1>4. CASE CorrectiveNext
    BY <1>4 DEF CorrectiveNext, Preview, executeRemainingExposureClose, FinishCorrective
  <1>5. CASE SyncNext
    BY <1>5 DEF SyncNext, SyncRead, ImportFills, SyncRow, SyncIntent, PositionRead, PositionApply
  <1>6. CASE Rest \/ BrokerNext \/ \E p \in Procs : Abort(p)
    BY <1>6 DEF Rest, Abort, vars, BrokerNext, FillShare, EndUnfilled,
       LateAccept
  <1> QED BY <1>1, <1>2, <1>3, <1>4, <1>5, <1>6 DEF Next

(* An order the broker accepts while its submitter waits, whichever of the *)
(* three, is for the shares then held and is the only working sell, orders *)
(* accepted late apart.                                                    *)
THEOREM SellsExactlyWhatIsHeld == Spec => SellsWholePosition
  <1>1. ASSUME IInv, [Next]_vars, NEW c \in Cids, ord[c].st = "none", ord'[c].st # "none",
               ~ord'[c].late
        PROVE  HeldUpToLate(ord'[c].qty) /\ OnlyLateWork
    <2>1. TypeOK /\ OrdersOK /\ VerifyOK /\ ord \in [Cids -> BrokerOrder]
      BY <1>1 DEF IInv, TypeOK
    <2>2. ~ BrokerNext
      <3>1. ASSUME NEW d \in Cids, ord[d].st \in OrderStatuses, ord' = [ord EXCEPT ![d] = ord'[d]]
            PROVE  FALSE
        BY <1>1, <2>1, <3>1 DEF OrderStatuses
      <3>2. ASSUME NEW d \in Cids, FillShare(d) PROVE FALSE
        BY <2>1, <3>1, <3>2 DEF FillShare, Working, Nonterminal
      <3>3. ASSUME NEW d \in Cids, EndUnfilled(d) PROVE FALSE
        BY <2>1, <3>1, <3>3 DEF EndUnfilled, Working, Nonterminal
      <3>4. ASSUME NEW d \in Cids, LateAccept(d) PROVE FALSE
        <4>1. PICK q : ord' = [ord EXCEPT ![d] = NewOrder(q, TRUE)]
          BY <3>4 DEF LateAccept
        <4>2. NewOrder(q, TRUE).late
          BY DEF NewOrder
        <4> QED BY <1>1, <2>1, <4>1, <4>2
      <3> QED BY <3>2, <3>3, <3>4 DEF BrokerNext
    <2>3. PICK p \in Submitters : xPost(p)
      BY <1>1, <2>2, WhoOrders DEF vars
    <2>4. Verified(w[p].q)
      BY <2>1, <2>3 DEF VerifyOK, xPost, At
    <2>5. Accept(Cid(w[p].i), w[p].q)
      <3>1. ord' # ord
        BY <1>1
      <3>2. ~Travel(Cid(w[p].i), w[p].q)
        <4> SUFFICES ASSUME Travel(Cid(w[p].i), w[p].q) PROVE FALSE
          OBVIOUS
        <4>1. PICK x : ord' = [ord EXCEPT ![Cid(w[p].i)].wire = x]
          BY DEF Travel
        <4>2. ord'[c].st = ord[c].st
          BY <2>1, <4>1 DEF BrokerOrder
        <4> QED BY <1>1, <4>2
      <3> QED BY <2>3, <3>1, <3>2 DEF xPost
    <2>6. ord'[c].qty = w[p].q
      BY <1>1, <2>1, <2>5 DEF Accept, NewOrder
    <2> QED BY <2>4, <2>6 DEF Verified, Budget, NonePrompt, Prompt, HeldUpToLate, OnlyLateWork
  <1>2. IInv /\ [Next]_vars =>
          [\A c \in Cids : ord[c].st = "none" /\ ord'[c].st # "none" /\ ~ord'[c].late
             => HeldUpToLate(ord'[c].qty) /\ OnlyLateWork]_vars
    BY <1>1
  <1>3. Spec => [][Next]_vars
    BY PTL DEF Spec
  <1> QED BY <1>2, <1>3, Inductive, PTL DEF SellsWholePosition

(* The exit-verification attention is closed only on evidence: by a        *)
(* verification that found local and broker quantity equal and nothing     *)
(* working, orders accepted late apart, or by attributed fills that        *)
(* explain the closed position.                                            *)
THEOREM AttentionResolvedOnEvidence == Spec => AttentionResolved
  <1>1. ASSUME IInv, [Next]_vars, attn.open, ~ attn'.open
        PROVE  \/ HeldUpToLate(pos.qty) /\ OnlyLateWork
               \/ pos.st = "closed" /\ HeldUpToLate(0) /\ Attributed' = pos.qty
    <2>1. /\ TypeOK /\ OrdersOK /\ VerifyOK /\ LocalOK /\ held \in Int /\ pos.qty \in Int
          /\ LateDone \in Nat
      BY <1>1, LateNat DEF IInv, TypeOK, Position
    <2>2. attn' # attn /\ attn' # Observed
      BY <1>1 DEF Observed
    <2>3. CASE \E p \in Submitters : xVerify(p)
      <3>1. PICK p \in Submitters : xVerify(p)
        BY <2>3
      <3>2. ExitVerified(p) /\ p # "corrective" /\ w[p].pc = "xOrders"
        BY <2>2, <3>1 DEF xVerify, Corrective, At
      <3>3. Verified(w[p].q)
        BY <1>1, <3>1, <3>2, VerifiedHolds DEF xVerify
      <3>4. w[p].loc = w[p].q
        BY <3>2 DEF ExitVerified, QuantityVerified, Corrective
      <3>5. held <= pos.qty /\ pos.qty <= w[p].loc /\ w[p].q \in Int
        BY <2>1, <3>2 DEF LocalOK, Claimed, TypeOK, Process, Procs
      <3> QED
        BY <2>1, <3>3, <3>4, <3>5
        DEF Verified, Budget, NonePrompt, Prompt, HeldUpToLate, OnlyLateWork
    <2>4. CASE PositionClosed
      <3>1. pos.st = "closed" /\ HeldUpToLate(0)
        BY <2>1, <2>4 DEF LocalOK, PositionClosed, At, HeldUpToLate, OrdersOK, Budget
      <3>2. Total([c \in Cids |-> ClosedFills[c].mine]) = pos.qty
        BY <2>2, <2>4 DEF PositionClosed
      <3>3. fills' = ClosedFills
        BY <2>4 DEF PositionClosed
      <3>4. Attributed' = Total([c \in Cids |-> fills'[c].mine])
        BY DEF Attributed
      <3> QED BY <3>1, <3>2, <3>3, <3>4
    <2> QED BY <1>1, <2>2, <2>3, <2>4, WhoResolves DEF vars
  <1>2. IInv /\ [Next]_vars =>
          [attn.open /\ ~attn'.open
             => \/ HeldUpToLate(pos.qty) /\ OnlyLateWork
                \/ pos.st = "closed" /\ HeldUpToLate(0) /\ Attributed' = pos.qty]_vars
    BY <1>1
  <1>3. Spec => [][Next]_vars
    BY PTL DEF Spec
  <1> QED BY <1>2, <1>3, Inductive, PTL DEF AttentionResolved

=============================================================================
