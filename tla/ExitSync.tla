------------------------------- MODULE ExitSync -------------------------------
(***************************************************************************)
(* What the workers learn from the broker about exits: submitted-order     *)
(* sync, broker-activity import and position sync.                         *)
(***************************************************************************)
EXTENDS ExitCorrective

(* submittedOrderSyncIntentWhere and the intent's own local order. A       *)
(* closed position with a filled order is history.                         *)
Syncable(i) ==
  /\ intent[i].st \in {"submitted"} \cup Nonterminal
  /\ row[Cid(i)].by = i
  /\ ~(pos.st = "closed" /\ row[Cid(i)].st = "filled")

(* The broker's status; the exit state of a trailing order at once. *)
SyncRead(i) ==
  /\ At("lifecycle", "idle") /\ Syncable(i)
  /\ xs' = IF i = "trail" /\ xs.cid THEN Protective(ord["trail"].st) ELSE xs
  /\ w' = [w EXCEPT !["lifecycle"] = [Idle EXCEPT !.pc = "syncRow", !.i = i,
             !.seen = ord[Cid(i)].st, !.out = row[Cid(i)].st]]
  /\ UNCHANGED <<pos, intent, row, attn, fills, lock, ord, held, sent, profile, faults, cancels>>

(* A changed status is swapped in if the local order still has the one     *)
(* that was read; the intent follows in a statement of its own.            *)
SyncRow ==
  LET l == w["lifecycle"]  c == Cid(l.i) IN
  /\ At("lifecycle", "syncRow")
  /\ IF l.seen # l.out /\ row[c].st = l.out
     THEN row' = [row EXCEPT ![c].st = l.seen] /\ Goto("lifecycle", "syncIntent")
     ELSE UNCHANGED row /\ Stop("lifecycle")
  /\ UNCHANGED <<pos, intent, xs, attn, fills, lock, ord, held, sent, profile, faults, cancels>>

SyncIntent ==
  /\ At("lifecycle", "syncIntent") /\ Stop("lifecycle")
  /\ intent' = [intent EXCEPT ![w["lifecycle"].i].st = w["lifecycle"].seen]
  /\ UNCHANGED <<pos, row, xs, attn, fills, lock, ord, held, sent, profile, faults, cancels>>

-----------------------------------------------------------------------------
(* findTrackedPositionLink: a fill is attributed through its local order   *)
(* or the exit state's linked order.                                       *)
Linked(c) == row[c].st # "none" \/ (c = "trail" /\ xs.bid)

Imported(c) ==
  [seen |-> ord[c].done, mine |-> IF Linked(c) THEN ord[c].done ELSE fills[c].mine]

FullFill(c) == row[c].st # "none" /\ ord[c].done > 0 /\ ord[c].st = "filled"

(* Import of an order's FILL activities, attributed where possible; the    *)
(* full fill of a known order completes order and intent.                  *)
ImportFills(c) ==
  /\ At("lifecycle", "idle") /\ fills[c] # Imported(c)
  /\ fills' = [fills EXCEPT ![c] = Imported(c)]
  /\ row' = IF FullFill(c) /\ row[c].st \notin Terminal THEN [row EXCEPT ![c].st = "filled"] ELSE row
  /\ intent' = IF FullFill(c) /\ intent[row[c].by].st \notin Terminal
               THEN [intent EXCEPT ![row[c].by].st = "filled"] ELSE intent
  /\ UNCHANGED <<pos, xs, attn, lock, w, ord, held, sent, profile, faults, cancels>>

-----------------------------------------------------------------------------
(* Position sync reads the broker's positions ... *)
PositionRead ==
  /\ At("lifecycle", "idle") /\ pos.st # "closed"
  /\ w' = [w EXCEPT !["lifecycle"] = [Idle EXCEPT !.pc = "position", !.h = held]]
  /\ UNCHANGED <<pos, intent, row, xs, attn, fills, lock, ord, held, sent, profile, faults, cancels>>

(* ... rewrites an existing long one, quantity and status both, and closes *)
(* one that is gone; a short one only raises attention.                    *)
PositionApply ==
  LET h == w["lifecycle"].h IN
  /\ At("lifecycle", "position")
  /\ \/ /\ h # 0 /\ Stop("lifecycle")
        /\ pos' = IF h > 0 THEN [st |-> "open", qty |-> h] ELSE pos
     \/ h = 0 /\ pos' = [pos EXCEPT !.st = "closed"] /\ Goto("lifecycle", "closing")
  /\ UNCHANGED <<intent, row, xs, attn, fills, lock, ord, held, sent, profile, faults, cancels>>

(* After the closure: import, attribution of unlinked fills when no fill   *)
(* is linked and they do not exceed the quantity, the exit state closed,   *)
(* the attention resolved if the attributed fills explain the quantity.    *)
ClosedFills ==
  LET new == [c \in Cids |-> Imported(c)]
      linked == Total([c \in Cids |-> new[c].mine])
      loose == Total([c \in Cids |-> new[c].seen - new[c].mine])
  IN IF linked = 0 /\ loose \in 1..pos.qty
     THEN [c \in Cids |-> [new[c] EXCEPT !.mine = @ + (new[c].seen - @)]]
     ELSE new

PositionClosed ==
  /\ At("lifecycle", "closing") /\ Stop("lifecycle")
  /\ fills' = ClosedFills
  /\ xs' = [xs EXCEPT !.st = "closed", !.att = FALSE]
  /\ attn' = IF /\ Total([c \in Cids |-> ClosedFills[c].mine]) = pos.qty
                /\ \A i \in Correctives : row[i].st \notin Nonterminal
             THEN [attn EXCEPT !.open = FALSE] ELSE attn
  /\ row' = [c \in Cids |-> IF FullFill(c) /\ row[c].st \notin Terminal
                            THEN [row[c] EXCEPT !.st = "filled"] ELSE row[c]]
  /\ intent' = [i \in Intents |->
       IF FullFill(Cid(i)) /\ row[Cid(i)].by = i /\ intent[i].st \notin Terminal
       THEN [intent[i] EXCEPT !.st = "filled"] ELSE intent[i]]
  /\ UNCHANGED <<pos, lock, ord, held, sent, profile, faults, cancels>>

SyncNext ==
  \/ \E i \in Intents : SyncRead(i)
  \/ \E c \in Cids : ImportFills(c)
  \/ SyncRow \/ SyncIntent \/ PositionRead \/ PositionApply \/ PositionClosed

=============================================================================
