--------------------------- MODULE ExitVerification ---------------------------
(***************************************************************************)
(* verified-exit-submission.service: the only path on which a sell reaches *)
(* the broker. A submitter p works on intent w[p].i; w[p].out is how the   *)
(* call ended.                                                             *)
(***************************************************************************)
EXTENDS ExitOrders

Corrective(p) == p = "corrective"

(* submitVerifiedExit holds the lock for one call and gives it up however  *)
(* the call ends; the corrective close entered with the lock held.         *)
Leave(p) == lock' = IF Corrective(p) THEN lock ELSE Nobody

(* How the call ended; the caller goes on at "done". *)
Ended(p, out, seen) ==
  w' = [w EXCEPT ![p] = [Idle EXCEPT !.pc = "done", !.i = w[p].i, !.out = out, !.seen = seen]]

(* The verification failed: block() follows. *)
Refuse(p) == w' = [w EXCEPT ![p] = [Idle EXCEPT !.pc = "xBlock", !.i = w[p].i]]

(* A local order with the client id, then a broker order with it, whatever *)
(* their status, are the outcome of an earlier attempt.                    *)
xRecover(p) ==
  LET c == Cid(w[p].i) IN
  \/ /\ row[c].st # "none" /\ Ended(p, "local", "none") /\ Leave(p)
     /\ UNCHANGED faults
  \/ /\ row[c].st = "none" /\ Fault /\ Refuse(p) /\ lock' = p
  \/ /\ row[c].st = "none" /\ ord[c].st # "none"
     /\ Ended(p, "found", ord[c].st) /\ Leave(p) /\ UNCHANGED faults
  \/ /\ row[c].st = "none" /\ ord[c].st = "none"
     /\ Goto(p, "xPos") /\ lock' = p /\ UNCHANGED faults

(* submitVerifiedExit takes the lock and recovers; a lock that is taken is *)
(* an HttpError 503 of its own kind.                                       *)
submitVerifiedExit(p) ==
  /\ At(p, "xLock")
  /\ \/ lock = Nobody /\ xRecover(p)
     \/ lock # Nobody /\ Ended(p, "error", "none") /\ UNCHANGED <<lock, faults>>
  /\ UNCHANGED <<pos, intent, row, xs, attn, fills, ord, held, sent, profile, cancels>>

(* submitVerifiedCorrectiveExitWithinAccountLock *)
submitVerifiedCorrectiveExit(p) ==
  /\ At(p, "xFind") /\ xRecover(p)
  /\ UNCHANGED <<pos, intent, row, xs, attn, fills, ord, held, sent, profile, cancels>>

(* The broker's position is read first and its open orders afterwards. *)
xReadPosition(p) ==
  /\ At(p, "xPos")
  /\ \/ w' = [w EXCEPT ![p].pc = "xOrders", ![p].h = held, ![p].a = Available]
        /\ UNCHANGED faults
     \/ Fault /\ Refuse(p)
  /\ UNCHANGED <<pos, intent, row, xs, attn, fills, lock, ord, held, sent, profile, cancels>>

(* What the sell must satisfy: no other working sell of the symbol, a      *)
(* long position of exactly the intended and the local quantity (or the    *)
(* corrective equation), all of it available.                              *)
QuantityOnlyLocal(p) == w[p].q = w[p].loc

QuantityVerified(p) ==
  IF Corrective(p)
  THEN w[p].att > 0 /\ w[p].loc - w[p].att = w[p].q /\ w[p].h = w[p].q
  ELSE w[p].h = w[p].q /\ w[p].h = w[p].loc

AvailabilityUnchecked(p) == TRUE

FullyAvailable(p) == w[p].a = w[p].h

ExitVerified(p) ==
  /\ \A c \in Cids \ {Cid(w[p].i)} : ~Working(c)
  /\ w[p].h > 0 /\ w[p].q > 0 /\ w[p].loc > 0
  /\ QuantityVerified(p)
  /\ FullyAvailable(p)

(* A passed verification resolves the open attention of the position       *)
(* except for a corrective close; a failing resolution ends the call.      *)
xVerify(p) ==
  /\ At(p, "xOrders")
  /\ \/ /\ ExitVerified(p)
        /\ w' = [w EXCEPT ![p] = [Idle EXCEPT !.pc = "xPost", !.i = w[p].i, !.q = w[p].q]]
        /\ attn' = IF Corrective(p) THEN attn ELSE [attn EXCEPT !.open = FALSE]
        /\ UNCHANGED <<lock, faults>>
     \/ /\ ExitVerified(p) /\ ~Corrective(p) /\ attn.open /\ Fault
        /\ Ended(p, "error", "none") /\ Leave(p) /\ UNCHANGED attn
     \/ /\ ~ExitVerified(p) /\ Refuse(p) /\ UNCHANGED <<attn, lock, faults>>
     \/ /\ Fault /\ Refuse(p) /\ UNCHANGED <<attn, lock>>
  /\ UNCHANGED <<pos, intent, row, xs, fills, ord, held, sent, profile, cancels>>

(* authorizeLiveBrokerWrite and the POST. The client id is taken if an     *)
(* earlier request was accepted meanwhile: the broker refuses. A refusal,  *)
(* every 4xx, is followed by a lookup: an order it finds is the outcome,   *)
(* as an accepted one is, a miss makes the rejection final, a failure      *)
(* makes it uncertain. An answer that is lost, and a 408 or 409 among the  *)
(* refusals, leaves open whether the order was accepted, will be once the  *)
(* lock is gone, or never is. A refused authorization is an HttpError of   *)
(* its own, and the client stops some requests before `fetch'.             *)
xPost(p) ==
  LET i == w[p].i  c == Cid(i)  q == w[p].q IN
  /\ At(p, "xPost")
  /\ \/ Accept(c, q) /\ Ended(p, "sent", "new") /\ UNCHANGED faults
     \/ /\ ord[c].st # "none" /\ UNCHANGED <<ord, faults>>
        /\ Ended(p, "found", ord[c].st)
     \/ /\ Accept(c, q) \/ Travel(c, q) \/ UNCHANGED ord
        /\ Fault /\ Ended(p, "uncertain", "none")
     \/ /\ ord[c].st = "none" /\ (Travel(c, q) \/ UNCHANGED ord)
        /\ Fault /\ Ended(p, "rejected", "none")
     \/ /\ Fault /\ UNCHANGED ord
        /\ \E o \in {"notSent", "blocked", "error"} : Ended(p, o, "none")
  /\ sent' = IF w'[p].out \in {"notSent", "blocked", "error"} THEN sent ELSE sent \cup {i}
  /\ Leave(p)
  /\ UNCHANGED <<pos, intent, row, xs, attn, fills, held, profile, cancels>>

(* block(): the intent first, in a statement of its own. *)
xBlock(p) ==
  /\ At(p, "xBlock")
  /\ intent' = [intent EXCEPT ![w[p].i] = [st |-> "blocked", why |-> "verification"]]
  /\ Goto(p, "xAttention")
  /\ UNCHANGED <<pos, row, xs, attn, fills, lock, ord, held, sent, profile, faults, cancels>>

(* openOrObserveOperationalAttention gives the episode a new revision; if  *)
(* it fails the refusal is retryable instead.                              *)
Observed == [open |-> TRUE, rev |-> IF attn.rev < MaxRev THEN attn.rev + 1 ELSE attn.rev]

xAttention(p) ==
  /\ At(p, "xAttention")
  /\ \/ attn' = Observed /\ Ended(p, "verify", "none") /\ UNCHANGED faults
     \/ Fault /\ UNCHANGED attn /\ Ended(p, "verify503", "none")
  /\ Leave(p)
  /\ UNCHANGED <<pos, intent, row, xs, fills, ord, held, sent, profile, cancels>>

VerificationNext ==
  \E p \in Submitters :
    submitVerifiedExit(p) \/ submitVerifiedCorrectiveExit(p) \/ xReadPosition(p) \/ xVerify(p)
      \/ xPost(p) \/ xBlock(p) \/ xAttention(p)

=============================================================================
