----------------------------- MODULE ExitTrailing -----------------------------
(***************************************************************************)
(* exit-evaluator.service, trailing-stop-exit.service,                     *)
(* protective-order-sync.service and position-exit-state.service: one tick *)
(* of the evaluator for the position.                                      *)
(***************************************************************************)
EXTENDS ExitClose

ExitStatuses == {"watching", "target_unlocked", "submitting", "submitted", "filled",
                 "dead", "submit_failed", "closed"}

RawOrderStatus(st) == IF st = "canceled" THEN st ELSE "submitted"

(* mapTrailingStopOrderStatusToExitStateStatus; "dead" is the attention    *)
(* status of any terminal order that did not fill.                         *)
ExitStatusOf(st) ==
  CASE st = "filled" -> "filled" [] st = "canceled" -> "dead" [] OTHER -> "submitted"

ProtectiveWithoutAttention(st) ==
  [xs EXCEPT !.st = ExitStatusOf(st), !.cid = TRUE, !.bid = TRUE, !.ost = st, !.att = FALSE]

(* What a synchronized protective order writes into the exit state. *)
Protective(st) ==
  [xs EXCEPT !.st = ExitStatusOf(st), !.cid = TRUE, !.bid = TRUE, !.ost = st,
             !.att = (st = "canceled")]

-----------------------------------------------------------------------------
(* evaluateExitsForAccount reads the positions with their exit states      *)
(* first, and decides by what it read: a linked order is synchronized and  *)
(* nothing else is done, an open position without one is decided on; a = 1 *)
(* if its target was unlocked.                                             *)
EvaluatorStart ==
  /\ At("evaluator", "idle") /\ pos.st # "closed"
  /\ \/ /\ xs.bid /\ xs.ost \notin Terminal
        /\ w' = [w EXCEPT !["evaluator"] = [Idle EXCEPT !.pc = "protRead"]]
     \/ /\ ~xs.bid /\ pos.st = "open"
        /\ w' = [w EXCEPT !["evaluator"] =
                   [Idle EXCEPT !.pc = "decide", !.a = IF xs.unlocked THEN 1 ELSE 0]]
  /\ UNCHANGED <<pos, intent, row, xs, attn, fills, lock, ord, held, sent, profile, faults, cancels>>

(* syncProtectiveOrdersForAccount: the broker's status, the exit state,    *)
(* then the local order, whatever it says by now.                          *)
ProtectiveRead ==
  /\ At("evaluator", "protRead")
  /\ \/ /\ w' = [w EXCEPT !["evaluator"].pc = "protWrite", !["evaluator"].seen = ord["trail"].st]
        /\ UNCHANGED faults
     \/ Fault /\ Stop("evaluator")
  /\ UNCHANGED <<pos, intent, row, xs, attn, fills, lock, ord, held, sent, profile, cancels>>

ProtectiveWrite ==
  /\ At("evaluator", "protWrite") /\ Stop("evaluator")
  /\ xs' = Protective(w["evaluator"].seen)
  /\ row' = [row EXCEPT !["trail"].st = IF @ = "none" THEN @ ELSE w["evaluator"].seen]
  /\ UNCHANGED <<pos, intent, attn, fills, lock, ord, held, sent, profile, faults, cancels>>

(* The decision for the position: nothing to do (exits disabled, no        *)
(* signal), the target unlocks, an unlocked trailing stop is submitted, or *)
(* the position is closed.                                                 *)
EvaluatorDecide ==
  /\ At("evaluator", "decide")
  /\ \/ Stop("evaluator") /\ UNCHANGED <<pos, intent, xs>>
     \/ /\ profile = "trailing"
        /\ xs' = IF w["evaluator"].a = 0
                 THEN [xs EXCEPT !.st = "target_unlocked", !.unlocked = TRUE] ELSE xs
        /\ Goto("evaluator", "trailClaim")
        /\ UNCHANGED <<pos, intent>>
     \/ /\ profile = "fixed"
        /\ \E i \in Closes : ClaimClose("evaluator", i)
        /\ UNCHANGED xs
  /\ UNCHANGED <<row, attn, fills, lock, ord, held, sent, profile, faults, cancels>>


-----------------------------------------------------------------------------
(* submitTrailingStopExitOrder reads the position afresh: an order already *)
(* linked or persisted ends the call, the latter after linking it. Else    *)
(* the serializable claim: an existing intent is taken over (seen =        *)
(* "again"), after a backoff; or the exit state is claimed and the intent  *)
(* created.                                                                *)
TrailClaim ==
  /\ At("evaluator", "trailClaim")
  /\ \/ xs.bid /\ Stop("evaluator") /\ UNCHANGED <<xs, intent>>
     \/ /\ ~xs.bid /\ row["trail"].st # "none"
        /\ xs' = Protective(row["trail"].st) /\ Stop("evaluator") /\ UNCHANGED intent
     \/ /\ ~xs.bid /\ row["trail"].st = "none" /\ intent["trail"].st # "none"
        /\ \/ Stop("evaluator")
           \/ w' = [w EXCEPT !["evaluator"] = [Idle EXCEPT !.pc = "trailLookup", !.i = "trail",
                      !.q = pos.qty, !.loc = pos.qty, !.seen = "again",
                      !.out = intent["trail"].why]]
        /\ UNCHANGED <<intent, xs>>
     \/ /\ ~xs.bid /\ row["trail"].st = "none" /\ intent["trail"].st = "none" /\ ~xs.cid
        /\ xs' = [xs EXCEPT !.st = "submitting", !.cid = TRUE, !.ost = "pending"]
        /\ intent' = [intent EXCEPT !["trail"] = [st |-> "submitting", why |-> "none"]]
        /\ w' = [w EXCEPT !["evaluator"] = [Idle EXCEPT !.pc = "trailLookup", !.i = "trail",
                   !.q = pos.qty, !.loc = pos.qty]]
  /\ UNCHANGED <<pos, row, attn, fills, lock, ord, held, sent, profile, faults, cancels>>

(* Recovery by client id comes before the submission; an attempt recorded  *)
(* as uncertain or rejected is never sent again.                           *)
Inconclusive(e) == e.seen = "again" /\ e.out \in {"uncertain", "rejected"}

TrailLookup ==
  LET e == w["evaluator"] IN
  /\ At("evaluator", "trailLookup")
  /\ \/ /\ ord["trail"].st # "none" /\ UNCHANGED faults
        /\ w' = [w EXCEPT !["evaluator"].pc = "persist", !["evaluator"].seen = ord["trail"].st,
                          !["evaluator"].out = "none"]
     \/ /\ ord["trail"].st = "none" /\ Inconclusive(e) /\ Stop("evaluator") /\ UNCHANGED faults
     \/ /\ ord["trail"].st = "none" /\ ~Inconclusive(e) /\ UNCHANGED faults
        /\ w' = [w EXCEPT !["evaluator"].pc = "xLock", !["evaluator"].seen = "none",
                          !["evaluator"].out = "none"]
     \/ Fault /\ Goto("evaluator", "trailFailed")
  /\ UNCHANGED <<pos, intent, row, xs, attn, fills, lock, ord, held, sent, profile, cancels>>

(* The end of the submission: only a BrokerWriteDeliveryError has a class  *)
(* of its own here.                                                        *)
TrailClass(out) == IF out \in {"notSent", "blocked", "rejected"} THEN out ELSE "uncertain"

TrailDone ==
  LET out == w["evaluator"].out IN
  /\ At("evaluator", "done") /\ w["evaluator"].i = "trail"
  /\ \/ out = "local" /\ Stop("evaluator") /\ UNCHANGED intent
     \/ out \in {"sent", "found"} /\ Goto("evaluator", "persist") /\ UNCHANGED intent
     \/ /\ out \notin {"local", "sent", "found"}
        /\ intent' = [intent EXCEPT !["trail"] =
             [st |-> IF TrailClass(out) = "blocked" THEN "blocked"
                     ELSE IF TrailClass(out) = "notSent" THEN "failed" ELSE "submitting",
              why |-> TrailClass(out)]]
        /\ Goto("evaluator", "trailFailed")
  /\ UNCHANGED <<pos, row, xs, attn, fills, lock, ord, held, sent, profile, faults, cancels>>

(* persistTrailingStopOrder: the local order, then the intent and the exit *)
(* state; a failure in between is an uncertain delivery.                   *)
TrailPersist ==
  /\ At("evaluator", "persist")
  /\ \/ /\ row' = [row EXCEPT !["trail"] = [st |-> w["evaluator"].seen, by |-> "trail"]]
        /\ Goto("evaluator", "mark") /\ UNCHANGED <<intent, faults>>
     \/ /\ Fault /\ UNCHANGED row
        /\ intent' = [intent EXCEPT !["trail"] = [st |-> "submitting", why |-> "uncertain"]]
        /\ Goto("evaluator", "trailFailed")
  /\ UNCHANGED <<pos, xs, attn, fills, lock, ord, held, sent, profile, cancels>>

TrailMark ==
  /\ At("evaluator", "mark") /\ Stop("evaluator")
  /\ intent' = [intent EXCEPT !["trail"] = [st |-> "submitted", why |-> "none"]]
  /\ xs' = Protective(w["evaluator"].seen)
  /\ UNCHANGED <<pos, row, attn, fills, lock, ord, held, sent, profile, faults, cancels>>

(* The evaluator's catch: markTrailingStopOrderSubmitFailed. *)
TrailFailed ==
  /\ At("evaluator", "trailFailed") /\ Stop("evaluator")
  /\ xs' = [xs EXCEPT !.st = "submit_failed", !.ost = "submit_failed", !.att = TRUE]
  /\ UNCHANGED <<pos, intent, row, attn, fills, lock, ord, held, sent, profile, faults, cancels>>

TrailingNext ==
  \/ EvaluatorStart \/ ProtectiveRead \/ ProtectiveWrite \/ EvaluatorDecide
  \/ TrailClaim \/ TrailLookup \/ TrailDone \/ TrailPersist \/ TrailMark
  \/ TrailFailed

=============================================================================
