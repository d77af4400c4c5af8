---------------------------- MODULE ExitCorrective ----------------------------
(***************************************************************************)
(* remaining-exposure-close.service: the system owner previews and         *)
(* executes the sale of exactly what a partly filled exit left.            *)
(***************************************************************************)
EXTENDS ExitTrailing

AttemptOf(rev) == AttemptId[rev]

(* An attempt that is open, or whose delivery is uncertain. *)
UnresolvedAttempt(i) == intent[i].st \in ActiveClose \/ intent[i].why = "uncertain"

(* evaluateCorrectiveRemainderEquation: tracked = attributed + held, all   *)
(* of it available, nothing zero.                                          *)
RemainderEquation(tracked, attributed) ==
  /\ tracked > 0 /\ attributed > 0
  /\ tracked - attributed = held /\ held > 0 /\ Available = held

(* evidence() finds no blocker for the attempt i. The position's status is *)
(* not part of it.                                                         *)
Unblocked(i) ==
  /\ attn.open
  /\ RemainderEquation(pos.qty, Attributed)
  /\ \A c \in Cids : ~Working(c)
  /\ \A j \in Correctives \ {i} : ~UnresolvedAttempt(j)

(* The preview: w keeps the evidence its fingerprint covers. *)
Preview ==
  /\ At("corrective", "idle") /\ attn.rev \in 1..(MaxRev - 1)
  /\ Unblocked(AttemptOf(attn.rev))
  /\ w' = [w EXCEPT !["corrective"] = [Idle EXCEPT !.pc = "execute", !.i = AttemptOf(attn.rev),
             !.q = pos.qty - Attributed, !.loc = pos.qty, !.att = Attributed]]
  /\ UNCHANGED <<pos, intent, row, xs, attn, fills, lock, ord, held, sent, profile, faults, cancels>>

SameEvidence ==
  LET k == w["corrective"] IN
  /\ attn.rev \in 1..(MaxRev - 1) /\ AttemptOf(attn.rev) = k.i
  /\ pos.qty = k.loc /\ Attributed = k.att

(* executeRemainingExposureClose takes the lock, or gives up. Under the    *)
(* lock the attempt is recovered first; a stale preview, changed evidence  *)
(* or a blocker ends it; else the intent is created.                       *)
executeRemainingExposureClose ==
  LET i == w["corrective"].i IN
  /\ At("corrective", "execute")
  /\ \/ /\ lock = Nobody /\ row[i].st = "none" /\ ord[i].st # "none" /\ intent[i].st # "none"
        /\ row' = [row EXCEPT ![i] = [st |-> ord[i].st, by |-> i]]
        /\ intent' = [intent EXCEPT ![i] = [st |-> "submitted", why |-> "none"]]
        /\ Stop("corrective") /\ UNCHANGED lock
     \/ /\ lock = Nobody /\ row[i].st = "none" /\ ord[i].st = "none"
        /\ SameEvidence /\ Unblocked(i)
        /\ intent' = [intent EXCEPT ![i] = [st |-> "submitting", why |-> "none"]]
        /\ Goto("corrective", "xFind") /\ lock' = "corrective" /\ UNCHANGED row
     \/ Stop("corrective") /\ UNCHANGED <<row, intent, lock>>
  /\ UNCHANGED <<pos, xs, attn, fills, ord, held, sent, profile, faults, cancels>>

(* correctiveCloseFailureDisposition *)
CorrectiveClass(out) ==
  CASE out \in {"blocked", "verify"} -> "blocked"
    [] out \in {"notSent", "verify503"} -> "notSent"
    [] out = "rejected" -> "rejected"
    [] OTHER -> "uncertain"

(* The end of the attempt. A definite failure gives the attention a new    *)
(* revision (unless a refused verification already did), so that a further *)
(* attempt has a client id of its own.                                     *)
FinishCorrective ==
  LET i == w["corrective"].i  out == w["corrective"].out  class == CorrectiveClass(out) IN
  /\ At("corrective", "done") /\ Stop("corrective") /\ lock' = Nobody
  /\ \/ out = "local" /\ UNCHANGED <<row, intent, attn>>
     \/ /\ out \in {"sent", "found"}
        /\ row' = [row EXCEPT ![i] = [st |-> w["corrective"].seen, by |-> i]]
        /\ intent' = [intent EXCEPT ![i] = [st |-> "submitted", why |-> "none"]]
        /\ UNCHANGED attn
     \/ /\ out \notin {"local", "sent", "found"}
        /\ intent' = [intent EXCEPT ![i] =
             [st |-> IF class = "uncertain" THEN "submitting" ELSE Unsent(class), why |-> class]]
        /\ attn' = IF class # "uncertain" /\ attn.open /\ AttemptOf(attn.rev) = i
                   THEN Observed ELSE attn
        /\ UNCHANGED row
  /\ UNCHANGED <<pos, xs, fills, ord, held, sent, profile, faults, cancels>>

CorrectiveNext == Preview \/ executeRemainingExposureClose \/ FinishCorrective

=============================================================================
