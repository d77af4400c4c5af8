------------------------------- MODULE ExitClose -------------------------------
(***************************************************************************)
(* close-position.service, called by the exit evaluator (AUTOMATED         *)
(* strategy) and by the owner (MANUAL_EMERGENCY_CLOSE), and the two        *)
(* recoveries of a sell intent whose submitter did not finish: the order   *)
(* worker's and reconciliation's.                                          *)
(***************************************************************************)
EXTENDS ExitVerification

ActiveClose == {"pending", "submitting", "submitted"}

Reopen == IF pos.st = "closing" THEN [pos EXCEPT !.st = "open"] ELSE pos

(* The checks of the serializable claim transaction. *)
Closable ==
  /\ pos.st = "open"
  /\ \A i \in Closes : intent[i].st \notin ActiveClose
  /\ \A c \in Cids : row[c].st \notin Nonterminal

(* The claim: the position to closing and a submitting intent, together. *)
ClaimClose(p, i) ==
  /\ Closable /\ intent[i].st = "none"
  /\ pos' = [pos EXCEPT !.st = "closing"]
  /\ intent' = [intent EXCEPT ![i] = [st |-> "submitting", why |-> "none"]]
  /\ w' = [w EXCEPT ![p] = [Idle EXCEPT !.pc = "xLock", !.i = i, !.q = pos.qty, !.loc = pos.qty]]

(* The owner's emergency close. *)
OwnerClose(i) ==
  /\ At("owner", "idle") /\ ClaimClose("owner", i)
  /\ UNCHANGED <<row, xs, attn, fills, lock, ord, held, sent, profile, faults, cancels>>

(* How an attempt that sent nothing, or was rejected, leaves its intent. *)
Unsent(out) == IF out = "blocked" THEN "blocked" ELSE "failed"

(* The rest of closePosition. A refused verification and a definite        *)
(* failure release both claims in one transaction; anything else that is   *)
(* not a classified delivery error counts as uncertain.                    *)
FinishClose(p) ==
  LET i == w[p].i  out == w[p].out  c == Cid(i) IN
  /\ At(p, "done") /\ i \in Closes
  /\ Stop(p)
  /\ \/ /\ out = "local"
        /\ intent' = [intent EXCEPT ![i] = [st |-> "submitted", why |-> "none"]]
        /\ UNCHANGED <<pos, row>>
     \/ /\ out \in {"sent", "found"}
        /\ row' = [row EXCEPT ![c] = [st |-> w[p].seen, by |-> i]]
        /\ intent' = [intent EXCEPT ![i] = IF @.st = "submitting"
                                           THEN [st |-> "submitted", why |-> "none"] ELSE @]
        /\ UNCHANGED pos
     \/ /\ out \in {"verify", "verify503"}
        /\ intent' = [intent EXCEPT ![i] = IF @.st \in {"pending", "submitting"}
                                           THEN [st |-> "blocked", why |-> "verification"] ELSE @]
        /\ pos' = Reopen /\ UNCHANGED row
     \/ /\ out \in {"notSent", "blocked", "rejected"}
        /\ intent' = [intent EXCEPT ![i] = IF @.st = "submitting"
                                           THEN [st |-> Unsent(out), why |-> out] ELSE @]
        /\ pos' = Reopen /\ UNCHANGED row
     \/ /\ out \in {"uncertain", "error"}
        /\ intent' = [intent EXCEPT ![i].why = IF intent[i].st = "submitting"
                                               THEN "uncertain" ELSE @]
        /\ UNCHANGED <<pos, row>>
  /\ UNCHANGED <<xs, attn, fills, lock, ord, held, sent, profile, faults, cancels>>

-----------------------------------------------------------------------------
StaleAtOnce(i) == intent[i].st = "submitting"

(* An intent is stale when it was not touched for longer than a submission *)
(* takes.                                                                  *)
Stale(i) == intent[i].st = "submitting" /\ \A p \in Submitters : w[p].i # i

(* recoverStaleSubmittingIntentsForAccount for a sell intent: a persisted  *)
(* order, else a lookup by client id.                                      *)
RecoverLookup(i) ==
  /\ At("lifecycle", "idle") /\ Stale(i)
  /\ \/ /\ row[Cid(i)].by = i
        /\ intent' = [intent EXCEPT ![i] = [st |-> "submitted", why |-> "none"]]
        /\ UNCHANGED w
     \/ /\ row[Cid(i)].by # i
        /\ w' = [w EXCEPT !["lifecycle"] = [Idle EXCEPT !.pc = "recover", !.i = i,
                   !.seen = ord[Cid(i)].st, !.out = intent[i].why]]
        /\ UNCHANGED intent
  /\ UNCHANGED <<pos, row, xs, attn, fills, lock, ord, held, sent, profile, faults, cancels>>

(* A found order is materialized; an absent one whose recorded failure was *)
(* definite releases the claim; otherwise the exit is never requeued.      *)
RecoverApply ==
  LET i == w["lifecycle"].i  seen == w["lifecycle"].seen  why == w["lifecycle"].out  c == Cid(i) IN
  /\ At("lifecycle", "recover") /\ Stop("lifecycle")
  /\ \/ /\ seen # "none"
        /\ row' = [row EXCEPT ![c] = IF @.st = "none" THEN [st |-> seen, by |-> i] ELSE @]
        /\ intent' = [intent EXCEPT ![i] = IF @.st = "submitting"
                                           THEN [st |-> "submitted", why |-> "none"] ELSE @]
        /\ UNCHANGED pos
     \/ /\ seen = "none" /\ why \in {"notSent", "blocked", "rejected"}
        /\ intent' = [intent EXCEPT ![i].st = IF @ = "submitting" THEN Unsent(why) ELSE @]
        /\ pos' = Reopen /\ UNCHANGED row
     \/ /\ seen = "none" /\ why \in {"none", "verification", "uncertain"}
        /\ intent' = [intent EXCEPT ![i].why = IF intent[i].st = "submitting" /\ why = "none"
                                               THEN "uncertain" ELSE @]
        /\ UNCHANGED <<pos, row>>
  /\ UNCHANGED <<xs, attn, fills, lock, ord, held, sent, profile, faults, cancels>>

(* recoverDeterministicallyAbsentStaleCloseIntents: the lookup, then one   *)
(* transaction that fails the intent and, if nothing else is closing the   *)
(* position, opens it again.                                               *)
AbsentLookup(i) ==
  /\ At("lifecycle", "idle") /\ i \in Closes /\ Stale(i)
  /\ ord[Cid(i)].st = "none"
  /\ w' = [w EXCEPT !["lifecycle"] = [Idle EXCEPT !.pc = "absent", !.i = i]]
  /\ UNCHANGED <<pos, intent, row, xs, attn, fills, lock, ord, held, sent, profile, faults, cancels>>

AbsentFinalize ==
  LET i == w["lifecycle"].i IN
  /\ At("lifecycle", "absent") /\ Stop("lifecycle")
  /\ IF intent[i].st = "submitting"
     THEN /\ intent' = [intent EXCEPT ![i] = [st |-> "failed", why |-> "absent"]]
          /\ pos' = IF /\ \A j \in Closes \ {i} : intent[j].st \notin ActiveClose
                       /\ \A c \in Cids : row[c].st \notin Nonterminal
                    THEN Reopen ELSE pos
     ELSE UNCHANGED <<intent, pos>>
  /\ UNCHANGED <<row, xs, attn, fills, lock, ord, held, sent, profile, faults, cancels>>

CloseNext ==
  \/ \E i \in Closes : OwnerClose(i)
  \/ \E p \in Submitters : FinishClose(p)
  \/ \E i \in Intents : RecoverLookup(i) \/ AbsentLookup(i)
  \/ RecoverApply \/ AbsentFinalize

=============================================================================
