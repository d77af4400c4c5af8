-------------------------- MODULE LiveEntryWorker --------------------------
(***************************************************************************)
(* An order intent's way to the broker on a LIVE account: the admission of *)
(* an ordinary entry, the order worker (which holds the account's lifecycle *)
(* lock from the claim of an intent to the record of its outcome), recovery *)
(* of what a dead worker or request left behind, order sync, the broker,    *)
(* and the restart of the process.                                          *)
(*                                                                         *)
(* `held' stands for the intent's exposure claim, whose own life is the     *)
(* subject of EntryExposure: a definite non-send releases it, a definitive  *)
(* rejection lets the recovery sweep release it, anything else keeps it.    *)
(***************************************************************************)
EXTENDS LiveArming

NextUnused(i) == \A j \in Intents : j < i => intents[j].st # "none"

Posted(i) == \E n \in 1..Len(posts) : posts[n].intent = i

Set(i, st, held) == [intents EXCEPT ![i].st = st, ![i].held = held]

\* What a failed submission leaves on the intent's acceptance run, if the run
\* has not ended.
RunFailure(i, class, uncertain) ==
  LET r == intents[i].run
  IN  IF r = 0 \/ runs[r].out # "none" THEN runs
      ELSE [runs EXCEPT ![r].fail = class, ![r].uncertain = @ \/ uncertain]

AuthorityFrame == UNCHANGED <<acct, entries, cred, policy, appr, armings>>

-----------------------------------------------------------------------------
(* Admission.  The evaluation of an entry refuses it outright unless the     *)
(* account is armed and approved at that moment.                            *)

authorizeLiveBrokerWrite ==
  /\ acct.status = "ACTIVE" /\ acct.open
  /\ policy
  /\ Effective("ENTRY")

admitEntryOrderIntent(i, run) ==
  /\ intents[i].st = "none" /\ NextUnused(i)
  /\ entries /\ authorizeLiveBrokerWrite
  /\ \A j \in Intents : ~intents[j].held
  /\ intents' = [intents EXCEPT ![i] = [st |-> "received", run |-> run, held |-> TRUE]]

submitOrder(i) ==
  /\ admitEntryOrderIntent(i, 0)
  /\ AuthorityFrame
  /\ UNCHANGED <<broker, posts, runs, wk, drain, mon, ops, changes>>

\* The risk verdict, by compare-and-set on `received'; recovery fails an
\* admission that never reached one.
ConcludeAdmission(i) ==
  /\ intents[i].st = "received"
  /\ \/ intents' = Set(i, "pending", TRUE)
     \/ intents' = Set(i, "stopped", FALSE)
  /\ AuthorityFrame
  /\ UNCHANGED <<broker, posts, runs, wk, drain, mon, ops, changes>>

-----------------------------------------------------------------------------
(* The order worker.                                                       *)

WorkerClaim(i) ==
  /\ wk.pc = "idle"
  /\ intents[i].st = "pending"
  /\ intents' = Set(i, "submitting", TRUE)
  /\ wk' = [pc |-> "claimed", i |-> i]
  /\ AuthorityFrame
  /\ UNCHANGED <<broker, posts, runs, drain, mon, ops, changes>>

\* The second risk check refuses: nothing is written to the acceptance run.
RiskRecheckBlocked ==
  /\ wk.pc = "claimed"
  /\ intents' = Set(wk.i, "stopped", FALSE)
  /\ wk' = Idle
  /\ AuthorityFrame
  /\ UNCHANGED <<broker, posts, runs, drain, mon, ops, changes>>

\* A failure proven to precede the dispatch.
LocalFailure ==
  /\ wk.pc = "claimed"
  /\ intents' = Set(wk.i, "stopped", FALSE)
  /\ runs' = RunFailure(wk.i, "safe", FALSE)
  /\ wk' = Idle
  /\ AuthorityFrame
  /\ UNCHANGED <<broker, posts, drain, mon, ops, changes>>

\* NOT_SENT_BLOCKED: the claim is released.
NotSent(i) == Set(i, "stopped", FALSE)

\* The broker boundary finds no valid authority for this entry.
EntryRefused ==
  /\ wk.pc = "claimed"
  /\ ~(policy /\ cred = "ACTIVE" /\ AuthorizedEntry(wk.i))
  /\ intents' = NotSent(wk.i)
  /\ runs' = RunFailure(wk.i, "safe", FALSE)
  /\ wk' = Idle
  /\ AuthorityFrame
  /\ UNCHANGED <<broker, posts, drain, mon, ops, changes>>

authorizeAndConsumeNewPositionEntry ==
  /\ wk.pc = "claimed"
  /\ policy /\ cred = "ACTIVE"
  /\ AuthorizedEntry(wk.i)
  /\ ConsumeEntryAuthority(wk.i)
  /\ wk' = [pc |-> "authorized", i |-> wk.i, arming |-> acct.active,
            rev |-> appr["ENTRY"].rev]
  /\ UNCHANGED <<cred, policy, intents, broker, posts, runs, drain, mon, ops, changes>>

\* The request could not even be prepared: the arming is spent for nothing.
PreparationFailed ==
  /\ wk.pc = "authorized"
  /\ intents' = NotSent(wk.i)
  /\ runs' = RunFailure(wk.i, "safe", FALSE)
  /\ wk' = Idle
  /\ AuthorityFrame
  /\ UNCHANGED <<broker, posts, drain, mon, ops, changes>>

\* What the client makes of the response: every status below 500 that is not a
\* success is BROKER_REJECTED.  "rejected" is a definitive one (400, 401, 403,
\* 404, 422, 429), "conflict" any other (408, 409, ...), "uncertain" a 5xx or
\* no response.
Answers == {"accepted", "rejected", "conflict", "uncertain"}

BrokerRejected(answer) == answer \in {"rejected", "conflict"}

\* fetch.  Unless the answer settles it, the order may be made, may be made
\* later by a request still on its way, or may never be.
Post ==
  /\ wk.pc = "authorized"
  /\ \E made \in {"none", "sent", "open"}, answer \in Answers :
        /\ answer = "accepted" => made = "open"
        /\ answer = "rejected" => made = "none"
        /\ broker' = [broker EXCEPT ![wk.i] = made]
        /\ posts' = Append(posts, [intent |-> wk.i, arming |-> wk.arming, rev |-> wk.rev,
                                   run |-> intents[wk.i].run, answer |-> answer])
        /\ wk' = [pc |-> "posted", i |-> wk.i, answer |-> answer]
  /\ AuthorityFrame
  /\ UNCHANGED <<intents, runs, drain, mon, ops, changes>>

RecordAccepted ==
  /\ wk.pc = "posted" /\ wk.answer = "accepted"
  /\ intents' = Set(wk.i, "submitted", TRUE)
  /\ wk' = Idle
  /\ AuthorityFrame
  /\ UNCHANGED <<broker, posts, runs, drain, mon, ops, changes>>

\* A rejection of either kind ends the intent and counts as a safe failure of
\* the run; no status code releases the claim by itself.
RecordRejected ==
  /\ wk.pc = "posted" /\ BrokerRejected(wk.answer)
  /\ intents' = Set(wk.i, "stopped", TRUE)
  /\ runs' = RunFailure(wk.i, "safe", FALSE)
  /\ wk' = Idle
  /\ AuthorityFrame
  /\ UNCHANGED <<broker, posts, drain, mon, ops, changes>>

\* The entry is never sent again: an acceptance entry stays submitting.
RecordUncertain ==
  /\ wk.pc = "posted" /\ wk.answer = "uncertain"
  /\ intents' = IF intents[wk.i].run # 0 THEN intents ELSE Set(wk.i, "stopped", TRUE)
  /\ runs' = RunFailure(wk.i, "unsafe", TRUE)
  /\ wk' = Idle
  /\ AuthorityFrame
  /\ UNCHANGED <<broker, posts, drain, mon, ops, changes>>

-----------------------------------------------------------------------------
(* Recovery of a `submitting' intent nobody works on, under the lock.       *)

\* The lookup by client order id finds an order.
Known(i) == broker[i] \in {"open", "filled", "dead"}

recoverStaleSubmittingIntentsForAccount(i) ==
  /\ wk.pc = "idle"
  /\ intents[i].st = "submitting"
  /\ \/ /\ Known(i)
        /\ intents' = Set(i, "submitted", TRUE)
        /\ UNCHANGED runs
     \/ /\ ~Known(i)
        /\ IF intents[i].run # 0
           THEN /\ runs' = RunFailure(i, "unsafe", TRUE)
                /\ UNCHANGED intents
           ELSE /\ \E held \in BOOLEAN : /\ Posted(i) => held
                                         /\ intents' = Set(i, "stopped", held)
                /\ UNCHANGED runs
  /\ AuthorityFrame
  /\ UNCHANGED <<broker, posts, wk, drain, mon, ops, changes>>

\* CONFIRMED_BROKER_REJECTION: a definitive rejection, and after the settle
\* window no order of that id, no open order and no position at the broker.
recoverTerminalEntryClaimsForAccount(i) ==
  /\ wk.pc = "idle"
  /\ intents[i].st = "stopped" /\ intents[i].held
  /\ \E n \in DOMAIN posts : posts[n].intent = i /\ posts[n].answer = "rejected"
  /\ ~Known(i) /\ \A j \in Intents : broker[j] \notin {"open", "filled"}
  /\ intents' = Set(i, "stopped", FALSE)
  /\ AuthorityFrame
  /\ UNCHANGED <<broker, posts, runs, wk, drain, mon, ops, changes>>

-----------------------------------------------------------------------------
(* The broker, order sync and the process.                                 *)

\* A request still on its way is taken up or lost; an order is filled or dies.
BrokerStep(i) ==
  /\ \/ broker[i] = "sent" /\ \E st \in {"open", "none"} : broker' = [broker EXCEPT ![i] = st]
     \/ broker[i] = "open" /\ \E st \in {"filled", "dead"} : broker' = [broker EXCEPT ![i] = st]
  /\ AuthorityFrame
  /\ UNCHANGED <<intents, posts, runs, wk, drain, mon, ops, changes>>

\* The intents after order sync has seen every submitted order.
Synced ==
  [i \in Intents |->
    IF intents[i].st # "submitted" \/ broker[i] = "open" THEN intents[i]
    ELSE [intents[i] EXCEPT !.st = IF broker[i] = "filled" THEN "filled" ELSE "canceled",
                            !.held = broker[i] = "filled"]]

syncSubmittedOrdersForAccountUnlocked ==
  /\ wk.pc = "idle"
  /\ Synced # intents
  /\ intents' = Synced
  /\ AuthorityFrame
  /\ UNCHANGED <<broker, posts, runs, wk, drain, mon, ops, changes>>

\* The process ends between any two steps and comes back, perhaps with
\* another deployment policy: every request under way is lost.
Restart ==
  /\ Change
  /\ policy' \in BOOLEAN
  /\ wk' = Idle
  /\ mon' = "idle"
  /\ ops' = NoOps
  /\ drain' = IF drain = "pending" THEN "none" ELSE drain
  /\ UNCHANGED <<acct, entries, cred, appr, armings, intents, broker, posts, runs>>

WorkerStep ==
  \/ \E i \in Intents : \/ submitOrder(i) \/ ConcludeAdmission(i) \/ WorkerClaim(i)
                        \/ recoverStaleSubmittingIntentsForAccount(i)
                        \/ recoverTerminalEntryClaimsForAccount(i) \/ BrokerStep(i)
  \/ RiskRecheckBlocked \/ LocalFailure \/ EntryRefused
  \/ authorizeAndConsumeNewPositionEntry \/ PreparationFailed
  \/ Post \/ RecordAccepted \/ RecordRejected \/ RecordUncertain
  \/ syncSubmittedOrdersForAccountUnlocked
  \/ Restart
=============================================================================
