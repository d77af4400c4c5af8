-------------------------- MODULE MomentumCandidates --------------------------
(***************************************************************************)
(* The candidates of the momentum pipeline, one for each ingested positive *)
(* impact (its unique key), and the stages of a run that write them:       *)
(* expiration, generation and price confirmation.  A full run reads the    *)
(* clock once, at its start, and every stage uses that reading; a call of  *)
(* a single stage reads it as it goes.                                     *)
(*                                                                         *)
(* "watching" stands for the active states a handoff refuses (DISCOVERED,  *)
(* WATCHING, ENTRY_BLOCKED, and ENTRY_READY below the handoff score).      *)
(* Scores are abstracted to the outcome of a confirmation.                 *)
(***************************************************************************)
EXTENDS MomentumNews

CONSTANTS Positive,   \* articles with a positive, sufficient impact
          MaxClock,   \* bound on the clock
          Lifetime    \* expiresInHours

NoCandidate == "no candidate"

ASSUME CandidateAssumption ==
  /\ Positive \subseteq Usable /\ NoCandidate \notin Positive
  /\ MaxClock \in Nat /\ Lifetime \in Nat \ {0}

VARIABLES clock,
          cand,     \* [state, expiresAt, confirmed] of each positive impact
          run       \* the pipeline runs: [pc, now, todo, at, out, ready, force]

Active == {"watching", "entry_ready"}

\* isMomentumCandidateExpired, at the inclusive boundary
Lapsed(c, now) == cand[c].state # "none" /\ cand[c].expiresAt <= now

Idle == [pc |-> "idle", now |-> 0, todo |-> {}, at |-> NoCandidate,
         out |-> "none", ready |-> FALSE, force |-> FALSE]

States == {"none", "expired"} \cup Active

\* Slot 1 is the full run, the others are calls of single stages.
Now(r) == IF r = 1 THEN run[r].now ELSE clock

RunPcs == {"idle", "news", "expire", "generate", "upsert", "confirm",
           "check", "write", "cancel", "prepare", "create"}

CandidateTypeOK ==
  /\ clock \in 0..MaxClock
  /\ cand \in [Positive -> [state : States,
                            expiresAt : 0..(MaxClock + Lifetime),
                            confirmed : BOOLEAN]]
  /\ \A c \in Positive : cand[c].state # "none" => c \in impacts
  /\ run \in [Runs -> [pc : RunPcs, now : 0..MaxClock, todo : SUBSET Positive,
                       at : Positive \cup {NoCandidate}, out : States, ready : BOOLEAN, force : BOOLEAN]]
  /\ \A r \in Runs : /\ run[r].now <= clock
                     /\ news.owner = r => run[r].pc = "news"
                     /\ (run[r].pc \in {"check", "write", "create"}) = (run[r].at # NoCandidate)

CandidateInit ==
  /\ clock = 0
  /\ cand = [c \in Positive |-> [state |-> "none", expiresAt |-> 0, confirmed |-> FALSE]]
  /\ run = [r \in Runs |-> Idle]

Goto(r, pc, todo) == run' = [run EXCEPT ![r].pc = pc, ![r].todo = todo]

\* The lists are ordered by score, which the model leaves open: any of the
\* candidates left may come next.
Take(r, pc, c) ==
  run' = [run EXCEPT ![r].pc = pc, ![r].at = c, ![r].todo = @ \ {c}]

Leave(r, pc) == run' = [run EXCEPT ![r].pc = pc, ![r].at = NoCandidate,
                                    ![r].out = "none", ![r].ready = FALSE]

ActiveWhere(c) == cand[c].state \in Active

\* A conditional updateMany: the state is tested by the statement that writes.
expireStaleMomentumCandidates(r) ==
  /\ run[r].pc = "expire"
  /\ cand' = [c \in Positive |->
                IF ActiveWhere(c) /\ Lapsed(c, run[r].now)
                THEN [cand[c] EXCEPT !.state = "expired"] ELSE cand[c]]
  /\ Goto(r, "generate", {})

\* Reads the impacts and the active candidates of the security; "ready"
\* remembers that one is active.  Without membership every impact is skipped.
GenerateRead(r) ==
  /\ run[r].pc = "generate"
  /\ run' = [run EXCEPT
       ![r].pc = "upsert",
       ![r].todo = IF member THEN impacts \cap Positive ELSE {},
       ![r].ready = \E c \in Positive :
                      cand[c].state \in Active /\ ~Lapsed(c, run[r].now)]
  /\ UNCHANGED cand

\* An impact of a security that has an active candidate is skipped.  A new
\* impact makes a candidate; one seen before keeps its state and expiry, and
\* still counts as the active candidate of the security for this run.
GenerateUpsert(r, c) ==
  /\ run[r].pc = "upsert" /\ c \in run[r].todo
  /\ run' = [run EXCEPT ![r].todo = @ \ {c}, ![r].ready = TRUE]
  /\ cand' = IF run[r].ready \/ cand[c].state # "none" THEN cand
             ELSE [cand EXCEPT ![c] = [state |-> "watching", confirmed |-> FALSE,
                                       expiresAt |-> run[r].now + Lifetime]]

ConfirmList(r) ==
  /\ run[r].pc = "upsert" /\ run[r].todo = {}
  /\ run' = [run EXCEPT ![r].pc = "confirm", ![r].ready = FALSE,
                        ![r].todo = {c \in Positive : cand[c].state \in Active}]
  /\ UNCHANGED cand

\* evaluateMomentumPriceConfirmationEligibility at the caller's time
ConfirmEligible(r, c) ==
  member /\ cand[c].state \in Active /\ ~Lapsed(c, Now(r))

\* confirmCandidatePrice reads the candidate and asks for its market data.
ConfirmRead(r, c) ==
  /\ run[r].pc = "confirm" /\ c \in run[r].todo /\ ConfirmEligible(r, c)
  /\ Take(r, "check", c)
  /\ UNCHANGED cand

ConfirmSkip(r, c) ==
  /\ run[r].pc = "confirm" /\ c \in run[r].todo /\ ~ConfirmEligible(r, c)
  /\ Goto(r, "confirm", run[r].todo \ {c})
  /\ UNCHANGED cand

\* The market data could not be read: the run goes on with the next one.
ConfirmError(r) ==
  /\ run[r].pc = "check"
  /\ Leave(r, "confirm")
  /\ UNCHANGED cand

\* The decision for a candidate that was active when it was read: its time may
\* be up, a hard block or missing data may hold it back, or its score.
decideMomentumConfirmation(expired, blocked, complete, enough) ==
  IF expired THEN "expired"
  ELSE IF ~blocked /\ complete /\ enough THEN "entry_ready" ELSE "watching"

\* applyPriceConfirmationDecision stores the price check first ...
CreatePriceCheck(r, blocked, complete, enough) ==
  LET c   == run[r].at
      out == decideMomentumConfirmation(Lapsed(c, Now(r)), blocked, complete, enough)
  IN  /\ run[r].pc = "check"
      /\ cand' = [cand EXCEPT ![c].confirmed = (out = "entry_ready")]
      /\ run' = [run EXCEPT ![r].pc = "write", ![r].out = out]

\* ... and then the state, whatever the candidate has become meanwhile.
UpdateCandidate(r) ==
  /\ run[r].pc = "write"
  /\ cand' = [cand EXCEPT ![run[r].at].state = run[r].out]
  /\ Leave(r, "confirm")

\* Apply mode of the reconciliation script: one transaction.
reconcileMomentumEligibility ==
  cand' = [c \in Positive |->
             IF cand[c].state \in Active /\ (Lapsed(c, clock) \/ ~member)
             THEN [cand[c] EXCEPT !.state = "expired"] ELSE cand[c]]
=============================================================================
