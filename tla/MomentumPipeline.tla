--------------------------- MODULE MomentumPipeline ---------------------------
(***************************************************************************)
(* The momentum pipeline: runs of runFullMomentumPipeline                  *)
(* (momentum-pipeline-orchestrator.service.ts) that may overlap, the       *)
(* delivery workflow, the operator and the clock.  The stages run in       *)
(* order; an error in one ends the run.  The run record                    *)
(* (momentum-pipeline-run.service.ts) feeds nothing back into the stages   *)
(* and is left out.                                                        *)
(***************************************************************************)
EXTENDS MomentumHandoffs

CONSTANT MaxEvents   \* bound on "events"

ASSUME PipelineAssumption == MaxEvents \in Nat

VARIABLE events   \* endpoint calls, ends, errors and edits so far

vars == <<newsVars, clock, cand, run, handVars, events>>

TypeOK ==
  /\ NewsTypeOK /\ CandidateTypeOK /\ HandoffTypeOK
  /\ events \in 0..MaxEvents

Init ==
  /\ NewsInit /\ CandidateInit /\ HandoffInit
  /\ events = 0

\* Slot 1 is the full run.  An HTTP route starts it; the schedule that calls
\* the route is outside this repository.
Start ==
  /\ run[1].pc = "idle"
  /\ run' = [run EXCEPT ![1].pc = "news", ![1].now = clock]
  /\ UNCHANGED <<newsVars, clock, cand, handVars, events>>

\* The other slots are calls of the stage endpoints, at any time: confirmation
\* and then preparation, or preparation alone, with force.
EndpointCall(r) ==
  /\ r # 1 /\ run[r].pc = "idle" /\ events < MaxEvents
  /\ \/ run' = [run EXCEPT ![r].pc = "confirm",
                            ![r].todo = {c \in Positive : cand[c].state \in Active}]
     \/ run' = [run EXCEPT ![r].pc = "cancel", ![r].force = TRUE,
                            ![r].todo = StalePending(clock)]
  /\ events' = events + 1
  /\ UNCHANGED <<newsVars, clock, cand, handVars>>

\* The NEWS stage: nothing to pull, or a tick of its own.
NewsStage(r) ==
  /\ run[r].pc = "news"
  /\ UNCHANGED <<clock, cand, handVars, events>>
  /\ \/ NothingToPull(r) /\ Goto(r, "expire", {})
     \/ StartNews(r) /\ UNCHANGED run
     \/ /\ news.owner = r
        /\ \/ (\E p \in Pages(news.since) : fetchMassiveNews(p)) /\ UNCHANGED run
           \/ ingestMassiveArticle /\ UNCHANGED run
           \/ (recordNewsPullCursorSuccess \/ PullFailed) /\ Goto(r, "expire", {})

CandidateStage(r) ==
  /\ UNCHANGED <<newsVars, clock, handVars, events>>
  /\ \/ expireStaleMomentumCandidates(r)
     \/ GenerateRead(r)
     \/ ConfirmList(r) \/ ConfirmError(r) \/ UpdateCandidate(r)
     \/ \E c \in Positive : GenerateUpsert(r, c) \/ ConfirmRead(r, c) \/ ConfirmSkip(r, c)
     \/ \E blocked, complete, enough \in BOOLEAN :
          CreatePriceCheck(r, blocked, complete, enough)

HandoffStage(r) ==
  /\ UNCHANGED <<newsVars, clock, events>>
  /\ \/ CancelRead(r) \/ PrepareList(r) \/ PrepareWrite(r) \/ PrepareDone(r)
     \/ \E c \in Positive : CancelNext(r, c) \/ PrepareRead(r, c)

Stage(r) == NewsStage(r) \/ CandidateStage(r) \/ HandoffStage(r)

\* A database error ends the run at the stage it is in.
StageError(r) ==
  /\ run[r].pc # "idle" /\ news.owner # r /\ events < MaxEvents
  /\ run' = [run EXCEPT ![r] = Idle]
  /\ events' = events + 1
  /\ UNCHANGED <<newsVars, clock, cand, handVars>>

\* The process ends: runs and the news tick are lost.
Crash ==
  /\ events < MaxEvents
  /\ events' = events + 1
  /\ run' = [r \in Runs |-> Idle] /\ news' = NoNews
  /\ UNCHANGED <<pub, feed, cursor, window, floor, seen, impacts, member, clock, cand, handVars>>

Deliver ==
  /\ \/ QueueRead
     \/ \E c \in Positive : \/ Delivered(c) \/ DeliveryFailed(c)
                            \/ MarkLost(c) \/ Acknowledge(c)
  /\ UNCHANGED <<newsVars, clock, cand, run, events>>

Operator ==
  \/ /\ events < MaxEvents
     /\ events' = events + 1
     /\ updateMomentumUniverseMember
     /\ UNCHANGED <<clock, cand, run, handVars>>
  \/ /\ reconcileMomentumEligibility
     /\ UNCHANGED <<newsVars, clock, run, handVars, events>>

World ==
  \/ /\ MoveWindow \/ \E a \in Articles : Publish(a)
     /\ UNCHANGED <<clock, cand, run, handVars, events>>
  \/ /\ clock < MaxClock /\ clock' = clock + 1
     /\ UNCHANGED <<newsVars, cand, run, handVars, events>>

Next ==
  \/ Start
  \/ \E r \in Runs : EndpointCall(r) \/ Stage(r) \/ StageError(r)
  \/ Crash \/ Deliver \/ Operator \/ World

\* No fairness: nothing in the program starts a run by itself.
Spec == Init /\ [][Next]_vars
=============================================================================
