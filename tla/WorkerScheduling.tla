-------------------------- MODULE WorkerScheduling --------------------------
(***************************************************************************)
(* The scheduled submitted-order sync of one account: the account workflow *)
(* runner shared by several backend processes (AccountWorkflow) around the *)
(* adaptive polling of one of them, the executor (AdaptivePolling).  The   *)
(* coordinator memory of the other processes is abstracted to what it can  *)
(* make their runs do: any outcome.                                        *)
(***************************************************************************)
EXTENDS AccountWorkflow, AdaptivePolling

CONSTANTS Executor,    \* the process whose coordinator is modelled
          MaxWrites,   \* bound: broker writes
          MaxSwitches  \* bound: changes of the account's eligibility

ASSUME ExecutorAssumption == Executor \in Procs

ASSUME BoundsAssumption == MaxWrites \in Nat /\ MaxSwitches \in Nat

VARIABLES elig,     \* what the enumeration finds for the account
          writes, switches

vars == <<flowVars, pollVars, elig, writes, switches>>

\* Types, and the lock is held by nobody who is outside its locked section.
TypeOK ==
  /\ FlowTypeOK /\ PollTypeOK
  /\ \A p \in Procs : sess[p] \in {"held", "both"} => phase[p] \in Critical
  /\ elig \in {"work", "dormant", "failure"}
  /\ writes \in 0..MaxWrites /\ switches \in 0..MaxSwitches

Init ==
  /\ FlowInit /\ PollInit
  /\ elig = "work" /\ writes = 0 /\ switches = 0

Bounds == <<elig, writes, switches>>

-----------------------------------------------------------------------------
(* The work of a run. *)

\* Another process ran its sync, with whatever its own coordinator decided.
RunElsewhere(p, o) ==
  /\ phase[p] = "run" /\ p # Executor
  /\ IF o = "failure" THEN Fault ELSE faults' = faults
  /\ EndExecute(p, o)
  /\ UNCHANGED <<row, attn, lost, pollVars, Bounds>>

\* The executor decides whether its poll is due; a failing activity lookup
\* finds nothing to poll.
Decide(m, failing) ==
  /\ phase[Executor] = "run"
  /\ evaluateMarket(m)
  /\ getLocalActivity(failing)
  /\ IF failing /\ cache = "expired" THEN Fault ELSE faults' = faults
  /\ IF orders /\ Due(cache' = "active", due')
     THEN GoTo(Executor, "read") /\ StartRead /\ UNCHANGED <<out, sess>>
     ELSE EndExecute(Executor, "skipped") /\ UNCHANGED <<covers, unseen>>
  /\ UNCHANGED <<row, attn, lost, orders, limit, Bounds>>

\* The read is deferred before it is sent: healthy, tried again later.
ReadDeferred ==
  /\ phase[Executor] = "read" /\ shouldDefer
  /\ Schedule
  /\ covers' = FALSE
  /\ EndExecute(Executor, "skipped")
  /\ UNCHANGED <<row, attn, lost, faults, cache, market, orders, unseen, limit, Bounds>>

\* The read fails, by itself or with a 429 that may announce its end.
ReadFailed(outcome, retryAfter) ==
  /\ phase[Executor] = "read" /\ ~shouldDefer
  /\ Fault
  /\ completeRequest(outcome, retryAfter)
  /\ Schedule
  /\ covers' = FALSE
  /\ EndExecute(Executor, "failure")
  /\ UNCHANGED <<row, attn, lost, cache, market, orders, unseen, Bounds>>

ReadDone ==
  /\ phase[Executor] = "read" /\ ~shouldDefer
  /\ completeRequest("success", FALSE)
  /\ GoTo(Executor, "apply")
  /\ UNCHANGED <<sess, out, row, attn, lost, faults, due, cache, market, orders, unseen, covers, Bounds>>

\* The items are synchronised; they may leave no submitted order behind.
SyncApplied ==
  /\ phase[Executor] = "apply"
  /\ unseen' = (unseen /\ ~covers)
  /\ orders' \in IF covers THEN {TRUE, FALSE} ELSE {TRUE}
  /\ Schedule
  /\ covers' = FALSE
  /\ EndExecute(Executor, "success")
  /\ UNCHANGED <<row, attn, lost, faults, cache, market, limit, Bounds>>

ItemFailed ==
  /\ phase[Executor] = "apply"
  /\ Fault
  /\ Schedule
  /\ covers' = FALSE
  /\ EndExecute(Executor, "failure")
  /\ UNCHANGED <<row, attn, lost, cache, market, orders, unseen, limit, Bounds>>

Work ==
  \/ \E m \in {"cached", "same", "changed", "failed"}, b \in BOOLEAN : Decide(m, b)
  \/ ReadDeferred \/ ReadDone \/ SyncApplied

-----------------------------------------------------------------------------
(* The whole. *)

Write(here) ==
  /\ writes < MaxWrites /\ writes' = writes + 1
  /\ BrokerWrite(here)
  /\ UNCHANGED <<flowVars, elig, switches>>

\* Another request of the executor meets the rate limit, or succeeds.
OtherRequest ==
  /\ \/ \E b \in BOOLEAN : Fault /\ completeRequest("rate_limited", b)
     \/ limit.active /\ completeRequest("success", FALSE) /\ faults' = faults
  /\ UNCHANGED <<sess, phase, out, row, attn, lost, due, cache, market, orders, unseen, covers, Bounds>>

SwitchEligibility(e) ==
  /\ elig # e /\ switches < MaxSwitches
  /\ elig' = e /\ switches' = switches + 1
  /\ UNCHANGED <<flowVars, pollVars, writes>>

CrashOf(p) ==
  /\ Crash(p)
  /\ IF p = Executor THEN PollRestart ELSE UNCHANGED pollVars
  /\ UNCHANGED Bounds

Runner(p) ==
  /\ \/ RunnerStep(p) /\ (phase[p] = "idle" => elig = "work")
     \/ elig # "work" /\ TickIneligible(p, elig)
  /\ UNCHANGED <<pollVars, Bounds>>

Lock(p) == LockAcquired(p) /\ UNCHANGED <<pollVars, Bounds>>

RunnerFault(p) ==
  /\ LockError(p) \/ RecordError(p) \/ SessionLost(p)
  /\ UNCHANGED <<pollVars, Bounds>>

RowElapses == BackoffElapses /\ UNCHANGED <<pollVars, Bounds>>

PollElapses == (DueReached \/ CacheExpires \/ LimitElapses) /\ UNCHANGED <<flowVars, Bounds>>

SessionEnds(p) == SessionClosed(p) /\ UNCHANGED <<pollVars, Bounds>>

Next ==
  \/ \E p \in Procs : Runner(p) \/ Lock(p) \/ RunnerFault(p) \/ CrashOf(p) \/ SessionEnds(p)
  \/ \E p \in Procs, o \in {"success", "skipped", "failure"} : RunElsewhere(p, o)
  \/ Work \/ ItemFailed \/ OtherRequest
  \/ \E o \in {"rate_limited", "server_error"}, b \in BOOLEAN : ReadFailed(o, b)
  \/ \E b \in BOOLEAN : Write(b)
  \/ \E e \in {"work", "dormant", "failure"} : SwitchEligibility(e)
  \/ RowElapses \/ PollElapses

\* Timers, timeouts and the database go on.
Fairness ==
  /\ \A p \in Procs : /\ WF_vars(Runner(p) \/ Lock(p))
                      /\ WF_vars(SessionEnds(p))
                      /\ WF_vars(\E o \in {"success", "skipped"} : RunElsewhere(p, o))
  /\ WF_vars(Work) /\ WF_vars(RowElapses)
  /\ SF_vars(DueReached /\ UNCHANGED <<flowVars, Bounds>>)
  /\ SF_vars(CacheExpires /\ UNCHANGED <<flowVars, Bounds>>)
  /\ WF_vars(LimitElapses /\ UNCHANGED <<flowVars, Bounds>>)

Spec == Init /\ [][Next]_vars /\ Fairness

-----------------------------------------------------------------------------
(* Properties. *)

\* A run is declared interrupted (startTradingAccountWorkerRun counts a failure
\* of a "previous process that ended") only when its process really is out of
\* its locked section, unless a lock session was lost under a running workflow.
InterruptedRunIsOver ==
  [][\A p \in Procs : phase[p] = "start" /\ phase'[p] = "begin" /\ SawInterrupted(p) /\ ~lost
        => row.proc = None \/ phase[row.proc] \notin Critical]_vars

\* The runner reads the backoff once, three statements before the work: no
\* process begins work on an account while a failure's backoff is pending,
\* unless a lock session was lost under a running workflow.
BackoffHonoured ==
  [][\A p \in Procs : phase[p] = "begin" /\ phase'[p] = "run" => ~row.backoff \/ lost]_vars

Settled == <>[](elig = "work")

\* The account is never locked out for good: whatever crashed, lost its session
\* or failed to unlock, some process works on the account again and again while
\* it stays eligible.
AccountServed == Settled => []<>(\E p \in Procs : phase[p] = "run")

\* pg_try_advisory_lock keeps no queue: that the executor finds the lock free at
\* some of its tries is an assumption about the other processes.
NotStarved == []<>(phase[Executor] = "lock") => []<>(phase[Executor] = "check")

\* Every broker write is eventually covered by a poll that began after it, even
\* when the poll in flight at the write cleared the force, the write was made by
\* another process, or the read was deferred, failed or cut short by a crash.
WriteEventuallyPolled == Settled /\ NotStarved => (unseen ~> ~unseen)
=============================================================================
