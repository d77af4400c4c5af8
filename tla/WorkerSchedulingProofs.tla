------------------------ MODULE WorkerSchedulingProofs ------------------------
(***************************************************************************)
(* Proofs about the account workflow runner, for every set of processes    *)
(* and every bound.  The row is read, marked and written in separate       *)
(* statements, so nothing about the row alone is inductive; what holds the *)
(* statements together is the advisory lock.  LockOK says that until a     *)
(* session is lost under a run the lock really excludes: whoever is in the *)
(* locked section has a session that holds it, and one session does.       *)
(***************************************************************************)
EXTENDS WorkerScheduling, TLAPS

Holds(p) == sess[p] \in {"held", "both"}

(* The lock excludes. *)
LockOK ==
  ~ lost => /\ \A p \in Procs : phase[p] \in Critical => Holds(p)
            /\ \A p, q \in Procs : sess[p] # "none" /\ sess[q] # "none" => p = q

(* The backoff a process checked is still not pending when it begins. *)
CheckedOK ==
  ~ lost => \A p \in Procs : phase[p] \in {"start", "begin"} => ~ row.backoff

IInv == TypeOK /\ LockOK /\ CheckedOK

-----------------------------------------------------------------------------
(* What the operations on the row return *)

Rows == [run : BOOLEAN, proc : Procs \cup {None}, failing : BOOLEAN,
         backoff : BOOLEAN, applicable : BOOLEAN, succeeded : BOOLEAN]

(* A recorded attempt is a row again, and a record that carries no new     *)
(* backoff never makes one pending.                                        *)
LEMMA RecordType ==
  ASSUME FlowTypeOK, NEW p \in Procs, NEW o \in Outcomes \cup {"backoff_skipped"},
         NEW b \in BOOLEAN,
         row' = recordTradingAccountWorkerAttempt(row, p, o, b),
         attn' = emitTransition(row, row')
  PROVE  /\ row' \in Rows
         /\ attn' \in BOOLEAN
         /\ ~ b /\ ~ row.backoff => ~ row'.backoff
  <1>1. row' \in Rows
    BY DEF FlowTypeOK, Rows, recordTradingAccountWorkerAttempt, Outcomes
  <1>2. ~ b /\ ~ row.backoff => ~ row'.backoff
    BY DEF FlowTypeOK, Rows, recordTradingAccountWorkerAttempt, Outcomes
  <1>3. attn' \in BOOLEAN
    BY DEF FlowTypeOK, emitTransition
  <1> QED BY <1>1, <1>2, <1>3

(* The answer of the broker leaves a rate-limit state. *)
LEMMA LimitType ==
  ASSUME PollTypeOK, NEW o, NEW b \in BOOLEAN, completeRequest(o, b)
  PROVE  limit' \in [active : BOOLEAN, wait : BOOLEAN]
  BY DEF PollTypeOK, completeRequest

-----------------------------------------------------------------------------
(* Steps of the runner *)

(* What a step of the runner keeps, apart from the variables of the work.  *)
FlowInv ==
  /\ FlowTypeOK
  /\ \A p \in Procs : Holds(p) => phase[p] \in Critical
  /\ LockOK /\ CheckedOK

(* A step of the runner itself: it reads, marks or writes the row where it *)
(* holds the lock, or writes it without a backoff where it does not.       *)
LEMMA RunnerFlow ==
  ASSUME FlowInv, NEW p \in Procs, RunnerStep(p)
  PROVE  FlowInv'
  <1> USE MaxFaultsAssumption
      DEF FlowInv, FlowTypeOK, LockOK, CheckedOK, Holds, Critical, Phases, Outcomes, GoTo, Fault
  <1>1. CASE TickEligible(p)
    BY <1>1 DEF TickEligible
  <1>2. CASE LockNotAcquired(p)
    BY <1>2 DEF LockNotAcquired
  <1>3. CASE recordTradingAccountWorkflowLockContention(p)
    BY <1>3 DEF recordTradingAccountWorkflowLockContention
  <1>4. CASE RecordLate(p)
    <2>1. /\ row' = recordTradingAccountWorkerAttempt(row, p, "failure", FALSE)
          /\ attn' = emitTransition(row, row')
      BY <1>4 DEF Record, RecordLate
    <2>2. row' \in Rows /\ attn' \in BOOLEAN /\ (~ row.backoff => ~ row'.backoff)
      BY <2>1, RecordType
    <2> QED BY <1>4, <2>2 DEF RecordLate, Rows
  <1>5. CASE SkipBackingOff(p)
    <2>1. /\ row' = recordTradingAccountWorkerAttempt(row, p, "backoff_skipped", FALSE)
          /\ attn' = emitTransition(row, row')
      BY <1>5 DEF SkipBackingOff
    <2>2. row' \in Rows /\ attn' \in BOOLEAN /\ (~ row.backoff => ~ row'.backoff)
      BY <2>1, RecordType
    <2> QED BY <1>5, <2>2 DEF SkipBackingOff, Rows
  <1>6. CASE PassBackoff(p)
    BY <1>6 DEF PassBackoff
  <1>7. CASE MarkInterrupted(p)
    BY <1>7 DEF MarkInterrupted
  <1>8. CASE BeginRun(p)
    BY <1>8 DEF BeginRun
  <1>9. CASE RecordOutcome(p)
    <2>1. /\ row' = recordTradingAccountWorkerAttempt(row, p, out[p], TRUE)
          /\ attn' = emitTransition(row, row')
      BY <1>9 DEF Record, RecordOutcome
    <2>2. row' \in Rows /\ attn' \in BOOLEAN
      BY <2>1, RecordType
    <2> QED BY <1>9, <2>2 DEF RecordOutcome, Rows
  <1>10. CASE Unlock(p)
    BY <1>10 DEF Unlock
  <1> QED BY <1>1, <1>2, <1>3, <1>4, <1>5, <1>6, <1>7, <1>8, <1>9, <1>10 DEF RunnerStep

(* The lock, the enumeration and the faults of the runner. *)
LEMMA EnvironmentFlow ==
  ASSUME FlowInv, NEW p \in Procs
  PROVE  /\ LockAcquired(p) => FlowInv'
         /\ \A o : TickIneligible(p, o) => FlowInv'
         /\ LockError(p) \/ RecordError(p) \/ SessionLost(p) => FlowInv'
         /\ SessionClosed(p) \/ Crash(p) \/ BackoffElapses => FlowInv'
  <1> USE MaxFaultsAssumption
      DEF FlowInv, FlowTypeOK, LockOK, CheckedOK, Holds, Critical, Phases, Outcomes, GoTo, Fault
  <1>1. ASSUME LockAcquired(p) PROVE FlowInv'
    <2>1. CASE (\A q \in Procs : sess[q] = "none") /\ sess' = [sess EXCEPT ![p] = "held"]
      BY <1>1, <2>1 DEF LockAcquired
    <2>2. CASE sess[p] = "leaked" /\ sess' = [sess EXCEPT ![p] = "both"]
      BY <1>1, <2>2 DEF LockAcquired
    <2> QED BY <1>1, <2>1, <2>2 DEF LockAcquired
  <1>2. ASSUME NEW o, TickIneligible(p, o) PROVE FlowInv'
    <2>1. /\ row' = recordTradingAccountWorkerAttempt(row, p, o, FALSE)
          /\ attn' = emitTransition(row, row')
          /\ o \in Outcomes \cup {"backoff_skipped"}
      BY <1>2 DEF TickIneligible, Record
    <2>2. row' \in Rows /\ attn' \in BOOLEAN /\ (~ row.backoff => ~ row'.backoff)
      BY <2>1, RecordType
    <2> QED BY <1>2, <2>2 DEF TickIneligible, Rows
  <1>3. ASSUME LockError(p) PROVE FlowInv'
    BY <1>3 DEF LockError
  <1>4. ASSUME RecordError(p) PROVE FlowInv'
    BY <1>4 DEF RecordError
  <1>5. ASSUME SessionLost(p) PROVE FlowInv'
    BY <1>5 DEF SessionLost
  <1>6. ASSUME SessionClosed(p) PROVE FlowInv'
    BY <1>6 DEF SessionClosed
  <1>7. ASSUME Crash(p) PROVE FlowInv'
    BY <1>7 DEF Crash
  <1>8. ASSUME BackoffElapses PROVE FlowInv'
    BY <1>8 DEF BackoffElapses
  <1> QED BY <1>1, <1>2, <1>3, <1>4, <1>5, <1>6, <1>7, <1>8

(* The end of the work, and a step inside it, leave the lock and the row   *)
(* to the process.                                                         *)
LEMMA WorkFlow ==
  ASSUME FlowInv, NEW p \in Procs, phase[p] \in {"run", "read", "apply"},
         UNCHANGED <<row, attn, lost>>, faults' \in 0..MaxFaults
  PROVE  /\ \A o \in Outcomes : EndExecute(p, o) => FlowInv'
         /\ \A ph \in {"read", "apply"} : GoTo(p, ph) /\ UNCHANGED <<out, sess>> => FlowInv'
  BY DEF FlowInv, FlowTypeOK, LockOK, CheckedOK, Holds, Critical, Phases, Outcomes, GoTo,
         EndExecute

-----------------------------------------------------------------------------
(* The whole *)

(* The remaining variables: the coordinator's memory and the bounds. *)
RestOK ==
  /\ PollTypeOK
  /\ elig \in {"work", "dormant", "failure"}
  /\ writes \in 0..MaxWrites /\ switches \in 0..MaxSwitches

(* The invariant in its two halves, as the lemmas above state them. *)
LEMMA Split == IInv <=> FlowInv /\ RestOK
  BY DEF IInv, TypeOK, FlowInv, RestOK, Holds

(* The same in the next state. *)
LEMMA SplitNext == IInv' <=> FlowInv' /\ RestOK'
  BY DEF IInv, TypeOK, FlowInv, RestOK, Holds

(* The initial state: idle processes, no run, no lock. *)
LEMMA InitIInv == Init => IInv
  <1> SUFFICES ASSUME Init PROVE IInv
    OBVIOUS
  <1> USE MaxFaultsAssumption, BoundsAssumption DEF Init
  <1>1. row \in Rows /\ row.backoff = FALSE
    BY DEF FlowInit, Rows
  <1>2. FlowTypeOK
    <2>1. attn \in BOOLEAN /\ lost \in BOOLEAN
      BY DEF FlowInit
    <2>2. /\ sess \in [Procs -> {"none", "held", "both", "leaked", "orphan"}]
          /\ phase \in [Procs -> Phases]
          /\ out \in [Procs -> Outcomes]
          /\ faults \in 0..MaxFaults
      BY DEF FlowInit, Phases, Outcomes
    <2> QED BY <1>1, <2>1, <2>2 DEF FlowTypeOK, Rows
  <1>3. PollTypeOK
    BY DEF PollInit, PollTypeOK
  <1>4. LockOK /\ CheckedOK /\ \A p \in Procs : ~ Holds(p)
    BY DEF FlowInit, LockOK, CheckedOK, Holds, Critical
  <1> QED BY <1>2, <1>3, <1>4 DEF IInv, TypeOK, Holds

(* A step of the executor's or another process's work. *)
LEMMA WorkIInv ==
  ASSUME IInv
  PROVE  /\ \A p \in Procs, o \in {"success", "skipped", "failure"} :
               RunElsewhere(p, o) => IInv'
         /\ Work \/ ItemFailed => IInv'
         /\ \A o \in {"rate_limited", "server_error"}, b \in BOOLEAN :
               ReadFailed(o, b) => IInv'
  <1> USE ExecutorAssumption, MaxFaultsAssumption
  <1>0. FlowInv /\ RestOK /\ faults \in 0..MaxFaults /\ (Fault => faults' \in 0..MaxFaults)
    BY Split DEF FlowInv, FlowTypeOK, Fault
  <1>1. ASSUME NEW p \in Procs, NEW o \in {"success", "skipped", "failure"},
               RunElsewhere(p, o)
        PROVE  IInv'
    <2>1. RestOK'
      BY <1>0, <1>1 DEF RunElsewhere, RestOK, Bounds, pollVars, PollTypeOK
    <2>2. FlowInv'
      BY <1>0, <1>1, WorkFlow DEF RunElsewhere, Outcomes
    <2> QED BY <2>1, <2>2, SplitNext
  <1>2. ASSUME NEW m \in {"cached", "same", "changed", "failed"}, NEW b \in BOOLEAN, Decide(m, b)
        PROVE  IInv'
    <2>1. RestOK'
      <3>1. market' \in BOOLEAN /\ due' \in {"unset", "forced", "later", "elapsed"}
        BY <1>0, <1>2 DEF Decide, evaluateMarket, forceSync, RestOK, PollTypeOK
      <3>2. cache' \in {"expired", "idle", "active"}
        BY <1>0, <1>2 DEF Decide, getLocalActivity, RestOK, PollTypeOK
      <3>3. UNCHANGED <<orders, unseen, limit, Bounds>> /\ (covers' = covers \/ covers' = TRUE)
        BY <1>2 DEF Decide, StartRead
      <3> QED BY <1>0, <3>1, <3>2, <3>3 DEF RestOK, PollTypeOK, Bounds
    <2>2. faults' \in 0..MaxFaults /\ UNCHANGED <<row, attn, lost>> /\ phase[Executor] = "run"
      BY <1>0, <1>2 DEF Decide
    <2>3. \/ GoTo(Executor, "read") /\ UNCHANGED <<out, sess>>
          \/ EndExecute(Executor, "skipped")
      BY <1>2 DEF Decide
    <2>4. FlowInv'
      BY <1>0, <2>2, <2>3, WorkFlow DEF Outcomes
    <2> QED BY <2>1, <2>4, SplitNext
  <1>3. ASSUME ReadDeferred PROVE IInv'
    <2>1. RestOK'
      BY <1>0, <1>3 DEF ReadDeferred, Schedule, RestOK, PollTypeOK, Bounds
    <2>2. FlowInv'
      BY <1>0, <1>3, WorkFlow DEF ReadDeferred, Outcomes
    <2> QED BY <2>1, <2>2, SplitNext
  <1>4. ASSUME ReadDone PROVE IInv'
    <2>1. limit' \in [active : BOOLEAN, wait : BOOLEAN]
      BY <1>0, <1>4, LimitType DEF ReadDone, RestOK
    <2>2. RestOK'
      BY <1>0, <1>4, <2>1 DEF ReadDone, RestOK, PollTypeOK, Bounds
    <2>3. FlowInv'
      BY <1>0, <1>4, WorkFlow DEF ReadDone
    <2> QED BY <2>2, <2>3, SplitNext
  <1>5. ASSUME SyncApplied PROVE IInv'
    <2>1. RestOK'
      BY <1>0, <1>5 DEF SyncApplied, Schedule, RestOK, PollTypeOK, Bounds
    <2>2. FlowInv'
      BY <1>0, <1>5, WorkFlow DEF SyncApplied, Outcomes
    <2> QED BY <2>1, <2>2, SplitNext
  <1>6. ASSUME ItemFailed PROVE IInv'
    <2>1. RestOK'
      BY <1>0, <1>6 DEF ItemFailed, Schedule, RestOK, PollTypeOK, Bounds
    <2>2. FlowInv'
      BY <1>0, <1>6, WorkFlow DEF ItemFailed, Outcomes
    <2> QED BY <2>1, <2>2, SplitNext
  <1>7. ASSUME NEW o \in {"rate_limited", "server_error"}, NEW b \in BOOLEAN, ReadFailed(o, b)
        PROVE  IInv'
    <2>1. limit' \in [active : BOOLEAN, wait : BOOLEAN]
      BY <1>0, <1>7, LimitType DEF ReadFailed, RestOK
    <2>2. RestOK'
      BY <1>0, <1>7, <2>1 DEF ReadFailed, Schedule, RestOK, PollTypeOK, Bounds
    <2>3. FlowInv'
      BY <1>0, <1>7, WorkFlow DEF ReadFailed, Outcomes
    <2> QED BY <2>2, <2>3, SplitNext
  <1> QED BY <1>1, <1>2, <1>3, <1>4, <1>5, <1>6, <1>7 DEF Work

(* Every step keeps the inductive invariant. *)
LEMMA StepIInv ==
  ASSUME IInv, [Next]_vars
  PROVE  IInv'
  <1> USE BoundsAssumption
  <1>0. FlowInv /\ RestOK
    BY Split
  <1>1. ASSUME UNCHANGED <<pollVars, Bounds>> PROVE RestOK'
    BY <1>0, <1>1 DEF RestOK, PollTypeOK, pollVars, Bounds
  <1>2. ASSUME UNCHANGED flowVars PROVE FlowInv'
    BY <1>0, <1>2 DEF FlowInv, FlowTypeOK, LockOK, CheckedOK, Holds, flowVars
  <1>3. ASSUME NEW p \in Procs, Runner(p) \/ Lock(p) \/ RunnerFault(p) \/ SessionEnds(p)
        PROVE  IInv'
    <2>1. RestOK'
      BY <1>1, <1>3 DEF Runner, Lock, RunnerFault, SessionEnds
    <2>2. \/ RunnerStep(p) \/ (\E o : TickIneligible(p, o)) \/ LockAcquired(p)
          \/ LockError(p) \/ RecordError(p) \/ SessionLost(p) \/ SessionClosed(p)
      BY <1>3 DEF Runner, Lock, RunnerFault, SessionEnds
    <2>3. CASE RunnerStep(p)
      BY <1>0, <2>1, <2>3, RunnerFlow, SplitNext
    <2>4. ASSUME NEW o, TickIneligible(p, o) PROVE FlowInv'
      BY <1>0, <2>4, EnvironmentFlow
    <2>5. CASE ~ RunnerStep(p)
      <3>1. FlowInv'
        BY <1>0, <2>2, <2>4, <2>5, EnvironmentFlow
      <3> QED BY <2>1, <3>1, SplitNext
    <2> QED BY <2>3, <2>5
  <1>4. ASSUME NEW p \in Procs, CrashOf(p) PROVE IInv'
    <2>1. RestOK'
      <3>1. CASE PollRestart
        <4>1. market' \in BOOLEAN /\ covers' \in BOOLEAN
          BY <3>1 DEF PollRestart
        <4>2. /\ due' = "unset" /\ cache' = "expired" /\ UNCHANGED <<orders, unseen>>
              /\ limit' \in [active : BOOLEAN, wait : BOOLEAN]
          BY <3>1 DEF PollRestart
        <4> QED BY <1>0, <1>4, <4>1, <4>2 DEF CrashOf, RestOK, PollTypeOK, Bounds
      <3>2. CASE UNCHANGED pollVars
        BY <1>1, <1>4, <3>2 DEF CrashOf
      <3> QED BY <1>4, <3>1, <3>2 DEF CrashOf
    <2>2. FlowInv'
      BY <1>0, <1>4, EnvironmentFlow DEF CrashOf
    <2> QED BY <2>1, <2>2, SplitNext
  <1>5. ASSUME NEW b \in BOOLEAN, Write(b) PROVE IInv'
    <2>1. RestOK'
      <3>1. orders' \in BOOLEAN /\ unseen' \in BOOLEAN /\ covers' \in BOOLEAN
        BY <1>5 DEF Write, BrokerWrite
      <3>2. /\ due' \in {due, "forced"} /\ UNCHANGED <<cache, market, limit, elig, switches>>
            /\ writes < MaxWrites /\ writes' = writes + 1
        BY <1>5 DEF Write, BrokerWrite, forceSync
      <3> QED BY <1>0, <3>1, <3>2 DEF RestOK, PollTypeOK
    <2> QED BY <1>2, <1>5, <2>1, SplitNext DEF Write
  <1>6. ASSUME NEW e \in {"work", "dormant", "failure"}, SwitchEligibility(e) PROVE IInv'
    <2>1. RestOK'
      BY <1>0, <1>6 DEF SwitchEligibility, RestOK, PollTypeOK, pollVars
    <2> QED BY <1>2, <1>6, <2>1, SplitNext DEF SwitchEligibility
  <1>7. ASSUME OtherRequest PROVE IInv'
    <2>1. limit' \in [active : BOOLEAN, wait : BOOLEAN] /\ faults' \in 0..MaxFaults
      <3>1. CASE limit.active /\ completeRequest("success", FALSE) /\ faults' = faults
        BY <1>0, <3>1, LimitType DEF RestOK, FlowInv, FlowTypeOK
      <3>2. ASSUME NEW b \in BOOLEAN, Fault, completeRequest("rate_limited", b)
            PROVE  limit' \in [active : BOOLEAN, wait : BOOLEAN] /\ faults' \in 0..MaxFaults
        BY <1>0, <3>2, LimitType, MaxFaultsAssumption DEF RestOK, Fault, FlowInv, FlowTypeOK
      <3> QED BY <1>7, <3>1, <3>2 DEF OtherRequest
    <2>2. RestOK'
      BY <1>0, <1>7, <2>1 DEF OtherRequest, RestOK, PollTypeOK, Bounds
    <2>3. FlowInv'
      BY <1>0, <1>7, <2>1 DEF OtherRequest, FlowInv, FlowTypeOK, LockOK, CheckedOK, Holds
    <2> QED BY <2>2, <2>3, SplitNext
  <1>8. ASSUME RowElapses PROVE IInv'
    <2>1. FlowInv'
      BY <1>0, <1>8, EnvironmentFlow, ExecutorAssumption DEF RowElapses
    <2> QED BY <1>1, <1>8, <2>1, SplitNext DEF RowElapses
  <1>9. ASSUME PollElapses PROVE IInv'
    <2>1. RestOK'
      BY <1>0, <1>9 DEF PollElapses, DueReached, CacheExpires, LimitElapses, RestOK,
                        PollTypeOK, Bounds
    <2> QED BY <1>2, <1>9, <2>1, SplitNext DEF PollElapses
  <1>10. ASSUME UNCHANGED vars PROVE IInv'
    BY <1>1, <1>2, <1>10, SplitNext DEF vars, Bounds
  <1> QED
    BY <1>3, <1>4, <1>5, <1>6, <1>7, <1>8, <1>9, <1>10, WorkIInv DEF Next

(* The invariant holds in every state. *)
LEMMA Inductive == Spec => []IInv
  BY InitIInv, StepIInv, PTL DEF Spec

(* Types, and nobody outside the locked section holds the lock.            *)
THEOREM TypeCorrect == Spec => []TypeOK
  <1>1. IInv => TypeOK
    BY DEF IInv
  <1> QED BY <1>1, Inductive, PTL

(* Until a session is lost under a run, the advisory lock excludes: every  *)
(* process in the locked section has it, and no other session does, whatever *)
(* crashed, leaked its lock or failed to give it back.                     *)
THEOREM LockExcludes == Spec => []LockOK
  <1>1. IInv => LockOK
    BY DEF IInv
  <1> QED BY <1>1, Inductive, PTL

(* A run that startTradingAccountWorkerRun counts as interrupted really is *)
(* over: its process would hold the lock the marking process holds.        *)
THEOREM InterruptedOnlyWhenOver == Spec => InterruptedRunIsOver
  <1> DEFINE Safe == \A p \in Procs :
                       phase[p] = "start" /\ phase'[p] = "begin" /\ SawInterrupted(p) /\ ~lost
                         => row.proc = None \/ phase[row.proc] \notin Critical
  <1>1. ASSUME IInv, [Next]_vars PROVE [Safe]_vars
    <2>1. ASSUME NEW p \in Procs, phase[p] = "start", SawInterrupted(p), ~lost, row.proc # None
          PROVE  phase[row.proc] \notin Critical
      <3>1. row.proc \in Procs /\ row.proc # p /\ phase[p] \in Critical
        BY <1>1, <2>1 DEF IInv, TypeOK, FlowTypeOK, SawInterrupted, Critical
      <3> QED BY <1>1, <2>1, <3>1 DEF IInv, LockOK, Holds
    <2> QED BY <2>1
  <1> QED BY <1>1, Inductive, PTL DEF Spec, InterruptedRunIsOver

(* The backoff check is three statements old when the work begins, and is  *)
(* still right: what is written without the lock never makes one pending.  *)
THEOREM BackoffIsHonoured == Spec => BackoffHonoured
  <1> DEFINE Safe == \A p \in Procs : phase[p] = "begin" /\ phase'[p] = "run"
                                        => ~row.backoff \/ lost
  <1>1. ASSUME IInv, [Next]_vars PROVE [Safe]_vars
    BY <1>1 DEF IInv, CheckedOK
  <1> QED BY <1>1, Inductive, PTL DEF Spec, BackoffHonoured
=============================================================================
