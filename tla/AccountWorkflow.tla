--------------------------- MODULE AccountWorkflow ---------------------------
(***************************************************************************)
(* The per-account workflow runner of the scheduled workers: a session     *)
(* advisory lock of PostgreSQL around                                      *)
(*   read the backoff - mark the run started - execute - record - unlock   *)
(* and the durable health row (TradingAccountWorkerHealthState) that every *)
(* process writes.  Source: trading-account-workflow-lock.service.ts,      *)
(* trading-account-workflow-runner.service.ts and                          *)
(* trading-account-worker-health.service.ts.                               *)
(*                                                                         *)
(* One account, one worker key (submitted_order_sync), any number of       *)
(* processes.  Time is abstracted: "backoff" says backoffUntil is in the   *)
(* future.  The statuses that come from the age of the last success        *)
(* (DELAYED, STALE) or of a run (DEGRADED) are left out: no attempt that   *)
(* is recorded has them as its new status.                                 *)
(***************************************************************************)
EXTENDS Naturals

CONSTANTS Procs,      \* backend processes that share the database
          None,       \* the processInstanceId of a process that has ended
          MaxFaults   \* bound: crashes, lost sessions and failing calls

ASSUME MaxFaultsAssumption == MaxFaults \in Nat

ASSUME NoneAssumption == None \notin Procs

VARIABLES sess,    \* a process's hold on the advisory lock, by its session
          phase,   \* where each process is in its tick
          out,     \* the classified outcome a process is about to record
          row,     \* the health row of the account and worker key
          attn,    \* ACCOUNT_WORKER_UNHEALTHY attention is active
          lost,    \* history: a session was lost while its run went on
          faults   \* faults injected so far

flowVars == <<sess, phase, out, row, attn, lost, faults>>

Outcomes == {"success", "skipped", "dormant", "failure"}

\* Phases in which the process believes it holds the lock.
Critical == {"check", "start", "begin", "run", "read", "apply", "record", "unlock"}

Phases == Critical \cup {"idle", "lock", "late", "contend"}

FlowTypeOK ==
  /\ sess \in [Procs -> {"none", "held", "both", "leaked", "orphan"}]
  /\ phase \in [Procs -> Phases]
  /\ out \in [Procs -> Outcomes]
  /\ row \in [run : BOOLEAN, proc : Procs \cup {None}, failing : BOOLEAN,
              backoff : BOOLEAN, applicable : BOOLEAN,
              succeeded : BOOLEAN]
  /\ attn \in BOOLEAN
  /\ lost \in BOOLEAN
  /\ faults \in 0..MaxFaults

FlowInit ==
  /\ sess = [p \in Procs |-> "none"]
  /\ phase = [p \in Procs |-> "idle"]
  /\ out = [p \in Procs |-> "skipped"]
  /\ row = [run |-> FALSE, proc |-> None, failing |-> FALSE,
            backoff |-> FALSE, applicable |-> TRUE, succeeded |-> FALSE]
  /\ attn = FALSE
  /\ lost = FALSE
  /\ faults = 0

Fault == faults < MaxFaults /\ faults' = faults + 1

GoTo(p, ph) == phase' = [phase EXCEPT ![p] = ph]

-----------------------------------------------------------------------------
(* The health row. *)

deriveTradingAccountWorkerStatus(r) ==
  CASE ~r.applicable     -> "DORMANT"
    [] r.applicable /\ r.backoff -> "BACKING_OFF"
    [] r.applicable /\ ~r.backoff /\ r.failing -> "FAILING"
    [] OTHER -> IF r.succeeded THEN "HEALTHY" ELSE "STARTING"

isAccountWorkerRecoveryTransition(s, t) ==
  t = "HEALTHY" /\ s \in {"FAILING", "BACKING_OFF"}

\* The attention a change of the row from r to t leaves behind, the account
\* having exposure.
emitTransition(r, t) ==
  LET s == deriveTradingAccountWorkerStatus(r)
      n == deriveTradingAccountWorkerStatus(t)
  IN  CASE s = n -> attn
        [] s # n /\ isAccountWorkerRecoveryTransition(s, n) -> FALSE
        [] s # n /\ n = "FAILING" -> TRUE
        [] OTHER -> attn

\* The row after p recorded outcome o; a failure carries a new backoff or none.
recordTradingAccountWorkerAttempt(r, p, o, newBackoff) ==
  LET good == o \in {"success", "skipped", "dormant"}
      bad  == o = "failure"
  IN  [r EXCEPT !.run = FALSE, !.proc = p, !.applicable = (o # "dormant"),
                !.failing = IF good THEN FALSE ELSE @ \/ bad,
                !.backoff = IF good THEN FALSE ELSE @ \/ (bad /\ newBackoff),
                !.succeeded = @ \/ good]

Record(p, o, newBackoff) ==
  /\ row' = recordTradingAccountWorkerAttempt(row, p, o, newBackoff)
  /\ attn' = emitTransition(row, row')

-----------------------------------------------------------------------------
(* A tick: the account is enumerated, then locked. *)

\* The enumeration finds the account ineligible and records so, without the
\* lock: a failure when exposure has lost its credentials, else dormant.
TickIneligible(p, o) ==
  /\ phase[p] = "idle"
  /\ o \in {"dormant", "failure"}
  /\ Record(p, o, FALSE)
  /\ UNCHANGED <<sess, phase, out, lost, faults>>

TickEligible(p) ==
  /\ phase[p] = "idle"
  /\ GoTo(p, "lock")
  /\ UNCHANGED <<sess, out, row, attn, lost, faults>>

\* pg_try_advisory_lock: free, or held by the very session the pool hands out
\* (a session keeps a lock its unlock failed to give back, and may take it again).
LockAcquired(p) ==
  /\ phase[p] = "lock"
  /\ \/ /\ \A q \in Procs : sess[q] = "none"
        /\ sess' = [sess EXCEPT ![p] = "held"]
     \/ /\ sess[p] = "leaked"
        /\ sess' = [sess EXCEPT ![p] = "both"]
  /\ GoTo(p, "check")
  /\ UNCHANGED <<out, row, attn, lost, faults>>

LockNotAcquired(p) ==
  /\ phase[p] = "lock"
  /\ \E q \in Procs : sess[q] # "none"
  /\ GoTo(p, "contend")
  /\ UNCHANGED <<sess, out, row, attn, lost, faults>>

\* Only skip counters of the row change, and no attention is projected.
recordTradingAccountWorkflowLockContention(p) ==
  /\ phase[p] = "contend"
  /\ GoTo(p, "idle")
  /\ UNCHANGED <<sess, out, row, attn, lost, faults>>

LockError(p) ==
  /\ phase[p] = "lock"
  /\ Fault
  /\ GoTo(p, "late")
  /\ UNCHANGED <<sess, out, row, attn, lost>>

\* After a lock error, or an error that escaped the workflow: recorded as a
\* failure without a backoff and without the lock.
RecordLate(p) ==
  /\ phase[p] = "late"
  /\ Record(p, "failure", FALSE)
  /\ GoTo(p, "idle")
  /\ UNCHANGED <<sess, out, lost, faults>>

-----------------------------------------------------------------------------
(* Inside the lock. *)

\* The early return of the backoff check, with its way out of the lock missing.
ReturnHoldingLock(p) ==
  /\ phase[p] = "check"
  /\ row.backoff
  /\ row' = recordTradingAccountWorkerAttempt(row, p, "backoff_skipped", FALSE)
  /\ attn' = emitTransition(row, row')
  /\ GoTo(p, "idle")
  /\ UNCHANGED <<sess, out, lost, faults>>

SkipBackingOff(p) ==
  /\ phase[p] = "check"
  /\ row.backoff
  /\ row' = recordTradingAccountWorkerAttempt(row, p, "backoff_skipped", FALSE)
  /\ attn' = emitTransition(row, row')
  /\ GoTo(p, "unlock")
  /\ UNCHANGED <<sess, out, lost, faults>>

PassBackoff(p) ==
  /\ phase[p] = "check"
  /\ ~row.backoff
  /\ GoTo(p, "start")
  /\ UNCHANGED <<sess, out, row, attn, lost, faults>>

\* A started run of another process is one whose process has ended.
SawInterrupted(p) == row.run /\ row.proc # p

\* startTradingAccountWorkerRun, first statement: an interrupted run counts
\* as a failure.
MarkInterrupted(p) ==
  /\ phase[p] = "start"
  /\ row' = IF SawInterrupted(p)
            THEN [row EXCEPT !.run = FALSE, !.failing = TRUE] ELSE row
  /\ GoTo(p, "begin")
  /\ UNCHANGED <<sess, out, attn, lost, faults>>

\* startTradingAccountWorkerRun, second statement.
BeginRun(p) ==
  /\ phase[p] = "begin"
  /\ row' = [row EXCEPT !.run = TRUE, !.proc = p]
  /\ GoTo(p, "run")
  /\ UNCHANGED <<sess, out, attn, lost, faults>>

\* The lock given back as soon as the work is done, before it is recorded.
UnlockThenRecord(p, o) ==
  /\ out' = [out EXCEPT ![p] = o]
  /\ GoTo(p, "record")
  /\ sess' = [sess EXCEPT ![p] = "none"]

\* The work of a run ends: its outcome is classified and the run goes on to
\* record it, still locked.
EndExecute(p, o) ==
  /\ out' = [out EXCEPT ![p] = o]
  /\ GoTo(p, "record")
  /\ sess' = sess

RecordOutcome(p) ==
  /\ phase[p] = "record"
  /\ Record(p, out[p], TRUE)
  /\ GoTo(p, "unlock")
  /\ out' = [out EXCEPT ![p] = "skipped"]
  /\ UNCHANGED <<sess, lost, faults>>

\* The write of the outcome fails, and so does the second attempt of the catch
\* block: the error leaves through the lock, which is released.
RecordError(p) ==
  /\ phase[p] = "record"
  /\ Fault
  /\ sess' = [sess EXCEPT ![p] = IF @ = "both" THEN "leaked" ELSE "none"]
  /\ GoTo(p, "late")
  /\ out' = [out EXCEPT ![p] = "skipped"]
  /\ UNCHANGED <<row, attn, lost>>

\* finally: unlock, a failing unlock is logged and the client goes back to the pool.
Unlock(p) ==
  /\ phase[p] = "unlock"
  /\ \/ sess' = [sess EXCEPT ![p] = IF @ = "both" THEN "leaked" ELSE "none"] /\ UNCHANGED faults
     \/ sess[p] # "none" /\ sess' = [sess EXCEPT ![p] = "leaked"] /\ Fault
  /\ GoTo(p, "idle")
  /\ UNCHANGED <<out, row, attn, lost>>

-----------------------------------------------------------------------------
(* The environment. *)

\* The database ends a session the process does not use: an idle client of the
\* pool, or a process that is gone.
SessionClosed(p) ==
  /\ sess[p] \in {"leaked", "orphan"}
  /\ sess' = [sess EXCEPT ![p] = "none"]
  /\ UNCHANGED <<phase, out, row, attn, lost, faults>>

\* The session of a run is lost and nobody tells the run.
SessionLost(p) ==
  /\ phase[p] \in Critical /\ sess[p] \in {"held", "both"}
  /\ Fault
  /\ sess' = [sess EXCEPT ![p] = "none"]
  /\ lost' = TRUE
  /\ UNCHANGED <<phase, out, row, attn>>

\* A process ends anywhere; the next one has a new processInstanceId.
Crash(p) ==
  /\ phase[p] # "idle"
  /\ Fault
  /\ sess' = [sess EXCEPT ![p] = IF @ = "none" THEN "none" ELSE "orphan"]
  /\ row' = [row EXCEPT !.proc = IF @ = p THEN None ELSE @]
  /\ GoTo(p, "idle")
  /\ out' = [out EXCEPT ![p] = "skipped"]
  /\ UNCHANGED <<attn, lost>>

BackoffElapses ==
  /\ row.backoff
  /\ row' = [row EXCEPT !.backoff = FALSE]
  /\ UNCHANGED <<sess, phase, out, attn, lost, faults>>

\* One step of p in the runner, the work itself left to the worker.
RunnerStep(p) ==
  \/ TickEligible(p) \/ LockNotAcquired(p)
  \/ recordTradingAccountWorkflowLockContention(p)
  \/ RecordLate(p) \/ SkipBackingOff(p) \/ PassBackoff(p)
  \/ MarkInterrupted(p) \/ BeginRun(p) \/ RecordOutcome(p) \/ Unlock(p)
=============================================================================
