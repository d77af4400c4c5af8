--------------------------- MODULE LiveAuthority ---------------------------
(***************************************************************************)
(* The rows of one LIVE trading account that decide whether a new position *)
(* may be entered: the account's status and latches, the canary assignment,*)
(* the broker credential, the two account approvals, the armings and the   *)
(* order intents, with the operators every operation on them is built from.*)
(*                                                                         *)
(* An approval and an arming keep hashes of the configuration and of the   *)
(* credential.  Those rows carry updatedAt, so a hash that has once stopped *)
(* matching never matches again: `fresh' says whether it still does.       *)
(* tradingEnabled and killSwitchEnabled are always written together; `open' *)
(* is tradingEnabled with the kill switch off.                             *)
(***************************************************************************)
EXTENDS Naturals, Sequences, FiniteSets

CONSTANTS
  MaxRev,      \* bound: approvals are granted only below this revision
  MaxArmings,  \* bound: armings created
  MaxRuns,     \* bound: acceptance runs created
  MaxChanges,  \* bound: configuration edits, credential revocations and
               \* verifications, expiries, approval revocations, deactivations
               \* and restarts, together
  Intents      \* the order intents that may be admitted (model values)

VARIABLES
  acct,        \* [status, open, active]: active is the arming's number, or 0
  entries,     \* the canary assignment's entriesEnabled
  cred,        \* the credential's status
  policy,      \* ALLOW_LIVE_TRADING of the running deployment
  appr,        \* the ENTRY and RISK_REDUCING approvals
  armings,     \* the LiveEntryArming rows, in the order they were created
  intents,     \* [st, run, held]: status, acceptance run (0: none), claim held
  broker,      \* what the broker knows of each intent's client order id;
               \* "sent" is a request it may still take up
  posts,       \* the entry POSTs that left the process, in order, each with
               \* the answer it got
  runs,        \* the LiveEntryAcceptanceRun rows
  wk,          \* the order worker, holder of the account's lifecycle lock
  drain,       \* the latest disarm's wait for that lock
  mon,         \* the validity monitor: what it decided to disarm, if anything
  ops,         \* operator requests between two of their transactions
  changes      \* how many disturbances have happened

vars == <<acct, entries, cred, policy, appr, armings, intents, broker,
          posts, runs, wk, drain, mon, ops, changes>>

Capabilities == {"ENTRY", "RISK"}
Idle == [pc |-> "idle"]
NoOps == [revoke |-> 0, verify |-> "none", abort |-> "none", aborting |-> 0,
          verdict |-> "none", judging |-> 0]

-----------------------------------------------------------------------------
(* Approvals.                                                              *)

effectiveState(c) ==
  appr[c].status = "GRANTED" /\ ~appr[c].expired /\ appr[c].fresh

\* ENTRY depends on RISK_REDUCING.
Effective(c) == effectiveState(c) /\ (c = "ENTRY" => effectiveState("RISK"))

\* Every change of an approval's state takes a new revision.
invalidateLiveWriteApprovals(ap, C) ==
  [c \in Capabilities |->
    IF c \in C /\ ap[c].status = "GRANTED"
    THEN [ap[c] EXCEPT !.status = "INVALIDATED", !.rev = @ + 1]
    ELSE ap[c]]

\* The hashed rows changed under the approvals C.
Outdated(ap, C) ==
  [c \in Capabilities |-> IF c \in C THEN [ap[c] EXCEPT !.fresh = FALSE] ELSE ap[c]]

\* ... and under the active arming, which binds the ENTRY hashes.
OutdatedArming ==
  IF acct.active = 0 THEN armings
  ELSE [armings EXCEPT ![acct.active].fresh = FALSE]

-----------------------------------------------------------------------------
(* Intents.  `stopped' is both blocked and failed: which of the two nothing  *)
(* reads, and neither has a broker order on record.                         *)

Nonterminal == {"received", "pending", "submitting", "submitted"}

blockEntryIntents(S) ==
  [i \in Intents |-> IF intents[i].st \in S
                     THEN [intents[i] EXCEPT !.st = "stopped", !.held = FALSE]
                     ELSE intents[i]]

\* The binding to the ended arming is left in place.
LatchesClosed == [acct EXCEPT !.open = FALSE]

Disarmed == [acct EXCEPT !.open = FALSE, !.active = 0]

terminateArming(type) ==
  IF acct.active = 0 THEN armings
  ELSE [armings EXCEPT ![acct.active].ended = type]

\* Closes the latches, disables every entry assignment, blocks the entries
\* that were not yet claimed for submission and ends the active arming.
closeEntryAuthority(type) ==
  /\ acct' = Disarmed
  /\ entries' = FALSE
  /\ intents' = blockEntryIntents({"received", "pending"})
  /\ armings' = terminateArming(type)

\* Disabling the assignment rewrites its row when it was enabled.
AfterDisabling(ap) == IF entries THEN Outdated(ap, {"ENTRY"}) ELSE ap
=============================================================================
