--------------------------- MODULE MomentumHandoffs ---------------------------
(***************************************************************************)
(* The review handoffs of momentum candidates                              *)
(* (momentum-scanner-handoff.service.ts), one row for a candidate because  *)
(* of the unique idempotency key: the preparation stage of a run, the      *)
(* queue read of the external delivery workflow (n8n), and its marks.      *)
(*                                                                         *)
(* "sent" stands for SENT and ACKNOWLEDGED, "closed" for FAILED and        *)
(* CANCELLED: the code does not tell them apart when it prepares.          *)
(***************************************************************************)
EXTENDS MomentumCandidates

VARIABLES hand,       \* the status of each candidate's handoff
          delivered,  \* history: marked SENT since it was last forced
          n8n         \* the handoffs the delivery workflow has read

handVars == <<hand, delivered, n8n>>

ACTIVE_HANDOFF_STATUSES == {"pending", "sent"}

HandoffTypeOK ==
  /\ hand \in [Positive -> ACTIVE_HANDOFF_STATUSES \cup {"none", "closed"}]
  /\ delivered \in [Positive -> BOOLEAN]
  /\ \A c \in Positive : hand[c] # "none" => cand[c].state # "none"
  /\ n8n \subseteq Positive

HandoffInit ==
  /\ hand = [c \in Positive |-> "none"]
  /\ delivered = [c \in Positive |-> FALSE]
  /\ n8n = {}

\* evaluateMomentumHandoffEligibility, with the minimum score in "entry_ready"
HandoffEligible(c, now) ==
  member /\ cand[c].state = "entry_ready" /\ cand[c].confirmed /\ ~Lapsed(c, now)

StalePending(now) == {c \in Positive : hand[c] = "pending" /\ ~HandoffEligible(c, now)}

\* cancelStalePendingHandoffs reads the stale rows and then cancels each by
\* its id alone.
CancelRow(c) == hand' = [hand EXCEPT ![c] = "closed"]

CancelRead(r) ==
  /\ run[r].pc = "confirm" /\ run[r].todo = {}
  /\ Goto(r, "cancel", StalePending(Now(r)))
  /\ UNCHANGED <<cand, handVars>>

CancelNext(r, c) ==
  /\ run[r].pc = "cancel" /\ c \in run[r].todo
  /\ CancelRow(c)
  /\ Goto(r, "cancel", run[r].todo \ {c})
  /\ UNCHANGED <<cand, delivered, n8n>>

NoActiveHandoff(r, c) == run[r].force \/ hand[c] \notin ACTIVE_HANDOFF_STATUSES

PrepareList(r) ==
  /\ run[r].pc = "cancel" /\ run[r].todo = {}
  /\ run' = [run EXCEPT ![r].pc = "prepare", ![r].now = Now(r),
       ![r].todo = {c \in Positive : HandoffEligible(c, Now(r)) /\ NoActiveHandoff(r, c)}]
  /\ UNCHANGED <<cand, handVars>>

\* the existing row not looked for
AnyInactiveRow(r, c) == HandoffEligible(c, run[r].now) /\ NoActiveHandoff(r, c)

\* prepareMomentumScannerHandoff reads the candidate again and looks for the
\* row of its idempotency key.  Without force an existing row is returned as
\* it is, cancelled and failed ones included.
MayWrite(r, c) ==
  /\ HandoffEligible(c, run[r].now) /\ NoActiveHandoff(r, c)
  /\ run[r].force \/ hand[c] = "none"

PrepareRead(r, c) ==
  /\ run[r].pc = "prepare" /\ c \in run[r].todo
  /\ IF MayWrite(r, c)
     THEN run' = [run EXCEPT ![r].pc = "create", ![r].at = c,
                             ![r].todo = @ \ {c}, ![r].ready = hand[c] = "none"]
     ELSE Goto(r, "prepare", run[r].todo \ {c})
  /\ UNCHANGED <<cand, handVars>>

\* The row is created, or, for a row read before, forced back to PENDING.  A
\* row created by someone else since violates the unique key and ends the run.
PrepareWrite(r) ==
  LET c == run[r].at
  IN  /\ run[r].pc = "create"
      /\ IF run[r].ready /\ hand[c] # "none"
         THEN /\ run' = [run EXCEPT ![r] = Idle]
              /\ UNCHANGED <<hand, delivered>>
         ELSE /\ hand' = [hand EXCEPT ![c] = "pending"]
              /\ delivered' = [delivered EXCEPT ![c] = @ /\ ~run[r].force]
              /\ Leave(r, "prepare")
      /\ UNCHANGED <<cand, n8n>>

PrepareDone(r) ==
  /\ run[r].pc = "prepare" /\ run[r].todo = {}
  /\ run' = [run EXCEPT ![r] = Idle]
  /\ UNCHANGED <<cand, handVars>>

\* The queue read of the delivery workflow, at the present time: it cancels
\* the stale rows (in one step here: the gap between reading and cancelling
\* is that of a run) and lists the pending ones that are eligible.
QueueRead ==
  /\ n8n = {}
  /\ hand' = [c \in Positive |-> IF c \in StalePending(clock) THEN "closed" ELSE hand[c]]
  /\ n8n' = {c \in Positive : hand[c] = "pending" /\ HandoffEligible(c, clock)}
  /\ UNCHANGED delivered

\* A mark writes the status of the row whatever it is now.
Mark(c, status) ==
  /\ hand' = [hand EXCEPT ![c] = status]
  /\ delivered' = [delivered EXCEPT ![c] = @ \/ status = "sent"]

Delivered(c) ==
  /\ c \in n8n
  /\ Mark(c, "sent")
  /\ n8n' = n8n \ {c}

DeliveryFailed(c) ==
  /\ c \in n8n
  /\ Mark(c, "closed")
  /\ n8n' = n8n \ {c}

\* The call that marks the row is lost: the row stays as it is.
MarkLost(c) ==
  /\ c \in n8n
  /\ n8n' = n8n \ {c}
  /\ UNCHANGED <<hand, delivered>>

\* A reviewer acknowledges a handoff that was delivered, whatever its status
\* is now.
Acknowledge(c) ==
  /\ delivered[c]
  /\ hand' = [hand EXCEPT ![c] = "sent"]
  /\ UNCHANGED <<delivered, n8n>>

(***************************************************************************)
(* A handoff the delivery workflow marked as sent does not go back into    *)
(* the queue without force, although stale cancellation may overwrite SENT *)
(* with CANCELLED, the candidate may become ready again, and runs overlap: *)
(* the same candidate is not put before the reviewers twice.               *)
(***************************************************************************)
DeliveredStaysOut == \A c \in Positive : delivered[c] => hand[c] # "pending"
=============================================================================
