---------------------------- MODULE ExitLifecycle ----------------------------
(***************************************************************************)
(* All exits of one position, interleaved: the exit evaluator, the owner's *)
(* close, the corrective close, the order worker's recovery and the sync   *)
(* workers, reconciliation, the broker, and processes that die.            *)
(***************************************************************************)
EXTENDS ExitSync

NoOrder == [st |-> "none", qty |-> 0, done |-> 0, wire |-> {}, late |-> FALSE]

(* A position that was just opened and is watched. *)
Init ==
  /\ pos = [st |-> "open", qty |-> Qty]
  /\ intent = [i \in Intents |-> [st |-> "none", why |-> "none"]]
  /\ row = [c \in Cids |-> [st |-> "none", by |-> Nobody]]
  /\ xs = [st |-> "watching", unlocked |-> FALSE, cid |-> FALSE, bid |-> FALSE,
           ost |-> "none", att |-> FALSE]
  /\ attn = [open |-> FALSE, rev |-> 0]
  /\ fills = [c \in Cids |-> [seen |-> 0, mine |-> 0]]
  /\ lock = Nobody
  /\ w = [p \in Procs |-> Idle]
  /\ ord = [c \in Cids |-> NoOrder]
  /\ held = Qty
  /\ sent = {}
  /\ profile \in Profiles
  /\ faults = 0 /\ cancels = 0

Rest == (\A p \in Procs : w[p].pc = "idle") /\ UNCHANGED vars

Next ==
  \/ VerificationNext \/ CloseNext \/ TrailingNext \/ CorrectiveNext \/ SyncNext
  \/ BrokerNext
  \/ \E p \in Procs : Abort(p)
  \/ Rest

Spec == Init /\ [][Next]_vars

-----------------------------------------------------------------------------
Outcomes == {"none", "local", "found", "sent", "verify", "verify503", "notSent", "blocked",
             "rejected", "uncertain", "error", "open", "closing", "verification", "absent"}

Steps == {"idle", "xLock", "xFind", "xPos", "xOrders", "xPost", "xBlock", "xAttention", "done",
          "protRead", "protWrite", "decide", "trailClaim", "trailLookup",
          "persist", "mark", "trailFailed", "execute", "recover", "absent", "syncRow",
          "syncIntent", "position", "closing"}

Position == [st : {"open", "closing", "closed"}, qty : 1..Qty]

Intent == [st : {"none", "submitting", "submitted", "blocked", "failed"} \cup OrderStatuses,
           why : {"none", "verification", "notSent", "blocked", "rejected", "uncertain", "absent"}]

LocalOrder == [st : OrderStatuses \cup {"none"}, by : Intents \cup {Nobody}]

ExitState == [st : ExitStatuses, unlocked : BOOLEAN, cid : BOOLEAN, bid : BOOLEAN,
              ost : OrderStatuses \cup {"none", "pending", "submit_failed"}, att : BOOLEAN]

Attention == [open : BOOLEAN, rev : 0..MaxRev]

Fill == [seen : 0..Qty, mine : 0..Qty]

Process == [pc : Steps, i : Intents \cup {Nobody}, q : 0..Qty, loc : 0..Qty, att : 0..Qty,
            h : Int, a : Int, out : Outcomes \cup OrderStatuses,
            seen : OrderStatuses \cup {"none", "again"}]

BrokerOrder == [st : OrderStatuses \cup {"none"}, qty : 0..Qty, done : 0..Qty,
                wire : SUBSET (1..Qty), late : BOOLEAN]

(* Types of the state. *)
TypeOK ==
  /\ pos \in Position
  /\ intent \in [Intents -> Intent]
  /\ row \in [Cids -> LocalOrder]
  /\ xs \in ExitState
  /\ attn \in Attention
  /\ fills \in [Cids -> Fill]
  /\ lock \in Submitters \cup {Nobody}
  /\ w \in [Procs -> Process]
  /\ ord \in [Cids -> BrokerOrder]
  /\ held \in Int
  /\ sent \subseteq Intents
  /\ profile \in Profiles
  /\ faults \in 0..MaxFaults /\ cancels \in 0..MaxCancels

(* Shares sold by orders accepted after their submitter stopped waiting,   *)
(* which no verification can have seen.                                    *)
LateDone == Total([c \in Cids |-> IF ord[c].late THEN ord[c].done ELSE 0])

OnlyLateWork == \A c \in Cids : Working(c) => ord[c].late

(* q is what is held, but for what late orders sold. *)
HeldUpToLate(q) == held <= q /\ q <= held + LateDone

(* The account is never made short but by orders accepted late, and then   *)
(* by no more than they sold, although the broker would let it be: the     *)
(* verification of verified-exit-submission.service alone keeps the sells  *)
(* of the evaluator, the owner and the corrective close, of attempts whose *)
(* answer was lost and of dead processes, within the shares held.          *)
ShortOnlyByLateOrders == held + LateDone >= 0

(* An order that is accepted while its submitter waits is for the shares   *)
(* held at that moment and is the only working sell, late orders apart,    *)
(* although the position is read before the open orders, the intended      *)
(* quantity when the close is claimed, position sync rewrites the local    *)
(* quantity in between, and the lock of an attempt that timed out is free. *)
SellsWholePosition ==
  [][\A c \in Cids : ord[c].st = "none" /\ ord'[c].st # "none" /\ ~ord'[c].late
       => HeldUpToLate(ord'[c].qty) /\ OnlyLateWork]_vars

(* A close intent that was given up although its request may still be      *)
(* carried out: one lookup missed it, after the broker refused the request *)
(* or reconciliation found it stale.                                       *)
GivenUp == \E i \in Closes : intent[i].why \in {"rejected", "absent"}

(* While a close works at the broker, or is on its way there, no further   *)
(* close of the position can be claimed: some local intent or order still  *)
(* accounts for it, whatever crashed, was recovered, or was half           *)
(* synchronized. The exception is a close accepted after its intent was    *)
(* given up, never one accepted while its submitter waited.                *)
CloseKnownOrGivenUp ==
  Working("close") \/ ord["close"].wire # {}
    => ~Closable \/ (GivenUp /\ (Working("close") => ord["close"].late))

(* trading-lifecycle.md of a close: uncertain delivery retains closing and *)
(* submitting state, so that recovery can materialize an accepted order.   *)
(* So a close that works and was not refused by the broker is accounted    *)
(* for.                                                                    *)
UncertainCloseIsKept ==
  Working("close") => ~Closable \/ \E i \in Closes : intent[i].why = "rejected"

(* A linked protective order that is locally known to have died is flagged *)
(* for the operator, or still in the set the evaluator reads again; a late *)
(* write of a stale status cannot hide it.                                 *)
DeadProtectionNoticed ==
  (xs.bid /\ row["trail"].st = "canceled" /\ pos.st # "closed")
    => (xs.att \/ xs.ost \notin Terminal)

(* The exit-verification attention is resolved only when the broker holds  *)
(* what the position says and nothing works, late orders apart, or the     *)
(* closed position is explained by attributed fills.                       *)
AttentionResolved ==
  [][attn.open /\ ~attn'.open
       => \/ HeldUpToLate(pos.qty) /\ OnlyLateWork
          \/ pos.st = "closed" /\ HeldUpToLate(0) /\ Attributed' = pos.qty]_vars

(* An exit attempt is recorded as uncertain only if it may have reached    *)
(* the broker: what stops before `fetch' is one of the two not-sent        *)
(* classes of trading-lifecycle.md.                                        *)
UncertainMeansSent ==
  [][\A i \in Intents : intent[i].why # "uncertain" /\ intent'[i].why = "uncertain"
       => \/ i \in sent
          \/ \A p \in Submitters : w[p].i # i]_vars

=============================================================================
