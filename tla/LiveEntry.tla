----------------------------- MODULE LiveEntry -----------------------------
(***************************************************************************)
(* Entering a position on a LIVE account, composed: the account's           *)
(* administration, the two approvals, the one-shot arming, the order worker *)
(* at the broker boundary, the acceptance run and the validity monitor.     *)
(***************************************************************************)
EXTENDS LiveAcceptance

\* An account about to be activated, under a deployment that allows no live
\* entries, or one activated already under a deployment that does.
Init ==
  /\ policy \in BOOLEAN
  /\ acct = [status |-> IF policy THEN "ACTIVE" ELSE "PAUSED", open |-> FALSE, active |-> 0]
  /\ entries = FALSE
  /\ cred = "ACTIVE"
  /\ appr = [ENTRY |-> [status |-> "MISSING", rev |-> 0, fresh |-> FALSE, expired |-> FALSE],
             RISK  |-> [status |-> "GRANTED", rev |-> 1, fresh |-> TRUE, expired |-> FALSE]]
  /\ armings = <<>> /\ posts = <<>> /\ runs = <<>>
  /\ intents = [i \in Intents |-> [st |-> "none", run |-> 0, held |-> FALSE]]
  /\ broker = [i \in Intents |-> "none"]
  /\ wk = Idle /\ drain = "none" /\ mon = "idle" /\ ops = NoOps
  /\ changes = 0

Next == AccountStep \/ ArmingStep \/ WorkerStep \/ AcceptanceStep

\* The monitor runs every 15 seconds for as long as the process lives.
Spec ==
  /\ Init /\ [][Next]_vars
  /\ WF_vars(monitorLiveEntryArmings)
  /\ WF_vars(MonitorDisarm)

-----------------------------------------------------------------------------
(* Types.                                                                  *)

Statuses == {"ACTIVE", "PAUSED", "NEEDS_CREDENTIALS", "ERROR"}
ApprovalStatuses == {"MISSING", "GRANTED", "REVOKED", "INVALIDATED"}
Outcomes == {"none", "OPERATOR_ABORTED", "CANARY_COMPLETE", "FAILED_SAFE"}

Approval == [status : ApprovalStatuses, rev : Nat, fresh : BOOLEAN, expired : BOOLEAN]

Arming == [entryRev : Nat, riskRev : Nat, fresh : BOOLEAN, policy : BOOLEAN, run : 0..Len(runs),
           ended : {"none", "CONSUMED", "DISARMED", "EXPIRED", "INVALIDATED"}]

Intent == [st : Nonterminal \cup {"none", "filled", "canceled", "stopped"},
           run : 0..Len(runs), held : BOOLEAN]

AcceptanceRun == [arming : 0..Len(armings), preview : BOOLEAN, claimed : BOOLEAN,
                  uncertain : BOOLEAN, fail : {"none", "safe", "unsafe"}, out : Outcomes]

Submission == [intent : Intents, arming : 1..Len(armings), rev : Nat, run : 0..Len(runs),
               answer : Answers]

Worker == {Idle} \cup [pc : {"claimed"}, i : Intents]
          \cup [pc : {"authorized"}, i : Intents, arming : 1..Len(armings), rev : Nat]
          \cup [pc : {"posted"}, i : Intents, answer : Answers]

Requests == [revoke : Nat, verify : {"none", "calling", "outdated"},
             abort : {"none", "read", "disarmed", "safe"}, aborting : 0..Len(runs),
             verdict : {"none", "clean"}, judging : 0..Len(runs)]

\* Every row of the account keeps the shape its table gives it, its numbered
\* references point at rows that exist, and at most one acceptance run is
\* not terminal.
TypeOK ==
  /\ acct \in [status : Statuses, open : BOOLEAN, active : 0..Len(armings)]
  /\ entries \in BOOLEAN /\ policy \in BOOLEAN
  /\ cred \in {"ACTIVE", "NEEDS_VERIFICATION", "INVALID", "REVOKED"}
  /\ appr \in [Capabilities -> Approval]
  /\ armings \in Seq(Arming)
  /\ acct.active # 0 => armings[acct.active].ended = "none"
  /\ intents \in [Intents -> Intent]
  /\ broker \in [Intents -> {"none", "sent", "open", "filled", "dead"}]
  /\ posts \in Seq(Submission)
  /\ runs \in Seq(AcceptanceRun)
  /\ \A r \in DOMAIN runs :
        /\ runs[r].claimed => \E i \in Intents : intents[i].run = r
        /\ r < Len(runs) => runs[r].out # "none"
  /\ wk \in Worker
  /\ drain \in {"none", "pending", "drained", "attention"}
  /\ mon \in {"idle", "EXPIRED", "INVALIDATED"}
  /\ ops \in Requests

-----------------------------------------------------------------------------
(* Properties.                                                             *)

\* An arming, the ENTRY approval revision it binds and an acceptance run each
\* put at most one entry POST on the wire, whatever is rejected, lost,
\* retried or re-armed in between.
OneShot ==
  \A m, n \in DOMAIN posts : m # n =>
    /\ posts[m].arming # posts[n].arming
    /\ posts[m].rev # posts[n].rev
    /\ posts[m].run # 0 => posts[m].run # posts[n].run

RunPosted(r) == \E n \in DOMAIN posts : posts[n].run = r

RunOrders(r) == {broker[i] : i \in {j \in Intents : intents[j].run = r}}

\* The broker answered a POST of the run with a 4xx that does not say whether
\* it has the order.
RunConflict(r) == \E n \in DOMAIN posts : posts[n].run = r /\ posts[n].answer = "conflict"

\* A run's terminal outcome is true of the broker: an aborted run sent
\* nothing; a run that failed safe leaves no order, working, filled or still
\* on its way, unless the rejection it rests on was a 408, 409 or other 4xx
\* that does not settle delivery; a completed canary's order filled under an
\* arming that was consumed.
OutcomeIsTrue ==
  \A r \in DOMAIN runs :
    /\ runs[r].out = "OPERATOR_ABORTED" => ~RunPosted(r)
    /\ runs[r].out = "FAILED_SAFE" =>
          RunConflict(r) \/ RunOrders(r) \cap {"sent", "open", "filled"} = {}
    /\ runs[r].out = "CANARY_COMPLETE" =>
          RunOrders(r) = {"filled"} /\ armings[runs[r].arming].ended = "CONSUMED"

\* Once a disarm has drained, no entry POST leaves the process until the
\* account is armed again, not even one that was authorized before.
DrainedMeansQuiet ==
  [][drain = "drained" => posts' = posts]_vars

\* An active arming that has gone invalid (approval, credential, policy,
\* configuration or account status) does not stay active: it is ended, or
\* what made it invalid is undone.
StaleArmingCleared ==
  (acct.active # 0 /\ ~validateActiveLiveEntryArming)
    ~> (acct.active = 0 \/ validateActiveLiveEntryArming)
=============================================================================
