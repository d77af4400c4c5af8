--------------------------- MODULE LiveEntryProofs ---------------------------
(***************************************************************************)
(* Proofs about entering a position on a LIVE account, for every set of    *)
(* intents and every bound.                                                *)
(***************************************************************************)
EXTENDS LiveEntry, TLAPS, SequenceTheorems

(* The ENTRY approval revision can authorize no further entry: it is past, *)
(* or its hashes no longer match and only a new revision can match again.  *)
SpentRev(rev) ==
  \/ rev < appr["ENTRY"].rev
  \/ rev = appr["ENTRY"].rev /\ ~ appr["ENTRY"].fresh

(* The latest disarm holds until the account is armed again. *)
DrainOK ==
  /\ drain # "none" => acct.active = 0
  /\ drain = "drained" => wk.pc # "authorized"

(* The broker has no order of the intent, and none on its way, unless it   *)
(* answered with a 4xx that leaves it open.                                *)
Settled(i) ==
  broker[i] = "none" \/ \E n \in DOMAIN posts : posts[n].intent = i /\ posts[n].answer = "conflict"

(* What the worker carries from one of its statements to the next. *)
WorkerOK ==
  /\ wk.pc # "idle" => intents[wk.i].st = "submitting"
  /\ wk.pc \in {"claimed", "authorized"} => ~ Posted(wk.i) /\ broker[wk.i] = "none"
  /\ wk.pc = "posted" /\ BrokerRejected(wk.answer) => Settled(wk.i)
  /\ wk.pc = "authorized" =>
       /\ armings[wk.arming].ended = "CONSUMED" /\ SpentRev(wk.rev)
       /\ \A n \in DOMAIN posts : posts[n].arming # wk.arming /\ posts[n].rev # wk.rev

(* A POST on the wire has spent its arming, its revision and its intent. *)
PostsOK ==
  /\ \A n \in DOMAIN posts :
       /\ armings[posts[n].arming].ended = "CONSUMED" /\ SpentRev(posts[n].rev)
       /\ intents[posts[n].intent].st \notin {"none", "received", "pending"}
       /\ posts[n].run = intents[posts[n].intent].run
  /\ \A m, n \in DOMAIN posts : m # n =>
       /\ posts[m].arming # posts[n].arming /\ posts[m].rev # posts[n].rev
       /\ posts[m].intent # posts[n].intent

(* An intent of a run is its only one, and the broker knows of no intent   *)
(* that was not submitted.                                                 *)
IntentsOK ==
  \A i \in Intents :
    /\ intents[i].st = "none" => intents[i].run = 0
    /\ intents[i].st \in {"none", "received", "pending"} => broker[i] = "none"
    /\ intents[i].st = "filled" => broker[i] = "filled"
    /\ intents[i].run # 0 =>
         /\ runs[intents[i].run].claimed
         /\ \A j \in Intents : intents[j].run = intents[i].run => i = j

Stopped(r) == \A i \in Intents : intents[i].run = r => intents[i].st = "stopped" /\ Settled(i)

(* What a run says of its intent. *)
RunsOK ==
  \A r \in DOMAIN runs :
    /\ runs[r].claimed => runs[r].arming # 0
    /\ runs[r].out = "OPERATOR_ABORTED" => ~ runs[r].claimed
    /\ runs[r].fail = "safe" => runs[r].claimed
    /\ runs[r].fail = "safe" \/ runs[r].out = "FAILED_SAFE" => Stopped(r)
    /\ runs[r].out = "CANARY_COMPLETE" =>
         /\ runs[r].claimed /\ armings[runs[r].arming].ended = "CONSUMED"
         /\ \A i \in Intents : intents[i].run = r => broker[i] = "filled"

(* What a request under way has read stays so. *)
OpsOK ==
  /\ ops.abort # "none" => ops.aborting # 0
  /\ ops.verdict # "none" => ops.judging # 0 /\ runs[ops.judging].claimed

IInv == TypeOK /\ DrainOK /\ WorkerOK /\ PostsOK /\ IntentsOK /\ RunsOK /\ OpsOK

-----------------------------------------------------------------------------
(* Sequences of rows.                                                      *)

(* A sequence over a set is one over any larger set. *)
LEMMA SeqMono ==
  ASSUME NEW S, NEW T, S \subseteq T, NEW s \in Seq(S)
  PROVE  s \in Seq(T)
  OBVIOUS

(* What the typed sequences give pointwise. *)
LEMMA RowTypes ==
  ASSUME TypeOK
  PROVE  /\ Len(armings) \in Nat /\ DOMAIN armings = 1..Len(armings)
         /\ \A a \in 1..Len(armings) : armings[a] \in Arming
         /\ Len(runs) \in Nat /\ DOMAIN runs = 1..Len(runs)
         /\ \A r \in 1..Len(runs) : runs[r] \in AcceptanceRun
         /\ Len(posts) \in Nat /\ DOMAIN posts = 1..Len(posts)
         /\ \A n \in 1..Len(posts) : posts[n] \in Submission
<1>1. /\ armings \in Seq(Arming) /\ runs \in Seq(AcceptanceRun) /\ posts \in Seq(Submission)
  BY DEF TypeOK
<1>. QED
  BY <1>1, LenProperties, ElementOfSeq

(* What the worker's record holds at each of its statements. *)
LEMMA WorkerTypes ==
  ASSUME TypeOK
  PROVE  /\ wk.pc \in {"idle", "claimed", "authorized", "posted"}
         /\ wk.pc = "idle" => wk = Idle
         /\ wk.pc # "idle" => wk.i \in Intents
         /\ wk.pc = "authorized" => wk.arming \in 1..Len(armings) /\ wk.rev \in Nat
         /\ wk.pc = "posted" => wk.answer \in Answers
<1>1. wk \in Worker
  BY DEF TypeOK
<1>. QED
  BY <1>1 DEF Worker, Idle

(* A claimed run has an intent, and only the latest run is not terminal. *)
LEMMA RunRows ==
  ASSUME TypeOK
  PROVE  \A r \in DOMAIN runs :
           /\ runs[r].claimed => \E i \in Intents : intents[i].run = r
           /\ r < Len(runs) => runs[r].out # "none"
  BY DEF TypeOK

-----------------------------------------------------------------------------
(* What the operators of the authority do to the rows they change.         *)

(* An approval moves on: to a later revision, or with hashes that match no *)
(* better than before.                                                     *)
Moves(ap, bp) ==
  /\ bp \in [Capabilities -> Approval]
  /\ \/ ap["ENTRY"].rev < bp["ENTRY"].rev
     \/ bp["ENTRY"].rev = ap["ENTRY"].rev /\ (bp["ENTRY"].fresh => ap["ENTRY"].fresh)

(* Moves is transitive. *)
LEMMA MovesTransitive ==
  ASSUME NEW ap \in [Capabilities -> Approval], NEW bp, NEW cp, Moves(ap, bp), Moves(bp, cp)
  PROVE  Moves(ap, cp)
  BY DEF Moves, Approval, Capabilities

(* Invalidating approvals moves them on. *)
LEMMA InvalidateMoves ==
  ASSUME NEW ap \in [Capabilities -> Approval], NEW C
  PROVE  Moves(ap, invalidateLiveWriteApprovals(ap, C))
<1>. DEFINE new(c) == [ap[c] EXCEPT !.status = "INVALIDATED", !.rev = @ + 1]
<1>1. ASSUME NEW c \in Capabilities
      PROVE  /\ new(c) \in Approval /\ new(c).rev = ap[c].rev + 1
  <2>1. ap[c] \in Approval
    OBVIOUS
  <2>. DEFINE a == ap[c]
              n == ap[c].rev + 1
  <2>2. n \in Nat
    BY <2>1 DEF Approval
  <2>3. new(c) = [a EXCEPT !.status = "INVALIDATED", !.rev = n]
    OBVIOUS
  <2>4. a \in Approval
    BY <2>1
  <2>. HIDE DEF new, n, a
  <2>5. new(c) \in Approval /\ new(c).rev = n
    BY <2>2, <2>3, <2>4 DEF Approval, ApprovalStatuses
  <2>. QED
    BY <2>5 DEF n
<1>. QED
  BY <1>1 DEF Moves, invalidateLiveWriteApprovals, Approval, Capabilities

(* Outdating their hashes moves them on. *)
LEMMA OutdatedMoves ==
  ASSUME NEW ap \in [Capabilities -> Approval], NEW C
  PROVE  Moves(ap, Outdated(ap, C))
<1>. DEFINE new(c) == [ap[c] EXCEPT !.fresh = FALSE]
<1>1. ASSUME NEW c \in Capabilities
      PROVE  new(c) \in Approval /\ new(c).rev = ap[c].rev /\ ~ new(c).fresh
  <2>1. ap[c] \in Approval
    OBVIOUS
  <2>. QED
    BY <2>1 DEF Approval
<1>. QED
  BY <1>1 DEF Moves, Outdated, Approval, Capabilities

(* Rows hashed anew, or an assignment disabled: the approvals move on. *)
LEMMA ApprovalsMove ==
  ASSUME NEW ap \in [Capabilities -> Approval], NEW C, NEW D
  PROVE  /\ Moves(ap, ap)
         /\ Moves(ap, invalidateLiveWriteApprovals(Outdated(ap, D), C))
         /\ Moves(ap, AfterDisabling(ap))
         /\ Moves(ap, invalidateLiveWriteApprovals(AfterDisabling(ap), C))
<1>1. Moves(ap, ap)
  BY DEF Moves
<1>2. Moves(ap, invalidateLiveWriteApprovals(Outdated(ap, D), C))
  BY OutdatedMoves, InvalidateMoves, MovesTransitive DEF Moves
<1>3. Moves(ap, AfterDisabling(ap))
  BY <1>1, OutdatedMoves DEF AfterDisabling
<1>4. Moves(ap, invalidateLiveWriteApprovals(AfterDisabling(ap), C))
  BY <1>3, InvalidateMoves, MovesTransitive DEF Moves
<1>. QED
  BY <1>1, <1>2, <1>3, <1>4

(* Armings whose hashes are outdated end as before. *)
LEMMA OutdatedArmingKeeps ==
  ASSUME TypeOK
  PROVE  /\ OutdatedArming \in Seq(Arming)
         /\ Len(OutdatedArming) = Len(armings)
         /\ \A a \in 1..Len(armings) : OutdatedArming[a].ended = armings[a].ended
<1>1. CASE acct.active = 0
  BY <1>1 DEF OutdatedArming, TypeOK
<1>2. CASE acct.active # 0
  <2>. DEFINE k == acct.active
              e == [armings[k] EXCEPT !.fresh = FALSE]
  <2>1. k \in 1..Len(armings)
    BY <1>2, RowTypes DEF TypeOK
  <2>2. armings[k] \in Arming
    BY <2>1, RowTypes
  <2>4. e \in Arming /\ e.ended = armings[k].ended
    BY <2>2 DEF Arming
  <2>5. OutdatedArming = [armings EXCEPT ![k] = e]
    BY <1>2 DEF OutdatedArming
  <2>6. armings \in Seq(Arming)
    BY DEF TypeOK
  <2>. HIDE DEF k, e
  <2>. QED
    BY <2>1, <2>4, <2>5, <2>6, ExceptSeq
<1>. QED
  BY <1>1, <1>2

Endings == {"CONSUMED", "DISARMED", "EXPIRED", "INVALIDATED"}

(* Ending the active arming ends no other, and an arming ends once. *)
LEMMA TerminateKeeps ==
  ASSUME TypeOK, NEW type \in Endings
  PROVE  /\ terminateArming(type) \in Seq(Arming)
         /\ Len(terminateArming(type)) = Len(armings)
         /\ \A a \in 1..Len(armings) :
              armings[a].ended # "none" => terminateArming(type)[a].ended = armings[a].ended
         /\ acct.active # 0 => terminateArming(type)[acct.active].ended = type
<1>1. CASE acct.active = 0
  BY <1>1 DEF terminateArming, TypeOK
<1>2. CASE acct.active # 0
  <2>. DEFINE k == acct.active
              e == [armings[k] EXCEPT !.ended = type]
  <2>1. k \in 1..Len(armings) /\ armings[k].ended = "none"
    BY <1>2, RowTypes DEF TypeOK
  <2>2. armings[k] \in Arming
    BY <2>1, RowTypes
  <2>3. e = [entryRev |-> armings[k].entryRev, riskRev |-> armings[k].riskRev,
             fresh |-> armings[k].fresh, policy |-> armings[k].policy, run |-> armings[k].run,
             ended |-> type]
    BY <2>2 DEF Arming
  <2>4. e \in Arming /\ e.ended = type
    BY <2>2, <2>3 DEF Arming, Endings
  <2>5. terminateArming(type) = [armings EXCEPT ![k] = e]
    BY <1>2 DEF terminateArming
  <2>6. armings \in Seq(Arming)
    BY DEF TypeOK
  <2>7. k = acct.active
    OBVIOUS
  <2>. HIDE DEF k, e
  <2>. QED
    BY <2>1, <2>4, <2>5, <2>6, <2>7, ExceptSeq
<1>. QED
  BY <1>1, <1>2

(* Blocking entries stops only what was not yet claimed for submission. *)
LEMMA BlockKeeps ==
  ASSUME TypeOK, NEW S, S \subseteq {"received", "pending"}
  PROVE  /\ blockEntryIntents(S) \in [Intents -> Intent]
         /\ \A i \in Intents :
              /\ blockEntryIntents(S)[i].run = intents[i].run
              /\ \/ blockEntryIntents(S)[i].st = intents[i].st
                 \/ /\ intents[i].st \in {"received", "pending"}
                    /\ blockEntryIntents(S)[i].st = "stopped"
<1>. DEFINE new(i) == [intents[i] EXCEPT !.st = "stopped", !.held = FALSE]
<1>1. ASSUME NEW i \in Intents
      PROVE  new(i) \in Intent /\ new(i).run = intents[i].run /\ new(i).st = "stopped"
  <2>1. intents[i] \in Intent
    BY DEF TypeOK
  <2>. QED
    BY <2>1 DEF Intent
<1>2. intents \in [Intents -> Intent]
  BY DEF TypeOK
<1>. QED
  BY <1>1, <1>2 DEF blockEntryIntents

-----------------------------------------------------------------------------
(* Steps that leave the wire, the runs and the broker alone.               *)

(* What such a step may do to the account, its approvals and armings, its  *)
(* unclaimed entries, a disarm's wait and the requests under way.  The     *)
(* worker goes on, is lost, or has been authorized under no disarm.        *)
AuthorityChange ==
  /\ UNCHANGED <<posts, runs, broker>>
  /\ wk' \in {wk, Idle} \/ (wk' \in Worker /\ WorkerOK' /\ drain' = "none")
  /\ acct' \in [status : Statuses, open : BOOLEAN, active : {0, acct.active}]
  /\ entries' \in BOOLEAN /\ policy' \in BOOLEAN
  /\ cred' \in {"ACTIVE", "NEEDS_VERIFICATION", "INVALID", "REVOKED"}
  /\ Moves(appr, appr')
  /\ armings' \in Seq(Arming) /\ Len(armings') = Len(armings)
  /\ \A a \in 1..Len(armings) :
       armings[a].ended # "none" => armings'[a].ended = armings[a].ended
  /\ acct'.active # 0 => armings'[acct'.active].ended = "none"
  /\ intents' \in [Intents -> Intent]
  /\ \A i \in Intents :
       /\ intents'[i].run = intents[i].run
       /\ \/ intents'[i].st = intents[i].st
          \/ intents[i].st \in {"received", "pending"} /\ intents'[i].st = "stopped"
  /\ drain' \in {"none", "pending", "drained", "attention"}
  /\ drain' # "none" => acct'.active = 0
  /\ drain' = "drained" => drain = "drained" \/ wk.pc = "idle"
  /\ mon' \in {"idle", "EXPIRED", "INVALIDATED"}
  /\ ops' \in Requests /\ OpsOK'

(* A spent revision stays spent when the approvals move on. *)
LEMMA SpentStays ==
  ASSUME appr \in [Capabilities -> Approval], Moves(appr, appr'), NEW rev \in Nat, SpentRev(rev)
  PROVE  SpentRev(rev)'
  BY DEF Moves, SpentRev, Approval, Capabilities

(* Such a step keeps the invariant. *)
LEMMA AuthorityKeeps ==
  ASSUME IInv, AuthorityChange
  PROVE  IInv'
<1>. USE DEF IInv
<1>1. /\ Len(armings) \in Nat /\ Len(armings') = Len(armings) /\ Len(runs') = Len(runs)
      /\ posts' = posts /\ runs' = runs /\ broker' = broker
  BY RowTypes DEF AuthorityChange
<1>2. \A rev \in Nat : SpentRev(rev) => SpentRev(rev)'
  BY SpentStays DEF AuthorityChange, TypeOK
<1>3. TypeOK'
  <2>1. /\ Arming' = Arming /\ Intent' = Intent /\ AcceptanceRun' = AcceptanceRun
        /\ Submission' = Submission /\ Worker' = Worker /\ Requests' = Requests
    BY <1>1 DEF Arming, Intent, AcceptanceRun, Submission, Worker, Requests, Outcomes, Nonterminal
  <2>2. acct' \in [status : Statuses, open : BOOLEAN, active : 0..Len(armings')]
    BY <1>1 DEF AuthorityChange, TypeOK
  <2>3. wk' \in Worker
    BY DEF AuthorityChange, TypeOK, Worker, Idle
  <2>4. \A r \in DOMAIN runs :
          /\ runs[r].claimed => \E i \in Intents : intents'[i].run = r
          /\ r < Len(runs) => runs[r].out # "none"
    BY RunRows DEF AuthorityChange
  <2>5. (\A r \in DOMAIN runs :
          /\ runs[r].claimed => \E i \in Intents : intents[i].run = r
          /\ r < Len(runs) => runs[r].out # "none")'
    BY <1>1, <2>4
  <2>6. /\ entries' \in BOOLEAN /\ policy' \in BOOLEAN
        /\ cred' \in {"ACTIVE", "NEEDS_VERIFICATION", "INVALID", "REVOKED"}
        /\ appr' \in [Capabilities -> Approval]
        /\ armings' \in Seq(Arming)
        /\ acct'.active # 0 => armings'[acct'.active].ended = "none"
        /\ intents' \in [Intents -> Intent]
        /\ drain' \in {"none", "pending", "drained", "attention"}
        /\ mon' \in {"idle", "EXPIRED", "INVALIDATED"}
        /\ ops' \in Requests
    BY DEF AuthorityChange, Moves
  <2>7. /\ broker' \in [Intents -> {"none", "sent", "open", "filled", "dead"}]
        /\ posts' \in Seq(Submission) /\ runs' \in Seq(AcceptanceRun)
    BY <1>1 DEF TypeOK
  <2>. QED
    BY <2>1, <2>2, <2>3, <2>5, <2>6, <2>7 DEF TypeOK, Approval
<1>4. DrainOK'
  BY DEF AuthorityChange, DrainOK, WorkerOK, Idle
<1>5. WorkerOK'
  <2>1. CASE wk' = Idle
    BY <2>1 DEF WorkerOK, Idle
  <2>2. CASE wk' = wk /\ wk.pc # "idle"
    <3>1. wk.i \in Intents /\ intents'[wk.i].st = "submitting"
      BY <2>2, WorkerTypes DEF AuthorityChange, WorkerOK
    <3>2. Posted(wk.i)' <=> Posted(wk.i)
      BY <1>1, <2>2 DEF Posted
    <3>3. ASSUME wk.pc = "authorized"
          PROVE  armings'[wk.arming].ended = "CONSUMED" /\ SpentRev(wk.rev)'
      BY <1>2, <2>2, <3>3, WorkerTypes DEF AuthorityChange, WorkerOK
    <3>. QED
      BY <1>1, <2>2, <3>1, <3>2, <3>3 DEF WorkerOK, SpentRev, Settled
  <2>3. CASE wk' = wk /\ wk.pc = "idle"
    BY <2>3 DEF WorkerOK
  <2>4. CASE WorkerOK'
    BY <2>4
  <2>. QED
    BY <2>1, <2>2, <2>3, <2>4 DEF AuthorityChange
<1>6. PostsOK'
  <2>1. ASSUME NEW n \in DOMAIN posts
        PROVE  /\ armings'[posts[n].arming].ended = "CONSUMED" /\ SpentRev(posts[n].rev)'
               /\ intents'[posts[n].intent].st \notin {"none", "received", "pending"}
               /\ posts[n].run = intents'[posts[n].intent].run
    <3>1. posts[n].arming \in 1..Len(armings) /\ posts[n].rev \in Nat /\ posts[n].intent \in Intents
      BY RowTypes DEF Submission
    <3>. QED
      BY <1>2, <3>1 DEF PostsOK, AuthorityChange
  <2>. QED
    BY <1>1, <2>1 DEF PostsOK, SpentRev
<1>7. IntentsOK'
  BY <1>1 DEF AuthorityChange, IntentsOK
<1>8. RunsOK'
  <2>1. \A r \in DOMAIN runs : Stopped(r) => Stopped(r)'
    BY <1>1 DEF AuthorityChange, Stopped, Settled
  <2>2. \A r \in DOMAIN runs : runs[r].arming \in 0..Len(armings)
    BY RowTypes DEF AcceptanceRun
  <2>3. \A r \in DOMAIN runs : \A i \in Intents : intents'[i].run = r => intents[i].run = r
    BY DEF AuthorityChange
  <2>4. \A r \in DOMAIN runs : runs[r].out = "CANARY_COMPLETE" =>
          armings'[runs[r].arming].ended = "CONSUMED"
    BY <1>1, <2>2 DEF AuthorityChange, RunsOK
  <2>. QED
    BY <1>1, <2>1, <2>3, <2>4 DEF RunsOK, Stopped, Settled
<1>. QED
  BY <1>3, <1>4, <1>5, <1>6, <1>7, <1>8 DEF AuthorityChange

(* Revoking an approval moves it on. *)
LEMMA RevokedMoves ==
  ASSUME appr \in [Capabilities -> Approval], NEW c \in Capabilities
  PROVE  Moves(appr, Revoked(c))
<1>. DEFINE a == appr[c]
            n == appr[c].rev + 1
            new == [a EXCEPT !.status = "REVOKED", !.rev = n]
<1>1. a \in Approval /\ n \in Nat
  BY DEF Approval
<1>2. Revoked(c) = [appr EXCEPT ![c] = new]
  BY DEF Revoked
<1>3. new \in Approval /\ new.rev = n
  <2>. HIDE DEF a, n
  <2>. QED
    BY <1>1 DEF Approval, ApprovalStatuses
<1>4. n = appr[c].rev + 1 /\ appr[c].rev \in Nat
  BY <1>1 DEF Approval
<1>. HIDE DEF new, n, a
<1>. QED
  BY <1>2, <1>3, <1>4 DEF Moves, Capabilities

(* An account row rewritten in place. *)
LEMMA AccountRow ==
  ASSUME TypeOK
  PROVE  /\ acct \in [status : Statuses, open : BOOLEAN, active : {0, acct.active}]
         /\ \A s \in Statuses :
              LET t == [acct EXCEPT !.status = s, !.open = FALSE]
              IN  /\ t \in [status : Statuses, open : BOOLEAN, active : {0, acct.active}]
                  /\ t.active = acct.active
         /\ \A s \in Statuses :
              LET t == [acct EXCEPT !.status = s]
              IN  /\ t \in [status : Statuses, open : BOOLEAN, active : {0, acct.active}]
                  /\ t.active = acct.active
         /\ Disarmed \in [status : Statuses, open : BOOLEAN, active : {0, acct.active}]
         /\ Disarmed.active = 0
<1>1. acct \in [status : Statuses, open : BOOLEAN, active : 0..Len(armings)]
  BY DEF TypeOK
<1>. QED
  BY <1>1 DEF Disarmed

(* The rows left as they are. *)
LEMMA Unmoved ==
  ASSUME TypeOK
  PROVE  /\ Moves(appr, appr)
         /\ armings \in Seq(Arming)
         /\ intents \in [Intents -> Intent]
         /\ acct.active # 0 => armings[acct.active].ended = "none"
         /\ acct.active \in 0..Len(armings)
         /\ entries \in BOOLEAN /\ policy \in BOOLEAN
         /\ cred \in {"ACTIVE", "NEEDS_VERIFICATION", "INVALID", "REVOKED"}
         /\ drain \in {"none", "pending", "drained", "attention"}
         /\ mon \in {"idle", "EXPIRED", "INVALIDATED"}
         /\ ops \in Requests
  BY ApprovalsMove DEF TypeOK

(* A request that waits for the broker, or for its commit, concerns no run. *)
LEMMA RequestRow ==
  ASSUME IInv, UNCHANGED runs,
         \/ \E v \in {"none", "calling", "outdated"} : ops' = [ops EXCEPT !.verify = v]
         \/ \E n \in Nat : ops' = [ops EXCEPT !.revoke = n]
         \/ UNCHANGED ops
  PROVE  ops' \in Requests /\ OpsOK'
<1>1. ops \in Requests
  BY DEF IInv, TypeOK
<1>2. /\ ops' \in Requests
      /\ ops'.abort = ops.abort /\ ops'.aborting = ops.aborting
      /\ ops'.verdict = ops.verdict /\ ops'.judging = ops.judging
  BY <1>1 DEF Requests
<1>. QED
  BY <1>2 DEF IInv, OpsOK

(* A disarming transaction, under whatever name, is a change of authority. *)
LEMMA CloseKeeps ==
  ASSUME TypeOK, NEW type \in Endings, closeEntryAuthority(type)
  PROVE  /\ acct' \in [status : Statuses, open : BOOLEAN, active : {0, acct.active}]
         /\ acct'.active = 0
         /\ entries' \in BOOLEAN
         /\ armings' \in Seq(Arming) /\ Len(armings') = Len(armings)
         /\ \A a \in 1..Len(armings) :
              armings[a].ended # "none" => armings'[a].ended = armings[a].ended
         /\ intents' \in [Intents -> Intent]
         /\ \A i \in Intents :
              /\ intents'[i].run = intents[i].run
              /\ \/ intents'[i].st = intents[i].st
                 \/ intents[i].st \in {"received", "pending"} /\ intents'[i].st = "stopped"
<1>1. /\ acct' = Disarmed /\ entries' = FALSE
      /\ intents' = blockEntryIntents({"received", "pending"}) /\ armings' = terminateArming(type)
  BY DEF closeEntryAuthority
<1>2. entries' \in BOOLEAN
  BY <1>1, Zenon
<1>3. acct' \in [status : Statuses, open : BOOLEAN, active : {0, acct.active}] /\ acct'.active = 0
  BY <1>1, AccountRow
<1>. QED
  BY <1>1, <1>2, <1>3, TerminateKeeps, BlockKeeps

(* An administrator's step changes nothing but authority. *)
LEMMA AccountStepChange ==
  ASSUME IInv, AccountStep
  PROVE  AuthorityChange
<1>1. TypeOK /\ DrainOK /\ OpsOK /\ IInv
  BY DEF IInv
<1>. DEFINE AcctType == [status : Statuses, open : BOOLEAN, active : {0, acct.active}]
<1>2. /\ acct \in AcctType /\ Disarmed \in AcctType /\ Disarmed.active = 0
      /\ \A s \in Statuses : /\ [acct EXCEPT !.status = s, !.open = FALSE] \in AcctType
                             /\ [acct EXCEPT !.status = s, !.open = FALSE].active = acct.active
      /\ \A s \in Statuses : /\ [acct EXCEPT !.status = s] \in AcctType
                             /\ [acct EXCEPT !.status = s].active = acct.active
  BY <1>1, AccountRow
<1>3. appr \in [Capabilities -> Approval]
  BY <1>1 DEF TypeOK
<1>18. acct.active # 0 => acct.active \in 1..Len(armings)
  <2>1. acct.active \in 0..Len(armings) /\ Len(armings) \in Nat
    BY <1>1, Unmoved, RowTypes
  <2>. QED
    BY <2>1
<1>. HIDE DEF AcctType
<1>4. CASE EditEntryConfiguration
  <2>1. ops' \in Requests /\ OpsOK'
    BY <1>1, <1>4, RequestRow DEF EditEntryConfiguration
  <2>2. Moves(appr, appr')
    BY <1>3, <1>4, ApprovalsMove DEF EditEntryConfiguration
  <2>3. /\ armings' \in Seq(Arming) /\ Len(armings') = Len(armings)
        /\ \A a \in 1..Len(armings) : armings'[a].ended = armings[a].ended
    BY <1>1, <1>4, OutdatedArmingKeeps DEF EditEntryConfiguration
  <2>5. acct' = acct /\ acct \in AcctType /\ (acct.active # 0 => acct.active \in 1..Len(armings))
    BY <1>2, <1>4, <1>18 DEF EditEntryConfiguration
  <2>. QED
    BY <1>1, <1>4, <2>1, <2>2, <2>3, <2>5, Unmoved
    DEF EditEntryConfiguration, AuthorityChange, AcctType, DrainOK
<1>5. CASE EditExitConfiguration
  <2>1. ops' \in Requests /\ OpsOK'
    BY <1>1, <1>5, RequestRow DEF EditExitConfiguration
  <2>2. Moves(appr, appr')
    BY <1>3, <1>5, ApprovalsMove DEF EditExitConfiguration
  <2>3. /\ armings' \in Seq(Arming) /\ Len(armings') = Len(armings)
        /\ \A a \in 1..Len(armings) : armings'[a].ended = armings[a].ended
    BY <1>1, <1>5, OutdatedArmingKeeps DEF EditExitConfiguration
  <2>5. acct' = acct /\ acct \in AcctType /\ (acct.active # 0 => acct.active \in 1..Len(armings))
    BY <1>2, <1>5, <1>18 DEF EditExitConfiguration
  <2>. QED
    BY <1>1, <1>5, <2>1, <2>2, <2>3, <2>5, Unmoved
    DEF EditExitConfiguration, AuthorityChange, AcctType, DrainOK
<1>6. CASE updateTradingAccountSubscriptionForAdmin
  <2>1. ops' \in Requests /\ OpsOK'
    BY <1>1, <1>6, RequestRow DEF updateTradingAccountSubscriptionForAdmin
  <2>2. Moves(appr, appr')
    BY <1>3, <1>6, ApprovalsMove DEF updateTradingAccountSubscriptionForAdmin
  <2>3. /\ armings' \in Seq(Arming) /\ Len(armings') = Len(armings)
        /\ \A a \in 1..Len(armings) : armings'[a].ended = armings[a].ended
    BY <1>1, <1>6, OutdatedArmingKeeps DEF updateTradingAccountSubscriptionForAdmin
  <2>4. entries' \in BOOLEAN
    BY <1>1, <1>6, Unmoved DEF updateTradingAccountSubscriptionForAdmin
  <2>5. acct' = acct /\ acct \in AcctType /\ (acct.active # 0 => acct.active \in 1..Len(armings))
    BY <1>2, <1>6, <1>18 DEF updateTradingAccountSubscriptionForAdmin
  <2>. QED
    BY <1>1, <1>6, <2>1, <2>2, <2>3, <2>5, <2>4, Unmoved
    DEF updateTradingAccountSubscriptionForAdmin, AuthorityChange, AcctType, DrainOK
<1>7. CASE upsertTradingAccountApiKeyCredential
  <2>1. ops' \in Requests /\ OpsOK'
    BY <1>1, <1>7, RequestRow DEF upsertTradingAccountApiKeyCredential, CredentialWritten
  <2>2. Moves(appr, appr')
    BY <1>3, <1>7, ApprovalsMove DEF upsertTradingAccountApiKeyCredential, CredentialWritten
  <2>. QED
    BY <1>1, <1>2, <1>7, <2>1, <2>2, Unmoved, OutdatedArmingKeeps
    DEF upsertTradingAccountApiKeyCredential, CredentialWritten, AuthorityChange, AcctType, DrainOK, Statuses
<1>8. CASE revokeTradingAccountCredential
  <2>1. ops' \in Requests /\ OpsOK'
    BY <1>1, <1>8, RequestRow DEF revokeTradingAccountCredential, CredentialWritten
  <2>2. Moves(appr, appr')
    BY <1>3, <1>8, ApprovalsMove DEF revokeTradingAccountCredential, CredentialWritten
  <2>. QED
    BY <1>1, <1>2, <1>8, <2>1, <2>2, Unmoved, OutdatedArmingKeeps
    DEF revokeTradingAccountCredential, CredentialWritten, AuthorityChange, AcctType, DrainOK, Statuses
<1>9. CASE VerifyCredentialStart
  <2>1. ops' \in Requests /\ OpsOK'
    BY <1>1, <1>9, RequestRow DEF VerifyCredentialStart
  <2>2. Moves(appr, appr')
    BY <1>3, <1>9, ApprovalsMove DEF VerifyCredentialStart
  <2>3. CASE UNCHANGED <<acct, entries, intents, armings, appr, drain>>
    BY <1>1, <1>2, <1>9, <2>1, <2>2, <2>3, Unmoved
    DEF VerifyCredentialStart, AuthorityChange, AcctType, DrainOK
  <2>4. CASE closeEntryAuthority("DISARMED") /\ drain' = "pending"
    <3>1. "DISARMED" \in Endings
      BY DEF Endings
    <3>. QED
      BY <1>1, <1>9, <2>1, <2>2, <2>4, <3>1, Unmoved, CloseKeeps
      DEF VerifyCredentialStart, AuthorityChange
  <2>. QED
    BY <1>9, <2>3, <2>4 DEF VerifyCredentialStart
<1>10. CASE VerifyCredentialFinish
  <2>1. ops' \in Requests /\ OpsOK'
    BY <1>1, <1>10, RequestRow DEF VerifyCredentialFinish
  <2>2. Moves(appr, appr')
    BY <1>3, <1>10, ApprovalsMove, OutdatedMoves DEF VerifyCredentialFinish, CredentialWritten
  <2>3. acct' \in AcctType /\ acct'.active = acct.active
    <3>1. CASE acct' = acct
      BY <1>2, <3>1
    <3>2. CASE acct' = [acct EXCEPT !.status = "ERROR", !.open = FALSE]
      BY <1>2, <3>2 DEF Statuses
    <3>3. CASE acct' = [acct EXCEPT !.status = IF @ = "ACTIVE" /\ ~acct.open THEN @ ELSE "PAUSED",
                                    !.open = FALSE]
      <4>1. PICK st \in Statuses : acct' = [acct EXCEPT !.status = st, !.open = FALSE]
        BY <3>3 DEF Statuses
      <4>2. /\ [acct EXCEPT !.status = st, !.open = FALSE] \in AcctType
            /\ [acct EXCEPT !.status = st, !.open = FALSE].active = acct.active
        BY <1>2
      <4>. QED
        BY <4>1, <4>2
    <3>. QED
      BY <1>10, <3>1, <3>2, <3>3 DEF VerifyCredentialFinish
  <2>4. /\ armings' \in Seq(Arming) /\ Len(armings') = Len(armings)
        /\ \A a \in 1..Len(armings) : armings'[a].ended = armings[a].ended
        /\ cred' \in {"ACTIVE", "NEEDS_VERIFICATION", "INVALID", "REVOKED"}
    BY <1>1, <1>10, Unmoved, OutdatedArmingKeeps DEF VerifyCredentialFinish, CredentialWritten
  <2>. QED
    BY <1>1, <1>10, <2>1, <2>2, <2>3, <2>4, Unmoved
    DEF VerifyCredentialFinish, AuthorityChange, AcctType, DrainOK
<1>11. CASE deactivateTradingAccountForAdmin
  <2>1. ops' \in Requests /\ OpsOK'
    BY <1>1, <1>11, RequestRow DEF deactivateTradingAccountForAdmin
  <2>2. Moves(appr, appr')
    BY <1>3, <1>11, ApprovalsMove DEF deactivateTradingAccountForAdmin
  <2>3. entries' \in BOOLEAN
    BY <1>11, Zenon DEF deactivateTradingAccountForAdmin
  <2>4. acct' \in AcctType /\ acct'.active = acct.active
    BY <1>2, <1>11 DEF deactivateTradingAccountForAdmin, Statuses
  <2>5. /\ armings' \in Seq(Arming) /\ Len(armings') = Len(armings)
        /\ \A a \in 1..Len(armings) : armings'[a].ended = armings[a].ended
    BY <1>1, <1>11, Unmoved, OutdatedArmingKeeps DEF deactivateTradingAccountForAdmin
  <2>6. intents' = blockEntryIntents({"pending"})
    BY <1>11 DEF deactivateTradingAccountForAdmin
  <2>. QED
    BY <1>1, <1>11, <2>1, <2>2, <2>3, <2>4, <2>5, <2>6, Unmoved, BlockKeeps
    DEF deactivateTradingAccountForAdmin, AuthorityChange, AcctType, DrainOK
<1>12. CASE activateTradingAccountForAdmin
  <2>1. ops' \in Requests /\ OpsOK'
    BY <1>1, <1>12, RequestRow DEF activateTradingAccountForAdmin
  <2>2. Moves(appr, appr')
    BY <1>3, <1>12, ApprovalsMove DEF activateTradingAccountForAdmin
  <2>. QED
    BY <1>1, <1>2, <1>12, <2>1, <2>2, Unmoved
    DEF activateTradingAccountForAdmin, AuthorityChange, AcctType, DrainOK, Statuses
<1>13. ASSUME NEW c \in Capabilities, grantLiveWriteApproval(c)
       PROVE  AuthorityChange
  <2>1. ops' \in Requests /\ OpsOK'
    BY <1>1, <1>13, RequestRow DEF grantLiveWriteApproval
  <2>2. Moves(appr, appr')
    <3>. DEFINE new == [status |-> "GRANTED", rev |-> appr[c].rev + 1, fresh |-> TRUE, expired |-> FALSE]
    <3>1. appr' = [appr EXCEPT ![c] = new]
      BY <1>13 DEF grantLiveWriteApproval
    <3>2. new \in Approval /\ new.rev = appr[c].rev + 1 /\ appr[c].rev \in Nat
      BY <1>3 DEF Approval, ApprovalStatuses
    <3>. HIDE DEF new
    <3>. QED
      BY <1>3, <3>1, <3>2 DEF Moves, Capabilities
  <2>. QED
    BY <1>1, <1>2, <1>13, <2>1, <2>2, Unmoved
    DEF grantLiveWriteApproval, AuthorityChange, AcctType, DrainOK
<1>14. ASSUME NEW c \in Capabilities, Expire(c)
       PROVE  AuthorityChange
  <2>1. ops' \in Requests /\ OpsOK'
    BY <1>1, <1>14, RequestRow DEF Expire
  <2>2. Moves(appr, appr')
    <3>. DEFINE new == [appr[c] EXCEPT !.expired = TRUE]
    <3>1. appr' = [appr EXCEPT ![c] = new]
      BY <1>14 DEF Expire
    <3>2. appr[c] \in Approval
      BY <1>3
    <3>3. new \in Approval /\ new.rev = appr[c].rev /\ new.fresh = appr[c].fresh
      BY <3>2 DEF Approval
    <3>. HIDE DEF new
    <3>. QED
      BY <1>3, <3>1, <3>3 DEF Moves, Capabilities
  <2>. QED
    BY <1>1, <1>2, <1>14, <2>1, <2>2, Unmoved
    DEF Expire, AuthorityChange, AcctType, DrainOK
<1>15. CASE revokeEntryApproval
  <2>1. ops' \in Requests /\ OpsOK'
    BY <1>1, <1>15, RequestRow DEF revokeEntryApproval
  <2>2. Moves(appr, appr')
    BY <1>3, <1>15, RevokedMoves DEF revokeEntryApproval, Capabilities
  <2>. QED
    BY <1>1, <1>2, <1>15, <2>1, <2>2, Unmoved
    DEF revokeEntryApproval, AuthorityChange, AcctType, DrainOK
<1>16. CASE revokeRiskApprovalCheck
  <2>0. appr["RISK"].rev \in Nat
    BY <1>3 DEF Approval, Capabilities
  <2>1. ops' \in Requests /\ OpsOK'
    BY <1>1, <1>16, <2>0, RequestRow DEF revokeRiskApprovalCheck
  <2>2. Moves(appr, appr')
    BY <1>3, <1>16, ApprovalsMove DEF revokeRiskApprovalCheck
  <2>. QED
    BY <1>1, <1>2, <1>16, <2>1, <2>2, Unmoved
    DEF revokeRiskApprovalCheck, AuthorityChange, AcctType, DrainOK
<1>17. CASE revokeRiskApprovalCommit
  <2>1. ops' \in Requests /\ OpsOK'
    BY <1>1, <1>17, RequestRow DEF revokeRiskApprovalCommit
  <2>2. Moves(appr, appr')
    BY <1>3, <1>17, RevokedMoves, ApprovalsMove DEF revokeRiskApprovalCommit, Capabilities
  <2>. QED
    BY <1>1, <1>2, <1>17, <2>1, <2>2, Unmoved
    DEF revokeRiskApprovalCommit, AuthorityChange, AcctType, DrainOK
<1>. QED
  BY <1>4, <1>5, <1>6, <1>7, <1>8, <1>9, <1>10, <1>11, <1>12, <1>13, <1>14, <1>15, <1>16, <1>17
  DEF AccountStep

(* A disarm keeps the invariant, whatever request it belongs to. *)
LEMMA DisarmChange ==
  ASSUME IInv, NEW type \in Endings, DisarmTransaction(type),
         UNCHANGED <<cred, policy, broker, posts, runs, wk>>,
         mon' \in {"idle", "EXPIRED", "INVALIDATED"}, ops' \in Requests, OpsOK'
  PROVE  AuthorityChange
<1>1. TypeOK
  BY DEF IInv
<1>2. Moves(appr, appr')
  BY <1>1, ApprovalsMove DEF DisarmTransaction, TypeOK
<1>. QED
  BY <1>1, <1>2, Unmoved, CloseKeeps DEF DisarmTransaction, AuthorityChange

(* Staging, disarming, the monitor and the loss of the process change     *)
(* nothing but authority.                                                  *)
LEMMA ArmingStepChange ==
  ASSUME IInv,
         \/ stageLiveEntryCanary \/ disarmLiveEntries \/ acquireDrain
         \/ monitorLiveEntryArmings \/ MonitorDisarm \/ Restart
  PROVE  AuthorityChange
<1>1. TypeOK /\ DrainOK /\ OpsOK /\ IInv
  BY DEF IInv
<1>2. acct \in [status : Statuses, open : BOOLEAN, active : {0, acct.active}]
  BY <1>1, AccountRow
<1>3. UNCHANGED <<ops, runs>> => ops' \in Requests /\ OpsOK'
  BY <1>1, RequestRow
<1>4. CASE stageLiveEntryCanary
  <2>1. /\ acct' = Disarmed /\ armings' = terminateArming("INVALIDATED")
        /\ intents' = blockEntryIntents({"received", "pending"}) /\ entries' = TRUE
    BY <1>4 DEF stageLiveEntryCanary
  <2>2. Moves(appr, appr')
    BY <1>1, <1>4, ApprovalsMove DEF stageLiveEntryCanary, TypeOK
  <2>3. /\ acct' \in [status : Statuses, open : BOOLEAN, active : {0, acct.active}]
        /\ acct'.active = 0
    BY <1>1, <2>1, AccountRow
  <2>4. entries' \in BOOLEAN
    BY <2>1, Zenon
  <2>5. "INVALIDATED" \in Endings
    BY DEF Endings
  <2>6. /\ armings' \in Seq(Arming) /\ Len(armings') = Len(armings)
        /\ \A a \in 1..Len(armings) :
             armings[a].ended # "none" => armings'[a].ended = armings[a].ended
    BY <1>1, <2>1, <2>5, TerminateKeeps
  <2>7. drain' = drain /\ wk' = wk /\ mon' = mon /\ UNCHANGED <<posts, runs, broker, cred, policy, ops>>
    BY <1>4 DEF stageLiveEntryCanary
  <2>. QED
    BY <1>1, <1>3, <2>1, <2>2, <2>3, <2>4, <2>6, <2>7, Unmoved, BlockKeeps DEF AuthorityChange
<1>5. CASE disarmLiveEntries
  BY <1>1, <1>3, <1>5, DisarmChange, Unmoved DEF disarmLiveEntries, Endings
<1>6. CASE acquireDrain
  <2>1. UNCHANGED <<acct, entries, cred, policy, appr, armings, intents, broker, posts,
                    runs, wk, mon, ops>>
    BY <1>6 DEF acquireDrain
  <2>2. drain = "pending" /\ drain' = IF wk.pc = "idle" THEN "drained" ELSE "attention"
    BY <1>6 DEF acquireDrain
  <2>. QED
    BY <1>1, <1>2, <1>3, <2>1, <2>2, Unmoved DEF AuthorityChange, DrainOK
<1>7. CASE monitorLiveEntryArmings
  <2>1. UNCHANGED <<acct, entries, cred, policy, appr, armings, intents, broker, posts,
                    runs, wk, drain, ops>>
    BY <1>7 DEF monitorLiveEntryArmings
  <2>2. mon' \in {"EXPIRED", "INVALIDATED"}
    BY <1>7 DEF monitorLiveEntryArmings
  <2>. QED
    BY <1>1, <1>2, <1>3, <2>1, <2>2, Unmoved DEF AuthorityChange, DrainOK
<1>8. CASE MonitorDisarm
  <2>1. mon \in Endings
    BY <1>1, <1>8, Unmoved DEF MonitorDisarm, Endings
  <2>. QED
    BY <1>1, <1>3, <1>8, <2>1, DisarmChange DEF MonitorDisarm
<1>9. CASE Restart
  <2>1. UNCHANGED <<acct, entries, cred, appr, armings, intents, broker, posts, runs>>
    BY <1>9 DEF Restart
  <2>2. /\ policy' \in BOOLEAN /\ wk' = Idle /\ mon' = "idle"
        /\ drain' = IF drain = "pending" THEN "none" ELSE drain
    BY <1>9 DEF Restart
  <2>3. ops' = NoOps
    BY <1>9 DEF Restart
  <2>4. ops' \in Requests
    <3>1. Len(runs) \in Nat
      BY <1>1, RowTypes
    <3>. QED
      BY <2>3, <3>1 DEF NoOps, Requests
  <2>5. OpsOK'
    BY <2>3 DEF NoOps, OpsOK
  <2>. QED
    BY <1>1, <1>2, <2>1, <2>2, <2>4, <2>5, Unmoved DEF AuthorityChange, DrainOK
<1>. QED
  BY <1>4, <1>5, <1>6, <1>7, <1>8, <1>9

(* An abort's steps before it writes change nothing but authority. *)
LEMMA AbortStepChange ==
  ASSUME IInv, AbortRead \/ AbortDisarm \/ AbortPosture
  PROVE  AuthorityChange
<1>1. TypeOK /\ DrainOK /\ OpsOK /\ IInv
  BY DEF IInv
<1>2. acct \in [status : Statuses, open : BOOLEAN, active : {0, acct.active}]
  BY <1>1, AccountRow
<1>3. ops \in Requests /\ Len(runs) \in Nat
  BY <1>1, Unmoved, RowTypes
<1>4. runs' = runs
  BY DEF AbortRead, AbortDisarm, AbortPosture
<1>5. ASSUME NEW a \in {"none", "read", "disarmed", "safe"}, NEW r \in 0..Len(runs),
             a # "none" => r # 0, ops' = [ops EXCEPT !.abort = a, !.aborting = r]
      PROVE  ops' \in Requests /\ OpsOK'
  <2>1. /\ ops' \in Requests /\ ops'.abort = a /\ ops'.aborting = r
        /\ ops'.verdict = ops.verdict /\ ops'.judging = ops.judging
    BY <1>3, <1>5 DEF Requests
  <2>. QED
    BY <1>1, <1>4, <1>5, <2>1 DEF OpsOK
<1>6. ASSUME NEW a \in {"none", "read", "disarmed", "safe"}, ops' = [ops EXCEPT !.abort = a],
             ops.abort # "none"
      PROVE  ops' \in Requests /\ OpsOK'
  <2>1. /\ ops' \in Requests /\ ops'.abort = a /\ ops'.aborting = ops.aborting
        /\ ops'.verdict = ops.verdict /\ ops'.judging = ops.judging
    BY <1>3, <1>6 DEF Requests
  <2>. QED
    BY <1>1, <1>4, <1>6, <2>1 DEF OpsOK
<1>7. CASE AbortRead
  <2>1. UNCHANGED <<acct, entries, cred, policy, appr, armings, intents, broker, posts,
                    runs, wk, drain, mon>>
    BY <1>7 DEF AbortRead, RequestFrame
  <2>2. LatestRun \in 0..Len(runs) /\ LatestRun # 0
    BY <1>3, <1>7 DEF AbortRead, LatestRun
  <2>3. ops' \in Requests /\ OpsOK'
    BY <1>5, <1>7, <2>2 DEF AbortRead
  <2>. QED
    BY <1>1, <1>2, <2>1, <2>3, Unmoved DEF AuthorityChange, DrainOK
<1>8. CASE AbortDisarm
  <2>1. ops' \in Requests /\ OpsOK'
    BY <1>6, <1>8 DEF AbortDisarm
  <2>. QED
    BY <1>1, <1>8, <2>1, DisarmChange, Unmoved DEF AbortDisarm, RequestFrame, Endings
<1>9. CASE AbortPosture
  <2>1. UNCHANGED <<acct, entries, cred, policy, appr, armings, intents, broker, posts,
                    runs, wk, drain, mon>>
    BY <1>9 DEF AbortPosture, RequestFrame
  <2>2. ops' = [ops EXCEPT !.abort = "safe"] \/ ops' = [ops EXCEPT !.abort = "none", !.aborting = 0]
    BY <1>9 DEF AbortPosture
  <2>3. ops.abort # "none" /\ 0 \in 0..Len(runs)
    BY <1>3, <1>9 DEF AbortPosture
  <2>4. ops' \in Requests /\ OpsOK'
    BY <1>5, <1>6, <2>2, <2>3
  <2>. QED
    BY <1>1, <1>2, <2>1, <2>4, Unmoved DEF AuthorityChange, DrainOK
<1>. QED
  BY <1>7, <1>8, <1>9

-----------------------------------------------------------------------------
(* Steps that move intents on and leave authority, wire and broker alone.  *)

(* Where an intent's status may go in one such step. *)
IntentMove(i) ==
  /\ intents'[i].run = intents[i].run
  /\ \/ intents'[i].st = intents[i].st
     \/ intents[i].st = "received" /\ intents'[i].st \in {"pending", "stopped"}
     \/ intents[i].st = "pending" /\ intents'[i].st = "submitting"
     \/ intents[i].st = "submitting" /\ intents'[i].st \in {"submitted", "stopped"}
     \/ intents[i].st = "submitted" /\ intents'[i].st = "canceled"
     \/ intents[i].st = "submitted" /\ intents'[i].st = "filled" /\ broker[i] = "filled"

(* What such a step may do: a run is called safely failed only when its    *)
(* intent stops, and the worker works on what is submitting.               *)
IntentChange ==
  /\ UNCHANGED <<acct, entries, cred, policy, appr, armings, posts, broker, drain, mon>>
  /\ intents' \in [Intents -> Intent]
  /\ \A i \in Intents : IntentMove(i)
  /\ runs' \in Seq(AcceptanceRun) /\ Len(runs') = Len(runs)
  /\ \A r \in 1..Len(runs) :
       /\ runs'[r].arming = runs[r].arming /\ runs'[r].claimed = runs[r].claimed
       /\ runs'[r].out = runs[r].out
       /\ runs'[r].fail = "safe" => runs[r].fail = "safe" \/ (runs[r].claimed /\ Stopped(r)')
  /\ \/ wk' = Idle
     \/ wk' = wk /\ (wk.pc # "idle" => intents'[wk.i].st = intents[wk.i].st)
     \/ \E i \in Intents : /\ intents[i].st = "pending" /\ intents'[i].st = "submitting"
                           /\ wk' = [pc |-> "claimed", i |-> i]
  /\ ops' \in Requests
  /\ ops'.abort # "none" => ops'.aborting # 0
  /\ ops'.verdict # "none" => ops'.judging # 0 /\ runs[ops'.judging].claimed

(* Such a step keeps the invariant. *)
LEMMA IntentKeeps ==
  ASSUME IInv, IntentChange
  PROVE  IInv'
<1>. USE DEF IInv
<1>1. /\ Len(armings) \in Nat /\ Len(runs) \in Nat /\ Len(runs') = Len(runs)
      /\ posts' = posts /\ armings' = armings /\ appr' = appr /\ broker' = broker
      /\ DOMAIN runs = 1..Len(runs)
  BY RowTypes DEF IntentChange
<1>2. DOMAIN runs' = 1..Len(runs)
  BY <1>1, LenProperties DEF IntentChange
<1>3. \A i \in Intents : intents'[i].run = intents[i].run
  BY DEF IntentChange, IntentMove
<1>4. TypeOK'
  <2>1. /\ Arming' = Arming /\ Intent' = Intent /\ AcceptanceRun' = AcceptanceRun
        /\ Submission' = Submission /\ Worker' = Worker /\ Requests' = Requests
    BY <1>1 DEF Arming, Intent, AcceptanceRun, Submission, Worker, Requests, Outcomes, Nonterminal
  <2>2. /\ acct' \in [status : Statuses, open : BOOLEAN, active : 0..Len(armings')]
        /\ entries' \in BOOLEAN /\ policy' \in BOOLEAN
        /\ cred' \in {"ACTIVE", "NEEDS_VERIFICATION", "INVALID", "REVOKED"}
        /\ appr' \in [Capabilities -> Approval]
        /\ armings' \in Seq(Arming)
        /\ acct'.active # 0 => armings'[acct'.active].ended = "none"
        /\ broker' \in [Intents -> {"none", "sent", "open", "filled", "dead"}]
        /\ posts' \in Seq(Submission)
        /\ drain' \in {"none", "pending", "drained", "attention"}
        /\ mon' \in {"idle", "EXPIRED", "INVALIDATED"}
    BY DEF IntentChange, TypeOK
  <2>3. wk' \in Worker
    <3>1. wk \in Worker
      BY DEF TypeOK
    <3>. QED
      BY <3>1 DEF IntentChange, Worker, Idle
  <2>4. \A r \in 1..Len(runs) :
          /\ runs'[r].claimed => \E i \in Intents : intents'[i].run = r
          /\ r < Len(runs) => runs'[r].out # "none"
    BY <1>1, <1>3, RunRows DEF IntentChange
  <2>5. (\A r \in DOMAIN runs :
          /\ runs[r].claimed => \E i \in Intents : intents[i].run = r
          /\ r < Len(runs) => runs[r].out # "none")'
    BY <1>1, <1>2, <2>4
  <2>6. intents' \in [Intents -> Intent] /\ runs' \in Seq(AcceptanceRun) /\ ops' \in Requests
    BY DEF IntentChange
  <2>. QED
    BY <2>1, <2>2, <2>3, <2>5, <2>6 DEF TypeOK, Approval
<1>5. DrainOK'
  BY DEF IntentChange, DrainOK, Idle
<1>6. WorkerOK'
  <2>1. CASE wk' = Idle
    BY <2>1 DEF WorkerOK, Idle
  <2>2. CASE wk' = wk /\ (wk.pc # "idle" => intents'[wk.i].st = intents[wk.i].st)
    BY <1>1, <2>2 DEF WorkerOK, SpentRev, Settled, Posted
  <2>3. ASSUME NEW i \in Intents, intents[i].st = "pending", intents'[i].st = "submitting",
               wk' = [pc |-> "claimed", i |-> i]
        PROVE  WorkerOK'
    <3>1. broker[i] = "none"
      BY <2>3 DEF IntentsOK
    <3>2. ~ Posted(i)
      BY <2>3, RowTypes DEF PostsOK, Posted
    <3>3. ~ Posted(i)'
      BY <1>1, <3>2 DEF Posted
    <3>. QED
      BY <1>1, <2>3, <3>1, <3>3 DEF WorkerOK
  <2>. QED
    BY <2>1, <2>2, <2>3 DEF IntentChange
<1>7. PostsOK'
  <2>1. ASSUME NEW n \in DOMAIN posts
        PROVE  /\ intents'[posts[n].intent].st \notin {"none", "received", "pending"}
               /\ posts[n].run = intents'[posts[n].intent].run
    <3>1. posts[n].intent \in Intents
      BY RowTypes DEF Submission
    <3>. QED
      BY <3>1 DEF PostsOK, IntentChange, IntentMove
  <2>. QED
    BY <1>1, <2>1 DEF PostsOK, SpentRev
<1>8. IntentsOK'
  <2>1. ASSUME NEW i \in Intents, intents[i].run # 0
        PROVE  intents[i].run \in 1..Len(runs)
    <3>1. intents[i] \in Intent
      BY DEF TypeOK
    <3>. QED
      BY <1>1, <2>1, <3>1 DEF Intent
  <2>2. \A i \in Intents : intents[i].run # 0 => runs'[intents[i].run].claimed
    BY <2>1 DEF IntentsOK, IntentChange
  <2>3. ASSUME NEW i \in Intents
        PROVE  /\ intents'[i].st = "none" => intents[i].run = 0
               /\ intents'[i].st \in {"none", "received", "pending"} => broker[i] = "none"
               /\ intents'[i].st = "filled" => broker[i] = "filled"
    BY DEF IntentsOK, IntentChange, IntentMove
  <2>. QED
    BY <1>1, <1>3, <2>2, <2>3 DEF IntentsOK
<1>9. RunsOK'
  <2>1. \A r \in 1..Len(runs) : Stopped(r) => Stopped(r)'
    BY <1>1, <1>3 DEF IntentChange, IntentMove, Stopped, Settled
  <2>2. ASSUME NEW r \in 1..Len(runs)
        PROVE  /\ runs'[r].claimed => runs'[r].arming # 0
               /\ runs'[r].out = "OPERATOR_ABORTED" => ~ runs'[r].claimed
               /\ runs'[r].fail = "safe" => runs'[r].claimed
               /\ runs'[r].fail = "safe" \/ runs'[r].out = "FAILED_SAFE" => Stopped(r)'
               /\ runs'[r].out = "CANARY_COMPLETE" =>
                    /\ runs'[r].claimed /\ armings[runs'[r].arming].ended = "CONSUMED"
                    /\ \A i \in Intents : intents'[i].run = r => broker[i] = "filled"
    <3>1. /\ runs[r].claimed => runs[r].arming # 0
          /\ runs[r].out = "OPERATOR_ABORTED" => ~ runs[r].claimed
          /\ runs[r].fail = "safe" => runs[r].claimed
          /\ runs[r].fail = "safe" \/ runs[r].out = "FAILED_SAFE" => Stopped(r)
          /\ runs[r].out = "CANARY_COMPLETE" =>
               /\ runs[r].claimed /\ armings[runs[r].arming].ended = "CONSUMED"
               /\ \A i \in Intents : intents[i].run = r => broker[i] = "filled"
      BY <1>1 DEF RunsOK
    <3>2. /\ runs'[r].arming = runs[r].arming /\ runs'[r].claimed = runs[r].claimed
          /\ runs'[r].out = runs[r].out
          /\ runs'[r].fail = "safe" => runs[r].fail = "safe" \/ (runs[r].claimed /\ Stopped(r)')
      BY DEF IntentChange
    <3>. QED
      BY <1>3, <2>1, <3>1, <3>2
  <2>. QED
    BY <1>1, <1>2, <2>2 DEF RunsOK
<1>10. OpsOK'
  <2>1. ops' \in Requests
    BY DEF IntentChange
  <2>2. ops'.judging # 0 => ops'.judging \in 1..Len(runs)
    BY <1>1, <2>1 DEF Requests
  <2>. QED
    BY <2>2 DEF IntentChange, OpsOK
<1>. QED
  BY <1>4, <1>5, <1>6, <1>7, <1>8, <1>9, <1>10

(* Writing one intent's status changes no other intent, and no binding. *)
LEMMA SetKeeps ==
  ASSUME TypeOK, NEW i \in Intents, NEW held \in BOOLEAN,
         NEW st \in Nonterminal \cup {"none", "filled", "canceled", "stopped"}
  PROVE  /\ Set(i, st, held) \in [Intents -> Intent]
         /\ \A j \in Intents : /\ Set(i, st, held)[j].run = intents[j].run
                               /\ j # i => Set(i, st, held)[j].st = intents[j].st
         /\ Set(i, st, held)[i].st = st
<1>. DEFINE new == [intents[i] EXCEPT !.st = st, !.held = held]
<1>1. intents \in [Intents -> Intent]
  BY DEF TypeOK
<1>2. new \in Intent /\ new.run = intents[i].run /\ new.st = st
  <2>1. intents[i] \in Intent
    BY <1>1
  <2>. QED
    BY <2>1 DEF Intent
<1>3. Set(i, st, held) = [intents EXCEPT ![i] = new]
  BY DEF Set
<1>. HIDE DEF new
<1>. QED
  BY <1>1, <1>2, <1>3

(* The same of the step that writes it. *)
LEMMA SetMoved ==
  ASSUME TypeOK, NEW i \in Intents, NEW held \in BOOLEAN,
         NEW st \in {"pending", "submitting", "submitted", "stopped"}, intents' = Set(i, st, held)
  PROVE  /\ intents' \in [Intents -> Intent]
         /\ \A j \in Intents : /\ intents'[j].run = intents[j].run
                               /\ j # i => intents'[j].st = intents[j].st
         /\ intents'[i].st = st
<1>1. st \in Nonterminal \cup {"none", "filled", "canceled", "stopped"}
  BY DEF Nonterminal
<1>2. /\ Set(i, st, held) \in [Intents -> Intent]
      /\ \A j \in Intents : /\ Set(i, st, held)[j].run = intents[j].run
                            /\ j # i => Set(i, st, held)[j].st = intents[j].st
      /\ Set(i, st, held)[i].st = st
  BY <1>1, SetKeeps, Zenon
<1>. QED
  BY <1>2, Zenon

(* A failure is written to the intent's own run, and to nothing but its    *)
(* classification.                                                         *)
LEMMA RunFailureKeeps ==
  ASSUME TypeOK, NEW i \in Intents, NEW class \in {"none", "safe", "unsafe"}, NEW u \in BOOLEAN
  PROVE  /\ RunFailure(i, class, u) \in Seq(AcceptanceRun)
         /\ Len(RunFailure(i, class, u)) = Len(runs)
         /\ \A r \in 1..Len(runs) :
              /\ RunFailure(i, class, u)[r].arming = runs[r].arming
              /\ RunFailure(i, class, u)[r].claimed = runs[r].claimed
              /\ RunFailure(i, class, u)[r].out = runs[r].out
              /\ \/ RunFailure(i, class, u)[r].fail = runs[r].fail
                 \/ r = intents[i].run /\ RunFailure(i, class, u)[r].fail = class
<1>. DEFINE k == intents[i].run
            e == [runs[k] EXCEPT !.fail = class, !.uncertain = @ \/ u]
<1>0. k \in 0..Len(runs)
  <2>1. intents[i] \in Intent
    BY DEF TypeOK
  <2>. QED
    BY <2>1 DEF Intent
<1>1. runs \in Seq(AcceptanceRun)
  BY DEF TypeOK
<1>2. CASE k = 0 \/ runs[k].out # "none"
  BY <1>1, <1>2 DEF RunFailure
<1>3. CASE ~ (k = 0 \/ runs[k].out # "none")
  <2>1. k \in 1..Len(runs)
    BY <1>0, <1>3, RowTypes
  <2>2. runs[k] \in AcceptanceRun
    BY <2>1, RowTypes
  <2>3. /\ e \in AcceptanceRun /\ e.arming = runs[k].arming /\ e.claimed = runs[k].claimed
        /\ e.out = runs[k].out /\ e.fail = class
    BY <2>2 DEF AcceptanceRun
  <2>4. RunFailure(i, class, u) = [runs EXCEPT ![k] = e]
    BY <1>3 DEF RunFailure
  <2>5. k = intents[i].run
    OBVIOUS
  <2>. HIDE DEF k, e
  <2>. QED
    BY <1>1, <2>1, <2>3, <2>4, <2>5, ExceptSeq
<1>. QED
  BY <1>2, <1>3

(* The requests and runs a step leaves alone. *)
LEMMA RunsUnmoved ==
  ASSUME IInv
  PROVE  /\ ops \in Requests
         /\ ops.abort # "none" => ops.aborting # 0
         /\ ops.verdict # "none" => ops.judging # 0 /\ runs[ops.judging].claimed
         /\ runs \in Seq(AcceptanceRun)
  BY DEF IInv, TypeOK, OpsOK

(* An intent that stops with its delivery settled leaves its run safely    *)
(* failed: it is the run's only intent.                                    *)
LEMMA SafeFailure ==
  ASSUME IInv, NEW i \in Intents, NEW r, Settled(i), r # 0, intents[i].run = r,
         NEW h \in BOOLEAN, intents' = Set(i, "stopped", h), UNCHANGED <<broker, posts>>
  PROVE  runs[r].claimed /\ Stopped(r)'
<1>1. /\ runs[r].claimed
      /\ \A j \in Intents : intents[j].run = r => i = j
  BY DEF IInv, IntentsOK
<1>2. /\ \A j \in Intents : intents'[j].run = intents[j].run
      /\ intents'[i].st = "stopped"
  BY SetMoved DEF IInv
<1>. QED
  BY <1>1, <1>2 DEF Stopped, Settled

(* The worker stops its intent, and its run failed safe or is not told. *)
LEMMA StopChange ==
  ASSUME IInv, wk.pc # "idle", Settled(wk.i),
         NEW h \in BOOLEAN, intents' = Set(wk.i, "stopped", h), wk' = Idle,
         \/ runs' = RunFailure(wk.i, "safe", FALSE)
         \/ UNCHANGED runs,
         UNCHANGED <<acct, entries, cred, policy, appr, armings, broker, posts, drain, mon, ops>>
  PROVE  IntentChange
<1>1. TypeOK /\ WorkerOK
  BY DEF IInv
<1>2. wk.i \in Intents /\ intents[wk.i].st = "submitting"
  BY <1>1, WorkerTypes DEF WorkerOK
<1>3. PICK i \in Intents : i = wk.i
  BY <1>2
<1>4. /\ intents' \in [Intents -> Intent]
      /\ \A j \in Intents : IntentMove(j)
  BY <1>1, <1>2, SetMoved DEF IntentMove
<1>5. /\ runs' \in Seq(AcceptanceRun) /\ Len(runs') = Len(runs)
      /\ \A r \in 1..Len(runs) :
           /\ runs'[r].arming = runs[r].arming /\ runs'[r].claimed = runs[r].claimed
           /\ runs'[r].out = runs[r].out
           /\ runs'[r].fail = "safe" => runs[r].fail = "safe" \/ (runs[r].claimed /\ Stopped(r)')
  <2>1. CASE UNCHANGED runs
    BY <2>1, RunsUnmoved
  <2>2. CASE runs' = RunFailure(wk.i, "safe", FALSE)
    <3>1. PICK u \in BOOLEAN : u = FALSE
      BY Zenon
    <3>2. runs' = RunFailure(i, "safe", u)
      BY <1>3, <2>2, <3>1, Zenon
    <3>3. ASSUME NEW r \in 1..Len(runs), r = intents[i].run
          PROVE  runs[r].claimed /\ Stopped(r)'
      <4>1. r # 0
        BY <1>1, <3>3, RowTypes
      <4>. QED
        BY <1>3, <3>3, <4>1, SafeFailure
    <3>. QED
      BY <1>1, <3>2, <3>3, RunFailureKeeps
  <2>. QED
    BY <2>1, <2>2
<1>. QED
  BY <1>4, <1>5, RunsUnmoved DEF IntentChange

(* Order sync moves on submitted intents, to what the broker says. *)
LEMMA SyncedKeeps ==
  ASSUME TypeOK, intents' = Synced
  PROVE  /\ intents' \in [Intents -> Intent]
         /\ \A i \in Intents : IntentMove(i)
<1>. DEFINE st(i) == IF broker[i] = "filled" THEN "filled" ELSE "canceled"
            new(i) == [intents[i] EXCEPT !.st = st(i), !.held = broker[i] = "filled"]
<1>1. ASSUME NEW i \in Intents
      PROVE  new(i) \in Intent /\ new(i).run = intents[i].run /\ new(i).st = st(i)
  <2>1. intents[i] \in Intent
    BY DEF TypeOK
  <2>. DEFINE h == broker[i] = "filled"
              s == st(i)
  <2>2. h \in BOOLEAN /\ s \in {"filled", "canceled"}
    OBVIOUS
  <2>3. new(i) = [intents[i] EXCEPT !.st = s, !.held = h]
    OBVIOUS
  <2>4. s = st(i)
    OBVIOUS
  <2>. HIDE DEF h, s, new, st
  <2>. QED
    BY <2>1, <2>2, <2>3, <2>4 DEF Intent
<1>2. \A i \in Intents : intents'[i] = IF intents[i].st # "submitted" \/ broker[i] = "open"
                                       THEN intents[i] ELSE new(i)
  BY DEF Synced
<1>3. intents' = [i \in Intents |-> intents'[i]]
  BY DEF Synced
<1>4. ASSUME NEW i \in Intents
      PROVE  intents'[i] \in Intent /\ IntentMove(i)
  <2>1. intents[i] \in Intent
    BY DEF TypeOK
  <2>. HIDE DEF new
  <2>. QED
    BY <1>1, <1>2, <2>1 DEF IntentMove
<1>. QED
  BY <1>3, <1>4

(* A run that is previewed, or left unproven, keeps all that the invariant *)
(* reads but its classification.                                           *)
LEMMA RunEdits ==
  ASSUME TypeOK, NEW k \in 1..Len(runs),
         \/ runs' = [runs EXCEPT ![k].preview = TRUE]
         \/ runs' = [runs EXCEPT ![k].uncertain = TRUE, ![k].fail = "unsafe"]
  PROVE  /\ runs' \in Seq(AcceptanceRun) /\ Len(runs') = Len(runs)
         /\ \A r \in 1..Len(runs) :
              /\ runs'[r].arming = runs[r].arming /\ runs'[r].claimed = runs[r].claimed
              /\ runs'[r].out = runs[r].out
              /\ runs'[r].fail = "safe" => runs[r].fail = "safe"
<1>1. runs \in Seq(AcceptanceRun) /\ runs[k] \in AcceptanceRun
  BY RowTypes DEF TypeOK
<1>2. ASSUME NEW e \in AcceptanceRun, e.arming = runs[k].arming, e.claimed = runs[k].claimed,
             e.out = runs[k].out, e.fail = "safe" => runs[k].fail = "safe",
             runs' = [runs EXCEPT ![k] = e]
      PROVE  /\ runs' \in Seq(AcceptanceRun) /\ Len(runs') = Len(runs)
             /\ \A r \in 1..Len(runs) :
                  /\ runs'[r].arming = runs[r].arming /\ runs'[r].claimed = runs[r].claimed
                  /\ runs'[r].out = runs[r].out
                  /\ runs'[r].fail = "safe" => runs[r].fail = "safe"
  BY <1>1, <1>2, ExceptSeq
<1>3. CASE runs' = [runs EXCEPT ![k].preview = TRUE]
  <2>. DEFINE e == [runs[k] EXCEPT !.preview = TRUE]
  <2>1. runs' = [runs EXCEPT ![k] = e]
    BY <1>3
  <2>2. /\ e \in AcceptanceRun /\ e.arming = runs[k].arming /\ e.claimed = runs[k].claimed
        /\ e.out = runs[k].out /\ (e.fail = "safe" => runs[k].fail = "safe")
    BY <1>1 DEF AcceptanceRun
  <2>. HIDE DEF e
  <2>. QED
    BY <1>2, <2>1, <2>2
<1>4. CASE runs' = [runs EXCEPT ![k].uncertain = TRUE, ![k].fail = "unsafe"]
  <2>. DEFINE e == [runs[k] EXCEPT !.uncertain = TRUE, !.fail = "unsafe"]
  <2>1. runs' = [runs EXCEPT ![k] = e]
    BY <1>4
  <2>2. /\ e \in AcceptanceRun /\ e.arming = runs[k].arming /\ e.claimed = runs[k].claimed
        /\ e.out = runs[k].out /\ (e.fail = "safe" => runs[k].fail = "safe")
    BY <1>1 DEF AcceptanceRun
  <2>. HIDE DEF e
  <2>. QED
    BY <1>2, <2>1, <2>2
<1>. QED
  BY <1>3, <1>4

(* Every step of the worker but the entry's admission, its authorization   *)
(* and its POST moves intents on, and nothing else.                        *)
LEMMA WorkerStepChange ==
  ASSUME IInv,
         \/ \E i \in Intents : \/ ConcludeAdmission(i) \/ WorkerClaim(i)
                               \/ recoverStaleSubmittingIntentsForAccount(i)
                               \/ recoverTerminalEntryClaimsForAccount(i)
         \/ RiskRecheckBlocked \/ LocalFailure \/ EntryRefused \/ PreparationFailed
         \/ RecordAccepted \/ RecordRejected \/ RecordUncertain
         \/ syncSubmittedOrdersForAccountUnlocked
  PROVE  IntentChange
<1>1. TypeOK /\ WorkerOK /\ IntentsOK
  BY DEF IInv
<1>2. /\ wk.pc \in {"claimed", "authorized"} => broker[wk.i] = "none"
      /\ wk.pc = "posted" /\ BrokerRejected(wk.answer) => Settled(wk.i)
      /\ wk.pc # "idle" => wk.i \in Intents /\ intents[wk.i].st = "submitting"
  BY <1>1, WorkerTypes DEF WorkerOK
<1>0. wk.pc \in {"claimed", "authorized"} => Settled(wk.i)
  BY <1>2 DEF Settled
<1>. DEFINE RunsSame == /\ runs' \in Seq(AcceptanceRun) /\ Len(runs') = Len(runs)
                        /\ \A r \in 1..Len(runs) :
                             /\ runs'[r].arming = runs[r].arming
                             /\ runs'[r].claimed = runs[r].claimed
                             /\ runs'[r].out = runs[r].out
                             /\ runs'[r].fail = "safe" => runs[r].fail = "safe"
            Moved == intents' \in [Intents -> Intent] /\ \A i \in Intents : IntentMove(i)
<1>3. runs' = runs => RunsSame
  BY RunsUnmoved
<1>4. ASSUME NEW i \in Intents, NEW u \in BOOLEAN, runs' = RunFailure(i, "unsafe", u)
      PROVE  RunsSame
  BY <1>1, <1>4, RunFailureKeeps
<1>5. intents' = intents => Moved
  BY <1>1, Unmoved DEF IntentMove
<1>6. ASSUME NEW i \in Intents, NEW h \in BOOLEAN, intents[i].st = "submitting",
             \/ intents' = Set(i, "submitted", h)
             \/ intents' = Set(i, "stopped", h)
      PROVE  Moved
  <2>1. PICK st \in {"submitted", "stopped"} : intents' = Set(i, st, h)
    BY <1>6
  <2>2. /\ intents' \in [Intents -> Intent]
        /\ \A j \in Intents : /\ intents'[j].run = intents[j].run
                              /\ j # i => intents'[j].st = intents[j].st
        /\ intents'[i].st = st
    BY <1>1, <2>1, SetMoved
  <2>. QED
    BY <1>6, <2>2 DEF IntentMove
<1>7. \E h \in BOOLEAN : h = TRUE
  BY Zenon
<1>8. \E h \in BOOLEAN : h = FALSE
  BY Zenon
<1>9. ASSUME NEW i \in Intents, ConcludeAdmission(i)
      PROVE  IntentChange
  <2>1. intents[i].st = "received"
    BY <1>9 DEF ConcludeAdmission
  <2>2. UNCHANGED <<acct, entries, cred, policy, appr, armings, posts, broker, drain, mon, runs, wk, ops>>
    BY <1>9 DEF ConcludeAdmission, AuthorityFrame
  <2>3. PICK h \in BOOLEAN, st \in {"pending", "stopped"} : intents' = Set(i, st, h)
    BY <1>9, Zenon DEF ConcludeAdmission
  <2>6. /\ intents' \in [Intents -> Intent]
        /\ \A j \in Intents : /\ intents'[j].run = intents[j].run
                              /\ j # i => intents'[j].st = intents[j].st
        /\ intents'[i].st = st
    BY <1>1, <2>3, SetMoved
  <2>4. Moved
    BY <2>1, <2>6 DEF IntentMove
  <2>5. wk.pc # "idle" => intents'[wk.i].st = intents[wk.i].st
    BY <1>2, <2>1, <2>6
  <2>. HIDE DEF Moved, RunsSame
  <2>. QED
    BY <1>3, <2>2, <2>4, <2>5, RunsUnmoved DEF IntentChange, Moved, RunsSame
<1>10. ASSUME NEW i \in Intents, WorkerClaim(i)
       PROVE  IntentChange
  <2>1. intents[i].st = "pending" /\ wk' = [pc |-> "claimed", i |-> i]
    BY <1>10 DEF WorkerClaim
  <2>2. UNCHANGED <<acct, entries, cred, policy, appr, armings, posts, broker, drain, mon, runs, ops>>
    BY <1>10 DEF WorkerClaim, AuthorityFrame
  <2>3. PICK h \in BOOLEAN : intents' = Set(i, "submitting", h)
    BY <1>10, Zenon DEF WorkerClaim
  <2>5. /\ intents' \in [Intents -> Intent]
        /\ \A j \in Intents : /\ intents'[j].run = intents[j].run
                              /\ j # i => intents'[j].st = intents[j].st
        /\ intents'[i].st = "submitting"
    BY <1>1, <2>3, SetMoved
  <2>4. Moved /\ intents'[i].st = "submitting"
    BY <2>1, <2>5 DEF IntentMove
  <2>. HIDE DEF Moved, RunsSame
  <2>. QED
    BY <1>3, <2>1, <2>2, <2>4, RunsUnmoved DEF IntentChange, Moved, RunsSame
<1>11. ASSUME NEW i \in Intents, recoverStaleSubmittingIntentsForAccount(i)
       PROVE  IntentChange
  <2>1. intents[i].st = "submitting" /\ wk.pc = "idle" /\ wk' = wk
    BY <1>11 DEF recoverStaleSubmittingIntentsForAccount
  <2>2. UNCHANGED <<acct, entries, cred, policy, appr, armings, posts, broker, drain, mon, ops>>
    BY <1>11 DEF recoverStaleSubmittingIntentsForAccount, AuthorityFrame
  <2>3. Moved
    <3>1. \/ intents' = Set(i, "submitted", TRUE)
          \/ \E h \in BOOLEAN : intents' = Set(i, "stopped", h)
          \/ intents' = intents
      BY <1>11 DEF recoverStaleSubmittingIntentsForAccount
    <3>2. \/ \E h \in BOOLEAN : intents' = Set(i, "submitted", h) \/ intents' = Set(i, "stopped", h)
          \/ intents' = intents
      BY <3>1, Zenon
    <3>. HIDE DEF Moved
    <3>. QED
      BY <1>5, <1>6, <2>1, <3>2
  <2>4. RunsSame
    <3>1. runs' = runs \/ runs' = RunFailure(i, "unsafe", TRUE)
      BY <1>11 DEF recoverStaleSubmittingIntentsForAccount
    <3>2. runs' = runs \/ \E u \in BOOLEAN : runs' = RunFailure(i, "unsafe", u)
      BY <3>1, Zenon
    <3>. HIDE DEF RunsSame
    <3>. QED
      BY <1>3, <1>4, <3>2
  <2>. QED
    BY <2>1, <2>2, <2>3, <2>4, RunsUnmoved DEF IntentChange
<1>19. ASSUME NEW i \in Intents, recoverTerminalEntryClaimsForAccount(i)
       PROVE  IntentChange
  <2>1. intents[i].st = "stopped" /\ wk.pc = "idle" /\ wk' = wk
    BY <1>19 DEF recoverTerminalEntryClaimsForAccount
  <2>2. UNCHANGED <<acct, entries, cred, policy, appr, armings, posts, broker, drain, mon, runs, ops>>
    BY <1>19 DEF recoverTerminalEntryClaimsForAccount, AuthorityFrame
  <2>3. PICK h \in BOOLEAN : intents' = Set(i, "stopped", h)
    BY <1>19, Zenon DEF recoverTerminalEntryClaimsForAccount
  <2>4. /\ intents' \in [Intents -> Intent]
        /\ \A j \in Intents : intents'[j].run = intents[j].run /\ intents'[j].st = intents[j].st
    BY <1>1, <2>1, <2>3, SetMoved
  <2>5. Moved
    BY <2>4 DEF IntentMove
  <2>. HIDE DEF Moved, RunsSame
  <2>. QED
    BY <1>3, <2>1, <2>2, <2>5, RunsUnmoved DEF IntentChange, Moved, RunsSame
<1>12. CASE RiskRecheckBlocked \/ LocalFailure
  <2>1. PICK h \in BOOLEAN : intents' = Set(wk.i, "stopped", h)
    BY <1>12, Zenon DEF RiskRecheckBlocked, LocalFailure
  <2>. QED
    BY <1>0, <1>2, <1>12, <2>1, StopChange DEF RiskRecheckBlocked, LocalFailure, AuthorityFrame
<1>13. CASE EntryRefused
  <2>1. PICK h \in BOOLEAN : intents' = Set(wk.i, "stopped", h)
    BY <1>13, Zenon DEF EntryRefused, NotSent
  <2>. QED
    BY <1>0, <1>2, <1>13, <2>1, StopChange DEF EntryRefused, NotSent, AuthorityFrame
<1>14. CASE PreparationFailed
  <2>1. PICK h \in BOOLEAN : intents' = Set(wk.i, "stopped", h)
    BY <1>14, Zenon DEF PreparationFailed, NotSent
  <2>. QED
    BY <1>0, <1>2, <1>14, <2>1, StopChange DEF PreparationFailed, NotSent, AuthorityFrame
<1>15. CASE RecordRejected
  <2>1. PICK h \in BOOLEAN : intents' = Set(wk.i, "stopped", h)
    BY <1>15, Zenon DEF RecordRejected
  <2>. QED
    BY <1>0, <1>2, <1>15, <2>1, StopChange DEF RecordRejected, AuthorityFrame
<1>16. CASE RecordAccepted
  <2>1. PICK i \in Intents : i = wk.i /\ intents[i].st = "submitting"
    BY <1>2, <1>16 DEF RecordAccepted
  <2>2. UNCHANGED <<acct, entries, cred, policy, appr, armings, posts, broker, drain, mon, runs, ops>>
    BY <1>16 DEF RecordAccepted, AuthorityFrame
  <2>3. PICK h \in BOOLEAN : intents' = Set(i, "submitted", h)
    BY <1>16, <2>1, Zenon DEF RecordAccepted
  <2>4. Moved
    BY <1>6, <2>1, <2>3
  <2>5. wk' = Idle
    BY <1>16 DEF RecordAccepted
  <2>. HIDE DEF Moved, RunsSame
  <2>. QED
    BY <1>3, <2>2, <2>4, <2>5, RunsUnmoved DEF IntentChange, Moved, RunsSame
<1>17. CASE RecordUncertain
  <2>1. PICK i \in Intents : i = wk.i /\ intents[i].st = "submitting"
    BY <1>2, <1>17 DEF RecordUncertain
  <2>2. UNCHANGED <<acct, entries, cred, policy, appr, armings, posts, broker, drain, mon, ops>>
    BY <1>17 DEF RecordUncertain, AuthorityFrame
  <2>3. Moved
    <3>1. intents' = intents \/ intents' = Set(i, "stopped", TRUE)
      BY <1>17, <2>1 DEF RecordUncertain
    <3>2. intents' = intents \/ \E h \in BOOLEAN : intents' = Set(i, "stopped", h)
      BY <3>1, Zenon
    <3>. HIDE DEF Moved
    <3>. QED
      BY <1>5, <1>6, <2>1, <3>2
  <2>4. RunsSame
    <3>1. PICK u \in BOOLEAN : runs' = RunFailure(i, "unsafe", u)
      BY <1>17, <2>1, Zenon DEF RecordUncertain
    <3>. QED
      BY <1>4, <3>1
  <2>5. wk' = Idle
    BY <1>17 DEF RecordUncertain
  <2>. HIDE DEF Moved, RunsSame
  <2>. QED
    BY <2>2, <2>3, <2>4, <2>5, RunsUnmoved DEF IntentChange, Moved, RunsSame
<1>18. CASE syncSubmittedOrdersForAccountUnlocked
  <2>1. wk.pc = "idle" /\ wk' = wk /\ intents' = Synced
    BY <1>18 DEF syncSubmittedOrdersForAccountUnlocked
  <2>2. UNCHANGED <<acct, entries, cred, policy, appr, armings, posts, broker, drain, mon, runs, ops>>
    BY <1>18 DEF syncSubmittedOrdersForAccountUnlocked, AuthorityFrame
  <2>3. Moved
    BY <1>1, <2>1, SyncedKeeps
  <2>. HIDE DEF Moved, RunsSame
  <2>. QED
    BY <1>3, <2>1, <2>2, <2>3, RunsUnmoved DEF IntentChange, Moved, RunsSame
<1>. QED
  BY <1>9, <1>10, <1>11, <1>12, <1>13, <1>14, <1>15, <1>16, <1>17, <1>18, <1>19

(* A preview, and an observation of the run, move at most intents on. *)
LEMMA VerifyStepChange ==
  ASSUME IInv,
         \/ previewLiveEntryAcceptanceRun \/ VerifyUnobserved \/ VerifyUnproven \/ VerifyObserve
  PROVE  IntentChange
<1>1. TypeOK
  BY DEF IInv
<1>2. UNCHANGED <<acct, entries, cred, policy, appr, armings, posts, broker, drain, mon, wk>>
  BY DEF previewLiveEntryAcceptanceRun, VerifyUnobserved, VerifyUnproven, VerifyObserve, RequestFrame
<1>3. PICK k \in 1..Len(runs) : k = LatestRun
  BY <1>1, RowTypes DEF previewLiveEntryAcceptanceRun, VerifyUnobserved, VerifyUnproven,
     VerifyObserve, Verifiable, LatestRun
<1>4. CASE previewLiveEntryAcceptanceRun \/ VerifyUnobserved \/ VerifyUnproven
  <2>1. /\ UNCHANGED <<intents, ops>>
        /\ \/ runs' = [runs EXCEPT ![k].preview = TRUE]
           \/ runs' = [runs EXCEPT ![k].uncertain = TRUE, ![k].fail = "unsafe"]
    BY <1>3, <1>4 DEF previewLiveEntryAcceptanceRun, VerifyUnobserved, VerifyUnproven
  <2>2. intents' \in [Intents -> Intent] /\ \A i \in Intents : IntentMove(i)
    BY <1>1, <2>1, Unmoved DEF IntentMove
  <2>. QED
    BY <1>1, <1>2, <2>1, <2>2, RunEdits, RunsUnmoved DEF IntentChange
<1>5. CASE VerifyObserve
  <2>1. /\ UNCHANGED runs /\ wk.pc = "idle" /\ intents' = Synced
        /\ ops' = [ops EXCEPT !.verdict = "clean", !.judging = k]
        /\ runs[k].claimed
    BY <1>3, <1>5 DEF VerifyObserve, Verifiable, Run
  <2>2. intents' \in [Intents -> Intent] /\ \A i \in Intents : IntentMove(i)
    BY <1>1, <2>1, SyncedKeeps
  <2>3. /\ ops' \in Requests /\ ops'.judging = k /\ ops'.abort = ops.abort
        /\ ops'.aborting = ops.aborting
    <3>1. ops \in Requests /\ k \in 0..Len(runs) /\ k # 0
      BY <1>1, RunsUnmoved, RowTypes
    <3>. QED
      BY <2>1, <3>1 DEF Requests
  <2>4. k # 0
    BY <1>1, RowTypes
  <2>. QED
    BY <1>2, <2>1, <2>2, <2>3, <2>4, RunsUnmoved DEF IntentChange
<1>. QED
  BY <1>4, <1>5

-----------------------------------------------------------------------------
(* The broker and the POST.                                                *)

(* The broker works only orders that were submitted. *)
LEMMA BrokerKeeps ==
  ASSUME IInv, NEW i \in Intents, BrokerStep(i)
  PROVE  IInv'
<1>. USE DEF IInv
<1>1. UNCHANGED <<acct, entries, cred, policy, appr, armings, intents, posts, runs, wk, drain, mon, ops>>
  BY DEF BrokerStep, AuthorityFrame
<1>2. /\ broker[i] \in {"sent", "open"} /\ broker' \in [Intents -> {"none", "sent", "open", "filled", "dead"}]
      /\ \A j \in Intents : j # i => broker'[j] = broker[j]
  BY DEF BrokerStep, TypeOK
<1>3. TypeOK'
  BY <1>1, <1>2 DEF TypeOK, Arming, Intent, AcceptanceRun, Submission, Worker, Requests, Approval
<1>4. DrainOK' /\ OpsOK' /\ PostsOK'
  BY <1>1 DEF DrainOK, OpsOK, PostsOK, SpentRev
<1>5. WorkerOK'
  <2>1. wk.pc # "idle" => wk.i \in Intents
    BY WorkerTypes
  <2>. QED
    BY <1>1, <1>2, <2>1, WorkerTypes DEF WorkerOK, Posted, SpentRev, Settled
<1>6. IntentsOK'
  BY <1>1, <1>2 DEF IntentsOK
<1>7. RunsOK'
  <2>1. \A r \in DOMAIN runs : Stopped(r) => Stopped(r)'
    BY <1>1, <1>2 DEF Stopped, Settled
  <2>2. ASSUME NEW r \in DOMAIN runs, runs[r].out = "CANARY_COMPLETE"
        PROVE  \A j \in Intents : intents[j].run = r => broker'[j] = "filled"
    BY <1>2, <2>2 DEF RunsOK
  <2>. QED
    BY <1>1, <2>1, <2>2 DEF RunsOK
<1>. QED
  BY <1>3, <1>4, <1>5, <1>6, <1>7

(* The POST puts on the wire an arming, a revision and an intent that no   *)
(* earlier POST used.                                                      *)
LEMMA PostKeeps ==
  ASSUME IInv, Post
  PROVE  IInv'
<1>. USE DEF IInv
<1>1. UNCHANGED <<acct, entries, cred, policy, appr, armings, intents, runs, drain, mon, ops>>
  BY DEF Post, AuthorityFrame
<1>2. /\ wk.pc = "authorized" /\ wk.i \in Intents /\ wk.arming \in 1..Len(armings) /\ wk.rev \in Nat
      /\ intents[wk.i].st = "submitting" /\ broker[wk.i] = "none" /\ ~ Posted(wk.i)
      /\ armings[wk.arming].ended = "CONSUMED" /\ SpentRev(wk.rev)
      /\ \A n \in DOMAIN posts : posts[n].arming # wk.arming /\ posts[n].rev # wk.rev
  BY WorkerTypes DEF Post, WorkerOK
<1>0. PICK made \in {"none", "sent", "open"}, ans \in Answers :
        /\ ans = "rejected" => made = "none"
        /\ broker' = [broker EXCEPT ![wk.i] = made]
        /\ posts' = Append(posts, [intent |-> wk.i, arming |-> wk.arming, rev |-> wk.rev,
                                   run |-> intents[wk.i].run, answer |-> ans])
        /\ wk' = [pc |-> "posted", i |-> wk.i, answer |-> ans]
  BY DEF Post
<1>3. PICK p : p = [intent |-> wk.i, arming |-> wk.arming, rev |-> wk.rev,
                    run |-> intents[wk.i].run, answer |-> ans]
  OBVIOUS
<1>4. p \in Submission
  <2>1. intents[wk.i] \in Intent
    BY <1>2 DEF TypeOK
  <2>. QED
    BY <1>2, <1>3, <2>1 DEF Submission, Intent
<1>5. posts' = Append(posts, p)
  BY <1>0, <1>3
<1>6. PICK n0 \in Nat : n0 = Len(posts)
  BY RowTypes
<1>7. /\ posts' \in Seq(Submission) /\ DOMAIN posts' = 1..(n0 + 1) /\ DOMAIN posts = 1..n0
      /\ \A n \in 1..n0 : posts'[n] = posts[n]
      /\ posts'[n0 + 1] = p
  <2>1. posts \in Seq(Submission)
    BY DEF TypeOK
  <2>. QED
    BY <1>4, <1>5, <1>6, <2>1, AppendProperties, LenProperties
<1>8. /\ broker' \in [Intents -> {"none", "sent", "open", "filled", "dead"}]
      /\ \A j \in Intents : j # wk.i => broker'[j] = broker[j]
      /\ wk'.pc = "posted" /\ wk'.i = wk.i /\ wk' \in Worker
      /\ wk'.answer = ans /\ broker'[wk.i] = made
  <2>1. broker \in [Intents -> {"none", "sent", "open", "filled", "dead"}]
    BY DEF TypeOK
  <2>2. /\ broker' \in [Intents -> {"none", "sent", "open", "filled", "dead"}]
        /\ \A j \in Intents : j # wk.i => broker'[j] = broker[j]
        /\ broker'[wk.i] = made
    BY <1>0, <1>2, <2>1
  <2>3. wk'.pc = "posted" /\ wk'.i = wk.i /\ wk' \in Worker /\ wk'.answer = ans
    BY <1>0, <1>2 DEF Worker
  <2>. QED
    BY <2>2, <2>3
<1>15. ASSUME NEW j \in Intents, Settled(j), j # wk.i
       PROVE  Settled(j)'
  BY <1>7, <1>8, <1>15 DEF Settled
<1>16. BrokerRejected(ans) => Settled(wk.i)'
  <2>1. ans = "rejected" => Settled(wk.i)'
    BY <1>0, <1>1, <1>8 DEF Settled
  <2>2. ans = "conflict" => Settled(wk.i)'
    <3>1. n0 + 1 \in DOMAIN posts' /\ posts'[n0 + 1].intent = wk.i /\ posts'[n0 + 1].answer = ans
      BY <1>3, <1>7
    <3>. QED
      BY <1>8, <3>1 DEF Settled
  <2>. QED
    BY <2>1, <2>2 DEF BrokerRejected
<1>9. TypeOK'
  <2>1. /\ Arming' = Arming /\ Intent' = Intent /\ AcceptanceRun' = AcceptanceRun
        /\ Submission' = Submission /\ Worker' = Worker /\ Requests' = Requests
    BY <1>1 DEF Arming, Intent, AcceptanceRun, Submission, Worker, Requests, Outcomes, Nonterminal
  <2>. QED
    BY <1>1, <1>7, <1>8, <2>1 DEF TypeOK, Approval
<1>10. DrainOK' /\ OpsOK'
  BY <1>1, <1>8 DEF DrainOK, OpsOK
<1>11. WorkerOK'
  BY <1>1, <1>2, <1>8, <1>16 DEF WorkerOK, Settled
<1>12. PostsOK'
  <2>1. \A n \in 1..n0 : posts[n].intent # wk.i
    BY <1>2, <1>6 DEF Posted
  <2>2. p.intent = wk.i /\ p.arming = wk.arming /\ p.rev = wk.rev /\ p.run = intents[wk.i].run
    BY <1>3
  <2>3. ASSUME NEW n \in 1..(n0 + 1)
        PROVE  /\ armings[posts'[n].arming].ended = "CONSUMED" /\ SpentRev(posts'[n].rev)
               /\ intents[posts'[n].intent].st \notin {"none", "received", "pending"}
               /\ posts'[n].run = intents[posts'[n].intent].run
    <3>1. CASE n = n0 + 1
      BY <1>2, <1>7, <2>2, <3>1
    <3>2. CASE n \in 1..n0
      BY <1>7, <3>2 DEF PostsOK
    <3>. QED
      BY <3>1, <3>2
  <2>4. ASSUME NEW m \in 1..(n0 + 1), NEW n \in 1..(n0 + 1), m # n
        PROVE  /\ posts'[m].arming # posts'[n].arming /\ posts'[m].rev # posts'[n].rev
               /\ posts'[m].intent # posts'[n].intent
    <3>1. CASE m \in 1..n0 /\ n \in 1..n0
      BY <1>7, <2>4, <3>1 DEF PostsOK
    <3>2. CASE m \in 1..n0 /\ n = n0 + 1
      BY <1>2, <1>7, <2>1, <2>2, <3>2
    <3>3. CASE m = n0 + 1 /\ n \in 1..n0
      BY <1>2, <1>7, <2>1, <2>2, <3>3
    <3>. QED
      BY <2>4, <3>1, <3>2, <3>3
  <2>. QED
    BY <1>1, <1>7, <2>3, <2>4 DEF PostsOK, SpentRev
<1>13. IntentsOK'
  BY <1>1, <1>2, <1>8 DEF IntentsOK
<1>14. RunsOK'
  <2>1. \A r \in DOMAIN runs : Stopped(r) => Stopped(r)'
    BY <1>1, <1>2, <1>15 DEF Stopped
  <2>2. ASSUME NEW r \in DOMAIN runs, runs[r].out = "CANARY_COMPLETE"
        PROVE  \A j \in Intents : intents[j].run = r => broker'[j] = "filled"
    BY <1>2, <1>8, <2>2 DEF RunsOK
  <2>. QED
    BY <1>1, <2>1, <2>2 DEF RunsOK
<1>. QED
  BY <1>9, <1>10, <1>11, <1>12, <1>13, <1>14

-----------------------------------------------------------------------------
(* Authorization and arming.                                               *)

(* What the broker boundary authorizes uses up an arming no POST has used, *)
(* under an approval revision no POST has used.                            *)
LEMMA AuthorizeChange ==
  ASSUME IInv, authorizeAndConsumeNewPositionEntry
  PROVE  AuthorityChange
<1>1. TypeOK /\ DrainOK /\ WorkerOK /\ PostsOK /\ OpsOK
  BY DEF IInv
<1>2. UNCHANGED <<cred, policy, intents, broker, posts, runs, drain, mon, ops>>
  BY DEF authorizeAndConsumeNewPositionEntry
<1>3. PICK a \in 1..Len(armings), rev \in Nat, i \in Intents :
        a = acct.active /\ rev = appr["ENTRY"].rev /\ i = wk.i
  <2>1. acct.active \in 0..Len(armings) /\ Len(armings) \in Nat /\ acct.active # 0
    BY <1>1, Unmoved, RowTypes
    DEF authorizeAndConsumeNewPositionEntry, AuthorizedEntry, validateActiveLiveEntryArming
  <2>2. appr["ENTRY"].rev \in Nat
    BY <1>1 DEF TypeOK, Approval, Capabilities
  <2>3. wk.i \in Intents
    BY <1>1, WorkerTypes DEF authorizeAndConsumeNewPositionEntry
  <2>. QED
    BY <2>1, <2>2, <2>3
<1>4. /\ armings[a].ended = "none" /\ appr["ENTRY"].fresh /\ intents[i].st = "submitting"
      /\ ~ Posted(i) /\ broker[i] = "none"
  <2>1. wk.pc = "claimed" /\ AuthorizedEntry(wk.i)
    BY DEF authorizeAndConsumeNewPositionEntry
  <2>. QED
    BY <1>1, <1>3, <2>1 DEF AuthorizedEntry, validateActiveLiveEntryArming, Effective,
       effectiveState, WorkerOK
<1>5. wk' = [pc |-> "authorized", i |-> i, arming |-> a, rev |-> rev]
  BY <1>3 DEF authorizeAndConsumeNewPositionEntry
<1>6. /\ acct' = Disarmed /\ entries' = FALSE
      /\ appr' = Outdated(appr, {"ENTRY"}) /\ armings' = terminateArming("CONSUMED")
  BY DEF authorizeAndConsumeNewPositionEntry, ConsumeEntryAuthority
<1>7. "CONSUMED" \in Endings
  BY DEF Endings
<1>8. /\ armings' \in Seq(Arming) /\ Len(armings') = Len(armings)
      /\ \A b \in 1..Len(armings) :
           armings[b].ended # "none" => armings'[b].ended = armings[b].ended
      /\ armings'[a].ended = "CONSUMED"
  <2>1. acct.active # 0
    BY <1>1, <1>3, RowTypes
  <2>. QED
    BY <1>1, <1>3, <1>6, <1>7, <2>1, TerminateKeeps
<1>9. Moves(appr, appr') /\ appr'["ENTRY"].rev = rev /\ ~ appr'["ENTRY"].fresh
  <2>1. appr \in [Capabilities -> Approval]
    BY <1>1 DEF TypeOK
  <2>2. appr'["ENTRY"] = [appr["ENTRY"] EXCEPT !.fresh = FALSE] /\ appr["ENTRY"] \in Approval
    BY <1>6, <2>1 DEF Outdated, Capabilities
  <2>3. appr'["ENTRY"].rev = appr["ENTRY"].rev /\ ~ appr'["ENTRY"].fresh
    BY <2>2 DEF Approval
  <2>. QED
    BY <1>3, <1>6, <2>1, <2>3, OutdatedMoves
<1>10. wk' \in Worker /\ wk'.pc = "authorized" /\ wk'.i = i /\ wk'.arming = a /\ wk'.rev = rev
  BY <1>5 DEF Worker
<1>11. WorkerOK'
  <2>1. ASSUME NEW n \in DOMAIN posts
        PROVE  posts[n].arming # a /\ posts[n].rev # rev
    <3>1. armings[posts[n].arming].ended = "CONSUMED" /\ SpentRev(posts[n].rev)
      BY <1>1 DEF PostsOK
    <3>2. ~ SpentRev(rev)
      BY <1>3, <1>4 DEF SpentRev
    <3>. QED
      BY <1>4, <3>1, <3>2
  <2>2. ~ Posted(i)'
    BY <1>2, <1>4 DEF Posted
  <2>3. SpentRev(rev)'
    BY <1>9 DEF SpentRev
  <2>4. \A n \in DOMAIN posts' : posts'[n].arming # wk'.arming /\ posts'[n].rev # wk'.rev
    BY <1>2, <1>10, <2>1
  <2>5. ~ Posted(wk.i)' /\ SpentRev(wk.rev)'
    BY <1>10, <2>2, <2>3 DEF Posted, SpentRev
  <2>. QED
    BY <1>2, <1>4, <1>8, <1>10, <2>4, <2>5 DEF WorkerOK
<1>12. drain' = "none"
  BY <1>1, <1>2, <1>3, RowTypes DEF DrainOK
<1>13. /\ acct' \in [status : Statuses, open : BOOLEAN, active : {0, acct.active}]
       /\ acct'.active = 0
  BY <1>1, <1>6, AccountRow
<1>14. entries' \in BOOLEAN
  BY <1>6, Zenon
<1>15. ops' \in Requests /\ OpsOK'
  BY <1>2, RequestRow
<1>. QED
  BY <1>1, <1>2, <1>8, <1>9, <1>10, <1>11, <1>12, <1>13, <1>14, <1>15, Unmoved DEF AuthorityChange

(* Arming adds a row, makes it the active one and binds the latest run.    *)
LEMMA ArmKeeps ==
  ASSUME IInv, armInsideTransaction
  PROVE  IInv'
<1>. USE DEF IInv
<1>1. /\ UNCHANGED <<entries, cred, policy, appr, intents, broker, posts, wk, mon, ops>>
      /\ wk.pc = "idle" /\ drain' = "none"
      /\ LatestRun > 0 => ~runs[LatestRun].claimed /\ runs[LatestRun].out = "none"
  BY DEF armInsideTransaction, requireAcceptanceRunForCanary
<1>2. PICK L \in Nat, R \in Nat : L = Len(armings) /\ R = Len(runs)
  BY RowTypes
<1>. DEFINE x == [entryRev |-> appr["ENTRY"].rev, riskRev |-> appr["RISK"].rev, fresh |-> TRUE,
                  policy |-> policy, run |-> LatestRun, ended |-> "none"]
<1>3. x \in Arming /\ x.ended = "none"
  <2>1. appr["ENTRY"] \in Approval /\ appr["RISK"] \in Approval /\ policy \in BOOLEAN
    BY DEF TypeOK, Capabilities
  <2>2. LatestRun \in 0..Len(runs)
    BY <1>2 DEF LatestRun
  <2>. QED
    BY <2>1, <2>2 DEF Arming, Approval
<1>4. armings' = Append(armings, x)
  BY DEF armInsideTransaction
<1>. HIDE DEF x
<1>5. /\ armings' \in Seq(Arming) /\ Len(armings') = L + 1
      /\ \A a \in 1..L : armings'[a] = armings[a]
      /\ armings'[L + 1] = x
  <2>1. armings \in Seq(Arming)
    BY DEF TypeOK
  <2>. QED
    BY <1>2, <1>3, <1>4, <2>1, AppendProperties
<1>6. acct' \in [status : Statuses, open : BOOLEAN, active : 0..Len(armings')] /\ acct'.active = L + 1
  <2>1. acct \in [status : Statuses, open : BOOLEAN, active : 0..Len(armings)]
    BY DEF TypeOK
  <2>2. acct' = [acct EXCEPT !.open = TRUE, !.active = L + 1]
    BY <1>2 DEF armInsideTransaction
  <2>3. L + 1 \in 0..Len(armings')
    BY <1>5
  <2>. QED
    BY <2>1, <2>2, <2>3
<1>. DEFINE RunType == [arming : 0..(L + 1), preview : BOOLEAN, claimed : BOOLEAN,
                        uncertain : BOOLEAN, fail : {"none", "safe", "unsafe"}, out : Outcomes]
<1>7. /\ runs' \in Seq(RunType) /\ Len(runs') = R /\ DOMAIN runs' = 1..R /\ DOMAIN runs = 1..R
      /\ \A r \in 1..R : runs'[r] = runs[r] \/ (/\ ~runs[r].claimed
                                                /\ runs[r].out = "none"
                                                /\ runs'[r].claimed = runs[r].claimed
                                                /\ runs'[r].out = runs[r].out
                                                /\ runs'[r].fail = runs[r].fail)
  <2>1. AcceptanceRun \subseteq RunType
    BY <1>2 DEF AcceptanceRun
  <2>2. runs \in Seq(AcceptanceRun)
    BY DEF TypeOK
  <2>3. runs \in Seq(RunType)
    BY <2>1, <2>2, SeqMono
  <2>4. CASE R = 0
    <3>1. runs' = runs
      BY <1>2, <2>4 DEF armInsideTransaction, LatestRun
    <3>. HIDE DEF RunType
    <3>. QED
      BY <1>2, <2>3, <3>1, LenProperties
  <2>5. CASE R # 0
    <3>. DEFINE e == [runs[R] EXCEPT !.arming = L + 1]
    <3>1. runs' = [runs EXCEPT ![R] = e]
      BY <1>2, <2>5 DEF armInsideTransaction, LatestRun
    <3>2. R \in 1..Len(runs) /\ runs[R] \in AcceptanceRun
      BY <1>2, <2>5, RowTypes
    <3>3. /\ e \in RunType /\ e.claimed = runs[R].claimed /\ e.out = runs[R].out
          /\ e.fail = runs[R].fail
      BY <3>2 DEF AcceptanceRun
    <3>4. ~runs[R].claimed /\ runs[R].out = "none"
      BY <1>1, <1>2, <2>5 DEF LatestRun
    <3>. HIDE DEF e, RunType
    <3>5. /\ runs' \in Seq(RunType) /\ Len(runs') = R
          /\ \A j \in 1..R : runs'[j] = IF j = R THEN e ELSE runs[j]
      BY <1>2, <2>3, <3>1, <3>2, <3>3, ExceptSeq
    <3>6. DOMAIN runs' = 1..R /\ DOMAIN runs = 1..R
      BY <1>2, <2>3, <3>5, LenProperties
    <3>. QED
      BY <3>3, <3>4, <3>5, <3>6
  <2>. QED
    BY <2>4, <2>5
<1>8. TypeOK'
  <2>1. Arming' = Arming /\ Intent' = Intent /\ Requests' = Requests /\ AcceptanceRun' = RunType
    BY <1>2, <1>5, <1>7 DEF Arming, Intent, Requests, AcceptanceRun, Outcomes, Nonterminal
  <2>2. posts' \in Seq(Submission')
    <3>1. Submission \subseteq Submission'
      BY <1>2, <1>5, <1>7 DEF Submission
    <3>2. posts \in Seq(Submission)
      BY DEF TypeOK
    <3>3. posts \in Seq(Submission')
      BY <3>1, <3>2, SeqMono
    <3>. QED
      BY <1>1, <3>3
  <2>3. wk' \in Worker'
    BY <1>1, WorkerTypes DEF Worker
  <2>4. \A r \in 1..R : /\ runs'[r].claimed => \E i \in Intents : intents[i].run = r
                        /\ r < R => runs'[r].out # "none"
    BY <1>2, <1>7, RunRows
  <2>5. (\A r \in DOMAIN runs : /\ runs[r].claimed => \E i \in Intents : intents[i].run = r
                                /\ r < Len(runs) => runs[r].out # "none")'
    BY <1>1, <1>7, <2>4
  <2>6. armings'[acct'.active].ended = "none"
    BY <1>3, <1>5, <1>6
  <2>. QED
    BY <1>1, <1>5, <1>6, <1>7, <2>1, <2>2, <2>3, <2>5, <2>6 DEF TypeOK, Approval
<1>9. DrainOK' /\ WorkerOK'
  BY <1>1 DEF DrainOK, WorkerOK
<1>10. PostsOK'
  <2>1. \A n \in DOMAIN posts : posts[n].arming \in 1..L
    BY <1>2, RowTypes DEF Submission
  <2>. QED
    BY <1>1, <1>5, <2>1 DEF PostsOK, SpentRev
<1>11. IntentsOK'
  <2>1. ASSUME NEW i \in Intents, intents[i].run # 0
        PROVE  runs'[intents[i].run].claimed
    <3>1. intents[i] \in Intent
      BY DEF TypeOK
    <3>2. intents[i].run \in 1..R
      BY <1>2, <2>1, <3>1 DEF Intent
    <3>3. runs[intents[i].run].claimed
      BY <2>1 DEF IntentsOK
    <3>. QED
      BY <1>7, <3>2, <3>3
  <2>. QED
    BY <1>1, <2>1 DEF IntentsOK
<1>12. RunsOK'
  <2>1. ASSUME NEW r \in 1..R
        PROVE  /\ runs'[r].claimed => runs'[r].arming # 0
               /\ runs'[r].out = "OPERATOR_ABORTED" => ~ runs'[r].claimed
               /\ runs'[r].fail = "safe" => runs'[r].claimed
               /\ runs'[r].fail = "safe" \/ runs'[r].out = "FAILED_SAFE" => Stopped(r)
               /\ runs'[r].out = "CANARY_COMPLETE" =>
                    /\ runs'[r].claimed /\ armings'[runs'[r].arming].ended = "CONSUMED"
                    /\ \A i \in Intents : intents[i].run = r => broker[i] = "filled"
    <3>1. /\ runs[r].claimed => runs[r].arming # 0
          /\ runs[r].out = "OPERATOR_ABORTED" => ~ runs[r].claimed
          /\ runs[r].fail = "safe" => runs[r].claimed
          /\ runs[r].fail = "safe" \/ runs[r].out = "FAILED_SAFE" => Stopped(r)
          /\ runs[r].out = "CANARY_COMPLETE" =>
               /\ runs[r].claimed /\ armings[runs[r].arming].ended = "CONSUMED"
               /\ \A i \in Intents : intents[i].run = r => broker[i] = "filled"
      BY <1>7 DEF RunsOK
    <3>2. runs[r].arming \in 0..L
      BY <1>2, RowTypes DEF AcceptanceRun
    <3>3. CASE runs'[r] = runs[r]
      BY <1>5, <3>1, <3>2, <3>3
    <3>4. CASE /\ ~runs[r].claimed /\ runs[r].out = "none" /\ runs'[r].claimed = runs[r].claimed
               /\ runs'[r].out = runs[r].out /\ runs'[r].fail = runs[r].fail
      BY <3>1, <3>4
    <3>. QED
      BY <1>7, <3>3, <3>4
  <2>2. \A r \in 1..R : Stopped(r)' <=> Stopped(r)
    BY <1>1 DEF Stopped, Settled
  <2>. QED
    BY <1>1, <1>7, <2>1, <2>2 DEF RunsOK
<1>13. OpsOK'
  <2>1. ops.judging # 0 => ops.judging \in 1..R
    BY <1>2 DEF TypeOK, Requests
  <2>. QED
    BY <1>1, <1>7, <2>1 DEF OpsOK
<1>. QED
  BY <1>8, <1>9, <1>10, <1>11, <1>12, <1>13

-----------------------------------------------------------------------------
(* Admission and the acceptance run.                                       *)

(* An entry admitted for a run, or for none: the run had none before.      *)
LEMMA AdmitKeeps ==
  ASSUME IInv, NEW i \in Intents, NEW rn \in 0..Len(runs), intents[i].st = "none",
         intents' = [intents EXCEPT ![i] = [st |-> "received", run |-> rn, held |-> TRUE]],
         \/ rn = 0 /\ UNCHANGED runs
         \/ /\ rn # 0 /\ ~runs[rn].claimed /\ runs[rn].out = "none" /\ runs[rn].arming # 0
            /\ runs' = [runs EXCEPT ![rn].claimed = TRUE],
         UNCHANGED <<acct, entries, cred, policy, appr, armings, broker, posts, wk, drain, mon, ops>>
  PROVE  IInv'
<1>. USE DEF IInv
<1>1. PICK R \in Nat : R = Len(runs) /\ DOMAIN runs = 1..R
  BY RowTypes
<1>2. /\ intents' \in [Intents -> Intent]
      /\ intents'[i].st = "received" /\ intents'[i].run = rn
      /\ \A j \in Intents : j # i => intents'[j] = intents[j]
  <2>1. [st |-> "received", run |-> rn, held |-> TRUE] \in Intent
    BY DEF Intent, Nonterminal
  <2>2. intents \in [Intents -> Intent]
    BY DEF TypeOK
  <2>. QED
    BY <2>1, <2>2
<1>3. /\ runs' \in Seq(AcceptanceRun) /\ Len(runs') = R /\ DOMAIN runs' = 1..R
      /\ \A r \in 1..R : r # rn => runs'[r] = runs[r]
      /\ rn # 0 => /\ rn \in 1..R /\ runs'[rn].claimed
                   /\ runs'[rn].out = runs[rn].out /\ runs'[rn].fail = runs[rn].fail
                   /\ runs'[rn].arming = runs[rn].arming
  <2>0. runs \in Seq(AcceptanceRun)
    BY DEF TypeOK
  <2>1. CASE rn = 0
    BY <1>1, <2>0, <2>1
  <2>2. CASE rn # 0
    <3>. DEFINE e == [runs[rn] EXCEPT !.claimed = TRUE]
    <3>1. runs' = [runs EXCEPT ![rn] = e]
      BY <2>2
    <3>2. rn \in 1..Len(runs)
      BY <1>1, <2>2
    <3>3. runs[rn] \in AcceptanceRun
      BY <3>2, RowTypes
    <3>4. /\ e \in AcceptanceRun /\ e.claimed /\ e.out = runs[rn].out
          /\ e.fail = runs[rn].fail /\ e.arming = runs[rn].arming
      BY <3>3 DEF AcceptanceRun
    <3>. HIDE DEF e
    <3>5. /\ runs' \in Seq(AcceptanceRun) /\ Len(runs') = R
          /\ \A j \in 1..R : runs'[j] = IF j = rn THEN e ELSE runs[j]
      BY <1>1, <2>0, <3>1, <3>2, <3>4, ExceptSeq
    <3>6. DOMAIN runs' = 1..R
      BY <3>5, LenProperties
    <3>. QED
      BY <1>1, <2>2, <3>2, <3>4, <3>5, <3>6
  <2>. QED
    BY <2>1, <2>2
<1>4. /\ intents[i].run = 0 /\ broker[i] = "none"
      /\ \A j \in Intents : j # i /\ rn # 0 => intents[j].run # rn
      /\ rn # 0 => runs[rn].out = "none" /\ runs[rn].fail # "safe" /\ runs[rn].arming # 0
  <2>1. rn # 0 => runs[rn].fail # "safe"
    BY <1>1, <1>3 DEF RunsOK
  <2>. QED
    BY <2>1 DEF IntentsOK
<1>5. TypeOK'
  <2>1. /\ Arming' = Arming /\ Intent' = Intent /\ AcceptanceRun' = AcceptanceRun
        /\ Submission' = Submission /\ Worker' = Worker /\ Requests' = Requests
    BY <1>1, <1>3 DEF Arming, Intent, AcceptanceRun, Submission, Worker, Requests, Outcomes, Nonterminal
  <2>2. ASSUME NEW r \in 1..R
        PROVE  /\ runs'[r].claimed => \E j \in Intents : intents'[j].run = r
               /\ r < R => runs'[r].out # "none"
    <3>1. CASE r = rn
      BY <1>1, <1>2, <1>3, <3>1, RunRows
    <3>2. CASE r # rn
      <4>1. r # 0
        OBVIOUS
      <4>. QED
        BY <1>1, <1>2, <1>3, <1>4, <3>2, <4>1, RunRows
    <3>. QED
      BY <3>1, <3>2
  <2>3. (\A r \in DOMAIN runs : /\ runs[r].claimed => \E j \in Intents : intents[j].run = r
                                /\ r < Len(runs) => runs[r].out # "none")'
    BY <1>3, <2>2
  <2>4. /\ acct' \in [status : Statuses, open : BOOLEAN, active : 0..Len(armings')]
        /\ entries' \in BOOLEAN /\ policy' \in BOOLEAN
        /\ cred' \in {"ACTIVE", "NEEDS_VERIFICATION", "INVALID", "REVOKED"}
        /\ appr' \in [Capabilities -> Approval]
        /\ armings' \in Seq(Arming)
        /\ acct'.active # 0 => armings'[acct'.active].ended = "none"
        /\ broker' \in [Intents -> {"none", "sent", "open", "filled", "dead"}]
        /\ posts' \in Seq(Submission) /\ wk' \in Worker
        /\ drain' \in {"none", "pending", "drained", "attention"}
        /\ mon' \in {"idle", "EXPIRED", "INVALIDATED"} /\ ops' \in Requests
    BY DEF TypeOK
  <2>. QED
    BY <1>2, <1>3, <2>1, <2>3, <2>4 DEF TypeOK, Approval
<1>6. DrainOK'
  BY DEF DrainOK
<1>7. WorkerOK'
  <2>1. wk.pc # "idle" => wk.i \in Intents /\ wk.i # i
    BY WorkerTypes DEF WorkerOK
  <2>. QED
    BY <1>2, <2>1 DEF WorkerOK, SpentRev, Settled, Posted
<1>8. PostsOK'
  <2>1. \A n \in DOMAIN posts : posts[n].intent \in Intents /\ posts[n].intent # i
    BY RowTypes DEF PostsOK, Submission
  <2>. QED
    BY <1>2, <2>1 DEF PostsOK, SpentRev
<1>9. IntentsOK'
  <2>1. ASSUME NEW j \in Intents, j # i, intents[j].run # 0
        PROVE  intents[j].run \in 1..R /\ intents[j].run # rn /\ runs'[intents[j].run].claimed
    <3>1. intents[j] \in Intent
      BY DEF TypeOK
    <3>2. intents[j].run \in 1..R
      BY <1>1, <2>1, <3>1 DEF Intent
    <3>3. runs[intents[j].run].claimed
      BY <2>1 DEF IntentsOK
    <3>4. intents[j].run # rn
      BY <1>4, <2>1
    <3>. QED
      BY <1>3, <3>2, <3>3, <3>4
  <2>2. ASSUME NEW j \in Intents
        PROVE  /\ intents'[j].st = "none" => intents'[j].run = 0
               /\ intents'[j].st \in {"none", "received", "pending"} => broker[j] = "none"
               /\ intents'[j].st = "filled" => broker[j] = "filled"
               /\ intents'[j].run # 0 => runs'[intents'[j].run].claimed
    BY <1>2, <1>3, <1>4, <2>1 DEF IntentsOK
  <2>3. ASSUME NEW j \in Intents, NEW k \in Intents, intents'[j].run # 0,
               intents'[k].run = intents'[j].run
        PROVE  j = k
    BY <1>2, <1>4, <2>1, <2>3 DEF IntentsOK
  <2>. QED
    BY <2>2, <2>3 DEF IntentsOK
<1>10. RunsOK'
  <2>1. ASSUME NEW r \in 1..R, r # rn
        PROVE  /\ Stopped(r) => Stopped(r)'
               /\ \A j \in Intents : intents'[j].run = r => intents[j].run = r
    BY <1>2, <2>1 DEF Stopped, Settled
  <2>2. ASSUME NEW r \in 1..R
        PROVE  /\ runs'[r].claimed => runs'[r].arming # 0
               /\ runs'[r].out = "OPERATOR_ABORTED" => ~ runs'[r].claimed
               /\ runs'[r].fail = "safe" => runs'[r].claimed
               /\ runs'[r].fail = "safe" \/ runs'[r].out = "FAILED_SAFE" => Stopped(r)'
               /\ runs'[r].out = "CANARY_COMPLETE" =>
                    /\ runs'[r].claimed /\ armings[runs'[r].arming].ended = "CONSUMED"
                    /\ \A j \in Intents : intents'[j].run = r => broker[j] = "filled"
    <3>1. CASE r = rn
      <4>1. rn # 0
        BY <3>1
      <4>. QED
        BY <1>3, <1>4, <3>1, <4>1
    <3>2. CASE r # rn
      BY <1>1, <1>3, <2>1, <3>2 DEF RunsOK
    <3>. QED
      BY <3>1, <3>2
  <2>. QED
    BY <1>3, <2>2 DEF RunsOK
<1>11. OpsOK'
  <2>1. ops.judging # 0 => ops.judging \in 1..R
    BY <1>1 DEF TypeOK, Requests
  <2>. QED
    BY <1>3, <2>1 DEF OpsOK
<1>. QED
  BY <1>5, <1>6, <1>7, <1>8, <1>9, <1>10, <1>11

(* A run is created once its predecessor is terminal. *)
LEMMA CreateKeeps ==
  ASSUME IInv, createLiveEntryAcceptanceRun
  PROVE  IInv'
<1>. USE DEF IInv
<1>1. UNCHANGED <<acct, entries, cred, policy, appr, armings, intents, broker, posts, wk, drain, mon, ops>>
  BY DEF createLiveEntryAcceptanceRun, RequestFrame
<1>2. PICK R \in Nat : R = Len(runs) /\ DOMAIN runs = 1..R
  BY RowTypes
<1>. DEFINE x == [arming |-> 0, preview |-> FALSE, claimed |-> FALSE, uncertain |-> FALSE,
                  fail |-> "none", out |-> "none"]
<1>3. x \in AcceptanceRun /\ ~x.claimed /\ x.fail = "none" /\ x.out = "none"
  <2>1. Len(armings) \in Nat
    BY RowTypes
  <2>. QED
    BY <2>1 DEF AcceptanceRun, Outcomes
<1>4. runs' = Append(runs, x) /\ (R > 0 => runs[R].out # "none")
  BY <1>2 DEF createLiveEntryAcceptanceRun, LatestRun, Run
<1>. HIDE DEF x
<1>5. /\ runs' \in Seq(AcceptanceRun) /\ Len(runs') = R + 1 /\ DOMAIN runs' = 1..(R + 1)
      /\ \A r \in 1..R : runs'[r] = runs[r]
      /\ runs'[R + 1] = x
  <2>1. runs \in Seq(AcceptanceRun)
    BY DEF TypeOK
  <2>. QED
    BY <1>2, <1>3, <1>4, <2>1, AppendProperties, LenProperties
<1>6. \A j \in Intents : intents[j].run \in 0..R
  <2>1. ASSUME NEW j \in Intents PROVE intents[j].run \in 0..R
    <3>1. intents[j] \in Intent
      BY DEF TypeOK
    <3>. QED
      BY <1>2, <3>1 DEF Intent
  <2>. QED
    BY <2>1
<1>7. TypeOK'
  <2>1. AcceptanceRun' = AcceptanceRun /\ Worker' = Worker
    BY <1>1 DEF AcceptanceRun, Worker, Outcomes
  <2>2. /\ Arming \subseteq Arming' /\ Intent \subseteq Intent'
        /\ Submission \subseteq Submission' /\ Requests \subseteq Requests'
    BY <1>1, <1>2, <1>5 DEF Arming, Intent, Submission, Requests, Nonterminal
  <2>3. armings' \in Seq(Arming') /\ posts' \in Seq(Submission')
    <3>1. armings \in Seq(Arming) /\ posts \in Seq(Submission)
      BY DEF TypeOK
    <3>2. armings \in Seq(Arming') /\ posts \in Seq(Submission')
      BY <2>2, <3>1, SeqMono
    <3>. QED
      BY <1>1, <3>2
  <2>4. intents' \in [Intents -> Intent'] /\ ops' \in Requests'
    <3>1. intents \in [Intents -> Intent] /\ ops \in Requests
      BY DEF TypeOK
    <3>2. intents \in [Intents -> Intent'] /\ ops \in Requests'
      BY <2>2, <3>1
    <3>. QED
      BY <1>1, <3>2
  <2>5. ASSUME NEW r \in 1..(R + 1)
        PROVE  /\ runs'[r].claimed => \E j \in Intents : intents[j].run = r
               /\ r < R + 1 => runs'[r].out # "none"
    <3>1. CASE r = R + 1
      BY <1>3, <1>5, <3>1
    <3>2. CASE r \in 1..R
      <4>1. runs'[r] = runs[r]
        BY <1>5, <3>2
      <4>2. runs[r].claimed => \E j \in Intents : intents[j].run = r
        BY <1>2, <3>2, RunRows
      <4>3. runs[r].out # "none"
        BY <1>2, <1>4, <3>2, RunRows
      <4>. QED
        BY <4>1, <4>2, <4>3
    <3>. QED
      BY <3>1, <3>2
  <2>6. (\A r \in DOMAIN runs : /\ runs[r].claimed => \E j \in Intents : intents[j].run = r
                                /\ r < Len(runs) => runs[r].out # "none")'
    BY <1>1, <1>5, <2>5
  <2>7. /\ acct' \in [status : Statuses, open : BOOLEAN, active : 0..Len(armings')]
        /\ entries' \in BOOLEAN /\ policy' \in BOOLEAN
        /\ cred' \in {"ACTIVE", "NEEDS_VERIFICATION", "INVALID", "REVOKED"}
        /\ appr' \in [Capabilities -> Approval]
        /\ acct'.active # 0 => armings'[acct'.active].ended = "none"
        /\ broker' \in [Intents -> {"none", "sent", "open", "filled", "dead"}]
        /\ wk' \in Worker
        /\ drain' \in {"none", "pending", "drained", "attention"}
        /\ mon' \in {"idle", "EXPIRED", "INVALIDATED"}
    BY <1>1 DEF TypeOK
  <2>. QED
    BY <1>5, <2>1, <2>3, <2>4, <2>6, <2>7 DEF TypeOK, Approval
<1>8. DrainOK' /\ WorkerOK' /\ PostsOK'
  BY <1>1 DEF DrainOK, WorkerOK, PostsOK, SpentRev, Settled, Posted
<1>9. IntentsOK'
  <2>1. \A j \in Intents : intents[j].run # 0 => runs'[intents[j].run].claimed
    BY <1>5, <1>6 DEF IntentsOK
  <2>. QED
    BY <1>1, <2>1 DEF IntentsOK
<1>10. RunsOK'
  <2>1. \A r \in 1..R : Stopped(r) => Stopped(r)'
    BY <1>1 DEF Stopped, Settled
  <2>2. ASSUME NEW r \in 1..(R + 1)
        PROVE  /\ runs'[r].claimed => runs'[r].arming # 0
               /\ runs'[r].out = "OPERATOR_ABORTED" => ~ runs'[r].claimed
               /\ runs'[r].fail = "safe" => runs'[r].claimed
               /\ runs'[r].fail = "safe" \/ runs'[r].out = "FAILED_SAFE" => Stopped(r)'
               /\ runs'[r].out = "CANARY_COMPLETE" =>
                    /\ runs'[r].claimed /\ armings[runs'[r].arming].ended = "CONSUMED"
                    /\ \A j \in Intents : intents[j].run = r => broker[j] = "filled"
    <3>1. CASE r = R + 1
      BY <1>3, <1>5, <3>1
    <3>2. CASE r \in 1..R
      BY <1>2, <1>5, <2>1, <3>2 DEF RunsOK
    <3>. QED
      BY <3>1, <3>2
  <2>. QED
    BY <1>1, <1>5, <2>2 DEF RunsOK
<1>11. OpsOK'
  <2>1. ops.judging # 0 => ops.judging \in 1..R
    BY <1>2 DEF TypeOK, Requests
  <2>. QED
    BY <1>1, <1>5, <2>1 DEF OpsOK
<1>. QED
  BY <1>7, <1>8, <1>9, <1>10, <1>11

(* An outcome is written to a run that has none, when it is true of it. *)
LEMMA OutcomeKeeps ==
  ASSUME IInv, NEW k \in 1..Len(runs), NEW o \in Outcomes \ {"none"}, runs[k].out = "none",
         runs' = [runs EXCEPT ![k].out = o],
         o = "OPERATOR_ABORTED" => ~ runs[k].claimed,
         o = "FAILED_SAFE" => Stopped(k),
         o = "CANARY_COMPLETE" =>
           /\ runs[k].claimed /\ armings[runs[k].arming].ended = "CONSUMED"
           /\ \A i \in Intents : intents[i].run = k => broker[i] = "filled",
         UNCHANGED <<acct, entries, cred, policy, appr, armings, intents, broker, posts, wk, drain, mon>>,
         ops' \in Requests, OpsOK'
  PROVE  IInv'
<1>. USE DEF IInv
<1>1. PICK R \in Nat : R = Len(runs) /\ DOMAIN runs = 1..R
  BY RowTypes
<1>2. /\ runs' \in Seq(AcceptanceRun) /\ Len(runs') = R /\ DOMAIN runs' = 1..R
      /\ \A r \in 1..R : r # k => runs'[r] = runs[r]
      /\ runs'[k].claimed = runs[k].claimed /\ runs'[k].arming = runs[k].arming
      /\ runs'[k].fail = runs[k].fail /\ runs'[k].out = o
  <2>. DEFINE e == [runs[k] EXCEPT !.out = o]
  <2>1. runs' = [runs EXCEPT ![k] = e]
    OBVIOUS
  <2>2. runs[k] \in AcceptanceRun
    BY RowTypes
  <2>3. /\ e \in AcceptanceRun /\ e.claimed = runs[k].claimed /\ e.arming = runs[k].arming
        /\ e.fail = runs[k].fail /\ e.out = o
    BY <2>2 DEF AcceptanceRun
  <2>4. runs \in Seq(AcceptanceRun)
    BY DEF TypeOK
  <2>. HIDE DEF e
  <2>5. /\ runs' \in Seq(AcceptanceRun) /\ Len(runs') = R
        /\ \A j \in 1..R : runs'[j] = IF j = k THEN e ELSE runs[j]
    BY <1>1, <2>1, <2>3, <2>4, ExceptSeq
  <2>6. DOMAIN runs' = 1..R
    BY <2>5, LenProperties
  <2>. QED
    BY <1>1, <2>3, <2>5, <2>6
<1>3. TypeOK'
  <2>1. /\ Arming' = Arming /\ Intent' = Intent /\ AcceptanceRun' = AcceptanceRun
        /\ Submission' = Submission /\ Worker' = Worker /\ Requests' = Requests
    BY <1>1, <1>2 DEF Arming, Intent, AcceptanceRun, Submission, Worker, Requests, Outcomes, Nonterminal
  <2>2. ASSUME NEW r \in 1..R
        PROVE  /\ runs'[r].claimed => \E j \in Intents : intents[j].run = r
               /\ r < R => runs'[r].out # "none"
    <3>1. CASE r = k
      BY <1>1, <1>2, <3>1, RunRows
    <3>2. CASE r # k
      BY <1>1, <1>2, <3>2, RunRows
    <3>. QED
      BY <3>1, <3>2
  <2>3. (\A r \in DOMAIN runs : /\ runs[r].claimed => \E j \in Intents : intents[j].run = r
                                /\ r < Len(runs) => runs[r].out # "none")'
    BY <1>2, <2>2
  <2>4. /\ acct' \in [status : Statuses, open : BOOLEAN, active : 0..Len(armings')]
        /\ entries' \in BOOLEAN /\ policy' \in BOOLEAN
        /\ cred' \in {"ACTIVE", "NEEDS_VERIFICATION", "INVALID", "REVOKED"}
        /\ appr' \in [Capabilities -> Approval]
        /\ armings' \in Seq(Arming)
        /\ acct'.active # 0 => armings'[acct'.active].ended = "none"
        /\ intents' \in [Intents -> Intent]
        /\ broker' \in [Intents -> {"none", "sent", "open", "filled", "dead"}]
        /\ posts' \in Seq(Submission) /\ wk' \in Worker
        /\ drain' \in {"none", "pending", "drained", "attention"}
        /\ mon' \in {"idle", "EXPIRED", "INVALIDATED"} /\ ops' \in Requests
    BY DEF TypeOK
  <2>. QED
    BY <1>2, <2>1, <2>3, <2>4 DEF TypeOK, Approval
<1>4. DrainOK' /\ WorkerOK' /\ PostsOK'
  BY DEF DrainOK, WorkerOK, PostsOK, SpentRev, Settled, Posted
<1>5. IntentsOK'
  <2>1. ASSUME NEW j \in Intents, intents[j].run # 0
        PROVE  runs'[intents[j].run].claimed
    <3>1. intents[j] \in Intent
      BY DEF TypeOK
    <3>2. intents[j].run \in 1..R /\ runs[intents[j].run].claimed
      BY <1>1, <2>1, <3>1 DEF Intent, IntentsOK
    <3>. QED
      BY <1>2, <3>2
  <2>. QED
    BY <2>1 DEF IntentsOK
<1>6. RunsOK'
  <2>1. \A r \in 1..R : Stopped(r) => Stopped(r)'
    BY DEF Stopped, Settled
  <2>2. ASSUME NEW r \in 1..R
        PROVE  /\ runs'[r].claimed => runs'[r].arming # 0
               /\ runs'[r].out = "OPERATOR_ABORTED" => ~ runs'[r].claimed
               /\ runs'[r].fail = "safe" => runs'[r].claimed
               /\ runs'[r].fail = "safe" \/ runs'[r].out = "FAILED_SAFE" => Stopped(r)'
               /\ runs'[r].out = "CANARY_COMPLETE" =>
                    /\ runs'[r].claimed /\ armings[runs'[r].arming].ended = "CONSUMED"
                    /\ \A j \in Intents : intents[j].run = r => broker[j] = "filled"
    <3>0. /\ runs[r].claimed => runs[r].arming # 0
          /\ runs[r].out = "OPERATOR_ABORTED" => ~ runs[r].claimed
          /\ runs[r].fail = "safe" => runs[r].claimed
          /\ runs[r].fail = "safe" \/ runs[r].out = "FAILED_SAFE" => Stopped(r)
          /\ runs[r].out = "CANARY_COMPLETE" =>
               /\ runs[r].claimed /\ armings[runs[r].arming].ended = "CONSUMED"
               /\ \A j \in Intents : intents[j].run = r => broker[j] = "filled"
      BY <1>1 DEF RunsOK
    <3>1. CASE r = k
      BY <1>2, <2>1, <3>0, <3>1
    <3>2. CASE r # k
      BY <1>2, <2>1, <3>0, <3>2
    <3>. QED
      BY <3>1, <3>2
  <2>. QED
    BY <1>2, <2>2 DEF RunsOK
<1>. QED
  BY <1>3, <1>4, <1>5, <1>6

(* An abort and a verification write an outcome that is true, or none. *)
LEMMA JudgeKeeps ==
  ASSUME IInv, AbortWrite \/ verifyLiveEntryAcceptanceRun
  PROVE  IInv'
<1>1. TypeOK /\ IntentsOK /\ RunsOK /\ OpsOK /\ IInv
  BY DEF IInv
<1>2. PICK R \in Nat : R = Len(runs) /\ DOMAIN runs = 1..R
  BY <1>1, RowTypes
<1>3. /\ UNCHANGED <<acct, entries, cred, policy, appr, armings, intents, broker, posts, wk, drain, mon>>
      /\ ops \in Requests
  BY <1>1, RunsUnmoved DEF AbortWrite, verifyLiveEntryAcceptanceRun, RequestFrame
<1>4. intents' \in [Intents -> Intent] /\ \A i \in Intents : IntentMove(i)
  BY <1>1, <1>3, Unmoved DEF IntentMove
<1>7. ops \in Requests /\ 0 \in 0..Len(runs)
  BY <1>2, <1>3
<1>5. CASE AbortWrite
  <2>1. PICK k \in 1..Len(runs) : k = ops.aborting
    BY <1>1, <1>2, <1>3, <1>5 DEF AbortWrite, OpsOK, Requests
  <2>2. ops' = [ops EXCEPT !.abort = "none", !.aborting = 0]
    BY <1>5 DEF AbortWrite
  <2>3. /\ ops' \in Requests /\ ops'.abort = "none" /\ ops'.verdict = ops.verdict
        /\ ops'.judging = ops.judging
    BY <1>7, <2>2 DEF Requests
  <2>4. CASE runs' = runs
    BY <1>1, <1>3, <1>4, <2>3, <2>4, RunsUnmoved, IntentKeeps DEF IntentChange
  <2>5. CASE runs[k].out = "none" /\ ~runs[k].claimed /\ runs' = [runs EXCEPT ![k].out = "OPERATOR_ABORTED"]
    <3>1. OpsOK'
      <4>1. ops.verdict # "none" => ops.judging \in 1..R /\ runs[ops.judging].claimed
        BY <1>1, <1>2, <1>3 DEF OpsOK, Requests
      <4>2. ops.verdict # "none" => ops.judging # k
        BY <2>5, <4>1
      <4>3. ops.verdict # "none" => runs'[ops.judging] = runs[ops.judging]
        BY <1>2, <2>5, <4>1, <4>2
      <4>. QED
        BY <1>1, <2>3, <4>1, <4>3 DEF OpsOK
    <3>2. PICK o \in Outcomes \ {"none"} : o = "OPERATOR_ABORTED"
      BY DEF Outcomes
    <3>3. runs' = [runs EXCEPT ![k].out = o] /\ o # "FAILED_SAFE" /\ o # "CANARY_COMPLETE"
      BY <2>5, <3>2
    <3>. QED
      BY <1>1, <1>3, <2>3, <2>5, <3>1, <3>3, OutcomeKeeps
  <2>. QED
    BY <1>5, <2>1, <2>4, <2>5 DEF AbortWrite
<1>6. CASE verifyLiveEntryAcceptanceRun
  <2>1. PICK k \in 1..Len(runs) : k = ops.judging
    BY <1>1, <1>2, <1>3, <1>6 DEF verifyLiveEntryAcceptanceRun, OpsOK, Requests
  <2>2. runs[k].claimed
    BY <1>1, <1>6, <2>1 DEF verifyLiveEntryAcceptanceRun, OpsOK
  <2>3. ops' = [ops EXCEPT !.verdict = "none", !.judging = 0]
    BY <1>6 DEF verifyLiveEntryAcceptanceRun
  <2>4. /\ ops' \in Requests /\ ops'.verdict = "none" /\ ops'.abort = ops.abort
        /\ ops'.aborting = ops.aborting
    BY <1>7, <2>3 DEF Requests
  <2>5. OpsOK'
    BY <1>1, <2>4 DEF OpsOK
  <2>6. CASE runs' = runs
    BY <1>1, <1>3, <1>4, <2>4, <2>6, RunsUnmoved, IntentKeeps DEF IntentChange
  <2>7. CASE runs' = [runs EXCEPT ![k].uncertain = TRUE, ![k].fail = "unsafe"]
    BY <1>1, <1>3, <1>4, <2>4, <2>7, RunsUnmoved, RunEdits, IntentKeeps DEF IntentChange
  <2>8. CASE runs[k].out = "none" /\ Complete(k) /\ runs' = [runs EXCEPT ![k].out = "CANARY_COMPLETE"]
    <3>1. PICK i \in Intents : intents[i].run = k /\ RunIntent(k) = intents[i]
      <4>1. \E i \in Intents : intents[i].run = k
        BY <1>1, <1>2, <2>2, RunRows
      <4>. QED
        BY <4>1 DEF RunIntent
    <3>2. intents[i].st = "filled" /\ armings[runs[k].arming].ended = "CONSUMED"
      BY <2>8, <3>1 DEF Complete
    <3>3. k # 0
      OBVIOUS
    <3>4. \A j \in Intents : intents[j].run = k => broker[j] = "filled"
      BY <1>1, <3>1, <3>2, <3>3 DEF IntentsOK
    <3>5. PICK o \in Outcomes \ {"none"} : o = "CANARY_COMPLETE"
      BY DEF Outcomes
    <3>6. runs' = [runs EXCEPT ![k].out = o] /\ o # "FAILED_SAFE" /\ o # "OPERATOR_ABORTED"
      BY <2>8, <3>5
    <3>. QED
      BY <1>1, <1>3, <2>2, <2>4, <2>5, <2>8, <3>2, <3>4, <3>6, OutcomeKeeps
  <2>9. CASE runs[k].out = "none" /\ FailedSafe(k) /\ runs' = [runs EXCEPT ![k].out = "FAILED_SAFE"]
    <3>1. Stopped(k)
      BY <1>1, <1>2, <2>9 DEF FailedSafe, RunsOK
    <3>. QED
      BY <1>1, <1>3, <2>4, <2>5, <2>9, <3>1, OutcomeKeeps DEF Outcomes
  <2>. QED
    BY <1>6, <2>1, <2>6, <2>7, <2>8, <2>9 DEF verifyLiveEntryAcceptanceRun
<1>. QED
  BY <1>5, <1>6

-----------------------------------------------------------------------------
(* The induction.                                                          *)

(* The initial states satisfy the invariant. *)
LEMMA InitIInv == Init => IInv
<1>. SUFFICES ASSUME Init PROVE IInv
  OBVIOUS
<1>1. /\ armings = <<>> /\ posts = <<>> /\ runs = <<>> /\ wk = Idle /\ drain = "none"
      /\ mon = "idle" /\ ops = NoOps /\ policy \in BOOLEAN /\ cred = "ACTIVE"
      /\ intents = [i \in Intents |-> [st |-> "none", run |-> 0, held |-> FALSE]]
      /\ broker = [i \in Intents |-> "none"]
  BY DEF Init
<1>2. Len(armings) = 0 /\ Len(runs) = 0 /\ DOMAIN runs = {} /\ DOMAIN posts = {}
  BY <1>1
<1>3. acct \in [status : Statuses, open : BOOLEAN, active : 0..Len(armings)] /\ acct.active = 0
  <2>1. PICK s \in Statuses : acct = [status |-> s, open |-> FALSE, active |-> 0]
    BY DEF Init, Statuses
  <2>. QED
    BY <1>2, <2>1
<1>4. entries \in BOOLEAN
  BY Zenon DEF Init
<1>5. appr \in [Capabilities -> Approval]
  <2>1. appr = [ENTRY |-> [status |-> "MISSING", rev |-> 0, fresh |-> FALSE, expired |-> FALSE],
                RISK |-> [status |-> "GRANTED", rev |-> 1, fresh |-> TRUE, expired |-> FALSE]]
    BY DEF Init
  <2>2. \A s \in ApprovalStatuses, n \in Nat, f \in BOOLEAN, x \in BOOLEAN :
          [status |-> s, rev |-> n, fresh |-> f, expired |-> x] \in Approval
    BY DEF Approval
  <2>3. [status |-> "MISSING", rev |-> 0, fresh |-> FALSE, expired |-> FALSE] \in Approval
    BY <2>2 DEF ApprovalStatuses
  <2>4. [status |-> "GRANTED", rev |-> 1, fresh |-> TRUE, expired |-> FALSE] \in Approval
    BY <2>2 DEF ApprovalStatuses
  <2>5. PICK a \in Approval, b \in Approval : appr = [ENTRY |-> a, RISK |-> b]
    BY <2>1, <2>3, <2>4, Zenon
  <2>6. appr = [c \in {"ENTRY", "RISK"} |-> IF c = "ENTRY" THEN a ELSE b]
    BY <2>5
  <2>. QED
    BY <2>6 DEF Capabilities
<1>6. intents \in [Intents -> Intent] /\ \A i \in Intents : intents[i].st = "none" /\ intents[i].run = 0
  BY <1>1, <1>2 DEF Intent
<1>7. ops \in Requests /\ ops.abort = "none" /\ ops.verdict = "none"
  BY <1>1, <1>2 DEF NoOps, Requests
<1>8. wk \in Worker /\ wk.pc = "idle"
  BY <1>1 DEF Worker, Idle
<1>9. /\ armings \in Seq(Arming) /\ posts \in Seq(Submission) /\ runs \in Seq(AcceptanceRun)
      /\ broker \in [Intents -> {"none", "sent", "open", "filled", "dead"}]
  BY <1>1
<1>10. TypeOK
  BY <1>1, <1>2, <1>3, <1>4, <1>5, <1>6, <1>7, <1>8, <1>9 DEF TypeOK
<1>11. DrainOK /\ WorkerOK /\ PostsOK /\ IntentsOK /\ RunsOK /\ OpsOK
  BY <1>1, <1>2, <1>3, <1>6, <1>7, <1>8 DEF DrainOK, WorkerOK, PostsOK, IntentsOK, RunsOK, OpsOK
<1>. QED
  BY <1>10, <1>11 DEF IInv

(* Every step keeps the invariant. *)
LEMMA StepIInv ==
  ASSUME IInv, [Next]_vars
  PROVE  IInv'
<1>1. CASE AccountStep
  BY <1>1, AccountStepChange, AuthorityKeeps
<1>2. CASE ArmingStep
  <2>1. CASE armInsideTransaction
    BY <2>1, ArmKeeps
  <2>2. CASE \/ stageLiveEntryCanary \/ disarmLiveEntries \/ acquireDrain
             \/ monitorLiveEntryArmings \/ MonitorDisarm
    BY <2>2, ArmingStepChange, AuthorityKeeps
  <2>. QED
    BY <1>2, <2>1, <2>2 DEF ArmingStep
<1>3. CASE WorkerStep
  <2>1. ASSUME NEW i \in Intents, submitOrder(i)
        PROVE  IInv'
    <3>1. /\ intents[i].st = "none"
          /\ intents' = [intents EXCEPT ![i] = [st |-> "received", run |-> 0, held |-> TRUE]]
          /\ UNCHANGED <<acct, entries, cred, policy, appr, armings, broker, posts, runs, wk,
                         drain, mon, ops>>
      BY <2>1 DEF submitOrder, admitEntryOrderIntent, AuthorityFrame
    <3>2. 0 \in 0..Len(runs)
      BY RowTypes DEF IInv
    <3>. QED
      BY <3>1, <3>2, AdmitKeeps
  <2>2. ASSUME NEW i \in Intents, BrokerStep(i)
        PROVE  IInv'
    BY <2>2, BrokerKeeps
  <2>3. CASE authorizeAndConsumeNewPositionEntry
    BY <2>3, AuthorizeChange, AuthorityKeeps
  <2>4. CASE Post
    BY <2>4, PostKeeps
  <2>5. CASE Restart
    BY <2>5, ArmingStepChange, AuthorityKeeps
  <2>6. CASE \/ \E i \in Intents : \/ ConcludeAdmission(i) \/ WorkerClaim(i)
                                   \/ recoverStaleSubmittingIntentsForAccount(i)
                                   \/ recoverTerminalEntryClaimsForAccount(i)
             \/ RiskRecheckBlocked \/ LocalFailure \/ EntryRefused \/ PreparationFailed
             \/ RecordAccepted \/ RecordRejected \/ RecordUncertain
             \/ syncSubmittedOrdersForAccountUnlocked
    BY <2>6, WorkerStepChange, IntentKeeps
  <2>. QED
    BY <1>3, <2>1, <2>2, <2>3, <2>4, <2>5, <2>6 DEF WorkerStep
<1>4. CASE AcceptanceStep
  <2>1. ASSUME NEW i \in Intents, executeLiveEntryAcceptanceRun(i)
        PROVE  IInv'
    <3>0. Len(runs) \in Nat /\ LatestRun = Len(runs)
      BY RowTypes DEF IInv, LatestRun
    <3>1. PICK k \in 0..Len(runs) : k = LatestRun
      BY <3>0
    <3>2. /\ k # 0 /\ ~runs[k].claimed /\ runs[k].out = "none" /\ runs[k].arming # 0
          /\ runs' = [runs EXCEPT ![k].claimed = TRUE]
      BY <2>1, <3>1 DEF executeLiveEntryAcceptanceRun, Run, validateActiveLiveEntryArming
    <3>3. /\ intents[i].st = "none"
          /\ intents' = [intents EXCEPT ![i] = [st |-> "received", run |-> k, held |-> TRUE]]
          /\ UNCHANGED <<acct, entries, cred, policy, appr, armings, broker, posts, wk,
                         drain, mon, ops>>
      BY <2>1, <3>1 DEF executeLiveEntryAcceptanceRun, admitEntryOrderIntent, RequestFrame
    <3>. QED
      BY <3>2, <3>3, AdmitKeeps
  <2>2. CASE createLiveEntryAcceptanceRun
    BY <2>2, CreateKeeps
  <2>3. CASE previewLiveEntryAcceptanceRun \/ VerifyUnobserved \/ VerifyUnproven \/ VerifyObserve
    BY <2>3, VerifyStepChange, IntentKeeps
  <2>4. CASE AbortRead \/ AbortDisarm \/ AbortPosture
    BY <2>4, AbortStepChange, AuthorityKeeps
  <2>5. CASE AbortWrite \/ verifyLiveEntryAcceptanceRun
    BY <2>5, JudgeKeeps
  <2>. QED
    BY <1>4, <2>1, <2>2, <2>3, <2>4, <2>5 DEF AcceptanceStep
<1>5. CASE UNCHANGED vars
  <2>1. UNCHANGED <<acct, entries, cred, policy, appr, armings, posts, broker, drain, mon,
                    intents, runs, wk, ops>>
    BY <1>5 DEF vars
  <2>2. intents' \in [Intents -> Intent] /\ \A i \in Intents : IntentMove(i)
    BY <2>1, Unmoved DEF IInv, IntentMove
  <2>. QED
    BY <2>1, <2>2, RunsUnmoved, IntentKeeps DEF IntentChange
<1>. QED
  BY <1>1, <1>2, <1>3, <1>4, <1>5 DEF Next

(* The invariant holds in every reachable state. *)
LEMMA Inductive == Spec => []IInv
  BY InitIInv, StepIInv, PTL DEF Spec

-----------------------------------------------------------------------------
(* The theorems.                                                           *)

(* Every row keeps the shape its table gives it, every numbered reference  *)
(* points at a row that exists, and at most one acceptance run of the      *)
(* account is not terminal: what createLiveEntryAcceptanceRun relies on.   *)
THEOREM TypeCorrect == Spec => []TypeOK
<1>1. IInv => TypeOK
  BY DEF IInv
<1>. QED
  BY <1>1, Inductive, PTL

(* An arming, the ENTRY approval revision it binds and an acceptance run   *)
(* each put at most one entry POST on the wire, however submissions fail,  *)
(* are recovered, or the account is armed again: the one-shot consumption  *)
(* of authorizeAndConsumeNewPositionEntry is exact.                        *)
THEOREM EntryIsOneShot == Spec => []OneShot
<1>1. ASSUME IInv PROVE OneShot
  <2>1. ASSUME NEW m \in DOMAIN posts, NEW n \in DOMAIN posts, m # n
        PROVE  /\ posts[m].arming # posts[n].arming
               /\ posts[m].rev # posts[n].rev
               /\ posts[m].run # 0 => posts[m].run # posts[n].run
    <3>1. /\ posts[m].arming # posts[n].arming /\ posts[m].rev # posts[n].rev
          /\ posts[m].intent # posts[n].intent
          /\ posts[m].run = intents[posts[m].intent].run
          /\ posts[n].run = intents[posts[n].intent].run
      BY <1>1, <2>1 DEF IInv, PostsOK
    <3>2. posts[m].intent \in Intents /\ posts[n].intent \in Intents
      BY <1>1, RowTypes DEF IInv, Submission
    <3>. QED
      BY <1>1, <3>1, <3>2 DEF IInv, IntentsOK
  <2>. QED
    BY <2>1 DEF OneShot
<1>. QED
  BY <1>1, Inductive, PTL

(* A run's terminal outcome is true of the broker: an aborted run sent     *)
(* nothing; a run that failed safe leaves no order, working, filled or     *)
(* still on its way, unless its POST was answered with a 4xx that does not *)
(* settle delivery; a completed canary's order filled under a consumed     *)
(* arming.                                                                 *)
THEOREM OutcomesAreTrue == Spec => []OutcomeIsTrue
<1>1. ASSUME IInv PROVE OutcomeIsTrue
  <2>1. ASSUME NEW r \in DOMAIN runs
        PROVE  /\ runs[r].out = "OPERATOR_ABORTED" => ~RunPosted(r)
               /\ runs[r].out = "FAILED_SAFE" =>
                    RunConflict(r) \/ RunOrders(r) \cap {"sent", "open", "filled"} = {}
               /\ runs[r].out = "CANARY_COMPLETE" =>
                    RunOrders(r) = {"filled"} /\ armings[runs[r].arming].ended = "CONSUMED"
    <3>1. r # 0
      BY <1>1, RowTypes DEF IInv
    <3>2. ASSUME runs[r].out = "OPERATOR_ABORTED", NEW n \in DOMAIN posts, posts[n].run = r
          PROVE  FALSE
      <4>1. ~ runs[r].claimed
        BY <1>1, <3>2 DEF IInv, RunsOK
      <4>2. posts[n].intent \in Intents /\ intents[posts[n].intent].run = r
        BY <1>1, <3>2, RowTypes DEF IInv, PostsOK, Submission
      <4>. QED
        BY <1>1, <3>1, <4>1, <4>2 DEF IInv, IntentsOK
    <3>3. ASSUME runs[r].out = "FAILED_SAFE"
          PROVE  RunConflict(r) \/ RunOrders(r) \cap {"sent", "open", "filled"} = {}
      <4>1. Stopped(r)
        BY <1>1, <3>3 DEF IInv, RunsOK
      <4>. QED
        BY <1>1, <4>1 DEF IInv, PostsOK, Stopped, Settled, RunOrders, RunConflict
    <3>4. ASSUME runs[r].out = "CANARY_COMPLETE"
          PROVE  RunOrders(r) = {"filled"} /\ armings[runs[r].arming].ended = "CONSUMED"
      <4>1. /\ runs[r].claimed /\ armings[runs[r].arming].ended = "CONSUMED"
            /\ \A i \in Intents : intents[i].run = r => broker[i] = "filled"
        BY <1>1, <3>4 DEF IInv, RunsOK
      <4>2. \E i \in Intents : intents[i].run = r
        BY <1>1, <4>1, RunRows DEF IInv
      <4>. QED
        BY <4>1, <4>2 DEF RunOrders
    <3>. QED
      BY <3>2, <3>3, <3>4 DEF RunPosted
  <2>. QED
    BY <2>1 DEF OutcomeIsTrue
<1>. QED
  BY <1>1, Inductive, PTL

(* Once a disarm has drained, no entry POST leaves the process until the   *)
(* account is armed again: a drain that is through has seen the worker     *)
(* idle, and nothing authorizes it while no arming is active.              *)
THEOREM DrainIsQuiet == Spec => DrainedMeansQuiet
<1>1. ASSUME IInv, [Next]_vars
      PROVE  [drain = "drained" => posts' = posts]_vars
  <2>1. ~ Post => posts' = posts
    BY <1>1 DEF Next, AccountStep, ArmingStep, WorkerStep, AcceptanceStep, vars,
       EditEntryConfiguration, EditExitConfiguration, updateTradingAccountSubscriptionForAdmin,
       upsertTradingAccountApiKeyCredential, revokeTradingAccountCredential,
       VerifyCredentialStart, VerifyCredentialFinish, deactivateTradingAccountForAdmin,
       activateTradingAccountForAdmin, grantLiveWriteApproval, Expire, revokeEntryApproval,
       revokeRiskApprovalCheck, revokeRiskApprovalCommit,
       stageLiveEntryCanary, armInsideTransaction, disarmLiveEntries, acquireDrain,
       monitorLiveEntryArmings, MonitorDisarm,
       submitOrder, ConcludeAdmission, WorkerClaim, recoverStaleSubmittingIntentsForAccount,
       recoverTerminalEntryClaimsForAccount, BrokerStep, RiskRecheckBlocked, LocalFailure, EntryRefused,
       authorizeAndConsumeNewPositionEntry, PreparationFailed, RecordAccepted, RecordRejected,
       RecordUncertain, syncSubmittedOrdersForAccountUnlocked, Restart,
       createLiveEntryAcceptanceRun, previewLiveEntryAcceptanceRun,
       executeLiveEntryAcceptanceRun, AbortRead, AbortDisarm, AbortPosture, AbortWrite,
       VerifyUnobserved, VerifyUnproven, VerifyObserve, verifyLiveEntryAcceptanceRun, RequestFrame
  <2>2. Post => drain # "drained"
    BY <1>1 DEF IInv, DrainOK, Post
  <2>. QED
    BY <2>1, <2>2
<1>2. Spec => [][Next]_vars
  BY PTL DEF Spec
<1>. QED
  BY <1>1, <1>2, Inductive, PTL DEF DrainedMeansQuiet
=============================================================================
