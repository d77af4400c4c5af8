------------------------ MODULE MomentumPipelineProofs ------------------------
(***************************************************************************)
(* Proofs about the momentum pipeline, for every set of articles and every *)
(* bound.  Neither of the two safety properties is inductive.  That the    *)
(* cursor skips only ties, and what was too old for the first pull, needs  *)
(* where a tick asked from (SinceOK) and what the page it fetched says     *)
(* about the feed until the cursor is written (PageOK); that a delivered   *)
(* handoff stays out of the queue needs what a run read about a row before *)
(* it writes it (RunOK).                                                   *)
(***************************************************************************)
EXTENDS MomentumPipeline, TLAPS, SequenceTheorems, FiniteSetTheorems, NatSets

(* A tick asked from the cursor, or from the lookback window while there   *)
(* was none; the flag "running" keeps both as they were.                   *)
SinceOK == news.pc # "idle" => news.since = IF cursor = 0 THEN floor ELSE cursor

(* A page in hand holds the oldest articles after "since", and those it no *)
(* longer has to do are dealt with.                                        *)
PageOK ==
  news.pc = "ingest" =>
    /\ \A a \in feed : pub[a] > news.since =>
         a \in Range(news.page) \/ \A i \in DOMAIN news.page : pub[news.page[i]] <= pub[a]
    /\ \A i \in 1..Ingested : news.page[i] \in seen

Known == {c \in Positive : cand[c].state # "none"}

(* What a run holds between two statements. *)
RunOK ==
  \A r \in Runs :
    /\ run[r].pc = "upsert" => run[r].todo \subseteq impacts
    /\ run[r].pc \in {"confirm", "check", "write", "cancel", "prepare", "create"}
         => run[r].todo \subseteq Known
    /\ run[r].at # NoCandidate => run[r].at \in Known
    /\ run[r].pc = "write" => run[r].out # "none"
    /\ run[r].pc = "create" => run[r].ready \/ run[r].force

(* A row that was marked, or that the delivery workflow has read, exists. *)
RowOK ==
  /\ \A c \in Positive : delivered[c] => hand[c] \in {"sent", "closed"}
  /\ \A c \in n8n : hand[c] # "none"

(* The cursor is the time of an article that was dealt with. *)
CursorOK == cursor # 0 => \E b \in seen : pub[b] = cursor

(* What the cursor has passed: for every article, usable or not. *)
SkipOK ==
  \A a \in feed \ seen : pub[a] <= cursor =>
    pub[a] <= floor \/ \E b \in seen : pub[b] = pub[a]

IInv == TypeOK /\ SinceOK /\ PageOK /\ CursorOK /\ SkipOK /\ RunOK /\ RowOK

-----------------------------------------------------------------------------
(* Pages and the newest publication time *)

(* What Max chooses from a bounded set of naturals. *)
LEMMA MaxOf ==
  ASSUME NEW n \in Nat, NEW S, S \subseteq 0..n, S # {}
  PROVE  Max(S) \in S /\ \A y \in S : y <= Max(S)
  <1>1. PICK k \in S : \A j \in S : j <= k
    BY LatestExists
  <1>2. \A j \in S : k >= j
    BY <1>1
  <1>3. Max(S) \in S /\ \A y \in S : Max(S) >= y
    BY <1>1, <1>2 DEF Max
  <1> QED BY <1>3

(* Newest is the time of an article of the page and no article of the page *)
(* is newer, or the page is empty.                                         *)
LEMMA NewestOf ==
  ASSUME NewsTypeOK
  PROVE  LET m == Newest(news.page)
         IN  /\ m \in 0..MaxPub
             /\ \A i \in DOMAIN news.page : pub[news.page[i]] <= m
             /\ m # 0 => \E i \in DOMAIN news.page : pub[news.page[i]] = m
  <1> DEFINE S == {pub[news.page[i]] : i \in DOMAIN news.page} \cup {0}
  <1>1. ASSUME NEW i \in DOMAIN news.page PROVE pub[news.page[i]] \in 1..MaxPub
    <2>1. news.page[i] \in Articles
      BY DEF NewsTypeOK
    <2> QED BY <2>1 DEF NewsTypeOK
  <1>3. MaxPub \in Nat
    BY NewsAssumption
  <1>2. S \subseteq 0..MaxPub /\ S # {}
    BY <1>1, <1>3
  <1> HIDE DEF S
  <1>4. Max(S) \in S /\ \A y \in S : y <= Max(S)
    BY <1>2, <1>3, MaxOf
  <1>5. Newest(news.page) = Max(S)
    BY DEF Newest, S
  <1> QED BY <1>2, <1>4, <1>5 DEF S

(* The provider answers with a sequence of articles after the time asked   *)
(* for that leaves out none older than one it holds.                       *)
LEMMA PageType ==
  ASSUME NewsTypeOK, NEW p \in Pages(news.since)
  PROVE  /\ p \in Seq(feed)
         /\ \A a \in feed : pub[a] > news.since =>
              a \in Range(p) \/ \A i \in DOMAIN p : pub[p[i]] <= pub[a]
  <1> DEFINE after == {a \in feed : pub[a] > news.since}
             size  == Min({Limit, Cardinality(after)})
  <1>1. IsFiniteSet(after)
    BY NewsAssumption, FS_Subset DEF NewsTypeOK
  <1>2. Limit \in Nat /\ Cardinality(after) \in Nat
    BY <1>1, NewsAssumption, FS_CardinalityType
  <1>3. size \in Nat
    <2>1. \E x \in {Limit, Cardinality(after)} : \A y \in {Limit, Cardinality(after)} : x =< y
      BY <1>2
    <2>2. size \in {Limit, Cardinality(after)}
      BY <2>1 DEF Min
    <2> QED BY <1>2, <2>2
  <1>4. /\ p \in [1..size -> after]
        /\ \A a \in after \ Range(p) : \A i \in 1..size : pub[p[i]] <= pub[a]
    BY DEF Pages
  <1> HIDE DEF size
  <1>5. p \in [1..size -> feed] /\ DOMAIN p = 1..size
    BY <1>4
  <1>6. p \in Seq(feed)
    BY <1>3, <1>5, SeqDef
  <1> QED BY <1>4, <1>5, <1>6

-----------------------------------------------------------------------------
(* The NEWS stage *)

NewsInv == NewsTypeOK /\ SinceOK /\ PageOK /\ CursorOK /\ SkipOK

(* A fetched page is remembered with what it says of the feed. *)
LEMMA FetchKeeps ==
  ASSUME NewsInv, NEW p \in Pages(news.since), fetchMassiveNews(p)
  PROVE  NewsInv' /\ news'.owner = news.owner
  <1>1. p \in Seq(feed) /\ Len(p) \in Nat
    BY PageType DEF NewsInv
  <1>2. /\ news' = [owner |-> news.owner, pc |-> "ingest", since |-> news.since, page |-> p, todo |-> p]
        /\ UNCHANGED <<pub, feed, cursor, window, floor, seen, impacts, member>>
    BY DEF fetchMassiveNews, NewsInv, NewsTypeOK
  <1>3. Ingested' = 0
    BY <1>1, <1>2 DEF Ingested
  <1>4. p = SubSeq(p, 1, Len(p))
    BY <1>1
  <1>5. NewsTypeOK'
    BY <1>1, <1>2, <1>3, <1>4 DEF NewsInv, NewsTypeOK, fetchMassiveNews
  <1>6. PageOK'
    BY <1>2, <1>3, PageType DEF NewsInv, PageOK
  <1>7. SkipOK' /\ CursorOK' /\ SinceOK'
    BY <1>2 DEF NewsInv, SkipOK, CursorOK, SinceOK, fetchMassiveNews
  <1> QED BY <1>2, <1>5, <1>6, <1>7 DEF NewsInv

(* Ingesting the next article of the page. *)
LEMMA IngestKeeps ==
  ASSUME NewsInv, ingestMassiveArticle
  PROVE  NewsInv' /\ news'.owner = news.owner /\ impacts \subseteq impacts'
  <1>1. /\ news.page \in Seq(feed) /\ news.todo \in Seq(feed) /\ news.todo # <<>>
        /\ Ingested >= 0 /\ news.todo = SubSeq(news.page, Ingested + 1, Len(news.page))
    BY DEF ingestMassiveArticle, NewsInv, NewsTypeOK
  <1>2. PICK page \in Seq(feed), todo \in Seq(feed) : page = news.page /\ todo = news.todo
    BY <1>1
  <1>4. PICK n \in Nat : n = Ingested /\ n = Len(page) - Len(todo)
    <2>1. Len(page) \in Nat /\ Len(todo) \in Nat
      BY LenProperties
    <2>2. Ingested = Len(page) - Len(todo)
      BY <1>2 DEF Ingested
    <2>3. Ingested >= 0
      BY <1>1
    <2>4. Ingested \in Nat
      BY <2>1, <2>2, <2>3
    <2> QED BY <2>2, <2>4
  <1>3. /\ n + 1 \in 1..Len(page)
        /\ Head(todo) = page[n + 1] /\ Head(todo) \in feed
        /\ Tail(todo) \in Seq(feed) /\ Len(Tail(todo)) = Len(todo) - 1
        /\ Tail(todo) = SubSeq(page, n + 2, Len(page))
    <2>1. todo # <<>> /\ todo = SubSeq(page, n + 1, Len(page))
      BY <1>1, <1>2, <1>4
    <2>2. Len(todo) \in Nat \ {0} /\ Len(page) \in Nat
      BY <2>1, EmptySeq, LenProperties
    <2>3. n + 1 \in 1..Len(page) /\ Len(page) \in (n + 1)..Len(page)
      BY <1>4, <2>2
    <2>4. Head(todo) = page[n + 1] /\ Tail(todo) = SubSeq(page, n + 1 + 1, Len(page))
      BY <2>1, <2>3, HeadTailOfSubSeq
    <2>5. Head(todo) \in feed /\ Tail(todo) \in Seq(feed) /\ Len(Tail(todo)) = Len(todo) - 1
      BY <2>1, HeadTailProperties
    <2>6. n + 1 + 1 = n + 2
      OBVIOUS
    <2> QED BY <2>3, <2>4, <2>5, <2>6
  <1>5. /\ news' = [owner |-> news.owner, pc |-> "ingest", since |-> news.since, page |-> page, todo |-> Tail(todo)]
        /\ seen' = seen \cup {Head(todo)} /\ impacts' = impacts \cup ({Head(todo)} \cap Usable)
        /\ UNCHANGED <<pub, feed, cursor, window, floor, member>>
    BY <1>2 DEF ingestMassiveArticle, NewsInv, NewsTypeOK
  <1>6. Ingested' = n + 1
    <2>1. Ingested' = Len(page) - Len(Tail(todo))
      BY <1>5 DEF Ingested
    <2>2. Len(page) \in Nat /\ Len(todo) \in Nat
      BY LenProperties
    <2> QED BY <1>3, <1>4, <2>1, <2>2
  <1>7. NewsTypeOK'
    <2>1. news' \in [owner : Runs \cup {NoOne}, pc : {"idle", "fetch", "ingest"},
                     since : 0..MaxPub, page : Seq(feed), todo : Seq(feed)]
      BY <1>1, <1>3, <1>5 DEF NewsInv, NewsTypeOK
    <2>2. /\ Ingested' >= 0
          /\ news'.todo = SubSeq(news'.page, Ingested' + 1, Len(news'.page))
      BY <1>2, <1>3, <1>5, <1>6
    <2>3. news.owner # NoOne
      BY DEF NewsInv, NewsTypeOK, ingestMassiveArticle
    <2> QED BY <1>3, <1>5, <2>1, <2>2, <2>3 DEF NewsInv, NewsTypeOK
  <1>8. PageOK'
    <2>1. \A i \in 1..n : page[i] \in seen
      BY <1>2, <1>4 DEF NewsInv, PageOK, ingestMassiveArticle
    <2>2. \A i \in 1..(n + 1) : page[i] \in seen'
      BY <1>2, <1>3, <1>5, <2>1
    <2> QED BY <1>2, <1>5, <1>6, <2>2 DEF NewsInv, PageOK, ingestMassiveArticle
  <1>9. SkipOK' /\ CursorOK' /\ SinceOK'
    BY <1>5 DEF NewsInv, SkipOK, CursorOK, SinceOK, ingestMassiveArticle
  <1> QED BY <1>5, <1>7, <1>8, <1>9 DEF NewsInv

(* An empty tick is a news record, and says nothing. *)
LEMMA FinishedKeeps ==
  ASSUME NewsInv, NewsFinished, UNCHANGED <<pub, feed, window, floor, seen, impacts, member>>,
         cursor' \in 0..MaxPub, SkipOK', CursorOK'
  PROVE  NewsInv' /\ news'.owner = NoOne
  <1>1. news' = NoNews /\ news'.pc = "idle" /\ news'.owner = NoOne
    BY DEF NewsFinished, NoNews
  <1>2. Ingested' = 0
    BY <1>1 DEF Ingested, NoNews
  <1>3. NewsTypeOK'
    <2>1. <<>> \in Seq(feed) /\ <<>> = SubSeq(<<>>, 1, 0) /\ Len(<<>>) = 0
      OBVIOUS
    <2>2. news' \in [owner : Runs \cup {NoOne}, pc : {"idle", "fetch", "ingest"},
                     since : 0..MaxPub, page : Seq(feed), todo : Seq(feed)]
      BY <1>1, <2>1, NewsAssumption DEF NoNews
    <2> QED BY <1>1, <1>2, <2>1, <2>2 DEF NewsInv, NewsTypeOK, NoNews
  <1>4. PageOK' /\ SinceOK'
    BY <1>1 DEF PageOK, SinceOK
  <1> QED BY <1>1, <1>3, <1>4 DEF NewsInv

(* The cursor moves to the newest article of a page that is ingested as a  *)
(* whole: what it passes was ingested, or is as old as the newest.         *)
LEMMA CursorKeeps ==
  ASSUME NewsInv, recordNewsPullCursorSuccess
  PROVE  NewsInv' /\ news'.owner = NoOne
  <1> DEFINE m == Newest(news.page)
  <1>1. /\ m \in 0..MaxPub
        /\ \A i \in DOMAIN news.page : pub[news.page[i]] <= m
        /\ m # 0 => \E i \in DOMAIN news.page : pub[news.page[i]] = m
    BY NewestOf DEF NewsInv
  <1> HIDE DEF m
  <1>2. cursor' = IF m = 0 THEN cursor ELSE m
    BY DEF recordNewsPullCursorSuccess, m
  <1>3. UNCHANGED <<pub, feed, window, floor, seen, impacts, member>> /\ NewsFinished /\ news.pc = "ingest"
    BY DEF recordNewsPullCursorSuccess
  <1>4. cursor' \in 0..MaxPub
    BY <1>1, <1>2 DEF NewsInv, NewsTypeOK
  <1>5. \A i \in DOMAIN news.page : news.page[i] \in seen
    <2>1. news.page \in Seq(feed) /\ Ingested = Len(news.page)
      BY DEF recordNewsPullCursorSuccess, Ingested, NewsInv, NewsTypeOK
    <2> QED BY <1>3, <2>1 DEF NewsInv, PageOK
  <1>6. SkipOK'
    <2>1. SUFFICES ASSUME NEW a \in feed, a \notin seen, pub[a] <= cursor', ~ (pub[a] <= floor)
                   PROVE  \E b \in seen : pub[b] = pub[a]
      BY <1>3 DEF SkipOK
    <2>2. CASE pub[a] <= cursor
      BY <2>1, <2>2 DEF NewsInv, SkipOK
    <2>3. CASE ~ (pub[a] <= cursor)
      <3>1. /\ cursor' = m /\ m # 0 /\ pub[a] \in Nat /\ cursor \in Nat /\ m \in Nat
            /\ pub[a] > cursor
        BY <1>1, <1>2, <2>1, <2>3 DEF NewsInv, NewsTypeOK
      <3>6. pub[a] > news.since
        BY <1>3, <2>1, <3>1 DEF NewsInv, NewsTypeOK, SinceOK
      <3>2. PICK i \in DOMAIN news.page : pub[news.page[i]] = m
        BY <1>1, <3>1
      <3>3. a \notin Range(news.page)
        BY <1>5, <2>1 DEF Range
      <3>4. m <= pub[a]
        BY <1>3, <3>2, <3>3, <3>6 DEF NewsInv, PageOK
      <3>5. pub[a] = m
        BY <2>1, <3>1, <3>4
      <3> QED BY <1>5, <3>2, <3>5
    <2> QED BY <2>2, <2>3
  <1>7. CursorOK'
    BY <1>1, <1>2, <1>3, <1>5 DEF NewsInv, CursorOK
  <1> QED BY <1>3, <1>4, <1>6, <1>7, FinishedKeeps

(* The provider shows an article that is not older than those it shows.    *)
LEMMA PublishKeeps ==
  ASSUME NewsInv, NEW a \in Articles, Publish(a)
  PROVE  NewsInv' /\ UNCHANGED <<impacts, news>>
  <1>1. /\ feed' = feed \cup {a} /\ UNCHANGED <<pub, cursor, window, floor, seen, impacts, member, news>>
        /\ \A b \in feed : pub[b] <= pub[a]
        /\ a \notin feed
    BY DEF Publish
  <1>2. NewsTypeOK'
    <2>1. news.page \in Seq(feed') /\ news.todo \in Seq(feed')
      BY <1>1, SeqMonotonic DEF NewsInv, NewsTypeOK
    <2> QED BY <1>1, <2>1 DEF NewsInv, NewsTypeOK, Ingested
  <1>3. PageOK'
    <2>1. \A i \in DOMAIN news.page : news.page[i] \in feed
      BY DEF NewsInv, NewsTypeOK
    <2> QED BY <1>1, <2>1 DEF NewsInv, PageOK, Ingested
  <1>4. CursorOK' /\ SinceOK'
    BY <1>1 DEF NewsInv, CursorOK, SinceOK
  <1>5. SkipOK'
    <2>1. SUFFICES ASSUME pub[a] <= cursor PROVE \E b \in seen : pub[b] = pub[a]
      BY <1>1 DEF NewsInv, SkipOK
    <2>2. cursor \in Nat /\ pub[a] \in Nat \ {0}
      BY DEF NewsInv, NewsTypeOK
    <2>3. PICK b \in seen : pub[b] = cursor
      BY <2>1, <2>2 DEF NewsInv, CursorOK
    <2>4. pub[b] <= pub[a]
      BY <1>1 DEF NewsInv, NewsTypeOK
    <2> QED BY <2>1, <2>2, <2>3, <2>4
  <1> QED BY <1>1, <1>2, <1>3, <1>4, <1>5 DEF NewsInv

(* Time passing for the lookback touches no pull. *)
LEMMA WindowKeeps ==
  ASSUME NewsInv, MoveWindow
  PROVE  NewsInv' /\ UNCHANGED <<impacts, news>>
  <1>1. window' \in 0..MaxPub
    BY NewsAssumption DEF MoveWindow, NewsInv, NewsTypeOK
  <1> QED BY <1>1 DEF MoveWindow, NewsInv, NewsTypeOK, SinceOK, PageOK, CursorOK, SkipOK, Ingested

-----------------------------------------------------------------------------
(* Candidates, runs and handoffs *)

RestInv ==
  /\ CandidateTypeOK /\ HandoffTypeOK /\ RunOK /\ RowOK
  /\ events \in 0..MaxEvents

RunType == [pc : RunPcs, now : 0..MaxClock, todo : SUBSET Positive,
            at : Positive \cup {NoCandidate}, out : States, ready : BOOLEAN, force : BOOLEAN]

(* What RunOK and the type say of one run. *)
GoodRun(r, q) ==
  /\ q \in RunType
  /\ q.now <= clock
  /\ news.owner = r => q.pc = "news"
  /\ q.pc \in {"check", "write", "create"} <=> q.at # NoCandidate
  /\ q.pc = "upsert" => q.todo \subseteq impacts
  /\ q.pc \in {"confirm", "check", "write", "cancel", "prepare", "create"} => q.todo \subseteq Known
  /\ q.at # NoCandidate => q.at \in Known
  /\ q.pc = "write" => q.out # "none"
  /\ q.pc = "create" => q.ready \/ q.force

CandType == [state : States, expiresAt : 0..(MaxClock + Lifetime), confirmed : BOOLEAN]

(* RestInv, one run, one candidate and one row at a time. *)
LEMMA RestSplit ==
  RestInv <=> /\ clock \in 0..MaxClock /\ events \in 0..MaxEvents
              /\ cand \in [Positive -> CandType] /\ Known \subseteq impacts
              /\ DOMAIN run = Runs /\ run = [r \in Runs |-> run[r]]
              /\ \A r \in Runs : GoodRun(r, run[r])
              /\ HandoffTypeOK /\ RowOK
  <1>1. CandidateTypeOK <=> /\ clock \in 0..MaxClock
                            /\ cand \in [Positive -> CandType] /\ Known \subseteq impacts
                            /\ run \in [Runs -> RunType]
                            /\ \A r \in Runs :
                                 /\ run[r].now <= clock
                                 /\ news.owner = r => run[r].pc = "news"
                                 /\ (run[r].pc \in {"check", "write", "create"}) = (run[r].at # NoCandidate)
    BY DEF CandidateTypeOK, CandType, RunType, Known
  <1>2. run \in [Runs -> RunType] <=> /\ run = [r \in Runs |-> run[r]]
                                      /\ \A r \in Runs : run[r] \in RunType
    OBVIOUS
  <1>3. DOMAIN [r \in Runs |-> run[r]] = Runs
    OBVIOUS
  <1> QED BY <1>1, <1>2, <1>3 DEF RestInv, RunOK, GoodRun

(* The same in the next state. *)
LEMMA RestSplitNext ==
  RestInv' <=> /\ clock' \in 0..MaxClock /\ events' \in 0..MaxEvents
               /\ cand' \in [Positive -> CandType] /\ Known' \subseteq impacts'
               /\ DOMAIN run' = Runs /\ run' = [r \in Runs |-> run'[r]]
               /\ \A r \in Runs : GoodRun(r, run[r])'
               /\ HandoffTypeOK' /\ RowOK'
  <1>1. CandidateTypeOK' <=> /\ clock' \in 0..MaxClock
                             /\ cand' \in [Positive -> CandType] /\ Known' \subseteq impacts'
                             /\ run' \in [Runs -> RunType]
                             /\ \A r \in Runs :
                                  /\ run'[r].now <= clock'
                                  /\ news'.owner = r => run'[r].pc = "news"
                                  /\ (run'[r].pc \in {"check", "write", "create"})
                                       = (run'[r].at # NoCandidate)
    BY DEF CandidateTypeOK, CandType, RunType, Known
  <1>2. run' \in [Runs -> RunType] <=> /\ run' = [r \in Runs |-> run'[r]]
                                       /\ \A r \in Runs : run'[r] \in RunType
    OBVIOUS
  <1>3. DOMAIN [r \in Runs |-> run'[r]] = Runs
    OBVIOUS
  <1> QED BY <1>1, <1>2, <1>3 DEF RestInv, RunOK, GoodRun

(* A step of one run, or none: whatever it read stays known and ingested,  *)
(* so the other runs are as good as before.                                *)
LEMMA OneRun ==
  ASSUME RestInv, NEW r \in Runs, run' = [run EXCEPT ![r] = run'[r]], GoodRun(r, run[r])',
         UNCHANGED clock, events' \in 0..MaxEvents, news'.owner \in {NoOne, news.owner, r},
         impacts \subseteq impacts', cand' \in [Positive -> CandType],
         Known \subseteq Known', Known' \subseteq impacts', HandoffTypeOK', RowOK'
  PROVE  RestInv'
  <1>1. ASSUME NEW x \in Runs, x # r PROVE GoodRun(x, run[x])'
    <2>1. GoodRun(x, run[x]) /\ run'[x] = run[x]
      BY <1>1, RestSplit
    <2>2. NoOne # x
      BY NewsAssumption DEF NoOne, Runs
    <2> QED BY <1>1, <2>1, <2>2 DEF GoodRun
  <1>2. run' = [x \in Runs |-> run'[x]] /\ DOMAIN run' = Runs
    BY RestSplit
  <1> QED BY <1>1, <1>2, RestSplit, RestSplitNext

(* The rows and the delivery workflow's list are untouched by a step that  *)
(* leaves every candidate known.                                           *)
LEMMA RowsKept ==
  ASSUME RestInv, UNCHANGED handVars, Known \subseteq Known'
  PROVE  HandoffTypeOK' /\ RowOK'
  BY DEF RestInv, HandoffTypeOK, RowOK, handVars, Known

(* The stages that write candidates. *)
LEMMA CandidateKeeps ==
  ASSUME RestInv, NEW r \in Runs, CandidateStage(r)
  PROVE  RestInv'
  <1> USE CandidateAssumption
  <1>0. /\ clock \in 0..MaxClock /\ events \in 0..MaxEvents
        /\ cand \in [Positive -> CandType] /\ Known \subseteq impacts
        /\ run = [x \in Runs |-> run[x]] /\ GoodRun(r, run[r])
        /\ UNCHANGED <<clock, events, impacts>> /\ news'.owner = news.owner
        /\ UNCHANGED <<newsVars, clock, handVars, events>>
    BY RestSplit DEF CandidateStage, newsVars
  <1>1. ASSUME run' = [run EXCEPT ![r] = run'[r]], GoodRun(r, run[r])',
               cand' \in [Positive -> CandType], Known \subseteq Known', Known' \subseteq impacts
        PROVE  RestInv'
    BY <1>0, <1>1, RowsKept, OneRun
  <1>2. ASSUME UNCHANGED cand
        PROVE  Known' = Known /\ cand' \in [Positive -> CandType]
    BY <1>0, <1>2 DEF Known
  <1>3. CASE expireStaleMomentumCandidates(r)
    <2>1. /\ run' = [run EXCEPT ![r] = run'[r]]
          /\ run'[r] = [run[r] EXCEPT !.pc = "generate", !.todo = {}]
      BY <1>0, <1>3 DEF expireStaleMomentumCandidates, Goto
    <2>2. cand' \in [Positive -> CandType] /\ Known' = Known
      BY <1>0, <1>3 DEF expireStaleMomentumCandidates, Known, CandType, States, ActiveWhere, Active
    <2>3. GoodRun(r, run[r])'
      BY <1>0, <1>3, <2>1, <2>2 DEF expireStaleMomentumCandidates, GoodRun, RunType, RunPcs
    <2> QED BY <1>0, <1>1, <2>1, <2>2, <2>3
  <1>4. CASE GenerateRead(r)
    <2> DEFINE t == IF member THEN impacts \cap Positive ELSE {}
               b == \E c \in Positive : cand[c].state \in Active /\ ~Lapsed(c, run[r].now)
    <2>1. run' = [run EXCEPT ![r].pc = "upsert", ![r].todo = t, ![r].ready = b]
      BY <1>4 DEF GenerateRead
    <2>2. t \subseteq Positive /\ t \subseteq impacts /\ b \in BOOLEAN
      OBVIOUS
    <2> HIDE DEF t, b
    <2>3. /\ run' = [run EXCEPT ![r] = run'[r]] /\ UNCHANGED cand
          /\ run'[r] = [run[r] EXCEPT !.pc = "upsert", !.todo = t, !.ready = b]
      BY <1>0, <1>4, <2>1 DEF GenerateRead
    <2>4. GoodRun(r, run[r])'
      BY <1>0, <1>2, <1>4, <2>2, <2>3 DEF GenerateRead, GoodRun, RunType, RunPcs
    <2> QED BY <1>0, <1>1, <1>2, <2>3, <2>4
  <1>5. ASSUME NEW c \in Positive, GenerateUpsert(r, c) PROVE RestInv'
    <2>1. /\ run' = [run EXCEPT ![r] = run'[r]]
          /\ run'[r] = [run[r] EXCEPT !.todo = @ \ {c}, !.ready = TRUE]
      BY <1>0, <1>5 DEF GenerateUpsert
    <2>2. c \in impacts /\ run[r].pc = "upsert"
      BY <1>0, <1>5 DEF GenerateUpsert, GoodRun
    <2>3. /\ cand' \in [Positive -> CandType]
          /\ Known \subseteq Known' /\ Known' \subseteq Known \cup {c}
      <3>1. run[r].now + Lifetime \in 0..(MaxClock + Lifetime)
        BY <1>0 DEF GoodRun, RunType
      <3>2. CASE UNCHANGED cand
        BY <1>2, <3>2
      <3>3. CASE cand' = [cand EXCEPT ![c] = [state |-> "watching", confirmed |-> FALSE,
                                              expiresAt |-> run[r].now + Lifetime]]
        BY <1>0, <3>1, <3>3 DEF Known, CandType, States, Active
      <3> QED BY <1>5, <3>2, <3>3 DEF GenerateUpsert
    <2>4. GoodRun(r, run[r])'
      BY <1>0, <2>1, <2>2, <2>3 DEF GoodRun, RunType, RunPcs
    <2> QED BY <1>0, <1>1, <2>1, <2>2, <2>3, <2>4
  <1>6. CASE ConfirmList(r)
    <2>1. /\ run' = [run EXCEPT ![r] = run'[r]] /\ UNCHANGED cand
          /\ run'[r] = [run[r] EXCEPT !.pc = "confirm", !.ready = FALSE,
                                      !.todo = {c \in Positive : cand[c].state \in Active}]
      BY <1>0, <1>6 DEF ConfirmList
    <2>2. {c \in Positive : cand[c].state \in Active} \subseteq Known
      BY DEF Known, Active
    <2>3. GoodRun(r, run[r])'
      BY <1>0, <1>2, <1>6, <2>1, <2>2 DEF ConfirmList, GoodRun, RunType, RunPcs
    <2> QED BY <1>0, <1>1, <1>2, <2>1, <2>3
  <1>7. ASSUME NEW c \in Positive, ConfirmRead(r, c) PROVE RestInv'
    <2>1. /\ run' = [run EXCEPT ![r] = run'[r]] /\ UNCHANGED cand
          /\ run'[r] = [run[r] EXCEPT !.pc = "check", !.at = c, !.todo = @ \ {c}]
      BY <1>0, <1>7 DEF ConfirmRead, Take
    <2>2. GoodRun(r, run[r])'
      BY <1>0, <1>2, <1>7, <2>1 DEF ConfirmRead, GoodRun, RunType, RunPcs
    <2> QED BY <1>0, <1>1, <1>2, <2>1, <2>2
  <1>8. ASSUME NEW c \in Positive, ConfirmSkip(r, c) PROVE RestInv'
    <2>1. /\ run' = [run EXCEPT ![r] = run'[r]] /\ UNCHANGED cand
          /\ run'[r] = [run[r] EXCEPT !.pc = "confirm", !.todo = run[r].todo \ {c}]
      BY <1>0, <1>8 DEF ConfirmSkip, Goto
    <2>2. GoodRun(r, run[r])'
      BY <1>0, <1>2, <1>8, <2>1 DEF ConfirmSkip, GoodRun, RunType, RunPcs
    <2> QED BY <1>0, <1>1, <1>2, <2>1, <2>2
  <1>9. CASE ConfirmError(r)
    <2>1. /\ run' = [run EXCEPT ![r] = run'[r]] /\ UNCHANGED cand
          /\ run'[r] = [run[r] EXCEPT !.pc = "confirm", !.at = NoCandidate,
                                      !.out = "none", !.ready = FALSE]
      BY <1>0, <1>9 DEF ConfirmError, Leave
    <2>2. GoodRun(r, run[r])'
      BY <1>0, <1>2, <1>9, <2>1 DEF ConfirmError, GoodRun, RunType, RunPcs, States
    <2> QED BY <1>0, <1>1, <1>2, <2>1, <2>2
  <1>10. ASSUME NEW b1 \in BOOLEAN, NEW b2 \in BOOLEAN, NEW b3 \in BOOLEAN,
                CreatePriceCheck(r, b1, b2, b3)
         PROVE  RestInv'
    <2>1. PICK o \in {"expired", "entry_ready", "watching"} :
            /\ cand' = [cand EXCEPT ![run[r].at].confirmed = (o = "entry_ready")]
            /\ run' = [run EXCEPT ![r].pc = "write", ![r].out = o]
      BY <1>10 DEF CreatePriceCheck, decideMomentumConfirmation
    <2>2. run[r].at \in Positive /\ run[r].pc = "check"
      BY <1>0, <1>10 DEF CreatePriceCheck, GoodRun, RunType
    <2>3. cand' \in [Positive -> CandType] /\ Known' = Known
      BY <1>0, <2>1, <2>2 DEF Known, CandType
    <2>4. /\ run' = [run EXCEPT ![r] = run'[r]]
          /\ run'[r] = [run[r] EXCEPT !.pc = "write", !.out = o]
      BY <1>0, <2>1
    <2>5. GoodRun(r, run[r])'
      BY <1>0, <2>2, <2>3, <2>4 DEF GoodRun, RunType, RunPcs, States, Active
    <2> QED BY <1>0, <1>1, <2>3, <2>4, <2>5
  <1>11. CASE UpdateCandidate(r)
    <2>1. /\ run' = [run EXCEPT ![r] = run'[r]]
          /\ run'[r] = [run[r] EXCEPT !.pc = "confirm", !.at = NoCandidate,
                                      !.out = "none", !.ready = FALSE]
      BY <1>0, <1>11 DEF UpdateCandidate, Leave
    <2>2. run[r].pc = "write" /\ run[r].at \in Known /\ run[r].out \in States \ {"none"}
      BY <1>0, <1>11 DEF UpdateCandidate, GoodRun, RunType
    <2>3. cand' \in [Positive -> CandType] /\ Known' = Known
      BY <1>0, <1>11, <2>2 DEF UpdateCandidate, Known, CandType
    <2>4. GoodRun(r, run[r])'
      BY <1>0, <2>1, <2>2, <2>3 DEF GoodRun, RunType, RunPcs, States
    <2> QED BY <1>0, <1>1, <2>1, <2>3, <2>4
  <1> QED BY <1>3, <1>4, <1>5, <1>6, <1>7, <1>8, <1>9, <1>10, <1>11 DEF CandidateStage

(* The preparation stage.  Between the read of a row and its write the row *)
(* may have been created, delivered and cancelled; what the run remembers  *)
(* (it found no row, or it was forced) is enough.                          *)
LEMMA HandoffKeeps ==
  ASSUME RestInv, NEW r \in Runs, HandoffStage(r)
  PROVE  RestInv'
  <1> USE CandidateAssumption
  <1>0. /\ clock \in 0..MaxClock /\ events \in 0..MaxEvents
        /\ cand \in [Positive -> CandType] /\ Known \subseteq impacts
        /\ run = [x \in Runs |-> run[x]] /\ GoodRun(r, run[r])
        /\ UNCHANGED <<clock, events, impacts>> /\ news'.owner = news.owner
        /\ HandoffTypeOK /\ RowOK
    BY RestSplit DEF HandoffStage, newsVars
  <1>a. UNCHANGED cand
    BY DEF HandoffStage, CancelRead, PrepareList, PrepareWrite, PrepareDone, CancelNext,
           PrepareRead
  <1>b. Known' = Known /\ cand' \in [Positive -> CandType]
    BY <1>0, <1>a DEF Known
  <1>c. Now(r) \in 0..MaxClock /\ Now(r) <= clock
    BY <1>0 DEF Now, GoodRun, RunType
  <1>1. ASSUME run' = [run EXCEPT ![r] = run'[r]], GoodRun(r, run[r])', HandoffTypeOK', RowOK'
        PROVE  RestInv'
    BY <1>0, <1>1, <1>b, OneRun
  <1>2. ASSUME UNCHANGED handVars
        PROVE  HandoffTypeOK' /\ RowOK'
    BY <1>2, <1>b, RowsKept
  <1>3. CASE CancelRead(r)
    <2>1. StalePending(Now(r)) \subseteq Known
      BY <1>0 DEF StalePending, Known, HandoffTypeOK
    <2>2. /\ run' = [run EXCEPT ![r] = run'[r]] /\ UNCHANGED handVars
          /\ run'[r] = [run[r] EXCEPT !.pc = "cancel", !.todo = StalePending(Now(r))]
      BY <1>0, <1>3 DEF CancelRead, Goto
    <2>3. StalePending(Now(r)) \subseteq Positive
      BY DEF StalePending
    <2>4. GoodRun(r, run[r])'
      BY <1>0, <1>3, <1>b, <2>1, <2>2, <2>3 DEF CancelRead, GoodRun, RunType, RunPcs
    <2> QED BY <1>1, <1>2, <2>2, <2>4
  <1>4. ASSUME NEW c \in Positive, CancelNext(r, c) PROVE RestInv'
    <2>1. /\ run' = [run EXCEPT ![r] = run'[r]]
          /\ run'[r] = [run[r] EXCEPT !.pc = "cancel", !.todo = run[r].todo \ {c}]
          /\ c \in Known
      BY <1>0, <1>4 DEF CancelNext, Goto, GoodRun
    <2>2. GoodRun(r, run[r])'
      BY <1>0, <1>4, <1>b, <2>1 DEF CancelNext, GoodRun, RunType, RunPcs
    <2>3. HandoffTypeOK' /\ RowOK'
      BY <1>0, <1>4, <1>a, <2>1 DEF CancelNext, CancelRow, HandoffTypeOK, RowOK, Known,
                                    ACTIVE_HANDOFF_STATUSES
    <2> QED BY <1>1, <2>1, <2>2, <2>3
  <1>5. CASE PrepareList(r)
    <2> DEFINE t == {c \in Positive : HandoffEligible(c, Now(r)) /\ NoActiveHandoff(r, c)}
    <2>1. t \subseteq Known /\ t \subseteq Positive
      BY DEF HandoffEligible, Known
    <2>2. /\ run' = [run EXCEPT ![r].pc = "prepare", ![r].now = Now(r), ![r].todo = t]
          /\ UNCHANGED handVars
      BY <1>5 DEF PrepareList
    <2> HIDE DEF t
    <2>3. /\ run' = [run EXCEPT ![r] = run'[r]]
          /\ run'[r] = [run[r] EXCEPT !.pc = "prepare", !.now = Now(r), !.todo = t]
      BY <1>0, <2>2
    <2>5. run[r].pc = "cancel" /\ news.owner # r /\ run[r].at = NoCandidate
      BY <1>0, <1>5 DEF PrepareList, GoodRun
    <2>6. run'[r] \in RunType
      BY <1>0, <1>c, <2>1, <2>3 DEF GoodRun, RunType, RunPcs
    <2>7. run'[r].pc = "prepare" /\ run'[r].now = Now(r) /\ run'[r].todo = t /\ run'[r].at = NoCandidate
      BY <1>0, <2>3, <2>5 DEF GoodRun, RunType
    <2>4. GoodRun(r, run[r])'
      BY <1>0, <1>b, <1>c, <2>1, <2>5, <2>6, <2>7 DEF GoodRun
    <2> QED BY <1>1, <1>2, <2>2, <2>3, <2>4
  <1>6. ASSUME NEW c \in Positive, PrepareRead(r, c) PROVE RestInv'
    <2>1. UNCHANGED handVars /\ run[r].pc = "prepare" /\ c \in run[r].todo
      BY <1>6 DEF PrepareRead
    <2>2. CASE MayWrite(r, c)
      <3>1. PICK b \in BOOLEAN : /\ b = (hand[c] = "none")
                                 /\ run' = [run EXCEPT ![r].pc = "create", ![r].at = c,
                                               ![r].todo = @ \ {c}, ![r].ready = b]
        BY <1>6, <2>2 DEF PrepareRead
      <3>2. /\ run' = [run EXCEPT ![r] = run'[r]]
            /\ run'[r] = [run[r] EXCEPT !.pc = "create", !.at = c, !.todo = @ \ {c}, !.ready = b]
        BY <1>0, <3>1
      <3>3. b \/ run[r].force
        BY <2>2, <3>1 DEF MayWrite
      <3>5. run'[r] \in RunType
        <4>1. run[r] \in RunType
          BY <1>0 DEF GoodRun
        <4>2. run'[r] = [run[r] EXCEPT !.pc = "create", !.at = c, !.todo = @ \ {c}, !.ready = b]
          BY <3>2
        <4>3. run'[r] = [pc |-> "create", now |-> run[r].now, todo |-> run[r].todo \ {c}, at |-> c,
                         out |-> run[r].out, ready |-> b, force |-> run[r].force]
          BY <4>1, <4>2 DEF RunType
        <4>4. /\ run[r].now \in 0..MaxClock /\ run[r].todo \subseteq Positive
              /\ run[r].out \in States /\ run[r].force \in BOOLEAN
          BY <4>1 DEF RunType
        <4> QED BY <4>3, <4>4 DEF RunType, RunPcs
      <3>6. /\ run'[r].pc = "create" /\ run'[r].now = run[r].now /\ run'[r].at = c
            /\ run'[r].todo = run[r].todo \ {c} /\ run'[r].ready = b
            /\ run'[r].force = run[r].force
        BY <1>0, <3>2 DEF GoodRun, RunType
      <3>7. news.owner # r /\ run[r].todo \subseteq Known
        BY <1>0, <2>1 DEF GoodRun
      <3>4. GoodRun(r, run[r])'
        BY <1>0, <1>b, <2>1, <3>3, <3>5, <3>6, <3>7 DEF GoodRun
      <3> QED BY <1>1, <1>2, <2>1, <3>2, <3>4
    <2>3. CASE ~ MayWrite(r, c)
      <3>1. /\ run' = [run EXCEPT ![r] = run'[r]]
            /\ run'[r] = [run[r] EXCEPT !.pc = "prepare", !.todo = run[r].todo \ {c}]
        BY <1>0, <1>6, <2>3 DEF PrepareRead, Goto
      <3>2. GoodRun(r, run[r])'
        BY <1>0, <1>b, <2>1, <3>1 DEF GoodRun, RunType, RunPcs
      <3> QED BY <1>1, <1>2, <2>1, <3>1, <3>2
    <2> QED BY <2>2, <2>3
  <1>d. ASSUME run' = [run EXCEPT ![r] = Idle], run[r].pc # "news"
        PROVE  run' = [run EXCEPT ![r] = run'[r]] /\ GoodRun(r, run[r])'
    <2>1. run'[r] = Idle /\ run' = [run EXCEPT ![r] = run'[r]]
      BY <1>0, <1>d
    <2> QED BY <1>0, <1>d, <2>1 DEF Idle, GoodRun, RunType, RunPcs, States
  <1>7. CASE PrepareWrite(r)
    <2>1. /\ run[r].pc = "create" /\ UNCHANGED n8n
          /\ run[r].at \in Known /\ run[r].at \in Positive /\ (run[r].ready \/ run[r].force)
      BY <1>0, <1>7 DEF PrepareWrite, GoodRun, RunType
    <2>2. CASE run[r].ready /\ hand[run[r].at] # "none"
      <3>1. run' = [run EXCEPT ![r] = Idle] /\ UNCHANGED handVars
        BY <1>7, <2>2 DEF PrepareWrite, handVars
      <3> QED BY <1>1, <1>2, <1>d, <2>1, <3>1
    <2>3. CASE ~ (run[r].ready /\ hand[run[r].at] # "none")
      <3>1. /\ hand' = [hand EXCEPT ![run[r].at] = "pending"]
            /\ delivered' = [delivered EXCEPT ![run[r].at] = @ /\ ~run[r].force]
            /\ run' = [run EXCEPT ![r] = run'[r]]
            /\ run'[r] = [run[r] EXCEPT !.pc = "prepare", !.at = NoCandidate,
                                        !.out = "none", !.ready = FALSE]
        BY <1>0, <1>7, <2>3 DEF PrepareWrite, Leave
      <3>2. ~ delivered'[run[r].at] /\ delivered' \in [Positive -> BOOLEAN]
        BY <1>0, <2>1, <2>3, <3>1 DEF HandoffTypeOK, RowOK
      <3>3. HandoffTypeOK'
        BY <1>0, <1>a, <2>1, <3>1, <3>2 DEF HandoffTypeOK, Known, ACTIVE_HANDOFF_STATUSES
      <3>4. RowOK'
        BY <1>0, <2>1, <3>1, <3>2 DEF HandoffTypeOK, RowOK
      <3>6. run'[r] \in RunType
        <4>1. run[r] \in RunType
          BY <1>0 DEF GoodRun
        <4>2. run'[r] = [run[r] EXCEPT !.pc = "prepare", !.at = NoCandidate,
                                       !.out = "none", !.ready = FALSE]
          BY <3>1
        <4>3. run'[r] = [pc |-> "prepare", now |-> run[r].now, todo |-> run[r].todo,
                         at |-> NoCandidate, out |-> "none", ready |-> FALSE,
                         force |-> run[r].force]
          BY <4>1, <4>2 DEF RunType
        <4>4. /\ run[r].now \in 0..MaxClock /\ run[r].todo \subseteq Positive
              /\ run[r].force \in BOOLEAN
          BY <4>1 DEF RunType
        <4> QED BY <4>3, <4>4 DEF RunType, RunPcs, States
      <3>7. /\ run'[r].pc = "prepare" /\ run'[r].now = run[r].now
            /\ run'[r].at = NoCandidate /\ run'[r].todo = run[r].todo
        BY <1>0, <3>1 DEF GoodRun, RunType
      <3>5. GoodRun(r, run[r])'
        BY <1>0, <1>b, <2>1, <3>6, <3>7 DEF GoodRun
      <3> QED BY <1>1, <3>1, <3>3, <3>4, <3>5
    <2> QED BY <2>2, <2>3
  <1>8. CASE PrepareDone(r)
    BY <1>1, <1>2, <1>8, <1>d DEF PrepareDone
  <1> QED BY <1>3, <1>4, <1>5, <1>6, <1>7, <1>8 DEF HandoffStage

(* The NEWS stage keeps both halves: it only adds impacts. *)
LEMMA NewsStageKeeps ==
  ASSUME NewsInv, RestInv, NEW r \in Runs, NewsStage(r)
  PROVE  NewsInv' /\ RestInv'
  <1> USE NewsAssumption
  <1>0. /\ run = [x \in Runs |-> run[x]] /\ GoodRun(r, run[r]) /\ run[r].pc = "news"
        /\ cand \in [Positive -> CandType] /\ Known \subseteq impacts
        /\ UNCHANGED <<clock, cand, handVars, events>> /\ events \in 0..MaxEvents
    BY RestSplit DEF NewsStage
  <1>1. Known' = Known /\ HandoffTypeOK' /\ RowOK' /\ cand' \in [Positive -> CandType]
    BY <1>0, RowsKept DEF Known
  <1>2. ASSUME UNCHANGED run, news'.owner \in {NoOne, news.owner, r}, impacts \subseteq impacts'
        PROVE  RestInv'
    <2>1. GoodRun(r, run[r])'
      BY <1>0, <1>1, <1>2 DEF GoodRun
    <2> QED BY <1>0, <1>1, <1>2, <2>1, OneRun
  <1>3. ASSUME Goto(r, "expire", {}), news'.owner \in {NoOne, news.owner}, news'.owner # r,
               impacts \subseteq impacts'
        PROVE  RestInv'
    <2>1. /\ run' = [run EXCEPT ![r] = run'[r]]
          /\ run'[r] = [run[r] EXCEPT !.pc = "expire", !.todo = {}]
      BY <1>0, <1>3 DEF Goto
    <2>2. GoodRun(r, run[r])'
      BY <1>0, <1>1, <1>3, <2>1 DEF GoodRun, RunType, RunPcs
    <2> QED BY <1>0, <1>1, <1>3, <2>1, <2>2, OneRun
  <1>4. r # NoOne
    BY DEF Runs, NoOne
  <1>5. ASSUME NothingToPull(r), Goto(r, "expire", {}) PROVE NewsInv' /\ RestInv'
    <2>1. UNCHANGED <<pub, feed, cursor, window, floor, seen, impacts, member, news>> /\ news.owner # r
      BY <1>5 DEF NothingToPull, newsVars
    <2>2. NewsInv'
      BY <2>1 DEF NewsInv, NewsTypeOK, SinceOK, PageOK, CursorOK, SkipOK, Ingested
    <2> QED BY <1>3, <1>5, <2>1, <2>2
  <1>6. ASSUME StartNews(r), UNCHANGED run PROVE NewsInv' /\ RestInv'
    <2>1. /\ UNCHANGED <<pub, feed, cursor, window, seen, impacts, member>>
          /\ news' = [owner |-> r, pc |-> "fetch", since |-> getSincePublishedAt,
                      page |-> <<>>, todo |-> <<>>]
          /\ floor' = IF cursor = 0 THEN window ELSE floor
      BY <1>6 DEF StartNews, NoNews
    <2>6. floor' \in 0..MaxPub /\ getSincePublishedAt \in 0..MaxPub
      BY <2>1 DEF NewsInv, NewsTypeOK, getSincePublishedAt
    <2>2. Ingested' = 0 /\ <<>> \in Seq(feed) /\ <<>> = SubSeq(<<>>, 1, 0) /\ Len(<<>>) = 0
      BY <2>1 DEF Ingested
    <2>3. news' \in [owner : Runs \cup {NoOne}, pc : {"idle", "fetch", "ingest"},
                     since : 0..MaxPub, page : Seq(feed), todo : Seq(feed)]
      BY <2>1, <2>2, <2>6
    <2>4. NewsTypeOK'
      BY <1>4, <2>1, <2>2, <2>3, <2>6 DEF NewsInv, NewsTypeOK
    <2>7. SkipOK'
      BY <2>1 DEF NewsInv, NewsTypeOK, SkipOK
    <2>8. SinceOK' /\ PageOK' /\ CursorOK'
      BY <2>1 DEF NewsInv, SinceOK, PageOK, CursorOK, getSincePublishedAt
    <2>5. NewsInv'
      BY <2>4, <2>7, <2>8 DEF NewsInv
    <2> QED BY <1>2, <1>6, <2>1, <2>5
  <1>7. ASSUME NEW p \in Pages(news.since), fetchMassiveNews(p), UNCHANGED run
        PROVE  NewsInv' /\ RestInv'
    <2>1. UNCHANGED impacts
      BY <1>7 DEF fetchMassiveNews
    <2> QED BY <1>2, <1>7, <2>1, FetchKeeps
  <1>8. ASSUME ingestMassiveArticle, UNCHANGED run PROVE NewsInv' /\ RestInv'
    BY <1>2, <1>8, IngestKeeps
  <1>9. ASSUME recordNewsPullCursorSuccess, Goto(r, "expire", {}) PROVE NewsInv' /\ RestInv'
    <2>1. UNCHANGED impacts
      BY <1>9 DEF recordNewsPullCursorSuccess
    <2> QED BY <1>3, <1>4, <1>9, <2>1, CursorKeeps
  <1>10. ASSUME PullFailed, Goto(r, "expire", {}) PROVE NewsInv' /\ RestInv'
    <2>1. NewsFinished /\ UNCHANGED <<pub, feed, cursor, window, floor, seen, impacts, member>>
      BY <1>10 DEF PullFailed
    <2>2. cursor' \in 0..MaxPub /\ SkipOK' /\ CursorOK'
      BY <2>1 DEF NewsInv, NewsTypeOK, SkipOK, CursorOK
    <2>3. NewsInv' /\ news'.owner = NoOne
      BY <2>1, <2>2, FinishedKeeps
    <2> QED BY <1>3, <1>4, <1>10, <2>1, <2>3
  <1> QED BY <1>5, <1>6, <1>7, <1>8, <1>9, <1>10 DEF NewsStage

(* The delivery workflow: a mark is made only of a row that was read.      *)
LEMMA DeliverKeeps ==
  ASSUME RestInv, Deliver
  PROVE  RestInv'
  <1>0. /\ UNCHANGED <<newsVars, clock, cand, run, events>> /\ HandoffTypeOK /\ RowOK
        /\ UNCHANGED <<impacts, news>>
    BY RestSplit DEF Deliver, newsVars
  <1>1. SUFFICES HandoffTypeOK' /\ RowOK'
    <2>1. Known' = Known
      BY <1>0 DEF Known
    <2>2. \A r \in Runs : GoodRun(r, run[r])'
      BY <1>0, <2>1, RestSplit DEF GoodRun
    <2>3. clock' = clock /\ events' = events /\ cand' = cand /\ run' = run /\ impacts' = impacts
      BY <1>0
    <2> QED BY <2>1, <2>2, <2>3, RestSplit, RestSplitNext
  <1> USE DEF HandoffTypeOK, RowOK, ACTIVE_HANDOFF_STATUSES
  <1>2. CASE QueueRead
    BY <1>0, <1>2 DEF QueueRead, StalePending
  <1>3. ASSUME NEW c \in Positive, Delivered(c) PROVE HandoffTypeOK' /\ RowOK'
    BY <1>0, <1>3 DEF Delivered, Mark
  <1>4. ASSUME NEW c \in Positive, DeliveryFailed(c) PROVE HandoffTypeOK' /\ RowOK'
    BY <1>0, <1>4 DEF DeliveryFailed, Mark
  <1>5. ASSUME NEW c \in Positive, MarkLost(c) PROVE HandoffTypeOK' /\ RowOK'
    BY <1>0, <1>5 DEF MarkLost
  <1>6. ASSUME NEW c \in Positive, Acknowledge(c) PROVE HandoffTypeOK' /\ RowOK'
    BY <1>0, <1>6 DEF Acknowledge
  <1> QED BY <1>2, <1>3, <1>4, <1>5, <1>6 DEF Deliver

-----------------------------------------------------------------------------
(* The whole *)

(* The invariant in its two halves, as the lemmas above state them. *)
LEMMA Split == IInv <=> NewsInv /\ RestInv
  BY DEF IInv, TypeOK, NewsInv, RestInv

(* The same in the next state. *)
LEMMA SplitNext == IInv' <=> NewsInv' /\ RestInv'
  BY DEF IInv, TypeOK, NewsInv, RestInv

(* The initial state. *)
LEMMA InitIInv == Init => IInv
  <1> SUFFICES ASSUME Init PROVE NewsInv /\ RestInv
    BY Split
  <1> USE NewsAssumption, CandidateAssumption, PipelineAssumption DEF Init
  <1>1. NewsInv
    <2>1. <<>> \in Seq(feed) /\ <<>> = SubSeq(<<>>, 1, 0) /\ Len(<<>>) = 0
      OBVIOUS
    <2>2. Ingested = 0
      BY <2>1 DEF NewsInit, NoNews, Ingested
    <2>3. news \in [owner : Runs \cup {NoOne}, pc : {"idle", "fetch", "ingest"},
                    since : 0..MaxPub, page : Seq(feed), todo : Seq(feed)]
      BY <2>1 DEF NewsInit, NoNews
    <2>4. NewsTypeOK
      BY <2>1, <2>2, <2>3 DEF NewsInit, NewsTypeOK, NoNews
    <2> QED BY <2>4 DEF NewsInv, NewsInit, NoNews, SinceOK, PageOK, CursorOK, SkipOK
  <1>2. RestInv
    <2>1. cand \in [Positive -> CandType] /\ Known = {} /\ clock \in 0..MaxClock
      BY DEF CandidateInit, CandType, States, Known
    <2>2. run = [r \in Runs |-> run[r]] /\ DOMAIN run = Runs
      BY DEF CandidateInit
    <2>3. ASSUME NEW r \in Runs PROVE GoodRun(r, run[r])
      <3>1. r # NoOne
        BY DEF Runs, NoOne
      <3> QED BY <3>1 DEF CandidateInit, NewsInit, NoNews, Idle, GoodRun, RunType, RunPcs, States
    <2>4. HandoffTypeOK /\ RowOK
      BY DEF HandoffInit, HandoffTypeOK, RowOK, ACTIVE_HANDOFF_STATUSES
    <2> QED BY <2>1, <2>2, <2>3, <2>4, RestSplit
  <1> QED BY <1>1, <1>2

(* News that is not touched stays as good. *)
LEMMA NewsKept ==
  ASSUME NewsInv, UNCHANGED newsVars
  PROVE  NewsInv'
  BY DEF NewsInv, NewsTypeOK, SinceOK, PageOK, CursorOK, SkipOK, Ingested, newsVars

(* Every step keeps the inductive invariant. *)
LEMMA StepIInv ==
  ASSUME IInv, [Next]_vars
  PROVE  IInv'
  <1> USE NewsAssumption, CandidateAssumption, PipelineAssumption
  <1>0. /\ NewsInv /\ RestInv /\ run = [x \in Runs |-> run[x]]
        /\ \A r \in Runs : GoodRun(r, run[r])
        /\ cand \in [Positive -> CandType] /\ Known \subseteq impacts
        /\ events \in 0..MaxEvents /\ clock \in 0..MaxClock
    BY Split, RestSplit
  <1>1. \A r \in Runs : r # NoOne
    BY DEF Runs, NoOne
  <1>2. ASSUME UNCHANGED <<cand, impacts>>
        PROVE  Known' = Known /\ cand' \in [Positive -> CandType]
    BY <1>0, <1>2 DEF Known
  <1>3. ASSUME NEW r \in Runs, run' = [run EXCEPT ![r] = run'[r]], GoodRun(r, run[r])',
               events' \in 0..MaxEvents, UNCHANGED <<newsVars, clock, cand, handVars>>
        PROVE  IInv'
    <2>1. UNCHANGED <<impacts, news>>
      BY <1>3 DEF newsVars
    <2>2. Known' = Known /\ cand' \in [Positive -> CandType] /\ NewsInv'
      BY <1>0, <1>2, <1>3, <2>1, NewsKept
    <2>3. HandoffTypeOK' /\ RowOK'
      BY <1>0, <1>3, <2>2, RowsKept
    <2>4. RestInv'
      BY <1>0, <1>3, <2>1, <2>2, <2>3, OneRun
    <2> QED BY <2>2, <2>4, SplitNext
  <1>4. ASSUME Start PROVE IInv'
    <2>1. 1 \in Runs /\ run[1].pc = "idle"
      BY <1>4 DEF Start, Runs
    <2>2. /\ run' = [run EXCEPT ![1] = run'[1]]
          /\ run'[1] = [run[1] EXCEPT !.pc = "news", !.now = clock]
          /\ UNCHANGED <<newsVars, clock, cand, handVars, events>>
      BY <1>0, <1>4, <2>1 DEF Start
    <2>3. UNCHANGED <<impacts, news>>
      BY <2>2 DEF newsVars
    <2>5. GoodRun(1, run[1]) /\ clock \in 0..MaxClock
      BY <1>0, <2>1
    <2>6. run'[1] \in RunType
      BY <2>2, <2>5 DEF GoodRun, RunType, RunPcs
    <2>4. GoodRun(1, run[1])'
      BY <2>1, <2>2, <2>3, <2>5, <2>6 DEF GoodRun, RunType
    <2> QED BY <1>0, <1>3, <2>1, <2>2, <2>4
  <1>5. ASSUME NEW r \in Runs, EndpointCall(r) PROVE IInv'
    <2>1. /\ events' \in 0..MaxEvents /\ run[r].pc = "idle"
          /\ UNCHANGED <<newsVars, clock, cand, handVars>>
      BY <1>0, <1>5 DEF EndpointCall
    <2>2. UNCHANGED <<impacts, news>> /\ Known' = Known
      BY <1>2, <2>1 DEF newsVars
    <2>3. CASE run' = [run EXCEPT ![r].pc = "confirm",
                                  ![r].todo = {c \in Positive : cand[c].state \in Active}]
      <3>1. {c \in Positive : cand[c].state \in Active} \subseteq Known
        BY DEF Known, Active
      <3>2. /\ run' = [run EXCEPT ![r] = run'[r]]
            /\ run'[r] = [run[r] EXCEPT !.pc = "confirm",
                                        !.todo = {c \in Positive : cand[c].state \in Active}]
        BY <1>0, <2>3
      <3>4. GoodRun(r, run[r]) /\ Known \subseteq Positive
        BY <1>0 DEF Known
      <3>5. run'[r] \in RunType
        BY <3>1, <3>2, <3>4 DEF GoodRun, RunType, RunPcs
      <3>3. GoodRun(r, run[r])'
        BY <2>1, <2>2, <3>1, <3>2, <3>4, <3>5 DEF GoodRun, RunType
      <3> QED BY <1>3, <2>1, <3>2, <3>3
    <2>4. CASE run' = [run EXCEPT ![r].pc = "cancel", ![r].force = TRUE,
                                  ![r].todo = StalePending(clock)]
      <3>1. StalePending(clock) \subseteq Known /\ StalePending(clock) \subseteq Positive
        BY <1>0 DEF StalePending, Known, RestInv, HandoffTypeOK
      <3>2. /\ run' = [run EXCEPT ![r] = run'[r]]
            /\ run'[r] = [run[r] EXCEPT !.pc = "cancel", !.force = TRUE,
                                        !.todo = StalePending(clock)]
        BY <1>0, <2>4
      <3>4. GoodRun(r, run[r]) /\ Known \subseteq Positive
        BY <1>0 DEF Known
      <3>5. run'[r] \in RunType
        BY <3>1, <3>2, <3>4 DEF GoodRun, RunType, RunPcs
      <3>3. GoodRun(r, run[r])'
        BY <2>1, <2>2, <3>1, <3>2, <3>4, <3>5 DEF GoodRun, RunType
      <3> QED BY <1>3, <2>1, <3>2, <3>3
    <2> QED BY <1>5, <2>3, <2>4 DEF EndpointCall
  <1>6. ASSUME NEW r \in Runs, Stage(r) PROVE IInv'
    <2>1. CASE NewsStage(r)
      BY <1>0, <2>1, NewsStageKeeps, SplitNext
    <2>2. CASE CandidateStage(r)
      BY <1>0, <2>2, CandidateKeeps, NewsKept, SplitNext DEF CandidateStage
    <2>3. CASE HandoffStage(r)
      BY <1>0, <2>3, HandoffKeeps, NewsKept, SplitNext DEF HandoffStage
    <2> QED BY <1>6, <2>1, <2>2, <2>3 DEF Stage
  <1>7. ASSUME NEW r \in Runs, StageError(r) PROVE IInv'
    <2>1. /\ run' = [run EXCEPT ![r] = run'[r]] /\ run'[r] = Idle
          /\ UNCHANGED <<newsVars, clock, cand, handVars>> /\ events' \in 0..MaxEvents
          /\ news.owner # r
      BY <1>0, <1>7 DEF StageError
    <2>2. UNCHANGED news
      BY <2>1 DEF newsVars
    <2>3. GoodRun(r, run[r])'
      BY <1>0, <2>1, <2>2 DEF Idle, GoodRun, RunType, RunPcs, States
    <2> QED BY <1>3, <2>1, <2>3
  <1>8. ASSUME Crash PROVE IInv'
    <2>1. /\ run' = [r \in Runs |-> Idle] /\ news' = NoNews /\ events' \in 0..MaxEvents
          /\ UNCHANGED <<pub, feed, cursor, window, floor, seen, impacts, member, clock, cand, handVars>>
      BY <1>0, <1>8 DEF Crash
    <2>2. cursor' \in 0..MaxPub /\ SkipOK' /\ CursorOK'
      BY <1>0, <2>1 DEF NewsInv, NewsTypeOK, SkipOK, CursorOK
    <2>3. NewsInv' /\ news'.owner = NoOne
      BY <1>0, <2>1, <2>2, FinishedKeeps DEF NewsFinished
    <2>4. Known' = Known /\ cand' \in [Positive -> CandType] /\ HandoffTypeOK' /\ RowOK'
      BY <1>0, <1>2, <2>1, RowsKept
    <2>5. ASSUME NEW r \in Runs PROVE GoodRun(r, run[r])'
      BY <1>0, <1>1, <2>1, <2>3 DEF Idle, GoodRun, RunType, RunPcs, States
    <2>6. DOMAIN run' = Runs /\ run' = [r \in Runs |-> run'[r]]
      BY <2>1
    <2> QED BY <1>0, <2>1, <2>3, <2>4, <2>5, <2>6, RestSplitNext, SplitNext
  <1>9. ASSUME Deliver PROVE IInv'
    BY <1>0, <1>9, DeliverKeeps, NewsKept, SplitNext DEF Deliver
  <1>10. ASSUME Operator PROVE IInv'
    <2>1. UNCHANGED <<clock, run, handVars, impacts, news>> /\ events' \in 0..MaxEvents
      BY <1>0, <1>10 DEF Operator, updateMomentumUniverseMember, newsVars
    <2>2. NewsInv'
      <3>1. CASE UNCHANGED newsVars
        BY <1>0, <3>1, NewsKept
      <3>2. CASE updateMomentumUniverseMember
        BY <1>0, <3>2 DEF updateMomentumUniverseMember, NewsInv, NewsTypeOK, SinceOK, PageOK,
                          CursorOK, SkipOK, Ingested
      <3> QED BY <1>10, <3>1, <3>2 DEF Operator
    <2>3. Known' = Known /\ cand' \in [Positive -> CandType]
      <3>1. CASE UNCHANGED cand
        BY <1>2, <2>1, <3>1
      <3>2. CASE reconcileMomentumEligibility
        BY <1>0, <3>2 DEF reconcileMomentumEligibility, Known, CandType, States, Active
      <3> QED BY <1>10, <3>1, <3>2 DEF Operator
    <2>4. HandoffTypeOK' /\ RowOK'
      BY <1>0, <2>1, <2>3, RowsKept
    <2>5. \A r \in Runs : GoodRun(r, run[r])'
      BY <1>0, <2>1, <2>3 DEF GoodRun
    <2>6. DOMAIN run' = Runs /\ run' = [r \in Runs |-> run'[r]]
      BY <1>0, <2>1
    <2> QED BY <1>0, <2>1, <2>2, <2>3, <2>4, <2>5, <2>6, RestSplitNext, SplitNext
  <1>11. ASSUME World PROVE IInv'
    <2>1. /\ UNCHANGED <<cand, run, handVars, impacts, news, events>>
          /\ clock' \in 0..MaxClock /\ clock <= clock'
      BY <1>0, <1>11 DEF World, Publish, MoveWindow, newsVars
    <2>2. NewsInv'
      <3>1. CASE UNCHANGED newsVars
        BY <1>0, <3>1, NewsKept
      <3>2. CASE \E a \in Articles : Publish(a)
        BY <1>0, <3>2, PublishKeeps
      <3>3. CASE MoveWindow
        BY <1>0, <3>3, WindowKeeps
      <3> QED BY <1>11, <3>1, <3>2, <3>3 DEF World
    <2>3. Known' = Known /\ cand' \in [Positive -> CandType] /\ HandoffTypeOK' /\ RowOK'
      BY <1>0, <1>2, <2>1, RowsKept
    <2>4. \A r \in Runs : GoodRun(r, run[r])'
      BY <1>0, <2>1, <2>3 DEF GoodRun, RunType
    <2>5. DOMAIN run' = Runs /\ run' = [r \in Runs |-> run'[r]]
      BY <1>0, <2>1
    <2> QED BY <1>0, <2>1, <2>2, <2>3, <2>4, <2>5, RestSplitNext, SplitNext
  <1>12. ASSUME UNCHANGED vars PROVE IInv'
    <2>1. UNCHANGED <<newsVars, clock, cand, run, handVars, impacts, news, events>>
      BY <1>12 DEF vars, newsVars
    <2>2. Known' = Known /\ cand' \in [Positive -> CandType] /\ HandoffTypeOK' /\ RowOK'
      BY <1>0, <1>2, <2>1, RowsKept
    <2>3. \A r \in Runs : GoodRun(r, run[r])'
      BY <1>0, <2>1, <2>2 DEF GoodRun
    <2>4. DOMAIN run' = Runs /\ run' = [r \in Runs |-> run'[r]]
      BY <1>0, <2>1
    <2> QED BY <1>0, <2>1, <2>2, <2>3, <2>4, NewsKept, RestSplitNext, SplitNext
  <1> QED BY <1>4, <1>5, <1>6, <1>7, <1>8, <1>9, <1>10, <1>11, <1>12 DEF Next

(* The invariant holds in every state. *)
LEMMA Inductive == Spec => []IInv
  BY InitIInv, StepIInv, PTL DEF Spec

(* Types; the tick in progress belongs to a run in its NEWS stage, and a   *)
(* candidate or a handoff row never stands without what it was made from.  *)
THEOREM TypeCorrect == Spec => []TypeOK
  <1>1. IInv => TypeOK
    BY DEF IInv
  <1> QED BY <1>1, Inductive, PTL

(* The news cursor steps over no usable article whose impact is not        *)
(* stored, except one that shares its publication time with an article of  *)
(* a page, and one older than the lookback window of the first successful  *)
(* pull; for every page size, number of articles and order of failures.    *)
THEOREM CursorSkipsOnlyTiesOrOld == Spec => []OnlyTiesOrOldAreSkipped
  <1>1. IInv => OnlyTiesOrOldAreSkipped
    BY DEF IInv, TypeOK, NewsTypeOK, SkipOK, OnlyTiesOrOldAreSkipped
  <1> QED BY <1>1, Inductive, PTL

(* A handoff marked as sent does not return to the queue without force,    *)
(* however many runs and deliveries overlap.                               *)
THEOREM DeliveredOnce == Spec => []DeliveredStaysOut
  <1>1. IInv => DeliveredStaysOut
    BY DEF IInv, RowOK, DeliveredStaysOut
  <1> QED BY <1>1, Inductive, PTL
=============================================================================
