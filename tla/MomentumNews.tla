----------------------------- MODULE MomentumNews -----------------------------
(***************************************************************************)
(* The NEWS stage of the momentum pipeline for one symbol: the massive     *)
(* news worker (massive-news.worker.ts) pulls a page of articles published *)
(* after the symbol's NewsPullCursor, ingests them one by one and then     *)
(* moves the cursor.  The in-process flag "running" admits one caller at a *)
(* time; the callers here are the pipeline runs (the timer of server.ts,   *)
(* disabled by default, makes the same call).                              *)
(*                                                                         *)
(* "seen" are the articles ingestMassiveArticle has returned from, skipped *)
(* ones included; "impacts" are those with an impact for the symbol stored *)
(* (an event without its impact is rewritten by the next pull).            *)
(* Publication times are positive, and cursor 0 is a cursor that has       *)
(* pulled nothing.  "window" is now - MASSIVE_NEWS_LOOKBACK_MINUTES on the *)
(* scale of the publication times: it moves on with time.                  *)
(***************************************************************************)
EXTENDS Naturals, Sequences, SequencesExt, FiniteSetsExt

CONSTANTS Articles,   \* the articles the provider has about the symbol
          Usable,     \* those with an id, a title and an impact on the symbol
          MaxPub,     \* publication times are 1..MaxPub
          Limit,      \* MASSIVE_NEWS_LIMIT_PER_SYMBOL, the page size
          Slots       \* pipeline runs in flight at once

ASSUME NewsAssumption ==
  /\ IsFiniteSet(Articles) /\ Usable \subseteq Articles
  /\ MaxPub \in Nat \ {0} /\ Limit \in Nat \ {0} /\ Slots \in Nat \ {0}

Runs == 1..Slots

NoOne == 0

VARIABLES pub,      \* published_utc of each article
          feed,     \* the articles the provider shows
          cursor,   \* lastPublishedAt of the NewsPullCursor, 0 when null
          window,   \* the start of the lookback window
          floor,    \* the window of the last pull made with a null cursor
          seen,     \* the articles ingestion has dealt with
          impacts,  \* the articles whose impact on the symbol is stored
          member,   \* the symbol is an enabled, subscribed universe member
          news      \* the worker tick in progress: [owner, pc, since, page, todo]

newsVars == <<pub, feed, cursor, window, floor, seen, impacts, member, news>>

NoNews == [owner |-> NoOne, pc |-> "idle", since |-> 0, page |-> <<>>, todo |-> <<>>]

\* how many articles of the page are dealt with
Ingested == Len(news.page) - Len(news.todo)

NewsTypeOK ==
  /\ pub \in [Articles -> 1..MaxPub]
  /\ impacts = seen \cap Usable /\ seen \subseteq feed /\ feed \subseteq Articles
  /\ cursor \in 0..MaxPub /\ window \in 0..MaxPub /\ floor \in 0..MaxPub /\ member \in BOOLEAN
  /\ news \in [owner : Runs \cup {NoOne}, pc : {"idle", "fetch", "ingest"},
               since : 0..MaxPub, page : Seq(feed), todo : Seq(feed)]
  /\ Ingested >= 0 /\ news.todo = SubSeq(news.page, Ingested + 1, Len(news.page))
  /\ news.owner = NoOne <=> news.pc = "idle"

NewsInit ==
  /\ pub \in [Articles -> 1..MaxPub] /\ 1 \in Range(pub)
  /\ feed = {} /\ cursor = 0 /\ window = 0 /\ floor = 0
  /\ seen = {} /\ impacts = {} /\ member = TRUE
  /\ news = NoNews

\* The provider shows an article.  Articles appear in the order of their
\* publication times; two may share one.
Publish(a) ==
  /\ a \notin feed
  /\ \A b \in feed : pub[b] <= pub[a]
  /\ feed' = feed \cup {a}
  /\ UNCHANGED <<pub, cursor, window, floor, seen, impacts, member, news>>

\* Time passes for the lookback.
MoveWindow ==
  /\ window < MaxPub /\ window' = window + 1
  /\ UNCHANGED <<pub, feed, cursor, floor, seen, impacts, member, news>>

\* getSincePublishedAt: a null cursor asks for the lookback window as it is now.
getSincePublishedAt == IF cursor = 0 THEN window ELSE cursor

\* ensureMassiveNewsPullCursors enables the cursor of a covered symbol (and
\* disables it otherwise), and listDueNewsPullCursors finds it due.  The tick
\* reads the clock once.
StartNews(o) ==
  /\ news.owner = NoOne /\ member
  /\ news' = [NoNews EXCEPT !.owner = o, !.pc = "fetch", !.since = getSincePublishedAt]
  /\ floor' = IF cursor = 0 THEN window ELSE floor
  /\ UNCHANGED <<pub, feed, cursor, window, seen, impacts, member>>

\* The tick ends at once: another one is running, or no cursor is due.
NothingToPull(o) == news.owner # o /\ UNCHANGED newsVars

\* What the provider can answer: the articles after "since", oldest first,
\* at most Limit of them; the order of equal times is the provider's.
Pages(since) ==
  LET after == {a \in feed : pub[a] > since}
      size  == Min({Limit, Cardinality(after)})
  IN  {p \in [1..size -> after] :
         /\ \A i, j \in 1..size : i < j => p[i] # p[j] /\ pub[p[i]] <= pub[p[j]]
         /\ \A a \in after \ Range(p) : \A i \in 1..size : pub[p[i]] <= pub[a]}

fetchMassiveNews(p) ==
  /\ news.pc = "fetch"
  /\ news' = [news EXCEPT !.pc = "ingest", !.page = p, !.todo = p]
  /\ UNCHANGED <<pub, feed, cursor, window, floor, seen, impacts, member>>

\* the flag "running" left set
NewsStillRunning == news' = [news EXCEPT !.pc = "idle"]

\* The "finally" of the tick clears the flag; the run goes on.
NewsFinished == news' = NoNews

\* The newest published_utc of the page; an empty page keeps the cursor.
Newest(page) == Max({pub[page[i]] : i \in DOMAIN page} \cup {0})

\* the cursor moved as if the page had been ingested
FailureMovesCursor ==
  /\ news.pc \in {"fetch", "ingest"}
  /\ cursor' = Max({cursor, Newest(news.page)})
  /\ NewsFinished
  /\ UNCHANGED <<pub, feed, window, floor, seen, impacts, member>>

\* The provider or the database fails: recordNewsPullCursorError counts the
\* error and leaves the cursor where it is.
PullFailed ==
  /\ news.pc \in {"fetch", "ingest"}
  /\ NewsFinished
  /\ UNCHANGED <<pub, feed, cursor, window, floor, seen, impacts, member>>

\* An article without an id or a title is skipped.  normalizeTickerImpacts
\* takes the insights, or without any the tickers: an article whose insights
\* name other tickers leaves no impact for the symbol.
ingestMassiveArticle ==
  /\ news.pc = "ingest" /\ news.todo # <<>>
  /\ seen' = seen \cup {Head(news.todo)}
  /\ impacts' = impacts \cup ({Head(news.todo)} \cap Usable)
  /\ news' = [news EXCEPT !.todo = Tail(@)]
  /\ UNCHANGED <<pub, feed, cursor, window, floor, member>>

\* The newest time of the whole page counts, skipped articles included.
recordNewsPullCursorSuccess ==
  /\ news.pc = "ingest" /\ news.todo = <<>>
  /\ cursor' = IF Newest(news.page) = 0 THEN cursor ELSE Newest(news.page)
  /\ NewsFinished
  /\ UNCHANGED <<pub, feed, window, floor, seen, impacts, member>>

\* The operator edits the universe membership or the subscription.
updateMomentumUniverseMember ==
  /\ member' = ~member
  /\ UNCHANGED <<pub, feed, cursor, window, floor, seen, impacts, news>>

(***************************************************************************)
(* The cursor never moves past a usable article whose impact is not        *)
(* stored, whatever fails or crashes between the fetch and the cursor      *)
(* update, with two exceptions.  Articles that share a publication time:   *)
(* the strict "published_utc.gt" of the next request steps over those a    *)
(* full page, or a page fetched before they appeared, left out.  And       *)
(* articles already older than the lookback window when the symbol's first *)
(* successful pull was made.  Failed pulls let that window slide, but once *)
(* the cursor is set nothing more is lost to it.                           *)
(***************************************************************************)
OnlyTiesOrOldAreSkipped ==
  \A a \in (feed \cap Usable) \ impacts : pub[a] <= cursor =>
    \/ pub[a] <= floor
    \/ \E b \in seen : pub[b] = pub[a]
=============================================================================
