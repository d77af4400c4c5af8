--------------------------- MODULE AdaptivePolling ---------------------------
(***************************************************************************)
(* When one backend process (the executor) polls the broker for submitted  *)
(* orders: the in-memory AdaptivePollingCoordinator                        *)
(* (adaptive-polling.service.ts), the rate-limit state of                  *)
(* alpaca-api-usage.service.ts that may defer the read, and the steps of   *)
(* syncSubmittedOrdersForAccountUnlocked (order.worker.ts) between them.   *)
(*                                                                         *)
(* Time is abstracted: "due" places nextDueAt (unset, set to now by a      *)
(* force, in the future, or reached).                                      *)
(***************************************************************************)
EXTENDS Naturals

VARIABLES due,      \* nextDueAt of the coordinator
          cache,    \* cached local activity: expired, or what it says
          market,   \* hadMarketSessionFailure
          orders,   \* the account has submitted orders
          unseen,   \* history: a broker write no completed read covers
          covers,   \* history: no write has happened since the read began
          limit     \* [active, wait]: rate limited, backoffUntil in the future

pollVars == <<due, cache, market, orders, unseen, covers, limit>>

PollTypeOK ==
  /\ due \in {"unset", "forced", "later", "elapsed"}
  /\ cache \in {"expired", "idle", "active"}
  /\ limit \in [active : BOOLEAN, wait : BOOLEAN]
  /\ market \in BOOLEAN /\ orders \in BOOLEAN
  /\ unseen \in BOOLEAN /\ covers \in BOOLEAN

PollInit ==
  /\ due = "unset" /\ cache = "expired" /\ market = FALSE
  /\ orders = FALSE /\ unseen = FALSE /\ covers = FALSE
  /\ limit = [active |-> FALSE, wait |-> FALSE]

\* A new process starts with no coordinator state.
PollRestart ==
  /\ due' = "unset" /\ cache' = "expired" /\ market' = FALSE /\ covers' = FALSE
  /\ limit' = [active |-> FALSE, wait |-> FALSE]
  /\ UNCHANGED <<orders, unseen>>

forceSync == due' = "forced"

\* An order reaches the broker: through this process, which forces a poll, or
\* through another one, which forces its own coordinator only.
BrokerWrite(here) ==
  /\ orders' = TRUE /\ unseen' = TRUE /\ covers' = FALSE
  /\ IF here THEN forceSync ELSE due' = due
  /\ UNCHANGED <<cache, market, limit>>

\* The market evaluation a decision waits for: cached or unchanged, changed
\* (open, closed, trading date), failed, or recovered from a failure.
evaluateMarket(m) ==
  /\ market' = CASE m = "failed" -> TRUE
                 [] m = "changed" -> FALSE
                 [] m = "same" -> FALSE
                 [] OTHER -> market
  /\ IF m = "changed" \/ (m = "same" /\ market) THEN forceSync ELSE due' = due

\* The cached activity, or a new lookup, which on an error counts nothing.
getLocalActivity(failing) ==
  cache' = CASE cache # "expired" -> cache
             [] cache = "expired" /\ orders /\ ~failing -> "active"
             [] OTHER -> "idle"

\* A decision that polls at startup and when forced, and forgets the interval.
DueWhenForced(active, when) == active /\ when \in {"unset", "forced"}

\* submitted_order_sync is due when local orders exist and nextDueAt is unset
\* or reached.
Due(active, when) == active /\ when # "later"

\* recordAttempt, and the begin of the broker read.
StartRead == covers' = TRUE /\ UNCHANGED unseen

shouldDefer == limit.active /\ limit.wait

\* recordSuccess, recordFailure and recordRateLimitDeferred place nextDueAt in
\* the future: an interval, a retry delay, the end of the rate limit.
Schedule == due' = "later"

\* A response completes: 429 starts or extends the rate limit, a success ends
\* it once its backoff is over.
completeRequest(outcome, retryAfter) ==
  limit' = CASE outcome = "rate_limited" ->
                  [active |-> TRUE, wait |-> limit.wait \/ retryAfter]
             [] outcome = "success" /\ ~limit.wait -> [limit EXCEPT !.active = FALSE]
             [] OTHER -> limit

DueReached == due = "later" /\ due' = "elapsed"
  /\ UNCHANGED <<cache, market, orders, unseen, covers, limit>>

CacheExpires == cache # "expired" /\ cache' = "expired"
  /\ UNCHANGED <<due, market, orders, unseen, covers, limit>>

LimitElapses == limit.wait /\ limit' = [limit EXCEPT !.wait = FALSE]
  /\ UNCHANGED <<due, cache, market, orders, unseen, covers>>
=============================================================================
