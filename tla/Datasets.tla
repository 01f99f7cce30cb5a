------------------------------- MODULE Datasets -------------------------------
(* Market datasets (routes/datasets.ts): a workspace names a range, the API    *)
(* fetches its candles from the venue into the table all workspaces share and  *)
(* keeps a row with their hash.  The worker deletes old candles, backtests     *)
(* read the range again, through a cache when they are given a bundle          *)
(* (mtf/loadCandleBundle.ts).  A candle is its open time with what was stored  *)
(* of it: the one still forming when it was fetched, or the closed one.        *)
EXTENDS Integers, FiniteSets, FiniteSetsExt

CONSTANTS Requests, Backtests,   \* POSTs that are made, backtests that are run
          Ranges,   \* the ranges asked for, records of from and to, from < to
          Last,     \* time stops here
          Keep      \* MARKET_CANDLE_RETENTION_DAYS, in candles

VARIABLES
  clock,
  candles,      \* the MarketCandle table: open times with their value
  purged,       \* open times retention has deleted (history)
  dataset,      \* range -> its MarketDataset row
  fetching,     \* POST -> its transaction
  cache,        \* range -> the candles loadCandleBundle keeps of it
  backtest      \* backtest -> its BacktestResult row and its runner

vars == <<clock, candles, purged, dataset, fetching, cache, backtest>>

Candles == (0..Last) \X {"forming", "closed"}
In(r, S) == {c \in S : r.from <= c[1] /\ c[1] <= r.to}
TimesOf(S) == {c[1] : c \in S}
Missing == [status |-> "none", hash |-> {}]
NotCached == [kept |-> FALSE, candles |-> {}]
Idle == [pc |-> "idle", range |-> CHOOSE r \in Ranges : TRUE, fetched |-> {}, new |-> {},
         read |-> {}]
Answered == [Idle EXCEPT !.pc = "answered"]
NoBacktest == [pc |-> "none", range |-> CHOOSE r \in Ranges : TRUE, bundle |-> FALSE,
               hash |-> {}, report |-> {}]

Init ==
  /\ clock = 1 /\ candles = {} /\ purged = {}
  /\ dataset = [r \in Ranges |-> Missing]
  /\ fetching = [h \in Requests |-> Idle]
  /\ cache = [r \in Ranges |-> NotCached]
  /\ backtest = [b \in Backtests |-> NoBacktest]

-----------------------------------------------------------------------------
(* POST /lab/datasets                                                        *)

\* What the venue has of a range: candles up to the one forming now.  It may
\* lack one.
fetchCandles(r, hole) ==
  {<<t, IF t = clock THEN "forming" ELSE "closed">> : t \in (r.from..r.to) \cap (0..clock)}
    \ ({hole} \X {"forming", "closed"})

\* The gaps between neighbours: none is READY, a long one FAILED.
computeDataQuality(S) ==
  LET gaps == {Min({u \in TimesOf(S) : u > t}) - t :
               t \in {t \in TimesOf(S) : \E u \in TimesOf(S) : u > t}} IN
  IF \E g \in gaps : g > 5 THEN "FAILED" ELSE IF \E g \in gaps : g > 1 THEN "PARTIAL" ELSE "READY"

PostDataset(h, r, hole) ==
  /\ fetching[h].pc = "idle"
  /\ fetching' = [fetching EXCEPT ![h].pc = "insert", ![h].range = r,
                                  ![h].fetched = fetchCandles(r, hole)]
  /\ UNCHANGED <<clock, candles, purged, dataset, cache, backtest>>

\* createMany with skipDuplicates: a key another open transaction inserted is
\* waited for, one that is there is skipped.
InsertCandles(h) ==
  /\ fetching[h].pc = "insert"
  /\ \A k \in Requests \ {h} : TimesOf(fetching[k].new) \cap TimesOf(fetching[h].fetched) = {}
  /\ fetching' = [fetching EXCEPT
       ![h].pc = "read",
       ![h].new = {c \in fetching[h].fetched : c[1] \notin TimesOf(candles)}]
  /\ UNCHANGED <<clock, candles, purged, dataset, cache, backtest>>

ReadFetched(h) ==     \* mutant: hash what the venue answered
  /\ fetching[h].pc = "read"
  /\ fetching' = [fetching EXCEPT ![h].pc = "upsert", ![h].read = fetching[h].fetched]
  /\ UNCHANGED <<clock, candles, purged, dataset, cache, backtest>>

ReadAll(h) ==     \* mutant: the where clause forgets the range
  /\ fetching[h].pc = "read"
  /\ fetching' = [fetching EXCEPT
       ![h].pc = "upsert", ![h].read = candles \cup fetching[h].new]
  /\ UNCHANGED <<clock, candles, purged, dataset, cache, backtest>>

\* Quality and hash are of the candles stored, the transaction's own included.
ReadBack(h) ==
  /\ fetching[h].pc = "read"
  /\ fetching' = [fetching EXCEPT
       ![h].pc = "upsert", ![h].read = In(fetching[h].range, candles \cup fetching[h].new)]
  /\ UNCHANGED <<clock, candles, purged, dataset, cache, backtest>>

\* The upsert of the row, and the commit.
Upsert(h) ==
  LET f == fetching[h] IN
  /\ f.pc = "upsert"
  /\ candles' = candles \cup f.new
  /\ dataset' = [dataset EXCEPT ![f.range] =
                   [status |-> computeDataQuality(f.read), hash |-> f.read]]
  /\ fetching' = [fetching EXCEPT ![h] = Answered]
  /\ UNCHANGED <<clock, purged, cache, backtest>>

\* The transaction times out or the API dies: it is rolled back.
RollBack(h) ==
  /\ fetching[h].pc \in {"insert", "read", "upsert"}
  /\ fetching' = [fetching EXCEPT ![h] = Answered]
  /\ UNCHANGED <<clock, candles, purged, dataset, cache, backtest>>

-----------------------------------------------------------------------------
(* The worker's retention, and time                                          *)

runMarketCandleRetention ==
  LET old == {c \in candles : c[1] < clock - Keep} IN
  /\ old # {}
  /\ candles' = candles \ old /\ purged' = purged \cup TimesOf(old)
  /\ UNCHANGED <<clock, dataset, fetching, cache, backtest>>

Tick ==
  /\ clock < Last /\ clock' = clock + 1
  /\ UNCHANGED <<candles, purged, dataset, fetching, cache, backtest>>

-----------------------------------------------------------------------------
(* Backtests of a dataset                                                    *)

\* The row keeps the hash the dataset has now.
PostBacktest(b, r, bundle) ==
  /\ backtest[b].pc = "none" /\ dataset[r] # Missing
  /\ backtest' = [backtest EXCEPT ![b] =
       [NoBacktest EXCEPT !.pc = "pending", !.range = r, !.bundle = bundle,
                          !.hash = dataset[r].hash]]
  /\ UNCHANGED <<clock, candles, purged, dataset, fetching, cache>>

\* A bundle's entry is pinned: its key is the dataset and the end of its range.
cacheGet(b) ==
  LET r == backtest[b].range IN
  /\ backtest[b].pc = "pending" /\ backtest[b].bundle /\ cache[r].kept
  /\ backtest' = [backtest EXCEPT ![b].pc = "done", ![b].report = cache[r].candles]
  /\ UNCHANGED <<clock, candles, purged, dataset, fetching, cache>>

findCandles(b) ==
  /\ backtest[b].pc = "pending"
  /\ ~ (backtest[b].bundle /\ cache[backtest[b].range].kept)
  /\ backtest' = [backtest EXCEPT
       ![b].pc = "read", ![b].report = In(backtest[b].range, candles)]
  /\ UNCHANGED <<clock, candles, purged, dataset, fetching, cache>>

cacheSet(b) ==
  /\ backtest[b].pc = "read"
  /\ backtest' = [backtest EXCEPT ![b].pc = "done"]
  /\ cache' = IF backtest[b].bundle
                THEN [cache EXCEPT ![backtest[b].range] =
                         [kept |-> TRUE, candles |-> backtest[b].report]]
                ELSE cache
  /\ UNCHANGED <<clock, candles, purged, dataset, fetching>>

\* Sixty-four newer entries, or a restart.
Evict(r) ==
  /\ cache[r].kept
  /\ cache' = [cache EXCEPT ![r] = NotCached]
  /\ UNCHANGED <<clock, candles, purged, dataset, fetching, backtest>>

Next ==
  \/ \E h \in Requests, r \in Ranges, hole \in {-1, 1} : PostDataset(h, r, hole)
  \/ \E h \in Requests : InsertCandles(h) \/ ReadBack(h) \/ Upsert(h) \/ RollBack(h)
  \/ \E b \in Backtests, r \in Ranges, bundle \in BOOLEAN : PostBacktest(b, r, bundle)
  \/ \E b \in Backtests : cacheGet(b) \/ findCandles(b) \/ cacheSet(b)
  \/ \E r \in Ranges : Evict(r)
  \/ Tick \/ runMarketCandleRetention

Spec == Init /\ [][Next]_vars

-----------------------------------------------------------------------------
TypeOK ==
  /\ clock \in 0..Last /\ candles \subseteq Candles /\ purged \subseteq 0..Last
  /\ \A r \in Ranges :
       /\ dataset[r].status \in {"none", "READY", "PARTIAL", "FAILED"}
       /\ dataset[r].hash \subseteq In(r, Candles)
  /\ \A h \in Requests : fetching[h].new \subseteq fetching[h].fetched

(* Two workspaces that share a candle hash the same values: a dataset's hash  *)
(* is of candles that are stored as they were hashed, or that retention has   *)
(* deleted since, whoever fetched them first, closed or still forming.        *)
HashIsStored ==
  /\ \A c \in candles, d \in candles : c[1] = d[1] => c = d
  /\ \A r \in Ranges : \A c \in dataset[r].hash : c \in candles \/ c[1] \in purged

(* The hash on a finished backtest names the candles it ran on, as long as    *)
(* the hashed range was complete and retention has not reached it.            *)
Traced(b) ==
  LET x == backtest[b] IN
  x.pc = "done" /\ TimesOf(x.hash) = x.range.from..x.range.to
    /\ purged \cap (x.range.from..x.range.to) = {} => x.report = x.hash
ReportIsOfItsHash == \A b \in Backtests : ~ backtest[b].bundle => Traced(b)
==============================================================================
