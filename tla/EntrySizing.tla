------------------------------ MODULE EntrySizing ------------------------------
(* From a signal to an order of one run: the guards a poll starts with         *)
(* (lib/safetyGuards.ts, worker/tickProcessor.ts), the entry branch of         *)
(* evaluateStrategies (lib/botWorker.ts), its sizing (lib/riskManager.ts,      *)
(* lib/runtime/positionSizer.ts) under rules the instrument cache remembers    *)
(* (exchange/instrumentCache.ts), and the normalizer the executor sends        *)
(* through (exchange/normalizer.ts).  Quantities are in hundredths of a coin,  *)
(* prices in dollars, notionals in cents; time is counted in candles.          *)
EXTENDS Integers, Sequences, FiniteSets

CONSTANTS Strategies,   \* budget, cooldown, lossLimit, perTrade, pause, dca, limit, bundle
          Instruments,  \* status, step, min, max, minNotional, tick
          Prices, Sides,
          Ttl, Day,     \* of a cached instrument; candles of a day
          MaxTime, MaxEntries,
          MaxFaults     \* bound: restarts, changes of the rules, failed requests and writes

NoRules == [status |-> "none", step |-> 1, min |-> 0, max |-> 0, minNotional |-> 0, tick |-> 1]

VARIABLES
  st,        \* the strategy of the run's bot
  time, price, candles,    \* the open time and close of the last candle; how many are stored
  listed,    \* the instrument as the venue has it
  cache,     \* the worker's copy: rules and when it fetched them
  lastClose, flagged,      \* lastTradeCloseTimes, datasetInsufficientFlags of the run
  position, closedAt,      \* is one open; when the last one closed (history)
  entries,   \* the run's ENTRY intents, oldest first
  run,       \* RUNNING or STOPPING
  pc, batch, \* the poll's step; the PENDING intents it has fetched
  failedNow, denied,       \* of this poll: intents it failed; a stop that the database refused
  reported,  \* dataset_insufficient events of this shortage
  crashed,   \* has the process been restarted (history)
  faults

market == <<time, price, candles, listed>>
worker == <<cache, lastClose, flagged, batch, failedNow, denied, pc>>
rows == <<position, closedAt, entries, run, reported>>
vars == <<st, market, worker, rows, crashed, faults>>

Fault == faults < MaxFaults /\ faults' = faults + 1

-----------------------------------------------------------------------------
(* normalizer.ts.  A quantity is a fraction <<num, den>>                     *)

\* k such that the double k * 0.01 * 100 comes out below k: 0.29, 0.57, 0.58.
Slips == {29, 57, 58}

RoundToStep(q, step) ==
  LET k == q[1] \div (q[2] * step) IN
  step * (IF step = 1 /\ q[1] = k * q[2] /\ k \in Slips THEN k - 1 ELSE k)

RoundPrice(p, tick) == (p \div tick) * tick

\* The order the venue is sent, or the reason there is none.
Refused(why) == [valid |-> FALSE, why |-> why]
NormalizeOrder(q, p, isLimit, rules) ==
  LET qty == RoundToStep(q, rules.step)
      at == IF isLimit THEN RoundPrice(p, rules.tick) ELSE p
  IN CASE rules.status # "Trading" -> Refused("status")
       [] qty < rules.min -> Refused("min")
       [] qty > rules.max -> Refused("max")
       [] isLimit /\ at <= 0 -> Refused("price")
       [] qty * at < rules.minNotional -> Refused("notional")
       [] OTHER -> [valid |-> TRUE, qty |-> qty, price |-> at]

-----------------------------------------------------------------------------
(* positionSizer.ts, riskManager.ts                                          *)

\* The worker sizes without leverage.
SizeOrder(budget, p, rules) ==
  LET qty == RoundToStep(<<budget, p>>, rules.step) IN
  IF qty <= 0 \/ qty < rules.min \/ qty > rules.max \/ qty * p < rules.minNotional
  THEN Refused("size") ELSE [valid |-> TRUE, qty |-> qty]

\* computeSizing: the cooldown counts from a close this process has seen.
Eligible == lastClose > 0 /\ st.cooldown > 0 => time - lastClose >= st.cooldown

-----------------------------------------------------------------------------
(* instrumentCache.ts                                                        *)

Fresh == cache.rules # NoRules /\ time - cache.at < Ttl

\* getInstrument: what a lookup returns and leaves in the cache.  The request
\* may fail; a stale copy is then of no use.
Lookups ==
  IF Fresh THEN {[rules |-> cache.rules, cache |-> cache]}
  ELSE {[rules |-> listed, cache |-> [rules |-> listed, at |-> time]]}
         \cup IF faults < MaxFaults THEN {[rules |-> NoRules, cache |-> cache]} ELSE {}
Cost(found) == faults' = IF found.rules = NoRules THEN faults + 1 ELSE faults

-----------------------------------------------------------------------------
(* The guards at the start of a poll                                         *)

Failed(n) == entries[n].state = "FAILED"
FailedToday == {n \in DOMAIN entries : Failed(n) /\ entries[n].at >= (time \div Day) * Day}

\* shouldTriggerDailyLossLimit, shouldPauseOnError with its threshold of 3.
LossLimitReached(fails) == st.lossLimit > 0 /\ Cardinality(fails) * st.perTrade >= st.lossLimit
Threshold == 3
LastThree == (Len(entries) - Threshold + 1)..Len(entries)
ErrorPauseReached == st.pause /\ Len(entries) >= Threshold /\ \A n \in LastThree : Failed(n)

\* transition(run, STOPPING): an error is logged and the next poll tries again.
Stop(trips) ==
  IF trips /\ run = "RUNNING"
  THEN \/ run' = "STOPPING" /\ UNCHANGED <<denied, faults>>
       \/ Fault /\ denied' = TRUE /\ UNCHANGED run
  ELSE UNCHANGED <<run, denied, faults>>

EnforceDailyLossLimit ==
  /\ pc = "loss" /\ pc' = "pause"
  /\ Stop(LossLimitReached(FailedToday))
  /\ UNCHANGED <<st, market, cache, lastClose, flagged, batch, failedNow,
                 position, closedAt, entries, reported, crashed>>

\* processIntents then fetches what is PENDING of RUNNING runs.
Pending == {n \in DOMAIN entries : entries[n].state = "PENDING"}
EnforceErrorPause ==
  /\ pc = "pause" /\ pc' = "intents"
  /\ Stop(ErrorPauseReached)
  /\ batch' = IF run' = "RUNNING" THEN Pending ELSE {}
  /\ UNCHANGED <<st, market, cache, lastClose, flagged, failedNow,
                 position, closedAt, entries, reported, crashed>>

-----------------------------------------------------------------------------
(* executeIntent with an exchange connection                                 *)

Next1 == CHOOSE n \in batch : \A m \in batch : n <= m

\* The venue answers by the rules it has now.
Accepts(order) ==
  /\ listed.status = "Trading" /\ order.qty % listed.step = 0
  /\ order.qty \in listed.min..listed.max /\ order.qty * order.price >= listed.minNotional

\* History: an order sent within the cooldown, and whether it was decided before.
InCooldown == closedAt > 0 /\ time - closedAt < st.cooldown
Attempted(e, state, why, order, rules) ==
  [e EXCEPT !.state = state, !.why = why, !.order = order, !.used = rules,
            !.hot = state = "PLACED" /\ InCooldown, !.late = e.at <= closedAt]
Result(n, state, why, order, rules) ==
  /\ entries' = [entries EXCEPT ![n] = Attempted(entries[n], state, why, order, rules)]
  /\ failedNow' = IF state = "FAILED" THEN failedNow \cup {n} ELSE failedNow

NoOrder == [valid |-> FALSE, why |-> "none"]
ExecuteIntent ==
  /\ pc = "intents" /\ batch # {}
  /\ LET n == Next1 e == entries[n] IN
     /\ batch' = batch \ {n}
     /\ \E found \in Lookups :
          LET order == NormalizeOrder(e.qty, e.price, st.limit, found.rules) IN
          /\ cache' = found.cache /\ Cost(found)
          /\ IF found.rules = NoRules
             THEN \* "fetch failed" is retried, an HTTP error of this endpoint is not
               Result(n, "PENDING", "none", NoOrder, NoRules) \/ Result(n, "FAILED", "lookup", NoOrder, NoRules)
             ELSE IF ~order.valid THEN Result(n, "FAILED", order.why, NoOrder, found.rules)
             ELSE \/ Accepts(order) /\ Result(n, "PLACED", "none", order, found.rules)
                  \/ ~Accepts(order) /\ Result(n, "FAILED", "venue", NoOrder, found.rules)
  /\ UNCHANGED <<st, market, lastClose, flagged, denied, pc,
                 position, closedAt, run, reported, crashed>>

BatchDone ==
  /\ pc = "intents" /\ batch = {} /\ pc' = "evaluate"
  /\ UNCHANGED <<st, market, cache, lastClose, flagged, batch, failedNow, denied, rows, crashed, faults>>

-----------------------------------------------------------------------------
(* evaluateStrategies, the run without a position                            *)

PollEnds == pc' = "loss" /\ failedNow' = {} /\ denied' = FALSE /\ batch' = {}

\* A bundle that does not parse or load, a run that is not RUNNING, no signal
\* or an ineligible entry: nothing is written.
NotEvaluated ==
  /\ pc = "evaluate" /\ PollEnds
  /\ flagged' \in {flagged, flagged /\ candles < 2}
  /\ cache' \in {cache} \cup {found.cache : found \in Lookups}
  /\ UNCHANGED <<st, market, lastClose, rows, crashed, faults>>

\* emitDatasetInsufficient: once for a shortage; a failed write takes the flag
\* back.
DatasetInsufficient ==
  /\ pc = "evaluate" /\ run = "RUNNING" /\ st.bundle # "invalid" /\ candles < 2 /\ ~flagged
  /\ PollEnds
  /\ \/ flagged' = TRUE /\ reported' = reported + 1 /\ UNCHANGED faults
     \/ Fault /\ UNCHANGED <<flagged, reported>>
  /\ UNCHANGED <<st, market, cache, lastClose, position, closedAt, entries, run, crashed>>

\* The quantity of an entry: sized by the rules found, or raw when the lookup
\* failed; with a ladder that of the base order, raw as well when it cannot be
\* sized.
Raw(budget) == [qty |-> <<budget, price>>, sized |-> FALSE]
Sized(order) == [qty |-> <<order.qty, 1>>, sized |-> TRUE]
Sizings(found, again) ==
  LET plain == SizeOrder(st.budget, price, found.rules)
      base == SizeOrder(st.dca, price, again.rules)
  IN IF found.rules # NoRules /\ ~plain.valid THEN {}
     ELSE IF st.dca > 0
     THEN {IF again.rules # NoRules /\ base.valid THEN Sized(base) ELSE Raw(st.dca)}
     ELSE {IF found.rules # NoRules THEN Sized(plain) ELSE Raw(st.budget)}

EvaluateEntry(side) ==
  /\ pc = "evaluate" /\ run = "RUNNING" /\ st.bundle # "invalid" /\ candles >= 2
  /\ ~position /\ Eligible
  /\ Len(entries) < MaxEntries
  /\ PollEnds /\ flagged' = FALSE
  /\ \E found, again \in Lookups :
       /\ found.rules # NoRules => again = found      \* the second lookup finds it cached
       /\ st.dca = 0 => again = found
       /\ cache' = again.cache /\ Cost(found)
       /\ \E s \in Sizings(found, again) :
            LET e == [at |-> time, side |-> side, qty |-> s.qty, sized |-> s.sized,
                      rules |-> again.rules, price |-> price,
                      budget |-> IF st.dca > 0 THEN st.dca ELSE st.budget,
                      state |-> "PENDING", why |-> "none", order |-> NoOrder, used |-> NoRules,
                      hot |-> FALSE, late |-> FALSE]
            IN \* the intentId names the candle and the side; a second one is P2002
               IF \E n \in DOMAIN entries : entries[n].at = time /\ entries[n].side = side
               THEN UNCHANGED entries ELSE entries' = Append(entries, e)
  /\ UNCHANGED <<st, market, lastClose, position, closedAt, run, reported, crashed>>

-----------------------------------------------------------------------------
(* The market, the position, the process                                     *)

NewCandle(p) ==
  /\ time < MaxTime /\ time' = time + 1 /\ price' = p
  /\ candles' = IF candles < 2 THEN candles + 1 ELSE 2
  /\ reported' = IF candles = 1 THEN 0 ELSE reported
  /\ UNCHANGED <<st, listed, worker, position, closedAt, entries, run, crashed, faults>>

VenueChanges(i) ==
  /\ Fault /\ i # listed /\ listed' = i
  /\ UNCHANGED <<st, time, price, candles, worker, rows, crashed>>

Fill(n) ==
  /\ entries[n].state = "PLACED" /\ entries' = [entries EXCEPT ![n].state = "FILLED"]
  /\ position' = TRUE
  /\ UNCHANGED <<st, market, worker, closedAt, run, reported, crashed, faults>>

\* The exit is reconciled: lastTradeCloseTimes.set.
Close ==
  /\ position /\ position' = FALSE /\ lastClose' = time /\ closedAt' = time
  /\ UNCHANGED <<st, market, cache, flagged, batch, failedNow, denied, pc, entries, run, reported,
                 crashed, faults>>

Restart ==
  /\ Fault /\ crashed' = TRUE
  /\ cache' = [rules |-> NoRules, at |-> 0] /\ lastClose' = 0 /\ flagged' = FALSE
  /\ pc' = "loss" /\ batch' = {} /\ failedNow' = {} /\ denied' = FALSE
  /\ UNCHANGED <<st, market, rows>>

Init ==
  /\ st \in Strategies /\ listed \in Instruments /\ price \in Prices
  /\ time = 1 /\ candles = 1 /\ crashed = FALSE /\ faults = 0
  /\ cache = [rules |-> NoRules, at |-> 0] /\ lastClose = 0 /\ flagged = FALSE
  /\ position = FALSE /\ closedAt = 0 /\ entries = <<>> /\ run = "RUNNING" /\ reported = 0
  /\ pc = "loss" /\ batch = {} /\ failedNow = {} /\ denied = FALSE

Next ==
  \/ EnforceDailyLossLimit \/ EnforceErrorPause \/ ExecuteIntent \/ BatchDone
  \/ NotEvaluated \/ DatasetInsufficient \/ \E side \in Sides : EvaluateEntry(side)
  \/ \E p \in Prices : NewCandle(p)
  \/ \E i \in Instruments : VenueChanges(i)
  \/ \E n \in DOMAIN entries : Fill(n)
  \/ Close \/ Restart

Spec == Init /\ [][Next]_vars

-----------------------------------------------------------------------------
(* Properties                                                                *)

TypeOK ==
  /\ st \in Strategies /\ listed \in Instruments /\ cache.rules \in Instruments \cup {NoRules}
  /\ time \in 1..MaxTime /\ candles \in 1..2 /\ run \in {"RUNNING", "STOPPING"}
  /\ pc \in {"loss", "pause", "intents", "evaluate"} /\ batch \subseteq DOMAIN entries
  /\ \A n \in DOMAIN entries :
       entries[n].state \in {"PENDING", "PLACED", "FILLED", "FAILED"} /\ entries[n].qty[1] > 0

\* An order never costs more than its budget at the price it was decided at,
\* is a whole number of steps within the limits it was checked against, and
\* gives up less than three steps of the budget.
OrdersFit ==
  \A n \in DOMAIN entries : LET e == entries[n] r == e.used IN
    e.order.valid =>
      /\ e.order.qty > 0 /\ e.order.qty % r.step = 0 /\ e.order.qty \in r.min..r.max
      /\ e.order.qty * e.order.price <= e.budget
      /\ e.rules = r => (e.order.qty + 3 * r.step) * e.price > e.budget

\* What the sizer lets through under the rules of the executor the normalizer
\* refuses only for a slip of the double, or a price between two ticks.
SizerAndNormalizerAgree ==
  \A n \in DOMAIN entries : LET e == entries[n] IN
    e.state = "FAILED" /\ e.sized /\ e.why \notin {"lookup", "venue", "status"} /\ e.used = e.rules =>
      \/ e.used.step = 1 /\ e.qty[1] \in Slips
      \/ e.why \in {"notional", "price"} /\ e.price % e.used.tick # 0

\* Within the cooldown after a trade no order is sent, but for one that was
\* decided before the trade closed, or when the process that saw it close has
\* gone.
CooldownHolds == \A n \in DOMAIN entries : entries[n].hot => entries[n].late \/ crashed

\* Once the guards of a poll have passed, the run has stopped on what had
\* failed before the poll, unless the database refused.
GuardsStop ==
  LET before == {n \in DOMAIN entries : Failed(n)} \ failedNow IN
  pc \in {"intents", "evaluate"} /\ run = "RUNNING" /\ ~denied =>
    /\ st.lossLimit > 0 =>
         Cardinality(before \cap FailedToday) * st.perTrade < st.lossLimit
    /\ st.pause => ~\E n \in 3..Len(entries) : n = Len(entries) /\ {n, n - 1, n - 2} \subseteq before

\* A shortage of candles is reported once by a process.
ShortageReportedOnce == reported <= IF crashed THEN 1 + faults ELSE 1
==============================================================================
