----------------------------- MODULE EntrySignals -----------------------------
(* The entry of a strategy, decided on a bar twice: by a backtest, over the   *)
(* whole history and the higher candles that had closed (dslEvaluator.ts,     *)
(* backtest.ts), and by the worker when the bar was its last, over the        *)
(* candles it loads and the higher ones as they are stored (signalEngine.ts,  *)
(* botWorker.ts).  The worker asks while it has no position.  Bars are what   *)
(* they closed as; one stored while it forms is the matter of Datasets.       *)
EXTENDS CandleHistory

CONSTANTS Entries,    \* the entry sections: [name -> side, condition, signal, near, bundle]
          Lookback    \* 200: candles of a timeframe the worker loads

VARIABLE decided      \* per entry and bar: what the worker may have decided there

entryVars == <<vars, decided>>

\* A decision is a side, "none", or "throws": MtfBundleRequiredError, which
\* fails a backtest and is logged by the worker.
Sides == {"long", "short"}
MaxSignalDepth == 5

-----------------------------------------------------------------------------
(* The series a reference names                                              *)

getIndicatorValues(ref, c) ==
  CASE ref.type = "SMA" -> calcSMA(c, ref.length)
    [] ref.type = "EMA" -> calcEMA(c, ref.length)
    [] ref.type = "vwap" -> calcVWAP(c)
    [] ref.type = "fair_value_gap" -> fvgSeries(c, 0)
    [] ref.type = "constant" -> [k \in DOMAIN c |-> ref.length]

\* A context: whether there is a bundle, whether it has the higher timeframe,
\* and that timeframe's candles with their alignment to the bars.
NoContext == [bundle |-> "none", htf |-> <<>>, map |-> <<>>]
createCandleBundle(entry, c, htf) ==
  IF entry.bundle = "none" THEN NoContext
  ELSE [bundle |-> entry.bundle, htf |-> htf, map |-> buildAlignmentMap(c, htf)]
createClosedCandleBundle(entry, c, htf) ==
  IF entry.bundle = "none" THEN NoContext
  ELSE [bundle |-> entry.bundle, htf |-> htf, map |-> buildClosedAlignmentMap(c, htf)]

\* resolveIndicatorRef, resolveSignalRef: a bundle without the timeframe falls
\* back to the bars.
Throws(ref, ctx) == ref.htf /\ ctx.bundle = "none"
resolveRef(ref, c, ctx) ==
  IF ref.htf /\ ctx.bundle = "full"
  THEN resolveMtfIndicator(getIndicatorValues(ref, ctx.htf), ctx.map)
  ELSE getIndicatorValues(ref, c)

evalOp(op, a, b) ==
  CASE op = ">" -> a > b [] op = ">=" -> a >= b [] op = "<" -> a < b [] op = "<=" -> a <= b
    [] op = "==" -> a = b [] OTHER -> FALSE

-----------------------------------------------------------------------------
(* evaluateSignal: "yes", "no" or "throws"; conditions are asked in order    *)

Fired(b) == IF b THEN "yes" ELSE "no"
\* every and some stop at the first answer that is not `go`.
InOrder(go, answers) == FoldLeft(LAMBDA said, answer : IF said = go THEN answer ELSE said, go, answers)

Crossed(type, fast, slow, i) ==
  /\ \A series_ \in {fast, slow} : series_[i - 1] # NoValue /\ series_[i] # NoValue
  /\ IF type = "crossover" THEN fast[i - 1] <= slow[i - 1] /\ fast[i] > slow[i]
     ELSE fast[i - 1] >= slow[i - 1] /\ fast[i] < slow[i]
Compared(op, left, right, i) ==
  left[i] # NoValue /\ right[i] # NoValue /\ evalOp(op, left[i], right[i])

RECURSIVE evaluateSignal(_, _, _, _, _)
evaluateSignal(signal, i, c, ctx, depth) ==
  LET Sub(n, j) == evaluateSignal(signal.conditions[n], j, c, ctx, depth + 1)
      a == resolveRef(signal.left, c, ctx)
      b == resolveRef(signal.right, c, ctx)
  IN CASE depth >= MaxSignalDepth -> "no"
       [] signal.type \in {"and", "or"} /\ signal.conditions = <<>> -> "no"
       [] signal.type = "and" -> InOrder("yes", [n \in DOMAIN signal.conditions |-> Sub(n, i)])
       [] signal.type = "or" -> InOrder("no", [n \in DOMAIN signal.conditions |-> Sub(n, i)])
       [] signal.type = "confirm_n_bars" ->
            IF i < signal.bars THEN "no"
            ELSE InOrder("yes", [n \in 1..signal.bars |-> Sub(1, i - signal.bars + n)])
       [] signal.type \in {"crossover", "crossunder"} /\ i = 1 -> "no"
       [] Throws(signal.left, ctx) \/ Throws(signal.right, ctx) -> "throws"
       [] signal.type = "compare" -> Fired(Compared(signal.op, a, b, i))
       [] OTHER -> Fired(Crossed(signal.type, a, b, i))

\* Without a level the filter lets the signal through.
evaluateProximityFilter(near, i, c) ==
  LET level == getIndicatorValues(near, c)[i] IN
  \/ near.mode = "none" \/ level = NoValue \/ level = 0
  \/ IF near.mode = "absolute" THEN Abs(c[i].close - level) <= near.threshold
     ELSE 100 * Abs(c[i].close - level) <= near.threshold * level

-----------------------------------------------------------------------------
(* The side, and the decision                                                *)

\* The long condition is asked first.  dslValidator.ts lets no mode but the
\* comparison with the close through.
SideOf(condition, value, close) ==
  IF value = NoValue THEN "none"
  ELSE IF evalOp(condition.long, close, value) THEN "long"
  ELSE IF evalOp(condition.short, close, value) THEN "short" ELSE "none"

determineSide(entry, i, c, ctx) ==
  IF entry.side # "none" THEN entry.side
  ELSE IF Throws(entry.condition.ref, ctx) THEN "throws"
  ELSE SideOf(entry.condition, resolveRef(entry.condition.ref, c, ctx)[i], c[i].close)

\* The backtest's own copy: without a bundle the timeframe is not looked at.
BacktestSide(entry, i, c, ctx) ==
  IF entry.side # "none" THEN entry.side
  ELSE SideOf(entry.condition, resolveRef(entry.condition.ref, c, ctx)[i], c[i].close)

Decision(entry, side, i, c, ctx) ==
  IF side \notin Sides THEN side
  ELSE LET fired == evaluateSignal(entry.signal, i, c, ctx, 0) IN
       IF fired = "throws" THEN "throws"
       ELSE IF fired = "yes" /\ evaluateProximityFilter(entry.near, i, c) THEN side ELSE "none"

\* runDslBacktest starts at the second bar.
BacktestEntry(entry, i, c, htf) ==
  LET ctx == createClosedCandleBundle(entry, c, htf) IN
  IF i < 2 THEN "none" ELSE Decision(entry, BacktestSide(entry, i, c, ctx), i, c, ctx)

Loaded(c) == IF Len(c) > Lookback THEN SubSeq(c, Len(c) - Lookback + 1, Len(c)) ELSE c
evaluateEntry(entry, c, htf) ==
  LET ctx == createCandleBundle(entry, c, htf) i == Len(c) IN
  IF i < 2 THEN "none" ELSE Decision(entry, determineSide(entry, i, c, ctx), i, c, ctx)

-----------------------------------------------------------------------------
(* A period ends; the worker looks at the bars, also when the last is old    *)

\* The higher candles that may be stored: the last one may be missing still,
\* and the one that is forming may be there.
Forming == Within(primary', alignToInterval(now))
Stored ==
  {context, context'} \cup
    IF now' % Ratio # 0 /\ Forming # <<>>
    THEN {Append(context', Candle(alignToInterval(now), Merged(Forming)))} ELSE {}
Decisions(entry) == {evaluateEntry(entry, Loaded(primary'), Loaded(htf)) : htf \in Stored}

EvaluateInit == Init /\ decided = [name \in DOMAIN Entries |-> <<>>]

Evaluate ==
  /\ \E bars \in Closed : Close(bars)
  /\ decided' = [name \in DOMAIN Entries |->
       LET found == Decisions(Entries[name]) n == Len(primary) IN
       IF primary' # primary THEN Append(decided[name], found)
       ELSE IF n = 0 THEN <<>> ELSE [decided[name] EXCEPT ![n] = @ \cup found]]

-----------------------------------------------------------------------------
(* Properties                                                                *)

\* The bars back from its own that a decision depends on; what depends on the
\* whole past, on a higher timeframe or on a pattern has no such bound.
Unbounded == Lookback + 1
RefReach(ref) ==
  IF ref.htf \/ ref.type \in {"EMA", "vwap", "fair_value_gap"} THEN Unbounded
  ELSE IF ref.type = "constant" THEN 1 ELSE ref.length
RECURSIVE SignalReach(_)
SignalReach(signal) ==
  CASE signal.type \in {"and", "or"} ->
         Max({SignalReach(signal.conditions[n]) : n \in DOMAIN signal.conditions})
    [] signal.type = "confirm_n_bars" -> SignalReach(signal.conditions[1]) + signal.bars - 1
    [] OTHER -> Max({RefReach(signal.left), RefReach(signal.right)})
                  + IF signal.type = "compare" THEN 0 ELSE 1
Reach(entry) ==
  Max({SignalReach(entry.signal), IF entry.side = "none" THEN RefReach(entry.condition.ref) ELSE 1,
       IF entry.near.mode = "none" THEN 1 ELSE RefReach(entry.near)})

\* The worker, whenever it looks, decides on a bar what a backtest over more
\* bars and candles decides there, as long as all the decision depends on is
\* among the candles it loads.
EntryParity ==
  \A name \in DOMAIN Entries : Reach(Entries[name]) <= Lookback =>
    \A k \in DOMAIN primary :
      decided[name][k] = {BacktestEntry(Entries[name], k, primary, context)}

\* A backtest enters on what had happened: bars and higher candles that close
\* later change no decision, but for those on a pattern.
Patterned(entry) ==
  entry.signal.type = "compare" /\ entry.signal.left.type = "fair_value_gap"
EntriesKeep ==
  \A name \in DOMAIN Entries : ~Patterned(Entries[name]) =>
    \A k \in DOMAIN primary :
      BacktestEntry(Entries[name], k, primary', context')
        = BacktestEntry(Entries[name], k, primary, context)
==============================================================================
