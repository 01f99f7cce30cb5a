---------------------------- MODULE CandleHistory -----------------------------
(* Candles as they close, on the strategy's timeframe and on a higher one,    *)
(* and the series a strategy reads from them: its indicators, its patterns,   *)
(* and an indicator of the higher timeframe laid over its own bars            *)
(* (lib/mtf/intervalAlignment.ts, mtfIndicatorResolver.ts).                   *)
(*                                                                            *)
(* A step is one period of the primary timeframe.  Its candle may be missing; *)
(* a candle of the higher timeframe closes every Ratio periods.               *)
EXTENDS SmcPatterns

CONSTANTS Shapes,     \* what a candle may look like: [open, high, low, close, volume]
          Ratio,      \* periods of the primary timeframe in one of the higher
          MaxBars,    \* bound: candles of the primary timeframe
          MaxGaps     \* bound: periods without one

VARIABLES primary, context,    \* the candles, each with the time it opened at
          now,
          series, patterns      \* what the evaluator reads of them, per bar

vars == <<primary, context, now, series, patterns>>

Candle(time, shape) == [time |-> time, open |-> shape.open, high |-> shape.high,
                        low |-> shape.low, close |-> shape.close, volume |-> shape.volume]
alignToInterval(time) == (time \div Ratio) * Ratio
Within(bars, time) == SelectSeq(bars, LAMBDA b : alignToInterval(b.time) = time)
Merged(bars) ==
  [open |-> bars[1].open, close |-> Last(bars).close,
   high |-> Max({bars[k].high : k \in DOMAIN bars}), low |-> Min({bars[k].low : k \in DOMAIN bars}),
   volume |-> SumOver(1, Len(bars), LAMBDA k : bars[k].volume)]
-----------------------------------------------------------------------------
(* Alignment: for each bar the index of a candle of the higher timeframe     *)

buildAlignmentMap(bars, htf) ==
  [k \in DOMAIN bars |->
     LET match == {j \in DOMAIN htf : htf[j].time = alignToInterval(bars[k].time)}
     IN IF match = {} THEN NoValue ELSE Min(match)]
buildClosedAlignmentMap(bars, htf) ==
  [k \in DOMAIN bars |->
     LET closed == {j \in DOMAIN htf : htf[j].time + Ratio <= bars[k].time}
     IN IF closed = {} THEN NoValue ELSE Max(closed)]
resolveMtfIndicator(values, map) ==
  [k \in DOMAIN map |-> IF map[k] = NoValue THEN NoValue ELSE values[map[k]]]

-----------------------------------------------------------------------------
(* The series of a strategy, with short periods                              *)

Series(bars, htf) ==
  [SMA |-> calcSMA(bars, 2), EMA |-> calcEMA(bars, 2), RSI |-> calcRSI(bars, 2),
   ATR |-> calcATR(bars, 2), ADX |-> calcADX(bars, 2).adx, VWAP |-> calcVWAP(bars),
   MACD |-> calcMACD(bars, 1, 2, 2).histogram, bands |-> calcBollingerBands(bars, 2, 1),
   supertrend |-> calcSuperTrend(bars, 2, 1),
   profile |-> calcVolumeProfile(bars, 2, 3),
   HTF |-> resolveMtfIndicator(calcSMA(htf, 1), buildClosedAlignmentMap(bars, htf))]
Patterns(bars) ==
  [fvg |-> fvgSeries(bars, 0), sweep |-> sweepSeries(bars, 1, 50),
   orderBlock |-> orderBlockSeries(bars, 2, 1, 2), mss |-> mssSeries(bars, 1)]

-----------------------------------------------------------------------------
(* The market: what has closed at the end of a period                        *)

Init ==
  /\ primary = <<>> /\ context = <<>> /\ now = 0
  /\ series = [name \in {} |-> <<>>] /\ patterns = series

Closed ==     \* with the period's candle, or without
  (IF Len(primary) < MaxBars THEN {Append(primary, Candle(now, shape)) : shape \in Shapes} ELSE {})
    \cup IF now - Len(primary) < MaxGaps THEN {primary} ELSE {}
Close(bars) ==
  LET opened == now + 1 - Ratio
  IN /\ now' = now + 1
     /\ primary' = bars
     /\ context' = IF (now + 1) % Ratio = 0 /\ Within(bars, opened) # <<>>
                   THEN Append(context, Candle(opened, Merged(Within(bars, opened))))
                   ELSE context
     /\ series' = Series(bars, context') /\ patterns' = Patterns(bars)

Next == \E bars \in Closed : Close(bars)
Spec == Init /\ [][Next]_vars

-----------------------------------------------------------------------------
TypeOK ==
  /\ now \in Nat /\ Len(primary) <= now /\ Len(context) * Ratio <= now
  /\ \A name \in DOMAIN patterns : Len(patterns[name]) = Len(primary)

\* The indicators answer within their bounds: an average lies within the prices
\* it averages, an oscillator within 0 and 100, the bands and the value area
\* are in order, and the close is on the side of the SuperTrend line its
\* direction says.
IndicatorsHold ==
  LET Low(j, k) == Min({primary[l].low : l \in j .. k})
      High(j, k) == Max({primary[l].high : l \in j .. k})
      Known(f, k) == f[k] # NoValue
  IN \A k \in DOMAIN primary :
       /\ (Known(series.SMA, k) => series.SMA[k] \in Low(k - 1, k) .. High(k - 1, k))
       /\ (Known(series.EMA, k) => series.EMA[k] \in Low(1, k) - 1 .. High(1, k))
       /\ (Known(series.VWAP, k) => series.VWAP[k] \in Low(1, k) - 1 .. High(1, k))
       /\ (Known(series.RSI, k) => series.RSI[k] \in 0 .. 100)
       /\ (Known(series.ADX, k) => k >= 4 /\ series.ADX[k] \in 0 .. 100)
       /\ (Known(series.bands.middle, k) =>
             /\ series.bands.lower[k] <= series.bands.middle[k]
             /\ series.bands.middle[k] <= series.bands.upper[k])
       /\ (Known(series.profile, k) =>
             LET p == series.profile[k]
             IN Low(k - 1, k) <= p.val /\ p.val <= p.poc /\ p.poc <= p.vah /\ p.vah <= High(k - 1, k))
       /\ (Known(series.supertrend.direction, k) /\ k > 2 =>
             IF series.supertrend.direction[k] = 1
             THEN primary[k].close >= series.supertrend.supertrend[k]
             ELSE primary[k].close <= series.supertrend.supertrend[k])

\* A bar's indicators do not change when later candles close, on its own
\* timeframe or on the higher one: what a backtest reads at a bar is what a
\* live strategy could have read there.
Plain == {"SMA", "EMA", "RSI", "ATR", "ADX", "VWAP", "MACD", "profile", "HTF"}
Keeps ==
  \A k \in DOMAIN primary :
    /\ \A name \in Plain : series'[name][k] = series[name][k]
    /\ series'.bands.upper[k] = series.bands.upper[k]
    /\ series'.supertrend.supertrend[k] = series.supertrend.supertrend[k]

\* What the plan says of a backtest, that no entry looks ahead, of the pattern
\* blocks: a later candle puts no signal on an earlier bar.
Signal(value) == IF value = NoValue THEN 0 ELSE value
PatternsKeep ==
  \A name \in DOMAIN patterns : \A k \in DOMAIN primary :
    Signal(patterns'[name][k]) = Signal(patterns[name][k])
==============================================================================
