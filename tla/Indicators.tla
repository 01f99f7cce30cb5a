----------------------------- MODULE Indicators ------------------------------
(* The indicator engine (lib/indicators): each turns a sequence of candles    *)
(* into a series of the same length, with NoValue (null) for the bars of its  *)
(* warm-up.  Prices are integers and a division drops what is left over, so   *)
(* a rolling sum is the sum of its window.                                    *)
EXTENDS Integers, Sequences, FiniteSetsExt

CONSTANT NoValue

Abs(x) == IF x < 0 THEN -x ELSE x
SumOver(from, to, F(_)) == MapThenSumSet(F, from .. to)
From(n, first, F(_)) == [k \in 1 .. n |-> IF k < first THEN NoValue ELSE F(k)]

\* A value carried from bar to bar: seeded at bar `first`, then stepped.
Carried(n, first, seed, Step(_, _)) ==
  LET value[k \in first .. n] == IF k = first THEN seed ELSE Step(value[k - 1], k)
  IN From(n, first, LAMBDA k : value[k])

calcSMAOfFewer(c, length) ==    \* mutant: the window misses its first close
  From(Len(c), length, LAMBDA k : SumOver(k - length + 2, k, LAMBDA j : c[j].close) \div length)
calcSMA(c, length) ==
  From(Len(c), length, LAMBDA k : SumOver(k - length + 1, k, LAMBDA j : c[j].close) \div length)

EmaOf(n, x(_), first, length) ==    \* of a series that starts at bar `first`
  Carried(n, first + length - 1,
          SumOver(first, first + length - 1, x) \div length,
          LAMBDA ema, k : (2 * x(k) + (length - 1) * ema) \div (length + 1))
calcEMA(c, length) == EmaOf(Len(c), LAMBDA k : c[k].close, 1, length)

Wilder(n, x(_), first, length) ==    \* Wilder's smoothing, seeded with a mean
  Carried(n, first + length - 1,
          SumOver(first, first + length - 1, x) \div length,
          LAMBDA avg, k : (avg * (length - 1) + x(k)) \div length)

calcRSI(c, length) ==
  LET change(k) == c[k].close - c[k - 1].close
      avgGain == Wilder(Len(c), LAMBDA k : Max({change(k), 0}), 2, length)
      avgLoss == Wilder(Len(c), LAMBDA k : Max({-change(k), 0}), 2, length)
  IN From(Len(c), length + 1,
          LAMBDA k : IF avgLoss[k] = 0 THEN 100
                     ELSE (100 * avgGain[k]) \div (avgGain[k] + avgLoss[k]))

trueRange(c, k) ==
  IF k = 1 THEN c[k].high - c[k].low
  ELSE Max({c[k].high - c[k].low, Abs(c[k].high - c[k - 1].close), Abs(c[k].low - c[k - 1].close)})
calcATR(c, period) == Wilder(Len(c), LAMBDA k : trueRange(c, k), 1, period)

Sqrt(x) == CHOOSE r \in 0 .. x : r * r <= x /\ (r + 1) * (r + 1) > x
calcBollingerBands(c, period, stdDevMult) ==
  LET middle == calcSMA(c, period)
      stdDev(k) == Sqrt(SumOver(k - period + 1, k, LAMBDA j : (c[j].close - middle[k]) ^ 2)
                          \div period)
  IN [middle |-> middle,
      upper |-> From(Len(c), period, LAMBDA k : middle[k] + stdDevMult * stdDev(k)),
      lower |-> From(Len(c), period, LAMBDA k : middle[k] - stdDevMult * stdDev(k))]

calcMACD(c, fast, slow, signalPeriod) ==
  LET fastEMA == calcEMA(c, fast)
      slowEMA == calcEMA(c, slow)
      macd == From(Len(c), slow, LAMBDA k : fastEMA[k] - slowEMA[k])
      signal == EmaOf(Len(c), LAMBDA k : macd[k], slow, signalPeriod)
  IN [macd |-> macd, signal |-> signal,
      histogram |-> From(Len(c), slow + signalPeriod - 1, LAMBDA k : macd[k] - signal[k])]

calcVWAP(c) ==
  LET volume(k) == SumOver(1, k, LAMBDA j : c[j].volume)
      traded(k) == SumOver(1, k, LAMBDA j : ((c[j].high + c[j].low + c[j].close) \div 3) * c[j].volume)
  IN [k \in 1 .. Len(c) |-> IF volume(k) > 0 THEN traded(k) \div volume(k) ELSE NoValue]

calcADX(c, period) ==
  LET upMove(k) == c[k].high - c[k - 1].high
      downMove(k) == c[k - 1].low - c[k].low
      plusDM(k) == IF upMove(k) > downMove(k) /\ upMove(k) > 0 THEN upMove(k) ELSE 0
      minusDM(k) == IF downMove(k) > upMove(k) /\ downMove(k) > 0 THEN downMove(k) ELSE 0
      Smooth(x(_)) == Carried(Len(c), period + 1, SumOver(2, period + 1, x),
                              LAMBDA s, k : s - s \div period + x(k))
      smoothTR == Smooth(LAMBDA k : trueRange(c, k))
      DI(smooth) == From(Len(c), period + 1,
                         LAMBDA k : IF smoothTR[k] > 0 THEN (100 * smooth[k]) \div smoothTR[k] ELSE 0)
      plusDI == DI(Smooth(plusDM))
      minusDI == DI(Smooth(minusDM))
      dx(k) == IF plusDI[k] + minusDI[k] > 0
               THEN (100 * Abs(plusDI[k] - minusDI[k])) \div (plusDI[k] + minusDI[k]) ELSE 0
  IN [adx |-> Wilder(Len(c), dx, period + 1, period), plusDI |-> plusDI, minusDI |-> minusDI]

calcSuperTrend(c, atrPeriod, multiplier) ==
  LET atr == calcATR(c, atrPeriod)
      hl2(k) == (c[k].high + c[k].low) \div 2
      basicUpper(k) == hl2(k) + multiplier * atr[k]
      basicLower(k) == hl2(k) - multiplier * atr[k]
      Next(prev, k) ==
        LET upper == IF basicUpper(k) < prev.upper \/ c[k - 1].close > prev.upper
                     THEN basicUpper(k) ELSE prev.upper
            lower == IF basicLower(k) > prev.lower \/ c[k - 1].close < prev.lower
                     THEN basicLower(k) ELSE prev.lower
        IN [upper |-> upper, lower |-> lower,
            direction |-> IF prev.direction = 1 /\ c[k].close < lower THEN -1
                          ELSE IF prev.direction = -1 /\ c[k].close > upper THEN 1
                          ELSE prev.direction]
      band == Carried(Len(c), atrPeriod,
                      [upper |-> basicUpper(atrPeriod), lower |-> basicLower(atrPeriod),
                       direction |-> IF c[atrPeriod].close <= basicUpper(atrPeriod) THEN 1 ELSE -1],
                      Next)
  IN [supertrend |-> From(Len(c), atrPeriod, LAMBDA k : IF band[k].direction = 1
                                                        THEN band[k].lower ELSE band[k].upper),
      direction |-> From(Len(c), atrPeriod, LAMBDA k : band[k].direction)]

-----------------------------------------------------------------------------
(* The volume profile of the last `period` bars                              *)

VolumeByBin(c, window, bins, low, span) ==
  LET startBin(j) == ((c[j].low - low) * bins) \div span
      endBin(j) == Min({bins - 1, ((c[j].high - low) * bins) \div span})
      volPerBin(j) == c[j].volume \div (endBin(j) - startBin(j) + 1)
  IN [b \in 0 .. bins - 1 |->
        MapThenSumSet(volPerBin, {j \in window : b \in startBin(j) .. endBin(j)})]

RECURSIVE Expand(_, _, _, _, _)
Expand(volume, area, low, high, bins) ==    \* the value area, from the POC outwards
  LET below == IF low > 0 THEN volume[low - 1] ELSE 0
      above == IF high < bins - 1 THEN volume[high + 1] ELSE 0
      total == MapThenSumSet(LAMBDA b : volume[b], 0 .. bins - 1)
  IN IF 100 * area >= 70 * total \/ (low = 0 /\ high = bins - 1) THEN <<low, high>>
     ELSE IF low > 0 /\ (below >= above \/ high = bins - 1)
     THEN Expand(volume, area + below, low - 1, high, bins)
     ELSE Expand(volume, area + above, low, high + 1, bins)

VolumeProfileAt(c, k, period, bins) ==
  LET window == k - period + 1 .. k
      low == Min({c[j].low : j \in window})
      span == Max({c[j].high : j \in window}) - low
      volume == VolumeByBin(c, window, bins, low, span)
      pocBin == Min({b \in 0 .. bins - 1 : \A d \in 0 .. bins - 1 : volume[d] <= volume[b]})
      area == Expand(volume, volume[pocBin], pocBin, pocBin, bins)
  IN IF span = 0 THEN [poc |-> c[k].close, vah |-> c[k].close, val |-> c[k].close]
     ELSE [poc |-> low + ((2 * pocBin + 1) * span) \div (2 * bins),
           val |-> low + (area[1] * span) \div bins,
           vah |-> low + ((area[2] + 1) * span) \div bins]
calcVolumeProfile(c, period, bins) ==
  From(Len(c), period, LAMBDA k : VolumeProfileAt(c, k, period, bins))
==============================================================================
