----------------------------- MODULE SmcPatterns ------------------------------
(* The pattern primitives (lib/patterns) and the series the evaluator reads   *)
(* them through (lib/runtime/patternEngine.ts): 1 and -1 for a bullish and a  *)
(* bearish pattern, 2 and -2 for a change of character, 0 for none.           *)
EXTENDS Indicators, SequencesExt

\* A gap between the bars before and after k, entered at the middle bar.
GapAt(c, k, minGapRatio) ==
  LET body == Abs(c[k].close - c[k].open)
      Enough(gap) == minGapRatio = 0 \/ body = 0 \/ gap >= minGapRatio * body
      bullish == c[k + 1].low - c[k - 1].high
      bearish == c[k - 1].low - c[k + 1].high
  IN IF bullish > 0 /\ Enough(bullish) THEN 1
     ELSE IF bearish > 0 /\ Enough(bearish) THEN -1 ELSE 0
fvgSeries(c, minGapRatio) ==
  [k \in 1 .. Len(c) |->
     LET gap == IF k \in 2 .. Len(c) - 1 THEN GapAt(c, k, minGapRatio) ELSE 0
     IN IF gap # 0 THEN gap ELSE IF k <= 2 \/ Len(c) < 3 THEN NoValue ELSE 0]

\* The last bar against an impulse, at most maxLookback bars before it.
ImpulseAt(c, i, atrPeriod, minImpulseMultiple) ==
  LET body == c[i].close - c[i].open
      trSum == SumOver(i - atrPeriod + 1, i, LAMBDA j : trueRange(c, j))
  IN IF trSum > 0 /\ Abs(body) * atrPeriod >= minImpulseMultiple * trSum
     THEN IF body > 0 THEN 1 ELSE -1
     ELSE 0
OrderBlockAt(c, j, i, atrPeriod, minImpulseMultiple, maxLookback) ==
  LET impulse == ImpulseAt(c, i, atrPeriod, minImpulseMultiple)
      Opposes(k) == IF impulse = 1 THEN c[k].close < c[k].open ELSE c[k].close > c[k].open
  IN IF impulse # 0 /\ j >= i - maxLookback /\ Opposes(j) /\ ~\E k \in j + 1 .. i - 1 : Opposes(k)
     THEN impulse ELSE 0
orderBlockSeries(c, atrPeriod, minImpulseMultiple, maxLookback) ==
  [j \in 1 .. Len(c) |->
     LET found == {OrderBlockAt(c, j, i, atrPeriod, minImpulseMultiple, maxLookback) :
                     i \in Max({j, atrPeriod}) + 1 .. Len(c)} \ {0}
     IN IF found # {} THEN Min(found)
        ELSE IF Len(c) < atrPeriod + 1 \/ j <= atrPeriod THEN NoValue ELSE 0]

Swing(k, type, level) == [index |-> k, type |-> type, level |-> level]
SwingsAt(c, k, swingLen) ==
  LET around == (k - swingLen .. k + swingLen) \ {k}
  IN (IF \A j \in around : c[k].high > c[j].high THEN <<Swing(k, "high", c[k].high)>> ELSE <<>>)
     \o (IF \A j \in around : c[k].low < c[j].low THEN <<Swing(k, "low", c[k].low)>> ELSE <<>>)
findSwingPoints(c, swingLen) ==
  FlattenSeq([k \in 1 .. Max({Len(c) - swingLen, 0}) |->
                IF k <= swingLen THEN <<>> ELSE SwingsAt(c, k, swingLen)])
Warm(c, swingLen, At(_)) ==
  IF Len(c) < 2 * swingLen + 2 THEN [k \in 1 .. Len(c) |-> NoValue]
  ELSE [k \in 1 .. Len(c) |-> IF At(k) # 0 \/ k > swingLen THEN At(k) ELSE NoValue]

sweepSeries(c, swingLen, maxAge) ==
  LET swings == findSwingPoints(c, swingLen)
      Swept(i, s) ==
        /\ s.index < i /\ i - s.index <= maxAge
        /\ IF s.type = "low" THEN c[i].low < s.level /\ c[i].close > s.level
           ELSE c[i].high > s.level /\ c[i].close < s.level
      At(i) == LET swept == SelectSeq(swings, LAMBDA s : Swept(i, s))
               IN IF i < swingLen + 2 \/ swept = <<>> THEN 0
                  ELSE IF Last(swept).type = "low" THEN 1 ELSE -1
  IN Warm(c, swingLen, At)

Trend(highs, lows) ==    \* deriveTrendFromPointers
  IF Len(highs) < 2 \/ Len(lows) < 2 THEN "none"
  ELSE LET Rise(s) == s[Len(s)].level - s[Len(s) - 1].level
       IN IF Rise(highs) > 0 /\ Rise(lows) > 0 THEN "up"
          ELSE IF Rise(highs) < 0 /\ Rise(lows) < 0 THEN "down" ELSE "none"

\* Bar by bar: the latest unbroken swing high, then low, is broken by a close
\* beyond it; a broken one is never broken again.
mssSeries(c, swingLen) ==
  LET swings == findSwingPoints(c, swingLen)
      Before(i, type) == SelectSeq(swings, LAMBDA s : s.type = type /\ s.index < i)
      Break(i, type, broken) ==
        LET unbroken == SelectSeq(Before(i, type), LAMBDA s : s.index \notin broken)
        IN IF unbroken = <<>> THEN {}
           ELSE LET s == Last(unbroken)
                IN IF IF type = "high" THEN c[i].close > s.level ELSE c[i].close < s.level
                   THEN {s.index} ELSE {}
      Step(prev, i) ==
        LET up == Break(i, "high", prev.broken)
            down == Break(i, "low", prev.broken \cup up)
            trend == Trend(Before(i, "high"), Before(i, "low"))
        IN [broken |-> prev.broken \cup up \cup down,
            value |-> IF down # {} THEN IF trend = "up" THEN -2 ELSE -1
                      ELSE IF up # {} THEN IF trend = "down" THEN 2 ELSE 1 ELSE 0]
      first == IF swings = <<>> THEN Len(c) ELSE swings[1].index + swingLen
      state == Carried(Len(c), first, [broken |-> {}, value |-> 0], Step)
      At(k) == IF Len(swings) < 2 \/ k <= first THEN 0 ELSE state[k].value
  IN Warm(c, swingLen, At)
==============================================================================
