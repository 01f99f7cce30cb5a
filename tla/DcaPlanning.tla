----------------------------- MODULE DcaPlanning -----------------------------
(* The DCA ladder's arithmetic (lib/dcaPlanning.ts): which prices trigger the *)
(* safety orders, what a partly filled ladder has cost, where its average,    *)
(* take-profit and stop are.  Amounts are integers: a division drops what is  *)
(* left over.  A config is [base, max, step, stepScale, volumeScale, tp]; a   *)
(* side is "long" or "short".                                                 *)
EXTENDS Integers

Toward(side, x, d) == IF side = "long" THEN x + d ELSE x - d   \* d in favour of the side
Gain(side, from, to) == IF side = "long" THEN to - from ELSE from - to
AsBad(side, x, y) == Gain(side, x, y) >= 0    \* x is y or lies on its losing side
Percent(x, p) == (x * p) \div 100

\* The loops over the safety orders.  At n: the cumulative deviation, in percent
\* of the base entry, and the size of the n-th order, what the orders up to it
\* cost, and the step to the next.
FirstLevel(c) == [deviation |-> 0, step |-> c.step, size |-> c.base, spent |-> c.base]
NextLevel(c, l) ==
  [deviation |-> l.deviation + l.step, step |-> l.step * c.stepScale,
   size |-> l.size * c.volumeScale, spent |-> l.spent + l.size * c.volumeScale]
Levels(c) ==
  LET level[n \in Nat] == IF n = 0 THEN FirstLevel(c) ELSE NextLevel(c, level[n - 1])
  IN level

calculateMaxDeviation(c) == Levels(c)[c.max].deviation
calculateMaxExposure(c) == Levels(c)[c.max].spent

validateDcaConfig(c) ==
  /\ c.base > 0 /\ c.max >= 0 /\ c.step > 0
  /\ c.stepScale >= 1 /\ c.volumeScale >= 1 /\ c.tp > 0
  /\ calculateMaxDeviation(c) < 100

TriggerPrice(entry, side, deviation) == Toward(side, entry, -Percent(entry, deviation))
Fill(price, size) == [price |-> price, size |-> size, qty |-> size \div price]
generateSafetyOrderSchedule(c, entry, side) ==
  [n \in 1 .. c.max |->
     Fill(TriggerPrice(entry, side, Levels(c)[n].deviation), Levels(c)[n].size)]

\* The fills of a position, its base order first: worth, quantity and cost of
\* those up to each.
NoFills == [worth |-> 0, qty |-> 0, cost |-> 0]
AddFill(t, f) ==
  [worth |-> t.worth + f.price * f.qty, qty |-> t.qty + f.qty, cost |-> t.cost + f.size]
Totals(fills, last) ==
  LET total[n \in 0 .. last] ==
        IF n = 0 THEN AddFill(NoFills, fills[0]) ELSE AddFill(total[n - 1], fills[n])
  IN total[last]
calculateAvgEntry(total) == total.worth \div total.qty
recalcTakeProfit(avg, pct, side) == Toward(side, avg, Percent(avg, pct))
recalcStopLoss(avg, pct, side) == Toward(side, avg, -Percent(avg, pct))

\* openDcaPosition with no safety order, applySafetyOrderFill with the last of n.
Ladder(c, entry, side, slPct, n) ==
  LET orders == generateSafetyOrderSchedule(c, entry, side)
      total == Totals([k \in 0 .. n |-> IF k = 0 THEN Fill(entry, c.base) ELSE orders[k]], n)
      avg == IF n = 0 THEN entry ELSE calculateAvgEntry(total)
  IN [avg |-> avg,
      tp |-> recalcTakeProfit(avg, c.tp, side),
      sl |-> recalcStopLoss(avg, slPct, side),
      cost |-> total.cost]
==============================================================================
