-------------------------------- MODULE LabGrid --------------------------------
(* What a sweep runs and what a walk-forward splits: the checks of            *)
(* POST /lab/backtest/sweep, lib/sweepGrid.ts, lib/dslSweepParam.ts,           *)
(* lib/walkForward/split.ts, run.ts and aggregate.ts.  Results of a backtest   *)
(* are in cents of a percent, as the engine rounds them.                       *)
(* Parameter values are counted in units of their step's precision; slip is    *)
(* the float division that comes out just below a whole number.                *)
EXTENDS Integers, Sequences, SequencesExt, FiniteSets

CONSTANTS Ranges,        \* sweep parameters: records key, from, to, step
          MaxParams,     \* bound: parameters of a request
          MaxRuns,       \* 20: combinations of an accepted sweep
          Blocks,        \* the compiled DSL: set of <<key, default>> at places
          MaxBars, Htf,  \* candles of the dataset; primary bars per higher one
          Reports,       \* results of a backtest: pnl, sharpe
          NoRatio        \* null: a sharpe or a ratio that is not defined

VARIABLES sweep,   \* the last sweep request: status, params, runCount, grid
          folds,   \* the last walk-forward request: config and folds
          walk     \* what its runner has made of it

vars == <<sweep, folds, walk>>

-----------------------------------------------------------------------------
(* POST /lab/backtest/sweep: validation                                      *)

\* Math.floor((to - from) / step) + 1
RunsOf(p, slip) ==
  LET q == (p.to - p.from) \div p.step
  IN (IF slip /\ (p.to - p.from) % p.step = 0 THEN q - 1 ELSE q) + 1

RunCountOf(ps, slip) == FoldLeft(LAMBDA n, p : n * RunsOf(p, slip), 1, ps)

Duplicate(ps) == \E i, j \in DOMAIN ps : i < j /\ ps[i].key = ps[j].key
BadRange(p, slip) == p.from >= p.to \/ p.step <= 0 \/ RunsOf(p, slip) < 2

Validate(ps, slip) ==
  IF Len(ps) \notin 1..3 \/ Duplicate(ps) THEN 400
  ELSE IF \E i \in DOMAIN ps : BadRange(ps[i], slip) THEN 400
  ELSE IF RunCountOf(ps, slip) > MaxRuns THEN 422 ELSE 202

-----------------------------------------------------------------------------
(* enumerateGrid                                                             *)

\* for (v = from; v <= to + 1e-9; v += step)
ExpandValues(p) == [i \in 1..((p.to - p.from) \div p.step + 1) |-> p.from + (i - 1) * p.step]

\* The recursion appends one parameter after the other: the last is fastest.
Extend(combinations, p) ==
  FlattenSeq([i \in DOMAIN combinations |->
    [k \in DOMAIN ExpandValues(p) |->
       Append(combinations[i], [key |-> p.key, value |-> ExpandValues(p)[k]])]])

EnumerateGrid(ps) == IF ps = <<>> THEN <<>> ELSE FoldLeft(Extend, <<<<>>>>, ps)

\* applyDslSweepParams: at every place of the DSL the params of the combination
\* that name it are applied in order; a place nobody names keeps its value.
Apply(combination) ==
  {<<b[1], FoldLeft(LAMBDA v, c : IF c.key = b[1] THEN c.value ELSE v, b[2], combination)>> :
     b \in Blocks}

PostSweep(ps, slip) ==
  LET status == Validate(ps, slip) IN
  /\ sweep' = [status |-> status, params |-> ps, slip |-> slip,
               runCount |-> IF status = 202 THEN RunCountOf(ps, slip) ELSE 0,
               grid |-> IF status = 202 THEN EnumerateGrid(ps) ELSE <<>>]
  /\ UNCHANGED <<folds, walk>>

-----------------------------------------------------------------------------
(* split: folds are half-open index ranges of the candles, 0-based           *)

FoldAt(cfg, i) ==
  LET oosStart == cfg.isBars + i * cfg.step IN
  [isStart |-> IF cfg.anchored THEN 0 ELSE i * cfg.step,
   oosStart |-> oosStart, oosEnd |-> oosStart + cfg.oosBars]

Split(bars, cfg) ==
  IF bars < cfg.isBars + cfg.oosBars THEN <<>>     \* throws
  ELSE [i \in 1..((bars - cfg.isBars - cfg.oosBars) \div cfg.step + 1) |-> FoldAt(cfg, i - 1)]

\* sliceBundleByWindow: candles of a higher interval (opening every Htf bars)
\* that open between the first and the last primary candle, both included.
HtfOpens(bars) == {k * Htf : k \in 0..((bars - 1) \div Htf)}
SliceByWindow(bars, from, to) == {t \in HtfOpens(bars) : t >= from /\ t <= to - 1}

\* A request may bring a bundle of intervals; the compiled DSL may name a
\* timeframe of an indicator (mtf) or not.
PostWalkForward(bars, cfg, interval, mtf, bundle) ==
  LET all == Split(bars, cfg) IN
  /\ folds' = [bars |-> bars, cfg |-> cfg, interval |-> interval, mtf |-> mtf, bundle |-> bundle,
       status |-> IF Len(all) \in 1..20 THEN 202 ELSE 400,
       list |-> [i \in DOMAIN all |->
         [fold |-> all[i],
          is |-> SliceByWindow(bars, all[i].isStart, all[i].oosStart),
          oos |-> SliceByWindow(bars, all[i].oosStart, all[i].oosEnd)]]]
  /\ UNCHANGED <<sweep, walk>>

-----------------------------------------------------------------------------
(* runWalkForward, runWalkForwardWithBundle                                  *)

NoWalk == [status |-> "none", progress |-> <<>>, is |-> <<>>, oos |-> <<>>, aggregate |-> <<>>]

\* Without a bundle a DSL that names a timeframe is refused; with one, the
\* alignment has no name for 30 minutes.
Refused == IF folds.bundle THEN folds.interval = "M30" ELSE folds.mtf

\* Higher candles of a slice that have closed when bar i opens.
Visible(slice, i) == {t \in slice : t + Htf <= i}

\* Sum and number of the values that are not null.
Count(t, x) == IF x = NoRatio THEN t ELSE [sum |-> t.sum + x, known |-> t.known + 1]
Counted(xs) ==
  LET counted[n \in 0 .. Len(xs)] ==
        IF n = 0 THEN [sum |-> 0, known |-> 0] ELSE Count(counted[n - 1], xs[n])
  IN counted[Len(xs)]
Total(xs) == Counted(xs).sum
\* Math.round of n / d, a half goes up.
Rounded(n, d) == IF d > 0 THEN (2 * n + d) \div (2 * d) ELSE (-2 * n - d) \div (-2 * d)
R2Mean(xs) == Rounded(Total(xs), Len(xs))
MeanIgnoringNull(xs) ==
  IF Counted(xs).known = 0 THEN NoRatio ELSE Rounded(Total(xs), Counted(xs).known)

Pnls(reports) == [i \in DOMAIN reports |-> reports[i].pnl]
Sharpes(reports) == [i \in DOMAIN reports |-> reports[i].sharpe]

Aggregate(is, oos) ==
  LET isPnls == Pnls(is) oosPnls == Pnls(oos) n == Len(oos) IN
  [avgIsPnl |-> R2Mean(isPnls), avgOosPnl |-> R2Mean(oosPnls), totalOosPnl |-> Total(oosPnls),
   avgIsSharpe |-> MeanIgnoringNull(Sharpes(is)), avgOosSharpe |-> MeanIgnoringNull(Sharpes(oos)),
   isOosRatio |-> IF Total(isPnls) = 0 THEN NoRatio
                  ELSE Rounded(100 * Total(oosPnls), Total(isPnls)),
   winShare |-> Rounded(100 * Cardinality({i \in 1 .. n : oosPnls[i] > 0}), n)]

\* The folds are run in order; even and odd ones have results of their own.
RunWalkForward(is, oos) ==
  LET Of(pair) == [i \in DOMAIN folds.list |-> pair[(i % 2) + 1]] IN
  /\ folds.status = 202 /\ walk = NoWalk
  /\ walk' = IF Refused THEN [NoWalk EXCEPT !.status = "FAILED"]
             ELSE [status |-> "DONE", progress |-> [i \in DOMAIN folds.list |-> i],
                   is |-> Of(is), oos |-> Of(oos), aggregate |-> <<Aggregate(Of(is), Of(oos))>>]
  /\ UNCHANGED <<sweep, folds>>

-----------------------------------------------------------------------------
NoSweep == [status |-> 0, params |-> <<>>, slip |-> FALSE, runCount |-> 0, grid |-> <<>>]
NoCfg == [isBars |-> 1, oosBars |-> 1, step |-> 1, anchored |-> TRUE]
NoFolds == [bars |-> 0, cfg |-> NoCfg, interval |-> "M5", mtf |-> FALSE, bundle |-> FALSE,
            status |-> 400, list |-> <<>>]

Init == sweep = NoSweep /\ folds = NoFolds /\ walk = NoWalk

Next ==
  \/ /\ sweep = NoSweep /\ folds = NoFolds
     /\ \E n \in 0..MaxParams : \E ps \in [1..n -> Ranges], slip \in BOOLEAN : PostSweep(ps, slip)
  \/ /\ sweep = NoSweep /\ folds = NoFolds
     /\ \E bars \in 0..MaxBars, is \in 1..4, oos \in 1..3, step \in 1..3, anchored \in BOOLEAN :
          \E kind \in {[interval |-> "M5", mtf |-> FALSE, bundle |-> FALSE],
                      [interval |-> "M5", mtf |-> TRUE, bundle |-> FALSE],
                      [interval |-> "M5", mtf |-> TRUE, bundle |-> TRUE],
                      [interval |-> "M30", mtf |-> FALSE, bundle |-> TRUE]} :
            PostWalkForward(bars, [isBars |-> is, oosBars |-> oos, step |-> step,
                                   anchored |-> anchored], kind.interval, kind.mtf, kind.bundle)
  \/ \E a, b, c \in Reports : RunWalkForward(<<a, b>>, <<c, a>>)

Spec == Init /\ [][Next]_vars

-----------------------------------------------------------------------------
(* Properties                                                                *)

Value(combination) == [i \in DOMAIN combination |-> combination[i].value]
Lex(a, b) == \E i \in DOMAIN a : a[i] < b[i] /\ \A k \in 1..(i - 1) : a[k] = b[k]

\* An accepted sweep runs every combination once, in lexicographic order, and
\* as many as it announced; a float slip can only make it announce fewer.
GridIsComplete ==
  sweep.status = 202 =>
    LET n == Len(sweep.grid) IN
    /\ IF sweep.slip THEN n >= sweep.runCount ELSE n = sweep.runCount /\ n <= MaxRuns
    /\ \A i \in 1..(n - 1) : Lex(Value(sweep.grid[i]), Value(sweep.grid[i + 1]))
    /\ \A i \in DOMAIN sweep.params : LET p == sweep.params[i] IN
         {c[i].value : c \in {sweep.grid[k] : k \in 1..n}}
           = {v \in p.from..p.to : (v - p.from) % p.step = 0}

\* Two combinations of a sweep never backtest the same DSL, if the DSL has the
\* parameters that are swept.
CombinationsDiffer ==
  sweep.status = 202 /\ (\A i \in DOMAIN sweep.params : \E b \in Blocks : b[1] = sweep.params[i].key)
    => \A i, j \in DOMAIN sweep.grid : Apply(sweep.grid[i]) = Apply(sweep.grid[j]) => i = j

\* Every fold tests on bars right after those it is fitted to, inside the
\* data; all that fit are there; no candle of any interval is in both windows,
\* and the higher candles a bar can see lie within the window they are of.
FoldsAreHonest ==
  \A i \in DOMAIN folds.list :
    LET f == folds.list[i].fold cfg == folds.cfg IN
    /\ 0 <= f.isStart /\ f.isStart < f.oosStart /\ f.oosEnd <= folds.bars
    /\ f.oosEnd - f.oosStart = cfg.oosBars
    /\ f.oosStart - f.isStart >= cfg.isBars
    /\ ~cfg.anchored => f.oosStart - f.isStart = cfg.isBars
    /\ i = Len(folds.list) => f.oosEnd + cfg.step > folds.bars
    /\ folds.list[i].is \cap folds.list[i].oos = {}
    /\ \A t \in Visible(folds.list[i].is, f.oosStart - 1) : f.isStart <= t /\ t + Htf <= f.oosStart
    /\ \A t \in Visible(folds.list[i].oos, f.oosEnd - 1) : f.oosStart <= t /\ t + Htf <= f.oosEnd
    /\ cfg.step >= cfg.oosBars =>
         \A k \in 1..(i - 1) : folds.list[k].fold.oosEnd <= f.oosStart

\* The numbers shown of a walk-forward are of its folds: as many as announced,
\* every mean between the extremes, the total within the rounding of the mean,
\* all won or none exactly when they were, and a ratio unless nothing was made
\* in sample.  A run that is refused has no numbers.
AggregateIsOfFolds ==
  walk.status = "DONE" =>
    LET a == walk.aggregate[1] n == Len(folds.list) oos == Pnls(walk.oos) is == Pnls(walk.is)
        Between(m, xs, of) == (\E i \in of : xs[i] <= m) /\ (\E i \in of : xs[i] >= m)
        Known(xs) == {i \in 1 .. n : xs[i] # NoRatio}
        Mean(m, xs) == IF Known(xs) = {} THEN m = NoRatio
                       ELSE m # NoRatio /\ Between(m, xs, Known(xs))
    IN /\ Len(oos) = n /\ Len(is) = n /\ walk.progress = [i \in 1..n |-> i]
       /\ Between(a.avgIsPnl, is, 1 .. n) /\ Between(a.avgOosPnl, oos, 1 .. n)
       /\ Mean(a.avgIsSharpe, Sharpes(walk.is)) /\ Mean(a.avgOosSharpe, Sharpes(walk.oos))
       /\ LET off == a.totalOosPnl - n * a.avgOosPnl IN -n <= 2 * off /\ 2 * off <= n
       /\ a.winShare = 100 <=> \A i \in 1..n : oos[i] > 0
       /\ a.winShare = 0 <=> \A i \in 1..n : oos[i] <= 0
       /\ a.isOosRatio = NoRatio => a.avgIsPnl = 0
       /\ a.isOosRatio # NoRatio /\ a.isOosRatio # 0 =>
            (a.isOosRatio > 0 <=> (Total(oos) > 0 <=> Total(is) > 0))
==============================================================================
