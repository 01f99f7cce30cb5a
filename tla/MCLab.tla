---------------------------------- MODULE MCLab ----------------------------------
(* The research side: the parts of the lab with values for their constants     *)
(* (MCLabParts), and beside them the canvas and what the indicators say of a   *)
(* growing history.  Again each behaviour follows one part, chosen from Focus, *)
(* and the others stay as they are: TLC explores the union of their state      *)
(* spaces.                                                                     *)
EXTENDS MCLabParts, TLC

CONSTANTS
  e1, e2, u1, u2, x1, x2, h1, g1, g2, name, NoValue,
  Palette, MaxCanvasEdits, MaxHistory, Ratio, MaxGaps, Lookback

VARIABLES
  nodes, edges, edits,
  primary, context, now, series, patterns, decided

\* Values of the constants of MCLabParts: two graphs compiled for one strategy;
\* two ranges that overlap; a plain preset, one with a bundle, two that ask for
\* the arbitrage runner in the two ways.
OneStrategy == (g1 :> name) @@ (g2 :> name)
TwoRanges == {[from |-> 0, to |-> 2], [from |-> 1, to |-> 3]}
SomeOverrides == {[admin |-> FALSE, timeframe |-> "none"], [admin |-> FALSE, timeframe |-> "M15"],
                  [admin |-> TRUE, timeframe |-> "none"]}
Body(slug, timeframe, mode, hasBundle, bundle, visibility) ==
  [slug |-> slug, timeframe |-> timeframe, quoteAmount |-> 5, dslIsValid |-> TRUE,
   mode |-> mode, hasBundle |-> hasBundle, bundle |-> bundle, visibility |-> visibility]
SomeBodies == {Body("trend", "M15", "none", FALSE, {}, "PUBLIC"),
               Body("mtf", "M5", "none", TRUE, {"M5", "H1"}, "BETA"),
               Body("arb", "M5", "FUNDING_ARB", TRUE, {"M15"}, "PRIVATE"),
               Body("arb", "M5", "arb", FALSE, {}, "PUBLIC")}

Sharpe(pnl, sharpe) == [pnl |-> pnl, sharpe |-> sharpe]
SomeReports == {Sharpe(-3, -2), Sharpe(1, 3), Sharpe(8, NoRatio)}
SomeRanges == [key : {"a", "b", "c"}, from : {0, 1}, to : {0, 2, 5}, step : 0..3]
SomeBlocks == {<<"a", 1>>, <<"b", 2>>, <<"d", 0>>, <<"a", 7>>}

\* Prices in millionths of the base; a stop and a target of each kind, a
\* trailing stop, two ladders, both kinds of late fill with costs.
Level(type, value) == [type |-> type, value |-> value]
NoLadder == [on |-> FALSE, config |-> [base |-> 1, max |-> 0, step |-> 1, stepScale |-> 1,
                                       volumeScale |-> 1, tp |-> 1]]
LadderOf(max, step_, scale) ==
  [on |-> TRUE, config |-> [base |-> 12000000, max |-> max, step |-> step_,
                            stepScale |-> scale, volumeScale |-> 2, tp |-> 10]]
Still == [on |-> FALSE, activation |-> 0, callback |-> 0]
Strategy(fill, sides, cost, sl, tp, trail, exits, bars, dca) ==
  [fillAt |-> fill, sides |-> sides, cost |-> cost, sl |-> sl, tp |-> tp, trail |-> trail,
   exits |-> exits, maxBars |-> bars, dca |-> dca]
Both == {"long", "short"}
SomeStrategies == {
    Strategy("CLOSE", Both, 0, Level("fixed_pct", 10), Level("fixed_pct", 30),
             [on |-> TRUE, activation |-> 10, callback |-> 5], BOOLEAN, 2, NoLadder),
    Strategy("CLOSE", Both, 0, Level("atr_multiple", 2), Level("fixed_pct", 20),
             Still, {FALSE}, 0, LadderOf(2, 10, 1)),
    Strategy("CLOSE", {"long"}, 2, Level("fixed_pct", 10), Level("fixed_pct", 20),
             Still, {FALSE}, 0, LadderOf(3, 20, 2)),
    Strategy("NEXT_OPEN", Both, 2, Level("fixed_pct", 10), Level("atr_multiple", 2),
             Still, BOOLEAN, 1, NoLadder),
    Strategy("OPEN", Both, 2, Level("fixed_pct", 10), Level("fixed_pct", 10),
             Still, BOOLEAN, 1, NoLadder)}

Templates == INSTANCE GraphEditor WITH Canvases <- {}, Params <- {}
Gates == << <<Templates!Node(1, "and_gate", Templates!NoParams),
              Templates!Node(2, "or_gate", Templates!NoParams),
              Templates!Node(3, "confirm_n_bars", Templates!NoParams)>>,
            <<Templates!Edge(1, "out", 2, "a"), Templates!Edge(2, "out", 3, "signal")>> >>
Canvas == INSTANCE GraphEditor WITH
  MaxEdits <- MaxCanvasEdits,
  Canvases <- Templates!GRAPH_TEMPLATES \cup {Gates},
  Params <- {<<"stop_loss", "type", "atr-multiple">>, <<"cross", "mode", "both">>,
             <<"EMA", "length", 14>>, <<"constant", "value", 3>>}

Shape(o, h, l, c, v) == [open |-> o, high |-> h, low |-> l, close |-> c, volume |-> v]
Ref(type, length) == [type |-> type, length |-> length, htf |-> FALSE]
Higher(type, length) == [type |-> type, length |-> length, htf |-> TRUE]
Compare(left, op, right) == [type |-> "compare", op |-> op, left |-> left, right |-> right]
Cross(type, fast, slow) == [type |-> type, left |-> fast, right |-> slow]
Group(type, conditions) == [type |-> type, conditions |-> conditions]
Confirm(bars, condition) == [type |-> "confirm_n_bars", bars |-> bars, conditions |-> <<condition>>]
Anywhere == [mode |-> "none", type |-> "SMA", length |-> 1, threshold |-> 0, htf |-> FALSE]
Entry(side, signal, bundle) ==
  [side |-> side, condition |-> [ref |-> Ref("SMA", 1), long |-> ">", short |-> "<"],
   signal |-> signal, near |-> Anywhere, bundle |-> bundle]
About(ref, entry) ==
  [entry EXCEPT !.side = "none", !.condition = [ref |-> ref, long |-> ">", short |-> "<"]]
Mean(n) == Ref("SMA", n)
Up == Compare(Mean(1), ">", Mean(2))
Number(n) == Ref("constant", n)
History == INSTANCE EntrySignals WITH
  MaxBars <- MaxHistory,
  Entries <- [
    cross |-> Entry("long", Cross("crossover", Mean(1), Mean(2)), "none"),
    trend |-> About(Mean(2), Entry("none", Compare(Mean(1), ">=", Number(30)), "none")),
    confirm |-> Entry("long", Confirm(2, Up), "none"),
    gates |-> Entry("short", Group("or", <<Cross("crossunder", Mean(1), Mean(2)),
                Group("and", <<Compare(Mean(1), "==", Number(20)), Up>>)>>), "none"),
    near |-> [Entry("long", Up, "none") EXCEPT
                !.near = [Anywhere EXCEPT !.mode = "percentage", !.type = "vwap", !.threshold = 20]],
    ema |-> Entry("long", Compare(Mean(1), ">", Ref("EMA", 2)), "none"),
    regime |-> Entry("long", Group("and", <<Compare(Higher("SMA", 1), ">", Number(20)), Up>>), "full"),
    refused |-> Entry("long", Group("or", <<Up, Compare(Higher("SMA", 1), ">", Number(20))>>), "none"),
    lacking |-> About(Higher("SMA", 2), Entry("none", Up, "lacking")),
    ignored |-> About(Higher("SMA", 2), Entry("none", Up, "none")),
    gap |-> Entry("long", Compare(Ref("fair_value_gap", 0), ">", Number(0)), "none")],
  Shapes <- {Shape(20, 30, 10, 30, 6), Shape(30, 40, 20, 20, 12), Shape(50, 60, 40, 60, 6)}

-----------------------------------------------------------------------------
Symmetry == Permutations({e1, e2}) \cup Permutations({u1, u2}) \cup Permutations(Suffixes)

canvasVars == <<nodes, edges, edits>>
historyVars == <<primary, context, now, series, patterns, decided>>

Init ==
  /\ PartsInit /\ Canvas!Init /\ History!EvaluateInit
  /\ part # "trade" => opening = 1000000 /\ strategy.fillAt = "OPEN"
  /\ part # "canvas" => nodes = <<>>

Next ==
  \/ PartsNext /\ UNCHANGED <<canvasVars, historyVars>>
  \/ Of("canvas") /\ Canvas!Next /\ UNCHANGED <<partVars, historyVars>>
  \/ Of("history") /\ History!Evaluate /\ UNCHANGED <<partVars, canvasVars>>

vars == <<part, partVars, canvasVars, historyVars>>
Spec == Init /\ [][Next]_vars

-----------------------------------------------------------------------------
(* Properties                                                                *)

\* The canvas stays a graph of blocks, an edge has its two, a compiled strategy
\* trades the comparison that was drawn (graphCompiler.ts, blockHandlers.ts),
\* and a sweep of it runs every combination once (sweepGrid.ts, dslSweepParam.ts).
GraphsHold ==
  /\ In("canvas", Canvas!TypeOK /\ Canvas!CanvasIsSound /\ Canvas!TradesWhatIsDrawn)
  /\ In("grid", Grid!GridIsComplete /\ Grid!CombinationsDiffer)

\* Each indicator agrees with its definition and says nothing before it has
\* its window (lib/indicators), and the entries a backtest takes are those
\* signalEngine.ts decided when the bar was the last one stored and 200 candles
\* were loaded.
IndicatorsHold == In("history", History!TypeOK /\ History!IndicatorsHold /\ History!EntryParity)

\* A trailing stop only tightens; and a bar that closes changes no value of an
\* indicator, of either timeframe, at the bars before it, and no entry there.
HistoryStays == [][Trade!Tightens /\ History!Keeps /\ History!EntriesKeep]_<<tradeVars, historyVars>>

\* docs/46-backtest-realism-plan.md: fees and slippage only take away from the
\* result of a trade.
CostsShave == Trade!CostsShave

\* lib/runtime/patternEngine.ts: what a pattern series said of a bar stays.
PatternsNeverRepaint == [][History!PatternsKeep]_historyVars
==============================================================================
