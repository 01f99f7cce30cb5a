---------------------------- MODULE GraphCompiler ----------------------------
(* What the Lab compiles a drawn graph into: lib/compiler (context, block     *)
(* handlers, signal extraction, assembly), the checks of lib/dslValidator.ts  *)
(* the result passes, and what lib/dslEvaluator.ts reads out of it.           *)
(*                                                                            *)
(* A graph is [nodes, edges], both sequences in the order of the arrays; a    *)
(* node is [id, type, params] with the parameters a function of their names;  *)
(* an edge is [source, out, target, in].  Issues are the set of the errors;   *)
(* warnings block nothing and are left out.  NoValue is undefined and null.   *)
EXTENDS DcaPlanning, SequencesExt

CONSTANT NoValue

Param(node, key, default) == IF key \in DOMAIN node.params THEN node.params[key] ELSE default

-----------------------------------------------------------------------------
(* The block library                                                         *)

MainOutput ==    \* indicators on candles, and the output the evaluator answers with
  [SMA |-> "sma", EMA |-> "ema", RSI |-> "rsi", bollinger |-> "middle", atr |-> "atr",
   volume |-> "volume", vwap |-> "vwap", adx |-> "adx", supertrend |-> "direction",
   volume_profile |-> "poc", liquidity_sweep |-> "sweep", fair_value_gap |-> "fvg",
   order_block |-> "ob", market_structure_shift |-> "mss", macd |-> "histogram"]
Indicators == DOMAIN MainOutput
Entries == {"enter_long", "enter_short", "enter_adaptive"}
Gates == {"and_gate", "or_gate"}
History == {"orders_history", "executions_history"}
RiskBlocks == {"stop_loss", "take_profit", "trailing_stop", "dca_config"}
InputBlocks == {"candles", "constant"} \cup History
LogicBlocks == {"cross", "compare", "confirm_n_bars", "proximity_filter", "annotate_event"} \cup Gates
BlockTypes == InputBlocks \cup Indicators \cup LogicBlocks \cup Entries \cup RiskBlocks
                \cup {"close_position"}

Ports(names, dataType) == [p \in names |-> dataType]
Inputs(type) ==
  CASE type \in InputBlocks \cup {"dca_config"} -> Ports({}, "none")
    [] type = "macd" -> Ports({"price"}, "number")
    [] type \in Indicators \cup RiskBlocks -> Ports({"candles"}, "OHLCV")
    [] type \in {"cross", "compare"} -> Ports({"a", "b"}, "number")
    [] type \in Gates -> Ports({"a", "b"}, "boolean")
    [] type \in {"confirm_n_bars", "close_position"} -> Ports({"signal"}, "boolean")
    [] type = "annotate_event" -> Ports({"signal"}, "boolean") @@ Ports({"price"}, "number")
    [] type = "proximity_filter" -> Ports({"price", "level"}, "number")
    [] type = "enter_adaptive" -> Ports({"signal"}, "boolean") @@ Ports({"risk"}, "RiskParams")
                                    @@ Ports({"sideIndicator"}, "number")
    [] OTHER -> Ports({"signal"}, "boolean") @@ Ports({"risk"}, "RiskParams")
Required(type) == DOMAIN Inputs(type) \ (IF type = "annotate_event" THEN {"price"} ELSE {})

SideOutputs ==
  [bollinger |-> {"upper", "lower"}, adx |-> {"plusDI", "minusDI"}, supertrend |-> {"supertrend"},
   volume_profile |-> {"vah", "val"}, macd |-> {"macd", "signal"}]
Outputs(type) ==
  CASE type = "candles" -> Ports({"candles_out"}, "OHLCV")
    [] type = "constant" -> Ports({"value"}, "number")
    [] type = "orders_history" -> Ports({"buyCount", "sellCount", "totalVolume"}, "number")
    [] type = "executions_history" -> Ports({"execCount", "avgFillPrice", "totalQty"}, "number")
    [] type \in Indicators ->
         Ports({MainOutput[type]} \cup
               (IF type \in DOMAIN SideOutputs THEN SideOutputs[type] ELSE {}), "number")
    [] type = "compare" -> Ports({"result"}, "boolean")
    [] type = "cross" -> Ports({"signal"}, "boolean")
    [] type \in Gates -> Ports({"out"}, "boolean")
    [] type = "confirm_n_bars" -> Ports({"confirmed"}, "boolean")
    [] type = "proximity_filter" -> Ports({"near"}, "boolean")
    [] type \in RiskBlocks -> Ports({"risk"}, "RiskParams")
    [] OTHER -> Ports({}, "none")

-----------------------------------------------------------------------------
(* The context                                                               *)

nodesOf(g, type) == SelectSeq(g.nodes, LAMBDA n : n.type = type)
Has(g, type) == nodesOf(g, type) # <<>>
incomingEdges(g, node, port) == SelectSeq(g.edges, LAMBDA e : e.target = node.id /\ e.in = port)
Connected(g, node, port) == incomingEdges(g, node, port) # <<>>
nodeById(g, id) == LET found == SelectSeq(g.nodes, LAMBDA n : n.id = id)
                   IN IF found = <<>> THEN NoValue ELSE Last(found)
Feeding(g, node, port) ==    \* the block on the first edge into a port
  IF Connected(g, node, port) THEN nodeById(g, incomingEdges(g, node, port)[1].source) ELSE NoValue

-----------------------------------------------------------------------------
(* Validation by the block handlers                                          *)

If(condition, issue) == IF condition THEN {issue} ELSE {}

entryNodes(g) ==
  IF Has(g, "enter_adaptive") THEN nodesOf(g, "enter_adaptive")
  ELSE nodesOf(g, "enter_long") \o nodesOf(g, "enter_short")
Unwired(g, node, ports) == {p \in ports : ~Connected(g, node, p)}

entryIssues(g) ==
  IF Has(g, "enter_adaptive") THEN {}
  ELSE IF entryNodes(g) = <<>> THEN {"no entry"}
  ELSE If(Has(g, "enter_long") /\ Has(g, "enter_short"), "both sides")
         \cup Unwired(g, entryNodes(g)[1], {"signal", "risk"})
adaptiveIssues(g) ==
  IF ~Has(g, "enter_adaptive") THEN {}
  ELSE IF Has(g, "enter_long") \/ Has(g, "enter_short") THEN {"adaptive and fixed"}
  ELSE Unwired(g, entryNodes(g)[1], {"signal", "risk", "sideIndicator"})
signalIssues(g, type) ==    \* close_position, annotate_event
  IF Has(g, type) THEN Unwired(g, nodesOf(g, type)[1], {"signal"}) ELSE {}

handlerIssues(g) ==
  entryIssues(g) \cup adaptiveIssues(g)
    \cup UNION {If(~Has(g, type), type) : type \in {"candles", "stop_loss", "take_profit"}}
    \cup UNION {If(Len(nodesOf(g, type)) > 1, type) : type \in {"dca_config", "trailing_stop"}}
    \cup signalIssues(g, "close_position") \cup signalIssues(g, "annotate_event")
    \cup UNION {If(g.nodes[k].type \notin BlockTypes, "unsupported") : k \in DOMAIN g.nodes}

-----------------------------------------------------------------------------
(* Extraction                                                                *)

nodeToSignalDescriptor(node) ==
  IF node = NoValue THEN NoValue
  ELSE [blockType |-> node.type,
        length |-> IF node.type = "constant" THEN Param(node, "value", 0)
                   ELSE Param(node, "length", Param(node, "period", NoValue))]

SignalOf(kind, op, left, right) == [type |-> kind, op |-> op, left |-> left, right |-> right]
extractSwapped(g, entry) ==    \* mutant: a crossover's inputs change places
  LET source == Feeding(g, entry, "signal")
      Operand(port) == nodeToSignalDescriptor(Feeding(g, source, port))
  IN IF source = NoValue THEN SignalOf("raw", "", NoValue, NoValue)
     ELSE IF source.type \in {"cross", "compare"}
     THEN SignalOf(source.type, Param(source, "op", ">"), Operand("b"), Operand("a"))
     ELSE SignalOf("direct", "", NoValue, NoValue)
extractSignalInfo(g, entry) ==
  LET source == Feeding(g, entry, "signal")
      Operand(port) == nodeToSignalDescriptor(Feeding(g, source, port))
  IN CASE source = NoValue -> SignalOf("raw", "", NoValue, NoValue)
       [] source # NoValue /\ source.type = "cross" ->
            SignalOf(Param(source, "mode", "crossover"), "", Operand("a"), Operand("b"))
       [] source # NoValue /\ source.type = "compare" ->
            SignalOf("compare", Param(source, "op", ">"), Operand("a"), Operand("b"))
       [] OTHER -> SignalOf("direct", "", NoValue, NoValue)

extractSideCondition(g, entry) ==
  LET node == Feeding(g, entry, "sideIndicator")
  IN IF node = NoValue THEN NoValue
     ELSE [type |-> node.type,
           length |-> Param(node, "length", Param(node, "period", 14)),
           long |-> Param(entry, "longOp", "gt"), short |-> Param(entry, "shortOp", "lt")]

ExitLevel(g, type, default) ==
  LET node == nodesOf(g, type)[1]
  IN [type |-> Param(node, "type", "fixed"), value |-> Param(node, "value", default)]
slType(level) == IF level.type = "fixed" THEN [level EXCEPT !.type = "fixed_pct"] ELSE level
proximityFilter(g) ==    \* of the first such block, wherever it is wired
  IF Has(g, "proximity_filter") THEN Param(nodesOf(g, "proximity_filter")[1], "threshold", 1)
  ELSE NoValue

MaxPositionSizeUsd == 100    \* RISK_DEFAULTS
Dsl(g) ==
  LET entry == entryNodes(g)[1]
      adaptive == Has(g, "enter_adaptive")
      stop == ExitLevel(g, "stop_loss", 1)
      take == ExitLevel(g, "take_profit", 2)
  IN [dslVersion |-> IF adaptive THEN 2 ELSE 1,
      side |-> IF adaptive THEN NoValue ELSE IF Has(g, "enter_long") THEN "Buy" ELSE "Sell",
      sideCondition |-> IF adaptive THEN extractSideCondition(g, entry) ELSE NoValue,
      signal |-> extractSignalInfo(g, entry),
      proximity |-> proximityFilter(g),
      entryLevels |-> IF adaptive THEN NoValue ELSE <<stop, take>>,
      exit |-> IF adaptive THEN <<slType(stop), slType(take)>> ELSE NoValue,
      dca |-> NoValue,
      trailingStop |-> NoValue,
      maxPositionSizeUsd |-> MaxPositionSizeUsd,
      \* the floor of 0.01 is written 1: what counts is that it is positive
      riskPerTradePct |-> IF stop.value > 100 THEN 100 ELSE IF stop.value < 1 THEN 1 ELSE stop.value]

-----------------------------------------------------------------------------
(* The validator every strategy passes                                       *)

exitLevel(level) == level.type \in {"fixed_pct", "fixed_price", "atr_multiple"} /\ level.value > 0
dcaConfig(c) == /\ c.base > 0 /\ c.max \in 1 .. 50 /\ c.step \in 1 .. 50
                /\ c.stepScale \in 1 .. 10 /\ c.volumeScale \in 1 .. 10 /\ c.tp \in 1 .. 100
StrategySchema(dsl) ==
  /\ dsl.dslVersion \in 1 .. 2
  /\ dsl.side \in {"Buy", "Sell", NoValue}
  /\ (dsl.sideCondition # NoValue =>
        /\ dsl.sideCondition.length >= 1
        /\ {dsl.sideCondition.long, dsl.sideCondition.short} \subseteq {"gt", "gte", "lt", "lte"})
  /\ (dsl.exit # NoValue => \A k \in 1 .. 2 : exitLevel(dsl.exit[k]))
  /\ (dsl.dca # NoValue => dcaConfig(dsl.dca))
  /\ dsl.maxPositionSizeUsd > 0 /\ dsl.riskPerTradePct > 0 /\ dsl.riskPerTradePct <= 100
validateDsl(dsl) ==
  /\ StrategySchema(dsl)
  /\ (dsl.dslVersion = 1 => dsl.exit = NoValue /\ dsl.sideCondition = NoValue /\ dsl.dca = NoValue)
  /\ (dsl.dslVersion = 2 => dsl.exit # NoValue)
  /\ (dsl.side = NoValue) # (dsl.sideCondition = NoValue)
  /\ (dsl.dca # NoValue => /\ calculateMaxDeviation(dsl.dca) < 100
                           /\ calculateMaxExposure(dsl.dca) <= dsl.maxPositionSizeUsd)

Compiled(ok, dsl) == [ok |-> ok, dsl |-> dsl]
compileGraph(g) ==
  IF handlerIssues(g) # {} THEN Compiled(FALSE, NoValue)
  ELSE IF validateDsl(Dsl(g)) THEN Compiled(TRUE, Dsl(g))
  ELSE Compiled(FALSE, NoValue)

-----------------------------------------------------------------------------
(* What the evaluator makes of a reference and of a signal                   *)

Given(length, default) == IF length = NoValue THEN default ELSE length
\* The series a reference denotes: its family and the settings it is computed
\* with.  A descriptor carries a length only, so every other setting is the
\* evaluator's default.
getIndicatorValues(type, length) ==
  CASE type \in {"SMA", "EMA", "RSI", "atr", "adx"} -> <<type, Given(length, 14)>>
    [] type = "bollinger" -> <<type, Given(length, 20)>>
    [] type = "liquidity_sweep" -> <<type, Given(length, 3), 50>>
    [] type = "market_structure_shift" -> <<type, Given(length, 3)>>
    [] type = "order_block" -> <<type, Given(length, 5), 14>>
    [] type = "volume_profile" -> <<type, 20>>
    [] type = "supertrend" -> <<type, 10, 3>>
    [] type = "macd" -> <<type, 12, 26>>
    [] type = "fair_value_gap" -> <<type, 0>>
    [] type \in {"vwap", "volume"} -> <<type>>
    [] type = "constant" -> <<type, Given(length, 0)>>
    [] OTHER -> NoValue    \* all nulls

Never == <<"never">>
Comparisons == {">", ">=", "<", "<=", "=="}
evaluateSignal(signal) ==
  IF signal.left = NoValue \/ signal.right = NoValue THEN Never
  ELSE LET left == getIndicatorValues(signal.left.blockType, signal.left.length)
           right == getIndicatorValues(signal.right.blockType, signal.right.length)
       IN IF left = NoValue \/ right = NoValue THEN Never
          ELSE IF signal.type \in {"crossover", "crossunder"} THEN <<signal.type, left, right>>
          ELSE IF signal.type = "compare" /\ signal.op \in Comparisons
          THEN <<signal.op, left, right>>
          ELSE Never
==============================================================================
