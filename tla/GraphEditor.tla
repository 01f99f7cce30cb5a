----------------------------- MODULE GraphEditor -----------------------------
(* The canvas of the Lab's builder (lab/build/page.tsx, useLabGraphStore.ts): *)
(* a user draws blocks and wires them, within what isValidConnection allows,  *)
(* and at any time the graph as it stands may be compiled (GraphCompiler).    *)
EXTENDS GraphCompiler, TLC

CONSTANTS Canvases,     \* stored graphs the builder may be opened with
          Palette,      \* the block types the user adds
          Params,       \* what a parameter may be set to: {<<type, name, value>>}
          MaxEdits      \* bound: edits of a canvas

VARIABLES nodes, edges,
          edits    \* how many there were; with 100 it also names the next node

vars == <<nodes, edges, edits>>

Graph(canvas) == [nodes |-> canvas[1], edges |-> canvas[2]]
graph == Graph(<<nodes, edges>>)
Node(id, type, params) == [id |-> id, type |-> type, params |-> params]
Edge(source, out, target, in) == [source |-> source, out |-> out, target |-> target, in |-> in]

-----------------------------------------------------------------------------
(* The templates (lab/build/templates.ts)                                    *)

NoParams == Ports({}, "none")
emaCrossover == <<
  <<Node(1, "candles", NoParams), Node(2, "EMA", [length |-> 9]), Node(3, "EMA", [length |-> 21]),
    Node(4, "cross", [mode |-> "crossover"]), Node(5, "stop_loss", [type |-> "fixed", value |-> 1]),
    Node(6, "take_profit", [type |-> "fixed", value |-> 2]), Node(7, "enter_long", NoParams)>>,
  <<Edge(1, "candles_out", 2, "candles"), Edge(1, "candles_out", 3, "candles"),
    Edge(2, "ema", 4, "a"), Edge(3, "ema", 4, "b"), Edge(4, "signal", 7, "signal"),
    Edge(1, "candles_out", 5, "candles"), Edge(1, "candles_out", 6, "candles"),
    Edge(5, "risk", 7, "risk")>>>>
adaptiveRegime == <<
  <<Node(1, "candles", NoParams), Node(2, "adx", [period |-> 14]), Node(3, "constant", [value |-> 25]),
    Node(4, "compare", [op |-> ">"]), Node(5, "EMA", [length |-> 50]),
    Node(6, "stop_loss", [type |-> "fixed", value |-> 2]),
    Node(7, "enter_adaptive", [longOp |-> "gt", shortOp |-> "lt"])>>,
  <<Edge(1, "candles_out", 2, "candles"), Edge(2, "adx", 4, "a"), Edge(3, "value", 4, "b"),
    Edge(4, "result", 7, "signal"), Edge(1, "candles_out", 5, "candles"),
    Edge(5, "ema", 7, "sideIndicator"), Edge(1, "candles_out", 6, "candles"),
    Edge(6, "risk", 7, "risk")>>>>
dcaMomentum == <<
  <<Node(1, "candles", NoParams), Node(2, "SMA", [length |-> 5]), Node(3, "SMA", [length |-> 20]),
    Node(4, "cross", [mode |-> "crossover"]), Node(5, "dca_config", NoParams),
    Node(6, "enter_long", NoParams)>>,
  <<Edge(1, "candles_out", 2, "candles"), Edge(1, "candles_out", 3, "candles"),
    Edge(2, "sma", 4, "a"), Edge(3, "sma", 4, "b"), Edge(4, "signal", 6, "signal"),
    Edge(5, "risk", 6, "risk")>>>>
mtfScalper == <<
  <<Node(1, "candles", NoParams), Node(2, "SMA", [length |-> 5]), Node(3, "SMA", [length |-> 10]),
    Node(4, "cross", [mode |-> "crossover"]),
    Node(5, "EMA", [length |-> 20, sourceTimeframe |-> "5m"]),
    Node(6, "stop_loss", [type |-> "fixed", value |-> 1]),
    Node(7, "enter_adaptive", [longOp |-> "gt", shortOp |-> "lt"])>>,
  <<Edge(1, "candles_out", 2, "candles"), Edge(1, "candles_out", 3, "candles"),
    Edge(2, "sma", 4, "a"), Edge(3, "sma", 4, "b"), Edge(4, "signal", 7, "signal"),
    Edge(1, "candles_out", 5, "candles"), Edge(5, "ema", 7, "sideIndicator"),
    Edge(1, "candles_out", 6, "candles"), Edge(6, "risk", 7, "risk")>>>>
smcSweep == <<
  <<Node(1, "candles", NoParams), Node(2, "liquidity_sweep", [swingLen |-> 3, maxAge |-> 50]),
    Node(3, "constant", [value |-> 0]), Node(4, "compare", [op |-> ">"]),
    Node(5, "stop_loss", [type |-> "fixed", value |-> 2]), Node(6, "enter_long", NoParams)>>,
  <<Edge(1, "candles_out", 2, "candles"), Edge(2, "sweep", 4, "a"), Edge(3, "value", 4, "b"),
    Edge(4, "result", 6, "signal"), Edge(1, "candles_out", 5, "candles"),
    Edge(5, "risk", 6, "risk")>>>>
GRAPH_TEMPLATES == {emaCrossover, adaptiveRegime, dcaMomentum, mtfScalper, smcSweep}

-----------------------------------------------------------------------------
(* Drawing                                                                   *)

Init == \E canvas \in Canvases \cup {<< <<>>, <<>> >>} :
          nodes = canvas[1] /\ edges = canvas[2] /\ edits = 0

Edit(newNodes, newEdges) ==
  /\ edits < MaxEdits /\ edits' = edits + 1
  /\ nodes' = newNodes /\ edges' = newEdges

LoadTemplate == /\ nodes = <<>>
                /\ \E tpl \in GRAPH_TEMPLATES : Edit(tpl[1], tpl[2])

Defaults(type) ==    \* the parameters the modelled handlers read
  CASE type \in {"SMA", "EMA", "RSI"} -> [length |-> 14, sourceTimeframe |-> "auto"]
    [] type \in {"adx", "atr"} -> [period |-> 14, sourceTimeframe |-> "auto"]
    [] type = "compare" -> [op |-> ">"]
    [] type = "cross" -> [mode |-> "crossover"]
    [] type = "constant" -> [value |-> 0]
    [] type = "stop_loss" -> [type |-> "fixed", value |-> 1]
    [] type = "take_profit" -> [type |-> "fixed", value |-> 2]
    [] OTHER -> NoParams
addNode == \E type \in Palette :
  Edit(Append(nodes, Node(100 + edits, type, Defaults(type))), edges)

updateNodeParam == \E k \in DOMAIN nodes, p \in Params :
  /\ nodes[k].type = p[1] /\ Param(nodes[k], p[2], NoValue) # p[3]
  /\ Edit([nodes EXCEPT ![k].params = (p[2] :> p[3]) @@ @], edges)

\* A node or an edge is deleted; the canvas drops the edges of a deleted node.
onNodesDelete == \E k \in DOMAIN nodes :
  Edit(RemoveAt(nodes, k),
       SelectSeq(edges, LAMBDA e : nodes[k].id \notin {e.source, e.target}))
onEdgesDelete == \E k \in DOMAIN edges : Edit(nodes, RemoveAt(edges, k))

RECURSIVE Reaches(_, _, _)
Reaches(links, from, to) ==    \* depth first, each node once
  from = to \/ LET onward == {l[2] : l \in {m \in links : m[1] = from}}
               IN \E n \in onward : Reaches({l \in links : l[1] # from}, n, to)
Links == {<<edges[k].source, edges[k].target>> : k \in DOMAIN edges}
wouldCreateCycle(source, target) == Reaches(Links \cup {<<source, target>>}, target, source)

isValidConnection(source, out, target, in) ==
  /\ source # target
  /\ Outputs(source.type)[out] = Inputs(target.type)[in]
  /\ ~wouldCreateCycle(source.id, target.id)

withoutOccupant(target, in) ==
  SelectSeq(edges, LAMBDA e : ~(e.target = target.id /\ e.in = in))
onConnect ==
  \E k, l \in DOMAIN nodes :
    \E out \in DOMAIN Outputs(nodes[k].type), in \in DOMAIN Inputs(nodes[l].type) :
      LET new == Edge(nodes[k].id, out, nodes[l].id, in)
      IN /\ isValidConnection(nodes[k], out, nodes[l], in)
         /\ new \notin Range(edges)
         /\ Edit(nodes, Append(withoutOccupant(nodes[l], in), new))

Next == LoadTemplate \/ addNode \/ updateNodeParam \/ onNodesDelete \/ onEdgesDelete \/ onConnect

Spec == Init /\ [][Next]_vars

-----------------------------------------------------------------------------
(* The builder's own validation (lab/validationTypes.ts)                     *)

validateGraph ==
  If(~\E t \in RiskBlocks : Has(graph, t), "MISSING_RISK_BLOCK")
    \cup If(~Has(graph, "enter_long") /\ ~Has(graph, "enter_short"), "MISSING_ENTRY_BLOCK")
    \cup If(\E k \in DOMAIN nodes : Unwired(graph, nodes[k], Required(nodes[k].type)) # {},
            "REQUIRED_PORT_UNCONNECTED")

-----------------------------------------------------------------------------
TypeOK ==
  /\ \A k \in DOMAIN nodes : nodes[k].type \in BlockTypes
  /\ \A k \in DOMAIN edges : {edges[k].source, edges[k].target} \subseteq
                               {nodes[l].id : l \in DOMAIN nodes}
  /\ edits \in 0 .. MaxEdits

\* However the canvas is drawn it stays a graph of blocks: no cycle, an input
\* takes one edge, of its own type, and no edge is left of a deleted block.
CanvasIsSound ==
  /\ \A k, l \in DOMAIN edges : k # l =>
       <<edges[k].target, edges[k].in>> # <<edges[l].target, edges[l].in>>
  /\ \A k \in DOMAIN edges :
       LET from == nodeById(graph, edges[k].source)
           to == nodeById(graph, edges[k].target)
       IN /\ from # NoValue /\ to # NoValue
          /\ Outputs(from.type)[edges[k].out] = Inputs(to.type)[edges[k].in]
          /\ ~Reaches(Links, edges[k].target, edges[k].source)

Plain(node) ==    \* a block the evaluator computes from its length alone
  /\ node.type \in {"SMA", "EMA", "RSI", "atr", "adx", "constant", "vwap", "volume"}
  /\ Param(node, "sourceTimeframe", "auto") = "auto"
Series(node) ==
  CASE node.type = "constant" -> <<node.type, Param(node, "value", 0)>>
    [] node.type \in {"vwap", "volume"} -> <<node.type>>
    [] OTHER -> <<node.type, Param(node, "length", Param(node, "period", 14))>>
PlainOperand(node, port) ==
  LET e == incomingEdges(graph, node, port)[1]
      from == nodeById(graph, e.source)
  IN Plain(from) /\ (from.type \in Indicators => e.out = MainOutput[from.type])

\* A compiled strategy trades what was drawn: its side is that of the one kind
\* of entry on the canvas, and its signal, where the builder finds every port
\* wired and the blocks compared are plain ones read at their main output, fires on the drawn comparison of the
\* drawn series, in the drawn order, and on no other.
TradesWhatIsDrawn ==
  LET compiled == compileGraph(graph)
      entry == entryNodes(graph)[1]
      source == Feeding(graph, entry, "signal")
      DrawnSeries(port) == Series(Feeding(graph, source, port))
  IN compiled.ok =>
       /\ \E t \in Entries : /\ Has(graph, t) /\ \A u \in Entries \ {t} : ~Has(graph, u)
                             /\ entry.type = t
                             /\ compiled.dsl.side = (CASE t = "enter_long" -> "Buy"
                                                       [] t = "enter_short" -> "Sell"
                                                       [] OTHER -> NoValue)
       /\ (\/ "REQUIRED_PORT_UNCONNECTED" \in validateGraph
           \/ source.type \notin {"cross", "compare"}
           \/ ~PlainOperand(source, "a") \/ ~PlainOperand(source, "b")
           \/ Param(source, "mode", "crossover") = "both"
           \/ evaluateSignal(compiled.dsl.signal) =
                <<IF source.type = "cross" THEN Param(source, "mode", "crossover")
                  ELSE Param(source, "op", ">"), DrawnSeries("a"), DrawnSeries("b")>>)
==============================================================================
