------------------------------- MODULE LabDraft -------------------------------
(* The draft graph of the lab's editor and its copy on the server:            *)
(* web/app/lab/useLabGraphStore.ts (autosave), LabShell.tsx (compile),        *)
(* build/page.tsx (switching graphs), and the routes GET, PATCH and compile   *)
(* of /lab/graphs/:id.  A content is [graph, rev]: which graph it was drawn   *)
(* for and the edit that made it.                                             *)
EXTENDS Integers, FiniteSets

CONSTANTS Graphs,     \* StrategyGraph rows
          First,      \* the graph the editor opens with
          Saves,      \* bound: calls of saveGraphNow at one time
          MaxEdits,   \* bound: edits
          MaxMoves,   \* bound: undos, compiles and graph switches
          MaxFaults   \* bound: requests refused or lost

VARIABLES
  draft, past,   \* nodes and edges with activeGraphId; zundo's previous state
  saveState,
  changed,       \* _graphChangedSinceCompile
  compiled,      \* lastCompileResult # null
  saveTimer,     \* _saveTimer is set
  calls,         \* the runs of saveGraphNow
  compile,       \* the compile request
  move,          \* handleSelectGraph
  server,        \* graphJson of every row
  edits, moves, faults,
  overlap        \* an edit or an undo met a request under way, or two requests met

vars == <<draft, past, saveState, changed, compiled, saveTimer, calls, compile, move,
          server, edits, moves, faults, overlap>>
counters == <<edits, moves, faults>>

Blank(g) == [graph |-> g, rev |-> 0]
Idle == [pc |-> "idle", content |-> Blank(First), left |-> 0]
Stay == [pc |-> "idle", target |-> First, content |-> Blank(First)]

Init ==
  /\ draft = Blank(First) /\ past = Blank(First)
  /\ saveState = "clean" /\ changed = FALSE /\ compiled = FALSE /\ saveTimer = FALSE
  /\ calls = [k \in Saves |-> Idle] /\ compile = Idle /\ move = Stay
  /\ server = [g \in Graphs |-> Blank(g)]
  /\ edits = 0 /\ moves = 0 /\ faults = 0 /\ overlap = FALSE

Persisted == saveState \in {"clean", "stale_against_last_compile"}
Active == {k \in Saves : calls[k].pc # "idle"}
Busy == Active # {} \/ compile.pc # "idle" \/ move.pc # "idle"
Fault == faults < MaxFaults /\ faults' = faults + 1 /\ UNCHANGED <<edits, moves>>
Move == moves < MaxMoves /\ moves' = moves + 1 /\ UNCHANGED <<edits, faults>>

-----------------------------------------------------------------------------
(* The editor                                                                *)

\* onNodesChange, onEdgesChange, setNodes, setEdges, addNode, updateNodeParam.
Edit ==
  /\ edits < MaxEdits /\ edits' = edits + 1
  /\ draft' = [draft EXCEPT !.rev = edits + 1] /\ past' = draft
  /\ saveState' = "dirty" /\ changed' = TRUE /\ saveTimer' = TRUE
  /\ overlap' = (overlap \/ Busy)
  /\ UNCHANGED <<compiled, calls, compile, move, server, moves, faults>>

\* zundo restores the tracked state, activeGraphId included, and nothing else.
Undo ==
  /\ Move
  /\ past # draft /\ draft' = past /\ past' = draft
  /\ overlap' = TRUE
  /\ UNCHANGED <<saveState, changed, compiled, saveTimer, calls, compile, move, server>>

-----------------------------------------------------------------------------
(* saveGraphNow                                                              *)

Begin(k) ==
  /\ calls[k] = Idle
  /\ calls' = [calls EXCEPT ![k] = [pc |-> "sent", content |-> draft, left |-> 2]]
  /\ saveState' = "saving"
  /\ overlap' = (overlap \/ Active # {} \/ compile.pc # "idle")

TimerFires ==
  /\ saveTimer /\ saveTimer' = FALSE
  /\ IF Persisted THEN UNCHANGED <<calls, saveState, overlap>> ELSE \E k \in Saves : Begin(k)
  /\ UNCHANGED <<draft, past, changed, compiled, compile, move, server, counters>>

RetryButton ==
  /\ saveState = "save_error" /\ \E k \in Saves : Begin(k)
  /\ UNCHANGED <<draft, past, changed, compiled, saveTimer, compile, move, server, counters>>

LandInOpenGraph(k) ==    \* mutant: activeGraphId is read when the request is made
  /\ calls[k].pc = "sent"
  /\ server' = [server EXCEPT ![draft.graph] = calls[k].content]
  /\ calls' = [calls EXCEPT ![k].pc = "landed"]
  /\ UNCHANGED <<draft, past, saveState, changed, compiled, saveTimer, compile, move,
                 counters, overlap>>
PatchLands(k) ==
  /\ calls[k].pc = "sent"
  /\ server' = [server EXCEPT ![calls[k].content.graph] = calls[k].content]
  /\ calls' = [calls EXCEPT ![k].pc = "landed"]
  /\ UNCHANGED <<draft, past, saveState, changed, compiled, saveTimer, compile, move,
                 counters, overlap>>

PatchAnswers(k) ==
  /\ calls[k].pc = "landed"
  /\ calls' = [calls EXCEPT ![k] = Idle]
  /\ saveState' = IF compiled /\ changed THEN "stale_against_last_compile" ELSE "clean"
  /\ UNCHANGED <<draft, past, changed, compiled, saveTimer, compile, move, server,
                 counters, overlap>>

\* A 4xx (429 among them) is not retried.
PatchRefused(k) ==
  /\ Fault
  /\ calls[k].pc = "sent" /\ calls' = [calls EXCEPT ![k] = Idle]
  /\ saveState' = "save_error"
  /\ UNCHANGED <<draft, past, changed, compiled, saveTimer, compile, move, server, overlap>>

PatchLost(k) ==
  /\ Fault
  /\ calls[k].pc \in {"sent", "landed"}
  /\ IF calls[k].left > 0
     THEN /\ calls' = [calls EXCEPT ![k].pc = "waiting", ![k].left = @ - 1]
          /\ UNCHANGED saveState
     ELSE calls' = [calls EXCEPT ![k] = Idle] /\ saveState' = "save_error"
  /\ UNCHANGED <<draft, past, changed, compiled, saveTimer, compile, move, server, overlap>>

Retry(k) ==
  /\ calls[k].pc = "waiting" /\ calls' = [calls EXCEPT ![k].pc = "sent"]
  /\ UNCHANGED <<draft, past, saveState, changed, compiled, saveTimer, compile, move, server,
                 counters, overlap>>

-----------------------------------------------------------------------------
(* Compile: the route stores the graph before it compiles it                 *)

Compile ==
  /\ Move
  /\ compile = Idle /\ compile' = [Idle EXCEPT !.pc = "sent", !.content = draft]
  /\ overlap' = (overlap \/ Active # {})
  /\ UNCHANGED <<draft, past, saveState, changed, compiled, saveTimer, calls, move, server>>

CompileLands ==
  /\ compile.pc = "sent" /\ compile' = [compile EXCEPT !.pc = "landed"]
  /\ server' = [server EXCEPT ![compile.content.graph] = compile.content]
  /\ UNCHANGED <<draft, past, saveState, changed, compiled, saveTimer, calls, move, counters,
                 overlap>>

CompileAnswers ==    \* setLastCompileResult
  /\ compile.pc = "landed" /\ compile' = Idle
  /\ compiled' = TRUE /\ changed' = FALSE /\ saveState' = "clean" /\ saveTimer' = FALSE
  /\ UNCHANGED <<draft, past, calls, move, server, counters, overlap>>

\* A 422 after the graph was stored, or a request that never arrived.
CompileFails ==
  /\ compile.pc # "idle" /\ compile' = Idle
  /\ compile.pc = "sent" => faults < MaxFaults
  /\ faults' = IF compile.pc = "sent" THEN faults + 1 ELSE faults
  /\ UNCHANGED <<draft, past, saveState, changed, compiled, saveTimer, calls, move, server,
                 edits, moves, overlap>>

-----------------------------------------------------------------------------
(* handleSelectGraph: flush, fetch, hydrate                                  *)

Flusher == CHOOSE k \in Saves : TRUE
SelectGraph(g) ==
  /\ Move
  /\ g # draft.graph /\ move = Stay
  /\ IF Persisted
     THEN move' = [Stay EXCEPT !.pc = "fetch", !.target = g] /\ UNCHANGED <<calls, saveState, overlap>>
     ELSE move' = [Stay EXCEPT !.pc = "flush", !.target = g] /\ Begin(Flusher)
  /\ UNCHANGED <<draft, past, changed, compiled, saveTimer, compile, server>>

\* Whether the flush succeeded is not looked at.
Flushed ==
  /\ move.pc = "flush" /\ calls[Flusher] = Idle
  /\ move' = [move EXCEPT !.pc = "fetch"]
  /\ UNCHANGED <<draft, past, saveState, changed, compiled, saveTimer, calls, compile, server,
                 counters, overlap>>

Fetch ==
  /\ move.pc = "fetch"
  /\ move' = [move EXCEPT !.pc = "fetched", !.content = server[move.target]]
  /\ UNCHANGED <<draft, past, saveState, changed, compiled, saveTimer, calls, compile, server,
                 counters, overlap>>
FetchFails ==
  /\ Fault
  /\ move.pc = "fetch" /\ move' = Stay
  /\ UNCHANGED <<draft, past, saveState, changed, compiled, saveTimer, calls, compile, server,
                 overlap>>

Hydrate ==
  /\ move.pc = "fetched" /\ move' = Stay
  /\ draft' = move.content /\ past' = draft
  /\ saveState' = "clean"
  /\ overlap' = (overlap \/ Active # {} \/ compile.pc # "idle")
  /\ UNCHANGED <<changed, compiled, saveTimer, calls, compile, server, counters>>

Next ==
  \/ Edit \/ Undo \/ TimerFires \/ RetryButton
  \/ \E k \in Saves : \/ PatchLands(k) \/ PatchAnswers(k) \/ PatchRefused(k)
                      \/ PatchLost(k) \/ Retry(k)
  \/ Compile \/ CompileLands \/ CompileAnswers \/ CompileFails
  \/ \E g \in Graphs : SelectGraph(g)
  \/ Flushed \/ Fetch \/ FetchFails \/ Hydrate

Spec == Init /\ [][Next]_vars

-----------------------------------------------------------------------------
(* Properties                                                                *)

Contents == [graph : Graphs, rev : 0 .. MaxEdits]
Calls == [pc : {"idle", "sent", "landed", "waiting"}, content : Contents, left : 0 .. 2]
TypeOK ==
  /\ draft \in Contents /\ past \in Contents
  /\ saveState \in {"clean", "dirty", "saving", "save_error", "stale_against_last_compile"}
  /\ changed \in BOOLEAN /\ compiled \in BOOLEAN /\ saveTimer \in BOOLEAN
  /\ calls \in [Saves -> Calls] /\ compile \in Calls
  /\ move \in [pc : {"idle", "flush", "fetch", "fetched"}, target : Graphs, content : Contents]
  /\ server \in [Graphs -> Contents] /\ overlap \in BOOLEAN
  /\ edits \in 0 .. MaxEdits /\ moves \in 0 .. MaxMoves /\ faults \in 0 .. MaxFaults

\* Whatever is retried, compiled, undone or switched meanwhile, a row only ever
\* holds what was drawn for its graph.
ContentKeepsToItsGraph == \A g \in Graphs : server[g].graph = g

\* As long as no edit met a request under way, "Saved" on the screen means that
\* the row holds what is on it.
SavedIsSaved == ~overlap /\ Persisted => server[draft.graph] = draft

\* An edit that is not shown as saved will be, or the failure is shown.
EditsSettle == saveState \in {"dirty", "saving"} ~> Persisted \/ saveState = "save_error"
==============================================================================
