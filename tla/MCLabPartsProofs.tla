---------------------------- MODULE MCLabPartsProofs -----------------------------
(****************************************************************************)
(* What MCLab checks of the parts of the lab, for any requests, graphs,      *)
(* names, jobs, scores, ranges, presets, users, windows, reports, prices,    *)
(* strategies and bounds.  A section gives a part its inductive invariant:   *)
(* the lemma of its initial states, one per kind of step, one of what the    *)
(* invariant says.  The last section puts them together.                     *)
(****************************************************************************)
EXTENDS MCLabParts, FiniteSetTheorems, WellFoundedInduction, TLAPS

-----------------------------------------------------------------------------
(* The draft                                                                 *)

Drawn == [graph : Graphs, rev : Nat]
Saving == [pc : {"idle", "sent", "landed", "waiting"}, content : Drawn, left : 0..2]
Moving == [pc : {"idle", "flush", "fetch", "fetched"}, target : Graphs, content : Drawn]
DraftShape ==
  /\ draft \in Drawn /\ past \in Drawn /\ server \in [Graphs -> Drawn]
  /\ calls \in [Saves -> Saving] /\ compile \in Saving /\ move \in Moving
  /\ draftEdits \in Nat /\ crossed \in BOOLEAN
\* While no request met another or an edit, one at a time holds what is drawn.
OneRequest ==
  \A k \in Saves : calls[k].pc # "idle" =>
    /\ \A l \in Saves : calls[l].pc # "idle" => l = k
    /\ compile.pc = "idle" /\ saveState = "saving"
    /\ calls[k].content = draft
    /\ calls[k].pc = "landed" => server[draft.graph] = draft
CompilesWhatIsDrawn ==
  compile.pc # "idle" =>
    compile.content = draft /\ (compile.pc = "landed" => server[draft.graph] = draft)
\* A graph that was fetched is still as it was: what is under way is for another.
MovesElsewhere ==
  move.pc # "idle" =>
    /\ move.target # draft.graph
    /\ move.pc = "fetched" => move.content = server[move.target]
Saved == Draft!Persisted => server[draft.graph] = draft

CalmDraft == ~crossed => OneRequest /\ CompilesWhatIsDrawn /\ MovesElsewhere /\ Saved
DraftIInv == DraftShape /\ Draft!ContentKeepsToItsGraph /\ CalmDraft

\* The graph that is open first is drawn and stored as it was loaded.
LEMMA DraftInit == Draft!Init => DraftIInv
<1> SUFFICES ASSUME Draft!Init PROVE DraftIInv
  OBVIOUS
<1>0. First \in Graphs
  BY LabConstants
<1> USE <1>0 DEF Draft!Init, Draft!Blank, Draft!Idle, Draft!Stay
<1>1. DraftShape
  <2>1. /\ draft \in Drawn /\ past \in Drawn /\ server \in [Graphs -> Drawn]
        /\ draftEdits \in Nat /\ crossed \in BOOLEAN
    BY DEF Drawn
  <2>2. compile \in Saving /\ calls \in [Saves -> Saving] /\ move \in Moving
    BY DEF Drawn, Saving, Moving
  <2> QED BY <2>1, <2>2 DEF DraftShape
<1>2. Draft!ContentKeepsToItsGraph
  BY DEF Draft!ContentKeepsToItsGraph
<1>3. OneRequest /\ CompilesWhatIsDrawn /\ MovesElsewhere /\ Saved
  BY DEF OneRequest, CompilesWhatIsDrawn, MovesElsewhere, Saved
<1> QED BY <1>1, <1>2, <1>3 DEF DraftIInv, CalmDraft

\* An edit or an undo draws another revision, and says it is dirty.
LEMMA EditsKeep == DraftIInv /\ (Draft!Edit \/ Draft!Undo) => DraftIInv'
<1> SUFFICES ASSUME DraftIInv, Draft!Edit \/ Draft!Undo PROVE DraftIInv'
  OBVIOUS
<1> USE DEF DraftIInv
<1>1. UNCHANGED <<calls, compile, move, server>>
  BY DEF Draft!Edit, Draft!Undo
<1>2. DraftShape'
  <2>0. draftEdits' \in Nat
    BY DEF DraftShape, Draft!Edit, Draft!Undo, Draft!Move
  <2>1. crossed' \in BOOLEAN
    BY DEF Draft!Edit, Draft!Undo
  <2>2. draft' \in Drawn /\ past' \in Drawn
    BY DEF DraftShape, Draft!Edit, Draft!Undo, Drawn
  <2> QED BY <1>1, <2>0, <2>1, <2>2 DEF DraftShape
<1>3. Draft!ContentKeepsToItsGraph'
  BY <1>1 DEF Draft!ContentKeepsToItsGraph
<1>4. CalmDraft'
  <2>1. CASE Draft!Undo
    BY <2>1 DEF Draft!Undo, CalmDraft
  <2>2. CASE Draft!Edit
    <3> SUFFICES ASSUME ~crossed' PROVE CalmDraft'
      BY DEF CalmDraft
    <3>1. compile.pc = "idle" /\ move.pc = "idle" /\ \A k \in Saves : calls[k].pc = "idle"
      BY <2>2 DEF Draft!Edit, Draft!Busy, Draft!Active
    <3>2. ~Draft!Persisted'
      BY <2>2 DEF Draft!Edit, Draft!Persisted
    <3> QED BY <1>1, <3>1, <3>2 DEF CalmDraft, OneRequest, CompilesWhatIsDrawn, MovesElsewhere, Saved
  <2> QED BY <2>1, <2>2
<1> QED BY <1>2, <1>3, <1>4

\* A flush begins with the save it makes.
FlushOrStay == move' \in Moving /\ (move' = move \/ (move'.pc = "flush" /\ move'.target # draft.graph))

\* A save begins with what is drawn; if it meets none, it is the only one.
LEMMA BeginKeeps ==
  ASSUME DraftIInv, NEW k \in Saves, Draft!Begin(k),
         UNCHANGED <<draft, past, compile, server, draftEdits>>, FlushOrStay
  PROVE  DraftIInv'
<1> USE DEF DraftIInv
<1>1. calls[k].pc = "idle" /\ calls' = [calls EXCEPT ![k] = [pc |-> "sent", content |-> draft, left |-> 2]]
  BY DEF Draft!Begin, Draft!Idle
<1>2. DraftShape'
  BY <1>1 DEF DraftShape, Draft!Begin, Saving, FlushOrStay
<1>3. Draft!ContentKeepsToItsGraph'
  BY DEF Draft!ContentKeepsToItsGraph
<1>4. CalmDraft'
  <2> SUFFICES ASSUME ~crossed' PROVE CalmDraft'
    BY DEF CalmDraft
  <2>1. ~crossed /\ compile.pc = "idle" /\ \A l \in Saves : calls[l].pc = "idle"
    BY DEF Draft!Begin, Draft!Active, DraftShape
  <2>2. saveState' = "saving"
    BY DEF Draft!Begin
  <2>3. OneRequest'
    BY <1>1, <2>1, <2>2 DEF OneRequest, DraftShape
  <2>4. CompilesWhatIsDrawn' /\ MovesElsewhere' /\ Saved'
    BY <2>1, <2>2 DEF CalmDraft, CompilesWhatIsDrawn, MovesElsewhere, Saved, Draft!Persisted,
       FlushOrStay
  <2> QED BY <2>3, <2>4 DEF CalmDraft
<1> QED BY <1>2, <1>3, <1>4

\* The autosave timer and the retry button send what is drawn.
LEMMA TimersKeep == DraftIInv /\ (Draft!TimerFires \/ Draft!RetryButton) => DraftIInv'
<1> SUFFICES ASSUME DraftIInv, Draft!TimerFires \/ Draft!RetryButton PROVE DraftIInv'
  OBVIOUS
<1>1. UNCHANGED <<draft, past, compile, move, server, draftEdits>>
  BY DEF Draft!TimerFires, Draft!RetryButton, Draft!counters
<1>2. move \in Moving
  BY DEF DraftIInv, DraftShape
<1>3. ASSUME NEW k \in Saves, Draft!Begin(k) PROVE DraftIInv'
  <2>1. UNCHANGED <<draft, past, compile, server, draftEdits>>
    BY <1>1
  <2>2. FlushOrStay
    BY <1>1, <1>2 DEF FlushOrStay
  <2> QED BY <1>3, <2>1, <2>2, BeginKeeps, Zenon
<1>4. CASE UNCHANGED <<calls, saveState, crossed>>
  BY <1>1, <1>4 DEF DraftIInv, DraftShape, Draft!ContentKeepsToItsGraph, CalmDraft, OneRequest,
     CompilesWhatIsDrawn, MovesElsewhere, Saved, Draft!Persisted
<1> QED BY <1>3, <1>4 DEF Draft!TimerFires, Draft!RetryButton

\* A PATCH lands in the row of the graph it was sent for, fails or is retried.
LEMMA PatchesKeep ==
  ASSUME DraftIInv, NEW k \in Saves,
         \/ Draft!PatchLands(k) \/ Draft!PatchAnswers(k) \/ Draft!PatchRefused(k)
         \/ Draft!PatchLost(k) \/ Draft!Retry(k)
  PROVE  DraftIInv'
<1> USE DEF DraftIInv
<1>1. UNCHANGED <<draft, past, compile, move, draftEdits, crossed>>
  BY DEF Draft!PatchLands, Draft!PatchAnswers, Draft!PatchRefused, Draft!PatchLost, Draft!Retry,
     Draft!counters, Draft!Fault
<1>2. CASE Draft!PatchLands(k)
  <2>1. /\ calls[k].pc = "sent" /\ calls' = [calls EXCEPT ![k].pc = "landed"]
        /\ server' = [server EXCEPT ![calls[k].content.graph] = calls[k].content]
        /\ saveState' = saveState
    BY <1>2 DEF Draft!PatchLands
  <2>2. DraftShape'
    BY <1>1, <2>1 DEF DraftShape, Saving, Drawn
  <2>3. Draft!ContentKeepsToItsGraph'
    BY <2>1 DEF DraftShape, Draft!ContentKeepsToItsGraph
  <2>4. ASSUME ~crossed PROVE OneRequest' /\ CompilesWhatIsDrawn' /\ MovesElsewhere' /\ Saved'
    <3>1. calls[k].content = draft /\ compile.pc = "idle" /\ saveState = "saving"
          /\ \A l \in Saves : calls[l].pc # "idle" => l = k
      BY <2>1, <2>4 DEF CalmDraft, OneRequest
    <3>2. draft.graph \in Graphs /\ calls'[k].content = draft
          /\ server' = [server EXCEPT ![draft.graph] = draft]
          /\ \A l \in Saves : l # k => calls'[l] = calls[l]
      BY <2>1, <3>1 DEF DraftShape, Drawn, Saving
    <3>3. OneRequest'
      BY <1>1, <2>1, <3>1, <3>2 DEF OneRequest, DraftShape
    <3>4. MovesElsewhere'
      BY <1>1, <2>4, <3>2 DEF CalmDraft, MovesElsewhere, DraftShape, Moving
    <3> QED BY <1>1, <2>1, <3>1, <3>3, <3>4 DEF CompilesWhatIsDrawn, Saved, Draft!Persisted
  <2> QED BY <1>1, <2>2, <2>3, <2>4 DEF CalmDraft
<1>3. CASE ~Draft!PatchLands(k)
  <2>1. server' = server /\ calls[k].pc # "idle"
    BY <1>3 DEF Draft!PatchAnswers, Draft!PatchRefused, Draft!PatchLost, Draft!Retry
  <2>2. PICK c \in Saving : /\ calls' = [calls EXCEPT ![k] = c]
                            /\ c.pc # "landed" /\ (c.pc # "idle" => c.content = calls[k].content)
                            /\ c.pc # "idle" => saveState' = saveState
    <3>1. Draft!Idle \in Saving
      BY LabConstants DEF Draft!Idle, Draft!Blank, Saving, Drawn
    <3>2. calls[k] \in Saving
      BY DEF DraftShape
    <3>3. CASE Draft!PatchAnswers(k) \/ Draft!PatchRefused(k)
      BY <3>1, <3>3 DEF Draft!PatchAnswers, Draft!PatchRefused, Draft!Idle
    <3>4. CASE Draft!PatchLost(k) /\ calls[k].left = 0
      BY <3>1, <3>4 DEF Draft!PatchLost, Draft!Idle
    <3>5. CASE Draft!PatchLost(k) /\ calls[k].left # 0
      <4>1. calls' = [calls EXCEPT ![k] = [calls[k] EXCEPT !.pc = "waiting", !.left = @ - 1]]
            /\ saveState' = saveState
        BY <3>2, <3>5 DEF Draft!PatchLost, Saving
      <4>2. calls[k].left - 1 \in 0..2
        BY <3>2, <3>5 DEF Saving
      <4> DEFINE c == [calls[k] EXCEPT !.pc = "waiting", !.left = @ - 1]
      <4>3. c \in Saving /\ c.pc = "waiting" /\ c.content = calls[k].content
        BY <3>2, <4>2 DEF Saving
      <4>4. calls' = [calls EXCEPT ![k] = c]
        BY <4>1
      <4> HIDE DEF c
      <4> QED BY <4>1, <4>3, <4>4
    <3>6. CASE Draft!Retry(k)
      <4>1. calls' = [calls EXCEPT ![k] = [calls[k] EXCEPT !.pc = "sent"]] /\ saveState' = saveState
        BY <3>6 DEF Draft!Retry
      <4> DEFINE c == [calls[k] EXCEPT !.pc = "sent"]
      <4>2. c \in Saving /\ c.pc = "sent" /\ c.content = calls[k].content
        BY <3>2 DEF Saving
      <4>3. calls' = [calls EXCEPT ![k] = c]
        BY <4>1
      <4> HIDE DEF c
      <4> QED BY <4>1, <4>2, <4>3
    <3> QED BY <1>3, <3>3, <3>4, <3>5, <3>6
  <2>3. DraftShape' /\ Draft!ContentKeepsToItsGraph'
    BY <1>1, <2>1, <2>2 DEF DraftShape, Draft!ContentKeepsToItsGraph
  <2>4. ASSUME ~crossed PROVE OneRequest' /\ CompilesWhatIsDrawn' /\ MovesElsewhere' /\ Saved'
    <3>1. /\ calls[k].content = draft /\ compile.pc = "idle" /\ saveState = "saving"
          /\ \A l \in Saves : calls[l].pc # "idle" => l = k
          /\ calls[k].pc = "landed" => server[draft.graph] = draft
      BY <2>1, <2>4 DEF CalmDraft, OneRequest
    <3>2. OneRequest'
      BY <1>1, <2>1, <2>2, <3>1 DEF OneRequest, DraftShape
    <3>3. Saved'
      BY <1>1, <1>3, <2>1, <3>1 DEF Saved, Draft!Persisted, Draft!PatchAnswers, Draft!PatchRefused,
         Draft!PatchLost, Draft!Retry
    <3> QED BY <1>1, <2>1, <2>4, <3>1, <3>2, <3>3 DEF CalmDraft, CompilesWhatIsDrawn, MovesElsewhere
  <2> QED BY <1>1, <2>3, <2>4 DEF CalmDraft
<1> QED BY <1>2, <1>3

\* The records of a store with nothing under way.
LEMMA IdleSaving == Draft!Idle \in Saving /\ Draft!Idle.pc = "idle" /\ Draft!Stay \in Moving /\ Draft!Stay.pc = "idle"
BY LabConstants DEF Draft!Idle, Draft!Stay, Draft!Blank, Saving, Moving, Drawn

\* A compile saves what was drawn when it was asked for.
LEMMA CompilesKeep ==
  DraftIInv /\ (Draft!Compile \/ Draft!CompileLands \/ Draft!CompileAnswers \/ Draft!CompileFails) => DraftIInv'
<1> SUFFICES ASSUME DraftIInv,
                    Draft!Compile \/ Draft!CompileLands \/ Draft!CompileAnswers \/ Draft!CompileFails
             PROVE DraftIInv'
  OBVIOUS
<1> USE DEF DraftIInv
<1>1. UNCHANGED <<draft, past, calls, move, draftEdits>>
  BY DEF Draft!Compile, Draft!CompileLands, Draft!CompileAnswers, Draft!CompileFails,
     Draft!counters, Draft!Move
<1>2. CASE Draft!Compile
  <2>1. /\ compile' = [Draft!Idle EXCEPT !.pc = "sent", !.content = draft]
        /\ crossed' = (crossed \/ Draft!Active # {})
        /\ UNCHANGED <<server, saveState>>
    BY <1>2 DEF Draft!Compile
  <2>2. compile' \in Saving /\ compile'.pc = "sent" /\ compile'.content = draft
    BY <2>1, IdleSaving DEF Saving, DraftShape
  <2>3. DraftShape' /\ Draft!ContentKeepsToItsGraph'
    BY <1>1, <2>1, <2>2 DEF DraftShape, Draft!ContentKeepsToItsGraph
  <2>4. ASSUME ~crossed' PROVE OneRequest' /\ CompilesWhatIsDrawn' /\ MovesElsewhere' /\ Saved'
    <3>1. ~crossed /\ \A k \in Saves : calls[k].pc = "idle"
      BY <2>1, <2>4 DEF Draft!Active, DraftShape
    <3> QED BY <1>1, <2>1, <2>2, <3>1 DEF CalmDraft, OneRequest, CompilesWhatIsDrawn, MovesElsewhere,
            Saved, Draft!Persisted
  <2> QED BY <2>3, <2>4 DEF CalmDraft
<1>3. CASE Draft!CompileLands
  <2>1. /\ compile.pc = "sent" /\ compile' = [compile EXCEPT !.pc = "landed"]
        /\ server' = [server EXCEPT ![compile.content.graph] = compile.content]
        /\ UNCHANGED <<saveState, crossed>>
    BY <1>3 DEF Draft!CompileLands
  <2>2. compile' \in Saving /\ compile'.pc = "landed" /\ compile'.content = compile.content
    BY <2>1 DEF Saving, DraftShape
  <2>3. DraftShape'
    BY <1>1, <2>1, <2>2 DEF DraftShape, Saving, Drawn
  <2>4. Draft!ContentKeepsToItsGraph'
    BY <2>1 DEF DraftShape, Draft!ContentKeepsToItsGraph
  <2>5. ASSUME ~crossed PROVE OneRequest' /\ CompilesWhatIsDrawn' /\ MovesElsewhere' /\ Saved'
    <3>1. compile.content = draft /\ \A k \in Saves : calls[k].pc = "idle"
      BY <2>1, <2>5 DEF CalmDraft, CompilesWhatIsDrawn, OneRequest
    <3>2. draft.graph \in Graphs /\ server' = [server EXCEPT ![draft.graph] = draft]
      BY <2>1, <3>1 DEF DraftShape, Drawn
    <3>3. server'[draft.graph] = draft
      BY <3>2 DEF DraftShape
    <3>4. MovesElsewhere'
      BY <1>1, <2>5, <3>2 DEF CalmDraft, MovesElsewhere, DraftShape, Moving
    <3> QED BY <1>1, <2>2, <3>1, <3>3, <3>4 DEF OneRequest, CompilesWhatIsDrawn, Saved
  <2> QED BY <2>1, <2>3, <2>4, <2>5 DEF CalmDraft
<1>4. CASE Draft!CompileAnswers \/ Draft!CompileFails
  <2>1. compile.pc # "idle" /\ compile' = Draft!Idle /\ UNCHANGED <<server, crossed>>
    BY <1>4 DEF Draft!CompileAnswers, Draft!CompileFails
  <2>2. DraftShape' /\ Draft!ContentKeepsToItsGraph'
    BY <1>1, <2>1, IdleSaving DEF DraftShape, Draft!ContentKeepsToItsGraph
  <2>3. ASSUME ~crossed PROVE OneRequest' /\ CompilesWhatIsDrawn' /\ MovesElsewhere' /\ Saved'
    <3>1. \A k \in Saves : calls[k].pc = "idle"
      BY <2>1, <2>3 DEF CalmDraft, OneRequest
    <3>2. Saved'
      BY <1>1, <1>4, <2>1, <2>3 DEF Draft!CompileAnswers, Draft!CompileFails, CalmDraft,
         CompilesWhatIsDrawn, Saved, Draft!Persisted
    <3> QED BY <1>1, <2>1, <2>3, <3>1, <3>2, IdleSaving DEF CalmDraft, OneRequest,
            CompilesWhatIsDrawn, MovesElsewhere
  <2> QED BY <2>1, <2>2, <2>3 DEF CalmDraft
<1> QED BY <1>2, <1>3, <1>4

\* Another graph is chosen: what is dirty is flushed first.
LEMMA SelectKeeps == ASSUME DraftIInv, NEW g \in Graphs, Draft!SelectGraph(g) PROVE DraftIInv'
<1>1. UNCHANGED <<draft, past, compile, server, draftEdits>> /\ g # draft.graph
  BY DEF Draft!SelectGraph, Draft!Move
<1>2. CASE Draft!Persisted
  <2>1. move' = [Draft!Stay EXCEPT !.pc = "fetch", !.target = g] /\ UNCHANGED <<calls, saveState, crossed>>
    BY <1>2 DEF Draft!SelectGraph
  <2>2. move' \in Moving /\ move'.pc = "fetch" /\ move'.target = g
    BY <2>1, IdleSaving DEF Moving
  <2> QED BY <1>1, <2>1, <2>2 DEF DraftIInv, DraftShape, Draft!ContentKeepsToItsGraph, CalmDraft, OneRequest,
     CompilesWhatIsDrawn, MovesElsewhere, Saved, Draft!Persisted
<1>3. CASE ~Draft!Persisted
  <2>1. move' = [Draft!Stay EXCEPT !.pc = "flush", !.target = g] /\ Draft!Begin(Draft!Flusher)
    BY <1>3 DEF Draft!SelectGraph
  <2>2. FlushOrStay
    BY <1>1, <2>1, IdleSaving DEF Moving, FlushOrStay
  <2>3. UNCHANGED <<draft, past, compile, server, draftEdits>>
    BY <1>1
  <2>4. Draft!Flusher \in Saves
    BY LabConstants DEF Draft!Flusher
  <2> QED BY <2>1, <2>2, <2>3, <2>4, BeginKeeps, Zenon
<1> QED BY <1>2, <1>3

\* The move to another graph: the flush, the fetch and the new draft.
LEMMA MovesKeep == DraftIInv /\ (Draft!Flushed \/ Draft!Fetch \/ Draft!FetchFails \/ Draft!Hydrate) => DraftIInv'
<1> SUFFICES ASSUME DraftIInv, Draft!Flushed \/ Draft!Fetch \/ Draft!FetchFails \/ Draft!Hydrate
             PROVE DraftIInv'
  OBVIOUS
<1> USE DEF DraftIInv
<1>1. UNCHANGED <<compile, calls, server, draftEdits>>
  BY DEF Draft!Flushed, Draft!Fetch, Draft!FetchFails, Draft!Hydrate, Draft!counters, Draft!Fault
<1>2. Draft!ContentKeepsToItsGraph'
  BY <1>1 DEF Draft!ContentKeepsToItsGraph
<1>3. CASE ~Draft!Hydrate
  <2>1. UNCHANGED <<draft, past, saveState, crossed>>
    BY <1>3 DEF Draft!Flushed, Draft!Fetch, Draft!FetchFails
  <2>2. move' \in Moving /\ (~crossed => MovesElsewhere')
    <3>1. CASE Draft!Flushed
      BY <1>1, <2>1, <3>1 DEF Draft!Flushed, DraftShape, Moving, CalmDraft, MovesElsewhere
    <3>2. CASE Draft!Fetch
      BY <1>1, <2>1, <3>2 DEF Draft!Fetch, DraftShape, Moving, CalmDraft, MovesElsewhere
    <3>3. CASE Draft!FetchFails
      BY <3>3, IdleSaving DEF Draft!FetchFails, MovesElsewhere
    <3> QED BY <1>3, <3>1, <3>2, <3>3
  <2> QED BY <1>1, <1>2, <2>1, <2>2 DEF DraftShape, CalmDraft, OneRequest, CompilesWhatIsDrawn,
          Saved, Draft!Persisted
<1>4. CASE Draft!Hydrate
  <2>1. /\ move.pc = "fetched" /\ move' = Draft!Stay /\ draft' = move.content /\ past' = draft
        /\ crossed' = (crossed \/ Draft!Active # {} \/ compile.pc # "idle")
    BY <1>4 DEF Draft!Hydrate
  <2>2. DraftShape'
    BY <1>1, <2>1, IdleSaving DEF DraftShape, Moving
  <2>3. ASSUME ~crossed' PROVE OneRequest' /\ CompilesWhatIsDrawn' /\ MovesElsewhere' /\ Saved'
    <3>1. ~crossed /\ compile.pc = "idle" /\ \A k \in Saves : calls[k].pc = "idle"
      BY <2>1, <2>3 DEF Draft!Active, DraftShape
    <3>2. server[draft'.graph] = draft'
      BY <2>1, <3>1 DEF CalmDraft, MovesElsewhere, DraftShape, Moving, Draft!ContentKeepsToItsGraph
    <3> QED BY <1>1, <2>1, <3>1, <3>2, IdleSaving DEF OneRequest, CompilesWhatIsDrawn, MovesElsewhere, Saved
  <2> QED BY <1>2, <2>2, <2>3 DEF CalmDraft
<1> QED BY <1>3, <1>4

\* Every step of the editor keeps its invariant.
LEMMA DraftStep == DraftIInv /\ [Draft!Next]_draftVars => DraftIInv'
<1> SUFFICES ASSUME DraftIInv, [Draft!Next]_draftVars PROVE DraftIInv'
  OBVIOUS
<1>1. CASE UNCHANGED draftVars
  BY <1>1 DEF draftVars, DraftIInv, DraftShape, Draft!ContentKeepsToItsGraph, CalmDraft, OneRequest,
     CompilesWhatIsDrawn, MovesElsewhere, Saved, Draft!Persisted
<1>2. CASE \E k \in Saves : \/ Draft!PatchLands(k) \/ Draft!PatchAnswers(k) \/ Draft!PatchRefused(k)
                            \/ Draft!PatchLost(k) \/ Draft!Retry(k)
  BY <1>2, PatchesKeep
<1>3. CASE \E g \in Graphs : Draft!SelectGraph(g)
  BY <1>3, SelectKeeps
<1> QED BY <1>1, <1>2, <1>3, EditsKeep, TimersKeep, CompilesKeep, MovesKeep DEF Draft!Next

\* The invariant gives what is asked of autosave.
LEMMA DraftHolds == DraftIInv => Draft!ContentKeepsToItsGraph /\ Draft!SavedIsSaved
BY DEF DraftIInv, CalmDraft, Saved, Draft!SavedIsSaved

-----------------------------------------------------------------------------
(* The presets                                                               *)

PresetShape ==
  /\ step \in [Users -> {"idle", "strategy", "version"}] /\ tx \in [Users -> SUBSET Suffixes]
  /\ chosen = [u \in Users |-> chosen[u]] /\ asked = [u \in Users |-> asked[u]]
  /\ suffix \in [Users -> Suffixes \cup {0}] 
  /\ \A u \in Users : step[u] # "idle" => suffix[u] \in Suffixes
\* A name that an open transaction has taken is taken by it alone.
NamesAreTaken ==
  /\ \A u \in Users : IF step[u] = "version" THEN tx[u] = {suffix[u]} ELSE tx[u] = {}
  /\ \A u, v \in Users : u # v => tx[u] \cap tx[v] = {}
  /\ \A u \in Users : \A s \in owned : s.name \notin tx[u]
BundlesFit == \A u \in Users : step[u] # "idle" => Preset!BundleFits(chosen[u], asked[u])
RowsCounted ==
  /\ IsFiniteSet(owned) /\ IsFiniteSet(firstVersions) /\ IsFiniteSet(bots)
  /\ Cardinality(firstVersions) = Cardinality(bots) /\ Cardinality(owned) = Cardinality(bots)
NamesMatch ==
  /\ {s.name : s \in owned} = {b.name : b \in bots}
  /\ {v.strategy : v \in firstVersions} = {b.name : b \in bots}
StrategyOf(b) == [name |-> b.name, slug |-> b.slug, timeframe |-> b.timeframe]
InBundle(b) == b.hasBundle => b.timeframe \in b.bundle
BotsFit == \A b \in bots : StrategyOf(b) \in owned /\ InBundle(b)

PresetIInv ==
  /\ PresetShape /\ NamesAreTaken /\ BundlesFit /\ RowsCounted /\ NamesMatch /\ BotsFit

\* No user has a strategy, a version or a bot at first.
LEMMA PresetInit == Preset!Init => PresetIInv
<1> SUFFICES ASSUME Preset!Init PROVE PresetIInv
  OBVIOUS
<1> USE DEF Preset!Init
<1>1. RowsCounted
  BY FS_EmptySet DEF RowsCounted
<1>2. PresetShape /\ NamesAreTaken /\ BundlesFit
  BY DEF PresetShape, NamesAreTaken, BundlesFit
<1>3. NamesMatch /\ BotsFit
  BY DEF NamesMatch, BotsFit
<1> QED BY <1>1, <1>2, <1>3 DEF PresetIInv

\* The reads and checks of an instantiation commit nothing.
LEMMA RequestsKeep ==
  ASSUME PresetIInv, NEW u \in Users,
         \/ \E p \in presets, o \in Overrides, s \in Suffixes : Preset!PostInstantiate(u, p, o, s)
         \/ Preset!CreateStrategy(u) \/ Preset!RollBack(u)
  PROVE  PresetIInv'
<1> USE DEF PresetIInv
<1>1. UNCHANGED <<owned, firstVersions, bots>>
  BY DEF Preset!PostInstantiate, Preset!CreateStrategy, Preset!RollBack
<1>2. RowsCounted' /\ NamesMatch' /\ BotsFit'
  BY <1>1 DEF RowsCounted, NamesMatch, BotsFit
<1>3. ASSUME NEW p \in presets, NEW o \in Overrides, NEW s \in Suffixes,
             Preset!PostInstantiate(u, p, o, s)
      PROVE  PresetShape' /\ NamesAreTaken' /\ BundlesFit'
  <2>1. /\ step[u] = "idle" /\ Preset!BundleFits(p, o)
        /\ step' = [step EXCEPT ![u] = "strategy"]
        /\ chosen' = [chosen EXCEPT ![u] = p] /\ asked' = [asked EXCEPT ![u] = o]
        /\ suffix' = [suffix EXCEPT ![u] = s] /\ tx' = tx
    BY <1>3 DEF Preset!PostInstantiate
  <2>2. PresetShape'
    BY <2>1 DEF PresetShape
  <2>3. NamesAreTaken'
    BY <1>1, <2>1 DEF PresetShape, NamesAreTaken
  <2>4. \A v \in Users \ {u} : chosen'[v] = chosen[v] /\ asked'[v] = asked[v] /\ step'[v] = step[v]
    BY <2>1 DEF PresetShape
  <2>5. chosen'[u] = p /\ asked'[u] = o
    BY <2>1 DEF PresetShape
  <2>6. BundlesFit'
    BY <2>1, <2>4, <2>5 DEF BundlesFit
  <2> QED BY <2>2, <2>3, <2>6
<1>4. CASE Preset!CreateStrategy(u) \/ Preset!RollBack(u)
  <2>1. UNCHANGED <<chosen, asked, suffix>> /\ step[u] # "idle"
    BY <1>4 DEF Preset!CreateStrategy, Preset!RollBack
  <2>2. PresetShape'
    BY <1>4, <2>1 DEF PresetShape, Preset!CreateStrategy, Preset!RollBack
  <2>3. NamesAreTaken'
    <3>1. CASE Preset!CreateStrategy(u)
      BY <1>1, <2>1, <3>1 DEF PresetShape, NamesAreTaken, Preset!CreateStrategy
    <3>2. CASE Preset!RollBack(u)
      BY <1>1, <2>1, <3>2 DEF PresetShape, NamesAreTaken, Preset!RollBack
    <3> QED BY <1>4, <3>1, <3>2
  <2>4. BundlesFit'
    BY <1>4, <2>1 DEF PresetShape, BundlesFit, Preset!CreateStrategy, Preset!RollBack
  <2> QED BY <1>2, <2>2, <2>3, <2>4
<1> QED BY <1>2, <1>3, <1>4, Zenon

\* The specification's cardinality is the library's.
LEMMA PresetCount == \A S : Preset!Cardinality(S) = Cardinality(S)
BY DEF Preset!Cardinality, Cardinality

\* A row of a name that no row has is one row more.
LEMMA OneMore ==
  ASSUME NEW S, NEW x, IsFiniteSet(S), x \notin S
  PROVE  IsFiniteSet(S \cup {x}) /\ Cardinality(S \cup {x}) = Cardinality(S) + 1
BY FS_AddElement

\* The transaction writes a user's strategy, its version and its bot together.
LEMMA BotKeeps == ASSUME PresetIInv, NEW u \in Users, Preset!CreateBot(u) PROVE PresetIInv'
<1> USE DEF PresetIInv
<1> DEFINE p == chosen[u]
           t == Preset!Timeframe(p, asked[u])
           s == [name |-> suffix[u], slug |-> p.slug, timeframe |-> t]
           v == [strategy |-> suffix[u], version |-> 1, slug |-> p.slug]
           b == [name |-> suffix[u], slug |-> p.slug, timeframe |-> t, mode |-> Preset!Mode(p),
                 hasBundle |-> p.hasBundle, bundle |-> p.bundle]
<1>1. /\ step[u] = "version" /\ step' = [step EXCEPT ![u] = "idle"] /\ tx' = [tx EXCEPT ![u] = {}]
      /\ owned' = owned \cup {s} /\ firstVersions' = firstVersions \cup {v} /\ bots' = bots \cup {b}
      /\ UNCHANGED <<asked, chosen, suffix>>
  BY DEF Preset!CreateBot
<1>2. PresetShape' /\ BundlesFit'
  BY <1>1 DEF PresetShape, BundlesFit
<1>3. tx[u] = {suffix[u]} /\ \A x \in owned : x.name # suffix[u]
  BY <1>1 DEF NamesAreTaken
<1>4. s.name = suffix[u] /\ v.strategy = suffix[u] /\ b.name = suffix[u]
  OBVIOUS
<1>5. InBundle(b)
  BY <1>1 DEF BundlesFit, Preset!BundleFits, InBundle
<1>6. StrategyOf(b) = s
  BY DEF StrategyOf
<1> HIDE DEF s, v, b
<1>7. NamesAreTaken'
  BY <1>1, <1>3, <1>4 DEF NamesAreTaken, PresetShape
<1>8. NamesMatch' /\ BotsFit'
  <2>1. /\ {x.name : x \in owned'} = {x.name : x \in owned} \cup {suffix[u]}
        /\ {x.strategy : x \in firstVersions'} = {x.strategy : x \in firstVersions} \cup {suffix[u]}
        /\ {x.name : x \in bots'} = {x.name : x \in bots} \cup {suffix[u]}
    <3>1. {x.name : x \in owned'} = {x.name : x \in owned} \cup {suffix[u]}
      BY <1>1, <1>4
    <3>2. {x.strategy : x \in firstVersions'} = {x.strategy : x \in firstVersions} \cup {suffix[u]}
      BY <1>1, <1>4
    <3>3. {x.name : x \in bots'} = {x.name : x \in bots} \cup {suffix[u]}
      BY <1>1, <1>4
    <3> QED BY <3>1, <3>2, <3>3
  <2>2. BotsFit'
    BY <1>1, <1>5, <1>6 DEF BotsFit
  <2> QED BY <2>1, <2>2 DEF NamesMatch
<1>9. s \notin owned /\ v \notin firstVersions /\ b \notin bots
  BY <1>3, <1>4 DEF NamesMatch
<1>10. RowsCounted'
  <2>1. IsFiniteSet(owned \cup {s}) /\ Cardinality(owned \cup {s}) = Cardinality(owned) + 1
    BY <1>9, OneMore DEF RowsCounted
  <2>2. /\ IsFiniteSet(firstVersions \cup {v})
        /\ Cardinality(firstVersions \cup {v}) = Cardinality(firstVersions) + 1
    BY <1>9, OneMore DEF RowsCounted
  <2>3. IsFiniteSet(bots \cup {b}) /\ Cardinality(bots \cup {b}) = Cardinality(bots) + 1
    BY <1>9, OneMore DEF RowsCounted
  <2> QED BY <1>1, <2>1, <2>2, <2>3 DEF RowsCounted
<1> QED BY <1>2, <1>7, <1>8, <1>10

\* Every step of the presets keeps their invariant.
LEMMA PresetStep == PresetIInv /\ [Preset!Next]_presetVars => PresetIInv'
<1> SUFFICES ASSUME PresetIInv, [Preset!Next]_presetVars PROVE PresetIInv'
  OBVIOUS
<1>1. CASE UNCHANGED <<step, asked, chosen, suffix, tx, owned, firstVersions, bots>>
  BY <1>1 DEF PresetIInv, PresetShape, NamesAreTaken, BundlesFit, RowsCounted, NamesMatch, BotsFit
<1>2. ASSUME NEW u \in Users, NEW p \in presets, NEW o \in Overrides, NEW s \in Suffixes,
             Preset!PostInstantiate(u, p, o, s)
      PROVE  PresetIInv'
  BY <1>2, RequestsKeep
<1>3. ASSUME NEW u \in Users, Preset!CreateStrategy(u) \/ Preset!CreateBot(u) \/ Preset!RollBack(u)
      PROVE  PresetIInv'
  BY <1>3, RequestsKeep, BotKeeps
<1>4. CASE \E b \in Bodies : Preset!PublishPreset(b)
  BY <1>1, <1>4 DEF Preset!PublishPreset
<1> QED BY <1>1, <1>2, <1>3, <1>4 DEF Preset!Next, presetVars

\* The invariant gives whole bots.
LEMMA PresetHolds == PresetIInv => Preset!PresetBotsAreWhole
BY PresetCount DEF PresetIInv, RowsCounted, NamesMatch, BotsFit, StrategyOf, InBundle, Preset!PresetBotsAreWhole

-----------------------------------------------------------------------------
(* The compiled versions                                                     *)

Row == [number : Nat, version : Nat, baseline : BOOLEAN]
GraphNumbers == VersionGraphs \X Nat
Editing == [pc : {"idle", "create", "compile", "version", "count", "link", "unset", "findMany", "clear"},
            graph : VersionGraphs, number : Nat, version : Nat, found : SUBSET GraphNumbers]
VersionShape ==
  /\ versions \in [Names -> SUBSET Nat] /\ graphVersions \in [VersionGraphs -> SUBSET Row]
  /\ edit \in [Editors -> Editing] /\ overlap \in BOOLEAN

Dense(S) == \E k \in Nat : S = 1..k
NumbersOf(rows) == {v.number : v \in rows}
Numbered ==
  /\ \A n \in Names : Dense(versions[n])
  /\ \A g \in VersionGraphs :
       /\ Dense(NumbersOf(graphVersions[g]))
       /\ \A v, w \in graphVersions[g] : v.number = w.number => v = w
\* A graph version is of a version that is there, and of one no other is of.
Lineage ==
  /\ \A g \in VersionGraphs : \A v \in graphVersions[g] : v.version \in versions[NameOf[g]]
  /\ Version!OneGraphVersionEach
RowsOk == VersionShape /\ Numbered /\ Lineage

\* What a request goes on with still holds: the number it read is the next one
\* or taken, its version has no graph version.
NumberRead(e, vs, gs) ==
  /\ e.pc = "version" => e.version \in Nat \ {0} /\ 1..(e.version - 1) \subseteq vs[NameOf[e.graph]]
  /\ e.pc = "link" => e.number \in Nat \ {0} /\ 1..(e.number - 1) \subseteq NumbersOf(gs[e.graph])
VersionIsNew(e, vs, gs) ==
  e.pc \in {"count", "link"} =>
    /\ e.version \in vs[NameOf[e.graph]]
    /\ \A g \in VersionGraphs : NameOf[g] = NameOf[e.graph] => \A v \in gs[g] : v.version # e.version
Goes(e, vs, gs) == NumberRead(e, vs, gs) /\ VersionIsNew(e, vs, gs)
\* Two requests add different versions.
Apart(e, d) ==
  NameOf[e.graph] = NameOf[d.graph] /\ {e.pc, d.pc} \subseteq {"count", "link"} => e.version # d.version

\* A baseline request found every baseline, and is the only one of its name.
Flagged(gs, g, i) == \E v \in gs[g] : v.number = i /\ v.baseline
OneFlag(gs) ==
  \A g, l \in VersionGraphs : \A i, j \in Nat :
    NameOf[g] = NameOf[l] /\ Flagged(gs, g, i) /\ Flagged(gs, l, j) => g = l /\ i = j
AllFound(e, gs) ==
  e.pc = "clear" =>
    \A g \in VersionGraphs : \A i \in Nat :
      NameOf[g] = NameOf[e.graph] /\ Flagged(gs, g, i) => <<g, i>> \in e.found
Alone(e, d) == NameOf[e.graph] = NameOf[d.graph] => ~({e.pc, d.pc} \subseteq {"unset", "findMany", "clear"})

VersionIInv ==
  /\ RowsOk
  /\ \A h \in Editors : Goes(edit[h], versions, graphVersions)
  /\ \A h, l \in Editors : h # l => Apart(edit[h], edit[l])
  /\ ~overlap => /\ OneFlag(graphVersions)
                 /\ \A h \in Editors : AllFound(edit[h], graphVersions)
                 /\ \A h, l \in Editors : h # l => Alone(edit[h], edit[l])

\* An idle request has read nothing.
LEMMA NoEditFits ==
  /\ Version!NoEdit \in Editing /\ Version!NoEdit.pc = "idle"
  /\ \A vs, gs : Goes(Version!NoEdit, vs, gs) /\ AllFound(Version!NoEdit, gs)
  /\ \A d : Apart(Version!NoEdit, d) /\ Alone(Version!NoEdit, d)
<1>1. Version!NoEdit \in Editing /\ Version!NoEdit.pc = "idle"
  BY LabConstants DEF Version!NoEdit, Editing
<1> QED BY <1>1 DEF Goes, NumberRead, VersionIsNew, AllFound, Apart, Alone

\* There are no versions at first.
LEMMA VersionInit == Version!Init => VersionIInv
<1> SUFFICES ASSUME Version!Init PROVE VersionIInv
  OBVIOUS
<1>1. /\ versions = [n \in Names |-> {}] /\ graphVersions = [g \in VersionGraphs |-> {}]
      /\ edit = [h \in Editors |-> Version!NoEdit] /\ overlap = FALSE
  BY DEF Version!Init
<1>2. VersionShape
  BY <1>1, NoEditFits DEF VersionShape
<1>3. Dense({})
  <2>1. {} = 1..0
    OBVIOUS
  <2> QED BY <2>1 DEF Dense
<1>4. \A g \in VersionGraphs : NumbersOf(graphVersions[g]) = {}
  BY <1>1 DEF NumbersOf
<1>5. Numbered /\ Lineage /\ OneFlag(graphVersions)
  BY <1>1, <1>3, <1>4 DEF Numbered, Lineage, Version!OneGraphVersionEach, OneFlag, Flagged
<1> QED BY <1>1, <1>2, <1>5, NoEditFits DEF VersionIInv, RowsOk

\* A step of request h: it goes on as e, the others as they were.
LEMMA RequestMoves ==
  ASSUME VersionIInv, NEW h \in Editors, NEW e \in Editing,
         edit' = [edit EXCEPT ![h] = e], RowsOk',
         Goes(e, versions', graphVersions'),
         \A l \in Editors \ {h} : Goes(edit[l], versions', graphVersions') /\ Apart(e, edit[l]),
         ~overlap' => /\ ~overlap /\ OneFlag(graphVersions') /\ AllFound(e, graphVersions')
                      /\ \A l \in Editors \ {h} : AllFound(edit[l], graphVersions') /\ Alone(e, edit[l])
  PROVE  VersionIInv'
<1>1. edit'[h] = e /\ \A l \in Editors \ {h} : edit'[l] = edit[l]
  BY DEF VersionIInv, RowsOk, VersionShape
<1>2. \A l \in Editors : Goes(edit'[l], versions', graphVersions')
  BY <1>1
<1>3. \A d, c : (Apart(d, c) <=> Apart(c, d)) /\ (Alone(d, c) <=> Alone(c, d))
  BY DEF Apart, Alone
<1>4. \A l, k \in Editors : l # k => Apart(edit'[l], edit'[k])
  BY <1>1, <1>3 DEF VersionIInv
<1>5. ASSUME ~overlap'
      PROVE  /\ OneFlag(graphVersions') /\ \A l \in Editors : AllFound(edit'[l], graphVersions')
             /\ \A l, k \in Editors : l # k => Alone(edit'[l], edit'[k])
  BY <1>1, <1>3, <1>5 DEF VersionIInv
<1> QED BY <1>2, <1>4, <1>5 DEF VersionIInv

\* A request that read moves on, and no row is written.
LEMMA RequestReads ==
  ASSUME VersionIInv, NEW h \in Editors, NEW e \in Editing,
         edit' = [edit EXCEPT ![h] = e], UNCHANGED <<versions, graphVersions>>, overlap' \in BOOLEAN,
         Goes(e, versions, graphVersions), \A l \in Editors \ {h} : Apart(e, edit[l]),
         ~overlap' => /\ ~overlap /\ AllFound(e, graphVersions)
                      /\ \A l \in Editors \ {h} : Alone(e, edit[l])
  PROVE  VersionIInv'
<1>1. RowsOk'
  BY DEF VersionIInv, RowsOk, VersionShape, Numbered, Lineage, Version!OneGraphVersionEach
<1>2. Goes(e, versions', graphVersions') /\ \A l \in Editors \ {h} : Goes(edit[l], versions', graphVersions')
  BY DEF VersionIInv
<1>3. ~overlap' => /\ ~overlap /\ OneFlag(graphVersions') /\ AllFound(e, graphVersions')
                   /\ \A l \in Editors \ {h} : AllFound(edit[l], graphVersions') /\ Alone(e, edit[l])
  BY DEF VersionIInv
<1> QED BY <1>1, <1>2, <1>3, RequestMoves

\* The latest of k dense numbers is k.
LEMMA MaxOfDense == ASSUME NEW k \in Nat PROVE Version!Max((1..k) \cup {0}) = k
<1> DEFINE S == (1..k) \cup {0}
<1>1. k \in S /\ \A y \in S : y \in Int /\ k >= y
  OBVIOUS
<1> HIDE DEF S
<1>2. Version!Max(S) \in S /\ \A y \in S : Version!Max(S) >= y
  BY <1>1 DEF Version!Max
<1>3. PICK m : m = Version!Max(S)
  OBVIOUS
<1>4. m \in Int /\ m >= k /\ k >= m
  BY <1>1, <1>2, <1>3
<1>5. m = k
  BY <1>4
<1> QED BY <1>3, <1>5 DEF S

\* The specification's cardinality is the library's.
LEMMA VersionCount == \A S : Version!Cardinality(S) = Cardinality(S)
BY DEF Version!Cardinality, Cardinality

\* Rows that their numbers tell apart are as many as their numbers.
LEMMA CountOfNumbers ==
  ASSUME NEW rows, NEW k \in Nat, NumbersOf(rows) = 1..k,
         \A v, w \in rows : v.number = w.number => v = w
  PROVE  IsFiniteSet(rows) /\ Cardinality(rows) = k
<1> DEFINE f == [i \in 1..k |-> CHOOSE v \in rows : v.number = i]
<1>1. \A i \in 1..k : f[i] \in rows /\ f[i].number = i
  BY DEF NumbersOf
<1>2. f \in [1..k -> rows]
  BY <1>1
<1>3. \A v \in rows : v.number \in 1..k /\ f[v.number] = v
  BY <1>1 DEF NumbersOf
<1> HIDE DEF f
<1>4. f \in Bijection(1..k, rows)
  <2>1. \A i, j \in 1..k : f[i] = f[j] => i = j
    BY <1>1
  <2>2. \A v \in rows : \E i \in 1..k : f[i] = v
    BY <1>3
  <2> QED BY <1>2, <2>1, <2>2 DEF Bijection, Injection, Surjection, IsInjective
<1>5. ExistsBijection(1..k, rows)
  BY <1>4 DEF ExistsBijection
<1>6. IsFiniteSet(1..k) /\ Cardinality(1..k) = k
  BY FS_Interval
<1> QED BY <1>5, <1>6, FS_Bijection

\* The steps of a compile that only read keep the invariant.
LEMMA ReadsKeep ==
  ASSUME VersionIInv, NEW h \in Editors,
         \/ \E g \in VersionGraphs : Version!CompileStart(h, g)
         \/ Version!CreateStrategy(h) \/ Version!CompileFails(h) \/ Version!RequestDies(h)
  PROVE  VersionIInv'
<1>1. UNCHANGED <<versions, graphVersions, overlap>> /\ overlap' \in BOOLEAN
  BY DEF Version!CompileStart, Version!CreateStrategy, Version!CompileFails, Version!RequestDies,
     VersionIInv, RowsOk, VersionShape
<1>2. PICK e \in Editing : edit' = [edit EXCEPT ![h] = e] /\ e.pc \in {"idle", "create", "compile"}
  <2>0. edit \in [Editors -> Editing]
    BY DEF VersionIInv, RowsOk, VersionShape
  <2>1. CASE edit' = [edit EXCEPT ![h] = Version!NoEdit]
    BY <2>1, NoEditFits
  <2>2. ASSUME NEW g \in VersionGraphs, Version!CompileStart(h, g)
        PROVE  \E e \in Editing : edit' = [edit EXCEPT ![h] = e] /\ e.pc \in {"create", "compile"}
    <3>1. PICK pc \in {"create", "compile"} : edit' = [edit EXCEPT ![h].graph = g, ![h].pc = pc]
      BY <2>2 DEF Version!CompileStart
    <3> DEFINE e == [edit[h] EXCEPT !.graph = g, !.pc = pc]
    <3>2. e \in Editing /\ e.pc = pc
      BY <2>0 DEF Editing
    <3>3. edit' = [edit EXCEPT ![h] = e]
      BY <2>0, <3>1
    <3> HIDE DEF e
    <3> QED BY <3>2, <3>3
  <2>3. ASSUME edit' = [edit EXCEPT ![h].pc = "compile"]
        PROVE  \E e \in Editing : edit' = [edit EXCEPT ![h] = e] /\ e.pc \in {"create", "compile"}
    <3> DEFINE e == [edit[h] EXCEPT !.pc = "compile"]
    <3>2. e \in Editing /\ e.pc = "compile"
      BY <2>0 DEF Editing
    <3>3. edit' = [edit EXCEPT ![h] = e]
      BY <2>0, <2>3
    <3> HIDE DEF e
    <3> QED BY <3>2, <3>3
  <2> QED BY <2>1, <2>2, <2>3 DEF Version!CreateStrategy, Version!CompileFails, Version!RequestDies,
          Version!Reply, Version!Goto
<1>3. /\ Goes(e, versions, graphVersions) /\ AllFound(e, graphVersions)
      /\ \A l \in Editors \ {h} : Apart(e, edit[l]) /\ Alone(e, edit[l])
  BY <1>2 DEF Goes, NumberRead, VersionIsNew, AllFound, Apart, Alone
<1> QED BY <1>1, <1>2, <1>3, RequestReads

\* The number read is the latest there was.
LEMMA FindLatestKeeps == ASSUME VersionIInv, NEW h \in Editors, Version!FindLatestVersion(h) PROVE VersionIInv'
<1>0. edit \in [Editors -> Editing] /\ edit[h] \in Editing
  BY DEF VersionIInv, RowsOk, VersionShape
<1>1. UNCHANGED <<versions, graphVersions, overlap>> /\ overlap' \in BOOLEAN
  BY DEF Version!FindLatestVersion, VersionIInv, RowsOk, VersionShape
<1> DEFINE n == NameOf[edit[h].graph]
<1>2. n \in Names
  BY <1>0, LabConstants DEF Editing
<1>3. PICK k \in Nat : versions[n] = 1..k
  BY <1>2 DEF VersionIInv, RowsOk, Numbered, Dense
<1>m. PICK m \in Nat : m = k + 1
  OBVIOUS
<1>4. edit' = [edit EXCEPT ![h].pc = "version", ![h].version = m]
  BY <1>3, <1>m, MaxOfDense DEF Version!FindLatestVersion, Version!Name
<1> DEFINE e == [edit[h] EXCEPT !.pc = "version", !.version = m]
<1>5. e \in Editing /\ e.pc = "version" /\ e.version = m /\ NameOf[e.graph] = n
  BY <1>0 DEF Editing
<1>6. edit' = [edit EXCEPT ![h] = e]
  BY <1>0, <1>4
<1> HIDE DEF e, n
<1>7. /\ Goes(e, versions, graphVersions) /\ AllFound(e, graphVersions)
      /\ \A l \in Editors \ {h} : Apart(e, edit[l]) /\ Alone(e, edit[l])
  BY <1>3, <1>m, <1>5 DEF Goes, NumberRead, VersionIsNew, AllFound, Apart, Alone
<1> QED BY <1>1, <1>5, <1>6, <1>7, RequestReads

\* The count read is the number of graph versions there were.
LEMMA CountKeeps == ASSUME VersionIInv, NEW h \in Editors, Version!CountGraphVersions(h) PROVE VersionIInv'
<1>0. edit \in [Editors -> Editing] /\ edit[h] \in Editing /\ edit[h].pc = "count"
  BY DEF VersionIInv, RowsOk, VersionShape, Version!CountGraphVersions, Version!At
<1>1. UNCHANGED <<versions, graphVersions, overlap>> /\ overlap' \in BOOLEAN
  BY DEF Version!CountGraphVersions, VersionIInv, RowsOk, VersionShape
<1> DEFINE g == edit[h].graph
<1>2. g \in VersionGraphs
  BY <1>0 DEF Editing
<1>3. PICK k \in Nat : NumbersOf(graphVersions[g]) = 1..k
  BY <1>2 DEF VersionIInv, RowsOk, Numbered, Dense
<1>4. Cardinality(graphVersions[g]) = k
  BY <1>2, <1>3, CountOfNumbers DEF VersionIInv, RowsOk, Numbered
<1>m. PICK m \in Nat : m = k + 1
  OBVIOUS
<1>5. edit' = [edit EXCEPT ![h].pc = "link", ![h].number = m]
  BY <1>4, <1>m, VersionCount DEF Version!CountGraphVersions
<1> DEFINE e == [edit[h] EXCEPT !.pc = "link", !.number = m]
<1>6. e \in Editing /\ e.pc = "link" /\ e.number = m /\ e.graph = g /\ e.version = edit[h].version
  BY <1>0 DEF Editing
<1>7. edit' = [edit EXCEPT ![h] = e]
  BY <1>0, <1>5
<1> HIDE DEF e
<1>8. NumberRead(e, versions, graphVersions)
  BY <1>3, <1>m, <1>6 DEF NumberRead
<1>9. VersionIsNew(e, versions, graphVersions)
  BY <1>0, <1>6 DEF VersionIsNew, VersionIInv, Goes
<1>10. /\ Goes(e, versions, graphVersions) /\ AllFound(e, graphVersions)
       /\ \A l \in Editors \ {h} : Alone(e, edit[l])
  BY <1>6, <1>8, <1>9 DEF Goes, AllFound, Alone
<1>11. \A l \in Editors \ {h} : Apart(e, edit[l])
  BY <1>0, <1>6 DEF VersionIInv, Apart
<1>12. ~overlap' => ~overlap
  BY <1>1
<1> QED BY <1>1, <1>6, <1>7, <1>10, <1>11, <1>12, RequestReads

\* The pairs the baseline request finds are the flagged graph versions.
LEMMA BaselinesAre ==
  ASSUME VersionShape, NEW n
  PROVE  /\ \A g \in VersionGraphs : \A i \in Nat :
              NameOf[g] = n /\ Flagged(graphVersions, g, i) => <<g, i>> \in Version!Baselines(n)
         /\ \A x \in Version!Baselines(n) : \E g \in VersionGraphs : \E i \in Nat :
              NameOf[g] = n /\ Flagged(graphVersions, g, i) /\ x = <<g, i>>
<1>1. ASSUME NEW g \in VersionGraphs, NEW v \in graphVersions[g], v.baseline, NameOf[g] = n
      PROVE  <<g, v.number>> \in Version!Baselines(n)
  BY <1>1 DEF Version!Baselines
<1>2. ASSUME NEW x \in Version!Baselines(n)
      PROVE  \E g \in VersionGraphs : \E v \in graphVersions[g] :
               NameOf[g] = n /\ v.baseline /\ x = <<g, v.number>>
  <2>1. PICK g \in VersionGraphs : NameOf[g] = n /\ x \in {<<g, v.number>> : v \in {w \in graphVersions[g] : w.baseline}}
    BY DEF Version!Baselines
  <2> QED BY <2>1
<1>3. \A g \in VersionGraphs : \A v \in graphVersions[g] : v.number \in Nat
  BY DEF VersionShape, Row
<1> QED BY <1>1, <1>2, <1>3 DEF Flagged

\* The steps of a baseline request before its first write keep the invariant.
LEMMA BaselineReadKeeps ==
  ASSUME VersionIInv, NEW h \in Editors, NEW g \in VersionGraphs, NEW v \in graphVersions[g],
         Version!BaselineRead(h, g, v)
  PROVE  VersionIInv'
<1>0. edit \in [Editors -> Editing] /\ edit[h] \in Editing /\ v.number \in Nat
  BY DEF VersionIInv, RowsOk, VersionShape, Row
<1>1. UNCHANGED <<versions, graphVersions>> /\ overlap' \in BOOLEAN
  BY DEF Version!BaselineRead
<1>2. PICK pc \in {"unset", "findMany"} :
         edit' = [edit EXCEPT ![h].graph = g, ![h].number = v.number, ![h].pc = pc]
  BY DEF Version!BaselineRead
<1> DEFINE e == [edit[h] EXCEPT !.graph = g, !.number = v.number, !.pc = pc]
<1>3. e \in Editing /\ e.pc = pc /\ e.graph = g
  BY <1>0 DEF Editing
<1>4. edit' = [edit EXCEPT ![h] = e]
  BY <1>0, <1>2
<1> HIDE DEF e
<1>5. /\ Goes(e, versions, graphVersions) /\ AllFound(e, graphVersions)
      /\ \A l \in Editors \ {h} : Apart(e, edit[l])
  BY <1>3 DEF Goes, NumberRead, VersionIsNew, AllFound, Apart
<1>6. ~overlap' => ~overlap /\ \A l \in Editors \ {h} : Alone(e, edit[l])
  BY <1>3 DEF Version!BaselineRead, Version!InBaseline, Version!Name, Alone
<1> QED BY <1>1, <1>3, <1>4, <1>5, <1>6, RequestReads

\* The baselines found are those of the strategy.
LEMMA FindManyKeeps == ASSUME VersionIInv, NEW h \in Editors, Version!BaselineFindMany(h) PROVE VersionIInv'
<1>0. edit \in [Editors -> Editing] /\ edit[h] \in Editing /\ edit[h].pc = "findMany" /\ VersionShape
  BY DEF VersionIInv, RowsOk, VersionShape, Version!BaselineFindMany, Version!At
<1>1. UNCHANGED <<versions, graphVersions, overlap>> /\ overlap' \in BOOLEAN
  BY <1>0 DEF Version!BaselineFindMany, VersionShape
<1>2. PICK found : found = Version!Baselines(NameOf[edit[h].graph])
  OBVIOUS
<1>3. edit' = [edit EXCEPT ![h].pc = "clear", ![h].found = found]
  BY <1>2 DEF Version!BaselineFindMany, Version!Name
<1>4. found \in SUBSET GraphNumbers
  BY <1>0, <1>2, BaselinesAre DEF GraphNumbers
<1> DEFINE e == [edit[h] EXCEPT !.pc = "clear", !.found = found]
<1>5. e \in Editing /\ e.pc = "clear" /\ e.found = found /\ e.graph = edit[h].graph
  BY <1>0, <1>4 DEF Editing
<1>6. edit' = [edit EXCEPT ![h] = e]
  BY <1>0, <1>3
<1> HIDE DEF e
<1>7. AllFound(e, graphVersions)
  BY <1>0, <1>2, <1>5, BaselinesAre DEF AllFound
<1>8. Goes(e, versions, graphVersions) /\ \A l \in Editors \ {h} : Apart(e, edit[l])
  BY <1>5 DEF Goes, NumberRead, VersionIsNew, Apart
<1>9. ~overlap' => ~overlap /\ \A l \in Editors \ {h} : Alone(e, edit[l])
  BY <1>0, <1>1, <1>5 DEF VersionIInv, Alone
<1> QED BY <1>1, <1>5, <1>6, <1>7, <1>8, <1>9, RequestReads

\* The next version number leaves no gap.
LEMMA NextIsDense ==
  ASSUME NEW S, NEW m \in Nat \ {0}, Dense(S), 1..(m - 1) \subseteq S
  PROVE  Dense(S \cup {m})
<1>1. PICK k \in Nat : S = 1..k
  BY DEF Dense
<1>2. CASE m <= k
  BY <1>1, <1>2 DEF Dense
<1>3. CASE m > k
  <2>1. m = k + 1
    <3>1. m # 1 => m - 1 \in 1..(m - 1)
      OBVIOUS
    <3> QED BY <1>1, <1>3, <3>1
  <2>2. S \cup {m} = 1..(k + 1)
    BY <1>1, <2>1
  <2> QED BY <2>2 DEF Dense
<1> QED BY <1>1, <1>2, <1>3

\* CreateVersion and AssistantVersion: the version read is added to its name.
LEMMA VersionAdded ==
  ASSUME VersionIInv, NEW h \in Editors, NEW e \in Editing, edit[h].pc = "version",
         versions' = [versions EXCEPT ![NameOf[edit[h].graph]] = @ \cup {edit[h].version}],
         UNCHANGED <<graphVersions, overlap>>, edit' = [edit EXCEPT ![h] = e],
         \/ e = Version!NoEdit
         \/ /\ e.pc = "count" /\ e.graph = edit[h].graph /\ e.version = edit[h].version
            /\ edit[h].version \notin versions[NameOf[edit[h].graph]]
  PROVE  VersionIInv'
<1>0. VersionShape /\ edit \in [Editors -> Editing] /\ edit[h] \in Editing
  BY DEF VersionIInv, RowsOk, VersionShape
<1>1. PICK n \in Names : n = NameOf[edit[h].graph]
  BY <1>0, LabConstants DEF Editing
<1>2. PICK m \in Nat \ {0} : m = edit[h].version /\ 1..(m - 1) \subseteq versions[n]
  BY <1>1 DEF VersionIInv, Goes, NumberRead
<1>3. versions \in [Names -> SUBSET Nat] /\ versions' = [versions EXCEPT ![n] = @ \cup {m}]
  BY <1>0, <1>1, <1>2 DEF VersionShape
<1>4. /\ versions' \in [Names -> SUBSET Nat]
      /\ \A p \in Names : versions[p] \subseteq versions'[p] /\ (p # n => versions'[p] = versions[p])
      /\ versions'[n] = versions[n] \cup {m}
  BY <1>3
<1>5. \A g \in VersionGraphs : NameOf[g] \in Names
  BY LabConstants
<1>6. RowsOk'
  <2>1. VersionShape'
    BY <1>0, <1>4 DEF VersionShape
  <2>2. Dense(versions[n] \cup {m})
    BY <1>1, <1>2, NextIsDense DEF VersionIInv, RowsOk, Numbered
  <2>3. Numbered'
    BY <1>4, <2>2 DEF VersionIInv, RowsOk, Numbered
  <2>4. Lineage'
    BY <1>4, <1>5 DEF VersionIInv, RowsOk, Lineage, Version!OneGraphVersionEach
  <2> QED BY <2>1, <2>3, <2>4 DEF RowsOk
<1>7. \A l \in Editors : edit[l].graph \in VersionGraphs
  BY <1>0 DEF Editing
<1>8. \A l \in Editors : Goes(edit[l], versions', graphVersions')
  <2> TAKE l \in Editors
  <2>1. Goes(edit[l], versions, graphVersions) /\ NameOf[edit[l].graph] \in Names
    BY <1>5, <1>7 DEF VersionIInv
  <2>2. versions[NameOf[edit[l].graph]] \subseteq versions'[NameOf[edit[l].graph]]
    BY <1>4, <2>1
  <2> QED BY <2>1, <2>2 DEF Goes, NumberRead, VersionIsNew
<1>9. CASE e = Version!NoEdit
  <2>1. /\ Goes(e, versions', graphVersions') /\ \A l \in Editors \ {h} : Apart(e, edit[l])
        /\ AllFound(e, graphVersions') /\ \A l \in Editors \ {h} : Alone(e, edit[l])
    BY <1>9, NoEditFits
  <2>2. ~overlap' => /\ ~overlap /\ OneFlag(graphVersions')
                     /\ \A l \in Editors \ {h} : AllFound(edit[l], graphVersions')
    BY DEF VersionIInv
  <2> QED BY <1>6, <1>8, <2>1, <2>2, RequestMoves
<1>10. CASE /\ e.pc = "count" /\ e.graph = edit[h].graph /\ e.version = edit[h].version
            /\ edit[h].version \notin versions[NameOf[edit[h].graph]]
  <2>1. m \notin versions[n] /\ e.version = m /\ NameOf[e.graph] = n
    BY <1>1, <1>2, <1>10
  <2>2. Goes(e, versions', graphVersions')
    <3>1. \A g \in VersionGraphs : NameOf[g] = n => \A v \in graphVersions[g] : v.version # m
      BY <2>1 DEF VersionIInv, RowsOk, Lineage
    <3> QED BY <1>4, <1>10, <2>1, <3>1 DEF Goes, NumberRead, VersionIsNew
  <2>3. \A l \in Editors \ {h} : Apart(e, edit[l])
    <3>1. \A l \in Editors : VersionIsNew(edit[l], versions, graphVersions)
      BY DEF VersionIInv, Goes
    <3> QED BY <2>1, <3>1 DEF Apart, VersionIsNew
  <2>4. ~overlap' => /\ ~overlap /\ OneFlag(graphVersions') /\ AllFound(e, graphVersions')
                     /\ \A l \in Editors \ {h} : AllFound(edit[l], graphVersions') /\ Alone(e, edit[l])
    BY <1>10 DEF VersionIInv, AllFound, Alone
  <2> QED BY <1>6, <1>8, <2>2, <2>3, <2>4, RequestMoves
<1> QED BY <1>9, <1>10

\* A strategy version is created with the next number, or meets the unique key.
LEMMA VersionsKeep ==
  ASSUME VersionIInv, NEW h \in Editors, Version!CreateVersion(h) \/ Version!AssistantVersion(h)
  PROVE  VersionIInv'
<1>0. edit \in [Editors -> Editing] /\ edit[h] \in Editing
  BY DEF VersionIInv, RowsOk, VersionShape
<1>1. /\ edit[h].pc = "version" /\ UNCHANGED <<graphVersions, overlap>>
      /\ versions' = [versions EXCEPT ![NameOf[edit[h].graph]] = @ \cup {edit[h].version}]
  BY DEF Version!CreateVersion, Version!AssistantVersion, Version!At, Version!Name
<1>2. CASE edit' = [edit EXCEPT ![h] = Version!NoEdit]
  BY <1>1, <1>2, NoEditFits, VersionAdded
<1>3. CASE /\ edit' = [edit EXCEPT ![h].pc = "count"]
           /\ edit[h].version \notin versions[NameOf[edit[h].graph]]
  <2> DEFINE e == [edit[h] EXCEPT !.pc = "count"]
  <2>1. e \in Editing /\ e.pc = "count" /\ e.graph = edit[h].graph /\ e.version = edit[h].version
    BY <1>0 DEF Editing
  <2>2. edit' = [edit EXCEPT ![h] = e]
    BY <1>0, <1>3
  <2> HIDE DEF e
  <2> QED BY <1>1, <1>3, <2>1, <2>2, VersionAdded
<1> QED BY <1>2, <1>3 DEF Version!CreateVersion, Version!AssistantVersion, Version!Reply, Version!Goto,
        Version!Name

\* A graph version is created of the strategy version that was created for it.
LEMMA GraphVersionKeeps ==
  ASSUME VersionIInv, NEW h \in Editors, Version!CreateGraphVersion(h)
  PROVE  VersionIInv'
<1>0. VersionShape /\ edit \in [Editors -> Editing] /\ edit[h] \in Editing /\ edit[h].pc = "link"
  BY DEF VersionIInv, RowsOk, VersionShape, Version!CreateGraphVersion, Version!At
<1>1. UNCHANGED <<versions, overlap>> /\ overlap' \in BOOLEAN /\ edit' = [edit EXCEPT ![h] = Version!NoEdit]
  BY <1>0 DEF Version!CreateGraphVersion, Version!Reply, VersionShape
<1> DEFINE g == edit[h].graph
           r == [number |-> edit[h].number, version |-> edit[h].version, baseline |-> FALSE]
<1>2. g \in VersionGraphs /\ r \in Row
  BY <1>0 DEF Editing, Row
<1>3. r.number = edit[h].number /\ r.version = edit[h].version /\ r.baseline = FALSE
  OBVIOUS
<1>4. \/ graphVersions' = graphVersions
      \/ /\ r.number \notin NumbersOf(graphVersions[g])
         /\ graphVersions' = [graphVersions EXCEPT ![g] = @ \cup {r}]
  <2>1. graphVersions' = [graphVersions EXCEPT ![g] = @ \cup
          (IF edit[h].number \in NumbersOf(graphVersions[g]) THEN {} ELSE {r})]
    BY DEF Version!CreateGraphVersion, Version!Numbers, NumbersOf
  <2> QED BY <1>0, <2>1 DEF VersionShape
<1>5. Goes(edit[h], versions, graphVersions)
  BY DEF VersionIInv
<1> HIDE DEF r
<1>6. CASE graphVersions' = graphVersions
  BY <1>1, <1>6, NoEditFits, RequestReads
<1>7. CASE /\ r.number \notin NumbersOf(graphVersions[g])
           /\ graphVersions' = [graphVersions EXCEPT ![g] = @ \cup {r}]
  <2>1. /\ graphVersions' \in [VersionGraphs -> SUBSET Row]
        /\ graphVersions'[g] = graphVersions[g] \cup {r}
        /\ \A l \in VersionGraphs : l # g => graphVersions'[l] = graphVersions[l]
    BY <1>0, <1>2, <1>7 DEF VersionShape
  <2>2. NumbersOf(graphVersions'[g]) = NumbersOf(graphVersions[g]) \cup {r.number}
    BY <2>1 DEF NumbersOf
  <2>3. r.number \in Nat \ {0} /\ 1..(r.number - 1) \subseteq NumbersOf(graphVersions[g])
    BY <1>0, <1>3, <1>5 DEF Goes, NumberRead
  <2>4. Numbered'
    <3>1. Dense(NumbersOf(graphVersions'[g]))
      BY <1>2, <2>2, <2>3, NextIsDense DEF VersionIInv, RowsOk, Numbered
    <3>2. \A v, w \in graphVersions'[g] : v.number = w.number => v = w
      <4>1. \A v \in graphVersions[g] : v.number # r.number
        BY <1>7 DEF NumbersOf
      <4>2. \A v, w \in graphVersions[g] : v.number = w.number => v = w
        BY <1>2 DEF VersionIInv, RowsOk, Numbered
      <4> QED BY <2>1, <4>1, <4>2
    <3> QED BY <1>1, <2>1, <3>1, <3>2 DEF VersionIInv, RowsOk, Numbered
  <2>5. Lineage'
    <3>1. \A l \in VersionGraphs : NameOf[l] = NameOf[g] => \A v \in graphVersions[l] : v.version # r.version
      BY <1>0, <1>3, <1>5 DEF Goes, VersionIsNew
    <3>2. r.version \in versions[NameOf[g]]
      BY <1>0, <1>3, <1>5 DEF Goes, VersionIsNew
    <3>3. \A l \in VersionGraphs : \A v \in graphVersions'[l] : v \in graphVersions[l] \/ (l = g /\ v = r)
      BY <2>1
    <3>4. \A l \in VersionGraphs : \A v \in graphVersions'[l] : v.version \in versions'[NameOf[l]]
      BY <1>1, <3>2, <3>3 DEF VersionIInv, RowsOk, Lineage
    <3>5. Version!OneGraphVersionEach'
      <4> SUFFICES ASSUME NEW l \in VersionGraphs, NEW k \in VersionGraphs, NameOf[l] = NameOf[k],
                          NEW v \in graphVersions'[l], NEW w \in graphVersions'[k], v.version = w.version
                   PROVE  l = k /\ v.number = w.number
        BY DEF Version!OneGraphVersionEach
      <4>1. CASE v \in graphVersions[l] /\ w \in graphVersions[k]
        BY <4>1 DEF VersionIInv, RowsOk, Lineage, Version!OneGraphVersionEach
      <4>2. CASE l = g /\ v = r /\ w \in graphVersions[k]
        BY <4>2, <3>1
      <4>3. CASE v \in graphVersions[l] /\ k = g /\ w = r
        BY <4>3, <3>1
      <4>4. CASE l = g /\ v = r /\ k = g /\ w = r
        BY <4>4
      <4> QED BY <3>3, <4>1, <4>2, <4>3, <4>4
    <3> QED BY <3>4, <3>5 DEF Lineage
  <2>6. RowsOk'
    BY <1>0, <1>1, <2>1, <2>4, <2>5, NoEditFits DEF RowsOk, VersionShape
  <2>7. \A l \in Editors \ {h} : Goes(edit[l], versions', graphVersions')
    <3> TAKE l \in Editors \ {h}
    <3>1. Goes(edit[l], versions, graphVersions) /\ Apart(edit[h], edit[l])
          /\ edit[l].graph \in VersionGraphs
      BY <1>0 DEF VersionIInv, Editing
    <3>2. NumbersOf(graphVersions[edit[l].graph]) \subseteq NumbersOf(graphVersions'[edit[l].graph])
      BY <2>1, <2>2, <3>1
    <3>3. VersionIsNew(edit[l], versions', graphVersions')
      BY <1>0, <1>1, <1>3, <2>1, <3>1 DEF Goes, VersionIsNew, Apart
    <3> QED BY <1>1, <3>1, <3>2, <3>3 DEF Goes, NumberRead
  <2>8. \A l \in VersionGraphs : \A i \in Nat : Flagged(graphVersions', l, i) => Flagged(graphVersions, l, i)
    BY <1>3, <2>1 DEF Flagged
  <2>9. ~overlap => OneFlag(graphVersions') /\ \A l \in Editors : AllFound(edit[l], graphVersions')
    BY <2>8 DEF VersionIInv, OneFlag, AllFound
  <2> QED BY <1>1, <2>6, <2>7, <2>9, NoEditFits, RequestMoves
<1> QED BY <1>4, <1>6, <1>7

\* Writing a flag to one number changes nothing else of the rows.
Flag(v, i, flag) == IF v.number = i THEN [v EXCEPT !.baseline = flag] ELSE v
LEMMA FlagOf ==
  ASSUME NEW v \in Row, NEW i, NEW flag \in BOOLEAN
  PROVE  /\ Flag(v, i, flag) \in Row /\ Flag(v, i, flag).number = v.number
         /\ Flag(v, i, flag).version = v.version
         /\ v.number # i => Flag(v, i, flag) = v
         /\ v.number = i => Flag(v, i, flag).baseline = flag
BY DEF Flag, Row

\* SetBaseline changes flags only, and no other's.
LEMMA FlagSet ==
  ASSUME RowsOk, NEW g \in VersionGraphs, NEW i \in Nat, NEW flag \in BOOLEAN,
         Version!SetBaseline(g, i, flag), versions' = versions
  PROVE  /\ graphVersions' \in [VersionGraphs -> SUBSET Row] /\ Numbered' /\ Lineage'
         /\ \A l \in VersionGraphs :
              /\ NumbersOf(graphVersions'[l]) = NumbersOf(graphVersions[l])
              /\ \A w \in graphVersions'[l] : \E v \in graphVersions[l] : w.version = v.version
              /\ \A j \in Nat : Flagged(graphVersions', l, j) =>
                   \/ Flagged(graphVersions, l, j) /\ ~(l = g /\ j = i)
                   \/ flag = TRUE /\ l = g /\ j = i
<1> DEFINE F(v) == Flag(v, i, flag)
<1>0. graphVersions \in [VersionGraphs -> SUBSET Row]
  BY DEF RowsOk, VersionShape
<1>1. graphVersions' = [graphVersions EXCEPT ![g] = {F(v) : v \in @}]
  BY DEF Version!SetBaseline, Flag
<1>2. \A v \in graphVersions[g] : /\ v \in Row /\ F(v) \in Row /\ F(v).number = v.number
                                  /\ F(v).version = v.version
                                  /\ v.number # i => F(v) = v
                                  /\ v.number = i => F(v).baseline = flag
  BY <1>0, FlagOf
<1> HIDE DEF F
<1>3. /\ graphVersions'[g] = {F(v) : v \in graphVersions[g]}
      /\ \A l \in VersionGraphs : l # g => graphVersions'[l] = graphVersions[l]
  BY <1>0, <1>1
<1>4. graphVersions' \in [VersionGraphs -> SUBSET Row]
  BY <1>0, <1>1, <1>2
<1>5. NumbersOf(graphVersions'[g]) = NumbersOf(graphVersions[g])
  BY <1>2, <1>3 DEF NumbersOf
<1>6. \A w \in graphVersions'[g] : \E v \in graphVersions[g] : w = F(v) /\ w.version = v.version
  BY <1>2, <1>3
<1>7. Numbered'
  <2>1. \A v, w \in graphVersions'[g] : v.number = w.number => v = w
    BY <1>2, <1>3 DEF RowsOk, Numbered
  <2> QED BY <1>3, <1>5, <2>1 DEF RowsOk, Numbered
<1>8. \A l \in VersionGraphs : \A w \in graphVersions'[l] :
        \E v \in graphVersions[l] : w.version = v.version /\ w.number = v.number
  BY <1>2, <1>3
<1>9. Lineage'
  BY <1>8 DEF RowsOk, Lineage, Version!OneGraphVersionEach
<1>10. ASSUME NEW j \in Nat, Flagged(graphVersions', g, j)
       PROVE  (Flagged(graphVersions, g, j) /\ j # i) \/ (flag = TRUE /\ j = i)
  <2>1. PICK v \in graphVersions[g] : F(v).number = j /\ F(v).baseline
    BY <1>3, <1>10 DEF Flagged
  <2>2. CASE j # i
    BY <1>2, <2>1, <2>2 DEF Flagged
  <2>3. CASE j = i
    BY <1>2, <2>1, <2>3
  <2> QED BY <2>2, <2>3
<1>11. \A l \in VersionGraphs : \A j \in Nat : l # g /\ Flagged(graphVersions', l, j) => Flagged(graphVersions, l, j)
  BY <1>3 DEF Flagged
<1> QED BY <1>3, <1>4, <1>5, <1>7, <1>8, <1>9, <1>10, <1>11

\* A baseline request that sets a flag, or takes one away, and goes on as e.
LEMMA FlagKeeps ==
  ASSUME VersionIInv, NEW h \in Editors, NEW e \in Editing, edit' = [edit EXCEPT ![h] = e],
         NEW g \in VersionGraphs, NEW i \in Nat, NEW flag \in BOOLEAN, Version!SetBaseline(g, i, flag),
         UNCHANGED <<versions, overlap>>, e = Version!NoEdit \/ e.pc = "clear",
         \A l \in Editors \ {h} : Alone(edit[h], edit[l]) => Alone(e, edit[l]),
         ~overlap => /\ OneFlag(graphVersions') /\ AllFound(e, graphVersions')
                     /\ \A l \in Editors \ {h} : AllFound(edit[l], graphVersions')
  PROVE  VersionIInv'
<1>0. RowsOk /\ VersionShape /\ versions' = versions
  BY DEF VersionIInv, RowsOk
<1>1. /\ graphVersions' \in [VersionGraphs -> SUBSET Row] /\ Numbered' /\ Lineage'
      /\ \A l \in VersionGraphs :
           /\ NumbersOf(graphVersions'[l]) = NumbersOf(graphVersions[l])
           /\ \A w \in graphVersions'[l] : \E v \in graphVersions[l] : w.version = v.version
  BY <1>0, FlagSet, Zenon
<1>2. RowsOk'
  BY <1>0, <1>1 DEF RowsOk, VersionShape
<1>3. \A l \in Editors : Goes(edit[l], versions', graphVersions')
  <2> TAKE l \in Editors
  <2>1. Goes(edit[l], versions, graphVersions) /\ edit[l].graph \in VersionGraphs
    BY <1>0 DEF VersionIInv, VersionShape, Editing
  <2>2. VersionIsNew(edit[l], versions', graphVersions')
    BY <1>0, <1>1, <2>1 DEF Goes, VersionIsNew
  <2> QED BY <1>0, <1>1, <2>1, <2>2 DEF Goes, NumberRead
<1>4. Goes(e, versions', graphVersions') /\ \A l \in Editors \ {h} : Apart(e, edit[l])
  BY NoEditFits DEF Goes, NumberRead, VersionIsNew, Apart
<1>5. ~overlap' => /\ ~overlap /\ OneFlag(graphVersions') /\ AllFound(e, graphVersions')
                   /\ \A l \in Editors \ {h} : AllFound(edit[l], graphVersions') /\ Alone(e, edit[l])
  BY DEF VersionIInv
<1> QED BY <1>2, <1>3, <1>4, <1>5, RequestMoves

\* A flag taken away leaves no more of them than there were.
LEMMA FewerFlags ==
  ASSUME RowsOk, NEW g \in VersionGraphs, NEW i \in Nat, Version!SetBaseline(g, i, FALSE), versions' = versions
  PROVE  /\ \A l \in VersionGraphs : \A j \in Nat :
              Flagged(graphVersions', l, j) => Flagged(graphVersions, l, j) /\ ~(l = g /\ j = i)
         /\ OneFlag(graphVersions) => OneFlag(graphVersions')
         /\ \A e : AllFound(e, graphVersions) => AllFound(e, graphVersions')
<1>1. \A l \in VersionGraphs : \A j \in Nat :
        Flagged(graphVersions', l, j) => Flagged(graphVersions, l, j) /\ ~(l = g /\ j = i)
  BY FlagSet
<1> QED BY <1>1 DEF OneFlag, AllFound

\* Flags are cleared one by one, then the new one is set.
LEMMA BaselinesKeep ==
  ASSUME VersionIInv, NEW h \in Editors,
         \/ Version!BaselineUnset(h) \/ Version!BaselineSet(h)
         \/ \E target \in edit[h].found : Version!BaselineClear(h, target)
  PROVE  VersionIInv'
<1>0. RowsOk /\ VersionShape /\ edit \in [Editors -> Editing] /\ edit[h] \in Editing
  BY DEF VersionIInv, RowsOk, VersionShape
<1>1. UNCHANGED <<versions, overlap>> /\ versions' = versions
  BY DEF Version!BaselineUnset, Version!BaselineSet, Version!BaselineClear
<1>2. CASE Version!BaselineUnset(h)
  <2>1. PICK g \in VersionGraphs, i \in Nat : g = edit[h].graph /\ i = edit[h].number
    BY <1>0 DEF Editing
  <2>2. Version!SetBaseline(g, i, FALSE) /\ edit' = [edit EXCEPT ![h] = Version!NoEdit]
    BY <1>2, <2>1 DEF Version!BaselineUnset, Version!Reply
  <2>3. ~overlap => /\ OneFlag(graphVersions') /\ AllFound(Version!NoEdit, graphVersions')
                    /\ \A l \in Editors \ {h} : AllFound(edit[l], graphVersions')
    BY <1>0, <1>1, <2>2, NoEditFits, FewerFlags DEF VersionIInv
  <2> QED BY <1>1, <2>2, <2>3, NoEditFits, FlagKeeps
<1>3. ASSUME NEW target \in edit[h].found, Version!BaselineClear(h, target) PROVE VersionIInv'
  <2>1. PICK g \in VersionGraphs, i \in Nat : g = target[1] /\ i = target[2] /\ target = <<g, i>>
    BY <1>0, <1>3 DEF Editing, GraphNumbers
  <2>2. /\ Version!SetBaseline(g, i, FALSE) /\ edit[h].pc = "clear"
        /\ edit' = [edit EXCEPT ![h].found = @ \ {target}]
    BY <1>3, <2>1 DEF Version!BaselineClear, Version!At
  <2> DEFINE e == [edit[h] EXCEPT !.found = @ \ {target}]
  <2>3. e \in Editing /\ e.pc = "clear" /\ e.graph = edit[h].graph /\ e.found = edit[h].found \ {target}
    BY <1>0, <2>2 DEF Editing
  <2>4. edit' = [edit EXCEPT ![h] = e]
    BY <1>0, <2>2
  <2> HIDE DEF e
  <2>5. \A l \in VersionGraphs : \A j \in Nat :
          Flagged(graphVersions', l, j) => Flagged(graphVersions, l, j) /\ <<l, j>> # target
    <3>1. \A l \in VersionGraphs : \A j \in Nat :
            Flagged(graphVersions', l, j) => Flagged(graphVersions, l, j) /\ ~(l = g /\ j = i)
      BY <1>0, <1>1, <2>2, FewerFlags
    <3>2. \A l, j : <<l, j>> = target => l = g /\ j = i
      BY <2>1
    <3> QED BY <3>1, <3>2
  <2>6. AllFound(edit[h], graphVersions) => AllFound(e, graphVersions')
    BY <2>2, <2>3, <2>5 DEF AllFound
  <2>7. ~overlap => /\ OneFlag(graphVersions') /\ AllFound(e, graphVersions')
                    /\ \A l \in Editors \ {h} : AllFound(edit[l], graphVersions')
    BY <1>0, <1>1, <2>2, <2>6, FewerFlags DEF VersionIInv
  <2>8. \A l \in Editors \ {h} : Alone(edit[h], edit[l]) => Alone(e, edit[l])
    BY <2>2, <2>3 DEF Alone
  <2> QED BY <1>1, <2>2, <2>3, <2>4, <2>7, <2>8, FlagKeeps
<1>4. CASE Version!BaselineSet(h)
  <2>1. PICK g \in VersionGraphs, i \in Nat : g = edit[h].graph /\ i = edit[h].number
    BY <1>0 DEF Editing
  <2>2. /\ Version!SetBaseline(g, i, TRUE) /\ edit' = [edit EXCEPT ![h] = Version!NoEdit]
        /\ edit[h].pc = "clear" /\ edit[h].found = {}
    BY <1>4, <2>1 DEF Version!BaselineSet, Version!Reply, Version!At
  <2>3. \A l \in VersionGraphs : \A j \in Nat :
          Flagged(graphVersions', l, j) => Flagged(graphVersions, l, j) \/ (l = g /\ j = i)
    BY <1>0, <1>1, <2>2, FlagSet
  <2>4. ASSUME ~overlap
        PROVE  /\ OneFlag(graphVersions') /\ AllFound(Version!NoEdit, graphVersions')
               /\ \A l \in Editors \ {h} : AllFound(edit[l], graphVersions')
    <3>1. \A l \in VersionGraphs : \A j \in Nat : NameOf[l] = NameOf[g] => ~Flagged(graphVersions, l, j)
      BY <2>1, <2>2, <2>4 DEF VersionIInv, AllFound
    <3>2. OneFlag(graphVersions')
      BY <2>3, <2>4, <3>1 DEF VersionIInv, OneFlag
    <3>3. \A l \in Editors \ {h} : AllFound(edit[l], graphVersions) /\ Alone(edit[h], edit[l])
      BY <2>4 DEF VersionIInv
    <3>4. \A l \in Editors \ {h} : AllFound(edit[l], graphVersions')
      BY <2>1, <2>2, <2>3, <3>3 DEF AllFound, Alone
    <3> QED BY <3>2, <3>4, NoEditFits
  <2> QED BY <1>1, <2>2, <2>4, NoEditFits, FlagKeeps
<1> QED BY <1>2, <1>3, <1>4

\* Every step of the editors' requests keeps their invariant.
LEMMA VersionStep == VersionIInv /\ [Version!Next]_versionVars => VersionIInv'
<1> SUFFICES ASSUME VersionIInv, [Version!Next]_versionVars PROVE VersionIInv'
  OBVIOUS
<1>1. CASE UNCHANGED versionVars
  BY <1>1 DEF versionVars, VersionIInv, RowsOk, VersionShape, Numbered, Lineage, Version!OneGraphVersionEach
<1>2. ASSUME NEW h \in Editors,
             \/ \E g \in VersionGraphs : \/ Version!CompileStart(h, g)
                                         \/ \E v \in graphVersions[g] : Version!BaselineRead(h, g, v)
             \/ Version!CreateStrategy(h) \/ Version!CompileFails(h) \/ Version!FindLatestVersion(h)
             \/ Version!CreateVersion(h) \/ Version!CountGraphVersions(h) \/ Version!CreateGraphVersion(h)
             \/ Version!AssistantVersion(h)
             \/ Version!BaselineUnset(h) \/ Version!BaselineFindMany(h) \/ Version!BaselineSet(h)
             \/ \E target \in edit[h].found : Version!BaselineClear(h, target)
             \/ Version!RequestDies(h)
      PROVE  VersionIInv'
  BY <1>2, ReadsKeep, FindLatestKeeps, CountKeeps, BaselineReadKeeps, FindManyKeeps, VersionsKeep,
     GraphVersionKeeps, BaselinesKeep
<1> QED BY <1>1, <1>2 DEF Version!Next

\* Dense numbers are those up to how many there are.
LEMMA DenseCount == ASSUME NEW S, Dense(S) PROVE S = 1..Cardinality(S)
<1>1. PICK k \in Nat : S = 1..k
  BY DEF Dense
<1> QED BY <1>1, FS_Interval

\* The invariant gives dense versions, one graph version each, one baseline.
LEMMA VersionHolds ==
  VersionIInv => Version!VersionsDense /\ Version!OneGraphVersionEach /\ Version!OneBaseline
<1> SUFFICES ASSUME VersionIInv
             PROVE  Version!VersionsDense /\ Version!OneGraphVersionEach /\ Version!OneBaseline
  OBVIOUS
<1>1. \A n \in Names : versions[n] = 1..Cardinality(versions[n])
  BY DenseCount DEF VersionIInv, RowsOk, Numbered
<1>2. ASSUME NEW g \in VersionGraphs
      PROVE  Version!Numbers(g) = 1..Cardinality(graphVersions[g])
  <2>1. PICK k \in Nat : NumbersOf(graphVersions[g]) = 1..k
    BY DEF VersionIInv, RowsOk, Numbered, Dense
  <2>2. Cardinality(graphVersions[g]) = k
    BY <2>1, CountOfNumbers DEF VersionIInv, RowsOk, Numbered
  <2> QED BY <2>1, <2>2 DEF Version!Numbers, NumbersOf
<1>3. ASSUME ~overlap, NEW n \in Names
      PROVE  Cardinality(Version!Baselines(n)) <= 1
  <2> DEFINE B == Version!Baselines(n)
  <2>1. \A x, y \in B : x = y
    BY <1>3, BaselinesAre DEF VersionIInv, RowsOk, OneFlag
  <2> HIDE DEF B
  <2>2. CASE B = {}
    BY <2>2, FS_EmptySet DEF B
  <2>3. ASSUME NEW x \in B
        PROVE  Cardinality(B) = 1
    <3>1. B = {x}
      BY <2>1
    <3> QED BY <3>1, FS_Singleton
  <2> QED BY <2>2, <2>3 DEF B
<1> QED BY <1>1, <1>2, <1>3, VersionCount DEF VersionIInv, RowsOk, Lineage, Version!VersionsDense,
        Version!OneBaseline

-----------------------------------------------------------------------------
(* The jobs                                                                  *)

\* A set of naturals with a member has a least one.
LEMMA LeastNatural == \A S \in SUBSET Nat : S # {} => \E s \in S : \A u \in S : s <= u
<1> SUFFICES ASSUME NEW S \in SUBSET Nat, S # {}
             PROVE  \E s \in S : \A u \in S : s <= u
  OBVIOUS
<1> DEFINE R == {pair \in Nat \X Nat : pair[1] < pair[2]}
<1>1. IsWellFoundedOn(R, Nat)
  BY NatLessThanWellFounded DEF OpToRel
<1>2. \A u, s \in Nat : u < s => <<u, s>> \in R
  OBVIOUS
<1> HIDE DEF R
<1>3. PICK s \in S : \A u \in S : ~(<<u, s>> \in R)
  BY <1>1, WFMin
<1>4. \A u \in S : ~(u < s) /\ u \in Nat /\ s \in Nat
  BY <1>2, <1>3
<1> QED BY <1>4

\* Scores are compared by a strict order, with the missing ones below.
LEMMA AboveIsAnOrder ==
  \A a, b, c \in Job!Score :
    /\ ~Job!Above(a, a)
    /\ Job!Above(a, b) /\ ~Job!Above(c, b) => Job!Above(a, c) /\ ~Job!Above(c, a)
<1> SUFFICES ASSUME NEW a \in Job!Score, NEW b \in Job!Score, NEW c \in Job!Score
             PROVE  /\ ~Job!Above(a, a)
                    /\ Job!Above(a, b) /\ ~Job!Above(c, b) => Job!Above(a, c) /\ ~Job!Above(c, a)
  OBVIOUS
<1>1. \A x \in Job!Score : x # Null => x \in Int
  BY LabConstants DEF Job!Score
<1> QED BY <1>1 DEF Job!Above

\* m is the first of the best of the first n results.
FirstBest(results, n, m) ==
  /\ m \in 1..n
  /\ \A i \in 1..n : /\ ~Job!Above(results[i], results[m])
                     /\ i < m => Job!Above(results[m], results[i])

\* The first of the best of n results, and the next result, give that of n + 1.
LEMMA NextBest ==
  ASSUME NEW results \in Seq(Job!Score), NEW n \in Nat \ {0}, n < Len(results), NEW m, FirstBest(results, n, m)
  PROVE  FirstBest(results, n + 1,
                   IF Job!Above(results[n + 1], results[m]) THEN n + 1 ELSE m)
<1>0. m \in 1..n /\ \A i \in 1..(n + 1) : i \in 1..Len(results) /\ results[i] \in Job!Score
  BY DEF FirstBest
<1>1. CASE Job!Above(results[n + 1], results[m])
  <2>1. \A i \in 1..n : Job!Above(results[n + 1], results[i]) /\ ~Job!Above(results[i], results[n + 1])
    BY <1>0, <1>1, AboveIsAnOrder DEF FirstBest
  <2>2. ~Job!Above(results[n + 1], results[n + 1])
    BY <1>0, AboveIsAnOrder
  <2> QED BY <1>1, <2>1, <2>2 DEF FirstBest
<1>2. CASE ~Job!Above(results[n + 1], results[m])
  BY <1>0, <1>2 DEF FirstBest
<1> QED BY <1>1, <1>2

\* The fold over the results finds the first of the best.
LEMMA BestOfResults ==
  ASSUME NEW results \in Seq(Job!Score)
  PROVE  IF results = <<>> THEN Job!Best(results) = 0
         ELSE FirstBest(results, Len(results), Job!Best(results))
<1> DEFINE N == Len(results)
           Rec(g, n) == IF n <= 1 THEN n
                        ELSE IF Job!Above(results[n], results[g[n-1]]) THEN n ELSE g[n-1]
           Is(g, m) == g = [n \in 0..m |-> Rec(g, n)]
           f == CHOOSE g : Is(g, N)
<1>1. N \in Nat
  OBVIOUS
<1>2. Job!Best(results) = f[N]
  BY DEF Job!Best
<1> HIDE DEF f, N, Is
<1>3. \E g : Is(g, N)
  <2> SUFFICES ASSUME ~\E g : Is(g, N) PROVE FALSE
    OBVIOUS
  <2> DEFINE Bad == {m \in Nat : ~\E g : Is(g, m)}
  <2>1. Bad \in SUBSET Nat /\ Bad # {}
    BY <1>1
  <2>a. \A m \in Nat : m \in Bad <=> ~\E g : Is(g, m)
    OBVIOUS
  <2> HIDE DEF Bad
  <2>2. PICK m \in Nat : m \in Bad /\ \A u \in Bad : m <= u
    BY <2>1, LeastNatural
  <2>3. CASE m = 0
    <3> DEFINE h == [n \in 0..0 |-> n]
    <3>1. Is(h, 0)
      BY DEF Is
    <3> QED BY <2>2, <2>a, <2>3, <3>1
  <2>4. CASE m # 0
    <3>1. m - 1 \in Nat /\ m - 1 \notin Bad
      BY <2>2, <2>4
    <3>2. PICK g : Is(g, m - 1)
      BY <3>1, <2>a
    <3> DEFINE h == [n \in 0..m |-> IF n < m THEN g[n] ELSE Rec(g, m)]
    <3>3. \A n \in 0..m : h[n] = IF n < m THEN g[n] ELSE Rec(g, m)
      OBVIOUS
    <3>4. \A n \in 0..(m - 1) : g[n] = Rec(g, n)
      BY <3>2 DEF Is
    <3>5. \A n \in 0..m : h[n] = Rec(g, n)
      BY <2>2, <3>3, <3>4
    <3>6. DOMAIN h = 0..m /\ h = [n \in 0..m |-> h[n]]
      OBVIOUS
    <3> HIDE DEF h
    <3>7. \A n \in 0..m : h[n] = Rec(h, n)
      <4> TAKE n \in 0..m
      <4>1. n > 1 => n - 1 \in 0..m /\ n - 1 < m
        BY <2>2
      <4>2. n > 1 => h[n - 1] = g[n - 1]
        BY <3>3, <4>1
      <4> QED BY <2>2, <3>5, <4>2
    <3>8. Is(h, m)
      BY <3>6, <3>7 DEF Is
    <3> QED BY <2>2, <2>a, <3>8
  <2> QED BY <2>3, <2>4
<1>4. Is(f, N)
  BY <1>3 DEF f
<1>5. \A n \in 0..N : f[n] = Rec(f, n)
  BY <1>4 DEF Is
<1>6. \A n \in 1..N : FirstBest(results, n, f[n])
  <2> SUFFICES ASSUME \E n \in 1..N : ~FirstBest(results, n, f[n]) PROVE FALSE
    OBVIOUS
  <2> DEFINE Bad == {n \in 1..N : ~FirstBest(results, n, f[n])}
  <2>1. Bad \in SUBSET Nat /\ Bad # {}
    BY <1>1
  <2>2. PICK n \in 1..N : n \in Bad /\ \A u \in Bad : n <= u
    BY <2>1, LeastNatural
  <2>3. CASE n = 1
    <3>1. f[1] = 1
      BY <1>1, <1>5, <2>2, <2>3
    <3>2. results[1] \in Job!Score
      BY <1>1, <2>2, <2>3 DEF N
    <3> QED BY <2>2, <2>3, <3>1, <3>2, AboveIsAnOrder DEF FirstBest
  <2>4. CASE n # 1
    <3>1. PICK k \in Nat \ {0} : n = k + 1 /\ k \in 1..N
      BY <1>1, <2>2, <2>4
    <3>2. FirstBest(results, k, f[k])
      BY <2>2, <3>1
    <3>3. f[n] = IF Job!Above(results[k + 1], results[f[k]]) THEN k + 1 ELSE f[k]
      BY <1>1, <1>5, <2>2, <2>4, <3>1
    <3>4. k < Len(results)
      BY <1>1, <2>2, <3>1 DEF N
    <3>5. FirstBest(results, n, f[n])
      BY <3>1, <3>2, <3>3, <3>4, NextBest
    <3> QED BY <2>2, <3>5
  <2> QED BY <2>3, <2>4
<1>7. CASE results = <<>>
  <2>1. N = 0
    BY <1>7 DEF N
  <2> QED BY <1>2, <1>5, <1>7, <2>1
<1>8. CASE results # <<>>
  <2>1. N \in 1..N
    BY <1>1, <1>8 DEF N
  <2> QED BY <1>2, <1>6, <1>8, <2>1 DEF N
<1> QED BY <1>7, <1>8

JobRow == [kind : Job!Kinds \cup {"none"}, status : Job!Statuses, progress : Int,
           results : Seq(Job!Score), best : Int]
RunnerAt == {"none", "start", "combination", "run", "finish", "catch"}
JobShape ==
  /\ job \in [Jobs -> JobRow] /\ runner \in [Jobs -> RunnerAt] /\ writes \in [Jobs -> SUBSET Int]
  /\ request \in [Posts -> Job!Kinds \cup {"idle", "guardSweep", "guardWf"}] /\ rush \in BOOLEAN
\* A runner is of an active job; a sweep sends no write it does not wait for,
\* and is DONE with every combination and the first of the best.
SweepDone(r) ==
  r.status = "DONE" =>
    /\ Len(r.results) = RunCount
    /\ r.results # <<>> => FirstBest(r.results, Len(r.results), r.best)
RowKept(r, at, sent) ==
  /\ r.kind = "none" => at = "none"
  /\ at # "none" => r.status \in {"PENDING", "RUNNING"}
  /\ r.kind # "walkForward" => sent = {}
  /\ r.kind = "sweep" => at \notin {"run", "finish"} /\ r.progress = Len(r.results) /\ SweepDone(r)
RowsKept == \A j \in Jobs : RowKept(job[j], runner[j], writes[j])
\* While no guarded request met another, there is one, and what it counted holds.
ActiveIn(rows, kind) == {j \in Jobs : rows[j].kind = kind /\ rows[j].status \in {"PENDING", "RUNNING"}}
Count(rows, kind) == Cardinality(ActiveIn(rows, kind))
Admitted ==
  ~rush =>
    /\ Count(job, "sweep") <= 2 /\ Count(job, "walkForward") <= 2
    /\ \A h \in Posts : /\ request[h] = "sweep" => Count(job, "sweep") <= 1
                        /\ request[h] = "walkForward" => Count(job, "walkForward") <= 1
    /\ \A h, l \in Posts : h # l => ~(request[h] \in Job!Guarded /\ request[l] \in Job!Guarded)
JobIInv == JobShape /\ RowsKept /\ Admitted

\* The specification's cardinality is the library's.
LEMMA JobCount == \A S : Job!Cardinality(S) = Cardinality(S)
BY DEF Job!Cardinality, Cardinality

\* The active jobs of a kind are a finite set.
LEMMA ActiveCount ==
  /\ \A kind : Job!Active(kind) = ActiveIn(job, kind)
  /\ \A rows, kind : IsFiniteSet(ActiveIn(rows, kind)) /\ Count(rows, kind) \in Nat
<1>1. \A kind : Job!Active(kind) = ActiveIn(job, kind)
  BY DEF Job!Active, ActiveIn
<1>2. ASSUME NEW rows, NEW kind
      PROVE  IsFiniteSet(ActiveIn(rows, kind)) /\ Count(rows, kind) \in Nat
  <2>1. ActiveIn(rows, kind) \in SUBSET Jobs
    BY DEF ActiveIn
  <2> QED BY <2>1, LabConstants, FS_Subset, FS_CardinalityType DEF Count
<1> QED BY <1>1, <1>2

\* No job that was not active becomes so: there are no more of its kind.
LEMMA NoMoreActive ==
  ASSUME NEW rows, NEW kind, NEW sows, ActiveIn(sows, kind) \subseteq ActiveIn(rows, kind)
  PROVE  Count(sows, kind) <= Count(rows, kind)
<1>1. ActiveIn(sows, kind) \in SUBSET ActiveIn(rows, kind)
  OBVIOUS
<1> QED BY <1>1, ActiveCount, FS_Subset DEF Count

\* No job was posted at first.
LEMMA JobInit == Job!Init => JobIInv
<1> SUFFICES ASSUME Job!Init PROVE JobIInv
  OBVIOUS
<1> USE DEF Job!Init
<1>1. JobShape
  <2>1. Job!NoJob \in JobRow
    BY DEF JobRow, Job!NoJob, Job!Kinds, Job!Statuses
  <2>2. job \in [Jobs -> JobRow]
    BY <2>1
  <2> QED BY <2>2 DEF JobShape, RunnerAt
<1>2. RowsKept
  BY DEF RowsKept, RowKept, Job!NoJob
<1>3. ActiveIn(job, "sweep") = {} /\ ActiveIn(job, "walkForward") = {}
  BY DEF ActiveIn, Job!NoJob
<1>4. Count(job, "sweep") = 0 /\ Count(job, "walkForward") = 0
  BY <1>3, FS_EmptySet DEF Count
<1>5. Admitted
  BY <1>4 DEF Admitted, Job!Guarded
<1> QED BY <1>1, <1>2, <1>5 DEF JobIInv

\* A step that makes no job active keeps what was admitted.
LEMMA AdmittedKeeps ==
  ASSUME Admitted, ActiveIn(job', "sweep") \subseteq ActiveIn(job, "sweep"),
         ActiveIn(job', "walkForward") \subseteq ActiveIn(job, "walkForward"),
         request' = request \/ request' = [h \in Posts |-> "idle"], rush' = rush
  PROVE  Admitted'
<1>1. Count(job', "sweep") <= Count(job, "sweep") /\ Count(job', "walkForward") <= Count(job, "walkForward")
  BY NoMoreActive
<1>2. /\ Count(job, "sweep") \in Nat /\ Count(job', "sweep") \in Nat
      /\ Count(job, "walkForward") \in Nat /\ Count(job', "walkForward") \in Nat
  BY ActiveCount
<1> QED BY <1>1, <1>2 DEF Admitted, Job!Guarded

\* A step of one job's runner: its row becomes r.
LEMMA RowMoves ==
  ASSUME JobIInv, NEW j \in Jobs, NEW r \in JobRow, NEW at \in RunnerAt, NEW sent \in SUBSET Int,
         job' = [job EXCEPT ![j] = r], runner' = [runner EXCEPT ![j] = at],
         writes' = [writes EXCEPT ![j] = sent], UNCHANGED <<request, rush>>,
         RowKept(r, at, sent), r.kind = job[j].kind,
         r.status \in {"PENDING", "RUNNING"} => job[j].status \in {"PENDING", "RUNNING"}
  PROVE  JobIInv'
<1>1. JobShape'
  BY DEF JobIInv, JobShape
<1>2. RowsKept'
  <2> SUFFICES ASSUME NEW k \in Jobs PROVE RowKept(job'[k], runner'[k], writes'[k])
    BY DEF RowsKept
  <2>1. IF k = j THEN job'[k] = r /\ runner'[k] = at /\ writes'[k] = sent
        ELSE job'[k] = job[k] /\ runner'[k] = runner[k] /\ writes'[k] = writes[k]
    BY DEF JobIInv, JobShape
  <2> QED BY <2>1 DEF JobIInv, RowsKept
<1>3. \A kind : ActiveIn(job', kind) \subseteq ActiveIn(job, kind)
  BY DEF JobIInv, JobShape, ActiveIn
<1>4. Admitted'
  BY <1>3, AdmittedKeeps DEF JobIInv
<1> QED BY <1>1, <1>2, <1>4 DEF JobIInv

\* A runner, its throw and a late write of progress keep the invariant.
LEMMA RunnersKeep ==
  ASSUME JobIInv, NEW j \in Jobs,
         \/ Job!Start(j) \/ Job!Throws(j) \/ Job!Catch(j) \/ Job!Combination(j) \/ Job!FinishSweep(j)
         \/ Job!Compute(j) \/ Job!Finish(j) \/ \E done \in writes[j] : Job!ProgressLands(j, done)
  PROVE  JobIInv'
<1> DEFINE x == job[j]
<1>1. /\ job \in [Jobs -> JobRow] /\ runner \in [Jobs -> RunnerAt] /\ writes \in [Jobs -> SUBSET Int]
      /\ x \in JobRow /\ RowKept(x, runner[j], writes[j])
  BY DEF JobIInv, JobShape, RowsKept
<1>2. UNCHANGED <<request, rush>>
  BY DEF Job!Start, Job!Throws, Job!Catch, Job!Combination, Job!FinishSweep, Job!Compute,
     Job!Finish, Job!ProgressLands
<1>3. x.kind \in Job!Kinds \cup {"none"} /\ x.status \in Job!Statuses /\ x.progress \in Int
      /\ x.results \in Seq(Job!Score) /\ x.best \in Int
  BY <1>1 DEF JobRow
<1>4. SUFFICES
        \E r \in JobRow, at \in RunnerAt, sent \in SUBSET Int :
          /\ job' = [job EXCEPT ![j] = r] /\ runner' = [runner EXCEPT ![j] = at]
          /\ writes' = [writes EXCEPT ![j] = sent]
          /\ RowKept(r, at, sent) /\ r.kind = x.kind
          /\ r.status \in {"PENDING", "RUNNING"} => x.status \in {"PENDING", "RUNNING"}
  BY <1>2, RowMoves
<1>5. CASE Job!Start(j)
  <2> DEFINE r == [x EXCEPT !.status = "RUNNING"]
             at == IF x.kind = "sweep" THEN "combination" ELSE "run"
  <2>1. /\ runner[j] = "start" /\ job' = [job EXCEPT ![j] = r] /\ runner' = [runner EXCEPT ![j] = at]
        /\ writes' = [writes EXCEPT ![j] = writes[j]]
    BY <1>1, <1>5 DEF Job!Start, Job!At, Job!Run
  <2>2. /\ r \in JobRow /\ r.status = "RUNNING" /\ r.kind = x.kind /\ r.progress = x.progress
        /\ r.results = x.results
    BY <1>1 DEF JobRow, Job!Statuses
  <2>3. at \in RunnerAt /\ at # "none" /\ (x.kind = "sweep" => at = "combination")
    BY DEF RunnerAt
  <2> HIDE DEF r, at, x
  <2>4. RowKept(r, at, writes[j])
    BY <1>1, <2>1, <2>2, <2>3 DEF RowKept, SweepDone
  <2> QED BY <1>1, <2>1, <2>2, <2>3, <2>4 DEF RowKept
<1>6. CASE Job!Throws(j)
  <2>1. /\ runner[j] \in {"start", "combination", "run", "finish"} /\ job' = [job EXCEPT ![j] = x]
        /\ runner' = [runner EXCEPT ![j] = "catch"] /\ writes' = [writes EXCEPT ![j] = writes[j]]
    BY <1>1, <1>6 DEF Job!Throws, Job!Run
  <2>2. "catch" \in RunnerAt
    BY DEF RunnerAt
  <2> HIDE DEF x
  <2>3. RowKept(x, "catch", writes[j])
    BY <1>1, <2>1 DEF RowKept
  <2> QED BY <1>1, <2>1, <2>2, <2>3
<1>7. CASE Job!Catch(j)
  <2>1. /\ runner[j] = "catch" /\ runner' = [runner EXCEPT ![j] = "none"]
        /\ writes' = [writes EXCEPT ![j] = writes[j]] /\ "none" \in RunnerAt
    BY <1>1, <1>7 DEF Job!Catch, Job!At, Job!Run, RunnerAt
  <2> DEFINE r == [x EXCEPT !.status = "FAILED"]
  <2>2. job' = [job EXCEPT ![j] = r] \/ job' = [job EXCEPT ![j] = x]
    BY <1>1, <1>7 DEF Job!Catch
  <2>3. /\ r \in JobRow /\ r.status = "FAILED" /\ r.kind = x.kind /\ r.progress = x.progress
        /\ r.results = x.results
    BY <1>1 DEF JobRow, Job!Statuses
  <2> HIDE DEF r, x
  <2>4. RowKept(r, "none", writes[j]) /\ RowKept(x, "none", writes[j])
    BY <1>1, <2>1, <2>3 DEF RowKept, SweepDone
  <2> QED BY <1>1, <2>1, <2>2, <2>3, <2>4
<1>8. CASE Job!Combination(j)
  <2>1. PICK s \in Job!Score :
          job' = [job EXCEPT ![j].results = Append(@, s), ![j].progress = Len(x.results) + 1]
    BY <1>8 DEF Job!Combination
  <2>a. PICK more \in Seq(Job!Score), n \in Int :
           more = Append(x.results, s) /\ n = Len(x.results) + 1 /\ Len(more) = n
    <3>1. x.results \in Seq(Job!Score)
      BY <1>3
    <3>2. \A q \in Seq(Job!Score) :
            Append(q, s) \in Seq(Job!Score) /\ Len(Append(q, s)) = Len(q) + 1 /\ Len(q) + 1 \in Int
      OBVIOUS
    <3> HIDE DEF x
    <3> QED BY <3>1, <3>2
  <2>b. job' = [job EXCEPT ![j].results = more, ![j].progress = n]
    BY <2>1, <2>a
  <2> DEFINE r == [x EXCEPT !.results = more, !.progress = n]
  <2>c. job' = [job EXCEPT ![j] = r]
    BY <1>1, <2>b
  <2>d. runner[j] = "combination" /\ runner' = runner /\ writes' = writes
    BY <1>8 DEF Job!Combination, Job!At
  <2>2. /\ runner[j] = "combination" /\ runner' = [runner EXCEPT ![j] = "combination"]
        /\ writes' = [writes EXCEPT ![j] = writes[j]] /\ "combination" \in RunnerAt
    BY <1>1, <2>d DEF RunnerAt
  <2>3. more \in Seq(Job!Score) /\ Len(more) = n /\ n \in Int
    BY <2>a
  <2>4. /\ r \in JobRow /\ r.status = x.status /\ r.kind = x.kind /\ r.progress = n
        /\ r.results = more
    BY <1>1, <2>3 DEF JobRow
  <2> HIDE DEF r, x
  <2>5. RowKept(r, "combination", writes[j])
    BY <1>1, <2>2, <2>3, <2>4 DEF RowKept, SweepDone
  <2> QED BY <1>1, <2>c, <2>2, <2>4, <2>5
<1>9. CASE Job!FinishSweep(j)
  <2>1. PICK best : best = Job!Best(x.results)
    OBVIOUS
  <2> DEFINE r == [x EXCEPT !.status = "DONE", !.best = best]
  <2>2. /\ runner[j] = "combination" /\ Len(x.results) = RunCount /\ job' = [job EXCEPT ![j] = r]
        /\ runner' = [runner EXCEPT ![j] = "none"]
        /\ writes' = [writes EXCEPT ![j] = writes[j]] /\ "none" \in RunnerAt
    BY <1>1, <1>9, <2>1 DEF Job!FinishSweep, Job!At, Job!Run, RunnerAt
  <2>3. best \in Int /\ (x.results # <<>> => FirstBest(x.results, Len(x.results), best))
    BY <1>3, <2>1, BestOfResults DEF FirstBest
  <2>4. /\ r \in JobRow /\ r.status = "DONE" /\ r.kind = x.kind /\ r.progress = x.progress
        /\ r.results = x.results /\ r.best = best
    BY <1>1, <2>3 DEF JobRow, Job!Statuses
  <2> HIDE DEF r, x
  <2>5. RowKept(r, "none", writes[j])
    BY <1>1, <2>2, <2>3, <2>4 DEF RowKept, SweepDone
  <2> QED BY <1>1, <2>2, <2>4, <2>5
<1>10. CASE Job!Compute(j)
  <2> DEFINE sent == IF x.kind = "walkForward" THEN 1..RunCount ELSE {}
  <2>1. /\ runner[j] = "run" /\ job' = [job EXCEPT ![j] = x] /\ runner' = [runner EXCEPT ![j] = "finish"]
        /\ writes' = [writes EXCEPT ![j] = sent] /\ "finish" \in RunnerAt
    BY <1>1, <1>10 DEF Job!Compute, Job!At, Job!Run, RunnerAt
  <2>2. sent \in SUBSET Int /\ (x.kind # "walkForward" => sent = {})
    BY LabConstants
  <2> HIDE DEF sent, x
  <2>3. RowKept(x, "finish", sent)
    BY <1>1, <2>1, <2>2 DEF RowKept
  <2> QED BY <1>1, <2>1, <2>2, <2>3
<1>11. CASE Job!Finish(j)
  <2> DEFINE r == [x EXCEPT !.status = "DONE", !.progress = RunCount]
  <2>1. /\ runner[j] = "finish" /\ job' = [job EXCEPT ![j] = r] /\ runner' = [runner EXCEPT ![j] = "none"]
        /\ writes' = [writes EXCEPT ![j] = writes[j]] /\ "none" \in RunnerAt
    BY <1>1, <1>11 DEF Job!Finish, Job!At, Job!Run, RunnerAt
  <2>a. RunCount \in Int
    BY LabConstants
  <2>2. r \in JobRow /\ r.status = "DONE" /\ r.kind = x.kind
    BY <1>1, <2>a DEF JobRow, Job!Statuses
  <2> HIDE DEF r, x
  <2>3. RowKept(r, "none", writes[j])
    BY <1>1, <2>1, <2>2 DEF RowKept
  <2> QED BY <1>1, <2>1, <2>2, <2>3
<1>12. ASSUME NEW done \in writes[j], Job!ProgressLands(j, done)
       PROVE  \E r \in JobRow, at \in RunnerAt, sent \in SUBSET Int :
                /\ job' = [job EXCEPT ![j] = r] /\ runner' = [runner EXCEPT ![j] = at]
                /\ writes' = [writes EXCEPT ![j] = sent]
                /\ RowKept(r, at, sent) /\ r.kind = x.kind
                /\ r.status \in {"PENDING", "RUNNING"} => x.status \in {"PENDING", "RUNNING"}
  <2> DEFINE r == [x EXCEPT !.progress = done]
             sent == writes[j] \ {done}
  <2>1. /\ job' = [job EXCEPT ![j] = r] /\ runner' = [runner EXCEPT ![j] = runner[j]]
        /\ writes' = [writes EXCEPT ![j] = sent]
    BY <1>1, <1>12 DEF Job!ProgressLands
  <2>2. done \in Int /\ sent \in SUBSET Int
    BY <1>1
  <2>3. r \in JobRow /\ r.status = x.status /\ r.kind = x.kind
    BY <1>1, <2>2 DEF JobRow
  <2>4. writes[j] # {}
    OBVIOUS
  <2> HIDE DEF r, x, sent
  <2>5. RowKept(r, runner[j], sent)
    BY <1>1, <2>3, <2>4 DEF RowKept
  <2> QED BY <1>1, <2>1, <2>2, <2>3, <2>5
<1> QED BY <1>5, <1>6, <1>7, <1>8, <1>9, <1>10, <1>11, <1>12

\* The requests that count jobs: two at once are a rush.
LEMMA GuardsKeep ==
  ASSUME JobIInv, NEW h \in Posts,
         \/ \E kind \in Job!Kinds : Job!PostJob(h, kind)
         \/ Job!GuardSweep(h) \/ Job!GuardWalkForward(h)
  PROVE  JobIInv'
<1>1. UNCHANGED <<job, runner, writes>> /\ RowsKept'
  BY DEF Job!PostJob, Job!GuardSweep, Job!GuardWalkForward, JobIInv, RowsKept
<1>2. PICK pc \in Job!Kinds \cup {"idle", "guardSweep", "guardWf"} :
         /\ request' = [request EXCEPT ![h] = pc]
         /\ pc = "sweep" => Job!GuardSweep(h) /\ Cardinality(Job!Active("sweep")) < 2
         /\ pc = "walkForward" =>
              /\ Job!GuardWalkForward(h)
              /\ Cardinality(Job!Active("sweep")) + Cardinality(Job!Active("walkForward")) < 2
         /\ pc \in Job!Guarded => request[h] \in Job!Guarded \/ (rush' = (rush \/ Job!Others(h)))
  <2>1. ASSUME NEW kind \in Job!Kinds, Job!PostJob(h, kind)
        PROVE  \E pc \in {"backtest", "guardSweep", "guardWf"} :
                 /\ request' = [request EXCEPT ![h] = pc]
                 /\ pc # "backtest" => (rush' = (rush \/ Job!Others(h)))
    BY <2>1 DEF Job!PostJob, Job!Goto, Job!Kinds
  <2>2. CASE Job!GuardSweep(h)
    <3>1. request[h] = "guardSweep"
          /\ (request' = [request EXCEPT ![h] = "idle"]
              \/ (request' = [request EXCEPT ![h] = "sweep"] /\ ~(Cardinality(Job!Active("sweep")) >= 2)))
      BY <2>2, JobCount DEF Job!GuardSweep, Job!Goto
    <3>2. Cardinality(Job!Active("sweep")) \in Nat
      BY ActiveCount DEF Count
    <3> QED BY <2>2, <3>1, <3>2 DEF Job!Kinds, Job!Guarded
  <2>3. CASE Job!GuardWalkForward(h)
    <3>1. request[h] = "guardWf"
          /\ (request' = [request EXCEPT ![h] = "idle"]
              \/ (request' = [request EXCEPT ![h] = "walkForward"]
                  /\ ~(Cardinality(Job!Active("sweep")) + Cardinality(Job!Active("walkForward")) >= 2)))
      BY <2>3, JobCount DEF Job!GuardWalkForward, Job!Goto
    <3>2. Cardinality(Job!Active("sweep")) \in Nat /\ Cardinality(Job!Active("walkForward")) \in Nat
      BY ActiveCount DEF Count
    <3> QED BY <2>3, <3>1, <3>2 DEF Job!Kinds, Job!Guarded
  <2> QED BY <2>1, <2>2, <2>3 DEF Job!Kinds, Job!Guarded
<1>3. rush' \in BOOLEAN /\ (~rush' => ~rush)
  BY DEF Job!PostJob, Job!GuardSweep, Job!GuardWalkForward, JobIInv, JobShape
<1>4. JobShape'
  BY <1>1, <1>2, <1>3 DEF JobIInv, JobShape
<1>5. ASSUME ~rush' PROVE Admitted'
  <2>1. /\ Count(job, "sweep") \in Nat /\ Count(job, "walkForward") \in Nat
        /\ Count(job', "sweep") = Count(job, "sweep") /\ Count(job', "walkForward") = Count(job, "walkForward")
    BY <1>1, ActiveCount
  <2>2. \A l \in Posts : request'[l] = IF l = h THEN pc ELSE request[l]
    BY <1>2 DEF JobIInv, JobShape
  <2>3. pc = "sweep" => Count(job, "sweep") <= 1
    BY <1>2, <2>1, ActiveCount DEF Count
  <2>4. pc = "walkForward" => Count(job, "walkForward") <= 1
    BY <1>2, <2>1, ActiveCount DEF Count
  <2>5. pc \in Job!Guarded => \A l \in Posts : l # h => request[l] \notin Job!Guarded
    BY <1>2, <1>3, <1>5 DEF JobIInv, Admitted, Job!Others
  <2> HIDE <1>2
  <2> QED BY <1>3, <1>5, <2>1, <2>2, <2>3, <2>4, <2>5 DEF JobIInv, Admitted
<1>6. rush' => Admitted'
  BY DEF Admitted
<1> QED BY <1>1, <1>4, <1>5, <1>6 DEF JobIInv

\* A job is created after its guard counted fewer than two.
LEMMA CreateKeeps == ASSUME JobIInv, NEW h \in Posts, Job!CreateJob(h) PROVE JobIInv'
<1>1. PICK j \in Jobs : job[j] = Job!NoJob /\ j = CHOOSE k \in Job!Free : TRUE
  BY DEF Job!CreateJob, Job!Free
<1>2. PICK kind \in Job!Kinds : kind = request[h]
  BY DEF Job!CreateJob
<1>3. /\ job' = [job EXCEPT ![j].kind = kind, ![j].status = "PENDING"]
      /\ runner' = [runner EXCEPT ![j] = "start"] /\ request' = [request EXCEPT ![h] = "idle"]
      /\ UNCHANGED <<writes, rush>>
  BY <1>1, <1>2 DEF Job!CreateJob, Job!Goto
<1>a. job \in [Jobs -> JobRow] /\ job[j] \in JobRow
  BY DEF JobIInv, JobShape
<1>b. /\ job[j].kind = "none" /\ job[j].status = "none" /\ job[j].progress = 0 /\ job[j].results = <<>>
  BY <1>1 DEF Job!NoJob
<1>c. kind \in Job!Kinds \cup {"none"} /\ "PENDING" \in Job!Statuses
  BY DEF Job!Statuses
<1> DEFINE r == [job[j] EXCEPT !.kind = kind, !.status = "PENDING"]
<1>4. /\ r \in JobRow /\ r.kind = kind /\ r.status = "PENDING" /\ r.progress = 0 /\ r.results = <<>>
      /\ job[j].kind = "none" /\ job[j].status = "none"
  BY <1>a, <1>b, <1>c DEF JobRow
<1>5. job' = [job EXCEPT ![j] = r]
  BY <1>3, <1>a
<1> HIDE DEF r
<1>6. JobShape'
  <2>1. job' \in [Jobs -> JobRow]
    BY <1>4, <1>5, <1>a
  <2>2. runner' \in [Jobs -> RunnerAt]
    BY <1>3 DEF JobIInv, JobShape, RunnerAt
  <2> QED BY <1>3, <2>1, <2>2 DEF JobIInv, JobShape
<1>7. RowsKept'
  <2>1. RowKept(job[j], runner[j], writes[j])
    BY DEF JobIInv, RowsKept
  <2>2. writes[j] = {}
    BY <1>4, <2>1 DEF RowKept
  <2>3. RowKept(r, "start", writes[j])
    BY <1>2, <1>4, <2>2 DEF RowKept, SweepDone, Job!Kinds
  <2> SUFFICES ASSUME NEW k \in Jobs PROVE RowKept(job'[k], runner'[k], writes'[k])
    BY DEF RowsKept
  <2>4. IF k = j THEN job'[k] = r /\ runner'[k] = "start" /\ writes'[k] = writes[j]
        ELSE job'[k] = job[k] /\ runner'[k] = runner[k] /\ writes'[k] = writes[k]
    BY <1>3, <1>5 DEF JobIInv, JobShape
  <2> QED BY <2>3, <2>4 DEF JobIInv, RowsKept
<1>8. ASSUME ~rush PROVE Admitted'
  <2>1. \A x : x # kind => ActiveIn(job', x) \subseteq ActiveIn(job, x)
    BY <1>4, <1>5 DEF JobIInv, JobShape, ActiveIn
  <2>2. ActiveIn(job', kind) = ActiveIn(job, kind) \cup {j}
    BY <1>4, <1>5 DEF JobIInv, JobShape, ActiveIn
  <2>3. Count(job', kind) <= Count(job, kind) + 1
    <3>1. IsFiniteSet(ActiveIn(job, kind)) /\ Count(job, kind) \in Nat
      BY ActiveCount
    <3>2. \A S, x : IsFiniteSet(S) /\ Cardinality(S) \in Nat => Cardinality(S \cup {x}) <= Cardinality(S) + 1
      BY FS_AddElement
    <3> QED BY <2>2, <3>1, <3>2 DEF Count
  <2>4. \A x : x # kind => Count(job', x) <= Count(job, x)
    BY <2>1, NoMoreActive
  <2>5. \A x : Count(job', x) \in Nat /\ Count(job, x) \in Nat
    BY ActiveCount
  <2>6. Count(job', "sweep") <= 2 /\ Count(job', "walkForward") <= 2
    BY <1>2, <1>8, <2>3, <2>4, <2>5 DEF JobIInv, Admitted
  <2>7. \A l \in Posts : request'[l] = IF l = h THEN "idle" ELSE request[l]
    BY <1>3 DEF JobIInv, JobShape
  <2>8. ASSUME NEW l \in Posts, request'[l] \in {"sweep", "walkForward"}
        PROVE  Count(job', request'[l]) <= 1
    <3>1. l # h /\ request[l] = request'[l] /\ request[l] \in Job!Guarded
      BY <2>7, <2>8 DEF Job!Guarded
    <3>2. kind \notin Job!Guarded
      BY <1>2, <1>8, <3>1 DEF JobIInv, Admitted
    <3>3. Count(job, request[l]) <= 1
      BY <1>8, <2>8, <3>1 DEF JobIInv, Admitted
    <3>4. Count(job', request[l]) <= Count(job, request[l])
      BY <2>4, <3>1, <3>2
    <3> QED BY <2>5, <3>1, <3>3, <3>4
  <2>9. \A l, k \in Posts : l # k => ~(request'[l] \in Job!Guarded /\ request'[k] \in Job!Guarded)
    BY <1>8, <2>7 DEF JobIInv, Admitted, Job!Guarded
  <2> QED BY <2>6, <2>8, <2>9 DEF Admitted
<1>9. rush' = rush
  BY <1>3
<1> QED BY <1>6, <1>7, <1>8, <1>9 DEF JobIInv, Admitted

\* Every step of the jobs keeps their invariant.
LEMMA JobStep == JobIInv /\ [Job!Next]_jobVars => JobIInv'
<1> SUFFICES ASSUME JobIInv, [Job!Next]_jobVars PROVE JobIInv'
  OBVIOUS
<1>1. CASE UNCHANGED jobVars
  BY <1>1 DEF jobVars, JobIInv, JobShape, RowsKept, Admitted
<1>2. CASE Job!ApiDies
  <2>1. /\ runner' = [j \in Jobs |-> "none"] /\ writes' = [j \in Jobs |-> {}]
        /\ request' = [h \in Posts |-> "idle"] /\ job' = job /\ rush' = rush
    BY <1>2 DEF Job!ApiDies
  <2>2. JobShape'
    BY <2>1 DEF JobIInv, JobShape, RunnerAt
  <2>3. RowsKept'
    BY <2>1 DEF JobIInv, RowsKept, RowKept
  <2>4. Admitted'
    BY <2>1, AdmittedKeeps DEF JobIInv
  <2> QED BY <2>2, <2>3, <2>4 DEF JobIInv
<1>3. ASSUME NEW h \in Posts,
             \/ \E kind \in Job!Kinds : Job!PostJob(h, kind)
             \/ Job!GuardSweep(h) \/ Job!GuardWalkForward(h) \/ Job!CreateJob(h)
      PROVE  JobIInv'
  BY <1>3, GuardsKeep, CreateKeeps
<1>4. ASSUME NEW j \in Jobs,
             \/ Job!Runner(j) \/ Job!Throws(j) \/ \E done \in writes[j] : Job!ProgressLands(j, done)
      PROVE  JobIInv'
  BY <1>4, RunnersKeep DEF Job!Runner
<1> QED BY <1>1, <1>2, <1>3, <1>4 DEF Job!Next

\* The invariant gives two jobs of a kind and whole sweeps.
LEMMA JobHolds == JobIInv => Job!TwoOfAKind /\ Job!SweepIsComplete
<1> SUFFICES ASSUME JobIInv PROVE Job!TwoOfAKind /\ Job!SweepIsComplete
  OBVIOUS
<1>1. Job!TwoOfAKind
  BY ActiveCount, JobCount DEF JobIInv, Admitted, Count, Job!TwoOfAKind
<1>2. Job!SweepIsComplete
  <2> SUFFICES ASSUME NEW j \in Jobs, job[j].kind = "sweep", job[j].status = "DONE"
               PROVE  /\ Len(job[j].results) = RunCount /\ job[j].progress = RunCount
                      /\ \A n \in 1..RunCount :
                           /\ ~Job!Above(job[j].results[n], job[j].results[job[j].best])
                           /\ n < job[j].best => Job!Above(job[j].results[job[j].best], job[j].results[n])
    BY DEF Job!SweepIsComplete
  <2>1. RowKept(job[j], runner[j], writes[j])
    BY DEF JobIInv, RowsKept
  <2>2. /\ Len(job[j].results) = RunCount /\ job[j].progress = RunCount
        /\ job[j].results # <<>> => FirstBest(job[j].results, RunCount, job[j].best)
    BY <2>1 DEF RowKept, SweepDone
  <2>3. job[j].results = <<>> => RunCount = 0
    BY <2>2
  <2> QED BY <2>2, <2>3 DEF FirstBest
<1> QED BY <1>1, <1>2

-----------------------------------------------------------------------------
(* The datasets                                                              *)

Candle == Int \X {"forming", "closed"}
FetchRow == [pc : {"idle", "insert", "read", "upsert", "answered"}, range : Ranges,
             fetched : SUBSET Candle, new : SUBSET Candle, read : SUBSET Candle]
TestRow == [pc : {"none", "pending", "read", "done"}, range : Ranges, bundle : BOOLEAN,
            hash : SUBSET Candle, report : SUBSET Candle]
DataRow == [status : {"none", "READY", "PARTIAL", "FAILED"}, hash : SUBSET Candle]
CacheRow == [kept : BOOLEAN, candles : SUBSET Candle]
DataShape ==
  /\ candles \in SUBSET Candle /\ dataset \in [Ranges -> DataRow] /\ cache \in [Ranges -> CacheRow]
  /\ fetching \in [Requests -> FetchRow] /\ backtest \in [Backtests -> TestRow]

OnePerTime(S) == \A c, d \in S : c[1] = d[1] => c = d
OtherTimes(S, T) == \A c \in S : \A d \in T : c[1] # d[1]
\* The candles S of range r are in cs as they were hashed, or purged.
Kept(S, r, cs, ps) == \A c \in S : (c \in cs \/ c[1] \in ps) /\ c[1] \in r.from..r.to
FetchOk(f, cs, ps) ==
  /\ OnePerTime(f.fetched) /\ f.new \subseteq f.fetched /\ OtherTimes(f.new, cs)
  /\ f.pc \notin {"read", "upsert"} => f.new = {}
  /\ f.pc = "upsert" => Kept(f.read, f.range, cs \cup f.new, ps)
ReportOfHash(x, ps) ==
  /\ x.pc \in {"read", "done"} /\ Data!TimesOf(x.hash) = x.range.from..x.range.to
  /\ ps \cap (x.range.from..x.range.to) = {}
  => x.report = x.hash
TestOk(x, cs, ps) == Kept(x.hash, x.range, cs, ps) /\ (x.bundle = FALSE => ReportOfHash(x, ps))

DataIInv ==
  /\ DataShape /\ OnePerTime(candles)
  /\ \A r \in Ranges : Kept(dataset[r].hash, r, candles, purged)
  /\ \A h \in Requests : FetchOk(fetching[h], candles, purged)
  /\ \A h, k \in Requests : h # k => OtherTimes(fetching[h].new, fetching[k].new)
  /\ \A b \in Backtests : TestOk(backtest[b], candles, purged)

\* The records of requests and backtests that have not begun.
LEMMA DataBlank ==
  /\ Data!Idle \in FetchRow /\ Data!Idle.pc = "idle" /\ Data!Idle.new = {} /\ Data!Idle.fetched = {}
  /\ Data!Answered \in FetchRow /\ Data!Answered.pc = "answered" /\ Data!Answered.new = {}
  /\ Data!Answered.fetched = {}
  /\ Data!NoBacktest \in TestRow /\ Data!NoBacktest.pc = "none" /\ Data!NoBacktest.hash = {}
  /\ Data!NoBacktest.bundle = FALSE /\ Data!NoBacktest.report = {}
  /\ Data!NotCached \in CacheRow /\ Data!Missing \in DataRow /\ Data!Missing.hash = {}
<1>1. (CHOOSE r \in Ranges : TRUE) \in Ranges
  BY LabConstants
<1>2. PICK r \in Ranges : r = CHOOSE q \in Ranges : TRUE
  BY <1>1
<1>3. /\ Data!Idle \in FetchRow /\ Data!Idle.pc = "idle" /\ Data!Idle.new = {} /\ Data!Idle.fetched = {}
  BY <1>2 DEF Data!Idle, FetchRow
<1>4. /\ Data!Answered \in FetchRow /\ Data!Answered.pc = "answered" /\ Data!Answered.new = {}
      /\ Data!Answered.fetched = {}
  BY <1>3 DEF Data!Answered, FetchRow
<1>5. /\ Data!NoBacktest \in TestRow /\ Data!NoBacktest.pc = "none" /\ Data!NoBacktest.hash = {}
      /\ Data!NoBacktest.bundle = FALSE /\ Data!NoBacktest.report = {}
  BY <1>2 DEF Data!NoBacktest, TestRow
<1>6. Data!NotCached \in CacheRow /\ Data!Missing \in DataRow /\ Data!Missing.hash = {}
  BY DEF Data!NotCached, CacheRow, Data!Missing, DataRow
<1> QED BY <1>3, <1>4, <1>5, <1>6

\* No candle is stored at first.
LEMMA DataInit == Data!Init => DataIInv
<1> SUFFICES ASSUME Data!Init PROVE DataIInv
  OBVIOUS
<1>1. /\ candles = {} /\ purged = {} /\ dataset = [r \in Ranges |-> Data!Missing]
      /\ fetching = [h \in Requests |-> Data!Idle] /\ cache = [r \in Ranges |-> Data!NotCached]
      /\ backtest = [b \in Backtests |-> Data!NoBacktest]
  BY DEF Data!Init
<1>2. DataShape
  BY <1>1, DataBlank DEF DataShape
<1>3. FetchOk(Data!Idle, {}, {}) /\ TestOk(Data!NoBacktest, {}, {}) /\ \A r : Kept(Data!Missing.hash, r, {}, {})
  BY DataBlank DEF FetchOk, TestOk, Kept, OnePerTime, OtherTimes, ReportOfHash
<1> QED BY <1>1, <1>2, <1>3, DataBlank DEF DataIInv, OnePerTime, OtherTimes

\* A step of request h that commits nothing.
LEMMA FetchMoves ==
  ASSUME DataIInv, NEW h \in Requests, NEW f \in FetchRow, fetching' = [fetching EXCEPT ![h] = f],
         UNCHANGED <<candles, purged, dataset, cache, backtest>>, FetchOk(f, candles, purged),
         \A k \in Requests \ {h} : OtherTimes(f.new, fetching[k].new)
  PROVE  DataIInv'
<1>1. fetching'[h] = f /\ \A k \in Requests \ {h} : fetching'[k] = fetching[k]
  BY DEF DataIInv, DataShape
<1>2. DataShape'
  BY DEF DataIInv, DataShape
<1>3. \A S, T : OtherTimes(S, T) => OtherTimes(T, S)
  BY DEF OtherTimes
<1>4. \A l, k \in Requests : l # k => OtherTimes(fetching'[l].new, fetching'[k].new)
  BY <1>1, <1>3 DEF DataIInv
<1>5. \A k \in Requests : FetchOk(fetching'[k], candles', purged')
  BY <1>1 DEF DataIInv
<1> QED BY <1>2, <1>4, <1>5 DEF DataIInv

\* A transaction that has not committed changes no row.
LEMMA FetchesKeep ==
  ASSUME DataIInv, NEW h \in Requests,
         \/ \E r \in Ranges, hole \in {-1, 1} : Data!PostDataset(h, r, hole)
         \/ Data!InsertCandles(h) \/ Data!ReadBack(h) \/ Data!RollBack(h)
  PROVE  DataIInv'
<1> DEFINE x == fetching[h]
<1>1. fetching \in [Requests -> FetchRow] /\ x \in FetchRow /\ FetchOk(x, candles, purged)
  BY DEF DataIInv, DataShape
<1>2. UNCHANGED <<candles, purged, dataset, cache, backtest>>
  <2>1. ASSUME NEW r \in Ranges, NEW hole \in {-1, 1}, Data!PostDataset(h, r, hole)
        PROVE  UNCHANGED <<candles, purged, dataset, cache, backtest>>
    BY <2>1, Zenon DEF Data!PostDataset
  <2>2. CASE Data!InsertCandles(h) \/ Data!ReadBack(h) \/ Data!RollBack(h)
    BY <2>2, Zenon DEF Data!InsertCandles, Data!ReadBack, Data!RollBack
  <2> QED BY <2>1, <2>2
<1>3. ASSUME NEW r \in Ranges, NEW hole \in {-1, 1}, Data!PostDataset(h, r, hole)
      PROVE  DataIInv'
  <2>1. PICK S : S = Data!fetchCandles(r, hole)
    OBVIOUS
  <2>2. S \in SUBSET Candle /\ OnePerTime(S)
    BY <2>1, LabConstants DEF Data!fetchCandles, Candle, OnePerTime
  <2>3. x.pc = "idle" /\ fetching' = [fetching EXCEPT ![h].pc = "insert", ![h].range = r, ![h].fetched = S]
    BY <1>3, <2>1, Zenon DEF Data!PostDataset
  <2> DEFINE f == [x EXCEPT !.pc = "insert", !.range = r, !.fetched = S]
  <2>4. f \in FetchRow /\ f.pc = "insert" /\ f.fetched = S /\ f.new = x.new
    BY <1>1, <2>2 DEF FetchRow
  <2>5. fetching' = [fetching EXCEPT ![h] = f]
    BY <1>1, <2>3
  <2> HIDE DEF f, x
  <2>6. x.new = {}
    BY <1>1, <2>3 DEF FetchOk
  <2>7. FetchOk(f, candles, purged) /\ \A k \in Requests \ {h} : OtherTimes(f.new, fetching[k].new)
    BY <2>2, <2>4, <2>6 DEF FetchOk, OtherTimes
  <2> QED BY <1>2, <2>4, <2>5, <2>7, FetchMoves
<1>4. CASE Data!InsertCandles(h)
  <2>1. PICK S : S = {c \in x.fetched : c[1] \notin Data!TimesOf(candles)}
    OBVIOUS
  <2>2. /\ x.pc = "insert" /\ fetching' = [fetching EXCEPT ![h].pc = "read", ![h].new = S]
        /\ \A k \in Requests \ {h} : Data!TimesOf(fetching[k].new) \cap Data!TimesOf(x.fetched) = {}
    BY <1>4, <2>1 DEF Data!InsertCandles
  <2> DEFINE f == [x EXCEPT !.pc = "read", !.new = S]
  <2>3. S \in SUBSET Candle
    BY <1>1, <2>1 DEF FetchRow
  <2>4. f \in FetchRow /\ f.pc = "read" /\ f.fetched = x.fetched /\ f.new = S
    BY <1>1, <2>3 DEF FetchRow
  <2>5. fetching' = [fetching EXCEPT ![h] = f]
    BY <1>1, <2>2
  <2> HIDE DEF f, x
  <2>6. OtherTimes(S, candles)
    BY <2>1 DEF Data!TimesOf, OtherTimes
  <2>7. FetchOk(f, candles, purged)
    BY <1>1, <2>1, <2>4, <2>6 DEF FetchOk
  <2>8. \A k \in Requests \ {h} : OtherTimes(f.new, fetching[k].new)
    <3> SUFFICES ASSUME NEW k \in Requests \ {h}, NEW c \in S, NEW d \in fetching[k].new, c[1] = d[1]
                 PROVE  FALSE
      BY <2>4 DEF OtherTimes
    <3>1. c[1] \in Data!TimesOf(x.fetched) /\ c[1] \in Data!TimesOf(fetching[k].new)
      BY <2>1 DEF Data!TimesOf
    <3> QED BY <2>2, <3>1
  <2> QED BY <1>2, <2>4, <2>5, <2>7, <2>8, FetchMoves
<1>5. CASE Data!ReadBack(h)
  <2>1. PICK S : S = Data!In(x.range, candles \cup x.new)
    OBVIOUS
  <2>2. x.pc = "read" /\ fetching' = [fetching EXCEPT ![h].pc = "upsert", ![h].read = S]
    BY <1>5, <2>1 DEF Data!ReadBack
  <2>3. x.range \in Ranges /\ x.new \in SUBSET Candle /\ candles \in SUBSET Candle
    BY <1>1 DEF DataIInv, DataShape, FetchRow
  <2>4. S \in SUBSET Candle
    BY <2>1, <2>3 DEF Data!In
  <2> DEFINE f == [x EXCEPT !.pc = "upsert", !.read = S]
  <2>5. /\ f \in FetchRow /\ f.pc = "upsert" /\ f.fetched = x.fetched /\ f.new = x.new
        /\ f.read = S /\ f.range = x.range
    BY <1>1, <2>4 DEF FetchRow
  <2>6. fetching' = [fetching EXCEPT ![h] = f]
    BY <1>1, <2>2
  <2> HIDE DEF f, x
  <2>7. Kept(S, x.range, candles \cup x.new, purged)
    BY <2>1, <2>3, LabConstants DEF Kept, Data!In, Candle
  <2>8. FetchOk(f, candles, purged)
    BY <1>1, <2>5, <2>7 DEF FetchOk
  <2>9. \A k \in Requests \ {h} : OtherTimes(f.new, fetching[k].new)
    BY <2>5 DEF DataIInv, x
  <2> QED BY <1>2, <2>5, <2>6, <2>8, <2>9, FetchMoves
<1>6. CASE Data!RollBack(h)
  <2>1. fetching' = [fetching EXCEPT ![h] = Data!Answered]
    BY <1>6 DEF Data!RollBack
  <2>2. /\ FetchOk(Data!Answered, candles, purged)
        /\ \A k \in Requests \ {h} : OtherTimes(Data!Answered.new, fetching[k].new)
    BY DataBlank DEF FetchOk, OtherTimes, OnePerTime
  <2> QED BY <1>2, <2>1, <2>2, DataBlank, FetchMoves
<1> QED BY <1>3, <1>4, <1>5, <1>6

\* What is kept is kept by more candles, and by candles that are purged instead.
LEMMA KeptOn ==
  ASSUME NEW S, NEW r, NEW cs, NEW ds, NEW ps, NEW qs, Kept(S, r, cs, ps),
         \A c \in cs : c \in ds \/ c[1] \in qs, ps \subseteq qs
  PROVE  Kept(S, r, ds, qs)
BY DEF Kept

\* What holds of a backtest is not undone by more candles or by retention.
LEMMA TestOn ==
  ASSUME NEW x, NEW cs, NEW ds, NEW ps, NEW qs, TestOk(x, cs, ps),
         \A c \in cs : c \in ds \/ c[1] \in qs, ps \subseteq qs
  PROVE  TestOk(x, ds, qs)
<1>1. Kept(x.hash, x.range, ds, qs)
  BY KeptOn DEF TestOk
<1>2. ReportOfHash(x, ps) => ReportOfHash(x, qs)
  BY DEF ReportOfHash
<1> QED BY <1>1, <1>2 DEF TestOk

\* A quality is a status of the row.
LEMMA QualityIsStatus == \A S : Data!computeDataQuality(S) \in {"READY", "PARTIAL", "FAILED"}
BY DEF Data!computeDataQuality

\* The commit stores the candles that were new and the hash of what was read.
LEMMA UpsertKeeps == ASSUME DataIInv, NEW h \in Requests, Data!Upsert(h) PROVE DataIInv'
<1> DEFINE x == fetching[h]
<1>1. PICK s : s = Data!computeDataQuality(x.read)
  OBVIOUS
<1>2. /\ x.pc = "upsert" /\ candles' = candles \cup x.new
      /\ dataset' = [dataset EXCEPT ![x.range] = [status |-> s, hash |-> x.read]]
      /\ fetching' = [fetching EXCEPT ![h] = Data!Answered]
      /\ UNCHANGED <<purged, cache, backtest>>
  BY <1>1, Zenon DEF Data!Upsert
<1>3. fetching \in [Requests -> FetchRow] /\ x \in FetchRow /\ FetchOk(x, candles, purged)
  BY DEF DataIInv, DataShape
<1>4. /\ x.new \in SUBSET Candle /\ x.range \in Ranges /\ x.read \in SUBSET Candle
      /\ s \in {"READY", "PARTIAL", "FAILED"}
  BY <1>1, <1>3, QualityIsStatus DEF FetchRow
<1>5. /\ fetching'[h] = Data!Answered
      /\ \A k \in Requests \ {h} : fetching'[k] = fetching[k] /\ OtherTimes(fetching[k].new, x.new)
  BY <1>2, <1>3 DEF DataIInv
<1> HIDE DEF x
<1>6. DataShape'
  BY <1>2, <1>3, <1>4, DataBlank DEF DataIInv, DataShape, DataRow
<1>7. OnePerTime(candles')
  BY <1>2, <1>3 DEF DataIInv, FetchOk, OnePerTime, OtherTimes
<1>8. \A S, r : Kept(S, r, candles, purged) => Kept(S, r, candles', purged')
  BY <1>2 DEF Kept
<1>9. \A r \in Ranges : Kept(dataset'[r].hash, r, candles', purged')
  <2> SUFFICES ASSUME NEW r \in Ranges PROVE Kept(dataset'[r].hash, r, candles', purged')
    OBVIOUS
  <2>1. CASE r = x.range
    <3>1. dataset'[r].hash = x.read
      BY <1>2, <2>1 DEF DataIInv, DataShape
    <3> QED BY <1>2, <1>3, <2>1, <3>1 DEF FetchOk
  <2>2. CASE r # x.range
    <3>1. dataset'[r] = dataset[r]
      BY <1>2, <2>2 DEF DataIInv, DataShape
    <3> QED BY <1>8, <3>1 DEF DataIInv
  <2> QED BY <2>1, <2>2
<1>10. \A k \in Requests : FetchOk(fetching'[k], candles', purged')
  <2>1. FetchOk(Data!Answered, candles', purged')
    BY DataBlank DEF FetchOk, OtherTimes, OnePerTime
  <2>2. ASSUME NEW k \in Requests \ {h} PROVE FetchOk(fetching[k], candles', purged')
    <3>1. FetchOk(fetching[k], candles, purged) /\ OtherTimes(fetching[k].new, x.new)
      BY <1>5 DEF DataIInv
    <3>2. OtherTimes(fetching[k].new, candles')
      BY <1>2, <3>1 DEF FetchOk, OtherTimes
    <3>3. fetching[k].pc = "upsert" =>
            Kept(fetching[k].read, fetching[k].range, candles' \cup fetching[k].new, purged')
      BY <1>2, <3>1 DEF FetchOk, Kept
    <3> QED BY <3>1, <3>2, <3>3 DEF FetchOk
  <2> QED BY <1>5, <2>1, <2>2
<1>11. \A l, k \in Requests : l # k => OtherTimes(fetching'[l].new, fetching'[k].new)
  BY <1>5, DataBlank DEF DataIInv, OtherTimes
<1>12. \A b \in Backtests : TestOk(backtest'[b], candles', purged')
  BY <1>2, TestOn DEF DataIInv
<1> QED BY <1>6, <1>7, <1>9, <1>10, <1>11, <1>12 DEF DataIInv

\* Retention deletes candles, and remembers their times in purged.
LEMMA RetentionKeeps == DataIInv /\ Data!runMarketCandleRetention => DataIInv'
<1> SUFFICES ASSUME DataIInv, Data!runMarketCandleRetention PROVE DataIInv'
  OBVIOUS
<1>1. PICK old : old = {c \in candles : c[1] < clock - Keep}
  OBVIOUS
<1>2. /\ candles' = candles \ old /\ purged' = purged \cup Data!TimesOf(old)
      /\ UNCHANGED <<dataset, fetching, cache, backtest>>
  BY <1>1, Zenon DEF Data!runMarketCandleRetention
<1>3. (\A c \in candles : c \in candles' \/ c[1] \in purged') /\ purged \subseteq purged'
  BY <1>2 DEF Data!TimesOf
<1>4. DataShape' /\ OnePerTime(candles')
  BY <1>2 DEF DataIInv, DataShape, OnePerTime
<1>5. \A r \in Ranges : Kept(dataset'[r].hash, r, candles', purged')
  BY <1>2, <1>3, KeptOn DEF DataIInv
<1>6. \A h \in Requests : FetchOk(fetching'[h], candles', purged')
  <2> SUFFICES ASSUME NEW h \in Requests PROVE FetchOk(fetching[h], candles', purged')
    BY <1>2
  <2>1. FetchOk(fetching[h], candles, purged)
    BY DEF DataIInv
  <2>2. OtherTimes(fetching[h].new, candles')
    BY <1>2, <2>1 DEF FetchOk, OtherTimes
  <2>3. fetching[h].pc = "upsert" =>
          Kept(fetching[h].read, fetching[h].range, candles' \cup fetching[h].new, purged')
    BY <1>3, <2>1 DEF FetchOk, Kept
  <2> QED BY <2>1, <2>2, <2>3 DEF FetchOk
<1>7. \A b \in Backtests : TestOk(backtest'[b], candles', purged')
  BY <1>2, <1>3, TestOn DEF DataIInv
<1> QED BY <1>2, <1>4, <1>5, <1>6, <1>7 DEF DataIInv

\* A step of backtest b.
LEMMA TestMoves ==
  ASSUME DataIInv, NEW b \in Backtests, NEW t \in TestRow, backtest' = [backtest EXCEPT ![b] = t],
         UNCHANGED <<candles, purged, dataset, fetching>>, cache' \in [Ranges -> CacheRow],
         TestOk(t, candles, purged)
  PROVE  DataIInv'
<1>1. backtest'[b] = t /\ \A k \in Backtests \ {b} : backtest'[k] = backtest[k]
  BY DEF DataIInv, DataShape
<1>2. DataShape'
  BY DEF DataIInv, DataShape
<1>3. \A k \in Backtests : TestOk(backtest'[k], candles', purged')
  BY <1>1 DEF DataIInv
<1> QED BY <1>2, <1>3 DEF DataIInv

\* The candles read of a range that was hashed whole and is not purged are the hashed.
LEMMA ReadIsHash ==
  ASSUME NEW S, NEW r \in Ranges, NEW cs \in SUBSET Candle, NEW ps, OnePerTime(cs), Kept(S, r, cs, ps),
         Data!TimesOf(S) = r.from..r.to, ps \cap (r.from..r.to) = {}
  PROVE  Data!In(r, cs) = S
<1>1. S \subseteq Data!In(r, cs)
  BY LabConstants DEF Kept, Data!In, Candle
<1>2. ASSUME NEW c \in Data!In(r, cs) PROVE c \in S
  <2>1. c \in cs /\ c[1] \in Data!TimesOf(S)
    BY LabConstants DEF Data!In, Candle
  <2>2. PICK d \in S : d[1] = c[1]
    BY <2>1 DEF Data!TimesOf
  <2>3. d \in cs
    BY <1>1, <2>2 DEF Data!In
  <2> QED BY <2>1, <2>2, <2>3 DEF OnePerTime
<1> QED BY <1>1, <1>2

\* The steps of a backtest.
LEMMA TestsKeep ==
  ASSUME DataIInv, NEW b \in Backtests,
         \/ \E r \in Ranges, bundle \in BOOLEAN : Data!PostBacktest(b, r, bundle)
         \/ Data!cacheGet(b) \/ Data!findCandles(b) \/ Data!cacheSet(b)
  PROVE  DataIInv'
<1> DEFINE x == backtest[b]
<1>1. /\ backtest \in [Backtests -> TestRow] /\ x \in TestRow /\ TestOk(x, candles, purged)
      /\ x.range \in Ranges /\ x.bundle \in BOOLEAN /\ cache \in [Ranges -> CacheRow]
      /\ candles \in SUBSET Candle /\ dataset \in [Ranges -> DataRow]
  BY DEF DataIInv, DataShape, TestRow
<1>2. ASSUME NEW r \in Ranges, NEW bundle \in BOOLEAN, Data!PostBacktest(b, r, bundle)
      PROVE  DataIInv'
  <2>1. PICK S : S = dataset[r].hash
    OBVIOUS
  <2> DEFINE t == [Data!NoBacktest EXCEPT !.pc = "pending", !.range = r, !.bundle = bundle, !.hash = S]
  <2>2. backtest' = [backtest EXCEPT ![b] = t] /\ UNCHANGED <<candles, purged, dataset, fetching, cache>>
    BY <1>2, <2>1, Zenon DEF Data!PostBacktest
  <2>3. S \in SUBSET Candle /\ Kept(S, r, candles, purged)
    BY <1>1, <2>1 DEF DataIInv, DataRow
  <2>4. t \in TestRow /\ t.pc = "pending" /\ t.range = r /\ t.hash = S
    BY <2>3, DataBlank DEF TestRow
  <2> HIDE DEF t
  <2>5. TestOk(t, candles, purged)
    BY <2>3, <2>4 DEF TestOk, ReportOfHash
  <2> QED BY <1>1, <2>2, <2>4, <2>5, TestMoves
<1>3. CASE Data!cacheGet(b)
  <2>1. PICK S : S = cache[x.range].candles
    OBVIOUS
  <2>2. x.bundle /\ backtest' = [backtest EXCEPT ![b].pc = "done", ![b].report = S]
        /\ UNCHANGED <<candles, purged, dataset, fetching, cache>>
    BY <1>3, <2>1, Zenon DEF Data!cacheGet
  <2> DEFINE t == [x EXCEPT !.pc = "done", !.report = S]
  <2>3. S \in SUBSET Candle
    BY <1>1, <2>1 DEF CacheRow
  <2>4. backtest' = [backtest EXCEPT ![b] = t]
    BY <1>1, <2>2
  <2>5. t \in TestRow /\ t.range = x.range /\ t.hash = x.hash
    BY <1>1, <2>3 DEF TestRow
  <2>6. t.bundle = x.bundle
    BY <1>1 DEF TestRow
  <2> HIDE DEF t, x
  <2>7. t.bundle # FALSE
    BY <2>2, <2>6, Zenon
  <2>8. TestOk(t, candles, purged)
    BY <1>1, <2>5, <2>7 DEF TestOk
  <2> QED BY <1>1, <2>2, <2>4, <2>5, <2>8, TestMoves
<1>4. CASE Data!findCandles(b)
  <2>1. PICK S : S = Data!In(x.range, candles)
    OBVIOUS
  <2>2. backtest' = [backtest EXCEPT ![b].pc = "read", ![b].report = S]
        /\ UNCHANGED <<candles, purged, dataset, fetching, cache>>
    BY <1>4, <2>1, Zenon DEF Data!findCandles
  <2> DEFINE t == [x EXCEPT !.pc = "read", !.report = S]
  <2>3. S \in SUBSET Candle
    BY <1>1, <2>1 DEF Data!In
  <2>4. backtest' = [backtest EXCEPT ![b] = t]
    BY <1>1, <2>2
  <2>5. t \in TestRow /\ t.range = x.range /\ t.hash = x.hash /\ t.report = S
    BY <1>1, <2>3 DEF TestRow
  <2> HIDE DEF t, x
  <2>6. ReportOfHash(t, purged)
    <3> SUFFICES ASSUME Data!TimesOf(x.hash) = x.range.from..x.range.to,
                        purged \cap (x.range.from..x.range.to) = {}
                 PROVE  S = x.hash
      BY <2>5 DEF ReportOfHash
    <3>1. OnePerTime(candles) /\ Kept(x.hash, x.range, candles, purged)
      BY <1>1 DEF DataIInv, TestOk
    <3> QED BY <1>1, <2>1, <3>1, ReadIsHash
  <2>7. TestOk(t, candles, purged)
    BY <1>1, <2>5, <2>6 DEF TestOk
  <2> QED BY <1>1, <2>2, <2>4, <2>5, <2>7, TestMoves
<1>5. CASE Data!cacheSet(b)
  <2>1. x.pc = "read" /\ backtest' = [backtest EXCEPT ![b].pc = "done"]
        /\ UNCHANGED <<candles, purged, dataset, fetching>>
        /\ \/ cache' = [cache EXCEPT ![x.range] = [kept |-> TRUE, candles |-> x.report]]
           \/ cache' = cache
    BY <1>5, Zenon DEF Data!cacheSet
  <2>2. cache' \in [Ranges -> CacheRow]
    <3>1. [kept |-> TRUE, candles |-> x.report] \in CacheRow
      BY <1>1 DEF CacheRow, TestRow
    <3> QED BY <1>1, <2>1, <3>1
  <2> DEFINE t == [x EXCEPT !.pc = "done"]
  <2>3. backtest' = [backtest EXCEPT ![b] = t]
    BY <1>1, <2>1
  <2>4. t \in TestRow /\ t.range = x.range /\ t.hash = x.hash /\ t.report = x.report /\ t.pc = "done"
    BY <1>1 DEF TestRow
  <2>5. t.bundle = x.bundle
    BY <1>1 DEF TestRow
  <2> HIDE DEF t, x
  <2>6. ReportOfHash(x, purged) => ReportOfHash(t, purged)
    BY <2>1, <2>4 DEF ReportOfHash
  <2>7. Kept(t.hash, t.range, candles, purged)
    BY <1>1, <2>4 DEF TestOk
  <2>8. t.bundle = FALSE => ReportOfHash(t, purged)
    BY <1>1, <2>5, <2>6, Zenon DEF TestOk
  <2>9. TestOk(t, candles, purged)
    BY <2>7, <2>8, Zenon DEF TestOk
  <2> QED BY <2>1, <2>2, <2>3, <2>4, <2>9, TestMoves
<1> QED BY <1>2, <1>3, <1>4, <1>5

\* Every step of the datasets keeps their invariant.
LEMMA DataStep == DataIInv /\ [Data!Next]_dataVars => DataIInv'
<1> SUFFICES ASSUME DataIInv, [Data!Next]_dataVars PROVE DataIInv'
  OBVIOUS
<1>1. CASE UNCHANGED <<candles, purged, dataset, fetching, backtest>> /\ cache' \in [Ranges -> CacheRow]
  BY <1>1 DEF DataIInv, DataShape
<1>2. CASE UNCHANGED dataVars
  BY <1>1, <1>2 DEF dataVars, DataIInv, DataShape
<1>3. CASE Data!Tick
  BY <1>1, <1>3 DEF Data!Tick, DataIInv, DataShape
<1>4. ASSUME NEW r \in Ranges, Data!Evict(r) PROVE DataIInv'
  BY <1>1, <1>4, DataBlank DEF Data!Evict, DataIInv, DataShape
<1>5. ASSUME NEW h \in Requests,
             \/ \E r \in Ranges, hole \in {-1, 1} : Data!PostDataset(h, r, hole)
             \/ Data!InsertCandles(h) \/ Data!ReadBack(h) \/ Data!Upsert(h) \/ Data!RollBack(h)
      PROVE  DataIInv'
  BY <1>5, FetchesKeep, UpsertKeeps
<1>6. ASSUME NEW b \in Backtests,
             \/ \E r \in Ranges, bundle \in BOOLEAN : Data!PostBacktest(b, r, bundle)
             \/ Data!cacheGet(b) \/ Data!findCandles(b) \/ Data!cacheSet(b)
      PROVE  DataIInv'
  BY <1>6, TestsKeep
<1> QED BY <1>2, <1>3, <1>4, <1>5, <1>6, RetentionKeeps DEF Data!Next

\* The invariant gives hashes of stored candles, and reports of what was hashed.
LEMMA DataHolds == DataIInv => Data!HashIsStored /\ Data!ReportIsOfItsHash
<1> SUFFICES ASSUME DataIInv PROVE Data!HashIsStored /\ Data!ReportIsOfItsHash
  OBVIOUS
<1>1. Data!HashIsStored
  BY DEF DataIInv, Data!HashIsStored, OnePerTime, Kept
<1>2. ASSUME NEW b \in Backtests, ~ backtest[b].bundle PROVE Data!Traced(b)
  <2>1. backtest[b].bundle \in BOOLEAN /\ TestOk(backtest[b], candles, purged)
    BY DEF DataIInv, DataShape, TestRow
  <2>2. ReportOfHash(backtest[b], purged)
    BY <1>2, <2>1, Zenon DEF TestOk
  <2> QED BY <2>2 DEF ReportOfHash, Data!Traced
<1> QED BY <1>1, <1>2, Zenon DEF Data!ReportIsOfItsHash

-----------------------------------------------------------------------------
(* The trades of a backtest                                                  *)

\* What is in S at 0 and wherever it is one before is everywhere.
LEMMA Inductive ==
  ASSUME NEW S, 0 \in S, \A n \in Nat : n \in S => n + 1 \in S
  PROVE  \A n \in Nat : n \in S
<1> SUFFICES ASSUME ~ \A n \in Nat : n \in S PROVE FALSE
  OBVIOUS
<1> DEFINE T == {n \in Nat : n \notin S}
<1>1. PICK n \in T : \A m \in T : n <= m
  BY LeastNatural
<1>2. n \in Nat /\ n \notin S /\ n # 0
  BY <1>1
<1>3. n - 1 \in Nat /\ n - 1 \in S
  BY <1>1, <1>2
<1> QED BY <1>2, <1>3

\* The first m + 1 values of what starts with v and goes on by g.
UpTo(v, g, V, m) ==
  {h \in [0 .. m -> V] : h[0] = v /\ \A k \in 0 .. m - 1 : h[k + 1] = g[<<k, h[k]>>]}

\* Such beginnings agree where they overlap.
LEMMA UpToIsOne ==
  ASSUME NEW V, NEW v \in V, NEW g \in [Nat \X V -> V], NEW m \in Nat,
         NEW h \in UpTo(v, g, V, m), NEW e \in UpTo(v, g, V, m + 1)
  PROVE  h[m] = e[m]
<1> DEFINE S == {k \in Nat : k <= m => h[k] = e[k]}
<1>1. 0 \in S
  BY DEF UpTo
<1>2. ASSUME NEW k \in Nat, k \in S PROVE k + 1 \in S
  <2> SUFFICES ASSUME k + 1 <= m PROVE h[k + 1] = e[k + 1]
    OBVIOUS
  <2>1. k \in 0 .. m - 1 /\ k \in 0 .. (m + 1) - 1 /\ h[k] = e[k]
    BY <1>2
  <2> QED BY <2>1 DEF UpTo
<1> HIDE DEF S
<1>3. \A k \in Nat : k \in S
  BY <1>1, <1>2, Inductive
<1> QED BY <1>3 DEF S

\* There is one of every length.
LEMMA UpToIsThere ==
  ASSUME NEW V, NEW v \in V, NEW g \in [Nat \X V -> V]
  PROVE  \A m \in Nat : UpTo(v, g, V, m) # {}
<1> DEFINE S == {m \in Nat : UpTo(v, g, V, m) # {}}
<1>1. 0 \in S
  <2>1. [k \in 0 .. 0 |-> v] \in UpTo(v, g, V, 0)
    BY DEF UpTo
  <2> QED BY <2>1
<1>2. ASSUME NEW m \in Nat, m \in S PROVE m + 1 \in S
  <2>1. PICK h : h \in UpTo(v, g, V, m)
    BY <1>2
  <2> DEFINE e == [k \in 0 .. m + 1 |-> IF k = m + 1 THEN g[<<m, h[m]>>] ELSE h[k]]
  <2>2. h \in [0 .. m -> V] /\ h[0] = v /\ \A k \in 0 .. m - 1 : h[k + 1] = g[<<k, h[k]>>]
    BY <2>1 DEF UpTo
  <2>3. e \in [0 .. m + 1 -> V] /\ e[0] = v
    BY <2>2
  <2>4. ASSUME NEW k \in 0 .. (m + 1) - 1 PROVE e[k + 1] = g[<<k, e[k]>>]
    <3>1. CASE k = m
      <4>1. e[k + 1] = g[<<m, h[m]>>] /\ e[k] = h[m]
        BY <3>1
      <4> QED BY <3>1, <4>1
    <3>2. CASE k # m
      <4>1. k \in 0 .. m - 1 /\ e[k] = h[k] /\ e[k + 1] = h[k + 1]
        BY <3>2
      <4> QED BY <4>1, <2>2
    <3> QED BY <3>1, <3>2
  <2>5. e \in UpTo(v, g, V, m + 1)
    BY <2>3, <2>4 DEF UpTo
  <2> QED BY <2>5
<1> HIDE DEF S
<1>3. \A m \in Nat : m \in S
  BY <1>1, <1>2, Inductive
<1> QED BY <1>3 DEF S

Recursive(V, v, g) ==
  \E f \in [Nat -> V] : f[0] = v /\ \A n \in Nat : f[n + 1] = g[<<n, f[n]>>]
\* A value and a step define a function on the naturals.
LEMMA Recursion ==
  ASSUME NEW V, NEW v \in V, NEW g \in [Nat \X V -> V]
  PROVE  Recursive(V, v, g)
<1> DEFINE At(m) == CHOOSE h : h \in UpTo(v, g, V, m)
           f == [m \in Nat |-> At(m)[m]]
<1>1. ASSUME NEW m \in Nat PROVE At(m) \in UpTo(v, g, V, m)
  BY UpToIsThere
<1> HIDE DEF At
<1>2. ASSUME NEW m \in Nat PROVE At(m)[m] \in V
  BY <1>1 DEF UpTo
<1>3. f \in [Nat -> V]
  BY <1>2
<1>4. f[0] = v
  BY <1>1 DEF UpTo
<1>5. ASSUME NEW n \in Nat PROVE f[n + 1] = g[<<n, f[n]>>]
  <2>1. At(n + 1)[n] = At(n)[n]
    <3>1. At(n + 1) \in UpTo(v, g, V, n + 1) /\ At(n) \in UpTo(v, g, V, n)
      BY <1>1
    <3> QED BY <3>1, UpToIsOne
  <2>2. At(n + 1)[n + 1] = g[<<n, At(n + 1)[n]>>]
    BY <1>1 DEF UpTo
  <2> QED BY <2>1, <2>2
<1> QED BY <1>3, <1>4, <1>5 DEF Recursive

\* The loop over the safety orders.
LevelType == [deviation : Nat, step : Nat, size : Nat, spent : Nat]
ConfigType == [base : Nat, max : Nat, step : Nat, stepScale : Nat, volumeScale : Nat, tp : Nat]

\* Products of naturals are naturals.
LEMMA Product == \A a, b \in Nat : a * b \in Nat
OBVIOUS

\* A pass of the loop gives a level.
LEMMA NextIsLevel ==
  ASSUME NEW c \in ConfigType, NEW l \in LevelType
  PROVE  Trade!NextLevel(c, l) \in LevelType
<1>1. c.stepScale \in Nat /\ c.volumeScale \in Nat
  BY DEF ConfigType
<1>2. l.deviation \in Nat /\ l.step \in Nat /\ l.size \in Nat /\ l.spent \in Nat
  BY DEF LevelType
<1>3. l.step * c.stepScale \in Nat /\ l.size * c.volumeScale \in Nat
  BY <1>1, <1>2, Product
<1>4. l.deviation + l.step \in Nat /\ l.spent + l.size * c.volumeScale \in Nat
  BY <1>2, <1>3
<1> QED BY <1>3, <1>4, Zenon DEF LevelType, Trade!NextLevel

\* The levels of a config are what its loop's equations say.
LEMMA LevelsAre ==
  ASSUME NEW c \in ConfigType
  PROVE  /\ Trade!Levels(c) \in [Nat -> LevelType]
         /\ Trade!Levels(c)[0] = Trade!FirstLevel(c)
         /\ \A n \in Nat : Trade!Levels(c)[n + 1] = Trade!NextLevel(c, Trade!Levels(c)[n])
<1> DEFINE g == [nl \in Nat \X LevelType |-> Trade!NextLevel(c, nl[2])]
           Eq(f) == f = [n \in Nat |-> IF n = 0 THEN Trade!FirstLevel(c) ELSE Trade!NextLevel(c, f[n - 1])]
<1>1. Trade!FirstLevel(c) \in LevelType
  BY DEF ConfigType, LevelType, Trade!FirstLevel
<1>2. g \in [Nat \X LevelType -> LevelType]
  BY NextIsLevel
<1>20. \A n \in Nat : \A l \in LevelType : g[<<n, l>>] = Trade!NextLevel(c, l)
  OBVIOUS
<1> HIDE DEF g
<1>3. PICK f \in [Nat -> LevelType] : f[0] = Trade!FirstLevel(c) /\ \A n \in Nat : f[n + 1] = g[<<n, f[n]>>]
  <2>1. Recursive(LevelType, Trade!FirstLevel(c), g)
    BY <1>1, <1>2, Recursion
  <2> QED BY <2>1 DEF Recursive
<1>4. Eq(f)
  <2>1. ASSUME NEW n \in Nat, n # 0 PROVE f[n] = Trade!NextLevel(c, f[n - 1])
    <3>1. n - 1 \in Nat /\ (n - 1) + 1 = n
      BY <2>1
    <3>2. f[n] = g[<<n - 1, f[n - 1]>>]
      BY <1>3, <3>1
    <3> QED BY <1>3, <1>20, <3>1, <3>2
  <2> QED BY <1>3, <2>1
<1>5. Eq(Trade!Levels(c))
  BY <1>4 DEF Trade!Levels
<1> HIDE DEF Eq
<1>6. /\ DOMAIN Trade!Levels(c) = Nat /\ Trade!Levels(c)[0] = Trade!FirstLevel(c)
      /\ \A n \in Nat : Trade!Levels(c)[n + 1] = Trade!NextLevel(c, Trade!Levels(c)[n])
      /\ Trade!Levels(c) = [n \in Nat |-> Trade!Levels(c)[n]]
  BY <1>5 DEF Eq
<1> DEFINE S == {n \in Nat : Trade!Levels(c)[n] \in LevelType}
<1>7. 0 \in S
  BY <1>1, <1>6
<1>8. ASSUME NEW n \in Nat, n \in S PROVE n + 1 \in S
  <2>1. Trade!NextLevel(c, Trade!Levels(c)[n]) \in LevelType
    BY <1>8, NextIsLevel
  <2> QED BY <1>6, <2>1
<1> HIDE DEF S
<1>9. \A n \in Nat : n \in S
  BY <1>7, <1>8, Inductive
<1> QED BY <1>6, <1>9 DEF S

\* Division rounds down.
LEMMA Quotient ==
  ASSUME NEW a \in Nat, NEW d \in Nat \ {0}
  PROVE  a \div d \in Nat /\ d * (a \div d) <= a /\ a < d * (a \div d) + d
OBVIOUS

\* What fits m times has a quotient of m or more.
LEMMA QuotientLeast ==
  ASSUME NEW a \in Nat, NEW d \in Nat \ {0}, NEW m \in Nat, m * d <= a
  PROVE  m <= a \div d
<1> DEFINE q == a \div d
<1>1. q \in Nat /\ d * q <= a /\ a < d * q + d
  BY Quotient
<1> HIDE DEF q
<1>2. m * d < (q + 1) * d
  BY <1>1
<1>3. m < q + 1
  BY <1>1, <1>2
<1> QED BY <1>1, <1>3 DEF q

\* What fits in m times has a quotient of m or less.
LEMMA QuotientMost ==
  ASSUME NEW a \in Nat, NEW d \in Nat \ {0}, NEW m \in Nat, a <= m * d
  PROVE  a \div d <= m
<1> DEFINE q == a \div d
<1>1. q \in Nat /\ d * q <= a /\ a < d * q + d
  BY Quotient
<1> HIDE DEF q
<1>2. q * d <= m * d
  BY <1>1
<1>3. q <= m
  BY <1>1, <1>2
<1> QED BY <1>1, <1>3 DEF q

\* A product grows with its factors.
LEMMA ProductGrows == \A x, p, q \in Nat : p <= q => x * p <= x * q /\ p * x <= q * x
OBVIOUS

\* A percentage of a price: nothing of 0, below the price under 100, growing.
LEMMA PercentIs ==
  ASSUME NEW x \in Nat, NEW p \in Nat
  PROVE  /\ Trade!Percent(x, p) \in Nat
         /\ p = 0 => Trade!Percent(x, p) = 0
         /\ p < 100 /\ x > 0 => Trade!Percent(x, p) < x
         /\ \A q \in Nat : p <= q => Trade!Percent(x, p) <= Trade!Percent(x, q)
<1>1. \A q \in Nat : x * q \in Nat
  BY Product
<1>2. Trade!Percent(x, p) \in Nat /\ (p = 0 => Trade!Percent(x, p) = 0)
  BY <1>1 DEF Trade!Percent
<1>3. p < 100 /\ x > 0 => Trade!Percent(x, p) < x
  <2> SUFFICES ASSUME p < 100, x > 0 PROVE Trade!Percent(x, p) < x
    OBVIOUS
  <2>1. x * p < x * 100
    OBVIOUS
  <2> QED BY <1>1, <2>1 DEF Trade!Percent
<1>4. ASSUME NEW q \in Nat, p <= q PROVE Trade!Percent(x, p) <= Trade!Percent(x, q)
  <2>1. x * p <= x * q
    BY <1>4, ProductGrows
  <2> QED BY <1>1, <2>1 DEF Trade!Percent
<1> QED BY <1>2, <1>3, <1>4

Climbs(f) == \A m, n \in Nat : m <= n => f[m] <= f[n]
\* What does not fall at any step does not fall.
LEMMA Climbing ==
  ASSUME NEW f, \A n \in Nat : f[n] \in Nat /\ f[n] <= f[n + 1]
  PROVE  Climbs(f)
<1> SUFFICES ASSUME NEW m \in Nat PROVE \A n \in Nat : m <= n => f[m] <= f[n]
  BY DEF Climbs
<1> DEFINE S == {n \in Nat : m <= n => f[m] <= f[n]}
<1>1. 0 \in S
  OBVIOUS
<1>2. ASSUME NEW n \in Nat, n \in S PROVE n + 1 \in S
  <2>1. f[n] \in Nat /\ f[n + 1] \in Nat /\ f[n] <= f[n + 1] /\ f[m] \in Nat
    OBVIOUS
  <2>2. m <= n + 1 => m <= n \/ m = n + 1
    OBVIOUS
  <2>3. m <= n => f[m] <= f[n]
    BY <1>2
  <2> QED BY <2>1, <2>2, <2>3
<1> HIDE DEF S
<1>3. \A n \in Nat : n \in S
  BY <1>1, <1>2, Inductive
<1> QED BY <1>3 DEF S

Deviations(c) == [n \in Nat |-> Trade!Levels(c)[n].deviation]
Spendings(c) == [n \in Nat |-> Trade!Levels(c)[n].spent]
\* Deviation and money spent grow from level to level.
LEMMA LevelsClimb ==
  ASSUME NEW c \in ConfigType
  PROVE  /\ Trade!Levels(c)[0].deviation = 0 /\ Trade!Levels(c)[0].spent = c.base
         /\ Trade!Levels(c)[0].size = c.base
         /\ \A n \in Nat : Trade!Levels(c)[n + 1].spent
                             = Trade!Levels(c)[n].spent + Trade!Levels(c)[n + 1].size
         /\ \A n \in Nat : Trade!Levels(c)[n] \in LevelType
         /\ Climbs(Deviations(c)) /\ Climbs(Spendings(c))
<1> DEFINE l == Trade!Levels(c)
<1>1. /\ l \in [Nat -> LevelType] /\ l[0] = Trade!FirstLevel(c)
      /\ \A n \in Nat : l[n + 1] = Trade!NextLevel(c, l[n])
  BY LevelsAre
<1> HIDE DEF l
<1>2. l[0].deviation = 0 /\ l[0].spent = c.base /\ l[0].size = c.base
  BY <1>1 DEF Trade!FirstLevel
<1>3. ASSUME NEW n \in Nat
      PROVE  /\ l[n + 1].deviation = l[n].deviation + l[n].step
             /\ l[n + 1].spent = l[n].spent + l[n + 1].size
  <2>1. l[n + 1] = Trade!NextLevel(c, l[n])
    BY <1>1
  <2>2. /\ Trade!NextLevel(c, l[n]).deviation = l[n].deviation + l[n].step
        /\ Trade!NextLevel(c, l[n]).size = l[n].size * c.volumeScale
        /\ Trade!NextLevel(c, l[n]).spent = l[n].spent + l[n].size * c.volumeScale
    BY Zenon DEF Trade!NextLevel
  <2> QED BY <2>1, <2>2, Zenon
<1>4. ASSUME NEW n \in Nat
      PROVE  /\ l[n] \in LevelType /\ l[n].deviation \in Nat /\ l[n].step \in Nat
             /\ l[n].spent \in Nat /\ l[n].size \in Nat
    BY <1>1 DEF LevelType
<1>5. Climbs(Deviations(c))
  <2>1. \A n \in Nat : Deviations(c)[n] = l[n].deviation
    BY DEF Deviations, l
  <2>2. ASSUME NEW n \in Nat
        PROVE  Deviations(c)[n] \in Nat /\ Deviations(c)[n] <= Deviations(c)[n + 1]
    <3>1. n + 1 \in Nat /\ Deviations(c)[n] = l[n].deviation /\ Deviations(c)[n + 1] = l[n + 1].deviation
      BY <2>1
    <3> QED BY <3>1, <1>3, <1>4
  <2> QED BY <2>2, Climbing
<1>6. Climbs(Spendings(c))
  <2>1. \A n \in Nat : Spendings(c)[n] = l[n].spent
    BY DEF Spendings, l
  <2>2. ASSUME NEW n \in Nat
        PROVE  Spendings(c)[n] \in Nat /\ Spendings(c)[n] <= Spendings(c)[n + 1]
    <3>1. n + 1 \in Nat /\ Spendings(c)[n] = l[n].spent /\ Spendings(c)[n + 1] = l[n + 1].spent
      BY <2>1
    <3> QED BY <3>1, <1>3, <1>4
  <2> QED BY <2>2, Climbing
<1> QED BY <1>2, <1>3, <1>4, <1>5, <1>6 DEF l

FillType == [price : Nat, size : Nat, qty : Nat]
TotalType == [worth : Nat, qty : Nat, cost : Nat]
\* A fill is added to the sums of the fills before it.
LEMMA AddIsTotal ==
  ASSUME NEW t \in TotalType, NEW f \in FillType
  PROVE  Trade!AddFill(t, f) \in TotalType
<1>1. t.worth \in Nat /\ t.qty \in Nat /\ t.cost \in Nat
  BY DEF TotalType
<1>2. f.price \in Nat /\ f.qty \in Nat /\ f.size \in Nat
  BY DEF FillType
<1>3. f.price * f.qty \in Nat
  BY <1>2, Product
<1>4. t.worth + f.price * f.qty \in Nat /\ t.qty + f.qty \in Nat /\ t.cost + f.size \in Nat
  BY <1>1, <1>2, <1>3
<1> QED BY <1>4, Zenon DEF TotalType, Trade!AddFill

\* The sums over the fills are those of a loop.
SumsOf(fills, last, t) ==
  /\ t \in [0 .. last -> TotalType]
  /\ t[0] = Trade!AddFill(Trade!NoFills, fills[0])
  /\ \A n \in 0 .. last : n > 0 => t[n] = Trade!AddFill(t[n - 1], fills[n])
  /\ Trade!Totals(fills, last) = t[last]

\* There are such sums.
LEMMA TotalsAre ==
  ASSUME NEW last \in Nat, NEW fills \in [0 .. last -> FillType]
  PROVE  \E t : SumsOf(fills, last, t)
<1> DEFINE v == Trade!AddFill(Trade!NoFills, fills[0])
           g == [nt \in Nat \X TotalType |->
                   IF nt[1] < last THEN Trade!AddFill(nt[2], fills[nt[1] + 1]) ELSE nt[2]]
           Eq(t) == t = [n \in 0 .. last |-> IF n = 0 THEN Trade!AddFill(Trade!NoFills, fills[0])
                                             ELSE Trade!AddFill(t[n - 1], fills[n])]
<1>1. v \in TotalType
  <2>1. Trade!NoFills \in TotalType
    BY DEF Trade!NoFills, TotalType
  <2> QED BY <2>1, AddIsTotal
<1>2. \A n \in Nat : \A t \in TotalType : n < last => Trade!AddFill(t, fills[n + 1]) \in TotalType
  BY AddIsTotal
<1>3. g \in [Nat \X TotalType -> TotalType]
  BY <1>2
<1>4. \A n \in Nat : \A t \in TotalType : n < last => g[<<n, t>>] = Trade!AddFill(t, fills[n + 1])
  OBVIOUS
<1> HIDE DEF g, v
<1>5. PICK f \in [Nat -> TotalType] : f[0] = v /\ \A n \in Nat : f[n + 1] = g[<<n, f[n]>>]
  <2>1. Recursive(TotalType, v, g)
    BY <1>1, <1>3, Recursion
  <2> QED BY <2>1 DEF Recursive
<1> DEFINE e == [n \in 0 .. last |-> f[n]]
<1>6. ASSUME NEW n \in 0 .. last, n # 0 PROVE e[n] = Trade!AddFill(e[n - 1], fills[n])
  <2>1. n - 1 \in Nat /\ (n - 1) + 1 = n /\ n - 1 < last /\ f[n - 1] \in TotalType
    BY <1>5, <1>6
  <2>2. f[n] = g[<<n - 1, f[n - 1]>>]
    BY <1>5, <2>1
  <2>3. f[n] = Trade!AddFill(f[n - 1], fills[n])
    BY <1>4, <2>1, <2>2
  <2>4. e[n] = f[n] /\ e[n - 1] = f[n - 1]
    BY <1>6
  <2> QED BY <2>3, <2>4
<1>7. Eq(e)
  <2>1. e[0] = v
    BY <1>5
  <2> QED BY <1>6, <2>1 DEF v
<1>8. PICK t : Eq(t) /\ Trade!Totals(fills, last) = t[last]
  <2> HIDE DEF e
  <2> DEFINE r == CHOOSE t : Eq(t)
  <2>1. Eq(r)
    BY <1>7
  <2>2. Trade!Totals(fills, last) = r[last]
    BY DEF Trade!Totals
  <2> HIDE DEF r, Eq
  <2> QED BY <2>1, <2>2
<1>9. /\ DOMAIN t = 0 .. last /\ t[0] = v
      /\ \A n \in 0 .. last : n > 0 => t[n] = Trade!AddFill(t[n - 1], fills[n])
      /\ t = [n \in 0 .. last |-> t[n]]
  BY <1>8 DEF v
<1> DEFINE S == {n \in Nat : n <= last => t[n] \in TotalType}
<1>10. 0 \in S
  BY <1>1, <1>9
<1>11. ASSUME NEW n \in Nat, n \in S PROVE n + 1 \in S
  <2> SUFFICES ASSUME n + 1 <= last PROVE t[n + 1] \in TotalType
    OBVIOUS
  <2>1. n + 1 \in 0 .. last /\ n + 1 > 0 /\ (n + 1) - 1 = n /\ n < last /\ t[n] \in TotalType
    BY <1>11
  <2>2. t[n + 1] = Trade!AddFill(t[n], fills[n + 1])
    BY <1>9, <2>1
  <2> QED BY <1>2, <2>1, <2>2
<1> HIDE DEF S
<1>12. \A n \in Nat : n \in S
  BY <1>10, <1>11, Inductive
<1>13. t \in [0 .. last -> TotalType]
  BY <1>9, <1>12 DEF S
<1> QED BY <1>8, <1>9, <1>13 DEF SumsOf, v

\* One more fill between two prices keeps the worth between theirs.
LEMMA SumStep ==
  ASSUME NEW t \in TotalType, NEW f \in FillType, NEW lo \in Nat, NEW hi \in Nat,
         lo <= f.price, f.price <= hi, lo * t.qty <= t.worth, t.worth <= hi * t.qty
  PROVE  LET u == Trade!AddFill(t, f)
         IN  u.qty = t.qty + f.qty /\ lo * u.qty <= u.worth /\ u.worth <= hi * u.qty
<1>1. t.worth \in Nat /\ t.qty \in Nat /\ f.price \in Nat /\ f.qty \in Nat
  BY DEF TotalType, FillType
<1>2. lo * f.qty <= f.price * f.qty /\ f.price * f.qty <= hi * f.qty
  BY <1>1, ProductGrows
<1>3. /\ lo * t.qty \in Nat /\ hi * t.qty \in Nat /\ lo * f.qty \in Nat /\ hi * f.qty \in Nat
      /\ f.price * f.qty \in Nat
  BY <1>1, Product
<1>4. lo * (t.qty + f.qty) = lo * t.qty + lo * f.qty /\ hi * (t.qty + f.qty) = hi * t.qty + hi * f.qty
  BY <1>1
<1>5. /\ lo * (t.qty + f.qty) <= t.worth + f.price * f.qty
      /\ t.worth + f.price * f.qty <= hi * (t.qty + f.qty)
  BY <1>1, <1>2, <1>3, <1>4
<1>6. /\ Trade!AddFill(t, f).qty = t.qty + f.qty
      /\ Trade!AddFill(t, f).worth = t.worth + f.price * f.qty
  BY Zenon DEF Trade!AddFill
<1> QED BY <1>5, <1>6

\* The average of fills lies between their lowest and their highest price.
LEMMA AverageBetween ==
  ASSUME NEW last \in Nat, NEW fills \in [0 .. last -> FillType], NEW lo \in Nat, NEW hi \in Nat,
         \A k \in 0 .. last : lo <= fills[k].price /\ fills[k].price <= hi,
         fills[0].qty > 0
  PROVE  LET avg == Trade!calculateAvgEntry(Trade!Totals(fills, last))
         IN  avg \in Nat /\ lo <= avg /\ avg <= hi
<1>1. PICK t : SumsOf(fills, last, t)
  BY TotalsAre
<1>2. /\ t \in [0 .. last -> TotalType]
      /\ t[0] = Trade!AddFill(Trade!NoFills, fills[0])
      /\ \A n \in 0 .. last : n > 0 => t[n] = Trade!AddFill(t[n - 1], fills[n])
      /\ Trade!Totals(fills, last) = t[last]
  BY <1>1 DEF SumsOf
<1> DEFINE Ok(u) == u.qty > 0 /\ lo * u.qty <= u.worth /\ u.worth <= hi * u.qty
           S == {n \in Nat : n <= last => Ok(t[n])}
<1>3. 0 \in S
  <2>1. Trade!NoFills \in TotalType /\ Trade!NoFills.qty = 0 /\ Trade!NoFills.worth = 0
    BY DEF Trade!NoFills, TotalType
  <2>2. fills[0] \in FillType /\ lo <= fills[0].price /\ fills[0].price <= hi
    OBVIOUS
  <2>3. lo * 0 <= 0 /\ 0 <= hi * 0
    OBVIOUS
  <2>4. /\ t[0].qty = 0 + fills[0].qty /\ lo * t[0].qty <= t[0].worth
        /\ t[0].worth <= hi * t[0].qty
    BY <1>2, <2>1, <2>2, <2>3, SumStep
  <2>5. fills[0].qty \in Nat
    BY <2>2 DEF FillType
  <2>6. t[0].qty > 0
    BY <2>4, <2>5
  <2> QED BY <2>4, <2>6
<1>4. ASSUME NEW n \in Nat, n \in S PROVE n + 1 \in S
  <2> SUFFICES ASSUME n + 1 <= last PROVE Ok(t[n + 1])
    OBVIOUS
  <2>1. n + 1 \in 0 .. last /\ n + 1 > 0 /\ (n + 1) - 1 = n /\ n \in 0 .. last
    OBVIOUS
  <2>2. t[n + 1] = Trade!AddFill(t[n], fills[n + 1])
    BY <1>2, <2>1
  <2>3. t[n] \in TotalType /\ fills[n + 1] \in FillType
    BY <1>2, <2>1
  <2>4. Ok(t[n]) /\ lo <= fills[n + 1].price /\ fills[n + 1].price <= hi
    BY <1>4, <2>1
  <2>5. /\ t[n + 1].qty = t[n].qty + fills[n + 1].qty /\ lo * t[n + 1].qty <= t[n + 1].worth
        /\ t[n + 1].worth <= hi * t[n + 1].qty
    BY <2>2, <2>3, <2>4, SumStep
  <2>6. t[n].qty \in Nat /\ fills[n + 1].qty \in Nat
    BY <2>3 DEF TotalType, FillType
  <2>7. t[n + 1].qty > 0
    <3>1. \A a, b \in Nat : a > 0 => a + b > 0
      OBVIOUS
    <3>2. t[n].qty > 0 /\ t[n + 1].qty = t[n].qty + fills[n + 1].qty
      BY <2>4, <2>5, Zenon
    <3> QED BY <2>6, <3>1, <3>2, Zenon
  <2> QED BY <2>5, <2>7
<1> HIDE DEF S
<1>5. \A n \in Nat : n \in S
  BY <1>3, <1>4, Inductive
<1>6. Ok(t[last]) /\ t[last] \in TotalType
  BY <1>2, <1>5 DEF S
<1> DEFINE w == t[last].worth
           q == t[last].qty
<1>7. w \in Nat /\ q \in Nat \ {0}
  BY <1>6 DEF TotalType
<1>8. lo * q <= w /\ w <= hi * q
  BY <1>6
<1>9. Trade!calculateAvgEntry(Trade!Totals(fills, last)) = w \div q
  BY <1>2 DEF Trade!calculateAvgEntry
<1> HIDE DEF w, q
<1>10. w \div q \in Nat /\ lo <= w \div q /\ w \div q <= hi
  BY <1>7, <1>8, Quotient, QuotientLeast, QuotientMost
<1> QED BY <1>9, <1>10

\* Fills of the sizes of the levels have cost what the loop spends.
LEMMA CostIsSpent ==
  ASSUME NEW c \in ConfigType, NEW last \in Nat, NEW fills \in [0 .. last -> FillType],
         \A k \in 0 .. last : fills[k].size = Trade!Levels(c)[k].size
  PROVE  Trade!Totals(fills, last).cost = Trade!Levels(c)[last].spent
<1> DEFINE l == Trade!Levels(c)
<1>1. PICK t : SumsOf(fills, last, t)
  BY TotalsAre
<1>2. /\ t \in [0 .. last -> TotalType]
      /\ t[0] = Trade!AddFill(Trade!NoFills, fills[0])
      /\ \A n \in 0 .. last : n > 0 => t[n] = Trade!AddFill(t[n - 1], fills[n])
      /\ Trade!Totals(fills, last) = t[last]
  BY <1>1 DEF SumsOf
<1>3. /\ l[0].spent = c.base /\ l[0].size = c.base
      /\ \A n \in Nat : l[n + 1].spent = l[n].spent + l[n + 1].size
      /\ \A n \in Nat : l[n] \in LevelType
  BY LevelsClimb
<1> HIDE DEF l
<1>4. \A u, f : Trade!AddFill(u, f).cost = u.cost + f.size
  BY Zenon DEF Trade!AddFill
<1> DEFINE S == {n \in Nat : n <= last => t[n].cost = l[n].spent}
<1>5. 0 \in S
  <2>1. t[0].cost = 0 + fills[0].size
    BY <1>2, <1>4 DEF Trade!NoFills
  <2>2. fills[0].size = l[0].size /\ l[0].size = c.base /\ c.base \in Nat
    BY <1>3, 0 \in 0 .. last DEF l, ConfigType
  <2> QED BY <1>3, <2>1, <2>2
<1>6. ASSUME NEW n \in Nat, n \in S PROVE n + 1 \in S
  <2> SUFFICES ASSUME n + 1 <= last PROVE t[n + 1].cost = l[n + 1].spent
    OBVIOUS
  <2>1. n + 1 \in 0 .. last /\ n + 1 > 0 /\ (n + 1) - 1 = n /\ n <= last
    OBVIOUS
  <2>2. t[n + 1].cost = t[n].cost + fills[n + 1].size
    BY <1>2, <1>4, <2>1
  <2>3. t[n].cost = l[n].spent /\ fills[n + 1].size = l[n + 1].size
    BY <1>6, <2>1 DEF l
  <2> QED BY <1>3, <2>2, <2>3
<1> HIDE DEF S
<1>7. \A n \in Nat : n \in S
  BY <1>5, <1>6, Inductive
<1> QED BY <1>2, <1>7 DEF S, l

\* Under 100, a percentage leaves something of a price.
LEMMA PercentOrder ==
  ASSUME NEW x \in Nat \ {0}, NEW p \in Nat, NEW q \in Nat, p < 100, p <= q
  PROVE  /\ Trade!Percent(x, p) \in Nat /\ Trade!Percent(x, p) < x
         /\ Trade!Percent(x, p) <= Trade!Percent(x, q)
BY PercentIs

Sided == {"long", "short"}
OrdersOf(c, entry, side) == Trade!generateSafetyOrderSchedule(c, entry, side)
\* The orders of an accepted config lie on the losing side of the base entry,
\* each beyond the one before, and buy at a positive price.
LEMMA OrdersAre ==
  ASSUME NEW c \in ConfigType, Trade!validateDcaConfig(c), NEW entry \in Nat \ {0},
         NEW side \in Sided, NEW n \in 1 .. c.max
  PROVE  LET o == OrdersOf(c, entry, side)
         IN  /\ o[n] \in FillType /\ o[n].price > 0 /\ o[n].size = Trade!Levels(c)[n].size
             /\ Trade!AsBad(side, o[n].price, entry)
             /\ \A k \in 1 .. n : Trade!AsBad(side, o[n].price, o[k].price)
<1> DEFINE l == Trade!Levels(c)
           d(k) == Trade!Percent(entry, l[k].deviation)
           o == OrdersOf(c, entry, side)
<1>1. c.max \in Nat
  BY DEF ConfigType
<1>2. /\ \A k \in Nat : l[k].deviation \in Nat /\ l[k].size \in Nat
      /\ \A k, m \in Nat : k <= m => l[k].deviation <= l[m].deviation
  BY LevelsClimb DEF LevelType, Climbs, Deviations
<1>3. l[c.max].deviation < 100
  BY DEF Trade!validateDcaConfig, Trade!calculateMaxDeviation
<1> HIDE DEF l
<1>4. ASSUME NEW k \in 1 .. n PROVE d(k) \in Nat /\ d(k) < entry /\ d(k) <= d(n)
  <2>1. k \in Nat /\ n \in Nat /\ k <= n /\ k <= c.max /\ n <= c.max
    BY <1>1
  <2>2. l[k].deviation <= l[n].deviation /\ l[k].deviation <= l[c.max].deviation
    BY <1>1, <1>2, <2>1
  <2>3. l[k].deviation \in Nat /\ l[n].deviation \in Nat /\ l[c.max].deviation \in Nat
    BY <1>1, <1>2, <2>1
  <2>4. l[k].deviation < 100
    BY <1>3, <2>2, <2>3
  <2> QED BY <2>2, <2>3, <2>4, PercentOrder
<1>5. ASSUME NEW k \in 1 .. n
      PROVE  o[k].price = (IF side = "long" THEN entry - d(k) ELSE entry + d(k))
             /\ o[k].size = l[k].size /\ o[k].qty = l[k].size \div o[k].price
  <2>1. k \in 1 .. c.max
    BY <1>1
  <2>2. o[k] = Trade!Fill(Trade!TriggerPrice(entry, side, l[k].deviation), l[k].size)
    BY <2>1 DEF OrdersOf, Trade!generateSafetyOrderSchedule, l
  <2>3. Trade!TriggerPrice(entry, side, l[k].deviation)
          = (IF side = "long" THEN entry - d(k) ELSE entry + d(k))
    BY <1>4 DEF Trade!TriggerPrice, Trade!Toward
  <2> DEFINE trigger == Trade!TriggerPrice(entry, side, l[k].deviation)
  <2>4. o[k].price = trigger /\ o[k].size = l[k].size /\ o[k].qty = l[k].size \div trigger
    <3>1. \A p, z : LET f == Trade!Fill(p, z) IN f.price = p /\ f.size = z /\ f.qty = z \div p
      BY Zenon DEF Trade!Fill
    <3> HIDE DEF trigger, o, d
    <3>2. o[k] = Trade!Fill(trigger, l[k].size)
      BY <2>2 DEF trigger, o
    <3> QED BY <3>1, <3>2
  <2> HIDE DEF trigger, o, d
  <2> QED BY <2>3, <2>4, Zenon DEF trigger, d
<1> HIDE DEF d, o
<1>6. ASSUME NEW k \in 1 .. n PROVE o[k].price \in Nat \ {0}
  BY <1>4, <1>5
<1>7. n \in 1 .. n /\ n \in Nat
  BY <1>1
<1>8. o[n] \in FillType
  <2>1. l[n].size \div o[n].price \in Nat
    BY <1>2, <1>6, <1>7, Quotient
  <2>2. o[n].price \in Nat /\ o[n].size \in Nat /\ o[n].qty \in Nat
    BY <1>2, <1>5, <1>6, <1>7, <2>1
  <2>3. o[n] = [price |-> o[n].price, size |-> o[n].size, qty |-> o[n].qty]
    BY <1>1 DEF o, OrdersOf, Trade!generateSafetyOrderSchedule, Trade!Fill
  <2> QED BY <2>2, <2>3, Zenon DEF FillType
<1>9. Trade!AsBad(side, o[n].price, entry)
  BY <1>4, <1>5, <1>7 DEF Trade!AsBad, Trade!Gain
<1>10. ASSUME NEW k \in 1 .. n PROVE Trade!AsBad(side, o[n].price, o[k].price)
  BY <1>4, <1>5, <1>7 DEF Trade!AsBad, Trade!Gain
<1> QED BY <1>5, <1>6, <1>7, <1>8, <1>9, <1>10 DEF o, l

LadderOk(c, entry, side, slPct, n) ==
  LET o == OrdersOf(c, entry, side)
      now == Trade!Ladder(c, entry, side, slPct, n)
  IN /\ now.avg \in Nat \ {0} /\ now.sl \in Int /\ now.tp \in Int
     /\ now.cost <= Trade!calculateMaxExposure(c)
     /\ n = 0 => now.avg = entry
     /\ n > 0 => Trade!AsBad(side, o[n].price, now.avg) /\ Trade!AsBad(side, now.avg, entry)
     /\ Trade!AsBad(side, now.sl, now.avg) /\ Trade!AsBad(side, now.avg, now.tp)

\* What a ladder has cost, where its average lies and where its stop and target.
LEMMA LadderIs ==
  ASSUME NEW c \in ConfigType, Trade!validateDcaConfig(c), NEW entry \in Nat \ {0},
         entry <= c.base, NEW side \in Sided, NEW slPct \in Nat, NEW n \in 0 .. c.max
  PROVE  LadderOk(c, entry, side, slPct, n)
<1> DEFINE o == OrdersOf(c, entry, side)
           fills == [k \in 0 .. n |-> IF k = 0 THEN Trade!Fill(entry, c.base) ELSE o[k]]
           total == Trade!Totals(fills, n)
           avg == IF n = 0 THEN entry ELSE Trade!calculateAvgEntry(total)
           now == Trade!Ladder(c, entry, side, slPct, n)
<1>1. c.base \in Nat \ {0} /\ c.max \in Nat /\ n \in Nat /\ n <= c.max /\ c.tp \in Nat
  BY DEF ConfigType
<1>2. /\ now.avg = avg
      /\ now.tp = Trade!Toward(side, avg, Trade!Percent(avg, c.tp))
      /\ now.sl = Trade!Toward(side, avg, -Trade!Percent(avg, slPct))
      /\ now.cost = total.cost
  BY Zenon DEF Trade!Ladder, OrdersOf, Trade!recalcStopLoss, Trade!recalcTakeProfit
<1>3. \A k \in 1 .. n : k \in 1 .. c.max
  BY <1>1
<1>4. ASSUME NEW k \in 1 .. n
      PROVE  /\ o[k] \in FillType /\ o[k].price > 0 /\ o[k].size = Trade!Levels(c)[k].size
             /\ Trade!AsBad(side, o[k].price, entry)
  BY <1>3, OrdersAre
<1>5. n > 0 => \A k \in 1 .. n : Trade!AsBad(side, o[n].price, o[k].price)
  <2> SUFFICES ASSUME n > 0 PROVE \A k \in 1 .. n : Trade!AsBad(side, o[n].price, o[k].price)
    OBVIOUS
  <2>1. n \in 1 .. c.max
    BY <1>1
  <2> QED BY <2>1, OrdersAre
<1> HIDE DEF o
<1>6. fills \in [0 .. n -> FillType] /\ fills[0].price = entry /\ fills[0].qty > 0
  <2> DEFINE b == Trade!Fill(entry, c.base)
  <2>1. b.price = entry /\ b.size = c.base /\ b.qty = c.base \div entry
    BY Zenon DEF Trade!Fill
  <2>2. c.base \div entry \in Nat
    BY <1>1, Quotient
  <2>20. 1 * entry <= c.base
    BY <1>1
  <2>21. 1 <= c.base \div entry
    BY <1>1, <2>20, QuotientLeast
  <2>3. b \in FillType
    <3>1. entry \in Nat /\ c.base \in Nat
      BY <1>1
    <3> QED BY <2>2, <3>1, Zenon DEF Trade!Fill, FillType
  <2> HIDE DEF b
  <2>4. fills = [k \in 0 .. n |-> IF k = 0 THEN b ELSE o[k]]
    BY DEF b
  <2>5. fills[0] = b
    <3>1. 0 \in 0 .. n
      BY <1>1
    <3> QED BY <2>4, <3>1
  <2>6. fills \in [0 .. n -> FillType]
    BY <1>4, <2>3, <2>4
  <2> QED BY <2>1, <2>2, <2>21, <2>5, <2>6
<1>7. \A k \in 1 .. n : fills[k] = o[k]
  BY <1>1
<1>8. fills[0].size = c.base
  BY <1>1 DEF Trade!Fill
<1> HIDE DEF fills
<1>9. total.cost <= Trade!calculateMaxExposure(c)
  <2>1. /\ Trade!Levels(c)[0].size = c.base /\ Climbs(Spendings(c))
    BY LevelsClimb
  <2>2. \A k \in 0 .. n : fills[k].size = Trade!Levels(c)[k].size
    <3>1. \A k \in 0 .. n : k = 0 \/ k \in 1 .. n
      OBVIOUS
    <3> QED BY <1>4, <1>7, <1>8, <2>1, <3>1
  <2>3. total.cost = Trade!Levels(c)[n].spent
    BY <1>1, <1>6, <2>2, CostIsSpent
  <2>4. Spendings(c)[n] = Trade!Levels(c)[n].spent /\ Spendings(c)[c.max] = Trade!Levels(c)[c.max].spent
    BY <1>1 DEF Spendings
  <2>5. Spendings(c)[n] <= Spendings(c)[c.max]
    BY <1>1, <2>1 DEF Climbs
  <2> QED BY <2>3, <2>4, <2>5 DEF Trade!calculateMaxExposure
<1>10. /\ avg \in Nat \ {0}
       /\ n > 0 => Trade!AsBad(side, o[n].price, avg) /\ Trade!AsBad(side, avg, entry)
  <2>1. CASE n = 0
    BY <2>1
  <2>2. CASE n > 0
    <3> DEFINE lo == IF side = "long" THEN o[n].price ELSE entry
               hi == IF side = "long" THEN entry ELSE o[n].price
    <3>1. n \in 1 .. n /\ \A k \in 0 .. n : k = 0 \/ k \in 1 .. n
      BY <1>1, <2>2
    <3>2. \A k \in 1 .. n : o[k].price \in Nat \ {0}
      BY <1>4 DEF FillType
    <3>3. lo \in Nat \ {0} /\ hi \in Nat
      BY <3>1, <3>2
    <3>4. ASSUME NEW k \in 0 .. n PROVE lo <= fills[k].price /\ fills[k].price <= hi
      <4>1. CASE k = 0
        BY <1>4, <1>6, <3>1, <3>2, <4>1 DEF Trade!AsBad, Trade!Gain
      <4>2. CASE k \in 1 .. n
        BY <1>4, <1>5, <1>7, <2>2, <3>1, <3>2, <4>2 DEF Trade!AsBad, Trade!Gain
      <4> QED BY <3>1, <4>1, <4>2
    <3>5. /\ Trade!calculateAvgEntry(total) \in Nat /\ lo <= Trade!calculateAvgEntry(total)
          /\ Trade!calculateAvgEntry(total) <= hi
      <4> HIDE DEF lo, hi
      <4>1. lo \in Nat
        BY <3>3
      <4> QED BY <1>1, <1>6, <3>3, <3>4, <4>1, AverageBetween
    <3>6. avg = Trade!calculateAvgEntry(total)
      BY <2>2
    <3> HIDE DEF total, avg
    <3> QED BY <3>1, <3>2, <3>3, <3>5, <3>6 DEF Trade!AsBad, Trade!Gain
  <2> QED BY <1>1, <2>1, <2>2
<1> HIDE DEF total, avg, now
<1>11. Trade!Percent(avg, c.tp) \in Nat /\ Trade!Percent(avg, slPct) \in Nat
  BY <1>1, <1>10, PercentIs
<1>12. /\ now.sl \in Int /\ now.tp \in Int
       /\ Trade!AsBad(side, now.sl, now.avg) /\ Trade!AsBad(side, now.avg, now.tp)
  BY <1>2, <1>10, <1>11 DEF Trade!AsBad, Trade!Gain, Trade!Toward
<1>13. n = 0 => avg = entry
  BY DEF avg
<1> QED BY <1>2, <1>9, <1>10, <1>12, <1>13 DEF LadderOk, o, now

-----------------------------------------------------------------------------
TrailShape == [mark : Nat, active : BOOLEAN, stop : Int]
PositionOf(t) ==
  [open : BOOLEAN, side : Sided, raw : Nat, entry : Nat, base : Nat, time : Nat, bar : Nat,
   sl : Int, tp : Int, slPct : Nat, filled : 0 .. t.dca.config.max, trail : TrailShape]
Traded ==
  [entryTime : Nat, exitTime : Nat, side : Sided, raw : Nat, entry : Nat, rawExit : Int,
   exit : Int, sl : Int, outcome : {"WIN", "LOSS", "NEUTRAL"}, reason : Trade!Reasons, held : Nat]
TradeShape ==
  /\ strategy \in Strategies /\ bar \in 1 .. MaxBars + 1 /\ opening \in Prices
  /\ position \in PositionOf(strategy) /\ trade \in Traded
  /\ ended \in BOOLEAN /\ (~ended => bar <= MaxBars)
  /\ trailing \in TrailShape /\ restarts \in 0 .. MaxRestarts

\* The strategy t trades a ladder.
Laddered(t) == t.dca.on /\ Trade!validateDcaConfig(t.dca.config)
\* Stop and target of a position lie on either side of its entry; those of a
\* ladder are what its fills make them.
Levelled(p) == Trade!AsBad(p.side, p.sl, p.entry) /\ Trade!AsBad(p.side, p.entry, p.tp)
OfFills(t, p) ==
  Laddered(t) =>
    LET now == Trade!Ladder(t.dca.config, p.base, p.side, p.slPct, p.filled)
    IN  p.base > 0 /\ p.base <= t.dca.config.base /\ p.entry = now.avg /\ p.sl = now.sl /\ p.tp = now.tp
HeldOk(t, p) == p.entry > 0 /\ p.trail.mark > 0 /\ p.time = p.bar /\ Levelled(p) /\ OfFills(t, p)
PositionOk(t, n, p) ==
  p.open => HeldOk(t, p) /\ p.bar <= n /\ (t.maxBars > 0 => n - p.bar <= t.maxBars)

\* What is read of a bar.
BarOk(b) ==
  /\ b.open \in Nat \ {0} /\ b.high \in Nat \ {0} /\ b.low \in Nat \ {0} /\ b.close \in Nat \ {0}
  /\ b.next \in Prices /\ b.close \in Prices /\ b.open \in Prices
  /\ b.low <= b.open /\ b.open <= b.high /\ b.low <= b.close /\ b.close <= b.high
  /\ b.signal # "none" => b.signal \in Sided
  /\ b.exit \in BOOLEAN /\ b.last \in BOOLEAN /\ b.atr \in Nat
  /\ (bar = MaxBars => b.last)

\* What TradeConstants says of a strategy.
LEMMA StrategyIs ==
  ASSUME NEW t \in Strategies
  PROVE  /\ t.sides \subseteq Sided /\ t.cost \in Nat /\ t.maxBars \in Nat
         /\ t.sl.value \in Nat /\ t.tp.value \in Nat /\ t.exits \subseteq BOOLEAN
         /\ t.trail.on \in BOOLEAN /\ t.trail.activation \in Nat /\ t.trail.callback \in Nat
         /\ t.dca.on \in BOOLEAN /\ t.dca.config \in ConfigType /\ t.dca.config.max \in Nat
         /\ t.dca.on => \A p \in Prices : p + (p * t.cost) \div 100 <= t.dca.config.base
BY TradeConstants, Zenon DEF Sided, ConfigType

\* The bars the strategy reads are bars.
LEMMA BarIs == ASSUME TradeShape, NEW b \in Trade!Bars PROVE BarOk(b)
<1>1. /\ b.open = opening /\ b.high \in Prices /\ b.low \in Prices /\ b.close \in Prices
      /\ b.next \in Prices /\ b.last \in BOOLEAN
      /\ b.signal \in IF position.open THEN {"none"} ELSE strategy.sides \cup {"none"}
      /\ b.exit \in IF position.open THEN strategy.exits ELSE {FALSE}
      /\ b.atr \in IF position.open THEN {0} ELSE Atrs
      /\ b.low <= b.open /\ b.low <= b.close /\ b.high >= b.open /\ b.high >= b.close
      /\ (bar = MaxBars => b.last)
  BY Zenon DEF Trade!Bars
<1>2. strategy.sides \subseteq Sided /\ strategy.exits \subseteq BOOLEAN /\ opening \in Prices
  BY StrategyIs DEF TradeShape
<1>3. Prices \subseteq Nat \ {0} /\ Atrs \subseteq Nat
  BY TradeConstants
<1>4. /\ b.open \in Nat \ {0} /\ b.high \in Nat \ {0} /\ b.low \in Nat \ {0} /\ b.close \in Nat \ {0}
      /\ b.next \in Prices /\ b.close \in Prices /\ b.open \in Prices
  BY <1>1, <1>2, <1>3
<1>5. b.low <= b.open /\ b.open <= b.high /\ b.low <= b.close /\ b.close <= b.high
  BY <1>1, <1>4
<1>6. b.signal # "none" => b.signal \in Sided
  BY <1>1, <1>2
<1>7. b.exit \in BOOLEAN
  <2>1. b.exit \in strategy.exits \/ b.exit \in {FALSE}
    BY <1>1, Zenon
  <2> QED BY <1>2, <2>1, Zenon
<1>8. b.atr \in Nat
  <2>1. b.atr \in {0} \/ b.atr \in Atrs
    BY <1>1, Zenon
  <2>2. Atrs \subseteq Nat
    BY <1>3
  <2> QED BY <2>1, <2>2, 0 \in Nat, Zenon
<1>9. b.last \in BOOLEAN /\ (bar = MaxBars => b.last)
  BY <1>1, Zenon
<1> QED BY <1>4, <1>5, <1>6, <1>7, <1>8, <1>9, Zenon DEF BarOk

\* The distance of a level from the entry is no loss.
LEMMA DistanceIs ==
  ASSUME NEW level, level.value \in Nat, NEW entry \in Nat, NEW atr \in Nat
  PROVE  Trade!Distance(level, entry, atr) \in Nat
<1>1. level.value * atr \in Nat /\ Trade!Percent(entry, level.value) \in Nat
  BY Product, PercentIs
<1> HIDE DEF Trade!Percent
<1> QED BY <1>1, Zenon DEF Trade!Distance

\* What a price costs at entry, which the base order can pay.
LEMMA CostlyIs ==
  ASSUME TradeShape, NEW price \in Prices
  PROVE  /\ Trade!Costly(price) \in Nat \ {0} /\ price \in Nat \ {0}
         /\ strategy.cost = 0 => Trade!Costly(price) = price
         /\ strategy.dca.on => Trade!Costly(price) <= strategy.dca.config.base
<1>1. /\ price \in Nat \ {0} /\ strategy.cost \in Nat
      /\ strategy.dca.on => price + (price * strategy.cost) \div 100 <= strategy.dca.config.base
  BY TradeConstants, StrategyIs DEF TradeShape
<1>2. /\ Trade!Percent(price, strategy.cost) \in Nat
      /\ strategy.cost = 0 => Trade!Percent(price, strategy.cost) = 0
  BY <1>1, PercentIs
<1>3. Trade!Costly(price) = price + Trade!Percent(price, strategy.cost)
  BY DEF Trade!Costly
<1>4. strategy.dca.on => Trade!Costly(price) <= strategy.dca.config.base
  BY <1>1 DEF Trade!Costly, Trade!Percent
<1> HIDE DEF Trade!Percent, Trade!Costly
<1> QED BY <1>1, <1>2, <1>3, <1>4

EnteredOk(b, p) ==
  /\ p \in PositionOf(strategy) /\ p.open /\ HeldOk(strategy, p)
  /\ p.bar \in {bar, bar + 1} /\ (b.last => p.bar = bar)
  /\ strategy.fillAt = "CLOSE" /\ strategy.cost = 0 => Trade!AsBad(p.side, p.sl, b.close)
  /\ p.trail = Trade!Trail(b.close)

\* A position is entered between its stop and its target.
LEMMA EnteredIs ==
  ASSUME TradeShape, NEW b \in Trade!Bars, Trade!Enters(b)
  PROVE  EnteredOk(b, Trade!Entered(b))
<1> DEFINE side == b.signal
           fill == CASE strategy.fillAt = "OPEN" -> b.open
                     [] strategy.fillAt = "NEXT_OPEN" -> b.next
                     [] OTHER -> b.close
           at == IF strategy.fillAt = "NEXT_OPEN" THEN bar + 1 ELSE bar
           entry == Trade!Costly(fill)
           sl == Trade!Toward(side, entry, -Trade!Distance(strategy.sl, entry, b.atr))
           tp == Trade!Toward(side, entry, Trade!Distance(strategy.tp, entry, b.atr))
           slPct == IF strategy.sl.type = "fixed_pct" THEN strategy.sl.value
                    ELSE (Trade!Gain(side, sl, entry) * 100) \div entry
           now == Trade!Ladder(strategy.dca.config, entry, side, slPct, 0)
           p == Trade!Entered(b)
<1>1. /\ p.open = TRUE /\ p.side = side /\ p.raw = fill /\ p.entry = entry /\ p.base = entry
      /\ p.time = at /\ p.bar = at /\ p.slPct = slPct /\ p.filled = 0
      /\ p.trail = Trade!Trail(b.close)
      /\ p.sl = (IF Laddered(strategy) THEN now.sl ELSE sl)
      /\ p.tp = (IF Laddered(strategy) THEN now.tp ELSE tp)
  BY Zenon DEF Trade!Entered, Trade!isDca, Laddered, Trade!computeExitLevels
<1>2. p = [open |-> p.open, side |-> p.side, raw |-> p.raw, entry |-> p.entry, base |-> p.base,
           time |-> p.time, bar |-> p.bar, sl |-> p.sl, tp |-> p.tp, slPct |-> p.slPct,
           filled |-> p.filled, trail |-> p.trail]
  BY DEF Trade!Entered
<1>3. BarOk(b)
  BY BarIs
<1>4. side \in Sided /\ ~ (strategy.fillAt = "NEXT_OPEN" /\ b.last)
  BY <1>3, Zenon DEF BarOk, Trade!Enters
<1>5. fill \in Prices
  BY <1>3, Zenon DEF BarOk
<1>6. strategy.fillAt = "CLOSE" => fill = b.close
  OBVIOUS
<1>7. bar \in Nat /\ strategy.dca.config \in ConfigType /\ strategy.sl.value \in Nat
      /\ strategy.tp.value \in Nat /\ b.atr \in Nat /\ b.close \in Nat \ {0}
      /\ strategy.dca.config.max \in Nat
  BY <1>3, StrategyIs, TradeConstants DEF TradeShape, BarOk
<1> HIDE DEF side, fill, p
<1>8. /\ entry \in Nat \ {0} /\ fill \in Nat \ {0}
      /\ strategy.cost = 0 => entry = fill
      /\ strategy.dca.on => entry <= strategy.dca.config.base
  BY <1>5, CostlyIs
<1> HIDE DEF entry
<1>9. Trade!Distance(strategy.sl, entry, b.atr) \in Nat /\ Trade!Distance(strategy.tp, entry, b.atr) \in Nat
  BY <1>7, <1>8, DistanceIs
<1>10. /\ sl \in Int /\ tp \in Int /\ Trade!Gain(side, sl, entry) \in Nat
       /\ Trade!AsBad(side, sl, entry) /\ Trade!AsBad(side, entry, tp)
  <2> HIDE DEF Trade!Distance
  <2> QED BY <1>4, <1>8, <1>9 DEF Trade!AsBad, Trade!Gain, Trade!Toward, Sided
<1> HIDE DEF sl, tp
<1>11. slPct \in Nat
  <2> DEFINE gap == Trade!Gain(side, sl, entry)
  <2>1. gap \in Nat
    BY <1>10
  <2> HIDE DEF gap
  <2>2. (gap * 100) \div entry \in Nat
    BY <1>8, <2>1, Quotient
  <2> QED BY <1>7, <2>2 DEF gap
<1> HIDE DEF slPct
<1>12. Laddered(strategy) =>
         /\ now.avg = entry /\ now.sl \in Int /\ now.tp \in Int
         /\ Trade!AsBad(side, now.sl, now.avg) /\ Trade!AsBad(side, now.avg, now.tp)
         /\ entry <= strategy.dca.config.base
  <2> SUFFICES ASSUME Laddered(strategy)
               PROVE  LadderOk(strategy.dca.config, entry, side, slPct, 0)
                      /\ entry <= strategy.dca.config.base
    BY DEF LadderOk
  <2>1. Trade!validateDcaConfig(strategy.dca.config) /\ strategy.dca.on
    BY DEF Laddered
  <2>2. 0 \in 0 .. strategy.dca.config.max /\ entry <= strategy.dca.config.base
    BY <1>7, <1>8, <2>1
  <2> QED BY <1>4, <1>7, <1>8, <1>11, <2>1, <2>2, LadderIs
<1> HIDE DEF now
<1>13. Levelled(p)
  <2>1. CASE Laddered(strategy)
    BY <1>1, <1>12, <2>1, Zenon DEF Levelled
  <2>2. CASE ~ Laddered(strategy)
    BY <1>1, <1>10, <2>2, Zenon DEF Levelled
  <2> QED BY <2>1, <2>2
<1>14. OfFills(strategy, p)
  <2> SUFFICES ASSUME Laddered(strategy)
               PROVE  /\ entry > 0 /\ entry <= strategy.dca.config.base /\ p.entry = now.avg
                      /\ p.sl = now.sl /\ p.tp = now.tp
    BY <1>1, Zenon DEF OfFills, now
  <2> QED BY <1>1, <1>8, <1>12
<1>15. p.sl \in Int /\ p.tp \in Int /\ p.slPct \in Nat /\ p.entry \in Nat /\ p.base \in Nat
       /\ p.raw \in Nat /\ p.time \in Nat /\ p.bar \in Nat /\ p.filled \in 0 .. strategy.dca.config.max
       /\ p.entry > 0 /\ p.time = p.bar
  BY <1>1, <1>7, <1>8, <1>10, <1>11, <1>12
<1>16. p.trail \in TrailShape /\ p.trail.mark > 0
  BY <1>1, <1>7 DEF TrailShape, Trade!Trail
<1>17. p \in PositionOf(strategy)
  <2>1. p.open \in BOOLEAN /\ p.side \in Sided
    BY <1>1, <1>4, Zenon
  <2> QED BY <1>2, <1>15, <1>16, <2>1, Zenon DEF PositionOf
<1>18. p.bar \in {bar, bar + 1} /\ (b.last => p.bar = bar)
  BY <1>1, <1>4, Zenon
<1>19. strategy.fillAt = "CLOSE" /\ strategy.cost = 0 => Trade!AsBad(p.side, p.sl, b.close)
  BY <1>1, <1>6, <1>8, <1>13, Zenon DEF Levelled
<1>20. p.open
  BY <1>1, Zenon
<1>21. HeldOk(strategy, p)
  BY <1>13, <1>14, <1>15, <1>16, Zenon DEF HeldOk
<1> QED BY <1>1, <1>17, <1>18, <1>19, <1>20, <1>21, Zenon DEF EnteredOk, p

\* A set of bounded numbers holds its greatest.
LEMMA MostOf ==
  ASSUME NEW lo \in Nat, NEW hi \in Nat, NEW S \in SUBSET (lo .. hi), S # {}
  PROVE  Trade!Max(S) \in S
<1>1. lo .. hi \in SUBSET Nat
  OBVIOUS
<1> DEFINE T == {hi - x : x \in S}
<1>2. T \in SUBSET Nat /\ T # {}
  OBVIOUS
<1>3. PICK t \in T : \A u \in T : t <= u
  BY <1>2, LeastNatural
<1>4. PICK m \in S : t = hi - m
  BY <1>3
<1>5. ASSUME NEW x \in S PROVE x <= m
  <2>1. hi - x \in T /\ x \in Nat /\ m \in Nat
    BY <1>1
  <2>2. t <= hi - x
    BY <1>3, <2>1
  <2> QED BY <1>4, <2>1, <2>2
<1> QED BY <1>1, <1>4, <1>5 DEF Trade!Max

\* Filling the orders a bar reaches keeps what is said of a position.
LEMMA FilledIs ==
  ASSUME TradeShape, NEW b \in Trade!Bars, position.open, HeldOk(strategy, position)
  PROVE  LET p == Trade!FillReached(position, b)
         IN  /\ p \in PositionOf(strategy) /\ p.open /\ HeldOk(strategy, p)
             /\ p.bar = position.bar /\ p.time = position.time /\ p.trail = position.trail
             /\ ~ Laddered(strategy) => p = position
<1> DEFINE c == strategy.dca.config
           orders == Trade!generateSafetyOrderSchedule(c, position.base, position.side)
           reached == {n \in position.filled .. c.max :
                         \A k \in position.filled + 1 .. n :
                           Trade!AsBad(position.side, Trade!Worst(position.side, b), orders[k].price)}
           m == Trade!Max(reached)
           now == Trade!Ladder(c, position.base, position.side, position.slPct, m)
           p == Trade!FillReached(position, b)
           q == [position EXCEPT !.filled = m, !.entry = now.avg, !.sl = now.sl, !.tp = now.tp]
<1>1. p = IF ~ Laddered(strategy) \/ reached = {position.filled} THEN position ELSE q
  BY Zenon DEF Trade!FillReached, Trade!isDca, Laddered
<1>2. position \in PositionOf(strategy) /\ c \in ConfigType /\ c.max \in Nat
  BY StrategyIs DEF TradeShape
<1>3. position.filled \in 0 .. c.max
  BY <1>2 DEF PositionOf
<1>4. reached \in SUBSET (position.filled .. c.max) /\ reached # {}
  <2>1. position.filled \in position.filled .. c.max
    BY <1>2, <1>3
  <2>2. position.filled \in reached
    BY <1>3, <2>1
  <2> QED BY <2>2
<1> HIDE DEF reached, orders
<1>5. m \in reached
  <2>1. position.filled \in Nat
    BY <1>3
  <2> QED BY <1>2, <1>4, <2>1, MostOf
<1>6. m \in 0 .. c.max
  <2>1. m \in position.filled .. c.max
    BY <1>4, <1>5, Zenon
  <2> HIDE DEF m
  <2> QED BY <1>2, <1>3, <2>1
<1> HIDE DEF m
<1>7. CASE ~ Laddered(strategy) \/ reached = {position.filled}
  <2>1. p = position
    BY <1>1, <1>7, Zenon
  <2> HIDE DEF p
  <2> QED BY <1>2, <2>1, Zenon DEF p
<1>8. CASE Laddered(strategy) /\ ~ (reached = {position.filled})
  <2>1. p = q
    BY <1>1, <1>8, Zenon
  <2>2. /\ position.base \in Nat \ {0} /\ position.base <= c.base /\ position.side \in Sided
        /\ position.slPct \in Nat /\ position.trail \in TrailShape
    <3>1. OfFills(strategy, position)
      BY Zenon DEF HeldOk
    <3>2. position.base > 0 /\ position.base <= c.base
      BY <1>8, <3>1, Zenon DEF OfFills
    <3> QED BY <1>2, <3>2 DEF PositionOf
  <2>3. LadderOk(c, position.base, position.side, position.slPct, m)
    <3>1. Trade!validateDcaConfig(c)
      BY <1>8 DEF Laddered
    <3> QED BY <1>2, <1>6, <2>2, <3>1, LadderIs
  <2>4. /\ now.avg \in Nat \ {0} /\ now.sl \in Int /\ now.tp \in Int
        /\ Trade!AsBad(position.side, now.sl, now.avg) /\ Trade!AsBad(position.side, now.avg, now.tp)
    BY <2>3, Zenon DEF LadderOk
  <2> HIDE DEF now
  <2>5. /\ q.filled = m /\ q.entry = now.avg /\ q.sl = now.sl /\ q.tp = now.tp
        /\ q.open = position.open /\ q.side = position.side /\ q.base = position.base
        /\ q.slPct = position.slPct /\ q.trail = position.trail /\ q.bar = position.bar
        /\ q.time = position.time
    BY <1>2 DEF PositionOf
  <2>6. q \in PositionOf(strategy)
    BY <1>2, <1>6, <2>4 DEF PositionOf
  <2> HIDE DEF q
  <2>7. position.trail.mark > 0 /\ position.time = position.bar
    BY Zenon DEF HeldOk
  <2>8. Levelled(q)
    BY <2>4, <2>5, Zenon DEF Levelled
  <2>9. OfFills(strategy, q)
    <3>1. /\ q.base > 0 /\ q.base <= c.base
          /\ q.entry = now.avg /\ q.sl = now.sl /\ q.tp = now.tp
      BY <2>2, <2>5
    <3>2. now = Trade!Ladder(c, q.base, q.side, q.slPct, q.filled)
      BY <2>5, Zenon DEF now
    <3> QED BY <3>1, <3>2, Zenon DEF OfFills
  <2>10. q.entry > 0 /\ q.trail.mark > 0 /\ q.time = q.bar
    BY <2>4, <2>5, <2>7
  <2>11. HeldOk(strategy, q)
    BY <2>8, <2>9, <2>10, Zenon DEF HeldOk
  <2> QED BY <1>8, <2>1, <2>5, <2>6, <2>11, Zenon DEF p
<1> QED BY <1>7, <1>8, Zenon

\* The mark that is trailed stays a price.
LEMMA TrailIs ==
  ASSUME NEW p \in PositionOf(strategy), NEW b, BarOk(b), p.trail.mark > 0, TradeShape
  PROVE  Trade!TrailAfter(p, b) \in TrailShape /\ Trade!TrailAfter(p, b).mark > 0
<1> DEFINE t == Trade!TrailAfter(p, b)
           best == Trade!Best(p.side, b)
           mark == IF Trade!AsBad(p.side, p.trail.mark, best) THEN best ELSE p.trail.mark
           active == Trade!AsBad(p.side, Trade!Toward(p.side, p.entry,
                       Trade!Percent(p.entry, strategy.trail.activation)), mark)
           stop == IF active THEN Trade!Toward(p.side, mark, -Trade!Percent(mark, strategy.trail.callback))
                   ELSE p.trail.stop
<1>1. t = [mark |-> mark, active |-> p.trail.active \/ active, stop |-> stop]
  BY Zenon DEF Trade!TrailAfter
<1>2. p.trail.mark \in Nat /\ p.trail.stop \in Int /\ p.side \in Sided /\ strategy.trail.callback \in Nat
  BY StrategyIs DEF PositionOf, TrailShape, TradeShape
<1>3. best \in Nat \ {0}
  <2>1. b.high \in Nat \ {0} /\ b.low \in Nat \ {0}
    BY Zenon DEF BarOk
  <2> QED BY <2>1, Zenon DEF Trade!Best
<1> HIDE DEF best
<1>4. mark \in Nat \ {0}
  BY <1>2, <1>3
<1> HIDE DEF mark, active
<1>5. stop \in Int
  <2>1. Trade!Percent(mark, strategy.trail.callback) \in Nat
    BY <1>2, <1>4, PercentIs
  <2>2. Trade!Toward(p.side, mark, -Trade!Percent(mark, strategy.trail.callback)) \in Int
    BY <1>4, <2>1 DEF Trade!Toward
  <2> HIDE DEF Trade!Toward
  <2> QED BY <1>2, <2>2
<1> HIDE DEF stop, t
<1>6. (p.trail.active \/ active) \in BOOLEAN
  OBVIOUS
<1>7. t \in TrailShape
  BY <1>1, <1>4, <1>5, <1>6, Zenon DEF TrailShape
<1>8. t.mark = mark
  BY <1>1
<1> QED BY <1>4, <1>7, <1>8 DEF t

\* An exit is for its reason, at its price.
LEMMA CloseIs == \A r, x : Trade!Close(r, x).reason = r /\ Trade!Close(r, x).price = x
BY DEF Trade!Close

DecideOk(p, b, d) ==
  /\ d.reason \in Trade!Reasons /\ d.price \in Int
  /\ d = Trade!Stay =>
       b.last = FALSE /\ (strategy.maxBars > 0 => bar - p.bar < strategy.maxBars)
  /\ d # Trade!Stay /\ strategy.fillAt = "CLOSE" => Trade!AsBad(p.side, p.sl, d.price)
  /\ d.reason = "sl" => d.price = p.sl
  /\ d.reason = "tp" => d.price = p.tp

\* No exit is beyond the stop; no position is held past its bars or the last bar.
LEMMA DecideIs ==
  ASSUME TradeShape, NEW p \in PositionOf(strategy), HeldOk(strategy, p), NEW b, BarOk(b)
  PROVE  DecideOk(p, b, Trade!Decide(p, b))
<1> DEFINE worst == Trade!Worst(p.side, b)
           stopped == Trade!AsBad(p.side, worst, p.sl)
           stop == Trade!TrailAfter(p, b).stop
           trailed == /\ strategy.trail.on /\ Trade!TrailAfter(p, b).active
                      /\ Trade!AsBad(p.side, worst, stop)
           won == Trade!AsBad(p.side, p.tp, Trade!Best(p.side, b))
           late == strategy.maxBars > 0 /\ bar - p.bar >= strategy.maxBars
           fill == Trade!IndicatorFill(b)
           d == Trade!Decide(p, b)
<1>1. d = IF stopped THEN Trade!Close("sl", p.sl)
          ELSE IF trailed THEN Trade!Close("trailing_stop", stop)
          ELSE IF b.exit THEN Trade!Close("indicator_exit", fill)
          ELSE IF won THEN Trade!Close("tp", p.tp)
          ELSE IF late THEN Trade!Close("time_exit", b.close)
          ELSE IF b.last THEN Trade!Close("end_of_data", b.close)
          ELSE Trade!Stay
  BY Zenon DEF Trade!Decide
<1>2. /\ p.sl \in Int /\ p.tp \in Int /\ p.side \in Sided /\ p.entry \in Nat /\ p.bar \in Nat
      /\ p.trail.mark > 0 /\ Levelled(p)
  BY Zenon DEF PositionOf, HeldOk
<1>3. stop \in Int
  BY <1>2, TrailIs DEF TrailShape
<1>4. /\ b.close \in Nat /\ b.open \in Nat /\ b.next \in Nat /\ b.low \in Nat /\ b.high \in Nat
      /\ b.low <= b.close /\ b.close <= b.high
  <2>1. /\ b.close \in Prices /\ b.open \in Prices /\ b.next \in Prices
        /\ b.low \in Nat \ {0} /\ b.high \in Nat \ {0}
        /\ b.low <= b.close /\ b.close <= b.high
    BY Zenon DEF BarOk
  <2>2. Prices \subseteq Nat \ {0}
    BY TradeConstants
  <2> QED BY <2>1, <2>2
<1>5. fill \in Int /\ (strategy.fillAt = "CLOSE" => fill = b.close)
  <2>1. fill \in Nat /\ (strategy.fillAt = "CLOSE" => fill = b.close)
    BY <1>4, Zenon DEF Trade!IndicatorFill
  <2> HIDE DEF fill
  <2> QED BY <2>1
<1>6. worst \in Int /\ Trade!AsBad(p.side, worst, b.close)
  BY <1>2, <1>4 DEF Trade!Worst, Trade!AsBad, Trade!Gain, Sided
<1>7. ~ stopped => Trade!AsBad(p.side, p.sl, b.close)
  <2> HIDE DEF worst
  <2> QED BY <1>2, <1>4, <1>6 DEF Trade!AsBad, Trade!Gain
<1>8. ~ stopped /\ trailed => Trade!AsBad(p.side, p.sl, stop)
  <2> HIDE DEF worst, stop
  <2>1. trailed => Trade!AsBad(p.side, worst, stop)
    OBVIOUS
  <2> HIDE DEF trailed
  <2> QED BY <1>2, <1>3, <1>6, <2>1 DEF Trade!AsBad, Trade!Gain
<1>9. Trade!AsBad(p.side, p.sl, p.sl) /\ Trade!AsBad(p.side, p.sl, p.tp)
  BY <1>2 DEF Levelled, Trade!AsBad, Trade!Gain
<1>10. Trade!Stay.reason = "none" /\ Trade!Stay.price \in Int
  BY DEF Trade!Stay
<1>11. ~ late => (strategy.maxBars > 0 => bar - p.bar < strategy.maxBars)
  <2>1. bar \in Nat /\ strategy.maxBars \in Nat
    BY StrategyIs, TradeConstants DEF TradeShape
  <2> QED BY <1>2, <2>1
<1>12. b.close \in Int /\ b.last \in BOOLEAN
  <2>1. b.last \in BOOLEAN
    BY Zenon DEF BarOk
  <2> QED BY <1>4, <2>1
<1> HIDE DEF worst, stopped, stop, trailed, won, late, fill, d
<1>13. CASE stopped
  <2>1. d.reason = "sl" /\ d.price = p.sl
    BY <1>1, <1>13, CloseIs, Zenon
  <2> QED BY <1>2, <1>9, <1>10, <2>1 DEF DecideOk, Trade!Reasons, d
<1>14. CASE ~ stopped /\ trailed
  <2>1. d.reason = "trailing_stop" /\ d.price = stop
    BY <1>1, <1>14, CloseIs, Zenon
  <2> QED BY <1>3, <1>8, <1>10, <1>14, <2>1 DEF DecideOk, Trade!Reasons, d
<1>15. CASE ~ stopped /\ ~ trailed /\ b.exit
  <2>1. d.reason = "indicator_exit" /\ d.price = fill
    BY <1>1, <1>15, CloseIs, Zenon
  <2>2. strategy.fillAt = "CLOSE" => Trade!AsBad(p.side, p.sl, d.price)
    BY <1>5, <1>7, <1>15, <2>1, Zenon
  <2> QED BY <1>5, <1>10, <2>1, <2>2 DEF DecideOk, Trade!Reasons, d
<1>16. CASE ~ stopped /\ ~ trailed /\ ~ b.exit /\ won
  <2>1. d.reason = "tp" /\ d.price = p.tp
    BY <1>1, <1>16, CloseIs, Zenon
  <2> QED BY <1>2, <1>9, <1>10, <2>1 DEF DecideOk, Trade!Reasons, d
<1>17. CASE ~ stopped /\ ~ trailed /\ ~ b.exit /\ ~ won /\ late
  <2>1. d.reason = "time_exit" /\ d.price = b.close
    BY <1>1, <1>17, CloseIs, Zenon
  <2> QED BY <1>7, <1>10, <1>12, <1>17, <2>1 DEF DecideOk, Trade!Reasons, d
<1>18. CASE ~ stopped /\ ~ trailed /\ ~ b.exit /\ ~ won /\ ~ late /\ b.last
  <2>1. d.reason = "end_of_data" /\ d.price = b.close
    BY <1>1, <1>18, CloseIs, Zenon
  <2> QED BY <1>7, <1>10, <1>12, <1>18, <2>1 DEF DecideOk, Trade!Reasons, d
<1>19. CASE ~ stopped /\ ~ trailed /\ ~ b.exit /\ ~ won /\ ~ late /\ ~ b.last
  <2>1. d = Trade!Stay
    BY <1>1, <1>19, Zenon
  <2>2. b.last = FALSE
    BY <1>12, <1>19, Zenon
  <2> HIDE DEF d
  <2> QED BY <1>10, <1>11, <1>19, <2>1, <2>2 DEF DecideOk, Trade!Reasons, d
<1> QED BY <1>13, <1>14, <1>15, <1>16, <1>17, <1>18, <1>19, Zenon

\* What is said of a trade, with the strategy t, before bar n.
TradeOk(t, n, r) ==
  /\ r.exitTime >= r.entryTime /\ r.exitTime <= n
  /\ t.maxBars > 0 => r.held <= t.maxBars
  /\ r # Trade!NoTrade /\ t.fillAt = "CLOSE" /\ (r.held > 0 \/ t.cost = 0) =>
       Trade!AsBad(r.side, r.sl, r.rawExit)
  /\ t.cost = 0 /\ r.outcome = "WIN" => Trade!AsBad(r.side, r.entry, r.rawExit)
  /\ t.cost = 0 /\ r.outcome = "LOSS" => Trade!AsBad(r.side, r.rawExit, r.entry)

\* Without costs nothing is taken off an exit.
LEMMA ShavedIs ==
  ASSUME TradeShape, NEW x \in Int
  PROVE  Trade!Shaved(x) \in Int /\ (strategy.cost = 0 => Trade!Shaved(x) = x)
<1>1. strategy.cost \in Nat
  BY StrategyIs DEF TradeShape
<1>2. \A u \in Int : \A v \in Nat : u * v \in Int /\ (u * v) \div 100 \in Int
  OBVIOUS
<1>3. Trade!Percent(x, strategy.cost) \in Int
  BY <1>1, <1>2, Zenon DEF Trade!Percent
<1>4. strategy.cost = 0 => Trade!Percent(x, strategy.cost) = 0
  BY DEF Trade!Percent
<1> HIDE DEF Trade!Percent
<1> QED BY <1>3, <1>4 DEF Trade!Shaved

\* A win is above the entry and a loss below it, without costs.
LEMMA OutcomeIs ==
  ASSUME TradeShape, NEW p \in PositionOf(strategy), Levelled(p), NEW d, d.price \in Int,
         d.reason = "sl" => d.price = p.sl, d.reason = "tp" => d.price = p.tp
  PROVE  /\ Trade!Outcome(p, d) \in {"WIN", "LOSS", "NEUTRAL"}
         /\ strategy.cost = 0 /\ Trade!Outcome(p, d) = "WIN" => Trade!AsBad(p.side, p.entry, d.price)
         /\ strategy.cost = 0 /\ Trade!Outcome(p, d) = "LOSS" => Trade!AsBad(p.side, d.price, p.entry)
<1> DEFINE gain == Trade!Gain(p.side, p.entry, Trade!Shaved(d.price))
           o == Trade!Outcome(p, d)
<1>1. o = CASE d.reason = "sl" -> "LOSS"
            [] d.reason = "tp" -> "WIN"
            [] d.reason = "trailing_stop" ->
                 IF Trade!AsBad(p.side, p.entry, d.price) THEN "WIN" ELSE "LOSS"
            [] OTHER -> IF gain > 0 THEN "WIN" ELSE IF gain < 0 THEN "LOSS" ELSE "NEUTRAL"
  BY Zenon DEF Trade!Outcome
<1>2. p.entry \in Nat /\ p.side \in Sided /\ p.sl \in Int /\ p.tp \in Int
  BY Zenon DEF PositionOf
<1>3. Trade!Shaved(d.price) \in Int /\ (strategy.cost = 0 => Trade!Shaved(d.price) = d.price)
  BY ShavedIs
<1>4. /\ gain \in Int
      /\ strategy.cost = 0 /\ gain > 0 => Trade!AsBad(p.side, p.entry, d.price)
      /\ strategy.cost = 0 /\ gain < 0 => Trade!AsBad(p.side, d.price, p.entry)
      /\ Trade!AsBad(p.side, p.entry, d.price) \/ Trade!AsBad(p.side, d.price, p.entry)
  <2> HIDE DEF Trade!Shaved
  <2> QED BY <1>2, <1>3 DEF Trade!AsBad, Trade!Gain
<1>5. Trade!AsBad(p.side, p.sl, p.entry) /\ Trade!AsBad(p.side, p.entry, p.tp)
  BY DEF Levelled
<1> HIDE DEF gain, o
<1>6. CASE d.reason = "sl"
  <2>1. o = "LOSS"
    BY <1>1, <1>6
  <2> QED BY <1>5, <1>6, <2>1 DEF o
<1>7. CASE d.reason = "tp"
  <2>1. o = "WIN"
    BY <1>1, <1>7
  <2> QED BY <1>5, <1>7, <2>1 DEF o
<1>8. CASE d.reason = "trailing_stop"
  <2>1. o = IF Trade!AsBad(p.side, p.entry, d.price) THEN "WIN" ELSE "LOSS"
    BY <1>1, <1>8
  <2> HIDE DEF Trade!AsBad
  <2> QED BY <1>4, <1>8, <2>1 DEF o
<1>9. CASE d.reason \notin {"sl", "tp", "trailing_stop"}
  <2>1. o = IF gain > 0 THEN "WIN" ELSE IF gain < 0 THEN "LOSS" ELSE "NEUTRAL"
    BY <1>1, <1>9
  <2> HIDE DEF Trade!AsBad
  <2> QED BY <1>4, <1>9, <2>1 DEF o
<1> QED BY <1>6, <1>7, <1>8, <1>9

\* A position p may be left as d says.
LeaveOk(p, d) ==
  /\ d.price \in Int /\ d.reason \in Trade!Reasons
  /\ strategy.fillAt = "CLOSE" /\ (bar - p.bar > 0 \/ strategy.cost = 0) =>
       Trade!AsBad(p.side, p.sl, d.price)
  /\ d.reason = "sl" => d.price = p.sl
  /\ d.reason = "tp" => d.price = p.tp

\* The trade that is recorded is what the position and the exit say.
LEMMA TradeIs ==
  ASSUME TradeShape, NEW b, BarOk(b), NEW p \in PositionOf(strategy), HeldOk(strategy, p),
         p.bar <= bar, strategy.maxBars > 0 => bar - p.bar <= strategy.maxBars,
         NEW d, LeaveOk(p, d), Trade!recordTrade(p, d, b)
  PROVE  trade' \in Traded /\ TradeOk(strategy, bar + 1, trade')
<1> DEFINE at == Trade!ExitTime(d, b)
           exit == Trade!Shaved(d.price)
           o == Trade!Outcome(p, d)
<1>1. PICK r : r = trade'
  OBVIOUS
<1>2. r = [entryTime |-> p.time, exitTime |-> at, side |-> p.side, raw |-> p.raw,
           entry |-> p.entry, rawExit |-> d.price, exit |-> exit, sl |-> p.sl,
           outcome |-> o, reason |-> d.reason, held |-> bar - p.bar]
  BY <1>1, Zenon DEF Trade!recordTrade
<1>3. /\ p.time \in Nat /\ p.side \in Sided /\ p.raw \in Nat /\ p.entry \in Nat /\ p.sl \in Int
      /\ p.bar \in Nat /\ p.time = p.bar /\ Levelled(p)
  BY Zenon DEF PositionOf, HeldOk
<1>4. /\ d.price \in Int /\ d.reason \in Trade!Reasons
      /\ strategy.fillAt = "CLOSE" /\ (bar - p.bar > 0 \/ strategy.cost = 0) =>
           Trade!AsBad(p.side, p.sl, d.price)
      /\ d.reason = "sl" => d.price = p.sl
      /\ d.reason = "tp" => d.price = p.tp
  BY Zenon DEF LeaveOk
<1>5. bar \in Nat
  BY TradeConstants DEF TradeShape
<1>6. at = bar \/ at = bar + 1
  BY Zenon DEF Trade!ExitTime
<1>7. exit \in Int
  BY <1>4, ShavedIs
<1>8. /\ o \in {"WIN", "LOSS", "NEUTRAL"}
      /\ strategy.cost = 0 /\ o = "WIN" => Trade!AsBad(p.side, p.entry, d.price)
      /\ strategy.cost = 0 /\ o = "LOSS" => Trade!AsBad(p.side, d.price, p.entry)
  BY <1>3, <1>4, OutcomeIs
<1> HIDE DEF at, exit, o
<1>9. at \in Nat /\ bar - p.bar \in Nat /\ at >= p.time /\ at <= bar + 1
  BY <1>3, <1>5, <1>6
<1>10. r \in Traded
  BY <1>2, <1>3, <1>4, <1>7, <1>8, <1>9, Zenon DEF Traded
<1>11. /\ r.entryTime = p.time /\ r.exitTime = at /\ r.side = p.side /\ r.entry = p.entry
       /\ r.rawExit = d.price /\ r.sl = p.sl /\ r.outcome = o /\ r.held = bar - p.bar
  BY <1>2, Zenon
<1>12. /\ r.exitTime >= r.entryTime /\ r.exitTime <= bar + 1
       /\ strategy.maxBars > 0 => r.held <= strategy.maxBars
  BY <1>9, <1>11
<1>13. TradeOk(strategy, bar + 1, r)
  BY <1>4, <1>8, <1>11, <1>12, Zenon DEF TradeOk
<1> QED BY <1>1, <1>10, <1>13

\* The live worker trails a mark as well.
LEMMA LiveTrailIs ==
  ASSUME TradeShape, NEW b, BarOk(b), NEW t \in TrailShape
  PROVE  Trade!LiveTrail(t, b) \in TrailShape
<1> DEFINE high == IF position.side = "long" /\ b.high > t.mark THEN b.high
                   ELSE IF position.side = "short" /\ b.low < t.mark THEN b.low ELSE t.mark
           reached == IF position.side = "long"
                      THEN high >= position.entry + Trade!Percent(position.entry, strategy.trail.activation)
                      ELSE high <= position.entry - Trade!Percent(position.entry, strategy.trail.activation)
           back == Trade!Percent(high, strategy.trail.callback)
           stop == IF ~reached THEN t.stop ELSE IF position.side = "long" THEN high - back ELSE high + back
           r == Trade!LiveTrail(t, b)
<1>1. r = [mark |-> high, active |-> t.active \/ reached, stop |-> stop]
  BY Zenon DEF Trade!LiveTrail
<1>2. t.mark \in Nat /\ t.stop \in Int /\ strategy.trail.callback \in Nat
  BY StrategyIs DEF TrailShape, TradeShape
<1>3. b.high \in Nat /\ b.low \in Nat
  <2>1. b.high \in Nat \ {0} /\ b.low \in Nat \ {0}
    BY Zenon DEF BarOk
  <2> QED BY <2>1
<1>4. high \in Nat
  BY <1>2, <1>3
<1> HIDE DEF high, reached
<1>5. back \in Nat
  BY <1>2, <1>4, PercentIs
<1> HIDE DEF back
<1>6. stop \in Int
  BY <1>2, <1>4, <1>5
<1> HIDE DEF stop, r
<1>7. (t.active \/ reached) \in BOOLEAN
  OBVIOUS
<1>8. r \in TrailShape
  BY <1>1, <1>4, <1>6, <1>7, Zenon DEF TrailShape
<1> QED BY <1>8 DEF r

\* Following the price from one mark, the two engines hold one trailing state.
LEMMA TrailsAgree ==
  ASSUME TradeShape, NEW b, BarOk(b)
  PROVE  Trade!LiveTrail(position.trail, b) = Trade!TrailAfter(position, b)
<1> DEFINE p == position
           t == position.trail
           gap == Trade!Percent(p.entry, strategy.trail.activation)
           high == IF p.side = "long" /\ b.high > t.mark THEN b.high
                   ELSE IF p.side = "short" /\ b.low < t.mark THEN b.low ELSE t.mark
           reached == IF p.side = "long" THEN high >= p.entry + gap ELSE high <= p.entry - gap
           back == Trade!Percent(high, strategy.trail.callback)
           best == Trade!Best(p.side, b)
           mark == IF Trade!AsBad(p.side, t.mark, best) THEN best ELSE t.mark
           active == Trade!AsBad(p.side, Trade!Toward(p.side, p.entry, gap), mark)
<1>1. Trade!LiveTrail(t, b) =
        [mark |-> high, active |-> t.active \/ reached,
         stop |-> IF ~reached THEN t.stop ELSE IF p.side = "long" THEN high - back ELSE high + back]
  BY Zenon DEF Trade!LiveTrail
<1>2. Trade!TrailAfter(p, b) =
        [mark |-> mark, active |-> t.active \/ active,
         stop |-> IF active THEN Trade!Toward(p.side, mark, -Trade!Percent(mark, strategy.trail.callback))
                  ELSE t.stop]
  BY Zenon DEF Trade!TrailAfter
<1>3. t.mark \in Nat /\ strategy.trail.callback \in Nat /\ strategy.trail.activation \in Nat
      /\ p.entry \in Nat /\ p.side \in Sided
  BY StrategyIs DEF TrailShape, TradeShape, PositionOf
<1>4. b.high \in Nat /\ b.low \in Nat
  <2>1. b.high \in Nat \ {0} /\ b.low \in Nat \ {0}
    BY Zenon DEF BarOk
  <2> QED BY <2>1
<1>5. gap \in Nat
  BY <1>3, PercentIs
<1> HIDE DEF gap
<1>6. best \in Nat /\ (p.side = "long" => best = b.high) /\ (p.side # "long" => best = b.low)
  BY <1>4 DEF Trade!Best
<1> HIDE DEF best
<1>7. high = mark /\ high \in Nat
  BY <1>3, <1>4, <1>6 DEF Trade!AsBad, Trade!Gain, Sided
<1> HIDE DEF high, mark
<1>8. reached <=> active
  BY <1>3, <1>5, <1>7 DEF Trade!AsBad, Trade!Gain, Trade!Toward, Sided
<1>9. back \in Nat
  BY <1>3, <1>7, PercentIs
<1> HIDE DEF reached, active
<1>10. Trade!Toward(p.side, mark, -Trade!Percent(mark, strategy.trail.callback))
         = IF p.side = "long" THEN high - back ELSE high + back
  <2>1. back = Trade!Percent(mark, strategy.trail.callback)
    BY <1>7
  <2> HIDE DEF back
  <2> QED BY <1>7, <1>9, <2>1 DEF Trade!Toward
<1> HIDE DEF back
<1> QED BY <1>1, <1>2, <1>7, <1>8, <1>10, Zenon

\* The exit engine of the live worker on the trailing state of the backtest.
LEMMA ExitsAgree ==
  ASSUME TradeShape, NEW b, BarOk(b), strategy.fillAt = "CLOSE"
  PROVE  LET d == Trade!Decide(position, b)
             e == Trade!evaluateExit(position.trail, b)
         IN  d = e \/ (d = Trade!Close("end_of_data", b.close) /\ e = Trade!Stay)
<1> DEFINE p == position
           worst == Trade!Worst(p.side, b)
           trail == Trade!TrailAfter(p, b)
           stopped == Trade!AsBad(p.side, worst, p.sl)
           trailed == strategy.trail.on /\ trail.active /\ Trade!AsBad(p.side, worst, trail.stop)
           won == Trade!AsBad(p.side, p.tp, Trade!Best(p.side, b))
           late == strategy.maxBars > 0 /\ bar - p.bar >= strategy.maxBars
           stops(price) == IF p.side = "long" THEN b.low <= price ELSE b.high >= price
           wins == IF p.side = "long" THEN b.high >= p.tp ELSE b.low <= p.tp
           d == Trade!Decide(p, b)
           e == Trade!evaluateExit(p.trail, b)
<1>1. d = IF stopped THEN Trade!Close("sl", p.sl)
          ELSE IF trailed THEN Trade!Close("trailing_stop", trail.stop)
          ELSE IF b.exit THEN Trade!Close("indicator_exit", Trade!IndicatorFill(b))
          ELSE IF won THEN Trade!Close("tp", p.tp)
          ELSE IF late THEN Trade!Close("time_exit", b.close)
          ELSE IF b.last THEN Trade!Close("end_of_data", b.close)
          ELSE Trade!Stay
  BY Zenon DEF Trade!Decide
<1>2. Trade!LiveTrail(p.trail, b) = trail
  BY TrailsAgree
<1>3. e = IF stops(p.sl) THEN Trade!Close("sl", p.sl)
          ELSE IF strategy.trail.on /\ trail.active /\ stops(trail.stop)
            THEN Trade!Close("trailing_stop", trail.stop)
          ELSE IF b.exit THEN Trade!Close("indicator_exit", b.close)
          ELSE IF wins THEN Trade!Close("tp", p.tp)
          ELSE IF late THEN Trade!Close("time_exit", b.close)
          ELSE Trade!Stay
  BY <1>2, Zenon DEF Trade!evaluateExit
<1>4. Trade!IndicatorFill(b) = b.close
  BY DEF Trade!IndicatorFill
<1>5. b.high \in Nat /\ b.low \in Nat
  <2>1. b.high \in Nat \ {0} /\ b.low \in Nat \ {0}
    BY Zenon DEF BarOk
  <2> QED BY <2>1
<1>6. p.sl \in Int /\ p.tp \in Int
  BY DEF TradeShape, PositionOf
<1>7. \A price \in Int : Trade!AsBad(p.side, worst, price) <=> stops(price)
  BY <1>5 DEF Trade!AsBad, Trade!Gain, Trade!Worst
<1>8. won <=> wins
  BY <1>5, <1>6 DEF Trade!AsBad, Trade!Gain, Trade!Best
<1>9. trail.stop \in Int
  <2>1. p.trail \in TrailShape
    BY DEF TradeShape, PositionOf
  <2> HIDE DEF trail, p
  <2> QED BY <1>2, <2>1, LiveTrailIs DEF TrailShape
<1> HIDE DEF trail, worst
<1>10. /\ stopped <=> stops(p.sl)
       /\ trailed <=> strategy.trail.on /\ trail.active /\ stops(trail.stop)
  BY <1>6, <1>7, <1>9, Zenon
<1> HIDE DEF stops, wins, won, late, stopped, trailed, d, e
<1>11. d = e \/ (d = Trade!Close("end_of_data", b.close) /\ e = Trade!Stay)
  BY <1>1, <1>3, <1>4, <1>8, <1>10, Zenon
<1> QED BY <1>11 DEF d, e

Mirrors(t, k) == t.fillAt = "CLOSE" /\ ~ Laddered(t) /\ k = 0
TradeInvOf(t, n, o, p, r, e, l, v, k) ==
  /\ t \in Strategies /\ n \in 1 .. MaxBars + 1 /\ o \in Prices
  /\ p \in PositionOf(t) /\ r \in Traded
  /\ e \in BOOLEAN /\ (~ e => n <= MaxBars)
  /\ l \in TrailShape /\ k \in 0 .. MaxRestarts
  /\ PositionOk(t, n, p) /\ TradeOk(t, n, r)
  /\ p.open => p.time >= r.exitTime
  /\ Mirrors(t, k) /\ p.open => l = p.trail
  /\ Mirrors(t, k) /\ v[1].reason # "end_of_data" => v[1] = v[2]
TradeIInv ==
  TradeInvOf(strategy, bar, opening, position, trade, ended, trailing, verdicts, restarts)

\* The invariant gives every variable its type.
LEMMA TradeShaped == TradeIInv => TradeShape
BY Zenon DEF TradeIInv, TradeInvOf, TradeShape

\* No position is a position that is not open.
LEMMA OutIs ==
  ASSUME NEW t \in Strategies, NEW n
  PROVE  Trade!NoPosition \in PositionOf(t) /\ PositionOk(t, n, Trade!NoPosition)
         /\ Trade!NoTrail \in TrailShape /\ ~ Trade!NoPosition.open
<1>1. 0 \in 0 .. t.dca.config.max
  BY StrategyIs
<1>2. Trade!NoTrail \in TrailShape
  BY DEF Trade!NoTrail, TrailShape
<1>3. Trade!NoPosition.open = FALSE
  BY DEF Trade!NoPosition
<1>4. Trade!NoPosition \in PositionOf(t)
  <2>1. "long" \in Sided /\ FALSE \in BOOLEAN /\ 0 \in Nat /\ 0 \in Int
    BY DEF Sided
  <2> QED BY <1>1, <1>2, <2>1, Zenon DEF Trade!NoPosition, PositionOf
<1>5. PositionOk(t, n, Trade!NoPosition)
  BY <1>3, Zenon DEF PositionOk
<1> QED BY <1>2, <1>3, <1>4, <1>5, Zenon

\* A backtest begins flat.
LEMMA TradeInit == Trade!Init => TradeIInv
<1> SUFFICES ASSUME Trade!Init PROVE TradeIInv
  OBVIOUS
<1>1. /\ strategy \in Strategies /\ bar = 1 /\ opening \in Prices /\ ended = FALSE
      /\ position = Trade!NoPosition /\ trade = Trade!NoTrade
      /\ trailing = Trade!NoTrail /\ verdicts = <<Trade!Stay, Trade!Stay>> /\ restarts = 0
  BY Zenon DEF Trade!Init
<1>2. /\ position \in PositionOf(strategy) /\ PositionOk(strategy, bar, position)
      /\ trailing \in TrailShape /\ ~ position.open
  BY <1>1, OutIs
<1>3. trade \in Traded
  BY <1>1 DEF Trade!NoTrade, Traded, Trade!Reasons, Sided
<1>4. TradeOk(strategy, bar, trade)
  <2>1. trade.exitTime = 0 /\ trade.entryTime = 0 /\ trade.held = 0 /\ trade.outcome = "NEUTRAL"
    BY <1>1 DEF Trade!NoTrade
  <2>2. strategy.maxBars \in Nat
    BY <1>1, StrategyIs
  <2>3. /\ trade.exitTime >= trade.entryTime /\ trade.exitTime <= bar
        /\ strategy.maxBars > 0 => trade.held <= strategy.maxBars
    BY <1>1, <2>1, <2>2
  <2>4. trade.outcome # "WIN" /\ trade.outcome # "LOSS"
    BY <2>1
  <2> QED BY <1>1, <2>3, <2>4, Zenon DEF TradeOk
<1>5. verdicts[1] = verdicts[2]
  BY <1>1
<1>6. /\ bar \in 1 .. MaxBars + 1 /\ bar <= MaxBars /\ restarts \in 0 .. MaxRestarts
      /\ ended \in BOOLEAN
  <2>1. MaxBars \in Nat \ {0} /\ MaxRestarts \in Nat
    BY TradeConstants, Zenon
  <2>2. bar = 1 /\ restarts = 0
    BY <1>1
  <2>3. bar \in 1 .. MaxBars + 1 /\ bar <= MaxBars /\ restarts \in 0 .. MaxRestarts
    BY <2>1, <2>2
  <2>4. ended \in BOOLEAN
    BY <1>1, Zenon
  <2> QED BY <2>3, <2>4
<1> QED BY <1>1, <1>2, <1>3, <1>4, <1>5, <1>6, Zenon DEF TradeIInv, TradeInvOf

\* What a bar does to the clock.
LEMMA ClockIs ==
  ASSUME TradeIInv, NEW b, BarOk(b), ~ ended
  PROVE  /\ bar \in Nat /\ bar + 1 \in 1 .. MaxBars + 1 /\ b.next \in Prices
         /\ b.last \in BOOLEAN /\ (~ b.last => bar + 1 <= MaxBars)
         /\ strategy.maxBars \in Nat
<1>1. bar \in 1 .. MaxBars + 1 /\ bar <= MaxBars /\ strategy \in Strategies
  BY Zenon DEF TradeIInv, TradeInvOf
<1>2. MaxBars \in Nat \ {0} /\ strategy.maxBars \in Nat
  BY <1>1, TradeConstants, StrategyIs
<1>3. b.next \in Prices /\ b.last \in BOOLEAN /\ (bar = MaxBars => b.last)
  BY Zenon DEF BarOk
<1>4. ~ b.last => bar # MaxBars
  BY <1>3, Zenon
<1>5. bar # MaxBars => bar + 1 <= MaxBars
  BY <1>1, <1>2
<1>6. bar \in Nat /\ bar + 1 \in 1 .. MaxBars + 1
  BY <1>1, <1>2
<1> QED BY <1>2, <1>3, <1>4, <1>5, <1>6, Zenon

\* A trade stays what it was as the bars go on.
LEMMA TradeStays ==
  ASSUME NEW t \in Strategies, NEW n \in Nat, NEW r \in Traded, TradeOk(t, n, r)
  PROVE  TradeOk(t, n + 1, r)
<1>1. r.exitTime \in Nat /\ r.exitTime <= n
  BY DEF Traded, TradeOk
<1>2. r.exitTime <= n + 1
  BY <1>1
<1> QED BY <1>2, Zenon DEF TradeOk

\* A bar on which nothing is held, whether one is entered or not.
LEMMA LookKeeps ==
  ASSUME TradeIInv, NEW b \in Trade!Bars, ~ ended, Trade!Look(b), ended' = b.last,
         opening' = b.next, bar' = bar + 1, strategy' = strategy, restarts' = restarts
  PROVE  TradeIInv'
<1>1. /\ strategy \in Strategies /\ bar \in 1 .. MaxBars + 1 /\ opening \in Prices
      /\ position \in PositionOf(strategy) /\ trade \in Traded
      /\ restarts \in 0 .. MaxRestarts
      /\ PositionOk(strategy, bar, position) /\ TradeOk(strategy, bar, trade)
  BY Zenon DEF TradeIInv, TradeInvOf
<1>2. TradeShape
  BY TradeShaped
<1>3. BarOk(b)
  BY <1>2, BarIs
<1>4. /\ bar \in Nat /\ bar + 1 \in 1 .. MaxBars + 1 /\ b.next \in Prices
      /\ b.last \in BOOLEAN /\ (~ b.last => bar + 1 <= MaxBars) /\ strategy.maxBars \in Nat
  BY <1>3, ClockIs
<1>5. b.close \in Nat \ {0}
  BY <1>3, Zenon DEF BarOk
<1>6. /\ ~ position.open
      /\ trailing' = (IF Trade!Enters(b) /\ ~ b.last THEN Trade!Trail(b.close) ELSE Trade!NoTrail)
      /\ verdicts' = <<Trade!Stay, Trade!Stay>>
  BY Zenon DEF Trade!Look, Trade!createTrailingStopState
<1>7. verdicts'[1] = verdicts'[2]
  BY <1>6
<1>8. TradeOk(strategy, bar + 1, trade)
  BY <1>1, <1>4, TradeStays
<1>9. Trade!Trail(b.close) \in TrailShape /\ Trade!NoTrail \in TrailShape
  <2>1. b.close \in Nat
    BY <1>5
  <2>2. Trade!Trail(b.close) \in TrailShape
    BY <2>1 DEF Trade!Trail, TrailShape
  <2> QED BY <1>1, <2>2, OutIs
<1>10. trailing' \in TrailShape
  BY <1>6, <1>9, Zenon
<1> SUFFICES /\ position' \in PositionOf(strategy) /\ PositionOk(strategy, bar + 1, position')
             /\ trade' \in Traded /\ TradeOk(strategy, bar + 1, trade')
             /\ position'.open => position'.time >= trade'.exitTime
             /\ position'.open => trailing' = position'.trail
  BY <1>1, <1>4, <1>7, <1>10, Zenon DEF TradeIInv, TradeInvOf
<1>11. CASE ~ Trade!Enters(b)
  <2>1. position' = position /\ trade' = trade
    BY <1>11, Zenon DEF Trade!Look
  <2>2. ~ position'.open
    BY <1>6, <2>1, Zenon
  <2>3. PositionOk(strategy, bar + 1, position')
    BY <2>2, Zenon DEF PositionOk
  <2> QED BY <1>1, <1>8, <2>1, <2>2, <2>3, Zenon
<1>12. CASE Trade!Enters(b) /\ b.last
  <2> DEFINE d == Trade!Close("end_of_data", b.close)
  <2>1. Trade!Leave(Trade!Entered(b), d, b)
    BY <1>12, Zenon DEF Trade!Look
  <2>2. PICK p : p = Trade!Entered(b)
    OBVIOUS
  <2>3. EnteredOk(b, p)
    BY <1>2, <1>12, <2>2, EnteredIs
  <2>4. position' = Trade!NoPosition /\ Trade!recordTrade(p, d, b)
    BY <2>1, <2>2, Zenon DEF Trade!Leave
  <2>5. /\ p \in PositionOf(strategy) /\ HeldOk(strategy, p) /\ p.bar = bar
        /\ strategy.fillAt = "CLOSE" /\ strategy.cost = 0 => Trade!AsBad(p.side, p.sl, b.close)
    BY <1>12, <2>3, Zenon DEF EnteredOk
  <2>6. d.reason = "end_of_data" /\ d.price = b.close
    BY CloseIs
  <2> HIDE DEF d
  <2>7. p.bar <= bar /\ bar - p.bar = 0 /\ ~ (bar - p.bar > 0)
        /\ (strategy.maxBars > 0 => bar - p.bar <= strategy.maxBars)
    BY <1>4, <2>5
  <2>8. LeaveOk(p, d)
    <3>1. d.price \in Int /\ d.reason \in Trade!Reasons
      BY <1>5, <2>6 DEF Trade!Reasons
    <3>2. d.reason # "sl" /\ d.reason # "tp"
      BY <2>6
    <3> QED BY <2>5, <2>6, <2>7, <3>1, <3>2, Zenon DEF LeaveOk
  <2>9. trade' \in Traded /\ TradeOk(strategy, bar + 1, trade')
    BY <1>2, <1>3, <2>4, <2>5, <2>7, <2>8, TradeIs
  <2>10. /\ position' \in PositionOf(strategy) /\ PositionOk(strategy, bar + 1, position')
         /\ ~ position'.open
    BY <1>1, <2>4, OutIs, Zenon
  <2> QED BY <2>9, <2>10, Zenon
<1>13. CASE Trade!Enters(b) /\ ~ b.last
  <2>1. position' = Trade!Entered(b) /\ trade' = trade
    BY <1>13, Zenon DEF Trade!Look
  <2>2. PICK p : p = position'
    OBVIOUS
  <2>3. EnteredOk(b, p)
    BY <1>2, <1>13, <2>1, <2>2, EnteredIs
  <2>4. /\ p \in PositionOf(strategy) /\ HeldOk(strategy, p) /\ p.bar \in {bar, bar + 1}
        /\ p.trail = Trade!Trail(b.close)
    BY <2>3, Zenon DEF EnteredOk
  <2>5. p.time = p.bar /\ trade.exitTime \in Nat /\ trade.exitTime <= bar
    BY <1>1, <2>4, Zenon DEF HeldOk, Traded, TradeOk
  <2>6. p.bar <= bar + 1 /\ p.time >= trade.exitTime
        /\ (strategy.maxBars > 0 => (bar + 1) - p.bar <= strategy.maxBars)
    BY <1>4, <2>4, <2>5
  <2>7. PositionOk(strategy, bar + 1, p)
    BY <2>4, <2>6, Zenon DEF PositionOk
  <2>8. trailing' = p.trail
    BY <1>6, <1>13, <2>4, Zenon
  <2> QED BY <1>1, <1>8, <2>1, <2>2, <2>4, <2>6, <2>7, <2>8, Zenon
<1> QED BY <1>11, <1>12, <1>13, Zenon

\* What the live worker makes of its trailing state.
LEMMA TickIs ==
  ASSUME TradeIInv, NEW b, BarOk(b), Trade!LiveTick(b), position.open
  PROVE  /\ trailing' \in TrailShape
         /\ verdicts'[1] = Trade!Decide(Trade!FillReached(position, b), b)
         /\ Mirrors(strategy, restarts) =>
              /\ verdicts'[2] = Trade!evaluateExit(position.trail, b)
              /\ verdicts'[2] = Trade!Stay =>
                   trailing' = IF strategy.trail.on THEN Trade!LiveTrail(position.trail, b)
                               ELSE position.trail
<1> DEFINE t == IF trailing = Trade!NoTrail THEN Trade!Trail(position.entry) ELSE trailing
           d == Trade!evaluateExit(t, b)
<1>1. /\ verdicts' = <<Trade!Decide(Trade!FillReached(position, b), b), d>>
      /\ trailing' = IF d # Trade!Stay THEN Trade!NoTrail
                     ELSE IF strategy.trail.on THEN Trade!LiveTrail(t, b) ELSE t
  BY Zenon DEF Trade!LiveTick, Trade!createTrailingStopState
<1>2. /\ strategy \in Strategies /\ trailing \in TrailShape /\ position \in PositionOf(strategy)
      /\ PositionOk(strategy, bar, position)
      /\ Mirrors(strategy, restarts) => trailing = position.trail
  BY Zenon DEF TradeIInv, TradeInvOf
<1>3. TradeShape
  BY TradeShaped
<1>4. t \in TrailShape
  <2>1. position.entry \in Nat
    BY <1>2, Zenon DEF PositionOf
  <2>2. Trade!Trail(position.entry) \in TrailShape
    BY <2>1 DEF TrailShape, Trade!Trail
  <2> QED BY <1>2, <2>2, Zenon
<1>5. Mirrors(strategy, restarts) => t = position.trail
  <2>1. position.trail.mark > 0
    BY <1>2, Zenon DEF PositionOk, HeldOk
  <2>2. Trade!NoTrail.mark = 0
    BY DEF Trade!NoTrail
  <2>3. position.trail # Trade!NoTrail
    BY <2>1, <2>2
  <2> QED BY <1>2, <2>3, Zenon
<1>6. verdicts'[1] = Trade!Decide(Trade!FillReached(position, b), b) /\ verdicts'[2] = d
  <2> HIDE DEF d
  <2> QED BY <1>1
<1>7. Trade!LiveTrail(t, b) \in TrailShape
  BY <1>3, <1>4, LiveTrailIs
<1>8. Trade!NoTrail \in TrailShape
  BY <1>2, OutIs
<1> HIDE DEF t
<1>9. trailing' \in TrailShape
  BY <1>1, <1>4, <1>7, <1>8, Zenon
<1> QED BY <1>1, <1>5, <1>6, <1>9, Zenon

\* A bar on which a position is held.
LEMMA HoldKeeps ==
  ASSUME TradeIInv, NEW b \in Trade!Bars, ~ ended, Trade!Hold(b), ended' = b.last,
         opening' = b.next, bar' = bar + 1, strategy' = strategy, restarts' = restarts
  PROVE  TradeIInv'
<1>1. /\ strategy \in Strategies /\ bar \in 1 .. MaxBars + 1
      /\ position \in PositionOf(strategy) /\ trade \in Traded
      /\ restarts \in 0 .. MaxRestarts
      /\ PositionOk(strategy, bar, position) /\ TradeOk(strategy, bar, trade)
      /\ position.open => position.time >= trade.exitTime
  BY Zenon DEF TradeIInv, TradeInvOf
<1>2. TradeShape
  BY TradeShaped
<1>3. BarOk(b)
  BY <1>2, BarIs
<1>4. /\ bar \in Nat /\ bar + 1 \in 1 .. MaxBars + 1 /\ b.next \in Prices
      /\ b.last \in BOOLEAN /\ (~ b.last => bar + 1 <= MaxBars) /\ strategy.maxBars \in Nat
  BY <1>3, ClockIs
<1>5. position.open /\ Trade!LiveTick(b)
  BY Zenon DEF Trade!Hold
<1>6. PICK p : p = Trade!FillReached(position, b)
  OBVIOUS
<1>7. PICK d : d = Trade!Decide(p, b)
  OBVIOUS
<1>8. /\ p \in PositionOf(strategy) /\ p.open /\ HeldOk(strategy, p)
      /\ p.bar = position.bar /\ p.time = position.time /\ p.trail = position.trail
      /\ ~ Laddered(strategy) => p = position
  <2>1. HeldOk(strategy, position)
    BY <1>1, <1>5, Zenon DEF PositionOk
  <2> QED BY <1>2, <1>5, <1>6, <2>1, FilledIs
<1>9. DecideOk(p, b, d)
  BY <1>2, <1>3, <1>7, <1>8, DecideIs
<1>10. /\ d # Trade!Stay => position' = Trade!NoPosition /\ Trade!recordTrade(p, d, b)
       /\ d = Trade!Stay =>
            /\ position' = [p EXCEPT !.trail = IF strategy.trail.on THEN Trade!TrailAfter(p, b) ELSE @]
            /\ trade' = trade
  BY <1>6, <1>7, Zenon DEF Trade!Hold, Trade!Leave
<1>11. /\ trailing' \in TrailShape /\ verdicts'[1] = d
       /\ Mirrors(strategy, restarts) =>
            /\ verdicts'[2] = Trade!evaluateExit(position.trail, b)
            /\ verdicts'[2] = Trade!Stay =>
                 trailing' = IF strategy.trail.on THEN Trade!LiveTrail(position.trail, b)
                             ELSE position.trail
  BY <1>3, <1>5, <1>6, <1>7, TickIs
<1>12. Mirrors(strategy, restarts) =>
         \/ verdicts'[1] = verdicts'[2]
         \/ d = Trade!Close("end_of_data", b.close) /\ verdicts'[2] = Trade!Stay
  <2> SUFFICES ASSUME Mirrors(strategy, restarts)
               PROVE  \/ verdicts'[1] = verdicts'[2]
                      \/ d = Trade!Close("end_of_data", b.close) /\ verdicts'[2] = Trade!Stay
    OBVIOUS
  <2>1. strategy.fillAt = "CLOSE" /\ ~ Laddered(strategy)
    BY Zenon DEF Mirrors
  <2>2. d = Trade!Decide(position, b)
    BY <1>7, <1>8, <2>1
  <2>3. LET dd == Trade!Decide(position, b)
            e == Trade!evaluateExit(position.trail, b)
        IN  dd = e \/ (dd = Trade!Close("end_of_data", b.close) /\ e = Trade!Stay)
    BY <1>2, <1>3, <2>1, ExitsAgree
  <2> QED BY <1>11, <2>2, <2>3, Zenon
<1>13. Mirrors(strategy, restarts) /\ verdicts'[1].reason # "end_of_data" => verdicts'[1] = verdicts'[2]
  <2>1. Trade!Close("end_of_data", b.close).reason = "end_of_data"
    BY CloseIs
  <2> QED BY <1>11, <1>12, <2>1, Zenon
<1>14. Mirrors(strategy, restarts) /\ d = Trade!Stay => verdicts'[2] = Trade!Stay
  BY <1>11, <1>12, Zenon
<1> SUFFICES /\ position' \in PositionOf(strategy) /\ PositionOk(strategy, bar + 1, position')
             /\ trade' \in Traded /\ TradeOk(strategy, bar + 1, trade')
             /\ position'.open => position'.time >= trade'.exitTime
             /\ Mirrors(strategy, restarts) /\ position'.open => trailing' = position'.trail
  BY <1>1, <1>4, <1>11, <1>13, Zenon DEF TradeIInv, TradeInvOf
<1>15. p.bar \in Nat /\ p.bar <= bar /\ (strategy.maxBars > 0 => bar - p.bar <= strategy.maxBars)
  BY <1>1, <1>5, <1>8, Zenon DEF PositionOk, PositionOf
<1>16. CASE d # Trade!Stay
  <2>1. LeaveOk(p, d)
    BY <1>9, <1>16, Zenon DEF DecideOk, LeaveOk
  <2>2. trade' \in Traded /\ TradeOk(strategy, bar + 1, trade')
    BY <1>2, <1>3, <1>8, <1>10, <1>15, <1>16, <2>1, TradeIs
  <2>3. /\ position' \in PositionOf(strategy) /\ PositionOk(strategy, bar + 1, position')
        /\ ~ position'.open
    BY <1>1, <1>10, <1>16, OutIs, Zenon
  <2> QED BY <2>2, <2>3, Zenon
<1>17. CASE d = Trade!Stay
  <2> DEFINE trail == IF strategy.trail.on THEN Trade!TrailAfter(p, b) ELSE p.trail
  <2>1. trail \in TrailShape /\ trail.mark > 0
    <3>1. p.trail \in TrailShape /\ p.trail.mark > 0
      BY <1>8, Zenon DEF HeldOk, PositionOf
    <3>2. Trade!TrailAfter(p, b) \in TrailShape /\ Trade!TrailAfter(p, b).mark > 0
      BY <1>2, <1>3, <1>8, <3>1, TrailIs
    <3> QED BY <3>1, <3>2, Zenon
  <2>2. position' = [p EXCEPT !.trail = trail]
    BY <1>8, <1>10, <1>17, Zenon DEF PositionOf
  <2>3. strategy.trail.on => trail = Trade!TrailAfter(p, b)
    OBVIOUS
  <2>4. ~ strategy.trail.on => trail = p.trail
    OBVIOUS
  <2> HIDE DEF trail
  <2>5. PICK q : q = position'
    OBVIOUS
  <2>6. /\ q \in PositionOf(strategy) /\ q.trail = trail /\ q.open = p.open /\ q.bar = p.bar
        /\ q.time = p.time /\ q.entry = p.entry /\ q.side = p.side /\ q.sl = p.sl /\ q.tp = p.tp
        /\ q.base = p.base /\ q.slPct = p.slPct /\ q.filled = p.filled
    <3>1. q = [p EXCEPT !.trail = trail]
      BY <2>2, <2>5
    <3> QED BY <1>8, <2>1, <3>1 DEF PositionOf
  <2>7. HeldOk(strategy, q)
    <3>1. Levelled(q)
      BY <1>8, <2>6, Zenon DEF HeldOk, Levelled
    <3>2. OfFills(strategy, q)
      BY <1>8, <2>6, Zenon DEF HeldOk, OfFills
    <3>3. q.entry > 0 /\ q.trail.mark > 0 /\ q.time = q.bar
      BY <1>8, <2>1, <2>6, Zenon DEF HeldOk
    <3> QED BY <3>1, <3>2, <3>3, Zenon DEF HeldOk
  <2>8. strategy.maxBars > 0 => bar - p.bar < strategy.maxBars
    BY <1>9, <1>17, Zenon DEF DecideOk
  <2>9. q.bar <= bar + 1 /\ (strategy.maxBars > 0 => (bar + 1) - q.bar <= strategy.maxBars)
    BY <1>4, <1>15, <2>6, <2>8
  <2>10. PositionOk(strategy, bar + 1, q)
    BY <2>7, <2>9, Zenon DEF PositionOk
  <2>11. trade' = trade /\ TradeOk(strategy, bar + 1, trade)
    BY <1>1, <1>4, <1>10, <1>17, TradeStays
  <2>12. q.time >= trade.exitTime
    BY <1>1, <1>5, <1>8, <2>6, Zenon
  <2>13. Mirrors(strategy, restarts) => trailing' = trail
    <3> SUFFICES ASSUME Mirrors(strategy, restarts) PROVE trailing' = trail
      OBVIOUS
    <3>1. p = position /\ verdicts'[2] = Trade!Stay
      BY <1>8, <1>14, <1>17, Zenon DEF Mirrors
    <3>2. Trade!LiveTrail(position.trail, b) = Trade!TrailAfter(position, b)
      BY <1>2, <1>3, TrailsAgree
    <3>3. CASE strategy.trail.on
      BY <1>11, <2>3, <3>1, <3>2, <3>3, Zenon
    <3>4. CASE ~ strategy.trail.on
      BY <1>11, <2>4, <3>1, <3>4, Zenon
    <3> QED BY <3>3, <3>4
  <2> QED BY <1>1, <2>5, <2>6, <2>10, <2>11, <2>12, <2>13, Zenon
<1> QED BY <1>16, <1>17

\* A restart of the worker loses what is trailed, which nothing relies on then.
LEMMA RestartKeeps == TradeIInv /\ Trade!RestartWorker => TradeIInv'
<1> SUFFICES ASSUME TradeIInv, Trade!RestartWorker PROVE TradeIInv'
  OBVIOUS
<1>1. /\ restarts < MaxRestarts /\ restarts' = restarts + 1 /\ trailing' = Trade!NoTrail
      /\ strategy' = strategy /\ bar' = bar /\ opening' = opening /\ position' = position
      /\ trade' = trade /\ ended' = ended /\ verdicts' = verdicts
  BY Zenon DEF Trade!RestartWorker
<1>2. strategy \in Strategies /\ restarts \in 0 .. MaxRestarts /\ MaxRestarts \in Nat
  BY TradeConstants, Zenon DEF TradeIInv, TradeInvOf
<1>3. restarts' \in 0 .. MaxRestarts /\ restarts' # 0
  BY <1>1, <1>2
<1>4. trailing' \in TrailShape
  BY <1>1, <1>2, OutIs
<1>5. ~ Mirrors(strategy', restarts')
  BY <1>3, Zenon DEF Mirrors
<1>6. TradeInvOf(strategy', bar', opening', position', trade', ended', trailing', verdicts', restarts')
  <2>1. /\ strategy' \in Strategies /\ bar' \in 1 .. MaxBars + 1 /\ opening' \in Prices
        /\ position' \in PositionOf(strategy') /\ trade' \in Traded
        /\ ended' \in BOOLEAN /\ (~ ended' => bar' <= MaxBars)
        /\ PositionOk(strategy', bar', position') /\ TradeOk(strategy', bar', trade')
        /\ (position'.open => position'.time >= trade'.exitTime)
    BY <1>1, Zenon DEF TradeIInv, TradeInvOf
  <2> QED BY <1>3, <1>4, <1>5, <2>1, Zenon DEF TradeInvOf
<1> QED BY <1>6, Zenon DEF TradeIInv

\* So every step of a backtest keeps the invariant.
LEMMA TradeStep == TradeIInv /\ [Trade!Next]_tradeVars => TradeIInv'
<1> SUFFICES ASSUME TradeIInv, [Trade!Next]_tradeVars PROVE TradeIInv'
  OBVIOUS
<1>1. CASE Trade!Bar
  <2>1. PICK b \in Trade!Bars : (Trade!Look(b) \/ Trade!Hold(b)) /\ ended' = b.last /\ opening' = b.next
    BY <1>1, Zenon DEF Trade!Bar
  <2>2. ~ ended /\ bar' = bar + 1 /\ strategy' = strategy /\ restarts' = restarts
    BY <1>1, Zenon DEF Trade!Bar
  <2>3. CASE Trade!Look(b)
    BY <2>1, <2>2, <2>3, LookKeeps
  <2>4. CASE Trade!Hold(b)
    BY <2>1, <2>2, <2>4, HoldKeeps
  <2> QED BY <2>1, <2>3, <2>4
<1>2. CASE Trade!RestartWorker
  BY <1>2, RestartKeeps
<1>3. CASE UNCHANGED tradeVars
  <2>1. /\ strategy' = strategy /\ bar' = bar /\ opening' = opening /\ position' = position
        /\ trade' = trade /\ ended' = ended /\ trailing' = trailing /\ verdicts' = verdicts
        /\ restarts' = restarts
    BY <1>3, Zenon DEF tradeVars
  <2>2. TradeInvOf(strategy', bar', opening', position', trade', ended', trailing', verdicts', restarts')
    BY <2>1, Zenon DEF TradeIInv
  <2> QED BY <2>2, Zenon DEF TradeIInv
<1> QED BY <1>1, <1>2, <1>3, Zenon DEF Trade!Next

\* The invariant says what Backtest says of its variables.
LEMMA TradeTypes == TradeIInv => Trade!TypeOK
<1> SUFFICES ASSUME TradeIInv PROVE Trade!TypeOK
  OBVIOUS
<1>1. TradeShape
  BY TradeShaped
<1>2. TrailShape = Trade!TrailType
  BY DEF TrailShape, Trade!TrailType
<1>3. Sided = Trade!Sides
  BY DEF Sided, Trade!Sides
<1> QED BY <1>1, <1>2, <1>3, Zenon DEF TradeShape, Trade!TypeOK, PositionOf, Traded

\* The invariant says what the run checks of a backtest.
LEMMA TradeHolds ==
  TradeIInv => /\ Trade!TradesAreApart /\ Trade!StopHolds /\ Trade!OutcomeIsTheResult
               /\ Trade!LadderHolds /\ Trade!Parity
<1> SUFFICES ASSUME TradeIInv
             PROVE  /\ Trade!TradesAreApart /\ Trade!StopHolds /\ Trade!OutcomeIsTheResult
                    /\ Trade!LadderHolds /\ Trade!Parity
  OBVIOUS
<1>1. /\ strategy \in Strategies /\ position \in PositionOf(strategy)
      /\ PositionOk(strategy, bar, position) /\ TradeOk(strategy, bar, trade)
      /\ position.open => position.time >= trade.exitTime
      /\ Mirrors(strategy, restarts) /\ verdicts[1].reason # "end_of_data" => verdicts[1] = verdicts[2]
  BY Zenon DEF TradeIInv, TradeInvOf
<1>2. Trade!TradesAreApart
  BY <1>1, Zenon DEF Trade!TradesAreApart, PositionOk, TradeOk
<1>3. Trade!StopHolds
  BY <1>1, Zenon DEF Trade!StopHolds, TradeOk
<1>4. Trade!OutcomeIsTheResult
  BY <1>1, Zenon DEF Trade!OutcomeIsTheResult, TradeOk
<1>5. Trade!Parity
  BY <1>1, Zenon DEF Trade!Parity, Mirrors, Trade!isDca, Laddered
<1>6. Trade!LadderHolds
  <2> DEFINE c == strategy.dca.config
             p == position
             orders == Trade!generateSafetyOrderSchedule(c, p.base, p.side)
             now == Trade!Ladder(c, p.base, p.side, p.slPct, p.filled)
  <2> SUFFICES ASSUME p.open, Laddered(strategy)
               PROVE  /\ now.cost <= Trade!calculateMaxExposure(c)
                      /\ p.filled > 0 => /\ Trade!AsBad(p.side, orders[p.filled].price, p.entry)
                                         /\ Trade!AsBad(p.side, p.entry, p.base)
                      /\ \A n \in DOMAIN orders : orders[n].price > 0
                      /\ Trade!AsBad(p.side, p.sl, p.entry) /\ Trade!AsBad(p.side, p.entry, p.tp)
    BY Zenon DEF Trade!LadderHolds, Trade!isDca, Laddered
  <2>1. HeldOk(strategy, p)
    BY <1>1, Zenon DEF PositionOk
  <2>2. Levelled(p) /\ OfFills(strategy, p)
    BY <2>1, Zenon DEF HeldOk
  <2>3. /\ p.base > 0 /\ p.base <= c.base /\ p.entry = now.avg
    BY <2>2, Zenon DEF OfFills
  <2>4. /\ p.base \in Nat /\ p.side \in Sided /\ p.slPct \in Nat /\ p.filled \in 0 .. c.max
    BY <1>1, Zenon DEF PositionOf
  <2>5. p.base \in Nat \ {0}
    BY <2>3, <2>4
  <2>6. c \in ConfigType /\ Trade!validateDcaConfig(c)
    BY <1>1, StrategyIs DEF Laddered
  <2>7. LadderOk(c, p.base, p.side, p.slPct, p.filled)
    BY <2>3, <2>4, <2>5, <2>6, LadderIs
  <2>8. /\ now.cost <= Trade!calculateMaxExposure(c)
        /\ p.filled > 0 => /\ Trade!AsBad(p.side, orders[p.filled].price, now.avg)
                           /\ Trade!AsBad(p.side, now.avg, p.base)
    BY <2>7, Zenon DEF LadderOk, OrdersOf
  <2>9. DOMAIN orders = 1 .. c.max
    BY DEF Trade!generateSafetyOrderSchedule
  <2>10. ASSUME NEW n \in 1 .. c.max PROVE orders[n].price > 0
    <3> HIDE DEF c, p
    <3>1. OrdersOf(c, p.base, p.side)[n].price > 0
      BY <2>4, <2>5, <2>6, OrdersAre
    <3> QED BY <3>1, Zenon DEF OrdersOf
  <2> HIDE DEF now, orders
  <2> QED BY <2>2, <2>3, <2>8, <2>9, <2>10, Zenon DEF Levelled
<1> QED BY <1>2, <1>3, <1>4, <1>5, <1>6

-----------------------------------------------------------------------------
(* The folds of a walk-forward                                               *)

\* The length of a sequence given by its items.
LEMMA LengthOf ==
  ASSUME NEW S, NEW n \in Nat, NEW f \in [1 .. n -> S]
  PROVE  Grid!Len(f) = n /\ DOMAIN f = 1 .. n
OBVIOUS

CfgShape == [isBars : Nat \ {0}, oosBars : Nat \ {0}, step : Nat \ {0}, anchored : BOOLEAN]
FoldRow(bars, cfg, f) ==
  [fold |-> f, is |-> Grid!SliceByWindow(bars, f.isStart, f.oosStart),
   oos |-> Grid!SliceByWindow(bars, f.oosStart, f.oosEnd)]
FoldsOf(bars, cfg, n) == [i \in 1 .. n |-> FoldRow(bars, cfg, Grid!FoldAt(cfg, i - 1))]
\* As many folds as fit, or none.
FoldsOk(F, n) ==
  /\ F.bars \in Nat /\ F.cfg \in CfgShape
  /\ n # 0 => /\ F.bars >= F.cfg.isBars + F.cfg.oosBars
              /\ n = (F.bars - F.cfg.isBars - F.cfg.oosBars) \div F.cfg.step + 1
  /\ F.list = FoldsOf(F.bars, F.cfg, n)
  /\ F.status = 202 => n \in 1 .. 20

\* Where the i-th fold lies in the bars.
LEMMA FoldNumbers ==
  ASSUME NEW F, NEW n \in Nat, FoldsOk(F, n), NEW i \in 1 .. n
  PROVE  LET f == F.list[i].fold
             x == (i - 1) * F.cfg.step
         IN  /\ x \in Nat /\ f.isStart = (IF F.cfg.anchored THEN 0 ELSE x)
             /\ f.oosStart = F.cfg.isBars + x /\ f.oosEnd = F.cfg.isBars + x + F.cfg.oosBars
             /\ f.oosEnd <= F.bars
             /\ i = n => f.oosEnd + F.cfg.step > F.bars
             /\ F.list[i].is = Grid!SliceByWindow(F.bars, f.isStart, f.oosStart)
             /\ F.list[i].oos = Grid!SliceByWindow(F.bars, f.oosStart, f.oosEnd)
<1> DEFINE c == F.cfg
           x == (i - 1) * F.cfg.step
           f == F.list[i].fold
           room == F.bars - F.cfg.isBars - F.cfg.oosBars
<1>1. c.isBars \in Nat \ {0} /\ c.oosBars \in Nat \ {0} /\ c.step \in Nat \ {0} /\ F.bars \in Nat
  BY DEF FoldsOk, CfgShape
<1>2. F.list = FoldsOf(F.bars, F.cfg, n)
  BY Zenon DEF FoldsOk
<1>3. F.list[i] = FoldRow(F.bars, F.cfg, Grid!FoldAt(F.cfg, i - 1))
  BY <1>2 DEF FoldsOf
<1>4. /\ f = Grid!FoldAt(F.cfg, i - 1)
      /\ F.list[i].is = Grid!SliceByWindow(F.bars, f.isStart, f.oosStart)
      /\ F.list[i].oos = Grid!SliceByWindow(F.bars, f.oosStart, f.oosEnd)
  <2>1. \A g : LET r == FoldRow(F.bars, F.cfg, g)
              IN  /\ r.fold = g /\ r.is = Grid!SliceByWindow(F.bars, g.isStart, g.oosStart)
                  /\ r.oos = Grid!SliceByWindow(F.bars, g.oosStart, g.oosEnd)
    BY Zenon DEF FoldRow
  <2> QED BY <1>3, <2>1
<1>5. /\ f.isStart = (IF c.anchored THEN 0 ELSE x) /\ f.oosStart = c.isBars + x
      /\ f.oosEnd = c.isBars + x + c.oosBars
  <2> DEFINE g == Grid!FoldAt(F.cfg, i - 1)
  <2>1. /\ g.isStart = (IF c.anchored THEN 0 ELSE x) /\ g.oosStart = c.isBars + x
        /\ g.oosEnd = c.isBars + x + c.oosBars
    BY Zenon DEF Grid!FoldAt
  <2> HIDE DEF f, g, x, c
  <2>2. f = g
    BY <1>4 DEF f, g
  <2> QED BY <2>1, <2>2
<1>6. F.bars >= c.isBars + c.oosBars /\ n = room \div c.step + 1
  BY DEF FoldsOk
<1>7. room \in Nat /\ i - 1 \in Nat
  BY <1>1, <1>6
<1> HIDE DEF room
<1> DEFINE q == room \div c.step
<1>8. q \in Nat /\ c.step * q <= room /\ room < c.step * q + c.step
  BY <1>1, <1>7, Quotient
<1>9. i - 1 <= q /\ (i = n => i - 1 = q)
  BY <1>6, <1>8
<1> HIDE DEF q
<1>10. x \in Nat /\ x <= q * c.step
  BY <1>1, <1>7, <1>8, <1>9, Product, ProductGrows
<1>11. i = n => x = c.step * q
  BY <1>1, <1>8, <1>9
<1>12. q * c.step = c.step * q /\ c.step * q \in Nat
  BY <1>1, <1>8
<1> HIDE DEF x
<1>13. c.isBars + x + c.oosBars <= F.bars
  BY <1>1, <1>8, <1>10, <1>12 DEF room
<1>14. i = n => c.isBars + x + c.oosBars + c.step > F.bars
  BY <1>1, <1>8, <1>10, <1>11, <1>12 DEF room
<1> QED BY <1>4, <1>5, <1>10, <1>13, <1>14 DEF x

\* The bars of a window, as many as it is long.
LEMMA SliceIs ==
  ASSUME NEW bars \in Nat, NEW from \in Nat, NEW to \in Nat, NEW t \in Grid!SliceByWindow(bars, from, to)
  PROVE  t \in Nat /\ from <= t /\ t <= to - 1
<1>1. Htf \in Nat \ {0}
  BY GridConstants
<1>2. t \in Grid!HtfOpens(bars) /\ t >= from /\ t <= to - 1
  BY Zenon DEF Grid!SliceByWindow
<1>3. PICK k \in 0 .. ((bars - 1) \div Htf) : t = k * Htf
  BY <1>2, Zenon DEF Grid!HtfOpens
<1>4. (bars - 1) \div Htf \in Int
  BY <1>1
<1>5. k \in Nat
  BY <1>4
<1>6. t \in Nat
  BY <1>1, <1>3, <1>5, Product
<1> QED BY <1>2, <1>6

\* Folds laid out so are honest.
LEMMA FoldsHold ==
  ASSUME NEW n \in Nat, FoldsOk(folds, n)
  PROVE  Grid!FoldsAreHonest
<1>1. folds.list = FoldsOf(folds.bars, folds.cfg, n)
  BY Zenon DEF FoldsOk
<1>2. DOMAIN folds.list = 1 .. n /\ Grid!Len(folds.list) = n
  <2> DEFINE S == {FoldRow(folds.bars, folds.cfg, Grid!FoldAt(folds.cfg, i - 1)) : i \in 1 .. n}
  <2>1. folds.list \in [1 .. n -> S]
    BY <1>1 DEF FoldsOf
  <2> HIDE DEF S
  <2> QED BY <2>1, LengthOf
<1>3. /\ folds.cfg.isBars \in Nat \ {0} /\ folds.cfg.oosBars \in Nat \ {0}
      /\ folds.cfg.step \in Nat \ {0} /\ folds.bars \in Nat
  BY DEF FoldsOk, CfgShape
<1>4. Htf \in Nat \ {0}
  BY GridConstants
<1> SUFFICES ASSUME NEW i \in 1 .. n
    PROVE LET f == folds.list[i].fold cfg == folds.cfg IN
      /\ 0 <= f.isStart /\ f.isStart < f.oosStart /\ f.oosEnd <= folds.bars
      /\ f.oosEnd - f.oosStart = cfg.oosBars
      /\ f.oosStart - f.isStart >= cfg.isBars
      /\ ~cfg.anchored => f.oosStart - f.isStart = cfg.isBars
      /\ i = n => f.oosEnd + cfg.step > folds.bars
      /\ folds.list[i].is \cap folds.list[i].oos = {}
      /\ \A t \in Grid!Visible(folds.list[i].is, f.oosStart - 1) : f.isStart <= t /\ t + Htf <= f.oosStart
      /\ \A t \in Grid!Visible(folds.list[i].oos, f.oosEnd - 1) : f.oosStart <= t /\ t + Htf <= f.oosEnd
      /\ cfg.step >= cfg.oosBars =>
           \A k \in 1..(i - 1) : folds.list[k].fold.oosEnd <= f.oosStart
  BY <1>2, Zenon DEF Grid!FoldsAreHonest
<1> DEFINE f == folds.list[i].fold
           c == folds.cfg
           x == (i - 1) * folds.cfg.step
<1>5. /\ x \in Nat /\ f.isStart = (IF c.anchored THEN 0 ELSE x)
      /\ f.oosStart = c.isBars + x /\ f.oosEnd = c.isBars + x + c.oosBars
      /\ f.oosEnd <= folds.bars
      /\ i = n => f.oosEnd + c.step > folds.bars
      /\ folds.list[i].is = Grid!SliceByWindow(folds.bars, f.isStart, f.oosStart)
      /\ folds.list[i].oos = Grid!SliceByWindow(folds.bars, f.oosStart, f.oosEnd)
  BY FoldNumbers
<1>6. ASSUME c.step >= c.oosBars, NEW k \in 1 .. (i - 1)
      PROVE  folds.list[k].fold.oosEnd <= f.oosStart
  <2> DEFINE y == (k - 1) * folds.cfg.step
             g == folds.list[k].fold
  <2>1. k \in 1 .. n
    OBVIOUS
  <2>2. y \in Nat /\ g.oosEnd = c.isBars + y + c.oosBars
    BY <2>1, FoldNumbers
  <2>3. k <= i - 1 /\ k \in Nat /\ i - 1 \in Nat
    OBVIOUS
  <2>4. k * c.step <= x
    BY <1>3, <2>3, ProductGrows
  <2>5. y + c.step = k * c.step
    BY <1>3, <2>3
  <2>6. k * c.step \in Nat
    BY <1>3, <2>3, Product
  <2> HIDE DEF x, y, f, g, c
  <2>7. c.isBars \in Nat /\ c.oosBars \in Nat /\ c.step \in Nat
    BY <1>3 DEF c
  <2> QED BY <1>5, <1>6, <2>2, <2>4, <2>5, <2>6, <2>7 DEF g
<1> HIDE DEF x, f, c
<1>7. /\ c.isBars \in Nat \ {0} /\ c.oosBars \in Nat \ {0} /\ c.step \in Nat \ {0}
  BY <1>3 DEF c
<1>8. /\ 0 <= f.isStart /\ f.isStart < f.oosStart /\ f.oosEnd - f.oosStart = c.oosBars
      /\ f.oosStart - f.isStart >= c.isBars
      /\ ~ c.anchored => f.oosStart - f.isStart = c.isBars
      /\ f.isStart \in Nat /\ f.oosStart \in Nat /\ f.oosEnd \in Nat
  BY <1>5, <1>7
<1>9. \A t \in folds.list[i].is : t \in Nat /\ f.isStart <= t /\ t <= f.oosStart - 1
  BY <1>3, <1>5, <1>8, SliceIs
<1>10. \A t \in folds.list[i].oos : t \in Nat /\ f.oosStart <= t /\ t <= f.oosEnd - 1
  BY <1>3, <1>5, <1>8, SliceIs
<1>11. folds.list[i].is \cap folds.list[i].oos = {}
  BY <1>8, <1>9, <1>10
<1>12. \A t \in Grid!Visible(folds.list[i].is, f.oosStart - 1) : f.isStart <= t /\ t + Htf <= f.oosStart
  BY <1>4, <1>8, <1>9 DEF Grid!Visible
<1>13. \A t \in Grid!Visible(folds.list[i].oos, f.oosEnd - 1) : f.oosStart <= t /\ t + Htf <= f.oosEnd
  BY <1>4, <1>8, <1>10 DEF Grid!Visible
<1> QED BY <1>5, <1>6, <1>8, <1>11, <1>12, <1>13, Zenon DEF f, c

Results == Int \cup {NoRatio}
CountType == [sum : Int, known : Nat]
NoneCounted == [sum |-> 0, known |-> 0]
\* The sums over a list of results are those of a loop.
CountsOf(xs, n, c) ==
  /\ c \in [0 .. n -> CountType] /\ c[0] = NoneCounted
  /\ \A k \in 0 .. n : k > 0 => c[k] = Grid!Count(c[k - 1], xs[k])
  /\ Grid!Counted(xs) = c[n]

\* A value is counted when it is not missing.
LEMMA CountIs ==
  ASSUME NEW t \in CountType, NEW x \in Results
  PROVE  /\ Grid!Count(t, x) \in CountType
         /\ x = NoRatio => Grid!Count(t, x) = t
         /\ x # NoRatio => /\ x \in Int /\ Grid!Count(t, x).sum = t.sum + x
                           /\ Grid!Count(t, x).known = t.known + 1
<1>1. t.sum \in Int /\ t.known \in Nat
  BY DEF CountType
<1>2. CASE x = NoRatio
  BY <1>2 DEF Grid!Count
<1>3. CASE x # NoRatio
  <2>1. x \in Int /\ Grid!Count(t, x) = [sum |-> t.sum + x, known |-> t.known + 1]
    BY <1>3 DEF Grid!Count, Results
  <2> QED BY <1>1, <1>3, <2>1 DEF CountType
<1> QED BY <1>2, <1>3

\* The running sums of a column are what its loop's equations say.
LEMMA CountsAre ==
  ASSUME NEW n \in Nat, NEW xs \in [1 .. n -> Results]
  PROVE  \E c : CountsOf(xs, n, c)
<1> DEFINE g == [kt \in Nat \X CountType |->
                   IF kt[1] < n THEN Grid!Count(kt[2], xs[kt[1] + 1]) ELSE kt[2]]
           Eq(c) == c = [k \in 0 .. n |-> IF k = 0 THEN [sum |-> 0, known |-> 0]
                                          ELSE Grid!Count(c[k - 1], xs[k])]
<1>1. NoneCounted \in CountType
  BY DEF NoneCounted, CountType
<1>2. \A k \in Nat : \A t \in CountType : k < n => Grid!Count(t, xs[k + 1]) \in CountType
  BY CountIs
<1>3. g \in [Nat \X CountType -> CountType]
  BY <1>2
<1>4. \A k \in Nat : \A t \in CountType : k < n => g[<<k, t>>] = Grid!Count(t, xs[k + 1])
  OBVIOUS
<1> HIDE DEF g
<1>5. PICK f \in [Nat -> CountType] : f[0] = NoneCounted /\ \A k \in Nat : f[k + 1] = g[<<k, f[k]>>]
  <2>1. Recursive(CountType, NoneCounted, g)
    BY <1>1, <1>3, Recursion
  <2> QED BY <2>1 DEF Recursive
<1> DEFINE e == [k \in 0 .. n |-> f[k]]
<1>6. ASSUME NEW k \in 0 .. n, k # 0 PROVE e[k] = Grid!Count(e[k - 1], xs[k])
  <2>1. k - 1 \in Nat /\ (k - 1) + 1 = k /\ k - 1 < n /\ f[k - 1] \in CountType
    BY <1>5, <1>6
  <2>2. f[k] = g[<<k - 1, f[k - 1]>>]
    BY <1>5, <2>1
  <2>3. f[k] = Grid!Count(f[k - 1], xs[k])
    BY <1>4, <2>1, <2>2
  <2>4. e[k] = f[k] /\ e[k - 1] = f[k - 1]
    BY <1>6
  <2> QED BY <2>3, <2>4
<1>7. Eq(e)
  <2>1. e[0] = NoneCounted
    BY <1>5
  <2> QED BY <1>6, <2>1 DEF NoneCounted
<1>8. PICK c : Eq(c) /\ Grid!Counted(xs) = c[n]
  <2> HIDE DEF e
  <2> DEFINE r == CHOOSE c : Eq(c)
  <2>1. Eq(r)
    BY <1>7
  <2>2. Grid!Len(xs) = n
    BY LengthOf
  <2>3. Grid!Counted(xs) = r[n]
    BY <2>2 DEF Grid!Counted
  <2> HIDE DEF r, Eq
  <2> QED BY <2>1, <2>3
<1>9. /\ DOMAIN c = 0 .. n /\ c[0] = NoneCounted
      /\ \A k \in 0 .. n : k > 0 => c[k] = Grid!Count(c[k - 1], xs[k])
      /\ c = [k \in 0 .. n |-> c[k]]
  BY <1>8 DEF NoneCounted
<1> DEFINE S == {k \in Nat : k <= n => c[k] \in CountType}
<1>10. 0 \in S
  BY <1>1, <1>9
<1>11. ASSUME NEW k \in Nat, k \in S PROVE k + 1 \in S
  <2> SUFFICES ASSUME k + 1 <= n PROVE c[k + 1] \in CountType
    OBVIOUS
  <2>1. k + 1 \in 0 .. n /\ k + 1 > 0 /\ (k + 1) - 1 = k /\ k < n /\ c[k] \in CountType
    BY <1>11
  <2>2. c[k + 1] = Grid!Count(c[k], xs[k + 1])
    BY <1>9, <2>1
  <2> QED BY <1>2, <2>1, <2>2
<1> HIDE DEF S
<1>12. \A k \in Nat : k \in S
  BY <1>10, <1>11, Inductive
<1>13. c \in [0 .. n -> CountType]
  BY <1>9, <1>12 DEF S
<1> QED BY <1>8, <1>9, <1>13 DEF CountsOf

\* One more factor adds one more.
LEMMA ProductNext == \A u \in Int : \A v \in Nat : u * (v + 1) = u * v + u /\ u * v \in Int
OBVIOUS

\* A sum of results is no less than as many of a least, no more than of a greatest.
AtLeast(xs, n, lo) == \A k \in 1 .. n : xs[k] # NoRatio => lo <= xs[k]
AtMost(xs, n, hi) == \A k \in 1 .. n : xs[k] # NoRatio => xs[k] <= hi
\* A sum of values between two bounds lies between as many of each.
LEMMA SumBetween ==
  ASSUME NEW n \in Nat, NEW xs \in [1 .. n -> Results], NEW lo \in Int, NEW hi \in Int
  PROVE  LET t == Grid!Counted(xs)
         IN  /\ AtLeast(xs, n, lo) => lo * t.known <= t.sum
             /\ AtMost(xs, n, hi) => t.sum <= hi * t.known
<1>1. PICK c : CountsOf(xs, n, c)
  BY CountsAre
<1>2. /\ c \in [0 .. n -> CountType] /\ c[0] = NoneCounted
      /\ \A k \in 0 .. n : k > 0 => c[k] = Grid!Count(c[k - 1], xs[k])
      /\ Grid!Counted(xs) = c[n]
  BY <1>1 DEF CountsOf
<1> DEFINE S == {k \in Nat : k <= n => /\ AtLeast(xs, n, lo) => lo * c[k].known <= c[k].sum
                                       /\ AtMost(xs, n, hi) => c[k].sum <= hi * c[k].known}
<1>3. 0 \in S
  BY <1>2 DEF NoneCounted
<1>4. ASSUME NEW k \in Nat, k \in S PROVE k + 1 \in S
  <2> SUFFICES ASSUME k + 1 <= n
               PROVE  /\ AtLeast(xs, n, lo) => lo * c[k + 1].known <= c[k + 1].sum
                      /\ AtMost(xs, n, hi) => c[k + 1].sum <= hi * c[k + 1].known
    OBVIOUS
  <2>1. k + 1 \in 0 .. n /\ k + 1 \in 1 .. n /\ k + 1 > 0 /\ (k + 1) - 1 = k /\ k <= n /\ k \in 0 .. n
    OBVIOUS
  <2>2. c[k + 1] = Grid!Count(c[k], xs[k + 1])
    BY <1>2, <2>1
  <2>3. c[k] \in CountType /\ xs[k + 1] \in Results
    BY <1>2, <2>1
  <2>4. /\ AtLeast(xs, n, lo) => lo * c[k].known <= c[k].sum
        /\ AtMost(xs, n, hi) => c[k].sum <= hi * c[k].known
    BY <1>4, <2>1
  <2>5. c[k].known \in Nat /\ c[k].sum \in Int
    BY <2>3 DEF CountType
  <2>6. CASE xs[k + 1] = NoRatio
    <3>1. c[k + 1] = c[k]
      BY <2>2, <2>3, <2>6, CountIs
    <3> QED BY <2>4, <3>1, Zenon
  <2>7. CASE xs[k + 1] # NoRatio
    <3>1. /\ xs[k + 1] \in Int /\ c[k + 1].sum = c[k].sum + xs[k + 1]
          /\ c[k + 1].known = c[k].known + 1
      BY <2>2, <2>3, <2>7, CountIs
    <3>2. (AtLeast(xs, n, lo) => lo <= xs[k + 1]) /\ (AtMost(xs, n, hi) => xs[k + 1] <= hi)
      BY <2>1, <2>7 DEF AtLeast, AtMost
    <3>3. /\ lo * (c[k].known + 1) = lo * c[k].known + lo /\ lo * c[k].known \in Int
          /\ hi * (c[k].known + 1) = hi * c[k].known + hi /\ hi * c[k].known \in Int
      BY <2>5, ProductNext, Zenon
    <3>4. \A l, h, s, x \in Int : /\ l <= s /\ lo <= x => l + lo <= s + x
                                  /\ s <= h /\ x <= hi => s + x <= h + hi
      OBVIOUS
    <3> QED BY <2>4, <2>5, <3>1, <3>2, <3>3, <3>4, Zenon
  <2> QED BY <2>6, <2>7
<1> HIDE DEF S
<1>5. \A k \in Nat : k \in S
  BY <1>3, <1>4, Inductive
<1> QED BY <1>2, <1>5 DEF S

\* As many are counted as are not missing.
LEMMA KnownAre ==
  ASSUME NEW n \in Nat, NEW xs \in [1 .. n -> Results]
  PROVE  LET t == Grid!Counted(xs)
         IN  /\ t.sum \in Int /\ t.known \in Nat
             /\ t.known = 0 <=> \A k \in 1 .. n : xs[k] = NoRatio
             /\ (\A k \in 1 .. n : xs[k] # NoRatio) => t.known = n
<1>1. PICK c : CountsOf(xs, n, c)
  BY CountsAre
<1>2. /\ c \in [0 .. n -> CountType] /\ c[0] = NoneCounted
      /\ \A k \in 0 .. n : k > 0 => c[k] = Grid!Count(c[k - 1], xs[k])
      /\ Grid!Counted(xs) = c[n]
  BY <1>1 DEF CountsOf
<1> DEFINE S == {k \in Nat : k <= n =>
                   /\ c[k].known = 0 <=> \A m \in 1 .. k : xs[m] = NoRatio
                   /\ (\A m \in 1 .. k : xs[m] # NoRatio) => c[k].known = k}
<1>3. 0 \in S
  BY <1>2 DEF NoneCounted
<1>4. ASSUME NEW k \in Nat, k \in S PROVE k + 1 \in S
  <2> SUFFICES ASSUME k + 1 <= n
               PROVE  /\ c[k + 1].known = 0 <=> \A m \in 1 .. (k + 1) : xs[m] = NoRatio
                      /\ (\A m \in 1 .. (k + 1) : xs[m] # NoRatio) => c[k + 1].known = k + 1
    OBVIOUS
  <2>1. k + 1 \in 0 .. n /\ k + 1 \in 1 .. n /\ k + 1 > 0 /\ (k + 1) - 1 = k /\ k <= n /\ k \in 0 .. n
    OBVIOUS
  <2>2. c[k + 1] = Grid!Count(c[k], xs[k + 1])
    BY <1>2, <2>1
  <2>3. /\ c[k] \in CountType /\ xs[k + 1] \in Results
        /\ c[k].known = 0 <=> \A m \in 1 .. k : xs[m] = NoRatio
        /\ (\A m \in 1 .. k : xs[m] # NoRatio) => c[k].known = k
    BY <1>2, <1>4, <2>1
  <2>4. c[k].known \in Nat
    BY <2>3 DEF CountType
  <2>5. \A m \in 1 .. (k + 1) : m = k + 1 \/ m \in 1 .. k
    OBVIOUS
  <2>6. (\A m \in 1 .. k : m \in 1 .. (k + 1)) /\ k + 1 \in 1 .. (k + 1)
    OBVIOUS
  <2>7. CASE xs[k + 1] = NoRatio
    BY <2>2, <2>3, <2>5, <2>6, <2>7, CountIs
  <2>8. CASE xs[k + 1] # NoRatio
    <3>1. c[k + 1].known = c[k].known + 1
      <4>1. c[k] \in CountType /\ xs[k + 1] \in Results
        BY <2>3
      <4>2. Grid!Count(c[k], xs[k + 1]).known = c[k].known + 1
        BY <2>8, <4>1, CountIs
      <4> QED BY <2>2, <4>2, Zenon
    <3> QED BY <2>3, <2>4, <2>6, <2>8, <3>1
  <2> QED BY <2>7, <2>8
<1> HIDE DEF S
<1>5. \A k \in Nat : k \in S
  BY <1>3, <1>4, Inductive
<1>6. c[n].sum \in Int /\ c[n].known \in Nat
  BY <1>2 DEF CountType
<1> QED BY <1>2, <1>5, <1>6 DEF S

\* Division rounds down, of negative numbers too.
LEMMA IntQuotient ==
  ASSUME NEW a \in Int, NEW d \in Nat \ {0}
  PROVE  a \div d \in Int /\ d * (a \div d) <= a /\ a < d * (a \div d) + d
OBVIOUS

\* Rounding is to the nearest, a half up.
LEMMA RoundedIs ==
  ASSUME NEW s \in Int, NEW d \in Nat \ {0}
  PROVE  LET m == Grid!Rounded(s, d)
         IN  m \in Int /\ d * m \in Int /\ 2 * (d * m) <= 2 * s + d /\ 2 * s + d < 2 * (d * m) + 2 * d
<1> DEFINE m == (2 * s + d) \div (2 * d)
<1>1. 2 * s + d \in Int /\ 2 * d \in Nat \ {0}
  OBVIOUS
<1>2. m \in Int /\ (2 * d) * m <= 2 * s + d /\ 2 * s + d < (2 * d) * m + 2 * d
  BY <1>1, IntQuotient
<1>3. Grid!Rounded(s, d) = m
  BY DEF Grid!Rounded
<1> HIDE DEF m
<1>4. (2 * d) * m = 2 * (d * m) /\ d * m \in Int
  BY <1>2
<1> QED BY <1>2, <1>3, <1>4

\* A mean, rounded, lies between the least and the greatest of its values.
LEMMA MeanBetween ==
  ASSUME NEW n \in Nat, NEW xs \in [1 .. n -> Results], Grid!Counted(xs).known > 0
  PROVE  LET m == Grid!Rounded(Grid!Counted(xs).sum, Grid!Counted(xs).known)
         IN  /\ m \in Int
             /\ \E i \in 1 .. n : xs[i] # NoRatio /\ xs[i] <= m
             /\ \E i \in 1 .. n : xs[i] # NoRatio /\ xs[i] >= m
<1> DEFINE s == Grid!Counted(xs).sum
           d == Grid!Counted(xs).known
           m == Grid!Rounded(s, d)
<1>1. s \in Int /\ d \in Nat \ {0}
  BY KnownAre
<1> HIDE DEF s, d
<1>2. m \in Int /\ d * m \in Int /\ 2 * (d * m) <= 2 * s + d /\ 2 * s + d < 2 * (d * m) + 2 * d
  BY <1>1, RoundedIs
<1> HIDE DEF m
<1>3. /\ AtLeast(xs, n, m + 1) => (m + 1) * d <= s
      /\ AtMost(xs, n, m - 1) => s <= (m - 1) * d
  <2>1. m + 1 \in Int /\ m - 1 \in Int
    BY <1>2
  <2> QED BY <2>1, SumBetween DEF s, d
<1>4. (m + 1) * d = d * m + d /\ (m - 1) * d = d * m - d
  BY <1>1, <1>2
<1>5. ~ AtLeast(xs, n, m + 1) /\ ~ AtMost(xs, n, m - 1)
  <2>1. PICK u \in Int : u = d * m
    BY <1>2
  <2>2. 2 * u <= 2 * s + d /\ 2 * s + d < 2 * u + 2 * d
    BY <1>2, <2>1
  <2>3. (AtLeast(xs, n, m + 1) => u + d <= s) /\ (AtMost(xs, n, m - 1) => s <= u - d)
    BY <1>3, <1>4, <2>1
  <2>4. u \in Int
    BY <2>1
  <2> QED BY <1>1, <2>2, <2>3, <2>4
<1>6. \A i \in 1 .. n : xs[i] # NoRatio => xs[i] \in Int
  BY DEF Results
<1>7. \E i \in 1 .. n : xs[i] # NoRatio /\ xs[i] <= m
  BY <1>2, <1>5, <1>6 DEF AtLeast
<1>8. \E i \in 1 .. n : xs[i] # NoRatio /\ xs[i] >= m
  BY <1>2, <1>5, <1>6 DEF AtMost
<1> QED BY <1>2, <1>7, <1>8 DEF m, s, d

\* The columns of reports hold results.
LEMMA ResultsAre ==
  ASSUME NEW n \in Nat, NEW r \in [1 .. n -> Reports]
  PROVE  /\ Grid!Pnls(r) \in [1 .. n -> Results] /\ Grid!Sharpes(r) \in [1 .. n -> Results]
         /\ \A i \in 1 .. n : Grid!Pnls(r)[i] \in Int /\ Grid!Pnls(r)[i] # NoRatio
<1>1. /\ \A x \in Reports : x.pnl \in Int /\ x.sharpe \in Int \cup {NoRatio}
      /\ NoRatio \notin Int
  BY GridConstants
<1>2. DOMAIN r = 1 .. n /\ \A i \in 1 .. n : r[i] \in Reports
  OBVIOUS
<1>3. Grid!Pnls(r) = [i \in 1 .. n |-> r[i].pnl] /\ Grid!Sharpes(r) = [i \in 1 .. n |-> r[i].sharpe]
  BY <1>2, Zenon DEF Grid!Pnls, Grid!Sharpes
<1>4. \A i \in 1 .. n : r[i].pnl \in Int /\ r[i].pnl # NoRatio /\ r[i].sharpe \in Results
  BY <1>1, <1>2, Zenon DEF Results
<1>5. \A i \in 1 .. n : r[i].pnl \in Results
  BY <1>4, Zenon DEF Results
<1> QED BY <1>3, <1>4, <1>5

\* The mean of a column nothing is missing of.
LEMMA R2MeanBetween ==
  ASSUME NEW n \in Nat \ {0}, NEW xs \in [1 .. n -> Results], \A i \in 1 .. n : xs[i] # NoRatio
  PROVE  /\ Grid!Total(xs) \in Int /\ Grid!R2Mean(xs) = Grid!Rounded(Grid!Total(xs), n)
         /\ Grid!R2Mean(xs) \in Int
         /\ (\E i \in 1 .. n : xs[i] <= Grid!R2Mean(xs)) /\ (\E i \in 1 .. n : xs[i] >= Grid!R2Mean(xs))
<1>1. n \in Nat
  OBVIOUS
<1>2. Grid!Counted(xs).sum \in Int /\ Grid!Counted(xs).known = n
  BY <1>1, KnownAre
<1>3. Grid!Len(xs) = n
  BY <1>1, LengthOf
<1>4. Grid!R2Mean(xs) = Grid!Rounded(Grid!Counted(xs).sum, Grid!Counted(xs).known)
      /\ Grid!Total(xs) = Grid!Counted(xs).sum
  BY <1>2, <1>3, Zenon DEF Grid!R2Mean, Grid!Total
<1>5. Grid!Counted(xs).known > 0
  BY <1>2
<1>6. /\ Grid!R2Mean(xs) \in Int
      /\ \E i \in 1 .. n : xs[i] # NoRatio /\ xs[i] <= Grid!R2Mean(xs)
      /\ \E i \in 1 .. n : xs[i] # NoRatio /\ xs[i] >= Grid!R2Mean(xs)
  BY <1>1, <1>4, <1>5, MeanBetween
<1> QED BY <1>2, <1>4, <1>6, Zenon

\* The mean of a column some values of which are missing.
LEMMA MeanIs ==
  ASSUME NEW n \in Nat, NEW xs \in [1 .. n -> Results]
  PROVE  LET m == Grid!MeanIgnoringNull(xs)
             known == {i \in 1 .. n : xs[i] # NoRatio}
         IN  IF known = {} THEN m = NoRatio
             ELSE m # NoRatio /\ (\E i \in known : xs[i] <= m) /\ (\E i \in known : xs[i] >= m)
<1> DEFINE m == Grid!MeanIgnoringNull(xs)
           t == Grid!Counted(xs)
<1>1. NoRatio \notin Int
  BY GridConstants
<1>2. t.known \in Nat /\ (t.known = 0 <=> \A k \in 1 .. n : xs[k] = NoRatio)
  BY KnownAre
<1>3. m = IF t.known = 0 THEN NoRatio ELSE Grid!Rounded(t.sum, t.known)
  BY Zenon DEF Grid!MeanIgnoringNull, Grid!Total
<1>4. t.known # 0 => LET a == Grid!Rounded(t.sum, t.known)
                     IN  /\ a \in Int
                         /\ \E i \in 1 .. n : xs[i] # NoRatio /\ xs[i] <= a
                         /\ \E i \in 1 .. n : xs[i] # NoRatio /\ xs[i] >= a
  BY <1>2, MeanBetween
<1> HIDE DEF t, m
<1>5. CASE t.known = 0
  BY <1>2, <1>3, <1>5 DEF m
<1>6. CASE t.known # 0
  <2>1. m \in Int /\ (\E i \in 1 .. n : xs[i] # NoRatio /\ xs[i] <= m)
        /\ (\E i \in 1 .. n : xs[i] # NoRatio /\ xs[i] >= m)
    BY <1>3, <1>4, <1>6, Zenon
  <2>2. m # NoRatio
    BY <1>1, <2>1
  <2>3. {i \in 1 .. n : xs[i] # NoRatio} # {}
    BY <2>1
  <2> QED BY <2>1, <2>2, <2>3, Zenon DEF m
<1> QED BY <1>5, <1>6

\* The total is n means but for the rounding.
LEMMA OffIs ==
  ASSUME NEW s \in Int, NEW n \in Nat \ {0}
  PROVE  LET off == s - n * Grid!Rounded(s, n) IN -n <= 2 * off /\ 2 * off <= n
<1> DEFINE m == Grid!Rounded(s, n)
<1>1. m \in Int /\ n * m \in Int /\ 2 * (n * m) <= 2 * s + n /\ 2 * s + n < 2 * (n * m) + 2 * n
  BY RoundedIs
<1> HIDE DEF m
<1>2. PICK u \in Int : u = n * m
  BY <1>1
<1>3. u \in Int /\ 2 * u <= 2 * s + n /\ 2 * s + n < 2 * u + 2 * n
  BY <1>1, <1>2
<1>4. -n <= 2 * (s - u) /\ 2 * (s - u) <= n
  BY <1>3
<1> QED BY <1>2, <1>4 DEF m

\* A share of at most twenty is whole or nothing when it is rounded to it.
LEMMA ShareIs ==
  ASSUME NEW n \in 1 .. 20, NEW w \in 0 .. n
  PROVE  /\ Grid!Rounded(100 * w, n) = 100 <=> w = n
         /\ Grid!Rounded(100 * w, n) = 0 <=> w = 0
<1> DEFINE m == Grid!Rounded(100 * w, n)
<1>1. n \in Nat \ {0}
  OBVIOUS
<1>2. m \in Int /\ n * m \in Int /\ 2 * (n * m) <= 200 * w + n /\ 200 * w + n < 2 * (n * m) + 2 * n
  <2> DEFINE u == 100 * w
  <2>1. u \in Int /\ 2 * u = 200 * w
    OBVIOUS
  <2>2. m = Grid!Rounded(u, n)
    OBVIOUS
  <2> HIDE DEF u, m
  <2>3. /\ Grid!Rounded(u, n) \in Int /\ n * Grid!Rounded(u, n) \in Int
        /\ 2 * (n * Grid!Rounded(u, n)) <= 2 * u + n
        /\ 2 * u + n < 2 * (n * Grid!Rounded(u, n)) + 2 * n
    BY <1>1, <2>1, RoundedIs
  <2> QED BY <2>1, <2>2, <2>3
<1> HIDE DEF m
<1>3. m = 100 => w = n
  BY <1>2
<1>4. m = 0 => w = 0
  BY <1>2
<1>5. w = n => m = 100
  <2> SUFFICES ASSUME w = n PROVE m = 100
    OBVIOUS
  <2>1. m > 99
    <3> SUFFICES ASSUME m <= 99 PROVE FALSE
      BY <1>2
    <3>1. n * m <= n * 99
      BY <1>1, <1>2
    <3> QED BY <1>2, <3>1
  <2>2. m < 101
    <3> SUFFICES ASSUME m >= 101 PROVE FALSE
      BY <1>2
    <3>1. n * m >= n * 101
      BY <1>1, <1>2
    <3> QED BY <1>2, <3>1
  <2> QED BY <1>2, <2>1, <2>2
<1>6. w = 0 => m = 0
  <2> SUFFICES ASSUME w = 0 PROVE m = 0
    OBVIOUS
  <2>1. m > -1
    <3> SUFFICES ASSUME m <= -1 PROVE FALSE
      BY <1>2
    <3>1. n * m <= n * (-1)
      BY <1>1, <1>2
    <3> QED BY <1>2, <3>1
  <2>2. m < 1
    <3> SUFFICES ASSUME m >= 1 PROVE FALSE
      BY <1>2
    <3>1. n * m >= n * 1
      BY <1>1, <1>2
    <3> QED BY <1>2, <3>1
  <2> QED BY <1>2, <2>1, <2>2
<1> QED BY <1>3, <1>4, <1>5, <1>6 DEF m

\* The sign of a ratio is that of its parts.
LEMMA RatioIs ==
  ASSUME NEW s \in Int, NEW t \in Int, t # 0
  PROVE  LET r == Grid!Rounded(100 * s, t)
         IN  r \in Int /\ (r # 0 => (r > 0 <=> (s > 0 <=> t > 0)))
<1> DEFINE e == IF t > 0 THEN t ELSE -t
           v == IF t > 0 THEN s ELSE -s
           r == Grid!Rounded(100 * s, t)
           q == (200 * v + e) \div (2 * e)
<1>1. e \in Nat \ {0} /\ v \in Int /\ 2 * e \in Nat \ {0} /\ 200 * v + e \in Int
  OBVIOUS
<1>2. r = q
  <2>1. CASE t > 0
    <3>1. 2 * (100 * s) + t = 200 * v + e /\ 2 * t = 2 * e
      BY <2>1
    <3>2. r = (2 * (100 * s) + t) \div (2 * t)
      BY <2>1 DEF Grid!Rounded
    <3> QED BY <3>1, <3>2
  <2>2. CASE ~ (t > 0)
    <3>1. -2 * (100 * s) - t = 200 * v + e /\ -2 * t = 2 * e
      BY <2>2
    <3>2. r = (-2 * (100 * s) - t) \div (-2 * t)
      BY <2>2 DEF Grid!Rounded
    <3> QED BY <3>1, <3>2
  <2> QED BY <2>1, <2>2
<1>3. v > 0 <=> (IF t > 0 THEN s > 0 ELSE s < 0)
  OBVIOUS
<1> HIDE DEF e, r, v
<1>4. q \in Int /\ (2 * e) * q <= 200 * v + e /\ 200 * v + e < (2 * e) * q + 2 * e
  BY <1>1, IntQuotient
<1> HIDE DEF q
<1>5. q > 0 => v > 0
  <2> SUFFICES ASSUME q >= 1 PROVE v > 0
    BY <1>4
  <2>1. (2 * e) * q >= (2 * e) * 1
    BY <1>1, <1>4
  <2>2. 2 * e <= 200 * v + e
    BY <1>1, <1>4, <2>1
  <2> QED BY <1>1, <2>2
<1>6. q < 0 => v < 0
  <2> SUFFICES ASSUME q <= -1 PROVE v < 0
    BY <1>4
  <2>1. (2 * e) * q <= (2 * e) * (-1)
    BY <1>1, <1>4
  <2>2. 200 * v + e < 0
    BY <1>1, <1>4, <2>1
  <2> QED BY <1>1, <2>2
<1>7. v < 0 <=> (IF t > 0 THEN s < 0 ELSE s > 0)
  BY DEF v
<1> QED BY <1>1, <1>2, <1>3, <1>4, <1>5, <1>6, <1>7 DEF r

-----------------------------------------------------------------------------
WalkOk(W, n) ==
  W.status = "DONE" =>
    /\ n \in 1 .. 20 /\ W.progress = [i \in 1 .. n |-> i]
    /\ W.is \in [1 .. n -> Reports] /\ W.oos \in [1 .. n -> Reports]
    /\ W.aggregate = <<Grid!Aggregate(W.is, W.oos)>>
GridOk(F, W) ==
  /\ \E n \in Nat : FoldsOk(F, n) /\ WalkOk(W, n)
  /\ W.status = "DONE" => F.status = 202
GridIInv == GridOk(folds, walk)

\* There is no grid, no fold and no walk-forward at first.
LEMMA GridInit == Grid!Init => GridIInv
<1> SUFFICES ASSUME Grid!Init PROVE GridIInv
  OBVIOUS
<1>1. folds = Grid!NoFolds /\ walk = Grid!NoWalk
  BY DEF Grid!Init
<1>2. walk.status # "DONE"
  BY <1>1 DEF Grid!NoWalk
<1>3. /\ folds.bars = 0 /\ folds.status = 400 /\ folds.list = << >> /\ folds.cfg = Grid!NoCfg
  BY <1>1 DEF Grid!NoFolds
<1>4. Grid!NoCfg \in CfgShape
  BY DEF Grid!NoCfg, CfgShape
<1>5. FoldsOf(folds.bars, folds.cfg, 0) = << >>
  BY DEF FoldsOf
<1>6. FoldsOk(folds, 0) /\ WalkOk(walk, 0)
  BY <1>2, <1>3, <1>4, <1>5 DEF FoldsOk, WalkOk
<1> QED BY <1>2, <1>6, 0 \in Nat, Zenon DEF GridIInv, GridOk

\* What the request for a walk-forward lays out.
LEMMA PostIs ==
  ASSUME NEW bars \in Nat, NEW cfg \in CfgShape, NEW interval, NEW mtf, NEW bundle,
         Grid!PostWalkForward(bars, cfg, interval, mtf, bundle)
  PROVE  \E n \in Nat : FoldsOk(folds', n)
<1> DEFINE all == Grid!Split(bars, cfg)
           room == bars - cfg.isBars - cfg.oosBars
           n == IF bars < cfg.isBars + cfg.oosBars THEN 0 ELSE room \div cfg.step + 1
<1>1. cfg.isBars \in Nat \ {0} /\ cfg.oosBars \in Nat \ {0} /\ cfg.step \in Nat \ {0}
  BY DEF CfgShape
<1>2. PICK F : F = folds'
  OBVIOUS
<1>3. /\ F.bars = bars /\ F.cfg = cfg
      /\ F.status = (IF Grid!Len(all) \in 1 .. 20 THEN 202 ELSE 400)
      /\ F.list = [i \in DOMAIN all |-> FoldRow(bars, cfg, all[i])]
  <2>1. folds' = [bars |-> bars, cfg |-> cfg, interval |-> interval, mtf |-> mtf, bundle |-> bundle,
                  status |-> IF Grid!Len(all) \in 1 .. 20 THEN 202 ELSE 400,
                  list |-> [i \in DOMAIN all |-> FoldRow(bars, cfg, all[i])]]
    BY Zenon DEF Grid!PostWalkForward, FoldRow
  <2> HIDE DEF all
  <2> QED BY <1>2, <2>1
<1>4. n \in Nat /\ (n # 0 => bars >= cfg.isBars + cfg.oosBars /\ n = room \div cfg.step + 1)
  <2>1. CASE bars < cfg.isBars + cfg.oosBars
    BY <2>1
  <2>2. CASE ~ (bars < cfg.isBars + cfg.oosBars)
    <3>1. room \in Nat /\ bars >= cfg.isBars + cfg.oosBars
      BY <1>1, <2>2
    <3>2. room \div cfg.step \in Nat
      BY <1>1, <3>1, Quotient
    <3> QED BY <2>2, <3>1, <3>2
  <2> QED BY <2>1, <2>2
<1>5. all = [i \in 1 .. n |-> Grid!FoldAt(cfg, i - 1)]
  <2>1. CASE bars < cfg.isBars + cfg.oosBars
    <3>1. all = << >> /\ n = 0
      BY <2>1 DEF Grid!Split
    <3> HIDE DEF all, n
    <3> QED BY <3>1
  <2>2. CASE ~ (bars < cfg.isBars + cfg.oosBars)
    BY <2>2, Zenon DEF Grid!Split
  <2> QED BY <2>1, <2>2
<1> HIDE DEF all, n
<1>6. DOMAIN all = 1 .. n /\ Grid!Len(all) = n
  <2> DEFINE S == {Grid!FoldAt(cfg, i - 1) : i \in 1 .. n}
  <2>1. all \in [1 .. n -> S]
    BY <1>5
  <2> HIDE DEF S
  <2> QED BY <1>4, <2>1, LengthOf
<1>7. F.list = FoldsOf(F.bars, F.cfg, n)
  <2>1. \A i \in 1 .. n : all[i] = Grid!FoldAt(cfg, i - 1)
    BY <1>5
  <2> QED BY <1>3, <1>6, <2>1 DEF FoldsOf
<1>8. F.status = 202 => n \in 1 .. 20
  BY <1>3, <1>6
<1>9. FoldsOk(F, n)
  BY <1>3, <1>4, <1>7, <1>8, Zenon DEF FoldsOk
<1> QED BY <1>2, <1>4, <1>9, Zenon

\* A fold is run after those before it, and the aggregate is of them all.
LEMMA WalkIs ==
  ASSUME GridIInv, NEW a \in Reports, NEW b \in Reports, NEW c \in Reports,
         Grid!RunWalkForward(<<a, b>>, <<c, a>>)
  PROVE  GridIInv'
<1>1. PICK n \in Nat : FoldsOk(folds, n)
  BY Zenon DEF GridIInv, GridOk
<1> DEFINE Alternating(pair) == [i \in DOMAIN folds.list |-> pair[(i % 2) + 1]]
           is == Alternating(<<a, b>>)
           oos == Alternating(<<c, a>>)
           done == [status |-> "DONE", progress |-> [i \in DOMAIN folds.list |-> i],
                    is |-> is, oos |-> oos, aggregate |-> <<Grid!Aggregate(is, oos)>>]
           failed == [Grid!NoWalk EXCEPT !.status = "FAILED"]
<1>2. /\ folds.status = 202 /\ folds' = folds
      /\ walk' = IF Grid!Refused THEN failed ELSE done
  BY Zenon DEF Grid!RunWalkForward
<1>3. n \in 1 .. 20 /\ folds.list = FoldsOf(folds.bars, folds.cfg, n)
  BY <1>1, <1>2, Zenon DEF FoldsOk
<1>4. DOMAIN folds.list = 1 .. n
  BY <1>3 DEF FoldsOf
<1>5. is \in [1 .. n -> Reports] /\ oos \in [1 .. n -> Reports]
  <2>1. \A i \in 1 .. n : (i % 2) + 1 \in {1, 2}
    OBVIOUS
  <2>2. \A x, y \in Reports : \A k \in {1, 2} : <<x, y>>[k] \in Reports
    OBVIOUS
  <2>3. \A x, y \in Reports : Alternating(<<x, y>>) \in [1 .. n -> Reports]
    BY <1>4, <2>1, <2>2
  <2> QED BY <2>3
<1>6. WalkOk(done, n)
  <2>1. /\ done.status = "DONE" /\ done.progress = [i \in DOMAIN folds.list |-> i]
        /\ done.is = is /\ done.oos = oos /\ done.aggregate = <<Grid!Aggregate(is, oos)>>
    OBVIOUS
  <2> HIDE DEF done, is, oos
  <2> QED BY <1>3, <1>4, <1>5, <2>1, Zenon DEF WalkOk
<1>7. WalkOk(failed, n)
  <2>1. failed.status = "FAILED"
    BY DEF Grid!NoWalk
  <2> QED BY <2>1 DEF WalkOk
<1> HIDE DEF done, failed
<1>8. WalkOk(walk', n)
  BY <1>2, <1>6, <1>7, Zenon
<1>9. GridOk(folds', walk')
  BY <1>1, <1>2, <1>8, Zenon DEF GridOk
<1> QED BY <1>9, Zenon DEF GridIInv

\* So every step keeps the invariant.
LEMMA GridStep == GridIInv /\ [Grid!Next]_gridVars => GridIInv'
<1> SUFFICES ASSUME GridIInv, [Grid!Next]_gridVars PROVE GridIInv'
  OBVIOUS
<1>1. ASSUME UNCHANGED <<folds, walk>> PROVE GridIInv'
  <2>1. GridOk(folds', walk')
    BY <1>1, Zenon DEF GridIInv
  <2> QED BY <2>1, Zenon DEF GridIInv
<1>2. ASSUME NEW n, NEW ps, NEW slip, Grid!PostSweep(ps, slip) PROVE GridIInv'
  BY <1>1, <1>2, Zenon DEF Grid!PostSweep
<1>3. ASSUME NEW bars \in 0 .. MaxDatasetBars, NEW is \in 1 .. 4, NEW oos \in 1 .. 3, NEW by \in 1 .. 3,
             NEW anchored \in BOOLEAN, NEW interval, NEW mtf, NEW bundle, folds = Grid!NoFolds,
             Grid!PostWalkForward(bars, [isBars |-> is, oosBars |-> oos, step |-> by,
                                         anchored |-> anchored], interval, mtf, bundle)
      PROVE  GridIInv'
  <2> DEFINE cfg == [isBars |-> is, oosBars |-> oos, step |-> by, anchored |-> anchored]
  <2>1. cfg \in CfgShape
    BY DEF CfgShape
  <2>2. bars \in Nat
    BY GridConstants
  <2> HIDE DEF cfg
  <2>3. Grid!PostWalkForward(bars, cfg, interval, mtf, bundle)
    BY <1>3 DEF cfg
  <2>4. PICK n \in Nat : FoldsOk(folds', n)
    BY <2>1, <2>2, <2>3, PostIs
  <2>5. walk' = walk /\ walk.status # "DONE"
    <3>1. walk' = walk
      BY <2>3, Zenon DEF Grid!PostWalkForward
    <3>2. folds.status # 202
      BY <1>3 DEF Grid!NoFolds
    <3> QED BY <3>1, <3>2, Zenon DEF GridIInv, GridOk
  <2>6. WalkOk(walk', n)
    BY <2>5, Zenon DEF WalkOk
  <2>7. GridOk(folds', walk')
    BY <2>4, <2>5, <2>6, Zenon DEF GridOk
  <2> QED BY <2>7, Zenon DEF GridIInv
<1>4. ASSUME NEW a \in Reports, NEW b \in Reports, NEW c \in Reports,
             Grid!RunWalkForward(<<a, b>>, <<c, a>>)
      PROVE  GridIInv'
  BY <1>4, WalkIs
<1>5. CASE Grid!Next
  BY <1>2, <1>3, <1>4, <1>5, Zenon DEF Grid!Next
<1>6. CASE UNCHANGED gridVars
  <2>1. UNCHANGED <<folds, walk>>
    BY <1>6, Zenon DEF gridVars
  <2> QED BY <1>1, <2>1
<1> QED BY <1>5, <1>6, Zenon

\* The instance counts as the library does.
LEMMA GridCount == \A S : Grid!Cardinality(S) = Cardinality(S)
BY DEF Grid!Cardinality, Cardinality

\* As many of n are good as are counted.
LEMMA ShareOf ==
  ASSUME NEW n \in Nat, NEW W \in SUBSET (1 .. n)
  PROVE  /\ Grid!Cardinality(W) \in 0 .. n
         /\ Grid!Cardinality(W) = n <=> W = 1 .. n
         /\ Grid!Cardinality(W) = 0 <=> W = {}
<1>1. IsFiniteSet(1 .. n) /\ Cardinality(1 .. n) = n
  <2>1. \A a, b \in Int : IsFiniteSet(a .. b) /\ Cardinality(a .. b) = IF a > b THEN 0 ELSE b - a + 1
    BY FS_Interval
  <2>2. IsFiniteSet(1 .. n) /\ Cardinality(1 .. n) = IF 1 > n THEN 0 ELSE n - 1 + 1
    BY <2>1
  <2> QED BY <2>2
<1>2. \A S : IsFiniteSet(S) => \A T \in SUBSET S :
        /\ IsFiniteSet(T) /\ Cardinality(T) <= Cardinality(S)
        /\ Cardinality(S) = Cardinality(T) => S = T
  BY FS_Subset
<1>3. /\ IsFiniteSet(W) /\ Cardinality(W) <= n /\ (Cardinality(W) = n => W = 1 .. n)
  <2> DEFINE S == 1 .. n
  <2>1. W \in SUBSET S /\ IsFiniteSet(S) /\ Cardinality(S) = n
    BY <1>1, Zenon
  <2> HIDE DEF S
  <2>2. IsFiniteSet(W) /\ Cardinality(W) <= Cardinality(S) /\ (Cardinality(S) = Cardinality(W) => S = W)
    BY <1>2, <2>1, Zenon
  <2>3. IsFiniteSet(W) /\ Cardinality(W) <= n /\ (Cardinality(W) = n => W = S)
    BY <2>1, <2>2, Zenon
  <2> QED BY <2>3 DEF S
<1>4. Cardinality(W) \in Nat
  BY <1>3, FS_CardinalityType
<1>5. Cardinality(W) = 0 <=> W = {}
  BY <1>3, FS_EmptySet
<1>6. Grid!Cardinality(W) = Cardinality(W)
  BY GridCount
<1> QED BY <1>1, <1>3, <1>4, <1>5, <1>6

\* What an aggregate says of the reports it is of.
LEMMA AggregateHolds ==
  ASSUME NEW n \in 1 .. 20, NEW is \in [1 .. n -> Reports], NEW oos \in [1 .. n -> Reports]
  PROVE  LET a == Grid!Aggregate(is, oos)
             x == Grid!Pnls(is)
             y == Grid!Pnls(oos)
         IN  /\ (\E i \in 1 .. n : x[i] <= a.avgIsPnl) /\ (\E i \in 1 .. n : x[i] >= a.avgIsPnl)
             /\ (\E i \in 1 .. n : y[i] <= a.avgOosPnl) /\ (\E i \in 1 .. n : y[i] >= a.avgOosPnl)
             /\ a.avgIsSharpe = Grid!MeanIgnoringNull(Grid!Sharpes(is))
             /\ a.avgOosSharpe = Grid!MeanIgnoringNull(Grid!Sharpes(oos))
             /\ -n <= 2 * (a.totalOosPnl - n * a.avgOosPnl)
             /\ 2 * (a.totalOosPnl - n * a.avgOosPnl) <= n
             /\ a.winShare = 100 <=> \A i \in 1 .. n : y[i] > 0
             /\ a.winShare = 0 <=> \A i \in 1 .. n : y[i] <= 0
             /\ a.isOosRatio = NoRatio => a.avgIsPnl = 0
             /\ a.isOosRatio # NoRatio /\ a.isOosRatio # 0 =>
                  (a.isOosRatio > 0 <=> (Grid!Total(y) > 0 <=> Grid!Total(x) > 0))
<1> DEFINE a == Grid!Aggregate(is, oos)
           x == Grid!Pnls(is)
           y == Grid!Pnls(oos)
           won == {i \in 1 .. n : y[i] > 0}
<1>1. n \in Nat \ {0} /\ n \in Nat
  OBVIOUS
<1>2. NoRatio \notin Int
  BY GridConstants
<1>3. Grid!Len(oos) = n
  BY <1>1, LengthOf
<1>4. /\ a.avgIsPnl = Grid!R2Mean(x) /\ a.avgOosPnl = Grid!R2Mean(y)
      /\ a.totalOosPnl = Grid!Total(y)
      /\ a.avgIsSharpe = Grid!MeanIgnoringNull(Grid!Sharpes(is))
      /\ a.avgOosSharpe = Grid!MeanIgnoringNull(Grid!Sharpes(oos))
      /\ a.isOosRatio = (IF Grid!Total(x) = 0 THEN NoRatio
                         ELSE Grid!Rounded(100 * Grid!Total(y), Grid!Total(x)))
      /\ a.winShare = Grid!Rounded(100 * Grid!Cardinality({i \in 1 .. Grid!Len(oos) : y[i] > 0}),
                                   Grid!Len(oos))
  BY Zenon DEF Grid!Aggregate
<1>5. a.winShare = Grid!Rounded(100 * Grid!Cardinality(won), n)
  BY <1>3, <1>4, Zenon
<1>6. /\ x \in [1 .. n -> Results] /\ y \in [1 .. n -> Results]
      /\ \A i \in 1 .. n : x[i] \in Int /\ x[i] # NoRatio /\ y[i] \in Int /\ y[i] # NoRatio
  BY <1>1, ResultsAre
<1> HIDE DEF a, x, y
<1>7. /\ Grid!Total(x) \in Int /\ Grid!R2Mean(x) = Grid!Rounded(Grid!Total(x), n)
      /\ (\E i \in 1 .. n : x[i] <= Grid!R2Mean(x)) /\ (\E i \in 1 .. n : x[i] >= Grid!R2Mean(x))
  BY <1>1, <1>6, R2MeanBetween
<1>8. /\ Grid!Total(y) \in Int /\ Grid!R2Mean(y) = Grid!Rounded(Grid!Total(y), n)
      /\ (\E i \in 1 .. n : y[i] <= Grid!R2Mean(y)) /\ (\E i \in 1 .. n : y[i] >= Grid!R2Mean(y))
  BY <1>1, <1>6, R2MeanBetween
<1>9. /\ -n <= 2 * (a.totalOosPnl - n * a.avgOosPnl)
      /\ 2 * (a.totalOosPnl - n * a.avgOosPnl) <= n
  <2>1. LET off == Grid!Total(y) - n * Grid!Rounded(Grid!Total(y), n) IN -n <= 2 * off /\ 2 * off <= n
    BY <1>1, <1>8, OffIs
  <2>2. a.totalOosPnl = Grid!Total(y) /\ a.avgOosPnl = Grid!Rounded(Grid!Total(y), n)
    BY <1>4, <1>8, Zenon
  <2> QED BY <2>1, <2>2
<1>10. /\ a.winShare = 100 <=> \A i \in 1 .. n : y[i] > 0
       /\ a.winShare = 0 <=> \A i \in 1 .. n : y[i] <= 0
  <2>1. /\ Grid!Cardinality(won) \in 0 .. n
        /\ Grid!Cardinality(won) = n <=> won = 1 .. n
        /\ Grid!Cardinality(won) = 0 <=> won = {}
    <3>1. won \in SUBSET (1 .. n)
      OBVIOUS
    <3> HIDE DEF won
    <3> QED BY <1>1, <3>1, ShareOf
  <2>2. /\ Grid!Rounded(100 * Grid!Cardinality(won), n) = 100 <=> Grid!Cardinality(won) = n
        /\ Grid!Rounded(100 * Grid!Cardinality(won), n) = 0 <=> Grid!Cardinality(won) = 0
    <3> HIDE DEF won
    <3> QED BY <2>1, ShareIs
  <2>3. /\ won = 1 .. n <=> \A i \in 1 .. n : y[i] > 0
        /\ won = {} <=> \A i \in 1 .. n : y[i] <= 0
    <3>1. \A k \in Int : ~(k > 0) <=> k <= 0
      OBVIOUS
    <3>2. \A i \in 1 .. n : ~(y[i] > 0) <=> y[i] <= 0
      BY <1>6, <3>1, Zenon
    <3>3. won = 1 .. n <=> \A i \in 1 .. n : y[i] > 0
      BY Zenon
    <3>4. won = {} <=> \A i \in 1 .. n : y[i] <= 0
      BY <3>2, Zenon
    <3> QED BY <3>3, <3>4, Zenon
  <2> HIDE DEF won
  <2> QED BY <1>5, <2>1, <2>2, <2>3, Zenon
<1>11. a.isOosRatio = NoRatio => a.avgIsPnl = 0
  <2> SUFFICES ASSUME a.isOosRatio = NoRatio PROVE Grid!R2Mean(x) = 0
    BY <1>4
  <2>1. Grid!Total(x) = 0
    <3> SUFFICES ASSUME Grid!Total(x) # 0 PROVE FALSE
      OBVIOUS
    <3>1. Grid!Rounded(100 * Grid!Total(y), Grid!Total(x)) \in Int
      BY <1>7, <1>8, RatioIs
    <3> QED BY <1>2, <1>4, <3>1
  <2>2. Grid!R2Mean(x) = Grid!Rounded(0, n)
    BY <1>7, <2>1
  <2>3. 0 \in 0 .. n /\ 100 * 0 = 0
    BY <1>1
  <2>4. Grid!Rounded(100 * 0, n) = 0 <=> 0 = 0
    BY <2>3, ShareIs
  <2> QED BY <2>2, <2>3, <2>4
<1>12. a.isOosRatio # NoRatio /\ a.isOosRatio # 0 =>
         (a.isOosRatio > 0 <=> (Grid!Total(y) > 0 <=> Grid!Total(x) > 0))
  <2> SUFFICES ASSUME a.isOosRatio # NoRatio, a.isOosRatio # 0
               PROVE  a.isOosRatio > 0 <=> (Grid!Total(y) > 0 <=> Grid!Total(x) > 0)
    OBVIOUS
  <2>1. Grid!Total(x) # 0 /\ a.isOosRatio = Grid!Rounded(100 * Grid!Total(y), Grid!Total(x))
    BY <1>4, Zenon
  <2>2. PICK r : r = a.isOosRatio
    OBVIOUS
  <2>3. r \in Int /\ (r # 0 => (r > 0 <=> (Grid!Total(y) > 0 <=> Grid!Total(x) > 0)))
    BY <1>7, <1>8, <2>1, <2>2, RatioIs
  <2> QED BY <2>2, <2>3, Zenon
<1>13. /\ (\E i \in 1 .. n : x[i] <= a.avgIsPnl) /\ (\E i \in 1 .. n : x[i] >= a.avgIsPnl)
       /\ (\E i \in 1 .. n : y[i] <= a.avgOosPnl) /\ (\E i \in 1 .. n : y[i] >= a.avgOosPnl)
  BY <1>4, <1>7, <1>8, Zenon
<1>14. /\ a.avgIsSharpe = Grid!MeanIgnoringNull(Grid!Sharpes(is))
       /\ a.avgOosSharpe = Grid!MeanIgnoringNull(Grid!Sharpes(oos))
  BY <1>4, Zenon
<1> USE DEF a, x, y
<1> QED BY ONLY <1>13, <1>14, <1>9, <1>10, <1>11, <1>12

\* The invariant says what the run checks of a walk-forward.
LEMMA GridHolds == GridIInv => Grid!FoldsAreHonest /\ Grid!AggregateIsOfFolds
<1> SUFFICES ASSUME GridIInv PROVE Grid!FoldsAreHonest /\ Grid!AggregateIsOfFolds
  OBVIOUS
<1>1. PICK n \in Nat : FoldsOk(folds, n) /\ WalkOk(walk, n)
  BY Zenon DEF GridIInv, GridOk
<1>2. Grid!FoldsAreHonest
  BY <1>1, FoldsHold
<1>3. Grid!AggregateIsOfFolds
  <2> SUFFICES ASSUME walk.status = "DONE" PROVE Grid!AggregateIsOfFolds
    BY Zenon DEF Grid!AggregateIsOfFolds
  <2>1. /\ n \in 1 .. 20 /\ walk.progress = [i \in 1 .. n |-> i]
        /\ walk.is \in [1 .. n -> Reports] /\ walk.oos \in [1 .. n -> Reports]
        /\ walk.aggregate = <<Grid!Aggregate(walk.is, walk.oos)>>
    BY <1>1, Zenon DEF WalkOk
  <2>2. Grid!Len(folds.list) = n
    <3> DEFINE S == {FoldRow(folds.bars, folds.cfg, Grid!FoldAt(folds.cfg, i - 1)) : i \in 1 .. n}
    <3>1. folds.list = FoldsOf(folds.bars, folds.cfg, n)
      BY <1>1, Zenon DEF FoldsOk
    <3>2. folds.list \in [1 .. n -> S]
      BY <3>1 DEF FoldsOf
    <3> HIDE DEF S
    <3> QED BY <3>2, LengthOf
  <2>3. /\ Grid!Pnls(walk.is) \in [1 .. n -> Results] /\ Grid!Pnls(walk.oos) \in [1 .. n -> Results]
        /\ Grid!Sharpes(walk.is) \in [1 .. n -> Results] /\ Grid!Sharpes(walk.oos) \in [1 .. n -> Results]
    BY <2>1, ResultsAre
  <2>4. Grid!Len(Grid!Pnls(walk.is)) = n /\ Grid!Len(Grid!Pnls(walk.oos)) = n
    BY <2>3, LengthOf
  <2> DEFINE a == Grid!Aggregate(walk.is, walk.oos)
             x == Grid!Pnls(walk.is)
             y == Grid!Pnls(walk.oos)
  <2>5. walk.aggregate[1] = a
    BY <2>1
  <2>6. /\ (\E i \in 1 .. n : x[i] <= a.avgIsPnl) /\ (\E i \in 1 .. n : x[i] >= a.avgIsPnl)
        /\ (\E i \in 1 .. n : y[i] <= a.avgOosPnl) /\ (\E i \in 1 .. n : y[i] >= a.avgOosPnl)
        /\ a.avgIsSharpe = Grid!MeanIgnoringNull(Grid!Sharpes(walk.is))
        /\ a.avgOosSharpe = Grid!MeanIgnoringNull(Grid!Sharpes(walk.oos))
        /\ -n <= 2 * (a.totalOosPnl - n * a.avgOosPnl)
        /\ 2 * (a.totalOosPnl - n * a.avgOosPnl) <= n
        /\ a.winShare = 100 <=> \A i \in 1 .. n : y[i] > 0
        /\ a.winShare = 0 <=> \A i \in 1 .. n : y[i] <= 0
        /\ a.isOosRatio = NoRatio => a.avgIsPnl = 0
        /\ a.isOosRatio # NoRatio /\ a.isOosRatio # 0 =>
             (a.isOosRatio > 0 <=> (Grid!Total(y) > 0 <=> Grid!Total(x) > 0))
    BY <2>1, AggregateHolds
  <2> DEFINE MeanOk(m, xs) == LET known == {i \in 1 .. n : xs[i] # NoRatio}
                              IN  IF known = {} THEN m = NoRatio
                                  ELSE m # NoRatio /\ (\E i \in known : xs[i] <= m)
                                                   /\ (\E i \in known : xs[i] >= m)
  <2>7. /\ MeanOk(Grid!MeanIgnoringNull(Grid!Sharpes(walk.is)), Grid!Sharpes(walk.is))
        /\ MeanOk(Grid!MeanIgnoringNull(Grid!Sharpes(walk.oos)), Grid!Sharpes(walk.oos))
    BY <2>3, MeanIs
  <2> DEFINE Body(b, m, p, q, u, v) ==
        LET Between(r, xs, of) == (\E i \in of : xs[i] <= r) /\ (\E i \in of : xs[i] >= r)
            Known(xs) == {i \in 1 .. m : xs[i] # NoRatio}
            Mean(r, xs) == IF Known(xs) = {} THEN r = NoRatio
                           ELSE r # NoRatio /\ Between(r, xs, Known(xs))
        IN /\ Grid!Len(q) = m /\ Grid!Len(p) = m /\ walk.progress = [i \in 1 .. m |-> i]
           /\ Between(b.avgIsPnl, p, 1 .. m) /\ Between(b.avgOosPnl, q, 1 .. m)
           /\ Mean(b.avgIsSharpe, u) /\ Mean(b.avgOosSharpe, v)
           /\ LET off == b.totalOosPnl - m * b.avgOosPnl IN -m <= 2 * off /\ 2 * off <= m
           /\ b.winShare = 100 <=> \A i \in 1 .. m : q[i] > 0
           /\ b.winShare = 0 <=> \A i \in 1 .. m : q[i] <= 0
           /\ b.isOosRatio = NoRatio => b.avgIsPnl = 0
           /\ b.isOosRatio # NoRatio /\ b.isOosRatio # 0 =>
                (b.isOosRatio > 0 <=> (Grid!Total(q) > 0 <=> Grid!Total(p) > 0))
  <2> HIDE DEF a, x, y
  <2>8. /\ MeanOk(a.avgIsSharpe, Grid!Sharpes(walk.is))
        /\ MeanOk(a.avgOosSharpe, Grid!Sharpes(walk.oos))
    <3> HIDE DEF MeanOk
    <3> QED BY <2>6, <2>7, Zenon
  <2>9. Grid!Len(y) = n /\ Grid!Len(x) = n
    BY <2>4 DEF x, y
  <2>10. Body(a, n, x, y, Grid!Sharpes(walk.is), Grid!Sharpes(walk.oos))
    BY ONLY <2>1, <2>6, <2>8, <2>9
  <2>11. Grid!AggregateIsOfFolds <=> Body(walk.aggregate[1], Grid!Len(folds.list), Grid!Pnls(walk.is),
                                          Grid!Pnls(walk.oos), Grid!Sharpes(walk.is), Grid!Sharpes(walk.oos))
    BY ONLY walk.status = "DONE" DEF Grid!AggregateIsOfFolds
  <2> HIDE DEF Body
  <2> QED BY <2>2, <2>5, <2>10, <2>11, Zenon DEF x, y
<1> QED BY <1>2, <1>3

-----------------------------------------------------------------------------
(* The stops of a backtest that are trailed                                  *)

\* What is left of a price less or more a share of it moves with the price.
LEMMA BackMoves ==
  ASSUME NEW side \in Sided, NEW m \in Nat, NEW n \in Nat, NEW c \in 0 .. 100, Trade!AsBad(side, m, n)
  PROVE  Trade!AsBad(side, Trade!Toward(side, m, -Trade!Percent(m, c)),
                           Trade!Toward(side, n, -Trade!Percent(n, c)))
<1>1. m * c \in Nat /\ n * c \in Nat /\ c \in Nat
  BY Product
<1>2. \A x, y \in Nat : x <= y => x * c <= y * c /\ y * c <= x * c + (y - x) * 100
  <2> SUFFICES ASSUME NEW x \in Nat, NEW y \in Nat, x <= y
               PROVE  x * c <= y * c /\ y * c <= x * c + (y - x) * 100
    OBVIOUS
  <2>1. y - x \in Nat /\ c \in Nat /\ c <= 100
    OBVIOUS
  <2>2. (y - x) * c <= (y - x) * 100 /\ x * c <= y * c
    BY <2>1, ProductGrows
  <2>3. y * c = x * c + (y - x) * c
    BY <2>1
  <2>4. x * c \in Nat /\ y * c \in Nat /\ (y - x) * c \in Nat
    BY <2>1, Product
  <2> QED BY <2>1, <2>2, <2>3, <2>4
<1>3. \A x, y \in Nat : x <= y =>
        Trade!Percent(x, c) <= Trade!Percent(y, c) /\ Trade!Percent(y, c) <= Trade!Percent(x, c) + (y - x)
  <2> SUFFICES ASSUME NEW x \in Nat, NEW y \in Nat, x <= y
               PROVE  /\ Trade!Percent(x, c) <= Trade!Percent(y, c)
                      /\ Trade!Percent(y, c) <= Trade!Percent(x, c) + (y - x)
    OBVIOUS
  <2>1. x * c \in Nat /\ y * c \in Nat
    BY Product
  <2>2. \A u, v, k \in Nat : u <= v /\ v <= u + k * 100 => u \div 100 <= v \div 100 /\ v \div 100 <= u \div 100 + k
    OBVIOUS
  <2>3. y - x \in Nat
    OBVIOUS
  <2>4. x * c <= y * c /\ y * c <= x * c + (y - x) * 100
    BY <1>2
  <2>5. (x * c) \div 100 <= (y * c) \div 100 /\ (y * c) \div 100 <= (x * c) \div 100 + (y - x)
    BY <2>1, <2>2, <2>3, <2>4, Zenon
  <2> QED BY <2>5 DEF Trade!Percent
<1>4. Trade!Percent(m, c) \in Nat /\ Trade!Percent(n, c) \in Nat
  BY <1>1 DEF Trade!Percent
<1>5. CASE side = "long"
  <2>1. m <= n
    BY <1>5 DEF Trade!AsBad, Trade!Gain
  <2>2. Trade!Percent(n, c) <= Trade!Percent(m, c) + (n - m)
    BY <1>3, <2>1
  <2> HIDE DEF Trade!Percent
  <2> QED BY <1>4, <1>5, <2>1, <2>2 DEF Trade!AsBad, Trade!Gain, Trade!Toward
<1>6. CASE side # "long"
  <2>1. n <= m
    BY <1>6 DEF Trade!AsBad, Trade!Gain
  <2>2. Trade!Percent(n, c) <= Trade!Percent(m, c)
    BY <1>3, <2>1
  <2> QED BY <1>4, <1>6, <2>1, <2>2 DEF Trade!AsBad, Trade!Gain, Trade!Toward
<1> QED BY <1>5, <1>6

\* A stop that is trailed is no further from its mark than the callback.
Follows(side, t, c) ==
  t.active => Trade!AsBad(side, t.stop, Trade!Toward(side, t.mark, -Trade!Percent(t.mark, c)))

\* Trailing moves such a stop in favour of the position or leaves it.
LEMMA TrailTightens ==
  ASSUME TradeShape, NEW p \in PositionOf(strategy), NEW b, BarOk(b), p.trail.mark > 0,
         strategy.trail.callback \in 0 .. 100, Follows(p.side, p.trail, strategy.trail.callback)
  PROVE  LET t == Trade!TrailAfter(p, b)
         IN  /\ Follows(p.side, t, strategy.trail.callback)
             /\ p.trail.active => t.active /\ Trade!AsBad(p.side, p.trail.stop, t.stop)
<1> DEFINE t == Trade!TrailAfter(p, b)
           best == Trade!Best(p.side, b)
           mark == IF Trade!AsBad(p.side, p.trail.mark, best) THEN best ELSE p.trail.mark
           active == Trade!AsBad(p.side, Trade!Toward(p.side, p.entry,
                       Trade!Percent(p.entry, strategy.trail.activation)), mark)
           Back(m) == Trade!Toward(p.side, m, -Trade!Percent(m, strategy.trail.callback))
           stop == IF active THEN Back(mark) ELSE p.trail.stop
<1>1. t = [mark |-> mark, active |-> p.trail.active \/ active, stop |-> stop]
  BY Zenon DEF Trade!TrailAfter
<1>2. p.trail.mark \in Nat /\ p.trail.stop \in Int /\ p.side \in Sided /\ p.trail.active \in BOOLEAN
  BY DEF PositionOf, TrailShape
<1>3. best \in Nat
  <2>1. b.high \in Nat \ {0} /\ b.low \in Nat \ {0}
    BY Zenon DEF BarOk
  <2> QED BY <2>1 DEF Trade!Best
<1> HIDE DEF best
<1>4. \A side, x : x \in Int => Trade!AsBad(side, x, x)
  BY DEF Trade!AsBad, Trade!Gain
<1>5. mark \in Nat /\ Trade!AsBad(p.side, p.trail.mark, mark)
  <2>1. \A x \in Nat : Trade!AsBad(p.side, x, x)
    BY <1>4
  <2> QED BY <1>2, <1>3, <2>1, Zenon
<1> HIDE DEF mark, active
<1>6. \A m \in Nat : Back(m) \in Int
  <2> SUFFICES ASSUME NEW m \in Nat PROVE Back(m) \in Int
    OBVIOUS
  <2>1. Trade!Percent(m, strategy.trail.callback) \in Nat
    BY Product DEF Trade!Percent
  <2> QED BY <2>1 DEF Trade!Toward
<1>7. Trade!AsBad(p.side, Back(p.trail.mark), Back(mark))
  BY <1>2, <1>5, BackMoves
<1>8. p.trail.active => Trade!AsBad(p.side, p.trail.stop, Back(p.trail.mark))
  BY Zenon DEF Follows
<1> HIDE DEF Back
<1>9. \A x, y, z \in Int : Trade!AsBad(p.side, x, y) /\ Trade!AsBad(p.side, y, z) => Trade!AsBad(p.side, x, z)
  BY DEF Trade!AsBad, Trade!Gain
<1>10. p.trail.active => Trade!AsBad(p.side, p.trail.stop, Back(mark))
  BY <1>2, <1>5, <1>6, <1>7, <1>8, <1>9, Zenon
<1>11. p.trail.active => Trade!AsBad(p.side, p.trail.stop, stop)
  BY <1>2, <1>4, <1>10, Zenon
<1>12. p.trail.active \/ active => Trade!AsBad(p.side, stop, Back(mark))
  BY <1>4, <1>5, <1>6, <1>10, Zenon
<1> HIDE DEF stop, t
<1>13. t.mark = mark /\ t.stop = stop /\ t.active = (p.trail.active \/ active)
  BY <1>1, Zenon
<1>14. Follows(p.side, t, strategy.trail.callback)
  BY <1>12, <1>13, Zenon DEF Follows, Back
<1>15. p.trail.active => t.active /\ Trade!AsBad(p.side, p.trail.stop, t.stop)
  BY <1>11, <1>13, Zenon
<1> QED BY <1>14, <1>15 DEF t

\* The callback of no strategy is of more than the price.
Callbacks == \A t \in Strategies : t.trail.callback \in 0 .. 100
TrailIInv == position.open => Follows(position.side, position.trail, strategy.trail.callback)

\* A filled order changes neither the side of a position nor what it trails.
LEMMA FilledKeeps ==
  ASSUME TradeShape, NEW b
  PROVE  LET p == Trade!FillReached(position, b)
         IN  p.side = position.side /\ p.trail = position.trail /\ p.open = position.open
<1>1. \A m, e, s, t : LET p == [position EXCEPT !.filled = m, !.entry = e, !.sl = s, !.tp = t]
                      IN  p.side = position.side /\ p.trail = position.trail /\ p.open = position.open
  BY DEF TradeShape, PositionOf
<1> DEFINE orders == Trade!generateSafetyOrderSchedule(strategy.dca.config, position.base, position.side)
           reached == {n \in position.filled .. strategy.dca.config.max :
                         \A k \in position.filled + 1 .. n :
                           Trade!AsBad(position.side, Trade!Worst(position.side, b), orders[k].price)}
           m == Trade!Max(reached)
           now == Trade!Ladder(strategy.dca.config, position.base, position.side, position.slPct, m)
<1>2. Trade!FillReached(position, b)
        = IF ~ Trade!isDca \/ reached = {position.filled} THEN position
          ELSE [position EXCEPT !.filled = m, !.entry = now.avg, !.sl = now.sl, !.tp = now.tp]
  BY Zenon DEF Trade!FillReached
<1> DEFINE q == [position EXCEPT !.filled = m, !.entry = now.avg, !.sl = now.sl, !.tp = now.tp]
<1>3. q.side = position.side /\ q.trail = position.trail /\ q.open = position.open
  <2> HIDE DEF reached, m, now
  <2> QED BY <1>1
<1>4. Trade!FillReached(position, b) = position \/ Trade!FillReached(position, b) = q
  <2> HIDE DEF reached, m, now, q
  <2> QED BY <1>2, Zenon DEF q
<1> HIDE DEF q
<1> QED BY <1>3, <1>4, Zenon

\* A step trails the stop of a position that is held, and no other.
LEMMA TrailKeeps ==
  ASSUME Callbacks, TradeIInv, TrailIInv, [Trade!Next]_tradeVars
  PROVE  TrailIInv' /\ Trade!Tightens
<1>1. TradeShape /\ strategy \in Strategies /\ position \in PositionOf(strategy) /\ PositionOk(strategy, bar, position)
  BY TradeShaped, Zenon DEF TradeIInv, TradeInvOf
<1>2. strategy.trail.callback \in 0 .. 100
  BY <1>1 DEF Callbacks
<1>3. position.open => position.trail.mark > 0
  BY <1>1, Zenon DEF PositionOk, HeldOk
<1>4. \A p : strategy' = strategy /\ position' = p /\ (p.open => Follows(p.side, p.trail, strategy.trail.callback))
             => TrailIInv'
  BY Zenon DEF TrailIInv
<1>5. CASE strategy' = strategy /\ position' = position
  <2>1. TrailIInv'
    BY <1>4, <1>5, Zenon DEF TrailIInv
  <2>2. position.trail.stop \in Int
    BY <1>1 DEF PositionOf, TrailShape
  <2>3. Trade!AsBad(position.side, position.trail.stop, position.trail.stop)
    BY <2>2 DEF Trade!AsBad, Trade!Gain
  <2> QED BY <1>5, <2>1, <2>3, Zenon DEF Trade!Tightens
<1>6. ASSUME NEW b \in Trade!Bars, Trade!Look(b), strategy' = strategy
      PROVE  TrailIInv' /\ Trade!Tightens
  <2>1. ~ position.open
    BY <1>6, Zenon DEF Trade!Look
  <2>2. Trade!Tightens
    BY <2>1, Zenon DEF Trade!Tightens
  <2>3. CASE position' = position
    BY <1>4, <1>6, <2>1, <2>2, <2>3, Zenon
  <2>4. CASE position' = Trade!NoPosition
    <3>1. ~ Trade!NoPosition.open
      BY <1>1, OutIs
    <3> QED BY <1>4, <1>6, <2>2, <2>4, <3>1, Zenon
  <2>5. CASE Trade!Enters(b) /\ position' = Trade!Entered(b)
    <3>1. Trade!Entered(b).trail = Trade!Trail(b.close)
      BY <1>1, <2>5, EnteredIs, Zenon DEF EnteredOk
    <3>2. ~ Trade!Trail(b.close).active
      BY DEF Trade!Trail
    <3>3. \A side, c : Follows(side, Trade!Trail(b.close), c)
      BY <3>2, Zenon DEF Follows
    <3> QED BY <1>4, <1>6, <2>2, <2>5, <3>1, <3>3, Zenon
  <2> QED BY <1>6, <2>3, <2>4, <2>5, Zenon DEF Trade!Look, Trade!Leave
<1>7. ASSUME NEW b \in Trade!Bars, Trade!Hold(b), strategy' = strategy
      PROVE  TrailIInv' /\ Trade!Tightens
  <2>1. position.open /\ BarOk(b) /\ HeldOk(strategy, position)
    BY <1>1, <1>7, BarIs, Zenon DEF Trade!Hold, PositionOk
  <2>2. PICK p : p = Trade!FillReached(position, b)
    OBVIOUS
  <2>3. p \in PositionOf(strategy) /\ p.side = position.side /\ p.trail = position.trail /\ p.open
    BY <1>1, <2>1, <2>2, FilledIs, FilledKeeps
  <2>4. Follows(p.side, p.trail, strategy.trail.callback)
    BY <2>1, <2>3, Zenon DEF TrailIInv
  <2>5. PICK t : t = Trade!TrailAfter(p, b)
    OBVIOUS
  <2>6. /\ Follows(p.side, t, strategy.trail.callback)
        /\ p.trail.active => t.active /\ Trade!AsBad(p.side, p.trail.stop, t.stop)
    <3>1. p.trail.mark > 0
      BY <1>3, <2>1, <2>3, Zenon
    <3> QED BY <1>1, <1>2, <2>1, <2>3, <2>4, <2>5, <3>1, TrailTightens
  <2>7. \/ position' = Trade!NoPosition
        \/ position' = [p EXCEPT !.trail = IF strategy.trail.on THEN t ELSE p.trail]
    BY <1>7, <2>2, <2>5, Zenon DEF Trade!Hold, Trade!Leave
  <2>8. CASE position' = Trade!NoPosition
    <3>1. ~ Trade!NoPosition.open
      BY <1>1, OutIs
    <3>2. TrailIInv'
      BY <1>4, <1>7, <2>8, <3>1, Zenon
    <3> QED BY <2>8, <3>1, <3>2, Zenon DEF Trade!Tightens
  <2>9. ASSUME NEW u, u \in {t, p.trail}, position' = [p EXCEPT !.trail = u]
        PROVE  TrailIInv' /\ Trade!Tightens
    <3>1. PICK q : q = position'
      OBVIOUS
    <3>2. q.side = p.side /\ q.trail = u /\ q.open = p.open
      BY <2>3, <2>9, <3>1 DEF PositionOf
    <3>3. Follows(p.side, u, strategy.trail.callback)
      BY <2>4, <2>6, <2>9, Zenon
    <3>4. TrailIInv'
      BY <1>4, <1>7, <3>1, <3>2, <3>3, Zenon
    <3>5. p.trail.stop \in Int
      BY <2>3 DEF PositionOf, TrailShape
    <3>6. Trade!AsBad(p.side, p.trail.stop, p.trail.stop)
      BY <3>5 DEF Trade!AsBad, Trade!Gain
    <3>7. p.trail.active => u.active /\ Trade!AsBad(p.side, p.trail.stop, u.stop)
      BY <2>6, <2>9, <3>6, Zenon
    <3> QED BY <2>3, <3>1, <3>2, <3>4, <3>7, Zenon DEF Trade!Tightens
  <2> QED BY <2>7, <2>8, <2>9, Zenon
<1>8. CASE Trade!Bar
  <2>1. PICK b \in Trade!Bars : Trade!Look(b) \/ Trade!Hold(b)
    BY <1>8, Zenon DEF Trade!Bar
  <2>2. strategy' = strategy
    BY <1>8, Zenon DEF Trade!Bar
  <2> QED BY <1>6, <1>7, <2>1, <2>2
<1>9. CASE Trade!RestartWorker \/ UNCHANGED tradeVars
  <2>1. strategy' = strategy /\ position' = position
    BY <1>9, Zenon DEF Trade!RestartWorker, tradeVars
  <2> QED BY <1>5, <2>1
<1> QED BY <1>8, <1>9, Zenon DEF Trade!Next

\* Nothing is trailed before a position is entered.
LEMMA TrailInit == Trade!Init => TrailIInv
<1> SUFFICES ASSUME Trade!Init PROVE TrailIInv
  OBVIOUS
<1>1. strategy \in Strategies /\ position = Trade!NoPosition
  BY Zenon DEF Trade!Init
<1>2. ~ Trade!NoPosition.open
  BY <1>1, OutIs
<1> QED BY <1>1, <1>2, Zenon DEF TrailIInv

-----------------------------------------------------------------------------
(* The bounds of what the rows keep                                          *)

\* A request has read numbers and versions that are within the bound.
EditFits(e) ==
  /\ e.number \in 0 .. MaxVersion /\ e.version \in 0 .. MaxVersion
  /\ \A t \in e.found : t[2] \in 1 .. MaxVersion
VersionsFit == \A n \in Names : versions[n] \subseteq 1 .. MaxVersion
VersionBounds == strategies \subseteq Names /\ VersionsFit /\ \A h \in Editors : EditFits(edit[h])

\* A graph has no more graph versions than there are versions for them.
LEMMA GraphVersionsAre ==
  ASSUME RowsOk, NEW g \in VersionGraphs, NEW S, IsFiniteSet(S),
         \A v \in graphVersions[g] : v.version \in S
  PROVE  IsFiniteSet(graphVersions[g]) /\ Cardinality(graphVersions[g]) <= Cardinality(S)
<1> DEFINE f == [v \in graphVersions[g] |-> v.version]
<1>1. \A v, w \in graphVersions[g] : v.version = w.version => v = w
  BY DEF RowsOk, Lineage, Version!OneGraphVersionEach, Numbered
<1>2. f \in Injection(graphVersions[g], S)
  BY <1>1 DEF Injection, IsInjective
<1> HIDE DEF f
<1> QED BY <1>2, FS_Injection

\* So their numbers are within the bound, and below it if a version has none.
LEMMA GraphVersionsFit ==
  ASSUME RowsOk, VersionsFit, NEW g \in VersionGraphs
  PROVE  /\ graphVersions[g] \subseteq Version!GraphVersion
         /\ \A x \in 1 .. MaxVersion : (\A v \in graphVersions[g] : v.version # x) =>
              Cardinality(graphVersions[g]) + 1 \in 1 .. MaxVersion
<1>1. MaxVersion \in Nat /\ NameOf[g] \in Names
  BY LabConstants
<1>2. \A v \in graphVersions[g] : v.version \in 1 .. MaxVersion /\ v \in Row
  BY <1>1 DEF RowsOk, Lineage, VersionShape, VersionsFit
<1>3. PICK k \in Nat : NumbersOf(graphVersions[g]) = 1..k
  BY DEF RowsOk, Numbered, Dense
<1>4. IsFiniteSet(graphVersions[g]) /\ Cardinality(graphVersions[g]) = k
  BY <1>3, CountOfNumbers DEF RowsOk, Numbered
<1>5. IsFiniteSet(1 .. MaxVersion) /\ Cardinality(1 .. MaxVersion) = MaxVersion
  <2>1. \A a, b \in Int : IsFiniteSet(a .. b) /\ Cardinality(a .. b) = IF a > b THEN 0 ELSE b - a + 1
    BY FS_Interval
  <2>2. IsFiniteSet(1 .. MaxVersion) /\ Cardinality(1 .. MaxVersion) = IF 1 > MaxVersion THEN 0 ELSE MaxVersion - 1 + 1
    BY <1>1, <2>1
  <2> QED BY <1>1, <2>2
<1>6. k <= MaxVersion
  <2> DEFINE S == 1 .. MaxVersion
  <2>1. IsFiniteSet(S) /\ Cardinality(S) = MaxVersion /\ \A v \in graphVersions[g] : v.version \in S
    BY <1>2, <1>5, Zenon
  <2> HIDE DEF S
  <2> QED BY <1>4, <2>1, GraphVersionsAre
<1>7. graphVersions[g] \subseteq Version!GraphVersion
  <2> SUFFICES ASSUME NEW v \in graphVersions[g] PROVE v \in Version!GraphVersion
    OBVIOUS
  <2>1. v.number \in 1 .. k
    BY <1>3 DEF NumbersOf
  <2>2. v.number \in 1 .. MaxVersion
    BY <1>1, <1>6, <2>1
  <2>3. v \in Row /\ v.version \in 1 .. MaxVersion
    BY <1>2
  <2> QED BY <2>2, <2>3 DEF Row, Version!GraphVersion
<1>8. ASSUME NEW x \in 1 .. MaxVersion, \A v \in graphVersions[g] : v.version # x
      PROVE  k + 1 \in 1 .. MaxVersion
  <2> DEFINE S == (1 .. MaxVersion) \ {x}
  <2>1. \A T : IsFiniteSet(T) /\ x \in T => IsFiniteSet(T \ {x}) /\ Cardinality(T \ {x}) = Cardinality(T) - 1
    BY FS_RemoveElement
  <2>2. IsFiniteSet(S) /\ Cardinality(S) = Cardinality(1 .. MaxVersion) - 1
    BY <1>5, <2>1, Zenon
  <2>3. \A v \in graphVersions[g] : v.version \in S
    BY <1>2, <1>8
  <2> HIDE DEF S
  <2>4. k <= Cardinality(S)
    BY <1>4, <2>2, <2>3, GraphVersionsAre
  <2>5. Cardinality(S) = MaxVersion - 1
    BY <1>5, <2>2
  <2> QED BY <1>1, <2>4, <2>5
<1> QED BY <1>4, <1>7, <1>8

\* Nothing is compiled at first.
LEMMA VersionTypesInit == Version!Init => VersionBounds
<1> SUFFICES ASSUME Version!Init PROVE VersionBounds
  OBVIOUS
<1>1. 0 \in 0 .. MaxVersion
  BY LabConstants
<1>2. EditFits(Version!NoEdit)
  BY <1>1, Zenon DEF EditFits, Version!NoEdit
<1> QED BY <1>2, Zenon DEF Version!Init, VersionBounds, VersionsFit

\* A request that starts or reads stays within the bound.
LEMMA VersionTypes ==
  ASSUME VersionIInv, VersionBounds, [Version!Next]_versionVars
  PROVE  VersionBounds'
<1>0. /\ VersionShape /\ RowsOk /\ strategies \subseteq Names /\ VersionsFit
      /\ \A h \in Editors : EditFits(edit[h]) /\ edit[h] \in Editing
      /\ MaxVersion \in Nat /\ NameOf \in [VersionGraphs -> Names]
  BY LabConstants DEF VersionIInv, VersionBounds, RowsOk, VersionShape
<1>1. EditFits(Version!NoEdit)
  <2>1. 0 \in 0 .. MaxVersion
    BY <1>0
  <2> QED BY <2>1, Zenon DEF EditFits, Version!NoEdit
<1>2. ASSUME NEW h \in Editors, NEW e, EditFits(e), edit' = [edit EXCEPT ![h] = e]
      PROVE  \A l \in Editors : EditFits(edit'[l])
  <2>1. edit'[h] = e /\ \A l \in Editors \ {h} : edit'[l] = edit[l]
    BY <1>0, <1>2 DEF VersionShape
  <2> QED BY <1>0, <1>2, <2>1, Zenon
<1>3. ASSUME versions' = versions PROVE VersionsFit'
  BY <1>0, <1>3, Zenon DEF VersionsFit
<1>4. ASSUME NEW h \in Editors, NEW g \in VersionGraphs, Version!CompileStart(h, g)
      PROVE  VersionBounds'
  <2> DEFINE e == [edit[h] EXCEPT !.graph = g, !.pc = IF NameOf[g] \in strategies THEN "compile" ELSE "create"]
  <2>1. EditFits(e)
    BY <1>0 DEF EditFits, Editing
  <2>2. edit' = [edit EXCEPT ![h] = e]
    BY <1>0, <1>4 DEF Version!CompileStart
  <2> HIDE DEF e
  <2> QED BY <1>0, <1>2, <1>3, <1>4, <2>1, <2>2, Zenon DEF Version!CompileStart, VersionBounds
<1>5. ASSUME NEW h \in Editors, NEW g \in VersionGraphs, NEW gv \in graphVersions[g], Version!BaselineRead(h, g, gv)
      PROVE  VersionBounds'
  <2> DEFINE e == [edit[h] EXCEPT !.graph = g, !.number = gv.number,
                                  !.pc = IF gv.baseline THEN "unset" ELSE "findMany"]
  <2>1. gv.number \in 0 .. MaxVersion
    <3>1. gv \in Version!GraphVersion
      BY <1>0, GraphVersionsFit
    <3> QED BY <1>0, <3>1 DEF Version!GraphVersion
  <2>2. EditFits(e)
    BY <1>0, <2>1 DEF EditFits, Editing
  <2>3. edit' = [edit EXCEPT ![h] = e]
    BY <1>0, <1>5 DEF Version!BaselineRead
  <2> HIDE DEF e
  <2> QED BY <1>0, <1>2, <1>3, <1>5, <2>2, <2>3, Zenon DEF Version!BaselineRead, VersionBounds
<1>6. ASSUME NEW h \in Editors, Version!Reply(h)
      PROVE  \A l \in Editors : EditFits(edit'[l])
  BY <1>1, <1>2, <1>6, Zenon DEF Version!Reply
<1>7. ASSUME NEW h \in Editors, NEW pc, Version!Goto(h, pc)
      PROVE  \A l \in Editors : EditFits(edit'[l])
  <2> DEFINE e == [edit[h] EXCEPT !.pc = pc]
  <2>1. EditFits(e)
    BY <1>0 DEF EditFits, Editing
  <2>2. edit' = [edit EXCEPT ![h] = e]
    BY <1>0, <1>7 DEF Version!Goto
  <2> HIDE DEF e
  <2> QED BY <1>2, <2>1, <2>2
<1>8. ASSUME NEW h \in Editors PROVE Version!Name(h) \in Names /\ edit[h].graph \in VersionGraphs
  BY <1>0 DEF Version!Name, Editing
<1>9. ASSUME NEW h \in Editors, Version!CreateStrategy(h)
      PROVE  VersionBounds'
  <2>1. \A l \in Editors : EditFits(edit'[l])
    BY <1>6, <1>7, <1>9, Zenon DEF Version!CreateStrategy
  <2>2. strategies' \subseteq Names
    BY <1>0, <1>8, <1>9 DEF Version!CreateStrategy
  <2> QED BY <1>3, <1>9, <2>1, <2>2, Zenon DEF Version!CreateStrategy, VersionBounds
<1>10. ASSUME NEW h \in Editors, Version!CompileFails(h) \/ Version!BaselineUnset(h) \/ Version!BaselineSet(h)
                                   \/ Version!RequestDies(h) \/ Version!CreateGraphVersion(h)
       PROVE  VersionBounds'
  BY <1>0, <1>3, <1>6, <1>10, Zenon DEF Version!CompileFails, Version!BaselineUnset, Version!BaselineSet,
     Version!RequestDies, Version!CreateGraphVersion, VersionBounds
<1>11. ASSUME NEW h \in Editors, Version!FindLatestVersion(h)
       PROVE  VersionBounds'
  <2> DEFINE last == Version!Max(versions[Version!Name(h)] \cup {0})
             e == [edit[h] EXCEPT !.pc = "version", !.version = last + 1]
  <2>1. last + 1 \in 0 .. MaxVersion
    <3>1. PICK k \in Nat : versions[Version!Name(h)] = 1 .. k
      BY <1>0, <1>8 DEF RowsOk, Numbered, Dense
    <3>2. last = k
      BY <3>1, MaxOfDense
    <3>3. last < MaxVersion
      BY <1>11, Zenon DEF Version!FindLatestVersion
    <3> HIDE DEF last
    <3> QED BY <1>0, <3>2, <3>3
  <2>2. edit' = [edit EXCEPT ![h] = e]
    <3>1. edit' = [edit EXCEPT ![h].pc = "version", ![h].version = last + 1]
      BY <1>11, Zenon DEF Version!FindLatestVersion
    <3> HIDE DEF last
    <3> QED BY <1>0, <3>1
  <2> HIDE DEF last
  <2>3. EditFits(e)
    BY <1>0, <2>1 DEF EditFits, Editing
  <2> HIDE DEF e
  <2> QED BY <1>0, <1>2, <1>3, <1>11, <2>2, <2>3, Zenon DEF Version!FindLatestVersion, VersionBounds
<1>12. ASSUME NEW h \in Editors, Version!CreateVersion(h) \/ Version!AssistantVersion(h)
       PROVE  VersionBounds'
  <2>1. \A l \in Editors : EditFits(edit'[l])
    BY <1>6, <1>7, <1>12, Zenon DEF Version!CreateVersion, Version!AssistantVersion
  <2>2. edit[h].pc = "version"
    BY <1>12 DEF Version!CreateVersion, Version!AssistantVersion, Version!At
  <2>3. edit[h].version \in Nat \ {0}
    BY <2>2 DEF VersionIInv, Goes, NumberRead
  <2>4. edit[h].version \in 1 .. MaxVersion
    BY <1>0, <2>3 DEF EditFits
  <2>5. versions' = [versions EXCEPT ![Version!Name(h)] = @ \cup {edit[h].version}]
    BY <1>12, Zenon DEF Version!CreateVersion, Version!AssistantVersion
  <2>6. VersionsFit'
    BY <1>0, <2>4, <2>5 DEF VersionsFit, VersionShape
  <2> QED BY <1>0, <1>12, <2>1, <2>6, Zenon DEF Version!CreateVersion, Version!AssistantVersion, VersionBounds
<1>13. ASSUME NEW h \in Editors, Version!CountGraphVersions(h)
       PROVE  VersionBounds'
  <2> DEFINE g == edit[h].graph
  <2>1. edit[h].pc = "count"
    BY <1>13 DEF Version!CountGraphVersions, Version!At
  <2>2. edit[h].version \in versions[NameOf[g]] /\ \A v \in graphVersions[g] : v.version # edit[h].version
    BY <1>8, <2>1 DEF VersionIInv, Goes, VersionIsNew
  <2>3. edit[h].version \in 1 .. MaxVersion
    BY <1>0, <1>8, <2>2 DEF VersionsFit
  <2>4. PICK m : m = Cardinality(graphVersions[g]) + 1
    OBVIOUS
  <2>5. m \in 1 .. MaxVersion
    BY <1>0, <1>8, <2>2, <2>3, <2>4, GraphVersionsFit
  <2> DEFINE e == [edit[h] EXCEPT !.pc = "link", !.number = m]
  <2>6. edit' = [edit EXCEPT ![h] = e]
    <3>1. edit' = [edit EXCEPT ![h].pc = "link", ![h].number = m]
      BY <1>13, <2>4, VersionCount DEF Version!CountGraphVersions
    <3> QED BY <1>0, <3>1
  <2>7. EditFits(e)
    BY <1>0, <2>5 DEF EditFits, Editing
  <2> HIDE DEF e
  <2> QED BY <1>0, <1>2, <1>3, <1>13, <2>6, <2>7, Zenon DEF Version!CountGraphVersions, VersionBounds
<1>14. ASSUME NEW h \in Editors, Version!BaselineFindMany(h)
       PROVE  VersionBounds'
  <2> DEFINE found == Version!Baselines(Version!Name(h))
             e == [edit[h] EXCEPT !.pc = "clear", !.found = found]
  <2>1. \A t \in found : t[2] \in 1 .. MaxVersion
    <3> SUFFICES ASSUME NEW t \in found PROVE t[2] \in 1 .. MaxVersion
      OBVIOUS
    <3>0. PICK g \in VersionGraphs : \E v \in graphVersions[g] : t = <<g, v.number>>
      BY DEF Version!Baselines
    <3>1. PICK v \in graphVersions[g] : t = <<g, v.number>>
      BY <3>0
    <3>2. v \in Version!GraphVersion
      BY <1>0, GraphVersionsFit
    <3> QED BY <3>1, <3>2 DEF Version!GraphVersion
  <2>2. edit' = [edit EXCEPT ![h] = e]
    <3> HIDE DEF found
    <3>1. edit' = [edit EXCEPT ![h].pc = "clear", ![h].found = found]
      BY <1>14, Zenon DEF Version!BaselineFindMany, found
    <3> QED BY <1>0, <3>1
  <2> HIDE DEF found
  <2>3. EditFits(e)
    BY <1>0, <2>1 DEF EditFits, Editing
  <2> HIDE DEF e
  <2> QED BY <1>0, <1>2, <1>3, <1>14, <2>2, <2>3, Zenon DEF Version!BaselineFindMany, VersionBounds
<1>15. ASSUME NEW h \in Editors, NEW t \in edit[h].found, Version!BaselineClear(h, t)
       PROVE  VersionBounds'
  <2> DEFINE e == [edit[h] EXCEPT !.found = @ \ {t}]
  <2>1. EditFits(e)
    BY <1>0 DEF EditFits, Editing
  <2>2. edit' = [edit EXCEPT ![h] = e]
    BY <1>0, <1>15 DEF Version!BaselineClear
  <2> HIDE DEF e
  <2> QED BY <1>0, <1>2, <1>3, <1>15, <2>1, <2>2, Zenon DEF Version!BaselineClear, VersionBounds
<1>16. CASE UNCHANGED versionVars
  BY <1>0, <1>3, <1>16, Zenon DEF versionVars, VersionBounds
<1> QED BY <1>4, <1>5, <1>9, <1>10, <1>11, <1>12, <1>13, <1>14, <1>15, <1>16, Zenon DEF Version!Next

\* The invariant and the bounds say what LabVersions says of its variables.
LEMMA VersionTyped == VersionIInv /\ VersionBounds => Version!TypeOK
<1> SUFFICES ASSUME VersionIInv, VersionBounds PROVE Version!TypeOK
  OBVIOUS
<1>1. VersionShape /\ RowsOk /\ VersionsFit
  BY DEF VersionIInv, RowsOk, VersionBounds
<1>2. \A g \in VersionGraphs : graphVersions[g] \subseteq Version!GraphVersion
  BY <1>1, GraphVersionsFit
<1>3. versions \in [Names -> SUBSET (1 .. MaxVersion)]
  BY <1>1 DEF VersionShape, VersionsFit
<1> DEFINE E == [pc : {"idle", "create", "compile", "version", "count", "link", "unset", "findMany", "clear"},
                 graph : VersionGraphs, number : 0 .. MaxVersion, version : 0 .. MaxVersion,
                 found : SUBSET (VersionGraphs \X (1 .. MaxVersion))]
<1>4. ASSUME NEW h \in Editors PROVE edit[h] \in E
  <2>1. edit[h] \in Editing /\ EditFits(edit[h])
    BY <1>1 DEF VersionShape, VersionBounds
  <2>2. edit[h].found \in SUBSET (VersionGraphs \X (1 .. MaxVersion))
    BY <2>1 DEF Editing, EditFits, GraphNumbers
  <2> QED BY <2>1, <2>2 DEF Editing, EditFits
<1>5. edit \in [Editors -> E]
  BY <1>1, <1>4 DEF VersionShape
<1> HIDE DEF E
<1>6. strategies \subseteq Names /\ overlap \in BOOLEAN
  BY <1>1 DEF VersionBounds, VersionShape
<1> QED BY <1>2, <1>3, <1>5, <1>6, Zenon DEF Version!TypeOK, E

\* A job's progress and its best are among its runs, like what it still writes.
RunFits(r) == r.progress \in 0 .. RunCount /\ r.best \in 0 .. RunCount
JobBounds ==
  /\ \A j \in Jobs : RunFits(job[j]) /\ writes[j] \subseteq 1 .. RunCount
  /\ faults \in 0 .. MaxFaults

\* No job has made progress at first.
LEMMA JobTypesInit == Job!Init => JobBounds
<1> SUFFICES ASSUME Job!Init PROVE JobBounds
  OBVIOUS
<1>1. 0 \in 0 .. RunCount /\ 0 \in 0 .. MaxFaults
  BY LabConstants, BoundConstants
<1>2. RunFits(Job!NoJob)
  BY <1>1 DEF RunFits, Job!NoJob
<1> QED BY <1>1, <1>2, Zenon DEF Job!Init, JobBounds

\* A request and a runner leave what they do not finish within its runs.
LEMMA JobTypes ==
  ASSUME JobIInv, JobBounds, [Job!Next]_jobVars
  PROVE  JobBounds'
<1> DEFINE R == \A j \in Jobs : RunFits(job'[j])
           W == \A j \in Jobs : writes'[j] \subseteq 1 .. RunCount
           F == faults' \in 0 .. MaxFaults
<1>0. /\ job \in [Jobs -> JobRow] /\ writes \in [Jobs -> SUBSET Int] /\ RunCount \in Nat /\ MaxFaults \in Nat
      /\ \A j \in Jobs : RunFits(job[j]) /\ writes[j] \subseteq 1 .. RunCount
      /\ faults \in 0 .. MaxFaults
  <2>1. MaxFaults \in Nat
    BY BoundConstants
  <2> QED BY <2>1, LabConstants, Zenon DEF JobIInv, JobShape, JobBounds
<1> SUFFICES R /\ W /\ F
  BY Zenon DEF JobBounds
<1>1. ASSUME job' = job PROVE R
  BY <1>0, <1>1, Zenon
<1>2. ASSUME writes' = writes PROVE W
  BY <1>0, <1>2, Zenon
<1>3. ASSUME NEW j \in Jobs, NEW r, RunFits(r), job' = [job EXCEPT ![j] = r]
      PROVE  R
  <2>1. job'[j] = r /\ \A k \in Jobs \ {j} : job'[k] = job[k]
    BY <1>0, <1>3
  <2> QED BY <1>0, <1>3, <2>1, Zenon
<1>4. ASSUME NEW j \in Jobs, NEW S, S \subseteq 1 .. RunCount, writes' = [writes EXCEPT ![j] = S]
      PROVE  W
  <2>1. writes'[j] = S /\ \A k \in Jobs \ {j} : writes'[k] = writes[k]
    BY <1>0, <1>4
  <2> QED BY <1>0, <1>4, <2>1, Zenon
<1>5. faults < MaxFaults => faults + 1 \in 0 .. MaxFaults
  BY <1>0
<1>6. ASSUME NEW h \in Posts,
             \/ \E kind \in Job!Kinds : Job!PostJob(h, kind)
             \/ Job!GuardSweep(h) \/ Job!GuardWalkForward(h)
      PROVE  R /\ W /\ F
  BY <1>0, <1>1, <1>2, <1>6, Zenon DEF Job!PostJob, Job!GuardSweep, Job!GuardWalkForward
<1>7. ASSUME NEW h \in Posts, Job!CreateJob(h) PROVE R /\ W /\ F
  <2>1. PICK j \in Jobs : j = CHOOSE k \in Job!Free : TRUE
    BY <1>7 DEF Job!CreateJob, Job!Free
  <2> DEFINE r == [job[j] EXCEPT !.kind = request[h], !.status = "PENDING"]
  <2>2. job' = [job EXCEPT ![j].kind = request[h], ![j].status = "PENDING"]
    BY <1>7, <2>1, Zenon DEF Job!CreateJob
  <2>3. job' = [job EXCEPT ![j] = r]
    BY <1>0, <2>2
  <2>4. RunFits(r)
    BY <1>0 DEF RunFits, JobRow
  <2> HIDE DEF r
  <2> QED BY <1>0, <1>2, <1>3, <1>7, <2>1, <2>3, <2>4, Zenon DEF Job!CreateJob
<1>8. ASSUME NEW j \in Jobs, NEW st, job' = [job EXCEPT ![j].status = st] PROVE R
  <2> DEFINE r == [job[j] EXCEPT !.status = st]
  <2>1. job' = [job EXCEPT ![j] = r]
    BY <1>0, <1>8
  <2>2. RunFits(r)
    BY <1>0 DEF RunFits, JobRow
  <2> HIDE DEF r
  <2> QED BY <1>3, <2>1, <2>2
<1>9. ASSUME NEW j \in Jobs, Job!Start(j) \/ Job!Throws(j) \/ Job!Catch(j) PROVE R /\ W /\ F
  BY <1>0, <1>1, <1>2, <1>5, <1>8, <1>9, Zenon DEF Job!Start, Job!Throws, Job!Catch
<1>10. ASSUME NEW j \in Jobs, Job!Combination(j) PROVE R /\ W /\ F
  <2>1. PICK n : n = Len(job[j].results) + 1
    OBVIOUS
  <2>2. PICK s : job' = [job EXCEPT ![j].results = Append(@, s), ![j].progress = n]
    BY <1>10, <2>1, Zenon DEF Job!Combination
  <2>3. n \in 0 .. RunCount
    <3>1. job[j].results \in Seq(Job!Score)
      BY <1>0 DEF JobRow
    <3>2. Len(job[j].results) \in Nat
      BY <3>1
    <3>3. Len(job[j].results) < RunCount
      BY <1>10, Zenon DEF Job!Combination
    <3> QED BY <1>0, <2>1, <3>2, <3>3
  <2>4. PICK more : more = Append(job[j].results, s)
    OBVIOUS
  <2> DEFINE r == [job[j] EXCEPT !.results = more, !.progress = n]
  <2>5. job' = [job EXCEPT ![j] = r]
    BY <1>0, <2>2, <2>4
  <2>6. RunFits(r)
    BY <1>0, <2>3 DEF RunFits, JobRow
  <2> HIDE DEF r
  <2> QED BY <1>0, <1>2, <1>3, <1>10, <2>5, <2>6, Zenon DEF Job!Combination
<1>11. ASSUME NEW j \in Jobs, Job!FinishSweep(j) PROVE R /\ W /\ F
  <2>1. PICK best : best = Job!Best(job[j].results)
    OBVIOUS
  <2>2. job' = [job EXCEPT ![j].status = "DONE", ![j].best = best]
    BY <1>11, <2>1, Zenon DEF Job!FinishSweep
  <2>3. best \in 0 .. RunCount
    <3>1. job[j].results \in Seq(Job!Score)
      BY <1>0 DEF JobRow
    <3>2. Len(job[j].results) = RunCount
      BY <1>11, Zenon DEF Job!FinishSweep
    <3>3. best = 0 \/ best \in 1 .. RunCount
      BY <2>1, <3>1, <3>2, BestOfResults DEF FirstBest
    <3> QED BY <1>0, <3>3
  <2> DEFINE r == [job[j] EXCEPT !.status = "DONE", !.best = best]
  <2>4. job' = [job EXCEPT ![j] = r]
    BY <1>0, <2>2
  <2>5. RunFits(r)
    BY <1>0, <2>3 DEF RunFits, JobRow
  <2> HIDE DEF r
  <2> QED BY <1>0, <1>2, <1>3, <1>11, <2>4, <2>5, Zenon DEF Job!FinishSweep
<1>12. ASSUME NEW j \in Jobs, Job!Compute(j) PROVE R /\ W /\ F
  <2>1. PICK S : S = IF job[j].kind = "walkForward" THEN 1 .. RunCount ELSE {}
    OBVIOUS
  <2>2. S \subseteq 1 .. RunCount
    BY <2>1
  <2> QED BY <1>0, <1>1, <1>4, <1>12, <2>1, <2>2, Zenon DEF Job!Compute
<1>13. ASSUME NEW j \in Jobs, Job!Finish(j) PROVE R /\ W /\ F
  <2> DEFINE r == [job[j] EXCEPT !.status = "DONE", !.progress = RunCount]
  <2>1. job' = [job EXCEPT ![j] = r]
    BY <1>0, <1>13 DEF Job!Finish
  <2>2. RunFits(r)
    BY <1>0 DEF RunFits, JobRow
  <2> HIDE DEF r
  <2> QED BY <1>0, <1>2, <1>3, <1>13, <2>1, <2>2, Zenon DEF Job!Finish
<1>14. ASSUME NEW j \in Jobs, NEW done \in writes[j], Job!ProgressLands(j, done) PROVE R /\ W /\ F
  <2> DEFINE r == [job[j] EXCEPT !.progress = done]
             S == writes[j] \ {done}
  <2>1. job' = [job EXCEPT ![j] = r] /\ writes' = [writes EXCEPT ![j] = S]
    BY <1>0, <1>14 DEF Job!ProgressLands
  <2>2. RunFits(r)
    BY <1>0 DEF RunFits, JobRow
  <2>3. S \subseteq 1 .. RunCount
    BY <1>0
  <2> HIDE DEF r, S
  <2> QED BY <1>0, <1>3, <1>4, <1>14, <2>1, <2>2, <2>3, Zenon DEF Job!ProgressLands
<1>15. CASE Job!ApiDies
  <2>1. W
    BY <1>15 DEF Job!ApiDies
  <2> QED BY <1>0, <1>1, <1>5, <1>15, <2>1, Zenon DEF Job!ApiDies
<1>16. CASE UNCHANGED jobVars
  BY <1>0, <1>1, <1>2, <1>16, Zenon DEF jobVars
<1> QED BY <1>6, <1>7, <1>9, <1>10, <1>11, <1>12, <1>13, <1>14, <1>15, <1>16, Zenon DEF Job!Next, Job!Runner

\* The invariant and the bounds say what LabJobs says of its variables.
LEMMA JobTyped == JobIInv /\ JobBounds => Job!TypeOK
<1> SUFFICES ASSUME JobIInv, JobBounds PROVE Job!TypeOK
  OBVIOUS
<1>1. JobShape
  BY DEF JobIInv
<1>2. ASSUME NEW j \in Jobs
      PROVE  /\ job[j].kind \in Job!Kinds \cup {"none"} /\ job[j].status \in Job!Statuses
             /\ job[j].results \in Seq(Job!Score)
  BY <1>1 DEF JobShape, JobRow
<1>3. writes \in [Jobs -> SUBSET (1 .. RunCount)]
  BY <1>1 DEF JobShape, JobBounds
<1> QED BY <1>1, <1>2, <1>3, Zenon DEF JobShape, JobBounds, RunFits, RunnerAt, Job!TypeOK

\* What was fetched, stored or deleted is from the time that has passed.
DataBounds ==
  /\ clock \in 0 .. Last /\ candles \subseteq Data!Candles /\ purged \subseteq 0 .. Last
  /\ \A h \in Requests : fetching[h].fetched \subseteq Data!Candles

\* Time begins at 1.
LEMMA DataTypesInit == Data!Init => DataBounds
<1> SUFFICES ASSUME Data!Init PROVE DataBounds
  OBVIOUS
<1>1. 1 \in 0 .. Last
  BY BoundConstants
<1>2. Data!Idle.fetched = {}
  BY DataBlank
<1> QED BY <1>1, <1>2, Zenon DEF Data!Init, DataBounds

\* The venue answers with candles up to now, and retention deletes what is stored.
LEMMA DataTypes ==
  ASSUME DataIInv, DataBounds, [Data!Next]_dataVars
  PROVE  DataBounds'
<1>0. /\ fetching \in [Requests -> FetchRow] /\ Last \in Nat
      /\ clock \in 0 .. Last /\ candles \subseteq Data!Candles /\ purged \subseteq 0 .. Last
      /\ \A h \in Requests : fetching[h].fetched \subseteq Data!Candles
  <2>1. Last \in Nat
    BY BoundConstants
  <2> QED BY <2>1, Zenon DEF DataIInv, DataShape, DataBounds
<1>1. ASSUME NEW h \in Requests, NEW f, f.fetched \subseteq Data!Candles, fetching' = [fetching EXCEPT ![h] = f]
      PROVE  \A k \in Requests : fetching'[k].fetched \subseteq Data!Candles
  <2>1. fetching'[h] = f /\ \A k \in Requests \ {h} : fetching'[k] = fetching[k]
    BY <1>0, <1>1
  <2> QED BY <1>0, <1>1, <2>1, Zenon
<1>2. ASSUME UNCHANGED <<clock, candles, purged, fetching>> PROVE DataBounds'
  BY <1>0, <1>2, Zenon DEF DataBounds
<1>3. ASSUME NEW h \in Requests, NEW r \in Ranges, NEW hole \in {-1, 1}, Data!PostDataset(h, r, hole)
      PROVE  DataBounds'
  <2>1. PICK S : S = Data!fetchCandles(r, hole)
    OBVIOUS
  <2>2. S \subseteq Data!Candles
    BY <1>0, <2>1 DEF Data!fetchCandles, Data!Candles
  <2> DEFINE f == [fetching[h] EXCEPT !.pc = "insert", !.range = r, !.fetched = S]
  <2>3. fetching' = [fetching EXCEPT ![h].pc = "insert", ![h].range = r, ![h].fetched = S]
        /\ UNCHANGED <<clock, candles, purged>>
    BY <1>3, <2>1, Zenon DEF Data!PostDataset
  <2>4. fetching' = [fetching EXCEPT ![h] = f] /\ f.fetched = S
    BY <1>0, <2>3 DEF FetchRow
  <2> HIDE DEF f
  <2> QED BY <1>0, <1>1, <2>2, <2>3, <2>4, Zenon DEF DataBounds
<1>4. ASSUME NEW h \in Requests, Data!InsertCandles(h) PROVE DataBounds'
  <2>1. PICK S : S = {c \in fetching[h].fetched : c[1] \notin Data!TimesOf(candles)}
    OBVIOUS
  <2> DEFINE f == [fetching[h] EXCEPT !.pc = "read", !.new = S]
  <2>2. fetching' = [fetching EXCEPT ![h].pc = "read", ![h].new = S] /\ UNCHANGED <<clock, candles, purged>>
    BY <1>4, <2>1, Zenon DEF Data!InsertCandles
  <2>3. fetching' = [fetching EXCEPT ![h] = f] /\ f.fetched = fetching[h].fetched
    BY <1>0, <2>2 DEF FetchRow
  <2> HIDE DEF f
  <2> QED BY <1>0, <1>1, <2>2, <2>3, Zenon DEF DataBounds
<1>5. ASSUME NEW h \in Requests, Data!ReadBack(h) PROVE DataBounds'
  <2>1. PICK S : S = Data!In(fetching[h].range, candles \cup fetching[h].new)
    OBVIOUS
  <2> DEFINE f == [fetching[h] EXCEPT !.pc = "upsert", !.read = S]
  <2>2. fetching' = [fetching EXCEPT ![h].pc = "upsert", ![h].read = S] /\ UNCHANGED <<clock, candles, purged>>
    BY <1>5, <2>1, Zenon DEF Data!ReadBack
  <2>3. fetching' = [fetching EXCEPT ![h] = f] /\ f.fetched = fetching[h].fetched
    BY <1>0, <2>2 DEF FetchRow
  <2> HIDE DEF f
  <2> QED BY <1>0, <1>1, <2>2, <2>3, Zenon DEF DataBounds
<1>6. ASSUME NEW h \in Requests, Data!Upsert(h) \/ Data!RollBack(h) PROVE DataBounds'
  <2>1. fetching' = [fetching EXCEPT ![h] = Data!Answered] /\ UNCHANGED <<clock, purged>>
        /\ (candles' = candles \/ candles' = candles \cup fetching[h].new)
    BY <1>6, Zenon DEF Data!Upsert, Data!RollBack
  <2>2. fetching[h].new \subseteq fetching[h].fetched
    BY Zenon DEF DataIInv, FetchOk
  <2>3. candles' \subseteq Data!Candles
    BY <1>0, <2>1, <2>2
  <2>4. Data!Answered.fetched \subseteq Data!Candles
    BY DataBlank
  <2> QED BY <1>0, <1>1, <2>1, <2>3, <2>4, Zenon DEF DataBounds
<1>7. CASE Data!runMarketCandleRetention
  <2>1. PICK old : old = {c \in candles : c[1] < clock - Keep}
    OBVIOUS
  <2>2. candles' = candles \ old /\ purged' = purged \cup Data!TimesOf(old) /\ UNCHANGED <<clock, fetching>>
    BY <1>7, <2>1, Zenon DEF Data!runMarketCandleRetention
  <2>3. Data!TimesOf(old) \subseteq 0 .. Last
    BY <1>0, <2>1 DEF Data!TimesOf, Data!Candles
  <2>4. candles' \subseteq Data!Candles /\ purged' \subseteq 0 .. Last
    BY <1>0, <2>2, <2>3
  <2> QED BY <1>0, <2>2, <2>4, Zenon DEF DataBounds
<1>8. CASE Data!Tick
  <2>1. clock' \in 0 .. Last
    BY <1>0, <1>8 DEF Data!Tick
  <2> QED BY <1>0, <1>8, <2>1, Zenon DEF Data!Tick, DataBounds
<1>9. ASSUME NEW b \in Backtests,
             \/ \E r \in Ranges, bundle \in BOOLEAN : Data!PostBacktest(b, r, bundle)
             \/ Data!cacheGet(b) \/ Data!findCandles(b) \/ Data!cacheSet(b)
      PROVE  DataBounds'
  BY <1>2, <1>9, Zenon DEF Data!PostBacktest, Data!cacheGet, Data!findCandles, Data!cacheSet
<1>10. ASSUME NEW r \in Ranges, Data!Evict(r) PROVE DataBounds'
  BY <1>2, <1>10, Zenon DEF Data!Evict
<1>11. CASE UNCHANGED dataVars
  BY <1>2, <1>11, Zenon DEF dataVars
<1> QED BY <1>3, <1>4, <1>5, <1>6, <1>7, <1>8, <1>9, <1>10, <1>11, Zenon DEF Data!Next

\* The invariant and the bounds say what Datasets says of its variables.
LEMMA DataTyped == DataIInv /\ DataBounds => Data!TypeOK
<1> SUFFICES ASSUME DataIInv, DataBounds PROVE Data!TypeOK
  OBVIOUS
<1>1. ASSUME NEW r \in Ranges
      PROVE  /\ dataset[r].status \in {"none", "READY", "PARTIAL", "FAILED"}
             /\ dataset[r].hash \subseteq Data!In(r, Data!Candles)
  <2>1. dataset[r] \in DataRow /\ Kept(dataset[r].hash, r, candles, purged)
    BY Zenon DEF DataIInv, DataShape
  <2>2. r.from \in Nat /\ r.to \in Nat
    BY LabConstants
  <2>3. ASSUME NEW c \in dataset[r].hash PROVE c \in Data!In(r, Data!Candles)
    <3>1. c \in Candle /\ (c \in candles \/ c[1] \in purged) /\ c[1] \in r.from .. r.to
      BY <2>1 DEF DataRow, Kept
    <3>2. c \in Data!Candles
      BY <3>1 DEF DataBounds, Data!Candles, Candle
    <3>3. c[1] \in Int
      BY <3>1 DEF Candle
    <3> QED BY <2>2, <3>1, <3>2, <3>3 DEF Data!In
  <2> QED BY <2>1, <2>3 DEF DataRow
<1>2. \A h \in Requests : fetching[h].new \subseteq fetching[h].fetched
  BY Zenon DEF DataIInv, FetchOk
<1> QED BY <1>1, <1>2, Zenon DEF DataBounds, Data!TypeOK

\* A preset is published once its body was accepted.
LEMMA PresetTypes ==
  /\ Preset!Init => presets \subseteq Bodies
  /\ presets \subseteq Bodies /\ [Preset!Next]_presetVars => (presets \subseteq Bodies)'
<1>1. Preset!Init => presets \subseteq Bodies
  BY DEF Preset!Init
<1>2. ASSUME presets \subseteq Bodies, [Preset!Next]_presetVars PROVE presets' \subseteq Bodies
  <2>1. ASSUME NEW b \in Bodies, Preset!PublishPreset(b) PROVE presets' \subseteq Bodies
    BY <1>2, <2>1 DEF Preset!PublishPreset
  <2>2. ASSUME NEW u \in Users, NEW p \in presets, NEW o \in Overrides, NEW s \in Suffixes,
               Preset!PostInstantiate(u, p, o, s)
        PROVE  presets' \subseteq Bodies
    BY <1>2, <2>2 DEF Preset!PostInstantiate
  <2>3. ASSUME NEW u \in Users, Preset!CreateStrategy(u) \/ Preset!CreateBot(u) \/ Preset!RollBack(u)
        PROVE  presets' \subseteq Bodies
    BY <1>2, <2>3, Zenon DEF Preset!CreateStrategy, Preset!CreateBot, Preset!RollBack
  <2>4. CASE UNCHANGED presetVars
    BY <1>2, <2>4 DEF presetVars
  <2> QED BY <1>2, <2>1, <2>2, <2>3, <2>4, Zenon DEF Preset!Next
<1> QED BY <1>1, <1>2

\* What is drawn, stored or under way was drawn by an edit that was made.
LEMMA DraftTypesInit == Draft!Init => Draft!TypeOK
<1> SUFFICES ASSUME Draft!Init PROVE Draft!TypeOK
  OBVIOUS
<1>1. First \in Graphs /\ MaxEdits \in Nat /\ MaxMoves \in Nat /\ MaxRefused \in Nat
  BY LabConstants, BoundConstants
<1>2. \A g \in Graphs : Draft!Blank(g) \in Draft!Contents
  BY <1>1 DEF Draft!Blank, Draft!Contents
<1>3. Draft!Idle \in Draft!Calls
  BY <1>1, <1>2 DEF Draft!Idle, Draft!Calls
<1>4. Draft!Stay \in [pc : {"idle", "flush", "fetch", "fetched"}, target : Graphs, content : Draft!Contents]
  BY <1>1, <1>2 DEF Draft!Stay
<1> HIDE DEF Draft!Contents, Draft!Calls, Draft!Idle, Draft!Stay, Draft!Blank
<1>5. 0 \in 0 .. MaxEdits /\ 0 \in 0 .. MaxMoves /\ 0 \in 0 .. MaxRefused
  BY <1>1
<1>6. server \in [Graphs -> Draft!Contents] /\ calls \in [Saves -> Draft!Calls]
  BY <1>2, <1>3 DEF Draft!Init
<1> QED BY <1>1, <1>2, <1>3, <1>4, <1>5, <1>6, Zenon DEF Draft!Init, Draft!TypeOK

DraftMoves == [pc : {"idle", "flush", "fetch", "fetched"}, target : Graphs, content : Draft!Contents]
SaveStates == {"clean", "dirty", "saving", "save_error", "stale_against_last_compile"}

\* The records of requests that are not under way.
LEMMA DraftBlank ==
  /\ Draft!Idle \in Draft!Calls /\ Draft!Stay \in DraftMoves
  /\ MaxEdits \in Nat /\ MaxMoves \in Nat /\ MaxRefused \in Nat
<1>1. First \in Graphs /\ MaxEdits \in Nat /\ MaxMoves \in Nat /\ MaxRefused \in Nat
  BY LabConstants, BoundConstants
<1>2. Draft!Blank(First) \in Draft!Contents
  BY <1>1 DEF Draft!Blank, Draft!Contents
<1> QED BY <1>1, <1>2 DEF Draft!Idle, Draft!Calls, Draft!Stay, DraftMoves

\* A save begins with what is drawn.
LEMMA BeginTypes ==
  ASSUME Draft!TypeOK, NEW k \in Saves, Draft!Begin(k)
  PROVE  calls' \in [Saves -> Draft!Calls] /\ saveState' \in SaveStates /\ crossed' \in BOOLEAN
<1>1. [pc |-> "sent", content |-> draft, left |-> 2] \in Draft!Calls
  BY DEF Draft!TypeOK, Draft!Calls
<1> HIDE DEF Draft!Calls
<1>2. calls' \in [Saves -> Draft!Calls]
  BY <1>1 DEF Draft!TypeOK, Draft!Begin
<1> QED BY <1>2, Zenon DEF Draft!Begin, SaveStates

\* The steps of the editor, of autosave, of compile and of a change of graph
\* keep its variables within their ranges.
LEMMA DraftTypes ==
  ASSUME Draft!TypeOK, [Draft!Next]_draftVars
  PROVE  Draft!TypeOK'
<1> DEFINE D == /\ draft' \in Draft!Contents /\ past' \in Draft!Contents
           S == saveState' \in SaveStates
           F == changed' \in BOOLEAN /\ compiled' \in BOOLEAN /\ saveTimer' \in BOOLEAN
           C == calls' \in [Saves -> Draft!Calls]
           P == compile' \in Draft!Calls
           M == move' \in DraftMoves
           R == server' \in [Graphs -> Draft!Contents]
           O == crossed' \in BOOLEAN
           N == draftEdits' \in 0 .. MaxEdits /\ moves' \in 0 .. MaxMoves /\ draftFaults' \in 0 .. MaxRefused
<1>0. /\ draft \in Draft!Contents /\ past \in Draft!Contents /\ saveState \in SaveStates
      /\ changed \in BOOLEAN /\ compiled \in BOOLEAN /\ saveTimer \in BOOLEAN
      /\ calls \in [Saves -> Draft!Calls] /\ compile \in Draft!Calls /\ move \in DraftMoves
      /\ server \in [Graphs -> Draft!Contents] /\ crossed \in BOOLEAN
      /\ draftEdits \in 0 .. MaxEdits /\ moves \in 0 .. MaxMoves /\ draftFaults \in 0 .. MaxRefused
  BY Zenon DEF Draft!TypeOK, SaveStates, DraftMoves
<1>1. MaxEdits \in Nat /\ MaxMoves \in Nat /\ MaxRefused \in Nat
      /\ Draft!Idle \in Draft!Calls /\ Draft!Stay \in DraftMoves
  BY DraftBlank
<1> SUFFICES D /\ S /\ F /\ C /\ P /\ M /\ R /\ O /\ N
  BY Zenon DEF Draft!TypeOK, SaveStates, DraftMoves
<1>2. Draft!Move => moves' \in 0 .. MaxMoves /\ draftEdits' \in 0 .. MaxEdits /\ draftFaults' \in 0 .. MaxRefused
  BY <1>0, <1>1 DEF Draft!Move
<1>3. Draft!Fault => moves' \in 0 .. MaxMoves /\ draftEdits' \in 0 .. MaxEdits /\ draftFaults' \in 0 .. MaxRefused
  BY <1>0, <1>1 DEF Draft!Fault
<1>4. \A c \in Draft!Calls : /\ c.content \in Draft!Contents /\ c.content.graph \in Graphs /\ c.left \in 0 .. 2
                             /\ [c EXCEPT !.pc = "landed"] \in Draft!Calls
                             /\ [c EXCEPT !.pc = "sent"] \in Draft!Calls
                             /\ c.left > 0 => [c EXCEPT !.pc = "waiting", !.left = @ - 1] \in Draft!Calls
  <2> SUFFICES ASSUME NEW c \in Draft!Calls
               PROVE  /\ c.content \in Draft!Contents /\ c.content.graph \in Graphs /\ c.left \in 0 .. 2
                      /\ [c EXCEPT !.pc = "landed"] \in Draft!Calls
                      /\ [c EXCEPT !.pc = "sent"] \in Draft!Calls
                      /\ c.left > 0 => [c EXCEPT !.pc = "waiting", !.left = @ - 1] \in Draft!Calls
    BY Zenon
  <2>1. c.content \in Draft!Contents /\ c.content.graph \in Graphs /\ c.left \in 0 .. 2
    BY DEF Draft!Calls, Draft!Contents
  <2>2. [c EXCEPT !.pc = "landed"] \in Draft!Calls /\ [c EXCEPT !.pc = "sent"] \in Draft!Calls
    BY DEF Draft!Calls
  <2>3. ASSUME c.left > 0 PROVE [c EXCEPT !.pc = "waiting", !.left = @ - 1] \in Draft!Calls
    <3>1. c.left - 1 \in 0 .. 2
      BY <2>1, <2>3
    <3> QED BY <3>1 DEF Draft!Calls
  <2> QED BY <2>1, <2>2, <2>3
<1>5. \A m \in DraftMoves : /\ m.content \in Draft!Contents /\ m.target \in Graphs
                            /\ [m EXCEPT !.pc = "fetch"] \in DraftMoves
                            /\ \A c \in Draft!Contents : [m EXCEPT !.pc = "fetched", !.content = c] \in DraftMoves
  <2> SUFFICES ASSUME NEW m \in DraftMoves
               PROVE  /\ m.content \in Draft!Contents /\ m.target \in Graphs
                      /\ [m EXCEPT !.pc = "fetch"] \in DraftMoves
                      /\ \A c \in Draft!Contents : [m EXCEPT !.pc = "fetched", !.content = c] \in DraftMoves
    BY Zenon
  <2>1. /\ m.content \in Draft!Contents /\ m.target \in Graphs
        /\ [m EXCEPT !.pc = "fetch"] \in DraftMoves
    BY DEF DraftMoves
  <2>2. ASSUME NEW c \in Draft!Contents PROVE [m EXCEPT !.pc = "fetched", !.content = c] \in DraftMoves
    BY DEF DraftMoves
  <2> QED BY <2>1, <2>2, Zenon
<1>6. \A g \in Graphs : /\ [Draft!Stay EXCEPT !.pc = "fetch", !.target = g] \in DraftMoves
                        /\ [Draft!Stay EXCEPT !.pc = "flush", !.target = g] \in DraftMoves
  BY <1>1 DEF DraftMoves
<1>7. [Draft!Idle EXCEPT !.pc = "sent", !.content = draft] \in Draft!Calls
  BY <1>0, <1>1 DEF Draft!Calls
<1>16. \A g \in Graphs : \A c \in Draft!Contents : [server EXCEPT ![g] = c] \in [Graphs -> Draft!Contents]
  BY <1>0
<1>17. \A g \in Graphs : server[g] \in Draft!Contents
  BY <1>0
<1>18. \A k \in Saves : calls[k] \in Draft!Calls
  BY <1>0
<1>8. CASE Draft!Edit
  <2>1. [draft EXCEPT !.rev = draftEdits + 1] \in Draft!Contents /\ draftEdits + 1 \in 0 .. MaxEdits
    BY <1>0, <1>1, <1>8 DEF Draft!Edit, Draft!Contents
  <2> QED BY <1>0, <1>8, <2>1, Zenon DEF Draft!Edit, SaveStates
<1>9. CASE Draft!Undo
  BY <1>0, <1>2, <1>9, Zenon DEF Draft!Undo
<1>10. CASE Draft!TimerFires \/ Draft!RetryButton
  <2>1. (C /\ S /\ O) /\ D /\ F /\ P /\ M /\ R /\ N
    <3>1. C /\ S /\ O
      BY <1>0, <1>10, BeginTypes, Zenon DEF Draft!TimerFires, Draft!RetryButton
    <3>2. D /\ F /\ P /\ M /\ R /\ N
      BY <1>0, <1>10, Zenon DEF Draft!TimerFires, Draft!RetryButton, Draft!counters
    <3> QED BY <3>1, <3>2
  <2> QED BY <2>1
<1>11. ASSUME NEW k \in Saves,
              \/ Draft!PatchLands(k) \/ Draft!PatchAnswers(k) \/ Draft!PatchRefused(k)
              \/ Draft!PatchLost(k) \/ Draft!Retry(k)
       PROVE  D /\ S /\ F /\ C /\ P /\ M /\ R /\ O /\ N
  <2>1. D /\ F /\ P /\ M /\ O
    BY <1>0, <1>11, Zenon DEF Draft!PatchLands, Draft!PatchAnswers, Draft!PatchRefused, Draft!PatchLost, Draft!Retry
  <2>2. S
    BY <1>0, <1>11, Zenon DEF Draft!PatchLands, Draft!PatchAnswers, Draft!PatchRefused, Draft!PatchLost, Draft!Retry,
       SaveStates
  <2>3. N
    BY <1>0, <1>3, <1>11, Zenon DEF Draft!PatchLands, Draft!PatchAnswers, Draft!PatchRefused, Draft!PatchLost,
       Draft!Retry, Draft!counters
  <2>4. R
    <3>1. CASE server' = server
      BY <1>0, <3>1
    <3>2. CASE server' = [server EXCEPT ![calls[k].content.graph] = calls[k].content]
      BY <1>4, <1>16, <1>18, <3>2, Zenon
    <3> QED BY <1>11, <3>1, <3>2, Zenon DEF Draft!PatchLands, Draft!PatchAnswers, Draft!PatchRefused,
               Draft!PatchLost, Draft!Retry
  <2>5. C
    <3>1. \A c \in Draft!Calls : [calls EXCEPT ![k] = c] \in [Saves -> Draft!Calls]
      BY <1>0
    <3>2. calls[k] \in Draft!Calls
      BY <1>0
    <3>3. CASE Draft!PatchLands(k)
      <4>1. calls' = [calls EXCEPT ![k] = [calls[k] EXCEPT !.pc = "landed"]]
        BY <3>3, Zenon DEF Draft!PatchLands
      <4> QED BY <1>4, <3>1, <3>2, <4>1, Zenon
    <3>4. CASE Draft!PatchAnswers(k) \/ Draft!PatchRefused(k)
      BY <1>1, <3>1, <3>4, Zenon DEF Draft!PatchAnswers, Draft!PatchRefused
    <3>5. CASE Draft!PatchLost(k)
      <4>1. CASE calls[k].left > 0
        <5>1. calls' = [calls EXCEPT ![k] = [calls[k] EXCEPT !.pc = "waiting", !.left = @ - 1]]
          BY <1>0, <3>2, <3>5, <4>1 DEF Draft!PatchLost, Draft!Calls
        <5> QED BY <1>4, <3>1, <3>2, <4>1, <5>1, Zenon
      <4>2. CASE ~ (calls[k].left > 0)
        BY <1>1, <3>1, <3>5, <4>2, Zenon DEF Draft!PatchLost
      <4> QED BY <4>1, <4>2
    <3>6. CASE Draft!Retry(k)
      <4>1. calls' = [calls EXCEPT ![k] = [calls[k] EXCEPT !.pc = "sent"]]
        BY <3>6, Zenon DEF Draft!Retry
      <4> QED BY <1>4, <3>1, <3>2, <4>1, Zenon
    <3> QED BY <1>11, <3>3, <3>4, <3>5, <3>6
  <2> QED BY <2>1, <2>2, <2>3, <2>4, <2>5
<1>12. CASE Draft!Compile \/ Draft!CompileLands \/ Draft!CompileAnswers \/ Draft!CompileFails
  <2>1. D /\ S /\ F /\ C /\ M /\ O
    BY <1>0, <1>12, Zenon DEF Draft!Compile, Draft!CompileLands, Draft!CompileAnswers, Draft!CompileFails, SaveStates
  <2>2. P
    BY <1>0, <1>1, <1>4, <1>7, <1>12, Zenon DEF Draft!Compile, Draft!CompileLands, Draft!CompileAnswers,
       Draft!CompileFails
  <2>3. R
    <3>1. CASE server' = server
      BY <1>0, <3>1
    <3>2. CASE server' = [server EXCEPT ![compile.content.graph] = compile.content]
      BY <1>0, <1>4, <1>16, <3>2, Zenon
    <3> QED BY <1>12, <3>1, <3>2, Zenon DEF Draft!Compile, Draft!CompileLands, Draft!CompileAnswers,
               Draft!CompileFails
  <2>4. N
    <3>1. CASE Draft!CompileFails
      <4>1. draftFaults' \in 0 .. MaxRefused
        BY <1>0, <1>1, <3>1 DEF Draft!CompileFails
      <4> QED BY <1>0, <3>1, <4>1, Zenon DEF Draft!CompileFails
    <3> QED BY <1>0, <1>2, <1>12, <3>1, Zenon DEF Draft!Compile, Draft!CompileLands, Draft!CompileAnswers,
               Draft!counters
  <2> QED BY <2>1, <2>2, <2>3, <2>4
<1>13. ASSUME NEW g \in Graphs, Draft!SelectGraph(g)
       PROVE  D /\ S /\ F /\ C /\ P /\ M /\ R /\ O /\ N
  <2>1. Draft!Flusher \in Saves
    BY LabConstants DEF Draft!Flusher
  <2>2. C /\ S /\ O
    BY <1>0, <1>13, <2>1, BeginTypes, Zenon DEF Draft!SelectGraph
  <2>3. D /\ F /\ P /\ M /\ R /\ N
    BY <1>0, <1>2, <1>6, <1>13, Zenon DEF Draft!SelectGraph
  <2> QED BY <2>2, <2>3
<1>14. CASE Draft!Flushed \/ Draft!Fetch \/ Draft!FetchFails \/ Draft!Hydrate
  <2>1. S /\ F /\ C /\ P /\ R /\ O
    BY <1>0, <1>14, Zenon DEF Draft!Flushed, Draft!Fetch, Draft!FetchFails, Draft!Hydrate, SaveStates
  <2>2. D
    BY <1>0, <1>5, <1>14, Zenon DEF Draft!Flushed, Draft!Fetch, Draft!FetchFails, Draft!Hydrate
  <2>3. server[move.target] \in Draft!Contents
    BY <1>0, <1>5, <1>17, Zenon
  <2>4. M
    BY <1>0, <1>1, <1>5, <1>14, <2>3, Zenon DEF Draft!Flushed, Draft!Fetch, Draft!FetchFails, Draft!Hydrate
  <2>5. N
    BY <1>0, <1>3, <1>14, Zenon DEF Draft!Flushed, Draft!Fetch, Draft!FetchFails, Draft!Hydrate, Draft!counters
  <2> QED BY <2>1, <2>2, <2>4, <2>5
<1>15. CASE UNCHANGED draftVars
  BY <1>0, <1>15, Zenon DEF draftVars
<1> QED BY <1>8, <1>9, <1>10, <1>11, <1>12, <1>13, <1>14, <1>15, Zenon DEF Draft!Next

-----------------------------------------------------------------------------
(* The parts together                                                        *)

\* A step of one part leaves the variables of the others alone.
RowsIInv == VersionIInv /\ JobIInv /\ DataIInv /\ PresetIInv /\ DraftIInv
PartsIInv == RowsIInv /\ GridIInv /\ TradeIInv

\* Each part begins in its invariant.
LEMMA PartsInitially == PartsInit => PartsIInv
<1>1. PartsInit => RowsIInv
  BY VersionInit, JobInit, DataInit, PresetInit, DraftInit DEF PartsInit, RowsIInv
<1>2. PartsInit => GridIInv /\ TradeIInv
  BY GridInit, TradeInit, Zenon DEF PartsInit
<1> QED BY <1>1, <1>2 DEF PartsIInv

\* A step of one row is a stutter of the others.
LEMMA RowsStep ==
  RowsNext \/ UNCHANGED rowVars =>
    /\ [Version!Next]_versionVars /\ [Job!Next]_jobVars /\ [Data!Next]_dataVars
    /\ [Preset!Next]_presetVars /\ [Draft!Next]_draftVars
<1>1. UNCHANGED rowVars =>
        UNCHANGED versionVars /\ UNCHANGED jobVars /\ UNCHANGED dataVars
          /\ UNCHANGED presetVars /\ UNCHANGED draftVars
  BY DEF rowVars
<1>2. UNCHANGED <<jobVars, dataVars, presetVars, draftVars>> =>
        UNCHANGED jobVars /\ UNCHANGED dataVars /\ UNCHANGED presetVars /\ UNCHANGED draftVars
  OBVIOUS
<1>3. UNCHANGED <<versionVars, dataVars, presetVars, draftVars>> =>
        UNCHANGED versionVars /\ UNCHANGED dataVars /\ UNCHANGED presetVars /\ UNCHANGED draftVars
  OBVIOUS
<1>4. UNCHANGED <<versionVars, jobVars, presetVars, draftVars>> =>
        UNCHANGED versionVars /\ UNCHANGED jobVars /\ UNCHANGED presetVars /\ UNCHANGED draftVars
  OBVIOUS
<1>5. UNCHANGED <<versionVars, jobVars, dataVars, draftVars>> =>
        UNCHANGED versionVars /\ UNCHANGED jobVars /\ UNCHANGED dataVars /\ UNCHANGED draftVars
  OBVIOUS
<1>6. UNCHANGED <<versionVars, jobVars, dataVars, presetVars>> =>
        UNCHANGED versionVars /\ UNCHANGED jobVars /\ UNCHANGED dataVars /\ UNCHANGED presetVars
  OBVIOUS
<1> QED BY <1>1, <1>2, <1>3, <1>4, <1>5, <1>6, Zenon DEF RowsNext

\* A step is of the rows, of the grid or of the backtest.
LEMMA PartsStep ==
  [PartsNext]_<<part, partVars>> =>
    (RowsNext \/ UNCHANGED rowVars) /\ [Grid!Next]_gridVars /\ [Trade!Next]_tradeVars
<1>1. UNCHANGED <<part, partVars>> => UNCHANGED rowVars /\ UNCHANGED gridVars /\ UNCHANGED tradeVars
  BY DEF partVars
<1>2. UNCHANGED <<gridVars, tradeVars>> => UNCHANGED gridVars /\ UNCHANGED tradeVars
  OBVIOUS
<1>3. UNCHANGED <<rowVars, tradeVars>> => UNCHANGED rowVars /\ UNCHANGED tradeVars
  OBVIOUS
<1>4. UNCHANGED <<rowVars, gridVars>> => UNCHANGED rowVars /\ UNCHANGED gridVars
  OBVIOUS
<1> QED BY <1>1, <1>2, <1>3, <1>4, Zenon DEF PartsNext

\* So every step keeps the invariant of each part.
LEMMA PartsKeep == PartsIInv /\ [PartsNext]_<<part, partVars>> => PartsIInv'
<1> SUFFICES ASSUME PartsIInv, [PartsNext]_<<part, partVars>> PROVE PartsIInv'
  OBVIOUS
<1>1. RowsIInv /\ GridIInv /\ TradeIInv
  BY DEF PartsIInv
<1>2. (RowsNext \/ UNCHANGED rowVars) /\ [Grid!Next]_gridVars /\ [Trade!Next]_tradeVars
  BY PartsStep
<1>3. VersionIInv' /\ JobIInv'
  BY <1>1, <1>2, RowsStep, VersionStep, JobStep, Zenon DEF RowsIInv
<1>4. DataIInv' /\ PresetIInv' /\ DraftIInv'
  BY <1>1, <1>2, RowsStep, DataStep, PresetStep, DraftStep, Zenon DEF RowsIInv
<1>5. GridIInv' /\ TradeIInv'
  BY <1>1, <1>2, GridStep, TradeStep, Zenon
<1>6. RowsIInv'
  BY <1>3, <1>4 DEF RowsIInv
<1> QED BY <1>5, <1>6 DEF PartsIInv

\* And they give what the run checks.
LEMMA PartsHold ==
  PartsIInv => LabTraces /\ SweepsComplete /\ DraftIsKept /\ ResultsHold /\ Parity
<1> SUFFICES ASSUME PartsIInv PROVE LabTraces /\ SweepsComplete /\ DraftIsKept /\ ResultsHold /\ Parity
  OBVIOUS
<1>0. RowsIInv /\ GridIInv /\ TradeIInv
  BY DEF PartsIInv
<1>1. LabTraces
  BY <1>0, VersionHolds, DataHolds, PresetHolds, Zenon DEF RowsIInv, LabTraces, In
<1>2. SweepsComplete
  BY <1>0, JobHolds, Zenon DEF RowsIInv, SweepsComplete, In
<1>3. DraftIsKept
  BY <1>0, DraftHolds, Zenon DEF RowsIInv, DraftIsKept, In
<1>4. ResultsHold
  BY <1>0, TradeHolds, GridHolds, Zenon DEF ResultsHold, In
<1>5. Parity
  BY <1>0, TradeHolds, Zenon DEF Parity, In
<1> QED BY <1>1, <1>2, <1>3, <1>4, <1>5

Bounds == VersionBounds /\ JobBounds /\ DataBounds /\ presets \subseteq Bodies /\ Draft!TypeOK

\* Each part begins within its bounds.
LEMMA BoundsInitially == PartsInit => Bounds
BY VersionTypesInit, JobTypesInit, DataTypesInit, PresetTypes, DraftTypesInit, Zenon DEF PartsInit, Bounds

\* And every step stays within them.
LEMMA BoundsKeep == PartsIInv /\ Bounds /\ [PartsNext]_<<part, partVars>> => Bounds'
<1> SUFFICES ASSUME PartsIInv, Bounds, [PartsNext]_<<part, partVars>> PROVE Bounds'
  OBVIOUS
<1>1. VersionIInv /\ JobIInv /\ DataIInv
  BY Zenon DEF PartsIInv, RowsIInv
<1>2. /\ [Version!Next]_versionVars /\ [Job!Next]_jobVars /\ [Data!Next]_dataVars
      /\ [Preset!Next]_presetVars /\ [Draft!Next]_draftVars
  BY PartsStep, RowsStep, Zenon
<1>3. VersionBounds' /\ JobBounds' /\ DataBounds'
  BY <1>1, <1>2, VersionTypes, JobTypes, DataTypes, Zenon DEF Bounds
<1>4. (presets \subseteq Bodies)' /\ Draft!TypeOK'
  BY <1>2, PresetTypes, DraftTypes, Zenon DEF Bounds
<1> QED BY <1>3, <1>4, Zenon DEF Bounds

\* So the state of each part is what its module says it is.
LEMMA TypesHold == PartsIInv /\ Bounds => TypeOK
<1> SUFFICES ASSUME PartsIInv, Bounds PROVE TypeOK
  OBVIOUS
<1>1. RowsIInv /\ TradeIInv
  BY DEF PartsIInv
<1>2. Preset!TypeOK
  BY <1>1 DEF RowsIInv, PresetIInv, PresetShape, Bounds, Preset!TypeOK
<1> QED BY <1>1, <1>2, VersionTyped, JobTyped, DataTyped, TradeTypes, Zenon DEF RowsIInv, Bounds, TypeOK, In

\* The numbers a strategy's versions got are dense, a graph version compiled to
\* is of one strategy version, one baseline is set while no two requests to set
\* one overlapped (lab.ts); the hash of a dataset is of candles stored as they
\* were hashed, or purged since, and a backtest of a range hashed whole and not
\* purged ran on them (datasets.ts); a preset's bot is whole (presets.ts).
THEOREM RowsAreTraced == PartsSpec => []LabTraces
<1>1. PartsIInv => LabTraces
  BY PartsHold
<1> QED BY PartsInitially, PartsKeep, <1>1, PTL DEF PartsSpec

\* At most two jobs of a kind are active while no two guards overlapped, and a
\* DONE sweep ran every combination once, the missing scores included, and names
\* the first of the best (lab.ts).
THEOREM SweepsAreComplete == PartsSpec => []SweepsComplete
<1>1. PartsIInv => SweepsComplete
  BY PartsHold
<1> QED BY PartsInitially, PartsKeep, <1>1, PTL DEF PartsSpec

\* Whatever autosave, compile, undo and a change of graph interleave to, a
\* graph's content is stored in its own row, and "saved" is shown of stored
\* content while no two requests crossed (useLabGraphStore.ts).
THEOREM DraftsAreKept == PartsSpec => []DraftIsKept
<1>1. PartsIInv => DraftIsKept
  BY PartsHold
<1> QED BY PartsInitially, PartsKeep, <1>1, PTL DEF PartsSpec

\* For every strategy the parser lets through and any prices: a backtest's trades
\* do not overlap, none leaves beyond its stop (but for what its entry cost on
\* the last bar), the outcome is the sign of the result, a ladder fills in order
\* and stays within its capital with its stop and target about its average
\* (dslEvaluator.ts, dcaPlanning.ts).  For any bars, windows and reports: the
\* folds of a walk-forward test after what they were fitted to and are all that
\* fit, and the aggregate lies between the folds it is of, means with missing
\* values included (walkForward/split.ts, aggregate.ts).
THEOREM ResultsAreSound == PartsSpec => []ResultsHold
<1>1. PartsIInv => ResultsHold
  BY PartsHold
<1> QED BY PartsInitially, PartsKeep, <1>1, PTL DEF PartsSpec

\* Filled at the close of a bar, with no costs and no ladder, a backtest takes its
\* position out on the bar, for the reason and at the price the live worker does,
\* until the worker is restarted or the data ends (dslEvaluator.ts, exitEngine.ts).
THEOREM ParityHolds == PartsSpec => []Parity
<1>1. PartsIInv => Parity
  BY PartsHold
<1> QED BY PartsInitially, PartsKeep, <1>1, PTL DEF PartsSpec

\* Whatever the prices and however a ladder moves the entry, the stop of a
\* position that is trailed only follows the price in its favour, if no callback
\* is of more than the price (dslEvaluator.ts; the editor offers at most 50 in
\* blockDefs.ts, while dslValidator.ts has no upper limit).
THEOREM StopsTighten ==
  ASSUME Callbacks
  PROVE  PartsSpec => [][Trade!Tightens]_tradeVars
<1>1. PartsInit => PartsIInv /\ TrailIInv
  BY PartsInitially, TrailInit, Zenon DEF PartsInit
<1>2. PartsIInv /\ TrailIInv /\ [PartsNext]_<<part, partVars>> =>
        PartsIInv' /\ TrailIInv' /\ [Trade!Tightens]_tradeVars
  BY PartsKeep, PartsStep, TrailKeeps, Zenon DEF PartsIInv
<1> QED BY <1>1, <1>2, PTL DEF PartsSpec

\* A version's number is within the versions compiled, a graph's own numbers
\* too, however requests read and write between each other (lab.ts); a job's
\* progress and best are among its runs, whatever write lands late; a dataset's
\* hash is of candles of its range up to now (datasets.ts); what autosave has
\* under way was drawn, and a ladder fills its own orders.
THEOREM PartsAreTyped == PartsSpec => []TypeOK
<1>1. PartsInit => PartsIInv /\ Bounds
  BY PartsInitially, BoundsInitially
<1>2. PartsIInv /\ Bounds /\ [PartsNext]_<<part, partVars>> => PartsIInv' /\ Bounds'
  BY PartsKeep, BoundsKeep
<1>3. PartsIInv /\ Bounds => TypeOK
  BY TypesHold
<1> QED BY <1>1, <1>2, <1>3, PTL DEF PartsSpec
==============================================================================
