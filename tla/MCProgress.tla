------------------------------- MODULE MCProgress -------------------------------
(* What the request handlers and the browser's timers bring to an end.  As in   *)
(* MCLab and MCServices each behaviour follows one part, chosen from Focus; the *)
(* fairness is that of the handlers and timers of that part.                    *)
EXTENDS Integers, Sequences, TLC

CONSTANTS Focus,
  h1, c1, g1, g2,
  Posts, Jobs, RunCount, Scores, Null, MaxThrows, MaxFaults,
  Graphs, First, Saves, MaxEdits, MaxMoves, MaxRefused,
  Syncs, Tests, Creds, ValidCreds,
  Markets, Default, Guest, None, Effects, MaxPageEdits,
  Sockets, Topics

VARIABLES part, faults,
  job, runner, writes, request, rush,
  draft, past, saveState, changed, compiled, saveTimer, calls, compile, move, server,
  edits, moves, overlap,
  conn, tried, overlapped, post, row, known, venue, unsure, sync, test,
  market, preferences, initial, load, imported, timer, puts, putCount, early, crossed,
  asked, directory, chain, current, pageEdits,
  state, ws, sock, feed, authed, armed, leaked, pinging, pong, intentional, wanted, forced

Job == INSTANCE LabJobs
Draft == INSTANCE LabDraft WITH MaxFaults <- MaxRefused
Terminal == INSTANCE TerminalOrders
Page == INSTANCE TerminalPage WITH
  server <- preferences, edits <- pageEdits, MaxEdits <- MaxPageEdits
Socket == INSTANCE WsConnection WITH Private <- TRUE

Of(p) == part = p /\ part' = p

jobVars == <<job, runner, writes, request, rush>>
draftVars == <<draft, past, saveState, changed, compiled, saveTimer, calls, compile, move,
               server, edits, moves, overlap>>
terminalVars == <<conn, tried, overlapped, post, row, known, venue, unsure, sync, test>>
pageVars == <<market, preferences, initial, load, imported, timer, puts, putCount, early,
              crossed, asked, directory, chain, current, pageEdits>>
socketVars ==
  <<state, ws, sock, feed, authed, armed, leaked, pinging, pong, intentional, wanted, forced>>
vars == <<part, faults, jobVars, draftVars, terminalVars, pageVars, socketVars>>

Init ==
  /\ part \in Focus
  /\ Job!Init /\ Draft!Init /\ Terminal!Init /\ Page!Init /\ Socket!Init
  /\ part # "page" => preferences = None

Next ==
  \/ /\ Of("jobs") /\ Job!Next
     /\ UNCHANGED <<draftVars, terminalVars, pageVars, socketVars>>
  \/ /\ Of("draft") /\ Draft!Next
     /\ UNCHANGED <<jobVars, terminalVars, pageVars, socketVars>>
  \/ /\ Of("terminal") /\ Terminal!Next
     /\ UNCHANGED <<jobVars, draftVars, pageVars, socketVars>>
  \/ /\ Of("page") /\ Page!Next
     /\ UNCHANGED <<faults, jobVars, draftVars, terminalVars, socketVars>>
  \/ /\ Of("socket") /\ Socket!Next
     /\ UNCHANGED <<faults, jobVars, draftVars, terminalVars, pageVars>>

-----------------------------------------------------------------------------
(* Fairness                                                                  *)

\* A handler or a runner that has started runs on: its awaits settle (a crash
\* of the process is an action of its own).  Requests of the browser are
\* answered or fail and its timers fire.  A socket that was asked for opens or
\* fails.  Nothing makes a user act.
Fairness ==
  /\ \A j \in Jobs : WF_<<faults, jobVars>>(Of("jobs") /\ Job!Runner(j))
  /\ WF_<<faults, draftVars>>(Of("draft") /\ Draft!TimerFires)
  /\ \A k \in Saves : WF_<<faults, draftVars>>(Of("draft")
       /\ (Draft!PatchLands(k) \/ Draft!PatchAnswers(k) \/ Draft!Retry(k)))
  /\ \A h \in Posts : WF_<<faults, terminalVars>>(Of("terminal") /\ Terminal!PostStep(h))
  /\ WF_pageVars(Of("page") /\ Page!SaveTimer)
  /\ WF_pageVars(Of("page") /\ Page!PutServed)
  /\ WF_pageVars(Of("page") /\ Page!LoadServed)
  /\ WF_pageVars(Of("page") /\ Page!LoadApply)
  /\ WF_pageVars(Of("page") /\ Page!ImportDone)
  /\ WF_socketVars(Of("socket") /\ Socket!ReconnectFires)
  /\ \A s \in Sockets : WF_socketVars(Of("socket")
       /\ (Socket!SocketOpens(s) \/ Socket!SocketCloses(s)))

Spec == Init /\ [][Next]_vars /\ Fairness

-----------------------------------------------------------------------------
(* Properties                                                                *)

\* A job of the lab ends unless the API dies or a write of its catch fails, and
\* a sweep that is DONE has run every combination, whatever threw on the way; an
\* edit of the canvas is stored or reported as not stored; a PENDING order is
\* submitted or FAILED unless its handler died or its answer was lost.
WorkEnds == Job!JobEnds /\ []Job!SweepIsComplete /\ Draft!EditsSettle /\ Terminal!PendingEnds

\* The preferences shown on the terminal page end up stored, unless two
\* requests crossed; a client of the feed that is not closed connects again.
ClientsSettle == (part = "page" => Page!EditsAreSaved) /\ Socket!Reconnects
==============================================================================
