------------------------------ MODULE RunStates ------------------------------
(****************************************************************************)
(* The vocabulary of lib/stateMachine.ts: the states of a BotRun row, the   *)
(* transition graph every state change is validated against, and the states *)
(* the partial unique index of the migration SQL covers.                    *)
(****************************************************************************)
RunState == {"CREATED", "QUEUED", "STARTING", "SYNCING", "RUNNING",
             "STOPPING", "STOPPED", "FAILED", "TIMED_OUT"}

NoRow == "NO_ROW"    \* the BotRun row has not been inserted yet

Transitions ==
  {<<"CREATED", "QUEUED">>,
   <<"QUEUED", "STARTING">>, <<"QUEUED", "FAILED">>,
   <<"STARTING", "SYNCING">>, <<"STARTING", "STOPPING">>,
   <<"STARTING", "FAILED">>, <<"STARTING", "TIMED_OUT">>,
   <<"SYNCING", "RUNNING">>, <<"SYNCING", "STOPPING">>,
   <<"SYNCING", "FAILED">>, <<"SYNCING", "TIMED_OUT">>,
   <<"RUNNING", "STOPPING">>, <<"RUNNING", "FAILED">>,
   <<"RUNNING", "TIMED_OUT">>,
   <<"STOPPING", "STOPPED">>, <<"STOPPING", "FAILED">>}

TerminalStates == {"STOPPED", "FAILED", "TIMED_OUT"}

ActiveStates == RunState \ TerminalStates

IsValidTransition(from, to) == <<from, to>> \in Transitions

\* WHERE clause of BotRun_active_workspace_symbol_key: STOPPING is not in it.
IndexedStates == {"CREATED", "QUEUED", "STARTING", "SYNCING", "RUNNING"}
==============================================================================
