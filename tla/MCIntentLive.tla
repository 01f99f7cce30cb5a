------------------------------- MODULE MCIntentLive -------------------------------
(* IntentExecution under fair polls.  No request sweeps here, and the age of an  *)
(* intent is read by the sweep alone, so it stays as it is.                       *)
EXTENDS IntentExecution

LiveNext == Next /\ UNCHANGED old

\* Polls are started every 4 s and what they await returns.
LiveSpec == Init /\ [][LiveNext]_vars /\ \A p \in Pollers : WF_vars(PollStep(p))
==============================================================================
