--------------------------- MODULE RunStateMachine ---------------------------
(****************************************************************************)
(* What lib/stateMachine.ts promises to the rest of the system: a BotRun    *)
(* changes state along the transition graph only, one edge at a time, and   *)
(* each change appends exactly one BotEvent in the same transaction.        *)
(* Nothing here knows of versions, of the read before the write, or of the  *)
(* processes that compete for the row: RunLifecycle implements this.        *)
(****************************************************************************)
EXTENDS RunStates, Sequences

CONSTANT Runs

VARIABLES state,   \* BotRun.state, NoRow before the row is inserted
          log      \* the run's BotEvent rows: the (from, to) of each

Init == /\ state = [r \in Runs |-> NoRow]
        /\ log = [r \in Runs |-> <<>>]

Move(r, to) == /\ state' = [state EXCEPT ![r] = to]
               /\ log' = [log EXCEPT ![r] = Append(@, <<state[r], to>>)]

Create(r) == state[r] = NoRow /\ Move(r, "CREATED")

Transition(r, to) == IsValidTransition(state[r], to) /\ Move(r, to)

Next == \E r \in Runs : Create(r) \/ \E to \in RunState : Transition(r, to)

Spec == Init /\ [][Next]_<<state, log>>
==============================================================================
