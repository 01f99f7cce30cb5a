---------------------------- MODULE MCIntentsProofs ----------------------------
(****************************************************************************)
(* The properties that MCIntents checks of its two scopes, from the theorems *)
(* of IntentExecutionProofs: in "overlap" two polls, where nothing makes an  *)
(* intent PENDING by hand; in "serial" one poll and one client.              *)
(****************************************************************************)
EXTENDS MCIntents, TLAPS

OP == INSTANCE IntentExecutionProofs WITH
  Intents <- {i1}, Pollers <- {p1, p2}, Handlers <- {h1}, Modes <- {"live"},
  Requests <- {"kill", "sweep", "patch"}, PatchTargets <- {"CANCELLED"},
  MaxRetries <- 1, MaxManual <- 0, MaxOrders <- 1,
  FaultKinds <- {"crash", "database"}, MaxFaults <- 1, Refused <- {}
SP == INSTANCE IntentExecutionProofs WITH
  Intents <- {i1, i2}, Pollers <- {p3}, Handlers <- {h1}, Modes <- {"live", "demo", "disabled"},
  Requests <- {"retry", "kill"}, PatchTargets <- {},
  MaxRetries <- 1, MaxManual <- 1, MaxOrders <- 1,
  FaultKinds <- {}, MaxFaults <- 0, Refused <- {i2}

\* Both instances of each scope are the same system.
LEMMA OverlapInit == Overlap!Init <=> OP!Init
BY DEF Overlap!Init, Overlap!Jobs, Overlap!NoRow, Overlap!NewIntent, Overlap!NoOrder, Overlap!Idle, Overlap!Job, OP!Init, OP!Jobs, OP!NoRow, OP!NewIntent, OP!NoOrder, OP!Idle, OP!Job

LEMMA OverlapNext == [Overlap!Next]_Overlap!vars <=> [OP!Next]_OP!vars
BY DEF Overlap!Next, OP!Next,
     Overlap!TerminalIntents, Overlap!InFlight, Overlap!Jobs, Overlap!history,
     Overlap!vars, Overlap!Orders, Overlap!NoOrder, Overlap!CumOf, Overlap!NewIntent,
     Overlap!NoRow, Overlap!InState, Overlap!Rows, Overlap!Job, Overlap!Idle,
     Overlap!Goto, Overlap!Return, Overlap!At, Overlap!Id, Overlap!Read,
     Overlap!Update, Overlap!CreateIntent, Overlap!EndRun, Overlap!GrowOld,
     Overlap!Cancelled, Overlap!Activate, Overlap!Classify, Overlap!ToCancel,
     Overlap!StartupReconciliation, Overlap!FetchPending, Overlap!Take,
     Overlap!NextPending, Overlap!CancelDisabled, Overlap!Unclaimable,
     Overlap!ClaimLost, Overlap!Claim, Overlap!Simulate, Overlap!Retryable,
     Overlap!Classified, Overlap!Failed, Overlap!TakeOrder, Overlap!Accepted,
     Overlap!AnswerLost, Overlap!NotPlaced, Overlap!RecordOrder, Overlap!CanRetry,
     Overlap!Retry, Overlap!DeadLetter, Overlap!FetchPlaced, Overlap!Unchanged,
     Overlap!QueryOrder, Overlap!Reconciled, Overlap!Refuses, Overlap!FillRefused,
     Overlap!WriteReconciled, Overlap!PollEnd, Overlap!Begin, Overlap!RetryRead,
     Overlap!RetryWrite, Overlap!PatchRead, Overlap!PatchWrite, Overlap!SweepFind,
     Overlap!SweepCancel, Overlap!KillRuns, Overlap!KillIntents, Overlap!NextStatus,
     Overlap!OrderMoves, Overlap!Fault, Overlap!WorkerCrash, Overlap!DatabaseError,
     Overlap!EventError, Overlap!PollStep, Overlap!Request, Overlap!Respond,
     OP!TerminalIntents, OP!InFlight, OP!Jobs, OP!history, OP!vars, OP!Orders,
     OP!NoOrder, OP!CumOf, OP!NewIntent, OP!NoRow, OP!InState, OP!Rows, OP!Job,
     OP!Idle, OP!Goto, OP!Return, OP!At, OP!Id, OP!Read, OP!Update, OP!CreateIntent,
     OP!EndRun, OP!GrowOld, OP!Cancelled, OP!Activate, OP!Classify, OP!ToCancel,
     OP!StartupReconciliation, OP!FetchPending, OP!Take, OP!NextPending,
     OP!CancelDisabled, OP!Unclaimable, OP!ClaimLost, OP!Claim, OP!Simulate,
     OP!Retryable, OP!Classified, OP!Failed, OP!TakeOrder, OP!Accepted, OP!AnswerLost,
     OP!NotPlaced, OP!RecordOrder, OP!CanRetry, OP!Retry, OP!DeadLetter,
     OP!FetchPlaced, OP!Unchanged, OP!QueryOrder, OP!Reconciled, OP!Refuses,
     OP!FillRefused, OP!WriteReconciled, OP!PollEnd, OP!Begin, OP!RetryRead,
     OP!RetryWrite, OP!PatchRead, OP!PatchWrite, OP!SweepFind, OP!SweepCancel,
     OP!KillRuns, OP!KillIntents, OP!NextStatus, OP!OrderMoves, OP!Fault,
     OP!WorkerCrash, OP!DatabaseError, OP!EventError, OP!PollStep, OP!Request,
     OP!Respond

LEMMA SerialInit == Serial!Init <=> SP!Init
BY DEF Serial!Init, Serial!Jobs, Serial!NoRow, Serial!NewIntent, Serial!NoOrder, Serial!Idle, Serial!Job, SP!Init, SP!Jobs, SP!NoRow, SP!NewIntent, SP!NoOrder, SP!Idle, SP!Job

LEMMA SerialNext == [Serial!Next]_Serial!vars <=> [SP!Next]_SP!vars
BY DEF Serial!Next, SP!Next,
     Serial!TerminalIntents, Serial!InFlight, Serial!Jobs, Serial!history,
     Serial!vars, Serial!Orders, Serial!NoOrder, Serial!CumOf, Serial!NewIntent,
     Serial!NoRow, Serial!InState, Serial!Rows, Serial!Job, Serial!Idle, Serial!Goto,
     Serial!Return, Serial!At, Serial!Id, Serial!Read, Serial!Update,
     Serial!CreateIntent, Serial!EndRun, Serial!GrowOld, Serial!Cancelled,
     Serial!Activate, Serial!Classify, Serial!ToCancel, Serial!StartupReconciliation,
     Serial!FetchPending, Serial!Take, Serial!NextPending, Serial!CancelDisabled,
     Serial!Unclaimable, Serial!ClaimLost, Serial!Claim, Serial!Simulate,
     Serial!Retryable, Serial!Classified, Serial!Failed, Serial!TakeOrder,
     Serial!Accepted, Serial!AnswerLost, Serial!NotPlaced, Serial!RecordOrder,
     Serial!CanRetry, Serial!Retry, Serial!DeadLetter, Serial!FetchPlaced,
     Serial!Unchanged, Serial!QueryOrder, Serial!Reconciled, Serial!Refuses,
     Serial!FillRefused, Serial!WriteReconciled, Serial!PollEnd, Serial!Begin,
     Serial!RetryRead, Serial!RetryWrite, Serial!PatchRead, Serial!PatchWrite,
     Serial!SweepFind, Serial!SweepCancel, Serial!KillRuns, Serial!KillIntents,
     Serial!NextStatus, Serial!OrderMoves, Serial!Fault, Serial!WorkerCrash,
     Serial!DatabaseError, Serial!EventError, Serial!PollStep, Serial!Request,
     Serial!Respond, SP!TerminalIntents, SP!InFlight, SP!Jobs, SP!history, SP!vars,
     SP!Orders, SP!NoOrder, SP!CumOf, SP!NewIntent, SP!NoRow, SP!InState, SP!Rows,
     SP!Job, SP!Idle, SP!Goto, SP!Return, SP!At, SP!Id, SP!Read, SP!Update,
     SP!CreateIntent, SP!EndRun, SP!GrowOld, SP!Cancelled, SP!Activate, SP!Classify,
     SP!ToCancel, SP!StartupReconciliation, SP!FetchPending, SP!Take, SP!NextPending,
     SP!CancelDisabled, SP!Unclaimable, SP!ClaimLost, SP!Claim, SP!Simulate,
     SP!Retryable, SP!Classified, SP!Failed, SP!TakeOrder, SP!Accepted, SP!AnswerLost,
     SP!NotPlaced, SP!RecordOrder, SP!CanRetry, SP!Retry, SP!DeadLetter,
     SP!FetchPlaced, SP!Unchanged, SP!QueryOrder, SP!Reconciled, SP!Refuses,
     SP!FillRefused, SP!WriteReconciled, SP!PollEnd, SP!Begin, SP!RetryRead,
     SP!RetryWrite, SP!PatchRead, SP!PatchWrite, SP!SweepFind, SP!SweepCancel,
     SP!KillRuns, SP!KillIntents, SP!NextStatus, SP!OrderMoves, SP!Fault,
     SP!WorkerCrash, SP!DatabaseError, SP!EventError, SP!PollStep, SP!Request,
     SP!Respond

\* What the theorems assume of the constants holds in the scopes.
LEMMA OverlapConstants ==
  /\ NoIntent \notin {i1} /\ {h1} \cap {p1, p2} = {}
  /\ {"CANCELLED"} \subseteq OP!IntentState /\ {} \subseteq {i1}
  /\ 0 \in Nat /\ 1 \in Nat
  /\ "retry" \notin {"kill", "sweep", "patch"}
  /\ "PENDING" \notin {"CANCELLED"}
BY Distinct DEF OP!IntentState

LEMMA SerialConstants ==
  /\ NoIntent \notin {i1, i2} /\ {h1} \cap {p3} = {}
  /\ {} \subseteq SP!IntentState /\ {i2} \subseteq {i1, i2}
  /\ 0 \in Nat /\ 1 \in Nat
  /\ SP!Alone
BY Distinct DEF SP!Alone

-----------------------------------------------------------------------------
ScopesInv ==
  /\ scope = "overlap" => OP!IInv /\ OP!Locked
  /\ scope = "serial" => SP!IInv /\ SP!AloneIInv

LEMMA ScopesInit == Init => ScopesInv
<1>1. OP!Init => OP!IInv /\ OP!Locked
  BY OverlapConstants, OP!InitIInv, OP!LockInit
<1>2. SP!Init => SP!IInv /\ SP!AloneIInv
  BY SerialConstants, SP!InitIInv, SP!AloneInit
<1> QED BY <1>1, <1>2, OverlapInit, SerialInit DEF Init, ScopesInv

\* A step is one of its scope, or none.
LEMMA StepOfScope ==
  ASSUME [Next]_<<scope, intentVars>>
  PROVE  /\ scope' = scope
         /\ scope = "overlap" => [OP!Next]_OP!vars
         /\ scope = "serial" => [SP!Next]_SP!vars
<1>1. CASE UNCHANGED <<scope, intentVars>>
  BY <1>1 DEF intentVars, OP!vars, OP!history, SP!vars, SP!history
<1>2. CASE Next
  BY <1>2, OverlapNext, SerialNext DEF Next, Of
<1> QED BY <1>1, <1>2

LEMMA ScopesStep ==
  ASSUME ScopesInv, [Next]_<<scope, intentVars>>
  PROVE  ScopesInv' /\ (scope = "serial" => SP!Kept)
<1>1. scope = "overlap" => OP!IInv' /\ OP!Locked'
  BY StepOfScope, OP!StepIInv, OP!LockStep, OverlapConstants DEF ScopesInv
<1>2. scope = "serial" => SP!IInv' /\ SP!Kept
  BY StepOfScope, SP!StepIInv, SP!AloneStep, SerialConstants DEF ScopesInv
<1>3. SP!Kept => SP!AloneIInv'
  BY DEF SP!Kept
<1> QED BY <1>1, <1>2, <1>3, StepOfScope DEF ScopesInv

LEMMA ScopesInvariant == Spec => []ScopesInv
BY ScopesInit, ScopesStep, PTL DEF Spec

\* While polls overlap, crash and meet errors of the database, and requests
\* kill, sweep and patch, one poll executes an intent and nobody finds it
\* PENDING meanwhile; without overlap MAX_RETRIES bounds the executions.
THEOREM ClaimsAreHeld == Spec => []ClaimsHold
<1>1. OP!Locked => Overlap!ExclusiveExecution /\ Overlap!ClaimHeld
  BY DEF OP!Locked, OP!ExclusiveExecution, OP!ClaimHeld, OP!Executing, OP!Jobs, OP!Id,
     OP!InExecution, Overlap!ExclusiveExecution, Overlap!ClaimHeld, Overlap!Executing,
     Overlap!Jobs, Overlap!Id, Overlap!InExecution, OP!IntentState, Overlap!IntentState
<1>2. SP!IInv /\ SP!AloneIInv => Serial!RetriesBounded
  BY SerialConstants, SP!Bounded DEF SP!RetriesBounded, Serial!RetriesBounded
<1>3. ScopesInv => ClaimsHold
  BY <1>1, <1>2 DEF ScopesInv, ClaimsHold
<1> QED BY <1>3, ScopesInvariant, PTL

\* Of intents of every kind of bot, under a poll and manual retries, none is
\* claimed once a kill request has ended the run and responded.
THEOREM KillEnds == Spec => KillIsFinal
<1>1. ASSUME ScopesInv, [Next]_<<scope, intentVars>>
      PROVE  [scope = "serial" => \A p \in {p3} : Serial!Claim(p) => ~killed]_intentVars
  <2>1. SUFFICES ASSUME scope = "serial", Serial!Claim(p3) PROVE ~killed
    OBVIOUS
  <2>2. SP!Claim(p3)
    BY <2>1 DEF Serial!Claim, Serial!Unclaimable, Serial!Id, Serial!Update, Serial!Goto,
       Serial!At, SP!Claim, SP!Unclaimable, SP!Id, SP!Update, SP!Goto, SP!At
  <2> QED BY <1>1, <2>1, <2>2, SerialConstants, SP!NoClaimOnceKilled DEF ScopesInv
<1> QED BY <1>1, ScopesInvariant, PTL DEF Spec, KillIsFinal

\* Nor does a terminal one change its state, but for a manual retry of a FAILED
\* one.
THEOREM TerminalStays == Spec => TerminalIsFinal
<1>1. ASSUME ScopesInv, [Next]_<<scope, intentVars>>
      PROVE  [scope = "serial" =>
                \A i \in {i1, i2} : intent[i].state \in Serial!TerminalIntents =>
                  \/ intent'[i].state = intent[i].state
                  \/ intent[i].state = "FAILED" /\ manual[i] > 0]_intentVars
  BY <1>1, ScopesStep DEF SP!Kept, SP!Rested, SP!FinalRow, SP!TerminalIntents,
     Serial!TerminalIntents
<1> QED BY <1>1, ScopesInvariant, PTL DEF Spec, TerminalIsFinal
=============================================================================
