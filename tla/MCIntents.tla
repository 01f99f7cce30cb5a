-------------------------------- MODULE MCIntents --------------------------------
(* Two scopes of IntentExecution, chosen by a behaviour from Scopes: "overlap",   *)
(* one intent under two polls, a kill, a sweep, a PATCH and a fault; "serial",    *)
(* two intents of every kind of bot, one of which the position layer refuses,     *)
(* under one poll, manual retries and a kill.                                     *)
EXTENDS Naturals, Sequences, TLC

CONSTANTS Scopes, i1, i2, p1, p2, p3, h1, NoIntent

ASSUME Distinct == /\ NoIntent \notin {i1, i2} /\ h1 \notin {p1, p2, p3}

VARIABLES scope, run, intent, old, orders, job, claims, manual, killed, faults

Overlap == INSTANCE IntentExecution WITH
  Intents <- {i1}, Pollers <- {p1, p2}, Handlers <- {h1}, Modes <- {"live"},
  Requests <- {"kill", "sweep", "patch"}, PatchTargets <- {"CANCELLED"},
  MaxRetries <- 1, MaxManual <- 0, MaxOrders <- 1,
  FaultKinds <- {"crash", "database"}, MaxFaults <- 1, Refused <- {}
Serial == INSTANCE IntentExecution WITH
  Intents <- {i1, i2}, Pollers <- {p3}, Handlers <- {h1}, Modes <- {"live", "demo", "disabled"},
  Requests <- {"retry", "kill"}, PatchTargets <- {},
  MaxRetries <- 1, MaxManual <- 1, MaxOrders <- 1,
  FaultKinds <- {}, MaxFaults <- 0, Refused <- {i2}

Of(s) == scope = s /\ scope' = s

Init == /\ scope \in Scopes
        /\ \/ scope = "overlap" /\ Overlap!Init
           \/ scope = "serial" /\ Serial!Init

\* An intent's age is read by the sweep alone, which only "overlap" has.
Next == \/ Of("overlap") /\ Overlap!Next
        \/ Of("serial") /\ Serial!Next /\ UNCHANGED old

intentVars == <<run, intent, old, orders, job, claims, manual, killed, faults>>
Spec == Init /\ [][Next]_<<scope, intentVars>>

Symmetry == Permutations({p1, p2})

-----------------------------------------------------------------------------
(* Properties                                                                *)

\* The claim is a lock whoever sweeps, kills, patches, dies or meets an error
\* of the database meanwhile: one poll executes an intent, and nobody takes it
\* for a PENDING one.  An intent is claimed at most MAX_INTENT_RETRIES + 1
\* times, and once more for each manual retry.
ClaimsHold ==
  /\ scope = "overlap" => Overlap!ExclusiveExecution /\ Overlap!ClaimHeld
  /\ scope = "serial" => Serial!RetriesBounded

\* Once a kill request has ended the run and responded, no intent is claimed.
KillIsFinal ==
  [][scope = "serial" => \A p \in {p3} : Serial!Claim(p) => ~killed]_intentVars

\* A terminal intent changes no more, but for a manual retry of a FAILED one.
TerminalIsFinal ==
  [][scope = "serial" =>
       \A i \in {i1, i2} : intent[i].state \in Serial!TerminalIntents =>
         \/ intent'[i].state = intent[i].state
         \/ intent[i].state = "FAILED" /\ manual[i] > 0]_intentVars
==============================================================================
