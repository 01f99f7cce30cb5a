-------------------------- MODULE RunLifecycleProofs --------------------------
(****************************************************************************)
(* Machine-checked proofs about RunLifecycle, for any number of rows, bots, *)
(* requests, polls, workers and faults.                                     *)
(****************************************************************************)
EXTENDS RunLifecycle, TLAPS

-----------------------------------------------------------------------------
(* Plans                                                                     *)

LEMMA StepTypes ==
  /\ \A s \in RunState : Tx(s) \in Steps /\ Expect(s) \in Steps
  /\ \A d \in {"create", "lease", "count", "status"} : Do(d) \in Steps
  BY DEF Tx, Expect, Do, Steps

LEMMA StateNames ==
  /\ RunState = {"CREATED", "QUEUED", "STARTING", "SYNCING", "RUNNING",
                 "STOPPING", "STOPPED", "FAILED", "TIMED_OUT"}
  /\ NoRow \notin RunState
  /\ \A t \in Transitions : t[1] \in RunState /\ t[2] \in RunState
  BY DEF RunState, NoRow, Transitions

LEMMA PlanTypes ==
  /\ SyncBotStatus \in Seq(Steps) /\ ActivatePlan \in Seq(Steps)
  /\ StopRunPlan \in Seq(Steps)
  /\ \A s \in RunState : <<Tx(s)>> \in Seq(Steps)
  /\ \A s \in RunState : TimeoutPlan(s) \in Seq(Steps)
  /\ \A s \in RunState : StopPlan(s) \in Seq(Steps)
  /\ <<Do("create"), Tx("QUEUED")>> \in Seq(Steps)
<1>1. SyncBotStatus \in Seq(Steps)
  BY StepTypes DEF SyncBotStatus
<1>2. ActivatePlan \in Seq(Steps)
  <2>1. <<Tx("STARTING"), Expect("STARTING"), Tx("SYNCING"), Expect("SYNCING"),
          Tx("RUNNING"), Do("lease")>> \in Seq(Steps)
    BY StepTypes, StateNames
  <2> QED BY <2>1, <1>1 DEF ActivatePlan
<1>3. StopRunPlan \in Seq(Steps)
  BY <1>1, StepTypes, StateNames DEF StopRunPlan
<1>4. ASSUME NEW s \in RunState PROVE <<Tx(s)>> \in Seq(Steps)
  <2>1. Tx(s) \in Steps
    BY StepTypes
  <2> QED BY <2>1
<1>5. ASSUME NEW s \in RunState PROVE TimeoutPlan(s) \in Seq(Steps)
  <2>1. <<Tx(s)>> \in Seq(Steps)
    BY <1>4
  <2> QED BY <2>1, <1>1 DEF TimeoutPlan
<1>6. \A s \in RunState : StopPlan(s) \in Seq(Steps)
  BY StepTypes, StateNames DEF StopPlan
<1>7. <<Do("create"), Tx("QUEUED")>> \in Seq(Steps)
  BY StepTypes, StateNames
<1> QED BY <1>1, <1>2, <1>3, <1>4, <1>5, <1>6, <1>7

-----------------------------------------------------------------------------
(* Jobs                                                                      *)

LEMMA IdleGood == GoodJob(Idle)
  BY RunConstants DEF GoodJob, Idle, Job, JobType, KnowsRun, SnapshotSound, NoRow

\* Giving up or completing a plan leaves a good job.
LEMMA SettleGood ==
  ASSUME NEW j \in JobType, KnowsRun(j), SnapshotSound(j),
         j.plan = <<>> => j.seen = NoRow
  PROVE  GoodJob(Settle(j))
<1>1. CASE j.plan # <<>>
  <2>1. Settle(j) = j
    BY <1>1 DEF Settle
  <2> QED BY <2>1 DEF GoodJob
<1>2. CASE j.plan = <<>> /\ j.batch = {} /\ j.op \in HandlerOps \ {"kill"}
  <2>1. Settle(j) = Idle
    BY <1>2 DEF Settle
  <2> QED BY <2>1, IdleGood
<1>3. CASE j.plan = <<>> /\ ~(j.batch = {} /\ j.op \in HandlerOps \ {"kill"})
  <2>1. Settle(j) = [j EXCEPT !.run = NoRun]
    BY <1>3 DEF Settle
  <2>2. [j EXCEPT !.run = NoRun] \in JobType
    BY DEF JobType
  <2> QED BY <1>3, <2>1, <2>2 DEF GoodJob, KnowsRun, SnapshotSound, JobType
<1> QED BY <1>1, <1>2, <1>3

LEMMA AdvanceGood ==
  ASSUME NEW j \in JobType, KnowsRun(j), j.plan # <<>>, j.run \in Runs
  PROVE  GoodJob(Advance(j))
<1> DEFINE k == [j EXCEPT !.plan = Tail(@), !.seen = NoRow, !.ver = 0,
                          !.active = FALSE]
<1>1. Tail(j.plan) \in Seq(Steps)
  BY DEF JobType
<1>2. k \in JobType /\ k.seen = NoRow /\ k.run = j.run
  BY <1>1 DEF JobType
<1>3. KnowsRun(k) /\ SnapshotSound(k)
  BY <1>2 DEF KnowsRun, SnapshotSound
<1>4. GoodJob(Settle(k))
  BY <1>2, <1>3, SettleGood
<1> QED BY <1>4 DEF Advance

LEMMA FailedGood ==
  ASSUME NEW j \in JobType, KnowsRun(j), j.plan # <<>>
  PROVE  GoodJob(Failed(j))
<1> DEFINE q == IF j.op = "activateRuns" /\ Head(j.plan) # Tx("FAILED")
                THEN <<Tx("FAILED")>> ELSE <<>>
           k == [j EXCEPT !.plan = q, !.seen = NoRow, !.ver = 0,
                          !.active = FALSE]
<1>1. q \in Seq(Steps)
  BY PlanTypes, StateNames
<1>2. /\ k \in JobType /\ k.seen = NoRow /\ k.run = j.run
      /\ k.plan = q /\ k.op = j.op
  BY ZenonT(40), <1>1 DEF JobType
<1>3. KnowsRun(k)
  BY <1>2 DEF KnowsRun
<1>4. SnapshotSound(k)
  BY <1>2 DEF SnapshotSound
<1>5. GoodJob(Settle(k))
  BY <1>2, <1>3, <1>4, SettleGood
<1> QED BY <1>5 DEF Failed

\* Abandoning a plan without an error (expect, and a swallowed error).
LEMMA AbandonGood ==
  ASSUME NEW j \in JobType, j.seen = NoRow
  PROVE  /\ GoodJob(Settle([j EXCEPT !.plan = <<>>]))
         /\ GoodJob(Settle([j EXCEPT !.plan = <<>>, !.active = FALSE]))
<1>0. <<>> \in Seq(Steps)
  OBVIOUS
<1>1. [j EXCEPT !.plan = <<>>] \in JobType
  BY <1>0 DEF JobType
<1>2. [j EXCEPT !.plan = <<>>, !.active = FALSE] \in JobType
  BY <1>0 DEF JobType
<1>3. ASSUME NEW k \in JobType, k.plan = <<>>, k.seen = NoRow
      PROVE  GoodJob(Settle(k))
  BY <1>3, SettleGood DEF KnowsRun, SnapshotSound
<1> QED BY <1>1, <1>2, <1>3 DEF JobType

-----------------------------------------------------------------------------
(* The inductive invariant                                                   *)

\* The part of TypeOK no other conjunct of the invariant reads.
RestOK ==
  /\ leaseOwner \in [Runs -> Workers \cup {NoWorker}]
  /\ leaseAge \in [Runs -> {"none", "live", "expired", "orphaned"}]
  /\ age \in [Runs -> 0..2]
  /\ overdue \in [Runs -> BOOLEAN]
  /\ status \in [Bots -> {"ACTIVE", "DRAFT"}]
  /\ up \subseteq Workers
  /\ faults \in Nat

LEMMA InitInv == Init => IInv
<1> SUFFICES ASSUME Init PROVE IInv
  OBVIOUS
<1>1. TypeOK
  <2>1. Idle \in JobType
    BY IdleGood DEF GoodJob
  <2> QED BY <2>1 DEF Init, TypeOK
<1>2. \A p \in Jobs : GoodJob(job[p])
  BY IdleGood DEF Init
<1>3. EmptyRows /\ EventLogChains
  BY DEF Init, EmptyRows, EventLogChains
<1>4. OneIndexedRunPerSymbol
  BY DEF Init, OneIndexedRunPerSymbol, InState, IndexedStates, NoRow
<1> QED BY <1>1, <1>2, <1>3, <1>4 DEF IInv

\* A step that leaves the rows alone keeps the invariant if it leaves every
\* job good and the other variables typed.
LEMMA SameRows ==
  ASSUME IInv, UNCHANGED row, RestOK', job' \in [Jobs -> JobType],
         \A p \in Jobs : GoodJob(job'[p])
  PROVE  IInv'
<1> USE DEF row
<1>1. TypeOK'
  BY DEF IInv, TypeOK, RestOK
<1>2. \A p \in Jobs : GoodJob(job[p])'
  BY DEF GoodJob, KnowsRun, SnapshotSound
<1>3. EmptyRows' /\ EventLogChains'
  BY DEF IInv, EmptyRows, EventLogChains
<1>4. OneIndexedRunPerSymbol'
  BY DEF IInv, OneIndexedRunPerSymbol, InState
<1> QED BY <1>1, <1>2, <1>3, <1>4 DEF IInv

\* The usual case: one job moves on.
LEMMA OneJobMoves ==
  ASSUME IInv, UNCHANGED row, RestOK', NEW p \in Jobs, NEW j, GoodJob(j),
         job' = [job EXCEPT ![p] = j]
  PROVE  IInv'
<1>1. job \in [Jobs -> JobType]
  BY DEF IInv, TypeOK
<1>2. j \in JobType
  BY DEF GoodJob
<1>3. job' \in [Jobs -> JobType]
  BY <1>1, <1>2
<1>4. \A q \in Jobs : GoodJob(job'[q])
  BY <1>1 DEF IInv
<1> QED BY <1>3, <1>4, SameRows

\* What the invariant says of the job that takes the step.
LEMMA JobFacts ==
  ASSUME IInv, NEW p \in Jobs
  PROVE  /\ job[p] \in JobType /\ KnowsRun(job[p]) /\ SnapshotSound(job[p])
         /\ job \in [Jobs -> JobType]
         /\ At(p, "create") \/ Run(p) \in Runs \/ job[p].plan = <<>>
         /\ \A d \in {"transition", "expect", "lease", "count", "status"} :
               At(p, d) => job[p].plan # <<>> /\ Run(p) \in Runs
<1>1. GoodJob(job[p]) /\ job \in [Jobs -> JobType]
  BY DEF IInv, TypeOK
<1>2. ASSUME job[p].plan # <<>>, Run(p) \notin Runs
      PROVE  At(p, "create") /\ Head(job[p].plan).do = "create"
  BY <1>1, <1>2 DEF GoodJob, KnowsRun, At, Run, Do
<1> QED BY <1>1, <1>2 DEF GoodJob, At

LEMMA RestFrom == IInv => RestOK
  BY DEF IInv, TypeOK, RestOK

LEMMA TransitionReadInv ==
  ASSUME IInv, NEW p \in Jobs, TransitionRead(p)
  PROVE  IInv'
<1> DEFINE j == [job[p] EXCEPT !.seen = state[Run(p)], !.ver = version[Run(p)]]
<1>1. /\ job[p] \in JobType /\ KnowsRun(job[p]) /\ job \in [Jobs -> JobType]
      /\ job[p].plan # <<>> /\ Run(p) \in Runs
      /\ Head(job[p].plan).do = "transition"
  BY JobFacts DEF TransitionRead, At
<1>2. state[Run(p)] \in RunState \cup {NoRow} /\ version[Run(p)] \in Nat
  BY <1>1 DEF IInv, TypeOK
<1>3. /\ j \in JobType /\ j.run = Run(p) /\ j.plan = job[p].plan
      /\ j.op = job[p].op /\ j.bot = job[p].bot
      /\ j.seen = state[Run(p)] /\ j.ver = version[Run(p)]
  BY <1>1, <1>2 DEF JobType, Run
<1>4. KnowsRun(j)
  BY <1>1, <1>3 DEF KnowsRun
<1>5. SnapshotSound(j)
  BY <1>1, <1>2, <1>3 DEF SnapshotSound, TransitionRead, Target
<1>6. job' = [job EXCEPT ![p] = j] /\ UNCHANGED row
  BY <1>1 DEF TransitionRead, JobType
<1>7. RestOK'
  BY RestFrom DEF TransitionRead, RestOK, lease, clock, fleet
<1> QED BY <1>3, <1>4, <1>5, <1>6, <1>7, OneJobMoves DEF GoodJob

LEMMA FailingInv ==
  ASSUME IInv, NEW p \in Jobs, job[p].plan # <<>>,
         job' = [job EXCEPT ![p] = Failed(@)], UNCHANGED row, RestOK'
  PROVE  IInv'
<1>1. GoodJob(Failed(job[p]))
  BY JobFacts, FailedGood
<1>2. job' = [job EXCEPT ![p] = Failed(job[p])]
  BY JobFacts
<1> QED BY <1>1, <1>2, OneJobMoves

\* The accesses of a plan that write no row.
LEMMA PlainStepsInv ==
  ASSUME IInv, NEW p \in Jobs
  PROVE  /\ InvalidTransition(p) => IInv'
         /\ StaleState(p) => IInv'
         /\ ExpectState(p) => IInv'
         /\ p \in Pollers /\ TakeLease(p) => IInv'
         /\ CountActive(p) => IInv'
         /\ WriteStatus(p) => IInv'
         /\ NextItem(p) => IInv'
<1> USE DEF lease, clock, fleet
<1>1. ASSUME InvalidTransition(p) PROVE IInv'
  BY <1>1, FailingInv, RestFrom DEF InvalidTransition, At, RestOK
<1>2. ASSUME StaleState(p) PROVE IInv'
  BY <1>2, FailingInv, RestFrom DEF StaleState, At, RestOK
<1>a. ASSUME NEW d \in {"expect", "lease", "count", "status"}, At(p, d)
      PROVE  GoodJob(Advance(job[p])) /\ Run(p) \in Runs /\ job[p].seen = NoRow
  BY <1>a, JobFacts, AdvanceGood DEF Run, SnapshotSound, At
<1>3. ASSUME ExpectState(p) PROVE IInv'
  <2>1. RestOK' /\ UNCHANGED row /\ At(p, "expect")
    BY <1>3, RestFrom DEF ExpectState, RestOK
  <2>2. GoodJob(Advance(job[p])) /\ job[p].seen = NoRow
    BY <2>1, <1>a
  <2>3. GoodJob(Settle([job[p] EXCEPT !.plan = <<>>]))
    BY <2>2, JobFacts, AbandonGood
  <2>4. \E j : GoodJob(j) /\ job' = [job EXCEPT ![p] = j]
    <3>1. CASE state[Run(p)] = Target(p)
      <4>1. job' = [job EXCEPT ![p] = Advance(job[p])]
        BY <1>3, <3>1, JobFacts DEF ExpectState
      <4> QED BY <4>1, <2>2
    <3>2. CASE state[Run(p)] # Target(p)
      <4>1. job' = [job EXCEPT ![p] = Settle([job[p] EXCEPT !.plan = <<>>])]
        BY <1>3, <3>2, JobFacts DEF ExpectState
      <4> QED BY <4>1, <2>3
    <3> QED BY <3>1, <3>2
  <2> QED BY <2>1, <2>4, OneJobMoves
<1>4. ASSUME p \in Pollers, TakeLease(p) PROVE IInv'
  <2>1. RestOK' /\ UNCHANGED row
    <3>1. WorkerOf[p] \in Workers
      BY <1>4, RunConstants
    <3>2. RestOK
      BY RestFrom
    <3>3. leaseOwner' \in [Runs -> Workers \cup {NoWorker}]
      BY <1>4, <3>1, <3>2 DEF TakeLease, RestOK
    <3>4. leaseAge' \in [Runs -> {"none", "live", "expired", "orphaned"}]
      BY <1>4, <3>2 DEF TakeLease, RestOK
    <3>5. age' \in [Runs -> 0..2]
      <4>1. age \in [Runs -> 0..2] /\ 0 \in 0..2
        BY <3>2 DEF RestOK
      <4>2. age' = [age EXCEPT ![Run(p)] = 0]
        BY <1>4 DEF TakeLease
      <4> QED BY <4>1, <4>2
    <3> QED BY <1>4, <3>2, <3>3, <3>4, <3>5 DEF TakeLease, RestOK
  <2>2. job' = [job EXCEPT ![p] = Advance(job[p])]
    BY <1>4, JobFacts DEF TakeLease
  <2> QED BY <1>4, <1>a, <2>1, <2>2, OneJobMoves DEF TakeLease
<1>5. ASSUME CountActive(p) PROVE IInv'
  <2> DEFINE j == [Advance(job[p]) EXCEPT
                     !.active = HasActiveRun(BotOf[Run(p)])]
  <2>1. RestOK' /\ UNCHANGED row /\ At(p, "count")
    BY <1>5, RestFrom DEF CountActive, RestOK
  <2>2. GoodJob(Advance(job[p]))
    BY <2>1, <1>a
  <2>3. GoodJob(j)
    <3>1. HasActiveRun(BotOf[Run(p)]) \in BOOLEAN
      BY DEF HasActiveRun
    <3>2. /\ j \in JobType /\ j.plan = Advance(job[p]).plan
          /\ j.run = Advance(job[p]).run /\ j.op = Advance(job[p]).op
          /\ j.bot = Advance(job[p]).bot /\ j.seen = Advance(job[p]).seen
          /\ j.ver = Advance(job[p]).ver
      BY <2>2, <3>1 DEF GoodJob, JobType
    <3> QED BY <2>2, <3>2 DEF GoodJob, KnowsRun, SnapshotSound
  <2>4. job' = [job EXCEPT ![p] = j]
    BY <1>5, JobFacts DEF CountActive
  <2> QED BY <2>1, <2>3, <2>4, OneJobMoves
<1>6. ASSUME WriteStatus(p) PROVE IInv'
  <2>1. RestOK' /\ UNCHANGED row /\ At(p, "status")
    BY <1>6, RestFrom DEF WriteStatus, RestOK
  <2>2. job' = [job EXCEPT ![p] = Advance(job[p])]
    BY <1>6, JobFacts DEF WriteStatus
  <2> QED BY <1>a, <2>1, <2>2, OneJobMoves
<1>7. ASSUME NextItem(p) PROVE IInv'
  <2>1. PICK item \in job[p].batch :
          job' = [job EXCEPT ![p].run = item.run, ![p].plan = item.plan,
                             ![p].batch = @ \ {item}]
    BY <1>7 DEF NextItem
  <2> DEFINE j == [job[p] EXCEPT !.run = item.run, !.plan = item.plan,
                                 !.batch = @ \ {item}]
  <2>2. job[p] \in JobType /\ job[p].seen = NoRow
    BY <1>7, JobFacts DEF NextItem, SnapshotSound
  <2>3. item.run \in Runs /\ item.plan \in Seq(Steps)
    BY <2>2 DEF JobType, Item
  <2>4. j \in JobType /\ j.run \in Runs /\ j.seen = NoRow
    BY <2>2, <2>3 DEF JobType
  <2>5. GoodJob(j)
    BY <2>4 DEF GoodJob, KnowsRun, SnapshotSound
  <2>6. job' = [job EXCEPT ![p] = j]
    BY <2>1, JobFacts DEF JobType
  <2>7. RestOK' /\ UNCHANGED row
    BY <1>7, RestFrom DEF NextItem, RestOK
  <2> QED BY <2>5, <2>6, <2>7, OneJobMoves
<1> QED BY <1>1, <1>2, <1>3, <1>4, <1>5, <1>6, <1>7

-----------------------------------------------------------------------------
(* The two steps that write rows                                             *)

\* Another job's snapshot survives a write that moves the version on.
LEMMA CommitInv ==
  ASSUME IInv, NEW p \in Jobs, TransitionCommit(p)
  PROVE  IInv'
<1> DEFINE R == Run(p)
           to == Target(p)
           from == job[p].seen
<1>1. /\ job[p] \in JobType /\ KnowsRun(job[p]) /\ job \in [Jobs -> JobType]
      /\ job[p].plan # <<>> /\ R \in Runs
  BY JobFacts DEF TransitionCommit, At
<1>2. /\ from \in RunState /\ to \in RunState /\ IsValidTransition(from, to)
      /\ state[R] = from /\ version[R] = job[p].ver /\ version[R] \in Nat
  <2>1. SnapshotSound(job[p])
    BY JobFacts
  <2>2. IsValidTransition(from, to) /\ state[R] = from /\ version[R] = job[p].ver
    BY <2>1, <1>1 DEF SnapshotSound, TransitionCommit, VersionMatches, Run, Target
  <2>3. from \in RunState /\ to \in RunState
    BY <2>2, StateNames DEF IsValidTransition
  <2> QED BY <2>2, <2>3, <1>1 DEF IInv, TypeOK
<1>3. /\ state' = [state EXCEPT ![R] = to]
      /\ version' = [version EXCEPT ![R] = version[R] + 1]
      /\ log' = [log EXCEPT ![R] = Append(log[R], <<from, to>>)]
      /\ job' = [job EXCEPT ![p] = Advance(job[p])]
  BY <1>1, <1>2 DEF TransitionCommit, IInv, TypeOK
<1>4. GoodJob(Advance(job[p])) /\ Advance(job[p]).seen = NoRow
  <2>1. GoodJob(Advance(job[p]))
    BY <1>1, AdvanceGood DEF Run
  <2>2. Advance(job[p]).seen = NoRow
    BY <1>1 DEF Advance, Settle, Idle, Job, JobType
  <2> QED BY <2>1, <2>2
<1>5. TypeOK'
  <2>1. RestOK'
    <3>1. RestOK
      BY RestFrom
    <3>2. age' \in [Runs -> 0..2]
      <4>1. age \in [Runs -> 0..2] /\ 0 \in 0..2
        BY <3>1 DEF RestOK
      <4>2. age' = [age EXCEPT ![R] = 0]
        BY DEF TransitionCommit
      <4> QED BY <4>1, <4>2
    <3> QED BY <3>1, <3>2 DEF TransitionCommit, RestOK, lease, fleet
  <2>2. state' \in [Runs -> RunState \cup {NoRow}] /\ version' \in [Runs -> Nat]
    <3>1. state \in [Runs -> RunState \cup {NoRow}] /\ version \in [Runs -> Nat]
      BY DEF IInv, TypeOK
    <3>2. version[R] + 1 \in Nat
      BY <1>2
    <3>3. state' \in [Runs -> RunState \cup {NoRow}]
      BY <3>1, <1>2, <1>3
    <3>4. version' \in [Runs -> Nat]
      BY <3>1, <3>2, <1>3
    <3> QED BY <3>3, <3>4
  <2>3. log' \in [Runs -> Seq((RunState \cup {NoRow}) \X RunState)]
    <3>1. <<from, to>> \in (RunState \cup {NoRow}) \X RunState
      BY <1>2
    <3>2. log \in [Runs -> Seq((RunState \cup {NoRow}) \X RunState)]
      BY DEF IInv, TypeOK
    <3>3. Append(log[R], <<from, to>>) \in Seq((RunState \cup {NoRow}) \X RunState)
      BY <3>1, <3>2, <1>1
    <3> QED BY <3>2, <3>3, <1>3
  <2>4. job' \in [Jobs -> JobType]
    BY <1>1, <1>3, <1>4 DEF GoodJob
  <2> QED BY <2>1, <2>2, <2>3, <2>4 DEF TypeOK, RestOK
<1>6. ASSUME NEW q \in Jobs PROVE GoodJob(job[q])'
  <2>1. CASE q = p
    <3>1. job'[q] = Advance(job[p])
      BY <2>1, <1>1, <1>3
    <3> QED BY <3>1, <1>4 DEF GoodJob, KnowsRun, SnapshotSound
  <2>2. CASE q # p
    <3>1. job'[q] = job[q] /\ GoodJob(job[q])
      BY <2>2, <1>1, <1>3 DEF IInv
    <3>2. job[q] \in JobType /\ KnowsRun(job[q]) /\ SnapshotSound(job[q])
      BY <3>1 DEF GoodJob
    <3>3. ASSUME job[q].seen # NoRow
          PROVE  /\ job[q].run \in Runs /\ job[q].ver <= version'[job[q].run]
                 /\ job[q].ver = version'[job[q].run]
                    => state'[job[q].run] = job[q].seen
      <4>1. /\ job[q].run \in Runs /\ job[q].ver \in Nat
            /\ job[q].ver <= version[job[q].run]
            /\ job[q].ver = version[job[q].run]
               => state[job[q].run] = job[q].seen
        BY <3>2, <3>3 DEF SnapshotSound, JobType
      <4> QED BY <4>1, <1>1, <1>2, <1>3 DEF IInv, TypeOK
    <3> QED BY <3>1, <3>2, <3>3 DEF GoodJob, KnowsRun, SnapshotSound
  <2> QED BY <2>1, <2>2
<1>7. EmptyRows'
  BY <1>1, <1>2, <1>3, StateNames DEF IInv, EmptyRows, TypeOK
<1>8. EventLogChains'
  <2> SUFFICES ASSUME NEW r \in Runs, state'[r] # NoRow
               PROVE  /\ Len(log'[r]) = version'[r] + 1
                      /\ log'[r][1] = <<NoRow, "CREATED">>
                      /\ log'[r][Len(log'[r])][2] = state'[r]
                      /\ \A i \in 1..(Len(log'[r]) - 1) :
                           /\ log'[r][i][2] = log'[r][i + 1][1]
                           /\ log'[r][i + 1] \in Transitions
    BY DEF EventLogChains
  <2>1. CASE r # R
    BY <2>1, <1>1, <1>3 DEF IInv, EventLogChains, TypeOK
  <2>2. CASE r = R
    <3> DEFINE L == log[R]
               e == <<from, to>>
    <3>1. L \in Seq((RunState \cup {NoRow}) \X RunState)
      BY <1>1 DEF IInv, TypeOK
    <3>2. /\ Len(L) = version[R] + 1 /\ L[1] = <<NoRow, "CREATED">>
          /\ L[Len(L)][2] = from
          /\ \A i \in 1..(Len(L) - 1) : /\ L[i][2] = L[i + 1][1]
                                        /\ L[i + 1] \in Transitions
      BY <1>1, <1>2, StateNames DEF IInv, EventLogChains
    <3>3. log'[r] = Append(L, e)
      BY <2>2, <1>1, <1>3 DEF IInv, TypeOK
    <3>4. /\ Len(Append(L, e)) = Len(L) + 1 /\ Len(L) \in Nat /\ Len(L) >= 1
          /\ \A i \in 1..Len(L) : Append(L, e)[i] = L[i]
          /\ Append(L, e)[Len(L) + 1] = e
      BY SMTT(30), <3>1, <3>2, <1>2
    <3>5. e \in Transitions /\ e[1] = from /\ e[2] = to
      BY <1>2 DEF IsValidTransition
    <3>6. Len(log'[r]) = version'[r] + 1 /\ log'[r][1] = <<NoRow, "CREATED">>
      BY <3>2, <3>3, <3>4, <1>1, <1>3, <2>2 DEF IInv, TypeOK
    <3>7. log'[r][Len(log'[r])][2] = state'[r]
      BY <3>3, <3>4, <3>5, <1>1, <1>3, <2>2 DEF IInv, TypeOK
    <3>8. ASSUME NEW i \in 1..(Len(log'[r]) - 1)
          PROVE  /\ log'[r][i][2] = log'[r][i + 1][1]
                 /\ log'[r][i + 1] \in Transitions
      <4>1. CASE i = Len(L)
        BY <4>1, <3>2, <3>3, <3>4, <3>5
      <4>2. CASE i \in 1..(Len(L) - 1)
        BY SMTT(30), <4>2, <3>2, <3>3, <3>4
      <4> QED BY <4>1, <4>2, <3>3, <3>4
    <3> QED BY <3>6, <3>7, <3>8
  <2> QED BY <2>1, <2>2
<1>9. OneIndexedRunPerSymbol'
  <2>1. to \in IndexedStates => from \in IndexedStates
    BY <1>2 DEF IsValidTransition, Transitions, IndexedStates
  <2>2. \A r \in Runs : state'[r] \in IndexedStates => state[r] \in IndexedStates
    BY <2>1, <1>1, <1>2, <1>3 DEF IInv, TypeOK
  <2> QED BY <2>2 DEF IInv, OneIndexedRunPerSymbol, InState, Symbol
<1> QED BY <1>5, <1>6, <1>7, <1>8, <1>9 DEF IInv

\* The insert: the version stays 0, but nobody can have read a missing row.
LEMMA CreateRunInv ==
  ASSUME IInv, NEW h \in Handlers, CreateRun(h)
  PROVE  IInv'
<1>1. h \in Jobs
  BY DEF Jobs
<1>2. PICK R \in Runs :
        /\ state[R] = NoRow /\ BotOf[R] = job[h].bot
        /\ state' = [state EXCEPT ![R] = "CREATED"]
        /\ log' = [log EXCEPT ![R] = Append(@, <<NoRow, "CREATED">>)]
        /\ job' = [job EXCEPT ![h] = [Advance(@) EXCEPT !.run = R]]
  BY DEF CreateRun
<1> DEFINE e == <<NoRow, "CREATED">>
           j == [Advance(job[h]) EXCEPT !.run = R]
           Event == (RunState \cup {NoRow}) \X RunState
<1>3. /\ state \in [Runs -> RunState \cup {NoRow}]
      /\ version \in [Runs -> Nat] /\ log \in [Runs -> Seq(Event)]
      /\ job \in [Jobs -> JobType] /\ version' = version
      /\ log[R] = <<>> /\ version[R] = 0
  BY <1>2 DEF IInv, TypeOK, CreateRun, EmptyRows
<1>4. log' = [log EXCEPT ![R] = <<e>>]
  <2>1. Append(log[R], e) = <<e>>
    BY <1>3
  <2> QED BY <1>2, <1>3, <2>1
<1>5. GoodJob(j) /\ j.seen = NoRow
  <2>1. job[h] \in JobType /\ KnowsRun(job[h]) /\ job[h].plan # <<>>
    BY <1>1, JobFacts DEF CreateRun, At
  <2>2. Tail(job[h].plan) \in Seq(Steps)
    BY <2>1 DEF JobType
  <2> DEFINE k == [job[h] EXCEPT !.plan = Tail(@), !.seen = NoRow, !.ver = 0,
                                 !.active = FALSE]
  <2>3. k \in JobType /\ k.seen = NoRow
    BY <2>1, <2>2 DEF JobType
  <2>4. Settle(k) \in JobType /\ Settle(k).seen = NoRow
    <3>1. Idle \in JobType /\ Idle.seen = NoRow
      BY IdleGood DEF GoodJob, Idle, Job
    <3>2. [k EXCEPT !.run = NoRun] \in JobType
          /\ [k EXCEPT !.run = NoRun].seen = NoRow
      BY <2>3 DEF JobType
    <3> QED BY <2>3, <3>1, <3>2 DEF Settle
  <2>5. j \in JobType /\ j.seen = NoRow /\ j.run \in Runs
    BY <2>4 DEF Advance, JobType
  <2> QED BY <2>5 DEF GoodJob, KnowsRun, SnapshotSound
<1>6. job' = [job EXCEPT ![h] = j]
  BY <1>1, <1>2, <1>3
<1>7. TypeOK'
  <2>1. RestOK'
    BY RestFrom DEF CreateRun, RestOK, lease, clock, fleet
  <2>2. state' \in [Runs -> RunState \cup {NoRow}]
    BY <1>2, <1>3, StateNames
  <2>3. log' \in [Runs -> Seq(Event)]
    <3>1. <<e>> \in Seq(Event)
      BY StateNames
    <3> QED BY <3>1, <1>3, <1>4
  <2>4. job' \in [Jobs -> JobType]
    BY <1>3, <1>5, <1>6 DEF GoodJob
  <2> QED BY <1>3, <2>1, <2>2, <2>3, <2>4 DEF TypeOK, RestOK
<1>8. ASSUME NEW q \in Jobs PROVE GoodJob(job[q])'
  <2>1. CASE q = h
    <3>1. job'[q] = j
      BY <2>1, <1>1, <1>3, <1>6
    <3> QED BY <3>1, <1>5 DEF GoodJob, KnowsRun, SnapshotSound
  <2>2. CASE q # h
    <3>1. job'[q] = job[q] /\ job[q] \in JobType /\ KnowsRun(job[q])
          /\ SnapshotSound(job[q])
      BY <2>2, <1>1, <1>3, <1>6 DEF IInv, GoodJob
    <3>2. ASSUME job[q].seen # NoRow PROVE job[q].run # R
      <4>1. SUFFICES ASSUME job[q].run = R PROVE FALSE
        OBVIOUS
      <4>2. job[q].ver \in Nat /\ job[q].ver <= 0
        BY <3>1, <3>2, <4>1, <1>3 DEF SnapshotSound, JobType
      <4>3. state[R] = job[q].seen
        BY <3>1, <3>2, <4>1, <4>2, <1>3 DEF SnapshotSound
      <4> QED BY <4>3, <3>2, <1>2
    <3>3. job[q].seen # NoRow => state'[job[q].run] = state[job[q].run]
      BY <3>2, <1>2, <1>3
    <3> QED BY <3>1, <3>3, <1>3 DEF GoodJob, KnowsRun, SnapshotSound
  <2> QED BY <2>1, <2>2
<1>9. EmptyRows'
  BY <1>2, <1>3, <1>4, StateNames DEF IInv, EmptyRows
<1>10. EventLogChains'
  <2> SUFFICES ASSUME NEW r \in Runs, state'[r] # NoRow
               PROVE  /\ Len(log'[r]) = version'[r] + 1
                      /\ log'[r][1] = <<NoRow, "CREATED">>
                      /\ log'[r][Len(log'[r])][2] = state'[r]
                      /\ \A i \in 1..(Len(log'[r]) - 1) :
                           /\ log'[r][i][2] = log'[r][i + 1][1]
                           /\ log'[r][i + 1] \in Transitions
    BY DEF EventLogChains
  <2>1. CASE r # R
    BY <2>1, <1>2, <1>3, <1>4 DEF IInv, EventLogChains
  <2>2. CASE r = R
    <3>1. log'[r] = <<e>> /\ state'[r] = "CREATED" /\ version'[r] = 0
      BY <2>2, <1>2, <1>3, <1>4
    <3>2. Len(<<e>>) = 1 /\ <<e>>[1] = e /\ e[2] = "CREATED"
      OBVIOUS
    <3> QED BY <3>1, <3>2
  <2> QED BY <2>1, <2>2
<1>11. OneIndexedRunPerSymbol'
  <2>1. ~IndexTaken(BotOf[R])
    BY <1>2 DEF CreateRun
  <2>2. \A r \in Runs : r # R => state'[r] = state[r]
    BY <1>2, <1>3
  <2> QED BY <2>1, <2>2 DEF IInv, OneIndexedRunPerSymbol, InState, Symbol,
                             IndexTaken
<1> QED BY <1>7, <1>8, <1>9, <1>10, <1>11 DEF IInv

-----------------------------------------------------------------------------
(* Requests, poll stages, time and faults write no row either                *)

\* A job that begins has read no version yet.
LEMMA FreshGood ==
  ASSUME NEW o \in HandlerOps \cup PollOps, NEW b \in Bots \cup {NoBot},
         NEW r \in Runs \cup {NoRun}, NEW pl \in Seq(Steps),
         NEW ba \in SUBSET Item, NEW sw \in SUBSET (Runs \X RunState),
         pl = <<>> \/ r \in Runs
  PROVE  GoodJob(Job(o, b, r, pl, ba, sw))
  BY DEF Job, GoodJob, JobType, KnowsRun, SnapshotSound

LEMMA FreshBatch ==
  ASSUME NEW o \in HandlerOps \cup PollOps, NEW b \in Bots \cup {NoBot},
         NEW ba \in SUBSET Item, NEW sw \in SUBSET (Runs \X RunState)
  PROVE  GoodJob(Job(o, b, NoRun, <<>>, ba, sw))
<1>1. <<>> \in Seq(Steps)
  OBVIOUS
<1> QED BY <1>1, FreshGood

\* What a findMany over written rows hands to the job.
LEMMA FoundTypes ==
  ASSUME IInv, NEW S \in SUBSET InState(RunState)
  PROVE  /\ Snapshot(S) \in SUBSET (Runs \X RunState)
         /\ Items(S, StopEach) \in SUBSET Item
         /\ Items(S, FailStale) \in SUBSET Item
         /\ Items(S, Activate) \in SUBSET Item
         /\ Items(S, FinishStop) \in SUBSET Item
         /\ Items(S, FailStuck) \in SUBSET Item
         /\ Items(S, TimeOut) \in SUBSET Item
         /\ Items(S, GuardStop) \in SUBSET Item
<1>0. ASSUME NEW r \in S PROVE r \in Runs /\ state[r] \in RunState
  BY DEF InState
<1>1. Snapshot(S) \in SUBSET (Runs \X RunState)
  BY <1>0 DEF Snapshot
<1>2. Items(S, StopEach) \in SUBSET Item
  <2>1. ASSUME NEW r \in S PROVE StopEach(r) \in Seq(Steps)
    BY <1>0, PlanTypes DEF StopEach
  <2> QED BY <1>0, <2>1 DEF Items, Item
<1>3. "FAILED" \in RunState /\ "TIMED_OUT" \in RunState /\ "STOPPING" \in RunState
  BY StateNames
<1>4. /\ <<Tx("FAILED")>> \in Seq(Steps) /\ <<Tx("STOPPING")>> \in Seq(Steps)
      /\ TimeoutPlan("FAILED") \in Seq(Steps)
      /\ TimeoutPlan("TIMED_OUT") \in Seq(Steps)
      /\ ActivatePlan \in Seq(Steps) /\ StopRunPlan \in Seq(Steps)
  BY PlanTypes, <1>3
<1>5. Items(S, FailStale) \in SUBSET Item /\ Items(S, GuardStop) \in SUBSET Item
  <2>1. \A r : FailStale(r) \in Seq(Steps) /\ GuardStop(r) \in Seq(Steps)
    BY <1>4 DEF FailStale, GuardStop
  <2> QED BY <1>0, <2>1 DEF Items, Item
<1>6. Items(S, Activate) \in SUBSET Item /\ Items(S, FinishStop) \in SUBSET Item
  BY <1>0, <1>4 DEF Items, Item, Activate, FinishStop
<1>7. Items(S, FailStuck) \in SUBSET Item /\ Items(S, TimeOut) \in SUBSET Item
  BY <1>0, <1>4 DEF Items, Item, FailStuck, TimeOut
<1> QED BY <1>1, <1>2, <1>5, <1>6, <1>7

LEMMA RequestInv ==
  ASSUME IInv, NEW h \in Handlers, Request(h)
  PROVE  IInv'
<1>1. h \in Jobs /\ job \in [Jobs -> JobType]
  BY JobFacts DEF Jobs, IInv, TypeOK
<1>2. ASSUME NEW kind, Begin(h, kind) PROVE UNCHANGED row /\ RestOK'
  BY <1>2, RestFrom DEF Begin, RestOK, lease, clock, fleet
<1>3. ASSUME NEW kind, Begin(h, kind), NEW j, GoodJob(j),
             job' = [job EXCEPT ![h] = j]
      PROVE  IInv'
  BY <1>1, <1>2, <1>3, OneJobMoves
<1>4. /\ {"start", "stop", "stopAll", "kill", "patch", "reconcile"} = HandlerOps
      /\ ActiveStates \subseteq RunState
  BY DEF HandlerOps, ActiveStates
<1>5. ASSUME NEW b \in Bots, StartRun(h, b) PROVE IInv'
  <2> DEFINE pl == <<Do("create"), Tx("QUEUED")>>
             j == Job("start", b, NoRun, pl, {}, {})
  <2>1. pl \in Seq(Steps)
    BY PlanTypes
  <2>2. j \in JobType /\ j.seen = NoRow /\ j.op = "start" /\ j.plan = pl
        /\ j.bot = b
    BY <2>1, <1>4 DEF Job, JobType
  <2>3. GoodJob(j)
    BY <2>2 DEF GoodJob, KnowsRun, SnapshotSound
  <2> QED BY <1>5, <2>3, <1>3 DEF StartRun
<1>6. ASSUME NEW b \in Bots, Kill(h, b) PROVE IInv'
  <2> DEFINE S == {r \in InState(ActiveStates) : BotOf[r] = b}
             j == Job("kill", b, NoRun, <<>>, Items(S, StopEach), Snapshot(S))
  <2>1. S \in SUBSET InState(RunState)
    BY <1>4 DEF InState
  <2>2. GoodJob(j)
    BY <2>1, <1>4, FoundTypes, FreshBatch
  <2> QED BY <1>6, <2>2, <1>3 DEF Kill
<1>7. ASSUME NEW r \in Runs, StopRequest(h, r) PROVE IInv'
  <2> DEFINE j == Job("stop", NoBot, r, StopPlan(state[r]), {}, Snapshot({r}))
  <2>1. state[r] \in RunState /\ {r} \in SUBSET InState(RunState)
    BY <1>7, <1>4 DEF StopRequest, InState
  <2>2. StopPlan(state[r]) \in Seq(Steps)
    BY <2>1, PlanTypes
  <2>3. GoodJob(j)
    BY <2>1, <2>2, <1>4, FoundTypes, FreshGood
  <2> QED BY <1>7, <2>3, <1>3 DEF StopRequest
<1>8. ASSUME NEW r \in Runs, NEW to \in PatchTargets, PatchState(h, r, to)
      PROVE  IInv'
  <2> DEFINE j == Job("patch", NoBot, r, <<Tx(to)>>, {}, {})
  <2>1. <<Tx(to)>> \in Seq(Steps)
    BY RunConstants, PlanTypes
  <2>2. GoodJob(j)
    BY <2>1, <1>4, FreshGood
  <2> QED BY <1>8, <2>2, <1>3 DEF PatchState
<1>9. ASSUME StopAll(h) PROVE IInv'
  <2> DEFINE S == InState(ActiveStates \ {"CREATED"})
             j == Job("stopAll", NoBot, NoRun, <<>>, Items(S, StopEach), Snapshot(S))
  <2>1. S \in SUBSET InState(RunState)
    BY <1>4 DEF InState
  <2>2. GoodJob(j)
    BY <2>1, <1>4, FoundTypes, FreshBatch
  <2> QED BY <1>9, <2>2, <1>3 DEF StopAll
<1>10. ASSUME Reconcile(h) PROVE IInv'
  <2> DEFINE S == {r \in InState(ActiveStates \ {"CREATED", "QUEUED"}) :
                     LeaseIsStale(r)}
             j == Job("reconcile", NoBot, NoRun, <<>>, Items(S, FailStale), {})
  <2>1. S \in SUBSET InState(RunState)
    BY <1>4 DEF InState
  <2>2. GoodJob(j)
    BY <2>1, <1>4, FoundTypes, FreshBatch
  <2> QED BY <1>10, <2>2, <1>3 DEF Reconcile
<1> QED BY <1>5, <1>6, <1>7, <1>8, <1>9, <1>10 DEF Request

LEMMA EnterInv ==
  ASSUME IInv, NEW p \in Pollers, NEW S \in SUBSET InState(RunState),
         NEW stage \in PollOps, NEW ba \in SUBSET Item,
         job' = [job EXCEPT ![p] = Job(stage, NoBot, NoRun, <<>>, ba, {})],
         UNCHANGED <<row, lease, clock, status, fleet>>
  PROVE  IInv'
<1>1. GoodJob(Job(stage, NoBot, NoRun, <<>>, ba, {}))
  BY FreshBatch
<1>2. RestOK'
  BY RestFrom DEF RestOK, lease, clock, fleet
<1>3. p \in Jobs
  BY DEF Jobs
<1> QED BY <1>1, <1>2, <1>3, OneJobMoves

LEMMA PollStageInv ==
  ASSUME IInv, NEW p \in Pollers
  PROVE  /\ ActivateRuns(p) => IInv'
         /\ StopRuns(p) => IInv'
         /\ TimeoutEphemeral(p) => IInv'
         /\ TimeoutRunning(p) => IInv'
         /\ RenewLeases(p) => IInv'
         /\ EnforceGuards(p) => IInv'
         /\ PollEnd(p) => IInv'
<1>0. /\ {"activateRuns", "stopRuns", "timeoutEphemeral", "timeoutRunning",
          "renewLeases", "enforceGuards"} = PollOps
      /\ \A S \in SUBSET RunState : InState(S) \subseteq InState(RunState)
  BY DEF PollOps, InState
<1>1. ASSUME ActivateRuns(p) PROVE IInv'
  <2>1. InState({"QUEUED"}) \in SUBSET InState(RunState)
    BY <1>0, StateNames
  <2> QED BY <1>0, <1>1, <2>1, FoundTypes, EnterInv DEF ActivateRuns, Enter
<1>2. ASSUME StopRuns(p) PROVE IInv'
  <2>1. InState({"STOPPING"}) \in SUBSET InState(RunState)
    BY <1>0, StateNames
  <2> QED BY <1>0, <1>2, <2>1, FoundTypes, EnterInv DEF StopRuns, Enter
<1>3. ASSUME TimeoutEphemeral(p) PROVE IInv'
  <2> DEFINE S == {r \in InState({"STARTING", "SYNCING"}) : age[r] = 2}
  <2>1. S \in SUBSET InState(RunState)
    BY <1>0, StateNames
  <2> QED BY <1>0, <1>3, <2>1, FoundTypes, EnterInv DEF TimeoutEphemeral, Enter
<1>4. ASSUME TimeoutRunning(p) PROVE IInv'
  <2>1. PICK C \in Taken(InState({"RUNNING"})) :
          Enter(p, "timeoutEphemeral", "timeoutRunning",
                {r \in C : overdue[r]}, TimeOut)
    BY <1>4 DEF TimeoutRunning
  <2> DEFINE S == {r \in C : overdue[r]}
  <2>2. S \in SUBSET InState(RunState)
    BY <1>0, StateNames DEF Taken
  <2> QED BY <1>0, <1>4, <2>1, <2>2, FoundTypes, EnterInv
             DEF TimeoutRunning, Enter
<1>5. ASSUME RenewLeases(p) PROVE IInv'
  <2>1. RestOK'
    <3>1. RestOK /\ 0 \in 0..2
      BY RestFrom
    <3> QED BY <1>5, <3>1 DEF RenewLeases, RestOK, fleet
  <2>2. GoodJob(Job("renewLeases", NoBot, NoRun, <<>>, {}, {}))
    BY <1>0, FreshBatch
  <2> QED BY <1>5, <2>1, <2>2, OneJobMoves DEF RenewLeases, Jobs
<1>6. ASSUME EnforceGuards(p) PROVE IInv'
  <2>1. PICK S \in SUBSET InState({"RUNNING"}) :
          Enter(p, "renewLeases", "enforceGuards", S, GuardStop)
    BY <1>6 DEF EnforceGuards
  <2>2. S \in SUBSET InState(RunState)
    BY <1>0, StateNames
  <2> QED BY <1>0, <1>6, <2>1, <2>2, FoundTypes, EnterInv
             DEF EnforceGuards, Enter
<1>7. ASSUME PollEnd(p) PROVE IInv'
  <2>1. RestOK' /\ UNCHANGED row
    BY <1>7, RestFrom DEF PollEnd, RestOK, lease, clock, fleet
  <2> QED BY <1>7, <2>1, IdleGood, OneJobMoves DEF PollEnd, Jobs
<1> QED BY <1>1, <1>2, <1>3, <1>4, <1>5, <1>6, <1>7

LEMMA OutsideInv ==
  ASSUME IInv
  PROVE  /\ \A w \in Workers : ReclaimOrphanedLeases(w) => IInv'
         /\ \A w \in Workers, rel \in BOOLEAN : WorkerStops(w, rel) => IInv'
         /\ \A r \in Runs, w \in Workers : Heartbeat(r, w) => IInv'
         /\ \A h \in Handlers : ApiCrash(h) => IInv'
         /\ \A h \in Handlers : KillFinish(h) => IInv'
         /\ \A h \in Handlers : CreateConflict(h) => IInv'
         /\ \A p \in Jobs : DatabaseError(p) => IInv'
         /\ \A r \in Runs : Time(r) => IInv'
         /\ \A w \in Workers : WorkerStart(w) => IInv'
<1>0. /\ RestOK /\ 0 \in 0..2 /\ job \in [Jobs -> JobType]
      /\ \A p \in Jobs : GoodJob(job[p])
      /\ \A h \in Handlers : h \in Jobs
  BY RestFrom DEF IInv, TypeOK, Jobs
<1>1. ASSUME NEW w \in Workers, ReclaimOrphanedLeases(w) PROVE IInv'
  <2>1. RestOK'
    BY <1>0, <1>1 DEF ReclaimOrphanedLeases, RestOK, fleet
  <2> QED BY <1>0, <1>1, <2>1, SameRows DEF ReclaimOrphanedLeases
<1>2. ASSUME NEW w \in Workers, NEW rel \in BOOLEAN, WorkerStops(w, rel)
      PROVE  IInv'
  <2>1. RestOK'
    BY <1>0, <1>2 DEF WorkerStops, RestOK, Fault
  <2>2. /\ job' \in [Jobs -> JobType]
        /\ \A p \in Jobs : GoodJob(job'[p])
    BY <1>0, <1>2, IdleGood DEF WorkerStops, GoodJob
  <2> QED BY <1>2, <2>1, <2>2, SameRows DEF WorkerStops
<1>3. ASSUME NEW r \in Runs, NEW w \in Workers, Heartbeat(r, w) PROVE IInv'
  <2>1. leaseOwner' \in [Runs -> Workers \cup {NoWorker}]
    BY <1>0, <1>3 DEF Heartbeat, RestOK, fleet
  <2>2. leaseAge' \in [Runs -> {"none", "live", "expired", "orphaned"}]
    BY <1>0, <1>3 DEF Heartbeat, RestOK, fleet
  <2>3. age' \in [Runs -> 0..2]
    BY <1>0, <1>3 DEF Heartbeat, RestOK, fleet
  <2>4. RestOK'
    BY <1>0, <1>3, <2>1, <2>2, <2>3 DEF Heartbeat, RestOK, fleet
  <2> QED BY <1>0, <1>3, <2>4, SameRows DEF Heartbeat
<1>4. ASSUME NEW h \in Handlers, ApiCrash(h) PROVE IInv'
  <2>1. RestOK' /\ UNCHANGED row
    BY <1>0, <1>4 DEF ApiCrash, RestOK, Fault, lease, clock, fleet
  <2> QED BY <1>0, <1>4, <2>1, IdleGood, OneJobMoves DEF ApiCrash
<1>5. ASSUME NEW h \in Handlers, KillFinish(h) PROVE IInv'
  <2>1. RestOK' /\ UNCHANGED row
    BY <1>0, <1>5 DEF KillFinish, RestOK, lease, clock, fleet
  <2> QED BY <1>0, <1>5, <2>1, IdleGood, OneJobMoves DEF KillFinish
<1>6. ASSUME NEW h \in Handlers, CreateConflict(h) PROVE IInv'
  BY <1>0, <1>6, FailingInv DEF CreateConflict, At, RestOK, lease, clock, fleet
<1>7. ASSUME NEW p \in Jobs, DatabaseError(p) PROVE IInv'
  <2>1. RestOK' /\ UNCHANGED row /\ job[p].plan # <<>>
    BY <1>0, <1>7 DEF DatabaseError, RestOK, Fault, lease, clock, fleet
  <2>2. CASE Head(job[p].plan).do \in {"count", "status"}
    <3>1. job[p].seen = NoRow
      BY <2>2, JobFacts DEF SnapshotSound
    <3>2. GoodJob(Settle([job[p] EXCEPT !.plan = <<>>, !.active = FALSE]))
      BY <3>1, JobFacts, AbandonGood
    <3>3. job' = [job EXCEPT ![p] =
                    Settle([job[p] EXCEPT !.plan = <<>>, !.active = FALSE])]
      BY <1>0, <1>7, <2>2 DEF DatabaseError
    <3> QED BY <2>1, <3>2, <3>3, OneJobMoves
  <2>3. CASE Head(job[p].plan).do \notin {"count", "status"}
    <3>1. job' = [job EXCEPT ![p] = Failed(@)]
      BY <1>0, <1>7, <2>3 DEF DatabaseError
    <3> QED BY <2>1, <3>1, FailingInv
  <2> QED BY <2>2, <2>3
<1>8. ASSUME NEW r \in Runs, Time(r) PROVE IInv'
  <2>1. CASE RowAges(r)
    <3>1. age' \in [Runs -> 0..2]
      <4>1. age[r] \in 0..2 /\ age[r] + 1 \in 0..2
        BY <1>0, <2>1 DEF RowAges, RestOK
      <4>2. age' = [age EXCEPT ![r] = age[r] + 1] /\ age \in [Runs -> 0..2]
        BY <1>0, <2>1 DEF RowAges, RestOK
      <4> QED BY <4>1, <4>2
    <3>2. RestOK'
      BY <1>0, <2>1, <3>1 DEF RowAges, RestOK, lease, fleet
    <3> QED BY <1>0, <2>1, <3>2, SameRows DEF RowAges
  <2>2. CASE DurationElapses(r)
    <3>1. RestOK'
      BY <1>0, <2>2 DEF DurationElapses, RestOK, lease, fleet
    <3> QED BY <1>0, <2>2, <3>1, SameRows DEF DurationElapses
  <2>3. CASE LeaseAges(r)
    <3>1. RestOK'
      BY <1>0, <2>3 DEF LeaseAges, RestOK, clock, fleet
    <3> QED BY <1>0, <2>3, <3>1, SameRows DEF LeaseAges
  <2> QED BY <1>8, <2>1, <2>2, <2>3 DEF Time
<1>9. ASSUME NEW w \in Workers, WorkerStart(w) PROVE IInv'
  <2>1. RestOK'
    BY <1>0, <1>9 DEF WorkerStart, RestOK, lease, clock
  <2> QED BY <1>0, <1>9, <2>1, SameRows DEF WorkerStart
<1> QED BY <1>1, <1>2, <1>3, <1>4, <1>5, <1>6, <1>7, <1>8, <1>9

-----------------------------------------------------------------------------
(* Theorems                                                                  *)

LEMMA NextInv == IInv /\ [Next]_vars => IInv'
<1> SUFFICES ASSUME IInv, [Next]_vars PROVE IInv'
  OBVIOUS
<1>0. /\ \A h \in Handlers : h \in Jobs
      /\ \A p \in Pollers : p \in Jobs
  BY DEF Jobs
<1>1. ASSUME NEW p \in Jobs, Step(p) PROVE IInv'
  BY <1>1, TransitionReadInv, CommitInv, PlainStepsInv DEF Step
<1>2. ASSUME NEW h \in Handlers, Request(h) \/ HandlerStep(h) \/ ApiCrash(h)
      PROVE  IInv'
  BY <1>0, <1>1, <1>2, RequestInv, CreateRunInv, OutsideInv DEF HandlerStep
<1>3. ASSUME NEW p \in Pollers, PollStep(p) PROVE IInv'
  BY <1>0, <1>1, <1>3, PlainStepsInv, PollStageInv DEF PollStep
<1>4. ASSUME NEW p \in Jobs, DatabaseError(p) PROVE IInv'
  BY <1>4, OutsideInv
<1>5. ASSUME NEW w \in Workers,
             \/ WorkerCrash(w) \/ ReleaseOwnedLeases(w) \/ WorkerStart(w)
             \/ ReclaimOrphanedLeases(w) \/ \E r \in Runs : Heartbeat(r, w)
      PROVE  IInv'
  <2>1. WorkerStops(w, TRUE) \/ WorkerStops(w, FALSE) => IInv'
    BY OutsideInv
  <2> QED BY <1>5, <2>1, OutsideInv DEF WorkerCrash, ReleaseOwnedLeases
<1>6. ASSUME NEW r \in Runs, Time(r) PROVE IInv'
  BY <1>6, OutsideInv
<1>7. CASE UNCHANGED vars
  <2>1. /\ RestOK' /\ UNCHANGED row /\ job' \in [Jobs -> JobType]
        /\ \A p \in Jobs : GoodJob(job'[p])
    BY <1>7, RestFrom DEF vars, RestOK, lease, clock, fleet, IInv, TypeOK
  <2> QED BY <2>1, SameRows
<1> QED BY <1>2, <1>3, <1>4, <1>5, <1>6, <1>7 DEF Next

\* The conjunction the safety properties rest on holds in every state.
THEOREM InductiveInvariant == Spec => []IInv
  BY InitInv, NextInv, PTL DEF Spec

\* Rows, events and jobs keep their types: stateMachine.ts never writes a
\* state outside the enum and a job never loses track of the row it is at.
THEOREM TypeCorrect == Spec => []TypeOK
<1>1. IInv => TypeOK
  BY DEF IInv
<1> QED BY <1>1, InductiveInvariant, PTL

\* The optimistic lock of transition() keeps the BotEvent log of every run a
\* chain along the transition graph that ends at the row's state and version,
\* for any number of handlers, polls and crashes.
THEOREM EventLogIsHistory == Spec => []EventLogChains
<1>1. IInv => EventLogChains
  BY DEF IInv
<1> QED BY <1>1, InductiveInvariant, PTL

\* Only the insert of a run can meet the partial unique index: the transition
\* graph never leads back into the states it covers.
THEOREM UniqueIndexHolds == Spec => []OneIndexedRunPerSymbol
<1>1. IInv => OneIndexedRunPerSymbol
  BY DEF IInv
<1> QED BY <1>1, InductiveInvariant, PTL

-----------------------------------------------------------------------------
(* Refinement                                                                *)

\* Only an insert and a commit write rows.
LEMMA WhoWritesRows ==
  ASSUME [Next]_vars
  PROVE  \/ UNCHANGED row
         \/ \E p \in Jobs : TransitionCommit(p)
         \/ \E h \in Handlers : CreateRun(h)
<1>0. /\ \A h \in Handlers : h \in Jobs
      /\ \A p \in Pollers : p \in Jobs
  BY SMTT(30) DEF Jobs
<1>1. ASSUME NEW p \in Jobs, Step(p) PROVE TransitionCommit(p) \/ UNCHANGED row
  BY <1>1 DEF Step, TransitionRead, InvalidTransition, StaleState, ExpectState,
              CountActive, WriteStatus, NextItem
<1>2. ASSUME NEW h \in Handlers, Request(h) PROVE UNCHANGED row
  BY <1>2 DEF Request, StartRun, Kill, StopRequest, PatchState, StopAll,
              Reconcile, Begin
<1>3. ASSUME NEW h \in Handlers, HandlerStep(h) \/ ApiCrash(h)
      PROVE  TransitionCommit(h) \/ CreateRun(h) \/ UNCHANGED row
  BY <1>0, <1>1, <1>3 DEF HandlerStep, CreateConflict, KillFinish, ApiCrash
<1>4. ASSUME NEW p \in Pollers, PollStep(p)
      PROVE  TransitionCommit(p) \/ UNCHANGED row
  BY <1>0, <1>1, <1>4 DEF PollStep, TakeLease, ActivateRuns, StopRuns,
       TimeoutEphemeral, TimeoutRunning, RenewLeases, EnforceGuards, PollEnd
<1>5. ASSUME NEW p \in Jobs, DatabaseError(p) PROVE UNCHANGED row
  BY <1>5 DEF DatabaseError
<1>6. ASSUME NEW w \in Workers,
             \/ WorkerCrash(w) \/ ReleaseOwnedLeases(w) \/ WorkerStart(w)
             \/ ReclaimOrphanedLeases(w) \/ \E r \in Runs : Heartbeat(r, w)
      PROVE  UNCHANGED row
  BY <1>6 DEF WorkerCrash, ReleaseOwnedLeases, WorkerStops, WorkerStart,
              ReclaimOrphanedLeases, Heartbeat
<1>7. ASSUME NEW r \in Runs, Time(r) PROVE UNCHANGED row
  BY <1>7 DEF Time, RowAges, DurationElapses, LeaseAges
<1>8. CASE UNCHANGED vars
  BY <1>8 DEF vars, row
<1> QED BY <1>0, <1>2, <1>3, <1>4, <1>5, <1>6, <1>7, <1>8 DEF Next

\* The read, the validation and the versioned write of transition(), spread
\* over any number of concurrent jobs, implement the atomic state machine.
THEOREM Refinement == Spec => ImplementsStateMachine
<1>1. Init => Machine!Init
  BY DEF Init, Machine!Init, Machine!NoRow, NoRow
<1>2. IInv /\ [Next]_vars => [Machine!Next]_<<state, log>>
  <2> SUFFICES ASSUME IInv, [Next]_vars PROVE [Machine!Next]_<<state, log>>
    OBVIOUS
  <2>1. CASE UNCHANGED row
    BY <2>1 DEF row
  <2>2. ASSUME NEW p \in Jobs, TransitionCommit(p) PROVE Machine!Next
    <3> DEFINE R == Run(p)
               to == Target(p)
    <3>1. R \in Runs /\ SnapshotSound(job[p])
      BY <2>2, JobFacts DEF TransitionCommit
    <3>2. /\ state[R] = job[p].seen /\ IsValidTransition(state[R], to)
          /\ to \in RunState
      BY <2>2, <3>1, StateNames DEF TransitionCommit, VersionMatches, Run,
           Target, SnapshotSound, IsValidTransition
    <3>3. /\ state' = [state EXCEPT ![R] = to]
          /\ log' = [log EXCEPT ![R] = Append(@, <<state[R], to>>)]
      BY <2>2, <3>2 DEF TransitionCommit
    <3>4. Machine!Transition(R, to)
      BY <3>2, <3>3 DEF Machine!Transition, Machine!Move,
           Machine!IsValidTransition, Machine!Transitions,
           IsValidTransition, Transitions
    <3>5. to \in Machine!RunState
      BY <3>2 DEF Machine!RunState, RunState
    <3> QED BY <3>1, <3>4, <3>5 DEF Machine!Next
  <2>3. ASSUME NEW h \in Handlers, CreateRun(h) PROVE Machine!Next
    BY <2>3 DEF CreateRun, Machine!Next, Machine!Create, Machine!Move,
         Machine!NoRow, NoRow
  <2> QED BY <2>1, <2>2, <2>3, WhoWritesRows
<1> QED BY <1>1, <1>2, InductiveInvariant, PTL DEF Spec, ImplementsStateMachine,
     Machine!Spec

-----------------------------------------------------------------------------
(* Stops                                                                     *)

StopRunning == StopPlan("RUNNING")

LEMMA StopRunningPlan ==
  /\ StopRunning = <<Tx("STOPPING"), Tx("STOPPED")>>
  /\ StopRunning # <<>> /\ Head(StopRunning) = Tx("STOPPING")
  /\ Head(StopRunning).do = "transition" /\ Head(StopRunning).to = "STOPPING"
<1>1. StopRunning = <<Tx("STOPPING"), Tx("STOPPED")>>
  BY DEF StopRunning, StopPlan, IsValidTransition, Transitions
<1>2. Tx("STOPPING").do = "transition" /\ Tx("STOPPING").to = "STOPPING"
  BY DEF Tx
<1> HIDE DEF StopRunning
<1> QED BY <1>1, <1>2

\* From RUNNING a commit leads past RUNNING, and from there nowhere else.
LEMMA NeverBack ==
  ASSUME IInv, [Next]_vars, NEW r \in Runs, state[r] \in {"RUNNING"} \cup PastRunning
  PROVE  /\ state'[r] \in {"RUNNING"} \cup PastRunning
         /\ state'[r] = "RUNNING" => state[r] = "RUNNING" /\ version'[r] = version[r]
<1>1. CASE UNCHANGED row
  BY <1>1 DEF row
<1>2. ASSUME NEW p \in Jobs, TransitionCommit(p)
      PROVE  /\ state'[r] \in PastRunning \/ UNCHANGED <<state[r], version[r]>>
  <2>1. Run(p) \in Runs /\ SnapshotSound(job[p])
    BY <1>2, JobFacts DEF TransitionCommit, Run
  <2>2. state[Run(p)] = job[p].seen /\ IsValidTransition(state[Run(p)], Target(p))
    BY <1>2, <2>1 DEF TransitionCommit, VersionMatches, Run, Target, SnapshotSound
  <2>3. /\ state' = [state EXCEPT ![Run(p)] = Target(p)]
        /\ version' = [version EXCEPT ![Run(p)] = job[p].ver + 1]
        /\ state \in [Runs -> RunState \cup {NoRow}] /\ version \in [Runs -> Nat]
    BY <1>2 DEF TransitionCommit, IInv, TypeOK
  <2>4. CASE Run(p) = r
    <3>1. Target(p) \in PastRunning
      BY <2>2, <2>4 DEF IsValidTransition, Transitions, PastRunning, TerminalStates
    <3> QED BY <2>3, <2>4, <3>1
  <2>5. CASE Run(p) # r
    BY <2>1, <2>3, <2>5
  <2> QED BY <2>4, <2>5
<1>3. ASSUME NEW h \in Handlers, CreateRun(h)
      PROVE  UNCHANGED <<state[r], version[r]>>
  <2>1. PICK s \in Runs : state[s] = NoRow /\ state' = [state EXCEPT ![s] = "CREATED"]
    BY <1>3 DEF CreateRun
  <2>2. s # r
    BY <2>1 DEF PastRunning, TerminalStates, NoRow
  <2> QED BY <1>3, <2>1, <2>2 DEF CreateRun, IInv, TypeOK
<1>4. "RUNNING" \notin PastRunning
  BY DEF PastRunning, TerminalStates
<1> QED BY <1>1, <1>2, <1>3, <1>4, WhoWritesRows

\* A job that still has to stop r works on, on r or on the rows before it.
LEMMA SettleKeeps ==
  ASSUME NEW j \in JobType, j.plan # <<>> \/ j.batch # {}
  PROVE  /\ Settle(j).saw = j.saw /\ Settle(j).batch = j.batch
         /\ Settle(j) \in JobType
<1>1. CASE j.plan # <<>>
  BY <1>1 DEF Settle
<1>2. CASE j.plan = <<>>
  <2>1. Settle(j) = [j EXCEPT !.run = NoRun]
    BY <1>2 DEF Settle
  <2> QED BY <1>2, <2>1 DEF JobType
<1> QED BY <1>1, <1>2

\* The rows that wait in the batch wait on when the row at hand is done.
LEMMA BatchKeeps ==
  ASSUME NEW j \in JobType, j.plan # <<>>, j.batch # {}
  PROVE  /\ Advance(j) \in JobType
         /\ Advance(j).saw = j.saw /\ Advance(j).batch = j.batch
         /\ Failed(j).saw = j.saw /\ Failed(j).batch = j.batch
         /\ Settle([j EXCEPT !.plan = <<>>]).saw = j.saw
         /\ Settle([j EXCEPT !.plan = <<>>]).batch = j.batch
<1>1. \A pl \in Seq(Steps) :
        LET k == [j EXCEPT !.plan = pl, !.seen = NoRow, !.ver = 0, !.active = FALSE] IN
          /\ k \in JobType /\ k.saw = j.saw /\ k.batch = j.batch
          /\ Settle(k).saw = j.saw /\ Settle(k).batch = j.batch
          /\ Settle(k) \in JobType
  <2> TAKE pl \in Seq(Steps)
  <2> DEFINE k == [j EXCEPT !.plan = pl, !.seen = NoRow, !.ver = 0, !.active = FALSE]
  <2>1. k \in JobType /\ k.saw = j.saw /\ k.batch = j.batch
    BY DEF JobType
  <2> HIDE DEF k
  <2>2. /\ Settle(k).saw = j.saw /\ Settle(k).batch = j.batch
        /\ Settle(k) \in JobType
    BY <2>1, SettleKeeps
  <2> QED BY <2>1, <2>2 DEF k
<1>2. /\ Tail(j.plan) \in Seq(Steps) /\ <<>> \in Seq(Steps)
      /\ <<Tx("FAILED")>> \in Seq(Steps)
  <2>1. Tx("FAILED") \in Steps
    BY StateNames, StepTypes
  <2> QED BY <2>1 DEF JobType
<1>4. \A pl \in Seq(Steps) : /\ Settle([j EXCEPT !.plan = pl]).saw = j.saw
                             /\ Settle([j EXCEPT !.plan = pl]).batch = j.batch
  <2> TAKE pl \in Seq(Steps)
  <2> DEFINE k == [j EXCEPT !.plan = pl]
  <2>1. k \in JobType /\ k.saw = j.saw /\ k.batch = j.batch
    BY DEF JobType
  <2> HIDE DEF k
  <2>2. Settle(k).saw = j.saw /\ Settle(k).batch = j.batch
    BY <2>1, SettleKeeps
  <2> QED BY <2>2 DEF k
<1> QED BY <1>1, <1>2, <1>4 DEF Advance, Failed

LEMMA StillBatch ==
  ASSUME IInv, NEW h \in Handlers, NEW r \in Runs,
         \E item \in job[h].batch : item.run = r /\ item.plan = StopRunning,
         job[h].plan # <<>>,
         \/ job' = [job EXCEPT ![h] = Advance(@)]
         \/ job' = [job EXCEPT ![h] = Failed(@)]
         \/ job' = [job EXCEPT ![h] = Settle([@ EXCEPT !.plan = <<>>])]
         \/ \E a : job' = [job EXCEPT ![h] = [Advance(@) EXCEPT !.active = a]]
         \/ \E s : job' = [job EXCEPT ![h] = [Advance(@) EXCEPT !.run = s]]
  PROVE  /\ job'[h].saw = job[h].saw
         /\ \E item \in job'[h].batch : item.run = r /\ item.plan = StopRunning
<1>1. \E item \in job[h].batch : item.run = r /\ item.plan = StopRunning
  OBVIOUS
<1>2. h \in Jobs /\ job[h] \in JobType /\ job \in [Jobs -> JobType]
  BY JobFacts DEF Jobs, IInv, TypeOK
<1>3. /\ Advance(job[h]).saw = job[h].saw /\ Advance(job[h]).batch = job[h].batch
      /\ Failed(job[h]).saw = job[h].saw /\ Failed(job[h]).batch = job[h].batch
      /\ Settle([job[h] EXCEPT !.plan = <<>>]).saw = job[h].saw
      /\ Settle([job[h] EXCEPT !.plan = <<>>]).batch = job[h].batch
  BY <1>1, <1>2, BatchKeeps
<1>4. \A a : /\ [Advance(job[h]) EXCEPT !.active = a].saw = Advance(job[h]).saw
             /\ [Advance(job[h]) EXCEPT !.active = a].batch = Advance(job[h]).batch
             /\ [Advance(job[h]) EXCEPT !.run = a].saw = Advance(job[h]).saw
             /\ [Advance(job[h]) EXCEPT !.run = a].batch = Advance(job[h]).batch
  <2> DEFINE k == Advance(job[h])
  <2>1. k \in JobType
    BY <1>1, <1>2, BatchKeeps
  <2> HIDE DEF k
  <2>2. \A a : /\ [k EXCEPT !.active = a].saw = k.saw
               /\ [k EXCEPT !.active = a].batch = k.batch
               /\ [k EXCEPT !.run = a].saw = k.saw
               /\ [k EXCEPT !.run = a].batch = k.batch
    BY <2>1 DEF JobType
  <2> QED BY <2>2 DEF k
<1>5. ASSUME NEW v, v.saw = job[h].saw, v.batch = job[h].batch,
             job' = [job EXCEPT ![h] = v]
      PROVE  /\ job'[h].saw = job[h].saw
             /\ \E item \in job'[h].batch : item.run = r /\ item.plan = StopRunning
  <2>1. job'[h] = v
    BY <1>2, <1>5
  <2> QED BY <1>1, <1>5, <2>1
<1>6. CASE job' = [job EXCEPT ![h] = Advance(@)]
  BY <1>3, <1>5, <1>6
<1>7. CASE job' = [job EXCEPT ![h] = Failed(@)]
  BY <1>3, <1>5, <1>7
<1>8. CASE job' = [job EXCEPT ![h] = Settle([@ EXCEPT !.plan = <<>>])]
  BY <1>3, <1>5, <1>8
<1>9. CASE \E a : job' = [job EXCEPT ![h] = [Advance(@) EXCEPT !.active = a]]
  BY <1>3, <1>4, <1>5, <1>9
<1>10. CASE \E s : job' = [job EXCEPT ![h] = [Advance(@) EXCEPT !.run = s]]
  BY <1>3, <1>4, <1>5, <1>10
<1> QED BY <1>6, <1>7, <1>8, <1>9, <1>10

\* A step of the job itself: unless it is the commit that ends RUNNING, it
\* leaves the stop of r to be done, and never gives the job up.
LEMMA OwnStep ==
  ASSUME IInv, NEW h \in Handlers, NEW r \in Runs, StillToStop(job[h], r),
         state[r] = "RUNNING", state'[r] = "RUNNING",
         UNCHANGED version \/ TransitionCommit(h),
         HandlerStep(h)
  PROVE  job'[h].saw = job[h].saw /\ StillToStop(job[h], r)'
<1>1. /\ h \in Jobs /\ job[h] \in JobType /\ job \in [Jobs -> JobType]
      /\ state \in [Runs -> RunState \cup {NoRow}] /\ version \in [Runs -> Nat]
      /\ SnapshotSound(job[h])
  BY JobFacts DEF Jobs, IInv, TypeOK, GoodJob
<1>2. IsValidTransition("RUNNING", "STOPPING") /\ "RUNNING" # NoRow
  BY DEF IsValidTransition, Transitions, NoRow
<1>3. ASSUME \E item \in job'[h].batch : item.run = r /\ item.plan = StopRunning
      PROVE  StillToStop(job[h], r)'
  BY <1>3 DEF StillToStop, StopRunning
<1> DEFINE here == Run(h) = r /\ job[h].plan = StopRunning
           batched == \E item \in job[h].batch : item.run = r /\ item.plan = StopRunning
<1>4. here \/ batched
  BY DEF StillToStop, StopRunning, Run
<1>5. here /\ job[h].seen # NoRow => VersionMatches(h) \/ batched
  BY DEF StillToStop, StopRunning, Run, VersionMatches
<1>6. CASE TransitionRead(h)
  <2>1. /\ job'[h].saw = job[h].saw /\ job'[h].batch = job[h].batch
        /\ job'[h].run = job[h].run /\ job'[h].plan = job[h].plan
        /\ job'[h].ver = version[Run(h)] /\ version' = version
    BY <1>1, <1>6 DEF TransitionRead, row, JobType
  <2>2. CASE batched
    BY <1>3, <2>1, <2>2
  <2>3. CASE here
    BY <2>1, <2>3 DEF StillToStop, StopRunning, Run
  <2> QED BY <1>4, <2>1, <2>2, <2>3
<1>7. CASE InvalidTransition(h)
  <2>1. ~here
    BY <1>2, <1>7, StopRunningPlan DEF InvalidTransition, Target, Run
  <2>2. job[h].plan # <<>> /\ job' = [job EXCEPT ![h] = Failed(@)]
    BY <1>7 DEF InvalidTransition, At
  <2>3. batched
    BY <1>4, <2>1
  <2> QED BY <1>3, <2>2, <2>3, StillBatch
<1>8. CASE TransitionCommit(h)
  <2>1. /\ job[h].plan # <<>> /\ job' = [job EXCEPT ![h] = Advance(@)]
        /\ Head(job[h].plan).do = "transition" /\ job[h].seen # NoRow
        /\ state' = [state EXCEPT ![Run(h)] = Target(h)]
    BY <1>8 DEF TransitionCommit, At
  <2>2. Target(h) = "STOPPING" => Run(h) # r
    BY <1>1, <2>1
  <2>3. batched
    BY <1>4, <2>2, StopRunningPlan DEF Target
  <2> QED BY <1>3, <2>1, <2>3, StillBatch
<1>9. CASE StaleState(h)
  <2>1. batched
    BY <1>4, <1>5, <1>9 DEF StaleState
  <2>2. job[h].plan # <<>> /\ job' = [job EXCEPT ![h] = Failed(@)]
    BY <1>9 DEF StaleState, At
  <2> QED BY <1>3, <2>1, <2>2, StillBatch
<1>10. CASE \/ ExpectState(h) \/ CountActive(h) \/ WriteStatus(h)
            \/ CreateRun(h) \/ CreateConflict(h)
  <2>1. batched
    BY <1>4, <1>10, StopRunningPlan DEF ExpectState, CountActive, WriteStatus,
       CreateRun, CreateConflict, At
  <2>2. job[h].plan # <<>>
    BY <1>10 DEF ExpectState, CountActive, WriteStatus, CreateRun,
       CreateConflict, At
  <2>3. CASE ExpectState(h) \/ CreateConflict(h) \/ WriteStatus(h)
    BY <1>3, <2>1, <2>2, <2>3, StillBatch DEF ExpectState, CreateConflict,
       WriteStatus
  <2>4. CASE CountActive(h)
    <3>1. \E a : job' = [job EXCEPT ![h] = [Advance(@) EXCEPT !.active = a]]
      BY <2>4 DEF CountActive
    <3> QED BY <1>3, <2>1, <2>2, <3>1, StillBatch
  <2>5. CASE CreateRun(h)
    <3>1. \E s : job' = [job EXCEPT ![h] = [Advance(@) EXCEPT !.run = s]]
      BY <2>5 DEF CreateRun
    <3> QED BY <1>3, <2>1, <2>2, <3>1, StillBatch
  <2> QED BY <1>10, <2>3, <2>4, <2>5
<1>11. CASE NextItem(h)
  <2>1. job[h].seen = NoRow
    BY <1>1, <1>11 DEF NextItem, SnapshotSound
  <2>2. batched
    BY <1>4, <1>11, StopRunningPlan DEF NextItem
  <2>3. PICK item \in job[h].batch :
          job' = [job EXCEPT ![h].run = item.run, ![h].plan = item.plan,
                             ![h].batch = @ \ {item}]
    BY <1>11, Zenon DEF NextItem
  <2>4. /\ job'[h].saw = job[h].saw /\ job'[h].batch = job[h].batch \ {item}
        /\ job'[h].run = item.run /\ job'[h].plan = item.plan
        /\ job'[h].seen = job[h].seen
    BY <1>1, <2>3 DEF JobType
  <2>5. CASE item.run = r /\ item.plan = StopRunning
    BY <2>1, <2>4, <2>5 DEF StillToStop, StopRunning
  <2>6. CASE ~(item.run = r /\ item.plan = StopRunning)
    BY <1>3, <2>2, <2>4, <2>6
  <2> QED BY <2>4, <2>5, <2>6
<1>12. CASE KillFinish(h)
  BY <1>4, <1>12, StopRunningPlan DEF KillFinish, Done
<1> QED BY <1>6, <1>7, <1>8, <1>9, <1>10, <1>11, <1>12 DEF HandlerStep, Step

\* What a request finds RUNNING is RUNNING, and it sets out to stop all of it.
LEMMA RequestStops ==
  ASSUME IInv, NEW h \in Handlers, Request(h)
  PROVE  StopsWhatItSaw(job[h])'
<1>1. h \in Jobs /\ job \in [Jobs -> JobType] /\ UNCHANGED <<state, faults>>
  BY JobFacts DEF Jobs, IInv, TypeOK, Request, StartRun, Kill, StopRequest,
     PatchState, StopAll, Reconcile, Begin, row, fleet
<1>2. ASSUME NEW j, j.saw = {}, job' = [job EXCEPT ![h] = j]
      PROVE  StopsWhatItSaw(job[h])'
  <2>1. job'[h] = j
    BY <1>1, <1>2
  <2> QED BY <1>2, <2>1 DEF StopsWhatItSaw
<1>3. ASSUME NEW found \in SUBSET Runs, NEW j, j.saw = Snapshot(found),
             \/ \E r \in Runs : found = {r} /\ j.run = r
                               /\ j.plan = StopPlan(state[r]) /\ j.seen = NoRow
             \/ j.batch = Items(found, StopEach),
             job' = [job EXCEPT ![h] = j]
      PROVE  StopsWhatItSaw(job[h])'
  <2>1. job'[h] = j
    BY <1>1, <1>3
  <2> SUFFICES ASSUME NEW r \in Runs, <<r, "RUNNING">> \in j.saw
               PROVE  /\ state[r] = "RUNNING"
                      /\ \/ \E item \in j.batch : item.run = r
                                              /\ item.plan = StopPlan("RUNNING")
                         \/ j.run = r /\ j.plan = StopPlan("RUNNING")
                            /\ j.seen = NoRow
    BY <1>1, <2>1 DEF StopsWhatItSaw, StillToStop
  <2>2. r \in found /\ state[r] = "RUNNING"
    BY <1>3 DEF Snapshot
  <2>3. CASE j.batch = Items(found, StopEach)
    <3>1. [run |-> r, plan |-> StopPlan(state[r])] \in Items(found, StopEach)
      BY <2>2 DEF Items, StopEach
    <3> QED BY <2>2, <2>3, <3>1
  <2> QED BY <1>3, <2>2, <2>3
<1>4. ASSUME NEW b \in Bots, StartRun(h, b) PROVE StopsWhatItSaw(job[h])'
  BY <1>2, <1>4 DEF StartRun, Job
<1>5. ASSUME NEW b \in Bots, Kill(h, b) PROVE StopsWhatItSaw(job[h])'
  <2> DEFINE S == {r \in InState(ActiveStates) : BotOf[r] = b}
             j == Job("kill", b, NoRun, <<>>, Items(S, StopEach), Snapshot(S))
  <2>1. S \in SUBSET Runs
    BY DEF InState
  <2>2. j.saw = Snapshot(S) /\ j.batch = Items(S, StopEach)
    BY DEF Job
  <2>3. job' = [job EXCEPT ![h] = j]
    BY <1>5 DEF Kill
  <2> HIDE DEF S, j
  <2> QED BY <1>3, <2>1, <2>2, <2>3
<1>6. ASSUME NEW r \in Runs, StopRequest(h, r) PROVE StopsWhatItSaw(job[h])'
  <2> DEFINE j == Job("stop", NoBot, r, StopPlan(state[r]), {}, Snapshot({r}))
  <2>1. /\ j.saw = Snapshot({r}) /\ j.run = r /\ j.plan = StopPlan(state[r])
        /\ j.seen = NoRow
    BY DEF Job
  <2>2. job' = [job EXCEPT ![h] = j]
    BY <1>6 DEF StopRequest
  <2> HIDE DEF j
  <2> QED BY <1>3, <2>1, <2>2
<1>7. ASSUME NEW r \in Runs, NEW to \in PatchTargets, PatchState(h, r, to)
      PROVE  StopsWhatItSaw(job[h])'
  BY <1>2, <1>7 DEF PatchState, Job
<1>8. CASE StopAll(h)
  <2> DEFINE S == InState(ActiveStates \ {"CREATED"})
             j == Job("stopAll", NoBot, NoRun, <<>>, Items(S, StopEach), Snapshot(S))
  <2>1. S \in SUBSET Runs
    BY DEF InState
  <2>2. j.saw = Snapshot(S) /\ j.batch = Items(S, StopEach)
    BY DEF Job
  <2>3. job' = [job EXCEPT ![h] = j]
    BY <1>8 DEF StopAll
  <2> HIDE DEF S, j
  <2> QED BY <1>3, <2>1, <2>2, <2>3
<1>9. CASE Reconcile(h)
  BY <1>2, <1>9 DEF Reconcile, Job
<1> QED BY <1>4, <1>5, <1>6, <1>7, <1>8, <1>9 DEF Request

\* A job keeps what its first query found, or is over.
Remembers(k, j) == k.saw = j.saw \/ k.saw = {}

Keeps(k, j) == Remembers(Settle(k), j) /\ Settle(k) \in JobType

GivenUp(j) == Settle([j EXCEPT !.plan = <<>>])
Swallowed(j) == Settle([j EXCEPT !.plan = <<>>, !.active = FALSE])

LEMMA SettleRemembers ==
  ASSUME NEW j \in JobType
  PROVE  /\ j.plan # <<>> => Remembers(Advance(j), j) /\ Advance(j) \in JobType
         /\ Remembers(Failed(j), j)
         /\ Remembers(GivenUp(j), j)
         /\ Remembers(Swallowed(j), j)
<1>1. ASSUME NEW k, k.saw = j.saw, k \in JobType PROVE Keeps(k, j)
  <2>1. Settle(k) = k \/ Settle(k) = Idle \/ Settle(k) = [k EXCEPT !.run = NoRun]
    BY DEF Settle
  <2>2. [k EXCEPT !.run = NoRun].saw = k.saw /\ [k EXCEPT !.run = NoRun] \in JobType
    BY ZenonT(40), <1>1 DEF JobType
  <2>3. Idle.saw = {} /\ Idle \in JobType
    BY IdleGood DEF Idle, Job, GoodJob
  <2> QED BY <1>1, <2>1, <2>2, <2>3 DEF Remembers, Keeps
<1>2. /\ j.plan # <<>> => Tail(j.plan) \in Seq(Steps)
      /\ <<>> \in Seq(Steps) /\ <<Tx("FAILED")>> \in Seq(Steps)
  <2>1. Tx("FAILED") \in Steps
    BY StateNames, StepTypes
  <2> QED BY <2>1 DEF JobType
<1>4. ASSUME j.plan # <<>>
      PROVE  Remembers(Advance(j), j) /\ Advance(j) \in JobType
  <2> DEFINE pl == Tail(j.plan)
             k == [j EXCEPT !.plan = pl, !.seen = NoRow, !.ver = 0, !.active = FALSE]
  <2>1. pl \in Seq(Steps)
    BY <1>2, <1>4
  <2>2. Advance(j) = Settle(k)
    BY DEF Advance
  <2> HIDE DEF pl
  <2>3. k \in JobType /\ k.saw = j.saw
    BY <2>1 DEF JobType
  <2> HIDE DEF k
  <2> QED BY <1>1, <2>2, <2>3 DEF Keeps
<1>5. Remembers(Failed(j), j)
  <2> DEFINE pl == IF j.op = "activateRuns" /\ Head(j.plan) # Tx("FAILED")
                   THEN <<Tx("FAILED")>> ELSE <<>>
             k == [j EXCEPT !.plan = pl, !.seen = NoRow, !.ver = 0, !.active = FALSE]
  <2>1. pl \in Seq(Steps)
    BY <1>2
  <2>2. Failed(j) = Settle(k)
    BY DEF Failed
  <2> HIDE DEF pl
  <2>3. k \in JobType /\ k.saw = j.saw
    BY <2>1 DEF JobType
  <2> HIDE DEF k
  <2> QED BY <1>1, <2>2, <2>3 DEF Keeps
<1>6. Remembers(GivenUp(j), j)
  <2> DEFINE k == [j EXCEPT !.plan = <<>>]
  <2>1. k \in JobType /\ k.saw = j.saw
    BY <1>2 DEF JobType
  <2> HIDE DEF k
  <2>2. Keeps(k, j)
    BY <1>1, <2>1
  <2> QED BY <2>2 DEF k, Keeps, GivenUp
<1>7. Remembers(Swallowed(j), j)
  <2> DEFINE k == [j EXCEPT !.plan = <<>>, !.active = FALSE]
  <2>1. k \in JobType /\ k.saw = j.saw
    BY <1>2 DEF JobType
  <2> HIDE DEF k
  <2>2. Keeps(k, j)
    BY <1>1, <2>1
  <2> QED BY <2>2 DEF k, Keeps, Swallowed
<1> QED BY <1>4, <1>5, <1>6, <1>7

LEMMA HandlerRemembers ==
  ASSUME IInv, NEW h \in Handlers, HandlerStep(h)
  PROVE  Remembers(job'[h], job[h])
<1>1. h \in Jobs /\ job[h] \in JobType /\ job \in [Jobs -> JobType]
  BY JobFacts DEF Jobs
<1>3. /\ Remembers(Failed(job[h]), job[h])
      /\ Remembers(GivenUp(job[h]), job[h])
  BY <1>1, SettleRemembers
<1>4. ASSUME NEW v, Remembers(v, job[h]), job' = [job EXCEPT ![h] = v]
      PROVE  Remembers(job'[h], job[h])
  <2>1. job'[h] = v
    BY <1>1, <1>4
  <2> QED BY <1>4, <2>1
<1>5. ASSUME job[h].plan # <<>>
      PROVE  /\ Remembers(Advance(job[h]), job[h])
             /\ \A a : /\ Remembers([Advance(job[h]) EXCEPT !.active = a], job[h])
                       /\ Remembers([Advance(job[h]) EXCEPT !.run = a], job[h])
  <2> DEFINE k == Advance(job[h])
  <2>1. k \in JobType /\ Remembers(k, job[h])
    BY <1>1, <1>5, SettleRemembers
  <2> HIDE DEF k
  <2>2. \A a : /\ [k EXCEPT !.active = a].saw = k.saw
               /\ [k EXCEPT !.run = a].saw = k.saw
    BY <2>1 DEF JobType
  <2>3. \A a : /\ Remembers([k EXCEPT !.active = a], job[h])
               /\ Remembers([k EXCEPT !.run = a], job[h])
    BY <2>1, <2>2 DEF Remembers
  <2> QED BY <2>1, <2>3 DEF k
<1>6. CASE InvalidTransition(h) \/ StaleState(h) \/ CreateConflict(h)
  <2>1. job' = [job EXCEPT ![h] = Failed(@)]
    BY <1>6 DEF InvalidTransition, StaleState, CreateConflict
  <2> QED BY <1>3, <1>4, <1>5, <2>1
<1>7. CASE TransitionCommit(h) \/ WriteStatus(h)
  <2>1. job' = [job EXCEPT ![h] = Advance(@)] /\ job[h].plan # <<>>
    BY <1>7 DEF TransitionCommit, WriteStatus, At
  <2> QED BY <1>3, <1>4, <1>5, <2>1
<1>8. CASE CountActive(h)
  <2>1. /\ \E a : job' = [job EXCEPT ![h] = [Advance(@) EXCEPT !.active = a]]
        /\ job[h].plan # <<>>
    BY <1>8 DEF CountActive, At
  <2> QED BY <1>4, <1>5, <2>1
<1>9. CASE CreateRun(h)
  <2>1. /\ \E a : job' = [job EXCEPT ![h] = [Advance(@) EXCEPT !.run = a]]
        /\ job[h].plan # <<>>
    BY <1>9 DEF CreateRun, At
  <2> QED BY <1>4, <1>5, <2>1
<1>10. CASE ExpectState(h)
  <2>1. /\ \/ job' = [job EXCEPT ![h] = Advance(@)]
           \/ job' = [job EXCEPT ![h] = GivenUp(@)]
        /\ job[h].plan # <<>>
    BY <1>10 DEF ExpectState, At, GivenUp
  <2> QED BY <1>3, <1>4, <1>5, <2>1
<1>11. CASE TransitionRead(h)
  <2>1. job'[h].saw = job[h].saw
    BY <1>1, <1>11 DEF TransitionRead, JobType
  <2> QED BY <2>1 DEF Remembers
<1>12. CASE NextItem(h)
  <2>1. PICK item \in job[h].batch :
          job' = [job EXCEPT ![h].run = item.run, ![h].plan = item.plan,
                             ![h].batch = @ \ {item}]
    BY <1>12, Zenon DEF NextItem
  <2>2. job'[h].saw = job[h].saw
    BY <1>1, <2>1 DEF JobType
  <2> QED BY <2>2 DEF Remembers
<1>13. CASE KillFinish(h)
  <2>1. job'[h] = Idle
    BY <1>1, <1>13 DEF KillFinish
  <2> QED BY <2>1 DEF Idle, Job, Remembers
<1> QED BY <1>6, <1>7, <1>8, <1>9, <1>10, <1>11, <1>12, <1>13
     DEF HandlerStep, Step

\* Handlers write no version but by a commit, and are no fault.
LEMMA HandlerWrites ==
  ASSUME NEW h \in Handlers, HandlerStep(h)
  PROVE  /\ UNCHANGED version \/ TransitionCommit(h)
         /\ UNCHANGED faults
<1>1. CASE TransitionCommit(h)
  BY <1>1 DEF TransitionCommit, fleet
<1>2. CASE TransitionRead(h) \/ NextItem(h)
  BY <1>2, Zenon DEF TransitionRead, NextItem, row, fleet
<1>3. CASE InvalidTransition(h) \/ StaleState(h) \/ ExpectState(h) \/ CountActive(h)
  BY <1>3 DEF InvalidTransition, StaleState, ExpectState, CountActive, row, fleet
<1>4. CASE WriteStatus(h) \/ CreateRun(h) \/ CreateConflict(h) \/ KillFinish(h)
  BY <1>4 DEF WriteStatus, CreateRun, CreateConflict, KillFinish, row, fleet
<1> QED BY <1>1, <1>2, <1>3, <1>4 DEF HandlerStep, Step

\* A step of one job leaves the others alone.
LEMMA OneJobSteps ==
  ASSUME IInv, NEW p \in Jobs, NEW h \in Jobs, h # p,
         Request(p) \/ HandlerStep(p) \/ PollStep(p) \/ ApiCrash(p) \/ DatabaseError(p)
  PROVE  job'[h] = job[h]
<1>1. job \in [Jobs -> JobType]
  BY DEF IInv, TypeOK
<1>2. ASSUME NEW j, job' = [job EXCEPT ![p] = j] PROVE job'[h] = job[h]
  BY <1>1, <1>2
<1>3. CASE Request(p)
  BY <1>2, <1>3 DEF Request, StartRun, Kill, StopRequest, PatchState, StopAll, Reconcile
<1>4. CASE Step(p)
  <2>1. CASE NextItem(p)
    <3>1. PICK item \in job[p].batch :
            job' = [job EXCEPT ![p].run = item.run, ![p].plan = item.plan,
                               ![p].batch = @ \ {item}]
      BY <2>1, Zenon DEF NextItem
    <3> QED BY <1>1, <3>1
  <2>2. CASE TransitionRead(p)
    BY <1>1, <2>2 DEF TransitionRead
  <2>3. CASE InvalidTransition(p) \/ StaleState(p) \/ TransitionCommit(p)
    BY <1>2, <2>3 DEF InvalidTransition, StaleState, TransitionCommit
  <2>4. CASE ExpectState(p) \/ CountActive(p) \/ WriteStatus(p)
    BY <1>2, <2>4 DEF ExpectState, CountActive, WriteStatus
  <2> QED BY <1>4, <2>1, <2>2, <2>3, <2>4 DEF Step
<1>5. CASE CreateRun(p) \/ CreateConflict(p) \/ KillFinish(p)
  BY <1>2, <1>5 DEF CreateRun, CreateConflict, KillFinish
<1>6. CASE TakeLease(p) \/ RenewLeases(p) \/ PollEnd(p)
  BY <1>2, <1>6 DEF TakeLease, RenewLeases, PollEnd
<1>7. ASSUME NEW prev, NEW stage, NEW found, NEW Plan(_),
             Enter(p, prev, stage, found, Plan)
      PROVE  job'[h] = job[h]
  BY <1>2, <1>7 DEF Enter
<1>8. CASE ActivateRuns(p) \/ StopRuns(p) \/ TimeoutEphemeral(p)
  BY <1>2, <1>8 DEF ActivateRuns, StopRuns, TimeoutEphemeral, Enter
<1>9. CASE TimeoutRunning(p) \/ EnforceGuards(p)
  BY <1>2, <1>9 DEF TimeoutRunning, EnforceGuards, Enter
<1>10. CASE ApiCrash(p) \/ DatabaseError(p)
  BY <1>2, <1>10 DEF ApiCrash, DatabaseError
<1> QED BY <1>3, <1>4, <1>5, <1>6, <1>8, <1>9, <1>10 DEF HandlerStep, PollStep

\* What is no step of the handler leaves its job alone, or is a fault and ends
\* no more than the row at hand.
LEMMA OthersLeave ==
  ASSUME IInv, [Next]_vars, NEW h \in Handlers, ~Request(h), ~HandlerStep(h)
  PROVE  /\ Remembers(job'[h], job[h])
         /\ faults' = 0 => job'[h] = job[h]
<1>0. /\ h \in Jobs /\ h \notin Pollers
      /\ \A g \in Handlers : g \in Jobs
      /\ \A p \in Pollers : p \in Jobs
  BY RunConstants DEF Jobs
<1>1. job[h] \in JobType /\ job \in [Jobs -> JobType] /\ faults \in Nat
  BY <1>0, JobFacts DEF IInv, TypeOK
<1>2. job'[h] = job[h] => Remembers(job'[h], job[h])
  BY DEF Remembers
<1>3. ASSUME NEW p \in Jobs, p # h,
             Request(p) \/ HandlerStep(p) \/ PollStep(p) \/ ApiCrash(p) \/ DatabaseError(p)
      PROVE  job'[h] = job[h]
  BY <1>0, <1>3, OneJobSteps
<1>4. Fault => faults' # 0
  BY <1>1 DEF Fault
<1>5. CASE ApiCrash(h)
  <2>1. job'[h] = Idle
    BY <1>0, <1>1, <1>5 DEF ApiCrash
  <2>2. Remembers(job'[h], job[h])
    BY <2>1 DEF Idle, Job, Remembers
  <2> QED BY <1>4, <1>5, <2>2 DEF ApiCrash
<1>6. CASE DatabaseError(h)
  <2>1. job'[h] = Swallowed(job[h]) \/ job'[h] = Failed(job[h])
    BY <1>0, <1>1, <1>6 DEF DatabaseError, Swallowed
  <2>2. Remembers(job'[h], job[h])
    BY <1>1, <2>1, SettleRemembers
  <2> QED BY <1>4, <1>6, <2>2 DEF DatabaseError
<1>7. ASSUME NEW w \in Workers, WorkerCrash(w) \/ ReleaseOwnedLeases(w)
      PROVE  job'[h] = job[h]
  BY <1>0, <1>7 DEF WorkerCrash, ReleaseOwnedLeases, WorkerStops
<1>8. ASSUME NEW w \in Workers,
             \/ WorkerStart(w) \/ ReclaimOrphanedLeases(w)
             \/ \E r \in Runs : Heartbeat(r, w)
      PROVE  job'[h] = job[h]
  BY <1>8 DEF WorkerStart, ReclaimOrphanedLeases, Heartbeat
<1>9. ASSUME NEW r \in Runs, Time(r) PROVE job'[h] = job[h]
  BY <1>9 DEF Time, RowAges, DurationElapses, LeaseAges
<1>10. CASE UNCHANGED vars
  BY <1>2, <1>10 DEF vars
<1> QED BY <1>0, <1>2, <1>3, <1>5, <1>6, <1>7, <1>8, <1>9, <1>10 DEF Next

LEMMA FaultsCount ==
  ASSUME [Next]_vars
  PROVE  UNCHANGED faults \/ Fault
<1>1. ASSUME NEW p \in Jobs, Step(p) PROVE UNCHANGED faults
  BY <1>1, Zenon DEF Step, TransitionRead, InvalidTransition, StaleState,
     TransitionCommit, ExpectState, CountActive, WriteStatus, NextItem, fleet
<1>2. ASSUME NEW h \in Handlers, Request(h) PROVE UNCHANGED faults
  BY <1>2 DEF Request, StartRun, Kill, StopRequest, PatchState, StopAll,
              Reconcile, Begin, fleet
<1>3. ASSUME NEW h \in Handlers, HandlerStep(h) PROVE UNCHANGED faults
  BY <1>3, HandlerWrites
<1>4. ASSUME NEW p \in Pollers, PollStep(p) PROVE UNCHANGED faults
  BY <1>1, <1>4 DEF PollStep, TakeLease, ActivateRuns, StopRuns, Jobs,
       TimeoutEphemeral, TimeoutRunning, RenewLeases, EnforceGuards, PollEnd, fleet
<1>5. ASSUME NEW p \in Jobs, DatabaseError(p) \/ ApiCrash(p) PROVE Fault
  BY <1>5 DEF DatabaseError, ApiCrash
<1>6. ASSUME NEW w \in Workers,
             \/ WorkerCrash(w) \/ ReleaseOwnedLeases(w) \/ WorkerStart(w)
             \/ ReclaimOrphanedLeases(w) \/ \E r \in Runs : Heartbeat(r, w)
      PROVE  UNCHANGED faults \/ Fault
  BY <1>6 DEF WorkerCrash, ReleaseOwnedLeases, WorkerStops, WorkerStart,
              ReclaimOrphanedLeases, Heartbeat, fleet
<1>7. ASSUME NEW r \in Runs, Time(r) PROVE UNCHANGED faults
  BY <1>7 DEF Time, RowAges, DurationElapses, LeaseAges, fleet
<1>8. CASE UNCHANGED vars
  BY <1>8 DEF vars, fleet
<1>9. \A h \in Handlers : h \in Jobs
  BY DEF Jobs
<1> QED BY <1>2, <1>3, <1>4, <1>5, <1>6, <1>7, <1>8, <1>9 DEF Next

\* One step keeps the promise to stop what was found RUNNING.
LEMMA StopStep ==
  ASSUME IInv, StopIInv, [Next]_vars, NEW h \in Handlers, NEW r \in Runs,
         <<r, "RUNNING">> \in job[h].saw, state'[r] = "RUNNING", faults' = 0
  PROVE  StillToStop(job[h], r)'
<1>1. faults \in Nat /\ faults = 0
  <2>1. UNCHANGED faults \/ Fault
    BY FaultsCount
  <2> QED BY <2>1 DEF Fault, IInv, TypeOK
<1>2. /\ state[r] = "RUNNING" /\ version'[r] = version[r]
      /\ StillToStop(job[h], r)
  BY <1>1, NeverBack DEF StopIInv, StopsWhatItSaw
<1>3. CASE HandlerStep(h)
  BY <1>2, <1>3, OwnStep, HandlerWrites
<1>4. ~Request(h)
  <2>1. Request(h) => job[h] = Idle
    BY DEF Request, StartRun, Kill, StopRequest, PatchState, StopAll, Reconcile,
       Begin
  <2>2. Idle.saw = {}
    BY DEF Idle, Job
  <2> QED BY <2>1, <2>2
<1>5. CASE ~HandlerStep(h)
  <2>1. job'[h] = job[h]
    BY <1>4, <1>5, OthersLeave
  <2> QED BY <1>2, <2>1 DEF StillToStop
<1> QED BY <1>3, <1>5

LEMMA StopInv == IInv /\ StopIInv /\ [Next]_vars => StopIInv'
<1> SUFFICES ASSUME IInv, StopIInv, [Next]_vars, NEW h \in Handlers
             PROVE  StopsWhatItSaw(job[h])'
  BY DEF StopIInv
<1>1. CASE Request(h)
  BY <1>1, RequestStops
<1>2. CASE ~Request(h)
  <2>1. Remembers(job'[h], job[h])
    BY <1>2, HandlerRemembers, OthersLeave
  <2> SUFFICES ASSUME NEW r \in Runs, <<r, "RUNNING">> \in job'[h].saw
               PROVE  /\ state'[r] \in {"RUNNING"} \cup PastRunning
                      /\ state'[r] = "RUNNING" /\ faults' = 0
                         => StillToStop(job[h], r)'
    BY DEF StopsWhatItSaw
  <2>2. <<r, "RUNNING">> \in job[h].saw
    BY <2>1 DEF Remembers
  <2>3. state[r] \in {"RUNNING"} \cup PastRunning
    BY <2>2 DEF StopIInv, StopsWhatItSaw
  <2> QED BY <2>2, <2>3, NeverBack, StopStep
<1> QED BY <1>1, <1>2

\* A stop, stop-all or kill that runs to its end without a fault leaves no run
\* RUNNING that it found RUNNING, whatever other requests and polls do to the
\* rows meanwhile and however often the job's own steps are refused.
THEOREM StopsEnd == Spec => StopEndsRunning
<1>1. Init => StopIInv
  BY DEF Init, StopIInv, StopsWhatItSaw, Idle, Job, Jobs
<1>2. IInv /\ StopIInv /\ [Next]_vars =>
        [\A h \in Handlers : job'[h] = Idle /\ faults' = 0 =>
           \A r \in Runs : <<r, "RUNNING">> \in job[h].saw => state'[r] # "RUNNING"]_vars
  <2> SUFFICES ASSUME IInv, StopIInv, [Next]_vars,
                      NEW h \in Handlers, job'[h] = Idle, faults' = 0,
                      NEW r \in Runs, <<r, "RUNNING">> \in job[h].saw,
                      state'[r] = "RUNNING"
               PROVE  FALSE
    OBVIOUS
  <2>1. StillToStop(job[h], r)'
    BY StopStep
  <2>2. Idle.batch = {} /\ Idle.plan = <<>>
    BY DEF Idle, Job
  <2> QED BY <2>1, <2>2, StopRunningPlan DEF StillToStop, StopRunning
<1> QED BY <1>1, <1>2, StopInv, InductiveInvariant, PTL DEF Spec, StopEndsRunning
=============================================================================
