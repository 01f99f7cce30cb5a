-------------------------------- MODULE LabJobs --------------------------------
(* Backtests, sweeps and walk-forward runs (routes/lab.ts): a request counts   *)
(* the workspace's active jobs, inserts a PENDING row and starts an async       *)
(* runner that nobody awaits.  A runner lives in the API process: when it dies  *)
(* the row stays as it was.                                                    *)
EXTENDS Integers, Sequences, FiniteSets

CONSTANTS Posts,            \* requests that can be served at once
          Jobs,             \* rows that can be created
          RunCount,         \* combinations of a sweep, folds of a walk-forward
          Scores,           \* the metric of a combination; Null of a failed one
          Null,             \* sorts below every score
          MaxThrows,        \* bound: jobs that have thrown
          MaxFaults         \* bound: crashes, and catches that cannot write

VARIABLES
  job,      \* row -> kind, status, progress, results, best
  runner,   \* row -> where its async runner is
  writes,   \* row -> progress writes of a walk-forward not landed yet
  request,  \* POST -> what it is about to do
  rush,     \* two guarded requests overlapped (history)
  faults

vars == <<job, runner, writes, request, rush, faults>>

Kinds == {"backtest", "sweep", "walkForward"}
Score == Scores \cup {Null}
NoJob == [kind |-> "none", status |-> "none", progress |-> 0, results |-> <<>>,
          best |-> 0]
Free == {j \in Jobs : job[j] = NoJob}
Active(kind) == {j \in Jobs : job[j].kind = kind /\ job[j].status \in {"PENDING", "RUNNING"}}
Guarded == {"guardSweep", "guardWf", "sweep", "walkForward"}

Init ==
  /\ job = [j \in Jobs |-> NoJob]
  /\ runner = [j \in Jobs |-> "none"]
  /\ writes = [j \in Jobs |-> {}]
  /\ request = [h \in Posts |-> "idle"]
  /\ rush = FALSE /\ faults = 0

-----------------------------------------------------------------------------
(* The requests                                                              *)

Goto(h, pc) == request' = [request EXCEPT ![h] = pc]
Others(h) == \E k \in Posts \ {h} : request[k] \in Guarded

\* A valid POST: a backtest is not guarded.
PostJob(h, kind) ==
  /\ request[h] = "idle" /\ Free # {}
  /\ Goto(h, CASE kind = "backtest" -> "backtest"
               [] kind = "sweep" -> "guardSweep"
               [] OTHER -> "guardWf")
  /\ rush' = (rush \/ (kind # "backtest" /\ Others(h)))
  /\ UNCHANGED <<job, runner, writes, faults>>

GuardSweepLoose(h) ==    \* mutant: one more sweep than allowed
  /\ request[h] = "guardSweep"
  /\ Goto(h, IF Cardinality(Active("sweep")) > 2 THEN "idle" ELSE "sweep")
  /\ UNCHANGED <<job, runner, writes, rush, faults>>

\* The guard of a sweep counts sweeps only: 429 from the third on.
GuardSweep(h) ==
  /\ request[h] = "guardSweep"
  /\ Goto(h, IF Cardinality(Active("sweep")) >= 2 THEN "idle" ELSE "sweep")
  /\ UNCHANGED <<job, runner, writes, rush, faults>>

\* The guard of a walk-forward counts sweeps and walk-forwards.
GuardWalkForward(h) ==
  /\ request[h] = "guardWf"
  /\ Goto(h, IF Cardinality(Active("sweep")) + Cardinality(Active("walkForward")) >= 2
             THEN "idle" ELSE "walkForward")
  /\ UNCHANGED <<job, runner, writes, rush, faults>>

CreateJob(h) ==
  /\ request[h] \in Kinds /\ Free # {}
  /\ LET j == CHOOSE k \in Free : TRUE IN
       /\ job' = [job EXCEPT ![j].kind = request[h], ![j].status = "PENDING"]
       /\ runner' = [runner EXCEPT ![j] = "start"]
  /\ Goto(h, "idle")
  /\ UNCHANGED <<writes, rush, faults>>

-----------------------------------------------------------------------------
(* The runners                                                               *)

At(j, pc) == runner[j] = pc
Run(j, pc) == runner' = [runner EXCEPT ![j] = pc]

\* runBacktestAsync, runSweepAsync, runWalkForwardAsync: status RUNNING.
Start(j) ==
  /\ At(j, "start")
  /\ job' = [job EXCEPT ![j].status = "RUNNING"]
  /\ Run(j, IF job[j].kind = "sweep" THEN "combination" ELSE "run")
  /\ UNCHANGED <<writes, request, rush, faults>>

\* Anything inside the try that throws: a version, a dataset or candles that
\* are gone, a DSL or an indicator the engine refuses, a failed statement.
Throws(j) ==
  /\ runner[j] \in {"start", "combination", "run", "finish"}
  /\ Cardinality({k \in Jobs : At(k, "catch") \/ job[k].status = "FAILED"}) < MaxThrows
  /\ Run(j, "catch")
  /\ UNCHANGED <<job, writes, request, rush, faults>>

CatchSilently(j) ==     \* mutant: the error is logged, the row left
  /\ At(j, "catch") /\ Run(j, "none")
  /\ UNCHANGED <<job, writes, request, rush, faults>>

\* The catch; its own error is swallowed and the row stays.
Catch(j) ==
  /\ At(j, "catch") /\ Run(j, "none")
  /\ \/ job' = [job EXCEPT ![j].status = "FAILED"] /\ UNCHANGED faults
     \/ faults < MaxFaults /\ faults' = faults + 1 /\ UNCHANGED job
  /\ UNCHANGED <<writes, request, rush>>

\* A sweep runs its combinations one by one, each with a backtest row of its
\* own, and saves the results so far.  One that throws counts as zeros with
\* null ratios.
Combination(j) ==
  /\ At(j, "combination") /\ Len(job[j].results) < RunCount
  /\ \E s \in Score :
       job' = [job EXCEPT ![j].results = Append(@, s),
                          ![j].progress = Len(job[j].results) + 1]
  /\ UNCHANGED <<runner, writes, request, rush, faults>>

\* compareByMetric over the rows: a strict comparison, so the first row wins.
Above(a, b) == a # Null /\ IF b = Null THEN TRUE ELSE a > b
Best(results) ==
  LET best[n \in 0..Len(results)] ==
        IF n <= 1 THEN n
        ELSE IF Above(results[n], results[best[n-1]]) THEN n ELSE best[n-1]
  IN best[Len(results)]

FinishSweep(j) ==
  /\ At(j, "combination") /\ Len(job[j].results) = RunCount
  /\ job' = [job EXCEPT ![j].status = "DONE", ![j].best = Best(job[j].results)]
  /\ Run(j, "none")
  /\ UNCHANGED <<writes, request, rush, faults>>

\* A backtest and a walk-forward compute in one turn of the event loop; the
\* latter sends a progress write per fold that nobody awaits.
Compute(j) ==
  /\ At(j, "run")
  /\ writes' = [writes EXCEPT ![j] = IF job[j].kind = "walkForward"
                                     THEN 1..RunCount ELSE {}]
  /\ Run(j, "finish")
  /\ UNCHANGED <<job, request, rush, faults>>

Finish(j) ==
  /\ At(j, "finish")
  /\ job' = [job EXCEPT ![j].status = "DONE", ![j].progress = RunCount]
  /\ Run(j, "none")
  /\ UNCHANGED <<writes, request, rush, faults>>

\* The writes land in any order, also after the last one of Finish.
ProgressLands(j, done) ==
  /\ done \in writes[j]
  /\ job' = [job EXCEPT ![j].progress = done]
  /\ writes' = [writes EXCEPT ![j] = @ \ {done}]
  /\ UNCHANGED <<runner, request, rush, faults>>

ApiDies ==
  /\ faults < MaxFaults /\ faults' = faults + 1
  /\ runner' = [j \in Jobs |-> "none"] /\ writes' = [j \in Jobs |-> {}]
  /\ request' = [h \in Posts |-> "idle"]
  /\ UNCHANGED <<job, rush>>

-----------------------------------------------------------------------------
Runner(j) == \/ Start(j) \/ Catch(j) \/ Combination(j) \/ FinishSweep(j) \/ Compute(j) \/ Finish(j)

Next == \/ \E h \in Posts : \/ \E kind \in Kinds : PostJob(h, kind)
                            \/ GuardSweep(h) \/ GuardWalkForward(h) \/ CreateJob(h)
        \/ \E j \in Jobs : \/ Runner(j) \/ Throws(j)
                           \/ \E done \in writes[j] : ProgressLands(j, done)
        \/ ApiDies

Spec == Init /\ [][Next]_vars


-----------------------------------------------------------------------------
(* Properties                                                                *)

Statuses == {"none", "PENDING", "RUNNING", "DONE", "FAILED"}

TypeOK ==
  /\ \A j \in Jobs :
       /\ job[j].kind \in Kinds \cup {"none"} /\ job[j].status \in Statuses
       /\ job[j].progress \in 0..RunCount /\ job[j].best \in 0..RunCount
       /\ job[j].results \in Seq(Score)
  /\ runner \in [Jobs -> {"none", "start", "combination", "run",
                          "finish", "catch"}]
  /\ writes \in [Jobs -> SUBSET (1..RunCount)]
  /\ request \in [Posts -> Kinds \cup {"idle", "guardSweep", "guardWf"}]
  /\ rush \in BOOLEAN /\ faults \in 0..MaxFaults

\* Requests that do not overlap keep each kind of job to two, also when jobs of
\* a dead process keep their place for ever.
TwoOfAKind == ~rush => /\ Cardinality(Active("sweep")) <= 2
                       /\ Cardinality(Active("walkForward")) <= 2

\* A DONE sweep has run every combination, and names the first of the best.
SweepIsComplete ==
  \A j \in Jobs : job[j].kind = "sweep" /\ job[j].status = "DONE" =>
    /\ Len(job[j].results) = RunCount /\ job[j].progress = RunCount
    /\ \A n \in 1..RunCount :
         /\ ~Above(job[j].results[n], job[j].results[job[j].best])
         /\ n < job[j].best => Above(job[j].results[job[j].best], job[j].results[n])

\* A job that was accepted ends, also when it throws, unless the process dies
\* or the catch cannot write.
JobEnds ==
  \A j \in Jobs : job[j].status = "PENDING"
    ~> (job[j].status \in {"DONE", "FAILED"} \/ faults > 0)
==============================================================================
