----------------------------- MODULE RunLifecycle -----------------------------
(****************************************************************************)
(* BotRun rows and everyone who changes their state: the HTTP handlers of   *)
(* routes/runs.ts, lib/actions/runs.ts and POST /bots/:id/kill, and the     *)
(* polls of lib/botWorker.ts.  Each handler or poll is a job; between two   *)
(* database accesses of a job any other job may run.  transition() is two   *)
(* accesses: it reads the row and validates, and later commits only if the  *)
(* version it read is still there.                                          *)
(*                                                                          *)
(* A job works off a plan, the database accesses left for the run at hand,  *)
(* and a batch, the rows its findMany returned that still have to be done.  *)
(****************************************************************************)
EXTENDS RunStates, Sequences, FiniteSets, Naturals

CONSTANTS
  Runs,        \* BotRun ids that may be inserted
  Bots,
  BotOf,       \* the bot each row is inserted for
  SymbolOf,    \* Bot.symbol; one workspace
  Handlers,    \* HTTP requests in flight at one time
  Pollers,     \* polls in flight at one time
  Workers,     \* worker processes (leaseOwner values)
  WorkerOf,    \* the process that runs a poll
  Requests,    \* the kinds of request clients send
  PatchTargets,\* the states PATCH /runs/:id/state is asked for
  TimeoutTake, \* the `take` of the RUNNING query of timeoutExpiredRuns
  Clocks,      \* which of "age", "duration" and "lease" run in the instance
  MaxFaults,   \* bound on crashes and database errors
  NoRun, NoBot, NoWorker

ASSUME RunConstants ==
  /\ NoRun \notin Runs /\ NoBot \notin Bots /\ NoWorker \notin Workers
  /\ BotOf \in [Runs -> Bots] /\ WorkerOf \in [Pollers -> Workers]
  /\ Handlers \cap Pollers = {}
  /\ PatchTargets \subseteq RunState
  /\ TimeoutTake \in Nat /\ MaxFaults \in Nat

Jobs == Handlers \cup Pollers

VARIABLES
  state, version, log,         \* BotRun.state, .version and its BotEvents
  leaseOwner, leaseAge,        \* BotRun.leaseOwner, leaseUntil against now
  age,                         \* updatedAt: 0, 1: over 60 s, 2: over 5 min old
  overdue,                     \* startedAt is longer ago than the duration
  status,                      \* Bot.status
  job,                         \* the local state of each handler and poll
  up,                          \* the worker processes that are alive
  faults                       \* crashes and database errors so far

row  == <<state, version, log>>
lease == <<leaseOwner, leaseAge>>
clock == <<age, overdue>>
fleet == <<up, faults>>
vars == <<row, lease, clock, status, job, fleet>>

Symbol(r) == SymbolOf[BotOf[r]]
InState(S) == {r \in Runs : state[r] \in S}

-----------------------------------------------------------------------------
(* Plans: what each handler does, one entry per database access.            *)

Tx(s)     == [do |-> "transition", to |-> s]
Expect(s) == [do |-> "expect", to |-> s]
Do(what)  == [do |-> what, to |-> NoRow]

Steps == [do : {"transition", "expect", "create", "lease", "count", "status"},
          to : RunState \cup {NoRow}]

SyncBotStatus == <<Do("count"), Do("status")>>

ActivatePlan ==
  <<Tx("STARTING"), Expect("STARTING"), Tx("SYNCING"), Expect("SYNCING"),
    Tx("RUNNING"), Do("lease")>> \o SyncBotStatus

StopPlanWithoutStopping(s) == <<Tx("STOPPED")>>    \* mutant

StopPlan(s) == IF IsValidTransition(s, "STOPPING")
               THEN <<Tx("STOPPING"), Tx("STOPPED")>>
               ELSE <<Tx("STOPPED")>>

StopRunPlan == <<Expect("STOPPING"), Tx("STOPPED")>> \o SyncBotStatus

TimeoutPlan(s) == <<Tx(s)>> \o SyncBotStatus

Snapshot(S) == {<<r, state[r]>> : r \in S}

Items(S, Plan(_)) == {[run |-> r, plan |-> Plan(r)] : r \in S}

-----------------------------------------------------------------------------
(* Jobs                                                                      *)

HandlerOps == {"start", "stop", "stopAll", "kill", "patch", "reconcile"}
PollOps == {"activateRuns", "stopRuns", "timeoutEphemeral", "timeoutRunning",
            "renewLeases", "enforceGuards"}

\* A job that has read no version yet; saw is what its first query returned.
Job(op, b, r, plan, batch, saw) ==
  [op |-> op, bot |-> b, run |-> r, plan |-> plan, batch |-> batch,
   seen |-> NoRow, ver |-> 0, active |-> FALSE, saw |-> saw]

Idle == Job("idle", NoBot, NoRun, <<>>, {}, {})

\* The plan of one run is over: an HTTP job without further rows responds.
Settle(j) ==
  CASE j.plan # <<>> -> j
    [] j.plan = <<>> /\ j.batch = {} /\ j.op \in HandlerOps \ {"kill"} -> Idle
    [] OTHER -> [j EXCEPT !.run = NoRun]

Advance(j) == Settle([j EXCEPT !.plan = Tail(@), !.seen = NoRow, !.ver = 0,
                               !.active = FALSE])

\* A step threw. activateRun catches and tries RUN_FAILED; every other caller
\* logs, collects or returns the error and leaves the rest of the plan undone.
Failed(j) ==
  Settle([j EXCEPT !.plan = IF j.op = "activateRuns" /\ Head(@) # Tx("FAILED")
                            THEN <<Tx("FAILED")>> ELSE <<>>,
                   !.seen = NoRow, !.ver = 0, !.active = FALSE])

At(p, what) == job[p].plan # <<>> /\ Head(job[p].plan).do = what
Run(p) == job[p].run
Target(p) == Head(job[p].plan).to
Done(p) == job[p].plan = <<>> /\ job[p].batch = {}

Init ==
  /\ state = [r \in Runs |-> NoRow]
  /\ version = [r \in Runs |-> 0]
  /\ log = [r \in Runs |-> <<>>]
  /\ leaseOwner = [r \in Runs |-> NoWorker]
  /\ leaseAge = [r \in Runs |-> "none"]
  /\ age = [r \in Runs |-> 0]
  /\ overdue = [r \in Runs |-> FALSE]
  /\ status = [b \in Bots |-> "DRAFT"]
  /\ job = [p \in Jobs |-> Idle]
  /\ up = Workers
  /\ faults = 0

-----------------------------------------------------------------------------
(* transition(): lines 117-123 read and validate, 146-163 commit.            *)

TransitionReadUnvalidated(p) ==    \* mutant: isValidTransition not called
  /\ At(p, "transition") /\ job[p].seen = NoRow
  /\ job' = [job EXCEPT ![p].seen = state[Run(p)], ![p].ver = version[Run(p)]]
  /\ UNCHANGED <<row, lease, clock, status, fleet>>

TransitionRead(p) ==
  /\ At(p, "transition") /\ job[p].seen = NoRow
  /\ IsValidTransition(state[Run(p)], Target(p))
  /\ job' = [job EXCEPT ![p].seen = state[Run(p)], ![p].ver = version[Run(p)]]
  /\ UNCHANGED <<row, lease, clock, status, fleet>>

InvalidTransition(p) ==
  /\ At(p, "transition") /\ job[p].seen = NoRow
  /\ ~IsValidTransition(state[Run(p)], Target(p))
  /\ job' = [job EXCEPT ![p] = Failed(@)]
  /\ UNCHANGED <<row, lease, clock, status, fleet>>

VersionIgnored(p) == TRUE    \* mutant: updateMany({ where: { id } })

VersionMatches(p) == version[Run(p)] = job[p].ver

TransitionCommit(p) ==
  /\ At(p, "transition") /\ job[p].seen # NoRow
  /\ VersionMatches(p)
  /\ state' = [state EXCEPT ![Run(p)] = Target(p)]
  /\ version' = [version EXCEPT ![Run(p)] = job[p].ver + 1]
  /\ log' = [log EXCEPT ![Run(p)] = Append(@, <<job[p].seen, Target(p)>>)]
  /\ age' = [age EXCEPT ![Run(p)] = 0]
  /\ job' = [job EXCEPT ![p] = Advance(@)]
  /\ UNCHANGED <<lease, overdue, status, fleet>>

StaleState(p) ==
  /\ At(p, "transition") /\ job[p].seen # NoRow
  /\ ~VersionMatches(p)
  /\ job' = [job EXCEPT ![p] = Failed(@)]
  /\ UNCHANGED <<row, lease, clock, status, fleet>>

-----------------------------------------------------------------------------
(* The other accesses a plan is made of                                      *)

\* activateRun and stopRun read the row again and return when it moved on.
ExpectState(p) ==
  /\ At(p, "expect")
  /\ job' = [job EXCEPT ![p] =
               IF state[Run(p)] = Target(p) THEN Advance(@)
               ELSE Settle([@ EXCEPT !.plan = <<>>])]
  /\ UNCHANGED <<row, lease, clock, status, fleet>>

TakeLease(p) ==
  /\ At(p, "lease")
  /\ leaseOwner' = [leaseOwner EXCEPT ![Run(p)] = WorkerOf[p]]
  /\ leaseAge' = [leaseAge EXCEPT ![Run(p)] = "live"]
  /\ age' = [age EXCEPT ![Run(p)] = 0]
  /\ job' = [job EXCEPT ![p] = Advance(@)]
  /\ UNCHANGED <<row, overdue, status, fleet>>

HasActiveRun(b) == \E r \in InState(ActiveStates) : BotOf[r] = b

\* syncBotStatus counts first and writes what it counted afterwards.
CountActive(p) ==
  /\ At(p, "count")
  /\ job' = [job EXCEPT ![p] =
               [Advance(@) EXCEPT !.active = HasActiveRun(BotOf[Run(p)])]]
  /\ UNCHANGED <<row, lease, clock, status, fleet>>

WriteStatus(p) ==
  /\ At(p, "status")
  /\ status' = [status EXCEPT ![BotOf[Run(p)]] =
                  IF job[p].active THEN "ACTIVE" ELSE "DRAFT"]
  /\ job' = [job EXCEPT ![p] = Advance(@)]
  /\ UNCHANGED <<row, lease, clock, fleet>>

NextItem(p) ==
  /\ job[p].plan = <<>>
  /\ \E item \in job[p].batch :
       job' = [job EXCEPT ![p].run = item.run, ![p].plan = item.plan,
                          ![p].batch = @ \ {item}]
  /\ UNCHANGED <<row, lease, clock, status, fleet>>

-----------------------------------------------------------------------------
(* HTTP requests                                                             *)

Begin(h, kind) == /\ kind \in Requests /\ job[h] = Idle
                  /\ UNCHANGED <<row, lease, clock, status, fleet>>

\* POST /bots/:botId/runs: the active-run check, then the insert, then QUEUED.
StartRun(h, b) ==
  /\ Begin(h, "start")
  /\ ~HasActiveRun(b)
  /\ job' = [job EXCEPT ![h] = Job("start", b, NoRun,
               <<Do("create"), Tx("QUEUED")>>, {}, {})]

IndexTakenByBot(b) == HasActiveRun(b)    \* mutant: index on (workspace, bot)

IndexTaken(b) == \E r \in InState(IndexedStates) : Symbol(r) = SymbolOf[b]

CreateRun(h) ==
  /\ At(h, "create") /\ ~IndexTaken(job[h].bot)
  /\ \E r \in Runs :
       /\ state[r] = NoRow /\ BotOf[r] = job[h].bot
       /\ state' = [state EXCEPT ![r] = "CREATED"]
       /\ log' = [log EXCEPT ![r] = Append(@, <<NoRow, "CREATED">>)]
       /\ job' = [job EXCEPT ![h] = [Advance(@) EXCEPT !.run = r]]
  /\ UNCHANGED <<version, lease, clock, status, fleet>>

\* P2002 from the partial unique index: 409 ActiveRunExists.
CreateConflict(h) ==
  /\ At(h, "create") /\ IndexTaken(job[h].bot)
  /\ job' = [job EXCEPT ![h] = Failed(@)]
  /\ UNCHANGED <<row, lease, clock, status, fleet>>

StopRequest(h, r) ==
  /\ Begin(h, "stop")
  /\ state[r] \in ActiveStates
  /\ job' = [job EXCEPT ![h] = Job("stop", NoBot, r, StopPlan(state[r]), {},
                                   Snapshot({r}))]

StopEach(r) == StopPlan(state[r])

StopAll(h) ==
  /\ Begin(h, "stopAll")
  /\ LET found == InState(ActiveStates \ {"CREATED"}) IN
       /\ found # {}
       /\ job' = [job EXCEPT ![h] = Job("stopAll", NoBot, NoRun, <<>>,
                                        Items(found, StopEach), Snapshot(found))]

\* POST /bots/:id/kill
Kill(h, b) ==
  /\ Begin(h, "kill")
  /\ LET found == {r \in InState(ActiveStates) : BotOf[r] = b} IN
       job' = [job EXCEPT ![h] = Job("kill", b, NoRun, <<>>,
                                     Items(found, StopEach), Snapshot(found))]

KillFinishStopped(h) ==    \* mutant: a run state written to Bot.status
  /\ job[h].op = "kill" /\ Done(h)
  /\ status' = [status EXCEPT ![job[h].bot] = "STOPPED"]
  /\ job' = [job EXCEPT ![h] = Idle]
  /\ UNCHANGED <<row, lease, clock, fleet>>

KillFinish(h) ==
  /\ job[h].op = "kill" /\ Done(h)
  /\ status' = [status EXCEPT ![job[h].bot] = "DRAFT"]
  /\ job' = [job EXCEPT ![h] = Idle]
  /\ UNCHANGED <<row, lease, clock, fleet>>

PatchState(h, r, to) ==
  /\ Begin(h, "patch")
  /\ state[r] # NoRow
  /\ job' = [job EXCEPT ![h] = Job("patch", NoBot, r, <<Tx(to)>>, {}, {})]

LeaseIsStale(r) == \/ leaseAge[r] \in {"expired", "orphaned"}
                   \/ leaseAge[r] = "none" /\ age[r] >= 1

FailStale(r) == <<Tx("FAILED")>>

Reconcile(h) ==
  /\ Begin(h, "reconcile")
  /\ LET found == {r \in InState(ActiveStates \ {"CREATED", "QUEUED"}) :
                     LeaseIsStale(r)} IN
       /\ found # {}
       /\ job' = [job EXCEPT ![h] = Job("reconcile", NoBot, NoRun, <<>>,
                                        Items(found, FailStale), {})]

Heartbeat(r, w) ==
  /\ "heartbeat" \in Requests
  /\ state[r] \in ActiveStates
  /\ leaseOwner' = [leaseOwner EXCEPT ![r] = w]
  /\ leaseAge' = [leaseAge EXCEPT ![r] = "live"]
  /\ age' = [age EXCEPT ![r] = 0]
  /\ UNCHANGED <<row, overdue, status, job, fleet>>

-----------------------------------------------------------------------------
(* A poll: its stages run in this order, each over the rows it finds.        *)

Enter(p, previous, stage, found, Plan(_)) ==
  /\ job[p].op = previous /\ Done(p)
  /\ job' = [job EXCEPT ![p] = Job(stage, NoBot, NoRun, <<>>,
                                   Items(found, Plan), {})]

Activate(r) == ActivatePlan
FinishStop(r) == StopRunPlan
FailStuck(r) == TimeoutPlan("FAILED")

TimeOut(r) == TimeoutPlan("TIMED_OUT")
GuardStop(r) == <<Tx("STOPPING")>>

ActivateRuns(p) ==
  /\ WorkerOf[p] \in up
  /\ Enter(p, "idle", "activateRuns", InState({"QUEUED"}), Activate)
  /\ UNCHANGED <<row, lease, clock, status, fleet>>

StopRuns(p) ==
  /\ Enter(p, "activateRuns", "stopRuns", InState({"STOPPING"}), FinishStop)
  /\ UNCHANGED <<row, lease, clock, status, fleet>>

TimeoutSyncingOnly(p) ==    \* mutant: STARTING forgotten
  /\ Enter(p, "stopRuns", "timeoutEphemeral",
           {r \in InState({"SYNCING"}) : age[r] = 2}, FailStuck)
  /\ UNCHANGED <<row, lease, clock, status, fleet>>

TimeoutEphemeral(p) ==
  /\ Enter(p, "stopRuns", "timeoutEphemeral",
           {r \in InState({"STARTING", "SYNCING"}) : age[r] = 2}, FailStuck)
  /\ UNCHANGED <<row, lease, clock, status, fleet>>

\* findMany with `take` and no orderBy: any TimeoutTake of the RUNNING rows.
Taken(S) == {C \in SUBSET S : \/ Cardinality(C) = TimeoutTake
                              \/ C = S /\ Cardinality(S) < TimeoutTake}

TimeoutRunning(p) ==
  /\ \E candidates \in Taken(InState({"RUNNING"})) :
       Enter(p, "timeoutEphemeral", "timeoutRunning",
             {r \in candidates : overdue[r]}, TimeOut)
  /\ UNCHANGED <<row, lease, clock, status, fleet>>

OwnedBy(w) == {r \in InState({"RUNNING"}) : leaseOwner[r] = w}

RenewLeases(p) ==
  /\ job[p].op = "timeoutRunning" /\ Done(p)
  /\ LET mine == OwnedBy(WorkerOf[p]) IN
       /\ leaseAge' = [r \in Runs |-> IF r \in mine THEN "live" ELSE leaseAge[r]]
       /\ age' = [r \in Runs |-> IF r \in mine THEN 0 ELSE age[r]]
  /\ job' = [job EXCEPT ![p] = Job("renewLeases", NoBot, NoRun, <<>>, {}, {})]
  /\ UNCHANGED <<row, leaseOwner, overdue, status, fleet>>

\* enforceDailyLossLimit and enforceErrorPause: any RUNNING run may be in breach.
EnforceGuards(p) ==
  /\ \E breached \in SUBSET InState({"RUNNING"}) :
       Enter(p, "renewLeases", "enforceGuards", breached, GuardStop)
  /\ UNCHANGED <<row, lease, clock, status, fleet>>

PollEnd(p) ==
  /\ job[p].op = "enforceGuards" /\ Done(p)
  /\ job' = [job EXCEPT ![p] = Idle]
  /\ UNCHANGED <<row, lease, clock, status, fleet>>

-----------------------------------------------------------------------------
(* Leases outside the poll, time, and faults                                 *)

ReclaimOwnLeases(w) ==    \* mutant: the NOT of the owner filter is lost
  /\ w \in up
  /\ LET orphans == {r \in InState({"RUNNING"}) :
                       leaseAge[r] = "orphaned" /\ leaseOwner[r] = w} IN
       /\ orphans # {}
       /\ leaseOwner' = [r \in Runs |-> IF r \in orphans THEN w ELSE leaseOwner[r]]
       /\ leaseAge' = [r \in Runs |-> IF r \in orphans THEN "live" ELSE leaseAge[r]]
       /\ age' = [r \in Runs |-> IF r \in orphans THEN 0 ELSE age[r]]
  /\ UNCHANGED <<row, overdue, status, job, fleet>>

ReclaimOrphanedLeases(w) ==
  /\ w \in up
  /\ LET orphans == {r \in InState({"RUNNING"}) :
                       leaseAge[r] = "orphaned" /\ leaseOwner[r] # w} IN
       /\ orphans # {}
       /\ leaseOwner' = [r \in Runs |-> IF r \in orphans THEN w ELSE leaseOwner[r]]
       /\ leaseAge' = [r \in Runs |-> IF r \in orphans THEN "live" ELSE leaseAge[r]]
       /\ age' = [r \in Runs |-> IF r \in orphans THEN 0 ELSE age[r]]
  /\ UNCHANGED <<row, overdue, status, job, fleet>>

Fault == faults < MaxFaults /\ faults' = faults + 1

\* The process of worker w exits: its polls vanish. After a graceful shutdown
\* its leases are released (leaseUntil = now), after a crash they are not.
WorkerStops(w, released) ==
  /\ Fault /\ w \in up
  /\ up' = up \ {w}
  /\ job' = [p \in Jobs |-> IF p \in Pollers /\ WorkerOf[p] = w
                            THEN Idle ELSE job[p]]
  /\ leaseAge' = [r \in Runs |-> IF released /\ r \in OwnedBy(w)
                                 THEN "expired" ELSE leaseAge[r]]
  /\ age' = [r \in Runs |-> IF released /\ r \in OwnedBy(w) THEN 0 ELSE age[r]]
  /\ UNCHANGED <<row, leaseOwner, overdue, status>>

WorkerCrash(w) == WorkerStops(w, FALSE)
ReleaseOwnedLeases(w) == WorkerStops(w, TRUE)

\* systemd starts a process again; its id is another, or a pid used before.
WorkerStart(w) ==
  /\ w \notin up
  /\ up' = up \cup {w}
  /\ UNCHANGED <<row, lease, clock, status, job, faults>>

ApiCrash(h) ==
  /\ job[h] # Idle /\ Fault
  /\ job' = [job EXCEPT ![h] = Idle]
  /\ UNCHANGED <<row, lease, clock, status, up>>

\* Any access may throw; syncBotStatus swallows the error of its own two.
DatabaseError(p) ==
  /\ job[p].plan # <<>> /\ Fault
  /\ job' = [job EXCEPT ![p] =
       IF Head(@.plan).do \in {"count", "status"}
       THEN Settle([@ EXCEPT !.plan = <<>>, !.active = FALSE]) ELSE Failed(@)]
  /\ UNCHANGED <<row, lease, clock, status, up>>

RowAges(r) ==
  /\ "age" \in Clocks
  /\ state[r] \in ActiveStates /\ age[r] < 2
  /\ age' = [age EXCEPT ![r] = @ + 1]
  /\ UNCHANGED <<row, lease, overdue, status, job, fleet>>

DurationElapses(r) ==
  /\ "duration" \in Clocks
  /\ state[r] = "RUNNING" /\ ~overdue[r]
  /\ overdue' = [overdue EXCEPT ![r] = TRUE]
  /\ UNCHANGED <<row, lease, age, status, job, fleet>>

LeaseAges(r) ==
  /\ "lease" \in Clocks
  /\ state[r] \in ActiveStates /\ leaseAge[r] \in {"live", "expired"}
  /\ leaseAge' = [leaseAge EXCEPT ![r] =
                    IF @ = "live" THEN "expired" ELSE "orphaned"]
  /\ UNCHANGED <<row, leaseOwner, clock, status, job, fleet>>

-----------------------------------------------------------------------------
Step(p) == \/ TransitionRead(p) \/ InvalidTransition(p)
           \/ TransitionCommit(p) \/ StaleState(p)
           \/ ExpectState(p) \/ CountActive(p) \/ WriteStatus(p)
           \/ NextItem(p)

Request(h) == \/ \E b \in Bots : StartRun(h, b) \/ Kill(h, b)
              \/ \E r \in Runs : \/ StopRequest(h, r)
                                 \/ \E to \in PatchTargets : PatchState(h, r, to)
              \/ StopAll(h) \/ Reconcile(h)

HandlerStep(h) == Step(h) \/ CreateRun(h) \/ CreateConflict(h) \/ KillFinish(h)

PollStep(p) == \/ Step(p) \/ TakeLease(p)
               \/ ActivateRuns(p) \/ StopRuns(p) \/ TimeoutEphemeral(p)
               \/ TimeoutRunning(p) \/ RenewLeases(p) \/ EnforceGuards(p)
               \/ PollEnd(p)

Time(r) == RowAges(r) \/ DurationElapses(r) \/ LeaseAges(r)

Next == \/ \E h \in Handlers : Request(h) \/ HandlerStep(h) \/ ApiCrash(h)
        \/ \E p \in Pollers : PollStep(p)
        \/ \E p \in Jobs : DatabaseError(p)
        \/ \E w \in Workers : \/ WorkerCrash(w) \/ ReleaseOwnedLeases(w)
                              \/ WorkerStart(w)
                              \/ ReclaimOrphanedLeases(w)
                              \/ \E r \in Runs : Heartbeat(r, w)
        \/ \E r \in Runs : Time(r)

Spec == Init /\ [][Next]_vars

\* setInterval starts a poll every 4 s and a poll's awaits return; a request
\* once accepted is carried on; time passes; when no worker is left one is
\* started. Clients owe nothing, and a dead worker's id need not come back.
Fairness == /\ \A p \in Pollers : WF_vars(PollStep(p))
            /\ \A h \in Handlers : WF_vars(HandlerStep(h))
            /\ \A r \in Runs : WF_vars(RowAges(r)) /\ WF_vars(LeaseAges(r))
            /\ \A w \in Workers : WF_vars(ReclaimOrphanedLeases(w))
            /\ WF_vars(up = {} /\ \E w \in Workers : WorkerStart(w))

FairSpec == Spec /\ Fairness

-----------------------------------------------------------------------------
(* Properties                                                                *)

Item == [run : Runs, plan : Seq(Steps)]

JobType ==
  [op : {"idle"} \cup HandlerOps \cup PollOps, bot : Bots \cup {NoBot},
   run : Runs \cup {NoRun}, plan : Seq(Steps), batch : SUBSET Item,
   seen : RunState \cup {NoRow}, ver : Nat, active : BOOLEAN,
   saw : SUBSET (Runs \X RunState)]

\* Every row, event and job has the shape the schema and the handlers give it.
TypeOK ==
  /\ state \in [Runs -> RunState \cup {NoRow}]
  /\ version \in [Runs -> Nat]
  /\ log \in [Runs -> Seq((RunState \cup {NoRow}) \X RunState)]
  /\ leaseOwner \in [Runs -> Workers \cup {NoWorker}]
  /\ leaseAge \in [Runs -> {"none", "live", "expired", "orphaned"}]
  /\ age \in [Runs -> 0..2]
  /\ overdue \in [Runs -> BOOLEAN]
  /\ status \in [Bots -> {"ACTIVE", "DRAFT"}]
  /\ job \in [Jobs -> JobType]
  /\ up \subseteq Workers
  /\ faults \in Nat

\* The BotEvent log of a run is its history: it starts with the insert, each
\* event starts where the one before it ended, and the last one names the
\* state and the version the row has now. Two jobs that read the same row and
\* both committed would fork it.
EventLogChains ==
  \A r \in Runs : state[r] # NoRow =>
    /\ Len(log[r]) = version[r] + 1
    /\ log[r][1] = <<NoRow, "CREATED">>
    /\ log[r][Len(log[r])][2] = state[r]
    /\ \A i \in 1..(Len(log[r]) - 1) : /\ log[r][i][2] = log[r][i + 1][1]
                                       /\ log[r][i + 1] \in Transitions

\* The partial unique index holds of the table although only the insert meets
\* it: no transition, of any handler or poll, ever needs a second run of the
\* symbol to move into a state the index covers (an update that threw P2002
\* would be caught by nobody).
OneIndexedRunPerSymbol ==
  \A r1, r2 \in InState(IndexedStates) : Symbol(r1) = Symbol(r2) => r1 = r2

\* A stop, stop-all or kill that ran to its end with no crash or database error,
\* whatever refusal it met on the way, leaves no run RUNNING that it found
\* RUNNING: whoever beat it to the row can only have taken it out of RUNNING.
StopEndsRunning ==
  [][\A h \in Handlers : job'[h] = Idle /\ faults' = 0 =>
       \A r \in Runs : <<r, "RUNNING">> \in job[h].saw => state'[r] # "RUNNING"
    ]_vars

\* The refinement mapping: version, leases and jobs are left out.
Machine == INSTANCE RunStateMachine WITH Runs <- Runs, state <- state, log <- log

\* The optimistic lock makes the read and the write of transition() one step:
\* the rows and their events behave as the abstract state machine.
ImplementsStateMachine == Machine!Spec

\* No run stays between two stable states, whoever else is at work on it: a
\* QUEUED run is picked up (botWorker.ts:1805), an activation that died with
\* its worker in STARTING or SYNCING meets the 5 minute timeout, a STOPPING
\* left by a guard or by a handler that died is finished by a poll.
TransitEnds ==
  \A r \in Runs : state[r] \in {"QUEUED", "STARTING", "SYNCING", "STOPPING"}
                  ~> state[r] \in {"RUNNING"} \cup TerminalStates
\* "Max time a run can stay in RUNNING state before auto-timeout": a run whose
\* duration is over is ended, whichever rows the query takes.
RunningTimesOut == \A r \in Runs : state[r] = "RUNNING" /\ overdue[r]
                                   ~> state[r] # "RUNNING"
\* Whatever state a run is in, it moves on.
RunsEnd == TransitEnds /\ RunningTimesOut
\* The lease of a dead worker is taken over while the run is RUNNING (the
\* duration need not end: no fairness of DurationElapses is assumed).
OrphanIsReclaimed ==
  \A r \in Runs : state[r] = "RUNNING" /\ leaseAge[r] = "orphaned"
                  ~> leaseAge[r] = "live" \/ state[r] # "RUNNING"

-----------------------------------------------------------------------------
(* The inductive invariant behind the safety properties                      *)

\* Only a start request has accesses left before it knows its row.
KnowsRun(j) == j.plan # <<>> /\ j.run \notin Runs
               => /\ j.op = "start" /\ j.bot \in Bots
                  /\ j.plan = <<Do("create"), Tx("QUEUED")>>

\* What a job read stays true of the row until the version moves on, and is a
\* state its target may follow.
SnapshotSound(j) ==
  j.seen # NoRow =>
    /\ j.plan # <<>> /\ Head(j.plan).do = "transition" /\ j.run \in Runs
    /\ IsValidTransition(j.seen, Head(j.plan).to)
    /\ j.ver <= version[j.run]
    /\ j.ver = version[j.run] => state[j.run] = j.seen

GoodJob(j) == j \in JobType /\ KnowsRun(j) /\ SnapshotSound(j)

\* A row that was never inserted has no version and no events.
EmptyRows == \A r \in Runs : state[r] = NoRow => version[r] = 0 /\ log[r] = <<>>

IInv == /\ TypeOK /\ \A p \in Jobs : GoodJob(job[p])
        /\ EmptyRows /\ EventLogChains /\ OneIndexedRunPerSymbol

-----------------------------------------------------------------------------
(* The inductive invariant behind StopEndsRunning                            *)

\* The graph leads from RUNNING into these and from these nowhere else.
PastRunning == {"STOPPING"} \cup TerminalStates

\* The stop of r is still among what the job has to do, and it will not be
\* refused: what the job has read of the row, if anything, is current.
StillToStop(j, r) ==
  \/ \E item \in j.batch : item.run = r /\ item.plan = StopPlan("RUNNING")
  \/ /\ j.run = r /\ j.plan = StopPlan("RUNNING")
     /\ j.seen # NoRow => j.ver = version[r]

StopsWhatItSaw(j) ==
  \A r \in Runs : <<r, "RUNNING">> \in j.saw =>
    /\ state[r] \in {"RUNNING"} \cup PastRunning
    /\ state[r] = "RUNNING" /\ faults = 0 => StillToStop(j, r)

StopIInv == \A h \in Handlers : StopsWhatItSaw(job[h])
==============================================================================
