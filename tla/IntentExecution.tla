---------------------------- MODULE IntentExecution ----------------------------
(****************************************************************************)
(* BotIntent rows of one run, from the insert to a terminal state: polls    *)
(* that claim PENDING intents and place their orders (worker/               *)
(* intentExecutor.ts), polls that read the orders back                      *)
(* (reconcilePlacedIntents), the retry and PATCH routes of                  *)
(* routes/intents.ts, the sweep of stale intents and the kill switch.       *)
(*                                                                          *)
(* A job holds the rows its findMany returned (batch) and works on one of   *)
(* them at a time from the values it read (row); any other job may run      *)
(* between two of its accesses to the database or the exchange.             *)
(****************************************************************************)
EXTENDS Naturals, Sequences, FiniteSets

CONSTANTS
  Intents,      \* (botRunId, intentId) keys of the run
  Pollers,      \* polls in flight at one time
  Handlers,     \* requests and sweeps in flight at one time
  Modes,        \* what the bots are: "live", "demo", "disabled" strategy
  Requests,     \* "retry", "patch", "sweep" and "kill", as far as they are sent
  PatchTargets, \* the states PATCH .../state is asked for
  MaxRetries,   \* MAX_INTENT_RETRIES
  MaxManual,    \* bound on manual retries of an intent
  MaxOrders,    \* bound on orders the exchange takes for an intent
  FaultKinds,   \* "crash" of a worker, "database" errors
  MaxFaults,    \* bound on both together
  Refused,      \* intents whose fill the position layer throws on: the bot has
                \* an open position of another run, or less than the exit closes
  NoIntent

IntentState == {"PENDING", "PLACED", "PARTIALLY_FILLED", "FILLED",
                "CANCELLED", "FAILED"}
TerminalIntents == {"FILLED", "CANCELLED", "FAILED"}
InFlight == {"PLACED", "PARTIALLY_FILLED"}

ASSUME IntentConstants ==
  /\ NoIntent \notin Intents /\ Handlers \cap Pollers = {}
  /\ PatchTargets \subseteq IntentState /\ Refused \subseteq Intents
  /\ MaxRetries \in Nat /\ MaxManual \in Nat
  /\ MaxOrders \in Nat /\ MaxFaults \in Nat

Jobs == Handlers \cup Pollers

VARIABLES
  run,      \* BotRun.state: "QUEUED", "RUNNING" or "ENDED"
  intent,   \* BotIntent: state, retry (retryCount), order (orderId), cum
  old,      \* the intents created more than STALE_PENDING_MIN_AGE ago
  orders,   \* the orders the exchange took for each intent, oldest first
  job,
  claims, manual,   \* claims and manual retries of each intent so far
  killed,           \* a kill request has found the run over and responded
  faults

history == <<claims, manual, killed>>
vars == <<run, intent, old, orders, job, history, faults>>

Orders(i) == DOMAIN orders[i]
NoOrder == 0    \* orderId is null

\* cum is cumExecQty: nothing, a part, all of the quantity.
OrderStatus == {"New", "PartiallyFilled", "Filled", "Cancelled",
                "PartCancelled", "Rejected"}
CumOf(s) == CASE s \in {"New", "Cancelled", "Rejected"} -> 0
              [] s \in {"PartiallyFilled", "PartCancelled"} -> 1
              [] s = "Filled" -> 2

NewIntent(s) == [state |-> s, retry |-> 0, order |-> NoOrder, cum |-> 0]
NoRow == NewIntent("NO_ROW")

InState(S) == {i \in Intents : intent[i].state \in S}
Rows(S) == {[id |-> i, row |-> intent[i]] : i \in S}

Job(pc, batch) == [pc |-> pc, batch |-> batch, id |-> NoIntent,
                   row |-> NoRow, order |-> NoOrder, to |-> "PENDING"]
Idle == Job("idle", {})

Goto(p, pc) == job' = [job EXCEPT ![p].pc = pc]
Return(p, pc) == job' = [job EXCEPT ![p] = Job(pc, @.batch)]
At(p, pc) == job[p].pc = pc
Id(p) == job[p].id
Read(p) == job[p].row

Update(i, s) == intent' = [intent EXCEPT ![i].state = s]

Init ==
  /\ run = "QUEUED"
  /\ intent = [i \in Intents |-> NoRow]
  /\ old = {}
  /\ orders = [i \in Intents |-> <<>>]
  /\ job = [p \in Jobs |-> Idle]
  /\ claims = [i \in Intents |-> 0]
  /\ manual = [i \in Intents |-> 0]
  /\ killed = FALSE
  /\ faults = 0

-----------------------------------------------------------------------------
(* The run, the intents' creation, and time                                  *)

\* POST /runs/:runId/intents asks nothing of the run's state; the unique key
\* (botRunId, intentId) turns a second insert into a read.
CreateIntent(i) ==
  /\ intent[i] = NoRow
  /\ intent' = [intent EXCEPT ![i] = NewIntent("PENDING")]
  /\ UNCHANGED <<run, old, orders, job, history, faults>>

\* A stop, a timeout or a guard.
EndRun ==
  /\ run = "RUNNING"
  /\ run' = "ENDED"
  /\ UNCHANGED <<intent, old, orders, job, history, faults>>

GrowOld(i) ==
  /\ intent[i].state = "PENDING" /\ i \notin old
  /\ old' = old \cup {i}
  /\ UNCHANGED <<run, intent, orders, job, history, faults>>

Cancelled(S) == intent' = [i \in Intents |->
                             IF i \in S /\ intent[i].state = "PENDING"
                             THEN [intent[i] EXCEPT !.state = "CANCELLED"]
                             ELSE intent[i]]

-----------------------------------------------------------------------------
(* A poll: activation, processIntents, reconcilePlacedIntents                *)

\* activateRun makes the run RUNNING; the startup reconciliation comes after.
Activate(p) ==
  /\ At(p, "idle") /\ run = "QUEUED"
  /\ run' = "RUNNING"
  /\ Goto(p, "startup")
  /\ UNCHANGED <<intent, old, orders, history, faults>>

\* classifyIntent: what a restarted worker does with an intent it finds.
Classify(i) == CASE intent[i].state = "PENDING" -> "cancel"
                 [] intent[i].state \in InFlight -> "monitor"
                 [] OTHER -> "ok"
ToCancel == {i \in Intents : Classify(i) = "cancel"}

StartupReconciliation(p) ==
  /\ At(p, "startup")
  /\ Cancelled(ToCancel)
  /\ Goto(p, "polled")
  /\ UNCHANGED <<run, old, orders, history, faults>>

FetchFresh(p) ==    \* mutant: retried intents are filtered out
  /\ job[p].pc \in {"idle", "polled"} /\ run # "QUEUED"
  /\ LET found == {i \in InState({"PENDING"}) : intent[i].retry = 0} IN
       job' = [job EXCEPT ![p] =
                 Job("process", IF run = "RUNNING" THEN Rows(found) ELSE {})]
  /\ UNCHANGED <<run, intent, old, orders, history, faults>>

FetchPending(p) ==
  /\ job[p].pc \in {"idle", "polled"} /\ run # "QUEUED"
  /\ job' = [job EXCEPT ![p] =
       Job("process", IF run = "RUNNING" THEN Rows(InState({"PENDING"})) ELSE {})]
  /\ UNCHANGED <<run, intent, old, orders, history, faults>>

\* The next intent of the batch, executed or, when its strategy is disabled,
\* cancelled if it is still PENDING.
Take(p, pc) ==
  \E item \in job[p].batch :
    job' = [job EXCEPT ![p].pc = pc, ![p].id = item.id, ![p].row = item.row,
                       ![p].batch = @ \ {item}]

NextPending(p) ==
  /\ At(p, "process")
  /\ \/ "live" \in Modes /\ Take(p, "live")
     \/ "demo" \in Modes /\ Take(p, "demo")
     \/ "disabled" \in Modes /\ Take(p, "disabled")
  /\ UNCHANGED <<run, intent, old, orders, history, faults>>

CancelDisabled(p) ==
  /\ At(p, "disabled")
  /\ Cancelled({Id(p)})
  /\ Return(p, "process")
  /\ UNCHANGED <<run, old, orders, history, faults>>

Unclaimable(p) == intent[Id(p)].state # "PENDING"

\* updateMany({ where: { id, state: "PENDING" } }): count 0, and return.
ClaimLost(p) ==
  /\ job[p].pc \in {"live", "demo"} /\ Unclaimable(p)
  /\ Return(p, "process")
  /\ UNCHANGED <<run, intent, old, orders, history, faults>>

ClaimUnguarded(p) ==    \* mutant: update({ where: { id } })
  /\ job[p].pc \in {"live", "demo"}
  /\ Update(Id(p), "PLACED")
  /\ claims' = [claims EXCEPT ![Id(p)] = @ + 1]
  /\ Goto(p, IF At(p, "live") THEN "place" ELSE "simulate")
  /\ UNCHANGED <<run, old, orders, manual, killed, faults>>

Claim(p) ==
  /\ job[p].pc \in {"live", "demo"} /\ ~Unclaimable(p)
  /\ Update(Id(p), "PLACED")
  /\ claims' = [claims EXCEPT ![Id(p)] = @ + 1]
  /\ Goto(p, IF At(p, "live") THEN "place" ELSE "simulate")
  /\ UNCHANGED <<run, old, orders, manual, killed, faults>>

Simulate(p) ==
  /\ At(p, "simulate")
  /\ Update(Id(p), "FILLED")
  /\ Return(p, "process")
  /\ UNCHANGED <<run, old, orders, history, faults>>

-----------------------------------------------------------------------------
(* The exchange's answers to bybitPlaceOrder                                 *)

\* classifyExecutionError; what it does not know is not retried.
Retryable == {"rate limit", "server error", "timeout", "network", "trading disabled"}
Classified(error) == IF error \in Retryable THEN "transient" ELSE "permanent"
Failed(p, errors) == \E class \in {Classified(e) : e \in errors} : Goto(p, class)

TakeOrder(i) == /\ Len(orders[i]) < MaxOrders
                /\ orders' = [orders EXCEPT ![i] = Append(@, "New")]

Accepted(p) ==
  /\ At(p, "place")
  /\ TakeOrder(Id(p))
  /\ job' = [job EXCEPT ![p].pc = "record", ![p].order = Len(orders[Id(p)]) + 1]
  /\ UNCHANGED <<run, intent, old, history, faults>>

\* The order is on the book, the answer is lost: a transient error.
AnswerLost(p) ==
  /\ At(p, "place")
  /\ TakeOrder(Id(p))
  /\ Failed(p, {"network", "timeout"})
  /\ UNCHANGED <<run, intent, old, history, faults>>

\* No order: a rate limit, a refused connection, TRADING_ENABLED off, or a
\* rejection, a normalization that fails.
NotPlaced(p) ==
  /\ At(p, "place")
  /\ Failed(p, Retryable \cup {"rejected", "normalization", "unknown"})
  /\ UNCHANGED <<run, intent, old, orders, history, faults>>

RecordOrder(p) ==
  /\ At(p, "record")
  /\ intent' = [intent EXCEPT ![Id(p)].order = job[p].order]
  /\ Return(p, "process")
  /\ UNCHANGED <<run, old, orders, history, faults>>

-----------------------------------------------------------------------------
(* handleIntentError: the retry count is the one the batch was fetched with  *)

CanRetryAlways(p) == TRUE    \* mutant: the dead letter is forgotten

CanRetry(p) == Read(p).retry < MaxRetries

Retry(p) ==
  /\ At(p, "transient") /\ CanRetry(p)
  /\ intent' = [intent EXCEPT ![Id(p)].state = "PENDING",
                              ![Id(p)].retry = Read(p).retry + 1]
  /\ Return(p, "process")
  /\ UNCHANGED <<run, old, orders, history, faults>>

DeadLetter(p) ==
  /\ At(p, "permanent") \/ (At(p, "transient") /\ ~CanRetry(p))
  /\ Update(Id(p), "FAILED")
  /\ Return(p, "process")
  /\ UNCHANGED <<run, old, orders, history, faults>>

-----------------------------------------------------------------------------
(* reconcilePlacedIntents                                                    *)

FetchPlaced(p) ==
  /\ At(p, "process") /\ job[p].batch = {}
  /\ LET found == {i \in InState(InFlight) : intent[i].order # NoOrder} IN
       job' = [job EXCEPT ![p] =
                 Job("reconcile", IF run = "RUNNING" THEN Rows(found) ELSE {})]
  /\ UNCHANGED <<run, intent, old, orders, history, faults>>

Unchanged(read, status) == /\ CumOf(status) <= read.cum
                           /\ status \notin {"Cancelled", "PartCancelled", "Rejected"}

\* bybitGetOrderStatus; what it returned goes with the snapshot.
QueryOrder(p) ==
  /\ At(p, "reconcile")
  /\ \E item \in job[p].batch :
       LET status == orders[item.id][item.row.order] IN
       job' = [job EXCEPT ![p] =
         LET rest == Job("reconcile", @.batch \ {item}) IN
         IF Unchanged(item.row, status) THEN rest
         ELSE [rest EXCEPT !.pc = "write", !.id = item.id, !.row = item.row,
                           !.to = status]]
  /\ UNCHANGED <<run, intent, old, orders, history, faults>>

ReconciledRaw(read, status) == status    \* mutant: not mapped

Reconciled(read, status) ==
  CASE status = "Filled" -> "FILLED"
    [] status = "PartiallyFilled" -> "PARTIALLY_FILLED"
    [] status \in {"Cancelled", "PartCancelled"} -> "CANCELLED"
    [] status = "Rejected" -> "FAILED"
    [] OTHER -> read.state

\* A fill goes through the position first; when that throws the intent is
\* left as it is, and the next poll tries again.
Refuses(p) == Id(p) \in Refused /\ CumOf(job[p].to) > Read(p).cum

FillRefused(p) ==
  /\ At(p, "write") /\ Refuses(p)
  /\ Return(p, "reconcile")
  /\ UNCHANGED <<run, intent, old, orders, history, faults>>

WriteReconciled(p) ==
  /\ At(p, "write") /\ ~Refuses(p)
  /\ intent' = [intent EXCEPT ![Id(p)].state = Reconciled(Read(p), job[p].to),
                              ![Id(p)].cum = CumOf(job[p].to)]
  /\ Return(p, "reconcile")
  /\ UNCHANGED <<run, old, orders, history, faults>>

PollEnd(p) ==
  /\ At(p, "reconcile") /\ job[p].batch = {}
  /\ job' = [job EXCEPT ![p] = Idle]
  /\ UNCHANGED <<run, intent, old, orders, history, faults>>

-----------------------------------------------------------------------------
(* Requests: a read, and a write that does not look again                    *)

Begin(h, request) == request \in Requests /\ job[h] = Idle

RetryRead(h, i) ==
  /\ Begin(h, "retry")
  /\ intent[i].state = "FAILED" /\ manual[i] < MaxManual
  /\ manual' = [manual EXCEPT ![i] = @ + 1]
  /\ job' = [job EXCEPT ![h] = [Job("retry", {}) EXCEPT !.id = i]]
  /\ UNCHANGED <<run, intent, old, orders, claims, killed, faults>>

RetryWrite(h) ==
  /\ At(h, "retry")
  /\ Update(Id(h), "PENDING")
  /\ job' = [job EXCEPT ![h] = Idle]
  /\ UNCHANGED <<run, old, orders, history, faults>>

PatchRead(h, i, to) ==
  /\ Begin(h, "patch")
  /\ intent[i] # NoRow /\ intent[i].state \notin TerminalIntents
  /\ job' = [job EXCEPT ![h] = [Job("patch", {}) EXCEPT
                                  !.id = i, !.row = intent[i], !.to = to]]
  /\ UNCHANGED <<run, intent, old, orders, history, faults>>

\* orderId: orderId ?? intent.orderId writes the order it read back.
PatchWrite(h) ==
  /\ At(h, "patch")
  /\ intent' = [intent EXCEPT ![Id(h)].state = job[h].to,
                              ![Id(h)].order = Read(h).order]
  /\ job' = [job EXCEPT ![h] = Idle]
  /\ UNCHANGED <<run, old, orders, history, faults>>

\* sweepStalePendingIntents
SweepFind(h) ==
  /\ Begin(h, "sweep") /\ run = "RUNNING"
  /\ LET stale == InState({"PENDING"}) \cap old IN
       /\ stale # {}
       /\ job' = [job EXCEPT ![h] = Job("sweep", Rows(stale))]
  /\ UNCHANGED <<run, intent, old, orders, history, faults>>

SweepCancel(h) ==
  /\ At(h, "sweep")
  /\ Cancelled({item.id : item \in job[h].batch})
  /\ job' = [job EXCEPT ![h] = Idle]
  /\ UNCHANGED <<run, old, orders, history, faults>>

\* POST /bots/:id/kill: a QUEUED run survives it (RunLifecycle), then all
\* PENDING intents of the bot are cancelled, whatever became of the runs.
KillRuns(h) ==
  /\ Begin(h, "kill") /\ ~killed
  /\ run' = IF run = "RUNNING" THEN "ENDED" ELSE run
  /\ Goto(h, "kill")
  /\ UNCHANGED <<intent, old, orders, history, faults>>

KillIntentsOfRunning(h) ==    \* mutant: only the intents of RUNNING runs
  /\ At(h, "kill")
  /\ Cancelled(IF run = "RUNNING" THEN Intents ELSE {})
  /\ killed' = (run = "ENDED")
  /\ job' = [job EXCEPT ![h] = Idle]
  /\ UNCHANGED <<run, old, orders, claims, manual, faults>>

KillIntents(h) ==
  /\ At(h, "kill")
  /\ Cancelled(Intents)
  /\ killed' = (run = "ENDED")
  /\ job' = [job EXCEPT ![h] = Idle]
  /\ UNCHANGED <<run, old, orders, claims, manual, faults>>

-----------------------------------------------------------------------------
(* The exchange fills and cancels; processes die; the database refuses       *)

NextStatus(s) == CASE s = "New" -> {"PartiallyFilled", "Filled", "Cancelled",
                                    "Rejected"}
                    [] s = "PartiallyFilled" -> {"Filled", "PartCancelled"}
                    [] OTHER -> {}

OrderMoves(i, k) ==
  /\ \E s \in NextStatus(orders[i][k]) : orders' = [orders EXCEPT ![i][k] = s]
  /\ UNCHANGED <<run, intent, old, job, history, faults>>

Fault(kind) == /\ kind \in FaultKinds /\ faults < MaxFaults
               /\ faults' = faults + 1

WorkerCrash(p) ==
  /\ Fault("crash") /\ job[p] # Idle
  /\ job' = [job EXCEPT ![p] = Idle]
  /\ UNCHANGED <<run, intent, old, orders, history>>

\* Inside executeIntent's try the error is classified by its message; outside
\* (claim, handleIntentError) it ends the batch; a reconcile item is skipped.
DatabaseError(p) ==
  /\ Fault("database")
  /\ \/ /\ job[p].pc \in {"simulate", "record"}
        /\ Failed(p, {"timeout", "unknown"})
     \/ /\ job[p].pc \in {"live", "demo", "disabled", "transient", "permanent"}
        /\ job' = [job EXCEPT ![p] = Job("process", {})]
     \/ At(p, "write") /\ Return(p, "reconcile")
  /\ UNCHANGED <<run, intent, old, orders, history>>

\* orderId is written, the intent_placed event is not: the same catch.
EventError(p) ==
  /\ Fault("database") /\ At(p, "record")
  /\ intent' = [intent EXCEPT ![Id(p)].order = job[p].order]
  /\ Failed(p, {"timeout", "unknown"})
  /\ UNCHANGED <<run, old, orders, history>>

-----------------------------------------------------------------------------
PollStep(p) ==
  \/ Activate(p) \/ StartupReconciliation(p) \/ FetchPending(p)
  \/ NextPending(p) \/ CancelDisabled(p) \/ Claim(p) \/ ClaimLost(p)
  \/ Simulate(p) \/ Accepted(p) \/ AnswerLost(p) \/ NotPlaced(p)
  \/ RecordOrder(p) \/ Retry(p) \/ DeadLetter(p)
  \/ FetchPlaced(p) \/ QueryOrder(p) \/ FillRefused(p)
  \/ WriteReconciled(p) \/ PollEnd(p)

Request(h) == \/ \E i \in Intents : \/ RetryRead(h, i)
                                    \/ \E to \in PatchTargets : PatchRead(h, i, to)
              \/ SweepFind(h) \/ KillRuns(h)

Respond(h) == RetryWrite(h) \/ PatchWrite(h) \/ SweepCancel(h) \/ KillIntents(h)

Next == \/ \E p \in Pollers : PollStep(p) \/ WorkerCrash(p) \/ DatabaseError(p)
                              \/ EventError(p)
        \/ \E h \in Handlers : Request(h) \/ Respond(h)
        \/ \E i \in Intents : \/ CreateIntent(i) \/ GrowOld(i)
                              \/ \E k \in Orders(i) : OrderMoves(i, k)
        \/ EndRun

Spec == Init /\ [][Next]_vars

-----------------------------------------------------------------------------
(* Properties                                                                *)

IntentType == [state : IntentState \cup {"NO_ROW"}, retry : Nat, order : Nat,
               cum : 0..2]
JobType ==
  [pc : {"idle", "startup", "polled", "process", "live", "demo", "disabled",
         "place", "simulate", "record", "transient", "permanent", "reconcile",
         "write", "retry", "patch", "sweep", "kill"},
   batch : SUBSET [id : Intents, row : IntentType],
   id : Intents \cup {NoIntent}, row : IntentType, order : Nat,
   to : IntentState \cup OrderStatus]

\* Every intent, order and job has the shape the code gives it.
TypeOK ==
  /\ run \in {"QUEUED", "RUNNING", "ENDED"}
  /\ intent \in [Intents -> IntentType]
  /\ old \subseteq Intents
  /\ orders \in [Intents -> Seq(OrderStatus)]
  /\ job \in [Jobs -> JobType]
  /\ claims \in [Intents -> Nat] /\ manual \in [Intents -> Nat]
  /\ killed \in BOOLEAN /\ faults \in Nat

InExecution == {"place", "simulate", "record", "transient", "permanent"}
OnIntent == InExecution \cup {"live", "demo", "disabled", "write", "retry", "patch"}

Executing(p, i) == Id(p) = i /\ job[p].pc \in InExecution

\* The claim is a lock: as long as one poll executes an intent no other poll
\* does, through retries, dead letters, crashes, kills and sweeps.
ExclusiveExecution ==
  \A i \in Intents, p, q \in Pollers : Executing(p, i) /\ Executing(q, i) => p = q

\* While a poll executes an intent nobody takes it for a PENDING one.
ClaimHeld == \A i \in Intents, p \in Pollers :
               Executing(p, i) => intent[i].state \in IntentState \ {"PENDING"}

\* The orders a row or a copy of it names are orders of its intent.
KnownOrder(i, order) == order \in 0..Len(orders[i])

\* A job works on an intent, and from values, that fit what it is at.
GoodJob(j) ==
  /\ \A item \in j.batch : KnownOrder(item.id, item.row.order)
  /\ j.id # NoIntent => /\ KnownOrder(j.id, j.row.order)
                        /\ KnownOrder(j.id, j.order)
  /\ j.pc \in OnIntent => j.id # NoIntent
  /\ j.pc = "process" => j.order = NoOrder
  /\ j.pc \in {"reconcile", "write"} =>
       \A item \in j.batch : item.row.state \in InFlight /\ item.row.order # NoOrder
  /\ j.pc = "write" => j.row.state \in InFlight /\ j.to \in OrderStatus
  /\ j.pc = "patch" => j.to \in PatchTargets
  /\ j.pc = "retry" => "retry" \in Requests

\* An intent names an order of its own or none, and a reconciler reads back
\* only intents that were in flight with an order: the inductive invariant.
IInv ==
  /\ TypeOK
  /\ \A i \in Intents : KnownOrder(i, intent[i].order)
  /\ \A p \in Jobs : GoodJob(job[p])

\* intentExecutor.ts:25, "Max retries for transient intent failures before
\* dead-lettering": an intent is claimed at most once more than that, and once
\* more for each manual retry.
RetriesBounded == \A i \in Intents : claims[i] <= MaxRetries + 1 + manual[i]

\* Once a kill request has ended the run and responded, no intent is claimed.
KillIsFinal == [][\A p \in Pollers : Claim(p) => ~killed]_vars

\* A terminal intent changes no more, but for a manual retry of a FAILED one.
TerminalIsFinal ==
  [][\A i \in Intents : intent[i].state \in TerminalIntents =>
       \/ intent'[i].state = intent[i].state
       \/ intent[i].state = "FAILED" /\ manual[i] > 0]_vars

\* Whatever the exchange answers, an intent of a RUNNING run does not circle
\* between PENDING and PLACED for ever: it gets an order or a terminal state,
\* unless its worker dies on it.
PendingIsSettled ==
  \A i \in Intents : intent[i].state = "PENDING" /\ run = "RUNNING"
    ~> \/ intent[i].order # NoOrder \/ intent[i].state \in TerminalIntents
       \/ run = "ENDED" \/ faults > 0

\* An order that was recorded and filled on the exchange becomes FILLED,
\* unless the position layer refuses its fill.
FilledIsReconciled ==
  \A i \in Intents \ Refused :
    intent[i].order # NoOrder /\ orders[i][intent[i].order] = "Filled"
      ~> intent[i].state = "FILLED" \/ run = "ENDED"

\* Every intent comes to its end: the order, then the fill.
IntentsSettle == PendingIsSettled /\ FilledIsReconciled

-----------------------------------------------------------------------------
(* What a document says and the code does not do                             *)

\* docs/11-bot-runtime.md:43: a lost answer must not make a duplicate order.
OneOrderPerIntent == \A i \in Intents : Len(orders[i]) <= 1

-----------------------------------------------------------------------------
(* The inductive invariant of one poll and one request at a time             *)

\* No two polls overlap, nor two requests, and nobody sets states by hand.
Alone == /\ \A p, q \in Pollers : p = q
         /\ \A g, h \in Handlers : g = h
         /\ PatchTargets = {}

\* A row that is still to be processed is as it was fetched, or cancelled; it
\* is cancelled once a kill has responded.
Waits(i, read) == /\ intent[i].state \in {"PENDING", "CANCELLED"}
                  /\ intent[i].retry = read.retry
                  /\ killed => intent[i].state = "CANCELLED"

BeforeClaim == {"live", "demo", "disabled"}

\* What a poll has read of the rows it has in hand is still so.
PollHolds(j) ==
  /\ \A a, b \in j.batch : a.id = b.id => a = b
  /\ j.pc \in OnIntent => \A item \in j.batch : item.id # j.id
  /\ j.pc \in {"process"} \cup BeforeClaim \cup InExecution =>
       \A item \in j.batch : Waits(item.id, item.row)
  /\ j.pc \in BeforeClaim => Waits(j.id, j.row)
  /\ j.pc \in InExecution => /\ intent[j.id].state = "PLACED"
                             /\ intent[j.id].retry = j.row.retry
  /\ j.pc \in {"reconcile", "write"} =>
       \A item \in j.batch : intent[item.id].state \in InFlight
  /\ j.pc = "write" => intent[j.id].state \in InFlight

Retrying(i) == \E h \in Handlers : At(h, "retry") /\ Id(h) = i

\* A claim to come is one of an intent that is PENDING, or will be: it is still
\* to be inserted, or about to be retried.
ToClaim(i) ==
  IF intent[i].state \in {"NO_ROW", "PENDING"} \/ Retrying(i) THEN 1 ELSE 0

RowHolds(i) ==
  /\ intent[i].retry <= MaxRetries
  /\ Retrying(i) => intent[i].state = "FAILED" /\ manual[i] > 0
  /\ claims[i] + ToClaim(i) <= intent[i].retry + 1 + manual[i]

AloneIInv == /\ \A p \in Pollers : PollHolds(job[p])
             /\ \A i \in Intents : RowHolds(i)
             /\ killed => run = "ENDED"
=============================================================================
