---------------------------- MODULE HedgeLifecycle ----------------------------
(****************************************************************************)
(* HedgePosition rows and the two ways to drive them: the REST routes       *)
(* /hedges/:id/execute and /exit, which place the legs one after the other  *)
(* and wait (routes/hedges.ts, exchange/hedgeExecutor.ts), and the ticks of *)
(* lib/hedgeBotWorker.ts, which emit two BotIntents per stage and look at   *)
(* what became of them.                                                     *)
(*                                                                          *)
(* The hedges are of one symbol, bot and exchange connection, every leg has *)
(* the same quantity and the account holds nothing else. What the intent    *)
(* pipeline does with an emitted leg is IntentExecution, here only its      *)
(* outcome.                                                                 *)
(****************************************************************************)
EXTENDS Integers, FiniteSets

CONSTANTS
  Hedges,
  RestHedges,    \* the hedges clients execute and exit
  WorkerHedges,  \* the hedges of a RUNNING run of mode FUNDING_ARB
  Clients,       \* REST requests in flight at one time
  Ticks,         \* ticks in flight at one time
  Sized,         \* the caller's HedgeAdvanceInput has a quantity
  MaxFaults,     \* bound on processes that die
  NoHedge

Sides == {"SPOT_BUY", "PERP_SHORT", "SPOT_SELL", "PERP_CLOSE"}
HedgeStatus == {"PLANNED", "OPENING", "OPEN", "CLOSING", "CLOSED", "FAILED"}
NonTerminal == {"PLANNED", "OPENING", "OPEN", "CLOSING"}

ASSUME HedgeConstants ==
  /\ NoHedge \notin Hedges
  /\ RestHedges \subseteq Hedges /\ WorkerHedges \subseteq Hedges
  /\ Clients \cap Ticks = {}
  /\ Sized \in BOOLEAN /\ MaxFaults \in Nat

Jobs == Clients \cup Ticks

VARIABLES
  status,   \* HedgePosition.status
  leg,      \* the BotIntent of each leg: "NONE", "PENDING", "FILLED" or
            \* "FAILED", which stands for CANCELLED too
  rows,     \* LegExecution rows of each side
  fills,    \* orders of each side the exchange has filled
  late,     \* orders nobody waits for any more, still on the book
  job,
  faults

vars == <<status, leg, rows, fills, late, job, faults>>

Legs(stage) == IF stage = "entry" THEN {"SPOT_BUY", "PERP_SHORT"}
                                  ELSE {"SPOT_SELL", "PERP_CLOSE"}
Spot(h) == fills[h]["SPOT_BUY"] - fills[h]["SPOT_SELL"]
Short(h) == fills[h]["PERP_SHORT"] - fills[h]["PERP_CLOSE"]

Emitted(h, stage) == \A s \in Legs(stage) : leg[h][s] # "NONE"
BothFilled(h, stage) == \A s \in Legs(stage) : leg[h][s] = "FILLED"
AnyFailed(h, stage) == \E s \in Legs(stage) : leg[h][s] = "FAILED"

\* legs: what a REST request has placed so far; to: the status a tick writes.
Job(pc, stage, h, batch) ==
  [pc |-> pc, stage |-> stage, hedge |-> h, legs |-> {}, to |-> "PLANNED",
   batch |-> batch]
Idle == Job("idle", "entry", NoHedge, {})

At(p, pc) == job[p].pc = pc
Hedge(p) == job[p].hedge
Placing(p) == job[p].pc \in Sides

Init ==
  /\ status = [h \in Hedges |-> "NO_ROW"]
  /\ leg = [h \in Hedges |-> [s \in Sides |-> "NONE"]]
  /\ rows = [h \in Hedges |-> [s \in Sides |-> 0]]
  /\ fills = [h \in Hedges |-> [s \in Sides |-> 0]]
  /\ late = [h \in Hedges |-> [s \in Sides |-> 0]]
  /\ job = [p \in Jobs |-> Idle]
  /\ faults = 0

CreateHedge(h) ==
  /\ status[h] = "NO_ROW"
  /\ status' = [status EXCEPT ![h] = "PLANNED"]
  /\ UNCHANGED <<leg, rows, fills, late, job, faults>>

-----------------------------------------------------------------------------
(* REST: a status check, the orders, one transaction for rows and status     *)

ExecuteFailed(c, h) ==    \* mutant: a FAILED hedge may be executed again
  /\ job[c] = Idle /\ h \in RestHedges
  /\ status[h] \in {"PLANNED", "FAILED"}
  /\ job' = [job EXCEPT ![c] = Job("SPOT_BUY", "entry", h, {})]
  /\ UNCHANGED <<status, leg, rows, fills, late, faults>>

ExecuteHedge(c, h) ==
  /\ job[c] = Idle /\ h \in RestHedges
  /\ status[h] = "PLANNED"
  /\ job' = [job EXCEPT ![c] = Job("SPOT_BUY", "entry", h, {})]
  /\ UNCHANGED <<status, leg, rows, fills, late, faults>>

\* The quantity is the SPOT_BUY row's or the one the request names.
ExitHedge(c, h) ==
  /\ job[c] = Idle /\ h \in RestHedges
  /\ status[h] = "OPEN"
  /\ job' = [job EXCEPT ![c] = Job("SPOT_SELL", "exit", h, {})]
  /\ UNCHANGED <<status, leg, rows, fills, late, faults>>

\* The sale of the spot leg after the perp leg threw; it gets no row.
Compensating(j) == j.stage = "entry" /\ j.pc = "SPOT_SELL"

Placed(j) ==
  [j EXCEPT !.legs = IF Compensating(j) THEN @ ELSE @ \cup {j.pc},
            !.pc = CASE j.pc = "SPOT_BUY" -> "PERP_SHORT"
                     [] j.pc = "SPOT_SELL" /\ j.stage = "exit" -> "PERP_CLOSE"
                     [] OTHER -> "persist"]

Threw(j) == [j EXCEPT !.pc = IF @ = "PERP_SHORT" THEN "SPOT_SELL" ELSE "persist"]

LegFilled(c) ==
  /\ Placing(c)
  /\ fills' = [fills EXCEPT ![Hedge(c)][job[c].pc] = @ + 1]
  /\ job' = [job EXCEPT ![c] = Placed(@)]
  /\ UNCHANGED <<status, leg, rows, late, faults>>

\* Not placed, or placed and cancelled, rejected, deactivated.
LegRefused(c) ==
  /\ Placing(c)
  /\ job' = [job EXCEPT ![c] = Threw(@)]
  /\ UNCHANGED <<status, leg, rows, fills, late, faults>>

\* The polls are used up, or one of them throws: the order is on the book.
LegGivenUp(c) ==
  /\ Placing(c)
  /\ late' = [late EXCEPT ![Hedge(c)][job[c].pc] = @ + 1]
  /\ job' = [job EXCEPT ![c] = Threw(@)]
  /\ UNCHANGED <<status, leg, rows, fills, faults>>

StatusOfAnyLeg(j) ==    \* mutant: PARTIAL_ERROR counts as FILLED
  IF j.legs = {} THEN "FAILED" ELSE IF j.stage = "entry" THEN "OPEN" ELSE "CLOSED"

StatusOfOutcome(j) ==    \* mutant: the outcome is written as the status
  IF j.legs = Legs(j.stage) THEN "FILLED" ELSE "PARTIAL_ERROR"

StatusOf(j) == IF j.legs # Legs(j.stage) THEN "FAILED"
               ELSE IF j.stage = "entry" THEN "OPEN" ELSE "CLOSED"

PersistAndRespond(c) ==
  /\ At(c, "persist")
  /\ rows' = [rows EXCEPT ![Hedge(c)] =
                [s \in Sides |-> @[s] + (IF s \in job[c].legs THEN 1 ELSE 0)]]
  /\ status' = [status EXCEPT ![Hedge(c)] = StatusOf(job[c])]
  /\ job' = [job EXCEPT ![c] = Idle]
  /\ UNCHANGED <<leg, fills, late, faults>>

-----------------------------------------------------------------------------
(* A tick: each candidate in turn                                            *)

Return(t) == job' = [job EXCEPT ![t] = IF @.batch = {} THEN Idle
                                       ELSE Job("next", "entry", NoHedge, @.batch)]

\* tickHedgeBotWorkerForBotRun: the non-terminal hedges.
TickUnfinished(t) ==    \* mutant: OPENING and CLOSING are not asked for
  /\ job[t] = Idle
  /\ LET candidates == {h \in WorkerHedges : status[h] \in {"PLANNED", "OPEN"}} IN
       /\ candidates # {}
       /\ job' = [job EXCEPT ![t] = Job("next", "entry", NoHedge, candidates)]
  /\ UNCHANGED <<status, leg, rows, fills, late, faults>>

TickHedges(t) ==
  /\ job[t] = Idle
  /\ LET candidates == {h \in WorkerHedges : status[h] \in NonTerminal} IN
       /\ candidates # {}
       /\ job' = [job EXCEPT ![t] = Job("next", "entry", NoHedge, candidates)]
  /\ UNCHANGED <<status, leg, rows, fills, late, faults>>

\* advanceHedge reads the hedge and, in PLANNED and OPEN, decides by the
\* signals: the funding window, the funding payment, a quantity.
AdvanceHedge(t) ==
  /\ At(t, "next")
  /\ \E h \in job[t].batch :
       LET rest == job[t].batch \ {h} IN
       \/ /\ status[h] = "PLANNED" /\ Sized
          /\ job' = [job EXCEPT ![t] = Job("gate", "entry", h, rest)]
       \/ /\ status[h] = "OPEN" /\ Sized
          /\ job' = [job EXCEPT ![t] = Job("emit", "exit", h, rest)]
       \/ /\ status[h] = "OPENING"
          /\ job' = [job EXCEPT ![t] = Job("summarise", "entry", h, rest)]
       \/ /\ status[h] = "CLOSING"
          /\ job' = [job EXCEPT ![t] = Job("summarise", "exit", h, rest)]
       \/ /\ status[h] \in {"PLANNED", "OPEN", "CLOSED", "FAILED"}
          /\ job' = [job EXCEPT ![t] = IF rest = {} THEN Idle
                                       ELSE Job("next", "entry", NoHedge, rest)]
  /\ UNCHANGED <<status, leg, rows, fills, late, faults>>

Flat == \A h \in Hedges : Spot(h) = 0 /\ Short(h) = 0

\* reconcileBeforeEntry: no position and no spot balance of the symbol.
GateOpen(t) ==
  /\ At(t, "gate") /\ Flat
  /\ job' = [job EXCEPT ![t].pc = "emit"]
  /\ UNCHANGED <<status, leg, rows, fills, late, faults>>

\* A position is there, or the balance request threw.
GateClosed(t) ==
  /\ At(t, "gate")
  /\ Return(t)
  /\ UNCHANGED <<status, leg, rows, fills, late, faults>>

EmitAgain(t) ==    \* mutant: intentIds that are not derived from the hedge
  /\ At(t, "emit")
  /\ leg' = [leg EXCEPT ![Hedge(t)] =
               [s \in Sides |-> IF s \in Legs(job[t].stage) THEN "PENDING" ELSE @[s]]]
  /\ status' = [status EXCEPT ![Hedge(t)] =
                  IF job[t].stage = "entry" THEN "OPENING" ELSE "CLOSING"]
  /\ Return(t)
  /\ UNCHANGED <<rows, fills, late, faults>>

\* Both intents and the status in one transaction, under @@unique([botRunId,
\* intentId]); the status the decision was made in is not looked at again.
EmitHedgeIntents(t) ==
  /\ At(t, "emit") /\ ~Emitted(Hedge(t), job[t].stage)
  /\ leg' = [leg EXCEPT ![Hedge(t)] =
               [s \in Sides |-> IF s \in Legs(job[t].stage) THEN "PENDING" ELSE @[s]]]
  /\ status' = [status EXCEPT ![Hedge(t)] =
                  IF job[t].stage = "entry" THEN "OPENING" ELSE "CLOSING"]
  /\ Return(t)
  /\ UNCHANGED <<rows, fills, late, faults>>

EmitConflict(t) ==
  /\ At(t, "emit") /\ Emitted(Hedge(t), job[t].stage)
  /\ Return(t)
  /\ UNCHANGED <<status, leg, rows, fills, late, faults>>

Write(t, to) == job' = [job EXCEPT ![t].pc = "write", ![t].to = to]

SummariseAnyFilled(t) ==    \* mutant: filled > 0 instead of filled === 2
  LET h == Hedge(t)  stage == job[t].stage IN
  /\ At(t, "summarise")
  /\ \/ AnyFailed(h, stage) /\ Write(t, "FAILED")
     \/ /\ ~AnyFailed(h, stage) /\ \E s \in Legs(stage) : leg[h][s] = "FILLED"
        /\ Write(t, IF stage = "entry" THEN "OPEN" ELSE "CLOSED")
     \/ /\ \A s \in Legs(stage) : leg[h][s] = "PENDING"
        /\ Return(t)
  /\ UNCHANGED <<status, leg, rows, fills, late, faults>>

SummariseLegStates(t) ==
  LET h == Hedge(t)  stage == job[t].stage IN
  /\ At(t, "summarise")
  /\ \/ AnyFailed(h, stage) /\ Write(t, "FAILED")
     \/ BothFilled(h, stage) /\ Write(t, IF stage = "entry" THEN "OPEN" ELSE "CLOSED")
     \/ ~AnyFailed(h, stage) /\ ~BothFilled(h, stage) /\ Return(t)
  /\ UNCHANGED <<status, leg, rows, fills, late, faults>>

WriteStatus(t) ==
  /\ At(t, "write")
  /\ status' = [status EXCEPT ![Hedge(t)] = job[t].to]
  /\ Return(t)
  /\ UNCHANGED <<leg, rows, fills, late, faults>>

-----------------------------------------------------------------------------
(* The intent pipeline, the exchange, and processes that die                 *)

LegIntentFilled(h, s) ==
  /\ leg[h][s] = "PENDING"
  /\ leg' = [leg EXCEPT ![h][s] = "FILLED"]
  /\ fills' = [fills EXCEPT ![h][s] = @ + 1]
  /\ UNCHANGED <<status, rows, late, job, faults>>

\* Rejected, dead-lettered, swept or killed; what order a dead letter may have
\* left on the exchange is the subject of IntentExecution.
LegIntentFailed(h, s) ==
  /\ leg[h][s] = "PENDING"
  /\ leg' = [leg EXCEPT ![h][s] = "FAILED"]
  /\ UNCHANGED <<status, rows, fills, late, job, faults>>

LateFill(h, s) ==
  /\ late[h][s] > 0
  /\ late' = [late EXCEPT ![h][s] = @ - 1]
  /\ fills' = [fills EXCEPT ![h][s] = @ + 1]
  /\ UNCHANGED <<status, leg, rows, job, faults>>

LateCancel(h, s) ==
  /\ late[h][s] > 0
  /\ late' = [late EXCEPT ![h][s] = @ - 1]
  /\ UNCHANGED <<status, leg, rows, fills, job, faults>>

Fault == faults < MaxFaults /\ faults' = faults + 1

\* The process dies; an order it was placing may be on the book.
ProcessDies(p) ==
  /\ job[p] # Idle /\ Fault
  /\ job' = [job EXCEPT ![p] = Idle]
  /\ \/ late' = late
     \/ Placing(p) /\ late' = [late EXCEPT ![Hedge(p)][job[p].pc] = @ + 1]
  /\ UNCHANGED <<status, leg, rows, fills>>

-----------------------------------------------------------------------------
RequestStep(c) == \/ LegFilled(c) \/ LegRefused(c) \/ LegGivenUp(c)
                  \/ PersistAndRespond(c)

TickStep(t) == \/ TickHedges(t) \/ AdvanceHedge(t)
               \/ GateOpen(t) \/ GateClosed(t)
               \/ EmitHedgeIntents(t) \/ EmitConflict(t)
               \/ SummariseLegStates(t) \/ WriteStatus(t)

Exchange(h, s) == \/ LegIntentFilled(h, s) \/ LegIntentFailed(h, s)
                  \/ LateFill(h, s) \/ LateCancel(h, s)

Next == \/ \E h \in Hedges : CreateHedge(h)
        \/ \E c \in Clients : \/ RequestStep(c)
                              \/ \E h \in Hedges : ExecuteHedge(c, h) \/ ExitHedge(c, h)
        \/ \E t \in Ticks : TickStep(t)
        \/ \E p \in Jobs : ProcessDies(p)
        \/ \E h \in Hedges, s \in Sides : Exchange(h, s)

Spec == Init /\ [][Next]_vars

\* The poll ticks every 4 s and a tick's awaits return.
FairSpec == Spec /\ \A t \in Ticks : WF_vars(TickStep(t))

-----------------------------------------------------------------------------
(* Properties                                                                *)

JobType ==
  [pc : {"idle", "persist", "next", "gate", "emit", "summarise", "write"} \cup Sides,
   stage : {"entry", "exit"}, hedge : Hedges \cup {NoHedge},
   legs : SUBSET Sides, to : HedgeStatus, batch : SUBSET Hedges]

\* Hedges, legs and jobs have the shape the schema and the code give them.
TypeOK ==
  /\ status \in [Hedges -> HedgeStatus \cup {"NO_ROW"}]
  /\ leg \in [Hedges -> [Sides -> {"NONE", "PENDING", "FILLED", "FAILED"}]]
  /\ rows \in [Hedges -> [Sides -> Nat]]
  /\ fills \in [Hedges -> [Sides -> Nat]]
  /\ late \in [Hedges -> [Sides -> Nat]]
  /\ job \in [Jobs -> JobType]
  /\ faults \in Nat

StageSays(h, st) ==
  /\ st = "OPENING" => Emitted(h, "entry")
  /\ st \in {"OPEN", "CLOSING", "CLOSED"} => BothFilled(h, "entry")
  /\ st = "CLOSING" => Emitted(h, "exit")
  /\ st = "CLOSED" => BothFilled(h, "exit")
  /\ st = "FAILED" => AnyFailed(h, "entry") \/ AnyFailed(h, "exit")

\* hedgeBotWorker.ts:10-15: the status of a hedge the worker drives says what
\* became of its legs, also when ticks overlap and write late.
StageHasItsLegs ==
  \A h \in WorkerHedges \ RestHedges : StageSays(h, status[h])

\* The worker orders no leg twice, whatever ticks overlap, die or are late:
\* the intentId of a leg is a function of the hedge (hedgeBotWorker.ts:179).
WorkerOrdersOnce ==
  \A h \in Hedges \ RestHedges, s \in Sides : fills[h][s] + late[h][s] <= 1

\* routes/hedges.ts:246, "Idempotency: only PLANNED hedges may be executed":
\* no leg is ordered twice by a client that sends one request at a time, as
\* long as no process dies between the orders and their record.
RequestOrdersOnce ==
  faults = 0 =>
    \A h \in RestHedges, s \in Sides : fills[h][s] + late[h][s] <= 1

\* A request is in flight, or has died, for the hedge.
InFlight(h) == faults > 0 \/ \E c \in Clients : Hedge(c) = h

\* What the status of a hedge promises of the account: an OPEN one is long
\* spot and short perp in the same quantity, a CLOSED one holds nothing.
OpenIsHedged ==
  \A h \in RestHedges : ~InFlight(h) =>
    /\ status[h] = "OPEN" => Spot(h) = 1 /\ Short(h) = 1
    /\ status[h] = "CLOSED" => Spot(h) = 0 /\ Short(h) = 0

\* hedgeExecutor.ts:128, "treating that as success would create a phantom
\* LegExecution": every row is an order the exchange has filled.
LegRowsAreFills == \A h \in Hedges, s \in Sides : rows[h][s] <= fills[h][s]

\* What a request orders, it orders once and records as it was filled.
RequestsAreExact == RequestOrdersOnce /\ LegRowsAreFills

\* A hedge whose entry legs have come to an end does not stay OPENING.
EntryIsDecided ==
  \A h \in WorkerHedges :
    status[h] = "OPENING" /\ (BothFilled(h, "entry") \/ AnyFailed(h, "entry"))
      ~> status[h] # "OPENING"

-----------------------------------------------------------------------------
(* The inductive invariant                                                   *)

EmittedTogether ==
  \A h \in Hedges, stage \in {"entry", "exit"} :
    (\E s \in Legs(stage) : leg[h][s] # "NONE") => Emitted(h, stage)

\* The pipeline alone fills the legs of a hedge no request drives.
FilledByPipeline ==
  \A h \in Hedges \ RestHedges, s \in Sides :
    late[h][s] = 0 /\ fills[h][s] = (IF leg[h][s] = "FILLED" THEN 1 ELSE 0)

\* A request is placing or recording, and for a hedge of the routes.
RequestKnows(c) ==
  /\ job[c].pc \in {"idle", "persist"} \cup Sides
  /\ job[c].pc # "idle" => Hedge(c) \in RestHedges

\* What a tick has read of its hedge is still so when it acts on it.
TickKnows(t) ==
  /\ job[t].pc \in {"idle", "next", "gate", "emit", "summarise", "write"}
  /\ job[t].batch \subseteq WorkerHedges
  /\ job[t].pc \in {"gate", "emit", "summarise", "write"} => Hedge(t) \in WorkerHedges
  /\ job[t].pc = "gate" => job[t].stage = "entry"
  /\ Hedge(t) \in WorkerHedges \ RestHedges =>
       /\ job[t].pc \in {"emit", "summarise"} /\ job[t].stage = "exit"
            => BothFilled(Hedge(t), "entry")
       /\ job[t].pc = "summarise" => Emitted(Hedge(t), job[t].stage)
       /\ job[t].pc = "write" => StageSays(Hedge(t), job[t].to)

\* The strengthening of StageHasItsLegs and WorkerOrdersOnce.
IInv ==
  /\ TypeOK /\ StageHasItsLegs
  /\ EmittedTogether /\ FilledByPipeline
  /\ \A c \in Clients : RequestKnows(c)
  /\ \A t \in Ticks : TickKnows(t)

(* The same for the routes, where a client sends one request at a time and no *)
(* run drives the hedges of a client.                                          *)
OneRequester ==
  /\ \A c, d \in Clients : c = d
  /\ RestHedges \cap WorkerHedges = {}

\* Exactly the orders of S were placed, and all of them have filled.
Holds(h, S) ==
  \A s \in Sides : late[h][s] = 0 /\ fills[h][s] = (IF s \in S THEN 1 ELSE 0)
EachOnce(h) == \A s \in Sides : fills[h][s] + late[h][s] <= 1

\* What the status of a hedge no request is at says of its orders.
RestSays(h, st) ==
  /\ st \notin {"OPENING", "CLOSING"} /\ EachOnce(h)
  /\ st \in {"NO_ROW", "PLANNED"} => Holds(h, {})
  /\ st = "OPEN" => Holds(h, Legs("entry"))
  /\ st = "CLOSED" => Holds(h, Sides)

\* Where a request stands says what it has ordered and which legs it counts.
RequestStands(j, h) ==
  /\ EachOnce(h)
  /\ j.pc = "SPOT_BUY" => j.stage = "entry" /\ j.legs = {} /\ Holds(h, {})
  /\ j.pc = "PERP_SHORT" =>
       j.stage = "entry" /\ j.legs = {"SPOT_BUY"} /\ Holds(h, {"SPOT_BUY"})
  /\ j.pc = "SPOT_SELL" /\ j.stage = "entry" =>
       j.legs = {"SPOT_BUY"} /\ fills[h]["SPOT_SELL"] + late[h]["SPOT_SELL"] = 0
  /\ j.pc = "SPOT_SELL" /\ j.stage = "exit" =>
       j.legs = {} /\ Holds(h, Legs("entry"))
  /\ j.pc = "PERP_CLOSE" =>
       j.stage = "exit" /\ j.legs = {"SPOT_SELL"} /\ Holds(h, Sides \ {"PERP_CLOSE"})
  /\ j.pc = "persist" /\ j.legs = Legs(j.stage) =>
       Holds(h, IF j.stage = "entry" THEN Legs("entry") ELSE Sides)

\* A hedge of the routes: its recorded and counted legs have filled, and as
\* long as no process died its status or its request says what was ordered.
RestGood(h) ==
  /\ \A s \in Sides : leg[h][s] = "NONE" /\ rows[h][s] <= fills[h][s]
  /\ \A c \in Clients : Hedge(c) = h =>
       \A s \in job[c].legs : rows[h][s] + 1 <= fills[h][s]
  /\ faults = 0 =>
       /\ (\A c \in Clients : Hedge(c) # h) => RestSays(h, status[h])
       /\ \A c \in Clients : Hedge(c) = h => RequestStands(job[c], h)

\* The strengthening of RequestsAreExact and OpenIsHedged.
RequestIInv ==
  /\ \A c \in Clients : job[c].pc = "idle" => Hedge(c) = NoHedge
  /\ \A h \in Hedges \ RestHedges, s \in Sides : rows[h][s] = 0
  /\ \A h \in RestHedges : RestGood(h)
=============================================================================
