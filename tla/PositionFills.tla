----------------------------- MODULE PositionFills -----------------------------
(****************************************************************************)
(* The positions of one bot: how fills the exchange reports reach Position  *)
(* rows and PositionEvents (reconcileEntryFill, reconcileExitFill,          *)
(* positionManager.ts), how the DCA ladder in Position.metaJson follows     *)
(* them (dcaEngine.ts), and which intents evaluateStrategies derives from   *)
(* the position. Placing the orders is IntentExecution's business: here an  *)
(* intent has its order from the start.                                     *)
(*                                                                          *)
(* Transactions run at READ COMMITTED: the read and the write of one        *)
(* positionManager call are two steps, and so are the fill and the update   *)
(* of the intent that records it.                                           *)
(****************************************************************************)
EXTENDS Integers, Sequences, FiniteSets

CONSTANTS
  Intents,      \* BotIntent rows that may be created
  Runs,         \* 1..n: the runs of the bot, one after the other
  Pollers,      \* polls in flight at one time
  Dca,          \* the strategy has a dca section
  MaxSO,        \* dca.maxSafetyOrders
  BaseQty,      \* quantity of an entry; safety orders are for one unit
  MaxFaults,    \* bound on crashes
  NoIntent

ASSUME FillConstants ==
  /\ NoIntent \notin Intents /\ Dca \in BOOLEAN
  /\ MaxSO \in Nat /\ BaseQty \in Nat \ {0} /\ MaxFaults \in Nat
  /\ Runs \subseteq Nat /\ 1 \in Runs

VARIABLES
  run,         \* the run that is RUNNING
  intent,      \* BotIntent: kind, run, qty, pos and so of its metaJson, cum
  order,       \* the exchange's view of the intent's order
  positions,   \* the bot's Position rows, oldest first; events is the sum of
               \* the qty of the row's PositionEvents, CLOSE counted negative
  booked,      \* sum of PositionEvent.qty with this intentId
  dropped,     \* fills that met no position and were skipped
  job,         \* what each poll in flight is doing
  faults

vars == <<run, intent, order, positions, booked, dropped, job, faults>>
book == <<positions, booked, dropped>>

NoPos == 0
NoSo == -1

NoRow == [kind |-> "none", run |-> 0, qty |-> 0, pos |-> NoPos, so |-> NoSo,
          cum |-> 0, done |-> FALSE]
Row(kind, r, qty, pos, so) ==
  [NoRow EXCEPT !.kind = kind, !.run = r, !.qty = qty, !.pos = pos, !.so = so]

\* DcaRuntimeState; "none" when metaJson has no ladder.
NoLadder == [phase |-> "none", next |-> -1, filled |-> 0]
BaseFilled == [phase |-> "ladder_active", filled |-> 0,
               next |-> IF MaxSO > 0 THEN 0 ELSE -1]
IsActive(d) == d.phase = "ladder_active" /\ d.next >= 0

\* applySafetyOrderFillRT for soIndex = nextSoIndex
AdvancedUnbounded(d) ==    \* mutant: the end of the schedule is not seen
  [d EXCEPT !.filled = @ + 1, !.next = @ + 1]

Advanced(d) == [d EXCEPT !.filled = @ + 1,
                         !.next = IF @ + 1 < MaxSO THEN @ + 1 ELSE -1]

Completed(d) == [d EXCEPT !.phase = "completed", !.next = -1]

\* What a poll holds: the item it works on (id, cum as fetched, exec and over
\* as queried) or the run it evaluates, and the position, quantity and ladder
\* it read.
Item == [id |-> NoIntent, cum |-> 0]
Job(pc, batch) == [pc |-> pc, batch |-> batch, item |-> Item, exec |-> 0,
                   over |-> FALSE, run |-> 0, pos |-> NoPos, held |-> 0,
                   ladder |-> NoLadder]
Idle == Job("idle", {})

At(p, pc) == job[p].pc = pc
Goto(p, pc) == job' = [job EXCEPT ![p].pc = pc]
Return(p) == job' = [job EXCEPT ![p] = Job("reconcile", @.batch)]
Id(p) == job[p].item.id
Position(p) == positions[job[p].pos]

Delta(p) == job[p].exec - job[p].item.cum

OpenPositions == {k \in DOMAIN positions : positions[k].open}
OpenOf(r) == {k \in OpenPositions : positions[k].run = r}
IsLatest(k, S) == \A j \in S : j <= k

Init ==
  /\ run = 1
  /\ intent = [i \in Intents |-> NoRow]
  /\ order = [i \in Intents |-> [exec |-> 0, live |-> FALSE]]
  /\ positions = <<>>
  /\ booked = [i \in Intents |-> 0]
  /\ dropped = [i \in Intents |-> 0]
  /\ job = [p \in Pollers |-> Idle]
  /\ faults = 0

-----------------------------------------------------------------------------
(* reconcilePlacedIntents                                                    *)

FetchPlaced(p) ==
  /\ At(p, "idle")
  /\ LET found == {i \in Intents : /\ intent[i].kind # "none" /\ ~intent[i].done
                                   /\ intent[i].run = run} IN
       job' = [job EXCEPT ![p] = Job("reconcile",
                 {[id |-> i, cum |-> intent[i].cum] : i \in found})]
  /\ UNCHANGED <<run, intent, order, book, faults>>

\* bybitGetOrderStatus: no new fill and not cancelled, and the item is skipped.
QueryOrder(p) ==
  /\ At(p, "reconcile")
  /\ \E item \in job[p].batch :
       LET seen == order[item.id]
           filled == seen.exec = intent[item.id].qty
           next == IF seen.exec > item.cum THEN "route"
                   ELSE IF seen.live \/ filled THEN "reconcile" ELSE "write"
           rest == Job("reconcile", job[p].batch \ {item})
       IN job' = [job EXCEPT ![p] =
            IF next = "reconcile" THEN rest
            ELSE [rest EXCEPT !.pc = next, !.item = item, !.exec = seen.exec,
                              !.over = ~seen.live]]
  /\ UNCHANGED <<run, intent, order, book, faults>>

Book(p) == booked' = [booked EXCEPT ![Id(p)] = @ + Delta(p)]

Drop(p) == /\ dropped' = [dropped EXCEPT ![Id(p)] = @ + Delta(p)]
           /\ Goto(p, "write")
           /\ UNCHANGED <<run, intent, order, positions, booked, faults>>

\* reconcileEntryFill: a new position, an addition to the run's open one, or
\* neither when the fill is not the first and the position is gone.
RouteEntry(p) ==
  /\ At(p, "route") /\ intent[Id(p)].kind = "ENTRY"
  /\ LET mine == OpenOf(intent[Id(p)].run) IN
       \/ /\ mine = {} /\ job[p].item.cum = 0
          /\ Goto(p, "open")
          /\ UNCHANGED <<run, intent, order, book, faults>>
       \/ /\ \E k \in mine :
               /\ IsLatest(k, mine)
               /\ job' = [job EXCEPT ![p].pc = "add", ![p].pos = k]
          /\ UNCHANGED <<run, intent, order, book, faults>>
       \/ mine = {} /\ job[p].item.cum > 0 /\ Drop(p)

\* openPosition: the check, then the insert.
OpenRefusedSwallowed(p) ==    \* mutant: the error does not end the item
  /\ At(p, "open") /\ OpenPositions # {}
  /\ Goto(p, "write")
  /\ UNCHANGED <<run, intent, order, book, faults>>

OpenRefused(p) ==
  /\ At(p, "open") /\ OpenPositions # {}
  /\ Return(p)
  /\ UNCHANGED <<run, intent, order, book, faults>>

OpenChecked(p) ==
  /\ At(p, "open") /\ OpenPositions = {}
  /\ Goto(p, "create")
  /\ UNCHANGED <<run, intent, order, book, faults>>

\* Only a base order carries the ladder's initial state.
CreatePosition(p) ==
  /\ At(p, "create")
  /\ LET i == Id(p) IN
       positions' = Append(positions,
         [run |-> intent[i].run, open |-> TRUE, qty |-> Delta(p), events |-> Delta(p),
          ladder |-> IF Dca /\ intent[i].so = NoSo THEN BaseFilled ELSE NoLadder])
  /\ Book(p)
  /\ Goto(p, "write")
  /\ UNCHANGED <<run, intent, order, dropped, faults>>

\* addToPosition
AddRead(p) ==
  /\ At(p, "add")
  /\ IF Position(p).open
     THEN job' = [job EXCEPT ![p].pc = "added", ![p].held = Position(p).qty]
     ELSE Return(p)
  /\ UNCHANGED <<run, intent, order, book, faults>>

AddWrite(p) ==
  /\ At(p, "added")
  /\ positions' = [positions EXCEPT ![job[p].pos].qty = job[p].held + Delta(p),
                                    ![job[p].pos].events = @ + Delta(p)]
  /\ Book(p)
  /\ Goto(p, IF Dca THEN "so" ELSE "write")
  /\ UNCHANGED <<run, intent, order, dropped, faults>>

\* Any fill of an entry that meets an active ladder is its next safety order.
LadderRead(p) ==
  /\ At(p, "so")
  /\ job' = [job EXCEPT ![p].ladder = Position(p).ladder,
               ![p].pc = IF IsActive(Position(p).ladder) THEN "advance" ELSE "write"]
  /\ UNCHANGED <<run, intent, order, book, faults>>

\* The ladder is written, then updateSLTP throws if the position is closed.
LadderWrite(p) ==
  /\ At(p, "advance")
  /\ positions' = [positions EXCEPT ![job[p].pos].ladder = Advanced(job[p].ladder)]
  /\ IF Position(p).open THEN Goto(p, "write") ELSE Return(p)
  /\ UNCHANGED <<run, intent, order, booked, dropped, faults>>

\* reconcileExitFill and closePosition
RouteExit(p) ==
  /\ At(p, "route") /\ intent[Id(p)].kind = "EXIT"
  /\ LET k == intent[Id(p)].pos IN
       \/ /\ positions[k].open
          /\ job' = [job EXCEPT ![p].pc = "close", ![p].pos = k]
          /\ UNCHANGED <<run, intent, order, book, faults>>
       \/ ~positions[k].open /\ Drop(p)

CloseReadUnchecked(p) ==    \* mutant: qty > currentQty goes through
  /\ At(p, "close")
  /\ IF Position(p).open
     THEN job' = [job EXCEPT ![p].pc = "closed", ![p].held = Position(p).qty]
     ELSE Return(p)
  /\ UNCHANGED <<run, intent, order, book, faults>>

CloseRead(p) ==
  /\ At(p, "close")
  /\ IF Position(p).open /\ Delta(p) <= Position(p).qty
     THEN job' = [job EXCEPT ![p].pc = "closed", ![p].held = Position(p).qty]
     ELSE Return(p)
  /\ UNCHANGED <<run, intent, order, book, faults>>

CloseWrite(p) ==
  /\ At(p, "closed")
  /\ LET left == job[p].held - Delta(p) IN
       positions' = [positions EXCEPT
         ![job[p].pos].qty = left,
         ![job[p].pos].events = @ - Delta(p),
         ![job[p].pos].open = IF left = 0 THEN FALSE ELSE @]
  /\ Book(p)
  /\ Goto(p, "finalize")
  /\ UNCHANGED <<run, intent, order, dropped, faults>>

FinalizeRead(p) ==
  /\ At(p, "finalize")
  /\ LET k == Position(p)
         ends == k.ladder.phase = "ladder_active" /\ k.qty <= 0 IN
       job' = [job EXCEPT ![p].ladder = k.ladder,
                          ![p].pc = IF ends THEN "complete" ELSE "write"]
  /\ UNCHANGED <<run, intent, order, book, faults>>

FinalizeWrite(p) ==
  /\ At(p, "complete")
  /\ positions' = [positions EXCEPT ![job[p].pos].ladder = Completed(job[p].ladder)]
  /\ Goto(p, "write")
  /\ UNCHANGED <<run, intent, order, booked, dropped, faults>>

\* state and cumExecQty, from what the poll read.
WriteIntent(p) ==
  /\ At(p, "write")
  /\ intent' = [intent EXCEPT ![Id(p)].cum = job[p].exec,
                              ![Id(p)].done = job[p].over]
  /\ Return(p)
  /\ UNCHANGED <<run, order, book, faults>>

-----------------------------------------------------------------------------
(* evaluateStrategies                                                        *)

Unused == {i \in Intents : intent[i].kind = "none"}

CreateIntent(i, r) ==
  /\ intent' = [intent EXCEPT ![i] = r]
  /\ order' = [order EXCEPT ![i].live = TRUE]

Evaluate(p) ==
  /\ At(p, "reconcile") /\ job[p].batch = {}
  /\ LET mine == OpenOf(run) IN
       \/ /\ mine = {}
          /\ job' = [job EXCEPT ![p] = [Job("entry", {}) EXCEPT !.run = run]]
       \/ \E k \in mine :
            /\ IsLatest(k, mine)
            /\ job' = [job EXCEPT ![p] =
                 [Job(IF Dca THEN "ladder" ELSE "exit", {}) EXCEPT
                    !.run = run, !.pos = k, !.held = positions[k].qty]]
  /\ UNCHANGED <<run, intent, order, book, faults>>

EntrySignal(p) ==
  /\ At(p, "entry")
  /\ \E i \in Unused : CreateIntent(i, Row("ENTRY", job[p].run, BaseQty, NoPos, NoSo))
  /\ job' = [job EXCEPT ![p] = Idle]
  /\ UNCHANGED <<run, book, faults>>

ReadLadder(p) ==
  /\ At(p, "ladder")
  /\ job' = [job EXCEPT ![p].pc = "trigger", ![p].ladder = Position(p).ladder]
  /\ UNCHANGED <<run, intent, order, book, faults>>

\* The levels the price has reached, from nextSoIndex on; intentId is unique
\* per position and level (P2002: on to the next).
TriggerSafetyOrder(p) ==
  /\ At(p, "trigger") /\ IsActive(job[p].ladder) /\ job[p].ladder.next < MaxSO
  /\ LET k == job[p].pos
         so == job[p].ladder.next IN
       IF \E i \in Intents : intent[i].pos = k /\ intent[i].so = so
       THEN UNCHANGED <<intent, order>>
       ELSE \E i \in Unused : CreateIntent(i, Row("ENTRY", job[p].run, 1, k, so))
  /\ job' = [job EXCEPT ![p].ladder.next = @ + 1]
  /\ UNCHANGED <<run, book, faults>>

NoMoreTriggers(p) ==
  /\ At(p, "trigger")
  /\ Goto(p, "exit")
  /\ UNCHANGED <<run, intent, order, book, faults>>

\* For all the position held when it was read.
ExitSignal(p) ==
  /\ At(p, "exit")
  /\ \E i \in Unused :
       CreateIntent(i, Row("EXIT", job[p].run, job[p].held, job[p].pos, NoSo))
  /\ job' = [job EXCEPT ![p] = Idle]
  /\ UNCHANGED <<run, book, faults>>

NoSignal(p) ==
  /\ At(p, "entry") \/ At(p, "exit")
  /\ job' = [job EXCEPT ![p] = Idle]
  /\ UNCHANGED <<run, intent, order, book, faults>>

-----------------------------------------------------------------------------
(* The exchange, the runs, crashes                                           *)

OrderFills(i) ==
  /\ order[i].live
  /\ \E q \in (order[i].exec + 1)..intent[i].qty :
       order' = [order EXCEPT ![i] = [exec |-> q, live |-> q < intent[i].qty]]
  /\ UNCHANGED <<run, intent, book, job, faults>>

OrderCancelled(i) ==
  /\ order[i].live
  /\ order' = [order EXCEPT ![i].live = FALSE]
  /\ UNCHANGED <<run, intent, book, job, faults>>

\* The run is stopped, its positions stay, and the bot is started again.
NextRun ==
  /\ run + 1 \in Runs
  /\ run' = run + 1
  /\ UNCHANGED <<intent, order, book, job, faults>>

WorkerCrash(p) ==
  /\ faults < MaxFaults /\ job[p] # Idle
  /\ faults' = faults + 1
  /\ job' = [job EXCEPT ![p] = Idle]
  /\ UNCHANGED <<run, intent, order, book>>

-----------------------------------------------------------------------------
Reconcile(p) ==
  \/ FetchPlaced(p) \/ QueryOrder(p) \/ RouteEntry(p) \/ OpenRefused(p)
  \/ OpenChecked(p) \/ CreatePosition(p) \/ AddRead(p) \/ AddWrite(p)
  \/ LadderRead(p) \/ LadderWrite(p) \/ RouteExit(p) \/ CloseRead(p)
  \/ CloseWrite(p) \/ FinalizeRead(p) \/ FinalizeWrite(p) \/ WriteIntent(p)

EvaluateStrategies(p) ==
  \/ Evaluate(p) \/ EntrySignal(p) \/ ReadLadder(p) \/ TriggerSafetyOrder(p)
  \/ NoMoreTriggers(p) \/ ExitSignal(p) \/ NoSignal(p)

Next == \/ \E p \in Pollers : \/ Reconcile(p) \/ EvaluateStrategies(p)
                              \/ WorkerCrash(p)
        \/ \E i \in Intents : OrderFills(i) \/ OrderCancelled(i)
        \/ NextRun

Spec == Init /\ [][Next]_vars

-----------------------------------------------------------------------------
(* Properties                                                                *)

Ladders == [phase : {"none", "ladder_active", "completed"}, next : -1..MaxSO,
            filled : Nat]
Pcs == {"idle", "reconcile", "route", "open", "create", "add", "added", "so",
        "advance", "close", "closed", "finalize", "complete", "write", "entry",
        "ladder", "trigger", "exit"}
IntentType == [kind : {"none", "ENTRY", "EXIT"}, run : Nat, qty : Nat, pos : Nat,
               so : -1..MaxSO, cum : Nat, done : BOOLEAN]
PositionType == [run : Nat, open : BOOLEAN, qty : Nat, events : Int,
                 ladder : Ladders]
Items == [id : Intents \cup {NoIntent}, cum : Nat]
JobType == [pc : Pcs, batch : SUBSET Items, item : Items, exec : Nat,
            over : BOOLEAN, run : Nat, pos : Nat, held : Nat, ladder : Ladders]

\* No quantity goes below zero and no ladder past its schedule.
TypeOK ==
  /\ run \in Runs
  /\ intent \in [Intents -> IntentType]
  /\ order \in [Intents -> [exec : Nat, live : BOOLEAN]]
  /\ positions \in Seq(PositionType)
  /\ booked \in [Intents -> Nat] /\ dropped \in [Intents -> Nat]
  /\ job \in [Pollers -> JobType]
  /\ faults \in Nat

\* A fill the intent records (cumExecQty) was booked in the PositionEvents or
\* dropped: crashes, errors and overlapping polls may book a fill twice, but
\* never record one that was not routed.
RecordedIsBooked ==
  \A i \in Intents : intent[i].cum <= booked[i] + dropped[i]

\* As long as no poll dies between the booking and the record, polls that do
\* not overlap book no fill twice.
NoFillBookedTwice ==
  faults = 0 => \A i \in Intents : booked[i] + dropped[i] <= order[i].exec

\* What a row holds is what its events add up to, also after crashes.
RowsMatchEvents ==
  \A k \in DOMAIN positions : positions[k].qty = positions[k].events

\* positionManager.ts:164: at most one OPEN position per bot and symbol, over
\* all its runs; a closed one holds nothing.
OneOpenPosition ==
  /\ \A j, k \in OpenPositions : j = k
  /\ \A k \in DOMAIN positions : positions[k].open <=> positions[k].qty > 0

\* The ladder offers a level only while it is active, and as many levels as it
\* has counted are behind the one it offers.
LadderCounts ==
  \A k \in DOMAIN positions :
    LET d == positions[k].ladder IN
      d.phase # "none" =>
        /\ d.filled <= MaxSO
        /\ d.next >= 0 => d.phase = "ladder_active" /\ d.next = d.filled
        /\ d.phase = "ladder_active" /\ d.next = -1 => d.filled = MaxSO
        /\ d.phase = "completed" => ~positions[k].open

\* The positions, their events and the ladder agree with the fills.
PositionsAgree == NoFillBookedTwice /\ RowsMatchEvents /\ OneOpenPosition /\ LadderCounts

-----------------------------------------------------------------------------
(* The inductive invariant behind TypeOK and RecordedIsBooked                *)

Routed(i) == booked[i] + dropped[i]

GoodItem(x) == x.id \in Intents /\ x.cum <= Routed(x.id)

\* What the poll may assume of the item, the position and the ladder it holds
\* at each of its program points.
Routing == {"route", "open", "create", "add", "added", "close", "closed"}
Settling == {"so", "advance", "finalize", "complete", "write"}
AtPosition == {"add", "added", "so", "advance", "close", "closed", "finalize",
               "complete", "ladder", "trigger", "exit"}

GoodJob(j) ==
  /\ j \in JobType
  /\ \A x \in j.batch : GoodItem(x)
  /\ j.pc \in Routing => GoodItem(j.item) /\ j.item.cum < j.exec
  /\ j.pc \in Settling => j.item.id \in Intents /\ j.exec <= Routed(j.item.id)
  /\ j.pc \in AtPosition => j.pos \in DOMAIN positions
  /\ j.pc = "closed" => j.exec - j.item.cum <= j.held

ExitsHavePosition ==
  \A i \in Intents : intent[i].kind = "EXIT" => intent[i].pos \in DOMAIN positions

\* A crash, an error or another poll may come between any two steps of a poll:
\* what it holds is a fill that is still to be routed, or one that is.
IInv == /\ TypeOK /\ RecordedIsBooked /\ ExitsHavePosition
        /\ \A p \in Pollers : GoodJob(job[p])

-----------------------------------------------------------------------------
(* The inductive invariant behind PositionsAgree, for polls that do not      *)
(* overlap                                                                   *)

OnePoll == \A p, q \in Pollers : p = q

\* An intent that is not yet created has no fills; one that no poll is about to
\* write records all that was routed.
Settled(i) == intent[i].cum = Routed(i)
RecordsKeepUp ==
  \A i \in Intents :
    /\ intent[i].kind = "none" => intent[i].cum = 0 /\ Routed(i) = 0
    /\ faults = 0 =>
         /\ Routed(i) <= order[i].exec
         /\ \/ Settled(i)
            \/ \E p \in Pollers : job[p].pc \in Settling /\ job[p].item.id = i

\* Each intent is fetched once; what the poll holds of it is not stale.
HoldsItem(j) ==
  /\ \A x, y \in j.batch : x.id = y.id => x = y
  /\ \A x \in j.batch : /\ intent[x.id].kind # "none"
                        /\ faults = 0 => x.cum = Routed(x.id)
  /\ j.pc \in Routing \cup Settling =>
       intent[j.item.id].kind # "none" /\ \A x \in j.batch : x.id # j.item.id
  /\ faults = 0 /\ j.pc \in Routing =>
       j.item.cum = Routed(j.item.id) /\ j.exec <= order[j.item.id].exec
  /\ faults = 0 /\ j.pc \in Settling => j.exec = Routed(j.item.id)

\* Nor is what it holds of the position, from the check to the write.
HoldsPosition(j) ==
  /\ j.pc = "create" => OpenPositions = {}
  /\ j.pc \in {"add", "added", "so", "advance", "close", "closed"} =>
       positions[j.pos].open
  /\ j.pc \in {"added", "closed"} => j.held = positions[j.pos].qty
  /\ j.pc \in {"advance", "complete"} => j.ladder = positions[j.pos].ladder
  /\ j.pc = "advance" => IsActive(j.ladder)
  /\ j.pc = "complete" => ~positions[j.pos].open /\ j.ladder.phase = "ladder_active"

\* A level on offer is one of the schedule.
LevelsInSchedule ==
  \A k \in DOMAIN positions :
    positions[k].ladder.next >= 0 => positions[k].ladder.next < MaxSO

FillsIInv == RecordsKeepUp /\ \A p \in Pollers : HoldsItem(job[p])
RowsIInv == /\ RowsMatchEvents /\ OneOpenPosition /\ LadderCounts /\ LevelsInSchedule
            /\ \A p \in Pollers : HoldsPosition(job[p])
BooksIInv == FillsIInv /\ RowsIInv
==============================================================================
