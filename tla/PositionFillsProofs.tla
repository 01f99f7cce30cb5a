-------------------------- MODULE PositionFillsProofs --------------------------
(****************************************************************************)
(* Machine-checked proofs about PositionFills, for any number of intents,   *)
(* runs, overlapping polls, crashes, and any ladder and quantities.         *)
(****************************************************************************)
EXTENDS PositionFills, SequenceTheorems, TLAPS

-----------------------------------------------------------------------------
(* Ladders, positions                                                        *)

LEMMA LadderTypes ==
  /\ NoLadder \in Ladders /\ BaseFilled \in Ladders
  /\ \A d \in Ladders : Advanced(d) \in Ladders /\ Completed(d) \in Ladders
<1>1. NoLadder \in Ladders /\ BaseFilled \in Ladders
  <2>1. 0 \in Nat /\ -1 \in -1..MaxSO /\ (MaxSO > 0 => 0 \in -1..MaxSO)
    BY FillConstants
  <2> QED BY <2>1 DEF NoLadder, BaseFilled, Ladders
<1>2. ASSUME NEW d \in Ladders PROVE Advanced(d) \in Ladders
  <2>1. /\ d.filled + 1 \in Nat
        /\ (IF d.next + 1 < MaxSO THEN d.next + 1 ELSE -1) \in -1..MaxSO
    BY FillConstants DEF Ladders
  <2> QED BY <2>1 DEF Advanced, Ladders
<1>3. ASSUME NEW d \in Ladders PROVE Completed(d) \in Ladders
  <2>1. -1 \in -1..MaxSO
    BY FillConstants
  <2> QED BY <2>1 DEF Completed, Ladders
<1> QED BY <1>1, <1>2, <1>3

\* One position is rewritten.
LEMMA PositionWritten ==
  ASSUME NEW s \in Seq(PositionType), NEW k \in DOMAIN s, NEW v \in PositionType
  PROVE  /\ [s EXCEPT ![k] = v] \in Seq(PositionType)
         /\ DOMAIN [s EXCEPT ![k] = v] = DOMAIN s
<1>1. s \in [1..Len(s) -> PositionType] /\ DOMAIN s = 1..Len(s)
  OBVIOUS
<1>2. [s EXCEPT ![k] = v] \in [1..Len(s) -> PositionType]
  BY <1>1
<1> QED BY <1>1, <1>2, SeqDef

-----------------------------------------------------------------------------
(* Steps that move the rows forward                                          *)

\* GoodJob of a value against the rows of the next state.
GoodNext(j) ==
  /\ j \in JobType
  /\ \A x \in j.batch :
       x.id \in Intents /\ x.cum <= booked'[x.id] + dropped'[x.id]
  /\ j.pc \in Routing => /\ j.item.id \in Intents
                         /\ j.item.cum <= booked'[j.item.id] + dropped'[j.item.id]
                         /\ j.item.cum < j.exec
  /\ j.pc \in Settling => /\ j.item.id \in Intents
                          /\ j.exec <= booked'[j.item.id] + dropped'[j.item.id]
  /\ j.pc \in AtPosition => j.pos \in DOMAIN positions'
  /\ j.pc = "closed" => j.exec - j.item.cum <= j.held

\* booked and dropped never shrink, positions are never deleted.
Forward ==
  /\ booked' \in [Intents -> Nat] /\ dropped' \in [Intents -> Nat]
  /\ \A i \in Intents :
       booked[i] + dropped[i] <= booked'[i] + dropped'[i]
  /\ DOMAIN positions \subseteq DOMAIN positions'

RowsOK ==
  /\ run \in Runs
  /\ intent \in [Intents -> IntentType]
  /\ order \in [Intents -> [exec : Nat, live : BOOLEAN]]
  /\ positions \in Seq(PositionType)
  /\ faults \in Nat
  /\ RecordedIsBooked /\ ExitsHavePosition

LEMMA RowsFrom == IInv => RowsOK
  BY DEF IInv, TypeOK, RowsOK

\* A job stays good whatever the other jobs do to the rows.
LEMMA GoodStays ==
  ASSUME IInv, Forward, NEW j, GoodJob(j)
  PROVE  GoodNext(j)
<1>1. /\ booked \in [Intents -> Nat] /\ dropped \in [Intents -> Nat]
      /\ booked' \in [Intents -> Nat] /\ dropped' \in [Intents -> Nat]
  BY DEF IInv, TypeOK, Forward
<1>2. j \in JobType
  BY DEF GoodJob
<1>3. \A x \in Items : GoodItem(x) =>
        x.id \in Intents /\ x.cum <= booked'[x.id] + dropped'[x.id]
  BY <1>1 DEF GoodItem, Routed, Forward, Items
<1>4. \A x \in j.batch :
        x.id \in Intents /\ x.cum <= booked'[x.id] + dropped'[x.id]
  BY <1>2, <1>3 DEF GoodJob, JobType
<1>5. j.pc \in Routing =>
        /\ j.item.id \in Intents
        /\ j.item.cum <= booked'[j.item.id] + dropped'[j.item.id]
        /\ j.item.cum < j.exec
  BY <1>2, <1>3 DEF GoodJob, JobType
<1>6. j.pc \in Settling =>
        /\ j.item.id \in Intents
        /\ j.exec <= booked'[j.item.id] + dropped'[j.item.id]
  BY <1>1, <1>2 DEF GoodJob, JobType, Forward, Routed
<1>7. /\ j.pc \in AtPosition => j.pos \in DOMAIN positions'
      /\ j.pc = "closed" => j.exec - j.item.cum <= j.held
  BY DEF GoodJob, Forward
<1> QED BY <1>2, <1>4, <1>5, <1>6, <1>7 DEF GoodNext

LEMMA JobsMove ==
  ASSUME Forward, RowsOK', job' \in [Pollers -> JobType],
         \A p \in Pollers : GoodNext(job'[p])
  PROVE  IInv'
<1>1. TypeOK'
  BY DEF TypeOK, RowsOK, Forward
<1>2. \A p \in Pollers : GoodJob(job[p])'
  BY DEF GoodNext, GoodJob, GoodItem, Routed
<1> QED BY <1>1, <1>2 DEF IInv, RowsOK

\* The usual case: one poll moves on.
LEMMA OneJobMoves ==
  ASSUME IInv, Forward, RowsOK', NEW p \in Pollers, NEW j, GoodNext(j),
         job' = [job EXCEPT ![p] = j]
  PROVE  IInv'
<1>1. job \in [Pollers -> JobType] /\ j \in JobType
  BY DEF IInv, TypeOK, GoodNext
<1>2. job' \in [Pollers -> JobType]
  BY <1>1
<1>3. \A q \in Pollers : GoodNext(job'[q])
  <2> TAKE q \in Pollers
  <2>1. CASE q = p
    BY <1>1, <2>1
  <2>2. CASE q # p
    <3>1. job'[q] = job[q] /\ GoodJob(job[q])
      BY <1>1, <2>2 DEF IInv
    <3> QED BY <3>1, GoodStays
  <2> QED BY <2>1, <2>2
<1> QED BY <1>2, <1>3, JobsMove

Still == UNCHANGED <<run, intent, order, positions, booked, dropped, faults>>

LEMMA StillForward ==
  ASSUME IInv, Still
  PROVE  Forward /\ RowsOK'
<1>1. RowsOK /\ booked \in [Intents -> Nat] /\ dropped \in [Intents -> Nat]
  BY RowsFrom DEF IInv, TypeOK
<1>2. Forward
  BY <1>1 DEF Forward, Still
<1>3. RowsOK'
  BY <1>1 DEF RowsOK, Still, RecordedIsBooked, ExitsHavePosition
<1> QED BY <1>2, <1>3

\* A step that writes no row.
LEMMA ReadStep ==
  ASSUME IInv, Still, NEW p \in Pollers, NEW j, GoodJob(j),
         job' = [job EXCEPT ![p] = j]
  PROVE  IInv'
  BY StillForward, GoodStays, OneJobMoves

\* What the invariant says of the poll that takes the step.
LEMMA JobFacts ==
  ASSUME IInv, NEW p \in Pollers
  PROVE  /\ job \in [Pollers -> JobType] /\ job[p] \in JobType
         /\ GoodJob(job[p])
         /\ \A x \in job[p].batch : GoodItem(x) /\ x \in Items
  BY DEF IInv, TypeOK, GoodJob, JobType

-----------------------------------------------------------------------------
(* Jobs                                                                      *)

LEMMA JobTyped ==
  ASSUME NEW pc \in Pcs, NEW batch \in SUBSET Items
  PROVE  /\ Job(pc, batch) \in JobType
         /\ Job(pc, batch).pc = pc /\ Job(pc, batch).batch = batch
<1>1. Item \in Items
  BY DEF Item, Items
<1> QED BY <1>1, LadderTypes DEF Job, JobType, NoPos

LEMMA FreshJob ==
  ASSUME NEW pc \in {"idle", "reconcile", "entry"},
         NEW batch \in SUBSET Items, \A x \in batch : GoodItem(x)
  PROVE  GoodJob(Job(pc, batch))
<1>1. /\ Job(pc, batch) \in JobType
      /\ Job(pc, batch).pc = pc /\ Job(pc, batch).batch = batch
  BY JobTyped DEF Pcs
<1> QED BY <1>1 DEF GoodJob, Routing, Settling, AtPosition

LEMMA IdleGood == GoodJob(Idle)
  BY FreshJob DEF Idle

LEMMA ReturnGood ==
  ASSUME IInv, NEW p \in Pollers, Still, Return(p)
  PROVE  IInv'
<1>1. GoodJob(Job("reconcile", job[p].batch))
  BY JobFacts, FreshJob
<1> QED BY <1>1, JobFacts, ReadStep DEF Return

LEMMA InitInv == Init => IInv
<1> SUFFICES ASSUME Init PROVE IInv
  OBVIOUS
<1>1. TypeOK
  <2>1. Idle \in JobType
    BY IdleGood DEF GoodJob
  <2>2. NoRow \in IntentType
    BY FillConstants DEF NoRow, IntentType, NoPos, NoSo
  <2>3. positions \in Seq(PositionType)
    BY DEF Init
  <2> QED BY <2>1, <2>2, <2>3, FillConstants DEF Init, TypeOK
<1>2. RecordedIsBooked /\ ExitsHavePosition
  BY DEF Init, RecordedIsBooked, ExitsHavePosition, NoRow
<1>3. \A p \in Pollers : GoodJob(job[p])
  BY IdleGood DEF Init
<1> QED BY <1>1, <1>2, <1>3 DEF IInv

-----------------------------------------------------------------------------
(* Steps that only read                                                      *)

\* Moving to another program point with the item kept.
LEMMA GotoGood ==
  ASSUME NEW j, GoodJob(j), NEW pc \in Pcs,
         pc \in Routing => j.pc \in Routing,
         pc \in Settling => j.pc \in Settling,
         pc \in AtPosition => j.pc \in AtPosition,
         pc = "closed" => j.pc = "closed"
  PROVE  GoodJob([j EXCEPT !.pc = pc])
<1> DEFINE k == [j EXCEPT !.pc = pc]
<1>1. j \in JobType
  BY DEF GoodJob
<1>2. /\ k \in JobType /\ k.pc = pc /\ k.batch = j.batch /\ k.item = j.item
      /\ k.exec = j.exec /\ k.pos = j.pos /\ k.held = j.held
  BY <1>1 DEF JobType
<1> QED BY <1>2 DEF GoodJob

LEMMA FetchInv ==
  ASSUME IInv, NEW p \in Pollers, FetchPlaced(p)
  PROVE  IInv'
<1> DEFINE found == {i \in Intents : /\ intent[i].kind # "none" /\ ~intent[i].done
                                     /\ intent[i].run = run}
           batch == {[id |-> i, cum |-> intent[i].cum] : i \in found}
<1>1. \A x \in batch : x \in Items /\ GoodItem(x)
  BY DEF IInv, TypeOK, IntentType, Items, GoodItem, RecordedIsBooked, Routed
<1>2. GoodJob(Job("reconcile", batch))
  BY <1>1, FreshJob
<1>3. Still /\ job' = [job EXCEPT ![p] = Job("reconcile", batch)]
  BY DEF FetchPlaced, Still, book
<1> QED BY <1>2, <1>3, ReadStep

LEMMA QueryInv ==
  ASSUME IInv, NEW p \in Pollers, QueryOrder(p)
  PROVE  IInv'
<1>1. PICK item \in job[p].batch :
        LET seen == order[item.id]
            filled == seen.exec = intent[item.id].qty
            next == IF seen.exec > item.cum THEN "route"
                    ELSE IF seen.live \/ filled THEN "reconcile" ELSE "write"
            rest == Job("reconcile", job[p].batch \ {item})
        IN job' = [job EXCEPT ![p] =
             IF next = "reconcile" THEN rest
             ELSE [rest EXCEPT !.pc = next, !.item = item, !.exec = seen.exec,
                               !.over = ~seen.live]]
  BY DEF QueryOrder
<1> DEFINE seen == order[item.id]
           rest == Job("reconcile", job[p].batch \ {item})
           k(next) == [rest EXCEPT !.pc = next, !.item = item, !.exec = seen.exec,
                                   !.over = ~seen.live]
<1>2. Still
  BY DEF QueryOrder, Still, book
<1>3. GoodItem(item) /\ item \in Items /\ item.id \in Intents /\ item.cum \in Nat
  BY JobFacts DEF GoodItem, Items
<1>4. GoodJob(rest) /\ rest \in JobType
  BY JobFacts, FreshJob DEF GoodJob
<1>5. seen.exec \in Nat /\ seen.live \in BOOLEAN
  BY <1>3 DEF IInv, TypeOK
<1>6. ASSUME NEW next \in {"route", "write"},
             next = "route" => seen.exec > item.cum,
             next = "write" => ~(seen.exec > item.cum)
      PROVE  GoodJob(k(next))
  <2>1. /\ k(next) \in JobType /\ k(next).pc = next /\ k(next).item = item
        /\ k(next).exec = seen.exec /\ k(next).batch = rest.batch
    BY <1>3, <1>4, <1>5, <1>6 DEF JobType, Pcs
  <2>2. item.cum <= Routed(item.id) /\ Routed(item.id) \in Nat
    BY <1>3 DEF GoodItem, Routed, IInv, TypeOK
  <2>3. next = "write" => seen.exec <= Routed(item.id)
    BY <1>3, <1>5, <1>6, <2>2
  <2>4. next = "route" => item.cum < seen.exec
    BY <1>3, <1>5, <1>6
  <2> QED BY <1>3, <1>4, <2>1, <2>3, <2>4
          DEF GoodJob, Routing, Settling, AtPosition
<1>7. \E j : GoodJob(j) /\ job' = [job EXCEPT ![p] = j]
  <2>1. CASE seen.exec > item.cum
    <3>1. job' = [job EXCEPT ![p] = k("route")]
      BY <1>1, <2>1
    <3> QED BY <1>6, <2>1, <3>1
  <2>2. CASE ~(seen.exec > item.cum) /\ (seen.live \/ seen.exec = intent[item.id].qty)
    <3>1. job' = [job EXCEPT ![p] = rest]
      BY <1>1, <2>2
    <3> QED BY <1>4, <3>1
  <2>3. CASE ~(seen.exec > item.cum) /\ ~(seen.live \/ seen.exec = intent[item.id].qty)
    <3>1. job' = [job EXCEPT ![p] = k("write")]
      BY <1>1, <2>3
    <3> QED BY <1>6, <2>3, <3>1
  <2> QED BY <2>1, <2>2, <2>3
<1> QED BY <1>2, <1>7, ReadStep

LEMMA GotoInv ==
  ASSUME IInv, NEW p \in Pollers, Still, NEW pc \in Pcs, Goto(p, pc),
         pc \in Routing => job[p].pc \in Routing,
         pc \in Settling => job[p].pc \in Settling,
         pc \in AtPosition => job[p].pc \in AtPosition,
         pc = "closed" => job[p].pc = "closed"
  PROVE  IInv'
<1>1. GoodJob([job[p] EXCEPT !.pc = pc])
  BY JobFacts, GotoGood
<1>2. job' = [job EXCEPT ![p] = [job[p] EXCEPT !.pc = pc]]
  BY JobFacts DEF Goto
<1> QED BY <1>1, <1>2, ReadStep

\* A position or the ladder is read at a program point that keeps the item.
LEMMA ReadGood ==
  ASSUME NEW j, GoodJob(j), NEW pc \in Pcs, NEW pos \in Nat, NEW held \in Nat,
         NEW ladder \in Ladders,
         pc \in Routing => j.pc \in Routing,
         pc \in Settling => j.pc \in Settling,
         pc \in AtPosition => pos \in DOMAIN positions,
         pc = "closed" => j.exec - j.item.cum <= held
  PROVE  GoodJob([j EXCEPT !.pc = pc, !.pos = pos, !.held = held, !.ladder = ladder])
<1> DEFINE k == [j EXCEPT !.pc = pc, !.pos = pos, !.held = held, !.ladder = ladder]
<1>1. j \in JobType
  BY DEF GoodJob
<1>2. /\ k \in JobType /\ k.pc = pc /\ k.batch = j.batch /\ k.item = j.item
      /\ k.exec = j.exec /\ k.pos = pos /\ k.held = held
  BY <1>1 DEF JobType
<1> QED BY <1>2 DEF GoodJob

LEMMA PositionFacts ==
  ASSUME IInv
  PROVE  /\ positions \in Seq(PositionType) /\ DOMAIN positions \subseteq Nat
         /\ \A k \in DOMAIN positions :
              /\ positions[k] \in PositionType
              /\ positions[k].run \in Nat /\ positions[k].open \in BOOLEAN
              /\ positions[k].qty \in Nat /\ positions[k].events \in Int
              /\ positions[k].ladder \in Ladders
<1>1. positions \in Seq(PositionType)
  BY DEF IInv, TypeOK
<1>2. \A k \in DOMAIN positions : positions[k] \in PositionType /\ k \in Nat
  BY <1>1
<1> QED BY <1>1, <1>2 DEF PositionType

LEMMA ReaderInv ==
  ASSUME IInv, NEW p \in Pollers
  PROVE  /\ OpenRefused(p) => IInv'
         /\ OpenChecked(p) => IInv'
         /\ AddRead(p) => IInv'
         /\ LadderRead(p) => IInv'
         /\ CloseRead(p) => IInv'
         /\ FinalizeRead(p) => IInv'
         /\ ReadLadder(p) => IInv'
         /\ NoMoreTriggers(p) => IInv'
         /\ NoSignal(p) => IInv'
<1> USE DEF book
<1>0. /\ GoodJob(job[p]) /\ job[p] \in JobType /\ job \in [Pollers -> JobType]
      /\ job[p].pos \in Nat /\ job[p].held \in Nat /\ job[p].ladder \in Ladders
  BY JobFacts DEF JobType
<1>1. ASSUME job[p].pc \in AtPosition
      PROVE  /\ job[p].pos \in DOMAIN positions
             /\ Position(p).qty \in Nat /\ Position(p).ladder \in Ladders
             /\ Position(p).open \in BOOLEAN
  BY <1>0, <1>1, PositionFacts DEF GoodJob, Position
<1>2. ASSUME OpenRefused(p) PROVE IInv'
  BY <1>2, ReturnGood DEF OpenRefused, Still
<1>3. ASSUME OpenChecked(p) PROVE IInv'
  <2>1. Still /\ Goto(p, "create") /\ job[p].pc \in Routing /\ "create" \in Pcs
    BY <1>3 DEF OpenChecked, Still, At, Routing, Pcs
  <2> QED BY <2>1, GotoInv DEF Settling, AtPosition
<1>4. ASSUME AddRead(p) PROVE IInv'
  <2>1. Still /\ job[p].pc = "add"
    BY <1>4 DEF AddRead, Still, At
  <2>2. CASE ~Position(p).open
    BY <1>4, <2>1, <2>2, ReturnGood DEF AddRead
  <2>3. CASE Position(p).open
    <3> DEFINE j == [job[p] EXCEPT !.pc = "added", !.pos = job[p].pos,
                       !.held = Position(p).qty, !.ladder = job[p].ladder]
    <3>1. job[p].pc \in AtPosition /\ job[p].pc \in Routing
      BY <2>1 DEF AtPosition, Routing
    <3>a. "added" \in Pcs /\ "added" \notin Settling
      BY DEF Pcs, Settling
    <3>2. GoodJob(j)
      BY <1>0, <1>1, <3>1, <3>a, ReadGood
    <3>3. job' = [job EXCEPT ![p].pc = "added", ![p].held = Position(p).qty]
      BY <1>4, <2>3 DEF AddRead
    <3>4. job' = [job EXCEPT ![p] = j]
      BY <1>0, <3>3 DEF JobType
    <3> QED BY <2>1, <3>2, <3>4, ReadStep
  <2> QED BY <2>2, <2>3
<1>5. ASSUME LadderRead(p) PROVE IInv'
  <2> DEFINE pc == IF IsActive(Position(p).ladder) THEN "advance" ELSE "write"
             j == [job[p] EXCEPT !.pc = pc, !.pos = job[p].pos,
                     !.held = job[p].held, !.ladder = Position(p).ladder]
  <2>1. Still /\ job[p].pc = "so"
    BY <1>5 DEF LadderRead, Still, At
  <2>2. job[p].pc \in AtPosition /\ job[p].pc \in Settling
    BY <2>1 DEF AtPosition, Settling
  <2>3. pc \in Pcs /\ pc \notin Routing /\ pc # "closed"
    BY DEF Pcs, Routing
  <2>4. GoodJob(j)
    BY <1>0, <1>1, <2>2, <2>3, ReadGood
  <2>5. job' = [job EXCEPT ![p] = j]
    BY <1>0, <1>5 DEF LadderRead, JobType
  <2> QED BY <2>1, <2>4, <2>5, ReadStep
<1>6. ASSUME CloseRead(p) PROVE IInv'
  <2>1. Still /\ job[p].pc = "close"
    BY <1>6 DEF CloseRead, Still, At
  <2>2. CASE ~(Position(p).open /\ Delta(p) <= Position(p).qty)
    BY <1>6, <2>1, <2>2, ReturnGood DEF CloseRead
  <2>3. CASE Position(p).open /\ Delta(p) <= Position(p).qty
    <3> DEFINE j == [job[p] EXCEPT !.pc = "closed", !.pos = job[p].pos,
                       !.held = Position(p).qty, !.ladder = job[p].ladder]
    <3>1. job[p].pc \in AtPosition /\ job[p].pc \in Routing
      BY <2>1 DEF AtPosition, Routing
    <3>a. "closed" \in Pcs /\ "closed" \notin Settling
      BY DEF Pcs, Settling
    <3>b. job[p].exec - job[p].item.cum <= Position(p).qty
      BY <2>3 DEF Delta
    <3>2. GoodJob(j)
      BY <1>0, <1>1, <3>1, <3>a, <3>b, ReadGood
    <3>3. job' = [job EXCEPT ![p].pc = "closed", ![p].held = Position(p).qty]
      BY <1>6, <2>3 DEF CloseRead
    <3>4. job' = [job EXCEPT ![p] = j]
      BY <1>0, <3>3 DEF JobType
    <3> QED BY <2>1, <3>2, <3>4, ReadStep
  <2> QED BY <2>2, <2>3
<1>7. ASSUME FinalizeRead(p) PROVE IInv'
  <2>1. PICK pc \in {"complete", "write"} :
          job' = [job EXCEPT ![p].ladder = Position(p).ladder, ![p].pc = pc]
    BY <1>7 DEF FinalizeRead
  <2> DEFINE j == [job[p] EXCEPT !.pc = pc, !.pos = job[p].pos,
                     !.held = job[p].held, !.ladder = Position(p).ladder]
  <2>2. Still /\ job[p].pc = "finalize"
    BY <1>7 DEF FinalizeRead, Still, At
  <2>3. /\ job[p].pc \in AtPosition /\ job[p].pc \in Settling
        /\ pc \in Pcs /\ pc \notin Routing /\ pc # "closed"
    BY <2>2 DEF AtPosition, Settling, Pcs, Routing
  <2>4. GoodJob(j)
    BY <1>0, <1>1, <2>3, ReadGood
  <2>5. job' = [job EXCEPT ![p] = j]
    BY <1>0, <2>1 DEF JobType
  <2> QED BY <2>2, <2>4, <2>5, ReadStep
<1>8. ASSUME ReadLadder(p) PROVE IInv'
  <2> DEFINE j == [job[p] EXCEPT !.pc = "trigger", !.pos = job[p].pos,
                     !.held = job[p].held, !.ladder = Position(p).ladder]
  <2>1. Still /\ job[p].pc = "ladder"
    BY <1>8 DEF ReadLadder, Still, At
  <2>2. job[p].pc \in AtPosition
    BY <2>1 DEF AtPosition
  <2>a. "trigger" \in Pcs /\ "trigger" \notin Routing \cup Settling
    BY DEF Pcs, Routing, Settling
  <2>3. GoodJob(j)
    BY <1>0, <1>1, <2>2, <2>a, ReadGood
  <2>4. job' = [job EXCEPT ![p].pc = "trigger", ![p].ladder = Position(p).ladder]
    BY <1>8 DEF ReadLadder
  <2>5. job' = [job EXCEPT ![p] = j]
    BY <1>0, <2>4 DEF JobType
  <2> QED BY <2>1, <2>3, <2>5, ReadStep
<1>9. ASSUME NoMoreTriggers(p) PROVE IInv'
  <2>1. Still /\ Goto(p, "exit") /\ job[p].pc = "trigger"
    BY <1>9 DEF NoMoreTriggers, Still, At
  <2> QED BY <2>1, GotoInv DEF Routing, Settling, AtPosition, Pcs
<1>10. ASSUME NoSignal(p) PROVE IInv'
  BY <1>10, IdleGood, ReadStep DEF NoSignal, Still
<1> QED BY <1>2, <1>3, <1>4, <1>5, <1>6, <1>7, <1>8, <1>9, <1>10

LEMMA EvaluateInv ==
  ASSUME IInv, NEW p \in Pollers, Evaluate(p)
  PROVE  IInv'
<1>1. Still
  BY DEF Evaluate, Still, book
<1>2. run \in Nat /\ \A pc \in {"entry", "ladder", "exit"} : Job(pc, {}) \in JobType
  <2>1. {"entry", "ladder", "exit"} \subseteq Pcs
    BY DEF Pcs
  <2> QED BY <2>1, JobTyped, FillConstants DEF IInv, TypeOK
<1>3. ASSUME NEW pc \in {"ladder", "exit"}, NEW pos \in DOMAIN positions,
             NEW held \in Nat, pos \in Nat
      PROVE  GoodJob([Job(pc, {}) EXCEPT !.run = run, !.pos = pos, !.held = held])
  <2> DEFINE k == [Job(pc, {}) EXCEPT !.run = run, !.pos = pos, !.held = held]
  <2>1. Job(pc, {}).pc = pc /\ Job(pc, {}).batch = {}
    BY DEF Job
  <2>2. /\ k \in JobType /\ k.pc = pc /\ k.batch = {} /\ k.pos = pos
    BY <1>2, <1>3, <2>1 DEF JobType
  <2> QED BY <2>2 DEF GoodJob, Routing, Settling
<1>4. CASE job' = [job EXCEPT ![p] = [Job("entry", {}) EXCEPT !.run = run]]
  <2> DEFINE k == [Job("entry", {}) EXCEPT !.run = run]
  <2>1. Job("entry", {}).pc = "entry" /\ Job("entry", {}).batch = {}
    BY DEF Job
  <2>2. k \in JobType /\ k.pc = "entry" /\ k.batch = {}
    BY <1>2, <2>1 DEF JobType
  <2>3. GoodJob(k)
    BY <2>2 DEF GoodJob, Routing, Settling, AtPosition
  <2> QED BY <1>1, <1>4, <2>3, ReadStep
<1>5. ASSUME NEW k \in OpenOf(run),
             job' = [job EXCEPT ![p] =
               [Job(IF Dca THEN "ladder" ELSE "exit", {}) EXCEPT
                  !.run = run, !.pos = k, !.held = positions[k].qty]]
      PROVE  IInv'
  <2>1. k \in DOMAIN positions /\ k \in Nat /\ positions[k].qty \in Nat
    BY PositionFacts DEF OpenOf, OpenPositions
  <2> QED BY <1>1, <1>3, <1>5, <2>1, ReadStep
<1> QED BY <1>4, <1>5 DEF Evaluate

-----------------------------------------------------------------------------
(* Steps that book, drop, and write positions                                *)

LEMMA RowsForward ==
  ASSUME IInv, Forward, UNCHANGED <<run, intent, order, faults>>,
         positions' \in Seq(PositionType)
  PROVE  RowsOK'
<1>1. RowsOK
  BY RowsFrom
<1>2. \A i \in Intents : intent[i].cum \in Nat
  BY <1>1 DEF RowsOK, IntentType
<1>3. RecordedIsBooked'
  <2> SUFFICES ASSUME NEW i \in Intents
               PROVE  intent'[i].cum <= booked'[i] + dropped'[i]
    BY DEF RecordedIsBooked
  <2>1. booked[i] \in Nat /\ dropped[i] \in Nat
    BY DEF IInv, TypeOK
  <2>2. intent[i].cum <= booked[i] + dropped[i]
    BY <1>1 DEF RowsOK, RecordedIsBooked
  <2>3. /\ booked'[i] \in Nat /\ dropped'[i] \in Nat
        /\ booked[i] + dropped[i] <= booked'[i] + dropped'[i]
    BY DEF Forward
  <2> QED BY <1>2, <2>1, <2>2, <2>3
<1>4. ExitsHavePosition'
  BY <1>1 DEF RowsOK, ExitsHavePosition, Forward
<1> QED BY <1>1, <1>3, <1>4 DEF RowsOK

\* The fill of the item a poll routes.
LEMMA FillFacts ==
  ASSUME IInv, NEW p \in Pollers, job[p].pc \in Routing
  PROVE  /\ Id(p) \in Intents /\ Delta(p) \in Nat
         /\ job[p].exec \in Nat /\ job[p].item.cum \in Nat
         /\ job[p].exec = job[p].item.cum + Delta(p)
         /\ job[p].item.cum <= booked[Id(p)] + dropped[Id(p)]
         /\ booked \in [Intents -> Nat] /\ dropped \in [Intents -> Nat]
<1>1. GoodJob(job[p]) /\ job[p] \in JobType
  BY JobFacts
<1>2. /\ job[p].exec \in Nat /\ job[p].item.cum \in Nat
      /\ GoodItem(job[p].item) /\ job[p].item.cum < job[p].exec
  BY <1>1 DEF GoodJob, JobType, Items
<1>3. Delta(p) \in Nat /\ job[p].exec = job[p].item.cum + Delta(p)
  BY <1>2 DEF Delta
<1> QED BY <1>2, <1>3 DEF GoodItem, Routed, Id, IInv, TypeOK

LEMMA BookFacts ==
  ASSUME IInv, NEW p \in Pollers, job[p].pc \in Routing,
         DOMAIN positions \subseteq DOMAIN positions',
         \/ Book(p) /\ UNCHANGED dropped
         \/ dropped' = [dropped EXCEPT ![Id(p)] = @ + Delta(p)] /\ UNCHANGED booked
  PROVE  Forward /\ job[p].exec <= booked'[Id(p)] + dropped'[Id(p)]
<1> DEFINE i == Id(p)
<1>1. /\ i \in Intents /\ Delta(p) \in Nat
      /\ job[p].exec \in Nat /\ job[p].item.cum \in Nat
      /\ job[p].exec = job[p].item.cum + Delta(p)
      /\ job[p].item.cum <= booked[i] + dropped[i]
      /\ booked \in [Intents -> Nat] /\ dropped \in [Intents -> Nat]
  BY FillFacts
<1>2. CASE Book(p) /\ UNCHANGED dropped
  <2>1. booked' = [booked EXCEPT ![i] = booked[i] + Delta(p)] /\ dropped' = dropped
    BY <1>2 DEF Book
  <2>2. /\ booked' \in [Intents -> Nat]
        /\ booked'[i] = booked[i] + Delta(p)
        /\ \A k \in Intents : k # i => booked'[k] = booked[k]
    BY <1>1, <2>1
  <2> HIDE DEF i
  <2>3. \A k \in Intents : booked[k] + dropped[k] <= booked'[k] + dropped'[k]
    BY <1>1, <2>1, <2>2
  <2>4. job[p].exec <= booked'[i] + dropped'[i]
    BY <1>1, <2>1, <2>2
  <2> QED BY <1>1, <2>1, <2>2, <2>3, <2>4 DEF Forward, i
<1>3. CASE dropped' = [dropped EXCEPT ![Id(p)] = @ + Delta(p)] /\ UNCHANGED booked
  <2>1. dropped' = [dropped EXCEPT ![i] = dropped[i] + Delta(p)] /\ booked' = booked
    BY <1>3
  <2>2. /\ dropped' \in [Intents -> Nat]
        /\ dropped'[i] = dropped[i] + Delta(p)
        /\ \A k \in Intents : k # i => dropped'[k] = dropped[k]
    BY <1>1, <2>1
  <2> HIDE DEF i
  <2>3. \A k \in Intents : booked[k] + dropped[k] <= booked'[k] + dropped'[k]
    BY <1>1, <2>1, <2>2
  <2>4. job[p].exec <= booked'[i] + dropped'[i]
    BY <1>1, <2>1, <2>2
  <2> QED BY <1>1, <2>1, <2>2, <2>3, <2>4 DEF Forward, i
<1> QED BY <1>2, <1>3

\* The item is routed, and the poll goes on to record it.
LEMMA RoutedInv ==
  ASSUME IInv, NEW p \in Pollers, Forward, job[p].pc \in Routing \cup Settling,
         job[p].exec <= booked'[Id(p)] + dropped'[Id(p)],
         UNCHANGED <<run, intent, order, faults>>,
         positions' \in Seq(PositionType),
         NEW pc \in {"write", "so", "finalize"}, Goto(p, pc),
         pc # "write" => job[p].pc \in AtPosition
  PROVE  IInv'
<1> DEFINE k == [job[p] EXCEPT !.pc = pc]
<1>1. /\ job[p] \in JobType /\ job \in [Pollers -> JobType]
      /\ GoodJob(job[p]) /\ GoodNext(job[p])
  BY JobFacts, GoodStays
<1>2. pc \in Pcs /\ pc \notin Routing
  BY DEF Pcs, Routing
<1>3. /\ k \in JobType /\ k.pc = pc /\ k.batch = job[p].batch
      /\ k.item = job[p].item /\ k.exec = job[p].exec /\ k.pos = job[p].pos
  BY <1>1, <1>2 DEF JobType
<1>4. job[p].item.id \in Intents
  BY <1>1 DEF GoodJob, GoodItem
<1>5. pc \in AtPosition => job[p].pc \in AtPosition
  BY DEF AtPosition
<1>6. GoodNext(k)
  BY <1>1, <1>2, <1>3, <1>4, <1>5 DEF GoodNext, Id
<1>7. job' = [job EXCEPT ![p] = k]
  BY <1>1 DEF Goto
<1> QED BY <1>6, <1>7, RowsForward, OneJobMoves

LEMMA DropInv ==
  ASSUME IInv, NEW p \in Pollers, job[p].pc \in Routing, Drop(p)
  PROVE  IInv'
<1>1. /\ UNCHANGED <<run, intent, order, positions, booked, faults>>
      /\ dropped' = [dropped EXCEPT ![Id(p)] = @ + Delta(p)]
      /\ Goto(p, "write")
  BY DEF Drop
<1>2. Forward /\ job[p].exec <= booked'[Id(p)] + dropped'[Id(p)]
  BY <1>1, BookFacts
<1>3. positions' \in Seq(PositionType)
  BY <1>1, PositionFacts
<1> QED BY <1>1, <1>2, <1>3, RoutedInv

LEMMA RouteEntryInv ==
  ASSUME IInv, NEW p \in Pollers, RouteEntry(p)
  PROVE  IInv'
<1> DEFINE mine == OpenOf(intent[Id(p)].run)
<1>1. job[p].pc = "route" /\ job[p].pc \in Routing
  BY DEF RouteEntry, At, Routing
<1>2. CASE UNCHANGED <<run, intent, order, book, faults>> /\ Goto(p, "open")
  <2>1. Still /\ "open" \in Pcs \ (Settling \cup AtPosition)
    BY <1>2 DEF Still, book, Pcs, Settling, AtPosition
  <2> QED BY <1>1, <1>2, <2>1, GotoInv
<1>3. ASSUME UNCHANGED <<run, intent, order, book, faults>>, NEW k \in mine,
             job' = [job EXCEPT ![p].pc = "add", ![p].pos = k]
      PROVE  IInv'
  <2> DEFINE j == [job[p] EXCEPT !.pc = "add", !.pos = k,
                     !.held = job[p].held, !.ladder = job[p].ladder]
  <2>1. Still /\ "add" \in Pcs \ Settling
    BY <1>3 DEF Still, book, Pcs, Settling
  <2>2. k \in DOMAIN positions /\ k \in Nat
    BY PositionFacts DEF OpenOf, OpenPositions
  <2>3. /\ job[p] \in JobType /\ job \in [Pollers -> JobType] /\ GoodJob(job[p])
        /\ job[p].held \in Nat /\ job[p].ladder \in Ladders
    BY JobFacts DEF JobType
  <2>4. GoodJob(j)
    BY <1>1, <2>1, <2>2, <2>3, ReadGood
  <2>5. job' = [job EXCEPT ![p] = j]
    BY <1>3, <2>3 DEF JobType
  <2> QED BY <2>1, <2>4, <2>5, ReadStep
<1> QED BY <1>1, <1>2, <1>3, DropInv DEF RouteEntry

LEMMA RouteExitInv ==
  ASSUME IInv, NEW p \in Pollers, RouteExit(p)
  PROVE  IInv'
<1> DEFINE k == intent[Id(p)].pos
<1>1. job[p].pc = "route" /\ job[p].pc \in Routing
  BY DEF RouteExit, At, Routing
<1>2. k \in DOMAIN positions /\ k \in Nat
  <2>1. Id(p) \in Intents /\ intent[Id(p)].kind = "EXIT"
    BY <1>1, FillFacts DEF RouteExit
  <2> QED BY <2>1, PositionFacts DEF IInv, ExitsHavePosition
<1>3. ASSUME UNCHANGED <<run, intent, order, book, faults>>,
             job' = [job EXCEPT ![p].pc = "close", ![p].pos = k]
      PROVE  IInv'
  <2> DEFINE j == [job[p] EXCEPT !.pc = "close", !.pos = k,
                     !.held = job[p].held, !.ladder = job[p].ladder]
  <2>1. Still /\ "close" \in Pcs \ Settling
    BY <1>3 DEF Still, book, Pcs, Settling
  <2>3. /\ job[p] \in JobType /\ job \in [Pollers -> JobType] /\ GoodJob(job[p])
        /\ job[p].held \in Nat /\ job[p].ladder \in Ladders
    BY JobFacts DEF JobType
  <2>4. GoodJob(j)
    BY <1>1, <1>2, <2>1, <2>3, ReadGood
  <2>5. job' = [job EXCEPT ![p] = j]
    BY <1>3, <2>3 DEF JobType
  <2> QED BY <2>1, <2>4, <2>5, ReadStep
<1> QED BY <1>1, <1>3, DropInv DEF RouteExit

LEMMA CreatePositionInv ==
  ASSUME IInv, NEW p \in Pollers, CreatePosition(p)
  PROVE  IInv'
<1>1. job[p].pc \in Routing
  BY DEF CreatePosition, At, Routing
<1>2. /\ UNCHANGED <<run, intent, order, dropped, faults>>
      /\ Book(p) /\ Goto(p, "write")
  BY DEF CreatePosition
<1>3. PICK v : /\ positions' = Append(positions, v)
               /\ v = [run |-> intent[Id(p)].run, open |-> TRUE, qty |-> Delta(p),
                       events |-> Delta(p),
                       ladder |-> IF Dca /\ intent[Id(p)].so = NoSo
                                  THEN BaseFilled ELSE NoLadder]
  BY DEF CreatePosition
<1>4. v \in PositionType
  <2>1. Delta(p) \in Nat /\ intent[Id(p)].run \in Nat
    BY <1>1, FillFacts DEF IInv, TypeOK, IntentType
  <2> QED BY <1>3, <2>1, LadderTypes DEF PositionType
<1>5. positions' \in Seq(PositionType) /\ DOMAIN positions \subseteq DOMAIN positions'
  BY <1>3, <1>4, PositionFacts
<1>6. Forward /\ job[p].exec <= booked'[Id(p)] + dropped'[Id(p)]
  BY <1>1, <1>2, <1>5, BookFacts
<1> QED BY <1>1, <1>2, <1>5, <1>6, RoutedInv

LEMMA AddWriteInv ==
  ASSUME IInv, NEW p \in Pollers, AddWrite(p)
  PROVE  IInv'
<1> DEFINE k == job[p].pos
<1>1. job[p].pc \in Routing /\ job[p].pc \in AtPosition
  BY DEF AddWrite, At, Routing, AtPosition
<1>2. PICK pc \in {"write", "so"} : Goto(p, pc)
  BY DEF AddWrite
<1>3. /\ UNCHANGED <<run, intent, order, dropped, faults>> /\ Book(p)
      /\ positions' = [positions EXCEPT ![k] =
                         [positions[k] EXCEPT !.qty = job[p].held + Delta(p),
                                              !.events = @ + Delta(p)]]
  BY DEF AddWrite
<1>4. k \in DOMAIN positions /\ job[p].held \in Nat /\ Delta(p) \in Nat
  BY <1>1, JobFacts, FillFacts DEF GoodJob, JobType
<1>5. [positions[k] EXCEPT !.qty = job[p].held + Delta(p),
                           !.events = @ + Delta(p)] \in PositionType
  <2>1. /\ job[p].held + Delta(p) \in Nat /\ positions[k].events + Delta(p) \in Int
        /\ positions[k] \in PositionType
    BY <1>4, PositionFacts
  <2> QED BY <2>1 DEF PositionType
<1>6. positions' \in Seq(PositionType) /\ DOMAIN positions' = DOMAIN positions
  BY <1>3, <1>4, <1>5, PositionFacts, PositionWritten
<1>7. Forward /\ job[p].exec <= booked'[Id(p)] + dropped'[Id(p)]
  BY <1>1, <1>3, <1>6, BookFacts
<1> QED BY <1>1, <1>2, <1>3, <1>6, <1>7, RoutedInv

LEMMA CloseWriteInv ==
  ASSUME IInv, NEW p \in Pollers, CloseWrite(p)
  PROVE  IInv'
<1> DEFINE k == job[p].pos
           left == job[p].held - Delta(p)
           o == IF left = 0 THEN FALSE ELSE positions[k].open
<1>1. job[p].pc \in Routing /\ job[p].pc \in AtPosition /\ job[p].pc = "closed"
  BY DEF CloseWrite, At, Routing, AtPosition
<1>2. positions' = [positions EXCEPT ![k] =
                      [positions[k] EXCEPT !.qty = left,
                         !.events = @ - Delta(p), !.open = o]]
  BY DEF CloseWrite
<1>3. /\ UNCHANGED <<run, intent, order, dropped, faults>>
      /\ Book(p) /\ Goto(p, "finalize")
  BY DEF CloseWrite
<1>4. k \in DOMAIN positions /\ left \in Nat /\ Delta(p) \in Nat
  <2>1. /\ job[p].held \in Nat /\ k \in DOMAIN positions
        /\ job[p].exec - job[p].item.cum <= job[p].held
    BY <1>1, JobFacts DEF GoodJob, JobType
  <2>2. Delta(p) \in Nat /\ Delta(p) <= job[p].held
    BY <1>1, <2>1, FillFacts DEF Delta
  <2> QED BY <2>1, <2>2
<1>5. [positions[k] EXCEPT !.qty = left, !.events = @ - Delta(p),
                           !.open = o] \in PositionType
  <2>1. /\ positions[k] \in PositionType
        /\ positions[k].open \in BOOLEAN /\ positions[k].events \in Int
    BY <1>4, PositionFacts
  <2>2. o \in BOOLEAN
    BY <2>1
  <2>3. positions[k].events - Delta(p) \in Int
    BY <1>4, <2>1
  <2> HIDE DEF o, left
  <2> QED BY <1>4, <2>1, <2>2, <2>3 DEF PositionType
<1>6. positions' \in Seq(PositionType) /\ DOMAIN positions' = DOMAIN positions
  BY <1>2, <1>4, <1>5, PositionFacts, PositionWritten
<1>7. Forward /\ job[p].exec <= booked'[Id(p)] + dropped'[Id(p)]
  BY <1>1, <1>3, <1>6, BookFacts
<1> QED BY <1>1, <1>3, <1>6, <1>7, RoutedInv

\* The ladder of a position is rewritten and nothing is booked.
LEMMA LadderStep ==
  ASSUME IInv, NEW p \in Pollers, job[p].pc \in AtPosition, NEW d \in Ladders,
         positions' = [positions EXCEPT ![job[p].pos].ladder = d],
         UNCHANGED <<booked, dropped>>
  PROVE  Forward /\ positions' \in Seq(PositionType)
<1> DEFINE k == job[p].pos
<1>1. k \in DOMAIN positions
  BY JobFacts DEF GoodJob
<1>2. [positions[k] EXCEPT !.ladder = d] \in PositionType
  BY <1>1, PositionFacts DEF PositionType
<1>3. positions' \in Seq(PositionType) /\ DOMAIN positions' = DOMAIN positions
  <2>1. positions' = [positions EXCEPT ![k] = [positions[k] EXCEPT !.ladder = d]]
    OBVIOUS
  <2>2. positions \in Seq(PositionType)
    BY PositionFacts
  <2>3. ASSUME NEW v \in PositionType
        PROVE  /\ [positions EXCEPT ![k] = v] \in Seq(PositionType)
               /\ DOMAIN [positions EXCEPT ![k] = v] = DOMAIN positions
    BY <1>1, <2>2, PositionWritten
  <2> QED BY <1>2, <2>1, <2>3
<1> QED BY <1>3 DEF Forward, IInv, TypeOK

\* A poll that settles has its fill booked or dropped already.
LEMMA SettlingFacts ==
  ASSUME IInv, NEW p \in Pollers, job[p].pc \in Settling
  PROVE  /\ Id(p) \in Intents /\ job[p].exec \in Nat
         /\ job[p].exec <= booked[Id(p)] + dropped[Id(p)]
         /\ booked \in [Intents -> Nat] /\ dropped \in [Intents -> Nat]
  BY JobFacts DEF GoodJob, JobType, Routed, Id, IInv, TypeOK

LEMMA LadderWriteInv ==
  ASSUME IInv, NEW p \in Pollers, LadderWrite(p)
  PROVE  IInv'
<1>1. job[p].pc \in Settling /\ job[p].pc \in AtPosition
  BY DEF LadderWrite, At, Settling, AtPosition
<1>2. /\ UNCHANGED <<run, intent, order, booked, dropped, faults>>
      /\ positions' = [positions EXCEPT ![job[p].pos].ladder = Advanced(job[p].ladder)]
      /\ Goto(p, "write") \/ Return(p)
  BY DEF LadderWrite
<1>3. Advanced(job[p].ladder) \in Ladders
  BY JobFacts, LadderTypes DEF JobType
<1>4. Forward /\ positions' \in Seq(PositionType)
  BY <1>1, <1>2, <1>3, LadderStep
<1>5. job[p].exec <= booked'[Id(p)] + dropped'[Id(p)]
  BY <1>1, <1>2, SettlingFacts
<1>6. CASE Goto(p, "write")
  BY <1>1, <1>2, <1>4, <1>5, <1>6, RoutedInv
<1>7. CASE Return(p)
  <2>1. GoodNext(Job("reconcile", job[p].batch))
    BY <1>4, JobFacts, FreshJob, GoodStays
  <2>2. job' = [job EXCEPT ![p] = Job("reconcile", job[p].batch)]
    BY <1>7, JobFacts DEF Return
  <2> QED BY <1>2, <1>4, <2>1, <2>2, RowsForward, OneJobMoves
<1> QED BY <1>2, <1>6, <1>7

LEMMA FinalizeWriteInv ==
  ASSUME IInv, NEW p \in Pollers, FinalizeWrite(p)
  PROVE  IInv'
<1>1. job[p].pc \in Settling /\ job[p].pc \in AtPosition
  BY DEF FinalizeWrite, At, Settling, AtPosition
<1>2. /\ UNCHANGED <<run, intent, order, booked, dropped, faults>>
      /\ positions' = [positions EXCEPT ![job[p].pos].ladder = Completed(job[p].ladder)]
      /\ Goto(p, "write")
  BY DEF FinalizeWrite
<1>3. Completed(job[p].ladder) \in Ladders
  BY JobFacts, LadderTypes DEF JobType
<1>4. Forward /\ positions' \in Seq(PositionType)
  BY <1>1, <1>2, <1>3, LadderStep
<1>5. job[p].exec <= booked'[Id(p)] + dropped'[Id(p)]
  BY <1>1, <1>2, SettlingFacts
<1> QED BY <1>1, <1>2, <1>4, <1>5, RoutedInv

-----------------------------------------------------------------------------
(* Steps that write intents                                                  *)

LEMMA NothingBooked ==
  ASSUME IInv, UNCHANGED <<positions, booked, dropped>>
  PROVE  Forward
  BY DEF Forward, IInv, TypeOK

LEMMA WriteIntentInv ==
  ASSUME IInv, NEW p \in Pollers, WriteIntent(p)
  PROVE  IInv'
<1> DEFINE i == Id(p)
           r == [intent[i] EXCEPT !.cum = job[p].exec, !.done = job[p].over]
<1>1. job[p].pc \in Settling
  BY DEF WriteIntent, At, Settling
<1>2. /\ intent' = [intent EXCEPT ![i] = r]
      /\ UNCHANGED <<run, order, positions, booked, dropped, faults>>
      /\ Return(p)
  BY DEF WriteIntent, book
<1>3. /\ i \in Intents /\ job[p].exec \in Nat /\ job[p].over \in BOOLEAN
      /\ job[p].exec <= booked[i] + dropped[i] /\ intent[i] \in IntentType
  BY <1>1, JobFacts, SettlingFacts DEF JobType, IInv, TypeOK
<1>4. r \in IntentType /\ r.cum = job[p].exec /\ r.kind = intent[i].kind
      /\ r.pos = intent[i].pos
  BY <1>3 DEF IntentType
<1>5. RowsOK /\ intent \in [Intents -> IntentType]
  BY RowsFrom DEF RowsOK
<1>6. RowsOK'
  <2> HIDE DEF r, i
  <2>1. intent' \in [Intents -> IntentType]
    BY <1>2, <1>4, <1>5
  <2>2. RecordedIsBooked'
    BY <1>2, <1>3, <1>4, <1>5 DEF RowsOK, RecordedIsBooked
  <2>3. ExitsHavePosition'
    BY <1>2, <1>3, <1>4, <1>5 DEF RowsOK, ExitsHavePosition
  <2> QED BY <1>2, <1>5, <2>1, <2>2, <2>3 DEF RowsOK
<1>7. Forward
  BY <1>2, NothingBooked
<1>8. GoodNext(Job("reconcile", job[p].batch))
  BY <1>7, JobFacts, FreshJob, GoodStays
<1>9. job' = [job EXCEPT ![p] = Job("reconcile", job[p].batch)]
  BY <1>2, JobFacts DEF Return
<1> QED BY <1>6, <1>7, <1>8, <1>9, OneJobMoves

LEMMA CreateFacts ==
  ASSUME IInv, NEW i \in Intents, NEW r \in IntentType, r.cum = 0,
         r.kind = "EXIT" => r.pos \in DOMAIN positions,
         CreateIntent(i, r), UNCHANGED <<run, positions, booked, dropped, faults>>
  PROVE  Forward /\ RowsOK'
<1>1. Forward
  BY NothingBooked
<1>2. /\ RowsOK /\ intent \in [Intents -> IntentType]
      /\ order \in [Intents -> [exec : Nat, live : BOOLEAN]]
      /\ booked \in [Intents -> Nat] /\ dropped \in [Intents -> Nat]
  BY RowsFrom DEF RowsOK, IInv, TypeOK
<1>3. /\ intent' = [intent EXCEPT ![i] = r]
      /\ order' = [order EXCEPT ![i] = [order[i] EXCEPT !.live = TRUE]]
  BY DEF CreateIntent
<1>4. intent' \in [Intents -> IntentType]
  BY <1>2, <1>3
<1>5. order' \in [Intents -> [exec : Nat, live : BOOLEAN]]
  BY <1>2, <1>3
<1>6. RecordedIsBooked'
  BY <1>2, <1>3 DEF RowsOK, RecordedIsBooked
<1>7. ExitsHavePosition'
  BY <1>2, <1>3 DEF RowsOK, ExitsHavePosition
<1> QED BY <1>1, <1>2, <1>4, <1>5, <1>6, <1>7 DEF RowsOK

LEMMA RowTypes ==
  ASSUME NEW kind \in {"ENTRY", "EXIT"}, NEW rn \in Nat, NEW qty \in Nat,
         NEW pos \in Nat, NEW so \in -1..MaxSO
  PROVE  /\ Row(kind, rn, qty, pos, so) \in IntentType
         /\ Row(kind, rn, qty, pos, so).cum = 0
         /\ Row(kind, rn, qty, pos, so).kind = kind
         /\ Row(kind, rn, qty, pos, so).pos = pos
<1>1. NoRow \in IntentType /\ NoRow.cum = 0
  BY FillConstants DEF NoRow, IntentType, NoPos, NoSo
<1> QED BY <1>1 DEF Row, IntentType

LEMMA EntryRow ==
  ASSUME NEW rn \in Nat, NEW qty \in Nat, NEW pos \in Nat, NEW so \in -1..MaxSO
  PROVE  /\ Row("ENTRY", rn, qty, pos, so) \in IntentType
         /\ Row("ENTRY", rn, qty, pos, so).cum = 0
         /\ Row("ENTRY", rn, qty, pos, so).kind # "EXIT"
<1>1. "ENTRY" \in {"ENTRY", "EXIT"} /\ "ENTRY" # "EXIT"
  OBVIOUS
<1> QED BY <1>1, RowTypes

LEMMA SignalInv ==
  ASSUME IInv, NEW p \in Pollers
  PROVE  /\ EntrySignal(p) => IInv'
         /\ ExitSignal(p) => IInv'
<1>1. /\ job[p].run \in Nat /\ job[p].held \in Nat /\ job[p].pos \in Nat
      /\ BaseQty \in Nat /\ NoPos \in Nat /\ NoSo \in -1..MaxSO
  BY JobFacts, FillConstants DEF JobType, NoPos, NoSo
<1>2. ASSUME EntrySignal(p) PROVE IInv'
  <2>1. PICK i \in Intents :
          CreateIntent(i, Row("ENTRY", job[p].run, BaseQty, NoPos, NoSo))
    BY <1>2 DEF EntrySignal, Unused
  <2>2. UNCHANGED <<run, positions, booked, dropped, faults>>
        /\ job' = [job EXCEPT ![p] = Idle]
    BY <1>2 DEF EntrySignal, book
  <2> DEFINE r == Row("ENTRY", job[p].run, BaseQty, NoPos, NoSo)
  <2>a. r \in IntentType /\ r.cum = 0 /\ r.kind # "EXIT"
    <3>1. NoSo \in -1..MaxSO /\ NoPos \in Nat /\ BaseQty \in Nat
      BY <1>1
    <3>2. \A n \in Nat : /\ Row("ENTRY", n, BaseQty, NoPos, NoSo) \in IntentType
                         /\ Row("ENTRY", n, BaseQty, NoPos, NoSo).cum = 0
                         /\ Row("ENTRY", n, BaseQty, NoPos, NoSo).kind # "EXIT"
      BY <3>1, EntryRow
    <3> QED BY <1>1, <3>2
  <2>3. Forward /\ RowsOK'
    BY <2>1, <2>2, <2>a, CreateFacts
  <2> QED BY <2>2, <2>3, IdleGood, GoodStays, OneJobMoves
<1>3. ASSUME ExitSignal(p) PROVE IInv'
  <2>1. PICK i \in Intents :
          CreateIntent(i, Row("EXIT", job[p].run, job[p].held, job[p].pos, NoSo))
    BY <1>3 DEF ExitSignal, Unused
  <2>2. UNCHANGED <<run, positions, booked, dropped, faults>>
        /\ job' = [job EXCEPT ![p] = Idle]
    BY <1>3 DEF ExitSignal, book
  <2>3. job[p].pos \in DOMAIN positions
    BY <1>3, JobFacts DEF ExitSignal, At, GoodJob, AtPosition
  <2>4. Forward /\ RowsOK'
    BY SMTT(30), <1>1, <2>1, <2>2, <2>3, RowTypes, CreateFacts
  <2> QED BY <2>2, <2>4, IdleGood, GoodStays, OneJobMoves
<1> QED BY <1>2, <1>3

LEMMA TriggerInv ==
  ASSUME IInv, NEW p \in Pollers, TriggerSafetyOrder(p)
  PROVE  IInv'
<1> DEFINE so == job[p].ladder.next
           d == [job[p].ladder EXCEPT !.next = so + 1]
           j == [job[p] EXCEPT !.ladder = d]
<1>1. /\ job[p] \in JobType /\ job \in [Pollers -> JobType] /\ GoodJob(job[p])
      /\ job[p].ladder \in Ladders /\ job[p].run \in Nat /\ job[p].pos \in Nat
  BY JobFacts DEF JobType
<1>2. /\ UNCHANGED <<run, positions, booked, dropped, faults>>
      /\ job' = [job EXCEPT ![p] = j]
  BY DEF TriggerSafetyOrder, book
<1>3. so \in -1..MaxSO /\ so + 1 \in -1..MaxSO
  <2>1. so \in -1..MaxSO /\ so < MaxSO
    BY <1>1 DEF Ladders, TriggerSafetyOrder
  <2> QED BY <2>1, FillConstants
<1>4. GoodJob(j)
  <2>1. d \in Ladders
    BY <1>1, <1>3 DEF Ladders
  <2>2. /\ j \in JobType /\ j.pc = job[p].pc /\ j.batch = job[p].batch
        /\ j.item = job[p].item /\ j.exec = job[p].exec
        /\ j.pos = job[p].pos /\ j.held = job[p].held
    BY <1>1, <2>1 DEF JobType
  <2> QED BY <1>1, <2>2 DEF GoodJob
<1>5. CASE UNCHANGED <<intent, order>>
  <2>1. Still
    BY <1>2, <1>5 DEF Still
  <2> QED BY <1>2, <1>4, <2>1, ReadStep
<1>6. CASE \E i \in Unused : CreateIntent(i, Row("ENTRY", job[p].run, 1, job[p].pos, so))
  <2>1. PICK i \in Intents : CreateIntent(i, Row("ENTRY", job[p].run, 1, job[p].pos, so))
    BY <1>6 DEF Unused
  <2> DEFINE r == Row("ENTRY", job[p].run, 1, job[p].pos, so)
  <2>a. r \in IntentType /\ r.cum = 0 /\ r.kind # "EXIT"
    BY ZenonT(40), <1>1, <1>3, EntryRow
  <2>2. Forward /\ RowsOK'
    BY <1>2, <2>1, <2>a, CreateFacts
  <2> QED BY <1>2, <1>4, <2>2, GoodStays, OneJobMoves
<1> QED BY <1>5, <1>6 DEF TriggerSafetyOrder

-----------------------------------------------------------------------------
(* The exchange, the runs, crashes                                           *)

LEMMA OtherInv ==
  ASSUME IInv
  PROVE  /\ \A i \in Intents : OrderFills(i) \/ OrderCancelled(i) => IInv'
         /\ NextRun => IInv'
         /\ \A p \in Pollers : WorkerCrash(p) => IInv'
         /\ UNCHANGED vars => IInv'
<1>0. RowsOK /\ job \in [Pollers -> JobType] /\ \A p \in Pollers : GoodJob(job[p])
  BY RowsFrom DEF IInv, TypeOK
<1>1. ASSUME UNCHANGED <<positions, booked, dropped, job>>, RowsOK'
      PROVE  IInv'
  <2>1. Forward
    BY <1>1, NothingBooked
  <2>2. \A p \in Pollers : GoodNext(job'[p])
    BY <1>0, <1>1, <2>1, GoodStays
  <2> QED BY <1>0, <1>1, <2>1, <2>2, JobsMove
<1>2. ASSUME NEW i \in Intents, NEW o \in [exec : Nat, live : BOOLEAN],
             order' = [order EXCEPT ![i] = o],
             UNCHANGED <<run, intent, book, job, faults>>
      PROVE  IInv'
  <2>1. order' \in [Intents -> [exec : Nat, live : BOOLEAN]]
    BY <1>0, <1>2 DEF RowsOK
  <2>2. RowsOK'
    BY <1>0, <1>2, <2>1 DEF RowsOK, RecordedIsBooked, ExitsHavePosition, book
  <2> QED BY <1>1, <1>2, <2>2 DEF book
<1>3. ASSUME NEW i \in Intents, OrderFills(i) PROVE IInv'
  <2>1. order[i].exec \in Nat /\ intent[i].qty \in Nat
    BY <1>0 DEF RowsOK, IntentType
  <2>2. PICK q \in (order[i].exec + 1)..intent[i].qty :
          order' = [order EXCEPT ![i] = [exec |-> q, live |-> q < intent[i].qty]]
    BY <1>3 DEF OrderFills
  <2>3. [exec |-> q, live |-> q < intent[i].qty] \in [exec : Nat, live : BOOLEAN]
    BY <2>1
  <2> QED BY <1>2, <1>3, <2>2, <2>3 DEF OrderFills
<1>4. ASSUME NEW i \in Intents, OrderCancelled(i) PROVE IInv'
  <2>1. order' = [order EXCEPT ![i] = [order[i] EXCEPT !.live = FALSE]]
    BY <1>4 DEF OrderCancelled
  <2>2. [order[i] EXCEPT !.live = FALSE] \in [exec : Nat, live : BOOLEAN]
    BY <1>0 DEF RowsOK
  <2> QED BY <1>2, <1>4, <2>1, <2>2 DEF OrderCancelled
<1>5. ASSUME NextRun PROVE IInv'
  <2>1. RowsOK'
    BY <1>0, <1>5 DEF NextRun, RowsOK, RecordedIsBooked, ExitsHavePosition, book
  <2> QED BY <1>1, <1>5, <2>1 DEF NextRun, book
<1>6. ASSUME NEW p \in Pollers, WorkerCrash(p) PROVE IInv'
  <2>1. /\ UNCHANGED <<run, intent, order, positions, booked, dropped>>
        /\ faults' = faults + 1 /\ job' = [job EXCEPT ![p] = Idle]
    BY <1>6 DEF WorkerCrash, book
  <2>2. Forward
    BY <2>1, NothingBooked
  <2>3. RowsOK'
    BY <1>0, <2>1 DEF RowsOK, RecordedIsBooked, ExitsHavePosition
  <2> QED BY <2>1, <2>2, <2>3, IdleGood, GoodStays, OneJobMoves
<1>7. ASSUME UNCHANGED vars PROVE IInv'
  <2>1. RowsOK'
    BY <1>0, <1>7 DEF vars, RowsOK, RecordedIsBooked, ExitsHavePosition
  <2> QED BY <1>1, <1>7, <2>1 DEF vars
<1> QED BY <1>3, <1>4, <1>5, <1>6, <1>7

LEMMA NextInv == IInv /\ [Next]_vars => IInv'
<1> SUFFICES ASSUME IInv, [Next]_vars PROVE IInv'
  OBVIOUS
<1>1. ASSUME NEW p \in Pollers, Reconcile(p) PROVE IInv'
  BY <1>1, FetchInv, QueryInv, RouteEntryInv, ReaderInv, CreatePositionInv,
     AddWriteInv, LadderWriteInv, RouteExitInv, CloseWriteInv,
     FinalizeWriteInv, WriteIntentInv DEF Reconcile
<1>2. ASSUME NEW p \in Pollers, EvaluateStrategies(p) PROVE IInv'
  BY <1>2, EvaluateInv, SignalInv, ReaderInv, TriggerInv DEF EvaluateStrategies
<1> QED BY <1>1, <1>2, OtherInv DEF Next

-----------------------------------------------------------------------------
(* Theorems                                                                  *)

\* The inductive invariant: at every program point a poll holds a fill that is
\* still to be routed or one that is, and a position that exists.
THEOREM InductiveInvariant == Spec => []IInv
  BY InitInv, NextInv, PTL DEF Spec

\* Quantities stay natural numbers (no close takes more than is held) and
\* ladders inside their schedule, for reconcileEntryFill, reconcileExitFill
\* and evaluateStrategies in any overlap.
THEOREM TypeCorrect == Spec => []TypeOK
<1>1. IInv => TypeOK
  BY DEF IInv
<1> QED BY <1>1, InductiveInvariant, PTL

\* reconcilePlacedIntents never records a fill (cumExecQty) it has neither
\* booked in PositionEvents nor dropped, whatever polls overlap or die.
THEOREM NoFillIsLost == Spec => []RecordedIsBooked
<1>1. IInv => RecordedIsBooked
  BY DEF IInv
<1> QED BY <1>1, InductiveInvariant, PTL

-----------------------------------------------------------------------------
(* One poll at a time: what it holds of its item is not stale                *)

LEMMA OnlyJob ==
  ASSUME OnePoll, IInv, NEW p \in Pollers, NEW j, job' = [job EXCEPT ![p] = j]
  PROVE  job'[p] = j /\ \A q \in Pollers : q = p
  BY DEF OnePoll, IInv, TypeOK

LEMMA FillTypes ==
  ASSUME IInv
  PROVE  /\ intent \in [Intents -> IntentType]
         /\ booked \in [Intents -> Nat] /\ dropped \in [Intents -> Nat]
         /\ faults \in Nat
         /\ \A i \in Intents : /\ intent[i].cum \in Nat /\ intent[i].qty \in Nat
                               /\ Routed(i) \in Nat /\ order[i].exec \in Nat
         /\ \A p \in Pollers :
              /\ \A x \in job[p].batch : x.id \in Intents /\ x.cum \in Nat
              /\ job[p].exec \in Nat /\ job[p].item.cum \in Nat
              /\ job[p].pc \in Routing \cup Settling => job[p].item.id \in Intents
<1>1. /\ intent \in [Intents -> IntentType]
      /\ booked \in [Intents -> Nat] /\ dropped \in [Intents -> Nat]
      /\ order \in [Intents -> [exec : Nat, live : BOOLEAN]]
      /\ faults \in Nat
  BY DEF IInv, TypeOK
<1>2. \A i \in Intents : /\ intent[i].cum \in Nat /\ intent[i].qty \in Nat
                         /\ Routed(i) \in Nat /\ order[i].exec \in Nat
  BY <1>1 DEF IntentType, Routed
<1>3. ASSUME NEW p \in Pollers
      PROVE  /\ \A x \in job[p].batch : x.id \in Intents /\ x.cum \in Nat
             /\ job[p].exec \in Nat /\ job[p].item.cum \in Nat
             /\ job[p].pc \in Routing \cup Settling => job[p].item.id \in Intents
  <2>1. job[p] \in JobType /\ GoodJob(job[p])
    BY JobFacts
  <2>2. job[p].exec \in Nat /\ job[p].item \in Items /\ job[p].batch \subseteq Items
    BY <2>1 DEF JobType
  <2>3. \A x \in job[p].batch : x.id \in Intents
    BY <2>1 DEF GoodJob, GoodItem
  <2>4. job[p].pc \in Routing \cup Settling => job[p].item.id \in Intents
    BY <2>1 DEF GoodJob, GoodItem
  <2> QED BY <2>2, <2>3, <2>4 DEF Items
<1> QED BY <1>1, <1>2, <1>3

\* The rows stay, and the poll moves on with its item or puts it down unsettled.
LEMMA ItemStep ==
  ASSUME OnePoll, IInv, FillsIInv, NEW p \in Pollers, NEW j,
         UNCHANGED <<intent, order, booked, dropped, faults>>,
         job' = [job EXCEPT ![p] = j], j.batch \subseteq job[p].batch,
         \/ /\ j.item = job[p].item /\ j.exec = job[p].exec
            /\ j.pc \in Routing => job[p].pc \in Routing
            /\ j.pc \in Settling <=> job[p].pc \in Settling
         \/ j.pc \notin Routing \cup Settling /\ job[p].pc \notin Settling
  PROVE  FillsIInv'
<1>1. job'[p] = j /\ \A q \in Pollers : q = p
  BY OnlyJob
<1>2. \A i : Routed(i)' = Routed(i)
  BY DEF Routed
<1>3. HoldsItem(job[p]) /\ RecordsKeepUp
  BY DEF FillsIInv
<1>4. HoldsItem(job[p])'
  <2>1. /\ \A x, y \in j.batch : x.id = y.id => x = y
        /\ \A x \in j.batch : /\ intent[x.id].kind # "none"
                              /\ faults = 0 => x.cum = Routed(x.id)
    BY <1>3 DEF HoldsItem
  <2>2. CASE /\ j.item = job[p].item /\ j.exec = job[p].exec
             /\ j.pc \in Routing => job[p].pc \in Routing
             /\ j.pc \in Settling <=> job[p].pc \in Settling
    <3>1. j.pc \in Routing \cup Settling =>
            intent[j.item.id].kind # "none" /\ \A x \in j.batch : x.id # j.item.id
      BY <1>3, <2>2 DEF HoldsItem
    <3>2. faults = 0 /\ j.pc \in Routing =>
            j.item.cum = Routed(j.item.id) /\ j.exec <= order[j.item.id].exec
      BY <1>3, <2>2 DEF HoldsItem
    <3>3. faults = 0 /\ j.pc \in Settling => j.exec = Routed(j.item.id)
      BY <1>3, <2>2 DEF HoldsItem
    <3> QED BY <1>1, <2>1, <3>1, <3>2, <3>3 DEF HoldsItem, Routed
  <2>3. CASE j.pc \notin Routing \cup Settling
    BY <1>1, <2>1, <2>3 DEF HoldsItem, Routed
  <2> QED BY <2>2, <2>3
<1>6. RecordsKeepUp'
  <2> SUFFICES ASSUME NEW i \in Intents
               PROVE  /\ intent[i].kind = "none" => intent[i].cum = 0 /\ Routed(i) = 0
                      /\ faults = 0 =>
                           /\ Routed(i) <= order[i].exec
                           /\ \/ Settled(i)
                              \/ \E q \in Pollers : /\ job'[q].pc \in Settling
                                                    /\ job'[q].item.id = i
    BY DEF RecordsKeepUp, Settled, Routed
  <2>1. /\ intent[i].kind = "none" => intent[i].cum = 0 /\ Routed(i) = 0
        /\ faults = 0 =>
             /\ Routed(i) <= order[i].exec
             /\ \/ Settled(i)
                \/ job[p].pc \in Settling /\ job[p].item.id = i
    BY <1>1, <1>3 DEF RecordsKeepUp
  <2> QED BY <1>1, <2>1
<1>5. \A q \in Pollers : HoldsItem(job[q])'
  BY <1>1, <1>4, Zenon
<1> QED BY <1>5, <1>6 DEF FillsIInv

\* The fill of the item is booked or dropped: what is routed is what was seen.
LEMMA RoutedBy ==
  ASSUME IInv, NEW p \in Pollers, job[p].pc \in Routing,
         \/ Book(p) /\ UNCHANGED dropped
         \/ dropped' = [dropped EXCEPT ![Id(p)] = @ + Delta(p)] /\ UNCHANGED booked
  PROVE  \A i \in Intents :
           booked'[i] + dropped'[i] =
             IF i = job[p].item.id THEN Routed(i) + (job[p].exec - job[p].item.cum)
             ELSE Routed(i)
<1>1. /\ Id(p) \in Intents /\ Delta(p) \in Nat
      /\ booked \in [Intents -> Nat] /\ dropped \in [Intents -> Nat]
  BY FillFacts
<1>2. Delta(p) = job[p].exec - job[p].item.cum /\ Id(p) = job[p].item.id
  BY DEF Delta, Id
<1>3. CASE Book(p) /\ UNCHANGED dropped
  <2>1. booked' = [booked EXCEPT ![Id(p)] = booked[Id(p)] + Delta(p)]
    BY <1>3 DEF Book
  <2>2. \A i \in Intents : booked[i] \in Nat /\ dropped[i] \in Nat /\ dropped'[i] = dropped[i]
    BY <1>1, <1>3
  <2>3. \A i \in Intents :
          booked'[i] = IF i = Id(p) THEN booked[i] + Delta(p) ELSE booked[i]
    BY <1>1, <2>1
  <2>4. \A i \in Intents :
          booked'[i] + dropped'[i] =
            IF i = Id(p) THEN booked[i] + dropped[i] + Delta(p) ELSE booked[i] + dropped[i]
    BY <1>1, <2>2, <2>3
  <2> QED BY <1>2, <2>4 DEF Routed
<1>4. CASE dropped' = [dropped EXCEPT ![Id(p)] = @ + Delta(p)] /\ UNCHANGED booked
  <2>1. dropped' = [dropped EXCEPT ![Id(p)] = dropped[Id(p)] + Delta(p)]
    BY <1>4
  <2>2. \A i \in Intents : booked[i] \in Nat /\ dropped[i] \in Nat /\ booked'[i] = booked[i]
    BY <1>1, <1>4
  <2>3. \A i \in Intents :
          dropped'[i] = IF i = Id(p) THEN dropped[i] + Delta(p) ELSE dropped[i]
    BY <1>1, <2>1
  <2>4. \A i \in Intents :
          booked'[i] + dropped'[i] =
            IF i = Id(p) THEN booked[i] + dropped[i] + Delta(p) ELSE booked[i] + dropped[i]
    BY <1>1, <2>2, <2>3
  <2> QED BY <1>2, <2>4 DEF Routed
<1> QED BY <1>3, <1>4

LEMMA BookStep ==
  ASSUME OnePoll, IInv, FillsIInv, NEW p \in Pollers, job[p].pc \in Routing,
         NEW pc \in Settling, Goto(p, pc), UNCHANGED <<intent, order, faults>>,
         \/ Book(p) /\ UNCHANGED dropped
         \/ dropped' = [dropped EXCEPT ![Id(p)] = @ + Delta(p)] /\ UNCHANGED booked
  PROVE  FillsIInv'
<1> DEFINE m == job[p].item.id
<1>1. /\ job'[p].pc = pc /\ job'[p].batch = job[p].batch
      /\ job'[p].item = job[p].item /\ job'[p].exec = job[p].exec
      /\ \A q \in Pollers : q = p
  BY JobFacts DEF Goto, OnePoll, JobType
<1>2. /\ HoldsItem(job[p]) /\ RecordsKeepUp
      /\ pc \notin Routing
  BY DEF FillsIInv, Routing, Settling
<1>3. /\ m \in Intents /\ job[p].exec \in Nat /\ job[p].item.cum \in Nat
      /\ \A i \in Intents : Routed(i) \in Nat /\ order[i].exec \in Nat
      /\ \A x \in job[p].batch : x.id \in Intents
  BY FillTypes
<1>4. /\ booked'[m] + dropped'[m] = Routed(m) + (job[p].exec - job[p].item.cum)
      /\ \A i \in Intents : i # m => booked'[i] + dropped'[i] = Routed(i)
  BY <1>3, RoutedBy
<1>5. /\ intent[m].kind # "none"
      /\ \A x \in job[p].batch : x.id # m
      /\ faults = 0 => job[p].item.cum = Routed(m) /\ job[p].exec <= order[m].exec
  BY <1>2 DEF HoldsItem
<1>6. faults = 0 => booked'[m] + dropped'[m] = job[p].exec
  BY <1>3, <1>4, <1>5
<1>7. HoldsItem(job[p])'
  <2>1. /\ \A x, y \in job[p].batch : x.id = y.id => x = y
        /\ \A x \in job[p].batch : /\ intent[x.id].kind # "none"
                                   /\ faults = 0 => x.cum = Routed(x.id)
    BY <1>2 DEF HoldsItem
  <2>2. \A x \in job[p].batch : booked'[x.id] + dropped'[x.id] = Routed(x.id)
    BY <1>3, <1>4, <1>5
  <2> QED BY <1>1, <1>2, <1>5, <1>6, <2>1, <2>2 DEF HoldsItem, Routed
<1>8. \A q \in Pollers : HoldsItem(job[q])'
  BY <1>1, <1>7, Zenon
<1>9. RecordsKeepUp'
  <2> SUFFICES ASSUME NEW i \in Intents
               PROVE  /\ intent[i].kind = "none" =>
                           intent[i].cum = 0 /\ booked'[i] + dropped'[i] = 0
                      /\ faults = 0 =>
                           /\ booked'[i] + dropped'[i] <= order[i].exec
                           /\ \/ intent[i].cum = booked'[i] + dropped'[i]
                              \/ \E q \in Pollers : /\ job'[q].pc \in Settling
                                                    /\ job'[q].item.id = i
    BY DEF RecordsKeepUp, Settled, Routed
  <2>1. CASE i = m
    BY <1>1, <1>3, <1>5, <1>6, <2>1
  <2>2. CASE i # m
    <3>1. /\ intent[i].kind = "none" => intent[i].cum = 0 /\ Routed(i) = 0
          /\ faults = 0 =>
               /\ Routed(i) <= order[i].exec
               /\ \/ Settled(i)
                  \/ job[p].pc \in Settling /\ job[p].item.id = i
      BY <1>1, <1>2 DEF RecordsKeepUp
    <3> QED BY <1>4, <2>2, <3>1 DEF Settled
  <2> QED BY <2>1, <2>2
<1> QED BY <1>8, <1>9 DEF FillsIInv

LEMMA FetchFills ==
  ASSUME OnePoll, IInv, FillsIInv, NEW p \in Pollers, FetchPlaced(p)
  PROVE  FillsIInv'
<1>1. /\ job[p].pc = "idle" /\ \A q \in Pollers : q = p
      /\ UNCHANGED <<intent, order, booked, dropped, faults>>
      /\ \A i \in Intents : Routed(i) \in Nat
      /\ job \in [Pollers -> JobType]
  BY FillTypes, JobFacts DEF FetchPlaced, At, OnePoll, book
<1> DEFINE found == {i \in Intents : /\ intent[i].kind # "none" /\ ~intent[i].done
                                     /\ intent[i].run = run}
           batch == {[id |-> i, cum |-> intent[i].cum] : i \in found}
<1>2. job' = [job EXCEPT ![p] = Job("reconcile", batch)]
  BY DEF FetchPlaced
<1>3. job'[p].pc = "reconcile" /\ job'[p].batch = batch
  BY <1>1, <1>2 DEF Job
<1>4. RecordsKeepUp /\ job[p].pc \notin Settling
  BY <1>1 DEF FillsIInv, Settling
<1>5. \A i \in Intents : /\ intent[i].kind = "none" => intent[i].cum = 0 /\ Routed(i) = 0
                         /\ faults = 0 => Routed(i) <= order[i].exec /\ Settled(i)
  BY <1>1, <1>4 DEF RecordsKeepUp
<1>6. RecordsKeepUp'
  BY <1>1, <1>5 DEF RecordsKeepUp, Settled, Routed
<1>7. \A x \in batch : /\ x.id \in Intents /\ intent[x.id].kind # "none"
                       /\ x = [id |-> x.id, cum |-> intent[x.id].cum]
  OBVIOUS
<1>8. HoldsItem(job[p])'
  <2> HIDE DEF batch
  <2>1. \A x, y \in batch : x.id = y.id => x = y
    BY <1>7
  <2>2. \A x \in batch : /\ intent[x.id].kind # "none"
                         /\ faults = 0 => x.cum = Routed(x.id)
    BY <1>5, <1>7 DEF Settled
  <2>3. "reconcile" \notin Routing \cup Settling
    BY DEF Routing, Settling
  <2> QED BY <1>1, <1>3, <2>1, <2>2, <2>3 DEF HoldsItem, Routed
<1>9. \A q \in Pollers : HoldsItem(job[q])'
  BY <1>1, <1>8, Zenon
<1> QED BY <1>6, <1>9 DEF FillsIInv

LEMMA QueryFills ==
  ASSUME OnePoll, IInv, FillsIInv, NEW p \in Pollers, QueryOrder(p)
  PROVE  FillsIInv'
<1>1. /\ job[p].pc = "reconcile" /\ \A q \in Pollers : q = p
      /\ UNCHANGED <<intent, order, booked, dropped, faults>>
      /\ job \in [Pollers -> JobType]
      /\ job[p].pc \notin Routing \cup Settling
  BY JobFacts DEF QueryOrder, At, OnePoll, book, Routing, Settling
<1>2. PICK item \in job[p].batch, next \in {"route", "write", "reconcile"} :
        LET seen == order[item.id]
            rest == Job("reconcile", job[p].batch \ {item})
        IN /\ next = "route" => seen.exec > item.cum
           /\ next = "write" => ~(seen.exec > item.cum)
           /\ job' = [job EXCEPT ![p] =
                IF next = "reconcile" THEN rest
                ELSE [rest EXCEPT !.pc = next, !.item = item, !.exec = seen.exec,
                                  !.over = ~seen.live]]
  BY DEF QueryOrder
<1> DEFINE rest == Job("reconcile", job[p].batch \ {item})
           held == [rest EXCEPT !.pc = next, !.item = item,
                      !.exec = order[item.id].exec, !.over = ~order[item.id].live]
<1>3. CASE next = "reconcile"
  <2>1. job' = [job EXCEPT ![p] = rest]
    BY <1>2, <1>3
  <2>2. rest.batch \subseteq job[p].batch /\ rest.pc = "reconcile"
    BY DEF Job
  <2>3. rest.pc \notin Routing \cup Settling
    BY <2>2 DEF Routing, Settling
  <2> QED BY <1>1, <2>1, <2>2, <2>3, ItemStep
<1>4. CASE next # "reconcile"
  <2>1. job' = [job EXCEPT ![p] = held]
    BY <1>2, <1>4
  <2>2. /\ job'[p].pc = next /\ job'[p].batch = job[p].batch \ {item}
        /\ job'[p].item = item /\ job'[p].exec = order[item.id].exec
    BY <1>1, <2>1 DEF Job
  <2>3. HoldsItem(job[p]) /\ RecordsKeepUp
    BY DEF FillsIInv
  <2>4. /\ item.id \in Intents /\ item.cum \in Nat /\ order[item.id].exec \in Nat
        /\ \A x \in job[p].batch : x.id \in Intents
        /\ \A i \in Intents : Routed(i) \in Nat
    BY <1>2, FillTypes
  <2>5. \A i \in Intents : /\ intent[i].kind = "none" => intent[i].cum = 0 /\ Routed(i) = 0
                           /\ faults = 0 => Routed(i) <= order[i].exec /\ Settled(i)
    BY <1>1, <2>3 DEF RecordsKeepUp
  <2>6. RecordsKeepUp'
    BY <1>1, <2>5 DEF RecordsKeepUp, Settled, Routed
  <2>7. /\ \A x, y \in job[p].batch : x.id = y.id => x = y
        /\ \A x \in job[p].batch : /\ intent[x.id].kind # "none"
                                   /\ faults = 0 => x.cum = Routed(x.id)
    BY <2>3 DEF HoldsItem
  <2>8. \A x \in job[p].batch \ {item} : x.id # item.id
    BY <1>2, <2>7
  <2>9. faults = 0 => item.cum = Routed(item.id) /\ item.cum <= order[item.id].exec
    BY <1>2, <2>4, <2>5, <2>7
  <2>10. faults = 0 /\ next = "write" => order[item.id].exec = Routed(item.id)
    BY <1>2, <2>4, <2>9
  <2>11. next = "route" \/ next = "write"
    BY <1>2, <1>4
  <2>12. "route" \notin Settling /\ "write" \notin Routing
    BY DEF Routing, Settling
  <2>a. order[item.id].exec <= order[item.id].exec
    BY <2>4
  <2>13. HoldsItem(job[p])'
    <3>1. \A x \in job'[p].batch : x \in job[p].batch
      BY <2>2
    <3>2. /\ \A x, y \in job'[p].batch : x.id = y.id => x = y
          /\ \A x \in job'[p].batch : /\ intent[x.id].kind # "none"
                                      /\ faults = 0 => x.cum = Routed(x.id)
          /\ intent[item.id].kind # "none"
      BY <1>2, <2>7, <3>1
    <3>3. \A x \in job'[p].batch : x.id # item.id
      BY <2>2, <2>8
    <3>4. faults = 0 /\ next \in Settling => order[item.id].exec = Routed(item.id)
      BY <2>10, <2>11, <2>12
    <3>5. faults = 0 => item.cum = Routed(item.id)
      BY <2>9
    <3> HIDE DEF held, rest
    <3> QED BY <1>1, <2>2, <2>a, <3>2, <3>3, <3>4, <3>5 DEF HoldsItem, Routed
  <2>14. \A q \in Pollers : HoldsItem(job[q])'
    BY <1>1, <2>13, Zenon
  <2> QED BY <2>6, <2>14 DEF FillsIInv
<1> QED BY <1>3, <1>4

LEMMA WriteFills ==
  ASSUME OnePoll, IInv, FillsIInv, NEW p \in Pollers, WriteIntent(p)
  PROVE  FillsIInv'
<1> DEFINE m == job[p].item.id
<1>1. /\ job[p].pc \in Settling /\ \A q \in Pollers : q = p
      /\ UNCHANGED <<order, booked, dropped, faults>>
      /\ job \in [Pollers -> JobType] /\ intent \in [Intents -> IntentType]
  BY JobFacts DEF WriteIntent, At, OnePoll, book, Settling, IInv, TypeOK
<1>2. /\ m \in Intents /\ \A i \in Intents : Routed(i) \in Nat
      /\ \A x \in job[p].batch : x.id \in Intents
      /\ intent[m] \in IntentType
  BY SMTT(30), <1>1, FillTypes
<1>3. /\ intent' = [intent EXCEPT ![m] =
                      [intent[m] EXCEPT !.cum = job[p].exec, !.done = job[p].over]]
      /\ job' = [job EXCEPT ![p] = Job("reconcile", job[p].batch)]
  BY DEF WriteIntent, Return, Id
<1>4. /\ intent'[m].cum = job[p].exec /\ intent'[m].kind = intent[m].kind
      /\ \A i \in Intents : i # m => intent'[i] = intent[i]
  BY <1>1, <1>2, <1>3 DEF IntentType
<1>5. job'[p].pc = "reconcile" /\ job'[p].batch = job[p].batch
  BY <1>1, <1>3 DEF Job
<1>6. HoldsItem(job[p]) /\ RecordsKeepUp
  BY DEF FillsIInv
<1>7. /\ intent[m].kind # "none"
      /\ faults = 0 => job[p].exec = Routed(m)
  BY <1>1, <1>6 DEF HoldsItem
<1>8. RecordsKeepUp'
  <2> SUFFICES ASSUME NEW i \in Intents
               PROVE  /\ intent'[i].kind = "none" => intent'[i].cum = 0 /\ Routed(i) = 0
                      /\ faults = 0 => /\ Routed(i) <= order[i].exec
                                       /\ intent'[i].cum = Routed(i)
    BY <1>1 DEF RecordsKeepUp, Settled, Routed
  <2>1. /\ intent[i].kind = "none" => intent[i].cum = 0 /\ Routed(i) = 0
        /\ faults = 0 =>
             /\ Routed(i) <= order[i].exec
             /\ Settled(i) \/ m = i
    BY <1>1, <1>6 DEF RecordsKeepUp
  <2>2. CASE i = m
    BY <1>4, <1>7, <2>1, <2>2
  <2>3. CASE i # m
    BY <1>4, <2>1, <2>3 DEF Settled
  <2> QED BY <2>2, <2>3
<1>9. HoldsItem(job[p])'
  <2>1. /\ \A x, y \in job[p].batch : x.id = y.id => x = y
        /\ \A x \in job[p].batch : /\ intent'[x.id].kind # "none"
                                   /\ faults = 0 => x.cum = Routed(x.id)
    BY <1>2, <1>4, <1>6 DEF HoldsItem
  <2>2. "reconcile" \notin Routing \cup Settling
    BY DEF Routing, Settling
  <2> QED BY <1>1, <1>5, <2>1, <2>2 DEF HoldsItem, Routed
<1>10. \A q \in Pollers : HoldsItem(job[q])'
  BY <1>1, <1>9, Zenon
<1> QED BY <1>8, <1>10 DEF FillsIInv

LEMMA CreateFills ==
  ASSUME OnePoll, IInv, FillsIInv, NEW p \in Pollers,
         job[p].pc \notin Routing \cup Settling,
         NEW i \in Unused, NEW r, r.kind # "none", r.cum = 0,
         CreateIntent(i, r), UNCHANGED <<booked, dropped, faults>>,
         NEW j, job' = [job EXCEPT ![p] = j], j.batch \subseteq job[p].batch,
         j.pc \notin Routing \cup Settling
  PROVE  FillsIInv'
<1>1. /\ job'[p] = j /\ \A q \in Pollers : q = p
      /\ i \in Intents /\ intent[i].kind = "none"
  BY OnlyJob DEF Unused
<1>2. /\ intent' = [intent EXCEPT ![i] = r]
      /\ order' = [order EXCEPT ![i] = [order[i] EXCEPT !.live = TRUE]]
  BY DEF CreateIntent
<1>3. /\ intent \in [Intents -> IntentType]
      /\ order \in [Intents -> [exec : Nat, live : BOOLEAN]]
  BY DEF IInv, TypeOK
<1>4. /\ intent'[i] = r /\ \A k \in Intents : k # i => intent'[k] = intent[k]
      /\ \A k \in Intents : order'[k].exec = order[k].exec
  BY <1>1, <1>2, <1>3
<1>5. HoldsItem(job[p]) /\ RecordsKeepUp
  BY DEF FillsIInv
<1>6. RecordsKeepUp'
  <2> SUFFICES ASSUME NEW k \in Intents
               PROVE  /\ intent'[k].kind = "none" => intent'[k].cum = 0 /\ Routed(k) = 0
                      /\ faults = 0 => /\ Routed(k) <= order'[k].exec
                                       /\ intent'[k].cum = Routed(k)
    BY DEF RecordsKeepUp, Settled, Routed
  <2>1. /\ intent[k].kind = "none" => intent[k].cum = 0 /\ Routed(k) = 0
        /\ faults = 0 => Routed(k) <= order[k].exec /\ Settled(k)
    BY <1>1, <1>5 DEF RecordsKeepUp
  <2> QED BY <1>1, <1>4, <2>1 DEF Settled
<1>7. HoldsItem(job[p])'
  <2>1. \A x \in job[p].batch : x.id \in Intents
    BY FillTypes
  <2>2. /\ \A x, y \in job[p].batch : x.id = y.id => x = y
        /\ \A x \in job[p].batch : /\ intent[x.id].kind # "none"
                                   /\ faults = 0 => x.cum = Routed(x.id)
    BY <1>5 DEF HoldsItem
  <2>3. \A x \in job[p].batch : /\ intent'[x.id].kind # "none"
                                /\ faults = 0 => x.cum = Routed(x.id)
    BY <1>1, <1>4, <2>1, <2>2
  <2> QED BY <1>1, <2>2, <2>3 DEF HoldsItem, Routed
<1>8. \A q \in Pollers : HoldsItem(job[q])'
  BY <1>1, <1>7, Zenon
<1> QED BY <1>6, <1>8 DEF FillsIInv

\* Nothing but the exchange's side of an order changes, and only forwards.
LEMMA VenueFills ==
  ASSUME IInv, FillsIInv, UNCHANGED <<intent, booked, dropped, job, faults>>,
         \A i \in Intents : order'[i].exec \in Nat /\ order[i].exec <= order'[i].exec
  PROVE  FillsIInv'
<1>1. /\ \A i \in Intents : Routed(i) \in Nat /\ order[i].exec \in Nat
      /\ \A p \in Pollers : /\ job[p].pc \in Routing => job[p].item.id \in Intents
                            /\ job[p].exec \in Nat
  BY FillTypes
<1>2. RecordsKeepUp'
  <2> SUFFICES ASSUME NEW i \in Intents
               PROVE  /\ intent[i].kind = "none" => intent[i].cum = 0 /\ Routed(i) = 0
                      /\ faults = 0 =>
                           /\ Routed(i) <= order'[i].exec
                           /\ \/ Settled(i)
                              \/ \E p \in Pollers : /\ job[p].pc \in Settling
                                                    /\ job[p].item.id = i
    BY DEF RecordsKeepUp, Settled, Routed
  <2>1. /\ intent[i].kind = "none" => intent[i].cum = 0 /\ Routed(i) = 0
        /\ faults = 0 =>
             /\ Routed(i) <= order[i].exec
             /\ \/ Settled(i)
                \/ \E p \in Pollers : job[p].pc \in Settling /\ job[p].item.id = i
    BY DEF FillsIInv, RecordsKeepUp
  <2> QED BY <1>1, <2>1
<1>3. ASSUME NEW p \in Pollers PROVE HoldsItem(job[p])'
  <2>1. HoldsItem(job[p])
    BY DEF FillsIInv
  <2>2. faults = 0 /\ job[p].pc \in Routing =>
          job[p].exec <= order'[job[p].item.id].exec
    <3> SUFFICES ASSUME faults = 0, job[p].pc \in Routing
                 PROVE  job[p].exec <= order'[job[p].item.id].exec
      OBVIOUS
    <3>1. job[p].exec <= order[job[p].item.id].exec
      BY <2>1 DEF HoldsItem
    <3> DEFINE m == job[p].item.id
    <3>2. /\ m \in Intents /\ job[p].exec \in Nat /\ order[m].exec \in Nat
          /\ order'[m].exec \in Nat /\ order[m].exec <= order'[m].exec
      BY <1>1
    <3> QED BY <3>1, <3>2
  <2> QED BY <2>1, <2>2 DEF HoldsItem, Routed
<1> QED BY <1>2, <1>3 DEF FillsIInv

LEMMA OtherFills ==
  ASSUME OnePoll, IInv, FillsIInv
  PROVE  /\ \A i \in Intents : OrderFills(i) \/ OrderCancelled(i) => FillsIInv'
         /\ NextRun => FillsIInv'
         /\ \A p \in Pollers : WorkerCrash(p) => FillsIInv'
         /\ UNCHANGED vars => FillsIInv'
<1>1. /\ order \in [Intents -> [exec : Nat, live : BOOLEAN]]
      /\ \A i \in Intents : order[i].exec \in Nat /\ intent[i].qty \in Nat
  BY FillTypes DEF IInv, TypeOK
<1>2. ASSUME NEW i \in Intents, OrderFills(i) PROVE FillsIInv'
  <2>1. PICK q \in (order[i].exec + 1)..intent[i].qty :
          order' = [order EXCEPT ![i] = [exec |-> q, live |-> q < intent[i].qty]]
    BY <1>2 DEF OrderFills
  <2>2. q \in Nat /\ order[i].exec <= q
    BY <1>1
  <2>3. \A k \in Intents : order'[k].exec = IF k = i THEN q ELSE order[k].exec
    BY <1>1, <2>1
  <2>4. \A k \in Intents : order'[k].exec \in Nat /\ order[k].exec <= order'[k].exec
    BY <1>1, <2>2, <2>3
  <2>5. UNCHANGED <<intent, booked, dropped, job, faults>>
    BY <1>2 DEF OrderFills, book
  <2> QED BY <2>4, <2>5, VenueFills
<1>3. ASSUME NEW i \in Intents, OrderCancelled(i) PROVE FillsIInv'
  <2>1. order' = [order EXCEPT ![i] = [order[i] EXCEPT !.live = FALSE]]
    BY <1>3 DEF OrderCancelled
  <2>2. \A k \in Intents : order'[k].exec = order[k].exec
    BY <1>1, <2>1
  <2>3. \A k \in Intents : order'[k].exec \in Nat /\ order[k].exec <= order'[k].exec
    BY <1>1, <2>2
  <2>4. UNCHANGED <<intent, booked, dropped, job, faults>>
    BY <1>3 DEF OrderCancelled, book
  <2> QED BY <2>3, <2>4, VenueFills
<1>4. ASSUME UNCHANGED <<intent, order, booked, dropped, job, faults>> PROVE FillsIInv'
  <2>1. \A k \in Intents : order'[k].exec \in Nat /\ order[k].exec <= order'[k].exec
    BY <1>1, <1>4
  <2> QED BY <1>4, <2>1, VenueFills
<1>5. ASSUME NEW p \in Pollers, WorkerCrash(p) PROVE FillsIInv'
  <2>1. /\ UNCHANGED <<intent, order, booked, dropped>>
        /\ faults' = faults + 1 /\ job' = [job EXCEPT ![p] = Idle]
    BY <1>5 DEF WorkerCrash, book
  <2>2. faults' # 0
    BY <2>1, FillTypes
  <2>3. /\ job'[p] = Idle /\ \A q \in Pollers : q = p
        /\ Idle.pc = "idle" /\ Idle.batch = {}
    BY <2>1, OnlyJob DEF Idle, Job
  <2>4. HoldsItem(job[p])'
    BY <2>2, <2>3 DEF HoldsItem, Routing, Settling
  <2>5. RecordsKeepUp'
    BY <2>1, <2>2 DEF FillsIInv, RecordsKeepUp, Routed
  <2>6. \A q \in Pollers : HoldsItem(job[q])'
    BY <2>3, <2>4, Zenon
  <2> QED BY <2>5, <2>6 DEF FillsIInv
<1> QED BY <1>2, <1>3, <1>4, <1>5 DEF NextRun, vars, book

\* Every step of a poll that neither fetches, queries, books nor records.
LEMMA MoveFills ==
  ASSUME OnePoll, IInv, FillsIInv, NEW p \in Pollers, NEW pc,
         UNCHANGED <<intent, order, booked, dropped, faults>>,
         NEW pos, NEW held, NEW ladder,
         job' = [job EXCEPT ![p] = [job[p] EXCEPT !.pc = pc, !.pos = pos,
                                      !.held = held, !.ladder = ladder]],
         pc \in Routing => job[p].pc \in Routing,
         pc \in Settling <=> job[p].pc \in Settling
  PROVE  FillsIInv'
<1> DEFINE j == [job[p] EXCEPT !.pc = pc, !.pos = pos, !.held = held, !.ladder = ladder]
<1>1. /\ j.pc = pc /\ j.batch = job[p].batch /\ j.item = job[p].item
      /\ j.exec = job[p].exec
  BY JobFacts DEF JobType
<1> HIDE DEF j
<1>2. job' = [job EXCEPT ![p] = j]
  BY DEF j
<1> QED BY <1>1, <1>2, ItemStep

LEMMA DownFills ==
  ASSUME OnePoll, IInv, FillsIInv, NEW p \in Pollers, NEW j,
         UNCHANGED <<intent, order, booked, dropped, faults>>,
         job' = [job EXCEPT ![p] = j], j.batch \subseteq job[p].batch,
         j.pc \notin Routing \cup Settling, job[p].pc \notin Settling
  PROVE  FillsIInv'
  BY ItemStep

LEMMA PcSets ==
  /\ {"route", "open", "create", "add", "added", "close", "closed"} = Routing
  /\ {"so", "advance", "finalize", "complete", "write"} = Settling
  /\ {"idle", "reconcile", "entry", "ladder", "trigger", "exit"}
       \cap (Routing \cup Settling) = {}
  BY DEF Routing, Settling

\* A poll's next program point, within the handling of one item.
LEMMA GotoFills ==
  ASSUME OnePoll, IInv, FillsIInv, NEW p \in Pollers, NEW pc, Goto(p, pc),
         UNCHANGED <<intent, order, booked, dropped, faults>>,
         pc \in Routing => job[p].pc \in Routing,
         pc \in Settling <=> job[p].pc \in Settling
  PROVE  FillsIInv'
<1> DEFINE j == [job[p] EXCEPT !.pc = pc, !.pos = job[p].pos,
                   !.held = job[p].held, !.ladder = job[p].ladder]
<1>1. job' = [job EXCEPT ![p] = j]
  BY JobFacts DEF Goto, JobType
<1> QED BY <1>1, MoveFills

LEMMA ReturnFills ==
  ASSUME OnePoll, IInv, FillsIInv, NEW p \in Pollers, Return(p),
         UNCHANGED <<intent, order, booked, dropped, faults>>,
         job[p].pc \notin Settling
  PROVE  FillsIInv'
<1> DEFINE j == Job("reconcile", job[p].batch)
<1>1. job' = [job EXCEPT ![p] = j]
  BY DEF Return
<1>2. j.batch = job[p].batch /\ j.pc = "reconcile"
  BY DEF Job
<1>3. j.pc \notin Routing \cup Settling
  BY <1>2, PcSets
<1> QED BY <1>1, <1>2, <1>3, DownFills

LEMMA RouteFills ==
  ASSUME OnePoll, IInv, FillsIInv, NEW p \in Pollers
  PROVE  /\ RouteEntry(p) => FillsIInv'
         /\ RouteExit(p) => FillsIInv'
<1>1. ASSUME Drop(p), job[p].pc \in Routing PROVE FillsIInv'
  <2>1. /\ UNCHANGED <<intent, order, faults>> /\ Goto(p, "write")
        /\ dropped' = [dropped EXCEPT ![Id(p)] = @ + Delta(p)] /\ UNCHANGED booked
    BY <1>1 DEF Drop
  <2>2. "write" \in Settling
    BY PcSets
  <2> QED BY <1>1, <2>1, <2>2, BookStep
<1>2. ASSUME job[p].pc \in Routing, NEW pc \in Routing, NEW k,
             UNCHANGED <<run, intent, order, book, faults>>,
             job' = [job EXCEPT ![p].pc = pc, ![p].pos = k]
      PROVE  FillsIInv'
  <2>1. UNCHANGED <<intent, order, booked, dropped, faults>>
    BY <1>2 DEF book
  <2>2. job' = [job EXCEPT ![p] = [job[p] EXCEPT !.pc = pc, !.pos = k,
                                     !.held = job[p].held, !.ladder = job[p].ladder]]
    BY <1>2, JobFacts DEF JobType
  <2>3. pc \notin Settling /\ job[p].pc \notin Settling /\ job[p].pc \in Routing
    BY <1>2 DEF Routing, Settling
  <2> QED BY <2>1, <2>2, <2>3, MoveFills
<1>3. ASSUME RouteEntry(p) PROVE FillsIInv'
  <2>1. job[p].pc \in Routing /\ job[p].pc \notin Settling
    BY <1>3, PcSets DEF RouteEntry, At, Routing, Settling
  <2>2. CASE UNCHANGED <<run, intent, order, book, faults>> /\ Goto(p, "open")
    <3>1. "open" \notin Settling /\ UNCHANGED <<intent, order, booked, dropped, faults>>
      BY <2>2 DEF book, Settling
    <3> QED BY <2>1, <2>2, <3>1, GotoFills
  <2>3. CASE /\ UNCHANGED <<run, intent, order, book, faults>>
             /\ \E k : job' = [job EXCEPT ![p].pc = "add", ![p].pos = k]
    BY <1>2, <2>1, <2>3, PcSets
  <2> QED BY <1>1, <1>3, <2>1, <2>2, <2>3 DEF RouteEntry
<1>4. ASSUME RouteExit(p) PROVE FillsIInv'
  <2>1. job[p].pc \in Routing
    BY <1>4, PcSets DEF RouteExit, At
  <2>2. CASE /\ UNCHANGED <<run, intent, order, book, faults>>
             /\ \E k : job' = [job EXCEPT ![p].pc = "close", ![p].pos = k]
    BY <1>2, <2>1, <2>2, PcSets
  <2> QED BY <1>1, <1>4, <2>1, <2>2 DEF RouteExit
<1> QED BY <1>3, <1>4

LEMMA ReaderFills ==
  ASSUME OnePoll, IInv, FillsIInv, NEW p \in Pollers
  PROVE  /\ OpenRefused(p) => FillsIInv'
         /\ OpenChecked(p) => FillsIInv'
         /\ AddRead(p) => FillsIInv'
         /\ LadderRead(p) => FillsIInv'
         /\ CloseRead(p) => FillsIInv'
         /\ FinalizeRead(p) => FillsIInv'
         /\ ReadLadder(p) => FillsIInv'
         /\ NoMoreTriggers(p) => FillsIInv'
         /\ NoSignal(p) => FillsIInv'
<1> USE DEF book
<1>1. ASSUME OpenRefused(p) PROVE FillsIInv'
  BY <1>1, ReturnFills DEF OpenRefused, At, Settling
<1>2. ASSUME OpenChecked(p) PROVE FillsIInv'
  <2>1. job[p].pc = "open" /\ "open" \in Routing \ Settling /\ "create" \notin Settling
    BY <1>2 DEF OpenChecked, At, Routing, Settling
  <2> QED BY <1>2, <2>1, GotoFills DEF OpenChecked
<1>3. ASSUME NEW to \in Routing, job[p].pc \in Routing,
             UNCHANGED <<run, intent, order, book, faults>>,
             \/ job' = [job EXCEPT ![p].pc = to, ![p].held = Position(p).qty]
             \/ Return(p)
      PROVE  FillsIInv'
  <2>1. to \notin Settling /\ job[p].pc \notin Settling
    BY <1>3 DEF Routing, Settling
  <2>2. CASE Return(p)
    BY <1>3, <2>1, <2>2, ReturnFills
  <2>3. CASE job' = [job EXCEPT ![p].pc = to, ![p].held = Position(p).qty]
    <3>1. job' = [job EXCEPT ![p] = [job[p] EXCEPT !.pc = to, !.pos = job[p].pos,
                                       !.held = Position(p).qty, !.ladder = job[p].ladder]]
      BY <2>3, JobFacts DEF JobType
    <3> QED BY <1>3, <2>1, <3>1, MoveFills
  <2> QED BY <1>3, <2>2, <2>3
<1>4. ASSUME AddRead(p) PROVE FillsIInv'
  <2>1. job[p].pc \in Routing /\ "added" \in Routing
    BY <1>4 DEF AddRead, At, Routing
  <2> QED BY <1>3, <1>4, <2>1 DEF AddRead
<1>5. ASSUME CloseRead(p) PROVE FillsIInv'
  <2>1. job[p].pc \in Routing /\ "closed" \in Routing
    BY <1>5 DEF CloseRead, At, Routing
  <2> QED BY <1>3, <1>5, <2>1 DEF CloseRead
<1>6. ASSUME NEW to \in {"advance", "write", "complete"}, job[p].pc \in Settling,
             UNCHANGED <<run, intent, order, book, faults>>,
             job' = [job EXCEPT ![p].ladder = Position(p).ladder, ![p].pc = to]
      PROVE  FillsIInv'
  <2>1. /\ to \in Settling /\ to \notin Routing /\ job[p].pc \in Settling
        /\ UNCHANGED <<intent, order, booked, dropped, faults>>
    BY <1>6 DEF Routing, Settling
  <2>2. job' = [job EXCEPT ![p] = [job[p] EXCEPT !.pc = to, !.pos = job[p].pos,
                                     !.held = job[p].held, !.ladder = Position(p).ladder]]
    BY <1>6, JobFacts DEF JobType
  <2> QED BY <2>1, <2>2, MoveFills
<1>7. ASSUME LadderRead(p) PROVE FillsIInv'
  <2>1. job[p].pc \in Settling
    BY <1>7 DEF LadderRead, At, Settling
  <2>2. \E to \in {"advance", "write", "complete"} :
          job' = [job EXCEPT ![p].ladder = Position(p).ladder, ![p].pc = to]
    BY <1>7 DEF LadderRead
  <2> QED BY <1>6, <1>7, <2>1, <2>2 DEF LadderRead
<1>8. ASSUME FinalizeRead(p) PROVE FillsIInv'
  <2>1. job[p].pc \in Settling
    BY <1>8 DEF FinalizeRead, At, Settling
  <2>2. \E to \in {"advance", "write", "complete"} :
          job' = [job EXCEPT ![p].ladder = Position(p).ladder, ![p].pc = to]
    BY <1>8 DEF FinalizeRead
  <2> QED BY <1>6, <1>8, <2>1, <2>2 DEF FinalizeRead
<1>9. ASSUME ReadLadder(p) PROVE FillsIInv'
  <2>1. /\ job[p].pc = "ladder" /\ UNCHANGED <<intent, order, booked, dropped, faults>>
        /\ "ladder" \notin Settling /\ "trigger" \notin Settling /\ "trigger" \notin Routing
    BY <1>9 DEF ReadLadder, At, Routing, Settling
  <2>2. job' = [job EXCEPT ![p].pc = "trigger", ![p].ladder = Position(p).ladder]
    BY <1>9 DEF ReadLadder
  <2>3. job' = [job EXCEPT ![p] = [job[p] EXCEPT !.pc = "trigger", !.pos = job[p].pos,
                                     !.held = job[p].held, !.ladder = Position(p).ladder]]
    BY <2>2, JobFacts DEF JobType
  <2> QED BY <2>1, <2>3, MoveFills
<1>10. ASSUME NoMoreTriggers(p) PROVE FillsIInv'
  <2>1. /\ job[p].pc = "trigger"
        /\ "trigger" \notin Settling /\ "exit" \notin Settling /\ "exit" \notin Routing
    BY <1>10 DEF NoMoreTriggers, At, Routing, Settling
  <2> QED BY <1>10, <2>1, GotoFills DEF NoMoreTriggers
<1>11. ASSUME NoSignal(p) PROVE FillsIInv'
  <2>1. /\ Idle.batch = {} /\ Idle.pc \notin Routing \cup Settling
        /\ job[p].pc \notin Settling
    BY <1>11 DEF NoSignal, At, Idle, Job, Routing, Settling
  <2>2. /\ job' = [job EXCEPT ![p] = Idle]
        /\ UNCHANGED <<intent, order, booked, dropped, faults>>
    BY <1>11 DEF NoSignal
  <2> QED BY <2>1, <2>2, DownFills
<1> QED BY <1>1, <1>2, <1>4, <1>5, <1>7, <1>8, <1>9, <1>10, <1>11

LEMMA WriterFills ==
  ASSUME OnePoll, IInv, FillsIInv, RowsIInv, NEW p \in Pollers
  PROVE  /\ CreatePosition(p) => FillsIInv'
         /\ AddWrite(p) => FillsIInv'
         /\ LadderWrite(p) => FillsIInv'
         /\ CloseWrite(p) => FillsIInv'
         /\ FinalizeWrite(p) => FillsIInv'
<1>1. ASSUME CreatePosition(p) PROVE FillsIInv'
  <2>1. job[p].pc \in Routing /\ "write" \in Settling
    BY <1>1 DEF CreatePosition, At, Routing, Settling
  <2> QED BY <1>1, <2>1, BookStep DEF CreatePosition
<1>2. ASSUME AddWrite(p) PROVE FillsIInv'
  <2>1. job[p].pc \in Routing
    BY <1>2 DEF AddWrite, At, Routing
  <2>2. PICK pc \in Settling : Goto(p, pc)
    BY <1>2 DEF AddWrite, Settling
  <2> QED BY <1>2, <2>1, <2>2, BookStep DEF AddWrite
<1>3. ASSUME LadderWrite(p) PROVE FillsIInv'
  <2>1. job[p].pc = "advance" /\ "advance" \in Settling /\ "write" \in Settling \ Routing
    BY <1>3 DEF LadderWrite, At, Settling, Routing
  <2>2. Position(p).open
    BY <2>1 DEF RowsIInv, HoldsPosition, Position
  <2>3. Goto(p, "write") /\ UNCHANGED <<intent, order, booked, dropped, faults>>
    BY <1>3, <2>2 DEF LadderWrite
  <2> QED BY <2>1, <2>3, GotoFills
<1>4. ASSUME CloseWrite(p) PROVE FillsIInv'
  <2>1. job[p].pc \in Routing /\ "finalize" \in Settling
    BY <1>4 DEF CloseWrite, At, Routing, Settling
  <2> QED BY <1>4, <2>1, BookStep DEF CloseWrite
<1>5. ASSUME FinalizeWrite(p) PROVE FillsIInv'
  <2>1. job[p].pc \in Settling /\ "write" \in Settling \ Routing
    BY <1>5 DEF FinalizeWrite, At, Settling, Routing
  <2> QED BY <1>5, <2>1, GotoFills DEF FinalizeWrite
<1> QED BY <1>1, <1>2, <1>3, <1>4, <1>5

LEMMA SignalFills ==
  ASSUME OnePoll, IInv, FillsIInv, NEW p \in Pollers
  PROVE  /\ Evaluate(p) => FillsIInv'
         /\ EntrySignal(p) => FillsIInv'
         /\ TriggerSafetyOrder(p) => FillsIInv'
         /\ ExitSignal(p) => FillsIInv'
<1> USE DEF book
<1>1. ASSUME Evaluate(p) PROVE FillsIInv'
  <2>1. job[p].pc \notin Settling /\ UNCHANGED <<intent, order, booked, dropped, faults>>
    BY <1>1 DEF Evaluate, At, Settling
  <2>2. ASSUME NEW pc \in {"entry", "ladder", "exit"}, NEW j, j.batch = {}, j.pc = pc,
               job' = [job EXCEPT ![p] = j]
        PROVE  FillsIInv'
    <3>1. j.pc \notin Routing \cup Settling /\ j.batch \subseteq job[p].batch
      BY <2>2 DEF Routing, Settling
    <3> QED BY <2>1, <2>2, <3>1, DownFills
  <2>3. CASE job' = [job EXCEPT ![p] = [Job("entry", {}) EXCEPT !.run = run]]
    <3> DEFINE j == [Job("entry", {}) EXCEPT !.run = run]
    <3>1. j.batch = {} /\ j.pc = "entry"
      BY DEF Job
    <3> HIDE DEF j
    <3>2. job' = [job EXCEPT ![p] = j]
      BY <2>3 DEF j
    <3> QED BY <2>2, <3>1, <3>2
  <2>4. ASSUME NEW k,
               job' = [job EXCEPT ![p] =
                 [Job(IF Dca THEN "ladder" ELSE "exit", {}) EXCEPT
                    !.run = run, !.pos = k, !.held = positions[k].qty]]
        PROVE  FillsIInv'
    <3> DEFINE pc == IF Dca THEN "ladder" ELSE "exit"
               j == [Job(pc, {}) EXCEPT !.run = run, !.pos = k, !.held = positions[k].qty]
    <3>1. j.batch = {} /\ j.pc = pc
      BY DEF Job
    <3>2. pc \in {"entry", "ladder", "exit"}
      OBVIOUS
    <3>3. job' = [job EXCEPT ![p] = j]
      BY <2>4
    <3> HIDE DEF j, pc
    <3> QED BY <2>2, <3>1, <3>2, <3>3
  <2> QED BY <1>1, <2>3, <2>4 DEF Evaluate
<1>2. Idle.batch = {} /\ Idle.pc \notin Routing \cup Settling
  BY DEF Idle, Job, Routing, Settling
<1>a. \A kind, rn, qty, pos, so : /\ Row(kind, rn, qty, pos, so).kind = kind
                                  /\ Row(kind, rn, qty, pos, so).cum = 0
  BY DEF Row, NoRow
<1>3. ASSUME EntrySignal(p) PROVE FillsIInv'
  <2>1. PICK i \in Unused :
          CreateIntent(i, Row("ENTRY", job[p].run, BaseQty, NoPos, NoSo))
    BY <1>3 DEF EntrySignal
  <2>2. /\ UNCHANGED <<booked, dropped, faults>> /\ job' = [job EXCEPT ![p] = Idle]
        /\ job[p].pc \notin Routing \cup Settling
    BY <1>3 DEF EntrySignal, At, Routing, Settling
  <2> DEFINE r == Row("ENTRY", job[p].run, BaseQty, NoPos, NoSo)
  <2>3. r.kind # "none" /\ r.cum = 0 /\ CreateIntent(i, r)
    BY <1>a, <2>1
  <2> HIDE DEF r
  <2>4. Idle.batch \subseteq job[p].batch
    BY <1>2
  <2> QED BY <1>2, <2>2, <2>3, <2>4, CreateFills
<1>4. ASSUME ExitSignal(p) PROVE FillsIInv'
  <2>1. PICK i \in Unused :
          CreateIntent(i, Row("EXIT", job[p].run, job[p].held, job[p].pos, NoSo))
    BY <1>4 DEF ExitSignal
  <2>2. /\ UNCHANGED <<booked, dropped, faults>> /\ job' = [job EXCEPT ![p] = Idle]
        /\ job[p].pc \notin Routing \cup Settling
    BY <1>4 DEF ExitSignal, At, Routing, Settling
  <2> DEFINE r == Row("EXIT", job[p].run, job[p].held, job[p].pos, NoSo)
  <2>3. r.kind # "none" /\ r.cum = 0 /\ CreateIntent(i, r)
    BY <1>a, <2>1
  <2> HIDE DEF r
  <2>4. Idle.batch \subseteq job[p].batch
    BY <1>2
  <2> QED BY <1>2, <2>2, <2>3, <2>4, CreateFills
<1>5. ASSUME TriggerSafetyOrder(p) PROVE FillsIInv'
  <2> DEFINE so == job[p].ladder.next
             j == [job[p] EXCEPT !.ladder = [job[p].ladder EXCEPT !.next = so + 1]]
  <2>1. /\ UNCHANGED <<booked, dropped, faults>> /\ job' = [job EXCEPT ![p] = j]
        /\ job[p].pc = "trigger"
    BY <1>5 DEF TriggerSafetyOrder, At
  <2>2. j.batch = job[p].batch /\ j.pc = job[p].pc
    BY JobFacts DEF JobType
  <2>3. j.pc \notin Routing \cup Settling /\ job[p].pc \notin Routing \cup Settling
    BY <2>1, <2>2 DEF Routing, Settling
  <2> HIDE DEF j
  <2>4. CASE UNCHANGED <<intent, order>>
    BY <2>1, <2>2, <2>3, <2>4, DownFills
  <2>5. CASE \E i \in Unused : CreateIntent(i, Row("ENTRY", job[p].run, 1, job[p].pos, so))
    <3>1. PICK i \in Unused : CreateIntent(i, Row("ENTRY", job[p].run, 1, job[p].pos, so))
      BY <2>5
    <3> DEFINE r == Row("ENTRY", job[p].run, 1, job[p].pos, so)
    <3>2. r.kind # "none" /\ r.cum = 0 /\ CreateIntent(i, r)
      BY <1>a, <3>1
    <3> HIDE DEF r, so
    <3> QED BY <2>1, <2>2, <2>3, <3>2, CreateFills
  <2> QED BY <1>5, <2>4, <2>5 DEF TriggerSafetyOrder
<1> QED BY <1>1, <1>3, <1>4, <1>5

LEMMA NextFills == OnePoll /\ IInv /\ BooksIInv /\ [Next]_vars => FillsIInv'
<1> SUFFICES ASSUME OnePoll, IInv, FillsIInv, RowsIInv, [Next]_vars PROVE FillsIInv'
  BY DEF BooksIInv
<1>1. ASSUME NEW p \in Pollers, Reconcile(p) PROVE FillsIInv'
  BY <1>1, FetchFills, QueryFills, RouteFills, ReaderFills, WriterFills, WriteFills
     DEF Reconcile
<1>2. ASSUME NEW p \in Pollers, EvaluateStrategies(p) PROVE FillsIInv'
  BY <1>2, SignalFills, ReaderFills DEF EvaluateStrategies
<1> QED BY <1>1, <1>2, OtherFills DEF Next

-----------------------------------------------------------------------------
(* One poll at a time: the rows, the events and the ladder                   *)

LadderGood(d, open) ==
  /\ d.next >= 0 => d.next < MaxSO
  /\ d.phase # "none" =>
       /\ d.filled <= MaxSO
       /\ d.next >= 0 => d.phase = "ladder_active" /\ d.next = d.filled
       /\ d.phase = "ladder_active" /\ d.next = -1 => d.filled = MaxSO
       /\ d.phase = "completed" => ~open

RowGood(r) == /\ r.qty = r.events /\ (r.open <=> r.qty > 0)
              /\ LadderGood(r.ladder, r.open)

LEMMA RowByRow ==
  RowsIInv => /\ \A k \in DOMAIN positions : RowGood(positions[k])
              /\ \A i, k \in OpenPositions : i = k
              /\ \A p \in Pollers : HoldsPosition(job[p])
  BY DEF RowsIInv, RowsMatchEvents, OneOpenPosition, LadderCounts, LevelsInSchedule,
         RowGood, LadderGood

LEMMA RowsJoin ==
  ASSUME \A k \in DOMAIN positions' : RowGood(positions'[k]),
         \A i, k \in OpenPositions' : i = k,
         \A p \in Pollers : HoldsPosition(job[p])'
  PROVE  RowsIInv'
<1>1. RowsMatchEvents' /\ LevelsInSchedule' /\ LadderCounts'
  BY DEF RowsMatchEvents, LadderCounts, LevelsInSchedule, RowGood, LadderGood
<1>2. OneOpenPosition'
  BY DEF OneOpenPosition, RowGood
<1> QED BY <1>1, <1>2 DEF RowsIInv

\* The positions stay; the poll's new job holds what it needs of them.
LEMMA PositionStep ==
  ASSUME OnePoll, IInv, RowsIInv, NEW p \in Pollers, NEW j,
         UNCHANGED positions, job' = [job EXCEPT ![p] = j], HoldsPosition(j)
  PROVE  RowsIInv'
<1>1. job'[p] = j /\ \A q \in Pollers : q = p
  BY OnlyJob
<1>2. HoldsPosition(job[p])'
  BY <1>1 DEF HoldsPosition, OpenPositions
<1>3. \A q \in Pollers : HoldsPosition(job[q])'
  BY <1>1, <1>2, Zenon
<1>4. /\ RowsMatchEvents' /\ OneOpenPosition' /\ LadderCounts' /\ LevelsInSchedule'
  BY DEF RowsIInv, RowsMatchEvents, OneOpenPosition, OpenPositions, LadderCounts,
         LevelsInSchedule
<1> QED BY <1>3, <1>4 DEF RowsIInv

\* Nothing is held of a position at the other program points.
Guarded == {"create", "add", "added", "so", "advance", "close", "closed", "complete"}

LEMMA FreePosition ==
  ASSUME OnePoll, IInv, RowsIInv, NEW p \in Pollers, NEW j,
         UNCHANGED positions, job' = [job EXCEPT ![p] = j], j.pc \notin Guarded
  PROVE  RowsIInv'
<1>1. HoldsPosition(j)
  BY DEF HoldsPosition, Guarded
<1> QED BY <1>1, PositionStep

LEMMA FreeGoto ==
  ASSUME OnePoll, IInv, RowsIInv, NEW p \in Pollers, NEW pc, UNCHANGED positions,
         pc \notin Guarded,
         Goto(p, pc) \/ Return(p)
  PROVE  RowsIInv'
<1>1. PICK j : job' = [job EXCEPT ![p] = j] /\ j.pc \notin Guarded
  <2>1. CASE Goto(p, pc)
    <3> DEFINE j == [job[p] EXCEPT !.pc = pc]
    <3>1. j.pc = pc
      BY JobFacts DEF JobType
    <3>2. job' = [job EXCEPT ![p] = j]
      BY <2>1 DEF Goto
    <3> QED BY <3>1, <3>2
  <2>2. CASE Return(p)
    <3> DEFINE j == Job("reconcile", job[p].batch)
    <3>1. j.pc \notin Guarded
      BY DEF Job, Guarded
    <3>2. job' = [job EXCEPT ![p] = j]
      BY <2>2 DEF Return
    <3> QED BY <3>1, <3>2
  <2> QED BY <2>1, <2>2
<1> QED BY <1>1, FreePosition

LEMMA FreeRows ==
  ASSUME OnePoll, IInv, RowsIInv, NEW p \in Pollers
  PROVE  /\ FetchPlaced(p) => RowsIInv'
         /\ QueryOrder(p) => RowsIInv'
         /\ OpenRefused(p) => RowsIInv'
         /\ WriteIntent(p) => RowsIInv'
         /\ Evaluate(p) => RowsIInv'
         /\ EntrySignal(p) => RowsIInv'
         /\ ReadLadder(p) => RowsIInv'
         /\ TriggerSafetyOrder(p) => RowsIInv'
         /\ NoMoreTriggers(p) => RowsIInv'
         /\ ExitSignal(p) => RowsIInv'
         /\ NoSignal(p) => RowsIInv'
         /\ WorkerCrash(p) => RowsIInv'
<1> USE DEF book
<1>1. ASSUME FetchPlaced(p) PROVE RowsIInv'
  <2>1. PICK batch : job' = [job EXCEPT ![p] = Job("reconcile", batch)]
    BY <1>1 DEF FetchPlaced
  <2>2. Job("reconcile", batch).pc \notin Guarded /\ UNCHANGED positions
    BY <1>1 DEF FetchPlaced, Job, Guarded
  <2> QED BY <2>1, <2>2, FreePosition
<1>2. ASSUME QueryOrder(p) PROVE RowsIInv'
  <2>1. PICK item \in job[p].batch, next \in {"route", "write", "reconcile"} :
          LET seen == order[item.id]
              rest == Job("reconcile", job[p].batch \ {item})
          IN job' = [job EXCEPT ![p] =
               IF next = "reconcile" THEN rest
               ELSE [rest EXCEPT !.pc = next, !.item = item, !.exec = seen.exec,
                                 !.over = ~seen.live]]
    BY <1>2 DEF QueryOrder
  <2> DEFINE rest == Job("reconcile", job[p].batch \ {item})
             j == IF next = "reconcile" THEN rest
                  ELSE [rest EXCEPT !.pc = next, !.item = item,
                          !.exec = order[item.id].exec, !.over = ~order[item.id].live]
  <2>2. j.pc = next
    BY DEF Job
  <2>3. j.pc \notin Guarded
    BY <2>2 DEF Guarded
  <2>4. job' = [job EXCEPT ![p] = j] /\ UNCHANGED positions
    BY <1>2, <2>1 DEF QueryOrder
  <2> HIDE DEF j
  <2> QED BY <2>3, <2>4, FreePosition
<1>3. ASSUME OpenRefused(p) PROVE RowsIInv'
  BY <1>3, FreeGoto DEF OpenRefused, Guarded
<1>4. ASSUME WriteIntent(p) PROVE RowsIInv'
  BY <1>4, FreeGoto DEF WriteIntent, Guarded
<1>5. ASSUME Evaluate(p) PROVE RowsIInv'
  <2>1. UNCHANGED positions /\ \A pc \in {"entry", "ladder", "exit"} : pc \notin Guarded
    BY <1>5 DEF Evaluate, Guarded
  <2>2. CASE job' = [job EXCEPT ![p] = [Job("entry", {}) EXCEPT !.run = run]]
    <3> DEFINE j == [Job("entry", {}) EXCEPT !.run = run]
    <3>1. j.pc \notin Guarded /\ job' = [job EXCEPT ![p] = j]
      BY <2>1, <2>2 DEF Job
    <3> HIDE DEF j
    <3> QED BY <2>1, <3>1, FreePosition
  <2>3. ASSUME NEW k,
               job' = [job EXCEPT ![p] =
                 [Job(IF Dca THEN "ladder" ELSE "exit", {}) EXCEPT
                    !.run = run, !.pos = k, !.held = positions[k].qty]]
        PROVE  RowsIInv'
    <3> DEFINE pc == IF Dca THEN "ladder" ELSE "exit"
               j == [Job(pc, {}) EXCEPT !.run = run, !.pos = k, !.held = positions[k].qty]
    <3>1. j.pc = pc /\ pc \in {"entry", "ladder", "exit"} /\ job' = [job EXCEPT ![p] = j]
      BY <2>3 DEF Job
    <3> HIDE DEF j, pc
    <3> QED BY <2>1, <3>1, FreePosition
  <2> QED BY <1>5, <2>2, <2>3 DEF Evaluate
<1>6. Idle.pc \notin Guarded
  BY DEF Idle, Job, Guarded
<1>7. ASSUME \/ EntrySignal(p) \/ ExitSignal(p) \/ NoSignal(p) \/ WorkerCrash(p)
      PROVE  RowsIInv'
  <2>1. job' = [job EXCEPT ![p] = Idle] /\ UNCHANGED positions
    BY <1>7 DEF EntrySignal, ExitSignal, NoSignal, WorkerCrash
  <2> QED BY <1>6, <2>1, FreePosition
<1>8. ASSUME ReadLadder(p) PROVE RowsIInv'
  <2> DEFINE j == [job[p] EXCEPT !.pc = "trigger", !.ladder = Position(p).ladder]
  <2>1. job' = [job EXCEPT ![p] = j] /\ UNCHANGED positions
    BY <1>8 DEF ReadLadder
  <2>2. j.pc \notin Guarded
    BY JobFacts DEF JobType, Guarded
  <2> HIDE DEF j
  <2> QED BY <2>1, <2>2, FreePosition
<1>9. ASSUME TriggerSafetyOrder(p) PROVE RowsIInv'
  <2> DEFINE j == [job[p] EXCEPT !.ladder = [job[p].ladder EXCEPT !.next = @ + 1]]
  <2>1. job' = [job EXCEPT ![p] = j] /\ UNCHANGED positions /\ job[p].pc = "trigger"
    BY <1>9 DEF TriggerSafetyOrder, At
  <2>2. j.pc \notin Guarded
    BY <2>1, JobFacts DEF JobType, Guarded
  <2> HIDE DEF j
  <2> QED BY <2>1, <2>2, FreePosition
<1>10. ASSUME NoMoreTriggers(p) PROVE RowsIInv'
  <2>1. "exit" \notin Guarded /\ Goto(p, "exit") /\ UNCHANGED positions
    BY <1>10 DEF NoMoreTriggers, Guarded
  <2> QED BY <2>1, FreeGoto
<1> QED BY <1>1, <1>2, <1>3, <1>4, <1>5, <1>7, <1>8, <1>9, <1>10

\* The poll reads the position it is about to write.
LEMMA ReaderRows ==
  ASSUME OnePoll, IInv, RowsIInv, NEW p \in Pollers
  PROVE  /\ RouteEntry(p) => RowsIInv'
         /\ OpenChecked(p) => RowsIInv'
         /\ AddRead(p) => RowsIInv'
         /\ LadderRead(p) => RowsIInv'
         /\ RouteExit(p) => RowsIInv'
         /\ CloseRead(p) => RowsIInv'
         /\ FinalizeRead(p) => RowsIInv'
<1> USE DEF book
<1>1. HoldsPosition(job[p]) /\ job[p] \in JobType
  BY JobFacts DEF RowsIInv
<1>2. \A pc \in {"open", "write", "idle"} : pc \notin Guarded
  BY DEF Guarded
<1>3. ASSUME NEW k, positions[k].open, NEW pc \in {"add", "close"},
             job' = [job EXCEPT ![p].pc = pc, ![p].pos = k], UNCHANGED positions
      PROVE  RowsIInv'
  <2> DEFINE j == [job[p] EXCEPT !.pc = pc, !.pos = k]
  <2>1. j.pc = pc /\ j.pos = k /\ job' = [job EXCEPT ![p] = j]
    BY <1>1, <1>3 DEF JobType
  <2> HIDE DEF j
  <2>2. HoldsPosition(j)
    BY <1>3, <2>1 DEF HoldsPosition
  <2> QED BY <1>3, <2>1, <2>2, PositionStep
<1>4. ASSUME RouteEntry(p) PROVE RowsIInv'
  <2>1. UNCHANGED positions
    BY <1>4 DEF RouteEntry, Drop
  <2>2. CASE Goto(p, "open") \/ Goto(p, "write")
    BY <1>2, <2>1, <2>2, FreeGoto
  <2>3. CASE \E k \in OpenOf(intent[Id(p)].run) :
               job' = [job EXCEPT ![p].pc = "add", ![p].pos = k]
    <3>1. PICK k \in OpenOf(intent[Id(p)].run) :
            job' = [job EXCEPT ![p].pc = "add", ![p].pos = k]
      BY <2>3
    <3>2. positions[k].open
      BY DEF OpenOf, OpenPositions
    <3> QED BY <1>3, <2>1, <3>1, <3>2
  <2> QED BY <1>4, <2>2, <2>3 DEF RouteEntry, Drop
<1>5. ASSUME RouteExit(p) PROVE RowsIInv'
  <2> DEFINE k == intent[Id(p)].pos
  <2>1. UNCHANGED positions
    BY <1>5 DEF RouteExit, Drop
  <2>2. CASE Goto(p, "write")
    BY <1>2, <2>1, <2>2, FreeGoto
  <2>3. CASE positions[k].open /\ job' = [job EXCEPT ![p].pc = "close", ![p].pos = k]
    BY <1>3, <2>1, <2>3
  <2> QED BY <1>5, <2>2, <2>3 DEF RouteExit, Drop
<1>6. ASSUME OpenChecked(p) PROVE RowsIInv'
  <2> DEFINE j == [job[p] EXCEPT !.pc = "create"]
  <2>1. /\ job' = [job EXCEPT ![p] = j] /\ j.pc = "create"
        /\ UNCHANGED positions /\ OpenPositions = {}
    BY <1>1, <1>6 DEF OpenChecked, Goto, JobType
  <2> HIDE DEF j
  <2>2. HoldsPosition(j)
    BY <2>1 DEF HoldsPosition
  <2> QED BY <2>1, <2>2, PositionStep
<1>7. ASSUME NEW pc \in {"added", "closed"}, Position(p).open, UNCHANGED positions,
             job' = [job EXCEPT ![p].pc = pc, ![p].held = Position(p).qty]
      PROVE  RowsIInv'
  <2> DEFINE j == [job[p] EXCEPT !.pc = pc, !.held = Position(p).qty]
  <2>1. /\ job' = [job EXCEPT ![p] = j] /\ j.pc = pc /\ j.pos = job[p].pos
        /\ j.held = positions[job[p].pos].qty
    BY <1>1, <1>7 DEF JobType, Position
  <2> HIDE DEF j
  <2>2. HoldsPosition(j)
    BY <1>7, <2>1 DEF HoldsPosition, Position
  <2> QED BY <1>7, <2>1, <2>2, PositionStep
<1>8. ASSUME AddRead(p) PROVE RowsIInv'
  BY <1>2, <1>7, <1>8, FreeGoto DEF AddRead
<1>9. ASSUME CloseRead(p) PROVE RowsIInv'
  BY <1>2, <1>7, <1>9, FreeGoto DEF CloseRead
<1>10. ASSUME LadderRead(p) PROVE RowsIInv'
  <2> DEFINE pc == IF IsActive(Position(p).ladder) THEN "advance" ELSE "write"
             j == [job[p] EXCEPT !.ladder = Position(p).ladder, !.pc = pc]
  <2>1. job[p].pc = "so" /\ UNCHANGED positions
    BY <1>10 DEF LadderRead, At
  <2>2. positions[job[p].pos].open
    BY <1>1, <2>1 DEF HoldsPosition
  <2>3. /\ job' = [job EXCEPT ![p] = j] /\ j.pc = pc /\ j.pos = job[p].pos
        /\ j.ladder = positions[job[p].pos].ladder
    BY <1>1, <1>10 DEF LadderRead, JobType, Position
  <2>4. pc = "write" \/ (pc = "advance" /\ IsActive(positions[job[p].pos].ladder))
    BY DEF Position
  <2> HIDE DEF j, pc
  <2>5. HoldsPosition(j)
    BY <2>2, <2>3, <2>4 DEF HoldsPosition
  <2> QED BY <2>1, <2>3, <2>5, PositionStep
<1>11. ASSUME FinalizeRead(p) PROVE RowsIInv'
  <2> DEFINE d == Position(p).ladder
             ends == d.phase = "ladder_active" /\ Position(p).qty <= 0
             pc == IF ends THEN "complete" ELSE "write"
             j == [job[p] EXCEPT !.ladder = d, !.pc = pc]
  <2>1. job[p].pc = "finalize" /\ UNCHANGED positions
    BY <1>11 DEF FinalizeRead, At
  <2>2. /\ job' = [job EXCEPT ![p] = j] /\ j.pc = pc /\ j.pos = job[p].pos
        /\ j.ladder = positions[job[p].pos].ladder
    BY <1>1, <1>11 DEF FinalizeRead, JobType, Position
  <2>3. job[p].pos \in DOMAIN positions
    BY <2>1, JobFacts DEF GoodJob, AtPosition
  <2>4. positions[job[p].pos].qty <= 0 => ~positions[job[p].pos].open
    BY <2>3, PositionFacts DEF RowsIInv, OneOpenPosition
  <2>5. \/ pc = "write"
        \/ /\ pc = "complete" /\ positions[job[p].pos].ladder.phase = "ladder_active"
           /\ ~positions[job[p].pos].open
    BY <2>4 DEF Position
  <2> HIDE DEF j, pc
  <2>6. HoldsPosition(j)
    BY <2>2, <2>5 DEF HoldsPosition
  <2> QED BY <2>1, <2>2, <2>6, PositionStep
<1> QED BY <1>4, <1>5, <1>6, <1>8, <1>9, <1>10, <1>11

\* One row is rewritten by the poll that holds it.
LEMMA RowStep ==
  ASSUME OnePoll, IInv, RowsIInv, NEW p \in Pollers, job[p].pc \in AtPosition,
         NEW v, positions' = [positions EXCEPT ![job[p].pos] = v], RowGood(v),
         v.open => positions[job[p].pos].open,
         NEW pc, Goto(p, pc),
         \/ pc \notin Guarded
         \/ pc = "so" /\ v.open
  PROVE  RowsIInv'
<1> DEFINE k == job[p].pos
<1>1. k \in DOMAIN positions /\ positions \in Seq(PositionType)
  BY JobFacts, PositionFacts DEF GoodJob
<1>2. /\ DOMAIN positions' = DOMAIN positions /\ positions'[k] = v
      /\ \A i \in DOMAIN positions : i # k => positions'[i] = positions[i]
  BY <1>1
<1>3. /\ \A i \in DOMAIN positions : RowGood(positions[i])
      /\ \A i, l \in OpenPositions : i = l
  BY RowByRow
<1>4. \A i \in DOMAIN positions' : RowGood(positions'[i])
  BY <1>2, <1>3
<1>5. OpenPositions' \subseteq OpenPositions
  BY <1>1, <1>2 DEF OpenPositions
<1>6. \A i, l \in OpenPositions' : i = l
  BY <1>3, <1>5
<1>7. /\ job'[p].pc = pc /\ job'[p].pos = k /\ \A q \in Pollers : q = p
  BY JobFacts DEF Goto, JobType, OnePoll
<1>8. HoldsPosition(job[p])'
  BY <1>2, <1>7 DEF HoldsPosition, Guarded
<1>9. \A q \in Pollers : HoldsPosition(job[q])'
  BY <1>7, <1>8, Zenon
<1> QED BY <1>4, <1>6, <1>9, RowsJoin

LEMMA CreateRows ==
  ASSUME OnePoll, IInv, RowsIInv, NEW p \in Pollers, CreatePosition(p)
  PROVE  RowsIInv'
<1>1. job[p].pc = "create" /\ job[p].pc \in Routing
  BY DEF CreatePosition, At, Routing
<1>2. PICK v : /\ positions' = Append(positions, v)
               /\ v = [run |-> intent[Id(p)].run, open |-> TRUE, qty |-> Delta(p),
                       events |-> Delta(p),
                       ladder |-> IF Dca /\ intent[Id(p)].so = NoSo
                                  THEN BaseFilled ELSE NoLadder]
  BY DEF CreatePosition
<1>3. Delta(p) > 0
  <2>1. /\ job[p].item.cum \in Nat /\ job[p].exec \in Nat /\ job[p].item.cum < job[p].exec
    BY <1>1, FillFacts, JobFacts DEF GoodJob
  <2> QED BY <2>1 DEF Delta
<1>4. LadderGood(BaseFilled, TRUE) /\ LadderGood(NoLadder, TRUE)
  <2>1. MaxSO \in Nat
    BY FillConstants
  <2>2. /\ BaseFilled.phase = "ladder_active" /\ BaseFilled.filled = 0
        /\ BaseFilled.next = IF MaxSO > 0 THEN 0 ELSE -1
    BY DEF BaseFilled
  <2>3. LadderGood(BaseFilled, TRUE)
    BY <2>1, <2>2 DEF LadderGood
  <2>4. NoLadder.phase = "none" /\ NoLadder.next = -1
    BY DEF NoLadder
  <2> QED BY <2>3, <2>4 DEF LadderGood
<1>5. RowGood(v) /\ v.open
  BY <1>2, <1>3, <1>4 DEF RowGood
<1>6. OpenPositions = {}
  BY <1>1 DEF RowsIInv, HoldsPosition
<1>7. \A i \in DOMAIN positions : RowGood(positions[i]) /\ ~positions[i].open
  BY <1>6, RowByRow DEF OpenPositions
<1>8. /\ DOMAIN positions' = DOMAIN positions \cup {Len(positions) + 1}
      /\ positions'[Len(positions) + 1] = v
      /\ \A i \in DOMAIN positions : positions'[i] = positions[i]
      /\ Len(positions) + 1 \notin DOMAIN positions
  <2>1. positions \in Seq(PositionType)
    BY PositionFacts
  <2> QED BY <1>2, <2>1
<1>9. \A i \in DOMAIN positions' : RowGood(positions'[i])
  BY <1>5, <1>7, <1>8
<1>10. OpenPositions' \subseteq {Len(positions) + 1}
  BY <1>7, <1>8 DEF OpenPositions
<1>11. \A i, l \in OpenPositions' : i = l
  BY <1>10
<1>12. job'[p].pc = "write" /\ \A q \in Pollers : q = p
  BY JobFacts DEF CreatePosition, Goto, JobType, OnePoll
<1>13. HoldsPosition(job[p])'
  BY <1>12 DEF HoldsPosition
<1>14. \A q \in Pollers : HoldsPosition(job[q])'
  BY <1>12, <1>13, Zenon
<1> QED BY <1>9, <1>11, <1>14, RowsJoin

LEMMA WriterRows ==
  ASSUME OnePoll, IInv, RowsIInv, NEW p \in Pollers
  PROVE  /\ AddWrite(p) => RowsIInv'
         /\ CloseWrite(p) => RowsIInv'
         /\ LadderWrite(p) => RowsIInv'
         /\ FinalizeWrite(p) => RowsIInv'
<1> DEFINE k == job[p].pos
           row == positions[k]
<1>1. HoldsPosition(job[p])
  BY DEF RowsIInv
<1>2. ASSUME job[p].pc \in AtPosition
      PROVE  /\ k \in DOMAIN positions /\ RowGood(row) /\ row \in PositionType
             /\ row.qty \in Nat /\ row.events \in Int /\ row.ladder \in Ladders
             /\ row.open \in BOOLEAN
  BY <1>2, JobFacts, PositionFacts, RowByRow DEF GoodJob
<1>3. ASSUME job[p].pc \in Routing
      PROVE  Delta(p) \in Nat /\ Delta(p) > 0
  <2>1. /\ job[p].item.cum \in Nat /\ job[p].exec \in Nat /\ job[p].item.cum < job[p].exec
    BY <1>3, FillFacts, JobFacts DEF GoodJob
  <2> QED BY <2>1 DEF Delta
<1>4. ASSUME AddWrite(p) PROVE RowsIInv'
  <2>1. /\ job[p].pc = "added" /\ job[p].pc \in AtPosition /\ job[p].pc \in Routing
    BY <1>4 DEF AddWrite, At, AtPosition, Routing
  <2>2. job[p].held = row.qty /\ row.open
    BY <1>1, <2>1 DEF HoldsPosition
  <2> DEFINE v == [row EXCEPT !.qty = job[p].held + Delta(p),
                              !.events = row.events + Delta(p)]
  <2>3. positions' = [positions EXCEPT ![k] = v]
    BY <1>4 DEF AddWrite
  <2>4. /\ v.qty = row.qty + Delta(p) /\ v.events = row.events + Delta(p)
        /\ v.open = row.open /\ v.ladder = row.ladder
    BY <1>2, <2>1, <2>2 DEF PositionType
  <2> HIDE DEF v
  <2>5. RowGood(v) /\ v.open
    <3>1. /\ row.qty = row.events /\ row.qty \in Nat
          /\ Delta(p) \in Nat /\ Delta(p) > 0
      BY <1>2, <1>3, <2>1 DEF RowGood
    <3>2. LadderGood(v.ladder, v.open)
      BY <1>2, <2>1, <2>4 DEF RowGood, LadderGood
    <3>3. v.qty = v.events /\ v.qty > 0
      BY <2>4, <3>1
    <3>4. v.open
      BY <2>2, <2>4
    <3> QED BY <3>2, <3>3, <3>4 DEF RowGood
  <2>6. PICK pc \in {"write", "so"} : Goto(p, pc)
    BY <1>4 DEF AddWrite
  <2>7. "write" \notin Guarded
    BY DEF Guarded
  <2> QED BY <2>1, <2>2, <2>3, <2>5, <2>6, <2>7, RowStep
<1>5. ASSUME CloseWrite(p) PROVE RowsIInv'
  <2>1. /\ job[p].pc = "closed" /\ job[p].pc \in AtPosition /\ job[p].pc \in Routing
    BY <1>5 DEF CloseWrite, At, AtPosition, Routing
  <2>2. job[p].held = row.qty /\ row.open
    BY SMTT(30), <1>1, <2>1 DEF HoldsPosition
  <2> DEFINE left == job[p].held - Delta(p)
             v == [row EXCEPT !.qty = left, !.events = row.events - Delta(p),
                              !.open = IF left = 0 THEN FALSE ELSE row.open]
  <2>3. positions' = [positions EXCEPT ![k] = v]
    BY <1>5 DEF CloseWrite
  <2>4. /\ v.qty = left /\ v.events = row.events - Delta(p)
        /\ v.open = (IF left = 0 THEN FALSE ELSE row.open) /\ v.ladder = row.ladder
    BY <1>2, <2>1 DEF PositionType
  <2>5. left = row.qty - Delta(p) /\ left \in Nat
    <3>1. Delta(p) <= job[p].held /\ job[p].held \in Nat
      BY <2>1, JobFacts DEF GoodJob, JobType, Delta
    <3> QED BY <1>3, <2>1, <2>2, <3>1
  <2> HIDE DEF v, left
  <2>6. v.open => row.open
    BY <2>4
  <2>7. LadderGood(v.ladder, v.open)
    BY <1>2, <2>1, <2>4, <2>6 DEF RowGood, LadderGood
  <2>8. RowGood(v)
    <3>1. row.qty = row.events /\ row.qty \in Nat /\ Delta(p) \in Nat
      BY <1>2, <1>3, <2>1 DEF RowGood
    <3>2. v.qty = v.events
      BY <2>4, <2>5, <3>1
    <3>3. v.open <=> v.qty > 0
      BY <2>2, <2>4, <2>5
    <3> QED BY <2>7, <3>2, <3>3 DEF RowGood
  <2>9. "finalize" \notin Guarded /\ Goto(p, "finalize")
    BY <1>5 DEF Guarded, CloseWrite
  <2> QED BY <2>1, <2>3, <2>6, <2>8, <2>9, RowStep
<1>6. ASSUME LadderWrite(p) PROVE RowsIInv'
  <2>1. /\ job[p].pc = "advance" /\ job[p].pc \in AtPosition
    BY <1>6 DEF LadderWrite, At, AtPosition
  <2>2. row.open /\ job[p].ladder = row.ladder /\ IsActive(row.ladder)
    BY <1>1, <2>1 DEF HoldsPosition
  <2> DEFINE d == Advanced(row.ladder)
             v == [row EXCEPT !.ladder = d]
  <2>3. positions' = [positions EXCEPT ![k] = v]
    BY <1>6, <2>2 DEF LadderWrite
  <2>4. /\ v.qty = row.qty /\ v.events = row.events /\ v.open = row.open /\ v.ladder = d
    BY <1>2, <2>1 DEF PositionType
  <2>5. /\ d.phase = "ladder_active" /\ d.filled = row.ladder.filled + 1
        /\ d.next = IF row.ladder.next + 1 < MaxSO THEN row.ladder.next + 1 ELSE -1
    BY <1>2, <2>1, <2>2 DEF Advanced, Ladders, IsActive
  <2>6. /\ row.ladder.next >= 0 /\ row.ladder.next = row.ladder.filled
        /\ row.ladder.next < MaxSO /\ row.ladder.filled \in Nat
    BY <1>2, <2>1, <2>2 DEF RowGood, LadderGood, IsActive, Ladders
  <2> HIDE DEF v, d
  <2>7. LadderGood(d, row.open)
    <3>1. MaxSO \in Nat
      BY FillConstants
    <3>2. d.filled <= MaxSO
      BY <2>5, <2>6, <3>1
    <3>3. d.next >= 0 => d.next < MaxSO /\ d.next = d.filled
      BY <2>5, <2>6, <3>1
    <3>4. d.next = -1 => d.filled = MaxSO
      BY <2>5, <2>6, <3>1
    <3> QED BY <2>5, <3>2, <3>3, <3>4 DEF LadderGood
  <2>8. RowGood(v)
    BY <1>2, <2>1, <2>4, <2>7 DEF RowGood
  <2>9. "write" \notin Guarded /\ Goto(p, "write")
    BY <1>6, <2>2 DEF Guarded, LadderWrite, Position
  <2> QED BY <2>1, <2>2, <2>3, <2>8, <2>9, RowStep
<1>7. ASSUME FinalizeWrite(p) PROVE RowsIInv'
  <2>1. /\ job[p].pc = "complete" /\ job[p].pc \in AtPosition
    BY <1>7 DEF FinalizeWrite, At, AtPosition
  <2>2. ~row.open /\ job[p].ladder = row.ladder /\ row.ladder.phase = "ladder_active"
    BY <1>1, <2>1 DEF HoldsPosition
  <2> DEFINE d == Completed(row.ladder)
             v == [row EXCEPT !.ladder = d]
  <2>3. positions' = [positions EXCEPT ![k] = v]
    BY <1>7, <2>2 DEF FinalizeWrite
  <2>4. /\ v.qty = row.qty /\ v.events = row.events /\ v.open = row.open /\ v.ladder = d
    BY <1>2, <2>1 DEF PositionType
  <2>5. d.phase = "completed" /\ d.filled = row.ladder.filled /\ d.next = -1
    BY <1>2, <2>1 DEF Completed, Ladders
  <2> HIDE DEF v, d
  <2>6. LadderGood(d, row.open)
    <3>1. row.ladder.filled <= MaxSO
      BY <1>2, <2>1, <2>2 DEF RowGood, LadderGood
    <3> QED BY <2>2, <2>5, <3>1 DEF LadderGood
  <2>7. RowGood(v)
    BY <1>2, <2>1, <2>4, <2>6 DEF RowGood
  <2>8. "write" \notin Guarded /\ Goto(p, "write")
    BY <1>7 DEF Guarded, FinalizeWrite
  <2>9. v.open => positions[job[p].pos].open
    BY <2>4
  <2> QED BY <2>1, <2>3, <2>7, <2>8, <2>9, RowStep
<1> QED BY <1>4, <1>5, <1>6, <1>7

LEMMA NextRows == OnePoll /\ IInv /\ BooksIInv /\ [Next]_vars => RowsIInv'
<1> SUFFICES ASSUME OnePoll, IInv, RowsIInv, [Next]_vars PROVE RowsIInv'
  BY DEF BooksIInv
<1>1. ASSUME NEW p \in Pollers, Reconcile(p) PROVE RowsIInv'
  BY <1>1, FreeRows, ReaderRows, CreateRows, WriterRows DEF Reconcile
<1>2. ASSUME NEW p \in Pollers, EvaluateStrategies(p) PROVE RowsIInv'
  BY <1>2, FreeRows, ReaderRows DEF EvaluateStrategies
<1>3. ASSUME UNCHANGED <<positions, job>> PROVE RowsIInv'
  BY <1>3 DEF RowsIInv, RowsMatchEvents, OneOpenPosition, OpenPositions, LadderCounts,
              LevelsInSchedule, HoldsPosition
<1>4. ASSUME NEW i \in Intents, OrderFills(i) \/ OrderCancelled(i) PROVE RowsIInv'
  <2>1. UNCHANGED <<positions, job>>
    BY <1>4 DEF OrderFills, OrderCancelled, book
  <2> QED BY <1>3, <2>1
<1>5. ASSUME NextRun \/ UNCHANGED vars PROVE RowsIInv'
  <2>1. UNCHANGED <<positions, job>>
    BY <1>5 DEF NextRun, vars, book
  <2> QED BY <1>3, <2>1
<1> QED BY <1>1, <1>2, <1>4, <1>5, FreeRows DEF Next

LEMMA InitBooks == Init => BooksIInv
<1> SUFFICES ASSUME Init PROVE FillsIInv /\ RowsIInv
  BY DEF BooksIInv
<1>1. \A p \in Pollers : job[p].pc = "idle" /\ job[p].batch = {}
  BY DEF Init, Idle, Job
<1>2. DOMAIN positions = {}
  BY DEF Init
<1>3. \A i \in Intents : /\ intent[i].cum = 0 /\ Routed(i) = 0 /\ order[i].exec = 0
  BY DEF Init, NoRow, Routed
<1>4. FillsIInv
  BY <1>1, <1>3 DEF FillsIInv, RecordsKeepUp, Settled, HoldsItem, Routing, Settling
<1>5. RowsIInv
  BY <1>1, <1>2 DEF RowsIInv, RowsMatchEvents, OneOpenPosition, OpenPositions,
     LadderCounts, LevelsInSchedule, HoldsPosition
<1> QED BY <1>4, <1>5

\* The inductive invariant of one poll at a time: from the check of a position
\* to its write, and from the query of an order to the record of its fill,
\* what the poll holds is what the rows say.
THEOREM BooksInvariant ==
  ASSUME OnePoll
  PROVE  Spec => []BooksIInv
<1>1. IInv /\ BooksIInv /\ [Next]_vars => BooksIInv'
  BY NextFills, NextRows DEF BooksIInv
<1> QED BY <1>1, InitBooks, InductiveInvariant, PTL DEF Spec

\* With polls that do not overlap, reconcilePlacedIntents and positionManager
\* keep the books: no fill is booked twice unless a poll dies, rows hold what
\* their events add up to, a bot has one open position, and the DCA ladder
\* counts the levels that filled.
THEOREM BooksAgree ==
  ASSUME OnePoll
  PROVE  Spec => []PositionsAgree
<1>1. BooksIInv => PositionsAgree
  BY DEF BooksIInv, FillsIInv, RowsIInv, RecordsKeepUp, PositionsAgree,
         NoFillBookedTwice, Routed
<1> QED BY <1>1, BooksInvariant, PTL
==============================================================================
