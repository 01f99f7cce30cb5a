------------------------- MODULE HedgeLifecycleProofs -------------------------
(****************************************************************************)
(* Machine-checked proofs about HedgeLifecycle, for any number of hedges,   *)
(* requests, overlapping ticks and faults.                                  *)
(****************************************************************************)
EXTENDS HedgeLifecycle, TLAPS

-----------------------------------------------------------------------------
(* The invariant, by the variables it speaks of                              *)

LegState == {"NONE", "PENDING", "FILLED", "FAILED"}

Rows ==
  /\ status \in [Hedges -> HedgeStatus \cup {"NO_ROW"}]
  /\ leg \in [Hedges -> [Sides -> LegState]]
  /\ rows \in [Hedges -> [Sides -> Nat]]
  /\ fills \in [Hedges -> [Sides -> Nat]]
  /\ late \in [Hedges -> [Sides -> Nat]]
  /\ faults \in Nat
  /\ StageHasItsLegs /\ EmittedTogether /\ FilledByPipeline

\* RequestKnows of a value.
GoodRequest(j) ==
  /\ j \in JobType
  /\ j.pc \in {"idle", "persist"} \cup Sides
  /\ j.pc # "idle" => j.hedge \in RestHedges

\* StageSays and TickKnows of a value, against the legs of the next state.
EmittedNext(h, stage) == \A s \in Legs(stage) : leg'[h][s] # "NONE"
FilledNext(h, stage) == \A s \in Legs(stage) : leg'[h][s] = "FILLED"
FailedNext(h, stage) == \E s \in Legs(stage) : leg'[h][s] = "FAILED"

SaysNext(h, st) ==
  /\ st = "OPENING" => EmittedNext(h, "entry")
  /\ st \in {"OPEN", "CLOSING", "CLOSED"} => FilledNext(h, "entry")
  /\ st = "CLOSING" => EmittedNext(h, "exit")
  /\ st = "CLOSED" => FilledNext(h, "exit")
  /\ st = "FAILED" => FailedNext(h, "entry") \/ FailedNext(h, "exit")

GoodTick(j) ==
  /\ j \in JobType
  /\ j.pc \in {"idle", "next", "gate", "emit", "summarise", "write"}
  /\ j.batch \subseteq WorkerHedges
  /\ j.pc \in {"gate", "emit", "summarise", "write"} => j.hedge \in WorkerHedges
  /\ j.pc = "gate" => j.stage = "entry"
  /\ j.hedge \in WorkerHedges \ RestHedges =>
       /\ j.pc \in {"emit", "summarise"} /\ j.stage = "exit"
            => FilledNext(j.hedge, "entry")
       /\ j.pc = "summarise" => EmittedNext(j.hedge, j.stage)
       /\ j.pc = "write" => SaysNext(j.hedge, j.to)

\* The legs of every hedge move forward or stay.
Forward ==
  \A h \in Hedges, s \in Sides :
    /\ leg[h][s] # "NONE" => leg'[h][s] # "NONE"
    /\ leg[h][s] \in {"FILLED", "FAILED"} => leg'[h][s] = leg[h][s]

LEMMA LegsAreSides == \A stage : Legs(stage) \subseteq Sides
  BY DEF Legs, Sides

LEMMA SaysStays ==
  ASSUME Forward, NEW h \in Hedges
  PROVE  /\ \A stage : /\ Emitted(h, stage) => EmittedNext(h, stage)
                       /\ BothFilled(h, stage) => FilledNext(h, stage)
                       /\ AnyFailed(h, stage) => FailedNext(h, stage)
         /\ \A st : StageSays(h, st) => SaysNext(h, st)
<1>1. \A s \in Sides : /\ leg[h][s] # "NONE" => leg'[h][s] # "NONE"
                       /\ leg[h][s] \in {"FILLED", "FAILED"} => leg'[h][s] = leg[h][s]
  BY DEF Forward
<1>2. ASSUME NEW stage
      PROVE  /\ Emitted(h, stage) => EmittedNext(h, stage)
             /\ BothFilled(h, stage) => FilledNext(h, stage)
             /\ AnyFailed(h, stage) => FailedNext(h, stage)
  BY <1>1, LegsAreSides
     DEF Emitted, BothFilled, AnyFailed, EmittedNext, FilledNext, FailedNext
<1>3. ASSUME NEW st, StageSays(h, st) PROVE SaysNext(h, st)
  BY <1>2, <1>3 DEF StageSays, SaysNext
<1> QED BY <1>2, <1>3

\* What a tick knows survives what the other jobs do to the legs.
LEMMA TickStays ==
  ASSUME IInv, Forward, NEW t \in Ticks
  PROVE  GoodTick(job[t])
<1>1. job[t] \in JobType /\ TickKnows(t) /\ WorkerHedges \subseteq Hedges
  BY HedgeConstants DEF IInv, TypeOK, Jobs
<1> DEFINE h == job[t].hedge
<1>2. ASSUME h \in WorkerHedges \ RestHedges
      PROVE  /\ job[t].pc \in {"emit", "summarise"} /\ job[t].stage = "exit"
                  => FilledNext(h, "entry")
             /\ job[t].pc = "summarise" => EmittedNext(h, job[t].stage)
             /\ job[t].pc = "write" => SaysNext(h, job[t].to)
  BY <1>1, <1>2, SaysStays DEF TickKnows, Hedge
<1> QED BY <1>1, <1>2 DEF GoodTick, TickKnows, Hedge

LEMMA JobsMove ==
  ASSUME Rows', job' \in [Jobs -> JobType],
         \A c \in Clients : GoodRequest(job'[c]),
         \A t \in Ticks : GoodTick(job'[t])
  PROVE  IInv'
<1>1. TypeOK'
  BY DEF Rows, TypeOK, LegState
<1>2. \A c \in Clients : RequestKnows(c)'
  BY DEF GoodRequest, RequestKnows, Hedge
<1>3. \A t \in Ticks : TickKnows(t)'
  BY DEF GoodTick, TickKnows, Hedge, EmittedNext, FilledNext, FailedNext,
         SaysNext, StageSays, Emitted, BothFilled, AnyFailed
<1> QED BY <1>1, <1>2, <1>3 DEF Rows, IInv

LEMMA Now ==
  ASSUME IInv
  PROVE  /\ Rows /\ job \in [Jobs -> JobType]
         /\ \A c \in Clients : GoodRequest(job[c])
         /\ \A t \in Ticks : TickKnows(t)
  BY DEF IInv, TypeOK, Rows, LegState, GoodRequest, RequestKnows, Hedge, Jobs

\* One tick moves on.
LEMMA TickMoves ==
  ASSUME IInv, Forward, Rows', NEW t \in Ticks, NEW j, GoodTick(j),
         job' = [job EXCEPT ![t] = j]
  PROVE  IInv'
<1>1. job \in [Jobs -> JobType] /\ j \in JobType /\ t \in Jobs
  BY Now DEF GoodTick, Jobs
<1>2. \A c \in Clients : GoodRequest(job'[c])
  BY <1>1, Now, HedgeConstants DEF Jobs
<1>3. \A u \in Ticks : GoodTick(job'[u])
  BY <1>1, TickStays DEF Jobs
<1>4. job' \in [Jobs -> JobType]
  BY <1>1
<1> QED BY <1>2, <1>3, <1>4, JobsMove

\* One request moves on.
LEMMA RequestMoves ==
  ASSUME IInv, Forward, Rows', NEW c \in Clients, NEW j, GoodRequest(j),
         job' = [job EXCEPT ![c] = j]
  PROVE  IInv'
<1>1. job \in [Jobs -> JobType] /\ j \in JobType /\ c \in Jobs
  BY Now DEF GoodRequest, Jobs
<1>2. \A d \in Clients : GoodRequest(job'[d])
  BY <1>1, Now DEF Jobs
<1>3. \A t \in Ticks : GoodTick(job'[t])
  BY <1>1, TickStays, HedgeConstants DEF Jobs
<1>4. job' \in [Jobs -> JobType]
  BY <1>1
<1> QED BY <1>2, <1>3, <1>4, JobsMove

LEMMA RowsMove ==
  ASSUME IInv, Forward, Rows', job' = job
  PROVE  IInv'
<1>1. \A c \in Clients : GoodRequest(job'[c])
  BY Now
<1>2. \A t \in Ticks : GoodTick(job'[t])
  BY TickStays
<1> QED BY <1>1, <1>2, Now, JobsMove

\* Most steps of a job leave the legs alone.
LEMMA SameLegs == leg' = leg => Forward
  BY DEF Forward

\* The rows stay good when legs, fills and orders stay and a status that
\* changes is one its legs bear out.
LEMMA StatusWritten ==
  ASSUME Rows, UNCHANGED <<leg, fills, late>>, rows' \in [Hedges -> [Sides -> Nat]],
         faults' \in Nat, status' \in [Hedges -> HedgeStatus \cup {"NO_ROW"}],
         \A h \in WorkerHedges \ RestHedges :
           status'[h] # status[h] => StageSays(h, status'[h])
  PROVE  Rows'
<1>1. \A h \in WorkerHedges \ RestHedges : StageSays(h, status'[h])
  BY DEF Rows, StageHasItsLegs
<1>2. StageHasItsLegs'
  BY <1>1 DEF StageHasItsLegs, StageSays, Emitted, BothFilled, AnyFailed
<1>3. EmittedTogether' /\ FilledByPipeline'
  BY DEF Rows, EmittedTogether, Emitted, FilledByPipeline
<1> QED BY <1>2, <1>3 DEF Rows

LEMMA IdleGood ==
  /\ Idle.pc = "idle" /\ GoodRequest(Idle) /\ GoodTick(Idle)
<1>1. Idle \in JobType
  BY DEF Idle, Job, JobType, Sides, HedgeStatus
<1> QED BY <1>1 DEF Idle, Job, GoodRequest, GoodTick

-----------------------------------------------------------------------------
(* Requests                                                                  *)

LEMMA CreateInv ==
  ASSUME IInv, NEW h \in Hedges, CreateHedge(h)
  PROVE  IInv'
<1>1. Rows
  BY Now
<1>2. status' \in [Hedges -> HedgeStatus \cup {"NO_ROW"}]
  BY <1>1 DEF CreateHedge, Rows, HedgeStatus
<1>3. \A g \in WorkerHedges \ RestHedges :
        status'[g] # status[g] => StageSays(g, status'[g])
  BY <1>1, HedgeConstants DEF CreateHedge, Rows, StageSays
<1>4. Rows'
  BY <1>1, <1>2, <1>3, StatusWritten DEF CreateHedge, Rows
<1> QED BY <1>4, SameLegs, RowsMove DEF CreateHedge

LEMMA BeginInv ==
  ASSUME IInv, NEW c \in Clients, NEW h \in Hedges,
         ExecuteHedge(c, h) \/ ExitHedge(c, h)
  PROVE  IInv'
<1>1. PICK pc \in Sides, stage \in {"entry", "exit"} :
        job' = [job EXCEPT ![c] = Job(pc, stage, h, {})]
  BY DEF ExecuteHedge, ExitHedge, Sides
<1>2. h \in RestHedges /\ UNCHANGED <<status, leg, rows, fills, late, faults>>
  BY DEF ExecuteHedge, ExitHedge
<1>3. GoodRequest(Job(pc, stage, h, {}))
  BY <1>2, HedgeConstants DEF Job, GoodRequest, JobType, HedgeStatus
<1>4. Rows'
  BY <1>2, Now, StatusWritten DEF Rows
<1> QED BY <1>1, <1>2, <1>3, <1>4, SameLegs, RequestMoves

LEMMA PlacingGood ==
  ASSUME NEW j, GoodRequest(j), j.pc \in Sides
  PROVE  j.hedge \in RestHedges /\ GoodRequest(Placed(j)) /\ GoodRequest(Threw(j))
<1>1. j.hedge \in RestHedges
  BY DEF GoodRequest, Sides
<1>2. /\ Placed(j) \in JobType /\ Placed(j).hedge = j.hedge
      /\ Placed(j).pc \in {"persist"} \cup Sides
  BY DEF GoodRequest, Placed, JobType, Sides
<1>3. /\ Threw(j) \in JobType /\ Threw(j).hedge = j.hedge
      /\ Threw(j).pc \in {"persist"} \cup Sides
  BY DEF GoodRequest, Threw, JobType, Sides
<1> QED BY <1>1, <1>2, <1>3 DEF GoodRequest

\* An order of a request touches the fills and orders of its hedge only, and
\* no leg of the pipeline.
LEMMA OrderPlaced ==
  ASSUME IInv, NEW h \in RestHedges, UNCHANGED <<status, leg, rows>>,
         fills' \in [Hedges -> [Sides -> Nat]], late' \in [Hedges -> [Sides -> Nat]],
         \A g \in Hedges \ {h} : fills'[g] = fills[g] /\ late'[g] = late[g],
         faults' \in Nat
  PROVE  Rows'
<1>1. Rows
  BY Now
<1>2. StageHasItsLegs' /\ EmittedTogether'
  BY <1>1 DEF Rows, StageHasItsLegs, StageSays, EmittedTogether, Emitted,
              BothFilled, AnyFailed
<1>3. FilledByPipeline'
  <2>1. ASSUME NEW g \in Hedges \ RestHedges, NEW s \in Sides
        PROVE  late'[g][s] = late[g][s] /\ fills'[g][s] = fills[g][s]
    BY <2>1
  <2> QED BY <1>1, <2>1 DEF Rows, FilledByPipeline
<1> QED BY <1>1, <1>2, <1>3 DEF Rows

LEMMA OneMore ==
  ASSUME NEW f \in [Hedges -> [Sides -> Nat]], NEW h \in Hedges, NEW s \in Sides
  PROVE  /\ [f EXCEPT ![h][s] = @ + 1] \in [Hedges -> [Sides -> Nat]]
         /\ \A g \in Hedges \ {h} : [f EXCEPT ![h][s] = @ + 1][g] = f[g]
  OBVIOUS

LEMMA LegInv ==
  ASSUME IInv, NEW c \in Clients, LegFilled(c) \/ LegRefused(c) \/ LegGivenUp(c)
  PROVE  IInv'
<1> DEFINE h == job[c].hedge
<1>1. Rows /\ GoodRequest(job[c]) /\ job[c].pc \in Sides
  BY Now DEF LegFilled, LegRefused, LegGivenUp, Placing
<1>2. /\ h \in RestHedges /\ h \in Hedges
      /\ GoodRequest(Placed(job[c])) /\ GoodRequest(Threw(job[c]))
  BY <1>1, PlacingGood, HedgeConstants
<1>3. CASE LegFilled(c)
  <2>1. /\ fills' \in [Hedges -> [Sides -> Nat]]
        /\ \A g \in Hedges \ {h} : fills'[g] = fills[g]
    BY <1>1, <1>2, <1>3, OneMore DEF LegFilled, Hedge, Rows
  <2>2. Rows'
    BY <1>1, <1>2, <1>3, <2>1, OrderPlaced DEF LegFilled, Rows
  <2> QED BY <1>2, <1>3, <2>2, SameLegs, RequestMoves DEF LegFilled
<1>4. CASE LegRefused(c)
  <2>1. Rows'
    BY <1>1, <1>2, <1>4, OrderPlaced DEF LegRefused, Rows
  <2> QED BY <1>2, <1>4, <2>1, SameLegs, RequestMoves DEF LegRefused
<1>5. CASE LegGivenUp(c)
  <2>1. /\ late' \in [Hedges -> [Sides -> Nat]]
        /\ \A g \in Hedges \ {h} : late'[g] = late[g]
    BY <1>1, <1>2, <1>5, OneMore DEF LegGivenUp, Hedge, Rows
  <2>2. Rows'
    BY <1>1, <1>2, <1>5, <2>1, OrderPlaced DEF LegGivenUp, Rows
  <2> QED BY <1>2, <1>5, <2>2, SameLegs, RequestMoves DEF LegGivenUp
<1> QED BY <1>3, <1>4, <1>5

LEMMA PersistInv ==
  ASSUME IInv, NEW c \in Clients, PersistAndRespond(c)
  PROVE  IInv'
<1> DEFINE h == job[c].hedge
<1>1. Rows /\ GoodRequest(job[c]) /\ job[c].pc = "persist"
  BY Now DEF PersistAndRespond, At
<1>2. h \in RestHedges /\ h \in Hedges /\ StatusOf(job[c]) \in HedgeStatus
  BY <1>1, HedgeConstants DEF GoodRequest, StatusOf, HedgeStatus
<1>3. /\ rows' \in [Hedges -> [Sides -> Nat]]
      /\ status' \in [Hedges -> HedgeStatus \cup {"NO_ROW"}]
      /\ \A g \in Hedges \ {h} : status'[g] = status[g]
  BY <1>1, <1>2 DEF PersistAndRespond, Hedge, Rows
<1>4. Rows'
  BY <1>1, <1>2, <1>3, HedgeConstants, StatusWritten DEF PersistAndRespond, Rows
<1> QED BY <1>4, IdleGood, SameLegs, RequestMoves DEF PersistAndRespond

-----------------------------------------------------------------------------
(* Ticks                                                                     *)

\* The tick goes on to the rest of its batch, or ends.
LEMMA ReturnMoves ==
  ASSUME IInv, Forward, Rows', NEW t \in Ticks, Return(t)
  PROVE  IInv'
<1>1. job[t].batch \subseteq WorkerHedges
  BY Now DEF TickKnows
<1>2. GoodTick(Job("next", "entry", NoHedge, job[t].batch))
  BY <1>1, HedgeConstants DEF Job, GoodTick, JobType, Sides, HedgeStatus
<1> QED BY <1>2, IdleGood, TickMoves DEF Return

\* A tick that only reads leaves the rows as they are.
LEMMA RowsStay ==
  ASSUME IInv, UNCHANGED <<status, leg, rows, fills, late, faults>>
  PROVE  Rows' /\ Forward
<1>1. Rows'
  BY Now, StatusWritten DEF Rows
<1> QED BY <1>1, SameLegs

LEMMA TickInv ==
  ASSUME IInv, NEW t \in Ticks, TickHedges(t)
  PROVE  IInv'
<1>1. PICK b \in SUBSET WorkerHedges :
        job' = [job EXCEPT ![t] = Job("next", "entry", NoHedge, b)]
  BY DEF TickHedges
<1>2. GoodTick(Job("next", "entry", NoHedge, b))
  BY HedgeConstants DEF Job, GoodTick, JobType, Sides, HedgeStatus
<1> QED BY <1>1, <1>2, RowsStay, TickMoves DEF TickHedges

LEMMA AdvanceInv ==
  ASSUME IInv, NEW t \in Ticks, AdvanceHedge(t)
  PROVE  IInv'
<1>1. PICK h \in job[t].batch :
        LET rest == job[t].batch \ {h} IN
        \/ /\ status[h] = "PLANNED"
           /\ job' = [job EXCEPT ![t] = Job("gate", "entry", h, rest)]
        \/ /\ status[h] = "OPEN"
           /\ job' = [job EXCEPT ![t] = Job("emit", "exit", h, rest)]
        \/ /\ status[h] = "OPENING"
           /\ job' = [job EXCEPT ![t] = Job("summarise", "entry", h, rest)]
        \/ /\ status[h] = "CLOSING"
           /\ job' = [job EXCEPT ![t] = Job("summarise", "exit", h, rest)]
        \/ job' = [job EXCEPT ![t] = IF rest = {} THEN Idle
                                     ELSE Job("next", "entry", NoHedge, rest)]
  BY DEF AdvanceHedge
<1> DEFINE rest == job[t].batch \ {h}
<1>2. /\ Rows' /\ Forward /\ leg' = leg
      /\ h \in WorkerHedges /\ h \in Hedges /\ rest \subseteq WorkerHedges
  BY Now, RowsStay, HedgeConstants DEF AdvanceHedge, TickKnows
<1>3. h \notin RestHedges => StageSays(h, status[h])
  BY <1>2, Now DEF Rows, StageHasItsLegs
<1>4. ASSUME NEW pc \in {"gate", "emit", "summarise"}, NEW stage \in {"entry", "exit"},
             pc = "gate" => stage = "entry",
             pc # "gate" /\ stage = "exit" /\ h \notin RestHedges
               => BothFilled(h, "entry"),
             pc = "summarise" /\ h \notin RestHedges => Emitted(h, stage)
      PROVE  GoodTick(Job(pc, stage, h, rest))
  <2>1. Job(pc, stage, h, rest) \in JobType
    BY <1>2, HedgeConstants DEF Job, JobType, Sides, HedgeStatus
  <2>2. /\ BothFilled(h, "entry") => FilledNext(h, "entry")
        /\ Emitted(h, stage) => EmittedNext(h, stage)
    BY <1>2, SaysStays
  <2> QED BY <1>2, <1>4, <2>1, <2>2 DEF Job, GoodTick
<1>5. GoodTick(Job("next", "entry", NoHedge, rest)) /\ GoodTick(Idle)
  BY <1>2, IdleGood, HedgeConstants DEF Job, GoodTick, JobType, Sides, HedgeStatus
<1>6. CASE status[h] = "PLANNED" /\ job' = [job EXCEPT ![t] = Job("gate", "entry", h, rest)]
  BY <1>2, <1>4, <1>6, TickMoves
<1>7. CASE status[h] = "OPEN" /\ job' = [job EXCEPT ![t] = Job("emit", "exit", h, rest)]
  BY <1>2, <1>3, <1>4, <1>7, TickMoves DEF StageSays
<1>8. CASE /\ status[h] = "OPENING"
           /\ job' = [job EXCEPT ![t] = Job("summarise", "entry", h, rest)]
  BY <1>2, <1>3, <1>4, <1>8, TickMoves DEF StageSays
<1>9. CASE /\ status[h] = "CLOSING"
           /\ job' = [job EXCEPT ![t] = Job("summarise", "exit", h, rest)]
  BY <1>2, <1>3, <1>4, <1>9, TickMoves DEF StageSays
<1> QED BY <1>1, <1>2, <1>5, <1>6, <1>7, <1>8, <1>9, TickMoves

LEMMA GateInv ==
  ASSUME IInv, NEW t \in Ticks, GateOpen(t) \/ GateClosed(t)
  PROVE  IInv'
<1>1. Rows' /\ Forward
  BY RowsStay DEF GateOpen, GateClosed
<1>2. CASE GateOpen(t)
  <2>1. job[t].pc = "gate" /\ job[t] \in JobType /\ TickKnows(t)
    BY <1>2, Now DEF GateOpen, At, Jobs
  <2>2. GoodTick([job[t] EXCEPT !.pc = "emit"])
    BY <2>1 DEF GoodTick, TickKnows, JobType, Hedge
  <2> QED BY <1>1, <1>2, <2>2, TickMoves DEF GateOpen
<1>3. CASE GateClosed(t)
  BY <1>1, <1>3, ReturnMoves DEF GateClosed
<1> QED BY <1>2, <1>3

\* The transaction of a stage: both its legs appear, where none was.
LEMMA EmitInv ==
  ASSUME IInv, NEW t \in Ticks, EmitHedgeIntents(t)
  PROVE  IInv'
<1> DEFINE h == job[t].hedge
           stage == job[t].stage
           to == IF stage = "entry" THEN "OPENING" ELSE "CLOSING"
<1>1. /\ Rows /\ TickKnows(t) /\ h \in WorkerHedges /\ h \in Hedges
      /\ stage \in {"entry", "exit"} /\ job[t].pc = "emit"
  BY Now, HedgeConstants DEF EmitHedgeIntents, At, TickKnows, Hedge, Jobs, JobType
<1>2. \A s \in Legs(stage) : leg[h][s] = "NONE"
  BY <1>1 DEF EmitHedgeIntents, Rows, EmittedTogether, Hedge
<1>3. /\ leg' \in [Hedges -> [Sides -> LegState]]
      /\ \A g \in Hedges \ {h} : leg'[g] = leg[g]
      /\ \A s \in Legs(stage) : leg'[h][s] = "PENDING"
      /\ \A s \in Sides \ Legs(stage) : leg'[h][s] = leg[h][s]
  BY <1>1, LegsAreSides DEF EmitHedgeIntents, Rows, LegState, Hedge
<1>4. Forward
  BY <1>2, <1>3 DEF Forward
<1>5. /\ status' = [status EXCEPT ![h] = to] /\ Return(t)
      /\ UNCHANGED <<rows, fills, late, faults>>
  BY DEF EmitHedgeIntents, Hedge
<1>6. EmittedTogether'
  <2>0. ASSUME NEW g \in Hedges, NEW st \in {"entry", "exit"},
               NEW s \in Legs(st), leg[g][s] # "NONE", NEW x \in Legs(st)
        PROVE  leg[g][x] # "NONE"
    BY <1>1, <2>0 DEF Rows, EmittedTogether, Emitted
  <2>1. ASSUME NEW st \in {"entry", "exit"}, NEW s \in Legs(st), leg'[h][s] # "NONE"
        PROVE  \A x \in Legs(st) : leg'[h][x] # "NONE"
    <3>1. CASE st = stage
      BY <1>3, <3>1
    <3>2. CASE st # stage
      <4>1. Legs(st) \subseteq Sides \ Legs(stage)
        BY <1>1, <2>1, <3>2 DEF Legs, Sides
      <4>2. \A x \in Legs(st) : leg'[h][x] = leg[h][x]
        BY <1>3, <4>1
      <4> QED BY <1>1, <2>0, <2>1, <4>2
    <3> QED BY <3>1, <3>2
  <2>2. ASSUME NEW g \in Hedges \ {h}, NEW st \in {"entry", "exit"},
               NEW s \in Legs(st), leg'[g][s] # "NONE"
        PROVE  \A x \in Legs(st) : leg'[g][x] # "NONE"
    <3>1. leg'[g] = leg[g]
      BY <1>3, <2>2
    <3> QED BY <2>0, <2>2, <3>1
  <2> QED BY <2>1, <2>2 DEF EmittedTogether, Emitted
<1>7. FilledByPipeline'
  <2>1. \A g \in Hedges, s \in Sides : leg'[g][s] = "FILLED" <=> leg[g][s] = "FILLED"
    BY <1>2, <1>3
  <2> QED BY <1>1, <1>5, <2>1 DEF Rows, FilledByPipeline
<1>8. StageHasItsLegs'
  <2>1. ASSUME NEW g \in WorkerHedges \ RestHedges PROVE SaysNext(g, status'[g])
    <3>1. g \in Hedges /\ StageSays(g, status[g])
      BY <1>1, <2>1, HedgeConstants DEF Rows, StageHasItsLegs
    <3>2. CASE g # h
      BY <1>1, <1>4, <1>5, <3>1, <3>2, SaysStays DEF Rows
    <3>3. CASE g = h
      <4>1. status'[h] = to /\ EmittedNext(h, stage)
        BY <1>1, <1>3, <1>5 DEF Rows, EmittedNext
      <4>2. stage = "exit" => FilledNext(h, "entry")
        BY <1>1, <1>4, <3>3, SaysStays DEF TickKnows, Hedge
      <4> QED BY <1>1, <3>3, <4>1, <4>2 DEF SaysNext
    <3> QED BY <3>2, <3>3
  <2> QED BY <2>1 DEF StageHasItsLegs, SaysNext, EmittedNext, FilledNext,
                      FailedNext, StageSays, Emitted, BothFilled, AnyFailed
<1>9. Rows'
  BY <1>1, <1>3, <1>5, <1>6, <1>7, <1>8 DEF Rows, HedgeStatus
<1> QED BY <1>4, <1>5, <1>9, ReturnMoves

LEMMA ConflictInv ==
  ASSUME IInv, NEW t \in Ticks, EmitConflict(t)
  PROVE  IInv'
  BY RowsStay, ReturnMoves DEF EmitConflict

LEMMA SummariseInv ==
  ASSUME IInv, NEW t \in Ticks, SummariseLegStates(t)
  PROVE  IInv'
<1> DEFINE h == job[t].hedge
           stage == job[t].stage
<1>1. Rows' /\ Forward
  BY RowsStay DEF SummariseLegStates
<1>2. /\ job[t] \in JobType /\ TickKnows(t) /\ job[t].pc = "summarise"
      /\ h \in WorkerHedges /\ h \in Hedges /\ stage \in {"entry", "exit"}
  BY Now, HedgeConstants DEF SummariseLegStates, At, TickKnows, Hedge, Jobs, JobType
<1>3. ASSUME NEW to \in HedgeStatus, Write(t, to),
             h \notin RestHedges => StageSays(h, to)
      PROVE  IInv'
  <2>1. job' = [job EXCEPT ![t] = [job[t] EXCEPT !.pc = "write", !.to = to]]
    BY <1>3, Now DEF Write, Jobs
  <2>2. h \notin RestHedges => SaysNext(h, to)
    BY <1>1, <1>2, <1>3, SaysStays
  <2>3. [job[t] EXCEPT !.pc = "write", !.to = to] \in JobType
    BY <1>2 DEF JobType
  <2>4. GoodTick([job[t] EXCEPT !.pc = "write", !.to = to])
    BY <1>2, <2>2, <2>3 DEF GoodTick, TickKnows, JobType, Hedge
  <2> QED BY <1>1, <2>1, <2>4, TickMoves
<1>4. CASE AnyFailed(h, stage) /\ Write(t, "FAILED")
  BY <1>2, <1>3, <1>4 DEF StageSays, HedgeStatus
<1>5. CASE BothFilled(h, stage) /\ Write(t, IF stage = "entry" THEN "OPEN" ELSE "CLOSED")
  <2>1. h \notin RestHedges /\ stage = "exit" => BothFilled(h, "entry")
    BY <1>2 DEF TickKnows, Hedge
  <2>2. h \notin RestHedges
          => StageSays(h, IF stage = "entry" THEN "OPEN" ELSE "CLOSED")
    BY <1>2, <1>5, <2>1 DEF StageSays
  <2> QED BY <1>3, <1>5, <2>2 DEF HedgeStatus
<1>6. CASE Return(t)
  BY <1>1, <1>6, ReturnMoves
<1> QED BY <1>4, <1>5, <1>6 DEF SummariseLegStates, Hedge

LEMMA WriteInv ==
  ASSUME IInv, NEW t \in Ticks, WriteStatus(t)
  PROVE  IInv'
<1> DEFINE h == job[t].hedge
<1>1. /\ Rows /\ job[t] \in JobType /\ TickKnows(t) /\ job[t].pc = "write"
      /\ h \in WorkerHedges /\ h \in Hedges
  BY Now, HedgeConstants DEF WriteStatus, At, TickKnows, Hedge, Jobs
<1>2. /\ status' = [status EXCEPT ![h] = job[t].to] /\ job[t].to \in HedgeStatus
      /\ UNCHANGED <<leg, rows, fills, late, faults>> /\ Return(t)
  BY <1>1 DEF WriteStatus, Hedge, JobType
<1>3. status' \in [Hedges -> HedgeStatus \cup {"NO_ROW"}]
  BY <1>1, <1>2 DEF Rows
<1>4. \A g \in WorkerHedges \ RestHedges :
        status'[g] # status[g] => StageSays(g, status'[g])
  BY <1>1, <1>2, HedgeConstants DEF Rows, TickKnows, Hedge
<1>5. Rows'
  BY <1>1, <1>2, <1>3, <1>4, StatusWritten DEF Rows
<1> QED BY <1>2, <1>5, SameLegs, ReturnMoves

-----------------------------------------------------------------------------
(* The pipeline, the exchange, faults                                        *)

\* A leg of the pipeline comes to its end.
LEMMA LegEnds ==
  ASSUME IInv, NEW h \in Hedges, NEW s \in Sides, NEW o \in {"FILLED", "FAILED"},
         leg[h][s] = "PENDING", leg' = [leg EXCEPT ![h][s] = o],
         IF o = "FILLED" THEN fills' = [fills EXCEPT ![h][s] = @ + 1] ELSE fills' = fills,
         UNCHANGED <<status, rows, late, job, faults>>
  PROVE  IInv'
<1>1. Rows
  BY Now
<1>2. /\ leg' \in [Hedges -> [Sides -> LegState]]
      /\ \A g \in Hedges, x \in Sides :
           leg'[g][x] = IF g = h /\ x = s THEN o ELSE leg[g][x]
  BY <1>1 DEF Rows, LegState
<1>3. Forward
  BY <1>2 DEF Forward
<1>4. /\ fills' \in [Hedges -> [Sides -> Nat]]
      /\ \A g \in Hedges, x \in Sides :
           fills'[g][x] = IF g = h /\ x = s /\ o = "FILLED" THEN fills[g][x] + 1
                          ELSE fills[g][x]
  <2>1. fills \in [Hedges -> [Sides -> Nat]]
    BY <1>1 DEF Rows
  <2>2. CASE o = "FILLED"
    <3>1. fills' = [fills EXCEPT ![h][s] = @ + 1]
      BY <2>2
    <3> QED BY <2>1, <2>2, <3>1, OneMore
  <2>3. CASE o # "FILLED"
    BY <2>1, <2>3
  <2> QED BY <2>2, <2>3
<1>5. EmittedTogether'
  <2>1. \A g \in Hedges, x \in Sides : leg'[g][x] = "NONE" <=> leg[g][x] = "NONE"
    BY <1>2
  <2>2. ASSUME NEW g \in Hedges, NEW st \in {"entry", "exit"}, NEW x \in Legs(st),
               leg'[g][x] # "NONE", NEW y \in Legs(st)
        PROVE  leg'[g][y] # "NONE"
    <3>1. x \in Sides /\ y \in Sides
      BY <2>2, LegsAreSides
    <3>2. leg[g][x] # "NONE"
      BY <2>1, <2>2, <3>1
    <3>3. leg[g][y] # "NONE"
      BY <1>1, <2>2, <3>2 DEF Rows, EmittedTogether, Emitted
    <3> QED BY <2>1, <2>2, <3>1, <3>3
  <2> QED BY <2>2 DEF EmittedTogether, Emitted
<1>6. FilledByPipeline'
  <2>1. ASSUME NEW g \in Hedges \ RestHedges, NEW x \in Sides
        PROVE  /\ late'[g][x] = 0
               /\ fills'[g][x] = IF leg'[g][x] = "FILLED" THEN 1 ELSE 0
    <3>1. late[g][x] = 0 /\ fills[g][x] = IF leg[g][x] = "FILLED" THEN 1 ELSE 0
      BY <1>1 DEF Rows, FilledByPipeline
    <3> QED BY <1>2, <1>4, <3>1
  <2> QED BY <2>1 DEF FilledByPipeline
<1>7. StageHasItsLegs'
  <2>1. \A g \in WorkerHedges \ RestHedges : SaysNext(g, status'[g])
    BY <1>1, <1>3, SaysStays, HedgeConstants DEF Rows, StageHasItsLegs
  <2> QED BY <2>1 DEF StageHasItsLegs, SaysNext, EmittedNext, FilledNext,
                      FailedNext, StageSays, Emitted, BothFilled, AnyFailed
<1>8. Rows'
  BY <1>1, <1>2, <1>4, <1>5, <1>6, <1>7 DEF Rows
<1> QED BY <1>3, <1>8, RowsMove

\* Only requests leave orders behind.
LEMMA LateIsRest ==
  ASSUME IInv, NEW h \in Hedges, NEW s \in Sides, late[h][s] > 0
  PROVE  h \in RestHedges
  BY Now DEF Rows, FilledByPipeline

LEMMA ExchangeInv ==
  ASSUME IInv, NEW h \in Hedges, NEW s \in Sides, Exchange(h, s)
  PROVE  IInv'
<1>1. CASE LegIntentFilled(h, s)
  BY <1>1, LegEnds DEF LegIntentFilled
<1>2. CASE LegIntentFailed(h, s)
  BY <1>2, LegEnds DEF LegIntentFailed
<1>3. CASE LateFill(h, s) \/ LateCancel(h, s)
  <2>1. /\ Rows /\ h \in RestHedges
        /\ late[h][s] \in Nat /\ fills[h][s] \in Nat /\ late[h][s] - 1 \in Nat
    BY <1>3, Now, LateIsRest DEF LateFill, LateCancel, Rows
  <2>2. /\ late' = [late EXCEPT ![h][s] = @ - 1]
        /\ \/ fills' = [fills EXCEPT ![h][s] = @ + 1]
           \/ fills' = fills
        /\ UNCHANGED <<status, leg, rows, job, faults>>
    BY <1>3 DEF LateFill, LateCancel
  <2>3. /\ late' \in [Hedges -> [Sides -> Nat]]
        /\ fills' \in [Hedges -> [Sides -> Nat]]
        /\ \A g \in Hedges \ {h} : fills'[g] = fills[g] /\ late'[g] = late[g]
    <3>1. /\ late' \in [Hedges -> [Sides -> Nat]]
          /\ \A g \in Hedges \ {h} : late'[g] = late[g]
      BY <2>1, <2>2 DEF Rows
    <3>2. /\ fills' \in [Hedges -> [Sides -> Nat]]
          /\ \A g \in Hedges \ {h} : fills'[g] = fills[g]
      <4>1. fills \in [Hedges -> [Sides -> Nat]]
        BY <2>1 DEF Rows
      <4>2. CASE fills' = [fills EXCEPT ![h][s] = @ + 1]
        BY <4>1, <4>2, OneMore
      <4> QED BY <2>2, <4>1, <4>2
    <3> QED BY <3>1, <3>2
  <2>4. Rows'
    BY <2>1, <2>2, <2>3, OrderPlaced DEF Rows
  <2> QED BY <2>2, <2>4, SameLegs, RowsMove
<1> QED BY <1>1, <1>2, <1>3 DEF Exchange

LEMMA DiesInv ==
  ASSUME IInv, NEW p \in Jobs, ProcessDies(p)
  PROVE  IInv'
<1>0. Rows
  BY Now
<1>1. /\ Rows /\ faults' \in Nat /\ job' = [job EXCEPT ![p] = Idle]
      /\ UNCHANGED <<status, leg, rows, fills>>
  <2>1. faults \in Nat /\ faults' = faults + 1
    BY <1>0 DEF ProcessDies, Fault, Rows
  <2> QED BY <1>0, <2>1 DEF ProcessDies
<1>2. Rows'
  <2>1. CASE late' = late
    <3>1. rows' \in [Hedges -> [Sides -> Nat]]
          /\ status' \in [Hedges -> HedgeStatus \cup {"NO_ROW"}]
      BY <1>1 DEF Rows
    <3> QED BY <1>1, <2>1, <3>1, StatusWritten
  <2>2. CASE /\ Placing(p)
             /\ late' = [late EXCEPT ![Hedge(p)][job[p].pc] = @ + 1]
    <3>1. p \in Clients
      BY <2>2, Now DEF Placing, Sides, Jobs, TickKnows
    <3>2. Hedge(p) \in RestHedges /\ Hedge(p) \in Hedges /\ job[p].pc \in Sides
      BY <2>2, <3>1, Now, HedgeConstants DEF Placing, GoodRequest, Hedge, Sides
    <3>3. /\ late' \in [Hedges -> [Sides -> Nat]]
          /\ \A g \in Hedges \ {Hedge(p)} : late'[g] = late[g]
      BY <1>1, <2>2, <3>2, OneMore DEF Rows
    <3> QED BY <1>1, <3>2, <3>3, OrderPlaced DEF Rows
  <2> QED BY <2>1, <2>2 DEF ProcessDies
<1> QED BY <1>1, <1>2, IdleGood, SameLegs, TickMoves, RequestMoves DEF Jobs

LEMMA StutterInv == IInv /\ UNCHANGED vars => IInv'
<1> SUFFICES ASSUME IInv, UNCHANGED vars PROVE IInv'
  OBVIOUS
<1> QED BY RowsStay, RowsMove DEF vars

-----------------------------------------------------------------------------
LEMMA InitInv == Init => IInv
<1> SUFFICES ASSUME Init PROVE IInv
  OBVIOUS
<1>1. Idle \in JobType /\ Idle.pc = "idle" /\ Idle.batch = {}
  BY IdleGood DEF GoodRequest, Idle, Job
<1>2. TypeOK
  BY <1>1 DEF Init, TypeOK
<1>3. StageHasItsLegs
  BY HedgeConstants DEF Init, StageHasItsLegs, StageSays
<1>4. EmittedTogether /\ FilledByPipeline
  BY LegsAreSides DEF Init, EmittedTogether, FilledByPipeline
<1>5. (\A c \in Clients : RequestKnows(c)) /\ (\A t \in Ticks : TickKnows(t))
  <2>1. \A p \in Jobs : job[p] = Idle
    BY DEF Init
  <2>2. Idle.hedge = NoHedge
    BY DEF Idle, Job
  <2> QED BY <1>1, <2>1, <2>2, HedgeConstants DEF Jobs, RequestKnows, TickKnows, Hedge
<1> QED BY <1>2, <1>3, <1>4, <1>5 DEF IInv

LEMMA NextInv == IInv /\ [Next]_vars => IInv'
<1> SUFFICES ASSUME IInv, [Next]_vars PROVE IInv'
  OBVIOUS
<1>1. ASSUME NEW c \in Clients, RequestStep(c) PROVE IInv'
  BY <1>1, LegInv, PersistInv DEF RequestStep
<1>2. ASSUME NEW t \in Ticks, TickStep(t) PROVE IInv'
  BY <1>2, TickInv, AdvanceInv, GateInv, EmitInv, ConflictInv, SummariseInv,
     WriteInv DEF TickStep
<1> QED BY <1>1, <1>2, CreateInv, BeginInv, ExchangeInv, DiesInv, StutterInv DEF Next

-----------------------------------------------------------------------------
(* The routes, where a client sends one request at a time                    *)

\* A hedge that no step and no request has touched.
LEMMA RestUntouched ==
  ASSUME NEW h \in RestHedges, RestGood(h), faults' = 0 => faults = 0,
         status'[h] = status[h], leg'[h] = leg[h], rows'[h] = rows[h],
         fills'[h] = fills[h], late'[h] = late[h],
         \A c \in Clients : job[c].hedge = h \/ job'[c].hedge = h => job'[c] = job[c]
  PROVE  RestGood(h)'
<1>1. \A S : Holds(h, S) => Holds(h, S)'
  BY DEF Holds
<1>2. EachOnce(h) => EachOnce(h)'
  BY DEF EachOnce
<1>3. RestSays(h, status[h]) => RestSays(h, status[h])'
  BY <1>1, <1>2 DEF RestSays
<1>4. ASSUME NEW c \in Clients, job'[c] = job[c], RequestStands(job[c], h)
      PROVE  RequestStands(job[c], h)'
  BY <1>1, <1>2, <1>4 DEF RequestStands
<1> QED BY <1>3, <1>4 DEF RestGood, Hedge

\* The one client at a hedge, when it goes on.
LEMMA RestMoves ==
  ASSUME OneRequester, NEW c \in Clients, NEW h \in RestHedges, NEW j,
         job \in [Jobs -> JobType], job' = [job EXCEPT ![c] = j], j.hedge = h,
         \A s \in Sides : leg'[h][s] = "NONE" /\ rows'[h][s] <= fills'[h][s],
         \A s \in j.legs : rows'[h][s] + 1 <= fills'[h][s],
         faults' = 0 => RequestStands(j, h)'
  PROVE  RestGood(h)'
<1>1. \A d \in Clients : d = c /\ job'[d] = j
  BY DEF OneRequester, Jobs
<1> QED BY <1>1 DEF RestGood, Hedge, RequestStands, EachOnce, Holds

\* No request is at a hedge.
LEMMA RestRests ==
  ASSUME NEW h \in RestHedges, \A c \in Clients : job'[c].hedge # h,
         \A s \in Sides : leg'[h][s] = "NONE" /\ rows'[h][s] <= fills'[h][s],
         faults' = 0 => RestSays(h, status[h])'
  PROVE  RestGood(h)'
  BY DEF RestGood, Hedge

\* What the invariants say of the client and of its hedge.
LEMMA RestNow ==
  ASSUME IInv, RequestIInv
  PROVE  /\ Rows /\ job \in [Jobs -> JobType] /\ RestHedges \subseteq Hedges
         /\ Clients \subseteq Jobs /\ NoHedge \notin Hedges
         /\ \A h \in Hedges : /\ fills[h] \in [Sides -> Nat] /\ rows[h] \in [Sides -> Nat]
                              /\ late[h] \in [Sides -> Nat]
         /\ \A c \in Clients : /\ job[c] \in JobType
                               /\ job[c].pc \in {"idle", "persist"} \cup Sides
                               /\ job[c].pc = "idle" => job[c].hedge = NoHedge
                               /\ job[c].pc # "idle" => job[c].hedge \in RestHedges
  BY Now, HedgeConstants DEF RequestIInv, Rows, GoodRequest, Hedge, Jobs

LEMMA RestMove ==
  ASSUME \A c \in Clients : job'[c].pc = "idle" => job'[c].hedge = NoHedge,
         RequestIInv, \A h \in Hedges \ RestHedges : rows'[h] = rows[h],
         \A h \in RestHedges : RestGood(h)'
  PROVE  RequestIInv'
  BY DEF RequestIInv, Hedge

\* A step of the other actors leaves every request and its hedge alone.
LEMMA RestStays ==
  ASSUME IInv, RequestIInv, faults' = 0 => faults = 0,
         \A c \in Clients : job'[c] = job[c], rows' = rows,
         \A h \in RestHedges : /\ status'[h] = status[h] /\ leg'[h] = leg[h]
                               /\ fills'[h] = fills[h] /\ late'[h] = late[h]
  PROVE  RequestIInv'
<1>1. \A h \in RestHedges : RestGood(h)'
  BY RestUntouched DEF RequestIInv
<1> QED BY <1>1, RestNow, RestMove

LEMMA RestInit == Init => RequestIInv
<1> SUFFICES ASSUME Init PROVE RequestIInv
  OBVIOUS
<1>1. \A c \in Clients : job[c] = Idle /\ Hedge(c) = NoHedge
  BY DEF Init, Idle, Job, Jobs, Hedge
<1>2. ASSUME NEW h \in RestHedges PROVE RestGood(h)
  <2>1. \A s \in Sides : /\ leg[h][s] = "NONE" /\ rows[h][s] = 0
                         /\ fills[h][s] = 0 /\ late[h][s] = 0
    BY HedgeConstants DEF Init
  <2>2. status[h] = "NO_ROW" /\ h # NoHedge
    BY HedgeConstants DEF Init
  <2> QED BY <1>1, <2>1, <2>2 DEF RestGood, RestSays, EachOnce, Holds
<1> QED BY <1>1, <1>2 DEF RequestIInv, Init

LEMMA RestCreate ==
  ASSUME IInv, RequestIInv, NEW h \in Hedges, CreateHedge(h)
  PROVE  RequestIInv'
<1>1. /\ \A g \in Hedges \ {h} : status'[g] = status[g]
      /\ status'[h] = "PLANNED" /\ status[h] = "NO_ROW"
      /\ UNCHANGED <<leg, rows, fills, late, job, faults>>
  BY RestNow DEF CreateHedge, Rows
<1>2. ASSUME NEW g \in RestHedges PROVE RestGood(g)'
  <2>1. CASE g # h
    BY <1>1, <2>1, RestNow, RestUntouched DEF RequestIInv
  <2>2. CASE g = h
    <3>1. RestGood(h)
      BY <2>2 DEF RequestIInv
    <3>2. RestSays(h, status[h]) => RestSays(h, status[h])'
      BY <1>1 DEF RestSays, Holds, EachOnce
    <3>3. \A c \in Clients : RequestStands(job[c], h) => RequestStands(job[c], h)'
      BY <1>1 DEF RequestStands, Holds, EachOnce
    <3> QED BY <1>1, <2>2, <3>1, <3>2, <3>3 DEF RestGood, Hedge
  <2> QED BY <2>1, <2>2
<1> QED BY <1>1, <1>2, RestNow, RestMove

LEMMA RestBegin ==
  ASSUME IInv, RequestIInv, OneRequester, NEW c \in Clients, NEW h \in Hedges,
         ExecuteHedge(c, h) \/ ExitHedge(c, h)
  PROVE  RequestIInv'
<1>1. PICK j :
        /\ \/ status[h] = "PLANNED" /\ j = Job("SPOT_BUY", "entry", h, {})
           \/ status[h] = "OPEN" /\ j = Job("SPOT_SELL", "exit", h, {})
        /\ job' = [job EXCEPT ![c] = j]
        /\ job[c] = Idle /\ h \in RestHedges
        /\ UNCHANGED <<status, leg, rows, fills, late, faults>>
  BY DEF ExecuteHedge, ExitHedge
<1>2. /\ j.hedge = h /\ j.legs = {} /\ j.pc \in Sides
      /\ \/ status[h] = "PLANNED" /\ j.pc = "SPOT_BUY" /\ j.stage = "entry"
         \/ status[h] = "OPEN" /\ j.pc = "SPOT_SELL" /\ j.stage = "exit"
  BY <1>1 DEF Job, Sides
<1>3. \A d \in Clients : d = c /\ job[d].hedge = NoHedge /\ job'[d] = j
  BY <1>1, RestNow DEF OneRequester, Idle, Job
<1>4. RestGood(h)'
  <2>1. RestGood(h)
    BY <1>1 DEF RequestIInv
  <2>2. faults = 0 => RestSays(h, status[h])
    BY <1>3, <2>1, RestNow DEF RestGood, Hedge
  <2>3. faults = 0 => RequestStands(j, h)
    BY <1>2, <2>2 DEF RestSays, RequestStands
  <2>4. RequestStands(j, h) => RequestStands(j, h)'
    BY <1>1 DEF RequestStands, EachOnce, Holds
  <2>5. /\ \A s \in Sides : leg'[h][s] = "NONE" /\ rows'[h][s] <= fills'[h][s]
        /\ \A s \in j.legs : rows'[h][s] + 1 <= fills'[h][s]
        /\ faults' = 0 => RequestStands(j, h)'
    BY <1>1, <1>2, <2>1, <2>3, <2>4 DEF RestGood
  <2>6. job \in [Jobs -> JobType]
    BY RestNow
  <2> QED BY <1>1, <1>2, <2>5, <2>6, RestMoves
<1>5. \A g \in RestHedges : RestGood(g)'
  BY <1>1, <1>2, <1>3, <1>4, RestUntouched, RestNow DEF RequestIInv
<1>6. \A d \in Clients : job'[d].pc # "idle"
  BY <1>2, <1>3 DEF Sides
<1> QED BY <1>1, <1>5, <1>6, RestMove

\* What stands of the client's request, and that it is the only one.
LEMMA RestOrdering ==
  ASSUME IInv, RequestIInv, OneRequester, NEW c \in Clients, job[c].pc # "idle"
  PROVE  /\ job[c].hedge \in RestHedges /\ job[c].hedge \in Hedges
         /\ RestGood(job[c].hedge) /\ job[c] \in JobType
         /\ \A s \in job[c].legs :
              rows[job[c].hedge][s] + 1 <= fills[job[c].hedge][s]
         /\ faults = 0 => RequestStands(job[c], job[c].hedge)
         /\ \A d \in Clients : d = c
         /\ \A d \in Clients : job'[d] = job'[c]
<1>1. job[c].hedge \in RestHedges /\ job[c] \in JobType
  BY RestNow
<1>2. RestGood(job[c].hedge) /\ job[c].hedge \in Hedges
  BY <1>1, RestNow DEF RequestIInv
<1>3. \A d \in Clients : d = c
  BY DEF OneRequester
<1> QED BY <1>1, <1>2, <1>3 DEF RestGood, Hedge

\* An order that filled is the next one of its request.
LEMMA PlacedStands ==
  ASSUME NEW h \in Hedges, NEW c \in Clients, job[c] \in JobType,
         job[c].pc \in Sides, RequestStands(job[c], h), late'[h] = late[h],
         \A x \in Sides : /\ fills[h][x] \in Nat /\ late[h][x] \in Nat
                          /\ fills'[h][x] = fills[h][x] + (IF x = job[c].pc THEN 1 ELSE 0),
         NEW j, j = Placed(job[c])
  PROVE  RequestStands(j, h)'
<1>1. CASE job[c].pc = "SPOT_BUY"
  <2>1. job[c].stage = "entry" /\ job[c].legs = {} /\ Holds(h, {})
    BY <1>1 DEF RequestStands
  <2>2. Holds(h, {"SPOT_BUY"})'
    <3>1. \A x \in Sides : late[h][x] = 0 /\ fills[h][x] = 0
      BY <2>1 DEF Holds
    <3> QED BY <1>1, <3>1 DEF Holds
  <2>3. j.pc = "PERP_SHORT" /\ j.stage = "entry" /\ j.legs = {"SPOT_BUY"}
    BY <1>1, <2>1 DEF Placed, Compensating, JobType
  <2>4. EachOnce(h)'
    BY <2>2 DEF Holds, EachOnce
  <2> QED BY <2>2, <2>3, <2>4 DEF RequestStands
<1>2. CASE job[c].pc = "PERP_SHORT"
  <2>1. job[c].stage = "entry" /\ job[c].legs = {"SPOT_BUY"} /\ Holds(h, {"SPOT_BUY"})
    BY <1>2 DEF RequestStands
  <2>2. Holds(h, Legs("entry"))'
    <3>1. \A x \in Sides : /\ late[h][x] = 0
                           /\ fills[h][x] = IF x = "SPOT_BUY" THEN 1 ELSE 0
      BY <2>1 DEF Holds
    <3>2. \A x \in Sides : fills'[h][x] = IF x \in {"SPOT_BUY", "PERP_SHORT"} THEN 1 ELSE 0
      BY <1>2, <3>1
    <3> QED BY <3>1, <3>2 DEF Holds, Legs
  <2>3. j.pc = "persist" /\ j.stage = "entry"
    BY <1>2, <2>1 DEF Placed, Compensating, JobType
  <2>4. EachOnce(h)'
    BY <2>2 DEF Holds, EachOnce
  <2> QED BY <2>2, <2>3, <2>4 DEF RequestStands
<1>3. CASE job[c].pc = "SPOT_SELL" /\ job[c].stage = "entry"
  <2>1. job[c].legs = {"SPOT_BUY"} /\ fills[h]["SPOT_SELL"] + late[h]["SPOT_SELL"] = 0
    BY <1>3 DEF RequestStands
  <2>2. j.pc = "persist" /\ j.stage = "entry" /\ j.legs # Legs("entry")
    BY <1>3, <2>1 DEF Placed, Compensating, JobType, Legs
  <2>3. EachOnce(h)'
    <3>1. \A x \in Sides : fills[h][x] + late[h][x] <= 1
      BY DEF RequestStands, EachOnce
    <3>2. ASSUME NEW x \in Sides PROVE fills'[h][x] + late'[h][x] <= 1
      <4>1. CASE x = "SPOT_SELL"
        BY <1>3, <2>1, <4>1
      <4>2. CASE x # "SPOT_SELL"
        BY <1>3, <3>1, <4>2
      <4> QED BY <4>1, <4>2
    <3> QED BY <3>2 DEF EachOnce
  <2> QED BY <2>2, <2>3 DEF RequestStands
<1>4. CASE job[c].pc = "SPOT_SELL" /\ job[c].stage = "exit"
  <2>1. job[c].legs = {} /\ Holds(h, Legs("entry"))
    BY <1>4 DEF RequestStands
  <2>2. Holds(h, Sides \ {"PERP_CLOSE"})'
    BY <1>4, <2>1 DEF Holds, Sides, Legs
  <2>3. j.pc = "PERP_CLOSE" /\ j.stage = "exit" /\ j.legs = {"SPOT_SELL"}
    BY <1>4, <2>1 DEF Placed, Compensating, JobType
  <2>4. EachOnce(h)'
    BY <2>2 DEF Holds, EachOnce
  <2> QED BY <2>2, <2>3, <2>4 DEF RequestStands
<1>5. CASE job[c].pc = "PERP_CLOSE"
  <2>1. job[c].stage = "exit" /\ Holds(h, Sides \ {"PERP_CLOSE"})
    BY <1>5 DEF RequestStands
  <2>2. Holds(h, Sides)'
    BY <1>5, <2>1 DEF Holds, Sides
  <2>3. j.pc = "persist" /\ j.stage = "exit"
    BY <1>5, <2>1 DEF Placed, Compensating, JobType
  <2>4. EachOnce(h)'
    BY <2>2 DEF Holds, EachOnce
  <2> QED BY <2>2, <2>3, <2>4 DEF RequestStands
<1> QED BY <1>1, <1>2, <1>3, <1>4, <1>5 DEF Sides, JobType

\* An order that threw ends the request, or turns it to the sale.
LEMMA ThrewStands ==
  ASSUME NEW h \in Hedges, NEW c \in Clients, job[c] \in JobType,
         job[c].pc \in Sides, RequestStands(job[c], h), fills'[h] = fills[h],
         \A x \in Sides : fills[h][x] \in Nat /\ late[h][x] \in Nat,
         \A x \in Sides : \/ late'[h][x] = late[h][x]
                          \/ x = job[c].pc /\ late'[h][x] = late[h][x] + 1,
         NEW j, j = Threw(job[c])
  PROVE  RequestStands(j, h)'
<1>1. fills[h][job[c].pc] + late[h][job[c].pc] = 0
  <2>1. CASE job[c].pc = "SPOT_SELL" /\ job[c].stage = "entry"
    BY <2>1 DEF RequestStands
  <2>2. CASE ~(job[c].pc = "SPOT_SELL" /\ job[c].stage = "entry")
    <3>1. \/ Holds(h, {})
          \/ job[c].pc = "PERP_SHORT" /\ Holds(h, {"SPOT_BUY"})
          \/ job[c].pc = "SPOT_SELL" /\ Holds(h, Legs("entry"))
          \/ job[c].pc = "PERP_CLOSE" /\ Holds(h, Sides \ {"PERP_CLOSE"})
      BY <2>2 DEF RequestStands, Sides, JobType
    <3> QED BY <3>1 DEF Holds, Legs
  <2> QED BY <2>1, <2>2
<1>2. EachOnce(h)'
  BY <1>1 DEF RequestStands, EachOnce
<1>3. CASE job[c].pc = "PERP_SHORT"
  <2>1. job[c].stage = "entry" /\ job[c].legs = {"SPOT_BUY"} /\ Holds(h, {"SPOT_BUY"})
    BY <1>3 DEF RequestStands
  <2>2. j.pc = "SPOT_SELL" /\ j.stage = "entry" /\ j.legs = {"SPOT_BUY"}
    BY <1>3, <2>1 DEF Threw, JobType
  <2>3. fills'[h]["SPOT_SELL"] + late'[h]["SPOT_SELL"] = 0
    BY <1>3, <2>1 DEF Holds, Sides
  <2> QED BY <1>2, <2>2, <2>3 DEF RequestStands
<1>4. CASE job[c].pc # "PERP_SHORT"
  <2>1. job[c].legs # Legs(job[c].stage)
    <3>1. \/ job[c].pc = "SPOT_BUY" /\ job[c].legs = {}
          \/ /\ job[c].pc = "SPOT_SELL" /\ job[c].stage = "entry"
             /\ job[c].legs = {"SPOT_BUY"}
          \/ job[c].pc = "SPOT_SELL" /\ job[c].legs = {}
          \/ /\ job[c].pc = "PERP_CLOSE" /\ job[c].stage = "exit"
             /\ job[c].legs = {"SPOT_SELL"}
      BY <1>4 DEF RequestStands, Sides, JobType
    <3> QED BY <3>1 DEF Legs
  <2>2. j.pc = "persist" /\ j.legs # Legs(j.stage)
    BY <1>4, <2>1 DEF Threw, JobType
  <2> QED BY <1>2, <2>2 DEF RequestStands
<1> QED BY <1>3, <1>4

LEMMA RestLeg ==
  ASSUME IInv, RequestIInv, OneRequester, NEW c \in Clients,
         LegFilled(c) \/ LegRefused(c) \/ LegGivenUp(c)
  PROVE  RequestIInv'
<1> SUFFICES ASSUME NEW h, h = job[c].hedge PROVE RequestIInv'
  OBVIOUS
<1>1. /\ job[c].pc \in Sides /\ job[c].pc # "idle"
      /\ UNCHANGED <<status, leg, rows, faults>>
  BY DEF LegFilled, LegRefused, LegGivenUp, Placing, Sides
<1>2. /\ h \in RestHedges /\ h \in Hedges /\ RestGood(h) /\ job[c] \in JobType
      /\ \A s \in job[c].legs : rows[h][s] + 1 <= fills[h][s]
      /\ faults = 0 => RequestStands(job[c], h)
      /\ \A d \in Clients : d = c
  BY <1>1, RestOrdering
<1>3. /\ fills \in [Hedges -> [Sides -> Nat]] /\ late \in [Hedges -> [Sides -> Nat]]
      /\ rows \in [Hedges -> [Sides -> Nat]] /\ job \in [Jobs -> JobType] /\ c \in Jobs
  BY RestNow DEF Rows
<1>4. job[c].legs \subseteq Sides
  BY <1>2 DEF JobType
<1>5. PICK j : /\ j = (IF LegFilled(c) THEN Placed(job[c]) ELSE Threw(job[c]))
               /\ job' = [job EXCEPT ![c] = j]
  BY DEF LegFilled, LegRefused, LegGivenUp
<1>6. /\ j.hedge = h /\ j.pc # "idle"
      /\ j.legs \subseteq job[c].legs \cup (IF LegFilled(c) THEN {job[c].pc} ELSE {})
  BY <1>1, <1>2, <1>5 DEF Placed, Threw, JobType, Sides
<1>7. /\ \A g \in Hedges \ {h} : fills'[g] = fills[g] /\ late'[g] = late[g]
      /\ \A x \in Sides : fills'[h][x] =
           fills[h][x] + (IF LegFilled(c) /\ x = job[c].pc THEN 1 ELSE 0)
      /\ LegFilled(c) => late'[h] = late[h]
      /\ ~LegFilled(c) => fills'[h] = fills[h]
      /\ \A x \in Sides :
           ~LegFilled(c) => \/ late'[h][x] = late[h][x]
                            \/ x = job[c].pc /\ late'[h][x] = late[h][x] + 1
  <2>0. /\ \A x \in Sides : fills[h][x] \in Nat /\ late[h][x] \in Nat
        /\ fills[h] \in [Sides -> Nat] /\ late[h] \in [Sides -> Nat]
    BY <1>2, <1>3
  <2>1. CASE LegFilled(c)
    <3>1. fills' = [fills EXCEPT ![h][job[c].pc] = @ + 1] /\ late' = late
      BY <2>1 DEF LegFilled, Hedge
    <3> QED BY <1>1, <1>2, <1>3, <2>0, <2>1, <3>1
  <2>2. CASE ~LegFilled(c)
    <3>1. CASE LegRefused(c)
      <4>1. fills' = fills /\ late' = late
        BY <3>1 DEF LegRefused
      <4> QED BY <2>0, <2>2, <4>1
    <3>2. CASE LegGivenUp(c)
      <4>1. late' = [late EXCEPT ![h][job[c].pc] = @ + 1] /\ fills' = fills
        BY <3>2 DEF LegGivenUp, Hedge
      <4> QED BY <1>1, <1>2, <1>3, <2>0, <2>2, <4>1
    <3> QED BY <2>2, <3>1, <3>2
  <2> QED BY <2>1, <2>2
<1>8. faults = 0 => RequestStands(j, h)'
  <2>1. \A x \in Sides : fills[h][x] \in Nat /\ late[h][x] \in Nat
    BY <1>2, <1>3
  <2>2. CASE LegFilled(c)
    <3>1. /\ j = Placed(job[c]) /\ late'[h] = late[h]
          /\ \A x \in Sides :
               fills'[h][x] = fills[h][x] + (IF x = job[c].pc THEN 1 ELSE 0)
      BY <1>5, <1>7, <2>2
    <3> QED BY <1>1, <1>2, <2>1, <3>1, PlacedStands
  <2>3. CASE ~LegFilled(c)
    <3>1. j = Threw(job[c]) /\ fills'[h] = fills[h]
      BY <1>5, <1>7, <2>3
    <3>2. \A x \in Sides : \/ late'[h][x] = late[h][x]
                           \/ x = job[c].pc /\ late'[h][x] = late[h][x] + 1
      BY <1>7, <2>3
    <3> QED BY <1>1, <1>2, <2>1, <3>1, <3>2, ThrewStands
  <2> QED BY <2>2, <2>3
<1>9. RestGood(h)'
  <2>1. \A s \in Sides : leg'[h][s] = "NONE" /\ rows[h][s] <= fills[h][s]
    BY <1>1, <1>2 DEF RestGood
  <2>2. \A s \in Sides : rows[h][s] \in Nat /\ fills[h][s] \in Nat
    BY <1>2, <1>3
  <2>3. \A s \in Sides : rows'[h][s] <= fills'[h][s]
    BY <1>1, <1>7, <2>1, <2>2
  <2>4. \A s \in j.legs : rows'[h][s] + 1 <= fills'[h][s]
    BY <1>1, <1>2, <1>4, <1>6, <1>7, <2>1, <2>2
  <2> QED BY <1>1, <1>2, <1>3, <1>5, <1>6, <1>8, <2>1, <2>3, <2>4, RestMoves
<1>10. ASSUME NEW g \in RestHedges PROVE RestGood(g)'
  <2>1. CASE g # h
    <3>1. \A d \in Clients : job[d].hedge # g /\ job'[d].hedge # g
      BY <1>2, <1>3, <1>5, <1>6, <2>1
    <3>2. fills'[g] = fills[g] /\ late'[g] = late[g] /\ RestGood(g)
      BY <1>7, <2>1, RestNow DEF RequestIInv
    <3>3. /\ status'[g] = status[g] /\ leg'[g] = leg[g] /\ rows'[g] = rows[g]
          /\ faults' = faults
      BY <1>1
    <3> QED BY <3>1, <3>2, <3>3, RestUntouched
  <2>2. CASE g = h
    BY <1>9, <2>2
  <2> QED BY <2>1, <2>2
<1>11. \A d \in Clients : job'[d].pc # "idle"
  BY <1>2, <1>3, <1>5, <1>6
<1> QED BY <1>1, <1>10, <1>11, RestMove

\* The transaction books one row for each leg that filled, and the status
\* says OPEN or CLOSED of both legs only.
LEMMA RestPersist ==
  ASSUME IInv, RequestIInv, OneRequester, NEW c \in Clients, PersistAndRespond(c)
  PROVE  RequestIInv'
<1> SUFFICES ASSUME NEW h, h = job[c].hedge PROVE RequestIInv'
  OBVIOUS
<1>1. /\ job[c].pc = "persist" /\ job' = [job EXCEPT ![c] = Idle]
      /\ rows' = [rows EXCEPT ![h] =
                    [s \in Sides |-> @[s] + (IF s \in job[c].legs THEN 1 ELSE 0)]]
      /\ status' = [status EXCEPT ![h] = StatusOf(job[c])]
      /\ UNCHANGED <<leg, fills, late, faults>>
  BY DEF PersistAndRespond, At, Hedge
<1>2. /\ h \in RestHedges /\ h \in Hedges /\ RestGood(h) /\ job[c] \in JobType
      /\ \A s \in job[c].legs : rows[h][s] + 1 <= fills[h][s]
      /\ faults = 0 => RequestStands(job[c], h)
      /\ \A d \in Clients : d = c
  BY <1>1, RestOrdering
<1>3. /\ fills \in [Hedges -> [Sides -> Nat]] /\ rows \in [Hedges -> [Sides -> Nat]]
      /\ status \in [Hedges -> HedgeStatus \cup {"NO_ROW"}]
      /\ job \in [Jobs -> JobType] /\ c \in Jobs /\ NoHedge \notin Hedges
  BY RestNow DEF Rows
<1>4. \A d \in Clients : job'[d].pc = "idle" /\ job'[d].hedge = NoHedge
  BY <1>1, <1>2, <1>3 DEF Idle, Job
<1>5. \A g \in Hedges \ {h} : rows'[g] = rows[g] /\ status'[g] = status[g]
  BY <1>1, <1>3
<1>6. \A s \in Sides : leg'[h][s] = "NONE" /\ rows'[h][s] <= fills'[h][s]
  <2>1. \A s \in Sides : /\ leg[h][s] = "NONE" /\ rows[h][s] <= fills[h][s]
                         /\ rows[h][s] \in Nat /\ fills[h][s] \in Nat
    BY <1>2, <1>3 DEF RestGood
  <2>2. \A s \in Sides : rows'[h][s] = rows[h][s] + (IF s \in job[c].legs THEN 1 ELSE 0)
    BY <1>1, <1>2, <1>3
  <2> QED BY <1>1, <1>2, <2>1, <2>2
<1>7. faults = 0 => RestSays(h, status[h])'
  <2>0. faults = 0 => EachOnce(h)'
    <3>1. faults = 0 => EachOnce(h)
      BY <1>2 DEF RequestStands
    <3>2. fills' = fills /\ late' = late
      BY <1>1
    <3> QED BY <3>1, <3>2 DEF EachOnce
  <2>1. status'[h] = StatusOf(job[c])
    BY <1>1, <1>2, <1>3
  <2>2. CASE job[c].legs # Legs(job[c].stage)
    <3>1. status'[h] = "FAILED"
      BY <2>1, <2>2 DEF StatusOf
    <3> QED BY <2>0, <3>1 DEF RestSays
  <2>3. CASE job[c].legs = Legs(job[c].stage)
    <3>1. status'[h] = IF job[c].stage = "entry" THEN "OPEN" ELSE "CLOSED"
      BY <2>1, <2>3 DEF StatusOf
    <3>2. faults = 0 =>
            Holds(h, IF job[c].stage = "entry" THEN Legs("entry") ELSE Sides)
      BY <1>1, <1>2, <2>3 DEF RequestStands
    <3>3. \A S : Holds(h, S) => Holds(h, S)'
      <4>1. fills' = fills /\ late' = late
        BY <1>1
      <4> QED BY <4>1 DEF Holds
    <3>5. CASE job[c].stage = "entry"
      <4>1. status'[h] = "OPEN" /\ (faults = 0 => Holds(h, Legs("entry"))')
        BY <3>1, <3>2, <3>3, <3>5
      <4> QED BY <2>0, <4>1 DEF RestSays
    <3>6. CASE job[c].stage # "entry"
      <4>1. status'[h] = "CLOSED" /\ (faults = 0 => Holds(h, Sides)')
        BY <3>1, <3>2, <3>3, <3>6
      <4> QED BY <2>0, <4>1 DEF RestSays
    <3> QED BY <3>5, <3>6
  <2> QED BY <2>2, <2>3
<1>8. RestGood(h)'
  <2>1. \A d \in Clients : job'[d].hedge # h
    BY <1>2, <1>3, <1>4
  <2>2. faults' = 0 => RestSays(h, status[h])'
    <3>1. faults' = faults
      BY <1>1
    <3> QED BY <1>7, <3>1
  <2> QED BY <1>2, <1>6, <2>1, <2>2, RestRests
<1>9. ASSUME NEW g \in RestHedges PROVE RestGood(g)'
  <2>1. CASE g # h
    <3>1. \A d \in Clients : job[d].hedge # g /\ job'[d].hedge # g
      BY <1>2, <1>3, <1>4, <2>1, RestNow
    <3>2. RestGood(g) /\ rows'[g] = rows[g] /\ status'[g] = status[g]
      BY <1>5, <2>1, RestNow DEF RequestIInv
    <3>3. /\ leg'[g] = leg[g] /\ fills'[g] = fills[g] /\ late'[g] = late[g]
          /\ faults' = faults
      BY <1>1
    <3> QED BY <3>1, <3>2, <3>3, RestUntouched
  <2>2. CASE g = h
    BY <1>8, <2>2
  <2> QED BY <2>1, <2>2
<1> QED BY <1>2, <1>4, <1>5, <1>9, RestMove

\* A tick acts on the rows of the worker's hedges.
LEMMA RestTick ==
  ASSUME IInv, RequestIInv, OneRequester, NEW t \in Ticks, TickStep(t)
  PROVE  RequestIInv'
<1> DEFINE h == job[t].hedge
<1>1. /\ job \in [Jobs -> JobType] /\ t \notin Clients /\ Clients \subseteq Jobs
      /\ status \in [Hedges -> HedgeStatus \cup {"NO_ROW"}]
      /\ leg \in [Hedges -> [Sides -> LegState]]
  BY RestNow, HedgeConstants DEF Rows
<1>2. UNCHANGED <<rows, fills, late, faults>> /\ \E j : job' = [job EXCEPT ![t] = j]
  BY DEF TickStep, TickHedges, AdvanceHedge, GateOpen, GateClosed, EmitHedgeIntents,
         EmitConflict, SummariseLegStates, WriteStatus, Return, Write
<1>3. \A c \in Clients : job'[c] = job[c]
  BY <1>1, <1>2
<1>4. \A g \in RestHedges : status'[g] = status[g] /\ leg'[g] = leg[g]
  <2>1. CASE EmitHedgeIntents(t) \/ WriteStatus(t)
    <3>1. job[t].pc \in {"emit", "write"}
      BY <2>1 DEF EmitHedgeIntents, WriteStatus, At
    <3>2. h \notin RestHedges
      BY <3>1, Now DEF TickKnows, Hedge, OneRequester
    <3>3. CASE EmitHedgeIntents(t)
      <4>1. /\ leg' = [leg EXCEPT ![h] = [s \in Sides |->
                          IF s \in Legs(job[t].stage) THEN "PENDING" ELSE @[s]]]
            /\ status' = [status EXCEPT ![h] =
                          IF job[t].stage = "entry" THEN "OPENING" ELSE "CLOSING"]
        BY <3>3 DEF EmitHedgeIntents, Hedge
      <4> QED BY <1>1, <3>2, <4>1, HedgeConstants
    <3>4. CASE WriteStatus(t)
      <4>1. status' = [status EXCEPT ![h] = job[t].to] /\ leg' = leg
        BY <3>4 DEF WriteStatus, Hedge
      <4> QED BY <1>1, <3>2, <4>1, HedgeConstants
    <3> QED BY <2>1, <3>3, <3>4
  <2>2. CASE ~(EmitHedgeIntents(t) \/ WriteStatus(t))
    BY <2>2 DEF TickStep, TickHedges, AdvanceHedge, GateOpen, GateClosed,
                EmitConflict, SummariseLegStates
  <2> QED BY <2>1, <2>2
<1> QED BY <1>2, <1>3, <1>4, RestStays

\* Only an order nobody waits for fills or is cancelled on a hedge of the
\* routes, and while no process has died such a hedge is FAILED or about to be.
LEMMA RestExchange ==
  ASSUME IInv, RequestIInv, NEW h \in Hedges, NEW s \in Sides, Exchange(h, s)
  PROVE  RequestIInv'
<1>1. /\ leg \in [Hedges -> [Sides -> LegState]] /\ fills \in [Hedges -> [Sides -> Nat]]
      /\ late \in [Hedges -> [Sides -> Nat]] /\ rows \in [Hedges -> [Sides -> Nat]]
  BY RestNow DEF Rows
<1>2. UNCHANGED <<status, rows, job, faults>>
  BY DEF Exchange, LegIntentFilled, LegIntentFailed, LateFill, LateCancel
<1>3. CASE LegIntentFilled(h, s) \/ LegIntentFailed(h, s)
  <2>1. leg[h][s] = "PENDING"
    BY <1>3 DEF LegIntentFilled, LegIntentFailed
  <2>2. h \notin RestHedges
    BY <2>1 DEF RequestIInv, RestGood
  <2>3. \A g \in RestHedges : /\ leg'[g] = leg[g] /\ fills'[g] = fills[g]
                              /\ late'[g] = late[g]
    BY <1>1, <1>3, <2>2, HedgeConstants DEF LegIntentFilled, LegIntentFailed
  <2> QED BY <1>2, <2>3, RestStays
<1>4. CASE LateFill(h, s) \/ LateCancel(h, s)
  <2>1. late[h][s] > 0 /\ h \in RestHedges /\ leg' = leg
    BY <1>4, LateIsRest DEF LateFill, LateCancel
  <2>2. /\ \A g \in Hedges \ {h} : fills'[g] = fills[g] /\ late'[g] = late[g]
        /\ \A x \in Sides : /\ fills'[h][x] >= fills[h][x]
                            /\ fills'[h][x] + late'[h][x] <= fills[h][x] + late[h][x]
    <3>1. CASE LateFill(h, s)
      BY <1>1, <2>1, <3>1 DEF LateFill
    <3>2. CASE LateCancel(h, s)
      BY <1>1, <2>1, <3>2 DEF LateCancel
    <3> QED BY <1>4, <3>1, <3>2
  <2>3. RestGood(h) /\ \A S : ~Holds(h, S)
    BY <2>1 DEF RequestIInv, Holds
  <2>4. /\ \A x \in Sides : /\ fills[h][x] \in Nat /\ late[h][x] \in Nat
                            /\ fills'[h][x] \in Nat /\ late'[h][x] \in Nat
                            /\ rows[h][x] \in Nat
    <3>1. CASE LateFill(h, s)
      BY <1>1, <2>1, <3>1 DEF LateFill
    <3>2. CASE LateCancel(h, s)
      BY <1>1, <2>1, <3>2 DEF LateCancel
    <3> QED BY <1>4, <3>1, <3>2
  <2>5. EachOnce(h) => EachOnce(h)'
    BY <2>2, <2>4 DEF EachOnce
  <2>6. RestSays(h, status[h]) => RestSays(h, status[h])'
    BY <1>2, <2>3, <2>5 DEF RestSays
  <2>7. \A c \in Clients : RequestStands(job[c], h) => RequestStands(job[c], h)'
    <3>1. ASSUME NEW c \in Clients, RequestStands(job[c], h)
          PROVE  RequestStands(job[c], h)'
      <4>1. /\ job[c].pc \notin {"SPOT_BUY", "PERP_SHORT", "PERP_CLOSE"}
            /\ job[c].pc = "SPOT_SELL" => job[c].stage # "exit"
            /\ job[c].pc = "persist" => job[c].legs # Legs(job[c].stage)
        BY <2>3, <3>1 DEF RequestStands
      <4>2. job[c].pc = "SPOT_SELL" /\ job[c].stage = "entry" =>
              /\ job[c].legs = {"SPOT_BUY"}
              /\ fills'[h]["SPOT_SELL"] + late'[h]["SPOT_SELL"] = 0
        <5>1. "SPOT_SELL" \in Sides
          BY DEF Sides
        <5>2. job[c].pc = "SPOT_SELL" /\ job[c].stage = "entry" =>
                /\ job[c].legs = {"SPOT_BUY"}
                /\ fills[h]["SPOT_SELL"] + late[h]["SPOT_SELL"] = 0
          BY <3>1 DEF RequestStands
        <5> QED BY <2>2, <2>4, <5>1, <5>2
      <4> QED BY <1>2, <2>5, <3>1, <4>1, <4>2 DEF RequestStands
    <3> QED BY <3>1
  <2>8. RestGood(h)'
    <3>1. /\ \A x \in Sides : leg'[h][x] = "NONE" /\ rows'[h][x] <= fills'[h][x]
      BY <1>2, <2>1, <2>2, <2>3, <2>4 DEF RestGood
    <3>2. ASSUME NEW c \in Clients, Hedge(c) = h, NEW x \in job[c].legs
          PROVE  rows'[h][x] + 1 <= fills'[h][x]
      <4>1. x \in Sides
        BY <3>2, RestNow DEF JobType
      <4>2. rows[h][x] + 1 <= fills[h][x]
        BY <2>3, <3>2 DEF RestGood
      <4> QED BY <1>2, <2>2, <2>4, <4>1, <4>2
    <3> QED BY <1>2, <2>3, <2>6, <2>7, <3>1, <3>2 DEF RestGood, Hedge
  <2>9. \A g \in RestHedges : RestGood(g)'
    BY <1>2, <2>1, <2>2, <2>8, RestUntouched, RestNow DEF RequestIInv
  <2> QED BY <1>2, <2>9, RestNow, RestMove
<1> QED BY <1>3, <1>4 DEF Exchange

\* A process that dies takes the promise of every hedge with it, not the rows.
LEMMA RestDies ==
  ASSUME IInv, RequestIInv, NEW p \in Jobs, ProcessDies(p)
  PROVE  RequestIInv'
<1>1. /\ job' = [job EXCEPT ![p] = Idle] /\ faults' = faults + 1
      /\ UNCHANGED <<status, leg, rows, fills>>
  BY DEF ProcessDies, Fault
<1>2. faults' # 0
  BY <1>1, RestNow DEF Rows
<1>3. Idle.pc = "idle" /\ Idle.hedge = NoHedge /\ Idle.legs = {}
  BY DEF Idle, Job
<1>4. \A c \in Clients : job'[c] = job[c] \/ job'[c] = Idle
  BY <1>1, RestNow
<1>5. \A h \in RestHedges : RestGood(h)'
  BY <1>1, <1>2, <1>3, <1>4 DEF RequestIInv, RestGood, Hedge
<1>6. \A c \in Clients : job'[c].pc = "idle" => job'[c].hedge = NoHedge
  BY <1>3, <1>4, RestNow
<1> QED BY <1>1, <1>5, <1>6, RestMove

LEMMA RestNext ==
  ASSUME OneRequester, IInv, RequestIInv, [Next]_vars
  PROVE  RequestIInv'
<1>1. ASSUME NEW c \in Clients, RequestStep(c) PROVE RequestIInv'
  BY <1>1, RestLeg, RestPersist DEF RequestStep
<1>2. CASE UNCHANGED vars
  BY <1>2, RestStays DEF vars
<1> QED BY <1>1, <1>2, RestCreate, RestBegin, RestTick, RestExchange, RestDies DEF Next

-----------------------------------------------------------------------------
(* Theorems                                                                  *)

\* The inductive invariant: what a tick has read of a hedge no request drives
\* still holds when it writes, because legs only move forward and both legs of
\* a stage appear in one transaction.
THEOREM InductiveInvariant == Spec => []IInv
  BY InitInv, NextInv, PTL DEF Spec

\* Hedges, legs, LegExecution rows and jobs keep their types in every overlap
\* of hedges.ts and hedgeBotWorker.ts.
THEOREM TypeCorrect == Spec => []TypeOK
<1>1. IInv => TypeOK
  BY DEF IInv
<1> QED BY <1>1, InductiveInvariant, PTL

\* The HedgeStatus advanceHedge writes is borne out by the legs, however many
\* ticks overlap, are late or die.
THEOREM StatusIsTrue == Spec => []StageHasItsLegs
<1>1. IInv => StageHasItsLegs
  BY DEF IInv
<1> QED BY <1>1, InductiveInvariant, PTL

\* emitHedgeIntents never has a leg ordered twice.
THEOREM NoLegTwice == Spec => []WorkerOrdersOnce
<1>1. IInv => WorkerOrdersOnce
  <2>1. ASSUME IInv, NEW h \in Hedges \ RestHedges, NEW s \in Sides
        PROVE  fills[h][s] + late[h][s] <= 1
    <3>1. late[h][s] = 0 /\ fills[h][s] = IF leg[h][s] = "FILLED" THEN 1 ELSE 0
      BY <2>1 DEF IInv, FilledByPipeline
    <3> QED BY <3>1
  <2> QED BY <2>1 DEF WorkerOrdersOnce
<1> QED BY <1>1, InductiveInvariant, PTL

\* The inductive invariant of the routes: the request that is at a hedge says
\* which of its orders were placed; with no request there, its status does.
THEOREM RequestInvariant ==
  ASSUME OneRequester
  PROVE  Spec => []RequestIInv
<1>1. IInv /\ RequestIInv /\ [Next]_vars => RequestIInv'
  BY RestNext
<1> QED BY <1>1, RestInit, InductiveInvariant, PTL DEF Spec

\* A client that sends one request at a time orders no leg twice while no
\* process dies, and a LegExecution row is an order that filled, in any case.
THEOREM RequestsExact ==
  ASSUME OneRequester
  PROVE  Spec => []RequestsAreExact
<1>1. ASSUME IInv, RequestIInv PROVE RequestsAreExact
  <2>1. ASSUME NEW h \in Hedges, NEW s \in Sides PROVE rows[h][s] <= fills[h][s]
    <3>1. CASE h \in RestHedges
      BY <1>1, <2>1, <3>1 DEF RequestIInv, RestGood
    <3>2. CASE h \notin RestHedges
      BY <1>1, <2>1, <3>2, RestNow DEF RequestIInv
    <3> QED BY <3>1, <3>2
  <2>2. ASSUME faults = 0, NEW h \in RestHedges PROVE EachOnce(h)
    BY <1>1, <2>2 DEF RequestIInv, RestGood, RestSays, RequestStands
  <2> QED BY <2>1, <2>2 DEF RequestsAreExact, RequestOrdersOnce, LegRowsAreFills,
                            EachOnce
<1> QED BY <1>1, RequestInvariant, InductiveInvariant, PTL

\* The status the routes write is true of the account: OPEN is long spot and
\* short perp in one quantity, CLOSED holds nothing.
THEOREM OpenHedged ==
  ASSUME OneRequester
  PROVE  Spec => []OpenIsHedged
<1>1. ASSUME IInv, RequestIInv PROVE OpenIsHedged
  <2>1. ASSUME NEW h \in RestHedges, ~InFlight(h)
        PROVE  /\ status[h] = "OPEN" => Spot(h) = 1 /\ Short(h) = 1
               /\ status[h] = "CLOSED" => Spot(h) = 0 /\ Short(h) = 0
    <3>1. RestSays(h, status[h])
      BY <1>1, <2>1, RestNow DEF InFlight, RequestIInv, RestGood, Rows
    <3> QED BY <3>1 DEF RestSays, Holds, Legs, Sides, Spot, Short
  <2> QED BY <2>1 DEF OpenIsHedged
<1> QED BY <1>1, RequestInvariant, InductiveInvariant, PTL
=============================================================================
