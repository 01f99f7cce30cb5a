------------------------ MODULE IntentExecutionProofs ------------------------
(****************************************************************************)
(* Machine-checked proofs about IntentExecution, for any number of intents, *)
(* overlapping polls, requests, retries, orders and faults.                 *)
(****************************************************************************)
EXTENDS IntentExecution, SequenceTheorems, TLAPS

-----------------------------------------------------------------------------
(* Rows, jobs and the orders they name                                       *)

\* The orders of every intent only grow in number.
Forward ==
  /\ orders' \in [Intents -> Seq(OrderStatus)]
  /\ \A i \in Intents : Len(orders[i]) <= Len(orders'[i])

RowsOK ==
  /\ run \in {"QUEUED", "RUNNING", "ENDED"}
  /\ intent \in [Intents -> IntentType]
  /\ old \subseteq Intents
  /\ orders \in [Intents -> Seq(OrderStatus)]
  /\ claims \in [Intents -> Nat] /\ manual \in [Intents -> Nat]
  /\ killed \in BOOLEAN /\ faults \in Nat
  /\ \A i \in Intents : KnownOrder(i, intent[i].order)

\* GoodJob of a value against the orders of the next state.
KnownNext(i, order) == order \in 0..Len(orders'[i])

GoodNext(j) ==
  /\ j \in JobType
  /\ \A item \in j.batch : KnownNext(item.id, item.row.order)
  /\ j.id # NoIntent => /\ KnownNext(j.id, j.row.order)
                        /\ KnownNext(j.id, j.order)
  /\ j.pc \in OnIntent => j.id # NoIntent
  /\ j.pc = "process" => j.order = NoOrder
  /\ j.pc \in {"reconcile", "write"} =>
       \A item \in j.batch : item.row.state \in InFlight /\ item.row.order # NoOrder
  /\ j.pc = "write" => j.row.state \in InFlight /\ j.to \in OrderStatus
  /\ j.pc = "patch" => j.to \in PatchTargets
  /\ j.pc = "retry" => "retry" \in Requests

LEMMA RowsFrom == IInv => RowsOK
  BY DEF IInv, TypeOK, RowsOK

LEMMA KnownStays ==
  ASSUME RowsOK, Forward, NEW i \in Intents, NEW n, KnownOrder(i, n)
  PROVE  KnownNext(i, n)
<1>1. Len(orders[i]) \in Nat /\ Len(orders'[i]) \in Nat
  BY LenProperties DEF RowsOK, Forward
<1> QED BY <1>1 DEF Forward, KnownOrder, KnownNext

\* A job stays good whatever the other jobs do to the rows.
LEMMA GoodStays ==
  ASSUME RowsOK, Forward, NEW j \in JobType, GoodJob(j)
  PROVE  GoodNext(j)
<1>1. \A item \in j.batch : item.id \in Intents
  BY DEF JobType
<1>2. \A item \in j.batch : KnownNext(item.id, item.row.order)
  BY <1>1, KnownStays DEF GoodJob
<1>3. j.id # NoIntent => KnownNext(j.id, j.row.order) /\ KnownNext(j.id, j.order)
  BY KnownStays DEF GoodJob, JobType
<1> QED BY <1>2, <1>3 DEF GoodJob, GoodNext

LEMMA JobsMove ==
  ASSUME Forward, RowsOK', job' \in [Jobs -> JobType],
         \A p \in Jobs : GoodNext(job'[p])
  PROVE  IInv'
<1>1. TypeOK'
  BY DEF TypeOK, RowsOK
<1>2. \A p \in Jobs : GoodJob(job[p])'
  BY DEF GoodNext, GoodJob, KnownNext, KnownOrder
<1> QED BY <1>1, <1>2 DEF IInv, RowsOK

\* The usual case: one job moves on.
LEMMA OneJobMoves ==
  ASSUME IInv, Forward, RowsOK', NEW p \in Jobs, NEW j, GoodNext(j),
         job' = [job EXCEPT ![p] = j]
  PROVE  IInv'
<1>1. job \in [Jobs -> JobType] /\ j \in JobType
  BY DEF IInv, TypeOK, GoodNext
<1>2. job' \in [Jobs -> JobType]
  BY <1>1
<1>3. ASSUME NEW q \in Jobs PROVE GoodNext(job'[q])
  BY <1>1, GoodStays, RowsFrom DEF IInv
<1> QED BY <1>2, <1>3, JobsMove

LEMMA NoJobMoves ==
  ASSUME IInv, Forward, RowsOK', job' = job
  PROVE  IInv'
<1>1. job \in [Jobs -> JobType]
  BY DEF IInv, TypeOK
<1>2. \A q \in Jobs : GoodNext(job'[q])
  BY <1>1, GoodStays, RowsFrom DEF IInv
<1> QED BY <1>1, <1>2, JobsMove

\* Only the exchange moves orders.
LEMMA OrdersStay ==
  ASSUME IInv, orders' = orders
  PROVE  Forward
<1>1. \A i \in Intents : Len(orders[i]) \in Nat
  BY LenProperties DEF IInv, TypeOK
<1> QED BY <1>1 DEF IInv, TypeOK, Forward

\* The job at hand, as it is now.
LEMMA Here ==
  ASSUME IInv, Forward, NEW p \in Jobs
  PROVE  /\ job[p] \in JobType /\ GoodJob(job[p]) /\ GoodNext(job[p])
         /\ job \in [Jobs -> JobType]
<1>1. job \in [Jobs -> JobType] /\ GoodJob(job[p])
  BY DEF IInv, TypeOK
<1> QED BY <1>1, GoodStays, RowsFrom

LEMMA Rowless ==
  /\ NoRow \in IntentType /\ NewIntent("PENDING") \in IntentType
  BY DEF NoRow, NewIntent, IntentType, NoOrder, IntentState

-----------------------------------------------------------------------------
(* The jobs the steps make                                                   *)

\* A job between two intents: what its batch holds was read before.
LEMMA Between ==
  ASSUME IInv, Forward, NEW p \in Jobs,
         NEW pc \in {"process", "reconcile"}, NEW batch \in SUBSET job[p].batch,
         pc = "reconcile" => job[p].pc \in {"reconcile", "write"}
  PROVE  GoodNext(Job(pc, batch))
<1>1. job[p] \in JobType /\ GoodNext(job[p])
  BY Here
<1>2. Job(pc, batch) \in JobType
  BY <1>1, Rowless DEF Job, JobType, NoOrder, IntentState
<1> QED BY <1>1, <1>2 DEF GoodNext, Job, NoOrder, OnIntent, InExecution

\* A job without a batch.
LEMMA Fresh ==
  ASSUME NEW pc \in {"idle", "process", "reconcile", "sweep"}
  PROVE  GoodNext(Job(pc, {}))
<1>1. Job(pc, {}) \in JobType
  BY Rowless DEF Job, JobType, NoOrder, IntentState
<1> QED BY <1>1 DEF GoodNext, Job, NoOrder, OnIntent, InExecution

\* What a findMany returns.
LEMMA Found ==
  ASSUME IInv, Forward, NEW S \in SUBSET Intents,
         NEW pc \in {"process", "reconcile", "sweep"},
         pc = "reconcile" =>
           \A i \in S : intent[i].state \in InFlight /\ intent[i].order # NoOrder
  PROVE  GoodNext(Job(pc, Rows(S)))
<1>1. /\ \A i \in Intents : intent[i] \in IntentType /\ KnownNext(i, intent[i].order)
      /\ Rows(S) \in SUBSET [id : Intents, row : IntentType]
  BY RowsFrom, KnownStays DEF RowsOK, Rows
<1>2. Job(pc, Rows(S)) \in JobType
  BY <1>1, Rowless DEF Job, JobType, NoOrder, IntentState
<1>3. \A item \in Rows(S) : /\ item.id \in S /\ item.row = intent[item.id]
                            /\ KnownNext(item.id, item.row.order)
  BY <1>1 DEF Rows
<1> QED BY <1>2, <1>3 DEF GoodNext, Job, NoOrder, OnIntent, InExecution

\* A job that stays on its intent.
LEMMA Moves ==
  ASSUME IInv, Forward, NEW p \in Jobs, job[p].pc \in OnIntent,
         NEW pc \in InExecution
  PROVE  GoodNext([job[p] EXCEPT !.pc = pc])
<1>1. job[p] \in JobType /\ GoodNext(job[p])
  BY Here
<1>2. [job[p] EXCEPT !.pc = pc] \in JobType
  BY <1>1 DEF JobType, InExecution
<1> QED BY <1>1, <1>2 DEF GoodNext, InExecution, OnIntent

-----------------------------------------------------------------------------
(* What the steps make of the rows                                           *)

Others == <<run, old, claims, manual, killed, faults>>

LEMMA RowsMove ==
  ASSUME IInv, Forward, UNCHANGED Others,
         intent' \in [Intents -> IntentType],
         \A i \in Intents : KnownNext(i, intent'[i].order)
  PROVE  RowsOK'
BY RowsFrom DEF RowsOK, Forward, Others, KnownNext, KnownOrder

LEMMA RowsStand ==
  ASSUME IInv, Forward, intent' = intent
  PROVE  /\ intent' \in [Intents -> IntentType]
         /\ \A i \in Intents : KnownNext(i, intent'[i].order)
BY RowsFrom, KnownStays DEF RowsOK

\* One row is written, or the states of all rows are.
LEMMA RowWritten ==
  ASSUME IInv, Forward, NEW i \in Intents, NEW r \in IntentType,
         KnownNext(i, r.order), intent' = [intent EXCEPT ![i] = r]
  PROVE  /\ intent' \in [Intents -> IntentType]
         /\ \A k \in Intents : KnownNext(k, intent'[k].order)
BY RowsFrom, KnownStays DEF RowsOK

LEMMA Updated ==
  ASSUME IInv, Forward, NEW i \in Intents, NEW s \in IntentState, Update(i, s)
  PROVE  /\ intent' \in [Intents -> IntentType]
         /\ \A k \in Intents : KnownNext(k, intent'[k].order)
<1>1. intent[i] \in IntentType /\ KnownNext(i, intent[i].order)
  BY RowsFrom, KnownStays DEF RowsOK
<1>2. [intent[i] EXCEPT !.state = s] \in IntentType
  BY <1>1 DEF IntentType
<1>3. KnownNext(i, [intent[i] EXCEPT !.state = s].order)
  BY <1>1 DEF IntentType
<1>4. intent' = [intent EXCEPT ![i] = [intent[i] EXCEPT !.state = s]]
  BY RowsFrom DEF Update, RowsOK
<1> QED BY <1>2, <1>3, <1>4, RowWritten

LEMMA CancelledRows ==
  ASSUME IInv, Forward, NEW S, Cancelled(S)
  PROVE  /\ intent' \in [Intents -> IntentType]
         /\ \A k \in Intents : KnownNext(k, intent'[k].order)
<1>1. ASSUME NEW k \in Intents
      PROVE  intent'[k] \in IntentType /\ KnownNext(k, intent'[k].order)
  <2>1. intent[k] \in IntentType /\ KnownNext(k, intent[k].order)
    BY RowsFrom, KnownStays DEF RowsOK
  <2>2. intent'[k] = intent[k] \/ intent'[k] = [intent[k] EXCEPT !.state = "CANCELLED"]
    BY DEF Cancelled
  <2> QED BY <2>1, <2>2 DEF IntentType, IntentState
<1> QED BY <1>1 DEF Cancelled

-----------------------------------------------------------------------------
(* Steps of the rows alone                                                   *)

LEMMA TheRun ==
  ASSUME IInv, \/ EndRun
               \/ \E i \in Intents : CreateIntent(i) \/ GrowOld(i)
  PROVE  IInv'
<1>1. Forward /\ job' = job
  BY OrdersStay DEF EndRun, CreateIntent, GrowOld
<1>2. CASE EndRun
  <2>1. RowsOK'
    BY <1>1, <1>2, RowsStand, RowsFrom
       DEF EndRun, RowsOK, Forward, KnownNext, KnownOrder, history
  <2> QED BY <1>1, <2>1, NoJobMoves
<1>3. ASSUME NEW i \in Intents, CreateIntent(i) PROVE IInv'
  <2>1. KnownNext(i, NewIntent("PENDING").order)
    BY <1>1, LenProperties DEF KnownNext, NewIntent, NoOrder, Forward
  <2>2. RowsOK'
    BY <1>1, <1>3, <2>1, Rowless, RowWritten, RowsMove DEF CreateIntent, Others, history
  <2> QED BY <1>1, <2>2, NoJobMoves
<1>4. ASSUME NEW i \in Intents, GrowOld(i) PROVE IInv'
  <2>1. RowsOK'
    BY <1>1, <1>4, RowsStand, RowsFrom
       DEF GrowOld, RowsOK, Forward, KnownNext, KnownOrder, history
  <2> QED BY <1>1, <2>1, NoJobMoves
<1> QED BY <1>2, <1>3, <1>4

LEMMA TheExchange ==
  ASSUME IInv, NEW i \in Intents, NEW k \in Orders(i), OrderMoves(i, k)
  PROVE  IInv'
<1>1. PICK s \in NextStatus(orders[i][k]) : orders' = [orders EXCEPT ![i][k] = s]
  BY DEF OrderMoves
<1>2. orders \in [Intents -> Seq(OrderStatus)] /\ orders[i] \in Seq(OrderStatus)
  BY DEF IInv, TypeOK
<1>3. s \in OrderStatus
  BY <1>1 DEF NextStatus, OrderStatus
<1>4. k \in 1..Len(orders[i])
  BY <1>2, LenProperties DEF Orders
<1>5. /\ [orders[i] EXCEPT ![k] = s] \in Seq(OrderStatus)
      /\ Len([orders[i] EXCEPT ![k] = s]) = Len(orders[i])
  BY <1>2, <1>3, <1>4, ExceptSeq
<1>6. orders' = [orders EXCEPT ![i] = [orders[i] EXCEPT ![k] = s]]
  BY <1>1, <1>2
<1>7. Forward
  BY <1>2, <1>5, <1>6, LenProperties DEF Forward
<1>8. RowsOK'
  BY <1>7, RowsStand, RowsMove DEF OrderMoves, Others, history
<1> QED BY <1>7, <1>8, NoJobMoves DEF OrderMoves

-----------------------------------------------------------------------------
(* Steps of a poll                                                           *)

\* What a job holds does not depend on the poll's stage before its batch.
LEMMA Staged ==
  ASSUME IInv, Forward, NEW p \in Jobs, NEW pc \in {"startup", "polled", "kill"}
  PROVE  GoodNext([job[p] EXCEPT !.pc = pc])
<1>1. job[p] \in JobType /\ GoodNext(job[p])
  BY Here
<1>2. [job[p] EXCEPT !.pc = pc] \in JobType
  BY <1>1 DEF JobType
<1> QED BY <1>1, <1>2 DEF GoodNext, OnIntent, InExecution

\* A step that leaves the rows as they are, and one job with a good value.
LEMMA JobAlone ==
  ASSUME IInv, UNCHANGED <<Others, intent, orders>>, NEW p \in Jobs, NEW j,
         Forward => GoodNext(j), job' = [job EXCEPT ![p] = j]
  PROVE  IInv'
<1>1. Forward
  BY OrdersStay
<1>2. RowsOK'
  BY <1>1, RowsStand, RowsMove
<1> QED BY <1>1, <1>2, OneJobMoves

\* A step that writes an intent, and one job with a good value.
LEMMA JobAndRow ==
  ASSUME IInv, UNCHANGED <<Others, orders>>, NEW p \in Jobs, NEW j,
         Forward => /\ GoodNext(j)
                    /\ intent' \in [Intents -> IntentType]
                    /\ \A i \in Intents : KnownNext(i, intent'[i].order),
         job' = [job EXCEPT ![p] = j]
  PROVE  IInv'
<1>1. Forward
  BY OrdersStay
<1>2. RowsOK'
  BY <1>1, RowsMove
<1> QED BY <1>1, <1>2, OneJobMoves

LEMMA Starting ==
  ASSUME IInv, NEW p \in Jobs, Activate(p) \/ StartupReconciliation(p)
  PROVE  IInv'
<1>1. Forward
  BY OrdersStay DEF Activate, StartupReconciliation
<1>2. job \in [Jobs -> JobType]
  BY DEF IInv, TypeOK
<1>3. CASE Activate(p)
  <2>1. job' = [job EXCEPT ![p] = [job[p] EXCEPT !.pc = "startup"]]
    BY <1>2, <1>3 DEF Activate, Goto
  <2>2. RowsOK'
    BY <1>1, <1>3, RowsStand, RowsFrom
       DEF Activate, RowsOK, Forward, KnownNext, KnownOrder, history
  <2> QED BY <1>1, <2>1, <2>2, Staged, OneJobMoves
<1>4. CASE StartupReconciliation(p)
  <2>1. job' = [job EXCEPT ![p] = [job[p] EXCEPT !.pc = "polled"]]
    BY <1>2, <1>4 DEF StartupReconciliation, Goto
  <2> QED BY <1>1, <1>4, <2>1, Staged, CancelledRows, JobAndRow
          DEF StartupReconciliation, Others, history
<1> QED BY <1>3, <1>4

LEMMA Fetching ==
  ASSUME IInv, NEW p \in Jobs, FetchPending(p) \/ FetchPlaced(p) \/ PollEnd(p)
  PROVE  IInv'
<1>1. UNCHANGED <<Others, intent, orders>>
  BY DEF FetchPending, FetchPlaced, PollEnd, Others, history
<1>2. CASE FetchPending(p)
  <2> DEFINE S == InState({"PENDING"})
             j == Job("process", IF run = "RUNNING" THEN Rows(S) ELSE {})
  <2>1. S \in SUBSET Intents
    BY DEF InState
  <2>2. Forward => GoodNext(j)
    BY <2>1, Found, Fresh
  <2> QED BY <1>1, <1>2, <2>2, JobAlone DEF FetchPending
<1>3. CASE FetchPlaced(p)
  <2> DEFINE S == {i \in InState(InFlight) : intent[i].order # NoOrder}
             j == Job("reconcile", IF run = "RUNNING" THEN Rows(S) ELSE {})
  <2>1. S \in SUBSET Intents
    BY DEF InState
  <2>2. \A i \in S : intent[i].state \in InFlight /\ intent[i].order # NoOrder
    BY DEF InState
  <2>3. Forward => GoodNext(j)
    BY <2>1, <2>2, Found, Fresh
  <2>4. job' = [job EXCEPT ![p] = j]
    BY <1>3 DEF FetchPlaced
  <2> QED BY <1>1, <2>3, <2>4, JobAlone
<1>4. CASE PollEnd(p)
  BY <1>1, <1>4, Fresh, JobAlone DEF PollEnd, Idle
<1> QED BY <1>2, <1>3, <1>4

LEMMA Taking ==
  ASSUME IInv, NEW p \in Jobs, NextPending(p)
  PROVE  IInv'
<1>1. PICK pc \in {"live", "demo", "disabled"} : Take(p, pc)
  BY DEF NextPending
<1>2. PICK item \in job[p].batch :
        job' = [job EXCEPT ![p].pc = pc, ![p].id = item.id, ![p].row = item.row,
                           ![p].batch = @ \ {item}]
  BY <1>1 DEF Take
<1> DEFINE j == [job[p] EXCEPT !.pc = pc, !.id = item.id, !.row = item.row,
                               !.batch = @ \ {item}]
<1>3. job \in [Jobs -> JobType] /\ job[p].pc = "process"
  BY DEF IInv, TypeOK, NextPending, At
<1>4. job' = [job EXCEPT ![p] = j]
  BY <1>2, <1>3
<1>5. ASSUME Forward PROVE GoodNext(j)
  <2>1. job[p] \in JobType /\ GoodNext(job[p]) /\ job[p].order = NoOrder
    BY <1>3, <1>5, Here DEF GoodNext
  <2>2. item.id \in Intents /\ item.row \in IntentType /\ KnownNext(item.id, item.row.order)
    BY <2>1 DEF JobType, GoodNext
  <2>3. KnownNext(item.id, NoOrder)
    BY <1>5, <2>2, LenProperties DEF KnownNext, NoOrder, Forward
  <2>4. /\ j.pc = pc /\ j.id = item.id /\ j.row = item.row /\ j.order = NoOrder
        /\ j.batch \subseteq job[p].batch /\ j \in JobType
    BY <2>1, <2>2 DEF JobType
  <2>5. item.id # NoIntent
    BY <2>2, IntentConstants
  <2> QED BY <2>1, <2>2, <2>3, <2>4, <2>5 DEF GoodNext
<1> QED BY <1>4, <1>5, JobAlone DEF NextPending, Others, history

\* The intent a job is on, and going back to the batch.
LEMMA OnIt ==
  ASSUME IInv, NEW p \in Jobs, job[p].pc \in OnIntent
  PROVE  /\ Id(p) \in Intents
         /\ Forward => /\ KnownNext(Id(p), Read(p).order)
                       /\ KnownNext(Id(p), job[p].order)
         /\ Forward => GoodNext(Job("process", job[p].batch))
<1>1. job[p] \in JobType /\ GoodJob(job[p])
  BY DEF IInv, TypeOK
<1>2. Id(p) \in Intents /\ Id(p) # NoIntent
  BY <1>1 DEF GoodJob, JobType, Id
<1>3. ASSUME Forward
      PROVE  KnownNext(Id(p), Read(p).order) /\ KnownNext(Id(p), job[p].order)
  BY <1>2, <1>3, Here DEF GoodNext, Id, Read
<1>4. ASSUME Forward PROVE GoodNext(Job("process", job[p].batch))
  BY <1>4, Between
<1> QED BY <1>2, <1>3, <1>4

LEMMA Claiming ==
  ASSUME IInv, NEW p \in Jobs,
         CancelDisabled(p) \/ ClaimLost(p) \/ Claim(p) \/ Simulate(p)
  PROVE  IInv'
<1>1. job[p].pc \in OnIntent /\ job \in [Jobs -> JobType]
  BY DEF IInv, TypeOK, CancelDisabled, ClaimLost, Claim, Simulate, At,
         OnIntent, InExecution
<1>2. CASE CancelDisabled(p)
  <2>1. job' = [job EXCEPT ![p] = Job("process", job[p].batch)]
    BY <1>1, <1>2 DEF CancelDisabled, Return
  <2> QED BY <1>1, <1>2, <2>1, OnIt, CancelledRows, JobAndRow
          DEF CancelDisabled, Others, history
<1>3. CASE ClaimLost(p)
  <2>1. job' = [job EXCEPT ![p] = Job("process", job[p].batch)]
    BY <1>1, <1>3 DEF ClaimLost, Return
  <2> QED BY <1>1, <1>3, <2>1, OnIt, JobAlone DEF ClaimLost, Others, history
<1>4. CASE Claim(p)
  <2>1. Forward
    BY <1>4, OrdersStay DEF Claim
  <2> DEFINE pc == IF At(p, "live") THEN "place" ELSE "simulate"
  <2>2. job' = [job EXCEPT ![p] = [job[p] EXCEPT !.pc = pc]]
    BY <1>1, <1>4 DEF Claim, Goto
  <2>3. GoodNext([job[p] EXCEPT !.pc = pc])
    BY <1>1, <2>1, Moves DEF InExecution
  <2>4. /\ intent' \in [Intents -> IntentType]
        /\ \A k \in Intents : KnownNext(k, intent'[k].order)
    BY <1>1, <1>4, <2>1, OnIt, Updated DEF Claim, IntentState
  <2>5. claims \in [Intents -> Nat] /\ claims' \in [Intents -> Nat]
    <3>1. claims \in [Intents -> Nat] /\ Id(p) \in Intents
      BY <1>1, OnIt DEF IInv, TypeOK
    <3> QED BY <1>4, <3>1 DEF Claim
  <2>6. RowsOK'
    BY <1>4, <2>1, <2>4, <2>5, RowsFrom
       DEF Claim, RowsOK, Forward, KnownNext, KnownOrder
  <2> QED BY <2>1, <2>2, <2>3, <2>6, OneJobMoves
<1>5. CASE Simulate(p)
  <2>1. job' = [job EXCEPT ![p] = Job("process", job[p].batch)]
    BY <1>1, <1>5 DEF Simulate, Return
  <2>2. Id(p) \in Intents /\ "FILLED" \in IntentState
    BY <1>1, OnIt DEF IntentState
  <2> QED BY <1>1, <1>5, <2>1, <2>2, OnIt, Updated, JobAndRow
          DEF Simulate, Others, history
<1> QED BY <1>2, <1>3, <1>4, <1>5

LEMMA Placing ==
  ASSUME IInv, NEW p \in Jobs, Accepted(p) \/ AnswerLost(p)
  PROVE  IInv'
<1> DEFINE i == Id(p)
           n == Len(orders[i]) + 1
<1>1. job[p].pc \in OnIntent /\ job \in [Jobs -> JobType] /\ TakeOrder(i)
  BY DEF IInv, TypeOK, Accepted, AnswerLost, At, OnIntent, InExecution
<1>2. i \in Intents /\ orders \in [Intents -> Seq(OrderStatus)]
  BY <1>1, OnIt DEF IInv, TypeOK
<1>3. /\ orders' = [orders EXCEPT ![i] = Append(orders[i], "New")]
      /\ Append(orders[i], "New") \in Seq(OrderStatus)
      /\ Len(Append(orders[i], "New")) = n
      /\ n \in 0..n
  BY <1>1, <1>2, AppendProperties, LenProperties DEF TakeOrder, OrderStatus
<1>4. Forward /\ KnownNext(i, n)
  BY <1>2, <1>3, LenProperties DEF Forward, KnownNext
<1>5. RowsOK'
  BY <1>4, RowsStand, RowsMove DEF Accepted, AnswerLost, Others, history
<1>6. CASE Accepted(p)
  <2> DEFINE j == [job[p] EXCEPT !.pc = "record", !.order = n]
  <2>1. job' = [job EXCEPT ![p] = j]
    BY <1>1, <1>6 DEF Accepted
  <2>2. job[p] \in JobType /\ GoodNext(job[p])
    BY <1>4, Here
  <2>3. j \in JobType
    <3>1. n \in Nat
      BY <1>2, LenProperties
    <3> QED BY <2>2, <3>1 DEF JobType
  <2>4. /\ j.pc = "record" /\ j.id = i /\ j.row = job[p].row
        /\ j.order = n /\ j.batch = job[p].batch
    BY <2>2 DEF JobType, Id
  <2>5. GoodNext(j)
    BY <1>1, <1>4, <2>2, <2>3, <2>4 DEF GoodNext, OnIntent, InExecution, Id
  <2> QED BY <1>4, <1>5, <2>1, <2>5, OneJobMoves
<1>7. CASE AnswerLost(p)
  <2>1. job' = [job EXCEPT ![p] = [job[p] EXCEPT !.pc = "transient"]]
    BY <1>1, <1>7 DEF AnswerLost, Failed, Classified, Retryable, Goto
  <2>2. GoodNext([job[p] EXCEPT !.pc = "transient"])
    BY <1>1, <1>4, Moves DEF InExecution
  <2> QED BY <1>4, <1>5, <2>1, <2>2, OneJobMoves
<1> QED BY <1>6, <1>7

LEMMA Settling ==
  ASSUME IInv, NEW p \in Jobs,
         NotPlaced(p) \/ RecordOrder(p) \/ Retry(p) \/ DeadLetter(p)
  PROVE  IInv'
<1>1. /\ job[p].pc \in OnIntent /\ job \in [Jobs -> JobType]
      /\ UNCHANGED <<Others, orders>>
  BY DEF IInv, TypeOK, NotPlaced, RecordOrder, Retry, DeadLetter, At,
         OnIntent, InExecution, Others, history
<1>2. Id(p) \in Intents /\ intent[Id(p)] \in IntentType /\ job[p] \in JobType
  BY <1>1, OnIt DEF IInv, TypeOK
<1>3. Forward
  BY <1>1, OrdersStay
<1>4. ~NotPlaced(p) => job' = [job EXCEPT ![p] = Job("process", job[p].batch)]
  BY <1>1 DEF RecordOrder, Retry, DeadLetter, Return
<1>5. CASE NotPlaced(p)
  <2>1. PICK pc \in {"transient", "permanent"} :
          job' = [job EXCEPT ![p] = [job[p] EXCEPT !.pc = pc]]
    BY <1>1, <1>5 DEF NotPlaced, Failed, Classified, Retryable, Goto
  <2>2. GoodNext([job[p] EXCEPT !.pc = pc])
    BY <1>1, <1>3, Moves DEF InExecution
  <2> QED BY <1>1, <1>5, <2>1, <2>2, JobAlone DEF NotPlaced
<1>6. CASE RecordOrder(p) /\ ~NotPlaced(p)
  <2> DEFINE r == [intent[Id(p)] EXCEPT !.order = job[p].order]
  <2>1. r \in IntentType /\ r.order = job[p].order
    BY <1>2 DEF IntentType, JobType
  <2>2. intent' = [intent EXCEPT ![Id(p)] = r]
    BY <1>2, <1>6, RowsFrom DEF RecordOrder, RowsOK
  <2>3. KnownNext(Id(p), r.order)
    BY <1>1, <1>3, <2>1, OnIt
  <2> QED BY <1>1, <1>2, <1>3, <1>4, <1>6, <2>1, <2>2, <2>3, OnIt, RowWritten,
          JobAndRow
<1>7. CASE Retry(p) /\ ~NotPlaced(p)
  <2> DEFINE r == [intent[Id(p)] EXCEPT !.state = "PENDING",
                                        !.retry = Read(p).retry + 1]
  <2>1. r \in IntentType /\ r.order = intent[Id(p)].order
    <3>1. Read(p).retry + 1 \in Nat
      BY <1>2 DEF JobType, IntentType, Read
    <3> QED BY <1>2, <3>1 DEF IntentType, IntentState
  <2>2. intent' = [intent EXCEPT ![Id(p)] = r]
    BY <1>2, <1>7, RowsFrom DEF Retry, RowsOK
  <2>3. KnownNext(Id(p), r.order)
    BY <1>2, <1>3, <2>1, RowsFrom, KnownStays DEF RowsOK
  <2> QED BY <1>1, <1>2, <1>3, <1>4, <1>7, <2>1, <2>2, <2>3, OnIt, RowWritten,
          JobAndRow
<1>8. CASE DeadLetter(p) /\ ~NotPlaced(p)
  <2>1. Update(Id(p), "FAILED") /\ "FAILED" \in IntentState
    BY <1>8 DEF DeadLetter, IntentState
  <2> QED BY <1>1, <1>2, <1>3, <1>4, <1>8, <2>1, OnIt, Updated, JobAndRow
<1> QED BY <1>5, <1>6, <1>7, <1>8

\* What is left of a reconciler's batch.
LEMMA Reconciling ==
  ASSUME IInv, NEW p \in Jobs, QueryOrder(p)
  PROVE  IInv'
<1>1. PICK item \in job[p].batch :
        LET status == orders[item.id][item.row.order]
            rest == Job("reconcile", job[p].batch \ {item})
        IN job' = [job EXCEPT ![p] =
             IF Unchanged(item.row, status) THEN rest
             ELSE [rest EXCEPT !.pc = "write", !.id = item.id, !.row = item.row,
                               !.to = status]]
  BY DEF QueryOrder
<1> DEFINE status == orders[item.id][item.row.order]
           rest == Job("reconcile", job[p].batch \ {item})
           j == [rest EXCEPT !.pc = "write", !.id = item.id, !.row = item.row,
                             !.to = status]
<1>2. job[p].pc = "reconcile" /\ job[p] \in JobType /\ GoodJob(job[p])
  BY DEF QueryOrder, At, IInv, TypeOK
<1>3. /\ item.id \in Intents /\ item.row \in IntentType /\ item.id # NoIntent
      /\ KnownOrder(item.id, item.row.order)
      /\ item.row.state \in InFlight /\ item.row.order # NoOrder
  BY <1>2, IntentConstants DEF GoodJob, JobType
<1>4. status \in OrderStatus
  <2>1. orders[item.id] \in Seq(OrderStatus)
    BY <1>3 DEF IInv, TypeOK
  <2>2. item.row.order \in 1..Len(orders[item.id])
    BY <1>3, <2>1, LenProperties DEF KnownOrder, NoOrder
  <2> QED BY <2>1, <2>2, ElementOfSeq
<1>5. ASSUME Forward PROVE GoodNext(rest)
  BY <1>2, <1>5, Between
<1>6. ASSUME Forward PROVE GoodNext(j)
  <2>1. rest \in JobType /\ GoodNext(rest)
    BY <1>5, <1>6 DEF GoodNext
  <2>2. j \in JobType
    BY <1>3, <1>4, <2>1 DEF JobType
  <2>3. /\ j.pc = "write" /\ j.id = item.id /\ j.row = item.row /\ j.to = status
        /\ j.batch = rest.batch /\ j.order = NoOrder /\ rest.pc = "reconcile"
    BY DEF Job
  <2>4. KnownNext(item.id, item.row.order)
    BY <1>3, <1>6, RowsFrom, KnownStays
  <2>5. KnownNext(item.id, NoOrder)
    BY <1>3, <1>6, LenProperties DEF KnownNext, NoOrder, Forward
  <2> QED BY <1>3, <1>4, <2>1, <2>2, <2>3, <2>4, <2>5 DEF GoodNext
<1>7. UNCHANGED <<Others, intent, orders>>
  BY DEF QueryOrder, Others, history
<1>8. CASE Unchanged(item.row, status)
  BY <1>1, <1>5, <1>7, <1>8, JobAlone
<1>9. CASE ~Unchanged(item.row, status)
  BY <1>1, <1>6, <1>7, <1>9, JobAlone
<1> QED BY <1>8, <1>9

LEMMA WritingBack ==
  ASSUME IInv, NEW p \in Jobs, FillRefused(p) \/ WriteReconciled(p)
  PROVE  IInv'
<1>1. /\ job[p].pc = "write" /\ job \in [Jobs -> JobType] /\ GoodJob(job[p])
      /\ job[p] \in JobType /\ UNCHANGED <<Others, orders>>
  BY DEF IInv, TypeOK, FillRefused, WriteReconciled, At, Others, history
<1>2. Id(p) \in Intents /\ intent[Id(p)] \in IntentType
  BY <1>1, OnIt DEF IInv, TypeOK, OnIntent
<1>3. Forward
  BY <1>1, OrdersStay
<1>4. job' = [job EXCEPT ![p] = Job("reconcile", job[p].batch)]
  BY <1>1 DEF FillRefused, WriteReconciled, Return
<1>5. GoodNext(Job("reconcile", job[p].batch))
  BY <1>1, <1>3, Between
<1>6. CASE FillRefused(p)
  BY <1>1, <1>4, <1>5, <1>6, JobAlone DEF FillRefused
<1>7. CASE WriteReconciled(p)
  <2> DEFINE s == Reconciled(Read(p), job[p].to)
             c == CumOf(job[p].to)
             r == [intent[Id(p)] EXCEPT !.state = s, !.cum = c]
  <2>1. s \in IntentState /\ Read(p).state \in InFlight /\ job[p].to \in OrderStatus
    BY <1>1 DEF GoodJob, Reconciled, IntentState, InFlight, Read
  <2>2. c \in 0..2
    <3>1. c = 0 \/ c = 1 \/ c = 2
      BY <2>1 DEF CumOf, OrderStatus
    <3> QED BY <3>1
  <2>3. r \in IntentType /\ r.order = intent[Id(p)].order
    BY <1>2, <2>1, <2>2 DEF IntentType
  <2>4. intent' = [intent EXCEPT ![Id(p)] = r]
    BY <1>2, <1>7, RowsFrom DEF WriteReconciled, RowsOK
  <2>5. KnownNext(Id(p), r.order)
    BY <1>2, <1>3, <2>3, RowsFrom, KnownStays DEF RowsOK
  <2> QED BY <1>1, <1>2, <1>3, <1>4, <1>5, <2>3, <2>4, <2>5, RowWritten, JobAndRow
<1> QED BY <1>6, <1>7

-----------------------------------------------------------------------------
(* Requests                                                                  *)

LEMMA BeginRetry ==
  ASSUME IInv, NEW h \in Jobs, NEW i \in Intents, RetryRead(h, i)
  PROVE  IInv'
<1> DEFINE j == [Job("retry", {}) EXCEPT !.id = i]
<1>1. Forward
  BY OrdersStay DEF RetryRead
<1>2. j \in JobType /\ j.batch = {} /\ j.id = i /\ j.row = NoRow
      /\ j.order = NoOrder /\ j.pc = "retry"
  BY Rowless DEF Job, JobType, NoOrder, IntentState
<1>3. KnownNext(i, NoOrder) /\ NoRow.order = NoOrder
  BY <1>1, LenProperties DEF KnownNext, NoOrder, Forward, NoRow, NewIntent
<1>4. GoodNext(j)
  BY <1>2, <1>3, IntentConstants DEF GoodNext, RetryRead, Begin
<1>5. manual \in [Intents -> Nat] /\ manual' \in [Intents -> Nat]
  <2>1. manual \in [Intents -> Nat]
    BY DEF IInv, TypeOK
  <2> QED BY <2>1 DEF RetryRead
<1>6. RowsOK'
  BY <1>1, <1>5, RowsStand, RowsFrom
     DEF RetryRead, RowsOK, Forward, KnownNext, KnownOrder
<1> QED BY <1>1, <1>4, <1>6, OneJobMoves DEF RetryRead

LEMMA BeginPatch ==
  ASSUME IInv, NEW h \in Jobs, NEW i \in Intents, NEW to \in PatchTargets,
         PatchRead(h, i, to)
  PROVE  IInv'
<1> DEFINE j == [Job("patch", {}) EXCEPT !.id = i, !.row = intent[i], !.to = to]
<1>1. Forward
  BY OrdersStay DEF PatchRead
<1>2. intent[i] \in IntentType /\ KnownNext(i, intent[i].order) /\ to \in IntentState
  BY <1>1, RowsFrom, KnownStays, IntentConstants DEF RowsOK
<1>3. j \in JobType /\ j.batch = {} /\ j.id = i /\ j.row = intent[i]
      /\ j.order = NoOrder /\ j.pc = "patch" /\ j.to = to
  BY <1>2, Rowless DEF Job, JobType, NoOrder
<1>4. KnownNext(i, NoOrder)
  BY <1>1, LenProperties DEF KnownNext, NoOrder, Forward
<1>5. GoodNext(j)
  BY <1>2, <1>3, <1>4, IntentConstants DEF GoodNext
<1> QED BY <1>5, JobAlone DEF PatchRead, Others, history

LEMMA BeginSweep ==
  ASSUME IInv, NEW h \in Jobs, SweepFind(h)
  PROVE  IInv'
<1> DEFINE S == InState({"PENDING"}) \cap old
<1>1. S \in SUBSET Intents
  BY DEF InState
<1>2. Forward => GoodNext(Job("sweep", Rows(S)))
  BY <1>1, Found
<1>3. job' = [job EXCEPT ![h] = Job("sweep", Rows(S))]
  BY DEF SweepFind
<1> QED BY <1>2, <1>3, JobAlone DEF SweepFind, Others, history

LEMMA BeginKill ==
  ASSUME IInv, NEW h \in Jobs, KillRuns(h)
  PROVE  IInv'
<1>1. Forward /\ job \in [Jobs -> JobType]
  BY OrdersStay DEF KillRuns, IInv, TypeOK
<1>2. job' = [job EXCEPT ![h] = [job[h] EXCEPT !.pc = "kill"]]
  BY <1>1 DEF KillRuns, Goto
<1>3. RowsOK'
  BY <1>1, RowsStand, RowsFrom
     DEF KillRuns, RowsOK, Forward, KnownNext, KnownOrder, history
<1> QED BY <1>1, <1>2, <1>3, Staged, OneJobMoves

LEMMA Responding ==
  ASSUME IInv, NEW h \in Jobs, Respond(h)
  PROVE  IInv'
<1>1. orders' = orders /\ job' = [job EXCEPT ![h] = Idle] /\ Forward
  BY OrdersStay DEF Respond, RetryWrite, PatchWrite, SweepCancel, KillIntents
<1>2. GoodNext(Idle)
  BY Fresh DEF Idle
<1>3. ASSUME NEW S, Cancelled(S), UNCHANGED Others PROVE IInv'
  BY <1>1, <1>2, <1>3, CancelledRows, JobAndRow
<1>4. CASE RetryWrite(h)
  <2>1. Id(h) \in Intents /\ "PENDING" \in IntentState
    BY <1>4, OnIt DEF RetryWrite, At, OnIntent, IntentState
  <2>2. UNCHANGED Others /\ Update(Id(h), "PENDING")
    BY <1>4 DEF RetryWrite, Others, history
  <2> QED BY <1>1, <1>2, <2>1, <2>2, Updated, JobAndRow
<1>5. CASE PatchWrite(h)
  <2> DEFINE r == [intent[Id(h)] EXCEPT !.state = job[h].to, !.order = Read(h).order]
  <2>1. /\ Id(h) \in Intents /\ KnownNext(Id(h), Read(h).order)
        /\ intent[Id(h)] \in IntentType
    BY <1>1, <1>5, OnIt DEF PatchWrite, At, OnIntent, IInv, TypeOK
  <2>2. job[h].to \in IntentState /\ Read(h).order \in Nat
    BY <1>5, IntentConstants
       DEF PatchWrite, At, IInv, TypeOK, GoodJob, JobType, IntentType, Read
  <2>3. r \in IntentType /\ r.order = Read(h).order
    BY <2>1, <2>2 DEF IntentType
  <2>4. intent' = [intent EXCEPT ![Id(h)] = r] /\ UNCHANGED Others
    BY <1>5, <2>1, RowsFrom DEF PatchWrite, RowsOK, Others, history
  <2> QED BY <1>1, <1>2, <2>1, <2>3, <2>4, RowWritten, JobAndRow
<1>6. CASE SweepCancel(h)
  BY <1>3, <1>6 DEF SweepCancel, Others, history
<1>7. CASE KillIntents(h)
  <2>1. RowsOK'
    BY <1>1, <1>7, CancelledRows, RowsFrom
       DEF KillIntents, RowsOK, Forward, KnownNext, KnownOrder
  <2> QED BY <1>1, <1>2, <2>1, OneJobMoves
<1> QED BY <1>4, <1>5, <1>6, <1>7 DEF Respond

-----------------------------------------------------------------------------
(* Faults                                                                    *)

LEMMA Crashing ==
  ASSUME IInv, NEW p \in Jobs, WorkerCrash(p)
  PROVE  IInv'
<1>1. Forward
  BY OrdersStay DEF WorkerCrash
<1>2. faults \in Nat /\ faults' \in Nat
  BY DEF IInv, TypeOK, WorkerCrash, Fault
<1>3. RowsOK'
  BY <1>1, <1>2, RowsStand, RowsFrom
     DEF WorkerCrash, RowsOK, Forward, KnownNext, KnownOrder, history
<1> QED BY <1>1, <1>3, Fresh, OneJobMoves DEF WorkerCrash, Idle

\* classifyExecutionError has two outcomes for the caller.
LEMMA FailedGoes ==
  ASSUME NEW p, NEW E, Failed(p, E)
  PROVE  Goto(p, "transient") \/ Goto(p, "permanent")
BY DEF Failed, Classified

LEMMA Erring ==
  ASSUME IInv, NEW p \in Jobs, DatabaseError(p) \/ EventError(p)
  PROVE  IInv'
<1>1. Forward /\ job \in [Jobs -> JobType] /\ job[p] \in JobType
  BY OrdersStay DEF DatabaseError, EventError, IInv, TypeOK
<1>2. faults \in Nat /\ faults' \in Nat
  BY DEF IInv, TypeOK, DatabaseError, EventError, Fault
<1>3. PICK j : GoodNext(j) /\ job' = [job EXCEPT ![p] = j]
  <2>1. CASE \E pc \in {"transient", "permanent"} :
               job[p].pc \in OnIntent /\ Goto(p, pc)
    <3>1. PICK pc \in {"transient", "permanent"} :
            job[p].pc \in OnIntent /\ job' = [job EXCEPT ![p] = [job[p] EXCEPT !.pc = pc]]
      BY <1>1, <2>1 DEF Goto
    <3> QED BY <1>1, <3>1, Moves DEF InExecution
  <2>2. CASE job' = [job EXCEPT ![p] = Job("process", {})]
    BY <2>2, Fresh
  <2>3. CASE At(p, "write") /\ Return(p, "reconcile")
    <3>1. job' = [job EXCEPT ![p] = Job("reconcile", job[p].batch)]
      BY <1>1, <2>3 DEF Return
    <3>2. GoodNext(Job("reconcile", job[p].batch))
      BY <1>1, <2>3, Between DEF At
    <3> QED BY <3>1, <3>2
  <2> QED BY <2>1, <2>2, <2>3, FailedGoes
          DEF DatabaseError, EventError, At, OnIntent, InExecution
<1>4. /\ intent' \in [Intents -> IntentType]
      /\ \A i \in Intents : KnownNext(i, intent'[i].order)
  <2>1. CASE intent' = intent
    BY <1>1, <2>1, RowsStand
  <2>2. CASE EventError(p)
    <3> DEFINE r == [intent[Id(p)] EXCEPT !.order = job[p].order]
    <3>1. /\ Id(p) \in Intents /\ KnownNext(Id(p), job[p].order)
          /\ intent[Id(p)] \in IntentType
      BY <1>1, <2>2, OnIt DEF EventError, At, OnIntent, InExecution, IInv, TypeOK
    <3>2. r \in IntentType /\ r.order = job[p].order
      BY <1>1, <3>1 DEF IntentType, JobType
    <3>3. intent' = [intent EXCEPT ![Id(p)] = r]
      BY <2>2, <3>1, RowsFrom DEF EventError, RowsOK
    <3> QED BY <1>1, <3>1, <3>2, <3>3, RowWritten
  <2> QED BY <2>1, <2>2 DEF DatabaseError
<1>5. RowsOK'
  BY <1>1, <1>2, <1>4, RowsFrom
     DEF DatabaseError, EventError, RowsOK, Forward, KnownNext, KnownOrder, history
<1> QED BY <1>1, <1>3, <1>5, OneJobMoves

-----------------------------------------------------------------------------
(* The invariant                                                             *)

LEMMA InitIInv == Init => IInv
<1> SUFFICES ASSUME Init PROVE IInv
  OBVIOUS
<1>1. orders \in [Intents -> Seq(OrderStatus)] /\ \A i \in Intents : Len(orders[i]) = 0
  BY EmptySeq DEF Init
<1>2. Idle \in JobType
  BY Rowless DEF Idle, Job, JobType, NoOrder, IntentState
<1>3. TypeOK
  BY <1>1, <1>2, Rowless DEF Init, TypeOK
<1>4. \A i \in Intents : KnownOrder(i, intent[i].order)
  BY <1>1 DEF Init, KnownOrder, NoRow, NewIntent, NoOrder
<1>5. \A p \in Jobs : GoodJob(job[p])
  BY DEF Init, GoodJob, Idle, Job, OnIntent, InExecution
<1> QED BY <1>3, <1>4, <1>5 DEF IInv

LEMMA StepIInv == IInv /\ [Next]_vars => IInv'
<1> SUFFICES ASSUME IInv, [Next]_vars PROVE IInv'
  OBVIOUS
<1>1. CASE UNCHANGED vars
  <2>1. UNCHANGED <<Others, intent, orders>> /\ job' = job
    BY <1>1 DEF vars, history, Others
  <2>2. Forward
    BY <2>1, OrdersStay
  <2> QED BY <2>1, <2>2, RowsStand, RowsMove, NoJobMoves
<1>2. ASSUME NEW p \in Pollers, PollStep(p) PROVE IInv'
  BY <1>2, Starting, Fetching, Taking, Claiming, Placing, Settling, Reconciling,
     WritingBack DEF PollStep, Jobs
<1>3. ASSUME NEW p \in Pollers, WorkerCrash(p) \/ DatabaseError(p) \/ EventError(p)
      PROVE IInv'
  BY <1>3, Crashing, Erring DEF Jobs
<1>4. ASSUME NEW h \in Handlers, Request(h) \/ Respond(h) PROVE IInv'
  BY <1>4, BeginRetry, BeginPatch, BeginSweep, BeginKill, Responding DEF Request, Jobs
<1>5. ASSUME NEW i \in Intents,
             \/ CreateIntent(i) \/ GrowOld(i)
             \/ \E k \in Orders(i) : OrderMoves(i, k)
      PROVE IInv'
  BY <1>5, TheRun, TheExchange
<1> QED BY <1>1, <1>2, <1>3, <1>4, <1>5, TheRun DEF Next

\* Whatever is requested and whatever fails, rows and jobs name orders the
\* exchange has, and a reconciler reads back only intents with an order.
THEOREM InductiveInvariant == Spec => []IInv
BY InitIInv, StepIInv, PTL DEF Spec

\* The types of routes/intents.ts and worker/intentExecutor.ts.
THEOREM TypeCorrect == Spec => []TypeOK
<1>1. IInv => TypeOK
  BY DEF IInv
<1> QED BY <1>1, InductiveInvariant, PTL

-----------------------------------------------------------------------------
(* The claim is a lock                                                       *)

Held == IntentState \ {"PENDING"}
Locked == ExclusiveExecution /\ ClaimHeld

\* Nobody begins to execute, and what was taken out of PENDING stays out.
Harmless ==
  /\ \A q \in Pollers, i \in Intents : Executing(q, i)' => Executing(q, i)
  /\ \A i \in Intents : intent[i].state \in Held => intent'[i].state \in Held

LEMMA LockedStays ==
  ASSUME Locked, Harmless
  PROVE  Locked'
BY DEF Locked, Harmless, ExclusiveExecution, ClaimHeld, Held

\* A job that goes on executing the intent it executed, or stops.
LEMMA NobodyBegins ==
  ASSUME IInv, NEW p \in Jobs, NEW j, job' = [job EXCEPT ![p] = j],
         j.pc \in InExecution => j.id = job[p].id /\ job[p].pc \in InExecution
  PROVE  \A q \in Pollers, i \in Intents : Executing(q, i)' => Executing(q, i)
<1>1. job \in [Jobs -> JobType]
  BY DEF IInv, TypeOK
<1>2. \A q \in Jobs : job'[q] = IF q = p THEN j ELSE job[q]
  BY <1>1
<1> QED BY <1>2 DEF Executing, Id, Jobs

LEMMA NobodyBeginsAnew ==
  ASSUME IInv, NEW p \in Jobs, NEW pc, pc \notin InExecution, NEW batch,
         job' = [job EXCEPT ![p] = Job(pc, batch)]
  PROVE  \A q \in Pollers, i \in Intents : Executing(q, i)' => Executing(q, i)
<1>1. Job(pc, batch).pc = pc
  BY DEF Job
<1> QED BY <1>1, NobodyBegins

LEMMA CancelHolds ==
  ASSUME NEW S, Cancelled(S), NEW i \in Intents, intent[i].state \in Held
  PROVE  intent'[i].state \in Held
BY DEF Cancelled, Held

LEMMA UpdateHolds ==
  ASSUME IInv, NEW k \in Intents, NEW s \in Held, Update(k, s),
         NEW i \in Intents, intent[i].state \in Held
  PROVE  intent'[i].state \in Held
<1>1. intent \in [Intents -> IntentType]
  BY DEF IInv, TypeOK
<1>2. intent'[i] = IF i = k THEN [intent[i] EXCEPT !.state = s] ELSE intent[i]
  BY <1>1 DEF Update
<1>3. intent[i] \in IntentType
  BY <1>1
<1> QED BY <1>2, <1>3 DEF IntentType

\* An answer recorded in a row does not touch its state.
LEMMA RecordHolds ==
  ASSUME IInv, NEW k \in Intents, NEW n, intent' = [intent EXCEPT ![k].order = n],
         NEW i \in Intents, intent[i].state \in Held
  PROVE  intent'[i].state \in Held
<1>1. intent \in [Intents -> IntentType] /\ intent[i] \in IntentType
  BY DEF IInv, TypeOK
<1>2. intent'[i] = IF i = k THEN [intent[i] EXCEPT !.order = n] ELSE intent[i]
  BY <1>1
<1> QED BY <1>1, <1>2 DEF IntentType

\* The claim finds PENDING, so nobody executes the intent.
LEMMA ClaimLocks ==
  ASSUME IInv, Locked, NEW p \in Pollers, Claim(p)
  PROVE  Locked'
<1>1. /\ job[p].pc \in {"live", "demo"} /\ job \in [Jobs -> JobType] /\ p \in Jobs
      /\ intent \in [Intents -> IntentType]
  BY DEF Claim, IInv, TypeOK, Jobs
<1>2. Id(p) \in Intents /\ intent[Id(p)].state = "PENDING"
  BY <1>1, OnIt DEF Claim, Unclaimable, OnIntent
<1>3. \A q \in Pollers : ~Executing(q, Id(p))
  BY <1>2 DEF Locked, ClaimHeld
<1>4. /\ \A q \in Pollers \ {p} : job'[q] = job[q]
      /\ job'[p].id = Id(p)
  <2>1. \E pc : job' = [job EXCEPT ![p] = [job[p] EXCEPT !.pc = pc]]
    BY <1>1 DEF Claim, Goto
  <2> QED BY <1>1, <2>1 DEF Id, Jobs, JobType
<1>5. \A q \in Pollers \ {p}, i \in Intents : Executing(q, i)' => Executing(q, i)
  BY <1>4 DEF Executing, Id
<1>6. \A i \in Intents : Executing(p, i)' => i = Id(p)
  BY <1>4 DEF Executing, Id
<1>7. \A i \in Intents :
        /\ intent[i].state \in Held => intent'[i].state \in Held
        /\ i = Id(p) => intent'[i].state \in Held
  <2>1. Update(Id(p), "PLACED") /\ "PLACED" \in Held
    BY DEF Claim, Held, IntentState
  <2>2. intent[Id(p)] \in IntentType
    BY <1>1, <1>2
  <2>3. intent'[Id(p)].state \in Held
    BY <1>1, <1>2, <2>1, <2>2 DEF Update, IntentType
  <2> QED BY <1>2, <2>1, <2>3, UpdateHolds
<1>8. ExclusiveExecution'
  BY <1>3, <1>5, <1>6 DEF Locked, ExclusiveExecution
<1>9. ClaimHeld'
  BY <1>5, <1>6, <1>7 DEF Locked, ClaimHeld, Held
<1> QED BY <1>8, <1>9 DEF Locked

\* The retry is the last thing its poll does, and no other poll executes.
LEMMA RetryUnlocks ==
  ASSUME IInv, Locked, NEW p \in Pollers, Retry(p)
  PROVE  Locked'
<1>1. /\ p \in Jobs /\ Executing(p, Id(p)) /\ intent \in [Intents -> IntentType]
      /\ job \in [Jobs -> JobType] /\ job[p].pc \in OnIntent
  BY DEF Retry, At, Executing, InExecution, OnIntent, IInv, TypeOK, Jobs
<1>2. Id(p) \in Intents
  BY <1>1, OnIt
<1>3. job' = [job EXCEPT ![p] = Job("process", job[p].batch)]
  BY <1>1 DEF Retry, Return
<1>4. \A q \in Pollers, i \in Intents : Executing(q, i)' => Executing(q, i)
  BY <1>1, <1>3, NobodyBegins DEF Job, InExecution
<1>5. \A i \in Intents : ~Executing(p, i)'
  BY <1>1, <1>3 DEF Executing, Job, InExecution
<1>6. PICK k \in Intents : k = Id(p)
  BY <1>2
<1>7. \A q \in Pollers : ~Executing(q, k)'
  BY <1>1, <1>4, <1>5, <1>6 DEF Locked, ExclusiveExecution
<1>8. \A i \in Intents \ {k} : intent'[i] = intent[i]
  BY <1>1, <1>6 DEF Retry
<1> QED BY <1>4, <1>7, <1>8 DEF Locked, ExclusiveExecution, ClaimHeld

LEMMA PollLocks ==
  ASSUME IInv, Locked, NEW p \in Pollers, PollStep(p)
  PROVE  Locked'
<1>1. /\ p \in Jobs /\ job \in [Jobs -> JobType] /\ job[p] \in JobType
      /\ GoodJob(job[p])
  BY DEF IInv, TypeOK, Jobs
<1>2. CASE Claim(p) \/ Retry(p)
  BY <1>2, ClaimLocks, RetryUnlocks
<1>3. CASE Activate(p) \/ StartupReconciliation(p) \/ FetchPending(p) \/ FetchPlaced(p)
           \/ PollEnd(p)
  <2>1. CASE Activate(p) \/ StartupReconciliation(p)
    <3>1. PICK pc \in {"startup", "polled"} :
            job' = [job EXCEPT ![p] = [job[p] EXCEPT !.pc = pc]]
      BY <1>1, <2>1 DEF Activate, StartupReconciliation, Goto
    <3>2. [job[p] EXCEPT !.pc = pc].pc \notin InExecution
      BY <1>1 DEF JobType, InExecution
    <3>3. \A q \in Pollers, i \in Intents : Executing(q, i)' => Executing(q, i)
      BY <1>1, <3>1, <3>2, NobodyBegins
    <3>4. ASSUME NEW i \in Intents, intent[i].state \in Held
          PROVE  intent'[i].state \in Held
      BY <2>1, <3>4, CancelHolds DEF Activate, StartupReconciliation
    <3> QED BY <3>3, <3>4, LockedStays DEF Harmless
  <2>2. CASE FetchPending(p) \/ FetchPlaced(p) \/ PollEnd(p)
    <3> DEFINE pending == IF run = "RUNNING" THEN Rows(InState({"PENDING"})) ELSE {}
               placed == IF run = "RUNNING"
                         THEN Rows({i \in InState(InFlight) : intent[i].order # NoOrder})
                         ELSE {}
    <3>1. \/ job' = [job EXCEPT ![p] = Job("process", pending)]
          \/ job' = [job EXCEPT ![p] = Job("reconcile", placed)]
          \/ job' = [job EXCEPT ![p] = Job("idle", {})]
      BY <2>2 DEF FetchPending, FetchPlaced, PollEnd, Idle
    <3> HIDE DEF pending, placed
    <3>2. \A q \in Pollers, i \in Intents : Executing(q, i)' => Executing(q, i)
      BY <1>1, <3>1, NobodyBeginsAnew DEF InExecution
    <3> QED BY <2>2, <3>2, LockedStays DEF FetchPending, FetchPlaced, PollEnd, Harmless
  <2> QED BY <1>3, <2>1, <2>2
<1>4. CASE NextPending(p)
  <2>1. PICK pc \in {"live", "demo", "disabled"} : Take(p, pc)
    BY <1>4 DEF NextPending
  <2>2. PICK item \in job[p].batch :
          job' = [job EXCEPT ![p] =
                    [job[p] EXCEPT !.pc = pc, !.id = item.id, !.row = item.row,
                                   !.batch = @ \ {item}]]
    BY ZenonT(40), <1>1, <2>1 DEF Take
  <2>3. [job[p] EXCEPT !.pc = pc, !.id = item.id, !.row = item.row,
                       !.batch = @ \ {item}].pc \notin InExecution
    BY <1>1 DEF JobType, InExecution
  <2>4. \A q \in Pollers, i \in Intents : Executing(q, i)' => Executing(q, i)
    BY <1>1, <2>2, <2>3, NobodyBegins
  <2> QED BY <1>4, <2>4, LockedStays DEF NextPending, Harmless
<1>5. CASE CancelDisabled(p) \/ ClaimLost(p) \/ Simulate(p) \/ RecordOrder(p)
           \/ DeadLetter(p)
  <2>1. job' = [job EXCEPT ![p] = Job("process", job[p].batch)]
    BY <1>1, <1>5 DEF CancelDisabled, ClaimLost, Simulate, RecordOrder, DeadLetter, Return
  <2>2. Job("process", job[p].batch).pc \notin InExecution
    BY DEF Job, InExecution
  <2>3. \A q \in Pollers, i \in Intents : Executing(q, i)' => Executing(q, i)
    BY <1>1, <2>1, <2>2, NobodyBegins
  <2>4. Id(p) \in Intents /\ "FILLED" \in Held /\ "FAILED" \in Held
    BY <1>1, <1>5, OnIt DEF CancelDisabled, ClaimLost, Simulate, RecordOrder,
       DeadLetter, At, OnIntent, InExecution, Held, IntentState
  <2>5. ASSUME NEW i \in Intents, intent[i].state \in Held
        PROVE  intent'[i].state \in Held
    BY <1>5, <2>4, <2>5, CancelHolds, UpdateHolds, RecordHolds
       DEF CancelDisabled, ClaimLost, Simulate, RecordOrder, DeadLetter
  <2> QED BY <2>3, <2>5, LockedStays DEF Harmless
<1>6. CASE Accepted(p) \/ AnswerLost(p) \/ NotPlaced(p)
  <2>1. job[p].pc \in InExecution /\ intent' = intent
    BY <1>6 DEF Accepted, AnswerLost, NotPlaced, At, InExecution
  <2>2. \A q \in Pollers, i \in Intents : Executing(q, i)' => Executing(q, i)
    <3>1. CASE Accepted(p)
      <4> DEFINE j == [job[p] EXCEPT !.pc = "record", !.order = Len(orders[Id(p)]) + 1]
      <4>1. job' = [job EXCEPT ![p] = j]
        BY <1>1, <3>1 DEF Accepted
      <4>2. j.id = job[p].id
        BY <1>1 DEF JobType
      <4> QED BY <1>1, <2>1, <4>1, <4>2, NobodyBegins
    <3>2. CASE AnswerLost(p) \/ NotPlaced(p)
      <4>1. PICK pc \in {"transient", "permanent"} :
              job' = [job EXCEPT ![p] = [job[p] EXCEPT !.pc = pc]]
        BY <1>1, <3>2 DEF AnswerLost, NotPlaced, Failed, Classified, Retryable, Goto
      <4>2. [job[p] EXCEPT !.pc = pc].id = job[p].id
        BY <1>1 DEF JobType
      <4> QED BY <1>1, <2>1, <4>1, <4>2, NobodyBegins
    <3> QED BY <1>6, <3>1, <3>2
  <2> QED BY <2>1, <2>2, LockedStays DEF Harmless
<1>7. CASE QueryOrder(p)
  <2>1. PICK item \in job[p].batch :
          LET status == orders[item.id][item.row.order]
              rest == Job("reconcile", job[p].batch \ {item})
          IN job' = [job EXCEPT ![p] =
               IF Unchanged(item.row, status) THEN rest
               ELSE [rest EXCEPT !.pc = "write", !.id = item.id, !.row = item.row,
                                 !.to = status]]
    BY <1>7 DEF QueryOrder
  <2> DEFINE status == orders[item.id][item.row.order]
             rest == Job("reconcile", job[p].batch \ {item})
             j == [rest EXCEPT !.pc = "write", !.id = item.id, !.row = item.row,
                               !.to = status]
  <2>2. rest.pc = "reconcile" /\ j.pc = "write"
    BY DEF Job
  <2>3. job' = [job EXCEPT ![p] = rest] \/ job' = [job EXCEPT ![p] = j]
    BY <2>1
  <2> HIDE DEF rest, j
  <2>4. \A q \in Pollers, i \in Intents : Executing(q, i)' => Executing(q, i)
    BY <1>1, <2>2, <2>3, NobodyBegins DEF InExecution
  <2> QED BY <1>7, <2>4, LockedStays DEF QueryOrder, Harmless
<1>8. CASE FillRefused(p) \/ WriteReconciled(p)
  <2>1. job' = [job EXCEPT ![p] = Job("reconcile", job[p].batch)]
    BY <1>1, <1>8 DEF FillRefused, WriteReconciled, Return
  <2>2. \A q \in Pollers, i \in Intents : Executing(q, i)' => Executing(q, i)
    BY <1>1, <2>1, NobodyBegins DEF Job, InExecution
  <2>3. ASSUME NEW i \in Intents, intent[i].state \in Held
        PROVE  intent'[i].state \in Held
    <3>1. CASE FillRefused(p)
      BY <2>3, <3>1 DEF FillRefused
    <3>2. CASE WriteReconciled(p)
      <4> DEFINE s == Reconciled(Read(p), job[p].to)
      <4>1. s \in Held
        BY <1>1, <3>2 DEF WriteReconciled, At, GoodJob, Reconciled, Read, InFlight,
           Held, IntentState
      <4>2. intent \in [Intents -> IntentType] /\ intent[i] \in IntentType
        BY DEF IInv, TypeOK
      <4>3. intent'[i].state = IF i = Id(p) THEN s ELSE intent[i].state
        BY <3>2, <4>2 DEF WriteReconciled, IntentType
      <4> QED BY <2>3, <4>1, <4>3
    <3> QED BY <1>8, <3>1, <3>2
  <2> QED BY <2>2, <2>3, LockedStays DEF Harmless
<1> QED BY <1>2, <1>3, <1>4, <1>5, <1>6, <1>7, <1>8 DEF PollStep

LEMMA FaultLocks ==
  ASSUME IInv, Locked, NEW p \in Pollers,
         WorkerCrash(p) \/ DatabaseError(p) \/ EventError(p)
  PROVE  Locked'
<1>1. p \in Jobs /\ job \in [Jobs -> JobType] /\ job[p] \in JobType
  BY DEF IInv, TypeOK, Jobs
<1>2. ASSUME NEW pc, Goto(p, pc), job[p].pc \in InExecution
      PROVE  \A q \in Pollers, i \in Intents : Executing(q, i)' => Executing(q, i)
  <2>1. job' = [job EXCEPT ![p] = [job[p] EXCEPT !.pc = pc]]
    BY <1>1, <1>2 DEF Goto
  <2>2. [job[p] EXCEPT !.pc = pc].id = job[p].id
    BY <1>1 DEF JobType
  <2> QED BY <1>1, <1>2, <2>1, <2>2, NobodyBegins
<1>3. ASSUME NEW pc \in {"idle", "process", "reconcile"}, NEW batch,
             job' = [job EXCEPT ![p] = Job(pc, batch)]
      PROVE  \A q \in Pollers, i \in Intents : Executing(q, i)' => Executing(q, i)
  BY <1>1, <1>3, NobodyBeginsAnew DEF InExecution
<1>4. \A q \in Pollers, i \in Intents : Executing(q, i)' => Executing(q, i)
  BY <1>1, <1>2, <1>3, FailedGoes
     DEF WorkerCrash, DatabaseError, EventError, Idle, At, Return, InExecution
<1>5. ASSUME NEW i \in Intents, intent[i].state \in Held
      PROVE  intent'[i].state \in Held
  <2>1. CASE EventError(p)
    <3>1. Id(p) \in Intents
      BY <1>1, <2>1, OnIt DEF EventError, At, OnIntent, InExecution
    <3> QED BY <1>5, <2>1, <3>1, RecordHolds DEF EventError
  <2>2. CASE intent' = intent
    BY <1>5, <2>2
  <2> QED BY <2>1, <2>2 DEF WorkerCrash, DatabaseError
<1> QED BY <1>4, <1>5, LockedStays DEF Harmless

\* A request changes no poll's job.
LEMMA RequestsLock ==
  ASSUME "retry" \notin Requests, "PENDING" \notin PatchTargets,
         IInv, Locked, NEW h \in Handlers, Request(h) \/ Respond(h)
  PROVE  Locked'
<1>1. /\ h \in Jobs /\ job \in [Jobs -> JobType] /\ GoodJob(job[h])
      /\ \A q \in Pollers : q \in Jobs /\ q # h
  BY IntentConstants DEF IInv, TypeOK, Jobs
<1>2. \A q \in Pollers : job'[q] = job[q]
  <2>1. \E j : job' = [job EXCEPT ![h] = j]
    BY <1>1 DEF Request, Respond, RetryRead, PatchRead, SweepFind, KillRuns, Goto,
       RetryWrite, PatchWrite, SweepCancel, KillIntents
  <2> QED BY <1>1, <2>1
<1>3. \A q \in Pollers, i \in Intents : Executing(q, i)' => Executing(q, i)
  BY <1>2 DEF Executing, Id
<1>4. ~RetryWrite(h)
  BY <1>1 DEF RetryWrite, At, GoodJob
<1>5. ASSUME NEW i \in Intents, intent[i].state \in Held
      PROVE  intent'[i].state \in Held
  <2>1. CASE PatchWrite(h)
    <3>1. job[h].to \in Held
      BY <1>1, <2>1, IntentConstants DEF PatchWrite, At, GoodJob, Held
    <3>2. intent \in [Intents -> IntentType] /\ intent[i] \in IntentType
      BY DEF IInv, TypeOK
    <3>3. intent'[i].state = IF i = Id(h) THEN job[h].to ELSE intent[i].state
      BY <2>1, <3>2 DEF PatchWrite, IntentType
    <3> QED BY <1>5, <3>1, <3>3
  <2>2. CASE SweepCancel(h) \/ KillIntents(h)
    BY <1>5, <2>2, CancelHolds DEF SweepCancel, KillIntents
  <2>3. CASE Request(h)
    BY <1>5, <2>3 DEF Request, RetryRead, PatchRead, SweepFind, KillRuns
  <2> QED BY <1>4, <2>1, <2>2, <2>3 DEF Respond
<1> QED BY <1>3, <1>5, LockedStays DEF Harmless

LEMMA OthersLock ==
  ASSUME IInv, Locked,
         \/ UNCHANGED vars \/ EndRun
         \/ \E i \in Intents : \/ CreateIntent(i) \/ GrowOld(i)
                              \/ \E k \in Orders(i) : OrderMoves(i, k)
  PROVE  Locked'
<1>1. job' = job
  BY DEF vars, EndRun, CreateIntent, GrowOld, OrderMoves
<1>2. \A q \in Pollers, i \in Intents : Executing(q, i)' => Executing(q, i)
  BY <1>1 DEF Executing, Id
<1>3. ASSUME NEW i \in Intents, intent[i].state \in Held
      PROVE  intent'[i].state \in Held
  <2>1. CASE \E k \in Intents : CreateIntent(k)
    <3>1. PICK k \in Intents : CreateIntent(k)
      BY <2>1
    <3>2. k # i
      BY <1>3, <3>1 DEF CreateIntent, NoRow, NewIntent, Held, IntentState
    <3> QED BY <1>3, <3>1, <3>2 DEF CreateIntent, IInv, TypeOK
  <2>2. CASE intent' = intent
    BY <1>3, <2>2
  <2> QED BY <2>1, <2>2 DEF vars, EndRun, GrowOld, OrderMoves
<1> QED BY <1>2, <1>3, LockedStays DEF Harmless

LEMMA LockInit == Init => Locked
BY DEF Init, Locked, ExclusiveExecution, ClaimHeld, Executing, InExecution, Idle, Job,
   Id, Jobs

LEMMA LockStep ==
  ASSUME "retry" \notin Requests, "PENDING" \notin PatchTargets
  PROVE  IInv /\ Locked /\ [Next]_vars => Locked'
BY PollLocks, FaultLocks, RequestsLock, OthersLock DEF Next

\* Where nobody makes an intent PENDING by hand, the conditional update that
\* claims it is a lock: one poll executes it, however many polls, crashes,
\* kills, sweeps and other PATCHes there are, and nobody finds it PENDING.
THEOREM ClaimIsALock ==
  ASSUME "retry" \notin Requests, "PENDING" \notin PatchTargets
  PROVE  Spec => [](ExclusiveExecution /\ ClaimHeld)
<1>1. Locked => ExclusiveExecution /\ ClaimHeld
  BY DEF Locked
<1> QED BY <1>1, LockInit, LockStep, InductiveInvariant, PTL DEF Spec

-----------------------------------------------------------------------------
(* One poll and one request at a time                                        *)

\* PollHolds and RowHolds of the next state, of a job value and of rows that
\* the same requests are about to retry.
WaitsNext(i, read) == /\ intent'[i].state \in {"PENDING", "CANCELLED"}
                      /\ intent'[i].retry = read.retry
                      /\ killed' => intent'[i].state = "CANCELLED"

HoldsNext(j) ==
  /\ \A a, b \in j.batch : a.id = b.id => a = b
  /\ j.pc \in OnIntent => \A item \in j.batch : item.id # j.id
  /\ j.pc \in {"process"} \cup BeforeClaim \cup InExecution =>
       \A item \in j.batch : WaitsNext(item.id, item.row)
  /\ j.pc \in BeforeClaim => WaitsNext(j.id, j.row)
  /\ j.pc \in InExecution => /\ intent'[j.id].state = "PLACED"
                             /\ intent'[j.id].retry = j.row.retry
  /\ j.pc \in {"reconcile", "write"} =>
       \A item \in j.batch : intent'[item.id].state \in InFlight
  /\ j.pc = "write" => intent'[j.id].state \in InFlight

RowNext(i) ==
  /\ intent'[i].retry <= MaxRetries
  /\ Retrying(i) => intent'[i].state = "FAILED" /\ manual'[i] > 0
  /\ claims'[i] + (IF intent'[i].state \in {"NO_ROW", "PENDING"} \/ Retrying(i)
                   THEN 1 ELSE 0)
       <= intent'[i].retry + 1 + manual'[i]

\* A terminal intent stays as it is, but for a manual retry of a FAILED one.
FinalRow(i) == intent[i].state \in TerminalIntents =>
                 \/ intent'[i].state = intent[i].state
                 \/ intent[i].state = "FAILED" /\ manual[i] > 0

Rested == \A i \in Intents : FinalRow(i)

Kept == AloneIInv' /\ Rested

\* A step of the poll: no request moves meanwhile.
LEMMA PollKeeps ==
  ASSUME Alone, IInv, NEW p \in Pollers, NEW j, job' = [job EXCEPT ![p] = j],
         HoldsNext(j), killed' => run' = "ENDED",
         \A i \in Intents : RowNext(i) /\ FinalRow(i)
  PROVE  Kept
<1>1. /\ job \in [Jobs -> JobType] /\ p \in Jobs
      /\ \A h \in Handlers : h \in Jobs /\ h # p
  BY IntentConstants DEF IInv, TypeOK, Jobs
<1>2. job'[p] = j /\ \A h \in Handlers : job'[h] = job[h]
  BY <1>1
<1>3. \A i \in Intents : Retrying(i)' <=> Retrying(i)
  BY <1>2 DEF Retrying, At, Id
<1>4. PollHolds(job[p])'
  BY <1>2 DEF PollHolds, HoldsNext, Waits, WaitsNext
<1>5. \A q \in Pollers : PollHolds(job[q])'
  BY <1>4 DEF Alone
<1>6. ASSUME NEW i \in Intents PROVE RowHolds(i)'
  BY <1>3 DEF RowNext, RowHolds, ToClaim
<1> QED BY <1>5, <1>6 DEF Kept, AloneIInv, Rested

\* Rows nobody writes are as they were.
LEMMA RowStands ==
  ASSUME AloneIInv, NEW i \in Intents,
         UNCHANGED <<intent[i], claims[i], manual[i]>>
  PROVE  RowNext(i) /\ FinalRow(i)
BY DEF AloneIInv, RowHolds, ToClaim, RowNext, FinalRow

\* A row the poll writes is no row a request has found FAILED.
LEMMA RowMoves ==
  ASSUME IInv, AloneIInv, NEW i \in Intents,
         intent[i].state \in {"PENDING"} \cup InFlight, manual' = manual,
         \/ /\ intent'[i].state \in IntentState \ {"PENDING"}
            /\ UNCHANGED <<intent[i].retry, claims>>
         \/ /\ intent[i].state = "PENDING" /\ intent'[i].state = "PLACED"
            /\ intent'[i].retry = intent[i].retry /\ claims'[i] = claims[i] + 1
         \/ /\ intent'[i].state = "PENDING" /\ claims' = claims
            /\ intent'[i].retry = intent[i].retry + 1 /\ intent[i].retry < MaxRetries
  PROVE  RowNext(i) /\ FinalRow(i)
<1>1. /\ claims[i] \in Nat /\ manual[i] \in Nat /\ intent[i].retry \in Nat
      /\ MaxRetries \in Nat
  BY IntentConstants DEF IInv, TypeOK, IntentType
<1>2. ~Retrying(i) /\ intent[i].state \notin TerminalIntents
  BY DEF AloneIInv, RowHolds, InFlight, TerminalIntents
<1>3. /\ intent[i].retry <= MaxRetries
      /\ claims[i] + (IF intent[i].state = "PENDING" THEN 1 ELSE 0)
           <= intent[i].retry + 1 + manual[i]
  BY <1>2 DEF AloneIInv, RowHolds, ToClaim, InFlight
<1> QED BY <1>1, <1>2, <1>3 DEF RowNext, FinalRow, IntentState, InFlight

\* What the poll has in hand while it writes at most the row it is at.
LEMMA HandStands ==
  ASSUME IInv, AloneIInv, NEW p \in Pollers, job[p].pc \in OnIntent, NEW j,
         \A k \in Intents : k = Id(p) \/ intent'[k] = intent[k],
         killed' = killed, j.batch = job[p].batch,
         \/ j.pc = "process" /\ job[p].pc \in BeforeClaim \cup InExecution
         \/ j.pc = "reconcile" /\ job[p].pc = "write"
         \/ /\ j.pc \in InExecution /\ job[p].pc \in BeforeClaim \cup InExecution
            /\ j.id = Id(p) /\ j.row = Read(p)
            /\ intent'[Id(p)].state = "PLACED"
            /\ intent'[Id(p)].retry = Read(p).retry
  PROVE  HoldsNext(j)
<1>1. PollHolds(job[p]) /\ job[p] \in JobType
  BY DEF AloneIInv, IInv, TypeOK, Jobs
<1>2. \A item \in job[p].batch : item.id \in Intents /\ item.id # Id(p)
  BY <1>1 DEF PollHolds, JobType, Id
<1>3. \A item \in job[p].batch : intent'[item.id] = intent[item.id]
  BY <1>2
<1>4. CASE job[p].pc \in BeforeClaim \cup InExecution
  <2>1. \A item \in job[p].batch : WaitsNext(item.id, item.row)
    BY <1>1, <1>3, <1>4 DEF PollHolds, Waits, WaitsNext
  <2> QED BY <1>1, <1>2, <1>4, <2>1 DEF HoldsNext, PollHolds, OnIntent,
          BeforeClaim, InExecution, Id, Read
<1>5. CASE job[p].pc = "write"
  <2>1. \A item \in job[p].batch : intent'[item.id].state \in InFlight
    BY <1>1, <1>3, <1>5 DEF PollHolds
  <2>2. j.pc = "reconcile"
    BY <1>5 DEF BeforeClaim, InExecution
  <2> QED BY <1>1, <2>1, <2>2 DEF HoldsNext, PollHolds, OnIntent, BeforeClaim,
          InExecution
<1> QED BY <1>4, <1>5

LEMMA CancelRests ==
  ASSUME IInv, AloneIInv, NEW S, Cancelled(S), UNCHANGED <<claims, manual>>,
         NEW i \in Intents
  PROVE  /\ RowNext(i) /\ FinalRow(i)
         /\ intent'[i].retry = intent[i].retry
         /\ intent[i].state # "PENDING" => intent'[i] = intent[i]
         /\ intent[i].state = "PENDING" =>
              intent'[i].state = IF i \in S THEN "CANCELLED" ELSE "PENDING"
<1>1. intent[i] \in IntentType
  BY DEF IInv, TypeOK
<1>2. intent'[i] = IF i \in S /\ intent[i].state = "PENDING"
                   THEN [intent[i] EXCEPT !.state = "CANCELLED"] ELSE intent[i]
  BY DEF Cancelled
<1>3. CASE i \in S /\ intent[i].state = "PENDING"
  <2>1. intent'[i].state = "CANCELLED" /\ intent'[i].retry = intent[i].retry
    BY <1>1, <1>2, <1>3 DEF IntentType
  <2> QED BY <1>3, <2>1, RowMoves DEF IntentState
<1>4. CASE ~(i \in S /\ intent[i].state = "PENDING")
  <2>1. intent'[i] = intent[i]
    BY <1>2, <1>4
  <2> QED BY <1>4, <2>1, RowStands
<1> QED BY <1>3, <1>4

\* What the steps of the poll have in common.
LEMMA TheHand ==
  ASSUME IInv, AloneIInv, NEW p \in Pollers
  PROVE  /\ p \in Jobs /\ job \in [Jobs -> JobType] /\ job[p] \in JobType
         /\ PollHolds(job[p]) /\ intent \in [Intents -> IntentType]
         /\ job[p].pc \in OnIntent => Id(p) \in Intents
BY OnIt DEF IInv, TypeOK, AloneIInv, Jobs

LEMMA StartingAlone ==
  ASSUME Alone, IInv, AloneIInv, NEW p \in Pollers,
         Activate(p) \/ StartupReconciliation(p)
  PROVE  Kept
<1>1. /\ job[p] \in JobType /\ PollHolds(job[p])
  BY TheHand
<1>2. PICK pc \in {"startup", "polled"} :
        job' = [job EXCEPT ![p] = [job[p] EXCEPT !.pc = pc]]
  BY TheHand DEF Activate, StartupReconciliation, Goto
<1> DEFINE j == [job[p] EXCEPT !.pc = pc]
<1>3. j.pc = pc /\ j.batch = job[p].batch
  BY <1>1 DEF JobType
<1> HIDE DEF j
<1>4. HoldsNext(j)
  BY <1>1, <1>3 DEF HoldsNext, PollHolds, OnIntent, BeforeClaim, InExecution
<1>5. killed' => run' = "ENDED"
  BY DEF Activate, StartupReconciliation, history, AloneIInv
<1>6. \A i \in Intents : RowNext(i) /\ FinalRow(i)
  BY RowStands, CancelRests DEF Activate, StartupReconciliation, history
<1> QED BY <1>2, <1>4, <1>5, <1>6, PollKeeps DEF j

\* A findMany: a row once, as it is; PENDING ones of a RUNNING run only.
LEMMA FetchingAlone ==
  ASSUME Alone, IInv, AloneIInv, NEW p \in Pollers,
         FetchPending(p) \/ FetchPlaced(p) \/ PollEnd(p)
  PROVE  Kept
<1> DEFINE found == {i \in InState(InFlight) : intent[i].order # NoOrder}
<1>1. \/ job' = [job EXCEPT ![p] = Job("process", {})]
      \/ job' = [job EXCEPT ![p] = Job("reconcile", {})]
      \/ job' = [job EXCEPT ![p] = Idle]
      \/ /\ job' = [job EXCEPT ![p] = Job("process", Rows(InState({"PENDING"})))]
         /\ ~killed
      \/ job' = [job EXCEPT ![p] = Job("reconcile", Rows(found))]
  BY DEF FetchPending, FetchPlaced, PollEnd, AloneIInv
<1>2. UNCHANGED <<run, intent, claims, manual, killed>>
  BY DEF FetchPending, FetchPlaced, PollEnd, history
<1>3. \A i \in Intents : RowNext(i) /\ FinalRow(i)
  BY <1>2, RowStands
<1>4. killed' => run' = "ENDED"
  BY <1>2 DEF AloneIInv
<1>5. \A pc \in {"idle", "process", "reconcile"} : HoldsNext(Job(pc, {}))
  BY DEF HoldsNext, Job, OnIntent, BeforeClaim, InExecution
<1>6. ASSUME ~killed PROVE HoldsNext(Job("process", Rows(InState({"PENDING"}))))
  BY <1>2, <1>6 DEF HoldsNext, Job, OnIntent, BeforeClaim, InExecution, Rows,
     InState, WaitsNext
<1>7. HoldsNext(Job("reconcile", Rows(found)))
  BY <1>2 DEF HoldsNext, Job, OnIntent, BeforeClaim, InExecution, Rows, InState
<1> QED BY <1>1, <1>3, <1>4, <1>5, <1>6, <1>7, PollKeeps DEF Idle

LEMMA TakingAlone ==
  ASSUME Alone, IInv, AloneIInv, NEW p \in Pollers, NextPending(p)
  PROVE  Kept
<1>1. PICK pc \in BeforeClaim : Take(p, pc)
  BY DEF NextPending, BeforeClaim
<1>2. PICK item \in job[p].batch :
        job' = [job EXCEPT ![p].pc = pc, ![p].id = item.id, ![p].row = item.row,
                           ![p].batch = @ \ {item}]
  BY <1>1, Zenon DEF Take
<1> DEFINE j == [job[p] EXCEPT !.pc = pc, !.id = item.id, !.row = item.row,
                               !.batch = @ \ {item}]
<1>3. job' = [job EXCEPT ![p] = j]
  BY <1>2, TheHand
<1>4. /\ j.pc = pc /\ j.id = item.id /\ j.row = item.row
      /\ j.batch = job[p].batch \ {item}
  BY TheHand DEF JobType
<1> HIDE DEF j
<1>5. UNCHANGED <<run, intent, claims, manual, killed>>
  BY DEF NextPending, history
<1>6. \A a \in job[p].batch : WaitsNext(a.id, a.row)
  BY <1>5, TheHand DEF NextPending, At, PollHolds, Waits, WaitsNext
<1>7. \A a, b \in job[p].batch : a.id = b.id => a = b
  BY TheHand DEF PollHolds
<1>8. HoldsNext(j)
  BY <1>4, <1>6, <1>7 DEF HoldsNext, BeforeClaim, InExecution
<1> QED BY <1>3, <1>5, <1>8, RowStands, PollKeeps DEF AloneIInv

\* A row a poll may still claim is PENDING or CANCELLED, and cancelled once a
\* kill has responded.
LEMMA ClaimingAlone ==
  ASSUME Alone, IInv, AloneIInv, NEW p \in Pollers,
         CancelDisabled(p) \/ ClaimLost(p) \/ Claim(p) \/ Simulate(p)
  PROVE  Kept
<1>1. /\ job[p].pc \in BeforeClaim \cup InExecution /\ job[p].pc \in OnIntent
      /\ UNCHANGED <<run, manual, killed>>
  BY DEF CancelDisabled, ClaimLost, Claim, Simulate, At, BeforeClaim, InExecution,
     OnIntent, history
<1>2. killed' => run' = "ENDED"
  BY <1>1 DEF AloneIInv
<1>3. PICK i \in Intents : i = Id(p)
  BY <1>1, TheHand
<1>4. intent[i] \in IntentType
  BY TheHand
<1>5. CASE CancelDisabled(p) \/ ClaimLost(p) \/ Simulate(p)
  <2> DEFINE j == Job("process", job[p].batch)
  <2>1. j.pc = "process" /\ j.batch = job[p].batch
    BY DEF Job
  <2>2. job' = [job EXCEPT ![p] = j]
    BY <1>5, TheHand DEF CancelDisabled, ClaimLost, Simulate, Return
  <2> HIDE DEF j
  <2>3. /\ \A k \in Intents : k = i \/ intent'[k] = intent[k]
        /\ \A k \in Intents : RowNext(k) /\ FinalRow(k)
    <3>1. CASE ClaimLost(p)
      BY <3>1, RowStands DEF ClaimLost, history
    <3>2. CASE CancelDisabled(p)
      <4>1. Cancelled({i}) /\ UNCHANGED <<claims, manual>>
        BY <1>3, <3>2 DEF CancelDisabled, history
      <4>2. \A k \in Intents : k = i \/ intent'[k] = intent[k]
        BY <4>1 DEF Cancelled
      <4> QED BY <4>1, <4>2, CancelRests
    <3>3. CASE Simulate(p)
      <4>1. /\ intent' = [intent EXCEPT ![i].state = "FILLED"]
            /\ UNCHANGED <<claims, manual>> /\ intent[i].state = "PLACED"
        BY <1>3, <3>3, TheHand DEF Simulate, Update, history, PollHolds, At,
           InExecution, Id
      <4>2. \A k \in Intents : k = i \/ intent'[k] = intent[k]
        BY <4>1
      <4>3. intent'[i].state = "FILLED" /\ intent'[i].retry = intent[i].retry
        BY <1>4, <4>1, TheHand DEF IntentType
      <4>4. RowNext(i) /\ FinalRow(i)
        BY <4>1, <4>3, RowMoves DEF InFlight, IntentState
      <4> QED BY <4>1, <4>2, <4>4, RowStands
    <3> QED BY <1>5, <3>1, <3>2, <3>3
  <2>4. HoldsNext(j)
    BY <1>1, <1>3, <2>1, <2>3, HandStands
  <2> QED BY <1>2, <2>2, <2>3, <2>4, PollKeeps
<1>6. CASE Claim(p)
  <2>1. /\ intent[i].state = "PENDING" /\ intent[i].retry = Read(p).retry
        /\ intent' = [intent EXCEPT ![i].state = "PLACED"]
        /\ claims' = [claims EXCEPT ![i] = @ + 1]
    BY <1>3, <1>6, TheHand DEF Claim, Unclaimable, Update, PollHolds, Waits,
       BeforeClaim, Id, Read
  <2>2. intent'[i].state = "PLACED" /\ intent'[i].retry = intent[i].retry
    BY <1>4, <2>1, TheHand DEF IntentType
  <2>3. \A k \in Intents : k = i \/ (intent'[k] = intent[k] /\ claims'[k] = claims[k])
    BY <2>1, TheHand DEF IInv, TypeOK
  <2>4. claims'[i] = claims[i] + 1
    BY <2>1 DEF IInv, TypeOK
  <2>5. RowNext(i) /\ FinalRow(i)
    BY <1>1, <2>1, <2>2, <2>4, RowMoves
  <2>6. \A k \in Intents : RowNext(k) /\ FinalRow(k)
    BY <1>1, <2>3, <2>5, RowStands
  <2>7. PICK pc \in {"place", "simulate"} :
          job' = [job EXCEPT ![p] = [job[p] EXCEPT !.pc = pc]]
    BY <1>6, TheHand DEF Claim, Goto
  <2> DEFINE j == [job[p] EXCEPT !.pc = pc]
  <2>8. j.pc = pc /\ j.batch = job[p].batch /\ j.id = Id(p) /\ j.row = Read(p)
    BY TheHand DEF JobType, Id, Read
  <2> HIDE DEF j
  <2>9. job[p].pc \in BeforeClaim
    BY <1>6 DEF Claim, BeforeClaim
  <2>10. HoldsNext(j)
    BY <1>1, <1>3, <2>1, <2>2, <2>3, <2>8, <2>9, HandStands DEF InExecution
  <2> QED BY <1>2, <2>6, <2>7, <2>10, PollKeeps DEF j
<1> QED BY <1>5, <1>6, Zenon

\* The job of a poll that goes on executing the intent it claimed.
LEMMA GoesOn ==
  ASSUME Alone, IInv, AloneIInv, NEW p \in Pollers,
         job[p].pc \in InExecution, UNCHANGED <<run, claims, manual, killed>>,
         \A k \in Intents : k = Id(p) \/ intent'[k] = intent[k],
         intent'[Id(p)].state = intent[Id(p)].state,
         intent'[Id(p)].retry = intent[Id(p)].retry,
         NEW j, job' = [job EXCEPT ![p] = j], j.pc \in InExecution,
         j.batch = job[p].batch, j.id = Id(p), j.row = Read(p)
  PROVE  Kept
<1>1. PICK i \in Intents : i = Id(p)
  BY TheHand DEF OnIntent
<1>2. intent[i].state = "PLACED" /\ intent[i].retry = Read(p).retry
  BY <1>1, TheHand DEF PollHolds, Id, Read
<1>3. HoldsNext(j)
  BY <1>1, <1>2, HandStands DEF OnIntent
<1>4. RowNext(i) /\ FinalRow(i)
  BY <1>1, <1>2, RowMoves DEF InFlight, IntentState
<1>5. \A k \in Intents : RowNext(k) /\ FinalRow(k)
  BY <1>1, <1>4, RowStands
<1> QED BY <1>3, <1>5, PollKeeps DEF AloneIInv

LEMMA PlacingAlone ==
  ASSUME Alone, IInv, AloneIInv, NEW p \in Pollers,
         Accepted(p) \/ AnswerLost(p) \/ NotPlaced(p)
  PROVE  Kept
<1>1. /\ job[p].pc \in InExecution
      /\ UNCHANGED <<run, intent, claims, manual, killed>>
  BY DEF Accepted, AnswerLost, NotPlaced, At, InExecution, history
<1>2. CASE Accepted(p)
  <2>1. PICK n : job' = [job EXCEPT ![p].pc = "record", ![p].order = n]
    BY <1>2 DEF Accepted
  <2> DEFINE j == [job[p] EXCEPT !.pc = "record", !.order = n]
  <2>2. job' = [job EXCEPT ![p] = j]
    BY <2>1, TheHand
  <2>3. j.pc = "record" /\ j.batch = job[p].batch /\ j.id = Id(p) /\ j.row = Read(p)
    BY TheHand DEF JobType, Id, Read
  <2> HIDE DEF j
  <2> QED BY <1>1, <2>2, <2>3, GoesOn DEF InExecution
<1>3. CASE AnswerLost(p) \/ NotPlaced(p)
  <2>1. PICK pc \in {"transient", "permanent"} :
          job' = [job EXCEPT ![p] = [job[p] EXCEPT !.pc = pc]]
    BY <1>3, FailedGoes, TheHand DEF AnswerLost, NotPlaced, Goto
  <2> DEFINE j == [job[p] EXCEPT !.pc = pc]
  <2>2. j.pc = pc /\ j.batch = job[p].batch /\ j.id = Id(p) /\ j.row = Read(p)
    BY TheHand DEF JobType, Id, Read
  <2>3. job' = [job EXCEPT ![p] = j]
    BY <2>1
  <2> HIDE DEF j
  <2> QED BY <1>1, <2>2, <2>3, GoesOn DEF InExecution
<1> QED BY <1>2, <1>3

LEMMA Ends ==
  ASSUME Alone, IInv, AloneIInv, NEW p \in Pollers,
         job[p].pc \in InExecution, UNCHANGED <<run, claims, manual, killed>>,
         NEW i \in Intents, i = Id(p), NEW row \in IntentType,
         intent' = [intent EXCEPT ![i] = row],
         RowNext(i) /\ FinalRow(i),
         Return(p, "process")
  PROVE  Kept
<1> DEFINE j == Job("process", job[p].batch)
<1>1. j.pc = "process" /\ j.batch = job[p].batch
  BY DEF Job
<1>2. job' = [job EXCEPT ![p] = j]
  BY TheHand DEF Return
<1> HIDE DEF j
<1>3. \A k \in Intents : k = i \/ intent'[k] = intent[k]
  BY TheHand
<1>4. HoldsNext(j)
  BY <1>1, <1>3, HandStands DEF OnIntent
<1>5. \A k \in Intents : RowNext(k) /\ FinalRow(k)
  BY <1>3, RowStands
<1> QED BY <1>2, <1>4, <1>5, PollKeeps DEF AloneIInv

\* The last access of executeIntent: an order recorded, a retry, a dead letter.
\* The retry count the batch was fetched with is the one the row has.
LEMMA SettlingAlone ==
  ASSUME Alone, IInv, AloneIInv, NEW p \in Pollers,
         RecordOrder(p) \/ Retry(p) \/ DeadLetter(p)
  PROVE  Kept
<1>1. /\ job[p].pc \in InExecution /\ job[p].pc \in OnIntent
      /\ UNCHANGED <<run, claims, manual, killed>> /\ Return(p, "process")
  BY DEF RecordOrder, Retry, DeadLetter, At, InExecution, OnIntent, history
<1>2. PICK i \in Intents : i = Id(p)
  BY <1>1, TheHand
<1>3. /\ intent[i] \in IntentType /\ job[p].order \in Nat /\ Read(p).retry \in Nat
      /\ intent[i].state = "PLACED" /\ intent[i].retry = Read(p).retry
  BY <1>1, <1>2, TheHand DEF PollHolds, Id, Read, JobType, IntentType
<1>4. ASSUME NEW row \in IntentType, intent' = [intent EXCEPT ![i] = row],
             \/ row.state \in IntentState \ {"PENDING"} /\ row.retry = intent[i].retry
             \/ /\ row.state = "PENDING" /\ row.retry = intent[i].retry + 1
                /\ intent[i].retry < MaxRetries
      PROVE  Kept
  <2>1. intent'[i] = row
    BY <1>4, TheHand
  <2>2. RowNext(i) /\ FinalRow(i)
    BY <1>1, <1>3, <1>4, <2>1, RowMoves DEF InFlight
  <2> QED BY <1>1, <1>2, <1>4, <2>2, Ends
<1>5. CASE RecordOrder(p)
  <2> DEFINE row == [intent[i] EXCEPT !.order = job[p].order]
  <2>1. intent' = [intent EXCEPT ![i] = row]
    BY <1>2, <1>5, TheHand DEF RecordOrder
  <2>2. row \in IntentType /\ row.state = "PLACED" /\ row.retry = intent[i].retry
    BY <1>3 DEF IntentType
  <2> HIDE DEF row
  <2> QED BY <1>4, <2>1, <2>2 DEF IntentState
<1>6. CASE Retry(p)
  <2> DEFINE row == [intent[i] EXCEPT !.state = "PENDING", !.retry = Read(p).retry + 1]
  <2>1. intent' = [intent EXCEPT ![i] = row] /\ intent[i].retry < MaxRetries
    BY <1>2, <1>3, <1>6, TheHand DEF Retry, CanRetry
  <2>2. /\ row \in IntentType /\ row.state = "PENDING"
        /\ row.retry = intent[i].retry + 1
    <3>1. Read(p).retry + 1 \in Nat
      BY <1>3
    <3>2. row.state = "PENDING" /\ row.retry = Read(p).retry + 1
      BY <1>3 DEF IntentType
    <3>3. row \in IntentType
      BY <1>3, <3>1 DEF IntentType, IntentState
    <3> QED BY <1>3, <3>2, <3>3
  <2> HIDE DEF row
  <2> QED BY <1>4, <2>1, <2>2
<1>7. CASE DeadLetter(p)
  <2> DEFINE row == [intent[i] EXCEPT !.state = "FAILED"]
  <2>1. intent' = [intent EXCEPT ![i] = row]
    BY <1>2, <1>7, TheHand DEF DeadLetter, Update
  <2>2. row \in IntentType /\ row.state = "FAILED" /\ row.retry = intent[i].retry
    BY <1>3 DEF IntentType, IntentState
  <2> HIDE DEF row
  <2> QED BY <1>4, <2>1, <2>2 DEF IntentState
<1> QED BY <1>5, <1>6, <1>7

LEMMA Querying ==
  ASSUME IInv, NEW p \in Jobs, QueryOrder(p)
  PROVE  \E item, j :
           /\ item \in job[p].batch
           /\ job' = [job EXCEPT ![p] = j] /\ j.batch = job[p].batch \ {item}
           /\ j.pc = "reconcile" \/ (j.pc = "write" /\ j.id = item.id)
<1>1. PICK item \in job[p].batch :
        LET status == orders[item.id][item.row.order]
            rest == Job("reconcile", job[p].batch \ {item})
        IN job' = [job EXCEPT ![p] =
             IF Unchanged(item.row, status) THEN rest
             ELSE [rest EXCEPT !.pc = "write", !.id = item.id, !.row = item.row,
                               !.to = status]]
  BY Zenon DEF QueryOrder
<1> DEFINE status == orders[item.id][item.row.order]
           rest == Job("reconcile", job[p].batch \ {item})
           j == [rest EXCEPT !.pc = "write", !.id = item.id, !.row = item.row,
                             !.to = status]
<1>2. /\ rest.pc = "reconcile" /\ rest.batch = job[p].batch \ {item}
      /\ j.pc = "write" /\ j.id = item.id /\ j.batch = job[p].batch \ {item}
  BY DEF Job
<1>3. job' = [job EXCEPT ![p] = rest] \/ job' = [job EXCEPT ![p] = j]
  BY <1>1
<1> HIDE DEF rest, j
<1> QED BY <1>2, <1>3

\* reconcilePlacedIntents: the rows it reads are in flight until it writes them.
LEMMA ReconcilingAlone ==
  ASSUME Alone, IInv, AloneIInv, NEW p \in Pollers,
         QueryOrder(p) \/ FillRefused(p) \/ WriteReconciled(p)
  PROVE  Kept
<1>0. QueryOrder(p) => job[p].pc = "reconcile" /\ UNCHANGED <<run, intent, history>>
  BY Zenon DEF QueryOrder, At
<1>1. UNCHANGED <<run, claims, manual, killed>>
  BY <1>0 DEF FillRefused, WriteReconciled, history
<1>2. CASE QueryOrder(p)
  <2>1. PICK item, j :
          /\ item \in job[p].batch
          /\ job' = [job EXCEPT ![p] = j] /\ j.batch = job[p].batch \ {item}
          /\ j.pc = "reconcile" \/ (j.pc = "write" /\ j.id = item.id)
    BY <1>2, TheHand, Querying
  <2>2. \A a \in job[p].batch : intent'[a.id].state \in InFlight
    BY <1>0, <1>2, TheHand DEF PollHolds
  <2>3. \A a, b \in job[p].batch : a.id = b.id => a = b
    BY TheHand DEF PollHolds
  <2>4. HoldsNext(j)
    BY <2>1, <2>2, <2>3 DEF HoldsNext, BeforeClaim, InExecution, OnIntent
  <2>5. \A k \in Intents : RowNext(k) /\ FinalRow(k)
    BY <1>0, <1>1, <1>2, RowStands
  <2> QED BY <1>1, <2>1, <2>4, <2>5, PollKeeps DEF AloneIInv
<1>3. CASE FillRefused(p) \/ WriteReconciled(p)
  <2>1. job[p].pc = "write" /\ job[p].pc \in OnIntent
    BY <1>3 DEF FillRefused, WriteReconciled, At, OnIntent
  <2>2. PICK i \in Intents : i = Id(p)
    BY <2>1, TheHand
  <2>3. /\ intent[i] \in IntentType /\ intent[i].state \in InFlight
        /\ Read(p).state \in InFlight
    BY <2>1, <2>2, TheHand DEF PollHolds, Id, Read, IInv, GoodJob
  <2> DEFINE j == Job("reconcile", job[p].batch)
  <2>4. j.pc = "reconcile" /\ j.batch = job[p].batch
    BY DEF Job
  <2>5. job' = [job EXCEPT ![p] = j]
    BY <1>3, TheHand DEF FillRefused, WriteReconciled, Return
  <2> HIDE DEF j
  <2>6. /\ \A k \in Intents : k = i \/ intent'[k] = intent[k]
        /\ RowNext(i) /\ FinalRow(i)
    <3>1. CASE FillRefused(p)
      BY <1>1, <3>1, RowStands DEF FillRefused
    <3>2. CASE WriteReconciled(p)
      <4> DEFINE s == Reconciled(Read(p), job[p].to)
                 row == [intent[i] EXCEPT !.state = s, !.cum = CumOf(job[p].to)]
      <4>1. intent' = [intent EXCEPT ![i] = row]
        BY <2>2, <3>2, TheHand DEF WriteReconciled
      <4>2. s \in IntentState \ {"PENDING"}
        BY <2>3 DEF Reconciled, InFlight, IntentState
      <4>3. row.state = s /\ row.retry = intent[i].retry
        BY <2>3 DEF IntentType
      <4> HIDE DEF row, s
      <4>4. intent'[i] = row /\ \A k \in Intents : k = i \/ intent'[k] = intent[k]
        BY <4>1, TheHand
      <4>5. RowNext(i) /\ FinalRow(i)
        BY <1>1, <2>3, <4>2, <4>3, <4>4, RowMoves
      <4> QED BY <4>4, <4>5
    <3> QED BY <1>3, <3>1, <3>2
  <2>7. HoldsNext(j)
    BY <1>1, <2>1, <2>2, <2>4, <2>6, HandStands
  <2>8. \A k \in Intents : RowNext(k) /\ FinalRow(k)
    BY <1>1, <2>6, RowStands
  <2> QED BY <1>1, <2>5, <2>7, <2>8, PollKeeps DEF AloneIInv
<1> QED BY <1>2, <1>3

LEMMA FaultsAlone ==
  ASSUME Alone, IInv, AloneIInv, NEW p \in Pollers,
         WorkerCrash(p) \/ DatabaseError(p) \/ EventError(p)
  PROVE  Kept
<1>1. UNCHANGED <<run, claims, manual, killed>>
  BY DEF WorkerCrash, DatabaseError, EventError, history
<1>2. killed' => run' = "ENDED"
  BY <1>1 DEF AloneIInv
<1>3. ASSUME intent' = intent PROVE \A k \in Intents : RowNext(k) /\ FinalRow(k)
  BY <1>1, <1>3, RowStands
<1>4. ASSUME NEW j, j.batch = {}, j.pc \in {"idle", "process"},
             job' = [job EXCEPT ![p] = j], intent' = intent
      PROVE  Kept
  <2>1. HoldsNext(j)
    BY <1>4 DEF HoldsNext, OnIntent, BeforeClaim, InExecution
  <2> QED BY <1>2, <1>3, <1>4, <2>1, PollKeeps
<1>5. CASE WorkerCrash(p)
  BY <1>4, <1>5 DEF WorkerCrash, Idle, Job
<1>6. ASSUME job[p].pc \in {"simulate", "record"}, Failed(p, {"timeout", "unknown"}),
             \A k \in Intents : k = Id(p) \/ intent'[k] = intent[k],
             intent'[Id(p)].state = intent[Id(p)].state,
             intent'[Id(p)].retry = intent[Id(p)].retry
      PROVE  Kept
  <2>1. PICK pc \in {"transient", "permanent"} :
          job' = [job EXCEPT ![p] = [job[p] EXCEPT !.pc = pc]]
    BY <1>6, FailedGoes, TheHand DEF Goto
  <2> DEFINE j == [job[p] EXCEPT !.pc = pc]
  <2>2. j.pc = pc /\ j.batch = job[p].batch /\ j.id = Id(p) /\ j.row = Read(p)
    BY TheHand DEF JobType, Id, Read
  <2>3. job' = [job EXCEPT ![p] = j]
    BY <2>1
  <2> HIDE DEF j
  <2> QED BY <1>1, <1>6, <2>2, <2>3, GoesOn DEF InExecution
<1>7. CASE DatabaseError(p)
  <2>1. intent' = intent
    BY <1>7 DEF DatabaseError
  <2>2. CASE job[p].pc \in {"simulate", "record"} /\ Failed(p, {"timeout", "unknown"})
    BY <1>6, <2>1, <2>2
  <2>3. CASE job' = [job EXCEPT ![p] = Job("process", {})]
    BY <1>4, <2>1, <2>3 DEF Job
  <2>4. CASE At(p, "write") /\ Return(p, "reconcile")
    <3> DEFINE j == Job("reconcile", job[p].batch)
    <3>1. j.pc = "reconcile" /\ j.batch = job[p].batch
      BY DEF Job
    <3>2. job' = [job EXCEPT ![p] = j]
      BY <2>4, TheHand DEF Return
    <3> HIDE DEF j
    <3>3. HoldsNext(j)
      BY <1>1, <2>1, <2>4, <3>1, HandStands DEF At, OnIntent
    <3> QED BY <1>2, <1>3, <2>1, <3>2, <3>3, PollKeeps
  <2> QED BY <1>7, <2>2, <2>3, <2>4 DEF DatabaseError
<1>8. CASE EventError(p)
  <2>1. PICK i \in Intents : i = Id(p)
    BY <1>8, TheHand DEF EventError, At, OnIntent, InExecution
  <2>2. intent' = [intent EXCEPT ![i] = [intent[i] EXCEPT !.order = job[p].order]]
    BY <1>8, <2>1, TheHand DEF EventError
  <2>3. intent'[i].state = intent[i].state /\ intent'[i].retry = intent[i].retry
    BY <2>2, TheHand DEF IntentType
  <2> QED BY <1>6, <1>8, <2>1, <2>2, <2>3 DEF EventError, At
<1> QED BY <1>5, <1>7, <1>8

LEMMA PollAlone ==
  ASSUME Alone, IInv, AloneIInv, NEW p \in Pollers, PollStep(p)
  PROVE  Kept
BY StartingAlone, FetchingAlone, TakingAlone, ClaimingAlone, PlacingAlone,
   SettlingAlone, ReconcilingAlone DEF PollStep

\* A step in which the poll stands still and its rows are cancelled at most.
LEMMA OutsideKeeps ==
  ASSUME IInv, AloneIInv, \A p \in Pollers : job'[p] = job[p],
         killed' => run' = "ENDED",
         \A i \in Intents :
           \/ UNCHANGED <<intent[i], killed>>
           \/ UNCHANGED intent[i] /\ intent[i].state # "PENDING"
           \/ /\ intent[i].state = "PENDING" /\ intent'[i].state = "CANCELLED"
              /\ intent'[i].retry = intent[i].retry
           \/ intent[i].state \in {"NO_ROW", "FAILED"},
         \A i \in Intents : RowHolds(i)' /\ FinalRow(i)
  PROVE  Kept
<1>1. ASSUME NEW i \in Intents, NEW read, Waits(i, read) PROVE WaitsNext(i, read)
  BY <1>1 DEF Waits, WaitsNext
<1>2. ASSUME NEW i \in Intents, intent[i].state \in InFlight
      PROVE  intent'[i] = intent[i]
  BY <1>2 DEF InFlight
<1>3. ASSUME NEW p \in Pollers PROVE PollHolds(job[p])'
  <2>1. PICK j : j = job[p]
    OBVIOUS
  <2>2. PollHolds(j) /\ j \in JobType /\ (j.pc \in OnIntent => j.id \in Intents)
    BY <2>1, TheHand DEF Id
  <2>3. \A item \in j.batch : item.id \in Intents
    BY <2>2 DEF JobType
  <2>4. HoldsNext(j)
    <3>1. j.pc \in {"process"} \cup BeforeClaim \cup InExecution =>
            \A item \in j.batch : WaitsNext(item.id, item.row)
      BY <1>1, <2>2, <2>3 DEF PollHolds
    <3>2. j.pc \in BeforeClaim => WaitsNext(j.id, j.row)
      BY <1>1, <2>2 DEF PollHolds, BeforeClaim, OnIntent
    <3>3. j.pc \in InExecution => /\ intent'[j.id].state = "PLACED"
                                 /\ intent'[j.id].retry = j.row.retry
      BY <1>2, <2>2 DEF PollHolds, InFlight, OnIntent
    <3>4. j.pc \in {"reconcile", "write"} =>
            \A item \in j.batch : intent'[item.id].state \in InFlight
      BY <1>2, <2>2, <2>3 DEF PollHolds
    <3>5. j.pc = "write" => intent'[j.id].state \in InFlight
      BY <1>2, <2>2 DEF PollHolds, OnIntent
    <3> QED BY <2>2, <3>1, <3>2, <3>3, <3>4, <3>5 DEF HoldsNext, PollHolds
  <2>5. job'[p] = j
    BY <2>1
  <2> QED BY <2>4, <2>5 DEF HoldsNext, WaitsNext, PollHolds, Waits
<1> QED BY <1>3 DEF Kept, AloneIInv, Rested

\* A request that no retry comes of or ends: its rows are cancelled at most.
LEMMA RequestCancels ==
  ASSUME Alone, IInv, AloneIInv, NEW h \in Handlers,
         NEW S, Cancelled(S) \/ intent' = intent,
         \/ killed' = killed
         \/ Cancelled(Intents),
         killed' => run' = "ENDED", UNCHANGED <<claims, manual>>,
         NEW j, job' = [job EXCEPT ![h] = j],
         job[h].pc # "retry", j.pc # "retry"
  PROVE  Kept
<1>1. /\ job \in [Jobs -> JobType] /\ h \in Jobs
      /\ \A p \in Pollers : p \in Jobs /\ p # h
  BY IntentConstants DEF IInv, TypeOK, Jobs
<1>2. /\ \A p \in Pollers : job'[p] = job[p]
      /\ job'[h] = j
  BY <1>1
<1>3. \A i \in Intents : ~Retrying(i) /\ ~Retrying(i)'
  BY <1>2 DEF Retrying, At, Id, Alone
<1>4. PICK T : Cancelled(T) \/ intent' = intent
  OBVIOUS
<1>5. \A i \in Intents : RowNext(i) /\ FinalRow(i)
  BY RowStands, CancelRests
<1>6. \A i \in Intents : RowHolds(i)'
  BY <1>3, <1>5 DEF RowNext, RowHolds, ToClaim
<1>7. ASSUME NEW i \in Intents
      PROVE  \/ UNCHANGED <<intent[i], killed>>
             \/ UNCHANGED intent[i] /\ intent[i].state # "PENDING"
             \/ /\ intent[i].state = "PENDING" /\ intent'[i].state = "CANCELLED"
                /\ intent'[i].retry = intent[i].retry
  <2>1. CASE killed' = killed /\ Cancelled(S)
    BY <2>1, CancelRests DEF Cancelled
  <2>2. CASE Cancelled(Intents)
    BY <2>2, CancelRests
  <2>3. CASE intent' = intent /\ killed' = killed
    BY <2>3
  <2> QED BY <2>1, <2>2, <2>3
<1> QED BY <1>2, <1>5, <1>6, <1>7, OutsideKeeps

\* A manual retry: the row is FAILED until the request writes it, for the poll
\* has no FAILED row in hand.
LEMMA RetryingAlone ==
  ASSUME Alone, IInv, AloneIInv, NEW h \in Handlers,
         RetryWrite(h) \/ \E i \in Intents : RetryRead(h, i)
  PROVE  Kept
<1>1. /\ job \in [Jobs -> JobType] /\ h \in Jobs
      /\ intent \in [Intents -> IntentType] /\ claims \in [Intents -> Nat]
      /\ manual \in [Intents -> Nat]
      /\ \A p \in Pollers : p \in Jobs /\ p # h
      /\ \A g \in Handlers : g = h
  BY IntentConstants DEF IInv, TypeOK, Jobs, Alone
<1>2. /\ \A p \in Pollers : job'[p] = job[p]
      /\ UNCHANGED <<run, claims, killed>>
  BY <1>1 DEF RetryWrite, RetryRead, history
<1>3. killed' => run' = "ENDED"
  BY <1>2 DEF AloneIInv
<1>4. CASE RetryWrite(h)
  <2>1. job[h].pc = "retry" /\ job'[h].pc # "retry" /\ manual' = manual
    BY <1>1, <1>4 DEF RetryWrite, At, Idle, Job, history
  <2>2. PICK i \in Intents : i = Id(h)
    BY <1>1, <2>1, OnIt DEF OnIntent
  <2>3. Retrying(i) /\ \A k \in Intents : (Retrying(k) <=> k = i) /\ ~Retrying(k)'
    BY <1>1, <2>1, <2>2 DEF Retrying, At, Id
  <2>4. intent[i].state = "FAILED" /\ manual[i] > 0
    BY <2>3 DEF AloneIInv, RowHolds
  <2>5. /\ intent'[i].state = "PENDING" /\ intent'[i].retry = intent[i].retry
        /\ \A k \in Intents : k = i \/ intent'[k] = intent[k]
    BY <1>1, <1>4, <2>2 DEF RetryWrite, Update, IntentType
  <2>6. RowHolds(i)'
    BY <1>2, <2>1, <2>3, <2>5 DEF AloneIInv, RowHolds, ToClaim
  <2>7. ASSUME NEW k \in Intents, k # i PROVE RowHolds(k)'
    BY <1>2, <2>1, <2>3, <2>5, <2>7 DEF AloneIInv, RowHolds, ToClaim
  <2>8. \A k \in Intents : FinalRow(k)
    BY <2>4, <2>5 DEF FinalRow
  <2> QED BY <1>2, <1>3, <2>4, <2>5, <2>6, <2>7, <2>8, OutsideKeeps
<1>5. ASSUME NEW i \in Intents, RetryRead(h, i) PROVE Kept
  <2>1. /\ intent' = intent /\ intent[i].state = "FAILED"
        /\ job[h] = Idle /\ manual' = [manual EXCEPT ![i] = @ + 1]
        /\ job' = [job EXCEPT ![h] = [Job("retry", {}) EXCEPT !.id = i]]
    BY <1>5 DEF RetryRead, Begin
  <2>2. job[h].pc # "retry" /\ job'[h].pc = "retry" /\ job'[h].id = i
    BY <1>1, <2>1 DEF Idle, Job
  <2>3. \A k \in Intents : ~Retrying(k) /\ (Retrying(k)' <=> k = i)
    BY <1>1, <2>2 DEF Retrying, At, Id
  <2>4. /\ manual'[i] = manual[i] + 1 /\ manual[i] \in Nat
        /\ \A k \in Intents : k = i \/ manual'[k] = manual[k]
    BY <1>1, <2>1
  <2>5. RowHolds(i)'
    <3>1. /\ claims[i] \in Nat /\ intent[i].retry \in Nat
          /\ intent[i].retry <= MaxRetries
          /\ claims[i] + 0 <= intent[i].retry + 1 + manual[i]
      BY <1>1, <2>1, <2>3 DEF AloneIInv, RowHolds, ToClaim, IntentType
    <3>2. claims[i] + 1 <= intent[i].retry + 1 + (manual[i] + 1)
      BY <2>4, <3>1
    <3> QED BY <1>2, <2>1, <2>3, <2>4, <3>1, <3>2 DEF RowHolds, ToClaim
  <2>6. ASSUME NEW k \in Intents, k # i PROVE RowHolds(k)'
    BY <1>2, <2>1, <2>3, <2>4, <2>6 DEF AloneIInv, RowHolds, ToClaim
  <2>7. \A k \in Intents : FinalRow(k)
    BY <2>1 DEF FinalRow
  <2> QED BY <1>2, <1>3, <2>1, <2>5, <2>6, <2>7, OutsideKeeps
<1> QED BY <1>4, <1>5

LEMMA RequestsAlone ==
  ASSUME Alone, IInv, AloneIInv, NEW h \in Handlers, Request(h) \/ Respond(h)
  PROVE  Kept
<1>1. PatchTargets = {} /\ h \in Jobs /\ job[h] \in JobType /\ GoodJob(job[h])
  BY DEF Alone, IInv, TypeOK, Jobs
<1>2. CASE RetryWrite(h) \/ \E i \in Intents : RetryRead(h, i)
  BY <1>2, RetryingAlone
<1>3. CASE PatchWrite(h) \/ \E i \in Intents, to \in PatchTargets : PatchRead(h, i, to)
  BY <1>1, <1>3 DEF PatchWrite, GoodJob, At
<1>4. CASE SweepFind(h)
  <2> DEFINE j == Job("sweep", Rows(InState({"PENDING"}) \cap old))
  <2>1. job' = [job EXCEPT ![h] = j] /\ job[h] = Idle
    BY <1>4 DEF SweepFind, Begin
  <2>2. j.pc # "retry" /\ job[h].pc # "retry"
    BY <2>1 DEF Job, Idle
  <2> HIDE DEF j
  <2>3. UNCHANGED <<run, intent, claims, manual, killed>>
    BY <1>4 DEF SweepFind, history
  <2> QED BY <2>1, <2>2, <2>3, RequestCancels DEF AloneIInv
<1>5. CASE KillRuns(h)
  <2> DEFINE j == [job[h] EXCEPT !.pc = "kill"]
  <2>1. job' = [job EXCEPT ![h] = j] /\ job[h] = Idle
    BY <1>1, <1>5 DEF KillRuns, Begin, Goto, IInv, TypeOK
  <2>2. j.pc # "retry" /\ job[h].pc # "retry"
    BY <1>1, <2>1 DEF Job, Idle, JobType
  <2> HIDE DEF j
  <2>3. UNCHANGED <<intent, claims, manual, killed>> /\ ~killed
    BY <1>5 DEF KillRuns, history
  <2> QED BY <2>1, <2>2, <2>3, RequestCancels
<1>6. CASE SweepCancel(h)
  <2>1. PICK S : Cancelled(S)
    BY <1>6 DEF SweepCancel
  <2>2. /\ job' = [job EXCEPT ![h] = Idle] /\ job[h].pc # "retry"
        /\ UNCHANGED <<run, claims, manual, killed>>
    BY <1>6 DEF SweepCancel, At, history
  <2>3. Idle.pc # "retry"
    BY DEF Idle, Job
  <2> QED BY <2>1, <2>2, <2>3, RequestCancels DEF AloneIInv
<1>7. CASE KillIntents(h)
  <2>1. /\ Cancelled(Intents) /\ killed' = (run = "ENDED") /\ run' = run
        /\ job' = [job EXCEPT ![h] = Idle] /\ job[h].pc # "retry"
        /\ UNCHANGED <<claims, manual>>
    BY <1>7 DEF KillIntents, At
  <2>2. Idle.pc # "retry"
    BY DEF Idle, Job
  <2>3. killed' => run' = "ENDED"
    BY <2>1
  <2> QED BY <2>1, <2>2, <2>3, RequestCancels
<1> QED BY <1>2, <1>3, <1>4, <1>5, <1>6, <1>7 DEF Request, Respond

\* An insert, time, the exchange and the end of the run.
LEMMA OthersAlone ==
  ASSUME IInv, AloneIInv,
         \/ UNCHANGED vars \/ EndRun
         \/ \E i \in Intents : \/ CreateIntent(i) \/ GrowOld(i)
                              \/ \E k \in Orders(i) : OrderMoves(i, k)
  PROVE  Kept
<1>1. /\ job' = job /\ UNCHANGED <<claims, manual, killed>>
      /\ run' = run \/ run' = "ENDED"
  BY DEF vars, EndRun, CreateIntent, GrowOld, OrderMoves, history
<1>2. killed' => run' = "ENDED"
  BY <1>1 DEF AloneIInv
<1>3. \A i \in Intents : Retrying(i)' <=> Retrying(i)
  BY <1>1 DEF Retrying, At, Id
<1>4. ASSUME NEW i \in Intents, intent'[i] = intent[i]
      PROVE  RowHolds(i)' /\ FinalRow(i)
  BY <1>1, <1>3, <1>4 DEF AloneIInv, RowHolds, ToClaim, FinalRow
<1>5. CASE intent' = intent
  BY <1>1, <1>2, <1>4, <1>5, OutsideKeeps
<1>6. ASSUME NEW i \in Intents, CreateIntent(i) PROVE Kept
  <2>1. /\ intent[i].state = "NO_ROW" /\ intent[i].retry = 0
        /\ intent' = [intent EXCEPT ![i] = NewIntent("PENDING")]
    BY <1>6 DEF CreateIntent, NoRow, NewIntent
  <2>2. /\ intent'[i].state = "PENDING" /\ intent'[i].retry = 0
        /\ \A k \in Intents : k = i \/ intent'[k] = intent[k]
    BY <2>1 DEF IInv, TypeOK, NewIntent
  <2>3. ~Retrying(i)
    BY <2>1 DEF AloneIInv, RowHolds
  <2>4. RowHolds(i)'
    BY <1>1, <1>3, <2>1, <2>2, <2>3 DEF AloneIInv, RowHolds, ToClaim
  <2>5. FinalRow(i)
    BY <2>1 DEF FinalRow, TerminalIntents
  <2> QED BY <1>1, <1>2, <1>4, <2>1, <2>2, <2>4, <2>5, OutsideKeeps
<1> QED BY <1>5, <1>6 DEF vars, EndRun, GrowOld, OrderMoves

LEMMA AloneStep == Alone /\ IInv /\ AloneIInv /\ [Next]_vars => Kept
BY PollAlone, FaultsAlone, RequestsAlone, OthersAlone DEF Next

LEMMA AloneInit == Init => AloneIInv
BY IntentConstants DEF Init, AloneIInv, PollHolds, RowHolds, ToClaim, Retrying, At, Idle,
   Job, NoRow, NewIntent, OnIntent, BeforeClaim, InExecution, Jobs

\* With one poll and one request at a time the inductive invariant holds.
THEOREM AloneInvariant ==
  ASSUME Alone
  PROVE  Spec => []AloneIInv
<1>1. IInv /\ AloneIInv /\ [Next]_vars => AloneIInv'
  BY AloneStep DEF Kept
<1> QED BY <1>1, AloneInit, InductiveInvariant, PTL DEF Spec

LEMMA Bounded == IInv /\ AloneIInv => RetriesBounded
<1> SUFFICES ASSUME IInv, AloneIInv, NEW i \in Intents
             PROVE  claims[i] <= MaxRetries + 1 + manual[i]
  BY DEF RetriesBounded
<1>1. /\ claims[i] \in Nat /\ manual[i] \in Nat /\ intent[i].retry \in Nat
      /\ MaxRetries \in Nat
  BY IntentConstants DEF IInv, TypeOK, IntentType
<1> QED BY <1>1 DEF AloneIInv, RowHolds, ToClaim

\* Nothing executes an intent more often than MAX_RETRIES + 1 times, a manual
\* retry (PATCH /intents/:id of a FAILED one) giving it one execution more.
THEOREM RetriesAreBounded ==
  ASSUME Alone
  PROVE  Spec => []RetriesBounded
BY Bounded, AloneInvariant, InductiveInvariant, PTL

LEMMA NoClaimOnceKilled ==
  IInv /\ AloneIInv => \A p \in Pollers : Claim(p) => ~killed
<1> SUFFICES ASSUME IInv, AloneIInv, NEW p \in Pollers, Claim(p)
             PROVE  ~killed
  OBVIOUS
<1>1. job[p].pc \in BeforeClaim /\ ~Unclaimable(p)
  BY DEF Claim, At, BeforeClaim
<1> QED BY <1>1, TheHand DEF PollHolds, Waits, Unclaimable, Id

\* Once a kill request has ended the run and responded, the poll claims none of
\* the intents it read before: they are all CANCELLED.
THEOREM KillEnds ==
  ASSUME Alone
  PROVE  Spec => KillIsFinal
<1>1. IInv /\ AloneIInv /\ [Next]_vars => [\A p \in Pollers : Claim(p) => ~killed]_vars
  BY NoClaimOnceKilled
<1> QED BY <1>1, AloneInvariant, InductiveInvariant, PTL DEF Spec, KillIsFinal

\* A terminal intent keeps its state, but for a manual retry of a FAILED one:
\* what the poll writes back is a row that is still PENDING or in flight.
THEOREM TerminalStays ==
  ASSUME Alone
  PROVE  Spec => TerminalIsFinal
<1>1. IInv /\ AloneIInv /\ [Next]_vars =>
        [\A i \in Intents : intent[i].state \in TerminalIntents =>
           \/ intent'[i].state = intent[i].state
           \/ intent[i].state = "FAILED" /\ manual[i] > 0]_vars
  BY AloneStep DEF Kept, Rested, FinalRow
<1> QED BY <1>1, AloneInvariant, InductiveInvariant, PTL DEF Spec, TerminalIsFinal
=============================================================================
