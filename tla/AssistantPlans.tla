----------------------------- MODULE AssistantPlans -----------------------------
(* The assistant: a plan of actions asked from the AI provider, parsed by       *)
(* lib/ai/planParser.ts, stored, and executed one action per request            *)
(* (POST /ai/plan and POST /ai/execute of routes/ai.ts).                         *)
EXTENDS Integers, Sequences, FiniteSets

CONSTANTS RawPlans,        \* what the provider may answer: sequences of items
          Clients,         \* execute requests that can be served at once
          NoId,            \* the actionId of an item that has none
          MaxEffects,      \* bound: effects of one action
          MaxFaults        \* bound: requests that die or statements that fail

VARIABLES
  plan,        \* the stored actions; the server's id of an action is its index
  raw,         \* the provider's answer they were parsed from
  audit,       \* AiActionAudit rows in the order they were inserted
  exec,        \* request -> where it is, its action and audit row
  effects,     \* action -> how often it took effect (history)
  racing,      \* two requests executed one action at once (history)
  faults

vars == <<plan, raw, audit, exec, effects, racing, faults>>

Item(id, type, deps, target) ==
  [id |-> id, type |-> type, deps |-> deps, target |-> target]
NoExec == [pc |-> "idle", action |-> 0, row |-> 0, input |-> "none"]

-----------------------------------------------------------------------------
(* parsePlanResponse                                                         *)

\* Pass 1: the provider's id -> index; of two equal ids the last one counts.
ServerId(items, id) ==
  LET same == {i \in DOMAIN items : items[i].id = id}
  IN IF id = NoId \/ same = {} THEN 0
     ELSE CHOOSE i \in same : \A k \in same : k <= i

\* Pass 2: dependencies the plan does not have are left out; a version without
\* a strategy takes the one of the first CREATE_STRATEGY it depends on.
DependsOn(items, item) ==
  {ServerId(items, item.deps[k]) : k \in DOMAIN item.deps} \ {0}

Creates(items, item) ==
  {k \in DOMAIN item.deps :
     \E i \in DOMAIN items : /\ i = ServerId(items, item.deps[k])
                             /\ items[i].type = "CREATE_STRATEGY"}

Target(items, item) ==
  LET from == Creates(items, item)
      first == CHOOSE k \in from : \A l \in from : k <= l
  IN IF item.type = "CREATE_STRATEGY_VERSION" /\ item.target # "context" /\ from # {}
     THEN <<"from", ServerId(items, item.deps[first])>> ELSE <<item.target>>

Parse(items) ==
  [i \in DOMAIN items |-> [type |-> items[i].type,
                           deps |-> DependsOn(items, items[i]),
                           target |-> Target(items, items[i])]]

-----------------------------------------------------------------------------
Init ==
  /\ plan = <<>> /\ raw = <<>> /\ audit = <<>>
  /\ exec = [h \in Clients |-> NoExec]
  /\ effects = <<>>
  /\ racing = FALSE /\ faults = 0

\* POST /ai/plan: a provider error, a timeout or an answer the parser refuses
\* is answered 4xx or 5xx and stores nothing; otherwise a plan is stored.
RequestPlan ==
  /\ plan = <<>>
  /\ \E items \in RawPlans :
       /\ raw' = items /\ plan' = Parse(items)
       /\ effects' = [i \in DOMAIN items |-> 0]
  /\ UNCHANGED <<audit, exec, racing, faults>>

-----------------------------------------------------------------------------
(* POST /ai/execute                                                          *)

Rows(a) == {k \in DOMAIN audit : audit[k].action = a}
Executed(a) == {k \in Rows(a) : audit[k].status = "EXECUTED"}
At(h, pc) == exec[h].pc = pc
Goto(h, pc) == exec' = [exec EXCEPT ![h].pc = pc]
Reply(h) == exec' = [exec EXCEPT ![h] = NoExec]
stored == <<plan, raw, effects, racing, faults>>

\* The plan is loaded, within its 30 minutes, and has the action.
Load(h, a) ==
  /\ At(h, "idle") /\ a \in DOMAIN plan
  /\ exec' = [exec EXCEPT ![h] = [pc |-> "audit", action |-> a, row |-> 0, input |-> "none"]]
  /\ racing' = (racing \/ \E k \in Clients \ {h} : exec[k].action = a)
  /\ UNCHANGED <<plan, raw, audit, effects, faults>>

\* findFirst takes some row of the action, if it has one; EXECUTED is a 409.
FindAudit(h) ==
  LET rows == Rows(exec[h].action) IN
  /\ At(h, "audit")
  /\ \E k \in IF rows = {} THEN {0} ELSE rows :
       IF k # 0 /\ audit[k].status = "EXECUTED" THEN Reply(h)
       ELSE exec' = [exec EXCEPT ![h].pc = "deps", ![h].row = k]
  /\ UNCHANGED <<stored, audit>>

CheckProposed(h) ==     \* mutant: a dependency that was only proposed will do
  /\ At(h, "deps")
  /\ IF \A d \in plan[exec[h].action].deps : Rows(d) # {}
     THEN Goto(h, "resolve") ELSE Reply(h)
  /\ UNCHANGED <<stored, audit>>

\* Every dependency must have an EXECUTED row, or 409.
CheckDependencies(h) ==
  /\ At(h, "deps")
  /\ IF \A d \in plan[exec[h].action].deps : Executed(d) # {}
     THEN Goto(h, "resolve") ELSE Reply(h)
  /\ UNCHANGED <<stored, audit>>

\* resolvePlaceholders: __FROM:..__ takes the result of an EXECUTED row, or
\* stays as it is.  Then the row that was found is used again, or a PROPOSED
\* one is inserted.
Resolve(target) == IF Len(target) = 1 THEN target[1]
                   ELSE IF Executed(target[2]) # {} THEN "context" ELSE "placeholder"
ProposeAudit(h) ==
  LET row == IF exec[h].row # 0 THEN exec[h].row ELSE Len(audit) + 1 IN
  /\ At(h, "resolve")
  /\ audit' = IF row \in DOMAIN audit THEN audit
              ELSE Append(audit, [action |-> exec[h].action, status |-> "PROPOSED"])
  /\ exec' = [exec EXCEPT ![h] =
                [pc |-> "dispatch", action |-> exec[h].action, row |-> row,
                 input |-> Resolve(plan[exec[h].action].target)]]
  /\ UNCHANGED stored

\* dispatchAction: it takes effect, or throws.  A second strategy of one name
\* and a version of a strategy that is not there always throw.
Dispatch(h) ==
  LET a == exec[h].action IN
  /\ At(h, "dispatch") /\ effects[a] < MaxEffects
  /\ plan[a].type = "CREATE_STRATEGY" => effects[a] = 0
  /\ plan[a].type = "CREATE_STRATEGY_VERSION" => exec[h].input = "context"
  /\ effects' = [effects EXCEPT ![a] = @ + 1]
  /\ Goto(h, "executed")
  /\ UNCHANGED <<plan, raw, audit, racing, faults>>

DispatchThrows(h) == At(h, "dispatch") /\ Goto(h, "failed") /\ UNCHANGED <<stored, audit>>

\* The status is written whatever another request made of the row.
MarkAudit(h) ==
  /\ exec[h].pc \in {"executed", "failed"}
  /\ audit' = [audit EXCEPT ![exec[h].row].status =
                 IF At(h, "executed") THEN "EXECUTED" ELSE "FAILED"]
  /\ Reply(h)
  /\ UNCHANGED stored

RequestDies(h) ==
  /\ ~At(h, "idle") /\ faults < MaxFaults /\ faults' = faults + 1
  /\ Reply(h)
  /\ UNCHANGED <<plan, raw, audit, effects, racing>>

-----------------------------------------------------------------------------
Next == \/ RequestPlan
        \/ \E h \in Clients : \/ \E a \in DOMAIN plan : Load(h, a)
                              \/ FindAudit(h) \/ CheckDependencies(h)
                              \/ ProposeAudit(h)
                              \/ Dispatch(h) \/ DispatchThrows(h)
                              \/ MarkAudit(h) \/ RequestDies(h)

Spec == Init /\ [][Next]_vars

-----------------------------------------------------------------------------
(* Properties                                                                *)

TypeOK ==
  /\ DOMAIN effects = DOMAIN plan /\ DOMAIN raw = DOMAIN plan
  /\ \A k \in DOMAIN audit : /\ audit[k].action \in DOMAIN plan
                             /\ audit[k].status \in {"PROPOSED", "EXECUTED", "FAILED"}
  /\ \A h \in Clients :
       /\ exec[h].pc \in {"idle", "audit", "deps", "resolve",
                          "dispatch", "executed", "failed"}
       /\ exec[h].action \in DOMAIN plan \cup {0} /\ exec[h].row \in 0..Len(audit)

\* An action takes effect once: an EXECUTED row keeps every later request out,
\* unless two requests raced or one died after the action took effect.
EffectOnce == ~racing /\ faults = 0 => \A a \in DOMAIN plan : effects[a] <= 1

\* Whatever races and dies, no action takes effect before those it depends on.
DependenciesFirst ==
  \A a \in DOMAIN plan : effects[a] > 0 => \A d \in plan[a].deps : effects[d] > 0

\* The provider's ids are distinct and its dependencies point backwards.
Orderly(items) ==
  /\ \A i, k \in DOMAIN items : items[i].id = items[k].id /\ items[i].id # NoId => i = k
  /\ \A i \in DOMAIN items : \A k \in i..Len(items) :
       \A d \in DOMAIN items[i].deps : items[k].id # items[i].deps[d]

\* The actions of an orderly plan do not wait for each other: as long as one is
\* not done, one can be requested, whatever raced and died.
PlanAdvances ==
  plan # <<>> /\ Orderly(raw) =>
    \/ \A a \in DOMAIN plan : Executed(a) # {}
    \/ \E a \in DOMAIN plan : Executed(a) = {} /\ \A d \in plan[a].deps : Executed(d) # {}
==============================================================================
