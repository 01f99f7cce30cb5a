------------------------------ MODULE LabVersions ------------------------------
(* Versions in the Lab (routes/lab.ts): the compile request saves a graph,     *)
(* finds or makes its strategy and adds a StrategyVersion and a                *)
(* StrategyGraphVersion; the baseline request moves the baseline flag.  Every  *)
(* access is a statement of its own, none is in a transaction.  The assistant  *)
(* adds versions too (lib/actions/strategies.ts): its request is one that       *)
(* finds the strategy and stops after the StrategyVersion.                     *)
EXTENDS Integers, FiniteSets, FiniteSetsExt

CONSTANTS Editors,              \* requests that can be served at once
          Graphs, Names,        \* strategy graphs; strategy names
          NameOf,               \* graph -> the strategy its compilation is for
          MaxVersion            \* bound: versions a strategy gets

VARIABLES
  strategies,      \* the names that have a Strategy row
  versions,        \* name -> the version numbers of its StrategyVersions
  graphVersions,   \* graph -> its StrategyGraphVersions
  edit,            \* request -> where it is and what it has read
  overlap          \* two baseline requests of a strategy overlapped (history)

vars == <<strategies, versions, graphVersions, edit, overlap>>

GraphVersion == [number : 1..MaxVersion, version : 1..MaxVersion, baseline : BOOLEAN]
NoEdit == [pc |-> "idle", graph |-> CHOOSE g \in Graphs : TRUE, number |-> 0,
           version |-> 0, found |-> {}]

Numbers(g) == {gv.number : gv \in graphVersions[g]}
At(h, pc) == edit[h].pc = pc
Name(h) == NameOf[edit[h].graph]
Reply(h) == edit' = [edit EXCEPT ![h] = NoEdit]
Goto(h, pc) == edit' = [edit EXCEPT ![h].pc = pc]

Init ==
  /\ strategies = {}
  /\ versions = [n \in Names |-> {}]
  /\ graphVersions = [g \in Graphs |-> {}]
  /\ edit = [h \in Editors |-> NoEdit]
  /\ overlap = FALSE

-----------------------------------------------------------------------------
(* POST /lab/graphs/:id/compile                                              *)

\* The graph is saved; its strategy is looked up by its unique name.
CompileStart(h, g) ==
  /\ At(h, "idle")
  /\ edit' = [edit EXCEPT ![h].graph = g,
                ![h].pc = IF NameOf[g] \in strategies THEN "compile" ELSE "create"]
  /\ UNCHANGED <<strategies, versions, graphVersions, overlap>>

\* A name taken in between violates workspaceId_name: 500.
CreateStrategy(h) ==
  /\ At(h, "create")
  /\ IF Name(h) \in strategies THEN Reply(h) ELSE Goto(h, "compile")
  /\ strategies' = strategies \cup {Name(h)}
  /\ UNCHANGED <<versions, graphVersions, overlap>>

\* compileGraph refuses the graph (422) or the latest version is read.
CompileFails(h) ==
  /\ At(h, "compile") /\ Reply(h)
  /\ UNCHANGED <<strategies, versions, graphVersions, overlap>>

FindLatestVersion(h) ==
  /\ At(h, "compile")
  /\ LET last == Max(versions[Name(h)] \cup {0}) IN
       /\ last < MaxVersion
       /\ edit' = [edit EXCEPT ![h].pc = "version", ![h].version = last + 1]
  /\ UNCHANGED <<strategies, versions, graphVersions, overlap>>

\* A version number taken in between violates (strategyId, version): 500.
CreateVersion(h) ==
  /\ At(h, "version")
  /\ IF edit[h].version \in versions[Name(h)] THEN Reply(h) ELSE Goto(h, "count")
  /\ versions' = [versions EXCEPT ![Name(h)] = @ \cup {edit[h].version}]
  /\ UNCHANGED <<strategies, graphVersions, overlap>>

CountGraphVersions(h) ==
  /\ At(h, "count")
  /\ edit' = [edit EXCEPT ![h].pc = "link",
                          ![h].number = Cardinality(graphVersions[edit[h].graph]) + 1]
  /\ UNCHANGED <<strategies, versions, graphVersions, overlap>>

\* A number taken in between violates (strategyGraphId, version): 500, and the
\* StrategyVersion stays without a graph version.
CreateGraphVersion(h) ==
  /\ At(h, "link")
  /\ LET g == edit[h].graph IN
       graphVersions' = [graphVersions EXCEPT ![g] = @ \cup
         (IF edit[h].number \in Numbers(g) THEN {}
          ELSE {[number |-> edit[h].number, version |-> edit[h].version,
                 baseline |-> FALSE]})]
  /\ Reply(h)
  /\ UNCHANGED <<strategies, versions, overlap>>

\* executeCreateStrategyVersion of the assistant: the latest is read, the next
\* is inserted, no graph is involved.
AssistantVersion(h) ==
  /\ At(h, "version") /\ edit[h].version \notin versions[Name(h)]
  /\ versions' = [versions EXCEPT ![Name(h)] = @ \cup {edit[h].version}]
  /\ Reply(h)
  /\ UNCHANGED <<strategies, graphVersions, overlap>>

-----------------------------------------------------------------------------
(* POST /lab/graph-versions/:id/baseline                                     *)

SetBaseline(g, number, flag) ==
  graphVersions' = [graphVersions EXCEPT ![g] =
    {IF gv.number = number THEN [gv EXCEPT !.baseline = flag] ELSE gv : gv \in @}]

InBaseline(h) == edit[h].pc \in {"unset", "findMany", "clear", "set"}

\* The flag decides at once which way the request toggles.
BaselineRead(h, g, gv) ==
  /\ At(h, "idle")
  /\ edit' = [edit EXCEPT ![h].graph = g, ![h].number = gv.number,
                          ![h].pc = IF gv.baseline THEN "unset" ELSE "findMany"]
  /\ overlap' = (overlap \/ \E k \in Editors \ {h} : InBaseline(k) /\ Name(k) = NameOf[g])
  /\ UNCHANGED <<strategies, versions, graphVersions>>

BaselineUnset(h) ==
  /\ At(h, "unset")
  /\ SetBaseline(edit[h].graph, edit[h].number, FALSE)
  /\ Reply(h)
  /\ UNCHANGED <<strategies, versions, overlap>>

\* The graph versions that carry the flag, by their graph and number.
Baselines(n) ==
  UNION {{<<g, gv.number>> : gv \in {v \in graphVersions[g] : v.baseline}} :
           g \in {k \in Graphs : NameOf[k] = n}}

\* The baselines of the strategy, over all the graphs compiled for it.
BaselineFindMany(h) ==
  /\ At(h, "findMany")
  /\ edit' = [edit EXCEPT ![h].pc = "clear",
       ![h].found = Baselines(Name(h))]
  /\ UNCHANGED <<strategies, versions, graphVersions, overlap>>

\* Promise.all: the updates of the found versions land in any order.
BaselineClear(h, target) ==
  /\ At(h, "clear") /\ target \in edit[h].found
  /\ SetBaseline(target[1], target[2], FALSE)
  /\ edit' = [edit EXCEPT ![h].found = @ \ {target}]
  /\ UNCHANGED <<strategies, versions, overlap>>

BaselineSet(h) ==
  /\ At(h, "clear") /\ edit[h].found = {}
  /\ SetBaseline(edit[h].graph, edit[h].number, TRUE)
  /\ Reply(h)
  /\ UNCHANGED <<strategies, versions, overlap>>

\* The API process dies, or a statement fails: nothing is undone.
RequestDies(h) ==
  /\ ~At(h, "idle") /\ Reply(h)
  /\ UNCHANGED <<strategies, versions, graphVersions, overlap>>

Next ==
  \E h \in Editors :
    \/ \E g \in Graphs : CompileStart(h, g) \/ \E gv \in graphVersions[g] : BaselineRead(h, g, gv)
    \/ CreateStrategy(h) \/ CompileFails(h) \/ FindLatestVersion(h)
    \/ CreateVersion(h) \/ CountGraphVersions(h) \/ CreateGraphVersion(h)
    \/ AssistantVersion(h)
    \/ BaselineUnset(h) \/ BaselineFindMany(h) \/ BaselineSet(h)
    \/ \E target \in edit[h].found : BaselineClear(h, target)
    \/ RequestDies(h)

Spec == Init /\ [][Next]_vars

-----------------------------------------------------------------------------
(* Properties                                                                *)

TypeOK ==
  /\ strategies \subseteq Names
  /\ versions \in [Names -> SUBSET (1..MaxVersion)]
  /\ \A g \in Graphs : graphVersions[g] \subseteq GraphVersion
  /\ edit \in [Editors -> [pc : {"idle", "create", "compile", "version", "count",
                                 "link", "unset", "findMany", "clear"},
                           graph : Graphs, number : 0..MaxVersion,
                           version : 0..MaxVersion,
                           found : SUBSET (Graphs \X (1..MaxVersion))]]
  /\ overlap \in BOOLEAN

\* Version numbers of a strategy, and of a graph, have no gap, whatever
\* requests race, fail or die: the next number is never a used one.
VersionsDense ==
  /\ \A n \in Names : versions[n] = 1..Cardinality(versions[n])
  /\ \A g \in Graphs : Numbers(g) = 1..Cardinality(graphVersions[g])

\* A compiled version belongs to one graph version, so its lineage is known.
OneGraphVersionEach ==
  \A g, k \in Graphs : NameOf[g] = NameOf[k] =>
    \A gv \in graphVersions[g], kv \in graphVersions[k] :
      gv.version = kv.version => g = k /\ gv.number = kv.number

\* schema.prisma:707: only one baseline per strategy; it holds as long as no
\* two baseline requests of the strategy overlap, also when one dies halfway.
OneBaseline == ~overlap => \A n \in Names : Cardinality(Baselines(n)) <= 1
==============================================================================
