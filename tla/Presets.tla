-------------------------------- MODULE Presets --------------------------------
(* The preset catalog (routes/presets.ts): an admin publishes immutable presets, *)
(* a user of a workspace turns one into a strategy, its first version and a bot  *)
(* in one transaction.  Payloads keep the fields the handlers decide by.         *)
EXTENDS Integers, FiniteSets

CONSTANTS Bodies,     \* payloads of POST /presets
          Overrides,  \* payloads of POST /presets/:slug/instantiate
          Users, Suffixes

VARIABLES presets,    \* the catalog
          step, asked, chosen, suffix, tx,   \* of a user's request and its transaction
          strategies, versions, bots         \* the committed rows, by name

vars == <<presets, step, asked, chosen, suffix, tx, strategies, versions, bots>>

Timeframes == {"M1", "M5", "M15", "H1"}
Intervals == Timeframes \cup {"M30", "H4", "D1"}
Modes == {"DSL", "FUNDING_ARB"}
NoPreset == [slug |-> "none"]

Init ==
  /\ presets = {} /\ strategies = {} /\ versions = {} /\ bots = {}
  /\ step = [u \in Users |-> "idle"]
  /\ asked = [u \in Users |-> CHOOSE o \in Overrides : TRUE]
  /\ chosen = [u \in Users |-> NoPreset]
  /\ suffix = [u \in Users |-> 0]
  /\ tx = [u \in Users |-> {}]

-----------------------------------------------------------------------------
(* Publishing                                                                *)

\* The mode and what a bundle holds are looked at when a bot is made of it.
validateCreateBody(b) == b.timeframe \in Timeframes /\ b.quoteAmount > 0

\* The slug is unique: 409 for a second preset of it.
PublishPreset(b) ==
  /\ validateCreateBody(b) /\ b.dslIsValid
  /\ \A p \in presets : p.slug # b.slug
  /\ presets' = presets \cup {b}
  /\ UNCHANGED <<step, asked, chosen, suffix, tx, strategies, versions, bots>>

-----------------------------------------------------------------------------
(* Instantiating                                                             *)

canViewPreset(p, o) == o.admin \/ p.visibility \in {"PUBLIC", "BETA"}

Timeframe(p, o) == IF o.timeframe = "none" THEN p.timeframe ELSE o.timeframe
Mode(p) == IF p.mode = "none" THEN "DSL" ELSE p.mode
resolveConfig(p, o) == Timeframe(p, o) \in Timeframes /\ Mode(p) \in Modes

parseDatasetBundle(B) == B \subseteq Intervals /\ Cardinality(B) \in 1..4
BundleFits(p, o) ==
  ~ p.hasBundle \/ (parseDatasetBundle(p.bundle) /\ Timeframe(p, o) \in p.bundle)

PostInstantiate(u, p, o, s) ==
  /\ step[u] = "idle" /\ p \in presets
  /\ canViewPreset(p, o) /\ resolveConfig(p, o) /\ BundleFits(p, o)
  /\ step' = [step EXCEPT ![u] = "strategy"]
  /\ chosen' = [chosen EXCEPT ![u] = p] /\ asked' = [asked EXCEPT ![u] = o]
  /\ suffix' = [suffix EXCEPT ![u] = s]
  /\ UNCHANGED <<presets, tx, strategies, versions, bots>>

\* The name is unique in the workspace: an open transaction that has taken it
\* is waited for, a committed one answers 409.
CreateStrategy(u) ==
  /\ step[u] = "strategy"
  /\ \A v \in Users \ {u} : suffix[u] \notin tx[v]
  /\ IF \E s \in strategies : s.name = suffix[u]
       THEN step' = [step EXCEPT ![u] = "idle"] /\ tx' = tx
       ELSE step' = [step EXCEPT ![u] = "version"] /\ tx' = [tx EXCEPT ![u] = {suffix[u]}]
  /\ UNCHANGED <<presets, asked, chosen, suffix, strategies, versions, bots>>

\* The version and the bot, and the commit of all three.
CreateBot(u) ==
  LET p == chosen[u]  t == Timeframe(p, asked[u]) IN
  /\ step[u] = "version"
  /\ step' = [step EXCEPT ![u] = "idle"] /\ tx' = [tx EXCEPT ![u] = {}]
  /\ strategies' = strategies \cup {[name |-> suffix[u], slug |-> p.slug, timeframe |-> t]}
  /\ versions' = versions \cup {[strategy |-> suffix[u], version |-> 1, slug |-> p.slug]}
  /\ bots' = bots \cup
       {[name |-> suffix[u], slug |-> p.slug, timeframe |-> t, mode |-> Mode(p),
         hasBundle |-> p.hasBundle, bundle |-> p.bundle]}
  /\ UNCHANGED <<presets, asked, chosen, suffix>>

\* The API dies, or the database refuses a statement.
RollBack(u) ==
  /\ step[u] # "idle"
  /\ step' = [step EXCEPT ![u] = "idle"] /\ tx' = [tx EXCEPT ![u] = {}]
  /\ UNCHANGED <<presets, asked, chosen, suffix, strategies, versions, bots>>

Next ==
  \/ \E b \in Bodies : PublishPreset(b)
  \/ \E u \in Users, p \in presets, o \in Overrides, s \in Suffixes : PostInstantiate(u, p, o, s)
  \/ \E u \in Users : CreateStrategy(u) \/ CreateBot(u) \/ RollBack(u)

Spec == Init /\ [][Next]_vars

-----------------------------------------------------------------------------
TypeOK ==
  /\ presets \subseteq Bodies
  /\ \A u \in Users : step[u] \in {"idle", "strategy", "version"} /\ tx[u] \subseteq Suffixes

(* Whatever dies or collides on the way, a preset leaves whole bots: each has *)
(* one strategy of its name and timeframe with one version, none of these is  *)
(* left without its bot, and the worker will find the bot's timeframe in the  *)
(* bundle it evaluates it on.                                                 *)
PresetBotsAreWhole ==
  /\ {s.name : s \in strategies} = {b.name : b \in bots}
  /\ {v.strategy : v \in versions} = {b.name : b \in bots}
  /\ Cardinality(versions) = Cardinality(bots) /\ Cardinality(strategies) = Cardinality(bots)
  /\ \A b \in bots :
       /\ [name |-> b.name, slug |-> b.slug, timeframe |-> b.timeframe] \in strategies
       /\ b.hasBundle => b.timeframe \in b.bundle
==============================================================================
