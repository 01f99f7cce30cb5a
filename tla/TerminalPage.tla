----------------------------- MODULE TerminalPage -----------------------------
(* The terminal page (apps/web/src/app/terminal/page.tsx) of a signed-in user *)
(* and the preferences it keeps on the server (routes/preferences.ts).  The   *)
(* market stands for all that the preferences hold; responses arrive in any   *)
(* order.                                                                     *)
EXTENDS Integers, FiniteSets

CONSTANTS Markets, Default, Guest, None,  \* Guest: preferences of the guest mode
          Effects,                        \* 1..n bounds the runs of an effect
          MaxEdits

VARIABLES
  market,     \* the selected market (and the rest of the preferences)
  server,     \* the stored UserPreference, None when there is no row
  initial,    \* what was stored when the page was opened
  load,       \* of the mount effect: [pc, got]
  imported,   \* localStorage has PREFS_IMPORTED_KEY
  timer,      \* the snapshot the debounced save holds, or None
  puts,       \* PUTs out: [n, value, import]
  putCount, early, crossed,   \* history: PUTs sent; the timer beat the load;
                              \* two requests of one kind were out at once
  asked, directory,  \* /terminal/symbols requests out; market of allSymbols
  chain, current,    \* polling chains of the quotes; the one of this render
  edits

vars == <<market, server, initial, load, imported, timer, puts, putCount, early,
          crossed, asked, directory, chain, current, edits>>
saving == <<server, puts, putCount, early>>
polling == <<chain, current>>

Init ==
  /\ market = Default /\ server \in Markets \cup {None} /\ initial = server
  /\ load = [pc |-> "asked", got |-> None]
  /\ imported = FALSE
  /\ timer = Default   \* the save effect runs on the first render as well
  /\ puts = {} /\ putCount = 0 /\ early = FALSE /\ crossed = FALSE
  /\ asked = {[n |-> 1, market |-> Default]} /\ directory = None
  /\ chain = [c \in Effects |-> IF c = 1 THEN "fetching" ELSE "none"]
  /\ current = 1 /\ edits = 0

-----------------------------------------------------------------------------
(* Effects of a render                                                       *)

\* New preferences are rendered: the save is debounced again, the chain that
\* polls the quotes is cut and another one started; the directory is asked
\* for if the market is another one.
Show(m) ==
  /\ current + 1 \in Effects
  /\ market' = m /\ timer' = m
  /\ current' = current + 1
  /\ chain' = [chain EXCEPT ![current + 1] = "fetching",
                            ![current] = IF @ = "timer" THEN "done" ELSE @]
  /\ IF m = market THEN UNCHANGED <<asked, directory, crossed>>
     ELSE /\ asked' = asked \cup {[n |-> current + 1, market |-> m]}
          /\ directory' = None
          /\ crossed' = (crossed \/ asked # {})

\* The user selects a market, a symbol or an interval.
Edit(m) ==
  /\ edits < MaxEdits /\ edits' = edits + 1
  /\ Show(m)
  /\ UNCHANGED <<saving, initial, load, imported>>

\* Every answer is taken, the last one to arrive stays.
SymbolsArrive ==
  /\ \E a \in asked : asked' = asked \ {a} /\ directory' = a.market
  /\ UNCHANGED <<market, saving, initial, load, imported, timer, crossed, polling, edits>>

PollAnyway(c) ==     \* mutant: the chain is not asked whether it is active
  /\ chain[c] = "fetching"
  /\ chain' = [chain EXCEPT ![c] = "timer"]
  /\ UNCHANGED <<market, saving, initial, load, imported, timer, crossed, asked,
                 directory, current, edits>>

\* schedulePoll: the quotes have arrived (or failed); an active chain goes on.
PollEnds(c) ==
  /\ chain[c] = "fetching"
  /\ chain' = [chain EXCEPT ![c] = IF c = current THEN "timer" ELSE "done"]
  /\ UNCHANGED <<market, saving, initial, load, imported, timer, crossed, asked,
                 directory, current, edits>>

PollAgain(c) ==
  /\ chain[c] = "timer"
  /\ chain' = [chain EXCEPT ![c] = "fetching"]
  /\ UNCHANGED <<market, saving, initial, load, imported, timer, crossed, asked,
                 directory, current, edits>>

-----------------------------------------------------------------------------
(* Preferences                                                               *)

\* GET /user/preferences is served, or fails.
LoadServed ==
  /\ load.pc = "asked"
  /\ load' \in {[pc |-> "served", got |-> server], [pc |-> "failed", got |-> None]}
  /\ UNCHANGED <<market, saving, initial, imported, timer, crossed, asked, directory,
                 polling, edits>>

Put(value, import) ==
  /\ puts' = puts \cup {[n |-> putCount + 1, value |-> value, import |-> import]}
  /\ putCount' = putCount + 1
  /\ crossed' = (crossed \/ puts # {})

\* What is stored is applied; an empty store takes the guest's preferences
\* once (they are applied when the PUT is answered) or else the default.
LoadApply ==
  /\ load.pc = "served"
  /\ IF load.got = None /\ Guest # None /\ ~imported
     THEN /\ load' = [load EXCEPT !.pc = "importing"]
          /\ Put(Guest, TRUE)
          /\ UNCHANGED <<market, timer, polling, asked, directory>>
     ELSE /\ load' = [load EXCEPT !.pc = "done"]
          /\ Show(IF load.got = None THEN Default ELSE load.got)
          /\ UNCHANGED <<puts, putCount>>
  /\ UNCHANGED <<server, initial, imported, early, edits>>

ImportDone ==
  /\ load.pc = "importing" /\ \A p \in puts : ~p.import
  /\ load' = [load EXCEPT !.pc = "done"] /\ imported' = TRUE
  /\ Show(Guest)
  /\ UNCHANGED <<saving, initial, edits>>

\* 1.5 s after the last change, whether or not the load has come back.
SaveTimer ==
  /\ timer # None /\ timer' = None
  /\ Put(timer, FALSE)
  /\ early' = (early \/ load.pc # "done")
  /\ UNCHANGED <<market, server, initial, load, imported, asked, directory, polling, edits>>

\* PUT /user/preferences: validated, then upserted.
PutServed ==
  /\ \E p \in puts : puts' = puts \ {p} /\ server' = p.value
  /\ UNCHANGED <<market, initial, load, imported, timer, putCount, early, crossed,
                 asked, directory, polling, edits>>

Next ==
  \/ \E m \in Markets : Edit(m)
  \/ SymbolsArrive \/ LoadServed \/ LoadApply \/ ImportDone \/ SaveTimer \/ PutServed
  \/ \E c \in Effects : PollEnds(c) \/ PollAgain(c)

-----------------------------------------------------------------------------
(* Properties                                                                *)

TypeOK ==
  /\ market \in Markets /\ {server, initial, timer, directory} \subseteq Markets \cup {None}
  /\ load \in [pc : {"asked", "served", "failed", "importing", "done"},
               got : Markets \cup {None}]
  /\ chain \in [Effects -> {"none", "fetching", "timer", "done"}] /\ current \in Effects

\* One chain polls: whatever was in flight when the watchlist or the market
\* changed, no chain but the one of this render waits to poll again.
OneChainPolls == \A c \in Effects : chain[c] = "timer" => c = current

\* With no request for symbols out the picker lists the selected market, if
\* no two requests were out together.
DirectoryOfMarket == asked = {} /\ ~crossed => directory = market

\* Opening the page and editing nothing loses no stored preferences, as long
\* as the load comes back before the first save.
OpeningKeepsPrefs ==
  edits = 0 /\ ~early /\ initial # None => server = initial

\* What the user sees in the end is what is stored, if the answers kept their
\* order.
EditsAreSaved == <>[](server = market \/ crossed)
=============================================================================
