------------------------------- MODULE MCServices -------------------------------
(* The services beside the runs and the lab: sessions, the assistant, manual    *)
(* orders and the page that shows them, the sizing of a bot's entries, the      *)
(* venue's feed, and funding.  They                                            *)
(* share no row the specifications speak of, so each behaviour follows one of  *)
(* them, chosen from Focus, and the others stay as they are: TLC explores the  *)
(* union of their state spaces.                                                *)
EXTENDS Integers, Sequences, FiniteSets, TLC

CONSTANTS Focus,
  h1, e1, e2, c1, c2, c3, tabA, tabB,
  Posts, Clients, MaxFaults, Tabs, Calls, TabOf, Tokens, MaxLost, MaxEffects,
  Syncs, Tests, Creds, ValidCreds, Sockets, Topics,
  Markets, Default, Guest, None, Effects, MaxEdits,
  Period, PreBuffer, Lag, Window, Horizon,
  Symbols, Rates, Bases, Marks, MaxSnaps, TopN,
  Strategies, Instruments, Prices, Sides, Ttl, Day, MaxTime, MaxEntries

VARIABLES service, faults,
  stored, parent, cookie, access, call, refresh, logout, rivals, lost,
  plan, raw, audit, exec, effects, racing,
  conn, tried, overlapped, post, row, known, venue, unsure, sync, test,
  market, server, initial, load, imported, timer, puts, putCount, early, crossed,
  asked, directory, chain, current, edits,
  state, ws, sock, feed, authed, armed, leaked, pinging, pong, intentional, wanted, forced,
  now, published, paid, ingest, fetched, snaps, window, reported, opened,
  data, holding, hedge,
  st, time, price, candles, listed, cache, lastClose, flagged, position, closedAt, entries,
  run, pc, batch, failedNow, denied, shortages, crashed

ASSUME ServiceConstants ==
  /\ TabOf \in [Calls -> Tabs] /\ Tokens \subseteq Nat \ {0}
  /\ Sockets \subseteq Nat \ {0}
  /\ Default \in Markets /\ None \notin Markets /\ Guest \in Markets \cup {None}
  /\ 1 \in Effects /\ Effects \subseteq Nat
  /\ Posts # {} /\ 1 \in Creds /\ Creds \subseteq Nat \ {0} /\ MaxFaults \in Nat

ASSUME EntryConstants ==
  /\ \A s \in Strategies : /\ s.budget \in Nat \ {0} /\ s.cooldown \in Nat /\ s.lossLimit \in Nat
                           /\ s.perTrade \in Nat /\ s.dca \in Nat
                           /\ s.limit \in BOOLEAN /\ s.pause \in BOOLEAN
  /\ \A i \in Instruments : /\ i.status # "none" /\ i.min \in Nat \ {0} /\ i.max \in Nat
                            /\ i.minNotional \in Nat /\ i.step \in Nat \ {0} /\ i.tick \in Nat \ {0}
  /\ Prices \subseteq Nat \ {0} /\ Ttl \in Nat /\ Day \in Nat \ {0}
  /\ MaxTime \in Nat \ {0} /\ MaxEntries \in Nat

ASSUME FundingConstants ==
  /\ Period \in Nat \ {0} /\ PreBuffer \in Nat /\ Horizon \in Nat \ {0}
  /\ IsFiniteSet(Symbols) /\ Rates \subseteq Int /\ Bases \subseteq Int
  /\ Marks \subseteq Nat /\ MaxSnaps \in Nat /\ TopN \in Nat

\* Two calls of one tab and one of another.
ThreeCalls == (c1 :> tabA) @@ (c2 :> tabA) @@ (c3 :> tabB)
Session == INSTANCE Sessions WITH NoToken <- 0

\* Answers of the provider: an unknown dependency, two items of one id, an
\* item without an id.
Item(id, type, deps) == [id |-> id, type |-> type, deps |-> deps, target |-> "none"]
RawPlans ==
  {<<Item("a", "CREATE_STRATEGY", <<>>), Item("b", "CREATE_STRATEGY_VERSION", <<"x", "a">>)>>,
   <<Item("a", "CREATE_STRATEGY", <<>>), Item("a", "CREATE_STRATEGY_VERSION", <<"a">>)>>,
   <<Item("none", "START_RUN", <<"b">>), Item("b", "START_RUN", <<>>)>>}
Assistant == INSTANCE AssistantPlans WITH NoId <- "none"
Terminal == INSTANCE TerminalOrders
Page == INSTANCE TerminalPage
PrivateSocket == INSTANCE WsConnection WITH Private <- TRUE
PublicSocket == INSTANCE WsConnection WITH Private <- FALSE
Funding == INSTANCE FundingWindow
Scan == INSTANCE FundingScan WITH Prices <- Marks
SomeRates == {-6, 0, 12}
SomeBases == {-60, 20}

\* Prices are those at which 57 and 29 hundredths cost the budgets, and one
\* between two ticks.
Rules(lotStep, min, minNotional, tick, status) ==
  [status |-> status, step |-> lotStep, min |-> min, max |-> 150, minNotional |-> minNotional,
   tick |-> tick]
Plan(budget, cooldown, lossLimit, pause, dca, limit, bundle) ==
  [budget |-> budget, cooldown |-> cooldown, lossLimit |-> lossLimit, perTrade |-> 10,
   pause |-> pause, dca |-> dca, limit |-> limit, bundle |-> bundle]
BotPlans ==
  {Plan(5700, 2, 20, FALSE, 0, TRUE, "none"), Plan(10000, 0, 0, TRUE, 2900, FALSE, "none"),
   Plan(100, 0, 0, FALSE, 0, FALSE, "invalid")}
VenueRules ==
  {Rules(1, 28, 2000, 1, "Trading"), Rules(10, 50, 5500, 10, "Trading"),
   Rules(1, 28, 2000, 1, "Closed")}
Entry == INSTANCE EntrySizing WITH reported <- shortages

-----------------------------------------------------------------------------
Of(s) == service = s /\ service' = s

Init ==
  /\ service \in Focus
  /\ Session!Init /\ Assistant!Init /\ Terminal!Init /\ Page!Init /\ PrivateSocket!Init
  /\ Funding!Init /\ Scan!Init /\ Entry!Init
  /\ service # "funding" => snaps = {}
  /\ service # "page" => server = None
  /\ service # "entries" => st.dca > 0 /\ listed.min = 50 /\ price = 100

Symmetry == Permutations({e1, e2}) \cup Permutations({c1, c2})

sessionVars == <<stored, parent, cookie, access, call, refresh, logout, rivals, lost>>
assistantVars == <<plan, raw, audit, exec, effects, racing>>
terminalVars == <<conn, tried, overlapped, post, row, known, venue, unsure, sync, test>>
pageVars == <<market, server, initial, load, imported, timer, puts, putCount, early, crossed,
              asked, directory, chain, current, edits>>
socketVars ==
  <<state, ws, sock, feed, authed, armed, leaked, pinging, pong, intentional, wanted, forced>>
fundingVars == <<now, published, paid, ingest, fetched, snaps, window, reported, opened>>
scanVars == <<data, holding, hedge>>
entryVars == <<st, time, price, candles, listed, cache, lastClose, flagged, position, closedAt,
               entries, run, pc, batch, failedNow, denied, shortages, crashed>>

Next ==
  \/ /\ Of("sessions") /\ Session!Next
     /\ UNCHANGED <<faults, assistantVars, terminalVars, pageVars, socketVars, fundingVars, scanVars, entryVars>>
  \/ /\ Of("assistant") /\ Assistant!Next
     /\ UNCHANGED <<sessionVars, terminalVars, pageVars, socketVars, fundingVars, scanVars, entryVars>>
  \/ /\ Of("terminal") /\ Terminal!Next
     /\ UNCHANGED <<sessionVars, assistantVars, pageVars, socketVars, fundingVars, scanVars, entryVars>>
  \/ /\ Of("page") /\ Page!Next
     /\ UNCHANGED <<faults, sessionVars, assistantVars, terminalVars, socketVars, fundingVars, scanVars, entryVars>>
  \/ /\ Of("private") /\ PrivateSocket!Next
     /\ UNCHANGED <<faults, sessionVars, assistantVars, terminalVars, pageVars, fundingVars, scanVars, entryVars>>
  \/ /\ Of("public") /\ PublicSocket!Next
     /\ UNCHANGED <<faults, sessionVars, assistantVars, terminalVars, pageVars, fundingVars, scanVars, entryVars>>
  \/ /\ Of("funding") /\ Funding!Next
     /\ UNCHANGED <<sessionVars, assistantVars, terminalVars, pageVars, socketVars, scanVars, entryVars>>
  \/ /\ Of("scan") /\ Scan!Next
     /\ UNCHANGED <<faults, sessionVars, assistantVars, terminalVars, pageVars, socketVars, fundingVars, entryVars>>
  \/ /\ Of("entries") /\ Entry!Next
     /\ UNCHANGED <<sessionVars, assistantVars, terminalVars, pageVars, socketVars, fundingVars, scanVars>>

vars == <<service, faults, sessionVars, assistantVars, terminalVars, pageVars, socketVars,
          fundingVars, scanVars, entryVars>>
Spec == Init /\ [][Next]_vars

-----------------------------------------------------------------------------
(* Properties, one for each service: the others' variables do not move       *)

In(s, P) == service = s => P

\* The state of each service stays within its range.
TypeOK ==
  /\ In("sessions", Session!TypeOK) /\ In("assistant", Assistant!TypeOK)
  /\ In("terminal", Terminal!TypeOK) /\ In("page", Page!TypeOK)
  /\ In("private", PrivateSocket!TypeOK) /\ In("public", PublicSocket!TypeOK)
  /\ In("funding", Funding!TypeOK) /\ In("entries", Entry!TypeOK)

\* Refresh tokens (auth.ts): a token is rotated once unless two requests
\* overlapped, a tab is only logged out for a reason, and a logout is final.
SessionsRotate ==
  In("sessions", Session!RotatedOnce /\ Session!NoSpuriousLogout /\ Session!LogoutIsFinal)

\* Plans of the assistant (ai.ts): an action takes effect once, never before
\* those it depends on, and an orderly plan does not wait for itself.
PlansExecute ==
  In("assistant", Assistant!EffectOnce /\ Assistant!DependenciesFirst /\ Assistant!PlanAdvances)

\* Manual orders (terminal.ts, exchanges.ts): rows follow the venue, a FAILED
\* row is not live there unless an answer was lost, and CONNECTED is the
\* verdict on credentials that have worked.  A bot's entries: an order fits its
\* budget and the rules, sizer and normalizer agree, and the guards of a poll
\* stop the run before it orders again.
OrdersFollowVenue ==
  /\ In("entries", Entry!OrdersFit /\ Entry!SizerAndNormalizerAgree /\ Entry!CooldownHolds
                     /\ Entry!GuardsStop /\ Entry!ShortageReportedOnce)
  /\ In("terminal", Terminal!RowFollowsVenue /\ Terminal!FailedIsNotLive
                      /\ Terminal!ConnectedHasWorked)

\* The terminal page: one chain polls the ticker, the directory is that of the
\* market shown, and opening the page does not overwrite the preferences.
PageFollows ==
  In("page", Page!OneChainPolls /\ Page!DirectoryOfMarket /\ Page!OpeningKeepsPrefs)

\* The WebSocket client (BybitWsClient.ts), private and public: one socket, a
\* way back after every loss, and a feed of what is subscribed.
FeedHolds ==
  /\ In("private", PrivateSocket!OneSocket /\ PrivateSocket!NeverStranded
                     /\ PrivateSocket!FeedIsWanted)
  /\ In("public", PublicSocket!OneSocket /\ PublicSocket!NeverStranded
                    /\ PublicSocket!FeedIsWanted)

\* Funding: an entry signal is of the settlement it names and one of signal
\* and payment is seen; the scanner's ranking, a hedge's result and the
\* reconciler's verdict agree with their definitions.
FundingIsSeen ==
  /\ In("funding", Funding!SignalsAreOfTheirSettlement /\ Funding!PaymentOrEntry)
  /\ In("scan", Scan!RankingIsTop /\ Scan!PnlIsBasis /\ Scan!BalancedIsHedged
                  /\ Scan!EntryIsNoExit)
==============================================================================
