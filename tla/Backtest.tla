------------------------------- MODULE Backtest -------------------------------
(* The backtest of a compiled strategy (runDslBacktest in                     *)
(* lib/dslEvaluator.ts) read bar by bar, and beside it the exit engine of the *)
(* live worker (lib/exitEngine.ts, evaluateStrategies in lib/botWorker.ts)    *)
(* holding the same position and looking once at every bar.                   *)
(*                                                                            *)
(* The bars are the environment: any of Prices, and whether the entry signal  *)
(* and the indicator exit fire on one.  The sums of the report are left out.  *)
EXTENDS DcaPlanning, FiniteSetsExt

CONSTANTS Prices, Atrs,   \* what a bar may show
          Strategies,     \* the compiled strategies a behaviour may run
          MaxBars,        \* bound: index of the last possible bar
          MaxRestarts     \* bound: restarts of the live worker

VARIABLES
  s,         \* the strategy
  i, open,   \* the next bar's index and its open price
  pos,       \* inPosition, positionSide, effectiveEntry, slPrice ... ; in the
             \* ladder, how many safety orders are filled
  trade,     \* the last record of tradeLog
  over,      \* the data has ended
  live,      \* trailingStopStates of the live worker
  verdicts,  \* what the backtest and the live engine decided on the last bar
  restarts

vars == <<s, i, open, pos, trade, over, live, verdicts, restarts>>

NoTrail == [mark |-> 0, active |-> FALSE, stop |-> 0]
NoPosition == [open |-> FALSE, side |-> "long", raw |-> 0, entry |-> 0, base |-> 0,
               time |-> 0, bar |-> 0, sl |-> 0, tp |-> 0, slPct |-> 0, filled |-> 0,
               trail |-> NoTrail]
NoTrade == [entryTime |-> 0, exitTime |-> 0, side |-> "long", raw |-> 0, entry |-> 0,
            rawExit |-> 0, exit |-> 0, sl |-> 0, outcome |-> "NEUTRAL",
            reason |-> "none", held |-> 0]
Stay == [reason |-> "none", price |-> 0]
Close(reason, price) == [reason |-> reason, price |-> price]

Init ==
  /\ s \in Strategies
  /\ i = 1 /\ open \in Prices
  /\ pos = NoPosition /\ trade = NoTrade /\ over = FALSE
  /\ live = NoTrail /\ verdicts = <<Stay, Stay>> /\ restarts = 0

Bars == {b \in [open : {open}, high : Prices, low : Prices, close : Prices, next : Prices,
                signal : IF pos.open THEN {"none"} ELSE s.sides \cup {"none"},
                exit : IF pos.open THEN s.exits ELSE {FALSE},
                atr : IF pos.open THEN {0} ELSE Atrs, last : BOOLEAN] :
           /\ b.low <= b.open /\ b.low <= b.close
           /\ b.high >= b.open /\ b.high >= b.close
           /\ (i = MaxBars => b.last) /\ (b.last => b.next = b.close)}

-----------------------------------------------------------------------------
(* Entries                                                                   *)

Distance(level, entry, atr) ==
  IF level.type = "atr_multiple" THEN level.value * atr ELSE Percent(entry, level.value)
computeExitLevels(side, entry, atr) ==
  [sl |-> Toward(side, entry, -Distance(s.sl, entry, atr)),
   tp |-> Toward(side, entry, Distance(s.tp, entry, atr))]

isDca == s.dca.on /\ validateDcaConfig(s.dca.config)
Costly(x) == x + Percent(x, s.cost)      \* entryMult
Shaved(x) == x - Percent(x, s.cost)      \* exitMult
Trail(mark) == [mark |-> mark, active |-> FALSE, stop |-> 0]

\* The position the signal of bar b opens; an order for the open of the bar
\* after the last is not placed.
Enters(b) == b.signal # "none" /\ ~(s.fillAt = "NEXT_OPEN" /\ b.last)
Entered(b) ==
  LET fill == CASE s.fillAt = "OPEN" -> b.open
                [] s.fillAt = "NEXT_OPEN" -> b.next
                [] OTHER -> b.close
      at == IF s.fillAt = "NEXT_OPEN" THEN i + 1 ELSE i
      entry == Costly(fill)
      levels == computeExitLevels(b.signal, entry, b.atr)
      slPct == IF s.sl.type = "fixed_pct" THEN s.sl.value
               ELSE (Gain(b.signal, levels.sl, entry) * 100) \div entry
      ladder == Ladder(s.dca.config, entry, b.signal, slPct, 0)
  IN [open |-> TRUE, side |-> b.signal, raw |-> fill, entry |-> entry, base |-> entry,
      time |-> at, bar |-> at, slPct |-> slPct, filled |-> 0, trail |-> Trail(b.close),
      sl |-> IF isDca THEN ladder.sl ELSE levels.sl,
      tp |-> IF isDca THEN ladder.tp ELSE levels.tp]

-----------------------------------------------------------------------------
(* Exits of the backtest                                                     *)

Worst(side, b) == IF side = "long" THEN b.low ELSE b.high
Best(side, b) == IF side = "long" THEN b.high ELSE b.low

\* The while loop over dcaPendingSOs, before any exit is looked at.
FillReached(p, b) ==
  LET orders == generateSafetyOrderSchedule(s.dca.config, p.base, p.side)
      reached == {n \in p.filled .. s.dca.config.max :
                    \A k \in p.filled + 1 .. n : AsBad(p.side, Worst(p.side, b), orders[k].price)}
      now == Ladder(s.dca.config, p.base, p.side, p.slPct, Max(reached))
  IN IF ~isDca \/ reached = {p.filled} THEN p
     ELSE [p EXCEPT !.filled = Max(reached), !.entry = now.avg, !.sl = now.sl, !.tp = now.tp]

TrailAfter(p, b) ==
  LET mark == IF AsBad(p.side, p.trail.mark, Best(p.side, b)) THEN Best(p.side, b)
              ELSE p.trail.mark
      active == AsBad(p.side, Toward(p.side, p.entry, Percent(p.entry, s.trail.activation)), mark)
  IN [mark |-> mark, active |-> p.trail.active \/ active,
      stop |-> IF active THEN Toward(p.side, mark, -Percent(mark, s.trail.callback))
               ELSE p.trail.stop]

IndicatorFill(b) ==
  CASE s.fillAt = "OPEN" -> b.open
    [] s.fillAt = "NEXT_OPEN" -> b.next     \* on the last bar its close
    [] OTHER -> b.close

\* Stop loss, trailing stop, indicator, take profit, time: the first that fires.
DecideTpFirst(p, b) ==    \* mutant: the bar that touches both levels takes the profit
  LET trail == TrailAfter(p, b) IN
  IF AsBad(p.side, p.tp, Best(p.side, b)) THEN Close("tp", p.tp)
  ELSE IF AsBad(p.side, Worst(p.side, b), p.sl) THEN Close("sl", p.sl)
  ELSE IF s.trail.on /\ trail.active /\ AsBad(p.side, Worst(p.side, b), trail.stop)
    THEN Close("trailing_stop", trail.stop)
  ELSE IF b.exit THEN Close("indicator_exit", IndicatorFill(b))
  ELSE IF s.maxBars > 0 /\ i - p.bar >= s.maxBars THEN Close("time_exit", b.close)
  ELSE IF b.last THEN Close("end_of_data", b.close)
  ELSE Stay
DecideLate(p, b) ==    \* mutant: the time exit counts one bar too many
  LET trail == TrailAfter(p, b) IN
  IF AsBad(p.side, Worst(p.side, b), p.sl) THEN Close("sl", p.sl)
  ELSE IF s.trail.on /\ trail.active /\ AsBad(p.side, Worst(p.side, b), trail.stop)
    THEN Close("trailing_stop", trail.stop)
  ELSE IF b.exit THEN Close("indicator_exit", IndicatorFill(b))
  ELSE IF AsBad(p.side, p.tp, Best(p.side, b)) THEN Close("tp", p.tp)
  ELSE IF s.maxBars > 0 /\ i - p.bar > s.maxBars THEN Close("time_exit", b.close)
  ELSE IF b.last THEN Close("end_of_data", b.close)
  ELSE Stay
Decide(p, b) ==
  LET trail == TrailAfter(p, b) IN
  IF AsBad(p.side, Worst(p.side, b), p.sl) THEN Close("sl", p.sl)
  ELSE IF s.trail.on /\ trail.active /\ AsBad(p.side, Worst(p.side, b), trail.stop)
    THEN Close("trailing_stop", trail.stop)
  ELSE IF b.exit THEN Close("indicator_exit", IndicatorFill(b))
  ELSE IF AsBad(p.side, p.tp, Best(p.side, b)) THEN Close("tp", p.tp)
  ELSE IF s.maxBars > 0 /\ i - p.bar >= s.maxBars THEN Close("time_exit", b.close)
  ELSE IF b.last THEN Close("end_of_data", b.close)
  ELSE Stay

ExitTime(d, b) ==
  IF d.reason = "indicator_exit" /\ s.fillAt = "NEXT_OPEN" /\ ~b.last THEN i + 1 ELSE i
Outcome(p, d) ==
  LET gain == Gain(p.side, p.entry, Shaved(d.price))
  IN CASE d.reason = "sl" -> "LOSS"
       [] d.reason = "tp" -> "WIN"
       [] d.reason = "trailing_stop" -> IF AsBad(p.side, p.entry, d.price) THEN "WIN" ELSE "LOSS"
       [] OTHER -> IF gain > 0 THEN "WIN" ELSE IF gain < 0 THEN "LOSS" ELSE "NEUTRAL"

recordTrade(p, d, b) ==
  trade' = [entryTime |-> p.time, exitTime |-> ExitTime(d, b), side |-> p.side, raw |-> p.raw,
            entry |-> p.entry, rawExit |-> d.price, exit |-> Shaved(d.price), sl |-> p.sl,
            outcome |-> Outcome(p, d), reason |-> d.reason, held |-> i - p.bar]

-----------------------------------------------------------------------------
(* Exits of the live engine, whose trailing state is a map in memory         *)

createTrailingStopState(price) == Trail(price)

\* One evaluateExit of the position, with the trailing state t.
LiveTrail(t, b) ==
  LET high == IF pos.side = "long" /\ b.high > t.mark THEN b.high
              ELSE IF pos.side = "short" /\ b.low < t.mark THEN b.low ELSE t.mark
      reached == IF pos.side = "long"
                 THEN high >= pos.entry + Percent(pos.entry, s.trail.activation)
                 ELSE high <= pos.entry - Percent(pos.entry, s.trail.activation)
      back == Percent(high, s.trail.callback)
  IN [mark |-> high, active |-> t.active \/ reached,
      stop |-> IF ~reached THEN t.stop ELSE IF pos.side = "long" THEN high - back ELSE high + back]

evaluateExit(t, b) ==
  LET long == pos.side = "long"
      held == i - pos.bar      \* candles that opened after the position
      trail == LiveTrail(t, b)
      stops(price) == IF long THEN b.low <= price ELSE b.high >= price
  IN IF stops(pos.sl) THEN Close("sl", pos.sl)
     ELSE IF s.trail.on /\ trail.active /\ stops(trail.stop)
       THEN Close("trailing_stop", trail.stop)
     ELSE IF b.exit THEN Close("indicator_exit", b.close)
     ELSE IF IF long THEN b.high >= pos.tp ELSE b.low <= pos.tp THEN Close("tp", pos.tp)
     ELSE IF s.maxBars > 0 /\ held >= s.maxBars THEN Close("time_exit", b.close)
     ELSE Stay

\* A stop loss answers before the trailing state is touched; the state of a
\* position that is being closed is deleted; a missing one is made anew.
LiveTick(b) ==
  LET t == IF live = NoTrail THEN createTrailingStopState(pos.entry) ELSE live
      d == evaluateExit(t, b)
  IN /\ verdicts' = <<Decide(FillReached(pos, b), b), d>>
     /\ live' = IF d # Stay THEN NoTrail ELSE IF s.trail.on THEN LiveTrail(t, b) ELSE t

RestartWorker ==
  /\ restarts < MaxRestarts /\ restarts' = restarts + 1
  /\ pos.open /\ live # NoTrail
  /\ live' = NoTrail
  /\ UNCHANGED <<s, i, open, pos, trade, over, verdicts>>

-----------------------------------------------------------------------------
(* One bar                                                                   *)

Leave(p, d, b) == pos' = NoPosition /\ recordTrade(p, d, b)

\* Out of a position: an entry on the last bar is closed on it.
Look(b) ==
  /\ ~pos.open
  /\ IF ~Enters(b) THEN UNCHANGED <<pos, trade>>
     ELSE IF b.last THEN Leave(Entered(b), Close("end_of_data", b.close), b)
     ELSE pos' = Entered(b) /\ UNCHANGED trade
  /\ live' = IF Enters(b) /\ ~b.last THEN createTrailingStopState(b.close) ELSE NoTrail
  /\ verdicts' = <<Stay, Stay>>

\* In a position.
Hold(b) ==
  /\ pos.open
  /\ LET p == FillReached(pos, b)
         d == Decide(p, b)
     IN IF d # Stay THEN Leave(p, d, b)
        ELSE /\ pos' = [p EXCEPT !.trail = IF s.trail.on THEN TrailAfter(p, b) ELSE @]
             /\ UNCHANGED trade
  /\ LiveTick(b)

Bar ==
  /\ ~over
  /\ \E b \in Bars :
       /\ Look(b) \/ Hold(b)
       /\ over' = b.last /\ open' = b.next
  /\ i' = i + 1
  /\ UNCHANGED <<s, restarts>>

Next == Bar \/ RestartWorker
Spec == Init /\ [][Next]_vars

-----------------------------------------------------------------------------
(* Properties                                                                *)

Sides == {"long", "short"}
Reasons == {"none", "sl", "trailing_stop", "indicator_exit", "tp", "time_exit", "end_of_data"}
TrailType == [mark : Nat, active : BOOLEAN, stop : Int]
TypeOK ==
  /\ s \in Strategies /\ i \in 1 .. MaxBars + 1 /\ open \in Prices
  /\ pos \in [open : BOOLEAN, side : Sides, raw : Nat, entry : Nat, base : Nat, time : Nat,
              bar : Nat, sl : Int, tp : Int, slPct : Nat, filled : 0 .. s.dca.config.max,
              trail : TrailType]
  /\ trade \in [entryTime : Nat, exitTime : Nat, side : Sides, raw : Nat, entry : Nat,
                rawExit : Int, exit : Int, sl : Int, outcome : {"WIN", "LOSS", "NEUTRAL"},
                reason : Reasons, held : Nat]
  /\ over \in BOOLEAN /\ live \in TrailType /\ restarts \in 0 .. MaxRestarts

\* The trade log is a sequence of separate trades: none is left before it was
\* entered, none is entered before the one before it was left, and none stays
\* longer than the time exit allows.
TradesAreApart ==
  /\ trade.exitTime >= trade.entryTime
  /\ pos.open /\ trade # NoTrade => pos.time >= trade.exitTime
  /\ s.maxBars > 0 => /\ trade.held <= s.maxBars
                      /\ pos.open => i - pos.bar <= s.maxBars

\* When orders are filled at the close, no trade of the backtest ends beyond
\* its stop: whatever the bar showed first, the stop is looked at before every
\* other exit.  Only the trade that is entered and closed on the last bar may,
\* where the costs of its entry exceed the distance of its stop.
StopHolds ==
  trade # NoTrade /\ s.fillAt = "CLOSE" /\ (trade.held > 0 \/ s.cost = 0) =>
    AsBad(trade.side, trade.sl, trade.rawExit)

\* Without costs a trade reported as won lost nothing, one reported as lost
\* gained nothing.
OutcomeIsTheResult ==
  s.cost = 0 =>
    /\ trade.outcome = "WIN" => AsBad(trade.side, trade.entry, trade.rawExit)
    /\ trade.outcome = "LOSS" => AsBad(trade.side, trade.rawExit, trade.entry)

\* A ladder that is open has cost no more than the exposure its config was
\* accepted with, holds an average no worse than its base and no better than its last
\* fill, and its stop and its target lie on either side of that average.
LadderHolds ==
  pos.open /\ isDca =>
    LET c == s.dca.config
        orders == generateSafetyOrderSchedule(c, pos.base, pos.side)
        now == Ladder(c, pos.base, pos.side, pos.slPct, pos.filled)
    IN /\ now.cost <= calculateMaxExposure(c)
       /\ pos.filled > 0 => /\ AsBad(pos.side, orders[pos.filled].price, pos.entry)
                            /\ AsBad(pos.side, pos.entry, pos.base)
       /\ \A n \in DOMAIN orders : orders[n].price > 0
       /\ AsBad(pos.side, pos.sl, pos.entry) /\ AsBad(pos.side, pos.entry, pos.tp)

\* A trailing stop only ever follows the price in favour of the position.
Tightens ==
  pos.open /\ pos'.open /\ pos.trail.active =>
    pos'.trail.active /\ AsBad(pos.side, pos.trail.stop, pos'.trail.stop)

\* The live engine takes a position out on the bar, for the reason and at the
\* price of the backtest, as long as it has not been restarted: with orders
\* filled at the close, no costs and no ladder (exitEngine.ts: "mirrors the
\* exact same priority and condition semantics as runDslBacktest").
Parity ==
  /\ s.fillAt = "CLOSE" /\ s.cost = 0 /\ ~isDca /\ restarts = 0
  /\ verdicts[1].reason # "end_of_data"
  => verdicts[1] = verdicts[2]

\* Costs shave the trades of both sides (docs/46-backtest-realism-plan.md: for
\* a short "symmetrically"; the comment above entryMult: "Symmetric round-trip
\* cost").  They do not: a short is credited with them.
CostsShave ==
  trade # NoTrade /\ ~isDca =>
    Gain(trade.side, trade.entry, trade.exit) <= Gain(trade.side, trade.raw, trade.rawExit)
==============================================================================
