----------------------------- MODULE FundingScan -----------------------------
(* The pure part of funding arbitrage: the scanner that ranks symbols         *)
(* (lib/funding/scanner.ts), the planner that enters, exits and settles a     *)
(* hedge (hedgePlanner.ts) and the classification of the balances before an   *)
(* entry (exchange/balanceReconciler.ts).  Rates are in units of 0.00001,    *)
(* yields in thousandths of a percent, a basis in bps.                        *)
EXTENDS Integers, Sequences, FiniteSets, FiniteSetsExt, SequencesExt

CONSTANTS Symbols, Rates, Bases,   \* of the market data enumerated
          MaxSnaps, TopN,
          Prices                   \* of the hedge whose P&L is computed

VARIABLES data,      \* symbol -> [rates, basis]: its snapshots, oldest first
          holding,   \* [perp, spot]: quantities in thousandths
          hedge      \* the planned HedgePosition

vars == <<data, holding, hedge>>

-----------------------------------------------------------------------------
(* scanner.ts                                                                *)

PeriodsPerYear == 1095
AbsInt(n) == IF n < 0 THEN -n ELSE n
Sign(n) == IF n > 0 THEN 1 ELSE IF n < 0 THEN -1 ELSE 0
AnnualizedYield(rate) == rate * PeriodsPerYear     \* percent / 1000

\* The run of equal signs that ends at the last snapshot; a zero stands alone.
FundingStreak(rates) ==
  LET n == Len(rates)
      run == {k \in 1..n : \A i \in k..n : Sign(rates[i]) = Sign(rates[n])}
  IN IF n = 0 THEN 0 ELSE IF rates[n] = 0 THEN 1 ELSE n - Min(run) + 1

Candidate(sym, d) ==
  [symbol |-> sym, basis |-> d.basis, streak |-> FundingStreak(d.rates),
   yield |-> IF d.rates = <<>> THEN 0 ELSE AnnualizedYield(Last(d.rates))]

\* With the default thresholds.
Qualifies(c) == /\ AbsInt(c.yield) >= 5000
                /\ AbsInt(c.basis) <= 50
                /\ c.streak >= 3

\* Sorted by absolute yield, equal ones in some order, and cut.
Ordered(s) == \A i, j \in DOMAIN s : i < j => AbsInt(s[i].yield) >= AbsInt(s[j].yield)
Rank(cs) ==
  LET sorted == CHOOSE s \in SetToSeqs(cs) : Ordered(s)
  IN SubSeq(sorted, 1, Min({TopN, Cardinality(cs)}))

Candidates(d) == {Candidate(sym, d[sym]) : sym \in DOMAIN d}
ScanFundingCandidates(d) == Rank({c \in Candidates(d) : Qualifies(c)})

-----------------------------------------------------------------------------
(* hedgePlanner.ts                                                           *)

\* Only positive funding is entered: the short perp collects it.
ShouldEnterHedge(c) ==
  /\ c.yield >= 10000 /\ AbsInt(c.basis) <= 30 /\ c.streak >= 3

NoLeg == [price |-> 0, quantity |-> 0, fee |-> 0]
Leg(price, quantity) == [price |-> price, quantity |-> quantity, fee |-> 1]
PlanHedge ==
  [status |-> "PLANNED", spotLeg |-> NoLeg, perpLeg |-> NoLeg,
   spotCloseLeg |-> NoLeg, perpCloseLeg |-> NoLeg, funding |-> 0]

ApplySpotFill(h, fill) ==
  [h EXCEPT !.spotLeg = fill,
            !.status = IF h.perpLeg # NoLeg THEN "OPEN" ELSE "OPENING"]
ApplyPerpFill(h, fill) ==
  [h EXCEPT !.perpLeg = fill,
            !.status = IF h.spotLeg # NoLeg THEN "OPEN" ELSE "OPENING"]
FinalizeClose(h, spot, perp) ==
  [h EXCEPT !.status = "CLOSED", !.spotCloseLeg = spot, !.perpCloseLeg = perp]

\* shouldExitHedge, of an open position: the first reason that holds.
ExitReason(h, yield, basis, held, maxHold) ==
  CASE h.status # "OPEN" -> "none"
    [] h.status = "OPEN" /\ yield < 2000 -> "funding_deteriorated"
    [] h.status = "OPEN" /\ yield >= 2000 /\ AbsInt(basis) > 100 -> "basis_widened"
    [] OTHER -> IF held > maxHold THEN "max_hold_exceeded" ELSE "none"

FeesOf(h) == h.spotLeg.fee + h.perpLeg.fee + h.spotCloseLeg.fee + h.perpCloseLeg.fee
ComputeHedgePnl(h) ==
  IF h.status # "CLOSED" THEN 0
  ELSE h.funding + (h.spotCloseLeg.price - h.spotLeg.price) * h.spotLeg.quantity
       + (h.perpLeg.price - h.perpCloseLeg.price) * h.perpLeg.quantity - FeesOf(h)

-----------------------------------------------------------------------------
(* balanceReconciler.ts                                                      *)

\* A mismatch of half a percent of the larger side is tolerated.
Classify(b) ==
  CASE b.perp = 0 /\ b.spot = 0 -> "flat"
    [] b.perp # 0 /\ b.spot = 0 -> "perp_only"
    [] b.perp = 0 /\ b.spot > 0 -> "spot_only"
    [] OTHER -> IF 1000 * AbsInt(AbsInt(b.perp) - b.spot)
                     <= 5 * Max({AbsInt(b.perp), b.spot})
                THEN "balanced" ELSE "imbalanced"

-----------------------------------------------------------------------------
(* One evaluation of each for every input                                    *)

RateSeqs == UNION {[1..n -> Rates] : n \in 0..MaxSnaps}
Quiet == [sym \in Symbols |-> [rates |-> <<>>, basis |-> 0]]
Flat == [perp |-> 0, spot |-> 0]

Init == data = Quiet /\ holding = Flat /\ hedge = PlanHedge

Observe ==
  /\ data = Quiet /\ hedge = PlanHedge
  /\ data' \in [Symbols -> [rates : RateSeqs, basis : Bases]]
  /\ UNCHANGED <<holding, hedge>>

Reconcile ==
  /\ holding = Flat /\ data = Quiet /\ hedge = PlanHedge
  /\ holding' \in [perp : {-1000, -996, -995, 0, 1000}, spot : {0, 995, 996, 1000, 1005, 1010}]
  /\ UNCHANGED <<data, hedge>>

SpotFills == /\ hedge.status \in {"PLANNED", "OPENING"} /\ hedge.spotLeg = NoLeg
             /\ \E p \in Prices : hedge' = ApplySpotFill(hedge, Leg(p, 2))
PerpFills == /\ hedge.status \in {"PLANNED", "OPENING"} /\ hedge.perpLeg = NoLeg
             /\ \E p \in Prices : hedge' = ApplyPerpFill(hedge, Leg(p, 2))
Pays == /\ hedge.status = "OPEN" /\ hedge.funding < 2
        /\ hedge' = [hedge EXCEPT !.funding = hedge.funding + 1]
Closes == /\ hedge.status = "OPEN"
          /\ \E p, q \in Prices : hedge' = FinalizeClose(hedge, Leg(p, 2), Leg(q, 2))

Hedging == /\ data = Quiet /\ holding = Flat
           /\ SpotFills \/ PerpFills \/ Pays \/ Closes
           /\ UNCHANGED <<data, holding>>

Next == Observe \/ Reconcile \/ Hedging

-----------------------------------------------------------------------------
(* Properties                                                                *)

\* The ranking, against its definition: what is listed qualifies, is ordered
\* by yield, and nothing that qualifies and is left out yields more than what
\* is listed; and with a short list nothing that should be entered is missing.
RankingIsTop ==
  LET list == ScanFundingCandidates(data)
      listed == ToSet(list)
      all == {Candidate(sym, data[sym]) : sym \in Symbols}
      good == {c \in all : AbsInt(c.yield) >= 5000 /\ AbsInt(c.basis) <= 50 /\ c.streak >= 3}
  IN /\ listed \subseteq good /\ Len(list) = Cardinality(listed)
     /\ Len(list) = Min({TopN, Cardinality(good)})
     /\ \A i, j \in 1..Len(list) : i < j => AbsInt(list[i].yield) >= AbsInt(list[j].yield)
     /\ \A c \in good \ listed, l \in listed : AbsInt(c.yield) <= AbsInt(l.yield)
     /\ \A c \in all : ShouldEnterHedge(c) => c \in listed \/ Len(list) = TopN

\* Whatever order the legs fill in, a hedge of equal quantities earns what the
\* basis narrowed by, and the funding, less the fees: the price itself cancels.
PnlIsBasis ==
  hedge.status = "CLOSED" =>
    LET basis(perp, spot) == perp.price - spot.price
    IN ComputeHedgePnl(hedge) =
         hedge.funding - 4
         + 2 * (basis(hedge.perpLeg, hedge.spotLeg)
                - basis(hedge.perpCloseLeg, hedge.spotCloseLeg))

\* Nobody calls a one-sided or lopsided account balanced.
BalancedIsHedged ==
  Classify(holding) = "balanced" =>
    LET a == AbsInt(holding.perp) IN
      holding.spot > 0 /\ a > 0 /\ 200 * AbsInt(a - holding.spot) <= Max({a, holding.spot})

\* Exits are asked of open hedges only, and a hedge that would be entered now
\* is not told to leave for its funding or its basis.
EntryIsNoExit ==
  \A c \in {Candidate(sym, data[sym]) : sym \in Symbols} :
    /\ hedge.status # "OPEN" => ExitReason(hedge, c.yield, c.basis, 9, 0) = "none"
    /\ ShouldEnterHedge(c)
         => ExitReason([hedge EXCEPT !.status = "OPEN"], c.yield, c.basis, 0, 0) = "none"
=============================================================================
