------------------------------- MODULE MCLabParts -------------------------------
(* The parts of the lab that are proved about: the compiled versions and their *)
(* baseline, the jobs, the datasets, the presets, the draft of the editor, the *)
(* grids of sweeps and folds of walk-forwards, and the trades of a backtest.   *)
(* They share no row their specifications speak of, so each behaviour follows  *)
(* one of them, chosen from Focus, and the others stay as they are.  MCLab     *)
(* gives the constants values and adds the canvas and the indicators; its      *)
(* behaviours are behaviours of PartsSpec.                                     *)
EXTENDS Integers, Sequences, FiniteSets

CONSTANTS Focus,
  Editors, VersionGraphs, Names, NameOf, MaxVersion,
  Posts, Jobs, RunCount, Scores, Null, MaxThrows, MaxFaults,
  Requests, Backtests, Ranges, Last, Keep,
  Users, Suffixes, Bodies, Overrides,
  Graphs, First, Saves, MaxEdits, MaxMoves, MaxRefused,
  SweepRanges, MaxParams, MaxRuns, Blocks, MaxDatasetBars, Htf, Reports, NoRatio,
  Prices, Atrs, Strategies, MaxBars, MaxRestarts

VARIABLES part, faults,
  strategies, versions, graphVersions, edit, overlap,
  job, runner, writes, request, rush,
  clock, candles, purged, dataset, fetching, cache, backtest,
  presets, step, asked, chosen, suffix, tx, owned, firstVersions, bots,
  draft, past, saveState, changed, compiled, saveTimer, calls, compile, move, server,
  draftEdits, moves, draftFaults, crossed,
  sweep, folds, walk,
  strategy, bar, opening, position, trade, ended, trailing, verdicts, restarts

ASSUME LabConstants ==
  /\ NameOf \in [VersionGraphs -> Names] /\ VersionGraphs # {} /\ MaxVersion \in Nat
  /\ IsFiniteSet(Jobs) /\ RunCount \in Nat /\ Scores \subseteq Int /\ Null \notin Scores
  /\ Ranges # {} /\ \A r \in Ranges : r.from \in Nat /\ r.to \in Nat
  /\ First \in Graphs /\ Saves # {}

\* The bounds of the runs; time goes on from 1.
ASSUME BoundConstants ==
  /\ {MaxThrows, MaxFaults, MaxEdits, MaxMoves, MaxRefused} \subseteq Nat
  /\ Last \in Nat \ {0}

\* Results are numbers, of a sharpe that may be missing.
ASSUME GridConstants ==
  /\ MaxDatasetBars \in Nat /\ Htf \in Nat \ {0} /\ NoRatio \notin Int
  /\ \A r \in Reports : r.pnl \in Int /\ r.sharpe \in Int \cup {NoRatio}

\* Prices are positive; the parser lets no negative level or share through, and
\* a base order buys something at every price.
ASSUME TradeConstants ==
  /\ Prices \subseteq Nat \ {0} /\ Atrs \subseteq Nat /\ MaxBars \in Nat \ {0} /\ MaxRestarts \in Nat
  /\ \A t \in Strategies :
       /\ t.sides \subseteq {"long", "short"} /\ t.cost \in Nat /\ t.maxBars \in Nat
       /\ t.sl.value \in Nat /\ t.tp.value \in Nat /\ t.exits \subseteq BOOLEAN
       /\ t.trail.on \in BOOLEAN /\ t.trail.activation \in Nat /\ t.trail.callback \in Nat
       /\ t.dca.on \in BOOLEAN
       /\ t.dca.config \in [base : Nat, max : Nat, step : Nat, stepScale : Nat,
                            volumeScale : Nat, tp : Nat]
       /\ t.dca.on => \A p \in Prices : p + (p * t.cost) \div 100 <= t.dca.config.base

Version == INSTANCE LabVersions WITH Graphs <- VersionGraphs
Job == INSTANCE LabJobs
Data == INSTANCE Datasets
Preset == INSTANCE Presets WITH strategies <- owned, versions <- firstVersions
Draft == INSTANCE LabDraft WITH
  edits <- draftEdits, faults <- draftFaults, overlap <- crossed, MaxFaults <- MaxRefused
Grid == INSTANCE LabGrid WITH Ranges <- SweepRanges, MaxBars <- MaxDatasetBars
Trade == INSTANCE Backtest WITH
  s <- strategy, i <- bar, open <- opening, pos <- position, over <- ended, live <- trailing

-----------------------------------------------------------------------------
Of(p) == part = p /\ part' = p

versionVars == <<strategies, versions, graphVersions, edit, overlap>>
jobVars == <<job, runner, writes, request, rush, faults>>
dataVars == <<clock, candles, purged, dataset, fetching, cache, backtest>>
presetVars == <<presets, step, asked, chosen, suffix, tx, owned, firstVersions, bots>>
draftVars == <<draft, past, saveState, changed, compiled, saveTimer, calls, compile, move,
               server, draftEdits, moves, draftFaults, crossed>>
gridVars == <<sweep, folds, walk>>
tradeVars == <<strategy, bar, opening, position, trade, ended, trailing, verdicts, restarts>>
rowVars == <<versionVars, jobVars, dataVars, presetVars, draftVars>>
partVars == <<rowVars, gridVars, tradeVars>>

PartsInit ==
  /\ part \in Focus
  /\ Version!Init /\ Job!Init /\ Data!Init /\ Preset!Init /\ Draft!Init
  /\ Grid!Init /\ Trade!Init

RowsNext ==
  \/ /\ Of("versions") /\ Version!Next
     /\ UNCHANGED <<jobVars, dataVars, presetVars, draftVars>>
  \/ /\ Of("jobs") /\ Job!Next
     /\ UNCHANGED <<versionVars, dataVars, presetVars, draftVars>>
  \/ /\ Of("datasets") /\ Data!Next
     /\ UNCHANGED <<versionVars, jobVars, presetVars, draftVars>>
  \/ /\ Of("presets") /\ Preset!Next
     /\ UNCHANGED <<versionVars, jobVars, dataVars, draftVars>>
  \/ /\ Of("draft") /\ Draft!Next
     /\ UNCHANGED <<versionVars, jobVars, dataVars, presetVars>>

PartsNext ==
  \/ RowsNext /\ UNCHANGED <<gridVars, tradeVars>>
  \/ Of("grid") /\ Grid!Next /\ UNCHANGED <<rowVars, tradeVars>>
  \/ Of("trade") /\ Trade!Next /\ UNCHANGED <<rowVars, gridVars>>

PartsSpec == PartsInit /\ [][PartsNext]_<<part, partVars>>

-----------------------------------------------------------------------------
(* Properties                                                                *)

\* What is asked of each part holds while a behaviour follows it: the variables
\* of the others do not move.
In(p, P) == part = p => P

\* The state of each part stays within its range: a dataset's hash is of candles
\* of its range, a job's progress within its runs, a ladder within its orders.
TypeOK ==
  /\ In("versions", Version!TypeOK) /\ In("jobs", Job!TypeOK) /\ In("datasets", Data!TypeOK)
  /\ In("presets", Preset!TypeOK) /\ In("draft", Draft!TypeOK) /\ In("trade", Trade!TypeOK)

\* What a result can be traced to: versions are dense, a compiled graph version
\* is of one strategy version and the baseline is one (lab.ts); a dataset's
\* hash and quality report are of candles that were stored under it
\* (datasets.ts); a preset's bot is whole (presets.ts).
LabTraces ==
  /\ In("versions", Version!VersionsDense /\ Version!OneGraphVersionEach /\ Version!OneBaseline)
  /\ In("datasets", Data!HashIsStored /\ Data!ReportIsOfItsHash)
  /\ In("presets", Preset!PresetBotsAreWhole)

\* At most two sweeps run, unless two guards overlapped; a DONE sweep has run
\* every combination once and names the first of the best (lab.ts).
SweepsComplete == In("jobs", Job!TwoOfAKind /\ Job!SweepIsComplete)

\* Autosave (useLabGraphStore.ts): a graph is never stored in another graph's
\* row, and "clean" is said of stored content unless requests overlapped.
DraftIsKept == In("draft", Draft!ContentKeepsToItsGraph /\ Draft!SavedIsSaved)

\* What is computed: trades of a backtest do not overlap, no bar passes a stop,
\* the outcome is the sign of the result, a ladder stays in its bounds
\* (dslEvaluator.ts); the folds of a walk-forward do not test on what they were
\* fitted to, and its numbers are of its folds (walkForward/).
ResultsHold ==
  /\ In("trade", Trade!TradesAreApart /\ Trade!StopHolds /\ Trade!OutcomeIsTheResult
                 /\ Trade!LadderHolds)
  /\ In("grid", Grid!FoldsAreHonest /\ Grid!AggregateIsOfFolds)

\* A backtest takes a position out as the live worker does: on the same bar, for
\* the reason and at the price exitEngine.ts decides.
Parity == In("trade", Trade!Parity)
==============================================================================
