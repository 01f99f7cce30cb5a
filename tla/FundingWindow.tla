---------------------------- MODULE FundingWindow ----------------------------
(* When the hedge worker believes that funding is due or paid: the ingestion  *)
(* cron (server.ts, lib/funding/ingestJob.ts, fetcher.ts) and the detector    *)
(* (lib/funding/windowDetector.ts) on one clock.  Funding settles at every    *)
(* multiple of Period; the venue publishes the rate and pays a little later.  *)
EXTENDS Integers, FiniteSets, FiniteSetsExt

CONSTANTS Period,        \* between two settlements (8 h)
          PreBuffer,     \* ENTRY_PRE_BUFFER_MS
          Lag, Window,   \* PAYMENT_LAG_MS, PAYMENT_WINDOW_MS
          Horizon,       \* bound of the clock
          MaxFaults      \* bound: failed fetches and failed ledger queries

VARIABLES
  now,
  published, paid,   \* settlements in the funding history, in the ledger
  ingest,               \* ingestion: "idle" | "retry" (one fetch has failed)
                     \*          | "fetched" | "done" (for this cron firing)
  fetched, snaps,    \* settlements the ingest holds; FundingSnapshot timestamps
  window,            \* what the last tick with credentials was told
  reported, opened,  \* settlements whose payment, or entry window, a tick saw
  faults

vars == <<now, published, paid, ingest, fetched, snaps, window, reported, opened, faults>>
venue == <<published, paid>>
ticks == <<window, reported, opened>>

Settlements == {s \in 0..Horizon : s % Period = 0}
Past == {s \in Settlements : s <= now}
NoFunding == -1
NoWindow == [at |-> NoFunding, open |-> FALSE, payment |-> FALSE, next |-> NoFunding, source |-> "proxy"]

Init ==
  /\ now = 1 /\ published = {0} /\ paid = {0}
  /\ ingest = "done" /\ fetched = {} /\ snaps \in {{}, {0}}
  /\ window = NoWindow /\ reported = {} /\ opened = {}
  /\ faults = 0

-----------------------------------------------------------------------------
(* The clock, the venue, the cron                                            *)

\* The job ends well within a unit of time, and the venue has published and
\* paid before the next one ends.
Advance ==
  /\ now < Horizon
  /\ ingest \in {"idle", "done"} /\ (now % Period = 0 => ingest = "done")
  /\ {s \in Past : s < now} \subseteq published \cap paid
  /\ now' = now + 1
  /\ ingest' = "idle"
  /\ fetched' = {}
  /\ UNCHANGED <<venue, snaps, ticks, faults>>

Publish ==
  /\ published' = Past /\ published' # published
  /\ UNCHANGED <<now, paid, ingest, fetched, snaps, ticks, faults>>

Pay ==
  /\ paid' = Past /\ paid' # paid
  /\ UNCHANGED <<now, published, ingest, fetched, snaps, ticks, faults>>

\* "0 */8 * * *": the ingest starts at the settlement; fetchWithRetry asks twice.
Fetch ==
  /\ now % Period = 0 /\ ingest \in {"idle", "retry"}
  /\ \/ /\ fetched' = published /\ ingest' = "fetched"
        /\ UNCHANGED faults
     \/ /\ faults < MaxFaults /\ faults' = faults + 1
        /\ ingest' = IF ingest = "idle" THEN "retry" ELSE "done"
        /\ UNCHANGED fetched
  /\ UNCHANGED <<now, venue, snaps, ticks>>

\* createMany, skipping what is stored.
Insert ==
  /\ ingest = "fetched" /\ ingest' = "done"
  /\ snaps' = snaps \cup fetched
  /\ UNCHANGED <<now, venue, fetched, ticks, faults>>

-----------------------------------------------------------------------------
(* detectFundingWindow                                                       *)

\* parseFundingHistoryItem: the rate of s says that s + Period is next.
NextFunding == Max(snaps) + Period
Open(next) == next - now > 0 /\ next - now <= PreBuffer
ProxyPaid(next) == now - next >= Lag /\ now - next <= Window
LedgerPaidAnyTime(next) == \E s \in paid : s <= now   \* mutant: no startTime
\* A SETTLEMENT row from a little before the settlement on.
LedgerPaid(next) == \E s \in paid : s >= next /\ s <= now

WindowAt(payment, source) ==
  [at |-> now, open |-> Open(NextFunding), payment |-> payment,
   next |-> NextFunding, source |-> source]

\* With credentials: no query before the settlement, the ledger after it, and
\* the proxy when the query fails.
Detect ==
  /\ IF snaps = {} THEN window' = [NoWindow EXCEPT !.at = now] /\ UNCHANGED faults
     ELSE \/ /\ now - NextFunding <= 0
             /\ window' = WindowAt(FALSE, "proxy") /\ UNCHANGED faults
          \/ /\ now - NextFunding > 0
             /\ window' = IF LedgerPaid(NextFunding) THEN WindowAt(TRUE, "ledger")
                          ELSE WindowAt(FALSE, "ledger-empty")
             /\ UNCHANGED faults
          \/ /\ now - NextFunding > 0 /\ faults < MaxFaults /\ faults' = faults + 1
             /\ window' = WindowAt(ProxyPaid(NextFunding), "proxy")
  /\ reported' = IF window'.payment THEN reported \cup {window'.next} ELSE reported
  /\ opened' = IF window'.open THEN opened \cup {window'.next} ELSE opened
  /\ UNCHANGED <<now, venue, ingest, fetched, snaps>>

Next == Advance \/ Publish \/ Pay \/ Fetch \/ Insert \/ Detect

-----------------------------------------------------------------------------
(* Properties                                                                *)

TypeOK ==
  /\ now \in 0..Horizon /\ {published, paid, snaps, fetched} \subseteq SUBSET Settlements
  /\ ingest \in {"idle", "retry", "fetched", "done"}
  /\ window.source \in {"proxy", "ledger", "ledger-empty"} /\ faults \in 0..MaxFaults

\* The detector never confuses two settlements: what it reports as paid is a
\* settlement that has passed, and, when the ledger said so, one that was paid
\* then or later; what it calls open lies ahead.
SignalsAreOfTheirSettlement ==
  /\ window.payment => /\ window.next < window.at
                       /\ window.source = "ledger" => \E s \in paid : s >= window.next
  /\ window.open => window.at < window.next /\ window.at >= window.next - PreBuffer

\* One snapshot serves one purpose.  The cron that fires at the settlement
\* either already finds its rate, and then the payment is not seen and the
\* next entry window is, or it does not, and then the payment is seen and the
\* next entry window is not.
PaymentOrEntry == \A s \in reported : s + Period \notin opened
=============================================================================
