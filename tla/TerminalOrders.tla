---------------------------- MODULE TerminalOrders ----------------------------
(* Manual orders of the terminal (routes/terminal.ts, lib/bybitOrder.ts) on   *)
(* one exchange connection (routes/exchanges.ts): POST handlers, status       *)
(* syncs, connection tests and credential rotations, interleaved with what    *)
(* the venue does to the orders.                                              *)
EXTENDS Integers, FiniteSets

CONSTANTS Posts, Syncs, Tests,   \* POST /orders, GET /orders/:id, POST /:id/test
          Creds, ValidCreds,     \* credentials 1..n, and those the venue takes
          MaxFaults              \* bound: lost answers, failed writes, crashes

VARIABLES
  conn,       \* [cred, status] of the connection; cred = 0 once deleted
  tried,      \* credentials a call has succeeded with (history)
  overlapped, \* credentials were rotated while a call used others (history)
  post,       \* POST -> its handler: [pc, cred, auth]
  row,        \* POST -> status of its TerminalOrder, and "none"
  known,      \* rows with an exchangeOrderId
  venue,      \* POST -> raw order status at the venue, and "none"
  unsure,     \* orders whose answer or row update failed (history)
  sync,       \* GET -> [pc, of, read, got]
  test,       \* test -> [pc, cred, ok]
  faults

vars == <<conn, tried, overlapped, post, row, known, venue, unsure, sync, test, faults>>
orders == <<row, known, unsure>>
others == <<sync, test>>

Gone == 0
OpenRow == {"SUBMITTED", "PARTIALLY_FILLED"}
FinalRow == {"FILLED", "CANCELLED", "REJECTED"}
Raw == {"Untriggered", "New", "PartiallyFilled", "Filled", "Cancelled",
        "Deactivated", "Rejected", "Triggered"}

MapRaw(r) == r    \* mutant: what the venue says is stored

MapBybitStatus(r) ==
  CASE r = "PartiallyFilled" -> "PARTIALLY_FILLED"
    [] r = "Filled" -> "FILLED"
    [] r \in {"Cancelled", "Deactivated"} -> "CANCELLED"
    [] r = "Rejected" -> "REJECTED"
    [] OTHER -> "SUBMITTED"

IdlePost == [pc |-> "idle", cred |-> Gone, auth |-> FALSE]
IdleSync == [pc |-> "idle", of |-> CHOOSE h \in Posts : TRUE, read |-> "none",
             got |-> "none"]
IdleTest == [pc |-> "idle", cred |-> Gone, ok |-> FALSE]

Init ==
  /\ conn = [cred |-> 1, status |-> "UNKNOWN"]
  /\ tried = {} /\ overlapped = FALSE
  /\ post = [h \in Posts |-> IdlePost]
  /\ row = [h \in Posts |-> "none"] /\ known = {}
  /\ venue = [h \in Posts |-> "none"]
  /\ unsure = {}
  /\ sync = [g \in Syncs |-> IdleSync]
  /\ test = [t \in Tests |-> IdleTest]
  /\ faults = 0

Fault == faults < MaxFaults /\ faults' = faults + 1

-----------------------------------------------------------------------------
(* POST /terminal/orders                                                     *)

SetPost(h, pc, auth) ==
  post' = [post EXCEPT ![h].pc = pc, ![h].auth = auth]

\* A valid body: the connection is read and its secret decrypted.  Then the
\* instrument is awaited; normalizeOrder may refuse the order (422).
Submit(h) ==
  /\ post[h].pc = "idle" /\ row[h] = "none" /\ conn.cred # Gone
  /\ post' = [post EXCEPT ![h] = [pc |-> "read", cred |-> conn.cred, auth |-> FALSE]]
  /\ UNCHANGED <<conn, tried, overlapped, orders, venue, others, faults>>

Refuse(h) ==
  /\ post[h].pc = "read"
  /\ SetPost(h, "idle", FALSE)
  /\ UNCHANGED <<conn, tried, overlapped, orders, venue, others, faults>>

\* The foreign key makes the insert fail when the connection is gone.
CreatePending(h) ==
  /\ post[h].pc = "read"
  /\ IF conn.cred = Gone THEN SetPost(h, "idle", FALSE) /\ UNCHANGED row
     ELSE SetPost(h, "created", FALSE) /\ row' = [row EXCEPT ![h] = "PENDING"]
  /\ UNCHANGED <<conn, tried, overlapped, known, unsure, venue, others, faults>>

\* assertTradingEnabled, then the order: refused by the venue (with an
\* authentication error for a bad key) or placed, and the answer may be lost.
Place(h) ==
  /\ post[h].pc = "created"
  /\ \/ /\ SetPost(h, "failed", post[h].cred \notin ValidCreds)
        /\ UNCHANGED <<tried, unsure, venue, faults>>
     \/ /\ post[h].cred \in ValidCreds
        /\ venue' = [venue EXCEPT ![h] = "New"]
        /\ tried' = tried \cup {post[h].cred}
        /\ \/ SetPost(h, "placed", FALSE) /\ UNCHANGED <<unsure, faults>>
           \/ Fault /\ SetPost(h, "failed", FALSE) /\ unsure' = unsure \cup {h}
  /\ UNCHANGED <<conn, overlapped, row, known, others>>

\* The row becomes SUBMITTED, then the connection CONNECTED; an error of
\* either write is caught as if the venue had refused.
Record(h) ==
  /\ post[h].pc = "placed"
  /\ \/ /\ row' = [row EXCEPT ![h] = "SUBMITTED"] /\ known' = known \cup {h}
        /\ SetPost(h, "recorded", FALSE)
        /\ UNCHANGED <<unsure, faults>>
     \/ /\ Fault /\ SetPost(h, "failed", FALSE) /\ unsure' = unsure \cup {h}
        /\ UNCHANGED <<row, known>>
  /\ UNCHANGED <<conn, tried, overlapped, venue, others>>

SetStatus(status) == conn' = [conn EXCEPT !.status = status]

MarkConnected(h) ==
  /\ post[h].pc = "recorded"
  /\ \/ SetStatus("CONNECTED") /\ SetPost(h, "idle", FALSE) /\ UNCHANGED <<unsure, faults>>
     \/ /\ Fault /\ SetPost(h, "failed", FALSE) /\ unsure' = unsure \cup {h}
        /\ UNCHANGED conn
  /\ UNCHANGED <<tried, overlapped, row, known, venue, others>>

\* The catch block: the row is FAILED whatever the venue holds.
RecordFailure(h) ==
  /\ post[h].pc = "failed"
  /\ row' = [row EXCEPT ![h] = "FAILED"]
  /\ SetPost(h, IF post[h].auth THEN "denied" ELSE "idle", FALSE)
  /\ UNCHANGED <<conn, tried, overlapped, known, venue, unsure, others, faults>>

MarkFailed(h) ==
  /\ post[h].pc = "denied"
  /\ IF conn.cred = Gone THEN UNCHANGED conn ELSE SetStatus("FAILED")
  /\ SetPost(h, "idle", FALSE)
  /\ UNCHANGED <<tried, overlapped, orders, venue, others, faults>>

\* The API dies: every handler is gone and nothing takes up a PENDING row.
Crash ==
  /\ Fault
  /\ post' = [h \in Posts |-> IdlePost]
  /\ sync' = [g \in Syncs |-> IdleSync]
  /\ test' = [t \in Tests |-> IdleTest]
  /\ unsure' = unsure \cup {h \in Posts : post[h].pc # "idle"}
  /\ UNCHANGED <<conn, tried, overlapped, row, known, venue>>

-----------------------------------------------------------------------------
(* GET /terminal/orders/:id                                                  *)

SyncRead(g, h) ==
  /\ sync[g].pc = "idle" /\ h \in known /\ row[h] \in OpenRow
  /\ sync' = [sync EXCEPT ![g] = [pc |-> "read", of |-> h, read |-> row[h],
                                  got |-> "none"]]
  /\ UNCHANGED <<conn, tried, overlapped, post, orders, venue, test, faults>>

\* bybitGetOrderStatus: history, then the open orders; an error is not fatal.
SyncAsk(g) ==
  /\ sync[g].pc = "read"
  /\ \/ sync' = [sync EXCEPT ![g].pc = "asked", ![g].got = venue[sync[g].of]]
     \/ sync' = [sync EXCEPT ![g] = IdleSync]
  /\ UNCHANGED <<conn, tried, overlapped, post, orders, venue, test, faults>>

\* The update does not look at the row again.
SyncWrite(g) ==
  /\ sync[g].pc = "asked"
  /\ LET mapped == MapBybitStatus(sync[g].got) IN
       row' = IF mapped = sync[g].read THEN row
              ELSE [row EXCEPT ![sync[g].of] = mapped]
  /\ sync' = [sync EXCEPT ![g] = IdleSync]
  /\ UNCHANGED <<conn, tried, overlapped, post, known, unsure, venue, test, faults>>

\* The venue works the order.
VenueStep(h) ==
  /\ \E r \in CASE venue[h] = "New" -> Raw \ {"New"}
                [] venue[h] = "Untriggered" -> {"Triggered", "Deactivated"}
                [] venue[h] = "Triggered" -> {"PartiallyFilled", "Filled", "Cancelled"}
                [] venue[h] = "PartiallyFilled" -> {"Filled", "Cancelled"}
                [] OTHER -> {} :
       venue' = [venue EXCEPT ![h] = r]
  /\ UNCHANGED <<conn, tried, overlapped, post, orders, others, faults>>

-----------------------------------------------------------------------------
(* The connection                                                            *)

CredsInUse == {post[h].cred : h \in {p \in Posts : post[p].pc # "idle"}}
              \cup {test[t].cred : t \in {u \in Tests : test[u].pc # "idle"}}

RotateKeepingStatus ==     \* mutant: the old verdict stays
  /\ conn.cred # Gone /\ conn.cred + 1 \in Creds
  /\ conn' = [conn EXCEPT !.cred = conn.cred + 1]
  /\ overlapped' = (overlapped \/ CredsInUse # {})
  /\ UNCHANGED <<tried, post, orders, venue, others, faults>>

\* PATCH /exchanges/:id with new credentials.
Rotate ==
  /\ conn.cred # Gone /\ conn.cred + 1 \in Creds
  /\ conn' = [cred |-> conn.cred + 1, status |-> "UNKNOWN"]
  /\ overlapped' = (overlapped \/ CredsInUse # {})
  /\ UNCHANGED <<tried, post, orders, venue, others, faults>>

\* DELETE /exchanges/:id: restricted while an order refers to it.
Delete ==
  /\ conn.cred # Gone /\ \A h \in Posts : row[h] = "none"
  /\ conn' = [cred |-> Gone, status |-> "UNKNOWN"]
  /\ UNCHANGED <<tried, overlapped, post, orders, venue, others, faults>>

TestRead(t) ==
  /\ test[t].pc = "idle" /\ conn.cred # Gone
  /\ test' = [test EXCEPT ![t] = [pc |-> "read", cred |-> conn.cred, ok |-> FALSE]]
  /\ UNCHANGED <<conn, tried, overlapped, post, orders, venue, sync, faults>>

\* bybitVerifyApiKey never throws: a timeout or a bad key is a failed verdict.
TestVerify(t) ==
  /\ test[t].pc = "read"
  /\ \/ /\ test[t].cred \in ValidCreds
        /\ tried' = tried \cup {test[t].cred}
        /\ test' = [test EXCEPT ![t].pc = "verified", ![t].ok = TRUE]
     \/ test' = [test EXCEPT ![t].pc = "verified"] /\ UNCHANGED tried
  /\ UNCHANGED <<conn, overlapped, post, orders, venue, sync, faults>>

TestWrite(t) ==
  /\ test[t].pc = "verified"
  /\ IF conn.cred = Gone THEN UNCHANGED conn
     ELSE SetStatus(IF test[t].ok THEN "CONNECTED" ELSE "FAILED")
  /\ test' = [test EXCEPT ![t] = IdleTest]
  /\ UNCHANGED <<tried, overlapped, post, orders, venue, sync, faults>>

PostStep(h) == \/ CreatePending(h) \/ Place(h) \/ Record(h) \/ MarkConnected(h)
               \/ RecordFailure(h) \/ MarkFailed(h)
Next ==
  \/ \E h \in Posts : Submit(h) \/ Refuse(h) \/ PostStep(h) \/ VenueStep(h)
  \/ \E g \in Syncs, h \in Posts : SyncRead(g, h)
  \/ \E g \in Syncs : SyncAsk(g) \/ SyncWrite(g)
  \/ Rotate \/ Delete \/ Crash
  \/ \E t \in Tests : TestRead(t) \/ TestVerify(t) \/ TestWrite(t)

-----------------------------------------------------------------------------
(* Properties                                                                *)

TypeOK ==
  /\ conn \in [cred : Creds \cup {Gone}, status : {"UNKNOWN", "CONNECTED", "FAILED"}]
  /\ tried \subseteq ValidCreds /\ overlapped \in BOOLEAN
  /\ post \in [Posts -> [pc : {"idle", "read", "created", "placed", "recorded",
                               "failed", "denied"},
                         cred : Creds \cup {Gone}, auth : BOOLEAN]]
  /\ row \in [Posts -> {"none", "PENDING", "FAILED"} \cup OpenRow \cup FinalRow]
  /\ known \subseteq Posts /\ unsure \subseteq Posts
  /\ venue \in [Posts -> Raw \cup {"none"}]
  /\ faults \in 0..MaxFaults

\* A row never runs ahead of the venue, whatever order the answers of two
\* syncs are written in: a final row shows how the order really ended, and a
\* row in PARTIALLY_FILLED belongs to an order that has left New.
RowFollowsVenue ==
  \A h \in Posts :
    /\ row[h] \in FinalRow => MapBybitStatus(venue[h]) = row[h]
    /\ row[h] = "PARTIALLY_FILLED" => venue[h] \in {"PartiallyFilled", "Filled", "Cancelled"}
    /\ row[h] \in OpenRow => venue[h] # "none"

\* An order the API holds for FAILED or never submitted, with no request
\* working on it, is live at the venue only if an answer, a write or the API
\* itself was lost on the way.
FailedIsNotLive ==
  \A h \in Posts :
    row[h] \in {"none", "PENDING", "FAILED"} /\ post[h].pc = "idle"
      => venue[h] = "none" \/ h \in unsure

\* The status CONNECTED vouches for the stored credentials: a call has
\* succeeded with them, unless they were rotated while a call was out.
ConnectedHasWorked ==
  conn.status = "CONNECTED" => conn.cred \in tried \/ overlapped

\* A PENDING order is decided unless the API dies on it or loses an answer.
PendingEnds == \A h \in Posts : row[h] = "PENDING" ~> (row[h] # "PENDING" \/ h \in unsure)
=============================================================================
