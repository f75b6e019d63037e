----------------------------- MODULE LiveEvents -----------------------------
(***************************************************************************)
(* Server-sent events to one user's browsers.  A new stream registers for  *)
(* live events at once and buffers them while it reads the durable         *)
(* notifications after the browser's Last-Event-ID; then it writes those,  *)
(* flushes the buffer without what it just wrote, and goes live.           *)
(* Notifications are committed by worker processes and reach this process  *)
(* through Redis, in any order, or not at all.                             *)
(***************************************************************************)
EXTENDS Naturals, Sequences, SequencesExt, FiniteSets

CONSTANTS
    LastNotice,       \* notifications are 1..LastNotice, ordered by (createdAt, id)
    Streams,          \* response objects of the user's connections
    MaxConnections,   \* MAX_SSE_CONNECTIONS_PER_USER, 10 in the code
    PageSize,         \* take, 100 in the code
    MaxPending,       \* MAX_PENDING_EVENTS, 1000 in the code
    MaxConnects       \* bound: connections a browser makes

ASSUME LiveAssumption ==
    LastNotice \in Nat /\ MaxConnections \in Nat /\ PageSize \in Nat
    /\ MaxPending \in Nat /\ MaxConnects \in Nat

Notices == 1..LastNotice

VARIABLES
    committed,   \* notifications: rows other transactions see
    onAir,       \* published to Redis, and not yet received here
    stream,      \* what each connection is doing
    browser      \* each connection's reader: its Last-Event-ID and all it has read

liveVars == <<committed, onAir, stream, browser>>

\* replayed is the page read from the database, written what the response carries,
\* flushed how much of that was written by the end of the replay, and heard the
\* broadcasts this connection was registered for (history).
Closed == [at |-> "closed", replayed |-> <<>>, pending |-> <<>>, written |-> <<>>,
           flushed |-> 0, heard |-> {}]

LiveInit ==
    /\ committed = {}
    /\ onAir = {}
    /\ stream = [s \in Streams |-> Closed]
    /\ browser = [s \in Streams |-> [cursor |-> 0, read |-> {}, connects |-> 0]]

-----------------------------------------------------------------------------
(* Workers and Redis *)

\* createdAt is set when the consumer's transaction starts: rows need not
\* become visible in that order.  The announcement may be lost with its process.
CommitNotice(n) ==
    /\ n \notin committed
    /\ committed' = committed \cup {n}
    /\ onAir' \in {onAir, onAir \cup {n}}
    /\ UNCHANGED <<stream, browser>>

\* The response ends; the browser has read some prefix of what was written, and keeps
\* the id of the last event it read.
ReadUpTo(s, written, k) ==
    [browser[s] EXCEPT !.cursor = IF k = 0 THEN @ ELSE written[k],
                       !.read = @ \cup ToSet(SubSeq(written, 1, k))]

\* broadcastToUser, for every registered connection.
Overflows(s) == stream[s].at \in {"replaying", "queried"} /\ Len(stream[s].pending) >= MaxPending

\* Variant: what comes during the replay is left to the replay.
HearLiveOnly(s, n) ==
    IF stream[s].at = "live" THEN [stream[s] EXCEPT !.written = Append(@, n), !.heard = @ \cup {n}]
    ELSE [stream[s] EXCEPT !.heard = @ \cup (IF stream[s].at = "closed" THEN {} ELSE {n})]

Hear(s, n) ==
    IF stream[s].at = "closed" \/ Overflows(s) THEN Closed
    ELSE IF stream[s].at = "live"
         THEN [stream[s] EXCEPT !.written = Append(@, n), !.heard = @ \cup {n}]
         ELSE [stream[s] EXCEPT !.pending = Append(@, n), !.heard = @ \cup {n}]

Broadcast(n) ==
    /\ n \in onAir
    /\ onAir' = onAir \ {n}
    /\ stream' = [s \in Streams |-> Hear(s, n)]
    /\ UNCHANGED <<committed, browser>>

-----------------------------------------------------------------------------
(* Connections *)

Open == {s \in Streams : stream[s].at # "closed"}

Connect(s) ==
    /\ stream[s].at = "closed" /\ Cardinality(Open) < MaxConnections
    /\ browser[s].connects < MaxConnects
    /\ stream' = [stream EXCEPT ![s].at = "replaying"]
    /\ browser' = [browser EXCEPT ![s].connects = @ + 1]
    /\ UNCHANGED <<committed, onAir>>

After(cursor) == {n \in committed : n > cursor}

\* The numbers of a finite set in order: the one sequence that has them so.
Sortings(S) ==
    {q \in [1..Cardinality(S) -> S] : \A i, j \in 1..Cardinality(S) : i < j => q[i] < q[j]}

\* The first PageSize rows after the cursor, in order.
FirstPages(cursor) ==
    {SubSeq(rows, 1, IF Len(rows) < PageSize THEN Len(rows) ELSE PageSize) :
       rows \in Sortings(After(cursor))}

QueryReplay(s) ==
    /\ stream[s].at = "replaying"
    /\ \E page \in FirstPages(browser[s].cursor) :
         stream' = [stream EXCEPT ![s] = [@ EXCEPT !.at = "queried", !.replayed = page]]
    /\ UNCHANGED <<committed, onAir, browser>>

ReplayFails(s) ==
    /\ stream[s].at = "replaying"
    /\ stream' = [stream EXCEPT ![s] = Closed]
    /\ UNCHANGED <<committed, onAir, browser>>

\* The first place in the buffer of each notification that was not replayed.
Fresh(replayed, pending) ==
    {i \in DOMAIN pending : /\ pending[i] \notin ToSet(replayed)
                            /\ \A j \in 1..i - 1 : pending[j] # pending[i]}

\* deduplicateReplayedEvents: the buffer without what was replayed, each id once.
Deduplications(replayed, pending) ==
    {[k \in DOMAIN place |-> pending[place[k]]] : place \in Sortings(Fresh(replayed, pending))}

\* From the query's answer to the end of the flush nothing else runs.
FlushReplay(s) ==
    /\ stream[s].at = "queried"
    /\ \E kept \in Deduplications(stream[s].replayed, stream[s].pending) :
         LET all == stream[s].replayed \o kept
         IN  stream' = [stream EXCEPT ![s] =
               [@ EXCEPT !.at = "live", !.replayed = <<>>, !.pending = <<>>,
                         !.written = all, !.flushed = Len(all)]]
    /\ UNCHANGED <<committed, onAir, browser>>

Disconnect(s) ==
    /\ stream[s].at # "closed"
    /\ stream' = [stream EXCEPT ![s] = Closed]
    /\ \E k \in 0..Len(stream[s].written) :
         browser' = [browser EXCEPT ![s] = ReadUpTo(s, stream[s].written, k)]
    /\ UNCHANGED <<committed, onAir>>

LiveNext ==
    \/ \E n \in Notices : CommitNotice(n) \/ Broadcast(n)
    \/ \E s \in Streams :
         Connect(s) \/ QueryReplay(s) \/ ReplayFails(s) \/ FlushReplay(s) \/ Disconnect(s)

LiveSpec == LiveInit /\ [][LiveNext]_liveVars

-----------------------------------------------------------------------------
(* Properties *)

LiveTypeOK ==
    /\ committed \subseteq Notices /\ onAir \subseteq committed
    /\ \A s \in Streams :
         /\ stream[s].at \in {"closed", "replaying", "queried", "live"}
         /\ ToSet(stream[s].written) \cup ToSet(stream[s].pending) \subseteq committed
         /\ Len(stream[s].replayed) <= PageSize /\ Len(stream[s].pending) <= MaxPending
         /\ stream[s].flushed <= Len(stream[s].written)
         /\ browser[s].cursor \in {0} \cup browser[s].read
    /\ Cardinality(Open) <= MaxConnections

\* No announcement falls between replay and live delivery, and none is doubled by it:
\* whatever was announced to a registered connection is on its stream once it is live,
\* and what the replay and the flush wrote has no notification twice (sse.ts:45-56,108-150).
HandoverExact ==
    \A s \in Streams : stream[s].at = "live" =>
        /\ stream[s].heard \subseteq ToSet(stream[s].written)
        /\ \A i, j \in 1..stream[s].flushed :
             stream[s].written[i] = stream[s].written[j] => i = j
=============================================================================
