------------------------------ MODULE Mailbox ------------------------------
(***************************************************************************)
(* One consented mailbox: the scheduler's claim of a due connection, the   *)
(* sync job that reads the durable cursor, lists one provider page, stores *)
(* its messages one transaction each and then advances the cursor, and the *)
(* owner who may ask for a sync, revoke or renew consent meanwhile.        *)
(*                                                                         *)
(* Time is counted in ticks of half a sync interval and kept as ages, so   *)
(* that it is unbounded: an age that makes a timestamp due stops growing.  *)
(***************************************************************************)
EXTENDS Naturals, FiniteSets

CONSTANTS
    LastMessage,     \* bound: messages 1 (oldest) to LastMessage arrive
    MaxCalls,        \* bound: SYNC_EMAIL_CONNECTION jobs open together
    PageLimit,       \* MAX_MESSAGES_PER_SYNC, 100 in the code
    JobAttempts,     \* maxAttempts of the job, 3 in the code
    Elsewhere,       \* messages also handed in by hand or by an ingest job
    Unreadable,      \* messages the connector or the check of its page refuses
    Unstorable,      \* messages only the ingestion refuses
    LongTokens,      \* cursors refused as they come
    ForeignTokens,   \* cursors refused once they are used
    MaxSyncFaults    \* bound: crashes, provider and database errors

ASSUME MailboxAssumption ==
    /\ LastMessage \in Nat \ {0} /\ PageLimit \in Nat \ {0} /\ JobAttempts \in Nat \ {0}
    /\ MaxCalls \in Nat \ {0} /\ MaxSyncFaults \in Nat /\ Elsewhere \subseteq 1..LastMessage
    /\ Unreadable \cup Unstorable \cup LongTokens \cup ForeignTokens \subseteq 1..LastMessage

VARIABLES
    arrived,       \* messages 1..arrived are in the provider's mailbox
    outcome,       \* email_outcomes: which source stored the message
    connection,    \* the email_connections row, timestamps as ages
    keyTaken,      \* a scheduled job with the key of this time bucket exists
    secondHalf,    \* the second tick of the bucket has begun
    call,          \* the open sync jobs and what their calls hold in memory
    scanTop,       \* newest message when the scan the cursor belongs to began (history)
    syncFaults

mailboxVars == <<arrived, outcome, connection, keyTaken, secondHalf, call, scanTop, syncFaults>>

Messages == 1..LastMessage
Calls == 1..MaxCalls
SyncInterval == 2      \* emailSyncIntervalMs, 15 minutes
ClaimLease == 4        \* emailSyncClaimLeaseMs, 30 minutes
Null == 0              \* syncCursor NULL: the page of the newest messages

Older(age, limit) == IF age < limit THEN age + 1 ELSE limit

-----------------------------------------------------------------------------
(* Types *)

\* syncAge: lastSyncAt, SyncInterval when null or due.  claimAge: syncClaimedAt,
\* ClaimLease when null or lapsed.
Connections == [active : BOOLEAN, cursor : 0..LastMessage, syncAge : 0..SyncInterval,
                claimAge : 0..ClaimLease]

\* from is the cursor read, age that of syncAt, page what is still to be stored, next
\* the page's cursor, top the newest message when its scan began (history).
NoCall == [at |-> "none", attempts |-> 0, from |-> Null, age |-> 0, page |-> {},
           next |-> Null, top |-> 0]

MailboxTypeOK ==
    /\ arrived \in 0..LastMessage
    /\ outcome \in [Messages -> {"none", "mailbox", "elsewhere"}]
    /\ \A m \in Messages : outcome[m] = "mailbox" => m <= arrived
    /\ connection \in Connections
    /\ keyTaken \in BOOLEAN /\ secondHalf \in BOOLEAN
    /\ call \in [Calls -> [at : {"none", "queued", "listing", "storing"},
                           attempts : 0..JobAttempts, from : 0..LastMessage,
                           age : 0..SyncInterval, page : SUBSET Messages,
                           next : 0..LastMessage, top : 0..LastMessage]]
    /\ \A c \in Calls : call[c].page \subseteq 1..arrived
    /\ scanTop \in 0..arrived
    /\ syncFaults \in 0..MaxSyncFaults

MailboxInit ==
    /\ arrived = 0
    /\ outcome = [m \in Messages |-> "none"]
    /\ connection = [active |-> TRUE, cursor |-> Null, syncAge |-> SyncInterval,
                     claimAge |-> ClaimLease]
    /\ keyTaken = FALSE /\ secondHalf = FALSE
    /\ call = [c \in Calls |-> NoCall]
    /\ scanTop = 0
    /\ syncFaults = 0

-----------------------------------------------------------------------------
(* The provider, the clock and the owner *)

Arrive ==
    /\ arrived < LastMessage
    /\ arrived' = arrived + 1
    /\ UNCHANGED <<outcome, connection, keyTaken, secondHalf, call, scanTop, syncFaults>>

\* Variant: the key does not name the bucket.
KeyForGood == keyTaken

\* The key of a scheduled job names its bucket.
KeyStillTaken == keyTaken /\ ~secondHalf

MailboxTick ==
    /\ connection' = [connection EXCEPT !.syncAge = Older(@, SyncInterval),
                                        !.claimAge = Older(@, ClaimLease)]
    /\ call' = [c \in Calls |-> [call[c] EXCEPT !.age =
                  IF call[c].at \in {"listing", "storing"} THEN Older(@, SyncInterval) ELSE @]]
    /\ secondHalf' = ~secondHalf
    /\ keyTaken' = KeyStillTaken
    /\ UNCHANGED <<arrived, outcome, scanTop, syncFaults>>

\* revokeEmailConsent and, as an upsert that keeps cursor and timestamps,
\* grantEmailConsent.
SetConsent(active) ==
    /\ connection.active # active
    /\ connection' = [connection EXCEPT !.active = active]
    /\ UNCHANGED <<arrived, outcome, keyTaken, secondHalf, call, scanTop, syncFaults>>

\* The same message handed in under another source before a sync stores it.
IngestElsewhere(m) ==
    /\ m \in Elsewhere /\ m <= arrived /\ outcome[m] = "none"
    /\ outcome' = [outcome EXCEPT ![m] = "elsewhere"]
    /\ UNCHANGED <<arrived, connection, keyTaken, secondHalf, call, scanTop, syncFaults>>

-----------------------------------------------------------------------------
(* Queueing a sync *)

Queued == [NoCall EXCEPT !.at = "queued"]

\* Open jobs have no names of their own: a new one takes the first free place.
Free(c) == call[c].at = "none" /\ \A d \in Calls : d < c => call[d].at # "none"

Due ==
    /\ connection.active
    /\ connection.syncAge = SyncInterval
    /\ connection.claimAge = ClaimLease

\* claimDueEmailSyncs.  When a job of this bucket exists the insert is refused as a
\* key reused for another correlationId, and the whole transaction rolled back.
ClaimDue(c) ==
    /\ Due /\ ~keyTaken
    /\ Free(c)
    /\ call' = [call EXCEPT ![c] = Queued]
    /\ connection' = [connection EXCEPT !.claimAge = 0]
    /\ keyTaken' = TRUE
    /\ UNCHANGED <<arrived, outcome, secondHalf, scanTop, syncFaults>>

\* POST /:id/sync, under a key of the client's own.
RequestSync(c) ==
    /\ connection.active
    /\ Free(c)
    /\ call' = [call EXCEPT ![c] = Queued]
    /\ UNCHANGED <<arrived, outcome, connection, keyTaken, secondHalf, scanTop, syncFaults>>

-----------------------------------------------------------------------------
(* The sync *)

\* An error ends the attempt; the job is retried until its attempts are used up.
Attempted(c) ==
    [call EXCEPT ![c] =
       IF call[c].attempts + 1 < JobAttempts
       THEN [Queued EXCEPT !.attempts = call[c].attempts + 1] ELSE NoCall]

BeginSync(c) ==
    /\ call[c].at = "queued"
    /\ call' = IF connection.active
               THEN [call EXCEPT ![c] = [Queued EXCEPT !.at = "listing", !.from = connection.cursor,
                                                       !.attempts = call[c].attempts]]
               ELSE Attempted(c)
    /\ UNCHANGED <<arrived, outcome, connection, keyTaken, secondHalf, scanTop, syncFaults>>

\* The newest PageLimit messages older than the cursor, and the cursor behind them.
Listed(from) ==
    LET rest == 1..(IF from = Null THEN arrived ELSE from - 1)
    IN  {m \in rest : Cardinality({k \in rest : k > m}) < PageLimit}

Behind(page) == {m \in Messages : \A k \in page : m < k}

\* The token of the next page, null when nothing older is left.
NextCursor(page) ==
    IF page = {} \/ Behind(page) = {} THEN Null
    ELSE CHOOSE m \in page : \A k \in page : m <= k

\* A page is refused as a whole, at every attempt, for the cursor it is asked for with, for
\* any of its messages or for the cursor that comes with it.
PageRefused(from) ==
    \/ from \in ForeignTokens
    \/ Listed(from) \cap Unreadable # {}
    \/ NextCursor(Listed(from)) \in LongTokens

ListPage(c) ==
    /\ call[c].at = "listing"
    /\ LET page == Listed(call[c].from)
       IN  call' = IF PageRefused(call[c].from) THEN Attempted(c)
                   ELSE [call EXCEPT ![c].at = "storing", ![c].page = page,
                                     ![c].next = NextCursor(page),
                                     ![c].top = IF call[c].from = Null THEN arrived ELSE @]
    /\ UNCHANGED <<arrived, outcome, connection, keyTaken, secondHalf, scanTop, syncFaults>>

Newest(page) == CHOOSE m \in page : \A k \in page : k <= m

\* ingestEmailOutcome refuses a message that it cannot accept, such as one from the future,
\* and one that another source stored.
Declined(m) == m \in Unstorable \/ outcome[m] = "elsewhere"

\* The next message: stored, found stored by an earlier sync, or declined, which fails the
\* whole call.
StoreMessage(c) ==
    /\ call[c].at = "storing" /\ call[c].page # {}
    /\ LET m == Newest(call[c].page)
       IN  IF Declined(m)
           THEN call' = Attempted(c) /\ UNCHANGED outcome
           ELSE /\ call' = [call EXCEPT ![c].page = @ \ {m}]
                /\ outcome' = [outcome EXCEPT ![m] = "mailbox"]
    /\ UNCHANGED <<arrived, connection, keyTaken, secondHalf, scanTop, syncFaults>>

\* The connection is still as the call read it.
CursorUnmoved(c) == connection.active /\ connection.cursor = call[c].from

\* Variant: the cursor is moved before the messages of its page are stored.
AdvanceCursorFirst(c) ==
    /\ call[c].at = "storing" /\ CursorUnmoved(c)
    /\ connection' = [connection EXCEPT !.cursor = call[c].next,
                                        !.syncAge = call[c].age, !.claimAge = ClaimLease]
    /\ call' = [call EXCEPT ![c] = NoCall]
    /\ scanTop' = IF call[c].from = Null THEN call[c].top ELSE scanTop
    /\ UNCHANGED <<arrived, outcome, keyTaken, secondHalf, syncFaults>>

AdvanceCursor(c) ==
    /\ call[c].at = "storing" /\ call[c].page = {}
    /\ IF CursorUnmoved(c)
       THEN /\ connection' = [connection EXCEPT !.cursor = call[c].next,
                                                !.syncAge = call[c].age, !.claimAge = ClaimLease]
            /\ call' = [call EXCEPT ![c] = NoCall]
            /\ scanTop' = IF call[c].from = Null THEN call[c].top ELSE scanTop
       ELSE /\ call' = Attempted(c)
            /\ UNCHANGED <<connection, scanTop>>
    /\ UNCHANGED <<arrived, outcome, keyTaken, secondHalf, syncFaults>>

\* The provider, the database or the process fails between two steps.
SyncFails(c) ==
    /\ call[c].at \in {"queued", "listing", "storing"}
    /\ syncFaults < MaxSyncFaults /\ syncFaults' = syncFaults + 1
    /\ call' = Attempted(c)
    /\ UNCHANGED <<arrived, outcome, connection, keyTaken, secondHalf, scanTop>>

SyncStep(c) ==
    \/ BeginSync(c) \/ ListPage(c) \/ StoreMessage(c) \/ AdvanceCursor(c)

MailboxNext ==
    \/ Arrive \/ MailboxTick
    \/ \E active \in BOOLEAN : SetConsent(active)
    \/ \E m \in Messages : IngestElsewhere(m)
    \/ \E c \in Calls : ClaimDue(c) \/ RequestSync(c) \/ SyncStep(c) \/ SyncFails(c)

MailboxSpec == MailboxInit /\ [][MailboxNext]_mailboxVars

\* Clock, scheduler and workers go on; nothing is assumed of the owner, of
\* new mail or of faults.
MailboxFairness ==
    /\ WF_mailboxVars(MailboxTick)
    /\ SF_mailboxVars(\E c \in Calls : ClaimDue(c))
    /\ \A c \in Calls : WF_mailboxVars(SyncStep(c))

-----------------------------------------------------------------------------
(* Properties *)

\* A cursor in the middle of the mailbox never leaves a message behind it: whatever
\* overlapping calls, retries and crashes did, everything from it up to the newest
\* message of its scan is stored (email-sync.ts:74-92).
NoMessagePassedOver ==
    connection.cursor # Null =>
      \A m \in connection.cursor..scanTop : outcome[m] # "none"

\* No sync of the page that the durable cursor names can end.
CursorStands == PageRefused(connection.cursor) \/ \E m \in Listed(connection.cursor) : Declined(m)

\* While consent lasts, every message that arrived is stored in the end, unless the cursor
\* comes to stand for good at a page with a message or a cursor the code refuses: a dead
\* job, a claim nobody finished and a refused claim of the same bucket only delay it
\* (durable-scheduler.ts:191-220), and so does a refused page as long as newer mail can
\* still move its messages to another.
EveryMessageStored ==
    \A m \in Messages :
      (m <= arrived) ~> (outcome[m] # "none" \/ ~connection.active \/ []CursorStands)
=============================================================================
