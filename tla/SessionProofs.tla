--------------------------- MODULE SessionProofs ---------------------------
(***************************************************************************)
(* Proofs about the sessions of a user, of browsers, and of live streams.  *)
(*                                                                         *)
(* RefreshSessions, for every number of families, of concurrent requests   *)
(* and of tokens: the inductive invariant adds to the two promises what    *)
(* makes them true: whoever has read holds the lock, and what it read of   *)
(* its token has not changed since.  A rotation therefore replaces the one *)
(* live token, and never adds one to a family that ended.                  *)
(*                                                                         *)
(* BrowserSessions, for every number of workers, sessions and starts: a    *)
(* session has an ending recorded exactly if its row has ended, which      *)
(* every update keeps because it asks the row to be active.                *)
(*                                                                         *)
(* LiveEvents, for every number of notifications and connections and every *)
(* size of page and buffer: until a stream is live its buffer holds all it *)
(* was told, and sorting or dropping repetitions loses nothing.            *)
(***************************************************************************)
EXTENDS RefreshSessions, BrowserSessions, LiveEvents, FiniteSetTheorems, WellFoundedInduction, TLAPS

SessionInv ==
    /\ SessionTypeOK
    /\ LiveWereIssued
    /\ ReadUnderLock
    /\ OneLiveToken
    /\ EndedFamiliesStayEnded
    /\ ended \subseteq {f \in Families : issued[f] > 0}

USE DEF Tokens, Kinds, RequestStates, NoRequest

LEMMA SessionInitially == SessionInit => SessionInv
<1>1. SUFFICES ASSUME SessionInit PROVE SessionInv
  OBVIOUS
<1>2. SessionTypeOK
  BY <1>1, SessionAssumption DEF SessionInit, SessionTypeOK
<1>3. LiveWereIssued /\ OneLiveToken
  BY <1>1 DEF SessionInit, LiveWereIssued, OneLiveToken
<1>4. ReadUnderLock
  BY <1>1 DEF SessionInit, ReadUnderLock
<1>5. QED
  BY <1>1, <1>2, <1>3, <1>4 DEF SessionInv, SessionInit, EndedFamiliesStayEnded

\* What every step that writes no session row leaves to show.
LEMMA RowsKept ==
  ASSUME SessionInv, UNCHANGED <<issued, live, ended>>
  PROVE  /\ LiveWereIssued' /\ OneLiveToken' /\ EndedFamiliesStayEnded'
         /\ (ended \subseteq {f \in Families : issued[f] > 0})'
  BY DEF SessionInv, LiveWereIssued, OneLiveToken, EndedFamiliesStayEnded

\* A family is opened with one token; it had none that a request could name.
LEMMA LoginKeeps ==
  ASSUME SessionInv, NEW f \in Families, Login(f)
  PROVE  SessionInv'
<1>1. issued'[f] = 1 /\ live'[f] = {1}
      /\ \A g \in Families \ {f} : issued'[g] = issued[g] /\ live'[g] = live[g]
  BY DEF SessionInv, SessionTypeOK, Login
<1>2. \A r \in Requests : request[r].at # "idle" => request[r].family # f
  BY DEF SessionInv, SessionTypeOK, Login
<1>3. SessionTypeOK'
  <2>1. issued' \in [Families -> 0..MaxTokens] /\ live' \in [Families -> SUBSET Tokens]
    BY SessionAssumption DEF SessionInv, SessionTypeOK, Login
  <2>2. QED
    BY <2>1, <1>1, <1>2 DEF SessionInv, SessionTypeOK, Login
<1>4. LiveWereIssued' /\ OneLiveToken'
  BY <1>1 DEF SessionInv, LiveWereIssued, OneLiveToken
<1>5. ReadUnderLock'
  BY <1>1, <1>2 DEF SessionInv, SessionTypeOK, ReadUnderLock, Login
<1>6. EndedFamiliesStayEnded' /\ (ended \subseteq {g \in Families : issued[g] > 0})'
  BY <1>1 DEF SessionInv, SessionTypeOK, EndedFamiliesStayEnded, Login
<1>7. QED
  BY <1>3, <1>4, <1>5, <1>6 DEF SessionInv

\* Presenting, taking the lock, reading and giving up write no row.
LEMMA ReadOnlyKeeps ==
  ASSUME SessionInv, NEW r \in Requests,
         \/ \E kind \in Kinds, f \in Families, n \in Tokens : Present(r, kind, f, n)
         \/ Acquire(r) \/ ReadSession(r) \/ RejectExpired(r) \/ RequestFails(r)
  PROVE  SessionInv'
<1>1. UNCHANGED <<issued, live, ended>>
  BY DEF Present, Acquire, ReadSession, RejectExpired, RequestFails
<1>2. SessionTypeOK'
  <2>1. CASE \E kind \in Kinds, f \in Families, n \in Tokens : Present(r, kind, f, n)
    BY <2>1 DEF SessionInv, SessionTypeOK, Present
  <2>2. CASE Acquire(r)
    BY <2>2 DEF SessionInv, SessionTypeOK, Acquire
  <2>3. CASE ReadSession(r)
    <3> DEFINE b == request[r].token \in live[request[r].family]
    <3>1. b \in BOOLEAN /\ request' = [request EXCEPT ![r].at = "read", ![r].seen = b]
      BY <2>3 DEF ReadSession
    <3> HIDE DEF b
    <3>2. request' \in [Requests -> RequestStates]
      <4>1. request[r] \in RequestStates
        BY DEF SessionInv, SessionTypeOK
      <4>2. [request[r] EXCEPT !.at = "read", !.seen = b] \in RequestStates
        BY <4>1, <3>1
      <4>3. request' = [request EXCEPT ![r] = [request[r] EXCEPT !.at = "read", !.seen = b]]
        BY <3>1
      <4>4. QED
        BY <4>2, <4>3 DEF SessionInv, SessionTypeOK
    <3>3. \A q \in Requests : request'[q].at # "idle" =>
            request'[q].family \in Families /\ request'[q].token \in 1..issued[request'[q].family]
      BY <2>3, <3>1 DEF SessionInv, SessionTypeOK, ReadSession
    <3>4. QED
      BY <2>3, <3>2, <3>3 DEF SessionInv, SessionTypeOK, ReadSession
  <2>4. CASE RejectExpired(r) \/ RequestFails(r)
    <3>1. /\ request' = [request EXCEPT ![r] = NoRequest] /\ advisory' = Released(r)
          /\ UNCHANGED <<issued, live, expired, ended>>
      BY <2>4 DEF RejectExpired, RequestFails, Finish
    <3>2. request' \in [Requests -> RequestStates] /\ advisory' \in Requests \cup {None}
      BY <3>1 DEF SessionInv, SessionTypeOK, Released
    <3>3. \A q \in Requests : request'[q] = IF q = r THEN NoRequest ELSE request[q]
      BY <3>1 DEF SessionInv, SessionTypeOK
    <3>4. \A q \in Requests : request'[q].at # "idle" =>
            request'[q].family \in Families /\ request'[q].token \in 1..issued[request'[q].family]
      BY <3>3 DEF SessionInv, SessionTypeOK
    <3>5. QED
      BY <3>1, <3>2, <3>4 DEF SessionInv, SessionTypeOK
  <2>5. QED
    BY <2>1, <2>2, <2>3, <2>4
<1>3. ReadUnderLock'
  <2>1. CASE \E kind \in Kinds, f \in Families, n \in Tokens : Present(r, kind, f, n)
    BY <2>1 DEF SessionInv, SessionTypeOK, ReadUnderLock, Present
  <2>2. CASE Acquire(r)
    BY <2>2, SessionAssumption DEF SessionInv, SessionTypeOK, ReadUnderLock, Acquire
  <2>3. CASE ReadSession(r)
    BY <2>3 DEF SessionInv, SessionTypeOK, ReadUnderLock, ReadSession
  <2>4. CASE RejectExpired(r) \/ RequestFails(r)
    BY <2>4 DEF SessionInv, SessionTypeOK, ReadUnderLock, RejectExpired, RequestFails,
                Finish, Released
  <2>5. QED
    BY <2>1, <2>2, <2>3, <2>4
<1>4. QED
  BY <1>1, <1>2, <1>3, RowsKept DEF SessionInv

\* The requester read under the lock, so nobody else has read; the token it
\* revokes is the only live one, and the family has not ended.
LEMMA RotateKeeps ==
  ASSUME SessionInv, NEW r \in Requests, Rotate(r)
  PROVE  SessionInv'
<1> DEFINE f == request[r].family
           n == request[r].token
<1>1. /\ f \in Families /\ n \in 1..issued[f] /\ issued[f] \in 0..MaxTokens
      /\ issued[f] + 1 \in Tokens
  BY SessionAssumption DEF SessionInv, SessionTypeOK, Rotate, Deciding
<1>2. n \in live[f] /\ f \notin ended
  BY <1>1 DEF SessionInv, ReadUnderLock, EndedFamiliesStayEnded, Rotate, Deciding
<1>3. live[f] \ {n} = {}
  BY <1>1, <1>2 DEF SessionInv, OneLiveToken
<1>4. /\ live'[f] = {issued[f] + 1} /\ issued'[f] = issued[f] + 1
      /\ \A g \in Families \ {f} : live'[g] = live[g] /\ issued'[g] = issued[g]
  BY <1>1, <1>3 DEF SessionInv, SessionTypeOK, Rotate
<1>5. \A q \in Requests \ {r} : request'[q] = request[q]
                                /\ request[q].at \in {"idle", "waiting"}
  BY DEF SessionInv, SessionTypeOK, ReadUnderLock, Rotate, Deciding, Finish
<1>6. request'[r] = NoRequest
  BY DEF SessionInv, SessionTypeOK, Rotate, Finish
<1>7. SessionTypeOK'
  <2>1. issued' \in [Families -> 0..MaxTokens] /\ live' \in [Families -> SUBSET Tokens]
    BY <1>1, <1>4 DEF SessionInv, SessionTypeOK, Rotate
  <2>2. request' \in [Requests -> RequestStates] /\ advisory' \in Requests \cup {None}
    BY DEF SessionInv, SessionTypeOK, Rotate, Finish, Released
  <2>3. ASSUME NEW q \in Requests, request'[q].at # "idle"
        PROVE  request'[q].family \in Families
               /\ request'[q].token \in 1..issued'[request'[q].family]
    <3>1. q # r
      BY <2>3, <1>6
    <3>2. request'[q] = request[q]
      BY <3>1, <1>5
    <3>3. request[q].family \in Families /\ request[q].token \in 1..issued[request[q].family]
      BY <3>2, <2>3 DEF SessionInv, SessionTypeOK
    <3>4. issued'[request[q].family] \in {issued[request[q].family],
                                          issued[request[q].family] + 1}
      BY <3>3, <1>4
    <3>5. QED
      BY <3>2, <3>3, <3>4 DEF SessionInv, SessionTypeOK
  <2>4. QED
    BY <2>1, <2>2, <2>3 DEF SessionInv, SessionTypeOK, Rotate
<1>8. LiveWereIssued' /\ OneLiveToken'
  BY <1>1, <1>4 DEF SessionInv, SessionTypeOK, LiveWereIssued, OneLiveToken
<1>9. ReadUnderLock'
  BY <1>5, <1>6 DEF ReadUnderLock
<1>10. EndedFamiliesStayEnded' /\ (ended \subseteq {g \in Families : issued[g] > 0})'
  BY <1>1, <1>2, <1>4 DEF SessionInv, SessionTypeOK, EndedFamiliesStayEnded, Rotate
<1>11. QED
  BY <1>7, <1>8, <1>9, <1>10 DEF SessionInv

\* Nobody else has read, so nobody acts on a token that was just revoked.
LEMMA EndFamilyKeeps ==
  ASSUME SessionInv, NEW r \in Requests, EndFamily(r)
  PROVE  SessionInv'
<1> DEFINE f == request[r].family
<1>1. f \in Families /\ issued[f] > 0
  BY DEF SessionInv, SessionTypeOK, EndFamily, Deciding
<1>2. live'[f] = {} /\ \A g \in Families \ {f} : live'[g] = live[g]
  BY <1>1 DEF SessionInv, SessionTypeOK, EndFamily
<1>3. \A q \in Requests \ {r} : request'[q] = request[q]
                                /\ request[q].at \in {"idle", "waiting"}
  BY DEF SessionInv, SessionTypeOK, ReadUnderLock, EndFamily, Deciding, Finish
<1>4. request'[r] = NoRequest
  BY DEF SessionInv, SessionTypeOK, EndFamily, Finish
<1>5. SessionTypeOK'
  BY <1>1, <1>3, <1>4 DEF SessionInv, SessionTypeOK, EndFamily, Finish, Released
<1>6. LiveWereIssued' /\ OneLiveToken'
  BY <1>1, <1>2 DEF SessionInv, LiveWereIssued, OneLiveToken, EndFamily
<1>7. ReadUnderLock'
  BY <1>3, <1>4 DEF ReadUnderLock
<1>8. EndedFamiliesStayEnded' /\ (ended \subseteq {g \in Families : issued[g] > 0})'
  BY <1>1, <1>2 DEF SessionInv, SessionTypeOK, EndedFamiliesStayEnded, EndFamily
<1>9. QED
  BY <1>5, <1>6, <1>7, <1>8 DEF SessionInv

LEMMA SessionStep == SessionInv /\ [SessionNext]_sessionVars => SessionInv'
<1>1. SUFFICES ASSUME SessionInv, [SessionNext]_sessionVars PROVE SessionInv'
  OBVIOUS
<1>2. CASE \E f \in Families : Login(f)
  BY <1>1, <1>2, LoginKeeps
<1>3. CASE \E f \in Families : Expire(f)
  <2>1. SessionTypeOK' /\ ReadUnderLock'
    BY <1>1, <1>3 DEF SessionInv, SessionTypeOK, ReadUnderLock, Expire
  <2>2. QED
    BY <1>1, <1>3, <2>1, RowsKept DEF SessionInv, Expire
<1>4. CASE \E r \in Requests, kind \in Kinds, f \in Families, n \in Tokens :
             Present(r, kind, f, n)
  BY <1>1, <1>4, ReadOnlyKeeps
<1>5. CASE \E r \in Requests : Acquire(r) \/ ReadSession(r) \/ RejectExpired(r)
                               \/ RequestFails(r)
  BY <1>1, <1>5, ReadOnlyKeeps
<1>6. CASE \E r \in Requests : Rotate(r)
  BY <1>1, <1>6, RotateKeeps
<1>7. CASE \E r \in Requests : EndFamily(r)
  BY <1>1, <1>7, EndFamilyKeeps
<1>8. CASE UNCHANGED sessionVars
  BY <1>1, <1>8 DEF sessionVars, SessionInv, SessionTypeOK, LiveWereIssued, ReadUnderLock,
                    OneLiveToken, EndedFamiliesStayEnded
<1>9. QED
  BY <1>1, <1>2, <1>3, <1>4, <1>5, <1>6, <1>7, <1>8 DEF SessionNext

\* The inductive invariant holds of every behaviour.
THEOREM SessionInvariant == SessionSpec => []SessionInv
  BY SessionInitially, SessionStep, PTL DEF SessionSpec

\* At most one token of a family can be exchanged, however many refreshes race.
THEOREM AtMostOneLiveToken == SessionSpec => []OneLiveToken
<1>1. SessionInv => OneLiveToken
  BY DEF SessionInv
<1>2. QED
  BY <1>1, SessionInvariant, PTL

\* A family that a logout or a reuse ended has no token left, and never gets one.
THEOREM EndedFamiliesHaveNoToken == SessionSpec => []EndedFamiliesStayEnded
<1>1. SessionInv => EndedFamiliesStayEnded
  BY DEF SessionInv
<1>2. QED
  BY <1>1, SessionInvariant, PTL

-----------------------------------------------------------------------------
(* Browser sessions. *)

BrowserInv == BrowserTypeOK /\ EndedOnce

\* What ending some sessions does to the rows: only the active ones end, and each of them
\* is counted once.
LEMMA EndKeeps ==
  ASSUME BrowserInv, NEW finished \in SUBSET Keys, NEW status \in [Keys -> {"CLOSED", "EXPIRED"}],
         End(finished, status)
  PROVE  /\ session' \in [Keys -> RowStatuses] /\ endings' \in [Keys -> 0 .. 2]
         /\ EndedOnce'
<1>1. \A k \in Keys :
        /\ session[k] \in RowStatuses
        /\ endings[k] = IF session[k] \in {"CLOSED", "EXPIRED"} THEN 1 ELSE 0
        /\ session'[k] = IF k \in finished /\ Ends(k) THEN status[k] ELSE session[k]
        /\ endings'[k] = IF k \in finished /\ Ends(k) THEN endings[k] + 1 ELSE endings[k]
  BY DEF BrowserInv, BrowserTypeOK, EndedOnce, End
<1>2. \A k \in Keys : status[k] \in {"CLOSED", "EXPIRED"}
  OBVIOUS
<1>3. \A k \in Keys :
        /\ session'[k] \in RowStatuses
        /\ endings'[k] = IF session'[k] \in {"CLOSED", "EXPIRED"} THEN 1 ELSE 0
  BY <1>1, <1>2 DEF Ends, RowStatuses
<1>4. /\ session' = [k \in Keys |-> session'[k]]
      /\ endings' = [k \in Keys |-> endings'[k]]
  BY DEF End
<1>5. QED
  BY <1>3, <1>4 DEF EndedOnce

\* The steps that end sessions: a close, an expiry, a shutdown, the recovery of a restart.
LEMMA EndingStepKeeps ==
  ASSUME BrowserInv, NEW w \in Workers,
         \/ \E k \in Keys : Close(w, k) \/ CloseExpired(w, k)
         \/ Shutdown(w) \/ Restart(w)
  PROVE  BrowserInv'
<1>1. session' \in [Keys -> RowStatuses] /\ endings' \in [Keys -> 0 .. 2] /\ EndedOnce'
  <2>1. ASSUME NEW k \in Keys, Close(w, k) \/ CloseExpired(w, k)
        PROVE  session' \in [Keys -> RowStatuses] /\ endings' \in [Keys -> 0 .. 2] /\ EndedOnce'
    <3>1. \/ End({k}, [j \in Keys |-> "CLOSED"])
          \/ End({k}, [j \in Keys |-> "EXPIRED"])
      BY <2>1 DEF Close, CloseExpired
    <3>2. /\ [j \in Keys |-> "CLOSED"] \in [Keys -> {"CLOSED", "EXPIRED"}]
          /\ [j \in Keys |-> "EXPIRED"] \in [Keys -> {"CLOSED", "EXPIRED"}]
          /\ {k} \in SUBSET Keys
      OBVIOUS
    <3>3. QED
      BY <3>1, <3>2, EndKeeps
  <2>2. CASE Shutdown(w)
    <3> DEFINE finished == {k \in Keys : context[w][k] = "open"}
               status == [j \in Keys |-> "CLOSED"]
    <3>1. End(finished, status)
      BY <2>2 DEF Shutdown
    <3>2. finished \in SUBSET Keys /\ status \in [Keys -> {"CLOSED", "EXPIRED"}]
      OBVIOUS
    <3>3. QED
      BY <3>1, <3>2, EndKeeps
  <2>3. CASE Restart(w)
    <3> DEFINE finished == {k \in Keys : age[k] # "fresh"}
               status == [j \in Keys |-> IF age[j] = "expired" THEN "EXPIRED" ELSE "CLOSED"]
    <3>1. End(finished, status)
      BY <2>3 DEF Restart
    <3>2. finished \in SUBSET Keys /\ status \in [Keys -> {"CLOSED", "EXPIRED"}]
      OBVIOUS
    <3>3. QED
      BY <3>1, <3>2, EndKeeps
  <2>4. QED
    BY <2>1, <2>2, <2>3
<1>2. UNCHANGED <<age, starts>> /\ up' \in SUBSET Workers
  BY DEF BrowserInv, BrowserTypeOK, Close, CloseExpired, Shutdown, Restart
<1>3. context' \in [Workers -> [Keys -> {"none", "opening", "open"}]]
  <2>1. ASSUME NEW k \in Keys, context' = [context EXCEPT ![w][k] = "none"]
        PROVE  context' \in [Workers -> [Keys -> {"none", "opening", "open"}]]
    BY <2>1 DEF BrowserInv, BrowserTypeOK
  <2>2. CASE context' = [context EXCEPT ![w] = NoContext]
    BY <2>2 DEF BrowserInv, BrowserTypeOK, NoContext
  <2>3. CASE context' = context
    BY <2>3 DEF BrowserInv, BrowserTypeOK
  <2>4. QED
    BY <2>1, <2>2, <2>3 DEF Close, CloseExpired, Shutdown, Restart
<1>4. QED
  BY <1>1, <1>2, <1>3 DEF BrowserInv, BrowserTypeOK

\* The steps that end no session: a row is created active, if it is created at all.
LEMMA OtherStepKeeps ==
  ASSUME BrowserInv,
         \/ \E w \in Workers, k \in Keys : Start(w, k) \/ Opened(w, k)
         \/ \E w \in Workers : Crash(w)
         \/ \E k \in Keys : Age(k)
  PROVE  BrowserInv'
<1>1. CASE \E w \in Workers, k \in Keys : Start(w, k)
  <2>1. PICK w \in Workers, k \in Keys : Start(w, k)
    BY <1>1
  <2>2. \A j \in Keys : session'[j] = IF j = k /\ session[k] = "none" THEN "ACTIVE" ELSE session[j]
    <3>1. session' = [session EXCEPT ![k] = IF @ = "none" THEN "ACTIVE" ELSE @]
      BY <2>1 DEF Start
    <3>2. QED
      BY <3>1 DEF BrowserInv, BrowserTypeOK
  <2>3. EndedOnce'
    BY <2>1, <2>2 DEF BrowserInv, EndedOnce, Start
  <2>4. BrowserTypeOK'
    BY <2>1, BrowserAssumption DEF BrowserInv, BrowserTypeOK, Start, RowStatuses
  <2>5. QED
    BY <2>3, <2>4 DEF BrowserInv
<1>2. CASE \/ \E w \in Workers, k \in Keys : Opened(w, k)
           \/ \E w \in Workers : Crash(w)
           \/ \E k \in Keys : Age(k)
  <2>1. UNCHANGED <<session, endings>>
    BY <1>2 DEF Opened, Crash, Age
  <2>2. BrowserTypeOK'
    BY <1>2 DEF BrowserInv, BrowserTypeOK, Opened, Crash, Age, NoContext
  <2>3. QED
    BY <2>1, <2>2 DEF BrowserInv, EndedOnce
<1>3. QED
  BY <1>1, <1>2

LEMMA BrowserStep == BrowserInv /\ [BrowserNext]_browserVars => BrowserInv'
<1>1. SUFFICES ASSUME BrowserInv, [BrowserNext]_browserVars PROVE BrowserInv'
  OBVIOUS
<1>2. CASE UNCHANGED browserVars
  BY <1>1, <1>2 DEF browserVars, BrowserInv, BrowserTypeOK, EndedOnce
<1>3. CASE BrowserNext
  BY <1>1, <1>3, EndingStepKeeps, OtherStepKeeps DEF BrowserNext
<1>4. QED
  BY <1>1, <1>2, <1>3

LEMMA BrowserInitially == BrowserInit => BrowserInv
  BY BrowserAssumption DEF BrowserInit, BrowserInv, BrowserTypeOK, EndedOnce, RowStatuses, NoContext

\* Every session that has ended was ended, audited and announced once, however many
\* workers, retries, shutdowns and recoveries closed it.
THEOREM SessionsEndOnce == BrowserSpec => []EndedOnce
<1>1. BrowserInv => EndedOnce
  BY DEF BrowserInv
<1>2. QED
  BY <1>1, BrowserInitially, BrowserStep, PTL DEF BrowserSpec

-----------------------------------------------------------------------------
(* The live streams of a user's browsers. *)

Streamings == [at : {"closed", "replaying", "queried", "live"}, replayed : Seq(Notices),
               pending : Seq(Notices), written : Seq(Notices), flushed : Nat,
               heard : SUBSET Notices]

Distinct(q, n) == \A i, j \in 1..n : q[i] = q[j] => i = j

\* What holds of one stream, given the notifications that others can see.
SoundStream(x, rows) ==
    /\ ToSet(x.replayed) \cup ToSet(x.pending) \cup ToSet(x.written) \subseteq rows
    /\ Len(x.replayed) <= PageSize /\ Len(x.pending) <= MaxPending
    /\ x.flushed <= Len(x.written) /\ Distinct(x.written, x.flushed)
    /\ x.at = "closed" => x = Closed
    /\ x.at \in {"replaying", "queried"} => x.heard \subseteq ToSet(x.pending)
    /\ x.at = "queried" => Distinct(x.replayed, Len(x.replayed))
    /\ x.at = "live" => x.heard \subseteq ToSet(x.written)

BrowsersOK ==
    /\ browser \in [Streams -> [cursor : Nat, read : SUBSET Notices, connects : Nat]]
    /\ \A s \in Streams : browser[s].cursor \in {0} \cup browser[s].read

LiveInv ==
    /\ committed \subseteq Notices /\ onAir \subseteq committed
    /\ stream \in [Streams -> Streamings]
    /\ \A s \in Streams : SoundStream(stream[s], committed)
    /\ BrowsersOK
    /\ IsFiniteSet(Open) /\ Cardinality(Open) <= MaxConnections

\* A stream that nothing is written to holds nothing.
LEMMA ClosedIsSound ==
  ASSUME NEW rows
  PROVE  Closed \in Streamings /\ SoundStream(Closed, rows)
<1>1. Closed \in Streamings
  BY DEF Closed, Streamings
<1>2. ToSet(Closed.replayed) = {} /\ ToSet(Closed.pending) = {} /\ ToSet(Closed.written) = {}
  BY DEF Closed, ToSet
<1>3. QED
  BY <1>1, <1>2, LiveAssumption DEF Closed, SoundStream, Distinct

LEMMA LiveInitially == LiveInit => LiveInv
<1>1. SUFFICES ASSUME LiveInit PROVE LiveInv
  OBVIOUS
<1>2. \A s \in Streams : stream[s] = Closed
  BY <1>1 DEF LiveInit
<1>3. Open = {}
  BY <1>2 DEF Open, Closed
<1>4. BrowsersOK
  BY <1>1 DEF LiveInit, BrowsersOK
<1>5. stream \in [Streams -> Streamings]
  BY <1>1, ClosedIsSound DEF LiveInit
<1>6. QED
  BY <1>1, <1>2, <1>3, <1>4, <1>5, ClosedIsSound, FS_EmptySet, LiveAssumption DEF LiveInit, LiveInv

\* The step of one stream: what it becomes is sound, and a connection that opens had room.
LEMMA OneStreamSteps ==
  ASSUME LiveInv, NEW s \in Streams, NEW x \in Streamings, SoundStream(x, committed),
         stream' = [stream EXCEPT ![s] = x], UNCHANGED <<committed, onAir>>, BrowsersOK',
         x.at # "closed" => stream[s].at # "closed" \/ Cardinality(Open) < MaxConnections
  PROVE  LiveInv'
<1>1. /\ stream' \in [Streams -> Streamings]
      /\ \A t \in Streams : stream'[t] = IF t = s THEN x ELSE stream[t]
  BY DEF LiveInv
<1>2. \A t \in Streams : SoundStream(stream'[t], committed')
  BY <1>1 DEF LiveInv
<1>3. IsFiniteSet(Open)' /\ (Cardinality(Open) <= MaxConnections)'
  <2>0. IsFiniteSet(Open) /\ Cardinality(Open) \in Nat /\ Cardinality(Open) <= MaxConnections
    BY FS_CardinalityType DEF LiveInv
  <2>1. CASE x.at = "closed"
    <3>1. Open' = Open \ {s}
      BY <1>1, <2>1 DEF Open
    <3>2. IsFiniteSet(Open \ {s}) /\ Cardinality(Open \ {s}) <= Cardinality(Open)
      BY <2>0, FS_Subset
    <3>3. Cardinality(Open \ {s}) \in Nat
      BY <3>2, FS_CardinalityType
    <3>4. QED
      BY <2>0, <3>1, <3>2, <3>3, LiveAssumption
  <2>2. CASE x.at # "closed" /\ stream[s].at # "closed"
    <3>1. Open' = Open
      BY <1>1, <2>2 DEF Open
    <3>2. QED
      BY <2>0, <3>1
  <2>3. CASE x.at # "closed" /\ stream[s].at = "closed"
    <3>1. Open' = Open \cup {s} /\ s \notin Open
      BY <1>1, <2>3 DEF Open
    <3>2. IsFiniteSet(Open \cup {s}) /\ Cardinality(Open \cup {s}) = Cardinality(Open) + 1
      BY <2>0, <3>1, FS_AddElement
    <3>3. Cardinality(Open) < MaxConnections
      BY <2>3
    <3>4. QED
      BY <2>0, <3>1, <3>2, <3>3, LiveAssumption
  <2>4. QED
    BY <2>1, <2>2, <2>3
<1>4. QED
  BY <1>1, <1>2, <1>3 DEF LiveInv

\* More rows make no stream unsound.
LEMMA SoundGrows ==
  ASSUME NEW x, NEW rows, NEW more, rows \subseteq more, SoundStream(x, rows)
  PROVE  SoundStream(x, more)
BY DEF SoundStream

LEMMA CommitKeeps ==
  ASSUME LiveInv, NEW n \in Notices, CommitNotice(n)
  PROVE  LiveInv'
<1>1. committed' = committed \cup {n} /\ UNCHANGED <<stream, browser>>
  BY DEF CommitNotice
<1>2. \A s \in Streams : SoundStream(stream'[s], committed')
  BY <1>1, SoundGrows DEF LiveInv
<1>3. committed' \subseteq Notices /\ onAir' \subseteq committed'
  BY DEF CommitNotice, LiveInv
<1>4. BrowsersOK' /\ Open' = Open
  BY <1>1 DEF LiveInv, BrowsersOK, Open
<1>5. QED
  BY <1>1, <1>2, <1>3, <1>4 DEF LiveInv

\* What an element added at the end does to a sequence.
LEMMA OneMore ==
  ASSUME NEW q \in Seq(Notices), NEW n \in Notices
  PROVE  /\ Append(q, n) \in Seq(Notices) /\ Len(Append(q, n)) = Len(q) + 1
         /\ \A i \in 1..Len(q) : Append(q, n)[i] = q[i]
         /\ ToSet(Append(q, n)) = ToSet(q) \cup {n}
<1>1. /\ Append(q, n) \in Seq(Notices) /\ Len(Append(q, n)) = Len(q) + 1
      /\ \A i \in 1..Len(q) : Append(q, n)[i] = q[i]
      /\ Append(q, n)[Len(q) + 1] = n
  OBVIOUS
<1>2. DOMAIN Append(q, n) = 1..Len(q) + 1 /\ DOMAIN q = 1..Len(q) /\ Len(q) \in Nat
  OBVIOUS
<1>3. ToSet(Append(q, n)) = ToSet(q) \cup {n}
  BY <1>1, <1>2 DEF ToSet
<1>4. QED
  BY <1>1, <1>3

\* Whoever hears a notification keeps it, in the buffer or on the stream, or is closed.
LEMMA HeardIsKept ==
  ASSUME LiveInv, NEW s \in Streams, NEW n \in onAir
  PROVE  Hear(s, n) \in Streamings /\ SoundStream(Hear(s, n), committed)
<1>1. n \in Notices /\ n \in committed
  BY DEF LiveInv
<1>2. stream[s] \in Streamings /\ SoundStream(stream[s], committed)
  BY DEF LiveInv
<1> PICK x \in Streamings : x = stream[s]
  BY <1>2
<1>3. CASE stream[s].at = "closed" \/ Overflows(s)
  <2>1. Hear(s, n) = Closed
    BY <1>3 DEF Hear
  <2>2. QED
    BY <2>1, ClosedIsSound
<1>4. CASE stream[s].at = "live"
  <2> DEFINE h == [x EXCEPT !.written = Append(x.written, n), !.heard = x.heard \cup {n}]
  <2>1. Hear(s, n) = h
    BY <1>4 DEF Hear, Overflows
  <2>2. x.written \in Seq(Notices) /\ x.flushed \in Nat
    BY DEF Streamings
  <2>3. h \in Streamings
    BY <1>1, <2>2, OneMore DEF Streamings
  <2>4. /\ h.at = x.at /\ h.replayed = x.replayed /\ h.pending = x.pending /\ h.flushed = x.flushed
        /\ h.written = Append(x.written, n) /\ h.heard = x.heard \cup {n}
    BY DEF Streamings
  <2> HIDE DEF h
  <2>5. Distinct(h.written, h.flushed) /\ h.flushed <= Len(h.written)
    BY <1>1, <1>2, <2>2, <2>4, OneMore DEF Distinct, SoundStream
  <2>6. SoundStream(h, committed)
    BY <1>1, <1>2, <1>4, <2>2, <2>4, <2>5, OneMore DEF SoundStream
  <2>7. QED
    BY <2>1, <2>3, <2>6
<1>5. CASE stream[s].at \in {"replaying", "queried"} /\ ~Overflows(s)
  <2> DEFINE h == [x EXCEPT !.pending = Append(x.pending, n), !.heard = x.heard \cup {n}]
  <2>1. Hear(s, n) = h
    BY <1>5 DEF Hear
  <2>2. x.pending \in Seq(Notices) /\ Len(x.pending) \in Nat /\ Len(x.pending) < MaxPending
    BY <1>5, LiveAssumption DEF Streamings, Overflows
  <2>3. h \in Streamings
    BY <1>1, <2>2, OneMore DEF Streamings
  <2>4. /\ h.at = x.at /\ h.replayed = x.replayed /\ h.written = x.written /\ h.flushed = x.flushed
        /\ h.pending = Append(x.pending, n) /\ h.heard = x.heard \cup {n}
    BY DEF Streamings
  <2> HIDE DEF h
  <2>5. Len(h.pending) <= MaxPending
    BY <1>1, <2>2, <2>4, OneMore, LiveAssumption
  <2>6. SoundStream(h, committed)
    BY <1>1, <1>2, <1>5, <2>2, <2>4, <2>5, OneMore DEF SoundStream
  <2>7. QED
    BY <2>1, <2>3, <2>6
<1>6. QED
  BY <1>2, <1>3, <1>4, <1>5 DEF Streamings

LEMMA BroadcastKeeps ==
  ASSUME LiveInv, NEW n \in Notices, Broadcast(n)
  PROVE  LiveInv'
<1>1. n \in onAir /\ onAir' = onAir \ {n} /\ UNCHANGED <<committed, browser>>
      /\ stream' = [s \in Streams |-> Hear(s, n)]
  BY DEF Broadcast
<1>2. stream' \in [Streams -> Streamings] /\ \A s \in Streams : SoundStream(stream'[s], committed')
  BY <1>1, HeardIsKept
<1>3. Open' \subseteq Open
  <2>1. \A s \in Streams : stream[s].at = "closed" => stream'[s].at = "closed"
    BY <1>1 DEF Hear, Closed
  <2>2. QED
    BY <2>1 DEF Open
<1>4. IsFiniteSet(Open)' /\ Cardinality(Open)' <= MaxConnections
  <2>1. /\ IsFiniteSet(Open) /\ Cardinality(Open) <= MaxConnections
        /\ IsFiniteSet(Open') /\ Cardinality(Open') <= Cardinality(Open)
    BY <1>3, FS_Subset DEF LiveInv
  <2>2. Cardinality(Open) \in Nat /\ Cardinality(Open') \in Nat
    BY <2>1, FS_CardinalityType
  <2>3. QED
    BY <2>1, <2>2, LiveAssumption
<1>5. BrowsersOK'
  BY <1>1 DEF LiveInv, BrowsersOK
<1>6. QED
  BY <1>1, <1>2, <1>4, <1>5 DEF LiveInv

LEMMA ConnectKeeps ==
  ASSUME LiveInv, NEW s \in Streams, Connect(s)
  PROVE  LiveInv'
<1>1. /\ stream[s].at = "closed" /\ Cardinality(Open) < MaxConnections
      /\ UNCHANGED <<committed, onAir>>
  BY DEF Connect
<1> DEFINE x == [Closed EXCEPT !.at = "replaying"]
<1>2. stream[s] = Closed
  BY <1>1 DEF LiveInv, SoundStream
<1>3. stream' = [stream EXCEPT ![s] = x]
  BY <1>2 DEF Connect, LiveInv
<1>4. x \in Streamings
  <2>1. \A c \in Streamings : [c EXCEPT !.at = "replaying"] \in Streamings
    BY DEF Streamings
  <2>2. QED
    BY <2>1, ClosedIsSound
<1>5. SoundStream(x, committed)
  <2>1. ToSet(x.replayed) = {} /\ ToSet(x.pending) = {} /\ ToSet(x.written) = {} /\ x.heard = {}
    BY DEF Closed, ToSet
  <2>2. QED
    BY <2>1, LiveAssumption DEF Closed, SoundStream, Distinct
<1>6. BrowsersOK'
  BY DEF Connect, LiveInv, BrowsersOK
<1> HIDE DEF x
<1>7. QED
  BY <1>1, <1>3, <1>4, <1>5, <1>6, OneStreamSteps

LEMMA FailureKeeps ==
  ASSUME LiveInv, NEW s \in Streams, ReplayFails(s)
  PROVE  LiveInv'
<1>1. stream' = [stream EXCEPT ![s] = Closed] /\ UNCHANGED <<committed, onAir, browser>>
  BY DEF ReplayFails
<1>2. BrowsersOK' /\ Closed.at = "closed"
  BY <1>1 DEF LiveInv, BrowsersOK, Closed
<1>3. QED
  BY <1>1, <1>2, ClosedIsSound, OneStreamSteps

\* What was read is a prefix of what was written, and the cursor the last of it.
LEMMA DisconnectKeeps ==
  ASSUME LiveInv, NEW s \in Streams, Disconnect(s)
  PROVE  LiveInv'
<1>1. stream' = [stream EXCEPT ![s] = Closed] /\ UNCHANGED <<committed, onAir>>
  BY DEF Disconnect
<1> PICK k \in 0..Len(stream[s].written) :
      browser' = [browser EXCEPT ![s] = ReadUpTo(s, stream[s].written, k)]
  BY DEF Disconnect
<1>2. PICK q \in Seq(Notices) : q = stream[s].written
  BY DEF LiveInv, Streamings
<1>3. PICK b \in [cursor : Nat, read : SUBSET Notices, connects : Nat] : b = browser[s]
  BY DEF LiveInv, BrowsersOK
<1> DEFINE c == IF k = 0 THEN b.cursor ELSE q[k]
           r == b.read \cup ToSet(SubSeq(q, 1, k))
<1>4. ToSet(SubSeq(q, 1, k)) = {q[i] : i \in 1..k}
  <2>1. k \in Nat /\ k <= Len(q)
    BY <1>2
  <2>2. Len(SubSeq(q, 1, k)) = k /\ \A i \in 1..k : SubSeq(q, 1, k)[i] = q[i]
    BY <2>1
  <2>3. DOMAIN SubSeq(q, 1, k) = 1..k
    BY <2>1, <2>2
  <2>4. QED
    BY <2>2, <2>3 DEF ToSet
<1>5. c \in Nat /\ r \in SUBSET Notices /\ c \in {0} \cup r
  <2>1. \A i \in 1..k : q[i] \in Notices
    BY <1>2
  <2>2. b.cursor \in {0} \cup b.read
    BY <1>3 DEF LiveInv, BrowsersOK
  <2>3. QED
    BY <1>3, <1>4, <2>1, <2>2 DEF Notices
<1> HIDE DEF c, r
<1>6. ReadUpTo(s, stream[s].written, k) = [b EXCEPT !.cursor = c, !.read = r]
  BY <1>2, <1>3 DEF ReadUpTo, c, r
<1>7. BrowsersOK'
  <2>1. [b EXCEPT !.cursor = c, !.read = r] \in [cursor : Nat, read : SUBSET Notices, connects : Nat]
    BY <1>3, <1>5
  <2>2. /\ [b EXCEPT !.cursor = c, !.read = r].cursor = c
        /\ [b EXCEPT !.cursor = c, !.read = r].read = r
    BY <1>3
  <2>3. QED
    BY <1>5, <1>6, <2>1, <2>2 DEF LiveInv, BrowsersOK
<1>8. Closed.at = "closed"
  BY DEF Closed
<1>9. QED
  BY <1>1, <1>7, <1>8, ClosedIsSound, OneStreamSteps

\* In order is without repetition.
LEMMA SortedIsDistinct ==
  ASSUME NEW S, S \subseteq Nat, IsFiniteSet(S), NEW q \in Sortings(S)
  PROVE  /\ q \in Seq(S) /\ Len(q) = Cardinality(S) /\ Distinct(q, Len(q)) /\ ToSet(q) = S
<1>1. PICK c \in Nat : c = Cardinality(S)
  BY FS_CardinalityType
<1>2. q \in [1..c -> S] /\ \A i, j \in 1..c : i < j => q[i] < q[j]
  BY <1>1 DEF Sortings
<1>3. q \in Seq(S) /\ Len(q) = c
  BY <1>2
<1>4. Distinct(q, c)
  <2> SUFFICES ASSUME NEW i \in 1..c, NEW j \in 1..c, q[i] = q[j], i < j PROVE FALSE
    BY <1>1 DEF Distinct
  <2>1. q[i] \in Nat /\ q[j] \in Nat /\ q[i] < q[j]
    BY <1>2
  <2>2. QED
    BY <2>1
<1>5. IsFiniteSet(1..c) /\ Cardinality(1..c) = c
  BY FS_Interval
<1>6. q \in Injection(1..c, S)
  BY <1>2, <1>4 DEF Distinct, Injection, IsInjective
<1>7. q \in Surjection(1..c, S)
  BY <1>1, <1>5, <1>6, FS_Injection
<1>8. ToSet(q) = S
  BY <1>2, <1>7 DEF Surjection, ToSet
<1>9. QED
  BY <1>1, <1>3, <1>4, <1>8

LEMMA QueryKeeps ==
  ASSUME LiveInv, NEW s \in Streams, QueryReplay(s)
  PROVE  LiveInv'
<1>1. stream[s].at = "replaying" /\ UNCHANGED <<committed, onAir, browser>>
  BY DEF QueryReplay
<1>2. PICK x \in Streamings : x = stream[s] /\ SoundStream(x, committed)
  BY DEF LiveInv
<1>3. PICK page \in FirstPages(browser[s].cursor) :
        stream' = [stream EXCEPT ![s] = [x EXCEPT !.at = "queried", !.replayed = page]]
  BY <1>2 DEF QueryReplay
<1> DEFINE S == After(browser[s].cursor)
<1>4. S \subseteq committed /\ S \subseteq Notices /\ S \subseteq Nat /\ IsFiniteSet(S)
  <2>1. IsFiniteSet(Notices) /\ Notices \subseteq Nat
    BY FS_Interval, LiveAssumption DEF Notices
  <2>2. S \subseteq committed /\ S \subseteq Notices
    BY DEF After, LiveInv
  <2>3. QED
    BY <2>1, <2>2, FS_Subset
<1>5. PICK rows \in Sortings(S) :
        page = SubSeq(rows, 1, IF Len(rows) < PageSize THEN Len(rows) ELSE PageSize)
  BY DEF FirstPages
<1> HIDE DEF S
<1>6. rows \in Seq(S) /\ Distinct(rows, Len(rows)) /\ Len(rows) \in Nat
  <2>1. rows \in Seq(S) /\ Distinct(rows, Len(rows))
    BY <1>4, <1>5, SortedIsDistinct
  <2>2. QED
    BY <2>1
<1>7. PICK k \in Nat : k <= Len(rows) /\ k <= PageSize /\ page = SubSeq(rows, 1, k)
  BY <1>5, <1>6, LiveAssumption
<1>8. /\ page \in Seq(S) /\ Len(page) = k /\ \A i \in 1..k : page[i] = rows[i]
      /\ DOMAIN page = 1..k
  BY <1>6, <1>7
<1>9. Distinct(page, Len(page)) /\ ToSet(page) \subseteq committed /\ page \in Seq(Notices)
  <2>1. Distinct(page, Len(page))
    BY <1>6, <1>7, <1>8 DEF Distinct
  <2>2. \A i \in 1..k : page[i] \in S
    BY <1>8
  <2>3. ToSet(page) \subseteq S
    BY <1>8, <2>2 DEF ToSet
  <2>4. page \in Seq(Notices)
    <3>1. page \in [1..Len(page) -> S] /\ Len(page) \in Nat
      BY <1>8
    <3>2. page \in [1..Len(page) -> Notices]
      BY <1>4, <3>1
    <3>3. QED
      BY <3>1, <3>2
  <2>5. QED
    BY <1>4, <2>1, <2>3, <2>4
<1> DEFINE y == [x EXCEPT !.at = "queried", !.replayed = page]
<1>10. y \in Streamings
  BY <1>9 DEF Streamings
<1>11. /\ y.at = "queried" /\ y.replayed = page /\ y.pending = x.pending /\ y.written = x.written
       /\ y.flushed = x.flushed /\ y.heard = x.heard
  BY DEF Streamings
<1>12. SoundStream(y, committed)
  BY <1>1, <1>2, <1>7, <1>8, <1>9, <1>11 DEF SoundStream
<1>13. BrowsersOK'
  BY <1>1 DEF LiveInv, BrowsersOK
<1> HIDE DEF y
<1>14. QED
  BY <1>1, <1>2, <1>3, <1>10, <1>12, <1>13, OneStreamSteps DEF y

\* A property of numbers that one has, one is the first to have.
LEMMA FirstOf ==
  ASSUME NEW T, T \subseteq Nat, T # {}
  PROVE  \E x \in T : \A y \in T : x <= y
<1> DEFINE R == OpToRel(<, Nat)
<1>1. IsWellFoundedOn(R, Nat)
  BY NatLessThanWellFounded
<1>2. PICK x \in T : \A y \in T : ~(<<y, x>> \in R)
  <2> HIDE DEF R
  <2>1. QED
    BY <1>1, WFMin
<1>3. \A y \in T : ~(y < x)
  BY <1>2 DEF OpToRel
<1>4. QED
  BY <1>3

\* What the flush adds to the replay: the rest of the buffer, and nothing twice.
LEMMA DeduplicatedOnce ==
  ASSUME NEW p \in Seq(Notices), NEW q \in Seq(Notices), NEW kept \in Deduplications(p, q)
  PROVE  /\ kept \in Seq(Notices) /\ Distinct(kept, Len(kept))
         /\ ToSet(kept) = ToSet(q) \ ToSet(p)
<1> DEFINE F == Fresh(p, q)
<1>1. DOMAIN q = 1..Len(q) /\ Len(q) \in Nat /\ \A i \in 1..Len(q) : q[i] \in Notices
  OBVIOUS
<1>2. F \subseteq 1..Len(q) /\ F \subseteq Nat /\ IsFiniteSet(F)
  <2>1. F \subseteq 1..Len(q)
    BY DEF Fresh
  <2>2. IsFiniteSet(1..Len(q))
    BY <1>1, FS_Interval
  <2> HIDE DEF F
  <2>3. IsFiniteSet(F)
    BY <2>1, <2>2, FS_Subset
  <2>4. QED
    BY <2>1, <2>3
<1>3. PICK place \in Sortings(F) : kept = [k \in DOMAIN place |-> q[place[k]]]
  BY DEF Deduplications
<1>4. \A i, j \in F : q[i] = q[j] => i = j
  <2> SUFFICES ASSUME NEW i \in F, NEW j \in F, q[i] = q[j], i < j PROVE FALSE
    BY <1>2
  <2>1. i \in 1..j - 1
    BY <1>2
  <2>2. QED
    BY <2>1 DEF Fresh
<1>5. \A i \in 1..Len(q) : q[i] \notin ToSet(p) => \E j \in F : q[j] = q[i]
  <2> SUFFICES ASSUME NEW i \in 1..Len(q), q[i] \notin ToSet(p) PROVE \E j \in F : q[j] = q[i]
    OBVIOUS
  <2> DEFINE T == {j \in 1..Len(q) : q[j] = q[i]}
  <2>1. i \in T /\ T \subseteq Nat
    OBVIOUS
  <2>2. PICK x \in T : \A y \in T : x <= y
    <3> HIDE DEF T
    <3>1. QED
      BY <2>1, FirstOf
  <2>3. x \in 1..Len(q) /\ q[x] = q[i]
    OBVIOUS
  <2>4. \A j \in 1..x - 1 : q[j] # q[x]
    <3> SUFFICES ASSUME NEW j \in 1..x - 1, q[j] = q[x] PROVE FALSE
      OBVIOUS
    <3>1. j \in T /\ j < x
      BY <1>1, <2>3
    <3>2. QED
      BY <2>2, <2>3, <3>1
  <2>5. x \in F
    BY <1>1, <2>3, <2>4 DEF Fresh
  <2>6. QED
    BY <2>3, <2>5
<1>6. \A i \in F : q[i] \in ToSet(q) \ ToSet(p)
  BY <1>1, <1>2 DEF Fresh, ToSet
<1> HIDE DEF F
<1>7. place \in Seq(F) /\ Distinct(place, Len(place)) /\ ToSet(place) = F /\ Len(place) \in Nat
  <2>1. place \in Seq(F) /\ Distinct(place, Len(place)) /\ ToSet(place) = F
    BY <1>2, <1>3, SortedIsDistinct
  <2>2. QED
    BY <2>1
<1>8. /\ DOMAIN place = 1..Len(place) /\ \A k \in 1..Len(place) : place[k] \in F
  BY <1>7
<1>9. /\ DOMAIN kept = 1..Len(place) /\ \A k \in 1..Len(place) : kept[k] = q[place[k]]
  BY <1>3, <1>8
<1>10. kept \in Seq(Notices) /\ Len(kept) = Len(place)
  <2>1. kept \in [1..Len(place) -> Notices]
    BY <1>1, <1>2, <1>3, <1>8
  <2>2. QED
    BY <1>7, <2>1
<1>11. Distinct(kept, Len(kept))
  BY <1>4, <1>7, <1>8, <1>9, <1>10 DEF Distinct
<1>12. ToSet(kept) \subseteq ToSet(q) \ ToSet(p)
  BY <1>6, <1>8, <1>9 DEF ToSet
<1>13. ToSet(q) \ ToSet(p) \subseteq ToSet(kept)
  <2> SUFFICES ASSUME NEW i \in 1..Len(q), q[i] \notin ToSet(p) PROVE q[i] \in ToSet(kept)
    BY <1>1 DEF ToSet
  <2>1. PICK j \in F : q[j] = q[i]
    BY <1>5
  <2>2. PICK k \in 1..Len(place) : place[k] = j
    BY <1>7, <1>8 DEF ToSet
  <2>3. QED
    BY <1>9, <2>1, <2>2 DEF ToSet
<1>14. QED
  BY <1>10, <1>11, <1>12, <1>13

LEMMA FlushKeeps ==
  ASSUME LiveInv, NEW s \in Streams, FlushReplay(s)
  PROVE  LiveInv'
<1>1. stream[s].at = "queried" /\ UNCHANGED <<committed, onAir, browser>>
  BY DEF FlushReplay
<1>2. PICK x \in Streamings : x = stream[s] /\ SoundStream(x, committed)
  BY DEF LiveInv
<1>3. PICK p \in Seq(Notices), q \in Seq(Notices) : p = x.replayed /\ q = x.pending
  BY DEF Streamings
<1>4. PICK kept \in Deduplications(p, q) :
        stream' = [stream EXCEPT ![s] =
          [x EXCEPT !.at = "live", !.replayed = <<>>, !.pending = <<>>,
                    !.written = p \o kept, !.flushed = Len(p \o kept)]]
  BY <1>2, <1>3 DEF FlushReplay
<1>5. /\ kept \in Seq(Notices) /\ Distinct(kept, Len(kept))
      /\ ToSet(kept) = ToSet(q) \ ToSet(p)
  BY DeduplicatedOnce
<1>6. PICK a \in Seq(Notices) : a = p \o kept
  <2>1. p \o kept \in Seq(Notices)
    BY <1>5
  <2>2. QED
    BY <2>1
<1>7. /\ Len(p) \in Nat /\ Len(kept) \in Nat /\ Len(a) = Len(p) + Len(kept)
      /\ \A i \in 1..Len(a) : a[i] = IF i <= Len(p) THEN p[i] ELSE kept[i - Len(p)]
  BY <1>5, <1>6
<1>8. DOMAIN p = 1..Len(p) /\ DOMAIN kept = 1..Len(kept) /\ DOMAIN a = 1..Len(a)
  BY <1>5
<1>9. ToSet(a) = ToSet(p) \cup ToSet(q)
  <2>1. \A i \in 1..Len(a) : a[i] \in ToSet(p) \cup ToSet(kept)
    <3> SUFFICES ASSUME NEW i \in 1..Len(a) PROVE a[i] \in ToSet(p) \cup ToSet(kept)
      OBVIOUS
    <3>1. CASE i <= Len(p)
      BY <1>7, <1>8, <3>1 DEF ToSet
    <3>2. CASE i > Len(p)
      <4>1. i - Len(p) \in 1..Len(kept) /\ a[i] = kept[i - Len(p)]
        BY <1>7, <3>2
      <4>2. QED
        BY <1>8, <4>1 DEF ToSet
    <3>3. QED
      BY <1>7, <3>1, <3>2
  <2>2. \A i \in 1..Len(p) : i \in 1..Len(a) /\ a[i] = p[i]
    BY <1>7
  <2>3. \A i \in 1..Len(kept) : i + Len(p) \in 1..Len(a) /\ a[i + Len(p)] = kept[i]
    BY <1>7
  <2>4. ToSet(a) \subseteq ToSet(p) \cup ToSet(kept)
    BY <1>8, <2>1 DEF ToSet
  <2>5. ToSet(p) \subseteq ToSet(a)
    BY <1>8, <2>2 DEF ToSet
  <2>6. ToSet(kept) \subseteq ToSet(a)
    BY <1>8, <2>3 DEF ToSet
  <2>7. QED
    BY <1>5, <2>4, <2>5, <2>6
<1>10. Distinct(a, Len(a))
  <2>1. Distinct(p, Len(p))
    BY <1>1, <1>2, <1>3 DEF SoundStream
  <2>2. \A i \in 1..Len(p), j \in 1..Len(kept) : p[i] # kept[j]
    BY <1>5, <1>8 DEF ToSet
  <2> SUFFICES ASSUME NEW i \in 1..Len(a), NEW j \in 1..Len(a), a[i] = a[j] PROVE i = j
    BY DEF Distinct
  <2>3. CASE i <= Len(p) /\ j <= Len(p)
    BY <1>7, <2>1, <2>3 DEF Distinct
  <2>4. CASE i > Len(p) /\ j > Len(p)
    <3>1. i - Len(p) \in 1..Len(kept) /\ j - Len(p) \in 1..Len(kept)
      BY <1>7, <2>4
    <3>2. kept[i - Len(p)] = kept[j - Len(p)]
      BY <1>7, <2>4
    <3>3. i - Len(p) = j - Len(p)
      BY <1>5, <3>1, <3>2 DEF Distinct
    <3>4. QED
      BY <1>7, <3>3
  <2>5. CASE i <= Len(p) /\ j > Len(p)
    <3>1. i \in 1..Len(p) /\ j - Len(p) \in 1..Len(kept)
      BY <1>7, <2>5
    <3>2. QED
      BY <1>7, <2>2, <2>5, <3>1
  <2>6. CASE i > Len(p) /\ j <= Len(p)
    <3>1. j \in 1..Len(p) /\ i - Len(p) \in 1..Len(kept)
      BY <1>7, <2>6
    <3>2. QED
      BY <1>7, <2>2, <2>6, <3>1
  <2>7. QED
    BY <1>7, <2>3, <2>4, <2>5, <2>6
<1> DEFINE y == [x EXCEPT !.at = "live", !.replayed = <<>>, !.pending = <<>>,
                          !.written = a, !.flushed = Len(a)]
<1>11. y \in Streamings
  <2>1. <<>> \in Seq(Notices) /\ Len(a) \in Nat
    OBVIOUS
  <2>2. QED
    BY <2>1 DEF Streamings
<1>12. /\ y.at = "live" /\ y.replayed = <<>> /\ y.pending = <<>> /\ y.written = a
       /\ y.flushed = Len(a) /\ y.heard = x.heard
  BY DEF Streamings
<1>13. SoundStream(y, committed)
  <2>1. ToSet(y.replayed) = {} /\ ToSet(y.pending) = {}
    BY <1>12 DEF ToSet
  <2>2. x.heard \subseteq ToSet(a) /\ ToSet(a) \subseteq committed
    BY <1>1, <1>2, <1>3, <1>9 DEF SoundStream
  <2> HIDE DEF y
  <2>3. QED
    BY <1>7, <1>10, <1>12, <2>1, <2>2, LiveAssumption DEF SoundStream
<1>14. BrowsersOK'
  BY <1>1 DEF LiveInv, BrowsersOK
<1>15. stream' = [stream EXCEPT ![s] = y]
  BY <1>4, <1>6
<1> HIDE DEF y
<1>16. QED
  BY <1>1, <1>11, <1>13, <1>14, <1>15, OneStreamSteps

\* Buffers stay within their limit, a user within the limit of connections, and a reader's
\* cursor is the last event it has read (sse.ts:20-23,166-204).
THEOREM StreamInvariant == LiveSpec => [](LiveInv /\ LiveTypeOK)
<1>1. LiveInv /\ [LiveNext]_liveVars => LiveInv'
  <2> SUFFICES ASSUME LiveInv, [LiveNext]_liveVars PROVE LiveInv'
    OBVIOUS
  <2>1. CASE \E n \in Notices : CommitNotice(n) \/ Broadcast(n)
    BY <2>1, CommitKeeps, BroadcastKeeps
  <2>2. CASE \E s \in Streams : Connect(s) \/ QueryReplay(s) \/ ReplayFails(s) \/ FlushReplay(s)
                                \/ Disconnect(s)
    BY <2>2, ConnectKeeps, QueryKeeps, FailureKeeps, FlushKeeps, DisconnectKeeps
  <2>3. CASE UNCHANGED liveVars
    BY <2>3 DEF liveVars, LiveInv, BrowsersOK, Open
  <2>4. QED
    BY <2>1, <2>2, <2>3 DEF LiveNext
<1>2. LiveInv => LiveTypeOK
  <2> SUFFICES ASSUME LiveInv PROVE LiveTypeOK
    OBVIOUS
  <2>1. \A s \in Streams : stream[s] \in Streamings /\ SoundStream(stream[s], committed)
    BY DEF LiveInv
  <2>2. QED
    BY <2>1 DEF LiveInv, BrowsersOK, LiveTypeOK, SoundStream, Streamings
<1>3. QED
  BY LiveInitially, <1>1, <1>2, PTL DEF LiveSpec

\* Whatever was announced to a registered connection is on its stream once it is live, and
\* the replay and the flush write nothing twice, in whatever order rows become visible and
\* announcements arrive (sse.ts:45-56,108-150).
THEOREM HandoversAreExact == LiveSpec => []HandoverExact
<1>1. LiveInv => HandoverExact
  BY DEF LiveInv, SoundStream, Distinct, HandoverExact
<1>2. QED
  BY <1>1, StreamInvariant, PTL
=============================================================================
