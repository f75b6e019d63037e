-------------------------- MODULE RefreshSessions --------------------------
(***************************************************************************)
(* Refresh-token families.  A login opens a family with its first token; a *)
(* refresh exchanges the family's live token for the next one; presenting  *)
(* a token that was exchanged before, or logging out with any token of the *)
(* family, ends it.  Refresh and logout are transactions that take the     *)
(* owner's advisory lock, read, and write; any number of them are under    *)
(* way for one owner, whose families these are.                            *)
(***************************************************************************)
EXTENDS Naturals, FiniteSets

CONSTANTS
    Families,      \* login sessions of one owner
    Requests,      \* concurrent /refresh and /logout calls
    None,
    MaxTokens      \* bound: tokens issued in one family

ASSUME SessionAssumption == None \notin Requests \cup Families /\ MaxTokens \in Nat \ {0}

VARIABLES
    issued,        \* how many tokens a family has had: token n is its n-th row
    live,          \* the tokens of a family with revokedAt NULL
    expired,       \* families past the expiresAt every row of them shares
    ended,         \* families ended by a logout or a reuse (history)
    request,       \* what each transaction under way has been asked and has read
    advisory       \* holder of the owner's advisory lock

sessionVars == <<issued, live, expired, ended, request, advisory>>

Tokens == 1..MaxTokens

-----------------------------------------------------------------------------
(* Types *)

Kinds == {"refresh", "logout"}

\* seen: the transaction read its token as live.
RequestStates == [at : {"idle", "waiting", "locked", "read"}, kind : Kinds,
          family : Families \cup {None}, token : Tokens \cup {0}, seen : BOOLEAN]

NoRequest == [at |-> "idle", kind |-> "refresh", family |-> None, token |-> 0, seen |-> FALSE]

SessionTypeOK ==
    /\ issued \in [Families -> 0..MaxTokens]
    /\ live \in [Families -> SUBSET Tokens]
    /\ expired \subseteq Families /\ ended \subseteq Families
    /\ request \in [Requests -> RequestStates]
    /\ \A r \in Requests : request[r].at # "idle" =>
         request[r].family \in Families /\ request[r].token \in 1..issued[request[r].family]
    /\ advisory \in Requests \cup {None}

SessionInit ==
    /\ issued = [f \in Families |-> 0]
    /\ live = [f \in Families |-> {}]
    /\ expired = {} /\ ended = {}
    /\ request = [r \in Requests |-> NoRequest]
    /\ advisory = None

-----------------------------------------------------------------------------
(* Opening and expiry *)

\* issueTokens of register and login, which takes no lock.
Login(f) ==
    /\ issued[f] = 0
    /\ issued' = [issued EXCEPT ![f] = 1]
    /\ live' = [live EXCEPT ![f] = {1}]
    /\ UNCHANGED <<expired, ended, request, advisory>>

Expire(f) ==
    /\ issued[f] > 0 /\ f \notin expired
    /\ expired' = expired \cup {f}
    /\ UNCHANGED <<issued, live, ended, request, advisory>>

-----------------------------------------------------------------------------
(* The two transactions *)

\* Any token a family ever had may be presented, and more than once.
Present(r, kind, f, n) ==
    /\ request[r].at = "idle"
    /\ n <= issued[f]
    /\ request' = [request EXCEPT ![r] =
          [at |-> "waiting", kind |-> kind, family |-> f, token |-> n, seen |-> FALSE]]
    /\ UNCHANGED <<issued, live, expired, ended, advisory>>

\* Variant: reads without the lock.
AcquireAnyway(r) ==
    /\ request[r].at = "waiting"
    /\ advisory' = r
    /\ request' = [request EXCEPT ![r].at = "locked"]
    /\ UNCHANGED <<issued, live, expired, ended>>

Acquire(r) ==
    /\ request[r].at = "waiting"
    /\ advisory = None
    /\ advisory' = r
    /\ request' = [request EXCEPT ![r].at = "locked"]
    /\ UNCHANGED <<issued, live, expired, ended>>

\* The session row: seen is whether it was live.
ReadSession(r) ==
    /\ request[r].at = "locked"
    /\ request' = [request EXCEPT ![r].at = "read",
                                  ![r].seen = request[r].token \in live[request[r].family]]
    /\ UNCHANGED <<issued, live, expired, ended, advisory>>

Released(r) == IF advisory = r THEN None ELSE advisory

Finish(r) ==
    /\ request' = [request EXCEPT ![r] = NoRequest]
    /\ advisory' = Released(r)

Deciding(r) == request[r].at = "read"

\* An expired session: nothing is written.
RejectExpired(r) ==
    /\ Deciding(r) /\ request[r].kind = "refresh"
    /\ request[r].family \in expired
    /\ Finish(r)
    /\ UNCHANGED <<issued, live, expired, ended>>

\* The live token is revoked and its successor inserted, with the same expiry.
Rotate(r) ==
    LET f == request[r].family
    IN  /\ Deciding(r) /\ request[r].kind = "refresh"
        /\ f \notin expired
        /\ request[r].seen
        /\ issued[f] < MaxTokens
        /\ issued' = [issued EXCEPT ![f] = @ + 1]
        /\ live' = [live EXCEPT ![f] = (@ \ {request[r].token}) \cup {issued[f] + 1}]
        /\ Finish(r)
        /\ UNCHANGED <<expired, ended>>

\* Variant: only the presented token is revoked.
EndToken(r) ==
    LET f == request[r].family
    IN  /\ Deciding(r)
        /\ request[r].kind = "logout" \/ (f \notin expired /\ ~request[r].seen)
        /\ live' = [live EXCEPT ![f] = @ \ {request[r].token}]
        /\ ended' = ended \cup {f}
        /\ Finish(r)
        /\ UNCHANGED <<issued, expired>>

\* A revoked token presented again, or a logout: every live row of the family is
\* revoked, in a transaction that commits although the refresh is rejected.
EndFamily(r) ==
    LET f == request[r].family
    IN  /\ Deciding(r)
        /\ \/ request[r].kind = "logout"
           \/ f \notin expired /\ ~request[r].seen
        /\ live' = [live EXCEPT ![f] = {}]
        /\ ended' = ended \cup {f}
        /\ Finish(r)
        /\ UNCHANGED <<issued, expired>>

\* A crash or a database error rolls the transaction back and frees the lock.
RequestFails(r) ==
    /\ request[r].at # "idle"
    /\ Finish(r)
    /\ UNCHANGED <<issued, live, expired, ended>>

SessionNext ==
    \/ \E f \in Families : Login(f) \/ Expire(f)
    \/ \E r \in Requests, kind \in Kinds, f \in Families, n \in Tokens :
         Present(r, kind, f, n)
    \/ \E r \in Requests : Acquire(r) \/ ReadSession(r) \/ RejectExpired(r) \/ Rotate(r)
                           \/ EndFamily(r) \/ RequestFails(r)

SessionSpec == SessionInit /\ [][SessionNext]_sessionVars

-----------------------------------------------------------------------------
(* Properties *)

\* Of the tokens a family ever had at most one can still be exchanged, whichever
\* refreshes of it race (refresh-sessions.ts:24-56).
OneLiveToken ==
    \A f \in Families : \A m, n \in live[f] : m = n

\* "No successor may escape family revocation": once a logout or a reuse committed,
\* no token of the family works, not even one a concurrent refresh was
\* about to issue (refresh-sessions.ts:25-27).
EndedFamiliesStayEnded ==
    \A f \in ended : live[f] = {}

\* What the two rest on: only the holder of the lock has read, and what it read of a
\* token still holds.
ReadUnderLock ==
    \A r \in Requests : request[r].at \in {"locked", "read"} =>
      /\ advisory = r
      /\ request[r].at = "read" =>
           (request[r].seen <=> request[r].token \in live[request[r].family])

\* Tokens are numbered as they were issued.
LiveWereIssued ==
    \A f \in Families : \A n \in live[f] : n <= issued[f]

=============================================================================
