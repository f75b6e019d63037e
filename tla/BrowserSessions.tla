--------------------------- MODULE BrowserSessions ---------------------------
(***************************************************************************)
(* BrowserSessionManager (services/browser-session-manager.ts): a row of   *)
(* browser_session_references for each session key, and in the memory of   *)
(* each worker process the browser contexts it holds open.  The form jobs  *)
(* and the provider submission use one session key per job or              *)
(* authorization, so an attempt that is tried again asks for the session   *)
(* of the attempt before it, possibly in another worker and possibly while *)
(* that attempt still runs.                                                *)
(***************************************************************************)
EXTENDS Naturals, FiniteSets

CONSTANTS Keys,      \* session idempotency keys
          Workers,   \* worker processes
          MaxStarts  \* bound on the sessions asked for

ASSUME BrowserAssumption == MaxStarts \in Nat /\ IsFiniteSet(Workers)

VARIABLES
  session,      \* [Keys -> row status]; "none": not created
  age,      \* [Keys -> "fresh" | "stale" | "expired"], against the clock
  endings,  \* [Keys -> number of closed, expired or recovered events recorded]
  context,  \* [Workers -> [Keys -> "none" | "opening" | "open"]]
  up,       \* the running workers
  starts    \* sessions asked for

browserVars == <<session, age, endings, context, up, starts>>

RowStatuses == {"none", "ACTIVE", "CLOSED", "EXPIRED"}

BrowserTypeOK ==
  /\ session \in [Keys -> RowStatuses] /\ age \in [Keys -> {"fresh", "stale", "expired"}]
  /\ endings \in [Keys -> 0 .. 2] /\ up \subseteq Workers /\ starts \in 0 .. MaxStarts
  /\ context \in [Workers -> [Keys -> {"none", "opening", "open"}]]

NoContext == [k \in Keys |-> "none"]

BrowserInit ==
  /\ session = [k \in Keys |-> "none"] /\ age = [k \in Keys |-> "fresh"]
  /\ endings = [k \in Keys |-> 0] /\ context = [w \in Workers |-> NoContext]
  /\ up = Workers /\ starts = 0

-----------------------------------------------------------------------------
\* Variant: the update is by key alone.
EndsAnyway(k) == session[k] # "none"

\* updateMany WHERE status = ACTIVE: only the update that finds the row active ends it and
\* records that it did.
Ends(k) == session[k] = "ACTIVE"

End(ended, status) ==
  LET hit == {k \in ended : Ends(k)}
  IN  /\ session' = [k \in Keys |-> IF k \in hit THEN status[k] ELSE session[k]]
      /\ endings' = [k \in Keys |-> IF k \in hit THEN endings[k] + 1 ELSE endings[k]]

\* start: the row is created or replayed; a context the worker already holds is used again.
Start(w, k) ==
  /\ w \in up /\ starts < MaxStarts
  /\ starts' = starts + 1
  /\ session' = [session EXCEPT ![k] = IF @ = "none" THEN "ACTIVE" ELSE @]
  /\ context' = [context EXCEPT ![w][k] = IF @ = "open" THEN @ ELSE "opening"]
  /\ UNCHANGED <<age, endings, up>>

\* The browser is launched, the context and the page are made and the target is opened.
Opened(w, k) ==
  /\ context[w][k] = "opening"
  /\ context' = [context EXCEPT ![w][k] = "open"]
  /\ UNCHANGED <<session, age, endings, up, starts>>

\* close, also after a failed start: the context is dropped, then the row is ended.
Close(w, k) ==
  /\ context[w][k] # "none"
  /\ context' = [context EXCEPT ![w][k] = "none"]
  /\ End({k}, [j \in Keys |-> "CLOSED"])
  /\ UNCHANGED <<age, up, starts>>

\* withPage and navigate on a session whose time is over.
CloseExpired(w, k) ==
  /\ context[w][k] = "open" /\ age[k] = "expired"
  /\ context' = [context EXCEPT ![w][k] = "none"]
  /\ End({k}, [j \in Keys |-> "EXPIRED"])
  /\ UNCHANGED <<age, up, starts>>

\* shutdown closes what the worker holds; a crash only loses it.
Shutdown(w) ==
  /\ w \in up
  /\ up' = up \ {w}
  /\ context' = [context EXCEPT ![w] = NoContext]
  /\ End({k \in Keys : context[w][k] = "open"}, [j \in Keys |-> "CLOSED"])
  /\ UNCHANGED <<age, starts>>

Crash(w) ==
  /\ w \in up
  /\ up' = up \ {w}
  /\ context' = [context EXCEPT ![w] = NoContext]
  /\ UNCHANGED <<session, age, endings, starts>>

\* A worker starts with reconcileStaleBrowserSessions: the rows that are stale or expired
\* are ended, whoever may still hold their contexts.
Restart(w) ==
  /\ w \notin up
  /\ up' = up \cup {w}
  /\ End({k \in Keys : age[k] # "fresh"},
         [j \in Keys |-> IF age[j] = "expired" THEN "EXPIRED" ELSE "CLOSED"])
  /\ UNCHANGED <<age, context, starts>>

Age(k) ==
  /\ session[k] # "none" /\ age[k] # "expired"
  /\ age' = [age EXCEPT ![k] = IF @ = "fresh" THEN "stale" ELSE "expired"]
  /\ UNCHANGED <<session, endings, context, up, starts>>

BrowserNext ==
  \/ \E w \in Workers, k \in Keys : Start(w, k) \/ Opened(w, k) \/ Close(w, k) \/ CloseExpired(w, k)
  \/ \E w \in Workers : Shutdown(w) \/ Crash(w) \/ Restart(w)
  \/ \E k \in Keys : Age(k)

BrowserSpec == BrowserInit /\ [][BrowserNext]_browserVars

-----------------------------------------------------------------------------
\* Every session that has ended was ended, audited and announced once, however many
\* workers, retries, shutdowns and recoveries closed it.
EndedOnce == \A k \in Keys : endings[k] = (IF session[k] \in {"CLOSED", "EXPIRED"} THEN 1 ELSE 0)
=============================================================================
