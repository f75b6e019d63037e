--------------------------- MODULE ResumePipeline ---------------------------
(***************************************************************************)
(* The jobs a discovered posting is carried by until it is an application: *)
(* ANALYZE_JOB, MATCH_JOB, TAILOR_RESUME and EVALUATE_ATS                  *)
(* (services/automation-job-handlers.ts), over the candidate facts the     *)
(* owner approves (services/candidate-facts.ts, routes/resumes.ts).        *)
(*                                                                         *)
(* A handler is a chain of transactions: its effect, then the command of   *)
(* the next job, then the worker's completion.  A worker may fail, die, or *)
(* lose its lease and go on between any two of them; the job then begins   *)
(* again from its first.                                                   *)
(***************************************************************************)
EXTENDS Naturals, Sequences, SequencesExt, FiniteSets

CONSTANTS ResumeFacts,  \* what the parser finds in the uploaded resume
          MaxClaims,    \* claims of a tailored resume
          JobTries,     \* maxAttempts of each job
          MaxJobOrders, \* bound on the jobs the owner orders
          MaxMishaps    \* bound on attempts that fail or die or lose their lease

ASSUME PipelineAssumption ==
  JobTries \in Nat \ {0} /\ MaxClaims \in Nat \ {0} /\ {MaxJobOrders, MaxMishaps} \subseteq Nat

VARIABLES
  fact,       \* [ResumeFacts -> "unread", "pending", "approved" or "gone"]
  command,    \* [Commands -> its AutomationJob row]
  attempt,    \* [Commands -> [1 .. JobTries -> where the handler of that attempt is]]
  evidence,   \* which of the analysis and the match are stored
  version,    \* [1 .. JobTries -> ResumeVersion written by that attempt to tailor]
  intended,   \* version the application was created with, or 0
  stops,      \* history: the pipeline ended where it is meant to: no approved fact to tailor
              \* from, or no single active profile to apply with
  mishaps

pipelineVars == <<fact, command, attempt, evidence, version, intended, stops, mishaps>>

AttemptNos == 1 .. JobTries
Analyze  == <<"ANALYZE_JOB", 0>>
Matching == <<"MATCH_JOB", 0>>
Tailor   == <<"TAILOR_RESUME", 0>>
Ats(v)   == <<"EVALUATE_ATS", v>>
Commands == {Analyze, Matching, Tailor} \cup {Ats(v) : v \in AttemptNos}

HandlerSteps      == {"idle", "begin", "ask", "write", "look", "queue", "finish"}
NoCommand  == [status |-> "none", attempt |-> 0, by |-> "none"]
NoHandler  == [step |-> "idle", read |-> {}, cites |-> <<>>]
Citations  == UNION {[1 .. n -> ResumeFacts] : n \in 1 .. MaxClaims}

PipelineTypeOK ==
  /\ fact \in [ResumeFacts -> {"unread", "pending", "approved", "gone"}]
  /\ command \in [Commands -> [status : {"none", "available", "leased", "done", "dead"},
                               attempt : 0 .. JobTries, by : {"none", "handler", "owner"}]]
  /\ attempt \in [Commands -> [AttemptNos -> [step : HandlerSteps, read : SUBSET ResumeFacts,
                                         cites : Citations \cup {<<>>}]]]
  /\ evidence \subseteq {"analysis", "match"}
  /\ version \in [AttemptNos -> {"none", "written", "scored"}]
  /\ intended \in 0 .. JobTries
  /\ stops \in BOOLEAN /\ mishaps \in 0 .. MaxMishaps

\* persistDiscoveredJob has stored the posting and queued its analysis; POST /upload has
\* stored the resume, and its facts are yet to be read from it.
PipelineInit ==
  /\ fact = [f \in ResumeFacts |-> "unread"]
  /\ command = [c \in Commands |-> IF c = Analyze
                  THEN [status |-> "available", attempt |-> 0, by |-> "handler"] ELSE NoCommand]
  /\ attempt = [c \in Commands |-> [n \in AttemptNos |-> NoHandler]]
  /\ evidence = {} /\ version = [n \in AttemptNos |-> "none"] /\ intended = 0 /\ stops = FALSE
  /\ mishaps = 0

-----------------------------------------------------------------------------
(* The owner. *)

\* replaceResumeCandidateFacts, in a transaction of its own that may never come.
ExtractFacts ==
  /\ \E f \in ResumeFacts : fact[f] = "unread"
  /\ fact' = [f \in ResumeFacts |-> "pending"]
  /\ UNCHANGED <<command, attempt, evidence, version, intended, stops, mishaps>>

\* decideResumeCandidateFact: a fact read as pending is approved by its id, ...
ApproveFact(f) ==
  /\ fact[f] = "pending"
  /\ fact' = [fact EXCEPT ![f] = "approved"]
  /\ UNCHANGED <<command, attempt, evidence, version, intended, stops, mishaps>>

\* ... or deleted by its id, also one that another request has approved since it was read.
RejectFact(f) ==
  /\ fact[f] \in {"pending", "approved"}
  /\ fact' = [fact EXCEPT ![f] = "gone"]
  /\ UNCHANGED <<command, attempt, evidence, version, intended, stops, mishaps>>

\* createAutomationJob: a key already used is replayed to the same correlation id, and
\* refused to another; the routes and the handlers use different ones.
MayQueue(c, by) == command[c].status = "none" \/ command[c].by = by
Enqueued(c, by) ==
  IF command[c].status # "none" THEN command
  ELSE [command EXCEPT ![c] = [status |-> "available", attempt |-> 0, by |-> by]]

MayOrder == Cardinality({c \in Commands : command[c].by = "owner"}) < MaxJobOrders

\* POST /:id/tailor
OwnerQueuesTailor ==
  /\ MayOrder /\ command[Tailor].status = "none"
  /\ command' = Enqueued(Tailor, "owner")
  /\ UNCHANGED <<fact, attempt, evidence, version, intended, stops, mishaps>>

\* POST /:id/versions/:versionId/evaluate-ats
OwnerQueuesAts(v) ==
  /\ MayOrder /\ version[v] # "none" /\ command[Ats(v)].status = "none"
  /\ command' = Enqueued(Ats(v), "owner")
  /\ UNCHANGED <<fact, attempt, evidence, version, intended, stops, mishaps>>

-----------------------------------------------------------------------------
(* Attempts: what the queue and the worker do with every job. *)

At(c, n, step) == attempt[c][n].step = step
Goes(c, n, step) == attempt' = [attempt EXCEPT ![c][n].step = step]
Over(c, n) == attempt' = [attempt EXCEPT ![c][n] = NoHandler]

Take(c) ==
  LET n == command[c].attempt + 1
  IN  /\ command[c].status = "available"
      /\ command' = [command EXCEPT ![c].status = "leased", ![c].attempt = n]
      /\ Goes(c, n, "begin")
      /\ UNCHANGED <<fact, evidence, version, intended, stops, mishaps>>

\* A retry while attempts are left, FAILED_FINAL after the last.
Again(c) == [command EXCEPT ![c].status = IF command[c].attempt < JobTries THEN "available" ELSE "dead"]

Holds(c, n) == command[c].status = "leased" /\ command[c].attempt = n

\* Variant: the next job is queued without awaiting it.
ReturnsEarly(c, n) == attempt[c][n].step \in {"queue", "finish"}

\* The handler has returned.
Returns(c, n) == At(c, n, "finish")

\* The completion counts for the attempt that holds the lease.
Completes(c, n) ==
  /\ Returns(c, n) /\ Over(c, n)
  /\ command' = IF Holds(c, n) THEN [command EXCEPT ![c].status = "done"] ELSE command
  /\ UNCHANGED <<fact, evidence, version, intended, stops, mishaps>>

\* The handler throws: a provider fails, a claim is not supported, the signal is aborted.
Throws(c, n) ==
  /\ ~At(c, n, "idle") /\ mishaps < MaxMishaps
  /\ command' = IF Holds(c, n) THEN Again(c) ELSE command
  /\ Over(c, n)
  /\ mishaps' = mishaps + 1
  /\ UNCHANGED <<fact, evidence, version, intended, stops>>

Dies(c, n) ==
  /\ ~At(c, n, "idle") /\ mishaps < MaxMishaps
  /\ Over(c, n)
  /\ mishaps' = mishaps + 1
  /\ UNCHANGED <<fact, command, evidence, version, intended, stops>>

\* The lease runs out: no worker renews it, or one that lives cannot.
Lapses(c) ==
  LET alone == At(c, command[c].attempt, "idle")
  IN  /\ command[c].status = "leased" /\ (alone \/ mishaps < MaxMishaps)
      /\ mishaps' = IF alone THEN mishaps ELSE mishaps + 1
      /\ command' = Again(c)
      /\ UNCHANGED <<fact, attempt, evidence, version, intended, stops>>

-----------------------------------------------------------------------------
(* The handlers. *)

\* The analysis or the match is upserted.
Stores(c, n, what, then) ==
  /\ At(c, n, "begin") /\ Goes(c, n, then)
  /\ evidence' = evidence \cup {what}
  /\ UNCHANGED <<fact, command, version, intended, stops, mishaps>>

\* The command of the next job; it is in the queue before this one is completed.
Chains(c, n, next) ==
  /\ At(c, n, "queue") /\ MayQueue(next, "handler")
  /\ command' = Enqueued(next, "handler")
  /\ Goes(c, n, "finish")
  /\ UNCHANGED <<fact, evidence, version, intended, stops, mishaps>>

ApprovedFacts == {f \in ResumeFacts : fact[f] = "approved"}

\* matchJob: tailoring follows only when the master resume has an approved fact.
LooksForFacts(n) ==
  /\ At(Matching, n, "look")
  /\ Goes(Matching, n, IF ApprovedFacts # {} THEN "queue" ELSE "finish")
  /\ stops' = (stops \/ ApprovedFacts = {})
  /\ UNCHANGED <<fact, command, evidence, version, intended, mishaps>>

\* executeResumeTailoring: the approved facts are read, ...
ReadsFacts(n) ==
  /\ At(Tailor, n, "begin") /\ ApprovedFacts # {}
  /\ attempt' = [attempt EXCEPT ![Tailor][n] = [NoHandler EXCEPT !.step = "ask", !.read = ApprovedFacts]]
  /\ UNCHANGED <<fact, command, evidence, version, intended, stops, mishaps>>

\* ... the agent answers with claims, each supported by one of them (verifyResumeClaims), ...
AgentAnswers(n, cites) ==
  /\ At(Tailor, n, "ask") /\ ToSet(cites) \subseteq attempt[Tailor][n].read
  /\ attempt' = [attempt EXCEPT ![Tailor][n] = [@ EXCEPT !.step = "write", !.cites = cites]]
  /\ UNCHANGED <<fact, command, evidence, version, intended, stops, mishaps>>

\* ... and the version is written if as many facts are approved still as there are claims.
Changed(n) ==
  LET cites == attempt[Tailor][n].cites IN Cardinality(ToSet(cites) \cap ApprovedFacts) # Len(cites)

WritesVersion(n) ==
  /\ At(Tailor, n, "write") /\ ~Changed(n)
  /\ Goes(Tailor, n, "queue")
  /\ version' = [version EXCEPT ![n] = "written"]
  /\ UNCHANGED <<fact, command, evidence, intended, stops, mishaps>>

\* executeATSEvaluation
Scores(v, n) ==
  /\ At(Ats(v), n, "begin") /\ Goes(Ats(v), n, "queue")
  /\ version' = [version EXCEPT ![v] = "scored"]
  /\ UNCHANGED <<fact, command, evidence, intended, stops, mishaps>>

\* evaluateATS with one active search profile: createApplicationIntent, which refuses
\* another version of a posting that has an application.
Intends(v, n) ==
  /\ At(Ats(v), n, "queue") /\ Goes(Ats(v), n, "finish")
  /\ intended \in {0, v} /\ "match" \in evidence
  /\ intended' = v
  /\ UNCHANGED <<fact, command, evidence, version, stops, mishaps>>

\* ... and with none or several: the owner has to choose.
LeavesToOwner(v, n) ==
  /\ At(Ats(v), n, "queue") /\ Goes(Ats(v), n, "finish")
  /\ stops' = TRUE
  /\ UNCHANGED <<fact, command, evidence, version, intended, mishaps>>

\* NO_APPROVED_FACTS, FACTS_CHANGED, IDEMPOTENCY_CONFLICT or APPLICATION_EXISTS: the
\* handler throws because it may not go on.
Refusing(c, n) ==
  \/ c = Tailor /\ At(c, n, "begin") /\ ApprovedFacts = {}
  \/ c = Tailor /\ At(c, n, "write") /\ Changed(n)
  \/ c = Matching /\ At(c, n, "queue") /\ ~MayQueue(Tailor, "handler")
  \/ c = Tailor /\ At(c, n, "queue") /\ ~MayQueue(Ats(n), "handler")
  \/ c[1] = "EVALUATE_ATS" /\ At(c, n, "queue") /\ intended \notin {0, c[2]}

IsRefused(c, n) ==
  /\ Refusing(c, n)
  /\ command' = IF Holds(c, n) THEN Again(c) ELSE command
  /\ Over(c, n)
  /\ UNCHANGED <<fact, evidence, version, intended, stops, mishaps>>

-----------------------------------------------------------------------------
HandlerStep(n) ==
  \/ Stores(Analyze, n, "analysis", "queue") \/ Chains(Analyze, n, Matching)
  \/ Stores(Matching, n, "match", "look") \/ LooksForFacts(n) \/ Chains(Matching, n, Tailor)
  \/ ReadsFacts(n) \/ (\E cites \in Citations : AgentAnswers(n, cites)) \/ WritesVersion(n)
  \/ \E v \in AttemptNos : Scores(v, n) \/ Intends(v, n) \/ LeavesToOwner(v, n)
  \/ Chains(Tailor, n, Ats(n))

WorkerStep ==
  \/ \E c \in Commands : Take(c) \/ \E n \in AttemptNos : Completes(c, n) \/ IsRefused(c, n)
  \/ \E n \in AttemptNos : HandlerStep(n)

OwnerStep ==
  \/ ExtractFacts \/ OwnerQueuesTailor
  \/ \E f \in ResumeFacts : ApproveFact(f) \/ RejectFact(f)
  \/ \E v \in AttemptNos : OwnerQueuesAts(v)

PipelineNext ==
  \/ OwnerStep \/ WorkerStep
  \/ \E c \in Commands : Lapses(c) \/ \E n \in AttemptNos : Dies(c, n) \/ Throws(c, n)

PipelineSpec == PipelineInit /\ [][PipelineNext]_pipelineVars

-----------------------------------------------------------------------------
\* No posting is left halfway: wherever workers die, fail or lose their leases between the
\* transactions of a handler, and whatever the owner orders or decides meanwhile, once no
\* job is left to be run the posting has become an application, has stopped where the
\* pipeline means it to, or has a job that failed for good.
NoPostingStranded ==
  (\A c \in Commands : command[c].status \in {"none", "done"}) => intended # 0 \/ stops

=============================================================================
