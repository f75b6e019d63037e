------------------------- MODULE ApplicationOutcomes -------------------------
(***************************************************************************)
(* What happens to a confirmed application: mails about it are ingested,   *)
(* linked, reviewed and applied (services/email-outcomes.ts), interviews   *)
(* and offers are recorded and offers decided                              *)
(* (services/application-lifecycle.ts), and the owner moves it by hand     *)
(* (PATCH /api/applications/:id/status), all through                       *)
(* transitionApplicationInTenant (services/application-state-machine.ts).  *)
(*                                                                         *)
(* Each operation is one tenant transaction.  Its reads and its commit are *)
(* two steps; a request repeated with its key changes nothing and is no    *)
(* step.                                                                   *)
(***************************************************************************)
EXTENDS Naturals, FiniteSets

CONSTANTS Confirmed,     \* applications the verifier has confirmed
          Mails,         \* messages delivered about them, by messageId
          Signals,       \* [Mails -> the classes of email-outcomes.ts whose signals it has]
          SourceEvents,  \* idempotency keys of interviews and offers
          OutcomeCalls,  \* requests under way
          MaxMoves,      \* bound on the transitions of one application
          NoSubject

Classes == {"OFFER", "INTERVIEW", "ASSESSMENT", "REJECTION", "WITHDRAWAL", "RECEIVED", "RECRUITER"}

ASSUME OutcomesAssumption ==
  /\ Signals \in [Mails -> SUBSET Classes] /\ MaxMoves \in Nat
  /\ NoSubject \notin Confirmed \cup Mails \cup SourceEvents

VARIABLES
  stage,      \* [Confirmed -> status and version]
  mailRow,    \* [Mails -> its EmailOutcome row]
  interview,  \* [SourceEvents -> application of the interview, or NoSubject]
  offer,      \* [SourceEvents -> its Offer row]
  ask         \* [OutcomeCalls -> the transaction under way]

outcomeVars == <<stage, mailRow, interview, offer, ask>>

Decisions == {"ACCEPTED", "DECLINED", "WITHDRAWN", "EXPIRED"}

\* The part of the transition table that a confirmed application can reach.
Follows == [
  CONFIRMED  |-> {"ASSESSMENT", "INTERVIEW", "REJECTED", "OFFER", "WITHDRAWN"},
  ASSESSMENT |-> {"INTERVIEW", "OFFER", "REJECTED", "WITHDRAWN"},
  INTERVIEW  |-> {"INTERVIEW", "OFFER", "REJECTED", "WITHDRAWN"},
  OFFER      |-> {"ACCEPTED", "REJECTED", "WITHDRAWN"},
  REJECTED   |-> {},
  ACCEPTED   |-> {},
  WITHDRAWN  |-> {}]

Stages == DOMAIN Follows

\* lifecycleTargets; the interview classes are one here.
Target == [OFFER |-> "OFFER", INTERVIEW |-> "INTERVIEW", ASSESSMENT |-> "ASSESSMENT",
           REJECTION |-> "REJECTED", WITHDRAWAL |-> "WITHDRAWN"]

\* The application status that a decision about its offer stands for.
Settles == [ACCEPTED |-> "ACCEPTED", WITHDRAWN |-> "WITHDRAWN",
            DECLINED |-> "REJECTED", EXPIRED |-> "REJECTED"]

NoOutcome == [stored |-> FALSE, about |-> NoSubject, reviewed |-> FALSE]
NoOffer   == [about |-> NoSubject, status |-> "none"]
NoAsk     == [kind |-> "none", item |-> NoSubject, about |-> NoSubject, was |-> NoSubject,
              to |-> "none", seen |-> [status |-> "CONFIRMED", version |-> 0], decision |-> "none"]

Asks == [kind : {"none", "link", "review", "apply", "interview", "offer", "decide"},
         item : Mails \cup SourceEvents \cup {NoSubject}, about : Confirmed \cup {NoSubject},
         was : Confirmed \cup {NoSubject}, to : Stages \cup {"none"},
         seen : [status : Stages, version : Nat], decision : Decisions \cup {"none"}]

OutcomeTypeOK ==
  /\ stage \in [Confirmed -> [status : Stages, version : Nat]]
  /\ mailRow \in [Mails -> [stored : BOOLEAN, about : Confirmed \cup {NoSubject}, reviewed : BOOLEAN]]
  /\ interview \in [SourceEvents -> Confirmed \cup {NoSubject}]
  /\ offer \in [SourceEvents -> [about : Confirmed \cup {NoSubject},
                                 status : Decisions \cup {"none", "PENDING"}]]
  /\ ask \in [OutcomeCalls -> Asks]

OutcomeInit ==
  /\ stage = [a \in Confirmed |-> [status |-> "CONFIRMED", version |-> 0]]
  /\ mailRow = [m \in Mails |-> NoOutcome]
  /\ interview = [e \in SourceEvents |-> NoSubject]
  /\ offer = [e \in SourceEvents |-> NoOffer]
  /\ ask = [c \in OutcomeCalls |-> NoAsk]

-----------------------------------------------------------------------------
\* transitionApplicationInTenant: a transition of the table, by the status and version read.
May(was, to) == to \in Follows[was.status] /\ was.version < MaxMoves
Advanced(was, to) == [status |-> to, version |-> was.version + 1]

\* Variant: the update is by id, without the status and version that were read.
StillBlind(c) == TRUE

\* updateMany where status and version are as read, on the row as it is at the update.
Still(c) == stage[ask[c].about] = ask[c].seen

\* A request that needs no transition, or that makes the one it read to be possible.
Transits(c) ==
  IF ask[c].seen.status = ask[c].to /\ ask[c].kind # "apply"
  THEN stage' = stage
  ELSE Still(c) /\ stage' = [stage EXCEPT ![ask[c].about] = Advanced(ask[c].seen, ask[c].to)]

\* ensureStatus: nothing to do, or a transition that may be made.
CanEnsure(a, to) == stage[a].status = to \/ May(stage[a], to)

Started(kind, item) ==
  [NoAsk EXCEPT !.kind = kind, !.item = item]

\* pg_advisory_xact_lock on the key of the event, or on the offer, of a request of this kind.
LockFree(kind, item) == \A c \in OutcomeCalls : ~(ask[c].kind = kind /\ ask[c].item = item)

Done(c) == ask' = [ask EXCEPT ![c] = NoAsk]

-----------------------------------------------------------------------------
(* Mails. *)

\* classifyEmail: exactly one class has signals, or the mail is unclassified.
Class(m) == IF \E k \in Classes : Signals[m] = {k} THEN CHOOSE k \in Classes : Signals[m] = {k}
            ELSE "UNCLASSIFIED"

\* ingestEmailOutcome: messageId is unique, a second delivery is answered with the first.
Ingest(m, a) ==
  /\ ~mailRow[m].stored
  /\ mailRow' = [mailRow EXCEPT ![m] = [NoOutcome EXCEPT !.stored = TRUE, !.about = a]]
  /\ UNCHANGED <<stage, interview, offer, ask>>

\* linkEmailOutcome: a link to another application than the one read takes the review back.
LinkReads(c, m, a) ==
  /\ ask[c] = NoAsk /\ mailRow[m].stored
  /\ ask' = [ask EXCEPT ![c] = [Started("link", m) EXCEPT !.about = a, !.was = mailRow[m].about]]
  /\ UNCHANGED <<stage, mailRow, interview, offer>>

LinkCommits(c) ==
  /\ ask[c].kind = "link"
  /\ mailRow' = [mailRow EXCEPT ![ask[c].item].about = ask[c].about,
                   ![ask[c].item].reviewed = @ /\ ask[c].was = ask[c].about]
  /\ Done(c) /\ UNCHANGED <<stage, interview, offer>>

\* reviewEmailOutcome: a linked outcome that is not reviewed yet is, by its id.
ReviewReads(c, m) ==
  /\ ask[c] = NoAsk /\ mailRow[m].about # NoSubject /\ ~mailRow[m].reviewed
  /\ ask' = [ask EXCEPT ![c] = Started("review", m)]
  /\ UNCHANGED <<stage, mailRow, interview, offer>>

ReviewCommits(c) ==
  /\ ask[c].kind = "review"
  /\ mailRow' = [mailRow EXCEPT ![ask[c].item].reviewed = TRUE]
  /\ Done(c) /\ UNCHANGED <<stage, interview, offer>>

\* applyEmailOutcome: a linked, reviewed outcome with a lifecycle target moves the
\* application that was read, and is marked reviewed again by its id.
ApplyReads(c, m) ==
  LET a == mailRow[m].about
  IN  /\ ask[c] = NoAsk /\ a # NoSubject /\ mailRow[m].reviewed
      /\ Class(m) \in DOMAIN Target /\ May(stage[a], Target[Class(m)])
      /\ ask' = [ask EXCEPT ![c] = [Started("apply", m) EXCEPT
                   !.about = a, !.to = Target[Class(m)], !.seen = stage[a]]]
      /\ UNCHANGED <<stage, mailRow, interview, offer>>

ApplyCommits(c) ==
  /\ ask[c].kind = "apply"
  /\ Transits(c)
  /\ mailRow' = [mailRow EXCEPT ![ask[c].item].reviewed = TRUE]
  /\ Done(c) /\ UNCHANGED <<interview, offer>>

-----------------------------------------------------------------------------
(* Interviews and offers. *)

\* recordInterview: once per key; the application is at INTERVIEW, or CONFIRMED and moves there.
InterviewReads(c, e, a) ==
  /\ ask[c] = NoAsk /\ LockFree("interview", e) /\ interview[e] = NoSubject
  /\ stage[a].status \in {"INTERVIEW", "CONFIRMED"} /\ CanEnsure(a, "INTERVIEW")
  /\ ask' = [ask EXCEPT ![c] = [Started("interview", e) EXCEPT
               !.about = a, !.to = "INTERVIEW", !.seen = stage[a]]]
  /\ UNCHANGED <<stage, mailRow, interview, offer>>

InterviewCommits(c) ==
  /\ ask[c].kind = "interview"
  /\ Transits(c)
  /\ interview' = [interview EXCEPT ![ask[c].item] = ask[c].about]
  /\ Done(c) /\ UNCHANGED <<mailRow, offer>>

\* recordOffer: once per key; the application is at OFFER or can be moved there.
OfferReads(c, e, a) ==
  /\ ask[c] = NoAsk /\ LockFree("offer", e) /\ offer[e] = NoOffer
  /\ CanEnsure(a, "OFFER")
  /\ ask' = [ask EXCEPT ![c] = [Started("offer", e) EXCEPT
               !.about = a, !.to = "OFFER", !.seen = stage[a]]]
  /\ UNCHANGED <<stage, mailRow, interview, offer>>

OfferCommits(c) ==
  /\ ask[c].kind = "offer"
  /\ Transits(c)
  /\ offer' = [offer EXCEPT ![ask[c].item] = [about |-> ask[c].about, status |-> "PENDING"]]
  /\ Done(c) /\ UNCHANGED <<mailRow, interview>>

\* decideOffer: a pending offer, and an application that is where the decision puts it or
\* can be moved there.
DecideReads(c, e, d) ==
  LET a == offer[e].about
  IN  /\ ask[c] = NoAsk /\ LockFree("decide", e) /\ offer[e].status = "PENDING"
      /\ CanEnsure(a, Settles[d])
      /\ ask' = [ask EXCEPT ![c] = [Started("decide", e) EXCEPT
                   !.about = a, !.to = Settles[d], !.seen = stage[a], !.decision = d]]
      /\ UNCHANGED <<stage, mailRow, interview, offer>>

DecideCommits(c) ==
  /\ ask[c].kind = "decide"
  /\ Transits(c)
  /\ offer[ask[c].item].status = "PENDING"
  /\ offer' = [offer EXCEPT ![ask[c].item].status = ask[c].decision]
  /\ Done(c) /\ UNCHANGED <<mailRow, interview>>

\* PATCH /api/applications/:id/status: any transition of the table.
OwnerSetsStage(a, to) ==
  /\ May(stage[a], to)
  /\ stage' = [stage EXCEPT ![a] = Advanced(@, to)]
  /\ UNCHANGED <<mailRow, interview, offer, ask>>

\* A request fails, its row changed concurrently, or its process dies: it is rolled back.
AskFails(c) ==
  /\ ask[c] # NoAsk
  /\ Done(c) /\ UNCHANGED <<stage, mailRow, interview, offer>>

-----------------------------------------------------------------------------
MailStep(c) ==
  \/ \E m \in Mails : \/ \E a \in Confirmed \cup {NoSubject} : LinkReads(c, m, a)
                      \/ ReviewReads(c, m)
                      \/ ApplyReads(c, m)
  \/ LinkCommits(c) \/ ReviewCommits(c) \/ ApplyCommits(c)

EventStep(c) ==
  \/ \E e \in SourceEvents : \/ \E a \in Confirmed : InterviewReads(c, e, a) \/ OfferReads(c, e, a)
                             \/ \E d \in Decisions : DecideReads(c, e, d)
  \/ InterviewCommits(c) \/ OfferCommits(c) \/ DecideCommits(c)

OutcomeNext ==
  \/ \E m \in Mails, a \in Confirmed \cup {NoSubject} : Ingest(m, a)
  \/ \E c \in OutcomeCalls : MailStep(c) \/ EventStep(c) \/ AskFails(c)
  \/ \E a \in Confirmed, to \in Stages : OwnerSetsStage(a, to)

OutcomeSpec == OutcomeInit /\ [][OutcomeNext]_outcomeVars

-----------------------------------------------------------------------------
\* An offer that has been decided and its application agree, whatever mails, recruiters and
\* the owner do at the same time: an accepted offer's application is ACCEPTED, and stays so
\* (decideOffer and the compare-and-set of transitionApplicationInTenant).
DecidedOffersAgree ==
  \A e \in SourceEvents : offer[e].status \in Decisions =>
    stage[offer[e].about].status = Settles[offer[e].status]

=============================================================================
