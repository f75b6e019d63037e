------------------------- MODULE ApplicationProofs -------------------------
(***************************************************************************)
(* Proofs about an application, before and after it is submitted.          *)
(*                                                                         *)
(* ApplicationOutcomes, for every number of applications, mails, offers    *)
(* and requests under way: no transition leaves a final status, and what a *)
(* request that decides an offer read of its application is final, or is   *)
(* compared with the application as it commits.                            *)
(*                                                                         *)
(* ResumePipeline, for every number of facts, citations and tries: a job   *)
(* whose handler has come to its end has left the next job of the chain,   *)
(* an application or a stop behind.                                        *)
(*                                                                         *)
(* ApplicationIntake, for every number of postings and transactions and    *)
(* every budget: what an evaluation has read under the owner's lock holds  *)
(* until it commits, and behind every form job is a reservation, or the    *)
(* owner's own hand.                                                       *)
(*                                                                         *)
(* ApplicationForm, for every form and number of passes: what a pass still *)
(* lists as open covers every required control it saw that has no value    *)
(* and was given none that leaves it empty.                                *)
(***************************************************************************)
EXTENDS ApplicationOutcomes, ResumePipeline, ApplicationIntake, ApplicationForm, FiniteSetTheorems,
        TLAPS

-----------------------------------------------------------------------------
(* Outcomes and offers. *)

Final == {"REJECTED", "ACCEPTED", "WITHDRAWN"}

\* The transition table, as far as the proofs look at it.
LEMMA TableFacts ==
  /\ Final \subseteq Stages /\ "CONFIRMED" \in Stages /\ "INTERVIEW" \in Stages /\ "OFFER" \in Stages
  /\ \A s \in Stages : Follows[s] \subseteq Stages
  /\ \A s \in Final : Follows[s] = {}
  /\ \A d \in Decisions : Settles[d] \in Final
  /\ \A k \in DOMAIN Target : Target[k] \in Stages
  BY DEF Final, Stages, Follows, Decisions, Settles, Target

\* What a request has read, and still holds when it commits: an offer that is being
\* recorded is not there yet, and an offer that is being decided is; the transition it
\* asks for is one of the table, or not needed.
AskInv(r) ==
  /\ r.kind \in {"link", "review", "apply"} => r.item \in Mails
  /\ r.kind \in {"interview", "offer", "decide"} => r.item \in SourceEvents
  /\ r.kind \in {"apply", "interview", "offer", "decide"} =>
       /\ r.about \in Confirmed /\ r.to \in Stages
       /\ r.to \in Follows[r.seen.status] \/ (r.kind # "apply" /\ r.seen.status = r.to)
  /\ r.kind = "offer" => offer[r.item] = NoOffer
  /\ r.kind = "decide" =>
       /\ r.decision \in Decisions /\ r.to = Settles[r.decision]
       /\ offer[r.item].status # "none" /\ offer[r.item].about = r.about
       /\ r.seen.status = r.to => stage[r.about].status = r.to

OutcomeInv ==
  /\ OutcomeTypeOK
  /\ DecidedOffersAgree
  /\ \A e \in SourceEvents : offer[e].status # "none" => offer[e].about \in Confirmed
  /\ \A c \in OutcomeCalls : AskInv(ask[c])
  /\ \A c, d \in OutcomeCalls :
       ask[c].kind = "offer" /\ ask[d].kind = "offer" /\ ask[c].item = ask[d].item => c = d

LEMMA NoAskFacts == NoAsk \in Asks /\ NoAsk.kind = "none" /\ AskInv(NoAsk)
  BY TableFacts DEF NoAsk, Asks, AskInv

LEMMA OutcomeInitially == OutcomeInit => OutcomeInv
<1>1. SUFFICES ASSUME OutcomeInit PROVE OutcomeInv
  OBVIOUS
<1>2. OutcomeTypeOK
  <2>1. [status |-> "CONFIRMED", version |-> 0] \in [status : Stages, version : Nat]
    BY TableFacts
  <2>2. NoOutcome \in [stored : BOOLEAN, about : Confirmed \cup {NoSubject}, reviewed : BOOLEAN]
    BY DEF NoOutcome
  <2>3. NoOffer \in [about : Confirmed \cup {NoSubject}, status : Decisions \cup {"none", "PENDING"}]
    BY DEF NoOffer
  <2>4. QED
    BY <1>1, <2>1, <2>2, <2>3, NoAskFacts DEF OutcomeInit, OutcomeTypeOK
<1>3. \A e \in SourceEvents : offer[e].status = "none"
  BY <1>1 DEF OutcomeInit, NoOffer
<1>4. DecidedOffersAgree
  BY <1>3 DEF DecidedOffersAgree, Decisions
<1>5. \A c \in OutcomeCalls : ask[c] = NoAsk
  BY <1>1 DEF OutcomeInit
<1>6. QED
  BY <1>2, <1>3, <1>4, <1>5, NoAskFacts DEF OutcomeInv

\* What a step leaves to show that touches no application and no offer.
LEMMA AskMoves ==
  ASSUME OutcomeInv, NEW c \in OutcomeCalls, NEW r \in Asks, ask' = [ask EXCEPT ![c] = r],
         UNCHANGED <<stage, offer>>, AskInv(r),
         r.kind = "offer" => LockFree("offer", r.item),
         mailRow' \in [Mails -> [stored : BOOLEAN, about : Confirmed \cup {NoSubject}, reviewed : BOOLEAN]],
         interview' \in [SourceEvents -> Confirmed \cup {NoSubject}]
  PROVE  OutcomeInv'
<1>1. ask'[c] = r /\ \A d \in OutcomeCalls \ {c} : ask'[d] = ask[d]
  BY DEF OutcomeInv, OutcomeTypeOK
<1>2. OutcomeTypeOK'
  BY DEF OutcomeInv, OutcomeTypeOK
<1>3. \A d \in OutcomeCalls : AskInv(ask[d])'
  BY <1>1 DEF OutcomeInv, AskInv
<1>4. \A d, e \in OutcomeCalls :
        ask'[d].kind = "offer" /\ ask'[e].kind = "offer" /\ ask'[d].item = ask'[e].item => d = e
  BY <1>1 DEF OutcomeInv, LockFree
<1>5. QED
  BY <1>2, <1>3, <1>4 DEF OutcomeInv, DecidedOffersAgree

\* A step by which applications move, none of them out of a final status, and perhaps one
\* request ends, changes nothing that is decided.
LEMMA StagesMove ==
  ASSUME OutcomeInv, UNCHANGED offer,
         stage' \in [Confirmed -> [status : Stages, version : Nat]],
         \A a \in Confirmed : stage[a].status \in Final => stage'[a].status = stage[a].status,
         \A d \in OutcomeCalls : ask'[d] \in {ask[d], NoAsk}, ask' \in [OutcomeCalls -> Asks],
         mailRow' \in [Mails -> [stored : BOOLEAN, about : Confirmed \cup {NoSubject}, reviewed : BOOLEAN]],
         interview' \in [SourceEvents -> Confirmed \cup {NoSubject}]
  PROVE  OutcomeInv'
<1>1. OutcomeTypeOK'
  BY DEF OutcomeInv, OutcomeTypeOK
<1>2. DecidedOffersAgree'
  <2>1. ASSUME NEW e \in SourceEvents, offer[e].status \in Decisions
        PROVE  stage'[offer[e].about].status = Settles[offer[e].status]
    <3>1. offer[e].about \in Confirmed
      BY <2>1 DEF OutcomeInv, Decisions
    <3>2. stage[offer[e].about].status = Settles[offer[e].status]
      BY <2>1 DEF OutcomeInv, DecidedOffersAgree
    <3>3. QED
      BY <2>1, <3>1, <3>2, TableFacts
  <2>2. QED
    BY <2>1 DEF DecidedOffersAgree
<1>3. ASSUME NEW d \in OutcomeCalls PROVE AskInv(ask[d])'
  <2>1. CASE ask'[d] = NoAsk
    BY <2>1, NoAskFacts DEF AskInv
  <2>2. CASE ask'[d] = ask[d]
    <3>1. AskInv(ask[d])
      BY DEF OutcomeInv
    <3>2. ASSUME ask[d].kind = "decide", ask[d].seen.status = ask[d].to
          PROVE  stage'[ask[d].about].status = ask[d].to
      BY <3>1, <3>2, TableFacts DEF AskInv
    <3>3. QED
      BY <2>2, <3>1, <3>2 DEF AskInv
  <2>3. QED
    BY <2>1, <2>2
<1>4. \A d, e \in OutcomeCalls :
        ask'[d].kind = "offer" /\ ask'[e].kind = "offer" /\ ask'[d].item = ask'[e].item => d = e
  BY NoAskFacts DEF OutcomeInv
<1>5. QED
  BY <1>1, <1>2, <1>3, <1>4 DEF OutcomeInv

\* The compare-and-set: the row is as read, so a transition of the table leaves no final
\* status, and the application is where the request wants it.
LEMMA TransitMoves ==
  ASSUME OutcomeInv, NEW c \in OutcomeCalls,
         ask[c].kind \in {"apply", "interview", "offer", "decide"}, Transits(c)
  PROVE  /\ stage' \in [Confirmed -> [status : Stages, version : Nat]]
         /\ \A a \in Confirmed : stage[a].status \in Final => stage'[a].status = stage[a].status
         /\ ask[c].kind = "decide" => stage'[ask[c].about].status = ask[c].to
<1> DEFINE r == ask[c]
<1>1. r \in Asks /\ AskInv(r)
  BY DEF OutcomeInv, OutcomeTypeOK
<1>2. r.about \in Confirmed /\ r.to \in Stages /\ r.seen \in [status : Stages, version : Nat]
  BY <1>1 DEF AskInv, Asks
<1>3. CASE r.seen.status = r.to /\ r.kind # "apply"
  <2>1. stage' = stage
    BY <1>3 DEF Transits
  <2>2. QED
    BY <1>1, <1>3, <2>1 DEF AskInv, OutcomeInv, OutcomeTypeOK
<1>4. CASE ~(r.seen.status = r.to /\ r.kind # "apply")
  <2>1. /\ stage[r.about] = r.seen
        /\ stage' = [stage EXCEPT ![r.about] = [status |-> r.to, version |-> r.seen.version + 1]]
    BY <1>4 DEF Transits, Still, Advanced
  <2>2. r.to \in Follows[r.seen.status]
    BY <1>1, <1>4 DEF AskInv
  <2>3. stage[r.about].status \notin Final
    BY <2>1, <2>2, TableFacts
  <2>4. r.seen.version + 1 \in Nat
    BY <1>2
  <2>5. [status |-> r.to, version |-> r.seen.version + 1] \in [status : Stages, version : Nat]
    BY <1>2, <2>4
  <2>6. QED
    BY <1>2, <2>1, <2>3, <2>5 DEF OutcomeInv, OutcomeTypeOK
<1>5. QED
  BY <1>3, <1>4

MailRows == [stored : BOOLEAN, about : Confirmed \cup {NoSubject}, reviewed : BOOLEAN]

\* Reading: the transaction of a request begins.
LEMMA MailReadsKeep ==
  ASSUME OutcomeInv, NEW c \in OutcomeCalls, NEW m \in Mails,
         \/ \E a \in Confirmed \cup {NoSubject} : LinkReads(c, m, a)
         \/ ReviewReads(c, m) \/ ApplyReads(c, m)
  PROVE  OutcomeInv'
<1>1. /\ mailRow[m] \in MailRows
      /\ mailRow' \in [Mails -> MailRows] /\ interview' \in [SourceEvents -> Confirmed \cup {NoSubject}]
      /\ UNCHANGED <<stage, offer>>
  BY DEF OutcomeInv, OutcomeTypeOK, MailRows, LinkReads, ReviewReads, ApplyReads
<1>2. PICK r \in Asks : ask' = [ask EXCEPT ![c] = r] /\ AskInv(r) /\ r.kind # "offer"
  <2>1. ASSUME NEW a \in Confirmed \cup {NoSubject}, LinkReads(c, m, a)
        PROVE  \E r \in Asks : ask' = [ask EXCEPT ![c] = r] /\ AskInv(r) /\ r.kind # "offer"
    <3> DEFINE r == [Started("link", m) EXCEPT !.about = a, !.was = mailRow[m].about]
    <3>1. r \in Asks /\ r.kind = "link" /\ r.item = m
      BY <1>1, NoAskFacts DEF Started, Asks, MailRows
    <3>2. AskInv(r)
      BY <3>1 DEF AskInv
    <3>3. QED
      BY <2>1, <3>1, <3>2 DEF LinkReads
  <2>2. CASE ReviewReads(c, m)
    <3> DEFINE r == Started("review", m)
    <3>1. r \in Asks /\ r.kind = "review" /\ r.item = m
      BY NoAskFacts DEF Started, Asks
    <3>2. AskInv(r)
      BY <3>1 DEF AskInv
    <3>3. QED
      BY <2>2, <3>1, <3>2 DEF ReviewReads
  <2>3. CASE ApplyReads(c, m)
    <3> DEFINE a == mailRow[m].about
               to == Target[Class(m)]
               r == [Started("apply", m) EXCEPT !.about = a, !.to = to, !.seen = stage[a]]
    <3>1. a \in Confirmed /\ to \in Stages /\ to \in Follows[stage[a].status]
      BY <1>1, <2>3, TableFacts DEF ApplyReads, May, MailRows
    <3>2. stage[a] \in [status : Stages, version : Nat]
      BY <3>1 DEF OutcomeInv, OutcomeTypeOK
    <3>3. ask' = [ask EXCEPT ![c] = r]
      BY <2>3 DEF ApplyReads
    <3> HIDE DEF a, to
    <3>4. /\ r \in Asks /\ r.kind = "apply" /\ r.item = m /\ r.about = a /\ r.to = to
          /\ r.seen = stage[a]
      BY <3>1, <3>2, NoAskFacts DEF Started, Asks
    <3> HIDE DEF r
    <3>5. AskInv(r)
      BY <3>1, <3>4 DEF AskInv
    <3>6. QED
      BY <3>3, <3>4, <3>5
  <2>4. QED
    BY <2>1, <2>2, <2>3
<1>3. QED
  BY <1>1, <1>2, AskMoves DEF MailRows

\* A request begins with a record of which the invariant holds.
Begins(c) ==
  \E r \in Asks :
    /\ ask' = [ask EXCEPT ![c] = r] /\ AskInv(r)
    /\ r.kind = "offer" => LockFree("offer", r.item)

LEMMA EventReadsKeep ==
  ASSUME OutcomeInv, NEW c \in OutcomeCalls, NEW e \in SourceEvents,
         \/ \E a \in Confirmed : InterviewReads(c, e, a) \/ OfferReads(c, e, a)
         \/ \E d \in Decisions : DecideReads(c, e, d)
  PROVE  OutcomeInv'
<1>1. /\ mailRow' \in [Mails -> MailRows] /\ interview' \in [SourceEvents -> Confirmed \cup {NoSubject}]
      /\ UNCHANGED <<stage, offer>>
  BY DEF OutcomeInv, OutcomeTypeOK, MailRows, InterviewReads, OfferReads, DecideReads
<1>2. Begins(c)
  <2>1. ASSUME NEW a \in Confirmed, InterviewReads(c, e, a) \/ OfferReads(c, e, a)
        PROVE  Begins(c)
    <3>1. PICK kind \in {"interview", "offer"}, to \in {"INTERVIEW", "OFFER"} :
            /\ ask' = [ask EXCEPT ![c] = [Started(kind, e) EXCEPT !.about = a, !.to = to, !.seen = stage[a]]]
            /\ CanEnsure(a, to)
            /\ kind = "offer" => LockFree("offer", e) /\ offer[e] = NoOffer
      BY <2>1 DEF InterviewReads, OfferReads
    <3> DEFINE r == [Started(kind, e) EXCEPT !.about = a, !.to = to, !.seen = stage[a]]
    <3>2. stage[a] \in [status : Stages, version : Nat] /\ to \in Stages
      BY TableFacts DEF OutcomeInv, OutcomeTypeOK
    <3>3. /\ r \in Asks /\ r.kind = kind /\ r.item = e /\ r.about = a /\ r.to = to
          /\ r.seen = stage[a]
      BY <3>2, NoAskFacts DEF Started, Asks
    <3>4. ask' = [ask EXCEPT ![c] = r]
      BY <3>1
    <3> HIDE DEF r
    <3>5. AskInv(r)
      BY <3>1, <3>2, <3>3 DEF AskInv, CanEnsure, May
    <3>6. QED
      BY <3>1, <3>3, <3>4, <3>5 DEF Begins
  <2>2. ASSUME NEW d \in Decisions, DecideReads(c, e, d)
        PROVE  Begins(c)
    <3> DEFINE a == offer[e].about
               to == Settles[d]
               r == [Started("decide", e) EXCEPT !.about = a, !.to = to, !.seen = stage[a], !.decision = d]
    <3>1. /\ offer[e].status = "PENDING" /\ CanEnsure(a, to)
          /\ ask' = [ask EXCEPT ![c] = r]
      BY <2>2 DEF DecideReads
    <3>2. /\ a \in Confirmed /\ to \in Stages /\ to = Settles[d] /\ a = offer[e].about
      BY <3>1, TableFacts DEF OutcomeInv
    <3>3. stage[a] \in [status : Stages, version : Nat]
      BY <3>2 DEF OutcomeInv, OutcomeTypeOK
    <3>4. /\ r \in Asks /\ r.kind = "decide" /\ r.item = e /\ r.about = a /\ r.to = to
          /\ r.seen = stage[a] /\ r.decision = d
      <4> HIDE DEF a, to
      <4>1. QED
        BY <3>2, <3>3, NoAskFacts DEF Started, Asks
    <3> HIDE DEF a, to, r
    <3>5. AskInv(r)
      BY <3>1, <3>2, <3>4 DEF AskInv, CanEnsure, May
    <3>6. QED
      BY <3>1, <3>4, <3>5 DEF Begins
  <2>3. CASE \E a \in Confirmed : InterviewReads(c, e, a) \/ OfferReads(c, e, a)
    BY <2>1, <2>3
  <2>4. CASE \E d \in Decisions : DecideReads(c, e, d)
    BY <2>2, <2>4
  <2>5. QED
    BY <2>3, <2>4
<1>3. PICK r \in Asks : /\ ask' = [ask EXCEPT ![c] = r] /\ AskInv(r)
                        /\ r.kind = "offer" => LockFree("offer", r.item)
  BY <1>2 DEF Begins
<1>4. QED
  BY <1>1, <1>3, AskMoves DEF MailRows

\* Committing: the transaction of a request ends.
LEMMA MailCommitsKeep ==
  ASSUME OutcomeInv, NEW c \in OutcomeCalls,
         LinkCommits(c) \/ ReviewCommits(c) \/ ApplyCommits(c)
  PROVE  OutcomeInv'
<1>1. /\ \A d \in OutcomeCalls : ask'[d] \in {ask[d], NoAsk}
      /\ ask' \in [OutcomeCalls -> Asks]
  BY NoAskFacts DEF OutcomeInv, OutcomeTypeOK, LinkCommits, ReviewCommits, ApplyCommits, Done
<1>2. UNCHANGED offer /\ interview' \in [SourceEvents -> Confirmed \cup {NoSubject}]
  BY DEF OutcomeInv, OutcomeTypeOK, LinkCommits, ReviewCommits, ApplyCommits
<1>3. ask[c] \in Asks /\ AskInv(ask[c]) /\ mailRow \in [Mails -> MailRows]
  BY DEF OutcomeInv, OutcomeTypeOK, MailRows
<1>4. mailRow' \in [Mails -> MailRows]
  <2>1. CASE LinkCommits(c)
    <3> DEFINE m == ask[c].item
               about == ask[c].about
               kept == mailRow[m].reviewed /\ ask[c].was = ask[c].about
               was == mailRow[m]
    <3>1. /\ m \in Mails /\ about \in Confirmed \cup {NoSubject} /\ was \in MailRows
          /\ kept \in BOOLEAN
      BY <1>3, <2>1 DEF LinkCommits, AskInv, Asks, MailRows
    <3>2. mailRow' = [mailRow EXCEPT ![m] = [was EXCEPT !.about = about, !.reviewed = kept]]
      BY <2>1 DEF LinkCommits
    <3> HIDE DEF m, about, kept, was
    <3>3. [was EXCEPT !.about = about, !.reviewed = kept] \in MailRows
      BY <3>1 DEF MailRows
    <3>4. QED
      BY <1>3, <3>1, <3>2, <3>3
  <2>2. CASE ReviewCommits(c) \/ ApplyCommits(c)
    <3> DEFINE m == ask[c].item
    <3>1. mailRow' = [mailRow EXCEPT ![m].reviewed = TRUE] /\ m \in Mails
      BY <1>3, <2>2 DEF ReviewCommits, ApplyCommits, AskInv
    <3> HIDE DEF m
    <3>2. [mailRow[m] EXCEPT !.reviewed = TRUE] \in MailRows
      BY <1>3, <3>1 DEF MailRows
    <3>3. mailRow' = [mailRow EXCEPT ![m] = [mailRow[m] EXCEPT !.reviewed = TRUE]]
      BY <3>1
    <3>4. QED
      BY <1>3, <3>1, <3>2, <3>3
  <2>3. QED
    BY <2>1, <2>2
<1>5. CASE LinkCommits(c) \/ ReviewCommits(c)
  <2>1. stage' = stage
    BY <1>5 DEF LinkCommits, ReviewCommits
  <2>2. stage' \in [Confirmed -> [status : Stages, version : Nat]]
    BY <2>1 DEF OutcomeInv, OutcomeTypeOK
  <2>3. QED
    BY <1>1, <1>2, <1>4, <2>1, <2>2, StagesMove DEF MailRows
<1>6. CASE ApplyCommits(c)
  <2>1. Transits(c) /\ ask[c].kind = "apply"
    BY <1>6 DEF ApplyCommits
  <2>2. QED
    BY <1>1, <1>2, <1>4, <2>1, TransitMoves, StagesMove DEF MailRows
<1>7. QED
  BY <1>5, <1>6

LEMMA InterviewCommitKeeps ==
  ASSUME OutcomeInv, NEW c \in OutcomeCalls, InterviewCommits(c)
  PROVE  OutcomeInv'
<1>1. /\ \A d \in OutcomeCalls : ask'[d] \in {ask[d], NoAsk}
      /\ ask' \in [OutcomeCalls -> Asks]
  BY NoAskFacts DEF OutcomeInv, OutcomeTypeOK, InterviewCommits, Done
<1>2. /\ UNCHANGED <<offer, mailRow>> /\ Transits(c) /\ ask[c].kind = "interview"
      /\ interview' = [interview EXCEPT ![ask[c].item] = ask[c].about]
  BY DEF InterviewCommits
<1>3. interview' \in [SourceEvents -> Confirmed \cup {NoSubject}]
  BY <1>2 DEF OutcomeInv, OutcomeTypeOK, AskInv
<1>4. mailRow' \in [Mails -> MailRows]
  BY <1>2 DEF OutcomeInv, OutcomeTypeOK, MailRows
<1>5. QED
  BY <1>1, <1>2, <1>3, <1>4, TransitMoves, StagesMove DEF MailRows

OfferRows == [about : Confirmed \cup {NoSubject}, status : Decisions \cup {"none", "PENDING"}]

\* An offer is recorded or decided: it keeps its application, nobody else is recording it,
\* and if it is decided the application is where the decision puts it.
LEMMA OfferMoves ==
  ASSUME OutcomeInv, NEW c \in OutcomeCalls, ask[c].kind \in {"offer", "decide"},
         Transits(c), Done(c), UNCHANGED <<mailRow, interview>>,
         NEW r \in OfferRows, offer' = [offer EXCEPT ![ask[c].item] = r],
         r.status # "none", r.about \in Confirmed,
         offer[ask[c].item].status # "none" => offer[ask[c].item].about = r.about,
         r.status \in Decisions => stage'[r.about].status = Settles[r.status],
         \A d \in OutcomeCalls : d # c /\ ask[d].kind = "offer" => ask[d].item # ask[c].item
  PROVE  OutcomeInv'
<1> DEFINE e == ask[c].item
<1>1. e \in SourceEvents /\ AskInv(ask[c])
  BY DEF OutcomeInv, AskInv
<1>2. /\ stage' \in [Confirmed -> [status : Stages, version : Nat]]
      /\ \A a \in Confirmed : stage[a].status \in Final => stage'[a].status = stage[a].status
  BY TransitMoves
<1>3. offer'[e] = r /\ \A f \in SourceEvents \ {e} : offer'[f] = offer[f]
  BY <1>1 DEF OutcomeInv, OutcomeTypeOK
<1>4. ask'[c] = NoAsk /\ \A d \in OutcomeCalls \ {c} : ask'[d] = ask[d]
  BY DEF OutcomeInv, OutcomeTypeOK, Done
<1>5. OutcomeTypeOK'
  BY <1>1, <1>2, NoAskFacts DEF OutcomeInv, OutcomeTypeOK, OfferRows, Done
<1>6. \A f \in SourceEvents : offer'[f].status # "none" => offer'[f].about \in Confirmed
  BY <1>3 DEF OutcomeInv
<1>7. DecidedOffersAgree'
  <2>1. ASSUME NEW f \in SourceEvents, offer'[f].status \in Decisions
        PROVE  stage'[offer'[f].about].status = Settles[offer'[f].status]
    <3>1. CASE f = e
      BY <1>3, <2>1, <3>1
    <3>2. CASE f # e
      <4>1. offer'[f] = offer[f] /\ offer[f].about \in Confirmed
        BY <1>3, <2>1, <3>2 DEF OutcomeInv, Decisions
      <4>2. stage[offer[f].about].status = Settles[offer[f].status]
        BY <2>1, <4>1 DEF OutcomeInv, DecidedOffersAgree
      <4>3. QED
        BY <1>2, <2>1, <4>1, <4>2, TableFacts
    <3>3. QED
      BY <3>1, <3>2
  <2>2. QED
    BY <2>1 DEF DecidedOffersAgree
<1>8. ASSUME NEW d \in OutcomeCalls PROVE AskInv(ask[d])'
  <2>1. CASE d = c
    BY <1>4, <2>1, NoAskFacts DEF AskInv
  <2>2. CASE d # c
    <3>1. ask'[d] = ask[d] /\ AskInv(ask[d])
      BY <1>4, <2>2 DEF OutcomeInv
    <3>2. ASSUME ask[d].kind = "offer" PROVE offer'[ask[d].item] = NoOffer
      BY <1>3, <2>2, <3>1, <3>2 DEF AskInv
    <3>3. ASSUME ask[d].kind = "decide"
          PROVE  /\ offer'[ask[d].item].status # "none" /\ offer'[ask[d].item].about = ask[d].about
                 /\ ask[d].seen.status = ask[d].to => stage'[ask[d].about].status = ask[d].to
      <4>1. /\ offer'[ask[d].item].status # "none" /\ offer'[ask[d].item].about = ask[d].about
        BY <1>3, <3>1, <3>3 DEF AskInv
      <4>2. ask[d].seen.status = ask[d].to => stage'[ask[d].about].status = ask[d].to
        BY <1>2, <3>1, <3>3, TableFacts DEF AskInv
      <4>3. QED
        BY <4>1, <4>2
    <3>4. QED
      BY <3>1, <3>2, <3>3 DEF AskInv
  <2>3. QED
    BY <2>1, <2>2
<1>9. \A d, f \in OutcomeCalls :
        ask'[d].kind = "offer" /\ ask'[f].kind = "offer" /\ ask'[d].item = ask'[f].item => d = f
  BY <1>4, NoAskFacts DEF OutcomeInv
<1>10. QED
  BY <1>5, <1>6, <1>7, <1>8, <1>9 DEF OutcomeInv

LEMMA OfferCommitsKeep ==
  ASSUME OutcomeInv, NEW c \in OutcomeCalls, OfferCommits(c) \/ DecideCommits(c)
  PROVE  OutcomeInv'
<1>1. Done(c) /\ Transits(c) /\ UNCHANGED <<mailRow, interview>> /\ AskInv(ask[c])
  BY DEF OfferCommits, DecideCommits, OutcomeInv
<1>2. CASE OfferCommits(c)
  <2>1. PICK r \in OfferRows : r = [about |-> ask[c].about, status |-> "PENDING"]
    BY <1>1, <1>2 DEF OfferCommits, AskInv, OfferRows
  <2>2. /\ ask[c].kind = "offer" /\ offer' = [offer EXCEPT ![ask[c].item] = r]
        /\ r.about \in Confirmed /\ r.status = "PENDING" /\ offer[ask[c].item] = NoOffer
    BY <1>1, <1>2, <2>1 DEF OfferCommits, AskInv
  <2>3. \A d \in OutcomeCalls : d # c /\ ask[d].kind = "offer" => ask[d].item # ask[c].item
    BY <2>2 DEF OutcomeInv
  <2>4. offer[ask[c].item].status = "none" /\ "PENDING" \notin Decisions
    BY <2>2 DEF NoOffer, Decisions
  <2>5. QED
    BY <1>1, <2>2, <2>3, <2>4, OfferMoves
<1>3. CASE DecideCommits(c)
  <2> DEFINE e == ask[c].item
  <2>1. /\ ask[c].kind = "decide" /\ offer[e].status = "PENDING" /\ e \in SourceEvents
        /\ offer' = [offer EXCEPT ![e] = [offer[e] EXCEPT !.status = ask[c].decision]]
        /\ offer[e] \in OfferRows /\ ask[c].decision \in Decisions
    BY <1>1, <1>3 DEF DecideCommits, OutcomeInv, OutcomeTypeOK, OfferRows, AskInv
  <2>2. [offer[e] EXCEPT !.status = ask[c].decision] \in OfferRows
    BY <2>1 DEF OfferRows
  <2>3. PICK r \in OfferRows : r = [offer[e] EXCEPT !.status = ask[c].decision]
    BY <2>2
  <2>4. r.about = offer[e].about /\ r.status = ask[c].decision /\ r.about = ask[c].about
    BY <1>1, <2>1, <2>3 DEF OfferRows, AskInv
  <2>5. r.about \in Confirmed /\ r.status # "none"
    BY <1>1, <2>1, <2>4 DEF AskInv, Decisions
  <2>6. stage'[r.about].status = Settles[r.status]
    BY <1>1, <2>1, <2>4, TransitMoves DEF AskInv
  <2>7. \A d \in OutcomeCalls : d # c /\ ask[d].kind = "offer" => ask[d].item # e
    BY <2>1 DEF OutcomeInv, AskInv, NoOffer
  <2>8. QED
    BY <1>1, <2>1, <2>3, <2>4, <2>5, <2>6, <2>7, OfferMoves
<1>4. QED
  BY <1>2, <1>3

\* The owner's transitions, new mails and requests that fail.
LEMMA OthersKeep ==
  ASSUME OutcomeInv,
         \/ \E m \in Mails, a \in Confirmed \cup {NoSubject} : Ingest(m, a)
         \/ \E c \in OutcomeCalls : AskFails(c)
         \/ \E a \in Confirmed, to \in Stages : OwnerSetsStage(a, to)
  PROVE  OutcomeInv'
<1>1. UNCHANGED <<offer, interview>>
  BY DEF Ingest, AskFails, OwnerSetsStage
<1>2. /\ \A d \in OutcomeCalls : ask'[d] \in {ask[d], NoAsk}
      /\ ask' \in [OutcomeCalls -> Asks]
  BY NoAskFacts DEF OutcomeInv, OutcomeTypeOK, Ingest, AskFails, OwnerSetsStage, Done
<1>3. mailRow' \in [Mails -> MailRows]
  <2>1. mailRow \in [Mails -> MailRows]
    BY DEF OutcomeInv, OutcomeTypeOK, MailRows
  <2>2. ASSUME NEW m \in Mails, NEW a \in Confirmed \cup {NoSubject}, Ingest(m, a)
        PROVE  mailRow' \in [Mails -> MailRows]
    <3>1. [NoOutcome EXCEPT !.stored = TRUE, !.about = a] \in MailRows
      BY DEF NoOutcome, MailRows
    <3>2. mailRow' = [mailRow EXCEPT ![m] = [NoOutcome EXCEPT !.stored = TRUE, !.about = a]]
      BY <2>2 DEF Ingest
    <3>3. QED
      BY <2>1, <3>1, <3>2
  <2>3. QED
    BY <2>1, <2>2 DEF AskFails, OwnerSetsStage
<1>4. /\ stage' \in [Confirmed -> [status : Stages, version : Nat]]
      /\ \A a \in Confirmed : stage[a].status \in Final => stage'[a].status = stage[a].status
  <2>1. ASSUME NEW a \in Confirmed, NEW to \in Stages, OwnerSetsStage(a, to)
        PROVE  /\ stage' \in [Confirmed -> [status : Stages, version : Nat]]
               /\ \A b \in Confirmed : stage[b].status \in Final => stage'[b].status = stage[b].status
    <3>1. /\ stage' = [stage EXCEPT ![a] = [status |-> to, version |-> stage[a].version + 1]]
          /\ to \in Follows[stage[a].status] /\ stage[a] \in [status : Stages, version : Nat]
      BY <2>1 DEF OwnerSetsStage, Advanced, May, OutcomeInv, OutcomeTypeOK
    <3>2. stage[a].status \notin Final
      BY <3>1, TableFacts
    <3>3. [status |-> to, version |-> stage[a].version + 1] \in [status : Stages, version : Nat]
      BY <3>1
    <3>4. QED
      BY <3>1, <3>2, <3>3 DEF OutcomeInv, OutcomeTypeOK
  <2>2. CASE UNCHANGED stage
    BY <2>2 DEF OutcomeInv, OutcomeTypeOK
  <2>3. QED
    BY <2>1, <2>2 DEF Ingest, AskFails
<1>5. QED
  BY <1>1, <1>2, <1>3, <1>4, StagesMove DEF OutcomeInv, OutcomeTypeOK, MailRows

LEMMA OutcomeStep == OutcomeInv /\ [OutcomeNext]_outcomeVars => OutcomeInv'
<1>1. SUFFICES ASSUME OutcomeInv, [OutcomeNext]_outcomeVars PROVE OutcomeInv'
  OBVIOUS
<1>2. CASE UNCHANGED outcomeVars
  BY <1>1, <1>2 DEF outcomeVars, OutcomeInv, OutcomeTypeOK, DecidedOffersAgree, AskInv
<1>3. CASE \/ \E m \in Mails, a \in Confirmed \cup {NoSubject} : Ingest(m, a)
           \/ \E c \in OutcomeCalls : AskFails(c)
           \/ \E a \in Confirmed, to \in Stages : OwnerSetsStage(a, to)
  BY <1>1, <1>3, OthersKeep
<1>4. CASE \E c \in OutcomeCalls : MailStep(c)
  BY <1>1, <1>4, MailReadsKeep, MailCommitsKeep DEF MailStep
<1>5. CASE \E c \in OutcomeCalls : EventStep(c)
  BY <1>1, <1>5, EventReadsKeep, InterviewCommitKeeps, OfferCommitsKeep DEF EventStep
<1>6. QED
  BY <1>1, <1>2, <1>3, <1>4, <1>5 DEF OutcomeNext

\* The inductive invariant of the lifecycle, with the types of its tables.
THEOREM OutcomeInvariant == OutcomeSpec => []OutcomeInv
  BY OutcomeInitially, OutcomeStep, PTL DEF OutcomeSpec

\* An offer that has been decided and its application agree, whatever mails, recruiters and
\* the owner do at the same time (application-lifecycle.ts, decideOffer).
THEOREM DecisionsAndApplicationsAgree == OutcomeSpec => []DecidedOffersAgree
<1>1. OutcomeInv => DecidedOffersAgree
  BY DEF OutcomeInv
<1>2. QED
  BY <1>1, OutcomeInvariant, PTL

-----------------------------------------------------------------------------
(* The pipeline from a posting to its application. *)

CommandRows == [status : {"none", "available", "leased", "done", "dead"},
                attempt : 0 .. JobTries, by : {"none", "handler", "owner"}]

HandlerRows == [step : HandlerSteps, read : SUBSET ResumeFacts, cites : Citations \cup {<<>>}]

\* A handler of c has run to its end: one attempt is done, or has only to be completed.
Ran(c) == command[c].status = "done" \/ \E n \in AttemptNos : attempt[c][n].step = "finish"

\* What a handler that has run to its end leaves behind.
Followed(c) ==
  \/ c = Analyze /\ command[Matching].status # "none"
  \/ c = Matching /\ (command[Tailor].status # "none" \/ stops)
  \/ c = Tailor /\ \E v \in AttemptNos : command[Ats(v)].status # "none"
  \/ c \in {Ats(v) : v \in AttemptNos} /\ (intended # 0 \/ stops)

ChainInv ==
  /\ command[Analyze].status # "none"
  /\ \A c \in Commands : Ran(c) => Followed(c)

PipelineInv ==
  /\ PipelineTypeOK
  /\ \A c \in Commands : command[c].status = "available" => command[c].attempt < JobTries
  /\ ChainInv

\* A job queued stays, an application created or a stop remains; and a handler comes to its
\* end only behind what follows.
Progress ==
  /\ \A c \in Commands : command[c].status # "none" => command'[c].status # "none"
  /\ stops => stops'
  /\ intended # 0 => intended' # 0
  /\ \A c \in Commands : Ran(c)' => Ran(c) \/ Followed(c)'

LEMMA ProgressKeepsChain ==
  ASSUME ChainInv, Progress, Analyze \in Commands, Matching \in Commands, Tailor \in Commands,
         \A v \in AttemptNos : Ats(v) \in Commands
  PROVE  ChainInv'
<1>1. ASSUME NEW c \in Commands, Followed(c) PROVE Followed(c)'
  BY <1>1 DEF Followed, Progress
<1>2. QED
  BY <1>1 DEF ChainInv, Progress

LEMMA CommandFacts ==
  /\ Analyze \in Commands /\ Matching \in Commands /\ Tailor \in Commands
  /\ \A v \in AttemptNos : Ats(v) \in Commands
  /\ \A c \in Commands : c \in {Analyze, Matching, Tailor} \/ \E v \in AttemptNos : c = Ats(v)
  BY DEF Commands

\* An application has come out, or a stop, once nothing is left to run.
LEMMA ChainIsEnough == ChainInv => NoPostingStranded
<1>1. SUFFICES ASSUME ChainInv, \A c \in Commands : command[c].status \in {"none", "done"}
               PROVE  intended # 0 \/ stops
  BY DEF NoPostingStranded
<1>2. \A c \in Commands : command[c].status # "none" => Followed(c)
  BY <1>1 DEF ChainInv, Ran
<1>3. /\ Analyze # Matching /\ Analyze # Tailor /\ Matching # Tailor
      /\ \A v \in AttemptNos : Ats(v) # Analyze /\ Ats(v) # Matching /\ Ats(v) # Tailor
  BY DEF Analyze, Matching, Tailor, Ats
<1>4. command[Matching].status # "none"
  BY <1>1, <1>2, <1>3, CommandFacts DEF ChainInv, Followed
<1>5. CASE command[Tailor].status # "none"
  <2>1. PICK v \in AttemptNos : command[Ats(v)].status # "none"
    BY <1>2, <1>3, <1>5, CommandFacts DEF Followed
  <2>2. Followed(Ats(v))
    BY <1>2, <2>1, CommandFacts
  <2>3. QED
    BY <1>3, <2>2 DEF Followed
<1>6. CASE command[Tailor].status = "none"
  BY <1>2, <1>3, <1>4, <1>6, CommandFacts DEF Followed
<1>7. QED
  BY <1>5, <1>6

LEMMA RowFacts ==
  /\ NoCommand \in CommandRows /\ NoCommand.status = "none"
  /\ NoHandler \in HandlerRows /\ NoHandler.step = "idle"
  BY PipelineAssumption DEF NoCommand, NoHandler, CommandRows, HandlerRows, HandlerSteps

LEMMA PipelineInitially == PipelineInit => PipelineInv
<1>1. SUFFICES ASSUME PipelineInit PROVE PipelineInv
  OBVIOUS
<1>2. \A c \in Commands : /\ command[c] \in CommandRows
                          /\ command[c].status = (IF c = Analyze THEN "available" ELSE "none")
                          /\ command[c].attempt = 0
  BY <1>1, RowFacts, PipelineAssumption DEF PipelineInit, CommandRows, NoCommand
<1>3. \A c \in Commands, n \in AttemptNos : attempt[c][n] = NoHandler
  BY <1>1 DEF PipelineInit
<1>4. PipelineTypeOK
  <2>1. command \in [Commands -> CommandRows]
    <3>1. command = [c \in Commands |-> command[c]]
      BY <1>1 DEF PipelineInit
    <3>2. QED
      BY <1>2, <3>1
  <2>2. attempt \in [Commands -> [AttemptNos -> HandlerRows]]
    BY <1>1, RowFacts DEF PipelineInit
  <2>3. /\ fact \in [ResumeFacts -> {"unread", "pending", "approved", "gone"}]
        /\ evidence \subseteq {"analysis", "match"} /\ stops \in BOOLEAN
        /\ version \in [AttemptNos -> {"none", "written", "scored"}]
    BY <1>1 DEF PipelineInit
  <2>4. intended \in 0 .. JobTries /\ mishaps \in 0 .. MaxMishaps
    BY <1>1, PipelineAssumption DEF PipelineInit
  <2>5. QED
    BY <2>1, <2>2, <2>3, <2>4 DEF PipelineTypeOK, CommandRows, HandlerRows
<1>5. \A c \in Commands : ~Ran(c)
  BY <1>2, <1>3, RowFacts DEF Ran
<1>6. QED
  BY <1>2, <1>4, <1>5, CommandFacts, PipelineAssumption DEF PipelineInv, ChainInv

\* The typed rows of a step.
Typed ==
  /\ command \in [Commands -> CommandRows]
  /\ attempt \in [Commands -> [AttemptNos -> HandlerRows]]

\* What a step leaves to show: the types, and that handlers end only behind what follows.
LEMMA PipelineMoves ==
  ASSUME PipelineInv, Typed', Progress,
         fact' \in [ResumeFacts -> {"unread", "pending", "approved", "gone"}],
         evidence' \subseteq {"analysis", "match"},
         version' \in [AttemptNos -> {"none", "written", "scored"}], intended' \in 0 .. JobTries,
         stops' \in BOOLEAN, mishaps' \in 0 .. MaxMishaps,
         \A c \in Commands : command'[c].status = "available" => command'[c].attempt < JobTries
  PROVE  PipelineInv'
<1>1. PipelineTypeOK'
  BY DEF PipelineTypeOK, Typed, CommandRows, HandlerRows
<1>2. ChainInv'
  BY ProgressKeepsChain, CommandFacts DEF PipelineInv
<1>3. QED
  BY <1>1, <1>2 DEF PipelineInv

\* A handler goes on to another place.
Placed(c, n, row) ==
  /\ attempt' \in [Commands -> [AttemptNos -> HandlerRows]]
  /\ \A d \in Commands, m \in AttemptNos :
       attempt'[d][m] = IF d = c /\ m = n THEN row ELSE attempt[d][m]

LEMMA Places ==
  ASSUME PipelineInv, NEW c \in Commands, NEW n \in AttemptNos, NEW row \in HandlerRows,
         attempt' = [attempt EXCEPT ![c][n] = row]
  PROVE  Placed(c, n, row)
<1>1. attempt \in [Commands -> [AttemptNos -> HandlerRows]]
  BY DEF PipelineInv, PipelineTypeOK, HandlerRows
<1>2. QED
  BY <1>1 DEF Placed

LEMMA GoesPlaces ==
  ASSUME PipelineInv, NEW c \in Commands, NEW n \in AttemptNos, NEW step \in HandlerSteps,
         Goes(c, n, step)
  PROVE  \E row \in HandlerRows : row.step = step /\ Placed(c, n, row)
<1>1. attempt[c][n] \in HandlerRows
  BY DEF PipelineInv, PipelineTypeOK, HandlerRows
<1>2. [attempt[c][n] EXCEPT !.step = step] \in HandlerRows
  BY <1>1 DEF HandlerRows
<1>3. PICK row \in HandlerRows : row = [attempt[c][n] EXCEPT !.step = step]
  BY <1>2
<1>4. row.step = step
  BY <1>1, <1>3 DEF HandlerRows
<1>5. attempt' = [attempt EXCEPT ![c][n] = row]
  BY <1>3 DEF Goes
<1>6. QED
  BY <1>4, <1>5, Places

LEMMA OverPlaces ==
  ASSUME PipelineInv, NEW c \in Commands, NEW n \in AttemptNos, Over(c, n)
  PROVE  Placed(c, n, NoHandler)
  BY RowFacts, Places DEF Over

\* The row of one job changes.
LEMMA RowChanges ==
  ASSUME PipelineInv, NEW c \in Commands, NEW row \in CommandRows,
         command' = [command EXCEPT ![c] = row]
  PROVE  /\ command' \in [Commands -> CommandRows]
         /\ command'[c] = row /\ \A d \in Commands \ {c} : command'[d] = command[d]
  BY DEF PipelineInv, PipelineTypeOK, CommandRows

\* A job is queued, unless it is there.
LEMMA Queues ==
  ASSUME PipelineInv, NEW c \in Commands, NEW by \in {"handler", "owner"},
         command' = Enqueued(c, by)
  PROVE  /\ command' \in [Commands -> CommandRows]
         /\ command'[c].status # "none"
         /\ \A d \in Commands : \/ command'[d] = command[d]
                                \/ /\ command[d].status = "none"
                                   /\ command'[d].status = "available"
                                   /\ command'[d].attempt = 0
<1>1. CASE command[c].status # "none"
  BY <1>1 DEF Enqueued, PipelineInv, PipelineTypeOK, CommandRows
<1>2. CASE command[c].status = "none"
  <2>1. [status |-> "available", attempt |-> 0, by |-> by] \in CommandRows
    BY PipelineAssumption DEF CommandRows
  <2>row. PICK row \in CommandRows : row = [status |-> "available", attempt |-> 0, by |-> by]
    BY <2>1
  <2>2. command' = [command EXCEPT ![c] = row] /\ row.status = "available" /\ row.attempt = 0
    BY <1>2, <2>row DEF Enqueued
  <2>3. /\ command' \in [Commands -> CommandRows]
        /\ command'[c] = row /\ \A d \in Commands \ {c} : command'[d] = command[d]
    BY <2>2, RowChanges
  <2>4. QED
    BY <1>2, <2>2, <2>3
<1>3. QED
  BY <1>1, <1>2

\* The worker's changes to the row of a job never undo its queueing, and complete it only
\* when its handler has returned.
LEMMA Reschedules ==
  ASSUME PipelineInv, NEW c \in Commands, command' \in {Again(c), command}
  PROVE  /\ command' \in [Commands -> CommandRows]
         /\ \A d \in Commands :
              \/ command'[d] = command[d]
              \/ /\ command'[d].status \in {"available", "dead"}
                 /\ command'[d].status = "available" => command'[d].attempt < JobTries
<1>1. command \in [Commands -> CommandRows]
  BY DEF PipelineInv, PipelineTypeOK, CommandRows
<1>2. CASE command' = command
  BY <1>1, <1>2
<1>3. CASE command' = Again(c)
  <2> DEFINE status == IF command[c].attempt < JobTries THEN "available" ELSE "dead"
  <2>1. /\ status \in {"available", "dead"} /\ (status = "available" => command[c].attempt < JobTries)
        /\ command' = [command EXCEPT ![c] = [command[c] EXCEPT !.status = status]]
    BY <1>3 DEF Again
  <2> HIDE DEF status
  <2>2. [command[c] EXCEPT !.status = status] \in CommandRows
    BY <1>1, <2>1 DEF CommandRows
  <2>3. PICK row \in CommandRows : row = [command[c] EXCEPT !.status = status]
    BY <2>2
  <2>4. row.status = status /\ row.attempt = command[c].attempt
    BY <1>1, <2>3 DEF CommandRows
  <2>5. command' = [command EXCEPT ![c] = row]
    BY <2>1, <2>3
  <2>6. QED
    BY <2>1, <2>4, <2>5, RowChanges
<1>4. QED
  BY <1>2, <1>3

\* The owner: facts and orders.
LEMMA OwnerStepKeeps ==
  ASSUME PipelineInv, OwnerStep
  PROVE  PipelineInv'
<1>1. UNCHANGED <<attempt, evidence, version, intended, stops, mishaps>>
  BY DEF OwnerStep, ExtractFacts, OwnerQueuesTailor, ApproveFact, RejectFact, OwnerQueuesAts
<1>2. /\ command' \in [Commands -> CommandRows]
      /\ \A d \in Commands : \/ command'[d] = command[d]
                             \/ /\ command[d].status = "none"
                                /\ command'[d].status = "available"
                                /\ command'[d].attempt = 0
  <2>1. CASE OwnerQueuesTailor
    BY <2>1, CommandFacts, Queues DEF OwnerQueuesTailor
  <2>2. CASE \E v \in AttemptNos : OwnerQueuesAts(v)
    BY <2>2, CommandFacts, Queues DEF OwnerQueuesAts
  <2>3. CASE UNCHANGED command
    BY <2>3 DEF PipelineInv, PipelineTypeOK, CommandRows
  <2>4. QED
    BY <2>1, <2>2, <2>3 DEF OwnerStep, ExtractFacts, ApproveFact, RejectFact
<1>3. fact' \in [ResumeFacts -> {"unread", "pending", "approved", "gone"}]
  BY DEF OwnerStep, ExtractFacts, OwnerQueuesTailor, ApproveFact, RejectFact, OwnerQueuesAts,
         PipelineInv, PipelineTypeOK
<1>4. Progress
  BY <1>1, <1>2 DEF Progress, Ran
<1>5. \A c \in Commands : command'[c].status = "available" => command'[c].attempt < JobTries
  BY <1>2, PipelineAssumption DEF PipelineInv
<1>6. QED
  BY <1>1, <1>2, <1>3, <1>4, <1>5, PipelineMoves DEF PipelineInv, PipelineTypeOK, Typed, CommandRows, HandlerRows

\* What a step of the worker leaves to show that takes a job, or leaves one.
LEMMA WorkerMoves ==
  ASSUME PipelineInv, NEW c \in Commands, NEW n \in AttemptNos, NEW row \in HandlerRows,
         Placed(c, n, row) \/ UNCHANGED attempt, row.step # "finish",
         command' \in [Commands -> CommandRows],
         \A d \in Commands : \/ command'[d] = command[d]
                             \/ /\ command'[d].status \in {"available", "dead", "leased"}
                                /\ command'[d].status = "available" => command'[d].attempt < JobTries
                             \/ command'[d].status = "done" /\ Ran(d),
         UNCHANGED <<fact, evidence, version, intended, stops>>, mishaps' \in 0 .. MaxMishaps
  PROVE  PipelineInv'
<1>1. attempt' \in [Commands -> [AttemptNos -> HandlerRows]]
  BY DEF PipelineInv, PipelineTypeOK, HandlerRows, Placed
<1>2. \A d \in Commands, m \in AttemptNos :
        attempt'[d][m].step = "finish" => attempt[d][m].step = "finish"
  BY DEF Placed
<1>3. Progress
  BY <1>2 DEF Progress, Ran
<1>4. \A d \in Commands : command'[d].status = "available" => command'[d].attempt < JobTries
  BY DEF PipelineInv
<1>5. QED
  BY <1>1, <1>3, <1>4, PipelineMoves DEF PipelineInv, PipelineTypeOK, Typed

LEMMA TakeKeeps ==
  ASSUME PipelineInv, NEW c \in Commands, Take(c)
  PROVE  PipelineInv'
<1> DEFINE n == command[c].attempt + 1
<1>1. /\ command[c] \in CommandRows /\ command[c].status = "available" /\ command[c].attempt < JobTries
      /\ UNCHANGED <<fact, evidence, version, intended, stops, mishaps>>
      /\ mishaps' \in 0 .. MaxMishaps
  BY DEF PipelineInv, PipelineTypeOK, CommandRows, Take
<1>2. n \in AttemptNos /\ n \in 0 .. JobTries
  BY <1>1, PipelineAssumption DEF CommandRows, AttemptNos
<1>3. /\ command' = [command EXCEPT ![c] = [command[c] EXCEPT !.status = "leased", !.attempt = n]]
      /\ Goes(c, n, "begin")
  BY DEF Take
<1> HIDE DEF n
<1>4. [command[c] EXCEPT !.status = "leased", !.attempt = n] \in CommandRows
  BY <1>1, <1>2 DEF CommandRows
<1>5. PICK row \in CommandRows : row = [command[c] EXCEPT !.status = "leased", !.attempt = n]
  BY <1>4
<1>6. row.status = "leased" /\ command' = [command EXCEPT ![c] = row]
  BY <1>1, <1>3, <1>5 DEF CommandRows
<1>7. /\ command' \in [Commands -> CommandRows]
      /\ command'[c] = row /\ \A d \in Commands \ {c} : command'[d] = command[d]
  BY <1>6, RowChanges
<1>8. PICK h \in HandlerRows : h.step = "begin" /\ Placed(c, n, h)
  <2>1. "begin" \in HandlerSteps
    BY DEF HandlerSteps
  <2>2. QED
    BY <1>2, <1>3, <2>1, GoesPlaces
<1>9. \A d \in Commands : command'[d] = command[d] \/ command'[d].status = "leased"
  BY <1>6, <1>7
<1>10. h.step # "finish" /\ (Placed(c, n, h) \/ UNCHANGED attempt)
  BY <1>8
<1>11. \A d \in Commands :
         \/ command'[d] = command[d]
         \/ /\ command'[d].status \in {"available", "dead", "leased"}
            /\ command'[d].status = "available" => command'[d].attempt < JobTries
         \/ command'[d].status = "done" /\ Ran(d)
  BY <1>9
<1>12. QED
  BY <1>1, <1>2, <1>7, <1>10, <1>11, WorkerMoves

\* An attempt that is over, whatever becomes of the row of its job.
LEMMA AttemptEnds ==
  ASSUME PipelineInv, NEW c \in Commands, NEW n \in AttemptNos,
         Over(c, n) \/ UNCHANGED attempt, command' \in {Again(c), command},
         UNCHANGED <<fact, evidence, version, intended, stops>>, mishaps' \in 0 .. MaxMishaps
  PROVE  PipelineInv'
<1>1. (Placed(c, n, NoHandler) \/ UNCHANGED attempt) /\ NoHandler \in HandlerRows /\ NoHandler.step # "finish"
  BY OverPlaces, RowFacts
<1>2. command' \in [Commands -> CommandRows]
  BY Reschedules
<1>3. \A d \in Commands :
        \/ command'[d] = command[d]
        \/ /\ command'[d].status \in {"available", "dead", "leased"}
           /\ command'[d].status = "available" => command'[d].attempt < JobTries
        \/ command'[d].status = "done" /\ Ran(d)
  BY Reschedules
<1>4. QED
  BY <1>1, <1>2, <1>3, WorkerMoves

LEMMA EndsKeep ==
  ASSUME PipelineInv, NEW c \in Commands,
         Lapses(c) \/ \E n \in AttemptNos : Dies(c, n) \/ Throws(c, n) \/ IsRefused(c, n)
  PROVE  PipelineInv'
<1>1. mishaps \in 0 .. MaxMishaps /\ MaxMishaps \in Nat
  BY PipelineAssumption DEF PipelineInv, PipelineTypeOK
<1>2. 1 \in AttemptNos
  BY PipelineAssumption DEF AttemptNos
<1>3. CASE Lapses(c)
  <2>1. /\ command' = Again(c) /\ UNCHANGED <<fact, attempt, evidence, version, intended, stops>>
        /\ mishaps' \in 0 .. MaxMishaps
    BY <1>1, <1>3 DEF Lapses
  <2>2. QED
    BY <1>2, <2>1, AttemptEnds
<1>4. ASSUME NEW n \in AttemptNos, Dies(c, n) \/ Throws(c, n) \/ IsRefused(c, n)
      PROVE  PipelineInv'
  <2>1. /\ command' \in {Again(c), command} /\ Over(c, n)
        /\ UNCHANGED <<fact, evidence, version, intended, stops>>
        /\ mishaps' \in 0 .. MaxMishaps
    BY <1>1, <1>4 DEF Dies, Throws, IsRefused
  <2>2. QED
    BY <2>1, AttemptEnds
<1>5. QED
  BY <1>3, <1>4

\* Only a handler that has returned completes its job.
LEMMA CompletesKeeps ==
  ASSUME PipelineInv, NEW c \in Commands, NEW n \in AttemptNos, Completes(c, n)
  PROVE  PipelineInv'
<1>1. /\ Placed(c, n, NoHandler) /\ NoHandler \in HandlerRows /\ NoHandler.step # "finish"
      /\ UNCHANGED <<fact, evidence, version, intended, stops>> /\ mishaps' \in 0 .. MaxMishaps
  BY OverPlaces, RowFacts DEF Completes, PipelineInv, PipelineTypeOK
<1>2. Ran(c)
  BY DEF Completes, Returns, At, Ran
<1>3. /\ command' \in [Commands -> CommandRows]
      /\ \A d \in Commands : command'[d] = command[d] \/ (d = c /\ command'[d].status = "done")
  <2>1. CASE Holds(c, n)
    <3>1. command[c] \in CommandRows
      BY DEF PipelineInv, PipelineTypeOK, CommandRows
    <3>2. [command[c] EXCEPT !.status = "done"] \in CommandRows
      BY <3>1 DEF CommandRows
    <3>3. PICK row \in CommandRows : row = [command[c] EXCEPT !.status = "done"]
      BY <3>2
    <3>4. row.status = "done" /\ command' = [command EXCEPT ![c] = row]
      BY <2>1, <3>1, <3>3 DEF CommandRows, Completes
    <3>5. QED
      BY <3>4, RowChanges
  <2>2. CASE ~Holds(c, n)
    BY <2>2 DEF Completes, PipelineInv, PipelineTypeOK, CommandRows
  <2>3. QED
    BY <2>1, <2>2
<1>4. \A d \in Commands :
        \/ command'[d] = command[d]
        \/ /\ command'[d].status \in {"available", "dead", "leased"}
           /\ command'[d].status = "available" => command'[d].attempt < JobTries
        \/ command'[d].status = "done" /\ Ran(d)
  BY <1>2, <1>3
<1>5. QED
  BY <1>1, <1>3, <1>4, WorkerMoves

\* A handler goes on: to its end only with what follows its job in place.
LEMMA HandlerMoves ==
  ASSUME PipelineInv, NEW c \in Commands, NEW n \in AttemptNos, NEW row \in HandlerRows,
         Placed(c, n, row), row.step = "finish" => Followed(c)',
         command' \in [Commands -> CommandRows],
         \A d \in Commands : \/ command'[d] = command[d]
                             \/ /\ command[d].status = "none"
                                /\ command'[d].status = "available"
                                /\ command'[d].attempt = 0,
         fact' = fact, mishaps' = mishaps, evidence' \subseteq {"analysis", "match"},
         version' \in [AttemptNos -> {"none", "written", "scored"}], intended' \in 0 .. JobTries,
         stops' \in BOOLEAN, stops => stops', intended # 0 => intended' # 0
  PROVE  PipelineInv'
<1>1. Typed'
  BY DEF Typed, Placed
<1>2. \A d \in Commands : Ran(d)' => Ran(d) \/ Followed(d)'
  <2>1. SUFFICES ASSUME NEW d \in Commands, Ran(d)', ~Ran(d) PROVE Followed(d)'
    OBVIOUS
  <2>2. command'[d].status # "done"
    BY <2>1 DEF Ran
  <2>3. PICK m \in AttemptNos : attempt'[d][m].step = "finish"
    BY <2>1, <2>2 DEF Ran
  <2>4. d = c /\ m = n
    BY <2>1, <2>3 DEF Ran, Placed
  <2>5. QED
    BY <2>3, <2>4 DEF Placed
<1>3. Progress
  BY <1>2 DEF Progress
<1>4. \A d \in Commands : command'[d].status = "available" => command'[d].attempt < JobTries
  BY PipelineAssumption DEF PipelineInv
<1>5. QED
  BY <1>1, <1>3, <1>4, PipelineMoves DEF PipelineInv, PipelineTypeOK

LEMMA StoresKeeps ==
  ASSUME PipelineInv, NEW c \in Commands, NEW n \in AttemptNos,
         NEW what \in {"analysis", "match"}, NEW then \in HandlerSteps \ {"finish"},
         Stores(c, n, what, then)
  PROVE  PipelineInv'
<1>1. PICK row \in HandlerRows : row.step = then /\ Placed(c, n, row)
  BY GoesPlaces DEF Stores
<1>2. QED
  BY <1>1, HandlerMoves DEF Stores, PipelineInv, PipelineTypeOK, CommandRows

\* A next job is queued before its handler returns.
LEMMA ChainsKeeps ==
  ASSUME PipelineInv, NEW c \in Commands, NEW n \in AttemptNos, NEW next \in Commands,
         Chains(c, n, next), command'[next].status # "none" => Followed(c)'
  PROVE  PipelineInv'
<1>1. "finish" \in HandlerSteps
  BY DEF HandlerSteps
<1>2. PICK row \in HandlerRows : row.step = "finish" /\ Placed(c, n, row)
  BY <1>1, GoesPlaces DEF Chains
<1>3. /\ command' \in [Commands -> CommandRows]
      /\ command'[next].status # "none"
      /\ \A d \in Commands : \/ command'[d] = command[d]
                             \/ /\ command[d].status = "none"
                                /\ command'[d].status = "available"
                                /\ command'[d].attempt = 0
  BY Queues DEF Chains
<1>4. QED
  BY <1>2, <1>3, HandlerMoves DEF Chains, PipelineInv, PipelineTypeOK

LEMMA MatchingKeeps ==
  ASSUME PipelineInv, NEW n \in AttemptNos, LooksForFacts(n)
  PROVE  PipelineInv'
<1> DEFINE then == IF ApprovedFacts # {} THEN "queue" ELSE "finish"
<1>1. then \in HandlerSteps /\ (then = "finish" => stops')
  BY DEF HandlerSteps, LooksForFacts
<1>2. Goes(Matching, n, then)
  BY DEF LooksForFacts
<1> HIDE DEF then
<1>3. PICK row \in HandlerRows : row.step = then /\ Placed(Matching, n, row)
  BY <1>1, <1>2, CommandFacts, GoesPlaces
<1>4. row.step = "finish" => Followed(Matching)'
  BY <1>1, <1>3 DEF Followed
<1>5. stops' \in BOOLEAN /\ (stops => stops')
  BY DEF LooksForFacts, PipelineInv, PipelineTypeOK
<1>6. QED
  BY <1>3, <1>4, <1>5, CommandFacts, HandlerMoves
     DEF LooksForFacts, PipelineInv, PipelineTypeOK, CommandRows

LEMMA TailorKeeps ==
  ASSUME PipelineInv, NEW n \in AttemptNos,
         ReadsFacts(n) \/ WritesVersion(n) \/ \E cites \in Citations : AgentAnswers(n, cites)
  PROVE  PipelineInv'
<1>1. /\ Tailor \in Commands /\ attempt[Tailor][n] \in HandlerRows
      /\ UNCHANGED <<fact, command, evidence, intended, stops, mishaps>>
  <2>1. Tailor \in Commands /\ attempt[Tailor][n] \in HandlerRows
    BY CommandFacts DEF PipelineInv, PipelineTypeOK, HandlerRows
  <2>2. UNCHANGED <<fact, command, evidence, intended, stops, mishaps>>
    BY DEF ReadsFacts, WritesVersion, AgentAnswers
  <2>3. QED
    BY <2>1, <2>2
<1>2. version' \in [AttemptNos -> {"none", "written", "scored"}]
  BY DEF ReadsFacts, WritesVersion, AgentAnswers, PipelineInv, PipelineTypeOK
<1>3. \E row \in HandlerRows : row.step # "finish" /\ Placed(Tailor, n, row)
  <2>1. CASE ReadsFacts(n)
    <3>1. [NoHandler EXCEPT !.step = "ask", !.read = ApprovedFacts] \in HandlerRows
      BY RowFacts DEF NoHandler, HandlerRows, HandlerSteps, ApprovedFacts
    <3>2. PICK row \in HandlerRows : row = [NoHandler EXCEPT !.step = "ask", !.read = ApprovedFacts]
      BY <3>1
    <3>3. row.step = "ask" /\ attempt' = [attempt EXCEPT ![Tailor][n] = row]
      BY <2>1, <3>2 DEF ReadsFacts, NoHandler
    <3>4. QED
      BY <1>1, <3>3, Places
  <2>2. CASE WritesVersion(n)
    <3>1. "queue" \in HandlerSteps
      BY DEF HandlerSteps
    <3>2. QED
      BY <1>1, <2>2, <3>1, GoesPlaces DEF WritesVersion
  <2>3. ASSUME NEW cites \in Citations, AgentAnswers(n, cites)
        PROVE  \E row \in HandlerRows : row.step # "finish" /\ Placed(Tailor, n, row)
    <3>1. [attempt[Tailor][n] EXCEPT !.step = "write", !.cites = cites] \in HandlerRows
      BY <1>1 DEF HandlerRows, HandlerSteps
    <3>2. PICK row \in HandlerRows :
            row = [attempt[Tailor][n] EXCEPT !.step = "write", !.cites = cites]
      BY <3>1
    <3>3. row.step = "write" /\ attempt' = [attempt EXCEPT ![Tailor][n] = row]
      BY <1>1, <2>3, <3>2 DEF AgentAnswers, HandlerRows
    <3>4. QED
      BY <1>1, <3>3, Places
  <2>4. QED
    BY <2>1, <2>2, <2>3
<1>4. QED
  BY <1>1, <1>2, <1>3, HandlerMoves DEF PipelineInv, PipelineTypeOK, CommandRows

LEMMA AtsKeeps ==
  ASSUME PipelineInv, NEW v \in AttemptNos, NEW n \in AttemptNos,
         Scores(v, n) \/ Intends(v, n) \/ LeavesToOwner(v, n)
  PROVE  PipelineInv'
<1>1. /\ Ats(v) \in Commands /\ v \in 0 .. JobTries /\ v # 0
      /\ UNCHANGED <<fact, command, evidence, mishaps>>
  BY CommandFacts, PipelineAssumption DEF Scores, Intends, LeavesToOwner, AttemptNos
<1>2. CASE Scores(v, n)
  <2>1. "queue" \in HandlerSteps
    BY DEF HandlerSteps
  <2>2. PICK row \in HandlerRows : row.step = "queue" /\ Placed(Ats(v), n, row)
    BY <1>1, <1>2, <2>1, GoesPlaces DEF Scores
  <2>3. QED
    BY <1>1, <1>2, <2>2, HandlerMoves DEF Scores, PipelineInv, PipelineTypeOK, CommandRows
<1>3. CASE Intends(v, n) \/ LeavesToOwner(v, n)
  <2>1. "finish" \in HandlerSteps
    BY DEF HandlerSteps
  <2>2. PICK row \in HandlerRows : row.step = "finish" /\ Placed(Ats(v), n, row)
    BY <1>1, <1>3, <2>1, GoesPlaces DEF Intends, LeavesToOwner
  <2>3. /\ intended' \in 0 .. JobTries /\ stops' \in BOOLEAN /\ version' = version
        /\ (intended' # 0 \/ stops') /\ (stops => stops') /\ (intended # 0 => intended' # 0)
    BY <1>1, <1>3 DEF Intends, LeavesToOwner, PipelineInv, PipelineTypeOK
  <2>4. Followed(Ats(v))'
    BY <2>3 DEF Followed
  <2>5. QED
    BY <1>1, <2>2, <2>3, <2>4, HandlerMoves DEF PipelineInv, PipelineTypeOK, CommandRows
<1>4. QED
  BY <1>2, <1>3

LEMMA HandlerStepKeeps ==
  ASSUME PipelineInv, NEW n \in AttemptNos, HandlerStep(n)
  PROVE  PipelineInv'
<1>1. CASE Stores(Analyze, n, "analysis", "queue") \/ Stores(Matching, n, "match", "look")
  <2>1. {"queue", "look"} \subseteq HandlerSteps \ {"finish"}
    BY DEF HandlerSteps
  <2>2. QED
    BY <1>1, <2>1, CommandFacts, StoresKeeps
<1>2. CASE Chains(Analyze, n, Matching)
  BY <1>2, CommandFacts, ChainsKeeps DEF Followed
<1>3. CASE Chains(Matching, n, Tailor)
  BY <1>3, CommandFacts, ChainsKeeps DEF Followed
<1>4. CASE Chains(Tailor, n, Ats(n))
  BY <1>4, CommandFacts, ChainsKeeps DEF Followed
<1>5. CASE LooksForFacts(n)
  BY <1>5, MatchingKeeps
<1>6. CASE ReadsFacts(n) \/ WritesVersion(n) \/ \E cites \in Citations : AgentAnswers(n, cites)
  BY <1>6, TailorKeeps
<1>7. CASE \E v \in AttemptNos : Scores(v, n) \/ Intends(v, n) \/ LeavesToOwner(v, n)
  BY <1>7, AtsKeeps
<1>8. QED
  BY <1>1, <1>2, <1>3, <1>4, <1>5, <1>6, <1>7 DEF HandlerStep

LEMMA PipelineStep == PipelineInv /\ [PipelineNext]_pipelineVars => PipelineInv'
<1>1. SUFFICES ASSUME PipelineInv, [PipelineNext]_pipelineVars PROVE PipelineInv'
  OBVIOUS
<1>2. CASE UNCHANGED pipelineVars
  BY <1>1, <1>2 DEF pipelineVars, PipelineInv, PipelineTypeOK, ChainInv, Ran, Followed
<1>3. CASE OwnerStep
  BY <1>1, <1>3, OwnerStepKeeps
<1>4. CASE \E c \in Commands :
             \/ Take(c) \/ Lapses(c)
             \/ \E n \in AttemptNos : \/ Completes(c, n) \/ IsRefused(c, n)
                                      \/ Dies(c, n) \/ Throws(c, n)
  BY <1>1, <1>4, TakeKeeps, CompletesKeeps, EndsKeep
<1>5. CASE \E n \in AttemptNos : HandlerStep(n)
  BY <1>1, <1>5, HandlerStepKeeps
<1>6. QED
  BY <1>1, <1>2, <1>3, <1>4, <1>5 DEF PipelineNext, WorkerStep

\* The inductive invariant of the pipeline: what follows a handler is in place before it is
\* at its end (automation-job-handlers.ts), with the types of the jobs and facts.
THEOREM PipelineInvariant == PipelineSpec => []PipelineInv
  BY PipelineInitially, PipelineStep, PTL DEF PipelineSpec

\* No posting is left halfway between two jobs, wherever workers fail, die or lose leases.
THEOREM PostingsReachAnEnd == PipelineSpec => []NoPostingStranded
<1>1. PipelineInv => NoPostingStranded
  BY ChainIsEnough DEF PipelineInv
<1>2. QED
  BY <1>1, PipelineInvariant, PTL

-----------------------------------------------------------------------------
(* From a posting to an application: the budget of a day. *)

ApplicationRows == [status : IntakeStatuses, version : Nat]

TxnRows == [kind : {"none", "create", "evaluate"}, posting : Vacancies \cup {Nothing},
            key : RequestKeys \cup {Nothing}, seen : ApplicationRows, others : Nat,
            reserved : BOOLEAN, day : 0 .. LastDay]

\* What an evaluation has read under its lock is still so.
ReadsHold(t) ==
  LET p == txn[t].posting
  IN  /\ p \in Vacancies /\ txn[t].day \in 1 .. LastDay
      /\ txn[t].reserved <=> reservation[p] # 0
      /\ txn[t].others = Cardinality(Reserved(txn[t].day) \ {p})

Evaluating ==
  \A t \in Transactions : txn[t].kind = "evaluate" =>
    /\ ReadsHold(t)
    /\ \A u \in Transactions : txn[u].kind = "evaluate" => u = t

\* Past the quality gate there is a reservation, or the owner's hand.
Backed ==
  /\ \A p \in passed : reservation[p] # 0
  /\ \A p \in Vacancies : Status(p) \in {"QUALIFIED", "QUEUED", "APPLICATION_STARTED"} =>
                            reservation[p] # 0 \/ p \in byHand

IntakeInv ==
  /\ IntakeTypeOK /\ txn \in [Transactions -> TxnRows]
  /\ Evaluating /\ Backed /\ DailyBudgetKept

LEMMA NoTxnFacts ==
  /\ NoTxn \in TxnRows /\ NoTxn.kind = "none"
  /\ LastDay \in Nat \ {0} /\ DailyLimit \in Nat
  BY IntakeAssumption DEF NoTxn, TxnRows, NoApplication, ApplicationRows, IntakeStatuses

LEMMA ReservedIsFinite ==
  ASSUME NEW d
  PROVE  IsFiniteSet(Reserved(d))
  BY IntakeAssumption, FS_Subset DEF Reserved

LEMMA IntakeInitially == IntakeInit => IntakeInv
<1>1. SUFFICES ASSUME IntakeInit PROVE IntakeInv
  OBVIOUS
<1>2. /\ NoApplication \in ApplicationRows
      /\ \A p \in Vacancies : application[p] = NoApplication /\ reservation[p] = 0
  BY <1>1 DEF IntakeInit, NoApplication, ApplicationRows, IntakeStatuses
<1>3. IntakeTypeOK
  BY <1>1, <1>2, NoTxnFacts DEF IntakeInit, IntakeTypeOK, ApplicationRows
<1>4. \A d \in 1 .. LastDay : Cardinality(Reserved(d)) <= DailyLimit
  <2>1. \A d \in 1 .. LastDay : Reserved(d) = {}
    BY <1>2, NoTxnFacts DEF Reserved
  <2>2. QED
    BY <2>1, FS_EmptySet, NoTxnFacts
<1>5. Evaluating
  BY <1>1, NoTxnFacts DEF IntakeInit, Evaluating
<1>6. Backed
  BY <1>1, <1>2 DEF IntakeInit, Backed, Status, NoApplication
<1>7. QED
  BY <1>1, <1>3, <1>4, <1>5, <1>6, NoTxnFacts DEF IntakeInit, IntakeInv, DailyBudgetKept

\* Steps that touch no reservation and begin no evaluation.
LEMMA IntakeMoves ==
  ASSUME IntakeInv, UNCHANGED reservation,
         \A t \in Transactions : txn'[t] = txn[t] \/ txn'[t].kind # "evaluate",
         txn' \in [Transactions -> TxnRows],
         application' \in [Vacancies -> ApplicationRows],
         evaluation' \in [Vacancies -> RequestKeys \cup {Nothing}],
         \A p \in passed' : reservation[p] # 0, passed' \subseteq Vacancies,
         byHand \subseteq byHand', byHand' \subseteq Vacancies, today' \in 1 .. LastDay,
         \A p \in Vacancies :
           Status(p)' \in {"QUALIFIED", "QUEUED", "APPLICATION_STARTED"} =>
             reservation[p] # 0 \/ p \in byHand' \/ Status(p) \in {"QUALIFIED", "QUEUED", "APPLICATION_STARTED"},
         formJob' \subseteq Vacancies \X RequestKeys,
         ordered' \subseteq Vacancies \X (Vacancies \cup RequestKeys),
         \A job \in formJob' : job \in formJob \/ reservation[job[1]] # 0,
         \A job \in ordered' : job \in ordered \/ Status(job[1]) = "APPLICATION_STARTED"
  PROVE  IntakeInv'
<1>1. IntakeTypeOK'
  BY DEF IntakeInv, IntakeTypeOK, ApplicationRows, TxnRows
<1>2. Backed'
  BY DEF IntakeInv, Backed
<1>3. Evaluating'
  BY DEF IntakeInv, Evaluating, ReadsHold, Reserved
<1>4. DailyBudgetKept'
  <2>1. \A d \in 1 .. LastDay : Cardinality(Reserved(d)')  <= DailyLimit
    BY DEF IntakeInv, DailyBudgetKept, Reserved
  <2>2. \A job \in formJob' : reservation'[job[1]] # 0
    BY DEF IntakeInv, DailyBudgetKept
  <2>3. ASSUME NEW job \in ordered' PROVE reservation'[job[1]] # 0 \/ job[1] \in byHand'
    <3>1. job[1] \in Vacancies
      OBVIOUS
    <3>2. CASE job \in ordered
      BY <3>2 DEF IntakeInv, DailyBudgetKept
    <3>3. CASE Status(job[1]) = "APPLICATION_STARTED"
      BY <3>1, <3>3 DEF IntakeInv, Backed
    <3>4. QED
      BY <2>3, <3>2, <3>3
  <2>4. QED
    BY <2>1, <2>2, <2>3 DEF DailyBudgetKept
<1>5. QED
  BY <1>1, <1>2, <1>3, <1>4 DEF IntakeInv

\* An application moves on.
LEMMA Moves ==
  ASSUME IntakeInv, NEW p \in Vacancies, NEW to \in IntakeStatuses, application' = Moved(p, to)
  PROVE  /\ application' \in [Vacancies -> ApplicationRows]
         /\ Status(p)' = to /\ \A q \in Vacancies \ {p} : Status(q)' = Status(q)
<1>1. application \in [Vacancies -> ApplicationRows]
  BY DEF IntakeInv, IntakeTypeOK, ApplicationRows
<1>2. [status |-> to, version |-> application[p].version + 1] \in ApplicationRows
  BY <1>1 DEF ApplicationRows
<1>3. PICK r \in ApplicationRows : r = [status |-> to, version |-> application[p].version + 1]
  BY <1>2
<1>4. r.status = to /\ application' = [application EXCEPT ![p] = r]
  BY <1>3 DEF Moved
<1>5. QED
  BY <1>1, <1>4 DEF Status

\* The transaction of t begins, or is over.
LEMMA TxnMoves ==
  ASSUME IntakeInv, NEW t \in Transactions, NEW r \in TxnRows, txn' = [txn EXCEPT ![t] = r]
  PROVE  /\ txn' \in [Transactions -> TxnRows] /\ txn'[t] = r
         /\ \A u \in Transactions \ {t} : txn'[u] = txn[u]
  BY DEF IntakeInv

\* What the state holds of an application.
LEMMA IntakeTypes ==
  ASSUME IntakeInv
  PROVE  /\ application \in [Vacancies -> ApplicationRows]
         /\ evaluation \in [Vacancies -> RequestKeys \cup {Nothing}]
         /\ reservation \in [Vacancies -> 0 .. LastDay]
         /\ passed \subseteq Vacancies /\ byHand \subseteq Vacancies /\ today \in 1 .. LastDay
         /\ formJob \subseteq Vacancies \X RequestKeys
         /\ ordered \subseteq Vacancies \X (Vacancies \cup RequestKeys)
         /\ txn \in [Transactions -> TxnRows]
         /\ \A p \in passed : reservation[p] # 0
  BY DEF IntakeInv, IntakeTypeOK, ApplicationRows, Backed

LEMMA CreationKeeps ==
  ASSUME IntakeInv, NEW t \in Transactions,
         \/ \E p \in Vacancies, k \in RequestKeys : CreateReads(t, p, k)
         \/ CreateCommits(t) \/ RollBack(t)
  PROVE  IntakeInv'
<1>1. /\ UNCHANGED <<reservation, passed, formJob, ordered, byHand, today>>
  BY DEF CreateReads, CreateCommits, RollBack
<1>2. /\ txn' \in [Transactions -> TxnRows]
      /\ \A u \in Transactions : txn'[u] = txn[u] \/ txn'[u].kind # "evaluate"
  <2>1. CASE CreateCommits(t) \/ RollBack(t)
    BY <2>1, NoTxnFacts, TxnMoves DEF CreateCommits, RollBack
  <2>2. ASSUME NEW p \in Vacancies, NEW k \in RequestKeys, CreateReads(t, p, k)
        PROVE  /\ txn' \in [Transactions -> TxnRows]
               /\ \A u \in Transactions : txn'[u] = txn[u] \/ txn'[u].kind # "evaluate"
    <3>1. [NoTxn EXCEPT !.kind = "create", !.posting = p, !.key = k] \in TxnRows
      BY NoTxnFacts DEF TxnRows
    <3>2. PICK r \in TxnRows : r = [NoTxn EXCEPT !.kind = "create", !.posting = p, !.key = k]
      BY <3>1
    <3>3. r.kind = "create" /\ txn' = [txn EXCEPT ![t] = r]
      BY <2>2, <3>2, NoTxnFacts DEF CreateReads, NoTxn
    <3>4. QED
      BY <3>3, TxnMoves
  <2>3. QED
    BY <2>1, <2>2
<1>3. /\ application' \in [Vacancies -> ApplicationRows]
      /\ evaluation' \in [Vacancies -> RequestKeys \cup {Nothing}]
      /\ \A q \in Vacancies : Status(q)' = Status(q) \/ Status(q)' = "DISCOVERED"
  <2>1. CASE CreateCommits(t)
    <3>1. PICK p \in Vacancies \cup {Nothing} : p = txn[t].posting
      BY IntakeTypes DEF TxnRows
    <3>2. /\ application' = Moved(p, "DISCOVERED")
          /\ evaluation' = [evaluation EXCEPT ![p] = txn[t].key]
          /\ txn[t].key \in RequestKeys \cup {Nothing}
      BY <2>1, <3>1, IntakeTypes DEF CreateCommits, TxnRows
    <3>3. evaluation' \in [Vacancies -> RequestKeys \cup {Nothing}]
      BY <3>2, IntakeTypes
    <3>4. CASE p \in Vacancies
      BY <3>2, <3>3, <3>4, Moves DEF IntakeStatuses
    <3>5. CASE p \notin Vacancies
      BY <3>2, <3>3, <3>5, IntakeTypes DEF Moved, Status
    <3>6. QED
      BY <3>4, <3>5
  <2>2. CASE UNCHANGED <<application, evaluation>>
    BY <2>2, IntakeTypes DEF Status
  <2>3. QED
    BY <2>1, <2>2 DEF CreateReads, RollBack
<1>4. QED
  BY <1>1, <1>2, <1>3, IntakeTypes, IntakeMoves

LEMMA EvaluateReadsKeeps ==
  ASSUME IntakeInv, NEW t \in Transactions, NEW p \in Vacancies, EvaluateReads(t, p)
  PROVE  IntakeInv'
<1> DEFINE others == Cardinality(Reserved(today) \ {p})
           reserved == reservation[p] # 0
<1>1. others \in Nat
  BY ReservedIsFinite, FS_Subset, FS_CardinalityType
<1>2. /\ UNCHANGED <<application, evaluation, reservation, passed, formJob, ordered, byHand, today>>
      /\ txn' = [txn EXCEPT ![t] = [NoTxn EXCEPT !.kind = "evaluate", !.posting = p,
                   !.seen = application[p], !.reserved = reserved, !.day = today, !.others = others]]
      /\ application[p] \in ApplicationRows /\ today \in 1 .. LastDay /\ today \in 0 .. LastDay
  BY IntakeTypes, NoTxnFacts DEF EvaluateReads
<1>3. /\ others = Cardinality(Reserved(today) \ {p}) /\ reserved \in BOOLEAN
      /\ reserved <=> reservation[p] # 0
  OBVIOUS
<1> HIDE DEF others, reserved
<1>4. [NoTxn EXCEPT !.kind = "evaluate", !.posting = p, !.seen = application[p],
                    !.reserved = reserved, !.day = today, !.others = others] \in TxnRows
  BY <1>1, <1>2, <1>3, NoTxnFacts DEF TxnRows
<1>5. PICK r \in TxnRows :
        r = [NoTxn EXCEPT !.kind = "evaluate", !.posting = p, !.seen = application[p],
                          !.reserved = reserved, !.day = today, !.others = others]
  BY <1>4
<1>6. /\ txn' = [txn EXCEPT ![t] = r]
      /\ r.posting = p /\ r.reserved = reserved /\ r.day = today /\ r.others = others
  BY <1>2, <1>5 DEF NoTxn
<1>7. /\ txn' \in [Transactions -> TxnRows] /\ txn'[t] = r
      /\ \A u \in Transactions \ {t} : txn'[u] = txn[u]
  BY <1>6, TxnMoves
<1>8. ReadsHold(t)'
  BY <1>2, <1>3, <1>6, <1>7 DEF ReadsHold, Reserved
<1>9. \A u \in Transactions : txn[u].kind # "evaluate"
  BY DEF EvaluateReads, QualityLockFree, Running
<1>10. Evaluating'
  BY <1>7, <1>8, <1>9 DEF Evaluating
<1>11. IntakeTypeOK' /\ Backed' /\ DailyBudgetKept'
  <2>1. IntakeTypeOK'
    BY <1>2, <1>7 DEF IntakeInv, IntakeTypeOK, TxnRows
  <2>2. Backed'
    BY <1>2 DEF IntakeInv, Backed, Status
  <2>3. DailyBudgetKept'
    BY <1>2 DEF IntakeInv, DailyBudgetKept, Reserved
  <2>4. QED
    BY <2>1, <2>2, <2>3
<1>12. QED
  BY <1>7, <1>10, <1>11 DEF IntakeInv

\* A reservation is made only within the budget of its day.
LEMMA ReservationFits ==
  ASSUME IntakeInv, NEW p \in Vacancies, NEW d \in 1 .. LastDay, reservation[p] = 0,
         Cardinality(Reserved(d) \ {p}) < DailyLimit,
         reservation' = [reservation EXCEPT ![p] = d]
  PROVE  /\ reservation' \in [Vacancies -> 0 .. LastDay]
         /\ \A q \in Vacancies : reservation[q] # 0 => reservation'[q] # 0
         /\ reservation'[p] # 0
         /\ \A e \in 1 .. LastDay : Cardinality(Reserved(e)') <= DailyLimit
<1>1. /\ reservation \in [Vacancies -> 0 .. LastDay] /\ d \in 0 .. LastDay /\ d # 0
  BY IntakeTypes, NoTxnFacts
<1>2. ASSUME NEW e \in 1 .. LastDay PROVE Cardinality(Reserved(e)') <= DailyLimit
  <2>1. CASE e # d
    <3>1. Reserved(e)' = Reserved(e)
      BY <1>1, <2>1, NoTxnFacts DEF Reserved
    <3>2. QED
      BY <3>1 DEF IntakeInv, DailyBudgetKept
  <2>2. CASE e = d
    <3>1. Reserved(e)' = Reserved(d) \cup {p} /\ p \notin Reserved(d)
      BY <1>1, <2>2 DEF Reserved
    <3>2. Reserved(d) \ {p} = Reserved(d)
      BY <3>1
    <3>3. Cardinality(Reserved(d) \cup {p}) = Cardinality(Reserved(d)) + 1
      BY <3>1, ReservedIsFinite, FS_AddElement
    <3>4. Cardinality(Reserved(d)) \in Nat
      BY ReservedIsFinite, FS_CardinalityType
    <3>5. QED
      BY <3>1, <3>2, <3>3, <3>4, NoTxnFacts
  <2>3. QED
    BY <2>1, <2>2
<1>3. QED
  BY <1>1, <1>2

LEMMA EvaluateCommitsKeeps ==
  ASSUME IntakeInv, NEW t \in Transactions, NEW checks \in Verdicts, EvaluateCommits(t, checks)
  PROVE  IntakeInv'
<1> DEFINE verdict == Decision(t, checks)
<1>1. PICK p \in Vacancies : p = txn[t].posting
  BY DEF IntakeInv, Evaluating, ReadsHold, EvaluateCommits
<1>2. /\ txn[t].day \in 1 .. LastDay /\ (txn[t].reserved <=> reservation[p] # 0)
      /\ txn[t].others = Cardinality(Reserved(txn[t].day) \ {p})
      /\ \A u \in Transactions \ {t} : txn[u].kind # "evaluate"
  BY <1>1 DEF IntakeInv, Evaluating, ReadsHold, EvaluateCommits
<1>3. /\ UNCHANGED <<evaluation, formJob, ordered, byHand, today>>
      /\ txn' = [txn EXCEPT ![t] = NoTxn]
      /\ reservation' = IF verdict = "PASS" /\ ~txn[t].reserved
                        THEN [reservation EXCEPT ![p] = txn[t].day] ELSE reservation
      /\ passed' = IF verdict = "PASS" THEN passed \cup {p} ELSE passed
      /\ \/ UNCHANGED application
         \/ verdict = "PASS" /\ application' = Moved(p, "QUALIFIED")
         \/ application' = Moved(p, "SKIPPED")
  BY <1>1 DEF EvaluateCommits
<1>4. verdict = "PASS" => (txn[t].reserved \/ txn[t].others < DailyLimit)
  BY DEF Decision, Available
<1> HIDE DEF verdict
<1>5. /\ reservation' \in [Vacancies -> 0 .. LastDay]
      /\ \A q \in Vacancies : reservation[q] # 0 => reservation'[q] # 0
      /\ verdict = "PASS" => reservation'[p] # 0
      /\ \A d \in 1 .. LastDay : Cardinality(Reserved(d)') <= DailyLimit
  <2>1. CASE verdict = "PASS" /\ ~txn[t].reserved
    <3>1. PICK d \in 1 .. LastDay : d = txn[t].day
      BY <1>2
    <3>2. /\ reservation[p] = 0 /\ Cardinality(Reserved(d) \ {p}) < DailyLimit
          /\ reservation' = [reservation EXCEPT ![p] = d]
      BY <1>2, <1>3, <1>4, <2>1, <3>1
    <3>3. QED
      BY <3>2, ReservationFits
  <2>2. CASE ~(verdict = "PASS" /\ ~txn[t].reserved)
    <3>1. reservation' = reservation /\ (verdict = "PASS" => reservation[p] # 0)
      BY <1>2, <1>3, <2>2
    <3>2. \A d \in 1 .. LastDay : Reserved(d)' = Reserved(d)
      BY <3>1 DEF Reserved
    <3>3. QED
      BY <3>1, <3>2, IntakeTypes DEF IntakeInv, DailyBudgetKept
  <2>3. QED
    BY <2>1, <2>2
<1>6. /\ application' \in [Vacancies -> ApplicationRows]
      /\ \A q \in Vacancies : \/ Status(q)' = Status(q) \/ Status(q)' = "SKIPPED"
                              \/ q = p /\ verdict = "PASS"
  <2>1. CASE UNCHANGED application
    BY <2>1, IntakeTypes DEF Status
  <2>2. CASE verdict = "PASS" /\ application' = Moved(p, "QUALIFIED")
    BY <2>2, Moves DEF IntakeStatuses
  <2>3. CASE application' = Moved(p, "SKIPPED")
    BY <2>3, Moves DEF IntakeStatuses
  <2>4. QED
    BY <1>3, <2>1, <2>2, <2>3
<1>7. /\ txn' \in [Transactions -> TxnRows]
      /\ \A u \in Transactions : txn'[u].kind # "evaluate"
  BY <1>2, <1>3, NoTxnFacts, TxnMoves
<1>8. IntakeTypeOK'
  <2>1. passed' \subseteq Vacancies
    BY <1>3, IntakeTypes
  <2>2. QED
    BY <1>3, <1>5, <1>6, <1>7, <2>1, IntakeTypes DEF IntakeTypeOK, ApplicationRows, TxnRows
<1>9. Backed'
  <2>1. \A q \in passed' : reservation'[q] # 0
    BY <1>3, <1>5, IntakeTypes
  <2>2. ASSUME NEW q \in Vacancies, Status(q)' \in {"QUALIFIED", "QUEUED", "APPLICATION_STARTED"}
        PROVE  reservation'[q] # 0 \/ q \in byHand'
    <3>1. Status(q)' = Status(q) \/ (q = p /\ verdict = "PASS")
      BY <1>6, <2>2
    <3>2. Status(q)' = Status(q) => (reservation[q] # 0 \/ q \in byHand)
      BY <2>2 DEF IntakeInv, Backed
    <3>3. QED
      BY <1>3, <1>5, <3>1, <3>2
  <2>3. QED
    BY <2>1, <2>2 DEF Backed
<1>10. DailyBudgetKept'
  <2>1. \A job \in formJob : job[1] \in Vacancies /\ reservation[job[1]] # 0
    BY IntakeTypes DEF IntakeInv, DailyBudgetKept
  <2>2. \A job \in ordered : job[1] \in Vacancies /\ (reservation[job[1]] # 0 \/ job[1] \in byHand)
    BY IntakeTypes DEF IntakeInv, DailyBudgetKept
  <2>3. QED
    BY <1>3, <1>5, <2>1, <2>2 DEF DailyBudgetKept
<1>11. QED
  BY <1>7, <1>8, <1>9, <1>10 DEF IntakeInv, Evaluating

\* Preparation, the owner and the calendar.
LEMMA OrdersKeep ==
  ASSUME IntakeInv,
         \/ \E p \in Vacancies, k \in RequestKeys : Prepare(p, k) \/ ScheduleRun(p, k)
         \/ \E p \in Vacancies : OrderForm(p)
         \/ NextDay
  PROVE  IntakeInv'
<1>1. UNCHANGED <<evaluation, reservation, passed, byHand, txn>>
  BY DEF Prepare, ScheduleRun, OrderForm, NextDay
<1>2. today' \in 1 .. LastDay
  <2>1. today' = today \/ (today < LastDay /\ today' = today + 1)
    BY DEF Prepare, ScheduleRun, OrderForm, NextDay
  <2>2. QED
    BY <2>1, IntakeTypes, NoTxnFacts
<1>3. /\ ordered' \subseteq Vacancies \X (Vacancies \cup RequestKeys)
      /\ \A job \in ordered' : job \in ordered \/ Status(job[1]) = "APPLICATION_STARTED"
  <2>1. \/ UNCHANGED ordered
        \/ \E p \in Vacancies, k \in Vacancies \cup RequestKeys :
             Status(p) = "APPLICATION_STARTED" /\ ordered' = ordered \cup {<<p, k>>}
    BY DEF Prepare, ScheduleRun, OrderForm, NextDay
  <2>2. QED
    BY <2>1, IntakeTypes
<1>4. /\ application' \in [Vacancies -> ApplicationRows]
      /\ formJob' \subseteq Vacancies \X RequestKeys
      /\ \A job \in formJob' : job \in formJob \/ reservation[job[1]] # 0
      /\ \A q \in Vacancies : Status(q)' = Status(q) \/ reservation[q] # 0
  <2>1. ASSUME NEW p \in Vacancies, NEW k \in RequestKeys, Prepare(p, k)
        PROVE  /\ application' \in [Vacancies -> ApplicationRows]
               /\ formJob' \subseteq Vacancies \X RequestKeys
               /\ \A job \in formJob' : job \in formJob \/ reservation[job[1]] # 0
               /\ \A q \in Vacancies : Status(q)' = Status(q) \/ reservation[q] # 0
    <3>1. reservation[p] # 0 /\ formJob' = formJob \cup {<<p, k>>}
      BY <2>1, IntakeTypes DEF Prepare
    <3>2. application' = application \/ application' = Moved(p, "APPLICATION_STARTED")
      BY <2>1 DEF Prepare
    <3>3. /\ application' \in [Vacancies -> ApplicationRows]
          /\ \A q \in Vacancies : Status(q)' = Status(q) \/ q = p
      <4>1. CASE application' = application
        BY <4>1, IntakeTypes DEF Status
      <4>2. CASE application' = Moved(p, "APPLICATION_STARTED")
        BY <4>2, Moves DEF IntakeStatuses
      <4>3. QED
        BY <3>2, <4>1, <4>2
    <3>4. QED
      BY <3>1, <3>3, IntakeTypes
  <2>2. CASE UNCHANGED <<application, formJob>>
    BY <2>2, IntakeTypes DEF Status
  <2>3. QED
    BY <2>1, <2>2 DEF ScheduleRun, OrderForm, NextDay
<1>5. QED
  BY <1>1, <1>2, <1>3, <1>4, IntakeTypes, IntakeMoves

LEMMA OwnerMovesKeeps ==
  ASSUME IntakeInv, NEW p \in Vacancies, NEW to \in IntakeStatuses, OwnerMoves(p, to)
  PROVE  IntakeInv'
<1>1. /\ UNCHANGED <<evaluation, reservation, passed, formJob, ordered, txn, today>>
      /\ application' = Moved(p, to)
      /\ byHand' = IF to = "QUALIFIED" THEN byHand \cup {p} ELSE byHand
      /\ to \in {"QUEUED", "APPLICATION_STARTED"} =>
           Status(p) \in {"QUALIFIED", "QUEUED", "APPLICATION_STARTED"}
  BY DEF OwnerMoves
<1>2. /\ application' \in [Vacancies -> ApplicationRows]
      /\ Status(p)' = to /\ \A q \in Vacancies \ {p} : Status(q)' = Status(q)
  BY <1>1, Moves
<1>3. byHand \subseteq byHand' /\ byHand' \subseteq Vacancies /\ (to = "QUALIFIED" => p \in byHand')
  BY <1>1, IntakeTypes
<1>4. QED
  BY <1>1, <1>2, <1>3, IntakeTypes, IntakeMoves

LEMMA IntakeStep == IntakeInv /\ [IntakeNext]_intakeVars => IntakeInv'
<1>1. SUFFICES ASSUME IntakeInv, [IntakeNext]_intakeVars PROVE IntakeInv'
  OBVIOUS
<1>2. CASE UNCHANGED intakeVars
  <2>1. UNCHANGED <<application, evaluation, reservation, passed, formJob, ordered, byHand, txn, today>>
    BY <1>2 DEF intakeVars
  <2>2. IntakeTypeOK' /\ txn' \in [Transactions -> TxnRows] /\ Backed'
    BY <1>1, <2>1 DEF IntakeInv, IntakeTypeOK, Backed, Status
  <2>3. Evaluating' /\ DailyBudgetKept'
    BY <1>1, <2>1 DEF IntakeInv, Evaluating, ReadsHold, Reserved, DailyBudgetKept
  <2>4. QED
    BY <2>2, <2>3 DEF IntakeInv
<1>3. CASE \E t \in Transactions :
             \/ \E p \in Vacancies, k \in RequestKeys : CreateReads(t, p, k)
             \/ CreateCommits(t) \/ RollBack(t)
  BY <1>1, <1>3, CreationKeeps
<1>4. CASE \E t \in Transactions, p \in Vacancies : EvaluateReads(t, p)
  BY <1>1, <1>4, EvaluateReadsKeeps
<1>5. CASE \E t \in Transactions, checks \in Verdicts : EvaluateCommits(t, checks)
  BY <1>1, <1>5, EvaluateCommitsKeeps
<1>6. CASE \/ \E p \in Vacancies, k \in RequestKeys : Prepare(p, k) \/ ScheduleRun(p, k)
           \/ \E p \in Vacancies : OrderForm(p)
           \/ NextDay
  BY <1>1, <1>6, OrdersKeep
<1>7. CASE \E p \in Vacancies, to \in IntakeStatuses : OwnerMoves(p, to)
  BY <1>1, <1>7, OwnerMovesKeeps
<1>8. QED
  BY <1>1, <1>2, <1>3, <1>4, <1>5, <1>6, <1>7 DEF IntakeNext

\* The inductive invariant of the way to the form: one evaluation at a time, of which
\* everything it read is so still when it commits (application-quality.ts).
THEOREM IntakeInvariant == IntakeSpec => []IntakeInv
  BY IntakeInitially, IntakeStep, PTL DEF IntakeSpec

\* No day is booked beyond its budget, and no form is filled without a reservation.
THEOREM BudgetsAreKept == IntakeSpec => []DailyBudgetKept
<1>1. IntakeInv => DailyBudgetKept
  BY DEF IntakeInv
<1>2. QED
  BY <1>1, IntakeInvariant, PTL

-----------------------------------------------------------------------------
(* The form of the provider. *)

Words == Values \cup {NoValue, "profile", "letter"}

ResultRows == [step : 0 .. Len(Form), fields : SUBSET Fields, filled : SUBSET Fields,
               blocking : SUBSET Fields, errors : BOOLEAN, advanced : BOOLEAN]

PassRows == [stage : {"idle", "fill", "supplement", "advance", "decide", "conclude"},
             count : 0 .. MaxPasses, rounds : 0 .. MaxFormSteps, loaded : [Fields -> Words],
             result : ResultRows, inspected : SUBSET Fields, saved : 0 .. Len(Form)]

Pages == [step : 1 .. Len(Form), entered : SUBSET Fields]

DecisionRows == [version : 0 .. MaxVersion, value : Words, approve : BOOLEAN]

\* The required controls that a pass saw and that have no value, other than the one the
\* answer they were given leaves them.
LeftOpen == (pass.inspected \cap Required) \ (page.entered \cup LeftEmpty)

\* What the result of a step still lists covers everything that is left open, and a step is
\* left with nothing open.
Accounted ==
  /\ LeftOpen \subseteq pass.result.blocking
  /\ pass.result.filled \subseteq page.entered \cup LeftEmpty
  /\ pass.result.advanced => LeftOpen = {}
  /\ ~pass.result.advanced => page.step = pass.result.step

FormRowsOK ==
  /\ FormTypeOK
  /\ pass \in PassRows /\ page \in Pages /\ decision \in [Fields -> DecisionRows]

FormInv ==
  /\ FormRowsOK
  /\ pass.stage \in {"fill", "supplement", "advance"} => pass.rounds < MaxFormSteps
  /\ pass.stage = "fill" => LeftOpen = {}
  /\ pass.stage \in {"supplement", "advance", "decide", "conclude"} => Accounted
  /\ formStatus = "FORM_FILLED" => pass.stage = "idle" /\ LeftOpen = {}

LEMMA FormFacts ==
  /\ Len(Form) \in Nat \ {0} /\ \A i \in 1 .. Len(Form) : Form[i] \subseteq Fields
  /\ MaxPasses \in Nat \ {0} /\ MaxFormSteps \in Nat \ {0} /\ MaxVersion \in Nat \ {0}
  /\ Edited \subseteq Fields /\ Required \subseteq Fields
  BY FormAssumption

LEMMA RestTypes ==
  /\ NoResult \in ResultRows /\ Idle \in PassRows /\ Blank \in Pages
  /\ Idle.stage = "idle" /\ Idle.inspected = {} /\ Idle.rounds = 0 /\ Blank.entered = {}
  /\ LeftEmpty \subseteq Fields
  /\ NoAnswer \in Answers /\ NoDecision \in DecisionRows
<1>1. NoResult \in ResultRows
  BY FormFacts DEF NoResult, ResultRows
<1>2. Idle \in PassRows /\ Idle.stage = "idle" /\ Idle.inspected = {} /\ Idle.rounds = 0
  BY <1>1, FormFacts DEF Idle, PassRows, Words
<1>3. Blank \in Pages /\ Blank.entered = {}
  BY FormFacts DEF Blank, Pages
<1>4. NoAnswer \in Answers /\ NoDecision \in DecisionRows
  BY FormFacts DEF NoAnswer, Answers, NoDecision, DecisionRows, Words
<1>5. QED
  BY <1>1, <1>2, <1>3, <1>4 DEF LeftEmpty

\* What a pass is given, and so what it leaves empty, is settled when it begins.
LEMMA EmptyStays ==
  ASSUME pass'.loaded = pass.loaded
  PROVE  LeftEmpty' = LeftEmpty
  BY DEF LeftEmpty, Fillable, Resolved, Suits, SortOf, Disposition

\* The controls of a step that take a stored document or text are controls of the step.
LEMMA SupplementsAreShown ==
  ASSUME NEW r \in ResultRows
  PROVE  /\ Attachable(r) \subseteq r.fields /\ Doubtful(r) \subseteq r.fields
         /\ Supplements(r).coverText = {f \in r.fields : Kind[f] = "TEXTAREA" /\ Topic[f] = "coverLetter"}
<1>1. \A s \in Stored : Supplements(r)[s] \subseteq r.fields
  BY FormAssumption DEF Supplements
<1>2. Attachable(r) \subseteq r.fields /\ Doubtful(r) \subseteq r.fields
  BY <1>1 DEF Attachable, Doubtful
<1>3. QED
  BY <1>2 DEF Supplements

\* A step nobody needs to review leaves no required control open.
LEMMA NothingOpen ==
  ASSUME pass \in PassRows, Accounted, ~NeedsReview(pass.result)
  PROVE  LeftOpen = {}
<1>1. SUFFICES ASSUME NEW f \in LeftOpen PROVE FALSE
  OBVIOUS
<1>2. PICK r \in ResultRows : r = pass.result
  BY DEF PassRows
<1>3. f \in r.blocking /\ f \notin r.filled
  BY <1>1, <1>2 DEF Accounted, LeftOpen
<1>4. f \in Supplements(r).coverText
  BY <1>2, <1>3 DEF NeedsReview
<1>5. f \in r.fields /\ Kind[f] = "TEXTAREA" /\ Topic[f] = "coverLetter"
  BY <1>4, SupplementsAreShown
<1>6. Disposition(f) = "AMBIGUOUS"
  BY <1>5 DEF Disposition
<1>7. QED
  BY <1>2, <1>3, <1>5, <1>6 DEF NeedsReview

LEMMA FormInitially == FormInit => FormInv
<1>1. SUFFICES ASSUME FormInit PROVE FormInv
  OBVIOUS
<1>2. FormRowsOK
  BY <1>1, RestTypes DEF FormInit, FormRowsOK, FormTypeOK, PassRows, Pages
<1>3. QED
  BY <1>1, <1>2, RestTypes DEF FormInit, FormInv

\* Answers and their decisions leave the pass and its page.
LEMMA OwnerEdits ==
  ASSUME FormInv, NEW f \in Edited,
         \/ \E v \in Values : SaveDraft(f, v)
         \/ \E approve \in BOOLEAN : ReadAnswer(f, approve)
         \/ CommitDecision(f)
  PROVE  FormInv'
<1>1. f \in Fields /\ answer \in [Fields -> Answers] /\ decision \in [Fields -> DecisionRows]
      /\ answer[f] \in Answers /\ decision[f] \in DecisionRows
  BY FormFacts DEF FormInv, FormRowsOK, FormTypeOK
<1>2. UNCHANGED <<asked, formStatus, notices, page, pass>>
  BY DEF SaveDraft, ReadAnswer, CommitDecision
<1>3. answer' \in [Fields -> Answers] /\ decision' \in [Fields -> DecisionRows]
  <2>1. ASSUME NEW v \in Values, SaveDraft(f, v)
        PROVE  answer' \in [Fields -> Answers] /\ decision' = decision
    <3>1. answer[f].version + 1 \in 0 .. MaxVersion
      BY <1>1, <2>1, FormFacts DEF SaveDraft, Answers
    <3>2. [version |-> answer[f].version + 1, value |-> v, approved |-> FALSE, reviewed |-> NoValue] \in Answers
      BY <3>1 DEF Answers
    <3>3. QED
      BY <1>1, <2>1, <3>2 DEF SaveDraft
  <2>2. ASSUME NEW approve \in BOOLEAN, ReadAnswer(f, approve)
        PROVE  decision' \in [Fields -> DecisionRows] /\ answer' = answer
    <3>1. [version |-> answer[f].version, value |-> answer[f].value, approve |-> approve] \in DecisionRows
      BY <1>1 DEF Answers, DecisionRows, Words
    <3>2. QED
      BY <1>1, <2>2, <3>1 DEF ReadAnswer
  <2>3. ASSUME CommitDecision(f)
        PROVE  answer' \in [Fields -> Answers] /\ decision' \in [Fields -> DecisionRows]
    <3>1. answer[f].version + 1 \in 0 .. MaxVersion /\ decision[f].value \in Words
      BY <1>1, <2>3, FormFacts DEF CommitDecision, Answers, DecisionRows
    <3> DEFINE approved == [answer[f] EXCEPT !.version = answer[f].version + 1, !.approved = TRUE,
                                             !.reviewed = decision[f].value]
    <3>2. approved \in Answers
      BY <1>1, <3>1 DEF Answers, Words
    <3>3. answer' = [answer EXCEPT ![f] = NoAnswer] \/ answer' = [answer EXCEPT ![f] = approved]
      BY <2>3 DEF CommitDecision
    <3> HIDE DEF approved
    <3>4. answer' \in [Fields -> Answers]
      BY <1>1, <3>2, <3>3, RestTypes
    <3>5. decision' \in [Fields -> DecisionRows]
      BY <1>1, <2>3, RestTypes DEF CommitDecision
    <3>6. QED
      BY <3>4, <3>5
  <2>4. QED
    BY <1>1, <2>1, <2>2, <2>3
<1>4. FormRowsOK'
  BY <1>2, <1>3 DEF FormInv, FormRowsOK, FormTypeOK
<1>5. LeftEmpty' = LeftEmpty
  BY <1>2, EmptyStays
<1>6. QED
  BY <1>2, <1>4, <1>5 DEF FormInv, Accounted, LeftOpen

\* Pass and page alone move.
LEMMA PassMoves ==
  ASSUME FormInv, pass' \in PassRows, page' \in Pages,
         UNCHANGED <<asked, answer, decision, formStatus, notices>>
  PROVE  FormRowsOK'
  BY DEF FormInv, FormRowsOK, FormTypeOK, PassRows, Pages

LEMMA BeginPassKeeps == ASSUME FormInv, BeginPass PROVE FormInv'
<1> DEFINE loaded == [f \in Fields |-> Approved(f)]
<1>1. loaded \in [Fields -> Words]
  <2>1. \A f \in Fields : Approved(f) \in Words
    BY DEF Approved, FormInv, FormRowsOK, FormTypeOK, Answers, Words
  <2>2. QED
    BY <2>1
<1>2. pass.count + 1 \in 0 .. MaxPasses
  BY FormFacts DEF BeginPass, FormInv, FormRowsOK, PassRows
<1> HIDE DEF loaded
<1>3. [Idle EXCEPT !.stage = "fill", !.count = pass.count + 1, !.loaded = loaded] \in PassRows
  BY <1>1, <1>2, RestTypes DEF PassRows
<1>4. PICK p \in PassRows : p = [Idle EXCEPT !.stage = "fill", !.count = pass.count + 1, !.loaded = loaded]
  BY <1>3
<1>5. p.stage = "fill" /\ p.rounds = 0 /\ p.inspected = {}
  BY <1>4, RestTypes DEF PassRows
<1>6. pass' = p /\ page' = Blank /\ formStatus' # "FORM_FILLED"
      /\ UNCHANGED <<asked, answer, decision, formStatus, notices>>
  BY <1>4 DEF BeginPass, loaded
<1>7. FormRowsOK'
  BY <1>6, RestTypes, PassMoves
<1>8. QED
  BY <1>5, <1>6, <1>7, FormFacts DEF FormInv, LeftOpen

LEMMA FillStepKeeps == ASSUME FormInv, FillStep PROVE FormInv'
<1>1. pass \in PassRows /\ page \in Pages /\ pass.stage = "fill" /\ LeftOpen = {}
      /\ pass.rounds < MaxFormSteps
      /\ UNCHANGED <<asked, answer, decision, formStatus, notices>>
  BY DEF FillStep, FormInv, FormRowsOK
<1>2. PICK errors \in BOOLEAN :
       LET filled  == {f \in Shown(page.step, page.entered) : Fillable(f)}
           entered == (page.entered \cup filled) \ (filled \cap LeftEmpty)
           fields  == Shown(page.step, entered)
           result  == [step |-> page.step, fields |-> fields, filled |-> filled, errors |-> errors,
                       blocking |-> Blocking(fields, filled, entered), advanced |-> FALSE]
           stay    == [page EXCEPT !.entered = entered]
       IN  /\ page' \in IF Complete(result) THEN Turned(stay) ELSE {stay}
           /\ pass' = [pass EXCEPT !.stage = "supplement",
                                   !.result = [result EXCEPT !.advanced = Complete(result)],
                                   !.inspected = @ \cup fields]
  BY DEF FillStep
<1> DEFINE filled  == {f \in Shown(page.step, page.entered) : Fillable(f)}
           entered == (page.entered \cup filled) \ (filled \cap LeftEmpty)
           fields  == Shown(page.step, entered)
           result  == [step |-> page.step, fields |-> fields, filled |-> filled, errors |-> errors,
                       blocking |-> Blocking(fields, filled, entered), advanced |-> FALSE]
           stay    == [page EXCEPT !.entered = entered]
<1>3. filled \subseteq Fields /\ fields \subseteq Fields /\ entered \subseteq Fields
      /\ filled \subseteq entered \cup LeftEmpty /\ page.entered \subseteq entered \cup LeftEmpty
      /\ (fields \cap Required) \ (entered \cup LeftEmpty) \subseteq Blocking(fields, filled, entered)
      /\ Blocking(fields, filled, entered) \subseteq Fields
  <2>1. Form[page.step] \subseteq Fields
    BY <1>1, FormFacts DEF Pages
  <2>2. QED
    BY <1>1, <2>1 DEF Shown, Blocking, Pages
<1>4. result \in ResultRows
  <2>1. page.step \in 0 .. Len(Form)
    BY <1>1, FormFacts DEF Pages
  <2> HIDE DEF filled, entered, fields
  <2>2. QED
    BY <1>3, <2>1 DEF ResultRows
<1>5. PICK r \in ResultRows : r = result
  BY <1>4
<1>6. r.step = page.step /\ (fields \cap Required) \ (entered \cup LeftEmpty) \subseteq r.blocking
      /\ r.filled = filled /\ r.fields = fields
  <2> HIDE DEF filled, entered, fields
  <2>1. QED
    BY <1>3, <1>5
<1>7. PICK b \in BOOLEAN : b = Complete(r)
  BY DEF Complete, HasNext
<1>8. PICK s \in Pages : s = stay /\ s.step = page.step /\ s.entered = entered
  <2> HIDE DEF entered
  <2>1. [page EXCEPT !.entered = entered] \in Pages
    BY <1>1, <1>3 DEF Pages
  <2>2. PICK s \in Pages : s = [page EXCEPT !.entered = entered]
    BY <2>1
  <2>3. s.step = page.step /\ s.entered = entered
    BY <1>1, <2>2 DEF Pages
  <2>4. QED
    BY <2>2, <2>3
<1>9. /\ page' \in IF b THEN Turned(s) ELSE {s}
      /\ pass' = [pass EXCEPT !.stage = "supplement", !.result = [r EXCEPT !.advanced = b],
                              !.inspected = pass.inspected \cup fields]
  BY <1>2, <1>5, <1>7, <1>8
<1> HIDE DEF filled, entered, fields, result, stay
<1>10. [r EXCEPT !.advanced = b] \in ResultRows
  BY DEF ResultRows
<1>11. PICK q \in ResultRows : q = [r EXCEPT !.advanced = b]
  BY <1>10
<1>12. q.advanced = b /\ q.blocking = r.blocking /\ q.filled = filled /\ q.step = page.step
  BY <1>6, <1>11 DEF ResultRows
<1>13. [pass EXCEPT !.stage = "supplement", !.result = q, !.inspected = pass.inspected \cup fields]
         \in PassRows
  BY <1>1, <1>3 DEF PassRows
<1>14. PICK p \in PassRows :
         p = [pass EXCEPT !.stage = "supplement", !.result = q, !.inspected = pass.inspected \cup fields]
  BY <1>13
<1>15. pass' = p /\ p.stage = "supplement" /\ p.result = q /\ p.rounds = pass.rounds
       /\ p.inspected = pass.inspected \cup fields /\ LeftEmpty' = LeftEmpty
  BY <1>1, <1>9, <1>11, <1>14, EmptyStays DEF PassRows
<1>16. page' \in Pages /\ page'.entered = entered /\ (~b => page'.step = page.step)
  <2>1. CASE b
    <3>1. Complete(r)
      BY <1>7, <2>1
    <3>2. s.step + 1 \in 1 .. Len(Form)
      BY <1>6, <1>8, <3>1, FormFacts DEF Complete, HasNext, Pages
    <3>3. [s EXCEPT !.step = s.step + 1] \in Pages /\ [s EXCEPT !.step = s.step + 1].entered = s.entered
      BY <3>2 DEF Pages
    <3>4. page' \in {s, [s EXCEPT !.step = s.step + 1]}
      BY <1>9, <2>1 DEF Turned
    <3>5. QED
      BY <1>8, <2>1, <3>3, <3>4
  <2>2. CASE ~b
    BY <1>8, <1>9, <2>2
  <2>3. QED
    BY <2>1, <2>2
<1>17. FormRowsOK'
  BY <1>1, <1>15, <1>16, PassMoves
<1>18. LeftOpen' = (fields \cap Required) \ (entered \cup LeftEmpty)
  <2>1. pass.inspected \cap Required \subseteq entered \cup LeftEmpty
    BY <1>1, <1>3 DEF LeftOpen
  <2>2. QED
    BY <1>15, <1>16, <2>1 DEF LeftOpen
<1>19. Accounted'
  <2>1. b => LeftOpen' = {}
    BY <1>6, <1>7, <1>18 DEF Complete
  <2>2. QED
    BY <1>3, <1>6, <1>12, <1>15, <1>16, <1>18, <2>1 DEF Accounted
<1>20. QED
  BY <1>1, <1>15, <1>17, <1>19 DEF FormInv

LEMMA SupplementKeeps == ASSUME FormInv, Supplement PROVE FormInv'
<1>1. pass \in PassRows /\ page \in Pages /\ pass.stage = "supplement" /\ Accounted
      /\ pass.rounds < MaxFormSteps
      /\ UNCHANGED <<asked, answer, decision, formStatus, notices>>
  BY DEF Supplement, FormInv, FormRowsOK
<1>2. PICK r \in ResultRows : r = pass.result
  BY <1>1 DEF PassRows
<1> DEFINE attached == Attachable(r)
           doubtful == Doubtful(r)
<1>3. attached \subseteq Fields /\ doubtful \subseteq Fields
  BY SupplementsAreShown DEF ResultRows
<1>4. PICK errors \in BOOLEAN :
        pass' = [pass EXCEPT !.stage = "advance", !.result =
          [r EXCEPT !.filled = r.filled \cup attached,
                    !.blocking = (r.blocking \ attached) \cup doubtful, !.errors = errors]]
  <2>1. r.errors \in BOOLEAN
    BY DEF ResultRows
  <2>2. QED
    BY <1>2, <2>1 DEF Supplement
<1>5. page' = [page EXCEPT !.entered = page.entered \cup attached]
  BY <1>2 DEF Supplement
<1> HIDE DEF attached, doubtful
<1>6. [r EXCEPT !.filled = r.filled \cup attached,
                !.blocking = (r.blocking \ attached) \cup doubtful, !.errors = errors] \in ResultRows
  BY <1>3 DEF ResultRows
<1>7. PICK q \in ResultRows :
        q = [r EXCEPT !.filled = r.filled \cup attached,
                      !.blocking = (r.blocking \ attached) \cup doubtful, !.errors = errors]
  BY <1>6
<1>8. q.filled = r.filled \cup attached /\ q.blocking = (r.blocking \ attached) \cup doubtful
      /\ q.advanced = r.advanced /\ q.step = r.step
  BY <1>7 DEF ResultRows
<1>9. [pass EXCEPT !.stage = "advance", !.result = q] \in PassRows
  BY <1>1 DEF PassRows
<1>10. PICK p \in PassRows : p = [pass EXCEPT !.stage = "advance", !.result = q]
  BY <1>9
<1>11. pass' = p /\ p.stage = "advance" /\ p.result = q /\ p.rounds = pass.rounds
       /\ p.inspected = pass.inspected /\ LeftEmpty' = LeftEmpty
  BY <1>1, <1>4, <1>7, <1>10, EmptyStays DEF PassRows
<1>12. page' \in Pages /\ page'.entered = page.entered \cup attached /\ page'.step = page.step
  BY <1>1, <1>3, <1>5 DEF Pages
<1>13. FormRowsOK'
  BY <1>1, <1>11, <1>12, PassMoves
<1>14. LeftOpen' = LeftOpen \ attached
  BY <1>11, <1>12 DEF LeftOpen
<1>15. Accounted'
  BY <1>1, <1>2, <1>8, <1>11, <1>12, <1>14 DEF Accounted
<1>16. QED
  BY <1>1, <1>11, <1>13, <1>15 DEF FormInv

LEMMA AdvanceKeeps == ASSUME FormInv, AdvanceIfComplete PROVE FormInv'
<1>1. pass \in PassRows /\ page \in Pages /\ pass.stage = "advance" /\ Accounted
      /\ pass.rounds < MaxFormSteps
      /\ UNCHANGED <<asked, answer, decision, formStatus, notices>>
  BY DEF AdvanceIfComplete, FormInv, FormRowsOK
<1>2. PICK r \in ResultRows : r = pass.result
  BY <1>1 DEF PassRows
<1>3. PICK turn \in BOOLEAN : turn = (~r.advanced /\ Complete(r))
  OBVIOUS
<1>4. /\ page' \in IF turn THEN Turned(page) ELSE {page}
      /\ pass' = [pass EXCEPT !.stage = "decide", !.rounds = pass.rounds + 1,
                              !.result.advanced = r.advanced \/ turn]
  BY <1>2, <1>3 DEF AdvanceIfComplete
<1>5. PICK b \in BOOLEAN : b = (r.advanced \/ turn)
  OBVIOUS
<1>6. [r EXCEPT !.advanced = b] \in ResultRows
  BY DEF ResultRows
<1>7. PICK q \in ResultRows : q = [r EXCEPT !.advanced = b]
  BY <1>6
<1>8. q.advanced = b /\ q.blocking = r.blocking /\ q.filled = r.filled /\ q.step = r.step
  BY <1>7 DEF ResultRows
<1>9. pass.rounds + 1 \in 0 .. MaxFormSteps
  BY <1>1, FormFacts DEF PassRows
<1>10. [pass EXCEPT !.stage = "decide", !.rounds = pass.rounds + 1, !.result = q] \in PassRows
  BY <1>1, <1>9 DEF PassRows
<1>11. PICK p \in PassRows :
         p = [pass EXCEPT !.stage = "decide", !.rounds = pass.rounds + 1, !.result = q]
  BY <1>10
<1>12. p.stage = "decide" /\ p.result = q /\ p.inspected = pass.inspected
  BY <1>1, <1>11 DEF PassRows
<1>13. pass' = p
  <2>1. [pass EXCEPT !.stage = "decide", !.rounds = pass.rounds + 1, !.result.advanced = b] = p
    BY <1>1, <1>2, <1>7, <1>11 DEF PassRows
  <2>2. QED
    BY <1>4, <1>5, <2>1
<1>14. page' \in Pages /\ page'.entered = page.entered /\ (~turn => page' = page)
  <2>1. CASE turn
    <3>1. Complete(r) /\ page.step = r.step
      BY <1>1, <1>2, <1>3, <2>1 DEF Accounted
    <3>2. page.step + 1 \in 1 .. Len(Form)
      BY <1>1, <3>1, FormFacts DEF Complete, HasNext, Pages
    <3>3. /\ [page EXCEPT !.step = page.step + 1] \in Pages
          /\ [page EXCEPT !.step = page.step + 1].entered = page.entered
      BY <1>1, <3>2 DEF Pages
    <3>4. page' \in {page, [page EXCEPT !.step = page.step + 1]}
      BY <1>4, <2>1 DEF Turned
    <3>5. QED
      BY <1>1, <2>1, <3>3, <3>4
  <2>2. CASE ~turn
    BY <1>1, <1>4, <2>2
  <2>3. QED
    BY <2>1, <2>2
<1>15. FormRowsOK'
  BY <1>1, <1>13, <1>14, PassMoves
<1>16. LeftOpen' = LeftOpen /\ LeftEmpty' = LeftEmpty
  <2>1. p.loaded = pass.loaded
    BY <1>1, <1>11 DEF PassRows
  <2>2. LeftEmpty' = LeftEmpty
    BY <1>13, <2>1, EmptyStays
  <2>3. QED
    BY <1>12, <1>13, <1>14, <2>2 DEF LeftOpen
<1>17. turn => LeftOpen = {}
  BY <1>1, <1>2, <1>3 DEF Complete, Accounted
<1>18. Accounted'
  <2>1. q.advanced => LeftOpen = {}
    BY <1>1, <1>2, <1>5, <1>8, <1>17 DEF Accounted
  <2>2. ~q.advanced => ~r.advanced /\ ~turn
    BY <1>5, <1>8
  <2>3. ~q.advanced => page' = page /\ page.step = q.step
    BY <1>1, <1>2, <1>8, <1>14, <2>2 DEF Accounted
  <2>4. LeftOpen \subseteq q.blocking /\ q.filled \subseteq page.entered \cup LeftEmpty
    BY <1>1, <1>2, <1>8 DEF Accounted
  <2>5. QED
    BY <1>12, <1>13, <1>14, <1>16, <2>1, <2>3, <2>4 DEF Accounted
<1>19. QED
  BY <1>1, <1>12, <1>13, <1>15, <1>18 DEF FormInv

\* The next step is taken, or the last one concluded, with the page as it is.
LEMMA DecideKeeps == ASSUME FormInv, TakeNextStep \/ StopAtStep PROVE FormInv'
<1>1. pass \in PassRows /\ page \in Pages /\ pass.stage = "decide" /\ Accounted
      /\ UNCHANGED <<asked, answer, decision, formStatus, notices, page>>
      /\ formStatus # "FORM_FILLED"
  BY DEF TakeNextStep, StopAtStep, FormInv, FormRowsOK
<1>2. PICK onward \in {"fill", "conclude"} :
        /\ pass' = [pass EXCEPT !.stage = onward]
        /\ onward = "fill" => pass.result.advanced /\ pass.rounds < MaxFormSteps
  BY DEF TakeNextStep, StopAtStep
<1>3. [pass EXCEPT !.stage = onward] \in PassRows
  BY <1>1 DEF PassRows
<1>4. PICK p \in PassRows : p = [pass EXCEPT !.stage = onward]
  BY <1>3
<1>5. pass' = p /\ p.stage = onward /\ p.result = pass.result /\ p.inspected = pass.inspected
      /\ p.rounds = pass.rounds /\ LeftEmpty' = LeftEmpty
  BY <1>1, <1>2, <1>4, EmptyStays DEF PassRows
<1>6. FormRowsOK'
  BY <1>1, <1>5, PassMoves
<1>7. LeftOpen' = LeftOpen /\ Accounted'
  BY <1>1, <1>5 DEF LeftOpen, Accounted
<1>8. onward = "fill" => LeftOpen = {}
  BY <1>1, <1>2 DEF Accounted
<1>9. QED
  BY <1>1, <1>2, <1>5, <1>6, <1>7, <1>8 DEF FormInv

\* The answers of one step are recorded; the pass and its page stay as they are.
LEMMA PersistStepKeeps == ASSUME FormInv, PersistStep PROVE FormInv'
<1>1. pass \in PassRows /\ page \in Pages /\ pass.stage = "conclude" /\ Accounted
      /\ UNCHANGED <<decision, formStatus, notices, page>> /\ asked \subseteq Fields
      /\ answer \in [Fields -> Answers] /\ formStatus # "FORM_FILLED"
  BY DEF PersistStep, FormInv, FormRowsOK, FormTypeOK
<1>2. pass.saved + 1 \in 0 .. Len(Form) /\ pass.inspected \subseteq Fields
  BY <1>1, FormFacts DEF PersistStep, PassRows, ResultRows
<1> DEFINE fields == pass.inspected \cap Form[pass.saved + 1]
           derived == fields \cap Derived
<1>3. /\ fields \subseteq Fields /\ asked' = asked \cup fields
      /\ \A f \in derived : Persisted(f).version <= MaxVersion
      /\ answer' = [f \in Fields |-> IF f \in derived THEN Persisted(f) ELSE answer[f]]
  BY <1>2 DEF PersistStep
<1> HIDE DEF fields, derived
<1>4. answer' \in [Fields -> Answers]
  <2>1. ASSUME NEW f \in Fields, Persisted(f).version <= MaxVersion PROVE Persisted(f) \in Answers
    <3>1. CASE Persisted(f) = answer[f]
      BY <1>1, <3>1
    <3>2. ASSUME NEW v \in {"profile", "letter"},
                 Persisted(f) = [version |-> answer[f].version + 1, value |-> v, approved |-> TRUE,
                                 reviewed |-> v]
          PROVE  Persisted(f) \in Answers
      <4>1. answer[f].version + 1 \in 0 .. MaxVersion
        BY <1>1, <2>1, <3>2, FormFacts DEF Answers
      <4>2. QED
        BY <3>2, <4>1 DEF Answers
    <3>3. QED
      BY <3>1, <3>2 DEF Persisted
  <2>2. QED
    BY <1>1, <1>3, <2>1
<1>5. [pass EXCEPT !.saved = pass.saved + 1] \in PassRows
  BY <1>1, <1>2 DEF PassRows
<1>6. PICK p \in PassRows : p = [pass EXCEPT !.saved = pass.saved + 1]
  BY <1>5
<1>7. /\ pass' = p /\ p.stage = pass.stage /\ p.result = pass.result /\ p.inspected = pass.inspected
      /\ p.loaded = pass.loaded
  BY <1>1, <1>6 DEF PersistStep, PassRows
<1>8. FormRowsOK'
  BY <1>1, <1>3, <1>4, <1>7 DEF FormInv, FormRowsOK, FormTypeOK, PassRows, Pages
<1>9. LeftEmpty' = LeftEmpty
  BY <1>7, EmptyStays
<1>10. QED
  BY <1>1, <1>7, <1>8, <1>9 DEF FormInv, Accounted, LeftOpen

\* A pass is over, with or without an outcome.
LEMMA ConcludeKeeps == ASSUME FormInv, Conclude PROVE FormInv'
<1>1. pass \in PassRows /\ page \in Pages /\ pass.stage = "conclude" /\ Accounted
      /\ UNCHANGED <<asked, answer, decision, page>> /\ formStatus # "FORM_FILLED"
  BY DEF Conclude, FormInv, FormRowsOK
<1>2. /\ pass.inspected \subseteq Fields /\ pass.count \in 0 .. MaxPasses
      /\ pass.loaded \in [Fields -> Words]
  BY <1>1 DEF PassRows
<1>3. /\ pass' \in PassRows /\ pass'.stage = "idle" /\ pass'.inspected = pass.inspected
      /\ pass'.loaded = pass.loaded
  BY <1>2, RestTypes DEF Conclude, PassRows
<1>4. LeftEmpty' = LeftEmpty
  BY <1>3, EmptyStays
<1>5. /\ notices' \subseteq {"review", "verification"}
      /\ formStatus' \in {"APPLICATION_STARTED", "FORM_FILLED"}
  BY DEF Conclude, FormInv, FormRowsOK, FormTypeOK
<1>6. FormRowsOK'
  BY <1>1, <1>3, <1>4, <1>5 DEF FormInv, FormRowsOK, FormTypeOK, PassRows, Pages
<1>7. formStatus' = "FORM_FILLED" => LeftOpen = {}
  BY <1>1, NothingOpen DEF Conclude
<1>8. LeftOpen' = LeftOpen
  BY <1>1, <1>3, <1>4 DEF LeftOpen
<1>9. QED
  BY <1>3, <1>4, <1>6, <1>7, <1>8 DEF FormInv

LEMMA PassFailsKeeps == ASSUME FormInv, PassFails PROVE FormInv'
<1>1. pass \in PassRows /\ page \in Pages /\ formStatus # "FORM_FILLED"
      /\ UNCHANGED <<asked, answer, decision, formStatus, notices, page>>
  BY DEF PassFails, FormInv, FormRowsOK
<1>2. pass' = [Idle EXCEPT !.count = pass.count] /\ pass.count \in 0 .. MaxPasses
  BY <1>1 DEF PassFails, PassRows
<1>3. pass' \in PassRows /\ pass'.stage = "idle"
  BY <1>2, RestTypes DEF PassRows
<1>4. FormRowsOK'
  BY <1>1, <1>3, PassMoves
<1>5. QED
  BY <1>1, <1>3, <1>4 DEF FormInv

LEMMA FormStep == FormInv /\ [FormNext]_formVars => FormInv'
<1>1. SUFFICES ASSUME FormInv, [FormNext]_formVars PROVE FormInv'
  OBVIOUS
<1>2. CASE UNCHANGED formVars
  <2>1. LeftEmpty' = LeftEmpty
    BY <1>2, EmptyStays DEF formVars
  <2>2. QED
    BY <1>1, <1>2, <2>1 DEF formVars, FormInv, FormRowsOK, FormTypeOK, Accounted, LeftOpen
<1>3. QED
  BY <1>1, <1>2, OwnerEdits, BeginPassKeeps, FillStepKeeps, SupplementKeeps, AdvanceKeeps,
     DecideKeeps, PersistStepKeeps, ConcludeKeeps, PassFailsKeeps DEF FormNext, FormPassStep

\* A pass, its page and the result of its last step fit together, whatever the page shows and
\* the owner edits.
THEOREM FormInvariant == FormSpec => []FormInv
<1>1. QED
  BY FormInitially, FormStep, PTL DEF FormSpec

\* ProviderApplicationService records a form as filled only when every required control it saw
\* has a value on the page, or is one that the approved answer it was given leaves without
\* one, for any form and any answers.
THEOREM FilledFormsAreComplete == FormSpec => []FilledLeavesNothingRequired
<1>1. FormInv => FilledLeavesNothingRequired
  BY DEF FormInv, FilledLeavesNothingRequired, LeftOpen
<1>2. QED
  BY <1>1, FormInvariant, PTL

=============================================================================
