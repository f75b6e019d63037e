--------------------------- MODULE ApplicationForm ---------------------------
(***************************************************************************)
(* A provider's application form, filled by ProviderApplicationService     *)
(* (services/greenhouse-application.ts) with the form adapter of           *)
(* packages/job-engine/src/form-intelligence.ts, while the owner edits and *)
(* approves answers (services/application-answers.ts).                     *)
(*                                                                         *)
(* The provider's page is external: it shows a form of several steps, may  *)
(* report validation errors at any time, may ignore a click on Next, and   *)
(* may show some controls only once another has a value.  A pass is one    *)
(* attempt of the form job: it loads the approved answers once, opens a    *)
(* page of its own, and takes the steps of the form one by one.            *)
(***************************************************************************)
EXTENDS Naturals, Sequences, FiniteSets

CONSTANTS
  Fields,        \* the controls of the form, each with its question identity
  Kind,          \* [Fields -> ControlKinds]
  Topic,         \* [Fields -> Topics], the first pattern the label matches
  Required,      \* the fields marked as required
  RevealedBy,    \* [Fields -> SUBSET Fields]: shown only once these have values
  Form,          \* the steps: a sequence of sets of fields
  Values,        \* the values an answer may have
  Sort,          \* [Values -> Sorts]
  Offered,       \* the values all of whose options the choice controls offer
  Profiled,      \* the fields the owner's profile has a value for
  Stored,        \* what is on file: subset of {"resume", "coverFile", "coverText"}
  MaxFormSteps,  \* maxFormSteps
  MaxPasses,     \* attempts explored: prepared jobs times their attempts
  MaxVersion,    \* bound on the versions of one answer
  Edited,        \* the questions whose answers the owner edits
  NoValue

\* WIDGET is a kind the adapter does not know; a disabled control counts as hidden.
ControlKinds  == {"TEXT", "TEXTAREA", "SELECT", "MULTISELECT", "COMBOBOX", "RADIO", "CHECKBOX",
                  "FILE", "HIDDEN", "WIDGET"}
Topics == {"verification", "hostile", "sensitive", "highRisk", "coverLetter",
           "resume", "profile", "other"}

\* What an answer is: a text or one of nothing but white space, a boolean, a list of one
\* option, of several or of none.  An empty string counts as no answer.
Sorts == {"text", "blank", "true", "false", "single", "list", "none"}

ASSUME FormAssumption ==
  /\ Kind \in [Fields -> ControlKinds] /\ Topic \in [Fields -> Topics]
  /\ Required \subseteq Fields /\ RevealedBy \in [Fields -> SUBSET Fields]
  /\ Form \in Seq(SUBSET Fields) /\ Form # << >>
  /\ Stored \subseteq {"resume", "coverFile", "coverText"}
  /\ Edited \subseteq Fields /\ Profiled \subseteq Fields /\ Sort \in [Values -> Sorts]
  /\ Offered \subseteq Values \cup {"profile"} /\ {v \in Values : Sort[v] = "none"} \subseteq Offered
  /\ Values \cap {NoValue, "profile", "letter"} = {} /\ NoValue # "profile"
  /\ {MaxFormSteps, MaxPasses, MaxVersion} \subseteq Nat \ {0}

VARIABLES
  asked,         \* the fields with an application_questions row
  answer,        \* the application_answers rows
  decision,      \* the approval or rejection of each answer under way
  formStatus,    \* the application: "APPLICATION_STARTED" or "FORM_FILLED"
  notices,       \* what the owner was asked for
  page,          \* the pass's browser page: its step and the fields with a value
  pass           \* the attempt under way

formVars == <<asked, answer, decision, formStatus, notices, page, pass>>

NoAnswer   == [version |-> 0, value |-> NoValue, approved |-> FALSE, reviewed |-> NoValue]
NoDecision == [version |-> 0, value |-> NoValue, approve |-> FALSE]
Answers    == [version : 0 .. MaxVersion, value : Values \cup {NoValue, "profile", "letter"},
               approved : BOOLEAN, reviewed : Values \cup {NoValue, "profile", "letter"}]

NoResult == [step |-> 0, fields |-> {}, filled |-> {}, blocking |-> {},
             errors |-> FALSE, advanced |-> FALSE]
Idle     == [stage |-> "idle", count |-> 0, rounds |-> 0, loaded |-> [f \in Fields |-> NoValue],
             result |-> NoResult, inspected |-> {}, saved |-> 0]
Blank    == [step |-> 1, entered |-> {}]

FormTypeOK ==
  /\ asked \subseteq Fields /\ answer \in [Fields -> Answers]
  /\ DOMAIN decision = Fields
  /\ formStatus \in {"APPLICATION_STARTED", "FORM_FILLED"}
  /\ notices \subseteq {"review", "verification"}
  /\ page.step \in 1 .. Len(Form) /\ page.entered \subseteq Fields
  /\ pass.stage \in {"idle", "fill", "supplement", "advance", "decide", "conclude"}
  /\ pass.count \in 0 .. MaxPasses /\ pass.rounds \in 0 .. MaxFormSteps
  /\ pass.saved \in 0 .. Len(Form)

FormInit ==
  /\ asked = {}
  /\ answer = [f \in Fields |-> NoAnswer]
  /\ decision = [f \in Fields |-> NoDecision]
  /\ formStatus = "APPLICATION_STARTED"
  /\ notices = {}
  /\ page = Blank
  /\ pass = Idle

-----------------------------------------------------------------------------
(* The rules of the form, one operator each *)

\* assessApplicationFormField: its tests in the order of the code.
Disposition(f) ==
  IF Kind[f] = "WIDGET" THEN "UNSUPPORTED"
  ELSE IF Topic[f] = "verification" THEN "HUMAN_VERIFICATION_REQUIRED"
  ELSE IF Kind[f] \in {"FILE", "HIDDEN"} \/ Topic[f] = "hostile" THEN "UNSUPPORTED"
  ELSE IF Topic[f] = "sensitive" THEN "SENSITIVE"
  ELSE IF Topic[f] = "highRisk" THEN "HIGH_RISK"
  ELSE IF Topic[f] = "profile" THEN "PROFILE_DERIVED"
  ELSE IF Topic[f] = "other" /\ Kind[f] = "CHECKBOX" /\ f \notin Required THEN "SAFE"
  ELSE "AMBIGUOUS"

\* What the load keeps of the answers: those isReviewedApplicationAnswer accepts, without
\* the references to the profile and the cover letter.
Approved(f) == IF answer[f].approved /\ answer[f].value \in Values THEN answer[f].value ELSE NoValue

\* approvedAnswerResolver.resolve.
Resolved(f) ==
  CASE Disposition(f) \in {"UNSUPPORTED", "HUMAN_VERIFICATION_REQUIRED"} -> NoValue
    [] Disposition(f) = "PROFILE_DERIVED" -> IF f \in Profiled THEN "profile" ELSE NoValue
    [] OTHER -> pass.loaded[f]

SortOf(v) == IF v = "profile" THEN "text" ELSE Sort[v]

\* The adapter enters only a value that suits the control, and chooses only what it offers.
Suits(v, kind) ==
  \/ kind \in {"TEXT", "TEXTAREA"} /\ SortOf(v) \in {"text", "blank"}
  \/ kind = "CHECKBOX" /\ SortOf(v) \in {"true", "false"}
  \/ /\ v \in Offered
     /\ \/ kind = "RADIO" /\ SortOf(v) = "text"
        \/ kind = "COMBOBOX" /\ SortOf(v) \in {"text", "single"}
        \/ kind \in {"SELECT", "MULTISELECT"} /\ SortOf(v) \in {"text", "single", "list", "none"}

\* The controls that get a value, and are listed as filled whatever the value is.
Fillable(f) == Resolved(f) # NoValue /\ Suits(Resolved(f), Kind[f])

\* Those whose value leaves them without one: a box is not ticked, nothing is chosen, a
\* text is blank (hasUsableCurrentValue).
LeftEmpty == {f \in Fields : Fillable(f) /\ SortOf(Resolved(f)) \in {"false", "none", "blank"}}

\* The controls the page shows at a step once some have values.
Shown(step, entered) == {f \in Form[step] : RevealedBy[f] \subseteq entered}

HasNext(r) == r.step < Len(Form)

\* The fields that keep a step from being left.
Blocking(fields, filled, entered) == (fields \cap Required) \ (filled \cup entered)

\* stepIsComplete.
Complete(r) == HasNext(r) /\ ~r.errors /\ r.blocking = {}

\* fillApprovedResumeDocument, fillApprovedCoverLetterDocument, fillSupplementaryText:
\* exactly one control may take the stored document or text.
Supplements(r) ==
  [resume    |-> {f \in r.fields : Kind[f] = "FILE" /\ Topic[f] = "resume"},
   coverFile |-> {f \in r.fields : Kind[f] = "FILE" /\ Topic[f] = "coverLetter"},
   coverText |-> {f \in r.fields : Kind[f] = "TEXTAREA" /\ Topic[f] = "coverLetter"}]

Doubtful(r)    == UNION {Supplements(r)[s] : s \in {t \in Stored : Cardinality(Supplements(r)[t]) > 1}}
Attachable(r)  == UNION {Supplements(r)[s] : s \in {t \in Stored : Cardinality(Supplements(r)[t]) = 1}}

\* Variant: fields nobody may judge need no review.
NeedsReviewOfJudgement(r) ==
  r.errors \/ \E f \in r.fields \ r.filled : Disposition(f) \in {"AMBIGUOUS", "SENSITIVE", "HIGH_RISK"}

\* needsReview: errors, required fields, and judgement fields left open.
NeedsReview(r) ==
  \/ r.errors
  \/ r.blocking \ (IF "coverText" \in Stored THEN Supplements(r).coverText ELSE {}) # {}
  \/ \E f \in r.fields \ r.filled : Disposition(f) \in {"AMBIGUOUS", "SENSITIVE", "HIGH_RISK"}

Unverified(r) == \E f \in r.fields \ r.filled : Disposition(f) = "HUMAN_VERIFICATION_REQUIRED"

\* The page after a click on Next, which it may ignore.
Turned(p) == {p, [p EXCEPT !.step = @ + 1]}

-----------------------------------------------------------------------------
(* The owner *)

\* saveApplicationAnswerDraft: an edit makes the row unapproved.
SaveDraft(f, v) ==
  /\ f \in asked /\ answer[f].version < MaxVersion
  /\ answer' = [answer EXCEPT ![f] =
       [version |-> @.version + 1, value |-> v, approved |-> FALSE, reviewed |-> NoValue]]
  /\ UNCHANGED <<asked, decision, formStatus, notices, page, pass>>

\* decideApplicationAnswer reads the row, and with it the version the owner expects.
ReadAnswer(f, approve) ==
  /\ decision[f] = NoDecision
  /\ answer[f].version > 0
  /\ approve \/ ~answer[f].approved
  /\ decision' = [decision EXCEPT ![f] =
       [version |-> answer[f].version, value |-> answer[f].value, approve |-> approve]]
  /\ UNCHANGED <<asked, answer, formStatus, notices, page, pass>>

\* ... and updates or deletes the row it finds under that id, whatever became of it.
CommitDecision(f) ==
  /\ decision[f] # NoDecision
  /\ answer[f].version < MaxVersion
  /\ answer' = [answer EXCEPT ![f] =
       IF @ = NoAnswer \/ ~decision[f].approve THEN NoAnswer
       ELSE [answer[f] EXCEPT !.version = @ + 1, !.approved = TRUE, !.reviewed = decision[f].value]]
  /\ decision' = [decision EXCEPT ![f] = NoDecision]
  /\ UNCHANGED <<asked, formStatus, notices, page, pass>>

-----------------------------------------------------------------------------
(* The worker *)

\* loadPreparedApplication and the start of a browser session: an application whose form
\* is filled is left alone.
BeginPass ==
  /\ pass.stage = "idle" /\ pass.count < MaxPasses
  /\ formStatus = "APPLICATION_STARTED"
  /\ pass' = [Idle EXCEPT !.stage = "fill", !.count = pass.count + 1,
                          !.loaded = [f \in Fields |-> Approved(f)]]
  /\ page' = Blank
  /\ UNCHANGED <<asked, answer, decision, formStatus, notices>>

\* ApplicationFormAdapter.fillCurrentStep: fill what the first snapshot shows, look again,
\* and leave the step if nothing blocks it.
FillStep ==
  /\ pass.stage = "fill"
  /\ \E errors \in BOOLEAN :
       LET filled  == {f \in Shown(page.step, page.entered) : Fillable(f)}
           entered == (page.entered \cup filled) \ (filled \cap LeftEmpty)
           fields  == Shown(page.step, entered)
           result  == [step |-> page.step, fields |-> fields, filled |-> filled, errors |-> errors,
                       blocking |-> Blocking(fields, filled, entered), advanced |-> FALSE]
           stay    == [page EXCEPT !.entered = entered]
       IN  /\ page' \in IF Complete(result) THEN Turned(stay) ELSE {stay}
           /\ pass' = [pass EXCEPT !.stage = "supplement",
                                   !.result = [result EXCEPT !.advanced = Complete(result)],
                                   !.inspected = @ \cup fields]
  /\ UNCHANGED <<asked, answer, decision, formStatus, notices>>

\* The stored documents and the cover letter are put in the controls of the step that was
\* filled; they are validated again, but the step is not looked at again.
Supplement ==
  /\ pass.stage = "supplement"
  /\ Attachable(pass.result) # {} => page.step = pass.result.step
  /\ \E errors \in IF Attachable(pass.result) = {} THEN {pass.result.errors} ELSE BOOLEAN :
       pass' = [pass EXCEPT !.stage = "advance", !.result =
         [pass.result EXCEPT !.filled   = @ \cup Attachable(pass.result),
                             !.blocking = (@ \ Attachable(pass.result)) \cup Doubtful(pass.result),
                             !.errors   = errors]]
  /\ page' = [page EXCEPT !.entered = @ \cup Attachable(pass.result)]
  /\ UNCHANGED <<asked, answer, decision, formStatus, notices>>

\* advanceStepIfComplete.
AdvanceIfComplete ==
  /\ pass.stage = "advance"
  /\ LET turn == ~pass.result.advanced /\ Complete(pass.result)
     IN  /\ page' \in IF turn THEN Turned(page) ELSE {page}
         /\ pass' = [pass EXCEPT !.stage = "decide", !.rounds = @ + 1,
                                 !.result.advanced = @ \/ turn]
  /\ UNCHANGED <<asked, answer, decision, formStatus, notices>>

\* The loop goes on to the next step only after a step that was left with nothing open.
TakeNextStep ==
  /\ pass.stage = "decide"
  /\ HasNext(pass.result) /\ ~NeedsReview(pass.result) /\ pass.result.advanced
  /\ pass.rounds < MaxFormSteps
  /\ pass' = [pass EXCEPT !.stage = "fill"]
  /\ UNCHANGED <<asked, answer, decision, formStatus, notices, page>>

\* The last result of the loop; more steps than the limit is an error.
StopAtStep ==
  /\ pass.stage = "decide"
  /\ ~HasNext(pass.result) \/ NeedsReview(pass.result) \/ ~pass.result.advanced
  /\ ~(/\ HasNext(pass.result) /\ pass.rounds = MaxFormSteps
       /\ pass.result.advanced \/ ~NeedsReview(pass.result))
  /\ pass' = [pass EXCEPT !.stage = "conclude"]
  /\ UNCHANGED <<asked, answer, decision, formStatus, notices, page>>

\* Answers taken from the profile and the cover letter are recorded as approved by the owner.
Persisted(f) ==
  LET v == IF Disposition(f) = "PROFILE_DERIVED" THEN "profile" ELSE "letter"
  IN  IF answer[f].approved /\ answer[f].value = v THEN answer[f]
      ELSE [version |-> answer[f].version + 1, value |-> v, approved |-> TRUE, reviewed |-> v]

Derived == {f \in pass.inspected \cap page.entered :
              \/ Disposition(f) = "PROFILE_DERIVED"
              \/ "coverText" \in Stored /\ Kind[f] = "TEXTAREA" /\ Topic[f] = "coverLetter"}

\* persistFormResult of the next step, a transaction of its own.
PersistStep ==
  /\ pass.stage = "conclude" /\ pass.saved < pass.result.step
  /\ LET fields  == pass.inspected \cap Form[pass.saved + 1]
         derived == fields \cap Derived
     IN  /\ \A f \in derived : Persisted(f).version <= MaxVersion
         /\ asked' = asked \cup fields
         /\ answer' = [f \in Fields |-> IF f \in derived THEN Persisted(f) ELSE answer[f]]
  /\ pass' = [pass EXCEPT !.saved = @ + 1]
  /\ UNCHANGED <<decision, formStatus, notices, page>>

\* The outcome, once every step is recorded: requestHumanVerification, recordReviewRequired
\* or markFormFilled.  What the pass read and saw is kept (history).
Conclude ==
  /\ pass.stage = "conclude" /\ pass.saved = pass.result.step
  /\ formStatus' = IF Unverified(pass.result) \/ NeedsReview(pass.result)
                   THEN formStatus ELSE "FORM_FILLED"
  /\ notices' = notices \cup
       (CASE Unverified(pass.result)  -> {"verification"}
          [] ~Unverified(pass.result) /\ NeedsReview(pass.result) -> {"review"}
          [] OTHER -> {})
  /\ pass' = [Idle EXCEPT !.count = pass.count, !.inspected = pass.inspected, !.loaded = pass.loaded]
  /\ UNCHANGED <<asked, answer, decision, page>>

\* An error of the page, of the storage or of the database, or the end of the worker: the
\* session is closed and the job may be tried again.
PassFails ==
  /\ pass.stage # "idle"
  /\ pass' = [Idle EXCEPT !.count = pass.count]
  /\ UNCHANGED <<asked, answer, decision, formStatus, notices, page>>

FormPassStep == FillStep \/ Supplement \/ AdvanceIfComplete \/ TakeNextStep \/ StopAtStep
                \/ PersistStep \/ Conclude \/ PassFails

FormNext ==
  \/ \E f \in Edited : \/ \E v \in Values : SaveDraft(f, v)
                       \/ \E approve \in BOOLEAN : ReadAnswer(f, approve)
                       \/ CommitDecision(f)
  \/ BeginPass
  \/ FormPassStep

FormSpec == FormInit /\ [][FormNext]_formVars

-----------------------------------------------------------------------------
(* Properties *)

\* A form is recorded as filled only when every required control the pass saw has a value
\* on the page, whoever entered it (the adapter, the document upload, the cover letter), or
\* is empty because the approved answer it was given leaves it empty.  What was revealed
\* late, could not be judged, or got no suitable value keeps the form open.
FilledLeavesNothingRequired ==
  formStatus = "FORM_FILLED" /\ pass.stage = "idle"
    => pass.inspected \cap Required \subseteq page.entered \cup LeftEmpty

\* The value of an approved answer is the value the owner approved.
ApprovedAnswersWereReviewed ==
  \A f \in Fields : answer[f].approved => answer[f].value = answer[f].reviewed
=============================================================================
