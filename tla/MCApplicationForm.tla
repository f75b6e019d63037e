------------------------- MODULE MCApplicationForm -------------------------
(* Small instances of ApplicationForm for TLC. *)
EXTENDS ApplicationForm, TLC

CONSTANTS email, salary, cv, note, code, agree, widget

\* Three steps.  A profile field whose value reveals the resume upload, and a box whose
\* tick reveals a control no adapter can fill; a cover letter and an optional verification
\* code; a salary to choose.
ThreeSteps == <<{email, cv, agree, widget}, {note, code}, {salary}>>

KindOf == (email :> "TEXT") @@ (salary :> "SELECT") @@ (cv :> "FILE") @@ (note :> "TEXTAREA")
          @@ (code :> "TEXT") @@ (agree :> "CHECKBOX") @@ (widget :> "WIDGET")

TopicOf == (email :> "profile") @@ (salary :> "highRisk") @@ (cv :> "resume")
           @@ (note :> "coverLetter") @@ (code :> "verification") @@ (agree :> "other")
           @@ (widget :> "other")

Reveals == [f \in Fields |-> CASE f = cv -> {email} [] f = widget -> {agree} [] OTHER -> {}]

\* An option, one nobody offers, a tick and its absence, and a list of no options.
SortOfValue == [v \in Values |-> CASE v = "yes" -> "true" [] v = "no" -> "false"
                                   [] v = "nothing" -> "none" [] OTHER -> "text"]
=============================================================================
