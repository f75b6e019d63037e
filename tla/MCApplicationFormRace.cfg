SPECIFICATION FormSpec
CONSTANTS
    email = email
    salary = salary
    cv = cv
    note = note
    code = code
    agree = agree
    widget = widget
    Fields = {email, salary, cv, note, code, agree, widget}
    Kind <- KindOf
    Topic <- TopicOf
    Required = {email, cv, note, widget}
    RevealedBy <- Reveals
    Form <- ThreeSteps
    Values = {"a", "b"}
    Sort <- SortOfValue
    Offered = {"a"}
    Profiled = {email}
    Stored = {"resume", "coverText"}
    MaxFormSteps = 3
    MaxPasses = 2
    MaxVersion = 3
    Edited = {salary}
    NoValue = NoValue
INVARIANT ApprovedAnswersWereReviewed
CHECK_DEADLOCK FALSE
