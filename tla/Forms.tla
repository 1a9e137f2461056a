------------------------------- MODULE Forms -------------------------------
(***************************************************************************)
(* One page with a form, for registration or login: initRegister and       *)
(* initLogin of web/static/js/auth.js over the inputs of the two pages in  *)
(* web/templates/html.  The handlers run to completion up to the await of  *)
(* the answer, so a step is one event.  Both forms are "novalidate": what  *)
(* the browser could check, it does not.  The server is the answers that   *)
(* the handlers of internal/handlers/handlers.go can give.                 *)
(***************************************************************************)
EXTENDS FiniteSets

CONSTANTS
    Form,    \* "register" or "login"
    Texts,   \* what may be typed, besides nothing and white space
    Short,   \* those of Texts with less than six characters
    Empty,   \* no text
    Spaces   \* a text of white space only

ASSUME FormAssumption == Form \in {"register", "login"}
ASSUME TextsAssumption ==
    /\ Short \subseteq Texts
    /\ Empty \notin Texts /\ Spaces \notin Texts /\ Empty # Spaces

VARIABLES
    value,    \* value[i]: the text in an input
    box,      \* the checkbox: "ticked" or "clear"
    mark,     \* mark[i]: "is-valid", "is-invalid" or "none"
    error,    \* why the error is shown: "mismatch", "email", "refused", "failed" or "none"
    success,  \* the message that the account was created: "shown" or "hidden"
    button,   \* the submit button: "enabled" or "disabled"
    sent,     \* the request that is under way, or NoRequest
    timer,    \* the setTimeout that will navigate: "set" or "none"
    page      \* "here", or "left" for the page that follows

formVars == <<value, box, mark, error>>
vars == <<formVars, success, button, sent, timer, page>>

TextInputs == IF Form = "register" THEN {"username", "email", "password", "confirm"}
                                   ELSE {"email", "password"}
Checkbox == "checkbox"  \* agreeTerms or rememberMe
Inputs == TextInputs \cup {Checkbox}
Required == IF Form = "register" THEN {"username", "password", "confirm", Checkbox}
                                 ELSE {"email", "password"}
Values == Texts \cup {Empty, Spaces}

\* input.value.trim() is not empty; the value of a checkbox is "on", ticked or not.
Filled(i) == i # Checkbox => value[i] \in Texts
trimNever(v) == v
trim(v) == IF v = Spaces THEN Empty ELSE v

NoRequest == [email |-> Empty, password |-> Empty, box |-> "none"]
-----------------------------------------------------------------------------
(* The page is loaded                                                      *)

Init ==
    /\ value = [i \in TextInputs |-> Empty] /\ box = "clear"
    /\ mark = [i \in Inputs |-> "none"] /\ error = "none" /\ success = "hidden"
    /\ button = "enabled" /\ sent = NoRequest /\ timer = "none" /\ page = "here"
-----------------------------------------------------------------------------
(* Real-time validation                                                    *)

\* The inputs that an event on i leaves marked valid, when the texts are val.
NoMatch(i, val) == {}
Match(i, val) ==
    {c \in {"confirm"} : /\ Form = "register" /\ i \in {"password", "confirm"}
                         /\ val["confirm"] # Empty /\ val["confirm"] = val["password"]}

Marked(valid) == [i \in Inputs |-> IF i \in valid THEN "is-valid" ELSE mark[i]]

Unmarked(i, valid) == [Marked(valid) EXCEPT ![i] =
    IF i \notin valid /\ mark[i] = "is-invalid" THEN "none" ELSE @]

ErrorKept == error' = error
hideError == error' = "none"

\* The handler of "input".
Type(i, v) ==
    /\ page = "here" /\ v # value[i]
    /\ value' = [value EXCEPT ![i] = v]
    /\ mark' = Unmarked(i, Match(i, value'))
    /\ hideError
    /\ UNCHANGED <<box, success, button, sent, timer, page>>

Tick ==
    /\ page = "here"
    /\ box' = IF box = "ticked" THEN "clear" ELSE "ticked"
    /\ mark' = Unmarked(Checkbox, {})
    /\ hideError
    /\ UNCHANGED <<value, success, button, sent, timer, page>>

\* The handler of "blur".
Blur(i) ==
    /\ page = "here" /\ Filled(i)
    /\ mark' = Marked(IF Form = "register" /\ i = "confirm" THEN Match(i, value) ELSE {i})
    /\ UNCHANGED <<value, box, error, success, button, sent, timer, page>>
-----------------------------------------------------------------------------
(* The handler of "submit"; a disabled button cannot be used               *)

setLoadingUnset(loading) == button' = button
setLoading(loading) == button' = IF loading THEN "disabled" ELSE "enabled"

\* validateForm, and the comparison of the passwords after it.
Complete == \A i \in Required : Filled(i)
Mismatch == Form = "register" /\ value["password"] # value["confirm"]
Judged == [i \in Inputs |-> IF i \notin Required THEN mark[i]
                            ELSE IF Filled(i) THEN "is-valid" ELSE "is-invalid"]

Refuse ==
    /\ page = "here" /\ button = "enabled" /\ ~Complete
    /\ mark' = Judged
    /\ UNCHANGED <<value, box, error, success, button, sent, timer, page>>

RefuseMismatch ==
    /\ page = "here" /\ button = "enabled" /\ Complete /\ Mismatch
    /\ mark' = [Judged EXCEPT !["confirm"] = "is-invalid"]
    /\ error' = "mismatch"
    /\ UNCHANGED <<value, box, success, button, sent, timer, page>>

Send ==
    /\ page = "here" /\ button = "enabled" /\ Complete /\ ~Mismatch
    /\ mark' = Judged
    /\ hideError /\ success' = "hidden"
    /\ setLoading(TRUE)
    /\ sent' = [email |-> trim(value["email"]), password |-> value["password"], box |-> box]
    /\ UNCHANGED <<value, box, timer, page>>

Submit == Refuse \/ RefuseMismatch \/ Send
-----------------------------------------------------------------------------
(* The answer                                                              *)

\* normalizeEmail refuses an empty address; a login form never sends one.
Addressed == sent.email # Empty

TimerForgotten == UNCHANGED <<timer, page>>
LoginLater == timer' = "set" /\ UNCHANGED page

\* The message and the setTimeout after register; login navigates at once.
Welcome ==
    /\ page = "here" /\ sent # NoRequest /\ Addressed
    /\ setLoading(FALSE) /\ sent' = NoRequest
    /\ IF Form = "register" THEN success' = "shown" /\ LoginLater
                            ELSE page' = "left" /\ UNCHANGED <<success, timer>>
    /\ UNCHANGED formVars

\* Refused by the server, or lost on the way.
Fail ==
    /\ page = "here" /\ sent # NoRequest
    /\ setLoading(FALSE) /\ sent' = NoRequest
    /\ error' \in {IF Addressed THEN "refused" ELSE "email", "failed"}
    /\ UNCHANGED <<value, box, mark, success, timer, page>>

Redirect ==
    /\ timer = "set" /\ page = "here"
    /\ page' = "left"
    /\ UNCHANGED <<formVars, success, button, sent, timer>>

Next ==
    \/ \E i \in TextInputs, v \in Values : Type(i, v)
    \/ Tick
    \/ \E i \in Inputs : Blur(i)
    \/ Submit
    \/ Welcome \/ Fail \/ Redirect

\* setTimeout calls back.
Spec == Init /\ [][Next]_vars /\ WF_vars(Redirect)
-----------------------------------------------------------------------------
(* What it promises                                                        *)

TypeOK ==
    /\ value \in [TextInputs -> Values] /\ box \in {"ticked", "clear"}
    /\ mark \in [Inputs -> {"is-valid", "is-invalid", "none"}]
    /\ error \in {"mismatch", "email", "refused", "failed", "none"}
    /\ success \in {"shown", "hidden"} /\ button \in {"enabled", "disabled"}
    /\ \/ sent = NoRequest
       \/ sent \in [email : Texts \cup {Empty}, password : Texts, box : {"ticked", "clear"}]
    /\ timer \in {"set", "none"} /\ page \in {"here", "left"}

\* An input that is marked invalid is still blank, or still differs from the
\* password, and the message that the passwords differ is shown only while they
\* do, whichever of the inputs was changed last.
FeedbackTrue ==
    /\ \A i \in Inputs : mark[i] = "is-invalid" => ~Filled(i) \/ (i = "confirm" /\ Mismatch)
    /\ error = "mismatch" => Mismatch

\* The button is disabled exactly while a request is under way, so that a form has
\* at most one, and can be used again after every answer.
ButtonTells == page = "here" => (button = "disabled" <=> sent # NoRequest)

\* "Redirecting to login..." comes true, whatever the user does meanwhile.
Redirected == success = "shown" ~> page = "left"
-----------------------------------------------------------------------------
(* What the pages say, and the code does not do                            *)

\* auth.js: "Real-time password match check".
MatchMarked == Form = "register" /\ mark["confirm"] = "is-valid" => ~Mismatch

\* register.html: "You must agree to the terms".
TermsAgreed == Form = "register" => sent.box # "clear"

\* register.html: "Email (optional)".
EmailOptional == error # "email"

\* register.html: "Password must be at least 6 characters".
LongPassword == Form = "register" => sent.password \notin Short
=============================================================================
