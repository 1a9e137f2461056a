---------------------------- MODULE FormsProofs ----------------------------
(* Proofs about Forms, for both forms and any texts.                       *)
EXTENDS Forms, TLAPS

IInv == TypeOK /\ FeedbackTrue /\ ButtonTells
-----------------------------------------------------------------------------
LEMMA FormInputs ==
    /\ Required \subseteq Inputs /\ TextInputs \subseteq Inputs /\ Checkbox \in Inputs
    /\ Checkbox \notin TextInputs
    /\ {"email", "password"} \subseteq TextInputs
    /\ Form = "register" => {"password", "confirm"} \subseteq Required \cap TextInputs
    /\ Form # "register" => "confirm" \notin Inputs
    /\ {"email", "password"} \cap Required # {}
    /\ "password" \in Required
BY FormAssumption DEF Required, Inputs, TextInputs, Checkbox

\* A request that is under way is not NoRequest.
LEMMA SentFilled ==
    ASSUME TypeOK, Send
    PROVE  /\ sent' \in [email : Texts \cup {Empty}, password : Texts, box : {"ticked", "clear"}]
           /\ sent' # NoRequest
<1>1. value["email"] \in Values /\ value["password"] \in Texts
  BY FormInputs DEF TypeOK, Send, Complete, Filled, Checkbox
<1>2. trim(value["email"]) \in Texts \cup {Empty}
  BY <1>1 DEF trim, Values
<1>3. Empty \notin Texts
  BY TextsAssumption
<1>4. box \in {"ticked", "clear"}
  BY DEF TypeOK
<1> QED
  BY <1>1, <1>2, <1>3, <1>4 DEF Send, NoRequest

\* The marks that the handlers set are marks.
LEMMA MarksTyped ==
    ASSUME TypeOK, NEW i \in Inputs, NEW valid \in SUBSET Inputs
    PROVE  /\ Marked(valid) \in [Inputs -> {"is-valid", "is-invalid", "none"}]
           /\ Unmarked(i, valid) \in [Inputs -> {"is-valid", "is-invalid", "none"}]
           /\ Judged \in [Inputs -> {"is-valid", "is-invalid", "none"}]
BY DEF TypeOK, Marked, Unmarked, Judged

LEMMA MatchTyped ==
    ASSUME NEW i \in Inputs, NEW val
    PROVE  Match(i, val) \in SUBSET Inputs
BY FormInputs DEF Match

\* Every step keeps the types.
LEMMA TypeStep == TypeOK /\ [Next]_vars => TypeOK'
<1> SUFFICES ASSUME TypeOK, [Next]_vars PROVE TypeOK'
  OBVIOUS
<1>1. ASSUME NEW i \in TextInputs, NEW v \in Values, Type(i, v) PROVE TypeOK'
  <2>1. value' \in [TextInputs -> Values]
    BY <1>1 DEF TypeOK, Type
  <2>2. mark' \in [Inputs -> {"is-valid", "is-invalid", "none"}]
    BY <1>1, MarksTyped, MatchTyped, FormInputs DEF Type
  <2> QED
    BY <1>1, <2>1, <2>2 DEF Type, TypeOK, hideError
<1>2. CASE Tick
  <2>1. mark' \in [Inputs -> {"is-valid", "is-invalid", "none"}]
    BY <1>2, MarksTyped, FormInputs DEF Tick
  <2> QED
    BY <1>2, <2>1 DEF Tick, TypeOK, hideError
<1>3. ASSUME NEW i \in Inputs, Blur(i) PROVE TypeOK'
  <2>1. mark' \in [Inputs -> {"is-valid", "is-invalid", "none"}]
    BY <1>3, MarksTyped, MatchTyped DEF Blur
  <2> QED
    BY <1>3, <2>1 DEF Blur, TypeOK
<1>4. CASE Refuse
  BY <1>4, MarksTyped, FormInputs DEF Refuse, TypeOK
<1>5. CASE RefuseMismatch
  <2>1. mark' \in [Inputs -> {"is-valid", "is-invalid", "none"}]
    BY <1>5, MarksTyped, FormInputs DEF RefuseMismatch
  <2> QED
    BY <1>5, <2>1 DEF RefuseMismatch, TypeOK
<1>6. CASE Send
  BY <1>6, MarksTyped, FormInputs, SentFilled DEF Send, TypeOK, hideError, setLoading
<1>7. CASE Welcome \/ Fail \/ Redirect
  BY <1>7 DEF Welcome, Fail, Redirect, TypeOK, formVars, setLoading, LoginLater
<1>8. CASE UNCHANGED vars
  BY <1>8 DEF vars, formVars, TypeOK
<1> QED
  BY <1>1, <1>2, <1>3, <1>4, <1>5, <1>6, <1>7, <1>8 DEF Next, Submit

\* Every step keeps the marks and the message about the passwords true.
LEMMA FeedbackStep == TypeOK /\ FeedbackTrue /\ [Next]_vars => FeedbackTrue'
<1> SUFFICES ASSUME TypeOK, FeedbackTrue, [Next]_vars PROVE FeedbackTrue'
  OBVIOUS
<1>1. ASSUME NEW i \in TextInputs, NEW v \in Values, Type(i, v) PROVE FeedbackTrue'
  <2>1. error' # "mismatch"
    BY <1>1 DEF Type, hideError
  <2>2. ASSUME NEW j \in Inputs, mark'[j] = "is-invalid"
        PROVE  (~Filled(j))' \/ (j = "confirm" /\ Mismatch')
    <3>1. j # i /\ j \notin Match(i, value') /\ mark[j] = "is-invalid"
      BY <1>1, <2>2, FormInputs DEF Type, TypeOK, Unmarked, Marked
    <3>2. ~Filled(j) \/ (j = "confirm" /\ Mismatch)
      BY <3>1 DEF FeedbackTrue
    <3>3. CASE ~Filled(j)
      BY <1>1, <3>1, <3>3 DEF Type, TypeOK, Filled
    <3>4. CASE j = "confirm" /\ Mismatch /\ Filled(j)
      <4>1. Form = "register" /\ value'["confirm"] = value["confirm"] /\ value["confirm"] # Empty
        BY <1>1, <3>1, <3>4, TextsAssumption DEF Type, TypeOK, Mismatch, Filled, Checkbox
      <4>2. CASE i = "password"
        BY <3>1, <3>4, <4>1, <4>2 DEF Match, Mismatch
      <4>3. CASE i # "password"
        BY <1>1, <3>4, <4>1, <4>3 DEF Type, TypeOK, Mismatch
      <4> QED
        BY <4>2, <4>3
    <3> QED
      BY <3>2, <3>3, <3>4
  <2> QED
    BY <2>1, <2>2 DEF FeedbackTrue
<1>2. CASE Tick
  BY <1>2, FormInputs DEF Tick, TypeOK, FeedbackTrue, Filled, Mismatch, Unmarked, Marked, hideError
<1>3. ASSUME NEW i \in Inputs, Blur(i) PROVE FeedbackTrue'
  BY <1>3 DEF Blur, TypeOK, FeedbackTrue, Filled, Mismatch, Marked
<1>4. CASE Refuse
  BY <1>4 DEF Refuse, TypeOK, FeedbackTrue, Filled, Mismatch, Judged
<1>5. CASE RefuseMismatch
  BY <1>5 DEF RefuseMismatch, TypeOK, FeedbackTrue, Filled, Mismatch, Judged
<1>6. CASE Send
  BY <1>6 DEF Send, TypeOK, FeedbackTrue, Filled, Mismatch, Judged, hideError
<1>7. CASE Welcome \/ Fail \/ Redirect
  BY <1>7 DEF Welcome, Fail, Redirect, FeedbackTrue, Filled, Mismatch, formVars
<1>8. CASE UNCHANGED vars
  BY <1>8 DEF vars, formVars, FeedbackTrue, Filled, Mismatch
<1> QED
  BY <1>1, <1>2, <1>3, <1>4, <1>5, <1>6, <1>7, <1>8 DEF Next, Submit

\* Every step keeps the button in agreement with the request.
LEMMA ButtonStep == TypeOK /\ ButtonTells /\ [Next]_vars => ButtonTells'
<1> SUFFICES ASSUME TypeOK, ButtonTells, [Next]_vars PROVE ButtonTells'
  OBVIOUS
<1>1. CASE Send
  BY <1>1, SentFilled DEF Send, ButtonTells, setLoading
<1>2. CASE Welcome \/ Fail
  BY <1>2 DEF Welcome, Fail, ButtonTells, setLoading
<1>3. CASE UNCHANGED <<button, sent, page>> \/ Redirect
  BY <1>3 DEF ButtonTells, Redirect
<1> QED
  BY <1>1, <1>2, <1>3 DEF Next, Submit, Type, Tick, Blur, Refuse, RefuseMismatch, vars
-----------------------------------------------------------------------------
(* The theorems                                                            *)

\* The strengthened invariant holds in every reachable state.
THEOREM Invariant == Spec => []IInv
<1>1. Init => IInv
  <2>1. Init => TypeOK
    BY DEF Init, TypeOK, Values
  <2> QED
    BY <2>1 DEF Init, IInv, FeedbackTrue, ButtonTells
<1>2. IInv /\ [Next]_vars => IInv'
  BY TypeStep, FeedbackStep, ButtonStep DEF IInv
<1> QED
  BY <1>1, <1>2, PTL DEF Spec

\* Only filled and trimmed fields are sent, by either form.
THEOREM TypeCorrect == Spec => []TypeOK
<1>1. IInv => TypeOK
  BY DEF IInv
<1> QED
  BY <1>1, Invariant, PTL

\* Whatever the user types in which order, what the form marks as wrong is wrong.
THEOREM FeedbackStaysTrue == Spec => []FeedbackTrue
<1>1. IInv => FeedbackTrue
  BY DEF IInv
<1> QED
  BY <1>1, Invariant, PTL

\* For both forms, the button is disabled exactly while a request is under way.
THEOREM OneSubmission == Spec => []ButtonTells
<1>1. IInv => ButtonTells
  BY DEF IInv
<1> QED
  BY <1>1, Invariant, PTL
=============================================================================
