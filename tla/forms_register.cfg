\* The registration form: any input of the user in any order, and any answer.
SPECIFICATION Spec
CONSTANTS
    Form = "register"
    Texts = {short, long}
    Short = {short}
    Empty = empty
    Spaces = spaces
INVARIANT TypeOK
INVARIANT FeedbackTrue
INVARIANT ButtonTells
PROPERTY Redirected
\* The page is left.
CHECK_DEADLOCK FALSE
