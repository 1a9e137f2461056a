------------------------------ MODULE Accounts ------------------------------
(***************************************************************************)
(* What the accounts of a chat server promise: each request to register or *)
(* to log in is decided in one instant, by the book of its server as it is *)
(* then.  An address gets one account, and keeps it and its password until *)
(* the process ends; then the book is lost.                                *)
(***************************************************************************)
CONSTANTS
    Requests,   \* the requests
    Servers,    \* the chat servers; each has a book of its own
    Addresses,  \* mail addresses
    Passwords,  \* passwords
    None        \* no address, no account, not asked yet

VARIABLES
    book,   \* book[s][e]: the password of the account with address e, or None
    ask,    \* ask[r]: what r asks for, or None
    answer  \* answer[r]: "unasked", "pending", or how it was decided

vars == <<book, ask, answer>>

Asks == [op : {"register", "login"}, server : Servers, address : Addresses \cup {None},
         password : Passwords]

Init ==
    /\ book = [s \in Servers |-> [e \in Addresses |-> None]]
    /\ ask = [r \in Requests |-> None]
    /\ answer = [r \in Requests |-> "unasked"]

Ask(r) ==
    /\ answer[r] = "unasked"
    /\ \E q \in Asks : ask' = [ask EXCEPT ![r] = q]
    /\ answer' = [answer EXCEPT ![r] = "pending"]
    /\ UNCHANGED book

\* r waits for a decision about an account.
Waits(r, op) == answer[r] = "pending" /\ ask[r].op = op
Account(r) == book[ask[r].server][ask[r].address]
Decide(r, a) == answer' = [answer EXCEPT ![r] = a] /\ UNCHANGED ask

Create(r) ==
    /\ Waits(r, "register") /\ ask[r].address # None
    /\ Account(r) = None
    /\ book' = [book EXCEPT ![ask[r].server][ask[r].address] = ask[r].password]
    /\ Decide(r, "created")

Refuse(r) ==
    /\ Waits(r, "register") /\ ask[r].address # None
    /\ Account(r) # None
    /\ Decide(r, "exists") /\ UNCHANGED book

Admit(r) ==
    /\ Waits(r, "login") /\ ask[r].address # None
    /\ Account(r) = ask[r].password
    /\ Decide(r, "admitted") /\ UNCHANGED book

Deny(r) ==
    /\ Waits(r, "login") /\ ask[r].address # None
    /\ Account(r) # ask[r].password
    /\ Decide(r, "denied") /\ UNCHANGED book

\* No such address, or no password to keep.
Reject(r) ==
    /\ \E op \in {"register", "login"} : Waits(r, op)
    /\ ask[r].address = None \/ ask[r].op = "register"
    /\ Decide(r, "invalid") /\ UNCHANGED book

\* The server fails by itself, and nothing is kept.
Fail(r) ==
    /\ answer[r] = "pending"
    /\ Decide(r, "failed") /\ UNCHANGED book

\* The process at s ends, and with it the requests it was serving.
Lose(s) ==
    /\ book' = [book EXCEPT ![s] = [e \in Addresses |-> None]]
    /\ answer' = [r \in Requests |->
                     IF answer[r] = "pending" /\ ask[r].server = s
                     THEN "lost" ELSE answer[r]]
    /\ UNCHANGED ask

Next ==
    \/ \E r \in Requests :
          \/ Ask(r) \/ Create(r) \/ Refuse(r) \/ Admit(r) \/ Deny(r)
          \/ Reject(r) \/ Fail(r)
    \/ \E s \in Servers : Lose(s)

Spec == Init /\ [][Next]_vars
=============================================================================
