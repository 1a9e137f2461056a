-------------------------------- MODULE Auth --------------------------------
(***************************************************************************)
(* Registration and login (internal/auth/auth.go, and their handlers in    *)
(* internal/handlers/handlers.go) at the servers behind nginx.  Requests   *)
(* run concurrently: bcrypt works outside the storage's mutex, and the     *)
(* storage is read and written in critical sections of its own.  Accounts  *)
(* live in the memory of one process.                                      *)
(***************************************************************************)
CONSTANTS
    Requests,   \* POSTs to /auth/register and /auth/login
    Servers,    \* the chat servers
    Addresses,  \* normalized mail addresses
    Inputs,     \* what may be typed for an address
    Norm,       \* Norm[i]: normalizeEmail of i, or None when it fails
    Passwords,  \* passwords
    TooLong,    \* those that bcrypt refuses to hash (over 72 bytes)
    None,       \* no address, no account, no request
    Restarts    \* may a process end, and be started again?

ASSUME NormAssumption == Norm \in [Inputs -> Addresses \cup {None}]
Asked == [op : {"register", "login"}, server : Servers, input : Inputs, password : Passwords]

ASSUME NoneAssumption == None \notin Addresses \cup Passwords \cup Asked
ASSUME TooLongAssumption == TooLong \subseteq Passwords
ASSUME RestartsAssumption == Restarts \in BOOLEAN

VARIABLES
    emails,  \* emails[s][e]: the password hash of the user with address e, or None
    req,     \* req[r]: what the request asks, of which server
    at,      \* at[r]: where its handler is, or the answer
    user,    \* user[r]: the hash that Login took from the storage, or None
    had      \* history: the accounts created when r was sent, <<address, password>>

vars == <<emails, req, at, user, had>>

Answers == {"created", "exists", "admitted", "denied", "invalid", "failed", "lost"}
Request(op, s, i, p) == [op |-> op, server |-> s, input |-> i, password |-> p]

\* bcrypt: a hash is as good as its password.
Hash(p) == p
Address(r) == Norm[req[r].input]
Store(r) == emails[req[r].server]
-----------------------------------------------------------------------------
Init ==
    /\ emails = [s \in Servers |-> [e \in Addresses |-> None]]
    /\ req = [r \in Requests |-> None]
    /\ at = [r \in Requests |-> "unsent"]
    /\ user = [r \in Requests |-> None]
    /\ had = [r \in Requests |-> {}]

Go(r, place) == at' = [at EXCEPT ![r] = place]

Created == {q \in Requests : at[q] = "created"}

\* nginx sends the request to either server.
Send(r, op, s, i, p) ==
    /\ at[r] = "unsent"
    /\ req' = [req EXCEPT ![r] = Request(op, s, i, p)]
    /\ had' = [had EXCEPT ![r] = {<<Address(q), req[q].password>> : q \in Created}]
    /\ Go(r, op)
    /\ UNCHANGED <<emails, user>>
-----------------------------------------------------------------------------
(* Register                                                                *)

\* normalizeEmail finds an address in what was typed.
ParsesAlways(r) == TRUE
Parses(r) == Address(r) # None

\* GenerateFromPassword, then normalizeEmail: neither touches the storage.
RegisterHash(r) ==
    /\ at[r] = "register"
    /\ Go(r, IF req[r].password \notin TooLong /\ Parses(r) THEN "add" ELSE "invalid")
    /\ UNCHANGED <<emails, req, user, had>>

TakenNever(r) == FALSE
Taken(r) == Store(r)[Address(r)] # None

\* addUser, in one critical section: it refuses an address that has a user, and keeps
\* nothing when generateUserID fails.
addUser(r) ==
    /\ at[r] = "add"
    /\ \/ Taken(r) /\ Go(r, "exists") /\ UNCHANGED emails
       \/ ~Taken(r) /\ Go(r, "failed") /\ UNCHANGED emails
       \/ /\ ~Taken(r) /\ Go(r, "created")
          /\ emails' = [emails EXCEPT ![req[r].server][Address(r)] = Hash(req[r].password)]
    /\ UNCHANGED <<req, user, had>>
-----------------------------------------------------------------------------
(* Login                                                                   *)

\* normalizeEmail and getUserByEmail: an unknown address is refused after a
\* comparison with the fake hash.
getUserByEmail(r) ==
    /\ at[r] = "login"
    /\ \/ ~Parses(r) /\ Go(r, "invalid") /\ UNCHANGED user
       \/ Parses(r) /\ Store(r)[Address(r)] = None /\ Go(r, "denied") /\ UNCHANGED user
       \/ /\ Parses(r) /\ Store(r)[Address(r)] # None /\ Go(r, "compare")
          /\ user' = [user EXCEPT ![r] = Store(r)[Address(r)]]
    /\ UNCHANGED <<emails, req, had>>

MatchesAny(r) == TRUE
Matches(r) == user[r] = Hash(req[r].password)

\* CompareHashAndPassword, outside the mutex; then LoginUser makes both tokens, which
\* may fail.
Compare(r) ==
    /\ at[r] = "compare"
    /\ \/ Matches(r) /\ (Go(r, "admitted") \/ Go(r, "failed"))
       \/ ~Matches(r) /\ Go(r, "denied")
    /\ UNCHANGED <<emails, req, user, had>>
-----------------------------------------------------------------------------
\* The process ends and starts anew: NewService makes an empty storage.
NewService(s) ==
    /\ Restarts
    /\ emails' = [emails EXCEPT ![s] = [e \in Addresses |-> None]]
    /\ at' = [r \in Requests |->
                 IF at[r] \notin Answers \cup {"unsent"} /\ req[r].server = s THEN "lost" ELSE at[r]]
    /\ UNCHANGED <<req, user, had>>

Handler(r) == RegisterHash(r) \/ addUser(r) \/ getUserByEmail(r) \/ Compare(r)

Next ==
    \/ \E r \in Requests :
          \/ Handler(r)
          \/ \E op \in {"register", "login"}, s \in Servers, i \in Inputs, p \in Passwords :
                Send(r, op, s, i, p)
    \/ \E s \in Servers : NewService(s)

Spec == Init /\ [][Next]_vars
-----------------------------------------------------------------------------
(* What it promises                                                        *)

Places == {"unsent", "register", "add", "login", "compare"} \cup Answers

\* Every variable has its type, a request is known once it is sent, and a handler
\* only goes on with an address that is one.
TypeOK ==
    /\ emails \in [Servers -> [Addresses -> Passwords \cup {None}]]
    /\ req \in [Requests -> Asked \cup {None}]
    /\ at \in [Requests -> Places]
    /\ user \in [Requests -> Passwords \cup {None}]
    /\ had \in [Requests -> SUBSET ((Addresses \cup {None}) \X Passwords)]
    /\ \A r \in Requests : at[r] # "unsent" => req[r] \in Asked
    /\ \A r \in Requests : at[r] \in {"add", "compare"} => Address(r) \in Addresses

\* Outside the mutex Login still holds what the storage says: nothing changes or
\* removes an account while the process lives.
UserCurrent == \A r \in Requests : at[r] = "compare" => user[r] = Store(r)[Address(r)]

\* What the callers see: the requests sent, with their addresses, and the answers.
Asking ==
    [r \in Requests |->
        IF req[r] = None THEN None
        ELSE [op |-> req[r].op, server |-> req[r].server, address |-> Address(r),
              password |-> req[r].password]]
Answered ==
    [r \in Requests |->
        IF at[r] = "unsent" THEN "unasked" ELSE IF at[r] \in Answers THEN at[r] ELSE "pending"]

Registry == INSTANCE Accounts WITH book <- emails, ask <- Asking, answer <- Answered

\* Although passwords are hashed and compared outside the mutex, every request is
\* decided as if in one instant: of registrations of one address that run at the
\* same time one is answered with success, and it is its password that counts.
AccountsImplemented == Registry!Spec

\* "Account created successfully! Redirecting to login..." (auth.js): whoever was
\* told so is admitted with the address and the password of the registration.
CreatedCanLogin ==
    \A r \in Requests : at[r] = "denied" => <<Address(r), req[r].password>> \notin had[r]
=============================================================================
