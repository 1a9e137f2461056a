----------------------------- MODULE AuthProofs -----------------------------
(* Proofs about Auth, for every set of requests, servers, addresses and    *)
(* passwords, whatever normalizeEmail makes of what is typed.              *)
EXTENDS Auth, TLAPS

\* A handler is at a place of its own operation, and compares with a user's hash.
Phase ==
    \A r \in Requests :
        /\ at[r] = "unsent" => req[r] = None
        /\ at[r] \in {"register", "add"} => req[r].op = "register"
        /\ at[r] \in {"login", "compare"} => req[r].op = "login"
        /\ at[r] = "compare" => user[r] # None

IInv == TypeOK /\ UserCurrent /\ Phase
-----------------------------------------------------------------------------
\* The empty storage, before any request.
LEMMA InvInit == Init => IInv
BY NoneAssumption DEF Init, IInv, TypeOK, UserCurrent, Phase, Places

\* Every step keeps the types: a handler goes on only with an address.
LEMMA TypeStep == TypeOK /\ [Next]_vars => TypeOK'
<1> SUFFICES ASSUME TypeOK, [Next]_vars PROVE TypeOK'
  OBVIOUS
<1> USE DEF TypeOK, Places, Answers, Go
<1>1. ASSUME NEW r \in Requests, NEW op \in {"register", "login"}, NEW s \in Servers,
             NEW i \in Inputs, NEW p \in Passwords, Send(r, op, s, i, p)
      PROVE  TypeOK'
  <2>1. Request(op, s, i, p) \in Asked
    BY DEF Request, Asked
  <2>2. had' \in [Requests -> SUBSET ((Addresses \cup {None}) \X Passwords)]
    <3>1. ASSUME NEW q \in Created
          PROVE  <<Address(q), req[q].password>> \in (Addresses \cup {None}) \X Passwords
      BY NormAssumption DEF Created, Address, Asked
    <3> QED
      BY <1>1, <3>1 DEF Send
  <2> QED
    BY <1>1, <2>1, <2>2 DEF Send, Address
<1>2. ASSUME NEW r \in Requests, RegisterHash(r)
      PROVE  TypeOK'
  <2>1. req[r] \in Asked /\ (Parses(r) => Address(r) \in Addresses)
    BY <1>2, NormAssumption DEF RegisterHash, Asked, Parses, Address
  <2> QED
    BY <1>2, <2>1 DEF RegisterHash, Address
<1>3. ASSUME NEW r \in Requests, addUser(r)
      PROVE  TypeOK'
  <2>1. req[r] \in Asked /\ Address(r) \in Addresses
    BY <1>3 DEF addUser
  <2>2. emails' \in [Servers -> [Addresses -> Passwords \cup {None}]]
    <3>1. req[r].server \in Servers /\ Hash(req[r].password) \in Passwords
      BY <2>1 DEF Asked, Hash
    <3>2. emails \in [Servers -> [Addresses -> Passwords \cup {None}]]
      OBVIOUS
    <3>3. \/ UNCHANGED emails
          \/ emails' = [emails EXCEPT ![req[r].server][Address(r)] = Hash(req[r].password)]
      BY <1>3 DEF addUser
    <3> HIDE DEF TypeOK
    <3> QED
      BY <2>1, <3>1, <3>2, <3>3
  <2> QED
    BY <1>3, <2>1, <2>2 DEF addUser, Address
<1>4. ASSUME NEW r \in Requests, getUserByEmail(r)
      PROVE  TypeOK'
  <2>1. req[r] \in Asked /\ (Parses(r) => Address(r) \in Addresses)
    BY <1>4, NormAssumption DEF getUserByEmail, Asked, Parses, Address
  <2>2. Parses(r) => Store(r)[Address(r)] \in Passwords \cup {None}
    BY <2>1 DEF Store, Asked
  <2> QED
    BY <1>4, <2>1, <2>2 DEF getUserByEmail, Address
<1>5. ASSUME NEW r \in Requests, Compare(r)
      PROVE  TypeOK'
  BY <1>5 DEF Compare, Address
<1>6. ASSUME NEW s \in Servers, NewService(s)
      PROVE  TypeOK'
  BY <1>6 DEF NewService, Address
<1>7. CASE UNCHANGED vars
  BY <1>7 DEF vars, Address
<1> QED
  BY <1>1, <1>2, <1>3, <1>4, <1>5, <1>6, <1>7 DEF Next, Handler

\* Only the handler of a request moves it from place to place.
LEMMA PhaseStep == TypeOK /\ Phase /\ [Next]_vars => Phase'
<1> SUFFICES ASSUME TypeOK, Phase, [Next]_vars PROVE Phase'
  OBVIOUS
<1> USE DEF TypeOK, Phase, Answers, Go
<1>1. ASSUME NEW r \in Requests, NEW op \in {"register", "login"}, NEW s \in Servers,
             NEW i \in Inputs, NEW p \in Passwords, Send(r, op, s, i, p)
      PROVE  Phase'
  BY <1>1 DEF Send, Request
<1>2. ASSUME NEW r \in Requests, Handler(r)
      PROVE  Phase'
  BY <1>2 DEF Handler, RegisterHash, addUser, getUserByEmail, Compare
<1>3. ASSUME NEW s \in Servers, NewService(s)
      PROVE  Phase'
  BY <1>3 DEF NewService
<1>4. CASE UNCHANGED vars
  BY <1>4 DEF vars
<1> QED
  BY <1>1, <1>2, <1>3, <1>4 DEF Next

\* What Login took from the storage stays what the storage says: addUser does not
\* touch an address that has a user, and a restart ends the handler.
LEMMA CurrentStep == IInv /\ [Next]_vars => UserCurrent'
<1> SUFFICES ASSUME TypeOK, UserCurrent, Phase, [Next]_vars,
                    NEW q \in Requests, at'[q] = "compare"
             PROVE  user'[q] = Store(q)'[Address(q)']
  BY DEF IInv, UserCurrent
<1>0. ASSUME req'[q] = req[q], user'[q] = user[q], at[q] = "compare",
             emails'[req[q].server][Address(q)] = emails[req[q].server][Address(q)]
      PROVE  user'[q] = Store(q)'[Address(q)']
  BY <1>0 DEF UserCurrent, Store, Address
<1>1. ASSUME NEW r \in Requests, NEW op \in {"register", "login"}, NEW s \in Servers,
             NEW i \in Inputs, NEW p \in Passwords, Send(r, op, s, i, p)
      PROVE  user'[q] = Store(q)'[Address(q)']
  BY <1>0, <1>1 DEF Send, Go, TypeOK
<1>2. ASSUME NEW r \in Requests, RegisterHash(r)
      PROVE  user'[q] = Store(q)'[Address(q)']
  BY <1>0, <1>2 DEF RegisterHash, Go, TypeOK
<1>3. ASSUME NEW r \in Requests, addUser(r)
      PROVE  user'[q] = Store(q)'[Address(q)']
  <2>1. at[q] = "compare" /\ req'[q] = req[q] /\ user'[q] = user[q]
    BY <1>3 DEF addUser, Go, TypeOK
  <2>2. user[q] # None
    BY <2>1 DEF Phase
  <2> QED
    BY <1>0, <1>3, <2>1, <2>2 DEF addUser, Taken, Store, UserCurrent, TypeOK, Asked
<1>4. ASSUME NEW r \in Requests, getUserByEmail(r)
      PROVE  user'[q] = Store(q)'[Address(q)']
  <2>1. CASE q = r
    BY <1>4, <2>1 DEF getUserByEmail, Go, TypeOK, Store, Address
  <2>2. CASE q # r
    BY <1>0, <1>4, <2>2 DEF getUserByEmail, Go, TypeOK
  <2> QED
    BY <2>1, <2>2
<1>5. ASSUME NEW r \in Requests, Compare(r)
      PROVE  user'[q] = Store(q)'[Address(q)']
  BY <1>0, <1>5 DEF Compare, Go, TypeOK
<1>6. ASSUME NEW s \in Servers, NewService(s)
      PROVE  user'[q] = Store(q)'[Address(q)']
  <2>1. at[q] = "compare" /\ req[q].server # s /\ req[q] \in Asked
    BY <1>6 DEF NewService, Answers, TypeOK
  <2> QED
    BY <1>0, <1>6, <2>1 DEF NewService, TypeOK, Asked
<1>7. CASE UNCHANGED vars
  BY <1>0, <1>7 DEF vars
<1> QED
  BY <1>1, <1>2, <1>3, <1>4, <1>5, <1>6, <1>7 DEF Next, Handler

\* The strengthened invariant is inductive.
LEMMA InvStep == IInv /\ [Next]_vars => IInv'
BY TypeStep, PhaseStep, CurrentStep DEF IInv
-----------------------------------------------------------------------------
(* The refinement                                                          *)

\* The empty storage is an empty book.
LEMMA RegistryInit == Init => Registry!Init
BY DEF Init, Registry!Init, Asking, Answered, Answers

\* What r asks, once it is sent.
LEMMA AskingOf ==
    ASSUME NEW r \in Requests, req[r] \in Asked
    PROVE  Asking[r] = [op |-> req[r].op, server |-> req[r].server, address |-> Address(r),
                        password |-> req[r].password]
BY NoneAssumption DEF Asking

\* A step of the handler of r that answers it with a is a decision of the registry.
LEMMA AnswerDecides ==
    ASSUME NEW r \in Requests, NEW a \in Answers, TypeOK, at[r] \notin Answers,
           at[r] # "unsent", Go(r, a), UNCHANGED req
    PROVE  Registry!Decide(r, a) /\ Answered[r] = "pending"
BY DEF Answers, Registry!Decide, Go, Asking, Answered, Address, TypeOK

\* A step to another place that is not an answer changes nothing the callers see.
LEMMA MoveHidden ==
    ASSUME NEW r \in Requests, NEW a, a \notin Answers \cup {"unsent"}, TypeOK,
           at[r] \notin Answers \cup {"unsent"}, Go(r, a), UNCHANGED req
    PROVE  UNCHANGED <<Asking, Answered>>
BY DEF Go, Asking, Answered, Address, TypeOK

\* addUser decides a registration, Compare a login; getUserByEmail decides the login
\* for an unknown address; malformed requests are rejected where that is found out.
LEMMA RegistryStep == IInv /\ [Next]_vars => [Registry!Next]_(Registry!vars)
<1> SUFFICES ASSUME IInv, [Next]_vars PROVE Registry!Next \/ UNCHANGED Registry!vars
  OBVIOUS
<1> USE DEF IInv
<1>0. ASSUME NEW r \in Requests, at[r] # "unsent"
      PROVE  req[r] \in Asked
  BY <1>0 DEF TypeOK
<1>1. ASSUME NEW r \in Requests, NEW op \in {"register", "login"}, NEW s \in Servers,
             NEW i \in Inputs, NEW p \in Passwords, Send(r, op, s, i, p)
      PROVE  Registry!Next
  <2> DEFINE q == [op |-> op, server |-> s, address |-> Norm[i], password |-> p]
  <2>1. q \in Registry!Asks
    BY NormAssumption DEF Registry!Asks
  <2>2. Request(op, s, i, p) # None
    BY NoneAssumption DEF Request, Asked
  <2>3. Asking' = [Asking EXCEPT ![r] = q]
    BY <1>1, <2>2 DEF Send, Asking, Request, Address, TypeOK
  <2>4. Answered[r] = "unasked"
    BY <1>1 DEF Send, Answered
  <2>5. Answered' = [Answered EXCEPT ![r] = "pending"]
    BY <1>1 DEF Send, Go, Answered, Answers, TypeOK
  <2>6. Registry!Ask(r)
    BY <1>1, <2>1, <2>3, <2>4, <2>5 DEF Registry!Ask, Send
  <2> QED
    BY <2>6 DEF Registry!Next
<1>2. ASSUME NEW r \in Requests, RegisterHash(r)
      PROVE  Registry!Next \/ UNCHANGED Registry!vars
  <2>1. at[r] = "register" /\ at[r] \notin Answers /\ UNCHANGED <<emails, req>>
    BY <1>2 DEF RegisterHash, Answers
  <2>2. CASE Go(r, "invalid")
    <3>1. Registry!Decide(r, "invalid") /\ Answered[r] = "pending"
      BY <2>1, <2>2, AnswerDecides DEF Answers
    <3>2. Asking[r] = [op |-> "register", server |-> req[r].server, address |-> Address(r),
                       password |-> req[r].password]
      BY <1>0, <2>1, AskingOf DEF Phase
    <3>3. Registry!Reject(r)
      BY <1>0, <2>1, <3>1, <3>2 DEF Registry!Reject, Registry!Waits
    <3> QED
      BY <3>3 DEF Registry!Next
  <2>3. CASE Go(r, "add")
    BY <2>1, <2>3, MoveHidden DEF Registry!vars, Answers
  <2> QED
    BY <1>2, <2>2, <2>3 DEF RegisterHash
<1>3. ASSUME NEW r \in Requests, addUser(r)
      PROVE  Registry!Next
  <2>1. at[r] = "add" /\ at[r] \notin Answers /\ UNCHANGED req /\ req[r] \in Asked
    BY <1>0, <1>3 DEF addUser, Answers
  <2>2. Asking[r] = [op |-> "register", server |-> req[r].server, address |-> Address(r),
                     password |-> req[r].password]
    BY <2>1, AskingOf DEF Phase
  <2>3. Address(r) # None
    BY <2>1, NoneAssumption DEF TypeOK
  <2>4. CASE Taken(r)
    <3>1. Go(r, "exists") /\ UNCHANGED emails
      BY <1>3, <2>4 DEF addUser
    <3>2. Registry!Decide(r, "exists") /\ Answered[r] = "pending"
      BY <2>1, <3>1, AnswerDecides DEF Answers
    <3>3. Registry!Refuse(r)
      BY <1>0, <2>1, <2>2, <2>3, <2>4, <3>1, <3>2
         DEF Registry!Refuse, Registry!Waits, Registry!Account, Taken, Store
    <3> QED
      BY <3>3 DEF Registry!Next
  <2>5. CASE Go(r, "failed") /\ UNCHANGED emails
    <3>1. Registry!Decide(r, "failed") /\ Answered[r] = "pending"
      BY <2>1, <2>5, AnswerDecides DEF Answers
    <3> QED
      BY <2>5, <3>1 DEF Registry!Next, Registry!Fail
  <2>6. CASE /\ ~Taken(r) /\ Go(r, "created")
             /\ emails' = [emails EXCEPT ![req[r].server][Address(r)] = Hash(req[r].password)]
    <3>1. Registry!Decide(r, "created") /\ Answered[r] = "pending"
      BY <2>1, <2>6, AnswerDecides DEF Answers
    <3>2. emails' = [emails EXCEPT ![req[r].server][Address(r)] = req[r].password]
      BY <2>6 DEF Hash
    <3>3. Registry!Account(r) = None
      BY <2>2, <2>6 DEF Registry!Account, Taken, Store
    <3>4. Registry!Create(r)
      BY <2>2, <2>3, <3>1, <3>2, <3>3 DEF Registry!Create, Registry!Waits
    <3> QED
      BY <3>4 DEF Registry!Next
  <2> QED
    BY <1>3, <2>4, <2>5, <2>6 DEF addUser
<1>4. ASSUME NEW r \in Requests, getUserByEmail(r)
      PROVE  Registry!Next \/ UNCHANGED Registry!vars
  <2>1. at[r] = "login" /\ at[r] \notin Answers /\ UNCHANGED <<emails, req>> /\ req[r] \in Asked
    BY <1>0, <1>4 DEF getUserByEmail, Answers
  <2>2. Asking[r] = [op |-> "login", server |-> req[r].server, address |-> Address(r),
                     password |-> req[r].password]
    BY <2>1, AskingOf DEF Phase
  <2>3. CASE ~Parses(r) /\ Go(r, "invalid")
    <3>1. Registry!Decide(r, "invalid") /\ Answered[r] = "pending"
      BY <2>1, <2>3, AnswerDecides DEF Answers
    <3>2. Registry!Reject(r)
      BY <1>0, <2>1, <2>2, <2>3, <3>1 DEF Registry!Reject, Registry!Waits, Parses
    <3> QED
      BY <3>2 DEF Registry!Next
  <2>4. CASE Parses(r) /\ Store(r)[Address(r)] = None /\ Go(r, "denied")
    <3>1. Registry!Decide(r, "denied") /\ Answered[r] = "pending"
      BY <2>1, <2>4, AnswerDecides DEF Answers
    <3>2. req[r].password # None
      BY <2>1, NoneAssumption DEF Asked
    <3>3. Registry!Deny(r)
      BY <1>0, <2>1, <2>2, <2>4, <3>1, <3>2
         DEF Registry!Deny, Registry!Waits, Registry!Account, Parses, Store
    <3> QED
      BY <3>3 DEF Registry!Next
  <2>5. CASE Go(r, "compare")
    BY <2>1, <2>5, MoveHidden DEF Registry!vars, Answers
  <2> QED
    BY <1>4, <2>3, <2>4, <2>5 DEF getUserByEmail
<1>5. ASSUME NEW r \in Requests, Compare(r)
      PROVE  Registry!Next
  <2>1. at[r] = "compare" /\ at[r] \notin Answers /\ UNCHANGED <<emails, req>> /\ req[r] \in Asked
    BY <1>0, <1>5 DEF Compare, Answers
  <2>2. Asking[r] = [op |-> "login", server |-> req[r].server, address |-> Address(r),
                     password |-> req[r].password]
    BY <2>1, AskingOf DEF Phase
  <2>3. Address(r) # None /\ user[r] = emails[req[r].server][Address(r)]
    BY <2>1, NoneAssumption DEF TypeOK, UserCurrent, Store
  <2>4. CASE Matches(r) /\ Go(r, "admitted")
    <3>1. Go(r, "admitted")
      BY <2>4
    <3>2. Registry!Decide(r, "admitted") /\ Answered[r] = "pending"
      BY <2>1, <3>1, AnswerDecides DEF Answers
    <3>3. Registry!Account(r) = Asking[r].password
      <4>1. user[r] = req[r].password
        BY <2>4 DEF Matches, Hash
      <4>2. Registry!Account(r) = user[r]
        BY <2>2, <2>3 DEF Registry!Account
      <4>3. Asking[r].password = req[r].password
        BY <2>2
      <4> QED
        BY <4>1, <4>2, <4>3
    <3>4. Registry!Admit(r)
      BY <2>1, <2>2, <2>3, <3>2, <3>3 DEF Registry!Admit, Registry!Waits
    <3> QED
      BY <3>4 DEF Registry!Next
  <2>5. CASE ~Matches(r)
    <3>1. Go(r, "denied")
      BY <1>5, <2>5 DEF Compare
    <3>2. Registry!Decide(r, "denied") /\ Answered[r] = "pending"
      BY <2>1, <3>1, AnswerDecides DEF Answers
    <3>3. Registry!Deny(r)
      BY <1>0, <2>1, <2>2, <2>3, <2>5, <3>2
         DEF Registry!Deny, Registry!Waits, Registry!Account, Matches, Hash
    <3> QED
      BY <3>3 DEF Registry!Next
  <2>6. CASE Go(r, "failed")
    <3>1. Registry!Decide(r, "failed") /\ Answered[r] = "pending"
      BY <2>1, <2>6, AnswerDecides DEF Answers
    <3> QED
      BY <2>1, <3>1 DEF Registry!Next, Registry!Fail
  <2> QED
    BY <1>5, <2>4, <2>5, <2>6 DEF Compare
<1>6. ASSUME NEW s \in Servers, NewService(s)
      PROVE  Registry!Next
  <2>1. Asking' = Asking
    BY <1>6 DEF NewService, Asking, Address
  <2>2. ASSUME NEW r \in Requests
        PROVE  Answered'[r] = IF Answered[r] = "pending" /\ Asking[r].server = s
                              THEN "lost" ELSE Answered[r]
    <3>1. CASE at[r] = "unsent"
      BY <1>6, <3>1 DEF NewService, Answered, Answers
    <3>2. CASE at[r] # "unsent"
      <4>1. Asking[r].server = req[r].server
        <5>1. Asking[r] = [op |-> req[r].op, server |-> req[r].server, address |-> Address(r),
                           password |-> req[r].password]
          BY <1>0, <3>2, AskingOf
        <5> QED
          BY <5>1
      <4>2. at'[r] = IF at[r] \notin Answers /\ req[r].server = s THEN "lost" ELSE at[r]
        BY <1>6, <3>2 DEF NewService
      <4> QED
        BY <3>2, <4>1, <4>2 DEF Answered, Answers
    <3> QED
      BY <3>1, <3>2
  <2>3. Registry!Lose(s)
    BY <1>6, <2>1, <2>2 DEF Registry!Lose, NewService, Answered
  <2> QED
    BY <2>3 DEF Registry!Next
<1>7. CASE UNCHANGED vars
  BY <1>7 DEF vars, Registry!vars, Asking, Answered, Address
<1> QED
  BY <1>1, <1>2, <1>3, <1>4, <1>5, <1>6, <1>7 DEF Next, Handler
-----------------------------------------------------------------------------
(* One process for good: what was created is known                         *)

\* The users that registrations were answered with are in the storage, also those
\* that were there when a request came, and no login was refused to one of them.
Known ==
    /\ \A q \in Requests : at[q] = "created" =>
          Address(q) \in Addresses /\ Store(q)[Address(q)] = req[q].password
    /\ \A r \in Requests : \A a \in had[r] :
          a[1] \in Addresses /\ \A s \in Servers : emails[s][a[1]] = a[2] /\ a[2] # None
    /\ CreatedCanLogin

\* An account, once made, keeps its password while the process lives.
LEMMA AccountKept ==
    ASSUME IInv, [Next]_vars, ~Restarts,
           NEW s \in Servers, NEW e \in Addresses, emails[s][e] # None
    PROVE  emails'[s][e] = emails[s][e]
<1>1. ASSUME NEW r \in Requests, addUser(r)
      PROVE  emails'[s][e] = emails[s][e]
  BY <1>1 DEF addUser, Taken, Store, IInv, TypeOK, Asked
<1> QED
  BY <1>1 DEF Next, Handler, Send, RegisterHash, getUserByEmail, Compare, NewService, vars

\* With one server that is not restarted, Known is inductive.
LEMMA KnownStep ==
    ASSUME IInv, Known, [Next]_vars, ~Restarts, \A s, t \in Servers : s = t
    PROVE  Known'
<1> USE DEF IInv
<1>1. ASSUME NEW q \in Requests, at'[q] = "created"
      PROVE  Address(q)' \in Addresses /\ Store(q)'[Address(q)'] = req'[q].password
  <2>1. CASE at[q] = "created"
    <3>1. req'[q] = req[q]
      BY <2>1 DEF Next, Handler, Send, RegisterHash, addUser, getUserByEmail, Compare,
                  NewService, vars, TypeOK
    <3>2. Address(q) \in Addresses /\ Store(q)[Address(q)] = req[q].password
      BY <2>1 DEF Known
    <3>3. req[q] \in Asked
      BY <2>1 DEF TypeOK
    <3>4. emails[req[q].server][Address(q)] # None
      BY <3>2, <3>3, NoneAssumption DEF Asked, Store
    <3> QED
      BY <3>1, <3>2, <3>3, <3>4, AccountKept DEF Asked, Store, Address
  <2>2. CASE at[q] # "created"
    <3>1. addUser(q) /\ ~Taken(q) /\ Go(q, "created")
      BY <1>1, <2>2 DEF Next, Handler, Send, RegisterHash, addUser, getUserByEmail, Compare,
                        NewService, vars, TypeOK, Go, Answers
    <3>2. req[q] \in Asked /\ Address(q) \in Addresses /\ UNCHANGED req
      BY <3>1 DEF addUser, TypeOK
    <3>3. emails' = [emails EXCEPT ![req[q].server][Address(q)] = Hash(req[q].password)]
      <4>1. ~Go(q, "failed")
        BY <3>1 DEF Go, TypeOK
      <4> QED
        BY <3>1, <4>1 DEF addUser
    <3> QED
      BY <3>2, <3>3 DEF Address, Store, Hash, TypeOK, Asked
  <2> QED
    BY <2>1, <2>2
<1>2. ASSUME NEW r \in Requests, NEW a \in had'[r]
      PROVE  a[1] \in Addresses /\ \A s \in Servers : emails'[s][a[1]] = a[2] /\ a[2] # None
  <2>1. CASE a \in had[r]
    BY <2>1, AccountKept DEF Known
  <2>2. CASE a \notin had[r]
    <3>1. UNCHANGED emails /\ \E q \in Created : a = <<Address(q), req[q].password>>
      <4>1. PICK u \in Requests, op \in {"register", "login"}, s \in Servers, i \in Inputs,
                 p \in Passwords : Send(u, op, s, i, p)
        BY <1>2, <2>2 DEF Next, Handler, RegisterHash, addUser, getUserByEmail, Compare,
                          NewService, vars
      <4> QED
        BY <1>2, <2>2, <4>1 DEF Send
    <3>2. PICK q \in Created : a = <<Address(q), req[q].password>>
      BY <3>1
    <3>3. req[q] \in Asked /\ Address(q) \in Addresses /\ Store(q)[Address(q)] = req[q].password
      BY <3>2 DEF Created, Known, TypeOK
    <3>4. req[q].password # None
      BY <3>3, NoneAssumption DEF Asked
    <3> QED
      BY <3>1, <3>2, <3>3, <3>4 DEF Store, Asked
  <2> QED
    BY <2>1, <2>2
<1>3. ASSUME NEW r \in Requests, at'[r] = "denied"
      PROVE  <<Address(r)', req'[r].password>> \notin had'[r]
  <2>1. CASE at[r] = "denied"
    <3>1. req'[r] = req[r] /\ had'[r] = had[r]
      BY <2>1 DEF Next, Handler, Send, RegisterHash, addUser, getUserByEmail, Compare,
                  NewService, vars, TypeOK
    <3> QED
      BY <2>1, <3>1 DEF Known, CreatedCanLogin, Address
  <2>2. CASE at[r] # "denied"
    <3>1. /\ UNCHANGED <<emails, req, had>>
          /\ \/ getUserByEmail(r) /\ Store(r)[Address(r)] = None
             \/ Compare(r) /\ ~Matches(r)
      BY <1>3, <2>2 DEF Next, Handler, Send, RegisterHash, addUser, getUserByEmail, Compare,
                        NewService, vars, TypeOK, Go, Answers
    <3>2. req[r] \in Asked /\ Store(r)[Address(r)] # req[r].password
      BY <3>1, NoneAssumption
         DEF getUserByEmail, Compare, Matches, Hash, UserCurrent, TypeOK, Asked
    <3> QED
      BY <3>1, <3>2 DEF Known, Store, Address, Asked
  <2> QED
    BY <2>1, <2>2
<1> QED
  BY <1>1, <1>2, <1>3 DEF Known, CreatedCanLogin
-----------------------------------------------------------------------------
(* The theorems                                                            *)

\* The strengthened invariant holds in every reachable state.
THEOREM Invariant == Spec => []IInv
BY InvInit, InvStep, PTL DEF Spec

\* Handlers of any number of concurrent requests keep the types.
THEOREM TypeCorrect == Spec => []TypeOK
<1>1. IInv => TypeOK
  BY DEF IInv
<1> QED
  BY <1>1, Invariant, PTL

\* The copy of a user that Login compares with outside the mutex is never stale.
THEOREM LoginCurrent == Spec => []UserCurrent
<1>1. IInv => UserCurrent
  BY DEF IInv
<1> QED
  BY <1>1, Invariant, PTL

\* Register and Login implement the registry, in which every request is decided at
\* one instant: one account for each address, and only its password is admitted.
THEOREM Implements == Spec => AccountsImplemented
BY Invariant, RegistryInit, RegistryStep, PTL DEF Spec, AccountsImplemented, Registry!Spec

\* "Account created successfully" is true with one server that is not restarted.
THEOREM AccountsLast ==
    ASSUME ~Restarts, \A s, t \in Servers : s = t
    PROVE  Spec => []CreatedCanLogin
<1>1. Init => Known
  BY DEF Init, Known, CreatedCanLogin
<1>2. IInv /\ Known /\ [Next]_vars => Known'
  BY KnownStep
<1>3. Known => CreatedCanLogin
  BY DEF Known
<1> QED
  BY <1>1, <1>2, <1>3, Invariant, PTL DEF Spec
=============================================================================
