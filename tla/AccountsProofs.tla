--------------------------- MODULE AccountsProofs ---------------------------
(***************************************************************************)
(* Registration and login for any number of requests, emails, networks and *)
(* passwords, whatever the limits and however the requests interleave.     *)
(***************************************************************************)
EXTENDS Accounts, TLAPS

BeforeRead == {"idle", "register_network", "hash", "login_network", "login_email", "find"}

\* What a login knows while it goes on: the user it read is still there, and
\* a hash it is about to replace had old parameters.
Informed(r) ==
    /\ pc[r] \in BeforeRead => read[r] = NoUser
    /\ pc[r] \in {"reset", "rehash"} => read[r] # NoUser
    /\ pc[r] = "rehash" => ~read[r].hash.current
    /\ read[r] # NoUser => users[input[r].email] # NoUser

\* The evidence of success, the session and the account come together, when a
\* request ends; until then there is nothing.
Accountable(r) ==
    /\ pc[r] # "done" => sessions[r] = {} /\ audit[r] = {} /\ answer[r] = "none"
    /\ sessions[r] # {} <=> audit[r] \cap {"registration_success", "login_success"} # {}
    /\ answer[r] \in {"registered", "logged_in"} => sessions[r] # {}
    /\ answer[r] \in {"invalid", "rejected", "failed", "limited"} => sessions[r] = {}
    /\ "registration_success" \in audit[r]
           => /\ users[input[r].email] # NoUser
              /\ users[input[r].email].owner = r

Inv == TypeOK /\ \A r \in Attempt : Informed(r) /\ Accountable(r)

\* Accounts stay, with their owners.
AccountsStay ==
    \A e \in Email : users[e] # NoUser => users'[e] # NoUser /\ users'[e].owner = users[e].owner

\* A step of one request leaves what the others have.
OthersKept(r) ==
    \A q \in Attempt \ {r} :
        /\ pc'[q] = pc[q] /\ read'[q] = read[q] /\ answer'[q] = answer[q]
        /\ audit'[q] = audit[q] /\ sessions'[q] = sessions[q] /\ input'[q] = input[q]

LEMMA UserIsAUser == \A u \in User : u # NoUser /\ u.hash \in Hash
<1>1. \A u \in User : u.status # NoUser.status /\ u.hash \in Hash
  BY DEF User, NoUser
<1> QED BY <1>1

LEMMA InitInv == Init => Inv
<1> SUFFICES ASSUME Init PROVE Inv
  OBVIOUS
<1>1. PICK p \in Password :
          users \in [Email -> {NoUser, [owner |-> Nobody, status |-> "active",
                hash |-> [password |-> p, current |-> FALSE, salt |-> Nobody]]}]
  BY DEF Init
<1>2. [owner |-> Nobody, status |-> "active",
       hash |-> [password |-> p, current |-> FALSE, salt |-> Nobody]] \in User
  BY DEF User, Hash
<1>2a. users \in [Email -> User \cup {NoUser}]
  BY <1>1, <1>2
<1>3. NoInput \in Input
  <2>1. (CHOOSE e \in Email : TRUE) \in Email /\ (CHOOSE n \in Network : TRUE) \in Network
    BY AccountAssumption
  <2>2. (CHOOSE q \in Password : TRUE) \in Password
    BY <1>1
  <2>3. 0 \in -Lag..MaxClock
    BY AccountAssumption
  <2> QED BY <2>1, <2>2, <2>3 DEF NoInput, Input
<1>4. TypeOK
  BY <1>2a, <1>3, AccountAssumption DEF Init, TypeOK, PC, Answer
<1>5. ASSUME NEW r \in Attempt PROVE Informed(r) /\ Accountable(r)
  BY DEF Init, Informed, Accountable
<1> QED BY <1>4, <1>5 DEF Inv

\* A step of a request need only be looked at from its own side.
LEMMA StepOfRequest ==
    ASSUME Inv, NEW r \in Attempt, AccountsStay, OthersKept(r),
           TypeOK', Informed(r)', Accountable(r)'
    PROVE  Inv'
<1>1. ASSUME NEW q \in Attempt \ {r} PROVE Informed(q)' /\ Accountable(q)'
  <2>1. input[q].email \in Email
    BY DEF Inv, TypeOK, Input
  <2>2. Informed(q)'
    BY <2>1 DEF Inv, Informed, OthersKept, AccountsStay
  <2>3. Accountable(q)'
    BY <2>1 DEF Inv, Accountable, OthersKept, AccountsStay
  <2> QED BY <2>2, <2>3
<1> QED BY <1>1 DEF Inv

LEMMA CheckedEvents ==
    ASSUME events \subseteq RateEvent, NEW r \in Attempt, NEW k \in Key, NEW now \in Int
    PROVE  Checked(events, r, k, now) \subseteq RateEvent
<1>1. now + Window[k] \in Int
  BY PolicyAssumption
<1>2. NewEvent(r, k, now) \in RateEvent
  BY <1>1 DEF NewEvent, RateEvent
<1> QED BY <1>2 DEF Checked, DeleteExpired

LEMMA ClearedEvents ==
    ASSUME events \subseteq RateEvent, NEW k PROVE Cleared(events, k) \subseteq RateEvent
BY DEF Cleared

Success == {"registration_success", "login_success"}

\* What the actions that refuse a request, or cannot answer it, have in common.
LEMMA RefusalKeepsInv ==
    ASSUME Inv, NEW r \in Attempt, pc[r] # "done",
           NEW result \in {"invalid", "rejected", "failed", "limited", "unavailable"},
           NEW actions \in SUBSET (Action \ Success),
           Finish(r, result), Record(r, actions), events' \subseteq RateEvent,
           UNCHANGED <<clock, users, sessions, input, read>>
    PROVE  Inv'
<1>1. TypeOK'
  BY DEF Inv, TypeOK, Finish, Goto, Record, PC, Answer
<1>2. AccountsStay
  BY DEF AccountsStay
<1>3. OthersKept(r)
  BY DEF OthersKept, Finish, Goto, Record, Inv, TypeOK
<1>4. pc'[r] = "done" /\ answer'[r] = result /\ audit'[r] = actions
  BY DEF Finish, Goto, Record, Inv, TypeOK, Accountable
<1>5. Informed(r)'
  BY <1>4 DEF Inv, Informed, BeforeRead
<1>6. Accountable(r)'
  BY <1>4 DEF Inv, Accountable, Success
<1> QED BY <1>1, <1>2, <1>3, <1>5, <1>6, StepOfRequest

LEMMA FailureAudit ==
    ASSUME NEW r, NEW actions, AppendFailureAudit(r, actions)
    PROVE  \E written \in SUBSET actions : Record(r, written)
BY DEF AppendFailureAudit

LEMMA NothingRecorded ==
    ASSUME Inv, NEW r \in Attempt, UNCHANGED audit PROVE Record(r, {})
BY DEF Record, Inv, TypeOK

LEMMA UnavailableKeepsInv ==
    ASSUME Inv, NEW r \in Attempt, pc[r] # "done", Unavailable(r) PROVE Inv'
<1>1. Record(r, {})
  BY NothingRecorded DEF Unavailable
<1>2. events \subseteq RateEvent
  BY DEF Inv, TypeOK
<1> QED BY <1>1, <1>2, RefusalKeepsInv DEF Unavailable, Unchanged

\* A request goes on, without an effect of its own on accounts or evidence.
LEMMA ProgressKeepsInv ==
    ASSUME Inv, NEW r \in Attempt, pc[r] # "done", NEW step \in PC, step # "done", Goto(r, step),
           users' \in [Email -> User \cup {NoUser}], AccountsStay, events' \subseteq RateEvent,
           read' \in [Attempt -> User \cup {NoUser}],
           \A q \in Attempt \ {r} : read'[q] = read[q],
           step \in BeforeRead => read'[r] = NoUser,
           step \in {"reset", "rehash"} => read'[r] # NoUser,
           step = "rehash" => ~read'[r].hash.current,
           read'[r] # NoUser => users'[input[r].email] # NoUser,
           UNCHANGED <<clock, sessions, audit, input, answer>>
    PROVE  Inv'
<1>1. TypeOK'
  BY DEF Inv, TypeOK, Goto
<1>2. OthersKept(r)
  BY DEF OthersKept, Goto, Inv, TypeOK
<1>3. pc'[r] = step
  BY DEF Goto, Inv, TypeOK
<1>4. Informed(r)'
  BY <1>3 DEF Informed
<1>5. Accountable(r)'
  BY <1>3 DEF Inv, Accountable
<1> QED BY <1>1, <1>2, <1>4, <1>5, StepOfRequest

LEMMA CheckKeepsInv ==
    ASSUME Inv, NEW r \in Attempt, NEW step \in BeforeRead, NEW next \in BeforeRead, NEW k \in Key,
           CheckRateLimit(r, step, k, next)
    PROVE  Inv'
<1>1. pc[r] # "done" /\ next # "done" /\ next \in PC /\ next \notin {"reset", "rehash"}
  BY DEF CheckRateLimit, BeforeRead, PC
<1>2. read[r] = NoUser
  BY DEF CheckRateLimit, Inv, Informed
<1>3. CASE Unavailable(r)
  BY <1>1, <1>3, UnavailableKeepsInv
<1>4. CASE /\ events' = Checked(events, r, k, input[r].now)
           /\ IF Allowed(events, k, input[r].now)
              THEN Goto(r, next) /\ UNCHANGED answer
              ELSE Finish(r, "limited")
           /\ UNCHANGED <<users, sessions, audit, read>>
           /\ Unchanged
  <2>1. input[r].now \in Int /\ events \subseteq RateEvent
    BY AccountAssumption DEF Inv, TypeOK, Input
  <2>2. events' \subseteq RateEvent
    BY <1>4, <2>1, CheckedEvents
  <2>3. CASE Goto(r, next) /\ UNCHANGED answer
    <3>1. AccountsStay
      BY <1>4 DEF AccountsStay
    <3>2. users' \in [Email -> User \cup {NoUser}] /\ read' \in [Attempt -> User \cup {NoUser}]
      BY <1>4 DEF Inv, TypeOK
    <3> QED BY <1>1, <1>2, <1>4, <2>2, <2>3, <3>1, <3>2, ProgressKeepsInv DEF Unchanged
  <2>4. CASE Finish(r, "limited")
    <3>1. Record(r, {})
      BY <1>4, NothingRecorded
    <3> QED BY <1>1, <1>4, <2>2, <2>4, <3>1, RefusalKeepsInv DEF Unchanged
  <2> QED BY <1>4, <2>3, <2>4
<1> QED BY <1>3, <1>4 DEF CheckRateLimit

LEMMA ArriveKeepsInv ==
    ASSUME Inv, NEW r \in Attempt, NEW step \in {"register_network", "login_network"},
           Arrive(r, step)
    PROVE  Inv'
<1>1. PICK e \in Email, n \in Network, p \in Password, now \in Now :
          input' = [input EXCEPT ![r] = [email |-> e, network |-> n, password |-> p, now |-> now]]
  BY DEF Arrive
<1>2. now \in -Lag..MaxClock
  BY AccountAssumption DEF Now, Inv, TypeOK
<1>3. input' \in [Attempt -> Input]
  BY <1>1, <1>2 DEF Inv, TypeOK, Input
<1>4. TypeOK'
  BY <1>3 DEF Inv, TypeOK, Arrive, Goto, PC
<1>5. AccountsStay
  BY DEF AccountsStay, Arrive
<1>6. OthersKept(r)
  BY <1>1 DEF OthersKept, Arrive, Goto, Inv, TypeOK
<1>7. pc[r] = "idle" /\ pc'[r] = step /\ read'[r] = NoUser
  BY DEF Arrive, Goto, Inv, TypeOK, Informed, BeforeRead
<1>8. Informed(r)'
  BY <1>7 DEF Informed, BeforeRead
<1>9. Accountable(r)'
  BY <1>7 DEF Inv, Accountable, Arrive
<1> QED BY <1>4, <1>5, <1>6, <1>8, <1>9, StepOfRequest

LEMMA SuccessKeepsInv ==
    ASSUME Inv, NEW r \in Attempt, pc[r] # "done",
           NEW result \in {"registered", "logged_in", "unavailable"},
           NEW actions \in SUBSET Action, actions \cap Success # {},
           Finish(r, result), Record(r, actions), CreateInitialSession(r),
           users' \in [Email -> User \cup {NoUser}], AccountsStay,
           "registration_success" \in actions
               => users'[input[r].email] # NoUser /\ users'[input[r].email].owner = r,
           UNCHANGED <<clock, events, input, read>>
    PROVE  Inv'
<1>1. input[r].email \in Email
  BY DEF Inv, TypeOK, Input
<1>2. TypeOK'
  BY <1>1 DEF Inv, TypeOK, Finish, Goto, Record, CreateInitialSession, PC, Answer
<1>3. OthersKept(r)
  BY DEF OthersKept, Finish, Goto, Record, CreateInitialSession, Inv, TypeOK
<1>4. /\ pc'[r] = "done" /\ answer'[r] = result /\ audit'[r] = actions
      /\ sessions'[r] = {input[r].email}
  BY DEF Finish, Goto, Record, CreateInitialSession, Inv, TypeOK, Accountable
<1>5. Informed(r)'
  BY <1>1, <1>4 DEF Inv, Informed, BeforeRead, AccountsStay
<1>6. Accountable(r)'
  BY <1>4 DEF Inv, Accountable, Success
<1> QED BY <1>2, <1>3, <1>5, <1>6, StepOfRequest

LEMMA CreatedUser ==
    ASSUME Inv, NEW r \in Attempt, CreateUser(r)
    PROVE  /\ users' \in [Email -> User \cup {NoUser}] /\ AccountsStay
           /\ users'[input[r].email] # NoUser /\ users'[input[r].email].owner = r
<1>1. input[r].email \in Email /\ input[r].password \in Password
  BY DEF Inv, TypeOK, Input
<1>2. NewActiveUser(r) \in User /\ NewActiveUser(r).owner = r
  BY <1>1 DEF NewActiveUser, NewHash, User, Hash
<1>3. users' = [users EXCEPT ![input[r].email] = NewActiveUser(r)]
  BY DEF CreateUser
<1>4. users[input[r].email] = NoUser
  BY DEF CreateUser
<1> HIDE DEF CreateUser
<1>5. users \in [Email -> User \cup {NoUser}]
  BY DEF Inv, TypeOK
<1> QED BY <1>1, <1>2, <1>3, <1>4, <1>5, UserIsAUser DEF AccountsStay

LEMMA RegistrationKeepsInv ==
    ASSUME Inv, NEW r \in Attempt,
           HashPassword(r) \/ Register(r) \/ RejectDuplicate(r) \/ RegistrationFails(r)
    PROVE  Inv'
<1> USE DEF Unchanged
<1>1. events \subseteq RateEvent
  BY DEF Inv, TypeOK
<1>2. CASE HashPassword(r)
  <2>1. pc[r] = "hash" /\ read[r] = NoUser
    BY <1>2 DEF HashPassword, Inv, Informed, BeforeRead
  <2>2. CASE Goto(r, "session") /\ UNCHANGED <<answer, audit>> /\ UNCHANGED <<events, sessions, read>>
             /\ UNCHANGED users /\ Unchanged
    <3>1. AccountsStay
      BY <2>2 DEF AccountsStay
    <3>2. users' \in [Email -> User \cup {NoUser}] /\ read' \in [Attempt -> User \cup {NoUser}]
      BY <2>2 DEF Inv, TypeOK
    <3>3. "session" \in PC /\ "session" \notin BeforeRead
      BY DEF PC, BeforeRead
    <3> QED BY <1>1, <2>1, <2>2, <3>1, <3>2, <3>3, ProgressKeepsInv
  <2>3. CASE Finish(r, "invalid") /\ AppendFailureAudit(r, {"registration_failure"})
             /\ UNCHANGED <<events, sessions, read>> /\ UNCHANGED users /\ Unchanged
    <3>1. PICK written \in SUBSET {"registration_failure"} : Record(r, written)
      BY <2>3, FailureAudit
    <3>2. written \in SUBSET (Action \ Success)
      BY DEF Action, Success
    <3> QED BY <1>1, <2>1, <2>3, <3>1, <3>2, RefusalKeepsInv
  <2>4. CASE Unavailable(r)
    BY <2>1, <2>4, UnavailableKeepsInv
  <2> QED BY <1>2, <2>2, <2>3, <2>4 DEF HashPassword
<1>3. CASE Register(r)
  <2>1. pc[r] # "done"
    BY <1>3 DEF Register, Registering
  <2>2. {"registration_success"} \in SUBSET Action /\ {"registration_success"} \cap Success # {}
    BY DEF Action, Success
  <2>3. CreateUser(r)
    BY <1>3 DEF Register
  <2> QED BY <1>3, <2>1, <2>2, <2>3, CreatedUser, SuccessKeepsInv DEF Register
<1>4. CASE RejectDuplicate(r)
  <2>1. PICK written \in SUBSET {"registration_failure"} : Record(r, written)
    BY <1>4, FailureAudit DEF RejectDuplicate
  <2>2. written \in SUBSET (Action \ Success)
    BY DEF Action, Success
  <2>3. pc[r] # "done"
    BY <1>4 DEF RejectDuplicate, Registering
  <2> QED BY <1>1, <1>4, <2>1, <2>2, <2>3, RefusalKeepsInv DEF RejectDuplicate
<1>5. CASE RegistrationFails(r)
  <2>1. pc[r] # "done"
    BY <1>5 DEF RegistrationFails, Registering
  <2>2. CASE AppendFailureAudit(r, {"registration_failure"}) /\ UNCHANGED <<users, sessions>>
    <3>1. PICK written \in SUBSET {"registration_failure"} : Record(r, written)
      BY <2>2, FailureAudit
    <3>2. written \in SUBSET (Action \ Success)
      BY DEF Action, Success
    <3> QED BY <1>1, <1>5, <2>1, <2>2, <3>1, <3>2, RefusalKeepsInv DEF RegistrationFails
  <2>3. CASE CreateUser(r) /\ CreateInitialSession(r)
             /\ \/ Record(r, {"registration_success", "registration_failure"})
                \/ Record(r, {"registration_success"})
    <3>1. PICK actions \in {{"registration_success", "registration_failure"},
                            {"registration_success"}} : Record(r, actions)
      BY <2>3
    <3>2. actions \in SUBSET Action /\ actions \cap Success # {}
      BY DEF Action, Success
    <3> QED BY <1>5, <2>1, <2>3, <3>1, <3>2, CreatedUser, SuccessKeepsInv DEF RegistrationFails
  <2> QED BY <1>5, <2>2, <2>3 DEF RegistrationFails
<1> QED BY <1>2, <1>3, <1>4, <1>5

LEMMA FindKeepsInv == ASSUME Inv, NEW r \in Attempt, Find(r) PROVE Inv'
<1>1. input[r].email \in Email
  BY DEF Inv, TypeOK, Input
<1>2. /\ pc[r] = "find" /\ read[r] = NoUser /\ Goto(r, "verify")
      /\ UNCHANGED <<clock, users, events, sessions, audit, input, answer>>
  BY DEF Find, Unchanged, Inv, Informed, BeforeRead
<1>3. /\ read' \in [Attempt -> User \cup {NoUser}]
      /\ \A q \in Attempt \ {r} : read'[q] = read[q]
      /\ read'[r] # NoUser => users'[input[r].email] # NoUser
  BY <1>1, <1>2 DEF Find, Inv, TypeOK
<1>4. AccountsStay /\ users' \in [Email -> User \cup {NoUser}] /\ events' \subseteq RateEvent
  BY <1>2 DEF AccountsStay, Inv, TypeOK
<1>5. "verify" \in PC /\ "verify" \notin BeforeRead
  BY DEF PC, BeforeRead
<1> QED BY <1>2, <1>3, <1>4, <1>5, ProgressKeepsInv

LEMMA VerifyKeepsInv == ASSUME Inv, NEW r \in Attempt, Verify(r) PROVE Inv'
<1>1. /\ pc[r] = "verify" /\ events \subseteq RateEvent
      /\ UNCHANGED <<clock, users, events, sessions, input, read>>
  BY DEF Verify, Unchanged, Inv, TypeOK
<1>2. CASE Verified(r) /\ Goto(r, "reset") /\ UNCHANGED <<answer, audit>>
  <2>1. read[r] # NoUser /\ users[input[r].email] # NoUser
    BY <1>2 DEF Verified, Inv, Informed
  <2>2. AccountsStay
    BY <1>1 DEF AccountsStay
  <2>3. users' \in [Email -> User \cup {NoUser}] /\ read' \in [Attempt -> User \cup {NoUser}]
    BY <1>1 DEF Inv, TypeOK
  <2>4. "reset" \in PC /\ "reset" \notin BeforeRead
    BY DEF PC, BeforeRead
  <2> QED BY <1>1, <1>2, <2>1, <2>2, <2>3, <2>4, ProgressKeepsInv
<1>3. CASE Finish(r, "failed")
           /\ AppendFailureAudit(r, {"login_failure"} \cup
                   (IF read[r].status = "disabled" THEN {"disabled_account_rejection"} ELSE {}))
  <2>1. PICK written \in SUBSET {"login_failure", "disabled_account_rejection"} :
            Record(r, written)
    BY <1>3, FailureAudit
  <2>2. written \in SUBSET (Action \ Success)
    BY DEF Action, Success
  <2> QED BY <1>1, <1>3, <2>1, <2>2, RefusalKeepsInv
<1> QED BY <1>2, <1>3 DEF Verify

LEMMA ResetKeepsInv ==
    ASSUME Inv, NEW r \in Attempt, ResetLoginEmailFailures(r) PROVE Inv'
<1>1. pc[r] = "reset" /\ read[r] # NoUser /\ users[input[r].email] # NoUser
  BY DEF ResetLoginEmailFailures, Inv, Informed
<1>2. CASE Unavailable(r)
  BY <1>1, <1>2, UnavailableKeepsInv
<1>3. CASE /\ events' = Cleared(events, EmailKey[input[r].email])
           /\ Goto(r, IF read[r].hash.current THEN "session" ELSE "rehash")
           /\ UNCHANGED <<clock, input, users, sessions, audit, read, answer>>
  <2>1. AccountsStay
    BY <1>3 DEF AccountsStay
  <2>2. events' \subseteq RateEvent
    BY <1>3, ClearedEvents DEF Inv, TypeOK
  <2>3. users' \in [Email -> User \cup {NoUser}] /\ read' \in [Attempt -> User \cup {NoUser}]
    BY <1>3 DEF Inv, TypeOK
  <2>4. PICK step \in {"session", "rehash"} :
            Goto(r, step) /\ (step = "rehash" => ~read[r].hash.current)
    BY <1>3
  <2>5. step \in PC /\ step \notin BeforeRead /\ step # "done"
    BY DEF PC, BeforeRead
  <2> QED BY <1>1, <1>3, <2>1, <2>2, <2>3, <2>4, <2>5, ProgressKeepsInv
<1> QED BY <1>2, <1>3 DEF ResetLoginEmailFailures, Unchanged

\* A rehash touches a hash of old parameters only: the one that was verified.
LEMMA Rehashed ==
    ASSUME Inv, NEW r \in Attempt, pc[r] = "rehash",
           CompareAndSwapPasswordHash(r) \/ UNCHANGED users
    PROVE  /\ users' \in [Email -> User \cup {NoUser}] /\ AccountsStay
           /\ \A e \in Email :
                  users[e] # NoUser /\ users[e].hash.current => users'[e].hash = users[e].hash
<1>1. /\ input[r].email \in Email /\ input[r].password \in Password
      /\ read[r] # NoUser /\ ~read[r].hash.current /\ users[input[r].email] # NoUser
      /\ users \in [Email -> User \cup {NoUser}]
  BY DEF Inv, TypeOK, Input, Informed
<1>2. NewHash(r) \in Hash
  BY <1>1 DEF NewHash, Hash
<1>3. CASE UNCHANGED users
  BY <1>1, <1>3 DEF AccountsStay
<1>4. CASE /\ users[input[r].email].hash = read[r].hash
           /\ users' = [users EXCEPT ![input[r].email].hash = NewHash(r)]
  <2>1. users[input[r].email] \in User
    BY <1>1
  <2> DEFINE old == users[input[r].email]
             new == [old EXCEPT !.hash = NewHash(r)]
  <2>2. new \in User /\ new.owner = old.owner
    BY <1>2, <2>1 DEF User
  <2>3. users' = [users EXCEPT ![input[r].email] = new]
    BY <1>4
  <2>4. ~old.hash.current
    BY <1>1, <1>4
  <2> HIDE DEF new
  <2> QED BY <1>1, <2>2, <2>3, <2>4, UserIsAUser DEF AccountsStay
<1> QED BY <1>3, <1>4 DEF CompareAndSwapPasswordHash

LEMMA RehashKeepsInv == ASSUME Inv, NEW r \in Attempt, BestEffortRehash(r) PROVE Inv'
<1>1. /\ pc[r] = "rehash" /\ Goto(r, "session") /\ events' \subseteq RateEvent
      /\ UNCHANGED <<clock, sessions, audit, input, read, answer>>
  BY DEF BestEffortRehash, Unchanged, Inv, TypeOK
<1>2. users' \in [Email -> User \cup {NoUser}] /\ AccountsStay
  BY <1>1, Rehashed DEF BestEffortRehash
<1>3. read[r] # NoUser /\ users[input[r].email] # NoUser /\ input[r].email \in Email
  BY <1>1 DEF Inv, TypeOK, Input, Informed
<1>4. users'[input[r].email] # NoUser
  BY <1>2, <1>3 DEF AccountsStay
<1>5. read' \in [Attempt -> User \cup {NoUser}]
  BY <1>1 DEF Inv, TypeOK
<1>6. "session" \in PC /\ "session" \notin BeforeRead
  BY DEF PC, BeforeRead
<1> QED BY <1>1, <1>2, <1>4, <1>5, <1>6, ProgressKeepsInv

LEMMA LoginKeepsInv ==
    ASSUME Inv, NEW r \in Attempt, CreateLoginSession(r) \/ LoginFails(r) PROVE Inv'
<1>1. /\ pc[r] # "done" /\ events \subseteq RateEvent
      /\ UNCHANGED <<clock, users, events, input, read>>
  BY DEF CreateLoginSession, LoginFails, LoggingIn, Unchanged, Inv, TypeOK
<1>2. AccountsStay /\ users' \in [Email -> User \cup {NoUser}]
  BY <1>1 DEF AccountsStay, Inv, TypeOK
<1>3. /\ {"login_success"} \in SUBSET Action /\ {"login_success"} \cap Success # {}
      /\ "registration_success" \notin {"login_success"}
  BY DEF Action, Success
<1>4. CASE CreateInitialSession(r) /\ Record(r, {"login_success"})
  <2>1. PICK result \in {"logged_in", "unavailable"} : Finish(r, result)
    BY DEF CreateLoginSession, LoginFails
  <2> QED BY <1>1, <1>2, <1>3, <1>4, <2>1, SuccessKeepsInv
<1>5. CASE UNCHANGED <<sessions, audit>> /\ Finish(r, "unavailable")
  <2>1. Record(r, {})
    BY <1>5, NothingRecorded
  <2> QED BY <1>1, <1>5, <2>1, RefusalKeepsInv
<1> QED BY <1>4, <1>5 DEF CreateLoginSession, LoginFails

LEMMA OthersKeepInv ==
    ASSUME Inv, (\E e \in Email : DisableUser(e)) \/ Tick \/ UNCHANGED vars PROVE Inv'
<1>1. UNCHANGED <<events, sessions, audit, input, pc, read, answer>>
  BY DEF DisableUser, Tick, vars
<1>2. users' \in [Email -> User \cup {NoUser}] /\ AccountsStay
  <2>1. users \in [Email -> User \cup {NoUser}]
    BY DEF Inv, TypeOK
  <2>2. ASSUME NEW e \in Email, DisableUser(e)
        PROVE  users' \in [Email -> User \cup {NoUser}] /\ AccountsStay
    <3> DEFINE new == [users[e] EXCEPT !.status = "disabled"]
    <3>1. users[e] \in User /\ users' = [users EXCEPT ![e] = new]
      BY <2>1, <2>2 DEF DisableUser
    <3>2. new \in User /\ new.owner = users[e].owner
      BY <3>1 DEF User
    <3> HIDE DEF new
    <3> QED BY <2>1, <3>1, <3>2, UserIsAUser DEF AccountsStay
  <2>3. CASE UNCHANGED users
    BY <2>1, <2>3 DEF AccountsStay
  <2> QED BY <2>2, <2>3 DEF Tick, vars
<1>3. clock' \in 0..MaxClock
  BY AccountAssumption DEF Inv, TypeOK, DisableUser, Tick, vars
<1>4. TypeOK'
  BY <1>1, <1>2, <1>3 DEF Inv, TypeOK
<1>5. ASSUME NEW q \in Attempt PROVE Informed(q)' /\ Accountable(q)'
  <2>1. input[q].email \in Email
    BY DEF Inv, TypeOK, Input
  <2>2. Informed(q)'
    BY <1>1, <1>2, <2>1 DEF Inv, Informed, AccountsStay
  <2>3. Accountable(q)'
    BY <1>1, <1>2, <2>1 DEF Inv, Accountable, AccountsStay
  <2> QED BY <2>2, <2>3
<1> QED BY <1>4, <1>5 DEF Inv

LEMMA NextInv == Inv /\ [Next]_vars => Inv'
<1> SUFFICES ASSUME Inv, [Next]_vars PROVE Inv'
  OBVIOUS
<1>1. ASSUME NEW r \in Attempt, Step(r) PROVE Inv'
  <2>1. /\ RegistrationKey[input[r].network] \in Key /\ LoginKey[input[r].network] \in Key
        /\ EmailKey[input[r].email] \in Key
    BY AccountAssumption DEF Inv, TypeOK, Input
  <2>2. CASE \/ CheckRateLimit(r, "register_network", RegistrationKey[input[r].network], "hash")
             \/ CheckRateLimit(r, "login_network", LoginKey[input[r].network], "login_email")
             \/ CheckRateLimit(r, "login_email", EmailKey[input[r].email], "find")
    <3>1. {"register_network", "hash", "login_network", "login_email", "find"} \subseteq BeforeRead
      BY DEF BeforeRead
    <3> QED BY <2>1, <2>2, <3>1, CheckKeepsInv
  <2> QED BY <1>1, <2>2, RegistrationKeepsInv, FindKeepsInv, VerifyKeepsInv, ResetKeepsInv,
             RehashKeepsInv, LoginKeepsInv DEF Step
<1>2. ASSUME NEW r \in Attempt, RejectInvalid(r) PROVE Inv'
  <2>1. Record(r, {})
    BY <1>2, NothingRecorded DEF RejectInvalid
  <2>2. events \subseteq RateEvent
    BY DEF Inv, TypeOK
  <2> QED BY <1>2, <2>1, <2>2, RefusalKeepsInv DEF RejectInvalid
<1> QED BY <1>1, <1>2, ArriveKeepsInv, OthersKeepInv DEF Next

-----------------------------------------------------------------------------

\* A caller who is told that an email is registered for it owns the account,
\* whoever else registered or logged in to it at the time.
THEOREM AccountsHaveOneOwner == Spec => []RegistrationOwnsAccount
<1>1. Inv => RegistrationOwnsAccount
  BY DEF Inv, Accountable, RegistrationOwnsAccount
<1> QED BY InitInv, NextInv, <1>1, PTL DEF Spec

\* Sessions and evidence come together, also where the answer is lost.
THEOREM SessionsHaveEvidence == Spec => []SessionsAccountedFor
<1>1. Inv => SessionsAccountedFor
  BY DEF Inv, Accountable, SessionsAccountedFor, EvidenceMatchesSessions
<1> QED BY InitInv, NextInv, <1>1, PTL DEF Spec

\* No login undoes the rehash of another.
THEOREM UpgradesStay == Spec => UpgradedHashIsFinal
<1>1. ASSUME Inv, [Next]_vars, NEW e \in Email, users[e] # NoUser, users[e].hash.current
      PROVE  users'[e].hash = users[e].hash
  <2>1. users \in [Email -> User \cup {NoUser}] /\ users[e] \in User
    BY <1>1 DEF Inv, TypeOK
  <2>2. ASSUME NEW r \in Attempt, CreateUser(r) PROVE users'[e] = users[e]
    BY <1>1, <2>1, <2>2 DEF CreateUser
  <2>3. ASSUME NEW r \in Attempt, BestEffortRehash(r) PROVE users'[e].hash = users[e].hash
    BY <1>1, <2>3, Rehashed DEF BestEffortRehash
  <2>4. ASSUME NEW d \in Email, DisableUser(d) PROVE users'[e].hash = users[e].hash
    BY <2>1, <2>4 DEF DisableUser
  <2>5. CASE UNCHANGED users
    BY <2>5
  <2>6. ASSUME NEW r \in Attempt, Step(r)
        PROVE  CreateUser(r) \/ BestEffortRehash(r) \/ UNCHANGED users
    BY <2>6 DEF Step, CheckRateLimit, Unavailable, HashPassword, Register, RejectDuplicate,
       RegistrationFails, Find, Verify, ResetLoginEmailFailures, CreateLoginSession, LoginFails
  <2> QED BY <1>1, <2>2, <2>3, <2>4, <2>5, <2>6 DEF Next, Arrive, RejectInvalid, Tick, vars
<1>2. Inv /\ [Next]_vars
        => [\A e \in Email : users[e] # NoUser /\ users[e].hash.current
                => users'[e].hash = users[e].hash]_vars
  BY <1>1
<1> QED BY InitInv, NextInv, <1>2, PTL DEF Spec, UpgradedHashIsFinal

=============================================================================
