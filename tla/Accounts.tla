------------------------------ MODULE Accounts ------------------------------
(***************************************************************************)
(* Registration and login of the Identity service: the limiter checks, the *)
(* password work between them and the transaction that makes the account   *)
(* or the session, for requests that interleave at every step.             *)
(*                                                                         *)
(* A password hash is a record of the password, of whether its parameters  *)
(* are current, and of the request that computed it (its salt).            *)
(***************************************************************************)
EXTENDS RollingWindow

CONSTANTS
    Email, Network, Password,
    EmailKey,        \* email -> its key under login_email_failure
    LoginKey,        \* network -> its key under login_ip_attempt
    RegistrationKey, \* network -> its key under registration_ip_attempt
    Nobody,          \* no request; the owner of what was there before
    MaxClock,        \* bound on real time
    Lag,             \* how far the clock of an API host may lag
    Faults           \* TRUE when the database may fail

ASSUME AccountAssumption ==
    /\ Email # {} /\ Network # {}
    /\ EmailKey \in [Email -> Key]
    /\ LoginKey \in [Network -> Key]
    /\ RegistrationKey \in [Network -> Key]
    /\ Nobody \notin Attempt
    /\ MaxClock \in Nat /\ Lag \in Nat /\ Faults \in BOOLEAN

VARIABLES
    clock,
    users,           \* users, by normalized email
    events,          \* auth_rate_limit_events
    sessions,        \* initial refresh sessions: request -> the email
    audit,           \* audit records: request -> the actions recorded for it
    input,           \* request -> what the caller sent, and the host's `now`
    pc,
    read,            \* request -> the user it read
    answer           \* request -> what the caller is told

vars == <<clock, users, events, sessions, audit, input, pc, read, answer>>

Hash == [password : Password, current : BOOLEAN, salt : Attempt \cup {Nobody}]

User == [owner : Attempt \cup {Nobody}, hash : Hash, status : {"active", "disabled"}]

NoUser == [status |-> "none"]

Input == [email : Email, network : Network, password : Password, now : -Lag..MaxClock]

\* What stands for the input of a request that has not begun.
NoInput ==
    [email |-> CHOOSE e \in Email : TRUE, network |-> CHOOSE n \in Network : TRUE,
     password |-> CHOOSE p \in Password : TRUE, now |-> 0]

Action == {"registration_success", "registration_failure", "login_success",
           "login_failure", "disabled_account_rejection"}

PC == {"idle", "register_network", "hash", "login_network", "login_email", "find",
       "verify", "reset", "rehash", "session", "done"}

Answer == {"none", "registered", "logged_in", "invalid", "rejected", "failed", "limited",
           "unavailable"}

Now == (clock - Lag)..clock

Goto(r, step) == pc' = [pc EXCEPT ![r] = step]

Finish(r, result) == Goto(r, "done") /\ answer' = [answer EXCEPT ![r] = result]

Record(r, actions) == audit' = [audit EXCEPT ![r] = @ \cup actions]

\* Failure evidence is written when it can be, and its error ignored.
AppendFailureAudit(r, actions) ==
    \E written \in IF Faults THEN SUBSET actions ELSE {actions} : Record(r, written)

Unchanged == UNCHANGED <<clock, input>>

\* ErrAuthenticationService: nothing more happens, nothing is recorded.
Unavailable(r) ==
    /\ Finish(r, "unavailable")
    /\ UNCHANGED <<users, events, sessions, audit, read>>
    /\ Unchanged

\* One limiter check, in a transaction of its own, and what follows it.
CheckRateLimit(r, step, k, next) ==
    /\ pc[r] = step
    /\ \/ /\ events' = Checked(events, r, k, input[r].now)
          /\ IF Allowed(events, k, input[r].now)
             THEN Goto(r, next) /\ UNCHANGED answer
             ELSE Finish(r, "limited")
          /\ UNCHANGED <<users, sessions, audit, read>>
          /\ Unchanged
       \/ Faults /\ Unavailable(r)

Arrive(r, step) ==
    /\ pc[r] = "idle"
    /\ \E e \in Email, n \in Network, p \in Password, now \in Now :
           input' = [input EXCEPT ![r] = [email |-> e, network |-> n, password |-> p, now |-> now]]
    /\ Goto(r, step)
    /\ UNCHANGED <<clock, users, events, sessions, audit, read, answer>>

\* A body, an email or a network that is not valid leaves no trace.
RejectInvalid(r) ==
    /\ pc[r] = "idle"
    /\ Finish(r, "invalid")
    /\ UNCHANGED <<clock, users, events, sessions, audit, input, read>>

-----------------------------------------------------------------------------
(* Registration *)

\* The password policy, and the work that is done before the transaction: an
\* identifier, a credential or a token that cannot be made ends the request.
HashPassword(r) ==
    /\ pc[r] = "hash"
    /\ \/ /\ \/ Goto(r, "session") /\ UNCHANGED <<answer, audit>>
             \/ Finish(r, "invalid") /\ AppendFailureAudit(r, {"registration_failure"})
          /\ UNCHANGED <<users, events, sessions, read>>
          /\ Unchanged
       \/ Faults /\ Unavailable(r)

NewHash(r) == [password |-> input[r].password, current |-> TRUE, salt |-> r]

NewActiveUser(r) == [owner |-> r, hash |-> NewHash(r), status |-> "active"]

\* A plausible bug: the insert takes over the row of the email.
UpsertUser(r) == users' = [users EXCEPT ![input[r].email] = NewActiveUser(r)]

\* The unique index on the normalized email decides between requests.
CreateUser(r) ==
    /\ users[input[r].email] = NoUser
    /\ users' = [users EXCEPT ![input[r].email] = NewActiveUser(r)]

CreateInitialSession(r) == sessions' = [sessions EXCEPT ![r] = {input[r].email}]

Registering(r) == pc[r] = "session" /\ read[r] = NoUser

\* A plausible bug: the evidence is written after the transaction, if it can be.
RegisterThenRecord(r) ==
    /\ Registering(r)
    /\ CreateUser(r)
    /\ CreateInitialSession(r)
    /\ AppendFailureAudit(r, {"registration_success"})
    /\ Finish(r, "registered")
    /\ UNCHANGED <<events, read>>
    /\ Unchanged

\* The account, its first session and the evidence, in one transaction.
Register(r) ==
    /\ Registering(r)
    /\ CreateUser(r)
    /\ CreateInitialSession(r)
    /\ Record(r, {"registration_success"})
    /\ Finish(r, "registered")
    /\ UNCHANGED <<events, read>>
    /\ Unchanged

RejectDuplicate(r) ==
    /\ Registering(r)
    /\ users[input[r].email] # NoUser
    /\ AppendFailureAudit(r, {"registration_failure"})
    /\ Finish(r, "rejected")
    /\ UNCHANGED <<users, events, sessions, read>>
    /\ Unchanged

\* The transaction is rolled back; or it commits, and the answer is lost.
RegistrationFails(r) ==
    /\ Faults
    /\ Registering(r)
    /\ \/ /\ AppendFailureAudit(r, {"registration_failure"})
          /\ UNCHANGED <<users, sessions>>
       \/ /\ CreateUser(r)
          /\ CreateInitialSession(r)
          /\ \/ Record(r, {"registration_success", "registration_failure"})
             \/ Record(r, {"registration_success"})
    /\ Finish(r, "unavailable")
    /\ UNCHANGED <<events, read>>
    /\ Unchanged

-----------------------------------------------------------------------------
(* Login *)

\* A user that cannot be read is one that does not exist.
Find(r) ==
    /\ pc[r] = "find"
    /\ \/ read' = [read EXCEPT ![r] = users[input[r].email]]
       \/ Faults /\ UNCHANGED read
    /\ Goto(r, "verify")
    /\ UNCHANGED <<users, events, sessions, audit, answer>>
    /\ Unchanged

\* An unknown email is verified against a dummy hash, and fails like a
\* wrong password.
Verified(r) ==
    /\ read[r] # NoUser
    /\ read[r].hash.password = input[r].password

Verify(r) ==
    /\ pc[r] = "verify"
    /\ IF Verified(r) /\ read[r].status = "active"
       THEN Goto(r, "reset") /\ UNCHANGED <<answer, audit>>
       ELSE /\ Finish(r, "failed")
            /\ AppendFailureAudit(r,
                   {"login_failure"} \cup
                   (IF read[r].status = "disabled" THEN {"disabled_account_rejection"} ELSE {}))
    /\ UNCHANGED <<users, events, sessions, read>>
    /\ Unchanged

ResetLoginEmailFailures(r) ==
    /\ pc[r] = "reset"
    /\ \/ /\ events' = Cleared(events, EmailKey[input[r].email])
          /\ Goto(r, IF read[r].hash.current THEN "session" ELSE "rehash")
          /\ UNCHANGED <<users, sessions, audit, read, answer>>
          /\ Unchanged
       \/ Faults /\ Unavailable(r)

\* A plausible bug: the hash is replaced whatever it is by now.
ReplaceHash(r) == users' = [users EXCEPT ![input[r].email].hash = NewHash(r)]

\* Only the hash that the password was verified against is replaced.
CompareAndSwapPasswordHash(r) ==
    IF users[input[r].email].hash = read[r].hash
    THEN users' = [users EXCEPT ![input[r].email].hash = NewHash(r)]
    ELSE UNCHANGED users

BestEffortRehash(r) ==
    /\ pc[r] = "rehash"
    /\ CompareAndSwapPasswordHash(r) \/ (Faults /\ UNCHANGED users)
    /\ Goto(r, "session")
    /\ UNCHANGED <<events, sessions, audit, read, answer>>
    /\ Unchanged

LoggingIn(r) == pc[r] = "session" /\ read[r] # NoUser

\* The session and its evidence, in one transaction that reads no user.
CreateLoginSession(r) ==
    /\ LoggingIn(r)
    /\ CreateInitialSession(r)
    /\ Record(r, {"login_success"})
    /\ Finish(r, "logged_in")
    /\ UNCHANGED <<users, events, read>>
    /\ Unchanged

LoginFails(r) ==
    /\ Faults
    /\ LoggingIn(r)
    /\ \/ UNCHANGED <<sessions, audit>>
       \/ CreateInitialSession(r) /\ Record(r, {"login_success"})
    /\ Finish(r, "unavailable")
    /\ UNCHANGED <<users, events, read>>
    /\ Unchanged

-----------------------------------------------------------------------------
(* What else happens *)

\* An operator disables an account.
DisableUser(e) ==
    /\ users[e] # NoUser
    /\ users[e].status = "active"
    /\ users' = [users EXCEPT ![e].status = "disabled"]
    /\ UNCHANGED <<clock, events, sessions, audit, input, pc, read, answer>>

Tick ==
    /\ clock < MaxClock
    /\ clock' = clock + 1
    /\ UNCHANGED <<users, events, sessions, audit, input, pc, read, answer>>

\* Some emails have an account already, with a hash of older parameters.
Init ==
    /\ clock = 0
    /\ \E p \in Password :
           users \in [Email -> {NoUser, [owner |-> Nobody, status |-> "active",
                hash |-> [password |-> p, current |-> FALSE, salt |-> Nobody]]}]
    /\ events = {}
    /\ sessions = [r \in Attempt |-> {}]
    /\ audit = [r \in Attempt |-> {}]
    /\ input = [r \in Attempt |-> NoInput]
    /\ pc = [r \in Attempt |-> "idle"]
    /\ read = [r \in Attempt |-> NoUser]
    /\ answer = [r \in Attempt |-> "none"]

Step(r) ==
    \/ CheckRateLimit(r, "register_network", RegistrationKey[input[r].network], "hash")
    \/ CheckRateLimit(r, "login_network", LoginKey[input[r].network], "login_email")
    \/ CheckRateLimit(r, "login_email", EmailKey[input[r].email], "find")
    \/ HashPassword(r) \/ Register(r) \/ RejectDuplicate(r) \/ RegistrationFails(r)
    \/ Find(r) \/ Verify(r) \/ ResetLoginEmailFailures(r) \/ BestEffortRehash(r)
    \/ CreateLoginSession(r) \/ LoginFails(r)

Next ==
    \/ \E r \in Attempt :
           \/ Arrive(r, "register_network")
           \/ Arrive(r, "login_network")
           \/ RejectInvalid(r)
           \/ Step(r)
    \/ \E e \in Email : DisableUser(e)
    \/ Tick

Spec == Init /\ [][Next]_vars

-----------------------------------------------------------------------------
(* Properties *)

\* The variables stay in their types.
TypeOK ==
    /\ clock \in 0..MaxClock
    /\ users \in [Email -> User \cup {NoUser}]
    /\ events \subseteq RateEvent
    /\ sessions \in [Attempt -> SUBSET Email]
    /\ audit \in [Attempt -> SUBSET Action]
    /\ input \in [Attempt -> Input]
    /\ pc \in [Attempt -> PC]
    /\ read \in [Attempt -> User \cup {NoUser}]
    /\ answer \in [Attempt -> Answer]

\* Whoever is told that it registered an email owns the account, so two
\* registrations of one email are never both answered with success, and no
\* registration takes over an account that was there.
RegistrationOwnsAccount ==
    \A r \in Attempt :
        "registration_success" \in audit[r] => users[input[r].email].owner = r

\* A session exists iff the success of the request that began it is on
\* record, also when the caller was told that the service is unavailable;
\* a request that was refused has neither.
EvidenceMatchesSessions ==
    \A r \in Attempt :
        /\ sessions[r] # {} <=> audit[r] \cap {"registration_success", "login_success"} # {}
        /\ answer[r] \in {"registered", "logged_in"} => sessions[r] # {}
        /\ answer[r] \in {"invalid", "rejected", "failed", "limited"} => sessions[r] = {}

\* Every session has an account of its evidence, in well-typed states.
SessionsAccountedFor == TypeOK /\ EvidenceMatchesSessions

\* Logins that rehash at a time agree on one hash: once a hash has current
\* parameters no login that verified an older one replaces it.
UpgradedHashIsFinal ==
    [][\A e \in Email :
           users[e] # NoUser /\ users[e].hash.current
           => users'[e].hash = users[e].hash]_vars

=============================================================================
