--------------------------- MODULE BrowserSession ---------------------------
(***************************************************************************)
(* The tabs of one browser, the cookie they share and the Identity service.*)
(* A tab keeps its access token in memory; its refresh and logout requests *)
(* run under a Web Lock where the browser has one, logins do not, and tabs *)
(* tell each other of endings by signals.                                  *)
(*                                                                         *)
(* A request is sent with the cookie of that moment, handled, received (the*)
(* browser applies Set-Cookie) and settled (the continuations in the tab). *)
(* The service handles a request in one step: RefreshRotation and Accounts *)
(* look inside.  An access token is named by the refresh token it came with*)
(***************************************************************************)
EXTENDS Integers, Sequences

CONSTANTS
    Tab, User,
    Clicks,          \* bound on what users do
    Locks,           \* TRUE when the browser supports Web Locks
    Service,         \* TRUE when the service may answer with a failure
    Network          \* TRUE when requests and responses may be lost

ASSUME BrowserAssumption ==
    /\ Clicks \in Nat
    /\ {Locks, Service, Network} \subseteq BOOLEAN

VARIABLES
    tokens,          \* refresh tokens issued, in order
    lost,            \* an exchange or a logout was made, its response lost (history)
    replayed,        \* before, a token was presented after its end (history)
    cookie,          \* pra_rt_v1: a token, or None
    lock,            \* the queue of the Web Lock, holder first
    state, session,  \* tab -> AuthState: its status, and its session in memory
    call,            \* tab, kind -> the request in flight
    boot,            \* tab -> bootstrapPromiseRef, and the token it validates
    work,            \* tab -> an operation under runAuthenticated
    signals,         \* tab -> signals under way to it
    clicks

server == <<tokens, lost, replayed>>
memory == <<state, session>>
browserVars == <<server, cookie, lock, memory, call, boot, work, signals, clicks>>

None == 0
Keep == -1               \* the response leaves the cookie alone
Id == 1..Clicks          \* a click leads to one token at most

Kind == {"refresh", "logout", "login"}
Transition == {"refresh", "logout"}         \* what runs under the lock
Status == {"closed", "bootstrapping", "bootstrap-error", "unauthenticated", "authenticated"}

NoSession == [user |-> "nobody", access |-> None]
NoCall == [at |-> "idle", with |-> None, code |-> "none", sets |-> Keep, loud |-> FALSE]
NoBoot == [at |-> "none", access |-> None]
NoWork == [at |-> "idle", first |-> None, access |-> None]

Owner(n) == tokens[n].owner
Live(n) == n \in DOMAIN tokens /\ tokens[n].status = "live"

-----------------------------------------------------------------------------
(* The service *)

Issued(list, owner, family) ==
    Append(list, [owner |-> owner, family |-> family, status |-> "live"])

Fresh == Len(tokens) + 1

Ended(n) ==
    [m \in DOMAIN tokens |-> IF tokens[m].family = tokens[n].family
                             THEN [tokens[m] EXCEPT !.status = "dead"] ELSE tokens[m]]

Answer(list, code, sets) == [tokens |-> list, code |-> code, sets |-> sets]

\* A plausible bug: the presented token stays usable.
RefreshedAlongside(n) ==
    CASE n = None -> Answer(tokens, "rejected", None)
      [] Live(n) -> Answer(Issued(tokens, Owner(n), tokens[n].family), "ok", Fresh)
      [] OTHER -> Answer(Ended(n), "rejected", None)

Refreshed(n) ==
    CASE n = None -> Answer(tokens, "rejected", None)
      [] Live(n) -> Answer(Issued([tokens EXCEPT ![n].status = "spent"],
                                  Owner(n), tokens[n].family), "ok", Fresh)
      [] OTHER -> Answer(Ended(n), "rejected", None)

LoggedOut(n) ==
    IF Live(n) THEN Answer(Ended(n), "ok", None) ELSE Answer(tokens, "rejected", None)

LoggedIn(u) == Answer(Issued(tokens, u, Fresh), "ok", Fresh)

Responses(k, n) ==
    CASE k = "refresh" -> {Refreshed(n)}
      [] k = "logout" -> {LoggedOut(n)}
      [] k = "login" -> {LoggedIn(u) : u \in User}

\* Before anything happened, or with the outcome of the commit unknown; a
\* logout that cannot read the session answers that it is rejected.  The
\* handlers of refresh and logout clear the cookie with every error.
ServiceFails(k, done) ==
    {Answer(list, "failed", IF k = "login" THEN Keep ELSE None) :
        list \in {tokens, done.tokens}}
    \cup (IF k = "logout" THEN {Answer(tokens, "rejected", None)} ELSE {})

\* The request or its response is lost, and fetch rejects.
Lost(done) == {Answer(list, "failed", Keep) : list \in {tokens, done.tokens}}

Outcomes(k, n) ==
    UNION {{done}
           \cup (IF Service THEN ServiceFails(k, done) ELSE {})
           \cup (IF Network THEN Lost(done) ELSE {}) : done \in Responses(k, n)}

Serve(t, k) ==
    /\ call[t][k].at = "sent"
    /\ \E o \in Outcomes(k, call[t][k].with) :
           /\ tokens' = o.tokens
           /\ call' = [call EXCEPT ![t][k].at = "served", ![t][k].code = o.code,
                                   ![t][k].sets = o.sets]
           /\ lost' = (lost \/ (k \in Transition /\ o.tokens # tokens /\ o.sets = Keep))
    /\ replayed' = (replayed \/ (k = "refresh" /\ call[t][k].with # None
                                 /\ ~Live(call[t][k].with) /\ ~lost))
    /\ UNCHANGED <<cookie, lock, memory, boot, work, signals, clicks>>

-----------------------------------------------------------------------------
(* Requests of a tab *)

\* A transition waits its turn where there is a lock.
Queued(t, k) == IF Locks THEN Append(lock, <<t, k>>) ELSE lock

\* refreshPromiseRef: callers share the refresh that is in flight.
Begun(t, k, loud) == [call EXCEPT ![t][k] = [NoCall EXCEPT !.at = "queued", !.loud = loud]]

StartRefresh(t, loud) ==
    IF call[t]["refresh"].at = "idle"
    THEN call' = Begun(t, "refresh", loud) /\ lock' = Queued(t, "refresh")
    ELSE UNCHANGED <<call, lock>>

\* A plausible bug: the request does not wait for the lock.
MaySendUnlocked(t, k) == TRUE

MaySend(t, k) == Locks /\ k \in Transition => Head(lock) = <<t, k>>

Send(t, k) ==
    /\ call[t][k].at = "queued"
    /\ MaySend(t, k)
    /\ call' = [call EXCEPT ![t][k].at = "sent", ![t][k].with = cookie]
    /\ UNCHANGED <<server, cookie, lock, memory, boot, work, signals, clicks>>

Receive(t, k) ==
    /\ call[t][k].at = "served"
    /\ call' = [call EXCEPT ![t][k].at = "back"]
    /\ cookie' = IF call[t][k].sets = Keep THEN cookie ELSE call[t][k].sets
    /\ UNCHANGED <<server, lock, memory, boot, work, signals, clicks>>

\* A plausible bug: a rejected request keeps the lock.
ReleasedIfOk(t, k) ==
    IF Locks /\ k \in Transition /\ call[t][k].code = "ok" THEN Tail(lock) ELSE lock

\* The holder, the first in the queue, lets the next one in.
Released(t, k) == IF Locks /\ k \in Transition THEN Tail(lock) ELSE lock

Settled(t, k, code) ==
    /\ call[t][k].at = "back" /\ call[t][k].code = code
    /\ call' = [call EXCEPT ![t][k] = NoCall]
    /\ lock' = Released(t, k)
    /\ UNCHANGED <<server, cookie, clicks>>

-----------------------------------------------------------------------------
(* The state of a tab *)

UpdateState(t, status, s) ==
    state' = [state EXCEPT ![t] = status] /\ session' = [session EXCEPT ![t] = s]

\* A channel of its own carries a signal, so the tab that sends it hears it too.
Broadcast == signals' = [q \in Tab |-> IF state[q] = "closed" THEN 0 ELSE signals[q] + 1]

InvalidateSession(t, loud) ==
    /\ UpdateState(t, "unauthenticated", NoSession)
    /\ IF loud THEN Broadcast ELSE UNCHANGED signals

ReplaceAccessToken(t, access) ==
    IF state[t] = "authenticated"
    THEN UpdateState(t, "authenticated", [session[t] EXCEPT !.access = access])
    ELSE UNCHANGED <<state, session>>

\* What shared the refresh goes on: the bootstrap to /me, the operation to its
\* second attempt.
RefreshSucceeds(t) ==
    LET access == call[t]["refresh"].sets IN
    /\ Settled(t, "refresh", "ok")
    /\ ReplaceAccessToken(t, access)
    /\ boot' = IF boot[t].at = "refresh"
               THEN [boot EXCEPT ![t] = [at |-> "me", access |-> access]] ELSE boot
    /\ work' = IF work[t].at = "refresh"
               THEN [work EXCEPT ![t].at = "retry", ![t].access = access] ELSE work
    /\ UNCHANGED signals

Abandoned(t) ==
    /\ boot' = IF boot[t].at = "refresh" THEN [boot EXCEPT ![t] = NoBoot] ELSE boot
    /\ work' = IF work[t].at = "refresh" THEN [work EXCEPT ![t] = NoWork] ELSE work

RefreshRejected(t) ==
    /\ Settled(t, "refresh", "rejected")
    /\ InvalidateSession(t, call[t]["refresh"].loud)
    /\ Abandoned(t)

RefreshFails(t) ==
    /\ Settled(t, "refresh", "failed")
    /\ IF boot[t].at = "refresh"
       THEN UpdateState(t, "bootstrap-error", NoSession) ELSE UNCHANGED <<state, session>>
    /\ Abandoned(t)
    /\ UNCHANGED signals

\* A service that cannot read the user answers that the token is invalid.
Me(t) ==
    /\ boot[t].at = "me"
    /\ \/ UpdateState(t, "authenticated",
                      [user |-> Owner(boot[t].access), access |-> boot[t].access])
       \/ Service /\ UpdateState(t, "unauthenticated", NoSession)
       \/ Network /\ UpdateState(t, "bootstrap-error", NoSession)
    /\ boot' = [boot EXCEPT ![t] = NoBoot]
    /\ UNCHANGED <<server, cookie, lock, call, work, signals, clicks>>

Bootstrap(t) ==
    /\ UpdateState(t, "bootstrapping", NoSession)
    /\ boot' = [boot EXCEPT ![t] = [at |-> "refresh", access |-> None]]
    /\ StartRefresh(t, FALSE)
    /\ UNCHANGED <<server, cookie>>

\* A page that is left with a request in flight is one that loses a response
\* and is loaded again.
Load(t) ==
    /\ clicks < Clicks /\ clicks' = clicks + 1
    /\ \A k \in Kind : call[t][k] = NoCall
    /\ work' = [work EXCEPT ![t] = NoWork]
    /\ signals' = [signals EXCEPT ![t] = 0]
    /\ Bootstrap(t)

RetryBootstrap(t) ==
    /\ state[t] = "bootstrap-error"
    /\ clicks < Clicks /\ clicks' = clicks + 1
    /\ Bootstrap(t)
    /\ UNCHANGED <<work, signals>>

\* The form and the button are there in one state only.
Login(t) ==
    /\ state[t] = "unauthenticated" /\ call[t]["login"] = NoCall
    /\ clicks < Clicks /\ clicks' = clicks + 1
    /\ call' = Begun(t, "login", FALSE)
    /\ UNCHANGED <<server, cookie, lock, memory, boot, work, signals>>

EstablishSession(t) ==
    LET access == call[t]["login"].sets IN
    /\ Settled(t, "login", "ok")
    /\ UpdateState(t, "authenticated", [user |-> Owner(access), access |-> access])
    /\ UNCHANGED <<boot, work, signals>>

LoginFails(t) ==
    /\ Settled(t, "login", "failed")
    /\ UNCHANGED <<memory, boot, work, signals>>

Logout(t) ==
    /\ state[t] = "authenticated" /\ call[t]["logout"] = NoCall
    /\ clicks < Clicks /\ clicks' = clicks + 1
    /\ call' = Begun(t, "logout", TRUE)
    /\ lock' = Queued(t, "logout")
    /\ UNCHANGED <<server, cookie, memory, boot, work, signals>>

FinishLogout(t) ==
    /\ Settled(t, "logout", call[t]["logout"].code)
    /\ InvalidateSession(t, TRUE)
    /\ UNCHANGED <<boot, work>>

\* session-established changes nothing where it is heard, and is left out.
Hear(t) ==
    /\ signals[t] > 0
    /\ signals' = [signals EXCEPT ![t] = @ - 1]
    /\ UpdateState(t, "unauthenticated", NoSession)
    /\ UNCHANGED <<server, cookie, lock, call, boot, work, clicks>>

-----------------------------------------------------------------------------
(* runAuthenticated *)

RunAuthenticated(t) ==
    /\ state[t] = "authenticated" /\ work[t] = NoWork
    /\ clicks < Clicks /\ clicks' = clicks + 1
    /\ work' = [work EXCEPT ![t] = [at |-> "first", first |-> session[t].access,
                                    access |-> session[t].access]]
    /\ UNCHANGED <<server, cookie, lock, memory, call, boot, signals>>

RetryWithLatest(t) ==
    work' = [work EXCEPT ![t].at = "retry", ![t].access = session[t].access]

\* ACCESS_TOKEN_INVALID, for whatever reason, on the first attempt.
FirstRefused(t) ==
    /\ work[t].at = "first"
    /\ CASE state[t] # "authenticated" ->
               work' = [work EXCEPT ![t] = NoWork] /\ UNCHANGED <<call, lock>>
         [] state[t] = "authenticated" /\ session[t].access # work[t].first ->
               RetryWithLatest(t) /\ UNCHANGED <<call, lock>>
         [] OTHER ->
               work' = [work EXCEPT ![t].at = "refresh"] /\ StartRefresh(t, TRUE)
    /\ UNCHANGED <<server, cookie, memory, boot, signals, clicks>>

SecondRefused(t) ==
    /\ work[t].at = "retry"
    /\ InvalidateSession(t, TRUE)
    /\ work' = [work EXCEPT ![t] = NoWork]
    /\ UNCHANGED <<server, cookie, lock, call, boot, clicks>>

\* The operation is answered, with a result or another error.
Answered(t) ==
    /\ work[t].at \in {"first", "retry"}
    /\ work' = [work EXCEPT ![t] = NoWork]
    /\ UNCHANGED <<server, cookie, lock, memory, call, boot, signals, clicks>>

-----------------------------------------------------------------------------

BrowserInit ==
    /\ tokens = <<>> /\ lost = FALSE /\ replayed = FALSE /\ cookie = None /\ lock = <<>>
    /\ state = [t \in Tab |-> "closed"]
    /\ session = [t \in Tab |-> NoSession]
    /\ call = [t \in Tab |-> [k \in Kind |-> NoCall]]
    /\ boot = [t \in Tab |-> NoBoot]
    /\ work = [t \in Tab |-> NoWork]
    /\ signals = [t \in Tab |-> 0]
    /\ clicks = 0

Click(t) ==
    \/ Load(t) \/ RetryBootstrap(t) \/ Login(t) \/ Logout(t) \/ RunAuthenticated(t)

Settle(t) ==
    \/ RefreshSucceeds(t) \/ RefreshRejected(t) \/ RefreshFails(t)
    \/ EstablishSession(t) \/ LoginFails(t) \/ FinishLogout(t)

Reply(t) == Me(t) \/ FirstRefused(t) \/ SecondRefused(t) \/ Answered(t)

Exchange(t, k) == Send(t, k) \/ Serve(t, k) \/ Receive(t, k)

BrowserNext ==
    \E t \in Tab :
        \/ Click(t) \/ Settle(t) \/ Reply(t) \/ Hear(t)
        \/ \E k \in Kind : Exchange(t, k)

BrowserSpec == BrowserInit /\ [][BrowserNext]_browserVars

\* Requests are answered or fail, and a tab goes on with what it was told.
FairSpec ==
    /\ BrowserSpec
    /\ \A t \in Tab :
           /\ WF_browserVars(Settle(t)) /\ WF_browserVars(Me(t)) /\ WF_browserVars(Hear(t))
           /\ \A k \in Kind : WF_browserVars(Exchange(t, k))

-----------------------------------------------------------------------------

Tokens == [owner : User, family : Id, status : {"live", "spent", "dead"}]

\* Everything a tab, the browser and the service keep has its shape.
BrowserTypeOK ==
    /\ DOMAIN tokens \subseteq Id /\ \A n \in DOMAIN tokens : tokens[n] \in Tokens
    /\ lost \in BOOLEAN /\ replayed \in BOOLEAN
    /\ cookie \in Id \cup {None}
    /\ state \in [Tab -> Status]
    /\ \A t \in Tab :
           /\ state[t] = "authenticated" <=> session[t] # NoSession
           /\ session[t] # NoSession => session[t].access \in DOMAIN tokens
           /\ Locks => \A k \in Transition :
                  call[t][k].at # "idle" <=> \E i \in DOMAIN lock : lock[i] = <<t, k>>
    /\ signals \in [Tab -> Nat]

\* Under the Web Lock, and until a response is lost, the tabs of a browser
\* never present a token that one of them has exchanged: nobody's session ends
\* as the use of a stolen token.  Logins race the lock, failures do not matter.
TabsNeverReplay == ~replayed

\* An operation that was told its token is invalid is tried again with another
\* one, whoever refreshed it and whoever logged in meanwhile.
RetryUsesAnotherToken ==
    \A t \in Tab : work[t].at = "retry" => work[t].access # work[t].first

\* What the tabs make of the tokens they share.
SessionsSound == BrowserTypeOK /\ TabsNeverReplay /\ RetryUsesAnotherToken

\* No tab waits for ever for the lock or for the service: what was begun ends.
TransitionsEnd ==
    /\ \A t \in Tab : state[t] = "bootstrapping" ~> state[t] # "bootstrapping"
    /\ \A t \in Tab, k \in Transition : call[t][k].at = "queued" ~> call[t][k].at = "idle"

-----------------------------------------------------------------------------
(* The service, read as its promise *)

Promise == INSTANCE SingleUseTokens WITH
    Family <- Id,
    Token <- Id,
    NoFamily <- None,
    status <- [n \in Id |-> IF n \in DOMAIN tokens THEN tokens[n].status ELSE "unissued"],
    lineage <- [n \in Id |-> IF n \in DOMAIN tokens THEN tokens[n].family ELSE None]

\* Whatever tabs send, and whatever fails or is lost on the way, the service
\* that answers them makes no step that single-use tokens do not make: it is
\* the one that the rotation of refresh sessions implements.
ServiceIsSingleUse == Promise!Spec

=============================================================================
