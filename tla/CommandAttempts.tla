--------------------------- MODULE CommandAttempts ---------------------------
(***************************************************************************)
(* The form with which a user records or corrects a transaction, and its   *)
(* idempotency keys.  A key is drawn for a command, kept in memory while   *)
(* its outcome is not known, and dropped when it is accepted; a request    *)
(* whose response was lost may still be under way when the next is sent.   *)
(* The service is its ledger by keys: TransactionLedger looks inside.      *)
(***************************************************************************)
EXTENDS Integers, Sequences, FiniteSets

CONSTANTS
    Spelling,        \* what can be typed
    Command,         \* what it means
    Meaning,         \* spelling -> command
    Submissions,     \* bound on confirmations
    Visits           \* bound on forms mounted one after the other

NoEntry == "none"

ASSUME AttemptAssumption ==
    /\ NoEntry \notin Spelling \cup Command
    /\ Meaning \in [Spelling -> Command]
    /\ Submissions \in Nat /\ Visits \in Nat \ {0}

VARIABLES
    review,          \* the reviewed entry, a spelling, or NoEntry
    attempt,         \* CommandAttempt or CorrectionAttempt: identity and key
    error,           \* "none", "uncertain", "rejected" or "terminal"
    accepted,        \* the fact that the form shows as accepted, or NoFact
    pending,         \* submitting.current: the request that is awaited, or 0
    requests,        \* all requests sent: key, text, and how far each has got
    facts,           \* the service: recorded facts, in order
    keys,            \* keys drawn
    visit,           \* the mounted form
    correcting,      \* whether the forms correct one transaction, or record new ones
    intent           \* the entry the user is recording, and which it is (history)

form == <<review, attempt, error, accepted, pending, intent>>
vars == <<form, requests, facts, keys, visit, correcting>>

NoFact == 0
NoAttempt == [identity |-> NoEntry, key |-> 0]

Request == DOMAIN requests
Reviewing == review # NoEntry /\ accepted = NoFact

\* The user confirms another entry than before.
Intended(text) ==
    IF intent.entry = Meaning[text] THEN intent
    ELSE [number |-> intent.number + 1, entry |-> Meaning[text]]

Done == [intent EXCEPT !.entry = NoEntry]

-----------------------------------------------------------------------------
(* CommandAttempt *)

\* A plausible bug: the text is compared as it was typed.
IdentityAsTyped(text) == text

Identity(text) == Meaning[text]

Clear(a) == NoAttempt

KeyFor(text) ==
    IF attempt.identity = Identity(text) THEN attempt
    ELSE [identity |-> Identity(text), key |-> keys + 1]

-----------------------------------------------------------------------------
(* The form *)

\* The editor hands over what was entered.
Review(text) ==
    /\ review = NoEntry /\ accepted = NoFact
    /\ review' = text
    /\ error' = "none"
    /\ UNCHANGED <<attempt, accepted, pending, intent, requests, facts, keys, visit>>

MayReturn == pending = 0 /\ (correcting => error # "terminal")

ReturnToEntry ==
    /\ Reviewing /\ MayReturn
    /\ review' = NoEntry /\ error' = "none"
    /\ UNCHANGED <<attempt, accepted, pending, intent, requests, facts, keys, visit>>

\* The correction form offers a retry only while acceptance may be uncertain.
MayConfirm == correcting => error \in {"none", "uncertain"}

Confirm ==
    /\ Reviewing /\ pending = 0 /\ MayConfirm
    /\ Len(requests) < Submissions
    /\ attempt' = KeyFor(review)
    /\ keys' = IF attempt'.key > keys THEN attempt'.key ELSE keys
    /\ intent' = Intended(review)
    /\ requests' = Append(requests, [key |-> attempt'.key, text |-> review,
                                     intent |-> intent'.number,
                                     at |-> "sent", result |-> "none", fact |-> NoFact])
    /\ pending' = Len(requests) + 1
    /\ error' = "none"
    /\ UNCHANGED <<review, accepted, facts, visit>>

Accept ==
    /\ pending # 0 /\ requests[pending].at = "handled" /\ requests[pending].result = "ok"
    /\ accepted' = requests[pending].fact
    /\ attempt' = Clear(attempt)
    /\ review' = NoEntry /\ pending' = 0 /\ intent' = Done
    /\ UNCHANGED <<error, requests, facts, keys, visit>>

Fail(why) ==
    error' = why /\ pending' = 0
    /\ UNCHANGED <<review, attempt, accepted, intent, requests, facts, keys, visit>>

Refused ==
    /\ pending # 0 /\ requests[pending].at = "handled" /\ requests[pending].result # "ok"
    /\ Fail(requests[pending].result)

\* fetch rejects, or the body cannot be read: the request may have been handled,
\* be handled later, or never.
ResponseLost == pending # 0 /\ Fail("uncertain")

RecordAnother ==
    /\ accepted # NoFact /\ ~correcting
    /\ accepted' = NoFact
    /\ UNCHANGED <<review, attempt, error, pending, intent, requests, facts, keys, visit>>

\* The form is unmounted: another page, a reload, or the end of the session.
Leave ==
    /\ visit < Visits /\ visit' = visit + 1
    /\ review' = NoEntry /\ attempt' = NoAttempt /\ error' = "none"
    /\ accepted' = NoFact /\ pending' = 0 /\ intent' = Done
    /\ UNCHANGED <<requests, facts, keys>>

-----------------------------------------------------------------------------
(* The service *)

RowsOf(key) == {f \in DOMAIN facts : facts[f].key = key}

Handled(r, result, f) ==
    requests' = [requests EXCEPT ![r].at = "handled", ![r].result = result, ![r].fact = f]

Taken(r) == correcting /\ facts # <<>>      \* the original is corrected already

Handle(r) ==
    /\ requests[r].at = "sent"
    /\ LET command == Meaning[requests[r].text]
           key == requests[r].key
       IN  \/ \E f \in RowsOf(key) :
                  /\ Handled(r, IF facts[f].command = command THEN "ok" ELSE "rejected",
                             IF facts[f].command = command THEN f ELSE NoFact)
                  /\ UNCHANGED facts
           \/ /\ RowsOf(key) = {} /\ ~Taken(r)
              /\ facts' = Append(facts, [command |-> command, key |-> key,
                                         intent |-> requests[r].intent])
              /\ Handled(r, "ok", Len(facts) + 1)
           \/ RowsOf(key) = {} /\ Taken(r) /\ Handled(r, "terminal", NoFact) /\ UNCHANGED facts
           \/ \* The ledger refuses the facts, or the portfolio is archived.
              /\ RowsOf(key) = {} /\ ~Taken(r) /\ UNCHANGED facts
              /\ \E why \in {"rejected", "terminal"} : Handled(r, why, NoFact)
           \/ Handled(r, "uncertain", NoFact) /\ UNCHANGED facts     \* it fails
    /\ UNCHANGED <<form, keys, visit>>

\* A request that nobody waits for may be lost on its way.
Drop(r) ==
    /\ requests[r].at = "sent" /\ pending # r
    /\ Handled(r, "none", NoFact)
    /\ UNCHANGED <<form, facts, keys, visit>>

-----------------------------------------------------------------------------

Init ==
    /\ review = NoEntry /\ attempt = NoAttempt /\ error = "none"
    /\ accepted = NoFact /\ pending = 0
    /\ intent = [number |-> 0, entry |-> NoEntry]
    /\ requests = <<>> /\ facts = <<>> /\ keys = 0 /\ visit = 1
    /\ correcting \in BOOLEAN

Next ==
    /\ \/ \E text \in Spelling : Review(text)
       \/ ReturnToEntry \/ Confirm \/ Accept \/ Refused \/ ResponseLost
       \/ RecordAnother \/ Leave
       \/ \E r \in Request : Handle(r) \/ Drop(r)
    /\ UNCHANGED correcting

Spec == Init /\ [][Next]_vars

-----------------------------------------------------------------------------

\* The form waits for a request of its own, with the key it holds.
TypeOK ==
    /\ review \in Spelling \cup {NoEntry}
    /\ error \in {"none", "uncertain", "rejected", "terminal"}
    /\ accepted \in DOMAIN facts \cup {NoFact}
    /\ pending \in Request \cup {0}
    /\ pending # 0 => review = requests[pending].text /\ attempt.key = requests[pending].key
    /\ attempt.key \in 0..keys

\* The service never sees one key with two commands, whatever is edited while
\* requests are under way.
KeyMeansCommand ==
    \A r, q \in Request :
        requests[r].key = requests[q].key => Meaning[requests[r].text] = Meaning[requests[q].text]

\* An entry that is confirmed again and again is recorded once, until it is
\* accepted or another is confirmed, however late lost requests arrive.
IntentRecordedOnce ==
    \A f, g \in DOMAIN facts : facts[f].intent = facts[g].intent => f = g

\* What the form calls accepted is the reviewed entry, recorded for it and not
\* for an earlier one of the same facts.
AcceptedIsNew ==
    [][accepted = NoFact /\ accepted' # NoFact
           => /\ facts[accepted'].intent = intent.number
              /\ facts[accepted'].command = Meaning[review]]_vars

\* A user who repeats what was recorded, its response lost, is never told that
\* it is refused, nor that somebody has corrected the transaction already.
RecordedIsRecognised ==
    [][\A r \in Request :
           requests'[r] # requests[r] /\ requests'[r].result \in {"rejected", "terminal"}
               => \A f \in DOMAIN facts : facts[f].intent # requests[r].intent]_vars

=============================================================================
