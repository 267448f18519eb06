------------------------------ MODULE WebProofs ------------------------------
(***************************************************************************)
(* What a page of the web application does with its memory.  First the keys*)
(* of the transaction forms, for any number of spellings, commands,        *)
(* confirmations and forms; then why tabs that share a cookie do not spend *)
(* each other's tokens, for any number of tabs, users and clicks.          *)
(***************************************************************************)
EXTENDS CommandAttempts, BrowserSession, FiniteSetTheorems, SequenceTheorems, TLAPS

-----------------------------------------------------------------------------
(* The forms *)

Sent == [key : Nat \ {0}, text : Spelling, intent : Nat, at : {"sent", "handled"},
         result : {"none", "ok", "rejected", "terminal", "uncertain"}, fact : Nat]

Fact == [command : Command, key : Nat \ {0}, intent : Nat]

Types ==
    /\ TypeOK
    /\ requests \in Seq(Sent) /\ facts \in Seq(Fact)
    /\ keys \in Nat
    /\ attempt \in [identity : Command \cup {NoEntry}, key : Nat]
    /\ intent \in [number : Nat, entry : Command \cup {NoEntry}]

\* The attempt in memory is the entry the user is recording, and its key names
\* that entry among all requests.
OneKeyOneIntent ==
    /\ attempt.identity = intent.entry
    /\ attempt.identity = NoEntry <=> attempt.key = 0
    /\ attempt.key <= keys
    /\ \A r \in Request :
           /\ requests[r].key <= keys /\ requests[r].intent <= intent.number
           /\ requests[r].key = attempt.key
                  => /\ Meaning[requests[r].text] = attempt.identity
                     /\ requests[r].intent = intent.number
           /\ attempt.key # 0 /\ requests[r].intent = intent.number
                  => requests[r].key = attempt.key
    /\ \A r, q \in Request : requests[r].key = requests[q].key <=> requests[r].intent = requests[q].intent
    /\ KeyMeansCommand

\* Every fact was asked for by a request, and is the only one with its key.
FactsOfRequests ==
    /\ \A f \in DOMAIN facts : \E r \in Request :
           /\ requests[r].key = facts[f].key /\ requests[r].intent = facts[f].intent
           /\ Meaning[requests[r].text] = facts[f].command
    /\ \A f, g \in DOMAIN facts : facts[f].key = facts[g].key => f = g
    /\ \A r \in Request : requests[r].result = "ok"
           => /\ requests[r].fact \in DOMAIN facts
              /\ facts[requests[r].fact].key = requests[r].key

Inv == Types /\ OneKeyOneIntent /\ FactsOfRequests

LEMMA InitInv == Init => Inv
BY AttemptAssumption DEF Init, Inv, Types, TypeOK, OneKeyOneIntent, KeyMeansCommand,
   FactsOfRequests, Request, NoAttempt, NoEntry, NoFact

LEMMA FieldsOfRequests ==
    ASSUME Inv, NEW r \in Request
    PROVE  /\ requests[r].key \in Nat \ {0} /\ requests[r].text \in Spelling
           /\ requests[r].result \in {"none", "ok", "rejected", "terminal", "uncertain"}
<1>1. requests[r] \in Sent
  BY DEF Inv, Types, Request
<1> QED BY <1>1 DEF Sent

\* A step of the form that neither sends nor drops a key.
LEMMA FormKeepsInv ==
    ASSUME Inv, Types', UNCHANGED <<attempt, intent, requests, facts, keys>>
    PROVE  Inv'
BY DEF Inv, OneKeyOneIntent, KeyMeansCommand, FactsOfRequests, Request

\* The attempt ends.
LEMMA ClearKeepsInv ==
    ASSUME Inv, Types', attempt' = NoAttempt, intent' = Done, UNCHANGED <<requests, facts, keys>>
    PROVE  Inv'
<1>1. /\ attempt'.identity = NoEntry /\ attempt'.key = 0 /\ intent'.entry = NoEntry
      /\ intent'.number = intent.number /\ keys \in Nat
  BY DEF Inv, Types, NoAttempt, Done
<1>2. \A r \in Request : requests[r].key # 0
  BY FieldsOfRequests
<1>3. OneKeyOneIntent'
  BY <1>1, <1>2 DEF Inv, OneKeyOneIntent, KeyMeansCommand, Request
<1>4. FactsOfRequests'
  BY DEF Inv, FactsOfRequests, Request
<1> QED BY <1>3, <1>4 DEF Inv

LEMMA ConfirmKeepsInv == Inv /\ Confirm => Inv'
<1> SUFFICES ASSUME Inv, Confirm PROVE Inv'
  OBVIOUS
<1> DEFINE n == Len(requests) + 1
           c == Meaning[review]
<1>1. review \in Spelling /\ c \in Command /\ c # NoEntry
  BY AttemptAssumption DEF Inv, Types, TypeOK, Confirm, Reviewing, NoEntry
<1>2. /\ requests \in Seq(Sent) /\ DOMAIN requests = 1..Len(requests) /\ Len(requests) \in Nat
      /\ attempt.key \in Nat /\ keys \in Nat /\ intent.number \in Nat
  BY DEF Inv, Types
<1>3. \/ /\ attempt.identity = c /\ intent.entry = c
         /\ attempt' = attempt /\ intent' = intent /\ attempt.key # 0 /\ keys' = keys
      \/ /\ attempt.identity # c /\ intent.entry # c
         /\ attempt' = [identity |-> c, key |-> keys + 1] /\ keys' = keys + 1
         /\ intent' = [number |-> intent.number + 1, entry |-> c]
  BY <1>1, <1>2 DEF Confirm, KeyFor, Identity, Intended, Inv, OneKeyOneIntent
<1>4. /\ attempt'.identity = c /\ intent'.entry = c /\ attempt'.key \in Nat \ {0}
      /\ intent'.number \in Nat /\ keys' \in Nat
      /\ attempt' \in [identity : Command \cup {NoEntry}, key : Nat]
      /\ intent' \in [number : Nat, entry : Command \cup {NoEntry}]
  BY <1>1, <1>2, <1>3 DEF Inv, Types
<1> DEFINE new == [key |-> attempt'.key, text |-> review, intent |-> intent'.number,
                   at |-> "sent", result |-> "none", fact |-> NoFact]
<1>5. new \in Sent /\ requests' = Append(requests, new)
  BY <1>1, <1>4 DEF Confirm, Sent, NoFact
<1> HIDE DEF new
<1>6. /\ requests' \in Seq(Sent) /\ Request' = Request \cup {n} /\ n \notin Request
      /\ requests'[n] = new /\ \A r \in Request : requests'[r] = requests[r]
  BY <1>2, <1>5 DEF Request
<1>7. new.key = attempt'.key /\ new.text = review /\ new.intent = intent'.number /\ new.result = "none"
  BY DEF new
<1>8. /\ facts' = facts /\ review' = review /\ accepted' = accepted /\ pending' = n /\ error' = "none"
  BY DEF Confirm
<1>9. attempt'.key <= keys'
  BY <1>2, <1>3 DEF Inv, OneKeyOneIntent
<1>10. Types'
  <2>1. TypeOK'
    BY <1>1, <1>2, <1>4, <1>6, <1>7, <1>8, <1>9 DEF Inv, Types, TypeOK, Request
  <2> QED BY <2>1, <1>4, <1>6, <1>8 DEF Inv, Types
<1>11. \A r \in Request :
          /\ requests[r].key \in Nat \ {0} /\ requests[r].intent \in Nat
          /\ requests[r].key = attempt'.key <=> requests[r].intent = intent'.number
          /\ requests[r].key = attempt'.key => Meaning[requests[r].text] = c
          /\ requests[r].key <= keys' /\ requests[r].intent <= intent'.number
  <2> SUFFICES ASSUME NEW r \in Request
               PROVE  /\ requests[r].key \in Nat \ {0} /\ requests[r].intent \in Nat
                      /\ requests[r].key = attempt'.key <=> requests[r].intent = intent'.number
                      /\ requests[r].key = attempt'.key => Meaning[requests[r].text] = c
                      /\ requests[r].key <= keys' /\ requests[r].intent <= intent'.number
    OBVIOUS
  <2>1. requests[r] \in Sent
    BY <1>2 DEF Request
  <2>2. requests[r].key \in Nat \ {0} /\ requests[r].intent \in Nat
    BY <2>1 DEF Sent
  <2> QED BY <1>2, <1>3, <2>2 DEF Inv, OneKeyOneIntent
<1>12. OneKeyOneIntent'
  <2>1. \A r \in Request' :
           /\ requests'[r].key <= keys' /\ requests'[r].intent <= intent'.number
           /\ requests'[r].key = attempt'.key
                  => /\ Meaning[requests'[r].text] = attempt'.identity
                     /\ requests'[r].intent = intent'.number
           /\ attempt'.key # 0 /\ requests'[r].intent = intent'.number
                  => requests'[r].key = attempt'.key
    BY <1>4, <1>6, <1>7, <1>9, <1>11
  <2>2. \A r, q \in Request' : requests'[r].key = requests'[q].key <=> requests'[r].intent = requests'[q].intent
    <3>1. \A r, q \in Request :
              requests'[r].key = requests'[q].key <=> requests'[r].intent = requests'[q].intent
      BY <1>6 DEF Inv, OneKeyOneIntent
    <3>2. \A r \in Request :
              requests'[r].key = requests'[n].key <=> requests'[r].intent = requests'[n].intent
      BY <1>6, <1>7, <1>11
    <3> QED BY <1>6, <3>1, <3>2
  <2>3. KeyMeansCommand'
    <3>1. \A r, q \in Request :
              requests'[r].key = requests'[q].key => Meaning[requests'[r].text] = Meaning[requests'[q].text]
      BY <1>6 DEF Inv, OneKeyOneIntent, KeyMeansCommand
    <3>2. \A r \in Request :
              requests'[r].key = requests'[n].key => Meaning[requests'[r].text] = Meaning[requests'[n].text]
      BY <1>3, <1>4, <1>6, <1>7, <1>11
    <3> QED BY <1>6, <3>1, <3>2 DEF KeyMeansCommand
  <2> QED BY <1>1, <1>4, <1>9, <2>1, <2>2, <2>3 DEF OneKeyOneIntent
<1>13. FactsOfRequests'
  BY <1>6, <1>7, <1>8 DEF Inv, FactsOfRequests
<1> QED BY <1>10, <1>12, <1>13 DEF Inv

\* What an answer leaves of the requests.
LEMMA HandledRequests ==
    ASSUME Inv, NEW r \in Request,
           NEW result \in {"none", "ok", "rejected", "terminal", "uncertain"}, NEW f \in Nat,
           Handled(r, result, f)
    PROVE  /\ requests' \in Seq(Sent) /\ Request' = Request
           /\ \A q \in Request :
                  /\ requests'[q].key = requests[q].key /\ requests'[q].text = requests[q].text
                  /\ requests'[q].intent = requests[q].intent
                  /\ q # r => requests'[q] = requests[q]
           /\ requests'[r].result = result /\ requests'[r].fact = f
<1>1. requests \in Seq(Sent) /\ r \in 1..Len(requests)
  BY DEF Inv, Types, Request
<1>2. requests[r] \in Sent
  BY <1>1
<1> DEFINE new == [requests[r] EXCEPT !.at = "handled", !.result = result, !.fact = f]
<1>3. /\ new \in Sent /\ new.key = requests[r].key /\ new.text = requests[r].text
      /\ new.intent = requests[r].intent /\ new.result = result /\ new.fact = f
  BY <1>2 DEF Sent
<1>4. requests' = [requests EXCEPT ![r] = new]
  BY <1>1, <1>2 DEF Handled, Sent
<1> HIDE DEF new
<1> QED BY <1>1, <1>3, <1>4 DEF Request

\* Requests that keep their keys, texts and intents keep what relates them.
LEMMA SameAttempts ==
    ASSUME OneKeyOneIntent, UNCHANGED <<attempt, intent, keys>>, Request' = Request,
           \A q \in Request :
               /\ requests'[q].key = requests[q].key /\ requests'[q].text = requests[q].text
               /\ requests'[q].intent = requests[q].intent
    PROVE  OneKeyOneIntent'
<1>1. /\ attempt' = attempt /\ intent' = intent /\ keys' = keys
  OBVIOUS
<1>2. /\ attempt'.identity = intent'.entry /\ attempt'.key <= keys'
      /\ attempt'.identity = NoEntry <=> attempt'.key = 0
  BY <1>1 DEF OneKeyOneIntent
<1>3. \A r \in Request' :
         /\ requests'[r].key <= keys' /\ requests'[r].intent <= intent'.number
         /\ requests'[r].key = attempt'.key
                => /\ Meaning[requests'[r].text] = attempt'.identity
                   /\ requests'[r].intent = intent'.number
         /\ attempt'.key # 0 /\ requests'[r].intent = intent'.number
                => requests'[r].key = attempt'.key
  BY <1>1 DEF OneKeyOneIntent
<1>4. \A r, q \in Request' : requests'[r].key = requests'[q].key <=> requests'[r].intent = requests'[q].intent
  BY DEF OneKeyOneIntent
<1>5. KeyMeansCommand'
  BY DEF OneKeyOneIntent, KeyMeansCommand
<1> QED BY <1>2, <1>3, <1>4, <1>5 DEF OneKeyOneIntent

\* An answer that records nothing.
LEMMA AnswerKeepsInv ==
    ASSUME Inv, NEW r \in Request,
           NEW result \in {"none", "ok", "rejected", "terminal", "uncertain"}, NEW f \in Nat,
           Handled(r, result, f),
           result = "ok" => f \in DOMAIN facts /\ facts[f].key = requests[r].key,
           UNCHANGED <<form, facts, keys, visit>>
    PROVE  Inv'
<1>1. /\ requests' \in Seq(Sent) /\ Request' = Request
      /\ \A q \in Request :
             /\ requests'[q].key = requests[q].key /\ requests'[q].text = requests[q].text
             /\ requests'[q].intent = requests[q].intent
             /\ q # r => requests'[q] = requests[q]
      /\ requests'[r].result = result /\ requests'[r].fact = f
  BY HandledRequests
<1>2. Types'
  BY <1>1 DEF Inv, Types, TypeOK, form
<1>3. OneKeyOneIntent'
  BY <1>1, SameAttempts DEF Inv, form
<1>4. FactsOfRequests'
  BY <1>1 DEF Inv, FactsOfRequests, form
<1> QED BY <1>2, <1>3, <1>4 DEF Inv

\* An answer that records the fact.
LEMMA RecordKeepsInv ==
    ASSUME Inv, NEW r \in Request, RowsOf(requests[r].key) = {},
           Handled(r, "ok", Len(facts) + 1),
           facts' = Append(facts, [command |-> Meaning[requests[r].text], key |-> requests[r].key,
                                   intent |-> requests[r].intent]),
           UNCHANGED <<form, keys, visit>>
    PROVE  Inv'
<1> DEFINE n == Len(facts) + 1
           new == [command |-> Meaning[requests[r].text], key |-> requests[r].key,
                   intent |-> requests[r].intent]
<1>1. facts \in Seq(Fact) /\ n \in Nat \ {0} /\ DOMAIN facts = 1..(n - 1)
  BY DEF Inv, Types
<1>2. requests[r] \in Sent
  BY DEF Inv, Types, Request
<1>3. /\ new \in Fact /\ new.command = Meaning[requests[r].text] /\ new.key = requests[r].key
      /\ new.intent = requests[r].intent
  BY <1>2, AttemptAssumption DEF Fact, Sent
<1> HIDE DEF new
<1>4. /\ facts' \in Seq(Fact) /\ DOMAIN facts' = DOMAIN facts \cup {n} /\ facts'[n] = new
      /\ n \notin DOMAIN facts /\ \A g \in DOMAIN facts : facts'[g] = facts[g]
  BY <1>1, <1>3 DEF new
<1>5. /\ requests' \in Seq(Sent) /\ Request' = Request
      /\ \A q \in Request :
             /\ requests'[q].key = requests[q].key /\ requests'[q].text = requests[q].text
             /\ requests'[q].intent = requests[q].intent
             /\ q # r => requests'[q] = requests[q]
      /\ requests'[r].result = "ok" /\ requests'[r].fact = n
  BY <1>1, HandledRequests
<1>6. Types'
  BY <1>4, <1>5 DEF Inv, Types, TypeOK, form
<1>7. OneKeyOneIntent'
  BY <1>5, SameAttempts DEF Inv, form
<1>8. FactsOfRequests'
  <2>1. \A g \in DOMAIN facts : facts[g].key # new.key
    BY <1>3 DEF RowsOf
  <2>2. \A g \in DOMAIN facts' : \E q \in Request' :
           /\ requests'[q].key = facts'[g].key /\ requests'[q].intent = facts'[g].intent
           /\ Meaning[requests'[q].text] = facts'[g].command
    <3>1. ASSUME NEW g \in DOMAIN facts
          PROVE  \E q \in Request' :
                     /\ requests'[q].key = facts'[g].key /\ requests'[q].intent = facts'[g].intent
                     /\ Meaning[requests'[q].text] = facts'[g].command
      <4>1. PICK q \in Request :
                 /\ requests[q].key = facts[g].key /\ requests[q].intent = facts[g].intent
                 /\ Meaning[requests[q].text] = facts[g].command
        BY DEF Inv, FactsOfRequests
      <4> QED BY <1>4, <1>5, <4>1
    <3>2. /\ requests'[r].key = facts'[n].key /\ requests'[r].intent = facts'[n].intent
          /\ Meaning[requests'[r].text] = facts'[n].command
      BY <1>3, <1>4, <1>5
    <3> QED BY <1>4, <1>5, <3>1, <3>2
  <2>3. \A g, h \in DOMAIN facts' : facts'[g].key = facts'[h].key => g = h
    BY <1>4, <2>1 DEF Inv, FactsOfRequests
  <2>4. \A q \in Request' : requests'[q].result = "ok"
           => /\ requests'[q].fact \in DOMAIN facts'
              /\ facts'[requests'[q].fact].key = requests'[q].key
    BY <1>3, <1>4, <1>5 DEF Inv, FactsOfRequests
  <2> QED BY <2>2, <2>3, <2>4 DEF FactsOfRequests
<1> QED BY <1>6, <1>7, <1>8 DEF Inv

LEMMA HandleKeepsInv == ASSUME Inv, NEW r \in Request, Handle(r) PROVE Inv'
<1> DEFINE command == Meaning[requests[r].text]
           key == requests[r].key
<1>1. CASE \E f \in RowsOf(key) :
              /\ Handled(r, IF facts[f].command = command THEN "ok" ELSE "rejected",
                         IF facts[f].command = command THEN f ELSE NoFact)
              /\ UNCHANGED facts
  <2>1. PICK f \in RowsOf(key) :
              /\ Handled(r, IF facts[f].command = command THEN "ok" ELSE "rejected",
                         IF facts[f].command = command THEN f ELSE NoFact)
              /\ UNCHANGED facts
    BY <1>1
  <2>2. f \in DOMAIN facts /\ f \in Nat /\ facts[f].key = key
    BY DEF RowsOf, Inv, Types
  <2>3. UNCHANGED <<form, facts, keys, visit>>
    BY <2>1 DEF Handle
  <2>4. CASE facts[f].command = command
    <3>1. Handled(r, "ok", f)
      BY <2>1, <2>4
    <3> QED BY <2>2, <2>3, <3>1, AnswerKeepsInv
  <2>5. CASE facts[f].command # command
    <3>1. Handled(r, "rejected", NoFact) /\ NoFact \in Nat
      BY <2>1, <2>5 DEF NoFact
    <3> QED BY <2>3, <3>1, AnswerKeepsInv
  <2> QED BY <2>4, <2>5
<1>2. CASE /\ RowsOf(key) = {} /\ ~Taken(r)
           /\ facts' = Append(facts, [command |-> command, key |-> key,
                                      intent |-> requests[r].intent])
           /\ Handled(r, "ok", Len(facts) + 1)
  <2>1. UNCHANGED <<form, keys, visit>>
    BY DEF Handle
  <2> QED BY <1>2, <2>1, RecordKeepsInv
<1>3. ASSUME NEW why \in {"rejected", "terminal", "uncertain"}, Handled(r, why, NoFact),
             UNCHANGED facts
      PROVE  Inv'
  <2>1. UNCHANGED <<form, facts, keys, visit>>
    BY <1>3 DEF Handle
  <2> QED BY <1>3, <2>1, AnswerKeepsInv DEF NoFact
<1> QED BY <1>1, <1>2, <1>3 DEF Handle

LEMMA NextInv == Inv /\ [Next]_vars => Inv'
<1> SUFFICES ASSUME Inv, [Next]_vars PROVE Inv'
  OBVIOUS
<1> USE DEF Types, TypeOK
<1>1. ASSUME NEW text \in Spelling, Review(text) PROVE Inv'
  <2>1. pending = 0
    <3>1. ASSUME pending \in Request PROVE requests[pending].text \in Spelling
      BY <3>1, FieldsOfRequests
    <3> QED BY <1>1, <3>1, AttemptAssumption DEF Review, Inv
  <2>2. Types'
    BY <1>1, <2>1 DEF Review, Inv, Request
  <2> QED BY <1>1, <2>2, FormKeepsInv DEF Review
<1>2. CASE ReturnToEntry
  <2>1. Types'
    BY <1>2 DEF ReturnToEntry, MayReturn, Inv, Request
  <2> QED BY <1>2, <2>1, FormKeepsInv DEF ReturnToEntry
<1>3. CASE Confirm
  BY <1>3, ConfirmKeepsInv
<1>4. CASE Accept
  <2>1. pending \in Request /\ requests[pending].fact \in DOMAIN facts
    BY <1>4 DEF Accept, Inv, FactsOfRequests
  <2>2. attempt' = NoAttempt
    BY <1>4 DEF Accept, Clear
  <2>3. Types'
    BY <1>4, <2>1, <2>2 DEF Accept, Inv, Request, NoAttempt, Done
  <2> QED BY <1>4, <2>2, <2>3, ClearKeepsInv DEF Accept
<1>5. CASE Refused \/ ResponseLost
  <2>1. error' \in {"none", "rejected", "terminal", "uncertain"}
    <3>1. ASSUME pending \in Request
          PROVE  requests[pending].result \in {"none", "ok", "rejected", "terminal", "uncertain"}
      BY <3>1, FieldsOfRequests
    <3>2. CASE ResponseLost
      BY <3>2 DEF ResponseLost, Fail
    <3>3. CASE Refused
      BY <3>1, <3>3 DEF Refused, Fail, Inv
    <3> QED BY <1>5, <3>2, <3>3
  <2>2. UNCHANGED <<review, attempt, accepted, intent, requests, facts, keys, visit>> /\ pending' = 0
    BY <1>5 DEF Refused, ResponseLost, Fail
  <2>3. Types'
    BY <2>1, <2>2 DEF Inv, Request
  <2> QED BY <2>2, <2>3, FormKeepsInv
<1>6. CASE RecordAnother
  <2>1. Types'
    BY <1>6 DEF RecordAnother, Inv, Request
  <2> QED BY <1>6, <2>1, FormKeepsInv DEF RecordAnother
<1>7. CASE Leave
  <2>1. Types'
    BY <1>7 DEF Leave, Inv, Request, NoAttempt, Done
  <2> QED BY <1>7, <2>1, ClearKeepsInv DEF Leave
<1>8. ASSUME NEW r \in Request, Handle(r) PROVE Inv'
  BY <1>8, HandleKeepsInv
<1>9. ASSUME NEW r \in Request, Drop(r) PROVE Inv'
  BY <1>9, AnswerKeepsInv DEF Drop, NoFact
<1>10. CASE UNCHANGED vars
  <2>1. Types'
    BY <1>10 DEF vars, form, Inv, Request
  <2> QED BY <1>10, <2>1, FormKeepsInv DEF vars, form
<1> QED BY <1>1, <1>2, <1>3, <1>4, <1>5, <1>6, <1>7, <1>8, <1>9, <1>10 DEF Next

-----------------------------------------------------------------------------

\* Every part of the form has its shape, and it waits for a request of its own.
THEOREM TypeCorrectness == Spec => []TypeOK
<1>1. Inv => TypeOK
  BY DEF Inv, Types
<1> QED BY InitInv, NextInv, <1>1, PTL DEF Spec

\* The service never sees one key with two commands, so it never has a reason
\* to answer that a key was reused.
THEOREM KeysMeanCommands == Spec => []KeyMeansCommand
<1>1. Inv => KeyMeansCommand
  BY DEF Inv, OneKeyOneIntent
<1> QED BY InitInv, NextInv, <1>1, PTL DEF Spec

\* However often an entry is confirmed, it is recorded once.
THEOREM RecordedOnce == Spec => []IntentRecordedOnce
<1>1. Inv => IntentRecordedOnce
  BY DEF Inv, OneKeyOneIntent, FactsOfRequests, IntentRecordedOnce
<1> QED BY InitInv, NextInv, <1>1, PTL DEF Spec

\* What the form shows as accepted was recorded for the entry it reviews.
THEOREM AcceptedFactsAreNew == Spec => AcceptedIsNew
<1>1. ASSUME Inv, [Next]_vars, accepted = NoFact, accepted' # NoFact
      PROVE  facts[accepted'].intent = intent.number /\ facts[accepted'].command = Meaning[review]
  <2>1. Accept
    <3>1. ASSUME NEW r \in Request, Handle(r) \/ Drop(r) PROVE accepted' = accepted
      BY <3>1 DEF Handle, Drop, form
    <3> QED BY <1>1, <3>1 DEF Next, Review, ReturnToEntry, Confirm, Refused, ResponseLost, Fail,
               RecordAnother, Leave, vars, form
  <2>2. /\ pending \in Request /\ accepted' = requests[pending].fact
        /\ requests[pending].result = "ok"
    BY <1>1, <2>1 DEF Accept, Inv, Types, TypeOK
  <2>3. /\ review = requests[pending].text /\ attempt.key = requests[pending].key
        /\ accepted' \in DOMAIN facts /\ facts[accepted'].key = requests[pending].key
    BY <1>1, <2>1, <2>2 DEF Accept, Inv, Types, TypeOK, FactsOfRequests
  <2>4. PICK r \in Request :
           /\ requests[r].key = facts[accepted'].key
           /\ requests[r].intent = facts[accepted'].intent
           /\ Meaning[requests[r].text] = facts[accepted'].command
    BY <1>1, <2>3 DEF Inv, FactsOfRequests
  <2> QED BY <1>1, <2>2, <2>3, <2>4 DEF Inv, OneKeyOneIntent, KeyMeansCommand
<1>2. Inv /\ [Next]_vars
        => [accepted = NoFact /\ accepted' # NoFact
               => /\ facts[accepted'].intent = intent.number
                  /\ facts[accepted'].command = Meaning[review]]_vars
  BY <1>1
<1> QED BY InitInv, NextInv, <1>2, PTL DEF Spec, AcceptedIsNew

\* A repetition of what was recorded is never refused.
THEOREM RecordedAreRecognised == Spec => RecordedIsRecognised
<1>1. ASSUME Inv, [Next]_vars, NEW r \in Request, requests'[r] # requests[r],
             requests'[r].result \in {"rejected", "terminal"}, NEW f \in DOMAIN facts,
             facts[f].intent = requests[r].intent
      PROVE  FALSE
  <2>1. facts[f].key = requests[r].key /\ facts[f].command = Meaning[requests[r].text]
    BY <1>1 DEF Inv, OneKeyOneIntent, KeyMeansCommand, FactsOfRequests
  <2>2. RowsOf(requests[r].key) = {f}
    BY <1>1, <2>1 DEF RowsOf, Inv, FactsOfRequests
  <2>3. ASSUME NEW q \in Request, NEW result \in {"none", "ok", "uncertain"}, NEW g \in Nat,
               Handled(q, result, g)
        PROVE  FALSE
    BY <1>1, <2>3, HandledRequests
  <2>4. ASSUME NEW q \in Request, Handle(q) PROVE FALSE
    <3>1. \A g \in DOMAIN facts : g \in Nat /\ Len(facts) + 1 \in Nat
      BY <1>1 DEF Inv, Types
    <3>2. PICK result \in {"ok", "rejected", "terminal", "uncertain"}, g \in Nat : Handled(q, result, g)
      BY <2>4, <3>1, <1>1 DEF Handle, RowsOf, NoFact
    <3>3. q = r
      BY <1>1, <3>2, HandledRequests
    <3>4. Handled(r, "ok", f) \/ Handled(r, "uncertain", NoFact)
      BY <2>1, <2>2, <2>4, <3>3 DEF Handle
    <3> QED BY <1>1, <2>3, <3>1, <3>4 DEF NoFact
  <2>5. ASSUME NEW q \in Request, Drop(q) PROVE FALSE
    BY <2>3, <2>5 DEF Drop, NoFact
  <2>6. CASE Confirm
    <3>1. requests \in Seq(Sent) /\ r \in 1..Len(requests)
      BY <1>1 DEF Inv, Types, Request
    <3>2. PICK new : requests' = Append(requests, new)
      BY <2>6 DEF Confirm
    <3> QED BY <1>1, <3>1, <3>2
  <2> QED BY <1>1, <2>4, <2>5, <2>6 DEF Next, Review, ReturnToEntry, Accept, Refused, ResponseLost,
             Fail, RecordAnother, Leave, vars
<1>2. Inv /\ [Next]_vars
        => [\A r \in Request :
               requests'[r] # requests[r] /\ requests'[r].result \in {"rejected", "terminal"}
                   => \A f \in DOMAIN facts : facts[f].intent # requests[r].intent]_vars
  BY <1>1
<1> QED BY InitInv, NextInv, <1>2, PTL DEF Spec, RecordedIsRecognised

-----------------------------------------------------------------------------
(* The session: the invariants *)

\* A token somebody names, or none.
Known == DOMAIN tokens \cup {None}

Call == [at : {"idle", "queued", "sent", "served", "back"}, with : Nat,
         code : {"none", "ok", "rejected", "failed"}, sets : Nat \cup {Keep}, loud : BOOLEAN]

Token == [owner : User, family : Nat, status : {"live", "spent", "dead"}]
Session == [user : User \cup {"nobody"}, access : Nat]
Boot == [at : {"none", "refresh", "me"}, access : Nat]
Work == [at : {"idle", "first", "refresh", "retry"}, first : Nat, access : Nat]

Shapes ==
    /\ tokens \in Seq(Token)
    /\ lost \in BOOLEAN /\ replayed \in BOOLEAN
    /\ cookie \in Known
    /\ lock \in Seq(Tab \X Transition)
    /\ state \in [Tab -> Status]
    /\ session \in [Tab -> Session]
    /\ call \in [Tab -> [Kind -> Call]]
    /\ boot \in [Tab -> Boot]
    /\ work \in [Tab -> Work]
    /\ signals \in [Tab -> Nat]
    /\ clicks \in 0..Clicks

\* A family is named by the token it began with.
Families == \A n \in DOMAIN tokens : tokens[n].family \in DOMAIN tokens

\* What a request carries and brings, by where it is.
CallSound(c, k) ==
    /\ c.at = "idle" => c = NoCall
    /\ c.at \in {"idle", "queued", "sent"} => c.sets = Keep /\ c.code = "none"
    /\ c.with \in Known /\ c.sets \in Known \cup {Keep}
    /\ c.code = "ok" /\ k # "logout" => c.sets \in DOMAIN tokens
    /\ c.sets \in DOMAIN tokens => k # "logout"

Calls == \A t \in Tab, k \in Kind : CallSound(call[t][k], k)

\* A tab shows a session exactly while it is authenticated, and names tokens
\* that were issued.
TabSound(t) ==
    /\ state[t] = "authenticated" <=> session[t] # NoSession
    /\ session[t] # NoSession => session[t].access \in DOMAIN tokens
    /\ {session[t].access, boot[t].access, work[t].first, work[t].access} \subseteq Known
    /\ boot[t].at = "me" => boot[t].access \in DOMAIN tokens
    /\ work[t].at = "retry" => work[t].access # work[t].first

Tabs == \A t \in Tab : TabSound(t)

\* The token that a response brings is in no memory of the tab yet, nor in
\* another response to it.
Brought(t, k) == call[t][k].sets \in DOMAIN tokens

NewsAt(t) ==
    \A k \in Kind : Brought(t, k) =>
        /\ call[t][k].sets \notin {session[t].access, boot[t].access, work[t].first, work[t].access}
        /\ \A j \in Kind \ {k} : call[t][j].sets # call[t][k].sets

News == \A t \in Tab : NewsAt(t)

\* Who may still be issued a token: each costs a click.
Due(t, k) == IF k = "work" THEN work[t].at = "first" ELSE call[t][k].at \in {"queued", "sent"}

Pending == {p \in Tab \X {"refresh", "login", "work"} : Due(p[1], p[2])}

Budget == IsFiniteSet(Pending) /\ Len(tokens) + Cardinality(Pending) <= clicks

\* A transition is in the queue while it lasts, once, and goes out in its turn.
Turns ==
    Locks =>
        /\ \A t \in Tab, k \in Transition :
               /\ call[t][k].at # "idle" <=> \E i \in DOMAIN lock : lock[i] = <<t, k>>
               /\ call[t][k].at \in {"sent", "served", "back"} => lock # <<>> /\ Head(lock) = <<t, k>>
        /\ \A i, j \in DOMAIN lock : lock[i] = lock[j] => i = j

Base == Shapes /\ Families /\ Calls /\ Tabs /\ News /\ Budget /\ Turns

\* A response with a token, on its way to the browser.
Coming(t, k) == call[t][k].at = "served" /\ Brought(t, k)

\* Nobody has the token of a login that is on its way.
Private ==
    \A t \in Tab : Coming(t, "login") =>
        LET n == call[t]["login"].sets IN
        /\ \A m \in DOMAIN tokens : tokens[m].family = n <=> m = n
        /\ cookie # n
        /\ \A u \in Tab, k \in Kind :
               /\ call[u][k].at = "sent" => call[u][k].with # n
               /\ Coming(u, k) /\ <<u, k>> # <<t, "login">> => call[u][k].sets # n

\* The response that replaces the cookie is on its way.
Replacing == \E t \in Tab, k \in Transition : call[t][k].at = "served" /\ call[t][k].sets # Keep

Usable(n) == n = None \/ Live(n)

\* Until a response is lost, only tokens that can be used are in the browser's hands.
InGoodHands ==
    ~lost =>
        /\ Usable(cookie) \/ Replacing
        /\ \A t \in Tab : call[t]["refresh"].at = "sent" => Usable(call[t]["refresh"].with)
        /\ \A t \in Tab, k \in Kind : Coming(t, k) => Live(call[t][k].sets)

Shared == Private /\ InGoodHands /\ ~replayed

-----------------------------------------------------------------------------
(* Lemmas on the state *)

\* One tab's step leaves the others' memory and requests alone.
OnlyTab(t) ==
    \A u \in Tab \ {t} :
        /\ state'[u] = state[u] /\ session'[u] = session[u] /\ boot'[u] = boot[u]
        /\ work'[u] = work[u] /\ call'[u] = call[u]

LEMMA NoCallIsCall == NoCall \in Call /\ NoCall.at = "idle" /\ NoCall.sets = Keep
                      /\ NoCall.code = "none" /\ NoCall.with = None
BY DEF NoCall, Call, None, Keep

LEMMA TokenList == Shapes => /\ DOMAIN tokens = 1..Len(tokens) /\ Len(tokens) \in Nat
                          /\ None \notin DOMAIN tokens /\ Keep \notin DOMAIN tokens
                          /\ Known \subseteq Nat /\ DOMAIN tokens \subseteq Known
BY DEF Shapes, Known, None, Keep

LEMMA TokenFields ==
    ASSUME Shapes, NEW n \in DOMAIN tokens
    PROVE  tokens[n] \in Token /\ tokens[n].owner \in User /\ tokens[n].family \in Nat
<1>1. tokens \in Seq(Token)
  BY DEF Shapes
<1>2. tokens[n] \in Token
  <2> HIDE DEF Token
  <2> QED BY <1>1
<1> QED BY <1>2 DEF Token

LEMMA NextTokenList ==
    Shapes' => /\ DOMAIN tokens' = 1..Len(tokens') /\ Len(tokens') \in Nat
               /\ None \notin DOMAIN tokens' /\ Keep \notin DOMAIN tokens'
               /\ Known' \subseteq Nat /\ DOMAIN tokens' \subseteq Known'
BY DEF Shapes, Known, None, Keep

LEMMA Fields ==
    ASSUME Shapes, NEW t \in Tab, NEW k \in Kind
    PROVE  /\ call[t][k] \in Call /\ call[t][k].with \in Nat /\ call[t][k].sets \in Nat \cup {Keep}
           /\ call[t][k].at \in {"idle", "queued", "sent", "served", "back"}
           /\ call[t][k].code \in {"none", "ok", "rejected", "failed"}
           /\ session[t].access \in Nat /\ boot[t].access \in Nat
           /\ work[t].first \in Nat /\ work[t].access \in Nat
<1>1. call[t][k] \in Call
  BY DEF Shapes
<1>2. session[t] \in Session /\ boot[t] \in Boot /\ work[t] \in Work
  BY DEF Shapes
<1> QED BY <1>1, <1>2 DEF Call, Session, Boot, Work

\* A request takes another form.
LEMMA CallSet ==
    ASSUME Shapes, NEW t \in Tab, NEW k \in Kind, NEW c \in Call,
           call' = [call EXCEPT ![t][k] = c]
    PROVE  /\ call' \in [Tab -> [Kind -> Call]] /\ call'[t][k] = c
           /\ \A j \in Kind \ {k} : call'[t][j] = call[t][j]
           /\ \A u \in Tab \ {t} : call'[u] = call[u]
<1> HIDE DEF Call, Kind
<1> QED BY DEF Shapes

\* What holds of other tabs still does when more tokens are issued.
LEMMA OthersSound ==
    ASSUME Shapes, Shapes', Calls, Tabs, News, NEW t \in Tab, OnlyTab(t),
           DOMAIN tokens \subseteq DOMAIN tokens',
           TabSound(t)', \A k \in Kind : CallSound(call[t][k], k)', NewsAt(t)'
    PROVE  Calls' /\ Tabs' /\ News'
<1>1. Known \subseteq Known' /\ None \notin DOMAIN tokens' /\ Keep \notin DOMAIN tokens'
  BY NextTokenList DEF Known
<1>2. ASSUME NEW u \in Tab, NEW k \in Kind PROVE CallSound(call[u][k], k)'
  <2>1. CASE u = t
    BY <2>1
  <2>2. CASE u # t
    <3>1. CallSound(call[u][k], k) /\ call'[u][k] = call[u][k]
      BY <2>2 DEF Calls, OnlyTab
    <3> QED BY <1>1, <3>1 DEF CallSound, Known
  <2> QED BY <2>1, <2>2
<1>3. ASSUME NEW u \in Tab PROVE TabSound(u)' /\ NewsAt(u)'
  <2>1. CASE u = t
    BY <2>1
  <2>2. CASE u # t
    <3>1. /\ TabSound(u) /\ NewsAt(u)
          /\ state'[u] = state[u] /\ session'[u] = session[u] /\ boot'[u] = boot[u]
          /\ work'[u] = work[u] /\ call'[u] = call[u]
      BY <2>2 DEF Tabs, News, OnlyTab
    <3>2. \A k \in Kind : CallSound(call[u][k], k)
      BY DEF Calls
    <3>3. \A k \in Kind : Brought(u, k)' => Brought(u, k)
      BY <1>1, <3>1, <3>2 DEF Brought, CallSound, Known
    <3> QED BY <1>1, <3>1, <3>3, Zenon DEF TabSound, NewsAt
  <2> QED BY <2>1, <2>2
<1> QED BY <1>2, <1>3 DEF Calls, Tabs, News

-----------------------------------------------------------------------------
(* What is due *)

Part == {"refresh", "login", "work"}

LEMMA AtMostOneMore ==
    ASSUME NEW S, IsFiniteSet(S), NEW x
    PROVE  /\ IsFiniteSet(S \cup {x}) /\ Cardinality(S) \in Nat
           /\ Cardinality(S \cup {x}) <= Cardinality(S) + 1
<1>1. IsFiniteSet(S \cup {x}) /\ Cardinality(S \cup {x}) = IF x \in S THEN Cardinality(S) ELSE Cardinality(S) + 1
  BY FS_AddElement
<1>2. Cardinality(S) \in Nat
  BY FS_CardinalityType
<1> QED BY <1>1, <1>2

LEMMA DueOfOthers ==
    ASSUME NEW t \in Tab, OnlyTab(t)
    PROVE  \A p \in Tab \X Part : p[1] # t => (p \in Pending' <=> p \in Pending)
BY DEF OnlyTab, Pending, Due, Part

LEMMA FewerDue ==
    ASSUME Budget, NEW t \in Tab, OnlyTab(t), Len(tokens') = Len(tokens), Len(tokens) \in Nat,
           clicks \in Nat, clicks' \in Nat, clicks <= clicks',
           \A k \in Part : Due(t, k)' => Due(t, k)
    PROVE  Budget'
<1>1. Pending' \subseteq Pending
  BY DueOfOthers DEF Pending, Part
<1>2. IsFiniteSet(Pending') /\ Cardinality(Pending') <= Cardinality(Pending)
      /\ Cardinality(Pending) \in Nat /\ Cardinality(Pending') \in Nat
  BY <1>1, FS_Subset, FS_CardinalityType DEF Budget
<1> QED BY <1>2 DEF Budget

\* A click makes one more due.
LEMMA OneMoreDue ==
    ASSUME Budget, NEW t \in Tab, OnlyTab(t), Len(tokens') = Len(tokens), Len(tokens) \in Nat,
           clicks \in Nat, clicks' = clicks + 1, NEW new,
           \A k \in Part : Due(t, k)' => Due(t, k) \/ k = new
    PROVE  Budget'
<1>1. Pending' \subseteq Pending \cup {<<t, new>>}
  BY DueOfOthers DEF Pending, Part
<1>2. /\ IsFiniteSet(Pending \cup {<<t, new>>})
      /\ Cardinality(Pending \cup {<<t, new>>}) <= Cardinality(Pending) + 1
      /\ Cardinality(Pending) \in Nat
  BY AtMostOneMore DEF Budget
<1>3. IsFiniteSet(Pending') /\ Cardinality(Pending') <= Cardinality(Pending) + 1
      /\ Cardinality(Pending') \in Nat
  BY <1>1, <1>2, FS_Subset, FS_CardinalityType
<1> QED BY <1>2, <1>3 DEF Budget

\* What was due is done, and may have become a token or another thing due.
LEMMA OneDueDone ==
    ASSUME Budget, NEW t \in Tab, OnlyTab(t), Len(tokens) \in Nat, Len(tokens') \in Nat,
           clicks \in Nat, clicks' = clicks, NEW old \in Part, NEW new,
           Due(t, old), ~Due(t, old)', \A k \in Part : Due(t, k)' => Due(t, k) \/ k = new,
           \/ Len(tokens') = Len(tokens)
           \/ Len(tokens') = Len(tokens) + 1 /\ \A k \in Part : Due(t, k)' => Due(t, k)
    PROVE  Budget' /\ Len(tokens) + 1 <= clicks
<1> DEFINE rest == Pending \ {<<t, old>>}
<1>1. <<t, old>> \in Pending
  BY DEF Pending, Part
<1>2. IsFiniteSet(rest) /\ Cardinality(rest) = Cardinality(Pending) - 1
      /\ Cardinality(Pending) \in Nat /\ Cardinality(rest) \in Nat
  BY <1>1, FS_RemoveElement, FS_CardinalityType DEF Budget
<1>3. /\ IsFiniteSet(rest \cup {<<t, new>>})
      /\ Cardinality(rest \cup {<<t, new>>}) <= Cardinality(rest) + 1
  <2> HIDE DEF rest
  <2> QED BY <1>2, AtMostOneMore
<1>4. Pending' \subseteq rest \cup {<<t, new>>}
  BY DueOfOthers DEF Pending, Part
<1>5. (\A k \in Part : Due(t, k)' => Due(t, k)) => Pending' \subseteq rest
  BY DueOfOthers DEF Pending, Part
<1> HIDE DEF rest
<1>6. IsFiniteSet(Pending') /\ Cardinality(Pending') \in Nat
      /\ Cardinality(Pending') <= Cardinality(rest) + 1
  BY <1>2, <1>3, <1>4, FS_Subset, FS_CardinalityType
<1>7. (\A k \in Part : Due(t, k)' => Due(t, k)) => Cardinality(Pending') <= Cardinality(rest)
  BY <1>2, <1>5, FS_Subset
<1> QED BY <1>2, <1>6, <1>7 DEF Budget

-----------------------------------------------------------------------------
(* Turns *)

LEMMA SameQueue ==
    ASSUME Turns, NEW t \in Tab, OnlyTab(t), lock' = lock,
           \A k \in Transition :
               /\ call'[t][k].at = "idle" <=> call[t][k].at = "idle"
               /\ call'[t][k].at \in {"sent", "served", "back"} =>
                      \/ call[t][k].at \in {"sent", "served", "back"}
                      \/ Locks => lock # <<>> /\ Head(lock) = <<t, k>>
    PROVE  Turns'
BY DEF Turns, OnlyTab

LEMMA JoinQueue ==
    ASSUME Shapes, Turns, NEW t \in Tab, OnlyTab(t), NEW k \in Transition,
           call[t][k].at = "idle", call'[t][k].at = "queued", lock' = Queued(t, k),
           \A j \in Transition \ {k} : call'[t][j] = call[t][j]
    PROVE  Turns'
<1> SUFFICES ASSUME Locks PROVE Turns'
  BY DEF Turns
<1>1. /\ lock \in Seq(Tab \X Transition) /\ <<t, k>> \in Tab \X Transition
      /\ lock' = Append(lock, <<t, k>>)
  BY DEF Shapes, Queued
<1>2. /\ Len(lock) \in Nat /\ DOMAIN lock = 1..Len(lock) /\ DOMAIN lock' = 1..(Len(lock) + 1)
      /\ lock'[Len(lock) + 1] = <<t, k>> /\ \A i \in DOMAIN lock : lock'[i] = lock[i]
      /\ lock # <<>> => lock' # <<>> /\ Head(lock') = Head(lock)
  BY <1>1
<1>3. \A i \in DOMAIN lock : lock[i] # <<t, k>>
  BY DEF Turns
<1>4. ASSUME NEW i \in DOMAIN lock', NEW j \in DOMAIN lock', lock'[i] = lock'[j] PROVE i = j
  BY <1>2, <1>3, <1>4 DEF Turns
<1>5. ASSUME NEW u \in Tab, NEW j \in Transition
      PROVE  /\ call'[u][j].at # "idle" <=> \E i \in DOMAIN lock' : lock'[i] = <<u, j>>
             /\ call'[u][j].at \in {"sent", "served", "back"} => lock' # <<>> /\ Head(lock') = <<u, j>>
  <2>1. CASE u = t /\ j = k
    BY <1>2, <2>1
  <2>2. CASE ~(u = t /\ j = k)
    <3>1. call'[u][j] = call[u][j]
      BY <2>2 DEF OnlyTab
    <3>2. /\ call[u][j].at # "idle" <=> \E i \in DOMAIN lock : lock[i] = <<u, j>>
          /\ call[u][j].at \in {"sent", "served", "back"} => lock # <<>> /\ Head(lock) = <<u, j>>
      BY DEF Turns
    <3>3. (\E i \in DOMAIN lock' : lock'[i] = <<u, j>>) <=> (\E i \in DOMAIN lock : lock[i] = <<u, j>>)
      BY <1>2, <2>2
    <3> QED BY <1>2, <3>1, <3>2, <3>3
  <2> QED BY <2>1, <2>2
<1> QED BY <1>4, <1>5 DEF Turns

\* Who settles a transition is the holder, and nobody else is at work.
LEMMA LeaveQueue ==
    ASSUME Shapes, Turns, NEW t \in Tab, OnlyTab(t), NEW k \in Transition,
           call[t][k].at = "back", call'[t][k].at = "idle", lock' = Released(t, k),
           \A j \in Transition \ {k} : call'[t][j] = call[t][j]
    PROVE  Turns'
<1> SUFFICES ASSUME Locks PROVE Turns'
  BY DEF Turns
<1>1. lock \in Seq(Tab \X Transition) /\ lock # <<>> /\ Head(lock) = <<t, k>> /\ lock' = Tail(lock)
  BY DEF Shapes, Turns, Released
<1>2. /\ Len(lock) \in Nat \ {0} /\ DOMAIN lock = 1..Len(lock) /\ DOMAIN lock' = 1..(Len(lock) - 1)
      /\ lock[1] = <<t, k>> /\ \A i \in DOMAIN lock' : lock'[i] = lock[i + 1]
  BY <1>1
<1>3. ASSUME NEW i \in DOMAIN lock', NEW j \in DOMAIN lock', lock'[i] = lock'[j] PROVE i = j
  <2>1. i + 1 \in DOMAIN lock /\ j + 1 \in DOMAIN lock /\ lock[i + 1] = lock[j + 1]
    BY <1>2, <1>3
  <2>2. i + 1 = j + 1
    BY <2>1 DEF Turns
  <2> QED BY <1>2, <2>2
<1>4. ASSUME NEW u \in Tab, NEW j \in Transition, ~(u = t /\ j = k)
      PROVE  /\ call'[u][j] = call[u][j]
             /\ call[u][j].at \notin {"sent", "served", "back"}
             /\ call[u][j].at # "idle" <=> \E i \in DOMAIN lock' : lock'[i] = <<u, j>>
  <2>1. call'[u][j] = call[u][j]
    BY <1>4 DEF OnlyTab
  <2>2. /\ call[u][j].at # "idle" <=> \E i \in DOMAIN lock : lock[i] = <<u, j>>
        /\ call[u][j].at \in {"sent", "served", "back"} => Head(lock) = <<u, j>>
    BY DEF Turns
  <2>3. call[u][j].at \notin {"sent", "served", "back"}
    BY <1>1, <1>4, <2>2
  <2>4. ASSUME NEW i \in DOMAIN lock, lock[i] = <<u, j>> PROVE \E h \in DOMAIN lock' : lock'[h] = <<u, j>>
    <3>1. i # 1
      BY <1>2, <1>4, <2>4
    <3>2. i - 1 \in DOMAIN lock' /\ (i - 1) + 1 = i
      BY <1>2, <3>1
    <3>3. lock'[i - 1] = lock[i]
      BY <1>2, <3>2
    <3> QED BY <2>4, <3>2, <3>3
  <2>5. ASSUME NEW h \in DOMAIN lock', lock'[h] = <<u, j>> PROVE \E i \in DOMAIN lock : lock[i] = <<u, j>>
    <3>1. h + 1 \in DOMAIN lock
      BY <1>2
    <3> QED BY <1>2, <2>5, <3>1
  <2> QED BY <2>1, <2>2, <2>3, <2>4, <2>5
<1>5. \A h \in DOMAIN lock' : lock'[h] # <<t, k>>
  <2>1. \A h \in DOMAIN lock' : h + 1 \in DOMAIN lock /\ h + 1 # 1 /\ 1 \in DOMAIN lock
    BY <1>2
  <2> QED BY <1>2, <2>1 DEF Turns
<1> QED BY <1>3, <1>4, <1>5 DEF Turns

-----------------------------------------------------------------------------
(* Steps that leave the service and the cookie alone *)

Calm == UNCHANGED <<tokens, lost, replayed, cookie>>

LEMMA CalmKeepsShared ==
    ASSUME Shared, Calm, NEW t \in Tab, OnlyTab(t),
           \A k \in Kind : call[t][k].at \in {"sent", "served"} \/ call'[t][k].at \in {"sent", "served"}
                               => call'[t][k] = call[t][k]
    PROVE  Shared'
<1>1. ASSUME NEW u \in Tab, NEW k \in Kind
      PROVE  /\ call[u][k].at \in {"sent", "served"} \/ call'[u][k].at \in {"sent", "served"}
                    => call'[u][k] = call[u][k]
             /\ Coming(u, k)' => Coming(u, k) /\ call'[u][k] = call[u][k]
  <2>1. call[u][k].at \in {"sent", "served"} \/ call'[u][k].at \in {"sent", "served"}
            => call'[u][k] = call[u][k]
    BY DEF OnlyTab
  <2> QED BY <2>1 DEF Coming, Brought, Calm
<1>2. tokens' = tokens /\ lost' = lost /\ replayed' = replayed /\ cookie' = cookie
  BY DEF Calm
<1>3. Private'
  <2> SUFFICES ASSUME NEW u \in Tab, Coming(u, "login")'
               PROVE  LET n == call'[u]["login"].sets IN
                      /\ \A m \in DOMAIN tokens' : tokens'[m].family = n <=> m = n
                      /\ cookie' # n
                      /\ \A v \in Tab, k \in Kind :
                             /\ call'[v][k].at = "sent" => call'[v][k].with # n
                             /\ Coming(v, k)' /\ <<v, k>> # <<u, "login">> => call'[v][k].sets # n
    BY DEF Private
  <2>1. "login" \in Kind
    BY DEF Kind
  <2>2. Coming(u, "login") /\ call'[u]["login"] = call[u]["login"]
    BY <1>1, <2>1
  <2> QED BY <1>1, <1>2, <2>2 DEF Shared, Private
<1>4. InGoodHands'
  <2>1. "refresh" \in Kind /\ Transition \subseteq Kind
    BY DEF Kind, Transition
  <2>2. \A n : Live(n)' <=> Live(n)
    BY <1>2 DEF Live
  <2>3. Replacing => Replacing'
    BY <1>1, <2>1 DEF Replacing
  <2>4. ASSUME ~lost PROVE Usable(cookie)' \/ Replacing'
    BY <1>2, <2>2, <2>3, <2>4 DEF Shared, InGoodHands, Usable
  <2>5. ASSUME ~lost, NEW u \in Tab, call'[u]["refresh"].at = "sent" PROVE Usable(call[u]["refresh"].with)'
    <3>1. call'[u]["refresh"] = call[u]["refresh"]
      BY <1>1, <2>1, <2>5
    <3> QED BY <2>2, <2>5, <3>1 DEF Shared, InGoodHands, Usable
  <2>6. ASSUME ~lost, NEW u \in Tab, NEW k \in Kind, Coming(u, k)' PROVE Live(call[u][k].sets)'
    BY <1>1, <2>2, <2>6 DEF Shared, InGoodHands
  <2> QED BY <1>2, <2>4, <2>5, <2>6 DEF InGoodHands
<1> QED BY <1>2, <1>3, <1>4 DEF Shared

LEMMA TabStep ==
    ASSUME Base, NEW t \in Tab, OnlyTab(t), Shapes', tokens' = tokens, TabSound(t)',
           \A k \in Kind : CallSound(call[t][k], k)', NewsAt(t)', Budget', Turns'
    PROVE  Base'
<1>1. Calls' /\ Tabs' /\ News'
  BY OthersSound DEF Base
<1>2. Families'
  BY DEF Base, Families
<1> QED BY <1>1, <1>2 DEF Base

\* What does not touch requests.
LEMMA MemoryStep ==
    ASSUME Base, NEW t \in Tab, OnlyTab(t), Shapes', Calm, UNCHANGED <<lock, call, clicks>>,
           TabSound(t)', NewsAt(t)', work'[t].at = "first" => work[t].at = "first"
    PROVE  Base' /\ (Shared => Shared')
<1>1. \A k \in Kind : CallSound(call[t][k], k)'
  BY DEF Base, Calls, CallSound, Known, Calm
<1>2. \A k \in Part : Due(t, k)' => Due(t, k)
  BY DEF Due, Part
<1>3. /\ Len(tokens') = Len(tokens) /\ Len(tokens) \in Nat /\ clicks \in Nat /\ clicks' \in Nat
      /\ clicks <= clicks'
  BY TokenList DEF Base, Calm, Shapes
<1>4. Budget'
  BY <1>2, <1>3, FewerDue DEF Base
<1>5. Turns'
  BY SameQueue DEF Base
<1> QED BY <1>1, <1>4, <1>5, TabStep, CalmKeepsShared DEF Calm

LEMMA SettledFacts ==
    ASSUME Base, NEW t \in Tab, NEW k \in Kind, NEW code, Settled(t, k, code)
    PROVE  /\ call' \in [Tab -> [Kind -> Call]] /\ lock' \in Seq(Tab \X Transition)
           /\ call'[t][k] = NoCall /\ \A j \in Kind \ {k} : call'[t][j] = call[t][j]
           /\ \A u \in Tab \ {t} : call'[u] = call[u]
           /\ call[t][k].at = "back" /\ call[t][k].code = code
           /\ Calm /\ clicks' = clicks
           /\ \A j \in Kind : CallSound(call[t][j], j)'
           /\ \A j \in Kind : Brought(t, j)' => /\ j # k /\ Brought(t, j) /\ call'[t][j] = call[t][j]
                                                /\ call[t][k].sets # call[t][j].sets
<1>1. /\ call' = [call EXCEPT ![t][k] = NoCall] /\ call[t][k].at = "back" /\ call[t][k].code = code
      /\ lock' = Released(t, k) /\ Calm /\ clicks' = clicks
  BY DEF Settled, Calm, server
<1>2. /\ call' \in [Tab -> [Kind -> Call]] /\ call'[t][k] = NoCall
      /\ \A j \in Kind \ {k} : call'[t][j] = call[t][j]
      /\ \A u \in Tab \ {t} : call'[u] = call[u]
  <2>1. Shapes /\ NoCall \in Call /\ call' = [call EXCEPT ![t][k] = NoCall]
    BY <1>1, NoCallIsCall DEF Base
  <2> HIDE DEF NoCall, Call, Kind
  <2> QED BY <2>1, CallSet
<1>3. lock' \in Seq(Tab \X Transition)
  <2>1. Locks /\ k \in Transition => lock # <<>>
    BY <1>1 DEF Base, Turns
  <2> QED BY <1>1, <2>1 DEF Base, Shapes, Released
<1>4. \A j \in Kind : CallSound(call[t][j], j)'
  <2>1. tokens' = tokens /\ Keep \notin DOMAIN tokens
    BY <1>1, TokenList DEF Calm, Base
  <2>2. \A j \in Kind \ {k} : CallSound(call[t][j], j)'
    BY <1>2, <2>1 DEF Base, Calls, CallSound, Known
  <2>3. CallSound(NoCall, k)'
    BY <2>1, NoCallIsCall DEF CallSound, Known, NoCall
  <2>4. CallSound(call[t][k], k)'
    BY <1>2, <2>3 DEF CallSound, NoCall
  <2> QED BY <2>2, <2>4
<1>5. ASSUME NEW j \in Kind, Brought(t, j)'
      PROVE  j # k /\ Brought(t, j) /\ call'[t][j] = call[t][j] /\ call[t][k].sets # call[t][j].sets
  <2>1. tokens' = tokens /\ Keep \notin DOMAIN tokens
    BY <1>1, TokenList DEF Calm, Base
  <2>2. j # k
    BY <1>2, <1>5, <2>1, NoCallIsCall DEF Brought
  <2>3. call'[t][j] = call[t][j] /\ Brought(t, j)
    BY <1>2, <1>5, <2>1, <2>2 DEF Brought
  <2> QED BY <2>2, <2>3 DEF Base, News, NewsAt
<1> QED BY <1>1, <1>2, <1>3, <1>4, <1>5

LEMMA SettledKeeps ==
    ASSUME Base, NEW t \in Tab, NEW k \in Kind, NEW code, Settled(t, k, code), OnlyTab(t), Shapes',
           TabSound(t)', NewsAt(t)', work'[t].at = "first" => work[t].at = "first"
    PROVE  Base' /\ (Shared => Shared')
<1>1. /\ call'[t][k] = NoCall /\ \A j \in Kind \ {k} : call'[t][j] = call[t][j]
      /\ call[t][k].at = "back" /\ Calm /\ clicks' = clicks
      /\ \A j \in Kind : CallSound(call[t][j], j)'
  BY SettledFacts
<1>2. \A j \in Part : Due(t, j)' => Due(t, j)
  BY <1>1, NoCallIsCall DEF Due, Part, Kind
<1>3. /\ Len(tokens') = Len(tokens) /\ Len(tokens) \in Nat /\ clicks \in Nat /\ clicks' \in Nat
      /\ clicks <= clicks'
  BY <1>1, TokenList DEF Base, Calm, Shapes
<1>4. Budget'
  BY <1>2, <1>3, FewerDue DEF Base
<1>5. Turns'
  <2>1. CASE k \in Transition
    <3>1. lock' = Released(t, k) /\ call'[t][k].at = "idle" /\ Transition \subseteq Kind
      BY <1>1, NoCallIsCall DEF Settled, Transition, Kind
    <3>2. \A j \in Transition \ {k} : call'[t][j] = call[t][j]
      BY <1>1, <3>1
    <3> QED BY <1>1, <2>1, <3>1, <3>2, LeaveQueue DEF Base
  <2>2. CASE k \notin Transition
    <3>1. lock' = lock /\ Transition \subseteq Kind
      BY <2>2 DEF Settled, Released, Transition, Kind
    <3>2. \A j \in Transition : call'[t][j] = call[t][j]
      BY <1>1, <2>2, <3>1
    <3> QED BY <3>1, <3>2, SameQueue DEF Base
  <2> QED BY <2>1, <2>2
<1>6. tokens' = tokens
  BY <1>1 DEF Calm
<1>7. Base'
  BY <1>1, <1>4, <1>5, <1>6, TabStep
<1>8. \A j \in Kind : call[t][j].at \in {"sent", "served"} \/ call'[t][j].at \in {"sent", "served"}
                               => call'[t][j] = call[t][j]
  BY <1>1, NoCallIsCall
<1> QED BY <1>1, <1>7, <1>8, CalmKeepsShared

-----------------------------------------------------------------------------
(* The memory of a tab *)

LEMMA EmptyMemory ==
    /\ NoSession \in Session /\ NoBoot \in Boot /\ NoWork \in Work
    /\ NoSession.access = None /\ NoBoot.access = None /\ NoBoot.at = "none"
    /\ NoWork.at = "idle" /\ NoWork.first = None /\ NoWork.access = None
BY DEF NoSession, NoBoot, NoWork, Session, Boot, Work, None

LEMMA Updated ==
    ASSUME Shapes, NEW t \in Tab, NEW status \in Status, NEW s \in Session, UpdateState(t, status, s)
    PROVE  /\ state' \in [Tab -> Status] /\ session' \in [Tab -> Session]
           /\ state'[t] = status /\ session'[t] = s
           /\ \A u \in Tab \ {t} : state'[u] = state[u] /\ session'[u] = session[u]
<1> HIDE DEF Status, Session
<1> QED BY DEF Shapes, UpdateState

LEMMA Signalled ==
    ASSUME Shapes, signals' = signals \/ Broadcast
    PROVE  signals' \in [Tab -> Nat]
<1>1. signals \in [Tab -> Nat]
  BY DEF Shapes
<1>2. \A q \in Tab : (IF state[q] = "closed" THEN 0 ELSE signals[q] + 1) \in Nat
  BY <1>1
<1> QED BY <1>1, <1>2 DEF Broadcast

\* A tab that shows nothing names nothing.
LEMMA Silent ==
    ASSUME NEW t \in Tab, Base, state'[t] # "authenticated", session'[t] = NoSession,
           tokens' = tokens, boot'[t] \in {boot[t], NoBoot}, work'[t] \in {work[t], NoWork},
           \A k \in Kind : Brought(t, k)' => Brought(t, k) /\ call'[t][k] = call[t][k]
                                              /\ \A j \in Kind \ {k} : call'[t][j] \in {call[t][j], NoCall}
    PROVE  TabSound(t)' /\ NewsAt(t)'
<1>1. Known' = Known /\ None \in Known /\ None \notin DOMAIN tokens /\ Keep \notin DOMAIN tokens
  BY TokenList DEF Known, Base
<1>2. TabSound(t)'
  BY <1>1, EmptyMemory DEF TabSound, Base, Tabs
<1>3. NewsAt(t)'
  <2> SUFFICES ASSUME NEW k \in Kind, Brought(t, k)'
               PROVE  /\ call'[t][k].sets \notin {session'[t].access, boot'[t].access, work'[t].first, work'[t].access}
                      /\ \A j \in Kind \ {k} : call'[t][j].sets # call'[t][k].sets
    BY DEF NewsAt
  <2>1. Brought(t, k) /\ call'[t][k] = call[t][k] /\ \A j \in Kind \ {k} : call'[t][j] \in {call[t][j], NoCall}
    OBVIOUS
  <2>2. /\ call[t][k].sets \notin {session[t].access, boot[t].access, work[t].first, work[t].access}
        /\ \A j \in Kind \ {k} : call[t][j].sets # call[t][k].sets
        /\ call[t][k].sets \in DOMAIN tokens
    BY <2>1 DEF Base, News, NewsAt, Brought
  <2> QED BY <1>1, <2>1, <2>2, EmptyMemory, NoCallIsCall
<1> QED BY <1>2, <1>3

LEMMA HearKeeps == ASSUME Base, NEW t \in Tab, Hear(t) PROVE Base' /\ (Shared => Shared')
<1>1. /\ UpdateState(t, "unauthenticated", NoSession) /\ signals' = [signals EXCEPT ![t] = @ - 1]
      /\ signals[t] > 0 /\ Calm /\ UNCHANGED <<lock, call, boot, work, clicks>>
  BY DEF Hear, Calm, server
<1>2. /\ state' \in [Tab -> Status] /\ session' \in [Tab -> Session]
      /\ state'[t] = "unauthenticated" /\ session'[t] = NoSession
      /\ \A u \in Tab \ {t} : state'[u] = state[u] /\ session'[u] = session[u]
  BY <1>1, Updated, EmptyMemory DEF Base, Status
<1> signals' \in [Tab -> Nat]
  <2>1. signals \in [Tab -> Nat] /\ signals[t] - 1 \in Nat
    BY <1>1 DEF Base, Shapes
  <2> QED BY <1>1, <2>1
<1>3. Shapes' /\ OnlyTab(t)
  BY <1>1, <1>2 DEF Base, Shapes, Calm, OnlyTab, Known
<1>4. TabSound(t)' /\ NewsAt(t)'
  BY <1>1, <1>2, Silent DEF Calm, Brought
<1> QED BY <1>1, <1>3, <1>4, MemoryStep

LEMMA AnsweredKeeps == ASSUME Base, NEW t \in Tab, Answered(t) PROVE Base' /\ (Shared => Shared')
<1>1. work' = [work EXCEPT ![t] = NoWork] /\ Calm /\ UNCHANGED <<lock, call, boot, clicks, state, session, signals>>
  BY DEF Answered, Calm, server, memory
<1>2. /\ work' \in [Tab -> Work] /\ work'[t] = NoWork
      /\ \A u \in Tab \ {t} : work'[u] = work[u]
  BY <1>1, EmptyMemory DEF Base, Shapes
<1>3. Shapes' /\ OnlyTab(t)
  BY <1>1, <1>2 DEF Base, Shapes, Calm, OnlyTab, Known
<1>4. Known' = Known /\ None \in Known /\ None \notin DOMAIN tokens /\ DOMAIN tokens' = DOMAIN tokens
  BY <1>1, TokenList DEF Known, Base, Calm
<1>5. TabSound(t)'
  BY <1>1, <1>2, <1>4, EmptyMemory DEF TabSound, Base, Tabs
<1>6. NewsAt(t)'
  BY <1>1, <1>2, <1>4, EmptyMemory DEF NewsAt, Base, News, Brought
<1> QED BY <1>1, <1>2, <1>3, <1>5, <1>6, MemoryStep, EmptyMemory

LEMMA SecondRefusedKeeps == ASSUME Base, NEW t \in Tab, SecondRefused(t) PROVE Base' /\ (Shared => Shared')
<1>1. /\ UpdateState(t, "unauthenticated", NoSession) /\ Broadcast
      /\ work' = [work EXCEPT ![t] = NoWork] /\ Calm /\ UNCHANGED <<lock, call, boot, clicks>>
  BY DEF SecondRefused, InvalidateSession, Calm, server
<1>2. /\ state' \in [Tab -> Status] /\ session' \in [Tab -> Session]
      /\ state'[t] = "unauthenticated" /\ session'[t] = NoSession
      /\ \A u \in Tab \ {t} : state'[u] = state[u] /\ session'[u] = session[u]
  BY <1>1, Updated, EmptyMemory DEF Base, Status
<1>3. /\ work' \in [Tab -> Work] /\ work'[t] = NoWork
      /\ \A u \in Tab \ {t} : work'[u] = work[u]
  BY <1>1, EmptyMemory DEF Base, Shapes
<1>4. signals' \in [Tab -> Nat]
  BY <1>1, Signalled DEF Base
<1>5. Shapes' /\ OnlyTab(t)
  BY <1>1, <1>2, <1>3, <1>4 DEF Base, Shapes, Calm, OnlyTab, Known
<1>6. TabSound(t)' /\ NewsAt(t)'
  BY <1>1, <1>2, <1>3, Silent DEF Calm, Brought
<1> QED BY <1>1, <1>3, <1>5, <1>6, MemoryStep, EmptyMemory

LEMMA MeKeeps == ASSUME Base, NEW t \in Tab, Me(t) PROVE Base' /\ (Shared => Shared')
<1> DEFINE n == boot[t].access
           s == [user |-> Owner(n), access |-> n]
<1>1. /\ boot[t].at = "me" /\ boot' = [boot EXCEPT ![t] = NoBoot] /\ Calm
      /\ UNCHANGED <<lock, call, work, signals, clicks>>
  BY DEF Me, Calm, server
<1>2. n \in DOMAIN tokens /\ n \in Nat /\ n # None /\ Owner(n) \in User
  <2>1. n \in DOMAIN tokens
    BY <1>1 DEF Base, Tabs, TabSound
  <2>2. tokens[n].owner \in User
    BY <2>1, TokenFields DEF Base
  <2> QED BY <2>1, <2>2, TokenList DEF Base, Owner
<1>3. s \in Session /\ s # NoSession /\ s.access = n
  BY <1>2 DEF Session, NoSession
<1>4. PICK status \in Status, m \in {NoSession, s} :
          UpdateState(t, status, m) /\ (status = "authenticated" <=> m # NoSession)
  BY <1>3 DEF Me, Status
<1> HIDE DEF s
<1>5. m \in Session /\ m.access \in {None, n}
  BY <1>3, EmptyMemory
<1>6. /\ state' \in [Tab -> Status] /\ session' \in [Tab -> Session]
      /\ state'[t] = status /\ session'[t] = m
      /\ \A u \in Tab \ {t} : state'[u] = state[u] /\ session'[u] = session[u]
  BY <1>4, <1>5, Updated DEF Base
<1>7. /\ boot' \in [Tab -> Boot] /\ boot'[t] = NoBoot /\ \A u \in Tab \ {t} : boot'[u] = boot[u]
  BY <1>1, EmptyMemory DEF Base, Shapes
<1>8. Shapes' /\ OnlyTab(t)
  BY <1>1, <1>6, <1>7 DEF Base, Shapes, Calm, OnlyTab, Known
<1>9. Known' = Known /\ None \in Known /\ None \notin DOMAIN tokens /\ DOMAIN tokens' = DOMAIN tokens
      /\ DOMAIN tokens \subseteq Known
  BY <1>1, TokenList DEF Known, Base, Calm
<1>10. TabSound(t)'
  BY <1>1, <1>2, <1>3, <1>4, <1>5, <1>6, <1>7, <1>9, EmptyMemory DEF TabSound, Base, Tabs
<1>11. NewsAt(t)'
  BY <1>1, <1>2, <1>5, <1>6, <1>7, <1>9, EmptyMemory DEF NewsAt, Base, News, Brought
<1> QED BY <1>1, <1>8, <1>10, <1>11, MemoryStep

-----------------------------------------------------------------------------
(* Settled requests *)

\* A tab that settles a request learns what that request brought, no more.
Memory(t) == {session[t].access, boot[t].access, work[t].first, work[t].access}

LEMMA SettledNews ==
    ASSUME Base, NEW t \in Tab, NEW k \in Kind, NEW code, Settled(t, k, code),
           Memory(t)' \subseteq Memory(t) \cup {None, call[t][k].sets}
    PROVE  NewsAt(t)'
<1> HIDE DEF Kind
<1>1. /\ Calm /\ call'[t][k] = NoCall /\ \A j \in Kind \ {k} : call'[t][j] = call[t][j]
      /\ \A j \in Kind : Brought(t, j)' =>
             /\ j # k /\ Brought(t, j) /\ call'[t][j] = call[t][j]
             /\ call[t][k].sets # call[t][j].sets
  BY SettledFacts
<1>2. None \notin DOMAIN tokens /\ Keep \notin DOMAIN tokens
  BY TokenList DEF Base
<1> SUFFICES ASSUME NEW j \in Kind, Brought(t, j)'
             PROVE  /\ call'[t][j].sets \notin Memory(t)'
                    /\ \A i \in Kind \ {j} : call'[t][i].sets # call'[t][j].sets
  BY DEF NewsAt, Memory
<1>3. /\ j # k /\ Brought(t, j) /\ call'[t][j] = call[t][j] /\ call[t][k].sets # call[t][j].sets
  BY <1>1
<1>4. /\ call[t][j].sets \notin Memory(t) /\ call[t][j].sets \in DOMAIN tokens
      /\ \A i \in Kind \ {j} : call[t][i].sets # call[t][j].sets
  BY <1>3 DEF Base, News, NewsAt, Brought, Memory
<1>5. \A i \in Kind \ {j} : call'[t][i].sets \in {call[t][i].sets, Keep}
  BY <1>1, NoCallIsCall
<1> QED BY <1>2, <1>3, <1>4, <1>5

LEMMA LoginFailsKeeps == ASSUME Base, NEW t \in Tab, LoginFails(t) PROVE Base' /\ (Shared => Shared')
<1>1. "login" \in Kind /\ Settled(t, "login", "failed") /\ UNCHANGED <<state, session, boot, work, signals>>
  BY DEF LoginFails, memory, Kind
<1> HIDE DEF Kind
<1>2. /\ call' \in [Tab -> [Kind -> Call]] /\ lock' \in Seq(Tab \X Transition)
      /\ \A u \in Tab \ {t} : call'[u] = call[u]
      /\ Calm /\ clicks' = clicks
      /\ \A j \in Kind : Brought(t, j)' =>
             /\ j # "login" /\ Brought(t, j) /\ call'[t][j] = call[t][j]
             /\ call[t]["login"].sets # call[t][j].sets
      /\ call'[t]["login"] = NoCall /\ \A j \in Kind \ {"login"} : call'[t][j] = call[t][j]
  BY <1>1, SettledFacts
<1>3. Shapes' /\ OnlyTab(t)
  BY <1>1, <1>2 DEF Base, Shapes, Calm, OnlyTab, Known
<1>4. TabSound(t)'
  BY <1>1, <1>2 DEF TabSound, Base, Tabs, Calm, Known
<1>5. NewsAt(t)'
  <2>1. Memory(t)' \subseteq Memory(t) \cup {None, call[t]["login"].sets}
    BY <1>1 DEF Memory
  <2> QED BY <1>1, <2>1, SettledNews
<1> QED BY <1>1, <1>3, <1>4, <1>5, SettledKeeps

\* What a settled request leaves to say of the tab, when it shows nothing after.
LEMMA EndingKeeps ==
    ASSUME Base, NEW t \in Tab, NEW k \in Kind, NEW code, Settled(t, k, code),
           NEW status \in Status, status # "authenticated", UpdateState(t, status, NoSession),
           signals' = signals \/ Broadcast,
           NEW b \in {boot[t], NoBoot}, NEW w \in {work[t], NoWork},
           boot' = [boot EXCEPT ![t] = b], work' = [work EXCEPT ![t] = w]
    PROVE  Base' /\ (Shared => Shared')
<1> HIDE DEF Kind, Status
<1>1. /\ call' \in [Tab -> [Kind -> Call]] /\ lock' \in Seq(Tab \X Transition)
      /\ \A u \in Tab \ {t} : call'[u] = call[u]
      /\ Calm /\ clicks' = clicks
      /\ \A j \in Kind : Brought(t, j)' =>
             /\ j # k /\ Brought(t, j) /\ call'[t][j] = call[t][j]
             /\ call[t][k].sets # call[t][j].sets
      /\ call'[t][k] = NoCall /\ \A j \in Kind \ {k} : call'[t][j] = call[t][j]
  BY SettledFacts
<1>2. /\ state' \in [Tab -> Status] /\ session' \in [Tab -> Session]
      /\ state'[t] = status /\ session'[t] = NoSession
      /\ \A u \in Tab \ {t} : state'[u] = state[u] /\ session'[u] = session[u]
  BY Updated, EmptyMemory DEF Base
<1>3. b \in Boot /\ w \in Work /\ boot \in [Tab -> Boot] /\ work \in [Tab -> Work]
  BY EmptyMemory DEF Base, Shapes
<1>4. /\ boot' \in [Tab -> Boot] /\ boot'[t] = b /\ work' \in [Tab -> Work] /\ work'[t] = w
      /\ \A u \in Tab \ {t} : boot'[u] = boot[u] /\ work'[u] = work[u]
  BY <1>3
<1>5. signals' \in [Tab -> Nat]
  BY Signalled DEF Base
<1>6. Shapes' /\ OnlyTab(t)
  BY <1>1, <1>2, <1>4, <1>5 DEF Base, Shapes, Calm, OnlyTab, Known
<1>7. TabSound(t)' /\ NewsAt(t)'
  BY <1>1, <1>2, <1>4, Silent DEF Calm
<1>8. work'[t].at = "first" => work[t].at = "first"
  BY <1>4, EmptyMemory
<1> QED BY <1>6, <1>7, <1>8, SettledKeeps

LEMMA AbandonedMeans ==
    ASSUME Shapes, NEW t \in Tab, Abandoned(t)
    PROVE  \E b \in {boot[t], NoBoot}, w \in {work[t], NoWork} :
               boot' = [boot EXCEPT ![t] = b] /\ work' = [work EXCEPT ![t] = w]
<1>1. boot \in [Tab -> Boot] /\ work \in [Tab -> Work]
  BY DEF Shapes
<1>2. boot' = [boot EXCEPT ![t] = IF boot[t].at = "refresh" THEN NoBoot ELSE boot[t]]
  BY <1>1 DEF Abandoned
<1>3. work' = [work EXCEPT ![t] = IF work[t].at = "refresh" THEN NoWork ELSE work[t]]
  BY <1>1 DEF Abandoned
<1> QED BY <1>2, <1>3

LEMMA RefreshRejectedKeeps ==
    ASSUME Base, NEW t \in Tab, RefreshRejected(t) PROVE Base' /\ (Shared => Shared')
<1>1. /\ "refresh" \in Kind /\ "unauthenticated" \in Status
      /\ Settled(t, "refresh", "rejected") /\ UpdateState(t, "unauthenticated", NoSession)
      /\ signals' = signals \/ Broadcast
      /\ Abandoned(t)
  BY DEF RefreshRejected, InvalidateSession, Kind, Status
<1>2. PICK b \in {boot[t], NoBoot}, w \in {work[t], NoWork} :
               boot' = [boot EXCEPT ![t] = b] /\ work' = [work EXCEPT ![t] = w]
  BY <1>1, AbandonedMeans DEF Base
<1> QED BY <1>1, <1>2, EndingKeeps

LEMMA FinishLogoutKeeps ==
    ASSUME Base, NEW t \in Tab, FinishLogout(t) PROVE Base' /\ (Shared => Shared')
<1>1. /\ "logout" \in Kind /\ "unauthenticated" \in Status
      /\ Settled(t, "logout", call[t]["logout"].code) /\ UpdateState(t, "unauthenticated", NoSession)
      /\ Broadcast /\ boot' = boot /\ work' = work
  BY DEF FinishLogout, InvalidateSession, Kind, Status
<1>2. boot' = [boot EXCEPT ![t] = boot[t]] /\ work' = [work EXCEPT ![t] = work[t]]
  BY <1>1 DEF Base, Shapes
<1> QED BY <1>1, <1>2, EndingKeeps

\* A refresh that fails ends a bootstrap, and leaves a session that is shown.
LEMMA RefreshFailsKeeps ==
    ASSUME Base, NEW t \in Tab, RefreshFails(t) PROVE Base' /\ (Shared => Shared')
<1>1. /\ "refresh" \in Kind /\ "bootstrap-error" \in Status
      /\ Settled(t, "refresh", "failed") /\ Abandoned(t) /\ signals' = signals
  BY DEF RefreshFails, Kind, Status
<1>2. PICK b \in {boot[t], NoBoot}, w \in {work[t], NoWork} :
               boot' = [boot EXCEPT ![t] = b] /\ work' = [work EXCEPT ![t] = w]
  BY <1>1, AbandonedMeans DEF Base
<1> HIDE DEF Kind, Status
<1>3. CASE boot[t].at = "refresh"
  BY <1>1, <1>2, <1>3, EndingKeeps DEF RefreshFails
<1>4. CASE boot[t].at # "refresh"
  <2>1. state' = state /\ session' = session
    BY <1>4 DEF RefreshFails
  <2>2. /\ call' \in [Tab -> [Kind -> Call]] /\ lock' \in Seq(Tab \X Transition)
        /\ \A u \in Tab \ {t} : call'[u] = call[u]
        /\ Calm /\ clicks' = clicks
        /\ \A j \in Kind : Brought(t, j)' =>
               /\ j # "refresh" /\ Brought(t, j) /\ call'[t][j] = call[t][j]
               /\ call[t]["refresh"].sets # call[t][j].sets
        /\ call'[t]["refresh"] = NoCall /\ \A j \in Kind \ {"refresh"} : call'[t][j] = call[t][j]
    BY <1>1, SettledFacts
  <2>3. b \in Boot /\ w \in Work /\ boot \in [Tab -> Boot] /\ work \in [Tab -> Work]
    BY EmptyMemory DEF Base, Shapes
  <2>4. /\ boot' \in [Tab -> Boot] /\ boot'[t] = b /\ work' \in [Tab -> Work] /\ work'[t] = w
        /\ \A u \in Tab \ {t} : boot'[u] = boot[u] /\ work'[u] = work[u]
    BY <1>2, <2>3
  <2>5. Shapes' /\ OnlyTab(t)
    BY <1>1, <2>1, <2>2, <2>4 DEF Base, Shapes, Calm, OnlyTab, Known
  <2>6. /\ DOMAIN tokens' = DOMAIN tokens /\ Keep \notin DOMAIN tokens /\ None \notin DOMAIN tokens
        /\ Known' = Known /\ None \in Known
    BY <2>2, TokenList DEF Calm, Base, Known
  <2>7. TabSound(t)'
    BY <2>1, <2>4, <2>6, EmptyMemory DEF TabSound, Base, Tabs
  <2>8. NewsAt(t)'
    <3>1. Memory(t)' \subseteq Memory(t) \cup {None, call[t]["refresh"].sets}
      BY <2>1, <2>4, EmptyMemory DEF Memory
    <3> QED BY <1>1, <3>1, SettledNews
  <2>9. work'[t].at = "first" => work[t].at = "first"
    BY <2>4, EmptyMemory
  <2> QED BY <1>1, <2>5, <2>7, <2>8, <2>9, SettledKeeps
<1> QED BY <1>3, <1>4

LEMMA EstablishSessionKeeps ==
    ASSUME Base, NEW t \in Tab, EstablishSession(t) PROVE Base' /\ (Shared => Shared')
<1> DEFINE n == call[t]["login"].sets
           s == [user |-> Owner(n), access |-> n]
<1>1. /\ "login" \in Kind /\ "authenticated" \in Status
      /\ Settled(t, "login", "ok") /\ UpdateState(t, "authenticated", s)
      /\ UNCHANGED <<boot, work, signals>>
  BY DEF EstablishSession, Kind, Status
<1>2. n \in DOMAIN tokens /\ n \in Nat /\ n # None /\ Owner(n) \in User /\ n \in Known
  <2>1. call[t]["login"].code = "ok" /\ CallSound(call[t]["login"], "login")
    BY <1>1 DEF Settled, Base, Calls
  <2>2. n \in DOMAIN tokens
    BY <2>1 DEF CallSound
  <2> QED BY <2>2, TokenFields, TokenList DEF Base, Owner
<1>3. s \in Session /\ s # NoSession /\ s.access = n
  BY <1>2 DEF Session, NoSession
<1> HIDE DEF s, Kind, Status
<1>4. /\ state' \in [Tab -> Status] /\ session' \in [Tab -> Session]
      /\ state'[t] = "authenticated" /\ session'[t] = s
      /\ \A u \in Tab \ {t} : state'[u] = state[u] /\ session'[u] = session[u]
  BY <1>1, <1>3, Updated DEF Base
<1>5. /\ call' \in [Tab -> [Kind -> Call]] /\ lock' \in Seq(Tab \X Transition)
      /\ \A u \in Tab \ {t} : call'[u] = call[u]
      /\ Calm /\ clicks' = clicks
      /\ \A j \in Kind : Brought(t, j)' =>
             /\ j # "login" /\ Brought(t, j) /\ call'[t][j] = call[t][j]
             /\ n # call[t][j].sets
      /\ call'[t]["login"] = NoCall /\ \A j \in Kind \ {"login"} : call'[t][j] = call[t][j]
  BY <1>1, SettledFacts
<1>6. Shapes' /\ OnlyTab(t)
  BY <1>1, <1>4, <1>5 DEF Base, Shapes, Calm, OnlyTab, Known
<1>7. DOMAIN tokens' = DOMAIN tokens /\ Keep \notin DOMAIN tokens /\ Known' = Known
  BY <1>5, TokenList DEF Calm, Base, Known
<1>8. TabSound(t)'
  BY <1>1, <1>2, <1>3, <1>4, <1>7 DEF TabSound, Base, Tabs
<1>9. NewsAt(t)'
  <2>1. Memory(t)' \subseteq Memory(t) \cup {None, n}
    BY <1>1, <1>3, <1>4 DEF Memory
  <2> QED BY <1>1, <2>1, SettledNews
<1> QED BY <1>1, <1>6, <1>8, <1>9, SettledKeeps

\* What shared the refresh goes on with a token that nobody in the tab had.
LEMMA RefreshSucceedsKeeps ==
    ASSUME Base, NEW t \in Tab, RefreshSucceeds(t) PROVE Base' /\ (Shared => Shared')
<1> DEFINE n == call[t]["refresh"].sets
           b == IF boot[t].at = "refresh" THEN [at |-> "me", access |-> n] ELSE boot[t]
           w == IF work[t].at = "refresh" THEN [work[t] EXCEPT !.at = "retry", !.access = n] ELSE work[t]
           s == [session[t] EXCEPT !.access = n]
<1>1. /\ "refresh" \in Kind /\ "authenticated" \in Status
      /\ Settled(t, "refresh", "ok") /\ ReplaceAccessToken(t, n) /\ signals' = signals
      /\ boot' = IF boot[t].at = "refresh" THEN [boot EXCEPT ![t] = [at |-> "me", access |-> n]] ELSE boot
      /\ work' = IF work[t].at = "refresh"
                 THEN [work EXCEPT ![t].at = "retry", ![t].access = n] ELSE work
  BY DEF RefreshSucceeds, Kind, Status
<1>2. n \in DOMAIN tokens /\ n \in Nat /\ n # None /\ n \in Known
  <2>1. call[t]["refresh"].code = "ok" /\ CallSound(call[t]["refresh"], "refresh")
    BY <1>1 DEF Settled, Base, Calls
  <2>2. n \in DOMAIN tokens
    BY <2>1 DEF CallSound
  <2> QED BY <2>2, TokenList DEF Base
<1>3. n \notin {session[t].access, boot[t].access, work[t].first, work[t].access}
  BY <1>1, <1>2 DEF Base, News, NewsAt, Brought
<1>4. session[t] \in Session /\ boot[t] \in Boot /\ work[t] \in Work
  BY DEF Base, Shapes
<1>5. /\ s \in Session /\ s # NoSession /\ s.access = n
      /\ b \in Boot /\ w \in Work /\ b.access \in {n, boot[t].access}
      /\ w.first = work[t].first /\ w.access \in {n, work[t].access}
      /\ b.at = "me" => b.access = n \/ b = boot[t]
      /\ w.at = "retry" => w.access = n \/ w = work[t]
      /\ w.at = "first" => work[t].at = "first"
  BY <1>2, <1>4 DEF Session, Boot, Work, NoSession, None
<1>6. /\ boot' = [boot EXCEPT ![t] = b] /\ work' = [work EXCEPT ![t] = w]
  BY <1>1 DEF Base, Shapes
<1> HIDE DEF s, b, w, Kind, Status
<1>7. /\ boot' \in [Tab -> Boot] /\ boot'[t] = b /\ work' \in [Tab -> Work] /\ work'[t] = w
      /\ \A u \in Tab \ {t} : boot'[u] = boot[u] /\ work'[u] = work[u]
  BY <1>5, <1>6 DEF Base, Shapes
<1>8. /\ state' \in [Tab -> Status] /\ session' \in [Tab -> Session] /\ state'[t] = state[t]
      /\ session'[t] = IF state[t] = "authenticated" THEN s ELSE session[t]
      /\ \A u \in Tab \ {t} : state'[u] = state[u] /\ session'[u] = session[u]
  <2>1. CASE state[t] = "authenticated"
    <3>1. UpdateState(t, "authenticated", s)
      BY <1>1, <2>1 DEF ReplaceAccessToken, s
    <3> QED BY <1>1, <1>5, <2>1, <3>1, Updated DEF Base
  <2>2. CASE state[t] # "authenticated"
    BY <1>1, <2>2 DEF ReplaceAccessToken, Base, Shapes
  <2> QED BY <2>1, <2>2
<1>9. /\ call' \in [Tab -> [Kind -> Call]] /\ lock' \in Seq(Tab \X Transition)
      /\ \A u \in Tab \ {t} : call'[u] = call[u]
      /\ Calm /\ clicks' = clicks
      /\ \A j \in Kind : Brought(t, j)' =>
             /\ j # "refresh" /\ Brought(t, j) /\ call'[t][j] = call[t][j]
             /\ n # call[t][j].sets
      /\ call'[t]["refresh"] = NoCall /\ \A j \in Kind \ {"refresh"} : call'[t][j] = call[t][j]
  BY <1>1, SettledFacts
<1>10. Shapes' /\ OnlyTab(t)
  BY <1>1, <1>7, <1>8, <1>9 DEF Base, Shapes, Calm, OnlyTab, Known
<1>11. DOMAIN tokens' = DOMAIN tokens /\ Keep \notin DOMAIN tokens /\ Known' = Known
  BY <1>9, TokenList DEF Calm, Base, Known
<1>12. TabSound(t)'
  BY <1>2, <1>3, <1>5, <1>7, <1>8, <1>11 DEF TabSound, Base, Tabs
<1>13. NewsAt(t)'
  <2>1. Memory(t)' \subseteq Memory(t) \cup {None, n}
    BY <1>5, <1>7, <1>8 DEF Memory
  <2> QED BY <1>1, <2>1, SettledNews
<1> QED BY <1>1, <1>5, <1>7, <1>10, <1>12, <1>13, SettledKeeps

-----------------------------------------------------------------------------
(* Requests begun *)

LEMMA BegunFacts ==
    ASSUME Base, NEW t \in Tab, NEW k \in Kind, NEW loud \in BOOLEAN, tokens' = tokens,
           call[t][k].at = "idle", call' = Begun(t, k, loud)
    PROVE  /\ call' \in [Tab -> [Kind -> Call]] /\ call'[t][k].at = "queued"
           /\ \A j \in Kind \ {k} : call'[t][j] = call[t][j]
           /\ \A u \in Tab \ {t} : call'[u] = call[u]
           /\ \A j \in Kind : CallSound(call[t][j], j)'
           /\ \A j \in Kind : Brought(t, j)' => Brought(t, j) /\ call'[t][j] = call[t][j]
           /\ \A j \in Kind : call'[t][j].sets \in {call[t][j].sets, Keep}
           /\ \A j \in Kind : call[t][j].at \in {"sent", "served"} \/ call'[t][j].at \in {"sent", "served"}
                                  => call'[t][j] = call[t][j]
<1> DEFINE c == [NoCall EXCEPT !.at = "queued", !.loud = loud]
<1>1. c \in Call /\ c.at = "queued" /\ c.sets = Keep /\ c.code = "none" /\ c.with = None
  BY DEF NoCall, Call, None, Keep
<1>2. call' = [call EXCEPT ![t][k] = c]
  BY DEF Begun
<1> HIDE DEF c, Kind
<1>3. /\ call' \in [Tab -> [Kind -> Call]] /\ call'[t][k] = c
      /\ \A j \in Kind \ {k} : call'[t][j] = call[t][j]
      /\ \A u \in Tab \ {t} : call'[u] = call[u]
  BY <1>1, <1>2, CallSet DEF Base
<1>4. Known' = Known /\ None \in Known /\ Keep \notin DOMAIN tokens /\ DOMAIN tokens' = DOMAIN tokens
  BY TokenList DEF Known, Base
<1>5. \A j \in Kind \ {k} : CallSound(call[t][j], j)'
  BY <1>3, <1>4 DEF Base, Calls, CallSound
<1>6. CallSound(call[t][k], k)'
  BY <1>1, <1>3, <1>4 DEF CallSound
<1>7. \A j \in Kind : Brought(t, j)' => Brought(t, j) /\ call'[t][j] = call[t][j]
  BY <1>1, <1>3, <1>4 DEF Brought
<1> QED BY <1>1, <1>3, <1>5, <1>6, <1>7

\* Nothing new in the tab, nothing new on its way.
LEMMA QuietNews ==
    ASSUME Base, NEW t \in Tab, Memory(t)' \subseteq Memory(t) \cup {None},
           \A j \in Kind : Brought(t, j)' => Brought(t, j) /\ call'[t][j] = call[t][j],
           \A j \in Kind : call'[t][j].sets \in {call[t][j].sets, Keep}
    PROVE  NewsAt(t)'
<1> HIDE DEF Kind
<1>1. None \notin DOMAIN tokens /\ Keep \notin DOMAIN tokens
  BY TokenList DEF Base
<1> SUFFICES ASSUME NEW j \in Kind, Brought(t, j)'
             PROVE  /\ call'[t][j].sets \notin Memory(t)'
                    /\ \A i \in Kind \ {j} : call'[t][i].sets # call'[t][j].sets
  BY DEF NewsAt, Memory
<1>2. Brought(t, j) /\ call'[t][j] = call[t][j]
  OBVIOUS
<1>3. /\ call[t][j].sets \notin Memory(t) /\ call[t][j].sets \in DOMAIN tokens
      /\ \A i \in Kind \ {j} : call[t][i].sets # call[t][j].sets
  BY <1>2 DEF Base, News, NewsAt, Brought, Memory
<1> QED BY <1>1, <1>2, <1>3

\* A refresh that is joined or begun.
LEMMA StartRefreshFacts ==
    ASSUME Base, NEW t \in Tab, NEW loud \in BOOLEAN, tokens' = tokens, StartRefresh(t, loud)
    PROVE  /\ call' \in [Tab -> [Kind -> Call]] /\ lock' \in Seq(Tab \X Transition)
           /\ \A u \in Tab \ {t} : call'[u] = call[u]
           /\ \A j \in Kind : CallSound(call[t][j], j)'
           /\ \A j \in Kind : Brought(t, j)' => Brought(t, j) /\ call'[t][j] = call[t][j]
           /\ \A j \in Kind : call'[t][j].sets \in {call[t][j].sets, Keep}
           /\ \A j \in Kind : call[t][j].at \in {"sent", "served"} \/ call'[t][j].at \in {"sent", "served"}
                                  => call'[t][j] = call[t][j]
           /\ call'[t]["login"] = call[t]["login"]
           /\ OnlyTab(t) => Turns'
<1>1. "refresh" \in Kind /\ "refresh" \in Transition /\ "login" \in Kind \ {"refresh"}
      /\ Transition \subseteq Kind
  BY DEF Kind, Transition
<1> HIDE DEF Kind
<1>2. CASE call[t]["refresh"].at = "idle"
  <2>1. call' = Begun(t, "refresh", loud) /\ lock' = Queued(t, "refresh")
    BY <1>2 DEF StartRefresh
  <2>2. lock' \in Seq(Tab \X Transition)
    BY <1>1, <2>1 DEF Queued, Base, Shapes
  <2>3. /\ call' \in [Tab -> [Kind -> Call]] /\ call'[t]["refresh"].at = "queued"
        /\ \A j \in Kind \ {"refresh"} : call'[t][j] = call[t][j]
        /\ \A u \in Tab \ {t} : call'[u] = call[u]
        /\ \A j \in Kind : CallSound(call[t][j], j)'
        /\ \A j \in Kind : Brought(t, j)' => Brought(t, j) /\ call'[t][j] = call[t][j]
        /\ \A j \in Kind : call'[t][j].sets \in {call[t][j].sets, Keep}
        /\ \A j \in Kind : call[t][j].at \in {"sent", "served"} \/ call'[t][j].at \in {"sent", "served"}
                               => call'[t][j] = call[t][j]
    BY <1>1, <1>2, <2>1, BegunFacts
  <2>4. OnlyTab(t) => Turns'
    BY <1>1, <1>2, <2>1, <2>3, JoinQueue DEF Base
  <2> QED BY <1>1, <2>2, <2>3, <2>4
<1>3. CASE call[t]["refresh"].at # "idle"
  <2>1. call' = call /\ lock' = lock
    BY <1>3 DEF StartRefresh
  <2>2. OnlyTab(t) => Turns'
    BY <2>1, SameQueue DEF Base
  <2>3. \A j \in Kind : CallSound(call[t][j], j)'
    BY <2>1 DEF Base, Calls, CallSound, Known
  <2> QED BY <2>1, <2>2, <2>3 DEF Base, Shapes, Brought
<1> QED BY <1>2, <1>3

LEMMA BootstrapKeeps ==
    ASSUME Base, NEW t \in Tab, Bootstrap(t), clicks < Clicks, clicks' = clicks + 1,
           NEW w \in {work[t], NoWork}, work' = [work EXCEPT ![t] = w], signals' \in [Tab -> Nat]
    PROVE  Base' /\ (Shared => Shared')
<1> DEFINE b == [at |-> "refresh", access |-> None]
<1>1. /\ UpdateState(t, "bootstrapping", NoSession) /\ "bootstrapping" \in Status
      /\ boot' = [boot EXCEPT ![t] = b]
      /\ StartRefresh(t, FALSE) /\ Calm /\ tokens' = tokens
      /\ b \in Boot /\ b.at = "refresh" /\ b.access = None
  BY DEF Bootstrap, Calm, server, Status, Boot, None
<1> HIDE DEF b, Kind, Status
<1>2. /\ state' \in [Tab -> Status] /\ session' \in [Tab -> Session]
      /\ state'[t] = "bootstrapping" /\ session'[t] = NoSession
      /\ \A u \in Tab \ {t} : state'[u] = state[u] /\ session'[u] = session[u]
  BY <1>1, Updated, EmptyMemory DEF Base
<1>3. w \in Work /\ boot \in [Tab -> Boot] /\ work \in [Tab -> Work]
  BY EmptyMemory DEF Base, Shapes
<1>4. /\ boot' \in [Tab -> Boot] /\ boot'[t] = b /\ work' \in [Tab -> Work] /\ work'[t] = w
      /\ \A u \in Tab \ {t} : boot'[u] = boot[u] /\ work'[u] = work[u]
  BY <1>1, <1>3
<1>5. /\ call' \in [Tab -> [Kind -> Call]] /\ lock' \in Seq(Tab \X Transition)
      /\ \A u \in Tab \ {t} : call'[u] = call[u]
      /\ \A j \in Kind : CallSound(call[t][j], j)'
      /\ \A j \in Kind : Brought(t, j)' => Brought(t, j) /\ call'[t][j] = call[t][j]
      /\ \A j \in Kind : call'[t][j].sets \in {call[t][j].sets, Keep}
      /\ \A j \in Kind : call[t][j].at \in {"sent", "served"} \/ call'[t][j].at \in {"sent", "served"}
                             => call'[t][j] = call[t][j]
      /\ call'[t]["login"] = call[t]["login"]
      /\ OnlyTab(t) => Turns'
  BY <1>1, StartRefreshFacts
<1>6. clicks \in Nat /\ clicks' \in 0..Clicks
  BY BrowserAssumption DEF Base, Shapes
<1>7. Shapes' /\ OnlyTab(t)
  BY <1>1, <1>2, <1>4, <1>5, <1>6 DEF Base, Shapes, Calm, OnlyTab, Known
<1>8. \A k \in Part : Due(t, k)' => Due(t, k) \/ k = "refresh"
  BY <1>4, <1>5, EmptyMemory DEF Due, Part
<1>9. Budget'
  <2>1. Len(tokens') = Len(tokens) /\ Len(tokens) \in Nat
    BY <1>1, TokenList DEF Base
  <2> QED BY <1>6, <1>7, <1>8, <2>1, OneMoreDue DEF Base
<1>10. None \in Known /\ Known' = Known /\ DOMAIN tokens' = DOMAIN tokens
  BY <1>1 DEF Known
<1>11. TabSound(t)'
  BY <1>1, <1>2, <1>4, <1>10, EmptyMemory DEF TabSound, Base, Tabs
<1>12. NewsAt(t)'
  <2>1. Memory(t)' \subseteq Memory(t) \cup {None}
    BY <1>1, <1>2, <1>4, EmptyMemory DEF Memory
  <2> QED BY <1>5, <2>1, QuietNews
<1>13. Base'
  BY <1>1, <1>5, <1>7, <1>9, <1>11, <1>12, TabStep
<1> QED BY <1>1, <1>5, <1>7, <1>13, CalmKeepsShared

LEMMA LoadKeeps == ASSUME Base, NEW t \in Tab, Load(t) PROVE Base' /\ (Shared => Shared')
<1>1. /\ Bootstrap(t) /\ clicks < Clicks /\ clicks' = clicks + 1
      /\ work' = [work EXCEPT ![t] = NoWork] /\ signals' = [signals EXCEPT ![t] = 0]
  BY DEF Load
<1>2. signals' \in [Tab -> Nat]
  BY <1>1 DEF Base, Shapes
<1> QED BY <1>1, <1>2, BootstrapKeeps

LEMMA RetryBootstrapKeeps ==
    ASSUME Base, NEW t \in Tab, RetryBootstrap(t) PROVE Base' /\ (Shared => Shared')
<1>1. /\ Bootstrap(t) /\ clicks < Clicks /\ clicks' = clicks + 1 /\ work' = work /\ signals' = signals
  BY DEF RetryBootstrap
<1>2. signals' \in [Tab -> Nat] /\ work' = [work EXCEPT ![t] = work[t]]
  BY <1>1 DEF Base, Shapes
<1> QED BY <1>1, <1>2, BootstrapKeeps

LEMMA LoginKeeps == ASSUME Base, NEW t \in Tab, Login(t) PROVE Base' /\ (Shared => Shared')
<1>1. /\ "login" \in Kind /\ call[t]["login"].at = "idle" /\ call' = Begun(t, "login", FALSE)
      /\ FALSE \in BOOLEAN /\ clicks' \in Nat /\ clicks < Clicks /\ clicks' = clicks + 1
      /\ Calm /\ tokens' = tokens /\ UNCHANGED <<lock, state, session, boot, work, signals>>
  <2>1. clicks \in Nat /\ NoCall.at = "idle"
    BY NoCallIsCall, BrowserAssumption DEF Base, Shapes
  <2> QED BY <2>1 DEF Login, Calm, server, memory, Kind
<1> HIDE DEF Kind
<1>2. /\ call' \in [Tab -> [Kind -> Call]] /\ call'[t]["login"].at = "queued"
      /\ \A j \in Kind \ {"login"} : call'[t][j] = call[t][j]
      /\ \A u \in Tab \ {t} : call'[u] = call[u]
      /\ \A j \in Kind : CallSound(call[t][j], j)'
      /\ \A j \in Kind : Brought(t, j)' => Brought(t, j) /\ call'[t][j] = call[t][j]
      /\ \A j \in Kind : call'[t][j].sets \in {call[t][j].sets, Keep}
      /\ \A j \in Kind : call[t][j].at \in {"sent", "served"} \/ call'[t][j].at \in {"sent", "served"}
                             => call'[t][j] = call[t][j]
  BY <1>1, BegunFacts
<1>3. clicks \in Nat /\ clicks' \in 0..Clicks
  BY <1>1, BrowserAssumption DEF Base, Shapes
<1>4. Shapes' /\ OnlyTab(t)
  BY <1>1, <1>2, <1>3 DEF Base, Shapes, Calm, OnlyTab, Known
<1>5. \A k \in Part : Due(t, k)' => Due(t, k) \/ k = "login"
  BY <1>1, <1>2 DEF Due, Part, Kind
<1>6. Budget'
  <2>1. Len(tokens') = Len(tokens) /\ Len(tokens) \in Nat
    BY <1>1, TokenList DEF Base
  <2> QED BY <1>1, <1>3, <1>4, <1>5, <2>1, OneMoreDue DEF Base
<1>7. Turns'
  <2>1. \A k \in Transition : call'[t][k] = call[t][k]
    BY <1>2 DEF Transition, Kind
  <2> QED BY <1>1, <1>4, <2>1, SameQueue DEF Base
<1>8. TabSound(t)'
  BY <1>1 DEF TabSound, Base, Tabs, Known
<1>9. NewsAt(t)'
  <2>1. Memory(t)' \subseteq Memory(t) \cup {None}
    BY <1>1 DEF Memory
  <2> QED BY <1>2, <2>1, QuietNews
<1>10. Base'
  BY <1>1, <1>2, <1>4, <1>6, <1>7, <1>8, <1>9, TabStep
<1> QED BY <1>1, <1>2, <1>4, <1>10, CalmKeepsShared

LEMMA LogoutKeeps == ASSUME Base, NEW t \in Tab, Logout(t) PROVE Base' /\ (Shared => Shared')
<1>1. /\ "logout" \in Kind /\ "logout" \in Transition
      /\ call[t]["logout"].at = "idle" /\ call' = Begun(t, "logout", TRUE)
      /\ lock' = Queued(t, "logout") /\ TRUE \in BOOLEAN
      /\ clicks' \in Nat /\ clicks < Clicks /\ clicks' = clicks + 1
      /\ Calm /\ tokens' = tokens /\ UNCHANGED <<state, session, boot, work, signals>>
  <2>1. clicks \in Nat /\ NoCall.at = "idle"
    BY NoCallIsCall, BrowserAssumption DEF Base, Shapes
  <2> QED BY <2>1 DEF Logout, Calm, server, memory, Kind, Transition
<1> HIDE DEF Kind
<1>2. /\ call' \in [Tab -> [Kind -> Call]] /\ call'[t]["logout"].at = "queued"
      /\ \A j \in Kind \ {"logout"} : call'[t][j] = call[t][j]
      /\ \A u \in Tab \ {t} : call'[u] = call[u]
      /\ \A j \in Kind : CallSound(call[t][j], j)'
      /\ \A j \in Kind : Brought(t, j)' => Brought(t, j) /\ call'[t][j] = call[t][j]
      /\ \A j \in Kind : call'[t][j].sets \in {call[t][j].sets, Keep}
      /\ \A j \in Kind : call[t][j].at \in {"sent", "served"} \/ call'[t][j].at \in {"sent", "served"}
                             => call'[t][j] = call[t][j]
  BY <1>1, BegunFacts
<1>3. /\ clicks \in Nat /\ clicks' \in 0..Clicks /\ clicks <= clicks'
      /\ lock' \in Seq(Tab \X Transition)
  BY <1>1, BrowserAssumption DEF Base, Shapes, Queued
<1>4. Shapes' /\ OnlyTab(t)
  BY <1>1, <1>2, <1>3 DEF Base, Shapes, Calm, OnlyTab, Known
<1>5. \A k \in Part : Due(t, k)' => Due(t, k)
  BY <1>1, <1>2 DEF Due, Part, Kind
<1>6. Budget'
  <2>1. Len(tokens') = Len(tokens) /\ Len(tokens) \in Nat
    BY <1>1, TokenList DEF Base
  <2> QED BY <1>1, <1>3, <1>4, <1>5, <2>1, FewerDue DEF Base
<1>7. Turns'
  <2>1. \A k \in Transition \ {"logout"} : call'[t][k] = call[t][k]
    BY <1>2 DEF Transition, Kind
  <2> QED BY <1>1, <1>2, <1>4, <2>1, JoinQueue DEF Base
<1>8. TabSound(t)'
  BY <1>1 DEF TabSound, Base, Tabs, Known
<1>9. NewsAt(t)'
  <2>1. Memory(t)' \subseteq Memory(t) \cup {None}
    BY <1>1 DEF Memory
  <2> QED BY <1>2, <2>1, QuietNews
<1>10. Base'
  BY <1>1, <1>2, <1>4, <1>6, <1>7, <1>8, <1>9, TabStep
<1> QED BY <1>1, <1>2, <1>4, <1>10, CalmKeepsShared

-----------------------------------------------------------------------------
(* runAuthenticated *)

LEMMA RunAuthenticatedKeeps ==
    ASSUME Base, NEW t \in Tab, RunAuthenticated(t) PROVE Base' /\ (Shared => Shared')
<1> DEFINE n == session[t].access
           w == [at |-> "first", first |-> n, access |-> n]
<1>1. /\ clicks' \in Nat /\ clicks < Clicks /\ clicks' = clicks + 1
      /\ Calm /\ tokens' = tokens /\ UNCHANGED <<lock, state, session, call, boot, signals>>
      /\ work' = [work EXCEPT ![t] = w]
  <2>1. clicks \in Nat
    BY DEF Base, Shapes
  <2> QED BY <2>1 DEF RunAuthenticated, Calm, server, memory
<1>2. n \in Known /\ n \in Nat
  <2>1. session[t] \in Session
    BY DEF Base, Shapes
  <2> QED BY <2>1 DEF Base, Tabs, TabSound, Session
<1>3. w \in Work /\ w.at = "first" /\ w.first = n /\ w.access = n
  BY <1>2 DEF Work
<1> HIDE DEF w, Kind
<1>4. work' \in [Tab -> Work] /\ work'[t] = w /\ \A u \in Tab \ {t} : work'[u] = work[u]
  BY <1>1, <1>3 DEF Base, Shapes
<1>5. clicks \in Nat /\ clicks' \in 0..Clicks
  BY <1>1, BrowserAssumption DEF Base, Shapes
<1>6. Shapes' /\ OnlyTab(t)
  BY <1>1, <1>4, <1>5 DEF Base, Shapes, Calm, OnlyTab, Known
<1>7. \A k \in Part : Due(t, k)' => Due(t, k) \/ k = "work"
  BY <1>1 DEF Due, Part
<1>8. Budget'
  <2>1. Len(tokens') = Len(tokens) /\ Len(tokens) \in Nat
    BY <1>1, TokenList DEF Base
  <2> QED BY <1>1, <1>5, <1>6, <1>7, <2>1, OneMoreDue DEF Base
<1>9. Turns'
  BY <1>1, <1>6, SameQueue DEF Base
<1>10. TabSound(t)'
  BY <1>1, <1>2, <1>3, <1>4 DEF TabSound, Base, Tabs, Known
<1>11. NewsAt(t)'
  <2>1. Memory(t)' \subseteq Memory(t) \cup {None}
    BY <1>1, <1>3, <1>4 DEF Memory
  <2>2. \A j \in Kind : Brought(t, j)' => Brought(t, j)
    BY <1>1 DEF Brought
  <2> QED BY <1>1, <2>1, <2>2, QuietNews
<1>12. \A j \in Kind : CallSound(call[t][j], j)'
  BY <1>1 DEF Base, Calls, CallSound, Known
<1>13. Base'
  BY <1>1, <1>6, <1>8, <1>9, <1>10, <1>11, <1>12, TabStep
<1> QED BY <1>1, <1>6, <1>13, CalmKeepsShared

LEMMA FirstRefusedKeeps ==
    ASSUME Base, NEW t \in Tab, FirstRefused(t) PROVE Base' /\ (Shared => Shared')
<1>1. /\ work[t].at = "first" /\ Calm /\ tokens' = tokens
      /\ UNCHANGED <<state, session, boot, signals, clicks>>
  BY DEF FirstRefused, Calm, server, memory
<1>2. work[t] \in Work /\ work \in [Tab -> Work] /\ session[t] \in Session
  BY DEF Base, Shapes
<1>3. /\ Known' = Known /\ None \in Known /\ DOMAIN tokens' = DOMAIN tokens
  BY <1>1 DEF Known
<1>4. ASSUME NEW w \in Work, work' = [work EXCEPT ![t] = w], w.at # "first",
             w.first \in {None, work[t].first}, w.access \in {None, work[t].access, session[t].access},
             w.at = "retry" => w.access # w.first
      PROVE  /\ work' \in [Tab -> Work] /\ work'[t] = w /\ \A u \in Tab \ {t} : work'[u] = work[u]
             /\ TabSound(t)' /\ Memory(t)' \subseteq Memory(t) \cup {None}
  <2>1. work' \in [Tab -> Work] /\ work'[t] = w /\ \A u \in Tab \ {t} : work'[u] = work[u]
    BY <1>2, <1>4
  <2>2. TabSound(t)'
    BY <1>1, <1>3, <1>4, <2>1 DEF TabSound, Base, Tabs
  <2>3. Memory(t)' \subseteq Memory(t) \cup {None}
    BY <1>1, <1>4, <2>1 DEF Memory
  <2> QED BY <2>1, <2>2, <2>3
<1>5. ASSUME NEW w \in Work, work' = [work EXCEPT ![t] = w], w.at # "first",
             w.first \in {None, work[t].first}, w.access \in {None, work[t].access, session[t].access},
             w.at = "retry" => w.access # w.first, UNCHANGED <<call, lock>>
      PROVE  Base' /\ (Shared => Shared')
  <2>1. /\ work' \in [Tab -> Work] /\ work'[t] = w /\ \A u \in Tab \ {t} : work'[u] = work[u]
        /\ TabSound(t)' /\ Memory(t)' \subseteq Memory(t) \cup {None}
    BY <1>4, <1>5
  <2>2. Shapes' /\ OnlyTab(t)
    BY <1>1, <1>5, <2>1 DEF Base, Shapes, Calm, OnlyTab, Known
  <2>3. NewsAt(t)'
    <3>1. \A j \in Kind : Brought(t, j)' => Brought(t, j)
      BY <1>1, <1>5 DEF Brought
    <3> HIDE DEF Kind
    <3> QED BY <1>5, <2>1, <3>1, QuietNews
  <2> QED BY <1>1, <1>5, <2>1, <2>2, <2>3, MemoryStep
<1>6. CASE state[t] # "authenticated"
  <2>1. work' = [work EXCEPT ![t] = NoWork] /\ UNCHANGED <<call, lock>>
    BY <1>6 DEF FirstRefused
  <2> QED BY <1>5, <2>1, EmptyMemory
<1>7. CASE state[t] = "authenticated" /\ session[t].access # work[t].first
  <2> DEFINE w == [work[t] EXCEPT !.at = "retry", !.access = session[t].access]
  <2>1. work' = [work EXCEPT ![t] = w] /\ UNCHANGED <<call, lock>>
    BY <1>2, <1>7 DEF FirstRefused, RetryWithLatest
  <2>2. w \in Work /\ w.at = "retry" /\ w.first = work[t].first /\ w.access = session[t].access
    BY <1>2 DEF Work, Session
  <2> HIDE DEF w
  <2> QED BY <1>5, <1>7, <2>1, <2>2
<1>8. CASE state[t] = "authenticated" /\ session[t].access = work[t].first
  <2> DEFINE w == [work[t] EXCEPT !.at = "refresh"]
  <2>1. work' = [work EXCEPT ![t] = w] /\ StartRefresh(t, TRUE)
    BY <1>2, <1>8 DEF FirstRefused
  <2>2. w \in Work /\ w.at = "refresh" /\ w.first = work[t].first /\ w.access = work[t].access
    BY <1>2 DEF Work
  <2> HIDE DEF w, Kind
  <2>3. /\ work' \in [Tab -> Work] /\ work'[t] = w /\ \A u \in Tab \ {t} : work'[u] = work[u]
        /\ TabSound(t)' /\ Memory(t)' \subseteq Memory(t) \cup {None}
    BY <1>4, <2>1, <2>2
  <2>4. /\ call' \in [Tab -> [Kind -> Call]] /\ lock' \in Seq(Tab \X Transition)
        /\ \A u \in Tab \ {t} : call'[u] = call[u]
        /\ \A j \in Kind : CallSound(call[t][j], j)'
        /\ \A j \in Kind : Brought(t, j)' => Brought(t, j) /\ call'[t][j] = call[t][j]
        /\ \A j \in Kind : call'[t][j].sets \in {call[t][j].sets, Keep}
        /\ \A j \in Kind : call[t][j].at \in {"sent", "served"} \/ call'[t][j].at \in {"sent", "served"}
                               => call'[t][j] = call[t][j]
        /\ call'[t]["login"] = call[t]["login"]
        /\ OnlyTab(t) => Turns'
    BY <1>1, <2>1, StartRefreshFacts
  <2>5. Shapes' /\ OnlyTab(t)
    BY <1>1, <2>3, <2>4 DEF Base, Shapes, Calm, OnlyTab, Known
  <2>6. Budget'
    <3>1. /\ Due(t, "work") /\ ~Due(t, "work")' /\ "work" \in Part
          /\ \A k \in Part : Due(t, k)' => Due(t, k) \/ k = "refresh"
      BY <1>1, <2>2, <2>3, <2>4 DEF Due, Part
    <3>2. Len(tokens') = Len(tokens) /\ Len(tokens) \in Nat /\ clicks \in Nat /\ clicks' = clicks
      BY <1>1, TokenList DEF Base, Shapes
    <3> QED BY <2>5, <3>1, <3>2, OneDueDone DEF Base
  <2>7. NewsAt(t)'
    BY <2>3, <2>4, QuietNews
  <2>8. Base'
    BY <1>1, <2>3, <2>4, <2>5, <2>6, <2>7, TabStep
  <2> QED BY <1>1, <2>4, <2>5, <2>8, CalmKeepsShared
<1> QED BY <1>6, <1>7, <1>8

-----------------------------------------------------------------------------
(* Requests under way *)

\* A request goes on; the tab keeps what it has.
Tabless == UNCHANGED <<lock, state, session, boot, work, signals, clicks>>

\* Among the transitions, only the holder of the lock is under way.
LEMMA OneUnderWay ==
    ASSUME Base, Locks, NEW t \in Tab, NEW k \in Transition, Head(lock) = <<t, k>>
    PROVE  \A u \in Tab, j \in Transition :
               call[u][j].at \in {"sent", "served", "back"} => u = t /\ j = k
BY DEF Base, Turns

LEMMA SendKeeps ==
    ASSUME Base, NEW t \in Tab, NEW k \in Kind, Send(t, k)
    PROVE  Base' /\ (Locks /\ Shared => Shared')
<1> DEFINE c == [call[t][k] EXCEPT !.at = "sent", !.with = cookie]
<1>1. /\ call[t][k].at = "queued" /\ MaySend(t, k) /\ Calm /\ Tabless /\ tokens' = tokens
  BY DEF Send, Calm, Tabless, server, memory
<1>2. call' = [call EXCEPT ![t][k] = c]
  <2> HIDE DEF Kind
  <2> QED BY DEF Send, Base, Shapes
<1>3. call[t][k] \in Call /\ cookie \in Known /\ cookie \in Nat
  BY Fields, TokenList DEF Base, Shapes
<1>4. /\ c \in Call /\ c.at = "sent" /\ c.with = cookie
      /\ c.sets = call[t][k].sets /\ c.code = call[t][k].code
  BY <1>3 DEF Call
<1> HIDE DEF c, Kind
<1>5. /\ call' \in [Tab -> [Kind -> Call]] /\ call'[t][k] = c
      /\ \A j \in Kind \ {k} : call'[t][j] = call[t][j]
      /\ \A u \in Tab \ {t} : call'[u] = call[u]
  BY <1>2, <1>4, CallSet DEF Base
<1>6. Shapes' /\ OnlyTab(t)
  BY <1>1, <1>5 DEF Base, Shapes, Calm, Tabless, OnlyTab, Known
<1>7. Known' = Known /\ Keep \notin DOMAIN tokens /\ DOMAIN tokens' = DOMAIN tokens
  BY <1>1, TokenList DEF Known, Base
<1>8. CallSound(call[t][k], k)
  BY DEF Base, Calls
<1>9. \A j \in Kind : CallSound(call[t][j], j)'
  <2>1. CallSound(call[t][k], k)'
    BY <1>1, <1>3, <1>4, <1>5, <1>7, <1>8 DEF CallSound
  <2>2. \A j \in Kind \ {k} : CallSound(call[t][j], j)'
    BY <1>5, <1>7 DEF Base, Calls, CallSound
  <2> QED BY <2>1, <2>2
<1>10. c.sets = Keep
  BY <1>1, <1>4, <1>8 DEF CallSound
<1>11. TabSound(t)'
  BY <1>1, <1>7 DEF TabSound, Base, Tabs, Tabless
<1>12. NewsAt(t)'
  <2>1. Memory(t)' \subseteq Memory(t) \cup {None}
    BY <1>1 DEF Memory, Tabless
  <2>2. \A j \in Kind : Brought(t, j)' => Brought(t, j) /\ call'[t][j] = call[t][j]
    BY <1>5, <1>7, <1>10 DEF Brought
  <2>3. \A j \in Kind : call'[t][j].sets \in {call[t][j].sets, Keep}
    BY <1>5, <1>10
  <2> QED BY <2>1, <2>2, <2>3, QuietNews
<1>13. Budget'
  <2>1. \A j \in Part : Due(t, j)' => Due(t, j)
    BY <1>1, <1>4, <1>5 DEF Due, Part, Kind, Tabless
  <2>2. /\ Len(tokens') = Len(tokens) /\ Len(tokens) \in Nat /\ clicks \in Nat /\ clicks' \in Nat
        /\ clicks <= clicks'
    BY <1>1, TokenList DEF Base, Tabless, Shapes
  <2> QED BY <1>6, <2>1, <2>2, FewerDue DEF Base
<1>14. Turns'
  <2>1. Locks /\ k \in Transition => lock # <<>> /\ Head(lock) = <<t, k>>
    <3>1. Locks /\ k \in Transition => \E i \in DOMAIN lock : lock[i] = <<t, k>>
      BY <1>1 DEF Base, Turns
    <3> QED BY <1>1, <3>1 DEF MaySend, Base, Shapes
  <2>2. \A j \in Transition :
            /\ call'[t][j].at = "idle" <=> call[t][j].at = "idle"
            /\ call'[t][j].at \in {"sent", "served", "back"} =>
                   \/ call[t][j].at \in {"sent", "served", "back"}
                   \/ Locks => lock # <<>> /\ Head(lock) = <<t, j>>
    BY <1>1, <1>4, <1>5, <2>1 DEF Transition, Kind
  <2> QED BY <1>1, <1>6, <2>2, SameQueue DEF Base, Tabless
<1>15. Base'
  BY <1>1, <1>6, <1>9, <1>11, <1>12, <1>13, <1>14, TabStep
<1>16. ASSUME Locks, Shared PROVE Shared'
  <2>1. tokens' = tokens /\ lost' = lost /\ replayed' = replayed /\ cookie' = cookie
    BY <1>1 DEF Calm
  <2>2. ASSUME NEW u \in Tab, NEW j \in Kind, ~(u = t /\ j = k) PROVE call'[u][j] = call[u][j]
    BY <1>5, <2>2
  <2>3. ASSUME NEW u \in Tab, NEW j \in Kind, call'[u][j].at = "served"
        PROVE  call'[u][j] = call[u][j]
    BY <1>4, <1>5, <2>2, <2>3
  <2>4. Private'
    <3> SUFFICES ASSUME NEW u \in Tab, Coming(u, "login")'
                 PROVE  LET n == call'[u]["login"].sets IN
                        /\ \A m \in DOMAIN tokens' : tokens'[m].family = n <=> m = n
                        /\ cookie' # n
                        /\ \A v \in Tab, j \in Kind :
                               /\ call'[v][j].at = "sent" => call'[v][j].with # n
                               /\ Coming(v, j)' /\ <<v, j>> # <<u, "login">> => call'[v][j].sets # n
      BY DEF Private
    <3>1. Coming(u, "login") /\ call'[u]["login"] = call[u]["login"]
      <4>1. "login" \in Kind
        BY DEF Kind
      <4> QED BY <2>1, <2>3, <4>1 DEF Coming, Brought
    <3> DEFINE n == call[u]["login"].sets
    <3>2. /\ \A m \in DOMAIN tokens : tokens[m].family = n <=> m = n
          /\ cookie # n
          /\ \A v \in Tab, j \in Kind :
                 /\ call[v][j].at = "sent" => call[v][j].with # n
                 /\ Coming(v, j) /\ <<v, j>> # <<u, "login">> => call[v][j].sets # n
      BY <1>16, <3>1 DEF Shared, Private
    <3>3. ASSUME NEW v \in Tab, NEW j \in Kind, call'[v][j].at = "sent" PROVE call'[v][j].with # n
      <4>1. CASE v = t /\ j = k
        BY <1>4, <1>5, <3>2, <4>1
      <4>2. CASE ~(v = t /\ j = k)
        BY <2>2, <3>2, <3>3, <4>2
      <4> QED BY <4>1, <4>2
    <3>4. ASSUME NEW v \in Tab, NEW j \in Kind, Coming(v, j)', <<v, j>> # <<u, "login">>
          PROVE  call'[v][j].sets # n
      <4>1. Coming(v, j) /\ call'[v][j] = call[v][j]
        BY <2>1, <2>3, <3>4 DEF Coming, Brought
      <4> QED BY <3>2, <3>4, <4>1
    <3> QED BY <2>1, <3>1, <3>2, <3>3, <3>4
  <2>5. InGoodHands'
    <3> SUFFICES ASSUME ~lost PROVE InGoodHands'
      BY <2>1 DEF InGoodHands
    <3>1. "refresh" \in Kind /\ "refresh" \in Transition /\ Transition \subseteq Kind
      BY DEF Kind, Transition
    <3>2. \A n : Usable(n)' <=> Usable(n)
      BY <2>1 DEF Usable, Live
    <3>3. Replacing => Replacing'
      <4> SUFFICES ASSUME NEW u \in Tab, NEW j \in Transition,
                          call[u][j].at = "served", call[u][j].sets # Keep
                   PROVE  Replacing'
        BY DEF Replacing
      <4>1. ~(u = t /\ j = k)
        BY <1>1
      <4>2. call'[u][j] = call[u][j]
        BY <2>2, <3>1, <4>1
      <4> QED BY <4>2 DEF Replacing
    <3>4. Usable(cookie)' \/ Replacing'
      BY <1>16, <2>1, <3>2, <3>3 DEF Shared, InGoodHands
    <3>5. ASSUME NEW u \in Tab, call'[u]["refresh"].at = "sent" PROVE Usable(call[u]["refresh"].with)'
      <4>1. CASE u = t /\ k = "refresh"
        <5>1. Head(lock) = <<t, k>>
          BY <1>1, <1>16, <3>1, <4>1 DEF MaySend
        <5>2. ~Replacing
          BY <1>1, <1>16, <3>1, <4>1, <5>1, OneUnderWay DEF Replacing
        <5>3. Usable(cookie)
          BY <1>16, <5>2 DEF Shared, InGoodHands
        <5>4. call'[u]["refresh"].with = cookie
          BY <1>4, <1>5, <4>1
        <5> QED BY <2>1, <5>3, <5>4 DEF Usable, Live
      <4>2. CASE ~(u = t /\ k = "refresh")
        <5>1. call'[u]["refresh"] = call[u]["refresh"]
          BY <2>2, <3>1, <4>2
        <5>2. Usable(call[u]["refresh"].with)
          BY <1>16, <3>5, <5>1 DEF Shared, InGoodHands
        <5> QED BY <2>1, <5>1, <5>2 DEF Usable, Live
      <4> QED BY <4>1, <4>2
    <3>6. ASSUME NEW u \in Tab, NEW j \in Kind, Coming(u, j)' PROVE Live(call[u][j].sets)'
      <4>1. Coming(u, j) /\ call'[u][j] = call[u][j]
        BY <2>1, <2>3, <3>6 DEF Coming, Brought
      <4>2. Live(call[u][j].sets)
        BY <1>16, <4>1 DEF Shared, InGoodHands
      <4> QED BY <2>1, <4>1, <4>2 DEF Live
    <3> QED BY <3>4, <3>5, <3>6 DEF InGoodHands
  <2> QED BY <1>16, <2>1, <2>4, <2>5 DEF Shared
<1> QED BY <1>15, <1>16

LEMMA ReceiveKeeps ==
    ASSUME Base, NEW t \in Tab, NEW k \in Kind, Receive(t, k)
    PROVE  Base' /\ (Shared => Shared')
<1> DEFINE c == [call[t][k] EXCEPT !.at = "back"]
<1>1. /\ call[t][k].at = "served" /\ Tabless /\ UNCHANGED <<tokens, lost, replayed>>
      /\ cookie' = IF call[t][k].sets = Keep THEN cookie ELSE call[t][k].sets
  BY DEF Receive, Tabless, server, memory
<1>2. call' = [call EXCEPT ![t][k] = c]
  <2> HIDE DEF Kind
  <2> QED BY DEF Receive, Base, Shapes
<1>3. call[t][k] \in Call /\ cookie \in Known
  BY Fields DEF Base, Shapes
<1>4. /\ c \in Call /\ c.at = "back" /\ c.with = call[t][k].with
      /\ c.sets = call[t][k].sets /\ c.code = call[t][k].code
  BY <1>3 DEF Call
<1> HIDE DEF c, Kind
<1>5. /\ call' \in [Tab -> [Kind -> Call]] /\ call'[t][k] = c
      /\ \A j \in Kind \ {k} : call'[t][j] = call[t][j]
      /\ \A u \in Tab \ {t} : call'[u] = call[u]
  BY <1>2, <1>4, CallSet DEF Base
<1>6. CallSound(call[t][k], k)
  BY DEF Base, Calls
<1>7. Known' = Known /\ Keep \notin DOMAIN tokens /\ DOMAIN tokens' = DOMAIN tokens
  BY <1>1, TokenList DEF Known, Base
<1>8. cookie' \in Known'
  BY <1>1, <1>3, <1>6, <1>7 DEF CallSound
<1>9. Shapes' /\ OnlyTab(t)
  BY <1>1, <1>5, <1>8 DEF Base, Shapes, Tabless, OnlyTab
<1>10. \A j \in Kind : CallSound(call[t][j], j)'
  <2>1. CallSound(call[t][k], k)'
    BY <1>1, <1>4, <1>5, <1>6, <1>7 DEF CallSound
  <2>2. \A j \in Kind \ {k} : CallSound(call[t][j], j)'
    BY <1>5, <1>7 DEF Base, Calls, CallSound
  <2> QED BY <2>1, <2>2
<1>11. TabSound(t)'
  BY <1>1, <1>7 DEF TabSound, Base, Tabs, Tabless
<1>12. NewsAt(t)'
  <2>1. \A j \in Kind : call'[t][j].sets = call[t][j].sets
    BY <1>4, <1>5
  <2> QED BY <1>1, <1>7, <2>1 DEF Base, News, NewsAt, Brought, Tabless
<1>13. Budget'
  <2>1. \A j \in Part : Due(t, j)' => Due(t, j)
    BY <1>1, <1>4, <1>5 DEF Due, Part, Kind, Tabless
  <2>2. /\ Len(tokens') = Len(tokens) /\ Len(tokens) \in Nat /\ clicks \in Nat /\ clicks' \in Nat
        /\ clicks <= clicks'
    BY <1>1, TokenList DEF Base, Tabless, Shapes
  <2> QED BY <1>9, <2>1, <2>2, FewerDue DEF Base
<1>14. Turns'
  <2>1. \A j \in Transition :
            /\ call'[t][j].at = "idle" <=> call[t][j].at = "idle"
            /\ call'[t][j].at \in {"sent", "served", "back"} => call[t][j].at \in {"sent", "served", "back"}
    BY <1>1, <1>4, <1>5 DEF Transition, Kind
  <2> QED BY <1>1, <1>9, <2>1, SameQueue DEF Base, Tabless
<1>15. Base'
  BY <1>1, <1>9, <1>10, <1>11, <1>12, <1>13, <1>14, TabStep
<1>16. ASSUME Shared PROVE Shared'
  <2>1. ASSUME NEW u \in Tab, NEW j \in Kind, call'[u][j].at \in {"sent", "served"}
        PROVE  ~(u = t /\ j = k) /\ call'[u][j] = call[u][j]
    BY <1>4, <1>5, <2>1
  <2>2. ASSUME NEW u \in Tab, NEW j \in Kind, Coming(u, j)'
        PROVE  /\ Coming(u, j) /\ call'[u][j] = call[u][j]
               /\ ~(u = t /\ j = k)
    BY <1>1, <2>1, <2>2 DEF Coming, Brought
  <2>3. call[t][k].sets \notin {None, Keep} => Coming(t, k)
    BY <1>1, <1>6 DEF CallSound, Known, Coming, Brought
  <2>4. Private'
    <3> SUFFICES ASSUME NEW u \in Tab, Coming(u, "login")'
                 PROVE  LET n == call'[u]["login"].sets IN
                        /\ \A m \in DOMAIN tokens' : tokens'[m].family = n <=> m = n
                        /\ cookie' # n
                        /\ \A v \in Tab, j \in Kind :
                               /\ call'[v][j].at = "sent" => call'[v][j].with # n
                               /\ Coming(v, j)' /\ <<v, j>> # <<u, "login">> => call'[v][j].sets # n
      BY DEF Private
    <3> DEFINE n == call[u]["login"].sets
    <3>1. Coming(u, "login") /\ call'[u]["login"] = call[u]["login"] /\ ~(u = t /\ "login" = k)
      <4>1. "login" \in Kind
        BY DEF Kind
      <4> QED BY <2>2, <4>1
    <3>2. /\ \A m \in DOMAIN tokens : tokens[m].family = n <=> m = n
          /\ cookie # n
          /\ \A v \in Tab, j \in Kind :
                 /\ call[v][j].at = "sent" => call[v][j].with # n
                 /\ Coming(v, j) /\ <<v, j>> # <<u, "login">> => call[v][j].sets # n
      BY <1>16, <3>1 DEF Shared, Private
    <3>3. n # None
      BY <3>1, TokenList DEF Coming, Brought, Base
    <3>4. cookie' # n
      BY <1>1, <2>3, <3>1, <3>2, <3>3
    <3>5. ASSUME NEW v \in Tab, NEW j \in Kind
          PROVE  /\ call'[v][j].at = "sent" => call'[v][j].with # n
                 /\ Coming(v, j)' /\ <<v, j>> # <<u, "login">> => call'[v][j].sets # n
      BY <2>1, <2>2, <3>2
    <3> QED BY <1>1, <3>1, <3>2, <3>4, <3>5
  <2>5. InGoodHands'
    <3> SUFFICES ASSUME ~lost PROVE InGoodHands'
      BY <1>1 DEF InGoodHands
    <3>1. "refresh" \in Kind /\ Transition \subseteq Kind
      BY DEF Kind, Transition
    <3>2. \A n : Live(n)' <=> Live(n)
      BY <1>1 DEF Live
    <3>3. Usable(cookie)' \/ Replacing'
      <4>1. CASE call[t][k].sets # Keep
        <5>1. Usable(call[t][k].sets)
          BY <1>16, <2>3, <4>1 DEF Shared, InGoodHands, Usable
        <5> QED BY <1>1, <3>2, <4>1, <5>1 DEF Usable
      <4>2. CASE call[t][k].sets = Keep
        <5>1. Replacing => Replacing'
          <6> SUFFICES ASSUME NEW u \in Tab, NEW j \in Transition,
                              call[u][j].at = "served", call[u][j].sets # Keep
                       PROVE  Replacing'
            BY DEF Replacing
          <6>1. ~(u = t /\ j = k) /\ j \in Kind
            BY <3>1, <4>2
          <6>2. call'[u][j] = call[u][j]
            BY <1>5, <6>1
          <6> QED BY <6>2 DEF Replacing
        <5>2. cookie' = cookie /\ (Usable(cookie) \/ Replacing)
          BY <1>1, <1>16, <4>2 DEF Shared, InGoodHands
        <5> QED BY <3>2, <5>1, <5>2 DEF Usable
      <4> QED BY <4>1, <4>2
    <3>4. ASSUME NEW u \in Tab, call'[u]["refresh"].at = "sent" PROVE Usable(call[u]["refresh"].with)'
      <4>1. call'[u]["refresh"] = call[u]["refresh"]
        BY <2>1, <3>1, <3>4
      <4>2. Usable(call[u]["refresh"].with)
        BY <1>16, <3>4, <4>1 DEF Shared, InGoodHands
      <4> QED BY <3>2, <4>1, <4>2 DEF Usable
    <3>5. ASSUME NEW u \in Tab, NEW j \in Kind, Coming(u, j)' PROVE Live(call[u][j].sets)'
      <4>1. Coming(u, j) /\ call'[u][j] = call[u][j]
        BY <2>2, <3>5
      <4>2. Live(call[u][j].sets)
        BY <1>16, <4>1 DEF Shared, InGoodHands
      <4> QED BY <1>1, <4>1, <4>2 DEF Live
    <3> QED BY <3>3, <3>4, <3>5 DEF InGoodHands
  <2> QED BY <1>1, <1>16, <2>4, <2>5 DEF Shared
<1> QED BY <1>15, <1>16

-----------------------------------------------------------------------------
(* What the service does to the tokens *)

\* Tokens are changed or issued, never removed, and stay in their families.
Longer(list) ==
    /\ list \in Seq(Token)
    /\ \A m \in DOMAIN tokens : m \in DOMAIN list /\ list[m].family = tokens[m].family

\* A token that was presented and its successor, or the first of a family.
Grows(k, n, list) ==
    \/ /\ k = "refresh" /\ Live(n)
       /\ list = Issued([tokens EXCEPT ![n].status = "spent"], Owner(n), tokens[n].family)
    \/ k = "login" /\ \E u \in User : list = Issued(tokens, u, Fresh)

\* A family that ends.
Ends(k, n, list) == k \in Transition /\ n \in DOMAIN tokens /\ list = Ended(n)

\* The list and one more token, live and of the family.
OneMore(new, list, family) ==
    /\ new \in Seq(Token) /\ Len(new) = Len(list) + 1
    /\ \A m \in DOMAIN list : new[m] = list[m]
    /\ new[Len(list) + 1].family = family /\ new[Len(list) + 1].status = "live"

LEMMA IssuedList ==
    ASSUME NEW list \in Seq(Token), NEW owner \in User, NEW family \in Nat
    PROVE  OneMore(Issued(list, owner, family), list, family)
<1> DEFINE new == [owner |-> owner, family |-> family, status |-> "live"]
<1>1. new \in Token /\ new.family = family /\ new.status = "live"
  BY DEF Token
<1>2. Issued(list, owner, family) = Append(list, new)
  BY DEF Issued
<1> HIDE DEF new, Token
<1> QED BY <1>1, <1>2 DEF OneMore

LEMMA EndedList ==
    ASSUME Base, NEW n \in DOMAIN tokens
    PROVE  /\ Longer(Ended(n)) /\ Len(Ended(n)) = Len(tokens)
           /\ \A m \in DOMAIN tokens :
                  tokens[m].family # tokens[n].family => Ended(n)[m] = tokens[m]
<1>1. tokens \in Seq(Token) /\ DOMAIN tokens = 1..Len(tokens) /\ Len(tokens) \in Nat
  BY TokenList DEF Base, Shapes
<1>2. ASSUME NEW m \in DOMAIN tokens
      PROVE  /\ Ended(n)[m] \in Token /\ Ended(n)[m].family = tokens[m].family
             /\ tokens[m].family # tokens[n].family => Ended(n)[m] = tokens[m]
  <2>1. tokens[m] \in Token
    BY TokenFields DEF Base
  <2>2. Ended(n)[m] = IF tokens[m].family = tokens[n].family
                      THEN [tokens[m] EXCEPT !.status = "dead"] ELSE tokens[m]
    BY DEF Ended
  <2> QED BY <2>1, <2>2 DEF Token
<1>3. DOMAIN Ended(n) = 1..Len(tokens) /\ Ended(n) = [m \in 1..Len(tokens) |-> Ended(n)[m]]
  BY <1>1 DEF Ended
<1> HIDE DEF Token
<1>4. Ended(n) \in [1..Len(tokens) -> Token]
  BY <1>1, <1>2, <1>3
<1>5. Ended(n) \in Seq(Token) /\ Len(Ended(n)) = Len(tokens)
  BY <1>1, <1>3, <1>4
<1> QED BY <1>1, <1>2, <1>3, <1>5 DEF Longer

LEMMA GrownList ==
    ASSUME Base, NEW k \in Kind, NEW n, NEW list, Grows(k, n, list)
    PROVE  /\ Longer(list) /\ Len(list) = Len(tokens) + 1 /\ list[Fresh].status = "live"
           /\ k = "login" => list[Fresh].family = Fresh
           /\ k = "refresh" => n \in DOMAIN tokens /\ list[Fresh].family = tokens[n].family
           /\ \A m \in DOMAIN tokens : k = "login" \/ m # n => list[m] = tokens[m]
<1>1. /\ tokens \in Seq(Token) /\ DOMAIN tokens = 1..Len(tokens) /\ Len(tokens) \in Nat
      /\ Fresh \in Nat /\ Fresh = Len(tokens) + 1
  BY TokenList DEF Base, Shapes, Fresh
<1>2. CASE k = "refresh" /\ Live(n) /\ list = Issued([tokens EXCEPT ![n].status = "spent"], Owner(n), tokens[n].family)
  <2> DEFINE s == [tokens[n] EXCEPT !.status = "spent"]
             spent == [tokens EXCEPT ![n] = s]
  <2>1. n \in DOMAIN tokens /\ tokens[n] \in Token /\ tokens[n].owner \in User /\ tokens[n].family \in Nat
    <3>1. n \in DOMAIN tokens
      BY <1>2 DEF Live
    <3> QED BY <3>1, TokenFields DEF Base
  <2>2. s \in Token /\ s.family = tokens[n].family
    BY <2>1 DEF Token
  <2>3. spent = [tokens EXCEPT ![n].status = "spent"]
    BY <2>1
  <2> HIDE DEF s, Token
  <2>4. /\ spent \in Seq(Token) /\ Len(spent) = Len(tokens) /\ DOMAIN spent = DOMAIN tokens
        /\ \A m \in DOMAIN tokens : m # n => spent[m] = tokens[m]
        /\ spent[n] = s
    BY <1>1, <2>1, <2>2
  <2> HIDE DEF spent
  <2>5. \A m \in DOMAIN tokens : spent[m].family = tokens[m].family
    BY <2>2, <2>4
  <2>6. list = Issued(spent, Owner(n), tokens[n].family) /\ Owner(n) \in User /\ tokens[n].family \in Nat
    BY <1>2, <2>1, <2>3 DEF Owner
  <2>7. /\ list \in Seq(Token) /\ Len(list) = Len(spent) + 1
        /\ \A m \in DOMAIN spent : list[m] = spent[m]
        /\ list[Len(spent) + 1].family = tokens[n].family
        /\ list[Len(spent) + 1].status = "live"
    <3>1. OneMore(list, spent, tokens[n].family)
      BY <2>4, <2>6, IssuedList
    <3> QED BY <3>1 DEF OneMore
  <2>8. \A m \in DOMAIN tokens : m \in DOMAIN list /\ list[m].family = tokens[m].family
    BY <1>1, <2>4, <2>5, <2>7
  <2> QED BY <1>1, <1>2, <2>1, <2>4, <2>7, <2>8 DEF Longer
<1>3. CASE k = "login" /\ \E u \in User : list = Issued(tokens, u, Fresh)
  <2>1. PICK u \in User : list = Issued(tokens, u, Fresh)
    BY <1>3
  <2>2. /\ list \in Seq(Token) /\ Len(list) = Len(tokens) + 1
        /\ \A m \in DOMAIN tokens : list[m] = tokens[m]
        /\ list[Len(tokens) + 1].family = Fresh
        /\ list[Len(tokens) + 1].status = "live"
    <3> DEFINE new == Issued(tokens, u, Fresh)
    <3> HIDE DEF Token, Fresh
    <3>1. tokens \in Seq(Token) /\ Fresh \in Nat
      BY <1>1
    <3>2. OneMore(new, tokens, Fresh)
      BY <3>1, IssuedList
    <3>3. list = new
      BY <2>1
    <3> HIDE DEF new
    <3> QED BY <3>2, <3>3 DEF OneMore
  <2>3. \A m \in DOMAIN tokens : m \in DOMAIN list
    BY <1>1, <2>2
  <2> QED BY <1>1, <1>3, <2>2, <2>3 DEF Longer
<1> QED BY <1>2, <1>3 DEF Grows

\* What a response says of what was done.
LEMMA OutcomeFacts ==
    ASSUME Base, NEW k \in Kind, NEW n \in Known, NEW o \in Outcomes(k, n)
    PROVE  /\ o.tokens = tokens \/ Ends(k, n, o.tokens) \/ Grows(k, n, o.tokens)
           /\ o.code \in {"ok", "rejected", "failed"}
           /\ \/ o.sets \in {None, Keep} /\ (o.code = "ok" => k = "logout")
              \/ o.sets = Fresh /\ Grows(k, n, o.tokens)
<1>1. PICK done \in Responses(k, n) :
          \/ o = done \/ o \in ServiceFails(k, done) \/ o \in Lost(done)
  <2>1. PICK done \in Responses(k, n) :
            o \in {done} \cup (IF Service THEN ServiceFails(k, done) ELSE {})
                         \cup (IF Network THEN Lost(done) ELSE {})
    BY DEF Outcomes
  <2> QED BY <2>1
<1>2. /\ done.tokens = tokens \/ Ends(k, n, done.tokens) \/ Grows(k, n, done.tokens)
      /\ done.code \in {"ok", "rejected", "failed"}
      /\ \/ done.sets \in {None, Keep} /\ (done.code = "ok" => k = "logout")
         \/ done.sets = Fresh /\ Grows(k, n, done.tokens)
  <2>1. CASE k = "refresh"
    <3>1. done = Refreshed(n)
      BY <2>1 DEF Responses
    <3>2. CASE n = None
      <4>1. ~Live(n)
        BY <3>2, TokenList DEF Live, Base
      <4> QED BY <2>1, <3>1, <3>2, <4>1 DEF Refreshed, Answer
    <3>3. CASE n # None /\ Live(n)
      BY <2>1, <3>1, <3>3 DEF Refreshed, Answer, Grows
    <3>4. CASE n # None /\ ~Live(n)
      BY <2>1, <3>1, <3>4 DEF Refreshed, Answer, Ends, Transition, Known
    <3> QED BY <3>2, <3>3, <3>4
  <2>2. CASE k = "logout"
    <3>1. done = LoggedOut(n)
      BY <2>2 DEF Responses
    <3> QED BY <2>2, <3>1 DEF LoggedOut, Answer, Ends, Transition, Live
  <2>3. CASE k = "login"
    <3>1. PICK u \in User : done = LoggedIn(u)
      BY <2>3 DEF Responses
    <3> QED BY <2>3, <3>1 DEF LoggedIn, Answer, Grows
  <2> QED BY <2>1, <2>2, <2>3 DEF Kind
<1>3. CASE o = done
  BY <1>2, <1>3
<1>4. ASSUME NEW list \in {tokens, done.tokens}, NEW sets \in {None, Keep},
             o = Answer(list, "failed", sets) \/ o = Answer(tokens, "rejected", None)
      PROVE  /\ o.tokens = tokens \/ Ends(k, n, o.tokens) \/ Grows(k, n, o.tokens)
             /\ o.code \in {"rejected", "failed"} /\ o.sets \in {None, Keep}
  BY <1>2, <1>4 DEF Answer
<1>5. CASE o \in Lost(done)
  <2>1. PICK list \in {tokens, done.tokens} : o = Answer(list, "failed", Keep)
    BY <1>5 DEF Lost
  <2> QED BY <1>4, <2>1
<1>6. CASE o \in ServiceFails(k, done)
  <2>1. \/ \E list \in {tokens, done.tokens} : o = Answer(list, "failed", IF k = "login" THEN Keep ELSE None)
        \/ o = Answer(tokens, "rejected", None)
    BY <1>6 DEF ServiceFails
  <2> QED BY <1>4, <2>1
<1> QED BY <1>1, <1>3, <1>5, <1>6

LEMMA ServeFacts ==
    ASSUME Base, NEW t \in Tab, NEW k \in Kind, Serve(t, k)
    PROVE  LET n == call[t][k].with
               c == call'[t][k] IN
           /\ call[t][k].at = "sent" /\ n \in Known
           /\ call' \in [Tab -> [Kind -> Call]]
           /\ \A j \in Kind \ {k} : call'[t][j] = call[t][j]
           /\ \A u \in Tab \ {t} : call'[u] = call[u]
           /\ c.at = "served" /\ c.with = n /\ c.code \in {"ok", "rejected", "failed"}
           /\ tokens' = tokens \/ Ends(k, n, tokens') \/ Grows(k, n, tokens')
           /\ \/ c.sets \in {None, Keep} /\ (c.code = "ok" => k = "logout")
              \/ c.sets = Fresh /\ Grows(k, n, tokens')
           /\ lost' = (lost \/ (k \in Transition /\ tokens' # tokens /\ c.sets = Keep))
           /\ replayed' = (replayed \/ (k = "refresh" /\ n # None /\ ~Live(n) /\ ~lost))
           /\ Tabless /\ cookie' = cookie
<1> DEFINE n == call[t][k].with
<1>1. /\ call[t][k] \in Call /\ n \in Known
      /\ Fresh \in Nat /\ None \in Nat
  <2>1. call[t][k] \in Call
    BY Fields DEF Base
  <2>2. n \in Known
    BY DEF Base, Calls, CallSound
  <2> QED BY <2>1, <2>2, TokenList DEF Base, Fresh, None
<1>2. PICK o \in Outcomes(k, n) :
          /\ tokens' = o.tokens
          /\ call' = [call EXCEPT ![t][k].at = "served", ![t][k].code = o.code, ![t][k].sets = o.sets]
          /\ lost' = (lost \/ (k \in Transition /\ o.tokens # tokens /\ o.sets = Keep))
  BY DEF Serve
<1>3. /\ o.tokens = tokens \/ Ends(k, n, o.tokens) \/ Grows(k, n, o.tokens)
      /\ o.code \in {"ok", "rejected", "failed"}
      /\ \/ o.sets \in {None, Keep} /\ (o.code = "ok" => k = "logout")
         \/ o.sets = Fresh /\ Grows(k, n, o.tokens)
  BY <1>1, OutcomeFacts
<1> DEFINE c == [call[t][k] EXCEPT !.at = "served", !.code = o.code, !.sets = o.sets]
<1>4. o.sets \in Nat \cup {Keep}
  BY <1>1, <1>3
<1>5. c \in Call /\ c.at = "served" /\ c.with = n /\ c.code = o.code /\ c.sets = o.sets
  BY <1>1, <1>3, <1>4 DEF Call
<1>6. call' = [call EXCEPT ![t][k] = c]
  <2> HIDE DEF Kind
  <2> QED BY <1>2 DEF Base, Shapes
<1> HIDE DEF c, Kind
<1>7. /\ call' \in [Tab -> [Kind -> Call]] /\ call'[t][k] = c
      /\ \A j \in Kind \ {k} : call'[t][j] = call[t][j]
      /\ \A u \in Tab \ {t} : call'[u] = call[u]
  BY <1>5, <1>6, CallSet DEF Base
<1>8. /\ call[t][k].at = "sent" /\ Tabless /\ cookie' = cookie
      /\ replayed' = (replayed \/ (k = "refresh" /\ n # None /\ ~Live(n) /\ ~lost))
  BY DEF Serve, Tabless, memory
<1> QED BY <1>1, <1>2, <1>3, <1>5, <1>7, <1>8

LEMMA ServedList ==
    ASSUME Base, NEW k \in Kind, NEW n, NEW list,
           list = tokens \/ Ends(k, n, list) \/ Grows(k, n, list)
    PROVE  /\ Longer(list) /\ DOMAIN list = 1..Len(list)
           /\ \/ Len(list) = Len(tokens) /\ ~Grows(k, n, list)
              \/ Len(list) = Len(tokens) + 1 /\ Grows(k, n, list)
<1>1. tokens \in Seq(Token) /\ Len(tokens) \in Nat
  BY DEF Base, Shapes
<1>2. Grows(k, n, list) => Longer(list) /\ Len(list) = Len(tokens) + 1
  BY GrownList
<1>3. Ends(k, n, list) => Longer(list) /\ Len(list) = Len(tokens)
  BY EndedList DEF Ends
<1>4. Longer(tokens)
  BY <1>1 DEF Longer
<1>5. Longer(list) => DOMAIN list = 1..Len(list)
  BY DEF Longer
<1> HIDE DEF Grows, Ends
<1> QED BY <1>1, <1>2, <1>3, <1>4, <1>5

LEMMA ServeKeepsBase ==
    ASSUME Base, NEW t \in Tab, NEW k \in Kind, Serve(t, k)
    PROVE  Base' /\ OnlyTab(t)
<1> DEFINE n == call[t][k].with
           c == call'[t][k]
<1> HIDE DEF Kind
<1>1. /\ call[t][k].at = "sent" /\ n \in Known
      /\ call' \in [Tab -> [Kind -> Call]]
      /\ \A j \in Kind \ {k} : call'[t][j] = call[t][j]
      /\ \A u \in Tab \ {t} : call'[u] = call[u]
      /\ c.at = "served" /\ c.with = n /\ c.code \in {"ok", "rejected", "failed"}
      /\ tokens' = tokens \/ Ends(k, n, tokens') \/ Grows(k, n, tokens')
      /\ \/ c.sets \in {None, Keep} /\ (c.code = "ok" => k = "logout")
         \/ c.sets = Fresh /\ Grows(k, n, tokens')
      /\ Tabless /\ cookie' = cookie
  BY ServeFacts
<1>2. lost' \in BOOLEAN /\ replayed' \in BOOLEAN
  <2>1. /\ lost' = (lost \/ (k \in Transition /\ tokens' # tokens /\ c.sets = Keep))
        /\ replayed' = (replayed \/ (k = "refresh" /\ n # None /\ ~Live(n) /\ ~lost))
    BY ServeFacts
  <2> QED BY <2>1
<1>3. /\ Longer(tokens') /\ DOMAIN tokens' = 1..Len(tokens')
      /\ \/ Len(tokens') = Len(tokens) /\ ~Grows(k, n, tokens')
         \/ Len(tokens') = Len(tokens) + 1 /\ Grows(k, n, tokens')
  BY <1>1, ServedList
<1>4. /\ tokens \in Seq(Token) /\ DOMAIN tokens = 1..Len(tokens) /\ Len(tokens) \in Nat
      /\ Fresh = Len(tokens) + 1 /\ None \notin DOMAIN tokens /\ Keep \notin DOMAIN tokens
      /\ Fresh \notin Known /\ Fresh # Keep /\ Fresh # None
      /\ Fresh \notin DOMAIN tokens /\ None \notin DOMAIN tokens' /\ Keep \notin DOMAIN tokens'
  <2>1. /\ tokens \in Seq(Token) /\ DOMAIN tokens = 1..Len(tokens) /\ Len(tokens) \in Nat
        /\ None \notin DOMAIN tokens /\ Keep \notin DOMAIN tokens /\ Fresh = Len(tokens) + 1
    BY TokenList DEF Base, Shapes, Fresh
  <2>2. /\ Fresh \notin DOMAIN tokens /\ Fresh # Keep /\ Fresh # None
    BY <2>1 DEF Keep, None
  <2>3. None \notin 1..Len(tokens') /\ Keep \notin 1..Len(tokens')
    BY DEF Keep, None
  <2> QED BY <1>3, <2>1, <2>2, <2>3 DEF Known
<1>5. /\ DOMAIN tokens \subseteq DOMAIN tokens' /\ DOMAIN tokens' \subseteq DOMAIN tokens \cup {Fresh}
      /\ Known \subseteq Known'
  <2>1. 1..Len(tokens') \subseteq 1..Len(tokens) \cup {Fresh}
    <3>1. Len(tokens') = Len(tokens) \/ Len(tokens') = Len(tokens) + 1
      BY <1>3
    <3> QED BY <1>4, <3>1
  <2>2. DOMAIN tokens \subseteq DOMAIN tokens'
    BY <1>3 DEF Longer
  <2> QED BY <1>3, <1>4, <2>1, <2>2 DEF Known
<1>6. Grows(k, n, tokens') => Fresh \in DOMAIN tokens'
  BY <1>3, <1>4
<1>7. Shapes' /\ OnlyTab(t)
  BY <1>1, <1>2, <1>3, <1>5 DEF Base, Shapes, Tabless, OnlyTab, Longer
<1>8. Families'
  <2>1. \A m \in DOMAIN tokens : tokens'[m].family \in DOMAIN tokens'
    BY <1>3, <1>5 DEF Base, Families, Longer
  <2>2. ASSUME Fresh \in DOMAIN tokens' PROVE tokens'[Fresh].family \in DOMAIN tokens'
    <3>1. Grows(k, n, tokens')
      BY <1>3, <1>4, <2>2
    <3>2. /\ k = "login" => tokens'[Fresh].family = Fresh
          /\ k = "refresh" => n \in DOMAIN tokens /\ tokens'[Fresh].family = tokens[n].family
      BY <3>1, GrownList
    <3> QED BY <1>5, <2>2, <3>1, <3>2 DEF Base, Families, Grows
  <2> QED BY <1>5, <2>1, <2>2 DEF Families
<1>9. ASSUME NEW j \in Kind PROVE call[t][j].sets \in Known \cup {Keep} /\ CallSound(call[t][j], j)
  BY DEF Base, Calls, CallSound
<1>10. \A j \in Kind : CallSound(call[t][j], j)'
  <2>1. CallSound(call[t][k], k)'
    <3>1. k = "logout" => ~Grows(k, n, tokens')
      BY DEF Grows
    <3> QED BY <1>1, <1>4, <1>5, <1>6, <3>1 DEF CallSound, Known
  <2>2. \A j \in Kind \ {k} : CallSound(call[t][j], j)'
    BY <1>1, <1>4, <1>5, <1>9 DEF CallSound, Known
  <2> QED BY <2>1, <2>2
<1>11. TabSound(t)'
  BY <1>1, <1>5 DEF TabSound, Base, Tabs, Tabless
<1>12. NewsAt(t)'
  <2>1. Memory(t) \subseteq Known /\ Memory(t)' = Memory(t)
    BY <1>1 DEF Memory, Tabless, Base, Tabs, TabSound
  <2> SUFFICES ASSUME NEW j \in Kind, Brought(t, j)'
               PROVE  /\ call'[t][j].sets \notin Memory(t)
                      /\ \A i \in Kind \ {j} : call'[t][i].sets # call'[t][j].sets
    BY <2>1 DEF NewsAt, Memory
  <2>2. CASE j = k
    <3>1. c.sets = Fresh
      BY <1>1, <1>4, <2>2 DEF Brought
    <3>2. \A i \in Kind \ {j} : call'[t][i].sets \in Known \cup {Keep}
      BY <1>1, <1>9, <2>2
    <3> QED BY <1>4, <2>1, <2>2, <3>1, <3>2
  <2>3. CASE j # k
    <3>1. call'[t][j] = call[t][j] /\ Brought(t, j)
      BY <1>1, <1>4, <1>9, <2>3 DEF Brought, Known
    <3>2. /\ call[t][j].sets \notin Memory(t) /\ call[t][j].sets \in DOMAIN tokens
          /\ \A i \in Kind \ {j} : call[t][i].sets # call[t][j].sets
      BY <3>1 DEF Base, News, NewsAt, Memory, Brought
    <3>3. c.sets # call[t][j].sets
      BY <1>1, <1>4, <3>2
    <3> QED BY <1>1, <3>1, <3>2, <3>3
  <2> QED BY <2>2, <2>3
<1>13. Calls' /\ Tabs' /\ News'
  BY <1>5, <1>7, <1>10, <1>11, <1>12, OthersSound DEF Base
<1>14. Budget'
  <2>1. \A j \in Part : Due(t, j)' => Due(t, j)
    BY <1>1 DEF Due, Part, Kind, Tabless
  <2>2. /\ Len(tokens) \in Nat /\ Len(tokens') \in Nat
        /\ clicks \in Nat /\ clicks' \in Nat /\ clicks <= clicks' /\ clicks' = clicks
    <3>1. clicks \in Nat /\ clicks' = clicks
      BY <1>1 DEF Base, Shapes, Tabless
    <3>2. Len(tokens') \in Nat
      <4>1. Len(tokens') = Len(tokens) \/ Len(tokens') = Len(tokens) + 1
        BY <1>3
      <4>2. Len(tokens) \in Nat
        BY <1>4
      <4> QED BY <4>1, <4>2
    <3> QED BY <1>4, <3>1, <3>2
  <2>3. CASE k \in Part
    <3>1. Due(t, k) /\ ~Due(t, k)'
      BY <1>1 DEF Due, Kind
    <3>2. \A j \in Part : Due(t, j)' => Due(t, j) \/ j = k
      BY <2>1
    <3> QED BY <1>3, <1>7, <2>1, <2>2, <2>3, <3>1, <3>2, OneDueDone DEF Base
  <2>4. CASE k \notin Part
    <3>1. ~Grows(k, n, tokens')
      BY <2>4 DEF Grows, Part
    <3> QED BY <1>3, <1>7, <2>1, <2>2, <3>1, FewerDue DEF Base
  <2> QED BY <2>3, <2>4
<1>15. Turns'
  <2>1. \A j \in Transition :
            /\ call'[t][j].at = "idle" <=> call[t][j].at = "idle"
            /\ call'[t][j].at \in {"sent", "served", "back"} => call[t][j].at \in {"sent", "served", "back"}
    BY <1>1 DEF Transition, Kind
  <2> QED BY <1>1, <1>7, <2>1, SameQueue DEF Base, Tabless
<1> QED BY <1>7, <1>8, <1>13, <1>14, <1>15 DEF Base

\* Only the holder of the lock presents a token that ends with it, and until a
\* response is lost it is one that can be used.
LEMMA ServeKeepsShared ==
    ASSUME Base, Shared, Locks, NEW t \in Tab, NEW k \in Kind, Serve(t, k)
    PROVE  Shared'
<1> DEFINE n == call[t][k].with
           c == call'[t][k]
<1> HIDE DEF Kind
<1>1. /\ call[t][k].at = "sent" /\ n \in Known
      /\ call' \in [Tab -> [Kind -> Call]]
      /\ \A j \in Kind \ {k} : call'[t][j] = call[t][j]
      /\ \A u \in Tab \ {t} : call'[u] = call[u]
      /\ c.at = "served" /\ c.with = n
      /\ tokens' = tokens \/ Ends(k, n, tokens') \/ Grows(k, n, tokens')
      /\ \/ c.sets \in {None, Keep}
         \/ c.sets = Fresh /\ Grows(k, n, tokens')
      /\ lost' = (lost \/ (k \in Transition /\ tokens' # tokens /\ c.sets = Keep))
      /\ replayed' = (replayed \/ (k = "refresh" /\ n # None /\ ~Live(n) /\ ~lost))
      /\ cookie' = cookie
  BY ServeFacts
<1>2. /\ None \notin DOMAIN tokens /\ Keep \notin DOMAIN tokens
      /\ Fresh \notin Known \cup {Keep} /\ cookie \in Known
      /\ \A u \in Tab, j \in Kind : call[u][j].with \in Known /\ call[u][j].sets \in Known \cup {Keep}
  <2>1. /\ None \notin DOMAIN tokens /\ Keep \notin DOMAIN tokens /\ cookie \in Known
        /\ DOMAIN tokens = 1..Len(tokens) /\ Len(tokens) \in Nat
    BY TokenList DEF Base, Shapes
  <2>2. Fresh \notin DOMAIN tokens /\ Fresh # Keep /\ Fresh # None
    BY <2>1 DEF Fresh, Keep, None
  <2> QED BY <2>1, <2>2 DEF Base, Calls, CallSound, Known
<1>3. /\ Longer(tokens') /\ DOMAIN tokens \subseteq DOMAIN tokens'
      /\ DOMAIN tokens' \subseteq DOMAIN tokens \cup {Fresh}
      /\ Fresh \in DOMAIN tokens' => Grows(k, n, tokens')
      /\ None \notin DOMAIN tokens' /\ Keep \notin DOMAIN tokens'
  <2>1. /\ Longer(tokens') /\ DOMAIN tokens' = 1..Len(tokens')
        /\ \/ Len(tokens') = Len(tokens) /\ ~Grows(k, n, tokens')
           \/ Len(tokens') = Len(tokens) + 1 /\ Grows(k, n, tokens')
    BY <1>1, ServedList
  <2>2. DOMAIN tokens = 1..Len(tokens) /\ Len(tokens) \in Nat
    BY TokenList DEF Base
  <2>3. Len(tokens') = Len(tokens) \/ Len(tokens') = Len(tokens) + 1
    BY <2>1
  <2>4. 1..Len(tokens') \subseteq 1..Len(tokens) \cup {Fresh}
    BY <2>2, <2>3 DEF Fresh
  <2>5. Len(tokens') = Len(tokens) => Fresh \notin 1..Len(tokens')
    BY <2>2 DEF Fresh
  <2>6. None \notin 1..Len(tokens') /\ Keep \notin 1..Len(tokens')
    BY DEF None, Keep
  <2>7. DOMAIN tokens \subseteq DOMAIN tokens'
    BY <2>1 DEF Longer
  <2> QED BY <2>1, <2>2, <2>4, <2>5, <2>6, <2>7
<1>4. ASSUME NEW u \in Tab, NEW j \in Kind, ~(u = t /\ j = k) PROVE call'[u][j] = call[u][j]
  BY <1>1, <1>4
<1>5. ASSUME NEW u \in Tab, NEW j \in Kind, call'[u][j].at = "sent"
      PROVE  ~(u = t /\ j = k) /\ call[u][j].at = "sent" /\ call'[u][j] = call[u][j]
  BY <1>1, <1>4, <1>5
<1>6. ASSUME NEW u \in Tab, NEW j \in Kind, Coming(u, j)'
      PROVE  \/ u = t /\ j = k /\ call'[u][j].sets = Fresh /\ Grows(k, n, tokens')
             \/ ~(u = t /\ j = k) /\ Coming(u, j) /\ call'[u][j] = call[u][j]
  <2>1. CASE u = t /\ j = k
    BY <1>1, <1>3, <1>6, <2>1 DEF Coming, Brought
  <2>2. CASE ~(u = t /\ j = k)
    <3>1. call'[u][j] = call[u][j]
      BY <1>4, <2>2
    <3>2. call[u][j].sets \in DOMAIN tokens
      BY <1>2, <1>3, <1>6, <3>1 DEF Coming, Brought, Known
    <3> QED BY <1>6, <2>2, <3>1, <3>2 DEF Coming, Brought
  <2> QED BY <2>1, <2>2
<1>7. "login" \in Kind /\ "refresh" \in Kind /\ "login" \notin Transition /\ Transition \subseteq Kind
      /\ "refresh" \in Transition /\ k \in Transition \cup {"login"}
  BY DEF Kind, Transition
<1>8. k = "refresh" /\ ~lost => Usable(n)
  BY <1>1 DEF Shared, InGoodHands
<1>9. replayed' = FALSE
  BY <1>1, <1>8 DEF Shared, Usable
<1>10. Grows(k, n, tokens')
           => /\ tokens'[Fresh].status = "live"
              /\ k = "login" => tokens'[Fresh].family = Fresh
              /\ k = "refresh" => n \in DOMAIN tokens /\ tokens'[Fresh].family = tokens[n].family
              /\ \A m \in DOMAIN tokens : k = "login" \/ m # n => tokens'[m] = tokens[m]
              /\ k \in {"login", "refresh"}
  <2>1. Grows(k, n, tokens') => k \in {"login", "refresh"}
    BY DEF Grows
  <2> QED BY <2>1, GrownList
<1>11. ASSUME NEW u \in Tab, Coming(u, "login")
       PROVE  LET m == call[u]["login"].sets IN
              /\ m \in DOMAIN tokens /\ \A i \in DOMAIN tokens : tokens[i].family = m <=> i = m
              /\ cookie # m
              /\ \A v \in Tab, j \in Kind :
                     /\ call[v][j].at = "sent" => call[v][j].with # m
                     /\ Coming(v, j) /\ <<v, j>> # <<u, "login">> => call[v][j].sets # m
  <2>1. call[u]["login"].sets \in DOMAIN tokens
    BY <1>11 DEF Coming, Brought
  <2> QED BY <1>11, <2>1 DEF Shared, Private
<1>12. Private'
  <2> SUFFICES ASSUME NEW u \in Tab, Coming(u, "login")'
               PROVE  LET m == call'[u]["login"].sets IN
                      /\ \A i \in DOMAIN tokens' : tokens'[i].family = m <=> i = m
                      /\ cookie' # m
                      /\ \A v \in Tab, j \in Kind :
                             /\ call'[v][j].at = "sent" => call'[v][j].with # m
                             /\ Coming(v, j)' /\ <<v, j>> # <<u, "login">> => call'[v][j].sets # m
    BY DEF Private
  <2>1. CASE u = t /\ k = "login"
    <3>1. call'[u]["login"].sets = Fresh /\ Grows(k, n, tokens')
      BY <1>6, <1>7, <2>1
    <3>2. \A i \in DOMAIN tokens' : tokens'[i].family = Fresh <=> i = Fresh
      <4>1. \A i \in DOMAIN tokens : tokens'[i].family \in DOMAIN tokens
        BY <1>3 DEF Longer, Base, Families
      <4>2. tokens'[Fresh].family = Fresh
        BY <1>10, <2>1, <3>1
      <4> QED BY <1>2, <1>3, <4>1, <4>2 DEF Known
    <3>3. cookie' # Fresh
      BY <1>1, <1>2
    <3>4. ASSUME NEW v \in Tab, NEW j \in Kind
          PROVE  /\ call'[v][j].at = "sent" => call'[v][j].with # Fresh
                 /\ Coming(v, j)' /\ <<v, j>> # <<u, "login">> => call'[v][j].sets # Fresh
      <4>1. call'[v][j].at = "sent" => call'[v][j].with # Fresh
        BY <1>2, <1>5
      <4>2. ASSUME Coming(v, j)', <<v, j>> # <<u, "login">> PROVE call'[v][j].sets # Fresh
        <5>1. call'[v][j] = call[v][j]
          BY <1>4, <2>1, <4>2
        <5> QED BY <1>2, <5>1
      <4> QED BY <4>1, <4>2
    <3> QED BY <3>1, <3>2, <3>3, <3>4
  <2>2. CASE ~(u = t /\ k = "login")
    <3> DEFINE m == call[u]["login"].sets
    <3>1. Coming(u, "login") /\ call'[u]["login"] = call[u]["login"]
      BY <1>6, <1>7, <2>2
    <3>2. /\ m \in DOMAIN tokens /\ \A i \in DOMAIN tokens : tokens[i].family = m <=> i = m
          /\ cookie # m
          /\ \A v \in Tab, j \in Kind :
                 /\ call[v][j].at = "sent" => call[v][j].with # m
                 /\ Coming(v, j) /\ <<v, j>> # <<u, "login">> => call[v][j].sets # m
      BY <1>11, <3>1
    <3>3. n # m /\ Fresh # m
      BY <1>1, <1>2, <3>2 DEF Known
    <3> HIDE DEF m
    <3>4. \A i \in DOMAIN tokens' : tokens'[i].family = m <=> i = m
      <4>1. \A i \in DOMAIN tokens : tokens'[i].family = m <=> i = m
        BY <1>3, <3>2 DEF Longer
      <4>2. Fresh \in DOMAIN tokens' => tokens'[Fresh].family # m
        BY <1>3, <1>10, <3>2, <3>3
      <4> QED BY <1>3, <3>3, <4>1, <4>2
    <3>5. ASSUME NEW v \in Tab, NEW j \in Kind
          PROVE  /\ call'[v][j].at = "sent" => call'[v][j].with # m
                 /\ Coming(v, j)' /\ <<v, j>> # <<u, "login">> => call'[v][j].sets # m
      <4>1. call'[v][j].at = "sent" => call'[v][j].with # m
        BY <1>5, <3>2
      <4>2. Coming(v, j)' /\ <<v, j>> # <<u, "login">> => call'[v][j].sets # m
        BY <1>6, <3>2, <3>3
      <4> QED BY <4>1, <4>2
    <3> QED BY <1>1, <3>1, <3>2, <3>4, <3>5 DEF m
  <2> QED BY <2>1, <2>2
<1>13. InGoodHands'
  <2> SUFFICES ASSUME ~lost' PROVE InGoodHands'
    BY DEF InGoodHands
  <2>1. ~lost /\ (k \in Transition => tokens' = tokens \/ c.sets # Keep)
    BY <1>1
  <2>2. /\ Usable(cookie) \/ Replacing
        /\ \A u \in Tab : call[u]["refresh"].at = "sent" => Usable(call[u]["refresh"].with)
        /\ \A u \in Tab, j \in Kind : Coming(u, j) => Live(call[u][j].sets)
    BY <2>1 DEF Shared, InGoodHands
  <2>3. Replacing => Replacing'
    <3> SUFFICES ASSUME NEW u \in Tab, NEW j \in Transition,
                        call[u][j].at = "served", call[u][j].sets # Keep
                 PROVE  Replacing'
      BY DEF Replacing
    <3>1. ~(u = t /\ j = k) /\ j \in Kind
      BY <1>1, <1>7
    <3>2. call'[u][j] = call[u][j]
      BY <1>4, <3>1
    <3> QED BY <3>2 DEF Replacing
  <2>4. ASSUME NEW m, m \in DOMAIN tokens, tokens'[m] = tokens[m], Live(m) PROVE Live(m)'
    BY <1>3, <2>4 DEF Live
  <2>5. CASE k = "login"
    <3>1. \A m : Live(m) => Live(m)'
      <4>1. \A m \in DOMAIN tokens : tokens'[m] = tokens[m]
        BY <1>1, <1>7, <1>10, <2>5 DEF Ends
      <4> QED BY <2>4, <4>1 DEF Live
    <3>2. \A m : Usable(m) => Usable(m)'
      BY <3>1 DEF Usable
    <3>3. Usable(cookie)' \/ Replacing'
      BY <1>1, <2>2, <2>3, <3>1 DEF Usable
    <3>4. ASSUME NEW u \in Tab, call'[u]["refresh"].at = "sent" PROVE Usable(call[u]["refresh"].with)'
      <4>1. call'[u]["refresh"] = call[u]["refresh"] /\ Usable(call[u]["refresh"].with)
        BY <1>5, <1>7, <2>2, <3>4
      <4> QED BY <3>1, <4>1 DEF Usable
    <3>5. ASSUME NEW u \in Tab, NEW j \in Kind, Coming(u, j)' PROVE Live(call[u][j].sets)'
      <4>1. CASE Coming(u, j) /\ call'[u][j] = call[u][j]
        <5>1. Live(call[u][j].sets)
          BY <2>2, <4>1
        <5> QED BY <3>1, <4>1, <5>1 DEF Live
      <4>2. CASE call'[u][j].sets = Fresh /\ Grows(k, n, tokens')
        BY <1>10, <3>5, <4>2 DEF Live, Coming, Brought
      <4> QED BY <1>6, <3>5, <4>1, <4>2
    <3> QED BY <3>3, <3>4, <3>5 DEF InGoodHands
  <2>6. CASE k \in Transition
    <3>1. \A u \in Tab, j \in Transition :
              call[u][j].at \in {"sent", "served", "back"} => u = t /\ j = k
      <4>1. Head(lock) = <<t, k>>
        BY <1>1, <2>6 DEF Base, Turns
      <4> QED BY <2>6, <4>1, OneUnderWay
    <3>2. Usable(cookie)
      BY <1>1, <2>2, <3>1 DEF Replacing
    <3>3. \A u \in Tab : call'[u]["refresh"].at # "sent"
      BY <1>5, <1>7, <3>1
    <3>4. Usable(cookie)' \/ Replacing'
      <4>1. CASE tokens' = tokens
        BY <1>1, <3>2, <4>1 DEF Usable, Live
      <4>2. CASE c.sets # Keep
        BY <1>1, <2>6, <4>2 DEF Replacing
      <4> QED BY <2>1, <2>6, <4>1, <4>2
    <3>5. ASSUME NEW u \in Tab, NEW j \in Kind, Coming(u, j)' PROVE Live(call[u][j].sets)'
      <4>1. CASE ~(u = t /\ j = k) /\ Coming(u, j) /\ call'[u][j] = call[u][j]
        <5>1. j = "login"
          <6>1. call[u][j].at = "served"
            BY <4>1 DEF Coming
          <6> QED BY <3>1, <4>1, <6>1 DEF Kind, Transition
        <5> DEFINE m == call[u][j].sets
        <5>2. /\ m \in DOMAIN tokens /\ \A i \in DOMAIN tokens : tokens[i].family = m <=> i = m
              /\ n # m
          BY <1>1, <1>11, <4>1, <5>1
        <5>3. Live(m)
          BY <2>2, <4>1
        <5> HIDE DEF m
        <5>4. tokens'[m] = tokens[m]
          <6>1. CASE Ends(k, n, tokens')
            <7>1. n \in DOMAIN tokens /\ tokens' = Ended(n)
              BY <6>1 DEF Ends
            <7>2. tokens[m].family # tokens[n].family
              BY <5>2, <7>1
            <7> QED BY <5>2, <7>1, <7>2, EndedList
          <6>2. CASE Grows(k, n, tokens')
            BY <1>10, <5>2, <6>2
          <6> QED BY <1>1, <6>1, <6>2
        <5>5. m \in DOMAIN tokens' /\ tokens'[m].status = "live"
          BY <1>3, <5>2, <5>3, <5>4 DEF Live
        <5>6. m = call'[u][j].sets
          BY <4>1 DEF m
        <5> QED BY <5>5, <5>6 DEF Live
      <4>2. CASE call'[u][j].sets = Fresh /\ Grows(k, n, tokens')
        BY <1>10, <3>5, <4>2 DEF Live, Coming, Brought
      <4> QED BY <1>6, <3>5, <4>1, <4>2
    <3> QED BY <3>3, <3>4, <3>5 DEF InGoodHands
  <2> QED BY <1>7, <2>5, <2>6
<1> QED BY <1>9, <1>12, <1>13 DEF Shared

-----------------------------------------------------------------------------
(* The session: initial states and steps *)

LEMMA InitBase == BrowserInit => Base /\ Shared
<1> SUFFICES ASSUME BrowserInit PROVE Base /\ Shared
  OBVIOUS
<1>1. /\ tokens = <<>> /\ DOMAIN tokens = {} /\ lock = <<>> /\ DOMAIN lock = {}
      /\ Len(tokens) = 0 /\ Known = {None} /\ None \in Nat /\ cookie = None
      /\ clicks = 0 /\ 0 \in 0..Clicks
  BY BrowserAssumption DEF BrowserInit, Known, None
<1>2. \A t \in Tab, k \in Kind : call[t][k] = NoCall
  BY DEF BrowserInit
<1>3. \A t \in Tab : session[t] = NoSession /\ boot[t] = NoBoot /\ work[t] = NoWork /\ state[t] = "closed"
  BY DEF BrowserInit
<1>4. Shapes
  <2>1. "closed" \in Status /\ state \in [Tab -> Status]
    BY DEF BrowserInit, Status
  <2> HIDE DEF Status, Kind, Session, Call, Boot, Work, Token
  <2>2. /\ session \in [Tab -> Session] /\ boot \in [Tab -> Boot] /\ work \in [Tab -> Work]
    BY EmptyMemory DEF BrowserInit
  <2>3. call \in [Tab -> [Kind -> Call]]
    BY NoCallIsCall DEF BrowserInit
  <2>4. tokens \in Seq(Token) /\ lock \in Seq(Tab \X Transition) /\ cookie \in Known
    BY <1>1
  <2>5. signals \in [Tab -> Nat] /\ lost \in BOOLEAN /\ replayed \in BOOLEAN
    BY DEF BrowserInit
  <2> QED BY <1>1, <2>1, <2>2, <2>3, <2>4, <2>5 DEF Shapes
<1>5. Families /\ Turns
  BY <1>1, <1>2, NoCallIsCall DEF Families, Turns, Transition, Kind
<1>6. Calls
  BY <1>1, <1>2, NoCallIsCall DEF Calls, CallSound
<1>7. Tabs
  BY <1>1, <1>3, EmptyMemory DEF Tabs, TabSound
<1>8. News
  BY <1>1, <1>2 DEF News, NewsAt, Brought
<1>9. Budget
  <2>1. Pending = {}
    BY <1>2, <1>3, NoCallIsCall, EmptyMemory DEF Pending, Due, Kind
  <2> QED BY <1>1, <2>1, FS_EmptySet DEF Budget
<1>10. Shared
  <2>1. Private
    BY <1>1 DEF Private, Coming, Brought
  <2>2. InGoodHands
    <3>1. "refresh" \in Kind
      BY DEF Kind
    <3> QED BY <1>1, <1>2, <3>1, NoCallIsCall DEF InGoodHands, Usable, Coming, Brought
  <2> QED BY <2>1, <2>2 DEF Shared, BrowserInit
<1> QED BY <1>4, <1>5, <1>6, <1>7, <1>8, <1>9, <1>10 DEF Base

LEMMA NextKeeps == Base /\ [BrowserNext]_browserVars => Base' /\ (Locks /\ Shared => Shared')
<1> SUFFICES ASSUME Base, [BrowserNext]_browserVars PROVE Base' /\ (Locks /\ Shared => Shared')
  OBVIOUS
<1>1. CASE UNCHANGED browserVars
  <2>1. UNCHANGED <<tokens, lost, replayed, cookie, lock, state, session, call, boot, work, signals, clicks>>
    BY <1>1 DEF browserVars, server, memory
  <2>2. Shapes' /\ Families' /\ Turns'
    <3>1. Shapes'
      BY <2>1 DEF Base, Shapes, Known
    <3>2. Families'
      BY <2>1 DEF Base, Families
    <3>3. Turns'
      BY <2>1 DEF Base, Turns
    <3> QED BY <3>1, <3>2, <3>3
  <2>3. Calls' /\ Tabs' /\ News'
    BY <2>1 DEF Base, Calls, CallSound, Tabs, TabSound, News, NewsAt, Brought, Known
  <2>4. Budget'
    BY <2>1 DEF Base, Budget, Pending, Due
  <2>5. Private' /\ InGoodHands' <=> Private /\ InGoodHands
    BY <2>1 DEF Private, InGoodHands, Coming, Brought, Replacing, Usable, Live
  <2> QED BY <2>1, <2>2, <2>3, <2>4, <2>5 DEF Base, Shared
<1>2. ASSUME NEW t \in Tab, Click(t) PROVE Base' /\ (Shared => Shared')
  BY <1>2, LoadKeeps, RetryBootstrapKeeps, LoginKeeps, LogoutKeeps, RunAuthenticatedKeeps DEF Click
<1>3. ASSUME NEW t \in Tab, Settle(t) PROVE Base' /\ (Shared => Shared')
  BY <1>3, RefreshSucceedsKeeps, RefreshRejectedKeeps, RefreshFailsKeeps, EstablishSessionKeeps,
     LoginFailsKeeps, FinishLogoutKeeps DEF Settle
<1>4. ASSUME NEW t \in Tab, Reply(t) PROVE Base' /\ (Shared => Shared')
  BY <1>4, MeKeeps, FirstRefusedKeeps, SecondRefusedKeeps, AnsweredKeeps DEF Reply
<1>5. ASSUME NEW t \in Tab, Hear(t) PROVE Base' /\ (Shared => Shared')
  BY <1>5, HearKeeps
<1>6. ASSUME NEW t \in Tab, NEW k \in Kind, Exchange(t, k) PROVE Base' /\ (Locks /\ Shared => Shared')
  BY <1>6, SendKeeps, ReceiveKeeps, ServeKeepsBase, ServeKeepsShared DEF Exchange
<1> QED BY <1>1, <1>2, <1>3, <1>4, <1>5, <1>6 DEF BrowserNext

\* Each token cost a click.
LEMMA BaseMeansTypeOK == Base => BrowserTypeOK
<1> SUFFICES ASSUME Base PROVE BrowserTypeOK
  OBVIOUS
<1>1. DOMAIN tokens \subseteq Id
  <2>1. Cardinality(Pending) \in Nat
    BY FS_CardinalityType DEF Base, Budget
  <2>2. Len(tokens) + Cardinality(Pending) <= clicks /\ clicks \in 0..Clicks
    BY DEF Base, Budget, Shapes
  <2>3. DOMAIN tokens = 1..Len(tokens) /\ Len(tokens) \in Nat
    BY TokenList DEF Base
  <2>4. Len(tokens) <= Clicks
    BY <2>1, <2>2, <2>3, BrowserAssumption
  <2> QED BY <2>3, <2>4, BrowserAssumption DEF Id
<1>2. ASSUME NEW n \in DOMAIN tokens PROVE tokens[n] \in Tokens
  <2>1. tokens[n] \in Token
    BY TokenFields DEF Base
  <2>2. tokens[n].family \in Id
    BY <1>1 DEF Base, Families
  <2> QED BY <2>1, <2>2 DEF Token, Tokens
<1>3. cookie \in Id \cup {None}
  BY <1>1 DEF Base, Shapes, Known
<1>4. \A t \in Tab :
         /\ state[t] = "authenticated" <=> session[t] # NoSession
         /\ session[t] # NoSession => session[t].access \in DOMAIN tokens
         /\ Locks => \A k \in Transition :
                call[t][k].at # "idle" <=> \E i \in DOMAIN lock : lock[i] = <<t, k>>
  BY DEF Base, Tabs, TabSound, Turns
<1> QED BY <1>1, <1>2, <1>3, <1>4 DEF BrowserTypeOK, Base, Shapes

-----------------------------------------------------------------------------

\* What the tabs, the browser and the service keep has its shape, with and
\* without Web Locks: a tab shows a session exactly while it is authenticated,
\* the session is one that was issued, and each token cost a click.
THEOREM BrowserTypeCorrectness == BrowserSpec => []BrowserTypeOK
<1>1. BrowserInit => Base
  BY InitBase
<1>2. Base /\ [BrowserNext]_browserVars => Base'
  BY NextKeeps
<1> QED BY <1>1, <1>2, BaseMeansTypeOK, PTL DEF BrowserSpec

\* With and without Web Locks, an operation that was told that its token is
\* invalid is never tried again with the same one.
THEOREM RetriesUseAnotherToken == BrowserSpec => []RetryUsesAnotherToken
<1>1. BrowserInit => Base
  BY InitBase
<1>2. Base /\ [BrowserNext]_browserVars => Base'
  BY NextKeeps
<1>3. Base => RetryUsesAnotherToken
  BY DEF Base, Tabs, TabSound, RetryUsesAnotherToken
<1> QED BY <1>1, <1>2, <1>3, PTL DEF BrowserSpec

\* In a browser with Web Locks, all that tabs make of the tokens they share is
\* sound: until a response is lost, no tab presents a token that was exchanged.
THEOREM BrowserSessionsSound ==
    ASSUME Locks
    PROVE  BrowserSpec => []SessionsSound
<1>1. BrowserInit => Base /\ Shared
  BY InitBase
<1>2. Base /\ Shared /\ [BrowserNext]_browserVars => Base' /\ Shared'
  BY NextKeeps
<1>3. Base /\ Shared => SessionsSound
  BY BaseMeansTypeOK DEF SessionsSound, Shared, TabsNeverReplay, Base, Tabs, TabSound, RetryUsesAnotherToken
<1> QED BY <1>1, <1>2, <1>3, PTL DEF BrowserSpec

-----------------------------------------------------------------------------
(* The service implements single-use tokens *)

\* The status and the family of each token of a list.
StatusIn(list) == [n \in Id |-> IF n \in DOMAIN list THEN list[n].status ELSE "unissued"]
LineageIn(list) == [n \in Id |-> IF n \in DOMAIN list THEN list[n].family ELSE None]

LEMMA TokensAreNamed ==
    ASSUME BrowserTypeOK
    PROVE  DOMAIN tokens \subseteq Id /\ \A n \in DOMAIN tokens : tokens[n].family \in Id
BY DEF BrowserTypeOK, Tokens

\* Only a request that is handled changes the tokens.
LEMMA TokensChangeByService ==
    ASSUME BrowserNext
    PROVE  UNCHANGED tokens \/ \E t \in Tab, k \in Kind : Serve(t, k)
<1> PICK t \in Tab : \/ Click(t) \/ Settle(t) \/ Reply(t) \/ Hear(t)
                     \/ \E k \in Kind : Exchange(t, k)
  BY DEF BrowserNext
<1>1. CASE Click(t)
  BY <1>1 DEF Click, Load, RetryBootstrap, Bootstrap, Login, Logout, RunAuthenticated, server
<1>2. CASE Settle(t)
  BY <1>2 DEF Settle, Settled, RefreshSucceeds, RefreshRejected, RefreshFails,
     EstablishSession, LoginFails, FinishLogout, server
<1>3. CASE Reply(t)
  BY <1>3 DEF Reply, Me, FirstRefused, SecondRefused, Answered, server
<1>4. CASE Hear(t)
  BY <1>4 DEF Hear, server
<1>5. CASE \E k \in Kind : Exchange(t, k)
  BY <1>5 DEF Exchange, Send, Receive, server
<1> QED BY <1>1, <1>2, <1>3, <1>4, <1>5

LEMMA EndingIsRevocation ==
    ASSUME Base, BrowserTypeOK, NEW n \in DOMAIN tokens, tokens' = Ended(n)
    PROVE  \E f \in Id : Promise!Revoke(f)
<1> PICK f \in Id : f = tokens[n].family
  BY TokensAreNamed
<1> DEFINE ended == {m \in DOMAIN tokens : tokens[m].family = f}
<1>1. DOMAIN tokens \subseteq Id /\ DOMAIN tokens' = DOMAIN tokens
  BY TokensAreNamed DEF Ended
<1>2. ASSUME NEW m \in DOMAIN tokens
      PROVE  /\ tokens'[m].family = tokens[m].family
             /\ tokens'[m].status = IF m \in ended THEN "dead" ELSE tokens[m].status
  <2>1. tokens'[m] = IF m \in ended THEN [tokens[m] EXCEPT !.status = "dead"] ELSE tokens[m]
    BY DEF Ended
  <2>2. tokens[m] \in Token
    BY TokenFields DEF Base
  <2> QED BY <2>1, <2>2 DEF Token
<1>3. ended \in SUBSET {m \in Id : LineageIn(tokens)[m] = f}
  BY <1>1 DEF LineageIn
<1>4. StatusIn(tokens') = [m \in Id |-> IF m \in ended THEN "dead" ELSE StatusIn(tokens)[m]]
  <2> HIDE DEF ended
  <2>1. ended \subseteq DOMAIN tokens
    BY DEF ended
  <2> QED BY <1>1, <1>2, <2>1 DEF StatusIn
<1>5. LineageIn(tokens') = LineageIn(tokens)
  BY <1>1, <1>2 DEF LineageIn
<1> HIDE DEF ended
<1>6. Promise!Revoke(f)
  BY <1>3, <1>4, <1>5 DEF Promise!Revoke, Promise!Ended, StatusIn, LineageIn
<1> QED BY <1>6

\* What a list with one token more says of them.
LEMMA OneTokenMore ==
    ASSUME Base, BrowserTypeOK, BrowserTypeOK', NEW base \in Seq(Token), Len(base) = Len(tokens),
           NEW owner \in User, NEW family \in Nat, tokens' = Issued(base, owner, family)
    PROVE  /\ Fresh \in Id /\ Fresh \notin DOMAIN tokens
           /\ StatusIn(tokens') = [StatusIn(base) EXCEPT ![Fresh] = "live"]
           /\ LineageIn(tokens') = [LineageIn(base) EXCEPT ![Fresh] = family]
<1>1. /\ DOMAIN tokens = 1..Len(tokens) /\ Len(tokens) \in Nat /\ Fresh = Len(tokens) + 1
      /\ DOMAIN base = 1..Len(tokens)
  BY TokenList DEF Base, Fresh
<1>2. /\ tokens' \in Seq(Token) /\ Len(tokens') = Len(tokens) + 1
      /\ \A m \in DOMAIN base : tokens'[m] = base[m]
      /\ tokens'[Fresh].family = family /\ tokens'[Fresh].status = "live"
  <2> DEFINE list == Issued(base, owner, family)
  <2>1. OneMore(list, base, family)
    BY IssuedList
  <2> HIDE DEF list
  <2>2. tokens' = list
    BY DEF list
  <2>3. Fresh = Len(base) + 1
    BY <1>1
  <2> QED BY <2>1, <2>2, <2>3 DEF OneMore
<1>3. DOMAIN tokens' = DOMAIN base \cup {Fresh} /\ Fresh \notin DOMAIN base
  BY <1>1, <1>2
<1>4. DOMAIN tokens' \subseteq Id
  BY DEF BrowserTypeOK
<1> HIDE DEF Token, Fresh
<1>5. Fresh \in Id /\ Fresh \notin DOMAIN tokens
  BY <1>1, <1>3, <1>4
<1>6. StatusIn(tokens') = [StatusIn(base) EXCEPT ![Fresh] = "live"]
  BY <1>2, <1>3, <1>5 DEF StatusIn
<1>7. LineageIn(tokens') = [LineageIn(base) EXCEPT ![Fresh] = family]
  BY <1>2, <1>3, <1>5 DEF LineageIn
<1> QED BY <1>5, <1>6, <1>7

LEMMA LoginIsIssue ==
    ASSUME Base, BrowserTypeOK, BrowserTypeOK', NEW u \in User, tokens' = Issued(tokens, u, Fresh)
    PROVE  \E f, n \in Id : Promise!Issue(f, n)
<1>1. tokens \in Seq(Token) /\ Fresh \in Nat /\ Fresh # None
  BY TokenList DEF Base, Shapes, Fresh, None
<1>2. /\ Fresh \in Id /\ Fresh \notin DOMAIN tokens
      /\ StatusIn(tokens') = [StatusIn(tokens) EXCEPT ![Fresh] = "live"]
      /\ LineageIn(tokens') = [LineageIn(tokens) EXCEPT ![Fresh] = Fresh]
  BY <1>1, OneTokenMore
<1>3. StatusIn(tokens)[Fresh] = "unissued"
  BY <1>2 DEF StatusIn
<1>4. \A m \in Id : LineageIn(tokens)[m] # Fresh
  BY <1>1, <1>2 DEF LineageIn, Base, Families
<1> HIDE DEF Fresh
<1> PICK n \in Id : n = Fresh
  BY <1>2
<1>5. Promise!Issue(n, n)
  BY <1>2, <1>3, <1>4 DEF Promise!Issue, StatusIn, LineageIn
<1> QED BY <1>5

LEMMA RefreshIsExchange ==
    ASSUME Base, BrowserTypeOK, BrowserTypeOK', NEW CONSTANT n, Live(n),
           tokens' = Issued([tokens EXCEPT ![n].status = "spent"], Owner(n), tokens[n].family)
    PROVE  \E m \in Id : Promise!Exchange(n, m) /\ n \in Id
<1> DEFINE s == [tokens[n] EXCEPT !.status = "spent"]
           spent == [tokens EXCEPT ![n] = s]
<1>1. /\ tokens \in Seq(Token) /\ n \in DOMAIN tokens /\ tokens[n].status = "live"
      /\ tokens[n] \in Token /\ tokens[n].owner \in User /\ tokens[n].family \in Nat
      /\ DOMAIN tokens \subseteq Id
  <2>1. n \in DOMAIN tokens /\ tokens[n].status = "live"
    BY DEF Live
  <2> QED BY <2>1, TokenFields, TokensAreNamed DEF Base, Shapes
<1>2. s \in Token /\ s.family = tokens[n].family /\ s.status = "spent"
  BY <1>1 DEF Token
<1>3. spent = [tokens EXCEPT ![n].status = "spent"]
  BY <1>1
<1> HIDE DEF s, Token
<1>4. /\ spent \in Seq(Token) /\ Len(spent) = Len(tokens) /\ DOMAIN spent = DOMAIN tokens
      /\ \A m \in DOMAIN tokens : m # n => spent[m] = tokens[m]
      /\ spent[n] = s
  BY <1>1, <1>2
<1> HIDE DEF spent
<1>5. /\ Fresh \in Id /\ Fresh \notin DOMAIN tokens
      /\ StatusIn(tokens') = [StatusIn(spent) EXCEPT ![Fresh] = "live"]
      /\ LineageIn(tokens') = [LineageIn(spent) EXCEPT ![Fresh] = tokens[n].family]
  <2> PICK u \in User : u = Owner(n)
    BY <1>1 DEF Owner
  <2> PICK f \in Nat : f = tokens[n].family
    BY <1>1
  <2>1. tokens' = Issued(spent, u, f)
    BY <1>3
  <2>2. \A base \in Seq(Token) : Len(base) = Len(tokens) /\ tokens' = Issued(base, u, f) =>
            /\ Fresh \in Id /\ Fresh \notin DOMAIN tokens
            /\ StatusIn(tokens') = [StatusIn(base) EXCEPT ![Fresh] = "live"]
            /\ LineageIn(tokens') = [LineageIn(base) EXCEPT ![Fresh] = f]
    BY OneTokenMore
  <2> QED BY <1>4, <2>1, <2>2
<1>6. StatusIn(spent) = [StatusIn(tokens) EXCEPT ![n] = "spent"]
  BY <1>1, <1>2, <1>4 DEF StatusIn
<1>7. LineageIn(spent) = LineageIn(tokens)
  BY <1>1, <1>2, <1>4 DEF LineageIn
<1> HIDE DEF Fresh
<1>8. /\ StatusIn(tokens)[n] = "live" /\ StatusIn(tokens)[Fresh] = "unissued"
      /\ LineageIn(tokens)[n] = tokens[n].family /\ n \in Id
  BY <1>1, <1>5 DEF StatusIn, LineageIn
<1>9. StatusIn(tokens') = [StatusIn(tokens) EXCEPT ![n] = "spent", ![Fresh] = "live"]
  BY <1>5, <1>6
<1>10. LineageIn(tokens') = [LineageIn(tokens) EXCEPT ![Fresh] = LineageIn(tokens)[n]]
  BY <1>5, <1>7, <1>8
<1> PICK m \in Id : m = Fresh
  BY <1>5
<1>11. Promise!Exchange(n, m)
  BY <1>8, <1>9, <1>10 DEF Promise!Exchange, StatusIn, LineageIn
<1> QED BY <1>8, <1>11

LEMMA ServeIsPromised ==
    ASSUME Base, BrowserTypeOK, BrowserTypeOK', NEW t \in Tab, NEW k \in Kind, Serve(t, k)
    PROVE  [Promise!Next]_(Promise!vars)
<1> PICK n : n = call[t][k].with
  OBVIOUS
<1>1. tokens' = tokens \/ Ends(k, n, tokens') \/ Grows(k, n, tokens')
  BY ServeFacts
<1>2. CASE tokens' = tokens
  BY <1>2 DEF Promise!vars
<1>3. CASE Ends(k, n, tokens')
  <2>1. \E f \in Id : Promise!Revoke(f)
    BY <1>3, EndingIsRevocation DEF Ends
  <2> QED BY <2>1 DEF Promise!Next
<1>4. CASE Grows(k, n, tokens')
  <2>1. CASE Live(n) /\ tokens' = Issued([tokens EXCEPT ![n].status = "spent"], Owner(n), tokens[n].family)
    <3>1. \E m, o \in Id : Promise!Exchange(m, o)
      BY <2>1, RefreshIsExchange
    <3> QED BY <3>1 DEF Promise!Next
  <2>2. CASE \E u \in User : tokens' = Issued(tokens, u, Fresh)
    <3>1. \E f, m \in Id : Promise!Issue(f, m)
      BY <2>2, LoginIsIssue
    <3> QED BY <3>1 DEF Promise!Next
  <2> QED BY <1>4, <2>1, <2>2 DEF Grows
<1> QED BY <1>1, <1>2, <1>3, <1>4

\* With and without Web Locks, whatever tabs send and whatever fails or is lost
\* on the way, the service of this module makes only steps of single-use
\* tokens: the ones that the rotation of refresh sessions implements.
THEOREM BrowserMeetsSingleUseTokens == BrowserSpec => ServiceIsSingleUse
<1>1. BrowserInit => Promise!Init
  <2> SUFFICES ASSUME BrowserInit PROVE Promise!Init
    OBVIOUS
  <2>1. DOMAIN tokens = {}
    BY DEF BrowserInit
  <2> QED BY <2>1 DEF Promise!Init
<1>2. ASSUME Base, BrowserTypeOK, BrowserTypeOK', [BrowserNext]_browserVars
      PROVE  [Promise!Next]_(Promise!vars)
  <2>1. CASE UNCHANGED tokens
    BY <2>1 DEF Promise!vars
  <2>2. CASE \E t \in Tab, k \in Kind : Serve(t, k)
    BY <1>2, <2>2, ServeIsPromised
  <2>3. CASE UNCHANGED browserVars
    BY <2>1, <2>3 DEF browserVars, server
  <2> QED BY <1>2, <2>1, <2>2, <2>3, TokensChangeByService
<1>3. BrowserInit => Base
  BY InitBase
<1>4. Base /\ [BrowserNext]_browserVars => Base'
  BY NextKeeps
<1>5. Base => BrowserTypeOK
  BY BaseMeansTypeOK
<1>6. BrowserSpec => Promise!Init /\ [][Promise!Next]_(Promise!vars)
  BY <1>1, <1>2, <1>3, <1>4, <1>5, PTL DEF BrowserSpec
<1> QED BY <1>6 DEF ServiceIsSingleUse, Promise!Spec

=============================================================================
