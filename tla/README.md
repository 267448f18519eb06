# Verification of the AI Portfolio Research Assistant

TLA+ modules of the program's stateful parts, TLC configurations that check
them on small instances, and TLAPS proofs of what holds on every instance.
Paths below are relative to `src/`, `internal/` stands for
`src/backend/internal/`.

The program is a Go API over PostgreSQL with a Next.js front end. It records
financial transactions of portfolios and appends an event to an outbox for
each. Its hard parts are database transactions at READ COMMITTED that validate
against what they read, retries under idempotency keys, leases and retries of
an at-least-once delivery worker, credentials that rotate, and clocks of
several hosts that are compared with each other.

## Inventory

| Component | State | Operations | What makes it correct | Model |
|---|---|---|---|---|
| Transaction ledger commands (`internal/transaction/application`, `queries/transaction`) | facts, correction groups, idempotency rows, one sequence row per portfolio; locks of running transactions | Create, Correct | positions never negative; a key takes effect once; sequences without gaps; correction groups whole; evidence matches facts; serial equivalence; no deadlock | `TransactionLedger`, `SerialLedger`, `TransactionLedgerInvariant`, `TransactionLedgerProofs` |
| Ledger domain (`internal/transaction/domain`) | none | ReplayLedger, ValidateCorrectionTarget, BuildCorrection | the verdict is a function of the set of facts; the right fact is blamed | `LedgerReplay`, `LedgerReplayCheck` |
| Transaction history (`application/history.go`) | a cursor in the client's hands | List, Get | pages neither repeat nor drop a fact that was there throughout | `HistoryPages`, `HistoryPagesProofs` |
| Portfolio (`internal/portfolio`) | owner, name, status, times | Create, List, Get, Rename, Archive | unique active names; rows that can be read back; true answers; owners apart | `Portfolios`, `PortfoliosProofs`; archival against commands in `TransactionLedger` |
| Platform outbox (`internal/platform/outbox`, `queries/platform/outbox.sql`) | event rows with state, claim token, lease, attempt count; stream counters | Append, ClaimDue, MarkPublished, Reschedule, MarkDeadLetter | one live claim; settled rows final; order per stream | `OutboxDelivery`, `StopAndWait`, `OutboxDeliveryProofs` |
| Delivery worker (`internal/platform/worker`) | the batch in its hands | Run, RunOnce, deliver, retryCap | bounded invocations; every event settled; no overflow | `OutboxDelivery`, `RetryBackoff`, `OutboxDeliveryProofs` |
| Consumer deduplication (`queries/platform/consumer_dedup.sql`) | markers | RecordIfNew | one effect per event | in `OutboxDelivery` |
| Worker heartbeat (`cmd/worker`) | none | RunWithDelivery | stops when told to | the shutdown in `OutboxDelivery` |
| Refresh sessions (`internal/identity`) | generations of token families | Refresh, Logout, sweep | one usable generation per family; a replay or a logout ends what it saw; evidence matches rows | `RefreshSessions`, `RefreshRotation`, `SingleUseTokens`, `RefreshRotationProofs` |
| Registration and login (`internal/identity`) | users, first sessions | Register, Login, rehash | one owner per email; a rehash never undoes a change; evidence matches sessions | `Accounts`, `AccountsProofs` |
| Authentication rate limiter (`infrastructure/ratelimit`) | events per key | Check, Reset, CleanupExpired | never more than the limit in a window; Retry-After is enough | `RollingWindow`, `RateLimiter`, `RateLimiterProofs` |
| Tokens, keys, password hashing, network attestation | a key ring read at start | issue, verify, hash | cryptographic or parsing correctness | as far as `Accounts` and `BrowserSession` need it |
| Audit writers | append-only rows | Append | one record per thing that happened | in the modules of what is audited |
| Asset catalog | read-only rows | Search, Lookup | – | a constant of `TransactionLedger` |
| HTTP transport | none between requests | decode, encode, cookies | answers say what happened | refusals, cursors, cookies and codes in the modules of the operations |
| Composition, configuration, logging | connection pool | wire, start, stop | – | not modelled |
| Web session provider and coordinator (`apps/web/.../features/auth`) | session status, shared refresh promise, Web Lock, signals | bootstrap, refresh, login, logout, runAuthenticated | tabs do not replay each other's tokens; every transition ends | `BrowserSession`, `WebProofs` |
| Web command attempts (`features/transaction/model`) | the key of the current attempt | keyFor, clear | one entry is recorded once; what was recorded is recognised | `CommandAttempts`, `WebProofs` |
| Web pages, API contracts and generated clients, scripts, infrastructure, documents | – | – | – | not modelled |

**Interactions.** The web provider sends the cookie and the access token; the
HTTP transport calls the application services. Login and registration ask the
limiter before they work and open the first session of a family in the
transaction that records their success; refresh asks the limiter in a second
transaction while it holds its rows. A financial command share-locks the
portfolio row, asks the catalog for the asset, takes a transaction-scoped
advisory lock for its key, locks the sequence row, and writes its rows, its
audits and its outbox event in one database transaction; the audit of a
rejection is written after the rollback. Archival is one UPDATE of the portfolio
row. The history reads the facts that commands commit. The delivery worker
shares only the outbox table with the API, the receiver only event identifiers
with the worker. `cmd/worker` does not start publication yet (ADR-023), and
nothing composed calls the limiter's or the sessions' sweep; their models are of
code that is complete and tested but not activated.

The compositions that are modelled as such: `TransactionLedger` with archival;
`HistoryPages` over `SerialLedger`, which `TransactionLedger` implements, so a
reader of the history meets every ledger that the commands can make and no
other; `Accounts` over the same `RollingWindow` as `RateLimiter`; `BrowserSession`
over a service whose steps are those of `SingleUseTokens` (`ServiceIsSingleUse`), which
`RefreshRotation` implements, so both sides meet at one promise; `CommandAttempts` over a service that treats keys
as the ledger does.

**What is hard.** `PROJECT.json` lists the hazards at their lines: validation
against rows read before another commit; locks taken in stages; keys retried
concurrently, reused or expired; failure between the statements of one
transaction, or after its commit; archival in the middle of a command; leases that
lapse during a batch; crashes between delivery and acknowledgement; one UPDATE
over rows that others hold; decisions as of a clock that was read before a wait;
second reads that classify; pages over a ledger that grows; tabs that share one
cookie.

## Modules in order

Read `LedgerReplay`, `TransactionLedger` and `SerialLedger` first, then
`OutboxDelivery`, `RefreshSessions` and `RefreshRotation`; the others stand alone.
`MC*` modules give TLC its instances. `*Proofs` modules hold theorems and change
nothing. Each definition that translates code is mapped to its lines in
`PROJECT.json`.

What a later extension would add: the key ring's rotation in stages; the
connection pool.

## The ledger

### State and actions

`TransactionLedger` models one portfolio; all keys, locks, sequences and streams
are partitioned by portfolio. An *attempt* is one request. Committed rows are
`facts`, `corrections`, `idempotency`, `nextSequence`, `archived`, `outbox` and
`audits`; row and advisory locks are `shares`, `keyHolder` and `seqHolder`; what
an attempt wrote and has not committed is `pending`.

`execute` (service.go:61-230) is cut where a transaction can wait for another or
see what another committed:

| Action | Code |
|---|---|
| `Start` | ownership and status read FOR SHARE, checks that need no lock (service.go:61-89) |
| `LockKey` | `pg_advisory_xact_lock` on portfolio, scope and key (service.go:90-92) |
| `Lookup` | idempotency row, conflict, replay, archived, asset, deletion of the expired row (service.go:93-120) |
| `Allocate` | the UPSERT of the sequence row (service.go:121-124) |
| `Write` | correction target, candidate facts, replay, all inserts (service.go:125-207) |
| `Commit` | writes visible, locks released (transactor.go:43-48) |
| `AuditRejection` | the audit after the rollback (service.go:209-230) |
| `Abort` | lost connection, failed statement, cancelled context or crash, at any point |
| `ArchivePortfolio` | one UPDATE, waits for share locks (portfolio service.go:105-125) |

The statements between two cuts read only rows that the attempt's locks keep
still, so their grouping hides no interleaving: after `Allocate` the sequence
row's lock excludes every other writer of facts, and the key's advisory lock
every other reader of its row. Archival can run between any two actions that
hold no share lock.

A fact keeps its asset, quantity, kind, effective and creation time, sequence,
identity and links. Unit prices, fees, amounts, currency and texts are left out:
the replay copies and compares them. Commands enumerated are those that pass
`normalize`; `CommandShape` is its guarantee.

`LedgerReplay` states ReplayLedger's verdict as a predicate of the set of facts
(an overdrawn fact exists; the first one is or is not a later existing fact)
and as the code's left-to-right scan (`ScanLedger`) over the ledger in replay order
(`InReplayOrder`: each fact at the place that the number of earlier ones gives, which
is what `sort.Slice` computes when no two facts share time and sequence).
`ScanDecides` says that the two agree and whose fault a refusal is;
`LedgerReplayCheck` states it of the ledger that was reached and of the ledgers and
candidates that can be built from `Samples` of assets, quantities and instants, broken
ones included (`ScanIsReplay`).

`SerialLedger` is the promise: one command at a time, each validated against the
*whole* ledger, in sequence order, until archived. `Serializable` shows that the
concurrent commands, which validate only the assets they touch and read at
READ COMMITTED, implement it, under the mapping in which an outbox event
announces the facts of its attempt.

### Runs

| Run | Question | Instance | Why enough |
|---|---|---|---|
| `ledger_keys` | keys, replays, evidence, the inductive invariant; do requests end | 3 attempts over one reused key, a correction under a second key and every rejection of the checks; a clock of 3 ticks, retention 1 | first use, concurrent retry, use after expiry; each of the three locks contended by all |
| `ledger_corrections` | positions, sequences, correction groups and their arithmetic, serial equivalence, archival, the scan | 4 attempts over a buy, a sell, a deposit and three corrections; the scan over every ledger of at most 2 existing and 2 candidate facts over 2 assets, 2 instants, 2 quantities | a correction of a replacement, or two of one fact, beside a dependent sell: 4 attempts; a wrong verdict of the scan needs a fact before, the candidate and one after it |

Bounds: `Attempts`, `Commands`, `MaxClock` (the clock) and `Retention`. Attempts
are interchangeable and no property of `ledger_corrections` names one, so it is
reduced by their permutations; `ledger_keys` checks liveness and uses no
symmetry. Deadlock is not checked because a finite set of attempts comes to
rest; `RequestsFinish` says that it comes to rest only with every request ended.

Fairness of `FairSpec`: weak fairness of each attempt's next stretch. PostgreSQL
grants a free lock to a waiter and the request's goroutine goes on; nothing is
assumed of clients, archival, the clock or `Abort`.

### What is proved

`TransactionLedgerProofs` proves, for any sets of attempts, commands and assets
and any retention, from the named assumptions of `TransactionLedger`
(commands are normalised, model values differ, clocks are naturals):

* `LedgerInvariance`: `Spec => []LedgerInvariant`;
* `TypeCorrectness`, `NeverOversold`, `SequencesGapFree`, `KeysTakeEffectOnce`,
  `ReplaysAreFaithful`, `EvidenceIsComplete`, `CorrectionsAreGroups`,
  `CorrectionsLeaveNoTrace`, `LedgerAlwaysReplays`, `ScansAreReplays`,
  `LocksEndWithAttempts`: eleven invariants as its consequences;
* `CommandsNeverDeadlock`: among any attempts one waits for none of the others
  (`NoWaitCycle`). The holder of a key is past its own key lock, so it can wait only for
  the sequence, and the sequence's holder waits for nobody. This is the half of
  `RequestsFinish` that the prover reaches; that whoever can go on does is the fairness;
* `ArchivedIsFrozen`: the action property `NothingAfterArchive`;
* `CommandsAreSerializable`: the refinement of `SerialLedger`. A commit is a step
  of the serial ledger because what the request validated over the assets it
  touches, before others could commit, is what the whole ledger says then
  (`PendingValid`), and a stutter when it writes no facts.

None of the properties is inductive. `LedgerInvariant` adds what an attempt
holds and knows in each phase:

* `LocksHeld`: the phase owns the locks the earlier phases took, hence at most
  one attempt is past `Allocate` and at most one per key is past `LockKey`;
* `LocksReleased`: the converse, no lock outlives the phases that need it;
* `PendingWrites`: what is uncommitted in each phase;
* `ArchivalSeen`: an attempt that goes on read an active portfolio that is still
  active, as archival waits for its share lock;
* `PendingSequences`: pending facts take the next numbers;
* `PendingValid`: the whole ledger *with* the pending facts is not overdrawn. This
  is the lemma `PartialReplaySuffices`: a fact of an asset no candidate names
  keeps its rows, so the replay of the touched assets decides the whole ledger;
* `RowsCoverFacts`: facts of a key are no younger than its row, so an expired
  row means that they are a retention old;
* `RowsAreAnswers`: a row is the digest, key and answer of a successful attempt,
  and equal digests and keys are equal requests (`RequestIdentity`; it needs the
  digest to be injective, as SHA-256 of a JSON object with fixed fields is taken
  to be);
* `PendingEvidence`: what is about to be committed is one event and the audits of
  the outcome, and nothing of an attempt is on record before it ends;
* `FactsDistinct`, `PendingGroups`: facts differ by identity, and what is about
  to be committed is one plain fact or the group of a fact that nobody has
  corrected (its sequence lock keeps it so).

Each conjunct has a step lemma over the actions; `NextCases` splits the
next-state relation once for all of them. TLC checks `LedgerInvariant` in
`ledger_keys`.

Two theorems speak of data of any size. The provers cannot apply an induction
theorem that takes a predicate, so the inductions are over *sets*: a set of naturals
that holds 0 and is closed under + 1 holds them all (`UpFromZero`), and among the
subsets of a finite set that have a property there is a smallest one
(`MinimalSubset`). Both follow from the well-foundedness of < on the naturals.

* `CorrectionsLeaveNoTrace` (`CorrectionsCancel`). The library's sum over a set is a
  recursive function by CHOOSE; that such a function exists is shown by growing
  partial ones (`SumsExist`), that it does not matter which element it takes first by
  exchanging two of them (`SumsTakeAny`). Then a set in which every fact of one part
  has a partner that cancels it adds nothing (`PairsCancel`), and correction groups
  pair each corrected fact with its reversal at the same instant.
* `ScanComputesReplay`: for *every* finite ledger, broken ones included, the code's
  scan over the sorted facts returns the verdict of the rules (`ScanDecides`). The
  places of the replay order are a bijection (`ReplayOrder`), the library's fold is the last of its
  partial results, and after k facts the running balances are the sums over those k and no one
  of them is overdrawn (`ScanVerdict`). `ScansAreReplays` is its application: the committed
  ledger is finite and so is every ledger built from samples, whatever the samples are.

Only model-checked: `RequestsFinish` (liveness).

## The outbox

### State and actions

`OutboxDelivery` has producers, workers and a receiver. `outbox` holds the rows,
`worker` each worker's place in `RunOnce`/`deliver` with its batch and token,
`calls` the publisher calls not yet received, `applied` the receiver's committed
effects. A call survives its caller: a worker that gave up, crashed or was
reclaimed can still have its event received later, or never.

| Action | Code |
|---|---|
| `AppendEvent` | AppendPlatformOutboxEvent: next position under the stream's row lock |
| `BeginCycle`, `ClaimDue`, `FinishBatch` | RunOnce: time read, claim statement, loop end (delivery.go:116-148) |
| `SkipExpired`, `StartPublish`, `PutAway` | an item whose lease is over, one that is called, a recovery claim that is dead-lettered without a call (delivery.go:138-161) |
| `PublishSucceeds`, `PublishFails` | return of Publish and the verdict (delivery.go:161-188) |
| `Settle` | MarkPublished, Reschedule or MarkDeadLetter with the claim token |
| `Receive` | the receiver's transaction with RecordIfNew |
| `Shutdown`, `Stop` | a cancelled context and the points that notice it |
| `Crash`, `Restart`, `Tick` | process death (or a failed statement, which ends the runner), restart, time |

Worker clocks differ by `Skew`, the producer's by `ProducerSkew`. The jitter is
any delay up to `RetryCap`, the function of `RetryBackoff`. Two simultaneous
claim statements are serialised; SKIP LOCKED is modelled for rows that an
acknowledgement may be holding. `BatchSize` claims are delivered in any order.

`StopAndWait` is what a receiver is promised of a stream: the next event takes
effect only after the previous one is confirmed, each at most once, none after an
abandoned one. `StopAndWaitChannel` is the refinement: confirmed counts
PUBLISHED rows, a stream is abandoned when it has a DEAD_LETTER row.

### Runs

| Run | Question | Instance | Why enough |
|---|---|---|---|
| `outbox_claims` | bounds on calls, recovery, live claims, accepted times, the counter at its limit, the backoff | 2 workers with clocks 1 apart, 1 event, 2 invocations, counter limit 4, 4 disruptions; the backoff for every configuration of a 5-bit word | enough lapses to pass the invocation limit and to reach the counter's; the comparison with half the maximum is exercised at every value |
| `outbox_channel` | order and single effect; is every event settled | 2 workers, a stream of 2 events, 2 invocations, 1 disruption, under fairness | a stale worker, its successor and a late call over an event with a successor |
| `outbox_early_dead_letter` | ADR-022's sentence on rescheduling (violated, below) | 1 worker, 1 event, 2 invocations | – |

`ClaimsBounded` is the type invariant with the table's CHECK, `InvocationBound`
and `RecoveryNeverRetries`. Bounds: `MaxPosition` (events), `MaxDisruptions`
(crashes, shutdowns and ticks during a delivery), `MaxAttemptCount` (the column's
largest value, 2^31-1 in the schema). Time advances only while something is
scheduled for later. Deadlock is not checked: when all events are settled the
system may be at rest. The runs claim batches of one event; batches over several
streams have been left out for their size, so a claim that is overtaken *inside*
a batch is met only as a claim that lapses before its call. The proofs below are for
any batch size.

Fairness of `FairSpec`: a running worker goes on (its loop is a goroutine, a
publisher call ends at its deadline), time passes, and a stopped worker is
started again. The last is an assumption on the operator: the process exits on a
delivery error and the repository leaves its restart to the orchestrator. The
receiver is *not* assumed to receive. `EventuallySettled` therefore allows a dead
letter.

### Finding

`outbox_early_dead_letter`. ADR-022 (lines 43-45) says that retryable failures
after invocations 1 through 9 are rescheduled and the failure after invocation
10 dead-letters the event. `deliver` (delivery.go:177) compares
`AttemptCount`, which counts claims. A claim that is lost before the call, by a
crash or because an earlier item of the batch used up the lease
(delivery.go:140), uses up one attempt without an invocation, so the event can be
dead-lettered after fewer invocations, even after its first, and then blocks its
stream. The bound from above (`InvocationBound`) does hold.

### Proofs

`OutboxDeliveryProofs` proves five of the properties for any workers, streams,
batch sizes, clocks, limits and crashes: `ClaimsBounded`
(`DeliveryClaimsBounded`), `OneLiveDelivery` (`DeliveryOneLive`),
`PublishStampAccepted` (`DeliveryStampAccepted`), `CapIsFormula`
(`BackoffIsFormula`) and the refinement `StopAndWaitChannel`
(`StreamsStopAndWait`). None is inductive. The invariant
says what a worker that holds a claim, in time or too late, can know of the row it
was taken from (`Knows`): its number is at most the row's count; while it equals
the count the row is still the worker's, with its token and lease; once it is
smaller, the lease is over before the row's lease ends or the row is due. Two
workers with claims of one event therefore hold them one after the other
(`Apart`), which is `OneLiveDelivery`. The calls of an event are counted by the
claim numbers that no worker's batch still waits to deliver (`Used`), and those
are at most `MaxDeliveryInvocations`.

The refinement rests on `InOrder`: in a stream the PUBLISHED rows come first, then
at most one that has begun or is a dead letter, then rows nobody has touched
(`RowsInOrder`); every call under way and every effect is of an event that has
begun (`InTouch`), so a late call of an old event finds its effect applied or is
the next in turn (`EffectsInOrder`). The lemmas on counting relate the mapping,
which counts rows, to positions.

`RetryCapDoubles` is about `retryCap` alone, on words of any width: it starts at the
base, doubles until it meets the maximum and never leaves what lies between them. The
loop's values turn by turn are a function (`CapTurns`); that it exists, and that loops
of different lengths agree, are inductions made with sets of numbers (`CountedUp`).
`BackoffIsFormula` adds the closed form, for every configuration of a word of any
width: the power of two is a second recursive function (`Doubled`), and turn by turn
the loop holds the smaller of it and the maximum; once the maximum is met, doubling can
only stay above it.

Only model-checked: `EventuallySettled` (liveness).

## Refresh sessions

`RefreshSessions` is one generation of a token family: the domain's constructor
(`refresh_session.go`), the checks of the row mapper and of the table, the
successor a rotation plans. `RefreshRotation` runs requests against the rows.

| Action | Code |
|---|---|
| `Begin`, `RejectUnknown` | Refresh and Logout up to the transaction; `now` is read here |
| `LockByDigest` | `FindByTokenDigestForUpdate`, which waits for the row's holder |
| `Replay`, `RejectExpired`, `RejectDisabled`, `CheckRefreshLimit` | the decisions of Refresh; the limiter is a transaction of its own |
| `Rotate` | PlanReplacement, MarkReplaced, InsertReplacement, the success audit |
| `RevokeFamily`, `RevokeRow`, `FamilyRevoked` | the family UPDATE: its snapshot, each row it reaches (it may wait and look again), its end and the evidence |
| `RejectLogout`, `RevokeOnLogout` | Logout |
| `Commit`, `Rollback`, `Fail`, `BreakDeadlock` | commit; errors; a failed statement; PostgreSQL's deadlock victim |
| `CreateInitial`, `MarkExpired`, `DisableUser`, `Tick` | login elsewhere, the sweep, an operator, time |

`draft[r]` is what the transaction of `r` holds, locked or changed; `rows` is what
is committed. So READ COMMITTED is what the model does: a statement sees
`rows` and its own `draft`, and an UPDATE that waited sees the row its holder left
but not rows inserted after its snapshot. Digests are the identity of a
generation; networks and user agents are left out. `Skew` lets each host's
clock lag.

`SingleUseTokens` is the promise: a login issues one token of a new family, a
live token is exchanged once for the next, a revocation ends tokens of one family
for good. A revocation need not reach every token of the family: the code's UPDATE
does not see a generation whose insertion commits after its snapshot. That this is
harmless in the order of locks the code has is `LogoutIsFinal` for logouts, which
lock the live generation first; a *replay* locks an old generation, and a rotation
that commits during its UPDATE leaves a usable generation behind. So
`ReplayRevokesWhatItSaw` says what the code does, and no more.

| Run | Question | Instance | Why enough |
|---|---|---|---|
| `refresh_rotation` | are families sound, do replays and logouts end what they saw, does evidence match, is it single-use tokens, is everyone answered | one family, 3 requests, idle lifetime 1, absolute 2, 1 tick, hosts 1 apart, faults, sweep, disabling | a rotation, a replay of what it exchanged and a rotation or logout in the middle of that; two replays of different generations that deadlock |

Families do not share rows or locks, so one suffices for TLC; the theorems take
any number. Fairness: weak fairness of each request's next step — a host does
not abandon a request, and PostgreSQL breaks deadlocks. `Commit` has no separate
failing outcome: a lost answer after a commit is the caller's view only, and no
property speaks of what a caller with a lost answer believes.

Proved, for any families, requests, lifetimes and skews (`RefreshRotationProofs`):
`FamiliesStaySound` (`FamiliesSound`: types, rows readable, one chain per family, no
family outlives its login, the unique index never refuses) and
`TokensAreSingleUse` (the refinement `ImplementsSingleUseTokens`, step by step),
`ReplaysRevokeFamilies`, `LogoutsAreFinal` and `EvidenceIsExact`. The
inductive invariant says, beside types: held rows are held by one transaction
(`LocksExclusive`); what each phase of a transaction may have in its draft — an
untouched copy of the presented row, revoked copies of family members, or a pair of
replaced row and successor (`Transaction`); each row's place in its family
(`Placed`); `ChainIntact`. The step that needs most is a rotation's commit: the
presented row was active and locked when it was decided, so no other generation of
the family is active in `rows`. A second invariant over it, `OnRecord`, says what
is recorded of each request in each phase and what that implies of the rows: what
a replay's statement saw and has not reached yet, and that the generation a logout
locked was the only one that could be rotated. Through the refinement the rows then
have what single-use tokens promise: of a family one token at most can be exchanged
(`FamiliesHaveOneToken`), and what is spent stays spent (`SpentTokensStaySpent`).

`OnlyRevocationsDeadlock` is about the waiting itself. A request that has yet to lock
its generation holds nothing, and one that rotates, rejects or commits waits for
nobody; so in any circle of waiting requests there is a circle of family UPDATEs, each
waiting for a row of its own family. It says that `BreakDeadlock` leaves no circle out,
and of the code that refreshes that rotate never deadlock with anything.

Only model-checked: `EveryRequestAnswered` (liveness).

## Registration and login

`Accounts` has one action per database transaction or piece of work between two:
`Arrive` and `RejectInvalid`; `CheckRateLimit` for the network's, then the
email's policy; `HashPassword`; `Register`, `RejectDuplicate`,
`RegistrationFails`; `Find`, `Verify`, `ResetLoginEmailFailures`,
`BestEffortRehash`, `CreateLoginSession`, `LoginFails` (operations.go, 47-182 and
381-433); `DisableUser` and `Tick`. A hash is the password, whether its parameters
are current and who computed it. A user that cannot be read is verified against
the dummy hash and fails like an unknown one. A transaction may fail before
its commit, or commit and have its answer lost.

| Run | Question | Instance | Why enough |
|---|---|---|---|
| `accounts` | who owns an account, is every session on record, does a rehash undo another | 3 requests over 1 email, 2 passwords, limits of 2 in a window of 1 tick, faults, an account with an old hash or none | two registrations and a login, or two logins that rehash beside an operator, and the limit reached by the third |

Proved, for any emails, networks, keys, policies and requests (`AccountsProofs`):
`AccountsHaveOneOwner`, `SessionsHaveEvidence`, `UpgradesStay`, from the invariant
`TypeOK /\ \A r : Informed(r) /\ Accountable(r)`: what a request read is a user
that exists, and what is recorded, opened and answered for it fits its step.
Nothing about this component is only model-checked.

A login checks the account's status once and creates its session later without
looking again (operations.go:132), so a disabled account can get a session; its first
refresh ends it. That is a hazard in `PROJECT.json` without a property.

## The rate limiter

`RollingWindow` is what one check does to the events of a key (`postgres.go`):
delete what is expired as of the request's `now`, count, insert or deny with
Retry-After. `RateLimiter` runs requests against it: `Arrive` reads the host's
clock, `Check`, `Reset` and `Unavailable` decide later under the key's advisory
lock, in one transaction each, which serialises them; `CleanupExpired` is the
sweep, without the lock. `Lag` bounds how old a `now` can be when it is decided.

`LimitHolds` says that a key never stores more events than its limit, and that no
more requests are admitted in real time within `Window - Lag`. The second
cannot be had for the whole window: a decision as of an old time deletes events
that a later one would count. `RetryAfterHonest` says that a check as of a time
at or after the one promised is admitted unless another was admitted first.

| Run | Question | Instance | Why enough |
|---|---|---|---|
| `rate_window` | is the limit kept, is Retry-After enough | 4 checks or resets of one key, limit 2, window 3, 6 instants, lag 1, sweep, failures | two admissions, a denial and one more around a window's end whose `now` is older than the previous |

Both are proved for any keys, policies, requests and lag
(`RateLimiterProofs`: `LimitIsKept`, `RetriesAreAdmitted`). The invariant adds that
events are finite and timely, and that an admission's event is stored while it is
recent in its epoch (`Remembered`); `AdmissionsBounded` is then an injection of
near admissions into stored events. The counter-example for the whole window is what
the constant `Lag` is for.

## Portfolios

`Portfolios` has the five requests as their SQL statements (`portfolios.sql`): an
INSERT or UPDATE with its CHECKs and the partial unique index on the folded
name, `RETURNING` read back by the domain constructor, and for a rename or
an archive that changed no row the second read that says why
(service.go:85-130). Statements fail before they do anything, or their outcome is
lost. Hosts' clocks lag, and the UPDATE does not compare its time with the row's.

| Run | Question | Instance | Why enough |
|---|---|---|---|
| `portfolios` | are stored rows readable, names apart, owners apart, answers true | 2 portfolios, 2 owners, names `a`, `A`, `b`, 2 requests, 3 instants, lag 1, faults | a second request between the two reads of the first; two names that differ in case; a host behind the creation |

`PortfoliosProofs` proves `StoredIsReadable`, `NamesDiffer`, `OwnersApart`,
`ArchivedStays`, `AnswersHaveCauses` and the types for any portfolios, owners,
names, requests and lags, with and without failures. For `AnswersHaveCauses` the
invariant says what the first statement of a request found (`Causes`), and a lemma
says how far other requests can move a row meanwhile (`RowMoved`). Nothing about
this component is only model-checked.
`updated_at` can go backwards (a rename by a lagging host); nothing in the code
says it may not, and the rows stay readable.

## History

`HistoryPages` is one client's walk over the pages of a portfolio, or its
reading of one fact, over `SerialLedger`, whose steps are committed commands.
`List` reads the page with one fact more than it holds (history.go,
`transactions.sql`), `Relate` reads each fact's direct correction in a later
statement of the same READ COMMITTED transaction, `Respond` hands out a cursor,
`Fail` loses a page, `Forge` sends a cursor that was not given, `RejectInput`
refuses it.

| Run | Question | Instance | Why enough |
|---|---|---|---|
| `history_pages` | is a walk exact, does a reversal name its original | ledgers of up to 5 facts at 2 times, pages of 2, four filters | three pages with facts recorded before, between and behind them, and a correction between the statements of one page |

Both are proved for any page limit, filters, facts and number of facts
(`HistoryPagesProofs`: `WalksAreExact`, `ReversalsAreExplained`). ORDER BY is `Descending`:
each fact at the place that the number of facts before it gives, so that what a
page takes is the first of what is behind the cursor (by counting, without an induction
over sequences). Neither property is inductive. `IInv` adds, beside types and
phases:

* `LedgerSound`: what `SerialLedger` keeps of the facts a reader needs: they are
  numbered, and a reversal has an original before it, of the same time, which has a
  replacement too;
* `Boundary`, `PageInOrder`: what is shown is not behind the cursor, a page is, and
  descends;
* `Remaining`, `PageTakesFirst`: what was there when the walk began is shown or
  behind the cursor, and what the page leaves out is behind its last fact and known
  by `more`;
* `RelatedAfterRead`: a fact that the second statement found uncorrected is cancelled
  by nothing that was read before. It is here that the order of the two statements
  counts: the reversal and the correction are committed together, so a reversal that
  was read has its correction when the second statement looks.

The proofs need one assumption on the constants beyond the types: the mark of
"no fact" is not an identity (`NoFact \notin Nat` in `PageAssumption`), as NULL is
not. TLC evaluates it in `history_pages`.

## The browser

`BrowserSession` is the tabs of one browser (`auth-session-provider.tsx`,
`auth-browser-coordinator.ts`), the cookie they share and the service. A request
is queued for the Web Lock, sent with the cookie of that moment, handled,
received (Set-Cookie) and settled; a tab bootstraps, logs in and out, runs
authenticated calls with their one retry, and hears the endings of other tabs. The
service handles a request in one step, or fails before or after it did, or the
network loses the request or the response.

| Run | Question | Instance | Why enough |
|---|---|---|---|
| `web_session` | do tabs replay each other's tokens, are retries with another token, does everything end, is the service single-use tokens | 2 tabs, 2 users, 5 clicks, Web Locks, failures and losses, under fairness | two loads, a login, and two of refresh, logout and login beside each other |

Fairness: requests are answered or fail (fetch does not hang for ever), and a tab
goes on with what it was told. `TabsNeverReplay` holds until a response is lost:
after that the browser keeps an exchanged token, and its next refresh is taken
for a replay. Both histories are variables of the model (`lost`, `replayed`).

`WebProofs` proves `SessionsSound` for any number of tabs, users and clicks where
the browser has Web Locks (`BrowserSessionsSound`); two of its parts hold without
them too (`BrowserTypeCorrectness`, `RetriesUseAnotherToken`). The invariant has two
layers. `Base` holds with and without locks: shapes; what a request carries by where
it is (`Calls`); the token that a response brings is in no memory of its tab yet
(`News`), which is why a retry has another one; whoever may still be issued a token
is counted against the clicks (`Budget`); a transition is in the queue once while it
lasts and goes out in its turn (`Turns`). `Shared` needs the lock: the token of a
login on its way is nobody else's (`Private`), and until a response is lost the
cookie, or the response that is about to replace it, can be used, and so can what a
refresh carries and what a response brings (`InGoodHands`). Logins race the lock, so
`InGoodHands` alone is not inductive: a logout could end the family of a login whose
response is under way, which `Private` excludes.

`BrowserMeetsSingleUseTokens` proves, with and without locks, that the service which the
tabs talk to refines `SingleUseTokens`: a login it handles is an `Issue` of a family
named by its first token, a refresh an `Exchange`, a replay or a logout a `Revoke`, and
everything else, a lost response included, a stutter. `RefreshRotation` refines the same
module (`TokensAreSingleUse`), so what the browser is verified against is the promise
that the rows keep. The browser's service is the stricter of the two: it ends all of a
family at once.

Only model-checked: `TransitionsEnd` (liveness).

`CommandAttempts` is the entry and the correction form with the keys they draw
(`command-attempt.ts`, `correction-attempt.ts`): a key is drawn for a command, kept
while its outcome is unknown and dropped when it is accepted. Requests arrive late
or never; the service is its ledger by keys.

| Run | Question | Instance | Why enough |
|---|---|---|---|
| `command_attempts` | is an entry recorded once, is what was recorded recognised | 3 spellings of 2 commands, 3 submissions, 2 forms mounted one after the other | a lost response, an edit and a second confirmation while the first request is still under way, and a form left in the middle |

`WebProofs` proves both for any spellings, commands and bounds
(`RecordedOnce`, `RecordedAreRecognised`), with the types, `KeysMeanCommands` and
`AcceptedFactsAreNew`. The invariant relates every fact to the request that made it
and every key to one intent (`OneKeyOneIntent`, `FactsOfRequests`).

## What is proved, and from what

| Module | Theorems | Inductive invariant |
|---|---|---|
| `TransactionLedgerProofs` | `LedgerInvariance`, `TypeCorrectness`, `NeverOversold`, `SequencesGapFree`, `KeysTakeEffectOnce`, `ReplaysAreFaithful`, `EvidenceIsComplete`, `CorrectionsAreGroups`, `LedgerAlwaysReplays`, `CorrectionsLeaveNoTrace`, `ScanComputesReplay`, `ScansAreReplays`, `LocksEndWithAttempts`, `CommandsNeverDeadlock`, `ArchivedIsFrozen`, `CommandsAreSerializable` | `LedgerInvariant` |
| `RefreshRotationProofs` | `FamiliesStaySound`, `TokensAreSingleUse`, `ReplaysRevokeFamilies`, `LogoutsAreFinal`, `EvidenceIsExact`, `FamiliesHaveOneToken`, `SpentTokensStaySpent`, `OnlyRevocationsDeadlock` | `Inv`: locks, drafts by phase, places, chain; `OnRecord`; `TokensInv` |
| `OutboxDeliveryProofs` | `DeliveryClaimsBounded`, `DeliveryOneLive`, `DeliveryStampAccepted`, `StreamsStopAndWait`, `RetryCapDoubles`, `BackoffIsFormula` | types, `Sane`, `Knows`, `Apart`, `RowSound`, the count of `Used` claims; `InOrder`; `CapTurns` |
| `AccountsProofs` | `AccountsHaveOneOwner`, `SessionsHaveEvidence`, `UpgradesStay` | types, `Informed`, `Accountable` |
| `RateLimiterProofs` | `LimitIsKept`, `RetriesAreAdmitted` | types, finiteness, `Timely`, `Remembered`, `StoredBound`, `RoomAsPromised` |
| `PortfoliosProofs` | `TypeCorrectness`, `StoredIsReadable`, `NamesDiffer`, `OwnersApart`, `ArchivedStays`, `AnswersHaveCauses` | `Stored`, `Answers`, `Causes` |
| `HistoryPagesProofs` | `WalksAreExact`, `ReversalsAreExplained` | `IInv`: `LedgerSound`, `Boundary`, `PageInOrder`, `Remaining`, `PageTakesFirst`, `RelatedAfterRead` |
| `WebProofs`, the forms | `TypeCorrectness`, `KeysMeanCommands`, `RecordedOnce`, `AcceptedFactsAreNew`, `RecordedAreRecognised` | `Types`, `OneKeyOneIntent`, `FactsOfRequests` |
| `WebProofs`, the session | `BrowserSessionsSound`, `BrowserTypeCorrectness`, `RetriesUseAnotherToken`, `BrowserMeetsSingleUseTokens` | `Base`: `Calls`, `Tabs`, `News`, `Budget`, `Turns`; `Shared`: `Private`, `InGoodHands` |

Assumptions are the named ones of the modules' constants (among them, for
`DeliveryOneLive`, that some two worker clocks differ most), and that the browser has
Web Locks in `BrowserSessionsSound`. The proofs are hierarchical, one step per action; a
constant bound (`MaxClock`, `Submissions`, `MaxAttemptCount`) is a parameter of the
theorem too.

Every invariant, every action property and every refinement that a passing run checks
is a theorem. Liveness under fairness and `ENABLED` are out of the prover's reach:
`RequestsFinish`, `EventuallySettled`, `EveryRequestAnswered` and `TransitionsEnd` are
model-checked. Of the first and the third, the safety half, who can wait for whom,
is proved (`CommandsNeverDeadlock`, `OnlyRevocationsDeadlock`). Where a proof needs an
induction over facts, sums, positions or turns, it is made with sets of numbers and
minimal subsets, as the ledger's section says, because the library's induction theorems
take a predicate.

## What the models show of the code that no document claims

These are consequences of the code that the models reach. None contradicts
a statement of the repository, so none is listed as a finding:

* A replay's revocation can leave one usable generation: one whose rotation
  commits after the UPDATE took its snapshot.
* A refresh or a logout on a host whose clock is behind the creation of a
  generation violates the table's CHECK on the time of revocation; the request fails
  and the family stays as it was.
* A rate limit can be exceeded within a full window by as much as the clocks and
  waits of hosts differ.
* A login can open a session for an account that was disabled meanwhile.
* A portfolio's `updated_at` can go backwards.
* A bootstrap that awaits the profile overwrites a logout that the tab heard
  meanwhile; the tab shows a session until its next call is refused.
* A refresh or a logout that the service cannot answer clears the cookie, and a
  logout is confirmed to the user also when the service failed.
* A refresh of one tab during a login of another can return with the other
  user's cookie, as the login is not under the lock.
* ClaimDue takes streams in the order of their ids, so enough busy streams with
  small ids keep the others waiting.

## Not modelled, and why

* Errors of input format, decimal scales and limits: rejected before any state is
  read.
* The batched deletion of expired idempotency rows, `DeleteInactiveBefore`,
  `FindByID` and `ListFamily` of sessions: no caller outside tests.
* The asset catalog: read-only; its paging is the history's with another order.
* Signing keys and their rotation in stages: an operator's procedure over files
  that a process reads once; the code keeps no state that changes.
* Token signing, password hashing, key derivation, network attestation: functions.
* The connection pool: requests have the connections they need. Refreshes hold one
  while they take a second for the limiter, so as many of them as connections wait
  for one another until a timeout; a hazard without a property.
* A clock that goes backwards or differs between API hosts in the ledger: one
  monotone clock. The outbox, sessions, limiter and portfolios have clocks apart.
* Browsers without Web Locks or BroadcastChannel.
* Starvation of streams: it needs unbounded appends.
* Configuration, logging, composition, rendering, routing, contracts, generated
  clients, scripts, infrastructure: wiring and I/O.

## Mutants

Each property of a passing run is broken by at least one small change of the
model that a plausible bug would make (`PROJECT.json`, `mutants`): the sequence
row read without a lock, a key looked up without its lock, a digest without the
quantity, an acknowledgement that ignores the token, a rotation that leaves the
presented generation active, evidence that rolls back with a rejection, a hash
replaced whatever it is by now, a window compared with the wrong time, a cursor
that compares times only, a request that does not wait for the Web Lock, and so
on. Their definitions stand before the ones they replace and are used by
nothing else.

## Running

    tlc -config ledger_keys.cfg MCTransactionLedger.tla
    tlc -config refresh_rotation.cfg RefreshRotation.tla
    tlapm RefreshRotationProofs.tla

`PROJECT.json` names the module and configuration of every run. The longest run
takes about two minutes with two workers, the longest proof (`TransactionLedgerProofs`, from nothing) about five.
