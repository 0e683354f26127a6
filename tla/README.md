# The election system, specified

TLA+ specifications, model checks and machine-checked proofs of the election
system in this repository: a web server over two PostgreSQL databases where a
voter may vote again until the voting ends, every vote is kept encrypted in an
envelope that says whose it is, and closing the election moves the votes to an
urn and erases the link between voter and vote, once and for all.

Paths below are those of the repository (`src/...`).

## 1. The system

### Databases, processes and what they share

| where | what | written by |
|---|---|---|
| voters database: `election` (phase, closes_at, envelope_root, urn_root, mode) | the mirrored election and how far it has come | creation, closing, tally, certification, reset |
| voters database: `pending_vote` | the envelopes, one per voter and ballot (unique index) | casting, closing |
| voters database: `voted_marker` | who voted, after the closing | closing |
| voters database: `audit_event` | a hash chain of events | closing, tally, certification, reset, sign-in |
| voters database: sessions, voters | who is signed in | the login |
| votes database: `encrypted_vote` | the urn | closing, reset |
| votes database: `partial_decryption`, `ballot_tally` | the trustees' contributions and the counters | tally, reset |
| votes database: election, ballots, options, trustees' shares | what the election is about and its key | creation |
| memory of a server process | signing orders, verification queue, admission queue, rate limits, final check jobs | the routes |
| the browser | the votes the device remembers | the vote page |

The two databases share no transaction. Several server processes and several
calls in each may run at once. A call is an async function: every `await` is a
point where another call may run, and what stands between two of them runs alone.

### Components

**Casting** (`modules/eligibility/pending-vote.service.ts`, `app/api/vote/sign-start`,
`app/api/vote/encrypted`). State: `pending_vote`. sign-start asks if votes are
accepted and reads the next sequence number, which the voter signs.
`castEncryptedBallot` asks again, compares the signed number with the lying one,
verifies proofs and signature for seconds, and writes in a transaction that holds
the election row FOR SHARE and asks all of it again. Hard: two devices with one
number, a cast in flight when the voting ends, two first votes, one order polled
twice. Correct when: the row is always the newest envelope its voter was told is
recorded, and nothing is recorded after the close.

**Closing** (`orchestration/close-election.usecase.ts`,
`validate-before-close.usecase.ts`). State: phase, roots, markers, urn, and an advisory
lock on a connection of its own. It ends the voting, reads the envelopes once,
validates them, makes the urn hold exactly those, and in one transaction writes
STRIPPED, both roots, the markers and the audit post and deletes the envelopes.
Hard: two databases, a lock that can be lost while the closing runs on, crashes
anywhere, statements that fail halfway, a commit whose outcome nobody hears, writes
past the application, and an answer that must not claim more than it knows.
Correct when: no vote is lost, added or doubled; the link is erased only together
with the roots; what is answered is true.

**Tally** (`orchestration/tally.usecase.ts`). State: contributions, counters, phase.
A transaction in the votes database with one in the voters database inside it; the
last ballot to be counted moves the phase to TALLIED. Hard: the window between the two
commits, ballots completed at the same time, the same contribution twice. Correct when:
counters are written once, from the urn the root speaks of, and every row has its post.

**Final check and certification** (`final-check.usecase.ts`, `final-check-job.ts`).
Reads everything and certifies, refuses, or marks the election as under review. Hard:
the reads are not one snapshot. Correct when: nothing is found in a correct election
that is tallied, and what was altered is not certified.

**Audit chain** (`audit.service.ts`). Entries with numbers and hashes, appended in a
transaction of their own or in that of the change. Correct when: it verifies whatever
was appended at once, and an entry lives and dies with its change.

**Signing orders** (`lib/order-state.ts` with the voting page). Orders in memory, with
limits and a lifetime. Correct when: an order is cast at most once, what the page says is
true, and none outlives the voting.

**Verification queue, admission queue** (`lib/crypto/server.ts`, `lib/admission-queue.ts`).
Counters of what runs and waits, which callers leave by an answer, an abort or an error.
Correct when: the limits hold, no place leaks, and whoever was promised a place has it.

**Devices** (`app/vote/device-vote.ts`, `phase-watch.ts`): what tabs of one browser
remember of a vote, compare, show and forget. **Login** (`app/api/auth`): order,
admission, sessions. **Creation and reset** of the demo election over two databases.
**Publication** and the reader's own tool. **Rate limits**. **BankID** (a client with
deadlines and retries, certificate chains, the signed document). **Cryptography** (pure
functions). **Server mode**. **Participation, push, pages, infrastructure.**

## 2. The modules

| module | what it is for | extends |
|---|---|---|
| `Envelopes` | the values both databases speak of | |
| `EnvelopeCasting` | casting and its transaction | `Envelopes` |
| `ElectionPromise` | the abstract election | |
| `ElectionClosing` | casting and closing composed, over two databases, with faults | `EnvelopeCasting`; refines `ElectionPromise` |
| `CountingPromise` | the abstract count | |
| `Tally` | contributions, nested commits, the phase of several ballots | refines `CountingPromise` |
| `FinalCheck` | certifications over a tally that runs | `Tally` |
| `VerificationQueue` | reservations, turns, aborts | |
| `SigningOrders` | from the signature to the vote, through the queue | `VerificationQueue` |
| `AdmissionQueue`, `Login` | the hashing of personal numbers; identification and sessions | `Login` extends the queue |
| `AuditChain` | appends at once, posts inside transactions | |
| `DemoElection` | creation and reset over two databases, the final check's job | |
| `DeviceVotes` | tabs that share a storage | |
| `RateLimit` | buckets, refilling, eviction | |
| `PrimeGroup`, `BallotProofs`, `ThresholdKey`, `Exponentiation` | the cryptography over small groups | |
| `UrnTree` | the root over the urn | |
| `CertificateChain`, `SignatureDocument`, `BankIdOrders` | BankID | |
| `Evidence` | a chain, a document and a root over the urn, and what all three must show | `CertificateChain`, `SignatureDocument`, `UrnTree` |
| `EnvelopeValidation` | the validation before the close, row by row | |
| `BallotOptions` | three readers that must list the options alike | |
| `PublicationTool`, `Publication` | the published document and the tool that checks it | `PublicationTool` extends `ThresholdKey` |
| `CountedSums` | what a count is made of: the key, the tool and the options | `PublicationTool`, `BallotOptions` |
| `ServerMode` | servers with configurations of their own over one database | |
| `WaitingLines` | lemmas about lines, for the proofs | |
| `GroupArithmetic` | lemmas about powers, the group, products over lists and interpolation, for the proofs | `PrimeGroup` |
| `ElectionClosing_proofs`, `FinalCheck_proofs`, `CountedSums_proofs` | theorems of the module they are named for, with those of what it extends | |
| `SigningOrders_proofs` | theorems of the verification queue, the orders and BankID's calls | |
| `Application_proofs` | theorems of `RateLimit`, `AuditChain`, `DemoElection`, `DeviceVotes`, `ServerMode`, `EnvelopeValidation`, `Publication`, `AdmissionQueue` and `Login` | |
| `Verification_proofs` | theorems of `Evidence`, `Exponentiation` and `BallotProofs` | |
| `MC*` | values for TLC, and several modules side by side | |

The modules were written in the order of this table, the two-database protocols first, and the
plan is carried out: every safety invariant and every action property of a passing run is a
theorem. What is left to TLC is liveness (section 7), and what is left out are the parts of the
application that are listed there as not modelled.

No module that is proved about reaches a RECURSIVE operator.

## 3. The modules and the code

### Envelopes

A *slot* is a voter on a ballot, the unique index of `pending_vote`; the id of a
row is abstracted by its slot. An *envelope* is the signed sequence number, the
ciphertext (for its hash) and whether its signature and proofs hold. A hash or
a Merkle root is the value it is taken over: two roots are equal exactly when
what they are taken over is (`UrnTree` is where the tree itself is looked at).
`WithUrnIds` is `urnIdFor` and `withUrnIds`: the id of a row in the urn is derived from
ballot, ciphertext and a copy number, so an id is that triple.

### EnvelopeCasting

| action | code |
|---|---|
| `SignStart` | sign-start: the window, `nextCastSequence`, what is signed |
| `PollAgain` | a second poll of an order that is still held, while the first casts it |
| `CastCheck` | `castEncryptedBallot` to the end of its checks |
| `GiveUp` | the visitor's abort, or a failure, before the write |
| `CastLockRow` | `SELECT ... FOR SHARE` and the window asked under it |
| `CastWrite` | `updateMany` where the number is lower, else the lying row, else on to create |
| `CastCreate` | `create`; P2002 rolls back and repeats the transaction once |
| `VotingEnds` | the clock passes `closes_at` |
| `EndVoting` | the closing's UPDATE OPEN to CLOSED, which waits for FOR SHARE |

`receipts` is a history variable: the newest envelope per slot that a voter was
told is recorded.

The checks before the transaction are several reads; they are one step here.
Whatever they read may be old by the time of the write, in the code and in the
model, because `CastLockRow` and `CastWrite` come later and ask again. A server of
another mode than the election answers `wrong_mode` and writes nothing, which is
a stutter here (`ServerMode` has it).

### ElectionPromise

What a voter and an administrator may rely on, with one database and no faults:
a vote is recorded while the election is open and replaces only an older one;
`Clear` erases all links and fixes what is counted in one step; an answer is true
when it is told.

### ElectionClosing

One action per statement or per transaction, in the order of `closeUnderLock`
and `prepareClose`; `at[c]` names the step the closing `c` is at.

| step | action | code |
|---|---|---|
| idle | `Open` | `withClosingLock`, `pg_try_advisory_xact_lock` |
| opened | `CloseVoting` | OPEN to CLOSED where `closes_at <= now` |
| started, early | `ReadStart` | the first read of the state, `too_early`, `already_closed` |
| read | `ReadEnvelopes` | `readEnvelopes`, `validateEnvelopes`, `firstUnverifiableEnvelope` |
| validated, mayRemove, mayStrip | `AskLock` | `lockStillHeldOrSettle` |
| cas | `CasValidated` | CLOSED or VALIDATED to VALIDATED |
| find | `FindDeviations` | `findUrnDeviations` |
| remove, recheck, rephase | `RemoveFromUrn`, `RecheckLock`, `RecheckPhase` | `removeFromUrn`, `storedAsValidated` |
| insert, compare | `InsertIntoUrn`, `CompareUrn` | `createMany` with `skipDuplicates`, `urnMismatch` |
| strip, commit | `Strip`, `CommitStrip`, `CommitFails` | the callback of `withClosingLock.strip`, COMMIT |
| confirm | `Confirm` | `confirmStripped` |
| abort, finding | `VerdictRead`, `VerdictAsk` | `verdictWithoutDeletion`, `reportFinding`, `verdictFor` |

Faults: `LoseLock` (the lock's session ends on the server and the closing runs
on), `Crash` (the process ends), `StatementFails` and `UrnWriteFails` (a failed
statement did nothing; the batches to the urn may be done in part), and the lost
acknowledgement inside `CommitStrip`. A question to the lock that fails is answered
no, which is the behaviour of `LoseLock`; should the server still hold the lock,
it only keeps others out. Outside writes: somebody with access to one database
changes an envelope, a row in the urn, or the phase.

What is merged, and why it is sound:
- The statements of the stripping are one step `Strip` and its effects appear in
  `CommitStrip`. They are in one transaction that holds the election row, and the
  rows it deleted and updated stay locked until it ends, so no other statement
  can tell. What an outside write may still change meanwhile is a row the
  transaction did not touch (`OutsideEnvelope`).
- The batches in which the envelopes and the urn are read count as one read each.
  Without outside writes no envelope changes after CLOSED. Of the urn, the
  comparison is what decides, and it is asked for by each closing on its own.
- The first read of the state is two statements in the code; the lock is held at
  that point unless it was lost, and then the later questions to it answer no.

### CountingPromise

One database and no faults: a ballot is counted once, after the link is erased and
when enough trustees have contributed, and the phase is TALLIED when all are counted.
A contribution may come late: that is what the code does (section 5).

### Tally

One action per statement or per transaction. A call is a contribution of one
trustee to one ballot (`submitPartialDecryption`, and `submitComputedPartialDecryption`, whose
share is unlocked elsewhere), or a count of one ballot (`completeTally`).

| a contribution is at | action | code |
|---|---|---|
| gate | `Gate` | `tallyGate` |
| before | `HasContributed` | the trustee's rows are looked for |
| sum, root | `SumOfUrn`, `RootOfContribution` | the ballot's rows are read and summed; `requireUrnRoot` |
| unlock | `UnlockShare` | the passphrase, the partial decryption and its proof |
| store | `StoreContribution` | `createMany`, against the unique index |
| post, latePost | `PostContribution` | the audit post, in a transaction of the other database |
| commit | `CommitContribution` | the outer COMMIT |

| a count is at | action | code |
|---|---|---|
| countGate | `Gate` | `tallyGate` |
| stored | `StoredTally` | the counters that are there already |
| read | `StoredContributions` | the contributions, and if they are enough |
| countSum, count | `SumOfUrn`, `CountFromContributions` | the root, each proof, `combine`, `discreteLog` |
| save | `SaveTally` | the advisory lock of the ballot, and the counters asked under it |
| countPost, lateCountPost | `PostTally` | the audit post |
| countCommit | `CommitTally` | the outer COMMIT |
| settle | `SettleReads` | `settleElectionPhase`, one ballot at a time |
| stamp, cas | `StampCompletion`, `CasTallied` | `tally_completed_at`; STRIPPED to TALLIED with its post |

The data is reduced to what the properties tell apart. A ballot's rows are "moved"
(those the closing moved), "other", or "disguised": other rows stored under the hashes
of those that were moved, which the root check does not see in ballots other than the
one it sums. A sum, a contribution and a ballot's counters are named by the rows they
are of. `rooted` says that both roots are written and no envelope is left. The stripping
is one step here; that it is one, and what the urn then holds, is what
`ElectionClosing` shows.

Faults: `CallFails` (a statement fails or the process dies; what is not committed is
gone), `TransactionTimesOut` (the outer transaction is rolled back while the inner one
waits for the audit table, and the post is written all the same), `AcknowledgementLost`.

What is merged, and why it is sound:
- The reads of the gate are one step. Phase and roots are one row, and no envelope
  returns once the link is erased.
- The root check reads the other ballots' rows after this ballot's, in one step. The
  urn never changes after the stripping but by an outside write, and the theorems
  speak of this ballot's rows, which are summed in the read that is checked.
- The inner transactions take an advisory lock and a table lock before they write, so
  that each is one step of the voters database.
- `settleElectionPhase` reads the ballots in an order of its own; the model allows any.

### FinalCheck

A certification `k` goes through `phase`, `urn`, `partials`, `tallies`, `status`: the
statements of `runFinalCheck` in their order, the urn one ballot at a time. `Report`
evaluates the checks over what was read and does as `certifyElection`: `write` is
`writeCertified`, and after a compare-and-set that failed the whole check is run
`again`; `mark` and `markPost` are the two writes of `markUnderReview`. What is CRITICAL
whatever the phase, and what is so only once the election is counted, is as in the
code (`UrnContradicts`, `PartialsContradict`, `TallyContradicts`).

While the phase is VALIDATED the closing fills the urn, and a read of a ballot's rows
finds them all or not. `altered` is a history field: which ballots' rows, contributions
and counters were not the application's when the check began, and whenever it read
something since. That the audit chain is intact is taken as given, which leaves the
module more often to certify than the code would.

### VerificationQueue, SigningOrders

`stage[c]` is where a caller of the queue is, `held` the reservations. `Reserve` is
`reserveVerification`, `Enter` and `ComesAborted` the entry to `verifyInQueue`, `Finish`
the end of a verification, which calls the first in line, and `Leave` and `Abort` the
ways out without an answer. Each is one synchronous block.

`SigningOrders` joins the page, BankID, the order store and the polls of one process. A
visitor of the queue is one call of the route.

| action | code |
|---|---|
| `SignStart`, `PutOrder` | sign-start: the number that is signed; `putOrder` with both limits |
| `AtBankId` | the voter signs, or BankID lets the order go |
| `Poll` | the page asks; `peekOrder`, and the reservation before BankID's answer is used up |
| `ServerStep`, `CollectLost` | the answer of `collect`, `takeOrder`, the queue, the cast |
| `LoseConnection`, `ConnectionClosed`, `LeavePage` | a lost answer, the server noticing it, a voter who leaves |
| `Validate` | a validation before the close, which does not reserve |
| `Expire`, `SweepTimer` | three minutes pass; the store's own timer |
| `EndVoting`, `ForgetOrders` | the closing, and `forgetOrdersIfNoLongerOpen` |

The store is a line of orders in the order of insertion, as a `Map` is. What is thrown out
of it by limits, replacement, answers, time and the closing is all said with `Kept`.
The cast is its outcome here; `EnvelopeCasting` has the steps of it. The renewal of the QR code
(`startQrRefresh` in `BankIdSigning.tsx`) is left out: it takes no message back and leaves
a poll in flight alone.

### AdmissionQueue, Login

`runAdmitted` takes a place, a place in line, or refuses. A task that ends hands its place
to the first in line in the same block. `Login` is the page's timer and its polls over it:
`Start`, `Poll`, `Cancel`, `AtBankId`, and the statements of the collect route for one
call (`CallStep`): the answer that uses the order up, the hashing through the queue, the
voter's row, the sessions that are deleted and the one that is made. `deleteMany` and
`create` are two statements, as in the code. A login with another device has the QR timer as
well: `AskQr` asks for the next picture, and `QrExpired` is the answer that there is none, which
BankID's client also gives once a poll has used the order up. The page then says that the code
went out, whatever poll is under way. `UsedIsAnswered` says what remains: of an identification
that went through the page never hears that it failed, and when its call has answered, a page
that spoke too early is corrected; only a refusal may be covered by a later answer about the
code. Other tasks of the queue are hashings of the
administrators' login and of the casting.

### AuditChain

A writer takes the election's row first if it writes in its caller's transaction, then the
table, reads the last entry, inserts and commits; an error rolls everything back, and is
swallowed only where the transaction is the writer's own. Tampering (a removed entry, a
changed field, recomputed hashes) is by somebody with write access to the table. A hash is
the tuple of what it is taken over; that an entry without a root is hashed over one
field less is kept.

### DemoElection

`CreateStep` and `CompensateFails`: creation writes the votes database, then the mirror,
and takes back what it wrote if the second fails. `ResetStep` is `resetDemoElection` under
the closing's lock, one transaction a step. The closings beside it go step by step from
`AskClosing` to `StripEnvelopes`, drawn more coarsely than in `ElectionClosing` but with each
question whether the lock is still held (`StillHeld`, `StillValidated`) at its place. `LoseLock`
takes the lock from a closing or a reset that runs on, and `lockless` keeps who that was: the
reset never asks, and a closing's insert is not preceded by a question, so `OpenUrnIsEmpty` is
stated where nobody has run on without the lock. Casting and counting stand beside it
by what they leave and the gate they hold. `StartFinalCheck` and `FinalCheckEnds`
are `final-check-job.ts`: a report belongs to the election that the check began on.

### DeviceVotes

Two tabs, one storage, the voter's envelope, and perhaps another device. `Load` with the
answers it waits for is the page from its start: the session, the comparison of the post
with the server, the public list when there is no session. `AskPhase` is the watch every
half minute. `PollSigning` with its answers is the signing; an answer may come after the tab
has seen the voting end. `since` and `cast` are history: what the server held since the
question was put.

### RateLimit

A bucket is counted in tokens times the window, so that nothing is divided. `CheckRateLimit`
refills, takes or refuses, posts `RATE_LIMITED` at the first refusal, and evicts
over `MAX_TRACKED_KEYS` by the caller's own rule, as the code does.

### The cryptography

`PrimeGroup` is `modpow.ts`, `group.ts` and `elgamal.ts` for any safe prime with the same
residue modulo 4. `BallotProofs` builds a ballot one option at a time as the page does and
verifies it as the server does, with the hash as an oracle that answers the same
transcript the same. Beside it stands a ciphertext with commitments anybody may have
chosen: who could answer two challenges for it knows what the proof claims, and what is
accepted by a guessed challenge is marked `byChance`. `ThresholdKey` is the splitting, the
contributions with their proofs, and `combine` with Lagrange coefficients. A loop over the
points is a function of how far it has come (`MultipliedMod`), in which a point that the
code skips counts as 1.
`PublicationTool` is the second implementation of that arithmetic in
`tools/verify-election.mjs`, set beside the first over the same values. `Exponentiation`
has the three ways to a power (square and multiply, tables for fixed bases, OpenSSL with its
refusal of certain values and the fallback), over every exponent of a small group. `UrnTree`
is the Merkle tree with its sorted leaves, its odd last node and the count in the root;
two urns grow side by side, and have one root exactly when they hold the same rows.

### BankID

`BankIdOrders`: calls with their deadlines, the connection that is tried again, maintenance,
and orders that are started, collected, cancelled and forgotten. `CertificateChain`: chains
put together one certificate at a time, with flaws, and the checks in the code's order.
`SignatureDocument`: a document of which parts were exchanged, and which references, digests
and parts are asked for before anything is read out of it. Bytes are not modelled.

### EnvelopeValidation

Rows cast by voters in the three formats that exist, columns changed afterwards, and
`Judge`: one row at a time by its checks in their order, with the search for older counters
and its common budget. The report is merged with the last row that is judged. That
configuration is missing is looked at only for rows nobody changed.

### BallotOptions, Publication, ServerMode

`BallotOptions` compares the three places where a ballot's options are put in order. `Sorted` is
JavaScript's `sort`, which leaves options of the same place as they stood; the database's `orderBy`
promises nothing of those, so `OrderBy` sorts the rows in any one order. `Publication` is
`publishedResults` read by read over two databases while the election goes on, is reset, or is
written to, and the reader's tool over a document that was changed on its way. Sums, contributions
and shares are each of a key, the election's own or one somebody else made, and `OpensTo` asks only
that contributions and sum are of one: the tool verifies against the key that is published.
`RemadeDocument` is a document made anew from key to counts; it passes, as the tool's own text says
of what it cannot check, and `AlteredIsFound` is for a reader who has saved the key while voting
went on. `ServerMode` has servers that are started and stopped with configurations of their own, and
what each may do with an election that another one created.

### MC modules

Parts that share no state are explored side by side in one run: `part` says which one a behaviour is
of, and the variables of the others stand still, where they begin or at `Off`. No step of a part
reads another's variables, so this is the same as a run for each. Modules that are proved about are
extended and not instantiated, so that run and theorem speak of one definition (`answers` alone
instantiates some of them, for the properties no theorem states); their variables stand at their
initial values in the other parts.

## 4. What the runs check

| run | instance | properties |
|---|---|---|
| `closing` | 2 slots on one ballot, one ciphertext, 2 numbers, 1 call, 2 closings, 2 faults | `UrnIsTheReceipts` `ClosingIsSafe` `KeepsThePromise` `ClosingRecovers` `EveryClosingAnswers` |
| `outside` | 1 slot, 2 ciphertexts, 1 number, 1 call, 2 closings, 1 fault, 1 outside write | `ErasedIsWhatWasMoved` `AnswersAreTrue` `RemovalIsAlarmed` |
| `tally` | 2 ballots, 2 trustees of whom both are needed, 2 calls, 1 fault | `EveryRowIsPosted` `TallyIsSettled` `KeepsThePromise` `TallyRecovers` |
| `count_and_check` | three elections, see below, 1 certification; threshold, options | `FindsNothingOnceTallied` `FalsifiedIsNotCertified` `OnlyTheMovedSumIsOpened` `CountersAreTheMovedVotes` `SumsAreTheVotes` |
| `application` | casting, login, audit, demo, checks, device, rate, publication, mode, validation | `RowIsTheReceipt` `NothingCastAfterTheClose` `LoginHolds` `AuditHolds` `DemoHolds` `DeviceHolds` `RateHolds` `PublicationHolds` `ModeHolds` `ValidationHolds` |
| `verification` | ballot, powers, tree, chain, document, bankid, queue, signing | `OrdersHold` `QueueHolds` `EvidenceHolds` `ProofsHold` `PowersAgree` `BankHolds` `RefusedOnlyForValidators` |
| `answers` | signing, login, audit, device, check, under fairness | `AnswersCome` `EveryWriterEnds` `EndedIsForgotten` `OrdersGo` `CertifiedOnce` |

Five runs are expected to find a violation; section 5 says of what: `late_contribution`
(`NoContributionOnceTallied`), `too_early` (`TooEarlyIsHarmless`), `marked`
(`MarkedIsNotCertified`), `lost` (`FailedIsAlwaysTrue`), `midnight` (`RecordedIsNotBad`).

**closing.** Two closings are enough: a lost lock lets a second one in, and a third would do
to the second what the second does to the first. Two faults let each closing fail once,
or one lose its lock and then crash. Two slots with one ciphertext are the smallest
instance where copies matter. `KeepsThePromise` is the refinement of `ElectionPromise`, with
`linked` the slots in `pending_vote`, `counted` the urn from the moment the root is written,
and `told` the answers.

**outside.** What must survive somebody writing to a database. `RemovalIsAlarmed` starts at
the step after the removal: a removal that fails after its lock was lost, while somebody
has also written to the urn, settles like any other failure and may answer
`already_closed`, which is true of the link and says nothing of the urn. `UrnIsTheReceipts`
and `ClosingIsSafe` are conditional on `outside = 0`: with write access to the database a
vote can of course be removed, and what remains then is the final check against the roots.

**tally.** Two ballots are the smallest election whose phase is settled by whoever counts
last, and two calls the smallest race on it, on one contribution, or on one ballot's
counters. A call that has ended may begin again, so the calls in flight are bounded and
their number over time is not. One fault is one post too many. The run takes the
specification without writes past the application; `count_and_check` has those.

**count_and_check.** *late*: 1 ballot, 3 trustees of whom 2 are needed, 2 calls: a certification
against a contribution of one who is not needed. *together*: 1 ballot, 2 trustees, both needed, 1
call, 2 outside writes: two of them can agree with each other. *ballots*: 2 ballots, 1 trustee, 1
call, 1 outside write: what is altered on a ballot that was read already. `FindsNothingOnceTallied`
is about a check that read the phase TALLIED: the phase is read first, so what it reads later is not
older. `FalsifiedIsNotCertified` is stated with `altered`: what is altered after the check has read
it is of course certified. Beside the elections stand *threshold*: the group modulo 11, the smallest
with room for 3 trustees, of whom 2 are needed, up to 2 votes, one value of the hash; and *options*:
2 parties, 2 candidates or 2 answers on 2 places. They are here and not in `verification` because
that run has a group of its own size.

**application.** *casting*: 3 calls on one slot (other slots share only the phase), of which two
race for the index or with equal numbers, and the third makes the retried transaction meet a changed
row; 2 ciphertexts, 2 numbers. *login*: 3 logins from 2 pages by 2 voters, one of them with a QR
code, two polls and another hashing, 1 place and 1 in line. *audit*: 3 writers, 2 of them in a
transaction of their caller, 2 alterations. *demo*: 1 envelope, 1 reset, 2 closings, 2 counts, 1
check; *checks*: the same election neither closed nor counted, with 2 resets and 2 checks. *device*:
2 tabs, 3 votes, one of them from another device. *rate*: 2 keys with limits 2 and 1 in windows of 3
and 2, 1 tracked key, time to 5. *publication*: 2 ballots, 3 trustees of whom 2 are needed, one
place written outside, one alteration of the document, one reset and no new vote within a request,
one reader. *mode*: 2 servers, one act at a time, the root file not replaced while a server runs.
*validation*: 2 voters, 2 ballots, 2 envelopes, 1 changed column, 2 days, a search of 1 and a budget
of 1. One fault (`MaxFaults`, `MaxFailures`, `MaxMishaps`) or one lost answer (`MaxLost`) in each of
them.

**verification.** *ballot*: the group modulo 7, 2 options. *powers*: modulo 7, windows of 2 bits.
*tree*: 2 ballots, 2 ciphertexts, up to 3 rows, the smallest odd level that is not a leaf alone.
*chain*: 3 roots, days 1 to 3, 1 flaw. *document*: 2 persons, 2 signatures, 1 part exchanged.
*bankid*: 1 order, 2 calls, a limit of 1 for an attempt and for a connection and of 2 for the call,
time to 4. *queue*: 3 visitors, 1 validator, 1 running, 1 waiting. *signing*: 2 orders of one
session, 2 in the store, 1 fault.

**answers.** 1 order and 1 visitor; 2 logins over 1 place; 3 writers; 2 tabs with 2 votes; 1 ballot, 1
trustee, 2 certifications. Liveness graphs are held in memory, which is what keeps them small.

Symmetry is used only where no property is temporal and the members are interchangeable in
every constant: calls of one kind in `application`, `verification` and `count_and_check`, and
ballots or trustees in the latter. Deadlock is not checked: after a close, with every call
answered, nothing is left to do.

Bounds: `MaxSequence` on signed numbers, `MaxFaults`, `MaxFailures` and `MaxMishaps` on faults,
`MaxOutside` and `MaxTampering` on outside writes, `MaxAltered`, `MaxTime`, `MaxDay`, `MaxLost` on
lost answers, `MaxCast`, `MaxChanges`, `MaxRows`, `MaxFlaws`, `MaxParts` and `MaxSigned` on what is
put together. The audit posts are counted, but each needs a row that is not there or a fault.

### Fairness

Weak fairness of each call's own steps (`CastStep`, `CloserStep`, `CallStep`, `ServerStep`, the
steps of a certification): an async function that has begun is run by the event loop to its
end, and a statement that waits for a row lock is given it, since every transaction that
holds one ends. BankID's answer is bounded by the client's time limit, and timers fire. The
writers of the audit chain have strong fairness: two of them wait for the same table, and
PostgreSQL gives a lock that is free again and again to who waits for it. Devices: questions
are answered, a page that is shown asks again, and the voter comes back some time. Nobody
is obliged to vote, to sign, to begin a closing, to contribute, to count or to
certify, and faults never have to happen. `ClosingRecovers` asks for a closing that holds its
lock after the last fault, `TallyRecovers` for a count that begins after it; `EveryClosingAnswers`
holds with faults at any time.

### Flawed definitions

Operators marked *Flawed* in the modules are plausible bugs in the code they stand next to (a
missing FOR SHARE, a comparison that lets an equal number pass, a deletion by id alone, a limit
that is off by one). Each property is violated under its own run when one of them takes the
place of the real one; for bundles of several parts the other flawed operators break the
other parts.

## 5. Where the code and its comments disagree

With a run that shows it:

**`late_contribution`.** `tallyGate` is commented as the reason an election that is TALLIED takes
no more contributions. It is asked once, before the urn is read and the phrase unlocked;
meanwhile other trustees may have contributed and the election been counted, and the
contribution is stored. The counters are not affected and the final check accepts it.

**`too_early`.** `refuse` is commented to let an administrator who presses too early off without a
mark. A check that begins while the closing or the tally runs may read one contribution and
then the counters that two gave, or an urn that was not filled and then contributions to the
full one. Both are CRITICAL whatever the phase, and the election is marked UNDER_REVIEW, which
the application cannot undo. From TALLIED on it cannot happen: `FindsNothingOnceTallied`.

**`marked`.** The mark is commented to stop the certification. It is read with the report, in
the other database than the phase is compared in, so that a certification that read the
status before another one marked the election writes CERTIFIED over it.

**`lost`.** The page promises that every message about a failed signing is true. If the answer of
the poll that cast the vote is lost, the next poll finds no order, and the page says that the
vote was not cast.

**`midnight`.** The certificates are verified on the day of the cast, and the row is dated by a
later reading of the clock. A vote accepted just before midnight with a certificate that ends
with the day is dated a day when it is not valid, and stops the closing.

Met while modelling, without a run of their own (paths under `src/src/`):

- A login that stands in line has already used BankID's order up
  (`app/api/auth/bankid/collect/route.ts`); a full queue then costs the identification, and the
  administrators' login answers it with 500.
- `createVotingSession` deletes and creates without a transaction: two logins of one voter at once
  leave two sessions. `createAdminSession` has the same shape.
- `destroyVotingSession` and `purgeExpiredSessions` have no caller, though a comment says when
  sessions are deleted.
- `evictRefilledBuckets` applies the calling rule to the buckets of every scope, and nothing
  caps the number of buckets that are not refilled.
- On the login page the late answer of a cancelled login stops the timers of the next one, and so
  does a late answer about its QR code.
- The QR timer of the login page clears the order and says 'QR-koden gick ut' when no picture comes
  (`BankIdLogin.tsx` 216-237), also while the poll that used the order up is still hashing: the voter
  is told to begin again until that poll's answer lets her in, and a refusal may stay covered.
  `BankIdSigning.tsx` 269-280 asks first whether a poll is under way.
- `verifyAuditChain` does not find that the last entries were cut off. `IntactIsWritten`
  says what it does find.
- An `AdmissionQueueFull` inside `castEncryptedBallot` is answered with 500, and the order is gone.
- Creation that crashes between the databases leaves half an election; the reset of the demo election
  holds only the closing's lock, so that counts run beside it.
- That reset never asks whether it still holds the lock (`reset-demo-election.usecase.ts` 85,
  94-123), and a closing asks before it removes and before it strips, but not before it inserts.
  After a lost lock an insert may land in the urn of an election that was set back to OPEN, or a
  reset may open an election over an urn that another closing has filled, although the lock is there
  so that the two do not run at once (`close-election.usecase.ts` 570-580).
- On the device an answer `recorded` that arrives after the voting has ended puts the post back,
  and a tab that removes an old post may remove one that another tab has just written.
- `ballot_option` has no unique index over its place.
- An answer to `sign` or `auth` that is lost leaves an order at BankID that the server does not know.
- `turnoutByBallot` asks for the phase and then counts in a later query.
- Casting, sign-start and the comparison ask for the mode of the row in the voters database only.
- `publishedResults` reads the shares anew for each contribution: a share that is exchanged and
  put back within a request is published, and only the reader's tool refuses it.

## 6. What is proved

With TLAPS, for any number of slots, ballots, ciphertexts, calls, closings, trustees, orders,
sessions, callers, keys and faults, and any limits. Assumptions on constants: `SlotsAssumption`
(finitely many slots, each on a ballot; the bound on the number is natural), `NoEnvelopeAssumption`
and `ClosersAssumption` (the null values are not values), `TallyAssumption` (finitely many ballots,
at least one, and trustees; the threshold is not 0), `QueueAssumption`, `AdmissionAssumption`
(finitely many callers or tasks, a place at least), `LoginAssumption`, `OrdersAssumption` (who an
order or a login is of; limits that are not 0), `RateAssumption` (natural limits and windows, not
0), `AuditAssumption`, `DemoAssumption`, `ModeAssumption` (the null values are no values, and the
bounds on faults are natural), `DeviceAssumption`, `BankAssumption` and `ValidationAssumption`
(bounds, times, retries and budgets are natural), `PublicationAssumption` (a ballot at least, a
threshold that is not 0, and natural counts of what was moved), `UrnTreeAssumption` (hashes have an
order, in which no two leaves are equal), `ChainAssumption` (days and limits are those of the
model), `DocumentAssumption` (nobody's key is a key one makes oneself), `GroupAssumption` (the prime
is above 3 and leaves 3 when divided by 4), `ExponentiationAssumption` (a digit at least),
`OrderAssumption`, which is what `group.ts:8` documents of the group and the code relies on: Q is a
prime and G is of order Q, `BallotAssumption` (what is drawn is below Q), `ThresholdAssumption`
(fewer trustees and votes than Q, which has 2047 bits; the threshold is not more than the trustees;
what is drawn is below Q), `ToolAssumption` (the tool tries the shares in pairs, so the threshold it
can read is at most 2, as the code's is) and `OptionAssumption` (no party and no answer has the name
of the blank vote: names are ids). That the modulus itself is a prime is nowhere needed.

**Casting.** `CastTypeCorrect`, `RowIsAlwaysTheReceipt`, `OneRetrySuffices`, `CloseStopsCasting`,
`SequenceOnlyRises`. The inductive invariant `CastIInv` adds two facts to the properties: once
the phase has left OPEN no transaction holds the election row (`NoneCastsAfterTheClose`), and
a transaction that is run a second time finds the row that was in its way, because rows are
replaced but never removed by casting (`RetryFindsTheRow`).

**Closing.** `TypeCorrect`, `ClosingAlwaysSafe`, `UrnIsAlwaysTheReceipts`,
`ErasedIsAlwaysWhatWasMoved`, `AnswersAreAlwaysTrue`, `ClosingKeepsItsPromise`. The inductive
invariant is `ClosingIsSafe` with the type invariant and that of casting:
- `PhaseTellsTheRoot`: the phase and `envelope_root` agree, and the election row is locked by
  exactly the closing that has stripped and whose session lives.
- `LinkOrUrn`: either the envelopes are all there and the urn holds some of them, or no envelope
  is there and the urn holds all of them.
- `WhatACloserKnows`: a closing past the question to the lock has read exactly the receipts, for
  good, since nothing is cast after CLOSED. This is why a closing that lost its lock later does
  no harm: whatever it still inserts is what belongs there, and it finds nothing to remove.

`UrnIsTheReceipts` counts rows per ballot and ciphertext; that as many ids are derived as there
are envelopes (`AsManyAsCarried`) is by the theorems on finite cardinalities. With writes past
the application the first two parts are lost; `ErasingInv` and `ReadTruly` keep what remains:
what a closing strips is what it read and compared, and each answer is of a state it saw. The
refinement (`MappedByThree`, `StepsThree`) takes every action to one of the promise or a stutter.

**Tally.** `TallyTypeCorrect`, `SharesOpenOnlyTheMovedSum`, `CountersCountTheMovedVotes`,
`RowsAreNeverWithoutPost`, `TallyIsAlwaysSettled`, `TallyKeepsItsPromise`.
- `WritesInv`: what a call has made sure of when it writes (`MadeSure`: past the gate the link is
  erased, past the root the sum is of the moved rows, past the proofs the count is), and that no
  two counts of one ballot are under its lock and neither finds counters there (`Locked`). It
  speaks of what calls hold, never of what the tables hold, which is why it survives any
  write to them.
- `PostedInv`: `EveryRowIsPosted`, and that whoever is about to commit has posted (`PostedBy`).
- `AloneInv` and `SettledInv` count the posts against the failures, and say who is about to move
  the phase while every ballot is counted and it has not moved.

**Final check.** `CheckTypeCorrect`, `CheckedTallyOpensTheMovedSum`, `FalsifiedIsNeverCertified`,
`NothingIsFoundOnceTallied`, `CertificationsPostOnce`. `AlteredInv` relates what a check has read
to what was altered when it read it; `SeesInv` says that what a check of a tallied election reads
is complete, whatever late calls write; `MarkIsPosted` and `CertifiedIsPosted` count posts.

**Signing orders and the verification queue.** `QueueAlwaysHolds`, `RefusedOnlyForOthers`,
`OrdersAlwaysHold`, `OrdersKeepTheQueue`. The queue's counters are cardinalities of sets of callers,
so `QueueIInv` is about those sets and the line. `OrdersIInv` adds what a call holds while it runs:
the store is a line without repetition (`StoreIsALine`), whose call waits for BankID
(`WaitsForACall`, `CallIsAwaited`), where a signature is that BankID has handed out
(`SignatureIsSomewhere`), that a recorded vote was told of while nothing is lost
(`RecordedIsTold`), and that an order is not stored before it is (`NotStoredYet`). The limits
are kept because `Kept` removes at least one whenever one is added to a full line. `Kept` is a
recursive function over the line; `KeptIsThere` and `KeptIsTheirs` say what it computes for
every line, by the least counterexample (`Smallest` in `WaitingLines`).

**Login and the admission queue.** `PlacesAreAlwaysTrue`, `NobodyEverOvertakes`, `LoginsAlwaysHold`,
`LoginsKeepTheQueue`. `LoginIInv` relates the calls to the queue's tasks, and the page's question
to the call that carries it, so that no two calls use one order up. What the page says of its QR
code may be said at any moment, and is undone by the answer of the call that has the order.

**Rate limits.** `RateAlwaysHolds`: `RateIInv` keeps a balance of tokens and time, per key.

**Audit chain.** `AuditAlwaysHolds`. Only the holder of the table has read the last entry
(`OnlyTheHolder`), and what it read is still the last when it inserts (`KnowsTheLast`): this is
what the lock on the table buys, and why it must be taken before the read. `HashesAreWritten` says
that a hash nobody recomputed is one of a written entry, so that a chain that verifies is
written as far as it goes. Every way of tampering is a case of its own.

**Demo election.** `DemoAlwaysHolds`. As long as nobody has lost the lock and run on (`lockless`),
the urn is empty between the two transactions of a reset and nobody fills it
(`EmptyBetweenTheDatabases`), because a closing that inserts holds the lock the reset holds
(`LockIsHeld`); and a closing past its first write finds the phase where it left it, or one further
(`ClosedWhileMoving`), since only a reset would open it again. `RowsOfTheCreation` says
which rows stand at each stage of the creation and of its compensation; `OneRuns` that two
checks never run at once, whichever was forgotten (`ForgottenHadBegun`).

**Devices.** `DeviceAlwaysHolds`. A page signs and waits only where it shows the ballot
(`PollsWhenReady`), and an answer `recorded` on its way counts as a vote the page has not yet heard
of (`RecordedIsSince`), so that what two tabs write into one storage never makes one of them show an
older vote as the one that counts.

**Server mode.** `ModeAlwaysHolds`. A server that was let start trusts what its mode allows
(`ServersAreBooted`, from `BootableIsBooted` over every configuration). Between the check and the
act the row that was checked is still as it was created, or the one row that a casting asks was
rewritten meanwhile (`ActIsByItsOwn`); of the two rows one at least is untouched
(`RowsSayWhoMadeIt`), which is why all acts but casting, which ask both, stay with their own.

**Validation of the envelopes.** `ValidationAlwaysHolds`. Whatever columns were changed, the
ciphertext, the signature and the sealed signature in a row are each some that a voter made
(`RowsAreOfMade`), and what was made is of its voter, ballot, ciphertext and counter (`MadeIsCast`).
Since what is signed tells all four (`ContentTells`), a signature that is not called bad leads back
to one envelope (`VerdictIsOfTheVoter`), and the proofs tie the ciphertext to the same one
(`NothingFoundIsCast`). The search takes no more than is left of the common budget
(`ProbesAreLeft`), and no honest row needs it (`UnchangedHasItsKinds`).

**Publication.** `PublicationAlwaysHolds`. `DatabasesHold` says what stands whoever writes: one
contribution of a trustee, and those made with the election's own key are of what was moved
(`OfTheMoved`), and where nobody has written, the phase tells what the envelopes, the markers and
the key are. `ReadingHolds` carries each read to the next: past the gate the root is that of the
moved votes, past the root the sum is, and a contribution whose proof was verified is of that sum
and ballot, so that a change between two reads breaks the recount off or changes nothing it has
read. `DocumentHolds` says what is `Recorded` so far, and, once the document is changed, that what
lies there as a trustee's own is still of what was moved: for the tool's checks this is enough where
the key is the election's, since a ballot passes only with contributions that are all of the
published key and of its sum. That no more rows are told than were moved (`SomeAreNotMore`) is an
induction over the sums of functions, by the least counterexample.

**BankID's calls.** `BankAlwaysHolds`. A call's state is a record whose fields bound each other
(`IsGoodCall`): BankID may have acted only on an attempt that came to a connection, such an attempt is
not repeated, and each attempt and wait ends at a time within the call's own.

**The root over the urn.** `RootIsAlwaysTheUrn`. Two tops of one length are equal only if the levels
below are (`OneLevelAbove`), down to the leaves (`TopTellsTheLeaves`); the count in the root excludes
that the lengths differ; and an ordered list of leaves is told by how often it has each of
them (`OrderedByCounts`, at the first place where two lists differ). The tree is compared as
values: that a hash is one of one value is what the model assumes of it.

**The chain of certificates.** `PathIsAlwaysValidated`. The code asks each question of the whole chain
at once, counting from the leaf; RFC 5280 walks from the root and carries what is left of the room.
`RoomOfTheChain` shows that the two count alike, `CommonDay` that the latest first day against
the earliest last day is that one day lies in all periods, and `PassedIsValidated` joins them.

**The signed document.** `ReadIsAlwaysWhatWasSigned`. `DocumentIInv` follows each part of a document
to a document that somebody signed or made with a key of her own (`ReplacedIsMade`): a signature
value tells the references, these the digests, and these the elements that are read.
`EvidenceAlwaysHolds` puts the three together.

**Powers.** `PowersAlwaysAgree`. `Repeated` is the definition: multiply as many times. That it turns
sums into products and products into powers of powers (`PowerSum`, `PowerOfPower`) is proved by
the least counterexample; so is that square and multiply gives it (`PowIsThePower`), that the
tables of windows do for every exponent they reach (`TableIsThePower`), and hence what the page
computes (`BrowserIsThePower`) and what OpenSSL's route and its fallback do (`NativeIsThePower`).

**A ballot's proofs.** `ProofsAlwaysHold`. In a group whose elements have a prime order `Q`, what an
exponent is modulo `Q` is all that matters (`OrderRest`), and no element but 1 has two powers in
common with it below `Q` (`SameRoot`). From these: what the page makes holds (`FinishedHolds` for
one option, with its simulated branch; `SumIsProved` for the sum); and who can answer two challenges
for the same commitments has encrypted a 0 or a 1 (`TwoAnswers`, by way of `BranchTwice`).
`PageIInv`, `ServerIInv` and `ClaimIInv` say what each has asked the oracle: a transcript names the
place it was made for, so that a ballot holds elsewhere only where a hash was met by chance.

**What a count is made of.** `SharesAlwaysOpenTheSum`, `SumsAreAlwaysTheVotes`. Both multiply and
interpolate in loops over lists whose order nobody fixes, so `GroupArithmetic` first shows that
sums and products modulo a number do not depend on the order, and that a power to Q - 2 is an
inverse modulo Q, since Q is a prime (Fermat, by counting residues). The argument is then
- interpolation: any list of distinct points, at least as many as the polynomial has coefficients,
  gives its value at 0 (`ValueAtZero`, `SharesMeet`), for any threshold; the coefficients
  are removed one at a time, and of each power of the points only its moment at 0 remains;
- the loops of `combine` and of the tool's `lagrange` compute just these coefficients
  (`LambdaIs`, `LagrangeIs`), and multiplying powers adds exponents, so that what is combined is
  the power of the sum's key, and the search for the logarithm finds the votes (`LogarithmIs`);
- soundness: `ThresholdIInv` (`KeyIInv`, `ContributionIInv`, `OracleIInv`, `ClaimIInv`) says what
  was asked of the oracle for which sum and trustee. A contribution holds for another sum only by a
  challenge met by chance, and two responses to one commitment give away the share
  (`TwoResponses`), so a stated value that answers two challenges is the right one.

For the options `OptionIInv` keeps that names and places are told apart. A line that is sorted by
places that differ is the only one there is (`OrderByIs`), however its rows were
read; from this the page, the server and the tool list the same options, each of them once
(`ListOnce`), and no two kinds share a name (`NamesDiffer`).

## 7. What is only model-checked, and what is not modelled

Liveness (`RemovalIsAlarmed`, `ClosingRecovers`, `EveryClosingAnswers`, `TallyRecovers`,
`AnswersCome`, `EveryWriterEnds`, `EndedIsForgotten`, `OrdersGo`, `CertifiedOnce`) and ENABLED are
out of the prover's reach, and are the only properties of the passing runs without a theorem.
Arithmetic that is proved is proved by the least counterexample and not by the library's induction
theorems, which take an operator as a parameter.

Not modelled:
- An acknowledgement of a cast's COMMIT that is lost: the voter would not learn of a vote that is
  recorded. Those of a closing and of a poll are modelled.
- Push messages: they are sent and forgotten, and write no state of the election.
- Bytes and forms: DER, XML canonicalisation, QR codes, the validation of requests, how a share is
  sealed under its phrase, and how it is stored.
- The administrators' session, which has the shape of the voter's.
- The post of a trustee's phrase that was rejected.
- The lists and figures of the overview pages, the pages about the architecture, the text of the API
  documentation and of the known limitations, the middleware's headers, layout and wording.
- Deployment, configuration beyond mode and roots, and one-off scripts.
