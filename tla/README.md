# Delego in TLA+

This directory holds a formal model of Delego: TLA+ modules, TLC configurations
that check them on small instances, and TLAPS proofs of the properties that
matter most for every instance. `PROJECT.json` lists components, runs, mutants,
findings, hazards and theorems, and maps every definition to the source lines it
stands for.

    tlc -config MCEscrow.cfg MCEscrow      # one of the runs below
    tlapm EscrowProofs.tla                 # the proofs of a module

## 1. Inventory

Delego lets a user delegate purchases to an agent. An order moves through a
workflow in the **orchestrator**; the money of the order sits in an on-chain
**escrow**; what an agent may spend is bounded on-chain by **permissions** and
off-chain by the **wallet**.

| Part | State it keeps | Operations | Correct when |
|---|---|---|---|
| Escrow contract (`contracts/escrow`) | escrow records, last id, votes, quorum, fee, limits, whitelist, admins, pause flag; balances in token contracts | deposit, release, refund, dispute, resolve_dispute, vote_dispute, resolve_dispute_quorum, set_quorum_config, the admin and settings calls, eligibility queries | every deposit is paid out once and in full; the contract can always pay what is open; a decision needs its quorum; a lost role is lost |
| Permissions contract (`contracts/permissions`) | one permission, pending decrement and metadata per (owner, delegate); grant pause | grant, grant_with_metadata, revoke, pause, resume, execute_spend, decrease_allowance, execute_decrease_allowance | spending stays in the limit in force and stops when the owner says so; limits fall only after notice |
| Delegation registry (`contracts/delegation_registry`) | delegations by id, ids by owner, next id | initialize, create, pause, resume, revoke, is_authorized | the index matches the records; authority that ended does not come back |
| Saga coordinator (`orchestrator/src/saga`) | one row per saga: status, completed steps, claimed step, lease, version | run, resume, recoverAll, advance, compensate, claimStep, save | steps are recorded in order and once; a finished saga stays finished; every saga finishes |
| Checkout saga and workflow (`orchestrator/workflows/checkout`) | context with the escrow id; a 30 minute timeout job per order | deposit-escrow, confirm-checkout, their compensations; schedule, cancel and fire the timeout | a failed checkout leaves no funds locked; the timeout touches only orders that can be cancelled |
| Purchase workflow (`orchestrator/workflows/purchase`, `src/index.ts`) | one row per order | load, applyEvent, upsert, publish; the reconciler | the order claims nothing the ledger does not hold; one that ended stays ended |
| Purchase machine (`orchestrator/state`) | state and history in memory, a snapshot outside | send, hook, fromSnapshot | the records form one path, whatever overlaps or crashes |
| Outbox, processed messages, audit (`orchestrator/src/events`, `messaging`) | outbox rows, claimed message ids | insert, checkAndMark | each message is handled once |
| Wallet queue and limits (`wallet/src/queue`, `spendLimits.ts`) | jobs, the cached sequence number, counters per period | enqueue, sign, submit, poll, retry, record | a payment is made again only when its outcome was not learned; what is applied stays in the limits but for what could not be counted; callers get their answer |
| Wallet vault (`wallet/src/vault.ts`) | a file of encrypted keys; seeds under versions of a master key | store, load, list; encrypt, rotate, decrypt | no key is lost that was stored undisturbed, and seeds stay readable through rotations |
| Wallet balances (`wallet/src/routes.ts`) | a copy per address in Redis | read, load, copy | no balance is older than a copy may be |
| Arbiter signatures (`payments/src/index.ts`) | signatures per dispute, in memory | collect, submit | a resolution is submitted by a quorum, not twice at once, and again if it failed |
| Payment routes, escrow service, fees (`payments/src`, `payments/escrow`) | the cached fee | validate, estimate, call the wallet | the calls are those the contract offers |
| Escrow events and settlement (`payments/events`, `settlement`) | processed event ids, a stream of events | process, release then publish | an event is handled once, and what is published tells caller and readers the same |
| Gateway authentication (`gateway/src/auth`) | users, refresh tokens and their families | register, login, refresh, logout | a session never forks; a family that was closed has no live token |
| Gateway delegations (`gateway/routes/delegations.ts`) | a delegation with policy and limits | create, update, revoke | each field is as the last request that named it wanted it |
| Gateway rate limits (`gateway/src/rateLimit`) | counters in Redis | count, expire, decide | no counter lets more through than its limit |
| Notifications | subscriptions, claims in Redis | subscribe, dispatch | at most one message per channel and event |
| Agents, frontend, SDK, infrastructure | none that is shared | | not modelled |

**How they interact.** The orchestrator calls payments over HTTP, payments calls
wallet over HTTP, wallet submits contract invocations to the ledger. Payments
and the orchestrator publish events over Redis, which notifications and the
workflows consume. The contracts do not call one another; an escrow calls its
token contract. Delegations exist three times: on-chain as a permission, on-chain
in the registry and in the gateway's database.

**What is hard.** On-chain code is sequential and atomic, so its hazards are
*long sequences of legal calls by different parties*: payouts along four paths,
votes that outlive the configuration they were cast under, a role that is held
twice, a limit that moves under a pending request, a deadline that is compared
in three places. Off-chain code is concurrent and crashes: two runners of a
saga, a lease that runs out under a slow step, a crash between an effect and the
record of it, a payment whose outcome was not learned and is tried again with
another sequence number, whole files and whole rows written back from a copy that
is out of date, two refreshes with one token, a claim and the work it stands for
with a failure in between.
`PROJECT.json` lists these hazards with their lines and the properties that
watch them.

## 2. Plan

The order in which the project was built: the contracts, since the money is there
(3.1 to 3.4); the saga coordinator (3.5); the wallet's queue, where payments are
made (3.6); then the stateful parts of the other services, smallest first (3.7),
and their composition `Backend` (3.8). Every module is written to be proved about
as well as checked: parameters are constants with named assumptions, one action per
operation or per stretch between two awaits, no RECURSIVE operators; the sum
of what the escrow contract owes is a recursive function.

`Custody` is the abstract specification of escrow, `Allowance` that of a permission,
`SagaPromise` that of a saga.
Worth stating next: the checkout saga over `Custody` once its deposit is accepted
(section 6). The proofs about a module are in a module beside it, those about the
modules of 3.7 in `BackendProofs`.

## 3. The modules

Common conventions. A contract invocation is atomic and an error or a panic
rolls it back, so a rejected call is no step. An address signs its own calls
(`require_auth`), so an action is quantified over the caller. `None` is an
absent `Option` or storage entry. Variables marked *observation only* record
history for a property and influence nothing. Events, order ids, labels and
creation times are left out. The *faulty variants* of some operations, which stand
before the operation or at the head of a module, are used by no specification; they
are what the mutants put in place of the real operation (section 4).

In the services a step is what happens between two awaits that somebody else can
observe; a statement of a database and a command of Redis are atomic. A call to
another service is external: it may fail before or after it took effect, and its
answer may be lost. `pc`-like variables say at which await each request is.

### 3.1 `EscrowAdmin`

The administrative half of `escrow/src/lib.rs`. `admin`, `adminList`,
`pendingAdmin`, `feeBps`, `limits`, `whitelist`, `tokenEnabled` and
`createPaused` are the instance storage entries of the same names; `adminList`
and `whitelist` are `Vec`s whose order nobody observes, hence bags. One action
per entry point, from `Initialize` to `RemoveCoAdmin`. Note that `initialize`
names whoever the first caller chooses, and that `accept_admin` leaves the former
primary with no role.

### 3.2 `Escrow`, over `EscrowAdmin`, and `Custody`

`escrows`, `lastEscrowId`, `quorum`, `votes` are the remaining storage entries;
`balance` and `ledger` stand for the token contracts and the network. `Deposit`
to `ResolveDisputeQuorum` are the entry points, with the token transfer, its
balance check and the status write in one step. `PayToSeller` and `PayToBuyer`
are the payout sequences that `release`, `refund`, `resolve_dispute` and
`resolve_dispute_quorum` each spell out. `Fee` is the computation split at 10000.
`RefundReason` and `ReleaseReason` are the two eligibility queries. `AdminNext`
interleaves with all of it, so fees, whitelist and roles move under open escrows.

`Custody` promises, per escrow: empty, then held, perhaps contested, then either
paid (held amount to seller and treasury, the treasury at most a tenth) or
returned (all of it to the buyer), and nothing after that. `ImplementsCustody`
is the refinement; the mapping reads the phase off the status and the amounts
off `paid`.

`Total(Owed(t))` is the sum of the open escrows in token `t`, and `Solvency`
compares it with what the contract holds. The contract itself is no buyer (`Self`
is not in `Buyers`): `deposit` begins with `buyer.require_auth()`, and the contract
never calls itself. It may be a seller, which the contract does not exclude.

### 3.3 `Permissions` and `Allowance`

`perm`, `pending`, `metadata` per (owner, delegate), the contract's settings and
the two clocks `ledger` (sequence number) and `now` (seconds). `GrantRecord` is
the common part of `grant` and `grant_with_metadata`. What the code allows and a
reader may not expect is kept: `resume` revives a revoked permission; a new grant
inherits the pending decrement of the old one; amounts of spends and decrements
may be zero or negative.

`Allowance` promises, per pair: nothing, then an open, stopped or ended allowance. Only
an open one pays, never beyond the limit; one that is over stays so until the next
grant; between grants the limit moves only by a request that has waited the time lock,
once per request and never below what was spent. No call touches another pair, but
time passes for all. It also says what the code leaves open: a request belongs to the
pair and not to a grant, and only `revoke` withdraws it. `KeepsAllowance` is the
refinement; the mapping reads the state off the stored status and the expiry, which
counts first and is for good since ledgers only advance.

### 3.4 `DelegationRegistry`

Ids, records and the index by owner. `initialize` writes `NextId = 1` although
`create_delegation` works before it; `early` notes that this happened, and the
properties say what holds otherwise. `Principals` are the owners, and `sequence` is the
ledger sequence number. The status `Expired` is never stored: the
only write of it is rolled back by the panic that follows.

### 3.5 `Saga` and `SagaPromise`

One saga, several runners. `record` is the row in the store, `cur[r]` the copy a
runner works with, `pc[r]` where it is between two awaits. `SaveOrGiveUp` is the
conditional update: it takes effect if the stored version is the one the
runner read, and otherwise ends the runner (in `claimStep` by returning, elsewhere
by the exception). Actions and compensations run in other services: `acted` and
`undone` count their effects, and one that throws may have taken effect. A claim
is named by the version its save produced; since every lease lasts
`claimLeaseMs`, claims expire in that order and `expiredUpTo` is the clock.
`LeaseExpires` lets time pass when nobody works under the stored lease,
`SlowLeaseExpires` when somebody does. `Stop` is a crash or a store error, before
any save.

`SagaPromise` has none of that: a saga goes forward, perhaps turns back, and ends.
A step may take effect once the one before it did, if that one is still counted as
done or was undone already, and nothing beyond the next step is attempted while the
saga goes forward; a step counts as done only once it
took effect, and as undone only once its compensation did; a compensation never
takes effect on a step that has one after it still counted as done; `completed`
means every step, `failed` that none is left, and both are final. What it leaves
open is what the coordinator leaves open: effects may repeat (a step that outlives
its lease) and may be unrecorded (an action that throws after it took effect is not
undone). `KeepsPromise` is the refinement; the mapping reads phase and count off
the row and the effects off `acted` and `undone`. `OneEffectEscapes` bounds what is
unrecorded: an effect that is neither recorded nor compensated is that of the last
step that took effect at all, so nothing was built on it.

### 3.6 `TxQueue`, over `SpendLimits`

The callers of `addTransactionToQueue`, the BullMQ queue, its single worker, and
the ledger account it submits for. `SpendLimits` has the lookup of the limit that
applies, the comparison with the three counters, and `recordSpend` (one Lua script,
one step). `CheckLimits` reads the counters, `AddJob` adds the job after the await that
follows, and `Listen` registers the listeners after the next one: other callers and the
worker act in between. The same request by way of `POST /transactions/submit`
(`FromRoute`) carries neither amount nor delegation, so nothing is checked against and
nothing counted for it. The worker's
actions follow `executeTxJob`: sequence number (cached, reset on a retry),
simulation, sending, polling, confirmation, and the catch that classifies
the failure (`SubmissionFailure`, `Retryable`). External: a sent transaction stays
pending until `LedgerApplies` it, in order of sequence numbers, or `TxExpires`. `Crash`
takes callers and worker; BullMQ runs the stalled job again, not counted as an
attempt. `lost` counts executions that sent something and never learned what became
of it, `overlap` says that two payments were in flight together (from the check on),
`bypassed` that a check was skipped because a store failed, `checked` for which
delegation the last payment passed the check. `applied` is what the ledger took from the
account today, this week and ever, whatever was counted of it. `uncounted` adds up the
amounts of executions that may have been applied and were not counted (`NotCounted`):
the outcome was lost, only Horizon confirmed it, or `recordSpend` failed.

### 3.7 The stateful parts of the services

- `Vault`: one file and one field `vaultData` shared by all requests.
  `ReadVault`, `AssignVaultData`, `AddEntry`, `Serialise`, `OpenFile` and `WriteFile` are
  the stretches of `storeKey` between its awaits. `writeFile` empties the file when it
  opens it and writes from its beginning: a reader in between finds no JSON, and writes
  that have the file open together (`mixed`) may leave a shorter text over a longer one.
  `StoreFails` is the error path, `cut` notes a write that failed or that a crash cut
  short. Nothing repairs the file, so no later request gets a vault. `disturbed` notes
  keys whose storing overlapped another request: those can be lost.
- `KeyVersions`: seeds under versions of the master key, with rotations as changes
  of the environment in any order. `misused` notes a version that fell back to the
  common secret, or whose secret was changed after it was used.
- `Balance`: the cached copy of an answer, with slow requests that overwrite a
  newer copy.
- `Sessions`: registration to logout of one user, one step per statement.
  `UseToken` is the conditional UPDATE of `refreshAccessToken`, `RenewToken` the
  creation after it; between the two a revocation of the family misses the new
  token, which `raced` notes. `Logout` answers success whether or not its statement
  took effect.
- `DelegationRows`: create, update and revoke as transactions at READ COMMITTED.
  An update reads the row without a lock, and Sequelize writes a column only when its
  value differs from the one read (`Writes`). `WriteRow` is the UPDATE of `delegations`,
  which takes the lock if there is one to make; `ReadMerchants` reads the policy row,
  locked or not. `passed` notes which fields others committed since a call read them,
  `overtaken` the fields whose last request had been passed.
- `RateLimiter`: a counter per window. A request counts under the key it built, however
  late its `Increment` reaches Redis; a counter lives for the length of a window from
  its first increment (`expiry`, `CounterExpires`), and one that is incremented after that
  begins at 1 (`late`).
- `Payments`: the routes with their validation in the order of the code, the fee
  estimate, the call to the wallet service, and `coordinateSettlement` with the event it
  publishes without waiting. The wallet is the one of this repository as its callers see
  it: it takes a call (`WalletReceives`), may send it to the ledger also after its caller
  gave up (`WalletSends`), where it succeeds or fails, and answers success for whatever
  is on the ledger (`WalletAnswers`, from `verifyLedgerSubmission`). A call for which the
  contract has no entry point (`CallMade`, `EntryPoints`) fails in simulation.
  `MCPayments` has the requests that are tried and two sets of entry points: those the
  escrow service is written for, and those of `contracts/escrow`.
- `Arbiters`: one dispute in the memory of the process.
- `Orders`: one row of `purchase_workflows`. `LoadOrder` and `PersistOrder` are
  the two halves of `transitionWorkflow`, shared by services, the timeout and the
  reconciler. `inFlightAtEnd` notes who had loaded the order when it ended.
- `PurchaseMachine`: `send` moves the machine and then awaits the hook; hooks
  finish in any order or fail, and a restart begins at the last snapshot.
- `ContractEvents`: deliveries of one event to workers that mark it afterwards
  (payments), or claim it first (orchestrator); `claimsFirst` chooses. `spoiled` notes
  deliveries that overlapped another or came after one that failed.
- `Dispatch`: one approval request by e-mail and push. The claim is per channel,
  not per browser, so a dispatch that knows its event reaches one browser.

What the repository defines but nothing in it calls is modelled as if it were called:
`coordinateSettlement`, `collectArbiterSignature`, `createWorkflow`,
`scheduleTimeout`, `cancelTimeout`, `reconcileWorkflows`,
`handleEscrowContractEvent` and `checkAndMarkProcessed` are exported, tested, and
have no caller. The wallet has no route for the two paths payments and the
reconciler ask of it (`/escrow/:id/dispute-resolve`, `/escrow/:id/status`); their
answers are external choices.

### 3.8 `Backend`

All modules of 3.7 side by side. They share no variable: where one service calls
another, the callee's answer is an external choice in the caller's module. So their
interleavings say nothing that each component does not say alone, and `Backend`
lets a behaviour follow one component, `focus`, chosen in the initial state: the
state spaces add up and do not multiply. Its invariants join those of
its components: `KeysReadable` (`UndisturbedKeysKept`, `FileReadable`, `SeedsReadable`), `GatewayHolds`
(`SessionNeverForks`, `FamilyClosed`, `RateHonoured`), `OrdersHold`
(`LedgerBacksOrder`, `RecordsFormAPath`), `NothingTwice` (`ResolvedOnce`,
`HandledOnce`, `SentOncePerKey`).

## 4. The runs

| Run | Instance | Shows |
|---|---|---|
| `escrow_lifecycle` | 2 escrows, 1 token, 3 addresses in any administrative role, buyer and seller among them, valid and invalid fees and limits, 3 ledgers | money and status agree, the contract is solvent, eligibility of refunds is reported truly, `Custody` is implemented; roles, proposals and the two whitelist records stay consistent |
| `escrow_disputes` | 1 escrow, 3 arbiters (one the administrator, one the seller), every configuration, 3 ledgers, fairness | quorum decisions, and every deposit comes out |
| `delegated_authority` | one contract per behaviour. Permissions: 1 owner, 1 delegate, limits of one and two spends, negative amounts, time lock of 2 seconds. Registry: 2 owners, 2 agents, 2 ids. 4 ledgers each | limits and stops, `Allowance` is implemented; index and records agree, ended authority stays ended |
| `saga` | 2 runners, 3 steps, 1 crash, 1 slow step, 1 failed compensation, fairness | order, exclusion by lease, termination, what may escape compensation, `SagaPromise` is implemented |
| `saga_execution` | as `saga` | *violation*: see findings |
| `tx_queue` | 2 payments of 2, with a memo or a bad one, for the wallet with limits of 3 or for a delegation with two rows, 2 attempts, 1 crash | what is paid twice and what is not, limits |
| `tx_queue_answers` | 2 jobs of a wallet without limits, 2 attempts, 1 crash, fairness | who listens in time is answered |
| `backend` | per component: 3 keys and a reader; 2 seeds, 3 versions, 2 secrets; 3 readers in 4 ticks; 4 requests to authentication; 4 calls on a delegation with 5 bodies; 3 requests, a limit of 1, 2 windows; 2 payment calls of 10 kinds; 4 arbiters, threshold 2; 2 services and the timeout and the reconciler; 3 lives of a machine; 4 deliveries; 3 dispatches to 2 browsers | what holds of each service under its own interleavings |
| `orders_reconciled` | 2 services | *violation*: see findings |
| `payments_funds` | 2 payment calls, the contract the service is written for | *violation*: see findings |
| `contract_events` | 2 deliveries | *violation*: see findings |
| `dispute_retry` | 3 arbiters, threshold 2 | *violation*: see findings |

**Why the bounds suffice.** Two escrows are needed for one to be paid from
the other's deposit, and no operation relates three. Three ledgers give before, at
and after a timeout. The deposited amount leaves a remainder at 10000, which is
where the fee computation is delicate; `FeeIsExact` also tries amounts that the
limits reject. Three addresses give a primary, a candidate and a co-administrator; in
`escrow_lifecycle` they are also treasury, buyer and seller. Three arbiters are the least with a majority that is not
unanimity and a configuration that drops one. In `delegated_authority` a limit of two
unit spends has every relation of spent, limit and decrement. Three steps are the
least with two to undo when the last one fails, so that the order of compensation
matters (the checkout saga the orchestrator registers has two); two runners are
one that overtakes and one that is stale.
Bounds are constants of the modules (`MaxEscrows`, `MaxLedger`, `MaxTime`,
`MinSpent`, `MaxLimit`, `MaxId`, `MaxListed`, `MaxStops`, `MaxSlow`,
`MaxFailures`); `MaxLedger` is also the u32 limit, so that the overflow of a
timeout is reached. In `tx_queue` either payment fits the
limits of the wallet and both do not; the delegation has a row that one payment a day
fits and one that none fits, so that a check may take either; two
attempts are the least with a retry, and the second job gives a transaction with a
sequence number between. `tx_queue_answers` has no limits, since an answer does not
depend on them. In `backend`, four requests to authentication are a login, two
refreshes with its token and a logout; four calls on a delegation are the creation and
three updates or a revocation; four arbiters are two more than the threshold, so
that a failed submission is followed by another; three lives of a machine restore it
from a snapshot made after a restoration. `Patience`, `LastTick`, `LastWindow` and
`MaxLives` bound time and restarts, `MaxCrashes` the crashes of the wallet.
Deadlock is not checked where the bounds or finished sagas
stop the model.

Two instances are narrower than what they are about. `delegated_authority` has one pair of
owner and delegate, so what it explores of permissions shares nothing but the clock; that no call touches another pair rests on
the proof (`OthersKeepTheirs`). `escrow_disputes` has one administrator and one fee; that
roles and fees may change under a dispute rests on the safety properties of
`escrow_lifecycle`, and `FundsComeOut` says nothing of it.

**Fairness.** `Escrow!FairSpec`: ledgers close; a buyer who may be refunded goes on
asking; an administrator rules on open disputes. Sellers, arbiters and all other
operations may never act. Without the administrator `FundsComeOut` is false: a
dispute takes the buyer's timeout refund away, and the code has no other way out than
a quorum that may never form. `Saga!FairSpec`: a runner that is not stopped
continues (its awaits settle: the HTTP calls of the steps carry a timeout), time
passes, and an unfinished saga is resumed. The last point rests on what
`index.ts` does, `recoverAll()` at every start and `POST /sagas/:sagaId/resume`:
after a failed compensation nothing inside a running process retries.
Compensations fail finitely often; actions may fail always. `TxQueue!FairSpec`: the
worker goes on with the job it has and takes the next one (its awaits settle and its polls
are counted), a back-off ends, and a pending transaction is applied or expires, since it
carries time bounds of 30 seconds. Callers need no fairness. `Backend` states
safety only.

**Mutants.** Every property is shown to be falsifiable by replacing one operation
with a faulty variant:

| Property | Fault it notices |
|---|---|
| `AdminTypeOK` | `set_limits` does not validate |
| `RolesDisjoint` | `accept_admin` leaves the listing |
| `ProposalIsCurrent` | `accept_admin` leaves the proposal |
| `WhitelistMatchesFlags` | `remove_token` clears the flag only |
| `RevocationTakesEffect` | `add_co_admin` lists twice |
| `TypeOK` (escrow, permissions) | an unchecked u32 addition |
| `SettledInFull`, `Solvency` | `release` refuses only what was released |
| `FeeIsExact` | the remainder at 10000 is dropped |
| `RefundEligibilityExact` | `refund` compares the timeout with > |
| `TermsNeverChange` | `deposit` does not store the new last id |
| `ImplementsCustody` | `dispute` accepts a released escrow |
| `MajorityNeverConflicts` | votes of former arbiters count |
| `QuorumDecides` | an arbiter may vote again |
| `FundsComeOut` | the creation pause blocks refunds |
| `SpentWithinLimit` | the decrement ignores what was spent |
| `NoSpendOnceStopped` | a revoked permission may spend |
| `KeepsAllowance` | a decrement is due at once |
| `IndexExact` | `initialize` may be repeated |
| `AuthorityEndsForGood` | a revoked delegation can be resumed |
| `TypeOK` (saga) | the step recorded next may not exist |
| `CompletedIsPrefix` | compensation in the order of completion |
| `LeaseExclusive` | the lease is not looked at |
| `CompletedNeverUndone` | the save is unconditional |
| `OneEffectEscapes` | a failed compensation drops its step |
| `KeepsPromise` | a failed compensation ends the saga |
| `SagaEnds` | an expired lease blocks like a live one |
| `PaidAgainOnlyWhenLost` | an error of `recordSpend` fails the attempt |
| `RetryReplaces` | a retry uses the cached sequence number |
| `LimitsHoldOneByOne` | the limits are compared with the payment alone |
| `CallerAnswered` | a retried attempt is not counted |
| `KeysReadable` | only the active version falls back to the common secret |
| `BalanceRecent` | a copy that is read lives on |
| `GatewayHolds` | the token is used without asking whether it was |
| `LastRequestWins` | an update replaces the policy column by what its body says of it |
| `SettlementEventsTrue` | an event that is not published fails the settlement |
| `OrdersHold` | an escrow that is not found counts as refunded |
| `NothingTwice` | a signature is taken during a submission |
| `EndedUnlessOverlapped` | a write may be made twice |

The other conjuncts of the joined invariants have faulty variants of their own, which TLC
finds as well: `ReadVaultLenient` (`UndisturbedKeysKept`), `RevokeTokenOnly`
(`FamilyClosed`), `ExpireKeyRoundedDown` (`RateHonoured`), `HookFailureRollsBack`
(`RecordsFormAPath`), `CheckWithoutClaim` (`HandledOnce`), `SendAlways`
(`SentOncePerKey`).

**Findings.** Five runs show the code doing other than it says:

- A step that outlives its lease is claimed and executed by a second runner,
  although the comment on `save` says two runners can never "both win the same
  step claim and execute it twice". What the lease and the version do guarantee
  is `LeaseExclusive` and the properties about the record.
- For an order in `ESCROW_FUNDED` whose escrow was released the reconciler
  recommends to "advance to COMPLETED" and sends `SETTLE`, which only `DELIVERING` and
  `DELIVERED` accept: it throws, is logged, and the order stays.
- A settlement publishes its transaction because "the funds have already moved
  on-chain". The wallet also answers success for a transaction Horizon knows as failed
  (`FundsHaveMoved`). What does hold is `SettlementEventsTrue`: the event says what the
  caller was told, and a settlement that failed for its caller and released is one whose
  answer was lost.
- `processEscrowContractEvent` "processes an escrow contract event once": deliveries that
  overlap are both handled (`EventProcessedOnce`). `HandledOnce` is what is left.
- A failed submission returns a dispute to `threshold_met` "so callers can retry". Only a
  signature that is new leads on, so a dispute that every arbiter has signed stays
  (`CallersCanRetry`). `ResolvedOnce` holds through all retries there are.

Seven more statements of the sources are false as well. Each is written down as a
property beside those that hold, which except exactly these cases, and no run checks it:

| Property | What is said | What happens |
|---|---|---|
| `ReleaseEligibilityExact` (`Escrow`) | `get_release_eligibility` says "whether release can proceed" (`escrow/src/lib.rs:924`) | it reports `timeout` for a funded escrow past its timeout, which `release` pays out |
| `MetadataIsCurrent` (`Permissions`) | metadata of an older grant cannot be returned (`permissions/src/lib.rs:786`) | `grant` leaves the metadata of an earlier `grant_with_metadata` |
| `LogoutEndsSession` (`Sessions`) | "Logout user and invalidate token" (`docs/api-reference.md:222`) | a logout whose database statement failed is answered with success, and the token goes on working |
| `ReuseEndsFamily` (`Sessions`) | a reuse is to "revoke entire family" (`authService.ts:191`) | the refresh that won the race inserts its new token after that, and it works |
| `FailureMeansNotReleased` (`Payments`) | a failure event only "when the ledger release itself failed" (`settlement/index.ts:91`) | also when the release succeeded and its answer was lost |
| `CallsHaveEntryPoints` (`Payments`, with `RepositoryEntries`) | the contract offers `create_escrow` (`contracts/escrow/README.md:9`) | the service calls `create_escrow` with two arguments, `release`, `refund` and `initialize` with one; the contract has `deposit` with six, and wants two, two and five. Against this contract no call gets beyond the simulation, so `Payments` is checked with the entry points the service is written for |
| `StrictOrder` (`TxQueue`) | "jobs are executed in strict order" (`txQueue.ts:402`) | a job that is retried waits for its back-off, and the job behind it is begun and may end before it |

The models also show what the sources say nothing of: payments in flight together can
exceed a spending limit together; a payment whose outcome was not learned may be made
again, and then counts once or not at all; a caller whose job ends before it listens is
never answered; a key stored while another request used the vault can be lost, and all of
them when writes of the file overlap or are cut short; an order that ended can be
reopened by a transition under way; the timeout cancels a funded order and leaves its
escrow; a failed timeout job keeps the order from getting another one; an update of a
delegation that asks for the value it had read is lost if another one came between; a
request that reaches its rate limit counter after the counter expired starts it again; a
worker that dies after its claim drops the notification. Each is a state the properties
except by name.

## 5. The proofs

The theorems hold for every number of addresses, tokens, escrows, runners, steps,
requests and amounts, and for every value of the bounds, under the named
assumptions on constants in each module (`AdminConstants`, `EscrowConstants`,
`PermissionsConstants`, `RegistryConstants`, `SagaConstants`, `BalanceConstants`,
`SessionsConstants`, `DelegationRowsConstants`, `RateLimiterConstants`, `TxQueueConstants`,
`PaymentsConstants`, `ArbitersConstants`, `LimitTablesAreOfNumbers`, and
`NoneIsNoRecord`, `NoneIsNoPermission`, `NoneIsNoDelegation`): constants have their
types, the special value `None` is nobody's name, the set of arbiters of the escrow
is finite, the contract is no buyer (3.2), and limits are numbers or absent.
No theorem is about fairness, so none uses it.

- `EscrowAdminProofs`. `AdminInv` joins types, `RolesDisjoint`,
  `ProposalIsCurrent` and `WhitelistMatchesFlags`; each is inductive given the
  types. `AdminRevocation` needs `RolesDisjoint` before the step: only then does
  taking one listing away end the role. They are about `AdminSpec`, and
  `AdministersAsAlone` in `EscrowProofs` carries them over to the whole contract, which
  is what `escrow_lifecycle` checks.
- `EscrowProofs`. `FeeFloor` and `FeeBound` are about the arithmetic: with
  amount = 10000 q + r the split fee is the floor of the product, and at most a
  tenth as fee_bps <= 1000. `OneEscrowPerStep` says what a step can do to an
  escrow: nothing, create it, contest it, or pay it out one way.
  `EscrowInv` is `TypeOK`, `SettledInFull` and `IdsInOrder`; the last is needed
  because `deposit` writes at `LastEscrowId + 1`, which must be free for
  the money of an open escrow not to be forgotten.
  Each outcome of `OneEscrowPerStep` is a step of `Custody` or a stutter; that an
  open escrow has paid nothing comes from `EscrowInv`. `TermsFixed` follows the same
  way.

  `AlwaysSolvent` is about a sum. `SetInduction` derives induction over a set from
  the well-founded order of the naturals; `SumsExist` uses it to show that the
  recursive sum is a function with its defining equations, `TotalChange` that a sum
  changes by as much as one summand does, `TotalBounds` that no summand exceeds it. Then
  each step is balanced: what the contract loses or gains of a token is what the one
  escrow the step touches stops or begins to be owed (`Balanced`, with a lemma per
  way of touching). A fee paid to the contract itself, or a payout to a seller that is
  the contract, only leaves more. Two consequences: no payout is stopped by the
  balance, the two transfers of a release included (`PayoutsAlwaysCovered`), and
  what `get_refund_eligibility` calls eligible `refund` accepts and nothing else
  (`RefundEligibilityTrue`).
- `EscrowVotingProofs`. `VotersDistinct` (no arbiter occurs twice in the votes of
  an escrow) makes counted votes the same as counted arbiters; two majorities of
  one set would share an arbiter, who would have voted twice.
- `PermissionsProofs`. `PermissionsInv` adds `DueAfterTimeLock` (a pending
  request is due a time lock after it was made) to types and
  `SpentWithinLimit`; a second invariant, that a stopped permission is not
  active, carries `NoSpendOnceStopped`.

  `AllowanceKept` is the refinement, one lemma per kind of call. `OthersKeepTheirs`
  says that a call for one pair leaves every other pair as it was, so that only the
  pair of the call is left to look at. What that pair has depends on the clock too: a
  write of the status of a permission that is over is a stutter, or only withdraws the
  request (`StatusSteps`), and a ledger that closes can only end what was
  granted (`LedgersPass`). It needs the type invariant and nothing stronger.
  `LimitMovesInTime` says the part about the limit as an action property of its own.
- `RegistryProofs`. `RegistryInv` is `TypeOK`, `IndexExact` and `IdsInOrder`: the index
  stays without repetitions because a new id is above every id in use, which holds
  only if nothing was created before `initialize`. `AuthorityEndsForGood` is a fact
  about one step, given the types and that a new id is not in use.
- `SagaProofs`. Runners overlap in every way the code allows, so the argument is about
  what a runner with an old copy can still do. `CopyInv`: a copy with the newest
  version is the record itself, so whoever saves builds on the record and nobody
  saves from an older one. `RecordInv` (with `WellFormed`): the completed steps are the
  first ones, each took effect, none was undone before compensation began, and
  a lease names the next step to perform or the last one to undo. `WorkInv`: under a
  live lease the copy of the worker is the record, so nobody saved since.
  `ClaimsDiffer`: no two workers hold the same claim. Together they are inductive
  (`SagaInv`), for every number of runners and steps. The two action properties follow
  from what the save of a runner with the newest copy can do.

  `PromiseKept` needs more, since `SagaPromise` also restrains runners that lost
  their lease and go on acting. `RowChange` lists the six ways a save changes
  the row, each a step of the promise or a stutter. `PastInv` says what lies behind a
  copy: its steps took effect; while the saga goes forward the row is not behind it, so
  a late action is about a step that was next or earlier; while it turns back the
  row is not ahead, so a late compensation is about a step after all that still count;
  and where the saga turned back under a runner that still goes forward, the last step
  its copy knows of is still recorded or was undone.

  `EscapesBounded` rests on the steps of the promise and not on those of the
  coordinator. `EffectsInOrder`, that a step before one that took effect is counted as
  done or was undone, is preserved by every step of `SagaPromise` (`OrderNext`), which
  needs the guard on what a late action may build on.
- `TxQueueProofs`. `PlacesInv` keeps track of where each job is: a waiting job is in the
  queue once and the worker has no job that waits. `PaymentsCounted` counts what was
  paid and what is still pending against the executions that sent it: each lost
  execution accounts for one, and so does an execution that polls, or the one that
  ended the job. `OneInFlight` says what holds as long as no payment is begun while
  another is in flight and nothing crashed: everything pending is of one job, carries
  the next sequence number, and that job has failed before, so that its next
  execution clears the cache and uses the same number.

  `LimitsHoldOneByOne` is not inductive, and its proof has two halves. A payment is checked
  before it is added and counted when it is confirmed, with retries, a crash or midnight
  in between. `LimitInv` is about the counters: there is room, in one row of the delegation
  checked last, for what was counted and for the unfinished payment, and one at most is in
  flight. Steps that check no payment leave both alone (`NoNewWork`), counters only fall
  when a day or a week ends, and a confirmation turns room for the payment into room for
  what was counted. `BalanceInv` compares the counters with the ledger: what was applied,
  and what is pending if it is applied too, is counted, or not counted by name
  (`uncounted`), or is the one transaction that is being polled. Here the sequence numbers
  of `OneInFlight` come in: of the pending transactions of a job one at most is applied,
  each of the others having been lost. With both, what was applied less `uncounted` is no
  more than what there was room for.
- `BackendProofs`. `ComponentStep`: a step of `Backend` is a step or a stutter of every
  component, so each component is proved alone.
  - `DispatchInv`, `EventsInv`: what was sent is bounded by the keys that were set, and
    of the deliveries nothing failed for one at most got past the check.
  - `ArbitersInv`: one submitter at a time, and every submission but the last failed
    and had fewer signers than the next, since a signature is new or refused.
  - `OrdersInv`: whatever state a request took with it, the row it would write is
    backed by the ledger, because an escrow that was paid out stays so; and whoever is
    in flight when the order has ended was in flight when it ended.
  - `MachineInv`: the records handed to hooks are consecutive.
  - `SessionsInv` adds `TokensMade`: a token has a row from its creation to its
    answer, and so has the first token of its family. With it the conditional UPDATE leaves
    one token of a family that can be used.
  - `RateInv`: a counter expires after its window is over (`CountersOutlast`); requests
    that were counted before that got different numbers, none beyond the counter while it
    lasts; those that were let through got one of the first `MaxRequests`.
  - `BalanceInv`: a copy is no older than a lifetime and a request, a request no older
    than `Patience`.
  - `KeyVersionsInv`: the last row of a wallet names the version its seed is under.
  - `VaultInv`: keys stored undisturbed are in the file, if it can be read, and in every
    copy that somebody will write back, which needs that a request that was never disturbed
    is alone at work. A file that cannot be read is read by nobody, so nothing is written
    over it; and it can be read unless it is being written, or writes were mixed or cut.
  - `DelegationsInv`: what an update read of a field is the field as it is, as long as no
    request naming it has committed since. So a value that is not written because it
    equals the one read is the value that is there, and the part of the policy column that
    is written without being named is what it was.
  - `PaymentsInv`: whatever the wallet holds or the ledger took belongs to a call that
    waits, was answered or gave up without learning more (`unseen`); an event that is
    published or about to be says of the call what its caller was told.

**What `LimitsHoldOneByOne` says.** It bounds what the ledger applied, not the counters:
for payments made one after the other, what was applied today, this week and ever, less
`uncounted`, stays in a row. So a payment that is retried after a lost answer and applied
twice exceeds the limit by its amount, no more, and the property says where that amount
came from. Amounts are those named to the queue, which the queue does not compare with
the arguments of the contract call. Nothing in the schema makes rows of
`spend_limits` unique, `findOne` returns any of those that match, and the counters are
shared by all delegations of a wallet; so the row is one that `findOne` could return for the
delegation of the last payment that passed the check (`checked`), and the rows of others may
be exceeded, for instance that of the wallet when the last payment was for a delegation with
higher limits. Where a delegation has one row, the property is about exactly that row. A
payment without any row is not limited, and the rows do not change during a behaviour.

**Only model-checked.** `FundsComeOut`, `SagaEnds` and `CallerAnswered` are liveness
under fairness, and `RefundEligibilityExact` has ENABLED in it; both are out of the
prover's reach. `RefundEligibilityTrue` is what remains of the latter without ENABLED:
the guards and the balance. What the violations show is a behaviour, and needs no
proof.

## 6. Not modelled

Agents, frontend, SDK packages, database schemas and deployment have no protocol
state. The storage lifetime of ledger entries and transaction fees belong to the
network.

- *Checkout saga.* Its first step posts a deposit without an `Idempotency-Key`
  (`workflows/checkout/index.ts:252`), which the payments service answers with
  `MISSING_IDEMPOTENCY_KEY`; no step beyond it can run, and a model of the later steps
  would describe states the program cannot reach. The coordinator is `Saga`.
- *Signers* (`vault.ts` from line 381): calls to KMS and Vault without state.
- *Outbox and audit*: lists that nothing drains.
- *Gateway proxies, mappers and models*: they forward, check shapes, and convert.
- *Websocket, event router and wallet lookup* of notifications: forwarding and reading;
  the router has no caller.
- *Histories and listings* of wallet, gateway and orchestrator change nothing.
- *The test runner* of the queue (`runTestJob`) replaces BullMQ in tests only.
- *What Sequelize compares.* It omits a column whose value equals the one read, a JSONB
  or array column by deep equality; a BIGINT is read as a string and asked for as a
  `BigInt`, so limits are always written. `DelegationRows` has that; the `updatedAt` column
  is left out.
- *Memos.* The memos of the escrow service are longer than the wallet allows for some
  orders (`validateMemo`, 28 bytes); such a call is refused, which is among the failures of
  `SubmissionFails`.
- *Restarts of payments*: the map of disputes and the store of processed events are in
  memory and lost with the process; `Arbiters` and `ContractEvents` are about one life.
- `DelegationRows` takes the Sequelize models to return the columns they declare; with
  class fields compiled for ES2022 public fields would shadow the getters, which depends
  on the build.
