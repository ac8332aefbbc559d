# A verification development of Ledova

Ledova is a platform on which Australian companies issue share tokens, take
subscriptions to offerings, and let holders trade with each other. A Django
application keeps the records in PostgreSQL, queued jobs and staff actions talk
to a chain, and smart contracts hold the balances. Three parties write the truth
(the database, the chain and the people who confirm money), none of them
atomically with another. This directory models the parts where that matters in
TLA+, checks them with TLC on small instances and proves the main results with
TLAPS. Paths below are relative to the repository's root.

1. [Inventory](#inventory)
2. [Modules and how they follow the code](#modules-and-how-they-follow-the-code)
3. [Runs, and why their bounds are enough](#runs-and-why-their-bounds-are-enough)
4. [Fairness](#fairness)
5. [Where the code and its documents disagree](#where-the-code-and-its-documents-disagree)
6. [What is proved](#what-is-proved)
7. [What is only model-checked, and what is not modelled](#what-is-only-model-checked-and-what-is-not-modelled)
8. [Plan](#plan)

## Inventory

| Component | State it keeps | Operations | Hard because | Correct when |
| --- | --- | --- | --- | --- |
| **Outgoing signing journal** `backend/blockchain/services/outgoing.py` | operation, signed attempt and signing account rows, guarded by triggers | claim, restart, sign, record failure, broadcast, recover the outcome, admit, close and drain a signer | callers stop anywhere; nodes lose, repeat and forget; the provider's nonce is stale; a key may be shared | an operation takes effect at most once over all retries; nonces do not collide, nor leave a hole of the platform's own; a closed signer drains |
| **Share issuance execution** `backend/tokens/services/issuance_execution.py` | execution, request, issuance, subscription and transaction rows, guarded by triggers of migration 0048 | confirm, start, claim, bind, sign, broadcast, observe, retain, project, retry, cancel | several runs of the same recovery beside staff who retry, cancel and refund | shares once or the money back, never both; rows say what the chain did; a retry is one somebody authorised |
| **Subscription register** `backend/offerings/services/subscription.py` | rows of one offering: payment, allotment, refunds, status; issuance requests | intake, instruct, record payment, refund, withdraw, reject, expire, scale back, allot one or a batch, retry | reads outside locks (scale-back, headroom, loaded batches); arithmetic that several operations rewrite | the disclosed cap holds, no more goes back than arrived, minted shares are paid for |
| **Secondary trading** `backend/tokens/services/{token_transfer,atomic_swap}_service.py`, `swap_expiry.py`, `trading_locks.py`, `order_actions.py`, `order_modification_service.py`, `contracts/AtomicSwap.sol` | orders, swaps, their transaction rows; the contract's nonces and balances | create and match, cancel, modify, sign, claim, send, record, reconcile, expire | two signatures, replays, two sweeps and the chain race for one match; a sent transaction whose answer was lost | shares set aside are settled or released, never both; one execution per match; figures stay exact |
| **Order submissions, signing challenges** `backend/tokens/services/{trading_order_create,order_actions,signing_challenge}.py` | idempotent submissions and actions, single-use challenges | issue, execute, refuse, expire, purge | replays and lost answers; an action verified in one transaction and applied in another; a purge beside both | an intent takes effect at most once, by the one challenge spent on it |
| **Whitelist changes** `backend/whitelist/services/changes.py` | a change per submission, the directory entry, the journal's operation | submit, observe, decide, claim, sign, project, recover, sync | membership read before the lock, by decisions and by syncs | what the entry shows is what the registry has |
| **Pause, NAV** `backend/tokens/services/{pause_changes,pause_recovery,nav,nav_recovery}.py` | a row per command, the token's row, the operation | submit, decide, refuse, recover, project | late receipts of earlier commands; owners that change | the token shows what the contract does |
| **Capital increase** `backend/tokens/services/capital_execution.py` | requests, executions, the recorded cap | draft, review, admit, retry, claim, hold, project | totals approved for one cap and executed in another order; a cap raised elsewhere | the recorded cap is the contract's and never goes down |
| **Mint requests** `backend/tokens/services/mint_service.py` | a row per request with its receipts | request, reject, execute, retain, recover | forms posted again after a retry | a request is executed when its own mint is |
| **Deployment, swap approval** `backend/tokens/services/{deployment,deployment_journal,swap_approval}.py` | deployment and token rows, the approval's columns | request, retry, recover, hold, project, approve | an identifier the factory may already know | the token is deployed with the contract its own transaction made |
| **Wallet submissions** `backend/wallets/services/{submissions,transaction_confirmation,holdings,sync}.py` | transactions, submissions, holdings | submit, deliver, confirm, fail, reconcile, sync | balances deducted before the chain shows them and read from it without a lock | nothing is deducted twice or forgotten |
| **Supporting documents** `backend/documents/services/`, `backend/shared/services/orphaned_files.py` | documents, extractions, claims, private storage | upload, attach, extract, delete, purge, sweep | a storage that takes no part in transactions; a sweep and a purge beside uploads and extractions | a row that is kept has its bytes, a purged one has nothing |
| **Former holders** `backend/tokens/services/former_holders.py` | the archive, the block it reaches | fold, purge | folds that overlap, lagging providers, retention | the archive names those who left, as the chain has it |
| Offering lifecycle, payments | offering status, dates, price | publish, open, close | parties acting on an offering that closes | nothing is allotted before it may be |
| Contracts `contracts/contracts/` | balances, caps, roles, whitelist | mint, transfer, pause, register | authorization | supply below its cap, holders whitelisted |
| Register | none: chain events read | read | reads of several heads | a holder is neither lost nor invented |
| Companies, eligibility, authentication, tenancy, users, compliance, portfolios, assets, operators, integrations | records | mostly sequential record keeping and I/O | a few sweeps | left to their tests |
| Dashboard, mobile, marketing | none of record | user interface | | |

How they interact. Every on-chain command of the platform itself (issuance,
mint, whitelist, pause, capital, deployment, approval, NAV) is a client of the
journal: it opens a claim for a fixed key and intent, binds the claim to its own
row, signs, broadcasts, and afterwards projects the journal's outcome on its
row. Subscriptions request issuances, whose executions take the subscription's
row lock; refunds look at the execution before they return money. Trading does
not use the journal: it has its own claim, a row in `BlockchainTransaction` and a
relayer key. The chain is read without locks by all of them. The shared state
is the database's rows; nothing is passed by callback. Procrastinate jobs repeat
the recoveries every few minutes.

Hard behaviours, listed line by line under `hazards` in `PROJECT.json`: two
actors' transactions in an order nobody tried; values read before a lock and
used after it; a process that dies between the chain and the database; a send
whose answer is lost; late receipts and acknowledgements; retries of what may
have happened; arithmetic rewritten by several operations; sweeps that must
finish what requests left.

## Modules and how they follow the code

A database transaction is one action, with the locks and conditions it tests as
guards. A function that leaves its transaction to ask a provider is one action
per part; what it carries in between is the record of its worker, run, clerk or
session, and any of them may stop at any point. Rows are functions from keys to
records. Names follow the source; `map` in `PROJECT.json` gives the lines of
every definition. Definitions named `X_Y` beside an `X` are deliberate faults
used to confirm that the property watching `X` notices; nothing refers to them.

| Module | Models |
| --- | --- |
| `OnceOnly` | the journal's promise: an operation takes effect at most once, and only a proved failure reopens it |
| `OutgoingJournal` | the journal, its signer admissions, its callers and the chain |
| `OutgoingJournalProofs` | its theorems |
| `SharesOrMoney` | what an issuance promises an investor |
| `ShareIssuance` | the execution's recovery runs, staff and triggers over one operation of the journal |
| `ShareIssuanceProofs` | its theorems |
| `Subscriptions` | the register of one offering |
| `SubscriptionsProofs` | its theorems |
| `SettledOrReleased` | what a match promises two owners |
| `Trading` | orders, matches, signatures, execution, sweeps and the swap contract |
| `TradingProofs` | its theorems |
| `JournalClient` | what the other chain commands see of the journal: a claim, a status and the transactions of an operation |
| `PauseChange`, `NAVUpdate`, `CapitalIncrease`, `MintRequest`, `TokenDeployment`, `SwapApproval`, `WhitelistChange` | one client each, with the row it changes and the contract behind it |
| `WalletTransfers` | the submissions and balances of one EVM wallet |
| `OrderIntents` | submissions, actions and the challenges spent on them |
| `EvidenceFiles` | supporting documents, their claim and the private storage |
| `FormerHolders` | the archive of members who left |
| `MCCommands` | the modules from `PauseChange` on, one of them per behaviour |
| `ClientProofs` | what holds of a command's operation and of a run, whichever client drives it; the rows of pauses, valuations, whitelist changes, approvals and mints |
| `CommandRowsProofs` | the rows of capital increases and deployments, and the theorems about all seven |
| `RecordsProofs` | theorems about `OrderIntents`, `EvidenceFiles`, `WalletTransfers` and `FormerHolders` |
| `TargetProofs` | that each client's rows say what its contract did, and the theorems about `MCCommands` as a whole |
| other `MC*` | symmetry and constant definitions for TLC |

**OutgoingJournal.** `operation`, `account` and `attempts` are the three tables;
`worker` is what a caller carries between two transactions; `mined`, `foreign`,
`pool`, `accepted`, `succeeded` and `reverted` are the chain's. A claim is
numbered, as the claim's identifier only ever serves to tell one claim from
another. A signed attempt is the record of its operation, claim, generation and
nonce. The chain runs an account's nonces in order, each once, and may be given
any bytes ever signed, again or not at all. Of a key in `ForeignUse` another
program sends transactions too (`ForeignSend`), for any nonce at any time.
`foreign` has their nonces: one may be executed (`ForeignExecute`), stay in line
or be dropped, and some nodes know of it and others do not. The provider's
`"pending"` count (`PendingCounts`) is therefore any nonce up to which every
earlier one is executed or sent by somebody, so that the code may sign above a
transaction of the other program that is never executed.

**ShareIssuance.** One execution, with its request, subscription, issuance and
journal rows. The journal is taken at its promise: `UsesTheJournal` shows that
what this model assumes of the operation is a behaviour of `OnceOnly`, which is
what `OutgoingJournal` implements. So the two compose without a model of both.
`GuardsNeverRefuse` states that every row there is passes the triggers, a second
implementation of the same rules in SQL, after every step of the services,
whether the step writes it or not.

**Subscriptions.** `row` holds the rows of one offering and `clerk` what each
caller of the services and of the issuance jobs below them has read; `minted` is
the chain's, `returned` a record of the money `record_refund` sent back. `Work`
names the operations a run lets clerks call.
Every read outside a lock is an action of its own (`Load`, `ScaleRead`,
`Choose`, `ReadIssued`, `ReadUnminted`), so the writes that follow use what was
read. Money is whole cents, a share costs `Price`.

**Trading.** `order` and `swap` are the tables, a swap's `tx` the status of its
`BlockchainTransaction`, `chain` what the contract did with it, `moved` what it
moved. `late` holds the matches whose deadline has passed for the server; the
contract's clock is its own, so the chain may still execute a late one. A worker
at `claim` has found a match ready; `Claim`, `Prepare`/`NeverSent`, `Admit`,
`Send`, `RecordSent`, `ReadReceipt` and `RecordReceipt` are the parts of
`execute_swap`, and `Reconcile` is the sweep up to its receipt, after which both
share `RecordReceipt`. Choices that stand for data: which candidate is matched
(price and time order, and payments that are no whole number of units), whether
the contract refuses (balances, allowances, membership), whether a balance
allows a larger sale. Left out: swaps of protocol version 0, which a trigger
holds; order statuses no service writes (`matched` lives inside one transaction;
`executing`, `expired`, `failed`); reorganised blocks, which the services do not
look for.

**The journal's clients.** `OutgoingJournal` has the journal in full, with nonces
and nodes. Seven services use it in one way, so `JournalClient` keeps what they
see of it: per command an operation with a status, the claim that fences its
writers and what became of the transaction of each claim. `Open`, `Sign`,
`FailPreparing`, `Receive`, `ReceiveNothing` and `Broadcast` are its calls,
`Mined` the chain's. A client module adds its rows, its target (the token, the
entry) and the contract, and composes those calls with its own transactions:
the claim and the bind, the recording of an outcome, the projection. `worker`
carries the claim a run holds and what it has read of the chain and will act on
(`seen`). Sweeps take any unresolved row at any time, and any run may stop. The
database's triggers are operators (`Guards`) over a step, not guards of it:
`GuardsNeverRefuse` says that no decision and no projection is one they refuse.
They are asked of the rows a step leaves alone as well, since a recovery touches
the time of a row and an execution its notes. Those pass too, with one exception
that `MintRequest` names: a failed mint whose attempt was opened again and is not
bound yet (`Reopened`), see
[below](#where-the-code-and-its-documents-disagree).

Where they differ: `PauseChange` and `WhitelistChange` decide on what the
contract shows and may apply without a transaction; `NAVUpdate` orders values
by generation, since a late receipt may be of an older one; `CapitalIncrease`
admits a total against the others and lets another tool raise the cap;
`MintRequest` retains receipts of earlier attempts and has rows from before the
journal; `TokenDeployment` meets a contract the factory already knows, which an
operator must settle; `SwapApproval` starts where a deployment is projected, and
leaves out an owner who revokes an approval by hand
(`setShareTokenApproval(token, false)`).

**WalletTransfers.** A transfer is signed by its owner, so the platform may
deliver it, see it delivered by somebody else or never; each is of one unit and
may burn a unit of coin. `holding` has the shown quantity, the version that
fences a balance read (`ReadVersion`, `ReadBalance`, `WriteBalance`) and, for
the properties, what it has been debited for and has seen. The wallet's row lock
makes a writing transaction one action.

**OrderIntents.** An action on an order takes three transactions
(`VerifyAction`, the balance read, `ApplyAction`), a submission one. `order` is
open, held or over; what happens to it in the book is `Trading`'s (`Trade`).

**EvidenceFiles.** Saving a file is not part of the transaction that names it, so
an upload, an attachment and a purge are two actions each, with the locks held
in between as guards on the others (`Locked`, `ClaimLocked`). Names are fresh,
`<<d, 0>>` under the swept prefix and `<<d, n>>` under the retained one. `Settle`
makes a file older than the sweep's grace of a day, during which every
transaction that has it in hand has ended. A copy whose process died before the
commit stays under the retained prefix, which no sweep walks and no row names:
the model keeps it in `storage` as the code does, and no property is about it.
A purge that was rolled back after its bytes went leaves a row that is due again
at once; a claim revoked just then restarts the clock over the missing bytes, so
`RowsHaveFiles` speaks of rows whose clock has never run out.

**FormerHolders.** `CessationsIn` is the service's loop over the transfers;
`Departures` is the definition it is checked against, by balances. One block is
mined a day, and a provider may know fewer finalized blocks than another.

## Runs, and why their bounds are enough

| Run | Instance | States | Shows |
| --- | --- | --- | --- |
| `outgoing_retry` | 1 operation, 2 workers, 3 claims, fair | 64,954 | once over retries, fencing, true outcomes and acknowledgements, `OnceOnly`; a signed operation is resolved |
| `outgoing_signer` | 2 operations of one shared key, 2 workers, four admission generations | 1,375,716 | nonces never collide; a hole below the cursor is only ever a transaction of the other program that was counted and dropped; closure drains; no preparation survives a cycle |
| `issuance_race` | 2 runs, 3 claims, money 3, cost 2 | 27,299 | shares or money, true rows, authorised retries, rows that pass the triggers, `SharesOrMoney` |
| `issuance_recovery` | 1 run, fair | 286 | every execution ends |
| `subscription_serial` | 2 rows, 1 clerk, every operation | 64,109 | minted shares stay paid for, closed rows are empty |
| `subscription_concurrent` | 2 rows, 2 clerks, the operations that lock | 121,590 | cap and refunds, interleaved |
| `trading_settlement` | 1 sale, 2 purchases, 2 matches, 2 workers, quantity 2, terms per owner | 168,091 | `SettledOrReleased`, exact figures, terms stand under a match |
| `trading_sweeps` | 1 sale, 2 purchases, 2 matches, 2 workers, fair | 33,299 | unclaimed matches end, sent ones are decided |
| `commands` | per subject 2 commands, 1 order or 1 document; 2 workers, 3 claims, totals to 3, 1 retry, 2 transfers of a wallet, 4 share transfers of 2 holders over 3 days | 1,326,131 | what rows say is true of contracts, chain and storage; no two live transactions of a command; what failed is over; one effect of an intent; the cap only rises; triggers refuse no decision and no projection |
| `subscription_scale_race`, `subscription_owed`, `subscription_supply` | the smallest that shows it | | [disagreements](#where-the-code-and-its-documents-disagree) |

Each property is checked once, in the run where most can break it; the types of
each module are one invariant.

The bounds. Hazards of the journal need an old worker and a new one (two), an
attempt replaced by a second and one more after it (three claims, three nonces);
with a shared key, a nonce that the other program takes or drops and one signed
above it (two). The theorems hold for every value. An
issuance needs two runs to overlap and a third claim to follow a retry of a
retry; the money need only exceed the cost so that a partial refund and a full
one differ. A cap needs two rows to share it, a rounding needs a payment that is
no multiple of the price (3 at price 2), a race two clerks. Orders match only
when one of them is placed, so three orders make at most two matches: enough for
an order that is matched, released or part filled, restated and matched again
with another, and for a sale that two purchases want; a second worker for a
replay, quantity 2 for a fill and a remainder, a sale that may be restated above
one buyer's price, and that buyer's minimum of the whole, so that both the price
and the minimum can refuse and restating could break a match. In `commands` a
behaviour is about one subject, chosen in its first state, so the run is the sum
of its subjects and not their product. Two commands are enough for one that
overtakes another, three claims for a retry of a retry whose first receipt comes
last, two workers for a run that acts on what it read before another's whole
transaction; mints, deployments and approvals of different rows share nothing,
so those subjects have one row and two workers. Totals up to 3 let a retried cap
be overtaken by a larger one; retries of a cap, and the cap another tool sets,
come while no request has had more than `MaxRetries` attempts, which for 1 is
one retry in all. The wallet has one coin and one token transfer that follow
each other's nonce, and coin for one in full or the fees of both; one sync at a
time (`MaxSyncs`) meets the reconciliations, which read and write balances by
the same steps, and submissions. One order has its submission, a cancellation
and a modification, with two challenges for each, so that one may expire or be
purged while another is spent. One document with two copies meets a failed
attachment and the next; four transfers of two holders, one of them the first
allotment, let a member leave twice in one block.

Bounded constants are `MaxNonce`, `MaxGeneration`, `MaxClaims`, `Swaps`,
`MaxQuantity`, `Terms`, `Payments`, `Quantity`, `Work`, `MaxTotal`,
`MaxRetries`, `MaxSyncs`, `MaxChallenges`, `MaxCopies`, `MaxValue`,
`MaxTransfers`, `MaxDay`; each is named in its module. Deadlock is not checked
where a finished system stops: every claim spent, every row closed, every match
used.

## Fairness

Only the liveness runs assume any. In `outgoing_retry` and
`issuance_recovery` the sweeps call the recovery again for every row they find,
every five minutes, without end; a step that stays possible or comes back is
therefore not interrupted for ever (strong fairness on the parts of a run), and
a worker that stops does stop (weak fairness on `Abandon`). Nodes that are given
a transaction again and again take it, and the chain runs what it holds. In
`trading_sweeps` matches reach their deadline, the expiry sweep (every minute)
and the reconciler (every five) come back, a worker that dies eventually has
died, and the contract's transaction is mined. Nothing assumes a request
finishes: `Sign`, `Claim`, `Send` and `RecordSent` are not fair. The last
assumption about the chain is the environment's, not the code's: a relayer
transaction that is dropped for ever leaves its match executing, as the
documents say it should.

A claim that was never sent nor refused (the process died between) has no hash
and stays executing until an operator looks; `docs/architecture/trading.md`
states that on purpose, so neither liveness property speaks of it.

## Where the code and its documents disagree

- `NeverOverRefunded` (`subscription_scale_race`): `scale_back` saves cuts
  computed from rows it read without their locks, over a refund recorded in
  between.
- `OwedIsRecorded` (`subscription_owed`): restating the full payment on a row
  that was cut keeps the cut and forgets the refund.
- `PromisedFits` (`subscription_supply`): the supply and the unminted requests
  are read at two moments; a mint confirmed between them is counted by neither.

Each run has the operations it needs and no others; `PROJECT.json` quotes the
sentence that is contradicted. Others, met while modelling and without a run:

- `_allot_ready` measures a batch by the rows the admin action loaded and admits
  the locked ones, each against the room of the whole batch, so a payment
  restated upwards in between takes the offering above its cap. `Choose` and
  `Admit` have it: `subscription_concurrent` with `"batch"` in `Work`,
  `Quantity` 3, `Price` 1, `Payments` {1, 2} and `Authorized` 6 violates
  `CapRespected`.
- The help text of `TransferOrder.min_quantity` says "0 means exact match only
  (min_quantity = remaining)"; matching (`Compatible`) and the serializer take 0
  as any fill.
- On a failed mint request whose attempt was opened again and not bound yet
  (`Reopened`), the trigger of migration 0042 refuses every write that leaves the
  row failed: the time `mint_service.recover` records when it raised (line 320),
  so that the error leaves the handler and the sweep's batch ends there, and the
  notes `_admit` saves (lines 138-140), so that the execution is refused. Both
  roll back; the row is one the sweep takes until a recovery that succeeds
  projects the attempt on it. `GuardsNeverRefuse` makes this
  state its one exception: without it the run is violated.
- `docs/architecture/offerings.md` calls `transition_offering` "the single
  chokepoint for every status change". An edit saves every column of the object
  its request loaded, so an edit that began on a draft and ends after a
  submission puts the draft's status back; and a review that loaded the offering
  in between approves, by `update_fields`, terms whose cap it never measured.
- Two orders that cross, created at the same time, each look for the other
  before it commits; both rest, and nothing looks at resting orders again
  (`CreateOrder` allows it). No document promises more.

## What is proved

Each theorem is for every value of the constants that its module's assumptions
admit: any number of operations, signers, workers, orders, rows and attempts,
and every bound. The assumptions (`ConstantsAssumption`, `MoneyAssumption`,
`TradingAssumption`, `SubscriptionAssumption`, `ClientAssumption`,
`SubjectAssumption`) give the constants their types and keep apart what the
tables keep apart: kinds of rows, and `None` from all of them; TLC evaluates
each in the runs of its module. Two say something more. `MoneyAssumption` takes
an allotment that the money received covers, which the register below is shown
to keep. `SubscriptionAssumption` takes finitely many rows
and a largest payment, without which a sum over rows means nothing.

**The journal** (`OutgoingJournalProofs`). `AppliedOnce` alone is not inductive:
that a step cannot apply a second attempt depends on what old workers carry and
on what was saved earlier. `JournalInv` adds that the rows agree with their
attempts (a signed row's current attempt is of its claim, earlier ones were
reverted), that a caller sends only saved bytes and brings only receipts the
chain has (`WorkersInv`), that the chain executes saved attempts or what another
program sent, and that below a signer's cursor, and below any count a caller has
read, every nonce is spoken for (`Spoken`): executed, in a saved attempt, or of a
transaction another program sent; the platform's own once each, in the order of
the signer's admissions. One lemma per group of actions
shows that it is kept (`ReadOnlyCalls`, `OpenKeeps`, `SignKeeps`,
`RowWritesKeep`, `OutsideKeeps`). From it follow type correctness, at most once,
that a replaced attempt is dead, that nonces are unique, that reservations leave
no hole of their own (`NoNonceGap`: with a key of the platform alone, none at
all; with a shared key the exception is a nonce the other program had sent a
transaction for when the provider counted it, which may be dropped since, and
`docs/architecture/outgoing-signing.md` promises no global nonce guarantee), that
nonces follow the admissions (`NoDelayedPreparer`), that a claim fences older
workers (`ClaimFencesWorkers`), that outcomes and acknowledgements recorded are
those of the attempt they are recorded of (`RecordedIsTrue`), that closure drains and, step by step, that the journal implements `OnceOnly`.

**Issuance** (`ShareIssuanceProofs`). `IssuanceInv` says that the rows agree
with each other, that the operation's claim is the one the execution was
retried for or the next, that every mint but the last was reverted, and that a
run that may still open an attempt sees an executing execution when it is the
current one. That last part is why a cancelled execution is safe: a run that
read it earlier fails its bind. From it follow the safety properties, that
restarts are authorised, that rows pass the triggers, those a step writes
(`GuardsPass`) and those it leaves alone (`UntouchedPass`), and the refinements to
`SharesOrMoney` and, for the operation, to `OnceOnly`.

**Trading** (`TradingProofs`). `MarketInv` relates five things. `RowInv`: what a
match's row says of its execution against what the chain has of it.
`SessionInv`: what a worker may rely on although it holds no lock, which is the
only protection of a send that was not recorded. `OneExecutor`: of the workers
of one match one at most can send. `OrderInv` and `BookInv`: an order's filled
quantity is what moved plus what its one live match reserves, which is what
makes a release exact after any restatement. With it `MatchesHoldOrders` and
`TermsStand` are inductive themselves. Every step is shown to be one `Effect` on
the book: it leaves the trades alone (`Stands`), restates an order that no match
holds (`Restates`), sets shares aside (`SetsAside`), settles (`Settles`) or ends
a match (`Ends`). The invariant's proof and the refinement to
`SettledOrReleased` both go through that list, so the refinement is one lemma per
effect.

**The register** (`SubscriptionsProofs`). `RegisterInv` says of each row that
money received, refunded, returned and held and the shares allotted for it agree
(`Sound`), and of each clerk which of the values it read still stand. Not all
do: intake and scale-back save columns of rows they loaded without a lock, and
`subscription_scale_race` shows what that costs. The theorems therefore name
what keeps them apart. `Undisturbed` is one clerk, or no intake and no
scale-back in `Work`; under it minted shares are paid for, closed rows are
empty, recorded refunds are the money sent back and none exceeds what arrived.
`Orderly` asks in addition for one clerk or no batch allotment, for the reason
given [above](#where-the-code-and-its-documents-disagree); under it the cap
holds. Each passing run of these properties satisfies its hypothesis. Without
them the properties fail: a scale-back beside a refund and a batch beside a
payment are the two violations named; intake saves in the same way. The cap is a
sum over rows. Induction principles of the library take a predicate, which the
provers cannot instantiate; here induction is stated over the *set* of the
arguments that have the property (`NumberInduction`, `SubsetInduction`), from
the existence of least numbers, and that is enough to show what a sum is and how
one row changes it (`SharesOf`).

**The clients of the journal** (`ClientProofs`, `CommandRowsProofs`). The operation by itself comes first: every step of every
client moves an operation as the journal's calls do or not at all (`Moves`), and
that alone keeps it `Sound`, so that no two transactions of a command can both
execute (`LiveOnce`) needs nothing of what rows say or runs carry. What a *row*
says does need both. For each client `Fits` relates a row and its operation: what
a status means for the attempt, which attempt a recorded transaction or a
retry names. `Suits` relates a run to both: what it was admitted with, and which
part of what it read is still true after anything others did. The point of
`Suits` is the same everywhere: a run that read its row before an operator
retried, refused or held it must find its bind or its recording refused by a
condition that is still there. `ClientInv` is the seven together. The lemmas
named `Keeps` show that it is kept and that every row passes its trigger, or is a
mint opened again that the step leaves alone (`MintPasses`);
from it follow `FailedIsOver` (a row that ended without effect has nothing left
that could execute, and what may still execute is work a sweep takes),
`GuardsNeverRefuse` and `CapOnlyRises`, for all seven at once. Of mints,
deployments and approvals, whose rows share nothing, a behaviour of the model
has one row that is not as it was before the journal, in the proofs as in the
runs.

**What the contracts did** (`TargetProofs`). `TargetIsTrue` compares the
platform's copy with the contract, which transactions of *different* commands
change, where `ClientInv` speaks of each command alone. What ties the two is
whether a transaction of a command was executed (`Done`). For each client an
invariant (`PauseTrue`, `NAVTrue`, `CapitalTrue`, `MintTrue`, `DeployTrue`,
`ApprovalTrue`, `WhitelistTrue`) says, of the one command that may be unresolved,
that the contract is already at its value if it is done and otherwise still
agrees with the copy; and of every run about to decide that what it read of the
contract is what the contract still has, for as long as its row lets it act on
it. Where a client runs beside others that change the contract (the capital
increase beside another tool, the whitelist beside a synchronisation), the
invariant says in which cases the copy may lag, as the property does. Most steps
execute nothing (`NoneDone`) and are covered by one lemma for each client; the
others are one lemma each. `ClientTrue` is the seven together, `ClientsAreTrue`
its theorem.

**Order intents** (`RecordsProofs`). `IntentsInv` says that an intent has
ended exactly when the challenge its row names is spent and no other of it is,
that an order is not in the book before its submission created it, and that
what was applied to it is what its actions record, with what each session read.
`OneEffect` follows.

**Evidence files** (`RecordsProofs`). `FilesInv` says of a run that writes,
attaches or purges that it is alone on its document (`Alone`), that the copy it
is about to name is fresh and that what it deleted is gone (`FileRunSound`), and
of a sweep that every upload it would settle has aged, and is among the names it
read if a row names it (`SweepSound`). That is why a sweep that read the names
before a row was committed cannot delete what the row came to name. From it
follow `FilesAreKept` and the types.

**Wallets** (`RecordsProofs`). `WalletInv` keeps an account of each holding:
its quantity and the deductions made since the balance was read are what the
chain had left when it was read (`Accounts`). To that it adds that an ended
transfer without a balance left to read was seen by both holdings it touches
(`TransferSound`), that a read whose version still stands will have seen every
outcome recorded (`RunSound`), and that of the transfers of one nonce one at
most was handed over (`OnceEach`), for the chain cannot be asked for more than
there is (`Covered`). The sums are over sets of transfers that need not be
finite, only those executed are; `SumOf` is what the fold of the community
modules gives (`SumIsOne`), and its lemmas say how one transfer changes it.

**Former holders** (`RecordsProofs`). `HoldersInv` says of a fold about to write
that what it found missing did depart, and that with the rows of the archive it
is everything up to its head that is still to be kept (`FoldSound`); heads are
behind today, and what is sent today changes no departure of an earlier block
(`DepartedBefore`). The model's `CessationsIn` runs the code's loop over the
entries, while `Departures` is stated from balances. That the two agree
(`RetainedIs`) is an induction over the prefixes of the history: after `i`
entries the loop's balances are sums of the first `i` transfers and its
cessations are, in order, the transfers that left their sender with nothing
(`Found`). `HolderAssumption` asks for a day after the first, without which no
block is ever final.

`RecordsAreSound` is the four invariants as one theorem, and with
`ClientsAreTrue` it gives `TypeOK` and `TargetIsTrue` of `commands`
(`CommandTypes`, `TargetsAreTrue`).

The invariants of the journal and of issuance were found with TLC on the
instances of `outgoing_retry` and `issuance_race`. `MintedOnce`, which says that
an issuance is minted once, is proved and not checked.

## What is only model-checked, and what is not modelled

Liveness (`SignedIsResolved`, `Resolves`, `UnclaimedEnds`, `SentIsDecided`) is
out of the prover's reach with its fairness and ENABLED.

Every invariant and every other action property that a passing run checks is a
theorem too, that of the register under the hypothesis its run satisfies.

Where a run exercises less than its property says. In `trading_settlement` an
order that was filled in part and settled is not matched again, since quantities
are at most 2: that its figure and its terms are kept over such a sequence rests
on `FilledIsExact` and `TermsAreKept`. In `commands` the wallet's two transfers
have a nonce each (`InOrder`), so that no two submissions compete for one
(`NonceRecordedOnce`) says something only in the theorem, which is for any
`NonceOf`. `SignedIsResolved` is checked with one operation: that later nonces
wait for an unsent one, and go on when it is sent, is not exercised.

Not modelled, with the reasons in `components`: the offering's lifecycle, a swap
approval that its owner revokes with another tool, the
contracts other than what the modules above use of them, the register (rebuilt
on every read), Bitcoin submissions and the recorded observations of blocks and
nonces, authentication, and the record keeping, provider and client code. Legacy
readers and tenancy policies change no state of their own.

## Plan

What the model leaves out and a next module would take up, in order of what
would hurt most: the offering's lifecycle around `Subscriptions`, with edits of
loaded objects (three of the hazards listed without a property are there); the
recorded observations of a wallet's transactions; submissions in Bitcoin.
