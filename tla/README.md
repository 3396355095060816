# Kuatia in TLA+

Kuatia is a double-entry ledger library in Rust: value lives in signed,
immutable *postings*; a *transfer* (who pays whom) is resolved into an
*envelope* (which postings are spent, which are created) that commits
atomically in a store. This directory specifies its core, checks it with TLC on
small instances and proves with TLAPS, for every instance, that the store keeps
its invariants, that the ledger on top of it implements an abstract ledger of
balances, and the safety of the SQL transactions, the multi-transfer workflows,
the inflight holds, the posting tables, the balance cache and the event feed.

    tlc -config MCLedger.cfg MCLedger        # a run: configuration and module
    tlapm LedgerProofs.tla                   # the theorems of one component

`PROJECT.json` lists the components, runs, mutants, source lines, findings,
hazards and theorems in machine-readable form.

## 1. Inventory

Paths are under `src/crates/`.

| Component | State | Operations | What makes it correct |
|---|---|---|---|
| Value types and ids (`kuatia-types`, `kuatia-core/src/hash.rs`) | none | builders, `envelope_id`, `account_hash` | equal content, and only equal content, gives equal ids |
| Posting resolution (`kuatia-core/src/posting_resolution.rs`) | none (pure) | `draft_movements`, `resolve_envelope` | the envelope moves exactly what was asked, with as few postings as possible |
| Validation (`kuatia-core/src/validate.rs`) | none (pure) | `required_state`, `validate_and_plan` | conservation per asset, ownership, pins, book policy, overdraft |
| Store (`kuatia-storage/src/{store,mem_store,events}.rs`) | accounts (version chains), immutable and live postings, transfers, events, cache points, books | `commit_envelope`, `commit_transition`, `create_account`, `append_event`, queries | no double spend; the log determines the postings; append-only; no gap in versions; events match the tables |
| Commit pipeline (`kuatia/src/ledger/commit.rs`) | none between calls; locals across awaits | `commit`, `commit_envelope`, `reverse` | behaves like an atomic ledger under any interleaving; receipts are durable; retries are idempotent |
| Account lifecycle (`kuatia/src/ledger/{lifecycle,transition}.rs`) | as above | `create_account`, `freeze`, `unfreeze`, `close` | an acknowledged change happened; closed accounts are empty |
| Balances (`kuatia/src/ledger/balance.rs`) | append-only cache points | `balance`, `compute_balance`, `append_cache_point` | the cached read equals the live sum |
| Inflight holds (`kuatia/src/inflight.rs`, `inflight/projection.rs`) | none of its own: accounts and tagged transfers | `authorize`, `confirm`, `confirm_all`, `void`, `inflight_status` | every authorized cent is settled once; holds close empty; funders get their own money back |
| Saga (`kuatia/src/saga.rs`) | receipts of the legs done | `run_movements` | all legs, or none after compensation; it always returns |
| Posting primitives (both stores) | posting tables with reservations | `reserve_postings`, `release_postings`, `deactivate_postings`, `insert_postings`, `get_posting_states` | each posting moves along one lifecycle; a claim has one winner; readers see true states |
| Event log (`events.rs`, both stores, `autoid.rs`) | events under sequence numbers, id counter | `append_event`, `get_events_since` | one row per keyed event; a consumer that tails the log misses nothing |
| SQL store (`kuatia-storage-sql`) | the same tables in SQL | the same trait, one transaction per write | acts like the in-memory store on Postgres and on SQLite; no deadlock |
| Money, account codes (`kuatia-money`, `account_code.rs`) | none | checked arithmetic, parsing, encoding | no silent overflow; encoding round-trips |
| Dashboard, error types, migrations | none | display, conversion | not part of the core |

How they interact: a client calls a `Ledger` method; the method is a sequence
of `await`ed store calls with pure computations between them. There are no
locks across calls, so any two clients interleave at every await. The store
serialises each call (in memory: `RwLock`s held for the whole call); the SQL
store runs a call as one transaction of several statements, which interleave
with those of other sessions. Background tasks exist only for cache points
(`spawn_append`).

What is hard here: state read before an await and used after it (accounts,
pins, balances, "is it empty?"); double spends; retries of requests whose
outcome is unknown; a transition computed from an old version; a timestamp
or a sequence number taken before the write becomes visible; a request that
stops between two of its commits; a compensation that fails; statements of two
transactions that read before either commits; row locks taken in several
orders; an answer to COMMIT that is lost. The list with source lines is `hazards` in `PROJECT.json`.

## 2. Modules

| Module | Models | Notes |
|---|---|---|
| `LedgerTypes` | the value types, hashes, transfer builders | an id *is* the hashed content: collision-free hashing |
| `PostingResolution` | `posting_resolution.rs` | both passes as operators |
| `Validate` | `validate_and_plan` | one conjunct per check |
| `CommitStore` | tables and atomic writes of the store | state: `accounts`, `immutable`, `active`, `transfers`, `events` |
| `BareStore` | the store driven by *any* caller | the most hostile environment: any envelope, any stale transition |
| `LedgerReads` | what operations read and build | shared by `Ledger`, `Inflight`, `Saga` |
| `Ledger` | `commit`, `commit_envelope`, `reverse`, lifecycle | one action per store call, several clients |
| `AbstractLedger` | what the ledger promises | balances, account status, atomic conserving moves |
| `Resolution` | one resolution on any wallet | reference definitions for the pure code |
| `BalanceCache` | cached balance of one (account, asset) | commits with a delay between timestamp and visibility |
| `Inflight` | `inflight.rs` and its projection | a request is a queue of store calls |
| `Saga` | `run_movements` | several workflows beside other clients; a ledger call is two steps |
| `SqlCommit` | the SQL store's writes, one statement per step | Postgres and SQLite; what the databases do is marked external |
| `PostingLifecycle` | what trait `PostingStore` promises | one state per posting |
| `PostingTables` | the posting primitives of both stores, row by row | chunks, row locks, deadlocks, lost answers |
| `EventFeed` | sequence numbers, the event table, a consumer | both stores |
| `Sorting` | sorting a set by counting what comes before, and part of a sequence | used where the code sorts |
| `CollectionProofs` | nothing: lemmas about sums, induction and sorting | TLAPS |
| `CommitStoreProofs` | nothing: lemmas about each write of the store, and about resolution, validation and reversal | TLAPS |
| `LedgerProofs` | nothing: the theorems about `BareStore`, `Ledger` and `Resolution` | TLAPS |
| `WorkflowProofs` | nothing: the theorems about `Saga` and `Inflight`, the services on top of the ledger | TLAPS |
| `SqlCommitProofs`, `PostingTablesProofs`, `BalanceCacheProofs`, `EventFeedProofs` | nothing: the theorems about the module each is named for | TLAPS |
| `MC*` | instances for TLC | |

`Validate` and `PostingResolution` extend `LedgerTypes`, and `Resolution` both; `CommitStore` extends
`Validate`; `BareStore` extends `CommitStore`; `LedgerReads` extends
`CommitStore` and `PostingResolution`; `Ledger`, `Inflight` and `Saga` extend
`LedgerReads`; `SqlCommit` extends `CommitStore`, whose tables are what is
committed; `Ledger` instantiates `AbstractLedger`, and `PostingTables`
`PostingLifecycle`, with a refinement mapping.

### State and steps

*Store.* `accounts[a]` is the version chain of `a`, empty when there is no such
account. `immutable` and `active` are the posting tables; a posting that is in
the first and not in the second is spent. `commit_envelope` is one step with
the guards in the code's order of meaning: already committed, involved accounts
open, consumed postings active, floor kept; then spend, create, record,
announce. `commit_transition` is `TransitionApplied`,
`TransitionAlreadyApplied` or refused. Events go through the deduplication key.

*Ledger clients.* `pc` names the next store call. `Resolve` (or
`ReverseTransfer`, `Resubmit`) builds the envelope; `PinSnapshots`, `Precheck`,
`LoadAccounts`, `LoadBalancesAndPlan`, `StoreCommit` follow, each a step.
`close` reads "is it empty?" (`BeginTransition`), reads the account
(`ReadAccount`), writes (`StoreTransition`). `create_account` and its event are
two writes. `Abandon` ends a request between any two calls: a crash, a timeout,
a dropped future. `Resubmit` is the retry.

*Balance cache.* Time is a counter. `Stamp` takes a commit's timestamp, `Land`
makes it visible (or the store rejects it). A reader takes a point, then folds
the tail; an append chooses watermark and base point, folds its window, writes.
Reading the clock and asking for the closest point are one step: the clock is
read just before the query, and a reading that is older only makes both choose
an older point, which other behaviours contain.

*Inflight.* Each client has a queue of tasks, which are the store calls its
request still has to make; a task may turn into others (a `refund` into one
commit per funder, a commit into the store call that applies it). A request
fails at the first error, or breaks off (`Interrupt`), and what it did stays.
`Ledger::commit` is two steps here, everything up to validation and then the
store call; a validation that would be made on older reads can only fail, which
`Interrupt` covers.

*Saga.* A runner commits its legs in order (`CommitLeg` reads and validates,
`StoreLeg` is the store call) and, after the first refused one, reverses its
receipts from the last to the first (`ReverseNext`, `StoreReversal`). It may run
its list again after a failure. Other clients spend and freeze in between.

*SQL writes.* A session's `pc` names its next statement: `ReadReceipt`,
`ReadHead`/`LockHead` per account (look the row up, then get its lock),
`ClaimConsumed`, `InsertAndCheckFloor`, `RecordTransfer` for a commit;
`ReadHead`/`LockHead` and `MoveHead` or `AppendVersion` for a version;
`LookForAccount`, `InsertAccount` for a new account. What a transaction wrote is
seen by others at its COMMIT, in one step. On Postgres a statement reads what is
committed and a locking read waits for the row; on SQLite a transaction keeps
its first snapshot and fails when it wants to write on an old one. `Disconnect`
ends a transaction at any statement, and `Commit` may land without an answer.

*Posting primitives.* `Match` finds the rows of the next chunk, `TakeRow` takes
them one by one in any order, waiting for rows others hold and matching again;
`InsertRow` inserts behind the newness gate. In a `"Serial"` store (SQLite, the
in-memory store) one writer runs at a time. `ListPostings`, `ReadLive`,
`ReadPresent` are `postings_with_state`, whose reads share no transaction.

*Event feed.* `ReadClock`, `TakeCounter`, `InsertRow` are an append to the SQL
store, with other appends and the consumer in between; `AppendLocked` is the
in-memory one. A sequence number is the millisecond times `TailRange` plus a
counter modulo `TailRange`, 2^23 in the code. Cache points take their ids from the same
counter (`append_balance_projection`). The history variable `late` holds the numbers that
were behind the cursor when their row became visible, because the consumer read while the
append was under way; a row that is still ahead of the cursor then must be delivered.

### Abstractions

- Hashes are injective. Account book and metadata, posting payer and envelope
  user data that no guard reads are omitted.
- Amounts are unbounded: every sum in the code is checked and fails the request
  on overflow.
- `Resolve` reads the payer's postings and its account in one step. The only
  thing it uses of the account is the overdraft flag, which no operation
  changes; the store re-checks the postings.
- `LoadBalancesAndPlan` is several awaited reads in the code (commit.rs:65-79) and one
  step here: the balances, key by key, and the book. A plan made on balances of different
  moments can differ only in its answer about the floor, which the store checks again.
- `CloseHold` in `Inflight` asks whether the hold is drained and reads its head in one
  step, with the transition a step of its own. Nothing in between can refill a drained
  hold (`CommitKeepsDrained`, section 4).
- What other clients do in `Saga` (`OtherCommit`, `OtherTransition`) is a ledger call in
  one step; `Ledger` has its steps.
- Equal-valued candidates are taken in one fixed but arbitrary order (the store
  orders by id, a hash).
- Errors are one value, `"error"`; which error is not distinguished.
- Reservations exist in the store's interface, but no ledger operation makes
  one, so `active` is the live set; `PostingTables` is about them.
- Batches of more than 500 ids are split into statements in `PostingTables` only;
  in `SqlCommit` the rows of one claim are one statement, under the head locks.
- In `EventFeed` the clock does not step back (autoid.rs:79 reads the system time,
  which may) and one process appends: `AutoId` is written for one process, and several
  processes on one database would each have a counter. Both would be further causes of
  a missed event.
- A balance read inside `Inflight` is the live sum; that the cached read equals
  it is what `BalanceCache` is about.

## 3. Runs

All runs finish within minutes on two cores. Each passing property has a mutant
(operators named `X_Something` next to `X`) that breaks it. The types of the
store's tables are checked in `store` and proved; `Ledger`, `Inflight` and `Saga`
write the same tables through the same operators and state no type invariant of
their own.

| Run | Instance | Shows |
|---|---|---|
| `store` | 3 accounts, 7 envelopes (two deposits, competing payments, reversals, an overdraft), Alice to version 3, Bob to 2 | with no validation above it, the store keeps its tables consistent, the floor, and blocked accounts untouched; records are append-only |
| `ledger` | 2 clients, 4 requests, 3 accounts (one opened meanwhile), deposit, refused deposit, payment with change, overdraft, reversal, retry, freeze/unfreeze/close | conservation, offsets only where permitted, durable receipts, and refinement of `AbstractLedger` |
| `resolution` | every wallet of up to 4 postings with values -2..3 and every request of one or two parts | resolution moves what was asked, spends the fewest postings, agrees with validation |
| `cache` | 3 commits with distinct partial sums, 2 readers, grace 2, lag at most 1, 5 instants, 2 appends | every cached read is the live sum; points are final |
| `inflight` | 2 clients, 4 requests, a trade funded by two accounts with two holds, one request breaking off | every authorized cent is confirmed, voided or held; no hold closes with money in it |
| `saga` | 2 workflows that share a leg and compete for postings, 2 attempts each, a step of others (a payment, freeze/unfreeze) | an error means undone, Ok means in force, an unwinding gives up only for cause, every workflow returns |
| `sql` | 2 sessions, 3 transactions, Postgres and SQLite, two withdrawals that break the floor together, a payment, a deposit and its spending, freeze, close, a new account | what a transaction checked still holds when it commits; it acts like one step of `CommitStore`, or is a replay; no transaction waits for good |
| `postings` | 2 callers, 3 postings, 2 ids per statement, 4 calls, Postgres and serial stores | refinement of `PostingLifecycle`; one winner per claim; a commit's claim is all or nothing; true states; every call returns |
| `feed` | 2 writers, 3 appends, a keyed and an unkeyed event, a counter of 3 values starting anywhere and shared with cache points, 2 milliseconds, pages of 1 | one row and one answer per keyed event; the consumer misses only what is excused, and gets the rest |

The bounds are the smallest at which the interesting cases happen: two clients
for a race, a third and fourth request for a retry or a reversal on top of it,
three commits so that a missed one is told from a doubled one, a trade with two
funders of different amounts so that a payout is divided and change is left,
two ids per statement so that three ids are two statements of one transaction,
as many sequence numbers as appends so that the counter wraps and no number is
used twice in a millisecond. In the `resolution` run the zero-valued postings
and equal values matter: they are the ones that are never selected, or selected
in arbitrary order.

`CHECK_DEADLOCK FALSE` is set where the bounded number of requests or
envelopes runs out. The `cache` and `saga` runs check deadlock.

### Fairness

- `sql`: weak fairness of each session's statements. A statement whose row is
  free is run; nothing is assumed of a statement that waits, nor of the deadlock
  detector, so `EveryTransactionEnds` says that no circle of waiting sessions
  arises. It rests on the ledger sorting the accounts (commit.rs:220).
- `postings`: weak fairness of each caller's statements and, for Postgres, of its
  deadlock detector. Here circles do arise, because a scan takes rows in an order
  the code does not fix, and the detector is what the code relies on.
- `saga`: each runner goes on until it returns. `run_movements` is a loop of awaited
  calls without locks or waiting, so this only says that the process runs and the
  store answers. Written as "infinitely often idle or infinitely often moving",
  which is weak fairness of `Step` since a runner that is not idle can always step.
- `feed`: weak fairness of the consumer, which asks again as long as there is
  something after its cursor. Nothing is assumed of writers.

No fairness is assumed of failures, of new requests or of other clients. The
remaining runs check safety only.

### Disagreements

Each is a run of one property that a comment states and the code violates; the
quotations are in `findings`.

| Run | Statement | What happens |
|---|---|---|
| `transitions` | a transition overtaken by another is refused | it is reported as already applied, and `freeze` returns Ok on an account that is not frozen |
| `sql_revive` | a replayed insert does not re-activate a spent posting | `commit_envelope` inserts the live row without asking whether the posting was new; on Postgres two commits of one deposit with a spend in between make the spent posting spendable |
| `saga_chain` | several transfers behave as one all-or-nothing workflow | when a leg spends what an earlier leg brought in, reversing it creates a new posting, the earlier leg's own stays spent, and that leg cannot be reversed |

More behaviours are reachable in the models, or follow from them, and have no run
of their own:

- `Ledger`: pins are compared before the store call and not inside it, so a transfer
  can commit against account versions that were replaced since. doc/architecture.md:191
  says that pins prevent it. What the store re-checks (open, live, floor) is enough
  for `ImplementsAbstractLedger`.
- `Ledger`: `close` asks "is it empty?" and transitions in two calls; a transfer
  committed in between is locked in the closed account (lifecycle.rs:69 says that a
  closed account holds no live postings).
- `Ledger`: the id of a transfer covers its pins; the same request resubmitted after an
  account changed version is applied again (doc/architecture.md:165).
- `Ledger`: reversing the reversal of a deposit builds the deposit's own envelope, whose
  receipt is returned while nothing is applied.
- `Inflight`: a void that is retried after it broke off starts over with the first
  funder, out of the share of the others (projection.rs:269).
- `Inflight`: a failed `authorize` leaves its holds, and the trade is refused as already
  inflight from then on (inflight.rs:157).
- `Inflight`: two equal confirms that race share one envelope and one delivery.
- `Inflight`: of two settlements that both found the hold drained, the slower one
  returns the error of `close` although its settlement succeeded.
- `Inflight`: a void that loses a race returns before `close_if_drained`, so a
  drained hold can stay open.
- `Inflight`: `inflight_status` reads transfers and balance in two calls; with a
  settlement in between the line does not add up.
- `BalanceCache`: with `MaxLag` equal to `Grace`, a commit that lands a whole grace
  period after its timestamp is missed by a cache point, and every read through
  that point is wrong. ADR-0019 assumes that it never does, and so does the run.
- `Saga`: a leg that cannot be built (a deposit of `i64::MIN`) returns from the loop
  with `?` and leaves the earlier legs in force (saga.rs:78).
- `Saga`: two workflows with an identical leg get one transfer; when one of them fails it
  reverses the leg of both. A retried workflow gets the receipt of its own reversed
  leg. `OkMeansApplied` excepts exactly these (`shared`).
- `SqlCommit`, Postgres: a locking read that waited for a head row which its holder
  replaced finds no row, and the call fails with "account missing".
- `SqlCommit`, Postgres: of two commits of the same consuming transfer at once, the
  slower one is answered DoubleSpend and not with the receipt.
- `SqlCommit`, Postgres: once a replayed deposit has made a spent posting live again,
  the transfer that spent it passes its guards a second time, if it looked for its
  receipt before the first time landed, and spends the posting again. That takes three
  sessions; the attempt to prove `AtomicUnlessReplayed` showed it, and `Replay` says so.
- `PostingTables`: `get_posting_states` on ids that the caller did not list first can
  report a posting as spent that was inserted between its two queries.
- `EventFeed`: an event whose append was under way when the consumer read past its number,
  or whose millisecond saw the counter wrap, is behind the cursor and never
  delivered; ADR-0010 speaks of one ordered, tailable feed.

## 4. Theorems

Every invariant and action property of the passing runs that is not about liveness is
proved, except `OkMeansApplied` of `saga`, for every value of the constants that the named
assumptions allow. Each inductive invariant was checked by TLC before it was proved. Proofs
are hierarchical: one lemma per action, below it one step per conjunct the action can
disturb.

### Store (`CommitStoreProofs`, `LedgerProofs`)

Driven by any caller, the store keeps

    StoreInv == StoreTypeOK /\ PostingsFromLog /\ LiveIsUnspent /\ NoDoubleSpend
                /\ VersionChain /\ EventsMatchTables /\ EventsTellTheTruth

(`StoreInvariant`), hence each part of it; every step is append-only and leaves
blocked accounts alone (`AppendOnlyThm`, `BlockedAccountsUntouchedThm`); no account
that forbids overdraft goes below zero (`OverdraftFloorThm`). Assumptions:
`EnvelopesAssumption` (what callers commit is well-typed), `MaxVersionAssumption`.

Why the conjunction: none of the parts is inductive alone. That a commit does not
spend twice (`NoDoubleSpend`) needs that whatever a stored transfer consumed is no
longer active (`LiveIsUnspent`); that needs the new posting ids to be fresh, which
follows from `PostingsFromLog` and the idempotency guard (`NewIdsAreFresh`). That an
event is never wrongly dropped needs the keys of the log to be tied to the tables
(`EventsMatchTables`), and that the remaining event has the right kind needs gap-free
versions (`VersionChain`), from which a stale transition is shown to write nothing new
(`AlreadyAppliedIsStutter`). The floor needs `FloorInv`, which is `StoreInv` with finite
tables and `OverdraftFloor`: after a commit the balance of a key is what the guard
projected (`CommitBalance`), and keys it does not touch keep theirs.

`CommitStoreProofs` has one lemma per write and conjunct, and what resolution, validation
and reversal guarantee of an envelope (`Checked`). They mention no caller, so the proofs
about `Ledger`, `Saga`, `Inflight` and `SqlCommit` use them as they are.

Sums and sorted sequences are functions of finite sets whose laws need induction. The
library's induction theorems cannot be used with these provers; `CollectionProofs`
argues by a smallest counterexample instead (`FiniteInduction`), and derives the laws
of sums (disjoint unions, renaming, grouping by key) and of sorting.

### Ledger (`LedgerProofs`)

    LedgerInv == FloorInv /\ TransfersOK /\ Conservation
                 /\ OffsetsOnlyWherePermitted /\ ClientsOK

`ClientsOK` says what each client between two of its store calls has read and checked
and may still rely on: its envelope is typed and, past validation, conserves each asset
and creates no forbidden offset. It survives other clients' steps because the store
only grows (`StoreGrows`): postings and account versions are never changed, and no
operation changes the overdraft flag. `TransfersOK` says that stored transfers were
validated, which a reversal relies on. From it: `ConservationThm`,
`OffsetsOnlyWherePermittedThm`, `LedgerStore` (the ledger keeps `StoreInv` and the
floor), `ReceiptsAreDurableThm`, and `LedgerImplementsAbstract`: the initial states map
to initial states of `AbstractLedger`, and every step to one move, one change of status
or a stutter. The proof needed `AbstractLedger` to open accounts in any status, since
`create_account` takes the flags it is given. Assumptions: ids are pairs of integers,
finitely many accounts; transfers, flags and transitions are typed (`IdsAssumption`,
`ExistingAssumption`, `TransfersAssumption`, `OpeningAssumption`, `TransitionAssumption`).

### Resolution (`CommitStoreProofs`, `LedgerProofs`)

The two passes are proved to do what the reference definitions of `Resolution` say, for
every finite wallet and every request: `MovesWhatWasAskedThm`, `SpendsFewestThm`,
`ValidationAgreesThm`. There is no induction over the data; each pass is described by what
it returns:

- `DebitsNet`, `DraftFacts`: the drafted debits are the keys that pay net, each once, with
  the net amount; the credits are the movements that bring money in.
- `SelectsFewest`: largest-first selection covers the amount, and no smaller set of
  positive postings of the payer does, because any set is worth at most the largest
  postings of the same number (`SumBound`).
- `TakesDebit`, `CoverMoves`: one debit takes postings worth its amount plus what it gives
  back, or everything and an offset.
- `ResolvedMoves`: assembled, no posting is consumed twice, and on every (account, asset)
  what is created is what is consumed plus what the movements bring in minus the net debit.
  `ResolvedShape`: which postings these are.

`ValidationAgreesThm` sums `ResolvedMoves` over the accounts (`ResolvedConserves`), where
the movements cancel, and shows that only accounts that may overdraw get a negative
posting and that no other goes below zero (`ResolvedOffsets`, `ResolvedFloor`).
Assumptions: `HoldersAssumption` (the accounts are open; a wallet has a negative posting
only where overdraft is allowed, which `OffsetsOnlyWherePermittedThm` shows of the ledger),
`PaymentsAssumption` (what `pay`, `deposit` and `withdraw` build: no account has a negative
net debit, and only an account that may overdraw receives a negative amount; on other
requests resolution promises nothing and validation is what refuses them), `IdsAssumption`.

### Multi-transfer workflows (`WorkflowProofs`, part 1)

    SagaInv == the store is a CheckedStore, every runner is RunnerOK,
               and no two runners hold a receipt that is not shared

`CheckedStore` is `FloorInv` with a log of validated transfers. `RunnerOK` ties what a
runner holds to the log: its receipts are stored; those it has taken off `undo` are
undone; what it is about to store is `Checked`, that is, typed, conserving and without
forbidden offset, facts that outlive other clients' steps. From it: `FailedMeansUndoneThm`,
`CompensationFailsForCauseThm`, `ReversesOwnLegsThm`. The second one shows that validation
and the store's floor can refuse no reversal: pins are taken in the same step, the reversal
conserves because its original did, and a floor is broken only through an account whose
balance the reversal lowers, which for an account that forbids overdraft consists of
positive postings the reversal must find live. The proof attempt corrected the property:
a leg that two workflows share can be reversed twice at two versions of an account, and
the second reversal fails on a spent posting although no client but the workflows is
active; `Stuck` includes this. Assumptions: `RunnerAssumption`, `OpeningAssumption`,
`RequestsAssumption`.

### Inflight holds (`WorkflowProofs`, part 2)

    InflightInv == StorePart /\ todo is a function
                   /\ every queue has Shape and TasksOK /\ ClaimsOK
    StorePart   == CheckedStore /\ LogExplained /\ FiniteLog /\ BooksOK /\ HoldsOK

Neither property of the run mentions what requests have in mind, and neither is inductive;
the invariant adds the log, the holds and the queues.

- `LogExplained`: every stored transfer plays one of two parts. An authorization consumes
  nothing of any hold and creates on each hold what its legs say (`AuthorizeOK`); a
  settlement consumes postings of one hold only and creates on no other, and on that one
  only change (`SettlesFrom`). That an envelope does so follows from what resolution returns
  (`ResolvedShape`, `ResolvedMoves`; `BuiltParks`, `BuiltSettles`). A settlement that finds
  nothing to spend could still leave a negative posting on the hold; it does not, because a
  hold forbids overdraft.
- `BooksOK`: the balance of a hold is the sum, over the log, of what each transfer moved on
  it. Summed by part (`PartMoves`, `BooksAddUp`), this is the equation of
  `HeldIsAccountedFor`, with change counted as not settled.
- `ClaimsOK`: a client whose queue still holds the commit of an authorization, and no longer
  the opening of hold `h`, is the only such client for `h`; `h` exists, and nothing was
  parked in it. The reason is that `create_account` refuses an account that exists; the
  claim passes from the `hold` task to the commit and ends with it. So at most one
  authorization ever pays into a hold.
- `HoldsOK`: holds forbid overdraft, and a closed one is `Drained`, that is, paid into and
  empty. A drained hold stays so (`CommitKeepsDrained`): a second authorization is excluded
  by `ClaimsOK`, and a settlement only puts back change of what it spends there. This is
  why the gap between `close_if_drained` and the transition does no harm: nothing that
  runs in it can refill the hold.
- `TasksOK`: what each task was derived from still holds, such as a leg on the hold of a
  `sweep` or `Checked` of an envelope to submit. `Shape`: the commit of an authorization is
  the last task of its queue.

Results: `InflightInvariant`, `HeldIsAccountedForThm`, `ClosedHoldIsEmptyThm`. Assumptions:
`IdsAssumption`, `ExistingAssumption`, `TradesAssumption` (distinct trades have distinct
subaccounts, which in the code are hashes) and `HoldsAssumption`: trades are typed, no hold
exists before it is authorized, and no trade names a hold as payer or destination. The
last one is a condition on the clients: the code does not look at the `INFLIGHT` flag when it
commits, so a transfer that is written to or from a hold by hand is accepted, and the
hold's books then do not add up.

### SQL transactions (`SqlCommitProofs`)

`SqlInv` is `SqlTypeOK`, well-formed committed tables (`TablesOK`), a call that fits each
session's next statement (`CallOK`) and, for each session whose snapshot is current,
what its statements have established so far (`ChecksOK`): the accounts off its list are
usable and, on Postgres, locked by it; from the claim on its inputs are live; at the
record statement its floors are kept; on SQLite the transfer is not yet stored. The
step that matters is somebody else's COMMIT. On Postgres it touches only accounts its
session has locked, or one that did not exist (`TouchesOnly`), and what a transaction
reads of untouched accounts stays the same (`LiveBalanceStays`, `BystandersChecksBusy`);
on SQLite it makes every other snapshot outdated (`CommitKeeps`). Results:
`SqlTypes`, `GuardsHoldAtCommitThm`, `AtomicUnlessReplayedThm`. The last one also needs
that the balance read with the rows inserted is the one the in-memory store projects
(`LiveIsProjected`), and that a repeated record adds no row (`RecordAgain`). `StoreInv`
does not hold here: `append_account_version` announces nothing and a replay breaks
`LiveIsUnspent`. Assumptions: `AccountAssumption`, `EnvelopesAssumption`,
`SessionAssumption`, `DialectsAssumption`, `BoundsAssumption`.

### Posting primitives (`PostingTablesProofs`)

`TxInv` adds to the types that a transaction's lock table and its written rows agree,
that its phase fits its call (`PhaseOK`), and that what it will write over is still the
row it matched (`WritesOK`); readers add `ReadersOK`, what each has found against what
the posting was meanwhile. Results: `TablesTypes`, `SingleWinner`, `WholeClaims`,
`TrueStates`, and `TablesImplementLifecycle`, the refinement of `PostingLifecycle`.

### Balance cache (`BalanceCacheProofs`)

`CacheTypes` holds always. `FinalPoints` and `LiveReads` have the hypothesis
`GraceExceedsLag == MaxLag < Grace`, which is the assumption of ADR-0019; without it they
are false (section 3). `SettledInv` says that each point and each half-finished append
has a watermark a grace period old, below which no commit is under way, and the sum up
to it.

### Event feed (`EventFeedProofs`)

`FeedInv` bounds how far the counter can have come since each number was taken, so that
numbers are distinct (the bound is `MaxAppends <= TailRange`: no more numbers asked for
than the counter has values), and relates each row behind the cursor to what the consumer
got or why it missed it. Results: `FeedTypes`, `ReplaysAgreeThm`, `MissedForCauseThm`.

### Only model-checked

- Liveness under fairness, which is beyond these provers: `EveryTransactionEnds`,
  `EveryCallReturns`, `SagaEnds`, `EventuallyDelivered`.
- `OkMeansApplied` of `Saga`. It does not hold of every instance: ids are by content, and an
  ordinary payment back, or a later leg of the same workflow, can have exactly the content
  of a leg's reversal, which is what `Undone` looks for. `ReversesOwnLegsThm` is the part
  that is about the workflows themselves.

## 5. Not modelled, and the plan

Not modelled: the dashboard, error mapping, migrations and row conversion (I/O
and display); canonical byte encodings and account codes (used only as injective
ids); the parsing and formatting of amounts; listing and pagination queries (no
state); books, beyond the policy check; the SQL tables of cache points; the locks
the in-memory store takes inside a call, all in one order.

Next, in this order:

1. The width of posting indexes and of amounts, with small widths.
2. Account codes: the permutation with cycle walking and the check digits at small
   widths, against their round trip.
3. Book policies in the ledger instance; the one-word status of an inflight.
