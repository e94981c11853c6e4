# A verification of the Open Job Protocol

TLA+ models of the Python package `ojp` (`src/src/ojp`), model-checked with TLC,
and proofs about them checked with TLAPS. Paths below are relative to `src/`.

## 1. The system

A *requester* publishes a *root job*, funds it from a mock wallet, and a *worker*
claims it under a lease. While the lease is active the worker may hand parts of the
work to *child jobs*, paid out of the root's deposit under a subcontract policy. A
submission that passes the fixed verifier closes the lease and opens a review window:
the requester approves, disputes, or lets the scheduler approve. A dispute is decided
by a second verification, or by the stored PASS when the arbiter does not answer.
A job that is not submitted in time expires. Money moves only between accounts of the
root's ledger and the participants' wallets; payouts and refunds are first *reserved*
under a unique business key and then *transferred* with a receipt.

All state is in one SQLite database that CLI calls, MCP server calls and scheduler
processes open independently. Every command runs in one `BEGIN IMMEDIATE`
transaction (`db.transaction`), samples the clock inside it and is rolled back when it
raises, so commands are atomic with respect to one another; what is *not* atomic is
the scheduler (it reads targets in one transaction and acts in others), a payment
(transfer and mark are two transactions), an arbitration (it runs the verifier
outside any transaction), the precheck of `approve` (a read transaction before the
write transaction) and the initialisation of a database (one transaction for each
migration).

### Inventory

| Component | State | Operations | Hard behaviour | What makes it correct |
|---|---|---|---|---|
| Job lifecycle, `service.py` | `jobs`, `job_versions`, `leases`, `submissions`, `acceptances`, `disputes` | `create_root`, `fund_root`, `claim`, `heartbeat`, `abandon`, `create_child`, `submit`, `approve`, `dispute`, and `_run`s of the system actor | claims, verdicts, time-outs and ticks race; a parent and its children end independently | one decision per job; states, leases and disputes agree; a parent is not reviewed with live children; submitted work never expires |
| Subcontract budget, `service.py`, `ledger.py` | `budget_accounts` per root and child | `allocate_child_work_in_tx`, `get_subcontract_usage`, the two failure returns | a child fails after its parent ended; usage mixes reserved, payable and paid | limits hold at all times; nothing is stranded; parents cannot touch children's money |
| Ledger, `ledger.py` | `budget_accounts`, `journal_*`, `mock_wallets` | `apply_journal`, approvals, refunds, `fund` | one refund bucket for several payments | conservation per root; no negative balance |
| Payments, `service.py`, `ledger.py` | `payment_operations`, `transfer_receipts` | `process_single_payment`, `process_payments`, `refund`, `retry_payment` | concurrent settlers, crash between transfer and mark, retries | paid once, the reserved amount to the reserved payee; a reservation is always covered |
| Scheduler, `scheduler.py` | none of its own; `operations` rows with derived ids | `tick_once`, `watch` | stale previews, replays, one failing target ends its group, two ticks at once | every effect is one legal step; every job ends |
| Clock, `clock.py` | `runtime_clock` | `initialize_database`, `assert_mode`, `now_for_write_transaction`, `now_for_read_snapshot`, `set_test_now` | the real clock is not part of a snapshot and may step back; several processes initialise one file | one mode, chosen once; a test clock that never goes back; an interrupted initialisation can be completed |
| Idempotency, `service.py` | `operations` | `_run_idempotent`, `_reject_operation_id_reuse`, the precheck of `approve` | lost answers, a busy database, reuse of an id by another command | one decision per job; the same answer each time; one payment told to all |
| Migrations, `db.py`; opening in `cli.py`, `scheduler.py`, `mcp_server.py` | `schema_migrations`, the file | `migrate`, how each kind of process opens the file | a process dies between two migrations; a process that creates an empty file | as for the clock |
| Verification, `verification.py` | none | `verify_artifact`, `arbitrate` | pure function of the published inputs | independent of what the worker claims |
| Direct fund commands, `service.py` 3842-4239 | as the ledger | used by tests only | - | - |
| Queries, demo data, parsing and formatting of CLI and MCP | - | - | I/O and formatting | - |

`PROJECT.json` lists the same components with what is modelled, and the hazards
(what a test would hardly reach) with their lines and the properties that watch them.

## 2. The modules

* **`JobProtocol`** - the core. One variable per group of columns, one action per
  command. A raised `OjpError` is no step, as its transaction is rolled back.
* **`JobProperties`** - the invariants and action properties of the core.
* **`JobProofs`** - the proofs of those that do not speak of sums; **`JobMoneyProofs`** -
  of those that do, with the laws of **`SumTheorems`**.
* **`Scheduler`** - extends the core with the steps of `tick_once` in each of several
  scheduler processes and with the recorded operations; the users' commands are those
  of the core. It has the core as its abstract specification (`CoreSpec`).
* **`SchedulerProofs`** - the proof that it implements it, and what is true on the test
  clock only.
* **`Settlement`** - payments in detail: the two transactions of
  `process_single_payment` in each of several processes, their stale lists, failures,
  back-off and the commands `refund` and `retry_payment`. **`SettlementProofs`**.
* **`PayOnce`** - the abstract specification of payments. `Settlement` and the core
  both implement it (**`JobOnceProofs`** for the core).
* **`Idempotency`** - calls, operation ids and answers. **`IdempotencyProofs`**.
* **`Startup`** - the database file, its migrations and the row of the clock.
  **`StartupProofs`**.
* **`ChooseOnce`** - the abstract specification of the clock mode, which `Startup`
  implements.
* **`MCJobProtocol`**, **`MCScheduler`**, **`MCSettlement`**, **`MCIdempotency`**,
  **`MCStartup`** - instances for TLC.

How they fit together: `Scheduler` extends `JobProtocol`. The core has payments that may
be tried at any time and takes an operation id for granted; `Settlement` and
`Idempotency` look into these two with a coarse job (a payment is reserved or not; a job is
leased, open for a decision on its submitted work, approved or closed), and `PayOnce` is where
the core and `Settlement` meet: both hand over what was reserved, once. `Startup` comes before everything else.

Definitions whose names end in `_Fault` are seeded mistakes: the definition that
follows, with one plausible error. Nothing uses them except experiments that put
them in its place to see that a property notices.

### How `JobProtocol` corresponds to the code

| Model | Code |
|---|---|
| `state`, `requester`, `parent`, `task`, `budget`, `deadline` | rows of `jobs` and their published `job_versions`; `NONE` is no row |
| `lease[j]` | the newest row of `leases` of the job; a job is leased at most once, since no transition leads back to OPEN |
| `reviewDue[j]` | the `submissions` row (0: none) with its `review_due_at_us` |
| `dispute[j]`, `acceptance[j]` | the rows of `disputes` and `acceptances` |
| `bal[a]` | the balance of an account, for a wallet the mock wallet and its mirrored ledger account at once |
| `deposit[r]` | the total the fund journal brought in |
| `pay[k]`, `receipt[k]` | `payment_operations` by business key and `transfer_receipts` (0: none) |
| `now` | what `now_for_write_transaction` returns |
| `Move`, `Reserve` | `apply_journal` with the CHECK on balances, `create_payment_operation_in_tx` with its UNIQUE key |
| `RootFailureFunds`, `ChildFailureFunds`, `PayoutFunds` | what the terminal effects book |
| `ApproveEffects`, `FailJob` | `_approve_effects`, `_close_lease_and_fail_job_effects` with the funds |
| `DisputeTooLate` | `dispute` after the window: it commits an approval, then refuses |
| `TransferPayment`, `MarkSucceeded`, `PaymentFails` | the transactions of `process_single_payment`, whoever calls it |

Abstracted: ids, hashes, texts and events; the catalog's inputs and expected
results (a verdict is nondeterministic); a submission whose verification fails only
appends to `submission_attempts` and is no step; the retry back-off of payments (a
payment may be tried at any time, more than the code does; `Settlement` has it); the parts a refund
booking takes through the available account (only their sum is seen after the
transaction); different timing policies per catalog entry (one policy for all
versions); client operation ids (a repeated command is no step; `Idempotency` has them). A child of a child is
refused by the code on depth, so parents range over roots. `ReserveRefundable` never
finds anything: the terminal effects have reserved everything (`NoStrandedFunds`); the
action is kept since the code has it.

### How `Scheduler` corresponds to the code

A scheduler goes through the phases snapshot, expire, approve, dispute and reserve.
In each phase it has a set `todo` of targets and takes them in any order (the code's
order by id is arbitrary to the model). `ops` are the rows of `operations` with a
derived id: `expiry:job:{job}`, `expiry:{lease}`, `auto-approve:{submission}`,
`resolve:{dispute}`. A known id is answered from its record (`ReplayExpiry`,
`ReplayResolve`); an `OjpError` on a target ends its group (`AbortGroup`); a tick may stop
anywhere (`TickStops`: the process dies, or the database stays busy). The preview of
`expire_due_leases` is two steps, since its snapshot is taken with its first read and
the real clock is read afterwards, while the test clock is a row of the snapshot
(`ClockMode`). An arbitration (`Arbitrate`) is outside any transaction and its verdict is
any of: not upheld, upheld, unresponsive; a FAIL against a stored PASS happens when the
verifier changed in between, and an arbiter without an answer is the code's own hook.
Payments are steps of the core, since `process_payments` calls the same function as
the users' commands.

### How `Settlement` corresponds to the code

| Model | Code |
|---|---|
| `pay[k]` | `status`, `attempt_count`, `next_retry_at_us` (0: NULL) and the kind of `last_error` of a row of `payment_operations` |
| `receipt[k]`, `locked[s]`, `wallet[p]` | `transfer_receipts`, the locked accounts (one refund account may serve several payments), the mock wallets |
| `caller[c]` | what a process is in: idle, between the clock and the list of `process_payments`, taking its list, or between the two transactions of one payment |
| `Reserve` | the commands of the core that reserve; a business key is reserved once |
| `SampleClock`, `ListDue` | `process_payments`: the clock and `list_due_payment_operations`, both before any write transaction |
| `RefundCommand`, `RetryCommand` | `refund` (all refund reservations of the root, one or more) and `retry_payment` (one payment, due or not) |
| `Transfer`, `FindReceipt`, `TransferRefused`, `EscrowFails`, `AlreadySucceeded` | the outcomes of the first transaction: `MockEscrow.transfer` with or without a receipt, its refusal, a failure of its own, and the check of a receipt against a payment marked before |
| `MarkRetryable`, `Delay` | `mark_payment_retryable_in_tx`, `compute_next_retry_at_us` |
| `MarkSucceeded`, `BusyAtMark` | the second transaction, and `_run_with_busy_retry` repeating both when it is busy |
| `Stops` | the process dies, or gives up with DB_BUSY |

Abstracted: one unit of time per back-off step, the order of the list, the actor who
asks (nothing depends on it after the permission check), journal rows.

### How `Idempotency` corresponds to the code

A *command* is what an operation row is compared by: actor, kind and payload. Four of
them are enough to tell every case apart: the approval of a job by its requester, by
somebody else, the approval of another job, and a command without a business key, an `abandon`, which
needs the job LEASED and so excludes the approval (`RequiredState`). A call
goes through `Precheck` (the read transaction of `approve`: conflict, permission and state),
then one of `Reuse` (`_existing_payment_result`, which returns before a row is inserted),
`Replay` (the row exists), `Apply` (row, derived `:payment` row, effects and result in one
transaction) and `Refuse` (rolled back), any number of `Busy` before (`DB_BUSY_MAX_ATTEMPTS`),
and `Answer`. `Die` is a process that dies or an answer that is lost: before the
transaction or after it, the client cannot tell. A client uses ids of its own, among them
one that looks like a derived `:payment` id, and ids that the service generated and told
it. `AutoApprove` decides the job under `auto-approve:{submission}`. `answers` is a history
variable: the accepted answers clients have seen, each as the operation that took the
decision and the payment it names. A reused answer names only the payment
(`payment_operation_id`); its decision is that of the payment's row, which has none.

### How `Startup` corresponds to the code

`applied` counts the rows of `schema_migrations`, `clock` is the row of `runtime_clock`,
`stamp` the last time a write transaction recorded, `utc` the clock of the machine, which
may be set to any time between two steps. A process is started as `demo init`
(initialises when there is no file), as another command or the MCP server (wants a file),
as the scheduler (opens whatever there is, so that `db.connect` creates an empty file), or
by `initialize_database` itself. Each migration is one transaction, which applies it only
when it is still missing (`Migrate`); with it comes the row of the clock, when there is
none. An older database has migrations but no row: `_ensure_clock_row` reads (`Ensure`) and
looks again in its own transaction (`Insert`). `AssertMode` refuses a process of another mode,
or one that finds no row. A refused process ends.

## 3. What the runs check

| Run | Instance | Question |
|---|---|---|
| `money` | one root, up to two of three child ids, two participants, two tasks, budgets 3 or 4, deadlines at 2, clock to 3 | Where is every unit of the deposit, whatever the order of events; do the policy's limits always hold? |
| `lifecycle` | one root, one child, three participants (one without a wallet), deadlines 2/4 and 3/4, leases 2, review 2, disputes 1, clock to 6 | Do states, leases, verdicts and reservations agree, and are decisions final? |
| `sched_refines` | two schedulers, one root, real clock, one crash | Is every step of a tick a step of the core, and does a recorded operation mean an effect? |
| `sched_live` | one scheduler, a root and its child, test clock | Does every funded job end when nobody but the scheduler acts? |
| `sched_reviews` | two schedulers, one root, real clock | Is every submission decided? |
| `sched_realtime` | one scheduler, one root, real clock | Does the deadline end a leased job? **No**: see below |
| `settle_pay` | two schedulers and a user; a payout and two refunds that share an account; one payee without a wallet; one failure, one crash or busy database, one command | Is everyone paid once, and is every reservation covered until then? |
| `settle_live` | one scheduler and a user, two payments, clock to 5 that steps back once, three failures, one crash, one command | Does every payment succeed in the end; is none tried before its time? |
| `idempotency` | two processes, two jobs of which one has nothing to pay, four commands, three client ids and one generated | One decision per job, and the same answer each time? |
| `idem_reuse` | one process, the same commands and ids | Is an id good for one command only? **No**: see below |
| `startup` | two processes started in every way, a new file or an old one with one or all of two migrations, one crash | One mode, a test clock that never goes back, an initialisation that completes? |
| `startup_retry` | one process, the program's own commands, four migrations, one crash | Does `demo init`, repeated, complete a database? **No**: see below |

The properties:

* `Conservation`, `ReservationsFunded`, `ChildWorkProtected`, `NoStrandedFunds` say
  where the money is: available, locked, or handed over; a locked bucket is
  exactly the unpaid reservations on it, also in the refund bucket that several
  payments share; a child's reservation lasts exactly as long as the child.
* `ParentGate`, `ParentEndSparesChildren` relate a root and its children:
  `submit` looks at the children once, and the invariant says that this is enough
  for the whole review.
* `PolicyLimits`, `AvailableIsUnused`, `TaskExclusive`: the checks of `create_child` at
  one moment bound usage at all times. `AvailableIsUnused` is the comment at
  `service.py:2045`, which calls the last check a safety net that never decides.
* `MoneyFollowsVerdict`, `LeaseMatchesState`, `DecisionIsFinal`,
  `SubmittedWorkProtected`, `PaymentsAreFinal` relate verdicts, leases and payments.
* `CoreSpec`: a tick adds no behaviour. `RecordedMeansApplied` and
  `RecordedExpiryEndsLease`: an id recorded for good has had its effect.
* `EveryJobDecided`, `EveryReviewDecided`, `DeadlineEndsJob`: things end.
* `PaymentsOnce` (core) and `PaidOnce` (settlement) are the refinements of `PayOnce`: a
  reservation is fixed, handed over at most once, its amount to its payee, and reported as
  succeeded only then; no wallet grows in any other way.
* `ReservationsCovered`: a refund account shared by several payments holds exactly the
  unpaid ones at every moment, so that no refund is paid with another's money and no
  repeated transfer is refused. `NoInconsistency`: the integrity error of
  `process_single_payment` is never reported to anyone.
* `EventuallyPaid`: failures, a crash between the transactions and a clock that steps back
  delay a payment and do not lose it. `BackoffRespected`: a scheduler does not try a
  payment before `next_retry_at_us`. It is checked with one scheduler, without users'
  commands and steps back: the first transaction does not look at the due time again, and a
  second scheduler may have put the payment off since the list was read (`service.py:4646`).
* `OneDecision`, `AnswersAgree`, `SamePayment`, `TakenNotRefused`: what a client may rely on when
  it repeats itself. The last is about the precheck, which runs in a transaction of
  its own, before the replay is looked up, and must let the replay through.
* `ModeChosenOnce` is the refinement of `ChooseOnce`; `TestTimeMonotone` is about the times
  write transactions record over all processes; `InitializationCompletes` is about repeating
  an initialisation that was interrupted anywhere.

**Bounds.** The clock stops at `MaxTime`, which is at least the last deadline plus
(in `lifecycle`) both windows after it; a job has at most one lease, one submission
and one dispute, so a time line of four to six ticks with windows of one or two has
every order of the events of a job. Two children are what the policy of the `money`
run allows; the third id is there so that the count limit is seen to refuse, and budget
2 twice exceeds amount and ratio. Budget 4 cannot be paid by the wallet. `MaxCrashes`
bounds how often a tick stops, not the number of ticks. Symmetry is used over child
ids, scheduler processes and serving processes in runs without liveness. In the settlement
runs three payments with two on one account are the smallest that can take each other's
money, three processes are one more than a race needs, and three failures in `settle_live`
go beyond the end of a back-off table of two steps, the second of which is above its cap.
The escrow fails of itself only while the clock has time left for a back-off; without that
the bound on the clock would end the run before the retry. In `idempotency` a process serves
any number of calls one after the other, so two of them give every interleaving of two calls
and every sequence; `MaxAttempts` is the code's limit, made smaller. In `startup` two migrations have a between; `startup_retry` has the four that there are.
Deadlock is checked for `Idempotency` and `Startup`, where processes can always go on,
and not elsewhere: when the clock has reached its bound and every job is decided or
paid, the system rests.

**Fairness.** `watch` repeats `tick_once`, and each step of it is a local computation
or a transaction that is retried when the database is busy: each scheduler's
`TickProgress` is weakly fair. Time passes. Nothing is assumed of participants or
payments. Fairness is not assumed of the arbiter's answer: it may never answer.
In the settlement the schedulers and the clock are fair, the users are not. In `Startup` no
process stops for ever on its way (`Opening`, `Exit`), and somebody keeps repeating
the initialisation; since other processes may hold the place of the one that repeats it,
this is strong fairness of `Initialize`. Crashes are bounded in number.
`sched_live` and `sched_reviews` have no crashes, as a tick that may always stop again
would need fairness the code does not give.

### What `sched_realtime` shows

`expire_due_leases` collects its targets in a read transaction and re-checks each
in a write transaction; a target that is no longer due yields a `skipped` result
(`service.py:1542`). That result is returned inside `_run_idempotent`, and so recorded
under `expiry:{lease_id}`, the only id that lease will ever have. On the real clock the
preview's snapshot is older than its time. A heartbeat that commits between the two
makes a lease look expired that is not; the tick records the skip; every later tick
replays it. When the lease or the deadline passes the job stays LEASED for ever, and
with it the deposit; a parent whose child is stuck can never be submitted.
`docs/poc-implementation-plan.md:181` has such a job EXPIRED. On the test clock the time
is part of the snapshot and the race cannot happen (`RecordedExpiryEndsLease`, run
`sched_live`). The same race in `resolve_due_disputes` is handled: `_ResolveSkipped`
rolls the operation back.

### What `idem_reuse` shows

An approval of a job that already has its payment is answered from that payment
(`service.py:267-273`), inside `_run_idempotent` but before a row of `operations` is inserted.
The id it came under is accepted, and stays unknown. Sent once more with the approval of
another job, the same id is accepted again and takes effect, where
`docs/poc-implementation-plan.md:434` and the docstring at `service.py:244` promise
`IDEMPOTENCY_CONFLICT`. No money is at stake: each job is still decided and paid once
(`OneDecision`, `SamePayment`), and each call still gets one answer (`AnswersAgree`).

### What `startup_retry` shows

`ojp demo init` calls `initialize_database` only when there is no file (`cli.py:456`);
otherwise it asserts the mode, which fails when there is no row. Two things leave a file
without one: a `demo init` that died after `db.connect` had created the file, and a
scheduler started first, which does not look for the file (`scheduler.py:221`). From then on
no command of the program completes the schema, and an operator has to remove the file.
`clock.py:68-69` says that a failed initialisation can be tried again, and `README.md:163`
calls the command idempotent. `initialize_database` itself, repeated on any file, does
complete it: that is `InitializationCompletes` in the run `startup`.

## 4. What is proved

For any sets of roots, children, participants and tasks, any budgets, deadlines,
policy and timing that satisfy the assumptions of `JobProtocol`, `JobProofs` proves

* `TypeCorrect`, `ParentGateHolds`, `ChildWorkIsProtected`, `NothingStranded`,
  `MoneyFollows`, `LeasesMatch`, `TasksAreExclusive`: the invariants of those names;
* `DecisionsAreFinal`, `SubmissionsAreProtected`, `PaymentFinality`,
  `ChildrenSurviveParent`: the action properties,

`JobMoneyProofs`, under the same assumptions,

* `DepositsAreConserved`, `ReservationsAreFunded`, `PolicyIsKept`, `AvailableBalanceIsUnused`:
  the invariants about sums over the accounts, payments and children of a root,

and `SchedulerProofs`, for any set of schedulers, either clock and any number of
ticks that stop half-way,

* `SchedulerImplementsCore`: `SchedSpec => Spec`, so that every theorem about the core
  holds of the system with its schedulers (`SchedulerDecisionsAreFinal` is one);
* `RecordsAreApplied`: an operation id is not used up for a job that still waits
  for its effect (the id of a lease excepted, see above), and `SchedTypeCorrect`.

and, for the test clock, `RecordedExpiriesEndLeases`: an expiry recorded for a lease has
ended it. Of the other modules are proved

* `CorePaysOnce` and `PaymentsPaidOnce`: the core, with any jobs, and the settlement, with any
  payments, processes, failures and crashes, implement `PayOnce`; `SettleTypeCorrect` (no
  account or wallet is overdrawn) and `NeverInconsistent`;
* `AccountsCoverReservations`: a locked account holds exactly what is unpaid of the
  reservations on it; `BackoffIsRespected`: one scheduler, any users and any back-off table;
* `JobsDecidedOnce`, `ResendsAgree`, `OnePaymentTold`, `EffectNeverRefused` and `IdemTypeCorrect`,
  for any commands, jobs, ids and processes;
* `ClockModeChosenOnce` (a refinement of `ChooseOnce`), `TestTimesMonotone` and
  `StartTypeCorrect`, for any processes, migrations, kinds of start and number of crashes.

The assumptions are those the modules name: for the core finiteness of the set of children,
that the sets of identifiers are apart, and that amounts and times are natural numbers; for
the settlement a back-off table that is not empty; for the ids that derived and generated
ids are distinct and out of a client's reach.

The argument for the core is one inductive invariant, `IInv`: the type, `ParentGate`,
`ChildWorkProtected`, `NoStrandedFunds`, `MoneyFollowsVerdict` and `LeaseMatchesState`, and two
parts they rest on.
`JobRecords` says that a job is not leased before it is OPEN and that an existing child
has a parent and a positive budget. `ReceiptsMatch` says that a receipt exists only for
a reservation, with its amount. Neither `ParentGate` nor `NoStrandedFunds` is inductive
alone: the first needs that a new child's parent is LEASED and that a lease is open only then, the
second that what a child returns after its parent's failure goes to the refund bucket.
The effects shared by several commands (`ApproveEffects`, `FailJob`, `PayoutFunds`,
`ChildFailureFunds`, `RootFailureFunds`) have a lemma each, and each action has one
that it keeps `IInv`; `NextKeepsIInv` puts them together. `TaskExclusive` is inductive
relative to `IInv`, since a failed child stays failed.

The money of a root has an invariant of its own, `MoneyInv`: `Conservation`,
`ReservationsFunded`, `PolicyLimits`, everything that the refinement of `PayOnce` rests on
(`OnceInv`, `DraftsPositive`), and what these need to be inductive. A step gives a root at most
one more child, of which the accounts, payments and usage are still zero, so each sum may
be read with the children of the next state (`Resized`) and a step is compared on one set.
That a child not yet created has nothing is what `PayoutsFunded` (a child's payout bucket is
its unpaid payout, whoever the parent) and `KnownChildren` (only a created child has a parent)
are for. `AvailableIsUnused` speaks of leased roots and says nothing of the root that is about to be
leased, so the invariant has `UndecidedIsUnused`: the same until the root is decided.
`PolicyLimits` is inductive since usage grows by hiring only: a payout moves a child's part from
one bucket to the next and then into a receipt, all of which usage counts, and the cap
itself, a share of the deposit, never shrinks. A step does one of seven things to the money of
all roots (`MoneyStep`: nothing, book a reservation for a root or for a child, release, hire,
deposit, pay), and a root whose money it is not keeps every sum (`OutsideFunds`, `NoneChange`).

`SumTheorems` has the laws of `SumFunctionOnSet`: an element can be split off whatever the
order, one value changes, an amount moves between two values, functions that agree, one
that is nowhere larger. Induction over finite sets is a library theorem with an operator as
a parameter, which the provers cannot instantiate; here each law is proved by looking at a
smallest set for which it would be false, which exists because the strict subsets of a finite set
are well-founded.

The scheduler's invariant `SchedInv` is `IInv` with `WellCollected`: what a tick has read
stays true while others act, although the rows themselves change. A job of the expiry
preview that was OPEN has been funded and its deadline has passed; a collected
submission stays submitted or is decided, with its review time in the past; a
dispute never disappears; an arbitration in progress has a verdict; only roots are
reserved. With it each write transaction, which looks at the state again, is a step of
the core: an automatic approval does not look at its due time again, and need not.

On the test clock three facts are added (`ExpiryInv`): a job without a submission has no
review time; what a snapshot saw as expired, and every lease in a list to expire, has
*lapsed*: it is claimed, and if it is still LEASED its time is over; and a job whose
lease's expiry is recorded is LEASED no more. To have lapsed is stable because
`RequireActiveLease` refuses a heartbeat once the time is over; on the real clock the list
may hold a lease that has not lapsed, which is exactly the finding.

The settlement's invariant (`SettleInv`) ties the tables to the processes: a receipt
repeats the terms of its reservation, a payment marked SUCCEEDED has a receipt, and so
has a payment somebody is about to mark. Each of its steps then maps to one step of
`PayOnce` or to none. `ReservationsCovered` is inductive with it (`CoverInv`), as long as the
unpaid reservations of an account are finitely many, although the payments need not be. For the
back-off, `PatientInv` says what one scheduler has in hand: until a clock is set back or a user
commands, nobody else is at work, the time it has sampled is past, and every payment on
its list is due; a payment that has never failed waits for nothing. The hypothesis of
`BackoffIsRespected` is that there is one scheduler: two may list the same payment, the first
fails on it, and the second tries it at once (`service.py:4646`). `CorePaysOnce` needs from `IInv` that accounts and receipts match,
and in addition that exactly the reserved payments have an amount, and that a draft has a
positive budget.

The invariant of `Idempotency` (`IdemInv`) says what each kind of row means for its job:
a decision leaves its job neither leased nor open, so that no second row is inserted;
the row of a payment is named after the decision; an answer given is what a new call with
the same command and id would get (`Told`), and that never changes.

The invariant of `Startup` (`StartInv`): a process that runs has the mode of the row, one on
its way to the row carries a mode with the time that belongs to it, and no time is
recorded that the test clock has not reached.

Only model-checked is liveness (`EveryJobDecided`, `EveryReviewDecided`, `EventuallyPaid`,
`InitializationCompletes`), which needs fairness and ENABLED. That the interesting states
are reached at all is shown by the runs, not by the proofs.

## 5. What is not modelled

* `verification.py`: the verifier is a pure function of JSON and CSV texts, without state
  or concurrency; in the models its verdict is any verdict. Tables of examples test it
  better than a model checker.
* Argument parsing, dispatch and formatting of the CLI and the MCP server, the read
  queries, pragmas and the splitting of SQL: no state of the protocol, or I/O. Of these
  files only the way a process opens the database is modelled.
* The direct fund commands (`service.py` 3842-4239): library functions that no transport
  and no tick calls. Demo data: fixed rows, the initial state of the models.
* A lease on a real clock that steps backwards. The documents say nothing about a lease
  that was seen as expired and is alive again; the settlement and the initialisation are
  modelled with such a clock.
* Amounts near 2^63, and the comparison of cached balances with the journal: the models
  have one balance for both.
* Several different timing policies at once: each version has one, and jobs do not
  interact through them.
