# TLA+ specifications of the PR reliability platform

The platform reviews GitHub pull requests. A webhook creates a *run*, an outbox
dispatcher starts or signals a Temporal workflow, activities take the run through
context selection, analysis and verification, a human approves the findings, and
the approved review is published on GitHub. The specifications here are about what
that pipeline promises when processes die, messages are late or repeated and
several actors work on one pull request. Every definition that models code names
its lines in `PROJECT.json` under `map`.

## The system

| Component | State it keeps | Operations | Talks to |
| --- | --- | --- | --- |
| Pull request intake (`webhooks/github.py`) | `pull_requests` (head, state, update time), `webhook_deliveries`, new `runs` with a start command in `run_events` | receive a delivery, resolve the head, upsert the pull request, create a run | policy (admission), dispatcher (outbox row) |
| Check rerun intake (`webhooks/checks.py`) | deliveries, new `runs`, `github_check_runs` | receive a rerun request | as above |
| Repository policy and sync (`repositories/`, `repository_sync.py`) | `github_installations` (state, revision, last sync), `repositories` | apply a snapshot (compare-and-set on the revision), receive a lifecycle webhook, edit a policy, `admitted_policy` | intake, dispatcher |
| Dispatchers (`dispatch.py`) | receipts in `run_events` | `dispatch_next_command`, `dispatch_next_approval` | Temporal (signal-with-start, signal) |
| Review workflow (`workflows/`) | one execution per pull request: input, approval, cancel reason, pending supersede | `run`, signals `approve`, `cancel`, `supersede` | activities; itself by continue-as-new |
| Stage operations (`providers/operations.py`, `activities/review.py`) | `runs.state`, stage events and results, checkout directory | `select_context`, `analyze`, `verify`, `record_terminal`, `finalize_metrics` | model providers, sandbox, database |
| Approval inbox (`approvals/inbox.py`) | `approvals`, decision events | `record_approval_decision` | dispatcher (outbox row) |
| Review publication (`activities/publish.py`, `activities/github.py`) | publish events; the pending or submitted review on GitHub | claim, prepare, find, create, submit, audit | GitHub |
| Check publication (`activities/checks.py`, `github_checks.py`) | `github_check_runs`; the check on GitHub | claim, prepare, find, create or update, record | GitHub |
| Runner operations (`operations/store.py`, worker `operations.py`) | `operation_runners`, `operation_work`; the count of active activities | register, heartbeat, request a drain, observe a start, retire | worker loop |
| Operator sessions (`auth/`) | login attempts, `browser_sessions`, `github_users`; the permission checks under way | begin, finish, authorize, rotate, revoke, log out | GitHub OAuth |
| Sandbox (`sandbox/`, `activities/sandbox.py`) | one container per check | plan the checks, run one, kill, remove; record the verdict | Docker |
| Proof adapter (`proof_adapter/`) | a snapshot and a tree of processes | run the published gate, end the tree | the kernel |
| Checkout and artifacts (`providers/checkout.py`, `operations.py`) | a checkout and a run directory per run | clone the exact head, write the pointer and the context, remove | git |
| Model providers, evidence store, context selector | none that outlives a call, or append-only rows | one call each | external processes |
| Migrations, backup, release tools | advisory lock, operation lock, release draft | apply, back up and restore, publish a release | PostgreSQL, GitHub |
| Dashboard, health, metrics, alerts, web pages | none of their own | read | operators |

### What is hard about it

* **Two dispatchers.** The outbox query evaluates its `NOT EXISTS` parts on a
  snapshot and locks the row afterwards, so a command can be sent a second time
  after its receipt was committed.
* **Signals against activations.** A start is a signal-with-start: the supersede
  signal can be handled before `run()` has its input, while an activity runs,
  during the terminal record, or between the last line of one execution and the
  first of the next one.
* **Activities that are late.** Temporal gives an attempt up after a missed
  heartbeat or a cancellation; its thread goes on to its next transaction, beside
  the retry or the next stage.
* **Two systems without a common transaction.** Temporal accepts and the receipt
  does not commit; GitHub has the review and the database does not know.
* **Things that change meanwhile**: the head, the state of the pull request, the
  policy, the human decision, a session, the process that stands for a runner.
* **What a stage leaves behind**: directories, locks, containers and processes of an
  attempt that failed, was cancelled twice, or goes on beside its retry.

### What makes each component correct

* Intake: each delivery applied once; the head never goes back; one run per head
  unless a rerun or a reopening asks for more; generations without gaps.
* Dispatchers: every command settled, in generation order, at least once delivered.
* Workflow: generations never go back, at most one run worked on, no
  accepted run lost, each run recorded exactly once.
* Stage operations: only transitions of the contract, whatever attempts repeat.
* Inbox and approval dispatch: the decision acted on was made about that run, once,
  for all its findings, and is delivered unless it is void.
* Publication: at most one review per run and none without a current
  authorization; published if and only if the review exists.
* Policy: no stale snapshot restores revoked access. Runner operations: a replaced
  session claims nothing, drain is final. Sessions: no revoked session is used or
  rotated, an owner keeps an administrator.
* Sandbox, proof gate, checkout: a verdict rests on what one attempt has seen through,
  and nothing of an attempt stays on the host or gets in the way of the next one.

## Modules

| Module | Models | Refines |
| --- | --- | --- |
| `RunContract` | `packages/contracts/.../runs.py`: the run state machine as the abstract specification | |
| `ReviewLifecycle` | the runs of one pull request from intake to the terminal record | `RunContract` |
| `PublicationContract` | what the documentation promises about one publication | |
| `PublishReview` | the publication of one approved review on GitHub | `PublicationContract` |
| `WebhookIntake` | the deliveries about one pull request and the runs they create | |
| `CheckRun` | the check of one head, updated by all its runs | |
| `ApprovalDispatch` | decisions about findings and the signal they add up to | |
| `RepositoryPolicy` | the repositories of one installation: inventory, deliveries, policy, admission | |
| `Workspace` | the files of one run on the worker: directory, pointer, context, checkout, lock | |
| `CheckPlan` | which configured checks a push selects, as operators over paths and filters | |
| `ProofGate` | the processes of the proof gate and the end of their tree | |
| `SandboxVerification` | the verification of one run: plan, containers, proof gate, receipt, attempts | |
| `RunnerOperations` | the processes that take one runner identity in turn | |
| `OperatorSessions` | the requests of operators: sign-in, bearers, permissions, revocation | |

`MC<module>` holds the instance TLC checks, `<module>Proofs` the theorems.

Each module takes over where another abstracts. `ReviewLifecycle` receives a head
that `WebhookIntake` has resolved, one decision per run that `ApprovalDispatch` has
put together, and a publication whose inside is `PublishReview`; the check updates
it makes in one step are `CheckRun`. Its `policy`, a flag that may change at any time,
is what `RepositoryPolicy` calls `Admitted`. An attempt of a stage, which succeeds, fails
or is lost there, has its files in `Workspace`; the one of `verify` has its inside in
`SandboxVerification`, which is composed of `CheckPlan` and `ProofGate`.

### ReviewLifecycle

One step is one database transaction, one remote call or one workflow activation.

| Variable | Code |
| --- | --- |
| `head`, `open` | `pull_requests.head_sha` and `.state` |
| `policy` | `admitted_policy(...)` returns a policy |
| `run[g]` | the row of generation `g`, with what its events say: `receipt` (of the start command), `recorded` (stage receipts; `passed` or `failed` for the verification), `decision` (of the inbox), `notice` (receipt of the approval), and `reviewed`, the review on GitHub |
| `disp[d]` | where dispatcher `d` is in `dispatch_next_command`: `selected` after the row query, `sent` from the call to Temporal to the receipt |
| `wf` | the current execution of the workflow id: `pc`, the generation, the three signal fields, and the running activity with its number of attempts and the transaction (`step`) it does next |
| `zombies` | attempts the server has given up on and that still run |
| `disturbed` | bounds the disturbances of a behaviour |

`SelectCommand`, `DispatchCommand` and `InsertReceipt` are the three parts of
`dispatch_next_command`; `SkipTerminal`, `SkipBlocked` and `SignalWithStart` its
branches. While a dispatcher is `sent` it holds the row lock (`Locked`) and the
installation lock (`InstallationFree`), which is what keeps intake and activities
out. `Transact` lists the transactions of the activities; `WorkerStep` makes the
one of the attempt the workflow waits for and `ZombieStep` one of an abandoned
attempt. `AfterSuccess`, `AfterActivityError` and `AfterAttempt` are the code of
`run()` after an `await` and the retry policy. `StageInterrupted` is
`_wait_for_activity_or_interrupt`; `AwaitEnds` the end of the approval wait;
`Wrapup` what follows the terminal record, up to continue-as-new.

Abstractions: a head is a value that is only compared; a checkout, a model answer and
a container are an attempt that succeeds, fails or is lost. Temporal delivers each
accepted signal once and in the order it accepted them, starts one execution per
workflow id and ends an attempt at a missed heartbeat; this is how the client and the
workflow use it.

### PublishReview

An attempt of the publish activity is a sequence of calls, each a transaction in a
thread or an HTTP request; `MakeCall` is one call and what the attempt does after it.

| Variable | Code |
| --- | --- |
| `awaiting`, `stored`, `remote` | the run awaits approval; the stored head and the head on GitHub are the approved commit |
| `reviews[a]` | the review attempt `a` created: a draft, submitted, edited by somebody, or deleted |
| `action` | the `external_actions` row of the publish key |
| `claim` | the attempt whose session holds the advisory lock |
| `attempt[a]`, `orphans` | the call an attempt is in; calls whose attempt was cancelled and that may still take effect |
| `server` | the attempt Temporal waits for, and the outcome |

An attempt that Temporal gives up either goes on, not having noticed, or is cancelled:
the `finally` clause then closes the claim connection at once, whatever the thread is
doing. GitHub keeps one draft review per author and pull request. The finding and
approval sets of a request are taken as valid. `EditReview` is an edit that keeps the
publication marker; a review whose marker somebody removes is not found again, and left out.

### WebhookIntake

One delivery is one transaction under the installation lock, hence one step. GitHub
makes an event and sends a delivery for it; deliveries arrive in any order, repeatedly
or never, and the events of one second have equal times. `Resolves` is
`_resolve_head_sha`: the longest chain of before/after pairs of that second, the
largest commit of several. `pr`, `runs` and `checks` are rows; `received` and
`applied` tell recorded deliveries from those that found their repository. The limit
of 100 links of the recursive query is not reached.

### CheckRun

`row` is the `github_check_runs` row, `remote` the checks on GitHub, `workflow` the
update the workflow waits for with the number of its attempt, `attempt` that attempt,
`strays` the abandoned ones that go on and `orphans` the calls whose caller has gone.
The claim is tried, never awaited. An attempt that no worker takes in time (schedule-to-start,
which Temporal does not retry) is left out. Texts and annotations are left out; identical strays
are one. `accepted` is history: the updates GitHub has accepted.

### ApprovalDispatch

`Decide` is the decision request, `Select` and `Takes` the row query (a snapshot, then
the first command that is not locked), `Skip`, `Defer`, `Signal` and `Refused` the
branches of `dispatch_next_approval`, `InsertReceipt` its commit, `RollBack` its end
after a signal that was refused and `Fails` the one of a dispatcher that dies or misses the answer. A dispatcher is `Holding` its command
from the signal to either, so that the others step over it. Transactions without a remote call
are one step: that one of them is stepped over too is left out. `wf[r]` is the workflow execution
of a run, with the approval it was sent. `moved` is history. Each run belongs to a pull
request of its own: what a signal does to an execution that is busy with another run is the
subject of `ReviewLifecycle`.

### RepositoryPolicy

Transactions on the installation are serialized by the advisory lock of
`lock_installation`, so each is one step; only a dispatcher holds the lock across a
remote call, and `sending` is that interval.

| Variable | Code |
| --- | --- |
| `github`, `sent` | the installation on GitHub, and the deliveries its changes have caused |
| `received` | deliveries with an audit event; a repeated one finds it and does nothing |
| `installation`, `access[r]` | the `github_installations` row, with whether `last_sync_at` is younger than 15 minutes, and `repositories.access_state` |
| `policy[r]` | the owner's policy as one budget, 0 when the repository is not enabled |
| `sync[s]` | what `reconcile_once` of process `s` has read |
| `command[r]`, `sending` | a start command of `r` with the budget it was given; the one on its way to Temporal |
| `revoked` | history: what deliveries have revoked since the applied inventory was asked for |

`ReadRevision`, `ReadInstallation`, `ListFirst` and `ListRest` are the first transaction
and the requests of a sync, `Apply` and `Outdated` the two results of the
compare-and-set. The revision is only compared with an earlier value of itself, so
every change of it turns the syncs under way `outdated`. The listing has any number of
pages; GitHub changes between two of them, and the totals decide whether the sync
notices. Names and branches are left out.

### Workspace

Each step is a system call, a git command or a transaction; the removal of a tree takes
two. `attempt[a]` is an attempt of any of the four stages, `server` the stage Temporal is
at. `dir` is the run directory with the pointer to the checkout and the context, `target`
the checkout that all stages share, `temps` the temporary copies that are renamed to it,
`lock` and `stale` the lock file and its age. `Clear` and `MakeDirectory` are the start of
`select_context`, `AcquireLock` to `Rename` the checkout, `WritePointer`, `OpenContext` and
`FillContext` the artifacts; `Cleanup` is the handler of a failed attempt, `RemoveArtifacts`
the end of the terminal record. A restart of the worker ends all attempts where they are.
What a checkout or a context contains is whether it is whole; whether git still resolves the
HEAD of a half removed one is open (`Unready`). Removals run in threads that a cancellation does not end: such an attempt is in `Threads`, answers nothing any more, and
`FinishThread` is what its thread still does. `alone` and `well` of an attempt
(it was the only one at work, nothing failed it), and `three` (three attempts were at work at
once) are history.

### CheckPlan, ProofGate and SandboxVerification

`CheckPlan` is `load_verification_plan` and `_path_matches`, with the dynamic programming of
the code; `Covers` says what a filter means. Within a segment a wildcard is `*` or none, and
the file is missing, broken or read.

`ProofGate` has the caller (`pc`), the supervisor (`sup`) and the gate with its descendants
(`tree`), which move independently and see each other by two files, a pipe and signals. The
cleanup is `KillTree`, `TellSupervisor` and `AwaitSupervisor`; a wait of it fails after five
seconds, and a second interruption (a cancellation, or the time limit of the proof after one)
ends it (`CutOff`). A cleanup that did not see the tree go ends as `Abandoned`, and what is
left of the tree is not followed any further.

In `SandboxVerification`, `at[a]` is an attempt of the verify activity: the call it is in, the
check it is at, what stops it, and which checks have really succeeded (`passed`, history).
`box[a]` is the container as the daemon has it, `late` the creations it may still carry out.
`CallFails` is every way a call of the CLI ends without an answer, `LoseAttach` an attached
CLI that ends before its container; `Cancel` cuts the call off and is waited out in the
cleanup (`_execute_cancellation_resistant`). `Prepare`, `Record` and `Mark` are the
transactions; `ActivityFails` is a failure of the database or of git in any of them. The staged copy of the checkout lives in a temporary directory of the call.

### RunnerOperations

`row` is the row of the runner, `session` in it the process that registered last; `proc[p]`
is a process with its monitor and its watch, `beat[p]` the heartbeat its thread is about to
write, `task` the activities of the queue. `Register` to `FirstPulse` is the start of
`run_monitored`; `Signal`, `StopPolling`, `Shutdown` and `Retire` its end. The age of a
heartbeat is `fresh`. `WriteBeat` writes the row and hands its answer to the process in one step.
`owed` and `late` are history.

### OperatorSessions

A request is what one HTTP request does: `Begin` to `CommitLogin` a login, or a use,
rotation, logout or revocation, which starts with `ReadSession` and a permission check that
`Lead`s a request to GitHub or `Follow`s one (`_inflight`). `session[t]` is the row with
bearer `t`, `login` in it the sign-in it comes from, which also stands for the encrypted
GitHub token. Transactions that wait for a lock (`writing`, `locked`) are two steps.
`ended`, and `granted` and `dead` of a request, are history.

## Runs

One run per component and question; each property has a mutant, a definition changed as
a plausible bug would change it, that the same instance shows to be wrong.

| Run | Instance | Checks |
| --- | --- | --- |
| `lifecycle_safety` | 2 heads, 2 dispatchers; an expired execution or a dead dispatcher | `DecisionOfThisRun`, `GenerationAdvances` |
| `lifecycle_live` | 1 head, 2 generations, 2 attempts; 1 lost attempt, dispatcher failure, policy change or cancellation; fairness | `AcceptedIsHeld`, `OneRunActive`, `PublishedMeansReviewed`, `ReviewedNeverWithdrawn`, `RunsFollowContract`, `AcceptedSettles` |
| `publish_review` | 3 attempts, 1 fault, 2 pushes or edits; fairness | `ImplementsContract`, `LostAuthorityStagesNothing`, `FaultsLoseNothing` |
| `webhook_intake` | 3 heads, 2 seconds, 4 deliveries | `OpenWins`, `HeadConverges`, `RunsFollowHead`, `AdmittedHeadHasRun` |
| `check_run` | 2 runs, 3 attempts, 2 faults, 1 late call; fairness | `OneCheck`, `AckedIsShown`, `NewerRunWins`, `FailuresRepaired` |
| `approval_dispatch` | a run with 2 findings and one with 1, 2 dispatchers, 1 fault; fairness | `ApprovalIsWhole`, `LastDecisionPending`, `DecisionsArrive` |
| `repository_policy` | 2 repositories (1 with a row from before the first sync), 2 syncs, 2 changes on GitHub; fairness | `RevocationHolds`, `StartsWithinPolicy`, `InventoryConverges` |
| `workspace` | 3 attempts of the stages, 3 failures | `TerminalLeavesNothing`, `LeftoversNeverBlock`, `LeftoversNeverRead` |
| `sandbox_verification` | 6 configurations, 2 checks (1 with reports), 2 attempts, 2 faults; fairness | `VerdictSound`, `NothingLeftRunning`, `SelectionFollowsFilters`, `VerificationEnds` |
| `failed_command` | the same | `FailedCommandNeverPasses` is violated |
| `runner_operations` | 2 processes, 1 activity, 2 drains, 2 faults; fairness | `OwedDrainIsHeeded`, `AvailableMeansRunning`, `DrainLeavesWithItsProcess`, `ToldToStopStops` |
| `operator_sessions` | 2 administrators, 2 requests, 1 change on GitHub, 1 fault; fairness | `RevocationComplete`, `OneBearerPerLogin`, `AuthorizedOnCurrentAccess`, `EveryRequestEnds` |

**Bounds.** The instances are small enough for the whole suite to be checked in minutes,
and each has the case its properties are about. Two generations are a run and its
successor, which every race over a pending supersede, a late signal or a stale dispatcher
needs; that nothing changes with more is proved for the safety properties (see *Proofs*).
Two heads let a run become stale. `_MAX_ACTIVITY_ATTEMPTS` is 3; `lifecycle_live` uses 2,
which has the first, a repeated and an exhausted attempt, with one disturbance of any kind;
`lifecycle_safety` has one attempt per activity and instead a second dispatcher and the
execution timeout. `AcceptedIsHeld`, `ReviewedNeverWithdrawn` and `OneRunActive` are
properties up to that number of faults: a terminal record that fails in all its attempts
fails the workflow (see *Limits*). Publication and checks use the code's 3 attempts. Four
deliveries are three links of a chain and one event more, or an opening with its
repetition, a close and a reopening; two seconds separate events that have an order
from those that have none. Two findings are the smallest set with an early and a last
decision and with a mixed one, and a second run shows what its commands in the same
queue change, those of an execution that has expired included, beside a second
dispatcher that may step over them; the fault is that expiry, a dispatcher that dies,
a lost answer or a head that moves. Two changes on GitHub are a repository that is exchanged for another
during a listing, a suspension and its end, or two deliveries that arrive in the wrong
order, and two syncs read, list and apply in any order beside them; failures of syncs and dispatchers are not bounded. A policy is a budget of 0 or
1 here, which tells enabled from paused; that a command's budget is compared with the
policy of the moment for every budget is shown by the proof, as is `RevocationHolds` for
any number of syncs.

Three attempts of the stages and three failures are two attempts that are abandoned, or lost
with their worker, beside or before a third one that fails in its cleanup, which is what tells
the premises of the `Workspace` properties apart; the invariant from which they are proved holds
with four attempts and two failures, one attempt of each stage, as well. The verification has two
attempts, hence one that is abandoned beside its retry, two checks, one with and one without
report files, so that a failed check is followed by a good one, and two faults: a
cancellation within the cleanup of a cancellation, or a cut off creation with its late
completion. The filters are tried on every path of three segments. Two processes of a runner
are one that is replaced; two requests and two administrators are two tabs, two
administrators who revoke each other, or a login beside a revocation.

**Deadlock** is not checked: when the bounded events are used up nothing is left to
do, and the program waits for the next webhook.

**Fairness.**
* `ReviewLifecycle`: the dispatcher polls for ever (`run_dispatcher_from_environment`),
  the workers take what the server schedules and the server fires its timers: weak
  fairness on `Workflow`, on `ZombieStep` and on the dispatch of each dispatcher. No
  fairness is assumed of pushes, human decisions, approvals being dispatched,
  cancellations or disturbances. A run that awaits approval ends by the approval timer.
* `PublishReview`: each attempt gets on with its call (every request and statement has
  a timeout, a fault, which ends it), and the server reacts to an attempt that ended.
* `CheckRun`: the attempt the workflow waits for makes its calls, and the workflow goes
  on when it ended.
* `ApprovalDispatch`: the polling loop of each dispatcher goes on.
* `RepositoryPolicy`: `run_sync` goes on, and a dispatcher that sends a start ends its
  transaction (the call has a timeout). `InventoryConverges` has the premise that
  requests stop failing at some time; deliveries are never assumed to arrive.
* `SandboxVerification`: Temporal and the attempts go on as long as any of them can (every
  call of the CLI, the proof and its cleanup have a time limit); which of them goes on is
  left open. Faults are never assumed.
* `RunnerOperations`: each process goes on, its watch beats every ten seconds, its threads
  write, and heartbeats age. An activity ends.
* `OperatorSessions`: each request goes on; GitHub answers or its time limit does.
No fairness is assumed of `Workspace`: what it promises is safety.

## What the runs show

* `GenerationAdvances`: a repeated or late supersede signal never takes the chain of
  executions back, nor makes an execution its own successor.
* `AcceptedIsHeld`, `AcceptedSettles`: no accepted run falls into the gap between
  two executions, and it or a later run ends.
* `OneRunActive`: the next run starts only after the database says the last one is over.
* `RunsFollowContract`: the guards in the SQL imply the transition table nobody calls.
* `PublishedMeansReviewed`, `ReviewedNeverWithdrawn`: database and GitHub agree after
  lost and repeated publish attempts and interrupts.
* `DecisionOfThisRun`: an approval is never applied to another generation.
* `ImplementsContract`: whatever attempts are abandoned, cancelled or beside each other,
  there is one review at most, and no success without it. `LostAuthorityStagesNothing`: when the
  authorization is lost for good, attempts that have not prepared by then stage nothing, also
  those that find the action row of an earlier attempt. `FaultsLoseNothing`: one fault is always recovered from, so
  the claim is not held for ever by an attempt that is gone.
* `OpenWins`, `HeadConverges`: the row does not depend on the order of deliveries, and
  once all of a second have arrived it has GitHub's head, provided no head occurs twice
  in it. `RunsFollowHead`, `AdmittedHeadHasRun`: a delivery asks for
  one run, for the head in the row, and an admitted head has one.
* `OneCheck`, `AckedIsShown`: as long as no call takes effect after its caller has gone,
  a head has one check and what is acknowledged is shown. `NewerRunWins`:
  with such calls, the row still never goes back to an older run. `FailuresRepaired`: the workflow gets through, and a
  failing call is repaired.
* `ApprovalIsWhole`: the workflow is sent exactly the approved findings, after the last
  decision.
  `LastDecisionPending`, `DecisionsArrive`: deferring the early commands strands no run, and
  the decision arrives whatever else is in the queue, unless a command that is refused for
  ever is before it.
* `RevocationHolds`: an inventory that was asked for before a revocation was received
  never restores the repository, also when it was listed in pages while GitHub changed.
  `StartsWithinPolicy`: what was
  admitted is still admitted when the review starts. `InventoryConverges`: syncs that
  outdate each other, and deliveries that are lost, do not keep the inventory from
  following GitHub.

* `TerminalLeavesNothing`: the terminal record and the attempts that outlive it leave no
  directory, lock or temporary copy, and no checkout if one attempt worked at a time (the
  directory may stay only if three were at work at once: see *Limits*).
  `LeftoversNeverBlock`, `LeftoversNeverRead`: a stale lock, a half removed checkout or a
  half written context costs a later attempt nothing.
* `VerdictSound`: a verification passes, and the run waits for approval, on the evidence of
  one attempt, also when the worker dies between the receipt and the step to approval.
  `NothingLeftRunning`: containers and the processes of the proof gate are gone before a
  verdict counts; the property names what may stay. `SelectionFollowsFilters`: the
  dynamic programming of the filters agrees with their meaning. `VerificationEnds`: no
  failure or cancellation leaves the stage or an attempt at work for ever.
* `OwedDrainIsHeeded`, `DrainLeavesWithItsProcess`: a drain survives crashes, replacements
  and registrations until a process that has heeded it retires. `AvailableMeansRunning`,
  `ToldToStopStops`: capacity that is shown is there, up to the age of a heartbeat.
* `RevocationComplete`, `OneBearerPerLogin`: no login, rotation or revocation under way
  brings a session back, and one administrator stays. `AuthorizedOnCurrentAccess`: sharing
  a permission check gives no request an answer older than its question.
  `EveryRequestEnds`: whoever leads a check fails on behalf of all who wait.

### Where code and documentation differ

* `docs/architecture.md` says that an unreachable daemon fails closed and a failed sandbox
  command never advances to approval. For a check without report files
  `DockerSandboxRunner.run` ignores the status of the attached CLI and asks the engine for
  `.State.ExitCode`, which is 0 as long as the container has not ended. A CLI that loses its
  connection, or fails to start the container, while the engine answers the next call makes
  the check pass; the container is then removed (`FailedCommandNeverPasses`, which the run
  `failed_command` shows violated).

The following were met while modelling and are visible in the models, without a run of
their own:

* `docs/review-checks.md` says that a head superseded while queued still reaches the
  cancelled state. `supersede()` keeps only the highest pending generation, so when
  two arrive before the workflow yields, the lower one is never run and its row stays
  `queued`; `AcceptedSettles` allows for it.
* `webhooks/github.py` and `docs/repository-policy.md` say that closing a pull request
  invalidates its approvals. Closing leaves the head as it is and neither the inbox
  nor the approval dispatch nor the publication looks at the state of the pull request:
  in `ReviewLifecycle`, `ReceiveClosed` changes `open` and `Decide` does not read it.
* `docs/security.md` says that one session claim serializes lookup, create and receipt
  of a publication. A cancelled attempt closes the claim connection while its thread
  still writes a receipt, and `_record_failure` does not look at the status it
  replaces, so it may turn `published` into `failed`.
* `docs/architecture.md` says that the before/after chain keeps a delayed predecessor
  from replacing its known descendant. While a delivery in between is missing it does
  replace it; when that one arrives the row has the right head again, but that head
  has a run of an older generation already and gets no newer one.
* `docs/authentication.md` says that logout deletes the session. It deletes the row of the
  bearer it has read: after a rotation in between it deletes nothing, answers 204, and the
  login goes on under the new bearer. The previous session of a new login is deleted in the
  same way.
* `docs/development.md` says that the dispatcher drains the approval commands. A signal to an
  execution that is gone, while its run still awaits approval, is refused each time, which the
  dispatcher takes for transient. The command stays pending and is selected first at every poll,
  so the approval of another run, whose workflow waits for it, is not sent: in
  `ApprovalDispatch`, such a run is `Blocked`. A second dispatcher can step over the command only
  while the first has it locked.

## Proofs

The theorems hold for all values of the constants, from the named assumption of each
module alone, but for three theorems about `ReviewLifecycle` that have a premise on its bounds. Each
module has an inductive invariant, `IInv` where it is not named otherwise, a lemma per action
that it is preserved, and theorems that follow from it; TLC has found each of these invariants
to hold on the instances of the runs before it was proved. Every safety property the passing
runs check is proved. The types and the auxiliary invariants `ReceiptsInOrder` (receipts form a
prefix), `EachDeliveryOnce`, `RowBehindGitHub` (the row of a check says nothing that GitHub has not accepted),
`ReceiptMeansSent`, `AnswerStable` (a repeated approval is the same signal),
`AccessNeedsInstallation` and `ReceiptNamesReview` are proved only.

| Module | Theorem | Property |
| --- | --- | --- |
| `ReviewLifecycleProofs` | `TypeCorrect` | `TypeOK` |
| | `ReceiptOrder` | `ReceiptsInOrder` |
| | `PublishedOnlyReviewed` | `PublishedMeansReviewed` |
| | `HumanDecides` | `DecisionOfThisRun` |
| | `GenerationNeverFalls` | `GenerationAdvances` |
| | `ImplementsContract` | `RunsFollowContract` |
| | `OneRunAtATime` (`Undisturbed`) | `OneRunActive` |
| | `ReviewIsNotWithdrawn` (`Undisturbed`) | `ReviewedNeverWithdrawn` |
| | `NoAcceptedRunIsLost` (`Admitted`) | `AcceptedIsHeld` |
| `PublishReviewProofs` | `TypeCorrect`, `ReceiptTrue`, `PublishesOnce`, `RetryNeedsAuthority` | `TypeOK`, `ReceiptNamesReview`, `ImplementsContract`, `LostAuthorityStagesNothing` |
| `WebhookIntakeProofs` | `TypeCorrect`, `OrderDoesNotMatter`, `DeliveredOnce`, `NewRunsFollowHead` | `TypeOK`, `OpenWins`, `EachDeliveryOnce`, `RunsFollowHead` |
| | `HeadFollowsGitHub`, `OpenHeadGetsRun` | `HeadConverges`, `AdmittedHeadHasRun` |
| | about `CheckRun`: `CheckTypeCorrect`, `OneCheckPerHead`, `AcknowledgedIsShown`, `NewestRunKeepsRow`, `NoGhostRow`, `RowOnlyAdvances` | `CheckTypeOK`, `OneCheck`, `AckedIsShown`, `NewerRunWins`, `RowBehindGitHub`, `Advances` |
| `ApprovalDispatchProofs` | `TypeCorrect`, `WholeApproval`, `ReceiptAfterSignal`, `NoRunStranded`, `SameAnswer` | `TypeOK`, `ApprovalIsWhole`, `ReceiptMeansSent`, `LastDecisionPending`, `AnswerStable` |
| `RepositoryPolicyProofs` | `TypeCorrect`, `RevocationsHold`, `AccessAgrees`, `AdmittedUntilStarted` | `TypeOK`, `RevocationHolds`, `AccessNeedsInstallation`, `StartsWithinPolicy` |
| `OperatorSessionsProofs` | `RevocationIsComplete`, `OneBearer`, `AuthorizedOnlyOnAccess` | `RevocationComplete`, `OneBearerPerLogin`, `AuthorizedOnCurrentAccess` |
| `RunnerOperationsProofs` | `OwedDrainNeverPolled`, `AvailableOnlyRunning`, `DrainNeverDropped` | `OwedDrainIsHeeded`, `AvailableMeansRunning`, `DrainLeavesWithItsProcess` |
| | about `Workspace`: `TerminalRunLeavesNothing`, `LeftoversCostNothing`, `LeftoversAreNotUsed` | `TerminalLeavesNothing`, `LeftoversNeverBlock`, `LeftoversNeverRead` |
| `SandboxVerificationProofs` | `PassesOnEvidence`, `NothingStays`, `PlanFollowsFilters` | `VerdictSound`, `NothingLeftRunning`, `SelectionFollowsFilters` |

**ReviewLifecycle.** `IInv` adds, to the types:

* `RunsOK`: runs are created without gaps, a receipt, a decision or a stage receipt
  belongs to a created run, and receipts form a prefix of the generations;
* `DispatchersOK`: a dispatcher that selected a command knows that every earlier one
  is settled, also when the snapshot it selected on is old;
* `ZombiesOK` and `ExecutionOK`: an attempt, current or abandoned, works on a created
  run; its step fits its activity; a record of `published` follows a review and one of
  `rejected` a human decision; a stage attempt that may still write has a rank not
  above the state's successor, so its write is an allowed transition.

One more lemma per action maps it to a step of `RunContract` or a stutter.

Two further invariants are about executions whose terminal record is written. `Undisturbed`
says that none is closed by the execution timeout and that there are fewer disturbances than an
activity has attempts; without it the record can fail for good, the execution fails and the
next run starts beside the one that was never recorded (see *Limits*). `OneRunInv` adds
`RecordedOK` (an attempt of the record that was not lost has written it: the invariant counts
attempts against disturbances), `WorkingOK` (a run that has left the queue and is not over is the
one under review), `AbandonedOK` (abandoned attempts belong to that run), `AwaitedOK`, and
`BegunOK`: once a publication has begun, whoever records an outcome records `published` or
`failed`. The actions fall into transactions of an attempt, changes of the phase, turns of the
execution and steps outside the workflow (`StepKinds`), with one lemma for each kind.

`Admitted` adds that the policy does not change. Then only a terminal record ends a run, the
record the workflow writes never meets a different one (`OutcomeOK`), and `HeldInv` says of
each command that Temporal accepted, recorded or not yet, who holds its run. The premise is
needed: with two dispatchers and two pushes, a run that fails its loads because it is not
current any more is about to be recorded as `failed`, a supersede of the second run is pending,
the policy is switched off, and the other dispatcher, on the selection it made before, cancels
the first run as still queued (`SkipBlocked`). The record of `failed` meets `cancelled` in all its attempts, the
execution fails and the pending supersede is gone with it. `lifecycle_live`, with one head and one
dispatcher, does not reach this.

**PublishReview.** `IInv` is `TypeOK`, `AttemptsOK` (attempts start in order),
`ClaimOK` (an attempt past its claim holds it), `CallsOK` (the review in hand is one the
attempt found or made), `StagingOK` (a live attempt about to create or submit excludes
every other review), `ReviewsOK` and `VerdictOK`. The argument is that GitHub's single
draft and the lookup under the claim leave one draft to submit, whatever orphans do.
`LostAuthorityStagesNothing` speaks of the rest of a behaviour from any state in which the
authorization is lost: `StagesNothing` of an attempt (it has no review, and its calls, orphaned ones
included, are `Cautious`: none reads the head or creates, and a lookup is one of a blocked
preparation) holds of an attempt that has not prepared (`UnpreparedStagesNothing`), whatever rows
and reviews earlier attempts have left, and every step without an authorization keeps it.

**WebhookIntake.** `TypeOK`, `OpenWins` (over all applied deliveries), `EachDeliveryOnce`
and `RowsOK` (runs and checks come from recorded deliveries) are inductive together.

For `HeadConverges`, `HeadInv` adds `SecondOK` (of the last second on GitHub: its pushes make a
path that ends at GitHub's head, unless there was a reopening in it; without a push its
deliveries carry the head) and `HeadOK` (a row that has all pushes of that second, or something of a
second without one, has the head). The step that matters is the push that arrives last:
`ChainEndsAtHead` shows that a longest chain of a set of pushes that `LeadTo` a head ends there.
A chain that ends elsewhere could be made longer by the push that goes on from its end, because
the numbers of the pushes along a chain rise (`LargestOf`) and a chain has no more links than
there are pushes.

**CheckRun.** `CheckInv` is `Frame`, which holds however late a call takes effect (types, the
claim, and `Backed`: what an attempt has in hand is on GitHub), and `Quiet`, which holds while no call is late:
there are no orphans, GitHub has one check at most and the row is not ahead of the workflow (`RowOK`),
the attempt works on the workflow's update (`WorkflowOK`), and every attempt, abandoned ones
included, is `Calm`: it is not ahead of the workflow, and it creates a check only if there is none.

**ApprovalDispatch.** `TypeOK`, the three invariants, `HeadsOK` (a run that is not
current has moved) and `SentOK` (a dispatcher that waits for the answer has sent the
signal) are inductive together: decisions are immutable, so a complete run stays
complete and its aggregate the same; a command is deferred only while a finding is
undecided, and the decision about that one appends a command.

**RepositoryPolicy.** `IInv` is `TypeOK`, `AccessNeedsInstallation`, `RevokedGone` (a
repository in `revoked` has no active row), `SyncsOK` (a sync that is not outdated has
seen no revocation since it asked) and `SendingOK` (a command on its way is
allowed). The compare-and-set makes `SyncsOK` inductive, and with it what `Apply` writes
is newer than every revocation it forgets.

**OperatorSessions.** `OneBearerPerLogin` and `RevocationComplete` are not inductive: a row
could come back under a bearer that was deleted before, or be inserted for a user who was
disabled after the login had read the user. `IInv` adds `SessionsOK` (every row has an issued
bearer and login, of an enabled user, and no two rows share a login), `BearersOK` (as many
bearers remain as requests may need, so that a new one is always one nobody had),
`AdminRemains`, and for each request `LocksOK` (what it has read under the row lock, or under
the advisory lock of user access, still holds while it has that lock), `AccessOK` (an answer it
counts on was given since the check it led or joined began) and `LoginOK`. `FlightOK` is the
sharing of permission checks: a check in flight has one leader, the requests that follow it are
of its login and hence, by `SameUser`, of its user, so its answer is theirs.

**RunnerOperations.** `IInv` is `TypeOK`, `SessionOK` (processes register in order and the row
names the last one), `OwedOK` (a process that registered under a pending drain does not poll
and, as long as the row is its own, the drain is still there for it to see) and `RetiredOK`.
Every write but the registration is fenced by the session in the row, which is why a replaced
process cannot disturb them.

**Workspace.** Nothing stops two attempts from working on the same files, so `FilesInv` says
of each leftover who still answers for it: a lock and a temporary copy belong to an attempt that
works on them (`LockOK`, `TempsOK`), a half removed checkout to one that removes it (`PartialOK`), a
torn context to one that will write it or fail (`ContextOK`), a directory made after the
terminal record to its maker (`OverOK`). `FoundOK` and `WellOK` say what an attempt that is alone
finds at each place, if it fails and if it does not. Every action of an attempt is a `Turn`: the
attempt moves, and each file changes only in the way its place allows; one lemma shows that a
turn keeps the invariant, a short one per action that it is a turn.

**SandboxVerification.** The receipt speaks of what happened many calls before it, so `IInv`
carries the evidence along: `BoxOK` relates the place of an attempt, the reason it stops and
its container, late creations included; `CheckOK` says that an attempt that is not bad has seen
every selected check it is past end well, or lost its call; `RecordOK` that it reaches the
record only with the verdict of the gate and no container; `GateOK` that a gate that is over
has no process. `ReceiptOK` keeps the evidence of a receipt that passed: its attempt is over,
no step of another attempt, of the daemon or of Temporal touches it, and a creation carried out
late belongs to an attempt that stopped, so never to this one. The plan enters by three facts
(`PlanShape`, `SelectedChecks`, `PlanKept`). The assumption says that the configuration of a head
is a sequence of parsed checks and that paths are sequences of segments.

`SelectionFollowsFilters` rests on what the recursive functions of `CheckPlan` compute:
`AnySegmentsIs` and `PathMatchesIsCovers` give the rows a closed form (`Reaches`: the first parts
of the pattern stand for the first segments of the path), show that it satisfies the recursive
equation, and that nothing else does, by a smallest place where two solutions differ
(`SmallestOf`). The induction theorems of the library take an operator and cannot be used; the
finite sets ordered by inclusion are well-founded, from which `SmallestOf` follows for numbers.

Only model-checked: the liveness properties `AcceptedSettles`, `FaultsLoseNothing`,
`FailuresRepaired`, `DecisionsArrive`, `InventoryConverges`, `VerificationEnds`,
`ToldToStopStops` and `EveryRequestEnds`, as the prover does not reason about fairness, and the
violated `FailedCommandNeverPasses`.

## Limits

* When `record_terminal` fails in all its attempts, the workflow execution fails
  outside the `try` block, a pending supersede is dropped and its run stays queued
  with an accepted receipt. With as many disturbances as attempts in `lifecycle_live`
  the model shows this; the run stays below.
* The execution timeout closes an execution without a record (`ExecutionExpires`);
  the run it reviewed stays active. No liveness is claimed with it, and as a run that stays
  where it is follows its contract, no property of `ReviewLifecycle` demands the record. An
  approval of such a run is refused and retried for ever and, as the oldest pending command,
  keeps later approvals waiting: `DecisionsArrive` is about runs that are not `Blocked`.
* A failed publication may leave its review behind: an abandoned attempt that goes on
  submits it. With two faults and a refused draft the attempts may be used up.
* A database connection that breaks under a running publish attempt, which would free
  its claim, is not modelled.
* `HeadConverges` excludes a second in which a head is pushed back: even in order, a
  force push to an earlier head of that second keeps the later one.
* A request that creates a check and takes effect after the retry has looked leads to
  a second check; if its id was not recorded, `find_check_run` raises for every later
  update. That is why three parts of `CheckRun` assume prompt calls. An abandoned
  attempt that holds the claim makes all retries fail as busy; a late record of
  `running` can overwrite the conclusion in the row.
* A rerun that arrives before the row says that its check is completed is dropped.
* An approval that is skipped because the head had moved stays skipped when the head
  comes back, as its run keeps waiting for its timer. A run without findings has no
  command and waits for its timer too.
* A start whose dispatcher timed out may reach Temporal all the same, with the lock
  free by then: `StartsWithinPolicy` is about starts that are answered. The command
  stays pending and is blocked if the policy has changed, so its run may be recorded
  as cancelled while the execution starts; the first stage of that execution then fails.
* Two attempts at once: a checkout that waits for the lock until its time is over removes
  the run directory with the pointer, so the checkout of the other one is not found by the
  terminal record; the handler of an abandoned attempt can remove the checkout its retry
  works on; an attempt that reads the context while an abandoned one writes it may see a
  part. A cancellation within a cleanup skips the removal of the directory. Two abandoned
  attempts that are at work when the terminal record runs can leave a directory: one makes it
  after the removal and gets the checkout, the other starts to remove that checkout and is
  cancelled; the first then fails its revalidation, finds no whole checkout and gives up its
  cleanup. This is what the premises `OneAtATime`, `alone`, `three` and `NoCleanupCut` of the
  `Workspace` properties leave out.
* A container whose creation is carried out after its call was cut off and the removal
  confirmed, and the containers of a worker that died, stay until an operator removes them;
  their memory and processes are limited, but nobody looks for them.
* The cleanup of the proof gate is attempted once: a second interruption ends it, a cancellation
  or the time limit of the proof, processes that outlive its five seconds stay, and one
  that starts before the supervisor has forked the gate finds nothing to kill. The call
  fails, and the gate may run on.
* A heartbeat that is in its thread when the watch of a worker is cancelled may be written
  after the retirement and show the runner as available until it ages. A retirement that
  fails leaves the drain request, and the next process of that name retires at once.
* Permission checks are shared within one API process; each further process has its own.
* Locks are taken in one step per transaction: the dispatcher locks the run before the
  installation, a rerun the installation before the pull request, an activity run and
  pull request. Whether they can wait for each other is not modelled; PostgreSQL would
  end one of them, as a failed transaction that is retried.

## Plan

Done: the pipeline from policy and intake to publication, checks and approvals; the inside
of the verification with its files, containers and processes; runners and sessions; proofs of
every safety property the passing runs check. What follows:

1. An abstract exactly-once specification of the outbox that both dispatchers implement.
2. Premises on the terminal record itself, in place of `Undisturbed`, for `OneRunActive`.
3. Migration locking, backup and restore, release drafts; evidence expiry.
4. The context selector and the evaluation metrics as operators against a reference
   definition.

## Not modelled

* Model providers and the evidence store: one call each, which succeeds, fails or is lost;
  evidence rows are appended and expire.
* Migrations, backup and release tools: planned as above. The context selector: what it
  selects is data to every other part.
* Dashboard, health, metrics, alerts and the web pages only read; the observation of queues
  and pending activities by runners feeds them. The evaluations are offline.
* The rate limits of logins, the static bearer token of reviewers, the Windows job object of
  the proof adapter, run metrics, and the redaction of what is stored as evidence.
