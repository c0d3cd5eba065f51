# Formal model of the agent-service backend

The repository is the FastAPI backend that takes a customer's request for data
through three agent stages (requirement analysis, data selection, data
processing), lets employees review each result, and delivers the outcome. This
directory holds TLA+ specifications of its core logic, the TLC configurations
that model-check them, and proofs that TLAPS checks.

    tlc -config pipeline_orderly.cfg PipelineRun      # a run
    tlapm PipelineRunProofs.tla                       # the proofs: PipelineRun,
    tlapm PipelineTurnProofs.tla                      # EXTENDS the one above
    tlapm PipelineGateProofs.tla                      # EXTENDS the one above
    tlapm EmailDeliveryProofs.tla
    tlapm StatusReporterProofs.tla
    tlapm AccountsProofs.tla
    tlapm AgentWorkProofs.tla
    tlapm AgentOutputProofs.tla                       # EXTENDS the one above

PROJECT.json lists the runs with the module each one checks, the source lines
every definition translates (`map`), the hazards and the properties that cover
them, a mutation for every property that makes it fail, and the disagreements
found between the code and what it says of itself.

## 1. The system

| Component | State it keeps | Operations | Hard behaviour |
|---|---|---|---|
| Pipeline orchestration: `pipeline/service.py`, `executor.py`, `supervisor.py`, `stale_run_monitor.py`, `worker/status_recorder.py` | rows of `pipeline_runs`, `stage_runs`, `data_requests`, `reviews`; asyncio tasks that exist only in memory | create, dispatch, execute a stage, record a status event, approve, reject, retry, administrator's recovery, automatic recovery | transactions without locks between tasks, reviewers, the Runtime and the monitor; crashes; dispatch after the commit |
| Runtime status reporting: `agentcore_status_reporter.py`, `agentcore_runtime.py` | a bounded queue of sub-step events in the Runtime's process | report, drain, shut down | events that arrive after the invocation failed; a full queue; a drain that times out |
| Agent client: `agent_client.py`, `agentcore_contract.py` | the position in the steps, the feedback for the next attempt | invoke, retry on conflict, run the selection in one request per step | lost replies; a job that goes on although its caller is gone |
| Step checklists: `analysis_steps.py`, `selection_steps.py`, `processing_steps.py` | the checklist in `output_payload` | start and finish a sub-step | checklists written back from a stale copy |
| Validation: `validation.py`, `failure.py`, `plan_integrity.py` | none | verdict and failure code of a stage's output | precedence of the checks |
| Event stream: `pipeline/router.py` (SSE) | a cursor per connection | replay, snapshot, live events | ids allocated before commits; two sources of one event |
| E-mail delivery: `email_queue.py`, `email_result_worker.py`, `email_retry_worker.py`, `service.py`, `router.py` | rows of `email_deliveries`; two queues | request, publish, apply a result, close stale and dead deliveries, redact, stream the status | at-most-once and at-least-once queues, replays, crashes between commit and publication, unique constraints |
| Customer API keys: `service.py` | contracts, keys, deliveries, usage log | issue, look up | two requests for one contract, kept apart by a partial unique index |
| Authentication: `auth_service.py`, `security_deps.py`, `session_activity_*` | login sessions, failure counts, `auth_version` | log in, refresh, log out, touch | concurrent logins and refreshes, idle and absolute expiry |
| Employees: `employees/service.py` | employees, permissions, audit log | approve, change permissions, role or status | the last permission manager, changed by two managers at once |
| Notices, dashboard, documents | notices; projections | create and edit notices; read | – |
| PII detection: `common/pii` | none | detect, mask | checksums |
| Agents: `agent_runtime` | none that lasts | prompt steps with a contract each, query policy and statements, plan lineage, plan executor, retries with feedback | two accounts of the same columns (lineage and executor, probe and query); three layers of retries; k-anonymity on what is read |
| Scripts, migrations, configuration | – | – | – |

How they interact: a request of the API commits the rows of a run and then
schedules an asyncio task of the same process (gunicorn runs one worker). The
task claims a stage, records a start event, calls the AgentCore Runtime and
waits; the Runtime writes its own sub-step events into the same rows over its own
connection. The task validates the answer and records the final event. At a
gate the run waits for a reviewer, whose request changes the rows and schedules
the next task. A monitor in the API process looks for runs that are not alive.
Events go to browsers through Redis and through polling of the database. A
finished artifact is mailed by an external mail service that is reached over
two queues (Redis lists or SQS).

What makes each component correct, in a sentence: the *orchestration* never
lets superseded work count, never skips a human decision and never leaves a run
that nobody works on; the *reporter* loses no event silently; the *event
stream* leaves the screen as the run is, and repeats no status; the *deliveries* are concluded,
and an attempt's result is on its way to a recipient once at a time; *sessions* beyond the limit are
revoked, and what was handed out before a change of the account is refused; one
*permission manager* always remains; an *agent's* answer reaches the customer only after the
contracts of every step, and nobody can be singled out in what it reads.

## 2. Modules

### PipelineRun – the life of one run

| Variable | Code |
|---|---|
| `run` | the row of `pipeline_runs`: status, current_stage, rollback_to_stage, execution_id; with the status of its `data_requests` row |
| `rows` | `stage_runs`: for each stage the sequence of attempts, with status, the approved plan in the input (as the number of the selection attempt it came from), whether an APPROVED review exists, and whether the checklist shows a sub-step RUNNING |
| `lastExec` | execution ids issued; `uuid4` in the code, a counter here |
| `task[k]` | the asyncio task scheduled with the k-th execution id, with the row snapshots it holds across its awaits |
| `runtime[k]` | the Runtime that task k invoked |
| `session[s]` | a transaction of a reviewer, an administrator or the monitor between its reads and its commit |

Every transaction that can be overtaken is two actions, one that reads and one
that commits. Nothing in this code locks a row, and SQLAlchemy writes only the
columns whose value changed since they were loaded: `Merge` lets the other
columns keep what somebody else committed in between. All writers of a run flush
its row first, and the row lock of that UPDATE serialises their flushes. This is
why a stage row is taken as of the commit (`PersistEvent`, `Latest`), as
`persist_status_event` selects the newest attempt after the flush. Rows read
by a session are seen as at its start or at its commit; a version in between is
not distinguished.

Actions, in the order of the code: `DispatchRead`, `DispatchCommit`,
`DispatchFails` (`executor._dispatch`), `StartRead`, `StartCommit`, `Invoke`,
`PayloadFails`, `AgentReturns`, `FinalRead`, `FailureRollback`/`FinalCommit`
(`executor._run_stage`, `supervisor.run_stage`, `record_status`),
`RuntimeRead`, `RuntimeWrite`, `RuntimeEnds` (the Runtime's reporter and the
task's own sub-step events), `ReviewRead`, `ApproveAnalysis`,
`ApproveSelection`, `ApproveFinal`, `ReopenCommit` (`submit_stage_review`),
`RecoverRead` (`admin_recover_pipeline_run`), `Redispatch`, `ScheduleFails`,
`Abandon`, `StaleRead`, `ExhaustCommit` (the monitor), `Crash`.

`Env` chooses what the surroundings do: `report` (sub-step events), `crash`,
`late` (a Runtime that outlives its failed invocation), `slow` (the monitor takes a
living run for stale), `schedule` (scheduling raises after the commit), `admin`.

### GatedRun and PipelineRefinement – what a run promises

`GatedRun` is the abstract promise: work, wait for a decision, an approval
moves on by one stage, anything else goes back and never ahead.
`PipelineRefinement` maps a run to it: the phase is a function of the status, the
number of approvals is the number of leading stages whose newest attempt is
completed and approved.

### Proof modules

`PipelineRunProofs`, `PipelineTurnProofs` and `PipelineGateProofs` (each extends the
one before it), `EmailDeliveryProofs`, `StatusReporterProofs`, `AccountsProofs`,
`AgentWorkProofs` and `AgentOutputProofs` (which extends it) hold the theorems; see section 5.

### EmailDelivery – the deliveries of one run

| Variable | Code |
|---|---|
| `attempt` | the newest completed attempt at the stage whose result is mailed |
| `rows` | `email_deliveries`; `print` is the request's fingerprint (recipient, type and content, but not the attempt), `attempt` the column `stage_attempt_no`, `recipient` what is left of the address in its column, `delivered` whether `delivered_at` is set |
| `client` | requests of the send endpoint, between lookup, insert and publication |
| `requests`, `results` | the two queues |
| `job` | the mail service's knowledge of a delivery (external) |
| `consumer` | the result worker; `DEAD` after an exception left its loop |
| `monitor`, `operator` | what the stale monitor and a DLQ request have read |
| `backend` | the queue settings, chosen at the start |

`Valid` is the table: the CHECK on `delivered_at`, the unique key and the
partial unique index on deliveries under way; a commit that breaks it is rolled
back. `Receivable` is the difference of the queues: a Redis list is popped at
its head and a popped result is lost when the process dies; a standard SQS queue gives any
result, and keeps it until it is deleted. `Known` looks a request up by its key and compares
fingerprints, `Ongoing` by attempt and recipient, so the two can find deliveries of
different attempts; `NewAttempt` is what the pipeline does to this module. Of the mail service the model assumes
that it sends a delivery id once and retries what it dropped.

### EventStream and StatusReporter – from a report to the screen

`EventStream` is a table of events with several writers and one browser that
follows it; `StatusReporter` extends it with the writers of one invocation.

| Variable | Code |
|---|---|
| `events` | `pipeline_events` in the order of their ids; `late` is history: a younger event was committed before this one |
| `writer[w]` | the event a database session of writer w is at, between INSERT, COMMIT and publication |
| `applied` | the status event whose content the run's row holds |
| `channel` | messages of the Redis subscription |
| `stream` | the generator `stream_run_events`: boundary, history, snapshot, cursor |
| `client` | what the browser has: Last-Event-ID, the status and logs it shows; `frames` and `replays` count, as history, how often each event came with its number and without, and `loose` are the logs that came without one and that the cursor does not cover |
| `thread`, `calls`, `queue`, `consumer`, `dropped` | `AgentCoreStatusReporter`: the agent's thread, the `put_nowait` calls scheduled on the loop, the bounded queue, the consumer task, the reports lost |
| `handler` | `agentcore_runtime.invoke`: drain, stop, answer |
| `api` | the task of the API process that waits for the answer and writes the outcome |

Actions of the stream: `Subscribe`, `ReadBoundary`, `ReadHistory`,
`ReadSnapshot`, `Begin`, `Poll`, `Send`, `Disconnect` (with the Last-Event-ID, or as a new page).
Actions of the writers: `Insert` (allocates the id), `Commit`, `Abort`,
`Publish`. A status event waits for the lock on the run's row (`RunLocked`), a
log event does not: this is how ids and commits come to disagree.
Actions of the reporter: `Report`, `Enqueue`, `Take`, `WriteBegins`,
`WriteEnds`, `WriteFails`, `AgentEnds`, `FailureBegins`/`Ends`/`Lost`, `Join`, `PutStop`,
`ConsumerEnded`, `ConsumerCancelled`, `Answered`, `OutcomeBegins`/`Commits`/`Ends`.

### Accounts – employees, sessions and permissions

| Variable | Code |
|---|---|
| `employees` | rows of `employees` with their permissions (`manage` stands for the administrative ones) |
| `sessions` | `login_sessions`; `refresh` numbers the refresh tokens, `redeemed` is history |
| `tokens` | access tokens handed out, with the `auth_version` they carry; `fresh` is history: the account was not changed since the row was read that the version is from |
| `requests[r]` | a request between its reads and its commit, with the rows as it loaded them; `missed` is history: the accounts that were changed since |
| `locks` | the row locks a flush holds until the commit |
| `raced` | history: a change was written over one its request had not seen |
| `blurred` | history: accounts that were changed without a version of their own where only a new version would turn an older token away: no session ended, or a request was past that check |

Each operation is a read and a commit, with a flush or an authentication in
between where the code has one: `LoginRead`/`LoginFlush`/`LoginCommit`,
`ReviewLoginRead`, `LoginFails`, `RefreshRead` (which locks the session's row) and
`RefreshCommit`, `Authenticate`/`Authorise` (session and account are read one
after the other), `Serve`, `Logout`, `ChangePassword`, `TargetRead` with `Change`, `Decide`,
`Insert`, `RevokeSession`, `ChangeFails`, `SignupRead`/`SignupAgain`, the scripts
`Provision`, `ResetAdmin`, `Promote`, and `TimePasses`.
As in `PipelineRun`, a commit writes the columns that differ from what was loaded
(`Written`). There are two kinds of changes: `ChangeAndRevoke` ends all sessions of the
employee in the same transaction (permissions, role, status, passwords), `ChangeOnly`
ends none (`approve_signup`, `reject_signup`, a second application). Every one of them, and every script,
makes the tokens of the account outdated (`Outdated`), and those that requests
under way are about to hand out (`Overtaken`).

### SelectionPolicy, ProcessingPlans and AgentWork – the agents

`SelectionPolicy` holds operators only: what is normalised in a selection the
model proposes (`Prepared`), what its contracts demand (`SourceAccepted`,
`DerivedAccepted`, `SampleAccepted`), and what the database is asked (`Probe`, `Retrieved`),
with rule A (no identifying column beside two attributes of a person)
and rule B (every combination of dimensions is shared by K customers).

`ProcessingPlans` holds the plan's operators: `Lineage` is what the
planning steps believe of the columns, `Execute` what the processor does with
them, `OrderDerived` and `Covers` the order and the completeness of the derived columns.
The loops over operations are functions of the number of operations (`Availability`,
`Execution`) or of passes (`Passes`) done, so that a proof can speak of each of their states.

`AgentWork` is one call of the supervisor to an agent:

| Variable | Code |
|---|---|
| `mode`, `agent`, `approved` | local or AgentCore; the stage; for processing the selection that was approved |
| `client` | `AgentClient.run`: step, attempt, tries, feedback, results so far |
| `job` | the work on the last request that was delivered, in the Runtime or in the client's own process |
| `list` | the step checklist as the reports leave it |
| `executed` | history: each (step, attempt) that ever reached an agent |
| `retrieved` | the rows the database handed out |
| `outcome` | what the supervisor gets |

Actions: `Deliver`, `InvokeFails` (a conflict, a refusal, a connection cut while the
job goes on, an undecodable reply), `StartJob`, `SchemaUnavailable`, `NextPrompt`,
`LastPrompt`, `Refuse`, `ProbeSelection`, `Retrieve`, `Process`, `StoreArtifact`,
`ReplyLost`, `NextRequest`, `RetryRequest`, `StageResult`, `StageError`.
The model is the environment: it gives any answer of `Answers[step]`.
`MCAgentWork` supplies a database of three customers and five transactions
and, for each prompt, answers that are sound and answers that are not.

Definitions that begin with the comment "Faulty:" are plausible mistakes. No
action uses them; PROJECT.json's mutants put them in the place of the right one
to show that a property notices.

## 3. Runs

Passing runs, with the distinct states TLC finds:

| Run | Instance | States | Shows |
|---|---|---|---|
| `pipeline_orderly` | one reviewer, 4 dispatches, five kinds of stage failure, sub-step reports, fairness | 8 k | `TypeOK`; run and data request are closed together (`ClosedTogether`); failed stages show no RUNNING sub-step (`FailedStageIsSwept`); a run that is not settled is worked on or visible to the monitor (`NoLimbo`); every dispatch comes to a gate or an end (`RunSettles`, liveness) |
| `pipeline_crash` | one reviewer, 5 dispatches, crashes and failing schedules | 141 k | `ImplementsGates` (refinement of GatedRun), `HumanGate`, `ApprovedPlanIsCurrent`, `ClaimIsExclusive`, `WaitingHasResult`, `CompletedByEveryGate`, `SettledUntilDecided` |
| `pipeline_reviewers` | two reviewers at once, and a monitor that takes live tasks for dead | 427 k | `SupersededIsDead`, `ProcessesApprovedPlan` |
| `pipeline_late` | a Runtime that outlives its invocation and reports on | 250 k | `CompletedByFinalApproval` |
| `pipeline_admin` | recovery by an administrator at any moment, crashes | 145 k | `PlanWasApproved` |
| `email_sqs` | two clients, two deliveries, SQS or no queue, slow deliveries, a failing call | 2.6 M | `OneMailAtATime`, `FailedMeansUnsent` |
| `email_redis` | one delivery, two attempts at the stage, Redis, up to three faults of every kind, fairness | 629 k | `TypeOK` with the table's constraints, `AnswersTheRequest`, `SentIsFinal`, `Concluded` (liveness) |
| `streams` | three reports through a queue of two, four events, two connections, one fault of any kind, fairness | 628 k | reports are written in order (`ReportsInOrder`) and all of them when nothing went wrong (`DrainFlushes`); nothing is written after the answer (`SilentAfterAnswer`); no event comes twice, with its number or without, but for logs above the boundary (`NoRepeat`); the screen ends up right when ids and commits agree on the order (`ScreenCatchesUp`, liveness); the queue's bound (`TypeOK`) |
| `accounts` | three employees, two requests at a time, four in all, every operation | 719 k | `SessionLimit`, `RefreshOnce`, `RevokedIsFinal`, `StaleTokenRefused`, `ManagerRemains`, `TypeOK` |
| `agents` | the three agents in both modes, three attempts, two tries, every answer of `MCAgentWork` | 35 k | no attempt is executed twice (`OncePerAttempt`); feedback is of the attempt it corrects (`FeedbackIsFresh`); checklist and outcome agree (`ChecklistTellsOutcome`); k-anonymity of what is read (`PersonIsHidden`); the delivered columns were read or computed (`OutputIsReal`); every call ends with an outcome (`Concludes`, liveness) |

Runs that TLC must find violated (see section 6): `found_skipped_gate`,
`found_email_poison`.

**Which properties hold where.** The pipeline has two families. Four properties
hold in every environment: `SupersededIsDead`, `PlanWasApproved`, `ProcessesApprovedPlan`,
`CompletedByFinalApproval`. The others hold while one reviewer decides at a time
and the Runtime stops with its invocation, and TLC refutes them otherwise: with
`late`, `slow`, `admin` or two reviewers none of `HumanGate`,
`ClaimIsExclusive`, `WaitingHasResult`, `SettledUntilDecided`, `ClosedTogether`,
`ImplementsGates` is a property of the code. In addition `FailedStageIsSwept`
and `NoLimbo` need an API process that does not crash (section 6), and
`ClosedTogether` needs schedules that do not fail: `_redispatch` (service.py:1139)
fails the run and leaves its data request open, unlike `create_data_request`
(288). `RunSettles` does not survive `late` together with a reviewer. Both families are
proved for every value of the constants, the second from these
conditions (section 5).

Of the deliveries, `TypeOK` and `AnswersTheRequest` hold with any backend.
`SentIsFinal` needs the order of a Redis list, and TLC refutes it for SQS; `OneMailAtATime`
and `FailedMeansUnsent` hold with SQS or no queue, and TLC refutes them for Redis
(the monitor closes what is only slow) and where an operator closes dead letters.

Five properties carry their exception in themselves, because the code does not
promise more; section 6 says what happens in the excepted cases.

* `ScreenCatchesUp` excepts runs in which an event was committed after a younger one.
* `ManagerRemains` excepts changes written over one another.
* `OutputIsReal` excepts target columns that no operation writes.
* `NoRepeat` excepts the logs in `loose`: replayed to a new page without a number, and either
  above the boundary, so that the live loop sends them again, or followed by a
  disconnection before the page had any number, so that the next connection replays them again. Status
  events, and every event with a number, are not excepted.
* `StaleTokenRefused` excepts the accounts in `blurred`. An account comes in there when it is
  promoted while active (the script raises no version and ends no session), when a decision about an
  application overlaps another change of the account (two changes, one version, no
  session ended), and when the second of two overlapping changes is
  written while a login, a refresh or a request that has read its session is under
  way for that account. In `accounts` the first and the third occur; two overlapping
  decisions need a fifth request (a login between them, and work after both), which only the theorem covers. With
  `MaxRequests = 5` and `Ops = {"login", "work", "signup", "approve"}` TLC finds that case too.

`AnswersTheRequest` has no exception but says two different things of two kinds of
answers: under the key of an earlier request the content is the same, under
another key the attempt is.

**Bounds.** `MaxExec` bounds the dispatches; every decision but the last one
costs one. Three dispatches reach a completed run, four add one retry or
rejection before it, five add two, so that a reopened stage is reopened
again: the attempts of a stage then reach three, and a plan can be inherited from a
rolled-back attempt. The concurrent runs need fewer, because their conflicts need
one gate and two transactions. At the bound a session that would issue another
execution id does not open. `MaxAuto` is the setting's default
2. `AgentFailure` holds one code per row of the rollback table that a run is
meant to reach. Two deliveries (`email_sqs`) are the fewest that can compete for a recipient;
`email_redis` follows one delivery, created by either of two keys, for either of
two recipients, in either of two attempts, through every combination of three faults: what it checks concerns each
delivery by itself. One thing two deliveries share is the result worker, whose
death the faults of a single one bring about too.

`streams`: a queue of two overflows with the third report while the first is
being written; four events leave room for the outcome beside all three reports, or for the failure
report; a replay limit of one makes a new page miss a log. Two connections are
the fewest with a reconnection.
`accounts`: with `MaxActive` 1 the second login has to revoke the first, with
`MaxFailures` 2 the second failure locks. Three employees are a manager,
an administrator without the permissions and someone who signs up; two requests
at a time are every pairwise race, and four in all let a race follow on a
session that an earlier request made, or a refresh on a refresh.
`agents`: three attempts are the code's number; two tries at a request
show one repetition and the end of them; K is 2 instead of 5 and the threshold
for customers 2, so three customers hold safe groups and unsafe ones.

**Deadlock** is not checked: a run that is completed, or has used up its
dispatches, stops, and so do deliveries that are concluded, invocations that
are answered and accounts that nobody uses.

**Fairness.** Pipeline: the tasks' steps (the event loop resumes them), the
commits of transactions that have begun, the return of an invocation and
the end of its Runtime (both have timeouts; strongly fair, as the Runtime's own
writes may disable them), and the monitor, which wakes up periodically. No
fairness is assumed of reviewers, administrators or crashes. E-mail: requests
in progress, the worker, the monitor, and each message and job of the
mail service; none of new requests, of faults, of operators. Streams: callbacks, the
consumer, the handler, the API's task and a browser that is connected make
progress; nobody has to report, fail or disconnect. Agents: the client or the
job goes on while either can; the network never has to fail or to work
(`Deliver` is the client's own step). One condition for both is
enough: while the client has something to do there is no job, but for one it has given up.

## 4. What is abstracted

Payloads, prompts and previews, observation logs, artifacts, progress numbers
and messages are left out. In `PipelineRun` a plan is represented by the selection attempt it
belongs to, a checklist by whether it shows a RUNNING sub-step, and validation by the
choice of a failure code a stage can produce (`StageFailure`); `AgentWork` looks inside
that choice. Permissions are
checked before anything is written and leave no trace, so the pipeline's modules leave
them out; `Accounts` has them. The
API process is one (one gunicorn worker), and so are its monitors. Time is left out: `slow`
says whether a limit can hit something that is alive, and sessions run out at any moment. An e-mail's
content is one model value; the address and the fingerprint are kept apart because
redaction changes only the address.

Of the agents, an answer is a record of what the contracts tell apart; its `form`
stands for every structural defect. Cells have values in the selection, where
groups are counted, and none in the processing, where a fault that depends on
them (a quality check, a division by zero) is a choice. Row limits, the catalog of
merchant codes, column aliases in the prompts, hints to the customer and plans
made without a model are left out.

Assertions about external code: the mail service's deduplication, that an SQS
result queue is a standard one (no order, redelivery after a crash), that
PostgreSQL runs at READ COMMITTED, that Redis delivers the messages of one
subscription in order, that the AgentCore service answers a conflict or a
throttle before it starts the work.

## 5. Proofs

Every theorem holds for all values of the constants: any sets of reviewers, clients,
employees and keys, any number of dispatches, deliveries, reports, sessions and faults.
The assumptions are the named `ASSUME`s of the modules (bounds are natural numbers,
`Env` names known behaviour, and the like); a theorem that needs more says so. Two
of them are worth a word: `RedactedIsNoRecipient` (`EmailDelivery`) says that the text written over a
recipient is not an address, which `_normalize_recipient` sees to (service.py:547: what
has no @ is lower case), and `StaffIsFinite` (`Accounts`) says that there are finitely many employees at the start.

In each module the properties follow from one inductive invariant, whose parts
TLC checked on the instance of a run before they were proved. The modules are laid out
alike: what the helpers return, how each variable can change in a step, one lemma
for each part of the invariant, and the theorems, which combine them by PTL.

### The pipeline in every environment (`PipelineRunProofs`)

| Theorem | Statement |
|---|---|
| `TypeCorrect` | `Spec => []TypeOK` |
| `NoResurrection` | `Spec => []SupersededIsDead` |
| `OnlyApprovedPlans` | `Spec => []PlanWasApproved` |
| `ProcessingIsSanctioned` | `Spec => []ProcessesApprovedPlan` |
| `CompletionIsApproved` | `Spec => []CompletedByFinalApproval` |
| `Invariance` | `Spec => []IInv` |

None of the properties is inductive alone. `IInv` joins them with

* `TypeOK`: every attempt list is a sequence, every snapshot a run row;
* `Located`: each stage has an attempt, and the attempt a task or the monitor holds exists;
* `SeenCoherently`: an open transaction that saw the newest attempt saw it not
  rolled back, and it never saw more attempts than there are. This is what makes
  a stale commit harmless: the reopening transaction either meets the rows it
  saw, or collides with the unique constraint on (run, stage, attempt) and is
  rolled back;
* `PlansApproved`: the plans in rows, in tasks and in what transactions have
  seen are plans of approved selection attempts. A plan is copied four times between
  the approval and the agent, and each copy has to be covered;
* `CompletedByFinalApproval`.

The argument goes by variable. Operator lemmas say what one commit does to the
rows (`RowsAfterEvent`, `RowsAfterApproval`, `RowsAfterReopen`,
`RowsAfterExhaust`), and `RowsStep` concludes for a whole step: attempts are
never removed, approvals never withdrawn, the superseded stay dead.
`TasksStep`, `RuntimesStep`, `SessionsStep` and `RunStep` do the same for the
other variables; `StepIInv` puts them together.

### A run that is worked on by one at a time (`PipelineTurnProofs`)

| Theorem | Hypothesis | Statement |
|---|---|---|
| `WorkedOnByOne` | `OneAtATime` | `Spec => [](IInv /\ HandInv)` |
| `ClaimsAreExclusive` | `OneAtATime` | `Spec => []ClaimIsExclusive` |
| `OnlyDecisionsEnd` | `OneAtATime` | `Spec => SettledUntilDecided` |
| `ClosesTheRequest` | `Scheduling` | `Spec => []ClosedTogether` |
| `NoRunIsStuck` | `Unbroken` | `Spec => []NoLimbo` |
| `FailedStagesAreSwept` | `Unbroken` | `Spec => []FailedStageIsSwept` |

`OneAtATime`: at most one reviewer, and `Env` within `report`, `crash` and `schedule`, so
sub-step reports, crashes, failing schedules and failing agents are admitted; a late
Runtime, a monitor that takes the living for dead and an administrator are not.
`Scheduling` adds that a task that was committed to can be scheduled, `Unbroken` that
the API process does not die. TLC refutes each property without its hypothesis (section 3).

Nothing in the code excludes two workers; that there is only one follows from who can begin
when. `HandInv` says it in full: whoever is at work, a task or a transaction, is
`Alone`, and what it holds across its awaits is current (`TaskHand`, `RuntimeHand`,
`SessionHand`), so a commit merges into the very row that was read
(`MergeCurrent`, `CurrentEvent`). `ClosedTogether` adds that no transaction comes back
from a failed schedule (`NoneUnscheduled`), `NoLimbo` that a living task goes on until it
commits an outcome (`TaskGoesOn`), `FailedStageIsSwept` that a sub-step is RUNNING only
while the agent of its stage is at work (`BusyIsWorkedOn`).

### The human gates and the refinement (`PipelineGateProofs`)

| Theorem | Hypothesis | Statement |
|---|---|---|
| `StagesTakeTurns` | `Orderly` | `Spec => []AllInv` |
| `GatesAreHuman` | `Orderly` | `Spec => HumanGate` |
| `PlanIsCurrent` | `Orderly` | `Spec => ApprovedPlanIsCurrent` |
| `GateShowsResult` | `Orderly` | `Spec => []WaitingHasResult` |
| `CompletionPassedEveryGate` | `Orderly` | `Spec => []CompletedByEveryGate` |
| `RunImplementsGates` | `Orderly` | `Spec => ImplementsGates` |

`Orderly` is `OneAtATime`, and every failure code that a reviewer gives rolls back to the first
stage; without the latter `found_skipped_gate` is a run past a gate.

The invariant is `TurnInv`: it is the turn of one stage `c`. Everything before `c` is completed
and approved, nothing after it has begun (`Front`); the status of the run says how far
`c` is (`Stands`); tasks work on `c` and fail as an agent of `c` can (`TasksAt`); no
transaction is about to send the run ahead of `c` (`SessionsAt`). With it the
approvals that `PipelineRefinement` counts are the stages before `c`, plus `c` itself when
the run is completed, so each step of the run can be told from what it does to the turn: it
leaves it, advances it by an approval or takes it back
(`TurnMoves`). `RunImplementsGates` maps the first to a stutter or to a change of
phase of `GatedRun`, the others to its `Approve` and its return.

### Deliveries (`EmailDeliveryProofs`)

| Theorem | Statement |
|---|---|
| `EmailInvariant` | `Spec => []EmailInv` |
| `EmailTypeCorrect` | `Spec => []TypeOK` |
| `RequestsAreAnswered` | `Spec => []AnswersTheRequest` |
| `SentStaysSent` | `Spec /\ backend # "sqs" => SentIsFinal` |
| `ReportInvariant` | no operator: `Spec => []ReportInv` |
| `MailsAreSentOneAtATime` | no operator: `Spec /\ backend # "redis" => []OneMailAtATime` |
| `FailedWasNotSent` | no operator: `Spec /\ backend # "redis" => []FailedMeansUnsent` |

The backend is a variable because the settings choose it; it never changes.

* `Types` includes the table's constraints. They are checked at each commit except
  the purge, which must not break them and does not: a redacted row is terminal.
* `Answers`: the recipient is the one of the request until it is redacted. So a delivery
  found under way to a recipient was made for it, although rows are redacted while a request looks; that
  its attempt is the current one is what the lookup compares. What was found stays an
  answer to the request that goes on with it, although a newer attempt may complete meanwhile.
* `InOrder`: once a row, or the result in hand, or a result in the queue says that the mail
  was sent, the service knows it too, and nothing behind it says "SENDING"
  (`Final`). `FinalKept` is the core: what is final stays final in every step.
* `Reports` speaks of a queue without order: each row and each result says
  something the service has reported by now (`Past`), and what was reported stays
  reported (`PastGrows`). While the mail may still be sent, its row is
  under way and not redacted, and there the partial index keeps the others away.

### Reports and the event stream (`StatusReporterProofs`)

| Theorem | Statement |
|---|---|
| `ReporterInvariant` | `Spec => []ReporterInv` |
| `ReporterTypeCorrect` | `Spec => []TypeOK` |
| `ReportsStayInOrder` | `Spec => []ReportsInOrder` |
| `DrainIsComplete` | `Spec => []DrainFlushes` |
| `NothingAfterAnswer` | `Spec => SilentAfterAnswer` |
| `FramesAreNotRepeated` | `Spec => []NoRepeat` |

* `InLine`: rows, the report being written, the queue and the scheduled calls are one
  ascending line, and who stands in it is behind everything inserted, aborted or not.
* `Ending`: the stop mark comes after the last report, and the handler answers only when the
  consumer has reached it.
* `Accounted`: without a fault every report made is in a row, in the line or counted as dropped.
* `Hands`: a database session is at an event of its own kind; the consumer's is the report it has taken.
* `Watching`: what the browser was sent lies at or below its cursor, and what it
  will be sent lies above. It speaks of ids, not of commits, which is why it holds whatever
  order ids and commits come in.
* `Replayed`: what came without a number is a log, came once, has not come with a number, and
  is at or below the cursor, or will be when the replay is over, unless it is `loose`.

### Accounts (`AccountsProofs`)

| Theorem | Statement |
|---|---|
| `AccountsInvariant` | `Spec => []AccountsInv` |
| `AccountsTypeCorrect` | `Spec => []TypeOK` |
| `SessionsAreLimited` | `Spec => []SessionLimit` |
| `RefreshTokensWorkOnce` | `Spec => []RefreshOnce` |
| `EndedSessionsStayEnded` | `Spec => RevokedIsFinal` |
| `OldTokensAreRefused` | `Spec => StaleTokenRefused` |
| `ManagementRemains` | `Spec => []ManagerRemains` |

* `Rotation`: a refresh that is under way holds the lock on a live session alone, and the
  token it was sent is the valid one.
* `Freshness`: a fresh access token has the version of its account, which is active; an outdated one of
  a live session has a lower version, or the account is `blurred` (`Stamp`). The same holds of
  the version a request between its reads came with or is about to hand out (`Carries`), and a row
  that a request has loaded has the status and version of the account unless the request
  missed a change (`Seen`). Neither the version nor the end of
  the sessions is enough alone: two overlapping changes write one version, and a
  request that has read its session goes on when it ends. The proof shows that every step either leaves versions, statuses and
  tokens as they are (`Quiet`) or changes one account (`Changes`): with a new version, with all
  sessions ended and nobody under way, with the account blurred, or while it is not active
  and so has no fresh token.
* `Counting`: a login that has counted the sessions of its employee holds the lock on the
  employee's row alone, and no session was added since.
* `Management`: of a request that nobody overtook, what it loaded stands, and what it will write
  leaves somebody with the management. Overtaken ones are the exception `raced`.

### Agents (`AgentWorkProofs`, `AgentOutputProofs`)

For any database, thresholds, answers of the model, and any number of attempts and tries:

| Theorem | Statement |
|---|---|
| `NobodySingledOut` | `Spec => []PersonIsHidden` |
| `NoSecondExecution` | `Spec => []OncePerAttempt` |
| `CorrectedOnce` | `Spec => []FeedbackIsFresh` |
| `ScreenMatchesOutcome` | `Spec => []ChecklistTellsOutcome` |
| `DeliveredColumnsAreReal` | `Spec => []OutputIsReal` |
| `LineageIsReal` | for every list of operations the lineage accepts, what it counts as there is what the executor read or computed, but for `Phantoms` |
| `LineageAddsNothingElse` | what the lineage counts as there was read, is `Created`, or is one of `Phantoms` |
| `DerivationsInOrder` | what `Orderable` admits, `OrderDerived` permutes so that every derivation comes behind those it reads from and before all other operations, which keep their order |

Assumptions: those of `AgentWork`, and that there are finitely many attributes of a
person (`PersonAttributesAssumption`), without which "fewer than two" would mean nothing.
Of the answers of the model they say only that operations come as a list
(`AnswersAssumption`): that is what is parsed from the answer's JSON array.

* `NobodySingledOut` rests on `Sanctioned`: what is processed was accepted by the first
  step's contract, and what was read is what `Retrieved` gives for it. That rule B
  filters rows one by one and still leaves whole groups is `GroupsStayWhole`: rows that
  agree on the dimensions are safe together or not at all.
* `NoSecondExecution` rests on `Ordered`: what was executed lies before the request
  that is to be sent. A conflict keeps the request because nothing was delivered; a
  cut connection ends the client instead.
* `CorrectedOnce` rests on `ClientFresh` and `JobFresh`, one for each side of the
  network. Neither is inductive alone: the job starts with what the client holds,
  the client's next request takes what the job replied, and a job whose caller is gone goes on
  beside a client that asks for nothing any more.
* `ScreenMatchesOutcome` rests on `ListInv`: the checklist is always completed up to some step,
  has one mark behind it and nothing further (`Shown`), and that step is the one the job is at
  (`JobShows`), or the client while there is no job (`ClientShows`), or the outcome names
  (`OutcomeShows`). It needs `ClientFresh` and `JobFresh` beside it, because whether a refused
  contract is shown as failed depends on the attempt the job counts, and whether there is a
  next one on the attempt the client counts.
* `DeliveredColumnsAreReal` has two halves. About operators: `LineageIsReal` and
  `LineageAddsNothingElse` follow the validator and the executor through the same operations.
  Across one operation a column that counts as there stays real (`OneOperation`), and no column comes
  in from nowhere (`OneAddition`); `CountingUp` carries that to the end of the list. About the
  protocol: `PlanInv` says that whoever holds results of the planning steps, the job or the
  client, holds accepted ones that build on each other (`Planned`), and that a plan is
  executed and delivered with all four. Without it a plan might be executed that was
  accepted against other operations than those it contains.
* `DerivationsInOrder` rests on three facts about `Passes`: each pass takes what the one before
  took (`PassesGrow`), so "taken earlier, or written earlier" is a strict total order
  (`PassesOrder`), and along it no two operations have the same place
  (`PlacesAreDistinct`). An operation is taken in the pass
  after the last of those it reads.

### What cannot be proved here

Every safety invariant and every action property of the runs is stated by a theorem.
Liveness (`RunSettles`, `Concluded`, `ScreenCatchesUp`, `Concludes`), and with it all that rests on
fairness, is only model-checked. The library's induction theorems cannot be
used because they take an operator as a parameter; where an invariant depends on a loop over data
(`LineageIsReal`), the induction is carried out with a set of numbers instead: were the fact false of some
number, it would be false of a least one (`LeastNumber`, `CountingUp`), and
the loop's function is unfolded once.

## 6. Disagreements found

Each of the first two is a run with the property the code's own text states;
PROJECT.json quotes it.

1. `found_skipped_gate`: rejecting with a failure code of a later stage sends the
   run ahead, past the gates in between.
2. `found_email_poison`: a complaint after the delivery breaks the table's check
   on `delivered_at` and ends the result worker.

The models show more when the constants of a run are changed; the definitions
marked "does not hold" are there for this.

* *A stale event counts.* `StaleEventsAreCut` with `Env = {"admin"}`: an event whose execution id is outdated by
  the time it commits still takes effect, although router.py:295 and
  service.py:1132 say that a new execution id cuts it off.
* *Limbo.* `NoLimbo` with `Env = {"crash"}`: after a crash a QUEUED run, or a RUNNING one without a RUNNING
  stage, is never found again, although stale_run_monitor.py:1 is there for it.
* *A skipped event.* `EventsAreNotSkipped` in `StatusReporter` with `Faults = {"cut"}` and two
  reports: a report that got its id before the outcome and commits after it is never sent, although the
  comment at router.py:620-621 says that earlier events of the Runtime are not
  skipped.
* `FailedStageIsSwept` with `Env = {"report", "crash"}` and a stage failure: the monitor
  closes a stage as FAILED and leaves its sub-step RUNNING
  (stale_run_monitor.py:64), although status_recorder.py:265-267 calls itself the
  only place that keeps the two consistent.
* `ClaimIsExclusive` with two reviewers: concurrent approvals make two tasks
  execute one attempt (supervisor.py:80 reads, a later commit claims).
* `Concluded` with `Backends = {"sqs"}` and a crash, or with no queue and a crash: a
  delivery that was committed and not published stays QUEUED
  (email_retry_worker.py:24, 31).
* `FailedMeansUnsent` with `"operator"`: the check at email_retry_worker.py:82 and
  the update are apart.
* `ManagerRemains` without its exception `raced`: two managers who each take the
  permission from the other at the same time both find one left
  (employees/service.py:387).
* `AnswersWithTheAttempt` in `email_redis`: the fingerprint leaves the attempt out
  (service.py:623-638). A key that is used again for the same content after the stage was
  completed anew is answered with the delivery of the older attempt (640-644),
  which the mail then goes out under.
* `EveryFrameOnce` in `streams`: the history of a new page is read after the boundary and has
  no upper limit (router.py:464-490). A log that commits in between is
  replayed without an id (381) and, being above the cursor, sent again by the live loop.
  The same happens to a page that loses the connection before it has a number.
* `EveryStaleTokenRefused` in `accounts`: `promote_dev_super_admin` changes status, role and
  permissions of an account and raises no version (promote_dev_super_admin.py:31-39), so
  tokens from before are good for the new role. Two decisions about one application
  that overlap write one `auth_version` and end no session (employees/service.py:309-318,
  340-343), so a token issued between them is let in after the second. And the end
  of the sessions does not reach what is under way while the second of two overlapping changes
  writes the version of the first: a request that has read its session (security_deps.py:79) is let
  in, a login (auth_service.py:83-162) opens a session with tokens of that version.
* `OutputIsReal` without `Phantoms`: a target column of `deduplicate`, `cast`, `fill_missing` or
  `sort` counts as available (plan.py:308) and becomes an output column of nulls.

Read and modelled, with no property that names it:

* the comment at router.py:129-130 says that without a queue a delivery stays
  QUEUED; the code at 176-181 marks it FAILED;
* publishing reads the sample again after the commit (router.py:142): when a newer attempt has completed in
  between, its rows go out under the older delivery's attempt number and hash;
* a login under way during a password change opens a session after the change: its first access token is
  refused, but its refresh token yields one that is accepted;
* a report that finds the queue full is lost without a count: `put_nowait` raises in a
  callback of the loop, not in the `try` (agentcore_status_reporter.py:161-163);
* a selection of customers and merchants without transactions passes every
  contract and fails when the approved selection is executed (executors.py:189);
* the probe filters a column on the last table that has it, the query on the
  first (executors.py:153): they may count other customers than are read;
* a local selection whose probe finds too few customers is reported as
  INSUFFICIENT_DATA and not retried: the supervisor validates the retry marker
  that only the AgentCore client understands;
* concurrent failed logins lose an increment, and a concurrent password change
  and reset lose one of the two writes of `must_change_password`.

## 7. Not modelled

* *Notices* (one row per request, one transaction) and *customer API keys*
  (one insert behind a unique index, then reads): what could go wrong there is what the database
  already excludes.
* *The e-mail status stream* (router.py:210-263): it reads the status before it
  subscribes, so a terminal status published in between never arrives; the
  sentence is the whole counterexample. `EventStream` models the run's stream, which
  subscribes first.
* *Observation logs, artifacts and progress numbers* of the pipeline: written, never read
  into a decision.
* *Shapes of stage payloads* (validation.py): a long list of keys; their order of precedence is
  that of the failure codes in `PipelineRun`.
* *Dashboard* (read-only projections), *documents* (template filling), legacy
  requirement models nothing writes, *PII detection* (regular expressions and
  checksums over text), prompts and model calls, migrations but for the
  constraints the models use, scripts but for those that touch accounts.
