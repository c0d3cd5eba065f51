---------------------------- MODULE PipelineRun ----------------------------
(***************************************************************************)
(* One pipeline run of the backend: its rows in PostgreSQL (pipeline_runs, *)
(* stage_runs, data_requests, reviews) and everything that writes them:    *)
(*   - the in-process asyncio tasks that execute one stage per dispatch    *)
(*     (app/domains/pipeline/executor.py, supervisor.py),                  *)
(*   - the remote AgentCore Runtime, which writes sub-step events itself   *)
(*     (app/agentcore_status_reporter.py),                                 *)
(*   - the API requests of reviewers and administrators (service.py),      *)
(*   - the monitor of stale runs (stale_run_monitor.py).                   *)
(*                                                                         *)
(* A database transaction is two steps: one that reads and one that        *)
(* commits.  No reader locks a row, so other transactions commit between   *)
(* the two.  SQLAlchemy emits an UPDATE only for the columns whose new     *)
(* value differs from the value that was LOADED: Merge.                    *)
(***************************************************************************)
EXTENDS Integers, Sequences, FiniteSets

CONSTANTS
    Reviewer,      \* API requests that may be in progress at the same time
    Monitor,       \* the session of the stale-run monitor
    MaxExec,       \* bound: dispatches (execution ids) issued for the run
    MaxAuto,       \* settings.pipeline_stale_auto_recovery_max_attempts
    AgentFailure,  \* failure codes an agent result may end with
    ReviewFailure, \* failure codes a reviewer may send with a rejection
    Env            \* what the surroundings do in this instance

Behaviour == {"report",    \* the Runtime reports the sub-steps of its stage
              "crash",     \* the API process dies and restarts
              "late",      \* the Runtime outlives a failed invocation
              "slow",      \* the monitor finds a run stale while it is alive
              "schedule",  \* scheduling the task raises after the commit
              "admin"}     \* administrators use the recovery endpoint

ASSUME ExecBound == MaxExec \in Nat \ {0} /\ MaxAuto \in Nat
ASSUME MonitorIsApart == Monitor \notin Reviewer
ASSUME KnownBehaviour == Env \subseteq Behaviour

REQ  == "REQUIREMENT_ANALYSIS"
SEL  == "DATA_SELECTION"
PROC == "DATA_PROCESSING"
Stages == {REQ, SEL, PROC}
DISPATCH == "DISPATCH"
NoStage == "NONE"

Position(c) == IF c = REQ THEN 1 ELSE IF c = SEL THEN 2 ELSE 3
Upstream(c) == {d \in Stages : Position(d) < Position(c)}
Downstream(c) == {d \in Stages : Position(d) >= Position(c)}

\* Faulty: processing closes the run without a final review.
UngatedFinal(c) == IF c = REQ THEN "WAITING_REQUIREMENT_REVIEW"
                   ELSE IF c = SEL THEN "WAITING_SAMPLE_REVIEW"
                   ELSE "COMPLETED"

Gate(c) == IF c = REQ THEN "WAITING_REQUIREMENT_REVIEW"
           ELSE IF c = SEL THEN "WAITING_SAMPLE_REVIEW"
           ELSE "WAITING_FINAL_REVIEW"

UNAVAILABLE == "AGENT_RUNTIME_UNAVAILABLE"
SelectionFault == {"INSUFFICIENT_DATA", "LOW_SIMILARITY_MATCH",
                   "DUPLICATED_DATA", "OUTLIER_DETECTED",
                   "SELECTION_RULE_INVALID", "PRIVACY_THRESHOLD_NOT_MET"}
ProcessingFault == {"FORMAT_INVALID", "PROCESSING_RULE_INVALID"}

\* Faulty: a code that is not in the table restarts the selection.
RollbackToSelection(code) == IF code \in ProcessingFault THEN PROC ELSE SEL

\* The policy table that says how far a failure sends the run back.  Every
\* other code, "NONE" included, restarts the analysis.
RollbackTarget(code) ==
    IF code \in SelectionFault THEN SEL
    ELSE IF code \in ProcessingFault THEN PROC
    ELSE REQ

\* The codes a stage can fail with: the validator's, the default of a failure
\* the agent reports itself, a broken invocation, and none ("NONE") for an
\* unexpected exception or a result file that could not be stored.
StageFailure(c) ==
    {UNAVAILABLE, "NONE"} \cup
    (IF c = REQ THEN {"REQUIRED_KEY_MISSING"}
     ELSE IF c = SEL THEN {"INSUFFICIENT_DATA", "SCHEMA_INVALID", "SELECTION_RULE_INVALID"}
     ELSE {"PROCESSING_RULE_INVALID", "FORMAT_INVALID", "INSUFFICIENT_DATA",
           "PRIVACY_THRESHOLD_NOT_MET"})

VARIABLES
    run,      \* the row of pipeline_runs, and the status of its data_requests row
    rows,     \* stage_runs: per stage code, the attempts 1, 2, ...
    lastExec, \* execution ids issued so far (uuid4 in the code)
    task,     \* the asyncio task scheduled with execution id k
    runtime,  \* the remote Runtime that task k invoked
    session   \* transactions of reviewers, administrators and the monitor

vars == <<run, rows, lastExec, task, runtime, session>>

Execs == 1..MaxExec
Sessions == Reviewer \cup {Monitor}

RunStatus == {"QUEUED", "RUNNING", "COMPLETED", "FAILED"}
             \cup {Gate(c) : c \in Stages}
RowStatus == {"PENDING", "RUNNING", "COMPLETED", "FAILED", "ROLLED_BACK"}
RequestStatus == {"QUEUED", "RUNNING", "WAITING_REVIEW", "COMPLETED", "FAILED"}

Run == [status   : RunStatus,
        current  : Stages \cup {DISPATCH},
        rollback : Stages \cup {NoStage},
        exec     : Nat \ {0},
        request  : RequestStatus]

\* plan: the selection attempt whose approved plan the input holds, 0: none.
\* approved: reviews holds an APPROVED review of this attempt.
\* busy: the checklist in output_payload shows a sub-step as RUNNING.
Row == [status : RowStatus, plan : Nat, approved : BOOLEAN, busy : BOOLEAN]
TaskPc == {"idle", "scheduled", "dispatching", "claimed", "starting",
           "started", "invoking", "returned", "finishing", "done"}
Verdict == {"NONE", "PASSED"} \cup AgentFailure

\* stage = DISPATCH: next_pending_stage found nothing to claim.
Task == [pc : TaskPc, exec : Nat, stage : Stages \cup {DISPATCH},
         attempt : Nat, plan : Nat, verdict : Verdict, snap : Run]

Runtime == [pc : {"off", "up", "writing"}, exec : Nat,
            stage : Stages \cup {DISPATCH}, snap : Run]

Op == {"approve", "reject", "retry", "recover", "requeue", "exhaust"}

\* seen: the stage rows the transaction read;  attempt: the row the monitor
\* found RUNNING;  consent: payload.approved of a retry request.
Session == [pc : {"idle", "open", "unscheduled"}, op : Op, stage : Stages,
            target : Stages, attempt : Nat, consent : BOOLEAN, snap : Run,
            seen : [Stages -> Seq(Row)]]

NewRun == [status |-> "QUEUED", current |-> REQ, rollback |-> NoStage, exec |-> 1,
           request |-> "QUEUED"]
NewRow(plan) == [status |-> "PENDING", plan |-> plan, approved |-> FALSE, busy |-> FALSE]
NewRows == [c \in Stages |-> <<NewRow(0)>>]

NoTask == [pc |-> "idle", exec |-> 0, stage |-> DISPATCH, attempt |-> 0,
           plan |-> 0, verdict |-> "NONE", snap |-> NewRun]
Scheduled == [NoTask EXCEPT !.pc = "scheduled"]
Finished == [NoTask EXCEPT !.pc = "done"]
NoRuntime == [pc |-> "off", exec |-> 0, stage |-> DISPATCH, snap |-> NewRun]
NoSession == [pc |-> "idle", op |-> "approve", stage |-> REQ, target |-> REQ,
              attempt |-> 0, consent |-> FALSE, snap |-> NewRun, seen |-> NewRows]

\* The rows, the snapshots that tasks, Runtimes and requests hold, and the
\* places they are at stay within what the code's columns and types admit.
TypeOK ==
    /\ run \in Run
    /\ rows \in [Stages -> Seq(Row)]
    /\ lastExec \in Execs
    /\ task \in [Execs -> Task]
    /\ runtime \in [Execs -> Runtime]
    /\ session \in [Sessions -> Session]

-----------------------------------------------------------------------------
(* Reading and writing rows *)

Latest(c) == rows[c][Len(rows[c])]

Written(old, new, db) == IF new # old THEN new ELSE db

\* The row after a flush: columns whose value did not change since the load
\* are not part of the UPDATE and keep what another transaction wrote.
Merge(snap, new) ==
    [status   |-> Written(snap.status, new.status, run.status),
     current  |-> Written(snap.current, new.current, run.current),
     rollback |-> Written(snap.rollback, new.rollback, run.rollback),
     exec     |-> Written(snap.exec, new.exec, run.exec),
     request  |-> Written(snap.request, new.request, run.request)]

\* Faulty: the status of the run is copied.
RequestCopies(status) == status

\* Faulty: the failure of the run is not passed on.
RequestIgnoresFailure(status) ==
    IF status \in {"COMPLETED", "RUNNING"} THEN status ELSE "WAITING_REVIEW"

RequestAfter(status) ==
    IF status \in {"FAILED", "COMPLETED", "RUNNING"} THEN status ELSE "WAITING_REVIEW"

\* Faulty: a failing stage keeps its checklist as it is.
StageAfterUnswept(row, status) == [row EXCEPT !.status = status]

\* The stage row after a status event.  Completing keeps the checklist as it
\* is, failing closes the sub-steps still shown as RUNNING.
StageAfter(row, status) ==
    [row EXCEPT !.status = status, !.busy = row.busy /\ status # "FAILED"]

\* Faulty: the event is written to the first attempt of the stage.
PersistFirst(snap, status, stage, rollback, row) ==
    /\ run' = Merge(snap, [snap EXCEPT !.status = status, !.current = stage,
                                       !.rollback = rollback,
                                       !.request = RequestAfter(status)])
    /\ rows' = [rows EXCEPT ![stage][1] = row]

\* The commit of persist_status_event.  The flush of the run's UPDATE takes
\* the row lock before the latest attempt is selected, so the stage row is
\* the one current at the commit, whatever the task was started for.
PersistEvent(snap, status, stage, rollback, row) ==
    /\ run' = Merge(snap, [snap EXCEPT !.status = status, !.current = stage,
                                       !.rollback = rollback,
                                       !.request = RequestAfter(status)])
    /\ rows' = [rows EXCEPT ![stage][Len(rows[stage])] = row]

-----------------------------------------------------------------------------
(* Creation of the request *)

\* The rows committed by create_data_request and the outcome of scheduling
\* the first task.
Init ==
    /\ rows = NewRows
    /\ lastExec = 1
    /\ runtime = [k \in Execs |-> NoRuntime]
    /\ session = [s \in Sessions |-> NoSession]
    /\ \/ /\ run = NewRun
          /\ task = [k \in Execs |-> IF k = 1 THEN Scheduled ELSE NoTask]
       \/ /\ "schedule" \in Env
          /\ run = [NewRun EXCEPT !.status = "FAILED", !.current = DISPATCH,
                                  !.request = "FAILED"]
          /\ task = [k \in Execs |-> NoTask]

-----------------------------------------------------------------------------
(* The task: dispatch, start, agent, result *)

Pending(rs, c) == {i \in 1..Len(rs[c]) : rs[c][i].status = "PENDING"}
Lowest(S) == {i \in S : \A j \in S : i <= j}
Highest(S) == {i \in S : \A j \in S : i >= j}

Running(c) == {i \in 1..Len(rows[c]) : rows[c][i].status = "RUNNING"}
NoneRunning == \A c \in Stages : Running(c) = {}

\* The stage next_pending_stage returns, DISPATCH when it raises.
Claim ==
    IF ~NoneRunning THEN DISPATCH
    ELSE IF run.rollback # NoStage
         THEN IF Pending(rows, run.rollback) # {} THEN run.rollback ELSE DISPATCH
         ELSE IF Pending(rows, REQ) # {} THEN REQ
         ELSE IF Pending(rows, SEL) # {} THEN SEL
         ELSE IF Pending(rows, PROC) # {} THEN PROC
         ELSE DISPATCH

\* _dispatch reads the run and picks the stage.  The execution id it will
\* check its own event against is the one it reads here.
DispatchRead(k) ==
    /\ task[k].pc = "scheduled"
    /\ \E i \in IF Claim = DISPATCH THEN {0} ELSE Lowest(Pending(rows, Claim)) :
          task' = [task EXCEPT ![k] =
             [@ EXCEPT !.pc = "dispatching", !.exec = run.exec, !.snap = run,
                       !.stage = Claim, !.attempt = i]]
    /\ UNCHANGED <<run, rows, lastExec, runtime, session>>

\* Nothing to claim: the run fails with current_stage DISPATCH and the task
\* ends with the exception.
DispatchFails(k) ==
    /\ task[k].pc = "dispatching"
    /\ task[k].stage = DISPATCH
    /\ run' = Merge(task[k].snap, [task[k].snap EXCEPT !.status = "FAILED",
                                    !.current = DISPATCH, !.rollback = NoStage,
                                    !.request = "FAILED"])
    /\ task' = [task EXCEPT ![k] = Finished]
    /\ UNCHANGED <<rows, lastExec, runtime, session>>

DispatchCommit(k) ==
    LET t == task[k] IN
    /\ t.pc = "dispatching"
    /\ t.stage \in Stages
    /\ PersistEvent(t.snap, "RUNNING", t.stage, NoStage,
                    StageAfter(Latest(t.stage), "PENDING"))
    /\ task' = [task EXCEPT ![k].pc = "claimed", ![k].snap = NewRun]
    /\ UNCHANGED <<lastExec, runtime, session>>

\* _run_stage loads its stage row, and the start event loads the run.  When
\* the execution id differs the event is dropped, but record_status's result
\* is not looked at and the stage is executed all the same.
StartRead(k) ==
    LET t == task[k] IN
    /\ t.pc = "claimed"
    /\ task' = [task EXCEPT ![k] =
          [t EXCEPT !.pc = IF run.exec = t.exec THEN "starting" ELSE "started",
                    !.snap = IF run.exec = t.exec THEN run ELSE NewRun,
                    !.plan = rows[t.stage][t.attempt].plan]]
    /\ UNCHANGED <<run, rows, lastExec, runtime, session>>

StartCommit(k) ==
    LET t == task[k] IN
    /\ t.pc = "starting"
    /\ PersistEvent(t.snap, "RUNNING", t.stage, NoStage,
                    StageAfter(Latest(t.stage), "RUNNING"))
    /\ task' = [task EXCEPT ![k].pc = "started", ![k].snap = NewRun,
                 ![k].plan = IF t.attempt = Len(rows[t.stage])
                             THEN Latest(t.stage).plan ELSE t.plan]
    /\ UNCHANGED <<lastExec, runtime, session>>

HasOutput(c) == \E i \in 1..Len(rows[c]) : rows[c][i].status = "COMPLETED"

\* Faulty: processing does not insist on an approved plan.
InputsUnchecked(t) == t.stage # REQ => HasOutput(REQ)

\* build_stage_payload finds what the agent of the stage needs.
InputsReady(t) ==
    /\ t.stage # REQ => HasOutput(REQ)
    /\ t.stage = PROC => t.plan # 0

Invoke(k) ==
    /\ task[k].pc = "started"
    /\ InputsReady(task[k])
    /\ task' = [task EXCEPT ![k].pc = "invoking"]
    /\ runtime' = [runtime EXCEPT ![k] = [pc |-> "up", exec |-> task[k].exec,
                                         stage |-> task[k].stage, snap |-> NewRun]]
    /\ UNCHANGED <<run, rows, lastExec, session>>

\* build_stage_payload raises outside the try of run_stage: the task dies and
\* nothing is written, the stage stays RUNNING.
PayloadFails(k) ==
    /\ task[k].pc = "started"
    /\ ~InputsReady(task[k])
    /\ task' = [task EXCEPT ![k] = Finished]
    /\ UNCHANGED <<run, rows, lastExec, runtime, session>>

\* Faulty: the Runtime answers without draining its status events.
OutlivesAlways(verdict) == TRUE

\* When the invocation breaks off, the Runtime may go on working and reporting.
Outlives(verdict) == verdict = UNAVAILABLE /\ "late" \in Env

\* The invocation answers after the Runtime drained its status events.
AgentReturns(k) ==
    /\ task[k].pc = "invoking"
    /\ runtime[k].pc = "up"
    /\ \E v \in {"PASSED"} \cup (StageFailure(task[k].stage) \cap AgentFailure) :
          /\ task' = [task EXCEPT ![k].pc = "returned", ![k].verdict = v]
          /\ runtime' = IF Outlives(v) THEN runtime
                        ELSE [runtime EXCEPT ![k] = NoRuntime]
    /\ UNCHANGED <<run, rows, lastExec, session>>

FinalRead(k) ==
    /\ task[k].pc = "returned"
    /\ task' = [task EXCEPT ![k] =
          IF run.exec = @.exec THEN [@ EXCEPT !.pc = "finishing", !.snap = run]
          ELSE Finished]
    /\ UNCHANGED <<run, rows, lastExec, runtime, session>>

\* A broken invocation retries the same stage, every other failure goes where
\* the policy table says.
FailureRollback(stage, verdict) ==
    IF verdict = UNAVAILABLE THEN stage ELSE RollbackTarget(verdict)

FinalCommit(k) ==
    LET t == task[k] IN
    /\ t.pc = "finishing"
    /\ \/ /\ t.verdict = "PASSED"
          /\ PersistEvent(t.snap, Gate(t.stage), t.stage, NoStage,
                          StageAfter(Latest(t.stage), "COMPLETED"))
       \/ /\ t.verdict # "PASSED"
          /\ PersistEvent(t.snap, "FAILED", t.stage,
                          FailureRollback(t.stage, t.verdict),
                          StageAfter(Latest(t.stage), "FAILED"))
    /\ task' = [task EXCEPT ![k] = Finished]
    /\ UNCHANGED <<lastExec, runtime, session>>

-----------------------------------------------------------------------------
(* The Runtime reports sub-steps of its stage with the execution id it got.*)
(* The task itself reports the last two sub-steps of processing, after the *)
(* invocation answered: the same event, later in the same execution, and   *)
(* counted here among the Runtime's.  Without "report" in Env no sub-step  *)
(* is reported at all.                                                     *)

RuntimeRead(k) ==
    /\ "report" \in Env
    /\ runtime[k].pc = "up"
    /\ run.exec = runtime[k].exec
    /\ runtime' = [runtime EXCEPT ![k].pc = "writing", ![k].snap = run]
    /\ UNCHANGED <<run, rows, lastExec, task, session>>

\* b: the sub-step started (RUNNING) or ended.
RuntimeWrite(k, b) ==
    LET r == runtime[k] IN
    /\ r.pc = "writing"
    /\ PersistEvent(r.snap, "RUNNING", r.stage, NoStage,
                    [Latest(r.stage) EXCEPT !.status = "RUNNING", !.busy = b])
    /\ runtime' = [runtime EXCEPT ![k].pc = "up", ![k].snap = NewRun]
    /\ UNCHANGED <<lastExec, task, session>>

RuntimeEnds(k) ==
    /\ runtime[k].pc = "up"
    /\ task[k].pc # "invoking"
    /\ runtime' = [runtime EXCEPT ![k] = NoRuntime]
    /\ UNCHANGED <<run, rows, lastExec, task, session>>

-----------------------------------------------------------------------------
(* Reviewers and administrators *)

Open(s, op, stage, target, attempt, consent) ==
    session' = [session EXCEPT ![s] =
        [pc |-> "open", op |-> op, stage |-> stage, target |-> target,
         attempt |-> attempt, consent |-> consent, snap |-> run, seen |-> rows]]

\* Faulty: a run may be retried whatever its status.
RetryableAlways == run.rollback # NoStage \/ run.current # DISPATCH

\* A failed run can be retried when it says from which stage.
Retryable ==
    /\ run.status = "FAILED"
    /\ run.rollback # NoStage \/ run.current # DISPATCH

ReviewRead(s) ==
    /\ session[s].pc = "idle"
    /\ \/ \E c \in Stages :
            /\ run.status = Gate(c)
            /\ \/ Open(s, "approve", c, c, 0, TRUE)
               \/ \E code \in ReviewFailure \cup {"NONE"} :
                    Open(s, "reject", c,
                         IF code = "NONE" THEN c ELSE RollbackTarget(code), 0, FALSE)
       \/ /\ Retryable
          /\ LET c == IF run.rollback # NoStage THEN run.rollback ELSE run.current
             IN  \E b \in BOOLEAN : Open(s, "retry", c, c, 0, b)
    /\ UNCHANGED <<run, rows, lastExec, task, runtime>>

RecoverRead(s) ==
    /\ "admin" \in Env
    /\ session[s].pc = "idle"
    /\ Open(s, "recover", REQ, REQ, 0, FALSE)
    /\ UNCHANGED <<run, rows, lastExec, task, runtime>>

\* The statuses _reopen_from turns into ROLLED_BACK.
Live == RowStatus \ {"ROLLED_BACK"}

\* The rows after _reopen_from(target): every live attempt seen of the target
\* and the later stages is rolled back, and each gets a new attempt that
\* inherits the input of the last one.
Reopened(rs, seen, target) ==
    [c \in Stages |->
       IF c \notin Downstream(target) THEN rs[c]
       ELSE Append([i \in 1..Len(rs[c]) |->
                      IF i \in 1..Len(seen[c]) /\ seen[c][i].status \in Live
                      THEN [rs[c][i] EXCEPT !.status = "ROLLED_BACK"]
                      ELSE rs[c][i]],
                   NewRow(seen[c][Len(seen[c])].plan))]

\* Faulty: nothing keeps two transactions from inserting the same attempt.
CollidesNever(seen, target) == FALSE

\* uq_stage_run_attempt: somebody else inserted the attempt in the meantime.
Collides(seen, target) == \E c \in Downstream(target) : Len(seen[c]) # Len(rows[c])

\* The stage rows are read after the run, by one query or by two: those of each
\* stage are seen as they were at the start or as they are at the commit.  (Two
\* changes in between are seen both or not at all.)
SeenBy(s) ==
    {[c \in Stages |-> IF c \in fresh THEN rows[c] ELSE session[s].seen[c]] :
        fresh \in SUBSET Stages}

\* _redispatch issues a new execution id and commits.
Reissue(s, new) ==
    /\ lastExec < MaxExec
    /\ lastExec' = lastExec + 1
    /\ run' = Merge(session[s].snap, [new EXCEPT !.exec = lastExec + 1])

\* Faulty: the task is never scheduled.
RedispatchForgotten(s, new) ==
    /\ Reissue(s, new)
    /\ session' = [session EXCEPT ![s] = NoSession]
    /\ UNCHANGED <<task, runtime>>

\* After the commit the task is scheduled.  When that raises, a second
\* transaction is needed to say so.
Redispatch(s, new) ==
    /\ Reissue(s, new)
    /\ \/ /\ task' = [task EXCEPT ![lastExec + 1] = Scheduled]
          /\ session' = [session EXCEPT ![s] = NoSession]
       \/ /\ "schedule" \in Env
          /\ task' = task
          /\ session' = [session EXCEPT ![s] =
                [NoSession EXCEPT !.pc = "unscheduled",
                                  !.snap = [new EXCEPT !.exec = lastExec + 1]]]
    /\ UNCHANGED runtime

ScheduleFails(s) ==
    /\ session[s].pc = "unscheduled"
    /\ run' = Merge(session[s].snap, [session[s].snap EXCEPT !.status = "FAILED",
                                                             !.current = DISPATCH])
    /\ session' = [session EXCEPT ![s] = NoSession]
    /\ UNCHANGED <<rows, lastExec, task, runtime>>

\* IntegrityError or a 409 after the read: the whole transaction is undone.
Abandon(s) ==
    /\ session' = [session EXCEPT ![s] = NoSession]
    /\ UNCHANGED <<run, rows, lastExec, task, runtime>>

Queued(snap, target, rollback) ==
    [snap EXCEPT !.status = "QUEUED", !.current = target, !.rollback = rollback]

\* Faulty: the review is not stored.
ApproveUnrecorded(rs, c, i, consent) == rs

Approve(rs, c, i, consent) ==
    [rs EXCEPT ![c][i].approved = @ \/ consent]

\* Rejection, retry of a failed run, recovery by an administrator, automatic
\* recovery: all reopen from a target and dispatch anew.
ReopenCommit(s) ==
    LET x == session[s] IN
    /\ x.pc = "open"
    /\ x.op \in {"reject", "retry", "recover", "requeue"}
    /\ \E seen \in SeenBy(s) :
          \/ /\ Collides(seen, x.target)
             /\ Abandon(s)
          \/ /\ ~Collides(seen, x.target)
             /\ rows' = Reopened(Approve(rows, x.stage, Len(seen[x.stage]), x.consent),
                                 seen, x.target)
             /\ Redispatch(s, Queued(x.snap, x.target, x.target))

\* Approval of the last stage closes the run.
ApproveFinal(s) ==
    LET x == session[s] IN
    /\ x.pc = "open"
    /\ x.op = "approve"
    /\ x.stage = PROC
    /\ \E seen \in SeenBy(s) :
          rows' = Approve(rows, PROC, Len(seen[PROC]), TRUE)
    /\ run' = Merge(x.snap, [x.snap EXCEPT !.status = "COMPLETED", !.current = PROC,
                                           !.rollback = NoStage,
                                           !.request = "COMPLETED"])
    /\ session' = [session EXCEPT ![s] = NoSession]
    /\ UNCHANGED <<lastExec, task, runtime>>

\* Approval of the analysis writes its output_payload back as it was read,
\* with the delivery options added.
ApproveAnalysis(s) ==
    LET x == session[s] IN
    /\ x.pc = "open"
    /\ x.op = "approve"
    /\ x.stage = REQ
    /\ \E seen \in SeenBy(s) :
          LET i == Len(seen[REQ]) IN
          rows' = [rows EXCEPT ![REQ][i].approved = TRUE,
                               ![REQ][i].busy = seen[REQ][i].busy]
    /\ Redispatch(s, Queued(x.snap, SEL, NoStage))

\* Faulty: a plan that an earlier approval left in the input is kept.
HandOverOnce(rs, p, i) == [rs EXCEPT ![PROC][p].plan = IF @ = 0 THEN i ELSE @]

\* The plan of selection attempt i becomes input of processing attempt p.
HandOver(rs, p, i) == [rs EXCEPT ![PROC][p].plan = i]

\* Approval of the selection hands its plan to the newest PENDING processing
\* row, and is a conflict when there is none.
ApproveSelection(s) ==
    LET x == session[s] IN
    /\ x.pc = "open"
    /\ x.op = "approve"
    /\ x.stage = SEL
    /\ \E seen \in SeenBy(s) :
          LET i == Len(seen[SEL])
              open == Pending(seen, PROC) IN
          \/ /\ open = {}
             /\ Abandon(s)
          \/ /\ open # {}
             /\ \E p \in Highest(open) :
                   rows' = HandOver(Approve(rows, SEL, i, TRUE), p, i)
             /\ Redispatch(s, Queued(x.snap, PROC, NoStage))

-----------------------------------------------------------------------------
(* The monitor of stale runs *)

Working == \E k \in Execs : \/ task[k].pc \notin {"idle", "done"}
                            \/ runtime[k].pc # "off"

\* Faulty: the monitor looks for queued runs.
StaleQueued == run.status = "QUEUED" /\ (Working => "slow" \in Env)

\* A run is stale when nothing refreshed updated_at for a while.  Without
\* "slow" that takes longer than anything still at work.
Stale == run.status = "RUNNING" /\ (Working => "slow" \in Env)

StaleRead ==
    /\ session[Monitor].pc = "idle"
    /\ Stale
    /\ \E c \in Stages :
          \E i \in Running(c) \cap Highest(UNION {Running(d) : d \in Stages}) :
             Open(Monitor, IF i < MaxAuto THEN "requeue" ELSE "exhaust", c, c, i, FALSE)
    /\ UNCHANGED <<run, rows, lastExec, task, runtime>>

\* Attempts used up: the stage and the run are closed as FAILED.
ExhaustCommit ==
    LET x == session[Monitor] IN
    /\ x.pc = "open"
    /\ x.op = "exhaust"
    /\ rows' = [rows EXCEPT ![x.stage][x.attempt].status = "FAILED"]
    /\ run' = Merge(x.snap, [x.snap EXCEPT !.status = "FAILED", !.current = x.stage,
                                           !.request = "FAILED"])
    /\ session' = [session EXCEPT ![Monitor] = NoSession]
    /\ UNCHANGED <<lastExec, task, runtime>>

-----------------------------------------------------------------------------

\* The API process dies: its tasks and transactions are gone, the rows stay.
Crash ==
    /\ "crash" \in Env
    /\ task' = [k \in Execs |-> IF task[k].pc = "idle" THEN NoTask ELSE Finished]
    /\ session' = [s \in Sessions |-> NoSession]
    /\ runtime' = IF "late" \in Env THEN runtime ELSE [k \in Execs |-> NoRuntime]
    /\ UNCHANGED <<run, rows, lastExec>>

TaskStep(k) ==
    \/ DispatchRead(k) \/ DispatchFails(k) \/ DispatchCommit(k)
    \/ StartRead(k) \/ StartCommit(k) \/ Invoke(k) \/ PayloadFails(k)
    \/ AgentReturns(k) \/ FinalRead(k) \/ FinalCommit(k)

RuntimeStep(k) == RuntimeRead(k) \/ RuntimeEnds(k) \/ \E b \in BOOLEAN : RuntimeWrite(k, b)

ReviewCommit(s) == ApproveFinal(s) \/ ApproveAnalysis(s) \/ ApproveSelection(s)

SessionCommit(s) == ReopenCommit(s) \/ ScheduleFails(s)

Next ==
    \/ \E k \in Execs : TaskStep(k) \/ RuntimeStep(k)
    \/ \E s \in Reviewer : ReviewRead(s) \/ RecoverRead(s) \/ ReviewCommit(s)
    \/ \E s \in Sessions : SessionCommit(s)
    \/ StaleRead \/ ExhaustCommit
    \/ Crash

Spec == Init /\ [][Next]_vars

\* The event loop runs its tasks and commits its transactions, the monitor
\* scans every 30 seconds.  An invocation ends although its Runtime keeps
\* reporting, because the client's read timeout bounds it, and so does the
\* Runtime, hence strong fairness.  Nobody owes a review or a recovery.
Fairness ==
    /\ \A k \in Execs : /\ WF_vars(TaskStep(k))
                       /\ SF_vars(AgentReturns(k))
                       /\ SF_vars(RuntimeEnds(k))
                       /\ WF_vars(\E b \in BOOLEAN : RuntimeWrite(k, b))
    /\ \A s \in Sessions : WF_vars(ReviewCommit(s) \/ SessionCommit(s))
    /\ WF_vars(StaleRead)
    /\ WF_vars(ExhaustCommit)

FairSpec == Spec /\ Fairness

-----------------------------------------------------------------------------
(* What holds whatever the interleaving *)

\* A superseded attempt of a stage is never PENDING, RUNNING or COMPLETED
\* again, and the newest attempt is never ROLLED_BACK.  next_pending_stage
\* takes the LOWEST pending attempt and _completed_outputs believes every
\* COMPLETED one, so a superseded attempt that came back to life would be
\* executed, or its output used, in the place of its successor.
SupersededIsDead ==
    \A c \in Stages :
        /\ \A i \in 1..(Len(rows[c]) - 1) : rows[c][i].status \in {"ROLLED_BACK", "FAILED"}
        /\ Latest(c).status # "ROLLED_BACK"

\* Every selection plan in the input of a processing attempt is the plan of a
\* selection attempt that a reviewer approved.
PlanWasApproved ==
    \A i \in 1..Len(rows[PROC]) :
        LET p == rows[PROC][i].plan IN
        p # 0 => p \in 1..Len(rows[SEL]) /\ rows[SEL][p].approved

\* The processing agent only ever works on the plan of a selection attempt
\* that a reviewer approved, however approvals, rollbacks that copy inputs
\* and dispatches interleave.
ProcessesApprovedPlan ==
    \A k \in Execs : task[k].pc = "invoking" /\ task[k].stage = PROC =>
        /\ task[k].plan \in 1..Len(rows[SEL])
        /\ rows[SEL][task[k].plan].approved

\* A run is COMPLETED only when a reviewer approved a processing attempt.
CompletedByFinalApproval ==
    run.status = "COMPLETED" => \E i \in 1..Len(rows[PROC]) : rows[PROC][i].approved

-----------------------------------------------------------------------------
(* What one reviewer at a time and a Runtime that stops with its           *)
(* invocation get                                                          *)

Starts(k) == task[k].pc = "started" /\ task'[k].pc = "invoking"

\* The agent of a stage starts only when the newest attempt of every earlier
\* stage is completed and approved: no stage is skipped, none runs on an
\* output that was rolled back.
HumanGate ==
    [][\A k \in Execs : Starts(k) =>
         \A c \in Upstream(task[k].stage) :
            Latest(c).status = "COMPLETED" /\ Latest(c).approved]_vars

\* The plan that processing starts with is the newest selection's, not one
\* that an earlier attempt left in the input a retry copies.
ApprovedPlanIsCurrent ==
    [][\A k \in Execs : Starts(k) /\ task[k].stage = PROC =>
         task[k].plan = Len(rows[SEL])]_vars

\* No two tasks execute the same attempt of a stage.
ClaimIsExclusive ==
    \A j, k \in Execs : j # k =>
       ~ /\ task[j].pc = "invoking" /\ task[k].pc = "invoking"
         /\ task[j].stage = task[k].stage /\ task[j].attempt = task[k].attempt

\* A run waiting at a gate shows the reviewer a completed stage, and nothing
\* later has started.
WaitingHasResult ==
    \A c \in Stages : run.status = Gate(c) =>
       /\ Latest(c).status = "COMPLETED"
       /\ \A d \in Downstream(c) \ {c} : Latest(d).status = "PENDING"

\* The run and the data request it serves are closed together.
ClosedTogether ==
    run.status \in {"COMPLETED", "FAILED"} => run.request = run.status

\* A COMPLETED run was approved at each of its three gates.
CompletedByEveryGate ==
    run.status = "COMPLETED" =>
       \A c \in Stages : Latest(c).status = "COMPLETED" /\ Latest(c).approved

\* A FAILED stage shows no sub-step as RUNNING.
FailedStageIsSwept ==
    \A c \in Stages : \A i \in 1..Len(rows[c]) :
        rows[c][i].status = "FAILED" => ~rows[c][i].busy

Settled == {"COMPLETED", "FAILED"} \cup {Gate(c) : c \in Stages}

\* A run that waits, failed or completed stays so until somebody decides.
SettledUntilDecided ==
    [][run.status \in Settled /\ run'.status # run.status =>
         \E s \in Sessions : session[s].pc # "idle" /\ session'[s].pc # session[s].pc]_vars

\* A run that is QUEUED or RUNNING is worked on, or the monitor can see that
\* it is not: only then can it ever move again without an administrator.
NoLimbo ==
    run.status \in {"QUEUED", "RUNNING"} =>
       \/ Working
       \/ \E s \in Sessions : session[s].pc # "idle"
       \/ run.status = "RUNNING" /\ ~NoneRunning

\* An event takes effect only while the run still has the execution id the
\* event was issued under. The code says so of itself; it does not hold (README).
StaleEventsAreCut ==
    [][\A k \in Execs :
         /\ task[k].pc \in {"starting", "finishing"} /\ rows' # rows
            /\ task'[k].pc # task[k].pc
            => task[k].exec = run.exec
         /\ runtime[k].pc = "writing" /\ runtime'[k].pc = "up"
            => runtime[k].exec = run.exec]_vars

\* Every dispatched run comes to a gate or to an end.
RunSettles ==
    run.status \in {"QUEUED", "RUNNING"} ~> (run.status \in Settled \/ lastExec = MaxExec)
=============================================================================
