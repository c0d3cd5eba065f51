------------------------- MODULE PipelineTurnProofs -------------------------
(***************************************************************************)
(* Theorems about a run that is worked on by one at a time: one reviewer   *)
(* decides at a time, the Runtime stops with its invocation, the monitor   *)
(* does not take a living run for stale and no administrator intervenes.   *)
(* Crashes, failing agents, failing schedules and the Runtime's reports    *)
(* are admitted, and any number of dispatches.                             *)
(***************************************************************************)
EXTENDS PipelineRunProofs

\* The reviewer may send the run anywhere.
OneAtATime ==
    /\ Env \subseteq {"report", "crash", "schedule"}
    /\ \A r, s \in Reviewer : r = s

\* The API process does not die.
Unbroken == OneAtATime /\ "crash" \notin Env

\* The API process can schedule the tasks it commits to.
Scheduling == OneAtATime /\ "schedule" \notin Env

(***************************************************************************)
(* One at a time: the invariant                                            *)
(***************************************************************************)

Alive(k) == task[k].pc \notin {"idle", "done"}
Busy(s) == session[s].pc # "idle"

\* Whoever is at work on the run is alone.
Alone ==
    /\ \A j, k \in Execs : Alive(j) /\ Alive(k) => j = k
    /\ \A s, t \in Sessions : Busy(s) /\ Busy(t) => s = t
    /\ \A k \in Execs, s \in Sessions : ~(Alive(k) /\ Busy(s))

\* A task works on the newest attempt of its stage, under the execution id of
\* the run, and the row of the run that it holds is current.
TaskHand(t) ==
    /\ t.pc \in {"scheduled", "dispatching"} => run.status = "QUEUED"
    /\ t.pc \in {"claimed", "starting", "started", "invoking", "returned", "finishing"} =>
          run.status = "RUNNING"
    /\ t.pc \in {"dispatching", "claimed", "starting"} /\ t.stage \in Stages =>
          Latest(t.stage).status = "PENDING"
    /\ t.pc \in {"started", "invoking", "returned", "finishing"} =>
          Latest(t.stage).status = "RUNNING" /\ t.plan = Latest(t.stage).plan
    /\ t.pc \notin {"idle", "done", "scheduled"} =>
          t.exec = run.exec /\ (t.stage \in Stages => t.attempt = Len(rows[t.stage]))
    /\ t.pc \in {"dispatching", "starting", "finishing"} => t.snap = run

\* A Runtime works for a task that waits for it.
RuntimeHand(r, t) ==
    /\ r.pc # "off" => t.pc = "invoking" /\ r.stage = t.stage
    /\ r.pc = "writing" => r.snap = run

\* What a transaction has read is current when it commits.
SessionHand(x) ==
    /\ x.pc = "open" =>
          /\ x.snap = run /\ x.seen = rows
          /\ x.op \in {"approve", "reject"} => run.status = Gate(x.stage)
          /\ x.op = "retry" => run.status = "FAILED" /\ x.target = x.stage
          /\ x.consent => x.op \in {"approve", "retry"}
          /\ x.op \in {"requeue", "exhaust"} =>
                /\ run.status = "RUNNING" /\ Latest(x.stage).status = "RUNNING"
                /\ x.target = x.stage /\ x.attempt = Len(rows[x.stage])
    /\ x.pc = "unscheduled" => x.snap = run /\ run.status = "QUEUED"

\* The monitor recovers what is stale, everybody else reviews.
Roles ==
    \A s \in Sessions : session[s].pc = "open" =>
       IF s = Monitor THEN session[s].op \in {"requeue", "exhaust"}
       ELSE session[s].op \in {"approve", "reject", "retry"}

HandInv ==
    /\ \A k \in Execs : TaskHand(task[k]) /\ RuntimeHand(runtime[k], task[k])
    /\ \A s \in Sessions : SessionHand(session[s])
    /\ Roles /\ Alone

(***************************************************************************)
(* Views of the rows and of the run                                        *)
(***************************************************************************)

\* With a current snapshot the flush writes what was set.
LEMMA MergeCurrent ==
    ASSUME NEW new \in Run, run \in Run
    PROVE  Merge(run, new) = new
BY DEF Merge, Written, Run

\* An event of somebody who holds the current row of the run.
LEMMA CurrentEvent ==
    ASSUME IInv, NEW status \in RunStatus, NEW stage \in Stages,
           NEW rollback \in Stages \cup {NoStage}, NEW row \in Row,
           PersistEvent(run, status, stage, rollback, row)
    PROVE  /\ run' \in Run
           /\ run'.status = status /\ run'.current = stage /\ run'.rollback = rollback
           /\ run'.exec = run.exec /\ run'.request = RequestAfter(status)
           /\ \A d \in Stages : Len(rows'[d]) = Len(rows[d])
           /\ Latest(stage)' = row
           /\ \A d \in Stages \ {stage} : Latest(d)' = Latest(d)
           /\ \A d \in Stages : \A j \in 1..Len(rows[d]) :
                 rows'[d][j] = IF d = stage /\ j = Len(rows[stage]) THEN row ELSE rows[d][j]
<1> DEFINE new == [run EXCEPT !.status = status, !.current = stage,
                              !.rollback = rollback, !.request = RequestAfter(status)]
           put == [rows EXCEPT ![stage][Len(rows[stage])] = row]
<1>1. run \in Run
  BY DEF IInv, TypeOK
<1>2. /\ new \in Run
      /\ new.status = status /\ new.current = stage /\ new.rollback = rollback
      /\ new.exec = run.exec /\ new.request = RequestAfter(status)
  BY <1>1 DEF Run, RequestAfter, RequestStatus
<1>3. run' = Merge(run, new) /\ rows' = put
  BY DEF PersistEvent
<1>4. /\ \A d \in Stages : Len(put[d]) = Len(rows[d])
      /\ \A d \in Stages : \A j \in 1..Len(rows[d]) :
            put[d][j] = IF d = stage /\ j = Len(rows[stage]) THEN row ELSE rows[d][j]
  BY LatestRewritten, Zenon
<1> HIDE DEF new, put
<1>5. run' = new
  BY <1>1, <1>2, <1>3, MergeCurrent
<1>6. \A d \in Stages : Len(rows[d]) \in 1..Len(rows[d])
  BY RowTypes
<1>7. \A d \in Stages : Latest(d)' = IF d = stage THEN row ELSE Latest(d)
  BY <1>3, <1>4, <1>6 DEF Latest
<1> QED
  BY <1>2, <1>3, <1>4, <1>5, <1>7

\* A stage row after an event.
LEMMA StageAfterRow ==
    ASSUME NEW row \in Row, NEW status \in RowStatus
    PROVE  /\ StageAfter(row, status) \in Row
           /\ StageAfter(row, status).status = status
           /\ StageAfter(row, status).plan = row.plan
           /\ StageAfter(row, status).approved = row.approved
           /\ StageAfter(row, status).busy = (row.busy /\ status # "FAILED")
BY DEF StageAfter, Row

\* A stage row after the report of a sub-step.
LEMMA ReportedRow ==
    ASSUME NEW row \in Row, NEW b \in BOOLEAN
    PROVE  LET new == [row EXCEPT !.status = "RUNNING", !.busy = b] IN
           /\ new \in Row /\ new.status = "RUNNING"
           /\ new.plan = row.plan /\ new.approved = row.approved /\ new.busy = b
BY DEF Row, RowStatus

\* What can be claimed is a newest attempt.
LEMMA PendingIsNewest ==
    ASSUME IInv, NEW c \in Stages
    PROVE  Pending(rows, c) = IF Latest(c).status = "PENDING" THEN {Len(rows[c])} ELSE {}
<1>1. Len(rows[c]) \in Nat \ {0}
  BY RowTypes
<1>2. \A i \in 1..Len(rows[c]) : rows[c][i].status = "PENDING" => i = Len(rows[c])
  BY <1>1 DEF IInv, SupersededIsDead
<1> QED
  BY <1>1, <1>2 DEF Pending, Latest

LEMMA RunningIsNewest ==
    ASSUME IInv, NEW c \in Stages
    PROVE  Running(c) = IF Latest(c).status = "RUNNING" THEN {Len(rows[c])} ELSE {}
<1>1. Len(rows[c]) \in Nat \ {0}
  BY RowTypes
<1>2. \A i \in 1..Len(rows[c]) : rows[c][i].status = "RUNNING" => i = Len(rows[c])
  BY <1>1 DEF IInv, SupersededIsDead
<1> QED
  BY <1>1, <1>2 DEF Running, Latest

\* The gates differ, and each differs from the other statuses.
LEMMA GatesApart ==
    ASSUME NEW c \in Stages
    PROVE  /\ Gate(c) \in RunStatus
           /\ Gate(c) \notin {"QUEUED", "RUNNING", "COMPLETED", "FAILED"}
           /\ \A d \in Stages : Gate(c) = Gate(d) => c = d
BY DEF Gate, RunStatus, Stages, REQ, SEL, PROC

(***************************************************************************)
(* One at a time: the steps of a task and its Runtime                      *)
(***************************************************************************)

\* While a task is alive nobody else holds anything.
LEMMA OnlyTask ==
    ASSUME HandInv, NEW k \in Execs, Alive(k)
    PROVE  /\ \A j \in Execs \ {k} : ~Alive(j) /\ runtime[j].pc = "off"
           /\ \A s \in Sessions : session[s].pc = "idle"
<1>1. \A j \in Execs \ {k} : ~Alive(j)
  BY DEF HandInv, Alone
<1>2. \A j \in Execs : runtime[j].pc # "off" => Alive(j)
  BY DEF HandInv, RuntimeHand, Alive
<1> QED
  BY <1>1, <1>2 DEF HandInv, Alone, Busy

LEMMA TaskActs ==
    ASSUME HandInv, NEW k \in Execs, Alive(k), UNCHANGED session,
           \A j \in Execs \ {k} : task'[j] = task[j] /\ runtime'[j] = runtime[j],
           TaskHand(task[k])', RuntimeHand(runtime[k], task[k])'
    PROVE  HandInv'
<1>1. /\ \A j \in Execs \ {k} : ~Alive(j) /\ runtime[j].pc = "off"
      /\ \A s \in Sessions : session[s].pc = "idle"
  BY OnlyTask
<1>2. ASSUME NEW j \in Execs, j # k
      PROVE  TaskHand(task[j])' /\ RuntimeHand(runtime[j], task[j])'
  <2>1. task'[j].pc \in {"idle", "done"} /\ runtime'[j].pc = "off"
    BY <1>1, <1>2 DEF Alive
  <2> QED
    BY <2>1 DEF TaskHand, RuntimeHand
<1>3. (\A s \in Sessions : SessionHand(session[s]))' /\ Roles'
  BY <1>1 DEF SessionHand, Roles
<1>4. Alone'
  BY <1>1 DEF Alone, Alive, Busy
<1> QED
  BY <1>2, <1>3, <1>4 DEF HandInv

\* A task that ends leaves its Runtime off.
LEMMA TaskEnds ==
    ASSUME IInv, HandInv, NEW k \in Execs, Alive(k), task[k].pc # "invoking",
           task' = [task EXCEPT ![k] = Finished], UNCHANGED <<runtime, session>>
    PROVE  HandInv'
<1>1. task'[k] = Finished /\ \A j \in Execs \ {k} : task'[j] = task[j]
  BY DEF IInv, TypeOK
<1>2. task'[k].pc = "done"
  BY <1>1 DEF Finished, NoTask
<1>3. runtime'[k].pc = "off"
  BY DEF HandInv, RuntimeHand, IInv, TypeOK, Runtime
<1>4. TaskHand(task[k])' /\ RuntimeHand(runtime[k], task[k])'
  BY <1>2, <1>3 DEF TaskHand, RuntimeHand
<1> QED
  BY <1>1, <1>4, TaskActs

LEMMA HandDispatchRead ==
    ASSUME IInv, HandInv, NEW k \in Execs, DispatchRead(k)
    PROVE  HandInv'
<1>1. PICK i \in IF Claim = DISPATCH THEN {0} ELSE Lowest(Pending(rows, Claim)) :
         task' = [task EXCEPT ![k] =
            [@ EXCEPT !.pc = "dispatching", !.exec = run.exec, !.snap = run,
                      !.stage = Claim, !.attempt = i]]
  BY DEF DispatchRead
<1> DEFINE c == Claim
<1>2. task \in [Execs -> Task] /\ task[k] \in Task
  BY DEF IInv, TypeOK
<1>3. /\ task'[k].pc = "dispatching" /\ task'[k].exec = run.exec /\ task'[k].snap = run
      /\ task'[k].stage = c /\ task'[k].attempt = i
      /\ \A j \in Execs \ {k} : task'[j] = task[j]
  BY <1>1, <1>2 DEF Task
<1>4. ASSUME c \in Stages
      PROVE  Latest(c).status = "PENDING" /\ i = Len(rows[c])
  <2>1. c # DISPATCH
    BY <1>4 DEF Stages, DISPATCH, REQ, SEL, PROC
  <2>2. Pending(rows, c) # {}
    BY <1>4, <2>1 DEF Claim
  <2>3. i \in Lowest(Pending(rows, c))
    BY <1>1, <2>1
  <2> HIDE DEF c
  <2> QED
    BY <1>4, <2>2, <2>3, PendingIsNewest DEF Lowest
<1>5. run.status = "QUEUED" /\ task[k].pc = "scheduled"
  BY DEF DispatchRead, HandInv, TaskHand
<1>6. UNCHANGED <<run, rows, runtime, session>>
  BY DEF DispatchRead
<1> HIDE DEF c
<1>7. TaskHand(task[k])'
  BY <1>3, <1>4, <1>5, <1>6 DEF TaskHand, Latest
<1>8. RuntimeHand(runtime[k], task[k])'
  BY <1>5, <1>6 DEF RuntimeHand, HandInv
<1> QED
  BY <1>3, <1>5, <1>6, <1>7, <1>8, TaskActs DEF Alive

LEMMA HandDispatchCommit ==
    ASSUME IInv, HandInv, NEW k \in Execs, DispatchCommit(k)
    PROVE  HandInv'
<1>1. task \in [Execs -> Task] /\ task[k] \in Task
  BY DEF IInv, TypeOK
<1>2. PICK c \in Stages : c = task[k].stage
  BY DEF DispatchCommit
<1>3. /\ task[k].pc = "dispatching" /\ task[k].snap = run /\ Latest(c).status = "PENDING"
      /\ task[k].exec = run.exec /\ task[k].attempt = Len(rows[c])
  BY <1>2 DEF DispatchCommit, HandInv, TaskHand
<1>4. PICK row \in Row : row = StageAfter(Latest(c), "PENDING") /\ row.status = "PENDING"
  BY RowTypes, StageAfterRow DEF RowStatus
<1>5. PersistEvent(run, "RUNNING", c, NoStage, row)
  BY <1>2, <1>3, <1>4 DEF DispatchCommit
<1>6. UNCHANGED <<runtime, session>> /\ task' = [task EXCEPT ![k].pc = "claimed", ![k].snap = NewRun]
  BY DEF DispatchCommit
<1>7. /\ task'[k].pc = "claimed" /\ task'[k].exec = task[k].exec
      /\ task'[k].stage = c /\ task'[k].attempt = task[k].attempt
      /\ \A j \in Execs \ {k} : task'[j] = task[j]
  BY <1>1, <1>2, <1>6 DEF Task
<1>8. "RUNNING" \in RunStatus /\ NoStage \in Stages \cup {NoStage}
  BY DEF RunStatus
<1>9. /\ run'.status = "RUNNING" /\ run'.exec = run.exec
      /\ Len(rows'[c]) = Len(rows[c]) /\ Latest(c)' = row
  BY <1>5, <1>8, CurrentEvent
<1>10. TaskHand(task[k])'
  BY <1>3, <1>4, <1>7, <1>9 DEF TaskHand, Latest
<1>11. RuntimeHand(runtime[k], task[k])'
  BY <1>3, <1>6 DEF RuntimeHand, HandInv
<1> QED
  BY <1>3, <1>6, <1>7, <1>10, <1>11, TaskActs DEF Alive

LEMMA HandStartRead ==
    ASSUME IInv, HandInv, NEW k \in Execs, StartRead(k)
    PROVE  HandInv'
<1>1. task \in [Execs -> Task] /\ task[k] \in Task
  BY DEF IInv, TypeOK
<1>2. PICK c \in Stages : c = task[k].stage
  BY <1>1 DEF StartRead, IInv, Located, AtWork
<1>3. /\ task[k].pc = "claimed" /\ run.status = "RUNNING" /\ Latest(c).status = "PENDING"
      /\ task[k].exec = run.exec /\ task[k].attempt = Len(rows[c])
  BY <1>2 DEF StartRead, HandInv, TaskHand
<1>4. UNCHANGED <<run, rows, runtime, session>>
  BY DEF StartRead
<1>5. /\ task'[k].pc = "starting" /\ task'[k].exec = task[k].exec /\ task'[k].snap = run
      /\ task'[k].stage = c /\ task'[k].attempt = task[k].attempt
      /\ \A j \in Execs \ {k} : task'[j] = task[j]
  BY <1>1, <1>2, <1>3 DEF StartRead, Task
<1>6. TaskHand(task[k])'
  BY <1>3, <1>4, <1>5 DEF TaskHand, Latest
<1>7. RuntimeHand(runtime[k], task[k])'
  BY <1>3, <1>4 DEF RuntimeHand, HandInv
<1> QED
  BY <1>3, <1>4, <1>5, <1>6, <1>7, TaskActs DEF Alive

LEMMA HandStartCommit ==
    ASSUME IInv, HandInv, NEW k \in Execs, StartCommit(k)
    PROVE  HandInv'
<1>1. task \in [Execs -> Task] /\ task[k] \in Task
  BY DEF IInv, TypeOK
<1>2. PICK c \in Stages : c = task[k].stage
  BY <1>1 DEF StartCommit, IInv, Located, AtWork
<1>3. /\ task[k].pc = "starting" /\ task[k].snap = run
      /\ task[k].exec = run.exec /\ task[k].attempt = Len(rows[c])
  BY <1>2 DEF StartCommit, HandInv, TaskHand
<1>4. PICK row \in Row : /\ row = StageAfter(Latest(c), "RUNNING")
                         /\ row.status = "RUNNING" /\ row.plan = Latest(c).plan
  BY RowTypes, StageAfterRow DEF RowStatus
<1>5. PersistEvent(run, "RUNNING", c, NoStage, row)
  BY <1>2, <1>3, <1>4 DEF StartCommit
<1>6. UNCHANGED <<runtime, session>>
  BY DEF StartCommit
<1>7. /\ task'[k].pc = "started" /\ task'[k].exec = task[k].exec
      /\ task'[k].stage = c /\ task'[k].attempt = task[k].attempt
      /\ task'[k].plan = Latest(c).plan
      /\ \A j \in Execs \ {k} : task'[j] = task[j]
  BY <1>1, <1>2, <1>3 DEF StartCommit, Task
<1>8. "RUNNING" \in RunStatus /\ NoStage \in Stages \cup {NoStage}
  BY DEF RunStatus
<1>9. /\ run'.status = "RUNNING" /\ run'.exec = run.exec
      /\ Len(rows'[c]) = Len(rows[c]) /\ Latest(c)' = row
  BY <1>5, <1>8, CurrentEvent
<1>10. TaskHand(task[k])'
  BY <1>3, <1>4, <1>7, <1>9 DEF TaskHand, Latest
<1>11. RuntimeHand(runtime[k], task[k])'
  BY <1>3, <1>6 DEF RuntimeHand, HandInv
<1> QED
  BY <1>3, <1>6, <1>7, <1>10, <1>11, TaskActs DEF Alive

\* Steps of a task between its events, and of its Runtime between its reports.
LEMMA HandInvocation ==
    ASSUME OneAtATime, IInv, HandInv, NEW k \in Execs,
           Invoke(k) \/ AgentReturns(k) \/ RuntimeRead(k) \/ RuntimeEnds(k)
    PROVE  HandInv'
<1>1. task \in [Execs -> Task] /\ task[k] \in Task /\ runtime \in [Execs -> Runtime]
  BY DEF IInv, TypeOK
<1>2. UNCHANGED <<run, rows, session>>
  BY DEF Invoke, AgentReturns, RuntimeRead, RuntimeEnds
<1>3. TaskHand(task[k]) /\ RuntimeHand(runtime[k], task[k])
  BY DEF HandInv
<1>4. task[k].pc \in {"started", "invoking"}
  BY <1>3 DEF Invoke, AgentReturns, RuntimeRead, RuntimeEnds, RuntimeHand
<1>5. task[k].stage \in Stages
  BY <1>4 DEF IInv, Located, AtWork
<1>6. \A j \in Execs \ {k} : task'[j] = task[j] /\ runtime'[j] = runtime[j]
  BY <1>1 DEF Invoke, AgentReturns, RuntimeRead, RuntimeEnds
<1>7. CASE Invoke(k)
  <2>1. /\ task'[k].pc = "invoking" /\ task'[k].exec = task[k].exec
        /\ task'[k].stage = task[k].stage /\ task'[k].attempt = task[k].attempt
        /\ task'[k].plan = task[k].plan
        /\ runtime'[k].pc = "up" /\ runtime'[k].stage = task[k].stage
    BY <1>1, <1>7 DEF Invoke, Task
  <2>2. TaskHand(task[k])' /\ RuntimeHand(runtime[k], task[k])'
    BY <1>2, <1>3, <1>5, <1>7, <2>1 DEF Invoke, TaskHand, RuntimeHand, Latest
  <2> QED
    BY <1>2, <1>4, <1>6, <2>2, TaskActs DEF Alive
<1>8. CASE AgentReturns(k)
  <2>1. PICK v : /\ task' = [task EXCEPT ![k].pc = "returned", ![k].verdict = v]
                 /\ runtime' = IF Outlives(v) THEN runtime
                               ELSE [runtime EXCEPT ![k] = NoRuntime]
    BY <1>8 DEF AgentReturns
  <2>2. ~Outlives(v)
    BY DEF Outlives, OneAtATime
  <2>3. runtime'[k] = NoRuntime
    BY <1>1, <2>1, <2>2
  <2>4. /\ task'[k].pc = "returned" /\ task'[k].exec = task[k].exec
        /\ task'[k].stage = task[k].stage /\ task'[k].attempt = task[k].attempt
        /\ task'[k].plan = task[k].plan
        /\ runtime'[k].pc = "off"
    BY <1>1, <2>1, <2>3 DEF Task, NoRuntime
  <2>5. TaskHand(task[k])' /\ RuntimeHand(runtime[k], task[k])'
    BY <1>2, <1>3, <1>5, <1>8, <2>4 DEF AgentReturns, TaskHand, RuntimeHand, Latest
  <2> QED
    BY <1>2, <1>4, <1>6, <2>5, TaskActs DEF Alive
<1>9. CASE RuntimeRead(k)
  <2>1. /\ task'[k] = task[k] /\ runtime'[k].snap = run
        /\ runtime'[k].stage = runtime[k].stage
    BY <1>1, <1>9 DEF RuntimeRead, Runtime
  <2>2. TaskHand(task[k])'
    BY <1>2, <1>3, <1>5, <2>1 DEF TaskHand, Latest
  <2>3. RuntimeHand(runtime[k], task[k])'
    BY <1>2, <1>3, <1>9, <2>1 DEF RuntimeRead, RuntimeHand
  <2> QED
    BY <1>2, <1>4, <1>6, <2>2, <2>3, TaskActs DEF Alive
<1>10. CASE RuntimeEnds(k)
  <2> QED
    BY <1>3, <1>10 DEF RuntimeEnds, RuntimeHand
<1> QED
  BY <1>7, <1>8, <1>9, <1>10

LEMMA HandReport ==
    ASSUME IInv, HandInv, NEW k \in Execs, NEW b \in BOOLEAN, RuntimeWrite(k, b)
    PROVE  HandInv'
<1>1. task \in [Execs -> Task] /\ task[k] \in Task /\ runtime \in [Execs -> Runtime]
  BY DEF IInv, TypeOK
<1>2. PICK c \in Stages : c = runtime[k].stage
  BY DEF RuntimeWrite, IInv, Located
<1>3. /\ task[k].pc = "invoking" /\ task[k].stage = c /\ runtime[k].snap = run
      /\ runtime[k].pc = "writing"
  BY <1>2 DEF RuntimeWrite, HandInv, RuntimeHand
<1>4. /\ task[k].exec = run.exec /\ task[k].attempt = Len(rows[c])
      /\ task[k].plan = Latest(c).plan
  BY <1>3 DEF HandInv, TaskHand
<1>5. PICK row \in Row : /\ row = [Latest(c) EXCEPT !.status = "RUNNING", !.busy = b]
                         /\ row.status = "RUNNING" /\ row.plan = Latest(c).plan
  BY RowTypes, ReportedRow
<1>6. PersistEvent(run, "RUNNING", c, NoStage, row)
  BY <1>2, <1>3, <1>5 DEF RuntimeWrite
<1>7. /\ UNCHANGED <<task, session>>
      /\ runtime'[k].pc = "up" /\ runtime'[k].stage = c
      /\ \A j \in Execs \ {k} : runtime'[j] = runtime[j]
  BY <1>1, <1>2 DEF RuntimeWrite, Runtime
<1>8. "RUNNING" \in RunStatus /\ NoStage \in Stages \cup {NoStage}
  BY DEF RunStatus
<1>9. /\ run'.status = "RUNNING" /\ run'.exec = run.exec
      /\ Len(rows'[c]) = Len(rows[c]) /\ Latest(c)' = row
  BY <1>6, <1>8, CurrentEvent
<1>10. TaskHand(task[k])'
  <2>1. /\ task'[k].pc = "invoking" /\ task'[k].stage = c
        /\ task'[k].exec = run'.exec /\ task'[k].attempt = Len(rows'[c])
    BY <1>3, <1>4, <1>7, <1>9
  <2>2. /\ run'.status = "RUNNING" /\ Latest(c)'.status = "RUNNING"
        /\ Latest(c)'.plan = task'[k].plan
    BY <1>4, <1>5, <1>7, <1>9
  <2> QED
    BY <2>1, <2>2 DEF TaskHand, Latest
<1>11. RuntimeHand(runtime[k], task[k])'
  BY <1>3, <1>7 DEF RuntimeHand
<1> QED
  BY <1>3, <1>7, <1>10, <1>11, TaskActs DEF Alive

LEMMA HandFinalRead ==
    ASSUME IInv, HandInv, NEW k \in Execs, FinalRead(k)
    PROVE  HandInv'
<1>1. task \in [Execs -> Task] /\ task[k] \in Task
  BY DEF IInv, TypeOK
<1>2. PICK c \in Stages : c = task[k].stage
  BY <1>1 DEF FinalRead, IInv, Located, AtWork
<1>3. /\ task[k].pc = "returned" /\ run.status = "RUNNING" /\ Latest(c).status = "RUNNING"
      /\ task[k].exec = run.exec /\ task[k].attempt = Len(rows[c])
      /\ task[k].plan = Latest(c).plan
  BY <1>2 DEF FinalRead, HandInv, TaskHand
<1>4. UNCHANGED <<run, rows, runtime, session>>
  BY DEF FinalRead
<1>5. /\ task'[k].pc = "finishing" /\ task'[k].exec = task[k].exec /\ task'[k].snap = run
      /\ task'[k].stage = c /\ task'[k].attempt = task[k].attempt
      /\ task'[k].plan = task[k].plan
      /\ \A j \in Execs \ {k} : task'[j] = task[j]
  BY <1>1, <1>2, <1>3 DEF FinalRead, Task
<1>6. TaskHand(task[k])'
  BY <1>3, <1>4, <1>5 DEF TaskHand, Latest
<1>7. RuntimeHand(runtime[k], task[k])'
  BY <1>3, <1>4 DEF RuntimeHand, HandInv
<1> QED
  BY <1>3, <1>4, <1>5, <1>6, <1>7, TaskActs DEF Alive

LEMMA HandTaskStep ==
    ASSUME OneAtATime, IInv, HandInv, NEW k \in Execs, TaskStep(k)
    PROVE  HandInv'
<1>1. CASE DispatchFails(k) \/ PayloadFails(k) \/ FinalCommit(k)
  <2>1. /\ task' = [task EXCEPT ![k] = Finished] /\ UNCHANGED <<runtime, session>>
        /\ task[k].pc \in {"dispatching", "started", "finishing"}
    BY <1>1 DEF DispatchFails, PayloadFails, FinalCommit
  <2> QED
    BY <2>1, TaskEnds DEF Alive
<1> QED
  BY <1>1, HandDispatchRead, HandDispatchCommit, HandStartRead, HandStartCommit, HandInvocation,
     HandFinalRead DEF TaskStep

LEMMA HandRuntimeStep ==
    ASSUME OneAtATime, IInv, HandInv, NEW k \in Execs, RuntimeStep(k)
    PROVE  HandInv'
BY HandInvocation, HandReport DEF RuntimeStep

(***************************************************************************)
(* One at a time: the steps of the transactions                            *)
(***************************************************************************)

\* While a transaction is open no task is alive and no other one is open.
LEMMA OnlySession ==
    ASSUME HandInv, NEW s \in Sessions, Busy(s)
    PROVE  /\ \A k \in Execs : ~Alive(k)
           /\ \A t \in Sessions \ {s} : ~Busy(t)
BY DEF HandInv, Alone

\* A transaction opens or ends without waking a task.
LEMMA SessionActs ==
    ASSUME HandInv, NEW s \in Sessions,
           \A k \in Execs : ~Alive(k), \A t \in Sessions \ {s} : ~Busy(t),
           \A t \in Sessions \ {s} : session'[t] = session[t],
           UNCHANGED <<task, runtime>>,
           SessionHand(session[s])',
           session'[s].pc = "open" =>
              IF s = Monitor THEN session'[s].op \in {"requeue", "exhaust"}
              ELSE session'[s].op \in {"approve", "reject", "retry"}
    PROVE  HandInv'
<1>1. ASSUME NEW k \in Execs
      PROVE  TaskHand(task[k])' /\ RuntimeHand(runtime[k], task[k])'
  <2>1. task'[k].pc \in {"idle", "done"} /\ runtime'[k].pc = "off"
    BY DEF HandInv, RuntimeHand, Alive
  <2> QED
    BY <2>1 DEF TaskHand, RuntimeHand
<1>2. ASSUME NEW t \in Sessions
      PROVE  SessionHand(session[t])'
  BY DEF SessionHand, Busy
<1>3. Roles'
  BY DEF Roles, Busy
<1>4. Alone'
  BY DEF Alone, Alive, Busy
<1> QED
  BY <1>1, <1>2, <1>3, <1>4 DEF HandInv

\* A transaction ends and one task is scheduled.
LEMMA SessionHandsOver ==
    ASSUME IInv, HandInv, NEW s \in Sessions, Busy(s), NEW j \in Execs,
           session' = [session EXCEPT ![s] = NoSession],
           task' = [task EXCEPT ![j] = Scheduled], UNCHANGED runtime,
           run'.status = "QUEUED"
    PROVE  HandInv'
<1>1. /\ \A k \in Execs : ~Alive(k)
      /\ \A t \in Sessions \ {s} : ~Busy(t)
  BY OnlySession
<1>2. \A t \in Sessions : session'[t].pc = "idle"
  BY <1>1 DEF IInv, TypeOK, NoSession, Busy
<1>3. task'[j].pc = "scheduled" /\ \A k \in Execs \ {j} : task'[k] = task[k]
  BY DEF IInv, TypeOK, Scheduled, NoTask
<1>4. ASSUME NEW k \in Execs
      PROVE  TaskHand(task[k])' /\ RuntimeHand(runtime[k], task[k])'
  <2>1. task'[k].pc \in {"idle", "done", "scheduled"} /\ runtime'[k].pc = "off"
    BY <1>1, <1>3 DEF HandInv, RuntimeHand, Alive
  <2> QED
    BY <2>1 DEF TaskHand, RuntimeHand
<1>5. (\A t \in Sessions : SessionHand(session[t]))' /\ Roles'
  BY <1>2 DEF SessionHand, Roles
<1>6. Alone'
  BY <1>1, <1>2, <1>3 DEF Alone, Alive, Busy
<1> QED
  BY <1>4, <1>5, <1>6 DEF HandInv

LEMMA SessionEnds ==
    ASSUME IInv, HandInv, NEW s \in Sessions, Busy(s),
           session' = [session EXCEPT ![s] = NoSession], UNCHANGED <<task, runtime>>
    PROVE  HandInv'
<1>1. session'[s].pc = "idle" /\ \A t \in Sessions \ {s} : session'[t] = session[t]
  BY DEF IInv, TypeOK, NoSession
<1>2. SessionHand(session[s])'
  BY <1>1 DEF SessionHand
<1> QED
  BY <1>1, <1>2, OnlySession, SessionActs

\* What the commit makes of the run when its snapshot is current.
LEMMA Reissued ==
    ASSUME IInv, NEW s \in Sessions, session[s].snap = run, NEW target \in Stages,
           NEW rollback \in Stages \cup {NoStage},
           Redispatch(s, Queued(session[s].snap, target, rollback))
    PROVE  /\ run' = [Queued(run, target, rollback) EXCEPT !.exec = lastExec + 1]
           /\ run'.status = "QUEUED" /\ run'.current = target /\ run'.rollback = rollback
           /\ run'.request = run.request /\ lastExec + 1 \in Execs
<1> DEFINE new == [Queued(run, target, rollback) EXCEPT !.exec = lastExec + 1]
<1>1. run \in Run /\ lastExec \in Nat /\ lastExec + 1 \in Execs /\ lastExec + 1 \in Nat \ {0}
  BY ExecBound DEF IInv, TypeOK, Execs, Redispatch, Reissue
<1>2. /\ new \in Run
      /\ new.status = "QUEUED" /\ new.current = target /\ new.rollback = rollback
      /\ new.request = run.request
  BY <1>1 DEF Queued, Run, RunStatus
<1>3. run' = Merge(run, new)
  BY DEF Redispatch, Reissue
<1> HIDE DEF new
<1>4. run' = new
  BY <1>1, <1>2, <1>3, MergeCurrent
<1> QED
  BY <1>1, <1>2, <1>4 DEF new

LEMMA HandRedispatch ==
    ASSUME IInv, HandInv, NEW s \in Sessions, session[s].pc = "open", NEW target \in Stages,
           NEW rollback \in Stages \cup {NoStage},
           Redispatch(s, Queued(session[s].snap, target, rollback))
    PROVE  HandInv'
<1>1. session[s].snap = run /\ Busy(s)
  BY DEF HandInv, SessionHand, Busy
<1>2. /\ run' = [Queued(run, target, rollback) EXCEPT !.exec = lastExec + 1]
      /\ run'.status = "QUEUED" /\ lastExec + 1 \in Execs
  BY <1>1, Reissued
<1>3. UNCHANGED runtime
  BY DEF Redispatch
<1>4. CASE /\ task' = [task EXCEPT ![lastExec + 1] = Scheduled]
           /\ session' = [session EXCEPT ![s] = NoSession]
  BY <1>1, <1>2, <1>3, <1>4, SessionHandsOver
<1>5. CASE /\ task' = task
           /\ session' = [session EXCEPT ![s] =
                 [NoSession EXCEPT !.pc = "unscheduled",
                    !.snap = [Queued(session[s].snap, target, rollback) EXCEPT !.exec = lastExec + 1]]]
  <2>1. /\ session'[s].pc = "unscheduled" /\ session'[s].snap = run'
        /\ \A t \in Sessions \ {s} : session'[t] = session[t]
    BY <1>1, <1>2, <1>5 DEF IInv, TypeOK, NoSession
  <2>2. SessionHand(session[s])'
    BY <1>2, <2>1 DEF SessionHand
  <2> QED
    BY <1>1, <1>3, <1>5, <2>1, <2>2, OnlySession, SessionActs
<1> QED
  BY <1>4, <1>5 DEF Redispatch

\* Somebody opens a transaction while nobody else is at work.
LEMMA HandOpens ==
    ASSUME IInv, HandInv, NEW s \in Sessions,
           \A k \in Execs : ~Alive(k), \A t \in Sessions : ~Busy(t),
           NEW op, NEW stage, NEW target, NEW attempt, NEW consent,
           Open(s, op, stage, target, attempt, consent),
           UNCHANGED <<run, rows, task, runtime>>,
           op \in {"approve", "reject"} => run.status = Gate(stage),
           op = "retry" => run.status = "FAILED" /\ target = stage,
           consent => op \in {"approve", "retry"},
           op \in {"requeue", "exhaust"} =>
              /\ run.status = "RUNNING" /\ Latest(stage).status = "RUNNING"
              /\ target = stage /\ attempt = Len(rows[stage]),
           IF s = Monitor THEN op \in {"requeue", "exhaust"}
           ELSE op \in {"approve", "reject", "retry"}
    PROVE  HandInv'
<1>1. /\ session'[s].pc = "open" /\ session'[s].op = op
      /\ session'[s].stage = stage /\ session'[s].target = target
      /\ session'[s].attempt = attempt /\ session'[s].consent = consent
      /\ session'[s].snap = run /\ session'[s].seen = rows
      /\ \A t \in Sessions \ {s} : session'[t] = session[t]
  BY DEF Open, IInv, TypeOK
<1>2. Latest(stage)' = Latest(stage)
  BY DEF Latest
<1>3. SessionHand(session[s])'
  BY <1>1, <1>2 DEF SessionHand
<1> QED
  BY <1>1, <1>3, SessionActs

LEMMA HandReviewRead ==
    ASSUME OneAtATime, IInv, HandInv, NEW s \in Reviewer, ReviewRead(s)
    PROVE  HandInv'
<1>1. s \in Sessions /\ s # Monitor
  BY MonitorIsApart DEF Sessions
<1>2. run.status = "FAILED" \/ \E c \in Stages : run.status = Gate(c)
  BY DEF ReviewRead, Retryable
<1>3. run.status \notin {"QUEUED", "RUNNING"}
  BY <1>2, GatesApart
<1>4. \A k \in Execs : ~Alive(k)
  BY <1>3 DEF HandInv, TaskHand, Alive, IInv, TypeOK, Task, TaskPc
<1>5. ASSUME NEW t \in Sessions
      PROVE  ~Busy(t)
  <2>1. CASE t = Monitor
    BY <1>3, <2>1 DEF HandInv, SessionHand, Roles, Busy, IInv, TypeOK, Session
  <2>2. CASE t # Monitor
    BY <2>2 DEF Sessions, OneAtATime, Busy, ReviewRead
  <2> QED
    BY <2>1, <2>2
<1>6. UNCHANGED <<run, rows, task, runtime>>
  BY DEF ReviewRead
<1>7. \/ \E c \in Stages : run.status = Gate(c) /\ Open(s, "approve", c, c, 0, TRUE)
      \/ \E c, d \in Stages : run.status = Gate(c) /\ Open(s, "reject", c, d, 0, FALSE)
      \/ /\ run.status = "FAILED"
         /\ \E c : \E b \in BOOLEAN : Open(s, "retry", c, c, 0, b)
  <2>1. \A code : RollbackTarget(code) \in Stages
    BY DEF RollbackTarget, Stages
  <2> QED
    BY <2>1 DEF ReviewRead, Retryable
<1>8. CASE \E c \in Stages : run.status = Gate(c) /\ Open(s, "approve", c, c, 0, TRUE)
  BY <1>1, <1>4, <1>5, <1>6, <1>8, HandOpens
<1>9. CASE \E c, d \in Stages : run.status = Gate(c) /\ Open(s, "reject", c, d, 0, FALSE)
  BY <1>1, <1>4, <1>5, <1>6, <1>9, HandOpens
<1>10. CASE /\ run.status = "FAILED"
            /\ \E c : \E b \in BOOLEAN : Open(s, "retry", c, c, 0, b)
  BY <1>1, <1>4, <1>5, <1>6, <1>10, HandOpens
<1> QED
  BY <1>7, <1>8, <1>9, <1>10

LEMMA HandStaleRead ==
    ASSUME OneAtATime, IInv, HandInv, StaleRead
    PROVE  HandInv'
<1>1. Monitor \in Sessions /\ run.status = "RUNNING" /\ session[Monitor].pc = "idle"
  BY DEF StaleRead, Stale, Sessions
<1>2. \A k \in Execs : ~Alive(k)
  BY DEF StaleRead, Stale, Working, OneAtATime, Alive
<1>3. ASSUME NEW t \in Sessions
      PROVE  ~Busy(t)
  <2>1. CASE t = Monitor
    BY <1>1, <2>1 DEF Busy
  <2>2. CASE t # Monitor
    <3>1. session[t].pc \in {"idle", "open", "unscheduled"} /\ session[t].stage \in Stages
      BY DEF IInv, TypeOK, Session
    <3>2. session[t].pc = "open" => run.status \in {Gate(session[t].stage), "FAILED"}
      BY <2>2 DEF HandInv, SessionHand, Roles
    <3>3. session[t].pc # "open"
      BY <1>1, <3>1, <3>2, GatesApart
    <3> QED
      BY <1>1, <3>1, <3>3 DEF HandInv, SessionHand, Busy
  <2> QED
    BY <2>1, <2>2
<1>4. UNCHANGED <<run, rows, task, runtime>>
  BY DEF StaleRead
<1>5. PICK c \in Stages : \E i \in Running(c) :
         Open(Monitor, IF i < MaxAuto THEN "requeue" ELSE "exhaust", c, c, i, FALSE)
  BY DEF StaleRead
<1>6. PICK i \in Running(c) :
         Open(Monitor, IF i < MaxAuto THEN "requeue" ELSE "exhaust", c, c, i, FALSE)
  BY <1>5
<1>7. Latest(c).status = "RUNNING" /\ i = Len(rows[c])
  BY <1>6, RunningIsNewest
<1>8. PICK op \in {"requeue", "exhaust"} : Open(Monitor, op, c, c, i, FALSE)
  BY <1>6
<1> QED
  BY <1>1, <1>2, <1>3, <1>4, <1>7, <1>8, HandOpens

LEMMA HandCommit ==
    ASSUME IInv, HandInv, NEW s \in Sessions, ReviewCommit(s) \/ SessionCommit(s)
    PROVE  HandInv'
<1>1. /\ session[s].target \in Stages /\ session[s].target \in Stages \cup {NoStage}
      /\ SEL \in Stages /\ PROC \in Stages /\ NoStage \in Stages \cup {NoStage}
  BY DEF IInv, TypeOK, Session, Stages
<1>2. CASE session' = [session EXCEPT ![s] = NoSession] /\ UNCHANGED <<task, runtime>>
  BY <1>2, SessionEnds
     DEF Busy, ReviewCommit, SessionCommit, ReopenCommit, ScheduleFails, ApproveFinal,
         ApproveAnalysis, ApproveSelection
<1>3. session[s].pc = "open" \/ ScheduleFails(s)
  BY DEF ReviewCommit, SessionCommit, ReopenCommit, ApproveFinal, ApproveAnalysis,
         ApproveSelection
<1>4. ASSUME NEW target \in Stages, NEW rollback \in Stages \cup {NoStage},
             session[s].pc = "open", Redispatch(s, Queued(session[s].snap, target, rollback))
      PROVE  HandInv'
  BY <1>4, HandRedispatch
<1>5. CASE ReopenCommit(s)
  BY <1>1, <1>2, <1>4, <1>5 DEF ReopenCommit, Abandon
<1>6. CASE ApproveAnalysis(s)
  BY <1>1, <1>4, <1>6 DEF ApproveAnalysis
<1>7. CASE ApproveSelection(s)
  BY <1>1, <1>2, <1>4, <1>7 DEF ApproveSelection, Abandon
<1>8. CASE ApproveFinal(s) \/ ScheduleFails(s)
  BY <1>2, <1>8 DEF ApproveFinal, ScheduleFails
<1> QED
  BY <1>5, <1>6, <1>7, <1>8 DEF ReviewCommit, SessionCommit

\* The process dies, and with it whoever was at work.
LEMMA HandCrash ==
    ASSUME OneAtATime, IInv, HandInv, Crash
    PROVE  HandInv'
<1>1. \A k \in Execs : task'[k].pc \in {"idle", "done"} /\ runtime'[k].pc = "off"
  BY DEF Crash, OneAtATime, NoTask, Finished, NoRuntime
<1>2. \A s \in Sessions : session'[s].pc = "idle"
  BY DEF Crash, NoSession
<1> QED
  BY <1>1, <1>2 DEF HandInv, TaskHand, RuntimeHand, SessionHand, Roles, Alone, Alive, Busy

LEMMA HandInit ==
    ASSUME Init
    PROVE  HandInv
<1>1. \A s \in Sessions : session[s].pc = "idle"
  BY DEF Init, NoSession
<1>2. \A k \in Execs : runtime[k].pc = "off"
  BY DEF Init, NoRuntime
<1>3. \A k \in Execs : task[k].pc \in {"idle", "scheduled"}
                       /\ (task[k].pc = "scheduled" => k = 1 /\ run.status = "QUEUED")
  BY DEF Init, Scheduled, NoTask, NewRun
<1> QED
  BY <1>1, <1>2, <1>3 DEF HandInv, TaskHand, RuntimeHand, SessionHand, Roles, Alone, Alive, Busy

LEMMA HandStep ==
    ASSUME OneAtATime, IInv, HandInv, Next
    PROVE  HandInv'
<1>1. ASSUME NEW s \in Sessions, ReviewCommit(s) \/ SessionCommit(s)
      PROVE  HandInv'
  BY <1>1, HandCommit
<1>2. CASE ExhaustCommit
  <2>1. /\ Monitor \in Sessions /\ Busy(Monitor)
        /\ session' = [session EXCEPT ![Monitor] = NoSession] /\ UNCHANGED <<task, runtime>>
    BY <1>2 DEF ExhaustCommit, Sessions, Busy
  <2> QED
    BY <2>1, SessionEnds
<1>3. ASSUME NEW s \in Reviewer, RecoverRead(s)
      PROVE  FALSE
  BY <1>3 DEF RecoverRead, OneAtATime
<1> QED
  BY <1>1, <1>2, <1>3, HandTaskStep, HandRuntimeStep, HandReviewRead, HandStaleRead, HandCrash
     DEF Next, Sessions

LEMMA HandStutter ==
    ASSUME HandInv, UNCHANGED vars
    PROVE  HandInv'
BY DEF HandInv, TaskHand, RuntimeHand, SessionHand, Roles, Alone, Alive, Busy, Latest, vars

\* Whoever is at work on the run is alone and holds what is current.
THEOREM WorkedOnByOne ==
    ASSUME OneAtATime
    PROVE  Spec => [](IInv /\ HandInv)
<1>1. Init => IInv /\ HandInv
  BY InitIInv, HandInit
<1>2. IInv /\ HandInv /\ [Next]_vars => (IInv /\ HandInv)'
  BY StepIInv, StutterIInv, HandStep, HandStutter
<1> QED
  BY <1>1, <1>2, PTL DEF Spec

\* No two tasks execute the same attempt of a stage, although neither the
\* claim nor the start of a stage takes a lock.
THEOREM ClaimsAreExclusive ==
    ASSUME OneAtATime
    PROVE  Spec => []ClaimIsExclusive
<1>1. HandInv => ClaimIsExclusive
  BY DEF HandInv, Alone, Alive, ClaimIsExclusive
<1> QED
  BY <1>1, WorkedOnByOne, PTL

\* While a run waits, or is over, nobody but a transaction changes it: no task
\* and no Runtime is at work on it.
LEMMA OnlyDecisionsMove ==
    ASSUME IInv, HandInv, Next, run.status \in Settled, run'.status # run.status
    PROVE  \E s \in Sessions : session[s].pc # "idle" /\ session'[s].pc # session[s].pc
<1>1. run.status \notin {"QUEUED", "RUNNING"}
  BY GatesApart DEF Settled
<1>2. \A k \in Execs : task[k].pc \in {"idle", "done"} /\ runtime[k].pc = "off"
  BY <1>1 DEF HandInv, TaskHand, RuntimeHand, IInv, TypeOK, Task, TaskPc
<1>3. ASSUME NEW k \in Execs
      PROVE  ~TaskStep(k) /\ ~RuntimeStep(k)
  BY <1>2 DEF TaskStep, DispatchRead, DispatchFails, DispatchCommit, StartRead, StartCommit,
     Invoke, PayloadFails, AgentReturns, FinalRead, FinalCommit, RuntimeStep, RuntimeRead,
     RuntimeEnds, RuntimeWrite
<1>4. ASSUME NEW s \in Sessions, ReviewCommit(s) \/ SessionCommit(s)
      PROVE  session[s].pc # "idle" /\ session'[s].pc # session[s].pc
  <2>1. session \in [Sessions -> Session]
    BY DEF IInv, TypeOK
  <2>2. CASE session' = [session EXCEPT ![s] = NoSession] /\ session[s].pc # "idle"
    BY <2>1, <2>2 DEF NoSession
  <2>3. ASSUME session[s].pc = "open", NEW new, Redispatch(s, new)
        PROVE  session'[s].pc # "open"
    <3>1. \A snap : [NoSession EXCEPT !.pc = "unscheduled", !.snap = snap].pc = "unscheduled"
      BY DEF NoSession
    <3>2. NoSession.pc = "idle"
      BY DEF NoSession
    <3>3. \/ session'[s] = NoSession
          \/ \E snap : session'[s] = [NoSession EXCEPT !.pc = "unscheduled", !.snap = snap]
      BY <2>1, <2>3 DEF Redispatch
    <3> QED
      BY <3>1, <3>2, <3>3
  <2> QED
    BY <1>4, <2>2, <2>3 DEF ReviewCommit, SessionCommit, ReopenCommit, ScheduleFails,
       ApproveFinal, ApproveAnalysis, ApproveSelection, Abandon
<1>5. CASE ExhaustCommit
  BY <1>5 DEF ExhaustCommit, NoSession, IInv, TypeOK, Sessions
<1>6. ~StaleRead /\ ~Crash /\ \A s \in Reviewer : ~ReviewRead(s) /\ ~RecoverRead(s)
  BY DEF StaleRead, Crash, ReviewRead, RecoverRead
<1> QED
  BY <1>3, <1>4, <1>5, <1>6 DEF Next, Sessions

\* A run that waits, failed or completed stays so until somebody decides,
\* whoever crashes: no event of a task or a Runtime arrives after its end.
THEOREM OnlyDecisionsEnd ==
    ASSUME OneAtATime
    PROVE  Spec => SettledUntilDecided
<1>1. IInv /\ HandInv /\ [Next]_vars =>
         [run.status \in Settled /\ run'.status # run.status =>
            \E s \in Sessions : session[s].pc # "idle" /\ session'[s].pc # session[s].pc]_vars
  BY OnlyDecisionsMove
<1> QED
  BY <1>1, WorkedOnByOne, PTL DEF Spec, SettledUntilDecided

(***************************************************************************)
(* What the steps do to the run and to the newest attempts                 *)
(***************************************************************************)

\* Of the rows only the newest attempt of stage c changes.
Revised(c, row) ==
    /\ \A d \in Stages : Len(rows'[d]) = Len(rows[d])
    /\ \A d \in Stages : \A j \in 1..Len(rows[d]) :
          rows'[d][j] = IF d = c /\ j = Len(rows[c]) THEN row ELSE rows[d][j]
    /\ Latest(c)' = row
    /\ \A d \in Stages \ {c} : Latest(d)' = Latest(d)

LEMMA RevisedRows ==
    ASSUME IInv, NEW c \in Stages, NEW row \in Row,
           rows' = [rows EXCEPT ![c][Len(rows[c])] = row]
    PROVE  Revised(c, row)
<1> DEFINE put == [rows EXCEPT ![c][Len(rows[c])] = row]
<1>1. rows' = put
  OBVIOUS
<1>2. /\ \A d \in Stages : Len(put[d]) = Len(rows[d])
      /\ \A d \in Stages : \A j \in 1..Len(rows[d]) :
            put[d][j] = IF d = c /\ j = Len(rows[c]) THEN row ELSE rows[d][j]
  BY LatestRewritten, Zenon
<1>3. \A d \in Stages : Len(rows[d]) \in 1..Len(rows[d])
  BY RowTypes
<1> HIDE DEF put
<1> QED
  BY <1>1, <1>2, <1>3 DEF Revised, Latest

\* The event that task k, or its Runtime, commits while it works on stage c.
EventOf(k, c, status, rollback, row) ==
    /\ c = task[k].stage
    /\ run'.status = status /\ run'.current = c /\ run'.rollback = rollback
    /\ run'.request = RequestAfter(status)
    /\ Revised(c, row)
    /\ row.plan = Latest(c).plan /\ row.approved = Latest(c).approved
    /\ \/ /\ task[k].pc = "dispatching" /\ status = "RUNNING" /\ rollback = NoStage
          /\ Latest(c).status = "PENDING" /\ row.status = "PENDING" /\ row.busy = Latest(c).busy
       \/ /\ task[k].pc = "starting" /\ status = "RUNNING" /\ rollback = NoStage
          /\ Latest(c).status = "PENDING" /\ row.status = "RUNNING" /\ row.busy = Latest(c).busy
       \/ /\ task[k].pc = "invoking" /\ status = "RUNNING" /\ rollback = NoStage
          /\ Latest(c).status = "RUNNING" /\ row.status = "RUNNING"
       \/ /\ task[k].pc = "finishing" /\ status = Gate(c) /\ rollback = NoStage
          /\ Latest(c).status = "RUNNING" /\ row.status = "COMPLETED"
       \/ /\ task[k].pc = "finishing" /\ status = "FAILED"
          /\ rollback = FailureRollback(c, task[k].verdict)
          /\ task[k].verdict # "PASSED"
          /\ Latest(c).status = "RUNNING" /\ row.status = "FAILED" /\ ~row.busy

LEMMA CurrentRows ==
    ASSUME IInv, NEW status \in RunStatus, NEW stage \in Stages,
           NEW rollback \in Stages \cup {NoStage}, NEW row \in Row,
           PersistEvent(run, status, stage, rollback, row)
    PROVE  /\ run'.status = status /\ run'.current = stage /\ run'.rollback = rollback
           /\ run'.request = RequestAfter(status)
           /\ Revised(stage, row)
BY CurrentEvent, RevisedRows DEF PersistEvent

LEMMA Events ==
    ASSUME IInv, HandInv, NEW k \in Execs,
           DispatchCommit(k) \/ StartCommit(k) \/ FinalCommit(k)
              \/ \E b \in BOOLEAN : RuntimeWrite(k, b)
    PROVE  \E c \in Stages, status \in RunStatus, rollback \in Stages \cup {NoStage}, row \in Row :
              EventOf(k, c, status, rollback, row)
<1>1. task[k] \in Task /\ runtime[k] \in Runtime
  BY DEF IInv, TypeOK
<1>2. task[k].stage \in Stages /\ (runtime[k].pc = "writing" => runtime[k].stage \in Stages)
  BY DEF DispatchCommit, StartCommit, FinalCommit, RuntimeWrite, IInv, Located, AtWork,
         HandInv, RuntimeHand
<1>3. PICK c \in Stages : c = task[k].stage
  BY <1>2
<1>4. TaskHand(task[k]) /\ RuntimeHand(runtime[k], task[k]) /\ Latest(c) \in Row
  BY RowTypes DEF HandInv
<1>5. /\ "RUNNING" \in RunStatus /\ "FAILED" \in RunStatus /\ Gate(c) \in RunStatus
      /\ {"PENDING", "RUNNING", "COMPLETED", "FAILED"} \subseteq RowStatus
      /\ NoStage \in Stages \cup {NoStage}
      /\ FailureRollback(c, task[k].verdict) \in Stages \cup {NoStage}
  BY GatesApart DEF RunStatus, RowStatus, FailureRollback, RollbackTarget, Stages
<1>6. ASSUME NEW status \in {"PENDING", "RUNNING", "COMPLETED", "FAILED"}
      PROVE  \E row \in Row : /\ row = StageAfter(Latest(c), status) /\ row.status = status
                              /\ row.plan = Latest(c).plan /\ row.approved = Latest(c).approved
                              /\ row.busy = (Latest(c).busy /\ status # "FAILED")
  BY <1>4, <1>5, StageAfterRow
<1>7. CASE DispatchCommit(k)
  <2>1. PICK row \in Row : /\ row = StageAfter(Latest(c), "PENDING") /\ row.status = "PENDING"
                           /\ row.plan = Latest(c).plan /\ row.approved = Latest(c).approved
                           /\ row.busy = (Latest(c).busy /\ "PENDING" # "FAILED")
    BY <1>6
  <2>2. /\ PersistEvent(run, "RUNNING", c, NoStage, row)
        /\ task[k].pc = "dispatching" /\ Latest(c).status = "PENDING"
    BY <1>3, <1>4, <1>7, <2>1 DEF DispatchCommit, TaskHand
  <2>3. row.busy = Latest(c).busy
    BY <1>4, <2>1 DEF Row
  <2>4. EventOf(k, c, "RUNNING", NoStage, row)
    BY <1>3, <1>5, <2>1, <2>2, <2>3, CurrentRows DEF EventOf
  <2> QED
    BY <1>5, <2>4
<1>8. CASE StartCommit(k)
  <2>1. PICK row \in Row : /\ row = StageAfter(Latest(c), "RUNNING") /\ row.status = "RUNNING"
                           /\ row.plan = Latest(c).plan /\ row.approved = Latest(c).approved
                           /\ row.busy = (Latest(c).busy /\ "RUNNING" # "FAILED")
    BY <1>6
  <2>2. /\ PersistEvent(run, "RUNNING", c, NoStage, row)
        /\ task[k].pc = "starting" /\ Latest(c).status = "PENDING"
    BY <1>3, <1>4, <1>8, <2>1 DEF StartCommit, TaskHand
  <2>3. row.busy = Latest(c).busy
    BY <1>4, <2>1 DEF Row
  <2>4. EventOf(k, c, "RUNNING", NoStage, row)
    BY <1>3, <1>5, <2>1, <2>2, <2>3, CurrentRows DEF EventOf
  <2> QED
    BY <1>5, <2>4
<1>9. ASSUME NEW b \in BOOLEAN, RuntimeWrite(k, b)
      PROVE  \E row \in Row : EventOf(k, c, "RUNNING", NoStage, row)
  <2>1. PICK row \in Row : /\ row = [Latest(c) EXCEPT !.status = "RUNNING", !.busy = b]
                           /\ row.status = "RUNNING"
                           /\ row.plan = Latest(c).plan /\ row.approved = Latest(c).approved
    BY <1>4, ReportedRow
  <2>2. /\ runtime[k].snap = run /\ runtime[k].stage = c
        /\ task[k].pc = "invoking"
    BY <1>3, <1>4, <1>9 DEF RuntimeWrite, RuntimeHand
  <2>3. PersistEvent(run, "RUNNING", c, NoStage, row) /\ Latest(c).status = "RUNNING"
    BY <1>3, <1>4, <1>9, <2>1, <2>2 DEF RuntimeWrite, TaskHand
  <2>4. EventOf(k, c, "RUNNING", NoStage, row)
    BY <1>3, <1>5, <2>1, <2>2, <2>3, CurrentRows DEF EventOf
  <2> QED
    BY <2>4
<1>10. CASE FinalCommit(k) /\ task[k].verdict = "PASSED"
  <2>1. PICK row \in Row : /\ row = StageAfter(Latest(c), "COMPLETED") /\ row.status = "COMPLETED"
                           /\ row.plan = Latest(c).plan /\ row.approved = Latest(c).approved
    BY <1>6
  <2>2. /\ PersistEvent(run, Gate(c), c, NoStage, row)
        /\ task[k].pc = "finishing" /\ Latest(c).status = "RUNNING"
    BY <1>3, <1>4, <1>10, <2>1 DEF FinalCommit, TaskHand
  <2>3. /\ run'.status = Gate(c) /\ run'.current = c /\ run'.rollback = NoStage
        /\ run'.request = RequestAfter(Gate(c)) /\ Revised(c, row)
    BY <1>5, <2>2, CurrentRows
  <2>4. EventOf(k, c, Gate(c), NoStage, row)
    BY <1>3, <2>1, <2>2, <2>3 DEF EventOf
  <2> QED
    BY <1>5, <2>4
<1>11. CASE FinalCommit(k) /\ task[k].verdict # "PASSED"
  <2>1. PICK row \in Row : /\ row = StageAfter(Latest(c), "FAILED") /\ row.status = "FAILED"
                           /\ row.plan = Latest(c).plan /\ row.approved = Latest(c).approved
                           /\ row.busy = (Latest(c).busy /\ "FAILED" # "FAILED")
    BY <1>6
  <2>2. PICK rollback \in Stages \cup {NoStage} : rollback = FailureRollback(c, task[k].verdict)
    BY <1>5
  <2>3. /\ PersistEvent(run, "FAILED", c, rollback, row)
        /\ task[k].pc = "finishing" /\ Latest(c).status = "RUNNING"
    BY <1>3, <1>4, <1>11, <2>1, <2>2 DEF FinalCommit, TaskHand
  <2>4. EventOf(k, c, "FAILED", rollback, row)
    BY <1>3, <1>5, <1>11, <2>1, <2>2, <2>3, CurrentRows DEF EventOf
  <2> QED
    BY <1>5, <2>4
<1> QED
  BY <1>5, <1>7, <1>8, <1>9, <1>10, <1>11

\* An attempt after its approval.
Approved(row) == [row EXCEPT !.approved = TRUE]

LEMMA ApprovedRow ==
    ASSUME NEW row \in Row
    PROVE  /\ Approved(row) \in Row /\ Approved(row).approved
           /\ Approved(row).status = row.status /\ Approved(row).plan = row.plan
           /\ Approved(row).busy = row.busy
BY DEF Approved, Row

\* What a transaction reads is what it finds at its commit.
LEMMA SeenIsCurrent ==
    ASSUME IInv, HandInv, NEW s \in Sessions, session[s].pc = "open", NEW seen \in SeenBy(s)
    PROVE  seen = rows
BY DEF SeenBy, HandInv, SessionHand, IInv, TypeOK

\* The run is dispatched anew.
Dispatched(target, rollback) ==
    /\ run'.status = "QUEUED" /\ run'.current = target /\ run'.rollback = rollback
    /\ run'.request = run.request

LEMMA DispatchedAnew ==
    ASSUME IInv, HandInv, NEW s \in Sessions, session[s].pc = "open", NEW target \in Stages,
           NEW rollback \in Stages \cup {NoStage},
           Redispatch(s, Queued(session[s].snap, target, rollback))
    PROVE  Dispatched(target, rollback)
BY Reissued DEF Dispatched, HandInv, SessionHand

\* Approval of the analysis and of the processing.
LEMMA ApprovesOne ==
    ASSUME IInv, HandInv, NEW s \in Sessions
    PROVE  /\ ApproveFinal(s) =>
                 /\ run.status = Gate(PROC) /\ Revised(PROC, Approved(Latest(PROC)))
                 /\ run'.status = "COMPLETED" /\ run'.request = "COMPLETED"
           /\ ApproveAnalysis(s) =>
                 /\ run.status = Gate(REQ) /\ Revised(REQ, Approved(Latest(REQ)))
                 /\ Dispatched(SEL, NoStage)
<1>0. REQ \in Stages /\ SEL \in Stages /\ PROC \in Stages /\ NoStage \in Stages \cup {NoStage}
  BY DEF Stages
<1>1. ASSUME NEW c \in Stages
      PROVE  Latest(c) \in Row /\ Approved(Latest(c)) \in Row
  BY RowTypes, ApprovedRow
<1>2. CASE ApproveFinal(s)
  <2>1. session[s].pc = "open" /\ session[s].snap = run /\ run.status = Gate(PROC)
    BY <1>2 DEF ApproveFinal, HandInv, SessionHand
  <2>2. rows' = Approve(rows, PROC, Len(rows[PROC]), TRUE)
    BY <1>2, <2>1, SeenIsCurrent DEF ApproveFinal
  <2>3. PICK row \in Row : row = Approved(Latest(PROC))
    BY <1>0, <1>1
  <2>4. rows' = [rows EXCEPT ![PROC][Len(rows[PROC])] = row]
    BY <1>0, <1>1, <2>2, <2>3 DEF Approve, Approved, Latest, Row
  <2>5. Revised(PROC, row)
    BY <1>0, <2>4, RevisedRows
  <2> DEFINE new == [run EXCEPT !.status = "COMPLETED", !.current = PROC,
                                !.rollback = NoStage, !.request = "COMPLETED"]
  <2>6. run \in Run /\ new \in Run /\ new.status = "COMPLETED" /\ new.request = "COMPLETED"
    BY <1>0 DEF IInv, TypeOK, Run, RunStatus, RequestStatus
  <2>7. run' = Merge(run, new)
    BY <1>2, <2>1 DEF ApproveFinal
  <2> HIDE DEF new
  <2>8. run' = new
    BY <2>6, <2>7, MergeCurrent
  <2>9. ~ApproveAnalysis(s)
    BY <1>2 DEF ApproveFinal, ApproveAnalysis, REQ, PROC
  <2> QED
    BY <2>1, <2>3, <2>5, <2>6, <2>8, <2>9
<1>3. CASE ApproveAnalysis(s)
  <2>1. session[s].pc = "open" /\ run.status = Gate(REQ)
    BY <1>3 DEF ApproveAnalysis, HandInv, SessionHand
  <2>2. rows' = [rows EXCEPT ![REQ][Len(rows[REQ])].approved = TRUE,
                             ![REQ][Len(rows[REQ])].busy = rows[REQ][Len(rows[REQ])].busy]
    BY <1>3, <2>1, SeenIsCurrent DEF ApproveAnalysis
  <2>3. PICK row \in Row : row = Approved(Latest(REQ))
    BY <1>0, <1>1
  <2>4. row = [Latest(REQ) EXCEPT !.approved = TRUE, !.busy = Latest(REQ).busy]
    BY <1>0, <1>1, <2>3 DEF Approved, Row
  <2>5. rows' = [rows EXCEPT ![REQ][Len(rows[REQ])] = row]
    BY <1>0, <2>2, <2>4, RowTypes DEF Latest, RowTable
  <2>6. Revised(REQ, row)
    BY <1>0, <2>5, RevisedRows
  <2>7. Dispatched(SEL, NoStage)
    BY <1>0, <1>3, <2>1, DispatchedAnew DEF ApproveAnalysis
  <2>8. ~ApproveFinal(s)
    BY <1>3 DEF ApproveFinal, ApproveAnalysis, REQ, PROC
  <2> QED
    BY <2>1, <2>3, <2>6, <2>7, <2>8
<1> QED
  BY <1>2, <1>3

LEMMA FailedRow ==
    ASSUME NEW row \in Row
    PROVE  LET new == [row EXCEPT !.status = "FAILED"] IN
           /\ new \in Row /\ new.status = "FAILED"
           /\ new.plan = row.plan /\ new.approved = row.approved /\ new.busy = row.busy
BY DEF Row, RowStatus

\* The monitor gives up.
LEMMA GivesUp ==
    ASSUME IInv, HandInv, ExhaustCommit
    PROVE  \E c \in Stages : \E row \in Row :
              /\ c = session[Monitor].stage /\ run.status = "RUNNING"
              /\ Latest(c).status = "RUNNING"
              /\ Revised(c, row) /\ row.status = "FAILED"
              /\ row.plan = Latest(c).plan /\ row.approved = Latest(c).approved
              /\ row.busy = Latest(c).busy
              /\ run'.status = "FAILED" /\ run'.current = c /\ run'.rollback = run.rollback
              /\ run'.request = "FAILED"
<1> DEFINE x == session[Monitor]
<1>1. Monitor \in Sessions /\ x \in Session
  BY DEF Sessions, IInv, TypeOK
<1>2. PICK c \in Stages : c = x.stage
  BY <1>1 DEF Session
<1>3. /\ x.snap = run /\ run.status = "RUNNING" /\ Latest(c).status = "RUNNING"
      /\ x.attempt = Len(rows[c])
  BY <1>1, <1>2 DEF ExhaustCommit, HandInv, SessionHand
<1>4. Latest(c) \in Row
  BY RowTypes
<1>5. PICK row \in Row : /\ row = [Latest(c) EXCEPT !.status = "FAILED"]
                         /\ row.status = "FAILED"
                         /\ row.plan = Latest(c).plan /\ row.approved = Latest(c).approved
                         /\ row.busy = Latest(c).busy
  BY <1>4, FailedRow
<1>6. rows' = [rows EXCEPT ![c][Len(rows[c])] = row]
  BY <1>2, <1>3, <1>5 DEF ExhaustCommit, Latest
<1>7. Revised(c, row)
  BY <1>6, RevisedRows
<1> DEFINE new == [run EXCEPT !.status = "FAILED", !.current = c, !.request = "FAILED"]
<1>8. /\ run \in Run /\ new \in Run
      /\ new.status = "FAILED" /\ new.current = c /\ new.rollback = run.rollback
      /\ new.request = "FAILED"
  BY DEF IInv, TypeOK, Run, RunStatus, RequestStatus
<1>9. run' = Merge(run, new)
  BY <1>2, <1>3 DEF ExhaustCommit
<1> HIDE DEF new
<1>10. run' = new
  BY <1>8, <1>9, MergeCurrent
<1> QED
  BY <1>2, <1>3, <1>5, <1>7, <1>8, <1>10

\* A run whose dispatch failed, or whose task could not be scheduled.
LEMMA FailsToDispatch ==
    ASSUME IInv, HandInv
    PROVE  /\ \A k \in Execs : DispatchFails(k) =>
                 /\ run.status = "QUEUED" /\ UNCHANGED rows
                 /\ run'.status = "FAILED" /\ run'.request = "FAILED"
                 /\ run'.current = DISPATCH /\ run'.rollback = NoStage
           /\ \A s \in Sessions : ScheduleFails(s) =>
                 /\ run.status = "QUEUED" /\ UNCHANGED rows
                 /\ run'.status = "FAILED"
                 /\ run'.current = DISPATCH /\ run'.rollback = run.rollback
<1>1. run \in Run
  BY DEF IInv, TypeOK
<1>2. ASSUME NEW k \in Execs, DispatchFails(k)
      PROVE  /\ run.status = "QUEUED" /\ UNCHANGED rows
             /\ run'.status = "FAILED" /\ run'.request = "FAILED"
             /\ run'.current = DISPATCH /\ run'.rollback = NoStage
  <2> DEFINE new == [run EXCEPT !.status = "FAILED", !.current = DISPATCH,
                                !.rollback = NoStage, !.request = "FAILED"]
  <2>1. task[k].snap = run /\ run.status = "QUEUED" /\ UNCHANGED rows
    BY <1>2 DEF DispatchFails, HandInv, TaskHand
  <2>2. new \in Run /\ new.status = "FAILED" /\ new.request = "FAILED"
        /\ new.current = DISPATCH /\ new.rollback = NoStage
    BY <1>1 DEF Run, RunStatus, RequestStatus
  <2>3. run' = Merge(run, new)
    BY <1>2, <2>1 DEF DispatchFails
  <2> HIDE DEF new
  <2>4. run' = new
    BY <1>1, <2>2, <2>3, MergeCurrent
  <2> QED
    BY <2>1, <2>2, <2>4
<1>3. ASSUME NEW s \in Sessions, ScheduleFails(s)
      PROVE  /\ run.status = "QUEUED" /\ UNCHANGED rows
             /\ run'.status = "FAILED"
             /\ run'.current = DISPATCH /\ run'.rollback = run.rollback
  <2> DEFINE new == [run EXCEPT !.status = "FAILED", !.current = DISPATCH]
  <2>1. session[s].snap = run /\ run.status = "QUEUED" /\ UNCHANGED rows
    BY <1>3 DEF ScheduleFails, HandInv, SessionHand
  <2>2. new \in Run /\ new.status = "FAILED"
        /\ new.current = DISPATCH /\ new.rollback = run.rollback
    BY <1>1 DEF Run, RunStatus
  <2>3. run' = Merge(run, new)
    BY <1>3, <2>1 DEF ScheduleFails
  <2> HIDE DEF new
  <2>4. run' = new
    BY <1>1, <2>2, <2>3, MergeCurrent
  <2> QED
    BY <2>1, <2>2, <2>4
<1> QED
  BY <1>2, <1>3

\* Stage d starts anew: its attempts are rolled back, a new one is PENDING.
Restarted(d) ==
    /\ Len(rows'[d]) = Len(rows[d]) + 1
    /\ \A j \in 1..Len(rows[d]) : rows'[d][j].status = "ROLLED_BACK"
    /\ rows'[d][Len(rows[d]) + 1] = NewRow(Latest(d).plan)
    /\ Latest(d)' = NewRow(Latest(d).plan)

\* A row that is reviewed, and one that gets a plan.
LEMMA ReviewedRow ==
    ASSUME NEW row \in Row, NEW b \in BOOLEAN
    PROVE  LET new == [row EXCEPT !.approved = row.approved \/ b] IN
           /\ new \in Row /\ new.status = row.status
           /\ ~b => new = row
BY DEF Row

LEMMA PlannedRow ==
    ASSUME NEW row \in Row, NEW n \in Nat
    PROVE  LET new == [row EXCEPT !.plan = n] IN
           new \in Row /\ new.status = row.status /\ new.busy = row.busy
BY DEF Row

\* Rejection, retry and automatic recovery.
LEMMA Reopens ==
    ASSUME IInv, HandInv, NEW s \in Sessions, ReopenCommit(s), session[s].op # "recover"
    PROVE  LET t == session[s].target IN
           /\ Dispatched(t, t) /\ t \in Stages
           /\ \A d \in Downstream(t) : Restarted(d)
           /\ \A d \in Stages \ Downstream(t) : rows'[d] = rows[d] /\ Latest(d)' = Latest(d)
           /\ Redispatch(s, Queued(session[s].snap, t, t))
<1>1. PICK x \in Session : x = session[s]
  BY DEF IInv, TypeOK
<1>2. PICK t \in Stages : t = x.target
  BY <1>1 DEF Session
<1>3. x.pc = "open" /\ x.op \in {"reject", "retry", "requeue"} /\ x.stage \in Stages
  BY <1>1 DEF ReopenCommit, Session
<1>4. /\ x.consent \in BOOLEAN
      /\ x.consent => x.stage = t
  BY <1>1, <1>2, <1>3 DEF HandInv, SessionHand, Session
<1>5. /\ rows' = Reopened(Approve(rows, x.stage, Len(rows[x.stage]), x.consent), rows, t)
      /\ Redispatch(s, Queued(x.snap, t, t))
  BY <1>1, <1>2, <1>3, SeenIsCurrent DEF ReopenCommit, Collides
<1>6. Dispatched(t, t)
  BY <1>1, <1>3, <1>5, DispatchedAnew
<1>7. PICK row \in Row : /\ row = [Latest(x.stage) EXCEPT !.approved =
                                                Latest(x.stage).approved \/ x.consent]
                         /\ row.status = Latest(x.stage).status
                         /\ ~x.consent => row = Latest(x.stage)
  <2>1. Latest(x.stage) \in Row
    BY <1>3, RowTypes
  <2> QED
    BY <1>4, <2>1, ReviewedRow
<1> DEFINE appr == [rows EXCEPT ![x.stage][Len(rows[x.stage])] = row]
<1>8. /\ appr \in RowTable
      /\ \A d \in Stages : Len(appr[d]) = Len(rows[d])
      /\ \A d \in Stages : \A j \in 1..Len(rows[d]) :
            appr[d][j] = IF d = x.stage /\ j = Len(rows[x.stage]) THEN row ELSE rows[d][j]
  BY <1>3, LatestRewritten, Zenon
<1>9. Approve(rows, x.stage, Len(rows[x.stage]), x.consent) = appr
  BY <1>7 DEF Approve, Latest
<1>10. rows' = Reopened(appr, rows, t)
  BY <1>5, <1>9
<1>11. \A d \in Stages \ Downstream(t) : appr[d] = rows[d]
  <2>1. t \in Downstream(t)
    BY DEF Downstream, Position
  <2>2. ASSUME NEW d \in Stages \ Downstream(t)
        PROVE  appr[d] = rows[d]
    <3>1. CASE d = x.stage
      <4>1. row = Latest(d)
        BY <1>4, <1>7, <2>1, <3>1
      <4>2. rows[d] \in Seq(Row)
        BY RowTypes DEF RowTable
      <4> QED
        BY <1>3, <3>1, <4>1, <4>2, RowTypes DEF Latest, RowTable
    <3>2. CASE d # x.stage
      BY <3>2
    <3> QED
      BY <3>1, <3>2
  <2> QED
    BY <2>2
<1> HIDE DEF appr
<1>12. rows \in RowTable /\ Populated(rows) /\ ~Collides(rows, t)
  BY RowTypes DEF Populated, Collides
<1> DEFINE new == Reopened(appr, rows, t)
<1>13. /\ \A c \in Stages \ Downstream(t) : new[c] = appr[c]
       /\ \A c \in Downstream(t) :
             /\ Len(new[c]) = Len(appr[c]) + 1
             /\ new[c][Len(appr[c]) + 1] = NewRow(rows[c][Len(rows[c])].plan)
             /\ \A j \in 1..Len(appr[c]) :
                   new[c][j].status = IF rows[c][j].status \in Live
                                      THEN "ROLLED_BACK" ELSE appr[c][j].status
  BY <1>8, <1>12, ReopenedRows
<1> HIDE DEF new
<1>14. rows' = new
  BY <1>10 DEF new
<1>15. ASSUME NEW d \in Stages \ Downstream(t)
       PROVE  rows'[d] = rows[d] /\ Latest(d)' = Latest(d)
  <2>1. rows'[d] = rows[d]
    BY <1>11, <1>13, <1>14
  <2> QED
    BY <2>1 DEF Latest
<1>16. ASSUME NEW d \in Downstream(t)
       PROVE  Restarted(d)
  <2>1. d \in Stages /\ Len(appr[d]) = Len(rows[d])
    BY <1>8 DEF Downstream
  <2>2. ASSUME NEW j \in 1..Len(rows[d])
        PROVE  rows'[d][j].status = "ROLLED_BACK"
    <3>1. rows[d][j].status \in RowStatus
      BY <2>1, RowTypes DEF Row
    <3>2. appr[d][j].status = rows[d][j].status
      BY <1>7, <1>8, <2>1 DEF Latest
    <3> QED
      BY <1>13, <1>14, <2>1, <3>1, <3>2 DEF Live
  <2>3. /\ Len(rows'[d]) = Len(rows[d]) + 1
        /\ rows'[d][Len(rows[d]) + 1] = NewRow(Latest(d).plan)
    BY <1>13, <1>14, <2>1 DEF Latest
  <2> QED
    BY <2>2, <2>3 DEF Restarted, Latest
<1> QED
  BY <1>1, <1>2, <1>5, <1>6, <1>15, <1>16

\* Approval of the selection, if there is an attempt to hand the plan to.
LEMMA ApprovesSelection ==
    ASSUME IInv, HandInv, NEW s \in Sessions, ApproveSelection(s)
    PROVE  /\ run.status = Gate(SEL) /\ session[s].pc = "open"
           /\ \/ Latest(PROC).status # "PENDING" /\ Abandon(s)
              \/ /\ Latest(PROC).status = "PENDING"
                 /\ Redispatch(s, Queued(session[s].snap, PROC, NoStage))
                 /\ Dispatched(PROC, NoStage)
                 /\ \A d \in Stages : Len(rows'[d]) = Len(rows[d])
                 /\ \A d \in Stages : \A j \in 1..Len(rows[d]) :
                       /\ rows'[d][j].status = rows[d][j].status
                       /\ rows'[d][j].busy = rows[d][j].busy
                 /\ Latest(REQ)' = Latest(REQ) /\ Latest(SEL)' = Approved(Latest(SEL))
                 /\ Latest(PROC)' = [Latest(PROC) EXCEPT !.plan = Len(rows[SEL])]
<1>0. REQ \in Stages /\ SEL \in Stages /\ PROC \in Stages /\ NoStage \in Stages \cup {NoStage}
  BY DEF Stages
<1>1. /\ session[s].pc = "open" /\ session[s].snap = run /\ run.status = Gate(SEL)
  BY DEF ApproveSelection, HandInv, SessionHand
<1> DEFINE n == Len(rows[SEL])
           m == Len(rows[PROC])
<1>2. \/ Pending(rows, PROC) = {} /\ Abandon(s)
      \/ /\ Pending(rows, PROC) # {}
         /\ \E p \in Highest(Pending(rows, PROC)) :
               rows' = HandOver(Approve(rows, SEL, n, TRUE), p, n)
         /\ Redispatch(s, Queued(session[s].snap, PROC, NoStage))
  BY <1>1, SeenIsCurrent DEF ApproveSelection
<1>3. CASE Pending(rows, PROC) = {} /\ Abandon(s)
  BY <1>0, <1>1, <1>3, PendingIsNewest
<1>4. CASE /\ Pending(rows, PROC) # {}
           /\ \E p \in Highest(Pending(rows, PROC)) :
                 rows' = HandOver(Approve(rows, SEL, n, TRUE), p, n)
           /\ Redispatch(s, Queued(session[s].snap, PROC, NoStage))
  <2>1. Latest(PROC).status = "PENDING" /\ Pending(rows, PROC) = {m}
    BY <1>0, <1>4, PendingIsNewest
  <2>2. rows' = HandOver(Approve(rows, SEL, n, TRUE), m, n)
    BY <1>4, <2>1 DEF Highest
  <2>3. PICK old \in Row : old = Latest(PROC)
    BY <1>0, RowTypes
  <2>4. PICK r \in Row : /\ r = Approved(Latest(SEL))
                         /\ r.status = Latest(SEL).status /\ r.busy = Latest(SEL).busy
    BY <1>0, RowTypes, ApprovedRow
  <2> DEFINE appr == [rows EXCEPT ![SEL][n] = r]
  <2>5. /\ appr \in RowTable
        /\ \A d \in Stages : Len(appr[d]) = Len(rows[d])
        /\ \A d \in Stages : \A j \in 1..Len(rows[d]) :
              appr[d][j] = IF d = SEL /\ j = n THEN r ELSE rows[d][j]
    BY <1>0, LatestRewritten, Zenon
  <2>6. Approve(rows, SEL, n, TRUE) = appr
    BY <1>0, <2>4, RowTypes DEF Approve, Approved, Latest
  <2> HIDE DEF appr
  <2>7. n \in 1..Len(rows[SEL]) /\ n \in Nat /\ m \in 1..Len(rows[PROC])
    BY <1>0, RowTypes
  <2>8. PROC # SEL /\ PROC # REQ /\ REQ # SEL
    BY DEF REQ, SEL, PROC
  <2>9. appr[PROC][m] = old
    BY <1>0, <2>3, <2>5, <2>7, <2>8 DEF Latest
  <2>10. PICK q \in Row : /\ q = [old EXCEPT !.plan = n]
                          /\ q.status = old.status /\ q.busy = old.busy
    BY <2>7, PlannedRow
  <2> DEFINE new == [appr EXCEPT ![PROC][m] = q]
  <2>11. /\ \A d \in Stages : Len(new[d]) = Len(appr[d])
         /\ \A d \in Stages : \A j \in 1..Len(appr[d]) :
               new[d][j] = IF d = PROC /\ j = m THEN q ELSE appr[d][j]
    <3>1. PICK rs \in RowTable : rs = appr
      BY <2>5
    <3>2. PICK i \in 1..Len(rs[PROC]) : i = m
      BY <1>0, <2>5, <2>7, <3>1
    <3>3. LET put == [rs EXCEPT ![PROC][i] = q] IN
          /\ put \in RowTable
          /\ \A d \in Stages : Len(put[d]) = Len(rs[d])
          /\ \A d \in Stages : \A j \in 1..Len(rs[d]) :
                put[d][j] = IF d = PROC /\ j = i THEN q ELSE rs[d][j]
      <4>1. PROC \in Stages
        BY <1>0
      <4> HIDE DEF n, m, appr, new
      <4> QED
        BY <4>1, PutRow
    <3> QED
      BY <3>1, <3>2, <3>3
  <2>12. rows' = new
    BY <2>2, <2>6, <2>9, <2>10 DEF HandOver
  <2> HIDE DEF new
  <2>13. /\ \A d \in Stages : Len(rows'[d]) = Len(rows[d])
         /\ \A d \in Stages : \A j \in 1..Len(rows[d]) :
               rows'[d][j] = IF d = PROC /\ j = m THEN q
                             ELSE IF d = SEL /\ j = n THEN r ELSE rows[d][j]
    BY <2>5, <2>8, <2>11, <2>12
  <2>14. \A d \in Stages : Len(rows[d]) \in 1..Len(rows[d])
    BY RowTypes
  <2>15. /\ Latest(REQ)' = Latest(REQ) /\ Latest(SEL)' = r /\ Latest(PROC)' = q
    BY <1>0, <2>8, <2>13, <2>14 DEF Latest
  <2>16. \A d \in Stages : \A j \in 1..Len(rows[d]) :
            /\ rows'[d][j].status = rows[d][j].status
            /\ rows'[d][j].busy = rows[d][j].busy
    BY <2>3, <2>4, <2>10, <2>13 DEF Latest
  <2>17. Dispatched(PROC, NoStage)
    BY <1>0, <1>1, <1>4, DispatchedAnew
  <2> QED
    BY <1>1, <1>4, <2>1, <2>3, <2>4, <2>10, <2>13, <2>15, <2>16, <2>17
<1> QED
  BY <1>2, <1>3, <1>4

\* The steps that write to the run or to its rows.
Commit(k) == DispatchCommit(k) \/ StartCommit(k) \/ FinalCommit(k)
             \/ \E b \in BOOLEAN : RuntimeWrite(k, b)
Decision(s) == ReopenCommit(s) \/ ReviewCommit(s)

LEMMA Moves ==
    ASSUME OneAtATime, IInv, HandInv, Next
    PROVE  \/ UNCHANGED <<run, rows>>
           \/ \E k \in Execs : Commit(k) \/ DispatchFails(k)
           \/ \E s \in Sessions : Decision(s) /\ session[s].op # "recover"
           \/ \E s \in Sessions : ScheduleFails(s)
           \/ ExhaustCommit
<1>1. ASSUME NEW k \in Execs, TaskStep(k) \/ RuntimeStep(k)
      PROVE  UNCHANGED <<run, rows>> \/ Commit(k) \/ DispatchFails(k)
  BY <1>1 DEF TaskStep, RuntimeStep, Commit, DispatchRead, StartRead, Invoke, PayloadFails,
     AgentReturns, FinalRead, RuntimeRead, RuntimeEnds
<1>2. ASSUME NEW s \in Sessions, ReopenCommit(s) \/ ReviewCommit(s)
      PROVE  session[s].op # "recover"
  BY <1>2 DEF ReopenCommit, ReviewCommit, ApproveFinal, ApproveAnalysis, ApproveSelection,
     HandInv, Roles
<1>3. CASE StaleRead \/ Crash \/ \E s \in Reviewer : ReviewRead(s) \/ RecoverRead(s)
  BY <1>3 DEF StaleRead, Crash, ReviewRead, RecoverRead
<1> QED
  BY <1>1, <1>2, <1>3 DEF Next, Decision, SessionCommit, Sessions

\* A schedule that fails is the only reason for a transaction to come back.
NoneUnscheduled == \A s \in Sessions : session[s].pc # "unscheduled"

LEMMA SessionsMove ==
    ASSUME IInv, Next, NEW s \in Sessions
    PROVE  session'[s].pc \in {session[s].pc, "idle", "open"} \/ "schedule" \in Env
<1>1. session \in [Sessions -> Session] /\ Reviewer \subseteq Sessions /\ Monitor \in Sessions
  BY DEF IInv, TypeOK, Sessions
<1>2. ASSUME NEW t \in Sessions, session' = [session EXCEPT ![t] = NoSession]
      PROVE  session'[s].pc \in {session[s].pc, "idle"}
  BY <1>1, <1>2 DEF NoSession
<1>3. ASSUME NEW t \in Sessions, NEW op, NEW stage, NEW target, NEW attempt, NEW consent,
             Open(t, op, stage, target, attempt, consent)
      PROVE  session'[s].pc \in {session[s].pc, "open"}
  BY <1>1, <1>3 DEF Open
<1>4. ASSUME NEW t \in Sessions, NEW new, Redispatch(t, new), "schedule" \notin Env
      PROVE  session'[s].pc \in {session[s].pc, "idle"}
  BY <1>2, <1>4 DEF Redispatch
<1>5. CASE \E k \in Execs : TaskStep(k) \/ RuntimeStep(k)
  BY <1>5 DEF TaskStep, RuntimeStep, DispatchRead, DispatchFails, DispatchCommit, StartRead,
     StartCommit, Invoke, PayloadFails, AgentReturns, FinalRead, FinalCommit, RuntimeRead,
     RuntimeEnds, RuntimeWrite
<1>6. ASSUME NEW t \in Sessions, ReviewCommit(t) \/ SessionCommit(t)
      PROVE  session'[s].pc \in {session[s].pc, "idle"} \/ "schedule" \in Env
  BY <1>2, <1>4, <1>6 DEF ReviewCommit, SessionCommit, ReopenCommit, ScheduleFails, ApproveFinal,
     ApproveAnalysis, ApproveSelection, Abandon
<1>7. ASSUME NEW t \in Sessions, ReviewRead(t) \/ RecoverRead(t)
      PROVE  session'[s].pc \in {session[s].pc, "open"}
  BY <1>3, <1>7 DEF ReviewRead, RecoverRead
<1>8. CASE StaleRead
  BY <1>1, <1>3, <1>8 DEF StaleRead
<1>9. CASE ExhaustCommit \/ Crash
  BY <1>1, <1>2, <1>9 DEF ExhaustCommit, Crash, NoSession
<1> QED
  BY <1>1, <1>5, <1>6, <1>7, <1>8, <1>9 DEF Next

LEMMA ClosedStep ==
    ASSUME Scheduling, IInv, HandInv, NoneUnscheduled, ClosedTogether, Next
    PROVE  ClosedTogether' /\ NoneUnscheduled'
<1>1. NoneUnscheduled'
  BY SessionsMove DEF Scheduling, NoneUnscheduled
<1>2. OneAtATime
  BY DEF Scheduling
<1>3. CASE UNCHANGED <<run, rows>>
  BY <1>1, <1>3 DEF ClosedTogether
<1>4. CASE \E k \in Execs : Commit(k)
  <2>1. PICK status : run'.status = status /\ run'.request = RequestAfter(status)
    BY <1>4, Events DEF Commit, EventOf
  <2> QED
    BY <1>1, <2>1 DEF RequestAfter, ClosedTogether
<1>5. CASE \E k \in Execs : DispatchFails(k)
  BY <1>1, <1>5, FailsToDispatch DEF ClosedTogether
<1>6. ASSUME NEW s \in Sessions, Decision(s), session[s].op # "recover"
      PROVE  ClosedTogether'
  <2>1. CASE ReopenCommit(s)
    BY <1>6, <2>1, Reopens DEF Dispatched, ClosedTogether
  <2>2. CASE ApproveFinal(s) \/ ApproveAnalysis(s)
    BY <2>2, ApprovesOne DEF Dispatched, ClosedTogether
  <2>3. CASE ApproveSelection(s)
    BY <2>3, ApprovesSelection DEF Abandon, Dispatched, ClosedTogether
  <2> QED
    BY <1>6, <2>1, <2>2, <2>3 DEF Decision, ReviewCommit
<1>7. ~\E s \in Sessions : ScheduleFails(s)
  BY DEF ScheduleFails, NoneUnscheduled
<1>8. CASE ExhaustCommit
  BY <1>1, <1>8, GivesUp DEF ClosedTogether
<1> QED
  BY <1>1, <1>2, <1>3, <1>4, <1>5, <1>6, <1>7, <1>8, Moves

\* The run and the data request it serves are closed together, by whatever
\* way the run ends, as long as a task that is committed to can be scheduled.
THEOREM ClosesTheRequest ==
    ASSUME Scheduling
    PROVE  Spec => []ClosedTogether
<1>1. Init => NoneUnscheduled /\ ClosedTogether
  BY DEF Scheduling, Init, NoSession, NewRun, NoneUnscheduled, ClosedTogether
<1>2. OneAtATime
  BY DEF Scheduling
<1>3. /\ IInv /\ HandInv /\ NoneUnscheduled /\ ClosedTogether
      /\ [Next]_vars
      => (NoneUnscheduled /\ ClosedTogether)'
  BY ClosedStep DEF vars, NoneUnscheduled, ClosedTogether
<1> QED
  BY <1>1, <1>2, <1>3, WorkedOnByOne, PTL DEF Spec

(***************************************************************************)
(* A process that lives: the run goes on, and a failed stage is tidy       *)
(***************************************************************************)

\* A task that does not end goes on.
LEMMA TaskGoesOn ==
    ASSUME IInv, HandInv, NEW k \in Execs, TaskStep(k) \/ RuntimeStep(k)
    PROVE  \/ Alive(k)'
           \/ PayloadFails(k) \/ DispatchFails(k) \/ FinalCommit(k)
<1>1. task \in [Execs -> Task] /\ task[k] \in Task
  BY DEF IInv, TypeOK
<1>2. task[k].pc \in {"claimed", "returned"} => task[k].exec = run.exec
  BY DEF HandInv, TaskHand
<1>3. runtime[k].pc # "off" => Alive(k)
  BY DEF HandInv, RuntimeHand, Alive
<1>4. CASE UNCHANGED task /\ RuntimeStep(k)
  BY <1>3, <1>4 DEF RuntimeStep, RuntimeRead, RuntimeWrite, RuntimeEnds, Alive
<1>5. ASSUME NEW pc \in {"dispatching", "claimed", "starting", "started", "invoking", "returned",
                         "finishing"},
             task'[k].pc = pc
      PROVE  Alive(k)'
  BY <1>5 DEF Alive
<1>6. CASE DispatchRead(k) \/ DispatchCommit(k)
  BY <1>1, <1>5, <1>6 DEF DispatchRead, DispatchCommit, Task
<1>7. CASE StartRead(k) \/ StartCommit(k)
  <2>1. CASE StartCommit(k)
    BY <1>1, <1>5, <2>1 DEF StartCommit, Task
  <2>2. CASE StartRead(k)
    <3>1. PICK pc \in {"starting", "started"} : \E snap, plan :
             task' = [task EXCEPT ![k] = [task[k] EXCEPT !.pc = pc, !.snap = snap, !.plan = plan]]
      BY <2>2 DEF StartRead
    <3>2. task'[k].pc = pc
      BY <1>1, <3>1 DEF Task
    <3> QED
      BY <1>5, <3>2
  <2> QED
    BY <1>7, <2>1, <2>2
<1>8. CASE Invoke(k) \/ AgentReturns(k) \/ FinalRead(k)
  BY <1>1, <1>2, <1>5, <1>8 DEF Invoke, AgentReturns, FinalRead, Task
<1> QED
  BY <1>4, <1>6, <1>7, <1>8 DEF TaskStep, RuntimeStep, RuntimeRead, RuntimeWrite, RuntimeEnds

\* Whoever ends a transaction schedules a task, or settles the run.
LEMMA DecisionGoesOn ==
    ASSUME IInv, HandInv, NEW s \in Sessions, Decision(s) \/ ScheduleFails(s),
           session[s].op # "recover"
    PROVE  \/ run'.status \notin {"QUEUED", "RUNNING"}
           \/ \E k \in Execs : Alive(k)'
           \/ session'[s].pc # "idle"
<1>1. session \in [Sessions -> Session] /\ task \in [Execs -> Task]
  BY DEF IInv, TypeOK
<1>2. ASSUME NEW target \in Stages, NEW rollback \in Stages \cup {NoStage},
             session[s].pc = "open", Redispatch(s, Queued(session[s].snap, target, rollback))
      PROVE  (\E k \in Execs : Alive(k)') \/ session'[s].pc # "idle"
  <2>1. lastExec + 1 \in Execs
    BY <1>2, Reissued DEF HandInv, SessionHand
  <2>2. CASE task' = [task EXCEPT ![lastExec + 1] = Scheduled]
    <3>1. task'[lastExec + 1].pc = "scheduled"
      BY <1>1, <2>1, <2>2 DEF Scheduled, NoTask
    <3> QED
      BY <2>1, <3>1 DEF Alive
  <2>3. CASE ~(task' = [task EXCEPT ![lastExec + 1] = Scheduled])
    <3>1. \A snap : [NoSession EXCEPT !.pc = "unscheduled", !.snap = snap].pc = "unscheduled"
      BY DEF NoSession
    <3>2. \E snap : session'[s] = [NoSession EXCEPT !.pc = "unscheduled", !.snap = snap]
      BY <1>1, <1>2, <2>3 DEF Redispatch
    <3> QED
      BY <3>1, <3>2
  <2> QED
    BY <2>2, <2>3
<1>3. /\ SEL \in Stages /\ PROC \in Stages /\ NoStage \in Stages \cup {NoStage}
      /\ session[s].target \in Stages /\ session[s].target \in Stages \cup {NoStage}
  BY <1>1 DEF Stages, Session
<1>4. CASE ReopenCommit(s)
  BY <1>2, <1>3, <1>4, Reopens DEF ReopenCommit
<1>5. CASE ApproveAnalysis(s)
  BY <1>2, <1>3, <1>5 DEF ApproveAnalysis
<1>6. CASE ApproveFinal(s)
  BY <1>6, ApprovesOne
<1>7. CASE ApproveSelection(s)
  BY <1>2, <1>3, <1>7, ApprovesSelection, GatesApart DEF Abandon
<1>8. CASE ScheduleFails(s)
  BY <1>8, FailsToDispatch
<1> QED
  BY <1>4, <1>5, <1>6, <1>7, <1>8 DEF Decision, ReviewCommit

LEMMA NoLimboStep ==
    ASSUME Unbroken, IInv, HandInv, NoLimbo, Next
    PROVE  NoLimbo'
<1>1. OneAtATime
  BY DEF Unbroken
<1>2. ASSUME NEW k \in Execs, Alive(k)'
      PROVE  NoLimbo'
  BY <1>2 DEF Alive, NoLimbo, Working
<1>3. ASSUME run'.status \notin {"QUEUED", "RUNNING"}
      PROVE  NoLimbo'
  BY <1>3 DEF NoLimbo
<1>4. ASSUME NEW s \in Sessions, session'[s].pc # "idle"
      PROVE  NoLimbo'
  BY <1>4 DEF NoLimbo
<1>5. ASSUME NEW k \in Execs, TaskStep(k) \/ RuntimeStep(k)
      PROVE  NoLimbo'
  <2>1. CASE DispatchFails(k)
    BY <1>3, <2>1, FailsToDispatch
  <2>2. CASE FinalCommit(k)
    <3>1. task[k].pc = "finishing"
      BY <2>2 DEF FinalCommit
    <3>2. PICK c \in Stages : run'.status = Gate(c) \/ run'.status = "FAILED"
      BY <2>2, <3>1, Events DEF EventOf
    <3> QED
      BY <1>3, <3>2, GatesApart
  <2>3. CASE PayloadFails(k)
    <3>1. PICK c \in Stages : c = task[k].stage
      BY <2>3 DEF PayloadFails, IInv, Located, AtWork
    <3>2. run.status = "RUNNING" /\ Latest(c).status = "RUNNING" /\ UNCHANGED <<run, rows>>
      BY <2>3, <3>1 DEF PayloadFails, HandInv, TaskHand
    <3>3. Len(rows[c]) \in Running(c)
      BY <3>2, RowTypes DEF Running, Latest
    <3>4. ~NoneRunning
      BY <3>3 DEF NoneRunning
    <3>5. ~NoneRunning'
      BY <3>2, <3>4 DEF NoneRunning, Running
    <3> QED
      BY <3>2, <3>5 DEF NoLimbo
  <2> QED
    BY <1>2, <1>5, <2>1, <2>2, <2>3, TaskGoesOn
<1>6. ASSUME NEW s \in Sessions, ReviewCommit(s) \/ SessionCommit(s)
      PROVE  NoLimbo'
  <2>1. session[s].op # "recover" \/ ScheduleFails(s)
    BY <1>6 DEF ReviewCommit, SessionCommit, ReopenCommit, ApproveFinal, ApproveAnalysis,
       ApproveSelection, HandInv, Roles
  <2>2. CASE ScheduleFails(s)
    BY <1>3, <2>2, FailsToDispatch
  <2> QED
    BY <1>2, <1>3, <1>4, <1>6, <2>1, <2>2, DecisionGoesOn DEF Decision, SessionCommit
<1>7. ASSUME NEW s \in Sessions, NEW op, NEW stage, NEW target, NEW attempt, NEW consent,
             Open(s, op, stage, target, attempt, consent)
      PROVE  NoLimbo'
  <2>1. session'[s].pc = "open"
    BY <1>7 DEF Open, IInv, TypeOK
  <2> QED
    BY <1>4, <2>1
<1>8. ASSUME NEW s \in Reviewer, ReviewRead(s)
      PROVE  NoLimbo'
  BY <1>7, <1>8 DEF ReviewRead, Sessions
<1>9. CASE StaleRead
  BY <1>7, <1>9 DEF StaleRead, Sessions
<1>10. CASE ExhaustCommit
  BY <1>3, <1>10, GivesUp
<1>11. ~Crash /\ \A s \in Reviewer : ~RecoverRead(s)
  BY DEF Unbroken, OneAtATime, Crash, RecoverRead
<1> QED
  BY <1>5, <1>6, <1>8, <1>9, <1>10, <1>11 DEF Next, Sessions

\* While the process lives, a run that is QUEUED or RUNNING is worked on, or
\* shows the monitor that it is not: none is stuck without an administrator,
\* whichever event, schedule or result fails.
THEOREM NoRunIsStuck ==
    ASSUME Unbroken
    PROVE  Spec => []NoLimbo
<1>1. OneAtATime
  BY DEF Unbroken
<1>2. Init => NoLimbo
  <2>1. 1 \in Execs /\ Scheduled.pc = "scheduled"
    BY ExecBound DEF Execs, Scheduled, NoTask
  <2>2. Init => run.status = "FAILED" \/ task[1] = Scheduled
    BY <2>1 DEF Init, NewRun
  <2>3. task[1] = Scheduled => Working
    BY <2>1 DEF Working
  <2> QED
    BY <2>2, <2>3 DEF NoLimbo
<1>3. IInv /\ HandInv /\ NoLimbo /\ [Next]_vars => NoLimbo'
  <2>1. ASSUME NoLimbo, UNCHANGED vars
        PROVE  NoLimbo'
    BY <2>1 DEF NoLimbo, Working, NoneRunning, Running, vars
  <2> QED
    BY <2>1, NoLimboStep
<1> QED
  BY <1>1, <1>2, <1>3, WorkedOnByOne, PTL DEF Spec

\* A sub-step is shown as RUNNING only while the agent of the stage is at work,
\* and ever after in a checklist that nobody sweeps.
BusyIsWorkedOn ==
    \A c \in Stages : \A i \in 1..Len(rows[c]) : rows[c][i].busy =>
       \/ rows[c][i].status \in {"COMPLETED", "ROLLED_BACK"}
       \/ /\ rows[c][i].status = "RUNNING"
          /\ \E k \in Execs : /\ task[k].pc \in {"invoking", "returned", "finishing"}
                              /\ task[k].stage = c

\* While nobody works on stage c no live attempt of it is busy.
LEMMA NobodyIsBusy ==
    ASSUME BusyIsWorkedOn, NEW c \in Stages, NEW i \in 1..Len(rows[c]),
           \A k \in Execs : task[k].pc \in {"invoking", "returned", "finishing"}
                               => task[k].stage # c
    PROVE  rows[c][i].busy => rows[c][i].status \in {"COMPLETED", "ROLLED_BACK"}
BY DEF BusyIsWorkedOn

LEMMA TaskKeepsWorking ==
    ASSUME Unbroken, IInv, HandInv, Next, UNCHANGED rows, NEW k \in Execs,
           task[k].pc \in {"invoking", "returned", "finishing"}
    PROVE  task'[k].pc \in {"invoking", "returned", "finishing"} /\ task'[k].stage = task[k].stage
<1>1. task \in [Execs -> Task] /\ task[k] \in Task
  BY DEF IInv, TypeOK
<1>2. Alive(k) /\ task[k].exec = run.exec
  BY DEF Alive, HandInv, TaskHand
<1>3. /\ \A j \in Execs \ {k} : ~Alive(j) /\ runtime[j].pc = "off"
      /\ \A s \in Sessions : session[s].pc = "idle"
  BY <1>2, OnlyTask
<1>4. ~Crash /\ ~(\E s \in Reviewer : RecoverRead(s)) /\ ~ExhaustCommit
      /\ ~(\E s \in Sessions : ReviewCommit(s) \/ SessionCommit(s))
  BY <1>3 DEF Unbroken, OneAtATime, Crash, RecoverRead, ExhaustCommit, ReviewCommit,
     SessionCommit, ReopenCommit, ScheduleFails, ApproveFinal, ApproveAnalysis,
     ApproveSelection, Sessions
<1>5. ASSUME NEW j \in Execs \ {k}
      PROVE  ~TaskStep(j) /\ ~RuntimeStep(j)
  BY <1>3 DEF Alive, TaskStep, DispatchRead, DispatchFails, DispatchCommit, StartRead, StartCommit,
     Invoke, PayloadFails, AgentReturns, FinalRead, FinalCommit, RuntimeStep, RuntimeRead,
     RuntimeEnds, RuntimeWrite
<1>6. CASE UNCHANGED task
  BY <1>6
<1>7. CASE AgentReturns(k)
  BY <1>1, <1>7 DEF AgentReturns, Task
<1>8. CASE FinalRead(k)
  BY <1>1, <1>2, <1>8 DEF FinalRead, Task
<1>9. ~FinalCommit(k)
  <2>1. ASSUME FinalCommit(k)
        PROVE  FALSE
    <3>1. PICK c \in Stages, status \in RunStatus, rollback \in Stages \cup {NoStage}, row \in Row :
             EventOf(k, c, status, rollback, row)
      BY <2>1, Events
    <3>2. /\ Latest(c).status = "RUNNING" /\ row.status \in {"COMPLETED", "FAILED"}
          /\ Latest(c)' = row
      BY <2>1, <3>1 DEF EventOf, FinalCommit, Revised
    <3>3. Latest(c)' = Latest(c)
      BY DEF Latest
    <3> QED
      BY <3>2, <3>3
  <2> QED
    BY <2>1
<1>10. TaskStep(k) => UNCHANGED task \/ AgentReturns(k) \/ FinalRead(k)
  BY <1>9 DEF TaskStep, DispatchRead, DispatchFails, DispatchCommit, StartRead, StartCommit,
     Invoke, PayloadFails
<1>11. RuntimeStep(k) \/ StaleRead \/ (\E s \in Reviewer : ReviewRead(s)) => UNCHANGED task
  BY DEF RuntimeStep, RuntimeRead, RuntimeEnds, RuntimeWrite, StaleRead, ReviewRead
<1> QED
  BY <1>4, <1>5, <1>6, <1>7, <1>8, <1>10, <1>11 DEF Next, Sessions

\* A commit of task k or its Runtime keeps what is busy in order.
LEMMA SweptByTask ==
    ASSUME IInv, HandInv, BusyIsWorkedOn, NEW k \in Execs, Commit(k)
    PROVE  BusyIsWorkedOn'
<1>1. PICK c \in Stages, status \in RunStatus, rollback \in Stages \cup {NoStage}, row \in Row :
         EventOf(k, c, status, rollback, row)
  BY Events DEF Commit
<1>2. Alive(k) /\ c = task[k].stage
  BY <1>1 DEF EventOf, Alive
<1>3. \A j \in Execs \ {k} : ~Alive(j)
  BY <1>2, OnlyTask
<1>4. ASSUME NEW d \in Stages \ {c}, NEW i \in 1..Len(rows[d])
      PROVE  rows[d][i].busy => rows[d][i].status \in {"COMPLETED", "ROLLED_BACK"}
  BY <1>2, <1>3, NobodyIsBusy DEF Alive
<1>5. ASSUME NEW i \in 1..Len(rows[c]), i # Len(rows[c])
      PROVE  rows[c][i].busy => rows[c][i].status \in {"COMPLETED", "ROLLED_BACK"}
  <2>1. rows[c][i].status \in {"ROLLED_BACK", "FAILED"}
    BY <1>5, RowTypes DEF IInv, SupersededIsDead
  <2> QED
    BY <2>1 DEF BusyIsWorkedOn
<1>6. /\ \A d \in Stages : Len(rows'[d]) = Len(rows[d])
      /\ \A d \in Stages : \A j \in 1..Len(rows[d]) :
            rows'[d][j] = IF d = c /\ j = Len(rows[c]) THEN row ELSE rows[d][j]
  BY <1>1 DEF EventOf, Revised
<1>7. \/ row.busy => row.status \in {"COMPLETED", "ROLLED_BACK"}
      \/ /\ row.status = "RUNNING" /\ task'[k].pc = "invoking" /\ task'[k].stage = c
  <2>1. CASE task[k].pc \in {"dispatching", "starting"}
    <3>1. row.busy = Latest(c).busy /\ Latest(c).status = "PENDING"
      BY <1>1, <2>1 DEF EventOf
    <3>2. Len(rows[c]) \in 1..Len(rows[c])
      BY RowTypes
    <3> QED
      BY <3>1, <3>2 DEF BusyIsWorkedOn, Latest
  <2>2. CASE task[k].pc = "invoking"
    <3>1. UNCHANGED task
      BY <2>2 DEF Commit, DispatchCommit, StartCommit, FinalCommit, RuntimeWrite
    <3> QED
      BY <1>1, <1>2, <2>2, <3>1 DEF EventOf
  <2>3. CASE task[k].pc = "finishing"
    BY <1>1, <2>3 DEF EventOf
  <2> QED
    BY <1>1, <2>1, <2>2, <2>3 DEF EventOf
<1> QED
  BY <1>4, <1>5, <1>6, <1>7 DEF BusyIsWorkedOn

\* A transaction that commits finds no live attempt busy.
LEMMA SweptByDecision ==
    ASSUME IInv, HandInv, BusyIsWorkedOn, NEW s \in Sessions,
           (Decision(s) /\ session[s].op # "recover") \/ (ExhaustCommit /\ s = Monitor)
    PROVE  BusyIsWorkedOn'
<1>1. Busy(s)
  BY DEF Busy, Decision, ReopenCommit, ReviewCommit, ApproveFinal, ApproveAnalysis,
     ApproveSelection, ExhaustCommit
<1>2. \A k \in Execs : ~Alive(k)
  BY <1>1, OnlySession
<1>3. ASSUME NEW d \in Stages, NEW i \in 1..Len(rows[d])
      PROVE  rows[d][i].busy => rows[d][i].status \in {"COMPLETED", "ROLLED_BACK"}
  BY <1>2, NobodyIsBusy DEF Alive
<1>4. \A d \in Stages : Len(rows[d]) \in Nat \ {0}
  BY RowTypes
<1>5. ASSUME NEW c \in Stages, NEW row, Revised(c, row), row.busy = Latest(c).busy,
             row.status = Latest(c).status
                \/ Latest(c).status \notin {"COMPLETED", "ROLLED_BACK"}
      PROVE  BusyIsWorkedOn'
  <2>1. Latest(c).busy => Latest(c).status \in {"COMPLETED", "ROLLED_BACK"}
    <3>1. Len(rows[c]) \in 1..Len(rows[c])
      BY <1>4
    <3> QED
      BY <1>3, <3>1 DEF Latest
  <2> QED
    BY <1>3, <1>5, <2>1 DEF BusyIsWorkedOn, Revised
<1>6. CASE ReopenCommit(s) /\ session[s].op # "recover"
  <2>1. PICK t \in Stages : /\ \A d \in Downstream(t) : Restarted(d)
                            /\ \A d \in Stages \ Downstream(t) : rows'[d] = rows[d]
    BY <1>6, Reopens
  <2>2. \A p : ~NewRow(p).busy
    BY DEF NewRow
  <2>3. ASSUME NEW d \in Stages, NEW i \in 1..Len(rows'[d])
        PROVE  rows'[d][i].busy => rows'[d][i].status \in {"COMPLETED", "ROLLED_BACK"}
    <3>1. CASE d \in Downstream(t)
      <4>1. i \in 1..Len(rows[d]) \/ i = Len(rows[d]) + 1
        BY <1>4, <2>1, <3>1 DEF Restarted
      <4> QED
        BY <2>1, <2>2, <3>1, <4>1 DEF Restarted
    <3>2. CASE d \notin Downstream(t)
      BY <1>3, <2>1, <3>2
    <3> QED
      BY <3>1, <3>2
  <2> QED
    BY <2>3 DEF BusyIsWorkedOn
<1>7. CASE ApproveFinal(s) \/ ApproveAnalysis(s)
  <2>1. PICK c \in Stages : Revised(c, Approved(Latest(c)))
    BY <1>7, ApprovesOne DEF Stages
  <2>2. PICK row : /\ row = Approved(Latest(c)) /\ row.busy = Latest(c).busy
                   /\ row.status = Latest(c).status
    BY RowTypes, ApprovedRow
  <2> QED
    BY <1>5, <2>1, <2>2
<1>8. CASE ApproveSelection(s)
  <2>1. CASE Abandon(s)
    BY <1>3, <2>1 DEF Abandon, BusyIsWorkedOn
  <2>2. CASE ~Abandon(s)
    BY <1>3, <1>8, <2>2, ApprovesSelection DEF BusyIsWorkedOn
  <2> QED
    BY <2>1, <2>2
<1>9. CASE ExhaustCommit
  <2>1. PICK c \in Stages, row \in Row : /\ Revised(c, row) /\ row.busy = Latest(c).busy
                                         /\ Latest(c).status = "RUNNING"
    BY <1>9, GivesUp
  <2> QED
    BY <1>5, <2>1
<1> QED
  BY <1>6, <1>7, <1>8, <1>9 DEF Decision, ReviewCommit

LEMMA SweptStep ==
    ASSUME Unbroken, IInv, HandInv, BusyIsWorkedOn, Next
    PROVE  BusyIsWorkedOn'
<1>1. CASE UNCHANGED rows
  <2>1. ASSUME NEW c \in Stages, NEW k \in Execs,
               task[k].pc \in {"invoking", "returned", "finishing"}, task[k].stage = c
        PROVE  \E j \in Execs : task'[j].pc \in {"invoking", "returned", "finishing"}
                                /\ task'[j].stage = c
    BY <1>1, <2>1, TaskKeepsWorking
  <2> QED
    BY <1>1, <2>1 DEF BusyIsWorkedOn
<1>2. CASE \E k \in Execs : Commit(k)
  BY <1>2, SweptByTask
<1>3. CASE \E s \in Sessions : Decision(s) /\ session[s].op # "recover"
  BY <1>3, SweptByDecision
<1>4. CASE ExhaustCommit
  BY <1>4, SweptByDecision DEF Sessions
<1>5. ASSUME (\E k \in Execs : DispatchFails(k)) \/ \E s \in Sessions : ScheduleFails(s)
      PROVE  UNCHANGED rows
  BY <1>5 DEF DispatchFails, ScheduleFails
<1>6. OneAtATime
  BY DEF Unbroken
<1> QED
  BY <1>1, <1>2, <1>3, <1>4, <1>5, <1>6, Moves

\* A stage that failed shows no sub-step as RUNNING, in any of its attempts: as
\* long as the process lives, none can fail while its checklist is being
\* written.
THEOREM FailedStagesAreSwept ==
    ASSUME Unbroken
    PROVE  Spec => []FailedStageIsSwept
<1>1. OneAtATime
  BY DEF Unbroken
<1>2. Init => BusyIsWorkedOn
  <2>1. ~NewRow(0).busy
    BY DEF NewRow
  <2>2. Init => \A c \in Stages : rows[c] = <<NewRow(0)>> /\ Len(rows[c]) = 1
    BY NewRowTypes DEF Init
  <2> QED
    BY <2>1, <2>2 DEF BusyIsWorkedOn
<1>3. IInv /\ HandInv /\ BusyIsWorkedOn /\ [Next]_vars => BusyIsWorkedOn'
  BY SweptStep DEF BusyIsWorkedOn, vars
<1>4. BusyIsWorkedOn => FailedStageIsSwept
  BY DEF BusyIsWorkedOn, FailedStageIsSwept
<1> QED
  BY <1>1, <1>2, <1>3, <1>4, WorkedOnByOne, PTL DEF Spec
=============================================================================
