------------------------- MODULE PipelineGateProofs -------------------------
(***************************************************************************)
(* Theorems about the human gates of a run that is worked on by one at a   *)
(* time and whose reviewer never sends it ahead: no stage starts before    *)
(* every earlier one is approved, and the run implements GatedRun.         *)
(***************************************************************************)
EXTENDS PipelineTurnProofs, PipelineRefinement, FiniteSetTheorems

\* A rejection names no failure that would send the run past a gate that is
\* still to come (the finding skipped_gate shows what happens if it does).
Orderly ==
    /\ OneAtATime
    /\ \A code \in ReviewFailure : RollbackTarget(code) = REQ

(***************************************************************************)
(* The turn of a stage: the invariant                                      *)
(***************************************************************************)

\* Everything before stage c is completed and approved, nothing after it has
\* begun, and processing has the plan of the newest selection.
Front(c) ==
    /\ \A d \in Stages : Position(d) < Position(c) =>
          Latest(d).status = "COMPLETED" /\ Latest(d).approved
    /\ \A d \in Stages : Position(d) > Position(c) =>
          Latest(d).status = "PENDING" /\ ~Latest(d).approved
    /\ c = PROC => Latest(PROC).plan = Len(rows[SEL])

NotAhead(d, c) == Position(d) <= Position(c)

\* What the status of the run says about stage c.
Stands(c) ==
    /\ Latest(c).approved <=> run.status = "COMPLETED"
    /\ run.status = "QUEUED" => Latest(c).status = "PENDING" /\ run.rollback \in {c, NoStage}
    /\ run.status = "RUNNING" =>
          Latest(c).status \in {"PENDING", "RUNNING"} /\ run.rollback = NoStage
    /\ run.status = "FAILED" =>
          /\ Latest(c).status \in {"PENDING", "FAILED"}
          /\ run.rollback \in Stages => NotAhead(run.rollback, c)
          /\ run.rollback = NoStage /\ run.current \in Stages => NotAhead(run.current, c)
    /\ \A g \in Stages : run.status = Gate(g) => g = c /\ Latest(c).status = "COMPLETED"
    /\ run.status = "COMPLETED" => c = PROC /\ Latest(c).status = "COMPLETED"

\* A task works on stage c, and fails as an agent of that stage can.
TasksAt(c) ==
    \A k \in Execs :
       /\ task[k].pc \notin {"idle", "done", "scheduled"} => task[k].stage = c
       /\ task[k].pc \in {"returned", "finishing"} =>
             task[k].verdict \in {"PASSED"} \cup StageFailure(c)

\* No transaction is about to send the run ahead.
SessionsAt(c) ==
    \A s \in Sessions : session[s].pc = "open" => NotAhead(session[s].target, c)

TurnOf(c) == Front(c) /\ Stands(c) /\ TasksAt(c) /\ SessionsAt(c)

\* It is the turn of some stage.
TurnInv == \E c \in Stages : TurnOf(c)

LEMMA StageOrder ==
    /\ REQ \in Stages /\ SEL \in Stages /\ PROC \in Stages
    /\ Position(REQ) = 1 /\ Position(SEL) = 2 /\ Position(PROC) = 3
    /\ REQ # SEL /\ SEL # PROC /\ REQ # PROC
    /\ \A c \in Stages : Position(c) \in 1..3
    /\ \A c, d \in Stages : Position(c) = Position(d) => c = d
    /\ DISPATCH \notin Stages /\ NoStage \notin Stages
    /\ \A c \in Stages : c \in {REQ, SEL, PROC}
BY DEF Stages, Position, REQ, SEL, PROC, DISPATCH, NoStage

\* The stage whose turn it is, is the one that is claimed.
LEMMA ClaimsTheTurn ==
    ASSUME IInv, NEW c \in Stages, Front(c), Stands(c), run.status = "QUEUED"
    PROVE  Claim = c
<1>1. Latest(c).status = "PENDING" /\ run.rollback \in {c, NoStage}
  BY DEF Stands
<1>2. ASSUME NEW d \in Stages
      PROVE  /\ Position(d) < Position(c) => Latest(d).status = "COMPLETED"
             /\ Position(d) >= Position(c) => Latest(d).status = "PENDING"
  BY <1>1, StageOrder DEF Front
<1>3. ASSUME NEW d \in Stages
      PROVE  Running(d) = {}
  BY <1>2, RunningIsNewest, StageOrder
<1>4. NoneRunning
  BY <1>3 DEF NoneRunning
<1>5. ASSUME NEW d \in Stages
      PROVE  /\ Position(d) < Position(c) => Pending(rows, d) = {}
             /\ Pending(rows, c) # {}
  BY <1>1, <1>2, PendingIsNewest
<1> QED
  BY <1>1, <1>4, <1>5, StageOrder DEF Claim

(***************************************************************************)
(* The steps that leave the turn where it is                               *)
(***************************************************************************)

LEMMA SameTurn ==
    ASSUME NEW c \in Stages, Front(c), Stands(c), UNCHANGED <<run, rows>>
    PROVE  Front(c)' /\ Stands(c)'
BY DEF Front, Stands, Latest

\* Steps of a task that commit nothing.
LEMMA TurnTaskStep ==
    ASSUME IInv, HandInv, NEW c \in Stages, TurnOf(c), NEW k \in Execs,
           TaskStep(k) \/ RuntimeStep(k), UNCHANGED <<run, rows>>
    PROVE  TurnOf(c)'
<1>1. task \in [Execs -> Task] /\ task[k] \in Task
  BY DEF IInv, TypeOK
<1>2. Front(c)' /\ Stands(c)'
  BY SameTurn DEF TurnOf
<1>3. UNCHANGED session
  BY DEF TaskStep, RuntimeStep, DispatchRead, DispatchFails, DispatchCommit, StartRead,
     StartCommit, Invoke, PayloadFails, AgentReturns, FinalRead, FinalCommit, RuntimeRead,
     RuntimeEnds, RuntimeWrite
<1>4. SessionsAt(c)'
  BY <1>3 DEF SessionsAt, TurnOf
<1>5. \A j \in Execs \ {k} : task'[j] = task[j]
  BY <1>1 DEF TaskStep, RuntimeStep, DispatchRead, DispatchFails, DispatchCommit, StartRead,
     StartCommit, Invoke, PayloadFails, AgentReturns, FinalRead, FinalCommit, RuntimeRead,
     RuntimeEnds, RuntimeWrite
<1>6. /\ task'[k].pc \notin {"idle", "done", "scheduled"} => task'[k].stage = c
      /\ task'[k].pc \in {"returned", "finishing"} =>
            task'[k].verdict \in {"PASSED"} \cup StageFailure(c)
  <2>0. /\ task[k].pc \notin {"idle", "done", "scheduled"} => task[k].stage = c
        /\ task[k].pc \in {"returned", "finishing"} =>
              task[k].verdict \in {"PASSED"} \cup StageFailure(c)
    BY DEF TurnOf, TasksAt
  <2>1. CASE UNCHANGED task
    BY <2>0, <2>1
  <2>2. CASE DispatchRead(k)
    <3>1. run.status = "QUEUED"
      BY <2>2 DEF DispatchRead, HandInv, TaskHand
    <3>2. Claim = c
      BY <3>1, ClaimsTheTurn DEF TurnOf
    <3>3. task'[k].pc = "dispatching" /\ task'[k].stage = Claim
      BY <1>1, <2>2 DEF DispatchRead, Task
    <3> QED
      BY <3>2, <3>3
  <2>3. CASE task' = [task EXCEPT ![k] = Finished]
    BY <1>1, <2>3 DEF Finished, NoTask
  <2>4. CASE DispatchCommit(k) \/ StartCommit(k) \/ Invoke(k)
    <3>1. /\ task'[k].pc \in {"claimed", "started", "invoking"}
          /\ task'[k].stage = task[k].stage /\ task[k].pc \notin {"idle", "done", "scheduled"}
      BY <1>1, <2>4 DEF DispatchCommit, StartCommit, Invoke, Task
    <3> QED
      BY <2>0, <3>1
  <2>5. CASE StartRead(k)
    <3>1. PICK pc \in {"starting", "started"} : \E snap, plan :
             task' = [task EXCEPT ![k] = [task[k] EXCEPT !.pc = pc, !.snap = snap, !.plan = plan]]
      BY <2>5 DEF StartRead
    <3>2. task'[k].pc = pc /\ task'[k].stage = task[k].stage
      BY <1>1, <3>1 DEF Task
    <3> QED
      BY <2>0, <2>5, <3>2 DEF StartRead
  <2>6. CASE AgentReturns(k)
    <3>1. PICK v \in {"PASSED"} \cup StageFailure(task[k].stage) :
             task' = [task EXCEPT ![k].pc = "returned", ![k].verdict = v]
      BY <2>6 DEF AgentReturns
    <3>2. task'[k].pc = "returned" /\ task'[k].stage = task[k].stage /\ task'[k].verdict = v
      BY <1>1, <3>1 DEF Task
    <3> QED
      BY <2>0, <2>6, <3>1, <3>2 DEF AgentReturns
  <2>7. CASE FinalRead(k) /\ run.exec = task[k].exec
    <3>1. /\ task'[k].pc = "finishing" /\ task'[k].stage = task[k].stage
          /\ task'[k].verdict = task[k].verdict
      BY <1>1, <2>7 DEF FinalRead, Task
    <3> QED
      BY <2>0, <2>7, <3>1 DEF FinalRead
  <2> QED
    BY <2>1, <2>2, <2>3, <2>4, <2>5, <2>6, <2>7 DEF TaskStep, RuntimeStep, DispatchFails,
       PayloadFails, FinalRead, FinalCommit, RuntimeRead, RuntimeEnds, RuntimeWrite
<1>7. TasksAt(c)'
  BY <1>5, <1>6 DEF TasksAt, TurnOf
<1> QED
  BY <1>2, <1>4, <1>7 DEF TurnOf

\* Nothing is found to dispatch: it does not happen.
LEMMA AlwaysDispatches ==
    ASSUME NEW c \in Stages, TurnOf(c), NEW k \in Execs
    PROVE  ~DispatchFails(k)
BY StageOrder DEF DispatchFails, TurnOf, TasksAt

\* A failure of stage c sends the run back to c or to an earlier stage.
LEMMA FailureGoesBack ==
    ASSUME NEW c \in Stages, NEW v \in StageFailure(c)
    PROVE  FailureRollback(c, v) \in Stages /\ NotAhead(FailureRollback(c, v), c)
<1>1. CASE c = REQ
  BY <1>1, StageOrder DEF StageFailure, FailureRollback, RollbackTarget, NotAhead, UNAVAILABLE,
     SelectionFault, ProcessingFault
<1>2. CASE c = SEL
  BY <1>2, StageOrder DEF StageFailure, FailureRollback, RollbackTarget, NotAhead, UNAVAILABLE,
     SelectionFault, ProcessingFault
<1>3. CASE c = PROC
  <2>1. FailureRollback(c, v) \in Stages
    BY <1>3, StageOrder DEF FailureRollback, RollbackTarget
  <2> QED
    BY <1>3, <2>1, StageOrder DEF NotAhead
<1> QED
  BY <1>1, <1>2, <1>3, StageOrder

\* An event of the task that works on stage c.
LEMMA TurnCommit ==
    ASSUME IInv, HandInv, NEW c \in Stages, TurnOf(c), NEW k \in Execs, Commit(k)
    PROVE  /\ TurnOf(c)'
           /\ \/ run.status \in {"QUEUED", "RUNNING"} /\ run'.status = "RUNNING"
              \/ run.status = "RUNNING" /\ run'.status \in {Gate(c), "FAILED"}
<1>1. PICK e \in Stages, status \in RunStatus, rollback \in Stages \cup {NoStage}, row \in Row :
         EventOf(k, e, status, rollback, row)
  BY Events DEF Commit
<1>2. /\ task[k].pc \in {"dispatching", "starting", "invoking", "finishing"}
      /\ e = task[k].stage
  BY <1>1 DEF EventOf
<1>3. /\ e = c
      /\ task[k].pc = "finishing" => task[k].verdict \in {"PASSED"} \cup StageFailure(c)
  BY <1>2 DEF TurnOf, TasksAt
<1>4. /\ run.status \in {"QUEUED", "RUNNING"}
      /\ task[k].pc = "dispatching" => run.status = "QUEUED"
      /\ task[k].pc # "dispatching" => run.status = "RUNNING"
  BY <1>2 DEF HandInv, TaskHand
<1>5. /\ run'.status = status /\ run'.rollback = rollback /\ run'.current = c
      /\ Latest(c)' = row /\ \A d \in Stages \ {c} : Latest(d)' = Latest(d)
      /\ \A d \in Stages : Len(rows'[d]) = Len(rows[d])
      /\ row.plan = Latest(c).plan /\ row.approved = Latest(c).approved
  BY <1>1, <1>3 DEF EventOf, Revised
<1>6. ~Latest(c).approved
  BY <1>4, RowTypes, GatesApart DEF TurnOf, Stands
<1>7. Front(c)'
  <2>1. \A d \in Stages : Position(d) # Position(c) => Latest(d)' = Latest(d)
    BY <1>5
  <2> QED
    BY <1>5, <2>1, StageOrder DEF Front, TurnOf
<1>8. \/ status = "RUNNING" /\ rollback = NoStage /\ row.status \in {"PENDING", "RUNNING"}
      \/ status = Gate(c) /\ rollback = NoStage /\ row.status = "COMPLETED"
         /\ task[k].pc = "finishing"
      \/ /\ status = "FAILED" /\ row.status = "FAILED" /\ rollback \in Stages
         /\ NotAhead(rollback, c) /\ task[k].pc = "finishing"
  <2>1. CASE task[k].pc = "finishing" /\ status = "FAILED"
    <3>1. rollback = FailureRollback(c, task[k].verdict) /\ row.status = "FAILED"
      BY <1>1, <1>3, <2>1, GatesApart DEF EventOf
    <3>2. task[k].verdict \in StageFailure(c)
      BY <1>1, <1>3, <2>1, GatesApart DEF EventOf
    <3> QED
      BY <2>1, <3>1, <3>2, FailureGoesBack
  <2> QED
    BY <1>1, <1>3, <2>1 DEF EventOf
<1>9. Stands(c)'
  BY <1>5, <1>6, <1>8, GatesApart, StageOrder DEF Stands
<1>10. UNCHANGED session
  BY DEF Commit, DispatchCommit, StartCommit, FinalCommit, RuntimeWrite
<1>11. SessionsAt(c)'
  BY <1>10 DEF SessionsAt, TurnOf
<1>12. TasksAt(c)'
  <2>1. task \in [Execs -> Task] /\ task[k] \in Task
    BY DEF IInv, TypeOK
  <2>2. CASE UNCHANGED task
    BY <2>2 DEF TasksAt, TurnOf
  <2>3. CASE FinalCommit(k)
    BY <2>1, <2>3 DEF FinalCommit, Finished, NoTask, TasksAt, TurnOf
  <2>4. CASE DispatchCommit(k) \/ StartCommit(k)
    <3>1. /\ task'[k].pc \in {"claimed", "started"}
          /\ task'[k].stage = task[k].stage
          /\ \A j \in Execs \ {k} : task'[j] = task[j]
      BY <2>1, <2>4 DEF DispatchCommit, StartCommit, Task
    <3> QED
      BY <1>2, <1>3, <3>1 DEF TasksAt, TurnOf
  <2> QED
    BY <2>2, <2>3, <2>4 DEF Commit, RuntimeWrite
<1> QED
  BY <1>4, <1>5, <1>7, <1>8, <1>9, <1>11, <1>12 DEF TurnOf

\* A transaction opens.
LEMMA TurnOpens ==
    ASSUME IInv, NEW c \in Stages, TurnOf(c), NEW s \in Sessions,
           NEW op, NEW stage, NEW target, NEW attempt, NEW consent,
           Open(s, op, stage, target, attempt, consent), NotAhead(target, c),
           UNCHANGED <<run, rows, task>>
    PROVE  TurnOf(c)'
<1>1. session'[s].target = target /\ \A t \in Sessions \ {s} : session'[t] = session[t]
  BY DEF Open, IInv, TypeOK
<1>2. SessionsAt(c)'
  BY <1>1 DEF SessionsAt, TurnOf
<1>3. TasksAt(c)'
  BY DEF TasksAt, TurnOf
<1> QED
  BY <1>2, <1>3, SameTurn DEF TurnOf

LEMMA TurnRead ==
    ASSUME Orderly, IInv, NEW c \in Stages, TurnOf(c),
           StaleRead \/ \E s \in Reviewer : ReviewRead(s)
    PROVE  TurnOf(c)'
<1>1. ASSUME NEW s \in Reviewer, ReviewRead(s)
      PROVE  TurnOf(c)'
  <2>1. s \in Sessions /\ UNCHANGED <<run, rows, task>>
    BY <1>1 DEF Sessions, ReviewRead
  <2>2. NotAhead(c, c) /\ NotAhead(REQ, c)
    BY StageOrder DEF NotAhead
  <2>3. ASSUME NEW g \in Stages, run.status = Gate(g), Open(s, "approve", g, g, 0, TRUE)
        PROVE  TurnOf(c)'
    <3>1. g = c
      BY <2>3 DEF TurnOf, Stands
    <3> QED
      BY <2>1, <2>2, <2>3, <3>1, TurnOpens
  <2>4. ASSUME NEW g \in Stages, run.status = Gate(g), NEW code \in ReviewFailure \cup {"NONE"},
               Open(s, "reject", g, IF code = "NONE" THEN g ELSE RollbackTarget(code), 0, FALSE)
        PROVE  TurnOf(c)'
    <3>1. g = c
      BY <2>4 DEF TurnOf, Stands
    <3>2. PICK target : /\ target = IF code = "NONE" THEN g ELSE RollbackTarget(code)
                        /\ NotAhead(target, c)
      BY <2>2, <2>4, <3>1 DEF Orderly
    <3> QED
      BY <2>1, <2>4, <3>2, TurnOpens
  <2>5. ASSUME NEW b \in BOOLEAN, NEW target, Retryable,
               target = IF run.rollback # NoStage THEN run.rollback ELSE run.current,
               Open(s, "retry", target, target, 0, b)
        PROVE  TurnOf(c)'
    <3>1. run.rollback \in Stages \cup {NoStage} /\ run.current \in Stages \cup {DISPATCH}
      BY DEF IInv, TypeOK, Run
    <3>2. NotAhead(target, c)
      BY <2>5, <3>1 DEF Retryable, TurnOf, Stands
    <3> QED
      BY <2>1, <2>5, <3>2, TurnOpens
  <2> QED
    BY <1>1, <2>3, <2>4, <2>5 DEF ReviewRead
<1>2. CASE StaleRead
  <2>1. Monitor \in Sessions /\ UNCHANGED <<run, rows, task>>
    BY <1>2 DEF StaleRead, Sessions
  <2>2. PICK d \in Stages : \E i \in Running(d) : \E op : Open(Monitor, op, d, d, i, FALSE)
    BY <1>2 DEF StaleRead
  <2>3. Latest(d).status = "RUNNING"
    BY <2>2, RunningIsNewest
  <2>4. NotAhead(d, c)
    BY <2>3, StageOrder DEF NotAhead, TurnOf, Front
  <2> QED
    BY <2>1, <2>2, <2>4, TurnOpens
<1> QED
  BY <1>1, <1>2

(***************************************************************************)
(* The steps that move the turn                                            *)
(***************************************************************************)

\* After a commit of a transaction nobody has anything in hand.
LEMMA HandsAreEmpty ==
    ASSUME OneAtATime, IInv, HandInv, Next, NEW c \in Stages,
           \/ \E s \in Sessions : Decision(s) \/ ScheduleFails(s)
           \/ ExhaustCommit
           \/ Crash
    PROVE  TasksAt(c)' /\ SessionsAt(c)'
<1>1. task \in [Execs -> Task] /\ session \in [Sessions -> Session]
  BY DEF IInv, TypeOK
<1>2. CASE Crash
  BY <1>2 DEF Crash, NoTask, Finished, NoSession, TasksAt, SessionsAt
<1>3. ASSUME NEW s \in Sessions, Decision(s) \/ ScheduleFails(s) \/ (ExhaustCommit /\ s = Monitor)
      PROVE  TasksAt(c)' /\ SessionsAt(c)'
  <2>1. Busy(s)
    BY <1>3 DEF Busy, Decision, ReopenCommit, ReviewCommit, ApproveFinal, ApproveAnalysis,
       ApproveSelection, ScheduleFails, ExhaustCommit
  <2>2. /\ \A k \in Execs : ~Alive(k)
        /\ \A t \in Sessions \ {s} : ~Busy(t)
    BY <2>1, OnlySession
  <2>3. /\ NoSession.pc = "idle"
        /\ \A snap : [NoSession EXCEPT !.pc = "unscheduled", !.snap = snap].pc = "unscheduled"
    BY DEF NoSession
  <2>4. /\ task' = task \/ task' = [task EXCEPT ![lastExec + 1] = Scheduled]
        /\ \/ session' = [session EXCEPT ![s] = NoSession]
           \/ \E snap : session' = [session EXCEPT ![s] =
                           [NoSession EXCEPT !.pc = "unscheduled", !.snap = snap]]
    BY <1>3 DEF Decision, ReopenCommit, ReviewCommit, ApproveFinal, ApproveAnalysis,
       ApproveSelection, ScheduleFails, ExhaustCommit, Redispatch, Abandon
  <2>5. \A k \in Execs : task'[k].pc \in {"idle", "done", "scheduled"}
    BY <1>1, <2>2, <2>4 DEF Alive, Scheduled, NoTask
  <2>6. session'[s].pc # "open" /\ \A t \in Sessions \ {s} : session'[t] = session[t]
    BY <1>1, <2>3, <2>4
  <2> QED
    BY <2>2, <2>5, <2>6 DEF TasksAt, SessionsAt, Busy
<1> QED
  BY <1>2, <1>3 DEF Sessions

\* Whatever is reopened is at the front, or further back.
LEMMA TurnReopens ==
    ASSUME IInv, HandInv, NEW c \in Stages, TurnOf(c), NEW s \in Sessions,
           ReopenCommit(s), session[s].op # "recover"
    PROVE  \E t \in Stages : NotAhead(t, c) /\ Front(t)' /\ Stands(t)' /\ run'.status = "QUEUED"
<1>1. PICK t \in Stages : t = session[s].target
  BY DEF IInv, TypeOK, Session
<1>2. NotAhead(t, c)
  BY <1>1 DEF TurnOf, SessionsAt, ReopenCommit
<1>3. /\ run'.status = "QUEUED" /\ run'.rollback = t
      /\ \A d \in Downstream(t) : Restarted(d)
      /\ \A d \in Stages \ Downstream(t) : rows'[d] = rows[d] /\ Latest(d)' = Latest(d)
  BY <1>1, Reopens DEF Dispatched
<1>4. \A p : NewRow(p).status = "PENDING" /\ ~NewRow(p).approved /\ NewRow(p).plan = p
  BY DEF NewRow
<1>5. ASSUME NEW d \in Stages
      PROVE  /\ Position(d) < Position(t) => Latest(d)' = Latest(d) /\ Len(rows'[d]) = Len(rows[d])
             /\ Position(d) >= Position(t) =>
                   /\ Latest(d)'.status = "PENDING" /\ ~Latest(d)'.approved
                   /\ Latest(d)'.plan = Latest(d).plan
  <2>1. CASE Position(d) < Position(t)
    <3>1. rows'[d] = rows[d] /\ Latest(d)' = Latest(d)
      BY <1>3, <2>1, StageOrder DEF Downstream
    <3> QED
      BY <2>1, <3>1, StageOrder
  <2>2. CASE Position(d) >= Position(t)
    <3>1. Latest(d)' = NewRow(Latest(d).plan)
      BY <1>3, <2>2 DEF Downstream, Restarted
    <3> QED
      BY <1>4, <2>2, <3>1, StageOrder
  <2> QED
    BY <2>1, <2>2, StageOrder
<1>6. ASSUME NEW d \in Stages, Position(d) < Position(t)
      PROVE  Latest(d).status = "COMPLETED" /\ Latest(d).approved
  BY <1>2, <1>6, StageOrder DEF TurnOf, Front, NotAhead
<1>7. t = PROC => c = PROC
  BY <1>2, StageOrder DEF NotAhead
<1>8. Front(t)'
  BY <1>5, <1>6, <1>7, StageOrder DEF Front, TurnOf
<1>9. Stands(t)'
  BY <1>3, <1>5, GatesApart, StageOrder DEF Stands
<1> QED
  BY <1>2, <1>3, <1>8, <1>9

\* An approval moves the turn to the next stage.
LEMMA TurnApproves ==
    ASSUME IInv, HandInv, NEW c \in Stages, TurnOf(c), NEW s \in Sessions
    PROVE  /\ ApproveAnalysis(s) =>
                 /\ c = REQ /\ run.status = Gate(c)
                 /\ Front(SEL)' /\ Stands(SEL)' /\ run'.status = "QUEUED"
           /\ ApproveSelection(s) =>
                 /\ c = SEL /\ run.status = Gate(c)
                 /\ Front(PROC)' /\ Stands(PROC)' /\ run'.status = "QUEUED"
           /\ ApproveFinal(s) =>
                 /\ c = PROC /\ run.status = Gate(c)
                 /\ Front(PROC)' /\ Stands(PROC)' /\ run'.status = "COMPLETED"
<1>1. Front(c) /\ Stands(c)
  BY DEF TurnOf
<1>2. ASSUME NEW d \in Stages
      PROVE  /\ Approved(Latest(d)).approved
             /\ Approved(Latest(d)).status = Latest(d).status
             /\ Approved(Latest(d)).plan = Latest(d).plan
  BY RowTypes, ApprovedRow
<1>3. CASE ApproveAnalysis(s)
  <2>1. /\ run.status = Gate(REQ) /\ Revised(REQ, Approved(Latest(REQ)))
        /\ Dispatched(SEL, NoStage)
    BY <1>3, ApprovesOne
  <2>2. c = REQ /\ Latest(REQ).status = "COMPLETED"
    BY <1>1, <2>1, StageOrder DEF Stands
  <2>3. /\ Latest(SEL).status = "PENDING" /\ ~Latest(SEL).approved
        /\ Latest(PROC).status = "PENDING" /\ ~Latest(PROC).approved
    BY <1>1, <2>2, StageOrder DEF Front
  <2>4. /\ Latest(REQ)' = Approved(Latest(REQ))
        /\ Latest(SEL)' = Latest(SEL) /\ Latest(PROC)' = Latest(PROC)
    BY <2>1, StageOrder DEF Revised
  <2>5. Latest(REQ)'.status = "COMPLETED" /\ Latest(REQ)'.approved
    BY <1>2, <2>2, <2>4, StageOrder
  <2>6. Front(SEL)'
    BY <2>3, <2>4, <2>5, StageOrder DEF Front
  <2>7. run'.status = "QUEUED" /\ run'.rollback = NoStage
    BY <2>1 DEF Dispatched
  <2>8. Stands(SEL)'
    BY <2>3, <2>4, <2>7, GatesApart, StageOrder DEF Stands
  <2>9. ~ApproveSelection(s) /\ ~ApproveFinal(s)
    BY <1>3, StageOrder DEF ApproveAnalysis, ApproveSelection, ApproveFinal
  <2> QED
    BY <2>1, <2>2, <2>6, <2>7, <2>8, <2>9
<1>4. CASE ApproveSelection(s)
  <2>1. run.status = Gate(SEL)
    BY <1>4, ApprovesSelection
  <2>2. c = SEL /\ Latest(SEL).status = "COMPLETED"
    BY <1>1, <2>1, StageOrder DEF Stands
  <2>3. /\ Latest(REQ).status = "COMPLETED" /\ Latest(REQ).approved
        /\ Latest(PROC).status = "PENDING" /\ ~Latest(PROC).approved
    BY <1>1, <2>2, StageOrder DEF Front
  <2>4. /\ Dispatched(PROC, NoStage)
        /\ Len(rows'[SEL]) = Len(rows[SEL])
        /\ Latest(REQ)' = Latest(REQ) /\ Latest(SEL)' = Approved(Latest(SEL))
        /\ Latest(PROC)' = [Latest(PROC) EXCEPT !.plan = Len(rows[SEL])]
    BY <1>4, <2>3, ApprovesSelection, StageOrder
  <2>5. Latest(SEL)'.status = "COMPLETED" /\ Latest(SEL)'.approved
    BY <1>2, <2>2, <2>4, StageOrder
  <2>6. /\ Latest(PROC)'.status = "PENDING" /\ ~Latest(PROC)'.approved
        /\ Latest(PROC)'.plan = Len(rows'[SEL])
    <3>1. Latest(PROC) \in Row
      BY RowTypes, StageOrder
    <3> QED
      BY <2>3, <2>4, <3>1 DEF Row
  <2>7. Front(PROC)'
    BY <2>3, <2>4, <2>5, <2>6, StageOrder DEF Front
  <2>8. run'.status = "QUEUED" /\ run'.rollback = NoStage
    BY <2>4 DEF Dispatched
  <2>9. Stands(PROC)'
    BY <2>6, <2>8, GatesApart, StageOrder DEF Stands
  <2>10. ~ApproveAnalysis(s) /\ ~ApproveFinal(s)
    BY <1>4, StageOrder DEF ApproveAnalysis, ApproveSelection, ApproveFinal
  <2> QED
    BY <2>1, <2>2, <2>7, <2>8, <2>9, <2>10
<1>5. CASE ApproveFinal(s)
  <2>1. /\ run.status = Gate(PROC) /\ Revised(PROC, Approved(Latest(PROC)))
        /\ run'.status = "COMPLETED"
    BY <1>5, ApprovesOne
  <2>2. c = PROC /\ Latest(PROC).status = "COMPLETED"
    BY <1>1, <2>1, StageOrder DEF Stands
  <2>3. /\ Latest(PROC)' = Approved(Latest(PROC)) /\ Len(rows'[SEL]) = Len(rows[SEL])
        /\ \A d \in Stages \ {PROC} : Latest(d)' = Latest(d)
    BY <2>1, StageOrder DEF Revised
  <2>4. /\ Latest(PROC)'.status = "COMPLETED" /\ Latest(PROC)'.approved
        /\ Latest(PROC)'.plan = Latest(PROC).plan
    BY <1>2, <2>2, <2>3, StageOrder
  <2>5. Front(PROC)'
    BY <1>1, <2>2, <2>3, <2>4, StageOrder DEF Front
  <2>6. Stands(PROC)'
    BY <2>1, <2>4, GatesApart, StageOrder DEF Stands
  <2>7. ~ApproveAnalysis(s) /\ ~ApproveSelection(s)
    BY <1>5, StageOrder DEF ApproveAnalysis, ApproveSelection, ApproveFinal
  <2> QED
    BY <2>1, <2>2, <2>5, <2>6, <2>7
<1> QED
  BY <1>3, <1>4, <1>5

\* The monitor gives up on the stage, or a task cannot be scheduled.
LEMMA TurnFails ==
    ASSUME IInv, HandInv, NEW c \in Stages, TurnOf(c),
           ExhaustCommit \/ \E s \in Sessions : ScheduleFails(s)
    PROVE  /\ Front(c)' /\ Stands(c)'
           /\ run.status \in {"QUEUED", "RUNNING"} /\ run'.status = "FAILED"
<1>1. Front(c) /\ Stands(c)
  BY DEF TurnOf
<1>2. CASE ExhaustCommit
  <2>1. PICK d \in Stages, row \in Row :
           /\ run.status = "RUNNING" /\ Latest(d).status = "RUNNING"
           /\ Revised(d, row) /\ row.status = "FAILED"
           /\ row.plan = Latest(d).plan /\ row.approved = Latest(d).approved
           /\ run'.status = "FAILED" /\ run'.current = d /\ run'.rollback = run.rollback
    BY <1>2, GivesUp
  <2>2. d = c
    BY <1>1, <2>1, StageOrder DEF Front
  <2>3. /\ Latest(c)' = row /\ \A e \in Stages \ {c} : Latest(e)' = Latest(e)
        /\ \A e \in Stages : Len(rows'[e]) = Len(rows[e])
    BY <2>1, <2>2 DEF Revised
  <2>4. Front(c)'
    <3>1. \A e \in Stages : Position(e) # Position(c) => Latest(e)' = Latest(e)
      BY <2>3
    <3> QED
      BY <1>1, <2>1, <2>2, <2>3, <3>1, StageOrder DEF Front
  <2>5. ~Latest(c).approved /\ run.rollback = NoStage /\ NotAhead(c, c)
    BY <1>1, <2>1, RowTypes, StageOrder DEF Stands, NotAhead
  <2>6. Stands(c)'
    BY <2>1, <2>2, <2>3, <2>5, GatesApart, StageOrder DEF Stands
  <2> QED
    BY <2>1, <2>4, <2>6
<1>3. CASE \E s \in Sessions : ScheduleFails(s)
  <2>1. /\ run.status = "QUEUED" /\ UNCHANGED rows
        /\ run'.status = "FAILED" /\ run'.current = DISPATCH /\ run'.rollback = run.rollback
    BY <1>3, FailsToDispatch
  <2>2. \A d \in Stages : Latest(d)' = Latest(d)
    BY <2>1 DEF Latest
  <2>3. Front(c)'
    BY <1>1, <2>1, <2>2, StageOrder DEF Front
  <2>4. /\ ~Latest(c).approved /\ Latest(c).status = "PENDING"
        /\ run.rollback \in {c, NoStage} /\ NotAhead(c, c)
    BY <1>1, <2>1, RowTypes, StageOrder DEF Stands, NotAhead
  <2>5. Stands(c)'
    BY <2>1, <2>2, <2>4, GatesApart, StageOrder DEF Stands
  <2> QED
    BY <2>1, <2>3, <2>5
<1> QED
  BY <1>2, <1>3

(***************************************************************************)
(* The invariant is inductive, and every step is one that GatedRun allows  *)
(***************************************************************************)

LEMMA InitialRun ==
    ASSUME Init
    PROVE  /\ run.status \in {"QUEUED", "FAILED"} /\ run.rollback = NoStage
           /\ run.status = "FAILED" => run.current = DISPATCH
<1>1. CASE run = NewRun
  BY <1>1 DEF NewRun
<1>2. CASE run = [NewRun EXCEPT !.status = "FAILED", !.current = DISPATCH, !.request = "FAILED"]
  BY <1>2 DEF NewRun
<1> QED
  BY <1>1, <1>2 DEF Init

LEMMA TurnInit ==
    ASSUME Init
    PROVE  TurnOf(REQ)
<1>1. /\ \A c \in Stages : rows[c] = <<NewRow(0)>> /\ Len(rows[c]) = 1
      /\ NewRow(0).status = "PENDING" /\ ~NewRow(0).approved
  BY NewRowTypes DEF Init, NewRow
<1>2. \A c \in Stages : Latest(c).status = "PENDING" /\ ~Latest(c).approved
  BY <1>1 DEF Latest
<1>3. /\ run.status \in {"QUEUED", "FAILED"} /\ run.rollback = NoStage
      /\ run.status = "FAILED" => run.current = DISPATCH
  BY InitialRun
<1>4. /\ \A k \in Execs : task[k].pc \in {"idle", "scheduled"}
      /\ \A s \in Sessions : session[s].pc = "idle"
  BY DEF Init, Scheduled, NoTask, NoSession
<1>5. Front(REQ)
  BY <1>2, StageOrder DEF Front
<1>6. Stands(REQ)
  BY <1>2, <1>3, GatesApart, StageOrder DEF Stands
<1>7. TasksAt(REQ) /\ SessionsAt(REQ)
  BY <1>4 DEF TasksAt, SessionsAt
<1> QED
  BY <1>5, <1>6, <1>7 DEF TurnOf

\* What a step makes of the turn, and of the phase of the run.
TurnMoves(c, d) ==
    /\ TurnOf(d)'
    /\ \/ c = d /\ run'.status = run.status
       \/ c = d /\ run.status \in {"QUEUED", "RUNNING"} /\ run'.status = "RUNNING"
       \/ c = d /\ run.status \in {"QUEUED", "RUNNING"} /\ run'.status \in {Gate(c), "FAILED"}
       \/ c = REQ /\ d = SEL /\ run.status = Gate(c) /\ run'.status = "QUEUED"
       \/ c = SEL /\ d = PROC /\ run.status = Gate(c) /\ run'.status = "QUEUED"
       \/ c = PROC /\ d = PROC /\ run.status = Gate(c) /\ run'.status = "COMPLETED"
       \/ NotAhead(d, c) /\ run.status # "COMPLETED" /\ run'.status = "QUEUED"

LEMMA TurnStep ==
    ASSUME Orderly, IInv, HandInv, NEW c \in Stages, TurnOf(c), Next
    PROVE  \E d \in Stages : TurnMoves(c, d)
<1>0. OneAtATime
  BY DEF Orderly
<1>1. CASE \E k \in Execs : TaskStep(k) \/ RuntimeStep(k)
  <2>1. PICK k \in Execs : TaskStep(k) \/ RuntimeStep(k)
    BY <1>1
  <2>2. UNCHANGED <<run, rows>> \/ Commit(k)
    BY <2>1, AlwaysDispatches DEF TaskStep, RuntimeStep, Commit, DispatchRead, StartRead, Invoke,
       PayloadFails, AgentReturns, FinalRead, RuntimeRead, RuntimeEnds
  <2>3. CASE UNCHANGED <<run, rows>>
    BY <2>1, <2>3, TurnTaskStep DEF TurnMoves
  <2>4. CASE Commit(k)
    BY <2>4, TurnCommit DEF TurnMoves
  <2> QED
    BY <2>2, <2>3, <2>4
<1>2. CASE StaleRead \/ \E s \in Reviewer : ReviewRead(s)
  <2>1. UNCHANGED run
    BY <1>2 DEF StaleRead, ReviewRead
  <2> QED
    BY <1>2, <2>1, TurnRead DEF TurnMoves
<1>3. ASSUME NEW s \in Sessions, ReopenCommit(s)
      PROVE  \E d \in Stages : TurnMoves(c, d)
  <2>1. session[s].op # "recover" /\ session[s].pc = "open"
    BY <1>3 DEF ReopenCommit, HandInv, Roles
  <2>2. PICK t \in Stages : NotAhead(t, c) /\ Front(t)' /\ Stands(t)' /\ run'.status = "QUEUED"
    BY <1>3, <2>1, TurnReopens
  <2>3. TasksAt(t)' /\ SessionsAt(t)'
    BY <1>0, <1>3, HandsAreEmpty DEF Decision
  <2>4. run.status # "COMPLETED"
    <3>1. session[s].op \in {"reject", "retry", "requeue"} /\ session[s].stage \in Stages
      BY <1>3, <2>1 DEF ReopenCommit, IInv, TypeOK, Session
    <3>2. \/ run.status = Gate(session[s].stage)
          \/ run.status \in {"FAILED", "RUNNING"}
      BY <2>1, <3>1 DEF HandInv, SessionHand
    <3> QED
      BY <3>1, <3>2, GatesApart
  <2> QED
    BY <2>2, <2>3, <2>4 DEF TurnMoves, TurnOf
<1>4. ASSUME NEW s \in Sessions, ReviewCommit(s)
      PROVE  \E d \in Stages : TurnMoves(c, d)
  <2>1. \A d \in Stages : TasksAt(d)' /\ SessionsAt(d)'
    BY <1>0, <1>4, HandsAreEmpty DEF Decision
  <2>2. CASE ApproveAnalysis(s)
    BY <2>1, <2>2, TurnApproves, StageOrder DEF TurnMoves, TurnOf
  <2>3. CASE ApproveSelection(s)
    BY <2>1, <2>3, TurnApproves, StageOrder DEF TurnMoves, TurnOf
  <2>4. CASE ApproveFinal(s)
    BY <2>1, <2>4, TurnApproves, StageOrder DEF TurnMoves, TurnOf
  <2> QED
    BY <1>4, <2>2, <2>3, <2>4 DEF ReviewCommit
<1>5. CASE ExhaustCommit \/ \E s \in Sessions : ScheduleFails(s)
  <2>1. TasksAt(c)' /\ SessionsAt(c)'
    BY <1>0, <1>5, HandsAreEmpty
  <2> QED
    BY <1>5, <2>1, TurnFails DEF TurnMoves, TurnOf
<1>6. CASE Crash
  <2>1. UNCHANGED <<run, rows>> /\ TasksAt(c)' /\ SessionsAt(c)'
    BY <1>0, <1>6, HandsAreEmpty DEF Crash
  <2> QED
    BY <2>1, SameTurn DEF TurnMoves, TurnOf
<1>7. ~\E s \in Reviewer : RecoverRead(s)
  BY <1>0 DEF OneAtATime, RecoverRead
<1> QED
  BY <1>1, <1>2, <1>3, <1>4, <1>5, <1>6, <1>7 DEF Next, SessionCommit, Sessions

LEMMA TurnStutter ==
    ASSUME NEW c \in Stages, TurnOf(c), UNCHANGED vars
    PROVE  TurnOf(c)'
<1>1. Front(c)' /\ Stands(c)'
  BY SameTurn DEF TurnOf, vars
<1> QED
  BY <1>1 DEF TurnOf, TasksAt, SessionsAt, vars

AllInv == IInv /\ HandInv /\ TurnInv

\* At any time it is the turn of one stage: everything before it is completed
\* and approved, nothing after it has begun.
THEOREM StagesTakeTurns ==
    ASSUME Orderly
    PROVE  Spec => []AllInv
<1>1. Init => TurnInv
  BY TurnInit, StageOrder DEF TurnInv
<1>2. IInv /\ HandInv /\ TurnInv /\ [Next]_vars => TurnInv'
  <2>1. ASSUME IInv, HandInv, NEW c \in Stages, TurnOf(c), [Next]_vars
        PROVE  \E d \in Stages : TurnOf(d)'
    BY <2>1, TurnStep, TurnStutter DEF TurnMoves
  <2> QED
    BY <2>1 DEF TurnInv
<1>3. OneAtATime
  BY DEF Orderly
<1> QED
  BY <1>1, <1>2, <1>3, WorkedOnByOne, PTL DEF Spec, AllInv

\* The agent of a stage starts only when the newest attempt of every earlier
\* stage is completed and approved, across rejections, failures, retries,
\* crashes and recoveries.
THEOREM GatesAreHuman ==
    ASSUME Orderly
    PROVE  Spec => HumanGate
<1>1. ASSUME AllInv, NEW k \in Execs, task[k].pc = "started"
      PROVE  \A c \in Upstream(task[k].stage) :
                Latest(c).status = "COMPLETED" /\ Latest(c).approved
  <2>1. PICK c \in Stages : TurnOf(c)
    BY <1>1 DEF AllInv, TurnInv
  <2>2. task[k].stage = c
    BY <1>1, <2>1 DEF TurnOf, TasksAt
  <2> QED
    BY <2>1, <2>2 DEF TurnOf, Front, Upstream
<1>2. AllInv /\ [Next]_vars =>
         [\A k \in Execs : Starts(k) =>
            \A c \in Upstream(task[k].stage) :
               Latest(c).status = "COMPLETED" /\ Latest(c).approved]_vars
  BY <1>1 DEF Starts
<1> QED
  BY <1>2, StagesTakeTurns, PTL DEF Spec, HumanGate

\* The plan that processing starts with is the newest selection's, however
\* many attempts inherited the plan of an earlier one.
THEOREM PlanIsCurrent ==
    ASSUME Orderly
    PROVE  Spec => ApprovedPlanIsCurrent
<1>1. ASSUME AllInv, NEW k \in Execs, task[k].pc = "started", task[k].stage = PROC
      PROVE  task[k].plan = Len(rows[SEL])
  <2>1. PICK c \in Stages : TurnOf(c)
    BY <1>1 DEF AllInv, TurnInv
  <2>2. c = PROC
    BY <1>1, <2>1 DEF TurnOf, TasksAt
  <2>3. task[k].plan = Latest(PROC).plan
    BY <1>1 DEF AllInv, HandInv, TaskHand
  <2> QED
    BY <2>1, <2>2, <2>3 DEF TurnOf, Front
<1>2. AllInv /\ [Next]_vars =>
         [\A k \in Execs : Starts(k) /\ task[k].stage = PROC =>
            task[k].plan = Len(rows[SEL])]_vars
  BY <1>1 DEF Starts
<1> QED
  BY <1>2, StagesTakeTurns, PTL DEF Spec, ApprovedPlanIsCurrent

\* A run that waits at a gate shows the reviewer a completed stage, and nothing
\* later has started.
THEOREM GateShowsResult ==
    ASSUME Orderly
    PROVE  Spec => []WaitingHasResult
<1>1. ASSUME NEW c \in Stages, TurnOf(c)
      PROVE  WaitingHasResult
  <2>1. ASSUME NEW g \in Stages, run.status = Gate(g)
        PROVE  /\ Latest(g).status = "COMPLETED"
               /\ \A d \in Downstream(g) \ {g} : Latest(d).status = "PENDING"
    BY <1>1, <2>1, StageOrder DEF TurnOf, Front, Stands, Downstream
  <2> QED
    BY <2>1 DEF WaitingHasResult
<1>2. AllInv => WaitingHasResult
  BY <1>1 DEF AllInv, TurnInv
<1> QED
  BY <1>2, StagesTakeTurns, PTL

\* A COMPLETED run was approved at each of its gates, in the attempts that
\* count: no approval it rests on was rolled back since.
THEOREM CompletionPassedEveryGate ==
    ASSUME Orderly
    PROVE  Spec => []CompletedByEveryGate
<1>1. ASSUME NEW c \in Stages, TurnOf(c), run.status = "COMPLETED", NEW d \in Stages
      PROVE  Latest(d).status = "COMPLETED" /\ Latest(d).approved
  <2>1. c = PROC /\ Latest(c).status = "COMPLETED" /\ Latest(c).approved
    BY <1>1 DEF TurnOf, Stands
  <2>2. Position(d) < Position(c) \/ d = c
    BY <2>1, StageOrder
  <2> QED
    BY <1>1, <2>1, <2>2 DEF TurnOf, Front
<1>2. AllInv => CompletedByEveryGate
  BY <1>1 DEF AllInv, TurnInv, CompletedByEveryGate
<1> QED
  BY <1>2, StagesTakeTurns, PTL

(***************************************************************************)
(* The refinement                                                          *)
(***************************************************************************)

LEMMA ThreeStages ==
    /\ Cardinality(Stages) = 3
    /\ \A c \in Stages : Cardinality(Upstream(c)) = Position(c) - 1
<1>1. /\ Upstream(REQ) = {} /\ Upstream(SEL) = {REQ} /\ Upstream(PROC) = {REQ} \cup {SEL}
      /\ Stages = {REQ, SEL} \cup {PROC}
  BY StageOrder DEF Upstream, Stages
<1>2. Cardinality({}) = 0 /\ Cardinality({REQ}) = 1 /\ IsFiniteSet({REQ})
  BY FS_EmptySet, FS_Singleton
<1>3. Cardinality({REQ} \cup {SEL}) = 2 /\ IsFiniteSet({REQ} \cup {SEL})
  BY <1>2, StageOrder, FS_AddElement
<1>4. Cardinality(({REQ} \cup {SEL}) \cup {PROC}) = 3
  BY <1>3, StageOrder, FS_AddElement
<1>5. Stages = ({REQ} \cup {SEL}) \cup {PROC}
  BY DEF Stages
<1> QED
  BY <1>1, <1>2, <1>3, <1>4, <1>5, StageOrder

\* How many approvals count when it is the turn of stage c.
Counted(c) == IF run.status = "COMPLETED" THEN 3 ELSE Position(c) - 1

LEMMA PassedAtTurn ==
    ASSUME NEW c \in Stages, Front(c), Stands(c)
    PROVE  Cardinality(Passed) = Counted(c)
<1>1. CASE run.status = "COMPLETED"
  <2>1. c = PROC /\ Latest(c).status = "COMPLETED" /\ Latest(c).approved
    BY <1>1 DEF Stands
  <2>2. \A d \in Stages : Latest(d).status = "COMPLETED" /\ Latest(d).approved
    BY <2>1, StageOrder DEF Front
  <2>3. Passed = Stages
    BY <2>2 DEF Passed, Upstream
  <2> QED
    BY <1>1, <2>3, ThreeStages DEF Counted
<1>2. CASE run.status # "COMPLETED"
  <2>1. ~Latest(c).approved
    BY <1>2 DEF Stands
  <2>2. \A d \in Stages : Position(d) < Position(c) =>
           Latest(d).status = "COMPLETED" /\ Latest(d).approved
    BY DEF Front
  <2>3. \A d \in Stages : Position(d) > Position(c) => ~Latest(d).approved
    BY DEF Front
  <2>4. Passed = Upstream(c)
    BY <2>1, <2>2, <2>3, StageOrder DEF Passed, Upstream
  <2> QED
    BY <1>2, <2>4, ThreeStages DEF Counted
<1> QED
  BY <1>1, <1>2

LEMMA PassedAtNextTurn ==
    ASSUME NEW c \in Stages
    PROVE  (Front(c) /\ Stands(c))' => (Cardinality(Passed) = Counted(c))'
<1>1. Front(c) /\ Stands(c) => Cardinality(Passed) = Counted(c)
  BY PassedAtTurn
<1> QED
  BY <1>1, PTL

LEMMA Phases ==
    /\ PhaseOf("QUEUED") = "working" /\ PhaseOf("RUNNING") = "working"
    /\ PhaseOf("COMPLETED") = "completed" /\ PhaseOf("FAILED") = "failed"
    /\ \A c \in Stages : PhaseOf(Gate(c)) = "waiting"
BY GatesApart DEF PhaseOf

\* The stages of the run are passed and failed as GatedRun promises: this step
\* is one of its steps, or a stutter.
LEMMA StepIsGated ==
    ASSUME NEW c \in Stages, NEW d \in Stages, TurnOf(c), TurnMoves(c, d), IInv
    PROVE  [Gated!GatedNext]_(Gated!gatedVars)
<1> DEFINE p == PhaseOf(run.status)
           n == Cardinality(Passed)
<1>1. n = IF run.status = "COMPLETED" THEN 3 ELSE Position(c) - 1
  BY PassedAtTurn DEF TurnOf, Counted
<1>2. n' = IF run'.status = "COMPLETED" THEN 3 ELSE Position(d) - 1
  <2>1. (Front(d) /\ Stands(d))'
    BY DEF TurnMoves, TurnOf
  <2> QED
    BY <2>1, PassedAtNextTurn DEF Counted
<1>3. p' = PhaseOf(run'.status)
  BY DEF PhaseOf
<1>4. Cardinality(Stages) = 3
  BY ThreeStages
<1> HIDE DEF p, n
<1>5. ASSUME \/ p' = p /\ n' = n
             \/ p = "working" /\ p' \in {"waiting", "failed"} /\ n' = n
             \/ p = "waiting" /\ n' = n + 1 /\ p' = IF n' = 3 THEN "completed" ELSE "working"
             \/ p \in {"working", "waiting", "failed"} /\ p' = "working" /\ n' \in 0..n
      PROVE  [Gated!GatedNext]_(Gated!gatedVars)
  BY <1>4, <1>5 DEF Gated!GatedNext, Gated!Finish, Gated!Approve, Gated!GoBack, Gated!gatedVars, p, n
<1>6. CASE c = d /\ run'.status = run.status
  BY <1>1, <1>2, <1>3, <1>5, <1>6 DEF p
<1>7. CASE c = d /\ run.status \in {"QUEUED", "RUNNING"} /\ run'.status = "RUNNING"
  BY <1>1, <1>2, <1>3, <1>5, <1>7, Phases DEF p
<1>8. CASE c = d /\ run.status \in {"QUEUED", "RUNNING"} /\ run'.status \in {Gate(c), "FAILED"}
  BY <1>1, <1>2, <1>3, <1>5, <1>8, Phases, GatesApart DEF p
<1>9. CASE c = REQ /\ d = SEL /\ run.status = Gate(c) /\ run'.status = "QUEUED"
  BY <1>1, <1>2, <1>3, <1>5, <1>9, Phases, GatesApart, StageOrder DEF p
<1>10. CASE c = SEL /\ d = PROC /\ run.status = Gate(c) /\ run'.status = "QUEUED"
  BY <1>1, <1>2, <1>3, <1>5, <1>10, Phases, GatesApart, StageOrder DEF p
<1>11. CASE c = PROC /\ d = PROC /\ run.status = Gate(c) /\ run'.status = "COMPLETED"
  BY <1>1, <1>2, <1>3, <1>5, <1>11, Phases, GatesApart, StageOrder DEF p
<1>12. CASE NotAhead(d, c) /\ run.status # "COMPLETED" /\ run'.status = "QUEUED"
  <2>1. p \in {"working", "waiting", "failed"} /\ p' = "working"
    BY <1>3, <1>12, Phases DEF p, PhaseOf
  <2>2. n' \in 0..n
    BY <1>1, <1>2, <1>12, StageOrder DEF NotAhead
  <2> QED
    BY <1>5, <2>1, <2>2
<1> QED
  BY <1>6, <1>7, <1>8, <1>9, <1>10, <1>11, <1>12 DEF TurnMoves

\* The run is what it promises its reviewers: one stage after the other, each
\* result waits for a decision, an approval advances it by one stage, and
\* everything else takes it back (GatedRun).
THEOREM RunImplementsGates ==
    ASSUME Orderly
    PROVE  Spec => ImplementsGates
<1>1. ASSUME Init
      PROVE  Gated!GatedInit
  <2>1. Cardinality(Passed) = Counted(REQ)
    BY <1>1, TurnInit, PassedAtTurn, StageOrder DEF TurnOf
  <2>2. run.status \in {"QUEUED", "FAILED"}
    BY <1>1, InitialRun
  <2> QED
    BY <2>1, <2>2, Phases, StageOrder DEF Counted, Gated!GatedInit
<1>2. ASSUME AllInv, [Next]_vars
      PROVE  [Gated!GatedNext]_(Gated!gatedVars)
  <2>1. PICK c \in Stages : TurnOf(c)
    BY <1>2 DEF AllInv, TurnInv
  <2>2. CASE Next
    <3>1. PICK d \in Stages : TurnMoves(c, d)
      BY <1>2, <2>1, <2>2, TurnStep DEF AllInv
    <3> QED
      BY <1>2, <2>1, <3>1, StepIsGated DEF AllInv
  <2>3. CASE UNCHANGED vars
    BY <2>3 DEF vars, Gated!gatedVars, PhaseOf, Passed, Latest
  <2> QED
    BY <1>2, <2>2, <2>3
<1> QED
  BY <1>1, <1>2, StagesTakeTurns, PTL DEF Spec, ImplementsGates, Gated!GatedSpec
=============================================================================
