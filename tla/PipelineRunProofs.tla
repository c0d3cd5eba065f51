------------------------- MODULE PipelineRunProofs -------------------------
(***************************************************************************)
(* Theorems about PipelineRun that hold for every number of reviewers and  *)
(* dispatches, whatever failures occur and however its surroundings behave *)
(* (Env is not restricted).                                                *)
(***************************************************************************)
EXTENDS PipelineRun, SequenceTheorems, TLAPS

(***************************************************************************)
(* Lemmas about the operators                                              *)
(***************************************************************************)

RowTable == [Stages -> Seq(Row)]

\* Every stage has an attempt: its rows are created with the run.
Populated(rs) == rs \in RowTable /\ \A c \in Stages : Len(rs[c]) \in Nat \ {0}

\* Replacing one row changes this row only and keeps every length.
LEMMA PutRow ==
    ASSUME NEW rs \in RowTable, NEW c \in Stages, NEW i \in 1..Len(rs[c]), NEW r \in Row
    PROVE  LET new == [rs EXCEPT ![c][i] = r] IN
           /\ new \in RowTable
           /\ \A d \in Stages : Len(new[d]) = Len(rs[d])
           /\ \A d \in Stages : \A j \in 1..Len(rs[d]) :
                 new[d][j] = IF d = c /\ j = i THEN r ELSE rs[d][j]
<1> DEFINE new == [rs EXCEPT ![c][i] = r]
<1>1. rs[c] \in Seq(Row)
  BY DEF RowTable
<1>2. new = [rs EXCEPT ![c] = [rs[c] EXCEPT ![i] = r]]
  OBVIOUS
<1>3. /\ [rs[c] EXCEPT ![i] = r] \in Seq(Row)
      /\ Len([rs[c] EXCEPT ![i] = r]) = Len(rs[c])
      /\ \A j \in 1..Len(rs[c]) : [rs[c] EXCEPT ![i] = r][j] = IF j = i THEN r ELSE rs[c][j]
  BY <1>1, ExceptSeq
<1> QED
  BY <1>2, <1>3 DEF RowTable

\* The run after a flush is a run again.
LEMMA MergeType ==
    ASSUME NEW snap \in Run, NEW new \in Run, run \in Run
    PROVE  Merge(snap, new) \in Run
BY DEF Merge, Written, Run

\* The status after a flush is the one that was set or the one that was there.
LEMMA MergeStatus ==
    ASSUME NEW snap, NEW new
    PROVE  Merge(snap, new).status \in {new.status, run.status}
BY DEF Merge, Written

\* A status event leaves the run well-formed.
LEMMA EventOnRun ==
    ASSUME NEW snap \in Run, NEW status \in RunStatus, NEW stage \in Stages,
           NEW rollback \in Stages \cup {NoStage}, run \in Run,
           run' = Merge(snap, [snap EXCEPT !.status = status, !.current = stage,
                                           !.rollback = rollback,
                                           !.request = RequestAfter(status)])
    PROVE  run' \in Run /\ run'.status \in {status, run.status}
<1> DEFINE new == [snap EXCEPT !.status = status, !.current = stage,
                               !.rollback = rollback, !.request = RequestAfter(status)]
<1>1. new \in Run /\ new.status = status
  BY DEF Run, RequestAfter, RequestStatus
<1> HIDE DEF new
<1>2. run' = Merge(snap, new)
  BY DEF new
<1> QED
  BY <1>1, <1>2, MergeType, MergeStatus

\* Stages have a gate, and no gate is the end of the run.
LEMMA GateStatus ==
    ASSUME NEW c \in Stages
    PROVE  Gate(c) \in RunStatus /\ Gate(c) # "COMPLETED"
BY DEF Gate, RunStatus

\* The table new differs from rs by approvals at most.
Recorded(rs, new) ==
    /\ new \in RowTable
    /\ \A d \in Stages : Len(new[d]) = Len(rs[d])
    /\ \A d \in Stages : \A j \in 1..Len(rs[d]) :
          /\ new[d][j].status = rs[d][j].status
          /\ new[d][j].plan = rs[d][j].plan
          /\ rs[d][j].approved => new[d][j].approved

\* Recording a review touches one row and retracts no approval.
LEMMA ApproveRows ==
    ASSUME NEW rs \in RowTable, NEW c \in Stages, NEW i \in 1..Len(rs[c]), NEW b \in BOOLEAN
    PROVE  /\ Recorded(rs, Approve(rs, c, i, b))
           /\ b => Approve(rs, c, i, b)[c][i].approved
<1> DEFINE r == [rs[c][i] EXCEPT !.approved = rs[c][i].approved \/ b]
<1>1. rs[c][i] \in Row
  BY ElementOfSeq DEF RowTable
<1>2. /\ r \in Row /\ r.status = rs[c][i].status /\ r.plan = rs[c][i].plan
      /\ (rs[c][i].approved \/ b) => r.approved
  BY <1>1 DEF Row
<1>3. Approve(rs, c, i, b) = [rs EXCEPT ![c][i] = r]
  BY DEF Approve
<1> DEFINE new == [rs EXCEPT ![c][i] = r]
<1>4. /\ new \in RowTable
      /\ \A d \in Stages : Len(new[d]) = Len(rs[d])
      /\ \A d \in Stages : \A j \in 1..Len(rs[d]) :
            new[d][j] = IF d = c /\ j = i THEN r ELSE rs[d][j]
  <2> HIDE DEF r
  <2> QED
    BY <1>2, PutRow
<1> HIDE DEF r, new
<1>5. Approve(rs, c, i, b) = new
  BY <1>3 DEF new
<1>6. Recorded(rs, new) /\ (b => new[c][i].approved)
  BY <1>2, <1>4 DEF Recorded
<1> QED
  BY <1>5, <1>6

\* Handing a plan over changes the plan of one processing attempt.
LEMMA HandOverRows ==
    ASSUME NEW rs \in RowTable, NEW p \in 1..Len(rs[PROC]), NEW i \in Nat
    PROVE  LET new == HandOver(rs, p, i) IN
           /\ new \in RowTable
           /\ \A d \in Stages : Len(new[d]) = Len(rs[d])
           /\ \A d \in Stages : \A j \in 1..Len(rs[d]) :
                 /\ new[d][j].status = rs[d][j].status
                 /\ new[d][j].plan \in {rs[d][j].plan, i}
                 /\ new[d][j].approved = rs[d][j].approved
<1> DEFINE r == [rs[PROC][p] EXCEPT !.plan = i]
<1>0. PROC \in Stages
  BY DEF Stages
<1>1. rs[PROC][p] \in Row
  BY <1>0, ElementOfSeq DEF RowTable
<1>2. /\ r \in Row /\ r.status = rs[PROC][p].status /\ r.plan = i
      /\ r.approved = rs[PROC][p].approved
  BY <1>1 DEF Row
<1>3. HandOver(rs, p, i) = [rs EXCEPT ![PROC][p] = r]
  BY DEF HandOver
<1> DEFINE new == [rs EXCEPT ![PROC][p] = r]
<1>4. /\ new \in RowTable
      /\ \A d \in Stages : Len(new[d]) = Len(rs[d])
      /\ \A d \in Stages : \A j \in 1..Len(rs[d]) :
            new[d][j] = IF d = PROC /\ j = p THEN r ELSE rs[d][j]
  <2> HIDE DEF r
  <2> QED
    BY <1>0, <1>2, PutRow
<1> HIDE DEF r, new
<1>5. HandOver(rs, p, i) = new
  BY <1>3 DEF new
<1> QED
  BY <1>2, <1>4, <1>5

\* A rolled back attempt is a row still.
LEMMA RolledBackRow ==
    ASSUME NEW row \in Row
    PROVE  [row EXCEPT !.status = "ROLLED_BACK"] \in Row
BY DEF Row, RowStatus

\* Reopening rolls the attempts that were seen alive back and adds one attempt
\* to the target and to every later stage.
LEMMA ReopenedRows ==
    ASSUME NEW rs \in RowTable, NEW seen \in RowTable, NEW target \in Stages,
           Populated(seen), ~Collides(seen, target),
           \A c \in Stages : Len(rs[c]) = Len(rows[c])
    PROVE  LET new == Reopened(rs, seen, target) IN
           /\ new \in RowTable
           /\ \A c \in Stages \ Downstream(target) : new[c] = rs[c]
           /\ \A c \in Downstream(target) :
                 /\ Len(new[c]) = Len(rs[c]) + 1
                 /\ new[c][Len(rs[c]) + 1] = NewRow(seen[c][Len(seen[c])].plan)
                 /\ \A j \in 1..Len(rs[c]) :
                       /\ new[c][j].status = IF seen[c][j].status \in Live
                                             THEN "ROLLED_BACK" ELSE rs[c][j].status
                       /\ new[c][j].plan = rs[c][j].plan
                       /\ new[c][j].approved = rs[c][j].approved
<1> DEFINE new == Reopened(rs, seen, target)
           kept(c) == [i \in 1..Len(rs[c]) |->
                         IF i \in 1..Len(seen[c]) /\ seen[c][i].status \in Live
                         THEN [rs[c][i] EXCEPT !.status = "ROLLED_BACK"]
                         ELSE rs[c][i]]
           last(c) == NewRow(seen[c][Len(seen[c])].plan)
<1>1. ASSUME NEW c \in Stages
      PROVE  /\ rs[c] \in Seq(Row) /\ Len(rs[c]) \in Nat
             /\ \A i \in 1..Len(rs[c]) : rs[c][i] \in Row
  BY <1>1, ElementOfSeq, LenProperties DEF RowTable
<1>2. ASSUME NEW c \in Stages
      PROVE  kept(c) \in Seq(Row) /\ Len(kept(c)) = Len(rs[c])
  <2>1. ASSUME NEW i \in 1..Len(rs[c])
        PROVE  [rs[c][i] EXCEPT !.status = "ROLLED_BACK"] \in Row
    <3>1. rs[c][i] \in Row
      BY <1>1
    <3> QED
      BY <3>1, RolledBackRow
  <2>2. kept(c) \in [1..Len(rs[c]) -> Row]
    BY <1>1, <2>1
  <2>3. kept(c) \in Seq(Row)
    BY <1>1, <2>2, SeqDef
  <2> QED
    BY <1>1, <2>2, <2>3, LenProperties
<1>3. ASSUME NEW c \in Stages
      PROVE  last(c) \in Row
  <2>1. seen[c][Len(seen[c])] \in Row
    BY ElementOfSeq DEF Populated, RowTable
  <2> QED
    BY <2>1 DEF NewRow, Row, RowStatus
<1>4. ASSUME NEW c \in Downstream(target)
      PROVE  c \in Stages /\ Len(seen[c]) = Len(rs[c])
  BY DEF Downstream, Collides
<1>5. new = [c \in Stages |-> IF c \notin Downstream(target) THEN rs[c]
                             ELSE Append(kept(c), last(c))]
  BY DEF Reopened
<1>6. ASSUME NEW c \in Stages
      PROVE  /\ Append(kept(c), last(c)) \in Seq(Row)
             /\ Len(Append(kept(c), last(c))) = Len(rs[c]) + 1
             /\ Append(kept(c), last(c))[Len(rs[c]) + 1] = last(c)
             /\ \A j \in 1..Len(rs[c]) : Append(kept(c), last(c))[j] = kept(c)[j]
  <2> HIDE DEF kept, last
  <2> QED
    BY <1>1, <1>2, <1>3, AppendProperties
<1>7. ASSUME NEW c \in Downstream(target), NEW j \in 1..Len(rs[c])
      PROVE  /\ kept(c)[j].status = IF seen[c][j].status \in Live
                                    THEN "ROLLED_BACK" ELSE rs[c][j].status
             /\ kept(c)[j].plan = rs[c][j].plan
             /\ kept(c)[j].approved = rs[c][j].approved
  BY <1>1, <1>4 DEF Row
<1> HIDE DEF new, kept, last
<1>8. new \in RowTable
  BY <1>1, <1>5, <1>6 DEF RowTable
<1>9. \A c \in Stages \ Downstream(target) : new[c] = rs[c]
  BY <1>5
<1>10. ASSUME NEW c \in Downstream(target)
       PROVE  /\ Len(new[c]) = Len(rs[c]) + 1
              /\ new[c][Len(rs[c]) + 1] = last(c)
              /\ \A j \in 1..Len(rs[c]) :
                    /\ new[c][j].status = IF seen[c][j].status \in Live
                                          THEN "ROLLED_BACK" ELSE rs[c][j].status
                    /\ new[c][j].plan = rs[c][j].plan
                    /\ new[c][j].approved = rs[c][j].approved
  <2>1. c \in Stages /\ new[c] = Append(kept(c), last(c))
    BY <1>4, <1>5
  <2> QED
    BY <2>1, <1>6, <1>7
<1> QED
  BY <1>8, <1>9, <1>10 DEF new, last

(***************************************************************************)
(* The inductive invariant                                                 *)
(***************************************************************************)

AtWork == {"claimed", "starting", "started", "invoking", "returned", "finishing"}

\* Whatever refers to an attempt of a stage refers to one that exists.
Located ==
    /\ Populated(rows)
    /\ \A k \in Execs :
          /\ task[k].stage \in Stages => task[k].attempt \in 1..Len(rows[task[k].stage])
          /\ task[k].pc \in AtWork => task[k].stage \in Stages
          /\ runtime[k].pc # "off" => runtime[k].stage \in Stages
    /\ \A s \in Sessions :
          /\ \A c \in Stages : Len(session[s].seen[c]) \in 1..Len(rows[c])
          /\ session[s].op = "exhaust" => session[s].attempt \in 1..Len(rows[session[s].stage])

\* A transaction never saw the newest attempt rolled back: together with the
\* uniqueness of attempts it will leave no superseded attempt alive.
SeenCoherently ==
    \A s \in Sessions : \A c \in Stages : \A i \in 1..Len(session[s].seen[c]) :
        session[s].seen[c][i].status = "ROLLED_BACK" => i < Len(session[s].seen[c])

PlanOK(rs, p) == p = 0 \/ (p \in 1..Len(rs[SEL]) /\ rs[SEL][p].approved)

\* Every plan in a stage's input was approved, in the rows, in the copies that
\* transactions hold and will write back, and in the hands of a task.
PlansApproved ==
    /\ \A c \in Stages : \A i \in 1..Len(rows[c]) : PlanOK(rows, rows[c][i].plan)
    /\ \A s \in Sessions : \A c \in Stages : \A i \in 1..Len(session[s].seen[c]) :
          PlanOK(rows, session[s].seen[c][i].plan)
    /\ \A k \in Execs :
          /\ PlanOK(rows, task[k].plan)
          /\ task[k].pc = "invoking" /\ task[k].stage = PROC => task[k].plan # 0

IInv ==
    /\ TypeOK
    /\ Located
    /\ SupersededIsDead
    /\ SeenCoherently
    /\ PlansApproved
    /\ CompletedByFinalApproval

(***************************************************************************)
(* What a step does to the rows                                            *)
(***************************************************************************)

\* No attempt disappears, no approval is retracted, no superseded attempt
\* comes back, and no unapproved plan enters an input.
RowsChange ==
    /\ rows' \in RowTable
    /\ \A c \in Stages : Len(rows'[c]) \in Nat /\ Len(rows'[c]) >= Len(rows[c])
    /\ \A c \in Stages : \A i \in 1..Len(rows[c]) : rows[c][i].approved => rows'[c][i].approved
    /\ SupersededIsDead'
    /\ \A c \in Stages : \A i \in 1..Len(rows'[c]) : PlanOK(rows', rows'[c][i].plan)

LEMMA RowTypes ==
    ASSUME IInv
    PROVE  /\ rows \in RowTable
           /\ \A c \in Stages : Len(rows[c]) \in Nat \ {0}
           /\ \A c \in Stages : \A i \in 1..Len(rows[c]) : rows[c][i] \in Row
           /\ \A c \in Stages : Latest(c) \in Row
BY ElementOfSeq DEF IInv, Located, Populated, RowTable, Latest

LEMMA RowsUnchanged ==
    ASSUME IInv, UNCHANGED rows
    PROVE  RowsChange
<1>1. SupersededIsDead'
  BY DEF IInv, SupersededIsDead, Latest
<1>2. \A c \in Stages : \A i \in 1..Len(rows'[c]) : PlanOK(rows', rows'[c][i].plan)
  BY DEF IInv, PlansApproved
<1> QED
  BY <1>1, <1>2, RowTypes DEF RowsChange

\* Steps that write to existing attempts only.
LEMMA RowsRewritten ==
    ASSUME IInv,
           rows' \in RowTable,
           \A d \in Stages : Len(rows'[d]) = Len(rows[d]),
           \A d \in Stages : \A j \in 1..Len(rows[d]) :
              /\ \/ rows'[d][j].status = rows[d][j].status
                 \/ rows'[d][j].status = "FAILED"
                 \/ j = Len(rows[d]) /\ rows'[d][j].status # "ROLLED_BACK"
              /\ rows[d][j].approved => rows'[d][j].approved
              /\ rows'[d][j].plan = rows[d][j].plan \/ PlanOK(rows', rows'[d][j].plan)
    PROVE  RowsChange
<1>1. SupersededIsDead'
  <2> SUFFICES ASSUME NEW c \in Stages
               PROVE  /\ \A i \in 1..(Len(rows'[c]) - 1) :
                            rows'[c][i].status \in {"ROLLED_BACK", "FAILED"}
                      /\ rows'[c][Len(rows'[c])].status # "ROLLED_BACK"
    BY DEF SupersededIsDead, Latest
  <2>1. /\ \A i \in 1..(Len(rows[c]) - 1) : rows[c][i].status \in {"ROLLED_BACK", "FAILED"}
        /\ rows[c][Len(rows[c])].status # "ROLLED_BACK"
    BY DEF IInv, SupersededIsDead, Latest
  <2> QED
    BY <2>1, RowTypes
<1>2. \A c \in Stages : \A i \in 1..Len(rows'[c]) : PlanOK(rows', rows'[c][i].plan)
  <2>1. SEL \in Stages
    BY DEF Stages
  <2> QED
    BY <2>1, RowTypes DEF IInv, PlansApproved, PlanOK
<1> QED
  BY <1>1, <1>2, RowTypes DEF RowsChange

\* A status event, of a task or of a Runtime, rewrites the newest attempt.
LEMMA LatestRewritten ==
    ASSUME IInv, NEW stage \in Stages, NEW row \in Row
    PROVE  LET put == [rows EXCEPT ![stage][Len(rows[stage])] = row] IN
           /\ put \in RowTable
           /\ \A d \in Stages : Len(put[d]) = Len(rows[d])
           /\ \A d \in Stages : \A j \in 1..Len(rows[d]) :
                 put[d][j] = IF d = stage /\ j = Len(rows[stage]) THEN row ELSE rows[d][j]
<1>1. rows \in RowTable /\ Len(rows[stage]) \in 1..Len(rows[stage])
  BY RowTypes
<1> QED
  BY <1>1, PutRow

LEMMA RowsAfterEvent ==
    ASSUME IInv, NEW stage \in Stages, NEW row \in Row,
           row.status # "ROLLED_BACK",
           row.plan = Latest(stage).plan, row.approved = Latest(stage).approved,
           rows' = [rows EXCEPT ![stage][Len(rows[stage])] = row]
    PROVE  RowsChange
<1> DEFINE put == [rows EXCEPT ![stage][Len(rows[stage])] = row]
<1>1. /\ put \in RowTable
      /\ \A d \in Stages : Len(put[d]) = Len(rows[d])
      /\ \A d \in Stages : \A j \in 1..Len(rows[d]) :
            put[d][j] = IF d = stage /\ j = Len(rows[stage]) THEN row ELSE rows[d][j]
  BY LatestRewritten, Zenon
<1>2. rows' = put
  OBVIOUS
<1> HIDE DEF put
<1>3. ASSUME NEW d \in Stages, NEW j \in 1..Len(rows[d])
      PROVE  /\ \/ rows'[d][j].status = rows[d][j].status
                \/ j = Len(rows[d]) /\ rows'[d][j].status # "ROLLED_BACK"
             /\ rows'[d][j].approved = rows[d][j].approved
             /\ rows'[d][j].plan = rows[d][j].plan
  BY <1>1, <1>2 DEF Latest
<1> QED
  BY <1>1, <1>2, <1>3, RowsRewritten

\* What a transaction saw of the stage rows by the time it commits.
LEMMA SeenFacts ==
    ASSUME IInv, NEW s \in Sessions, NEW seen \in SeenBy(s)
    PROVE  /\ Populated(seen)
           /\ \A c \in Stages : Len(seen[c]) \in 1..Len(rows[c])
           /\ \A c \in Stages : \A i \in 1..Len(seen[c]) :
                 /\ seen[c][i].status = "ROLLED_BACK" => i < Len(seen[c])
                 /\ PlanOK(rows, seen[c][i].plan)
<1>1. \A c \in Stages : seen[c] \in {rows[c], session[s].seen[c]}
  BY DEF SeenBy
<1>2. seen = [c \in Stages |-> seen[c]]
  BY DEF SeenBy
<1>3. session[s].seen \in RowTable
  BY DEF IInv, TypeOK, Session, RowTable
<1>4. seen \in RowTable
  BY <1>1, <1>2, <1>3, RowTypes DEF RowTable
<1>5. ASSUME NEW c \in Stages
      PROVE  Len(seen[c]) \in 1..Len(rows[c]) /\ Len(seen[c]) \in Nat \ {0}
  BY <1>1, RowTypes DEF IInv, Located
<1>6. ASSUME NEW c \in Stages, NEW i \in 1..Len(rows[c]), rows[c][i].status = "ROLLED_BACK"
      PROVE  i < Len(rows[c])
  BY <1>6, RowTypes DEF IInv, SupersededIsDead, Latest
<1>7. ASSUME NEW c \in Stages, NEW i \in 1..Len(seen[c])
      PROVE  /\ seen[c][i].status = "ROLLED_BACK" => i < Len(seen[c])
             /\ PlanOK(rows, seen[c][i].plan)
  BY <1>1, <1>6 DEF IInv, SeenCoherently, PlansApproved
<1> QED
  BY <1>4, <1>5, <1>7 DEF Populated

\* The events of a task.
LEMMA RowsAfterTaskEvent ==
    ASSUME IInv, NEW k \in Execs, DispatchCommit(k) \/ StartCommit(k) \/ FinalCommit(k)
    PROVE  RowsChange
<1> DEFINE stage == task[k].stage
           after(status) == StageAfter(Latest(stage), status)
<1>1. task[k] \in Task
  BY DEF IInv, TypeOK
<1>2. stage \in Stages
  BY <1>1 DEF IInv, Located, AtWork, DispatchCommit, StartCommit, FinalCommit
<1>3. ASSUME NEW status \in {"PENDING", "RUNNING", "COMPLETED", "FAILED"}
      PROVE  /\ after(status) \in Row /\ after(status).status # "ROLLED_BACK"
             /\ after(status).plan = Latest(stage).plan
             /\ after(status).approved = Latest(stage).approved
  <2>1. Latest(stage) \in Row
    BY <1>2, RowTypes
  <2> QED
    BY <2>1 DEF StageAfter, Row, RowStatus
<1>4. \E status \in {"PENDING", "RUNNING", "COMPLETED", "FAILED"} :
         rows' = [rows EXCEPT ![stage][Len(rows[stage])] = after(status)]
  BY DEF DispatchCommit, StartCommit, FinalCommit, PersistEvent
<1> HIDE DEF stage, after
<1> QED
  BY <1>2, <1>3, <1>4, RowsAfterEvent

\* The events of a Runtime.
LEMMA RowsAfterReport ==
    ASSUME IInv, NEW k \in Execs, NEW b \in BOOLEAN, RuntimeWrite(k, b)
    PROVE  RowsChange
<1> DEFINE stage == runtime[k].stage
           row == [Latest(stage) EXCEPT !.status = "RUNNING", !.busy = b]
<1>1. stage \in Stages
  BY DEF IInv, Located, RuntimeWrite
<1>2. Latest(stage) \in Row
  BY <1>1, RowTypes
<1>3. /\ row \in Row /\ row.status = "RUNNING"
      /\ row.plan = Latest(stage).plan /\ row.approved = Latest(stage).approved
  BY <1>2 DEF Row, RowStatus
<1>4. rows' = [rows EXCEPT ![stage][Len(rows[stage])] = row]
  BY DEF RuntimeWrite, PersistEvent
<1> HIDE DEF stage, row
<1> QED
  BY <1>1, <1>3, <1>4, RowsAfterEvent

\* The approvals.
LEMMA RowsAfterApproval ==
    ASSUME IInv, NEW s \in Sessions, ReviewCommit(s)
    PROVE  RowsChange
<1>0. REQ \in Stages /\ SEL \in Stages /\ PROC \in Stages /\ TRUE \in BOOLEAN
  BY DEF Stages
<1>1. CASE ApproveFinal(s)
  <2>1. PICK seen \in SeenBy(s) : rows' = Approve(rows, PROC, Len(seen[PROC]), TRUE)
    BY <1>1 DEF ApproveFinal
  <2>2. Len(seen[PROC]) \in 1..Len(rows[PROC])
    BY <1>0, SeenFacts
  <2> DEFINE i == Len(seen[PROC])
             appr == Approve(rows, PROC, i, TRUE)
  <2>3. /\ appr \in RowTable
        /\ \A d \in Stages : Len(appr[d]) = Len(rows[d])
        /\ \A d \in Stages : \A j \in 1..Len(rows[d]) :
              /\ appr[d][j].status = rows[d][j].status
              /\ appr[d][j].plan = rows[d][j].plan
              /\ rows[d][j].approved => appr[d][j].approved
    <3> HIDE DEF i
    <3>1. rows \in RowTable
      BY RowTypes
    <3>2. i \in 1..Len(rows[PROC])
      BY <2>2 DEF i
    <3>3. Recorded(rows, appr)
      BY <1>0, <3>1, <3>2, ApproveRows
    <3> QED
      BY <3>3 DEF Recorded
  <2> HIDE DEF appr
  <2>4. rows' = appr
    BY <2>1 DEF appr
  <2> QED
    BY <2>3, <2>4, RowsRewritten
<1>2. CASE ApproveAnalysis(s)
  <2>1. PICK seen \in SeenBy(s) :
           rows' = [rows EXCEPT ![REQ][Len(seen[REQ])].approved = TRUE,
                                ![REQ][Len(seen[REQ])].busy = seen[REQ][Len(seen[REQ])].busy]
    BY <1>2 DEF ApproveAnalysis
  <2> DEFINE i == Len(seen[REQ])
             row == [rows[REQ][i] EXCEPT !.approved = TRUE, !.busy = seen[REQ][i].busy]
             put == [rows EXCEPT ![REQ][i] = row]
  <2>2. i \in 1..Len(rows[REQ]) /\ seen[REQ] \in Seq(Row) /\ i \in 1..Len(seen[REQ])
    BY <1>0, SeenFacts DEF Populated, RowTable
  <2>3. rows[REQ][i] \in Row /\ seen[REQ][i] \in Row
    BY <1>0, <2>2, RowTypes, ElementOfSeq
  <2>4. /\ row \in Row /\ row.status = rows[REQ][i].status /\ row.plan = rows[REQ][i].plan
        /\ row.approved
    BY <2>3 DEF Row
  <2>5. rows' = put
    BY <2>1
  <2>6. /\ put \in RowTable
        /\ \A d \in Stages : Len(put[d]) = Len(rows[d])
        /\ \A d \in Stages : \A j \in 1..Len(rows[d]) :
              put[d][j] = IF d = REQ /\ j = i THEN row ELSE rows[d][j]
    <3> HIDE DEF i, row
    <3> QED
      BY <1>0, <2>2, <2>4, RowTypes, PutRow
  <2> HIDE DEF i, row, put
  <2>7. \A d \in Stages : \A j \in 1..Len(rows[d]) :
           /\ rows'[d][j].status = rows[d][j].status
           /\ rows'[d][j].plan = rows[d][j].plan
           /\ rows[d][j].approved => rows'[d][j].approved
    BY <2>4, <2>5, <2>6
  <2> QED
    BY <2>5, <2>6, <2>7, RowsRewritten
<1>3. CASE ApproveSelection(s)
  <2>1. CASE UNCHANGED rows
    BY <2>1, RowsUnchanged
  <2>2. ASSUME NEW seen \in SeenBy(s), NEW p \in Highest(Pending(seen, PROC)),
               rows' = HandOver(Approve(rows, SEL, Len(seen[SEL]), TRUE), p, Len(seen[SEL]))
        PROVE  RowsChange
    <3> DEFINE i == Len(seen[SEL])
               appr == Approve(rows, SEL, i, TRUE)
    <3>1. i \in 1..Len(rows[SEL]) /\ i \in Nat
      BY <1>0, SeenFacts, RowTypes
    <3>2. p \in 1..Len(rows[PROC])
      BY <1>0, <2>2, SeenFacts, RowTypes DEF Highest, Pending
    <3>3. /\ appr \in RowTable
          /\ \A d \in Stages : Len(appr[d]) = Len(rows[d])
          /\ \A d \in Stages : \A j \in 1..Len(rows[d]) :
                /\ appr[d][j].status = rows[d][j].status
                /\ appr[d][j].plan = rows[d][j].plan
                /\ rows[d][j].approved => appr[d][j].approved
          /\ appr[SEL][i].approved
      <4> HIDE DEF i
      <4>1. rows \in RowTable
        BY RowTypes
      <4>2. i \in 1..Len(rows[SEL])
        BY <3>1
      <4>3. Recorded(rows, appr) /\ appr[SEL][i].approved
        BY <1>0, <4>1, <4>2, ApproveRows
      <4> QED
        BY <4>3 DEF Recorded
    <3>4. rows' = HandOver(appr, p, i)
      BY <2>2
    <3> HIDE DEF i, appr
    <3>5. /\ rows' \in RowTable
          /\ \A d \in Stages : Len(rows'[d]) = Len(appr[d])
          /\ \A d \in Stages : \A j \in 1..Len(appr[d]) :
                /\ rows'[d][j].status = appr[d][j].status
                /\ rows'[d][j].plan \in {appr[d][j].plan, i}
                /\ rows'[d][j].approved = appr[d][j].approved
      <4>1. appr \in RowTable /\ p \in 1..Len(appr[PROC]) /\ i \in Nat
        BY <1>0, <3>1, <3>2, <3>3
      <4> QED
        BY <3>4, <4>1, HandOverRows
    <3>6. PlanOK(rows', i)
      BY <1>0, <3>1, <3>3, <3>5 DEF PlanOK
    <3>7. \A d \in Stages : \A j \in 1..Len(rows[d]) :
             /\ rows'[d][j].status = rows[d][j].status
             /\ rows[d][j].approved => rows'[d][j].approved
             /\ rows'[d][j].plan = rows[d][j].plan \/ PlanOK(rows', rows'[d][j].plan)
      <4> SUFFICES ASSUME NEW d \in Stages, NEW j \in 1..Len(rows[d])
                   PROVE  /\ rows'[d][j].status = rows[d][j].status
                          /\ rows[d][j].approved => rows'[d][j].approved
                          /\ rows'[d][j].plan = rows[d][j].plan \/ PlanOK(rows', rows'[d][j].plan)
        OBVIOUS
      <4>1. /\ appr[d][j].status = rows[d][j].status
            /\ appr[d][j].plan = rows[d][j].plan
            /\ rows[d][j].approved => appr[d][j].approved
            /\ j \in 1..Len(appr[d])
        BY <3>3
      <4>2. /\ rows'[d][j].status = appr[d][j].status
            /\ rows'[d][j].plan \in {appr[d][j].plan, i}
            /\ rows'[d][j].approved = appr[d][j].approved
        BY <3>5, <4>1
      <4> QED
        BY <3>6, <4>1, <4>2
    <3>8. \A d \in Stages : Len(rows'[d]) = Len(rows[d])
      BY <3>3, <3>5
    <3> QED
      BY <3>5, <3>7, <3>8, RowsRewritten
  <2> QED
    BY <1>3, <2>1, <2>2 DEF ApproveSelection, Abandon
<1> QED
  BY <1>1, <1>2, <1>3 DEF ReviewCommit

\* The monitor gives up on a stage.
LEMMA RowsAfterExhaust ==
    ASSUME IInv, ExhaustCommit
    PROVE  RowsChange
<1> DEFINE x == session[Monitor]
           c == x.stage
           i == x.attempt
           row == [rows[c][i] EXCEPT !.status = "FAILED"]
           put == [rows EXCEPT ![c][i] = row]
<1>1. x \in Session /\ Monitor \in Sessions
  BY DEF IInv, TypeOK, Sessions
<1>2. c \in Stages /\ i \in 1..Len(rows[c])
  BY <1>1 DEF ExhaustCommit, IInv, Located, Session
<1>3. rows[c][i] \in Row
  BY <1>2, RowTypes
<1>4. /\ row \in Row /\ row.status = "FAILED" /\ row.plan = rows[c][i].plan
      /\ row.approved = rows[c][i].approved
  BY <1>3 DEF Row, RowStatus
<1>5. rows' = put
  BY DEF ExhaustCommit
<1>6. rows \in RowTable
  BY RowTypes
<1>7. /\ put \in RowTable
      /\ \A d \in Stages : Len(put[d]) = Len(rows[d])
      /\ \A d \in Stages : \A j \in 1..Len(rows[d]) :
            put[d][j] = IF d = c /\ j = i THEN row ELSE rows[d][j]
  <2> HIDE DEF c, i, row
  <2> QED
    BY <1>2, <1>4, <1>6, PutRow
<1> HIDE DEF c, i, row, put
<1>8. ASSUME NEW d \in Stages, NEW j \in 1..Len(rows[d])
      PROVE  /\ \/ rows'[d][j].status = rows[d][j].status
                \/ rows'[d][j].status = "FAILED"
             /\ rows'[d][j].approved = rows[d][j].approved
             /\ rows'[d][j].plan = rows[d][j].plan
  BY <1>4, <1>5, <1>7
<1> QED
  BY <1>5, <1>7, <1>8, RowsRewritten

\* Rejection, retry and recovery.
LEMMA RowsAfterReopen ==
    ASSUME IInv, NEW s \in Sessions, ReopenCommit(s)
    PROVE  RowsChange
<1> DEFINE x == session[s]
<1>1. x \in Session
  BY DEF IInv, TypeOK
<1>2. x.stage \in Stages /\ x.target \in Stages /\ x.consent \in BOOLEAN
  BY <1>1 DEF Session
<1>3. CASE UNCHANGED rows
  BY <1>3, RowsUnchanged
<1>4. ASSUME NEW seen \in SeenBy(s), ~Collides(seen, x.target),
             rows' = Reopened(Approve(rows, x.stage, Len(seen[x.stage]), x.consent),
                              seen, x.target)
      PROVE  RowsChange
  <2> DEFINE target == x.target
             rs == Approve(rows, x.stage, Len(seen[x.stage]), x.consent)
             new == Reopened(rs, seen, target)
  <2>1. rows \in RowTable /\ Len(seen[x.stage]) \in 1..Len(rows[x.stage])
    BY <1>2, SeenFacts, RowTypes
  <2>2. /\ rs \in RowTable
        /\ \A d \in Stages : Len(rs[d]) = Len(rows[d])
        /\ \A d \in Stages : \A j \in 1..Len(rows[d]) :
              /\ rs[d][j].status = rows[d][j].status
              /\ rs[d][j].plan = rows[d][j].plan
              /\ rows[d][j].approved => rs[d][j].approved
    <3>1. Recorded(rows, rs)
      <4> HIDE DEF x
      <4> QED
        BY <1>2, <2>1, ApproveRows
    <3> QED
      BY <3>1 DEF Recorded
  <2>3. target \in Stages /\ seen \in RowTable /\ Populated(seen) /\ ~Collides(seen, target)
    BY <1>2, <1>4, SeenFacts DEF Populated
  <2>4. rows' = new
    BY <1>4
  <2> HIDE DEF x, rs, target
  <2>5. /\ new \in RowTable
        /\ \A c \in Stages \ Downstream(target) : new[c] = rs[c]
        /\ \A c \in Downstream(target) :
              /\ Len(new[c]) = Len(rs[c]) + 1
              /\ new[c][Len(rs[c]) + 1] = NewRow(seen[c][Len(seen[c])].plan)
              /\ \A j \in 1..Len(rs[c]) :
                    /\ new[c][j].status = IF seen[c][j].status \in Live
                                          THEN "ROLLED_BACK" ELSE rs[c][j].status
                    /\ new[c][j].plan = rs[c][j].plan
                    /\ new[c][j].approved = rs[c][j].approved
    BY <2>2, <2>3, ReopenedRows
  <2> HIDE DEF new
  <2>6. ASSUME NEW c \in Downstream(target)
        PROVE  /\ c \in Stages
               /\ Len(seen[c]) = Len(rows[c]) /\ Len(seen[c]) \in Nat \ {0}
               /\ \A j \in 1..Len(rows[c]) :
                     seen[c][j].status \notin Live =>
                        seen[c][j].status = "ROLLED_BACK" /\ j < Len(rows[c])
    <3>1. c \in Stages /\ Len(seen[c]) = Len(rows[c])
      BY <2>3 DEF Downstream, Collides
    <3>2. ASSUME NEW j \in 1..Len(seen[c])
          PROVE  /\ seen[c][j].status \in RowStatus
                 /\ seen[c][j].status = "ROLLED_BACK" => j < Len(seen[c])
      <4>1. seen[c] \in Seq(Row)
        BY <2>3, <3>1 DEF RowTable
      <4>2. seen[c][j] \in Row
        BY <4>1, ElementOfSeq
      <4> QED
        BY <3>1, <4>2, SeenFacts DEF Row
    <3>3. Len(seen[c]) \in Nat \ {0}
      BY <3>1, RowTypes
    <3> QED
      BY <3>1, <3>2, <3>3 DEF Live
  <2>6a. ASSUME NEW c \in Downstream(target)
        PROVE  /\ Len(new[c]) = Len(rows[c]) + 1
               /\ new[c][Len(rows[c]) + 1].status = "PENDING"
               /\ new[c][Len(rows[c]) + 1].plan = seen[c][Len(seen[c])].plan
               /\ \A j \in 1..Len(rows[c]) :
                     new[c][j].status = IF seen[c][j].status \in Live
                                        THEN "ROLLED_BACK" ELSE rows[c][j].status
    <3>1. c \in Stages /\ Len(rs[c]) = Len(rows[c])
      BY <2>2, <2>6
    <3>2. /\ Len(new[c]) = Len(rs[c]) + 1
          /\ new[c][Len(rs[c]) + 1] = NewRow(seen[c][Len(seen[c])].plan)
          /\ \A j \in 1..Len(rs[c]) :
                new[c][j].status = IF seen[c][j].status \in Live
                                   THEN "ROLLED_BACK" ELSE rs[c][j].status
      BY <2>5
    <3> QED
      BY <2>2, <3>1, <3>2 DEF NewRow
  <2>7. ASSUME NEW c \in Stages
        PROVE  /\ Len(new[c]) \in Nat /\ Len(new[c]) >= Len(rows[c])
               /\ \A j \in 1..Len(rows[c]) :
                     /\ rows[c][j].approved => new[c][j].approved
                     /\ new[c][j].plan = rows[c][j].plan
    BY <2>2, <2>5, RowTypes
  <2>8. ASSUME NEW c \in Stages
        PROVE  /\ \A i \in 1..(Len(new[c]) - 1) : new[c][i].status \in {"ROLLED_BACK", "FAILED"}
               /\ new[c][Len(new[c])].status # "ROLLED_BACK"
    <3>1. /\ \A i \in 1..(Len(rows[c]) - 1) : rows[c][i].status \in {"ROLLED_BACK", "FAILED"}
          /\ rows[c][Len(rows[c])].status # "ROLLED_BACK"
          /\ Len(rows[c]) \in Nat \ {0}
      BY RowTypes DEF IInv, SupersededIsDead, Latest
    <3>2. CASE c \notin Downstream(target)
      BY <3>1, <3>2, <2>2, <2>5
    <3>3. CASE c \in Downstream(target)
      <4>1. Len(new[c]) = Len(rows[c]) + 1 /\ new[c][Len(new[c])].status = "PENDING"
        BY <3>3, <2>6a
      <4>2. ASSUME NEW i \in 1..Len(rows[c])
            PROVE  new[c][i].status \in {"ROLLED_BACK", "FAILED"}
        BY <3>1, <3>3, <2>6, <2>6a
      <4> QED
        BY <4>1, <4>2, <3>1
    <3> QED
      BY <3>2, <3>3
  <2>9. ASSUME NEW p, PlanOK(rows, p)
        PROVE  PlanOK(new, p)
    <3>1. SEL \in Stages
      BY DEF Stages
    <3> QED
      BY <2>7, <2>9, <3>1, RowTypes DEF PlanOK
  <2>10. ASSUME NEW c \in Stages, NEW i \in 1..Len(new[c])
         PROVE  PlanOK(new, new[c][i].plan)
    <3>1. CASE i \in 1..Len(rows[c])
      <4>1. PlanOK(rows, rows[c][i].plan)
        BY <3>1 DEF IInv, PlansApproved
      <4> QED
        BY <2>7, <2>9, <3>1, <4>1
    <3>2. CASE i \notin 1..Len(rows[c])
      <4>1. c \in Downstream(target) /\ i = Len(rows[c]) + 1
        BY <2>2, <2>5, <3>2, RowTypes
      <4>2. new[c][i].plan = seen[c][Len(seen[c])].plan
        BY <2>6a, <4>1
      <4>3. PlanOK(rows, seen[c][Len(seen[c])].plan)
        <5>1. c \in Stages /\ Len(seen[c]) \in 1..Len(seen[c])
          BY <2>6, <4>1
        <5> QED
          BY <5>1, SeenFacts
      <4> QED
        BY <2>9, <4>2, <4>3
    <3> QED
      BY <3>1, <3>2
  <2>11. SupersededIsDead'
    BY <2>4, <2>8 DEF SupersededIsDead, Latest
  <2> QED
    BY <2>4, <2>5, <2>7, <2>10, <2>11 DEF RowsChange
<1> QED
  BY <1>3, <1>4 DEF ReopenCommit, Abandon

LEMMA RowsStep ==
    ASSUME IInv, Next
    PROVE  RowsChange
<1>1. CASE \E k \in Execs : TaskStep(k) \/ RuntimeStep(k)
  <2>1. PICK k \in Execs : TaskStep(k) \/ RuntimeStep(k)
    BY <1>1
  <2>2. CASE DispatchCommit(k) \/ StartCommit(k) \/ FinalCommit(k)
    BY <2>2, RowsAfterTaskEvent
  <2>3. CASE \E b \in BOOLEAN : RuntimeWrite(k, b)
    BY <2>3, RowsAfterReport
  <2>4. CASE UNCHANGED rows
    BY <2>4, RowsUnchanged
  <2> QED
    BY <2>1, <2>2, <2>3, <2>4
       DEF TaskStep, RuntimeStep, DispatchRead, DispatchFails, StartRead, Invoke, PayloadFails,
           AgentReturns, FinalRead, RuntimeRead, RuntimeEnds
<1>2. CASE \E s \in Reviewer : ReviewRead(s) \/ RecoverRead(s) \/ ReviewCommit(s)
  BY <1>2, RowsAfterApproval, RowsUnchanged DEF ReviewRead, RecoverRead, Sessions
<1>3. CASE \E s \in Sessions : SessionCommit(s)
  BY <1>3, RowsAfterReopen, RowsUnchanged DEF SessionCommit, ScheduleFails
<1>4. CASE StaleRead \/ Crash
  BY <1>4, RowsUnchanged DEF StaleRead, Crash
<1>5. CASE ExhaustCommit
  BY <1>5, RowsAfterExhaust
<1> QED
  BY <1>1, <1>2, <1>3, <1>4, <1>5 DEF Next

(***************************************************************************)
(* What a step does to the tasks and the Runtimes                          *)
(***************************************************************************)

\* A task keeps to an existing attempt and to an approved plan.
TaskFine(t) ==
    /\ t \in Task
    /\ t.stage \in Stages => t.attempt \in 1..Len(rows[t.stage])
    /\ t.pc \in AtWork => t.stage \in Stages
    /\ PlanOK(rows, t.plan)
    /\ t.pc = "invoking" /\ t.stage = PROC => t.plan # 0

LEMMA TaskNow ==
    ASSUME IInv
    PROVE  /\ task = [k \in Execs |-> task[k]]
           /\ \A k \in Execs : TaskFine(task[k])
BY DEF IInv, TypeOK, Located, PlansApproved, TaskFine

LEMMA IdleTasks ==
    TaskFine(NoTask) /\ TaskFine(Scheduled) /\ TaskFine(Finished)
BY DEF TaskFine, NoTask, Scheduled, Finished, NewRun, Task, TaskPc, Verdict, Run, RunStatus,
       RequestStatus, Stages, AtWork, PlanOK, REQ, SEL, PROC, DISPATCH

LEMMA TaskStepFine ==
    ASSUME IInv, NEW k \in Execs, TaskStep(k)
    PROVE  \E t : TaskFine(t) /\ task' = [task EXCEPT ![k] = t]
<1> DEFINE t == task[k]
<1>1. t \in Task /\ TaskFine(t)
  BY TaskNow DEF TaskFine
<1>2. run \in Run /\ NewRun \in Run
  BY DEF IInv, TypeOK, NewRun, Run, RunStatus, RequestStatus, Stages, REQ
<1>3. CASE DispatchRead(k)
  <2>1. PICK i \in IF Claim = DISPATCH THEN {0} ELSE Lowest(Pending(rows, Claim)) :
           task' = [task EXCEPT ![k] =
              [@ EXCEPT !.pc = "dispatching", !.exec = run.exec, !.snap = run,
                        !.stage = Claim, !.attempt = i]]
    BY <1>3 DEF DispatchRead
  <2> DEFINE new == [t EXCEPT !.pc = "dispatching", !.exec = run.exec, !.snap = run,
                              !.stage = Claim, !.attempt = i]
  <2>2. Claim \in Stages \cup {DISPATCH}
    BY <1>2 DEF Claim, Stages, Run, NoStage
  <2>3. Claim \in Stages => i \in 1..Len(rows[Claim])
    BY <2>1 DEF Lowest, Pending, Stages, REQ, SEL, PROC, DISPATCH
  <2>4. i \in Nat
    BY <2>1, <2>2, <2>3, RowTypes
  <2>5. TaskFine(new)
    BY <1>1, <1>2, <2>2, <2>3, <2>4 DEF TaskFine, Task, TaskPc, AtWork, Run
  <2> QED
    BY <2>1, <2>5
<1>4. CASE DispatchFails(k) \/ PayloadFails(k) \/ FinalCommit(k)
  BY <1>4, IdleTasks DEF DispatchFails, PayloadFails, FinalCommit
<1>5. CASE DispatchCommit(k)
  <2> DEFINE new == [t EXCEPT !.pc = "claimed", !.snap = NewRun]
  <2>1. TaskFine(new)
    BY <1>1, <1>2, <1>5 DEF DispatchCommit, TaskFine, Task, TaskPc, AtWork
  <2> QED
    BY <1>5, <2>1 DEF DispatchCommit
<1>6. CASE StartRead(k)
  <2> DEFINE p == rows[t.stage][t.attempt].plan
             new == [t EXCEPT !.pc = IF run.exec = t.exec THEN "starting" ELSE "started",
                              !.snap = IF run.exec = t.exec THEN run ELSE NewRun,
                              !.plan = p]
  <2>1. t.stage \in Stages /\ t.attempt \in 1..Len(rows[t.stage])
    BY <1>1, <1>6 DEF StartRead, TaskFine, AtWork
  <2>2. PlanOK(rows, p) /\ p \in Nat
    BY <2>1, RowTypes DEF IInv, PlansApproved, Row
  <2>3. TaskFine(new)
    <3> HIDE DEF p
    <3> QED
      BY <1>1, <1>2, <2>1, <2>2 DEF TaskFine, Task, TaskPc, AtWork
  <2> QED
    BY <1>6, <2>3 DEF StartRead
<1>7. CASE StartCommit(k)
  <2> DEFINE p == IF t.attempt = Len(rows[t.stage]) THEN Latest(t.stage).plan ELSE t.plan
             new == [t EXCEPT !.pc = "started", !.snap = NewRun, !.plan = p]
  <2>1. t.stage \in Stages /\ t.attempt \in 1..Len(rows[t.stage])
    BY <1>1, <1>7 DEF StartCommit, TaskFine, AtWork
  <2>2. PlanOK(rows, p) /\ p \in Nat
    <3>1. PlanOK(rows, Latest(t.stage).plan) /\ Latest(t.stage).plan \in Nat
      BY <2>1, RowTypes DEF IInv, PlansApproved, Row, Latest
    <3>2. PlanOK(rows, t.plan) /\ t.plan \in Nat
      BY <1>1 DEF TaskFine, Task
    <3> QED
      BY <3>1, <3>2
  <2>3. TaskFine(new)
    <3> HIDE DEF p
    <3> QED
      BY <1>1, <1>2, <2>1, <2>2 DEF TaskFine, Task, TaskPc, AtWork
  <2> QED
    BY <1>7, <2>3 DEF StartCommit
<1>8. CASE Invoke(k)
  <2> DEFINE new == [t EXCEPT !.pc = "invoking"]
  <2>1. t.stage \in Stages /\ (t.stage = PROC => t.plan # 0)
    BY <1>1, <1>8 DEF Invoke, InputsReady, TaskFine, AtWork
  <2>2. TaskFine(new)
    BY <1>1, <2>1 DEF TaskFine, Task, TaskPc, AtWork
  <2> QED
    BY <1>8, <2>2 DEF Invoke
<1>9. CASE AgentReturns(k)
  <2>1. PICK v \in {"PASSED"} \cup (StageFailure(task[k].stage) \cap AgentFailure) :
           task' = [task EXCEPT ![k].pc = "returned", ![k].verdict = v]
    BY <1>9 DEF AgentReturns
  <2> DEFINE new == [t EXCEPT !.pc = "returned", !.verdict = v]
  <2>2. TaskFine(new)
    BY <1>1, <1>9, <2>1 DEF AgentReturns, TaskFine, Task, TaskPc, AtWork, Verdict
  <2> QED
    BY <2>1, <2>2
<1>10. CASE FinalRead(k)
  <2> DEFINE new == [t EXCEPT !.pc = "finishing", !.snap = run]
  <2>1. TaskFine(new)
    BY <1>1, <1>2, <1>10 DEF FinalRead, TaskFine, Task, TaskPc, AtWork
  <2>2. task' = [task EXCEPT ![k] = new] \/ task' = [task EXCEPT ![k] = Finished]
    BY <1>10 DEF FinalRead
  <2> QED
    BY <2>1, <2>2, IdleTasks
<1> QED
  BY <1>3, <1>4, <1>5, <1>6, <1>7, <1>8, <1>9, <1>10 DEF TaskStep

LEMMA TasksStep ==
    ASSUME IInv, Next
    PROVE  task' \in [Execs -> Task] /\ \A k \in Execs : TaskFine(task'[k])
<1>1. ASSUME NEW k \in Execs, NEW t, TaskFine(t), task' = [task EXCEPT ![k] = t]
      PROVE  task' \in [Execs -> Task] /\ \A j \in Execs : TaskFine(task'[j])
  BY <1>1, TaskNow DEF TaskFine
<1>2. CASE UNCHANGED task
  BY <1>2, TaskNow DEF TaskFine
<1>3. ASSUME NEW k \in Execs, TaskStep(k)
      PROVE  task' \in [Execs -> Task] /\ \A j \in Execs : TaskFine(task'[j])
  BY <1>1, <1>3, TaskStepFine
<1>4. ASSUME NEW s \in Sessions, NEW new, Redispatch(s, new)
      PROVE  task' \in [Execs -> Task] /\ \A j \in Execs : TaskFine(task'[j])
  <2>1. CASE task' = [task EXCEPT ![lastExec + 1] = Scheduled]
    <3>1. lastExec + 1 \in Execs
      BY <1>4, ExecBound DEF Redispatch, Reissue, Execs, IInv, TypeOK
    <3> QED
      BY <1>1, <2>1, <3>1, IdleTasks
  <2> QED
    BY <1>2, <1>4, <2>1 DEF Redispatch
<1>5. CASE Crash
  BY <1>5, IdleTasks DEF Crash, TaskFine
<1>6. CASE \E k \in Execs : RuntimeStep(k)
  BY <1>2, <1>6 DEF RuntimeStep, RuntimeRead, RuntimeWrite, RuntimeEnds
<1>7. CASE \E s \in Reviewer : ReviewRead(s) \/ RecoverRead(s)
  BY <1>2, <1>7 DEF ReviewRead, RecoverRead
<1>8. CASE \E s \in Sessions : ReviewCommit(s)
  BY <1>2, <1>4, <1>8 DEF ReviewCommit, ApproveFinal, ApproveAnalysis, ApproveSelection, Abandon
<1>9. CASE \E s \in Sessions : SessionCommit(s)
  BY <1>2, <1>4, <1>9 DEF SessionCommit, ReopenCommit, ScheduleFails, Abandon
<1>10. CASE StaleRead \/ ExhaustCommit
  BY <1>2, <1>10 DEF StaleRead, ExhaustCommit
<1> QED
  BY <1>3, <1>5, <1>6, <1>7, <1>8, <1>9, <1>10 DEF Next, Sessions

RuntimeFine(r) == r \in Runtime /\ (r.pc # "off" => r.stage \in Stages)

LEMMA RuntimesStep ==
    ASSUME IInv, Next
    PROVE  runtime' \in [Execs -> Runtime] /\ \A k \in Execs : RuntimeFine(runtime'[k])
<1> DEFINE Goal == runtime' \in [Execs -> Runtime] /\ \A k \in Execs : RuntimeFine(runtime'[k])
<1> SUFFICES Goal
  OBVIOUS
<1>0. /\ runtime \in [Execs -> Runtime]
      /\ \A k \in Execs : RuntimeFine(runtime[k])
  BY DEF IInv, TypeOK, Located, RuntimeFine
<1>1. RuntimeFine(NoRuntime) /\ run \in Run /\ NewRun \in Run
  BY DEF RuntimeFine, NoRuntime, Runtime, NewRun, Run, RunStatus, RequestStatus, Stages, REQ,
         DISPATCH, IInv, TypeOK
<1>2. ASSUME NEW k \in Execs, NEW r, RuntimeFine(r), runtime' = [runtime EXCEPT ![k] = r]
      PROVE  Goal
  BY <1>0, <1>2 DEF RuntimeFine
<1>3. CASE UNCHANGED runtime
  BY <1>0, <1>3
<1>4. ASSUME NEW k \in Execs, Invoke(k)
      PROVE  Goal
  <2> DEFINE r == [pc |-> "up", exec |-> task[k].exec, stage |-> task[k].stage, snap |-> NewRun]
  <2>1. TaskFine(task[k]) /\ task[k].pc \in AtWork
    BY <1>4, TaskNow DEF Invoke, AtWork
  <2>2. RuntimeFine(r)
    BY <1>1, <2>1 DEF RuntimeFine, Runtime, TaskFine, Task
  <2>3. runtime' = [runtime EXCEPT ![k] = r]
    BY <1>4 DEF Invoke
  <2> HIDE DEF r, Goal
  <2> QED
    BY <1>2, <2>2, <2>3
<1>5. ASSUME NEW k \in Execs, RuntimeRead(k)
      PROVE  Goal
  <2> DEFINE r == [runtime[k] EXCEPT !.pc = "writing", !.snap = run]
  <2>1. RuntimeFine(r)
    BY <1>0, <1>1, <1>5 DEF RuntimeRead, RuntimeFine, Runtime
  <2>2. runtime' = [runtime EXCEPT ![k] = r]
    BY <1>5 DEF RuntimeRead
  <2> HIDE DEF r, Goal
  <2> QED
    BY <1>2, <2>1, <2>2
<1>6. ASSUME NEW k \in Execs, NEW b \in BOOLEAN, RuntimeWrite(k, b)
      PROVE  Goal
  <2> DEFINE r == [runtime[k] EXCEPT !.pc = "up", !.snap = NewRun]
  <2>1. RuntimeFine(r)
    BY <1>0, <1>1, <1>6 DEF RuntimeWrite, RuntimeFine, Runtime
  <2>2. runtime' = [runtime EXCEPT ![k] = r]
    BY <1>6 DEF RuntimeWrite
  <2> HIDE DEF r, Goal
  <2> QED
    BY <1>2, <2>1, <2>2
<1>7. ASSUME NEW k \in Execs, AgentReturns(k) \/ RuntimeEnds(k)
      PROVE  Goal
  BY <1>1, <1>2, <1>3, <1>7 DEF AgentReturns, RuntimeEnds
<1>8. CASE Crash
  BY <1>0, <1>1, <1>8 DEF Crash, RuntimeFine
<1> HIDE DEF Goal
<1>9. ASSUME NEW k \in Execs, TaskStep(k) \/ RuntimeStep(k)
      PROVE  Goal
  <2>1. CASE RuntimeStep(k)
    BY <1>5, <1>6, <1>7, <2>1 DEF RuntimeStep
  <2>2. CASE Invoke(k) \/ AgentReturns(k)
    BY <1>4, <1>7, <2>2
  <2>3. CASE TaskStep(k) /\ ~Invoke(k) /\ ~AgentReturns(k)
    <3>1. UNCHANGED runtime
      BY <2>3 DEF TaskStep, DispatchRead, DispatchFails, DispatchCommit, StartRead, StartCommit,
                  PayloadFails, FinalRead, FinalCommit
    <3> QED
      BY <1>3, <3>1
  <2> QED
    BY <1>9, <2>1, <2>2, <2>3
<1>10. CASE \E s \in Reviewer : ReviewRead(s) \/ RecoverRead(s) \/ ReviewCommit(s)
  BY <1>3, <1>10
     DEF ReviewRead, RecoverRead, ReviewCommit, ApproveFinal, ApproveAnalysis, ApproveSelection,
         Redispatch, Abandon
<1>11. CASE \E s \in Sessions : SessionCommit(s)
  BY <1>3, <1>11 DEF SessionCommit, ReopenCommit, ScheduleFails, Redispatch, Abandon
<1>12. CASE StaleRead \/ ExhaustCommit
  BY <1>3, <1>12 DEF StaleRead, ExhaustCommit
<1> QED
  BY <1>8, <1>9, <1>10, <1>11, <1>12 DEF Next

(***************************************************************************)
(* What a step does to the transactions in progress                        *)
(***************************************************************************)

\* A transaction saw attempts that exist, the newest one not rolled back and
\* every plan approved.
SessionFine(x) ==
    /\ x \in Session
    /\ \A c \in Stages :
          /\ Len(x.seen[c]) \in 1..Len(rows[c])
          /\ \A i \in 1..Len(x.seen[c]) :
                /\ x.seen[c][i].status = "ROLLED_BACK" => i < Len(x.seen[c])
                /\ PlanOK(rows, x.seen[c][i].plan)
    /\ x.op = "exhaust" => x.attempt \in 1..Len(rows[x.stage])

LEMMA SessionsNow ==
    ASSUME IInv
    PROVE  /\ session \in [Sessions -> Session]
           /\ \A s \in Sessions : SessionFine(session[s])
BY DEF IInv, TypeOK, Located, SeenCoherently, PlansApproved, SessionFine

LEMMA NewRowTypes ==
    /\ \A c \in Stages : NewRows[c] = <<NewRow(0)>>
    /\ NewRow(0) \in Row /\ NewRow(0).status = "PENDING" /\ NewRow(0).plan = 0
    /\ NewRows \in RowTable
    /\ \A c \in Stages : Len(NewRows[c]) = 1
    /\ NewRun \in Run
<1>1. \A c \in Stages : NewRows[c] = <<NewRow(0)>>
  BY DEF NewRows
<1>2. NewRow(0) \in Row /\ NewRow(0).status = "PENDING" /\ NewRow(0).plan = 0
  BY DEF NewRow, Row, RowStatus
<1>3. <<NewRow(0)>> \in Seq(Row) /\ Len(<<NewRow(0)>>) = 1
  BY <1>2
<1>4. NewRows \in RowTable
  BY <1>3 DEF NewRows, RowTable
<1>5. NewRun \in Run
  BY DEF NewRun, Run, RunStatus, RequestStatus, Stages, REQ
<1> QED
  BY <1>1, <1>2, <1>3, <1>4, <1>5

LEMMA IdleSession ==
    ASSUME IInv, NEW x \in Session, x.seen = NewRows, x.op = "approve"
    PROVE  SessionFine(x)
<1>1. ASSUME NEW c \in Stages
      PROVE  /\ Len(NewRows[c]) \in 1..Len(rows[c])
             /\ \A i \in 1..Len(NewRows[c]) :
                   /\ NewRows[c][i].status # "ROLLED_BACK"
                   /\ PlanOK(rows, NewRows[c][i].plan)
  <2>1. Len(NewRows[c]) = 1 /\ NewRows[c][1] = NewRow(0)
    BY NewRowTypes
  <2> QED
    BY <2>1, NewRowTypes, RowTypes DEF PlanOK
<1> QED
  BY <1>1 DEF SessionFine

LEMMA NoSessionTypes ==
    /\ NoSession \in Session
    /\ NoSession.seen = NewRows /\ NoSession.op = "approve"
BY NewRowTypes DEF NoSession, Session, Op, Stages, REQ, RowTable

\* Opening a transaction, with the stage it is about.
LEMMA OpenSession ==
    ASSUME IInv, NEW op \in Op, NEW stage \in Stages, NEW target \in Stages, NEW attempt \in Nat,
           NEW consent \in BOOLEAN,
           op = "exhaust" => attempt \in 1..Len(rows[stage])
    PROVE  SessionFine([pc |-> "open", op |-> op, stage |-> stage, target |-> target,
                        attempt |-> attempt, consent |-> consent, snap |-> run, seen |-> rows])
<1> DEFINE x == [pc |-> "open", op |-> op, stage |-> stage, target |-> target,
                 attempt |-> attempt, consent |-> consent, snap |-> run, seen |-> rows]
<1>1. run \in Run /\ rows \in [Stages -> Seq(Row)]
  BY DEF IInv, TypeOK
<1>2. x \in Session
  BY <1>1 DEF Session
<1>3. ASSUME NEW c \in Stages
      PROVE  /\ Len(rows[c]) \in 1..Len(rows[c])
             /\ \A i \in 1..Len(rows[c]) :
                   /\ rows[c][i].status = "ROLLED_BACK" => i < Len(rows[c])
                   /\ PlanOK(rows, rows[c][i].plan)
  BY RowTypes DEF IInv, SupersededIsDead, Latest, PlansApproved
<1>4. x.seen = rows /\ x.op = op /\ x.attempt = attempt /\ x.stage = stage
  OBVIOUS
<1> HIDE DEF x
<1>5. SessionFine(x)
  BY <1>2, <1>3, <1>4 DEF SessionFine
<1> QED
  BY <1>5 DEF x

LEMMA SessionsStep ==
    ASSUME IInv, Next
    PROVE  session' \in [Sessions -> Session] /\ \A s \in Sessions : SessionFine(session'[s])
<1> DEFINE Goal == session' \in [Sessions -> Session] /\ \A s \in Sessions : SessionFine(session'[s])
<1> SUFFICES Goal
  OBVIOUS
<1>0. SessionFine(NoSession)
  BY IdleSession, NoSessionTypes
<1>1. ASSUME NEW s \in Sessions, NEW x, SessionFine(x), session' = [session EXCEPT ![s] = x]
      PROVE  Goal
  BY <1>1, SessionsNow DEF SessionFine
<1>2. CASE UNCHANGED session
  BY <1>2, SessionsNow
<1> HIDE DEF Goal
<1>3. ASSUME NEW s \in Sessions, session' = [session EXCEPT ![s] = NoSession]
      PROVE  Goal
  BY <1>0, <1>1, <1>3
<1>4. ASSUME NEW s \in Sessions, NEW op \in Op, NEW stage \in Stages, NEW target \in Stages,
             NEW attempt \in Nat, NEW consent \in BOOLEAN,
             op = "exhaust" => attempt \in 1..Len(rows[stage]),
             Open(s, op, stage, target, attempt, consent)
      PROVE  Goal
  <2> DEFINE x == [pc |-> "open", op |-> op, stage |-> stage, target |-> target,
                   attempt |-> attempt, consent |-> consent, snap |-> run, seen |-> rows]
  <2>1. SessionFine(x)
    BY <1>4, OpenSession
  <2>2. session' = [session EXCEPT ![s] = x]
    BY <1>4 DEF Open
  <2> HIDE DEF x
  <2> QED
    BY <1>1, <2>1, <2>2
<1>5. /\ {"approve", "reject", "retry", "recover", "requeue", "exhaust"} = Op
      /\ REQ \in Stages /\ TRUE \in BOOLEAN /\ FALSE \in BOOLEAN /\ 0 \in Nat
  BY DEF Op, Stages
<1>6. ASSUME NEW s \in Sessions, ReviewRead(s)
      PROVE  Goal
  <2>1. ASSUME NEW c \in Stages, Open(s, "approve", c, c, 0, TRUE)
        PROVE  Goal
    BY <1>4, <1>5, <2>1
  <2>2. ASSUME NEW c \in Stages, NEW code, 
               Open(s, "reject", c, IF code = "NONE" THEN c ELSE RollbackTarget(code), 0, FALSE)
        PROVE  Goal
    <3> DEFINE target == IF code = "NONE" THEN c ELSE RollbackTarget(code)
    <3>1. target \in Stages
      BY DEF RollbackTarget, Stages
    <3> HIDE DEF target
    <3>2. Open(s, "reject", c, target, 0, FALSE)
      BY <2>2 DEF target
    <3> QED
      BY <1>4, <1>5, <3>1, <3>2
  <2>3. ASSUME Retryable, NEW b \in BOOLEAN,
               LET c == IF run.rollback # NoStage THEN run.rollback ELSE run.current
               IN  Open(s, "retry", c, c, 0, b)
        PROVE  Goal
    <3> DEFINE c == IF run.rollback # NoStage THEN run.rollback ELSE run.current
    <3>1. c \in Stages
      BY <2>3 DEF Retryable, IInv, TypeOK, Run
    <3>2. Open(s, "retry", c, c, 0, b)
      BY <2>3
    <3> HIDE DEF c
    <3> QED
      BY <1>4, <1>5, <3>1, <3>2
  <2> QED
    BY <1>6, <2>1, <2>2, <2>3 DEF ReviewRead
<1>7. ASSUME NEW s \in Sessions, RecoverRead(s)
      PROVE  Goal
  <2>1. Open(s, "recover", REQ, REQ, 0, FALSE)
    BY <1>7 DEF RecoverRead
  <2> QED
    BY <1>4, <1>5, <2>1
<1>8. CASE StaleRead
  <2>1. ASSUME NEW c \in Stages, NEW i \in Running(c),
               Open(Monitor, IF i < MaxAuto THEN "requeue" ELSE "exhaust", c, c, i, FALSE)
        PROVE  Goal
    <3> DEFINE op == IF i < MaxAuto THEN "requeue" ELSE "exhaust"
    <3>1. Monitor \in Sessions /\ i \in 1..Len(rows[c]) /\ i \in Nat
      BY <2>1, RowTypes DEF Sessions, Running
    <3>2. op \in Op
      BY DEF Op
    <3> HIDE DEF op
    <3>3. Open(Monitor, op, c, c, i, FALSE)
      BY <2>1 DEF op
    <3> QED
      BY <1>4, <1>5, <3>1, <3>2, <3>3
  <2> QED
    BY <1>8, <2>1 DEF StaleRead
<1>9. ASSUME NEW s \in Sessions, NEW new \in Run, Redispatch(s, new)
      PROVE  Goal
  <2> DEFINE snap == [new EXCEPT !.exec = lastExec + 1]
             x == [NoSession EXCEPT !.pc = "unscheduled", !.snap = snap]
  <2>1. snap \in Run
    <3>1. lastExec + 1 \in Nat \ {0}
      BY ExecBound DEF IInv, TypeOK, Execs
    <3> QED
      BY <3>1 DEF Run
  <2>2. SessionFine(x)
    <3>1. x \in Session /\ x.seen = NewRows /\ x.op = "approve"
      <4> HIDE DEF snap
      <4> QED
        BY <2>1, NoSessionTypes DEF Session
    <3> HIDE DEF x
    <3> QED
      BY <3>1, IdleSession
  <2>3. session' = [session EXCEPT ![s] = x] \/ session' = [session EXCEPT ![s] = NoSession]
    BY <1>9 DEF Redispatch
  <2> HIDE DEF x
  <2> QED
    BY <1>1, <1>3, <2>2, <2>3
<1>10. ASSUME NEW s \in Sessions, NEW target \in Stages, NEW rollback \in Stages \cup {NoStage}
       PROVE  Queued(session[s].snap, target, rollback) \in Run
  <2>1. session[s].snap \in Run
    BY SessionsNow DEF Session
  <2> QED
    BY <2>1 DEF Queued, Run, RunStatus
<1>11. ASSUME NEW s \in Sessions, ReviewCommit(s)
       PROVE  Goal
  <2>1. SEL \in Stages /\ PROC \in Stages /\ NoStage \in Stages \cup {NoStage}
    BY DEF Stages
  <2> QED
    BY <1>3, <1>9, <1>10, <1>11, <2>1
       DEF ReviewCommit, ApproveFinal, ApproveAnalysis, ApproveSelection, Abandon
<1>12. ASSUME NEW s \in Sessions, SessionCommit(s)
       PROVE  Goal
  <2>1. session[s].target \in Stages
    BY SessionsNow DEF Session
  <2> QED
    BY <1>3, <1>9, <1>10, <1>12, <2>1 DEF SessionCommit, ReopenCommit, ScheduleFails, Abandon
<1>13. CASE ExhaustCommit
  BY <1>3, <1>13 DEF ExhaustCommit, Sessions
<1>14. CASE Crash
  BY <1>0, <1>14 DEF Crash, SessionFine, Goal
<1>15. CASE \E k \in Execs : TaskStep(k) \/ RuntimeStep(k)
  BY <1>2, <1>15
     DEF TaskStep, RuntimeStep, DispatchRead, DispatchFails, DispatchCommit, StartRead, StartCommit,
         Invoke, PayloadFails, AgentReturns, FinalRead, FinalCommit, RuntimeRead, RuntimeWrite,
         RuntimeEnds
<1> QED
  BY <1>6, <1>7, <1>8, <1>11, <1>12, <1>13, <1>14, <1>15 DEF Next, Sessions

(***************************************************************************)
(* What a step does to the run                                             *)
(***************************************************************************)

\* The run stays a run and is not completed by the step.
RunKept ==
    /\ run' \in Run
    /\ lastExec' \in Execs
    /\ run'.status = "COMPLETED" => run.status = "COMPLETED"

LEMMA RunFlushed ==
    ASSUME IInv, NEW snap \in Run, NEW new \in Run, new.status # "COMPLETED",
           run' = Merge(snap, new), lastExec' \in Execs
    PROVE  RunKept
<1>1. run \in Run
  BY DEF IInv, TypeOK
<1> QED
  BY <1>1, MergeType, MergeStatus DEF RunKept

LEMMA RunAfterEvent ==
    ASSUME IInv, NEW snap \in Run, NEW status \in RunStatus, status # "COMPLETED",
           NEW stage \in Stages, NEW rollback \in Stages \cup {NoStage}, NEW row,
           PersistEvent(snap, status, stage, rollback, row), UNCHANGED lastExec
    PROVE  RunKept
<1>1. run \in Run /\ lastExec \in Execs
  BY DEF IInv, TypeOK
<1> QED
  BY <1>1, EventOnRun DEF PersistEvent, RunKept

LEMMA RunAfterTaskStep ==
    ASSUME IInv, NEW k \in Execs, TaskStep(k)
    PROVE  RunKept
<1>1. TaskFine(task[k]) /\ task[k].snap \in Run /\ task[k].verdict \in Verdict
  BY TaskNow DEF TaskFine, Task
<1>2. CASE UNCHANGED <<run, lastExec>>
  BY <1>2 DEF RunKept, IInv, TypeOK
<1>3. CASE DispatchFails(k)
  <2> DEFINE new == [task[k].snap EXCEPT !.status = "FAILED", !.current = DISPATCH,
                                         !.rollback = NoStage, !.request = "FAILED"]
  <2>1. new \in Run /\ new.status = "FAILED"
    BY <1>1 DEF Run, RunStatus, RequestStatus
  <2>2. run' = Merge(task[k].snap, new) /\ lastExec' \in Execs
    BY <1>3 DEF DispatchFails, IInv, TypeOK
  <2> HIDE DEF new
  <2> QED
    BY <1>1, <2>1, <2>2, RunFlushed
<1>4. task[k].pc \in AtWork \/ DispatchCommit(k) => task[k].stage \in Stages
  BY <1>1 DEF TaskFine, DispatchCommit
<1>5. NoStage \in Stages \cup {NoStage} /\ "RUNNING" \in RunStatus /\ "FAILED" \in RunStatus
  BY DEF RunStatus
<1>6. CASE DispatchCommit(k)
  BY <1>1, <1>4, <1>5, <1>6, RunAfterEvent DEF DispatchCommit
<1>7. CASE StartCommit(k)
  BY <1>1, <1>4, <1>5, <1>7, RunAfterEvent DEF StartCommit, AtWork
<1>8. CASE FinalCommit(k)
  <2> DEFINE t == task[k]
             back == FailureRollback(t.stage, t.verdict)
  <2>1. t.stage \in Stages /\ Gate(t.stage) \in RunStatus /\ Gate(t.stage) # "COMPLETED"
    BY <1>4, <1>8, GateStatus DEF FinalCommit, AtWork
  <2>2. back \in Stages
    BY <2>1 DEF FailureRollback, RollbackTarget, Stages
  <2>3. CASE PersistEvent(t.snap, Gate(t.stage), t.stage, NoStage,
                          StageAfter(Latest(t.stage), "COMPLETED"))
    BY <1>1, <1>5, <1>8, <2>1, <2>3, RunAfterEvent DEF FinalCommit
  <2>4. CASE PersistEvent(t.snap, "FAILED", t.stage, back, StageAfter(Latest(t.stage), "FAILED"))
    BY <1>1, <1>5, <1>8, <2>1, <2>2, <2>4, RunAfterEvent DEF FinalCommit
  <2> QED
    BY <1>8, <2>3, <2>4 DEF FinalCommit
<1> QED
  BY <1>2, <1>3, <1>6, <1>7, <1>8
     DEF TaskStep, DispatchRead, StartRead, Invoke, PayloadFails, AgentReturns, FinalRead

LEMMA RunAfterRedispatch ==
    ASSUME IInv, NEW s \in Sessions, NEW new \in Run, new.status # "COMPLETED",
           Redispatch(s, new)
    PROVE  RunKept
<1> DEFINE next == [new EXCEPT !.exec = lastExec + 1]
<1>1. lastExec \in Nat /\ lastExec + 1 \in Nat \ {0} /\ lastExec' \in Execs
  BY ExecBound DEF Redispatch, Reissue, IInv, TypeOK, Execs
<1>2. next \in Run /\ next.status # "COMPLETED"
  BY <1>1 DEF Run
<1>3. session[s].snap \in Run
  BY SessionsNow DEF Session
<1>4. run' = Merge(session[s].snap, next)
  BY DEF Redispatch, Reissue
<1> HIDE DEF next
<1> QED
  BY <1>1, <1>2, <1>3, <1>4, RunFlushed

\* Only the approval of processing completes the run.
LEMMA RunStep ==
    ASSUME IInv, Next
    PROVE  \/ RunKept
           \/ \E s \in Sessions : ApproveFinal(s) /\ run' \in Run /\ lastExec' \in Execs
<1>1. ASSUME UNCHANGED <<run, lastExec>>
      PROVE  RunKept
  BY <1>1 DEF RunKept, IInv, TypeOK
<1>2. ASSUME NEW k \in Execs, TaskStep(k)
      PROVE  RunKept
  BY <1>2, RunAfterTaskStep
<1>3. ASSUME NEW k \in Execs, NEW b \in BOOLEAN, RuntimeWrite(k, b)
      PROVE  RunKept
  <2>1. runtime[k].stage \in Stages /\ runtime[k].snap \in Run
    BY <1>3 DEF RuntimeWrite, IInv, TypeOK, Located, Runtime
  <2>2. NoStage \in Stages \cup {NoStage} /\ "RUNNING" \in RunStatus
    BY DEF RunStatus
  <2> QED
    BY <1>3, <2>1, <2>2, RunAfterEvent DEF RuntimeWrite
<1>4. CASE \E k \in Execs : RuntimeStep(k)
  BY <1>1, <1>3, <1>4 DEF RuntimeStep, RuntimeRead, RuntimeEnds
<1>5. ASSUME NEW s \in Sessions, NEW target \in Stages, NEW rollback \in Stages \cup {NoStage},
             Redispatch(s, Queued(session[s].snap, target, rollback))
      PROVE  RunKept
  <2> DEFINE new == Queued(session[s].snap, target, rollback)
  <2>1. new \in Run /\ new.status # "COMPLETED"
    <3>1. session[s].snap \in Run
      BY SessionsNow DEF Session
    <3> QED
      BY <3>1 DEF Queued, Run, RunStatus
  <2>2. Redispatch(s, new)
    BY <1>5
  <2> HIDE DEF new
  <2> QED
    BY <2>1, <2>2, RunAfterRedispatch
<1>6. ASSUME NEW s \in Sessions, ApproveFinal(s)
      PROVE  run' \in Run /\ lastExec' \in Execs
  <2> DEFINE new == [session[s].snap EXCEPT !.status = "COMPLETED", !.current = PROC,
                                            !.rollback = NoStage, !.request = "COMPLETED"]
  <2>1. session[s].snap \in Run
    BY SessionsNow DEF Session
  <2>2. new \in Run
    BY <2>1 DEF Run, RunStatus, RequestStatus, Stages
  <2>3. run' = Merge(session[s].snap, new)
    BY <1>6 DEF ApproveFinal
  <2> HIDE DEF new
  <2> QED
    BY <1>6, <2>1, <2>2, <2>3, MergeType DEF ApproveFinal, IInv, TypeOK
<1>7. ASSUME NEW s \in Sessions, ApproveAnalysis(s) \/ ApproveSelection(s)
      PROVE  RunKept
  <2>1. SEL \in Stages /\ PROC \in Stages /\ NoStage \in Stages \cup {NoStage}
    BY DEF Stages
  <2>2. \/ UNCHANGED <<run, lastExec>>
        \/ Redispatch(s, Queued(session[s].snap, SEL, NoStage))
        \/ Redispatch(s, Queued(session[s].snap, PROC, NoStage))
    BY <1>7 DEF ApproveAnalysis, ApproveSelection, Abandon
  <2>3. CASE UNCHANGED <<run, lastExec>>
    BY <1>1, <2>3
  <2>4. CASE Redispatch(s, Queued(session[s].snap, SEL, NoStage))
    BY <1>5, <2>1, <2>4
  <2>5. CASE Redispatch(s, Queued(session[s].snap, PROC, NoStage))
    BY <1>5, <2>1, <2>5
  <2> QED
    BY <2>2, <2>3, <2>4, <2>5
<1>8. ASSUME NEW s \in Sessions, ReopenCommit(s)
      PROVE  RunKept
  <2>1. session[s].target \in Stages
    BY SessionsNow DEF Session
  <2>2. \/ UNCHANGED <<run, lastExec>>
        \/ Redispatch(s, Queued(session[s].snap, session[s].target, session[s].target))
    BY <1>8 DEF ReopenCommit, Abandon
  <2>3. session[s].target \in Stages \cup {NoStage}
    BY <2>1
  <2>4. CASE UNCHANGED <<run, lastExec>>
    BY <1>1, <2>4
  <2>5. CASE Redispatch(s, Queued(session[s].snap, session[s].target, session[s].target))
    BY <1>5, <2>1, <2>3, <2>5
  <2> QED
    BY <2>2, <2>4, <2>5
<1>9. ASSUME NEW s \in Sessions, ScheduleFails(s)
      PROVE  RunKept
  <2> DEFINE new == [session[s].snap EXCEPT !.status = "FAILED", !.current = DISPATCH]
  <2>1. session[s].snap \in Run
    BY SessionsNow DEF Session
  <2>2. new \in Run /\ new.status # "COMPLETED"
    BY <2>1 DEF Run, RunStatus
  <2>3. run' = Merge(session[s].snap, new) /\ lastExec' \in Execs
    BY <1>9 DEF ScheduleFails, IInv, TypeOK
  <2> HIDE DEF new
  <2> QED
    BY <2>1, <2>2, <2>3, RunFlushed
<1>10. CASE ExhaustCommit
  <2> DEFINE x == session[Monitor]
             new == [x.snap EXCEPT !.status = "FAILED", !.current = x.stage,
                                   !.request = "FAILED"]
  <2>1. x.snap \in Run /\ x.stage \in Stages
    BY SessionsNow DEF Session, Sessions
  <2>2. new \in Run /\ new.status # "COMPLETED"
    BY <2>1 DEF Run, RunStatus, RequestStatus
  <2>3. run' = Merge(x.snap, new) /\ lastExec' \in Execs
    BY <1>10 DEF ExhaustCommit, IInv, TypeOK
  <2> HIDE DEF new, x
  <2> QED
    BY <2>1, <2>2, <2>3, RunFlushed
<1>11. CASE StaleRead \/ Crash \/ \E s \in Sessions : ReviewRead(s) \/ RecoverRead(s)
  BY <1>1, <1>11 DEF StaleRead, Crash, ReviewRead, RecoverRead
<1>12. ASSUME NEW s \in Sessions, ReviewCommit(s) \/ SessionCommit(s)
       PROVE  RunKept \/ ApproveFinal(s)
  BY <1>7, <1>8, <1>9, <1>12 DEF ReviewCommit, SessionCommit
<1> QED
  BY <1>2, <1>4, <1>6, <1>10, <1>11, <1>12 DEF Next, Sessions

(***************************************************************************)
(* The invariant is inductive                                              *)
(***************************************************************************)

\* An approved plan stays approved, whatever happens to the rows.
LEMMA PlanKept ==
    ASSUME IInv, RowsChange, NEW p, PlanOK(rows, p)
    PROVE  PlanOK(rows', p)
<1>1. SEL \in Stages
  BY DEF Stages
<1>2. Len(rows[SEL]) \in Nat /\ Len(rows'[SEL]) \in Nat /\ Len(rows'[SEL]) >= Len(rows[SEL])
  BY <1>1, RowTypes DEF RowsChange
<1>3. \A i \in 1..Len(rows[SEL]) : rows[SEL][i].approved => rows'[SEL][i].approved
  BY <1>1 DEF RowsChange
<1> QED
  BY <1>2, <1>3 DEF PlanOK

\* An attempt that exists goes on existing.
LEMMA PlaceKept ==
    ASSUME IInv, RowsChange, NEW c \in Stages, NEW i, i \in 1..Len(rows[c])
    PROVE  i \in 1..Len(rows'[c])
<1>1. Len(rows[c]) \in Nat /\ Len(rows'[c]) \in Nat /\ Len(rows'[c]) >= Len(rows[c])
  BY RowTypes DEF RowsChange
<1> QED
  BY <1>1

LEMMA InitIInv ==
    ASSUME Init
    PROVE  IInv
<1>1. /\ \A c \in Stages : rows[c] = <<NewRow(0)>> /\ Len(rows[c]) = 1
      /\ rows[REQ][1].plan = 0
      /\ \A c \in Stages : rows[c][1] = NewRow(0)
      /\ rows \in RowTable
  BY NewRowTypes DEF Init, Stages
<1>2. run \in Run /\ run.status # "COMPLETED"
  BY NewRowTypes DEF Init, Run, NewRun, RunStatus, RequestStatus
<1>3. /\ \A k \in Execs : task[k] = NoTask \/ task[k] = Scheduled
      /\ task \in [Execs -> Task]
  BY NewRowTypes DEF Init, NoTask, Scheduled, Task, TaskPc, Verdict
<1>4. /\ \A k \in Execs : runtime[k] = NoRuntime
      /\ runtime \in [Execs -> Runtime]
  BY NewRowTypes DEF Init, NoRuntime, Runtime
<1>5. /\ \A s \in Sessions : session[s] = NoSession
      /\ session \in [Sessions -> Session]
  BY NoSessionTypes DEF Init
<1>6. lastExec \in Execs
  BY ExecBound DEF Init, Execs
<1>7. TypeOK
  BY <1>1, <1>2, <1>3, <1>4, <1>5, <1>6 DEF TypeOK, RowTable
<1>8. Populated(rows)
  BY <1>1 DEF Populated
<1>9. ASSUME NEW k \in Execs
      PROVE  /\ task[k].stage = DISPATCH /\ task[k].plan = 0
             /\ task[k].pc \in {"idle", "scheduled"}
             /\ runtime[k].pc = "off"
  BY <1>3, <1>4 DEF NoTask, Scheduled, NoRuntime
<1>10. ASSUME NEW s \in Sessions, NEW c \in Stages
       PROVE  /\ session[s].op = "approve" /\ Len(session[s].seen[c]) = 1
              /\ session[s].seen[c][1] = NewRow(0)
  BY <1>5, NoSessionTypes, NewRowTypes
<1>11. DISPATCH \notin Stages
  BY DEF DISPATCH, Stages, REQ, SEL, PROC
<1>12. Located
  BY <1>1, <1>8, <1>9, <1>10, <1>11, <1>5, NoSessionTypes DEF Located, AtWork
<1>13. SupersededIsDead /\ CompletedByFinalApproval
  BY <1>1, <1>2, NewRowTypes DEF SupersededIsDead, Latest, CompletedByFinalApproval
<1>14. SeenCoherently
  BY <1>10, NewRowTypes DEF SeenCoherently
<1>15. PlansApproved
  BY <1>1, <1>9, <1>10, NewRowTypes DEF PlansApproved, PlanOK
<1> QED
  BY <1>7, <1>12, <1>13, <1>14, <1>15 DEF IInv

LEMMA StepIInv ==
    ASSUME IInv, Next
    PROVE  IInv'
<1>1. RowsChange
  BY RowsStep
<1>2. task' \in [Execs -> Task] /\ \A k \in Execs : TaskFine(task'[k])
  BY TasksStep
<1>3. runtime' \in [Execs -> Runtime] /\ \A k \in Execs : RuntimeFine(runtime'[k])
  BY RuntimesStep
<1>4. session' \in [Sessions -> Session] /\ \A s \in Sessions : SessionFine(session'[s])
  BY SessionsStep
<1>5. run' \in Run /\ lastExec' \in Execs
  BY RunStep DEF RunKept
<1>6. TypeOK'
  BY <1>1, <1>2, <1>3, <1>4, <1>5 DEF TypeOK, RowsChange, RowTable
<1>7. Populated(rows)'
  <2>1. \A c \in Stages : Len(rows'[c]) \in Nat \ {0}
    BY <1>1, RowTypes DEF RowsChange
  <2> QED
    BY <1>1, <2>1 DEF Populated, RowsChange
<1>8. ASSUME NEW k \in Execs
      PROVE  /\ task'[k].stage \in Stages => task'[k].attempt \in 1..Len(rows'[task'[k].stage])
             /\ task'[k].pc \in AtWork => task'[k].stage \in Stages
             /\ runtime'[k].pc # "off" => runtime'[k].stage \in Stages
             /\ PlanOK(rows', task'[k].plan)
             /\ task'[k].pc = "invoking" /\ task'[k].stage = PROC => task'[k].plan # 0
  BY <1>1, <1>2, <1>3, PlanKept, PlaceKept DEF TaskFine, RuntimeFine
<1>9. ASSUME NEW s \in Sessions
      PROVE  /\ \A c \in Stages :
                   /\ Len(session'[s].seen[c]) \in 1..Len(rows'[c])
                   /\ \A i \in 1..Len(session'[s].seen[c]) :
                         /\ session'[s].seen[c][i].status = "ROLLED_BACK"
                               => i < Len(session'[s].seen[c])
                         /\ PlanOK(rows', session'[s].seen[c][i].plan)
             /\ session'[s].op = "exhaust" =>
                   session'[s].attempt \in 1..Len(rows'[session'[s].stage])
  <2>1. SessionFine(session'[s]) /\ session'[s].stage \in Stages
    BY <1>4 DEF SessionFine, Session
  <2> QED
    BY <1>1, <2>1, PlanKept, PlaceKept DEF SessionFine
<1>10. Located'
  BY <1>7, <1>8, <1>9 DEF Located
<1>11. SeenCoherently'
  BY <1>9 DEF SeenCoherently
<1>12. PlansApproved'
  BY <1>1, <1>8, <1>9 DEF PlansApproved, RowsChange
<1>13. CompletedByFinalApproval'
  <2>0. PROC \in Stages
    BY DEF Stages
  <2>1. CASE RunKept
    <3> SUFFICES ASSUME run'.status = "COMPLETED"
                 PROVE  \E i \in 1..Len(rows'[PROC]) : rows'[PROC][i].approved
      BY DEF CompletedByFinalApproval
    <3>1. PICK i \in 1..Len(rows[PROC]) : rows[PROC][i].approved
      BY <2>1 DEF RunKept, IInv, CompletedByFinalApproval
    <3>2. i \in 1..Len(rows'[PROC])
      BY <1>1, <2>0, PlaceKept
    <3>3. rows'[PROC][i].approved
      BY <1>1, <2>0, <3>1 DEF RowsChange
    <3> QED
      BY <3>2, <3>3
  <2>2. ASSUME NEW s \in Sessions, ApproveFinal(s)
        PROVE  CompletedByFinalApproval'
    <3>1. PICK seen \in SeenBy(s) : rows' = Approve(rows, PROC, Len(seen[PROC]), TRUE)
      BY <2>2 DEF ApproveFinal
    <3> DEFINE i == Len(seen[PROC])
    <3>2. i \in 1..Len(rows[PROC])
      BY <2>0, SeenFacts
    <3>3. rows \in RowTable /\ TRUE \in BOOLEAN
      BY RowTypes
    <3>4. rows' = Approve(rows, PROC, i, TRUE)
      BY <3>1
    <3> HIDE DEF i
    <3>5. rows'[PROC][i].approved
      BY <2>0, <3>2, <3>3, <3>4, ApproveRows
    <3>6. i \in 1..Len(rows'[PROC])
      BY <1>1, <2>0, <3>2, PlaceKept
    <3> QED
      BY <3>5, <3>6 DEF CompletedByFinalApproval
  <2> QED
    BY <2>1, <2>2, RunStep
<1> QED
  BY <1>1, <1>6, <1>10, <1>11, <1>12, <1>13 DEF IInv, RowsChange

LEMMA StutterIInv ==
    ASSUME IInv, UNCHANGED vars
    PROVE  IInv'
BY DEF IInv, TypeOK, Located, Populated, SupersededIsDead, Latest, SeenCoherently, PlansApproved,
       PlanOK, CompletedByFinalApproval, vars

(***************************************************************************)
(* Theorems                                                                *)
(***************************************************************************)

\* Every reachable state satisfies the inductive invariant: whatever refers to
\* an attempt refers to one that exists, no transaction saw the newest attempt
\* rolled back, and every plan in circulation was approved.
THEOREM Invariance == Spec => []IInv
<1>1. Init => IInv
  BY InitIInv
<1>2. IInv /\ [Next]_vars => IInv'
  BY StepIInv, StutterIInv
<1> QED
  BY <1>1, <1>2, PTL DEF Spec

\* The rows, and what tasks, Runtimes and transactions hold of them, always
\* have their types, for any number of reviewers and dispatches.
THEOREM TypeCorrect == Spec => []TypeOK
<1>1. IInv => TypeOK
  BY DEF IInv
<1> QED
  BY <1>1, Invariance, PTL

\* No superseded attempt of a stage is ever PENDING, RUNNING or COMPLETED
\* again, whatever crashes, late reports, hasty recoveries and concurrent
\* reviews interleave: the unique constraint on (run, stage, attempt) and the
\* lookup of the newest attempt at the commit are enough, without any lock.
THEOREM NoResurrection == Spec => []SupersededIsDead
<1>1. IInv => SupersededIsDead
  BY DEF IInv
<1> QED
  BY <1>1, Invariance, PTL

\* Every plan in the input of a processing attempt is the plan of a selection
\* attempt that a reviewer approved.
THEOREM OnlyApprovedPlans == Spec => []PlanWasApproved
<1>1. PROC \in Stages
  BY DEF Stages
<1>2. IInv => PlanWasApproved
  BY <1>1 DEF IInv, PlansApproved, PlanOK, PlanWasApproved
<1> QED
  BY <1>2, Invariance, PTL

\* The processing agent is only ever invoked on the plan of a selection attempt
\* that a reviewer approved.
THEOREM ProcessingIsSanctioned == Spec => []ProcessesApprovedPlan
<1>1. IInv => ProcessesApprovedPlan
  BY DEF IInv, PlansApproved, PlanOK, ProcessesApprovedPlan
<1> QED
  BY <1>1, Invariance, PTL

\* A run is COMPLETED only when a reviewer approved a processing attempt, and
\* no later event or recovery retracts that approval.
THEOREM CompletionIsApproved == Spec => []CompletedByFinalApproval
<1>1. IInv => CompletedByFinalApproval
  BY DEF IInv
<1> QED
  BY <1>1, Invariance, PTL
=============================================================================
