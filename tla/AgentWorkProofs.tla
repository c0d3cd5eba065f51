--------------------------- MODULE AgentWorkProofs ---------------------------
(***************************************************************************)
(* Proofs about AgentWork for every database, every set of answers and any *)
(* number of attempts: nobody can be singled out in what is read, no       *)
(* attempt reaches an agent twice, every prompt is told of the attempt it  *)
(* repeats, and the checklist on the screen agrees with the outcome.       *)
(***************************************************************************)
EXTENDS AgentWork, FiniteSetTheorems, SequenceTheorems, TLAPS

(***************************************************************************)
(* Groups: rows that agree belong to the same group.                       *)
(***************************************************************************)

\* The group of a row is the group of every row that agrees with it.
LEMMA AgreeingRowsShareAGroup ==
    ASSUME NEW S, NEW D, NEW r, NEW q, Agree(r, q, D)
    PROVE  {p \in S : Agree(q, p, D)} = {p \in S : Agree(r, p, D)}
BY DEF Agree

\* So a row that agrees with a safe one is safe itself (rule B).
LEMMA SafetyIsShared ==
    ASSUME NEW S, NEW D, NEW r, NEW q,
           Agree(r, q, D), SafeCombination(r, S, D)
    PROVE  SafeCombination(q, S, D)
<1>1. {p \in S : Agree(q, p, D)} = {p \in S : Agree(r, p, D)}
  BY AgreeingRowsShareAGroup
<1>2. \A c \in D : q[c] # Null
  BY DEF Agree, SafeCombination
<1> QED
  BY <1>1, <1>2 DEF SafeCombination

\* Taking the unsafe rows out leaves the groups of the safe ones whole.
LEMMA GroupsStayWhole ==
    ASSUME NEW S, NEW D, NEW r, SafeCombination(r, S, D)
    PROVE  {q \in {p \in S : SafeCombination(p, S, D)} : Agree(r, q, D)}
              = {q \in S : Agree(r, q, D)}
BY SafetyIsShared

(***************************************************************************)
(* Nobody is singled out                                                   *)
(***************************************************************************)

\* What is read is nothing or what the approved selection gives, and what is
\* approved has passed the contract of the first step.
Sanctioned ==
    /\ agent = "processing" => approved \in Approvable
    /\ retrieved \in {{}, Retrieved(approved)}

\* The columns of an approvable selection are those of an accepted source.
LEMMA ApprovedColumns ==
    ASSUME NEW s \in Approvable
    PROVE  Cardinality(Persons(s.columns)) >= 2 => Identifiers(s.columns) = {}
<1>1. PICK a \in Answers["SOURCE_COLUMN_SELECTION"], d \in Answers["DERIVED_COLUMN_DESIGN"] :
         /\ SourceAccepted(a, Schema)
         /\ s = Merge(Prepared(a, Schema), DerivedResult(d, Prepared(a, Schema)))
  BY DEF Approvable
<1>2. s.columns = Prepared(a, Schema).columns
  BY <1>1 DEF Merge
<1>3. \/ Cardinality(Persons(s.columns)) < 2
      \/ Identifiers(s.columns) = {}
  BY <1>1, <1>2 DEF SourceAccepted, PlanAllows
<1>4. Cardinality(Persons(s.columns)) \in Nat
  BY PersonAttributesAssumption, FS_Subset, FS_CardinalityType DEF Persons
<1> QED
  BY <1>3, <1>4

\* Only Retrieve hands out rows, and it is given the approved selection.
LEMMA ReadingIsApproved ==
    Next => /\ UNCHANGED <<mode, agent, approved>>
            /\ retrieved' \in {retrieved, Retrieved(approved)}
<1> SUFFICES ASSUME Next
             PROVE  /\ UNCHANGED <<mode, agent, approved>>
                    /\ retrieved' \in {retrieved, Retrieved(approved)}
  OBVIOUS
<1>1. CASE ClientStep
  BY <1>1 DEF ClientStep, Deliver, NextRequest, RetryRequest, StageResult, StageError
<1>2. CASE StartJob \/ SchemaUnavailable \/ ReplyLost
  BY <1>2 DEF StartJob, SchemaUnavailable, ReplyLost
<1>3. CASE Prompted
  BY <1>3 DEF Prompted, NextPrompt, LastPrompt, Refuse
<1>4. ASSUME NEW b \in BOOLEAN, ProbeSelection(b) \/ Process(b) \/ StoreArtifact(b)
      PROVE  /\ UNCHANGED <<mode, agent, approved>>
             /\ retrieved' \in {retrieved, Retrieved(approved)}
  BY <1>4 DEF ProbeSelection, Process, StoreArtifact
<1>5. ASSUME NEW b \in BOOLEAN, Retrieve(b)
      PROVE  /\ UNCHANGED <<mode, agent, approved>>
             /\ retrieved' \in {retrieved, Retrieved(approved)}
  BY <1>5 DEF Retrieve
<1>6. ASSUME NEW f, InvokeFails(f)
      PROVE  /\ UNCHANGED <<mode, agent, approved>>
             /\ retrieved' \in {retrieved, Retrieved(approved)}
  BY <1>6 DEF InvokeFails
<1> QED
  BY <1>1, <1>2, <1>3, <1>4, <1>5, <1>6 DEF Next, Work, JobStep

\* At the start nothing was read.
LEMMA SanctionedInitially == Init => Sanctioned
BY DEF Init, Sanctioned

\* A step keeps what is approved and reads at most what that gives.
LEMMA SanctionedStep == Sanctioned /\ [Next]_vars => Sanctioned'
<1>1. CASE Next
  BY <1>1, ReadingIsApproved DEF Sanctioned
<1>2. CASE UNCHANGED vars
  BY <1>2 DEF Sanctioned, vars
<1> QED
  BY <1>1, <1>2

\* What is sanctioned hides everybody.
LEMMA SanctionedHides == Sanctioned => PersonIsHidden
<1> SUFFICES ASSUME Sanctioned, agent = "processing",
                    Cardinality(Persons(approved.columns)) >= 2
             PROVE  /\ Identifiers(approved.columns) = {}
                    /\ \A r \in retrieved :
                         LET alike == {q \in retrieved : Agree(r, q, Dimensions(approved))}
                         IN Cardinality({q["customer_id"] : q \in alike}) >= K
  BY DEF PersonIsHidden
<1>1. approved \in Approvable
  BY DEF Sanctioned
<1>2. Identifiers(approved.columns) = {}
  BY <1>1, ApprovedColumns
<1>3. ASSUME NEW r \in retrieved
      PROVE  Cardinality({q["customer_id"] :
                 q \in {q \in retrieved : Agree(r, q, Dimensions(approved))}}) >= K
  <2> DEFINE rows == Matching(approved, Joined(approved.tables))
             D == Dimensions(approved)
  <2>1. ~ Cardinality(Persons(approved.columns)) < 2
    <3>1. Cardinality(Persons(approved.columns)) \in Nat
      BY PersonAttributesAssumption, FS_Subset, FS_CardinalityType DEF Persons
    <3> QED
      BY <3>1
  <2>2. retrieved = {p \in rows : SafeCombination(p, rows, D)}
    BY <1>3, <2>1 DEF Sanctioned, Retrieved
  <2>3. SafeCombination(r, rows, D)
    BY <1>3, <2>2
  <2>4. {q \in retrieved : Agree(r, q, D)} = {q \in rows : Agree(r, q, D)}
    <3> HIDE DEF rows, D
    <3> QED
      BY <2>2, <2>3, GroupsStayWhole
  <2> HIDE DEF rows, D
  <2>5. Cardinality({q["customer_id"] : q \in {q \in rows : Agree(r, q, D)}}) >= K
    BY <2>3 DEF SafeCombination
  <2> QED
    BY <2>4, <2>5 DEF D
<1> QED
  BY <1>2, <1>3

\* Whatever columns and filters a model proposes and a reviewer approves, the
\* rows that leave the database single nobody out: beside two attributes of a
\* person no identifying column is read, and every combination of dimensions
\* is shared by K customers (rules A and B, query/plan.py and executors.py).
THEOREM NobodySingledOut == Spec => []PersonIsHidden
<1>1. Init => Sanctioned
  BY SanctionedInitially
<1>2. Sanctioned /\ [Next]_vars => Sanctioned'
  BY SanctionedStep
<1>3. Sanctioned => PersonIsHidden
  BY SanctionedHides
<1> QED
  BY <1>1, <1>2, <1>3, PTL DEF Spec

(***************************************************************************)
(* Once per attempt                                                        *)
(***************************************************************************)

\* The shape of what the client holds.
IsRequest(c) ==
    /\ c = [phase |-> c.phase, step |-> c.step, attempt |-> c.attempt, tries |-> c.tries,
            feedback |-> c.feedback, merged |-> c.merged]
    /\ c.step \in Nat /\ c.attempt \in Nat \ {0}

\* Attempts are numbered step by step.
Before(e, step, attempt) == e[1] < step \/ (e[1] = step /\ e[2] < attempt)

\* Everything that was executed lies before the request that is to be sent, and
\* before or at the one that was sent.
Ordered ==
    /\ IsRequest(client)
    /\ executed \in Seq(Nat \X Nat)
    /\ \A i \in 1..Len(executed) :
         \/ Before(executed[i], client.step, client.attempt)
         \/ client.phase # "sending" /\ executed[i] = <<client.step, client.attempt>>
    /\ \A i, j \in 1..Len(executed) : i # j => executed[i] # executed[j]

\* At the start nothing was executed.
LEMMA OrderedInitially == Init => Ordered
BY DEF Init, Ordered, IsRequest, Request

\* A delivery is the first of its attempt.
LEMMA DeliverOrdered == ASSUME Ordered, Deliver PROVE Ordered'
<1> DEFINE e == <<client.step, client.attempt>>
<1>1. client' = [client EXCEPT !.phase = "waiting"] /\ client.phase = "sending"
  BY DEF Deliver
<1>2. /\ IsRequest(client)' /\ client'.phase = "waiting"
      /\ client'.step = client.step /\ client'.attempt = client.attempt
  BY <1>1 DEF Ordered, IsRequest
<1>3. e \in Nat \X Nat
  BY DEF Ordered, IsRequest
<1>4. executed' = Append(executed, e)
  BY DEF Deliver
<1>5. /\ executed' \in Seq(Nat \X Nat)
      /\ Len(executed') = Len(executed) + 1
      /\ \A i \in 1..Len(executed) : executed'[i] = executed[i]
      /\ executed'[Len(executed) + 1] = e
  <2> HIDE DEF e
  <2> QED
    BY <1>3, <1>4 DEF Ordered
<1>6. \A i \in 1..Len(executed) : Before(executed[i], client.step, client.attempt)
  BY <1>1 DEF Ordered
<1>7. \A i \in 1..Len(executed) : executed[i] # e
  <2>1. e[1] = client.step /\ e[2] = client.attempt
    OBVIOUS
  <2>2. ~ Before(e, client.step, client.attempt)
    <3>1. client.step \in Nat /\ client.attempt \in Nat
      BY DEF Ordered, IsRequest
    <3> QED
      BY <2>1, <3>1 DEF Before
  <2> HIDE DEF e
  <2> QED
    BY <1>6, <2>2
<1>8. Len(executed) \in Nat
  BY DEF Ordered
<1> HIDE DEF e
<1>0. ASSUME NEW i \in 1..Len(executed')
      PROVE  \/ i \in 1..Len(executed)
             \/ i = Len(executed) + 1 /\ executed'[i] = e
  BY <1>5, <1>8
<1>9. \A i \in 1..Len(executed') :
        \/ Before(executed'[i], client.step, client.attempt)
        \/ executed'[i] = e
  <2> TAKE i \in 1..Len(executed')
  <2>1. CASE i \in 1..Len(executed)
    <3>1. executed'[i] = executed[i]
      BY <1>5, <2>1
    <3> QED
      BY <1>6, <2>1, <3>1
  <2> QED
    BY <1>0, <2>1
<1>10. \A i, j \in 1..Len(executed') : i # j => executed'[i] # executed'[j]
  <2> SUFFICES ASSUME NEW i \in 1..Len(executed'), NEW j \in 1..Len(executed'), i # j
               PROVE  executed'[i] # executed'[j]
    OBVIOUS
  <2>1. CASE i \in 1..Len(executed) /\ j \in 1..Len(executed)
    <3>1. executed'[i] = executed[i] /\ executed'[j] = executed[j]
      BY <1>5, <2>1
    <3> QED
      BY <2>1, <3>1 DEF Ordered
  <2>2. CASE i \in 1..Len(executed) /\ j = Len(executed) + 1
    BY <1>5, <1>7, <2>2
  <2>3. CASE j \in 1..Len(executed) /\ i = Len(executed) + 1
    BY <1>5, <1>7, <2>3
  <2> QED
    BY <1>0, <2>1, <2>2, <2>3
<1> QED
  BY <1>2, <1>5, <1>9, <1>10 DEF Ordered, e

\* Every other step leaves what was executed alone, and either keeps the
\* attempt or goes on to a later one.
LEMMA OthersOrdered ==
    ASSUME Ordered, UNCHANGED executed, IsRequest(client'),
           \/ /\ client'.step = client.step /\ client'.attempt = client.attempt
              /\ client.phase # "sending" => client'.phase # "sending"
           \/ Before(<<client.step, client.attempt>>, client'.step, client'.attempt)
    PROVE  Ordered'
<1>1. \A i \in 1..Len(executed) : executed[i] \in Nat \X Nat
  BY DEF Ordered
<1>2. \A i \in 1..Len(executed) :
         \/ Before(executed[i], client'.step, client'.attempt)
         \/ client'.phase # "sending" /\ executed[i] = <<client'.step, client'.attempt>>
  BY <1>1 DEF Ordered, Before, IsRequest
<1> QED
  BY <1>2 DEF Ordered

\* The job works beside the client: it changes neither the request nor what was
\* executed.
LEMMA JobKeepsClient == JobStep => UNCHANGED <<client, executed>>
<1> SUFFICES ASSUME JobStep
             PROVE  UNCHANGED <<client, executed>>
  OBVIOUS
<1>1. CASE StartJob \/ SchemaUnavailable \/ ReplyLost
  BY <1>1 DEF StartJob, SchemaUnavailable, ReplyLost
<1>2. CASE Prompted
  BY <1>2 DEF Prompted, NextPrompt, LastPrompt, Refuse
<1>3. ASSUME NEW b \in BOOLEAN, ProbeSelection(b) \/ Retrieve(b) \/ Process(b) \/ StoreArtifact(b)
      PROVE  UNCHANGED <<client, executed>>
  BY <1>3 DEF ProbeSelection, Retrieve, Process, StoreArtifact
<1> QED
  BY <1>1, <1>2, <1>3 DEF JobStep

\* The order survives every step: only a delivery executes something.
LEMMA OrderedStep == Ordered /\ [Next]_vars => Ordered'
<1> SUFFICES ASSUME Ordered, [Next]_vars
             PROVE  Ordered'
  OBVIOUS
<1> USE DEF Ordered
<1>1. CASE Deliver
  BY <1>1, DeliverOrdered
<1>2. CASE NextRequest
  <2>1. /\ client' = Request(client.step + 1, 1, NoFeedback, job.work) /\ UNCHANGED executed
    BY <1>2 DEF NextRequest
  <2>2. IsRequest(client') /\ Before(<<client.step, client.attempt>>, client'.step, client'.attempt)
    BY <2>1 DEF Request, IsRequest, Before
  <2> QED
    BY <2>1, <2>2, OthersOrdered
<1>3. CASE RetryRequest
  <2>1. /\ client' = Request(client.step, client.attempt + 1,
                         <<client.step, client.attempt, job.output.reason>>, client.merged)
        /\ UNCHANGED executed
    BY <1>3 DEF RetryRequest
  <2>2. IsRequest(client') /\ Before(<<client.step, client.attempt>>, client'.step, client'.attempt)
    BY <2>1 DEF Request, IsRequest, Before
  <2> QED
    BY <2>1, <2>2, OthersOrdered
<1>4. CASE StageResult
  <2>1. client' = [client EXCEPT !.phase = "done", !.merged = job.work] /\ UNCHANGED executed
    BY <1>4 DEF StageResult
  <2>2. /\ IsRequest(client') /\ client'.phase = "done"
        /\ client'.step = client.step /\ client'.attempt = client.attempt
    BY <2>1 DEF IsRequest
  <2> QED
    BY <2>1, <2>2, OthersOrdered
<1>5. CASE StageError
  <2>1. client' = [client EXCEPT !.phase = "done"] /\ UNCHANGED executed
    BY <1>5 DEF StageError
  <2>2. /\ IsRequest(client') /\ client'.phase = "done"
        /\ client'.step = client.step /\ client'.attempt = client.attempt
    BY <2>1 DEF IsRequest
  <2> QED
    BY <2>1, <2>2, OthersOrdered
<1>6. ASSUME NEW f, InvokeFails(f) PROVE Ordered'
  <2>1. UNCHANGED executed
    BY <1>6 DEF InvokeFails
  <2>2. \/ /\ client' = [client EXCEPT !.phase = "sending", !.tries = @ + 1]
           /\ client.phase = "sending"
        \/ client' = [client EXCEPT !.phase = "done"]
    <3>1. CASE f = "conflict"
      BY <1>6, <3>1 DEF InvokeFails, Retryable
    <3>2. CASE f # "conflict"
      BY <1>6, <3>2 DEF InvokeFails, Retryable
    <3> QED
      BY <3>1, <3>2
  <2>3. /\ IsRequest(client') /\ client'.step = client.step /\ client'.attempt = client.attempt
        /\ client.phase # "sending" => client'.phase # "sending"
    BY <2>2 DEF IsRequest
  <2> QED
    BY <2>1, <2>3, OthersOrdered
<1>7. CASE JobStep
  <2>1. UNCHANGED <<client, executed>>
    BY <1>7, JobKeepsClient
  <2> QED
    BY <2>1, OthersOrdered
<1>8. CASE UNCHANGED vars
  <2>1. UNCHANGED <<client, executed>>
    BY <1>8 DEF vars
  <2> QED
    BY <2>1, OthersOrdered
<1> QED
  BY <1>1, <1>2, <1>3, <1>4, <1>5, <1>6, <1>7, <1>8 DEF Next, Work, ClientStep

\* An attempt at a step reaches an agent at most once, although requests are
\* sent again and connections are lost while the agent works
\* (_invoke_with_conflict_retry and _run_selection_by_steps).
THEOREM NoSecondExecution == Spec => []OncePerAttempt
<1>1. Init => Ordered
  BY OrderedInitially
<1>2. Ordered /\ [Next]_vars => Ordered'
  BY OrderedStep
<1>3. Ordered => OncePerAttempt
  <2>1. Ordered => DOMAIN executed = 1..Len(executed)
    BY DEF Ordered
  <2> QED
    BY <2>1 DEF Ordered, OncePerAttempt
<1> QED
  BY <1>1, <1>2, <1>3, PTL DEF Spec

(***************************************************************************)
(* Feedback                                                                *)
(***************************************************************************)

IsSequence(w) == \E S : w \in Seq(S)

\* Appending makes a sequence longer by one, whatever its elements are.
LEMMA AppendOne ==
    ASSUME NEW w, IsSequence(w), NEW x
    PROVE  IsSequence(Append(w, x)) /\ Len(w) \in Nat /\ Len(Append(w, x)) = Len(w) + 1
<1>1. PICK S : w \in Seq(S)
  BY DEF IsSequence
<1>2. w \in Seq(S \cup {x}) /\ x \in S \cup {x}
  BY <1>1
<1>3. Append(w, x) \in Seq(S \cup {x}) /\ Len(w) \in Nat /\ Len(Append(w, x)) = Len(w) + 1
  BY <1>2
<1> QED
  BY <1>3 DEF IsSequence

\* What the attempt at a step is told: nothing, or why the one before failed.
Told(feedback, step, attempt) ==
    IF attempt = 1 THEN feedback = NoFeedback
    ELSE \E reason \in {"contract", "probe"} :
           /\ feedback = <<step, attempt - 1, reason>>
           /\ reason = "probe" => step = 1 /\ Stepwise

IsJob(j) ==
    /\ j = [phase |-> j.phase, step |-> j.step, attempt |-> j.attempt,
            feedback |-> j.feedback, work |-> j.work, output |-> j.output]
    /\ j.step \in Nat /\ j.attempt \in Nat \ {0}

\* The client holds the results of the steps before its own, and what the last
\* attempt was refused for.
ClientFresh ==
    /\ IsRequest(client)
    /\ client.phase # "done" =>
         /\ IsSequence(client.merged)
         /\ Len(client.merged) = client.step - 1
         /\ Told(client.feedback, client.step, client.attempt)

\* So does the job; the result of its own step is there once it is probed or
\* replied, and the reply says what the next attempt has to be told.
JobFresh ==
    /\ IsJob(job)
    /\ job.phase # "idle" => IsSequence(job.work)
    /\ job.phase \in {"begin", "ask"} =>
         /\ Len(job.work) = job.step - 1
         /\ Told(job.feedback, job.step, job.attempt)
    /\ Stepwise =>
         /\ client.phase = "waiting" => job.step = client.step
         /\ job.phase \notin {"retrieve", "process", "store"}
         /\ job.phase = "probe" => job.step = 1 /\ Len(job.work) = job.step
         /\ job.phase = "reply" /\ job.output.kind = "result" => Len(job.work) = job.step
         /\ job.phase = "reply" /\ job.output.kind = "retry" =>
              /\ job.output.reason \in {"contract", "probe"}
              /\ job.output.reason = "probe" => job.step = 1

\* The first request is told nothing and there is no job.
LEMMA FreshInitially == Init => ClientFresh /\ JobFresh
<1> SUFFICES ASSUME Init
             PROVE  ClientFresh /\ JobFresh
  OBVIOUS
<1>1. client = Request(1, 1, NoFeedback, <<>>) /\ job = Idle
  BY DEF Init
<1>2. IsSequence(<<>>) /\ Len(<<>>) = 0
  <2>1. <<>> \in Seq({})
    OBVIOUS
  <2> QED
    BY <2>1 DEF IsSequence
<1>3. ClientFresh
  BY <1>1, <1>2 DEF ClientFresh, IsRequest, Request, Told
<1>4. JobFresh
  BY <1>1 DEF JobFresh, IsJob, Idle, Request
<1> QED
  BY <1>3, <1>4

\* Asking and finishing set these parts of the job and leave the others.
LEMMA AskJob ==
    ASSUME IsJob(job), NEW s \in Nat, NEW a \in Nat \ {0}, NEW f, NEW w, Ask(s, a, f, w)
    PROVE  /\ IsJob(job') /\ job'.phase = "ask"
           /\ job'.step = s /\ job'.attempt = a /\ job'.feedback = f /\ job'.work = w
BY DEF IsJob, Ask

\* Finishing sets the results and the output and keeps the step.
LEMMA FinishJob ==
    ASSUME IsJob(job), NEW w, NEW o, Finish(w, o)
    PROVE  /\ IsJob(job') /\ job'.phase = "reply"
           /\ job'.step = job.step /\ job'.work = w /\ job'.output = o
BY DEF IsJob, Finish

\* What a job does in a step that leaves the client alone.
LEMMA JobAsks ==
    ASSUME JobFresh, UNCHANGED <<client, mode, agent>>,
           NEW s \in Nat, NEW a \in Nat \ {0}, NEW f, NEW w, Ask(s, a, f, w),
           IsSequence(w), Len(w) = s - 1, Told(f, s, a), Stepwise => s = job.step
    PROVE  JobFresh'
<1>1. /\ IsJob(job') /\ job'.phase = "ask"
      /\ job'.step = s /\ job'.attempt = a /\ job'.feedback = f /\ job'.work = w
  BY AskJob DEF JobFresh
<1>2. Stepwise' = Stepwise
  BY DEF Stepwise
<1>3. Told(f, s, a)'
  BY <1>2 DEF Told
<1> QED
  BY <1>1, <1>2, <1>3 DEF JobFresh

\* A job that replies keeps JobFresh when its reply fits its step.
LEMMA JobFinishes ==
    ASSUME JobFresh, UNCHANGED <<client, mode, agent>>,
           NEW w, NEW o, Finish(w, o), IsSequence(w),
           Stepwise /\ o.kind = "result" => Len(w) = job.step,
           Stepwise /\ o.kind = "retry" =>
              o.reason \in {"contract", "probe"} /\ (o.reason = "probe" => job.step = 1)
    PROVE  JobFresh'
<1>1. /\ IsJob(job') /\ job'.phase = "reply"
      /\ job'.step = job.step /\ job'.work = w /\ job'.output = o
  BY FinishJob DEF JobFresh
<1>2. Stepwise' = Stepwise
  BY DEF Stepwise
<1> QED
  BY <1>1, <1>2 DEF JobFresh

\* A job that goes on to something that is never part of a step-wise selection.
LEMMA JobGoesOn ==
    ASSUME JobFresh, UNCHANGED <<client, mode, agent>>, ~ Stepwise,
           IsJob(job'), IsSequence(job'.work), job'.phase \notin {"begin", "ask"}
    PROVE  JobFresh'
<1>1. ~ Stepwise'
  BY DEF Stepwise
<1> QED
  BY <1>1 DEF JobFresh

\* A job starts its prompt with what it was sent.
LEMMA StartFresh == ASSUME JobFresh, StartJob PROVE JobFresh'
<1>1. /\ Ask(job.step, job.attempt, job.feedback, job.work) /\ job.phase = "begin"
      /\ UNCHANGED <<client, mode, agent>>
  BY DEF StartJob
<1>2. /\ job.step \in Nat /\ job.attempt \in Nat \ {0} /\ IsSequence(job.work)
      /\ Len(job.work) = job.step - 1 /\ Told(job.feedback, job.step, job.attempt)
  BY <1>1 DEF JobFresh, IsJob
<1> QED
  BY <1>1, <1>2, JobAsks

\* Without a schema the job replies with an error.
LEMMA SchemaFresh == ASSUME JobFresh, SchemaUnavailable PROVE JobFresh'
<1> DEFINE o == Error("INSUFFICIENT_DATA", "schema")
<1>1. Finish(job.work, o) /\ job.phase = "begin" /\ UNCHANGED <<client, mode, agent>>
  BY DEF SchemaUnavailable
<1>2. IsSequence(job.work) /\ o.kind = "error"
  BY <1>1 DEF JobFresh, Error
<1> HIDE DEF o
<1> QED
  BY <1>1, <1>2, JobFinishes

\* Accepted: the next prompt starts without feedback and with one result more.
LEMMA NextPromptFresh == ASSUME JobFresh, NEW answer, NextPrompt(answer) PROVE JobFresh'
<1> DEFINE x == ResultOf(Steps[job.step], answer, job.work)
           w == Append(job.work, x)
<1>1. /\ Ask(job.step + 1, 1, NoFeedback, w) /\ job.phase = "ask" /\ ~ Stepwise
      /\ UNCHANGED <<client, mode, agent>>
  BY DEF NextPrompt
<1> HIDE DEF x
<1>2. IsSequence(w) /\ Len(job.work) \in Nat /\ Len(w) = Len(job.work) + 1
  BY <1>1, AppendOne DEF JobFresh
<1> HIDE DEF w
<1>3. job.step \in Nat /\ Len(w) = (job.step + 1) - 1
  BY <1>1, <1>2 DEF JobFresh, IsJob
<1>4. Told(NoFeedback, job.step + 1, 1)
  BY DEF Told
<1> QED
  BY <1>1, <1>2, <1>3, <1>4, JobAsks

\* After the last accepted answer the job reads, probes or replies.
LEMMA LastPromptFresh == ASSUME JobFresh, NEW answer, LastPrompt(answer) PROVE JobFresh'
<1> DEFINE x == ResultOf(Steps[job.step], answer, job.work)
           w == Append(job.work, x)
<1>1. job.phase = "ask" /\ UNCHANGED <<client, mode, agent>>
  BY DEF LastPrompt
<1>2. \/ agent = "processing" /\ job' = [job EXCEPT !.phase = "retrieve", !.work = w]
      \/ (Stepwise => job.step = 1) /\ job' = [job EXCEPT !.phase = "probe", !.work = w]
      \/ Finish(w, Result)
  <2>1. CASE agent = "processing"
    BY <2>1 DEF LastPrompt
  <2>2. CASE agent # "processing" /\ agent = "selection" /\ (Stepwise => job.step = 1)
    BY <2>2 DEF LastPrompt
  <2>3. CASE agent # "processing" /\ ~ (agent = "selection" /\ (Stepwise => job.step = 1))
    BY <2>3 DEF LastPrompt
  <2> QED
    BY <2>1, <2>2, <2>3
<1> HIDE DEF x
<1>3. IsSequence(w) /\ Len(job.work) \in Nat /\ Len(w) = Len(job.work) + 1
  BY <1>1, AppendOne DEF JobFresh
<1> HIDE DEF w
<1>4. job.step \in Nat /\ Len(w) = job.step /\ IsJob(job)
  BY <1>1, <1>3 DEF JobFresh, IsJob
<1>5. CASE agent = "processing" /\ job' = [job EXCEPT !.phase = "retrieve", !.work = w]
  <2>1. IsJob(job') /\ job'.phase = "retrieve" /\ job'.work = w
    BY <1>4, <1>5 DEF IsJob
  <2>2. ~ Stepwise
    BY <1>5 DEF Stepwise
  <2> QED
    BY <1>1, <1>3, <2>1, <2>2, JobGoesOn
<1>6. CASE (Stepwise => job.step = 1) /\ job' = [job EXCEPT !.phase = "probe", !.work = w]
  <2>1. IsJob(job') /\ job'.phase = "probe" /\ job'.work = w /\ job'.step = job.step
    BY <1>4, <1>6 DEF IsJob
  <2>2. Stepwise' = Stepwise
    BY <1>1 DEF Stepwise
  <2> QED
    BY <1>1, <1>3, <1>4, <1>6, <2>1, <2>2 DEF JobFresh
<1>7. CASE Finish(w, Result)
  <2>1. Result.kind = "result"
    BY DEF Result
  <2> QED
    BY <1>1, <1>3, <1>4, <1>7, <2>1, JobFinishes
<1> QED
  BY <1>2, <1>5, <1>6, <1>7

\* Refused: the job asks again and says why, or leaves that to the client.
LEMMA RefuseFresh == ASSUME JobFresh, NEW answer, Refuse(answer) PROVE JobFresh'
<1>1. job.phase = "ask" /\ UNCHANGED <<client, mode, agent>>
  BY DEF Refuse
<1>2. /\ IsSequence(job.work) /\ Len(job.work) = job.step - 1
      /\ job.step \in Nat /\ job.attempt \in Nat \ {0}
  BY <1>1 DEF JobFresh, IsJob
<1>3. CASE Stepwise
  <2> DEFINE o == Retry(ContractCode, "contract")
  <2>1. Finish(job.work, o)
    BY <1>3 DEF Refuse
  <2>2. o.kind = "retry" /\ o.reason = "contract"
    BY DEF Retry
  <2> HIDE DEF o
  <2> QED
    BY <1>1, <1>2, <2>1, <2>2, JobFinishes
<1>4. CASE ~ Stepwise /\ job.attempt >= MaxAttempts
  <2> DEFINE o == Error(ContractCode, "contract")
  <2>1. Finish(job.work, o)
    BY <1>4 DEF Refuse
  <2>2. o.kind = "error"
    BY DEF Error
  <2> HIDE DEF o
  <2> QED
    BY <1>1, <1>2, <2>1, <2>2, JobFinishes
<1>5. CASE ~ Stepwise /\ ~ (job.attempt >= MaxAttempts)
  <2> DEFINE f == <<job.step, job.attempt, "contract">>
  <2>1. Ask(job.step, job.attempt + 1, f, job.work)
    BY <1>5 DEF Refuse
  <2>2. Told(f, job.step, job.attempt + 1)
    <3>1. job.attempt + 1 # 1 /\ (job.attempt + 1) - 1 = job.attempt
      BY <1>2
    <3> QED
      BY <3>1 DEF Told
  <2>3. job.attempt + 1 \in Nat \ {0}
    BY <1>2
  <2> HIDE DEF f
  <2> QED
    BY <1>1, <1>2, <2>1, <2>2, <2>3, JobAsks
<1> QED
  BY <1>3, <1>4, <1>5

\* A refused probe is reported as a retry of the first step.
LEMMA ProbeFresh == ASSUME JobFresh, NEW b, ProbeSelection(b) PROVE JobFresh'
<1>1. job.phase = "probe" /\ UNCHANGED <<client, mode, agent>>
  BY DEF ProbeSelection
<1>2. PICK o : /\ Finish(job.work, o)
               /\ o.kind \in {"result", "retry"} /\ (o.kind = "retry" => o.reason = "probe")
  <2>1. Retry("INSUFFICIENT_DATA", "probe").kind = "retry"
    BY DEF Retry
  <2>2. Retry("INSUFFICIENT_DATA", "probe").reason = "probe"
    BY DEF Retry
  <2>3. Retry("PRIVACY_THRESHOLD_NOT_MET", "probe").kind = "retry"
    BY DEF Retry
  <2>4. Retry("PRIVACY_THRESHOLD_NOT_MET", "probe").reason = "probe"
    BY DEF Retry
  <2>5. Result.kind = "result"
    BY DEF Result
  <2> DEFINE v == IF b THEN Probe(job.work[1]) ELSE "skipped"
  <2>6. CASE v = "no_data"
    BY <2>1, <2>2, <2>6 DEF ProbeSelection
  <2>7. CASE v = "too_few"
    BY <2>3, <2>4, <2>7 DEF ProbeSelection
  <2>8. CASE v # "no_data" /\ v # "too_few"
    BY <2>5, <2>8 DEF ProbeSelection
  <2> QED
    BY <2>6, <2>7, <2>8
<1>3. /\ IsSequence(job.work)
      /\ Stepwise => job.step = 1 /\ Len(job.work) = job.step
  BY <1>1 DEF JobFresh
<1> QED
  BY <1>1, <1>2, <1>3, JobFinishes

\* Reading, executing and storing are no part of a step-wise selection.
LEMMA ExecutionFresh ==
    ASSUME JobFresh, NEW b, Retrieve(b) \/ Process(b) \/ StoreArtifact(b)
    PROVE  JobFresh'
<1>1. job.phase \in {"retrieve", "process", "store"} /\ UNCHANGED <<client, mode, agent>>
  BY DEF Retrieve, Process, StoreArtifact
<1>2. ~ Stepwise /\ IsSequence(job.work) /\ IsJob(job)
  BY <1>1 DEF JobFresh
<1>3. \/ \E o : Finish(job.work, o)
      \/ job' = [job EXCEPT !.phase = "process"]
      \/ job' = [job EXCEPT !.phase = "store"]
  <2>1. CASE Retrieve(b)
    BY <2>1 DEF Retrieve
  <2>2. CASE Process(b)
    BY <2>2 DEF Process
  <2>3. CASE StoreArtifact(b)
    BY <2>3 DEF StoreArtifact
  <2> QED
    BY <2>1, <2>2, <2>3
<1>4. CASE \E o : Finish(job.work, o)
  BY <1>1, <1>2, <1>4, JobFinishes
<1>5. CASE job' = [job EXCEPT !.phase = "process"] \/ job' = [job EXCEPT !.phase = "store"]
  <2>1. IsJob(job') /\ job'.work = job.work /\ job'.phase \in {"process", "store"}
    BY <1>2, <1>5 DEF IsJob
  <2> QED
    BY <1>1, <1>2, <2>1, JobGoesOn
<1> QED
  BY <1>3, <1>4, <1>5

\* A job that is over.
LEMMA IdleFresh ==
    ASSUME job' = Idle, Stepwise' /\ client'.phase = "waiting" => client'.step = 1
    PROVE  JobFresh'
BY DEF JobFresh, IsJob, Idle

\* The job of a request starts with what the client sent.
LEMMA DeliverFresh == ASSUME ClientFresh, Deliver PROVE ClientFresh' /\ JobFresh'
<1>1. /\ client.phase = "sending" /\ client' = [client EXCEPT !.phase = "waiting"]
      /\ UNCHANGED <<mode, agent>>
      /\ job' = [Idle EXCEPT !.phase = "begin", !.step = client.step, !.attempt = client.attempt,
                             !.feedback = client.feedback, !.work = client.merged]
  BY DEF Deliver
<1>2. /\ IsSequence(client.merged) /\ Len(client.merged) = client.step - 1
      /\ Told(client.feedback, client.step, client.attempt) /\ IsRequest(client)
  BY <1>1 DEF ClientFresh
<1>3. Stepwise' = Stepwise
  BY <1>1 DEF Stepwise
<1>4. /\ IsRequest(client') /\ client'.phase = "waiting" /\ client'.step = client.step
      /\ client'.attempt = client.attempt /\ client'.feedback = client.feedback
      /\ client'.merged = client.merged
  BY <1>1, <1>2 DEF IsRequest
<1>5. Told(client.feedback, client.step, client.attempt)'
  BY <1>2, <1>3, <1>4 DEF Told
<1>6. ClientFresh'
  BY <1>2, <1>4, <1>5 DEF ClientFresh
<1>7. /\ IsJob(job') /\ job'.phase = "begin" /\ job'.step = client.step
      /\ job'.attempt = client.attempt /\ job'.feedback = client.feedback
      /\ job'.work = client.merged
  BY <1>1, <1>2 DEF IsRequest, IsJob, Idle
<1>8. Told(job.feedback, job.step, job.attempt)'
  BY <1>2, <1>3, <1>7 DEF Told
<1>9. JobFresh'
  BY <1>2, <1>4, <1>7, <1>8 DEF JobFresh
<1> QED
  BY <1>6, <1>9

\* A new request, by the step it is for and what it is told.
LEMMA RequestFresh ==
    ASSUME NEW s \in Nat, NEW a \in Nat \ {0}, NEW f, NEW w, client' = Request(s, a, f, w),
           job' = Idle, UNCHANGED <<mode, agent>>,
           IsSequence(w), Len(w) = s - 1, Told(f, s, a)
    PROVE  ClientFresh' /\ JobFresh'
<1>1. /\ IsRequest(client') /\ client'.phase = "sending" /\ client'.step = s
      /\ client'.attempt = a /\ client'.feedback = f /\ client'.merged = w
  BY DEF Request, IsRequest
<1>2. Stepwise' = Stepwise
  BY DEF Stepwise
<1>3. Told(client.feedback, client.step, client.attempt)'
  BY <1>1, <1>2 DEF Told
<1> QED
  BY <1>1, <1>3, IdleFresh DEF ClientFresh

\* The next step starts without feedback, on one result more.
LEMMA NextRequestFresh == ASSUME ClientFresh, JobFresh, NextRequest PROVE ClientFresh' /\ JobFresh'
<1>1. /\ Replied("result") /\ Stepwise /\ job' = Idle /\ UNCHANGED <<mode, agent>>
      /\ client' = Request(client.step + 1, 1, NoFeedback, job.work)
  BY DEF NextRequest
<1>2. /\ IsSequence(job.work) /\ Len(job.work) = client.step
  BY <1>1 DEF Replied, JobFresh
<1>3. client.step + 1 \in Nat /\ client.step = (client.step + 1) - 1
  BY DEF ClientFresh, IsRequest
<1>4. Told(NoFeedback, client.step + 1, 1)
  BY DEF Told
<1> QED
  BY <1>1, <1>2, <1>3, <1>4, RequestFresh

\* The same step is repeated with what was wrong and the same results.
LEMMA RetryRequestFresh == ASSUME ClientFresh, JobFresh, RetryRequest PROVE ClientFresh' /\ JobFresh'
<1> DEFINE f == <<client.step, client.attempt, job.output.reason>>
<1>1. /\ Replied("retry") /\ Stepwise /\ job' = Idle /\ UNCHANGED <<mode, agent>>
      /\ client' = Request(client.step, client.attempt + 1, f, client.merged)
  BY DEF RetryRequest
<1>2. /\ client.step \in Nat /\ client.attempt \in Nat \ {0}
      /\ IsSequence(client.merged) /\ Len(client.merged) = client.step - 1
  BY <1>1 DEF Replied, ClientFresh, IsRequest
<1>3. /\ job.output.reason \in {"contract", "probe"}
      /\ job.output.reason = "probe" => client.step = 1
  BY <1>1 DEF Replied, JobFresh
<1>4. client.attempt + 1 \in Nat \ {0}
  BY <1>2
<1>5. Told(f, client.step, client.attempt + 1)
  <2>1. client.attempt + 1 # 1 /\ (client.attempt + 1) - 1 = client.attempt
    BY <1>2
  <2> QED
    BY <1>1, <1>3, <2>1 DEF Told
<1> HIDE DEF f
<1> QED
  BY <1>1, <1>2, <1>4, <1>5, RequestFresh

\* A client that is done asks for nothing any more; a job may go on without it.
LEMMA DoneFresh ==
    ASSUME JobFresh, IsRequest(client'), client'.phase = "done", UNCHANGED <<mode, agent>>,
           job' \in {Idle, job}
    PROVE  ClientFresh' /\ JobFresh'
<1>1. ClientFresh'
  BY DEF ClientFresh
<1>2. CASE job' = Idle
  BY <1>1, <1>2, IdleFresh
<1>3. CASE job' = job
  <2>1. Stepwise' = Stepwise
    BY DEF Stepwise
  <2>2. Told(job.feedback, job.step, job.attempt)' = Told(job.feedback, job.step, job.attempt)
    BY <1>3, <2>1 DEF Told
  <2> QED
    BY <1>1, <1>3, <2>1, <2>2 DEF JobFresh
<1> QED
  BY <1>2, <1>3

\* The outcome ends the client's work.
LEMMA EndFresh ==
    ASSUME ClientFresh, JobFresh, StageResult \/ StageError
    PROVE  ClientFresh' /\ JobFresh'
<1>1. /\ \/ client' = [client EXCEPT !.phase = "done", !.merged = job.work]
         \/ client' = [client EXCEPT !.phase = "done"]
      /\ job' = Idle /\ UNCHANGED <<mode, agent>>
  BY DEF StageResult, StageError
<1>2. IsRequest(client') /\ client'.phase = "done"
  BY <1>1 DEF ClientFresh, IsRequest
<1> QED
  BY <1>1, <1>2, DoneFresh

\* A failed invocation is tried again unchanged, or ends the client's work.
LEMMA FailFresh ==
    ASSUME ClientFresh, JobFresh, NEW f, InvokeFails(f)
    PROVE  ClientFresh' /\ JobFresh'
<1>1. UNCHANGED <<mode, agent>> /\ job' \in {Idle, job}
  BY DEF InvokeFails
<1>2. \/ /\ client' = [client EXCEPT !.phase = "sending", !.tries = @ + 1]
         /\ client.phase = "sending" /\ job' = job
      \/ client' = [client EXCEPT !.phase = "done"]
  <2>1. CASE f = "conflict"
    BY <2>1 DEF InvokeFails, Retryable
  <2>2. CASE f # "conflict"
    BY <2>2 DEF InvokeFails, Retryable
  <2> QED
    BY <2>1, <2>2
<1>3. Stepwise' = Stepwise
  BY <1>1 DEF Stepwise
<1>4. CASE client' = [client EXCEPT !.phase = "done"]
  <2>1. IsRequest(client') /\ client'.phase = "done"
    BY <1>4 DEF ClientFresh, IsRequest
  <2> QED
    BY <1>1, <2>1, DoneFresh
<1>5. CASE /\ client' = [client EXCEPT !.phase = "sending", !.tries = @ + 1]
           /\ client.phase = "sending" /\ job' = job
  <2>1. /\ IsRequest(client') /\ client'.phase = "sending" /\ client'.step = client.step
        /\ client'.attempt = client.attempt /\ client'.feedback = client.feedback
        /\ client'.merged = client.merged
    BY <1>5 DEF ClientFresh, IsRequest
  <2>2. Told(client.feedback, client.step, client.attempt)' =
          Told(client.feedback, client.step, client.attempt)
    BY <1>3, <2>1 DEF Told
  <2>3. Told(job.feedback, job.step, job.attempt)' = Told(job.feedback, job.step, job.attempt)
    BY <1>3, <1>5 DEF Told
  <2>4. ClientFresh'
    BY <1>5, <2>1, <2>2 DEF ClientFresh
  <2>5. JobFresh'
    BY <1>3, <1>5, <2>1, <2>3 DEF JobFresh
  <2> QED
    BY <2>4, <2>5
<1> QED
  BY <1>2, <1>4, <1>5

\* Every step of the job keeps both invariants.
LEMMA JobStepFresh ==
    ASSUME ClientFresh, JobFresh, JobStep
    PROVE  ClientFresh' /\ JobFresh'
<1>1. UNCHANGED client
  BY JobKeepsClient
<1>2. UNCHANGED <<mode, agent>>
  BY ReadingIsApproved DEF Next, Work
<1>3. Stepwise' = Stepwise
  BY <1>2 DEF Stepwise
<1>4. ClientFresh'
  <2>1. Told(client.feedback, client.step, client.attempt)' =
          Told(client.feedback, client.step, client.attempt)
    BY <1>1, <1>3 DEF Told
  <2> QED
    BY <1>1, <2>1 DEF ClientFresh
<1>5. CASE ReplyLost
  <2>1. job' = Idle /\ client'.phase = "done"
    BY <1>1, <1>5 DEF ReplyLost
  <2> QED
    BY <1>4, <2>1, IdleFresh
<1>6. CASE Prompted
  BY <1>4, <1>6, NextPromptFresh, LastPromptFresh, RefuseFresh DEF Prompted
<1> QED
  BY <1>4, <1>5, <1>6, StartFresh, SchemaFresh, ProbeFresh, ExecutionFresh DEF JobStep

\* Both invariants survive every step.
LEMMA FreshStep == ClientFresh /\ JobFresh /\ [Next]_vars => (ClientFresh /\ JobFresh)'
<1> SUFFICES ASSUME ClientFresh, JobFresh, [Next]_vars
             PROVE  ClientFresh' /\ JobFresh'
  OBVIOUS
<1>1. CASE ClientStep
  BY <1>1, DeliverFresh, NextRequestFresh, RetryRequestFresh, EndFresh DEF ClientStep
<1>2. CASE JobStep
  BY <1>2, JobStepFresh
<1>3. ASSUME NEW f, InvokeFails(f) PROVE ClientFresh' /\ JobFresh'
  BY <1>3, FailFresh
<1>4. CASE UNCHANGED vars
  <2>1. Told(client.feedback, client.step, client.attempt)' =
          Told(client.feedback, client.step, client.attempt)
    BY <1>4 DEF Told, Stepwise, vars
  <2>2. Told(job.feedback, job.step, job.attempt)' = Told(job.feedback, job.step, job.attempt)
    BY <1>4 DEF Told, Stepwise, vars
  <2>3. ClientFresh'
    BY <1>4, <2>1 DEF ClientFresh, vars
  <2>4. JobFresh'
    BY <1>4, <2>2 DEF JobFresh, Stepwise, vars
  <2> QED
    BY <2>3, <2>4
<1> QED
  BY <1>1, <1>2, <1>3, <1>4 DEF Next, Work

\* A prompt is told of exactly the attempt it repeats and works on the accepted
\* results of the steps before it, whoever held them between the requests
\* (_run_prompt_step of the agents, _run_selection_by_steps).
THEOREM CorrectedOnce == Spec => []FeedbackIsFresh
<1>1. Init => ClientFresh /\ JobFresh
  BY FreshInitially
<1>2. ClientFresh /\ JobFresh /\ [Next]_vars => (ClientFresh /\ JobFresh)'
  BY FreshStep
<1>3. ClientFresh /\ JobFresh => FeedbackIsFresh
  BY DEF JobFresh, FeedbackIsFresh, Told
<1> QED
  BY <1>1, <1>2, <1>3, PTL DEF Spec

(***************************************************************************)
(* The checklist                                                           *)
(***************************************************************************)

Mark == {"PENDING", "RUNNING", "COMPLETED", "FAILED"}
Open == {"RUNNING", "COMPLETED"}
Items == Checklist[agent]

\* The first n items are completed, the next one is marked s, the others are
\* still to come.
Shown(n, s) ==
    \A i \in DOMAIN Items :
       list[Items[i]] = IF i <= n THEN "COMPLETED" ELSE IF i = n + 1 THEN s ELSE "PENDING"

\* A first attempt finds its step untouched. A later one finds it running, or
\* completed when it was the probe that refused the answer.
Begun(step, attempt) ==
    \E s \in IF attempt = 1 THEN {"PENDING"} ELSE Open : Shown(step - 1, s)

\* What the checklist shows beside a reply. A step has failed with the last
\* attempt at it and not before.
Replies(output) ==
    /\ output.kind = "result" => Shown(IF Stepwise THEN job.step ELSE Len(Items), "PENDING")
    /\ output.kind = "retry" =>
         \/ output.reason = "probe" /\ Shown(job.step, "PENDING")
         \/ /\ output.reason = "contract" /\ Stepwise
            /\ \E s \in IF job.attempt >= MaxAttempts THEN {"FAILED"} ELSE Open :
                 Shown(job.step - 1, s)
    /\ output.kind = "error" /\ output.reason = "contract" => Shown(job.step - 1, "FAILED")

JobShows ==
    /\ job.phase # "idle" => job.step \in DOMAIN Steps
    /\ job.phase = "begin" => Begun(job.step, job.attempt)
    /\ job.phase = "ask" => \E s \in Open : Shown(job.step - 1, s)
    /\ job.phase = "probe" => Shown(job.step, "PENDING") /\ (~ Stepwise => job.step = Len(Items))
    /\ job.phase = "retrieve" => agent = "processing" /\ Shown(4, "RUNNING")
    /\ job.phase = "process" => agent = "processing" /\ Shown(5, "RUNNING")
    /\ job.phase = "store" => agent = "processing" /\ Shown(6, "PENDING")
    /\ job.phase = "reply" => Replies(job.output)

ClientShows ==
    /\ client.step \in DOMAIN Steps
    /\ client.phase = "sending" => job.phase = "idle" /\ Begun(client.step, client.attempt)
    /\ client.phase = "waiting" =>
         /\ job.phase # "idle"
         /\ Stepwise => job.step = client.step /\ job.attempt = client.attempt
    /\ client.phase # "done" => outcome = Undecided

OutcomeShows ==
    /\ outcome.kind = "passed" => job.phase = "idle" /\ Shown(Len(Items), "PENDING")
    /\ outcome.reason = "contract" =>
         job.phase = "idle" /\ outcome.step \in DOMAIN Steps /\ Shown(outcome.step - 1, "FAILED")

ListTypes ==
    /\ agent \in Agents
    /\ list \in [AllSteps -> Mark]
    /\ \E n \in Nat, s \in Mark : Shown(n, s)

ListInv == ListTypes /\ JobShows /\ ClientShows /\ OutcomeShows

LEMMA FourAndTwo ==
    ASSUME NEW S, NEW s \in Seq(S), NEW t \in Seq(S), Len(s) = 4, Len(t) = 2
    PROVE  /\ s \o t \in Seq(S) /\ Len(s \o t) = 6
           /\ \A i \in 1 .. 6 : (s \o t)[i] = IF i <= 4 THEN s[i] ELSE t[i - 4]
<1>1. /\ s \o t \in Seq(S)
      /\ Len(s \o t) = Len(s) + Len(t)
      /\ \A i \in 1 .. Len(s) + Len(t) : (s \o t)[i] = IF i <= Len(s) THEN s[i] ELSE t[i - Len(s)]
  BY ConcatProperties
<1>2. Len(s) = 4 /\ Len(s) + Len(t) = 6
  OBVIOUS
<1> QED
  BY <1>1, <1>2

\* The prompt steps are the first items, and no item has two places.
LEMMA ItemFacts ==
    ASSUME agent \in Agents
    PROVE  /\ Len(Steps) \in {3, 4} /\ DOMAIN Steps = 1 .. Len(Steps)
           /\ DOMAIN Items = 1 .. Len(Items)
           /\ Len(Items) = IF agent = "processing" THEN 6 ELSE Len(Steps)
           /\ agent = "processing" => Len(Steps) = 4
           /\ \A i \in DOMAIN Steps : Items[i] = Steps[i]
           /\ \A i, j \in DOMAIN Items : Items[i] = Items[j] => i = j
           /\ agent = "processing" =>
                Items[5] = "SOURCE_DATA_RETRIEVAL" /\ Items[6] = "DETERMINISTIC_PROCESSING"
<1>1. agent \in {"requirements", "selection", "processing"}
  BY DEF Agents, Prompts
<1>2. CASE agent = "requirements"
  <2>1. Steps = <<"REQUEST_ANALYSIS", "REQUEST_STRUCTURING", "DATA_CATEGORIZATION">> /\ Items = Steps
    BY <1>2 DEF Steps, Items, Checklist, Prompts
  <2> QED
    BY <1>2, <2>1
<1>3. CASE agent = "selection"
  <2>1. /\ Steps = <<"SOURCE_COLUMN_SELECTION", "DERIVED_COLUMN_DESIGN", "SYNTHETIC_SAMPLE_GENERATION">>
        /\ Items = Steps
    BY <1>3 DEF Steps, Items, Checklist, Prompts
  <2> QED
    BY <1>3, <2>1
<1>4. CASE agent = "processing"
  <2> DEFINE more == <<"SOURCE_DATA_RETRIEVAL", "DETERMINISTIC_PROCESSING">>
             names == {"DEDUPLICATION_PLAN", "MISSING_VALUE_PLAN", "DERIVED_COLUMN_ORDER",
                       "FINAL_COLUMN_VALIDATION", "SOURCE_DATA_RETRIEVAL", "DETERMINISTIC_PROCESSING"}
  <2>1. /\ Steps = <<"DEDUPLICATION_PLAN", "MISSING_VALUE_PLAN",
                     "DERIVED_COLUMN_ORDER", "FINAL_COLUMN_VALIDATION">>
        /\ Items = Steps \o more
    BY <1>4 DEF Steps, Items, Checklist, Prompts
  <2>2. /\ Steps \in Seq(names) /\ Len(Steps) = 4 /\ DOMAIN Steps = 1 .. 4
        /\ Steps[1] = "DEDUPLICATION_PLAN" /\ Steps[2] = "MISSING_VALUE_PLAN"
        /\ Steps[3] = "DERIVED_COLUMN_ORDER" /\ Steps[4] = "FINAL_COLUMN_VALIDATION"
    <3> HIDE DEF Steps
    <3> QED
      BY <2>1
  <2>3. /\ more \in Seq(names) /\ Len(more) = 2
        /\ more[1] = "SOURCE_DATA_RETRIEVAL" /\ more[2] = "DETERMINISTIC_PROCESSING"
    OBVIOUS
  <2> HIDE DEF more, names
  <2>4. /\ Items \in Seq(names) /\ Len(Items) = 6
        /\ \A i \in 1 .. 6 : Items[i] = IF i <= 4 THEN Steps[i] ELSE more[i - 4]
    BY <2>1, <2>2, <2>3, FourAndTwo
  <2>5. DOMAIN Items = 1 .. 6
    BY <2>4, LenProperties
  <2>6. /\ \A i \in 1 .. 4 : Items[i] = Steps[i]
        /\ Items[5] = "SOURCE_DATA_RETRIEVAL" /\ Items[6] = "DETERMINISTIC_PROCESSING"
    BY <2>3, <2>4
  <2>7. \A i, j \in DOMAIN Items : Items[i] = Items[j] => i = j
    BY <2>2, <2>5, <2>6
  <2> QED
    BY <1>4, <2>2, <2>4, <2>5, <2>6, <2>7
<1> QED
  BY <1>1, <1>2, <1>3, <1>4

LEMMA ItemPlaces ==
    ASSUME agent \in Agents
    PROVE  /\ DOMAIN Items \subseteq Nat \ {0}
           /\ \A i \in DOMAIN Items : Items[i] \in AllSteps
           /\ \A n \in Nat : n + 2 \in DOMAIN Items => n + 1 \in DOMAIN Items
<1>1. DOMAIN Items = 1 .. Len(Items)
  BY ItemFacts
<1>2. Len(Items) \in Nat
  <2>1. Len(Items) \in {3, 4, 6}
    BY ItemFacts
  <2> QED
    BY <2>1
<1>3. \A i \in DOMAIN Items : Items[i] \in AllSteps
  BY DEF Items, AllSteps, Range
<1> QED
  BY <1>1, <1>2, <1>3

\* No item has two places.
LEMMA ItemsApart ==
    ASSUME agent \in Agents, NEW i \in DOMAIN Items, NEW j \in DOMAIN Items, i # j
    PROVE  Items[i] # Items[j]
BY ItemFacts

\* A completed item is the end of the completed ones.
LEMMA OneMore ==
    ASSUME NEW n \in Nat, agent \in Agents
    PROVE  Shown(n, "COMPLETED") <=> Shown(n + 1, "PENDING")
<1>1. DOMAIN Items \subseteq Nat
  BY ItemPlaces
<1> QED
  BY <1>1 DEF Shown

\* The current item is marked.
LEMMA Marks ==
    ASSUME ListTypes, UNCHANGED agent, NEW n \in Nat, n + 1 \in DOMAIN Items,
           NEW s, Shown(n, s), NEW t \in Mark, list' = [list EXCEPT ![Items[n + 1]] = t]
    PROVE  ListTypes' /\ Shown(n, t)'
<1>1. UNCHANGED Items
  BY DEF Items
<1>2. list' \in [AllSteps -> Mark]
  BY DEF ListTypes
<1>3. \A i \in DOMAIN Items : list'[Items[i]] = IF i = n + 1 THEN t ELSE list[Items[i]]
  BY ItemPlaces, ItemsApart DEF ListTypes
<1>4. Shown(n, t)'
  BY <1>1, <1>3, ItemPlaces DEF Shown, ListTypes
<1>5. agent' \in Agents
  BY DEF ListTypes
<1> QED
  BY <1>2, <1>4, <1>5 DEF ListTypes

\* The current item is completed and the next one is marked.
LEMMA Advances ==
    ASSUME ListTypes, UNCHANGED agent, NEW n \in Nat, n + 2 \in DOMAIN Items,
           NEW s, Shown(n, s), NEW t \in Mark, list' \in [AllSteps -> Mark],
           \A x \in AllSteps : list'[x] = IF x = Items[n + 2] THEN t
                                          ELSE IF x = Items[n + 1] THEN "COMPLETED" ELSE list[x]
    PROVE  ListTypes' /\ Shown(n + 1, t)'
<1>1. UNCHANGED Items
  BY DEF Items
<1>2. n + 1 \in DOMAIN Items
  BY ItemPlaces DEF ListTypes
<1>3. \A i \in DOMAIN Items :
        list'[Items[i]] = IF i = n + 2 THEN t ELSE IF i = n + 1 THEN "COMPLETED" ELSE list[Items[i]]
  BY <1>2, ItemPlaces, ItemsApart DEF ListTypes
<1>4. Shown(n + 1, t)'
  BY <1>1, <1>3, ItemPlaces DEF Shown, ListTypes
<1>5. agent' \in Agents /\ n + 1 \in Nat
  BY DEF ListTypes
<1> QED
  BY <1>4, <1>5 DEF ListTypes

\* A list that is left alone.
LEMMA Stays ==
    ASSUME UNCHANGED <<list, agent>>
    PROVE  /\ ListTypes => ListTypes'
           /\ \A n, s : Shown(n, s)' = Shown(n, s)
<1>1. UNCHANGED Items
  BY DEF Items
<1>2. \A n, s : Shown(n, s)' = Shown(n, s)
  BY <1>1 DEF Shown
<1> QED
  BY <1>2 DEF ListTypes

\* The place of a prompt step.
LEMMA StepPlace ==
    ASSUME ListTypes, NEW k \in DOMAIN Steps
    PROVE  k \in Nat /\ k - 1 \in Nat /\ (k - 1) + 1 = k /\ k \in DOMAIN Items /\ Items[k] = Steps[k]
<1>1. agent \in Agents
  BY DEF ListTypes
<1>2. DOMAIN Steps = 1 .. Len(Steps) /\ Len(Steps) \in {3, 4} /\ Items[k] = Steps[k]
  BY <1>1, ItemFacts
<1>3. DOMAIN Items = 1 .. Len(Items) /\ Len(Items) \in {3, 4, 6} /\ Len(Steps) <= Len(Items)
  <2>1. CASE agent = "processing"
    <3>1. Len(Items) = 6 /\ Len(Steps) = 4 /\ DOMAIN Items = 1 .. Len(Items)
      BY <1>1, <2>1, ItemFacts
    <3> QED
      BY <3>1
  <2>2. CASE agent # "processing"
    <3>1. Len(Items) = Len(Steps)
      BY <1>1, <2>2, ItemFacts
    <3> QED
      BY <1>1, <1>2, <3>1, ItemFacts
  <2> QED
    BY <2>1, <2>2
<1> QED
  BY <1>2, <1>3

\* A prompt step is marked.
LEMMA MarksStep ==
    ASSUME ListTypes, UNCHANGED agent, NEW k \in DOMAIN Steps, NEW s, Shown(k - 1, s),
           NEW t \in Mark, list' = [list EXCEPT ![Steps[k]] = t]
    PROVE  ListTypes' /\ Shown(k - 1, t)' /\ (t = "COMPLETED" => Shown(k, "PENDING")')
<1>1. k - 1 \in Nat /\ (k - 1) + 1 = k /\ k \in DOMAIN Items /\ Items[k] = Steps[k]
  BY StepPlace
<1>2. ListTypes' /\ Shown(k - 1, t)'
  BY <1>1, Marks
<1>3. ASSUME t = "COMPLETED"
      PROVE  Shown(k, "PENDING")'
  <2>1. DOMAIN Items' \subseteq Nat
    BY ItemPlaces DEF Items, ListTypes
  <2> QED
    BY <1>1, <1>2, <1>3, <2>1 DEF Shown
<1> QED
  BY <1>2, <1>3

\* A job that goes on changes nothing for its client.
LEMMA BesideClient ==
    ASSUME ListInv, job.phase # "idle", job'.phase # "idle",
           UNCHANGED <<client, outcome, mode, agent>>,
           Stepwise => job'.step = job.step /\ job'.attempt = job.attempt
    PROVE  ClientShows' /\ OutcomeShows'
<1>1. Stepwise' = Stepwise /\ Steps' = Steps
  BY DEF Stepwise, Steps
<1>2. client.phase # "sending" /\ outcome.kind # "passed" /\ outcome.reason # "contract"
  BY DEF ListInv, ClientShows, OutcomeShows
<1>3. ClientShows'
  BY <1>1, <1>2 DEF ListInv, ClientShows
<1>4. OutcomeShows'
  BY <1>2 DEF OutcomeShows
<1> QED
  BY <1>3, <1>4

\* The job asks.
LEMMA ShowsAsking ==
    ASSUME ListInv, UNCHANGED <<client, outcome, mode, agent>>, job.phase # "idle", IsJob(job),
           NEW k \in DOMAIN Steps, NEW a \in Nat \ {0}, NEW f, NEW w, Ask(k, a, f, w),
           Stepwise => k = job.step /\ a = job.attempt,
           NEW s \in Open, Shown(k - 1, s)', ListTypes'
    PROVE  ListInv'
<1>1. k \in Nat
  BY StepPlace DEF ListInv
<1>2. job'.phase = "ask" /\ job'.step = k /\ job'.attempt = a
  BY <1>1, AskJob
<1>3. Steps' = Steps
  BY DEF Steps
<1>4. JobShows'
  BY <1>2, <1>3 DEF JobShows
<1>5. ClientShows' /\ OutcomeShows'
  BY <1>2, BesideClient
<1> QED
  BY <1>4, <1>5 DEF ListInv

\* The job replies.
LEMMA ShowsReply ==
    ASSUME ListInv, UNCHANGED <<client, outcome, mode, agent>>, job.phase # "idle", IsJob(job),
           NEW w, NEW o, Finish(w, o), ListTypes', NEW k, k = job.step,
           NEW m, m = IF Stepwise THEN k ELSE Len(Items),
           o.kind = "result" => Shown(m, "PENDING")',
           o.kind = "retry" =>
             \/ o.reason = "probe" /\ Shown(k, "PENDING")'
             \/ /\ o.reason = "contract" /\ Stepwise
                /\ \E s \in IF job.attempt >= MaxAttempts THEN {"FAILED"} ELSE Open :
                     Shown(k - 1, s)',
           o.kind = "error" /\ o.reason = "contract" => Shown(k - 1, "FAILED")'
    PROVE  ListInv'
<1>1. job'.phase = "reply" /\ job'.step = job.step /\ job'.attempt = job.attempt /\ job'.output = o
  BY DEF Finish, IsJob
<1>2. Steps' = Steps /\ Items' = Items /\ Stepwise' = Stepwise
  BY DEF Steps, Items, Stepwise
<1>3. Replies(o)'
  BY <1>1, <1>2 DEF Replies
<1>4. job.step \in DOMAIN Steps
  BY DEF ListInv, JobShows
<1>5. JobShows'
  BY <1>1, <1>2, <1>3, <1>4 DEF JobShows
<1>6. ClientShows' /\ OutcomeShows'
  BY <1>1, BesideClient
<1> QED
  BY <1>5, <1>6 DEF ListInv

\* At the start nothing is marked.
LEMMA ListInitially == Init => ListInv
<1> SUFFICES ASSUME Init
             PROVE  ListInv
  OBVIOUS
<1>1. /\ agent \in Agents /\ client = Request(1, 1, NoFeedback, <<>>) /\ job = Idle
      /\ list = Pending /\ outcome = Undecided
  BY DEF Init
<1>2. list \in [AllSteps -> Mark]
  BY <1>1 DEF Pending, Mark
<1>3. Shown(0, "PENDING")
  BY <1>1, ItemPlaces DEF Shown, Pending
<1>4. 1 \in DOMAIN Steps
  <2>1. DOMAIN Steps = 1 .. Len(Steps) /\ Len(Steps) \in {3, 4}
    BY <1>1, ItemFacts
  <2> QED
    BY <2>1
<1>5. ListTypes
  BY <1>1, <1>2, <1>3 DEF ListTypes, Mark
<1>6. JobShows
  BY <1>1 DEF JobShows, Idle
<1>7. ClientShows
  BY <1>1, <1>3, <1>4 DEF ClientShows, Begun, Request, Idle
<1>8. OutcomeShows
  BY <1>1 DEF OutcomeShows, Undecided
<1> QED
  BY <1>5, <1>6, <1>7, <1>8 DEF ListInv

\* Only the first attempt marks its step; the others find it marked.
LEMMA StartShows == ASSUME ListInv, JobFresh, StartJob PROVE ListInv'
<1>1. /\ job.phase = "begin" /\ Ask(job.step, job.attempt, job.feedback, job.work)
      /\ UNCHANGED <<client, outcome, mode, agent>>
  BY DEF StartJob
<1>2. /\ job.step \in DOMAIN Steps /\ Begun(job.step, job.attempt) /\ ListTypes
      /\ IsJob(job) /\ job.attempt \in Nat \ {0}
  BY <1>1 DEF ListInv, JobShows, JobFresh, IsJob
<1>3. PICK k \in DOMAIN Steps : k = job.step
  BY <1>2
<1>4. CASE job.attempt = 1
  <2>1. Shown(k - 1, "PENDING")
    BY <1>2, <1>3, <1>4 DEF Begun
  <2>2. list' = [list EXCEPT ![Steps[k]] = "RUNNING"]
    BY <1>3, <1>4 DEF StartJob
  <2>3. ListTypes' /\ Shown(k - 1, "RUNNING")'
    BY <1>1, <1>2, <2>1, <2>2, MarksStep DEF Mark
  <2> QED
    BY <1>1, <1>2, <1>3, <2>3, ShowsAsking DEF Open
<1>5. CASE job.attempt # 1
  <2>1. PICK s \in Open : Shown(k - 1, s)
    BY <1>2, <1>3, <1>5 DEF Begun
  <2>2. UNCHANGED list
    BY <1>5 DEF StartJob
  <2>3. ListTypes' /\ Shown(k - 1, s)'
    BY <1>1, <1>2, <2>1, <2>2, Stays
  <2> QED
    BY <1>1, <1>2, <1>3, <2>3, ShowsAsking
<1> QED
  BY <1>4, <1>5

\* Without a schema no step is shown as failed: the outcome says why.
LEMMA SchemaShows == ASSUME ListInv, JobFresh, SchemaUnavailable PROVE ListInv'
<1> DEFINE o == Error("INSUFFICIENT_DATA", "schema")
<1>1. /\ Finish(job.work, o) /\ job.phase = "begin"
      /\ UNCHANGED <<client, outcome, mode, agent, list>>
  BY DEF SchemaUnavailable
<1>2. o.kind = "error" /\ o.reason = "schema"
  BY DEF Error
<1> HIDE DEF o
<1>3. ListTypes' /\ IsJob(job)
  BY <1>1, Stays DEF ListInv, JobFresh
<1> QED
  BY <1>1, <1>2, <1>3, ShowsReply

\* Accepted: the step is completed and the next one runs.
LEMMA NextPromptShows == ASSUME ListInv, JobFresh, NEW answer, NextPrompt(answer) PROVE ListInv'
<1>1. /\ job.phase = "ask" /\ ~ Stepwise /\ job.step < Len(Steps)
      /\ list' = [list EXCEPT ![Steps[job.step]] = "COMPLETED", ![Steps[job.step + 1]] = "RUNNING"]
      /\ UNCHANGED <<client, outcome, mode, agent>>
  BY DEF NextPrompt
<1>2. PICK w : Ask(job.step + 1, 1, NoFeedback, w)
  BY DEF NextPrompt
<1>3. /\ job.step \in DOMAIN Steps /\ ListTypes /\ IsJob(job) /\ agent \in Agents
  BY <1>1 DEF ListInv, JobShows, JobFresh, ListTypes
<1>4. PICK k \in DOMAIN Steps : k = job.step
  BY <1>3
<1>5. PICK s \in Open : Shown(k - 1, s)
  BY <1>1, <1>4 DEF ListInv, JobShows
<1>6. k + 1 \in DOMAIN Steps
  <2>1. DOMAIN Steps = 1 .. Len(Steps) /\ Len(Steps) \in {3, 4}
    BY <1>3, ItemFacts
  <2> QED
    BY <1>1, <1>4, <2>1
<1>7. /\ k - 1 \in Nat /\ (k - 1) + 1 = k /\ (k - 1) + 2 = k + 1 /\ (k + 1) - 1 = k
      /\ k \in DOMAIN Items /\ Items[k] = Steps[k]
      /\ k + 1 \in DOMAIN Items /\ Items[k + 1] = Steps[k + 1]
  BY <1>3, <1>6, StepPlace
<1>8. /\ list' \in [AllSteps -> Mark]
      /\ \A x \in AllSteps : list'[x] = IF x = Items[k + 1] THEN "RUNNING"
                                        ELSE IF x = Items[k] THEN "COMPLETED" ELSE list[x]
  BY <1>1, <1>3, <1>4, <1>7 DEF ListTypes, Mark
<1>9. ListTypes' /\ Shown(k, "RUNNING")'
  BY <1>1, <1>3, <1>5, <1>7, <1>8, Advances DEF Mark
<1> QED
  BY <1>1, <1>2, <1>3, <1>4, <1>6, <1>7, <1>9, ShowsAsking DEF Open

\* The job goes on with something that is not a prompt.
LEMMA ShowsGoing ==
    ASSUME ListInv, UNCHANGED <<client, outcome, mode, agent>>, job.phase # "idle", IsJob(job),
           NEW p \in {"probe", "retrieve", "process", "store"}, NEW w,
           job' = [job EXCEPT !.phase = p, !.work = w], ListTypes', NEW k, k = job.step,
           p = "probe" => Shown(k, "PENDING")' /\ (~ Stepwise => k = Len(Items)),
           p = "retrieve" => agent = "processing" /\ Shown(4, "RUNNING")',
           p = "process" => agent = "processing" /\ Shown(5, "RUNNING")',
           p = "store" => agent = "processing" /\ Shown(6, "PENDING")'
    PROVE  ListInv'
<1>1. job'.phase = p /\ job'.step = job.step /\ job'.attempt = job.attempt
  BY DEF IsJob
<1>2. Steps' = Steps /\ Items' = Items /\ Stepwise' = Stepwise
  BY DEF Steps, Items, Stepwise
<1>3. job.step \in DOMAIN Steps
  BY DEF ListInv, JobShows
<1>4. JobShows'
  BY <1>1, <1>2, <1>3 DEF JobShows
<1>5. ClientShows' /\ OutcomeShows'
  BY <1>1, BesideClient
<1> QED
  BY <1>4, <1>5 DEF ListInv

\* The last prompt completes its step. What follows it runs, or the stage has
\* every item completed.
LEMMA LastPromptShows == ASSUME ListInv, JobFresh, NEW answer, LastPrompt(answer) PROVE ListInv'
<1> DEFINE step == Steps[job.step]
           work == Append(job.work, ResultOf(step, answer, job.work))
           done == [list EXCEPT ![step] = "COMPLETED"]
<1>1. /\ job.phase = "ask" /\ (Stepwise \/ job.step = Len(Steps))
      /\ UNCHANGED <<client, outcome, mode, agent>>
  BY DEF LastPrompt
<1>2. \/ /\ agent = "processing"
         /\ job' = [job EXCEPT !.phase = "retrieve", !.work = work]
         /\ list' = [done EXCEPT !["SOURCE_DATA_RETRIEVAL"] = "RUNNING"]
      \/ /\ agent = "selection" /\ (Stepwise => job.step = 1)
         /\ job' = [job EXCEPT !.phase = "probe", !.work = work]
         /\ list' = done
      \/ agent # "processing" /\ Finish(work, Result) /\ list' = done
  <2>1. CASE agent = "processing"
    BY <2>1 DEF LastPrompt
  <2>2. CASE agent # "processing" /\ agent = "selection" /\ (Stepwise => job.step = 1)
    BY <2>2 DEF LastPrompt
  <2>3. CASE agent # "processing" /\ ~ (agent = "selection" /\ (Stepwise => job.step = 1))
    BY <2>3 DEF LastPrompt
  <2> QED
    BY <2>1, <2>2, <2>3
<1> HIDE DEF work
<1>3. /\ job.step \in DOMAIN Steps /\ ListTypes /\ IsJob(job) /\ agent \in Agents
  BY <1>1 DEF ListInv, JobShows, JobFresh, ListTypes
<1>4. PICK k \in DOMAIN Steps : k = job.step
  BY <1>3
<1>5. PICK s \in Open : Shown(k - 1, s)
  BY <1>1, <1>4 DEF ListInv, JobShows
<1>6. CASE list' = done /\ agent # "processing"
  <2>1. list' = [list EXCEPT ![Steps[k]] = "COMPLETED"]
    BY <1>4, <1>6
  <2>2. ListTypes' /\ Shown(k, "PENDING")'
    BY <1>1, <1>3, <1>5, <2>1, MarksStep DEF Mark
  <2>3. ~ Stepwise => k = Len(Items)
    BY <1>1, <1>3, <1>4, <1>6, ItemFacts
  <2>4. CASE job' = [job EXCEPT !.phase = "probe", !.work = work]
    BY <1>1, <1>3, <1>4, <2>2, <2>3, <2>4, ShowsGoing
  <2>5. CASE Finish(work, Result)
    <3>1. PICK m : m = IF Stepwise THEN k ELSE Len(Items)
      OBVIOUS
    <3>2. m = k
      BY <2>3, <3>1
    <3>3. Result.kind = "result"
      BY DEF Result
    <3> QED
      BY <1>1, <1>3, <1>4, <2>2, <2>5, <3>1, <3>2, <3>3, ShowsReply
  <2> QED
    BY <1>2, <1>6, <2>4, <2>5
<1>7. CASE /\ agent = "processing"
           /\ job' = [job EXCEPT !.phase = "retrieve", !.work = work]
           /\ list' = [done EXCEPT !["SOURCE_DATA_RETRIEVAL"] = "RUNNING"]
  <2>1. Len(Steps) = 4 /\ Len(Items) = 6 /\ DOMAIN Items = 1 .. Len(Items)
    BY <1>3, <1>7, ItemFacts
  <2>2. ~ Stepwise
    BY <1>7 DEF Stepwise
  <2>3. k = 4 /\ 3 + 2 \in DOMAIN Items /\ 3 + 1 = 4 /\ k - 1 = 3 /\ 3 + 2 = 5 /\ 4 \in DOMAIN Items
    BY <1>1, <1>4, <2>1, <2>2
  <2>4. Items[4] = Steps[4] /\ Items[5] = "SOURCE_DATA_RETRIEVAL"
    BY <1>3, <1>4, <1>7, <2>3, ItemFacts
  <2>5. \A i \in DOMAIN Items : Items[i] \in AllSteps
    BY <1>3, ItemPlaces
  <2>6. /\ list' \in [AllSteps -> Mark]
        /\ \A x \in AllSteps : list'[x] = IF x = Items[5] THEN "RUNNING"
                                          ELSE IF x = Items[4] THEN "COMPLETED" ELSE list[x]
    BY <1>3, <1>4, <1>7, <2>3, <2>4, <2>5 DEF ListTypes, Mark
  <2>7. ListTypes' /\ Shown(4, "RUNNING")'
    BY <1>1, <1>3, <1>5, <2>3, <2>6, Advances DEF Mark
  <2> QED
    BY <1>1, <1>3, <1>4, <1>7, <2>7, ShowsGoing
<1> QED
  BY <1>2, <1>6, <1>7

\* Refused: the step has failed when that was the last attempt.
LEMMA RefuseShows == ASSUME ListInv, JobFresh, NEW answer, Refuse(answer) PROVE ListInv'
<1>1. /\ job.phase = "ask" /\ UNCHANGED <<client, outcome, mode, agent>>
      /\ list' = IF job.attempt >= MaxAttempts THEN [list EXCEPT ![Steps[job.step]] = "FAILED"] ELSE list
  BY DEF Refuse, Exhausted
<1>3. /\ job.step \in DOMAIN Steps /\ ListTypes /\ IsJob(job) /\ agent \in Agents
      /\ job.attempt \in Nat
  BY <1>1 DEF ListInv, JobShows, JobFresh, ListTypes, IsJob
<1>4. PICK k \in DOMAIN Steps : k = job.step
  BY <1>3
<1>5. PICK s \in Open : Shown(k - 1, s)
  BY <1>1, <1>4 DEF ListInv, JobShows
<1>6. PICK m : m = IF Stepwise THEN k ELSE Len(Items)
  OBVIOUS
<1>7. /\ ListTypes'
      /\ \E t \in IF job.attempt >= MaxAttempts THEN {"FAILED"} ELSE Open : Shown(k - 1, t)'
  <2>1. CASE job.attempt >= MaxAttempts
    <3>1. list' = [list EXCEPT ![Steps[k]] = "FAILED"]
      BY <1>1, <1>4, <2>1
    <3>2. ListTypes' /\ Shown(k - 1, "FAILED")'
      BY <1>1, <1>3, <1>5, <3>1, MarksStep DEF Mark
    <3> QED
      BY <2>1, <3>2
  <2>2. CASE ~ (job.attempt >= MaxAttempts)
    <3>1. UNCHANGED list
      BY <1>1, <2>2
    <3>2. ListTypes' /\ Shown(k - 1, s)'
      BY <1>1, <1>3, <1>5, <3>1, Stays
    <3> QED
      BY <2>2, <3>2
  <2> QED
    BY <2>1, <2>2
<1>8. CASE Stepwise
  <2> DEFINE o == Retry(ContractCode, "contract")
  <2>1. Finish(job.work, o)
    BY <1>8 DEF Refuse
  <2>2. o.kind = "retry" /\ o.reason = "contract"
    BY DEF Retry
  <2> HIDE DEF o
  <2> QED
    BY <1>1, <1>3, <1>4, <1>6, <1>7, <1>8, <2>1, <2>2, ShowsReply
<1>9. CASE ~ Stepwise /\ job.attempt >= MaxAttempts
  <2> DEFINE o == Error(ContractCode, "contract")
  <2>1. Finish(job.work, o)
    BY <1>9 DEF Refuse
  <2>2. o.kind = "error"
    BY DEF Error
  <2>3. Shown(k - 1, "FAILED")'
    BY <1>7, <1>9
  <2> HIDE DEF o
  <2> QED
    BY <1>1, <1>3, <1>4, <1>6, <1>7, <2>1, <2>2, <2>3, ShowsReply
<1>10. CASE ~ Stepwise /\ ~ (job.attempt >= MaxAttempts)
  <2> DEFINE f == <<job.step, job.attempt, "contract">>
  <2>1. Ask(job.step, job.attempt + 1, f, job.work)
    BY <1>10 DEF Refuse
  <2> HIDE DEF f
  <2>2. \E t \in Open : Shown(k - 1, t)'
    BY <1>7, <1>10
  <2>3. job.attempt + 1 \in Nat \ {0}
    BY <1>3
  <2> QED
    BY <1>1, <1>3, <1>4, <1>7, <1>10, <2>1, <2>2, <2>3, ShowsAsking
<1> QED
  BY <1>8, <1>9, <1>10

\* The probe leaves the list alone: its step stays completed, also when it is
\* to be repeated.
LEMMA ProbeShows == ASSUME ListInv, JobFresh, NEW b, ProbeSelection(b) PROVE ListInv'
<1>1. job.phase = "probe" /\ UNCHANGED <<client, outcome, mode, agent, list>>
  BY DEF ProbeSelection
<1>2. PICK o : /\ Finish(job.work, o)
               /\ o.kind \in {"result", "retry"} /\ (o.kind = "retry" => o.reason = "probe")
  <2>1. Retry("INSUFFICIENT_DATA", "probe").kind = "retry"
    BY DEF Retry
  <2>2. Retry("INSUFFICIENT_DATA", "probe").reason = "probe"
    BY DEF Retry
  <2>3. Retry("PRIVACY_THRESHOLD_NOT_MET", "probe").kind = "retry"
    BY DEF Retry
  <2>4. Retry("PRIVACY_THRESHOLD_NOT_MET", "probe").reason = "probe"
    BY DEF Retry
  <2>5. Result.kind = "result"
    BY DEF Result
  <2> DEFINE v == IF b THEN Probe(job.work[1]) ELSE "skipped"
  <2>6. CASE v = "no_data"
    BY <2>1, <2>2, <2>6 DEF ProbeSelection
  <2>7. CASE v = "too_few"
    BY <2>3, <2>4, <2>7 DEF ProbeSelection
  <2>8. CASE v # "no_data" /\ v # "too_few"
    BY <2>5, <2>8 DEF ProbeSelection
  <2> QED
    BY <2>6, <2>7, <2>8
<1>3. PICK k : k = job.step
  OBVIOUS
<1>4. /\ ListTypes' /\ Shown(k, "PENDING")' /\ IsJob(job)
      /\ ~ Stepwise => k = Len(Items)
  BY <1>1, <1>3, Stays DEF ListInv, JobShows, JobFresh
<1>5. PICK m : m = IF Stepwise THEN k ELSE Len(Items)
  OBVIOUS
<1>6. m = k
  BY <1>4, <1>5
<1> QED
  BY <1>1, <1>2, <1>3, <1>4, <1>5, <1>6, ShowsReply

\* The six items of data processing.
LEMMA SixItems ==
    ASSUME ListTypes, agent = "processing"
    PROVE  /\ Len(Items) = 6 /\ DOMAIN Items = 1 .. 6 /\ ~ Stepwise
           /\ Items[5] = "SOURCE_DATA_RETRIEVAL" /\ Items[6] = "DETERMINISTIC_PROCESSING"
           /\ Items[5] \in AllSteps /\ Items[6] \in AllSteps
<1>1. /\ Len(Items) = 6 /\ DOMAIN Items = 1 .. Len(Items)
      /\ Items[5] = "SOURCE_DATA_RETRIEVAL" /\ Items[6] = "DETERMINISTIC_PROCESSING"
  BY ItemFacts DEF ListTypes
<1>2. Items[5] \in AllSteps /\ Items[6] \in AllSteps
  BY <1>1, ItemPlaces DEF ListTypes
<1> QED
  BY <1>1, <1>2 DEF Stepwise

\* A reply of a job that has left its prompts behind.
LEMMA ShowsEnd ==
    ASSUME ListInv, UNCHANGED <<client, outcome, mode, agent>>, IsJob(job), agent = "processing",
           job.phase # "idle", NEW w, NEW o, Finish(w, o), ListTypes',
           \/ o.kind = "result" /\ Shown(6, "PENDING")'
           \/ o.kind = "error" /\ o.reason # "contract"
    PROVE  ListInv'
<1>1. PICK k, m : k = job.step /\ m = IF Stepwise THEN k ELSE Len(Items)
  OBVIOUS
<1>2. m = 6
  BY <1>1, SixItems DEF ListInv
<1> QED
  BY <1>1, <1>2, ShowsReply

\* Reading the approved columns is the fifth item.
LEMMA RetrieveShows == ASSUME ListInv, JobFresh, NEW b, Retrieve(b) PROVE ListInv'
<1> DEFINE verdict == Probe(approved)
           fails == ~ b \/ verdict # "passed" \/ ~ Executable(approved)
           o == Error(IF b /\ verdict = "too_few" THEN "PRIVACY_THRESHOLD_NOT_MET"
                      ELSE "INSUFFICIENT_DATA", "query")
<1>1. job.phase = "retrieve" /\ UNCHANGED <<client, outcome, mode, agent>>
  BY DEF Retrieve
<1>2. /\ agent = "processing" /\ Shown(4, "RUNNING") /\ ListTypes /\ IsJob(job)
  BY <1>1 DEF ListInv, JobShows, JobFresh
<1>3. /\ DOMAIN Items = 1 .. 6
      /\ Items[5] = "SOURCE_DATA_RETRIEVAL" /\ Items[6] = "DETERMINISTIC_PROCESSING"
      /\ Items[5] \in AllSteps /\ Items[6] \in AllSteps
  BY <1>2, SixItems
<1>4. CASE fails
  <2>1. Finish(job.work, o)
    BY <1>4 DEF Retrieve
  <2>2. list' = [list EXCEPT ![Items[4 + 1]] = "FAILED"]
    BY <1>3, <1>4 DEF Retrieve
  <2>3. o.kind = "error" /\ o.reason # "contract"
    BY DEF Error
  <2> HIDE DEF o
  <2>4. 4 \in Nat /\ 4 + 1 \in DOMAIN Items
    BY <1>3
  <2>5. ListTypes'
    BY <1>1, <1>2, <2>2, <2>4, Marks DEF Mark
  <2> QED
    BY <1>1, <1>2, <2>1, <2>3, <2>5, ShowsEnd
<1>5. CASE ~ fails
  <2>1. /\ job' = [job EXCEPT !.phase = "process"]
        /\ list' = [list EXCEPT !["SOURCE_DATA_RETRIEVAL"] = "COMPLETED",
                                !["DETERMINISTIC_PROCESSING"] = "RUNNING"]
    BY <1>5 DEF Retrieve
  <2>2. 4 \in Nat /\ 4 + 2 \in DOMAIN Items /\ 4 + 2 = 6 /\ 4 + 1 = 5
    BY <1>3
  <2>3. /\ list' \in [AllSteps -> Mark]
        /\ \A x \in AllSteps : list'[x] = IF x = Items[6] THEN "RUNNING"
                                          ELSE IF x = Items[5] THEN "COMPLETED" ELSE list[x]
    BY <1>2, <1>3, <2>1 DEF ListTypes, Mark
  <2>4. ListTypes' /\ Shown(5, "RUNNING")'
    BY <1>1, <1>2, <2>2, <2>3, Advances DEF Mark
  <2>5. job' = [job EXCEPT !.phase = "process", !.work = job.work]
    BY <1>2, <2>1 DEF IsJob
  <2> QED
    BY <1>1, <1>2, <2>4, <2>5, ShowsGoing
<1> QED
  BY <1>4, <1>5

\* Executing the plan is the last item.
LEMMA ProcessShows == ASSUME ListInv, JobFresh, NEW b, Process(b) PROVE ListInv'
<1> DEFINE fails == ProcessingFails(job.work[4], b)
           o == Error("PROCESSING_RULE_INVALID", "execution")
<1>1. job.phase = "process" /\ UNCHANGED <<client, outcome, mode, agent>>
  BY DEF Process
<1>2. /\ agent = "processing" /\ Shown(5, "RUNNING") /\ ListTypes /\ IsJob(job)
  BY <1>1 DEF ListInv, JobShows, JobFresh
<1>3. DOMAIN Items = 1 .. 6 /\ Items[6] = "DETERMINISTIC_PROCESSING"
  BY <1>2, SixItems
<1>4. 5 \in Nat /\ 5 + 1 \in DOMAIN Items /\ 5 + 1 = 6
  BY <1>3
<1>5. list' = [list EXCEPT ![Items[5 + 1]] = IF fails THEN "FAILED" ELSE "COMPLETED"]
  <2>1. list' = [list EXCEPT !["DETERMINISTIC_PROCESSING"] = IF fails THEN "FAILED" ELSE "COMPLETED"]
    BY DEF Process
  <2>2. Items[5 + 1] = "DETERMINISTIC_PROCESSING"
    BY <1>3, <1>4
  <2> HIDE DEF fails
  <2> QED
    BY <2>1, <2>2
<1>6. CASE fails
  <2>1. Finish(job.work, o)
    BY <1>6 DEF Process
  <2>2. o.kind = "error" /\ o.reason # "contract"
    BY DEF Error
  <2> HIDE DEF o
  <2>3. list' = [list EXCEPT ![Items[5 + 1]] = "FAILED"]
    BY <1>5, <1>6
  <2>4. ListTypes'
    BY <1>1, <1>2, <1>4, <2>3, Marks DEF Mark
  <2> QED
    BY <1>1, <1>2, <2>1, <2>2, <2>4, ShowsEnd
<1>7. CASE ~ fails
  <2>1. list' = [list EXCEPT ![Items[5 + 1]] = "COMPLETED"]
    BY <1>5, <1>7
  <2>2. ListTypes' /\ Shown(5, "COMPLETED")'
    BY <1>1, <1>2, <1>4, <2>1, Marks DEF Mark
  <2>3. Shown(6, "PENDING")'
    <3>1. DOMAIN Items' = 1 .. 6
      BY <1>1, <1>3 DEF Items
    <3> QED
      BY <2>2, <3>1 DEF Shown
  <2>4. \/ job' = [job EXCEPT !.phase = "store"]
        \/ Finish(job.work, Result)
    BY <1>7 DEF Process
  <2>5. CASE job' = [job EXCEPT !.phase = "store"]
    <3>1. job' = [job EXCEPT !.phase = "store", !.work = job.work]
      BY <1>2, <2>5 DEF IsJob
    <3> QED
      BY <1>1, <1>2, <2>2, <2>3, <3>1, ShowsGoing
  <2>6. CASE Finish(job.work, Result)
    BY <1>1, <1>2, <2>2, <2>3, <2>6, ShowsEnd DEF Result
  <2> QED
    BY <2>4, <2>5, <2>6
<1> QED
  BY <1>6, <1>7

\* A file that cannot be stored leaves a completed list beside an error.
LEMMA StoreShows == ASSUME ListInv, JobFresh, NEW b, StoreArtifact(b) PROVE ListInv'
<1> DEFINE o == IF b THEN Result ELSE Error("PROCESSING_RULE_INVALID", "storage")
<1>1. Finish(job.work, o) /\ job.phase = "store" /\ UNCHANGED <<client, outcome, mode, agent, list>>
  BY DEF StoreArtifact
<1>2. /\ agent = "processing" /\ Shown(6, "PENDING") /\ IsJob(job)
  BY <1>1 DEF ListInv, JobShows, JobFresh
<1>3. ListTypes' /\ Shown(6, "PENDING")'
  BY <1>1, <1>2, Stays DEF ListInv
<1>4. o.kind = "result" \/ (o.kind = "error" /\ o.reason # "contract")
  BY DEF Result, Error
<1> HIDE DEF o
<1> QED
  BY <1>1, <1>2, <1>3, <1>4, ShowsEnd

\* A list the client's steps leave alone. What was shown is still shown.
LEMMA ListBesideClient ==
    ASSUME ListInv, UNCHANGED <<list, mode, agent>>
    PROVE  /\ ListTypes' /\ Steps' = Steps /\ Items' = Items /\ Stepwise' = Stepwise
           /\ \A n, s : Shown(n, s)' = Shown(n, s)
           /\ \A k, a : Begun(k, a)' = Begun(k, a)
<1>1. ListTypes' /\ \A n, s : Shown(n, s)' = Shown(n, s)
  BY Stays DEF ListInv
<1>2. \A k, a : Begun(k, a)' = Begun(k, a)
  BY <1>1 DEF Begun
<1> QED
  BY <1>1, <1>2 DEF Steps, Items, Stepwise

\* A job that is left alone beside such a list.
LEMMA JobShownStill ==
    ASSUME ListInv, UNCHANGED <<list, mode, agent, job>>
    PROVE  JobShows'
<1>1. Steps' = Steps /\ Items' = Items /\ Stepwise' = Stepwise
  BY DEF Steps, Items, Stepwise
<1>2. /\ Shown(job.step - 1, "FAILED")' = Shown(job.step - 1, "FAILED")
      /\ Shown(job.step, "PENDING")' = Shown(job.step, "PENDING")
      /\ \A n, s : Shown(n, s)' = Shown(n, s)
      /\ \A s : Shown(job.step - 1, s)' = Shown(job.step - 1, s)
      /\ Begun(job.step, job.attempt)' = Begun(job.step, job.attempt)
  BY <1>1 DEF Begun, Shown
<1>3. Replies(job.output)' = Replies(job.output)
  BY <1>1 DEF Replies, Shown
<1> QED
  BY <1>1, <1>2, <1>3 DEF ListInv, JobShows

\* A reply to nobody is lost.
LEMMA LostShows == ASSUME ListInv, ReplyLost PROVE ListInv'
<1>1. job' = Idle /\ client.phase = "done" /\ UNCHANGED <<client, outcome, list, mode, agent>>
      /\ job.phase = "reply"
  BY DEF ReplyLost
<1>2. /\ ListTypes' /\ Steps' = Steps
  BY <1>1, ListBesideClient
<1>3. JobShows' /\ job'.phase = "idle"
  BY <1>1 DEF JobShows, Idle
<1>4. ClientShows'
  BY <1>1, <1>2 DEF ClientShows, ListInv
<1>5. OutcomeShows'
  BY <1>1 DEF OutcomeShows, ListInv
<1> QED
  BY <1>2, <1>3, <1>4, <1>5 DEF ListInv

\* A delivery hands the request to a job that has marked nothing yet.
LEMMA DeliverShows == ASSUME ListInv, Deliver, IsRequest(client) PROVE ListInv'
<1>1. /\ client.phase = "sending" /\ client' = [client EXCEPT !.phase = "waiting"]
      /\ job' = [Idle EXCEPT !.phase = "begin", !.step = client.step, !.attempt = client.attempt,
                             !.feedback = client.feedback, !.work = client.merged]
      /\ UNCHANGED <<list, outcome, mode, agent>>
  BY DEF Deliver
<1>2. /\ ListTypes' /\ Steps' = Steps
      /\ \A k, a : Begun(k, a)' = Begun(k, a)
  BY <1>1, ListBesideClient
<1>3. /\ client'.phase = "waiting" /\ client'.step = client.step /\ client'.attempt = client.attempt
  BY <1>1 DEF IsRequest
<1>4. job'.phase = "begin" /\ job'.step = client.step /\ job'.attempt = client.attempt
  BY <1>1 DEF Idle
<1>5. client.step \in DOMAIN Steps /\ Begun(client.step, client.attempt) /\ outcome = Undecided
  BY <1>1 DEF ListInv, ClientShows
<1>6. JobShows'
  <2>1. PICK k, a : k = client.step /\ a = client.attempt
    OBVIOUS
  <2>2. Begun(k, a)'
    BY <1>2, <1>5, <2>1
  <2>3. Begun(job.step, job.attempt)'
    BY <1>4, <2>1, <2>2 DEF Begun
  <2> QED
    BY <1>2, <1>4, <1>5, <2>3 DEF JobShows
<1>7. ClientShows'
  BY <1>1, <1>2, <1>3, <1>4, <1>5 DEF ClientShows
<1>8. OutcomeShows'
  BY <1>1, <1>5 DEF OutcomeShows, Undecided
<1> QED
  BY <1>2, <1>6, <1>7, <1>8 DEF ListInv

\* A new request finds the list as its attempt needs it.
LEMMA RequestShows ==
    ASSUME ListInv, UNCHANGED <<list, outcome, mode, agent>>, job' = Idle,
           NEW k \in DOMAIN Steps, NEW a, NEW f, NEW w, client' = Request(k, a, f, w),
           Begun(k, a), outcome = Undecided
    PROVE  ListInv'
<1>1. /\ ListTypes' /\ Steps' = Steps /\ Begun(k, a)'
  BY ListBesideClient
<1>2. client'.phase = "sending" /\ client'.step = k /\ client'.attempt = a
  BY DEF Request
<1>3. job'.phase = "idle"
  BY DEF Idle
<1>4. JobShows'
  BY <1>3 DEF JobShows
<1>5. ClientShows'
  <2>1. Begun(client.step, client.attempt)'
    BY <1>1, <1>2 DEF Begun
  <2> QED
    BY <1>1, <1>2, <1>3, <2>1 DEF ClientShows
<1>6. OutcomeShows'
  BY DEF OutcomeShows, Undecided
<1> QED
  BY <1>1, <1>4, <1>5, <1>6 DEF ListInv

\* The next step of a selection is untouched.
LEMMA NextRequestShows == ASSUME ListInv, NextRequest PROVE ListInv'
<1>1. /\ Replied("result") /\ Stepwise /\ client.step < Len(Steps) /\ job' = Idle
      /\ client' = Request(client.step + 1, 1, NoFeedback, job.work)
      /\ UNCHANGED <<list, outcome, mode, agent>>
  BY DEF NextRequest
<1>2. /\ client.step \in DOMAIN Steps /\ job.step = client.step /\ outcome = Undecided
      /\ Shown(job.step, "PENDING") /\ agent \in Agents
  BY <1>1 DEF Replied, ListInv, ClientShows, JobShows, Replies, ListTypes
<1>3. client.step + 1 \in DOMAIN Steps /\ (client.step + 1) - 1 = client.step
  <2>1. DOMAIN Steps = 1 .. Len(Steps) /\ Len(Steps) \in {3, 4}
    BY <1>2, ItemFacts
  <2> QED
    BY <1>1, <1>2, <2>1
<1>4. Begun(client.step + 1, 1)
  BY <1>2, <1>3 DEF Begun
<1> QED
  BY <1>1, <1>2, <1>3, <1>4, RequestShows

\* A repeated step is running, or completed when the probe refused it.
LEMMA RetryRequestShows == ASSUME ListInv, ClientFresh, RetryRequest PROVE ListInv'
<1>1. /\ Replied("retry") /\ Stepwise /\ client.attempt < MaxAttempts /\ job' = Idle
      /\ UNCHANGED <<list, outcome, mode, agent>>
  BY DEF RetryRequest
<1>2. PICK f : client' = Request(client.step, client.attempt + 1, f, client.merged)
  BY DEF RetryRequest
<1>3. /\ client.step \in DOMAIN Steps /\ job.step = client.step /\ job.attempt = client.attempt
      /\ outcome = Undecided /\ ListTypes /\ agent \in Agents
      /\ client.attempt \in Nat \ {0}
  BY <1>1 DEF Replied, ListInv, ClientShows, ListTypes, ClientFresh, IsRequest
<1>4. \E s \in Open : Shown(client.step - 1, s)
  <2>1. \/ Shown(job.step, "PENDING")
        \/ \E s \in IF job.attempt >= MaxAttempts THEN {"FAILED"} ELSE Open : Shown(job.step - 1, s)
    BY <1>1 DEF Replied, ListInv, JobShows, Replies
  <2>2. CASE Shown(job.step, "PENDING")
    <3>1. client.step - 1 \in Nat /\ (client.step - 1) + 1 = client.step
      BY <1>3, StepPlace
    <3>2. Shown(client.step - 1, "COMPLETED")
      BY <1>3, <2>2, <3>1, OneMore
    <3> QED
      BY <3>2 DEF Open
  <2>3. ~ (job.attempt >= MaxAttempts)
    BY <1>1, <1>3, MaxAttemptsAssumption
  <2> QED
    BY <1>3, <2>1, <2>2, <2>3
<1>5. client.attempt + 1 # 1
  BY <1>3
<1>6. Begun(client.step, client.attempt + 1)
  BY <1>4, <1>5 DEF Begun
<1> QED
  BY <1>1, <1>2, <1>3, <1>6, RequestShows

\* The outcome, against what is shown.
LEMMA DoneShows ==
    ASSUME ListInv, UNCHANGED <<list, mode, agent>>, job' = Idle,
           client'.phase = "done", client'.step = client.step, NEW k, k = outcome'.step,
           outcome'.kind = "passed" => Shown(Len(Items), "PENDING"),
           outcome'.reason = "contract" => k \in DOMAIN Steps /\ Shown(k - 1, "FAILED")
    PROVE  ListInv'
<1>1. /\ ListTypes' /\ Steps' = Steps /\ Items' = Items
      /\ \A n, s : Shown(n, s)' = Shown(n, s)
  BY ListBesideClient
<1>2. job'.phase = "idle"
  BY DEF Idle
<1>3. JobShows'
  BY <1>2 DEF JobShows
<1>4. ClientShows'
  BY <1>1 DEF ClientShows, ListInv
<1>5. OutcomeShows'
  <2>1. outcome'.kind = "passed" => Shown(Len(Items), "PENDING")'
    <3>1. PICK m : m = Len(Items)
      OBVIOUS
    <3>2. Shown(m, "PENDING")' = Shown(m, "PENDING")
      BY <1>1
    <3> QED
      BY <1>1, <3>1, <3>2
  <2>2. outcome'.reason = "contract" => Shown(outcome.step - 1, "FAILED")'
    <3>1. Shown(k - 1, "FAILED")' = Shown(k - 1, "FAILED")
      BY <1>1
    <3> QED
      BY <3>1
  <2> QED
    BY <1>1, <1>2, <2>1, <2>2 DEF OutcomeShows
<1> QED
  BY <1>1, <1>3, <1>4, <1>5 DEF ListInv

\* A stage passes with every item completed.
LEMMA ResultShows == ASSUME ListInv, ClientFresh, StageResult PROVE ListInv'
<1>1. /\ Replied("result") /\ (Stepwise => client.step = Len(Steps)) /\ job' = Idle
      /\ client' = [client EXCEPT !.phase = "done", !.merged = job.work]
      /\ UNCHANGED <<list, mode, agent>>
  BY DEF StageResult
<1>2. client'.phase = "done" /\ client'.step = client.step
  BY <1>1 DEF ClientFresh, IsRequest
<1>3. outcome'.reason # "contract"
  BY DEF StageResult, Decide
<1>4. Shown(Len(Items), "PENDING")
  <2>1. Shown(IF Stepwise THEN job.step ELSE Len(Items), "PENDING")
    BY <1>1 DEF Replied, ListInv, JobShows, Replies
  <2>2. CASE Stepwise
    <3>1. agent # "processing" /\ agent \in Agents
      BY <2>2 DEF Stepwise, ListInv, ListTypes
    <3>2. Len(Items) = Len(Steps)
      BY <3>1, ItemFacts
    <3>3. job.step = client.step
      BY <1>1, <2>2 DEF Replied, ListInv, ClientShows
    <3> QED
      BY <1>1, <2>1, <2>2, <3>2, <3>3
  <2> QED
    BY <2>1, <2>2
<1> QED
  BY <1>1, <1>2, <1>3, <1>4, DoneShows

\* A stage that ran out of attempts shows the step that failed.
LEMMA ErrorShows == ASSUME ListInv, ClientFresh, JobFresh, StageError PROVE ListInv'
<1>1. /\ client' = [client EXCEPT !.phase = "done"] /\ job' = Idle
      /\ UNCHANGED <<list, mode, agent>>
      /\ job.phase = "reply" /\ client.phase = "waiting"
  BY DEF StageError, Replied
<1>2. client'.phase = "done" /\ client'.step = client.step
  BY <1>1 DEF ClientFresh, IsRequest
<1>3. outcome'.kind # "passed"
  BY DEF StageError, Decide
<1>4. /\ Replies(job.output) /\ job.step \in DOMAIN Steps
      /\ Stepwise => job.step = client.step /\ job.attempt = client.attempt
  BY <1>1 DEF ListInv, JobShows, ClientShows
<1>5. PICK k : k = outcome'.step
  OBVIOUS
<1>6. outcome'.reason = "contract" => k \in DOMAIN Steps /\ Shown(k - 1, "FAILED")
  <2>1. CASE Replied("error") /\ Decide("error", job.output.code, job.output.reason, job.step)
    <3>1. outcome'.reason = job.output.reason /\ outcome'.step = job.step
      BY <2>1 DEF Decide
    <3> QED
      BY <1>4, <1>5, <2>1, <3>1 DEF Replied, Replies
  <2>2. CASE /\ Replied("retry") /\ Stepwise /\ client.attempt >= MaxAttempts
             /\ Decide("error", job.output.code, job.output.reason, client.step)
    <3>1. outcome'.reason = job.output.reason /\ outcome'.step = client.step
      BY <2>2 DEF Decide
    <3> QED
      BY <1>4, <1>5, <2>2, <3>1 DEF Replied, Replies
  <2>3. CASE Replied("retry") /\ ~ Stepwise /\ Decide("error", "INSUFFICIENT_DATA", "probe", client.step)
    BY <2>3 DEF Decide
  <2> QED
    BY <2>1, <2>2, <2>3 DEF StageError
<1> QED
  BY <1>1, <1>2, <1>3, <1>5, <1>6, DoneShows

\* A failed invocation says nothing about the steps.
LEMMA FailShows ==
    ASSUME ListInv, ClientFresh, NEW f \in {"conflict", "refused", "cut", "garbled"}, InvokeFails(f)
    PROVE  ListInv'
<1>1. UNCHANGED <<list, mode, agent>> /\ client.phase \in {"sending", "waiting"}
  BY DEF InvokeFails
<1>2. /\ ListTypes' /\ Steps' = Steps /\ Items' = Items /\ Stepwise' = Stepwise
      /\ \A n, s : Shown(n, s)' = Shown(n, s)
      /\ \A k, a : Begun(k, a)' = Begun(k, a)
  BY <1>1, ListBesideClient
<1>3. \/ /\ client' = [client EXCEPT !.phase = "sending", !.tries = @ + 1]
         /\ client.phase = "sending" /\ job' = job /\ outcome' = outcome
      \/ /\ client' = [client EXCEPT !.phase = "done"]
         /\ Decide("error", "AGENT_RUNTIME_UNAVAILABLE", "invocation", client.step)
         /\ job' \in {Idle, job}
  <2>1. CASE f = "conflict"
    BY <2>1 DEF InvokeFails, Retryable
  <2>2. CASE f # "conflict"
    BY <2>2 DEF InvokeFails, Retryable
  <2> QED
    BY <2>1, <2>2
<1>4. client.step \in DOMAIN Steps /\ outcome = Undecided
  BY <1>1 DEF ListInv, ClientShows
<1>5. ASSUME job' = job
      PROVE  JobShows'
  BY <1>1, <1>5, JobShownStill
<1>6. CASE /\ client' = [client EXCEPT !.phase = "sending", !.tries = @ + 1]
           /\ client.phase = "sending" /\ job' = job /\ outcome' = outcome
  <2>1. /\ client'.phase = "sending" /\ client'.step = client.step
        /\ client'.attempt = client.attempt
    BY <1>6 DEF ClientFresh, IsRequest
  <2>2. job.phase = "idle" /\ Begun(client.step, client.attempt)
    BY <1>6 DEF ListInv, ClientShows
  <2>3. Begun(client.step, client.attempt)'
    BY <1>2, <2>1, <2>2 DEF Begun
  <2>4. ClientShows'
    BY <1>2, <1>4, <1>6, <2>1, <2>2, <2>3 DEF ClientShows
  <2>5. OutcomeShows'
    BY <1>4, <1>6 DEF OutcomeShows, Undecided
  <2> QED
    BY <1>2, <1>5, <1>6, <2>4, <2>5 DEF ListInv
<1>7. CASE /\ client' = [client EXCEPT !.phase = "done"]
           /\ Decide("error", "AGENT_RUNTIME_UNAVAILABLE", "invocation", client.step)
           /\ job' \in {Idle, job}
  <2>1. client'.phase = "done" /\ client'.step = client.step
    BY <1>7 DEF ClientFresh, IsRequest
  <2>2. ClientShows'
    BY <1>2, <1>4, <2>1 DEF ClientShows
  <2>3. OutcomeShows'
    BY <1>7 DEF OutcomeShows, Decide
  <2>4. JobShows'
    <3>1. CASE job' = Idle
      BY <3>1 DEF JobShows, Idle
    <3> QED
      BY <1>5, <1>7, <3>1
  <2> QED
    BY <1>2, <2>2, <2>3, <2>4 DEF ListInv
<1> QED
  BY <1>3, <1>6, <1>7

\* The invariant survives every step.
LEMMA ListStep == ListInv /\ ClientFresh /\ JobFresh /\ [Next]_vars => ListInv'
<1> SUFFICES ASSUME ListInv, ClientFresh, JobFresh, [Next]_vars
             PROVE  ListInv'
  OBVIOUS
<1>1. CASE ClientStep
  <2>1. IsRequest(client)
    BY DEF ClientFresh
  <2> QED
    BY <1>1, <2>1, DeliverShows, NextRequestShows, RetryRequestShows, ResultShows, ErrorShows
    DEF ClientStep
<1>2. CASE Prompted
  BY <1>2, NextPromptShows, LastPromptShows, RefuseShows DEF Prompted
<1>3. CASE StartJob \/ SchemaUnavailable \/ ReplyLost
  BY <1>3, StartShows, SchemaShows, LostShows
<1>4. ASSUME NEW b \in BOOLEAN, ProbeSelection(b) \/ Retrieve(b) \/ Process(b) \/ StoreArtifact(b)
      PROVE  ListInv'
  BY <1>4, ProbeShows, RetrieveShows, ProcessShows, StoreShows
<1>5. ASSUME NEW f \in {"conflict", "refused", "cut", "garbled"}, InvokeFails(f) PROVE ListInv'
  BY <1>5, FailShows
<1>6. CASE UNCHANGED vars
  <2>1. UNCHANGED <<client, job, list, outcome, mode, agent>>
    BY <1>6 DEF vars
  <2>2. /\ ListTypes' /\ Steps' = Steps /\ Items' = Items /\ Stepwise' = Stepwise
    BY <2>1, ListBesideClient
  <2>3. JobShows'
    BY <2>1, JobShownStill
  <2>4. Begun(client.step, client.attempt)' = Begun(client.step, client.attempt)
    BY <2>1, <2>2 DEF Begun, Shown
  <2>5. ClientShows'
    BY <2>1, <2>2, <2>4 DEF ListInv, ClientShows
  <2>6. /\ Shown(Len(Items), "PENDING")' = Shown(Len(Items), "PENDING")
        /\ Shown(outcome.step - 1, "FAILED")' = Shown(outcome.step - 1, "FAILED")
    BY <2>1, <2>2 DEF Shown
  <2>7. OutcomeShows'
    BY <2>1, <2>2, <2>6 DEF ListInv, OutcomeShows
  <2> QED
    BY <2>2, <2>3, <2>5, <2>7 DEF ListInv
<1> QED
  BY <1>1, <1>2, <1>3, <1>4, <1>5, <1>6 DEF Next, Work, JobStep

\* What the invariant says of the screen and the outcome.
LEMMA ListTells == ListInv => ChecklistTellsOutcome
<1> SUFFICES ASSUME ListInv
             PROVE  ChecklistTellsOutcome
  OBVIOUS
<1>1. agent \in Agents /\ ListTypes
  BY DEF ListInv, ListTypes
<1>2. DOMAIN Items \subseteq Nat \ {0} /\ DOMAIN Items = 1 .. Len(Items)
  BY <1>1, ItemPlaces, ItemFacts
<1>3. ASSUME NEW i \in DOMAIN Items, NEW j \in DOMAIN Items, i < j, list[Items[j]] # "PENDING"
      PROVE  list[Items[i]] = "COMPLETED"
  <2>1. PICK n \in Nat, s \in Mark : Shown(n, s)
    BY <1>1 DEF ListTypes
  <2>2. j <= n + 1
    BY <1>2, <1>3, <2>1 DEF Shown
  <2>3. i <= n
    BY <1>2, <1>3, <2>2
  <2> QED
    BY <2>1, <2>3 DEF Shown
<1>4. ASSUME outcome.kind = "passed", NEW i \in DOMAIN Items
      PROVE  list[Items[i]] = "COMPLETED"
  <2>1. Shown(Len(Items), "PENDING") /\ i <= Len(Items)
    BY <1>2, <1>4 DEF ListInv, OutcomeShows
  <2> QED
    BY <1>2, <2>1 DEF Shown
<1>5. ASSUME outcome.reason = "contract"
      PROVE  list[Steps[outcome.step]] = "FAILED"
  <2>1. outcome.step \in DOMAIN Steps /\ Shown(outcome.step - 1, "FAILED")
    BY <1>5 DEF ListInv, OutcomeShows
  <2>2. PICK k \in DOMAIN Steps : k = outcome.step
    BY <2>1
  <2>3. /\ k \in DOMAIN Items /\ Items[k] = Steps[k] /\ ~ (k <= k - 1) /\ k = (k - 1) + 1
    BY <1>1, StepPlace
  <2> QED
    BY <2>1, <2>2, <2>3 DEF Shown
<1>6. ASSUME NEW i \in DOMAIN Items, list[Items[i]] = "FAILED"
      PROVE  client.phase # "sending"
  <2> SUFFICES ASSUME client.phase = "sending"
               PROVE  FALSE
    OBVIOUS
  <2>1. PICK s \in IF client.attempt = 1 THEN {"PENDING"} ELSE Open : Shown(client.step - 1, s)
    BY DEF ListInv, ClientShows, Begun
  <2>2. s # "FAILED"
    BY <2>1 DEF Open
  <2> QED
    BY <1>6, <2>1, <2>2 DEF Shown
<1> QED
  BY <1>3, <1>4, <1>5, <1>6 DEF ChecklistTellsOutcome, Items

\* The checklist on the screen and the outcome agree although they travel apart:
\* steps complete in order, a passed stage has every item completed, a stage
\* that ran out of attempts shows the step that failed, and no step is shown as
\* failed while its retry is still to come (the on_step reports of the agents
\* against the retries of agent_client.py).
THEOREM ScreenMatchesOutcome == Spec => []ChecklistTellsOutcome
<1> DEFINE Inv == ListInv /\ ClientFresh /\ JobFresh
<1>1. Init => Inv
  BY ListInitially, FreshInitially
<1>2. Inv /\ [Next]_vars => Inv'
  BY ListStep, FreshStep
<1>3. Inv => ChecklistTellsOutcome
  BY ListTells
<1> QED
  BY <1>1, <1>2, <1>3, PTL DEF Spec
=============================================================================
