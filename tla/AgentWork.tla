----------------------------- MODULE AgentWork -----------------------------
(***************************************************************************)
(* One call AgentClient.run(agent, payload) of the supervisor, from the    *)
(* first request to the validated stage output: the client of              *)
(* app/domains/pipeline/agent_client.py, the AgentCore entry point         *)
(* app/agentcore_runtime.py, and the prompt steps of the three agents      *)
(* under agent_runtime/.                                                   *)
(*                                                                         *)
(* In mode "agentcore" the client sends requests over the network and a    *)
(* job runs in the Runtime; the network may refuse a request before it     *)
(* arrives or lose the connection while the job goes on. Data selection    *)
(* is then split into one request per prompt step and attempt. In mode     *)
(* "local" the one job is a call in the client's own process.              *)
(*                                                                         *)
(* The language model is the environment: an answer is any member of       *)
(* Answers[step], a set that holds sound and unsound ones.                 *)
(***************************************************************************)
EXTENDS SelectionPolicy, ProcessingPlans

CONSTANTS
    Answers,           \* prompt step -> the answers the model may give
    Requested,         \* payload["available_data"]
    MaxAttempts,       \* MAX_ATTEMPTS, TOTAL_ATTEMPTS and _SELECTION_MAX_ATTEMPTS
    ConflictTries,     \* _CONFLICT_RETRY_ATTEMPTS
    HasTokenKey        \* DATA_ANONYMIZATION_KEY is configured

ASSUME MaxAttemptsAssumption == MaxAttempts \in Nat \ {0}
ASSUME ConflictTriesAssumption == ConflictTries \in Nat \ {0}

\* The operations of a planning answer are a list.
ASSUME AnswersAssumption ==
    \A step \in DOMAIN Allows : \A answer \in Answers[step] :
       /\ Len(answer.operations) \in Nat
       /\ DOMAIN answer.operations = 1 .. Len(answer.operations)

VARIABLES
    mode,        \* "agentcore" or "local"
    agent,       \* the stage that is run
    approved,    \* data processing: the selection a reviewer approved
    client,      \* the caller: where it is in its steps, attempts and tries
    job,         \* the work on the last request that was delivered
    list,        \* the step checklist the screen shows
    executed,    \* every <<step, attempt>> that ever reached an agent
    retrieved,   \* the rows the database handed out
    outcome      \* what the supervisor gets

vars == <<mode, agent, approved, client, job, list, executed, retrieved, outcome>>

Prompts ==
    [requirements |-> <<"REQUEST_ANALYSIS", "REQUEST_STRUCTURING", "DATA_CATEGORIZATION">>,
     selection    |-> <<"SOURCE_COLUMN_SELECTION", "DERIVED_COLUMN_DESIGN",
                        "SYNTHETIC_SAMPLE_GENERATION">>,
     processing   |-> <<"DEDUPLICATION_PLAN", "MISSING_VALUE_PLAN",
                        "DERIVED_COLUMN_ORDER", "FINAL_COLUMN_VALIDATION">>]

\* The part of the checklist the agent itself reports, in its order.
Checklist ==
    [Prompts EXCEPT !.processing = @ \o <<"SOURCE_DATA_RETRIEVAL", "DETERMINISTIC_PROCESSING">>]

Agents == DOMAIN Prompts
Steps == Prompts[agent]
AllSteps == UNION {Range(Checklist[a]) : a \in Agents}

\* Only data selection through AgentCore is split into requests per step.
Stepwise == mode = "agentcore" /\ agent = "selection"

NoFeedback == <<>>
NoSelection == <<>>

---------------------------------------------------------------------------
(* What the contracts of the prompt steps say to an answer. work holds the *)
(* results of the earlier steps.                                           *)

Merge(source, derived) ==
    [tables |-> source.tables, columns |-> source.columns, filters |-> source.filters,
     interpretations |-> source.interpretations, derived |-> derived]

DerivedNames(s) == {column.name : column \in s.derived}

Schema == Metadata(Requested)

Accepts(step, answer, work) ==
    CASE step = "SOURCE_COLUMN_SELECTION"     -> SourceAccepted(answer, Schema)
      [] step = "DERIVED_COLUMN_DESIGN"       -> DerivedAccepted(answer, work[1])
      [] step = "SYNTHETIC_SAMPLE_GENERATION" -> SampleAccepted(answer)
      [] step \in Range(Prompts.requirements) -> answer.form = "ok"
      [] step = "FINAL_COLUMN_VALIDATION"     ->
           FinalAccepted(answer, FlattenSeq(work), Names(approved.columns), DerivedNames(approved))
      [] OTHER -> StepAccepted(step, answer, FlattenSeq(work),
                               Names(approved.columns), DerivedNames(approved))

ResultOf(step, answer, work) ==
    CASE step = "SOURCE_COLUMN_SELECTION" -> Prepared(answer, Schema)
      [] step = "DERIVED_COLUMN_DESIGN"   -> DerivedResult(answer, work[1])
      [] step = "FINAL_COLUMN_VALIDATION" -> Plan(answer, FlattenSeq(work))
      [] step \in DOMAIN Allows \ {"FINAL_COLUMN_VALIDATION"} ->
           StepOperations(step, answer, Names(approved.columns))
      [] OTHER -> answer

\* The selections that come out of the first stage.
Approvable ==
    UNION {LET source == Prepared(a, Schema)
           IN {Merge(source, DerivedResult(d, source)) :
                 d \in {d \in Answers["DERIVED_COLUMN_DESIGN"] : DerivedAccepted(d, source)}}
             : a \in {a \in Answers["SOURCE_COLUMN_SELECTION"] : SourceAccepted(a, Schema)}}

---------------------------------------------------------------------------
Pending == [s \in AllSteps |-> "PENDING"]

\* A request for one step, or for the whole stage (then step is 1).
Request(step, attempt, feedback, merged) ==
    [phase |-> "sending", step |-> step, attempt |-> attempt, tries |-> 1,
     feedback |-> feedback, merged |-> merged]

NoOutput == [kind |-> "none", code |-> "NONE", reason |-> "none"]

Idle == [phase |-> "idle", step |-> 1, attempt |-> 1, feedback |-> NoFeedback,
         work |-> <<>>, output |-> NoOutput]

Undecided == [kind |-> "undecided", code |-> "NONE", reason |-> "none", step |-> 1]

Init ==
    /\ mode \in {"agentcore", "local"}
    /\ agent \in Agents
    /\ approved \in IF agent = "processing" THEN Approvable ELSE {NoSelection}
    /\ client = Request(1, 1, NoFeedback, <<>>)
    /\ job = Idle
    /\ list = Pending
    /\ executed = <<>>
    /\ retrieved = {}
    /\ outcome = Undecided

Decide(kind, code, reason, step) ==
    outcome' = [kind |-> kind, code |-> code, reason |-> reason, step |-> step]

Result == [kind |-> "result", code |-> "NONE", reason |-> "none"]
Error(code, reason) == [kind |-> "error", code |-> code, reason |-> reason]
Retry(code, reason) == [kind |-> "retry", code |-> code, reason |-> reason]

---------------------------------------------------------------------------
(* Sending. A conflict or a throttle is answered before the request gets   *)
(* to an agent; only these are sent again.                                 *)

\* Faulty: a lost connection counts as never delivered.
RetryableLost == {"conflict", "cut"}

Retryable == {"conflict"}

Deliver ==
    /\ client.phase = "sending"
    /\ client' = [client EXCEPT !.phase = "waiting"]
    /\ job' = [Idle EXCEPT !.phase = "begin", !.step = client.step, !.attempt = client.attempt,
                           !.feedback = client.feedback, !.work = client.merged]
    /\ executed' = Append(executed, <<client.step, client.attempt>>)
    /\ UNCHANGED <<mode, agent, approved, list, retrieved, outcome>>

\* "conflict" and "refused" come before the delivery; "cut" is a connection
\* lost while the job runs (it goes on), "garbled" a reply that does not decode.
InvokeFails(failure) ==
    /\ mode = "agentcore"
    /\ CASE failure \in {"conflict", "refused"} -> client.phase = "sending"
         [] failure = "cut"                     -> client.phase = "waiting"
         [] failure = "garbled"                 -> client.phase = "waiting" /\ job.phase = "reply"
    /\ IF failure \in Retryable /\ client.tries < ConflictTries
       THEN /\ client' = [client EXCEPT !.phase = "sending", !.tries = @ + 1]
            /\ UNCHANGED outcome
       ELSE /\ client' = [client EXCEPT !.phase = "done"]
            /\ Decide("error", "AGENT_RUNTIME_UNAVAILABLE", "invocation", client.step)
    /\ job' = IF failure = "garbled" THEN Idle ELSE job
    /\ UNCHANGED <<mode, agent, approved, list, executed, retrieved>>

---------------------------------------------------------------------------
(* The job                                                                 *)

Ask(step, attempt, feedback, work) ==
    job' = [job EXCEPT !.phase = "ask", !.step = step, !.attempt = attempt,
                       !.feedback = feedback, !.work = work]

Finish(work, output) ==
    job' = [job EXCEPT !.phase = "reply", !.work = work, !.output = output]

\* Only the first attempt marks its step as running.
StartJob ==
    /\ job.phase = "begin"
    /\ Ask(job.step, job.attempt, job.feedback, job.work)
    /\ list' = IF job.attempt = 1 THEN [list EXCEPT ![Steps[job.step]] = "RUNNING"] ELSE list
    /\ UNCHANGED <<mode, agent, approved, client, executed, retrieved, outcome>>

\* Data selection first reads the schema: the query may fail, or show nothing.
SchemaUnavailable ==
    /\ job.phase = "begin" /\ agent = "selection"
    /\ Finish(job.work, Error("INSUFFICIENT_DATA", "schema"))
    /\ UNCHANGED <<mode, agent, approved, client, list, executed, retrieved, outcome>>

\* An accepted answer inside a stage that runs all of its prompts.
NextPrompt(answer) ==
    LET step == Steps[job.step]
    IN /\ job.phase = "ask" /\ ~ Stepwise /\ job.step < Len(Steps)
       /\ list' = [list EXCEPT ![step] = "COMPLETED", ![Steps[job.step + 1]] = "RUNNING"]
       /\ Accepts(step, answer, job.work)
       /\ Ask(job.step + 1, 1, NoFeedback, Append(job.work, ResultOf(step, answer, job.work)))
       /\ UNCHANGED <<mode, agent, approved, client, executed, retrieved, outcome>>

\* An accepted answer that ends the prompts of the job. A selection is probed
\* once its source columns are there; a processing plan is executed.
LastPrompt(answer) ==
    LET step == Steps[job.step]
        work == Append(job.work, ResultOf(step, answer, job.work))
        done == [list EXCEPT ![step] = "COMPLETED"]
    IN /\ job.phase = "ask" /\ (Stepwise \/ job.step = Len(Steps))
       /\ Accepts(step, answer, job.work)
       /\ CASE agent = "processing" ->
                 /\ job' = [job EXCEPT !.phase = "retrieve", !.work = work]
                 /\ list' = [done EXCEPT !["SOURCE_DATA_RETRIEVAL"] = "RUNNING"]
            [] agent = "selection" /\ (Stepwise => job.step = 1) ->
                 /\ job' = [job EXCEPT !.phase = "probe", !.work = work]
                 /\ list' = done
            [] OTHER -> Finish(work, Result) /\ list' = done
       /\ UNCHANGED <<mode, agent, approved, client, executed, retrieved, outcome>>

ContractCode ==
    [requirements |-> IF mode = "local" THEN "AGENT_RUNTIME_UNAVAILABLE" ELSE "REQUIRED_KEY_MISSING",
     selection |-> "SELECTION_RULE_INVALID", processing |-> "PROCESSING_RULE_INVALID"][agent]

\* Faulty: the attempts are counted from one, the limit from zero.
ExhaustedEarly == job.attempt >= MaxAttempts - 1

Exhausted == job.attempt >= MaxAttempts

\* A refused answer. Within a stage the job asks again itself and says why;
\* a job for one attempt leaves that to the client. The step has failed when
\* the last attempt has.
Refuse(answer) ==
    LET step == Steps[job.step]
    IN /\ job.phase = "ask"
       /\ list' = IF Exhausted THEN [list EXCEPT ![step] = "FAILED"] ELSE list
       /\ IF Stepwise
          THEN Finish(job.work, Retry(ContractCode, "contract"))
          ELSE IF job.attempt >= MaxAttempts
          THEN Finish(job.work, Error(ContractCode, "contract"))
          ELSE Ask(job.step, job.attempt + 1, <<job.step, job.attempt, "contract">>, job.work)
       /\ ~ Accepts(step, answer, job.work)
       /\ UNCHANGED <<mode, agent, approved, client, executed, retrieved, outcome>>

\* The probe counts the customers a selection reaches. A database error lets
\* the selection pass; a refusal is reported as a retry of the first step.
ProbeSelection(reachable) ==
    LET s == job.work[1]
        verdict == IF reachable THEN Probe(s) ELSE "skipped"
    IN /\ job.phase = "probe"
       /\ Finish(job.work,
                 CASE verdict = "no_data" -> Retry("INSUFFICIENT_DATA", "probe")
                   [] verdict = "too_few" -> Retry("PRIVACY_THRESHOLD_NOT_MET", "probe")
                   [] OTHER -> Result)
       /\ UNCHANGED <<mode, agent, approved, client, list, executed, retrieved, outcome>>

\* The approved selection is probed again and then read.
Retrieve(reachable) ==
    LET verdict == Probe(approved)
        fails == ~ reachable \/ verdict # "passed" \/ ~ Executable(approved)
    IN /\ job.phase = "retrieve"
       /\ IF fails
          THEN /\ Finish(job.work, Error(IF reachable /\ verdict = "too_few"
                                         THEN "PRIVACY_THRESHOLD_NOT_MET"
                                         ELSE "INSUFFICIENT_DATA", "query"))
               /\ list' = [list EXCEPT !["SOURCE_DATA_RETRIEVAL"] = "FAILED"]
               /\ UNCHANGED retrieved
          ELSE /\ job' = [job EXCEPT !.phase = "process"]
               /\ list' = [list EXCEPT !["SOURCE_DATA_RETRIEVAL"] = "COMPLETED",
                                       !["DETERMINISTIC_PROCESSING"] = "RUNNING"]
               /\ retrieved' = Retrieved(approved)
       /\ UNCHANGED <<mode, agent, approved, client, executed, outcome>>

\* Rows without a value a token is due for need no key: dataFault stands for
\* what the cells decide (a quality check, a division by zero, labels).
ProcessingFails(plan, dataFault) ==
    LET end == Execute(plan, Names(approved.columns))
    IN \/ retrieved = {} \/ dataFault \/ end.broken
       \/ end.rows /\ ~ HasTokenKey /\ plan.output \cap end.real \cap DirectIdentifiers # {}

Process(dataFault) ==
    LET fails == ProcessingFails(job.work[4], dataFault)
    IN /\ job.phase = "process"
       /\ list' = [list EXCEPT !["DETERMINISTIC_PROCESSING"] = IF fails THEN "FAILED" ELSE "COMPLETED"]
       /\ IF fails THEN Finish(job.work, Error("PROCESSING_RULE_INVALID", "execution"))
          ELSE IF mode = "agentcore" THEN job' = [job EXCEPT !.phase = "store"]
          ELSE Finish(job.work, Result)
       /\ UNCHANGED <<mode, agent, approved, client, executed, retrieved, outcome>>

\* The Runtime puts the file into S3 before it replies.
StoreArtifact(stored) ==
    /\ job.phase = "store"
    /\ Finish(job.work, IF stored THEN Result ELSE Error("PROCESSING_RULE_INVALID", "storage"))
    /\ UNCHANGED <<mode, agent, approved, client, list, executed, retrieved, outcome>>

\* The reply to a client that is gone is lost.
ReplyLost ==
    /\ job.phase = "reply" /\ client.phase = "done"
    /\ job' = Idle
    /\ UNCHANGED <<mode, agent, approved, client, list, executed, retrieved, outcome>>

---------------------------------------------------------------------------
(* The client reads the reply. The last line of each action hands the      *)
(* output to validate_stage_output, where there is one.                    *)

Replied(output) == job.phase = "reply" /\ client.phase = "waiting" /\ job.output.kind = output

\* Faulty: the feedback of the finished step is sent along.
NextRequestRemembering ==
    /\ Replied("result") /\ Stepwise /\ client.step < Len(Steps)
    /\ client' = Request(client.step + 1, 1, client.feedback, job.work)
    /\ job' = Idle
    /\ UNCHANGED <<mode, agent, approved, list, executed, retrieved, outcome>>

\* The next prompt step starts without feedback, at its first attempt.
NextRequest ==
    /\ Replied("result") /\ Stepwise /\ client.step < Len(Steps)
    /\ client' = Request(client.step + 1, 1, NoFeedback, job.work)
    /\ job' = Idle
    /\ UNCHANGED <<mode, agent, approved, list, executed, retrieved, outcome>>

\* The same step again, in a new request that says what was wrong.
RetryRequest ==
    /\ Replied("retry") /\ Stepwise /\ client.attempt < MaxAttempts
    /\ client' = Request(client.step, client.attempt + 1,
                         <<client.step, client.attempt, job.output.reason>>, client.merged)
    /\ job' = Idle
    /\ UNCHANGED <<mode, agent, approved, list, executed, retrieved, outcome>>

\* The stage's output: a requirement's categories must be an object.
StageResult ==
    /\ Replied("result") /\ (Stepwise => client.step = Len(Steps))
    /\ client' = [client EXCEPT !.phase = "done", !.merged = job.work]
    /\ job' = Idle
    /\ IF agent = "requirements" /\ ~ job.work[3].object
       THEN Decide("error", "REQUIRED_KEY_MISSING", "validation", client.step)
       ELSE Decide("passed", "NONE", "none", client.step)
    /\ UNCHANGED <<mode, agent, approved, list, executed, retrieved>>

\* Faulty: the retry after the last attempt is still waited for.
StageErrorUnlessRetry ==
    /\ \/ Replied("error") /\ Decide("error", job.output.code, job.output.reason, job.step)
       \/ /\ Replied("retry") /\ ~ Stepwise
          /\ Decide("error", "INSUFFICIENT_DATA", "probe", client.step)
    /\ client' = [client EXCEPT !.phase = "done"]
    /\ job' = Idle
    /\ UNCHANGED <<mode, agent, approved, list, executed, retrieved>>

\* An error, or the last retry. A whole stage that only says "retry" misses
\* every key of its output.
StageError ==
    /\ \/ Replied("error") /\ Decide("error", job.output.code, job.output.reason, job.step)
       \/ /\ Replied("retry") /\ Stepwise /\ client.attempt >= MaxAttempts
          /\ Decide("error", job.output.code, job.output.reason, client.step)
       \/ /\ Replied("retry") /\ ~ Stepwise
          /\ Decide("error", "INSUFFICIENT_DATA", "probe", client.step)
    /\ client' = [client EXCEPT !.phase = "done"]
    /\ job' = Idle
    /\ UNCHANGED <<mode, agent, approved, list, executed, retrieved>>

---------------------------------------------------------------------------
Prompted ==
    /\ job.phase = "ask"
    /\ \E answer \in Answers[Steps[job.step]] :
         NextPrompt(answer) \/ LastPrompt(answer) \/ Refuse(answer)

JobStep ==
    \/ StartJob \/ SchemaUnavailable
    \/ Prompted
    \/ \E b \in BOOLEAN : ProbeSelection(b) \/ Retrieve(b) \/ Process(b) \/ StoreArtifact(b)
    \/ ReplyLost

ClientStep == Deliver \/ NextRequest \/ RetryRequest \/ StageResult \/ StageError

\* The client and the job never wait for each other's turn: while the client has
\* something to do there is no job, except one it has given up.
Work == ClientStep \/ JobStep

Next ==
    \/ Work
    \/ \E f \in {"conflict", "refused", "cut", "garbled"} : InvokeFails(f)

Spec == Init /\ [][Next]_vars /\ WF_vars(Work)

---------------------------------------------------------------------------
(* Properties                                                              *)

\* An attempt at a step reaches an agent at most once: what the client sends
\* again after a conflict was never delivered, and a request whose connection
\* was lost is not sent again although nobody knows whether it was executed
\* (agent_client.py _is_retryable_conflict and _invoke_with_conflict_retry).
OncePerAttempt ==
    \A i, j \in DOMAIN executed : i # j => executed[i] # executed[j]

\* A prompt is told of exactly the attempt it repeats: nothing at a first
\* attempt, and else what was wrong with the last attempt of the same step. It
\* works on the accepted results of the steps before it and on none of its own
\* refused ones, whoever holds them: the job, or the client between two
\* requests (_run_prompt_step of the three agents, _run_selection_by_steps).
FeedbackIsFresh ==
    job.phase = "ask" =>
        /\ Len(job.work) = job.step - 1
        /\ IF job.attempt = 1 THEN job.feedback = NoFeedback
           ELSE \E reason \in {"contract", "probe"} :
                  /\ job.feedback = <<job.step, job.attempt - 1, reason>>
                  /\ reason = "probe" => job.step = 1 /\ Stepwise

\* The checklist on the screen and the outcome the run gets agree although they
\* travel apart: steps are reported in order, a passed stage has every step
\* completed, a stage that ran out of attempts shows the step that failed, and
\* no step is shown as failed while its retry is still to come (the on_step
\* reports of the agents against the retries of agent_client.py).
ChecklistTellsOutcome ==
    LET steps == Checklist[agent]
    IN /\ \A i, j \in DOMAIN steps :
            i < j /\ list[steps[j]] # "PENDING" => list[steps[i]] = "COMPLETED"
       /\ outcome.kind = "passed" => \A i \in DOMAIN steps : list[steps[i]] = "COMPLETED"
       /\ outcome.reason = "contract" => list[Steps[outcome.step]] = "FAILED"
       /\ (\E i \in DOMAIN steps : list[steps[i]] = "FAILED") => client.phase # "sending"

\* Whatever columns and filters a model writes and a reviewer approves, rows that
\* leave the database with two or more attributes of a person carry no row
\* identifier, and every combination of their dimensions is shared by K
\* customers (rules A and B, query/plan.py and query/executors.py).
PersonIsHidden ==
    agent = "processing" /\ Cardinality(Persons(approved.columns)) >= 2 =>
        /\ Identifiers(approved.columns) = {}
        /\ \A r \in retrieved :
             LET alike == {q \in retrieved : Agree(r, q, Dimensions(approved))}
             IN Cardinality({q["customer_id"] : q \in alike}) >= K

\* The columns of the delivered file hold what was read or computed: the lineage
\* the four planning steps were checked against agrees with what the executor
\* did. Targets that nothing writes are the exception (plan.py and processor.py).
OutputIsReal ==
    agent = "processing" /\ outcome.kind = "passed" =>
        LET plan == client.merged[4]
            end == Execute(plan, Names(approved.columns))
        IN /\ plan.output \subseteq end.real \cup Phantoms(plan)
           /\ plan.output \subseteq
                Names(approved.columns) \cup DerivedNames(approved) \cup Phantoms(plan)

\* Every run of an agent ends with an outcome, whatever the model answers: the
\* attempts and the tries are bounded, and a lost reply ends the wait.
Concludes == <>(outcome.kind # "undecided")
=============================================================================
