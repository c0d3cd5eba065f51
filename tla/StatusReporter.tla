--------------------------- MODULE StatusReporter ---------------------------
(***************************************************************************)
(* One invocation of the AgentCore Runtime: the agent's thread reports its *)
(* progress, the reporter (agentcore_status_reporter.py) queues the        *)
(* reports and one consumer writes them to the database, and the handler   *)
(* (agentcore_runtime.py, invoke) drains the queue before it answers.  The *)
(* API process waits for the answer and writes the outcome; a browser      *)
(* follows the events (EventStream).                                       *)
(***************************************************************************)
EXTENDS EventStream

CONSTANTS
    Reports,   \* bound: reports of the agent; odd ones are steps, even ones logs
    QueueSize, \* _STATUS_QUEUE_MAXSIZE
    MaxFaults, \* bound: writes that fail or time out, invocations cut off
    Faults     \* which of them may happen in this instance

FaultKind == {"write",   \* a write of the consumer raises
              "agent",   \* the agent raises
              "slow",    \* the time limits of the drain pass
              "cut"}     \* the API gives the invocation up

ASSUME ReporterBounds ==
    Reports \in Nat /\ QueueSize \in Nat \ {0} /\ MaxFaults \in Nat
ASSUME KnownFaults == Faults \subseteq FaultKind
ASSUME Sessions == Writers = {"api", "consumer", "handler"} /\ Publishers = {"api"}

VARIABLES
    thread,   \* reports the agent's thread has made
    calls,    \* put_nowait calls scheduled on the event loop
    queue,    \* the asyncio queue
    consumer, \* the consumer task: the report it is at, Stop when it has ended
    handler,  \* the request handler of the invocation
    dropped,  \* reports lost because the queue was full
    api,      \* the task of the API process
    faults

reporterVars == <<thread, calls, queue, consumer, handler, dropped, api, faults>>
vars == <<streamVars, reporterVars>>

Stop == Reports + 1
ReportKind(r) == IF r % 2 = 1 THEN "status" ELSE "log"

\* The rows, queues and tasks keep their types and the queue its limit.
TypeOK ==
    /\ events \in Seq(Event) /\ Len(events) <= MaxEvents
    /\ writer \in [Writers -> 0 .. MaxEvents]
    /\ stream \in Stream /\ client \in Client /\ applied \in 0 .. MaxEvents
    /\ thread \in 0 .. Reports
    /\ calls \in Seq(1 .. Reports) /\ queue \in Seq(1 .. Stop)
    /\ Len(queue) <= QueueSize
    /\ consumer \in 0 .. Stop
    /\ handler \in {"running", "failing", "joining", "stopping", "waiting", "returned"}
    /\ dropped \subseteq 1 .. Reports
    /\ api \in {"waiting", "ending", "done"}

Init ==
    /\ StreamInit
    /\ thread = 0 /\ calls = <<>> /\ queue = <<>> /\ consumer = 0
    /\ handler = "running" /\ dropped = {} /\ api = "waiting" /\ faults = 0

Fault(kind) == kind \in Faults /\ faults < MaxFaults /\ faults' = faults + 1

-----------------------------------------------------------------------------
(* The agent's thread and the queue *)

Report ==
    /\ handler = "running"
    /\ thread < Reports
    /\ thread' = thread + 1
    /\ calls' = Append(calls, thread + 1)
    /\ UNCHANGED <<streamVars, queue, consumer, handler, dropped, api, faults>>

\* Faulty: the queue has no limit.
EnqueueUnbounded ==
    /\ calls # <<>>
    /\ calls' = Tail(calls)
    /\ queue' = Append(queue, Head(calls))
    /\ UNCHANGED <<streamVars, thread, consumer, handler, dropped, api, faults>>

\* put_nowait runs as a callback of the loop: QueueFull is raised there, not
\* in the caller's try, so the report is gone and _dropped is not counted up.
Enqueue ==
    /\ calls # <<>>
    /\ calls' = Tail(calls)
    /\ IF Len(queue) < QueueSize
       THEN queue' = Append(queue, Head(calls)) /\ UNCHANGED dropped
       ELSE dropped' = dropped \cup {Head(calls)} /\ UNCHANGED queue
    /\ UNCHANGED <<streamVars, thread, consumer, handler, api, faults>>

\* Faulty: the youngest report is taken first.
TakeYoungest ==
    /\ consumer = 0
    /\ queue # <<>>
    /\ consumer' = queue[Len(queue)]
    /\ queue' = SubSeq(queue, 1, Len(queue) - 1)
    /\ UNCHANGED <<streamVars, thread, calls, handler, dropped, api, faults>>

Take ==
    /\ consumer = 0
    /\ queue # <<>>
    /\ consumer' = Head(queue)
    /\ queue' = Tail(queue)
    /\ UNCHANGED <<streamVars, thread, calls, handler, dropped, api, faults>>

Writing == consumer \in 1 .. Reports

WriteBegins ==
    /\ Writing
    /\ Insert("consumer", ReportKind(consumer), consumer)
    /\ UNCHANGED reporterVars

WriteEnds ==
    /\ Writing
    /\ Commit("consumer")
    /\ consumer' = 0
    /\ UNCHANGED <<thread, calls, queue, handler, dropped, api, faults>>

\* The exception is logged and the consumer goes on with the next report.
WriteFails ==
    /\ Writing
    /\ Fault("write")
    /\ \/ Abort("consumer")
       \/ writer["consumer"] = 0 /\ UNCHANGED streamVars
    /\ consumer' = 0
    /\ UNCHANGED <<thread, calls, queue, handler, dropped, api>>

-----------------------------------------------------------------------------
(* The handler of the invocation *)

\* The thread's result reaches the loop after the callbacks it scheduled.
AgentEnds ==
    /\ handler = "running"
    /\ calls = <<>>
    /\ \/ handler' = "joining" /\ UNCHANGED faults
       \/ handler' = "failing" /\ Fault("agent")
    /\ UNCHANGED <<streamVars, thread, calls, queue, consumer, dropped, api>>

\* The failure is recorded by the handler itself, not through the queue.
FailureBegins ==
    /\ handler = "failing"
    /\ Insert("handler", "log", 0)
    /\ UNCHANGED reporterVars

FailureEnds ==
    /\ handler = "failing"
    /\ Commit("handler")
    /\ handler' = "joining"
    /\ UNCHANGED <<thread, calls, queue, consumer, dropped, api, faults>>

\* An exception of that write is swallowed: the failure itself is answered.
FailureLost ==
    /\ handler = "failing"
    /\ "write" \in Faults
    /\ \/ Abort("handler")
       \/ writer["handler"] = 0 /\ UNCHANGED streamVars
    /\ handler' = "joining"
    /\ UNCHANGED <<thread, calls, queue, consumer, dropped, api, faults>>

\* Faulty: the drain does not wait for the report that is being written.
DrainedQueue == queue = <<>>

\* queue.join(): every report was taken and task_done was called for it.
Drained == queue = <<>> /\ consumer = 0

Join ==
    /\ handler = "joining"
    /\ \/ Drained /\ UNCHANGED faults
       \/ ~Drained /\ Fault("slow")
    /\ handler' = "stopping"
    /\ UNCHANGED <<streamVars, thread, calls, queue, consumer, dropped, api>>

\* await queue.put(None) waits, without a limit, for room in the queue.
PutStop ==
    /\ handler = "stopping"
    /\ Len(queue) < QueueSize
    /\ queue' = Append(queue, Stop)
    /\ handler' = "waiting"
    /\ UNCHANGED <<streamVars, thread, calls, consumer, dropped, api, faults>>

ConsumerEnded ==
    /\ handler = "waiting"
    /\ consumer = Stop
    /\ handler' = "returned"
    /\ UNCHANGED <<streamVars, thread, calls, queue, consumer, dropped, api, faults>>

\* Faulty: the handler answers and leaves the consumer alone.
ConsumerLeft ==
    /\ handler = "waiting"
    /\ consumer # Stop
    /\ "slow" \in Faults
    /\ handler' = "returned"
    /\ UNCHANGED <<streamVars, thread, calls, queue, consumer, dropped, api, faults>>

\* wait_for cancels the consumer and waits until it has ended.  A write that
\* is under way is rolled back or was just committed.
ConsumerCancelled ==
    /\ handler = "waiting"
    /\ consumer # Stop
    /\ "slow" \in Faults
    /\ \/ Abort("consumer")
       \/ Commit("consumer")
       \/ writer["consumer"] = 0 /\ UNCHANGED streamVars
    /\ consumer' = Stop
    /\ handler' = "returned"
    /\ UNCHANGED <<thread, calls, queue, dropped, api, faults>>

-----------------------------------------------------------------------------
(* The API process *)

\* The answer arrives, or the API gives up waiting for it.
Answered ==
    /\ api = "waiting"
    /\ \/ handler = "returned" /\ UNCHANGED faults
       \/ handler # "returned" /\ Fault("cut")
    /\ api' = "ending"
    /\ UNCHANGED <<streamVars, thread, calls, queue, consumer, handler, dropped>>

OutcomeBegins ==
    /\ api = "ending"
    /\ Insert("api", "status", 0)
    /\ UNCHANGED reporterVars

OutcomeCommits ==
    /\ api = "ending"
    /\ Commit("api")
    /\ UNCHANGED reporterVars

OutcomeEnds ==
    /\ api = "ending"
    /\ Publish("api")
    /\ api' = "done"
    /\ UNCHANGED <<thread, calls, queue, consumer, handler, dropped, faults>>

-----------------------------------------------------------------------------
Runtime ==
    \/ Report \/ Enqueue \/ Take \/ WriteBegins \/ WriteEnds
    \/ AgentEnds \/ FailureBegins \/ FailureEnds
    \/ Join \/ PutStop \/ ConsumerEnded

Api == Answered \/ OutcomeBegins \/ OutcomeCommits \/ OutcomeEnds

Watch == StreamStep /\ UNCHANGED reporterVars

Next == Runtime \/ WriteFails \/ FailureLost \/ ConsumerCancelled \/ Api \/ Watch

Spec == Init /\ [][Next]_vars

\* Tasks, callbacks and the database make progress, and so does a browser
\* that is connected; none has to fail or to disconnect.
Progress ==
    /\ WF_vars(Enqueue) /\ WF_vars(Take) /\ WF_vars(WriteBegins) /\ WF_vars(WriteEnds)
    /\ WF_vars(AgentEnds) /\ WF_vars(FailureBegins) /\ WF_vars(FailureEnds)
    /\ WF_vars(Join) /\ WF_vars(PutStop) /\ WF_vars(ConsumerEnded) /\ WF_vars(Api)
    /\ WF_vars((Subscribe \/ ReadBoundary \/ ReadHistory \/ ReadSnapshot \/ Begin
                \/ Poll \/ Send) /\ UNCHANGED reporterVars)

FairSpec == Spec /\ Progress

-----------------------------------------------------------------------------
(* Properties *)

Written == {i \in Committed : events[i].report # 0}

\* The reports appear in the event stream in the order the agent made them,
\* whatever was lost in between (_consume: RUNNING before COMPLETED).
ReportsInOrder ==
    \A i, j \in Written : i < j => events[i].report < events[j].report

\* Once the invocation is answered nothing of it is written any more: the API
\* may close the stage without being overwritten (drain, finally of invoke).
SilentAfterAnswer ==
    [][handler = "returned" => {i \in Written' : i \notin Written} = {}]_vars

\* An invocation that met no fault and no full queue answers only after all
\* its reports are visible (drain).
DrainFlushes ==
    handler = "returned" /\ faults = 0 /\ dropped = {}
      => \A r \in 1 .. thread : \E i \in Written : events[i].report = r

\* A browser that stays on the page never gets a status event twice, nor a
\* numbered frame, over reconnections and over both paths (cursor and event id in
\* the loop, router.py:590).  A log comes again only if it was replayed without a
\* number and the cursor did not cover it: it was committed after the boundary
\* was read, or the connection broke before the browser had any number.
NoRepeat ==
    \A i \in Ids :
       /\ client.frames[i] <= 1
       /\ client.frames[i] + client.replays[i] > 1 =>
             events[i].kind = "log" /\ i \in client.loose

\* Does not hold: the replay of a new client is not cut at the boundary
\* (README).
EveryFrameOnce ==
    \A i \in Ids : client.frames[i] + client.replays[i] <= 1

\* When all is written and no event was committed after a younger one, the
\* screen ends up showing the status of the run.
ScreenCatchesUp ==
    <>[]((\A i \in Committed : ~events[i].late) => client.status = applied)

\* The screen ends up showing the status of the run, always: this does not hold
\* (README).
EventsAreNotSkipped == <>[](client.status = applied)
=============================================================================
