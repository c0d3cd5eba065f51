--------------------------- MODULE EmailDelivery ---------------------------
(***************************************************************************)
(* The e-mail deliveries of one pipeline run.  The API records a delivery  *)
(* (service.py), publishes it to a queue after the commit (router.py,      *)
(* email_queue.py), applies the results that the mail service sends back   *)
(* (email_result_worker.py) and closes deliveries that are stale or dead   *)
(* (email_retry_worker.py).  The mail service itself is external; it       *)
(* deduplicates by delivery id and tries again a message that it dropped.  *)
(*                                                                         *)
(* A transaction that other writers can overtake is two steps, one that    *)
(* reads and one that commits.  The constraints of the table are checked   *)
(* at the commit (Valid) and roll the transaction back.                    *)
(***************************************************************************)
EXTENDS Integers, Sequences

CONSTANTS
    Clients,    \* requests of the send endpoint in progress at the same time
    Keys,       \* Idempotency-Key values
    Contents,   \* what is sent: template, sample or artifact, credentials
    Recipients, \* normalised address and type of delivery
    MaxAttempts, \* bound: completed attempts of the stage that is mailed
    MaxRows,    \* bound: deliveries created
    MaxFaults,  \* bound: crashes, failed calls and dropped messages
    Backends,   \* what email_queue_enabled and email_queue_backend may say
    Env         \* what the surroundings do in this instance

Behaviour == {"crash",     \* the API process dies and restarts
              "outage",    \* a call of the queue or the database raises
              "drop",      \* the mail service gives a message up
              "complaint", \* recipients complain after the delivery
              "slow",      \* a delivery takes longer than the stale limit
              "operator",  \* an operator closes what is in the DLQ
              "purge"}     \* recipients are redacted after the retention

ASSUME Bounds == /\ MaxRows \in Nat \ {0} /\ MaxFaults \in Nat
                 /\ MaxAttempts \in Nat \ {0}
ASSUME KnownBackends == Backends \subseteq {"off", "redis", "sqs"}
ASSUME KnownEnv == Env \subseteq Behaviour

VARIABLES
    backend,   \* the settings, fixed while the process runs
    attempt,   \* the newest completed attempt: its result is what is mailed
    rows,      \* service.email_deliveries in the order of their creation
    client,    \* a request of the send endpoint
    requests,  \* messages on their way to the mail service
    job,       \* what the mail service has reported of a delivery
    results,   \* messages on their way back
    consumer,  \* the task that applies results
    monitor,   \* the task that closes stale deliveries: what it has read
    operator,  \* a request of the DLQ endpoint
    faults     \* how many faults have happened

vars == <<backend, attempt, rows, client, requests, job, results, consumer,
          monitor, operator, faults>>

Active == {"QUEUED", "SENDING"}
Terminal == {"SENT", "DELIVERED", "FAILED", "BOUNCED", "COMPLAINT"}
Status == Active \cup Terminal

Ids == 1 .. MaxRows
Redacted(i) == <<"REDACTED", i>>
Addressees == Recipients \cup {Redacted(i) : i \in Ids}
Attempts == 1 .. MaxAttempts
JobStatus == {"NONE", "DROPPED"} \cup (Status \ {"QUEUED"})

\* "[REDACTED:id]" keeps its upper case, and _normalize_recipient lower-cases
\* whatever it stores that has no @: the replacement is no address of a request.
ASSUME RedactedIsNoRecipient == \A i \in Ids : Redacted(i) \notin Recipients

\* What the fingerprint of a request tells apart: not the attempt.
Prints == Recipients \X Contents

Row == [key : Keys, print : Prints, attempt : Attempts,
        recipient : Addressees, status : Status, delivered : BOOLEAN]
Message == [id : Ids, to : Addressees]
Result == [id : Ids, status : Status \ {"QUEUED"}]

NoRequest == [pc |-> "IDLE"]
NoResult == [pc |-> "IDLE"]
NoBatch == {}

-----------------------------------------------------------------------------
(* The constraints of the table *)

\* The columns of the partial unique index, the run left out.
Target(row) == <<row.attempt, row.recipient>>

\* Faulty: the partial index covers deliveries that were not picked up yet.
ValidWhenQueued(rs) ==
    /\ \A i \in DOMAIN rs : (rs[i].status = "DELIVERED") = rs[i].delivered
    /\ \A i, j \in DOMAIN rs :
          i # j => /\ rs[i].key # rs[j].key
                   /\ {rs[i].status, rs[j].status} \subseteq {"QUEUED"}
                         => Target(rs[i]) # Target(rs[j])

\* delivered_at is there exactly when the status is DELIVERED, the key is
\* unique, and at most one delivery to a target is QUEUED or SENDING.
Valid(rs) ==
    /\ \A i \in DOMAIN rs : (rs[i].status = "DELIVERED") = rs[i].delivered
    /\ \A i, j \in DOMAIN rs :
          i # j => /\ rs[i].key # rs[j].key
                   /\ {rs[i].status, rs[j].status} \subseteq Active
                         => Target(rs[i]) # Target(rs[j])

WithStatus(ids, s) ==
    [i \in DOMAIN rows |-> IF i \in ids THEN [rows[i] EXCEPT !.status = s]
                           ELSE rows[i]]

Fault(kind) == kind \in Env /\ faults < MaxFaults /\ faults' = faults + 1

-----------------------------------------------------------------------------
(* The send endpoint *)

\* Faulty: the fingerprint of a known key is not compared.
KnownAny(k, p) == {i \in DOMAIN rows : rows[i].key = k}

\* The delivery a key was used for, if it was used for the same request: a
\* different request is refused with 409.  The attempt is not compared: the
\* same content of a newer attempt is the same request.
Known(k, p) == {i \in DOMAIN rows : rows[i].key = k /\ rows[i].print = p}

\* Deliveries of the current attempt's result that are under way to r.
Ongoing(r) ==
    {i \in DOMAIN rows : /\ Target(rows[i]) = <<attempt, r>>
                         /\ rows[i].status \in Active}

\* A request with key k for p, made in attempt n, that delivery i answers.
Answered(k, p, n, i) ==
    [pc |-> "PUBLISH", key |-> k, print |-> p, attempt |-> n, id |-> i,
     to |-> rows[i].recipient]

\* The key is looked up first, then a delivery that is under way to the same
\* target; either one answers the request.  Otherwise a row will be inserted.
RequestRead(c, k, p) ==
    /\ client[c] = NoRequest
    /\ \/ \E i \in Known(k, p) :
             client' = [client EXCEPT ![c] = Answered(k, p, attempt, i)]
       \/ /\ \A i \in DOMAIN rows : rows[i].key # k
          /\ \E i \in Ongoing(p[1]) :
                client' = [client EXCEPT ![c] = Answered(k, p, attempt, i)]
       \/ /\ \A i \in DOMAIN rows : rows[i].key # k
          /\ Ongoing(p[1]) = {}
          /\ Len(rows) < MaxRows
          /\ client' = [client EXCEPT ![c] =
                [pc |-> "INSERT", key |-> k, print |-> p, attempt |-> attempt]]
    /\ UNCHANGED <<backend, attempt, rows, requests, job, results, consumer,
                   monitor, operator, faults>>

\* Faulty: the status of another table's deliveries.
NewRowPending(c) ==
    [key |-> client[c].key, print |-> client[c].print,
     attempt |-> client[c].attempt, recipient |-> client[c].print[1],
     status |-> "PENDING", delivered |-> FALSE]

NewRow(c) ==
    [key |-> client[c].key, print |-> client[c].print,
     attempt |-> client[c].attempt, recipient |-> client[c].print[1],
     status |-> "QUEUED", delivered |-> FALSE]

\* A row that another request inserted in between violates a unique
\* constraint: the request ends with an error.
RequestInsert(c) ==
    /\ client[c].pc = "INSERT"
    /\ IF Len(rows) < MaxRows /\ Valid(Append(rows, NewRow(c)))
       THEN /\ rows' = Append(rows, NewRow(c))
            /\ client' = [client EXCEPT ![c] =
                  [pc |-> "PUBLISH", key |-> @.key, print |-> @.print,
                   attempt |-> @.attempt, id |-> Len(rows) + 1,
                   to |-> @.print[1]]]
       ELSE /\ client' = [client EXCEPT ![c] = NoRequest]
            /\ UNCHANGED rows
    /\ UNCHANGED <<backend, attempt, requests, job, results, consumer, monitor,
                   operator, faults>>

\* The message is published whoever created the row.  Without a queue the
\* delivery is marked FAILED at once, whatever its status.
Publish(c) ==
    /\ client[c].pc = "PUBLISH"
    /\ client' = [client EXCEPT ![c] = NoRequest]
    /\ IF backend = "off"
       THEN /\ rows' = IF Valid(WithStatus({client[c].id}, "FAILED"))
                       THEN WithStatus({client[c].id}, "FAILED") ELSE rows
            /\ UNCHANGED requests
       ELSE /\ requests' =
                  requests \cup {[id |-> client[c].id, to |-> client[c].to]}
            /\ UNCHANGED rows
    /\ UNCHANGED <<backend, attempt, job, results, consumer, monitor, operator,
                   faults>>

\* Reading the context of the mail or publishing raises: the row stays QUEUED.
PublishFails(c) ==
    /\ client[c].pc = "PUBLISH"
    /\ Fault("outage")
    /\ client' = [client EXCEPT ![c] = NoRequest]
    /\ UNCHANGED <<backend, attempt, rows, requests, job, results, consumer,
                   monitor, operator>>

-----------------------------------------------------------------------------
(* The mail service, external *)

Report(i, s) ==
    /\ job' = [job EXCEPT ![i] = s]
    /\ results' = Append(results, [id |-> i, status |-> s])

Accept(m) ==
    /\ m \in requests
    /\ requests' = requests \ {m}
    /\ IF job[m.id] \in {"NONE", "DROPPED"} THEN Report(m.id, "SENDING")
       ELSE UNCHANGED <<job, results>>
    /\ UNCHANGED <<backend, attempt, rows, client, consumer, monitor, operator,
                   faults>>

Progress(i) ==
    /\ \E s \in IF job[i] = "SENDING" THEN {"SENT", "FAILED"}
                ELSE IF job[i] = "SENT" THEN {"DELIVERED", "BOUNCED"}
                ELSE IF job[i] = "DELIVERED" /\ "complaint" \in Env
                THEN {"COMPLAINT"} ELSE {} : Report(i, s)
    /\ UNCHANGED <<backend, attempt, rows, client, requests, consumer, monitor,
                   operator, faults>>

\* A message is lost or, with SQS, ends in the dead letter queue.
Drop(i) ==
    /\ job[i] \in {"NONE", "SENDING"}
    /\ job[i] = "NONE" => \E m \in requests : m.id = i
    /\ Fault("drop")
    /\ job' = [job EXCEPT ![i] = "DROPPED"]
    /\ requests' = {m \in requests : m.id # i}
    /\ UNCHANGED <<backend, attempt, rows, client, results, consumer, monitor,
                   operator>>

-----------------------------------------------------------------------------
(* The result worker *)

WithoutAt(s, n) == SubSeq(s, 1, n - 1) \o SubSeq(s, n + 1, Len(s))

\* Faulty: the newest result is taken first.
ReceivableNewest == IF backend = "sqs" THEN DOMAIN results
                    ELSE IF results = <<>> THEN {} ELSE {Len(results)}

\* blpop takes the oldest result; a standard SQS queue keeps no order.
Receivable == IF backend = "sqs" THEN DOMAIN results
              ELSE IF results = <<>> THEN {} ELSE {1}

\* The result is received and the row it belongs to is read.  With Redis it
\* is gone from the queue, with SQS it stays there until it is deleted.
Receive(n) ==
    /\ backend # "off"
    /\ consumer.pc = "IDLE"
    /\ n \in Receivable
    /\ consumer' = [pc |-> "APPLY", result |-> results[n], at |-> n,
                    seen |-> rows[results[n].id].status]
    /\ results' = IF backend = "sqs" THEN results ELSE WithoutAt(results, n)
    /\ UNCHANGED <<backend, attempt, rows, client, requests, job, monitor,
                   operator, faults>>

\* The status is overwritten, delivered_at is set and never cleared.  The
\* attribute is written only when it differs from what was read.  A violated
\* constraint ends the loop of the worker, which nothing restarts.
Apply ==
    /\ consumer.pc = "APPLY"
    /\ LET i == consumer.result.id
           s == consumer.result.status
           after == [rows EXCEPT
                       ![i].status = IF s = consumer.seen THEN @ ELSE s,
                       ![i].delivered = @ \/ s = "DELIVERED"]
       IN IF Valid(after)
          THEN /\ rows' = after
               /\ consumer' = IF backend = "sqs"
                              THEN [consumer EXCEPT !.pc = "DELETE"] ELSE NoResult
          ELSE /\ consumer' = [pc |-> "DEAD"]
               /\ UNCHANGED rows
    /\ UNCHANGED <<backend, attempt, client, requests, job, results, monitor,
                   operator, faults>>

Delete ==
    /\ consumer.pc = "DELETE"
    /\ consumer' = NoResult
    /\ results' = WithoutAt(results, consumer.at)
    /\ UNCHANGED <<backend, attempt, rows, client, requests, job, monitor,
                   operator, faults>>

\* A call of the queue or the database raises outside of any try.
ConsumerFails ==
    /\ backend # "off"
    /\ consumer.pc # "DEAD"
    /\ Fault("outage")
    /\ consumer' = [pc |-> "DEAD"]
    /\ UNCHANGED <<backend, attempt, rows, client, requests, job, results,
                   monitor, operator>>

-----------------------------------------------------------------------------
(* Closing deliveries *)

\* Nothing will change the delivery any more: it was not published, it was
\* dropped, or its result was lost or will not be applied.
Forgotten(i) ==
    /\ rows[i].status \in Active
    /\ job[i] \notin {"SENDING"} \/ consumer.pc = "DEAD"
    /\ job[i] \in {"NONE", "DROPPED"} => \A m \in requests : m.id # i
    /\ job[i] \in {"NONE", "DROPPED"} =>
          \A c \in Clients : client[c].pc = "PUBLISH" => client[c].id # i
    /\ \/ consumer.pc = "DEAD"
       \/ /\ \A n \in DOMAIN results : results[n].id # i
          /\ consumer.pc = "APPLY" => consumer.result.id # i

\* Faulty: stale deliveries are closed with every backend.
ClosesAlways == backend # "off"

\* Faulty: the condition on the backend is inverted.
ClosesInverted == backend = "sqs"

\* With SQS the queue owns the retries: closing a delivery would race with
\* them.
ClosesStale == backend = "redis"

\* The monitor reads the deliveries whose last update is too old.
StaleRead ==
    /\ ClosesStale
    /\ monitor = NoBatch
    /\ LET forgotten == {i \in DOMAIN rows : Forgotten(i)}
           old == IF "slow" \in Env
                  THEN {i \in DOMAIN rows : rows[i].status \in Active}
                  ELSE forgotten
       IN \E batch \in SUBSET old :
             /\ batch # {} /\ forgotten \subseteq batch
             /\ monitor' = batch
    /\ UNCHANGED <<backend, attempt, rows, client, requests, job, results,
                   consumer, operator, faults>>

\* All of them are closed in one transaction; an error is logged.
StaleCommit ==
    /\ monitor # NoBatch
    /\ monitor' = NoBatch
    /\ rows' = IF Valid(WithStatus(monitor, "FAILED"))
               THEN WithStatus(monitor, "FAILED") ELSE rows
    /\ UNCHANGED <<backend, attempt, client, requests, job, results, consumer,
                   operator, faults>>

\* The operator closes a delivery found in the DLQ unless it is terminal.
DlqRead(i) ==
    /\ "operator" \in Env
    /\ operator = NoRequest
    /\ i \in DOMAIN rows
    /\ job[i] = "DROPPED"
    /\ rows[i].status \in Active
    /\ operator' = [pc |-> "CLOSE", id |-> i]
    /\ UNCHANGED <<backend, attempt, rows, client, requests, job, results,
                   consumer, monitor, faults>>

DlqCommit ==
    /\ operator.pc = "CLOSE"
    /\ operator' = NoRequest
    /\ rows' = IF Valid(WithStatus({operator.id}, "FAILED"))
               THEN WithStatus({operator.id}, "FAILED") ELSE rows
    /\ UNCHANGED <<backend, attempt, client, requests, job, results, consumer,
                   monitor, faults>>

\* The recipient of a terminal delivery is redacted, its fingerprint is not.
Purge(i) ==
    /\ "purge" \in Env /\ backend # "off"
    /\ i \in DOMAIN rows
    /\ rows[i].status \in Terminal
    /\ rows[i].recipient # Redacted(i)
    /\ rows' = [rows EXCEPT ![i].recipient = Redacted(i)]
    /\ UNCHANGED <<backend, attempt, client, requests, job, results, consumer,
                   monitor, operator, faults>>

-----------------------------------------------------------------------------

\* Everything in memory is lost; the tasks start again with the process.
Crash ==
    /\ Fault("crash")
    /\ client' = [c \in Clients |-> NoRequest]
    /\ consumer' = NoResult
    /\ monitor' = NoBatch
    /\ operator' = NoRequest
    /\ UNCHANGED <<backend, attempt, rows, requests, job, results>>

\* The run has gone back to the stage whose result is mailed and completed it
\* again: requests from now on speak of the newer attempt.
NewAttempt ==
    /\ attempt < MaxAttempts
    /\ attempt' = attempt + 1
    /\ UNCHANGED <<backend, rows, client, requests, job, results, consumer,
                   monitor, operator, faults>>

Init ==
    /\ backend \in Backends
    /\ attempt = 1
    /\ rows = <<>>
    /\ client = [c \in Clients |-> NoRequest]
    /\ requests = {}
    /\ job = [i \in Ids |-> "NONE"]
    /\ results = <<>>
    /\ consumer = NoResult
    /\ monitor = NoBatch
    /\ operator = NoRequest
    /\ faults = 0

Next ==
    \/ \E c \in Clients, k \in Keys, p \in Prints : RequestRead(c, k, p)
    \/ \E c \in Clients : RequestInsert(c) \/ Publish(c) \/ PublishFails(c)
    \/ \E m \in requests : Accept(m)
    \/ \E i \in Ids : Progress(i) \/ Drop(i)
    \/ \E n \in Receivable : Receive(n)
    \/ Apply \/ Delete \/ ConsumerFails
    \/ StaleRead \/ StaleCommit
    \/ \E i \in Ids : DlqRead(i) \/ Purge(i)
    \/ DlqCommit \/ Crash \/ NewAttempt

Spec == Init /\ [][Next]_vars

\* The tasks of the event loop run on, the monitor wakes up periodically, and
\* the mail service works on what it is given.
Fairness ==
    /\ \A c \in Clients : WF_vars(RequestInsert(c) \/ Publish(c))
    /\ \A i \in Ids : WF_vars(\E m \in requests : m.id = i /\ Accept(m))
    /\ \A i \in Ids : WF_vars(job[i] \in {"SENDING", "SENT"} /\ Progress(i))
    /\ WF_vars((\E n \in Receivable : Receive(n)) \/ Apply
               \/ Delete)
    /\ WF_vars(StaleRead)
    /\ WF_vars(StaleCommit)
    /\ WF_vars(DlqCommit)

FairSpec == Spec /\ Fairness

-----------------------------------------------------------------------------
(* What should hold *)

\* Every variable keeps its type, and the table satisfies its constraints.
TypeOK ==
    /\ backend \in Backends /\ attempt \in Attempts
    /\ rows \in Seq(Row) /\ Len(rows) <= MaxRows /\ Valid(rows)
    /\ \A c \in Clients :
          \/ client[c] = NoRequest
          \/ client[c] \in [pc : {"INSERT"}, key : Keys, print : Prints,
                            attempt : Attempts]
          \/ client[c] \in [pc : {"PUBLISH"}, key : Keys, print : Prints,
                            attempt : Attempts, id : DOMAIN rows,
                            to : Addressees]
    /\ requests \subseteq Message
    /\ job \in [Ids -> JobStatus]
    /\ results \in Seq(Result)
    /\ consumer.pc \in {"IDLE", "APPLY", "DELETE", "DEAD"}
    /\ monitor \subseteq DOMAIN rows
    /\ operator = NoRequest \/ operator \in [pc : {"CLOSE"}, id : DOMAIN rows]
    /\ faults \in 0 .. MaxFaults

\* The mail service works, or is about to, on the delivery.
InFlight(i) ==
    \/ job[i] = "SENDING"
    \/ job[i] \in {"NONE", "DROPPED"} /\ \E m \in requests : m.id = i

\* Two deliveries of one attempt's result to the same recipient are never on
\* their way at the same time: the lookup of ongoing deliveries and the partial
\* unique index are what keeps a second request from sending the same thing
\* again.
OneMailAtATime ==
    \A i, j \in DOMAIN rows :
       (/\ i # j
        /\ rows[i].attempt = rows[j].attempt
        /\ rows[i].print[1] = rows[j].print[1])
          => ~(InFlight(i) /\ InFlight(j))

Reached == {"SENT", "DELIVERED", "BOUNCED", "COMPLAINT"}

\* A delivery shown as FAILED was not sent: with SQS nothing but the mail
\* service's own result says so.
FailedMeansUnsent ==
    \A i \in DOMAIN rows : rows[i].status = "FAILED" => job[i] \notin Reached

\* The delivery is to the recipient of the request, and under the same key it
\* has the content asked for, under another one it is of the same attempt.
Fits(row, request) ==
    /\ row.print[1] = request.print[1]
    /\ IF row.key = request.key THEN row.print = request.print
       ELSE row.attempt = request.attempt

\* A request is answered with a delivery that was made for the same content
\* (service.py:640-644), or was under way with the same attempt's result
\* (646-656), and never with one to somebody else.  Under the key of an earlier
\* request the delivery may be of an older attempt with the same content.
AnswersTheRequest ==
    \A c \in Clients : client[c].pc = "PUBLISH" =>
       Fits(rows[client[c].id], client[c])

\* Does not hold: the fingerprint leaves the attempt out.
AnswersWithTheAttempt ==
    \A c \in Clients : client[c].pc = "PUBLISH" =>
       rows[client[c].id].attempt = client[c].attempt

\* What is known to be sent never shows as QUEUED or SENDING again: with Redis
\* the results arrive in the order in which they were reported.
SentIsFinal ==
    [][\A i \in DOMAIN rows :
          rows[i].status \in Reached => rows'[i].status \notin Active]_vars

\* No delivery stays QUEUED or SENDING forever (email_retry_worker.py:3-5).
Concluded ==
    \A i \in Ids :
       (i \in DOMAIN rows /\ rows[i].status \in Active)
          ~> (i \in DOMAIN rows /\ rows[i].status \in Terminal)

\* Every result that comes back is taken out of its queue.
ResultsAreApplied == results # <<>> ~> results = <<>>

=============================================================================
