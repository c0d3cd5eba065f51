------------------------ MODULE EmailDeliveryProofs ------------------------
(***************************************************************************)
(* Theorems about the e-mail deliveries: for any number of requests,       *)
(* deliveries, messages and faults.                                        *)
(***************************************************************************)
EXTENDS EmailDelivery, SequenceTheorems, TLAPS

(***************************************************************************)
(* The invariants                                                          *)
(***************************************************************************)

Dead == [pc |-> "DEAD"]
Pending == [pc : {"APPLY", "DELETE"}, result : Result, at : Nat, seen : Status]

\* Whatever speaks of a delivery speaks of one that was recorded, and the
\* result in hand is at its place in the queue, or gone from it.
Types ==
    /\ TypeOK
    /\ consumer \in {NoResult, Dead} \cup Pending
    /\ \A m \in requests : m.id \in DOMAIN rows
    /\ \A n \in DOMAIN results : results[n].id \in DOMAIN rows
    /\ consumer \in Pending =>
          /\ consumer.result.id \in DOMAIN rows
          /\ IF backend = "sqs" THEN consumer.at \in DOMAIN results
             ELSE consumer.pc = "APPLY"
    /\ \A i \in Ids : job[i] # "NONE" => i \in DOMAIN rows

\* The recipient of a delivery is the one of its request until it is redacted.
Answers ==
    /\ \A i \in DOMAIN rows : rows[i].recipient \in {rows[i].print[1], Redacted(i)}
    /\ AnswersTheRequest

\* What may have been reported of a delivery by the time its job is in s.
Past(s) ==
    (IF s = "NONE" THEN {} ELSE {"SENDING"})
    \cup (IF s = "FAILED" THEN {"FAILED"} ELSE {})
    \cup (IF s \in Reached THEN Reached ELSE {})

\* The mail may still be sent, or sent again.
Early == {"NONE", "SENDING", "DROPPED"}

\* Without the monitor and the operator a row says nothing that the mail
\* service did not report, in whatever order the reports are applied.
Reports ==
    backend = "sqs" =>
        /\ \A n \in DOMAIN results : results[n].status \in Past(job[results[n].id])
        /\ consumer \in Pending =>
              consumer.result.status \in Past(job[consumer.result.id])
        /\ \A i \in DOMAIN rows :
              /\ rows[i].status \in {"QUEUED"} \cup Past(job[i])
              /\ job[i] \in Early => rows[i].recipient = rows[i].print[1]
        /\ monitor = NoBatch

\* Without a queue the mail service hears of nothing.
Idle ==
    backend = "off" => requests = {} /\ \A i \in Ids : job[i] = "NONE"

Untouched == operator = NoRequest

Restarts(r, i) == r.id = i /\ r.status = "SENDING"

\* It is known that the mail was sent, and nothing that says less will come.
Final(i) ==
    /\ job[i] \in Reached
    /\ consumer \in Pending => ~Restarts(consumer.result, i)
    /\ \A n \in DOMAIN results : ~Restarts(results[n], i)

\* With a queue that keeps its order, no report of a mail that is under way
\* comes after a report that it was sent.
InOrder ==
    backend # "sqs" =>
        /\ \A i \in DOMAIN rows : rows[i].status \in Reached => Final(i)
        /\ consumer \in Pending /\ consumer.result.status \in Reached =>
              Final(consumer.result.id)
        /\ \A m \in DOMAIN results : results[m].status \in Reached =>
              /\ job[results[m].id] \in Reached
              /\ \A n \in DOMAIN results :
                    n > m => ~Restarts(results[n], results[m].id)

\* What is written of a request when its delivery is recorded, and stays.
Same(row, other) ==
    /\ row.key = other.key /\ row.print = other.print
    /\ row.attempt = other.attempt

EmailInv == Types /\ Answers /\ InOrder
ReportInv == EmailInv /\ Reports /\ Idle /\ Untouched

(***************************************************************************)
(* The table and the queue of results                                      *)
(***************************************************************************)

LEMMA RowFacts ==
    ASSUME Types
    PROVE  /\ Len(rows) \in 0 .. MaxRows /\ DOMAIN rows = 1 .. Len(rows)
           /\ DOMAIN rows \subseteq Ids
           /\ \A i \in DOMAIN rows : rows[i] \in Row
<1>1. rows \in Seq(Row) /\ Len(rows) <= MaxRows
  BY DEF Types, TypeOK
<1> QED
  BY <1>1, Bounds DEF Bounds, Ids

LEMMA ResultFacts ==
    ASSUME Types
    PROVE  /\ Len(results) \in Nat /\ DOMAIN results = 1 .. Len(results)
           /\ \A n \in DOMAIN results : results[n] \in Result
<1>1. results \in Seq(Result)
  BY DEF Types, TypeOK
<1> QED
  BY <1>1

LEMMA WithoutAtFacts ==
    ASSUME NEW S, NEW s \in Seq(S), NEW n \in DOMAIN s
    PROVE  /\ WithoutAt(s, n) \in Seq(S)
           /\ Len(WithoutAt(s, n)) = Len(s) - 1
           /\ DOMAIN WithoutAt(s, n) = 1 .. Len(s) - 1
           /\ \A m \in 1 .. Len(s) - 1 :
                 WithoutAt(s, n)[m] = IF m < n THEN s[m] ELSE s[m + 1]
<1> DEFINE a == SubSeq(s, 1, n - 1)
           b == SubSeq(s, n + 1, Len(s))
<1>1. Len(s) \in Nat /\ n \in 1 .. Len(s) /\ \A m \in 1 .. Len(s) : s[m] \in S
  OBVIOUS
<1>2. /\ a \in Seq(S) /\ Len(a) = n - 1
      /\ \A m \in 1 .. n - 1 : a[m] = s[m]
  BY <1>1
<1>3. /\ b \in Seq(S) /\ Len(b) = Len(s) - n
      /\ \A m \in 1 .. Len(s) - n : b[m] = s[n + m]
  BY <1>1
<1> HIDE DEF a, b
<1>4. /\ a \o b \in Seq(S) /\ Len(a \o b) = Len(a) + Len(b)
      /\ \A m \in 1 .. Len(a) + Len(b) :
            (a \o b)[m] = IF m <= Len(a) THEN a[m] ELSE b[m - Len(a)]
  BY <1>2, <1>3, ConcatProperties
<1>5. \A m \in 1 .. Len(s) - 1 : (a \o b)[m] = IF m < n THEN s[m] ELSE s[m + 1]
  <2> SUFFICES ASSUME NEW m \in 1 .. Len(s) - 1
               PROVE  (a \o b)[m] = IF m < n THEN s[m] ELSE s[m + 1]
    OBVIOUS
  <2>1. CASE m < n
    <3>1. m \in 1 .. n - 1 /\ m <= Len(a) /\ m \in 1 .. Len(a) + Len(b)
      BY <1>1, <1>2, <1>3, <2>1
    <3> QED
      BY <1>2, <1>4, <2>1, <3>1
  <2>2. CASE m >= n
    <3> DEFINE j == m - (n - 1)
    <3>1. (a \o b)[m] = b[j] /\ j \in 1 .. Len(s) - n
      <4>1. m \in 1 .. Len(a) + Len(b) /\ ~(m <= Len(a)) /\ m - Len(a) = j
        BY <1>1, <1>2, <1>3, <2>2
      <4>2. (a \o b)[m] = b[m - Len(a)]
        BY <1>4, <4>1
      <4>3. j \in 1 .. Len(s) - n
        BY <1>1, <2>2
      <4> QED
        BY <4>1, <4>2, <4>3
    <3>2. b[j] = s[n + j]
      BY <1>3, <3>1
    <3>3. n + j = m + 1
      BY <1>1
    <3> QED
      BY <1>1, <2>2, <3>1, <3>2, <3>3
  <2>3. m < n \/ m >= n
    BY <1>1
  <2> QED
    BY <2>1, <2>2, <2>3
<1>6. WithoutAt(s, n) = a \o b
  BY DEF WithoutAt, a, b
<1>7. DOMAIN (a \o b) = 1 .. Len(s) - 1
  <2>1. Len(a \o b) = Len(s) - 1
    BY <1>1, <1>2, <1>3, <1>4
  <2>2. DOMAIN (a \o b) = 1 .. Len(a \o b)
    BY <1>4
  <2> QED
    BY <2>1, <2>2
<1>8. Len(a \o b) = Len(s) - 1
  BY <1>1, <1>2, <1>3, <1>4
<1> QED
  BY <1>4, <1>5, <1>6, <1>7, <1>8

\* Where a result is after another one was taken out, and where it was.
LEMMA Shifted ==
    ASSUME Types, NEW k \in DOMAIN results, results' = WithoutAt(results, k)
    PROVE  /\ results' \in Seq(Result)
           /\ DOMAIN results' = 1 .. Len(results) - 1
           /\ \A n \in DOMAIN results' :
                 LET m == IF n < k THEN n ELSE n + 1
                 IN  m \in DOMAIN results \ {k} /\ results'[n] = results[m]
<1>1. results \in Seq(Result)
  BY DEF Types, TypeOK
<1>2. /\ results' \in Seq(Result)
      /\ DOMAIN results' = 1 .. Len(results) - 1
      /\ \A n \in 1 .. Len(results) - 1 :
            results'[n] = IF n < k THEN results[n] ELSE results[n + 1]
  BY <1>1, WithoutAtFacts
<1>3. Len(results) \in Nat /\ k \in 1 .. Len(results) /\ DOMAIN results = 1 .. Len(results)
  BY <1>1
<1> QED
  BY <1>2, <1>3

LEMMA AppendFacts ==
    ASSUME NEW S, NEW s \in Seq(S), NEW x \in S
    PROVE  /\ Append(s, x) \in Seq(S)
           /\ Len(Append(s, x)) = Len(s) + 1
           /\ DOMAIN Append(s, x) = 1 .. Len(s) + 1
           /\ \A m \in 1 .. Len(s) : Append(s, x)[m] = s[m]
           /\ Append(s, x)[Len(s) + 1] = x
OBVIOUS

\* Rows that are rewritten in place.
LEMMA Rewritten ==
    ASSUME Types, NEW f, f \in [DOMAIN rows -> Row]
    PROVE  f \in Seq(Row) /\ DOMAIN f = DOMAIN rows /\ Len(f) = Len(rows)
<1>1. Len(rows) \in Nat /\ DOMAIN rows = 1 .. Len(rows)
  BY RowFacts
<1>2. f \in Seq(Row)
  BY <1>1, SeqDef
<1>3. Len(f) \in Nat /\ DOMAIN f = 1 .. Len(f)
  BY <1>2
<1> QED
  BY <1>1, <1>2, <1>3
LEMMA WithStatusFacts ==
    ASSUME Types, NEW ids, NEW s \in Status
    PROVE  /\ WithStatus(ids, s) \in [DOMAIN rows -> Row]
           /\ \A i \in DOMAIN rows :
                 /\ Same(WithStatus(ids, s)[i], rows[i])
                 /\ WithStatus(ids, s)[i].recipient = rows[i].recipient
                 /\ WithStatus(ids, s)[i].status = IF i \in ids THEN s ELSE rows[i].status
<1>1. \A i \in DOMAIN rows : rows[i] \in Row
  BY RowFacts
<1>2. \A i \in DOMAIN rows :
         /\ [rows[i] EXCEPT !.status = s] \in Row
         /\ Same([rows[i] EXCEPT !.status = s], rows[i])
         /\ [rows[i] EXCEPT !.status = s].recipient = rows[i].recipient
         /\ [rows[i] EXCEPT !.status = s].status = s
  BY <1>1 DEF Row, Same
<1> QED
  BY <1>1, <1>2 DEF WithStatus, Same

\* What a step does to the rows there are: it may change the status, the mark
\* of the delivery and the recipient, and nothing else.
RowsKept ==
    /\ rows' \in Seq(Row) /\ Len(rows') <= MaxRows /\ Valid(rows')
    /\ DOMAIN rows \subseteq DOMAIN rows'
    /\ \A i \in DOMAIN rows : Same(rows'[i], rows[i])

LEMMA RowsUnchanged ==
    ASSUME Types, UNCHANGED rows
    PROVE  RowsKept
<1>1. rows \in Seq(Row) /\ Len(rows) <= MaxRows /\ Valid(rows)
  BY DEF Types, TypeOK
<1>2. Valid(rows')
  BY <1>1 DEF Valid
<1> QED
  BY <1>1, <1>2 DEF RowsKept, Same

LEMMA RowsRewritten ==
    ASSUME Types, NEW f, f \in [DOMAIN rows -> Row], Valid(f), rows' = f,
           \A i \in DOMAIN rows : Same(f[i], rows[i])
    PROVE  RowsKept /\ DOMAIN rows' = DOMAIN rows
<1>1. f \in Seq(Row) /\ DOMAIN f = DOMAIN rows /\ Len(f) = Len(rows)
  BY Rewritten
<1>2. Len(rows) \in 0 .. MaxRows
  BY RowFacts
<1>3. Valid(rows')
  BY DEF Valid
<1> QED
  BY <1>1, <1>2, <1>3, Bounds DEF RowsKept, Bounds

\* One transaction that closes deliveries.
LEMMA Closed ==
    ASSUME Types, NEW ids,
           rows' = IF Valid(WithStatus(ids, "FAILED")) THEN WithStatus(ids, "FAILED")
                   ELSE rows
    PROVE  /\ RowsKept /\ DOMAIN rows' = DOMAIN rows
           /\ \A i \in DOMAIN rows :
                 /\ rows'[i].recipient = rows[i].recipient
                 /\ rows'[i].status \in {rows[i].status, "FAILED"}
                 /\ i \notin ids => rows'[i].status = rows[i].status
<1>1. "FAILED" \in Status
  BY DEF Status, Terminal
<1>2. CASE UNCHANGED rows
  BY <1>2, RowsUnchanged
<1>3. CASE /\ Valid(WithStatus(ids, "FAILED"))
           /\ rows' = WithStatus(ids, "FAILED")
  BY <1>1, <1>3, WithStatusFacts, RowsRewritten
<1> QED
  BY <1>2, <1>3

LEMMA InsertedRow ==
    ASSUME Types, NEW c \in Clients, RequestInsert(c), ~UNCHANGED rows
    PROVE  /\ RowsKept
           /\ DOMAIN rows' = 1 .. Len(rows) + 1
           /\ \A i \in DOMAIN rows : rows'[i] = rows[i]
           /\ rows'[Len(rows) + 1] = NewRow(c)
           /\ client[c].print \in Prints
           /\ client' = [client EXCEPT ![c] =
                 [pc |-> "PUBLISH", key |-> @.key, print |-> @.print,
                  attempt |-> @.attempt, id |-> Len(rows) + 1, to |-> @.print[1]]]
<1>1. /\ rows' = Append(rows, NewRow(c)) /\ Len(rows) < MaxRows
      /\ Valid(Append(rows, NewRow(c)))
      /\ client[c].pc = "INSERT"
      /\ client' = [client EXCEPT ![c] =
            [pc |-> "PUBLISH", key |-> @.key, print |-> @.print,
             attempt |-> @.attempt, id |-> Len(rows) + 1, to |-> @.print[1]]]
  BY DEF RequestInsert
<1>2. /\ client[c].key \in Keys /\ client[c].print \in Prints
      /\ client[c].attempt \in Attempts
  BY <1>1 DEF Types, TypeOK, NoRequest
<1>3. NewRow(c) \in Row
  <2>1. client[c].print[1] \in Addressees
    BY <1>2 DEF Addressees, Prints
  <2> QED
    BY <1>2, <2>1 DEF NewRow, Row, Status, Active
<1>4. rows \in Seq(Row) /\ Len(rows) \in Nat /\ DOMAIN rows = 1 .. Len(rows)
  BY RowFacts DEF Types, TypeOK
<1>5. /\ rows' \in Seq(Row) /\ Len(rows') = Len(rows) + 1
      /\ DOMAIN rows' = 1 .. Len(rows) + 1
      /\ \A i \in DOMAIN rows : rows'[i] = rows[i]
      /\ rows'[Len(rows) + 1] = NewRow(c)
  <2> DEFINE row == NewRow(c)
  <2>1. row \in Row /\ rows' = Append(rows, row)
    BY <1>1, <1>3
  <2> HIDE DEF row
  <2>2. /\ Append(rows, row) \in Seq(Row)
        /\ Len(Append(rows, row)) = Len(rows) + 1
        /\ DOMAIN Append(rows, row) = 1 .. Len(rows) + 1
        /\ \A m \in 1 .. Len(rows) : Append(rows, row)[m] = rows[m]
        /\ Append(rows, row)[Len(rows) + 1] = row
    <3>1. rows \in Seq(Row) /\ row \in Row
      BY <1>4, <2>1
    <3> QED
      BY ONLY <3>1, AppendFacts
  <2> QED
    BY <1>4, <2>1, <2>2 DEF row
<1>6. Valid(rows')
  BY <1>1 DEF Valid
<1>7. Len(rows') <= MaxRows /\ DOMAIN rows \subseteq DOMAIN rows'
  <2>1. MaxRows \in Nat /\ Len(rows) < MaxRows /\ Len(rows) \in Nat
    BY <1>1, <1>4, Bounds DEF Bounds
  <2>2. Len(rows) + 1 <= MaxRows /\ 1 .. Len(rows) \subseteq 1 .. Len(rows) + 1
    BY <2>1
  <2> QED
    BY <1>4, <1>5, <2>2
<1>8. \A i \in DOMAIN rows : Same(rows'[i], rows[i])
  BY <1>5 DEF Same
<1> QED
  BY <1>1, <1>2, <1>5, <1>6, <1>7, <1>8 DEF RowsKept

LEMMA AppliedRow ==
    ASSUME Types, Apply, ~UNCHANGED rows
    PROVE  /\ RowsKept /\ DOMAIN rows' = DOMAIN rows
           /\ \A i \in DOMAIN rows :
                 /\ rows'[i].recipient = rows[i].recipient
                 /\ i # consumer.result.id => rows'[i] = rows[i]
           /\ rows'[consumer.result.id].status
                 \in {rows[consumer.result.id].status, consumer.result.status}
<1> DEFINE i == consumer.result.id
           s == consumer.result.status
           row == [rows[i] EXCEPT !.status = IF s = consumer.seen THEN @ ELSE s,
                                  !.delivered = @ \/ s = "DELIVERED"]
           after == [rows EXCEPT ![i] = row]
<1>1. consumer \in Pending /\ i \in DOMAIN rows /\ rows[i] \in Row
  BY RowFacts DEF Types, Apply, NoResult, Dead
<1>2. s \in Status /\ consumer.result \in Result
  BY <1>1 DEF Pending, Result
<1>3. /\ row \in Row /\ Same(row, rows[i]) /\ row.recipient = rows[i].recipient
      /\ row.status \in {rows[i].status, s}
  BY <1>1, <1>2 DEF Row, Same
<1>4. Valid(after) /\ rows' = after
  BY DEF Apply
<1> HIDE DEF row
<1>5. /\ after \in [DOMAIN rows -> Row]
      /\ after[i] = row
      /\ \A j \in DOMAIN rows : j # i => after[j] = rows[j]
  BY <1>1, <1>3, RowFacts
<1>6. \A j \in DOMAIN rows : Same(after[j], rows[j]) /\ after[j].recipient = rows[j].recipient
  BY <1>3, <1>5 DEF Same
<1> HIDE DEF after, i, s
<1>7. RowsKept /\ DOMAIN rows' = DOMAIN rows
  BY <1>4, <1>5, <1>6, RowsRewritten
<1> QED
  BY <1>3, <1>4, <1>5, <1>6, <1>7 DEF i, s

LEMMA PurgedRow ==
    ASSUME Types, NEW i \in Ids, Purge(i)
    PROVE  /\ RowsKept /\ DOMAIN rows' = DOMAIN rows /\ i \in DOMAIN rows
           /\ rows[i].status \in Terminal
           /\ rows'[i].recipient = Redacted(i)
           /\ \A j \in DOMAIN rows :
                 /\ rows'[j].status = rows[j].status
                 /\ j # i => rows'[j] = rows[j]
<1> DEFINE row == [rows[i] EXCEPT !.recipient = Redacted(i)]
           after == [rows EXCEPT ![i] = row]
<1>1. /\ i \in DOMAIN rows /\ rows[i] \in Row /\ rows[i].status \in Terminal
      /\ rows' = after
  BY RowFacts DEF Purge
<1>2. Redacted(i) \in Addressees
  BY DEF Addressees
<1>3. /\ row \in Row /\ Same(row, rows[i])
      /\ row.recipient = Redacted(i)
      /\ row.status = rows[i].status /\ row.delivered = rows[i].delivered
  BY <1>1, <1>2 DEF Row, Same
<1> HIDE DEF row
<1>4. /\ after \in [DOMAIN rows -> Row]
      /\ DOMAIN after = DOMAIN rows
      /\ after[i] = row
      /\ \A j \in DOMAIN rows : j # i => after[j] = rows[j]
  BY <1>1, <1>3, RowFacts
<1> HIDE DEF after
<1>5. \A j \in DOMAIN rows :
         /\ Same(after[j], rows[j])
         /\ after[j].status = rows[j].status /\ after[j].delivered = rows[j].delivered
         /\ j # i => after[j].recipient = rows[j].recipient
  BY <1>3, <1>4 DEF Same
<1>6. Valid(after)
  <2>1. Valid(rows)
    BY DEF Types, TypeOK
  <2>2. rows[i].status \notin Active
    BY <1>1 DEF Terminal, Active
  <2> QED
    BY <1>4, <1>5, <2>1, <2>2 DEF Valid, Target, Same
<1>7. RowsKept /\ DOMAIN rows' = DOMAIN rows
  BY <1>1, <1>4, <1>5, <1>6, RowsRewritten
<1> QED
  BY <1>1, <1>3, <1>4, <1>5, <1>7
\* What is reported of a delivery is put at the end of the queue.
LEMMA Reported ==
    ASSUME Types, NEW i \in Ids, NEW s \in Status \ {"QUEUED"}, Report(i, s)
    PROVE  /\ job' = [job EXCEPT ![i] = s] /\ job' \in [Ids -> JobStatus]
           /\ results' \in Seq(Result)
           /\ DOMAIN results' = 1 .. Len(results) + 1
           /\ \A n \in DOMAIN results : results'[n] = results[n]
           /\ results'[Len(results) + 1] = [id |-> i, status |-> s]
<1>1. results \in Seq(Result) /\ job \in [Ids -> JobStatus]
  BY DEF Types, TypeOK
<1> DEFINE r == [id |-> i, status |-> s]
<1>2. r \in Result /\ results' = Append(results, r)
  BY DEF Result, Report
<1> HIDE DEF r
<1>3. /\ Append(results, r) \in Seq(Result)
      /\ DOMAIN Append(results, r) = 1 .. Len(results) + 1
      /\ \A n \in 1 .. Len(results) : Append(results, r)[n] = results[n]
      /\ Append(results, r)[Len(results) + 1] = r
  BY <1>1, <1>2, AppendFacts
<1>4. DOMAIN results = 1 .. Len(results)
  BY <1>1
<1>5. job' = [job EXCEPT ![i] = s] /\ s \in JobStatus
  BY DEF Report, JobStatus
<1> QED
  BY <1>1, <1>2, <1>3, <1>4, <1>5 DEF r

LEMMA Progressed ==
    ASSUME Types, NEW i \in Ids, Progress(i)
    PROVE  \E s \in Status \ {"QUEUED"} :
              /\ Report(i, s)
              /\ \/ job[i] = "SENDING" /\ s \in {"SENT", "FAILED"}
                 \/ job[i] \in Reached /\ s \in Reached
              /\ s # "SENDING"
<1>1. PICK s \in IF job[i] = "SENDING" THEN {"SENT", "FAILED"}
                 ELSE IF job[i] = "SENT" THEN {"DELIVERED", "BOUNCED"}
                 ELSE IF job[i] = "DELIVERED" /\ "complaint" \in Env
                 THEN {"COMPLAINT"} ELSE {} : Report(i, s)
  BY DEF Progress
<1> QED
  BY <1>1 DEF Status, Active, Terminal, Reached

\* The steps that write rows.
LEMMA RowsMoves ==
    ASSUME [Next]_vars
    PROVE  \/ UNCHANGED rows
           \/ \E c \in Clients : Publish(c) \/ RequestInsert(c)
           \/ StaleCommit \/ DlqCommit \/ Apply
           \/ \E i \in Ids : Purge(i)
<1>1. ASSUME NEW c \in Clients, NEW k \in Keys, NEW p \in Prints,
             RequestRead(c, k, p)
      PROVE  UNCHANGED rows
  BY <1>1 DEF RequestRead
<1>2. ASSUME NEW c \in Clients, PublishFails(c)
      PROVE  UNCHANGED rows
  BY <1>2 DEF PublishFails
<1>3. ASSUME NEW m \in requests, Accept(m)
      PROVE  UNCHANGED rows
  BY <1>3 DEF Accept
<1>4. ASSUME NEW i \in Ids, Progress(i) \/ Drop(i) \/ DlqRead(i)
      PROVE  UNCHANGED rows
  BY <1>4 DEF Progress, Drop, DlqRead
<1>5. ASSUME NEW n \in Receivable, Receive(n)
      PROVE  UNCHANGED rows
  BY <1>5 DEF Receive
<1>6. ASSUME Delete \/ ConsumerFails \/ StaleRead \/ Crash \/ NewAttempt
      PROVE  UNCHANGED rows
  BY <1>6 DEF Delete, ConsumerFails, StaleRead, Crash, NewAttempt
<1>7. CASE Next
  BY <1>1, <1>2, <1>3, <1>4, <1>5, <1>6, <1>7 DEF Next
<1> QED
  BY <1>7 DEF vars

LEMMA RowsStep ==
    ASSUME Types, [Next]_vars
    PROVE  RowsKept
<1>1. CASE UNCHANGED rows
  BY <1>1, RowsUnchanged
<1>2. ASSUME NEW c \in Clients, Publish(c), ~UNCHANGED rows
      PROVE  RowsKept
  BY <1>2, Closed DEF Publish
<1>3. CASE StaleCommit
  BY <1>3, Closed DEF StaleCommit
<1>4. CASE DlqCommit
  BY <1>4, Closed DEF DlqCommit
<1>5. CASE Apply
  BY <1>1, <1>5, AppliedRow
<1>6. ASSUME NEW i \in Ids, Purge(i)
      PROVE  RowsKept
  BY <1>6, PurgedRow
<1>7. ASSUME NEW c \in Clients, RequestInsert(c)
      PROVE  RowsKept
  BY <1>1, <1>7, InsertedRow
<1> QED
  BY <1>1, <1>2, <1>3, <1>4, <1>5, <1>6, <1>7, RowsMoves

\* Rows are added by the send endpoint only.
LEMMA NewRows ==
    ASSUME Types, [Next]_vars, NEW i \in DOMAIN rows' \ DOMAIN rows
    PROVE  \E c \in Clients :
              /\ RequestInsert(c) /\ ~UNCHANGED rows
              /\ i = Len(rows) + 1 /\ rows'[i] = NewRow(c)
<1>1. ~UNCHANGED rows /\ DOMAIN rows' # DOMAIN rows
  OBVIOUS
<1>2. ASSUME NEW c \in Clients, Publish(c)
      PROVE  FALSE
  BY <1>1, <1>2, Closed DEF Publish
<1>3. ASSUME StaleCommit \/ DlqCommit
      PROVE  FALSE
  BY <1>1, <1>3, Closed DEF StaleCommit, DlqCommit
<1>4. ASSUME Apply
      PROVE  FALSE
  BY <1>1, <1>4, AppliedRow
<1>5. ASSUME NEW j \in Ids, Purge(j)
      PROVE  FALSE
  BY <1>1, <1>5, PurgedRow
<1>6. PICK c \in Clients : RequestInsert(c)
  BY <1>1, <1>2, <1>3, <1>4, <1>5, RowsMoves
<1>7. DOMAIN rows' = 1 .. Len(rows) + 1 /\ rows'[Len(rows) + 1] = NewRow(c)
  BY <1>1, <1>6, InsertedRow
<1>8. Len(rows) \in Nat /\ DOMAIN rows = 1 .. Len(rows)
  BY RowFacts
<1>9. i = Len(rows) + 1
  BY <1>7, <1>8
<1> QED
  BY <1>1, <1>6, <1>7, <1>9

(***************************************************************************)
(* Types                                                                   *)
(***************************************************************************)

ClientTypes ==
    \A c \in Clients :
       \/ client[c] = NoRequest
       \/ client[c] \in [pc : {"INSERT"}, key : Keys, print : Prints, attempt : Attempts]
       \/ client[c] \in [pc : {"PUBLISH"}, key : Keys, print : Prints, attempt : Attempts,
                         id : DOMAIN rows, to : Addressees]

ServiceTypes ==
    /\ requests \subseteq Message
    /\ \A m \in requests : m.id \in DOMAIN rows
    /\ job \in [Ids -> JobStatus]
    /\ \A i \in Ids : job[i] # "NONE" => i \in DOMAIN rows
    /\ results \in Seq(Result)
    /\ \A n \in DOMAIN results : results[n].id \in DOMAIN rows

HandTypes ==
    /\ consumer \in {NoResult, Dead} \cup Pending
    /\ consumer \in Pending =>
          /\ consumer.result.id \in DOMAIN rows
          /\ IF backend = "sqs" THEN consumer.at \in DOMAIN results
             ELSE consumer.pc = "APPLY"

ClosingTypes ==
    /\ monitor \subseteq DOMAIN rows
    /\ operator = NoRequest \/ operator \in [pc : {"CLOSE"}, id : DOMAIN rows]

LEMMA NotPending ==
    /\ NoResult \notin Pending /\ Dead \notin Pending
    /\ NoResult.pc = "IDLE" /\ Dead.pc = "DEAD"
    /\ \A q \in Pending : q.pc \in {"APPLY", "DELETE"}
BY DEF NoResult, Dead, Pending

Parts ==
    /\ backend \in Backends /\ attempt \in Attempts /\ faults \in 0 .. MaxFaults
    /\ rows \in Seq(Row) /\ Len(rows) <= MaxRows /\ Valid(rows)
    /\ ClientTypes /\ ServiceTypes /\ HandTypes /\ ClosingTypes

LEMMA TypesParts == Types <=> Parts
<1>1. HandTypes => consumer.pc \in {"IDLE", "APPLY", "DELETE", "DEAD"}
  BY NotPending DEF HandTypes
<1> QED
  BY <1>1 DEF Types, TypeOK, Parts, ClientTypes, ServiceTypes, HandTypes, ClosingTypes

\* A part stays typed while nothing of it changes and rows are only added.
LEMMA PartsKept ==
    ASSUME Types, RowsKept
    PROVE  /\ UNCHANGED client => ClientTypes'
           /\ UNCHANGED <<requests, job, results>> => ServiceTypes'
           /\ UNCHANGED <<monitor, operator>> => ClosingTypes'
           /\ UNCHANGED <<backend, results, consumer>> => HandTypes'
<1>1. /\ ClientTypes /\ ServiceTypes /\ HandTypes /\ ClosingTypes
      /\ DOMAIN rows \subseteq DOMAIN rows'
  BY TypesParts DEF Parts, RowsKept
<1>2. UNCHANGED client => ClientTypes'
  BY <1>1 DEF ClientTypes
<1>3. UNCHANGED <<requests, job, results>> => ServiceTypes'
  BY <1>1 DEF ServiceTypes
<1>4. UNCHANGED <<monitor, operator>> => ClosingTypes'
  BY <1>1 DEF ClosingTypes
<1>5. UNCHANGED <<backend, results, consumer>> => HandTypes'
  BY <1>1 DEF HandTypes
<1> QED
  BY <1>2, <1>3, <1>4, <1>5

\* A client that goes on, and the others that do not.
LEMMA OneClient ==
    ASSUME Types, RowsKept, NEW c \in Clients, NEW q, client' = [client EXCEPT ![c] = q],
           \/ q = NoRequest
           \/ q \in [pc : {"INSERT"}, key : Keys, print : Prints, attempt : Attempts]
           \/ q \in [pc : {"PUBLISH"}, key : Keys, print : Prints, attempt : Attempts,
                     id : DOMAIN rows', to : Addressees]
    PROVE  ClientTypes'
<1>1. ClientTypes /\ DOMAIN rows \subseteq DOMAIN rows'
  BY TypesParts DEF Parts, RowsKept
<1>2. ASSUME NEW d \in Clients
      PROVE  client'[d] = client[d] \/ client'[d] = q
  BY <1>2
<1> QED
  BY <1>1, <1>2 DEF ClientTypes

\* A step of the service that reports something.
LEMMA ReportTypes ==
    ASSUME Types, RowsKept, NEW i \in DOMAIN rows, NEW s \in Status \ {"QUEUED"},
           Report(i, s), requests' \subseteq requests,
           UNCHANGED <<backend, consumer>>
    PROVE  ServiceTypes' /\ HandTypes'
<1>1. ServiceTypes /\ HandTypes /\ DOMAIN rows \subseteq DOMAIN rows'
  BY TypesParts DEF Parts, RowsKept
<1>2. i \in Ids
  BY RowFacts
<1>3. /\ job' = [job EXCEPT ![i] = s] /\ job' \in [Ids -> JobStatus]
      /\ results' \in Seq(Result)
      /\ DOMAIN results' = 1 .. Len(results) + 1
      /\ \A n \in DOMAIN results : results'[n] = results[n]
      /\ results'[Len(results) + 1] = [id |-> i, status |-> s]
  BY <1>2, Reported
<1>4. Len(results) \in Nat /\ DOMAIN results = 1 .. Len(results)
  BY ResultFacts
<1>5. \A n \in DOMAIN results' : results'[n].id \in DOMAIN rows'
  <2> SUFFICES ASSUME NEW n \in DOMAIN results'
               PROVE  results'[n].id \in DOMAIN rows'
    OBVIOUS
  <2>1. n \in DOMAIN results \/ n = Len(results) + 1
    BY <1>3, <1>4
  <2> QED
    BY <1>1, <1>3, <2>1 DEF ServiceTypes
<1>6. \A j \in Ids : job'[j] # "NONE" => j \in DOMAIN rows'
  BY <1>1, <1>3 DEF ServiceTypes
<1>7. \A m \in requests' : m.id \in DOMAIN rows' /\ m \in Message
  BY <1>1 DEF ServiceTypes
<1>8. DOMAIN results \subseteq DOMAIN results'
  BY <1>3, <1>4
<1> QED
  BY <1>1, <1>3, <1>5, <1>6, <1>7, <1>8 DEF ServiceTypes, HandTypes
LEMMA TypesStep ==
    ASSUME Types, [Next]_vars
    PROVE  Types'
<1>1. RowsKept
  BY RowsStep
<1>2. /\ rows' \in Seq(Row) /\ Len(rows') <= MaxRows /\ Valid(rows')
      /\ DOMAIN rows \subseteq DOMAIN rows'
  BY <1>1 DEF RowsKept
<1>3. /\ backend \in Backends /\ attempt \in Attempts /\ faults \in 0 .. MaxFaults
      /\ ClientTypes /\ ServiceTypes /\ HandTypes /\ ClosingTypes
  BY TypesParts DEF Parts
<1>4. /\ UNCHANGED client => ClientTypes'
      /\ UNCHANGED <<requests, job, results>> => ServiceTypes'
      /\ UNCHANGED <<monitor, operator>> => ClosingTypes'
      /\ UNCHANGED <<backend, results, consumer>> => HandTypes'
  BY <1>1, PartsKept
<1>5. ASSUME ClientTypes', ServiceTypes', HandTypes', ClosingTypes', UNCHANGED backend,
             UNCHANGED attempt \/ NewAttempt,
             UNCHANGED faults \/ \E kind \in Behaviour : Fault(kind)
      PROVE  Types'
  <2>1. faults' \in 0 .. MaxFaults
    BY <1>3, <1>5, Bounds DEF Fault, Bounds
  <2>2. Valid(rows)'
    BY <1>2 DEF Valid
  <2>3. attempt' \in Attempts
    BY <1>3, <1>5, Bounds DEF NewAttempt, Attempts, Bounds
  <2>4. Parts'
    BY <1>2, <1>3, <1>5, <2>1, <2>2, <2>3 DEF Parts
  <2> QED
    BY <2>4, TypesParts, PTL
<1>6. ASSUME NEW c \in Clients, NEW k \in Keys, NEW p \in Prints,
             RequestRead(c, k, p)
      PROVE  Types'
  <2>1. \A i \in DOMAIN rows : rows[i].recipient \in Addressees
    BY RowFacts DEF Row
  <2>2. ClientTypes'
    <3>1. ASSUME NEW i \in DOMAIN rows,
                 client' = [client EXCEPT ![c] =
                    Answered(k, p, attempt, i)]
          PROVE  ClientTypes'
      <4> DEFINE q == Answered(k, p, attempt, i)
      <4>1. q \in [pc : {"PUBLISH"}, key : Keys, print : Prints, attempt : Attempts,
                   id : DOMAIN rows', to : Addressees]
        BY <1>2, <1>3, <2>1 DEF Answered
      <4> HIDE DEF q
      <4>2. client' = [client EXCEPT ![c] = q]
        BY <3>1 DEF q
      <4> QED
        BY <1>1, <4>1, <4>2, OneClient
    <3>2. ASSUME client' = [client EXCEPT ![c] =
                    [pc |-> "INSERT", key |-> k, print |-> p, attempt |-> attempt]]
          PROVE  ClientTypes'
      <4> DEFINE q == [pc |-> "INSERT", key |-> k, print |-> p, attempt |-> attempt]
      <4>1. q \in [pc : {"INSERT"}, key : Keys, print : Prints, attempt : Attempts]
        BY <1>3
      <4> HIDE DEF q
      <4>2. client' = [client EXCEPT ![c] = q]
        BY <3>2 DEF q
      <4> QED
        BY <1>1, <4>1, <4>2, OneClient
    <3> QED
      BY <1>6, <3>1, <3>2 DEF RequestRead, Known, Ongoing
  <2> QED
    BY <1>4, <1>5, <1>6, <2>2 DEF RequestRead
<1>7. ASSUME NEW c \in Clients, RequestInsert(c)
      PROVE  Types'
  <2>1. ClientTypes'
    <3>1. CASE UNCHANGED rows
      <4>1. client' = [client EXCEPT ![c] = NoRequest]
        <5>1. rows # Append(rows, NewRow(c))
          <6>1. rows \in Seq(Row) /\ Len(rows) \in Nat
            BY <1>1, RowFacts DEF Types, TypeOK
          <6> QED
            BY <6>1
        <5> QED
          BY <1>7, <3>1, <5>1 DEF RequestInsert
      <4> QED
        BY <1>1, <4>1, OneClient
    <3>2. CASE ~UNCHANGED rows
      <4> DEFINE q == [pc |-> "PUBLISH", key |-> client[c].key, print |-> client[c].print,
                       attempt |-> client[c].attempt, id |-> Len(rows) + 1, to |-> client[c].print[1]]
      <4>1. client' = [client EXCEPT ![c] = q]
        BY <1>7, <3>2, InsertedRow
      <4>2. q.pc = "PUBLISH" /\ client[c].pc = "INSERT"
        BY <1>7 DEF RequestInsert
      <4>3. /\ client[c].key \in Keys /\ client[c].print \in Prints
            /\ client[c].attempt \in Attempts
        BY <1>3, <4>2 DEF ClientTypes, NoRequest
      <4>4. Len(rows) + 1 \in DOMAIN rows'
        <5>1. Len(rows) \in Nat /\ DOMAIN rows' = 1 .. Len(rows) + 1
          BY <1>7, <3>2, InsertedRow, RowFacts
        <5> QED
          BY <5>1
      <4>5. client[c].print[1] \in Addressees
        BY <4>3 DEF Addressees, Prints
      <4>6. q \in [pc : {"PUBLISH"}, key : Keys, print : Prints, attempt : Attempts,
                   id : DOMAIN rows', to : Addressees]
        BY <4>3, <4>4, <4>5
      <4> HIDE DEF q
      <4> QED
        BY <1>1, <4>1, <4>6, OneClient
    <3> QED
      BY <3>1, <3>2
  <2> QED
    BY <1>4, <1>5, <1>7, <2>1 DEF RequestInsert
<1>8. ASSUME NEW c \in Clients, Publish(c)
      PROVE  Types'
  <2>1. ClientTypes'
    BY <1>1, <1>8, OneClient DEF Publish
  <2>2. client[c].id \in DOMAIN rows /\ client[c].to \in Addressees
    BY <1>3, <1>8 DEF Publish, ClientTypes, NoRequest
  <2>3. [id |-> client[c].id, to |-> client[c].to] \in Message
    BY <2>2, RowFacts DEF Message
  <2>4. /\ requests' \subseteq requests \cup {[id |-> client[c].id, to |-> client[c].to]}
        /\ UNCHANGED <<job, results>>
    BY <1>8 DEF Publish
  <2>5. ServiceTypes'
    BY <1>2, <1>3, <2>2, <2>3, <2>4 DEF ServiceTypes
  <2> QED
    BY <1>4, <1>5, <1>8, <2>1, <2>5 DEF Publish
<1>9. ASSUME NEW c \in Clients, PublishFails(c)
      PROVE  Types'
  <2>1. ClientTypes'
    BY <1>1, <1>9, OneClient DEF PublishFails
  <2>2. Fault("outage") /\ "outage" \in Behaviour
    BY <1>9 DEF PublishFails, Behaviour
  <2> QED
    BY <1>4, <1>5, <1>9, <2>1, <2>2 DEF PublishFails
<1>10. ASSUME NEW m \in requests, Accept(m)
       PROVE  Types'
  <2>1. m.id \in DOMAIN rows /\ requests' \subseteq requests
    BY <1>3, <1>10 DEF Accept, ServiceTypes
  <2>2. ServiceTypes' /\ HandTypes'
    <3>1. CASE Report(m.id, "SENDING")
      <4>1. "SENDING" \in Status \ {"QUEUED"}
        BY DEF Status, Active
      <4> QED
        BY <1>1, <1>10, <2>1, <3>1, <4>1, ReportTypes DEF Accept
    <3>2. CASE UNCHANGED <<job, results>>
      BY <1>2, <1>3, <1>4, <1>10, <2>1, <3>2 DEF Accept, ServiceTypes
    <3> QED
      BY <1>10, <3>1, <3>2 DEF Accept
  <2> QED
    BY <1>4, <1>5, <1>10, <2>2 DEF Accept
<1>11. ASSUME NEW i \in Ids, Progress(i)
       PROVE  Types'
  <2>1. PICK s \in Status \ {"QUEUED"} : Report(i, s) /\ (job[i] = "SENDING" \/ job[i] \in Reached)
    BY <1>11, Progressed
  <2>2. i \in DOMAIN rows
    BY <1>3, <2>1 DEF ServiceTypes, Reached
  <2>3. ServiceTypes' /\ HandTypes'
    BY <1>1, <1>11, <2>1, <2>2, ReportTypes DEF Progress
  <2> QED
    BY <1>4, <1>5, <1>11, <2>3 DEF Progress
<1>12. ASSUME NEW i \in Ids, Drop(i)
       PROVE  Types'
  <2>1. i \in DOMAIN rows
    BY <1>3, <1>12 DEF Drop, ServiceTypes
  <2>2. job' = [job EXCEPT ![i] = "DROPPED"] /\ requests' \subseteq requests /\ UNCHANGED results
    BY <1>12 DEF Drop
  <2>3. ServiceTypes'
    BY <1>2, <1>3, <2>1, <2>2 DEF ServiceTypes, JobStatus
  <2>4. Fault("drop") /\ "drop" \in Behaviour
    BY <1>12 DEF Drop, Behaviour
  <2> QED
    BY <1>4, <1>5, <1>12, <2>3, <2>4 DEF Drop
<1>13. ASSUME NEW n \in Receivable, Receive(n)
       PROVE  Types'
  <2>1. n \in DOMAIN results /\ results[n] \in Result /\ n \in Nat
    <3>1. Len(results) \in Nat /\ DOMAIN results = 1 .. Len(results)
      BY ResultFacts
    <3>2. results # <<>> => 1 \in DOMAIN results
      BY <1>3, <3>1 DEF ServiceTypes
    <3>3. n \in DOMAIN results
      BY <3>2 DEF Receivable
    <3> QED
      BY <3>1, <3>3, ResultFacts
  <2>2. results[n].id \in DOMAIN rows /\ rows[results[n].id].status \in Status
    BY <1>3, <2>1, RowFacts DEF ServiceTypes, Row
  <2>3. /\ consumer' = [pc |-> "APPLY", result |-> results[n], at |-> n,
                        seen |-> rows[results[n].id].status]
        /\ results' = IF backend = "sqs" THEN results ELSE WithoutAt(results, n)
        /\ UNCHANGED <<backend, requests, job>>
    BY <1>13 DEF Receive
  <2>4. consumer' \in Pending /\ consumer'.result.id \in DOMAIN rows
    BY <2>1, <2>2, <2>3 DEF Pending
  <2>5. HandTypes'
    BY <1>2, <2>1, <2>3, <2>4 DEF HandTypes
  <2>6. /\ results' \in Seq(Result)
        /\ \A m \in DOMAIN results' : \E k \in DOMAIN results : results'[m] = results[k]
    <3>1. CASE backend = "sqs"
      BY <1>3, <2>3, <3>1 DEF ServiceTypes
    <3>2. CASE backend # "sqs"
      BY <2>1, <2>3, <3>2, Shifted
    <3> QED
      BY <3>1, <3>2
  <2>7. ServiceTypes'
    BY <1>2, <1>3, <2>3, <2>6 DEF ServiceTypes
  <2> QED
    BY <1>4, <1>5, <1>13, <2>5, <2>7 DEF Receive
<1>14. CASE Apply
  <2>1. consumer \in Pending /\ consumer.pc = "APPLY"
    BY <1>3, <1>14, NotPending DEF Apply, HandTypes
  <2>2. \/ consumer' = [consumer EXCEPT !.pc = "DELETE"] /\ backend = "sqs"
        \/ consumer' \in {NoResult, Dead}
    BY <1>14 DEF Apply, Dead
  <2>3. UNCHANGED <<backend, results>>
    BY <1>14 DEF Apply
  <2>4. HandTypes'
    <3>1. CASE consumer' \in {NoResult, Dead}
      BY <3>1, NotPending DEF HandTypes
    <3>2. CASE consumer' = [consumer EXCEPT !.pc = "DELETE"] /\ backend = "sqs"
      <4>1. consumer' \in Pending /\ consumer'.result = consumer.result /\ consumer'.at = consumer.at
        BY <2>1, <3>2 DEF Pending
      <4> QED
        BY <1>2, <1>3, <2>1, <2>3, <3>2, <4>1 DEF HandTypes
    <3> QED
      BY <2>2, <3>1, <3>2
  <2> QED
    BY <1>4, <1>5, <1>14, <2>4 DEF Apply
<1>15. CASE Delete
  <2>1. consumer \in Pending /\ consumer.pc = "DELETE"
    BY <1>3, <1>15, NotPending DEF Delete, HandTypes
  <2>2. consumer.at \in DOMAIN results
    BY <1>3, <2>1 DEF HandTypes
  <2>3. /\ results' \in Seq(Result)
        /\ \A m \in DOMAIN results' : \E k \in DOMAIN results : results'[m] = results[k]
    BY <1>15, <2>2, Shifted DEF Delete
  <2>4. ServiceTypes'
    BY <1>2, <1>3, <1>15, <2>3 DEF ServiceTypes, Delete
  <2>5. HandTypes'
    BY <1>15, NotPending DEF Delete, HandTypes
  <2> QED
    BY <1>4, <1>5, <1>15, <2>4, <2>5 DEF Delete
<1>16. CASE ConsumerFails
  <2>1. HandTypes'
    BY <1>16, NotPending DEF ConsumerFails, HandTypes, Dead
  <2>2. Fault("outage") /\ "outage" \in Behaviour
    BY <1>16 DEF ConsumerFails, Behaviour
  <2> QED
    BY <1>4, <1>5, <1>16, <2>1, <2>2 DEF ConsumerFails
<1>17. CASE StaleRead
  <2>1. ClosingTypes'
    BY <1>2, <1>3, <1>17 DEF StaleRead, ClosingTypes
  <2> QED
    BY <1>4, <1>5, <1>17, <2>1 DEF StaleRead
<1>18. CASE StaleCommit
  <2>1. ClosingTypes'
    BY <1>2, <1>3, <1>18 DEF StaleCommit, ClosingTypes, NoBatch
  <2> QED
    BY <1>4, <1>5, <1>18, <2>1 DEF StaleCommit
<1>19. ASSUME NEW i \in Ids, DlqRead(i)
       PROVE  Types'
  <2>1. ClosingTypes'
    BY <1>2, <1>3, <1>19 DEF DlqRead, ClosingTypes
  <2> QED
    BY <1>4, <1>5, <1>19, <2>1 DEF DlqRead
<1>20. CASE DlqCommit
  <2>1. ClosingTypes'
    BY <1>2, <1>3, <1>20 DEF DlqCommit, ClosingTypes
  <2> QED
    BY <1>4, <1>5, <1>20, <2>1 DEF DlqCommit
<1>21. ASSUME NEW i \in Ids, Purge(i)
       PROVE  Types'
  BY <1>4, <1>5, <1>21 DEF Purge
<1>22. CASE Crash
  <2>1. ClientTypes' /\ HandTypes' /\ ClosingTypes'
    BY <1>22, NotPending DEF Crash, ClientTypes, HandTypes, ClosingTypes, NoBatch
  <2>2. Fault("crash") /\ "crash" \in Behaviour
    BY <1>22 DEF Crash, Behaviour
  <2> QED
    BY <1>4, <1>5, <1>22, <2>1, <2>2 DEF Crash
<1>23. CASE NewAttempt
  BY <1>4, <1>5, <1>23 DEF NewAttempt
<1>24. CASE UNCHANGED vars
  BY <1>4, <1>5, <1>24 DEF vars
<1> QED
  BY <1>6, <1>7, <1>8, <1>9, <1>10, <1>11, <1>12, <1>13, <1>14, <1>15, <1>16,
     <1>17, <1>18, <1>19, <1>20, <1>21, <1>22, <1>23, <1>24 DEF Next
(***************************************************************************)
(* Answers                                                                 *)
(***************************************************************************)

\* What a step does to the recipient of a row.
LEMMA RecipientsKept ==
    ASSUME Types, [Next]_vars, NEW i \in DOMAIN rows
    PROVE  \/ rows'[i].recipient = rows[i].recipient
           \/ rows'[i].recipient = Redacted(i) /\ rows[i].status \in Terminal
<1>1. CASE UNCHANGED rows
  BY <1>1
<1>2. ASSUME NEW c \in Clients, Publish(c)
      PROVE  rows'[i].recipient = rows[i].recipient
  BY <1>1, <1>2, Closed DEF Publish
<1>3. CASE StaleCommit
  BY <1>3, Closed DEF StaleCommit
<1>4. CASE DlqCommit
  BY <1>4, Closed DEF DlqCommit
<1>5. CASE Apply
  BY <1>1, <1>5, AppliedRow
<1>6. ASSUME NEW j \in Ids, Purge(j)
      PROVE  \/ rows'[i].recipient = rows[i].recipient
             \/ rows'[i].recipient = Redacted(i) /\ rows[i].status \in Terminal
  BY <1>6, PurgedRow
<1>7. ASSUME NEW c \in Clients, RequestInsert(c)
      PROVE  rows'[i].recipient = rows[i].recipient
  BY <1>1, <1>7, InsertedRow
<1> QED
  BY <1>1, <1>2, <1>3, <1>4, <1>5, <1>6, <1>7, RowsMoves

\* The steps of the clients.
LEMMA ClientMoves ==
    ASSUME [Next]_vars
    PROVE  \/ UNCHANGED client
           \/ client' = [c \in Clients |-> NoRequest]
           \/ \E c \in Clients :
                 \/ \E k \in Keys, p \in Prints : RequestRead(c, k, p)
                 \/ RequestInsert(c)
                 \/ client' = [client EXCEPT ![c] = NoRequest]
<1>1. ASSUME NEW c \in Clients, Publish(c) \/ PublishFails(c)
      PROVE  client' = [client EXCEPT ![c] = NoRequest]
  BY <1>1 DEF Publish, PublishFails
<1>2. ASSUME NEW m \in requests, Accept(m)
      PROVE  UNCHANGED client
  BY <1>2 DEF Accept
<1>3. ASSUME NEW i \in Ids, Progress(i) \/ Drop(i) \/ DlqRead(i) \/ Purge(i)
      PROVE  UNCHANGED client
  BY <1>3 DEF Progress, Drop, DlqRead, Purge
<1>4. ASSUME NEW n \in Receivable, Receive(n)
      PROVE  UNCHANGED client
  BY <1>4 DEF Receive
<1>5. ASSUME \/ Apply \/ Delete \/ ConsumerFails \/ StaleRead \/ StaleCommit
             \/ DlqCommit \/ NewAttempt
      PROVE  UNCHANGED client
  BY <1>5 DEF Apply, Delete, ConsumerFails, StaleRead, StaleCommit, DlqCommit, NewAttempt
<1>6. CASE Crash
  BY <1>6 DEF Crash
<1>7. CASE Next
  BY <1>1, <1>2, <1>3, <1>4, <1>5, <1>6, <1>7 DEF Next
<1> QED
  BY <1>7 DEF vars

LEMMA AnswersStep ==
    ASSUME Types, Answers, [Next]_vars
    PROVE  Answers'
<1>1. RowsKept /\ Types'
  BY RowsStep, TypesStep
<1>2. ASSUME NEW i \in DOMAIN rows'
      PROVE  rows'[i].recipient \in {rows'[i].print[1], Redacted(i)}
  <2>1. CASE i \in DOMAIN rows
    BY <1>1, <2>1, RecipientsKept DEF Answers, RowsKept, Same
  <2>2. CASE i \notin DOMAIN rows
    BY <1>2, <2>2, NewRows DEF NewRow
  <2> QED
    BY <2>1, <2>2
<1>3. ASSUME NEW d \in Clients, client[d].pc = "PUBLISH"
      PROVE  Fits(rows'[client[d].id], client[d])
  <2>1. client[d].id \in DOMAIN rows
    BY <1>3, TypesParts DEF Parts, ClientTypes, NoRequest
  <2>2. Same(rows'[client[d].id], rows[client[d].id])
    BY <1>1, <2>1 DEF RowsKept
  <2>3. Fits(rows[client[d].id], client[d])
    BY <1>3 DEF Answers, AnswersTheRequest
  <2> QED
    BY <2>2, <2>3 DEF Same, Fits
<1>4. ASSUME NEW c \in Clients, NEW q, client' = [client EXCEPT ![c] = q],
             q.pc = "PUBLISH" => Fits(rows'[q.id], q)
      PROVE  AnswersTheRequest'
  BY <1>3, <1>4 DEF AnswersTheRequest
<1>5. ASSUME NEW c \in Clients, NEW k \in Keys, NEW p \in Prints,
             RequestRead(c, k, p)
      PROVE  AnswersTheRequest'
  <2>1. ASSUME NEW i \in DOMAIN rows, Fits(rows[i], Answered(k, p, attempt, i)),
               client' = [client EXCEPT ![c] = Answered(k, p, attempt, i)]
        PROVE  AnswersTheRequest'
    <3> DEFINE q == Answered(k, p, attempt, i)
    <3>1. Same(rows'[i], rows[i]) /\ q.id = i
      BY <1>1, <2>1 DEF RowsKept, Answered
    <3>2. Fits(rows'[q.id], q) /\ client' = [client EXCEPT ![c] = q]
      BY <2>1, <3>1 DEF Fits, Same
    <3> HIDE DEF q
    <3> QED
      BY <1>4, <3>2
  <2>2. ASSUME NEW i \in Ongoing(p[1]), rows[i].key # k
        PROVE  Fits(rows[i], Answered(k, p, attempt, i))
    <3>1. /\ i \in DOMAIN rows /\ i \in Ids /\ p[1] \in Recipients
          /\ rows[i].recipient = p[1] /\ rows[i].attempt = attempt
      BY RowFacts DEF Ongoing, Target, Prints
    <3>2. rows[i].print[1] = p[1]
      BY <3>1, RedactedIsNoRecipient DEF RedactedIsNoRecipient, Answers
    <3> QED
      BY <2>2, <3>1, <3>2 DEF Fits, Answered
  <2>3. ASSUME NEW i \in Known(k, p)
        PROVE  Fits(rows[i], Answered(k, p, attempt, i)) /\ i \in DOMAIN rows
    BY <2>3 DEF Known, Fits, Answered
  <2>4. ASSUME client' = [client EXCEPT ![c] = [pc |-> "INSERT", key |-> k, print |-> p, attempt |-> attempt]]
        PROVE  AnswersTheRequest'
    BY <1>4, <2>4
  <2> QED
    BY <1>5, <2>1, <2>2, <2>3, <2>4 DEF RequestRead, Ongoing
<1>6. ASSUME NEW c \in Clients, RequestInsert(c)
      PROVE  AnswersTheRequest'
  <2>1. CASE client' = [client EXCEPT ![c] = NoRequest]
    BY <1>4, <2>1 DEF NoRequest
  <2>2. CASE ~UNCHANGED rows
    <3> DEFINE q == [pc |-> "PUBLISH", key |-> client[c].key, print |-> client[c].print,
                     attempt |-> client[c].attempt, id |-> Len(rows) + 1, to |-> client[c].print[1]]
    <3>1. client' = [client EXCEPT ![c] = q] /\ rows'[Len(rows) + 1] = NewRow(c)
      BY <1>6, <2>2, InsertedRow
    <3>2. Fits(rows'[q.id], q)
      BY <3>1 DEF NewRow, Fits
    <3> HIDE DEF q
    <3> QED
      BY <1>4, <3>1, <3>2
  <2>3. CASE UNCHANGED rows
    <3>1. rows \in Seq(Row) /\ Len(rows) \in Nat
      BY RowFacts DEF Types, TypeOK
    <3>2. rows # Append(rows, NewRow(c))
      BY <3>1
    <3> QED
      BY <1>6, <2>1, <2>3, <3>2 DEF RequestInsert
  <2> QED
    BY <2>2, <2>3
<1>7. ASSUME NEW c \in Clients, client' = [client EXCEPT ![c] = NoRequest]
      PROVE  AnswersTheRequest'
  BY <1>4, <1>7 DEF NoRequest
<1>8. ASSUME client' = [c \in Clients |-> NoRequest]
      PROVE  AnswersTheRequest'
  <2>1. ASSUME NEW c \in Clients
        PROVE  client'[c] = NoRequest
    BY <1>8
  <2>2. NoRequest.pc = "IDLE"
    BY DEF NoRequest
  <2> QED
    BY <2>1, <2>2 DEF AnswersTheRequest
<1>9. ASSUME UNCHANGED client
      PROVE  AnswersTheRequest'
  <2>1. ASSUME NEW c \in Clients
        PROVE  client'[c] = client[c]
    BY <1>9
  <2> QED
    BY <1>3, <2>1 DEF AnswersTheRequest
<1> QED
  BY <1>2, <1>5, <1>6, <1>7, <1>8, <1>9, ClientMoves DEF Answers

(***************************************************************************)
(* Reports and rows                                                        *)
(***************************************************************************)

LEMMA BackendFixed ==
    ASSUME [Next]_vars
    PROVE  UNCHANGED backend
<1>1. ASSUME NEW c \in Clients, NEW k \in Keys, NEW p \in Prints,
             RequestRead(c, k, p)
      PROVE  UNCHANGED backend
  BY <1>1 DEF RequestRead
<1>2. ASSUME NEW c \in Clients, RequestInsert(c) \/ Publish(c) \/ PublishFails(c)
      PROVE  UNCHANGED backend
  BY <1>2 DEF RequestInsert, Publish, PublishFails
<1>3. ASSUME NEW m \in requests, Accept(m)
      PROVE  UNCHANGED backend
  BY <1>3 DEF Accept
<1>4. ASSUME NEW i \in Ids, Progress(i) \/ Drop(i) \/ DlqRead(i) \/ Purge(i)
      PROVE  UNCHANGED backend
  BY <1>4 DEF Progress, Drop, DlqRead, Purge
<1>5. ASSUME NEW n \in Receivable, Receive(n)
      PROVE  UNCHANGED backend
  BY <1>5 DEF Receive
<1>6. ASSUME \/ Apply \/ Delete \/ ConsumerFails \/ StaleRead \/ StaleCommit
             \/ DlqCommit \/ Crash \/ NewAttempt
      PROVE  UNCHANGED backend
  BY <1>6 DEF Apply, Delete, ConsumerFails, StaleRead, StaleCommit, DlqCommit, Crash,
     NewAttempt
<1>7. CASE Next
  BY <1>1, <1>2, <1>3, <1>4, <1>5, <1>6, <1>7 DEF Next
<1> QED
  BY <1>7 DEF vars

\* A report is the first of its mail, or the next after the one before it.
Follows(old, s) ==
    \/ old \in {"NONE", "DROPPED"} /\ s = "SENDING"
    \/ old = "SENDING" /\ s \in {"SENT", "FAILED"}
    \/ old \in Reached /\ s \in Reached

\* What a step does to the jobs of the service, the queue of results and the
\* result in hand.
LEMMA MessageMoves ==
    ASSUME Types, [Next]_vars
    PROVE  \/ \E i \in Ids, s \in Status \ {"QUEUED"} :
                 /\ Report(i, s) /\ Follows(job[i], s) /\ UNCHANGED consumer
                 /\ job[i] = "NONE" => requests # {}
           \/ \E i \in Ids : Drop(i)
           \/ \E n \in Receivable : Receive(n)
           \/ Apply
           \/ Delete
           \/ UNCHANGED <<job, results>> /\ consumer' \in {consumer, NoResult, Dead}
<1>1. ASSUME NEW c \in Clients, NEW k \in Keys, NEW p \in Prints,
             RequestRead(c, k, p)
      PROVE  UNCHANGED <<job, results, consumer>>
  BY <1>1 DEF RequestRead
<1>2. ASSUME NEW c \in Clients, RequestInsert(c) \/ Publish(c) \/ PublishFails(c)
      PROVE  UNCHANGED <<job, results, consumer>>
  BY <1>2 DEF RequestInsert, Publish, PublishFails
<1>3. ASSUME NEW m \in requests, Accept(m)
      PROVE  \/ UNCHANGED <<job, results, consumer>>
             \/ \E i \in Ids, s \in Status \ {"QUEUED"} :
                   /\ Report(i, s) /\ Follows(job[i], s) /\ UNCHANGED consumer
                   /\ job[i] = "NONE" => requests # {}
  <2>1. m.id \in Ids /\ "SENDING" \in Status \ {"QUEUED"}
    BY DEF Types, TypeOK, Message, Status, Active
  <2> QED
    BY <1>3, <2>1 DEF Accept, Follows
<1>4. ASSUME NEW i \in Ids, Progress(i)
      PROVE  \E s \in Status \ {"QUEUED"} :
                /\ Report(i, s) /\ Follows(job[i], s) /\ UNCHANGED consumer
                /\ job[i] = "NONE" => requests # {}
  BY <1>4, Progressed DEF Progress, Follows, Reached
<1>5. ASSUME NEW i \in Ids, DlqRead(i) \/ Purge(i)
      PROVE  UNCHANGED <<job, results, consumer>>
  BY <1>5 DEF DlqRead, Purge
<1>6. ASSUME StaleRead \/ StaleCommit \/ DlqCommit \/ NewAttempt
      PROVE  UNCHANGED <<job, results, consumer>>
  BY <1>6 DEF StaleRead, StaleCommit, DlqCommit, NewAttempt
<1>7. ASSUME ConsumerFails \/ Crash
      PROVE  UNCHANGED <<job, results>> /\ consumer' \in {NoResult, Dead}
  BY <1>7 DEF ConsumerFails, Crash, Dead
<1>8. CASE Next
  BY <1>1, <1>2, <1>3, <1>4, <1>5, <1>6, <1>7, <1>8 DEF Next
<1> QED
  BY <1>8 DEF vars

\* How the status of a delivery changes.
LEMMA StatusMoves ==
    ASSUME Types, [Next]_vars, NEW i \in DOMAIN rows
    PROVE  \/ rows'[i].status = rows[i].status
           \/ /\ Apply /\ consumer \in Pending
              /\ i = consumer.result.id /\ rows'[i].status = consumer.result.status
           \/ /\ rows'[i].status = "FAILED"
              /\ backend = "off" \/ i \in monitor \/ operator # NoRequest
<1>1. CASE UNCHANGED rows
  BY <1>1
<1>2. ASSUME NEW c \in Clients, Publish(c), ~UNCHANGED rows
      PROVE  /\ rows'[i].status \in {rows[i].status, "FAILED"}
             /\ backend = "off"
  BY <1>2, Closed DEF Publish
<1>3. ASSUME StaleCommit
      PROVE  \/ rows'[i].status = rows[i].status
             \/ rows'[i].status = "FAILED" /\ i \in monitor
  BY <1>3, Closed DEF StaleCommit
<1>4. ASSUME DlqCommit
      PROVE  \/ rows'[i].status = rows[i].status
             \/ rows'[i].status = "FAILED" /\ operator # NoRequest
  <2>1. operator # NoRequest
    BY <1>4 DEF DlqCommit, NoRequest
  <2> QED
    BY <1>4, <2>1, Closed DEF DlqCommit
<1>5. ASSUME Apply, ~UNCHANGED rows
      PROVE  \/ rows'[i].status = rows[i].status
             \/ /\ consumer \in Pending
                /\ i = consumer.result.id /\ rows'[i].status = consumer.result.status
  <2>1. consumer \in Pending
    BY <1>5, NotPending, TypesParts DEF Parts, HandTypes, Apply
  <2>2. \/ i # consumer.result.id /\ rows'[i] = rows[i]
        \/ /\ i = consumer.result.id
           /\ rows'[i].status \in {rows[i].status, consumer.result.status}
    BY <1>5, AppliedRow
  <2> QED
    BY <2>1, <2>2
<1>6. ASSUME NEW j \in Ids, Purge(j)
      PROVE  rows'[i].status = rows[i].status
  BY <1>6, PurgedRow
<1>7. ASSUME NEW c \in Clients, RequestInsert(c), ~UNCHANGED rows
      PROVE  rows'[i].status = rows[i].status
  BY <1>7, InsertedRow
<1> QED
  BY <1>1, <1>2, <1>3, <1>4, <1>5, <1>6, <1>7, RowsMoves

\* A recorded delivery starts out queued, and nothing was reported of it.
LEMMA NewRowQueued ==
    ASSUME Types, [Next]_vars, NEW i \in DOMAIN rows' \ DOMAIN rows
    PROVE  /\ rows'[i].status = "QUEUED" /\ rows'[i].recipient = rows'[i].print[1]
           /\ UNCHANGED <<job, results, consumer>>
<1>1. PICK c \in Clients : RequestInsert(c) /\ rows'[i] = NewRow(c)
  BY NewRows
<1> QED
  BY <1>1 DEF RequestInsert, NewRow
\* What a step does to the deliveries that are to be closed.
LEMMA ClosingMoves ==
    ASSUME [Next]_vars
    PROVE  /\ monitor' \in {monitor, NoBatch} \/ backend = "redis"
           /\ operator' \in {operator, NoRequest} \/ "operator" \in Env
<1>1. ASSUME NEW c \in Clients, NEW k \in Keys, NEW p \in Prints,
             RequestRead(c, k, p)
      PROVE  UNCHANGED <<monitor, operator>>
  BY <1>1 DEF RequestRead
<1>2. ASSUME NEW c \in Clients, RequestInsert(c) \/ Publish(c) \/ PublishFails(c)
      PROVE  UNCHANGED <<monitor, operator>>
  BY <1>2 DEF RequestInsert, Publish, PublishFails
<1>3. ASSUME NEW m \in requests, Accept(m)
      PROVE  UNCHANGED <<monitor, operator>>
  BY <1>3 DEF Accept
<1>4. ASSUME NEW i \in Ids, Progress(i) \/ Drop(i) \/ Purge(i)
      PROVE  UNCHANGED <<monitor, operator>>
  BY <1>4 DEF Progress, Drop, Purge
<1>5. ASSUME NEW n \in Receivable, Receive(n)
      PROVE  UNCHANGED <<monitor, operator>>
  BY <1>5 DEF Receive
<1>6. ASSUME Apply \/ Delete \/ ConsumerFails
      PROVE  UNCHANGED <<monitor, operator>>
  BY <1>6 DEF Apply, Delete, ConsumerFails
<1>7. ASSUME StaleRead
      PROVE  UNCHANGED operator /\ backend = "redis"
  BY <1>7 DEF StaleRead, ClosesStale
<1>8. ASSUME StaleCommit \/ DlqCommit \/ Crash \/ NewAttempt
      PROVE  monitor' \in {monitor, NoBatch} /\ operator' \in {operator, NoRequest}
  BY <1>8 DEF StaleCommit, DlqCommit, Crash, NewAttempt
<1>9. ASSUME NEW i \in Ids, DlqRead(i)
      PROVE  UNCHANGED monitor /\ "operator" \in Env
  BY <1>9 DEF DlqRead
<1>10. CASE Next
  BY <1>1, <1>2, <1>3, <1>4, <1>5, <1>6, <1>7, <1>8, <1>9, <1>10 DEF Next
<1> QED
  BY <1>10 DEF vars

\* Without a queue nothing is sent to the mail service.
LEMMA RequestMoves ==
    ASSUME [Next]_vars
    PROVE  requests' \subseteq requests \/ backend # "off"
<1>1. ASSUME NEW c \in Clients, NEW k \in Keys, NEW p \in Prints,
             RequestRead(c, k, p)
      PROVE  UNCHANGED requests
  BY <1>1 DEF RequestRead
<1>2. ASSUME NEW c \in Clients, RequestInsert(c) \/ PublishFails(c)
      PROVE  UNCHANGED requests
  BY <1>2 DEF RequestInsert, PublishFails
<1>3. ASSUME NEW c \in Clients, Publish(c)
      PROVE  UNCHANGED requests \/ backend # "off"
  BY <1>3 DEF Publish
<1>4. ASSUME NEW m \in requests, Accept(m)
      PROVE  requests' \subseteq requests
  BY <1>4 DEF Accept
<1>5. ASSUME NEW i \in Ids, Progress(i) \/ Drop(i) \/ DlqRead(i) \/ Purge(i)
      PROVE  requests' \subseteq requests
  BY <1>5 DEF Progress, Drop, DlqRead, Purge
<1>6. ASSUME NEW n \in Receivable, Receive(n)
      PROVE  UNCHANGED requests
  BY <1>6 DEF Receive
<1>7. ASSUME \/ Apply \/ Delete \/ ConsumerFails \/ StaleRead \/ StaleCommit
             \/ DlqCommit \/ Crash \/ NewAttempt
      PROVE  UNCHANGED requests
  BY <1>7 DEF Apply, Delete, ConsumerFails, StaleRead, StaleCommit, DlqCommit, Crash,
     NewAttempt
<1>8. CASE Next
  BY <1>1, <1>2, <1>3, <1>4, <1>5, <1>6, <1>7, <1>8 DEF Next
<1> QED
  BY <1>8 DEF vars

\* What happens to the job of a delivery.
LEMMA JobMoves ==
    ASSUME Types, [Next]_vars, NEW i \in Ids
    PROVE  \/ job'[i] = job[i]
           \/ Follows(job[i], job'[i]) /\ (job[i] = "NONE" => requests # {})
           \/ /\ job[i] \in {"NONE", "SENDING"} /\ job'[i] = "DROPPED"
              /\ job[i] = "NONE" => requests # {}
<1>1. ASSUME NEW j \in Ids, NEW s \in Status \ {"QUEUED"}, Report(j, s)
      PROVE  job'[i] = IF i = j THEN s ELSE job[i]
  <2>1. job \in [Ids -> JobStatus]
    BY DEF Types, TypeOK
  <2> QED
    BY <1>1, <2>1 DEF Report
<1>2. ASSUME NEW j \in Ids, Drop(j)
      PROVE  IF i = j
             THEN /\ job[i] \in {"NONE", "SENDING"} /\ job'[i] = "DROPPED"
                  /\ job[i] = "NONE" => requests # {}
             ELSE job'[i] = job[i]
  BY <1>2 DEF Drop, Types, TypeOK
<1>3. ASSUME NEW n \in Receivable, Receive(n)
      PROVE  job'[i] = job[i]
  BY <1>3 DEF Receive
<1>4. ASSUME Apply \/ Delete
      PROVE  job'[i] = job[i]
  BY <1>4 DEF Apply, Delete
<1> QED
  BY <1>1, <1>2, <1>3, <1>4, MessageMoves

LEMMA IdleStep ==
    ASSUME Types, Idle, [Next]_vars
    PROVE  Idle'
<1> SUFFICES ASSUME backend = "off"
             PROVE  requests' = {} /\ \A i \in Ids : job'[i] = "NONE"
  BY BackendFixed DEF Idle
<1>1. requests = {} /\ \A i \in Ids : job[i] = "NONE"
  BY DEF Idle
<1> QED
  BY <1>1, RequestMoves, JobMoves

LEMMA UntouchedStep ==
    ASSUME Untouched, [Next]_vars, "operator" \notin Env
    PROVE  Untouched'
BY ClosingMoves DEF Untouched
(***************************************************************************)
(* A row says what the service reported, in any order                      *)
(***************************************************************************)

\* What a step puts into the queue of results or takes in hand.
LEMMA ResultMoves ==
    ASSUME Types, [Next]_vars
    PROVE  /\ \A n \in DOMAIN results' :
                 \/ \E m \in DOMAIN results : results'[n] = results[m]
                 \/ results'[n].status # "QUEUED"
                    /\ results'[n].id \in Ids
                    /\ job'[results'[n].id] = results'[n].status
                    /\ Follows(job[results'[n].id], results'[n].status)
           /\ consumer' \in Pending =>
                 \/ consumer \in Pending /\ consumer'.result = consumer.result
                 \/ \E m \in DOMAIN results : consumer'.result = results[m]
<1>1. ASSUME NEW i \in Ids, NEW s \in Status \ {"QUEUED"}, Report(i, s),
             Follows(job[i], s), NEW n \in DOMAIN results'
      PROVE  \/ n \in DOMAIN results /\ results'[n] = results[n]
             \/ /\ n = Len(results) + 1
                /\ results'[n] = [id |-> i, status |-> s] /\ job'[i] = s
  <2>1. /\ job' = [job EXCEPT ![i] = s] /\ job' \in [Ids -> JobStatus]
        /\ DOMAIN results' = 1 .. Len(results) + 1
        /\ \A m \in DOMAIN results : results'[m] = results[m]
        /\ results'[Len(results) + 1] = [id |-> i, status |-> s]
    BY <1>1, Reported
  <2>2. Len(results) \in Nat /\ DOMAIN results = 1 .. Len(results)
    BY ResultFacts
  <2>3. n \in DOMAIN results \/ n = Len(results) + 1
    BY <1>1, <2>1, <2>2
  <2>4. job \in [Ids -> JobStatus]
    BY DEF Types, TypeOK
  <2> QED
    BY <2>1, <2>3, <2>4
<1>2. ASSUME NEW n \in Receivable, Receive(n)
      PROVE  /\ n \in DOMAIN results
             /\ consumer'.result = results[n]
             /\ \A m \in DOMAIN results' :
                   \E k \in DOMAIN results : results'[m] = results[k]
  <2>1. results # <<>> => 1 \in DOMAIN results
    <3>1. results \in Seq(Result)
      BY DEF Types, TypeOK
    <3> QED
      BY <3>1
  <2>2. n \in DOMAIN results
    BY <2>1 DEF Receivable
  <2>3. consumer'.result = results[n]
    BY <1>2 DEF Receive
  <2>4. CASE UNCHANGED results
    BY <2>2, <2>3, <2>4
  <2>5. CASE results' = WithoutAt(results, n)
    BY <2>2, <2>3, <2>5, Shifted
  <2> QED
    BY <1>2, <2>4, <2>5 DEF Receive
<1>3. ASSUME Delete
      PROVE  /\ consumer' = NoResult
             /\ \A m \in DOMAIN results' :
                   \E k \in DOMAIN results : results'[m] = results[k]
  <2>1. consumer.at \in DOMAIN results
    BY <1>3, NotPending, TypesParts DEF Parts, HandTypes, Delete
  <2> QED
    BY <1>3, <2>1, Shifted DEF Delete
<1>4. ASSUME Apply
      PROVE  /\ UNCHANGED results
             /\ consumer' \in Pending =>
                   consumer \in Pending /\ consumer'.result = consumer.result
  <2>1. consumer \in Pending
    BY <1>4, NotPending, TypesParts DEF Parts, HandTypes, Apply
  <2>2. \/ consumer' = [consumer EXCEPT !.pc = "DELETE"]
        \/ consumer' \in {NoResult, Dead}
    BY <1>4 DEF Apply, Dead
  <2>3. [consumer EXCEPT !.pc = "DELETE"].result = consumer.result
    BY <2>1 DEF Pending
  <2> QED
    BY <1>4, <2>1, <2>2, <2>3, NotPending DEF Apply
<1>5. ASSUME NEW i \in Ids, Drop(i)
      PROVE  UNCHANGED <<results, consumer>>
  BY <1>5 DEF Drop
<1>6. CASE \E i \in Ids, s \in Status \ {"QUEUED"} :
              Report(i, s) /\ Follows(job[i], s) /\ UNCHANGED consumer
  <2>1. PICK i \in Ids, s \in Status \ {"QUEUED"} :
           Report(i, s) /\ Follows(job[i], s) /\ UNCHANGED consumer
    BY <1>6
  <2>2. ASSUME NEW n \in DOMAIN results'
        PROVE  \/ \E m \in DOMAIN results : results'[n] = results[m]
               \/ results'[n].status # "QUEUED"
                  /\ results'[n].id \in Ids
                  /\ job'[results'[n].id] = results'[n].status
                  /\ Follows(job[results'[n].id], results'[n].status)
    BY <1>1, <2>1, <2>2
  <2> QED
    BY <2>1, <2>2
<1>7. CASE \E i \in Ids : Drop(i)
  BY <1>5, <1>7
<1>8. CASE \E n \in Receivable : Receive(n)
  BY <1>2, <1>8
<1>9. CASE Apply
  BY <1>4, <1>9
<1>10. CASE Delete
  BY <1>3, <1>10, NotPending
<1>11. CASE UNCHANGED <<job, results>> /\ consumer' \in {consumer, NoResult, Dead}
  BY <1>11, NotPending
<1> QED
  BY <1>6, <1>7, <1>8, <1>9, <1>10, <1>11, MessageMoves

\* What was reported of a delivery stays reported.
LEMMA PastGrows ==
    ASSUME Types, [Next]_vars, NEW i \in Ids
    PROVE  /\ Past(job[i]) \subseteq Past(job'[i])
           /\ job'[i] \in Early => job[i] \in Early
BY JobMoves DEF Past, Follows, Reached, Early

LEMMA ReportsStep ==
    ASSUME Types, Reports, Untouched, [Next]_vars
    PROVE  Reports'
<1> SUFFICES ASSUME backend = "sqs"
             PROVE  Reports'
  BY BackendFixed DEF Reports
<1>1. /\ \A n \in DOMAIN results : results[n].status \in Past(job[results[n].id])
      /\ consumer \in Pending =>
            consumer.result.status \in Past(job[consumer.result.id])
      /\ \A i \in DOMAIN rows :
            /\ rows[i].status \in {"QUEUED"} \cup Past(job[i])
            /\ job[i] \in Early => rows[i].recipient = rows[i].print[1]
      /\ monitor = NoBatch
  BY DEF Reports
<1>2. /\ \A n \in DOMAIN results : results[n].id \in Ids
      /\ consumer \in Pending => consumer.result.id \in Ids
      /\ DOMAIN rows \subseteq Ids
  BY ResultFacts, RowFacts DEF Types, Result
<1>3. \A n \in DOMAIN results : results[n].status \in Past(job'[results[n].id])
  BY <1>1, <1>2, PastGrows
<1>4. ASSUME NEW n \in DOMAIN results'
      PROVE  results'[n].status \in Past(job'[results'[n].id])
  <2>1. CASE \E m \in DOMAIN results : results'[n] = results[m]
    BY <1>3, <2>1
  <2>2. ASSUME NEW old, NEW s, Follows(old, s)
        PROVE  s \in Past(s)
    BY <2>2 DEF Follows, Past, Reached
  <2> QED
    BY <1>4, <2>1, <2>2, ResultMoves
<1>5. ASSUME consumer' \in Pending
      PROVE  consumer'.result.status \in Past(job'[consumer'.result.id])
  BY <1>1, <1>2, <1>3, <1>5, PastGrows, ResultMoves
<1>6. ASSUME NEW i \in DOMAIN rows'
      PROVE  /\ rows'[i].status \in {"QUEUED"} \cup Past(job'[i])
             /\ job'[i] \in Early => rows'[i].recipient = rows'[i].print[1]
  <2>1. CASE i \notin DOMAIN rows
    BY <1>6, <2>1, NewRowQueued
  <2>2. CASE i \in DOMAIN rows
    <3>1. /\ i \in Ids /\ Past(job[i]) \subseteq Past(job'[i])
          /\ job'[i] \in Early => job[i] \in Early
      BY <1>2, <2>2, PastGrows
    <3>2. \/ rows'[i].status = rows[i].status
          \/ /\ consumer \in Pending
             /\ i = consumer.result.id /\ rows'[i].status = consumer.result.status
      BY <1>1, <2>2, StatusMoves DEF Untouched, NoBatch
    <3>3. rows'[i].status \in {"QUEUED"} \cup Past(job'[i])
      BY <1>1, <2>2, <3>1, <3>2
    <3>4. ASSUME job'[i] \in Early
          PROVE  rows'[i].recipient = rows'[i].print[1]
      <4>1. rows[i].status \in {"QUEUED", "SENDING"}
        BY <1>1, <2>2, <3>1, <3>4 DEF Past, Early, Reached
      <4>2. rows[i].status \notin Terminal
        BY <4>1 DEF Terminal
      <4>3. rows'[i].recipient = rows[i].recipient /\ rows'[i].print = rows[i].print
        BY <2>2, <4>2, RecipientsKept, RowsStep DEF RowsKept, Same
      <4> QED
        BY <1>1, <2>2, <3>1, <3>4, <4>3
    <3> QED
      BY <3>3, <3>4
  <2> QED
    BY <2>1, <2>2
<1>7. monitor' = NoBatch
  BY <1>1, ClosingMoves
<1> QED
  BY <1>4, <1>5, <1>6, <1>7 DEF Reports
(***************************************************************************)
(* What was sent stays sent while the queue keeps its order                *)
(***************************************************************************)

\* What is final stays final.
LEMMA FinalKept ==
    ASSUME Types, [Next]_vars, NEW i \in Ids, Final(i)
    PROVE  Final(i)'
<1>1. /\ job[i] \in Reached
      /\ consumer \in Pending => ~Restarts(consumer.result, i)
      /\ \A n \in DOMAIN results : ~Restarts(results[n], i)
  BY DEF Final
<1>2. job'[i] \in Reached
  BY <1>1, JobMoves DEF Follows, Reached
<1>3. ASSUME consumer' \in Pending
      PROVE  ~Restarts(consumer'.result, i)
  BY <1>1, <1>3, ResultMoves DEF Restarts
<1>4. ASSUME NEW n \in DOMAIN results'
      PROVE  ~Restarts(results'[n], i)
  <2>1. CASE \E m \in DOMAIN results : results'[n] = results[m]
    BY <1>1, <2>1 DEF Restarts
  <2>2. CASE results'[n].id = i /\ Follows(job[results'[n].id], results'[n].status)
    BY <1>1, <2>2 DEF Follows, Restarts, Reached
  <2>3. CASE results'[n].id # i
    BY <2>3 DEF Restarts
  <2> QED
    BY <1>4, <2>1, <2>2, <2>3, ResultMoves
<1> QED
  BY <1>2, <1>3, <1>4 DEF Final

\* The queue of results as a step leaves it, when the oldest goes first.
LEMMA QueueMoves ==
    ASSUME Types, [Next]_vars, backend # "sqs", NEW m \in DOMAIN results'
    PROVE  \/ \E k \in DOMAIN results :
                 /\ results'[m] = results[k]
                 /\ \A n \in DOMAIN results' : n > m =>
                       \/ \E l \in DOMAIN results : l > k /\ results'[n] = results[l]
                       \/ /\ results'[n].id \in Ids
                          /\ Follows(job[results'[n].id], results'[n].status)
           \/ /\ results'[m].id \in Ids
              /\ job'[results'[m].id] = results'[m].status
              /\ \A n \in DOMAIN results' : ~(n > m)
<1>1. Len(results) \in Nat /\ DOMAIN results = 1 .. Len(results)
  BY ResultFacts
<1>2. ASSUME UNCHANGED results
      PROVE  \E k \in DOMAIN results :
                /\ results'[m] = results[k]
                /\ \A n \in DOMAIN results' : n > m =>
                      \E l \in DOMAIN results : l > k /\ results'[n] = results[l]
  BY <1>2
<1>3. ASSUME NEW i \in Ids, NEW s \in Status \ {"QUEUED"}, Report(i, s), Follows(job[i], s)
      PROVE  \/ /\ m \in DOMAIN results /\ results'[m] = results[m]
                /\ \A n \in DOMAIN results' : n > m =>
                      \/ n \in DOMAIN results /\ results'[n] = results[n]
                      \/ results'[n].id = i /\ results'[n].status = s
             \/ /\ results'[m].id = i /\ results'[m].status = s /\ job'[i] = s
                /\ \A n \in DOMAIN results' : ~(n > m)
  <2>1. /\ job' = [job EXCEPT ![i] = s]
        /\ DOMAIN results' = 1 .. Len(results) + 1
        /\ \A n \in DOMAIN results : results'[n] = results[n]
        /\ results'[Len(results) + 1] = [id |-> i, status |-> s]
    BY <1>3, Reported
  <2>2. ASSUME NEW n \in DOMAIN results'
        PROVE  \/ n \in DOMAIN results /\ results'[n] = results[n]
               \/ n = Len(results) + 1 /\ results'[n].id = i /\ results'[n].status = s
    <3>1. n \in DOMAIN results \/ n = Len(results) + 1
      BY <1>1, <2>1, <2>2
    <3> QED
      BY <2>1, <3>1
  <2>3. job'[i] = s
    BY <2>1 DEF Types, TypeOK
  <2>4. m = Len(results) + 1 => \A n \in DOMAIN results' : ~(n > m)
    BY <1>1, <2>1
  <2> QED
    BY <2>2, <2>3, <2>4
<1>4. ASSUME NEW k \in DOMAIN results, results' = WithoutAt(results, k)
      PROVE  \E j \in DOMAIN results :
                /\ results'[m] = results[j]
                /\ \A n \in DOMAIN results' : n > m =>
                      \E l \in DOMAIN results : l > j /\ results'[n] = results[l]
  <2> DEFINE At(n) == IF n < k THEN n ELSE n + 1
  <2>1. /\ DOMAIN results' = 1 .. Len(results) - 1
        /\ \A n \in DOMAIN results' :
              At(n) \in DOMAIN results /\ results'[n] = results[At(n)]
    BY <1>4, Shifted
  <2>2. ASSUME NEW n \in DOMAIN results', n > m
        PROVE  At(n) > At(m)
    BY <1>1, <2>1, <2>2
  <2> HIDE DEF At
  <2> QED
    BY <2>1, <2>2
<1>5. ASSUME NEW n \in Receivable, Receive(n)
      PROVE  n \in DOMAIN results /\ results' = WithoutAt(results, n)
  <2>1. results # <<>> => 1 \in DOMAIN results
    <3>1. results \in Seq(Result)
      BY DEF Types, TypeOK
    <3> QED
      BY <3>1
  <2> QED
    BY <1>5, <2>1 DEF Receivable, Receive
<1>6. ASSUME Delete
      PROVE  FALSE
  BY <1>6, NotPending, TypesParts DEF Parts, HandTypes, Delete
<1>7. ASSUME Apply
      PROVE  UNCHANGED results
  BY <1>7 DEF Apply
<1>8. ASSUME NEW i \in Ids, Drop(i)
      PROVE  UNCHANGED results
  BY <1>8 DEF Drop
<1>9. CASE UNCHANGED results
  BY <1>2, <1>9
<1>10. CASE \E i \in Ids, s \in Status \ {"QUEUED"} : Report(i, s) /\ Follows(job[i], s)
  <2>1. PICK i \in Ids, s \in Status \ {"QUEUED"} : Report(i, s) /\ Follows(job[i], s)
    BY <1>10
  <2> QED
    BY <1>3, <2>1
<1>11. CASE \E n \in Receivable : Receive(n)
  BY <1>4, <1>5, <1>11
<1> QED
  BY <1>6, <1>7, <1>8, <1>9, <1>10, <1>11, MessageMoves

\* With a queue that keeps its order the oldest result is taken in hand.
LEMMA OldestTaken ==
    ASSUME Types, backend # "sqs", NEW n \in Receivable, Receive(n)
    PROVE  /\ 1 \in DOMAIN results /\ consumer'.result = results[1]
           /\ UNCHANGED job
           /\ \A m \in DOMAIN results' :
                 \E l \in DOMAIN results : l > 1 /\ results'[m] = results[l]
<1>1. results \in Seq(Result)
  BY DEF Types, TypeOK
<1>2. n = 1 /\ 1 \in DOMAIN results
  BY <1>1 DEF Receivable
<1>3. /\ consumer'.result = results[1] /\ UNCHANGED job
      /\ results' = WithoutAt(results, 1)
  BY <1>2 DEF Receive
<1>4. /\ DOMAIN results' = 1 .. Len(results) - 1
      /\ \A m \in DOMAIN results' :
            LET k == IF m < 1 THEN m ELSE m + 1
            IN  k \in DOMAIN results \ {1} /\ results'[m] = results[k]
  BY <1>2, <1>3, Shifted
<1>5. Len(results) \in Nat
  BY <1>1
<1>6. \A m \in DOMAIN results' :
         m + 1 \in DOMAIN results /\ m + 1 > 1 /\ results'[m] = results[m + 1]
  BY <1>4, <1>5
<1> QED
  BY <1>2, <1>3, <1>6

\* Only a received result comes into the hand of the worker.
LEMMA TakenInHand ==
    ASSUME Types, [Next]_vars, consumer' \in Pending,
           ~(consumer \in Pending /\ consumer'.result = consumer.result)
    PROVE  \E n \in Receivable : Receive(n)
<1>1. UNCHANGED consumer => FALSE
  OBVIOUS
<1>2. consumer' \notin {NoResult, Dead}
  BY NotPending
<1>3. ASSUME Apply
      PROVE  FALSE
  <2>1. consumer \in Pending
    BY <1>3, NotPending, TypesParts DEF Parts, HandTypes, Apply
  <2>2. \/ consumer' = [consumer EXCEPT !.pc = "DELETE"]
        \/ consumer' \in {NoResult, Dead}
    BY <1>3 DEF Apply, Dead
  <2>3. [consumer EXCEPT !.pc = "DELETE"].result = consumer.result
    BY <2>1 DEF Pending
  <2> QED
    BY <1>2, <2>1, <2>2, <2>3
<1>4. ASSUME Delete
      PROVE  FALSE
  BY <1>2, <1>4 DEF Delete
<1>5. ASSUME NEW i \in Ids, Drop(i)
      PROVE  FALSE
  BY <1>1, <1>5 DEF Drop
<1> QED
  BY <1>1, <1>2, <1>3, <1>4, <1>5, MessageMoves

LEMMA InOrderStep ==
    ASSUME Types, InOrder, [Next]_vars
    PROVE  InOrder'
<1> SUFFICES ASSUME backend # "sqs"
             PROVE  InOrder'
  BY BackendFixed DEF InOrder
<1>1. /\ \A i \in DOMAIN rows : rows[i].status \in Reached => Final(i)
      /\ consumer \in Pending /\ consumer.result.status \in Reached =>
            Final(consumer.result.id)
      /\ \A m \in DOMAIN results : results[m].status \in Reached =>
            /\ job[results[m].id] \in Reached
            /\ \A n \in DOMAIN results :
                  n > m => ~Restarts(results[n], results[m].id)
  BY DEF InOrder
<1>2. /\ \A n \in DOMAIN results : results[n].id \in Ids
      /\ consumer \in Pending => consumer.result.id \in Ids
      /\ DOMAIN rows \subseteq Ids
  BY ResultFacts, RowFacts DEF Types, Result
<1>3. ASSUME NEW i \in DOMAIN rows', rows'[i].status \in Reached
      PROVE  Final(i)'
  <2>1. i \in DOMAIN rows
    BY <1>3, NewRowQueued DEF Reached
  <2>2. Final(i)
    BY <1>1, <1>3, <2>1, StatusMoves DEF Reached
  <2> QED
    BY <1>2, <2>1, <2>2, FinalKept
<1>4. ASSUME consumer' \in Pending, consumer'.result.status \in Reached
      PROVE  Final(consumer.result.id)'
  <2>1. CASE consumer \in Pending /\ consumer'.result = consumer.result
    <3>1. PICK i \in Ids : i = consumer.result.id
      BY <1>2, <2>1
    <3>2. Final(i)'
      BY <1>1, <1>4, <2>1, <3>1, FinalKept
    <3> QED
      BY <2>1, <3>1, <3>2
  <2>2. CASE ~(consumer \in Pending /\ consumer'.result = consumer.result)
    <3>1. PICK n \in Receivable : Receive(n)
      BY <1>4, <2>2, TakenInHand
    <3>2. PICK i \in Ids : i = results[1].id
      BY <1>2, <3>1, OldestTaken
    <3>3. /\ 1 \in DOMAIN results /\ consumer'.result = results[1]
          /\ UNCHANGED job
          /\ \A m \in DOMAIN results' :
                \E l \in DOMAIN results : l > 1 /\ results'[m] = results[l]
      BY <3>1, OldestTaken
    <3>4. job'[i] \in Reached
      BY <1>1, <1>4, <3>2, <3>3
    <3>5. ~Restarts(consumer'.result, i)
      BY <1>4 DEF Restarts, Reached
    <3>6. \A m \in DOMAIN results' : ~Restarts(results'[m], i)
      BY <1>1, <1>4, <3>2, <3>3
    <3>7. Final(i)'
      BY <3>4, <3>5, <3>6 DEF Final
    <3> QED
      BY <3>2, <3>3, <3>7
  <2> QED
    BY <2>1, <2>2
<1>5. ASSUME NEW m \in DOMAIN results', results'[m].status \in Reached
      PROVE  /\ job'[results'[m].id] \in Reached
             /\ \A n \in DOMAIN results' :
                   n > m => ~Restarts(results'[n], results'[m].id)
  <2>1. ASSUME NEW k \in DOMAIN results, results'[m] = results[k],
               \A n \in DOMAIN results' : n > m =>
                  \/ \E l \in DOMAIN results : l > k /\ results'[n] = results[l]
                  \/ /\ results'[n].id \in Ids
                     /\ Follows(job[results'[n].id], results'[n].status)
        PROVE  /\ job'[results'[m].id] \in Reached
               /\ \A n \in DOMAIN results' :
                     n > m => ~Restarts(results'[n], results'[m].id)
    <3>1. job[results[k].id] \in Reached /\ results[k].id \in Ids
      BY <1>1, <1>2, <1>5, <2>1
    <3>2. job'[results[k].id] \in Reached
      BY <3>1, JobMoves DEF Follows, Reached
    <3>3. ASSUME NEW n \in DOMAIN results', n > m
          PROVE  ~Restarts(results'[n], results[k].id)
      <4>1. CASE \E l \in DOMAIN results : l > k /\ results'[n] = results[l]
        BY <1>1, <1>5, <2>1, <4>1
      <4>2. CASE Follows(job[results'[n].id], results'[n].status)
        BY <3>1, <4>2 DEF Follows, Restarts, Reached
      <4> QED
        BY <2>1, <3>3, <4>1, <4>2
    <3> QED
      BY <2>1, <3>2, <3>3
  <2>2. ASSUME job'[results'[m].id] = results'[m].status,
               \A n \in DOMAIN results' : ~(n > m)
        PROVE  /\ job'[results'[m].id] \in Reached
               /\ \A n \in DOMAIN results' :
                     n > m => ~Restarts(results'[n], results'[m].id)
    BY <1>5, <2>2
  <2> QED
    BY <2>1, <2>2, QueueMoves
<1> QED
  BY <1>3, <1>4, <1>5 DEF InOrder
LEMMA TypesInit == Init => Types
<1> SUFFICES ASSUME Init PROVE Types
  OBVIOUS
<1>1. rows = <<>> /\ rows \in Seq(Row) /\ Len(rows) = 0 /\ DOMAIN rows = {}
  BY DEF Init
<1>2. results = <<>> /\ results \in Seq(Result) /\ DOMAIN results = {}
  BY DEF Init
<1>3. Valid(rows)
  BY <1>1 DEF Valid
<1>4. job \in [Ids -> JobStatus] /\ \A i \in Ids : job[i] = "NONE"
  BY DEF Init, JobStatus
<1>5. consumer = NoResult /\ consumer.pc = "IDLE" /\ consumer \notin Pending
  BY DEF Init, NoResult, Pending
<1>6. TypeOK
  BY <1>1, <1>2, <1>3, <1>4, <1>5, Bounds DEF Init, TypeOK, Bounds, NoBatch, Attempts
<1> QED
  BY <1>1, <1>2, <1>4, <1>5, <1>6 DEF Types, Init
LEMMA EmailInit == Init => EmailInv /\ Reports /\ Idle /\ Untouched
<1> SUFFICES ASSUME Init PROVE EmailInv /\ Reports /\ Idle /\ Untouched
  OBVIOUS
<1>1. Types
  BY TypesInit
<1>2. /\ rows = <<>> /\ DOMAIN rows = {} /\ results = <<>> /\ DOMAIN results = {}
      /\ consumer \notin Pending /\ monitor = NoBatch /\ requests = {}
      /\ operator = NoRequest
      /\ \A i \in Ids : job[i] = "NONE"
      /\ \A c \in Clients : client[c].pc = "IDLE"
  BY NotPending DEF Init, NoRequest
<1> QED
  BY <1>1, <1>2 DEF EmailInv, Answers, AnswersTheRequest, InOrder, Reports, Idle, Untouched

(***************************************************************************)
(* Theorems                                                                *)
(***************************************************************************)

\* The invariant of the deliveries, with any backend and everything that the
\* surroundings may do.
THEOREM EmailInvariant == Spec => []EmailInv
<1>1. Init => EmailInv
  BY EmailInit
<1>2. EmailInv /\ [Next]_vars => EmailInv'
  BY TypesStep, AnswersStep, InOrderStep DEF EmailInv
<1> QED
  BY <1>1, <1>2, PTL DEF Spec

\* The rows, messages and tasks keep their types; no key is used twice, at
\* most one delivery to a target is under way, and delivered_at is there
\* exactly when the status is DELIVERED.
THEOREM EmailTypeCorrect == Spec => []TypeOK
<1>1. EmailInv => TypeOK
  BY DEF EmailInv, Types
<1> QED
  BY <1>1, EmailInvariant, PTL

\* Whoever asks, again or for the first time, is answered with a delivery to
\* the recipient asked for: under the same key one with the same content, under
\* another key one of the same attempt, although recipients are redacted and the
\* stage is executed again meanwhile.
THEOREM RequestsAreAnswered == Spec => []AnswersTheRequest
<1>1. EmailInv => AnswersTheRequest
  BY DEF EmailInv, Answers
<1> QED
  BY <1>1, EmailInvariant, PTL

\* With Redis, whose list keeps its order, a mail that is known to be sent
\* never shows as under way again: across crashes, dropped and repeated
\* messages, the monitor and the operator.
THEOREM SentStaysSent == Spec /\ backend # "sqs" => SentIsFinal
<1>1. backend # "sqs" /\ [Next]_vars => (backend # "sqs")'
  BY BackendFixed
<1>2. EmailInv /\ backend # "sqs" /\ [Next]_vars =>
        [\A i \in DOMAIN rows :
            rows[i].status \in Reached => rows'[i].status \notin Active]_vars
  <2> SUFFICES ASSUME EmailInv, backend # "sqs", [Next]_vars,
                      NEW i \in DOMAIN rows, rows[i].status \in Reached
               PROVE  rows'[i].status \notin Active
    OBVIOUS
  <2>1. Final(i)
    BY DEF EmailInv, InOrder
  <2>2. CASE rows'[i].status \in {rows[i].status, "FAILED"}
    BY <2>2 DEF Reached, Active
  <2>3. CASE /\ consumer \in Pending /\ i = consumer.result.id
             /\ rows'[i].status = consumer.result.status
    <3>1. consumer.result.status \in Status \ {"QUEUED"}
      BY <2>3 DEF Pending, Result
    <3>2. consumer.result.status # "SENDING"
      BY <2>1, <2>3 DEF Final, Restarts
    <3> QED
      BY <2>3, <3>1, <3>2 DEF Active
  <2> QED
    BY <2>2, <2>3, StatusMoves DEF EmailInv
<1> QED
  BY <1>1, <1>2, EmailInvariant, PTL DEF Spec, SentIsFinal

\* The invariant without the monitor, which only Redis has, and the operator.
THEOREM ReportInvariant ==
    ASSUME "operator" \notin Env
    PROVE  Spec => []ReportInv
<1>1. Init => ReportInv
  BY EmailInit DEF ReportInv
<1>2. ReportInv /\ [Next]_vars => ReportInv'
  <2> SUFFICES ASSUME ReportInv, [Next]_vars
               PROVE  ReportInv'
    OBVIOUS
  <2>1. EmailInv'
    BY TypesStep, AnswersStep, InOrderStep DEF ReportInv, EmailInv
  <2>2. Reports' /\ Idle' /\ Untouched'
    BY ReportsStep, IdleStep, UntouchedStep DEF ReportInv, EmailInv
  <2> QED
    BY <2>1, <2>2 DEF ReportInv
<1> QED
  BY <1>1, <1>2, PTL DEF Spec

\* The lookup of what is under way and the partial unique index keep a second
\* mail to a target from being sent while the first is on its way, in whatever
\* order SQS brings the results back.
THEOREM MailsAreSentOneAtATime ==
    ASSUME "operator" \notin Env
    PROVE  Spec /\ backend # "redis" => []OneMailAtATime
<1>1. backend # "redis" /\ [Next]_vars => (backend # "redis")'
  BY BackendFixed
<1>2. ReportInv /\ backend # "redis" => OneMailAtATime
  <2> SUFFICES ASSUME ReportInv, backend # "redis",
                      NEW i \in DOMAIN rows, NEW j \in DOMAIN rows,
                      i # j, rows[i].attempt = rows[j].attempt,
                      rows[i].print[1] = rows[j].print[1],
                      InFlight(i), InFlight(j)
               PROVE  FALSE
    BY DEF OneMailAtATime
  <2>1. i \in Ids /\ j \in Ids /\ backend \in {"off", "sqs"}
    BY RowFacts, KnownBackends DEF ReportInv, EmailInv, Types, TypeOK, KnownBackends
  <2>2. backend = "sqs"
    BY <2>1 DEF ReportInv, Idle, InFlight
  <2>3. ASSUME NEW k \in DOMAIN rows, InFlight(k)
        PROVE  rows[k].status \in Active /\ rows[k].recipient = rows[k].print[1]
    <3>1. job[k] \in Early
      BY <2>3 DEF InFlight, Early
    <3> QED
      BY <2>2, <3>1 DEF ReportInv, Reports, Past, Early, Reached, Active
  <2>4. Valid(rows)
    BY DEF ReportInv, EmailInv, Types, TypeOK
  <2> QED
    BY <2>3, <2>4 DEF Valid, Target
<1> QED
  BY <1>1, <1>2, ReportInvariant, PTL DEF Spec

\* With SQS, and without a queue, what is shown as FAILED was not sent.
THEOREM FailedWasNotSent ==
    ASSUME "operator" \notin Env
    PROVE  Spec /\ backend # "redis" => []FailedMeansUnsent
<1>1. backend # "redis" /\ [Next]_vars => (backend # "redis")'
  BY BackendFixed
<1>2. ReportInv /\ backend # "redis" => FailedMeansUnsent
  <2> SUFFICES ASSUME ReportInv, backend # "redis",
                      NEW i \in DOMAIN rows, rows[i].status = "FAILED"
               PROVE  job[i] \notin Reached
    BY DEF FailedMeansUnsent
  <2>1. i \in Ids /\ backend \in {"off", "sqs"}
    BY RowFacts, KnownBackends DEF ReportInv, EmailInv, Types, TypeOK, KnownBackends
  <2>2. CASE backend = "off"
    BY <2>1, <2>2 DEF ReportInv, Idle, Reached
  <2>3. CASE backend = "sqs"
    BY <2>3 DEF ReportInv, Reports, Past, Reached
  <2> QED
    BY <2>1, <2>2, <2>3
<1> QED
  BY <1>1, <1>2, ReportInvariant, PTL DEF Spec
=============================================================================
