------------------------ MODULE StatusReporterProofs ------------------------
(***************************************************************************)
(* The safety properties of StatusReporter, for any number of reports, any *)
(* size of the queue and any faults.  The invariant ReporterInv says how   *)
(* far a report has come (made, scheduled, queued, taken, in a row), who   *)
(* may still write, and where a connection of the browser stands.          *)
(***************************************************************************)
EXTENDS StatusReporter, SequenceTheorems, WellFoundedInduction, TLAPS

\* What TypeOK does not say of the variables.
MoreTypes == channel \in Seq(Ids) /\ faults \in Nat

\* A writer is at an event of its own kind: only the consumer writes reports,
\* and only the one it has taken.
Hands ==
    /\ \A w \in Writers : writer[w] # 0 =>
          /\ writer[w] \in DOMAIN events
          /\ w # "consumer" => events[writer[w]].report = 0
    /\ writer["consumer"] # 0 => Writing /\ events[writer["consumer"]].report = consumer

\* A report comes after every report that was inserted before, whatever came
\* of that one.
Behindhand(r) == \A i \in DOMAIN events : events[i].report < r

Ascending(s) == \A m, n \in DOMAIN s : m < n => s[m] < s[n]

\* The line of the reports: rows, the report being written, queue, calls.
InLine ==
    /\ \A i, j \in DOMAIN events :
          (i < j /\ events[i].report # 0 /\ events[j].report # 0)
             => events[i].report < events[j].report
    /\ \A i \in DOMAIN events : events[i].report <= thread
    /\ Writing =>
          /\ consumer <= thread
          /\ \A i \in DOMAIN events : events[i].report <= consumer
          /\ writer["consumer"] = 0 => Behindhand(consumer)
          /\ \A n \in DOMAIN queue : consumer < queue[n]
          /\ \A n \in DOMAIN calls : consumer < calls[n]
    /\ Ascending(queue) /\ Ascending(calls)
    /\ \A n \in DOMAIN queue : Behindhand(queue[n])
    /\ \A n \in DOMAIN calls : Behindhand(calls[n]) /\ calls[n] <= thread
    /\ \A m \in DOMAIN queue, n \in DOMAIN calls : queue[m] < calls[n]
    /\ \A n \in DOMAIN queue : queue[n] # Stop => queue[n] <= thread

\* The handler stops the consumer after the last report was queued.
Ending ==
    /\ calls # <<>> => handler = "running"
    /\ \A n \in DOMAIN queue : queue[n] = Stop => handler \in {"waiting", "returned"}
    /\ consumer = Stop => handler \in {"waiting", "returned"}
    /\ handler = "returned" => consumer = Stop

In(s, r) == \E n \in DOMAIN s : s[n] = r

\* Without a fault no report is unaccounted for, and the handler goes on only
\* when none is on its way.
Accounted ==
    faults = 0 =>
       /\ \A r \in 1 .. thread :
             \/ r \in dropped \/ In(calls, r) \/ In(queue, r) \/ r = consumer
             \/ \E i \in Written : events[i].report = r
       /\ handler # "failing"
       /\ handler \in {"stopping", "waiting", "returned"} =>
             ~Writing /\ \A n \in DOMAIN queue : queue[n] = Stop

\* What the browser was sent lies behind what it will be sent.
Watching ==
    /\ \A n \in DOMAIN channel : channel[n] \in Committed
    /\ stream.out \subseteq Committed
    /\ stream.boundary \in Committed \cup {0} /\ client.last \in Committed \cup {0}
    /\ stream.pc \in {"off", "subscribed", "bounded"} => stream.out = {}
    /\ stream.pc \in {"bounded", "loaded", "ready"} => client.last <= stream.boundary
    /\ stream.pc \in {"loaded", "ready"} /\ client.last # 0 =>
          \A i \in stream.out : client.last < i /\ i <= stream.boundary
    /\ stream.pc = "live" =>
          client.last = stream.cursor /\ \A i \in stream.out : stream.cursor < i
    /\ \A i \in Ids : client.frames[i] <= 1 /\ (client.frames[i] # 0 => i <= client.last)

\* What the browser got without a number: logs that the cursor covers, or will
\* cover when the replay is over, and the loose ones.
Replayed ==
    /\ client.loose \subseteq client.logs /\ client.logs \subseteq Logs
    /\ stream.pc \in {"loaded", "ready"} /\ client.last = 0 => stream.out \subseteq Logs
    /\ \A i \in Ids : client.replays[i] # 0 =>
          /\ i \in client.logs
          /\ i \notin client.loose =>
                /\ client.replays[i] = 1 /\ client.frames[i] = 0
                /\ IF client.last # 0 THEN i <= client.last
                   ELSE /\ stream.pc = "ready"
                        /\ i <= stream.boundary /\ i \notin stream.out

Types == TypeOK /\ MoreTypes

ReporterInv ==
    Types /\ Hands /\ InLine /\ Ending /\ Accounted /\ Watching /\ Replayed

(***************************************************************************)
(* The least and the greatest number of a set                              *)
(***************************************************************************)

LEMMA Least ==
    ASSUME NEW S, S \subseteq Nat, S # {}
    PROVE  \E m \in S : \A k \in S : m <= k
<1> DEFINE R == OpToRel(<, Nat)
<1>1. PICK m \in S : \A k \in S : <<k, m>> \notin R
  <2>1. IsWellFoundedOn(R, Nat)
    BY NatLessThanWellFounded
  <2> HIDE DEF R
  <2> QED
    BY <2>1, WFMin
<1>2. \A k \in S : ~(k < m)
  BY <1>1 DEF OpToRel
<1> QED
  BY <1>2

LEMMA Greatest ==
    ASSUME NEW n \in Nat, NEW S, S \subseteq 0 .. n, S # {}
    PROVE  \E m \in S : \A k \in S : k <= m
<1> DEFINE T == {n - x : x \in S}
<1>1. T \subseteq Nat /\ T # {}
  <2>1. \A x \in S : x \in 0 .. n /\ n - x \in Nat
    OBVIOUS
  <2>2. PICK x \in S : TRUE
    OBVIOUS
  <2>3. n - x \in T
    BY <2>2
  <2> QED
    BY <2>1, <2>3
<1>2. PICK t \in T : \A u \in T : t <= u
  <2> HIDE DEF T
  <2> QED
    BY <1>1, Least
<1>3. PICK m \in S : t = n - m
  BY <1>2
<1>4. ASSUME NEW k \in S
      PROVE  k <= m
  <2>1. n - k \in T
    OBVIOUS
  <2>2. n - m <= n - k
    BY <1>2, <1>3, <2>1
  <2>3. m \in 0 .. n /\ k \in 0 .. n
    OBVIOUS
  <2> QED
    BY <2>2, <2>3
<1> QED
  BY <1>4

LEMMA OldestIsLeast ==
    ASSUME NEW S, S \subseteq Ids, S # {}
    PROVE  Oldest(S) \in S /\ \A j \in S : Oldest(S) <= j
<1>1. S \subseteq Nat
  BY DEF Ids
<1>2. \E m \in S : \A k \in S : m <= k
  BY <1>1, Least
<1> QED
  BY <1>2 DEF Oldest

LEMMA NewestIsGreatest ==
    ASSUME NEW S, S \subseteq 0 .. MaxEvents
    PROVE  /\ S = {} => Newest(S) = 0
           /\ S # {} => Newest(S) \in S
           /\ \A j \in S : j <= Newest(S)
<1>1. CASE S = {}
  BY <1>1 DEF Newest
<1>2. CASE S # {}
  <2>1. \E m \in S : \A k \in S : k <= m
    BY <1>2, StreamBounds, Greatest
  <2> QED
    BY <1>2, <2>1 DEF Newest
<1> QED
  BY <1>1, <1>2

(***************************************************************************)
(* What a writer does to the rows                                          *)
(***************************************************************************)

EventTypes ==
    /\ events \in Seq(Event) /\ Len(events) <= MaxEvents
    /\ writer \in [Writers -> 0 .. MaxEvents]
    /\ applied \in 0 .. MaxEvents

LEMMA EventRows ==
    ASSUME EventTypes
    PROVE  /\ Len(events) \in Nat /\ DOMAIN events = 1 .. Len(events)
           /\ DOMAIN events \subseteq Ids
           /\ \A i \in DOMAIN events : events[i] \in Event /\ events[i].report \in Nat
           /\ Committed \subseteq Ids
<1>1. /\ Len(events) \in Nat /\ DOMAIN events = 1 .. Len(events)
      /\ \A i \in 1 .. Len(events) : events[i] \in Event
  BY ElementOfSeq, LenProperties DEF EventTypes
<1> QED
  BY <1>1, StreamBounds DEF EventTypes, Ids, Event, Committed

\* An event with a new id.
Inserted(w, k, r) ==
    /\ writer[w] = 0
    /\ writer' \in [Writers -> 0 .. MaxEvents] /\ writer'[w] = Len(events) + 1
    /\ \A v \in Writers \ {w} : writer'[v] = writer[v]
    /\ events' \in Seq(Event)
    /\ Len(events') = Len(events) + 1 /\ Len(events') <= MaxEvents
    /\ DOMAIN events' = 1 .. Len(events) + 1
    /\ \A i \in DOMAIN events : events'[i] = events[i]
    /\ events'[Len(events) + 1].report = r
    /\ events'[Len(events) + 1].state = "open"
    /\ UNCHANGED <<applied, channel, stream, client>>

LEMMA Inserts ==
    ASSUME EventTypes, NEW w \in Writers, NEW k \in Kind, NEW r \in Nat, Insert(w, k, r)
    PROVE  Inserted(w, k, r)
<1> DEFINE e == [kind |-> k, state |-> "open", report |-> r, late |-> FALSE]
<1>1. e \in Event /\ e.report = r /\ e.state = "open"
  BY DEF Event, Kind
<1>2. events' = Append(events, e) /\ events \in Seq(Event) /\ Len(events) < MaxEvents
  BY DEF Insert, EventTypes
<1> HIDE DEF e
<1>3. /\ Len(events) \in Nat /\ DOMAIN events = 1 .. Len(events)
  BY EventRows
<1>4. /\ events' \in Seq(Event) /\ Len(events') = Len(events) + 1
      /\ DOMAIN events' = 1 .. Len(events) + 1
      /\ \A i \in 1 .. Len(events) : events'[i] = events[i]
      /\ events'[Len(events) + 1] = e
  <2>1. Append(events, e) \in Seq(Event) /\ Len(Append(events, e)) = Len(events) + 1
    BY <1>1, <1>2
  <2> QED
    BY <1>1, <1>2, <1>3, <2>1, LenProperties
<1>5. Len(events) + 1 \in 0 .. MaxEvents
  BY <1>2, <1>3, StreamBounds
<1>6. /\ writer[w] = 0 /\ writer' = [writer EXCEPT ![w] = Len(events) + 1]
      /\ UNCHANGED <<applied, channel, stream, client>>
  BY DEF Insert
<1>7. /\ writer' \in [Writers -> 0 .. MaxEvents] /\ writer'[w] = Len(events) + 1
      /\ \A v \in Writers \ {w} : writer'[v] = writer[v]
  BY <1>5, <1>6 DEF EventTypes
<1> QED
  BY <1>1, <1>3, <1>4, <1>5, <1>6, <1>7 DEF Inserted

\* The event of writer w is committed or aborted.
Settled(w) ==
    /\ writer[w] # 0 /\ events[writer[w]].state = "open"
    /\ writer' \in [Writers -> 0 .. MaxEvents]
    /\ \A v \in Writers : writer'[v] \in {0, writer[v]}
    /\ \A v \in Writers \ {w} : writer'[v] = writer[v]
    /\ w = "consumer" => writer'[w] = 0
    /\ events' \in Seq(Event) /\ Len(events') = Len(events)
    /\ DOMAIN events' = DOMAIN events
    /\ \A i \in DOMAIN events :
          /\ events'[i].report = events[i].report /\ events'[i].kind = events[i].kind
          /\ i # writer[w] => events'[i].state = events[i].state
    /\ applied' \in 0 .. MaxEvents
    /\ UNCHANGED <<channel, stream, client>>

LEMMA Settles ==
    ASSUME EventTypes, NEW w \in Writers, writer[w] # 0 => writer[w] \in DOMAIN events,
           Commit(w) \/ Abort(w)
    PROVE  Settled(w) /\ (Commit(w) => events'[writer[w]].state = "committed")
<1> DEFINE i == writer[w]
<1>1. i \in 1 .. Len(events) /\ events[i] \in Event /\ events \in Seq(Event)
      /\ Len(events) \in Nat /\ DOMAIN events = 1 .. Len(events)
      /\ i # 0 /\ events[i].state = "open" /\ i \in 0 .. MaxEvents
  BY EventRows DEF Commit, Abort, EventTypes
<1>2. \E e \in Event :
         /\ e.report = events[i].report /\ e.kind = events[i].kind /\ events' = [events EXCEPT ![i] = e]
         /\ Commit(w) => e.state = "committed"
  <2>1. CASE Commit(w)
    <3> DEFINE e == [events[i] EXCEPT !.state = "committed", !.late = \E j \in Committed : j > i]
    <3>1. /\ e \in Event /\ e.report = events[i].report /\ e.kind = events[i].kind
          /\ e.state = "committed"
      BY <1>1 DEF Event
    <3>2. events' = [events EXCEPT ![i] = e]
      BY <2>1, <1>1 DEF Commit
    <3> QED
      BY <3>1, <3>2
  <2>2. CASE Abort(w)
    <3> DEFINE e == [events[i] EXCEPT !.state = "aborted"]
    <3>1. e \in Event /\ e.report = events[i].report /\ e.kind = events[i].kind
      BY <1>1 DEF Event
    <3>2. events' = [events EXCEPT ![i] = e]
      BY <2>2, <1>1 DEF Abort
    <3>3. ~Commit(w)
      <4>1. events'[i].state = "aborted"
        BY <2>2, <1>1 DEF Abort, Event
      <4>2. ASSUME Commit(w)
            PROVE  events'[i].state = "committed"
        BY <4>2, <1>1 DEF Commit, Event
      <4> QED
        BY <4>1, <4>2
    <3> QED
      BY <3>1, <3>2, <3>3
  <2> QED
    BY <2>1, <2>2
<1>3. PICK e \in Event :
         /\ e.report = events[i].report /\ e.kind = events[i].kind /\ events' = [events EXCEPT ![i] = e]
         /\ Commit(w) => e.state = "committed"
  BY <1>2
<1>4. /\ events' \in Seq(Event) /\ Len(events') = Len(events)
      /\ \A j \in 1 .. Len(events) : events'[j] = IF j = i THEN e ELSE events[j]
  BY <1>1, <1>3, ExceptSeq
<1>5. DOMAIN events' = DOMAIN events
  BY <1>1, <1>4, LenProperties
<1>6. /\ writer' \in {writer, [writer EXCEPT ![w] = 0]}
      /\ w = "consumer" => writer' = [writer EXCEPT ![w] = 0]
      /\ applied' \in {applied, i} /\ UNCHANGED <<channel, stream, client>>
  BY Sessions DEF Commit, Abort
<1>7. /\ writer' \in [Writers -> 0 .. MaxEvents]
      /\ \A v \in Writers : writer'[v] \in {0, writer[v]}
      /\ \A v \in Writers \ {w} : writer'[v] = writer[v]
      /\ w = "consumer" => writer'[w] = 0
  BY <1>6, StreamBounds DEF EventTypes
<1> QED
  BY <1>1, <1>3, <1>4, <1>5, <1>6, <1>7 DEF Settled, EventTypes

(***************************************************************************)
(* The steps, by what they do to the line of the reports                   *)
(***************************************************************************)

LEMMA LineTypes ==
    ASSUME Types
    PROVE  /\ EventTypes
           /\ thread \in Nat /\ consumer \in Nat /\ Stop \in Nat /\ thread < Stop
           /\ Reports \in Nat /\ Stop = Reports + 1
           /\ DOMAIN queue = 1 .. Len(queue) /\ Len(queue) \in Nat
           /\ \A n \in DOMAIN queue : queue[n] \in 1 .. Stop
           /\ DOMAIN calls = 1 .. Len(calls) /\ Len(calls) \in Nat
           /\ \A n \in DOMAIN calls : calls[n] \in 1 .. Reports
           /\ (queue = <<>> <=> DOMAIN queue = {}) /\ (calls = <<>> <=> DOMAIN calls = {})
<1>1. /\ queue \in Seq(1 .. Stop) /\ calls \in Seq(1 .. Reports) /\ Reports \in Nat
      /\ thread \in 0 .. Reports /\ consumer \in 0 .. Stop /\ EventTypes
  BY ReporterBounds DEF Types, TypeOK, EventTypes
<1>2. /\ DOMAIN queue = 1 .. Len(queue) /\ Len(queue) \in Nat
      /\ \A n \in DOMAIN queue : queue[n] \in 1 .. Stop
  BY <1>1, LenProperties, ElementOfSeq
<1>3. /\ DOMAIN calls = 1 .. Len(calls) /\ Len(calls) \in Nat
      /\ \A n \in DOMAIN calls : calls[n] \in 1 .. Reports
  BY <1>1, LenProperties, ElementOfSeq
<1>4. (queue = <<>> <=> Len(queue) = 0) /\ (calls = <<>> <=> Len(calls) = 0)
  BY <1>1, EmptySeq
<1>5. (queue = <<>> <=> DOMAIN queue = {}) /\ (calls = <<>> <=> DOMAIN calls = {})
  <2>1. ASSUME NEW n \in Nat
        PROVE  1 .. n = {} <=> n = 0
    <3>1. n # 0 => 1 \in 1 .. n
      OBVIOUS
    <3> QED
      BY <3>1
  <2> QED
    BY <1>2, <1>3, <1>4, <2>1
<1>6. Stop = Reports + 1
  BY DEF Stop
<1>7. thread \in Nat /\ consumer \in Nat /\ Stop \in Nat /\ thread < Stop
  BY <1>1, <1>6
<1> QED
  BY <1>1, <1>2, <1>3, <1>5, <1>6, <1>7

\* The head of a sequence, and what is left.
LEMMA Popped ==
    ASSUME NEW S, NEW s \in Seq(S), s # <<>>
    PROVE  /\ Len(s) \in Nat \ {0} /\ DOMAIN s = 1 .. Len(s)
           /\ Head(s) = s[1] /\ 1 \in DOMAIN s
           /\ Tail(s) \in Seq(S) /\ Len(Tail(s)) = Len(s) - 1
           /\ DOMAIN Tail(s) = 1 .. Len(s) - 1
           /\ \A n \in 1 .. Len(s) - 1 : n + 1 \in DOMAIN s /\ Tail(s)[n] = s[n + 1]
<1>1. Len(s) \in Nat \ {0} /\ DOMAIN s = 1 .. Len(s)
  BY EmptySeq, LenProperties
<1>2. /\ Tail(s) \in Seq(S) /\ Len(Tail(s)) = Len(s) - 1
      /\ \A n \in 1 .. Len(Tail(s)) : Tail(s)[n] = s[n + 1]
  BY HeadTailProperties
<1>3. DOMAIN Tail(s) = 1 .. Len(s) - 1
  BY <1>2, LenProperties
<1>4. Head(s) = s[1]
  BY <1>1
<1> QED
  BY <1>1, <1>2, <1>3, <1>4

LEMMA Pushed ==
    ASSUME NEW S, NEW s \in Seq(S), NEW e \in S
    PROVE  /\ Len(s) \in Nat /\ DOMAIN s = 1 .. Len(s)
           /\ Append(s, e) \in Seq(S) /\ Len(Append(s, e)) = Len(s) + 1
           /\ DOMAIN Append(s, e) = 1 .. Len(s) + 1
           /\ \A n \in 1 .. Len(s) : Append(s, e)[n] = s[n]
           /\ Append(s, e)[Len(s) + 1] = e
<1>1. Append(s, e) \in Seq(S) /\ Len(Append(s, e)) = Len(s) + 1
  OBVIOUS
<1>2. Len(s) \in Nat /\ DOMAIN s = 1 .. Len(s)
  BY LenProperties
<1>3. DOMAIN Append(s, e) = 1 .. Len(s) + 1
  BY <1>1, LenProperties
<1>4. \A n \in 1 .. Len(s) : Append(s, e)[n] = s[n]
  OBVIOUS
<1>5. Append(s, e)[Len(s) + 1] = e
  OBVIOUS
<1> QED
  BY <1>1, <1>2, <1>3, <1>4, <1>5

(***************************************************************************)
(* The connection of the browser                                           *)
(***************************************************************************)

StreamTypes == stream \in Stream /\ client \in Client /\ channel \in Seq(Ids)

\* A frame keeps the browser's type; what it changes, with its number and
\* without.
LEMMA FrameReceived ==
    ASSUME client \in Client, NEW i \in Ids, NEW number \in BOOLEAN
    PROVE  /\ Received(i, number) \in Client
           /\ Received(i, number).last = IF number THEN i ELSE client.last
           /\ Received(i, number).frames =
                 [client.frames EXCEPT ![i] = IF number THEN @ + 1 ELSE @]
<1>1. i \in 0 .. MaxEvents
  BY StreamBounds DEF Ids
<1>2. /\ client.last \in 0 .. MaxEvents /\ client.status \in 0 .. MaxEvents
      /\ client.logs \in SUBSET Ids /\ client.frames \in [Ids -> Nat]
      /\ client.replays \in [Ids -> Nat] /\ client.loose \in SUBSET Ids
  BY DEF Client
<1> DEFINE last == IF number THEN i ELSE client.last
           status == IF events[i].kind = "status" THEN i ELSE client.status
           logs == IF events[i].kind = "log" THEN client.logs \cup {i} ELSE client.logs
           frames == [client.frames EXCEPT ![i] = IF number THEN @ + 1 ELSE @]
           replays == [client.replays EXCEPT ![i] = IF number THEN @ ELSE @ + 1]
           loose == IF number \/ i <= stream.boundary THEN client.loose
                    ELSE client.loose \cup {i}
<1>3. frames \in [Ids -> Nat] /\ replays \in [Ids -> Nat]
  BY <1>2
<1>4. Received(i, number) =
         [client EXCEPT !.last = last, !.status = status, !.logs = logs, !.frames = frames,
                        !.replays = replays, !.loose = loose]
  BY DEF Received, Client
<1>5. /\ last \in 0 .. MaxEvents /\ status \in 0 .. MaxEvents
      /\ logs \in SUBSET Ids /\ loose \in SUBSET Ids
  BY <1>1, <1>2
<1> HIDE DEF last, status, logs, frames, replays, loose
<1>6. /\ Received(i, number) \in Client
      /\ Received(i, number).last = last /\ Received(i, number).frames = frames
  BY <1>3, <1>4, <1>5 DEF Client
<1> QED
  BY <1>6 DEF last, frames

LEMMA NumberedReceived ==
    ASSUME client \in Client, NEW i \in Ids
    PROVE  /\ Received(i, TRUE).last = i /\ Received(i, TRUE).loose = client.loose
           /\ Received(i, TRUE).replays = client.replays
           /\ Received(i, TRUE).frames = [client.frames EXCEPT ![i] = @ + 1]
           /\ Received(i, TRUE).logs =
                 IF events[i].kind = "log" THEN client.logs \cup {i} ELSE client.logs
<1>1. client.replays \in [Ids -> Nat] /\ client.frames \in [Ids -> Nat]
  BY DEF Client
<1>2. [client.replays EXCEPT ![i] = client.replays[i]] = client.replays
  BY <1>1
<1> DEFINE r == Received(i, TRUE)
<1>3. /\ r.last = i /\ r.loose = client.loose
      /\ r.replays = [client.replays EXCEPT ![i] = client.replays[i]]
      /\ r.frames = [client.frames EXCEPT ![i] = @ + 1]
      /\ r.logs = IF events[i].kind = "log" THEN client.logs \cup {i} ELSE client.logs
  BY DEF Received, Client
<1> QED
  BY <1>2, <1>3

LEMMA ReplayReceived ==
    ASSUME client \in Client, NEW i \in Ids
    PROVE  /\ Received(i, FALSE).last = client.last
           /\ Received(i, FALSE).loose =
                 IF i <= stream.boundary THEN client.loose ELSE client.loose \cup {i}
           /\ Received(i, FALSE).replays = [client.replays EXCEPT ![i] = @ + 1]
           /\ Received(i, FALSE).frames = client.frames
           /\ Received(i, FALSE).logs =
                 IF events[i].kind = "log" THEN client.logs \cup {i} ELSE client.logs
<1>1. client.replays \in [Ids -> Nat] /\ client.frames \in [Ids -> Nat]
  BY DEF Client
<1>2. [client.frames EXCEPT ![i] = client.frames[i]] = client.frames
  BY <1>1
<1> DEFINE r == Received(i, FALSE)
<1>3. /\ r.last = client.last
      /\ r.loose = IF i <= stream.boundary THEN client.loose ELSE client.loose \cup {i}
      /\ r.frames = [client.frames EXCEPT ![i] = client.frames[i]]
      /\ r.replays = [client.replays EXCEPT ![i] = @ + 1]
      /\ r.logs = IF events[i].kind = "log" THEN client.logs \cup {i} ELSE client.logs
  BY DEF Received, Client
<1> QED
  BY <1>2, <1>3

LEMMA StreamRecord ==
    ASSUME stream \in Stream
    PROVE  /\ stream.pc \in {"off", "subscribed", "bounded", "loaded", "ready", "live"}
           /\ stream.boundary \in 0 .. MaxEvents /\ stream.cursor \in 0 .. MaxEvents
           /\ stream.out \in SUBSET Ids /\ stream.snapshot \in 0 .. MaxEvents
           /\ stream.opened \in Nat
BY DEF Stream

\* After a broken connection the browser knows what it knew, or nothing.
StaysOrIsNew ==
    /\ client' \in Client
    /\ \/ /\ client'.last = client.last /\ client'.logs = client.logs
          /\ client'.frames = client.frames /\ client'.replays = client.replays
          /\ client'.loose = IF client.last = 0 THEN client.logs ELSE client.loose
       \/ /\ client'.last = 0 /\ client'.logs = {} /\ client'.loose = {}
          /\ \A i \in Ids : client'.frames[i] = 0 /\ client'.replays[i] = 0

LEMMA Disconnects ==
    ASSUME client \in Client, Disconnect
    PROVE  StaysOrIsNew /\ channel' = <<>> /\ stream' = [Closed EXCEPT !.opened = stream.opened]
<1> DEFINE loose == IF client.last = 0 THEN client.logs ELSE client.loose
<1>1. /\ client' \in {[client EXCEPT !.loose = loose], NewClient} /\ channel' = <<>>
      /\ stream' = [Closed EXCEPT !.opened = stream.opened]
  BY DEF Disconnect, Client
<1>2. loose \in SUBSET Ids
  BY DEF Client
<1> HIDE DEF loose
<1>3. CASE client' = [client EXCEPT !.loose = loose]
  BY <1>1, <1>2, <1>3 DEF StaysOrIsNew, Client, loose
<1>4. CASE client' = NewClient
  BY <1>1, <1>4, StreamBounds DEF StaysOrIsNew, NewClient, Client
<1> QED
  BY <1>1, <1>3, <1>4

LEMMA ConnectionStep ==
    ASSUME EventTypes, StreamTypes, Watching, StreamStep
    PROVE  StreamTypes' /\ Watching' /\ UNCHANGED <<events, writer, applied>>
<1>0. UNCHANGED <<events, writer, applied>> /\ Committed' = Committed
  BY DEF StreamStep, Subscribe, ReadBoundary, ReadHistory, ReadSnapshot, Begin, Poll, Send,
     Disconnect, Committed
<1>1. /\ Committed \subseteq Ids /\ 0 \in 0 .. MaxEvents /\ Ids \subseteq 0 .. MaxEvents
      /\ applied \in 0 .. MaxEvents
  BY EventRows, StreamBounds DEF Ids, EventTypes
<1>2. /\ stream.pc \in {"off", "subscribed", "bounded", "loaded", "ready", "live"}
      /\ stream.boundary \in 0 .. MaxEvents /\ stream.cursor \in 0 .. MaxEvents
      /\ stream.out \in SUBSET Ids /\ stream.snapshot \in 0 .. MaxEvents
      /\ stream.opened \in Nat
  BY StreamRecord DEF StreamTypes
<1>3. /\ client.last \in 0 .. MaxEvents /\ client.status \in 0 .. MaxEvents
      /\ client.logs \in SUBSET Ids /\ client.frames \in [Ids -> Nat]
  BY DEF StreamTypes, Client
<1>4. <<>> \in Seq(Ids) /\ DOMAIN <<>> = {}
  BY EmptySeq, LenProperties
<1>5. CASE Subscribe
  <2>1. /\ stream.pc = "off" /\ channel' = <<>> /\ client' = client
        /\ stream' = [Closed EXCEPT !.pc = "subscribed", !.opened = stream.opened + 1]
    BY <1>5 DEF Subscribe
  <2>2. /\ stream' \in Stream /\ stream'.pc = "subscribed" /\ stream'.out = {}
        /\ stream'.boundary = 0
    <3>1. stream' = [pc |-> "subscribed", boundary |-> 0, cursor |-> 0, out |-> {},
                     snapshot |-> 0, opened |-> stream.opened + 1]
      BY <2>1 DEF Closed
    <3>2. stream.opened + 1 \in Nat
      BY <1>2
    <3> QED
      BY <1>1, <3>1, <3>2 DEF Stream
  <2> QED
    BY <1>0, <1>3, <1>4, <2>1, <2>2 DEF StreamTypes, Watching
<1>6. CASE ReadBoundary
  <2> DEFINE b == Newest(Committed)
  <2>1. b \in Committed \cup {0} /\ b \in 0 .. MaxEvents /\ \A j \in Committed : j <= b
    BY <1>1, NewestIsGreatest
  <2>2. /\ stream.pc = "subscribed" /\ UNCHANGED <<channel, client>>
        /\ stream' = [stream EXCEPT !.pc = "bounded", !.boundary = b]
    BY <1>6 DEF ReadBoundary
  <2> HIDE DEF b
  <2>3. /\ stream' \in Stream /\ stream'.pc = "bounded" /\ stream'.out = stream.out
        /\ stream'.boundary = b
    BY <2>1, <2>2 DEF Stream, StreamTypes
  <2>4. client.last <= b
    BY <1>3, <2>1 DEF Watching
  <2> QED
    BY <1>0, <1>3, <2>1, <2>2, <2>3, <2>4 DEF StreamTypes, Watching
<1>7. CASE ReadHistory
  <2>1. /\ stream.pc = "bounded" /\ UNCHANGED <<channel, client>>
        /\ stream' = [stream EXCEPT !.pc = "loaded", !.out = Missed]
    BY <1>7 DEF ReadHistory
  <2>2. /\ Missed \subseteq Committed
        /\ client.last # 0 => \A i \in Missed : client.last < i /\ i <= stream.boundary
    BY DEF Missed, Logs
  <2>3. /\ stream' \in Stream /\ stream'.pc = "loaded" /\ stream'.out = Missed
        /\ stream'.boundary = stream.boundary
    BY <1>1, <2>1, <2>2 DEF Stream, StreamTypes
  <2> QED
    BY <1>0, <2>1, <2>2, <2>3 DEF StreamTypes, Watching
<1>8. CASE ReadSnapshot
  <2>1. /\ stream.pc = "loaded" /\ UNCHANGED <<channel, client>>
        /\ stream' = [stream EXCEPT !.pc = "ready", !.snapshot = applied]
    BY <1>8 DEF ReadSnapshot
  <2>2. /\ stream' \in Stream /\ stream'.pc = "ready" /\ stream'.out = stream.out
        /\ stream'.boundary = stream.boundary
    BY <1>1, <2>1 DEF Stream, StreamTypes
  <2> QED
    BY <1>0, <2>1, <2>2 DEF StreamTypes, Watching
<1>9. CASE Begin /\ stream.out # {}
  <2>1. PICK i \in stream.out : i = Oldest(stream.out) /\ \A j \in stream.out : i <= j
    BY <1>2, <1>9, OldestIsLeast
  <2>2. PICK number \in BOOLEAN : number = (client.last # 0)
    OBVIOUS
  <2>3. /\ stream.pc = "ready" /\ channel' = channel /\ client' = Received(i, number)
        /\ stream' = [stream EXCEPT !.out = @ \ {i}]
    BY <1>9, <2>1, <2>2 DEF Begin
  <2>4. /\ stream' \in Stream /\ stream'.pc = "ready" /\ stream'.out = stream.out \ {i}
        /\ stream'.boundary = stream.boundary
    BY <1>2, <2>3 DEF Stream, StreamTypes
  <2>5. i \in Ids /\ i \in Committed
    BY <1>2, <2>1 DEF Watching
  <2>6. /\ client' \in Client /\ client'.last = IF number THEN i ELSE client.last
        /\ client'.frames = [client.frames EXCEPT ![i] = IF number THEN @ + 1 ELSE @]
    BY <2>3, <2>5, FrameReceived DEF StreamTypes
  <2>7. CASE number
    <3>0. /\ client.last # 0 /\ client.last \in Nat /\ i \in Nat
          /\ \A j \in stream.out : j \in Nat /\ client.last < j /\ j <= stream.boundary
      <4>1. client.last # 0
        BY <2>2, <2>7
      <4>2. client.last \in Nat /\ i \in Nat /\ \A j \in stream.out : j \in Nat
        BY <1>2, <1>3, <2>5 DEF Ids
      <4>3. \A j \in stream.out : client.last < j /\ j <= stream.boundary
        BY <2>3, <4>1 DEF Watching
      <4> QED
        BY <4>1, <4>2, <4>3
    <3>1. client.last < i /\ i <= stream.boundary /\ client.frames[i] = 0
      <4>1. client.frames[i] \in Nat /\ (client.frames[i] # 0 => i <= client.last)
        BY <1>3, <2>5 DEF Watching
      <4> QED
        BY <2>1, <3>0, <4>1
    <3>2. \A k \in Ids : client'.frames[k] <= 1 /\ (client'.frames[k] # 0 => k <= i)
      BY <1>3, <2>5, <2>6, <2>7, <3>1 DEF Watching, Ids
    <3>3. \A j \in stream.out \ {i} : i < j /\ j <= stream.boundary
      BY <2>1, <3>0
    <3> QED
      BY <1>0, <2>3, <2>4, <2>5, <2>6, <2>7, <3>1, <3>2, <3>3 DEF StreamTypes, Watching
  <2>8. CASE ~number
    <3>1. client'.last = client.last /\ client'.frames = client.frames
      BY <1>3, <2>5, <2>6, <2>8
    <3> QED
      BY <1>0, <2>2, <2>3, <2>4, <2>6, <2>8, <3>1 DEF StreamTypes, Watching
  <2> QED
    BY <2>7, <2>8
<1>10. CASE Begin /\ stream.out = {}
  <2>1. /\ stream.pc = "ready" /\ channel' = channel
        /\ client' = [client EXCEPT !.status = stream.snapshot,
                 !.last = IF stream.boundary # 0 THEN stream.boundary ELSE @]
        /\ stream' = [stream EXCEPT !.pc = "live", !.cursor = stream.boundary]
    BY <1>10 DEF Begin
  <2>2. /\ stream' \in Stream /\ stream'.pc = "live" /\ stream'.out = {}
        /\ stream'.boundary = stream.boundary /\ stream'.cursor = stream.boundary
    BY <1>2, <1>10, <2>1 DEF Stream, StreamTypes
  <2>3. /\ client' \in Client /\ client'.frames = client.frames
        /\ client'.last = IF stream.boundary # 0 THEN stream.boundary ELSE client.last
    BY <1>2, <1>3, <2>1 DEF Client, StreamTypes
  <2>4. client.last <= stream.boundary
    BY <2>1 DEF Watching
  <2>5. client'.last = stream.boundary
    BY <1>2, <1>3, <2>3, <2>4
  <2>6. \A k \in Ids : client.frames[k] # 0 => k <= stream.boundary
    BY <1>2, <1>3, <2>4 DEF Watching, Ids
  <2> QED
    BY <1>0, <2>1, <2>2, <2>3, <2>5, <2>6 DEF StreamTypes, Watching
<1>11. CASE Poll
  <2> DEFINE message == IF channel = <<>> THEN {} ELSE {Head(channel)}
             out == Behind \cup {i \in message : i > Newest(Behind \cup {stream.cursor})}
  <2>1. /\ stream.pc = "live" /\ stream' = [stream EXCEPT !.out = out] /\ client' = client
        /\ channel' = IF channel = <<>> THEN channel ELSE Tail(channel)
    BY <1>11 DEF Poll
  <2>2. message \subseteq Committed
    BY Popped DEF StreamTypes, Watching
  <2>3. Behind \subseteq Committed /\ \A i \in Behind : stream.cursor < i
    BY <1>1, <1>2 DEF Behind, Ids
  <2>4. stream.cursor <= Newest(Behind \cup {stream.cursor}) /\ Newest(Behind \cup {stream.cursor}) \in 0 .. MaxEvents
    <3>1. Behind \cup {stream.cursor} \subseteq 0 .. MaxEvents
      BY <1>1, <1>2, <2>3
    <3> QED
      BY <3>1, NewestIsGreatest
  <2>5. out \subseteq Committed /\ \A i \in out : stream.cursor < i
    <3> HIDE DEF message
    <3>1. \A i \in message : i \in 0 .. MaxEvents
      BY <1>1, <2>2
    <3> QED
      BY <1>2, <2>2, <2>3, <2>4, <3>1
  <2>6. /\ channel' \in Seq(Ids) /\ \A n \in DOMAIN channel' : channel'[n] \in Committed
    BY <2>1, Popped DEF StreamTypes, Watching
  <2> HIDE DEF out
  <2>7. /\ stream' \in Stream /\ stream'.pc = "live" /\ stream'.out = out
        /\ stream'.boundary = stream.boundary /\ stream'.cursor = stream.cursor
    BY <1>1, <2>1, <2>5 DEF Stream, StreamTypes
  <2> QED
    BY <1>0, <2>1, <2>5, <2>6, <2>7 DEF StreamTypes, Watching
<1>12. CASE Send
  <2>1. PICK i \in stream.out : i = Oldest(stream.out) /\ \A j \in stream.out : i <= j
    BY <1>2, <1>12, OldestIsLeast DEF Send
  <2>2. /\ stream.pc = "live" /\ channel' = channel /\ client' = Received(i, TRUE)
        /\ stream' = [stream EXCEPT !.out = @ \ {i}, !.cursor = i]
    BY <1>12, <2>1 DEF Send
  <2>3. i \in Ids /\ i \in Committed /\ i \in 0 .. MaxEvents
    BY <1>1, <1>2, <2>1 DEF Watching
  <2>4. /\ stream' \in Stream /\ stream'.pc = "live" /\ stream'.out = stream.out \ {i}
        /\ stream'.boundary = stream.boundary /\ stream'.cursor = i
    BY <1>2, <2>2, <2>3 DEF Stream, StreamTypes
  <2>5. /\ client' \in Client /\ client'.last = i
        /\ client'.frames = [client.frames EXCEPT ![i] = @ + 1]
    BY <2>2, <2>3, FrameReceived DEF StreamTypes
  <2>6. client.last < i /\ client.frames[i] = 0
    BY <1>3, <2>1, <2>2, <2>3 DEF Watching, Ids
  <2>7. \A k \in Ids : client'.frames[k] <= 1 /\ (client'.frames[k] # 0 => k <= i)
    BY <1>3, <2>3, <2>5, <2>6 DEF Watching, Ids
  <2>8. \A j \in stream.out \ {i} : i < j
    BY <1>2, <2>1, <2>3 DEF Ids
  <2> QED
    BY <1>0, <2>2, <2>3, <2>4, <2>5, <2>7, <2>8 DEF StreamTypes, Watching
<1>13. CASE Disconnect
  <2>1. /\ channel' = <<>> /\ stream' = [Closed EXCEPT !.opened = stream.opened]
        /\ StaysOrIsNew
    BY <1>3, <1>13, Disconnects DEF StreamTypes
  <2>2. stream' \in Stream /\ stream'.pc = "off" /\ stream'.out = {} /\ stream'.boundary = 0
    BY <1>1, <1>2, <2>1 DEF Stream, Closed
  <2>4. client' \in Client /\ client'.last \in Committed \cup {0}
    BY <2>1 DEF StaysOrIsNew, Watching
  <2>5. \A i \in Ids : client'.frames[i] <= 1 /\ (client'.frames[i] # 0 => i <= client'.last)
    BY <2>1 DEF StaysOrIsNew, Watching
  <2> QED
    BY <1>0, <1>4, <2>1, <2>2, <2>4, <2>5 DEF StreamTypes, Watching
<1> QED
  BY <1>0, <1>5, <1>6, <1>7, <1>8, <1>9, <1>10, <1>11, <1>12, <1>13 DEF StreamStep

\* A log that was replayed and is not loose is not sent again.
LEMMA ReplayStep ==
    ASSUME EventTypes, StreamTypes, Watching, Replayed, StreamStep
    PROVE  Replayed'
<1>0. UNCHANGED events /\ Logs' = Logs /\ Logs \subseteq Committed /\ Committed \subseteq Ids
  BY EventRows DEF StreamStep, Subscribe, ReadBoundary, ReadHistory, ReadSnapshot, Begin, Poll,
     Send, Disconnect, Committed, Logs
<1>1. /\ stream.pc \in {"off", "subscribed", "bounded", "loaded", "ready", "live"}
      /\ stream.boundary \in Nat /\ stream.cursor \in Nat /\ stream.out \in SUBSET Ids
      /\ client \in Client /\ client.last \in Nat
      /\ client.logs \in SUBSET Ids /\ client.loose \in SUBSET Ids
      /\ client.frames \in [Ids -> Nat] /\ client.replays \in [Ids -> Nat]
      /\ Ids \subseteq Nat \ {0}
  BY StreamRecord DEF StreamTypes, Client, Ids
\* Nothing arrives and the connection does not leave the replay.
<1>2. ASSUME client' = client, stream.pc # "ready",
             stream'.pc \in {"loaded", "ready"} /\ client.last = 0 => stream'.out \subseteq Logs
      PROVE  Replayed'
  <2>1. \A i \in Ids : client.replays[i] # 0 /\ i \notin client.loose => client.last # 0
    BY <1>2 DEF Replayed
  <2> QED
    BY <1>0, <1>2, <2>1 DEF Replayed
<1>3. CASE Subscribe \/ ReadBoundary
  <2>1. client' = client /\ stream.pc # "ready" /\ stream'.pc \in {"subscribed", "bounded"}
    BY <1>3 DEF Subscribe, ReadBoundary, Closed, StreamTypes, Stream
  <2> QED
    BY <1>2, <2>1
<1>4. CASE ReadHistory
  <2>1. client' = client /\ stream.pc = "bounded" /\ stream'.out = Missed
    BY <1>4 DEF ReadHistory, StreamTypes, Stream
  <2>2. client.last = 0 => Missed \subseteq Logs
    BY DEF Missed
  <2> QED
    BY <1>2, <2>1, <2>2
<1>5. CASE ReadSnapshot
  <2>1. client' = client /\ stream.pc = "loaded" /\ stream'.out = stream.out
    BY <1>5 DEF ReadSnapshot, StreamTypes, Stream
  <2> QED
    BY <1>2, <2>1 DEF Replayed
<1>6. CASE Poll
  <2>1. client' = client /\ stream.pc = "live" /\ stream'.pc = "live"
    BY <1>6 DEF Poll, StreamTypes, Stream
  <2> QED
    BY <1>2, <2>1
\* A frame with a number: the browser has not got it yet, or it is loose.
<1>7. ASSUME NEW i \in Ids, i \in Committed, client' = Received(i, TRUE), client.last < i,
             client.last = 0 => stream.pc # "ready"
      PROVE  Replayed'
  <2>1. /\ client'.last = i /\ client'.loose = client.loose /\ client'.replays = client.replays
        /\ client'.frames = [client.frames EXCEPT ![i] = @ + 1]
        /\ client'.logs = IF events[i].kind = "log" THEN client.logs \cup {i} ELSE client.logs
    BY <1>1, <1>7, NumberedReceived
  <2>2. client'.loose \subseteq client'.logs /\ client'.logs \subseteq Logs
    BY <1>7, <2>1 DEF Replayed, Logs
  <2>3. ASSUME NEW j \in Ids, client.replays[j] # 0, j \notin client.loose
        PROVE  client'.replays[j] = 1 /\ client'.frames[j] = 0 /\ j <= i
    <3>1. client.last # 0 /\ j <= client.last /\ client.replays[j] = 1 /\ client.frames[j] = 0
      BY <1>7, <2>3 DEF Replayed
    <3>2. j # i
      BY <1>1, <1>7, <3>1
    <3>3. client'.frames[j] = client.frames[j] /\ client'.replays[j] = client.replays[j]
      BY <1>1, <2>1, <3>2
    <3>4. j <= i
      <4>1. j \in Nat /\ i \in Nat /\ client.last \in Nat
        BY <1>1
      <4> QED
        BY <1>7, <3>1, <4>1
    <3> QED
      BY <3>1, <3>3, <3>4
  <2>4. \A j \in Ids : client.replays[j] # 0 => j \in client'.logs
    BY <2>1 DEF Replayed
  <2>5. i # 0
    BY <1>1
  <2> QED
    BY <1>0, <2>1, <2>2, <2>3, <2>4, <2>5 DEF Replayed
<1>8. CASE Begin /\ stream.out # {}
  <2>1. PICK i \in stream.out : i = Oldest(stream.out)
    BY <1>1, <1>8, OldestIsLeast
  <2>2. /\ stream.pc = "ready" /\ stream'.pc = "ready" /\ stream'.out = stream.out \ {i}
        /\ stream'.boundary = stream.boundary /\ client' = Received(i, client.last # 0)
        /\ i \in Ids
    BY <1>1, <1>8, <2>1 DEF Begin, StreamTypes, Stream
  <2>3. CASE client.last # 0
    <3>1. i \in Committed /\ client.last < i /\ client' = Received(i, TRUE)
      BY <2>1, <2>2, <2>3 DEF Watching
    <3> QED
      BY <1>7, <2>2, <2>3, <3>1
  <2>4. CASE client.last = 0
    <3>1. i \in Logs /\ events[i].kind = "log" /\ client' = Received(i, FALSE)
      BY <2>1, <2>2, <2>4 DEF Replayed, Logs
    <3>2. /\ client'.last = 0 /\ client'.logs = client.logs \cup {i}
          /\ client'.frames = client.frames
          /\ client'.replays = [client.replays EXCEPT ![i] = @ + 1]
          /\ client'.loose = IF i <= stream.boundary THEN client.loose ELSE client.loose \cup {i}
      BY <1>1, <2>2, <2>4, <3>1, ReplayReceived
    <3>3. /\ client'.loose \subseteq client'.logs /\ client'.logs \subseteq Logs
          /\ stream'.out \subseteq Logs
      BY <2>2, <2>4, <3>1, <3>2 DEF Replayed
    <3>4. ASSUME NEW j \in Ids, j # i, client'.replays[j] # 0
          PROVE  /\ j \in client'.logs
                 /\ j \notin client'.loose =>
                       /\ client'.replays[j] = 1 /\ client'.frames[j] = 0
                       /\ j <= stream.boundary /\ j \notin stream'.out
      <4>1. client.replays[j] # 0 /\ client'.replays[j] = client.replays[j]
        BY <1>1, <3>2, <3>4
      <4> QED
        BY <2>2, <2>4, <3>2, <4>1 DEF Replayed
    <3>5. i \in client.loose \/ client.replays[i] = 0
      BY <2>1, <2>2, <2>4 DEF Replayed
    <3>6. client.frames[i] = 0
      BY <1>1, <2>2, <2>4 DEF Watching
    <3>7. /\ i \in client'.logs
          /\ i \notin client'.loose =>
                /\ client'.replays[i] = 1 /\ client'.frames[i] = 0
                /\ i <= stream.boundary /\ i \notin stream'.out
      BY <1>1, <2>2, <3>2, <3>5, <3>6
    <3> QED
      BY <1>0, <2>2, <3>2, <3>3, <3>4, <3>7 DEF Replayed
  <2> QED
    BY <2>3, <2>4
<1>9. CASE Begin /\ stream.out = {}
  <2>1. /\ client'.logs = client.logs /\ client'.loose = client.loose
        /\ client'.frames = client.frames /\ client'.replays = client.replays
        /\ client'.last = IF stream.boundary # 0 THEN stream.boundary ELSE client.last
        /\ stream'.pc = "live"
    BY <1>1, <1>9 DEF Begin, StreamTypes, Client, Stream
  <2>2. client.last <= stream.boundary
    BY <1>9 DEF Begin, Watching
  <2>3. ASSUME NEW j \in Ids, client.replays[j] # 0, j \notin client.loose
        PROVE  client'.last # 0 /\ j <= client'.last
    <3>1. j \in Nat /\ j # 0
      BY <1>1
    <3>2. j <= stream.boundary
      BY <1>1, <2>2, <2>3, <3>1 DEF Replayed
    <3> QED
      BY <1>1, <2>1, <3>1, <3>2
  <2> QED
    BY <1>0, <2>1, <2>3 DEF Replayed
<1>10. CASE Send
  <2>1. PICK i \in stream.out : i = Oldest(stream.out)
    BY <1>1, <1>10, OldestIsLeast DEF Send
  <2>2. stream.pc = "live" /\ client' = Received(i, TRUE) /\ i \in Ids
    BY <1>1, <1>10, <2>1 DEF Send
  <2>3. i \in Committed /\ client.last < i
    BY <2>1, <2>2 DEF Watching
  <2> QED
    BY <1>7, <2>2, <2>3
<1>11. CASE Disconnect
  <2>1. StaysOrIsNew /\ stream'.pc = "off"
    BY <1>1, <1>11, Disconnects DEF Closed
  <2> QED
    BY <1>0, <2>1 DEF StaysOrIsNew, Replayed
<1> QED
  BY <1>3, <1>4, <1>5, <1>6, <1>8, <1>9, <1>10, <1>11 DEF StreamStep

\* Whatever is committed, and whatever is published of it, leaves the
\* connection as it is.
LEMMA ConnectionKept ==
    ASSUME EventTypes, StreamTypes, Watching, Replayed,
           Committed \subseteq Committed', Logs \subseteq Logs', UNCHANGED <<stream, client>>,
           channel' = channel \/ \E i \in Committed : channel' = Append(channel, i)
    PROVE  StreamTypes' /\ Watching' /\ Replayed'
<1>1. Committed \subseteq Ids
  BY EventRows
<1>2. channel' \in Seq(Ids) /\ \A n \in DOMAIN channel' : channel'[n] \in Committed
  <2>1. CASE channel' = channel
    BY <2>1 DEF StreamTypes, Watching
  <2>2. ASSUME NEW i \in Committed, channel' = Append(channel, i)
        PROVE  channel' \in Seq(Ids) /\ \A n \in DOMAIN channel' : channel'[n] \in Committed
    <3>1. i \in Ids /\ channel \in Seq(Ids)
      BY <1>1 DEF StreamTypes
    <3>2. /\ Len(channel) \in Nat /\ DOMAIN channel = 1 .. Len(channel)
          /\ channel' \in Seq(Ids) /\ DOMAIN channel' = 1 .. Len(channel) + 1
          /\ \A n \in 1 .. Len(channel) : channel'[n] = channel[n]
          /\ channel'[Len(channel) + 1] = i
      BY <2>2, <3>1, Pushed
    <3>3. \A n \in 1 .. Len(channel) : channel[n] \in Committed
      BY <3>2 DEF Watching
    <3>4. \A n \in 1 .. Len(channel) + 1 : n \in 1 .. Len(channel) \/ n = Len(channel) + 1
      BY <3>2
    <3> QED
      BY <3>2, <3>3, <3>4
  <2> QED
    BY <2>1, <2>2
<1> QED
  BY <1>2 DEF StreamTypes, Watching, Replayed

(***************************************************************************)
(* What every step does to the rows                                        *)
(***************************************************************************)

LEMMA StepKinds ==
    ASSUME Next
    PROVE  \/ UNCHANGED streamVars
           \/ WriteBegins
           \/ \E w \in Writers \ {"consumer"}, k \in Kind : Insert(w, k, 0)
           \/ \E w \in Writers : Commit(w) \/ Abort(w)
           \/ Publish("api")
           \/ StreamStep
<1>1. CASE Runtime
  BY <1>1, Sessions DEF Runtime, Report, Enqueue, Take, WriteBegins, WriteEnds, AgentEnds,
     FailureBegins, FailureEnds, Join, PutStop, ConsumerEnded, Kind
<1>2. CASE WriteFails \/ FailureLost \/ ConsumerCancelled
  BY <1>2, Sessions DEF WriteFails, FailureLost, ConsumerCancelled
<1>3. CASE Api
  BY <1>3, Sessions DEF Api, Answered, OutcomeBegins, OutcomeCommits, OutcomeEnds, Kind
<1> QED
  BY <1>1, <1>2, <1>3 DEF Next, Watch

\* The rows keep their reports and stay committed; a new row reports nothing.
SameRows ==
    /\ DOMAIN events \subseteq DOMAIN events'
    /\ \A i \in DOMAIN events :
          /\ events'[i].report = events[i].report
          /\ events[i].state = "committed" => events'[i].state = "committed"
    /\ \A i \in DOMAIN events' \ DOMAIN events : events'[i].report = 0

LEMMA EventsStep ==
    ASSUME Types, Hands, Next
    PROVE  /\ EventTypes' /\ Committed \subseteq Committed' /\ Logs \subseteq Logs'
           /\ SameRows \/ WriteBegins
           /\ \/ StreamStep
              \/ UNCHANGED <<stream, client, channel>>
              \/ UNCHANGED <<stream, client>> /\ \E i \in Committed : channel' = Append(channel, i)
<1>0. EventTypes
  BY LineTypes
<1>1. CASE UNCHANGED streamVars
  BY <1>0, <1>1 DEF streamVars, EventTypes, SameRows, Committed, Logs
<1>2. CASE WriteBegins
  <2>1. consumer \in Nat /\ "consumer" \in Writers /\ ReportKind(consumer) \in Kind
    BY LineTypes, Sessions DEF ReportKind, Kind
  <2>2. Inserted("consumer", ReportKind(consumer), consumer)
    BY <1>0, <1>2, <2>1, Inserts DEF WriteBegins
  <2>3. DOMAIN events = 1 .. Len(events) /\ Len(events) \in Nat
    BY <1>0, EventRows
  <2>4. EventTypes' /\ Committed \subseteq Committed' /\ Logs \subseteq Logs'
    BY <1>0, <2>2, <2>3 DEF Inserted, EventTypes, Committed, Logs
  <2> QED
    BY <1>2, <2>2, <2>4 DEF Inserted
<1>3. ASSUME NEW w \in Writers \ {"consumer"}, NEW k \in Kind, Insert(w, k, 0)
      PROVE  /\ EventTypes' /\ Committed \subseteq Committed' /\ Logs \subseteq Logs' /\ SameRows
             /\ UNCHANGED <<stream, client, channel>>
  <2>1. Inserted(w, k, 0)
    BY <1>0, <1>3, Inserts
  <2>2. DOMAIN events = 1 .. Len(events) /\ Len(events) \in Nat
    BY <1>0, EventRows
  <2>3. EventTypes' /\ Committed \subseteq Committed' /\ Logs \subseteq Logs'
    BY <1>0, <2>1, <2>2 DEF Inserted, EventTypes, Committed, Logs
  <2>4. SameRows
    BY <2>1, <2>2 DEF Inserted, SameRows
  <2> QED
    BY <2>1, <2>3, <2>4 DEF Inserted
<1>4. ASSUME NEW w \in Writers, Commit(w) \/ Abort(w)
      PROVE  /\ EventTypes' /\ Committed \subseteq Committed' /\ Logs \subseteq Logs' /\ SameRows
             /\ UNCHANGED <<stream, client, channel>>
  <2>1. Settled(w)
    BY <1>0, <1>4, Settles DEF Hands
  <2>2. EventTypes' /\ Committed \subseteq Committed' /\ Logs \subseteq Logs'
    BY <1>0, <2>1 DEF Settled, EventTypes, Committed, Logs
  <2>3. SameRows
    BY <2>1 DEF Settled, SameRows
  <2> QED
    BY <2>1, <2>2, <2>3 DEF Settled
<1>5. CASE Publish("api")
  <2>1. "api" \in Writers /\ writer["api"] # 0 /\ writer["api"] \in Committed
        /\ writer' = [writer EXCEPT !["api"] = 0]
        /\ channel' \in {channel, Append(channel, writer["api"])}
        /\ UNCHANGED <<events, applied, stream, client>>
    BY <1>5, Sessions DEF Publish, Hands, Committed
  <2>2. writer' \in [Writers -> 0 .. MaxEvents]
    BY <1>0, <2>1, StreamBounds DEF EventTypes
  <2>3. EventTypes' /\ Committed \subseteq Committed' /\ Logs \subseteq Logs' /\ SameRows
    BY <1>0, <2>1, <2>2 DEF EventTypes, Committed, Logs, SameRows
  <2> QED
    BY <2>1, <2>3
<1>6. CASE StreamStep
  <2>1. UNCHANGED <<events, writer, applied>>
    BY <1>6 DEF StreamStep, Subscribe, ReadBoundary, ReadHistory, ReadSnapshot, Begin, Poll,
       Send, Disconnect
  <2> QED
    BY <1>0, <1>6, <2>1 DEF EventTypes, Committed, Logs, SameRows
<1> QED
  <2>1. UNCHANGED streamVars => UNCHANGED <<stream, client, channel>>
    BY DEF streamVars
  <2>2. WriteBegins => UNCHANGED <<stream, client, channel>>
    BY DEF WriteBegins, Insert
  <2> QED
    BY <1>1, <1>2, <1>3, <1>4, <1>5, <1>6, <2>1, <2>2, StepKinds

(***************************************************************************)
(* The types, the browser and the hands                                    *)
(***************************************************************************)

ReporterTypes ==
    /\ thread \in 0 .. Reports
    /\ calls \in Seq(1 .. Reports) /\ queue \in Seq(1 .. Stop)
    /\ Len(queue) <= QueueSize
    /\ consumer \in 0 .. Stop
    /\ handler \in {"running", "failing", "joining", "stopping", "waiting", "returned"}
    /\ dropped \subseteq 1 .. Reports
    /\ api \in {"waiting", "ending", "done"}
    /\ faults \in Nat

LEMMA TypesAre == Types <=> EventTypes /\ StreamTypes /\ ReporterTypes
BY DEF Types, TypeOK, MoreTypes, EventTypes, StreamTypes, ReporterTypes

LEMMA ReporterTypesStep ==
    ASSUME ReporterTypes, Next
    PROVE  ReporterTypes'
<1>0. Reports \in Nat /\ QueueSize \in Nat /\ Stop \in 1 .. Stop /\ Stop = Reports + 1 /\ 0 \in 0 .. Stop
      /\ Stop \in 0 .. Stop /\ 1 .. Stop \subseteq 0 .. Stop
  BY ReporterBounds DEF Stop
<1>1. CASE Report
  <2>1. thread + 1 \in 1 .. Reports /\ thread + 1 \in 0 .. Reports
    BY <1>0, <1>1 DEF Report, ReporterTypes
  <2>2. calls' \in Seq(1 .. Reports)
    BY <1>1, <2>1, Pushed DEF Report, ReporterTypes
  <2> QED
    BY <1>1, <2>1, <2>2 DEF Report, ReporterTypes
<1>2. CASE Enqueue
  <2>1. /\ Head(calls) \in 1 .. Reports /\ Tail(calls) \in Seq(1 .. Reports)
    <3>1. calls \in Seq(1 .. Reports) /\ calls # <<>>
      BY <1>2 DEF Enqueue, ReporterTypes
    <3>2. calls[1] \in 1 .. Reports
      BY <3>1, Popped, ElementOfSeq
    <3> QED
      BY <3>1, <3>2, Popped
  <2>2. Head(calls) \in 1 .. Stop
    BY <1>0, <2>1
  <2>3. CASE Len(queue) < QueueSize
    <3>0. queue \in Seq(1 .. Stop) /\ queue' = Append(queue, Head(calls))
      BY <1>2, <2>3 DEF Enqueue, ReporterTypes
    <3>1. queue' \in Seq(1 .. Stop) /\ Len(queue') = Len(queue) + 1 /\ Len(queue) \in Nat
      BY <2>2, <3>0, Pushed
    <3>2. Len(queue') <= QueueSize
      BY <1>0, <2>3, <3>1
    <3> QED
      BY <1>2, <2>1, <2>3, <3>1, <3>2 DEF Enqueue, ReporterTypes
  <2>4. CASE ~(Len(queue) < QueueSize)
    BY <1>2, <2>1, <2>4 DEF Enqueue, ReporterTypes
  <2> QED
    BY <2>3, <2>4
<1>3. CASE Take
  <2>1. /\ queue \in Seq(1 .. Stop) /\ queue # <<>> /\ consumer' = Head(queue) /\ queue' = Tail(queue)
    BY <1>3 DEF Take, ReporterTypes
  <2>2. /\ queue' \in Seq(1 .. Stop) /\ Len(queue') = Len(queue) - 1 /\ Len(queue) \in Nat
        /\ consumer' = queue[1] /\ 1 \in 1 .. Len(queue)
    BY <2>1, Popped
  <2>3. consumer' \in 0 .. Stop
    BY <1>0, <2>1, <2>2, ElementOfSeq
  <2>4. Len(queue') <= QueueSize
    BY <1>0, <2>2 DEF ReporterTypes
  <2> QED
    BY <1>3, <2>2, <2>3, <2>4 DEF Take, ReporterTypes
<1>4. CASE PutStop
  <2>1. queue' \in Seq(1 .. Stop) /\ Len(queue') = Len(queue) + 1 /\ Len(queue) \in Nat
    BY <1>0, <1>4, Pushed DEF PutStop, ReporterTypes
  <2>2. Len(queue') <= QueueSize
    BY <1>0, <1>4, <2>1 DEF PutStop
  <2> QED
    BY <1>4, <2>1, <2>2 DEF PutStop, ReporterTypes
<1>5. CASE WriteBegins \/ FailureBegins \/ OutcomeBegins \/ OutcomeCommits \/ Watch
  BY <1>5 DEF WriteBegins, FailureBegins, OutcomeBegins, OutcomeCommits, Watch, reporterVars,
     ReporterTypes
<1>6. ASSUME faults' = faults \/ \E kind \in FaultKind : Fault(kind)
      PROVE  faults' \in Nat
  BY <1>6 DEF ReporterTypes, Fault
<1>7. CASE WriteEnds
  BY <1>0, <1>7 DEF WriteEnds, ReporterTypes
<1>8. CASE WriteFails
  <2>1. faults' \in Nat
    BY <1>6, <1>8 DEF WriteFails, FaultKind
  <2> QED
    BY <1>0, <1>8, <2>1 DEF WriteFails, ReporterTypes
<1>9. CASE AgentEnds \/ Join
  <2>1. faults' \in Nat
    BY <1>6, <1>9 DEF AgentEnds, Join, FaultKind
  <2> QED
    BY <1>9, <2>1 DEF AgentEnds, Join, ReporterTypes
<1>10. CASE FailureEnds \/ FailureLost \/ ConsumerEnded
  BY <1>10 DEF FailureEnds, FailureLost, ConsumerEnded, ReporterTypes
<1>11. CASE ConsumerCancelled
  BY <1>0, <1>11 DEF ConsumerCancelled, ReporterTypes
<1>12. CASE Answered
  <2>1. faults' \in Nat
    BY <1>6, <1>12 DEF Answered, FaultKind
  <2> QED
    BY <1>12, <2>1 DEF Answered, ReporterTypes
<1>13. CASE OutcomeEnds
  BY <1>13 DEF OutcomeEnds, ReporterTypes
<1> QED
  BY <1>1, <1>2, <1>3, <1>4, <1>5, <1>7, <1>8, <1>9, <1>10, <1>11, <1>12, <1>13
  DEF Next, Runtime, Api

LEMMA TypesStep ==
    ASSUME Types, Hands, Watching, Replayed, Next
    PROVE  Types' /\ Watching' /\ Replayed'
<1>1. EventTypes /\ StreamTypes /\ ReporterTypes
  BY TypesAre
<1>2. StreamTypes' /\ Watching' /\ Replayed'
  BY <1>1, EventsStep, ConnectionStep, ReplayStep, ConnectionKept
<1>3. EventTypes' /\ ReporterTypes'
  BY <1>1, EventsStep, ReporterTypesStep
<1>4. Types'
  BY <1>2, <1>3 DEF Types, TypeOK, MoreTypes, EventTypes, StreamTypes, ReporterTypes
<1> QED
  BY <1>2, <1>4

\* The consumer changes hands only when it has no row open.
LEMMA ConsumerKept ==
    ASSUME Types, Hands, Next
    PROVE  \/ consumer' = consumer
           \/ consumer = 0 /\ writer["consumer"] = 0 /\ writer'["consumer"] = 0
           \/ consumer' \in {0, Stop} /\ writer'["consumer"] = 0
<1>0. EventTypes /\ "consumer" \in Writers /\ ~(0 \in 1 .. Reports)
  BY LineTypes, Sessions
<1>1. CASE Take
  BY <1>0, <1>1 DEF Take, Hands, Writing, streamVars
<1>2. CASE WriteEnds
  <2>1. Settled("consumer")
    BY <1>0, <1>2, Settles DEF WriteEnds, Hands
  <2> QED
    BY <1>2, <2>1 DEF WriteEnds, Settled
<1>3. CASE WriteFails \/ ConsumerCancelled
  <2>1. writer'["consumer"] = 0
    <3>1. CASE writer["consumer"] = 0 /\ UNCHANGED streamVars
      BY <3>1 DEF streamVars
    <3>2. CASE Abort("consumer") \/ Commit("consumer")
      <4>1. Settled("consumer")
        BY <1>0, <3>2, Settles DEF Hands
      <4> QED
        BY <4>1 DEF Settled
    <3> QED
      BY <1>3, <3>1, <3>2 DEF WriteFails, ConsumerCancelled
  <2> QED
    BY <1>3, <2>1 DEF WriteFails, ConsumerCancelled
<1>4. ~Take /\ ~WriteEnds /\ ~WriteFails /\ ~ConsumerCancelled => consumer' = consumer
  BY DEF Next, Runtime, Report, Enqueue, WriteBegins, AgentEnds, FailureBegins, FailureEnds,
     Join, PutStop, ConsumerEnded, FailureLost, Api, Answered, OutcomeBegins, OutcomeCommits,
     OutcomeEnds, Watch, reporterVars
<1> QED
  BY <1>1, <1>2, <1>3, <1>4

LEMMA HandsStep ==
    ASSUME Types, Hands, Next
    PROVE  Hands'
<1>0. EventTypes /\ "consumer" \in Writers
  BY LineTypes, Sessions
<1>1. DOMAIN events = 1 .. Len(events) /\ Len(events) \in Nat /\ writer \in [Writers -> 0 .. MaxEvents]
  BY <1>0, EventRows DEF EventTypes
\* What the rows and the writers of the step say, for a consumer that stays.
<1>2. ASSUME \A w \in Writers : writer'[w] \in {0, writer[w]},
             DOMAIN events' = DOMAIN events,
             \A i \in DOMAIN events : events'[i].report = events[i].report
      PROVE  Hands'
  <2>1. \A w \in Writers : writer'[w] # 0 =>
           /\ writer'[w] \in DOMAIN events'
           /\ w # "consumer" => events'[writer'[w]].report = 0
    BY <1>2 DEF Hands
  <2>2. ASSUME writer'["consumer"] # 0
        PROVE  Writing' /\ events'[writer'["consumer"]].report = consumer'
    <3>1. consumer' = consumer
      BY <1>0, <1>2, <2>2, ConsumerKept
    <3> QED
      BY <1>0, <1>2, <2>2, <3>1 DEF Hands, Writing
  <2> QED
    BY <2>1, <2>2 DEF Hands
<1>3. CASE UNCHANGED streamVars
  <2>1. UNCHANGED <<events, writer>>
    BY <1>3 DEF streamVars
  <2> QED
    BY <1>2, <2>1
<1>4. CASE WriteBegins
  <2>1. consumer \in Nat /\ ReportKind(consumer) \in Kind /\ consumer' = consumer /\ Writing
    BY <1>4, LineTypes DEF ReportKind, Kind, WriteBegins, reporterVars
  <2>2. Inserted("consumer", ReportKind(consumer), consumer)
    BY <1>0, <1>4, <2>1, Inserts DEF WriteBegins
  <2>3. Len(events) + 1 \in DOMAIN events' /\ Writing'
    BY <1>1, <2>1, <2>2 DEF Inserted, Writing
  <2>4. \A w \in Writers \ {"consumer"} : writer'[w] # 0 =>
           writer'[w] \in DOMAIN events' /\ events'[writer'[w]].report = 0
    BY <1>1, <2>2 DEF Inserted, Hands
  <2> QED
    BY <2>1, <2>2, <2>3, <2>4 DEF Inserted, Hands
<1>5. ASSUME NEW w \in Writers \ {"consumer"}, NEW k \in Kind, Insert(w, k, 0)
      PROVE  Hands'
  <2>1. Inserted(w, k, 0)
    BY <1>0, <1>5, Inserts
  <2>2. Len(events) + 1 \in DOMAIN events'
    BY <1>1, <2>1 DEF Inserted
  <2>3. \A v \in Writers : writer'[v] # 0 =>
           writer'[v] \in DOMAIN events' /\ (v # "consumer" => events'[writer'[v]].report = 0)
    BY <1>1, <2>1, <2>2 DEF Inserted, Hands
  <2>4. ASSUME writer'["consumer"] # 0
        PROVE  Writing' /\ events'[writer'["consumer"]].report = consumer'
    <3>1. writer'["consumer"] = writer["consumer"]
      BY <1>0, <2>1 DEF Inserted
    <3>2. consumer' = consumer
      BY <2>4, <3>1, ConsumerKept
    <3> QED
      BY <1>0, <1>1, <2>1, <2>4, <3>1, <3>2 DEF Hands, Writing, Inserted
  <2> QED
    BY <2>3, <2>4 DEF Hands
<1>6. ASSUME NEW w \in Writers, Commit(w) \/ Abort(w)
      PROVE  Hands'
  <2>1. Settled(w)
    BY <1>0, <1>6, Settles DEF Hands
  <2> QED
    BY <1>2, <2>1 DEF Settled
<1>7. CASE Publish("api")
  <2>1. events' = events /\ \A w \in Writers : writer'[w] \in {0, writer[w]}
    BY <1>1, <1>7 DEF Publish
  <2> QED
    BY <1>2, <2>1
<1>8. CASE StreamStep
  <2>1. UNCHANGED <<events, writer>>
    BY <1>8 DEF StreamStep, Subscribe, ReadBoundary, ReadHistory, ReadSnapshot, Begin, Poll,
       Send, Disconnect
  <2> QED
    BY <1>2, <2>1
<1> QED
  BY <1>3, <1>4, <1>5, <1>6, <1>7, <1>8, StepKinds

LEMMA EndingStep ==
    ASSUME Types, Ending, Next
    PROVE  Ending'
<1>0. /\ Stop \notin 1 .. Reports /\ Stop # 0 /\ (calls = <<>> <=> DOMAIN calls = {})
      /\ consumer \in Nat
  BY LineTypes
<1>1. CASE Report
  BY <1>1 DEF Report, Ending
<1>2. CASE Enqueue
  <2>1. /\ calls # <<>> /\ calls \in Seq(1 .. Reports) /\ queue \in Seq(1 .. Stop)
        /\ queue' \in {queue, Append(queue, Head(calls))} /\ handler' = handler /\ consumer' = consumer
    BY <1>2 DEF Enqueue, Types, TypeOK
  <2>2. Head(calls) \in 1 .. Reports /\ Head(calls) # Stop
    <3>1. Head(calls) = calls[1] /\ 1 \in 1 .. Len(calls)
      BY <2>1, Popped
    <3>2. calls[1] \in 1 .. Reports
      BY <2>1, <3>1, ElementOfSeq
    <3> QED
      BY <1>0, <3>1, <3>2
  <2>3. \A n \in DOMAIN queue' : queue'[n] = Stop => \E m \in DOMAIN queue : queue[m] = Stop
    <3>1. Head(calls) \in 1 .. Stop
      BY <2>2, LineTypes
    <3>2. CASE queue' = Append(queue, Head(calls))
      BY <2>1, <2>2, <3>1, <3>2, Pushed
    <3> QED
      BY <2>1, <3>2
  <2> QED
    BY <2>1, <2>3 DEF Ending
<1>3. CASE Take
  <2>1. /\ queue # <<>> /\ queue \in Seq(1 .. Stop) /\ queue' = Tail(queue) /\ consumer' = Head(queue)
        /\ consumer = 0 /\ UNCHANGED <<handler, calls>>
    BY <1>3 DEF Take, Types, TypeOK
  <2>2. /\ Head(queue) = queue[1] /\ 1 \in DOMAIN queue
        /\ \A n \in DOMAIN queue' : n + 1 \in DOMAIN queue /\ queue'[n] = queue[n + 1]
    BY <2>1, Popped
  <2>3. handler # "returned"
    BY <1>0, <2>1 DEF Ending
  <2> QED
    BY <2>1, <2>2, <2>3 DEF Ending
<1>4. CASE WriteEnds \/ WriteFails
  <2>1. Writing /\ consumer' = 0 /\ UNCHANGED <<handler, calls, queue>>
    BY <1>4 DEF WriteEnds, WriteFails
  <2>2. handler # "returned"
    BY <1>0, <2>1 DEF Ending, Writing
  <2> QED
    BY <1>0, <2>1, <2>2 DEF Ending
<1>5. CASE AgentEnds
  BY <1>5 DEF AgentEnds, Ending
<1>6. CASE FailureEnds \/ FailureLost
  BY <1>6 DEF FailureEnds, FailureLost, Ending
<1>7. CASE Join
  BY <1>7 DEF Join, Ending
<1>8. CASE PutStop
  BY <1>8 DEF PutStop, Ending
<1>9. CASE ConsumerEnded \/ ConsumerCancelled
  BY <1>9 DEF ConsumerEnded, ConsumerCancelled, Ending
<1>10. CASE UNCHANGED <<calls, queue, consumer, handler>>
  BY <1>10 DEF Ending
<1> QED
  BY <1>1, <1>2, <1>3, <1>4, <1>5, <1>6, <1>7, <1>8, <1>9, <1>10 DEF Next, Runtime, WriteBegins,
     FailureBegins, Api, Answered, OutcomeBegins, OutcomeCommits, OutcomeEnds, Watch, reporterVars

(***************************************************************************)
(* The line of the reports                                                 *)
(***************************************************************************)

\* Steps that leave the queues alone and insert no report.
LEMMA LineKept ==
    ASSUME Types, Types', InLine, SameRows, UNCHANGED <<thread, calls, queue>>,
           Writing' => /\ consumer' = consumer
                       /\ writer'["consumer"] = 0 => writer["consumer"] = 0
    PROVE  InLine'
<1>1. /\ DOMAIN events \subseteq Nat /\ DOMAIN events' \subseteq Nat
      /\ \A i \in DOMAIN events : events[i].report \in Nat
      /\ thread \in Nat /\ consumer \in Nat
      /\ \A n \in DOMAIN queue : queue[n] \in Nat \ {0}
      /\ \A n \in DOMAIN calls : calls[n] \in Nat \ {0}
  <2>1. events' \in Seq(Event)
    BY DEF Types, TypeOK
  <2>2. DOMAIN events' \subseteq Nat
    BY <2>1, LenProperties
  <2>3. EventTypes /\ thread \in Nat /\ consumer \in Nat /\ Reports \in Nat /\ Stop = Reports + 1
    BY LineTypes
  <2>4. DOMAIN events \subseteq Nat /\ \A i \in DOMAIN events : events[i].report \in Nat
    BY <2>3, EventRows DEF Ids
  <2>5. /\ \A n \in DOMAIN queue : queue[n] \in 1 .. Stop
        /\ \A n \in DOMAIN calls : calls[n] \in 1 .. Reports
    BY LineTypes
  <2> QED
    BY <2>2, <2>3, <2>4, <2>5
<1>2. \A i \in DOMAIN events' :
         \/ i \in DOMAIN events /\ events'[i].report = events[i].report
         \/ events'[i].report = 0
  BY DEF SameRows
<1>3. ASSUME NEW r \in Nat \ {0}, Behindhand(r)
      PROVE  Behindhand(r)'
  BY <1>2, <1>3 DEF Behindhand
<1>4. \A i, j \in DOMAIN events' :
         (i < j /\ events'[i].report # 0 /\ events'[j].report # 0)
            => events'[i].report < events'[j].report
  BY <1>2 DEF InLine
<1>5. \A i \in DOMAIN events' : events'[i].report <= thread
  BY <1>1, <1>2 DEF InLine
<1>6. ASSUME Writing'
      PROVE  /\ consumer <= thread
             /\ \A i \in DOMAIN events' : events'[i].report <= consumer
             /\ writer'["consumer"] = 0 => Behindhand(consumer)'
             /\ \A n \in DOMAIN queue : consumer < queue[n]
             /\ \A n \in DOMAIN calls : consumer < calls[n]
  <2>1. Writing /\ consumer' = consumer /\ consumer \in Nat \ {0}
    BY <1>6, ReporterBounds DEF Writing
  <2>2. \A i \in DOMAIN events' : events'[i].report <= consumer
    BY <1>1, <1>2, <2>1 DEF InLine
  <2>3. ASSUME writer'["consumer"] = 0
        PROVE  Behindhand(consumer)'
    <3>1. Behindhand(consumer)
      BY <1>6, <2>1, <2>3 DEF InLine
    <3> QED
      BY <1>2, <2>1, <3>1 DEF Behindhand
  <2> QED
    BY <2>1, <2>2, <2>3 DEF InLine
<1>7. /\ \A n \in DOMAIN queue : Behindhand(queue[n])'
      /\ \A n \in DOMAIN calls : Behindhand(calls[n])'
  <2>1. ASSUME NEW n \in DOMAIN queue
        PROVE  Behindhand(queue[n])'
    BY <1>1, <1>2 DEF InLine, Behindhand
  <2>2. ASSUME NEW n \in DOMAIN calls
        PROVE  Behindhand(calls[n])'
    BY <1>1, <1>2 DEF InLine, Behindhand
  <2> QED
    BY <2>1, <2>2
<1> QED
  BY <1>4, <1>5, <1>6, <1>7 DEF InLine, Ascending, Behindhand

LEMMA LineStep ==
    ASSUME Types, Types', Hands, InLine, Ending, Next
    PROVE  InLine'
<1>0. /\ EventTypes /\ "consumer" \in Writers
      /\ thread \in Nat /\ consumer \in Nat /\ Stop \in Nat /\ thread < Stop
      /\ DOMAIN queue = 1 .. Len(queue) /\ Len(queue) \in Nat
      /\ \A n \in DOMAIN queue : queue[n] \in 1 .. Stop
      /\ DOMAIN calls = 1 .. Len(calls) /\ Len(calls) \in Nat
      /\ \A n \in DOMAIN calls : calls[n] \in 1 .. Reports
      /\ calls \in Seq(1 .. Reports) /\ queue \in Seq(1 .. Stop)
      /\ Reports \in Nat /\ Stop = Reports + 1 /\ thread <= Reports
  <2>1. calls \in Seq(1 .. Reports) /\ queue \in Seq(1 .. Stop) /\ thread \in 0 .. Reports
    BY DEF Types, TypeOK
  <2> QED
    BY <2>1, LineTypes, Sessions
<1>1. /\ DOMAIN events \subseteq Nat /\ \A i \in DOMAIN events : events[i].report \in Nat
      /\ DOMAIN events = 1 .. Len(events) /\ Len(events) \in Nat
  BY <1>0, EventRows DEF Ids
<1>2. CASE Report
  <2> DEFINE r == thread + 1
  <2>1. /\ thread' = r /\ calls' = Append(calls, r) /\ UNCHANGED <<events, writer, queue, consumer>>
        /\ handler = "running" /\ thread < Reports
    BY <1>2 DEF Report, streamVars
  <2>2. r \in 1 .. Reports /\ r \in Nat
    BY <1>0, <2>1
  <2>3. /\ DOMAIN calls' = 1 .. Len(calls) + 1
        /\ \A n \in DOMAIN calls : calls'[n] = calls[n]
        /\ calls'[Len(calls) + 1] = r
    BY <1>0, <2>1, <2>2, Pushed
  <2>4. \A n \in DOMAIN calls' : (n \in DOMAIN calls /\ calls'[n] = calls[n]) \/ (n = Len(calls) + 1 /\ calls'[n] = r)
    BY <1>0, <2>3
  <2>5. Behindhand(r) /\ \A n \in DOMAIN calls : calls[n] < r
    BY <1>0, <1>1 DEF InLine, Behindhand
  <2>6. \A n \in DOMAIN queue : queue[n] # Stop /\ queue[n] < r
    <3>1. \A n \in DOMAIN queue : queue[n] # Stop
      BY <2>1 DEF Ending
    <3> QED
      BY <1>0, <3>1 DEF InLine
  <2>7. Ascending(calls)'
    <3>1. ASSUME NEW m \in DOMAIN calls', NEW n \in DOMAIN calls', m < n
          PROVE  calls'[m] < calls'[n]
      <4>1. m \in DOMAIN calls
        BY <1>0, <2>3, <3>1
      <4>2. n \in DOMAIN calls \/ n = Len(calls) + 1
        BY <2>4
      <4> QED
        BY <2>3, <2>5, <3>1, <4>1, <4>2 DEF InLine, Ascending
    <3> QED
      BY <3>1 DEF Ascending
  <2>8. \A n \in DOMAIN calls' : Behindhand(calls'[n]) /\ calls'[n] <= r
    BY <1>0, <2>2, <2>4, <2>5 DEF InLine
  <2>9. \A i \in DOMAIN events : events[i].report <= r
    BY <1>0, <1>1 DEF InLine
  <2>10. Writing => consumer <= r /\ \A n \in DOMAIN calls' : consumer < calls'[n]
    BY <1>0, <2>2, <2>4 DEF InLine
  <2>11. \A n \in DOMAIN queue : queue[n] <= r
    BY <1>0, <2>2, <2>6
  <2>12. \A m \in DOMAIN queue, n \in DOMAIN calls' : queue[m] < calls'[n]
    BY <2>4, <2>6 DEF InLine
  <2> HIDE DEF r
  <2> QED
    BY <2>1, <2>7, <2>8, <2>9, <2>10, <2>11, <2>12 DEF InLine, Ascending, Behindhand, Writing
<1>3. CASE Enqueue
  <2> DEFINE r == Head(calls)
  <2>1. /\ calls # <<>> /\ calls' = Tail(calls) /\ queue' \in {queue, Append(queue, r)}
        /\ UNCHANGED <<events, writer, consumer, thread>>
    BY <1>3 DEF Enqueue, streamVars
  <2>2. /\ r = calls[1] /\ 1 \in DOMAIN calls
        /\ \A n \in DOMAIN calls' : n + 1 \in DOMAIN calls /\ calls'[n] = calls[n + 1] /\ n \in Nat \ {0}
    BY <1>0, <2>1, Popped
  <2>3. r \in 1 .. Reports /\ r \in 1 .. Stop /\ r \in Nat /\ r <= thread
    BY <1>0, <2>2 DEF InLine
  <2>4. \A n \in DOMAIN queue' : (n \in DOMAIN queue /\ queue'[n] = queue[n])
                                 \/ (n = Len(queue) + 1 /\ queue'[n] = r)
    BY <1>0, <2>1, <2>3, Pushed
  <2>5. Ascending(queue)'
    <3>1. ASSUME NEW m \in DOMAIN queue', NEW n \in DOMAIN queue', m < n
          PROVE  queue'[m] < queue'[n]
      <4>1. CASE n \in DOMAIN queue /\ queue'[n] = queue[n]
        <5>1. m \in DOMAIN queue /\ queue'[m] = queue[m]
          BY <1>0, <2>4, <3>1, <4>1
        <5> QED
          BY <3>1, <4>1, <5>1 DEF InLine, Ascending
      <4>2. CASE n = Len(queue) + 1 /\ queue'[n] = r
        <5>1. m \in DOMAIN queue /\ queue'[m] = queue[m]
          BY <1>0, <2>4, <3>1, <4>2
        <5> QED
          BY <2>2, <4>2, <5>1 DEF InLine
      <4> QED
        BY <2>4, <4>1, <4>2
    <3> QED
      BY <3>1 DEF Ascending
  <2>6. Ascending(calls)'
    <3>1. ASSUME NEW m \in DOMAIN calls', NEW n \in DOMAIN calls', m < n
          PROVE  calls'[m] < calls'[n]
      BY <2>2, <3>1 DEF InLine, Ascending
    <3> QED
      BY <3>1 DEF Ascending
  <2>7. \A n \in DOMAIN queue' : Behindhand(queue'[n]) /\ (queue'[n] # Stop => queue'[n] <= thread)
    BY <2>2, <2>3, <2>4 DEF InLine
  <2>8. \A n \in DOMAIN calls' : Behindhand(calls'[n]) /\ calls'[n] <= thread
    BY <2>2 DEF InLine
  <2>9. \A m \in DOMAIN queue', n \in DOMAIN calls' : queue'[m] < calls'[n]
    <3>1. ASSUME NEW m \in DOMAIN queue', NEW n \in DOMAIN calls'
          PROVE  queue'[m] < calls'[n]
      <4>1. r < calls'[n]
        BY <2>2 DEF InLine, Ascending
      <4>2. m \in DOMAIN queue => queue[m] < calls'[n]
        BY <2>2 DEF InLine
      <4> QED
        BY <2>4, <4>1, <4>2
    <3> QED
      BY <3>1
  <2>10. Writing => /\ \A n \in DOMAIN queue' : consumer < queue'[n]
                    /\ \A n \in DOMAIN calls' : consumer < calls'[n]
    BY <2>2, <2>4 DEF InLine
  <2> HIDE DEF r
  <2> QED
    BY <2>1, <2>5, <2>6, <2>7, <2>8, <2>9, <2>10 DEF InLine, Ascending, Behindhand, Writing
<1>4. CASE Take
  <2>1. /\ queue # <<>> /\ queue' = Tail(queue) /\ consumer' = Head(queue)
        /\ UNCHANGED <<events, writer, calls, thread>>
    BY <1>4 DEF Take, streamVars
  <2>2. /\ consumer' = queue[1] /\ 1 \in DOMAIN queue
        /\ \A n \in DOMAIN queue' : n + 1 \in DOMAIN queue /\ queue'[n] = queue[n + 1] /\ n \in Nat \ {0}
    BY <1>0, <2>1, Popped
  <2>3. Ascending(queue)'
    <3>1. ASSUME NEW m \in DOMAIN queue', NEW n \in DOMAIN queue', m < n
          PROVE  queue'[m] < queue'[n]
      BY <2>2, <3>1 DEF InLine, Ascending
    <3> QED
      BY <3>1 DEF Ascending
  <2>4. \A n \in DOMAIN queue' : Behindhand(queue'[n]) /\ (queue'[n] # Stop => queue'[n] <= thread)
    BY <2>2 DEF InLine
  <2>5. \A m \in DOMAIN queue', n \in DOMAIN calls : queue'[m] < calls[n]
    BY <2>2 DEF InLine
  <2>6. ASSUME Writing'
        PROVE  /\ consumer' <= thread
               /\ Behindhand(consumer')
               /\ \A i \in DOMAIN events : events[i].report <= consumer'
               /\ \A n \in DOMAIN queue' : consumer' < queue'[n]
               /\ \A n \in DOMAIN calls : consumer' < calls[n]
    <3>1. consumer' # Stop /\ consumer' \in Nat
      BY <1>0, <2>6 DEF Writing
    <3>2. Behindhand(consumer') /\ consumer' <= thread
      BY <2>2, <3>1 DEF InLine
    <3>3. \A i \in DOMAIN events : events[i].report <= consumer'
      BY <1>1, <3>1, <3>2 DEF Behindhand
    <3> QED
      BY <2>2, <3>2, <3>3 DEF InLine, Ascending
  <2> QED
    BY <2>1, <2>3, <2>4, <2>5, <2>6 DEF InLine, Ascending, Behindhand
<1>5. CASE WriteBegins
  <2> DEFINE k == Len(events) + 1
  <2>1. /\ ReportKind(consumer) \in Kind /\ Writing /\ writer["consumer"] = 0
        /\ UNCHANGED <<thread, calls, queue, consumer>>
    BY <1>5 DEF ReportKind, Kind, WriteBegins, Insert, reporterVars
  <2>2. Inserted("consumer", ReportKind(consumer), consumer)
    BY <1>0, <1>5, <2>1, Inserts DEF WriteBegins
  <2>3. /\ DOMAIN events' = 1 .. k /\ \A i \in DOMAIN events : events'[i].report = events[i].report
        /\ events'[k].report = consumer /\ writer'["consumer"] = k
    BY <2>2 DEF Inserted
  <2>4. \A i \in DOMAIN events' : i \in DOMAIN events \/ i = k
    BY <1>1, <2>3
  <2>5. /\ Behindhand(consumer) /\ consumer <= thread
        /\ \A n \in DOMAIN queue : consumer < queue[n]
        /\ \A n \in DOMAIN calls : consumer < calls[n]
    BY <2>1 DEF InLine
  <2>6. \A i, j \in DOMAIN events' :
           (i < j /\ events'[i].report # 0 /\ events'[j].report # 0)
              => events'[i].report < events'[j].report
    <3>1. ASSUME NEW i \in DOMAIN events', NEW j \in DOMAIN events', i < j,
                 events'[i].report # 0, events'[j].report # 0
          PROVE  events'[i].report < events'[j].report
      <4>1. i \in DOMAIN events
        BY <1>1, <2>3, <3>1
      <4>2. CASE j \in DOMAIN events
        BY <2>3, <3>1, <4>1, <4>2 DEF InLine
      <4>3. CASE j = k
        BY <2>3, <2>5, <4>1, <4>3 DEF Behindhand
      <4> QED
        BY <2>4, <4>2, <4>3
    <3> QED
      BY <3>1
  <2>7. \A i \in DOMAIN events' : events'[i].report <= thread /\ events'[i].report <= consumer
    <3>1. \A i \in DOMAIN events : events[i].report <= thread /\ events[i].report <= consumer
      BY <1>0, <1>1, <2>1 DEF InLine
    <3> QED
      BY <1>0, <2>3, <2>4, <2>5, <3>1
  <2>8. /\ \A n \in DOMAIN queue : Behindhand(queue[n])'
        /\ \A n \in DOMAIN calls : Behindhand(calls[n])'
    <3>1. ASSUME NEW n \in DOMAIN queue
          PROVE  Behindhand(queue[n])'
      BY <2>1, <2>3, <2>4, <2>5 DEF InLine, Behindhand
    <3>2. ASSUME NEW n \in DOMAIN calls
          PROVE  Behindhand(calls[n])'
      BY <2>1, <2>3, <2>4, <2>5 DEF InLine, Behindhand
    <3> QED
      BY <3>1, <3>2
  <2>9. writer'["consumer"] # 0
    BY <1>1, <2>3
  <2> QED
    BY <2>1, <2>5, <2>6, <2>7, <2>8, <2>9 DEF InLine, Ascending, Behindhand
<1>6. CASE PutStop
  <2>1. /\ queue' = Append(queue, Stop) /\ UNCHANGED <<events, writer, calls, thread, consumer>>
        /\ handler = "stopping"
    BY <1>6 DEF PutStop, streamVars
  <2>2. Stop \in 1 .. Stop /\ DOMAIN calls = {}
    <3>1. calls = <<>>
      BY <2>1 DEF Ending
    <3> QED
      BY <1>0, <3>1, LineTypes
  <2>3. \A n \in DOMAIN queue' : (n \in DOMAIN queue /\ queue'[n] = queue[n])
                                 \/ (n = Len(queue) + 1 /\ queue'[n] = Stop)
    BY <1>0, <2>1, <2>2, Pushed
  <2>4. \A n \in DOMAIN queue : queue[n] < Stop
    BY <1>0, <2>1 DEF Ending
  <2>5. Behindhand(Stop)
    BY <1>0, <1>1 DEF InLine, Behindhand
  <2>6. Ascending(queue)'
    <3>1. ASSUME NEW m \in DOMAIN queue', NEW n \in DOMAIN queue', m < n
          PROVE  queue'[m] < queue'[n]
      <4>1. m \in DOMAIN queue /\ queue'[m] = queue[m]
        BY <1>0, <2>3, <3>1
      <4> QED
        BY <2>3, <2>4, <3>1, <4>1 DEF InLine, Ascending
    <3> QED
      BY <3>1 DEF Ascending
  <2>7. \A n \in DOMAIN queue' : Behindhand(queue'[n]) /\ (queue'[n] # Stop => queue'[n] <= thread)
    BY <2>3, <2>5 DEF InLine
  <2>8. Writing => \A n \in DOMAIN queue' : consumer < queue'[n]
    BY <1>0, <2>3 DEF InLine, Writing
  <2> QED
    BY <2>1, <2>2, <2>6, <2>7, <2>8 DEF InLine, Ascending, Behindhand, Writing
<1>7. ASSUME UNCHANGED <<thread, calls, queue>>, ~WriteBegins,
             Writing' => consumer' = consumer /\ writer'["consumer"] = writer["consumer"]
      PROVE  InLine'
  BY <1>7, LineKept, EventsStep
<1>8. CASE WriteEnds \/ WriteFails \/ ConsumerCancelled
  <2>1. consumer' \in {0, Stop} /\ UNCHANGED <<thread, calls, queue>>
    BY <1>8 DEF WriteEnds, WriteFails, ConsumerCancelled
  <2>2. ~Writing'
    BY <1>0, <2>1 DEF Writing
  <2> QED
    BY <1>7, <1>5, <2>1, <2>2
<1>9. CASE FailureBegins \/ OutcomeBegins
  <2>1. UNCHANGED <<thread, calls, queue, consumer>> /\ "consumer" \in Writers
        /\ "handler" # "consumer" /\ "api" # "consumer"
    BY <1>0, <1>9 DEF FailureBegins, OutcomeBegins, reporterVars
  <2>2. writer'["consumer"] = writer["consumer"]
    BY <1>0, <1>9 DEF FailureBegins, OutcomeBegins, Insert, EventTypes
  <2> QED
    BY <1>5, <1>7, <2>1, <2>2
<1>10. CASE FailureEnds \/ FailureLost \/ OutcomeCommits \/ OutcomeEnds
  <2>1. UNCHANGED <<thread, calls, queue, consumer>>
    BY <1>10 DEF FailureEnds, FailureLost, OutcomeCommits, OutcomeEnds, reporterVars
  <2>2. writer'["consumer"] = writer["consumer"]
    BY <1>0, <1>10 DEF FailureEnds, FailureLost, OutcomeCommits, OutcomeEnds, Commit, Abort,
       Publish, EventTypes, streamVars
  <2> QED
    BY <1>5, <1>7, <2>1, <2>2
<1>11. CASE AgentEnds \/ Join \/ ConsumerEnded \/ Answered \/ Watch
  <2>1. UNCHANGED <<thread, calls, queue, consumer, writer>>
    BY <1>11 DEF AgentEnds, Join, ConsumerEnded, Answered, Watch, StreamStep, Subscribe,
       ReadBoundary, ReadHistory, ReadSnapshot, Begin, Poll, Send, Disconnect, streamVars, reporterVars
  <2> QED
    BY <1>5, <1>7, <2>1
<1> QED
  BY <1>2, <1>3, <1>4, <1>5, <1>6, <1>8, <1>9, <1>10, <1>11 DEF Next, Runtime, Api

(***************************************************************************)
(* No report is unaccounted for                                            *)
(***************************************************************************)

\* A report that can be read stays so.
LEMMA WrittenKept ==
    ASSUME Types, Hands, Next
    PROVE  \A i \in Written : i \in Written' /\ events'[i].report = events[i].report
<1>1. CASE SameRows
  BY <1>1 DEF SameRows, Written, Committed
<1>2. CASE WriteBegins
  <2>1. EventTypes /\ consumer \in Nat /\ "consumer" \in Writers /\ ReportKind(consumer) \in Kind
    BY LineTypes, Sessions DEF ReportKind, Kind
  <2>2. Inserted("consumer", ReportKind(consumer), consumer)
    BY <1>2, <2>1, Inserts DEF WriteBegins
  <2>3. DOMAIN events = 1 .. Len(events) /\ Len(events) \in Nat
    BY <2>1, EventRows
  <2> QED
    BY <2>2, <2>3 DEF Inserted, Written, Committed
<1> QED
  BY <1>1, <1>2, EventsStep

Found(r) == \E i \in Written : events[i].report = r

LEMMA AccountedStep ==
    ASSUME Types, Types', Hands, Ending, Accounted, Next
    PROVE  Accounted'
<1>0. /\ faults \in Nat /\ thread \in Nat /\ thread < Stop /\ Stop \in Nat /\ Stop = Reports + 1
      /\ Reports \in Nat /\ 1 .. thread \subseteq 1 .. Reports
      /\ ~(0 \in 1 .. thread) /\ ~(Stop \in 1 .. thread)
      /\ calls \in Seq(1 .. Reports) /\ queue \in Seq(1 .. Stop) /\ consumer \in 0 .. Stop
  <2>1. /\ faults \in Nat /\ thread \in 0 .. Reports
        /\ calls \in Seq(1 .. Reports) /\ queue \in Seq(1 .. Stop) /\ consumer \in 0 .. Stop
    BY DEF Types, TypeOK, MoreTypes
  <2>2. thread \in Nat /\ thread < Stop /\ Stop \in Nat /\ Stop = Reports + 1 /\ Reports \in Nat
    BY LineTypes
  <2> QED
    BY <2>1, <2>2
<1>1. ASSUME NEW r, Found(r)
      PROVE  Found(r)'
  BY <1>1, WrittenKept DEF Found
\* A fault is counted.
<1>2. \A kind : Fault(kind) => faults' # 0
  BY <1>0 DEF Fault
<1> SUFFICES ASSUME faults' = 0
             PROVE  /\ \A r \in 1 .. thread' :
                          r \in dropped' \/ In(calls', r) \/ In(queue', r) \/ r = consumer' \/ Found(r)'
                    /\ handler' # "failing"
                    /\ handler' \in {"stopping", "waiting", "returned"} =>
                          ~Writing' /\ \A n \in DOMAIN queue' : queue'[n] = Stop
  BY DEF Accounted, Found, In, Stop
<1>3. faults = 0 /\ faults' = faults
  BY <1>0 DEF Next, Runtime, Report, Enqueue, Take, WriteBegins, WriteEnds, AgentEnds,
     FailureBegins, FailureEnds, Join, PutStop, ConsumerEnded, WriteFails, FailureLost,
     ConsumerCancelled, Api, Answered, OutcomeBegins, OutcomeCommits, OutcomeEnds, Watch,
     reporterVars, Fault
<1>4. /\ \A r \in 1 .. thread :
            r \in dropped \/ In(calls, r) \/ In(queue, r) \/ r = consumer \/ Found(r)
      /\ handler # "failing"
      /\ handler \in {"stopping", "waiting", "returned"} =>
            ~Writing /\ \A n \in DOMAIN queue : queue[n] = Stop
  BY <1>3 DEF Accounted, Found
<1>5. ~WriteFails /\ ~FailureBegins /\ ~FailureEnds /\ ~FailureLost
  BY <1>2, <1>4 DEF WriteFails, FailureBegins, FailureEnds, FailureLost
<1>6. CASE Report
  <2>1. /\ thread' = thread + 1 /\ calls' = Append(calls, thread + 1) /\ handler' = "running"
        /\ UNCHANGED <<queue, consumer, dropped>>
    BY <1>6 DEF Report
  <2>2. thread + 1 \in 1 .. Reports
    BY <1>0, <1>6 DEF Report
  <2>3. /\ DOMAIN calls = 1 .. Len(calls) /\ Len(calls) \in Nat
        /\ DOMAIN calls' = 1 .. Len(calls) + 1 /\ calls'[Len(calls) + 1] = thread + 1
        /\ \A n \in DOMAIN calls : n \in DOMAIN calls' /\ calls'[n] = calls[n]
    BY <1>0, <2>1, <2>2, Pushed
  <2>4. \A r : In(calls, r) => In(calls', r)
    BY <2>3 DEF In
  <2>5. In(calls', thread + 1)
    BY <2>3 DEF In
  <2>6. \A r \in 1 .. thread' : r \in 1 .. thread \/ r = thread + 1
    BY <1>0, <2>1
  <2> QED
    BY <1>1, <1>4, <2>1, <2>4, <2>5, <2>6
<1>7. CASE Enqueue
  <2>1. /\ calls # <<>> /\ calls' = Tail(calls)
        /\ \/ queue' = Append(queue, Head(calls)) /\ dropped' = dropped
           \/ queue' = queue /\ dropped' = dropped \cup {Head(calls)}
        /\ UNCHANGED <<thread, consumer, handler>>
    BY <1>7 DEF Enqueue
  <2>2. handler' = "running"
    BY <2>1 DEF Ending
  <2>3. /\ Head(calls) = calls[1] /\ 1 \in 1 .. Len(calls) /\ Len(calls) \in Nat
        /\ DOMAIN calls = 1 .. Len(calls) /\ DOMAIN calls' = 1 .. Len(calls) - 1
        /\ \A n \in 1 .. Len(calls) - 1 : calls'[n] = calls[n + 1]
    BY <1>0, <2>1, Popped
  <2>4. Head(calls) \in 1 .. Stop
    BY <1>0, <2>3, ElementOfSeq
  <2>5. \A r : In(calls, r) => In(calls', r) \/ r = Head(calls)
    <3>1. ASSUME NEW n \in DOMAIN calls
          PROVE  In(calls', calls[n]) \/ calls[n] = Head(calls)
      <4>1. n = 1 \/ (n - 1 \in DOMAIN calls' /\ calls'[n - 1] = calls[n])
        BY <2>3
      <4> QED
        BY <2>3, <4>1 DEF In
    <3> QED
      BY <3>1 DEF In
  <2>6. (\A r : In(queue, r) => In(queue', r)) /\ (In(queue', Head(calls)) \/ Head(calls) \in dropped')
    <3>1. CASE queue' = Append(queue, Head(calls))
      <4>1. /\ DOMAIN queue = 1 .. Len(queue) /\ Len(queue) \in Nat
            /\ DOMAIN queue' = 1 .. Len(queue) + 1 /\ queue'[Len(queue) + 1] = Head(calls)
            /\ \A n \in DOMAIN queue : n \in DOMAIN queue' /\ queue'[n] = queue[n]
        BY <1>0, <2>4, <3>1, Pushed
      <4> QED
        BY <4>1 DEF In
    <3> QED
      BY <2>1, <3>1
  <2>7. dropped \subseteq dropped'
    BY <2>1
  <2> QED
    BY <1>1, <1>4, <2>1, <2>2, <2>5, <2>6, <2>7
<1>8. CASE Take
  <2>1. /\ consumer = 0 /\ queue # <<>> /\ consumer' = Head(queue) /\ queue' = Tail(queue)
        /\ UNCHANGED <<thread, calls, dropped, handler>>
    BY <1>8 DEF Take
  <2>2. /\ Head(queue) = queue[1] /\ 1 \in DOMAIN queue /\ Len(queue) \in Nat
        /\ DOMAIN queue = 1 .. Len(queue) /\ DOMAIN queue' = 1 .. Len(queue) - 1
        /\ \A n \in DOMAIN queue' : n + 1 \in DOMAIN queue /\ queue'[n] = queue[n + 1]
    BY <1>0, <2>1, Popped
  <2>3. \A r : In(queue, r) => In(queue', r) \/ r = consumer'
    <3>1. ASSUME NEW n \in DOMAIN queue
          PROVE  In(queue', queue[n]) \/ queue[n] = consumer'
      <4>1. n = 1 \/ (n - 1 \in DOMAIN queue' /\ queue'[n - 1] = queue[n])
        BY <2>2
      <4> QED
        BY <2>1, <2>2, <4>1 DEF In
    <3> QED
      BY <3>1 DEF In
  <2>4. handler \in {"stopping", "waiting", "returned"} =>
           consumer' = Stop /\ \A n \in DOMAIN queue' : queue'[n] = Stop
    BY <1>4, <2>1, <2>2
  <2>5. consumer' = Stop => ~Writing'
    BY <1>0 DEF Writing
  <2> QED
    BY <1>0, <1>1, <1>4, <2>1, <2>3, <2>4, <2>5
<1>9. CASE WriteEnds
  <2> DEFINE i == writer["consumer"]
  <2>1. /\ Writing /\ Commit("consumer") /\ consumer' = 0
        /\ UNCHANGED <<thread, calls, queue, dropped, handler>>
    BY <1>9 DEF WriteEnds
  <2>2. /\ Settled("consumer") /\ events'[i].state = "committed"
        /\ i \in DOMAIN events /\ events[i].report = consumer
    BY <2>1, LineTypes, Sessions, Settles DEF Hands, Commit
  <2>3. i \in DOMAIN events' /\ events'[i].report = consumer /\ consumer # 0
    BY <1>0, <2>1, <2>2 DEF Settled, Writing
  <2>4. \A r : r = consumer => Found(r)'
    <3>1. PICK c \in 0 .. Stop : c = consumer
      BY <1>0
    <3>2. \E j \in Written' : events'[j].report = c
      BY <2>2, <2>3, <3>1 DEF Written, Committed
    <3> QED
      BY <3>1, <3>2 DEF Found
  <2> QED
    BY <1>1, <1>4, <2>1, <2>4
<1>10. CASE Join
  <2>1. /\ queue = <<>> /\ consumer = 0 /\ UNCHANGED <<thread, calls, queue, dropped, consumer>>
        /\ handler' = "stopping"
    BY <1>2, <1>10 DEF Join, Drained
  <2>2. DOMAIN queue = {} /\ ~Writing'
    BY <1>0, <2>1, LineTypes DEF Writing
  <2> QED
    BY <1>1, <1>4, <2>1, <2>2
<1>11. CASE PutStop
  <2>1. /\ queue' = Append(queue, Stop) /\ UNCHANGED <<thread, calls, dropped, consumer>>
        /\ handler = "stopping" /\ handler' = "waiting"
    BY <1>11 DEF PutStop
  <2>2. /\ DOMAIN queue = 1 .. Len(queue) /\ Len(queue) \in Nat
        /\ DOMAIN queue' = 1 .. Len(queue) + 1 /\ queue'[Len(queue) + 1] = Stop
        /\ \A n \in DOMAIN queue : n \in DOMAIN queue' /\ queue'[n] = queue[n]
    <3>1. Stop \in 1 .. Stop
      BY <1>0
    <3> QED
      BY <1>0, <2>1, <3>1, Pushed
  <2>3. \A r : In(queue, r) => In(queue', r)
    BY <2>2 DEF In
  <2>4. \A n \in DOMAIN queue' : queue'[n] = Stop
    BY <1>4, <2>1, <2>2
  <2>5. ~Writing'
    BY <1>4, <2>1 DEF Writing
  <2> QED
    BY <1>1, <1>4, <2>1, <2>3, <2>4, <2>5
<1>12. CASE ConsumerCancelled
  <2>1. /\ handler = "waiting" /\ handler' = "returned" /\ consumer' = Stop
        /\ UNCHANGED <<thread, calls, queue, dropped>>
    BY <1>12 DEF ConsumerCancelled
  <2>2. ~Writing /\ ~Writing'
    BY <1>0, <1>4, <2>1 DEF Writing
  <2>3. ~(consumer \in 1 .. thread)
    BY <1>0, <2>2 DEF Writing
  <2> QED
    BY <1>1, <1>4, <2>1, <2>2, <2>3
<1>13. ASSUME UNCHANGED <<thread, calls, queue, dropped, consumer>>,
              handler' = handler \/ handler' = "joining" \/ (handler = "waiting" /\ handler' = "returned")
       PROVE  /\ \A r \in 1 .. thread' :
                    r \in dropped' \/ In(calls', r) \/ In(queue', r) \/ r = consumer' \/ Found(r)'
              /\ handler' # "failing"
              /\ handler' \in {"stopping", "waiting", "returned"} =>
                    ~Writing' /\ \A n \in DOMAIN queue' : queue'[n] = Stop
  <2>1. Writing' <=> Writing
    BY <1>13 DEF Writing
  <2> QED
    BY <1>1, <1>4, <1>13, <2>1
<1>14. CASE WriteBegins \/ AgentEnds \/ ConsumerEnded \/ Api \/ Watch
  <2>1. UNCHANGED <<thread, calls, queue, dropped, consumer>>
    BY <1>14 DEF WriteBegins, AgentEnds, ConsumerEnded, Api, Answered, OutcomeBegins,
       OutcomeCommits, OutcomeEnds, Watch, reporterVars
  <2>2. handler' = handler \/ handler' = "joining" \/ (handler = "waiting" /\ handler' = "returned")
    BY <1>2, <1>14 DEF WriteBegins, AgentEnds, ConsumerEnded, Api, Answered, OutcomeBegins,
       OutcomeCommits, OutcomeEnds, Watch, reporterVars
  <2> QED
    BY <1>13, <2>1, <2>2
<1> QED
  BY <1>5, <1>6, <1>7, <1>8, <1>9, <1>10, <1>11, <1>12, <1>14 DEF Next, Runtime

(***************************************************************************)
(* The theorems                                                            *)
(***************************************************************************)

LEMMA ReporterInit ==
    ASSUME Init
    PROVE  ReporterInv
<1>1. /\ events = <<>> /\ writer = [w \in Writers |-> 0] /\ applied = 0 /\ channel = <<>>
      /\ stream = Closed /\ client = NewClient
      /\ thread = 0 /\ calls = <<>> /\ queue = <<>> /\ consumer = 0
      /\ handler = "running" /\ dropped = {} /\ api = "waiting" /\ faults = 0
  BY DEF Init, StreamInit
<1>2. /\ \A S : <<>> \in Seq(S) /\ Len(<<>>) = 0
      /\ DOMAIN <<>> = {}
  BY EmptySeq, LenProperties
<1>3. /\ 0 \in 0 .. MaxEvents /\ 0 \in 0 .. Reports /\ 0 \in 0 .. Stop /\ 0 \in Nat
      /\ Reports \in Nat /\ QueueSize \in Nat /\ Stop # 0 /\ MaxEvents \in Nat
      /\ ~(0 \in 1 .. Reports) /\ 1 .. 0 = {}
  BY StreamBounds, ReporterBounds DEF Stop
<1>4. EventTypes
  <2>1. Len(<<>>) <= MaxEvents
    BY <1>2, <1>3
  <2> QED
    BY <1>1, <1>2, <1>3, <2>1 DEF EventTypes
<1>5. StreamTypes /\ Watching /\ Replayed
  <2>1. Closed \in Stream /\ Closed.out = {} /\ Closed.boundary = 0 /\ Closed.pc = "off"
    BY <1>3 DEF Closed, Stream
  <2>2. /\ NewClient \in Client /\ NewClient.last = 0
        /\ NewClient.logs = {} /\ NewClient.loose = {}
        /\ \A i \in Ids : NewClient.frames[i] = 0 /\ NewClient.replays[i] = 0
    BY <1>3 DEF NewClient, Client
  <2> QED
    BY <1>1, <1>2, <2>1, <2>2 DEF StreamTypes, Watching, Replayed
<1>6. ReporterTypes
  <2>1. Len(<<>>) <= QueueSize
    BY <1>2, <1>3
  <2> QED
    BY <1>1, <1>2, <1>3, <2>1 DEF ReporterTypes
<1>7. Hands
  BY <1>1, Sessions DEF Hands
<1>8. InLine
  BY <1>1, <1>2, <1>3 DEF InLine, Ascending, Behindhand, Writing
<1>9. Ending /\ Accounted
  BY <1>1, <1>2, <1>3 DEF Ending, Accounted
<1> QED
  BY <1>4, <1>5, <1>6, <1>7, <1>8, <1>9, TypesAre DEF ReporterInv

LEMMA ReporterStep ==
    ASSUME ReporterInv, [Next]_vars
    PROVE  ReporterInv'
<1>1. CASE Next
  <2>1. Types' /\ Watching' /\ Replayed' /\ Hands'
    BY <1>1, TypesStep, HandsStep DEF ReporterInv
  <2>2. InLine' /\ Ending' /\ Accounted'
    BY <1>1, <2>1, LineStep, EndingStep, AccountedStep DEF ReporterInv
  <2> QED
    BY <2>1, <2>2 DEF ReporterInv
<1>2. CASE UNCHANGED vars
  <2>1. UNCHANGED <<streamVars, reporterVars>>
    BY <1>2 DEF vars
  <2>2. Types' /\ Watching' /\ Replayed'
    BY <2>1 DEF ReporterInv, Types, TypeOK, MoreTypes, Watching, Replayed, streamVars,
       reporterVars, Committed, Logs
  <2>3. Hands' /\ InLine' /\ Ending'
    BY <2>1 DEF ReporterInv, Hands, InLine, Ending, Ascending, Behindhand, Writing, streamVars,
       reporterVars
  <2>4. Accounted'
    BY <2>1 DEF ReporterInv, Accounted, In, Written, Committed, Writing, streamVars, reporterVars
  <2> QED
    BY <2>2, <2>3, <2>4 DEF ReporterInv
<1> QED
  BY <1>1, <1>2

\* The invariant of the reporter, the stream and the invocation.
THEOREM ReporterInvariant == Spec => []ReporterInv
BY ReporterInit, ReporterStep, PTL DEF Spec

\* The rows, the queue within its limit, the tasks and the connection keep
\* their types.
THEOREM ReporterTypeCorrect == Spec => []TypeOK
<1>1. ReporterInv => TypeOK
  BY DEF ReporterInv, Types
<1> QED
  BY <1>1, ReporterInvariant, PTL

\* The event stream shows the reports in the order the agent made them,
\* whatever was dropped, failed or rolled back in between.
THEOREM ReportsStayInOrder == Spec => []ReportsInOrder
<1>1. ReporterInv => ReportsInOrder
  BY DEF ReporterInv, InLine, ReportsInOrder, Written, Committed
<1> QED
  BY <1>1, ReporterInvariant, PTL

\* An invocation that met no fault and no full queue has written all its
\* reports by the time it answers.
THEOREM DrainIsComplete == Spec => []DrainFlushes
<1>1. ASSUME ReporterInv, handler = "returned", faults = 0, dropped = {}, NEW r \in 1 .. thread
      PROVE  \E i \in Written : events[i].report = r
  <2>1. /\ thread < Stop /\ thread \in Nat /\ Stop \in Nat
    BY <1>1, LineTypes DEF ReporterInv
  <2>2. /\ r \in dropped \/ In(calls, r) \/ In(queue, r) \/ r = consumer
           \/ \E i \in Written : events[i].report = r
        /\ \A n \in DOMAIN queue : queue[n] = Stop
    BY <1>1 DEF ReporterInv, Accounted
  <2>3. calls = <<>> /\ consumer = Stop
    BY <1>1 DEF ReporterInv, Ending
  <2>4. ~In(calls, r)
    BY <1>1, <2>3, LineTypes DEF ReporterInv, In
  <2>5. r # Stop
    BY <2>1
  <2> QED
    BY <1>1, <2>2, <2>3, <2>4, <2>5 DEF In
<1>2. ReporterInv => DrainFlushes
  BY <1>1 DEF DrainFlushes
<1> QED
  BY <1>2, ReporterInvariant, PTL

\* After the answer nothing of the invocation is written any more, so the API
\* can close the stage without being overwritten.
THEOREM NothingAfterAnswer == Spec => SilentAfterAnswer
<1>1. ASSUME ReporterInv, Next, handler = "returned"
      PROVE  Written' \subseteq Written
  <2>1. consumer = Stop /\ Types /\ Hands /\ EventTypes /\ ~Writing
    BY <1>1, LineTypes DEF ReporterInv, Ending, Writing
  <2>2. ~WriteBegins /\ ~WriteEnds
    BY <2>1 DEF WriteBegins, WriteEnds
  <2>3. SameRows
    BY <1>1, <2>1, <2>2, EventsStep
  <2>4. ASSUME NEW i \in Written', i \notin Written
        PROVE  FALSE
    <3>1. i \in DOMAIN events /\ events'[i].report = events[i].report /\ events[i].report # 0
      BY <2>3, <2>4 DEF SameRows, Written, Committed
    <3>2. events[i].state # "committed" /\ events'[i].state = "committed"
      BY <2>4, <3>1 DEF Written, Committed
    <3>3. PICK w \in Writers : Commit(w) \/ Abort(w)
      <4>1. events' # events
        BY <3>2
      <4>2. ASSUME NEW w \in Writers, NEW k \in Kind, Insert(w, k, 0)
            PROVE  FALSE
        <5>1. Inserted(w, k, 0)
          BY <2>1, <4>2, Inserts
        <5> QED
          BY <3>1, <3>2, <5>1 DEF Inserted
      <4>3. ~Publish("api") /\ ~StreamStep /\ ~UNCHANGED streamVars
        BY <4>1 DEF Publish, StreamStep, Subscribe, ReadBoundary, ReadHistory, ReadSnapshot,
           Begin, Poll, Send, Disconnect, streamVars
      <4> QED
        BY <1>1, <2>2, <4>2, <4>3, StepKinds
    <3>4. Settled(w)
      BY <2>1, <3>3, Settles DEF Hands
    <3>5. i = writer[w]
      BY <3>1, <3>2, <3>4 DEF Settled
    <3>6. w = "consumer"
      BY <2>1, <3>1, <3>4, <3>5 DEF Settled, Hands
    <3> QED
      BY <2>1, <3>4, <3>6 DEF Settled, Hands
  <2> QED
    BY <2>4
<1>2. ReporterInv /\ [Next]_vars =>
         [handler = "returned" => {i \in Written' : i \notin Written} = {}]_vars
  BY <1>1
<1> QED
  BY <1>2, ReporterInvariant, PTL DEF Spec, SilentAfterAnswer

\* A browser that stays on the page gets no status event and no numbered frame
\* twice, over any number of reconnections and whatever order ids, commits and
\* messages come in.  A log comes a second time only if it was replayed without a
\* number from above the boundary, or before a connection that gave no number.
THEOREM FramesAreNotRepeated == Spec => []NoRepeat
<1>1. ASSUME ReporterInv, NEW i \in Ids
      PROVE  /\ client.frames[i] <= 1
             /\ client.frames[i] + client.replays[i] > 1 =>
                   events[i].kind = "log" /\ i \in client.loose
  <2>1. client.frames[i] \in Nat /\ client.replays[i] \in Nat /\ client.frames[i] <= 1
    BY <1>1, TypesAre DEF ReporterInv, StreamTypes, Client, Watching
  <2>2. client.replays[i] # 0 =>
           i \in client.loose \/ (client.replays[i] = 1 /\ client.frames[i] = 0)
    BY <1>1 DEF ReporterInv, Replayed
  <2>3. i \in client.loose => events[i].kind = "log"
    BY <1>1 DEF ReporterInv, Replayed, Logs
  <2>4. PICK m, n \in Nat : m = client.frames[i] /\ n = client.replays[i]
    BY <2>1
  <2>5. m <= 1 /\ (m + n > 1 => n # 0 /\ ~(n = 1 /\ m = 0))
    BY <2>1, <2>4
  <2> QED
    BY <2>2, <2>3, <2>4, <2>5
<1>2. ReporterInv => NoRepeat
  BY <1>1 DEF NoRepeat
<1> QED
  BY <1>2, ReporterInvariant, PTL
=============================================================================
