---------------------------- MODULE EventStream ----------------------------
(***************************************************************************)
(* The events of one pipeline run (pipeline_events) and a browser that     *)
(* follows them over SSE (router.py, stream_run_events).  Several writers  *)
(* insert events: the API process, and the AgentCore Runtime from its own  *)
(* sessions.  An event gets its id at the INSERT and becomes visible at    *)
(* the COMMIT (worker/status_recorder.py), so ids and commits may disagree *)
(* on the order.  The stream follows the ids with a cursor.                *)
(***************************************************************************)
EXTENDS Integers, Sequences, FiniteSets

CONSTANTS
    Writers,      \* database sessions that insert events of the run
    Publishers,   \* those that also publish to Redis after the commit
    MaxEvents,    \* bound: ids allocated
    MaxConnects,  \* bound: connections of the browser
    ReplayLimit   \* AGENT_LOG_REPLAY_LIMIT

ASSUME StreamBounds == MaxEvents \in Nat \ {0} /\ MaxConnects \in Nat
ASSUME PublishersWrite == Publishers \subseteq Writers

VARIABLES
    events,   \* the rows in the order of their ids
    writer,   \* the event a writer is at, 0: none
    applied,  \* the status event whose content the row of the run holds
    channel,  \* the messages of the subscription
    stream,   \* the generator of the SSE response
    client    \* what the browser has received

streamVars == <<events, writer, applied, channel, stream, client>>

Ids == 1 .. MaxEvents
Kind == {"status", "log"}

\* report: the number of the report a Runtime writes, 0 for other events.
\* late: a younger event was committed before this one.
Event == [kind : Kind, state : {"open", "committed", "aborted"},
          report : Nat, late : BOOLEAN]
Stream == [pc : {"off", "subscribed", "bounded", "loaded", "ready", "live"},
           boundary : 0 .. MaxEvents, cursor : 0 .. MaxEvents,
           out : SUBSET Ids, snapshot : 0 .. MaxEvents, opened : Nat]

\* last: the Last-Event-ID;  status: the status event the screen shows;
\* frames, replays: history, how often the event arrived with its number and
\* without (its payload carries the id either way);
\* loose: history, logs that came without a number and will be sent again: from
\* above the boundary, or to a browser that reconnects without a number.
Client == [last : 0 .. MaxEvents, status : 0 .. MaxEvents, logs : SUBSET Ids,
           frames : [Ids -> Nat], replays : [Ids -> Nat], loose : SUBSET Ids]

Closed == [pc |-> "off", boundary |-> 0, cursor |-> 0, out |-> {},
           snapshot |-> 0, opened |-> 0]
NewClient == [last |-> 0, status |-> 0, logs |-> {}, frames |-> [i \in Ids |-> 0],
              replays |-> [i \in Ids |-> 0], loose |-> {}]

Committed == {i \in DOMAIN events : events[i].state = "committed"}
Logs == {i \in Committed : events[i].kind = "log"}
Newest(S) == IF S = {} THEN 0 ELSE CHOOSE i \in S : \A j \in S : j <= i
Oldest(S) == CHOOSE i \in S : \A j \in S : i <= j

StreamInit ==
    /\ events = <<>>
    /\ writer = [w \in Writers |-> 0]
    /\ applied = 0
    /\ channel = <<>>
    /\ stream = Closed
    /\ client = NewClient

-----------------------------------------------------------------------------
(* Writing an event *)

\* Faulty: the event of a status does not come with an UPDATE of the run.
RunUnlocked(k) == TRUE

\* The UPDATE of the run is flushed before the event is inserted and holds
\* the lock on the row until the commit: status events of a run follow one
\* another.  A log row leaves the run alone and waits for nobody.
RunLocked(k) ==
    k = "status" => \A w \in Writers : writer[w] \in DOMAIN events
                       => \/ events[writer[w]].kind = "log"
                          \/ events[writer[w]].state = "committed"

Insert(w, k, r) ==
    /\ writer[w] = 0
    /\ Len(events) < MaxEvents
    /\ RunLocked(k)
    /\ events' = Append(events, [kind |-> k, state |-> "open", report |-> r,
                                 late |-> FALSE])
    /\ writer' = [writer EXCEPT ![w] = Len(events) + 1]
    /\ UNCHANGED <<applied, channel, stream, client>>

Commit(w) ==
    LET i == writer[w] IN
    /\ i # 0
    /\ events[i].state = "open"
    /\ events' = [events EXCEPT ![i].state = "committed",
                                ![i].late = \E j \in Committed : j > i]
    /\ applied' = IF events[i].kind = "status" THEN i ELSE applied
    /\ writer' = IF w \in Publishers THEN writer ELSE [writer EXCEPT ![w] = 0]
    /\ UNCHANGED <<channel, stream, client>>

Abort(w) ==
    /\ writer[w] # 0
    /\ events[writer[w]].state = "open"
    /\ events' = [events EXCEPT ![writer[w]].state = "aborted"]
    /\ writer' = [writer EXCEPT ![w] = 0]
    /\ UNCHANGED <<applied, channel, stream, client>>

\* publish_to_screen swallows every error of Redis.
Publish(w) ==
    /\ w \in Publishers
    /\ writer[w] # 0
    /\ events[writer[w]].state = "committed"
    /\ writer' = [writer EXCEPT ![w] = 0]
    /\ channel' \in IF stream.pc = "off" THEN {channel}
                    ELSE {channel, Append(channel, writer[w])}
    /\ UNCHANGED <<events, applied, stream, client>>

-----------------------------------------------------------------------------
(* The stream *)

Subscribe ==
    /\ stream.pc = "off"
    /\ stream.opened < MaxConnects
    /\ stream' = [Closed EXCEPT !.pc = "subscribed", !.opened = stream.opened + 1]
    /\ channel' = <<>>
    /\ UNCHANGED <<events, writer, applied, client>>

ReadBoundary ==
    /\ stream.pc = "subscribed"
    /\ stream' = [stream EXCEPT !.pc = "bounded", !.boundary = Newest(Committed)]
    /\ UNCHANGED <<events, writer, applied, channel, client>>

\* A client that reconnects gets what it missed up to the boundary, a new one
\* the most recent logs, whatever the boundary.
Missed ==
    IF client.last # 0
    THEN {i \in Committed : client.last < i /\ i <= stream.boundary}
    ELSE {i \in Logs : Cardinality({j \in Logs : j >= i}) <= ReplayLimit}

ReadHistory ==
    /\ stream.pc = "bounded"
    /\ stream' = [stream EXCEPT !.pc = "loaded", !.out = Missed]
    /\ UNCHANGED <<events, writer, applied, channel, client>>

\* Faulty: the snapshot shows the status of the newest event in the history.
ReadSnapshotOfHistory ==
    /\ stream.pc = "loaded"
    /\ stream' = [stream EXCEPT !.pc = "ready", !.snapshot = Newest(stream.out)]
    /\ UNCHANGED <<events, writer, applied, channel, client>>

\* The row of the run is read last, and before anything is sent.
ReadSnapshot ==
    /\ stream.pc = "loaded"
    /\ stream' = [stream EXCEPT !.pc = "ready", !.snapshot = applied]
    /\ UNCHANGED <<events, writer, applied, channel, client>>

\* The browser has received frame i; frames of the replay have no number.
Received(i, number) ==
    [client EXCEPT
       !.last = IF number THEN i ELSE @,
       !.status = IF events[i].kind = "status" THEN i ELSE @,
       !.logs = IF events[i].kind = "log" THEN @ \cup {i} ELSE @,
       !.frames[i] = IF number THEN @ + 1 ELSE @,
       !.replays[i] = IF number THEN @ ELSE @ + 1,
       !.loose = IF number \/ i <= stream.boundary THEN @ ELSE @ \cup {i}]

\* The missed frames and the snapshot go out.  The snapshot takes the number
\* of the boundary, and the cursor starts there.
Begin ==
    /\ stream.pc = "ready"
    /\ IF stream.out # {}
       THEN LET i == Oldest(stream.out) IN
            /\ client' = Received(i, client.last # 0)
            /\ stream' = [stream EXCEPT !.out = @ \ {i}]
       ELSE /\ client' = [client EXCEPT !.status = stream.snapshot,
                 !.last = IF stream.boundary # 0 THEN stream.boundary ELSE @]
            /\ stream' = [stream EXCEPT !.pc = "live", !.cursor = stream.boundary]
    /\ UNCHANGED <<events, writer, applied, channel>>

Behind == {i \in Committed : i > stream.cursor}

\* Faulty: the message is sent on without a look at the cursor.
PollUnchecked ==
    /\ stream.pc = "live"
    /\ stream.out = {}
    /\ channel # <<>> \/ Behind # {}
    /\ LET message == IF channel = <<>> THEN {} ELSE {Head(channel)} IN
       stream' = [stream EXCEPT !.out = Behind \cup message]
    /\ channel' = IF channel = <<>> THEN channel ELSE Tail(channel)
    /\ UNCHANGED <<events, writer, applied, client>>

\* One turn of the loop: a message if there is one, then the database.  The
\* message is sent on only when the cursor has not passed it by then.
Poll ==
    /\ stream.pc = "live"
    /\ stream.out = {}
    /\ channel # <<>> \/ Behind # {}
    /\ LET message == IF channel = <<>> THEN {} ELSE {Head(channel)} IN
       stream' = [stream EXCEPT !.out = Behind \cup
                    {i \in message : i > Newest(Behind \cup {stream.cursor})}]
    /\ channel' = IF channel = <<>> THEN channel ELSE Tail(channel)
    /\ UNCHANGED <<events, writer, applied, client>>

Send ==
    /\ stream.pc = "live"
    /\ stream.out # {}
    /\ LET i == Oldest(stream.out) IN
       /\ client' = Received(i, TRUE)
       /\ stream' = [stream EXCEPT !.out = @ \ {i}, !.cursor = i]
    /\ UNCHANGED <<events, writer, applied, channel>>

\* The connection breaks; the browser connects again with the Last-Event-ID
\* or, after a reload of the page, as a new client.  If it has no number yet it
\* gets the recent logs again.
Disconnect ==
    /\ stream.pc # "off"
    /\ stream.opened < MaxConnects
    /\ stream' = [Closed EXCEPT !.opened = stream.opened]
    /\ channel' = <<>>
    /\ client' \in {[client EXCEPT !.loose = IF client.last = 0 THEN client.logs
                                            ELSE @], NewClient}
    /\ UNCHANGED <<events, writer, applied>>

StreamStep ==
    \/ Subscribe \/ ReadBoundary \/ ReadHistory \/ ReadSnapshot \/ Begin \/ Poll \/ Send
    \/ Disconnect
=============================================================================
