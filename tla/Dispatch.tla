------------------------------- MODULE Dispatch -------------------------------
(***************************************************************************)
(* What the client does with the requests it reads, for resources without  *)
(* a stream handler: handle_resource_request() resolves them, runs RUN and *)
(* DESCRIBE on the resource pool, keeps the table of streams and streams   *)
(* resources when they start, change or their interval is over.  The event *)
(* subscriptions are streams of the same table, under random ids.          *)
(*                                                                         *)
(* Everything but the handlers in the pool runs on one io_context thread.  *)
(* The server is external: it is orderly, it starts a stream under an id   *)
(* that is free and stops and feeds only streams that are open.  A request *)
(* arrives when it is sent; answers and data wait in write_queue_.  How    *)
(* the connection comes and goes is the subject of Client; here it is lost *)
(* and found in one step each.                                             *)
(***************************************************************************)
EXTENDS Integers, Sequences, FiniteSets

CONSTANTS
  Plain,           \* resources of resources_, without a stream handler
  Events,          \* subscriptions of events_
  Kind,            \* io_type_ of each of them
  Ids,             \* ids of requests and streams, without 0
  None,            \* no entry, no id
  MaxConnections,  \* bound on the connections
  MaxQueue         \* bound on the messages of write_queue_

Resources == Plain \cup Events
Entry == [resource : Resources, interval : BOOLEAN]
Request == {"RUN", "DESCRIBE", "START_STREAM", "STOP_STREAM"}

ASSUME DispatchAssumption ==
  /\ Plain \cap Events = {}
  /\ Kind \in [Resources -> {"run", "input", "output", "input_output"}]
  /\ None \notin Ids \cup Request \cup Entry
  /\ MaxConnections \in Nat \ {0}
  /\ MaxQueue \in Nat \ {0}

VARIABLES
  trouble,     \* what goes wrong in this behaviour
  conn,        \* the connection, counted
  phase,       \* the connection is down, starting its streams, or ready
  interval_loop,  \* stream_interval_loop() runs
  streams,     \* streams_: the resource and whether it has an interval
  stream_id,   \* stream_id_ of each resource
  pool,        \* requests a handler of the resource pool is running
  queue,       \* write_queue_, the message being written included
  write_in_progress,  \* write_in_progress_
  after,       \* continuations the pool is to run
  awaiting,    \* what the server waits for, under each id
  opened,      \* streams the server knows are open
  subscribed,  \* events started on this connection
  thrown,      \* requests of this connection whose handler threw
  stale        \* ids in use when a connection was lost

link    == <<conn, phase, interval_loop>>
table   == <<streams, stream_id>>
writer  == <<queue, write_in_progress>>
jobs    == <<pool, after>>
server  == <<awaiting, opened, subscribed, thrown, stale>>
vars    == <<trouble, link, table, writer, jobs, server>>

connected == phase # "down"

Answers == {"OK", "ERROR"}

\* A handler may throw, as a conversion of its input does; a random id may be
\* the one of another stream; a lost connection may be found again.  Each
\* behaviour has one of them, which bounds the states.
throws     == trouble = "throws"
collides   == trouble = "collides"
reconnects == trouble = "reconnects"
Troubles   == {"none", "throws", "collides", "reconnects"}

Init ==
  /\ trouble \in Troubles
  /\ conn = 1
  /\ phase = "starting"
  /\ interval_loop = FALSE
  /\ streams = [i \in Ids |-> None]
  /\ stream_id = [r \in Resources |-> None]
  /\ pool = {}
  /\ queue = <<>>
  /\ write_in_progress = FALSE
  /\ after = {}
  /\ awaiting = [i \in Ids |-> None]
  /\ opened = {}
  /\ subscribed = {}
  /\ thrown = {}
  /\ stale = {}

-----------------------------------------------------------------------------
(* Sending                                                                 *)

Message(type, i) == [type |-> type, id |-> i, of |-> conn]

\* A mistake: the write is started without being marked.
SendUnmarked(ms) ==
  /\ queue' = queue \o ms
  /\ UNCHANGED write_in_progress

\* send_message(), once for each message of ms.
Send(ms) ==
  /\ queue' = queue \o ms
  /\ write_in_progress' = (connected /\ queue \o ms # <<>>)

Room == Len(queue) < MaxQueue

\* stream_resource(): a handler that takes input leaves it in the request, one
\* that gives output in the response; a run resource sends nothing.
HasState(r) == Kind[r] # "run"
\* A mistake: the response is sent as it is, an OK.
StateAsAnswer(r, i) == IF HasState(r) THEN <<Message("OK", i)>> ELSE <<>>
State(r, i) == IF HasState(r) THEN <<Message("STREAM_DATA", i)>> ELSE <<>>

\* The handlers of events do not echo.
EchoOf(r, i) == IF r \in Plain THEN State(r, i) ELSE <<>>

\* The head of the queue was written, and the server has it.
Written ==
  /\ connected
  /\ write_in_progress
  /\ LET m == Head(queue)
         answers == m.of = conn /\ m.type \in Answers
         asked == IF answers THEN awaiting[m.id] ELSE None
     IN /\ queue' = Tail(queue)
        /\ write_in_progress' = (Tail(queue) # <<>>)
        /\ awaiting' = IF answers THEN [awaiting EXCEPT ![m.id] = None]
                       ELSE awaiting
        /\ opened' = CASE asked = "STOP_STREAM" -> opened \ {m.id}
                       [] asked = "START_STREAM" /\ m.type = "OK"
                            -> opened \cup {m.id}
                       [] OTHER -> opened
  /\ UNCHANGED <<link, table, jobs, subscribed, thrown, stale>>

-----------------------------------------------------------------------------
(* RUN and DESCRIBE                                                        *)

\* initialize_streams() handles the requests it reads one at a time;
\* read_loop() reads on while handlers run.
Reading ==
  \/ phase = "ready"
  \/ phase = "starting" /\ \A j \in pool : j.of # conn

\* The server asks something under an id that is free.
Asks(i, request) ==
  /\ Reading
  /\ Room
  /\ awaiting[i] = None
  /\ i \notin opened
  /\ i \notin thrown
  /\ awaiting' = [awaiting EXCEPT ![i] = request]
  /\ UNCHANGED <<opened, subscribed, thrown, stale>>

\* No resource matches what is asked; or DESCRIBE without one, which lists the
\* resources.
AskUnresolved(i) ==
  /\ Asks(i, "DESCRIBE")
  /\ \E type \in Answers : Send(<<Message(type, i)>>)
  /\ UNCHANGED <<link, table, jobs>>

\* RUN or DESCRIBE: the handler is run by the resource pool.
AskResource(i, request) ==
  /\ Asks(i, request)
  /\ pool' = pool \cup {[id |-> i, of |-> conn, request |-> request]}
  /\ UNCHANGED <<link, table, writer, after>>

AnswerOf(j, type) == [type |-> type, id |-> j.id, of |-> j.of]

\* A RUN may set_error(); describe() never fails.
Outcomes(j) == IF j.request = "RUN" THEN Answers ELSE {"OK"}

\* The handler returned: on the io_context its answer is sent, on whatever
\* connection there is.  A RUN may leave a continuation, which is given to the
\* pool.  One continuation at a time is modelled.
HandlerReturns(j) ==
  /\ pool' = pool \ {j}
  /\ \E type \in Outcomes(j) : Send(<<AnswerOf(j, type)>>)
  /\ after' \in {after, IF after = {} /\ j.request = "RUN" THEN {j} ELSE after}
  /\ UNCHANGED <<link, table, server>>

\* The handler threw: the coroutine that was to answer ends with it.  While
\* the streams are started that is run_loop() itself, which gives up the
\* connection: Disconnect.
HandlerThrows(j) ==
  /\ throws
  /\ phase = "starting" => j.of # conn
  /\ pool' = pool \ {j}
  /\ thrown' = IF j.of = conn /\ connected THEN thrown \cup {j.id} ELSE thrown
  /\ UNCHANGED <<link, table, writer, after, awaiting, opened, subscribed, stale>>

\* The continuation of request c runs.
Continue(c) ==
  /\ after' = after \ {c}
  /\ UNCHANGED <<link, table, writer, pool, server>>

-----------------------------------------------------------------------------
(* Streams                                                                 *)

\* START_STREAM: the answer goes first, then the state of the resource.
Enabled(r, i, interval) ==
  IF interval THEN stream_id ELSE [stream_id EXCEPT ![r] = i]

StartStream(i, r, interval) ==
  /\ Asks(i, "START_STREAM")
  /\ streams' = [streams EXCEPT ![i] = [resource |-> r, interval |-> interval]]
  /\ stream_id' = Enabled(r, i, interval)
  /\ \/ Send(<<Message("OK", i)>> \o EchoOf(r, i))
     \/ throws /\ phase = "ready" /\ Send(<<Message("OK", i)>>)
  /\ UNCHANGED <<link, jobs>>

\* The id of the resource is cleared if it is that of the stopped stream.
\* A mistake: the id stays.
StillEnabled(i) == stream_id
Disabled(i) ==
  LET r == streams[i].resource
  IN IF stream_id[r] = i THEN [stream_id EXCEPT ![r] = None] ELSE stream_id

\* A mistake: the entry stays.
NotRemoved(i) == streams
Removed(i) == [streams EXCEPT ![i] = None]

\* STOP_STREAM of a stream that is open.
StopStream(i) ==
  /\ Reading
  /\ Room
  /\ i \in opened
  /\ awaiting[i] = None
  /\ streams[i] # None
  /\ awaiting' = [awaiting EXCEPT ![i] = "STOP_STREAM"]
  /\ stream_id' = Disabled(i)
  /\ streams' = Removed(i)
  /\ Send(<<Message("OK", i)>>)
  /\ UNCHANGED <<link, jobs, opened, subscribed, thrown, stale>>

\* STREAM_DATA: the handler runs on the io_context; an input is echoed.
TakesInput(r) == Kind[r] \in {"input", "input_output"}
StreamData(i) ==
  /\ Reading
  /\ Room
  /\ i \in opened
  /\ awaiting[i] = None
  /\ streams[i] # None
  /\ LET r == streams[i].resource
     IN  TakesInput(r) /\ Send(EchoOf(r, i))
  /\ UNCHANGED <<link, table, jobs, server>>

\* The application streams to a resource whose stream_enabled(), with the
\* id it got from it, from a callback of run().
AppStreams(r) ==
  /\ connected
  /\ Room
  /\ stream_id[r] # None
  /\ Send(<<Message("STREAM_DATA", stream_id[r])>>)
  /\ UNCHANGED <<link, table, jobs, server>>

\* A stream's interval is over.  Its data waits in the queue once at a time:
\* this bounds the queue.
\* A mistake: only resources with stream_enabled() are streamed.
DueEnabled(i) ==
  /\ streams[i] # None /\ streams[i].interval
  /\ stream_id[streams[i].resource] # None
Due(i) ==
  /\ streams[i] # None /\ streams[i].interval
  /\ \A k \in DOMAIN queue : queue[k].id # i \/ queue[k].type # "STREAM_DATA"

IntervalOver(i) ==
  /\ interval_loop
  /\ Due(i)
  /\ Send(State(streams[i].resource, i))
  /\ UNCHANGED <<link, table, jobs, server>>

\* The handler threw: the loop ends with it, for all streams.
IntervalThrows(i) ==
  /\ throws
  /\ interval_loop
  /\ Due(i)
  /\ interval_loop' = FALSE
  /\ UNCHANGED <<conn, phase, table, writer, jobs, server>>

-----------------------------------------------------------------------------
(* The connection                                                          *)

\* The id of a subscription is random.
Free(i) == i \notin opened /\ awaiting[i] = None /\ streams[i] = None

\* initialize_streams(): the server accepted the subscription under id i.
Subscribe(e, i) ==
  /\ phase = "starting"
  /\ Reading
  /\ e \in Events \ subscribed
  /\ collides \/ Free(i)
  /\ streams' = [streams EXCEPT ![i] = [resource |-> e, interval |-> FALSE]]
  /\ stream_id' = [stream_id EXCEPT ![e] = i]
  /\ opened' = opened \cup {i}
  /\ subscribed' = subscribed \cup {e}
  /\ UNCHANGED <<link, writer, jobs, awaiting, thrown, stale>>

\* The subscriptions were sent, accepted or not; the loops are launched.
Ready ==
  /\ phase = "starting"
  /\ Reading
  /\ phase' = "ready"
  /\ interval_loop' = TRUE
  /\ UNCHANGED <<conn, table, writer, jobs, server>>

InUse ==
  {i \in Ids : \/ streams[i] # None
               \/ \E r \in Resources : stream_id[r] = i
               \/ \E k \in DOMAIN queue : queue[k].id = i}

\* The connection is lost, with the message being written.  The streams and
\* the rest of the queue stay; the server forgets them.
Disconnect ==
  /\ connected
  /\ phase' = "down"
  /\ interval_loop' = FALSE
  /\ write_in_progress' = FALSE
  /\ queue' = IF write_in_progress THEN Tail(queue) ELSE queue
  /\ awaiting' = [i \in Ids |-> None]
  /\ opened' = {}
  /\ subscribed' = {}
  /\ thrown' = {}
  /\ stale' = stale \cup InUse
  /\ UNCHANGED <<conn, table, jobs>>

Reconnect ==
  /\ ~connected
  /\ reconnects
  /\ conn < MaxConnections
  /\ conn' = conn + 1
  /\ phase' = "starting"
  /\ UNCHANGED <<interval_loop, table, writer, jobs, server>>

Serve ==
  \/ Written
  \/ \E j \in pool : HandlerReturns(j) \/ HandlerThrows(j)
  \/ \E c \in after : Continue(c)
  \/ \E i \in Ids : IntervalOver(i) \/ IntervalThrows(i)

Next ==
  /\ \/ Serve
     \/ \E i \in Ids :
          \/ AskUnresolved(i) \/ StopStream(i) \/ StreamData(i)
          \/ \E request \in {"RUN", "DESCRIBE"} : AskResource(i, request)
          \/ \E r \in Plain, interval \in BOOLEAN : StartStream(i, r, interval)
          \/ \E e \in Events : Subscribe(e, i)
     \/ \E r \in Resources : AppStreams(r)
     \/ Ready \/ Disconnect \/ Reconnect
  /\ UNCHANGED trouble

Spec == Init /\ [][Next]_vars

\* Handlers return or throw, the server takes what is written, and the timer
\* of an interval fires.
FairSpec ==
  /\ Spec
  /\ WF_vars(Written /\ UNCHANGED trouble)
  /\ WF_vars(Ready /\ UNCHANGED trouble)
  /\ \A i \in Ids :
       /\ WF_vars((IntervalOver(i) \/ IntervalThrows(i)) /\ UNCHANGED trouble)
       /\ WF_vars((\E j \in pool : j.id = i /\ j.of = conn /\
                     (HandlerReturns(j) \/ HandlerThrows(j))) /\ UNCHANGED trouble)

-----------------------------------------------------------------------------
(* Properties                                                              *)

Sent == [type : Answers \cup {"STREAM_DATA"}, id : Ids, of : 1..MaxConnections]
Job == [id : Ids, of : 1..MaxConnections, request : {"RUN", "DESCRIBE"}]

TypeOK ==
  /\ trouble \in Troubles
  /\ conn \in 1..MaxConnections
  /\ phase \in {"down", "starting", "ready"}
  /\ interval_loop \in BOOLEAN
  /\ streams \in [Ids -> Entry \cup {None}]
  /\ stream_id \in [Resources -> Ids \cup {None}]
  /\ pool \subseteq Job
  /\ queue \in Seq(Sent)
  /\ write_in_progress \in BOOLEAN
  /\ after \subseteq Job
  /\ awaiting \in [Ids -> Request \cup {None}]
  /\ opened \subseteq Ids
  /\ subscribed \subseteq Events
  /\ thrown \subseteq Ids
  /\ stale \subseteq Ids

\* What will answer request i of this connection.
DueAnswers(i) ==
  Cardinality({k \in DOMAIN queue : /\ queue[k].id = i /\ queue[k].of = conn
                                    /\ queue[k].type \in Answers})
  + Cardinality({j \in pool : j.id = i /\ j.of = conn})

\* However RUN, DESCRIBE, START_STREAM and STOP_STREAM overtake each other in
\* the pool, each has exactly one OK or ERROR under way under its own id until
\* the server has it, and none after; only a handler that throws leaves its
\* request without one.
AnsweredOnce ==
  connected => \A i \in Ids :
    DueAnswers(i) = IF awaiting[i] # None /\ i \notin thrown THEN 1 ELSE 0

\* Stream data reaches the server after the OK that opens its stream and
\* before the one that closes it, whichever of the START, the echo, the
\* interval loop and the application sent it.  The ids that were in use when a
\* connection was lost are the exception.
NoStrayData ==
  connected /\ queue # <<>> /\ Head(queue).type = "STREAM_DATA" /\ ~collides
    => Head(queue).id \in opened \cup stale

\* A resource that says stream_enabled() hands out the id of a stream that is
\* its own in streams_, through all starts and stops of other streams.
EnabledIsOpen ==
  \A r \in Resources :
    stream_id[r] # None /\ stream_id[r] \notin stale /\ ~collides
      => streams[stream_id[r]] = [resource |-> r, interval |-> FALSE]

\* Every request is answered, whatever else is sent, if its handler ends.
RequestIsAnswered ==
  \A i \in Ids :
    (awaiting[i] # None) ~> (awaiting[i] = None \/ i \in thrown)

\* A stream with an interval goes on sending data while it is open and no
\* handler throws.
Flows(i) ==
  /\ phase = "ready" /\ ~throws
  /\ streams[i] # None /\ streams[i].interval /\ HasState(streams[i].resource)
DataQueued(i) ==
  \E k \in DOMAIN queue : queue[k].id = i /\ queue[k].type = "STREAM_DATA"
IntervalFlows ==
  \A i \in Ids : Flows(i) ~> (DataQueued(i) \/ ~Flows(i))

-----------------------------------------------------------------------------
(* What the code does not guarantee                                        *)

\* "Register a callback that will run after the response for this request has
\* been sent on the wire": the continuation runs when the answer has left
\* write_queue_.
AfterResponseSent ==
  [][\A c \in after : c \notin after' =>
       \A k \in DOMAIN queue :
         queue[k].id # c.id \/ queue[k].of # c.of \/ queue[k].type \notin Answers]_vars

\* One handler that throws does not keep the other streams from flowing.
IntervalAlwaysFlows ==
  \A i \in Ids :
    (phase = "ready" /\ streams[i] # None /\ streams[i].interval
       /\ HasState(streams[i].resource))
      ~> (DataQueued(i) \/ phase # "ready" \/ streams[i] = None)

\* The streams of a connection end with it: no data for them is sent on the
\* next one.
NoStaleData ==
  connected /\ queue # <<>> /\ Head(queue).type = "STREAM_DATA"
    => Head(queue).id \in opened

\* An answer goes out on the connection its request came from.
AnswerIsExpected ==
  connected /\ write_in_progress /\ Head(queue).type \in Answers
    => Head(queue).of = conn
===============================================================================
