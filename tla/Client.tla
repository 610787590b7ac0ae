-------------------------------- MODULE Client --------------------------------
(***************************************************************************)
(* The connection of the client: run_loop() connects, authenticates,       *)
(* starts the streams of the event subscriptions and reads; responses,     *)
(* keep-alives and stream data go through write_queue_, which one          *)
(* coroutine at a time writes; stop() runs on the application's thread.    *)
(*                                                                         *)
(* A step is what a coroutine does between two suspensions.  A message is  *)
(* abstracted to the connection it belongs to, the current one or an       *)
(* earlier one.  The network is external: any connect, read or write may   *)
(* fail, and a read may never complete.                                    *)
(***************************************************************************)
EXTENDS Integers, Sequences

CONSTANTS
  NumEvents,  \* subscriptions in events_
  MaxQueue,   \* bound on the messages of write_queue_
  None,       \* process_write_queue() has no write pending
  MayStop     \* TRUE iff the application may call stop()

Events == 1..NumEvents
Age == {"current", "earlier"}

\* A write: of is the connection the message belongs to, to the one whose
\* socket it is written to.
Write == [of : Age, to : Age]

ASSUME ClientAssumption ==
  /\ NumEvents \in Nat
  /\ MaxQueue \in Nat \ {0}
  /\ MayStop \in BOOLEAN
  /\ None \notin Write

VARIABLES
  pc,                 \* where run_loop() is suspended
  running,            \* running_
  connected,          \* connected_
  socket,             \* socket_: null, or an open or closed socket
  event,              \* the subscription initialize_streams() is at
  params,             \* get_params() of each event is not empty
  carried,            \* PARAMETERS of the request in flight is not empty
  queue,              \* write_queue_
  write_in_progress,  \* write_in_progress_
  writing,            \* the message process_write_queue() is writing
  pool,               \* connections of the RUN requests in the resource pool
  stop_pc,            \* progress of stop() on the application's thread
  early_ready,        \* STREAMS_READY was notified with connected_ false
  crashed             \* socket_ was dereferenced when null

link     == <<connected, socket>>
requests == <<event, params, carried>>
writer   == <<queue, write_in_progress, writing>>
stopper  == <<running, stop_pc>>
vars == <<pc, link, requests, writer, pool, stopper, early_ready, crashed>>

Init ==
  /\ pc = "delay"
  /\ running = TRUE
  /\ connected = FALSE
  /\ socket = "null"
  /\ event = 0
  /\ params = [e \in Events |-> TRUE]
  /\ carried = FALSE
  /\ queue = <<>>
  /\ write_in_progress = FALSE
  /\ writing = None
  /\ pool = {}
  /\ stop_pc = "none"
  /\ early_ready = FALSE
  /\ crashed = FALSE

\* The worker threads run, and nothing was dereferenced that is not there.
Alive == ~crashed /\ stop_pc # "stopped"

At(place) == Alive /\ pc = place

\* A coroutine uses socket_ after stop() reset it.
Crashes ==
  /\ crashed' = TRUE
  /\ UNCHANGED <<pc, link, requests, writer, pool, stopper, early_ready>>

-----------------------------------------------------------------------------
(* send_message() and process_write_queue()                                *)

\* The coroutine takes the first message of q, or ends when there is none or
\* the connection is lost.
Proceed(q) ==
  IF q # <<>> /\ connected /\ socket # "null"
  THEN /\ writing' = [of |-> Head(q), to |-> "current"]
       /\ queue' = Tail(q)
       /\ write_in_progress' = TRUE
  ELSE /\ writing' = None
       /\ queue' = q
       /\ write_in_progress' = FALSE

\* send_message() of a message of connection c: a coroutine is spawned unless
\* one is at work.
Enqueue(c) == Append(queue, c)

SendMessage(c) ==
  IF write_in_progress
  THEN /\ queue' = Enqueue(c)
       /\ UNCHANGED <<write_in_progress, writing>>
  ELSE Proceed(Enqueue(c))

\* A write completed.  The socket of an earlier connection is destroyed, so a
\* write to it only fails.
WriteCompletes ==
  /\ Alive
  /\ writing # None
  /\ writing.to = "current"
  /\ Proceed(queue)
  /\ UNCHANGED <<pc, link, requests, pool, stopper, early_ready, crashed>>

\* The socket of a failed write is closed, if there is one.
CloseNothing == UNCHANGED socket
CloseSocket == socket' = IF socket = "null" THEN "null" ELSE "closed"

WriteEndsUnmarked == writing' = None /\ UNCHANGED write_in_progress
WriteEnds == writing' = None /\ write_in_progress' = FALSE

\* A write failed: the connection is marked as lost and socket_ closed,
\* whatever socket the write was on.
WriteFails ==
  /\ Alive
  /\ writing # None
  /\ connected' = FALSE
  /\ CloseSocket
  /\ WriteEnds
  /\ UNCHANGED <<pc, requests, queue, pool, stopper, early_ready, crashed>>

-----------------------------------------------------------------------------
(* run_loop(): connect and authenticate                                    *)

\* The end of a connection cycle; socket_ is not closed.
MarkNothing == UNCHANGED connected
MarkLost == connected' = FALSE

Teardown ==
  /\ pc' = IF running THEN "delay" ELSE "ended"
  /\ MarkLost

\* Closing or destroying a socket ends its write long before the delay does;
\* a write the peer does not take stays pending as long as its socket.
PendingIsOnOpen ==
  writing # None => writing.to = "current" /\ socket = "open"

\* A new socket: what belonged to the current connection is now of an earlier
\* one.  Neither write_queue_ nor the pool is emptied.
BeginConnect ==
  /\ At("delay")
  /\ running
  /\ PendingIsOnOpen
  /\ pc' = "connecting"
  /\ socket' = "open"
  /\ queue' = [i \in DOMAIN queue |-> "earlier"]
  /\ writing' = IF writing = None THEN None
                ELSE [of |-> "earlier", to |-> "earlier"]
  /\ pool' = IF pool = {} THEN {} ELSE {"earlier"}
  /\ UNCHANGED <<connected, requests, write_in_progress, stopper, early_ready,
                 crashed>>

\* The delay is over and stop() was called.
LoopEnds ==
  /\ At("delay")
  /\ ~running
  /\ pc' = "ended"
  /\ UNCHANGED <<link, requests, writer, pool, stopper, early_ready, crashed>>

\* Connected: the timers are created and CONNECT is sent.  A close before the
\* socket was opened did not keep it from connecting.
ConnectDone ==
  /\ At("connecting")
  /\ IF socket = "null" THEN Crashes
     ELSE /\ pc' = "auth_write"
          /\ socket' = "open"
          /\ UNCHANGED <<connected, requests, writer, pool, stopper, early_ready,
                         crashed>>

ConnectFails ==
  /\ At("connecting")
  /\ Teardown
  /\ UNCHANGED <<socket, requests, writer, pool, stopper, early_ready, crashed>>

\* CONNECT is written; its answer is awaited.
AuthWritten ==
  /\ At("auth_write")
  /\ socket # "closed"
  /\ IF socket = "null" THEN Crashes
     ELSE /\ pc' = "auth_read"
          /\ UNCHANGED <<link, requests, writer, pool, stopper, early_ready,
                         crashed>>

AuthWriteFails ==
  /\ At("auth_write")
  /\ CloseSocket
  /\ Teardown
  /\ UNCHANGED <<requests, writer, pool, stopper, early_ready, crashed>>

\* No answer, or not OK.
AuthReadFails ==
  /\ At("auth_read")
  /\ Teardown
  /\ UNCHANGED <<socket, requests, writer, pool, stopper, early_ready, crashed>>

-----------------------------------------------------------------------------
(* initialize_streams()                                                    *)

\* run_loop() from subscription e on, with parameters p and connected_ = c:
\* START_STREAM is sent with the parameters swapped out, or after the last
\* one STREAMS_READY is notified and read_loop() entered.
Initialize(e, p, c) ==
  IF socket' = "null" THEN
    /\ crashed' = TRUE
    /\ UNCHANGED <<pc, connected, requests, running, early_ready>>
  ELSE IF e <= NumEvents THEN
    /\ pc' = "init_write"
    /\ event' = e
    /\ carried' = p[e]
    /\ params' = [p EXCEPT ![e] = FALSE]
    /\ connected' = c
    /\ UNCHANGED <<running, early_ready, crashed>>
  ELSE
    /\ early_ready' = (early_ready \/ ~c)
    /\ pc' = IF running /\ c THEN "reading"
             ELSE IF running THEN "delay" ELSE "ended"
    /\ connected' = (running /\ c)
    /\ event' = 0
    /\ carried' = FALSE
    /\ params' = p
    /\ UNCHANGED <<running, crashed>>

\* Restore params.
Restored == [params EXCEPT ![event] = carried]

Authenticated ==
  /\ At("auth_read")
  /\ UNCHANGED <<socket, writer, pool, stop_pc>>
  /\ Initialize(1, params, TRUE)

InitWritten ==
  /\ At("init_write")
  /\ socket # "closed"
  /\ IF socket = "null" THEN Crashes
     ELSE /\ pc' = "init_read"
          /\ UNCHANGED <<link, requests, writer, pool, stopper, early_ready,
                         crashed>>

\* The request cannot be written: on to the next one.
InitWriteFails ==
  /\ At("init_write")
  /\ CloseSocket
  /\ UNCHANGED <<writer, pool, stop_pc>>
  /\ Initialize(event + 1, params, FALSE)

\* OK, ERROR or a lost connection ends the wait; connected_ stays as it is.
InitAnswered ==
  /\ At("init_read")
  /\ UNCHANGED <<socket, writer, pool, stop_pc>>
  /\ Initialize(event + 1, Restored, connected)

\* The handler of a message wait_response() received meanwhile throws, or that
\* of the event does on the data of the answer: the catch of run_loop() ends
\* the cycle, and the parameters go with the request.
InitThrows ==
  /\ At("init_read")
  /\ Teardown
  /\ event' = 0
  /\ carried' = FALSE
  /\ UNCHANGED <<socket, params, writer, pool, stopper, early_ready, crashed>>

\* wait_response() handles any other message meanwhile and reads on.
InitMessage ==
  /\ At("init_read")
  /\ Len(queue) < MaxQueue
  /\ IF socket = "null" THEN Crashes
     ELSE /\ SendMessage("current")
          /\ UNCHANGED <<pc, link, requests, pool, stopper, early_ready, crashed>>

-----------------------------------------------------------------------------
(* read_loop(), the resource pool and the keep-alive loop                  *)

\* The condition of read_loop() after a message was handled.
ReadOn ==
  IF running /\ connected THEN UNCHANGED <<pc, connected>> ELSE Teardown

\* A message that is answered at once, or one of the keep-alive and stream
\* interval loops sends.
LoopSends ==
  /\ At("reading")
  /\ Len(queue) < MaxQueue
  /\ IF socket = "null" THEN Crashes
     ELSE /\ SendMessage("current")
          /\ ReadOn
          /\ UNCHANGED <<socket, requests, pool, stopper, early_ready, crashed>>

\* RUN or DESCRIBE: dispatched to the resource pool.
ReadRequest ==
  /\ At("reading")
  /\ IF socket = "null" THEN Crashes
     ELSE /\ pool' = pool \cup {"current"}
          /\ ReadOn
          /\ UNCHANGED <<socket, requests, writer, stopper, early_ready, crashed>>

\* The resource was run; the response is sent, whatever happened meanwhile.
PoolResponds(c) ==
  /\ Alive
  /\ c \in pool
  /\ Len(queue) < MaxQueue
  /\ IF socket = "null" /\ ~write_in_progress THEN Crashes
     ELSE /\ pool' = pool \ {c}
          /\ SendMessage(c)
          /\ UNCHANGED <<pc, link, requests, stopper, early_ready, crashed>>

ReadFails ==
  /\ At("reading")
  /\ Teardown
  /\ UNCHANGED <<socket, requests, writer, pool, stopper, early_ready, crashed>>

-----------------------------------------------------------------------------
(* stop(), on the application's thread                                     *)

StopBegins ==
  /\ MayStop
  /\ ~crashed
  /\ stop_pc = "none"
  /\ stop_pc' = "joining"
  /\ running' = FALSE
  /\ UNCHANGED <<pc, link, requests, writer, pool, early_ready, crashed>>

\* The pool is joined; socket_ is closed and reset.
StopCloses ==
  /\ ~crashed
  /\ stop_pc = "joining"
  /\ stop_pc' = "closed"
  /\ socket' = "null"
  /\ UNCHANGED <<pc, connected, requests, writer, pool, running, early_ready,
                 crashed>>

\* workers_.stop().
StopHalts ==
  /\ ~crashed
  /\ stop_pc = "closed"
  /\ stop_pc' = "stopped"
  /\ UNCHANGED <<pc, link, requests, writer, pool, running, early_ready, crashed>>

ConnectCycle == BeginConnect \/ LoopEnds \/ ConnectDone \/ ConnectFails
AuthCycle    == AuthWritten \/ AuthWriteFails \/ AuthReadFails \/ Authenticated
InitCycle    ==
  InitWritten \/ InitWriteFails \/ InitAnswered \/ InitThrows \/ InitMessage

Next ==
  \/ ConnectCycle \/ AuthCycle \/ InitCycle
  \/ LoopSends \/ ReadRequest \/ ReadFails
  \/ \E c \in Age : PoolResponds(c)
  \/ WriteCompletes \/ WriteFails
  \/ StopBegins \/ StopCloses \/ StopHalts

Spec == Init /\ [][Next]_vars

\* Connects, delays and writes end, one way or the other, and a read from a
\* closed socket fails.  A read from an open one may wait for ever, so does a
\* resource that runs.
FairSpec ==
  /\ Spec
  /\ WF_vars(ConnectCycle)
  /\ WF_vars(AuthWritten \/ AuthWriteFails)
  /\ WF_vars(socket = "closed" /\ AuthReadFails)
  /\ WF_vars(InitWritten \/ InitWriteFails)
  /\ WF_vars(socket = "closed" /\ InitAnswered)
  /\ WF_vars(socket = "closed" /\ ReadFails)
  /\ WF_vars(WriteCompletes \/ WriteFails)

-----------------------------------------------------------------------------
(* Properties                                                              *)

TypeOK ==
  /\ pc \in {"delay", "connecting", "auth_write", "auth_read", "init_write",
             "init_read", "reading", "ended"}
  /\ running \in BOOLEAN
  /\ connected \in BOOLEAN
  /\ socket \in {"null", "open", "closed"}
  /\ event \in 0..NumEvents
  /\ params \in [Events -> BOOLEAN]
  /\ carried \in BOOLEAN
  /\ queue \in Seq(Age)
  /\ write_in_progress \in BOOLEAN
  /\ writing \in Write \cup {None}
  /\ pool \subseteq Age
  /\ stop_pc \in {"none", "joining", "closed", "stopped"}
  /\ early_ready \in BOOLEAN
  /\ crashed \in BOOLEAN

\* Nothing is written from the queue to a connection that is not
\* authenticated yet, not even what earlier connections left in it.
NothingBeforeAuth ==
  writing # None /\ pc \in {"connecting", "auth_write", "auth_read"}
    => writing.to = "earlier"

\* A message queued on the connection that is up has a coroutine that will
\* write it: neither an exit of process_write_queue() nor a reconnection
\* leaves it waiting for the next message.
QueuedIsWritten ==
  connected /\ socket # "null"
    /\ (\E i \in DOMAIN queue : queue[i] = "current") => writing # None

\* A connection a failed write marked as lost is noticed by the loop that
\* reads from it: the client reconnects, or it is stopped.
LostIsNoticed ==
  (pc = "reading" /\ ~connected)
    ~> (pc = "connecting" \/ stop_pc # "none")

-----------------------------------------------------------------------------
(* What the code does not guarantee                                        *)

\* The parameters of a subscription survive initialize_streams(), which moves
\* them into the request and is to restore them.
ParamsRestored ==
  \A e \in Events :
    params[e] \/ (pc \in {"init_write", "init_read"} /\ event = e /\ carried)

\* run_loop() notifies STREAMS_READY on a connection that is up.
ReadyIsConnected == ~early_ready

\* write_queue_ serializes the writes to a socket: write_message() and
\* process_write_queue() never write to one at the same time.
WritesAreSerialized ==
  writing # None /\ writing.to = "current"
    => pc \notin {"auth_write", "init_write"}

\* A response, or a message left in write_queue_, goes out on the connection
\* it belongs to.
SentOnItsConnection ==
  writing # None => writing.of = writing.to

\* A failed write of process_write_queue() closes the socket it was on, and no
\* other.
WriteErrorIsLocal ==
  [][writing # None /\ writing.to = "earlier" => socket' # "closed" \/ socket = "closed"]_vars

\* No coroutine uses socket_ after stop() reset it.
StopIsClean == ~crashed
===============================================================================
