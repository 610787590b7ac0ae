------------------------------ MODULE ClientProofs ------------------------------
(***************************************************************************)
(* Nothing of write_queue_ is written to a connection that is not          *)
(* authenticated yet, and a message queued on the connection that is up    *)
(* has a coroutine that will write it.  write_in_progress_ is the lock of  *)
(* the coroutine (Marked).  connected_ is set only after the               *)
(* authentication (Up), and until then nothing in the queue or the pool    *)
(* was made on this connection (NoneYet): so a coroutine that finds        *)
(* connected_ set writes to an authenticated connection, and what one      *)
(* leaves in the queue because it found it clear is of an earlier          *)
(* connection by the time there is another.                                *)
(***************************************************************************)
EXTENDS Client, TLAPS

Unauthenticated == {"connecting", "auth_write", "auth_read"}

\* write_in_progress_ is set exactly while a coroutine writes.
Marked == write_in_progress <=> writing # None

\* connected_ is set only while the streams are started and read_loop() runs.
Up == connected => pc \in {"init_write", "init_read", "reading"}

Old(q) == \A i \in DOMAIN q : q[i] = "earlier"

\* Before the authentication all that is queued, or comes from the pool, is
\* of an earlier connection.
NoneYet ==
  pc \in Unauthenticated =>
    /\ Old(queue)
    /\ pool \subseteq {"earlier"}

IInv == TypeOK /\ Marked /\ Up /\ NoneYet /\ NothingBeforeAuth /\ QueuedIsWritten

\* The places of run_loop() and the states of socket_ and stop().
LEMMA Names ==
  /\ \A p \in Unauthenticated :
       p \notin {"delay", "init_write", "init_read", "reading", "ended"}
  /\ "open" # "null" /\ "closed" # "null" /\ "open" # "closed"
  /\ "current" # "earlier" /\ "none" # "joining" /\ "joining" # "closed"
  BY DEF Unauthenticated

LEMMA AppendShape ==
  ASSUME NEW S, NEW q \in Seq(S), NEW h \in S
  PROVE  /\ Append(q, h) \in Seq(S) /\ Append(q, h) # <<>>
         /\ \A i \in DOMAIN Append(q, h) :
              \/ i \in DOMAIN q /\ Append(q, h)[i] = q[i]
              \/ Append(q, h)[i] = h
  OBVIOUS

LEMMA TailShape ==
  ASSUME NEW S, NEW q \in Seq(S), q # <<>>
  PROVE  /\ Tail(q) \in Seq(S) /\ Head(q) \in S
         /\ \A i \in DOMAIN Tail(q) : i + 1 \in DOMAIN q /\ Tail(q)[i] = q[i + 1]
  OBVIOUS

LEMMA InitInv == Init => IInv
  <1> SUFFICES ASSUME Init PROVE IInv  OBVIOUS
  <1> USE ClientAssumption
  <1>1. TypeOK
    <2>1. 0 \in 0..NumEvents /\ <<>> \in Seq(Age)
      OBVIOUS
    <2>2. params \in [Events -> BOOLEAN]
      BY DEF Init
    <2> QED  BY <2>1, <2>2 DEF Init, TypeOK
  <1>2. Marked /\ Up /\ NoneYet /\ NothingBeforeAuth /\ QueuedIsWritten
    BY Names DEF Init, Marked, Up, NoneYet, NothingBeforeAuth, QueuedIsWritten
  <1> QED  BY <1>1, <1>2 DEF IInv

-----------------------------------------------------------------------------
(* process_write_queue() and send_message()                                *)

\* The coroutine that goes on with q writes only when connected_ is set, and
\* leaves a message in the queue of a connection that is up only to write
\* the one before it.
LEMMA ProceedShape ==
  ASSUME TypeOK, NEW q \in Seq(Age), Proceed(q)
  PROVE  /\ queue' \in Seq(Age)
         /\ writing' \in Write \cup {None}
         /\ write_in_progress' \in BOOLEAN
         /\ Marked'
         /\ writing' # None => connected /\ socket # "null"
         /\ connected /\ socket # "null" /\ queue' # <<>> => writing' # None
         /\ Old(q) => Old(queue')
  <1> USE ClientAssumption DEF TypeOK
  <1>1. CASE q # <<>> /\ connected /\ socket # "null"
    <2> DEFINE w == [of |-> Head(q), to |-> "current"]
    <2>1. Head(q) \in Age /\ Tail(q) \in Seq(Age)
      BY <1>1, TailShape
    <2>2. w \in Write /\ "current" \in Age
      BY <2>1 DEF Write, Age
    <2>3. writing' = w /\ queue' = Tail(q) /\ write_in_progress' = TRUE
      BY <1>1 DEF Proceed
    <2>4. w # None
      BY <2>2
    <2> HIDE DEF w
    <2>5. Old(q) => Old(queue')
      BY <1>1, <2>3, TailShape DEF Old
    <2> QED  BY <1>1, <2>1, <2>2, <2>3, <2>4, <2>5 DEF Marked
  <1>2. CASE ~(q # <<>> /\ connected /\ socket # "null")
    <2>1. writing' = None /\ queue' = q /\ write_in_progress' = FALSE
      BY <1>2 DEF Proceed
    <2> QED  BY <1>2, <2>1 DEF Marked, Old
  <1> QED  BY <1>1, <1>2

LEMMA SendShape ==
  ASSUME IInv, NEW c \in Age, SendMessage(c)
  PROVE  /\ queue' \in Seq(Age)
         /\ writing' \in Write \cup {None}
         /\ write_in_progress' \in BOOLEAN
         /\ Marked'
         /\ writing' # None =>
              (writing # None /\ writing' = writing) \/ connected
         /\ connected /\ socket # "null" /\ queue' # <<>> => writing' # None
         /\ c = "earlier" /\ Old(queue) => Old(queue')
  <1> USE DEF IInv
  <1>1. /\ Append(queue, c) \in Seq(Age)
        /\ c = "earlier" /\ Old(queue) => Old(Append(queue, c))
    BY AppendShape DEF TypeOK, Old
  <1>2. CASE write_in_progress
    <2>1. queue' = Append(queue, c) /\ UNCHANGED <<write_in_progress, writing>>
      BY <1>2 DEF SendMessage, Enqueue
    <2> QED  BY <1>1, <1>2, <2>1 DEF Marked, TypeOK
  <1>3. CASE ~write_in_progress
    <2>1. Proceed(Append(queue, c))
      BY <1>3 DEF SendMessage, Enqueue
    <2> QED  BY <1>1, <2>1, ProceedShape
  <1> QED  BY <1>2, <1>3 DEF TypeOK

\* A message sent while run_loop() stays where it is, or loses the connection.
LEMMA SendInv ==
  ASSUME IInv, NEW c \in Age, SendMessage(c),
         pc \in Unauthenticated => c = "earlier",
         TypeOK', Up', UNCHANGED socket,
         pc' \in Unauthenticated => pc \in Unauthenticated,
         connected' => connected,
         pool' \subseteq pool
  PROVE  IInv'
  <1> USE DEF IInv
  <1>1. /\ Marked'
        /\ writing' # None =>
              (writing # None /\ writing' = writing) \/ connected
        /\ connected /\ socket # "null" /\ queue' # <<>> => writing' # None
        /\ c = "earlier" /\ Old(queue) => Old(queue')
    BY SendShape
  <1>2. NoneYet'
    BY <1>1 DEF NoneYet
  <1>3. NothingBeforeAuth'
    <2> SUFFICES ASSUME writing' # None, pc' \in Unauthenticated
                 PROVE  writing'.to = "earlier"
      BY DEF NothingBeforeAuth, Unauthenticated
    <2>1. ~connected
      BY Names DEF Up
    <2> QED  BY <1>1, <2>1 DEF NothingBeforeAuth, Unauthenticated
  <1>4. QueuedIsWritten'
    <2> SUFFICES ASSUME connected', socket' # "null",
                        NEW i \in DOMAIN queue', queue'[i] = "current"
                 PROVE  writing' # None
      BY DEF QueuedIsWritten
    <2>1. queue' # <<>>
      OBVIOUS
    <2> QED  BY <1>1, <2>1
  <1> QED  BY <1>1, <1>2, <1>3, <1>4

-----------------------------------------------------------------------------
(* The steps                                                               *)

\* A step of run_loop() or stop() that sends nothing: connected_ is set only
\* when nothing of the new connection is queued.
LEMMA KeepInv ==
  ASSUME IInv, TypeOK', Up', UNCHANGED writer,
         pc' \in Unauthenticated => pc \in Unauthenticated /\ pool' \subseteq pool,
         connected' /\ socket' # "null" =>
           \/ connected /\ socket # "null"
           \/ pc \in Unauthenticated
  PROVE  IInv'
  <1> USE DEF IInv, writer
  <1>1. Marked'
    BY DEF Marked
  <1>2. NoneYet'
    BY DEF NoneYet
  <1>3. NothingBeforeAuth'
    BY DEF NothingBeforeAuth, Unauthenticated
  <1>4. QueuedIsWritten'
    <2> SUFFICES ASSUME connected', socket' # "null",
                        NEW i \in DOMAIN queue, queue[i] = "current"
                 PROVE  writing # None
      BY DEF QueuedIsWritten
    <2>1. pc \notin Unauthenticated
      BY Names DEF NoneYet, Old
    <2> QED  BY <2>1 DEF QueuedIsWritten
  <1> QED  BY <1>1, <1>2, <1>3, <1>4

LEMMA CrashInv == ASSUME IInv, Crashes PROVE IInv'
  <1> USE DEF IInv, Crashes, link, requests, writer, stopper
  <1>1. TypeOK'
    BY DEF TypeOK
  <1>2. Up'
    BY DEF Up
  <1> QED  BY <1>1, <1>2, KeepInv

\* Tearing the connection down leaves run_loop() neither connected nor about
\* to authenticate.
LEMMA TeardownShape ==
  ASSUME TypeOK, Teardown
  PROVE  pc' \in {"delay", "ended"} /\ connected' = FALSE
  BY DEF Teardown, MarkLost, TypeOK

LEMMA CloseShape ==
  ASSUME TypeOK, CloseSocket
  PROVE  socket' \in {"null", "open", "closed"} /\ (socket' # "null" => socket # "null")
  BY DEF CloseSocket, TypeOK

\* Everything that is queued, being written or in the pool becomes old.
LEMMA BeginConnectInv == ASSUME IInv, BeginConnect PROVE IInv'
  <1> USE DEF IInv
  <1>1. /\ pc = "delay" /\ pc' = "connecting" /\ socket' = "open"
        /\ queue' = [i \in DOMAIN queue |-> "earlier"]
        /\ writing' = IF writing = None THEN None
                      ELSE [of |-> "earlier", to |-> "earlier"]
        /\ pool' = IF pool = {} THEN {} ELSE {"earlier"}
        /\ UNCHANGED <<connected, requests, write_in_progress, stopper,
                       early_ready, crashed>>
    BY DEF BeginConnect, At
  <1>2. queue' \in Seq(Age) /\ Old(queue')
    <2>1. "earlier" \in Age
      BY DEF Age
    <2> QED  BY <1>1, <2>1 DEF TypeOK, Old
  <1>3. /\ writing' \in Write \cup {None}
        /\ writing' # None <=> writing # None
        /\ writing' # None => writing'.to = "earlier"
    <2> DEFINE w == [of |-> "earlier", to |-> "earlier"]
    <2>1. w \in Write /\ w.to = "earlier"
      BY DEF Write, Age
    <2>2. w # None
      BY <2>1, ClientAssumption
    <2> HIDE DEF w
    <2> QED  BY <1>1, <2>1, <2>2 DEF w
  <1>4. ~connected'
    BY <1>1, Names DEF Up
  <1>5. TypeOK'
    BY <1>1, <1>2, <1>3 DEF TypeOK, requests, stopper, Age
  <1>6. Marked' /\ Up' /\ NothingBeforeAuth' /\ QueuedIsWritten'
    BY <1>1, <1>3, <1>4 DEF Marked, Up, NothingBeforeAuth, QueuedIsWritten
  <1>7. NoneYet'
    BY <1>1, <1>2 DEF NoneYet
  <1> QED  BY <1>5, <1>6, <1>7

LEMMA ConnectInv ==
  ASSUME IInv, LoopEnds \/ ConnectDone \/ ConnectFails PROVE IInv'
  <1> USE Names DEF IInv, At, link, requests, writer, stopper
  <1>1. CASE LoopEnds
    <2>1. TypeOK' /\ Up'
      BY <1>1 DEF LoopEnds, TypeOK, Up
    <2> QED  BY <1>1, <2>1, KeepInv DEF LoopEnds
  <1>2. CASE ConnectDone /\ socket = "null"
    BY <1>2, CrashInv DEF ConnectDone
  <1>3. CASE ConnectDone /\ socket # "null"
    <2>1. /\ pc = "connecting" /\ pc' = "auth_write" /\ socket' = "open"
          /\ UNCHANGED <<connected, requests, writer, pool, stopper,
                         early_ready, crashed>>
      BY <1>3 DEF ConnectDone
    <2>2. TypeOK' /\ Up'
      BY <2>1 DEF TypeOK, Up
    <2> QED  BY <1>3, <2>1, <2>2, KeepInv DEF Unauthenticated
  <1>4. CASE ConnectFails
    <2>1. /\ pc' \in {"delay", "ended"} /\ connected' = FALSE
          /\ UNCHANGED <<socket, requests, writer, pool, stopper, early_ready,
                         crashed>>
      BY <1>4, TeardownShape DEF ConnectFails
    <2>2. TypeOK' /\ Up'
      BY <2>1 DEF TypeOK, Up
    <2> QED  BY <2>1, <2>2, KeepInv
  <1> QED  BY <1>1, <1>2, <1>3, <1>4

LEMMA AuthInv ==
  ASSUME IInv, AuthWritten \/ AuthWriteFails \/ AuthReadFails PROVE IInv'
  <1> USE Names DEF IInv, At, link, requests, writer, stopper
  <1>1. CASE AuthWritten /\ socket = "null"
    BY <1>1, CrashInv DEF AuthWritten
  <1>2. CASE AuthWritten /\ socket # "null"
    <2>1. /\ pc = "auth_write" /\ pc' = "auth_read"
          /\ UNCHANGED <<link, requests, writer, pool, stopper, early_ready,
                         crashed>>
      BY <1>2 DEF AuthWritten
    <2>2. TypeOK' /\ Up'
      BY <2>1 DEF TypeOK, Up
    <2> QED  BY <2>1, <2>2, KeepInv DEF Unauthenticated
  <1>3. CASE AuthWriteFails \/ AuthReadFails
    <2>1. /\ pc' \in {"delay", "ended"} /\ connected' = FALSE
          /\ UNCHANGED <<requests, writer, pool, stopper, early_ready, crashed>>
      BY <1>3, TeardownShape DEF AuthWriteFails, AuthReadFails
    <2>2. socket' \in {"null", "open", "closed"}
      BY <1>3, CloseShape DEF AuthWriteFails, AuthReadFails, TypeOK
    <2>3. TypeOK' /\ Up'
      BY <2>1, <2>2 DEF TypeOK, Up
    <2> QED  BY <2>1, <2>3, KeepInv
  <1> QED  BY <1>1, <1>2, <1>3

\* Where run_loop() goes from a subscription: on to the next one or to
\* read_loop() with connected_ = c, to the delay, or to a crash.
LEMMA InitializeShape ==
  ASSUME TypeOK, NEW e \in 1..(NumEvents + 1), NEW p \in [Events -> BOOLEAN],
         NEW c \in BOOLEAN, Initialize(e, p, c)
  PROVE  /\ pc' \in {pc, "init_write", "reading", "delay", "ended"}
         /\ connected' \in BOOLEAN
         /\ connected' =>
              \/ socket' = "null" /\ UNCHANGED <<pc, connected>>
              \/ c /\ pc' \in {"init_write", "reading"}
         /\ event' \in 0..NumEvents
         /\ params' \in [Events -> BOOLEAN]
         /\ carried' \in BOOLEAN
         /\ running' = running
         /\ early_ready' \in BOOLEAN
         /\ crashed' \in BOOLEAN
  <1> USE ClientAssumption DEF TypeOK
  <1>1. CASE socket' = "null"
    BY <1>1 DEF Initialize, requests
  <1>2. CASE socket' # "null" /\ e <= NumEvents
    <2>1. e \in Events
      BY <1>2 DEF Events
    <2>2. /\ pc' = "init_write" /\ event' = e /\ carried' = p[e]
          /\ params' = [p EXCEPT ![e] = FALSE] /\ connected' = c
          /\ UNCHANGED <<running, early_ready, crashed>>
      BY <1>2 DEF Initialize
    <2>3. params' \in [Events -> BOOLEAN] /\ carried' \in BOOLEAN
      BY <2>1, <2>2
    <2> QED  BY <1>2, <2>2, <2>3
  <1>3. CASE socket' # "null" /\ ~(e <= NumEvents)
    <2>1. /\ early_ready' = (early_ready \/ ~c)
          /\ pc' = IF running /\ c THEN "reading"
                   ELSE IF running THEN "delay" ELSE "ended"
          /\ connected' = (running /\ c)
          /\ event' = 0 /\ carried' = FALSE /\ params' = p
          /\ UNCHANGED <<running, crashed>>
      BY <1>3 DEF Initialize
    <2>2. 0 \in 0..NumEvents
      OBVIOUS
    <2> QED  BY <2>1, <2>2
  <1> QED  BY <1>1, <1>2, <1>3

\* connected_ is set by the answer to CONNECT, when all that is queued is old,
\* and stays as it was or is cleared from then on.
LEMMA InitializeInv ==
  ASSUME IInv, NEW e \in 1..(NumEvents + 1), NEW p \in [Events -> BOOLEAN],
         NEW c \in BOOLEAN, Initialize(e, p, c),
         UNCHANGED <<writer, pool, stop_pc>>,
         socket' \in {"null", "open", "closed"},
         socket' # "null" => socket # "null",
         c => connected \/ pc \in Unauthenticated
  PROVE  IInv'
  <1> USE DEF IInv
  <1>1. /\ pc' \in {pc, "init_write", "reading", "delay", "ended"}
        /\ connected' \in BOOLEAN
        /\ connected' =>
             \/ socket' = "null" /\ UNCHANGED <<pc, connected>>
             \/ c /\ pc' \in {"init_write", "reading"}
        /\ event' \in 0..NumEvents
        /\ params' \in [Events -> BOOLEAN]
        /\ carried' \in BOOLEAN
        /\ running' = running
        /\ early_ready' \in BOOLEAN
        /\ crashed' \in BOOLEAN
    BY InitializeShape
  <1>2. TypeOK'
    BY <1>1 DEF TypeOK, writer
  <1>3. Up'
    BY <1>1 DEF Up
  <1>4. pc' \in Unauthenticated => pc \in Unauthenticated
    BY <1>1, Names
  <1> QED  BY <1>1, <1>2, <1>3, <1>4, KeepInv

LEMMA StreamsInv ==
  ASSUME IInv,
         \/ Authenticated \/ InitWritten \/ InitWriteFails
         \/ InitAnswered \/ InitThrows
  PROVE  IInv'
  <1> USE Names, ClientAssumption DEF IInv, At
  <1>1. CASE Authenticated
    <2>1. /\ pc \in Unauthenticated /\ Initialize(1, params, TRUE)
          /\ UNCHANGED <<socket, writer, pool, stop_pc>>
      BY <1>1 DEF Authenticated, Unauthenticated
    <2>2. 1 \in 1..(NumEvents + 1) /\ TRUE \in BOOLEAN
      OBVIOUS
    <2>3. params \in [Events -> BOOLEAN] /\ socket \in {"null", "open", "closed"}
      BY DEF TypeOK
    <2> QED  BY <2>1, <2>2, <2>3, InitializeInv
  <1>2. CASE InitWritten /\ socket = "null"
    BY <1>2, CrashInv DEF InitWritten
  <1>3. CASE InitWritten /\ socket # "null"
    <2>1. /\ pc = "init_write" /\ pc' = "init_read"
          /\ UNCHANGED <<link, requests, writer, pool, stopper, early_ready,
                         crashed>>
      BY <1>3 DEF InitWritten
    <2>2. TypeOK' /\ Up'
      BY <2>1 DEF TypeOK, Up, link, requests, writer, stopper
    <2> QED  BY <2>1, <2>2, KeepInv DEF Unauthenticated, link
  <1>4. event + 1 \in 1..(NumEvents + 1)
    BY DEF TypeOK
  <1>5. CASE InitWriteFails
    <2>1. /\ CloseSocket /\ Initialize(event + 1, params, FALSE)
          /\ UNCHANGED <<writer, pool, stop_pc>>
      BY <1>5 DEF InitWriteFails
    <2>2. params \in [Events -> BOOLEAN] /\ FALSE \in BOOLEAN
      BY DEF TypeOK
    <2>3. /\ socket' \in {"null", "open", "closed"}
          /\ socket' # "null" => socket # "null"
      BY <2>1, CloseShape
    <2> QED  BY <1>4, <2>1, <2>2, <2>3, InitializeInv
  <1>6. CASE InitAnswered
    <2>1. /\ Initialize(event + 1, Restored, connected)
          /\ UNCHANGED <<socket, writer, pool, stop_pc>>
      BY <1>6 DEF InitAnswered
    <2>2. Restored \in [Events -> BOOLEAN] /\ connected \in BOOLEAN
      BY DEF Restored, TypeOK
    <2>3. socket \in {"null", "open", "closed"}
      BY DEF TypeOK
    <2> QED  BY <1>4, <2>1, <2>2, <2>3, InitializeInv
  <1>7. CASE InitThrows
    <2>1. /\ pc' \in {"delay", "ended"} /\ connected' = FALSE
          /\ event' = 0 /\ carried' = FALSE
          /\ UNCHANGED <<socket, params, writer, pool, stopper, early_ready,
                         crashed>>
      BY <1>7, TeardownShape DEF InitThrows
    <2>2. 0 \in 0..NumEvents
      OBVIOUS
    <2>3. TypeOK' /\ Up'
      BY <2>1, <2>2 DEF TypeOK, Up, writer, stopper
    <2> QED  BY <2>1, <2>3, KeepInv
  <1> QED  BY <1>1, <1>2, <1>3, <1>5, <1>6, <1>7

\* read_loop() goes on, or the connection is torn down.
LEMMA ReadOnShape ==
  ASSUME TypeOK, ReadOn
  PROVE  /\ connected' \in BOOLEAN
         /\ \/ UNCHANGED <<pc, connected>>
            \/ pc' \in {"delay", "ended"} /\ connected' = FALSE
  BY TeardownShape DEF ReadOn, TypeOK

LEMMA MessageInv == ASSUME IInv, InitMessage \/ LoopSends PROVE IInv'
  <1> USE Names DEF IInv, At
  <1>1. CASE socket = "null"
    BY <1>1, CrashInv DEF InitMessage, LoopSends
  <1>2. CASE socket # "null"
    <2>1. /\ pc \in {"init_read", "reading"} /\ SendMessage("current")
          /\ UNCHANGED <<socket, requests, pool, stopper, early_ready, crashed>>
      BY <1>2 DEF InitMessage, LoopSends, link
    <2>2. /\ connected' \in BOOLEAN
          /\ \/ UNCHANGED <<pc, connected>>
             \/ pc' \in {"delay", "ended"} /\ connected' = FALSE
      BY <1>2, ReadOnShape DEF InitMessage, LoopSends, link, TypeOK
    <2>3. /\ "current" \in Age /\ pc \notin Unauthenticated
          /\ pc' \notin Unauthenticated
      BY <2>1, <2>2 DEF Age
    <2>4. /\ queue' \in Seq(Age) /\ writing' \in Write \cup {None}
          /\ write_in_progress' \in BOOLEAN
      BY <2>1, <2>3, SendShape
    <2>5. TypeOK'
      BY <2>1, <2>2, <2>4 DEF TypeOK, requests, stopper
    <2>6. Up'
      BY <2>2 DEF Up
    <2> QED  BY <2>1, <2>2, <2>3, <2>5, <2>6, SendInv
  <1> QED  BY <1>1, <1>2

LEMMA ReadInv == ASSUME IInv, ReadRequest \/ ReadFails PROVE IInv'
  <1> USE Names DEF IInv, At
  <1>1. CASE ReadRequest /\ socket = "null"
    BY <1>1, CrashInv DEF ReadRequest
  <1>2. CASE (ReadRequest /\ socket # "null") \/ ReadFails
    <2>1. /\ pc = "reading" /\ pool' \subseteq pool \cup {"current"}
          /\ UNCHANGED <<socket, requests, writer, stopper, early_ready, crashed>>
      BY <1>2 DEF ReadRequest, ReadFails
    <2>2. /\ connected' \in BOOLEAN
          /\ \/ UNCHANGED <<pc, connected>>
             \/ pc' \in {"delay", "ended"} /\ connected' = FALSE
      BY <1>2, ReadOnShape, TeardownShape DEF ReadRequest, ReadFails
    <2>3. TypeOK'
      BY <2>1, <2>2 DEF TypeOK, requests, writer, stopper, Age
    <2>4. Up' /\ pc' \notin Unauthenticated
      BY <2>1, <2>2 DEF Up
    <2> QED  BY <2>1, <2>2, <2>3, <2>4, KeepInv
  <1> QED  BY <1>1, <1>2

\* Before the authentication the pool holds nothing of this connection.
LEMMA PoolInv == ASSUME IInv, NEW c \in Age, PoolResponds(c) PROVE IInv'
  <1> USE Names DEF IInv
  <1>1. CASE socket = "null" /\ ~write_in_progress
    BY <1>1, CrashInv DEF PoolResponds
  <1>2. CASE ~(socket = "null" /\ ~write_in_progress)
    <2>1. /\ c \in pool /\ pool' = pool \ {c} /\ SendMessage(c)
          /\ UNCHANGED <<pc, link, requests, stopper, early_ready, crashed>>
      BY <1>2 DEF PoolResponds
    <2>2. /\ queue' \in Seq(Age) /\ writing' \in Write \cup {None}
          /\ write_in_progress' \in BOOLEAN
      BY <2>1, SendShape
    <2>3. TypeOK' /\ Up'
      BY <2>1, <2>2 DEF TypeOK, Up, link, requests, stopper
    <2>4. pc \in Unauthenticated => c = "earlier"
      BY <2>1 DEF NoneYet
    <2> QED  BY <2>1, <2>3, <2>4, SendInv DEF link
  <1> QED  BY <1>1, <1>2

\* The coroutine that ends with messages left found the connection lost.
LEMMA WriteInv == ASSUME IInv, WriteCompletes \/ WriteFails PROVE IInv'
  <1> USE Names DEF IInv
  <1>1. CASE WriteCompletes
    <2>1. /\ Proceed(queue) /\ queue \in Seq(Age)
          /\ UNCHANGED <<pc, link, requests, pool, stopper, early_ready, crashed>>
      BY <1>1 DEF WriteCompletes, TypeOK
    <2>2. /\ queue' \in Seq(Age)
          /\ writing' \in Write \cup {None}
          /\ write_in_progress' \in BOOLEAN
          /\ Marked'
          /\ writing' # None => connected /\ socket # "null"
          /\ connected /\ socket # "null" /\ queue' # <<>> => writing' # None
          /\ Old(queue) => Old(queue')
      BY <2>1, ProceedShape
    <2>3. TypeOK' /\ Up' /\ NoneYet'
      BY <2>1, <2>2 DEF TypeOK, Up, NoneYet, link, requests, stopper
    <2>4. NothingBeforeAuth'
      BY <2>1, <2>2 DEF NothingBeforeAuth, Up, link
    <2>5. QueuedIsWritten'
      <3> SUFFICES ASSUME connected', socket' # "null",
                          NEW i \in DOMAIN queue', queue'[i] = "current"
                   PROVE  writing' # None
        BY DEF QueuedIsWritten
      <3>1. queue' # <<>>
        OBVIOUS
      <3> QED  BY <2>1, <2>2, <3>1 DEF link
    <2> QED  BY <2>2, <2>3, <2>4, <2>5
  <1>2. CASE WriteFails
    <2>1. /\ connected' = FALSE /\ CloseSocket
          /\ writing' = None /\ write_in_progress' = FALSE
          /\ UNCHANGED <<pc, requests, queue, pool, stopper, early_ready, crashed>>
      BY <1>2 DEF WriteFails, WriteEnds
    <2>2. socket' \in {"null", "open", "closed"}
      BY <2>1, CloseShape
    <2>3. TypeOK'
      BY <2>1, <2>2 DEF TypeOK, requests, stopper
    <2>4. Marked' /\ Up' /\ NoneYet' /\ NothingBeforeAuth' /\ QueuedIsWritten'
      BY <2>1 DEF Marked, Up, NoneYet, NothingBeforeAuth, QueuedIsWritten
    <2> QED  BY <2>3, <2>4
  <1> QED  BY <1>1, <1>2

LEMMA StopInv ==
  ASSUME IInv, StopBegins \/ StopCloses \/ StopHalts PROVE IInv'
  <1> USE Names DEF IInv, link, requests, writer, stopper
  <1>1. /\ running' \in BOOLEAN
        /\ stop_pc' \in {"none", "joining", "closed", "stopped"}
        /\ socket' \in {socket, "null"}
        /\ UNCHANGED <<pc, connected, requests, writer, pool, early_ready, crashed>>
    BY DEF StopBegins, StopCloses, StopHalts, TypeOK
  <1>2. TypeOK' /\ Up'
    BY <1>1 DEF TypeOK, Up
  <1> QED  BY <1>1, <1>2, KeepInv

LEMMA StepInv == IInv /\ [Next]_vars => IInv'
  <1> SUFFICES ASSUME IInv, [Next]_vars PROVE IInv'  OBVIOUS
  <1>1. CASE BeginConnect
    BY <1>1, BeginConnectInv
  <1>2. CASE LoopEnds \/ ConnectDone \/ ConnectFails
    BY <1>2, ConnectInv
  <1>3. CASE AuthWritten \/ AuthWriteFails \/ AuthReadFails
    BY <1>3, AuthInv
  <1>4. CASE \/ Authenticated \/ InitWritten \/ InitWriteFails
             \/ InitAnswered \/ InitThrows
    BY <1>4, StreamsInv
  <1>5. CASE InitMessage \/ LoopSends
    BY <1>5, MessageInv
  <1>6. CASE ReadRequest \/ ReadFails
    BY <1>6, ReadInv
  <1>7. ASSUME NEW c \in Age, PoolResponds(c) PROVE IInv'
    BY <1>7, PoolInv
  <1>8. CASE WriteCompletes \/ WriteFails
    BY <1>8, WriteInv
  <1>9. CASE StopBegins \/ StopCloses \/ StopHalts
    BY <1>9, StopInv
  <1>10. CASE UNCHANGED vars
    BY <1>10 DEF vars, link, requests, writer, stopper, IInv, TypeOK, Marked,
      Up, NoneYet, NothingBeforeAuth, QueuedIsWritten
  <1> QED  BY <1>1, <1>2, <1>3, <1>4, <1>5, <1>6, <1>7, <1>8, <1>9, <1>10
           DEF Next, ConnectCycle, AuthCycle, InitCycle

-----------------------------------------------------------------------------
(* The theorems                                                            *)

\* The inductive invariant of the connection, whatever the number of
\* subscriptions and the length of the queue.
THEOREM Invariance == Spec => []IInv
  BY InitInv, StepInv, PTL DEF Spec

\* The fields of iotmp::client stay in their types.
THEOREM TypeCorrect == Spec => []TypeOK
  <1>1. IInv => TypeOK
    BY DEF IInv
  <1> QED  BY <1>1, Invariance, PTL

\* process_write_queue() writes nothing to a socket that run_loop() has not
\* authenticated, through any failures, reconnections and stop().
THEOREM AuthFirst == Spec => []NothingBeforeAuth
  <1>1. IInv => NothingBeforeAuth
    BY DEF IInv
  <1> QED  BY <1>1, Invariance, PTL

\* send_message() and process_write_queue() never leave a message of the
\* connection that is up without a coroutine that will write it.
THEOREM NoneIsLeft == Spec => []QueuedIsWritten
  <1>1. IInv => QueuedIsWritten
    BY DEF IInv
  <1> QED  BY <1>1, Invariance, PTL
=================================================================================
