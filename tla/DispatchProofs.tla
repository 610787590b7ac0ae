----------------------------- MODULE DispatchProofs -----------------------------
(***************************************************************************)
(* Every request has exactly one answer under way until the server has it, *)
(* stream data stays between the answer that opens its stream and the one  *)
(* that closes it, and a resource hands out the id of its own stream, for  *)
(* any number of resources, ids and connections.                           *)
(*                                                                         *)
(* An id is answered by a message of the queue or by a job of the pool,    *)
(* never by both (Answered).  An entry of streams_ is one of a stream that *)
(* is open or whose opening answer is queued (Tabled), so what is sent for *)
(* it goes behind that answer; StopStream removes the entry when it queues *)
(* the closing answer, so nothing goes behind that one (Fed).  A lost      *)
(* connection leaves entries and messages behind, all of them stale.       *)
(***************************************************************************)
EXTENDS Dispatch, FiniteSetTheorems, TLAPS

\* Where the answers to request i of connection c are, in the queue q and in
\* the pool.
Queued(q, i, c) ==
  {k \in DOMAIN q : q[k].id = i /\ q[k].of = c /\ q[k].type \in Answers}
Running(i, c) == {j \in pool : j.id = i /\ j.of = c}

\* Either A or B has one element, or neither has any.
OneOf(A, B, due) ==
  /\ \A x \in A, y \in A : x = y
  /\ \A x \in B, y \in B : x = y
  /\ A = {} \/ B = {}
  /\ due <=> (A # {} \/ B # {})

Unanswered(i) == awaiting[i] # None /\ i \notin thrown

Answered ==
  connected => \A i \in Ids :
    OneOf(Queued(queue, i, conn), Running(i, conn), Unanswered(i))

\* Nothing is from a connection that is still to come.
Past ==
  /\ \A k \in DOMAIN queue : queue[k].of <= conn
  /\ \A j \in pool : j.of <= conn

\* The server expects nothing and nothing is written while there is no
\* connection; the interval loop starts when the streams have.
Quiet ==
  /\ ~connected => /\ \A i \in Ids : awaiting[i] = None
                   /\ opened = {} /\ thrown = {} /\ ~write_in_progress
  /\ interval_loop => phase = "ready"
  /\ write_in_progress => queue # <<>>

\* What a handler of the pool runs is what the server asked.
Asked ==
  /\ connected => \A j \in pool : j.of = conn => awaiting[j.id] = j.request
  /\ \A i \in thrown : awaiting[i] \in {"RUN", "DESCRIBE"}

\* A stream is started by an OK.
Accepted ==
  \A i \in Ids : awaiting[i] = "START_STREAM" =>
    \A k \in Queued(queue, i, conn) : queue[k].type = "OK"

\* Where an open stream, or an entry of the table, can be in its life.
Opened == \A i \in opened : awaiting[i] \in {None, "STOP_STREAM"}
Tabled ==
  \A i \in Ids : streams[i] # None =>
    \/ i \in stale
    \/ i \in opened /\ awaiting[i] = None
    \/ awaiting[i] = "START_STREAM"

\* The data at place k of the queue is behind the answer that opens its stream
\* and before the one that closes it.
FedAt(q, k, i) ==
  \/ i \in stale
  \/ i \in opened /\ awaiting[i] = None
  \/ /\ i \in opened /\ awaiting[i] = "STOP_STREAM"
     /\ \A a \in Queued(q, i, conn) : k < a
  \/ /\ awaiting[i] = "START_STREAM"
     /\ \E a \in Queued(q, i, conn) : a < k
Fed ==
  \A k \in DOMAIN queue :
    queue[k].type = "STREAM_DATA" => FedAt(queue, k, queue[k].id)

Streamed == ~collides => Opened /\ Tabled /\ Fed

IInv ==
  /\ TypeOK /\ Past /\ Quiet /\ Answered /\ Asked /\ Accepted
  /\ Streamed /\ EnabledIsOpen

LEMMA Names ==
  /\ "down" # "starting" /\ "down" # "ready" /\ "starting" # "ready"
  /\ "STREAM_DATA" \notin Answers /\ "OK" \in Answers /\ "ERROR" \in Answers
  /\ "RUN" # "START_STREAM" /\ "RUN" # "STOP_STREAM"
  /\ "DESCRIBE" # "START_STREAM" /\ "DESCRIBE" # "STOP_STREAM"
  /\ "START_STREAM" # "STOP_STREAM"
  /\ "throws" # "collides" /\ "reconnects" # "collides"
  /\ \A q \in Request : q # None
  /\ \A i \in Ids : i # None
  /\ \A e \in Entry : e # None
  BY DispatchAssumption DEF Answers, Request

-----------------------------------------------------------------------------
(* The queue                                                               *)

LEMMA AppendShape ==
  ASSUME NEW S, NEW q \in Seq(S), NEW m \in S
  PROVE  /\ q \o <<m>> \in Seq(S) /\ q \o <<m>> # <<>>
         /\ Len(q) + 1 \in DOMAIN (q \o <<m>>) /\ (q \o <<m>>)[Len(q) + 1] = m
         /\ \A k \in DOMAIN q : /\ k \in DOMAIN (q \o <<m>>) /\ k < Len(q) + 1
                                /\ (q \o <<m>>)[k] = q[k]
         /\ \A k \in DOMAIN (q \o <<m>>) : k \in DOMAIN q \/ k = Len(q) + 1
  OBVIOUS

LEMMA ConcatShape ==
  ASSUME NEW S, NEW q \in Seq(S), NEW m \in S, NEW n \in S
  PROVE  /\ q \o <<>> = q
         /\ q \o (<<m>> \o <<>>) = q \o <<m>>
         /\ q \o (<<m>> \o <<n>>) = (q \o <<m>>) \o <<n>>
  OBVIOUS

LEMMA TailShape ==
  ASSUME NEW S, NEW q \in Seq(S), q # <<>>
  PROVE  /\ Tail(q) \in Seq(S) /\ Head(q) \in S
         /\ 1 \in DOMAIN q /\ Head(q) = q[1]
         /\ \A k \in DOMAIN Tail(q) : k + 1 \in DOMAIN q /\ Tail(q)[k] = q[k + 1]
         /\ \A k \in DOMAIN q : k # 1 => k - 1 \in DOMAIN Tail(q)
         /\ \A k \in DOMAIN q : k \in Nat /\ k >= 1
         /\ \A k \in DOMAIN Tail(q) : k \in Nat /\ k >= 1
  OBVIOUS

\* An answer is queued in one place more.
LEMMA AnswerQueued ==
  ASSUME NEW q \in Seq(Sent), NEW a \in Sent, a.type \in Answers
  PROVE  \A i \in Ids, c \in 1..MaxConnections :
           /\ a.id = i /\ a.of = c =>
                Queued(q \o <<a>>, i, c) = Queued(q, i, c) \cup {Len(q) + 1}
           /\ a.id # i \/ a.of # c => Queued(q \o <<a>>, i, c) = Queued(q, i, c)
  <1> DEFINE r == q \o <<a>>
  <1>1. /\ Len(q) + 1 \in DOMAIN r /\ r[Len(q) + 1] = a
        /\ \A k \in DOMAIN q : k \in DOMAIN r /\ r[k] = q[k]
        /\ \A k \in DOMAIN r : k \in DOMAIN q \/ k = Len(q) + 1
    BY AppendShape
  <1> SUFFICES ASSUME NEW i \in Ids, NEW c \in 1..MaxConnections
               PROVE  /\ a.id = i /\ a.of = c =>
                           Queued(r, i, c) = Queued(q, i, c) \cup {Len(q) + 1}
                      /\ a.id # i \/ a.of # c => Queued(r, i, c) = Queued(q, i, c)
    OBVIOUS
  <1> HIDE DEF r
  <1>2. ASSUME a.id = i, a.of = c
        PROVE  Queued(r, i, c) = Queued(q, i, c) \cup {Len(q) + 1}
    BY <1>1, <1>2 DEF Queued
  <1>3. ASSUME a.id # i \/ a.of # c PROVE Queued(r, i, c) = Queued(q, i, c)
    BY <1>1, <1>3 DEF Queued
  <1> QED  BY <1>2, <1>3

\* Data leaves the answers where they are.
LEMMA DataQueuedShape ==
  ASSUME NEW q \in Seq(Sent), NEW d \in Sent, d.type = "STREAM_DATA"
  PROVE  \A i \in Ids, c \in 1..MaxConnections :
           Queued(q \o <<d>>, i, c) = Queued(q, i, c)
  <1> DEFINE r == q \o <<d>>
  <1>1. /\ r[Len(q) + 1] = d
        /\ \A k \in DOMAIN q : k \in DOMAIN r /\ r[k] = q[k]
        /\ \A k \in DOMAIN r : k \in DOMAIN q \/ k = Len(q) + 1
    BY AppendShape
  <1> SUFFICES ASSUME NEW i \in Ids, NEW c \in 1..MaxConnections
               PROVE  Queued(r, i, c) = Queued(q, i, c)
    OBVIOUS
  <1> HIDE DEF r
  <1> QED  BY <1>1, Names DEF Queued

LEMMA MessageType ==
  ASSUME TypeOK, NEW type \in Answers \cup {"STREAM_DATA"}, NEW i \in Ids
  PROVE  /\ Message(type, i) \in Sent
         /\ Message(type, i).type = type
         /\ Message(type, i).id = i /\ Message(type, i).of = conn
  BY DEF TypeOK, Sent, Message

LEMMA QueuedType ==
  ASSUME TypeOK, NEW k \in DOMAIN queue
  PROVE  /\ queue[k].type \in Answers \cup {"STREAM_DATA"}
         /\ queue[k].id \in Ids /\ queue[k].of \in 1..MaxConnections
  <1>1. queue[k] \in Sent
    BY DEF TypeOK
  <1> QED  BY <1>1 DEF Sent

\* What a resource gives: nothing or one message of data.
LEMMA StateShape ==
  ASSUME NEW r, NEW i
  PROVE  /\ State(r, i) \in {<<>>, <<Message("STREAM_DATA", i)>>}
         /\ EchoOf(r, i) \in {<<>>, <<Message("STREAM_DATA", i)>>}
  BY DEF State, EchoOf

LEMMA InitInv == Init => IInv
  <1> SUFFICES ASSUME Init PROVE IInv  OBVIOUS
  <1> USE Names, DispatchAssumption
  <1>1. TypeOK
    <2>1. <<>> \in Seq(Sent) /\ 1 \in 1..MaxConnections
      OBVIOUS
    <2>2. /\ streams \in [Ids -> Entry \cup {None}]
          /\ stream_id \in [Resources -> Ids \cup {None}]
          /\ awaiting \in [Ids -> Request \cup {None}]
      BY DEF Init
    <2> QED  BY <2>1, <2>2 DEF Init, TypeOK
  <1>2. Past /\ Quiet /\ Asked
    BY DEF Init, Past, Quiet, Asked, connected
  <1>3. \A i \in Ids : /\ Queued(queue, i, conn) = {} /\ Running(i, conn) = {}
                       /\ ~Unanswered(i)
    BY DEF Init, Queued, Running, Unanswered
  <1>4. Answered /\ Accepted
    BY <1>3 DEF Init, Answered, OneOf, Accepted
  <1>5. Streamed /\ EnabledIsOpen
    BY DEF Init, Streamed, Opened, Tabled, Fed, EnabledIsOpen
  <1> QED  BY <1>1, <1>2, <1>4, <1>5 DEF IInv

-----------------------------------------------------------------------------
(* Steps that send no answer                                               *)

\* Stream data behind the answer that opens its stream.
LEMMA SendDataInv ==
  ASSUME IInv, connected, NEW i \in Ids,
         NEW ms \in {<<>>, <<Message("STREAM_DATA", i)>>}, Send(ms),
         collides \/ FedAt(queue, Len(queue) + 1, i),
         UNCHANGED <<trouble, link, table, jobs, server>>
  PROVE  IInv'
  <1> USE DEF IInv, link, table, jobs, server
  <1> DEFINE d == Message("STREAM_DATA", i)
  <1>0. d \in Sent /\ d.type = "STREAM_DATA" /\ d.id = i /\ d.of = conn
    BY MessageType
  <1>1. queue \in Seq(Sent) /\ queue' = queue \o ms
    BY DEF TypeOK, Send
  <1>2. /\ queue' \in Seq(Sent)
        /\ \A k \in DOMAIN queue' :
             \/ k \in DOMAIN queue /\ queue'[k] = queue[k]
             \/ k = Len(queue) + 1 /\ queue'[k] = d
        /\ \A j \in Ids, c \in 1..MaxConnections :
             Queued(queue', j, c) = Queued(queue, j, c)
        /\ \A k \in DOMAIN queue : queue'[k] = queue[k]
    <2>1. CASE ms = <<>>
      BY <1>1, <2>1, ConcatShape
    <2>2. CASE ms = <<d>>
      <3> HIDE DEF d
      <3>1. /\ queue' = queue \o <<d>> /\ queue' \in Seq(Sent)
            /\ \A k \in DOMAIN queue' :
                 \/ k \in DOMAIN queue /\ queue'[k] = queue[k]
                 \/ k = Len(queue) + 1 /\ queue'[k] = d
            /\ \A k \in DOMAIN queue : queue'[k] = queue[k]
        BY <1>0, <1>1, <2>2, AppendShape
      <3>2. \A j \in Ids, c \in 1..MaxConnections :
              Queued(queue', j, c) = Queued(queue, j, c)
        BY <1>0, <1>1, <3>1, DataQueuedShape
      <3> QED  BY <3>1, <3>2
    <2> QED  BY <2>1, <2>2
  <1> HIDE DEF d
  <1>3. conn' = conn /\ conn \in 1..MaxConnections
    BY DEF TypeOK
  <1>4. TypeOK'
    BY <1>2 DEF TypeOK, Send
  <1>5. Past' /\ Quiet'
    BY <1>0, <1>1, <1>2, <1>3 DEF Past, Quiet, Send, connected, TypeOK
  <1>6. Answered' /\ Asked'
    BY <1>2, <1>3 DEF Answered, OneOf, Running, Unanswered, connected, Asked
  <1>7. Accepted'
    <2> SUFFICES ASSUME NEW j \in Ids, awaiting[j] = "START_STREAM",
                        NEW k \in Queued(queue', j, conn)
                 PROVE  queue'[k].type = "OK"
      BY <1>3 DEF Accepted
    <2>1. k \in Queued(queue, j, conn)
      BY <1>2, <1>3
    <2> QED  BY <1>2, <2>1 DEF Accepted, Queued
  <1>8. Streamed'
    <2> SUFFICES ASSUME ~collides PROVE Opened' /\ Tabled' /\ Fed'
      BY DEF Streamed, collides
    <2>1. Opened' /\ Tabled'
      BY DEF Streamed, Opened, Tabled
    <2>2. ASSUME NEW k \in DOMAIN queue', queue'[k].type = "STREAM_DATA"
          PROVE  FedAt(queue, k, queue'[k].id) /\ queue'[k].id \in Ids
      <3>1. CASE k \in DOMAIN queue /\ queue'[k] = queue[k]
        BY <2>2, <3>1, QueuedType DEF Streamed, Fed
      <3>2. CASE k = Len(queue) + 1 /\ queue'[k] = d
        BY <1>0, <3>2
      <3> QED  BY <1>2, <3>1, <3>2
    <2>3. Fed'
      BY <1>2, <1>3, <2>2 DEF Fed, FedAt
    <2> QED  BY <2>1, <2>3
  <1>9. EnabledIsOpen'
    BY DEF EnabledIsOpen, collides
  <1> QED  BY <1>4, <1>5, <1>6, <1>7, <1>8, <1>9

\* An entry of the table is fed behind all that is queued.
LEMMA FedBehind ==
  ASSUME IInv, connected, ~collides, NEW i \in Ids, streams[i] # None
  PROVE  FedAt(queue, Len(queue) + 1, i)
  <1> USE DEF IInv
  <1>1. CASE awaiting[i] = "START_STREAM"
    <2>1. Unanswered(i)
      BY <1>1, Names DEF Unanswered, Asked, Request
    <2>2. Running(i, conn) = {}
      BY <1>1, Names DEF Asked, Running, TypeOK, Job
    <2>3. PICK a \in Queued(queue, i, conn) : TRUE
      BY <2>1, <2>2 DEF Answered, OneOf
    <2>4. a < Len(queue) + 1
      BY <2>3 DEF Queued, TypeOK
    <2> QED  BY <1>1, <2>4 DEF FedAt
  <1>2. CASE awaiting[i] # "START_STREAM"
    BY <1>2 DEF Streamed, Tabled, FedAt
  <1> QED  BY <1>1, <1>2

LEMMA DataInv ==
  ASSUME IInv, NEW i \in Ids, StreamData(i) \/ IntervalOver(i),
         UNCHANGED trouble
  PROVE  IInv'
  <1> USE DEF IInv
  <1>1. connected
    BY Names DEF StreamData, Reading, IntervalOver, Quiet, connected
  <1>2. streams[i] # None
    BY DEF StreamData, IntervalOver, Due
  <1>3. PICK ms \in {<<>>, <<Message("STREAM_DATA", i)>>} : Send(ms)
    BY StateShape DEF StreamData, IntervalOver
  <1>4. UNCHANGED <<link, table, jobs, server>>
    BY DEF StreamData, IntervalOver
  <1> QED  BY <1>1, <1>2, <1>3, <1>4, FedBehind, SendDataInv

LEMMA AppInv ==
  ASSUME IInv, NEW r \in Resources, AppStreams(r), UNCHANGED trouble
  PROVE  IInv'
  <1> USE DEF IInv
  <1> DEFINE i == stream_id[r]
  <1>1. i \in Ids /\ i # None
    BY DEF AppStreams, TypeOK
  <1>2. /\ connected /\ Send(<<Message("STREAM_DATA", i)>>)
        /\ UNCHANGED <<link, table, jobs, server>>
    BY DEF AppStreams
  <1>3. ~collides /\ i \notin stale => streams[i] # None
    <2> SUFFICES ASSUME ~collides, i \notin stale PROVE streams[i] # None
      OBVIOUS
    <2>1. streams[i] = [resource |-> r, interval |-> FALSE]
      BY <1>1 DEF EnabledIsOpen
    <2>2. [resource |-> r, interval |-> FALSE] \in Entry
      BY DEF Entry
    <2> QED  BY <2>1, <2>2, Names
  <1> HIDE DEF i
  <1>4. collides \/ FedAt(queue, Len(queue) + 1, i)
    <2>1. CASE i \in stale
      BY <2>1 DEF FedAt
    <2>2. CASE i \notin stale
      BY <1>1, <1>2, <1>3, <2>2, FedBehind
    <2> QED  BY <2>1, <2>2
  <1> QED  BY <1>1, <1>2, <1>4, SendDataInv

\* The loops start and end, and continuations run.
LEMMA SilentInv ==
  ASSUME IInv, UNCHANGED trouble,
         \/ Ready \/ \E c \in after : Continue(c)
         \/ \E i \in Ids : IntervalThrows(i)
  PROVE  IInv'
  <1> USE Names DEF IInv, link, table, writer, jobs, server
  <1>1. /\ phase' \in {"down", "starting", "ready"} /\ interval_loop' \in BOOLEAN
        /\ interval_loop' => phase' = "ready"
        /\ phase' = "down" <=> phase = "down"
        /\ after' \subseteq after
        /\ UNCHANGED <<conn, table, writer, pool, server>>
    <2>1. CASE Ready
      BY <2>1 DEF Ready, TypeOK
    <2>2. ASSUME NEW c \in after, Continue(c)
          PROVE  /\ after' \subseteq after
                 /\ UNCHANGED <<link, table, writer, pool, server>>
      BY <2>2 DEF Continue
    <2>3. ASSUME NEW i \in Ids, IntervalThrows(i)
          PROVE  /\ interval_loop' = FALSE
                 /\ UNCHANGED <<conn, phase, table, writer, jobs, server>>
      BY <2>3 DEF IntervalThrows
    <2> QED  BY <2>1, <2>2, <2>3 DEF Quiet, TypeOK
  <1>2. TypeOK'
    BY <1>1 DEF TypeOK
  <1>3. Past' /\ Quiet' /\ Asked'
    BY <1>1 DEF Past, Quiet, Asked, connected
  <1>4. Answered' /\ Accepted'
    BY <1>1 DEF Answered, OneOf, Running, Unanswered, connected, Accepted
  <1>5. Streamed' /\ EnabledIsOpen'
    BY <1>1 DEF Streamed, Opened, Tabled, Fed, FedAt, EnabledIsOpen, collides
  <1> QED  BY <1>2, <1>3, <1>4, <1>5

-----------------------------------------------------------------------------
(* Requests that the pool answers                                          *)

\* An id the server asks nothing under has no answer under way.
LEMMA NothingDue ==
  ASSUME IInv, connected, NEW i \in Ids, awaiting[i] = None
  PROVE  Queued(queue, i, conn) = {} /\ Running(i, conn) = {} /\ i \notin thrown
  <1>1. i \notin thrown
    BY Names DEF IInv, Asked, Request
  <1>2. ~Unanswered(i)
    BY DEF Unanswered
  <1> QED  BY <1>1, <1>2 DEF IInv, Answered, OneOf

\* What is left of a stream under an id that is free is stale.
LEMMA LeftIsStale ==
  ASSUME IInv, ~collides, NEW i \in Ids, awaiting[i] = None, i \notin opened
  PROVE  /\ streams[i] # None => i \in stale
         /\ \A k \in DOMAIN queue :
              queue[k].type = "STREAM_DATA" /\ queue[k].id = i => i \in stale
  BY Names DEF IInv, Streamed, Tabled, Fed, FedAt, Request

LEMMA AskResourceInv ==
  ASSUME IInv, NEW i \in Ids, NEW request \in {"RUN", "DESCRIBE"},
         AskResource(i, request), UNCHANGED trouble
  PROVE  IInv'
  <1> USE DEF IInv
  <1> DEFINE j == [id |-> i, of |-> conn, request |-> request]
  <1>1. /\ connected /\ awaiting[i] = None /\ i \notin opened
        /\ awaiting' = [awaiting EXCEPT ![i] = request]
        /\ pool' = pool \cup {j}
        /\ UNCHANGED <<link, table, writer, after, opened, subscribed, thrown,
                       stale>>
    BY Names DEF AskResource, Asks, Reading, connected
  <1>2. j \in Job /\ j.id = i /\ j.of = conn /\ j.request = request
    BY DEF TypeOK, Job
  <1> HIDE DEF j
  <1> USE DEF link, table, writer
  <1>3. Queued(queue, i, conn) = {} /\ Running(i, conn) = {} /\ i \notin thrown
    BY <1>1, NothingDue
  <1>4. /\ request \in Request /\ request # None
        /\ awaiting'[i] = request
        /\ \A h \in Ids : h # i => awaiting'[h] = awaiting[h]
    BY <1>1, Names DEF Request, TypeOK
  <1>5. TypeOK'
    BY <1>1, <1>2, <1>4 DEF TypeOK
  <1>6. Past' /\ Quiet'
    BY <1>1, <1>2 DEF Past, Quiet, connected, TypeOK
  <1>7. Answered'
    <2>1. Running(i, conn)' = {j}
      BY <1>1, <1>2, <1>3 DEF Running
    <2>2. \A h \in Ids : h # i => Running(h, conn)' = Running(h, conn)
      BY <1>1, <1>2 DEF Running
    <2>3. Unanswered(i)'
      BY <1>1, <1>3, <1>4 DEF Unanswered
    <2>4. \A h \in Ids : h # i => (Unanswered(h)' <=> Unanswered(h))
      BY <1>1, <1>4 DEF Unanswered
    <2>5. OneOf(Queued(queue, i, conn), {j}, TRUE)
      BY <1>3 DEF OneOf
    <2> SUFFICES ASSUME NEW h \in Ids
                 PROVE  OneOf(Queued(queue, h, conn), Running(h, conn)',
                              Unanswered(h)')
      BY <1>1 DEF Answered
    <2>6. CASE h = i
      BY <2>1, <2>3, <2>5, <2>6 DEF OneOf
    <2>7. CASE h # i
      BY <1>1, <2>2, <2>4, <2>7 DEF Answered, OneOf
    <2> QED  BY <2>6, <2>7
  <1>8. Asked'
    <2>1. \A h \in pool : h.of = conn => h.id # i
      BY <1>3 DEF Running
    <2>2. \A h \in pool : h \in Job
      BY DEF TypeOK
    <2>3. \A h \in thrown : h \in Ids /\ h # i
      BY <1>3 DEF TypeOK
    <2> QED  BY <1>1, <1>2, <1>4, <2>1, <2>2, <2>3 DEF Asked, connected, Job
  <1>9. Accepted'
    BY <1>1, <1>4, Names DEF Accepted
  <1>10. Streamed'
    <2> SUFFICES ASSUME ~collides PROVE Opened' /\ Tabled' /\ Fed'
      BY DEF Streamed, collides
    <2>1. Opened'
      BY <1>1, <1>4 DEF Streamed, Opened, TypeOK
    <2>2. Tabled'
      BY <1>1, <1>4, LeftIsStale DEF Streamed, Tabled
    <2>3. Fed'
      <3> SUFFICES ASSUME NEW k \in DOMAIN queue, queue[k].type = "STREAM_DATA"
                   PROVE  FedAt(queue, k, queue[k].id)'
        BY <1>1 DEF Fed
      <3>1. queue[k].id \in Ids
        BY QueuedType
      <3>2. CASE queue[k].id = i
        BY <1>1, <3>2, LeftIsStale DEF FedAt
      <3>3. CASE queue[k].id # i
        BY <1>1, <1>4, <3>1, <3>3 DEF Streamed, Fed, FedAt
      <3> QED  BY <3>2, <3>3
    <2> QED  BY <2>1, <2>2, <2>3
  <1>11. EnabledIsOpen'
    BY <1>1 DEF EnabledIsOpen, collides
  <1> QED  BY <1>5, <1>6, <1>7, <1>8, <1>9, <1>10, <1>11

\* The answer of a job takes its place in the queue.
LEMMA HandlerReturnsInv ==
  ASSUME IInv, NEW j \in pool, HandlerReturns(j), UNCHANGED trouble
  PROVE  IInv'
  <1> USE DEF IInv
  <1>1. PICK type \in Outcomes(j) : Send(<<AnswerOf(j, type)>>)
    BY DEF HandlerReturns
  <1> DEFINE a == AnswerOf(j, type)
  <1>2. /\ j \in Job /\ j.id \in Ids /\ j.of \in 1..MaxConnections
        /\ j.of <= conn /\ j.request \in {"RUN", "DESCRIBE"}
    BY DEF TypeOK, Job, Past
  <1>3. /\ a \in Sent /\ a.type \in Answers /\ a.id = j.id /\ a.of = j.of
    BY <1>2 DEF AnswerOf, Outcomes, Sent, Answers
  <1>4. /\ queue' = queue \o <<a>> /\ pool' = pool \ {j}
        /\ after' \in {after, {j}}
        /\ write_in_progress' = (connected /\ queue \o <<a>> # <<>>)
        /\ UNCHANGED <<link, table, server>>
    BY <1>1 DEF HandlerReturns, Send
  <1> HIDE DEF a
  <1> USE DEF link, table, server
  <1>5. /\ queue' \in Seq(Sent) /\ queue' # <<>>
        /\ \A k \in DOMAIN queue' :
             \/ k \in DOMAIN queue /\ queue'[k] = queue[k]
             \/ queue'[k] = a
    BY <1>3, <1>4, AppendShape DEF TypeOK
  <1>6. \A i \in Ids :
          /\ j.id = i /\ j.of = conn =>
               Queued(queue', i, conn) = Queued(queue, i, conn) \cup {Len(queue) + 1}
          /\ j.id # i \/ j.of # conn =>
               Queued(queue', i, conn) = Queued(queue, i, conn)
    BY <1>3, <1>4, AnswerQueued DEF TypeOK
  <1>7. TypeOK'
    BY <1>2, <1>4, <1>5 DEF TypeOK
  <1>8. Past' /\ Quiet'
    BY <1>2, <1>3, <1>4, <1>5 DEF Past, Quiet, connected
  <1>9. Answered'
    <2> SUFFICES ASSUME connected, NEW i \in Ids
                 PROVE  OneOf(Queued(queue', i, conn), Running(i, conn)',
                              Unanswered(i))
      BY <1>4 DEF Answered, connected, Unanswered
    <2>1. OneOf(Queued(queue, i, conn), Running(i, conn), Unanswered(i))
      BY DEF Answered
    <2>2. CASE j.id = i /\ j.of = conn
      <3>1. j \in Running(i, conn)
        BY <2>2 DEF Running
      <3>2. Running(i, conn) = {j} /\ Queued(queue, i, conn) = {} /\ Unanswered(i)
        BY <2>1, <3>1 DEF OneOf
      <3>3. Running(i, conn)' = {}
        BY <1>4, <3>2 DEF Running
      <3>4. Queued(queue', i, conn) = {Len(queue) + 1}
        BY <1>6, <2>2, <3>2
      <3> QED  BY <3>2, <3>3, <3>4 DEF OneOf
    <2>3. CASE ~(j.id = i /\ j.of = conn)
      <3>1. Running(i, conn)' = Running(i, conn)
        BY <1>4, <2>3 DEF Running
      <3>2. Queued(queue', i, conn) = Queued(queue, i, conn)
        BY <1>6, <2>3
      <3> QED  BY <2>1, <3>1, <3>2
    <2> QED  BY <2>2, <2>3
  <1>10. Asked'
    BY <1>4 DEF Asked, connected
  <1>11. \A i \in Ids : awaiting[i] \in {"START_STREAM", "STOP_STREAM"} =>
           Queued(queue', i, conn) = Queued(queue, i, conn)
    <2> SUFFICES ASSUME NEW i \in Ids, j.id = i, j.of = conn
                 PROVE  awaiting[i] \notin {"START_STREAM", "STOP_STREAM"}
      BY <1>6
    <2>1. CASE connected
      BY <1>2, <2>1, Names DEF Asked
    <2>2. CASE ~connected
      <3>1. awaiting[i] = None
        BY <2>2 DEF Quiet
      <3> QED  BY <3>1, Names DEF Request
    <2> QED  BY <2>1, <2>2
  <1>12. Accepted'
    <2> SUFFICES ASSUME NEW i \in Ids, awaiting[i] = "START_STREAM",
                        NEW k \in Queued(queue, i, conn)
                 PROVE  queue'[k].type = "OK"
      BY <1>4, <1>11 DEF Accepted
    <2>1. k \in DOMAIN queue /\ queue'[k] = queue[k]
      BY <1>3, <1>4, AppendShape DEF Queued, TypeOK
    <2> QED  BY <2>1 DEF Accepted
  <1>13. Streamed'
    <2> SUFFICES ASSUME ~collides PROVE Opened' /\ Tabled' /\ Fed'
      BY DEF Streamed, collides
    <2>1. Opened' /\ Tabled'
      BY <1>4 DEF Streamed, Opened, Tabled
    <2>2. Fed'
      <3> SUFFICES ASSUME NEW k \in DOMAIN queue', queue'[k].type = "STREAM_DATA"
                   PROVE  FedAt(queue', k, queue'[k].id)
        BY <1>4 DEF Fed, FedAt
      <3>1. k \in DOMAIN queue /\ queue'[k] = queue[k]
        BY <1>3, <1>5, Names
      <3>3. queue[k].id \in Ids
        BY <3>1, QueuedType
      <3> QED  BY <1>11, <3>1, <3>3 DEF Streamed, Fed, FedAt
    <2> QED  BY <2>1, <2>2
  <1>14. EnabledIsOpen'
    BY <1>4 DEF EnabledIsOpen, collides
  <1> QED  BY <1>7, <1>8, <1>9, <1>10, <1>12, <1>13, <1>14

\* A job that throws takes the answer with it.
LEMMA HandlerThrowsInv ==
  ASSUME IInv, NEW j \in pool, HandlerThrows(j), UNCHANGED trouble
  PROVE  IInv'
  <1> USE DEF IInv
  <1>1. /\ pool' = pool \ {j}
        /\ thrown' = IF j.of = conn /\ connected THEN thrown \cup {j.id} ELSE thrown
        /\ UNCHANGED <<link, table, writer, after, awaiting, opened, subscribed,
                       stale>>
    BY DEF HandlerThrows
  <1>2. j \in Job /\ j.id \in Ids /\ j.request \in {"RUN", "DESCRIBE"}
    BY DEF TypeOK, Job
  <1> USE DEF link, table, writer
  <1>3. TypeOK' /\ Past' /\ Quiet'
    BY <1>1, <1>2 DEF TypeOK, Past, Quiet, connected
  <1>4. Asked'
    BY <1>1, <1>2 DEF Asked, connected
  <1>5. Answered'
    <2> SUFFICES ASSUME connected, NEW i \in Ids
                 PROVE  OneOf(Queued(queue, i, conn), Running(i, conn)',
                              Unanswered(i)')
      BY <1>1 DEF Answered, connected
    <2>1. OneOf(Queued(queue, i, conn), Running(i, conn), Unanswered(i))
      BY DEF Answered
    <2>2. CASE j.id = i /\ j.of = conn
      <3>1. j \in Running(i, conn)
        BY <2>2 DEF Running
      <3>2. Running(i, conn) = {j} /\ Queued(queue, i, conn) = {}
        BY <2>1, <3>1 DEF OneOf
      <3>3. Running(i, conn)' = {} /\ ~Unanswered(i)'
        BY <1>1, <2>2, <3>2 DEF Running, Unanswered
      <3> QED  BY <3>2, <3>3 DEF OneOf
    <2>3. CASE ~(j.id = i /\ j.of = conn)
      <3>1. Running(i, conn)' = Running(i, conn)
        BY <1>1, <2>3 DEF Running
      <3>2. Unanswered(i)' <=> Unanswered(i)
        BY <1>1, <2>3 DEF Unanswered
      <3> QED  BY <2>1, <3>1, <3>2 DEF OneOf
    <2> QED  BY <2>2, <2>3
  <1>6. Accepted' /\ Streamed' /\ EnabledIsOpen'
    BY <1>1 DEF Accepted, Streamed, Opened, Tabled, Fed, FedAt, EnabledIsOpen,
      collides
  <1> QED  BY <1>3, <1>4, <1>5, <1>6

-----------------------------------------------------------------------------
(* Requests that are answered at once                                      *)

\* r is q with the answer a behind it, and perhaps the data d behind that.
Follows(q, r, a, d) ==
  /\ r \in Seq(Sent) /\ r # <<>>
  /\ \A k \in DOMAIN r :
       \/ k \in DOMAIN q /\ r[k] = q[k] /\ k < Len(q) + 1
       \/ k = Len(q) + 1 /\ r[k] = a
       \/ k = Len(q) + 2 /\ r[k] = d
  /\ \A k \in DOMAIN q : r[k] = q[k]
  /\ r[Len(q) + 1] = a
  /\ \A j \in Ids, c \in 1..MaxConnections :
       /\ a.id = j /\ a.of = c =>
            Queued(r, j, c) = Queued(q, j, c) \cup {Len(q) + 1}
       /\ a.id # j \/ a.of # c => Queued(r, j, c) = Queued(q, j, c)

LEMMA AnswerFollows ==
  ASSUME NEW q \in Seq(Sent), NEW a \in Sent, a.type \in Answers, NEW d
  PROVE  Follows(q, q \o <<a>>, a, d) /\ Len(q \o <<a>>) = Len(q) + 1
  <1>1. Len(q \o <<a>>) = Len(q) + 1
    OBVIOUS
  <1> DEFINE r == q \o <<a>>
  <1>2. /\ r \in Seq(Sent) /\ r # <<>> /\ r[Len(q) + 1] = a
        /\ \A k \in DOMAIN q : k < Len(q) + 1 /\ r[k] = q[k]
        /\ \A k \in DOMAIN r : k \in DOMAIN q \/ k = Len(q) + 1
    BY AppendShape
  <1>3. \A j \in Ids, c \in 1..MaxConnections :
          /\ a.id = j /\ a.of = c =>
               Queued(r, j, c) = Queued(q, j, c) \cup {Len(q) + 1}
          /\ a.id # j \/ a.of # c => Queued(r, j, c) = Queued(q, j, c)
    BY AnswerQueued
  <1> HIDE DEF r
  <1>4. Follows(q, r, a, d)
    BY <1>2, <1>3 DEF Follows
  <1> QED  BY <1>1, <1>4 DEF r

LEMMA DataFollows ==
  ASSUME NEW q \in Seq(Sent), NEW p \in Seq(Sent), NEW a,
         NEW d \in Sent, d.type = "STREAM_DATA",
         Follows(q, p, a, d), Len(p) = Len(q) + 1
  PROVE  Follows(q, p \o <<d>>, a, d)
  <1> DEFINE r == p \o <<d>>
  <1>1. /\ r \in Seq(Sent) /\ r # <<>>
        /\ \A k \in DOMAIN p : r[k] = p[k]
        /\ \A k \in DOMAIN r : k \in DOMAIN p \/ k = Len(p) + 1
        /\ r[Len(p) + 1] = d
    BY AppendShape
  <1>2. \A j \in Ids, c \in 1..MaxConnections : Queued(r, j, c) = Queued(p, j, c)
    BY DataQueuedShape
  <1>3. /\ Len(p) + 1 = Len(q) + 2 /\ Len(q) + 1 \in DOMAIN p
        /\ \A k \in DOMAIN q : k \in DOMAIN p
    OBVIOUS
  <1> HIDE DEF r
  <1>4. r[Len(q) + 1] = a /\ \A k \in DOMAIN q : r[k] = q[k]
    BY <1>1, <1>3 DEF Follows
  <1>5. \A k \in DOMAIN r :
          \/ k \in DOMAIN q /\ r[k] = q[k] /\ k < Len(q) + 1
          \/ k = Len(q) + 1 /\ r[k] = a
          \/ k = Len(q) + 2 /\ r[k] = d
    <2> SUFFICES ASSUME NEW k \in DOMAIN r
                 PROVE  \/ k \in DOMAIN q /\ r[k] = q[k] /\ k < Len(q) + 1
                        \/ k = Len(q) + 1 /\ r[k] = a
                        \/ k = Len(q) + 2 /\ r[k] = d
      OBVIOUS
    <2>1. CASE k \in DOMAIN p
      <3>1. k # Len(q) + 2
        BY <1>3, <2>1
      <3> QED  BY <1>1, <1>4, <2>1, <3>1 DEF Follows
    <2>2. CASE k = Len(p) + 1
      BY <1>1, <1>3, <2>2
    <2> QED  BY <1>1, <2>1, <2>2
  <1>6. \A j \in Ids, c \in 1..MaxConnections :
          /\ a.id = j /\ a.of = c =>
               Queued(r, j, c) = Queued(q, j, c) \cup {Len(q) + 1}
          /\ a.id # j \/ a.of # c => Queued(r, j, c) = Queued(q, j, c)
    BY <1>2 DEF Follows
  <1>7. Follows(q, r, a, d)
    BY <1>1, <1>4, <1>5, <1>6 DEF Follows
  <1> QED  BY <1>7 DEF r

LEMMA SentShape ==
  ASSUME NEW q \in Seq(Sent), NEW a \in Sent, a.type \in Answers,
         NEW d \in Sent, d.type = "STREAM_DATA", NEW ms \in {<<>>, <<d>>}
  PROVE  /\ Follows(q, q \o (<<a>> \o ms), a, d)
         /\ ms = <<>> => DOMAIN (q \o (<<a>> \o ms)) \subseteq 1..(Len(q) + 1)
  <1>1. CASE ms = <<>>
    <2>1. q \o (<<a>> \o ms) = q \o <<a>>
      BY <1>1, ConcatShape
    <2>2. DOMAIN (q \o <<a>>) \subseteq 1..(Len(q) + 1)
      OBVIOUS
    <2> QED  BY <2>1, <2>2, AnswerFollows
  <1>2. CASE ms = <<d>>
    <2>1. q \o (<<a>> \o ms) = (q \o <<a>>) \o <<d>>
      BY <1>2, ConcatShape
    <2>2. q \o <<a>> \in Seq(Sent) /\ ms # <<>>
      BY <1>2
    <2>3. Follows(q, (q \o <<a>>) \o <<d>>, a, d)
      BY <2>2, AnswerFollows, DataFollows
    <2> QED  BY <2>1, <2>2, <2>3
  <1> QED  BY <1>1, <1>2

\* The request counts as asked and its answer as queued in one step.
LEMMA AnsweredAtOnce ==
  ASSUME IInv, connected, UNCHANGED <<link, pool, thrown>>,
         NEW i \in Ids, awaiting[i] = None, NEW request \in Request,
         awaiting' = [awaiting EXCEPT ![i] = request],
         NEW type \in Answers, request = "START_STREAM" => type = "OK",
         NEW ms \in {<<>>, <<Message("STREAM_DATA", i)>>},
         Send(<<Message(type, i)>> \o ms)
  PROVE  /\ queue' \in Seq(Sent) /\ write_in_progress' \in BOOLEAN
         /\ awaiting' \in [Ids -> Request \cup {None}]
         /\ Past' /\ Quiet' /\ Answered' /\ Asked' /\ Accepted'
         /\ awaiting'[i] = request
         /\ \A h \in Ids : h # i => awaiting'[h] = awaiting[h]
         /\ \A h \in Ids : h # i =>
              Queued(queue', h, conn) = Queued(queue, h, conn)
         /\ Queued(queue', i, conn) = {Len(queue) + 1}
         /\ \A k \in DOMAIN queue' :
              queue'[k].type = "STREAM_DATA" =>
                \/ k \in DOMAIN queue /\ queue'[k] = queue[k] /\ k < Len(queue) + 1
                \/ k > Len(queue) + 1 /\ queue'[k].id = i /\ ms # <<>>
  <1> USE DEF IInv, link
  <1> DEFINE a == Message(type, i)
             d == Message("STREAM_DATA", i)
  <1>1. /\ a \in Sent /\ a.type = type /\ a.id = i /\ a.of = conn
        /\ d \in Sent /\ d.type = "STREAM_DATA" /\ d.id = i /\ d.of = conn
        /\ conn \in 1..MaxConnections
    BY MessageType DEF TypeOK
  <1>2. /\ queue' = queue \o (<<a>> \o ms)
        /\ write_in_progress' = (connected /\ queue' # <<>>)
        /\ ms \in {<<>>, <<d>>}
    BY DEF Send
  <1> HIDE DEF a, d
  <1>3. /\ queue' \in Seq(Sent) /\ queue' # <<>>
        /\ \A k \in DOMAIN queue' :
             \/ k \in DOMAIN queue /\ queue'[k] = queue[k] /\ k < Len(queue) + 1
             \/ k = Len(queue) + 1 /\ queue'[k] = a
             \/ k = Len(queue) + 2 /\ queue'[k] = d
        /\ \A k \in DOMAIN queue : queue'[k] = queue[k]
        /\ queue'[Len(queue) + 1] = a
        /\ \A j \in Ids, c \in 1..MaxConnections :
             /\ a.id = j /\ a.of = c =>
                  Queued(queue', j, c) = Queued(queue, j, c) \cup {Len(queue) + 1}
             /\ a.id # j \/ a.of # c => Queued(queue', j, c) = Queued(queue, j, c)
    <2>1. queue \in Seq(Sent)
      BY DEF TypeOK
    <2>2. Follows(queue, queue', a, d)
      <3>1. Follows(queue, queue \o (<<a>> \o ms), a, d)
        BY <1>1, <1>2, <2>1, SentShape
      <3> QED  BY <1>2, <3>1
    <2> QED  BY <2>2 DEF Follows
  <1>4. Queued(queue, i, conn) = {} /\ Running(i, conn) = {} /\ i \notin thrown
    BY NothingDue
  <1>5. /\ Queued(queue', i, conn) = {Len(queue) + 1}
        /\ \A h \in Ids : h # i =>
             Queued(queue', h, conn) = Queued(queue, h, conn)
    BY <1>1, <1>3, <1>4
  <1>6. /\ request # None /\ awaiting'[i] = request
        /\ \A h \in Ids : h # i => awaiting'[h] = awaiting[h]
        /\ awaiting' \in [Ids -> Request \cup {None}]
    BY Names DEF TypeOK
  <1>7. Past'
    BY <1>1, <1>3 DEF Past, TypeOK
  <1>8. Quiet' /\ write_in_progress' \in BOOLEAN
    BY <1>2, <1>3 DEF Quiet, connected
  <1>9. Answered'
    <2> SUFFICES ASSUME NEW h \in Ids
                 PROVE  OneOf(Queued(queue', h, conn), Running(h, conn),
                              Unanswered(h)')
      BY DEF Answered, Running
    <2>1. CASE h = i
      <3>1. Unanswered(i)'
        BY <1>4, <1>6 DEF Unanswered
      <3>2. OneOf({Len(queue) + 1}, {}, TRUE)
        BY DEF OneOf
      <3> QED  BY <1>4, <1>5, <2>1, <3>1, <3>2 DEF OneOf
    <2>2. CASE h # i
      <3>1. Unanswered(h)' <=> Unanswered(h)
        BY <1>6, <2>2 DEF Unanswered
      <3> QED  BY <1>5, <2>2, <3>1 DEF Answered, OneOf
    <2> QED  BY <2>1, <2>2
  <1>10. Asked'
    <2>1. \A h \in pool : h.id \in Ids /\ (h.of = conn => h.id # i)
      BY <1>4 DEF Running, TypeOK, Job
    <2>2. \A h \in thrown : h \in Ids /\ h # i
      BY <1>4 DEF TypeOK
    <2> QED  BY <1>6, <2>1, <2>2 DEF Asked, connected
  <1>11. Accepted'
    <2> SUFFICES ASSUME NEW h \in Ids, awaiting'[h] = "START_STREAM",
                        NEW k \in Queued(queue', h, conn)
                 PROVE  queue'[k].type = "OK"
      BY DEF Accepted
    <2>1. CASE h = i
      BY <1>1, <1>3, <1>5, <1>6, <2>1
    <2>2. CASE h # i
      <3>1. k \in Queued(queue, h, conn) /\ awaiting[h] = "START_STREAM"
        BY <1>5, <1>6, <2>2
      <3> QED  BY <1>3, <3>1 DEF Accepted, Queued
    <2> QED  BY <2>1, <2>2
  <1>12. ASSUME NEW k \in DOMAIN queue', queue'[k].type = "STREAM_DATA"
         PROVE  \/ k \in DOMAIN queue /\ queue'[k] = queue[k] /\ k < Len(queue) + 1
                \/ k > Len(queue) + 1 /\ queue'[k].id = i /\ ms # <<>>
    <2>1. CASE ms = <<>>
      <3>1. DOMAIN queue' \subseteq 1..(Len(queue) + 1)
        BY <1>1, <1>2, <2>1, SentShape DEF TypeOK
      <3> QED  BY <1>1, <1>3, <1>12, <3>1, Names DEF TypeOK
    <2>2. CASE ms # <<>>
      BY <1>1, <1>3, <1>12, <2>2, Names DEF TypeOK
    <2> QED  BY <2>1, <2>2
  <1> QED  BY <1>3, <1>5, <1>6, <1>7, <1>8, <1>9, <1>10, <1>11, <1>12

\* Of a request under an id that is free nothing but what is stale is left.
LEMMA UnresolvedInv ==
  ASSUME IInv, NEW i \in Ids, AskUnresolved(i), UNCHANGED trouble PROVE IInv'
  <1> USE DEF IInv, link, table, jobs
  <1>1. /\ connected /\ awaiting[i] = None /\ i \notin opened
        /\ awaiting' = [awaiting EXCEPT ![i] = "DESCRIBE"]
        /\ UNCHANGED <<link, table, jobs, opened, subscribed, thrown, stale>>
    BY Names DEF AskUnresolved, Asks, Reading, connected
  <1>2. PICK type \in Answers : Send(<<Message(type, i)>>)
    BY DEF AskUnresolved
  <1>3. Send(<<Message(type, i)>> \o <<>>) /\ "DESCRIBE" \in Request
    BY <1>2 DEF Send, Request
  <1>4. /\ queue' \in Seq(Sent) /\ write_in_progress' \in BOOLEAN
        /\ awaiting' \in [Ids -> Request \cup {None}]
        /\ Past' /\ Quiet' /\ Answered' /\ Asked' /\ Accepted'
        /\ awaiting'[i] = "DESCRIBE"
        /\ \A h \in Ids : h # i => awaiting'[h] = awaiting[h]
        /\ \A h \in Ids : h # i =>
             Queued(queue', h, conn) = Queued(queue, h, conn)
        /\ \A k \in DOMAIN queue' :
             queue'[k].type = "STREAM_DATA" =>
               k \in DOMAIN queue /\ queue'[k] = queue[k]
    BY <1>1, <1>3, AnsweredAtOnce, Names
  <1>5. TypeOK'
    BY <1>1, <1>4 DEF TypeOK
  <1>6. Streamed'
    <2> SUFFICES ASSUME ~collides PROVE Opened' /\ Tabled' /\ Fed'
      BY DEF Streamed, collides
    <2>1. Opened'
      BY <1>1, <1>4 DEF Streamed, Opened, TypeOK
    <2>2. Tabled'
      BY <1>1, <1>4, LeftIsStale DEF Streamed, Tabled
    <2>3. Fed'
      <3> SUFFICES ASSUME NEW k \in DOMAIN queue', queue'[k].type = "STREAM_DATA"
                   PROVE  FedAt(queue, k, queue[k].id)'
        BY DEF Fed
      <3>1. k \in DOMAIN queue /\ queue'[k] = queue[k] /\ queue[k].id \in Ids
        BY <1>4, QueuedType
      <3>2. CASE queue[k].id = i
        BY <1>1, <3>1, <3>2, LeftIsStale DEF FedAt
      <3>3. CASE queue[k].id # i
        BY <1>1, <1>4, <3>1, <3>3 DEF Streamed, Fed, FedAt
      <3> QED  BY <3>2, <3>3
    <2> QED  BY <2>1, <2>2, <2>3
  <1>7. EnabledIsOpen'
    BY <1>1 DEF EnabledIsOpen, collides
  <1> QED  BY <1>4, <1>5, <1>6, <1>7

\* The answer of a stream goes before its first data; the entry it replaces,
\* if there is one, is stale.
LEMMA StartStreamInv ==
  ASSUME IInv, NEW i \in Ids, NEW r \in Plain, NEW interval \in BOOLEAN,
         StartStream(i, r, interval), UNCHANGED trouble
  PROVE  IInv'
  <1> USE DEF IInv, link, jobs
  <1> DEFINE e == [resource |-> r, interval |-> interval]
  <1>1. /\ connected /\ awaiting[i] = None /\ i \notin opened
        /\ awaiting' = [awaiting EXCEPT ![i] = "START_STREAM"]
        /\ streams' = [streams EXCEPT ![i] = e]
        /\ stream_id' = Enabled(r, i, interval)
        /\ UNCHANGED <<link, jobs, opened, subscribed, thrown, stale>>
    BY Names DEF StartStream, Asks, Reading, connected
  <1>2. PICK ms \in {<<>>, <<Message("STREAM_DATA", i)>>} :
          Send(<<Message("OK", i)>> \o ms)
    <2>1. EchoOf(r, i) \in {<<>>, <<Message("STREAM_DATA", i)>>}
      BY StateShape
    <2>2. CASE Send(<<Message("OK", i)>> \o EchoOf(r, i))
      BY <2>1, <2>2
    <2>3. CASE Send(<<Message("OK", i)>>)
      <3>1. <<Message("OK", i)>> \o <<>> = <<Message("OK", i)>>
        OBVIOUS
      <3> QED  BY <2>3, <3>1
    <2> QED  BY <2>2, <2>3 DEF StartStream
  <1>3. e \in Entry /\ e.resource = r /\ e.interval = interval
    BY DEF Entry, Resources
  <1>4. "START_STREAM" \in Request /\ "OK" \in Answers /\ r \in Resources
    BY DEF Request, Answers, Resources
  <1>5. /\ queue' \in Seq(Sent) /\ write_in_progress' \in BOOLEAN
        /\ awaiting' \in [Ids -> Request \cup {None}]
        /\ Past' /\ Quiet' /\ Answered' /\ Asked' /\ Accepted'
        /\ awaiting'[i] = "START_STREAM"
        /\ \A h \in Ids : h # i => awaiting'[h] = awaiting[h]
        /\ \A h \in Ids : h # i =>
             Queued(queue', h, conn) = Queued(queue, h, conn)
        /\ Queued(queue', i, conn) = {Len(queue) + 1}
        /\ \A k \in DOMAIN queue' :
             queue'[k].type = "STREAM_DATA" =>
               \/ k \in DOMAIN queue /\ queue'[k] = queue[k] /\ k < Len(queue) + 1
               \/ k > Len(queue) + 1 /\ queue'[k].id = i /\ ms # <<>>
    BY <1>1, <1>2, <1>4, AnsweredAtOnce
  <1> HIDE DEF e
  <1>6. /\ streams' \in [Ids -> Entry \cup {None}] /\ streams'[i] = e
        /\ \A h \in Ids : h # i => streams'[h] = streams[h]
    BY <1>1, <1>3 DEF TypeOK
  <1>7. /\ stream_id' \in [Resources -> Ids \cup {None}]
        /\ \A q \in Resources :
             \/ stream_id'[q] = stream_id[q]
             \/ q = r /\ stream_id'[q] = i /\ interval = FALSE
    BY <1>1, <1>4 DEF Enabled, TypeOK
  <1>8. TypeOK'
    BY <1>1, <1>5, <1>6, <1>7 DEF TypeOK
  <1>9. Streamed'
    <2> SUFFICES ASSUME ~collides PROVE Opened' /\ Tabled' /\ Fed'
      BY DEF Streamed, collides
    <2>1. Opened'
      BY <1>1, <1>5 DEF Streamed, Opened, TypeOK
    <2>2. Tabled'
      BY <1>1, <1>5, <1>6 DEF Streamed, Tabled
    <2>3. Fed'
      <3> SUFFICES ASSUME NEW k \in DOMAIN queue', queue'[k].type = "STREAM_DATA"
                   PROVE  FedAt(queue, k, queue[k].id)'
        BY DEF Fed
      <3>1. CASE /\ k \in DOMAIN queue /\ queue'[k] = queue[k]
        <4>1. queue[k].id \in Ids
          BY <3>1, QueuedType
        <4>2. CASE queue[k].id = i
          BY <1>1, <3>1, <4>2, LeftIsStale DEF FedAt
        <4>3. CASE queue[k].id # i
          BY <1>1, <1>5, <3>1, <4>1, <4>3 DEF Streamed, Fed, FedAt
        <4> QED  BY <4>2, <4>3
      <3>2. CASE k > Len(queue) + 1 /\ queue'[k].id = i
        BY <1>1, <1>5, <3>2 DEF FedAt
      <3> QED  BY <1>5, <3>1, <3>2
    <2> QED  BY <2>1, <2>2, <2>3
  <1>10. EnabledIsOpen'
    <2> SUFFICES ASSUME NEW q \in Resources, stream_id'[q] # None,
                        stream_id'[q] \notin stale, ~collides
                 PROVE  streams'[stream_id'[q]] = [resource |-> q, interval |-> FALSE]
      BY <1>1 DEF EnabledIsOpen, collides
    <2>1. CASE q = r /\ stream_id'[q] = i /\ interval = FALSE
      BY <1>6, <2>1 DEF e
    <2>2. CASE stream_id'[q] = stream_id[q]
      <3> DEFINE h == stream_id[q]
      <3>1. h \in Ids /\ streams[h] = [resource |-> q, interval |-> FALSE]
        BY <2>2 DEF EnabledIsOpen, TypeOK
      <3>2. [resource |-> q, interval |-> FALSE] \in Entry
        BY DEF Entry
      <3>3. streams[h] # None
        BY <3>1, <3>2, Names
      <3>4. h # i
        BY <1>1, <2>2, <3>3, LeftIsStale
      <3> QED  BY <1>6, <2>2, <3>1, <3>4
    <2> QED  BY <1>7, <2>1, <2>2
  <1> QED  BY <1>5, <1>8, <1>9, <1>10

\* The entry goes with the answer, and the id of its resource with the entry.
LEMMA StopStreamInv ==
  ASSUME IInv, NEW i \in Ids, StopStream(i), UNCHANGED trouble PROVE IInv'
  <1> USE DEF IInv, link, jobs
  <1>1. /\ connected /\ awaiting[i] = None /\ i \in opened /\ streams[i] # None
        /\ awaiting' = [awaiting EXCEPT ![i] = "STOP_STREAM"]
        /\ streams' = [streams EXCEPT ![i] = None]
        /\ stream_id' = Disabled(i)
        /\ Send(<<Message("OK", i)>>)
        /\ UNCHANGED <<link, jobs, opened, subscribed, thrown, stale>>
    BY Names DEF StopStream, Removed, Reading, connected
  <1>2. Send(<<Message("OK", i)>> \o <<>>)
    <2>1. <<Message("OK", i)>> \o <<>> = <<Message("OK", i)>>
      OBVIOUS
    <2> QED  BY <1>1, <2>1
  <1>3. "STOP_STREAM" \in Request /\ "OK" \in Answers
    BY DEF Request, Answers
  <1>4. /\ queue' \in Seq(Sent) /\ write_in_progress' \in BOOLEAN
        /\ awaiting' \in [Ids -> Request \cup {None}]
        /\ Past' /\ Quiet' /\ Answered' /\ Asked' /\ Accepted'
        /\ awaiting'[i] = "STOP_STREAM"
        /\ \A h \in Ids : h # i => awaiting'[h] = awaiting[h]
        /\ \A h \in Ids : h # i =>
             Queued(queue', h, conn) = Queued(queue, h, conn)
        /\ Queued(queue', i, conn) = {Len(queue) + 1}
        /\ \A k \in DOMAIN queue' :
             queue'[k].type = "STREAM_DATA" =>
               k \in DOMAIN queue /\ queue'[k] = queue[k] /\ k < Len(queue) + 1
    BY <1>1, <1>2, <1>3, AnsweredAtOnce, Names
  <1> DEFINE r == streams[i].resource
  <1>5. r \in Resources
    <2>1. streams[i] \in Entry
      BY <1>1 DEF TypeOK
    <2> QED  BY <2>1 DEF Entry
  <1> HIDE DEF r
  <1>6. /\ streams' \in [Ids -> Entry \cup {None}] /\ streams'[i] = None
        /\ \A h \in Ids : h # i => streams'[h] = streams[h]
    BY <1>1 DEF TypeOK
  <1>7. /\ stream_id' \in [Resources -> Ids \cup {None}]
        /\ \A q \in Resources : stream_id'[q] \in {stream_id[q], None}
        /\ stream_id[r] = i => stream_id'[r] = None
    <2>1. stream_id' = IF stream_id[r] = i THEN [stream_id EXCEPT ![r] = None]
                       ELSE stream_id
      BY <1>1 DEF Disabled, r
    <2> QED  BY <1>5, <2>1 DEF TypeOK
  <1>8. TypeOK'
    BY <1>1, <1>4, <1>6, <1>7 DEF TypeOK
  <1>9. Streamed'
    <2> SUFFICES ASSUME ~collides PROVE Opened' /\ Tabled' /\ Fed'
      BY DEF Streamed, collides
    <2>1. Opened'
      BY <1>1, <1>4 DEF Streamed, Opened, TypeOK
    <2>2. Tabled'
      BY <1>1, <1>4, <1>6 DEF Streamed, Tabled
    <2>3. Fed'
      <3> SUFFICES ASSUME NEW k \in DOMAIN queue', queue'[k].type = "STREAM_DATA"
                   PROVE  FedAt(queue, k, queue[k].id)'
        BY DEF Fed
      <3>1. /\ k \in DOMAIN queue /\ queue'[k] = queue[k] /\ k < Len(queue) + 1
            /\ queue[k].id \in Ids
        BY <1>4, QueuedType
      <3>2. CASE queue[k].id = i
        BY <1>1, <1>4, <3>1, <3>2 DEF FedAt
      <3>3. CASE queue[k].id # i
        BY <1>1, <1>4, <3>1, <3>3 DEF Streamed, Fed, FedAt
      <3> QED  BY <3>2, <3>3
    <2> QED  BY <2>1, <2>2, <2>3
  <1>10. EnabledIsOpen'
    <2> SUFFICES ASSUME NEW q \in Resources, stream_id'[q] # None,
                        stream_id'[q] \notin stale, ~collides
                 PROVE  streams'[stream_id'[q]] = [resource |-> q, interval |-> FALSE]
      BY <1>1 DEF EnabledIsOpen, collides
    <2> DEFINE h == stream_id[q]
    <2>1. /\ h \in Ids /\ h = stream_id'[q]
          /\ streams[h] = [resource |-> q, interval |-> FALSE]
      BY <1>7 DEF EnabledIsOpen, TypeOK
    <2>2. h # i
      <3> SUFFICES ASSUME h = i PROVE FALSE
        OBVIOUS
      <3>1. r = q
        BY <2>1 DEF r
      <3> QED  BY <1>7, <2>1, <3>1
    <2> QED  BY <1>6, <2>1, <2>2
  <1> QED  BY <1>4, <1>8, <1>9, <1>10

-----------------------------------------------------------------------------
(* The connection                                                          *)

\* A subscription gets an id that nothing is left of, unless ids collide.
LEMMA SubscribeInv ==
  ASSUME IInv, NEW i \in Ids, NEW e \in Events, Subscribe(e, i),
         UNCHANGED trouble
  PROVE  IInv'
  <1> USE DEF IInv, link, writer, jobs
  <1> DEFINE n == [resource |-> e, interval |-> FALSE]
  <1>1. /\ connected
        /\ collides \/ Free(i)
        /\ streams' = [streams EXCEPT ![i] = n]
        /\ stream_id' = [stream_id EXCEPT ![e] = i]
        /\ opened' = opened \cup {i}
        /\ subscribed' = subscribed \cup {e}
        /\ UNCHANGED <<link, writer, jobs, awaiting, thrown, stale>>
    BY Names DEF Subscribe, connected
  <1>2. n \in Entry /\ e \in Resources
    BY DEF Entry, Resources
  <1> HIDE DEF n
  <1>3. TypeOK'
    BY <1>1, <1>2 DEF TypeOK
  <1>4. Past' /\ Quiet' /\ Asked'
    BY <1>1 DEF Past, Quiet, Asked, connected
  <1>5. Answered' /\ Accepted'
    BY <1>1 DEF Answered, OneOf, Running, Unanswered, Accepted, connected
  <1>6. Streamed'
    <2> SUFFICES ASSUME ~collides PROVE Opened' /\ Tabled' /\ Fed'
      BY DEF Streamed, collides
    <2>1. awaiting[i] = None
      BY <1>1 DEF Free
    <2>2. Opened' /\ Tabled' /\ Fed'
      BY <1>1, <2>1 DEF Streamed, Opened, Tabled, Fed, FedAt, TypeOK
    <2> QED  BY <2>2
  <1>7. EnabledIsOpen'
    <2> SUFFICES ASSUME NEW q \in Resources, stream_id'[q] # None,
                        stream_id'[q] \notin stale, ~collides
                 PROVE  streams'[stream_id'[q]] = [resource |-> q, interval |-> FALSE]
      BY <1>1 DEF EnabledIsOpen, collides
    <2>1. CASE q = e
      BY <1>1, <1>2, <2>1 DEF TypeOK, n
    <2>2. CASE q # e
      <3> DEFINE h == stream_id[q]
      <3>1. /\ h \in Ids /\ h = stream_id'[q]
            /\ streams[h] = [resource |-> q, interval |-> FALSE]
        BY <1>1, <1>2, <2>2 DEF EnabledIsOpen, TypeOK
      <3>2. [resource |-> q, interval |-> FALSE] \in Entry
        BY DEF Entry
      <3>3. streams[h] # None /\ streams[i] = None
        BY <1>1, <3>1, <3>2, Names DEF Free
      <3>4. h # i
        BY <3>3
      <3> QED  BY <1>1, <3>1, <3>4 DEF TypeOK
    <2> QED  BY <2>1, <2>2
  <1> QED  BY <1>3, <1>4, <1>5, <1>6, <1>7

\* All that the connection leaves behind is stale.
LEMMA DisconnectInv == ASSUME IInv, Disconnect, UNCHANGED trouble PROVE IInv'
  <1> USE DEF IInv, table, jobs
  <1>1. /\ phase' = "down" /\ interval_loop' = FALSE
        /\ write_in_progress' = FALSE
        /\ queue' = IF write_in_progress THEN Tail(queue) ELSE queue
        /\ awaiting' = [i \in Ids |-> None]
        /\ opened' = {} /\ subscribed' = {} /\ thrown' = {}
        /\ stale' = stale \cup InUse
        /\ UNCHANGED <<conn, table, jobs>>
    BY DEF Disconnect
  <1>2. /\ queue' \in Seq(Sent)
        /\ \A k \in DOMAIN queue' :
             \E h \in DOMAIN queue : queue'[k] = queue[h]
    <2>1. queue \in Seq(Sent) /\ (write_in_progress => queue # <<>>)
      BY DEF TypeOK, Quiet
    <2>2. CASE write_in_progress
      BY <1>1, <2>1, <2>2, TailShape
    <2>3. CASE ~write_in_progress
      BY <1>1, <2>1, <2>3
    <2> QED  BY <2>2, <2>3
  <1>3. InUse \subseteq Ids
    BY DEF InUse
  <1>4. TypeOK'
    BY <1>1, <1>2, <1>3 DEF TypeOK
  <1>5. Past' /\ Quiet' /\ Asked' /\ Answered'
    BY <1>1, <1>2, Names DEF Past, Quiet, Asked, Answered, connected
  <1>6. Accepted'
    BY <1>1, Names DEF Accepted, Request
  <1>7. Streamed'
    <2>1. Opened'
      BY <1>1 DEF Opened
    <2>2. Tabled'
      BY <1>1 DEF Tabled, InUse
    <2>3. Fed'
      <3> SUFFICES ASSUME NEW k \in DOMAIN queue'
                   PROVE  queue'[k].id \in stale'
        BY DEF Fed, FedAt
      <3>1. PICK h \in DOMAIN queue : queue'[k] = queue[h]
        BY <1>2
      <3>2. queue[h].id \in InUse
        BY QueuedType DEF InUse
      <3> QED  BY <1>1, <3>1, <3>2
    <2> QED  BY <2>1, <2>2, <2>3 DEF Streamed
  <1>8. EnabledIsOpen'
    <2> SUFFICES ASSUME NEW q \in Resources, stream_id[q] # None
                 PROVE  stream_id[q] \in stale'
      BY <1>1 DEF EnabledIsOpen
    <2>1. stream_id[q] \in InUse
      BY DEF InUse, TypeOK
    <2> QED  BY <1>1, <2>1
  <1> QED  BY <1>4, <1>5, <1>6, <1>7, <1>8

\* Nothing of the new connection is there yet.
LEMMA ReconnectInv == ASSUME IInv, Reconnect, UNCHANGED trouble PROVE IInv'
  <1> USE DEF IInv, table, writer, jobs, server
  <1>1. /\ ~connected /\ conn < MaxConnections /\ conn' = conn + 1
        /\ phase' = "starting"
        /\ UNCHANGED <<interval_loop, table, writer, jobs, server>>
    BY DEF Reconnect
  <1>2. /\ \A i \in Ids : awaiting[i] = None
        /\ opened = {} /\ thrown = {} /\ ~write_in_progress /\ ~interval_loop
    BY <1>1, Names DEF Quiet, connected
  <1>3. conn' \in 1..MaxConnections
    BY <1>1, DispatchAssumption DEF TypeOK
  <1>4. TypeOK'
    BY <1>1, <1>3 DEF TypeOK
  <1>5. /\ \A k \in DOMAIN queue : queue[k].of # conn'
        /\ \A j \in pool : j.of # conn'
    <2>1. ASSUME NEW k \in DOMAIN queue PROVE queue[k].of # conn'
      <3>1. queue[k].of \in 1..MaxConnections /\ queue[k].of <= conn
        BY QueuedType DEF Past
      <3> QED  BY <1>1, <3>1 DEF TypeOK
    <2>2. ASSUME NEW j \in pool PROVE j.of # conn'
      <3>1. j.of \in 1..MaxConnections /\ j.of <= conn
        BY DEF Past, TypeOK, Job
      <3> QED  BY <1>1, <3>1 DEF TypeOK
    <2> QED  BY <2>1, <2>2
  <1>6. Past'
    <2>1. ASSUME NEW k \in DOMAIN queue PROVE queue[k].of <= conn'
      <3>1. queue[k].of \in 1..MaxConnections /\ queue[k].of <= conn
        BY QueuedType DEF Past
      <3> QED  BY <1>1, <3>1 DEF TypeOK
    <2>2. ASSUME NEW j \in pool PROVE j.of <= conn'
      <3>1. j.of \in 1..MaxConnections /\ j.of <= conn
        BY DEF Past, TypeOK, Job
      <3> QED  BY <1>1, <3>1 DEF TypeOK
    <2> QED  BY <1>1, <2>1, <2>2 DEF Past
  <1>7. Quiet' /\ Asked'
    BY <1>1, <1>2, <1>5, Names DEF Quiet, Asked, connected
  <1>8. Answered'
    <2>1. \A i \in Ids : /\ Queued(queue, i, conn') = {} /\ Running(i, conn') = {}
                         /\ ~Unanswered(i)
      BY <1>2, <1>5 DEF Queued, Running, Unanswered
    <2> QED  BY <1>1, <2>1 DEF Answered, OneOf, Running, Unanswered
  <1>9. Accepted'
    BY <1>1, <1>2, Names DEF Accepted, Request
  <1>10. Streamed'
    <2> SUFFICES ASSUME ~collides PROVE Opened' /\ Tabled' /\ Fed'
      BY DEF Streamed, collides
    <2>1. Opened' /\ Tabled'
      BY <1>1, <1>2 DEF Streamed, Opened, Tabled
    <2>2. Fed'
      <3> SUFFICES ASSUME NEW k \in DOMAIN queue, queue[k].type = "STREAM_DATA"
                   PROVE  queue[k].id \in stale
        BY <1>1 DEF Fed, FedAt
      <3> QED  BY <1>2, QueuedType, Names DEF Streamed, Fed, FedAt, Request
    <2> QED  BY <2>1, <2>2
  <1>11. EnabledIsOpen'
    BY <1>1 DEF EnabledIsOpen, collides
  <1> QED  BY <1>4, <1>6, <1>7, <1>8, <1>9, <1>10, <1>11

-----------------------------------------------------------------------------
(* The server takes the head of the queue                                  *)

\* Every place is one nearer to the head, and an answer at the head is gone.
LEMMA TailQueued ==
  ASSUME NEW q \in Seq(Sent), q # <<>>
  PROVE  \A i \in Ids, c \in 1..MaxConnections :
           /\ \A k \in Queued(Tail(q), i, c) :
                k \in Nat /\ k + 1 \in Queued(q, i, c)
           /\ \A k \in Queued(q, i, c) :
                k \in Nat /\ k >= 1 /\ (k # 1 => k - 1 \in Queued(Tail(q), i, c))
           /\ 1 \in Queued(q, i, c) <=>
                Head(q).id = i /\ Head(q).of = c /\ Head(q).type \in Answers
  <1>1. /\ 1 \in DOMAIN q /\ Head(q) = q[1]
        /\ \A k \in DOMAIN Tail(q) : k + 1 \in DOMAIN q /\ Tail(q)[k] = q[k + 1]
        /\ \A k \in DOMAIN q : k # 1 => k - 1 \in DOMAIN Tail(q)
        /\ \A k \in DOMAIN q : k \in Nat /\ k >= 1
        /\ \A k \in DOMAIN Tail(q) : k \in Nat /\ k >= 1
    BY TailShape
  <1> DEFINE t == Tail(q)
             m == Head(q)
  <1> HIDE DEF t, m
  <1>2. /\ 1 \in DOMAIN q /\ m = q[1]
        /\ \A k \in DOMAIN t : k + 1 \in DOMAIN q /\ t[k] = q[k + 1]
        /\ \A k \in DOMAIN q : k # 1 => k - 1 \in DOMAIN t
        /\ \A k \in DOMAIN q : k \in Nat /\ k >= 1
        /\ \A k \in DOMAIN t : k \in Nat /\ k >= 1
    BY <1>1 DEF t, m
  <1>3. ASSUME NEW i \in Ids, NEW c \in 1..MaxConnections,
               NEW k \in Queued(t, i, c)
        PROVE  k \in Nat /\ k + 1 \in Queued(q, i, c)
    BY <1>2 DEF Queued
  <1>4. ASSUME NEW i \in Ids, NEW c \in 1..MaxConnections,
               NEW k \in Queued(q, i, c)
        PROVE  k \in Nat /\ k >= 1 /\ (k # 1 => k - 1 \in Queued(t, i, c))
    <2>1. k \in DOMAIN q /\ k \in Nat /\ k >= 1
      BY <1>2 DEF Queued
    <2>2. ASSUME k # 1 PROVE k - 1 \in Queued(t, i, c)
      <3>1. k - 1 \in DOMAIN t /\ k - 1 + 1 = k
        BY <1>2, <2>1, <2>2
      <3>2. t[k - 1] = q[k]
        BY <1>2, <3>1
      <3> QED  BY <3>1, <3>2 DEF Queued
    <2> QED  BY <2>1, <2>2
  <1>5. ASSUME NEW i \in Ids, NEW c \in 1..MaxConnections
        PROVE  1 \in Queued(q, i, c) <=>
                 m.id = i /\ m.of = c /\ m.type \in Answers
    BY <1>2 DEF Queued
  <1> QED  BY <1>3, <1>4, <1>5 DEF t, m

\* What the step does to the answers under way: to those of the id that is
\* answered, and to the others.
LEMMA WrittenShape ==
  ASSUME IInv, Written
  PROVE  /\ connected /\ queue # <<>> /\ queue' = Tail(queue)
         /\ write_in_progress' = (Tail(queue) # <<>>)
         /\ UNCHANGED <<link, table, jobs, subscribed, thrown, stale>>
         /\ awaiting' \in [Ids -> Request \cup {None}] /\ opened' \subseteq Ids
         /\ \A i \in Ids : 1 \in Queued(queue, i, conn) =>
              /\ awaiting'[i] = None /\ Queued(queue', i, conn) = {}
              /\ Running(i, conn) = {} /\ Unanswered(i)
              /\ awaiting[i] = "START_STREAM" => i \in opened'
         /\ \A i \in Ids : 1 \notin Queued(queue, i, conn) =>
              /\ awaiting'[i] = awaiting[i] /\ (i \in opened' <=> i \in opened)
              /\ OneOf(Queued(queue', i, conn), Running(i, conn), Unanswered(i))
  <1> USE DEF IInv
  <1> DEFINE m == Head(queue)
             answers == m.of = conn /\ m.type \in Answers
  <1>1. /\ connected /\ queue # <<>> /\ queue \in Seq(Sent)
        /\ conn \in 1..MaxConnections
    BY DEF Written, Quiet, TypeOK
  <1>2. m \in Sent /\ m.id \in Ids
    <2>1. m \in Sent
      BY <1>1, TailShape
    <2> QED  BY <2>1 DEF Sent
  <1>3. /\ queue' = Tail(queue)
        /\ write_in_progress' = (Tail(queue) # <<>>)
        /\ UNCHANGED <<link, table, jobs, subscribed, thrown, stale>>
        /\ awaiting' = IF answers THEN [awaiting EXCEPT ![m.id] = None] ELSE awaiting
    BY DEF Written
  <1>4. opened' = CASE (answers /\ awaiting[m.id] = "STOP_STREAM")
                         -> opened \ {m.id}
                    [] (answers /\ awaiting[m.id] = "START_STREAM" /\ m.type = "OK")
                         -> opened \cup {m.id}
                    [] OTHER -> opened
    <2>1. CASE answers
      BY <2>1 DEF Written
    <2>2. CASE ~answers
      <3>1. None # "STOP_STREAM" /\ None # "START_STREAM"
        BY Names DEF Request
      <3> QED  BY <2>2, <3>1 DEF Written
    <2> QED  BY <2>1, <2>2
  <1>5. \A i \in Ids :
          /\ \A k \in Queued(queue', i, conn) :
               k \in Nat /\ k + 1 \in Queued(queue, i, conn)
          /\ \A k \in Queued(queue, i, conn) :
               /\ k \in Nat /\ k >= 1
               /\ k # 1 => k - 1 \in Queued(queue', i, conn)
          /\ 1 \in Queued(queue, i, conn) <=> m.id = i /\ answers
    BY <1>1, <1>3, TailQueued
  <1> HIDE DEF m, answers
  <1>6. ASSUME NEW i \in Ids, 1 \in Queued(queue, i, conn)
        PROVE  /\ awaiting'[i] = None /\ Queued(queue', i, conn) = {}
               /\ Running(i, conn) = {} /\ Unanswered(i)
               /\ awaiting[i] = "START_STREAM" => i \in opened'
    <2>1. m.id = i /\ answers
      BY <1>5, <1>6
    <2>2. OneOf(Queued(queue, i, conn), Running(i, conn), Unanswered(i))
      BY <1>1 DEF Answered
    <2>3. Running(i, conn) = {} /\ Unanswered(i)
      BY <1>6, <2>2 DEF OneOf
    <2>4. Queued(queue', i, conn) = {}
      <3> SUFFICES ASSUME NEW k \in Queued(queue', i, conn) PROVE FALSE
        OBVIOUS
      <3>1. k \in Nat /\ k + 1 \in Queued(queue, i, conn) /\ k + 1 = 1
        BY <1>5, <1>6, <2>2 DEF OneOf
      <3>2. k = 0 /\ k \in DOMAIN Tail(queue)
        BY <1>3, <3>1 DEF Queued
      <3> QED  BY <1>1, <3>2, TailShape
    <2>5. awaiting'[i] = None
      BY <1>3, <2>1 DEF TypeOK
    <2>6. ASSUME awaiting[i] = "START_STREAM" PROVE i \in opened'
      <3>1. queue[1].type = "OK" /\ m = queue[1]
        BY <1>1, <1>6, <2>6, TailShape DEF Accepted, m
      <3> QED  BY <1>4, <2>1, <2>6, <3>1, Names
    <2> QED  BY <2>3, <2>4, <2>5, <2>6
  <1>7. ASSUME NEW i \in Ids, 1 \notin Queued(queue, i, conn)
        PROVE  /\ awaiting'[i] = awaiting[i] /\ (i \in opened' <=> i \in opened)
               /\ OneOf(Queued(queue', i, conn), Running(i, conn), Unanswered(i))
    <2>1. ~answers \/ m.id # i
      BY <1>5, <1>7
    <2>2. awaiting'[i] = awaiting[i]
      BY <1>2, <1>3, <2>1 DEF TypeOK
    <2>3. i \in opened' <=> i \in opened
      BY <1>4, <2>1
    <2>4. OneOf(Queued(queue, i, conn), Running(i, conn), Unanswered(i))
      BY <1>1 DEF Answered
    <2>5. Queued(queue', i, conn) = {} <=> Queued(queue, i, conn) = {}
      BY <1>5, <1>7
    <2>6. \A x \in Queued(queue', i, conn), y \in Queued(queue', i, conn) : x = y
      <3> SUFFICES ASSUME NEW x \in Queued(queue', i, conn),
                          NEW y \in Queued(queue', i, conn)
                   PROVE  x = y
        OBVIOUS
      <3>1. x \in Nat /\ y \in Nat /\ x + 1 = y + 1
        BY <1>5, <2>4 DEF OneOf
      <3> QED  BY <3>1
    <2> QED  BY <2>2, <2>3, <2>4, <2>5, <2>6 DEF OneOf
  <1>8. awaiting' \in [Ids -> Request \cup {None}]
    BY <1>2, <1>3 DEF TypeOK
  <1>9. opened' \subseteq Ids
    BY <1>2, <1>4 DEF TypeOK
  <1> QED  BY <1>1, <1>3, <1>6, <1>7, <1>8, <1>9

LEMMA WrittenInv == ASSUME IInv, Written, UNCHANGED trouble PROVE IInv'
  <1> USE DEF IInv
  <1>1. /\ connected /\ queue # <<>> /\ queue' = Tail(queue)
        /\ write_in_progress' = (Tail(queue) # <<>>)
        /\ UNCHANGED <<link, table, jobs, subscribed, thrown, stale>>
        /\ awaiting' \in [Ids -> Request \cup {None}] /\ opened' \subseteq Ids
    BY WrittenShape
  <1>2. \A i \in Ids : 1 \in Queued(queue, i, conn) =>
          /\ awaiting'[i] = None /\ Queued(queue', i, conn) = {}
          /\ Running(i, conn) = {} /\ Unanswered(i)
          /\ awaiting[i] = "START_STREAM" => i \in opened'
    BY WrittenShape
  <1>3. \A i \in Ids : 1 \notin Queued(queue, i, conn) =>
          /\ awaiting'[i] = awaiting[i] /\ (i \in opened' <=> i \in opened)
          /\ OneOf(Queued(queue', i, conn), Running(i, conn), Unanswered(i))
    BY WrittenShape
  <1>4. /\ queue' \in Seq(Sent) /\ conn \in 1..MaxConnections
        /\ \A k \in DOMAIN queue' : /\ k + 1 \in DOMAIN queue
                                    /\ queue'[k] = queue[k + 1]
                                    /\ k \in Nat /\ k >= 1
    BY <1>1, TailShape DEF TypeOK
  <1>5. \A i \in Ids :
          /\ \A k \in Queued(queue', i, conn) :
               k \in Nat /\ k + 1 \in Queued(queue, i, conn)
          /\ \A k \in Queued(queue, i, conn) :
               /\ k \in Nat /\ k >= 1
               /\ k # 1 => k - 1 \in Queued(queue', i, conn)
    BY <1>1, <1>4, TailQueued DEF TypeOK
  <1> USE DEF link, table, jobs
  <1>6. TypeOK'
    BY <1>1, <1>4 DEF TypeOK
  <1>7. Past' /\ Quiet'
    BY <1>1, <1>4 DEF Past, Quiet, connected
  <1>8. Answered'
    <2> SUFFICES ASSUME NEW i \in Ids
                 PROVE  OneOf(Queued(queue', i, conn), Running(i, conn),
                              Unanswered(i)')
      BY <1>1 DEF Answered, Running
    <2>1. CASE 1 \in Queued(queue, i, conn)
      <3>1. ~Unanswered(i)'
        BY <1>2, <2>1 DEF Unanswered
      <3> QED  BY <1>2, <2>1, <3>1 DEF OneOf
    <2>2. CASE 1 \notin Queued(queue, i, conn)
      <3>1. Unanswered(i)' <=> Unanswered(i)
        BY <1>1, <1>3, <2>2 DEF Unanswered
      <3> QED  BY <1>3, <2>2, <3>1 DEF OneOf
    <2> QED  BY <2>1, <2>2
  <1>9. Asked'
    <2>1. ASSUME NEW j \in pool, j.of = conn PROVE awaiting'[j.id] = j.request
      <3>1. j.id \in Ids /\ j \in Running(j.id, conn)
        BY <2>1 DEF TypeOK, Job, Running
      <3>2. awaiting'[j.id] = awaiting[j.id]
        BY <1>2, <1>3, <3>1
      <3> QED  BY <1>1, <2>1, <3>2 DEF Asked
    <2>2. ASSUME NEW i \in thrown PROVE awaiting'[i] \in {"RUN", "DESCRIBE"}
      <3>1. i \in Ids /\ ~Unanswered(i)
        BY DEF TypeOK, Unanswered
      <3>2. awaiting'[i] = awaiting[i]
        BY <1>2, <1>3, <3>1
      <3> QED  BY <3>2 DEF Asked
    <2> QED  BY <1>1, <2>1, <2>2 DEF Asked
  <1>10. Accepted'
    <2> SUFFICES ASSUME NEW i \in Ids, awaiting'[i] = "START_STREAM",
                        NEW k \in Queued(queue', i, conn)
                 PROVE  queue'[k].type = "OK"
      BY <1>1 DEF Accepted
    <2>1. awaiting[i] = "START_STREAM"
      BY <1>2, <1>3
    <2>2. k + 1 \in Queued(queue, i, conn) /\ queue'[k] = queue[k + 1]
      BY <1>4, <1>5 DEF Queued
    <2> QED  BY <2>1, <2>2 DEF Accepted
  <1>11. Streamed'
    <2> SUFFICES ASSUME ~collides PROVE Opened' /\ Tabled' /\ Fed'
      BY DEF Streamed, collides
    <2>1. Opened'
      <3> SUFFICES ASSUME NEW i \in opened'
                   PROVE  awaiting'[i] \in {None, "STOP_STREAM"}
        BY DEF Opened
      <3>1. i \in Ids
        BY <1>1
      <3> QED  BY <1>2, <1>3, <3>1 DEF Streamed, Opened
    <2>2. Tabled'
      <3> SUFFICES ASSUME NEW i \in Ids, streams[i] # None, i \notin stale
                   PROVE  \/ i \in opened' /\ awaiting'[i] = None
                          \/ awaiting'[i] = "START_STREAM"
        BY <1>1 DEF Tabled
      <3>1. \/ i \in opened /\ awaiting[i] = None
            \/ awaiting[i] = "START_STREAM"
        BY DEF Streamed, Tabled
      <3>2. CASE 1 \in Queued(queue, i, conn)
        BY <1>2, <3>1, <3>2 DEF Unanswered
      <3>3. CASE 1 \notin Queued(queue, i, conn)
        BY <1>3, <3>1, <3>3
      <3> QED  BY <3>2, <3>3
    <2>3. Fed'
      <3> SUFFICES ASSUME NEW k \in DOMAIN queue', queue'[k].type = "STREAM_DATA"
                   PROVE  FedAt(queue, k, queue[k].id)'
        BY DEF Fed
      <3> DEFINE i == queue'[k].id
      <3>1. /\ i \in Ids /\ k \in Nat /\ k >= 1
            /\ FedAt(queue, k + 1, i)
        <4>1. k + 1 \in DOMAIN queue /\ queue'[k] = queue[k + 1] /\ k \in Nat /\ k >= 1
          BY <1>4
        <4>2. queue[k + 1].id \in Ids
          BY <4>1, QueuedType
        <4> QED  BY <4>1, <4>2 DEF Streamed, Fed
      <3> HIDE DEF i
      <3>2. /\ i \in stale => i \in stale'
            /\ conn' = conn
        BY <1>1
      <3>3. \/ i \in stale
            \/ i \in opened' /\ awaiting'[i] = None
            \/ /\ i \in opened' /\ awaiting'[i] = "STOP_STREAM"
               /\ \A a \in Queued(queue', i, conn) : k < a
            \/ /\ awaiting'[i] = "START_STREAM"
               /\ \E a \in Queued(queue', i, conn) : a < k
        <4>1. CASE 1 \in Queued(queue, i, conn)
          <5>1. awaiting[i] # None
            BY <1>2, <3>1, <4>1 DEF Unanswered
          <5>2. awaiting[i] = "STOP_STREAM" /\ (\A a \in Queued(queue, i, conn) : k + 1 < a)
                  => FALSE
            BY <3>1, <4>1
          <5> QED  BY <1>2, <3>1, <4>1, <5>1, <5>2 DEF FedAt
        <4>2. CASE 1 \notin Queued(queue, i, conn)
          <5>1. awaiting'[i] = awaiting[i] /\ (i \in opened' <=> i \in opened)
            BY <1>3, <3>1, <4>2
          <5>2. ASSUME \A a \in Queued(queue, i, conn) : k + 1 < a
                PROVE  \A a \in Queued(queue', i, conn) : k < a
            BY <1>5, <3>1, <5>2
          <5>3. ASSUME \E a \in Queued(queue, i, conn) : a < k + 1
                PROVE  \E a \in Queued(queue', i, conn) : a < k
            <6>1. PICK a \in Queued(queue, i, conn) : a < k + 1
              BY <5>3
            <6>2. a - 1 \in Queued(queue', i, conn) /\ a \in Nat
              BY <1>5, <3>1, <4>2, <6>1
            <6>3. a - 1 < k
              BY <3>1, <6>1, <6>2
            <6> QED  BY <6>2, <6>3
          <5> QED  BY <3>1, <5>1, <5>2, <5>3 DEF FedAt
        <4> QED  BY <4>1, <4>2
      <3> QED  BY <3>2, <3>3 DEF FedAt, i
    <2> QED  BY <2>1, <2>2, <2>3
  <1>12. EnabledIsOpen'
    BY <1>1 DEF EnabledIsOpen, collides
  <1> QED  BY <1>6, <1>7, <1>8, <1>9, <1>10, <1>11, <1>12

-----------------------------------------------------------------------------
(* The invariant                                                           *)

LEMMA StepInv == IInv /\ [Next]_vars => IInv'
  <1> SUFFICES ASSUME IInv, [Next]_vars PROVE IInv'  OBVIOUS
  <1>1. CASE Written /\ UNCHANGED trouble
    BY <1>1, WrittenInv
  <1>2. ASSUME NEW j \in pool, HandlerReturns(j) \/ HandlerThrows(j),
               UNCHANGED trouble
        PROVE  IInv'
    BY <1>2, HandlerReturnsInv, HandlerThrowsInv
  <1>3. CASE (Ready \/ \E c \in after : Continue(c)) /\ UNCHANGED trouble
    BY <1>3, SilentInv
  <1>4. ASSUME NEW i \in Ids, IntervalThrows(i), UNCHANGED trouble PROVE IInv'
    BY <1>4, SilentInv
  <1>5. ASSUME NEW i \in Ids, StreamData(i) \/ IntervalOver(i),
               UNCHANGED trouble
        PROVE  IInv'
    BY <1>5, DataInv
  <1>6. ASSUME NEW i \in Ids, AskUnresolved(i), UNCHANGED trouble PROVE IInv'
    BY <1>6, UnresolvedInv
  <1>7. ASSUME NEW i \in Ids, StopStream(i), UNCHANGED trouble PROVE IInv'
    BY <1>7, StopStreamInv
  <1>8. ASSUME NEW i \in Ids, NEW request \in {"RUN", "DESCRIBE"},
               AskResource(i, request), UNCHANGED trouble
        PROVE  IInv'
    BY <1>8, AskResourceInv
  <1>9. ASSUME NEW i \in Ids, NEW r \in Plain, NEW interval \in BOOLEAN,
               StartStream(i, r, interval), UNCHANGED trouble
        PROVE  IInv'
    BY <1>9, StartStreamInv
  <1>10. ASSUME NEW i \in Ids, NEW e \in Events, Subscribe(e, i),
                UNCHANGED trouble
         PROVE  IInv'
    BY <1>10, SubscribeInv
  <1>11. ASSUME NEW r \in Resources, AppStreams(r), UNCHANGED trouble
         PROVE  IInv'
    BY <1>11, AppInv
  <1>12. CASE (Disconnect \/ Reconnect) /\ UNCHANGED trouble
    BY <1>12, DisconnectInv, ReconnectInv
  <1>13. CASE UNCHANGED vars
    <2> USE <1>13 DEF vars, link, table, writer, jobs, server, IInv
    <2>1. TypeOK' /\ Past' /\ Quiet' /\ Asked'
      BY DEF TypeOK, Past, Quiet, Asked, connected
    <2>2. Answered' /\ Accepted'
      BY DEF Answered, OneOf, Running, Unanswered, Accepted, connected
    <2>3. Streamed' /\ EnabledIsOpen'
      BY DEF Streamed, Opened, Tabled, Fed, FedAt, EnabledIsOpen, collides
    <2> QED  BY <2>1, <2>2, <2>3
  <1> QED
    BY <1>1, <1>2, <1>3, <1>4, <1>5, <1>6, <1>7, <1>8, <1>9, <1>10, <1>11,
       <1>12, <1>13
    DEF Next, Serve

-----------------------------------------------------------------------------
(* The theorems                                                            *)

\* The inductive invariant of the dispatch, for any resources, subscriptions,
\* ids and connections.
THEOREM Invariance == Spec => []IInv
  BY InitInv, StepInv, PTL DEF Spec

\* The tables, the queue and what the server knows stay in their types.
THEOREM TypeCorrect == Spec => []TypeOK
  <1>1. IInv => TypeOK
    BY DEF IInv
  <1> QED  BY <1>1, Invariance, PTL

\* The elements of two sets of which only one may have one.
LEMMA OneIsDue ==
  ASSUME NEW A, NEW B, NEW due, OneOf(A, B, due)
  PROVE  /\ due => Cardinality(A) + Cardinality(B) = 1
         /\ ~due => Cardinality(A) + Cardinality(B) = 0
  <1>1. Cardinality({}) = 0
    BY FS_EmptySet
  <1>2. ASSUME ~due PROVE Cardinality(A) + Cardinality(B) = 0
    <2>1. A = {} /\ B = {}
      BY <1>2 DEF OneOf
    <2> QED  BY <1>1, <2>1
  <1>3. ASSUME due PROVE Cardinality(A) + Cardinality(B) = 1
    <2>1. CASE A # {}
      <3>1. PICK x \in A : TRUE
        BY <2>1
      <3>2. A = {x} /\ B = {}
        BY <2>1, <3>1 DEF OneOf
      <3>3. Cardinality({x}) = 1
        BY FS_Singleton
      <3> QED  BY <1>1, <3>2, <3>3
    <2>2. CASE B # {}
      <3>1. PICK x \in B : TRUE
        BY <2>2
      <3>2. B = {x} /\ A = {}
        BY <2>2, <3>1 DEF OneOf
      <3>3. Cardinality({x}) = 1
        BY FS_Singleton
      <3> QED  BY <1>1, <3>2, <3>3
    <2> QED  BY <1>3, <2>1, <2>2 DEF OneOf
  <1> QED  BY <1>2, <1>3

\* Every request that handle_resource_request() takes has one answer under way
\* until the server has it: in the pool or in write_queue_, never in both.
THEOREM OneAnswer == Spec => []AnsweredOnce
  <1>1. IInv => AnsweredOnce
    <2> SUFFICES ASSUME IInv, connected, NEW i \in Ids
                 PROVE  DueAnswers(i) = IF awaiting[i] # None /\ i \notin thrown
                                        THEN 1 ELSE 0
      BY DEF AnsweredOnce
    <2>1. DueAnswers(i) = Cardinality(Queued(queue, i, conn))
                          + Cardinality(Running(i, conn))
      BY DEF DueAnswers, Queued, Running
    <2>2. OneOf(Queued(queue, i, conn), Running(i, conn), Unanswered(i))
      BY DEF IInv, Answered
    <2>3. Unanswered(i) => DueAnswers(i) = 1
      BY <2>1, <2>2, OneIsDue
    <2>4. ~Unanswered(i) => DueAnswers(i) = 0
      BY <2>1, <2>2, OneIsDue
    <2> QED  BY <2>3, <2>4 DEF Unanswered
  <1> QED  BY <1>1, Invariance, PTL

\* Stream data leaves write_queue_ only while its stream is open, whichever of
\* the START, the echo, the interval loop and the application sent it.
THEOREM DataIsFramed == Spec => []NoStrayData
  <1>1. IInv => NoStrayData
    <2> SUFFICES ASSUME IInv, connected, queue # <<>>,
                        Head(queue).type = "STREAM_DATA", ~collides
                 PROVE  Head(queue).id \in opened \cup stale
      BY DEF NoStrayData
    <2>1. 1 \in DOMAIN queue /\ Head(queue) = queue[1]
      BY TailShape DEF IInv, TypeOK
    <2>2. FedAt(queue, 1, queue[1].id)
      BY <2>1 DEF IInv, Streamed, Fed
    <2>3. \A a \in Queued(queue, queue[1].id, conn) : ~(a < 1)
      BY DEF IInv, TypeOK, Queued
    <2> QED  BY <2>1, <2>2, <2>3 DEF FedAt
  <1> QED  BY <1>1, Invariance, PTL

\* stream_enabled() tells the truth through all starts and stops of streams.
THEOREM EnabledAreOpen == Spec => []EnabledIsOpen
  <1>1. IInv => EnabledIsOpen
    BY DEF IInv
  <1> QED  BY <1>1, Invariance, PTL
=================================================================================
