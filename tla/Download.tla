------------------------------- MODULE Download -------------------------------
(***************************************************************************)
(* One file_download_session: the device reads a file chunk by chunk, puts *)
(* the chunks on the stream and lets the server's ACKs open the window.    *)
(*                                                                         *)
(* All the code of a session runs on the single thread of its io_context,  *)
(* so a step of the model is one whole handler.  What makes the session    *)
(* hard is the order of the handlers: posted calls of send_next_chunk,     *)
(* expired timers whose handler is already queued and can no longer be     *)
(* cancelled, ACKs, and the server's STOP_STREAM.  The queue of handlers   *)
(* that are ready to run is modelled as it is, first in first out.         *)
(*                                                                         *)
(* Bytes are abstracted to their number, time to the order of timer        *)
(* expirations, logging and bandwidth figures are left out.                *)
(***************************************************************************)
EXTENDS Integers, Sequences

CONSTANTS
  ChunkSize,    \* bytes asked from the file by one read
  WindowSize,   \* unacknowledged bytes the server allows
  FileSizes,    \* sizes the file on disk may have
  AckBytes,     \* values of "bytes" in an ACK; 0 when the field is missing
  RateLimited,  \* TRUE iff max_bandwidth_mbps_ > 0
  Rewritable    \* TRUE iff another handler may rewrite the file meanwhile

ASSUME DownloadAssumption ==
  /\ ChunkSize \in Nat \ {0}
  /\ WindowSize \in Nat
  /\ FileSizes \subseteq Nat
  /\ AckBytes \subseteq Nat
  /\ RateLimited \in BOOLEAN
  /\ Rewritable \in BOOLEAN

VARIABLES
  state,              \* state_
  stopping,           \* stopping_; once set the session object is destroyed
  file_size,          \* file_size_, read once by start()
  file_len,           \* the length of the file on disk
  eof,                \* file_stream_.eof()
  bad,                \* file_stream_.bad(): a read failed, so will all others
  bytes_transferred,  \* bytes_transferred_, also the read offset
  bytes_in_flight,    \* bytes_in_flight_
  waiting_for_ack,    \* waiting_for_ack_
  ack_timer,          \* ack_timer_
  completion_timer,   \* completion_timer_
  rate_limit_timer,   \* rate_limit_timer_
  ready,              \* handlers of this session in the io_context queue
  dangling            \* code of the session ran after its destruction

vars == <<state, stopping, file_size, file_len, eof, bad, bytes_transferred,
          bytes_in_flight, waiting_for_ack, ack_timer, completion_timer,
          rate_limit_timer, ready, dangling>>

SessionState ==
  {"IDLE", "IN_PROGRESS", "COMPLETED", "CANCELLED", "FAILED", "TIMED_OUT"}

\* A timer pointer is null, or its wait is pending, or the wait has expired.
TimerState == {"null", "armed", "expired"}

\* Handlers that run with no error code; an aborted wait does nothing.
Handler == {"send", "ack_timeout", "completion_timeout"}

timers == <<ack_timer, completion_timer, rate_limit_timer>>
file   == <<file_size, file_len, eof, bad>>

Init ==
  /\ state = "IDLE"
  /\ stopping = FALSE
  /\ file_size = 0
  /\ file_len \in FileSizes
  /\ eof = FALSE
  /\ bad = FALSE
  /\ bytes_transferred = 0
  /\ bytes_in_flight = 0
  /\ waiting_for_ack = FALSE
  /\ ack_timer = "null"
  /\ completion_timer = "null"
  /\ rate_limit_timer = "null"
  /\ ready = <<>>
  /\ dangling = FALSE

-----------------------------------------------------------------------------
(* start() and the parts the handlers share                                *)

\* boost::asio::post of send_next_chunk: behind everything already ready.
ResumeAhead(q) == <<"send">> \o q
Resume(q) == Append(q, "send")

\* start(): the file is opened, its size taken, the first chunk posted.
Start ==
  /\ state = "IDLE"
  /\ state' = "IN_PROGRESS"
  /\ file_size' = file_len
  /\ ready' = Resume(ready)
  /\ UNCHANGED <<stopping, file_len, eof, bad, bytes_transferred,
                 bytes_in_flight, waiting_for_ack, timers, dangling>>

\* start(): missing, not a regular file, or not readable.
StartFails ==
  /\ state = "IDLE"
  /\ state' = "FAILED"
  /\ UNCHANGED <<stopping, file, bytes_transferred, bytes_in_flight,
                 waiting_for_ack, timers, ready, dangling>>

\* Another request of the same device truncates or rewrites the file.
FileRewritten ==
  /\ Rewritable
  /\ state = "IN_PROGRESS"
  /\ file_len' \in FileSizes
  /\ UNCHANGED <<state, stopping, file_size, eof, bad, bytes_transferred,
                 bytes_in_flight, waiting_for_ack, timers, ready, dangling>>

\* The state stop(reason) leaves when the session was in state st.
FinalState(reason, st) ==
  IF reason = "SERVER_STOP"
  THEN IF bytes_transferred >= file_size /\ file_size > 0
       THEN "COMPLETED" ELSE "CANCELLED"
  ELSE IF st \in {"FAILED", "TIMED_OUT"} THEN st ELSE "CANCELLED"

\* stop(): cancels the timers and drops self_reference_, the last owner; a
\* wait that already expired keeps its handler in the queue.
Stop(reason, st) ==
  /\ stopping' = TRUE
  /\ state' = FinalState(reason, st)
  /\ ack_timer' = "null"
  /\ completion_timer' = "null"
  /\ rate_limit_timer' = "null"
  /\ UNCHANGED <<file, bytes_transferred>>

\* start_ack_timeout() with waiting_for_ack_ set: a pending wait is replaced.
AwaitAckUntimed ==
  /\ waiting_for_ack' = TRUE
  /\ UNCHANGED ack_timer
AwaitAck ==
  /\ waiting_for_ack' = TRUE
  /\ ack_timer' = "armed"

\* COMPLETED, with the timer that closes the stream if the server does not.
CompleteUntimed ==
  /\ state' = "COMPLETED"
  /\ UNCHANGED completion_timer
Complete ==
  /\ state' = "COMPLETED"
  /\ completion_timer' =
       IF completion_timer = "null" THEN "armed" ELSE completion_timer

-----------------------------------------------------------------------------
(* send_next_chunk()                                                       *)

\* The io_context runs its first handler, h, on a live session.
Runs(h) == ~stopping /\ ready # <<>> /\ Head(ready) = h

\* STEP 1: nothing more to read.
SourceDone == state # "IN_PROGRESS" \/ eof

\* STEP 8: flow control.
WindowFull == bytes_in_flight >= WindowSize

\* file_stream_.read(): what is left of the file from the current offset.
RestOfFile ==
  IF file_len > bytes_transferred THEN file_len - bytes_transferred ELSE 0
BytesRead ==
  LET left == file_len - bytes_transferred
  IN  IF left <= 0 THEN 0 ELSE IF left < ChunkSize THEN left ELSE ChunkSize

\* STEPS 2-6: everything sent is acknowledged.
Drained ==
  /\ Runs("send")
  /\ SourceDone
  /\ bytes_in_flight = 0
  /\ ready' = Tail(ready)
  /\ IF state = "IN_PROGRESS"
     THEN /\ Complete
          /\ UNCHANGED <<stopping, file, bytes_transferred, waiting_for_ack,
                         ack_timer, rate_limit_timer, dangling>>
     ELSE IF state = "COMPLETED"
     THEN UNCHANGED <<state, stopping, file, bytes_transferred,
                      waiting_for_ack, timers, dangling>>
     ELSE /\ Stop("CLIENT_STOP", state)
          /\ dangling' = TRUE
          /\ UNCHANGED waiting_for_ack
  /\ UNCHANGED bytes_in_flight

\* STEPS 7 and 8: wait for ACKs, at the end of the file or with a full window.
WaitForAcks ==
  /\ Runs("send")
  /\ IF SourceDone THEN bytes_in_flight > 0 ELSE WindowFull
  /\ AwaitAck
  /\ ready' = Tail(ready)
  /\ UNCHANGED <<state, stopping, file, bytes_transferred, bytes_in_flight,
                 completion_timer, rate_limit_timer, dangling>>

\* STEPS 9-14: a chunk is read and sent; then the next one is posted, or
\* delayed by the bandwidth limit, or the window is full.  A short read sets
\* the eof flag of the stream.
SendChunk ==
  /\ Runs("send")
  /\ ~SourceDone
  /\ ~WindowFull
  /\ ~bad /\ BytesRead > 0
  /\ bytes_transferred' = bytes_transferred + BytesRead
  /\ bytes_in_flight' = bytes_in_flight + BytesRead
  /\ eof' = (BytesRead < ChunkSize)
  /\ \/ /\ bytes_in_flight' < WindowSize
        /\ ready' = Resume(Tail(ready))
        /\ UNCHANGED <<waiting_for_ack, ack_timer, rate_limit_timer>>
     \/ /\ bytes_in_flight' < WindowSize
        /\ RateLimited
        /\ rate_limit_timer' = "armed"
        /\ ready' = Tail(ready)
        /\ UNCHANGED <<waiting_for_ack, ack_timer>>
     \/ /\ bytes_in_flight' >= WindowSize
        /\ AwaitAck
        /\ ready' = Tail(ready)
        /\ UNCHANGED rate_limit_timer
  /\ UNCHANGED <<state, stopping, file_size, file_len, bad, completion_timer,
                 dangling>>

\* A read that finds no byte left sets the eof flag, one that fails does not:
\* it returns nothing, and neither does any later one.
EndIsRead   == ~bad /\ BytesRead = 0 /\ eof' = TRUE /\ UNCHANGED bad
ReadIsError == bad' = TRUE /\ UNCHANGED eof

\* STEPS 15-17: the read returned nothing, which is taken for the end of the
\* file whatever the reason.
EmptyRead ==
  /\ Runs("send")
  /\ ~SourceDone
  /\ ~WindowFull
  /\ EndIsRead \/ ReadIsError
  /\ ready' = Tail(ready)
  /\ \/ /\ bytes_in_flight = 0
        /\ Complete
        /\ UNCHANGED <<waiting_for_ack, ack_timer>>
     \/ /\ bytes_in_flight > 0
        /\ AwaitAck
        /\ UNCHANGED <<state, completion_timer>>
  /\ UNCHANGED <<stopping, file_size, file_len, bytes_transferred,
                 bytes_in_flight, rate_limit_timer, dangling>>

SendNextChunk == Drained \/ WaitForAcks \/ SendChunk \/ EmptyRead

-----------------------------------------------------------------------------
(* handle_input() and on_chunk_acknowledged()                              *)

\* The bytes an ACK confirms: its "bytes" field, or one chunk without it.
Confirmed(bytes) == IF bytes > 0 THEN bytes ELSE ChunkSize

\* on_chunk_acknowledged(): may the session stop waiting with left in flight?
MayResumeAnyway(left) == left < WindowSize
MayResume(left) == waiting_for_ack /\ left < WindowSize

\* An ACK for more than what is in flight is ignored: the guard says so.
AcknowledgesAny(bytes) ==
  /\ ~stopping
  /\ state \in {"IN_PROGRESS", "COMPLETED"}
  /\ bytes_in_flight' = bytes_in_flight - Confirmed(bytes)
Acknowledges(bytes) ==
  /\ ~stopping
  /\ state \in {"IN_PROGRESS", "COMPLETED"}
  /\ bytes_in_flight >= Confirmed(bytes)
  /\ bytes_in_flight' = bytes_in_flight - Confirmed(bytes)

\* The window stays closed, or the session was not waiting.
AckCounted(bytes) ==
  /\ Acknowledges(bytes)
  /\ ~MayResume(bytes_in_flight')
  /\ UNCHANGED <<state, stopping, file, bytes_transferred, waiting_for_ack,
                 timers, ready, dangling>>

\* The window opens again: cancel the ACK timer and go on.
AckResumes(bytes) ==
  /\ Acknowledges(bytes)
  /\ MayResume(bytes_in_flight')
  /\ ~SourceDone
  /\ waiting_for_ack' = FALSE
  /\ ack_timer' = "null"
  /\ ready' = Resume(ready)
  /\ UNCHANGED <<state, stopping, file, bytes_transferred, completion_timer,
                 rate_limit_timer, dangling>>

\* At the end of the file with bytes still in flight.
AckAtEnd(bytes) ==
  /\ Acknowledges(bytes)
  /\ MayResume(bytes_in_flight')
  /\ SourceDone
  /\ bytes_in_flight' > 0 \/ state = "COMPLETED"
  /\ waiting_for_ack' = FALSE
  /\ ack_timer' = "null"
  /\ UNCHANGED <<state, stopping, file, bytes_transferred, completion_timer,
                 rate_limit_timer, ready, dangling>>

\* The last ACK: complete, or give up when the file was shorter than its size.
LastAck(bytes) ==
  /\ Acknowledges(bytes)
  /\ MayResume(bytes_in_flight')
  /\ SourceDone
  /\ bytes_in_flight' = 0
  /\ waiting_for_ack' = FALSE
  /\ \/ /\ state = "IN_PROGRESS"
        /\ bytes_transferred >= file_size
        /\ Complete
        /\ ack_timer' = "null"
        /\ UNCHANGED <<stopping, file, bytes_transferred, rate_limit_timer>>
     \/ /\ state # "COMPLETED"
        /\ bytes_transferred < file_size
        /\ Stop("CLIENT_STOP", state)
  /\ UNCHANGED <<ready, dangling>>

HandleInput(bytes) ==
  AckCounted(bytes) \/ AckResumes(bytes) \/ AckAtEnd(bytes) \/ LastAck(bytes)

-----------------------------------------------------------------------------
(* Timers and the end of the session                                       *)

\* A pending wait expires: its handler is queued with no error code.
AckTimerExpires ==
  /\ ack_timer = "armed"
  /\ ack_timer' = "expired"
  /\ ready' = Append(ready, "ack_timeout")
  /\ UNCHANGED <<state, stopping, file, bytes_transferred, bytes_in_flight,
                 waiting_for_ack, completion_timer, rate_limit_timer, dangling>>

CompletionTimerExpires ==
  /\ completion_timer = "armed"
  /\ completion_timer' = "expired"
  /\ ready' = Append(ready, "completion_timeout")
  /\ UNCHANGED <<state, stopping, file, bytes_transferred, bytes_in_flight,
                 waiting_for_ack, ack_timer, rate_limit_timer, dangling>>

RateLimitTimerExpires ==
  /\ rate_limit_timer = "armed"
  /\ rate_limit_timer' = "expired"
  /\ ready' = Append(ready, "send")
  /\ UNCHANGED <<state, stopping, file, bytes_transferred, bytes_in_flight,
                 waiting_for_ack, ack_timer, completion_timer, dangling>>

\* The handler of ack_timer_; it stops a session whose only owner is itself.
AckTimedOut == waiting_for_ack /\ ack_timer # "null"

AckTimeout ==
  /\ Runs("ack_timeout")
  /\ AckTimedOut
  /\ Stop("CLIENT_STOP", "TIMED_OUT")
  /\ dangling' = TRUE
  /\ ready' = Tail(ready)
  /\ UNCHANGED <<bytes_in_flight, waiting_for_ack>>

StaleAckTimeout ==
  /\ Runs("ack_timeout")
  /\ ~AckTimedOut
  /\ ready' = Tail(ready)
  /\ UNCHANGED <<state, stopping, file, bytes_transferred, bytes_in_flight,
                 waiting_for_ack, timers, dangling>>

\* The handler of completion_timer_; self_reference_ is set until stop().
CompletionTimeout ==
  /\ Runs("completion_timeout")
  /\ Stop("CLIENT_STOP", "TIMED_OUT")
  /\ dangling' = TRUE
  /\ ready' = Tail(ready)
  /\ UNCHANGED <<bytes_in_flight, waiting_for_ack>>

\* STOP_STREAM from the server: the stream manager calls stop().
ServerStop ==
  /\ ~stopping
  /\ state \in {"IN_PROGRESS", "COMPLETED"}
  /\ Stop("SERVER_STOP", state)
  /\ UNCHANGED <<bytes_in_flight, waiting_for_ack, ready, dangling>>

\* A handler that captured `this` runs after the object is gone.
RunsDangling ==
  /\ stopping
  /\ ready # <<>>
  /\ ready' = Tail(ready)
  /\ dangling' = TRUE
  /\ UNCHANGED <<state, stopping, file, bytes_transferred, bytes_in_flight,
                 waiting_for_ack, timers>>

RunHandler ==
  SendNextChunk \/ AckTimeout \/ StaleAckTimeout \/ CompletionTimeout
    \/ RunsDangling

Next ==
  \/ Start \/ StartFails \/ FileRewritten
  \/ RunHandler
  \/ \E bytes \in AckBytes : HandleInput(bytes)
  \/ AckTimerExpires \/ CompletionTimerExpires \/ RateLimitTimerExpires
  \/ ServerStop

Spec == Init /\ [][Next]_vars

\* The io_context thread keeps running handlers and timers do expire.  The
\* server is not fair: it may never acknowledge and never stop the stream.
FairSpec ==
  /\ Spec
  /\ WF_vars(RunHandler)
  /\ WF_vars(AckTimerExpires)
  /\ WF_vars(CompletionTimerExpires)
  /\ WF_vars(RateLimitTimerExpires)

-----------------------------------------------------------------------------
(* The inductive invariant: who drives the session, and what the queue     *)
(* holds in each of its situations                                         *)

\* The queue holds nothing, one handler, or two in this order.
Idle       == ready = <<>>
Only(h)    == Len(ready) = 1 /\ ready[1] = h
Pair(g, h) == Len(ready) = 2 /\ ready[1] = g /\ ready[2] = h

NoTimer == ack_timer = "null" /\ completion_timer = "null"
             /\ rate_limit_timer = "null"

\* Created and not started, or refused by start().
Inert ==
  /\ state \in {"IDLE", "FAILED"}
  /\ NoTimer
  /\ bytes_in_flight = 0
  /\ ~waiting_for_ack
  /\ Idle

\* A call of send_next_chunk is queued, perhaps behind a stale ACK timeout.
Sending ==
  /\ state = "IN_PROGRESS"
  /\ ack_timer = "null" /\ completion_timer = "null"
  /\ rate_limit_timer # "armed"
  /\ ~waiting_for_ack
  /\ Only("send") \/ Pair("ack_timeout", "send")

\* The bandwidth limit delays the next chunk.
Delayed ==
  /\ state = "IN_PROGRESS"
  /\ ack_timer = "null" /\ completion_timer = "null"
  /\ rate_limit_timer = "armed"
  /\ ~waiting_for_ack
  /\ Idle

\* Waiting for ACKs; only the current wait can have expired.
Waiting ==
  /\ state = "IN_PROGRESS"
  /\ completion_timer = "null"
  /\ rate_limit_timer # "armed"
  /\ waiting_for_ack
  /\ \/ ack_timer = "armed" /\ Idle
     \/ ack_timer = "expired" /\ Only("ack_timeout")

\* The end of the file was reached and an ACK cleared the wait.
Unattended ==
  /\ state = "IN_PROGRESS"
  /\ eof
  /\ ack_timer = "null" /\ completion_timer = "null"
  /\ rate_limit_timer # "armed"
  /\ ~waiting_for_ack
  /\ Idle \/ Only("ack_timeout")

\* Completed: only the completion timer is left.
Closing ==
  /\ state = "COMPLETED"
  /\ bytes_in_flight = 0
  /\ ack_timer = "null"
  /\ rate_limit_timer # "armed"
  /\ ~waiting_for_ack
  /\ \/ /\ completion_timer = "armed"
        /\ Idle \/ Only("ack_timeout")
     \/ /\ completion_timer = "expired"
        /\ \/ Only("completion_timeout")
           \/ Pair("ack_timeout", "completion_timeout")

\* stop() was called: no timer is left, queued handlers may be.
Gone ==
  /\ NoTimer
  /\ state \in {"COMPLETED", "CANCELLED", "TIMED_OUT"}

Situation ==
  IF stopping THEN Gone
  ELSE Inert \/ Sending \/ Delayed \/ Waiting \/ Unattended \/ Closing

-----------------------------------------------------------------------------
(* The transfer this session implements                                    *)

Phase ==
  CASE stopping \/ state = "FAILED" -> "closed"
    [] ~stopping /\ state = "IDLE" -> "idle"
    [] ~stopping /\ state = "COMPLETED" -> "done"
    [] OTHER -> "open"

Transfer == INSTANCE WindowedTransfer WITH
  Chunk  <- ChunkSize,
  Window <- WindowSize,
  sent   <- bytes_transferred,
  acked  <- bytes_transferred - bytes_in_flight,
  phase  <- Phase

\* Every step of the session is a step of the abstract transfer or changes
\* nothing of it: no chunk is sent into a full window, no ACK confirms more
\* than was sent, and the session completes only with nothing in flight.
ImplementsTransfer == Transfer!TransferSpec

-----------------------------------------------------------------------------
(* Properties                                                              *)

Queued(h) == \E i \in DOMAIN ready : ready[i] = h

TypeOK ==
  /\ state \in SessionState
  /\ stopping \in BOOLEAN
  /\ file_size \in Nat
  /\ file_len \in Nat
  /\ eof \in BOOLEAN
  /\ bad \in BOOLEAN
  /\ bytes_transferred \in Nat
  /\ bytes_in_flight \in Nat
  /\ waiting_for_ack \in BOOLEAN
  /\ ack_timer \in TimerState
  /\ completion_timer \in TimerState
  /\ rate_limit_timer \in TimerState
  /\ ready \in Seq(Handler)
  /\ dangling \in BOOLEAN

\* The window is checked before a read, so at most one chunk goes over it:
\* in every state less than WindowSize + ChunkSize bytes are unacknowledged
\* (flow control of STEPS 8 and 11, whatever the ACKs claim).
InFlightBound ==
  bytes_in_flight > 0 => bytes_in_flight < WindowSize + ChunkSize

\* send_next_chunk has at most one pending caller: ACKs, the bandwidth timer
\* and the posts of STEP 13 never start a second sending chain.
SingleSender ==
  ~stopping =>
    /\ \A i, j \in DOMAIN ready : ready[i] = "send" /\ ready[j] = "send" => i = j
    /\ rate_limit_timer = "armed" \/ waiting_for_ack => ~Queued("send")
    /\ ~(rate_limit_timer = "armed" /\ waiting_for_ack)

\* Before the end of the file the transfer never loses its driver: a call of
\* send_next_chunk is pending, or the session waits with its ACK timer on.
NeverStalledBeforeEof ==
  state = "IN_PROGRESS" /\ ~stopping /\ ~eof =>
    \/ Queued("send")
    \/ rate_limit_timer = "armed"
    \/ waiting_for_ack /\ (ack_timer = "armed" \/ Queued("ack_timeout"))

\* A handler of an earlier wait never aborts a later one: while a new wait is
\* pending no expired handler of ack_timer_ is left that could see
\* waiting_for_ack_ set and report a timeout.
NoSpuriousTimeout ==
  ~stopping => ~(waiting_for_ack /\ ack_timer = "armed" /\ Queued("ack_timeout"))

\* A session that reached COMPLETED has no byte unacknowledged, and a timer
\* that will close it is running or has expired.
CompletedIsAcked ==
  state = "COMPLETED" /\ ~stopping =>
    /\ bytes_in_flight = 0
    /\ completion_timer = "armed" \/ Queued("completion_timeout")

\* The transfer always reaches the end of the file or is ended by a timeout
\* or a stop, even if the server never acknowledges anything.
ReachesEof == (state = "IN_PROGRESS") ~> (eof \/ state # "IN_PROGRESS")

\* A completed session is eventually closed by its completion timer, although
\* the server never sends STOP_STREAM.
CompletedIsClosed == (state = "COMPLETED") ~> stopping

\* COMPLETED means the whole file, as long as nobody rewrites it and it could
\* be read: STEPS 3 and 16 do not look at file_size_ when a read has returned
\* nothing, but the last ACK and STOP_STREAM do.
CompletedIsWhole ==
  ~Rewritable /\ ~bad => (state = "COMPLETED" => bytes_transferred >= file_size)

-----------------------------------------------------------------------------
(* What the code does not guarantee                                        *)

\* No code of the session runs after stop() dropped its last owner.
SessionOutlivesHandlers == ~dangling

\* A file that could not be read to its end is not reported as sent.
UnreadIsNotCompleted == bad => state # "COMPLETED"

\* No session stays open for ever: the ACK timer or the completion timer ends
\* one whose server falls silent.
NeverHangs == (state = "IN_PROGRESS") ~> stopping
===============================================================================
