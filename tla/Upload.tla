-------------------------------- MODULE Upload --------------------------------
(***************************************************************************)
(* One file_upload_session: the server streams the chunks of a file, the   *)
(* device writes them and acknowledges the bytes once a threshold of them  *)
(* has arrived, later if the bandwidth is limited.                         *)
(*                                                                         *)
(* As for a download, a step is a whole handler and `ready` is the queue   *)
(* of handlers that will run with no error code.  The server is external:  *)
(* it keeps its unacknowledged bytes within its window, otherwise sends,   *)
(* pauses or stops as it likes.  Bytes are abstracted to their number.     *)
(***************************************************************************)
EXTENDS Integers, Sequences

CONSTANTS
  ChunkSize,        \* chunk_size_, told to the server with the OK
  MaxAckThreshold,  \* MAX_ACK_THRESHOLD
  Parts,            \* a file is acknowledged in about this many parts, 100
  Sizes,            \* values of the "size" parameter; create_session refuses 0
  Windows           \* unacknowledged bytes a server may be willing to buffer

ASSUME UploadAssumption ==
  /\ ChunkSize \in Nat \ {0}
  /\ MaxAckThreshold \in Nat \ {0}
  /\ Parts \in Nat \ {0}
  /\ Sizes \subseteq Nat \ {0}
  /\ Windows \subseteq Nat \ {0}

VARIABLES
  rate_limited,          \* max_bandwidth_mbps_ > 0
  window,                \* the window of this session's server
  state,                 \* state_
  stopping,              \* stopping_; the object is destroyed once set
  expected_size,         \* expected_size_
  bytes_received,        \* bytes_received_
  bytes_since_last_ack,  \* bytes_since_last_ack_
  acked,                 \* sum of "bytes" over the ACKs sent
  receive_wait,          \* receive_timeout_timer_ has a pending wait
  rate_wait,             \* rate_limit_timer_ has a pending wait
  bytes_to_ack,          \* what the handler of that wait captured
  ready,                 \* handlers of this session in the io_context queue
  present,               \* the file of this upload is on disk
  buffered               \* bytes that file_stream_ did not hand on, or lost

counters == <<bytes_received, bytes_since_last_ack, acked>>
waits    == <<receive_wait, rate_wait, bytes_to_ack>>
setting  == <<rate_limited, window>>
disk == <<present, buffered>>
vars == <<setting, state, stopping, expected_size, counters, waits, ready, disk>>

SessionState ==
  {"IDLE", "IN_PROGRESS", "COMPLETED", "CANCELLED", "FAILED", "TIMED_OUT"}

Init ==
  /\ rate_limited \in BOOLEAN
  /\ window \in Windows
  /\ state = "IDLE"
  /\ stopping = FALSE
  /\ expected_size \in Sizes
  /\ bytes_received = 0
  /\ bytes_since_last_ack = 0
  /\ acked = 0
  /\ receive_wait = FALSE
  /\ rate_wait = FALSE
  /\ bytes_to_ack = 0
  /\ ready = <<>>
  /\ present = FALSE
  /\ buffered = FALSE

-----------------------------------------------------------------------------
(* start() and stop()                                                      *)

\* start(): the file is created or truncated, the receive timeout runs.
Start ==
  /\ state = "IDLE"
  /\ state' = "IN_PROGRESS"
  /\ present' = TRUE
  /\ receive_wait' = TRUE
  /\ UNCHANGED <<stopping, expected_size, counters, rate_wait, bytes_to_ack,
                 ready, buffered>>

\* start(): the file cannot be opened for writing.
StartFails ==
  /\ state = "IDLE"
  /\ state' = "FAILED"
  /\ UNCHANGED <<stopping, expected_size, counters, waits, ready, disk>>

\* The state stop(reason) leaves when the session was in state st.
FinalState(reason, st) ==
  IF reason = "SERVER_STOP"
  THEN IF st = "COMPLETED" THEN st ELSE "CANCELLED"
  ELSE IF st \in {"FAILED", "TIMED_OUT"} THEN st ELSE "CANCELLED"

\* Clean up of the partial upload: all but a completed one the server stopped.
KeepsTimedOut(reason, st) ==
  present /\ (reason = "SERVER_STOP" => st = "COMPLETED") /\ st # "FAILED"
KeepsFile(reason, st) == present /\ reason = "SERVER_STOP" /\ st = "COMPLETED"

\* stop(): the timers are cancelled, self_reference_ is dropped, and the file
\* is closed; what was buffered is written, or lost without notice.
Stop(reason, st) ==
  /\ stopping' = TRUE
  /\ state' = FinalState(reason, st)
  /\ present' = KeepsFile(reason, st)
  /\ buffered' \in {FALSE, buffered}
  /\ receive_wait' = FALSE
  /\ rate_wait' = FALSE
  /\ bytes_to_ack' = 0
  /\ UNCHANGED expected_size

-----------------------------------------------------------------------------
(* handle_upload_chunk() and send_ack()                                    *)

\* calculate_ack_threshold(): about 1% of the file, at least a chunk.
AckThreshold(size) ==
  LET least == IF size \div Parts < ChunkSize THEN ChunkSize ELSE size \div Parts
  IN  IF size = 0 THEN 4 * ChunkSize
      ELSE IF least > MaxAckThreshold THEN MaxAckThreshold ELSE least

\* The server may put n more bytes on the stream.
WindowAdmits(n) == bytes_received - acked + n <= window

\* A chunk of n bytes arrives and is written; the receive timeout restarts.
\* A short one may stay in the buffer of the stream.
RestartTimeout == receive_wait' = TRUE

Arrives(n) ==
  /\ ~stopping
  /\ state = "IN_PROGRESS"
  /\ WindowAdmits(n)
  /\ bytes_received' = bytes_received + n
  /\ buffered' \in (IF n = ChunkSize THEN {FALSE} ELSE BOOLEAN)
  /\ RestartTimeout
  /\ UNCHANGED <<stopping, expected_size, ready, present>>

IsLastChunk(n) == bytes_received + n >= expected_size

DueLate(n) == bytes_since_last_ack + n > AckThreshold(expected_size)
AckIsDue(n) == bytes_since_last_ack + n >= AckThreshold(expected_size)

\* No ACK yet.
ChunkCounted(n) ==
  /\ Arrives(n)
  /\ ~AckIsDue(n)
  /\ ~IsLastChunk(n)
  /\ bytes_since_last_ack' = bytes_since_last_ack + n
  /\ UNCHANGED <<state, acked, rate_wait, bytes_to_ack>>

\* The counters after an ACK for n bytes went out.
AcksWithoutReset(n) ==
  /\ acked' = acked + n
  /\ bytes_since_last_ack' = n
Acks(n) ==
  /\ acked' = acked + n
  /\ bytes_since_last_ack' = 0

\* send_ack() at once: the last chunk, no limit, or enough time has passed.
\* A delayed ACK that is still waiting is not cancelled.
ChunkAcked(n) ==
  /\ Arrives(n)
  /\ AckIsDue(n) \/ IsLastChunk(n)
  /\ Acks(bytes_since_last_ack + n)
  /\ state' = IF IsLastChunk(n) THEN "COMPLETED" ELSE state
  /\ UNCHANGED <<rate_wait, bytes_to_ack>>

\* send_ack() later: a pending wait is replaced and captures all the bytes.
ChunkAckDelayed(n) ==
  /\ Arrives(n)
  /\ rate_limited
  /\ AckIsDue(n)
  /\ ~IsLastChunk(n)
  /\ bytes_since_last_ack' = bytes_since_last_ack + n
  /\ rate_wait' = TRUE
  /\ bytes_to_ack' = bytes_since_last_ack'
  /\ UNCHANGED <<state, acked>>

\* The chunk cannot be written.
WriteFails(n) ==
  /\ ~stopping
  /\ state = "IN_PROGRESS"
  /\ WindowAdmits(n)
  /\ Stop("CLIENT_STOP", "FAILED")
  /\ UNCHANGED <<counters, ready>>

HandleInput(n) ==
  ChunkCounted(n) \/ ChunkAcked(n) \/ ChunkAckDelayed(n) \/ WriteFails(n)

-----------------------------------------------------------------------------
(* Timers and the end of the session                                       *)

ReceiveTimerExpires ==
  /\ receive_wait
  /\ receive_wait' = FALSE
  /\ ready' = Append(ready, [do |-> "timeout", bytes |-> 0])
  /\ UNCHANGED <<state, stopping, expected_size, counters, rate_wait,
                 bytes_to_ack, disk>>

RateTimerExpires ==
  /\ rate_wait
  /\ rate_wait' = FALSE
  /\ bytes_to_ack' = 0
  /\ ready' = Append(ready, [do |-> "ack", bytes |-> bytes_to_ack])
  /\ UNCHANGED <<state, stopping, expected_size, counters, receive_wait,
                 disk>>

\* The io_context runs its first handler on a live session.
Runs(do) == ~stopping /\ ready # <<>> /\ Head(ready).do = do

\* The handler of receive_timeout_timer_, whatever the state of the session.
ReceiveTimeoutInProgress ==
  /\ Runs("timeout")
  /\ ready' = Tail(ready)
  /\ IF state = "IN_PROGRESS" THEN Stop("CLIENT_STOP", "TIMED_OUT")
     ELSE UNCHANGED <<state, stopping, expected_size, waits, disk>>
  /\ UNCHANGED counters
ReceiveTimeout ==
  /\ Runs("timeout")
  /\ ready' = Tail(ready)
  /\ Stop("CLIENT_STOP", "TIMED_OUT")
  /\ UNCHANGED counters

\* The handler of rate_limit_timer_: the delayed ACK, with the captured bytes.
DelayedAck ==
  /\ Runs("ack")
  /\ ready' = Tail(ready)
  /\ Acks(Head(ready).bytes)
  /\ UNCHANGED <<state, stopping, expected_size, bytes_received, waits, disk>>

\* STOP_STREAM from the server.
ServerStop ==
  /\ ~stopping
  /\ state \in {"IN_PROGRESS", "COMPLETED"}
  /\ Stop("SERVER_STOP", state)
  /\ UNCHANGED <<counters, ready>>

RunHandler == ReceiveTimeout \/ DelayedAck

\* What happens to a session; its bandwidth limit and its server stay.
Next ==
  /\ \/ Start \/ StartFails
     \/ \E n \in 1..ChunkSize : HandleInput(n)
     \/ ReceiveTimerExpires \/ RateTimerExpires
     \/ RunHandler
     \/ ServerStop
  /\ UNCHANGED setting

Spec == Init /\ [][Next]_vars

\* Timers expire and queued handlers run; the server may pause for ever.
FairSpec ==
  /\ Spec
  /\ WF_vars(ReceiveTimerExpires /\ UNCHANGED setting)
  /\ WF_vars(RateTimerExpires /\ UNCHANGED setting)
  /\ WF_vars(RunHandler /\ UNCHANGED setting)

-----------------------------------------------------------------------------
(* Properties                                                              *)

Queued(do) == \E i \in DOMAIN ready : ready[i].do = do

TypeOK ==
  /\ rate_limited \in BOOLEAN
  /\ window \in Windows
  /\ state \in SessionState
  /\ stopping \in BOOLEAN
  /\ expected_size \in Nat
  /\ bytes_received \in Nat
  /\ bytes_since_last_ack \in Nat
  /\ acked \in Nat
  /\ receive_wait \in BOOLEAN
  /\ rate_wait \in BOOLEAN
  /\ bytes_to_ack \in Nat
  /\ ready \in Seq([do : {"ack", "timeout"}, bytes : Nat])
  /\ present \in BOOLEAN
  /\ buffered \in BOOLEAN

\* An ACK is never withheld past the threshold: when that many bytes are
\* unacknowledged, a delayed ACK is waiting or about to be sent.
ThresholdIsAcked ==
  state = "IN_PROGRESS" /\ bytes_since_last_ack >= AckThreshold(expected_size)
    => rate_wait \/ Queued("ack")

\* A partial file never survives its session, and a completed upload that the
\* server closed is kept.
NoPartialFileLeft == stopping => (present <=> state = "COMPLETED")

\* Without a bandwidth limit send_ack() acknowledges every byte received
\* exactly once: the counter it resets never hides or repeats one.
EachByteAckedOnce ==
  ~rate_limited => acked + bytes_since_last_ack = bytes_received

\* The server with room for a threshold and a chunk can always send the next
\* full chunk: device and server never wait for each other.
NeverBothWait ==
  ~rate_limited /\ ~stopping /\ state = "IN_PROGRESS"
    /\ window >= AckThreshold(expected_size) + ChunkSize - 1
      => WindowAdmits(ChunkSize)

\* The receive timeout ends every session whose server falls silent, before
\* or after the last chunk.
UploadEnds == (state = "IN_PROGRESS") ~> stopping

-----------------------------------------------------------------------------
(* What the code does not guarantee                                        *)

\* The receive timeout only aborts an upload that received no data since
\* start_receive_timeout() was last called.
TimeoutIsCurrent == ~(receive_wait /\ Queued("timeout") /\ ~stopping)

\* A file that was received completely is not removed by stop().
CompletedIsKept == [][state = "COMPLETED" => present' = present]_vars

\* The bytes of a completed upload are all on disk once the file is closed.
CompletedIsSaved == stopping /\ state = "COMPLETED" => ~buffered

\* The ACK of the last chunk is the final ACK.
FinalAckIsLast == [][state = "COMPLETED" => acked' = acked]_vars
===============================================================================
