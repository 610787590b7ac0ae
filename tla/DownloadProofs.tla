---------------------------- MODULE DownloadProofs ----------------------------
(***************************************************************************)
(* The safety properties of Download for every chunk, window and file      *)
(* size.  The inductive invariant is TypeOK, InFlightBound and Situation:  *)
(* Situation lists who drives the session and what its queue can hold.     *)
(***************************************************************************)
EXTENDS Download, TLAPS

IInv == TypeOK /\ InFlightBound /\ Situation

\* The strings the actions assign are in their types.
LEMMA Literals ==
  /\ {"null", "armed", "expired"} \subseteq TimerState
  /\ {"IN_PROGRESS", "COMPLETED", "CANCELLED", "FAILED", "TIMED_OUT"}
       \subseteq SessionState
  /\ {"send", "ack_timeout", "completion_timeout"} \subseteq Handler
  BY DEF TimerState, SessionState, Handler

\* Reading never returns more than a chunk.
LEMMA BytesReadType ==
  ASSUME TypeOK PROVE BytesRead \in Nat /\ BytesRead <= ChunkSize
  BY DownloadAssumption DEF TypeOK, BytesRead

\* What an ACK confirms is a positive number of bytes.
LEMMA ConfirmedType ==
  ASSUME NEW bytes \in AckBytes PROVE Confirmed(bytes) \in Nat \ {0}
  BY DownloadAssumption DEF Confirmed

\* stop() leaves one of the final states.
LEMMA FinalStateType ==
  ASSUME NEW reason, NEW st
  PROVE  /\ FinalState(reason, st) \in SessionState
         /\ reason = "SERVER_STOP" =>
              FinalState(reason, st) \in {"COMPLETED", "CANCELLED"}
         /\ reason = "CLIENT_STOP" /\ st = "TIMED_OUT" =>
              FinalState(reason, st) = "TIMED_OUT"
         /\ reason = "CLIENT_STOP" /\ st \notin {"FAILED", "TIMED_OUT"} =>
              FinalState(reason, st) = "CANCELLED"
  BY Literals DEF FinalState

\* Posting behind the queues a session can have.
LEMMA AppendShape ==
  ASSUME ready \in Seq(Handler), NEW h \in Handler, ready' = Append(ready, h)
  PROVE  /\ ready' \in Seq(Handler)
         /\ Idle => Only(h)'
         /\ \A g : Only(g) => Pair(g, h)'
  BY DEF Idle, Only, Pair

\* Posting to an empty queue, whichever queue it is.
LEMMA AppendToEmpty ==
  ASSUME NEW q \in Seq(Handler), Len(q) = 0, NEW h \in Handler
  PROVE  Len(Append(q, h)) = 1 /\ Append(q, h)[1] = h
  OBVIOUS

\* Running the first handler of the queues a session can have.
LEMMA TailShape ==
  ASSUME ready \in Seq(Handler), ready # <<>>, ready' = Tail(ready)
  PROVE  /\ ready' \in Seq(Handler)
         /\ \A h : Only(h) => Head(ready) = h /\ Idle'
         /\ \A g, h : Pair(g, h) => Head(ready) = g /\ Only(h)'
  <1>1. ready' \in Seq(Handler) /\ Len(ready') = Len(ready) - 1  OBVIOUS
  <1>2. ASSUME NEW h, Only(h) PROVE Head(ready) = h /\ Idle'
    BY <1>1, <1>2 DEF Only, Idle
  <1>3. ASSUME NEW g, NEW h, Pair(g, h) PROVE Head(ready) = g /\ Only(h)'
    <2>1. ready \in Seq(Handler) /\ Len(ready) = 2 /\ 1 \in 1..Len(Tail(ready))
      BY <1>1, <1>3 DEF Pair
    <2>2. Tail(ready)[1] = ready[1 + 1]  BY <2>1
    <2> QED  BY <1>1, <1>3, <2>2 DEF Only, Pair
  <1> QED  BY <1>1, <1>2, <1>3

\* Which handler can be first in which situation.
LEMMA FirstHandler ==
  ASSUME TypeOK, Situation, NEW h, Runs(h), ready' = Tail(ready)
  PROVE  /\ h = "send" => Sending /\ Idle'
         /\ h = "ack_timeout" =>
              \/ Sending /\ Only("send")'
              \/ Waiting /\ ack_timer = "expired" /\ Idle'
              \/ Unattended /\ Idle'
              \/ Closing /\ completion_timer = "armed" /\ Idle'
              \/ Closing /\ completion_timer = "expired"
                   /\ Only("completion_timeout")'
         /\ h = "completion_timeout" => Closing /\ Idle'
  <1> USE DEF Runs
  <1>1. ready \in Seq(Handler) /\ ready # <<>> /\ Head(ready) = h /\ ~stopping
    BY DEF TypeOK
  <1>2. /\ \A g : Only(g) => Head(ready) = g /\ Idle'
        /\ \A g, k : Pair(g, k) => Head(ready) = g /\ Only(k)'
    BY <1>1, TailShape
  <1>3. ~Idle  BY <1>1 DEF Idle
  <1>4. ~Inert /\ ~Delayed  BY <1>3 DEF Inert, Delayed
  <1>5. CASE Sending
    <2>1. CASE Only("send")  BY <1>1, <1>2, <1>5, <2>1
    <2>2. CASE Pair("ack_timeout", "send")  BY <1>1, <1>2, <1>5, <2>2
    <2> QED  BY <1>5, <2>1, <2>2 DEF Sending
  <1>6. CASE Waiting
    <2>1. Only("ack_timeout") /\ ack_timer = "expired"
      BY <1>3, <1>6 DEF Waiting
    <2> QED  BY <1>1, <1>2, <1>6, <2>1
  <1>7. CASE Unattended
    <2>1. Only("ack_timeout")  BY <1>3, <1>7 DEF Unattended
    <2> QED  BY <1>1, <1>2, <1>7, <2>1
  <1>8. CASE Closing
    <2>1. CASE completion_timer = "armed" /\ Only("ack_timeout")
      BY <1>1, <1>2, <1>8, <2>1
    <2>2. CASE completion_timer = "expired" /\ Only("completion_timeout")
      BY <1>1, <1>2, <1>8, <2>2
    <2>3. CASE completion_timer = "expired"
                 /\ Pair("ack_timeout", "completion_timeout")
      BY <1>1, <1>2, <1>8, <2>3
    <2> QED  BY <1>3, <1>8, <2>1, <2>2, <2>3 DEF Closing
  <1> QED  BY <1>1, <1>4, <1>5, <1>6, <1>7, <1>8 DEF Situation

\* A stopped session has no timer and a final state.
LEMMA StopGone ==
  ASSUME NEW reason, NEW st, Stop(reason, st),
         \/ reason = "SERVER_STOP"
         \/ reason = "CLIENT_STOP" /\ st # "FAILED"
  PROVE  Situation'
  BY FinalStateType DEF Stop, Situation, Gone, NoTimer

\* Every action keeps the type invariant.
LEMMA TypeStep ==
  ASSUME TypeOK, [Next]_vars PROVE TypeOK'
  <1> USE DownloadAssumption, Literals DEF TypeOK, timers, file
  <1>0. ASSUME NEW reason, NEW st, Stop(reason, st)
        PROVE  state' \in SessionState /\ stopping' \in BOOLEAN
                 /\ ack_timer' \in TimerState
                 /\ completion_timer' \in TimerState
                 /\ rate_limit_timer' \in TimerState
    BY <1>0, FinalStateType DEF Stop
  <1>1. CASE Start  BY <1>1 DEF Start, Resume
  <1>2. CASE StartFails  BY <1>2 DEF StartFails
  <1>3. CASE FileRewritten  BY <1>3 DEF FileRewritten
  <1>4. CASE Drained
    <2>1. CASE state = "IN_PROGRESS"  BY <1>4, <2>1 DEF Drained, Runs, Complete
    <2>2. CASE state = "COMPLETED"  BY <1>4, <2>2 DEF Drained, Runs
    <2>3. CASE state \notin {"IN_PROGRESS", "COMPLETED"}
      <3>1. Stop("CLIENT_STOP", state)  BY <1>4, <2>3 DEF Drained
      <3>2. UNCHANGED <<file, bytes_transferred, bytes_in_flight, waiting_for_ack>>
              /\ dangling' = TRUE /\ ready' = Tail(ready) /\ ready # <<>>
        BY <1>4, <2>3 DEF Drained, Runs, Stop
      <3> QED  BY <1>0, <3>1, <3>2
    <2> QED  BY <2>1, <2>2, <2>3
  <1>5. CASE WaitForAcks  BY <1>5 DEF WaitForAcks, Runs, AwaitAck
  <1>6. CASE SendChunk
    <2>1. bytes_transferred' \in Nat /\ bytes_in_flight' \in Nat
      BY <1>6, BytesReadType DEF SendChunk
    <2>2. eof' \in BOOLEAN  BY <1>6 DEF SendChunk
    <2>3. ready' \in Seq(Handler)
      <3>1. ready \in Seq(Handler) /\ ready # <<>>  BY <1>6 DEF SendChunk, Runs
      <3>2. ready' = Tail(ready) \/ ready' = Append(Tail(ready), "send")
        BY <1>6 DEF SendChunk, Resume
      <3>3. Tail(ready) \in Seq(Handler) /\ "send" \in Handler  BY ONLY <3>1, Literals
      <3> QED  BY <3>2, <3>3
    <2>4. ack_timer' \in TimerState /\ waiting_for_ack' \in BOOLEAN
      BY <1>6 DEF SendChunk, AwaitAck
    <2>5. rate_limit_timer' \in TimerState  BY <1>6 DEF SendChunk
    <2> QED  BY <1>6, <2>1, <2>2, <2>3, <2>4, <2>5 DEF SendChunk
  <1>7. CASE EmptyRead
    <2>1. state' \in SessionState /\ completion_timer' \in TimerState
      BY <1>7 DEF EmptyRead, Complete
    <2>2. ack_timer' \in TimerState /\ waiting_for_ack' \in BOOLEAN
      BY <1>7 DEF EmptyRead, AwaitAck
    <2>3. ready' \in Seq(Handler)  BY <1>7 DEF EmptyRead, Runs
    <2>4. eof' \in BOOLEAN /\ bad' \in BOOLEAN
      BY <1>7 DEF EmptyRead, EndIsRead, ReadIsError
    <2> QED  BY <1>7, <2>1, <2>2, <2>3, <2>4 DEF EmptyRead
  <1>8. CASE AckTimeout  BY <1>0, <1>8 DEF AckTimeout, Runs, Stop
  <1>9. CASE StaleAckTimeout  BY <1>9 DEF StaleAckTimeout, Runs
  <1>10. CASE CompletionTimeout  BY <1>0, <1>10 DEF CompletionTimeout, Runs, Stop
  <1>11. CASE RunsDangling  BY <1>11 DEF RunsDangling
  <1>12. ASSUME NEW bytes \in AckBytes, HandleInput(bytes) PROVE TypeOK'
    <2>1. bytes_in_flight' \in Nat
      BY <1>12, ConfirmedType
      DEF HandleInput, AckCounted, AckResumes, AckAtEnd, LastAck, Acknowledges
    <2>2. CASE AckCounted(bytes)  BY <2>1, <2>2 DEF AckCounted
    <2>3. CASE AckResumes(bytes)
      <3>1. ready' \in Seq(Handler)  BY <2>3 DEF AckResumes, Resume
      <3>2. waiting_for_ack' \in BOOLEAN /\ ack_timer' \in TimerState
        BY <2>3 DEF AckResumes
      <3> QED  BY <2>1, <2>3, <3>1, <3>2 DEF AckResumes
    <2>4. CASE AckAtEnd(bytes)
      <3>1. waiting_for_ack' \in BOOLEAN /\ ack_timer' \in TimerState
        BY <2>4 DEF AckAtEnd
      <3> QED  BY <2>1, <2>4, <3>1 DEF AckAtEnd
    <2>5. CASE LastAck(bytes)
      <3>1. waiting_for_ack' \in BOOLEAN  BY <2>5 DEF LastAck
      <3>2. CASE Stop("CLIENT_STOP", state)
        BY <1>0, <2>1, <2>5, <3>1, <3>2 DEF LastAck, Stop
      <3>3. CASE Complete /\ ack_timer' = "null"
                   /\ UNCHANGED <<stopping, file, bytes_transferred, rate_limit_timer>>
        <4>1. state' \in SessionState /\ completion_timer' \in TimerState
          BY <3>3 DEF Complete
        <4> QED  BY <2>1, <2>5, <3>1, <3>3, <4>1 DEF LastAck
      <3> QED  BY <2>5, <3>2, <3>3 DEF LastAck
    <2> QED  BY <1>12, <2>2, <2>3, <2>4, <2>5 DEF HandleInput
  <1>13. CASE AckTimerExpires  BY <1>13 DEF AckTimerExpires
  <1>14. CASE CompletionTimerExpires  BY <1>14 DEF CompletionTimerExpires
  <1>15. CASE RateLimitTimerExpires  BY <1>15 DEF RateLimitTimerExpires
  <1>16. CASE ServerStop  BY <1>0, <1>16 DEF ServerStop, Stop
  <1>17. CASE UNCHANGED vars  BY <1>17 DEF vars
  <1> QED
    BY <1>1, <1>2, <1>3, <1>4, <1>5, <1>6, <1>7, <1>8, <1>9, <1>10, <1>11,
       <1>12, <1>13, <1>14, <1>15, <1>16, <1>17
    DEF Next, RunHandler, SendNextChunk

\* Only SendChunk adds bytes, and it looked at the window first.
LEMMA BoundStep ==
  ASSUME TypeOK, InFlightBound, [Next]_vars PROVE InFlightBound'
  <1> USE DownloadAssumption DEF TypeOK
  <1>1. CASE SendChunk
    <2>1. bytes_in_flight' = bytes_in_flight + BytesRead
            /\ bytes_in_flight < WindowSize
      BY <1>1 DEF SendChunk, WindowFull
    <2> QED  BY <2>1, BytesReadType DEF InFlightBound
  <1>2. ASSUME NEW bytes \in AckBytes, HandleInput(bytes)
        PROVE  InFlightBound'
    <2>1. bytes_in_flight' = bytes_in_flight - Confirmed(bytes)
      BY <1>2
      DEF HandleInput, AckCounted, AckResumes, AckAtEnd, LastAck, Acknowledges
    <2> QED  BY <2>1, ConfirmedType DEF InFlightBound
  <1>3. CASE UNCHANGED bytes_in_flight  BY <1>3 DEF InFlightBound
  <1>4. Start \/ StartFails \/ FileRewritten \/ Drained \/ WaitForAcks
          \/ EmptyRead \/ AckTimeout \/ StaleAckTimeout \/ CompletionTimeout
          \/ RunsDangling \/ AckTimerExpires \/ CompletionTimerExpires
          \/ RateLimitTimerExpires \/ ServerStop \/ UNCHANGED vars
        => UNCHANGED bytes_in_flight
    BY DEF Start, StartFails, FileRewritten, Drained, WaitForAcks, EmptyRead,
           AckTimeout, StaleAckTimeout, CompletionTimeout, RunsDangling,
           AckTimerExpires, CompletionTimerExpires, RateLimitTimerExpires,
           ServerStop, vars
  <1> QED  BY <1>1, <1>2, <1>3, <1>4 DEF Next, RunHandler, SendNextChunk

\* Every action leads from a situation to a situation.
LEMMA SituationStep ==
  ASSUME TypeOK, Situation, [Next]_vars PROVE Situation'
  <1> USE DownloadAssumption, Literals DEF timers, file
  <1>0. ready \in Seq(Handler)  BY DEF TypeOK
  <1>1. CASE Start
    <2>1. Inert /\ ~stopping  BY <1>1 DEF Start, Situation, Gone, Sending,
      Delayed, Waiting, Unattended, Closing
    <2>2. Only("send")'  BY <1>0, <1>1, <2>1, AppendShape DEF Start, Resume, Inert
    <2>3. Sending'  BY <1>1, <2>1, <2>2 DEF Start, Inert, NoTimer, Sending
    <2> QED  BY <1>1, <2>1, <2>3 DEF Start, Situation
  <1>2. CASE StartFails
    <2>1. Inert /\ ~stopping  BY <1>2 DEF StartFails, Situation, Gone, Sending,
      Delayed, Waiting, Unattended, Closing
    <2>2. Inert'  BY <1>2, <2>1 DEF StartFails, Inert, NoTimer, Idle
    <2> QED  BY <1>2, <2>1, <2>2 DEF StartFails, Situation
  <1>3. CASE FileRewritten \/ UNCHANGED vars
    BY <1>3 DEF FileRewritten, vars, Situation, Gone, Inert, Sending, Delayed,
      Waiting, Unattended, Closing, NoTimer, Idle, Only, Pair
  <1>4. CASE Drained
    <2>1. Sending /\ Idle'  BY <1>4, FirstHandler DEF Drained
    <2>2. Closing'
      BY <1>4, <2>1 DEF Drained, Complete, Sending, Closing
    <2> QED  BY <1>4, <2>1, <2>2 DEF Drained, Sending, Situation, Runs
  <1>5. CASE WaitForAcks
    <2>1. Sending /\ Idle'  BY <1>5, FirstHandler DEF WaitForAcks
    <2>2. Waiting'  BY <1>5, <2>1 DEF WaitForAcks, AwaitAck, Sending, Waiting
    <2> QED  BY <1>5, <2>2 DEF WaitForAcks, Situation, Runs
  <1>6. CASE SendChunk
    <2>1. CASE ready' = Tail(ready)
      <3>1. Sending /\ Idle'  BY <1>6, <2>1, FirstHandler DEF SendChunk
      <3>2. CASE rate_limit_timer' = "armed" /\ UNCHANGED <<waiting_for_ack, ack_timer>>
        <4>1. Delayed'  BY <1>6, <3>1, <3>2 DEF SendChunk, Sending, Delayed
        <4> QED  BY <1>6, <4>1 DEF SendChunk, Situation, Runs
      <3>3. CASE AwaitAck /\ UNCHANGED rate_limit_timer
        <4>1. Waiting'
          BY <1>6, <3>1, <3>3 DEF SendChunk, AwaitAck, Sending, Waiting
        <4> QED  BY <1>6, <4>1 DEF SendChunk, Situation, Runs
      <3>4. ready' # Resume(Tail(ready))
        BY <1>0, <1>6, <2>1 DEF Resume, SendChunk, Runs
      <3> QED  BY <1>6, <3>2, <3>3, <3>4 DEF SendChunk
    <2>2. CASE /\ ready' = Resume(Tail(ready))
               /\ UNCHANGED <<waiting_for_ack, ack_timer, rate_limit_timer>>
      <3>1. Sending /\ Only("send")
        <4>1. Sending
          BY <1>0, <1>6 DEF SendChunk, Runs, SourceDone, Situation, Inert,
            Delayed, Waiting, Unattended, Closing, Idle, Only
        <4> QED  BY <1>6, <4>1 DEF SendChunk, Runs, Sending, Pair
      <3>2. ready # <<>>  BY <1>6 DEF SendChunk, Runs
      <3>3. Tail(ready) \in Seq(Handler) /\ Len(Tail(ready)) = 0
        BY <1>0, <3>1, <3>2 DEF Only
      <3>4. Only("send")'
        BY <2>2, <3>3, AppendToEmpty DEF Resume, Only
      <3>5. Sending'  BY <1>6, <2>2, <3>1, <3>4 DEF SendChunk, Sending
      <3> QED  BY <1>6, <3>5 DEF SendChunk, Situation, Runs
    <2> QED  BY <1>6, <2>1, <2>2 DEF SendChunk
  <1>7. CASE EmptyRead
    <2>1. Sending /\ Idle'  BY <1>7, FirstHandler DEF EmptyRead
    <2>2. CASE bytes_in_flight = 0 /\ Complete /\ UNCHANGED <<waiting_for_ack, ack_timer>>
      <3>1. Closing'  BY <1>7, <2>1, <2>2 DEF EmptyRead, Complete, Sending, Closing
      <3> QED  BY <1>7, <3>1 DEF EmptyRead, Situation, Runs
    <2>3. CASE AwaitAck /\ UNCHANGED <<state, completion_timer>>
      <3>1. Waiting'  BY <1>7, <2>1, <2>3 DEF EmptyRead, AwaitAck, Sending, Waiting
      <3> QED  BY <1>7, <3>1 DEF EmptyRead, Situation, Runs
    <2> QED  BY <1>7, <2>2, <2>3 DEF EmptyRead
  <1>8. CASE AckTimeout  BY <1>8, StopGone DEF AckTimeout
  <1>9. CASE StaleAckTimeout
    <2>1. \/ Sending /\ Only("send")'
          \/ Waiting /\ ack_timer = "expired" /\ Idle'
          \/ Unattended /\ Idle'
          \/ Closing /\ completion_timer = "armed" /\ Idle'
          \/ Closing /\ completion_timer = "expired"
               /\ Only("completion_timeout")'
      BY <1>9, FirstHandler DEF StaleAckTimeout
    <2>2. ~Waiting  BY <1>9 DEF StaleAckTimeout, AckTimedOut, Waiting
    <2>3. CASE Sending /\ Only("send")'
      BY <1>9, <2>3 DEF StaleAckTimeout, Runs, Sending, Situation
    <2>4. CASE Unattended /\ Idle'
      BY <1>9, <2>4 DEF StaleAckTimeout, Runs, Unattended, Situation
    <2>5. CASE Closing /\ completion_timer = "armed" /\ Idle'
      BY <1>9, <2>5 DEF StaleAckTimeout, Runs, Closing, Situation
    <2>6. CASE Closing /\ completion_timer = "expired" /\ Only("completion_timeout")'
      BY <1>9, <2>6 DEF StaleAckTimeout, Runs, Closing, Situation
    <2> QED  BY <2>1, <2>2, <2>3, <2>4, <2>5, <2>6
  <1>10. CASE CompletionTimeout  BY <1>10, StopGone DEF CompletionTimeout
  <1>11. CASE RunsDangling
    BY <1>11 DEF RunsDangling, Situation, Gone, NoTimer
  <1>12. ASSUME NEW bytes \in AckBytes, HandleInput(bytes) PROVE Situation'
    <2>1. ~stopping /\ state \in {"IN_PROGRESS", "COMPLETED"}
      BY <1>12
      DEF HandleInput, AckCounted, AckResumes, AckAtEnd, LastAck, Acknowledges
    <2>2. bytes_in_flight > 0 /\ bytes_in_flight' < bytes_in_flight
      BY <1>12, ConfirmedType
      DEF HandleInput, AckCounted, AckResumes, AckAtEnd, LastAck, Acknowledges,
          TypeOK
    <2>3. Sending \/ Delayed \/ Waiting \/ Unattended
      BY <2>1, <2>2 DEF Situation, Inert, Closing
    <2>4. CASE AckCounted(bytes)
      BY <2>3, <2>4 DEF AckCounted, Acknowledges, Situation, Sending, Delayed,
        Waiting, Unattended, Idle, Only, Pair
    <2>5. CASE AckResumes(bytes)
      <3>1. Waiting
        BY <2>3, <2>5 DEF AckResumes, MayResume, Sending, Delayed, Unattended
      <3>2. Only("send")' \/ Pair("ack_timeout", "send")'
        BY <1>0, <2>5, <3>1, AppendShape DEF AckResumes, Resume, Waiting
      <3>3. Sending'  BY <2>5, <3>1, <3>2 DEF AckResumes, Waiting, Sending
      <3> QED  BY <2>1, <2>5, <3>3 DEF AckResumes, Situation
    <2>6. CASE AckAtEnd(bytes)
      <3>1. Waiting /\ eof
        BY <2>3, <2>6 DEF AckAtEnd, MayResume, SourceDone, Sending, Delayed,
          Waiting, Unattended
      <3>2. Unattended'
        BY <2>6, <3>1 DEF AckAtEnd, Waiting, Unattended, Idle, Only
      <3> QED  BY <2>1, <2>6, <3>2 DEF AckAtEnd, Situation
    <2>7. CASE LastAck(bytes)
      <3>1. Waiting
        BY <2>3, <2>7 DEF LastAck, MayResume, Sending, Delayed, Unattended
      <3>2. CASE Stop("CLIENT_STOP", state)
        BY <3>1, <3>2, StopGone DEF Waiting
      <3>3. CASE Complete /\ ack_timer' = "null" /\ UNCHANGED <<stopping, rate_limit_timer>>
        <4>1. Closing'
          BY <2>7, <3>1, <3>3 DEF LastAck, Complete, Waiting, Closing, Idle, Only
        <4> QED  BY <2>1, <3>3, <4>1 DEF Situation
      <3> QED  BY <2>7, <3>2, <3>3 DEF LastAck
    <2> QED  BY <1>12, <2>4, <2>5, <2>6, <2>7 DEF HandleInput
  <1>13. CASE AckTimerExpires
    <2>1. ~stopping /\ Waiting /\ Idle
      BY <1>13 DEF AckTimerExpires, Situation, Gone, Inert, Sending, Delayed,
        Waiting, Unattended, Closing, NoTimer
    <2>2. Only("ack_timeout")'  BY <1>0, <1>13, <2>1, AppendShape DEF AckTimerExpires
    <2>3. Waiting'  BY <1>13, <2>1, <2>2 DEF AckTimerExpires, Waiting
    <2> QED  BY <1>13, <2>1, <2>3 DEF AckTimerExpires, Situation
  <1>14. CASE CompletionTimerExpires
    <2>1. ~stopping /\ Closing
      BY <1>14 DEF CompletionTimerExpires, Situation, Gone, Inert, Sending,
        Delayed, Waiting, Unattended, Closing, NoTimer
    <2>2. \/ Only("completion_timeout")'
          \/ Pair("ack_timeout", "completion_timeout")'
      BY <1>0, <1>14, <2>1, AppendShape DEF CompletionTimerExpires, Closing
    <2>3. Closing'  BY <1>14, <2>1, <2>2 DEF CompletionTimerExpires, Closing
    <2> QED  BY <1>14, <2>1, <2>3 DEF CompletionTimerExpires, Situation
  <1>15. CASE RateLimitTimerExpires
    <2>1. ~stopping /\ Delayed
      BY <1>15 DEF RateLimitTimerExpires, Situation, Gone, Inert, Sending,
        Delayed, Waiting, Unattended, Closing, NoTimer
    <2>2. Only("send")'
      BY <1>0, <1>15, <2>1, AppendShape DEF RateLimitTimerExpires, Delayed
    <2>3. Sending'  BY <1>15, <2>1, <2>2 DEF RateLimitTimerExpires, Delayed, Sending
    <2> QED  BY <1>15, <2>1, <2>3 DEF RateLimitTimerExpires, Situation
  <1>16. CASE ServerStop  BY <1>16, StopGone DEF ServerStop
  <1> QED
    BY <1>1, <1>2, <1>3, <1>4, <1>5, <1>6, <1>7, <1>8, <1>9, <1>10, <1>11,
       <1>12, <1>13, <1>14, <1>15, <1>16
    DEF Next, RunHandler, SendNextChunk

\* The invariant holds of every reachable state.
THEOREM Invariance == Spec => []IInv
  <1>1. Init => IInv
    <2> SUFFICES ASSUME Init PROVE IInv  OBVIOUS
    <2>1. TypeOK
      <3>1. file_len \in Nat  BY DownloadAssumption DEF Init
      <3>2. ready \in Seq(Handler)  BY DEF Init
      <3>3. state \in SessionState  BY DEF Init, SessionState
      <3>4. ack_timer \in TimerState /\ completion_timer \in TimerState
              /\ rate_limit_timer \in TimerState
        BY Literals DEF Init
      <3> QED  BY <3>1, <3>2, <3>3, <3>4 DEF Init, TypeOK
    <2>2. Situation  BY DEF Init, Situation, Inert, NoTimer, Idle
    <2>3. InFlightBound  BY DEF Init, InFlightBound
    <2> QED  BY <2>1, <2>2, <2>3 DEF IInv
  <1>2. IInv /\ [Next]_vars => IInv'
    BY TypeStep, BoundStep, SituationStep DEF IInv
  <1> QED  BY <1>1, <1>2, PTL DEF Spec

\* Type correctness of the download session.
THEOREM TypeCorrect == Spec => []TypeOK
  <1>1. IInv => TypeOK  BY DEF IInv
  <1> QED  BY <1>1, Invariance, PTL

\* Flow control holds for every window, chunk and file size and whatever the
\* ACKs claim: at most one chunk goes over the window.
THEOREM FlowControl == Spec => []InFlightBound
  <1>1. IInv => InFlightBound  BY DEF IInv
  <1> QED  BY <1>1, Invariance, PTL

\* A session in progress never has two sending chains.
THEOREM OneSender == Spec => []SingleSender
  <1>1. IInv => SingleSender
    <2> SUFFICES ASSUME IInv, ~stopping PROVE SingleSender  BY DEF SingleSender
    <2>0. ready \in Seq(Handler)  BY DEF IInv, TypeOK
    <2>1. Inert \/ Sending \/ Delayed \/ Waiting \/ Unattended \/ Closing
      BY DEF IInv, Situation
    <2>2. CASE Idle /\ ~(rate_limit_timer = "armed" /\ waiting_for_ack)
      BY <2>2 DEF Idle, SingleSender, Queued
    <2>3. CASE Sending  BY <2>0, <2>3 DEF Sending, Only, Pair, SingleSender, Queued
    <2>4. CASE Waiting /\ ~Idle
      BY <2>0, <2>4 DEF Waiting, Only, SingleSender, Queued
    <2>5. CASE Unattended /\ ~Idle
      BY <2>0, <2>5 DEF Unattended, Only, SingleSender, Queued
    <2>6. CASE Closing /\ ~Idle
      BY <2>0, <2>6 DEF Closing, Only, Pair, SingleSender, Queued
    <2> QED  BY <2>1, <2>2, <2>3, <2>4, <2>5, <2>6
      DEF Inert, Delayed, Waiting, Unattended, Closing
  <1> QED  BY <1>1, Invariance, PTL

\* Before the end of the file the transfer always has a driver.
THEOREM AlwaysDriven == Spec => []NeverStalledBeforeEof
  <1>1. IInv => NeverStalledBeforeEof
    BY DEF IInv, TypeOK, Situation, Inert, Sending, Delayed, Waiting, Unattended,
           Closing, Only, Pair, Queued, NeverStalledBeforeEof
  <1> QED  BY <1>1, Invariance, PTL

\* A queued timeout of an earlier wait never aborts a later one.
THEOREM TimeoutsAreCurrent == Spec => []NoSpuriousTimeout
  <1>1. IInv => NoSpuriousTimeout
    BY DEF IInv, Situation, Inert, Sending, Delayed, Waiting, Unattended,
           Closing, NoTimer, Idle, Queued, NoSpuriousTimeout
  <1> QED  BY <1>1, Invariance, PTL

\* A completed session has nothing in flight and will be closed.
THEOREM CompletionIsAcknowledged == Spec => []CompletedIsAcked
  <1>1. IInv => CompletedIsAcked
    <2> SUFFICES ASSUME IInv, state = "COMPLETED", ~stopping
                 PROVE  bytes_in_flight = 0 /\ (completion_timer = "armed"
                          \/ Queued("completion_timeout"))
      BY DEF CompletedIsAcked
    <2>1. Closing
      BY DEF IInv, Situation, Inert, Sending, Delayed, Waiting, Unattended
    <2>2. ready \in Seq(Handler)  BY DEF IInv, TypeOK
    <2>3. Only("completion_timeout") \/ Pair("ack_timeout", "completion_timeout")
            => Queued("completion_timeout")
      BY <2>2 DEF Only, Pair, Queued
    <2> QED  BY <2>1, <2>3 DEF Closing
  <1> QED  BY <1>1, Invariance, PTL

-----------------------------------------------------------------------------
(* Refinement of WindowedTransfer                                          *)

\* The phases as the transfer sees them.
LEMMA PhaseIs ==
  ASSUME TypeOK
  PROVE  /\ stopping => Phase = "closed"
         /\ state = "FAILED" => Phase = "closed"
         /\ ~stopping /\ state = "IDLE" => Phase = "idle"
         /\ ~stopping /\ state = "COMPLETED" => Phase = "done"
         /\ ~stopping /\ state = "IN_PROGRESS" => Phase = "open"
  BY DEF Phase, TypeOK

\* A session that keeps its state and its counters keeps its transfer.
LEMMA Stutters ==
  ASSUME UNCHANGED <<state, stopping, bytes_transferred, bytes_in_flight>>
  PROVE  UNCHANGED Transfer!tvars
  BY DEF Transfer!tvars, Phase

\* A stop of an open or completed session closes its transfer.
LEMMA StopCloses ==
  ASSUME TypeOK, TypeOK', ~stopping, state \in {"IN_PROGRESS", "COMPLETED"},
         stopping', UNCHANGED <<bytes_transferred, bytes_in_flight>>
  PROVE  Transfer!Close
  <1>1. Phase \in {"open", "done"}  BY PhaseIs
  <1>2. Phase' = "closed"  BY DEF Phase
  <1> QED  BY <1>1, <1>2 DEF Transfer!Close

\* Every step of a session maps to a step of the transfer or to a stutter.
LEMMA TransferStep ==
  ASSUME IInv, IInv', [Next]_vars
  PROVE  [Transfer!TransferNext]_(Transfer!tvars)
  <1> DEFINE Goal == [Transfer!TransferNext]_(Transfer!tvars)
  <1> USE DEF Transfer!TransferNext
  <1>0. TypeOK /\ TypeOK' /\ Situation  BY DEF IInv
  <1>1. CASE Start
    <2>1. ~stopping
      BY <1>0, <1>1 DEF Start, Situation, Gone
    <2>2. Phase = "idle" /\ Phase' = "open"
      BY <1>0, <1>1, <2>1, PhaseIs DEF Start, Phase
    <2> QED  BY <1>1, <2>2 DEF Start, Transfer!Open
  <1>2. CASE StartFails
    <2>1. ~stopping
      BY <1>0, <1>2 DEF StartFails, Situation, Gone
    <2>2. Phase = "idle" /\ Phase' = "closed"
      BY <1>0, <1>2, <2>1, PhaseIs DEF StartFails, Phase
    <2> QED  BY <1>2, <2>2 DEF StartFails, Transfer!Open
  <1>3. CASE \/ FileRewritten \/ WaitForAcks \/ StaleAckTimeout \/ RunsDangling
             \/ AckTimerExpires \/ CompletionTimerExpires
             \/ RateLimitTimerExpires \/ UNCHANGED vars
    <2>1. UNCHANGED <<state, stopping, bytes_transferred, bytes_in_flight>>
      BY <1>3 DEF FileRewritten, WaitForAcks, StaleAckTimeout, RunsDangling,
        AckTimerExpires, CompletionTimerExpires, RateLimitTimerExpires, vars
    <2> QED  BY <2>1, Stutters
  <1>4. CASE Drained
    <2>1. Sending /\ ~stopping  BY <1>0, <1>4, FirstHandler DEF Drained, Runs
    <2>2. Phase = "open"  BY <1>0, <2>1, PhaseIs DEF Sending
    <2>3. state' = "COMPLETED" /\ ~stopping' /\ bytes_in_flight = 0
            /\ UNCHANGED <<bytes_transferred, bytes_in_flight>>
      BY <1>4, <2>1 DEF Drained, Sending, Complete
    <2>4. Phase' = "done"  BY <2>3 DEF Phase
    <2> QED  BY <1>0, <2>2, <2>3, <2>4 DEF Transfer!Finish, TypeOK
  <1>5. CASE SendChunk
    <2>1. state = "IN_PROGRESS" /\ ~stopping
      BY <1>5 DEF SendChunk, Runs, SourceDone
    <2>2. Phase = "open" /\ Phase' = "open"
      BY <1>0, <1>5, <2>1, PhaseIs DEF SendChunk, Phase
    <2>3. bytes_in_flight < WindowSize
      BY <1>0, <1>5, DownloadAssumption DEF SendChunk, WindowFull, TypeOK
    <2>4. BytesRead \in Nat /\ BytesRead > 0 /\ BytesRead <= ChunkSize
      BY <1>0, <1>5, BytesReadType DEF SendChunk
    <2>5. bytes_transferred' = bytes_transferred + BytesRead
            /\ bytes_in_flight' = bytes_in_flight + BytesRead
      BY <1>5 DEF SendChunk
    <2>6. Transfer!Send
      BY <1>0, <2>2, <2>3, <2>4, <2>5, DownloadAssumption
      DEF Transfer!Send, TypeOK
    <2> QED  BY <2>6
  <1>6. CASE EmptyRead
    <2>1. state = "IN_PROGRESS" /\ ~stopping /\ ~stopping'
            /\ UNCHANGED <<stopping, bytes_transferred, bytes_in_flight>>
      BY <1>6 DEF EmptyRead, Runs, SourceDone
    <2>2. CASE bytes_in_flight = 0 /\ Complete
      <3>1. Phase = "open" /\ Phase' = "done"
        BY <1>0, <2>1, <2>2, PhaseIs DEF Complete, Phase
      <3> QED  BY <1>0, <2>1, <2>2, <3>1 DEF Transfer!Finish, TypeOK
    <2>3. CASE UNCHANGED state  BY <2>1, <2>3, Stutters
    <2> QED  BY <1>6, <2>2, <2>3 DEF EmptyRead
  <1>7. CASE AckTimeout
    <2>1. Waiting
      BY <1>0, <1>7, FirstHandler DEF AckTimeout, AckTimedOut, Sending,
        Unattended, Closing
    <2> QED  BY <1>0, <1>7, <2>1, StopCloses DEF AckTimeout, Stop, Runs, Waiting
  <1>8. CASE CompletionTimeout
    <2>1. Closing  BY <1>0, <1>8, FirstHandler DEF CompletionTimeout
    <2> QED  BY <1>0, <1>8, <2>1, StopCloses
      DEF CompletionTimeout, Stop, Runs, Closing
  <1>9. CASE ServerStop  BY <1>0, <1>9, StopCloses DEF ServerStop, Stop
  <1>10. ASSUME NEW bytes \in AckBytes, HandleInput(bytes) PROVE Goal
    <2>1. /\ ~stopping /\ state \in {"IN_PROGRESS", "COMPLETED"}
          /\ bytes_in_flight >= Confirmed(bytes)
          /\ bytes_in_flight' = bytes_in_flight - Confirmed(bytes)
          /\ UNCHANGED bytes_transferred
      BY <1>10
      DEF HandleInput, AckCounted, AckResumes, AckAtEnd, LastAck, Acknowledges,
          Stop
    <2>2. Phase \in {"open", "done"}  BY <1>0, <2>1, PhaseIs
    <2>3. /\ Phase' \in {Phase, "done", "closed"}
          /\ Phase' = "done" => bytes_in_flight' = 0 \/ Phase = "done"
      <3>1. CASE AckCounted(bytes) \/ AckResumes(bytes) \/ AckAtEnd(bytes)
        <4>1. Phase' = Phase
          BY <3>1 DEF AckCounted, AckResumes, AckAtEnd, Phase
        <4> QED  BY <4>1
      <3>2. CASE LastAck(bytes)
        <4>1. bytes_in_flight' = 0  BY <3>2 DEF LastAck
        <4>2. stopping' \/ (~stopping' /\ state' = "COMPLETED")
          BY <2>1, <3>2 DEF LastAck, Complete, Stop
        <4>3. stopping' => Phase' = "closed"  BY DEF Phase
        <4>4. ~stopping' /\ state' = "COMPLETED" => Phase' = "done"  BY DEF Phase
        <4> QED  BY <4>1, <4>2, <4>3, <4>4
      <3> QED  BY <1>10, <3>1, <3>2 DEF HandleInput
    <2>4. Phase # "done"
      <3>1. state # "COMPLETED"
        BY <1>0, <2>1, ConfirmedType DEF Situation, Inert, Sending, Delayed,
          Waiting, Unattended, Closing, TypeOK
      <3> QED  BY <1>0, <2>1, <3>1, PhaseIs
    <2>5. Transfer!Ack
      BY <1>0, <2>1, <2>2, <2>3, <2>4, ConfirmedType DEF Transfer!Ack, TypeOK
    <2> QED  BY <2>5
  <1> QED
    BY <1>1, <1>2, <1>3, <1>4, <1>5, <1>6, <1>7, <1>8, <1>9, <1>10
    DEF Next, RunHandler, SendNextChunk

\* The download session implements the windowed transfer.
THEOREM Refinement == Spec => ImplementsTransfer
  <1>1. Init => Transfer!Init
    BY DEF Init, Transfer!Init, Phase
  <1>2. IInv /\ IInv' /\ [Next]_vars => [Transfer!TransferNext]_(Transfer!tvars)
    BY TransferStep
  <1> QED
    BY <1>1, <1>2, Invariance, PTL
    DEF Spec, ImplementsTransfer, Transfer!TransferSpec

-----------------------------------------------------------------------------
(* The whole file                                                          *)

\* A file nobody rewrites keeps the size start() took, and its end is only
\* met when everything was read; what else completes a session is a read that
\* failed.
Whole ==
  /\ state # "IDLE" => state = "FAILED" \/ file_len = file_size
  /\ state = "IDLE" => ~eof
  /\ eof => bytes_transferred >= file_size
  /\ state = "COMPLETED" => bad \/ bytes_transferred >= file_size

LEMMA WholeInit == Init => Whole
  BY DEF Init, Whole

\* The end of the file keeps Whole: a read that returned less than it asked for
\* has reached file_len.
LEMMA WholeStep ==
  ASSUME ~Rewritable, IInv, IInv', Whole, [Next]_vars
  PROVE  Whole'
  <1>0. TypeOK /\ TypeOK' /\ Situation  BY DEF IInv
  <1> USE DEF Whole
  <1>1. CASE Start \/ StartFails
    <2>1. ~eof /\ ~eof' /\ state' \in {"IN_PROGRESS", "FAILED"}
      BY <1>1 DEF Start, StartFails, file
    <2>2. state' = "IN_PROGRESS" => file_len' = file_size'
      BY <1>1 DEF Start, StartFails
    <2> QED  BY <2>1, <2>2
  <1>2. CASE \/ WaitForAcks \/ StaleAckTimeout \/ RunsDangling
             \/ AckTimerExpires \/ CompletionTimerExpires
             \/ RateLimitTimerExpires \/ UNCHANGED vars
    BY <1>2 DEF WaitForAcks, StaleAckTimeout, RunsDangling, AckTimerExpires,
      CompletionTimerExpires, RateLimitTimerExpires, file, vars
  <1>3. CASE Drained
    <2>1. Sending  BY <1>0, <1>3, FirstHandler DEF Drained
    <2>2. state = "IN_PROGRESS" /\ eof  BY <1>3, <2>1 DEF Drained, Sending, SourceDone
    <2>3. state' = "COMPLETED" /\ UNCHANGED <<file, bytes_transferred>>
      BY <1>3, <2>2 DEF Drained, Complete
    <2> QED  BY <2>2, <2>3 DEF file
  <1>4. CASE SendChunk
    <2>1. state = "IN_PROGRESS" /\ UNCHANGED <<state, file_size, file_len, bad>>
      BY <1>4 DEF SendChunk, SourceDone
    <2>2. /\ bytes_transferred' = bytes_transferred + BytesRead
          /\ eof' = (BytesRead < ChunkSize)
      BY <1>4 DEF SendChunk
    <2>3. BytesRead < ChunkSize => bytes_transferred + BytesRead >= file_len
      BY <1>0, DownloadAssumption DEF BytesRead, TypeOK
    <2> QED  BY <2>1, <2>2, <2>3
  <1>5. CASE EmptyRead
    <2>1. state = "IN_PROGRESS" /\ state' \in {"IN_PROGRESS", "COMPLETED"}
            /\ UNCHANGED <<file_size, file_len, bytes_transferred>>
      BY <1>5 DEF EmptyRead, SourceDone, Complete
    <2>2. CASE EndIsRead
      <3>1. bytes_transferred >= file_len
        BY <1>0, <2>2, DownloadAssumption DEF EndIsRead, BytesRead, TypeOK
      <3> QED  BY <2>1, <2>2, <3>1 DEF EndIsRead
    <2>3. CASE ReadIsError  BY <2>1, <2>3 DEF ReadIsError
    <2> QED  BY <1>5, <2>2, <2>3 DEF EmptyRead
  <1>6. CASE AckTimeout \/ CompletionTimeout
    <2>1. state' = "TIMED_OUT" /\ UNCHANGED <<file, bytes_transferred>>
      BY <1>6, FinalStateType DEF AckTimeout, CompletionTimeout, Stop
    <2>2. state \notin {"IDLE", "FAILED"}
      BY <1>0, <1>6, FirstHandler DEF AckTimeout, CompletionTimeout, AckTimedOut,
        Sending, Waiting, Unattended, Closing
    <2> QED  BY <2>1, <2>2 DEF file
  <1>7. CASE ServerStop
    <2>1. /\ state' \in {"COMPLETED", "CANCELLED"}
          /\ state' = "COMPLETED" => bytes_transferred >= file_size
          /\ state \in {"IN_PROGRESS", "COMPLETED"}
          /\ UNCHANGED <<file, bytes_transferred>>
      BY <1>7 DEF ServerStop, Stop, FinalState
    <2> QED  BY <2>1 DEF file
  <1>8. CASE FileRewritten  BY <1>8 DEF FileRewritten
  <1>9. ASSUME NEW bytes \in AckBytes, HandleInput(bytes) PROVE Whole'
    <2>1. state \in {"IN_PROGRESS", "COMPLETED"}
            /\ UNCHANGED <<file, bytes_transferred>>
      BY <1>9 DEF HandleInput, AckCounted, AckResumes, AckAtEnd, LastAck,
        Acknowledges, Stop
    <2>2. state' # "IDLE" /\ (state' = "COMPLETED" =>
            state = "COMPLETED" \/ bytes_transferred >= file_size)
      BY <1>9, <2>1, FinalStateType DEF HandleInput, AckCounted, AckResumes,
        AckAtEnd, LastAck, Complete, Stop
    <2> QED  BY <2>1, <2>2 DEF file
  <1> QED
    BY <1>1, <1>2, <1>3, <1>4, <1>5, <1>6, <1>7, <1>8, <1>9
    DEF Next, RunHandler, SendNextChunk

\* A transfer is complete only when the whole file was sent, unless another
\* request may rewrite the file or a read of it has failed, which send_next_chunk()
\* takes for the end: COMPLETED in STEPS 3 and 16, in on_chunk_acknowledged()
\* and in stop().
THEOREM CompleteIsWhole == Spec => []CompletedIsWhole
  <1>1. CASE Rewritable  BY <1>1, PTL DEF CompletedIsWhole
  <1>2. CASE ~Rewritable
    <2>1. IInv /\ IInv' /\ Whole /\ [Next]_vars => Whole'  BY <1>2, WholeStep
    <2>2. Whole => CompletedIsWhole  BY DEF Whole, CompletedIsWhole
    <2> QED  BY <2>1, <2>2, WholeInit, Invariance, PTL DEF Spec
  <1> QED  BY <1>1, <1>2
===============================================================================
