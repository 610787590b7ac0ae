-------------------------- MODULE CommandStreamProofs --------------------------
(***************************************************************************)
(* One loop at a time writes the input of a command stream, it is at work  *)
(* as long as there is input the command can take, and the exit frame is   *)
(* the last frame of the stream.  stdin_writing_ is the lock of the loop   *)
(* (Serial); the loop leaves input behind only when one side of the pipe   *)
(* was closed, which is for good (Written); a read loop that has ended     *)
(* does not begin again (Fresh, Ended).                                    *)
(***************************************************************************)
EXTENDS CommandStream, TLAPS

\* stdin_writing_ is set exactly while a loop has a write pending.
Serial == stdin_writes = IF stdin_writing THEN 1 ELSE 0

\* A loop that ended left nothing the command can take.
Written == stdin_queue > 0 /\ stdin_open /\ takes_input => stdin_writing

\* Nothing happened before start().
Fresh ==
  session \in {"new", "failed"} =>
    /\ reading = {} /\ ~run_done /\ frames = "none"
    /\ stdin_queue = 0 /\ ~stdin_writing /\ ~takes_input

\* The exit frame is sent when run() ends, after both of its read loops.
Ended ==
  /\ run_done => reading = {}
  /\ frames = "exit" => run_done

IInv == TypeOK /\ Serial /\ Written /\ Fresh /\ Ended

\* The states of the session and of its parts are told apart by their names.
LEMMA Names ==
  /\ "new" # "failed" /\ "new" # "started" /\ "new" # "destroyed"
  /\ "failed" # "started" /\ "failed" # "destroyed" /\ "started" # "destroyed"
  /\ "none" # "output" /\ "none" # "exit" /\ "output" # "exit"
  /\ "none" # "running" /\ "none" # "exited" /\ "running" # "exited"
  /\ "armed" # "expired" /\ "armed" # "cancelled" /\ "expired" # "cancelled"
  OBVIOUS

LEMMA InitInv == Init => IInv
  <1> SUFFICES ASSUME Init PROVE IInv  OBVIOUS
  <1> USE Names, CommandStreamAssumption
  <1>1. TypeOK
    <2>1. 0 \in 0..MaxInput /\ 0 \in Nat
      OBVIOUS
    <2> QED  BY <2>1 DEF Init, TypeOK, Streams
  <1>2. Serial /\ Written /\ Fresh /\ Ended
    BY DEF Init, Serial, Written, Fresh, Ended
  <1> QED  BY <1>1, <1>2 DEF IInv

-----------------------------------------------------------------------------
(* The steps                                                               *)

\* The command may close its end of the pipes and never opens one.
LEMMA CommandInv == ASSUME IInv, Command PROVE IInv'
  <1> USE Names DEF IInv, pipes, output, flags, input
  <1>1. /\ process' \in {process, "exited"} /\ descendant' \in BOOLEAN
        /\ takes_input' \in BOOLEAN
        /\ takes_input' => takes_input
        /\ UNCHANGED <<session, pipes, output, flags, input, timer>>
    <2>1. CASE CommandForks
      BY <2>1 DEF CommandForks, TypeOK
    <2>2. CASE CommandClosesStdin
      BY <2>2 DEF CommandClosesStdin, TypeOK
    <2>3. CASE CommandExits
      BY <2>3 DEF CommandExits, TypeOK
    <2>4. CASE DescendantExits
      BY <2>4 DEF DescendantExits, TypeOK
    <2> QED  BY <2>1, <2>2, <2>3, <2>4 DEF Command
  <1>2. TypeOK'
    BY <1>1 DEF TypeOK
  <1>3. Serial' /\ Written' /\ Fresh' /\ Ended'
    BY <1>1 DEF Serial, Written, Fresh, Ended
  <1> QED  BY <1>2, <1>3

\* What Terminate does, whether the process had ended or not.
LEMMA TerminateShape ==
  ASSUME TypeOK, Terminate
  PROVE  /\ process' \in {process, "exited"}
         /\ takes_input' \in BOOLEAN
         /\ takes_input' => takes_input
  BY DEF Terminate, TypeOK

LEMMA StartInv == ASSUME IInv, Start \/ StartFails PROVE IInv'
  <1> USE Names DEF IInv, pipes, output, flags, input, command
  <1>1. CASE Start
    <2>1. TypeOK'
      BY <1>1 DEF Start, TypeOK
    <2>2. Serial' /\ Written' /\ Fresh' /\ Ended'
      BY <1>1 DEF Start, Serial, Written, Fresh, Ended
    <2> QED  BY <2>1, <2>2
  <1>2. CASE StartFails
    <2>1. TypeOK'
      BY <1>2 DEF StartFails, TypeOK
    <2>2. Serial' /\ Written' /\ Fresh' /\ Ended'
      BY <1>2 DEF StartFails, Serial, Written, Fresh, Ended
    <2> QED  BY <2>1, <2>2
  <1> QED  BY <1>1, <1>2

\* stop() closes the pipe on our side, so what is queued need not be written.
LEMMA StopInv == ASSUME IInv, Stop PROVE IInv'
  <1> USE Names DEF IInv, output, input
  <1>1. /\ process' \in {process, "exited"}
        /\ takes_input' \in BOOLEAN
        /\ takes_input' => takes_input
    BY TerminateShape DEF Stop
  <1>2. /\ stdin_open' = FALSE /\ open' = {}
        /\ timer' \in {timer, "cancelled"}
        /\ stopped_externally' = TRUE /\ session = "started"
        /\ UNCHANGED <<session, descendant, output, finished, timed_out,
                       run_done, input>>
    BY DEF Stop, Started, ClosePipes, CancelTimer
  <1>3. TypeOK'
    BY <1>1, <1>2 DEF TypeOK
  <1>4. Serial' /\ Written' /\ Fresh' /\ Ended'
    BY <1>2 DEF Serial, Written, Fresh, Ended
  <1> QED  BY <1>3, <1>4

\* A loop that takes the next message counts for one; one that finds none, or
\* the pipe closed, leaves nothing to write.
LEMMA NextWriteShape ==
  ASSUME TypeOK, NEW n \in 0..MaxInput, NextWrite(n, 0)
  PROVE  /\ stdin_queue' \in 0..MaxInput
         /\ stdin_writing' \in BOOLEAN /\ stdin_writes' \in Nat
         /\ stdin_writes' = IF stdin_writing' THEN 1 ELSE 0
         /\ stdin_queue' > 0 /\ stdin_open => stdin_writing'
  <1> USE CommandStreamAssumption
  <1>1. CASE n > 0 /\ stdin_open
    BY <1>1 DEF NextWrite
  <1>2. CASE ~(n > 0 /\ stdin_open)
    <2>1. stdin_queue' = n /\ stdin_writing' = FALSE /\ stdin_writes' = 0
      BY <1>2 DEF NextWrite
    <2> QED  BY <1>2, <2>1 DEF TypeOK
  <1> QED  BY <1>1, <1>2

\* Input spawns a loop only when none is at work.
LEMMA HandleInputInv == ASSUME IInv, HandleInput PROVE IInv'
  <1> USE Names, CommandStreamAssumption
        DEF IInv, pipes, output, flags, command
  <1>1. /\ stdin_queue + 1 \in 0..MaxInput
        /\ session = "started" /\ stdin_open
        /\ UNCHANGED <<session, command, pipes, output, flags, timer>>
    BY DEF HandleInput, Started, TypeOK
  <1>2. /\ stdin_queue' \in 0..MaxInput
        /\ stdin_writing' \in BOOLEAN /\ stdin_writes' \in Nat
        /\ Serial' /\ Written'
    <2>1. CASE ~stdin_writing
      <3>1. NextWrite(stdin_queue + 1, 0)
        BY <2>1 DEF HandleInput, Spawns, Serial
      <3> QED  BY <1>1, <3>1, NextWriteShape DEF Serial, Written
    <2>2. CASE stdin_writing
      BY <1>1, <2>2 DEF HandleInput, Spawns, Serial, Written, TypeOK
    <2> QED  BY <2>1, <2>2
  <1>3. TypeOK'
    BY <1>1, <1>2 DEF TypeOK
  <1>4. Fresh' /\ Ended'
    BY <1>1 DEF Fresh, Ended
  <1> QED  BY <1>2, <1>3, <1>4

\* The one write that is pending ends.
LEMMA WriteInv == ASSUME IInv, StdinWritten \/ StdinFails PROVE IInv'
  <1> USE Names, CommandStreamAssumption
        DEF IInv, pipes, output, flags, command
  <1>1. /\ stdin_writes = 1 /\ stdin_writing
        /\ session \notin {"new", "failed"}
        /\ UNCHANGED <<session, command, pipes, output, flags, timer>>
    BY DEF StdinWritten, StdinFails, Serial, Fresh, TypeOK
  <1>2. /\ stdin_queue' \in 0..MaxInput
        /\ stdin_writing' \in BOOLEAN /\ stdin_writes' \in Nat
        /\ Serial' /\ Written'
    <2>1. CASE StdinWritten
      <3>1. NextWrite(stdin_queue, 0) /\ stdin_queue \in 0..MaxInput
        BY <1>1, <2>1 DEF StdinWritten, TypeOK
      <3> QED  BY <1>1, <3>1, NextWriteShape DEF Serial, Written
    <2>2. CASE StdinFails
      <3>1. /\ stdin_queue' = stdin_queue
            /\ stdin_writing' = FALSE /\ stdin_writes' = 0
            /\ ~stdin_open \/ ~takes_input
        BY <1>1, <2>2 DEF StdinFails, TypeOK
      <3> QED  BY <1>1, <3>1 DEF Serial, Written, TypeOK
    <2> QED  BY <2>1, <2>2
  <1>3. TypeOK'
    BY <1>1, <1>2 DEF TypeOK
  <1>4. Fresh' /\ Ended'
    BY <1>1 DEF Fresh, Ended
  <1> QED  BY <1>2, <1>3, <1>4

\* A frame of output needs a read loop, so run() has not ended.
LEMMA ReadInv ==
  ASSUME IInv, NEW s \in Streams, SendOutput(s) \/ ReadEnds(s) PROVE IInv'
  <1> USE Names DEF IInv, pipes, flags, input, command
  <1>1. /\ s \in reading /\ ~run_done /\ session \notin {"new", "failed"}
        /\ UNCHANGED <<session, command, pipes, flags, input, timer>>
    BY DEF SendOutput, ReadEnds, Ended, Fresh
  <1>2. reading' \subseteq reading /\ frames' \in {frames, "output"}
    BY DEF SendOutput, ReadEnds
  <1>3. TypeOK'
    BY <1>1, <1>2 DEF TypeOK
  <1>4. Serial' /\ Written' /\ Fresh' /\ Ended'
    BY <1>1, <1>2 DEF Serial, Written, Fresh, Ended
  <1> QED  BY <1>3, <1>4

LEMMA RunInv ==
  ASSUME IInv, ProcessReaped \/ SendExit \/ Destroyed PROVE IInv'
  <1> USE Names DEF IInv, pipes, output, flags, input, command
  <1>1. CASE ProcessReaped
    <2>1. TypeOK'
      BY <1>1 DEF ProcessReaped, TypeOK
    <2>2. Serial' /\ Written' /\ Fresh' /\ Ended'
      BY <1>1 DEF ProcessReaped, Serial, Written, Fresh, Ended
    <2> QED  BY <2>1, <2>2
  <1>2. CASE SendExit
    <2>1. timer' \in {timer, "cancelled"} /\ reading = {} /\ session = "started"
      BY <1>2 DEF SendExit, CancelTimer, AllDone, Started
    <2>2. TypeOK'
      BY <1>2, <2>1 DEF SendExit, TypeOK
    <2>3. Serial' /\ Written' /\ Fresh' /\ Ended'
      BY <1>2, <2>1 DEF SendExit, Serial, Written, Fresh, Ended
    <2> QED  BY <2>2, <2>3
  <1>3. CASE Destroyed
    <2>1. TypeOK'
      BY <1>3 DEF Destroyed, TypeOK
    <2>2. Serial' /\ Written' /\ Fresh' /\ Ended'
      BY <1>3 DEF Destroyed, Serial, Written, Fresh, Ended
    <2> QED  BY <2>1, <2>2
  <1> QED  BY <1>1, <1>2, <1>3

LEMMA TimerInv == ASSUME IInv, TimerExpires \/ TimerHandled PROVE IInv'
  <1> USE Names DEF IInv, pipes, output, flags, input, command
  <1>1. /\ process' \in {process, "exited"} /\ timer' \in {"expired", "done"}
        /\ takes_input' \in BOOLEAN
        /\ takes_input' => takes_input
        /\ timed_out' \in BOOLEAN
        /\ UNCHANGED <<session, descendant, pipes, output, finished,
                       stopped_externally, run_done, input>>
    BY TerminateShape DEF TimerExpires, TimerHandled, TypeOK
  <1>2. TypeOK'
    BY <1>1 DEF TypeOK
  <1>3. Serial' /\ Written' /\ Fresh' /\ Ended'
    BY <1>1 DEF Serial, Written, Fresh, Ended
  <1> QED  BY <1>2, <1>3

LEMMA StepInv == IInv /\ [Next]_vars => IInv'
  <1> SUFFICES ASSUME IInv, [Next]_vars PROVE IInv'  OBVIOUS
  <1>1. CASE Command
    BY <1>1, CommandInv
  <1>2. CASE Start \/ StartFails
    BY <1>2, StartInv
  <1>3. CASE Stop
    BY <1>3, StopInv
  <1>4. CASE HandleInput
    BY <1>4, HandleInputInv
  <1>5. CASE StdinWritten \/ StdinFails
    BY <1>5, WriteInv
  <1>6. ASSUME NEW s \in Streams, SendOutput(s) \/ ReadEnds(s) PROVE IInv'
    BY <1>6, ReadInv
  <1>7. CASE ProcessReaped \/ SendExit \/ Destroyed
    BY <1>7, RunInv
  <1>8. CASE TimerExpires \/ TimerHandled
    BY <1>8, TimerInv
  <1>9. CASE UNCHANGED vars
    BY <1>9 DEF vars, command, pipes, output, flags, input, IInv, TypeOK,
      Serial, Written, Fresh, Ended
  <1> QED  BY <1>1, <1>2, <1>3, <1>4, <1>5, <1>6, <1>7, <1>8, <1>9
           DEF Next, Coroutines

-----------------------------------------------------------------------------
(* The theorems                                                            *)

\* The inductive invariant of a command stream session.
THEOREM Invariance == Spec => []IInv
  BY InitInv, StepInv, PTL DEF Spec

\* The fields of cmd_stream_session stay in their types: in particular no
\* counter of writes goes below zero.
THEOREM TypeCorrect == Spec => []TypeOK
  <1>1. IInv => TypeOK
    BY DEF IInv
  <1> QED  BY <1>1, Invariance, PTL

\* handle_input() and stdin_write_loop(): one write at a time, and a loop at
\* work while there is input that the command can still take.
THEOREM InputWritten == Spec => []InputIsWritten
  <1>1. IInv => InputIsWritten
    BY DEF IInv, Serial, Written, InputIsWritten
  <1> QED  BY <1>1, Invariance, PTL

\* run() sends the exit frame after both read loops, and only they send
\* output: nothing follows the exit frame.
THEOREM ExitIsLast == Spec => ExitFrameIsLast
  <1>1. IInv /\ [Next]_vars => [frames = "exit" => frames' = "exit"]_vars
    <2> SUFFICES ASSUME IInv, Next, frames = "exit" PROVE frames' = "exit"
      OBVIOUS
    <2>1. reading = {} /\ run_done /\ session \notin {"new", "failed"}
      BY Names DEF IInv, Ended, Fresh
    <2>2. ~Start
      BY <2>1 DEF Start
    <2>3. \A s \in Streams : ~SendOutput(s)
      BY <2>1 DEF SendOutput
    <2> QED
      BY <2>1, <2>2, <2>3 DEF Next, Command, CommandForks, CommandClosesStdin,
        CommandExits, DescendantExits, StartFails, Stop, HandleInput,
        StdinWritten, StdinFails, ReadEnds, ProcessReaped, SendExit,
        TimerHandled, TimerExpires, Destroyed, Coroutines, output
  <1> QED  BY <1>1, Invariance, PTL DEF Spec, ExitFrameIsLast
================================================================================
