----------------------------- MODULE CommandStream -----------------------------
(***************************************************************************)
(* One cmd_stream_session: a shell command whose stdin comes from the      *)
(* stream and whose output goes to it, closed by one exit frame.  Its      *)
(* coroutines are run(), which reads stdout and stderr and waits for the   *)
(* process, stdin_write_loop() and watch_timeout(); each keeps the session *)
(* alive, which is destroyed when the last of them ends.                   *)
(*                                                                         *)
(* Everything runs on the io_context thread but the command, which is      *)
(* external.  Output is abstracted to the frames it is sent in.            *)
(***************************************************************************)
EXTENDS Integers

CONSTANTS
  MaxInput,    \* bound on the messages in stdin_queue_
  HasTimeout   \* TRUE iff timeout_seconds_ > 0

ASSUME CommandStreamAssumption ==
  /\ MaxInput \in Nat \ {0}
  /\ HasTimeout \in BOOLEAN

Streams == {"stdout", "stderr"}

VARIABLES
  session,             \* "new", "failed", "started" or "destroyed"
  process,             \* "none", "running" or "exited"
  descendant,          \* something it started holds its stdout and stderr
  takes_input,         \* the command has its end of the stdin pipe open
  stdin_open,          \* stdin_pipe_.is_open()
  open,                \* stdout_pipe_ and stderr_pipe_ that are open
  reading,             \* streams whose read loop has not ended
  finished,            \* finished_
  stopped_externally,  \* stopped_externally_
  timed_out,           \* timed_out_
  run_done,            \* run() has ended
  stdin_queue,         \* number of messages in stdin_queue_
  stdin_writing,       \* stdin_writing_
  stdin_writes,        \* writes of stdin_write_loop() that are pending
  timer,               \* "off", "armed", "cancelled", "expired" or "done"
  frames               \* the frames sent: "none", "output" or "exit" the last

input   == <<stdin_queue, stdin_writing, stdin_writes>>
output  == <<reading, frames>>
flags   == <<finished, stopped_externally, timed_out, run_done>>
pipes   == <<stdin_open, open>>
command == <<process, descendant, takes_input>>
vars == <<session, command, pipes, output, flags, input, timer>>

Init ==
  /\ session = "new"
  /\ process = "none"
  /\ descendant = FALSE
  /\ takes_input = FALSE
  /\ stdin_open = TRUE
  /\ open = Streams
  /\ reading = {}
  /\ finished = FALSE
  /\ stopped_externally = FALSE
  /\ timed_out = FALSE
  /\ run_done = FALSE
  /\ stdin_queue = 0
  /\ stdin_writing = FALSE
  /\ stdin_writes = 0
  /\ timer = "off"
  /\ frames = "none"

Started == session = "started"

-----------------------------------------------------------------------------
(* The command                                                             *)

CommandForks ==
  /\ process = "running"
  /\ descendant' = TRUE
  /\ UNCHANGED <<session, process, takes_input, pipes, output, flags, input,
                 timer>>

CommandClosesStdin ==
  /\ takes_input
  /\ takes_input' = FALSE
  /\ UNCHANGED <<session, process, descendant, pipes, output, flags, input,
                 timer>>

CommandExits ==
  /\ process = "running"
  /\ process' = "exited"
  /\ takes_input' = FALSE
  /\ UNCHANGED <<session, descendant, pipes, output, flags, input, timer>>

DescendantExits ==
  /\ descendant
  /\ descendant' = FALSE
  /\ UNCHANGED <<session, process, takes_input, pipes, output, flags, input,
                 timer>>

-----------------------------------------------------------------------------
(* start() and stop()                                                      *)

Start ==
  /\ session = "new"
  /\ session' = "started"
  /\ process' = "running"
  /\ takes_input' = TRUE
  /\ reading' = Streams
  /\ timer' = IF HasTimeout THEN "armed" ELSE "off"
  /\ UNCHANGED <<descendant, pipes, frames, flags, input>>

\* No command, or it cannot be launched.
StartFails ==
  /\ session = "new"
  /\ session' = "failed"
  /\ UNCHANGED <<command, pipes, output, flags, input, timer>>

\* process_->terminate(): only the shell is killed.
Terminate ==
  IF ~finished THEN process' = "exited" /\ takes_input' = FALSE
  ELSE UNCHANGED <<process, takes_input>>

\* stop() ends the pending reads, writes and the wait of the timer.
CloseStdin == stdin_open' = FALSE /\ UNCHANGED open
ClosePipes == stdin_open' = FALSE /\ open' = {}
CancelTimer == timer' = IF timer = "armed" THEN "cancelled" ELSE timer

Stop ==
  /\ Started
  /\ stopped_externally' = TRUE
  /\ Terminate
  /\ ClosePipes
  /\ CancelTimer
  /\ UNCHANGED <<session, descendant, output, finished, timed_out, run_done,
                 input>>

-----------------------------------------------------------------------------
(* handle_input() and stdin_write_loop()                                   *)

\* A write loop that has n messages and w other loops beside it takes the
\* next message, or ends.
NextWrite(n, w) ==
  IF n > 0 /\ stdin_open
  THEN stdin_queue' = n - 1 /\ stdin_writing' = TRUE /\ stdin_writes' = w + 1
  ELSE stdin_queue' = n /\ stdin_writing' = FALSE /\ stdin_writes' = w

\* Data from the server: the write loop is spawned unless it is at work.
SpawnsAlways == TRUE
Spawns == ~stdin_writing

HandleInput ==
  /\ Started
  /\ ~finished /\ stdin_open
  /\ stdin_queue < MaxInput
  /\ IF Spawns THEN NextWrite(stdin_queue + 1, stdin_writes)
     ELSE /\ stdin_queue' = stdin_queue + 1
          /\ UNCHANGED <<stdin_writing, stdin_writes>>
  /\ UNCHANGED <<session, command, pipes, output, flags, timer>>

\* A write completed.
StdinWritten ==
  /\ stdin_writes > 0
  /\ NextWrite(stdin_queue, stdin_writes - 1)
  /\ UNCHANGED <<session, command, pipes, output, flags, timer>>

\* A write failed, the pipe was closed on one side: what is queued stays.
StdinFails ==
  /\ stdin_writes > 0
  /\ ~stdin_open \/ ~takes_input
  /\ stdin_writing' = FALSE
  /\ stdin_writes' = stdin_writes - 1
  /\ UNCHANGED <<session, command, pipes, output, flags, stdin_queue, timer>>

-----------------------------------------------------------------------------
(* run(): read_stdout() && read_stderr() && wait_process()                 *)

\* A read completed with data: it is sent in a frame.
SendOutput(s) ==
  /\ s \in reading
  /\ s \in open
  /\ process # "none"
  /\ frames' = "output"
  /\ UNCHANGED <<session, command, pipes, reading, flags, input, timer>>

\* End of file, or stop() closed the pipe.
ReadEnds(s) ==
  /\ s \in reading
  /\ s \notin open \/ (process = "exited" /\ ~descendant)
  /\ reading' = reading \ {s}
  /\ UNCHANGED <<session, command, pipes, frames, flags, input, timer>>

\* wait_process().
ProcessReaped ==
  /\ process = "exited"
  /\ ~finished
  /\ finished' = TRUE
  /\ UNCHANGED <<session, command, pipes, output, stopped_externally, timed_out,
                 run_done, input, timer>>

\* All three are done.
Reaped == finished
AllDone == reading = {} /\ finished

\* The exit frame ends the stream.
SendExit ==
  /\ Started
  /\ AllDone
  /\ ~run_done
  /\ run_done' = TRUE
  /\ CancelTimer
  /\ frames' = "exit"
  /\ UNCHANGED <<session, command, pipes, reading, finished, stopped_externally,
                 timed_out, input>>

-----------------------------------------------------------------------------
(* watch_timeout() and the end of the session                              *)

TimerExpires ==
  /\ timer = "armed"
  /\ timer' = "expired"
  /\ UNCHANGED <<session, command, pipes, output, flags, input>>

\* watch_timeout() resumes.
TimerHandled ==
  /\ timer \in {"expired", "cancelled"}
  /\ timer' = "done"
  /\ IF timer = "expired" /\ ~finished
     THEN timed_out' = TRUE /\ Terminate
     ELSE UNCHANGED <<timed_out, process, takes_input>>
  /\ UNCHANGED <<session, descendant, pipes, output, finished,
                 stopped_externally, run_done, input>>

\* The last coroutine ended.
Destroyed ==
  /\ Started
  /\ run_done
  /\ stdin_writes = 0
  /\ timer \in {"off", "done"}
  /\ session' = "destroyed"
  /\ UNCHANGED <<command, pipes, output, flags, input, timer>>

Command ==
  CommandForks \/ CommandClosesStdin \/ CommandExits \/ DescendantExits

Coroutines ==
  \/ StdinWritten \/ StdinFails
  \/ \E s \in Streams : ReadEnds(s)
  \/ ProcessReaped \/ SendExit \/ TimerHandled \/ Destroyed

Next ==
  \/ Command
  \/ Start \/ StartFails \/ Stop \/ HandleInput
  \/ \E s \in Streams : SendOutput(s)
  \/ Coroutines
  \/ TimerExpires

Spec == Init /\ [][Next]_vars

\* A coroutine that can resume does; the timer expires.  The command may run,
\* and hold its stdin, as long as it likes.
FairSpec ==
  /\ Spec
  /\ WF_vars(TimerExpires)
  /\ WF_vars(StdinFails)
  /\ \A s \in Streams : WF_vars(ReadEnds(s))
  /\ WF_vars(ProcessReaped)
  /\ WF_vars(SendExit)
  /\ WF_vars(TimerHandled)
  /\ WF_vars(Destroyed)

-----------------------------------------------------------------------------
(* Properties                                                              *)

TypeOK ==
  /\ session \in {"new", "failed", "started", "destroyed"}
  /\ process \in {"none", "running", "exited"}
  /\ descendant \in BOOLEAN
  /\ takes_input \in BOOLEAN
  /\ stdin_open \in BOOLEAN
  /\ open \subseteq Streams
  /\ reading \subseteq Streams
  /\ finished \in BOOLEAN
  /\ stopped_externally \in BOOLEAN
  /\ timed_out \in BOOLEAN
  /\ run_done \in BOOLEAN
  /\ stdin_queue \in 0..MaxInput
  /\ stdin_writing \in BOOLEAN
  /\ stdin_writes \in Nat
  /\ timer \in {"off", "armed", "cancelled", "expired", "done"}
  /\ frames \in {"none", "output", "exit"}

\* The exit frame is the last of the stream: no output follows it.
ExitFrameIsLast == [][frames = "exit" => frames' = "exit"]_vars

\* Input is written in its order by one loop, and never left in the queue
\* while the command can still take it.
InputIsWritten ==
  /\ stdin_writes <= 1
  /\ stdin_queue > 0 /\ stdin_open /\ takes_input => stdin_writes = 1

\* A session the server stopped is destroyed, whatever its command left running,
\* and one that timed out is when its command leaves nothing behind: stop()
\* closes the pipes, watch_timeout() only kills the command.
SessionIsReleased ==
  /\ (stopped_externally) ~> (session = "destroyed")
  /\ (timed_out /\ ~descendant) ~> (session = "destroyed" \/ descendant)

-----------------------------------------------------------------------------
(* What the code does not guarantee                                        *)

\* run() sends the exit frame unless the server requested the stop itself.
NoExitAfterStop ==
  [][stopped_externally /\ frames # "exit" => frames' # "exit"]_vars
===============================================================================
