------------------------------ MODULE CommandExec ------------------------------
(***************************************************************************)
(* cmd::exec(): a command is launched with pipes on its standard streams,  *)
(* its stdin is written, then an io_context of its own runs until stdout   *)
(* and stderr are drained and the process is reaped, or a timeout ended it.*)
(*                                                                         *)
(* The command and what it leaves running are external: they read, write,  *)
(* fork and exit as they like.  Pipes hold a bounded number of units.      *)
(***************************************************************************)
EXTENDS Integers

CONSTANTS
  Stdin,       \* bound on the units of stdin_data
  PipeSize,    \* units a pipe of the system holds
  MaxOutput    \* bound on the units the command writes to each stream

ASSUME CommandExecAssumption ==
  /\ Stdin \in Nat
  /\ PipeSize \in Nat \ {0}
  /\ MaxOutput \in Nat

Streams == {"stdout", "stderr"}

VARIABLES
  has_timeout, \* timeout_seconds > 0
  phase,       \* what exec() is doing
  to_write,    \* units of stdin not written yet
  in_pipe,     \* units in the stdin pipe
  command,     \* the process: "none", "running", "exited" or "reaped"
  descendant,  \* something the command started holds its streams
  produced,    \* units written to each stream
  pout,        \* units read from each stream
  open,        \* our ends of the stdout and stderr pipes
  drained,     \* streams whose last read completed with an error
  pending,     \* pending
  timer,       \* "off", "armed", or "expired" with its handler queued
  timed_out    \* *timed_out

process == <<command, descendant, produced>>
loop    == <<pout, open, drained, pending, timer, timed_out>>
vars == <<has_timeout, phase, to_write, in_pipe, process, loop>>

Init ==
  /\ has_timeout \in BOOLEAN
  /\ phase = "start"
  /\ to_write \in 0..Stdin
  /\ in_pipe = 0
  /\ command = "none"
  /\ descendant = FALSE
  /\ produced = [s \in Streams |-> 0]
  /\ pout = [s \in Streams |-> 0]
  /\ open = Streams
  /\ drained = {}
  /\ pending = 3
  /\ timer = "off"
  /\ timed_out = FALSE

-----------------------------------------------------------------------------
(* The command                                                             *)

\* The command or a descendant holds the other ends of the pipes.
HasHolder == command = "running" \/ descendant

Buffered(s) == produced[s] - pout[s]

CommandReads ==
  /\ HasHolder
  /\ in_pipe > 0
  /\ in_pipe' = in_pipe - 1
  /\ UNCHANGED <<phase, to_write, process, loop>>

CommandWrites(s) ==
  /\ HasHolder
  /\ s \in open
  /\ Buffered(s) < PipeSize
  /\ produced[s] < MaxOutput
  /\ produced' = [produced EXCEPT ![s] = @ + 1]
  /\ UNCHANGED <<phase, to_write, in_pipe, command, descendant, loop>>

CommandForks ==
  /\ command = "running"
  /\ descendant' = TRUE
  /\ UNCHANGED <<phase, to_write, in_pipe, command, produced, loop>>

CommandExits ==
  /\ command = "running"
  /\ command' = "exited"
  /\ UNCHANGED <<phase, to_write, in_pipe, descendant, produced, loop>>

DescendantExits ==
  /\ descendant
  /\ descendant' = FALSE
  /\ UNCHANGED <<phase, to_write, in_pipe, command, produced, loop>>

-----------------------------------------------------------------------------
(* exec()                                                                  *)

\* The pipes and the process are created.
Launch ==
  /\ phase = "start"
  /\ phase' = "writing"
  /\ command' = "running"
  /\ UNCHANGED <<to_write, in_pipe, descendant, produced, loop>>

\* No pipe or no process: EXIT_FAILURE.
LaunchFails ==
  /\ phase = "start"
  /\ phase' = "returned"
  /\ UNCHANGED <<to_write, in_pipe, process, loop>>

\* The synchronous write of stdin_data, which blocks on a full pipe.
WriteStdin ==
  /\ phase = "writing"
  /\ to_write > 0
  /\ HasHolder => in_pipe < PipeSize
  /\ IF HasHolder
     THEN to_write' = to_write - 1 /\ in_pipe' = in_pipe + 1
     ELSE to_write' = 0 /\ in_pipe' = 0
  /\ UNCHANGED <<phase, process, loop>>

\* stdin is closed; reads, timeout and wait are started.
EnterLoop ==
  /\ phase = "writing"
  /\ to_write = 0
  /\ phase' = "looping"
  /\ timer' = IF has_timeout THEN "armed" ELSE "off"
  /\ UNCHANGED <<to_write, in_pipe, process, pout, open, drained, pending,
                 timed_out>>

\* on_pending_done(): the last of the three completions cancels the timer.
PendingDone ==
  /\ pending' = pending - 1
  /\ timer' = IF pending' = 0 /\ timer = "armed" THEN "off" ELSE timer

\* on_stdout, on_stderr: a read completed with data.
ReadOutput(s) ==
  /\ phase = "looping"
  /\ s \in open \ drained
  /\ Buffered(s) > 0
  /\ pout' = [pout EXCEPT ![s] = produced[s]]
  /\ UNCHANGED <<phase, to_write, in_pipe, process, open, drained, pending,
                 timer, timed_out>>

\* on_stdout, on_stderr: end of file, or the pipe was closed by the timeout.
EndOfUndrained(s) == ~HasHolder
EndOf(s) == s \notin open \/ (~HasHolder /\ Buffered(s) = 0)

OutputEnds(s) ==
  /\ phase = "looping"
  /\ s \notin drained
  /\ EndOf(s)
  /\ drained' = drained \cup {s}
  /\ PendingDone
  /\ UNCHANGED <<phase, to_write, in_pipe, process, pout, open, timed_out>>

\* The handler of proc.async_wait.
Reaped ==
  /\ phase = "looping"
  /\ command = "exited"
  /\ command' = "reaped"
  /\ PendingDone
  /\ UNCHANGED <<phase, to_write, in_pipe, descendant, produced, pout, open,
                 drained, timed_out>>

TimerExpires ==
  /\ timer = "armed"
  /\ timer' = "expired"
  /\ UNCHANGED <<phase, to_write, in_pipe, process, pout, open, drained, pending,
                 timed_out>>

\* The handler of the timer: the command is killed, our ends are closed.
KillOnly ==
  /\ command' = IF command = "running" THEN "exited" ELSE command
  /\ UNCHANGED open
KillAndClose ==
  /\ command' = IF command = "running" THEN "exited" ELSE command
  /\ open' = {}

Timeout ==
  /\ timer = "expired"
  /\ timer' = "off"
  /\ timed_out' = TRUE
  /\ KillAndClose
  /\ UNCHANGED <<phase, to_write, in_pipe, descendant, produced, pout, drained,
                 pending>>

\* The io_context has no work left.
Return ==
  /\ phase = "looping"
  /\ pending = 0
  /\ timer = "off"
  /\ phase' = "returned"
  /\ UNCHANGED <<to_write, in_pipe, process, loop>>

Command ==
  \/ CommandReads \/ CommandForks \/ CommandExits \/ DescendantExits
  \/ \E s \in Streams : CommandWrites(s)

Exec ==
  \/ Launch \/ LaunchFails \/ WriteStdin \/ EnterLoop
  \/ \E s \in Streams : ReadOutput(s) \/ OutputEnds(s)
  \/ Reaped \/ Timeout \/ Return

Next == (Command \/ Exec \/ TimerExpires) /\ UNCHANGED has_timeout

Spec == Init /\ [][Next]_vars

\* exec() runs as long as it is not blocked and its timer expires; nothing is
\* assumed of the command.
FairSpec ==
  /\ Spec
  /\ WF_vars(Exec /\ UNCHANGED has_timeout)
  /\ WF_vars(TimerExpires /\ UNCHANGED has_timeout)

-----------------------------------------------------------------------------
(* Properties                                                              *)

TypeOK ==
  /\ has_timeout \in BOOLEAN
  /\ phase \in {"start", "writing", "looping", "returned"}
  /\ to_write \in 0..Stdin
  /\ in_pipe \in 0..PipeSize
  /\ command \in {"none", "running", "exited", "reaped"}
  /\ descendant \in BOOLEAN
  /\ produced \in [Streams -> Nat]
  /\ pout \in [Streams -> Nat]
  /\ open \subseteq Streams
  /\ drained \subseteq Streams
  /\ pending \in 0..3
  /\ timer \in {"off", "armed", "expired"}
  /\ timed_out \in BOOLEAN

\* Unless it timed out, exec() returns everything that was written to stdout
\* and stderr, however the end of the command, the ends of the two streams and
\* the reads interleave.
OutputIsComplete ==
  phase = "returned" /\ ~timed_out =>
    \A s \in Streams : pout[s] = produced[s]

\* Once the output is read, exec() with a timeout returns, even if the command
\* ignores everything or left a descendant that keeps the pipes open.
LoopReturns == (phase = "looping" /\ has_timeout) ~> (phase = "returned")

-----------------------------------------------------------------------------
(* What the code does not guarantee                                        *)

\* exec() with a timeout returns, whatever the command does with its stdin.
ExecReturns == (phase = "writing" /\ has_timeout) ~> (phase = "returned")
===============================================================================
