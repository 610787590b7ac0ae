--------------------------- MODULE CommandExecProofs ---------------------------
(***************************************************************************)
(* exec() returns all the output of a command that did not time out, for   *)
(* any amount of it and any size of pipe.  `pending` counts the            *)
(* completions that are missing (Counting), a stream whose end was met is  *)
(* read to the end and nobody is left to write to it (Ends), and exec()    *)
(* returns when none is missing (Returned).                                *)
(***************************************************************************)
EXTENDS CommandExec, TLAPS

\* The completions that on_pending_done() has not seen.
Missing(s) == IF s \in drained THEN 0 ELSE 1
MissingExit == IF command = "reaped" THEN 0 ELSE 1

Counting == pending = Missing("stdout") + Missing("stderr") + MissingExit

\* Before the loop nothing was read and no stream has ended.
Before ==
  phase \in {"start", "writing"} => drained = {} /\ command # "reaped"
Unlaunched ==
  phase = "start" => /\ command = "none" /\ ~descendant
                     /\ \A s \in Streams : produced[s] = 0 /\ pout[s] = 0

\* Until the timeout our ends stay open, so a stream ends only when all its
\* writers are gone and all they wrote was read.
Ends ==
  ~timed_out =>
    /\ open = Streams
    /\ \A s \in drained : ~HasHolder /\ pout[s] = produced[s]

Returned ==
  phase = "returned" =>
    /\ timer = "off"
    /\ ~timed_out => ~HasHolder /\ \A s \in Streams : pout[s] = produced[s]

\* The timer runs with the loop only.
Timed == timer # "off" => phase = "looping"

IInv == TypeOK /\ Counting /\ Before /\ Unlaunched /\ Ends /\ Returned /\ Timed

\* The strings that the actions assign, and the two streams.
LEMMA Literals ==
  /\ Streams = {"stdout", "stderr"} /\ "stdout" # "stderr"
  /\ "start" # "writing" /\ "start" # "looping" /\ "start" # "returned"
  /\ "writing" # "looping" /\ "writing" # "returned" /\ "looping" # "returned"
  /\ "off" # "armed" /\ "off" # "expired" /\ "armed" # "expired"
  /\ "none" # "running" /\ "none" # "exited" /\ "none" # "reaped"
  /\ "running" # "exited" /\ "running" # "reaped" /\ "exited" # "reaped"
  BY DEF Streams

\* pending never goes below zero: a completion that is missing is counted.
LEMMA PendingShape ==
  ASSUME TypeOK, Counting
  PROVE  /\ \A s \in Streams : s \notin drained => pending > 0
         /\ command # "reaped" => pending > 0
         /\ pending = 0 => drained = Streams /\ command = "reaped"
  <1> USE Literals DEF TypeOK, Counting, Missing, MissingExit
  <1>1. /\ \A s \in Streams : s \notin drained => pending > 0
        /\ command # "reaped" => pending > 0
    OBVIOUS
  <1>2. ASSUME pending = 0 PROVE drained = Streams /\ command = "reaped"
    <2>1. "stdout" \in drained /\ "stderr" \in drained /\ command = "reaped"
      BY <1>2
    <2> QED  BY <2>1
  <1> QED  BY <1>1, <1>2

LEMMA InitInv == Init => IInv
  <1> SUFFICES ASSUME Init PROVE IInv  OBVIOUS
  <1> USE Literals, CommandExecAssumption
  <1>1. TypeOK
    <2>1. 0 \in 0..PipeSize /\ 3 \in 0..3 /\ 0 \in Nat
      OBVIOUS
    <2>2. produced \in [Streams -> Nat] /\ pout \in [Streams -> Nat]
      BY <2>1 DEF Init
    <2>3. /\ phase \in {"start", "writing", "looping", "returned"}
          /\ command \in {"none", "running", "exited", "reaped"}
          /\ timer \in {"off", "armed", "expired"}
      BY DEF Init
    <2> QED  BY <2>1, <2>2, <2>3 DEF Init, TypeOK
  <1>2. Counting
    BY DEF Init, Counting, Missing, MissingExit
  <1>3. Before /\ Unlaunched /\ Ends /\ Returned /\ Timed
    BY DEF Init, Before, Unlaunched, Ends, Returned, Timed
  <1> QED  BY <1>1, <1>2, <1>3 DEF IInv

-----------------------------------------------------------------------------
(* The steps                                                               *)

\* A step of the command changes only what it wrote and whether it is there.
LEMMA CommandInv ==
  ASSUME IInv, Command, UNCHANGED has_timeout PROVE IInv'
  <1> USE Literals, CommandExecAssumption DEF IInv, loop, process
  <1>1. CASE CommandReads
    <2>1. TypeOK'  BY <1>1 DEF CommandReads, TypeOK
    <2>2. /\ Counting' /\ Before' /\ Unlaunched' /\ Ends' /\ Returned' /\ Timed'
      BY <1>1 DEF CommandReads, Counting, Missing, MissingExit, Before,
        Unlaunched, Ends, Returned, Timed, HasHolder
    <2> QED  BY <2>1, <2>2
  <1>2. ASSUME NEW s \in Streams, CommandWrites(s) PROVE IInv'
    <2>1. /\ HasHolder /\ produced' = [produced EXCEPT ![s] = @ + 1]
          /\ UNCHANGED <<phase, to_write, in_pipe, command, descendant, loop>>
      BY <1>2 DEF CommandWrites
    <2>2. TypeOK'
      BY <2>1 DEF TypeOK
    <2>3. Counting' /\ Before' /\ Timed'
      BY <2>1 DEF Counting, Missing, MissingExit, Before, Timed
    <2>4. Unlaunched' /\ Ends' /\ Returned'
      BY <2>1 DEF Unlaunched, Ends, Returned, HasHolder
    <2> QED  BY <2>2, <2>3, <2>4
  <1>3. CASE CommandForks \/ CommandExits \/ DescendantExits
    <2>1. /\ command' \in {command, "exited"} /\ descendant' \in BOOLEAN
          /\ command # "reaped" \/ command' = command
          /\ HasHolder' => HasHolder
          /\ HasHolder
          /\ UNCHANGED <<phase, to_write, in_pipe, produced, loop>>
      BY <1>3
      DEF CommandForks, CommandExits, DescendantExits, HasHolder, TypeOK
    <2>2. TypeOK'
      BY <2>1 DEF TypeOK
    <2>3. Counting' /\ Before' /\ Timed'
      BY <2>1 DEF Counting, Missing, MissingExit, Before, Timed
    <2>4. Unlaunched' /\ Ends' /\ Returned'
      BY <2>1 DEF Unlaunched, Ends, Returned, HasHolder
    <2> QED  BY <2>2, <2>3, <2>4
  <1> QED  BY <1>1, <1>2, <1>3 DEF Command

LEMMA ExecInv ==
  ASSUME IInv, Exec, UNCHANGED has_timeout PROVE IInv'
  <1> USE Literals, CommandExecAssumption DEF IInv
  <1>1. CASE Launch
    <2>1. TypeOK' /\ Counting'
      BY <1>1
      DEF Launch, TypeOK, Counting, Missing, MissingExit, Before, loop, Unlaunched
    <2>2. Before' /\ Unlaunched' /\ Ends' /\ Returned' /\ Timed'
      BY <1>1
      DEF Launch, Before, Unlaunched, Ends, Returned, Timed, loop
    <2> QED  BY <2>1, <2>2
  <1>2. CASE LaunchFails
    <2>1. TypeOK' /\ Counting'
      BY <1>2
      DEF LaunchFails, TypeOK, Counting, Missing, MissingExit, loop, process
    <2>2. Before' /\ Unlaunched' /\ Ends' /\ Returned' /\ Timed'
      BY <1>2
      DEF LaunchFails, Before, Unlaunched, Ends, Returned, Timed, loop, process,
        HasHolder, TypeOK
    <2> QED  BY <2>1, <2>2
  <1>3. CASE WriteStdin
    <2>1. /\ to_write' \in 0..Stdin /\ in_pipe' \in 0..PipeSize
          /\ phase = "writing"
          /\ UNCHANGED <<phase, process, loop>>
      BY <1>3 DEF WriteStdin, TypeOK
    <2>2. TypeOK' /\ Counting'
      BY <2>1 DEF TypeOK, Counting, Missing, MissingExit, process, loop
    <2>3. Before' /\ Unlaunched' /\ Ends' /\ Returned' /\ Timed'
      BY <2>1
      DEF Before, Unlaunched, Ends, Returned, Timed, process, loop, HasHolder
    <2> QED  BY <2>2, <2>3
  <1>4. CASE EnterLoop
    <2>1. /\ phase' = "looping" /\ timer' \in {"armed", "off"}
          /\ UNCHANGED <<to_write, in_pipe, process, pout, open, drained,
                         pending, timed_out>>
      BY <1>4 DEF EnterLoop
    <2>2. TypeOK' /\ Counting'
      BY <2>1 DEF TypeOK, Counting, Missing, MissingExit, process
    <2>3. Before' /\ Unlaunched' /\ Ends' /\ Returned' /\ Timed'
      BY <2>1
      DEF Before, Unlaunched, Ends, Returned, Timed, process, HasHolder
    <2> QED  BY <2>2, <2>3
  <1>5. ASSUME NEW s \in Streams, ReadOutput(s) PROVE IInv'
    <2>1. /\ phase = "looping" /\ s \notin drained
          /\ pout' = [pout EXCEPT ![s] = produced[s]]
          /\ UNCHANGED <<phase, to_write, in_pipe, process, open, drained,
                         pending, timer, timed_out>>
      BY <1>5 DEF ReadOutput
    <2>2. TypeOK' /\ Counting'
      BY <2>1 DEF TypeOK, Counting, Missing, MissingExit, process
    <2>3. Before' /\ Unlaunched' /\ Ends' /\ Returned' /\ Timed'
      BY <2>1
      DEF TypeOK, Before, Unlaunched, Ends, Returned, Timed, process, HasHolder
    <2> QED  BY <2>2, <2>3
  <1>6. ASSUME NEW s \in Streams, OutputEnds(s) PROVE IInv'
    <2>1. /\ phase = "looping" /\ s \notin drained /\ EndOf(s)
          /\ drained' = drained \cup {s}
          /\ pending' = pending - 1 /\ timer' \in {"off", timer}
          /\ UNCHANGED <<phase, to_write, in_pipe, process, pout, open,
                         timed_out>>
      BY <1>6 DEF OutputEnds, PendingDone
    <2>2. pending > 0
      BY <2>1, PendingShape
    <2>3. TypeOK'
      BY <2>1, <2>2 DEF TypeOK, process
    <2>4. Counting'
      BY <2>1 DEF TypeOK, Counting, Missing, MissingExit, process
    <2>5. ~timed_out => ~HasHolder /\ pout[s] = produced[s]
      BY <2>1 DEF Ends, EndOf, Buffered, TypeOK
    <2>6. Before' /\ Unlaunched' /\ Ends' /\ Returned' /\ Timed'
      BY <2>1, <2>5
      DEF Before, Unlaunched, Ends, Returned, Timed, process, HasHolder
    <2> QED  BY <2>3, <2>4, <2>6
  <1>7. CASE Reaped
    <2>1. /\ phase = "looping" /\ command = "exited" /\ command' = "reaped"
          /\ pending' = pending - 1 /\ timer' \in {"off", timer}
          /\ UNCHANGED <<phase, to_write, in_pipe, descendant, produced, pout,
                         open, drained, timed_out>>
      BY <1>7 DEF Reaped, PendingDone
    <2>2. pending > 0
      BY <2>1, PendingShape
    <2>3. TypeOK'
      BY <2>1, <2>2 DEF TypeOK
    <2>4. Counting'
      BY <2>1 DEF TypeOK, Counting, Missing, MissingExit
    <2>5. Before' /\ Unlaunched' /\ Ends' /\ Returned' /\ Timed'
      BY <2>1
      DEF Before, Unlaunched, Ends, Returned, Timed, HasHolder
    <2> QED  BY <2>3, <2>4, <2>5
  <1>8. CASE Timeout
    <2>1. /\ phase = "looping" /\ timer' = "off" /\ timed_out' = TRUE
          /\ command' = (IF command = "running" THEN "exited" ELSE command)
          /\ open' = {}
          /\ UNCHANGED <<phase, to_write, in_pipe, descendant, produced, pout,
                         drained, pending>>
      BY <1>8 DEF Timeout, KillAndClose, Timed
    <2>2. TypeOK' /\ Counting'
      BY <2>1 DEF TypeOK, Counting, Missing, MissingExit
    <2>3. Before' /\ Unlaunched' /\ Ends' /\ Returned' /\ Timed'
      BY <2>1 DEF Before, Unlaunched, Ends, Returned, Timed
    <2> QED  BY <2>2, <2>3
  <1>9. CASE Return
    <2>1. /\ phase' = "returned" /\ pending = 0 /\ timer = "off"
          /\ UNCHANGED <<to_write, in_pipe, process, loop>>
      BY <1>9 DEF Return
    <2>2. drained = Streams
      BY <2>1, PendingShape
    <2>3. TypeOK' /\ Counting'
      BY <2>1 DEF TypeOK, Counting, Missing, MissingExit, process, loop
    <2>4. Before' /\ Unlaunched' /\ Ends' /\ Returned' /\ Timed'
      BY <2>1, <2>2
      DEF Before, Unlaunched, Ends, Returned, Timed, process, loop, HasHolder
    <2> QED  BY <2>3, <2>4
  <1> QED
    BY <1>1, <1>2, <1>3, <1>4, <1>5, <1>6, <1>7, <1>8, <1>9 DEF Exec

LEMMA StepInv == ASSUME IInv, [Next]_vars PROVE IInv'
  <1>1. CASE TimerExpires /\ UNCHANGED has_timeout
    BY <1>1, Literals
    DEF IInv, TimerExpires, TypeOK, Counting, Missing, MissingExit, Before,
      Unlaunched, Ends, Returned, Timed, process, HasHolder
  <1>2. CASE UNCHANGED vars
    BY <1>2
    DEF vars, process, loop, IInv, TypeOK, Counting, Missing, MissingExit,
      Before, Unlaunched, Ends, Returned, Timed, HasHolder
  <1> QED  BY <1>1, <1>2, CommandInv, ExecInv DEF Next

-----------------------------------------------------------------------------
(* The theorems                                                            *)

\* The invariant holds for any amount of input and output.
THEOREM Invariance == Spec => []IInv
  <1> QED  BY InitInv, StepInv, PTL DEF Spec

\* Type correctness; in particular pending does not go below zero.
THEOREM TypeCorrect == Spec => []TypeOK
  <1>1. IInv => TypeOK  BY DEF IInv
  <1> QED  BY <1>1, Invariance, PTL

\* exec() returns all the output of a command that did not time out.
THEOREM OutputsAreComplete == Spec => []OutputIsComplete
  <1>1. IInv => OutputIsComplete
    BY DEF IInv, Returned, OutputIsComplete
  <1> QED  BY <1>1, Invariance, PTL
===============================================================================
