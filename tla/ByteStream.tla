------------------------------ MODULE ByteStream ------------------------------
(***************************************************************************)
(* A session that carries bytes both ways between the server and a         *)
(* descriptor: terminal_session (the PTY of a shell it forks) and          *)
(* proxy_session (a socket to its target).  read_loop() sends what it      *)
(* reads, handle_input() queues what the server sends, write_loop() writes *)
(* the queue; stop() closes the descriptor.  The session object lives as   *)
(* long as one of the two loops, or as a request for a new window size of  *)
(* the terminal works on it.                                               *)
(*                                                                         *)
(* The session runs on one io_context thread; a step is what a coroutine   *)
(* does between two suspensions.  update_params() runs on the resource     *)
(* pool, beside it.  The other end of the descriptor is                    *)
(* external: it may fail, or leave a read or a write waiting for ever.     *)
(***************************************************************************)
EXTENDS Integers, Sequences

CONSTANT MaxInput  \* bound on the messages of the server

ASSUME ByteStreamAssumption == MaxInput \in Nat \ {0}

VARIABLES
  kind,               \* the class of the session
  running,            \* running_
  open,               \* descriptor_ or socket_ is open
  pid,                \* pid_: 0, the forked shell (1) or a failed fork (-1)
  reader,             \* read_loop(): not spawned yet, reading or ended
  write_queue,        \* write_queue_: numbers of the messages of the server
  write_in_progress,  \* write_in_progress_
  writing,            \* messages the write loops are writing
  received,           \* messages the server has sent
  written,            \* messages written to the descriptor, in that order
  hangups,            \* SIGHUPs sent to the shell
  resizing            \* the request for a window size that found the session

input   == <<write_queue, write_in_progress, writing>>
process == <<pid, hangups>>
vars == <<kind, running, open, process, reader, input, received, written, resizing>>

Init ==
  /\ kind \in {"terminal", "proxy"}
  /\ running = FALSE
  /\ open = FALSE
  /\ pid = 0
  /\ reader = "none"
  /\ write_queue = <<>>
  /\ write_in_progress = FALSE
  /\ writing = {}
  /\ received = 0
  /\ written = <<>>
  /\ hangups = 0
  /\ resizing = "none"

\* No loop and no request holds the session object any more.
Released == reader = "ended" /\ writing = {} /\ resizing = "none"

-----------------------------------------------------------------------------
(* start() and stop()                                                      *)

\* The shell is forked, or the target connected; read_loop() starts.
Start ==
  /\ reader = "none"
  /\ running' = TRUE
  /\ open' = TRUE
  /\ pid' = IF kind = "terminal" THEN 1 ELSE 0
  /\ reader' = "reading"
  /\ UNCHANGED <<kind, hangups, input, received, written, resizing>>

\* No process, or no connection: the object is dropped by the manager.
StartFails ==
  /\ reader = "none"
  /\ pid' = IF kind = "terminal" THEN -1 ELSE 0
  /\ reader' = "ended"
  /\ UNCHANGED <<kind, running, open, hangups, input, received, written, resizing>>

\* Stop terminal process: once, since pid_ is reset.
HangUp == hangups' = (IF pid # 0 THEN hangups + 1 ELSE hangups) /\ pid' = 0

CloseNothing == UNCHANGED open
Close == open' = FALSE

Stop == running' = FALSE /\ HangUp /\ Close

\* The server's STOP_STREAM, while the manager still finds the session.
ServerStop ==
  /\ reader # "none"
  /\ ~Released
  /\ Stop
  /\ UNCHANGED <<kind, reader, input, received, written, resizing>>

-----------------------------------------------------------------------------
(* read_loop()                                                             *)

\* Bytes were read and sent; a loop whose session was stopped meanwhile ends
\* only after it sent them.
ReadSent ==
  /\ reader = "reading"
  /\ reader' = IF running /\ open THEN "reading" ELSE "ended"
  /\ UNCHANGED <<kind, running, open, process, input, received, written, resizing>>

\* A read error, the end of the other side, an aborted read, or bytes that
\* cannot be sent because the client is not connected.
EndUnstopped == UNCHANGED <<running, open, process>>
EndReading == Stop

ReadFails ==
  /\ reader = "reading"
  /\ EndReading
  /\ reader' = "ended"
  /\ UNCHANGED <<kind, input, received, written, resizing>>

-----------------------------------------------------------------------------
(* handle_input() and write_loop()                                         *)

\* The condition of write_loop() over what is queued, with the messages w of
\* other loops still being written.
LoopEnds(q, w) ==
  /\ write_queue' = q /\ writing' = w
  /\ write_in_progress' = FALSE

WriteNext(q, w) ==
  IF running /\ open /\ q # <<>>
  THEN /\ write_queue' = Tail(q)
       /\ writing' = w \cup {Head(q)}
       /\ write_in_progress' = TRUE
  ELSE LoopEnds(q, w)

\* A write loop is spawned unless one is at work.
SpawnsAlways == TRUE
Spawns == ~write_in_progress

HandleInput ==
  /\ reader # "none"
  /\ ~Released
  /\ received < MaxInput
  /\ received' = received + 1
  /\ IF ~running THEN UNCHANGED input
     ELSE LET q == Append(write_queue, received + 1)
          IN  IF Spawns THEN WriteNext(q, writing)
              ELSE /\ write_queue' = q
                   /\ UNCHANGED <<write_in_progress, writing>>
  /\ UNCHANGED <<kind, running, open, process, reader, written, resizing>>

\* A message is written; the loop goes on.
Written(m) ==
  /\ m \in writing
  /\ written' = Append(written, m)
  /\ WriteNext(write_queue, writing \ {m})
  /\ UNCHANGED <<kind, running, open, process, reader, received, resizing>>

WriteFails(m) ==
  /\ m \in writing
  /\ Stop
  /\ LoopEnds(write_queue, writing \ {m})
  /\ UNCHANGED <<kind, reader, received, written, resizing>>

-----------------------------------------------------------------------------
(* The window size of a terminal, set by a RUN on the resource pool        *)

session == <<kind, running, open, process, reader, input, received, written>>

\* get_session(): the request holds the session from here on.  The lookup
\* races with the io_context: a session that just stopped may be found.
ResizeFinds ==
  /\ kind = "terminal"
  /\ reader # "none"
  /\ ~Released
  /\ resizing = "none"
  /\ resizing' = "found"
  /\ UNCHANGED session

\* update_params() answers an error unless the descriptor is open.
ResizeChecks ==
  /\ resizing = "found"
  /\ resizing' = IF open THEN "checked" ELSE "none"
  /\ UNCHANGED session

\* ioctl() on the descriptor that was open; the request is over.
ResizeSets ==
  /\ resizing = "checked"
  /\ resizing' = "none"
  /\ UNCHANGED session

Next ==
  \/ Start \/ StartFails
  \/ ServerStop
  \/ ReadSent \/ ReadFails
  \/ HandleInput
  \/ \E m \in 1..MaxInput : Written(m) \/ WriteFails(m)
  \/ ResizeFinds \/ ResizeChecks \/ ResizeSets

Spec == Init /\ [][Next]_vars

\* Reads and writes on a closed descriptor complete.  On an open one they may
\* wait for ever, and start() may take its time.
FairSpec ==
  /\ Spec
  /\ WF_vars(~open /\ (ReadSent \/ ReadFails))
  /\ WF_vars(ResizeChecks \/ ResizeSets)
  /\ \A m \in 1..MaxInput : WF_vars(~open /\ (Written(m) \/ WriteFails(m)))

-----------------------------------------------------------------------------
(* Properties                                                              *)

TypeOK ==
  /\ kind \in {"terminal", "proxy"}
  /\ running \in BOOLEAN
  /\ open \in BOOLEAN
  /\ pid \in {-1, 0, 1}
  /\ reader \in {"none", "reading", "ended"}
  /\ write_queue \in Seq(1..MaxInput)
  /\ write_in_progress \in BOOLEAN
  /\ writing \in SUBSET (1..MaxInput)
  /\ received \in 0..MaxInput
  /\ written \in Seq(1..MaxInput)
  /\ hangups \in 0..1
  /\ resizing \in {"none", "found", "checked"}

\* The other end gets the server's messages in the order they arrived, none
\* twice and none left out, however reads, writes and stops interleave: there
\* is one write_loop() at a time.  And what handle_input() queued has a
\* write_loop(): one that ends does not leave the flag behind that keeps a new
\* one from starting.
InputIsWritten ==
  /\ \A i \in DOMAIN written : written[i] = i
  /\ running /\ write_queue # <<>> => writing # {}

\* A session object that is gone left no shell running and no descriptor open:
\* both loops end through stop(), and a shell is hung up exactly once.
ReleasedIsStopped ==
  Released => /\ ~open
              /\ pid = 0 => hangups = (IF kind = "terminal" THEN 1 ELSE 0)

\* A stopped session is released: closing the descriptor ends both loops, so
\* the manager's on_end_ listener is called.
StopReleases == (reader = "reading" /\ ~running) ~> Released

-----------------------------------------------------------------------------
(* What the code does not guarantee                                        *)

\* The size is set on the descriptor of the session, not on one that was
\* closed, and maybe opened by something else, after it was found open.
ResizeIsLocal ==
  [][resizing = "checked" /\ resizing' = "none" => open]_vars

\* The session is destroyed, and leaves the sessions_ of its manager, on the
\* io_context thread, not on the thread of a request that held it last.
EndIsOnIoContext == [][~Released /\ Released' => resizing = "none"]_vars
===============================================================================
