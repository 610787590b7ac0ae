--------------------------- MODULE ByteStreamProofs ---------------------------
(***************************************************************************)
(* The safety properties of ByteStream for any number of messages.  The    *)
(* messages that were written, are being written and are queued follow one *)
(* another (InOrder), since no second write_loop() starts (OneLoop); a     *)
(* descriptor is open exactly while the session runs (Life), and its shell *)
(* is hung up when it stops (Shell).                                       *)
(***************************************************************************)
EXTENDS ByteStream, TLAPS

\* The write loop in progress writes the first message that is not written.
OneLoop ==
  /\ write_in_progress <=> writing # {}
  /\ writing \subseteq {Len(written) + 1}

\* Messages a write loop has taken from the queue of a running session.
Taken == IF writing = {} THEN Len(written) ELSE Len(written) + 1

InOrder ==
  /\ \A i \in DOMAIN written : written[i] = i
  /\ running =>
       /\ \A i \in DOMAIN write_queue : write_queue[i] = Taken + i
       /\ Taken + Len(write_queue) = received
       /\ write_queue # <<>> => writing # {}

\* The descriptor is open from start() to stop(), and read_loop() ends with it.
Life ==
  /\ running <=> open
  /\ running => reader = "reading"
  /\ reader = "none" => received = 0 /\ writing = {} /\ resizing = "none"
                        /\ written = <<>> /\ write_queue = <<>> /\ pid = 0

\* The number of hangups that a stopped session of its kind has made.
Hangups == IF kind = "terminal" THEN 1 ELSE 0

\* The shell that runs was not hung up, the one that does not was.
Shell ==
  /\ pid # 0 => hangups = 0 /\ kind = "terminal"
  /\ reader = "none" => hangups = 0
  /\ reader # "none" /\ pid = 0 => hangups = Hangups

IInv == TypeOK /\ OneLoop /\ InOrder /\ Life /\ Shell

\* The strings that the actions assign are in their types.
LEMMA Literals ==
  /\ "none" \in {"none", "reading", "ended"}
  /\ "reading" \in {"none", "reading", "ended"}
  /\ "ended" \in {"none", "reading", "ended"}
  /\ "none" \in {"none", "found", "checked"}
  /\ "found" \in {"none", "found", "checked"}
  /\ "checked" \in {"none", "found", "checked"}
  /\ "none" # "reading" /\ "none" # "ended" /\ "reading" # "ended"
  /\ "terminal" # "proxy"
  OBVIOUS

LEMMA InitInv == Init => IInv
  <1> SUFFICES ASSUME Init PROVE IInv  OBVIOUS
  <1>1. TypeOK
    <2>1. <<>> \in Seq(1..MaxInput) /\ {} \in SUBSET (1..MaxInput)
      OBVIOUS
    <2>2. 0 \in 0..MaxInput /\ 0 \in 0..1 /\ 0 \in {-1, 0, 1}
      BY ByteStreamAssumption
    <2> QED  BY <2>1, <2>2, Literals DEF Init, TypeOK
  <1>2. OneLoop /\ InOrder
    BY DEF Init, OneLoop, InOrder
  <1>3. Life /\ Shell
    BY Literals DEF Init, Life, Shell
  <1> QED  BY <1>1, <1>2, <1>3 DEF IInv

\* The first element of a sequence, and what is left without it.
LEMMA HeadShape ==
  ASSUME NEW S, NEW q \in Seq(S), q # <<>>
  PROVE  /\ Head(q) = q[1] /\ Head(q) \in S /\ 1 \in DOMAIN q
         /\ Tail(q) \in Seq(S) /\ Len(Tail(q)) = Len(q) - 1
         /\ \A i \in DOMAIN Tail(q) : Tail(q)[i] = q[i + 1] /\ i + 1 \in DOMAIN q
  OBVIOUS

\* stop() leaves the shell hung up and the descriptor closed.
LEMMA StopShape ==
  ASSUME TypeOK, Life, Shell, Stop, reader # "none",
         UNCHANGED kind, reader' \in {reader, "ended"}
  PROVE  /\ running' = FALSE /\ open' = FALSE /\ pid' = 0
         /\ hangups' \in 0..1
         /\ reader' # "none"
         /\ Shell'
  BY DEF TypeOK, Life, Shell, Hangups, Stop, HangUp, Close

\* write_loop() takes the messages in their order.
LEMMA TakesNext ==
  ASSUME TypeOK,
         NEW q \in Seq(1..MaxInput), WriteNext(q, {}),
         \A i \in DOMAIN written' : written'[i] = i,
         written' \in Seq(1..MaxInput), received' \in 0..MaxInput,
         running' = running, running <=> open,
         running => /\ \A i \in DOMAIN q : q[i] = Len(written') + i
                    /\ Len(written') + Len(q) = received'
  PROVE  /\ write_queue' \in Seq(1..MaxInput)
         /\ write_in_progress' \in BOOLEAN
         /\ writing' \in SUBSET (1..MaxInput)
         /\ OneLoop' /\ InOrder'
  <1>1. CASE running /\ q # <<>>
    <2>1. /\ write_queue' = Tail(q) /\ writing' = {Head(q)}
          /\ write_in_progress' = TRUE
      BY <1>1 DEF WriteNext
    <2>2. Head(q) = Len(written') + 1 /\ Head(q) \in 1..MaxInput
      <3>1. 1 \in DOMAIN q /\ Head(q) = q[1] /\ Head(q) \in 1..MaxInput
        BY <1>1, HeadShape
      <3> QED  BY <1>1, <3>1
    <2>3. /\ Tail(q) \in Seq(1..MaxInput) /\ Len(Tail(q)) = Len(q) - 1
          /\ \A i \in DOMAIN Tail(q) : Tail(q)[i] = q[i + 1] /\ i + 1 \in DOMAIN q
      BY <1>1, HeadShape
    <2>4. Taken' = Len(written') + 1
      BY <2>1 DEF Taken
    <2>5. \A i \in DOMAIN Tail(q) : Tail(q)[i] = Taken' + i
      BY <1>1, <2>3, <2>4
    <2>6. Taken' + Len(Tail(q)) = received'
      BY <1>1, <2>3, <2>4
    <2>7. OneLoop'
      BY <2>1, <2>2 DEF OneLoop
    <2>8. InOrder'
      BY <2>1, <2>5, <2>6 DEF InOrder
    <2> QED  BY <2>1, <2>2, <2>3, <2>7, <2>8
  <1>2. CASE ~(running /\ q # <<>>)
    <2>1. write_queue' = q /\ writing' = {} /\ write_in_progress' = FALSE
      BY <1>2 DEF WriteNext, LoopEnds
    <2>2. Taken' = Len(written')
      BY <2>1 DEF Taken
    <2>3. OneLoop'
      BY <2>1 DEF OneLoop
    <2>4. InOrder'
      BY <1>2, <2>1, <2>2 DEF InOrder
    <2> QED  BY <2>1, <2>3, <2>4
  <1> QED  BY <1>1, <1>2

-----------------------------------------------------------------------------
(* The steps                                                               *)

LEMMA StepInv == ASSUME IInv, [Next]_vars PROVE IInv'
  <1> USE Literals DEF IInv
  <1>1. CASE Start
    <2>1. TypeOK'
      BY <1>1 DEF TypeOK, Start, input, process
    <2>2. OneLoop' /\ InOrder'
      BY <1>1 DEF TypeOK, OneLoop, InOrder, Taken, Life, Start, input
    <2>3. Life' /\ Shell'
      BY <1>1 DEF Life, Shell, Hangups, Start, input, TypeOK
    <2> QED  BY <2>1, <2>2, <2>3
  <1>2. CASE StartFails
    <2>1. TypeOK'
      BY <1>2 DEF TypeOK, StartFails, input
    <2>2. OneLoop' /\ InOrder'
      BY <1>2 DEF OneLoop, InOrder, Taken, StartFails, input
    <2>3. Life' /\ Shell'
      BY <1>2 DEF TypeOK, Life, Shell, Hangups, StartFails, input
    <2> QED  BY <2>1, <2>2, <2>3
  <1>3. CASE ServerStop \/ ReadFails
    <2>1. /\ Stop /\ reader # "none" /\ reader' \in {reader, "ended"}
          /\ UNCHANGED <<kind, input, received, written, resizing>>
      BY <1>3 DEF ServerStop, ReadFails, EndReading
    <2>2. /\ running' = FALSE /\ open' = FALSE /\ pid' = 0
          /\ hangups' \in 0..1 /\ reader' # "none" /\ Shell'
      BY <2>1, StopShape
    <2>3. TypeOK'
      BY <2>1, <2>2 DEF TypeOK, input
    <2>4. OneLoop' /\ InOrder'
      BY <2>1, <2>2 DEF OneLoop, InOrder, input
    <2> QED  BY <2>2, <2>3, <2>4 DEF Life
  <1>4. CASE ReadSent
    BY <1>4 DEF ReadSent, TypeOK, OneLoop, InOrder, Taken, Life, Shell, Hangups,
      input, process
  <1>5. CASE HandleInput
    <2>1. /\ received \in 0..MaxInput /\ received' = received + 1
          /\ received' \in 0..MaxInput
          /\ reader # "none"
          /\ UNCHANGED <<kind, running, open, process, reader, written, resizing>>
      BY <1>5, ByteStreamAssumption DEF HandleInput, TypeOK
    <2>2. Life' /\ Shell'
      BY <2>1 DEF Life, Shell, Hangups, process
    <2> DEFINE q == Append(write_queue, received + 1)
    <2>3. /\ q \in Seq(1..MaxInput) /\ Len(q) = Len(write_queue) + 1
          /\ \A i \in DOMAIN q :
               q[i] = IF i <= Len(write_queue) THEN write_queue[i] ELSE received + 1
      BY <2>1, ByteStreamAssumption DEF TypeOK
    <2>4. running => /\ \A i \in DOMAIN q : q[i] = Taken + i
                     /\ Taken + Len(q) = received'
      <3> SUFFICES ASSUME running
                   PROVE  /\ \A i \in DOMAIN q : q[i] = Taken + i
                          /\ Taken + Len(q) = received'
        OBVIOUS
      <3>1. Taken \in Nat
        BY DEF Taken, TypeOK
      <3>2. /\ \A i \in DOMAIN write_queue : write_queue[i] = Taken + i
            /\ Taken + Len(write_queue) = received
        BY DEF InOrder
      <3>3. write_queue \in Seq(1..MaxInput) /\ DOMAIN q = 1..(Len(write_queue) + 1)
        BY <2>3 DEF TypeOK
      <3> HIDE DEF q
      <3>4. \A i \in DOMAIN q : q[i] = Taken + i
        BY <2>1, <2>3, <3>1, <3>2, <3>3
      <3> QED  BY <2>1, <2>3, <3>1, <3>2, <3>4 DEF TypeOK
    <2>5. /\ write_queue' \in Seq(1..MaxInput) /\ write_in_progress' \in BOOLEAN
          /\ writing' \in SUBSET (1..MaxInput)
          /\ OneLoop' /\ InOrder'
      <3>1. CASE ~running
        <4>1. UNCHANGED <<input, written, running>>
          BY <1>5, <3>1 DEF HandleInput
        <4> QED
          BY <3>1, <4>1 DEF TypeOK, OneLoop, InOrder, input
      <3>2. CASE running /\ write_in_progress
        <4>1. /\ write_queue' = q
              /\ UNCHANGED <<write_in_progress, writing, written, running>>
          BY <1>5, <3>2 DEF HandleInput, Spawns
        <4>2. writing # {} /\ Taken' = Taken
          BY <3>2, <4>1 DEF OneLoop, Taken
        <4> HIDE DEF q
        <4>3. OneLoop'
          BY <4>1 DEF OneLoop
        <4>4. InOrder'
          BY <2>4, <3>2, <4>1, <4>2 DEF InOrder
        <4> QED  BY <2>3, <4>1, <4>3, <4>4 DEF TypeOK
      <3>3. CASE running /\ ~write_in_progress
        <4>1. writing = {} /\ WriteNext(q, {})
          BY <1>5, <3>3 DEF HandleInput, Spawns, OneLoop
        <4>2. /\ Taken = Len(written) /\ UNCHANGED <<written, running>>
              /\ running <=> open
          BY <2>1, <4>1 DEF Taken, Life
        <4>3. \A i \in DOMAIN written' : written'[i] = i
          BY <4>2 DEF InOrder
        <4> HIDE DEF q
        <4> QED
          BY <2>1, <2>3, <2>4, <4>1, <4>2, <4>3, TakesNext DEF TypeOK
      <3> QED  BY <3>1, <3>2, <3>3
    <2>6. TypeOK'
      BY <2>1, <2>5 DEF TypeOK, process
    <2> QED  BY <2>2, <2>5, <2>6
  <1>6. ASSUME NEW m \in 1..MaxInput, Written(m) PROVE IInv'
    <2>1. /\ writing = {m} /\ m = Len(written) + 1
          /\ written' = Append(written, m)
          /\ WriteNext(write_queue, {})
          /\ UNCHANGED <<kind, running, open, process, reader, received, resizing>>
      <3>1. m \in writing /\ writing \subseteq {Len(written) + 1}
        BY <1>6 DEF Written, OneLoop
      <3>2. writing = {m} /\ m = Len(written) + 1
        BY <3>1
      <3> QED  BY <1>6, <3>2 DEF Written
    <2>2. /\ written' \in Seq(1..MaxInput) /\ Len(written') = Len(written) + 1
          /\ \A i \in DOMAIN written' : written'[i] = i
      BY <2>1 DEF TypeOK, InOrder
    <2>3. Taken = Len(written')
      BY <2>1, <2>2 DEF Taken
    <2>4. /\ write_queue' \in Seq(1..MaxInput) /\ write_in_progress' \in BOOLEAN
          /\ writing' \in SUBSET (1..MaxInput)
          /\ OneLoop' /\ InOrder'
      BY <2>1, <2>2, <2>3, TakesNext DEF TypeOK, InOrder, Life
    <2>5. reader # "none"
      BY <2>1 DEF Life
    <2>6. TypeOK'
      BY <2>1, <2>2, <2>4 DEF TypeOK, process
    <2>7. Life' /\ Shell'
      BY <2>1, <2>5 DEF Life, Shell, Hangups, process
    <2> QED  BY <2>4, <2>6, <2>7
  <1>7. ASSUME NEW m \in 1..MaxInput, WriteFails(m) PROVE IInv'
    <2>1. /\ m \in writing /\ Stop /\ LoopEnds(write_queue, {})
          /\ UNCHANGED <<kind, reader, received, written, resizing>>
      <3>1. m \in writing /\ writing \subseteq {Len(written) + 1}
        BY <1>7 DEF WriteFails, OneLoop
      <3>2. writing \ {m} = {}
        BY <3>1
      <3> QED  BY <1>7, <3>1, <3>2 DEF WriteFails
    <2>2. reader # "none"
      BY <2>1 DEF Life
    <2>3. /\ running' = FALSE /\ open' = FALSE /\ pid' = 0
          /\ hangups' \in 0..1 /\ reader' # "none" /\ Shell'
      BY <2>1, <2>2, StopShape
    <2>4. TypeOK'
      BY <2>1, <2>3 DEF TypeOK, LoopEnds
    <2>5. OneLoop' /\ InOrder'
      BY <2>1, <2>3 DEF OneLoop, InOrder, LoopEnds
    <2> QED  BY <2>3, <2>4, <2>5 DEF Life
  <1>8. CASE ResizeFinds \/ ResizeChecks \/ ResizeSets
    <2>1. /\ UNCHANGED session /\ resizing' \in {"none", "found", "checked"}
          /\ reader # "none"
      BY <1>8 DEF ResizeFinds, ResizeChecks, ResizeSets, Life
    <2> QED
      BY <2>1 DEF session, input, process, TypeOK, OneLoop, InOrder, Taken,
        Life, Shell, Hangups
  <1>9. CASE UNCHANGED vars
    BY <1>9 DEF vars, input, process, TypeOK, OneLoop, InOrder, Taken, Life,
      Shell, Hangups
  <1> QED
    BY <1>1, <1>2, <1>3, <1>4, <1>5, <1>6, <1>7, <1>8, <1>9 DEF Next

-----------------------------------------------------------------------------
(* The theorems                                                            *)

\* The invariant holds however many messages the server sends.
THEOREM Invariance == Spec => []IInv
  <1> QED  BY InitInv, StepInv, PTL DEF Spec

\* Type correctness: there is at most one hangup.
THEOREM TypeCorrect == Spec => []TypeOK
  <1>1. IInv => TypeOK  BY DEF IInv
  <1> QED  BY <1>1, Invariance, PTL

\* What the server sends is written in order by one loop, and none of it stays
\* in the queue without a loop: handle_input() and write_loop() hand over
\* write_in_progress_ without a gap.
THEOREM InputIsInOrder == Spec => []InputIsWritten
  <1>1. IInv => InputIsWritten
    BY DEF IInv, InOrder, InputIsWritten
  <1> QED  BY <1>1, Invariance, PTL

\* A session that is gone closed its descriptor and hung up its shell once.
THEOREM ReleasedAreStopped == Spec => []ReleasedIsStopped
  <1>1. IInv => ReleasedIsStopped
    BY Literals
    DEF IInv, Life, Shell, Hangups, Released, ReleasedIsStopped
  <1> QED  BY <1>1, Invariance, PTL
===============================================================================
