--------------------------- MODULE FilesystemProofs ----------------------------
(***************************************************************************)
(* The safety properties of the filesystem extension: first Upload, for    *)
(* all sizes of files, chunks, thresholds and windows, then FsRequests,    *)
(* for all trees of paths, requests and numbers of threads.                *)
(***************************************************************************)
EXTENDS Upload, FsRequests, SequenceTheorems, TLAPS

-----------------------------------------------------------------------------
(* Uploads.  Filed says that the file is on disk exactly as long as it may *)
(* still become, or was, complete; Counted that without a bandwidth limit  *)
(* no ACK is ever delayed, so each one takes what was counted; Timely that *)
(* the count stays below the threshold.                                    *)

Filed ==
  /\ ~stopping /\ state \in {"IN_PROGRESS", "COMPLETED"} => present
  /\ stopping => state # "IDLE" /\ (present <=> state = "COMPLETED")

\* No handler in the queue sends an ACK.
NoAckQueued == \A i \in DOMAIN ready : ready[i].do # "ack"

Counted ==
  ~rate_limited =>
    /\ ~rate_wait /\ NoAckQueued
    /\ acked + bytes_since_last_ack = bytes_received

Timely ==
  ~rate_limited => bytes_since_last_ack < AckThreshold(expected_size)

IInv == TypeOK /\ Filed /\ Counted /\ Timely

\* The strings that the actions assign are states.
LEMMA States ==
  /\ "IDLE" \in SessionState /\ "IN_PROGRESS" \in SessionState
  /\ "COMPLETED" \in SessionState /\ "CANCELLED" \in SessionState
  /\ "FAILED" \in SessionState /\ "TIMED_OUT" \in SessionState
  BY DEF SessionState

\* The threshold is at least one byte: every size, also one below a chunk.
LEMMA ThresholdIsPositive ==
  ASSUME NEW n \in Nat
  PROVE  AckThreshold(n) \in Nat \ {0}
  <1>1. n \div Parts \in Nat
    BY UploadAssumption
  <1> QED  BY <1>1, UploadAssumption DEF AckThreshold

\* A queue after a post, and what running its first handler leaves.
LEMMA AppendShape ==
  ASSUME NEW S, NEW q \in Seq(S), NEW h \in S
  PROVE  /\ Append(q, h) \in Seq(S)
         /\ \A i \in DOMAIN Append(q, h) :
              \/ i \in DOMAIN q /\ Append(q, h)[i] = q[i]
              \/ Append(q, h)[i] = h
  OBVIOUS

LEMMA TailShape ==
  ASSUME NEW S, NEW q \in Seq(S), q # <<>>
  PROVE  /\ Head(q) \in S /\ Head(q) = q[1] /\ 1 \in DOMAIN q
         /\ Tail(q) \in Seq(S)
         /\ \A i \in DOMAIN Tail(q) :
              i + 1 \in DOMAIN q /\ Tail(q)[i] = q[i + 1]
  OBVIOUS

LEMMA InitInv == Init => IInv
  <1> SUFFICES ASSUME Init PROVE IInv  OBVIOUS
  <1>1. TypeOK
    <2>1. expected_size \in Nat /\ state \in SessionState
      BY UploadAssumption, States DEF Init
    <2>2. ready \in Seq([do : {"ack", "timeout"}, bytes : Nat])
      BY DEF Init
    <2> QED  BY <2>1, <2>2 DEF Init, TypeOK
  <1>2. Filed /\ Counted
    BY DEF Init, Filed, Counted, NoAckQueued
  <1>3. Timely
    BY <1>1, ThresholdIsPositive DEF Init, Timely, TypeOK
  <1> QED  BY <1>1, <1>2, <1>3 DEF IInv

-----------------------------------------------------------------------------
(* The steps                                                               *)

\* stop() for a reason, called in a state st that the session was in or just
\* got, removes the file unless the server stopped a completed upload.
LEMMA StopShape ==
  ASSUME TypeOK, Filed, ~stopping, NEW reason, NEW st \in SessionState,
         Stop(reason, st),
         reason = "SERVER_STOP" => st = state /\ st \in {"IN_PROGRESS", "COMPLETED"},
         reason # "SERVER_STOP" => st # "COMPLETED"
  PROVE  /\ state' \in SessionState /\ stopping' = TRUE
         /\ present' \in BOOLEAN /\ buffered' \in BOOLEAN
         /\ receive_wait' = FALSE /\ rate_wait' = FALSE /\ bytes_to_ack' = 0
         /\ expected_size' = expected_size
         /\ Filed'
  <1>1. /\ state' = FinalState(reason, st) /\ stopping' = TRUE
        /\ present' = (present /\ reason = "SERVER_STOP" /\ st = "COMPLETED")
        /\ buffered' \in {FALSE, buffered}
        /\ receive_wait' = FALSE /\ rate_wait' = FALSE /\ bytes_to_ack' = 0
        /\ expected_size' = expected_size
    BY DEF Stop, KeepsFile
  <1>2. FinalState(reason, st) \in SessionState
    BY States DEF FinalState
  <1>3. CASE reason = "SERVER_STOP"
    <2>1. st = state /\ (st = "COMPLETED" => present)
      BY <1>3 DEF Filed
    <2>2. /\ FinalState(reason, st) = "COMPLETED" <=> st = "COMPLETED"
          /\ FinalState(reason, st) # "IDLE"
      BY <1>3 DEF FinalState
    <2>3. state' # "IDLE" /\ (present' <=> state' = "COMPLETED")
      BY <1>1, <1>3, <2>1, <2>2
    <2> QED  BY <1>1, <1>2, <2>3 DEF Filed, TypeOK
  <1>4. CASE reason # "SERVER_STOP"
    <2>1. FinalState(reason, st) \notin {"COMPLETED", "IDLE"}
      BY <1>4 DEF FinalState
    <2>2. present' = FALSE
      BY <1>1, <1>4
    <2> QED  BY <1>1, <1>2, <2>1, <2>2 DEF Filed, TypeOK
  <1> QED  BY <1>3, <1>4

\* A step that stops the session, with the queue and the counters it leaves.
LEMMA StoppedInv ==
  ASSUME IInv, ~stopping, UNCHANGED <<setting, counters>>,
         NEW reason, NEW st \in SessionState, Stop(reason, st),
         reason = "SERVER_STOP" => st = state /\ st \in {"IN_PROGRESS", "COMPLETED"},
         reason # "SERVER_STOP" => st # "COMPLETED",
         \/ ready' = ready
         \/ ready # <<>> /\ ready' = Tail(ready)
  PROVE  IInv'
  <1> USE DEF IInv
  <1>1. /\ state' \in SessionState /\ stopping' = TRUE
        /\ present' \in BOOLEAN /\ buffered' \in BOOLEAN
        /\ receive_wait' = FALSE /\ rate_wait' = FALSE /\ bytes_to_ack' = 0
        /\ expected_size' = expected_size
        /\ Filed'
    BY StopShape
  <1>2. /\ ready' \in Seq([do : {"ack", "timeout"}, bytes : Nat])
        /\ NoAckQueued => NoAckQueued'
    <2>1. CASE ready' = ready
      BY <2>1 DEF TypeOK, NoAckQueued
    <2>2. CASE ready # <<>> /\ ready' = Tail(ready)
      <3>1. /\ Tail(ready) \in Seq([do : {"ack", "timeout"}, bytes : Nat])
            /\ \A i \in DOMAIN Tail(ready) :
                 i + 1 \in DOMAIN ready /\ Tail(ready)[i] = ready[i + 1]
        BY <2>2, TailShape DEF TypeOK
      <3> QED  BY <2>2, <3>1 DEF NoAckQueued
    <2> QED  BY <2>1, <2>2
  <1>3. TypeOK'
    BY <1>1, <1>2 DEF TypeOK, setting, counters
  <1>4. Counted' /\ Timely'
    BY <1>1, <1>2 DEF Counted, Timely, setting, counters, AckThreshold
  <1> QED  BY <1>1, <1>3, <1>4

LEMMA StepInv == ASSUME IInv, [Next]_vars PROVE IInv'
  <1> USE DEF IInv
  <1>0. CASE UNCHANGED vars
    BY <1>0 DEF vars, setting, counters, waits, disk, TypeOK, Filed, Counted,
      NoAckQueued, Timely, AckThreshold
  <1>1. CASE Start /\ UNCHANGED setting
    <2>1. TypeOK'
      BY <1>1, States DEF TypeOK, Start, setting, counters
    <2>2. Filed' /\ Counted' /\ Timely'
      BY <1>1
      DEF Start, setting, counters, Filed, Counted, NoAckQueued, Timely,
        AckThreshold
    <2> QED  BY <2>1, <2>2
  <1>2. CASE StartFails /\ UNCHANGED setting
    <2>1. TypeOK'
      BY <1>2, States DEF TypeOK, StartFails, setting, counters, waits, disk
    <2>2. Filed' /\ Counted' /\ Timely'
      BY <1>2
      DEF StartFails, setting, counters, waits, disk, Filed, Counted,
        NoAckQueued, Timely, AckThreshold
    <2> QED  BY <2>1, <2>2
  <1>3. ASSUME NEW n \in 1..ChunkSize, HandleInput(n), UNCHANGED setting
        PROVE  IInv'
    <2>0. n \in Nat \ {0}
      BY UploadAssumption
    <2>1. CASE Arrives(n) /\ ~WriteFails(n)
      <3>1. /\ ~stopping /\ stopping' = stopping /\ state = "IN_PROGRESS"
            /\ expected_size' = expected_size /\ ready' = ready
            /\ present' = present /\ present
            /\ bytes_received' = bytes_received + n
            /\ buffered' \in BOOLEAN /\ receive_wait' = TRUE
        BY <2>1 DEF Arrives, RestartTimeout, Filed
      <3>2. CASE ChunkCounted(n)
        <4>1. /\ bytes_since_last_ack' = bytes_since_last_ack + n
              /\ bytes_since_last_ack + n < AckThreshold(expected_size)
              /\ UNCHANGED <<state, acked, rate_wait, bytes_to_ack>>
          <5>1. AckThreshold(expected_size) \in Nat
            BY ThresholdIsPositive DEF TypeOK
          <5> QED  BY <2>0, <3>2, <5>1 DEF ChunkCounted, AckIsDue, TypeOK
        <4>2. TypeOK'
          BY <1>3, <2>0, <3>1, <4>1 DEF TypeOK, setting
        <4>3. Filed'
          BY <3>1, <4>1 DEF Filed
        <4>4. Counted'
          BY <1>3, <2>0, <3>1, <4>1
          DEF Counted, NoAckQueued, TypeOK, setting
        <4>5. Timely'
          BY <3>1, <4>1 DEF Timely, AckThreshold
        <4> QED  BY <4>2, <4>3, <4>4, <4>5
      <3>3. CASE ChunkAcked(n)
        <4>1. /\ acked' = acked + (bytes_since_last_ack + n)
              /\ bytes_since_last_ack' = 0
              /\ state' \in {"COMPLETED", "IN_PROGRESS"}
              /\ UNCHANGED <<rate_wait, bytes_to_ack>>
          BY <3>1, <3>3 DEF ChunkAcked, Acks
        <4>2. TypeOK'
          BY <1>3, <2>0, <3>1, <4>1, States DEF TypeOK, setting
        <4>3. Filed'
          BY <3>1, <4>1 DEF Filed
        <4>4. Counted'
          BY <1>3, <2>0, <3>1, <4>1
          DEF Counted, NoAckQueued, TypeOK, setting
        <4>5. Timely'
          <5>1. AckThreshold(expected_size) > 0
            BY ThresholdIsPositive DEF TypeOK
          <5> QED  BY <3>1, <4>1, <5>1 DEF Timely, AckThreshold
        <4> QED  BY <4>2, <4>3, <4>4, <4>5
      <3>4. CASE ChunkAckDelayed(n)
        <4>1. /\ rate_limited /\ rate_wait' = TRUE
              /\ bytes_since_last_ack' = bytes_since_last_ack + n
              /\ bytes_to_ack' = bytes_since_last_ack'
              /\ UNCHANGED <<state, acked>>
          BY <3>4 DEF ChunkAckDelayed
        <4>2. TypeOK'
          BY <1>3, <2>0, <3>1, <4>1 DEF TypeOK, setting
        <4>3. Filed' /\ Counted' /\ Timely'
          BY <1>3, <3>1, <4>1 DEF Filed, Counted, Timely, setting
        <4> QED  BY <4>2, <4>3
      <3> QED  BY <1>3, <2>1, <3>2, <3>3, <3>4 DEF HandleInput
    <2>2. CASE WriteFails(n)
      <3>1. /\ ~stopping /\ Stop("CLIENT_STOP", "FAILED")
            /\ UNCHANGED <<counters, ready>>
        BY <2>2 DEF WriteFails
      <3> QED  BY <1>3, <3>1, States, StoppedInv
    <2>3. Arrives(n) \/ WriteFails(n)
      BY <1>3 DEF HandleInput, ChunkCounted, ChunkAcked, ChunkAckDelayed
    <2> QED  BY <2>1, <2>2, <2>3
  <1>4. CASE ReceiveTimerExpires /\ UNCHANGED setting
    <2> DEFINE h == [do |-> "timeout", bytes |-> 0]
    <2>1. h \in [do : {"ack", "timeout"}, bytes : Nat] /\ h.do # "ack"
      OBVIOUS
    <2>2. ready' = Append(ready, h)
      BY <1>4 DEF ReceiveTimerExpires
    <2> HIDE DEF h
    <2>3. /\ ready' \in Seq([do : {"ack", "timeout"}, bytes : Nat])
          /\ NoAckQueued => NoAckQueued'
      BY <2>1, <2>2, AppendShape DEF TypeOK, NoAckQueued
    <2>4. TypeOK'
      BY <1>4, <2>3 DEF TypeOK, ReceiveTimerExpires, setting, counters, disk
    <2>5. Filed' /\ Counted' /\ Timely'
      BY <1>4, <2>3
      DEF ReceiveTimerExpires, setting, counters, disk, Filed, Counted, Timely,
        AckThreshold
    <2> QED  BY <2>4, <2>5
  <1>5. CASE RateTimerExpires /\ UNCHANGED setting
    <2> DEFINE h == [do |-> "ack", bytes |-> bytes_to_ack]
    <2>1. h \in [do : {"ack", "timeout"}, bytes : Nat]
      BY DEF TypeOK
    <2>2. ready' = Append(ready, h) /\ rate_wait
      BY <1>5 DEF RateTimerExpires
    <2> HIDE DEF h
    <2>3. ready' \in Seq([do : {"ack", "timeout"}, bytes : Nat])
      BY <2>1, <2>2, AppendShape DEF TypeOK
    <2>4. TypeOK'
      BY <1>5, <2>3 DEF TypeOK, RateTimerExpires, setting, counters, disk
    <2>5. rate_limited
      BY <2>2 DEF Counted
    <2>6. Filed' /\ Counted' /\ Timely'
      BY <1>5, <2>5
      DEF RateTimerExpires, setting, disk, Filed, Counted, Timely
    <2> QED  BY <2>4, <2>6
  <1>6. CASE ReceiveTimeout /\ UNCHANGED setting
    <2>1. /\ ~stopping /\ ready # <<>> /\ ready' = Tail(ready)
          /\ Stop("CLIENT_STOP", "TIMED_OUT") /\ UNCHANGED counters
      BY <1>6 DEF ReceiveTimeout, Runs
    <2> QED  BY <1>6, <2>1, States, StoppedInv
  <1>7. CASE DelayedAck /\ UNCHANGED setting
    <2>1. /\ ready # <<>> /\ Head(ready).do = "ack" /\ ready' = Tail(ready)
          /\ acked' = acked + Head(ready).bytes
          /\ bytes_since_last_ack' = 0
          /\ UNCHANGED <<state, stopping, expected_size, bytes_received, waits,
                         disk>>
      BY <1>7 DEF DelayedAck, Runs, Acks
    <2>2. /\ Head(ready) \in [do : {"ack", "timeout"}, bytes : Nat]
          /\ Head(ready) = ready[1] /\ 1 \in DOMAIN ready
          /\ ready' \in Seq([do : {"ack", "timeout"}, bytes : Nat])
      BY <2>1, TailShape DEF TypeOK
    <2>3. rate_limited
      BY <2>1, <2>2 DEF Counted, NoAckQueued
    <2>4. Head(ready).bytes \in Nat
      BY <2>2
    <2>5. TypeOK'
      BY <1>7, <2>1, <2>2, <2>4 DEF TypeOK, setting, waits, disk
    <2>6. Filed' /\ Counted' /\ Timely'
      BY <1>7, <2>1, <2>3 DEF setting, disk, Filed, Counted, Timely
    <2> QED  BY <2>5, <2>6
  <1>8. CASE ServerStop /\ UNCHANGED setting
    <2>1. /\ ~stopping /\ state \in {"IN_PROGRESS", "COMPLETED"}
          /\ Stop("SERVER_STOP", state) /\ UNCHANGED <<counters, ready>>
      BY <1>8 DEF ServerStop
    <2>2. state \in SessionState
      BY DEF TypeOK
    <2> QED  BY <1>8, <2>1, <2>2, StoppedInv
  <1> QED
    BY <1>0, <1>1, <1>2, <1>3, <1>4, <1>5, <1>6, <1>7, <1>8 DEF Next, RunHandler

-----------------------------------------------------------------------------
(* The theorems                                                            *)

\* The invariant holds for every size of file, chunk and window.
THEOREM Invariance == Spec => []IInv
  <1> QED  BY InitInv, StepInv, PTL DEF Spec

\* Type correctness of the counters and the queue.
THEOREM TypeCorrect == Spec => []TypeOK
  <1>1. IInv => TypeOK  BY DEF IInv
  <1> QED  BY <1>1, Invariance, PTL

\* stop() leaves no partial file, and a completed one stays if the server
\* closed its stream.
THEOREM PartialFilesAreRemoved == Spec => []NoPartialFileLeft
  <1>1. IInv => NoPartialFileLeft
    BY DEF IInv, Filed, NoPartialFileLeft
  <1> QED  BY <1>1, Invariance, PTL

\* send_ack() neither hides nor repeats a byte when there is no limit.
THEOREM BytesAreAckedOnce == Spec => []EachByteAckedOnce
  <1>1. IInv => EachByteAckedOnce
    BY DEF IInv, Counted, EachByteAckedOnce
  <1> QED  BY <1>1, Invariance, PTL

\* A server whose window holds a threshold and a chunk less a byte always has
\* room for the next chunk.
THEOREM ServersProceed == Spec => []NeverBothWait
  <1>1. ASSUME IInv PROVE NeverBothWait
    <2> SUFFICES ASSUME ~rate_limited,
                        window >= AckThreshold(expected_size) + ChunkSize - 1
                 PROVE  WindowAdmits(ChunkSize)
      BY DEF NeverBothWait
    <2>1. AckThreshold(expected_size) \in Nat
      BY <1>1, ThresholdIsPositive DEF IInv, TypeOK
    <2>2. window \in Nat
      BY <1>1, UploadAssumption DEF IInv, TypeOK
    <2>3. /\ bytes_received - acked = bytes_since_last_ack
          /\ bytes_since_last_ack < AckThreshold(expected_size)
      BY <1>1 DEF IInv, TypeOK, Counted, Timely
    <2> QED
      BY <1>1, <2>1, <2>2, <2>3, UploadAssumption
      DEF IInv, TypeOK, WindowAdmits
  <1> QED  BY <1>1, Invariance, PTL

-----------------------------------------------------------------------------
(* Requests on the tree.  A request is undisturbed while no other one runs *)
(* on the same part of the tree.  Apart and Elsewhere say that then nobody *)
(* else changes what is below its path, so that what its handler has seen  *)
(* (Steady) is still so at its next call; Rooted, Unique and Fresh say     *)
(* what a tree of files is; Whole says which files hold what one PUT wrote.*)

\* What the place of a handler says of its request and of what it holds.
Placed ==
  \A r \in Requests :
    /\ pc[r] # "new" => req[r] \in Asked
    /\ pc[r] \in {"put", "open", "write", "cleanup"} => req[r].verb = "put"
    /\ pc[r] = "mkdir" => req[r].verb = "mkdir"
    /\ pc[r] = "make" => req[r].verb \in {"put", "mkdir"}
    /\ pc[r] \in {"get", "read"} => req[r].verb = "get"
    /\ pc[r] \in {"hash", "digest", "measure"} => req[r].verb = "hash"
    /\ pc[r] \in {"delete", "remove"} => req[r].verb = "delete"
    /\ pc[r] \in {"move", "rename"} => req[r].verb = "move"
    /\ pc[r] \in {"write", "cleanup", "digest"} => file[r] \in Requests
    /\ size[r] > 0 => pc[r] \in {"read", "ok", "failed"}

\* The directory a PUT needs.
Target(q) == IF q.verb = "put" THEN Parent(q.path) ELSE q.path

\* A handler creates what is above its target, and removes what is below its
\* path.
Listed ==
  \A r \in Requests :
    /\ pc[r] = "make" =>
         todo[r] \subseteq {p \in Paths : Within(Target(req[r]), p)}
    /\ pc[r] = "remove" =>
         /\ req[r].path \in todo[r]
         /\ todo[r] \subseteq {p \in Paths : Within(p, req[r].path)}

Small == \A f \in Requests : Len(data[f]) <= MaxBlocks

\* What exists is in a directory, and a file has one path.
Rooted ==
  \A p, q \in Paths : Exists(p) /\ Within(p, q) /\ p # q => tree[q] = Directory
Unique == \A p, q \in Paths : tree[p] = tree[q] /\ tree[p] \in Requests => p = q

\* A file is not there before the PUT it is named by creates it.
Fresh ==
  \A f \in Requests : pc[f] \notin {"write", "cleanup", "ok", "failed"} =>
    /\ \A p \in Paths : tree[p] # f
    /\ \A s \in Requests : file[s] # f

\* A request that is not disturbed is alone on its part of the tree, and no
\* other one writes to a file that is there.
Apart ==
  \A r \in Busy \ disturbed : \A s \in Busy \ {r} : ~Related(req[r], req[s])
Below(q) == {p \in Paths : \E a \in About(q) : Within(p, a)}
Own(r) ==
  \A s \in Requests \ {r} : pc[s] = "write" =>
    \A p \in Below(req[r]) : tree[p] # file[s]

\* What its handler saw or made is still so.
Steady(r) ==
  /\ pc[r] = "make" =>
       /\ \A p \in Paths :
            Within(Target(req[r]), p) => p \in todo[r] \/ tree[p] = Directory
       /\ \A p \in todo[r] : ~IsFile(p)
  /\ pc[r] \in {"make", "open"} /\ req[r].verb = "put" /\ ~req[r].overwrite
       => ~Exists(req[r].path)
  /\ pc[r] \in {"write", "cleanup", "digest"} => tree[req[r].path] = file[r]
  /\ pc[r] = "write" => data[file[r]] = <<>>
  /\ pc[r] = "read" =>
       IsFile(req[r].path) /\ Len(data[tree[req[r].path]]) = size[r]
  /\ pc[r] = "measure" =>
       IsFile(req[r].path) /\ result[r] = data[tree[req[r].path]]
  /\ pc[r] = "remove" /\ req[r].recursive =>
       \A p \in Below(req[r]) : Exists(p) => p \in todo[r]
  /\ pc[r] = "rename" /\ ~req[r].overwrite => ~Exists(req[r].to)

Undisturbed == \A r \in Busy \ disturbed : Own(r) /\ Steady(r)

\* While nothing is disturbed or lost, a file is what one PUT wrote, or that
\* PUT is still at it.
WrittenWhole(c) ==
  \E r \in Requests :
    /\ pc[r] = "ok" /\ req[r].verb = "put"
    /\ c = [i \in 1..req[r].blocks |-> r]
BeingWritten(p) ==
  \E s \in Requests : pc[s] \in {"write", "cleanup"} /\ req[s].path = p
Whole ==
  disturbed \cup lost = {} =>
    \A p \in Paths : tree[p] \in Requests =>
      WrittenWhole(data[tree[p]]) \/ BeingWritten(p)

Core ==
  /\ FsTypeOK /\ Placed /\ Listed /\ Small
  /\ Rooted /\ Unique /\ Fresh /\ Apart

FsInv == Core /\ Undisturbed /\ Whole /\ ReadIsWhole

-----------------------------------------------------------------------------
(* Paths                                                                   *)

LEMMA PathIsSeq ==
  ASSUME NEW p \in Paths
  PROVE  /\ p \in Seq(Names) /\ Len(p) \in Nat \ {0} /\ DOMAIN p = 1..Len(p)
         /\ p # <<>>
  BY FsRequestsAssumption

\* Within is the prefix order.
LEMMA WithinIs ==
  ASSUME NEW p \in Seq(Names), NEW q \in Seq(Names)
  PROVE  Within(p, q) <=> /\ Len(q) <= Len(p)
                          /\ \A i \in 1..Len(q) : p[i] = q[i]
  <1>1. CASE Len(q) > Len(p)
    BY <1>1 DEF Within
  <1>2. CASE Len(q) <= Len(p)
    <2> DEFINE s == SubSeq(p, 1, Len(q))
    <2>1. /\ s \in Seq(Names) /\ Len(s) = Len(q)
          /\ \A i \in 1..Len(q) : s[i] = p[i]
      <3>1. \A i \in 1..Len(q) : p[i] \in Names
        BY <1>2
      <3> QED  BY <3>1, SubSeqProperties, Z3
    <2> HIDE DEF s
    <2>2. s = q <=> \A i \in 1..Len(q) : s[i] = q[i]
      BY <2>1, SeqEqual
    <2> QED  BY <1>2, <2>1, <2>2 DEF Within, s
  <1> QED  BY <1>1, <1>2

LEMMA WithinOrder ==
  ASSUME NEW p \in Seq(Names), NEW q \in Seq(Names), NEW a \in Seq(Names)
  PROVE  /\ Within(p, p)
         /\ Within(p, q) /\ Within(q, a) => Within(p, a)
         /\ Within(p, q) /\ Within(q, p) => p = q
         /\ Within(p, q) /\ p # q => Len(q) < Len(p)
         /\ Within(p, q) /\ Within(p, a) => Within(q, a) \/ Within(a, q)
  <1>1. Within(p, p)
    BY WithinIs
  <1>2. Within(p, q) /\ Within(q, a) => Within(p, a)
    BY WithinIs
  <1>3. Within(p, q) /\ p # q => Len(q) < Len(p)
    <2> SUFFICES ASSUME Within(p, q), Len(q) = Len(p) PROVE p = q
      BY WithinIs
    <2> QED  BY WithinIs, SeqEqual
  <1>4. Within(p, q) /\ Within(q, p) => p = q
    BY <1>3, WithinIs
  <1>5. Within(p, q) /\ Within(p, a) => Within(q, a) \/ Within(a, q)
    BY WithinIs
  <1> QED  BY <1>1, <1>2, <1>3, <1>4, <1>5

\* What is above a path is a path.
LEMMA AboveIsPath ==
  ASSUME NEW p \in Paths, NEW q \in Seq(Names), q # <<>>, Within(p, q)
  PROVE  q \in Paths
  <1>1. Len(q) \in 1..Len(p)
    BY PathIsSeq, WithinIs
  <1> QED  BY <1>1, FsRequestsAssumption DEF Within

LEMMA ParentShape ==
  ASSUME NEW p \in Paths
  PROVE  /\ Parent(p) \in Seq(Names) /\ Len(Parent(p)) = Len(p) - 1
         /\ Within(p, Parent(p)) /\ Parent(p) # p
         /\ Parent(p) \in Paths \/ Parent(p) = <<>>
         /\ \A q \in Paths : Within(Parent(p), q) <=> Within(p, q) /\ q # p
  <1> DEFINE n == Len(p) - 1
  <1>0. p \in Seq(Names) /\ Len(p) \in Nat \ {0} /\ n \in Nat /\ n < Len(p)
    BY PathIsSeq
  <1>1. /\ Parent(p) \in Seq(Names) /\ Len(Parent(p)) = n
        /\ \A i \in 1..n : Parent(p)[i] = p[i]
    <2>1. \A i \in 1..n : p[i] \in Names
      BY <1>0
    <2>2. /\ SubSeq(p, 1, n) \in Seq(Names)
          /\ Len(SubSeq(p, 1, n)) = IF 1 <= n THEN n - 1 + 1 ELSE 0
          /\ \A i \in 1..(n - 1 + 1) : SubSeq(p, 1, n)[i] = p[1 + i - 1]
      BY <1>0, <2>1, SubSeqProperties, Z3
    <2>3. Parent(p) = SubSeq(p, 1, n)
      BY DEF Parent
    <2> HIDE DEF n
    <2> QED  BY <1>0, <2>2, <2>3
  <1>2. Within(p, Parent(p)) /\ Parent(p) # p
    BY <1>0, <1>1, WithinIs
  <1>3. Parent(p) \in Paths \/ Parent(p) = <<>>
    BY <1>1, <1>2, AboveIsPath
  <1>4. ASSUME NEW q \in Paths PROVE Within(Parent(p), q) <=> Within(p, q) /\ q # p
    <2>0. q \in Seq(Names) /\ Len(q) \in Nat
      BY PathIsSeq
    <2>1. ASSUME Within(Parent(p), q) PROVE Within(p, q) /\ q # p
      <3>1. Len(q) <= n
        BY <1>1, <2>0, <2>1, WithinIs
      <3>2. Within(p, q)
        BY <1>0, <1>1, <1>2, <2>0, <2>1, WithinOrder
      <3> QED  BY <1>0, <2>0, <3>1, <3>2
    <2>2. ASSUME Within(p, q), q # p PROVE Within(Parent(p), q)
      <3>1. Len(q) < Len(p) /\ \A i \in 1..Len(q) : p[i] = q[i]
        BY <1>0, <2>0, <2>2, WithinOrder, WithinIs
      <3> QED  BY <1>0, <1>1, <2>0, <3>1, WithinIs
    <2> QED  BY <2>1, <2>2
  <1> QED  BY <1>1, <1>2, <1>3, <1>4

\* What rename() calls the entries of a directory q that is now called r.
LEMMA RenamedShape ==
  ASSUME NEW p \in Seq(Names), NEW q \in Seq(Names), NEW r \in Seq(Names),
         Within(p, q)
  PROVE  /\ Renamed(p, q, r) \in Seq(Names)
         /\ Len(Renamed(p, q, r)) = Len(r) + (Len(p) - Len(q))
         /\ \A i \in 1..Len(r) : Renamed(p, q, r)[i] = r[i]
         /\ \A i \in 1..(Len(p) - Len(q)) :
              Renamed(p, q, r)[Len(r) + i] = p[Len(q) + i]
  <1> DEFINE s == SubSeq(p, Len(q) + 1, Len(p))
  <1>0. Len(p) \in Nat /\ Len(q) \in Nat /\ Len(r) \in Nat /\ Len(q) <= Len(p)
    BY WithinIs
  <1>1. /\ s \in Seq(Names) /\ Len(s) = Len(p) - Len(q)
        /\ \A i \in 1..(Len(p) - Len(q)) : s[i] = p[Len(q) + i]
    <2>1. \A i \in (Len(q) + 1)..Len(p) : p[i] \in Names
      BY <1>0
    <2>2. /\ s \in Seq(Names)
          /\ Len(s) = IF Len(q) + 1 <= Len(p) THEN Len(p) - (Len(q) + 1) + 1 ELSE 0
          /\ \A i \in 1..(Len(p) - (Len(q) + 1) + 1) :
               s[i] = p[Len(q) + 1 + i - 1]
      BY <1>0, <2>1, SubSeqProperties, Z3
    <2> HIDE DEF s
    <2> QED  BY <1>0, <2>2
  <1> HIDE DEF s
  <1>2. Renamed(p, q, r) = r \o s
    BY DEF Renamed, s
  <1>3. /\ r \o s \in Seq(Names)
        /\ Len(r \o s) = Len(r) + Len(s)
        /\ \A i \in 1..(Len(r) + Len(s)) :
             (r \o s)[i] = IF i <= Len(r) THEN r[i] ELSE s[i - Len(r)]
    BY <1>1, ConcatProperties
  <1>4. \A i \in 1..Len(r) : (r \o s)[i] = r[i]
    BY <1>0, <1>1, <1>3
  <1>5. ASSUME NEW i \in 1..(Len(p) - Len(q))
        PROVE  (r \o s)[Len(r) + i] = p[Len(q) + i]
    <2>1. /\ Len(r) + i \in 1..(Len(r) + Len(s)) /\ ~(Len(r) + i <= Len(r))
          /\ Len(r) + i - Len(r) = i
      BY <1>0, <1>1
    <2>2. (r \o s)[Len(r) + i] = s[i]
      BY <1>3, <2>1
    <2> QED  BY <1>1, <2>2
  <1> QED  BY <1>0, <1>1, <1>2, <1>3, <1>4, <1>5

LEMMA RenamedWithin ==
  ASSUME NEW p \in Seq(Names), NEW q \in Seq(Names), NEW r \in Seq(Names),
         Within(p, q)
  PROVE  /\ Within(Renamed(p, q, r), r)
         /\ Renamed(q, q, r) = r
         /\ Renamed(p, q, q) = p
         /\ \A a \in Seq(Names) : Within(a, q) =>
              /\ Renamed(a, q, r) = Renamed(p, q, r) => a = p
              /\ Within(p, a) => Within(Renamed(p, q, r), Renamed(a, q, r))
  <1>0. Len(p) \in Nat /\ Len(q) \in Nat /\ Len(r) \in Nat /\ Len(q) <= Len(p)
    BY WithinIs
  <1>1. Within(Renamed(p, q, r), r)
    <2> DEFINE x == Renamed(p, q, r)
    <2>1. /\ x \in Seq(Names) /\ Len(x) = Len(r) + (Len(p) - Len(q))
          /\ \A i \in 1..Len(r) : x[i] = r[i]
      BY RenamedShape
    <2> HIDE DEF x
    <2>2. Len(r) <= Len(x)
      BY <1>0, <2>1
    <2>3. Within(x, r)
      BY <2>1, <2>2, WithinIs
    <2> QED  BY <2>3 DEF x
  <1>2. Renamed(q, q, r) = r
    <2>1. Within(q, q)
      BY WithinOrder
    <2>2. /\ Renamed(q, q, r) \in Seq(Names) /\ Len(Renamed(q, q, r)) = Len(r)
          /\ \A i \in 1..Len(r) : Renamed(q, q, r)[i] = r[i]
      <3>1. /\ Renamed(q, q, r) \in Seq(Names)
            /\ Len(Renamed(q, q, r)) = Len(r) + (Len(q) - Len(q))
            /\ \A i \in 1..Len(r) : Renamed(q, q, r)[i] = r[i]
        BY <2>1, RenamedShape
      <3> QED  BY <1>0, <3>1
    <2> QED  BY <2>2, SeqEqual
  <1>3. Renamed(p, q, q) = p
    <2>1. /\ Renamed(p, q, q) \in Seq(Names) /\ Len(Renamed(p, q, q)) = Len(p)
          /\ \A i \in 1..Len(q) : Renamed(p, q, q)[i] = q[i]
          /\ \A i \in 1..(Len(p) - Len(q)) :
               Renamed(p, q, q)[Len(q) + i] = p[Len(q) + i]
      <3>1. /\ Renamed(p, q, q) \in Seq(Names)
            /\ Len(Renamed(p, q, q)) = Len(q) + (Len(p) - Len(q))
            /\ \A i \in 1..Len(q) : Renamed(p, q, q)[i] = q[i]
            /\ \A i \in 1..(Len(p) - Len(q)) :
                 Renamed(p, q, q)[Len(q) + i] = p[Len(q) + i]
        BY RenamedShape
      <3> QED  BY <1>0, <3>1
    <2>2. ASSUME NEW i \in 1..Len(p) PROVE Renamed(p, q, q)[i] = p[i]
      <3>1. CASE i <= Len(q)
        BY <1>0, <2>1, <3>1, WithinIs
      <3>2. CASE i > Len(q)
        <4>1. i - Len(q) \in 1..(Len(p) - Len(q)) /\ Len(q) + (i - Len(q)) = i
          BY <1>0, <3>2
        <4> QED  BY <2>1, <4>1
      <3> QED  BY <1>0, <3>1, <3>2
    <2> QED  BY <2>1, <2>2, SeqEqual
  <1>4. ASSUME NEW a \in Seq(Names), Within(a, q)
        PROVE  /\ Renamed(a, q, r) = Renamed(p, q, r) => a = p
               /\ Within(p, a) => Within(Renamed(p, q, r), Renamed(a, q, r))
    <2>0. /\ Len(a) \in Nat /\ Len(q) <= Len(a)
          /\ \A i \in 1..Len(q) : a[i] = q[i] /\ p[i] = q[i]
      BY <1>4, WithinIs
    <2>1. ASSUME Renamed(a, q, r) = Renamed(p, q, r) PROVE a = p
      <3>1. Len(a) = Len(p)
        <4>1. /\ Len(Renamed(a, q, r)) = Len(r) + (Len(a) - Len(q))
              /\ Len(Renamed(p, q, r)) = Len(r) + (Len(p) - Len(q))
          BY <1>4, RenamedShape
        <4> QED  BY <1>0, <2>0, <2>1, <4>1
      <3>2. \A i \in 1..(Len(p) - Len(q)) : a[Len(q) + i] = p[Len(q) + i]
        <4>1. \A i \in 1..(Len(a) - Len(q)) :
                Renamed(a, q, r)[Len(r) + i] = a[Len(q) + i]
          BY <1>4, RenamedShape
        <4>2. \A i \in 1..(Len(p) - Len(q)) :
                Renamed(p, q, r)[Len(r) + i] = p[Len(q) + i]
          BY RenamedShape
        <4> QED  BY <2>1, <3>1, <4>1, <4>2
      <3>3. ASSUME NEW i \in 1..Len(p) PROVE a[i] = p[i]
        <4>1. CASE i <= Len(q)
          BY <1>0, <2>0, <4>1
        <4>2. CASE i > Len(q)
          <5>1. i - Len(q) \in 1..(Len(p) - Len(q)) /\ Len(q) + (i - Len(q)) = i
            BY <1>0, <4>2
          <5> QED  BY <3>2, <5>1
        <4> QED  BY <1>0, <4>1, <4>2
      <3> QED  BY <3>1, <3>3, SeqEqual
    <2>2. ASSUME Within(p, a) PROVE Within(Renamed(p, q, r), Renamed(a, q, r))
      <3> DEFINE x == Renamed(p, q, r)
                 y == Renamed(a, q, r)
      <3>1. /\ x \in Seq(Names) /\ Len(x) = Len(r) + (Len(p) - Len(q))
            /\ \A i \in 1..Len(r) : x[i] = r[i]
            /\ \A i \in 1..(Len(p) - Len(q)) : x[Len(r) + i] = p[Len(q) + i]
        BY RenamedShape, ZenonT(30)
      <3>2. /\ y \in Seq(Names) /\ Len(y) = Len(r) + (Len(a) - Len(q))
            /\ \A i \in 1..Len(r) : y[i] = r[i]
            /\ \A i \in 1..(Len(a) - Len(q)) : y[Len(r) + i] = a[Len(q) + i]
        BY <1>4, RenamedShape, ZenonT(30)
      <3>3. Len(a) <= Len(p) /\ \A i \in 1..Len(a) : p[i] = a[i]
        BY <2>2, WithinIs
      <3> HIDE DEF x, y
      <3>4. ASSUME NEW i \in 1..Len(y) PROVE x[i] = y[i]
        <4>1. CASE i <= Len(r)
          BY <1>0, <3>1, <3>2, <4>1
        <4>2. CASE i > Len(r)
          <5> DEFINE j == i - Len(r)
          <5>1. /\ j \in 1..(Len(a) - Len(q)) /\ j \in 1..(Len(p) - Len(q))
                /\ Len(r) + j = i /\ Len(q) + j \in 1..Len(a)
            BY <1>0, <2>0, <3>2, <3>3, <4>2
          <5> HIDE DEF j
          <5>2. x[i] = p[Len(q) + j] /\ y[i] = a[Len(q) + j]
            BY <3>1, <3>2, <5>1
          <5> QED  BY <3>3, <5>1, <5>2
        <4> QED  BY <1>0, <3>2, <4>1, <4>2
      <3>5. Within(x, y)
        <4>1. Len(y) <= Len(x)
          BY <1>0, <2>0, <3>1, <3>2, <3>3
        <4> QED  BY <3>1, <3>2, <3>4, <4>1, WithinIs
      <3> QED  BY <3>5 DEF x, y
    <2> QED  BY <2>1, <2>2
  <1> QED  BY <1>1, <1>2, <1>3, <1>4

-----------------------------------------------------------------------------
(* Requests, files and contents                                            *)

LEMMA AskedIs ==
  ASSUME NEW q \in Asked
  PROVE  /\ q.path \in Paths /\ q.path \in About(q) /\ About(q) \subseteq Paths
         /\ q.verb \in {"put", "move", "delete", "mkdir", "get", "hash"}
         /\ q.verb = "put" => q.blocks \in 0..MaxBlocks /\ q.overwrite \in BOOLEAN
         /\ q.verb = "move" => /\ q.to \in Paths /\ q.to \in About(q)
                               /\ q.overwrite \in BOOLEAN
         /\ q.verb = "delete" => q.recursive \in BOOLEAN
         /\ q.verb # "move" => About(q) = {q.path}
  <1>1. q \in PutRequest \cup MoveRequest \cup DeleteRequest \cup PathRequest
    BY FsRequestsAssumption DEF Request
  <1>2. CASE q \in PutRequest
    BY <1>2 DEF PutRequest, About
  <1>3. CASE q \in MoveRequest
    BY <1>3 DEF MoveRequest, About
  <1>4. CASE q \in DeleteRequest
    BY <1>4 DEF DeleteRequest, About
  <1>5. CASE q \in PathRequest
    BY <1>5 DEF PathRequest, About
  <1> QED  BY <1>1, <1>2, <1>3, <1>4, <1>5

\* A path is below or above the other of two that have one below both.
LEMMA PathOrder ==
  ASSUME NEW p \in Paths, NEW q \in Paths, NEW a \in Paths
  PROVE  /\ Within(p, p)
         /\ Within(p, q) /\ Within(q, a) => Within(p, a)
         /\ Within(p, q) /\ Within(q, p) => p = q
         /\ Within(p, q) /\ p # q => Len(q) < Len(p)
         /\ Within(p, q) /\ Within(p, a) => Within(q, a) \/ Within(a, q)
  BY PathIsSeq, WithinOrder

LEMMA FileIs ==
  ASSUME FsTypeOK, NEW p \in Paths
  PROVE  /\ IsFile(p) <=> tree[p] \in Requests
         /\ Exists(p) <=> tree[p] \in Requests \cup {Directory}
         /\ tree[p] \in Requests => Exists(p)
         /\ IsDirectory(p) <=> tree[p] = Directory
         /\ Directory \notin Requests /\ None \notin Requests /\ None # Directory
  BY FsRequestsAssumption DEF FsTypeOK, IsFile, Exists, IsDirectory

LEMMA OverwrittenShape ==
  ASSUME NEW c \in Seq(Requests), NEW r \in Requests, NEW n \in Nat
  PROVE  /\ Overwritten(c, r, n) \in Seq(Requests)
         /\ Len(Overwritten(c, r, n)) = IF Len(c) > n THEN Len(c) ELSE n
  <1> DEFINE m == IF Len(c) > n THEN Len(c) ELSE n
             w == [i \in 1..m |-> IF i <= n THEN r ELSE c[i]]
  <1>1. m \in Nat /\ w \in [1..m -> Requests]
    OBVIOUS
  <1>2. w \in Seq(Requests) /\ Len(w) = m
    BY <1>1, IsASeq, LenProperties
  <1>3. Overwritten(c, r, n) = w
    BY DEF Overwritten
  <1> QED  BY <1>2, <1>3

LEMMA OverwrittenEmpty ==
  ASSUME NEW r \in Requests, NEW n \in Nat
  PROVE  Overwritten(<<>>, r, n) = [i \in 1..n |-> r]
  <1> DEFINE m == IF Len(<<>>) > n THEN Len(<<>>) ELSE n
  <1>1. m = n
    OBVIOUS
  <1>2. [i \in 1..n |-> IF i <= n THEN r ELSE <<>>[i]] = [i \in 1..n |-> r]
    OBVIOUS
  <1>3. Overwritten(<<>>, r, n) = [i \in 1..m |-> IF i <= n THEN r ELSE <<>>[i]]
    BY DEF Overwritten
  <1> HIDE DEF m
  <1> QED  BY <1>1, <1>2, <1>3

-----------------------------------------------------------------------------
(* What a step of a handler changes                                        *)

Same(r) ==
  /\ pc'[r] = pc[r] /\ file'[r] = file[r] /\ size'[r] = size[r]
  /\ result'[r] = result[r] /\ todo'[r] = todo[r]

\* A handler changes what is its own.
LEMMA HandlerFrame ==
  ASSUME FsTypeOK, NEW s \in Requests, Handler(s)
  PROVE  /\ s \in Busy
         /\ req' = req /\ disturbed' = disturbed
         /\ lost' \in SUBSET Requests /\ lost \subseteq lost'
         /\ \A r \in Requests \ {s} : Same(r)
  <1> USE DEF FsTypeOK, Busy, Ends, At, Go, Same, history
  <1>1. CASE PutChecks(s) \/ MkdirChecks(s) \/ DirectoryMade(s)
    BY <1>1 DEF PutChecks, MkdirChecks, DirectoryMade, CreatesDirectories
  <1>2. CASE PutOpens(s) \/ PutOpenFails(s) \/ PutWrites(s) \/ PutCleansUp(s)
    BY <1>2 DEF PutOpens, PutOpenFails, PutWrites, PutCleansUp
  <1>3. CASE PutLoses(s) \/ PutWriteFails(s)
    BY <1>3 DEF PutLoses, PutWriteFails, AfterFailedWrite
  <1>4. CASE GetMeasures(s) \/ GetReads(s) \/ HashOpens(s) \/ HashReads(s)
             \/ HashMeasures(s)
    BY <1>4 DEF GetMeasures, GetReads, HashOpens, HashReads, HashMeasures
  <1>5. CASE DeleteChecks(s) \/ DeleteRemoves(s)
    BY <1>5 DEF DeleteChecks, DeleteRemoves
  <1>6. CASE MoveChecks(s) \/ MoveRenames(s)
    BY <1>6 DEF MoveChecks, MoveRenames
  <1> QED  BY <1>1, <1>2, <1>3, <1>4, <1>5, <1>6 DEF Handler

\* The ways a handler changes the tree.
Makes(s, p) ==
  /\ At(s, "make") /\ p \in todo[s] /\ ~MkdirFails(p)
  /\ tree' = [tree EXCEPT ![p] = Directory]
Removes(s, p) ==
  /\ pc[s] \in {"cleanup", "remove"}
  /\ Within(p, req[s].path) /\ Removable(p) /\ tree' = Removed(p)
Moves(s) ==
  /\ At(s, "rename") /\ Renames(req[s].path, req[s].to)
  /\ tree' = AfterRename(req[s].path, req[s].to)

LEMMA TreeKinds ==
  ASSUME Core, NEW s \in Requests, Handler(s)
  PROVE  \/ tree' = tree
         \/ \E p \in Paths : Makes(s, p)
         \/ PutOpens(s)
         \/ \E p \in Paths : Removes(s, p)
         \/ Moves(s)
  <1>0. s \in Busy /\ req[s] \in Asked
    BY HandlerFrame DEF Core, Placed, Busy
  <1>00. req[s].path \in Paths
    BY <1>0, AskedIs
  <1>1. CASE PutChecks(s) \/ MkdirChecks(s) \/ PutOpenFails(s) \/ PutWrites(s)
             \/ PutLoses(s) \/ PutWriteFails(s) \/ GetMeasures(s) \/ GetReads(s)
             \/ HashOpens(s) \/ HashReads(s) \/ HashMeasures(s)
             \/ DeleteChecks(s) \/ MoveChecks(s)
    BY <1>1 DEF PutChecks, MkdirChecks, PutOpenFails, PutWrites, PutLoses,
       PutWriteFails, GetMeasures, GetReads, HashOpens, HashReads, HashMeasures,
       DeleteChecks, MoveChecks
  <1>2. CASE DirectoryMade(s)
    <2>1. todo[s] \subseteq Paths
      BY DEF Core, FsTypeOK
    <2> QED  BY <1>2, <2>1 DEF DirectoryMade, Makes, Outermost
  <1>3. CASE PutCleansUp(s)
    <2>1. Within(req[s].path, req[s].path)
      BY <1>00, PathOrder
    <2> QED  BY <1>00, <1>3, <2>1 DEF PutCleansUp, Removes, At
  <1>4. CASE DeleteRemoves(s)
    <2>1. At(s, "remove")
      BY <1>4 DEF DeleteRemoves
    <2>2. todo[s] \subseteq {p \in Paths : Within(p, req[s].path)}
      BY <2>1 DEF Core, Listed, At
    <2> QED  BY <1>4, <2>1, <2>2 DEF DeleteRemoves, Removes, At
  <1>5. CASE MoveRenames(s)
    BY <1>5 DEF MoveRenames, Moves
  <1>6. CASE PutOpens(s)
    BY <1>6
  <1> QED  BY <1>1, <1>2, <1>3, <1>4, <1>5, <1>6 DEF Handler

\* rename() puts what is below one path below another; the two are apart.
LEMMA RenameShape ==
  ASSUME Core, NEW from \in Paths, NEW to \in Paths, Renames(from, to)
  PROVE  /\ AfterRename(from, to) \in [Paths -> Requests \cup {Directory, None}]
         /\ from = to => AfterRename(from, to) = tree
         /\ from # to => ~Within(to, from) /\ ~Within(from, to)
         /\ from # to => \A p \in Paths :
              /\ Within(p, to) =>
                   /\ ~Within(p, from)
                   /\ \/ AfterRename(from, to)[p] = None
                      \/ /\ Renamed(p, to, from) \in Paths
                         /\ AfterRename(from, to)[p] = tree[Renamed(p, to, from)]
              /\ Within(p, from) => AfterRename(from, to)[p] = None
              /\ ~Within(p, to) /\ ~Within(p, from) =>
                   AfterRename(from, to)[p] = tree[p]
         /\ AfterRename(from, to)[to] = tree[from]
  <1>0. /\ from \in Seq(Names) /\ to \in Seq(Names)
        /\ \A p \in Paths : p \in Seq(Names)
        /\ tree \in [Paths -> Requests \cup {Directory, None}]
    BY PathIsSeq DEF Core, FsTypeOK
  <1>1. AfterRename(from, to) \in [Paths -> Requests \cup {Directory, None}]
    BY <1>0 DEF AfterRename
  <1>2. ASSUME from = to PROVE AfterRename(from, to) = tree
    <2>1. \A p \in Paths : Within(p, to) => Renamed(p, to, from) = p
      BY <1>0, <1>2, RenamedWithin
    <2>2. \A p \in Paths : AfterRename(from, to)[p] = tree[p]
      BY <1>2, <2>1 DEF AfterRename
    <2> QED  BY <1>0, <1>1, <2>2
  <1>3. ASSUME from # to PROVE ~Within(to, from) /\ ~Within(from, to)
    <2>1. ~Within(to, from) /\ Exists(from) /\ (Exists(to) => Removable(to))
      BY <1>3 DEF Renames
    <2>2. ASSUME Within(from, to) PROVE FALSE
      <3>1. tree[to] = Directory
        BY <1>3, <2>1, <2>2 DEF Core, Rooted
      <3>2. Exists(to)
        BY <3>1, FsRequestsAssumption DEF Exists
      <3> QED  BY <1>3, <2>1, <2>2, <3>2 DEF Removable, Children
    <2> QED  BY <2>1, <2>2
  <1>4. ASSUME from # to, NEW p \in Paths, Within(p, to) PROVE ~Within(p, from)
    BY <1>3, <1>4, PathOrder
  <1>5. AfterRename(from, to)[to] = tree[from]
    <2>1. Within(to, to) /\ Renamed(to, to, from) = from
      BY <1>0, PathOrder, RenamedWithin
    <2> QED  BY <2>1 DEF AfterRename
  <1> QED  BY <1>1, <1>2, <1>3, <1>4, <1>5 DEF AfterRename

\* The part of the tree a step changes, and where what is there comes from.
Reached(s) ==
  \A p \in Paths : tree'[p] # tree[p] =>
    \/ p \in Below(req[s])
    \/ Within(req[s].path, p) /\ tree[p] = None /\ tree'[p] = Directory
Derived(s) ==
  \A p \in Below(req[s]) :
    \/ tree'[p] \in {None, Directory}
    \/ \E q \in Below(req[s]) : tree'[p] = tree[q]
    \/ PutOpens(s) /\ p = req[s].path /\ tree'[p] = s
TreeType == tree \in [Paths -> Requests \cup {Directory, None}]
Grown(s) == TreeType' /\ Reached(s) /\ Derived(s) /\ Rooted' /\ Unique'

LEMMA MakesGrown ==
  ASSUME Core, NEW s \in Requests, NEW d \in Paths, Makes(s, d)
  PROVE  Grown(s)
  <1>0. /\ TreeType /\ Rooted /\ Unique
        /\ tree' = [tree EXCEPT ![d] = Directory]
    BY DEF Core, FsTypeOK, TreeType, Makes
  <1>1. s \in Busy /\ req[s] \in Asked /\ req[s].path \in Paths
    BY AskedIs DEF Core, Placed, Makes, At, Busy, Ends
  <1>2. tree[d] \in {None, Directory}
    BY <1>0, FsRequestsAssumption DEF Makes, MkdirFails, IsFile, IsDirectory, Exists, TreeType
  <1>3. Within(req[s].path, d)
    <2>1. Within(Target(req[s]), d)
      BY DEF Core, Listed, Makes, At
    <2> QED  BY <1>1, <2>1, ParentShape DEF Target
  <1>4. TreeType'
    BY <1>0 DEF TreeType
  <1>5. Reached(s)
    BY <1>0, <1>2, <1>3 DEF Reached, TreeType
  <1>6. Derived(s)
    BY <1>0 DEF Derived, Below, TreeType
  <1>7. ASSUME NEW p \in Paths, NEW q \in Paths, tree'[p] # None, Within(p, q), p # q
        PROVE  tree'[q] = Directory
    <2>1. CASE p = d
      <3>1. Within(Parent(d), q) /\ q # d
        BY <1>7, <2>1, ParentShape
      <3>2. Parent(d) \in Paths
        <4>1. Parent(d) # <<>>
          BY <3>1, PathIsSeq DEF Within
        <4> QED  BY <4>1, ParentShape
      <3>3. tree[Parent(d)] = Directory
        BY <3>2 DEF Makes, MkdirFails, IsDirectory
      <3>4. tree[q] = Directory
        BY <1>0, <3>1, <3>2, <3>3, FsRequestsAssumption DEF Rooted, Exists
      <3> QED  BY <1>0, <3>1, <3>4 DEF TreeType
    <2>2. CASE p # d
      <3>1. tree[q] = Directory
        BY <1>0, <1>7, <2>2 DEF Rooted, Exists, TreeType
      <3> QED  BY <1>0, <3>1 DEF TreeType
    <2> QED  BY <2>1, <2>2
  <1>8. Rooted'
    BY <1>7 DEF Rooted, Exists
  <1>9. Unique'
    BY <1>0, FsRequestsAssumption DEF Unique, TreeType
  <1> QED  BY <1>4, <1>5, <1>6, <1>8, <1>9 DEF Grown

LEMMA RemovesGrown ==
  ASSUME Core, NEW s \in Requests, NEW d \in Paths, Removes(s, d)
  PROVE  Grown(s)
  <1>0. /\ TreeType /\ Rooted /\ Unique
        /\ tree' = [tree EXCEPT ![d] = None]
        /\ Children(d) = {}
    BY DEF Core, FsTypeOK, TreeType, Removes, Removed, Removable
  <1>1. s \in Busy /\ req[s] \in Asked /\ req[s].path \in About(req[s])
    BY AskedIs DEF Core, Placed, Removes, At, Busy, Ends
  <1>2. d \in Below(req[s])
    BY <1>1 DEF Removes, Below
  <1>3. TreeType'
    BY <1>0 DEF TreeType
  <1>4. Reached(s)
    BY <1>0, <1>2 DEF Reached, TreeType
  <1>5. Derived(s)
    BY <1>0 DEF Derived, Below, TreeType
  <1>6. ASSUME NEW p \in Paths, NEW q \in Paths, tree'[p] # None, Within(p, q), p # q
        PROVE  tree'[q] = Directory
    <2>1. p # d /\ tree[p] # None
      BY <1>0, <1>6 DEF TreeType
    <2>2. tree[q] = Directory
      BY <1>0, <1>6, <2>1 DEF Rooted, Exists
    <2>3. q # d
      BY <1>0, <1>6, <2>1 DEF Children, Exists
    <2> QED  BY <1>0, <2>2, <2>3 DEF TreeType
  <1>7. Rooted'
    BY <1>6 DEF Rooted, Exists
  <1>8. Unique'
    BY <1>0, FsRequestsAssumption DEF Unique, TreeType
  <1> QED  BY <1>3, <1>4, <1>5, <1>7, <1>8 DEF Grown

LEMMA OpensGrown ==
  ASSUME Core, NEW s \in Requests, PutOpens(s)
  PROVE  Grown(s)
  <1> DEFINE d == req[s].path
             f == IF Exists(d) THEN tree[d] ELSE s
  <1>0. /\ TreeType /\ Rooted /\ Unique
        /\ tree' = [tree EXCEPT ![d] = f]
        /\ IsDirectory(Parent(d)) /\ ~IsDirectory(d) /\ pc[s] = "open"
    BY DEF Core, FsTypeOK, TreeType, PutOpens, At
  <1>1. s \in Busy /\ req[s] \in Asked /\ d \in About(req[s]) /\ d \in Paths
    BY <1>0, AskedIs DEF Core, Placed, Busy, Ends
  <1>2. d \in Below(req[s])
    BY <1>1, PathOrder DEF Below
  <1>3. f \in Requests /\ (f = tree[d] \/ f = s) /\ tree[d] # Directory
    BY <1>0, <1>1 DEF TreeType, Exists, IsDirectory
  <1>4. \A p \in Paths : tree[p] # s
    BY <1>0 DEF Core, Fresh
  <1> HIDE DEF f
  <1>5. TreeType'
    BY <1>0, <1>3 DEF TreeType
  <1>6. Reached(s)
    BY <1>0, <1>2 DEF Reached, TreeType
  <1>7. Derived(s)
    BY <1>0, <1>1, <1>2, <1>3 DEF Derived, Below, TreeType
  <1>8. ASSUME NEW p \in Paths, NEW q \in Paths, tree'[p] # None, Within(p, q), p # q
        PROVE  tree'[q] = Directory
    <2>1. CASE p = d
      <3>1. Within(Parent(d), q) /\ q # d
        BY <1>8, <2>1, ParentShape
      <3>2. Parent(d) \in Paths
        <4>1. Parent(d) # <<>>
          BY <3>1, PathIsSeq DEF Within
        <4> QED  BY <1>1, <4>1, ParentShape
      <3>3. tree[Parent(d)] = Directory
        BY <1>0, <3>2 DEF IsDirectory
      <3>4. tree[q] = Directory
        BY <1>0, <3>1, <3>2, <3>3, FsRequestsAssumption DEF Rooted, Exists
      <3> QED  BY <1>0, <3>1, <3>4 DEF TreeType
    <2>2. CASE p # d
      <3>1. tree[q] = Directory
        BY <1>0, <1>8, <2>2 DEF Rooted, Exists, TreeType
      <3> QED  BY <1>0, <1>3, <3>1 DEF TreeType
    <2> QED  BY <2>1, <2>2
  <1>9. Rooted'
    BY <1>8 DEF Rooted, Exists
  <1>10. Unique'
    BY <1>0, <1>1, <1>3, <1>4, FsRequestsAssumption DEF Unique, TreeType
  <1> QED  BY <1>5, <1>6, <1>7, <1>9, <1>10 DEF Grown

LEMMA MovesGrown ==
  ASSUME Core, NEW s \in Requests, Moves(s)
  PROVE  Grown(s)
  <1> DEFINE from == req[s].path
             to == req[s].to
  <1>0. /\ TreeType /\ Rooted /\ Unique
        /\ tree' = AfterRename(from, to) /\ Renames(from, to) /\ pc[s] = "rename"
    BY DEF Core, FsTypeOK, TreeType, Moves, At
  <1>1. /\ s \in Busy /\ req[s] \in Asked
        /\ from \in About(req[s]) /\ from \in Paths
        /\ to \in About(req[s]) /\ to \in Paths
    BY <1>0, AskedIs DEF Core, Placed, Busy, Ends
  <1>2. CASE from = to
    <2>1. tree' = tree
      BY <1>0, <1>1, <1>2, RenameShape
    <2> QED  BY <1>0, <2>1 DEF Grown, Reached, Derived, TreeType, Rooted, Unique, Exists
  <1>3. CASE from # to
    <2>1. /\ ~Within(to, from) /\ ~Within(from, to) /\ TreeType'
          /\ \A p \in Paths :
              /\ Within(p, to) =>
                   /\ ~Within(p, from)
                   /\ \/ tree'[p] = None
                      \/ /\ Renamed(p, to, from) \in Paths
                         /\ tree'[p] = tree[Renamed(p, to, from)]
              /\ Within(p, from) => tree'[p] = None
              /\ ~Within(p, to) /\ ~Within(p, from) => tree'[p] = tree[p]
      BY <1>0, <1>1, <1>3, RenameShape DEF TreeType
    <2>2. \A p \in Paths : p \in Seq(Names)
      BY PathIsSeq
    <2>3. Reached(s)
      BY <1>1, <2>1 DEF Reached, Below
    <2>4. \A p \in Paths : Within(p, to) => Within(Renamed(p, to, from), from)
      BY <1>1, <2>2, RenamedWithin
    <2>5. Derived(s)
      BY <1>1, <2>1, <2>4 DEF Derived, Below
    <2>6. ASSUME NEW p \in Paths, NEW q \in Paths, Within(p, q), p # q,
                 tree'[p] # None
          PROVE  tree'[q] = Directory
      <3>1. CASE Within(p, to) /\ Within(q, to)
        <4> DEFINE x == Renamed(p, to, from)
                   y == Renamed(q, to, from)
        <4>1. x \in Paths /\ tree[x] # None
          BY <2>1, <2>6, <3>1
        <4>2. Within(x, y) /\ x # y
          BY <1>1, <2>2, <2>6, <3>1, RenamedWithin
        <4>3. y \in Seq(Names) /\ y # <<>>
          <5>1. y \in Seq(Names) /\ Within(y, from)
            BY <1>1, <2>2, <3>1, RenamedShape, RenamedWithin
          <5> QED  BY <1>1, <5>1, PathIsSeq, WithinIs
        <4> HIDE DEF x, y
        <4>4. y \in Paths
          BY <4>1, <4>2, <4>3, AboveIsPath
        <4>5. tree[y] = Directory
          BY <1>0, <4>1, <4>2, <4>4 DEF Rooted, Exists
        <4>6. tree'[q] = tree[y]
          <5>1. tree' = [a \in Paths |->
                   IF Within(a, to)
                   THEN LET old == Renamed(a, to, from)
                        IN  IF old \in Paths THEN tree[old] ELSE None
                   ELSE IF Within(a, from) THEN None ELSE tree[a]]
            BY <1>0 DEF AfterRename
          <5> QED  BY <3>1, <4>4, <5>1 DEF y
        <4> QED  BY <4>5, <4>6
      <3>2. CASE Within(p, to) /\ ~Within(q, to)
        <4>1. Within(to, q) /\ q # to
          BY <1>1, <2>2, <2>6, <3>2, WithinOrder
        <4>2. Within(Parent(to), q)
          BY <1>1, <4>1, ParentShape
        <4>3. Parent(to) \in Paths
          <5>1. Parent(to) # <<>>
            BY <4>2, PathIsSeq DEF Within
          <5> QED  BY <1>1, <5>1, ParentShape
        <4>4. tree[Parent(to)] = Directory
          BY <1>0, <4>3 DEF Renames, IsDirectory
        <4>5. tree[q] = Directory
          BY <1>0, <4>2, <4>3, <4>4, FsRequestsAssumption DEF Rooted, Exists
        <4>6. ~Within(q, from)
          BY <1>1, <2>1, <4>1, PathOrder
        <4> QED  BY <2>1, <3>2, <4>5, <4>6
      <3>3. CASE ~Within(p, to)
        <4>1. ~Within(q, to)
          BY <1>1, <2>6, <3>3, PathOrder
        <4>2. ~Within(p, from) /\ tree[p] # None
          BY <2>1, <2>6, <3>3
        <4>3. ~Within(q, from)
          BY <1>1, <2>6, <4>2, PathOrder
        <4>4. tree[q] = Directory
          BY <1>0, <2>6, <4>2 DEF Rooted, Exists
        <4> QED  BY <2>1, <4>1, <4>3, <4>4
      <3> QED  BY <3>1, <3>2, <3>3
    <2>7. Rooted'
      BY <2>6 DEF Rooted, Exists
    <2>8. ASSUME NEW p \in Paths, NEW q \in Paths, tree'[p] = tree'[q],
                 tree'[p] \in Requests
          PROVE  p = q
      <3>0. tree'[p] # None /\ tree'[q] # None
        BY <2>8, FsRequestsAssumption
      <3>1. CASE Within(p, to) /\ Within(q, to)
        <4>1. /\ Renamed(p, to, from) \in Paths /\ Renamed(q, to, from) \in Paths
              /\ tree[Renamed(p, to, from)] = tree[Renamed(q, to, from)]
              /\ tree[Renamed(p, to, from)] \in Requests
          BY <2>1, <2>8, <3>0, <3>1
        <4>2. Renamed(p, to, from) = Renamed(q, to, from)
          BY <1>0, <4>1 DEF Unique
        <4> QED  BY <1>1, <2>2, <3>1, <4>2, RenamedWithin
      <3>2. CASE ~Within(p, to) /\ ~Within(q, to)
        BY <1>0, <2>1, <2>8, <3>0, <3>2 DEF Unique
      <3>3. ASSUME NEW a \in {p, q}, NEW b \in {p, q}, Within(a, to), ~Within(b, to)
            PROVE  FALSE
        <4>1. /\ tree'[b] = tree[b] /\ ~Within(b, from)
              /\ Renamed(a, to, from) \in Paths
              /\ tree'[a] = tree[Renamed(a, to, from)]
          BY <2>1, <3>0, <3>3
        <4>2. Renamed(a, to, from) = b
          BY <1>0, <2>8, <4>1 DEF Unique
        <4> QED  BY <2>4, <3>3, <4>1, <4>2
      <3> QED  BY <3>1, <3>2, <3>3
    <2>9. Unique'
      BY <2>8 DEF Unique
    <2> QED  BY <2>1, <2>3, <2>5, <2>7, <2>9 DEF Grown
  <1> QED  BY <1>2, <1>3

LEMMA HandlerGrown ==
  ASSUME Core, NEW s \in Requests, Handler(s)
  PROVE  Grown(s)
  <1>1. CASE tree' = tree
    BY <1>1 DEF Core, FsTypeOK, Grown, Reached, Derived, TreeType, Rooted, Unique, Exists
  <1>2. \/ \E p \in Paths : Makes(s, p)
        \/ PutOpens(s)
        \/ \E p \in Paths : Removes(s, p)
        \/ Moves(s)
        \/ tree' = tree
    BY TreeKinds
  <1> QED  BY <1>1, <1>2, MakesGrown, OpensGrown, RemovesGrown, MovesGrown

\* Contents change where a PUT truncates the file at its path, or writes to
\* the one it has open.
Contents(s) ==
  /\ data' \in [Requests -> Seq(Requests)] /\ Small'
  /\ \A f \in Requests : data'[f] # data[f] =>
       \/ pc[s] = "write" /\ f = file[s]
       \/ PutOpens(s) /\ f = file'[s]
  /\ \A f \in Requests \cup {None} : file'[s] = f => 
       \/ f = file[s]
       \/ f \in Requests /\ f = tree'[req[s].path] /\ f \in {s, tree[req[s].path]}

LEMMA HandlerContents ==
  ASSUME Core, NEW s \in Requests, Handler(s)
  PROVE  Contents(s)
  <1>0. /\ FsTypeOK /\ Placed /\ Small /\ s \in Busy /\ req[s] \in Asked
        /\ req[s].path \in Paths /\ MaxBlocks \in Nat
    BY HandlerFrame, AskedIs, FsRequestsAssumption DEF Core, Placed, Busy
  <1>1. CASE PutOpens(s)
    <2>1. pc[s] = "open"
      BY <1>1 DEF PutOpens, At
    <2>2. file'[s] \in {s, tree[req[s].path]} /\ file'[s] \in Requests
          /\ tree'[req[s].path] = file'[s]
          /\ data' = [data EXCEPT ![file'[s]] = <<>>]
      BY <1>0, <1>1 DEF PutOpens, Truncated, FsTypeOK, Exists, IsDirectory
    <2>3. data' \in [Requests -> Seq(Requests)]
      BY <1>0, <2>2 DEF FsTypeOK
    <2>4. Small'
      BY <1>0, <2>2 DEF Small, FsTypeOK
    <2> QED  BY <1>0, <1>1, <2>2, <2>3, <2>4 DEF Contents, FsTypeOK
  <1>2. CASE PutWrites(s) \/ PutLoses(s) \/ PutWriteFails(s)
    <2>1. pc[s] = "write" /\ file' = file
      BY <1>2 DEF PutWrites, PutLoses, PutWriteFails, At
    <2>2. file[s] \in Requests /\ req[s].blocks \in 0..MaxBlocks
      BY <1>0, <2>1, AskedIs DEF Placed
    <2>3. PICK n \in 0..MaxBlocks :
            data' = [data EXCEPT ![file[s]] = Overwritten(@, s, n)]
      BY <1>0, <1>2, <2>2 DEF PutWrites, PutLoses, PutWriteFails
    <2>4. /\ data[file[s]] \in Seq(Requests) /\ Len(data[file[s]]) <= MaxBlocks
          /\ n \in Nat /\ n <= MaxBlocks
      BY <1>0, <2>2 DEF FsTypeOK, Small
    <2>5. /\ Overwritten(data[file[s]], s, n) \in Seq(Requests)
          /\ Len(Overwritten(data[file[s]], s, n)) <= MaxBlocks
      BY <2>4, OverwrittenShape
    <2>6. data' \in [Requests -> Seq(Requests)]
      BY <1>0, <2>2, <2>3, <2>5 DEF FsTypeOK
    <2>7. Small'
      BY <1>0, <2>2, <2>3, <2>5 DEF Small, FsTypeOK
    <2> QED  BY <1>0, <2>1, <2>2, <2>3, <2>6, <2>7 DEF Contents, FsTypeOK
  <1>3. CASE HashOpens(s)
    <2>1. /\ data' = data /\ tree' = tree
          /\ \/ file' = file
             \/ /\ file' = [file EXCEPT ![s] = tree[req[s].path]]
                /\ IsFile(req[s].path)
      BY <1>3 DEF HashOpens
    <2> QED  BY <1>0, <2>1 DEF Contents, FsTypeOK, Small, IsFile, Exists, IsDirectory
  <1>4. CASE PutChecks(s) \/ MkdirChecks(s) \/ PutOpenFails(s) \/ PutCleansUp(s)
             \/ GetMeasures(s) \/ GetReads(s) \/ DirectoryMade(s)
             \/ HashReads(s) \/ HashMeasures(s)
             \/ DeleteChecks(s) \/ DeleteRemoves(s) \/ MoveChecks(s)
             \/ MoveRenames(s)
    <2>1. data' = data /\ file' = file
      BY <1>4 DEF PutChecks, MkdirChecks, PutOpenFails, PutCleansUp,
         GetMeasures, GetReads, DirectoryMade, HashReads, HashMeasures,
         DeleteChecks, DeleteRemoves, MoveChecks, MoveRenames
    <2> QED  BY <1>0, <2>1 DEF Contents, FsTypeOK, Small
  <1> QED  BY <1>1, <1>2, <1>3, <1>4 DEF Handler

LEMMA DoomedIs ==
  ASSUME NEW q \in Asked
  PROVE  /\ q.path \in Doomed(q)
         /\ Doomed(q) \subseteq {p \in Paths : Within(p, q.path)}
  BY AskedIs, PathOrder DEF Doomed, Children

LEMMA MissingIs ==
  ASSUME NEW q \in Asked, q.verb \in {"put", "mkdir"}
  PROVE  Missing(Target(q)) \subseteq {p \in Paths : Within(Target(q), p)}
  BY DEF Missing

\* The types and places of a handler's own state.
LEMMA HandlerPlaces ==
  ASSUME Core, NEW s \in Requests, Handler(s)
  PROVE  FsTypeOK' /\ Placed' /\ Listed' /\ Busy' \subseteq Busy
  <1>0. /\ FsTypeOK /\ Placed /\ Listed /\ Small /\ s \in Busy
        /\ req[s] \in Asked /\ req[s].path \in Paths /\ MaxBlocks \in Nat
    BY HandlerFrame, AskedIs, FsRequestsAssumption DEF Core, Placed, Busy
  <1>1. /\ TreeType' /\ data' \in [Requests -> Seq(Requests)]
        /\ req' = req /\ disturbed' = disturbed /\ lost' \in SUBSET Requests
        /\ \A r \in Requests \ {s} : Same(r)
    BY <1>0, HandlerGrown, HandlerContents, HandlerFrame DEF Grown, Contents
  <1> DEFINE Types ==
        /\ pc' \in [Requests -> {"new", "put", "mkdir", "make", "open", "write",
                          "cleanup", "get", "read", "hash", "digest",
                          "measure", "delete", "remove", "move", "rename"}
                         \cup Ends]
        /\ file' \in [Requests -> Requests \cup {None}]
        /\ size' \in [Requests -> 0..MaxBlocks]
        /\ result' \in [Requests -> Seq(Requests)]
        /\ todo' \in [Requests -> SUBSET Paths]
             Local ==
        /\ pc'[s] # "new"
        /\ pc'[s] \in {"put", "open", "write", "cleanup"} => req[s].verb = "put"
        /\ pc'[s] = "mkdir" => req[s].verb = "mkdir"
        /\ pc'[s] = "make" =>
             /\ req[s].verb \in {"put", "mkdir"}
             /\ todo'[s] \subseteq {p \in Paths : Within(Target(req[s]), p)}
        /\ pc'[s] \in {"get", "read"} => req[s].verb = "get"
        /\ pc'[s] \in {"hash", "digest", "measure"} => req[s].verb = "hash"
        /\ pc'[s] \in {"delete", "remove"} => req[s].verb = "delete"
        /\ pc'[s] \in {"move", "rename"} => req[s].verb = "move"
        /\ pc'[s] \in {"write", "cleanup", "digest"} => file'[s] \in Requests
        /\ size'[s] > 0 => pc'[s] \in {"read", "ok", "failed"}
        /\ pc'[s] = "remove" =>
             /\ req[s].path \in todo'[s]
             /\ todo'[s] \subseteq {p \in Paths : Within(p, req[s].path)}
  <1>2. ASSUME Types, Local PROVE FsTypeOK' /\ Placed' /\ Listed' /\ Busy' \subseteq Busy
    <2>1. FsTypeOK'
      BY <1>0, <1>1, <1>2 DEF FsTypeOK, TreeType
    <2>2. Placed'
      BY <1>0, <1>1, <1>2 DEF Placed, Same, Busy
    <2>3. Listed'
      BY <1>0, <1>1, <1>2 DEF Listed, Same
    <2>4. Busy' \subseteq Busy
      BY <1>0, <1>1, <1>2 DEF Busy, Same
    <2> QED  BY <2>1, <2>2, <2>3, <2>4
  <1>3. /\ size[s] > 0 => pc[s] \in {"read", "ok", "failed"}
        /\ pc[s] \in {"write", "cleanup", "digest"} => file[s] \in Requests
    BY <1>0 DEF Placed
  <1> USE DEF At, Go, Ends
  <1>4. CASE PutChecks(s)
    <2>1. pc[s] = "put" /\ req[s].verb = "put"
      BY <1>0, <1>4 DEF PutChecks, Placed
    <2>2. Target(req[s]) = Parent(req[s].path)
      BY <2>1 DEF Target
    <2>3. Missing(Parent(req[s].path))
            \subseteq {p \in Paths : Within(Target(req[s]), p)}
      BY <1>0, <2>1, <2>2, MissingIs
    <2>4. size[s] = 0 /\ Missing(Parent(req[s].path)) \in SUBSET Paths
      BY <1>0, <1>3, <2>1 DEF FsTypeOK, Missing
    <2>5. /\ UNCHANGED <<file, size, result>>
          /\ \/ (Go(s, "refused") \/ Go(s, "failed") \/ Go(s, "open"))
                /\ todo' \in [Requests -> SUBSET Paths]
             \/ /\ Go(s, "make")
                /\ todo' = [todo EXCEPT ![s] = Missing(Parent(req[s].path))]
      BY <1>0, <1>4, <2>4 DEF PutChecks, CreatesDirectories, FsTypeOK
    <2>6. Types
      BY <1>0, <2>4, <2>5 DEF FsTypeOK
    <2>7. /\ pc'[s] \in {"refused", "failed", "open", "ok", "make"} /\ size'[s] = 0
          /\ pc'[s] = "open" => req[s].verb = "put"
          /\ pc'[s] = "make" =>
               todo'[s] \subseteq {p \in Paths : Within(Target(req[s]), p)}
      BY <1>0, <2>1, <2>3, <2>4, <2>5 DEF FsTypeOK
    <2>8. Local
      BY <2>1, <2>7
    <2> QED  BY <1>2, <2>6, <2>8
  <1>5. CASE MkdirChecks(s)
    <2>1. pc[s] = "mkdir" /\ req[s].verb = "mkdir"
      BY <1>0, <1>5 DEF MkdirChecks, Placed
    <2>2. Target(req[s]) = req[s].path
      BY <2>1 DEF Target
    <2>3. Missing(req[s].path)
            \subseteq {p \in Paths : Within(Target(req[s]), p)}
      BY <1>0, <2>1, <2>2, MissingIs
    <2>4. size[s] = 0 /\ Missing(req[s].path) \in SUBSET Paths
      BY <1>0, <1>3, <2>1 DEF FsTypeOK, Missing
    <2>5. /\ UNCHANGED <<file, size, result>>
          /\ \/ (Go(s, "ok") \/ Go(s, "failed"))
                /\ todo' \in [Requests -> SUBSET Paths]
             \/ /\ Go(s, "make")
                /\ todo' = [todo EXCEPT ![s] = Missing(req[s].path)]
      BY <1>0, <1>5, <2>4 DEF MkdirChecks, CreatesDirectories, FsTypeOK
    <2>6. Types
      BY <1>0, <2>4, <2>5 DEF FsTypeOK
    <2>7. /\ pc'[s] \in {"refused", "failed", "open", "ok", "make"} /\ size'[s] = 0
          /\ pc'[s] = "open" => req[s].verb = "put"
          /\ pc'[s] = "make" =>
               todo'[s] \subseteq {p \in Paths : Within(Target(req[s]), p)}
      BY <1>0, <2>1, <2>3, <2>4, <2>5 DEF FsTypeOK
    <2>8. Local
      BY <2>1, <2>7
    <2> QED  BY <1>2, <2>6, <2>8
  <1>6. CASE DirectoryMade(s)
    <2>1. /\ pc[s] = "make" /\ req[s].verb \in {"put", "mkdir"}
          /\ todo[s] \subseteq {p \in Paths : Within(Target(req[s]), p)}
      BY <1>0, <1>6 DEF DirectoryMade, Placed, Listed
    <2>2. /\ UNCHANGED <<file, size, result>> /\ size[s] = 0
          /\ todo' = [todo EXCEPT ![s] = todo'[s]] /\ todo'[s] \subseteq todo[s]
      BY <1>0, <1>3, <1>6, <2>1 DEF DirectoryMade, FsTypeOK
    <2>3. \/ Go(s, "failed") \/ Go(s, "make") \/ Go(s, "ok")
          \/ Go(s, "open") /\ req[s].verb = "put"
      BY <1>6 DEF DirectoryMade
    <2>4. Types
      BY <1>0, <2>2, <2>3 DEF FsTypeOK
    <2>5. /\ pc'[s] \in {"failed", "make", "ok", "open"} /\ size'[s] = 0
          /\ pc'[s] = "open" => req[s].verb = "put"
      BY <1>0, <2>2, <2>3 DEF FsTypeOK
    <2>6. Local
      BY <2>1, <2>2, <2>5
    <2> QED  BY <1>2, <2>4, <2>6
  <1>7. CASE PutOpens(s)
    <2>1. pc[s] = "open" /\ req[s].verb = "put"
      BY <1>0, <1>7 DEF PutOpens, Placed
    <2>2. file' = [file EXCEPT ![s] = file'[s]] /\ file'[s] \in Requests
      BY <1>0, <1>7 DEF PutOpens, FsTypeOK, Exists, IsDirectory
    <2>3. Types /\ Local
      BY <1>0, <1>3, <1>7, <2>1, <2>2 DEF PutOpens, FsTypeOK
    <2> QED  BY <1>2, <2>3
  <1>8. CASE PutOpenFails(s) \/ PutWrites(s) \/ PutLoses(s) \/ PutWriteFails(s)
             \/ PutCleansUp(s)
    <2>1. pc[s] \in {"open", "write", "cleanup"} /\ req[s].verb = "put"
      BY <1>0, <1>8 DEF PutOpenFails, PutWrites, PutLoses, PutWriteFails,
         PutCleansUp, Placed
    <2>2. /\ UNCHANGED <<file, size, result, todo>>
          /\ \/ Go(s, "ok") \/ Go(s, "failed")
             \/ Go(s, "cleanup") /\ pc[s] = "write"
      BY <1>8 DEF PutOpenFails, PutWrites, PutLoses, PutWriteFails,
         PutCleansUp, AfterFailedWrite
    <2>3. size[s] = 0 /\ (pc'[s] = "cleanup" => file[s] \in Requests)
      BY <1>0, <1>3, <2>1, <2>2 DEF FsTypeOK
    <2>4. Types
      BY <1>0, <2>2 DEF FsTypeOK
    <2>5. /\ pc'[s] \in {"failed", "ok", "cleanup"} /\ size'[s] = 0
          /\ pc'[s] = "cleanup" => file'[s] \in Requests
      BY <1>0, <2>2, <2>3 DEF FsTypeOK
    <2>6. Local
      BY <2>1, <2>5
    <2> QED  BY <1>2, <2>4, <2>6
  <1>9. CASE GetMeasures(s)
    <2>1. pc[s] = "get" /\ req[s].verb = "get"
      BY <1>0, <1>9 DEF GetMeasures, Placed
    <2>2. IsFile(req[s].path) => Len(data[tree[req[s].path]]) \in 0..MaxBlocks
      <3>1. IsFile(req[s].path) => tree[req[s].path] \in Requests
        BY <1>0, FileIs
      <3> QED  BY <1>0, <3>1 DEF Small, FsTypeOK
    <2>3. /\ UNCHANGED <<file, result, todo>>
          /\ \/ UNCHANGED size /\ (Go(s, "ok") \/ Go(s, "refused"))
             \/ /\ Go(s, "read")
                /\ size' = [size EXCEPT ![s] = size'[s]]
                /\ size'[s] \in 0..MaxBlocks
      BY <1>0, <1>9, <2>2 DEF GetMeasures, FsTypeOK
    <2>4. Types
      BY <1>0, <2>3 DEF FsTypeOK
    <2>5. pc'[s] \in {"ok", "refused", "read"}
      BY <1>0, <2>3 DEF FsTypeOK
    <2>6. size[s] = 0 /\ (size'[s] > 0 => pc'[s] = "read")
      BY <1>0, <1>3, <2>1, <2>3 DEF FsTypeOK
    <2>7. Local
      BY <2>1, <2>5, <2>6
    <2> QED  BY <1>2, <2>4, <2>7
  <1>10. CASE GetReads(s)
    <2>1. pc[s] = "read" /\ req[s].verb = "get"
      BY <1>0, <1>10 DEF GetReads, Placed
    <2>2. IsFile(req[s].path) /\ Len(data[tree[req[s].path]]) >= size[s]
            => SubSeq(data[tree[req[s].path]], 1, size[s]) \in Seq(Requests)
      <3>1. IsFile(req[s].path) => tree[req[s].path] \in Requests
        BY <1>0, FileIs
      <3>2. ASSUME NEW c \in Seq(Requests), NEW n \in Nat, Len(c) >= n
            PROVE  SubSeq(c, 1, n) \in Seq(Requests)
        <4>1. \A i \in 1..n : c[i] \in Requests
          BY <3>2
        <4> QED  BY <3>2, <4>1, SubSeqProperties, Z3
      <3> QED  BY <1>0, <3>1, <3>2 DEF FsTypeOK
    <2>3. Types /\ Local
      BY <1>0, <1>10, <2>1, <2>2 DEF GetReads, FsTypeOK
    <2> QED  BY <1>2, <2>3
  <1>11. CASE HashOpens(s)
    <2>1. pc[s] = "hash" /\ req[s].verb = "hash"
      BY <1>0, <1>11 DEF HashOpens, Placed
    <2>2. IsFile(req[s].path) => tree[req[s].path] \in Requests
      BY <1>0, FileIs
    <2>3. /\ UNCHANGED <<size, result, todo>> /\ size[s] = 0
          /\ \/ UNCHANGED file /\ Go(s, "refused")
             \/ /\ Go(s, "digest")
                /\ file' = [file EXCEPT ![s] = file'[s]]
                /\ file'[s] \in Requests
      BY <1>0, <1>3, <1>11, <2>1, <2>2 DEF HashOpens, FsTypeOK
    <2>4. Types
      BY <1>0, <2>3 DEF FsTypeOK
    <2>5. /\ pc'[s] \in {"refused", "digest"} /\ size'[s] = 0
          /\ pc'[s] = "digest" => file'[s] \in Requests
      BY <1>0, <2>3 DEF FsTypeOK
    <2>6. Local
      BY <2>1, <2>5
    <2> QED  BY <1>2, <2>4, <2>6
  <1>12. CASE HashReads(s)
    <2>1. pc[s] = "digest" /\ req[s].verb = "hash" /\ file[s] \in Requests
      BY <1>0, <1>12 DEF HashReads, Placed
    <2>2. Types /\ Local
      BY <1>0, <1>3, <1>12, <2>1 DEF HashReads, FsTypeOK
    <2> QED  BY <1>2, <2>2
  <1>13. CASE HashMeasures(s)
    <2>1. pc[s] = "measure" /\ req[s].verb = "hash"
      BY <1>0, <1>13 DEF HashMeasures, Placed
    <2>2. IsFile(req[s].path) => Len(data[tree[req[s].path]]) \in 0..MaxBlocks
      <3>1. IsFile(req[s].path) => tree[req[s].path] \in Requests
        BY <1>0, FileIs
      <3> QED  BY <1>0, <3>1 DEF Small, FsTypeOK
    <2>3. Types /\ Local
      BY <1>0, <1>3, <1>13, <2>1, <2>2 DEF HashMeasures, FsTypeOK
    <2> QED  BY <1>2, <2>3
  <1>14. CASE DeleteChecks(s)
    <2>1. pc[s] = "delete" /\ req[s].verb = "delete"
      BY <1>0, <1>14 DEF DeleteChecks, Placed
    <2>2. /\ req[s].path \in Doomed(req[s]) /\ Doomed(req[s]) \in SUBSET Paths
          /\ Doomed(req[s]) \subseteq {p \in Paths : Within(p, req[s].path)}
      BY <1>0, DoomedIs
    <2>3. /\ UNCHANGED <<file, size, result>> /\ size[s] = 0
          /\ \/ Go(s, "refused") /\ todo' = todo
             \/ Go(s, "remove") /\ todo' = [todo EXCEPT ![s] = Doomed(req[s])]
      BY <1>0, <1>3, <1>14, <2>1 DEF DeleteChecks, FsTypeOK
    <2>4. Types
      BY <1>0, <2>2, <2>3 DEF FsTypeOK
    <2>5. /\ pc'[s] \in {"refused", "remove"} /\ size'[s] = 0
          /\ pc'[s] = "remove" => todo'[s] = Doomed(req[s])
      BY <1>0, <2>3 DEF FsTypeOK
    <2>6. Local
      BY <2>1, <2>2, <2>5
    <2> QED  BY <1>2, <2>4, <2>6
  <1>15. CASE DeleteRemoves(s)
    <2>1. /\ pc[s] = "remove" /\ req[s].verb = "delete" /\ req[s].path \in todo[s]
          /\ todo[s] \subseteq {p \in Paths : Within(p, req[s].path)}
      BY <1>0, <1>15 DEF DeleteRemoves, Placed, Listed
    <2>2. ASSUME NEW p \in todo[s], \A q \in todo[s] \ {p} : ~Within(q, p),
                 p = req[s].path
          PROVE  todo[s] = {p}
      BY <2>1, <2>2
    <2>3. /\ UNCHANGED <<file, size, result>> /\ size[s] = 0
          /\ todo' = [todo EXCEPT ![s] = todo'[s]] /\ todo'[s] \subseteq todo[s]
      BY <1>0, <1>3, <1>15, <2>1 DEF DeleteRemoves, FsTypeOK
    <2>4. \/ Go(s, "failed") \/ Go(s, "ok")
          \/ Go(s, "remove") /\ req[s].path \in todo'[s]
      BY <1>0, <1>15, <2>1, <2>2 DEF DeleteRemoves, FsTypeOK
    <2>5. Types
      BY <1>0, <2>3, <2>4 DEF FsTypeOK
    <2>6. /\ pc'[s] \in {"failed", "ok", "remove"} /\ size'[s] = 0
          /\ pc'[s] = "remove" => req[s].path \in todo'[s]
      BY <1>0, <2>3, <2>4 DEF FsTypeOK
    <2>7. Local
      BY <2>1, <2>3, <2>6
    <2> QED  BY <1>2, <2>5, <2>7
  <1>16. CASE MoveChecks(s) \/ MoveRenames(s)
    <2>1. pc[s] \in {"move", "rename"} /\ req[s].verb = "move"
      BY <1>0, <1>16 DEF MoveChecks, MoveRenames, Placed
    <2>2. /\ UNCHANGED <<file, size, result, todo>>
          /\ \/ Go(s, "ok") \/ Go(s, "failed") \/ Go(s, "refused")
             \/ Go(s, "rename")
      BY <1>16 DEF MoveChecks, MoveRenames
    <2>3. Types
      BY <1>0, <2>2 DEF FsTypeOK
    <2>4. pc'[s] \in {"ok", "failed", "refused", "rename"} /\ size'[s] = 0
      BY <1>0, <1>3, <2>1, <2>2 DEF FsTypeOK
    <2>5. Local
      BY <2>1, <2>4
    <2> QED  BY <1>2, <2>3, <2>5
  <1> HIDE DEF Types, Local
  <1> QED  BY <1>4, <1>5, <1>6, <1>7, <1>8, <1>9, <1>10, <1>11, <1>12, <1>13,
              <1>14, <1>15, <1>16 DEF Handler

\* Where a file of the tree comes from.
LEMMA FileComesFrom ==
  ASSUME Core, NEW s \in Requests, Handler(s), NEW p \in Paths,
         tree'[p] \in Requests
  PROVE  \/ \E q \in Paths : tree'[p] = tree[q]
         \/ PutOpens(s) /\ p = req[s].path /\ tree'[p] = s
  <1>1. Reached(s) /\ Derived(s) /\ Below(req[s]) \subseteq Paths
    BY HandlerGrown DEF Grown, Below
  <1>2. tree'[p] # Directory /\ tree'[p] # None
    BY FsRequestsAssumption
  <1>3. CASE p \in Below(req[s])
    BY <1>1, <1>2, <1>3 DEF Derived
  <1>4. CASE p \notin Below(req[s])
    <2>1. tree'[p] = tree[p]
      BY <1>1, <1>2, <1>4 DEF Reached
    <2> QED  BY <2>1
  <1> QED  BY <1>3, <1>4

LEMMA HandlerCore ==
  ASSUME Core, NEW s \in Requests, Handler(s)
  PROVE  Core'
  <1>0. /\ FsTypeOK /\ Fresh /\ Apart /\ s \in Busy
        /\ req' = req /\ disturbed' = disturbed
        /\ \A r \in Requests \ {s} : Same(r)
    BY HandlerFrame DEF Core
  <1>1. FsTypeOK' /\ Placed' /\ Listed' /\ Busy' \subseteq Busy
    BY HandlerPlaces
  <1>2. Small' /\ Rooted' /\ Unique'
    BY HandlerGrown, HandlerContents DEF Grown, Contents
  <1>3. Apart'
    BY <1>0, <1>1 DEF Apart, Related, About
  <1> DEFINE W == {"write", "cleanup", "ok", "failed"}
  <1>4. ASSUME pc'[s] \notin W PROVE pc[s] \notin W /\ ~PutOpens(s)
    <2>1. ~PutOpens(s)
      BY <1>0, <1>4 DEF PutOpens, Go, FsTypeOK
    <2>2. ~(PutWrites(s) \/ PutLoses(s) \/ PutWriteFails(s) \/ PutCleansUp(s))
      BY <1>0, <1>4 DEF PutWrites, PutLoses, PutWriteFails, PutCleansUp,
         AfterFailedWrite, Go, FsTypeOK
    <2>3. pc[s] # "write" /\ pc[s] # "cleanup"
      BY <2>2 DEF Handler, PutChecks, MkdirChecks, DirectoryMade, PutOpens,
         PutOpenFails, GetMeasures, GetReads, HashOpens, HashReads,
         HashMeasures, DeleteChecks, DeleteRemoves, MoveChecks, MoveRenames, At
    <2> QED  BY <1>0, <2>1, <2>3 DEF Busy, Ends
  <1>5. ASSUME NEW f \in Requests, pc'[f] \notin W
        PROVE  /\ \A p \in Paths : tree'[p] # f
               /\ \A t \in Requests : file'[t] # f
    <2>1. pc[f] \notin W
      BY <1>0, <1>4, <1>5 DEF Same
    <2>2. /\ \A p \in Paths : tree[p] # f
          /\ \A t \in Requests : file[t] # f
      BY <1>0, <2>1 DEF Fresh
    <2>3. ~(PutOpens(s) /\ f = s)
      BY <1>4, <1>5
    <2>4. \A p \in Paths : tree'[p] # f
      BY <2>2, <2>3, FileComesFrom
    <2>5. file'[s] # f
      <3>1. req[s].path \in Paths
        BY <1>0, AskedIs DEF Core, Placed, Busy
      <3> QED  BY <2>2, <2>4, <3>1, HandlerContents DEF Contents
    <2> QED  BY <1>0, <2>2, <2>4, <2>5 DEF Same
  <1>6. Fresh'
    BY <1>5 DEF Fresh
  <1> QED  BY <1>1, <1>2, <1>3, <1>6 DEF Core

-----------------------------------------------------------------------------
(* What other requests do                                                  *)

LEMMA RelatedIs ==
  ASSUME NEW q1 \in Asked, NEW q2 \in Asked
  PROVE  /\ Related(q1, q2) <=> Related(q2, q1)
         /\ \A p \in Below(q1) : p \in Below(q2) => Related(q1, q2)
         /\ \A p \in Below(q1) : Within(q2.path, p) => Related(q1, q2)
         /\ Below(q1) \subseteq Paths /\ q1.path \in Below(q1)
         /\ \A p \in Paths : Within(q1.path, p) /\ p \in Below(q2) => Related(q1, q2)
  <1>1. /\ About(q1) \subseteq Paths /\ About(q2) \subseteq Paths
        /\ q1.path \in About(q1) /\ q2.path \in About(q2)
    BY AskedIs
  <1>2. ASSUME NEW p \in Below(q1), p \in Below(q2) PROVE Related(q1, q2)
    <2>1. PICK a \in About(q1), b \in About(q2) : Within(p, a) /\ Within(p, b)
      BY <1>2 DEF Below
    <2>2. Within(a, b) \/ Within(b, a)
      BY <1>1, <2>1, PathOrder DEF Below
    <2> QED  BY <2>2 DEF Related
  <1>3. ASSUME NEW p \in Below(q1), Within(q2.path, p) PROVE Related(q1, q2)
    <2>1. PICK a \in About(q1) : Within(p, a)
      BY DEF Below
    <2>2. Within(q2.path, a)
      BY <1>1, <1>3, <2>1, PathOrder DEF Below
    <2> QED  BY <1>1, <2>2 DEF Related
  <1>4. Related(q1, q2) <=> Related(q2, q1)
    BY DEF Related
  <1>5. ASSUME NEW p \in Paths, Within(q1.path, p), p \in Below(q2)
        PROVE  Related(q1, q2)
    <2>1. PICK b \in About(q2) : Within(p, b)
      BY <1>5 DEF Below
    <2>2. Within(q1.path, b)
      BY <1>1, <1>5, <2>1, PathOrder
    <2> QED  BY <1>1, <2>2 DEF Related
  <1>6. Below(q1) \subseteq Paths /\ q1.path \in Below(q1)
    BY <1>1, PathOrder DEF Below
  <1> QED  BY <1>2, <1>3, <1>4, <1>5, <1>6

\* Another request leaves alone what is below the path of one that is not
\* disturbed, and what is above it but for directories it may create.
LEMMA Elsewhere ==
  ASSUME Core, Undisturbed, NEW s \in Requests, Handler(s),
         NEW r \in Busy \ disturbed, r # s
  PROVE  /\ \A p \in Below(req[r]) : tree'[p] = tree[p]
         /\ \A p \in Paths : Within(req[r].path, p) =>
              tree'[p] = tree[p] \/ (tree[p] = None /\ tree'[p] = Directory)
         /\ \A p \in Below(req[r]) : tree[p] \in Requests =>
              data'[tree[p]] = data[tree[p]]
         /\ r \in Requests /\ req[r] \in Asked /\ Same(r) /\ req' = req
  <1>0. /\ s \in Busy /\ r \in Requests /\ req[s] \in Asked /\ req[r] \in Asked
        /\ req' = req /\ Same(r)
    BY HandlerFrame DEF Core, Placed, Busy
  <1>1. ~Related(req[r], req[s]) /\ ~Related(req[s], req[r])
    BY <1>0, RelatedIs DEF Core, Apart
  <1>2. Reached(s) /\ Contents(s)
    BY HandlerGrown, HandlerContents DEF Grown
  <1>3. /\ Below(req[r]) \subseteq Paths /\ req[r].path \in Below(req[r])
        /\ Below(req[s]) \subseteq Paths /\ req[s].path \in Below(req[s])
    BY <1>0, RelatedIs
  <1>4. ASSUME NEW p \in Below(req[r]) PROVE tree'[p] = tree[p]
    BY <1>0, <1>1, <1>2, <1>3, RelatedIs DEF Reached
  <1>5. ASSUME NEW p \in Paths, Within(req[r].path, p), tree'[p] # tree[p]
        PROVE  tree[p] = None /\ tree'[p] = Directory
    BY <1>0, <1>1, <1>2, <1>3, <1>5, RelatedIs DEF Reached
  <1>6. ASSUME NEW p \in Below(req[r]), tree[p] \in Requests,
               data'[tree[p]] # data[tree[p]]
        PROVE  FALSE
    <2>1. \/ pc[s] = "write" /\ tree[p] = file[s]
          \/ PutOpens(s) /\ tree[p] = file'[s]
      BY <1>2, <1>6 DEF Contents
    <2>2. CASE pc[s] = "write" /\ tree[p] = file[s]
      BY <1>0, <2>2 DEF Undisturbed, Own
    <2>3. CASE PutOpens(s) /\ tree[p] = file'[s]
      <3>1. pc[s] = "open" /\ file'[s] \in {s, tree[req[s].path]}
        BY <2>3 DEF PutOpens, At, Core, FsTypeOK
      <3>2. tree[p] # s
        BY <1>3, <3>1 DEF Core, Fresh
      <3>3. p = req[s].path
        BY <1>3, <1>6, <2>3, <3>1, <3>2 DEF Core, Unique
      <3> QED  BY <1>0, <1>1, <1>3, <3>3, RelatedIs
    <2> QED  BY <2>1, <2>2, <2>3
  <1> QED  BY <1>0, <1>4, <1>5, <1>6

LEMMA OthersOwn ==
  ASSUME Core, Undisturbed, NEW s \in Requests, Handler(s),
         NEW r \in Busy \ disturbed, r # s
  PROVE  Own(r)'
  <1>0. /\ \A p \in Below(req[r]) : tree'[p] = tree[p]
        /\ r \in Requests /\ req[r] \in Asked /\ Below(req[r]) \subseteq Paths
        /\ req' = req
    BY Elsewhere DEF Below
  <1>1. /\ Own(r) /\ FsTypeOK /\ s \in Busy /\ req[s] \in Asked
        /\ \A t \in Requests \ {s} : Same(t)
    BY HandlerFrame DEF Undisturbed, Core, Placed, Busy
  <1>2. ASSUME NEW p \in Below(req[r]), pc'[s] = "write" PROVE tree'[p] # file'[s]
    <2>1. PutOpens(s)
      BY <1>1, <1>2 DEF Handler, PutChecks, MkdirChecks, DirectoryMade,
         CreatesDirectories, PutOpenFails, PutWrites, PutLoses, PutWriteFails,
         AfterFailedWrite, PutCleansUp, GetMeasures, GetReads, HashOpens,
         HashReads, HashMeasures, DeleteChecks, DeleteRemoves, MoveChecks,
         MoveRenames, Go, FsTypeOK
    <2>2. /\ pc[s] = "open" /\ file'[s] \in {s, tree[req[s].path]}
          /\ file'[s] \in Requests
      BY <1>1, <2>1, AskedIs DEF PutOpens, At, FsTypeOK, Exists, IsDirectory
    <2>3. tree[p] # s
      BY <1>0, <2>2 DEF Core, Fresh
    <2>4. ASSUME tree[p] = tree[req[s].path], tree[p] \in Requests PROVE FALSE
      <3>1. p = req[s].path
        BY <1>0, <1>1, <2>4, AskedIs DEF Core, Unique
      <3>2. Related(req[r], req[s])
        BY <1>0, <1>1, <3>1, RelatedIs
      <3> QED  BY <1>1, <3>2 DEF Core, Apart
    <2> QED  BY <1>0, <2>2, <2>3, <2>4
  <1> QED  BY <1>0, <1>1, <1>2 DEF Own, Same, Below

LEMMA OthersSteady ==
  ASSUME Core, Undisturbed, NEW s \in Requests, Handler(s),
         NEW r \in Busy \ disturbed, r # s
  PROVE  Steady(r)'
  <1>0. /\ \A p \in Below(req[r]) : tree'[p] = tree[p]
        /\ \A p \in Paths : Within(req[r].path, p) =>
              tree'[p] = tree[p] \/ (tree[p] = None /\ tree'[p] = Directory)
        /\ \A p \in Below(req[r]) : tree[p] \in Requests =>
              data'[tree[p]] = data[tree[p]]
        /\ r \in Requests /\ req[r] \in Asked /\ Same(r) /\ req' = req
    BY Elsewhere
  <1>1. Steady(r) /\ FsTypeOK /\ FsTypeOK' /\ Placed /\ Listed
    BY HandlerCore DEF Undisturbed, Core
  <1>2. /\ req[r].path \in Paths /\ req[r].path \in Below(req[r])
        /\ Below(req[r]) \subseteq Paths
        /\ \A p \in Paths : Within(Target(req[r]), p) => Within(req[r].path, p)
        /\ Within(req[r].path, req[r].path)
    BY <1>0, RelatedIs, ParentShape, PathOrder DEF Target
  <1>3. \A p \in Paths :
          /\ IsFile(p) <=> tree[p] \in Requests
          /\ IsFile(p)' <=> tree'[p] \in Requests
          /\ Exists(p)' <=> tree'[p] # None
          /\ Exists(p) <=> tree[p] # None
          /\ IsDirectory(p) <=> tree[p] = Directory
    BY <1>1, FileIs, FsRequestsAssumption DEF FsTypeOK, IsFile, Exists, IsDirectory
  <1>4. ASSUME pc'[r] = "make"
        PROVE  /\ \A p \in Paths :
                    Within(Target(req[r]), p) => p \in todo'[r] \/ tree'[p] = Directory
               /\ \A p \in todo'[r] : tree'[p] \notin Requests
    <2>1. /\ \A p \in Paths :
              Within(Target(req[r]), p) => p \in todo[r] \/ tree[p] = Directory
          /\ \A p \in todo[r] : ~IsFile(p)
          /\ todo[r] \subseteq {p \in Paths : Within(Target(req[r]), p)}
      BY <1>0, <1>1, <1>4 DEF Steady, Same, Listed
    <2> QED  BY <1>0, <1>2, <1>3, <2>1, FsRequestsAssumption DEF Same
  <1>5. pc'[r] = "make" =>
           /\ \A p \in Paths :
                Within(Target(req'[r]), p) => p \in todo'[r] \/ tree'[p] = Directory
           /\ \A p \in todo'[r] : ~IsFile(p)'
    <2>1. pc'[r] = "make" => todo'[r] \subseteq Paths
      BY <1>0, <1>1 DEF FsTypeOK
    <2> QED  BY <1>0, <1>3, <1>4, <2>1
  <1>6. pc'[r] \in {"make", "open"} /\ req'[r].verb = "put" /\ ~req'[r].overwrite
          => ~Exists(req[r].path)'
    BY <1>0, <1>1, <1>2, <1>3 DEF Steady, Same
  <1>7. /\ pc'[r] \in {"write", "cleanup", "digest"} => tree'[req'[r].path] = file'[r]
        /\ pc'[r] = "write" => data'[file'[r]] = <<>>
    BY <1>0, <1>1, <1>2 DEF Steady, Same, Placed
  <1>8. /\ pc'[r] = "read" =>
             IsFile(req[r].path)' /\ Len(data'[tree'[req'[r].path]]) = size'[r]
        /\ pc'[r] = "measure" =>
             IsFile(req[r].path)' /\ result'[r] = data'[tree'[req'[r].path]]
    BY <1>0, <1>1, <1>2, <1>3 DEF Steady, Same
  <1>9. pc'[r] = "remove" /\ req'[r].recursive =>
          \A p \in Below(req'[r]) : Exists(p)' => p \in todo'[r]
    BY <1>0, <1>1, <1>2, <1>3 DEF Steady, Same
  <1>10. pc'[r] = "rename" /\ ~req'[r].overwrite => ~Exists(req[r].to)'
    <2>1. pc[r] = "rename" => req[r].to \in Below(req[r])
      BY <1>0, <1>1, AskedIs, PathOrder DEF Placed, Below
    <2> QED  BY <1>0, <1>1, <1>2, <1>3, <2>1 DEF Steady, Same
  <1> QED
    BY <1>0, <1>5, <1>6, <1>7, <1>8, <1>9, <1>10
       DEF Steady, Below, About, Target, Within, Parent

-----------------------------------------------------------------------------
(* What a request does itself                                              *)

LEMMA SelfOwn ==
  ASSUME Core, Undisturbed, NEW s \in Requests, Handler(s), s \notin disturbed
  PROVE  Own(s)'
  <1>0. /\ s \in Busy /\ req' = req /\ Own(s) /\ Placed /\ FsTypeOK
        /\ \A t \in Requests \ {s} : Same(t)
        /\ Derived(s)
    BY HandlerFrame, HandlerGrown DEF Undisturbed, Core, Grown
  <1>1. ASSUME NEW t \in Requests \ {s}, pc'[t] = "write",
               NEW p \in Below(req[s])
        PROVE  tree'[p] # file'[t]
    <2>1. /\ pc[t] = "write" /\ file'[t] = file[t] /\ file[t] \in Requests
          /\ \A q \in Below(req[s]) : tree[q] # file[t]
      BY <1>0, <1>1 DEF Same, Own, Placed
    <2>2. PutOpens(s) => file[t] # s
      BY DEF PutOpens, At, Core, Fresh
    <2> QED  BY <1>0, <2>1, <2>2, FsRequestsAssumption DEF Derived
  <1> QED  BY <1>0, <1>1 DEF Own, Below, About, Within

LEMMA CreatesDirectoriesSteady ==
  ASSUME Core, NEW s \in Requests, req[s] \in Asked,
         req[s].verb \in {"put", "mkdir"}, NEW place \in {"open", "ok"},
         CreatesDirectories(s, Target(req[s]), place),
         pc'[s] = "make", tree' = tree, req' = req
  PROVE  /\ \A p \in Paths :
              Within(Target(req[s]), p) => p \in todo'[s] \/ tree'[p] = Directory
         /\ \A p \in todo'[s] : ~IsFile(p)'
  <1>0. FsTypeOK
    BY DEF Core
  <1>1. ~Blocked(Target(req[s])) /\ todo'[s] = Missing(Target(req[s]))
    BY <1>0 DEF CreatesDirectories, Go, FsTypeOK
  <1>2. ASSUME NEW p \in Paths, Within(Target(req[s]), p)
        PROVE  p \in todo'[s] \/ tree'[p] = Directory
    BY <1>1, <1>2 DEF Blocked, Missing, IsFile, IsDirectory
  <1>3. ASSUME NEW p \in todo'[s] PROVE ~IsFile(p)'
    BY <1>1, <1>3 DEF Missing, IsFile, Exists
  <1> QED  BY <1>2, <1>3

LEMMA SelfSteady ==
  ASSUME Core, Undisturbed, NEW s \in Requests, Handler(s), s \notin disturbed
  PROVE  Steady(s)'
  <1>0. /\ FsTypeOK /\ Placed /\ Listed /\ Rooted /\ s \in Busy
        /\ req[s] \in Asked /\ req[s].path \in Paths /\ req' = req
        /\ Steady(s)
    BY HandlerFrame, AskedIs DEF Core, Placed, Busy, Undisturbed
  <1>1. \A p \in Paths :
          /\ IsFile(p) <=> tree[p] \in Requests
          /\ Exists(p) <=> tree[p] # None
          /\ IsDirectory(p) <=> tree[p] = Directory
    BY <1>0, FileIs, FsRequestsAssumption DEF FsTypeOK, IsFile, Exists, IsDirectory
  <1> USE DEF At, Go
  <1>2. CASE PutChecks(s)
    <2>1. /\ pc[s] = "put" /\ req[s].verb = "put" /\ tree' = tree
          /\ pc'[s] \in {"refused", "failed", "make", "open"}
      BY <1>0, <1>2 DEF PutChecks, Placed, FsTypeOK, CreatesDirectories
    <2>2. ASSUME pc'[s] # "refused"
          PROVE  /\ CreatesDirectories(s, Target(req[s]), "open")
                 /\ ~req[s].overwrite => ~Exists(req[s].path)
      BY <1>0, <1>2, <2>1, <2>2 DEF PutChecks, Refuses, Target, FsTypeOK
    <2>3. pc'[s] = "make" =>
            /\ \A p \in Paths : Within(Target(req[s]), p) =>
                 p \in todo'[s] \/ tree'[p] = Directory
            /\ \A p \in todo'[s] : ~IsFile(p)'
      BY <1>0, <2>1, <2>2, CreatesDirectoriesSteady
    <2> QED
      BY <1>0, <2>1, <2>2, <2>3 DEF Steady, Exists, Target, Parent, Within
  <1>3. CASE MkdirChecks(s)
    <2>1. /\ pc[s] = "mkdir" /\ req[s].verb = "mkdir" /\ tree' = tree
          /\ pc'[s] \in {"ok", "failed", "make"}
          /\ CreatesDirectories(s, Target(req[s]), "ok")
      BY <1>0, <1>3 DEF MkdirChecks, Placed, FsTypeOK, CreatesDirectories, Target
    <2>2. pc'[s] = "make" =>
            /\ \A p \in Paths : Within(Target(req[s]), p) =>
                 p \in todo'[s] \/ tree'[p] = Directory
            /\ \A p \in todo'[s] : ~IsFile(p)'
      BY <1>0, <2>1, CreatesDirectoriesSteady
    <2> QED  BY <1>0, <2>1, <2>2 DEF Steady, Target, Parent, Within
  <1>4. CASE DirectoryMade(s)
    <2>1. /\ pc[s] = "make" /\ req[s].verb \in {"put", "mkdir"}
          /\ todo[s] \subseteq {p \in Paths : Within(Target(req[s]), p)}
          /\ \A p \in Paths :
               Within(Target(req[s]), p) => p \in todo[s] \/ tree[p] = Directory
          /\ \A p \in todo[s] : ~IsFile(p)
          /\ req[s].verb = "put" /\ ~req[s].overwrite => tree[req[s].path] = None
      BY <1>0, <1>1, <1>4 DEF DirectoryMade, Placed, Listed, Steady
    <2>2. CASE pc'[s] = "failed"
      BY <2>2 DEF Steady
    <2>3. CASE pc'[s] # "failed"
      <3>1. PICK d \in todo[s] :
              /\ tree' = [tree EXCEPT ![d] = Directory]
              /\ todo' = [todo EXCEPT ![s] = @ \ {d}]
              /\ pc'[s] \in {"make", "open", "ok"}
        BY <1>0, <1>4, <2>3 DEF DirectoryMade, FsTypeOK, Outermost
      <3>2. d \in Paths /\ Within(Target(req[s]), d)
        BY <2>1
      <3>3. req[s].verb = "put" => d # req[s].path
        BY <1>0, <3>2, ParentShape DEF Target
      <3>4. tree' \in [Paths -> Requests \cup {Directory, None}]
        BY <1>0, <3>1, <3>2 DEF FsTypeOK
      <3>5. /\ \A p \in Paths :
                 Within(Target(req[s]), p) => p \in todo'[s] \/ tree'[p] = Directory
            /\ \A p \in todo'[s] : tree'[p] \notin Requests
        <4>1. \A p \in todo[s] : p \in Paths /\ tree[p] \notin Requests
          BY <1>1, <2>1
        <4>2. todo'[s] = todo[s] \ {d}
          BY <1>0, <3>1 DEF FsTypeOK
        <4> QED
          BY <1>0, <2>1, <3>1, <3>2, <4>1, <4>2, FsRequestsAssumption DEF FsTypeOK
      <3>6. \A p \in todo'[s] : ~IsFile(p)'
        BY <1>0, <2>1, <3>1, <3>4, <3>5 DEF IsFile, Exists, IsDirectory, FsTypeOK
      <3>7. req[s].verb = "put" /\ ~req[s].overwrite => tree'[req[s].path] = None
        BY <1>0, <2>1, <3>1, <3>3 DEF FsTypeOK
      <3> QED
        BY <1>0, <3>1, <3>5, <3>6, <3>7
           DEF Steady, Exists, Target, Parent, Within
    <2> QED  BY <2>2, <2>3
  <1>5. CASE PutOpens(s)
    <2>1. file'[s] \in Requests
      BY <1>0, <1>1, <1>5 DEF PutOpens, FsTypeOK
    <2>2. pc'[s] \in {"ok", "write"} /\ tree'[req[s].path] = file'[s]
          /\ data'[file'[s]] = <<>>
      BY <1>0, <1>5, <2>1 DEF PutOpens, FsTypeOK, Truncated
    <2> QED  BY <1>0, <2>2 DEF Steady
  <1>6. CASE PutOpenFails(s) \/ PutWrites(s) \/ PutLoses(s) \/ PutCleansUp(s)
             \/ GetReads(s) \/ HashMeasures(s) \/ MoveRenames(s)
    <2>1. pc'[s] \in {"ok", "failed"}
      BY <1>0, <1>6 DEF PutOpenFails, PutWrites, PutLoses, PutCleansUp,
         GetReads, HashMeasures, MoveRenames, FsTypeOK
    <2> QED  BY <2>1 DEF Steady
  <1>7. CASE PutWriteFails(s)
    <2>1. pc[s] = "write" /\ tree' = tree /\ file' = file /\ pc'[s] = "cleanup"
      BY <1>0, <1>7 DEF PutWriteFails, AfterFailedWrite, FsTypeOK
    <2> QED  BY <1>0, <2>1 DEF Steady
  <1>8. CASE GetMeasures(s)
    <2>1. /\ pc'[s] \in {"ok", "refused", "read"} /\ tree' = tree /\ data' = data
          /\ pc'[s] = "read" =>
               IsFile(req[s].path) /\ size'[s] = Len(data[tree[req[s].path]])
      BY <1>0, <1>8 DEF GetMeasures, FsTypeOK
    <2> QED  BY <1>0, <2>1 DEF Steady, IsFile, Exists, IsDirectory
  <1>9. CASE HashOpens(s)
    <2>1. /\ pc'[s] \in {"refused", "digest"} /\ tree' = tree
          /\ pc'[s] = "digest" => file'[s] = tree[req[s].path]
      BY <1>0, <1>9 DEF HashOpens, FsTypeOK
    <2> QED  BY <1>0, <2>1 DEF Steady
  <1>10. CASE HashReads(s)
    <2>1. /\ pc[s] = "digest" /\ pc'[s] = "measure" /\ tree' = tree /\ data' = data
          /\ result'[s] = data[file[s]] /\ file[s] \in Requests
      BY <1>0, <1>10 DEF HashReads, FsTypeOK, Placed
    <2>2. tree[req[s].path] = file[s] /\ IsFile(req[s].path)
      BY <1>0, <1>1, <2>1 DEF Steady
    <2> QED  BY <1>0, <2>1, <2>2 DEF Steady, IsFile, Exists, IsDirectory
  <1>11. CASE DeleteChecks(s)
    <2>1. /\ pc[s] = "delete" /\ pc'[s] \in {"refused", "remove"} /\ tree' = tree
          /\ req[s].verb = "delete"
          /\ pc'[s] = "remove" => todo'[s] = Doomed(req[s])
      BY <1>0, <1>11 DEF DeleteChecks, FsTypeOK, Placed
    <2>2. ASSUME req[s].recursive, NEW p \in Below(req[s]), Exists(p)
          PROVE  p \in Doomed(req[s])
      <3>1. p \in Paths /\ Within(p, req[s].path)
        BY <1>0, <2>1, AskedIs DEF Below
      <3>2. CASE p = req[s].path
        BY <3>2 DEF Doomed
      <3>3. CASE p # req[s].path
        <4>1. tree[req[s].path] = Directory
          BY <1>0, <2>2, <3>1, <3>3 DEF Rooted
        <4>2. DeletesTree(req[s])
          BY <1>0, <1>1, <2>2, <4>1 DEF DeletesTree
        <4> QED  BY <2>2, <3>1, <3>3, <4>2 DEF Doomed, Children
      <3> QED  BY <3>2, <3>3
    <2> QED
      BY <1>0, <2>1, <2>2 DEF Steady, Exists, Below, About, Within
  <1>12. CASE DeleteRemoves(s)
    <2>1. pc[s] = "remove" /\ pc'[s] \in {"ok", "failed", "remove"}
      BY <1>0, <1>12 DEF DeleteRemoves, FsTypeOK
    <2>2. ASSUME pc'[s] = "remove", req[s].recursive, NEW p \in Below(req[s]),
                 tree'[p] # None
          PROVE  p \in todo'[s]
      <3>1. PICK d \in todo[s] :
              /\ tree' = [tree EXCEPT ![d] = None]
              /\ todo' = [todo EXCEPT ![s] = @ \ {d}]
        BY <1>0, <1>12, <2>2 DEF DeleteRemoves, FsTypeOK, Removed
      <3>2. d \in Paths /\ p \in Paths
        BY <1>0, <3>1 DEF FsTypeOK, Below
      <3>3. p # d /\ tree[p] # None
        BY <1>0, <2>2, <3>1, <3>2 DEF FsTypeOK
      <3>4. p \in todo[s]
        BY <1>0, <2>1, <2>2, <3>3 DEF Steady, Exists
      <3> QED  BY <1>0, <3>1, <3>3, <3>4 DEF FsTypeOK
    <2> QED
      BY <1>0, <2>1, <2>2 DEF Steady, Exists, Below, About, Within
  <1>13. CASE MoveChecks(s)
    <2>1. /\ pc'[s] \in {"refused", "rename"} /\ tree' = tree
          /\ pc'[s] = "rename" => ~MoveRefuses(req[s])
      BY <1>0, <1>13 DEF MoveChecks, FsTypeOK
    <2> QED  BY <1>0, <2>1 DEF Steady, MoveRefuses, Exists
  <1> QED  BY <1>2, <1>3, <1>4, <1>5, <1>6, <1>7, <1>8, <1>9, <1>10, <1>11,
              <1>12, <1>13 DEF Handler

LEMMA HandlerUndisturbed ==
  ASSUME Core, Undisturbed, NEW s \in Requests, Handler(s)
  PROVE  Undisturbed'
  <1>1. Busy' \subseteq Busy /\ disturbed' = disturbed /\ Busy \subseteq Requests
    BY HandlerPlaces, HandlerFrame DEF Core, Busy
  <1>2. ASSUME NEW r \in Busy \ disturbed PROVE Own(r)' /\ Steady(r)'
    BY <1>1, OthersOwn, OthersSteady, SelfOwn, SelfSteady
  <1> QED  BY <1>1, <1>2 DEF Undisturbed

LEMMA DispatchFrame ==
  ASSUME FsTypeOK, NEW r \in Requests, NEW q \in Asked, Dispatch(r, q)
  PROVE  /\ pc[r] = "new" /\ pc'[r] = q.verb /\ req'[r] = q
         /\ pc' = [pc EXCEPT ![r] = q.verb]
         /\ req' = [req EXCEPT ![r] = q]
         /\ q.verb \in {"put", "move", "delete", "mkdir", "get", "hash"}
         /\ UNCHANGED <<tree, data, file, size, result, todo, lost>>
         /\ disturbed \subseteq disturbed' /\ disturbed' \in SUBSET Requests
         /\ Busy' = Busy \cup {r} /\ r \notin Busy
         /\ \A s \in Busy \ disturbed' : ~Related(q, req[s])
         /\ r \notin disturbed' =>
              \A s \in Busy : ~Related(q, req[s]) /\ s \notin disturbed
  <1>1. q.verb \in {"put", "move", "delete", "mkdir", "get", "hash"}
    BY AskedIs
  <1>2. /\ pc[r] = "new" /\ pc' = [pc EXCEPT ![r] = q.verb]
        /\ req' = [req EXCEPT ![r] = q]
        /\ UNCHANGED <<tree, data, file, size, result, todo, lost>>
    BY DEF Dispatch, At, Go
  <1>3. pc'[r] = q.verb /\ req'[r] = q
    BY <1>2 DEF FsTypeOK
  <1>4. Busy' = Busy \cup {r} /\ r \notin Busy
    BY <1>1, <1>2 DEF Busy, Ends, FsTypeOK
  <1> DEFINE seen == {s \in Busy : Related(q, req[s]) \/ s \in disturbed}
  <1>5. disturbed' = disturbed \cup seen \cup (IF seen = {} THEN {} ELSE {r})
    BY DEF Dispatch
  <1>6. disturbed \subseteq disturbed' /\ disturbed' \in SUBSET Requests
    BY <1>5 DEF FsTypeOK, Busy
  <1>7. \A s \in Busy \ disturbed' : ~Related(q, req[s])
    BY <1>5
  <1>8. ASSUME r \notin disturbed'
        PROVE  \A s \in Busy : ~Related(q, req[s]) /\ s \notin disturbed
    <2>1. seen = {}
      BY <1>5, <1>8
    <2> QED  BY <2>1
  <1> QED  BY <1>1, <1>2, <1>3, <1>4, <1>6, <1>7, <1>8

LEMMA DispatchKeeps ==
  ASSUME Core, Undisturbed, NEW r \in Requests, NEW q \in Asked, Dispatch(r, q)
  PROVE  Core' /\ Undisturbed'
  <1>0. FsTypeOK /\ Placed /\ Listed /\ Small /\ Rooted /\ Unique /\ Fresh /\ Apart
    BY DEF Core
  <1>1. /\ pc[r] = "new" /\ pc'[r] = q.verb /\ req'[r] = q
        /\ pc' = [pc EXCEPT ![r] = q.verb]
        /\ req' = [req EXCEPT ![r] = q]
        /\ q.verb \in {"put", "move", "delete", "mkdir", "get", "hash"}
        /\ UNCHANGED <<tree, data, file, size, result, todo, lost>>
        /\ disturbed \subseteq disturbed' /\ disturbed' \in SUBSET Requests
        /\ Busy' = Busy \cup {r} /\ r \notin Busy
    BY <1>0, DispatchFrame
  <1>2. /\ \A s \in Busy \ disturbed' : ~Related(q, req[s])
        /\ r \notin disturbed' =>
             \A s \in Busy : ~Related(q, req[s]) /\ s \notin disturbed
    BY <1>0, DispatchFrame
  <1>3. \A t \in Requests \ {r} : pc'[t] = pc[t] /\ req'[t] = req[t]
    BY <1>0, <1>1 DEF FsTypeOK
  <1>4. FsTypeOK'
    BY <1>0, <1>1 DEF FsTypeOK
  <1>5. Placed'
    <2>1. ~(size[r] > 0)
      BY <1>0, <1>1 DEF Placed
    <2> QED  BY <1>0, <1>1, <1>3, <2>1 DEF Placed
  <1>6. Listed'
    BY <1>0, <1>1, <1>3 DEF Listed
  <1>7. Small' /\ Rooted' /\ Unique'
    BY <1>0, <1>1 DEF Small, Rooted, Unique, Exists
  <1>8. Fresh'
    BY <1>0, <1>1, <1>3 DEF Fresh
  <1>9. \A s \in Busy : s \in Requests /\ s # r /\ req[s] \in Asked
    BY <1>0, <1>1 DEF Busy, Placed
  <1>10. Apart'
    <2>1. ASSUME NEW t \in Busy' \ disturbed', NEW u \in Busy' \ {t}
          PROVE  ~Related(req'[t], req'[u])
      <3>1. CASE t = r
        BY <1>1, <1>2, <1>3, <1>9, <2>1, <3>1
      <3>2. CASE u = r
        BY <1>1, <1>2, <1>3, <1>9, <2>1, <3>2, RelatedIs
      <3>3. CASE t # r /\ u # r
        BY <1>0, <1>1, <1>3, <1>9, <2>1, <3>3 DEF Apart
      <3> QED  BY <3>1, <3>2, <3>3
    <2> QED  BY <2>1 DEF Apart, Related, About, Within
  <1>11. Core'
    BY <1>4, <1>5, <1>6, <1>7, <1>8, <1>10 DEF Core
  <1>12. ASSUME NEW t \in Busy' \ disturbed' PROVE Own(t)' /\ Steady(t)'
    <2>1. CASE t # r
      <3>1. Own(t) /\ Steady(t) /\ req'[t] = req[t] /\ pc'[t] = pc[t]
        BY <1>1, <1>3, <1>9, <1>12, <2>1 DEF Undisturbed
      <3>2. Own(t)'
        BY <1>1, <1>3, <3>1 DEF Own, Below
      <3>3. Steady(t)'
        BY <1>1, <3>1 DEF Steady, Exists, IsFile, IsDirectory, Below
      <3> QED  BY <3>2, <3>3
    <2>2. CASE t = r
      <3>1. Steady(t)'
        BY <1>1, <2>2 DEF Steady
      <3>2. ASSUME NEW s \in Requests \ {r}, pc[s] = "write", NEW p \in Below(q),
                   tree[p] = file[s]
            PROVE  FALSE
        <4>1. s \in Busy /\ s \notin disturbed /\ ~Related(q, req[s])
          BY <1>2, <1>12, <2>2, <3>2 DEF Busy, Ends
        <4>2. tree[req[s].path] = file[s] /\ file[s] \in Requests
          BY <1>0, <3>2, <4>1 DEF Undisturbed, Steady, Placed
        <4>3. req[s] \in Asked /\ req[s].path \in Paths /\ Below(q) \subseteq Paths
              /\ req[s].path \in Below(req[s])
          BY <1>9, <4>1, RelatedIs, AskedIs
        <4>4. p = req[s].path
          BY <1>0, <3>2, <4>2, <4>3 DEF Unique
        <4> QED  BY <4>1, <4>3, <4>4, RelatedIs
      <3>3. Own(t)'
        BY <1>1, <1>3, <2>2, <3>2 DEF Own, Below
      <3> QED  BY <3>1, <3>3
    <2> QED  BY <2>1, <2>2
  <1>13. Undisturbed'
    BY <1>12 DEF Undisturbed
  <1> QED  BY <1>11, <1>13

-----------------------------------------------------------------------------
(* What is written and read                                                *)

LEMMA WritingStays ==
  ASSUME FsTypeOK, NEW s \in Requests, Handler(s), NEW p \in Paths,
         BeingWritten(p),
         pc[s] \in {"write", "cleanup"} =>
           pc'[s] \in {"write", "cleanup"} \/ req[s].path # p
  PROVE  BeingWritten(p)'
  <1>1. req' = req /\ \A r \in Requests \ {s} : Same(r)
    BY HandlerFrame
  <1> QED  BY <1>1 DEF BeingWritten, Same

\* While nothing is disturbed, whoever writes a file and whoever uses its path
\* are the same.
LEMMA AloneWriting ==
  ASSUME Core, disturbed = {}, NEW s \in Busy, NEW p \in Below(req[s]),
         BeingWritten(p)
  PROVE  pc[s] \in {"write", "cleanup"} /\ req[s].path = p
  <1>1. PICK t \in Requests : pc[t] \in {"write", "cleanup"} /\ req[t].path = p
    BY DEF BeingWritten
  <1>2. t \in Busy /\ req[t] \in Asked /\ req[s] \in Asked /\ s \in Requests
    BY <1>1 DEF Core, Placed, Busy, Ends
  <1>3. ASSUME t # s PROVE FALSE
    <2>1. Related(req[s], req[t])
      BY <1>1, <1>2, RelatedIs
    <2> QED  BY <1>2, <1>3, <2>1 DEF Core, Apart
  <1> QED  BY <1>1, <1>3

LEMMA HandlerWhole ==
  ASSUME Core, Undisturbed, Whole, NEW s \in Requests, Handler(s)
  PROVE  Whole'
  <1> SUFFICES ASSUME disturbed' \cup lost' = {}, NEW p \in Paths,
                      tree'[p] \in Requests
               PROVE  WrittenWhole(data[tree[p]])' \/ BeingWritten(p)'
    BY DEF Whole, BeingWritten
  <1>0. /\ FsTypeOK /\ Placed /\ Rooted /\ Unique /\ FsTypeOK'
        /\ s \in Busy /\ req' = req /\ req[s] \in Asked
        /\ req[s].path \in Paths
        /\ disturbed = {} /\ lost = {} /\ disturbed' = {} /\ lost' = {}
        /\ \A r \in Requests \ {s} : Same(r)
    BY HandlerFrame, HandlerCore, AskedIs DEF Core, Placed, Busy
  <1>1. /\ Steady(s) /\ Contents(s)
        /\ \A f \in Paths : tree[f] \in Requests =>
             WrittenWhole(data[tree[f]]) \/ BeingWritten(f)
    BY <1>0, HandlerContents DEF Undisturbed, Whole
  <1>2. \/ \E q \in Paths : tree'[p] = tree[q]
        \/ PutOpens(s) /\ p = req[s].path /\ tree'[p] = s
    BY FileComesFrom DEF Core
  \* The content of the file and where it was.
  <1>3. ASSUME data'[tree'[p]] = data[tree'[p]], tree'[p] = tree[p],
               pc[s] \in {"write", "cleanup"} =>
                 pc'[s] \in {"write", "cleanup"} \/ req[s].path # p
        PROVE  WrittenWhole(data[tree[p]])' \/ BeingWritten(p)'
    <2> DEFINE c == data[tree[p]]
    <2>1. CASE WrittenWhole(c)
      <3>1. c \in Seq(Requests) /\ data'[tree'[p]] = c
        BY <1>0, <1>3 DEF FsTypeOK
      <3>2. PICK r \in Requests : /\ pc[r] = "ok" /\ req[r].verb = "put"
                                  /\ c = [i \in 1..req[r].blocks |-> r]
        BY <2>1 DEF WrittenWhole
      <3>3. r # s
        BY <1>0, <3>2 DEF Busy, Ends
      <3> QED  BY <1>0, <3>1, <3>2, <3>3 DEF WrittenWhole, Same
    <2>2. CASE BeingWritten(p)
      BY <1>0, <1>3, <2>2, WritingStays
    <2> QED  BY <1>1, <1>3, <2>1, <2>2
  <1>4. CASE PutOpens(s)
    <2>1. /\ tree'[req[s].path] = file'[s] /\ data'[file'[s]] = <<>>
          /\ file'[s] \in Requests /\ pc[s] = "open" /\ req[s].verb = "put"
          /\ pc'[s] = IF req[s].blocks = 0 THEN "ok" ELSE "write"
      BY <1>0, <1>4 DEF PutOpens, FsTypeOK, Truncated, Exists, IsDirectory,
         At, Go, Placed
    <2>2. CASE p = req[s].path /\ pc'[s] = "write"
      BY <1>0, <2>2 DEF BeingWritten
    <2>3. CASE p = req[s].path /\ pc'[s] = "ok"
      <3>1. req[s].blocks = 0
        BY <2>1, <2>3
      <3>2. <<>> = [i \in 1..req[s].blocks |-> s]
        BY <3>1
      <3> QED  BY <1>0, <2>1, <2>3, <3>2 DEF WrittenWhole
    <2>4. CASE p # req[s].path
      <3>1. tree'[p] = tree[p]
        BY <1>0, <1>4, <2>4 DEF PutOpens, FsTypeOK
      <3>2. tree'[p] # file'[s]
        BY <1>0, <2>1, <2>4, HandlerCore DEF Core, Unique
      <3>3. data'[tree'[p]] = data[tree'[p]]
        BY <1>1, <2>1, <3>2 DEF Contents
      <3> QED  BY <1>3, <2>1, <3>1, <3>3
    <2> QED  BY <2>1, <2>2, <2>3, <2>4
  <1>5. CASE PutWrites(s) \/ PutWriteFails(s)
    <2>1. /\ tree' = tree /\ pc[s] = "write" /\ file[s] \in Requests
          /\ req[s].verb = "put" /\ file' = file
      BY <1>0, <1>5 DEF PutWrites, PutWriteFails, At, Placed
    <2>2. tree[req[s].path] = file[s] /\ data[file[s]] = <<>>
      BY <1>1, <2>1 DEF Steady
    <2>3. CASE tree[p] # file[s]
      <3>1. data'[tree'[p]] = data[tree'[p]]
        BY <1>1, <2>1, <2>3 DEF Contents, PutOpens, At
      <3> QED  BY <1>3, <2>1, <2>2, <2>3, <3>1
    <2>4. CASE tree[p] = file[s] /\ PutWrites(s)
      <3>1. data'[file[s]] = Overwritten(data[file[s]], s, req[s].blocks)
        BY <1>0, <2>1, <2>4 DEF PutWrites, FsTypeOK
      <3>2. req[s].blocks \in Nat
        BY <1>0, <2>1, AskedIs, FsRequestsAssumption
      <3>3. data'[file[s]] = [i \in 1..req[s].blocks |-> s]
        BY <2>2, <3>1, <3>2, OverwrittenEmpty
      <3>4. pc'[s] = "ok"
        BY <1>0, <2>4 DEF PutWrites, FsTypeOK, Go
      <3> QED  BY <1>0, <2>1, <2>4, <3>3, <3>4 DEF WrittenWhole
    <2>5. CASE tree[p] = file[s] /\ PutWriteFails(s)
      <3>1. p = req[s].path
        BY <1>0, <2>1, <2>2, <2>5 DEF Unique
      <3>2. pc'[s] = "cleanup"
        BY <1>0, <2>5 DEF PutWriteFails, AfterFailedWrite, FsTypeOK, Go
      <3> QED  BY <1>0, <3>1, <3>2 DEF BeingWritten
    <2> QED  BY <1>5, <2>3, <2>4, <2>5
  <1>6. CASE PutLoses(s)
    BY <1>0, <1>6 DEF PutLoses
  <1>7. CASE PutCleansUp(s)
    <2>1. /\ pc[s] = "cleanup" /\ data' = data /\ file[s] \in Requests
          /\ tree' = tree \/ tree' = Removed(req[s].path)
      BY <1>0, <1>7 DEF PutCleansUp, At, Placed
    <2>2. tree[req[s].path] = file[s]
      BY <1>1, <2>1 DEF Steady
    <2>3. Children(req[s].path) = {}
      <3>1. ASSUME NEW q \in Children(req[s].path) PROVE FALSE
        BY <1>0, <2>1, <2>2, <3>1, FsRequestsAssumption DEF Children, Rooted
      <3> QED  BY <3>1
    <2>4. tree' = [tree EXCEPT ![req[s].path] = None]
      BY <1>7, <2>3 DEF PutCleansUp, Removable, Removed
    <2>5. p # req[s].path /\ tree'[p] = tree[p]
      BY <1>0, <2>4, FsRequestsAssumption DEF FsTypeOK
    <2> QED  BY <1>3, <2>1, <2>5
  <1>8. CASE MoveRenames(s)
    <2>1. pc[s] = "rename" /\ data' = data
      BY <1>8 DEF MoveRenames, At
    <2>2. CASE tree'[p] = tree[p]
      BY <1>3, <2>1, <2>2
    <2>3. CASE tree'[p] # tree[p]
      <3>0. tree'[p] # None /\ tree'[p] # Directory
        BY FsRequestsAssumption
      <3>1. p \in Below(req[s])
        BY <2>3, <3>0, HandlerGrown DEF Grown, Reached
      <3>2. PICK q \in Below(req[s]) : tree'[p] = tree[q]
        BY <2>1, <3>0, <3>1, HandlerGrown DEF Grown, Derived, PutOpens, At
      <3>3. ~BeingWritten(q)
        BY <1>0, <2>1, <3>2, AloneWriting
      <3>4. WrittenWhole(data[tree[q]])
        BY <1>0, <1>1, <3>2, <3>3, RelatedIs
      <3>5. PICK r \in Requests :
              /\ pc[r] = "ok" /\ req[r].verb = "put"
              /\ data[tree[q]] = [i \in 1..req[r].blocks |-> r]
        BY <3>4 DEF WrittenWhole
      <3>6. r # s
        BY <1>0, <3>5 DEF Busy, Ends
      <3> QED  BY <1>0, <2>1, <3>2, <3>5, <3>6 DEF WrittenWhole, Same
    <2> QED  BY <2>2, <2>3
  <1>9. CASE DirectoryMade(s) \/ DeleteRemoves(s)
    <2>1. data' = data /\ pc[s] \in {"make", "remove"}
      BY <1>9 DEF DirectoryMade, DeleteRemoves, At
    <2>2. tree'[p] = tree[p]
      <3>1. tree'[p] \notin {None, Directory}
        BY FsRequestsAssumption
      <3>2. \/ tree' = tree
            \/ \E d \in Paths : tree' = [tree EXCEPT ![d] = Directory]
            \/ \E d \in Paths : tree' = [tree EXCEPT ![d] = None]
        BY <2>1, TreeKinds DEF Makes, Removes, Removed, Moves, PutOpens, At
      <3> QED  BY <1>0, <3>1, <3>2 DEF FsTypeOK
    <2> QED  BY <1>3, <2>1, <2>2
  <1>10. CASE PutChecks(s) \/ MkdirChecks(s) \/ PutOpenFails(s) \/ GetMeasures(s)
              \/ GetReads(s) \/ HashOpens(s) \/ HashReads(s) \/ HashMeasures(s)
              \/ DeleteChecks(s) \/ MoveChecks(s)
    <2>1. /\ data' = data /\ tree' = tree
          /\ pc[s] \notin {"write", "cleanup"}
      BY <1>10 DEF PutChecks, MkdirChecks, PutOpenFails, GetMeasures, GetReads,
         HashOpens, HashReads, HashMeasures, DeleteChecks, MoveChecks, At
    <2> QED  BY <1>3, <2>1
  <1> QED  BY <1>4, <1>5, <1>6, <1>7, <1>8, <1>9, <1>10 DEF Handler

LEMMA WholePrefix ==
  ASSUME NEW c \in Seq(Requests)
  PROVE  SubSeq(c, 1, Len(c)) = c
  <1>1. \A i \in 1..Len(c) : c[i] \in Requests
    OBVIOUS
  <1>2. /\ SubSeq(c, 1, Len(c)) \in Seq(Requests)
        /\ Len(SubSeq(c, 1, Len(c))) = IF 1 <= Len(c) THEN Len(c) - 1 + 1 ELSE 0
        /\ \A i \in 1..(Len(c) - 1 + 1) : SubSeq(c, 1, Len(c))[i] = c[1 + i - 1]
    BY <1>1, SubSeqProperties, Z3
  <1> DEFINE d == SubSeq(c, 1, Len(c))
  <1> HIDE DEF d
  <1>3. d \in Seq(Requests) /\ Len(d) = Len(c) /\ \A i \in 1..Len(c) : d[i] = c[i]
    BY <1>2 DEF d
  <1>4. d = c
    BY <1>3, SeqEqual
  <1> QED  BY <1>4 DEF d

\* What a GET or a hash that is done has read.
HasRead(g) ==
  pc[g] = "ok" /\ (req[g].verb = "hash" \/ size[g] > 0) =>
    /\ Len(result[g]) = size[g]
    /\ WrittenWhole(result[g])

LEMMA HandlerReads ==
  ASSUME Core, Undisturbed, Whole, ReadIsWhole, NEW s \in Requests, Handler(s)
  PROVE  ReadIsWhole'
  <1> SUFFICES ASSUME disturbed' \cup lost' = {}, NEW g \in Requests
               PROVE  HasRead(g)'
    BY DEF ReadIsWhole, HasRead, WrittenWhole
  <1>0. /\ FsTypeOK /\ Placed /\ s \in Busy /\ req' = req /\ req[s] \in Asked
        /\ req[s].path \in Paths /\ req[s].path \in Below(req[s])
        /\ disturbed = {} /\ lost = {}
        /\ \A r \in Requests \ {s} : Same(r)
    BY HandlerFrame, RelatedIs, AskedIs DEF Core, Placed, Busy
  <1>1. Steady(s)
    BY <1>0 DEF Undisturbed
  <1> DEFINE Kept(c) == \E r \in Requests :
                 /\ pc'[r] = "ok" /\ req'[r].verb = "put"
                 /\ c = [i \in 1..req'[r].blocks |-> r]
  <1>2. ASSUME NEW c, WrittenWhole(c) PROVE Kept(c)
    <2>1. PICK r \in Requests : /\ pc[r] = "ok" /\ req[r].verb = "put"
                                /\ c = [i \in 1..req[r].blocks |-> r]
      BY <1>2 DEF WrittenWhole
    <2>2. r # s
      BY <1>0, <2>1 DEF Busy, Ends
    <2> QED  BY <1>0, <2>1, <2>2 DEF Same
  <1>3. CASE g # s
    <2>1. HasRead(g)
      BY <1>0 DEF ReadIsWhole, HasRead, WrittenWhole
    <2>2. WrittenWhole(result[g]) => WrittenWhole(result[g])'
      <3>1. result'[g] = result[g]
        BY <1>0, <1>3 DEF Same
      <3>2. Kept(result'[g]) => WrittenWhole(result[g])'
        BY DEF WrittenWhole
      <3> HIDE DEF Kept
      <3> QED  BY <1>2, <3>1, <3>2
    <2> QED  BY <1>0, <1>3, <2>1, <2>2 DEF HasRead, Same
  <1>4. ASSUME IsFile(req[s].path), pc[s] \in {"read", "measure"}
        PROVE  /\ data[tree[req[s].path]] \in Seq(Requests)
               /\ WrittenWhole(data[tree[req[s].path]])
    <2>1. tree[req[s].path] \in Requests
      BY <1>0, <1>4, FileIs
    <2>2. ~BeingWritten(req[s].path)
      BY <1>0, <1>4, AloneWriting
    <2> QED  BY <1>0, <2>1, <2>2 DEF Whole, FsTypeOK
  <1>5. CASE g = s
    <2> SUFFICES ASSUME pc'[s] = "ok", req[s].verb = "hash" \/ size'[s] > 0
                 PROVE  /\ Len(result'[s]) = size'[s]
                        /\ \E r \in Requests :
                             /\ pc'[r] = "ok" /\ req'[r].verb = "put"
                             /\ result'[s] = [i \in 1..req'[r].blocks |-> r]
      BY <1>0, <1>5 DEF HasRead, WrittenWhole
    <2> DEFINE c == data[tree[req[s].path]]
    <2>1. CASE GetReads(s)
      <3>1. /\ pc[s] = "read" /\ size' = size
            /\ IsFile(req[s].path) /\ result'[s] = SubSeq(c, 1, size[s])
        BY <1>0, <2>1 DEF GetReads, At, Go, FsTypeOK
      <3>2. Len(c) = size[s] /\ c \in Seq(Requests) /\ WrittenWhole(c)
        BY <1>1, <1>4, <3>1 DEF Steady
      <3> HIDE DEF c
      <3>3. result'[s] = c
        BY <3>1, <3>2, WholePrefix
      <3> QED  BY <1>2, <3>1, <3>2, <3>3
    <2>2. CASE HashMeasures(s)
      <3>1. /\ pc[s] = "measure" /\ result' = result
            /\ size'[s] = IF IsFile(req[s].path) THEN Len(c) ELSE 0
        BY <1>0, <2>2 DEF HashMeasures, At, FsTypeOK
      <3>2. IsFile(req[s].path) /\ result[s] = c
        BY <1>1, <3>1 DEF Steady
      <3>3. WrittenWhole(c)
        BY <1>4, <3>1, <3>2
      <3> QED  BY <1>2, <3>1, <3>2, <3>3
    <2>3. CASE HashOpens(s) \/ HashReads(s)
      BY <1>0, <2>3 DEF HashOpens, HashReads, Go, FsTypeOK
    <2>4. CASE GetMeasures(s)
      <3>1. pc[s] = "get" /\ req[s].verb = "get" /\ size' = size
        BY <1>0, <2>4 DEF GetMeasures, At, Go, FsTypeOK, Placed
      <3> QED  BY <1>0, <3>1 DEF Placed
    <2>5. CASE PutChecks(s) \/ MkdirChecks(s) \/ DirectoryMade(s) \/ PutOpens(s)
               \/ PutOpenFails(s) \/ PutWrites(s) \/ PutLoses(s)
               \/ PutWriteFails(s) \/ PutCleansUp(s) \/ DeleteChecks(s)
               \/ DeleteRemoves(s) \/ MoveChecks(s) \/ MoveRenames(s)
      <3>1. /\ size' = size
            /\ pc[s] \in {"put", "mkdir", "make", "open", "write", "cleanup",
                          "delete", "remove", "move", "rename"}
        BY <2>5 DEF PutChecks, MkdirChecks, DirectoryMade, PutOpens,
           PutOpenFails, PutWrites, PutLoses, PutWriteFails, PutCleansUp,
           DeleteChecks, DeleteRemoves, MoveChecks, MoveRenames, At
      <3> QED  BY <1>0, <3>1 DEF Placed
    <2> QED  BY <2>1, <2>2, <2>3, <2>4, <2>5 DEF Handler
  <1> QED  BY <1>3, <1>5

LEMMA DispatchReads ==
  ASSUME Core, Whole, ReadIsWhole, NEW r \in Requests, NEW q \in Asked,
         Dispatch(r, q)
  PROVE  Whole' /\ ReadIsWhole'
  <1>0. FsTypeOK /\ Placed
    BY DEF Core
  <1>1. /\ pc[r] = "new" /\ pc'[r] = q.verb
        /\ pc' = [pc EXCEPT ![r] = q.verb] /\ req' = [req EXCEPT ![r] = q]
        /\ q.verb \in {"put", "move", "delete", "mkdir", "get", "hash"}
        /\ UNCHANGED <<tree, data, file, size, result, todo, lost>>
        /\ disturbed \subseteq disturbed'
    BY <1>0, DispatchFrame
  <1>2. \A t \in Requests \ {r} : pc'[t] = pc[t] /\ req'[t] = req[t]
    BY <1>0, <1>1 DEF FsTypeOK
  <1>3. ASSUME disturbed' \cup lost' = {} PROVE disturbed \cup lost = {}
    BY <1>1, <1>3
  <1> DEFINE Kept(c) == \E t \in Requests :
                 /\ pc'[t] = "ok" /\ req'[t].verb = "put"
                 /\ c = [i \in 1..req'[t].blocks |-> t]
  <1>4. ASSUME NEW c, WrittenWhole(c) PROVE Kept(c)
    <2>1. PICK t \in Requests : /\ pc[t] = "ok" /\ req[t].verb = "put"
                                /\ c = [i \in 1..req[t].blocks |-> t]
      BY <1>4 DEF WrittenWhole
    <2>2. t # r
      BY <1>1, <2>1
    <2> QED  BY <1>2, <2>1, <2>2
  <1>5. ASSUME NEW p, BeingWritten(p) PROVE \E t \in Requests :
                 pc'[t] \in {"write", "cleanup"} /\ req'[t].path = p
    BY <1>1, <1>2, <1>5 DEF BeingWritten
  <1>6. Whole'
    <2> SUFFICES ASSUME disturbed' \cup lost' = {}, NEW p \in Paths,
                        tree'[p] \in Requests
                 PROVE  WrittenWhole(data[tree[p]])' \/ BeingWritten(p)'
      BY DEF Whole, BeingWritten
    <2>1. WrittenWhole(data[tree[p]]) \/ BeingWritten(p)
      BY <1>1, <1>3 DEF Whole
    <2>2. WrittenWhole(data[tree[p]]) => WrittenWhole(data[tree[p]])'
      <3>1. data'[tree'[p]] = data[tree[p]]
        BY <1>1
      <3>2. Kept(data'[tree'[p]]) => WrittenWhole(data[tree[p]])'
        BY DEF WrittenWhole
      <3> HIDE DEF Kept
      <3> QED  BY <1>4, <3>1, <3>2
    <2>3. BeingWritten(p) => BeingWritten(p)'
      BY <1>5 DEF BeingWritten
    <2> QED  BY <2>1, <2>2, <2>3
  <1>7. ASSUME disturbed' \cup lost' = {}, NEW g \in Requests
        PROVE  HasRead(g)'
    <2>1. CASE g = r
      BY <1>1, <2>1 DEF HasRead
    <2>2. CASE g # r
      <3>1. HasRead(g)
        BY <1>3, <1>7 DEF ReadIsWhole, HasRead, WrittenWhole
      <3>2. WrittenWhole(result[g]) => WrittenWhole(result[g])'
        <4>1. Kept(result'[g]) => WrittenWhole(result[g])'
          BY DEF WrittenWhole
        <4> HIDE DEF Kept
        <4> QED  BY <1>1, <1>4, <4>1
      <3> QED  BY <1>1, <1>2, <1>7, <2>2, <3>1, <3>2 DEF HasRead
    <2> QED  BY <2>1, <2>2
  <1>8. ReadIsWhole'
    BY <1>7 DEF ReadIsWhole, HasRead, WrittenWhole
  <1> QED  BY <1>6, <1>8

-----------------------------------------------------------------------------
(* The invariant                                                           *)

LEMMA FsInitInv ==
  ASSUME FsInit
  PROVE  FsInv
  <1>1. FsTypeOK
    <2>1. /\ \A r \in Requests : <<>> \in Seq(Requests)
          /\ 0 \in 0..MaxBlocks
      BY FsRequestsAssumption
    <2> QED  BY <2>1 DEF FsInit, FsTypeOK
  <1>2. \A r \in Requests : pc[r] = "new" /\ size[r] = 0
    BY DEF FsInit
  <1>3. Busy = {}
    BY <1>2 DEF Busy
  <1>4. \A p \in Paths : tree[p] = None
    BY DEF FsInit
  <1>5. Placed /\ Listed
    BY <1>2 DEF Placed, Listed
  <1>6. Small
    BY FsRequestsAssumption DEF FsInit, Small
  <1>7. Rooted /\ Unique
    BY <1>4, FsRequestsAssumption DEF Rooted, Unique, Exists
  <1>8. Fresh
    BY FsRequestsAssumption DEF FsInit, Fresh
  <1>9. Apart /\ Undisturbed
    BY <1>3 DEF Apart, Undisturbed
  <1>10. Whole /\ ReadIsWhole
    BY <1>2, <1>4, FsRequestsAssumption DEF Whole, ReadIsWhole
  <1> QED  BY <1>1, <1>5, <1>6, <1>7, <1>8, <1>9, <1>10 DEF FsInv, Core

LEMMA FsStutter ==
  ASSUME FsInv, UNCHANGED fsvars
  PROVE  FsInv'
  <1>1. /\ tree' = tree /\ data' = data /\ req' = req /\ pc' = pc /\ file' = file
        /\ size' = size /\ result' = result /\ todo' = todo
        /\ disturbed' = disturbed /\ lost' = lost
    BY DEF fsvars
  <1>2. FsTypeOK' /\ Placed' /\ Listed' /\ Small'
    BY <1>1 DEF FsInv, Core, FsTypeOK, Placed, Listed, Small
  <1>3. Rooted' /\ Unique' /\ Fresh' /\ Apart'
    BY <1>1 DEF FsInv, Core, Rooted, Unique, Fresh, Apart, Exists, Busy
  <1>4. Undisturbed'
    BY <1>1 DEF FsInv, Undisturbed, Own, Steady, Below, Busy, Exists, IsFile,
       IsDirectory
  <1>5. Whole' /\ ReadIsWhole'
    BY <1>1 DEF FsInv, Whole, ReadIsWhole, WrittenWhole, BeingWritten
  <1> QED  BY <1>2, <1>3, <1>4, <1>5 DEF FsInv, Core

LEMMA FsStepInv ==
  ASSUME FsInv, [FsNext]_fsvars
  PROVE  FsInv'
  <1>1. CASE UNCHANGED fsvars
    BY <1>1, FsStutter
  <1>2. ASSUME NEW r \in Requests, Handler(r) PROVE FsInv'
    BY <1>2, HandlerCore, HandlerUndisturbed, HandlerWhole, HandlerReads DEF FsInv
  <1>3. ASSUME NEW r \in Requests, NEW q \in Asked, Dispatch(r, q) PROVE FsInv'
    BY <1>3, DispatchKeeps, DispatchReads DEF FsInv
  <1> QED  BY <1>1, <1>2, <1>3 DEF FsNext

\* Whatever the requests, the paths and the number of threads: the tree is one,
\* a file has one path, and what the handler of an undisturbed request has
\* seen is still so when it goes on.
THEOREM FsInvariance == FsSpec => []FsInv
  <1>1. FsInit => FsInv
    BY FsInitInv
  <1>2. FsInv /\ [FsNext]_fsvars => FsInv'
    BY FsStepInv
  <1> QED  BY <1>1, <1>2, PTL DEF FsSpec

\* The state of the handlers and of the tree keeps its type.
THEOREM FsTypeCorrect == FsSpec => []FsTypeOK
  <1>1. FsInv => FsTypeOK
    BY DEF FsInv, Core
  <1> QED  BY <1>1, FsInvariance, PTL

\* A GET and a hash return what one PUT wrote, all of it (handle_get(),
\* handle_hash()), while no two requests meet and close() loses nothing.
THEOREM ReadsAreWhole == FsSpec => []ReadIsWhole
  <1>1. FsInv => ReadIsWhole
    BY DEF FsInv
  <1> QED  BY <1>1, FsInvariance, PTL

-----------------------------------------------------------------------------
(* The answers                                                             *)

LEMMA SuccessIsTrue ==
  ASSUME FsInv, NEW r \in Requests \ disturbed, Handler(r), pc'[r] = "ok"
  PROVE  Done(r)'
  <1>0. /\ FsTypeOK /\ FsTypeOK' /\ Placed /\ Listed /\ Core
        /\ r \in Busy /\ req[r] \in Asked /\ req[r].path \in Paths
        /\ req' = req /\ Steady(r)
    BY HandlerFrame, HandlerCore, AskedIs
       DEF FsInv, Core, Placed, Busy, Undisturbed
  <1>1. \A p \in Paths :
          /\ IsFile(p)' <=> tree'[p] \in Requests
          /\ Exists(p)' <=> tree'[p] # None
          /\ IsDirectory(p)' <=> tree'[p] = Directory
          /\ IsFile(p) <=> tree[p] \in Requests
          /\ Exists(p) <=> tree[p] # None
    BY <1>0, FsRequestsAssumption DEF FsTypeOK, IsFile, Exists, IsDirectory
  <1> USE DEF At, Go
  <1>2. ASSUME req[r].verb = "put", tree'[req[r].path] \in Requests,
               r \notin lost' => data'[tree'[req[r].path]]
                                   = [i \in 1..req[r].blocks |-> r]
        PROVE  Done(r)'
    BY <1>0, <1>1, <1>2 DEF Done
  <1>3. ASSUME req[r].verb = "mkdir", tree'[req[r].path] = Directory
        PROVE  Done(r)'
    BY <1>0, <1>1, <1>3 DEF Done
  <1>4. ASSUME req[r].verb \in {"get", "hash"} PROVE Done(r)'
    BY <1>0, <1>4 DEF Done
  <1>5. CASE MkdirChecks(r)
    <2>1. /\ pc[r] = "mkdir" /\ req[r].verb = "mkdir" /\ tree' = tree
          /\ Missing(req[r].path) = {} /\ ~Blocked(req[r].path)
      BY <1>0, <1>5 DEF MkdirChecks, Placed, FsTypeOK, CreatesDirectories
    <2>2. Within(req[r].path, req[r].path)
      BY <1>0, PathOrder
    <2>3. tree[req[r].path] = Directory
      BY <1>0, <2>1, <2>2 DEF Missing, Blocked, IsFile, IsDirectory
    <2> QED  BY <1>3, <2>1, <2>3
  <1>6. CASE DirectoryMade(r)
    <2>1. PICK d \in todo[r] :
            /\ tree' = [tree EXCEPT ![d] = Directory]
            /\ todo[r] = {d} /\ req[r].verb # "put"
      BY <1>0, <1>6 DEF DirectoryMade, FsTypeOK, Outermost
    <2>2. /\ pc[r] = "make" /\ req[r].verb = "mkdir" /\ d \in Paths
          /\ Target(req[r]) = req[r].path
      BY <1>0, <1>6, <2>1 DEF DirectoryMade, Placed, FsTypeOK, Target
    <2>3. Within(req[r].path, req[r].path)
      BY <1>0, PathOrder
    <2>4. req[r].path = d \/ tree[req[r].path] = Directory
      BY <1>0, <2>1, <2>2, <2>3 DEF Steady
    <2> QED  BY <1>0, <1>3, <2>1, <2>2, <2>4 DEF FsTypeOK
  <1>7. CASE PutOpens(r)
    <2>1. /\ pc[r] = "open" /\ req[r].verb = "put" /\ req[r].blocks = 0
          /\ file'[r] \in Requests /\ tree'[req[r].path] = file'[r]
          /\ data'[file'[r]] = <<>>
      BY <1>0, <1>7 DEF PutOpens, FsTypeOK, Placed, Truncated, Exists, IsDirectory
    <2>2. <<>> = [i \in 1..req[r].blocks |-> r]
      BY <2>1
    <2> QED  BY <1>2, <2>1, <2>2
  <1>8. CASE PutWrites(r) \/ PutLoses(r)
    <2>1. /\ pc[r] = "write" /\ req[r].verb = "put" /\ file[r] \in Requests
          /\ tree' = tree
      BY <1>0, <1>8 DEF PutWrites, PutLoses, Placed
    <2>2. tree[req[r].path] = file[r] /\ data[file[r]] = <<>>
      BY <1>0, <2>1 DEF Steady
    <2>3. CASE PutLoses(r)
      <3>1. r \in lost'
        BY <2>3 DEF PutLoses
      <3> QED  BY <1>2, <2>1, <2>2, <3>1
    <2>4. CASE PutWrites(r)
      <3>1. data'[file[r]] = Overwritten(data[file[r]], r, req[r].blocks)
        BY <1>0, <2>1, <2>4 DEF PutWrites, FsTypeOK
      <3>2. req[r].blocks \in Nat
        BY <1>0, <2>1, AskedIs, FsRequestsAssumption
      <3>3. Overwritten(<<>>, r, req[r].blocks) = [i \in 1..req[r].blocks |-> r]
        BY <3>2, OverwrittenEmpty
      <3> QED  BY <1>2, <2>1, <2>2, <3>1, <3>3
    <2> QED  BY <1>8, <2>3, <2>4
  <1>9. CASE GetMeasures(r) \/ GetReads(r) \/ HashMeasures(r)
    <2>1. pc[r] \in {"get", "read", "measure"}
      BY <1>9 DEF GetMeasures, GetReads, HashMeasures
    <2> QED  BY <1>0, <1>4, <2>1 DEF Placed
  <1>10. CASE DeleteRemoves(r)
    <2>1. PICK d \in todo[r] :
            todo[r] = {d} /\ Removable(d) /\ tree' = [tree EXCEPT ![d] = None]
      BY <1>0, <1>10 DEF DeleteRemoves, FsTypeOK, Removed
    <2>2. pc[r] = "remove" /\ req[r].verb = "delete" /\ d = req[r].path
      BY <1>0, <1>10, <2>1 DEF DeleteRemoves, Placed, Listed
    <2>3. ASSUME NEW p \in Paths, Within(p, req[r].path) PROVE tree'[p] = None
      BY <1>0, <1>1, <2>1, <2>2, <2>3 DEF FsTypeOK, Removable, Children
    <2> QED  BY <1>0, <1>1, <2>2, <2>3 DEF Done, Within
  <1>11. CASE MoveRenames(r)
    <2> DEFINE from == req[r].path
               to == req[r].to
    <2>1. /\ pc[r] = "rename" /\ req[r].verb = "move"
          /\ Renames(from, to) /\ tree' = AfterRename(from, to)
      BY <1>0, <1>11 DEF MoveRenames, Placed, FsTypeOK
    <2>2. to \in Paths /\ Within(from, from) /\ tree[from] # None
      BY <1>0, <2>1, AskedIs, PathOrder DEF Renames, Exists
    <2>3. /\ tree'[to] = tree[from]
          /\ from # to => tree'[from] = None
      BY <1>0, <2>1, <2>2, RenameShape
    <2> QED  BY <1>0, <1>1, <2>1, <2>2, <2>3 DEF Done
  <1>12. ~( \/ PutChecks(r) \/ PutOpenFails(r) \/ PutWriteFails(r)
            \/ PutCleansUp(r) \/ HashOpens(r) \/ HashReads(r)
            \/ DeleteChecks(r) \/ MoveChecks(r))
    BY <1>0 DEF PutChecks, CreatesDirectories, PutOpenFails, PutWriteFails,
       AfterFailedWrite, PutCleansUp, HashOpens, HashReads, DeleteChecks,
       MoveChecks, FsTypeOK
  <1> QED  BY <1>5, <1>6, <1>7, <1>8, <1>9, <1>10, <1>11, <1>12 DEF Handler

LEMMA FailureHasCause ==
  ASSUME FsInv, NEW r \in Requests \ disturbed, Handler(r), pc'[r] = "failed"
  PROVE  /\ pc[r] \notin {"make", "read"}
         /\ pc[r] = "remove" => ~req[r].recursive
  <1>0. /\ FsTypeOK /\ Listed /\ r \in Busy /\ req[r] \in Asked
        /\ req[r].path \in Paths /\ Steady(r) /\ Placed
    BY HandlerFrame, AskedIs DEF FsInv, Core, Placed, Busy, Undisturbed
  <1> USE DEF At, Go
  <1>1. ASSUME pc[r] = "make" PROVE FALSE
    <2>1. DirectoryMade(r)
      BY <1>1 DEF Handler, PutChecks, MkdirChecks, PutOpens, PutOpenFails,
         PutWrites, PutLoses, PutWriteFails, PutCleansUp, GetMeasures, GetReads,
         HashOpens, HashReads, HashMeasures, DeleteChecks, DeleteRemoves,
         MoveChecks, MoveRenames
    <2>2. PICK d \in Outermost(todo[r]) : MkdirFails(d)
      BY <1>0, <2>1 DEF DirectoryMade, FsTypeOK
    <2>3. /\ d \in todo[r] /\ d \in Paths /\ Within(Target(req[r]), d)
          /\ \A q \in todo[r] : Len(d) <= Len(q)
          /\ \A p \in Paths :
               Within(Target(req[r]), p) => p \in todo[r] \/ tree[p] = Directory
          /\ ~IsFile(d)
      BY <1>0, <1>1, <2>2 DEF Outermost, Listed, Steady
    <2>4. ~IsDirectory(Parent(d))
      BY <2>2, <2>3 DEF MkdirFails
    <2>5. Parent(d) \in Paths /\ tree[Parent(d)] # Directory
      BY <2>4 DEF IsDirectory
    <2>6. Within(d, Parent(d)) /\ Len(Parent(d)) < Len(d)
      BY <2>3, ParentShape, PathIsSeq
    <2>7. Within(Target(req[r]), Parent(d))
      <3>1. Target(req[r]) \in Seq(Names)
        BY <1>0, ParentShape, PathIsSeq DEF Target
      <3> QED  BY <2>3, <2>5, <2>6, <3>1, PathIsSeq, WithinOrder
    <2>8. Parent(d) \in todo[r]
      BY <2>3, <2>5, <2>7
    <2> QED  BY <2>3, <2>5, <2>6, <2>8, PathIsSeq
  <1>2. ASSUME pc[r] = "read" PROVE FALSE
    <2>1. GetReads(r)
      BY <1>2 DEF Handler, PutChecks, MkdirChecks, PutOpens, PutOpenFails,
         PutWrites, PutLoses, PutWriteFails, PutCleansUp, GetMeasures,
         DirectoryMade, HashOpens, HashReads, HashMeasures, DeleteChecks,
         DeleteRemoves, MoveChecks, MoveRenames
    <2>2. IsFile(req[r].path) /\ Len(data[tree[req[r].path]]) = size[r]
      BY <1>0, <1>2 DEF Steady
    <2>3. size[r] \in Nat
      BY <1>0, FsRequestsAssumption DEF FsTypeOK
    <2> QED  BY <1>0, <2>1, <2>2, <2>3 DEF GetReads, FsTypeOK
  <1>3. ASSUME pc[r] = "remove", req[r].recursive PROVE FALSE
    <2>1. DeleteRemoves(r)
      BY <1>3 DEF Handler, PutChecks, MkdirChecks, PutOpens, PutOpenFails,
         PutWrites, PutLoses, PutWriteFails, PutCleansUp, GetMeasures, GetReads,
         DirectoryMade, HashOpens, HashReads, HashMeasures, DeleteChecks,
         MoveChecks, MoveRenames
    <2>2. PICK d \in todo[r] : /\ \A q \in todo[r] \ {d} : ~Within(q, d)
                               /\ ~Removable(d)
      BY <1>0, <2>1 DEF DeleteRemoves, FsTypeOK
    <2>3. PICK q \in Paths : q # d /\ Within(q, d) /\ Exists(q)
      BY <2>2 DEF Removable, Children
    <2>4. d \in Paths /\ Within(d, req[r].path)
      BY <1>0, <1>3, <2>2 DEF Listed
    <2>5. q \in Below(req[r])
      BY <1>0, <2>3, <2>4, PathOrder, AskedIs DEF Below
    <2>6. q \in todo[r]
      BY <1>0, <1>3, <2>3, <2>5 DEF Steady
    <2> QED  BY <2>2, <2>3, <2>6
  <1> QED  BY <1>1, <1>2, <1>3

\* What PUT, MOVE, DELETE and the making of directories answer is so, and they
\* fail only for a reason of their own, while no related request runs beside
\* them: for every tree, every set of requests and any number of threads.
THEOREM AnswersAreTruthful == FsSpec => AnswersAreTrue
  <1> DEFINE Answers ==
        \A r \in Requests \ disturbed : pc[r] # pc'[r] =>
          /\ pc'[r] = "ok" => Done(r)'
          /\ pc'[r] = "failed" =>
               /\ pc[r] \notin {"make", "read"}
               /\ pc[r] = "remove" => ~req[r].recursive
  <1>1. FsInv /\ [FsNext]_fsvars => [Answers]_fsvars
    <2> SUFFICES ASSUME FsInv, FsNext, NEW r \in Requests \ disturbed,
                        pc[r] # pc'[r]
                 PROVE  /\ pc'[r] = "ok" => Done(r)'
                        /\ pc'[r] = "failed" =>
                             /\ pc[r] \notin {"make", "read"}
                             /\ pc[r] = "remove" => ~req[r].recursive
      OBVIOUS
    <2>0. FsTypeOK
      BY DEF FsInv, Core
    <2>1. CASE Handler(r)
      BY <2>1, SuccessIsTrue, FailureHasCause
    <2>2. ASSUME NEW s \in Requests, Handler(s), s # r PROVE FALSE
      BY <2>0, <2>2, HandlerFrame DEF Same
    <2>3. ASSUME NEW s \in Requests, NEW q \in Asked, Dispatch(s, q)
          PROVE  pc'[r] \notin {"ok", "failed"}
      <3>1. /\ pc' = [pc EXCEPT ![s] = q.verb]
            /\ q.verb \in {"put", "move", "delete", "mkdir", "get", "hash"}
        BY <2>0, <2>3, DispatchFrame
      <3> QED  BY <2>0, <3>1 DEF FsTypeOK
    <2> QED  BY <2>1, <2>2, <2>3 DEF FsNext
  <1>2. AnswersAreTrue <=> [][Answers]_fsvars
    BY DEF AnswersAreTrue
  <1> HIDE DEF Answers
  <1> QED  BY <1>1, <1>2, FsInvariance, PTL DEF FsSpec

\* overwrite=false is kept by handle_put() and handle_move(), although the
\* check and the creation are two calls, while no related request runs beside.
THEOREM CreatesAreSafe == FsSpec => SafeCreate
  <1> DEFINE Safe ==
        \A r \in Requests \ disturbed :
          /\ PutOpens(r) /\ ~req[r].overwrite => ~Exists(req[r].path)
          /\ MoveRenames(r) /\ ~req[r].overwrite /\ pc'[r] = "ok"
               => ~Exists(req[r].to)
  <1>1. FsInv /\ [FsNext]_fsvars => [Safe]_fsvars
    <2> SUFFICES ASSUME FsInv, NEW r \in Requests \ disturbed,
                        pc[r] \in {"open", "rename"}, ~req[r].overwrite
                 PROVE  /\ pc[r] = "open" => ~Exists(req[r].path)
                        /\ pc[r] = "rename" => ~Exists(req[r].to)
      BY DEF PutOpens, MoveRenames, At
    <2>1. Steady(r) /\ (pc[r] = "open" => req[r].verb = "put")
      BY DEF FsInv, Core, Placed, Undisturbed, Busy, Ends
    <2> QED  BY <2>1 DEF Steady
  <1>2. SafeCreate <=> [][Safe]_fsvars
    BY DEF SafeCreate
  <1> HIDE DEF Safe
  <1> QED  BY <1>1, <1>2, FsInvariance, PTL DEF FsSpec
===============================================================================
