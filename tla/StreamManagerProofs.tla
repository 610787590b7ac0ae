-------------------------- MODULE StreamManagerProofs --------------------------
(***************************************************************************)
(* The safety properties of StreamManager for any number of stream ids and *)
(* sessions.  Any server: what sessions_ holds is alive and was told to    *)
(* nobody (Entries, Told).  An orderly server: two sessions that exist     *)
(* never have one id, so what on_end_ erases and stops by id is the        *)
(* session that ends (Order).                                              *)
(***************************************************************************)
EXTENDS StreamManager, TLAPS

\* A session that was created keeps its id.
Identified == \A o \in Sessions : phase[o] # "free" => id[o] \in Ids

\* Sessions whose end was told to or by the server are past their life.
Told ==
  /\ \A o \in by_server : phase[o] \in {"stopping", "destroyed"}
  /\ \A o \in reported : phase[o] = "destroyed"
  /\ by_server \cap reported = {}

\* What sessions_ holds is running or ending, and nobody was told so.
Entries ==
  \A i \in Ids : sessions[i] # None =>
    /\ phase[sessions[i]] \in {"live", "stopping"}
    /\ id[sessions[i]] = i
    /\ sessions[i] \notin by_server \cup reported

IInv == TypeOK /\ Identified /\ Told /\ Entries

\* With an orderly server: an id has one session that exists, sessions_ has it
\* until its end was told, and the server knows the stream.
OneAlive ==
  \A o, p \in Sessions : Alive(o) /\ Alive(p) /\ id[o] = id[p] => o = p
Known(o) == o \in orphaned \/ id[o] \in streams
StartingIsAwaited ==
  \A o \in Sessions : phase[o] = "starting" =>
    /\ sessions[id[o]] = None
    /\ Known(o)
    /\ suspends => o \in orphaned \/ id[o] \in awaiting
UntoldIsRegistered ==
  \A o \in Sessions : phase[o] \in {"live", "stopping"} /\ o \notin by_server =>
    sessions[id[o]] = o
LiveIsKnown == \A o \in Sessions : phase[o] = "live" => Known(o)
LostIsOrphaned == ~connected => \A o \in Sessions : Alive(o) => o \in orphaned

Order ==
  Orderly => /\ OneAlive /\ StartingIsAwaited /\ UntoldIsRegistered
             /\ LiveIsKnown /\ LostIsOrphaned

\* The strings the actions assign are in their types.
LEMMA Phases ==
  {"free", "starting", "live", "stopping", "destroyed"} = Phase
  BY DEF Phase

LEMMA InitInv == Init => IInv
  BY StreamManagerAssumption, Phases
  DEF Init, IInv, TypeOK, Identified, Told, Entries

LEMMA InitOrder == Init => Order
  BY DEF Init, Order, OneAlive, StartingIsAwaited, UntoldIsRegistered,
    LiveIsKnown, LostIsOrphaned, Alive

-----------------------------------------------------------------------------
(* Any server                                                              *)

LEMMA StepInv == ASSUME IInv, [Next]_vars PROVE IInv'
  <1> USE DEF IInv
  <1>1. ASSUME NEW i \in Ids, StartRefused(i) \/ StartThrows(i),
               UNCHANGED setting
        PROVE  IInv'
    BY <1>1
    DEF StartRefused, StartThrows, Requests, Awaiting, setting, TypeOK,
      Identified, Told, Entries
  <1>2. ASSUME NEW i \in Ids, NEW o \in Sessions, StartCreates(i, o),
               UNCHANGED setting
        PROVE  IInv'
    <2> USE <1>2 DEF StartCreates, Requests, Awaiting, setting
    <2>1. TypeOK'  BY Phases DEF TypeOK
    <2>2. Identified'  BY DEF TypeOK, Identified
    <2>3. Told'  BY DEF TypeOK, Told
    <2>4. Entries'
      BY StreamManagerAssumption DEF TypeOK, Entries
    <2> QED  BY <2>1, <2>2, <2>3, <2>4
  <1>3. ASSUME NEW o \in Sessions, SessionStarted(o), UNCHANGED setting
        PROVE  IInv'
    <2> USE <1>3 DEF SessionStarted, setting
    <2>0. id[o] \in Ids  BY DEF Identified
    <2>1. TypeOK'  BY <2>0, Phases DEF TypeOK, Emplace
    <2>2. Identified'  BY DEF TypeOK, Identified
    <2>3. Told'  BY DEF TypeOK, Told
    <2>4. Entries'
      BY <2>0, StreamManagerAssumption DEF TypeOK, Told, Entries, Emplace, Registered
    <2> QED  BY <2>1, <2>2, <2>3, <2>4
  <1>4. ASSUME NEW o \in Sessions, SessionFailed(o) \/ SessionThrows(o),
               UNCHANGED setting
        PROVE  IInv'
    <2> USE <1>4 DEF SessionFailed, SessionThrows, setting
    <2>1. TypeOK'  BY Phases DEF TypeOK
    <2>2. Identified'  BY DEF TypeOK, Identified
    <2>3. Told'  BY DEF TypeOK, Told
    <2>4. Entries'  BY StreamManagerAssumption DEF TypeOK, Entries
    <2> QED  BY <2>1, <2>2, <2>3, <2>4
  <1>5. ASSUME NEW i \in Ids, StopStream(i), UNCHANGED setting PROVE IInv'
    <2> USE <1>5 DEF StopStream, setting, Erase, Registered
    <2>1. CASE sessions[i] = None
      BY <2>1, StreamManagerAssumption DEF TypeOK, Identified, Told, Entries
    <2>2. CASE sessions[i] # None
      <3> DEFINE o == sessions[i]
      <3>0. o \in Sessions /\ phase[o] \in {"live", "stopping"}
        BY <2>2 DEF TypeOK, Entries
      <3>1. /\ phase' \in [Sessions -> Phase] /\ phase'[o] = "stopping"
            /\ \A p \in Sessions \ {o} : phase'[p] = phase[p]
        BY <2>2, <3>0, Phases DEF StoppedPhase, TypeOK
      <3>2. by_server' = by_server \cup {o}  BY <2>2
      <3>3. TypeOK'  BY <3>0, <3>1, <3>2 DEF TypeOK
      <3>4. Identified'  BY <3>0, <3>1 DEF Identified
      <3>5. Told'  BY <2>2, <3>0, <3>1, <3>2 DEF TypeOK, Told, Entries
      <3>6. Entries'
        BY <3>0, <3>1, <3>2, StreamManagerAssumption DEF TypeOK, Entries
      <3> QED  BY <3>3, <3>4, <3>5, <3>6
    <2> QED  BY <2>1, <2>2
  <1>6. ASSUME NEW o \in Sessions, SessionEnds(o), UNCHANGED setting PROVE IInv'
    <2> USE <1>6 DEF SessionEnds, setting
    <2>1. TypeOK'  BY Phases DEF TypeOK
    <2>2. Identified'  BY DEF TypeOK, Identified
    <2>3. Told'  BY DEF TypeOK, Told
    <2>4. Entries'  BY StreamManagerAssumption DEF TypeOK, Entries
    <2> QED  BY <2>1, <2>2, <2>3, <2>4
  <1>7. ASSUME NEW o \in Sessions, SessionReleased(o), UNCHANGED setting
        PROVE  IInv'
    <2> USE <1>7 DEF SessionReleased, setting, Erase
    <2> DEFINE found == sessions[id[o]]
    <2>0. id[o] \in Ids /\ found \in Sessions \cup {None}
      BY DEF Identified, TypeOK
    <2>1. /\ phase' \in [Sessions -> Phase] /\ phase'[o] = "destroyed"
          /\ \A p \in Sessions \ {o, found} : phase'[p] = phase[p]
          /\ found \in Sessions \ {o} =>
               phase'[found] = IF phase[found] = "live" THEN "stopping"
                               ELSE phase[found]
      BY <2>0, Phases, StreamManagerAssumption DEF TypeOK
    <2>2. reported' = IF found = o /\ connected THEN reported \cup {o} ELSE reported
      OBVIOUS
    <2>3. TypeOK'  BY <2>0, <2>1, <2>2 DEF TypeOK
    <2>4. Identified'  BY <2>0, <2>1, StreamManagerAssumption DEF Identified, TypeOK
    <2>5. Told'
      BY <2>0, <2>1, <2>2, StreamManagerAssumption DEF TypeOK, Told, Entries
    <2>6. \A i \in Ids \ {id[o]} : sessions'[i] = sessions[i]
            /\ (sessions[i] # None => sessions[i] \notin {o, found})
      BY <2>0 DEF TypeOK, Entries
    <2>7. sessions'[id[o]] = None  BY <2>0 DEF TypeOK
    <2>8. Entries'
      <3> SUFFICES ASSUME NEW i \in Ids, sessions'[i] # None
                   PROVE  /\ phase'[sessions'[i]] \in {"live", "stopping"}
                          /\ id'[sessions'[i]] = i
                          /\ sessions'[i] \notin by_server' \cup reported'
        BY DEF Entries
      <3>1. /\ i # id[o] /\ sessions'[i] = sessions[i]
            /\ sessions[i] \in Sessions \ {o, found}
        BY <2>6, <2>7 DEF TypeOK
      <3> QED  BY <2>1, <2>2, <3>1 DEF Entries
    <2> QED  BY <2>3, <2>4, <2>5, <2>8
  <1>8. CASE (Disconnect \/ Reconnect) /\ UNCHANGED setting
    BY <1>8 DEF Disconnect, Reconnect, setting, TypeOK, Identified, Told, Entries
  <1>9. CASE UNCHANGED vars
    BY <1>9 DEF vars, setting, TypeOK, Identified, Told, Entries
  <1> QED
    BY <1>1, <1>2, <1>3, <1>4, <1>5, <1>6, <1>7, <1>8, <1>9 DEF Next

\* What sessions_ and the told ends are bound to, for any server.
THEOREM Invariance == Spec => []IInv
  <1>1. IInv /\ [Next]_vars => IInv'  BY StepInv
  <1> QED  BY <1>1, InitInv, PTL DEF Spec

\* Type correctness of StreamManager.
THEOREM TypeCorrect == Spec => []TypeOK
  <1>1. IInv => TypeOK  BY DEF IInv
  <1> QED  BY <1>1, Invariance, PTL

\* An entry of sessions_ never outlives its session: start(), stop() and
\* on_end_ keep the two together.
THEOREM EntriesAreAlive == Spec => []EntryIsAlive
  <1>1. IInv => EntryIsAlive  BY DEF IInv, Entries, EntryIsAlive, Registered
  <1> QED  BY <1>1, Invariance, PTL

\* stop() tells the server nothing it said itself, for any server.
THEOREM StopsAreToldOnce == Spec => []NoStopEcho
  <1>1. IInv => NoStopEcho  BY DEF IInv, Told, NoStopEcho
  <1> QED  BY <1>1, Invariance, PTL

-----------------------------------------------------------------------------
(* An orderly server                                                       *)

\* START_STREAM reaches start() for an id no session has: that is what the
\* check of sessions_ is worth when the server is orderly.
LEMMA CreatedIsAlone ==
  ASSUME IInv, Order, Orderly, NEW i \in Ids, Requests(i), ~Registered(i),
         NEW p \in Sessions, Alive(p)
  PROVE  id[p] # i
  <1> SUFFICES ASSUME id[p] = i PROVE FALSE  OBVIOUS
  <1>1. ~Ending(p)  BY DEF Requests, Orderly
  <1>2. phase[p] \in {"starting", "live"} /\ p \notin orphaned
    BY <1>1 DEF Ending, Alive
  <1>3. CASE phase[p] = "live"
    BY <1>3, StreamManagerAssumption
    DEF IInv, Told, Order, UntoldIsRegistered, Registered
  <1>4. CASE phase[p] = "starting"
    BY <1>2, <1>4 DEF Order, StartingIsAwaited, Orderly, Requests, Undisturbed
  <1> QED  BY <1>2, <1>3, <1>4

\* STOP_STREAM finds no session of its id still starting, unless an earlier
\* connection started it.
LEMMA StoppedIsNotStarting ==
  ASSUME IInv, Order, Orderly, NEW i \in Ids, StopStream(i),
         NEW p \in Sessions, phase[p] = "starting", id[p] = i
  PROVE  p \in orphaned
  BY DEF Order, StartingIsAwaited, Orderly, StopStream, Undisturbed

\* With an orderly server the session whose end is told is the only one of
\* its id, so on_end_ stops no other.
LEMMA EndTouchesNoOther ==
  ASSUME IInv, Order, Orderly, NEW o \in Sessions, SessionReleased(o)
  PROVE  /\ phase'[o] = "destroyed"
         /\ \A p \in Sessions \ {o} : phase'[p] = phase[p]
  <1> DEFINE found == sessions[id[o]]
  <1>1. id[o] \in Ids /\ phase[o] = "stopping"
    BY DEF IInv, Identified, SessionReleased
  <1>2. found # None => /\ found \in Sessions /\ id[found] = id[o]
                        /\ phase[found] \in {"live", "stopping"}
    BY <1>1 DEF IInv, TypeOK, Entries
  <1>3. found \in {None, o}
    BY <1>1, <1>2 DEF Order, OneAlive, Alive
  <1>4. phase' = [phase EXCEPT ![o] = "destroyed"]
    BY <1>3 DEF SessionReleased
  <1> QED  BY <1>4 DEF IInv, TypeOK

\* A stopped session is destroyed when its last coroutine ends, and only then.
LEMMA OnlyReleasedIsDestroyed ==
  ASSUME IInv, [Next]_vars, NEW o \in Sessions,
         phase[o] = "stopping", phase'[o] = "destroyed"
  PROVE  SessionReleased(o)
  <1> USE DEF IInv
  <1>1. ASSUME NEW p \in Sessions, SessionReleased(p) PROVE SessionReleased(o)
    <2>1. CASE p = o  BY <1>1, <2>1
    <2>2. CASE p # o
      BY <1>1, <2>2 DEF SessionReleased, TypeOK
    <2> QED  BY <2>1, <2>2
  <1>2. ASSUME NEW p \in Sessions,
               \/ SessionStarted(p) \/ SessionFailed(p) \/ SessionThrows(p)
               \/ SessionEnds(p)
        PROVE  FALSE
    BY <1>2 DEF SessionStarted, SessionFailed, SessionThrows, SessionEnds, TypeOK
  <1>3. ASSUME NEW i \in Ids, NEW p \in Sessions, StartCreates(i, p)
        PROVE  FALSE
    BY <1>3 DEF StartCreates, TypeOK
  <1>4. ASSUME NEW i \in Ids, StartRefused(i) \/ StartThrows(i) \/ StopStream(i)
        PROVE  FALSE
    BY <1>4 DEF StartRefused, StartThrows, StopStream, StoppedPhase, TypeOK
  <1>5. ASSUME Disconnect \/ Reconnect PROVE FALSE
    BY <1>5 DEF Disconnect, Reconnect
  <1>6. ASSUME UNCHANGED vars PROVE FALSE  BY <1>6 DEF vars
  <1> QED  BY <1>1, <1>2, <1>3, <1>4, <1>5, <1>6 DEF Next

LEMMA StepOrder ==
  ASSUME IInv, Order, [Next]_vars PROVE Order'
  <1> USE DEF Alive, Known
  <1>0. Orderly' <=> Orderly  BY DEF Next, vars, setting, Orderly
  <1> SUFFICES ASSUME Orderly
               PROVE  /\ OneAlive' /\ StartingIsAwaited' /\ UntoldIsRegistered'
                      /\ LiveIsKnown' /\ LostIsOrphaned'
    BY <1>0 DEF Order
  <1>a. /\ OneAlive /\ StartingIsAwaited /\ UntoldIsRegistered
        /\ LiveIsKnown /\ LostIsOrphaned
    BY DEF Order
  <1>b. TypeOK /\ Identified /\ Told /\ Entries  BY DEF IInv
  <1> DEFINE Goal == /\ OneAlive' /\ StartingIsAwaited' /\ UntoldIsRegistered'
                     /\ LiveIsKnown' /\ LostIsOrphaned'
  <1>1. ASSUME NEW i \in Ids, StartRefused(i) \/ StartThrows(i),
               UNCHANGED setting
        PROVE  Goal
    BY <1>1, <1>a
    DEF StartRefused, StartThrows, Requests, Awaiting, setting, OneAlive,
      StartingIsAwaited,
      UntoldIsRegistered, LiveIsKnown, LostIsOrphaned
  <1>2. ASSUME NEW i \in Ids, NEW o \in Sessions, StartCreates(i, o),
               UNCHANGED setting
        PROVE  Goal
    <2>0. \A p \in Sessions : Alive(p) => id[p] # i
      BY <1>2, CreatedIsAlone DEF StartCreates
    <2>1. /\ phase[o] = "free" /\ phase'[o] = "starting" /\ id'[o] = i
          /\ \A p \in Sessions \ {o} : phase'[p] = phase[p] /\ id'[p] = id[p]
      BY <1>2, <1>b DEF StartCreates, TypeOK
    <2>2. /\ connected /\ sessions[i] = None /\ i \in streams'
          /\ waits => i \in awaiting'
          /\ streams \subseteq streams' /\ awaiting \subseteq awaiting'
          /\ UNCHANGED <<connected, sessions, by_server, orphaned, setting>>
      BY <1>2 DEF StartCreates, Requests, Awaiting, Registered
    <2>3. OneAlive'  BY <1>a, <2>0, <2>1 DEF OneAlive
    <2>4. StartingIsAwaited'
      BY <1>a, <2>1, <2>2 DEF StartingIsAwaited, Orderly, setting
    <2>5. UntoldIsRegistered'  BY <1>a, <2>1, <2>2 DEF UntoldIsRegistered
    <2>6. LiveIsKnown'  BY <1>a, <2>1, <2>2 DEF LiveIsKnown
    <2>7. LostIsOrphaned'  BY <2>2 DEF LostIsOrphaned
    <2> QED  BY <2>3, <2>4, <2>5, <2>6, <2>7
  <1>3. ASSUME NEW o \in Sessions, SessionStarted(o), UNCHANGED setting
        PROVE  Goal
    <2>0. id[o] \in Ids /\ sessions[id[o]] = None
      BY <1>3, <1>a, <1>b DEF SessionStarted, Identified, StartingIsAwaited
    <2>1. /\ phase[o] = "starting" /\ phase'[o] = "live"
          /\ \A p \in Sessions \ {o} : phase'[p] = phase[p]
      BY <1>3, <1>b DEF SessionStarted, TypeOK
    <2>2. /\ sessions' = [sessions EXCEPT ![id[o]] = o]
          /\ awaiting' = awaiting \ {id[o]}
          /\ UNCHANGED <<connected, streams, id, by_server, orphaned, setting>>
      BY <1>3, <2>0 DEF SessionStarted, Emplace, Registered
    <2>a. \A p \in Sessions \ {o} : Alive(p) => id[p] # id[o]
      BY <1>a, <2>1 DEF OneAlive
    <2>b. /\ sessions'[id[o]] = o
          /\ \A p \in Sessions \ {o} :
               id[p] # id[o] => sessions'[id[p]] = sessions[id[p]]
      BY <1>b, <2>0, <2>2 DEF TypeOK
    <2>3. OneAlive'  BY <1>a, <2>1, <2>2 DEF OneAlive
    <2>4. StartingIsAwaited'
      BY <1>a, <2>1, <2>2, <2>a, <2>b DEF StartingIsAwaited, setting
    <2>5. UntoldIsRegistered'
      BY <1>a, <2>1, <2>2, <2>a, <2>b DEF UntoldIsRegistered
    <2>6. LiveIsKnown'
      BY <1>a, <2>1, <2>2 DEF LiveIsKnown, StartingIsAwaited
    <2>7. LostIsOrphaned'  BY <1>a, <2>1, <2>2 DEF LostIsOrphaned
    <2> QED  BY <2>3, <2>4, <2>5, <2>6, <2>7
  <1>4. ASSUME NEW o \in Sessions, SessionFailed(o) \/ SessionThrows(o),
               UNCHANGED setting
        PROVE  Goal
    <2>1. /\ phase[o] = "starting" /\ phase'[o] = "destroyed"
          /\ \A p \in Sessions \ {o} : phase'[p] = phase[p]
      BY <1>4, <1>b DEF SessionFailed, SessionThrows, TypeOK
    <2>2. /\ awaiting \ {id[o]} \subseteq awaiting'
          /\ UNCHANGED <<connected, streams, sessions, id, by_server, orphaned,
                         setting>>
      BY <1>4 DEF SessionFailed, SessionThrows
    <2>a. \A p \in Sessions \ {o} : Alive(p) => id[p] # id[o]
      BY <1>a, <2>1 DEF OneAlive
    <2>3. OneAlive'  BY <1>a, <2>1, <2>2 DEF OneAlive
    <2>4. StartingIsAwaited'
      BY <1>a, <2>1, <2>2, <2>a DEF StartingIsAwaited, setting
    <2>5. UntoldIsRegistered'  BY <1>a, <2>1, <2>2 DEF UntoldIsRegistered
    <2>6. LiveIsKnown'  BY <1>a, <2>1, <2>2 DEF LiveIsKnown
    <2>7. LostIsOrphaned'  BY <1>a, <2>1, <2>2 DEF LostIsOrphaned
    <2> QED  BY <2>3, <2>4, <2>5, <2>6, <2>7
  <1>5. ASSUME NEW i \in Ids, StopStream(i), UNCHANGED setting PROVE Goal
    <2> DEFINE found == sessions[i]
    <2>0. \A p \in Sessions : phase[p] = "starting" /\ id[p] = i => p \in orphaned
      BY <1>5, StoppedIsNotStarting
    <2>1. /\ connected /\ streams' = streams \ {i}
          /\ UNCHANGED <<connected, id, awaiting, orphaned, setting>>
          /\ sessions'[i] = None
          /\ \A j \in Ids \ {i} : sessions'[j] = sessions[j]
      BY <1>5, <1>b DEF StopStream, Erase, TypeOK
    <2>2. by_server' = by_server \cup ({found} \ {None})
      BY <1>5 DEF StopStream, Registered
    <2>3. \A p \in Sessions :
            phase'[p] = IF p = found /\ phase[p] = "live" THEN "stopping"
                        ELSE phase[p]
      BY <1>5, <1>b, StreamManagerAssumption
      DEF StopStream, Registered, StoppedPhase, TypeOK
    <2>4. \A p \in Sessions :
            id[p] = i /\ phase[p] \in {"live", "stopping"}
              => p = found \/ p \in by_server
      BY <1>a DEF UntoldIsRegistered
    <2>5. \A p \in Sessions : phase[p] = "live" => p \notin by_server
      BY <1>b DEF Told
    <2>6. OneAlive'  BY <1>a, <2>1, <2>3 DEF OneAlive
    <2>7. StartingIsAwaited'
      <3> SUFFICES ASSUME NEW p \in Sessions, phase'[p] = "starting"
                   PROVE  /\ sessions'[id'[p]] = None
                          /\ p \in orphaned' \/ id'[p] \in streams'
                          /\ suspends' => p \in orphaned' \/ id'[p] \in awaiting'
        BY DEF StartingIsAwaited
      <3>1. phase[p] = "starting" /\ id[p] \in Ids
        BY <1>b, <2>3 DEF Identified
      <3> QED  BY <1>a, <2>0, <2>1, <3>1 DEF StartingIsAwaited, setting
    <2>8. UntoldIsRegistered'
      <3> SUFFICES ASSUME NEW p \in Sessions, phase'[p] \in {"live", "stopping"},
                          p \notin by_server'
                   PROVE  sessions'[id'[p]] = p
        BY DEF UntoldIsRegistered
      <3>1. /\ phase[p] \in {"live", "stopping"} /\ p \notin by_server
            /\ p # found /\ id[p] \in Ids
        BY <1>b, <2>2, <2>3, StreamManagerAssumption DEF Identified
      <3> QED  BY <1>a, <2>1, <2>4, <3>1 DEF UntoldIsRegistered
    <2>9. LiveIsKnown'
      <3> SUFFICES ASSUME NEW p \in Sessions, phase'[p] = "live"
                   PROVE  p \in orphaned' \/ id'[p] \in streams'
        BY DEF LiveIsKnown
      <3>1. phase[p] = "live" /\ p # found  BY <2>3
      <3>2. id[p] # i  BY <2>4, <2>5, <3>1
      <3> QED  BY <1>a, <2>1, <3>1, <3>2 DEF LiveIsKnown
    <2>10. LostIsOrphaned'  BY <2>1 DEF LostIsOrphaned
    <2> QED  BY <2>6, <2>7, <2>8, <2>9, <2>10
  <1>6. ASSUME NEW o \in Sessions, SessionEnds(o), UNCHANGED setting PROVE Goal
    <2>1. /\ phase[o] = "live" /\ phase'[o] = "stopping"
          /\ \A p \in Sessions \ {o} : phase'[p] = phase[p]
          /\ UNCHANGED <<connected, streams, sessions, id, awaiting, by_server,
                         orphaned, setting>>
      BY <1>6, <1>b DEF SessionEnds, TypeOK
    <2>2. OneAlive'  BY <1>a, <2>1 DEF OneAlive
    <2>3. StartingIsAwaited'  BY <1>a, <2>1 DEF StartingIsAwaited, setting
    <2>4. UntoldIsRegistered'  BY <1>a, <2>1 DEF UntoldIsRegistered
    <2>5. LiveIsKnown'  BY <1>a, <2>1 DEF LiveIsKnown
    <2>6. LostIsOrphaned'  BY <1>a, <2>1 DEF LostIsOrphaned
    <2> QED  BY <2>2, <2>3, <2>4, <2>5, <2>6
  <1>7. ASSUME NEW o \in Sessions, SessionReleased(o), UNCHANGED setting
        PROVE  Goal
    <2>1. /\ phase[o] = "stopping" /\ phase'[o] = "destroyed"
          /\ \A p \in Sessions \ {o} : phase'[p] = phase[p]
      BY <1>7, EndTouchesNoOther DEF SessionReleased
    <2>2. /\ UNCHANGED <<connected, streams, id, awaiting, by_server, orphaned,
                         setting>>
          /\ sessions'[id[o]] = None
          /\ \A i \in Ids \ {id[o]} : sessions'[i] = sessions[i]
      BY <1>7, <1>b, <2>1 DEF SessionReleased, Erase, TypeOK, Identified
    <2>a. \A p \in Sessions \ {o} : Alive(p) => id[p] # id[o] /\ id[p] \in Ids
      BY <1>a, <1>b, <2>1 DEF OneAlive, Identified
    <2>3. OneAlive'  BY <1>a, <2>1, <2>2 DEF OneAlive
    <2>4. StartingIsAwaited'
      BY <1>a, <2>1, <2>2, <2>a DEF StartingIsAwaited, setting
    <2>5. UntoldIsRegistered'
      BY <1>a, <2>1, <2>2, <2>a DEF UntoldIsRegistered
    <2>6. LiveIsKnown'  BY <1>a, <2>1, <2>2 DEF LiveIsKnown
    <2>7. LostIsOrphaned'  BY <1>a, <2>1, <2>2 DEF LostIsOrphaned
    <2> QED  BY <2>3, <2>4, <2>5, <2>6, <2>7
  <1>8. CASE Disconnect /\ UNCHANGED setting
    <2>1. /\ UNCHANGED <<streams, sessions, phase, id, by_server, setting>>
          /\ orphaned' = orphaned \cup {o \in Sessions : Alive(o)}
      BY <1>8 DEF Disconnect
    <2>2. OneAlive'  BY <1>a, <2>1 DEF OneAlive
    <2>3. StartingIsAwaited'  BY <1>a, <2>1 DEF StartingIsAwaited, setting
    <2>4. UntoldIsRegistered'  BY <1>a, <2>1 DEF UntoldIsRegistered
    <2>5. LiveIsKnown'  BY <2>1 DEF LiveIsKnown
    <2>6. LostIsOrphaned'  BY <2>1 DEF LostIsOrphaned
    <2> QED  BY <2>2, <2>3, <2>4, <2>5, <2>6
  <1>9. CASE Reconnect /\ UNCHANGED setting
    BY <1>9, <1>a
    DEF Reconnect, setting, OneAlive, StartingIsAwaited, UntoldIsRegistered,
      LiveIsKnown, LostIsOrphaned
  <1>10. CASE UNCHANGED vars
    BY <1>10, <1>a
    DEF vars, setting, OneAlive, StartingIsAwaited, UntoldIsRegistered,
      LiveIsKnown, LostIsOrphaned
  <1> QED
    BY <1>1, <1>2, <1>3, <1>4, <1>5, <1>6, <1>7, <1>8, <1>9, <1>10 DEF Next

\* The order of an orderly server's sessions, for any number of them.
THEOREM OrderInvariance == Spec => [](IInv /\ Order)
  <1>1. (IInv /\ Order) /\ [Next]_vars => (IInv /\ Order)'
    BY StepInv, StepOrder
  <1> QED  BY <1>1, InitInv, InitOrder, PTL DEF Spec

\* Every running session is the one its id finds, and those of the connection
\* can be stopped by the server.
THEOREM LiveAreReachable == Spec => []LiveIsReachable
  <1>1. IInv /\ Order => LiveIsReachable
    BY DEF IInv, Told, Order, UntoldIsRegistered, LiveIsKnown, Known,
      LiveIsReachable
  <1> QED  BY <1>1, OrderInvariance, PTL

\* on_end_ stops no other session.
THEOREM EndingsAreLocal == Spec => EndingIsLocal
  <1> DEFINE Local ==
        Orderly => \A o, p \in Sessions :
          phase[o] = "stopping" /\ phase'[o] = "destroyed" /\ p # o
            => phase'[p] = phase[p]
  <1>1. ASSUME IInv, Order, [Next]_vars PROVE [Local]_vars
    <2> SUFFICES ASSUME Orderly, NEW o \in Sessions, NEW p \in Sessions \ {o},
                        phase[o] = "stopping", phase'[o] = "destroyed"
                 PROVE  phase'[p] = phase[p]
      OBVIOUS
    <2>1. SessionReleased(o)  BY <1>1, OnlyReleasedIsDestroyed
    <2> QED  BY <1>1, <2>1, EndTouchesNoOther
  <1> QED  BY <1>1, OrderInvariance, PTL DEF Spec, EndingIsLocal

\* A session that ended by itself is reported, unless its connection is lost.
THEOREM EndsAreReported == Spec => EndIsReported
  <1> DEFINE Reports ==
        Orderly => \A o \in Sessions :
          phase[o] = "stopping" /\ phase'[o] = "destroyed" /\ o \notin by_server
            /\ o \notin orphaned => o \in reported'
  <1>1. ASSUME IInv, Order, [Next]_vars PROVE [Reports]_vars
    <2> SUFFICES ASSUME Orderly, NEW o \in Sessions,
                        phase[o] = "stopping", phase'[o] = "destroyed",
                        o \notin by_server, o \notin orphaned
                 PROVE  o \in reported'
      OBVIOUS
    <2>1. SessionReleased(o)  BY <1>1, OnlyReleasedIsDestroyed
    <2>2. sessions[id[o]] = o /\ connected
      BY <1>1 DEF Order, UntoldIsRegistered, LostIsOrphaned, Alive
    <2> QED  BY <2>1, <2>2 DEF SessionReleased
  <1> QED  BY <1>1, OrderInvariance, PTL DEF Spec, EndIsReported

-----------------------------------------------------------------------------
(* Refinement of StreamService                                             *)

LEMMA LifeIs ==
  ASSUME NEW o \in Sessions
  PROVE  /\ phase[o] = "free" => StreamLife(o) = "none"
         /\ phase[o] = "starting" => StreamLife(o) = "starting"
         /\ phase[o] = "live" => StreamLife(o) = "open"
         /\ phase[o] = "stopping" /\ o \in by_server => StreamLife(o) = "stopped"
         /\ phase[o] = "stopping" /\ o \notin by_server => StreamLife(o) = "ended"
         /\ phase[o] = "destroyed" => StreamLife(o) = "over"
  BY DEF StreamLife

\* The same in the state after a step.
LEMMA LifeBecomes ==
  ASSUME NEW o \in Sessions
  PROVE  /\ phase'[o] = "starting" => StreamLife(o)' = "starting"
         /\ phase'[o] = "live" => StreamLife(o)' = "open"
         /\ phase'[o] = "stopping" /\ o \in by_server' => StreamLife(o)' = "stopped"
         /\ phase'[o] = "stopping" /\ o \notin by_server' => StreamLife(o)' = "ended"
         /\ phase'[o] = "destroyed" => StreamLife(o)' = "over"
  BY DEF StreamLife

\* A session nothing was done to is the same to the server.
LEMMA LifeStays ==
  ASSUME NEW o \in Sessions, phase'[o] = phase[o],
         o \in by_server' <=> o \in by_server
  PROVE  StreamLife(o)' = StreamLife(o)
  BY DEF StreamLife

\* A step that concerns one session changes the life of that stream.
LEMMA OneBecomes ==
  ASSUME NEW o \in Sessions, NEW new, StreamLife(o)' = new,
         \A p \in Sessions \ {o} :
           phase'[p] = phase[p] /\ (p \in by_server' <=> p \in by_server)
  PROVE  Service!Becomes(o, new)
  <1>1. \A p \in Sessions \ {o} : StreamLife(p)' = StreamLife(p)
    BY LifeStays
  <1> QED  BY <1>1 DEF Service!Becomes

LEMMA LastsIsAlive ==
  ASSUME TypeOK, NEW o \in Sessions
  PROVE  Service!Lasts(o) <=> Alive(o)
  <1>1. phase[o] \in Phase
    BY DEF TypeOK
  <1> QED  BY <1>1, LifeIs DEF Service!Lasts, Alive, Phase

\* Steps of the manager and of the client that no session takes part in.
LEMMA NobodyStutters ==
  ASSUME UNCHANGED <<phase, id, by_server, reported, orphaned>>
  PROVE  UNCHANGED Service!svars
  <1>1. \A o \in Sessions : StreamLife(o)' = StreamLife(o)
    BY LifeStays
  <1> QED  BY <1>1 DEF Service!svars

\* With an orderly server every step is a step of the stream service or none.
LEMMA ServiceStep ==
  ASSUME IInv, Order, Orderly, [Next]_vars
  PROVE  [Service!ServiceNext]_(Service!svars)
  <1> DEFINE Goal == [Service!ServiceNext]_(Service!svars)
  <1>a. TypeOK /\ Identified /\ Told /\ Entries  BY DEF IInv
  <1>1. ASSUME NEW i \in Ids, StartRefused(i) \/ StartThrows(i) PROVE Goal
    BY <1>1, NobodyStutters DEF StartRefused, StartThrows
  <1>2. ASSUME NEW i \in Ids, NEW o \in Sessions, StartCreates(i, o) PROVE Goal
    <2>1. \A p \in Sessions : Service!Lasts(p) => id[p] # i
      BY <1>2, <1>a, CreatedIsAlone, LastsIsAlive DEF StartCreates
    <2>2. /\ phase[o] = "free" /\ phase'[o] = "starting"
          /\ \A p \in Sessions \ {o} : phase'[p] = phase[p]
          /\ id' = [id EXCEPT ![o] = i]
          /\ UNCHANGED <<by_server, reported, orphaned>>
      BY <1>2, <1>a DEF StartCreates, TypeOK
    <2>3. StreamLife(o) = "none" /\ Service!Becomes(o, "starting")
      BY <2>2, LifeIs, LifeBecomes, OneBecomes
    <2>4. Service!Request(o, i)
      BY <2>1, <2>2, <2>3 DEF Service!Request
    <2> QED  BY <2>4 DEF Service!ServiceNext
  <1>3. ASSUME NEW o \in Sessions,
               SessionStarted(o) \/ SessionFailed(o) \/ SessionThrows(o)
        PROVE  Goal
    <2>1. /\ phase[o] = "starting" /\ phase'[o] \in {"live", "destroyed"}
          /\ \A p \in Sessions \ {o} : phase'[p] = phase[p]
          /\ UNCHANGED <<id, by_server, reported, orphaned>>
      BY <1>3, <1>a DEF SessionStarted, SessionFailed, SessionThrows, TypeOK
    <2>2. StreamLife(o) = "starting"
      BY <2>1, LifeIs
    <2>3. Service!Becomes(o, "open") \/ Service!Becomes(o, "over")
      BY <2>1, LifeBecomes, OneBecomes
    <2>4. Service!Settle(o)
      BY <2>1, <2>2, <2>3 DEF Service!Settle
    <2> QED  BY <2>4 DEF Service!ServiceNext
  <1>4. ASSUME NEW i \in Ids, StopStream(i) PROVE Goal
    <2>1. CASE sessions[i] = None
      BY <1>4, <2>1, NobodyStutters DEF StopStream, Registered
    <2>2. CASE sessions[i] # None
      <3> DEFINE o == sessions[i]
      <3>1. /\ o \in Sessions /\ phase[o] \in {"live", "stopping"}
            /\ o \notin by_server
        BY <1>a, <2>2 DEF TypeOK, Entries
      <3>2. /\ phase'[o] = "stopping" /\ by_server' = by_server \cup {o}
            /\ \A p \in Sessions \ {o} : phase'[p] = phase[p]
            /\ UNCHANGED <<id, reported, orphaned>>
        BY <1>4, <1>a, <2>2, <3>1
        DEF StopStream, Registered, StoppedPhase, TypeOK
      <3>3. StreamLife(o) \in {"open", "ended"}
        BY <3>1, LifeIs
      <3>4. Service!Becomes(o, "stopped")
        BY <3>1, <3>2, LifeBecomes, OneBecomes
      <3>5. Service!Stop(o)
        BY <3>1, <3>2, <3>3, <3>4 DEF Service!Stop
      <3> QED  BY <3>1, <3>5 DEF Service!ServiceNext
    <2> QED  BY <2>1, <2>2
  <1>5. ASSUME NEW o \in Sessions, SessionEnds(o) PROVE Goal
    <2>1. /\ phase[o] = "live" /\ phase'[o] = "stopping"
          /\ \A p \in Sessions \ {o} : phase'[p] = phase[p]
          /\ UNCHANGED <<id, by_server, reported, orphaned>>
      BY <1>5, <1>a DEF SessionEnds, TypeOK
    <2>2. o \notin by_server'
      BY <1>a, <2>1 DEF Told
    <2>3. StreamLife(o) = "open" /\ Service!Becomes(o, "ended")
      BY <2>1, <2>2, LifeIs, LifeBecomes, OneBecomes
    <2>4. Service!End(o)
      BY <2>1, <2>3 DEF Service!End
    <2> QED  BY <2>4 DEF Service!ServiceNext
  <1>6. ASSUME NEW o \in Sessions, SessionReleased(o) PROVE Goal
    <2>1. /\ phase[o] = "stopping" /\ phase'[o] = "destroyed"
          /\ \A p \in Sessions \ {o} : phase'[p] = phase[p]
          /\ UNCHANGED <<id, by_server, orphaned>>
          /\ reported' = IF sessions[id[o]] = o /\ connected
                         THEN reported \cup {o} ELSE reported
      BY <1>6, EndTouchesNoOther DEF SessionReleased
    <2>2. Service!Becomes(o, "over")
      BY <2>1, LifeBecomes, OneBecomes
    <2>3. CASE o \in by_server
      <3>1. sessions[id[o]] # o
        BY <1>a, <2>1, <2>3, StreamManagerAssumption DEF Entries, Identified
      <3>2. StreamLife(o) = "stopped"
        BY <2>1, <2>3, LifeIs
      <3>3. Service!Forget(o)
        BY <2>1, <2>2, <3>1, <3>2 DEF Service!Forget
      <3> QED  BY <3>3 DEF Service!ServiceNext
    <2>4. CASE o \notin by_server
      <3>1. sessions[id[o]] = o
        BY <2>1, <2>4 DEF Order, UntoldIsRegistered
      <3>2. StreamLife(o) = "ended"
        BY <2>1, <2>4, LifeIs
      <3>3. CASE connected
        <4>1. Service!Tell(o)
          BY <2>1, <2>2, <3>1, <3>2, <3>3 DEF Service!Tell
        <4> QED  BY <4>1 DEF Service!ServiceNext
      <3>4. CASE ~connected
        <4>1. o \in orphaned
          BY <2>1, <3>4 DEF Order, LostIsOrphaned, Alive
        <4>2. Service!Forget(o)
          BY <2>1, <2>2, <3>2, <3>4, <4>1 DEF Service!Forget
        <4> QED  BY <4>2 DEF Service!ServiceNext
      <3> QED  BY <3>3, <3>4
    <2> QED  BY <2>3, <2>4
  <1>7. CASE Disconnect
    <2>1. /\ UNCHANGED <<phase, id, by_server, reported>>
          /\ orphaned' = orphaned \cup {o \in Sessions : Alive(o)}
      BY <1>7 DEF Disconnect
    <2>2. {o \in Sessions : Alive(o)} = {o \in Sessions : Service!Lasts(o)}
      BY <1>a, LastsIsAlive
    <2>3. \A o \in Sessions : StreamLife(o)' = StreamLife(o)
      BY <2>1, LifeStays
    <2>4. Service!LoseConnection
      BY <2>1, <2>2, <2>3 DEF Service!LoseConnection
    <2> QED  BY <2>4 DEF Service!ServiceNext
  <1>8. CASE Reconnect
    BY <1>8, NobodyStutters DEF Reconnect
  <1>9. CASE UNCHANGED vars
    BY <1>9, NobodyStutters DEF vars
  <1> QED
    BY <1>1, <1>2, <1>3, <1>4, <1>5, <1>6, <1>7, <1>8, <1>9 DEF Next

LEMMA ServiceInit == Init => Service!Init
  <1> SUFFICES ASSUME Init PROVE Service!Init  OBVIOUS
  <1>1. \A o \in Sessions : StreamLife(o) = "none"
    BY LifeIs DEF Init
  <1> QED  BY <1>1 DEF Init, Service!Init

\* start(), stop() and on_end_, with all their suspensions, do for an orderly
\* server what the stream service promises.
THEOREM Refinement == Spec => ImplementsService
  <1>1. IInv /\ Order /\ [Next]_vars
          => [Orderly => Service!ServiceNext]_(Service!svars)
    BY ServiceStep
  <1> QED
    BY <1>1, ServiceInit, OrderInvariance, PTL DEF Spec, ImplementsService

\* Whether the server is orderly does not change, so that an orderly one is
\* given the stream service as a whole.
THEOREM OrderlyRefinement == Spec /\ Orderly => Service!ServiceSpec
  <1>1. Orderly /\ [Next]_vars => Orderly'
    BY DEF Next, vars, setting, Orderly
  <1>2. Orderly /\ [Orderly => Service!ServiceNext]_(Service!svars)
          => [Service!ServiceNext]_(Service!svars)
    OBVIOUS
  <1> QED
    BY <1>1, <1>2, Refinement, PTL
    DEF Spec, ImplementsService, Service!ServiceSpec
===============================================================================
