----------------------------- MODULE StreamManager -----------------------------
(***************************************************************************)
(* A stream_manager and the sessions it creates, as driven by the client's *)
(* START_STREAM and STOP_STREAM handlers.  The manager keeps weak pointers *)
(* in sessions_; a session object lives as long as its own coroutines and  *)
(* calls the manager back from its destructor (on_end_).                   *)
(*                                                                         *)
(* Everything runs on one io_context thread.  The interleavings come from  *)
(* start() suspending (a proxy connects to its target), from the           *)
(* coroutines of a stopped session that end some time after stop(), and    *)
(* from the connection to the server going away.                           *)
(***************************************************************************)
EXTENDS Integers

CONSTANTS
  Ids,            \* stream ids
  Sessions,       \* session objects, each used once
  None            \* no session, no id

ASSUME StreamManagerAssumption ==
  /\ None \notin Sessions
  /\ None \notin Ids

VARIABLES
  suspends,   \* start() of these sessions suspends (a proxy), or does not
  waits,      \* the server waits for the answer to a START
  reuses,     \* the server may give an id to a new stream while the session
              \* object that had it is still ending or of an earlier connection
  connected,  \* connected_ of the client
  streams,    \* keys of the client's streams_ that belong to this resource
  sessions,   \* sessions_: id -> weak pointer, None when there is no entry
  phase,      \* life of each session object
  id,         \* stream_id_ of each session object
  awaiting,   \* ids the server waits for the answer to a START of, if it waits
  by_server,  \* sessions a STOP_STREAM of the server has stopped
  reported,   \* sessions whose end the device told with a STOP_STREAM
  orphaned    \* sessions that existed when their connection was lost

setting == <<suspends, waits, reuses>>
vars == <<setting, connected, streams, sessions, phase, id, awaiting,
          by_server, reported, orphaned>>

Phase == {"free", "starting", "live", "stopping", "destroyed"}

\* The object exists: a weak pointer to it can be locked.
Alive(o) == phase[o] \in {"starting", "live", "stopping"}

Init ==
  /\ suspends \in BOOLEAN
  /\ waits \in BOOLEAN
  /\ reuses \in BOOLEAN
  /\ connected = TRUE
  /\ streams = {}
  /\ sessions = [i \in Ids |-> None]
  /\ phase = [o \in Sessions |-> "free"]
  /\ id = [o \in Sessions |-> None]
  /\ awaiting = {}
  /\ by_server = {}
  /\ reported = {}
  /\ orphaned = {}

-----------------------------------------------------------------------------
(* START_STREAM                                                            *)

\* A start() that does not suspend runs within the START handler.
Undisturbed == suspends \/ \A o \in Sessions : phase[o] # "starting"

\* The server considers the session over, its object exists.
Ending(o) == phase[o] = "stopping" \/ (o \in orphaned /\ Alive(o))

\* The server sends START_STREAM for stream i.
Requests(i) ==
  /\ Undisturbed
  /\ connected
  /\ i \notin awaiting
  /\ reuses \/ \A o \in Sessions : id[o] = i => ~Ending(o)
  /\ streams' = streams \cup {i}

\* The server has sent START_STREAM for stream i.
Awaiting(i) == IF waits THEN awaiting \cup {i} ELSE awaiting

\* The manager already has a session with this id.
NotRegistered(i) == FALSE
Registered(i) == sessions[i] # None

\* start(): the id is taken or no session can be created; ERROR is answered.
StartRefused(i) ==
  /\ Requests(i)
  /\ UNCHANGED <<connected, sessions, phase, id, awaiting, by_server, reported,
                 orphaned>>

\* start(): create_session() throws at a parameter of another type, and the
\* exception leaves the handler of START_STREAM: nothing is answered.
StartThrows(i) ==
  /\ Requests(i)
  /\ ~Registered(i)
  /\ awaiting' = Awaiting(i)
  /\ UNCHANGED <<connected, sessions, phase, id, by_server, reported, orphaned>>

\* start(): a session is created and its start() is spawned.
StartCreates(i, o) ==
  /\ Requests(i)
  /\ ~Registered(i)
  /\ phase[o] = "free"
  /\ phase' = [phase EXCEPT ![o] = "starting"]
  /\ id' = [id EXCEPT ![o] = i]
  /\ awaiting' = Awaiting(i)
  /\ UNCHANGED <<connected, sessions, by_server, reported, orphaned>>

\* sessions_.emplace: an entry that is already there stays.
EmplaceNot(i, o) == sessions
Emplace(i, o) == IF Registered(i) THEN sessions ELSE [sessions EXCEPT ![i] = o]

\* start() succeeded: register, set on_end_, answer OK.
SessionStarted(o) ==
  /\ phase[o] = "starting"
  /\ phase' = [phase EXCEPT ![o] = "live"]
  /\ sessions' = Emplace(id[o], o)
  /\ awaiting' = awaiting \ {id[o]}
  /\ UNCHANGED <<connected, streams, id, by_server, reported, orphaned>>

\* start() failed: the session is destroyed without on_end_, ERROR answered.
SessionFailed(o) ==
  /\ phase[o] = "starting"
  /\ phase' = [phase EXCEPT ![o] = "destroyed"]
  /\ awaiting' = awaiting \ {id[o]}
  /\ UNCHANGED <<connected, streams, sessions, id, by_server, reported,
                 orphaned>>

\* start() threw, an upload's that cannot create its directory for one: the
\* spawned coroutine ends, the session with it, and nothing is answered.
SessionThrows(o) ==
  /\ phase[o] = "starting"
  /\ phase' = [phase EXCEPT ![o] = "destroyed"]
  /\ UNCHANGED <<connected, streams, sessions, id, awaiting, by_server, reported,
                 orphaned>>

-----------------------------------------------------------------------------
(* STOP_STREAM and the end of a session                                    *)

\* stop(): the entry goes first, then the session is stopped if it still
\* exists, otherwise the server is told.
KeepEntry(i) == sessions
Erase(i) == [sessions EXCEPT ![i] = None]

Unstopped(o) == phase
StoppedPhase(o) ==
  IF phase[o] = "live" THEN [phase EXCEPT ![o] = "stopping"] ELSE phase

\* The server's STOP_STREAM, resolved through streams_.
StopStream(i) ==
  /\ Undisturbed
  /\ connected
  /\ i \in streams
  /\ i \notin awaiting
  /\ streams' = streams \ {i}
  /\ sessions' = Erase(i)
  /\ IF Registered(i)
     THEN /\ phase' = StoppedPhase(sessions[i])
          /\ by_server' = by_server \cup {sessions[i]}
     ELSE UNCHANGED <<phase, by_server>>
  /\ UNCHANGED <<connected, id, awaiting, reported, orphaned>>

\* The session ends by itself: its peer closed, its process exited, a timeout.
SessionEnds(o) ==
  /\ Undisturbed
  /\ phase[o] = "live"
  /\ phase' = [phase EXCEPT ![o] = "stopping"]
  /\ UNCHANGED <<connected, streams, sessions, id, awaiting, by_server,
                 reported, orphaned>>

\* The last coroutine of a stopped session ends: ~stream_session runs on_end_,
\* which calls stop() with the id of the session.
SessionReleased(o) ==
  /\ Undisturbed
  /\ phase[o] = "stopping"
  /\ LET found == sessions[id[o]]
         gone  == [phase EXCEPT ![o] = "destroyed"]
     IN  /\ sessions' = Erase(id[o])
         /\ phase' = IF found \notin {None, o} /\ phase[found] = "live"
                     THEN [gone EXCEPT ![found] = "stopping"] ELSE gone
         /\ reported' = IF found = o /\ connected
                        THEN reported \cup {o} ELSE reported
  /\ UNCHANGED <<connected, streams, id, awaiting, by_server, orphaned>>

-----------------------------------------------------------------------------
(* The connection to the server                                            *)

\* Nothing but connected_ changes in the client; the server forgets streams.
Disconnect ==
  /\ Undisturbed
  /\ connected
  /\ connected' = FALSE
  /\ awaiting' = {}
  /\ orphaned' = orphaned \cup {o \in Sessions : Alive(o)}
  /\ UNCHANGED <<streams, sessions, phase, id, by_server, reported>>

Reconnect ==
  /\ ~connected
  /\ connected' = TRUE
  /\ UNCHANGED <<streams, sessions, phase, id, awaiting, by_server,
                 reported, orphaned>>

\* What happens to the manager; its sessions' kind and its server stay.
Next ==
  /\ \/ \E i \in Ids : StartRefused(i) \/ StartThrows(i) \/ StopStream(i)
     \/ \E i \in Ids, o \in Sessions : StartCreates(i, o)
     \/ \E o \in Sessions : SessionStarted(o) \/ SessionFailed(o)
     \/ \E o \in Sessions :
          SessionThrows(o) \/ SessionEnds(o) \/ SessionReleased(o)
     \/ Disconnect \/ Reconnect
  /\ UNCHANGED setting

Spec == Init /\ [][Next]_vars

\* A spawned start() ends and a stopped session's coroutines end.  Sessions
\* need not end by themselves, and the server need not stop them.
Settles(o) == SessionStarted(o) \/ SessionFailed(o) \/ SessionThrows(o)
FairSpec ==
  /\ Spec
  /\ \A o \in Sessions :
       /\ WF_vars(Settles(o) /\ UNCHANGED setting)
       /\ WF_vars(SessionReleased(o) /\ UNCHANGED setting)

-----------------------------------------------------------------------------
(* Properties                                                              *)

\* The server gives an id to a new stream when the old session is gone, and
\* waits for the answer to a START that suspends.
Orderly == ~reuses /\ (waits \/ ~suspends)

TypeOK ==
  /\ suspends \in BOOLEAN
  /\ waits \in BOOLEAN
  /\ reuses \in BOOLEAN
  /\ connected \in BOOLEAN
  /\ streams \in SUBSET Ids
  /\ sessions \in [Ids -> Sessions \cup {None}]
  /\ phase \in [Sessions -> Phase]
  /\ id \in [Sessions -> Ids \cup {None}]
  /\ awaiting \in SUBSET Ids
  /\ by_server \in SUBSET Sessions
  /\ reported \in SUBSET Sessions
  /\ orphaned \in SUBSET Sessions

\* An entry of sessions_ is the running or ending session of that id: it never
\* outlives the session, so a START is never refused because of a dead one.
EntryIsAlive ==
  \A i \in Ids : Registered(i) =>
    /\ phase[sessions[i]] \in {"live", "stopping"}
    /\ id[sessions[i]] = i

\* A stop is told once: the device does not answer the server's STOP_STREAM
\* with one of its own when the session object finally goes away, and only a
\* session that no longer exists is reported as ended.
NoStopEcho ==
  /\ by_server \cap reported = {}
  /\ \A o \in reported : phase[o] = "destroyed"

\* on_end_ erases and stops by id: with an orderly server the end of a session
\* never stops another one, of the same id or not.
EndingIsLocal ==
  [][Orderly => \A o, p \in Sessions :
       phase[o] = "stopping" /\ phase'[o] = "destroyed" /\ p # o
         => phase'[p] = phase[p]]_vars

\* However often an orderly server sends START, every running session is the
\* one registered for its id, so there is one per id; and the server reaches
\* those of its connection with a STOP_STREAM, for the client resolves the id.
LiveIsReachable ==
  Orderly => \A o \in Sessions : phase[o] = "live" =>
    /\ sessions[id[o]] = o
    /\ o \notin orphaned => id[o] \in streams

\* What a session is to the server: who ended it counts, not the table.
StreamLife(o) ==
  CASE phase[o] = "free" -> "none"
    [] phase[o] = "starting" -> "starting"
    [] phase[o] = "live" -> "open"
    [] phase[o] = "stopping" /\ o \in by_server -> "stopped"
    [] phase[o] = "stopping" /\ o \notin by_server -> "ended"
    [] phase[o] = "destroyed" -> "over"

Service == INSTANCE StreamService WITH
  Streams <- Sessions,
  name <- id,
  life <- [o \in Sessions |-> StreamLife(o)],
  told <- reported,
  lost <- orphaned

\* sessions_ and on_end_, which go by id, do for an orderly server what a table
\* of the sessions themselves would: they implement the stream service.
ImplementsService ==
  Service!Init /\ [][Orderly => Service!ServiceNext]_(Service!svars)

\* A session that ended by itself is reported to the server with a STOP_STREAM
\* when its object goes away, unless its connection was lost.
EndIsReported ==
  [][Orderly => \A o \in Sessions :
       phase[o] = "stopping" /\ phase'[o] = "destroyed" /\ o \notin by_server
         /\ o \notin orphaned => o \in reported']_vars

\* A session the server stopped is eventually released, whatever else happens.
StoppedIsReleased ==
  \A o \in Sessions : (o \in by_server) ~> (phase[o] = "destroyed")

-----------------------------------------------------------------------------
(* What the code does not guarantee                                        *)

\* As EndingIsLocal and LiveIsReachable, whatever the server does.
EndingIsAlwaysLocal ==
  [][\A o, p \in Sessions :
       phase[o] = "stopping" /\ phase'[o] = "destroyed" /\ p # o
         => phase'[p] = phase[p]]_vars
OneSessionPerId ==
  \A o, p \in Sessions :
    phase[o] = "live" /\ phase[p] = "live" /\ id[o] = id[p] => o = p

\* Every START is answered once nothing is starting any more.
StartIsAnswered ==
  (\A o \in Sessions : phase[o] # "starting") => awaiting = {}

\* Sessions are stopped when the connection they belong to is lost.
SessionsEndWithConnection ==
  \A o \in Sessions : (o \in orphaned) ~> ~Alive(o)
===============================================================================
