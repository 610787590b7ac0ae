----------------------------- MODULE StreamService -----------------------------
(***************************************************************************)
(* What the device promises a server that opens and closes streams in      *)
(* order: an id names one stream at a time, what the server or the device  *)
(* does to a stream touches no other, and the end of a stream is told to   *)
(* the server exactly if the server did not ask for it, unless the         *)
(* connection of the stream was lost.  It says nothing of tables, weak     *)
(* pointers or callbacks: streams are known by themselves.                 *)
(***************************************************************************)

CONSTANTS Ids, Streams

VARIABLES
  name,   \* the id of each stream, once it was requested
  life,   \* "none", "starting", "open", "stopped" by the server, "ended" by
          \* itself, or "over"
  told,   \* streams whose end the device told the server
  lost    \* streams whose connection was lost

svars == <<name, life, told, lost>>

Lasts(s) == life[s] \in {"starting", "open", "stopped", "ended"}

Init ==
  /\ life = [s \in Streams |-> "none"]
  /\ told = {}
  /\ lost = {}

Becomes(s, new) == life' = [life EXCEPT ![s] = new]

\* The server asks for a stream under an id that names none.
Request(s, i) ==
  /\ life[s] = "none"
  /\ \A t \in Streams : Lasts(t) => name[t] # i
  /\ Becomes(s, "starting")
  /\ name' = [name EXCEPT ![s] = i]
  /\ UNCHANGED <<told, lost>>

\* The device opens it, or cannot; whether it says so is not promised.
Settle(s) ==
  /\ life[s] = "starting"
  /\ Becomes(s, "open") \/ Becomes(s, "over")
  /\ UNCHANGED <<name, told, lost>>

\* The server stops a stream, which may have ended by itself meanwhile.
Stop(s) ==
  /\ life[s] \in {"open", "ended"}
  /\ Becomes(s, "stopped")
  /\ UNCHANGED <<name, told, lost>>

End(s) ==
  /\ life[s] = "open"
  /\ Becomes(s, "ended")
  /\ UNCHANGED <<name, told, lost>>

\* A stream that ended by itself is over, and the server is told.
Tell(s) ==
  /\ life[s] = "ended"
  /\ Becomes(s, "over")
  /\ told' = told \cup {s}
  /\ UNCHANGED <<name, lost>>

\* A stream is over and the server need not be told: it stopped the stream, or
\* the connection it was opened on is lost.
Forget(s) ==
  /\ life[s] = "stopped" \/ (life[s] = "ended" /\ s \in lost)
  /\ Becomes(s, "over")
  /\ UNCHANGED <<name, told, lost>>

LoseConnection ==
  /\ lost' = lost \cup {s \in Streams : Lasts(s)}
  /\ UNCHANGED <<name, life, told>>

ServiceNext ==
  \/ \E s \in Streams, i \in Ids : Request(s, i)
  \/ \E s \in Streams : Settle(s) \/ Stop(s) \/ End(s) \/ Tell(s) \/ Forget(s)
  \/ LoseConnection

ServiceSpec == Init /\ [][ServiceNext]_svars
===============================================================================
