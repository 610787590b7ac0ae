--------------------------- MODULE WindowedTransfer ---------------------------
(***************************************************************************)
(* What a download promises to the server: bytes are sent in chunks while  *)
(* less than a window of them is unacknowledged, acknowledgements never    *)
(* exceed what was sent, and the transfer is done only when every byte     *)
(* sent was acknowledged.  It says nothing of timers, queues or files.     *)
(***************************************************************************)
EXTENDS Integers

CONSTANTS Chunk, Window

VARIABLES
  sent,    \* bytes put on the stream
  acked,   \* bytes the server confirmed
  phase    \* "idle", "open", "done" or "closed"

tvars == <<sent, acked, phase>>

Init == sent = 0 /\ acked = 0 /\ phase = "idle"

\* The device accepts or refuses the request.
Open ==
  /\ phase = "idle"
  /\ phase' \in {"open", "closed"}
  /\ UNCHANGED <<sent, acked>>

\* A chunk may be sent while the window has room for a byte.
Send ==
  /\ phase = "open"
  /\ sent - acked < Window
  /\ sent' > sent
  /\ sent' <= sent + Chunk
  /\ UNCHANGED <<acked, phase>>

\* An acknowledgement; the last one may end the transfer.
Ack ==
  /\ phase \in {"open", "done"}
  /\ acked' > acked
  /\ acked' <= sent
  /\ phase' \in {phase, "done", "closed"}
  /\ phase' = "done" => acked' = sent
  /\ UNCHANGED sent

\* Everything sent is acknowledged and there is nothing more to send.
Finish ==
  /\ phase = "open"
  /\ acked = sent
  /\ phase' = "done"
  /\ UNCHANGED <<sent, acked>>

\* Either side closes the stream.
Close ==
  /\ phase \in {"open", "done"}
  /\ phase' = "closed"
  /\ UNCHANGED <<sent, acked>>

TransferNext == Open \/ Send \/ Ack \/ Finish \/ Close

TransferSpec == Init /\ [][TransferNext]_tvars
===============================================================================
