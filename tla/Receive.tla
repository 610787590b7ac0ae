-------------------------------- MODULE Receive -------------------------------
(***************************************************************************)
(* How frames become messages and messages find their resource: the        *)
(* coroutine that reads a type byte, a size and a body from the socket,    *)
(* decodes the body, and either takes the message as the answer it waits   *)
(* for (wait_response) or hands it to handle_message().                    *)
(*                                                                         *)
(* Normally one coroutine reads at a time: initialize_streams() waits for  *)
(* the answers to its subscriptions, then read_loop() reads on.  The calls *)
(* of the request API read too, beside read_loop().  A frame that cannot   *)
(* be read ends the wait for an answer as it ends read_loop(); but what    *)
(* comes after the wait reads on, from the middle of that frame.           *)
(*                                                                         *)
(* The server is external: it writes its messages in any order of their    *)
(* fields, and may use a format of fields this version does not know.      *)
(***************************************************************************)
EXTENDS Codec, Paths, FiniteSets

CONSTANTS
  Readers,        \* coroutines that read from the socket
  Loop,           \* the one that reads on after its answers: run_loop()
  Waits,          \* the ids whose answers each of them may await, in order:
                  \* functions from Readers to sequences of ids
  Short,          \* bits of a uint16_t
  MaxMessage,     \* MAX_MESSAGE_SIZE
  Conversations   \* what the server may send: sequences of messages

ASSUME ReceiveAssumption ==
  /\ Loop \in Readers
  /\ \A w \in Waits : DOMAIN w = Readers
  /\ MaxMessage \in Nat
  /\ \A c \in Conversations : \A k \in DOMAIN c : c[k].type \in 0..127

\* Message types and fields.
RESERVED == 0
OK == 1
ERROR == 2
RUN == 6
STREAM_ID == 1
PARAMETERS == 2
PAYLOAD == 3
RESOURCE == 4

VARIABLES
  script,   \* what the server will send
  sent,     \* messages it has sent
  wire,     \* bytes on their way
  up,       \* the connection
  awaits,   \* the ids whose answers each coroutine awaits, one after the other
  reader,   \* where each coroutine is; asked counts its requests
  got,      \* what was done with each message read
  adrift    \* 0, or the number of the message in whose middle reading went on

vars == <<script, sent, wire, up, awaits, reader, got, adrift>>

Start(asked) == [at |-> "type", type |-> 0, size |-> 0, bit_pos |-> 0, asked |-> asked]

\* The coroutine is in wait_response().
Waiting(r) == reader[r].asked \in DOMAIN awaits[r]
AwaitedId(r) == awaits[r][reader[r].asked]

Init ==
  /\ script \in Conversations
  /\ sent = <<>>
  /\ wire = <<>>
  /\ up = TRUE
  /\ awaits \in Waits
  /\ reader = [r \in Readers |-> Start(1)]
  /\ got = <<>>
  /\ adrift = 0

-----------------------------------------------------------------------------
(* The server                                                              *)

Legacy == <<8 * PAYLOAD + 1, 32>>

BodyOf(m, order) == Body(m.fields, order) \o (IF m.foreign THEN Legacy ELSE <<>>)

ServerSends ==
  /\ up
  /\ Len(sent) < Len(script)
  /\ LET m == script[Len(sent) + 1]
     IN /\ \E order \in SetToSeqs(DOMAIN m.fields) :
             wire' = wire \o Frame(m.type, BodyOf(m, order))
        /\ sent' = Append(sent, m)
  /\ UNCHANGED <<script, up, awaits, reader, got, adrift>>

ConnectionLost ==
  /\ up
  /\ up' = FALSE
  /\ UNCHANGED <<script, sent, wire, awaits, reader, got, adrift>>

-----------------------------------------------------------------------------
(* Reading                                                                 *)

Rest(n) == SubSeq(wire, n + 1, Len(wire))

Moves(r, next) ==
  /\ reader' = [reader EXCEPT ![r] = next]
  /\ UNCHANGED <<script, sent, up, awaits>>

GivesUp(r) == [reader[r] EXCEPT !.at = "failed"]

\* wait_response() returned: a call is done; initialize_streams() goes on to
\* its next request, or read_loop() begins.
AfterWait(r) ==
  LET asked == reader[r].asked + 1
  IN IF r # Loop THEN [reader[r] EXCEPT !.at = "done"]
     ELSE IF asked \in DOMAIN awaits[r] THEN [Start(asked) EXCEPT !.at = "ask"]
     ELSE Start(asked)

Asks(r) ==
  /\ reader[r].at = "ask"
  /\ Moves(r, Start(reader[r].asked))
  /\ UNCHANGED <<wire, got, adrift>>

\* The request cannot be written: the socket is closed with what it holds, and
\* connected_ is cleared, so that read_loop() will not begin.
AskFails(r) ==
  /\ reader[r].at = "ask"
  /\ ~up
  /\ wire' = <<>>
  /\ Moves(r, GivesUp(r))
  /\ UNCHANGED <<got, adrift>>

ReadType(r) ==
  /\ reader[r].at = "type"
  /\ wire # <<>>
  /\ wire' = Rest(1)
  /\ Moves(r, [reader[r] EXCEPT !.at = "size", !.type = wire[1], !.size = 0,
                                !.bit_pos = 0])
  /\ UNCHANGED <<got, adrift>>

\* A mistake: the size is compared with the limit, not beyond it.
TooLargeAt(size) == size >= MaxMessage
TooLarge(size) == size > MaxMessage

\* read_message() returns nothing for a frame whose size it rejects, as if the
\* connection was lost: read_loop() ends, wait_response() only returns false.
Rejects(r) ==
  /\ Moves(r, IF Waiting(r) THEN AfterWait(r) ELSE GivesUp(r))
  /\ adrift' = IF Waiting(r) /\ adrift = 0 THEN Len(got) + 1 ELSE adrift

\* One byte of the size.  Here the bit position is checked after the byte, so
\* that the last byte a uint32_t could take is refused.
ReadSize(r) ==
  /\ reader[r].at = "size"
  /\ wire # <<>>
  /\ wire' = Rest(1)
  /\ LET size == reader[r].size + (wire[1] % 128) * 2^reader[r].bit_pos
         bits == reader[r].bit_pos + 7
         more == wire[1] >= 128
         at   == IF more THEN "size" ELSE "body"
     IN IF bits >= Narrow \/ (~more /\ TooLarge(size)) THEN Rejects(r)
        ELSE /\ Moves(r, [reader[r] EXCEPT !.at = at, !.size = size, !.bit_pos = bits])
             /\ UNCHANGED adrift
  /\ UNCHANGED got

\* The read fails when the connection was lost before all the bytes came; so
\* will every other read, whoever's.
ReadFails(r) ==
  /\ ~up
  /\ \/ reader[r].at \in {"type", "size"} /\ wire = <<>>
     \/ reader[r].at = "body" /\ Len(wire) < reader[r].size
  /\ wire' = <<>>
  /\ Moves(r, GivesUp(r))
  /\ UNCHANGED <<got, adrift>>

\* get_stream_id() of a number: a float loses its fraction.
StreamId(fields) ==
  IF STREAM_ID \notin DOMAIN fields THEN 0
  ELSE LET v == fields[STREAM_ID]
       IN CASE v.kind \in {"unsigned", "integer"} -> Number(v) % 2^Short
            [] v.kind = "float" -> (Number(v) \div Quarters) % 2^Short
            [] OTHER -> 0

\* A mistake: any message with the id is the answer.
IsAnswerById(r, type, fields) == Waiting(r) /\ StreamId(fields) = AwaitedId(r)
IsAnswer(r, type, fields) ==
  Waiting(r) /\ StreamId(fields) = AwaitedId(r) /\ type <= ERROR

Unresolved == [resource |-> 0, captured |-> NoCaptures]

\* The resource is asked for by its path.
Named(fields) == RESOURCE \in DOMAIN fields /\ fields[RESOURCE].kind = "text"

\* handle_resource_request() resolves a RUN.
Resolved(type, fields) ==
  IF type = RUN /\ Named(fields) THEN GetResource(fields[RESOURCE].holds) ELSE Unresolved

\* The body is read and decoded; what decode() returns is ignored.
ReadBody(r) ==
  /\ reader[r].at = "body"
  /\ Len(wire) >= reader[r].size
  /\ wire' = Rest(reader[r].size)
  /\ LET type   == reader[r].type
         fields == Decoded(SubSeq(wire, 1, reader[r].size)).value
         taken  == IsAnswer(r, type, fields)
     IN /\ got' = Append(got,
                    [by |-> r, type |-> type, fields |-> fields, taken |-> taken,
                     to |-> IF taken THEN Unresolved ELSE Resolved(type, fields)])
        /\ Moves(r, IF taken THEN AfterWait(r) ELSE Start(reader[r].asked))
  /\ UNCHANGED adrift

Next ==
  \/ ServerSends \/ ConnectionLost
  \/ \E r \in Readers :
       \/ ReadType(r) \/ ReadSize(r) \/ ReadFails(r) \/ ReadBody(r)
       \/ Asks(r) \/ AskFails(r)

Spec == Init /\ [][Next]_vars

-----------------------------------------------------------------------------
(* Properties                                                              *)

\* The messages that can be written as they are: no number outside a uint32_t
\* in a field, no NUL in a string.
RECURSIVE Plain(_)
Plain(v) ==
  CASE v.kind = "text"   -> ~Contains(v.holds, 0)
    [] v.kind = "array"  -> \A k \in DOMAIN v.holds : Plain(v.holds[k])
    [] v.kind = "object" -> \A k \in DOMAIN v.holds : /\ ~Contains(v.holds[k].key, 0)
                                                  /\ Plain(v.holds[k].value)
    [] OTHER -> TRUE

Writable(m) ==
  \A f \in DOMAIN m.fields :
    LET v == m.fields[f]
    IN IF v.kind \in {"unsigned", "integer"} THEN Number(v) \in 0..(2^Narrow - 1)
       ELSE Plain(v)

\* Message k arrives as it was sent.
Arrives(k) ==
  /\ got[k].type = sent[k].type
  /\ Writable(sent[k]) => SameFields(got[k].fields, sent[k].fields)

\* Message k was read where it begins.
InStep(k) == adrift = 0 \/ k < adrift

\* What is read is what was sent, in order: every type, field and nested
\* value, up to the edges of the integers, the escape of the tags and the sizes
\* of one and two bytes, in any order of the fields; and a body whose decoding
\* fails leaves the frames after it whole.  Only a wait for an answer that was
\* given up at a frame over the limit puts what follows out of step.
DeliveredIsSent ==
  \A k \in DOMAIN got : InStep(k) => k <= Len(sent) /\ Arrives(k)

\* read_message() rejects a frame when its message is over the limit and only
\* then: one just within it is read.  read_loop() ends only there, or with the
\* connection, and never goes on past such a message unless a wait for an
\* answer had given up at it before.
Oversized(m) ==
  \E order \in SetToSeqs(DOMAIN m.fields) : Len(BodyOf(m, order)) > MaxMessage
GivesUpForReason ==
  /\ adrift # 0 => adrift <= Len(sent) /\ Oversized(sent[adrift])
  /\ adrift = 0 =>
       /\ \A k \in DOMAIN got : k <= Len(sent) => ~Oversized(sent[k])
       /\ \A r \in Readers : reader[r].at = "failed" =>
            \/ ~up
            \/ Len(got) < Len(sent) /\ Oversized(sent[Len(got) + 1])

\* The answer somebody waits for is taken by who waits for it, however many
\* requests and answers to others come before it, and nothing else is taken.
AskedBefore(r, k) ==
  1 + Cardinality({j \in 1..(k - 1) : got[j].taken /\ got[j].by = r})
Answers(m, awaited) ==
  m.type \in {RESERVED, OK, ERROR} /\ StreamId(m.fields) = awaited
AnswerIsTaken ==
  \A k \in DOMAIN got : InStep(k) =>
    (got[k].taken <=>
       \E r \in Readers :
         /\ AskedBefore(r, k) \in DOMAIN awaits[r]
         /\ Answers(got[k], awaits[r][AskedBefore(r, k)]))

\* A request runs the first resource whose pattern is for its path, segment by
\* segment, with the values of its keys, whatever other patterns captured
\* before they failed.
ResolvedIsFor ==
  \A k \in DOMAIN got :
    got[k].type = RUN /\ ~got[k].taken /\ Named(got[k].fields) =>
      LET path == got[k].fields[RESOURCE].holds
          for  == {j \in DOMAIN Patterns : IsFor(Patterns[j], path)}
          to   == got[k].to
      IN IF for = {} THEN to.resource = 0
         ELSE /\ to.resource \in for /\ \A j \in for : to.resource <= j
              /\ LET p == Segments(Patterns[to.resource])
                 IN \A j \in DOMAIN p :
                      Is(p[j], Colon) \/ Is(p[j], Star) =>
                        to.captured[Tail(p[j])] = KeyValue(Patterns[to.resource], path, j)

-----------------------------------------------------------------------------
(* What the code does not guarantee                                        *)

\* A frame whose size is rejected ends the connection, as a lost one does.
RejectedEndsReading == adrift = 0

\* Numbers, negative ones included, and strings arrive whatever they hold.
AnyIsDelivered ==
  \A k \in DOMAIN got : InStep(k) => SameFields(got[k].fields, sent[k].fields)

\* "Reject unknown wire types": a message that decode() rejects is not handled.
RejectedIsNotHandled == \A k \in DOMAIN got : InStep(k) => ~sent[k].foreign

\* A request carries the keys of its own resource only.
OnlyOwnKeys ==
  \A k \in DOMAIN got :
    got[k].to.resource # 0 =>
      LET p == Segments(Patterns[got[k].to.resource])
      IN \A key \in DOMAIN got[k].to.captured :
           \E j \in DOMAIN p : (Is(p[j], Colon) \/ Is(p[j], Star)) /\ Tail(p[j]) = key
===============================================================================
