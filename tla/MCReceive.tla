------------------------------- MODULE MCReceive ------------------------------
EXTENDS Receive

\* The edges of the tags, of the varints and of the integers.
Edges == {0, 30, 31, 32, 127, 128, 2^14 - 1, 2^14, 2^Narrow - 1}
TooWide == {2^Narrow, 2^Narrow + 1, 2^Wide - 1}
Signs == {-1, -30, -31, -(2^(Wide - 1))}
Numbers == {Unsigned(n) : n \in Edges \cup TooWide}
             \cup {Integer(n) : n \in Edges \cup Signs}
Floats == {Value("float", <<q>>) : q \in {0, 8, -8, 4 * 31, -6, 3}}
Discrete == {Value("discrete", <<n>>) : n \in 0..2}
Letters(n) == [k \in 1..n |-> 97]
Strings == {Text(Letters(n)) : n \in {0, 1, 30, 31, 32}} \cup {Text(<<97, 0, 98>>)}
Binaries == {Value("bytes", s) : s \in {<<>>, <<0, 255>>, Letters(31)}}
Scalars == Numbers \cup Floats \cup Discrete \cup Strings \cup Binaries

Array(s) == Value("array", s)
Pair(k, v) == [key |-> k, value |-> v]
Object(s) == Value("object", s)
Nested ==
  {Array(<<>>), Object(<<>>), Array([k \in 1..31 |-> Null])}
    \cup {Array(<<a, Unsigned(31)>>) : a \in Scalars}
    \cup {Object(<<Pair(<<97>>, a), Pair(<<98>>, Array(<<Null>>))>>) : a \in Scalars}
    \cup {Array(<<Object(<<Pair(<<>>, a)>>), a>>) : a \in Strings \cup Floats}

Message(type, fields) == [type |-> type, fields |-> fields, foreign |-> FALSE]
Foreign(m) == [m EXCEPT !.foreign = TRUE]

IdOf(n) == STREAM_ID :> Unsigned(n)
Stream(id, v) == Message(10, IdOf(id) @@ (PAYLOAD :> v))
Run(id, path) == Message(RUN, IdOf(id) @@ (RESOURCE :> Text(path)))
\* The ids the two subscriptions, or a call, await the answers of.
CallId == 7
OtherId == 1
Answer(type, id) == Message(type, IdOf(id))

\* A message with a body of n bytes, whose text has n less its tags: the id and
\* the field take 3 bytes, the tag of the text 1 and its length 1 or 2.
Sized(n) == Stream(1, Text(Letters(IF n < 5 + 128 THEN n - 5 ELSE n - 6)))

\* The size alone takes three bytes; its bytes are no sizes either.
Huge == Stream(1, Value("bytes", [k \in 1..(2^14) |-> 255]))

A == 97
B == 98
Paths5 == BoundedSeq({A, B, Slash}, 5)
PatternsOf ==
  << <<Colon, A>>, <<Colon, B, Slash, A>>, <<A, Slash, Star, B>>, <<B>>,
     <<B, Slash, Colon, A, Slash, B>> >>

ASSUME \A k \in DOMAIN PatternsOf : WellFormed(PatternsOf[k])

KeepAlive == Message(5, NoFields)
Turns ==
  { Answer(OK, CallId), Answer(ERROR, CallId), Answer(RESERVED, CallId),
    Answer(OK, OtherId), KeepAlive,
    Message(OK, STREAM_ID :> Value("float", <<CallId * Quarters + 2>>)),
    Run(CallId, <<A>>), Foreign(Run(1, <<A>>)),
    Message(OK, STREAM_ID :> Unsigned(CallId + 2^Short)),
    Sized(127), Sized(MaxMessage), Sized(MaxMessage + 1) }

ConversationsOf ==
  {<<Stream(1, v)>> : v \in Scalars \cup Nested}
    \cup {<<Message(RUN, (PARAMETERS :> v) @@ (PAYLOAD :> v) @@ IdOf(1))>> : v \in Scalars}
    \cup {<<Run(1, path)>> : path \in Paths5}
    \cup {<<m1, m2, m3>> : m1, m2, m3 \in Turns}
    \cup {<<Huge, KeepAlive>>}

\* No subscription, one, and two.
Subscribing ==
  {[r \in Readers |-> ids] : ids \in {<<>>, <<CallId>>, <<CallId, OtherId>>}}

\* read_loop() and a call of the application, whose answer the server sends.
Two == {"run_loop", "call"}
Calling == {[r \in Two |-> IF r = "call" THEN <<CallId>> ELSE <<>>]}
Talk == {<<Answer(OK, CallId)>>, <<KeepAlive, Answer(OK, CallId)>>}
===============================================================================
