-------------------------------- MODULE Paths ---------------------------------
(***************************************************************************)
(* How the path of a request is resolved: matches() compares it with the   *)
(* pattern of a resource, in which :key takes a segment and *key the rest, *)
(* and get_resource() takes the first pattern that matches.  Paths and     *)
(* patterns are sequences of characters.                                   *)
(***************************************************************************)
EXTENDS Integers, Sequences, SequencesExt

CONSTANTS
  Slash, Colon, Star,  \* characters
  Patterns             \* the keys of resources_, in their order

SegmentEnd(s, i) ==
  LET slashes == {j \in i..Len(s) : s[j] = Slash}
  IN IF slashes = {} THEN Len(s) + 1 ELSE CHOOSE j \in slashes : \A k \in slashes : j <= k

Segment(s, i) == SubSeq(s, i, SegmentEnd(s, i) - 1)

Outcome(ok, captured) == [ok |-> ok, captured |-> captured]

\* A mistake: what is left of the request is ignored.
MatchedPrefix(path, q, captured) == Outcome(TRUE, captured)
\* The pattern is used up.
Matched(path, q, captured) == Outcome(q > Len(path), captured)

\* The rest of the path belongs to *key, which has a name and is the end of
\* the pattern.
Wildcard(pattern, path, r, q, captured) ==
  LET key == Segment(pattern, r + 1)
  IN IF key = <<>> THEN Outcome(FALSE, captured)
     ELSE Outcome(r + Len(key) = Len(pattern),
                  (key :> SubSeq(path, q, Len(path))) @@ captured)

RECURSIVE MatchFrom(_, _, _, _, _)
MatchFrom(pattern, path, r, q, captured) ==
  CASE r > Len(pattern)    -> Matched(path, q, captured)
    [] r <= Len(pattern) /\ pattern[r] = Star ->
         Wildcard(pattern, path, r, q, captured)
    [] r <= Len(pattern) /\ pattern[r] = Colon ->
         MatchFrom(pattern, path, SegmentEnd(pattern, r), SegmentEnd(path, q),
                   (Segment(pattern, r + 1) :> Segment(path, q)) @@ captured)
    [] OTHER ->
         IF q > Len(path) \/ pattern[r] # path[q] THEN Outcome(FALSE, captured)
         ELSE MatchFrom(pattern, path, r + 1, q + 1, captured)

Matches(pattern, path, captured) == MatchFrom(pattern, path, 1, 1, captured)

NoCaptures == [key \in {} |-> <<>>]

\* What a pattern captured before it failed stays in the request.
RECURSIVE ResourceFrom(_, _, _)
ResourceFrom(k, path, captured) ==
  IF k > Len(Patterns) THEN [resource |-> 0, captured |-> captured]
  ELSE LET match == Matches(Patterns[k], path, captured)
       IN IF match.ok THEN [resource |-> k, captured |-> match.captured]
          ELSE ResourceFrom(k + 1, path, match.captured)

GetResource(path) == ResourceFrom(1, path, NoCaptures)

-----------------------------------------------------------------------------
(* What a path stands for, segment by segment                              *)

RECURSIVE Segments(_)
Segments(s) ==
  LET e == SegmentEnd(s, 1)
  IN IF e > Len(s) THEN <<s>>
     ELSE <<SubSeq(s, 1, e - 1)>> \o Segments(SubSeq(s, e + 1, Len(s)))

Is(segment, mark) == segment # <<>> /\ segment[1] = mark

\* A pattern of whole segments: literals, :key, and *key as the last one.
WellFormed(pattern) ==
  LET p == Segments(pattern)
  IN \A k \in DOMAIN p :
       /\ \A j \in DOMAIN p[k] : p[k][j] \in {Colon, Star} => j = 1
       /\ Is(p[k], Star) => k = Len(p) /\ Len(p[k]) > 1

IsFor(pattern, path) ==
  LET p == Segments(pattern)
      s == Segments(path)
  IN /\ IF Is(p[Len(p)], Star) THEN Len(s) >= Len(p) ELSE Len(s) = Len(p)
     /\ \A k \in DOMAIN p : Is(p[k], Colon) \/ Is(p[k], Star) \/ p[k] = s[k]

\* The value of the key in segment k of the pattern.
KeyValue(pattern, path, k) ==
  LET p == Segments(pattern)
      s == Segments(path)
      before == FlattenSeq([j \in 1..(k - 1) |-> Append(s[j], Slash)])
  IN IF Is(p[k], Colon) THEN s[k] ELSE SubSeq(path, Len(before) + 1, Len(path))
===============================================================================
