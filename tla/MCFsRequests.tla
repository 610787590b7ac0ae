---------------------------- MODULE MCFsRequests ----------------------------
(* FsRequests for TLC: two directories with up to two entries, requests as *)
(* model values, and what they ask chosen so that paths nest.              *)
EXTENDS FsRequests, TLC

CONSTANTS r1, r2, r3

d == <<"d">>
e == <<"e">>
da == <<"d", "a">>
db == <<"d", "b">>
ea == <<"e", "a">>

SmallPaths    == {d, da, db, e, ea}
ThreeRequests == {r1, r2, r3}

SmallAsked ==
  {q \in PutRequest : \/ q.path = da
                      \/ q.path = db /\ q.blocks = 1 /\ q.overwrite
                      \/ q.path = e /\ q.blocks = 2}
    \cup {q \in MoveRequest : /\ <<q.path, q.to>> \in
                                   {<<d, e>>, <<da, e>>, <<da, db>>, <<e, da>>}}
    \cup {q \in DeleteRequest : q.path \in {d, db}}
    \cup {q \in PathRequest : q.verb = "mkdir" /\ q.path \in {d, ea}}
    \cup {q \in PathRequest : q.verb = "get" /\ q.path \in {da, e, ea}}
    \cup {q \in PathRequest : q.verb = "hash" /\ q.path \in {da, e}}

Symmetry == Permutations(ThreeRequests)
===============================================================================
