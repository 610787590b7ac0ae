--------------------------- MODULE MCStreamManager ---------------------------
(* StreamManager with two stream ids and three session objects for TLC. *)
EXTENDS StreamManager

CONSTANTS i1, i2, s1, s2, s3

SmallIds == {i1, i2}
SmallSessions == {s1, s2, s3}
===============================================================================
