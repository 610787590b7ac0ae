------------------------------- MODULE MCUpload -------------------------------
(* Upload with small sizes for TLC. *)
EXTENDS Upload

SmallSizes   == {1, 5, 11}
SmallWindows == {5, 6}
===============================================================================
