------------------------------ MODULE MCDownload ------------------------------
(* Download with small sizes for TLC. *)
EXTENDS Download

SmallFiles == {0, 1, 2, 5, 7, 8}
SmallAcks  == 0..4
===============================================================================
