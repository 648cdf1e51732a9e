---------------------------- MODULE MCAutoInterrupt ----------------------------
(* A small instance of AutoInterrupt for TLC: three cancels of the caller, a   *)
(* stranger's, and one report or sweep.                                       *)
EXTENDS AutoInterrupt, TLC

CONSTANTS t1, t2, t3, stranger, s1
FourRequests == {t1, t2, t3, stranger}
OwnRequests  == {t1, t2, t3}
OneSettler   == {s1}
Cancels      == {"CANCEL"}
=============================================================================
