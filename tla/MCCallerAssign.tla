---------------------------- MODULE MCCallerAssign ----------------------------
(* A small instance of CallerAssign for TLC: a reference sent on a socket and   *)
(* again by HTTP, and a different reference on the socket.                      *)
EXTENDS CallerAssign, TLC

CONSTANTS k1, h1, q1, q2, q3, a, b

ThreeRequests == {q1, q2, q3}
SocketAndHook == (q1 :> k1) @@ (q2 :> h1) @@ (q3 :> k1)
SameAndOther  == (q1 :> a) @@ (q2 :> a) @@ (q3 :> b)
OneReport     == <<"COMPLETED">>
=============================================================================
