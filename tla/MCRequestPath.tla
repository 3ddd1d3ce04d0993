---------------------------- MODULE MCRequestPath ----------------------------
(***************************************************************************)
(* Small instances of RequestPath.                                         *)
(***************************************************************************)
EXTENDS RequestPath

(* The client draws a fresh correlation id for every request.               *)
Fresh == [r \in Features |-> r]
OneByte == [r \in Features |-> 1]

CONSTANT Large   \* a set of requests
Weighted == [r \in Features |-> IF r \in Large THEN 2 ELSE 1]

(* Requests differ in nothing else.                                         *)
Interchangeable == Permutations(Large) \cup Permutations(Features \ Large)

=============================================================================
