--------------------------- MODULE MCServerRequests ---------------------------
(***************************************************************************)
(* A small instance of ServerRequests.                                     *)
(***************************************************************************)
EXTENDS ServerRequests

CONSTANTS f1, f2, f3, x, y, p

(* f1 and f2 share a correlation id.                                        *)
SharedCorrelation == [r \in Features |-> IF r \in {f1, f2} THEN x ELSE y]

(* f3 is larger than the queue.                                             *)
LargeLast == [r \in Features |-> IF r = f3 THEN 3 ELSE 1]
=============================================================================
