--------------------------- MODULE MCCommandLedger ---------------------------
(***************************************************************************)
(* A small instance of CommandLedger: two connections over room for one    *)
(* ledger.  The first repeats a command, names its id with other contents, *)
(* and has two more commands to push it out of the ledger.                 *)
(***************************************************************************)
EXTENDS CommandLedger

CONSTANTS c1, c2, k1, k2, k3, a, b, r1, r2, r3, r4, r5, r6

TwoConnections == [r \in Requests |-> IF r = r3 THEN c2 ELSE c1]
RepeatedCommand ==
    [r \in Requests |-> CASE r \in {r1, r2, r3, r4} -> k1 [] r = r5 -> k2 [] OTHER -> k3]
OneConflict == [r \in Requests |-> IF r = r4 THEN b ELSE a]
=============================================================================
