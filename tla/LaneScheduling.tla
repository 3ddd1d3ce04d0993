--------------------------- MODULE LaneScheduling ---------------------------
(***************************************************************************)
(* The choice OutboundDeliveryPump.nextDelivery makes between lanes of one *)
(* traffic class.  A class of lanes is a Map: `order' is its key order     *)
(* (insertion order) and `frames[l]' the number of frames queued on l.     *)
(* The code filters the lanes that have frames and indexes the filtered    *)
(* list with a cursor it reduces modulo the length of THAT list, which     *)
(* changes from one call to the next.                                      *)
(***************************************************************************)
EXTENDS Naturals, Sequences, FiniteSets

\* Positions of the lanes that have something to deliver.
Ready(order, frames) == {i \in DOMAIN order : frames[order[i]] > 0}

\* The lane at index (cursor % #ready) of the filtered list, as a set that
\* holds that lane, or nothing when no lane is ready.
RoundRobin(order, frames, cursor) ==
    LET ready == Ready(order, frames)
    IN  {order[i] : i \in {j \in ready :
            Cardinality({k \in ready : k < j}) = cursor % Cardinality(ready)}}

\* Mutant: the cursor is not advanced.
CursorKept(order, frames, cursor) == cursor

\* `cursor %= n; ...; cursor = (cursor + 1) % n'
AdvanceCursor(order, frames, cursor) ==
    LET n == Cardinality(Ready(order, frames))
    IN  ((cursor % n) + 1) % n

\* Map.set of a key that may exist already, and Map.delete.
InsertLane(order, l) ==
    IF \E i \in DOMAIN order : order[i] = l THEN order ELSE Append(order, l)

DeleteLane(order, l) ==
    LET before == {i \in DOMAIN order : \A j \in 1..i : order[j] # l}
    IN  IF \E i \in DOMAIN order : order[i] = l
        THEN [i \in 1..(Len(order) - 1) |->
                 IF i \in before THEN order[i] ELSE order[i + 1]]
        ELSE order
=============================================================================
