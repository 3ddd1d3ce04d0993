------------------------ MODULE MCOutboundScheduling ------------------------
(***************************************************************************)
(* OutboundScheduling for TLC.  The two attachments and their positions    *)
(* are interchangeable, and what is checked is a safety property.          *)
(***************************************************************************)
EXTENDS OutboundScheduling

LaneSymmetry == Permutations(TerminalLanes)
=============================================================================
