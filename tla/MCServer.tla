------------------------------ MODULE MCServer ------------------------------
(* Two handlers over a one-slot channel, so that a second event can find   *)
(* it full, and batches of one record, so that a flush holds one back.     *)
EXTENDS Server

CONSTANTS r1, r2
MCRequests == {r1, r2}

MCSizes == {1, 2}

=============================================================================
