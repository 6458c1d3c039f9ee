----------------------------- MODULE MCEmitter -----------------------------
(* Two-slot channel, batches of two records and four bytes; the sizes make *)
(* a record that fits anywhere, one that forces a flush by bytes, and one  *)
(* that encode refuses.                                                    *)
EXTENDS Emitter

MCSizes == {1, 3, 4}

=============================================================================
