------------------------------ MODULE MCAccess ------------------------------
(* Two pages share the copy of the key; a token lives for a minute instead *)
(* of an hour, which is long enough to be sent, to be kept and to expire,  *)
(* and the provider restarts once, at any point of any request.            *)
EXTENDS Access

CONSTANTS alice, bob, p1, p2
MCUsers == {alice, bob}
MCPages == {p1, p2}

=============================================================================
