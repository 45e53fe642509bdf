-------------------------------- MODULE MCGdb --------------------------------
(* Model checking of GdbSession: two instructions, one of which exits. *)
EXTENDS GdbSession

MCAddrs == {0, 1}
MCExits == {1}
=============================================================================
