----------------------------- MODULE MCCodeCache -----------------------------
(***************************************************************************)
(* Instances of CodeCache: two pages of three addresses, on two frames.    *)
(***************************************************************************)
EXTENDS CodeCache

CONSTANTS f0, f1

MCFrames == {f0, f1}
=============================================================================
