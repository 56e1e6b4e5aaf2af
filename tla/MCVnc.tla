-------------------------------- MODULE MCVnc --------------------------------
(***************************************************************************)
(* A client with a few calls, on a screen of two regions.                  *)
(***************************************************************************)
EXTENDS Vnc
==============================================================================
