------------------------- MODULE MCGraphCollection -------------------------
(***************************************************************************)
(* All packages of four test files, with at most one test that is internal,*)
(* wrongly annotated, or not selected.                                     *)
(***************************************************************************)
EXTENDS GraphCollection

FourFiles == <<"a", "b", "c", "d">>
==============================================================================
