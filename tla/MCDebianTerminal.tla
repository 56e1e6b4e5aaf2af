-------------------------- MODULE MCDebianTerminal --------------------------
(***************************************************************************)
(* A test whose first command changes the focus, or is one like the second.*)
(***************************************************************************)
EXTENDS DebianTerminal

FocusThenAct == <<{"x11", "launch"}, {"admin", "output", "assert"}>>
==============================================================================
