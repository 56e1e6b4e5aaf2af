------------------------------ MODULE MCStudio ------------------------------
(***************************************************************************)
(* A server with two clients, beside commands and another server.          *)
(***************************************************************************)
EXTENDS Studio, TLC

CONSTANTS server, command, editor, viewer, user

\* What processes do once they have overlapped is not explored.
KeepApart == apart

Owners == editor :> server @@ viewer :> server @@ user :> command
==============================================================================
