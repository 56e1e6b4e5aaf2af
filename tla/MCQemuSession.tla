--------------------------- MODULE MCQemuSession ---------------------------
(***************************************************************************)
(* Two machines on one link, each with a network of its own; the two user  *)
(* networks hash to one subnet.                                            *)
(***************************************************************************)
EXTENDS QemuSession, TLC

CONSTANTS server, client, third, lan, uplink, office

Links ==
  server :> <<lan, uplink>> @@ client :> <<office, lan>> @@ third :> <<lan>>
Hashes == uplink :> 1 @@ office :> 1
==============================================================================
