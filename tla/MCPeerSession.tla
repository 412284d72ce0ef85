--------------------------- MODULE MCPeerSession ---------------------------
(***************************************************************************)
(* PeerSession on small instances.  Queues of one or two places stand for  *)
(* those of 32, 64 and 256: every one of them fills, empties and is found  *)
(* full by its producer within the bounds of the runs.                     *)
(***************************************************************************)
EXTENDS PeerSession

AllKinds == ReadKinds
LinesOnly == {"line"}
LinesAndPrompts == {"line", "part"}

NoCtrlC == {}
SecondLine == {2}
=============================================================================
