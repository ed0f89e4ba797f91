------------------------------ MODULE MCServer ------------------------------
(***************************************************************************)
(* An instance of Server for TLC.                                          *)
(***************************************************************************)
EXTENDS Server

CONSTANTS x1, x2, a4, a6, b6

MCPeers     == {x1, x2}
MCAddresses == {a4, a6, b6}
MCFamily    == [a \in MCAddresses |-> IF a = a4 THEN "inet" ELSE "inet6"]

\* One name with an address of either family, one with the other family only.
MCZone == [n \in {"both", "six"} |-> IF n = "both" THEN {a4, a6} ELSE {b6}]

MCLevel == [w \in {"malformed", "bad", "malicious", "suspicious"} |->
              IF w = "malformed" THEN 1 ELSE 2]
=============================================================================
