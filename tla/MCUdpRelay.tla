----------------------------- MODULE MCUdpRelay -----------------------------
(***************************************************************************)
(* Instances of UdpRelay for TLC.                                          *)
(***************************************************************************)
EXTENDS UdpRelay

CONSTANTS s1, s2, a4, b4, a6, h1, h2, h3, c1, c2, c3

MCClients == {s1, s2}
MCIps     == {a4, b4, a6}
MCFamily  == [a \in MCIps |-> IF a = a6 THEN "inet6" ELSE "inet"]
MCHosts   == {h1, h2, h3}
MCLongHosts == {h3}
MCCtxs    == {c1, c2, c3}

\* h1 has an address of either family, h2 one that s1 can also name literally.
MCAnswers == [h \in MCHosts |-> IF h = h1 THEN {a4, a6} ELSE {b4}]

\* Every client uses one host name, s2 also one that is too long to resolve.
OneName   == [s \in MCClients |-> IF s = s1 THEN {h1} ELSE {h2, h3}]

\* Client s1 uses two host names.
TwoNames  == [s \in MCClients |-> IF s = s1 THEN {h1, h2} ELSE {}]
=============================================================================
