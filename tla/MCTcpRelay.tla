----------------------------- MODULE MCTcpRelay -----------------------------
(***************************************************************************)
(* Instances of TcpRelay for TLC.                                          *)
(***************************************************************************)
EXTENDS TcpRelay

\* Every kind of connection, except the two that the code gets wrong: a
\* literal address with fast open, and a name no query can carry.
SoundSessions ==
  {s \in SessionType : /\ s.atyp # "longhost"
                       /\ ~(s.atyp = "ip" /\ s.fastopen)}

Session(a, f) == [atyp |-> a, fastopen |-> f, obfs |-> FALSE, reframe |-> FALSE]

FastOpenSessions  == {Session("ip", TRUE)}
PlainSessions     == {Session("ip", FALSE), Session("host", FALSE)}
LongNameSessions  == {Session("longhost", FALSE)}
=============================================================================
