---------------------------- MODULE MCClientRelay ---------------------------
(***************************************************************************)
(* Instances of ClientRelay for TLC.                                       *)
(***************************************************************************)
EXTENDS ClientRelay

\* Every kind of connection whose options mean something.
Possible == {s \in SessionType : Meaningful(s)}

\* ssr-redir alone.
RedirSessions == {s \in Possible : s.program = "redir"}
=============================================================================
