----------------------------- MODULE Connection -----------------------------
(***************************************************************************)
(* What one connection of ssr-server does as its neighbours see it: how it *)
(* moves from its header to a name, to a remote, to a stream, and when it  *)
(* accuses or clears its client.  TcpRelay implements this; the server     *)
(* puts several of them beside one resolver and one block list.            *)
(***************************************************************************)
VARIABLES phase,  \* "header", "error", "resolving", "connecting", "stream"
                  \* or "closed"
          blame   \* the last call about the client's address

connectionVars == <<phase, blame>>

Blaming == {"malformed", "bad", "malicious"}

ConnectionInit == phase \in {"closed", "header"} /\ blame = "none"

\* accept_cb: the place of a closed connection is used again.
Accepted == /\ phase = "closed" /\ phase' = "header"
            /\ blame' = "none"

\* An unknown address type.  In a later segment it is not reported.
Condemned == /\ phase = "header" /\ phase' = "error"
             /\ blame' \in {blame, "malformed"}

\* Only data is refused: a header, or a segment of the stream.
Refused == /\ phase \in {"header", "stream"} /\ phase' = "closed"
           /\ blame' \in Blaming
           /\ phase = "stream" => blame' # "malformed"

NameAsked == phase = "header" /\ phase' = "resolving" /\ UNCHANGED blame

Dialled == /\ phase \in {"header", "resolving"} /\ phase' = "connecting"
           /\ UNCHANGED blame

\* The first call of remote_send_cb clears the client even if the send that
\* follows fails.
Established == /\ phase = "connecting" /\ phase' \in {"stream", "closed"}
               /\ blame' = "reset"

\* The request timer, before the header is there or after it was refused.
Suspected == /\ phase \in {"header", "error"} /\ phase' = "closed"
             /\ blame' = "suspicious"

Closed == phase # "closed" /\ phase' = "closed" /\ UNCHANGED blame

ConnectionNext ==
  \/ Accepted \/ Condemned \/ Refused \/ NameAsked
  \/ Dialled \/ Established \/ Suspected \/ Closed

ConnectionSpec == ConnectionInit /\ [][ConnectionNext]_connectionVars
=============================================================================
