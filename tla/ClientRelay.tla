---------------------------- MODULE ClientRelay -----------------------------
(***************************************************************************)
(* ssr-local, ssr-redir and ssr-tunnel: one TCP connection of src/local.c, *)
(* src/redir.c or src/tunnel.c.  The three share their callbacks almost    *)
(* line by line and differ in how a connection learns where to go, when    *)
(* the remote is connected, and who puts the relay header first.           *)
(*                                                                         *)
(* What goes to the server is a sequence of units with fixed positions:    *)
(* the obfs handshake (its hello, then its closing part, GreetLen each),   *)
(* the relay header, the payload.  A plugin that shakes hands sends only   *)
(* its hello and holds what it is given until the server has answered; a   *)
(* connection without one starts at the header, a direct one at the        *)
(* payload.  The messages of SOCKS5 are one unit each: they come whole.    *)
(***************************************************************************)
EXTENDS Buffers

CONSTANTS GreetLen,  \* length of each part of the obfs handshake
          HdrLen,    \* length of the relay header
          UpLen,     \* payload units the application sends
          DownLen,   \* units the server sends
          BufSize,   \* BUF_SIZE
          Sessions   \* the kinds of connection considered

(***************************************************************************)
(* asks: the command of the SOCKS5 request, or an address type or command  *)
(* that is refused.  fixed: ssr-local -L, which makes up the request.      *)
(* sni: the port is one whose host name is looked for in the payload.      *)
(* direct: the ACL bypasses the server.  fastopen: --fast-open.  tls: an   *)
(* obfs plugin that shakes hands.  reframe: frames the decoders may hold.  *)
(***************************************************************************)
SessionType ==
  [program : {"local", "redir", "tunnel"}, asks : {"connect", "udp", "bad"},
   fixed : BOOLEAN, sni : BOOLEAN, direct : BOOLEAN, fastopen : BOOLEAN,
   tls : BOOLEAN, reframe : BOOLEAN]

\* The options that mean something for a program.
Meaningful(s) ==
  /\ s.program # "local" =>
       s.asks = "connect" /\ ~s.fixed /\ ~s.sni /\ ~s.direct /\ ~s.fastopen
  /\ s.asks # "connect" =>
       ~s.fixed /\ ~s.sni /\ ~s.direct /\ ~s.fastopen /\ ~s.tls /\ ~s.reframe
  /\ s.fixed => ~s.sni
  /\ s.direct => ~s.fastopen /\ ~s.tls /\ ~s.reframe

ASSUME ClientAssumption ==
  /\ GreetLen \in Nat \ {0}
  /\ HdrLen \in Nat \ {0}
  /\ UpLen \in Nat
  /\ DownLen \in Nat
  /\ BufSize \in Nat
  /\ BufSize > 1
  /\ Sessions \subseteq {s \in SessionType : Meaningful(s)}

VARIABLES
  sess,       \* the kind of this connection
  stage,      \* server->stage
  server,     \* "live" or "freed"
  remote,     \* "none", "connecting", "connected" or "freed"
  watch,      \* the active io watchers
  timer,      \* "off", or the timer of the remote_t that runs
  reason,     \* why the connection was closed
  obfs,       \* the handshake of the obfs plugin
  enc,        \* plaintext units that went into the encoders
  sbuf,       \* server->buf
  rbuf,       \* remote->buf
  cRecv,      \* units received from the application
  remoteGot,  \* the units handed to the server's socket
  decoded,    \* units of the answer the decoders have produced
  dRecv,      \* units of the answer received
  clientGot,  \* the units handed to the application's socket
  slipped     \* history: the code has lost track of what a send left over

conn == <<server, remote, watch, timer, reason>>
code == <<obfs, enc>>
down == <<dRecv, decoded, clientGot>>
vars == <<sess, stage, conn, code, sbuf, rbuf, cRecv, remoteGot, down, slipped>>

-----------------------------------------------------------------------------
Stages   == {"INIT", "HANDSHAKE", "PARSE", "STREAM"}
Watchers == {"server_recv", "server_send", "remote_recv", "remote_send"}
Reasons  == {"", "client_eof", "remote_eof", "client_error", "remote_error",
             "rejected", "unreachable", "full", "timeout"}

PlainBase   == 2 * GreetLen
PayloadBase == PlainBase + HdrLen

Local  == sess.program = "local"
Redir  == sess.program = "redir"
Tunnel == sess.program = "tunnel"

\* The SOCKS5 greeting and request, which are not payload.
Preamble == IF Local /\ ~sess.fixed THEN 2 ELSE 0

\* Where the plaintext starts on the wire, and where its next unit goes.
FirstPlain == IF sess.direct THEN PayloadBase ELSE PlainBase
NextPlain  == FirstPlain + enc

-----------------------------------------------------------------------------
live == server = "live"

\* close_and_free_remote and close_and_free_server; a remote that is NULL is
\* passed over.
CloseBoth(why) ==
  /\ server' = "freed"
  /\ remote' = IF remote = "none" THEN "none" ELSE "freed"
  /\ watch' = {}
  /\ timer' = "off"
  /\ reason' = why

\* A defect for comparison: the first watcher is not stopped.
SwitchOnOnly(off, on) ==
  /\ watch' = watch \cup on
  /\ UNCHANGED <<server, remote, timer, reason>>

\* ev_io_remote_send and its three siblings: stop one watcher, start others.
Switch(off, on) ==
  /\ watch' = (watch \ {off}) \cup on
  /\ UNCHANGED <<server, remote, timer, reason>>

-----------------------------------------------------------------------------
(***************************************************************************)
(* client_pre_encrypt, ss_encrypt and client_encode for n more units: what *)
(* comes out, and the state they are left in.                              *)
(***************************************************************************)
Produced(n) == CASE obfs = "start" -> Buf(0, 0, GreetLen)
                 [] obfs = "hello" -> Buf(0, 0, 0)
                 [] OTHER          -> Buf(NextPlain, 0, n)

Encode(n) == /\ enc' = enc + n
             /\ obfs' = IF obfs = "start" THEN "hello" ELSE obfs

\* A defect for comparison: what the plugin held back is forgotten.
ClosingPartOnly == Buf(GreetLen, 0, GreetLen)

\* client_encode of nothing once the server has answered: the closing part of
\* the handshake, and behind it all that was held.
ClosingPart == Buf(GreetLen, 0, GreetLen + enc)

\* A defect for comparison: what was produced before is counted again.
DecodedFromStart(d) == {n \in 0..d : sess.reframe \/ n = d}

\* How many units come out of the decoders once d units went in.
Decoded(d) == {n \in 0..(d - decoded) : sess.reframe \/ n = d - decoded}

-----------------------------------------------------------------------------
(***************************************************************************)
(* server_recv_cb.                                                         *)
(***************************************************************************)
Reading == live /\ "server_recv" \in watch

\* recv returned r > 0: any part of what the application sends that fits.
Arrived(r, room) ==
  /\ Reading
  /\ r <= room
  /\ r <= Preamble + UpLen - cRecv
  /\ cRecv' = cRecv + r

Unparsed == Local /\ stage # "STREAM"

\* recv returned 0, or failed.  A full server->buf leaves no room to receive
\* into, which looks like the end of the stream.
ServerRecvEnd ==
  /\ Reading
  /\ \/ CloseBoth("client_eof")
     \/ CloseBoth("client_error")
     \/ Unparsed /\ sbuf.len = BufSize /\ CloseBoth("full")
  /\ UNCHANGED <<sess, stage, code, sbuf, rbuf, cRecv, remoteGot, down>>

(***************************************************************************)
(* ssr-local connects with its first data in remote->buf.  With fast open  *)
(* sendto may put any part of it on the wire: in progress leaves the timer *)
(* off, a part waits for the rest, all of it counts as connected.          *)
(***************************************************************************)
LocalConnect(p) ==
  LET n   == IF sess.direct THEN p ELSE HdrLen + p
      out == Produced(n)
      Waiting(s, t) ==
        /\ remote' = "connecting"
        /\ watch' = {"remote_send"}
        /\ timer' = t
        /\ rbuf' = Rest(out, s)
        /\ remoteGot' = remoteGot \o Unsent(out, s)
        /\ UNCHANGED <<server, reason>>
  IN  \/ /\ CloseBoth("unreachable")
         /\ UNCHANGED <<code, rbuf, remoteGot>>
      \/ /\ Encode(n)
         /\ \/ ~sess.fastopen /\ Waiting(0, "connect")
            \/ sess.fastopen /\ Waiting(0, "off")
            \/ sess.fastopen /\ \E s \in 0..(out.len - 1) : Waiting(s, "connect")
            \/ /\ sess.fastopen
               /\ remote' = "connected"
               /\ watch' = {"server_recv", "remote_recv"}
               /\ timer' = "idle"
               /\ rbuf' = Buf(0, 0, 0)
               /\ remoteGot' = remoteGot \o Unsent(out, out.len)
               /\ UNCHANGED <<server, reason>>

(***************************************************************************)
(* The request is in server->buf with p payload units behind it.  In the   *)
(* handshake stage it is answered at once, and a UDP association then      *)
(* waits for the application to close; the buffer keeps what it holds.     *)
(* An incomplete TLS or HTTP head is waited for while there is room.       *)
(***************************************************************************)
LocalParse(at, p) ==
  \/ /\ at = "HANDSHAKE" /\ sess.asks # "bad"
     /\ CloseBoth("client_error")
     /\ UNCHANGED <<stage, code, sbuf, rbuf, remoteGot>>
  \/ /\ sess.asks = "bad"
     /\ CloseBoth("rejected")
     /\ UNCHANGED <<stage, code, sbuf, rbuf, remoteGot>>
  \/ /\ \/ sess.asks = "udp" /\ stage' = "HANDSHAKE"
        \/ /\ sess.asks = "connect" /\ sess.sni /\ 1 + p < BufSize
           /\ stage' = "PARSE"
     /\ sbuf' = Buf(0, 0, 1 + p)
     /\ UNCHANGED <<conn, code, rbuf, remoteGot>>
  \/ /\ sess.asks = "connect"
     /\ stage' = "STREAM"
     /\ sbuf' = Buf(0, 0, p)
     /\ \/ CloseBoth("rejected") /\ UNCHANGED <<code, rbuf, remoteGot>>
        \/ LocalConnect(p)

\* STAGE_INIT: the greeting, answered on the spot; or, with a fixed target,
\* payload behind a request that is made up here.
LocalRecvInit ==
  /\ Unparsed /\ stage = "INIT"
  /\ \E r \in 1..BufSize :
       /\ Arrived(r, BufSize)
       /\ \/ sess.fixed /\ LocalParse("PARSE", r)
          \/ ~sess.fixed /\ r > 1 /\ LocalParse("HANDSHAKE", r - 2)
          \/ /\ ~sess.fixed /\ r = 1
             /\ stage' = "HANDSHAKE"
             /\ sbuf' = Buf(0, 0, 0)
             /\ UNCHANGED <<conn, code, rbuf, remoteGot>>
  /\ UNCHANGED <<sess, down>>

\* STAGE_HANDSHAKE or STAGE_PARSE: the request, or more behind it.
LocalRecvRequest ==
  /\ Unparsed /\ stage \in {"HANDSHAKE", "PARSE"}
  /\ \E r \in 1..BufSize :
       /\ Arrived(r, BufSize - sbuf.len)
       /\ LocalParse(stage, sbuf.len + r - 1)
  /\ UNCHANGED <<sess, down>>

\* ssr-redir may hear from the application before the server has accepted:
\* the payload waits in remote->buf as it is.
RedirRecvEarly ==
  /\ Redir /\ remote = "connecting"
  /\ \E r \in 1..BufSize :
       /\ Arrived(r, BufSize - rbuf.len)
       /\ rbuf' = Buf(PayloadBase, 0, rbuf.len + r)
  /\ Switch("server_recv", {"remote_send"})
  /\ UNCHANGED <<sess, stage, code, sbuf, remoteGot, down>>

\* What is encoded next.  Only after a slip does remote->buf still hold
\* something, which except in ssr-tunnel is then encoded once more in front of
\* it; all of it is read from array[0].  From there on the places of the units
\* mean nothing, but how many there are does.
Outgoing(out) ==
  IF rbuf.len = 0 \/ Tunnel \/ out.len = 0 THEN out
  ELSE Buf(rbuf.base, 0, rbuf.len + out.len)

\* send: nothing to send while the handshake is unanswered pauses reading;
\* what the socket does not take waits, and reading stops until it is gone.
SendAtOnce(out) ==
  \/ /\ out.len = 0
     /\ rbuf' = Buf(0, 0, 0)
     /\ Switch("server_recv", {})
     /\ UNCHANGED remoteGot
  \/ \E s \in 0..(out.len - 1) :
       /\ remoteGot' = remoteGot \o Unsent(out, s)
       /\ rbuf' = Rest(out, s)
       /\ Switch("server_recv", {"remote_send"})
  \/ /\ out.len > 0
     /\ remoteGot' = remoteGot \o Unsent(out, out.len)
     /\ rbuf' = Buf(out.base, 0, IF Tunnel THEN out.len ELSE 0)
     /\ UNCHANGED conn
  \/ /\ CloseBoth("remote_error")
     /\ UNCHANGED <<rbuf, remoteGot>>

ServerRecvStream ==
  /\ stage = "STREAM" /\ remote = "connected"
  /\ \E r \in 1..BufSize :
       /\ Arrived(r, IF Tunnel THEN BufSize ELSE BufSize - rbuf.len)
       /\ Encode(r)
       /\ SendAtOnce(Outgoing(Produced(r)))
  /\ UNCHANGED <<sess, stage, sbuf, down>>

ServerRecvCb ==
  /\ \/ ServerRecvEnd
     \/ LocalRecvInit
     \/ LocalRecvRequest
     \/ RedirRecvEarly
     \/ ServerRecvStream
  /\ UNCHANGED slipped

-----------------------------------------------------------------------------
(***************************************************************************)
(* remote_send_cb.                                                         *)
(***************************************************************************)
Writing == live /\ "remote_send" \in watch

\* The connect failed, or send did.
RemoteSendError ==
  /\ Writing
  /\ CloseBoth("remote_error")
  /\ UNCHANGED <<sess, stage, code, sbuf, rbuf, cRecv, remoteGot, down>>

\* A defect for comparison: the watcher is stopped after a part.
RemoteSendPartStops ==
  /\ Writing /\ remote = "connected"
  /\ \E s \in 0..(rbuf.len - 1) :
       /\ remoteGot' = remoteGot \o Unsent(rbuf, s)
       /\ rbuf' = Rest(rbuf, s)
  /\ Switch("remote_send", {})
  /\ UNCHANGED <<sess, stage, code, sbuf, cRecv, down>>

\* A part is sent and the watcher stays on.
RemoteSendPart ==
  /\ Writing /\ remote = "connected"
  /\ \E s \in 0..(rbuf.len - 1) :
       /\ remoteGot' = remoteGot \o Unsent(rbuf, s)
       /\ rbuf' = Rest(rbuf, s)
  /\ UNCHANGED <<sess, stage, conn, code, sbuf, cRecv, down>>

\* A defect for comparison: reading the application is not resumed.
RemoteSendAllDeaf ==
  /\ Writing /\ remote = "connected"
  /\ remoteGot' = remoteGot \o Unsent(rbuf, rbuf.len)
  /\ rbuf' = Buf(rbuf.base, 0, 0)
  /\ Switch("remote_send", {})
  /\ UNCHANGED <<sess, stage, code, sbuf, cRecv, down>>

RemoteSendAll ==
  /\ Writing /\ remote = "connected" /\ rbuf.len > 0
  /\ remoteGot' = remoteGot \o Unsent(rbuf, rbuf.len)
  /\ rbuf' = Buf(rbuf.base, 0, 0)
  /\ Switch("remote_send", {"server_recv"})
  /\ UNCHANGED <<sess, stage, code, sbuf, cRecv, down>>

\* ssr-local, connected: the answer may be read, and remote->buf is sent, in
\* part, as a whole, or because it is empty not at all.
LocalConnected ==
  /\ Local /\ Writing /\ remote = "connecting"
  /\ remote' = "connected"
  /\ timer' = "idle"
  /\ \E s \in 0..rbuf.len :
       /\ remoteGot' = remoteGot \o Unsent(rbuf, s)
       /\ rbuf' = IF s = rbuf.len THEN Buf(rbuf.base, 0, 0) ELSE Rest(rbuf, s)
       /\ watch' = (watch \ (IF s = rbuf.len THEN {"remote_send"} ELSE {}))
                     \cup (IF s = rbuf.len THEN {"remote_recv", "server_recv"}
                                           ELSE {"remote_recv"})
  /\ UNCHANGED <<sess, stage, server, reason, code, sbuf, cRecv, down>>

\* ssr-redir, connected: the send watcher is stopped, the header goes in front
\* of what has arrived, and all of it is encoded and sent.  If only a part is
\* taken nothing waits for the socket any more, and a watcher of the
\* application that is still on will receive behind what is left.
RedirConnected ==
  /\ Redir /\ Writing /\ remote = "connecting"
  /\ remote' = "connected"
  /\ timer' = "idle"
  /\ Encode(HdrLen + rbuf.len)
  /\ LET out == Produced(HdrLen + rbuf.len)
     IN  \E s \in 0..out.len :
           /\ remoteGot' = remoteGot \o Unsent(out, s)
           /\ rbuf' = IF s = out.len THEN Buf(out.base, 0, 0) ELSE Rest(out, s)
           /\ watch' = (watch \ {"remote_send"}) \cup {"remote_recv"} \cup
                         (IF s = out.len THEN {"server_recv"} ELSE {})
           /\ IF s < out.len THEN slipped' = TRUE ELSE UNCHANGED slipped
  /\ UNCHANGED <<sess, stage, server, reason, sbuf, cRecv, down>>

(***************************************************************************)
(* ssr-tunnel, connected: only the header is there.  If the socket takes a *)
(* part of it the connection is closed.  A send that fails returns -1,     *)
(* which is not less than a size_t: the header is gone, and the connection *)
(* goes on as if it had been sent.  No idle timer is started.              *)
(***************************************************************************)
TunnelConnected ==
  /\ Tunnel /\ Writing /\ remote = "connecting"
  /\ Encode(HdrLen)
  /\ LET out == Produced(HdrLen)
     IN  \/ /\ \/ remoteGot' = remoteGot \o Unsent(out, out.len) /\ UNCHANGED slipped
               \/ slipped' = TRUE /\ UNCHANGED remoteGot
            /\ rbuf' = Buf(out.base, 0, 0)
            /\ remote' = "connected"
            /\ timer' = "off"
            /\ watch' = {"remote_recv", "server_recv"}
            /\ UNCHANGED <<server, reason>>
         \/ /\ \E s \in 0..(out.len - 1) : remoteGot' = remoteGot \o Unsent(out, s)
            /\ CloseBoth("remote_error")
            /\ UNCHANGED <<rbuf, slipped>>
  /\ UNCHANGED <<sess, stage, sbuf, cRecv, down>>

RemoteSendCb ==
  \/ /\ RemoteSendError \/ RemoteSendPart \/ RemoteSendAll \/ LocalConnected
     /\ UNCHANGED slipped
  \/ RedirConnected
  \/ TunnelConnected

-----------------------------------------------------------------------------
(***************************************************************************)
(* remote_recv_cb.                                                         *)
(***************************************************************************)
RemoteReading == live /\ "remote_recv" \in watch

\* recv returned 0 or failed, a frame was wrong, the application's socket too.
RemoteRecvEnd ==
  /\ RemoteReading
  /\ \E why \in {"remote_eof", "remote_error", "rejected", "client_error"} :
       CloseBoth(why)
  /\ UNCHANGED <<sess, stage, code, sbuf, rbuf, cRecv, remoteGot, down>>

(***************************************************************************)
(* The server has answered the hello (needsendback): the closing part is   *)
(* sent on the spot, and reading the application is resumed.  If the       *)
(* socket takes only a part the callback returns with the watchers as they *)
(* are: nothing waits for the socket.  The answer itself is no data.       *)
(***************************************************************************)
RemoteRecvAnswer ==
  /\ RemoteReading
  /\ obfs = "hello" /\ Len(remoteGot) = GreetLen
  /\ obfs' = "done"
  /\ \/ /\ remoteGot' = remoteGot \o Unsent(ClosingPart, ClosingPart.len)
        /\ rbuf' = Buf(GreetLen, 0, 0)
        /\ Switch("remote_send", {"server_recv"})
        /\ UNCHANGED slipped
     \/ /\ \E s \in 0..(ClosingPart.len - 1) :
             /\ remoteGot' = remoteGot \o Unsent(ClosingPart, s)
             /\ rbuf' = Rest(ClosingPart, s)
        /\ slipped' = TRUE
        /\ UNCHANGED conn
     \/ CloseBoth("remote_error") /\ UNCHANGED <<rbuf, remoteGot, slipped>>
  /\ sbuf' = WithLen(sbuf, 0)
  /\ UNCHANGED <<sess, stage, enc, cRecv, down>>

\* r units of the answer give n units for the application; what its socket
\* does not take stays in server->buf, and reading the server stops.
RemoteRecvData ==
  /\ RemoteReading
  /\ obfs \in {"none", "done"}
  /\ \E r \in 1..BufSize :
       /\ r <= DownLen - dRecv
       /\ dRecv' = dRecv + r
       /\ \E n \in Decoded(dRecv + r) :
            /\ decoded' = decoded + n
            /\ \/ /\ clientGot' = clientGot \o Run(decoded, n)
                  /\ sbuf' = Buf(decoded, sbuf.idx, n)
                  /\ UNCHANGED conn
               \/ \E s \in 0..(n - 1) :
                    /\ clientGot' = clientGot \o Run(decoded, s)
                    /\ sbuf' = Buf(decoded, s, n - s)
                    /\ Switch("remote_recv", {"server_send"})
  /\ UNCHANGED <<sess, stage, code, rbuf, cRecv, remoteGot>>

RemoteRecvCb ==
  \/ (RemoteRecvEnd \/ RemoteRecvData) /\ UNCHANGED slipped
  \/ RemoteRecvAnswer

-----------------------------------------------------------------------------
(***************************************************************************)
(* server_send_cb.                                                         *)
(***************************************************************************)
Answering == live /\ "server_send" \in watch

ServerSendError ==
  /\ Answering
  /\ CloseBoth("client_error")
  /\ UNCHANGED <<sess, stage, code, sbuf, rbuf, cRecv, remoteGot, down>>

\* A defect for comparison: the watcher is stopped after a part.
ServerSendPartStops ==
  /\ Answering
  /\ \E s \in 0..(sbuf.len - 1) :
       /\ clientGot' = clientGot \o Unsent(sbuf, s)
       /\ sbuf' = Rest(sbuf, s)
  /\ Switch("server_send", {})
  /\ UNCHANGED <<sess, stage, code, rbuf, cRecv, remoteGot, dRecv, decoded>>

ServerSendPart ==
  /\ Answering
  /\ \E s \in 0..(sbuf.len - 1) :
       /\ clientGot' = clientGot \o Unsent(sbuf, s)
       /\ sbuf' = Rest(sbuf, s)
  /\ UNCHANGED <<sess, stage, conn, code, rbuf, cRecv, remoteGot, dRecv, decoded>>

ServerSendAll ==
  /\ Answering /\ sbuf.len > 0
  /\ clientGot' = clientGot \o Unsent(sbuf, sbuf.len)
  /\ sbuf' = Buf(sbuf.base, 0, 0)
  /\ Switch("server_send", {"remote_recv"})
  /\ UNCHANGED <<sess, stage, code, rbuf, cRecv, remoteGot, dRecv, decoded>>

ServerSendCb ==
  (ServerSendError \/ ServerSendPart \/ ServerSendAll) /\ UNCHANGED slipped

-----------------------------------------------------------------------------
\* remote_timeout_cb.
TimedOut ==
  /\ live /\ timer # "off"
  /\ CloseBoth("timeout")
  /\ UNCHANGED <<sess, stage, code, sbuf, rbuf, cRecv, remoteGot, down, slipped>>

\* A defect for comparison: no idle timer in any of the programs.
HandshakeTimeoutNever == FALSE /\ UNCHANGED vars

\* The idle timer of the connection is re-armed by the server's data only, so
\* nothing holds it back while the hello is unanswered.
HandshakeTimeout == obfs = "hello" /\ TimedOut
OtherTimeout     == obfs # "hello" /\ TimedOut

-----------------------------------------------------------------------------
\* accept_cb: ssr-local waits for the application; ssr-redir and ssr-tunnel
\* are already connecting, ssr-tunnel without reading the application.
Init ==
  /\ sess \in Sessions
  /\ stage = IF Local THEN "INIT" ELSE "STREAM"
  /\ server = "live"
  /\ remote = IF Local THEN "none" ELSE "connecting"
  /\ watch = CASE Local  -> {"server_recv"}
               [] Redir  -> {"server_recv", "remote_send"}
               [] Tunnel -> {"remote_send"}
  /\ timer = IF Local THEN "off" ELSE "connect"
  /\ reason = ""
  /\ obfs = IF sess.tls THEN "start" ELSE "none"
  /\ enc = 0
  /\ sbuf = Buf(0, 0, 0) /\ rbuf = Buf(0, 0, 0)
  /\ cRecv = 0 /\ remoteGot = <<>>
  /\ dRecv = 0 /\ decoded = 0 /\ clientGot = <<>>
  /\ slipped = FALSE

Next ==
  \/ ServerRecvCb
  \/ RemoteSendCb
  \/ RemoteRecvCb
  \/ ServerSendCb
  \/ HandshakeTimeout
  \/ OtherTimeout

\* Sockets become writable and a connect has an outcome; the idle timer fires
\* if the hello is never answered.  Nothing is assumed about the two ends.
Fairness ==
  /\ WF_vars(RemoteSendCb)
  /\ WF_vars(ServerSendCb)
  /\ WF_vars(HandshakeTimeout)

Spec     == Init /\ [][Next]_vars
FairSpec == Spec /\ Fairness

-----------------------------------------------------------------------------
(***************************************************************************)
(* Properties.                                                             *)
(***************************************************************************)

\* What the program itself keeps.
ProgramTypeOK ==
  /\ sess \in Sessions
  /\ stage \in Stages
  /\ server \in {"live", "freed"}
  /\ remote \in {"none", "connecting", "connected", "freed"}
  /\ watch \subseteq Watchers
  /\ timer \in {"off", "connect", "idle"}
  /\ reason \in Reasons
  /\ obfs \in {"none", "start", "hello", "done"}
  /\ enc \in 0..(HdrLen + UpLen)
  /\ sbuf \in Buffer /\ rbuf \in Buffer
  /\ cRecv \in 0..(2 + UpLen)
  /\ remoteGot \in Seq(Nat) /\ clientGot \in Seq(Nat)
  /\ dRecv \in 0..DownLen /\ decoded \in 0..DownLen

\* Every variable stays within its type: no counter passes what was received,
\* and no part of a send takes a buffer below zero, after a slip neither.
TypeOK == ProgramTypeOK /\ slipped \in BOOLEAN

\* The units the encoders have produced so far: from where, and how many.
EmitBase == IF obfs = "none" THEN FirstPlain ELSE 0
EmitLen  == CASE obfs = "start" -> 0
              [] obfs = "hello" -> GreetLen
              [] obfs = "done"  -> PlainBase + enc
              [] OTHER          -> enc
Emitted  == Run(EmitBase, EmitLen)

\* "wait for the next time to send": units that were encoded and not yet taken
\* by the server's socket have the watcher that will send them.
UnsentIsWatched ==
  live /\ Len(remoteGot) < EmitLen => "remote_send" \in watch

(***************************************************************************)
(* Flow control of a connected session.  As long as no send has slipped,   *)
(* the server's socket is either waited for with data to send, or the      *)
(* application is read, or reading is paused because the handshake is      *)
(* unanswered.  The answer is either read or written, in any case.  So no  *)
(* buffer is received into while it has unsent units, and nobody is left   *)
(* without a watcher.                                                      *)
(***************************************************************************)
FlowControl ==
  /\ ~slipped => UnsentIsWatched
  /\ live /\ remote = "connected" =>
       /\ ~slipped =>
            /\ "remote_send" \in watch =>
                 "server_recv" \notin watch /\ Len(remoteGot) < EmitLen
            /\ watch \cap {"remote_send", "server_recv"} = {} => obfs = "hello"
       /\ "remote_recv" \in watch <=> "server_send" \notin watch
       /\ "server_send" \in watch => sbuf.len > 0
  /\ live /\ remote \in {"none", "connecting"} =>
       watch \cap {"server_send", "remote_recv"} = {}

\* Where the units are: as long as no send has slipped the server's socket has
\* got a prefix of what was encoded and remote->buf, if that socket is waited
\* for, the rest; the application's socket with server->buf has in any case
\* all that was decoded.
Accounting ==
  /\ ~slipped =>
       /\ remoteGot = SubSeq(Emitted, 1, Len(remoteGot))
       /\ live /\ remote # "none" /\ "remote_send" \in watch /\ enc > 0 =>
            remoteGot \o Unsent(rbuf, rbuf.len) = Emitted
  /\ clientGot = Run(0, Len(clientGot))
  /\ live => Len(clientGot) + (IF "server_send" \in watch THEN sbuf.len ELSE 0)
               = decoded

(***************************************************************************)
(* Both directions implement BytePipe.  A payload unit is taken when it    *)
(* goes into the encoders; what the server's socket gets is payload once   *)
(* all that comes before it is through.  An application that ends its      *)
(* stream while the handshake is unanswered loses what the plugin holds:   *)
(* that counts as aborted.                                                 *)
(***************************************************************************)
PayloadTaken == IF NextPlain > PayloadBase THEN NextPlain - PayloadBase ELSE 0
PayloadGiven == SubSeq(remoteGot, PayloadBase - EmitBase + 1, Len(remoteGot))

Status(eof) == IF live THEN "open"
               ELSE IF reason = eof THEN "finished" ELSE "aborted"

UpPipe == INSTANCE BytePipe WITH First <- PayloadBase, Total <- UpLen,
            taken <- PayloadTaken, given <- PayloadGiven,
            status <- IF obfs = "hello" /\ ~live THEN "aborted"
                      ELSE Status("client_eof")

DownPipe == INSTANCE BytePipe WITH First <- 0, Total <- DownLen,
              taken <- decoded, given <- clientGot, status <- Status("remote_eof")

\* Application to server: whatever mixture of early data, fast open, held and
\* partial sends, no payload unit is lost, repeated or overtaken, as long as
\* no send has slipped.
UpIsPipe == /\ UpPipe!PipeInit
            /\ [][slipped' \/ UpPipe!PipeNext]_(UpPipe!pipeVars)

\* Server to application, likewise, though server->buf held the request first.
DownIsPipe == DownPipe!PipeSpec

\* A payload unit that was encoded reaches the server's socket unless the
\* connection is closed, the handshake is unanswered, or a send has slipped.
UpDelivered ==
  \A n \in 1..UpLen :
    (PayloadTaken >= n) ~>
      (Len(PayloadGiven) >= n \/ ~live \/ obfs = "hello" \/ slipped)

DownDelivered ==
  \A n \in 1..DownLen : (decoded >= n) ~> (Len(clientGot) >= n \/ ~live)

\* A server that does not answer the hello does not keep a connection of
\* ssr-local or ssr-redir for ever.  ssr-tunnel starts no idle timer.
HandshakeEnds ==
  (obfs = "hello" /\ ~Tunnel) ~> (obfs = "done" \/ ~live)
=============================================================================
