------------------------------ MODULE TcpRelay ------------------------------
(***************************************************************************)
(* ssr-server: one TCP connection of server/server.c, from accept_cb to    *)
(* close_and_free_server.  A client sends an IV, a relay header and a      *)
(* payload; the server decodes the header, connects to the remote host it  *)
(* names and then relays both directions with one buffer each.             *)
(*                                                                         *)
(* Every callback that libev may run is one action.  Data is positions:    *)
(* byte p of the client's plaintext (header first) is the number p, byte p *)
(* of the remote's answer is DownBase + p, and a buffer_t is the position  *)
(* of array[0] with the fields idx and len of the code.                    *)
(***************************************************************************)
EXTENDS Buffers

CONSTANTS IvLen,     \* enc_get_iv_len()
          HdrLen,    \* length of the relay header the client sends
          UpLen,     \* payload bytes the client sends
          DownLen,   \* bytes the remote sends
          BufSize,   \* BUF_SIZE
          Sessions   \* the kinds of connection considered

(***************************************************************************)
(* atyp: an address, a host name, a host name validate_hostname accepts    *)
(* but no DNS query can carry (254 or 255 characters), or a first byte     *)
(* that is no address type.  fastopen: the option --fast-open.  obfs: an   *)
(* obfs plugin that answers the first segment (needsendback).  reframe: a  *)
(* protocol plugin or one-time-auth chunks, which may hold bytes back      *)
(* until a frame is complete.                                              *)
(***************************************************************************)
SessionType == [atyp : {"ip", "host", "longhost", "bad"},
                fastopen : BOOLEAN, obfs : BOOLEAN, reframe : BOOLEAN]

ASSUME RelayAssumption ==
  /\ IvLen \in Nat
  /\ HdrLen \in Nat \ {0}
  /\ UpLen \in Nat
  /\ DownLen \in Nat
  /\ BufSize \in Nat
  /\ BufSize > IvLen + 1
  /\ Sessions \subseteq SessionType

VARIABLES
  sess,       \* the kind of this connection
  stage,      \* server->stage
  server,     \* "live" or "freed": the server_t
  remote,     \* "none", "connecting", "connected" or "freed": the remote_t
  query,      \* server->query: "null" or "set"
  rq,         \* the ResolvQuery: "none", "live" or "freed"
  watch,      \* the active io watchers
  obfs,       \* "greeting" until the obfs handshake is answered, then "done"
  sbuf,       \* server->buf
  rbuf,       \* remote->buf
  hlen,       \* server->header_buf->len
  cRecv,      \* bytes received from the client, IV included
  plain,      \* plaintext bytes the decoders have produced
  dRecv,      \* bytes received from the remote
  remoteGot,  \* the bytes handed to the remote socket
  clientGot,  \* the bytes handed to the client socket
  blame,      \* last block-list call about the client's address
  reason      \* why the connection was closed

conn == <<server, remote, query, rq, watch, reason>>
up   == <<cRecv, plain, remoteGot>>
down == <<dRecv, clientGot>>
vars == <<sess, stage, conn, obfs, sbuf, rbuf, hlen, up, down, blame>>

-----------------------------------------------------------------------------
Stages   == {"ERROR", "INIT", "HANDSHAKE", "PARSE", "RESOLVE", "STREAM"}
Watchers == {"server_recv", "server_send", "remote_recv", "remote_send"}
Reasons  == {"", "client_eof", "remote_eof", "client_error", "remote_error",
             "rejected", "malformed", "unreachable", "unresolved", "timeout"}
Blames   == {"none", "reset", "malformed", "bad", "malicious", "suspicious"}

Upstream == IvLen + HdrLen + UpLen
DownBase == HdrLen + UpLen

Smaller(a, b) == IF a < b THEN a ELSE b

-----------------------------------------------------------------------------
\* close_and_free_server: cancels the DNS query, stops both watchers and the
\* timer, frees the server_t.
CloseServer(why) ==
  /\ server' = "freed"
  /\ query' = "null"
  /\ rq' = IF query = "set" THEN "freed" ELSE rq
  /\ watch' = watch \ {"server_recv", "server_send"}
  /\ reason' = why
  /\ UNCHANGED remote

\* A defect for comparison: the query is forgotten without resolv_cancel.
CloseBothKeepsQuery(why) ==
  /\ server' = "freed"
  /\ query' = "null"
  /\ watch' = {}
  /\ reason' = why
  /\ remote' = IF remote = "none" THEN "none" ELSE "freed"
  /\ UNCHANGED rq

\* close_and_free_remote and close_and_free_server.
CloseBoth(why) ==
  /\ server' = "freed"
  /\ query' = "null"
  /\ rq' = IF query = "set" THEN "freed" ELSE rq
  /\ watch' = {}
  /\ reason' = why
  /\ remote' = IF remote = "none" THEN "none" ELSE "freed"

live == server = "live"

Keep == UNCHANGED <<server, query, rq, reason>>

\* A defect for comparison: ev_io_stop is forgotten.
SwitchOnOnly(off, on) == watch' = watch \cup on

\* ev_io_stop on one watcher, ev_io_start on others.
Switch(off, on) == watch' = (watch \ {off}) \cup on

-----------------------------------------------------------------------------
(***************************************************************************)
(* connect_to_remote.  NULL when the address is blocked or socket, bind or *)
(* connect fail.  With fast open, sendto puts a first part of server->buf  *)
(* on the wire, possibly nothing (in progress, not supported, error) or    *)
(* all of it.                                                              *)
(***************************************************************************)
NoRemote == -1

ConnectToRemote(len) ==
  {NoRemote} \cup {s \in 0..len : sess.fastopen \/ s = 0}

\* A defect for comparison: the part sent with the connect is copied again.
AdoptRemoteWhole(buf, sent, first) ==
  /\ remote' = "connecting"
  /\ remoteGot' = remoteGot \o Unsent(buf, sent)
  /\ rbuf' = Buf(buf.base, buf.idx, buf.len)
  /\ sbuf' = Buf(buf.base, 0, 0)

(***************************************************************************)
(* server->remote = remote, and what remains in server->buf moves to       *)
(* remote->buf.  "first" is the position the memcpy starts from.           *)
(***************************************************************************)
AdoptRemote(buf, sent, first) ==
  /\ remote' = "connecting"
  /\ remoteGot' = remoteGot \o Unsent(buf, sent)
  /\ rbuf' = IF buf.len > sent THEN Buf(first, 0, buf.len - sent)
                               ELSE Buf(0, 0, 0)
  /\ sbuf' = IF buf.len > sent THEN Buf(buf.base, 0, 0) ELSE Rest(buf, sent)

\* The address is known at once (server_recv_cb): the memcpy starts at array.
ConnectDirectly(buf) ==
  /\ stage' = "PARSE"
  /\ \E sent \in ConnectToRemote(buf.len) :
       IF sent = NoRemote
         THEN /\ CloseServer("unreachable")
              /\ sbuf' = buf
              /\ UNCHANGED <<rbuf, remoteGot>>
         ELSE /\ AdoptRemote(buf, sent, buf.base)
              /\ Switch("server_recv", {"remote_send"})
              /\ Keep

(***************************************************************************)
(* A host name: the query is handed to the resolver and reading stops.  If *)
(* neither the A nor the AAAA query can be submitted, resolv_query frees   *)
(* its ResolvQuery and still returns the pointer.                          *)
(***************************************************************************)
Resolve(buf) ==
  /\ stage' = "RESOLVE"
  /\ query' = "set"
  /\ rq' = IF sess.atyp = "longhost" THEN "freed" ELSE "live"
  /\ sbuf' = buf
  /\ Switch("server_recv", {})
  /\ UNCHANGED <<server, remote, reason, rbuf, remoteGot>>

(***************************************************************************)
(* server_recv_cb in STAGE_PARSE, with len plaintext bytes in server->buf. *)
(* A header that is not all there is malformed; one that is may be refused *)
(* (outbound ACL, host name, one-time-auth).  The payload after it moves   *)
(* to the front; one-time-auth may keep an incomplete chunk of it back.    *)
(***************************************************************************)
ParseHeader(len) ==
  \/ /\ len < HdrLen
     /\ CloseServer("malformed")
     /\ blame' = "malformed"
     /\ plain' = len
     /\ UNCHANGED <<stage, sbuf, rbuf, remoteGot>>
  \/ /\ len >= HdrLen
     /\ CloseServer("rejected")
     /\ blame' \in {blame, "malformed", "bad"}
     /\ plain' = len
     /\ UNCHANGED <<stage, sbuf, rbuf, remoteGot>>
  \/ /\ len >= HdrLen
     /\ \E kept \in 0..(len - HdrLen) :
          /\ sess.reframe \/ kept = len - HdrLen
          /\ plain' = HdrLen + kept
          /\ IF sess.atyp = "ip" THEN ConnectDirectly(Buf(HdrLen, 0, kept))
                                 ELSE Resolve(Buf(HdrLen, 0, kept))
     /\ UNCHANGED blame

-----------------------------------------------------------------------------
(***************************************************************************)
(* server_recv_cb.                                                         *)
(***************************************************************************)
Reading == live /\ "server_recv" \in watch

\* recv returned r > 0: any part of what the client sends that fits.
Arrived(r) ==
  LET room == IF stage = "STREAM" THEN BufSize ELSE BufSize - sbuf.len
  IN  /\ Reading
      /\ r \in 1..Smaller(room, Upstream - cRecv)
      /\ cRecv' = cRecv + r

\* A defect for comparison: the IV counts as plaintext.
DecodedWithIv(c) ==
  LET inside == c - plain
  IN  {n \in 0..inside : sess.reframe \/ n = inside}

\* How many plaintext bytes come out of obfs, cipher and protocol plugin once
\* c bytes went in; 0 means a frame is still incomplete.
Decoded(c) ==
  LET inside == c - IvLen - plain
  IN  {n \in 0..inside : sess.reframe \/ n = inside}

\* recv returned 0 (end of stream) or an error.
ServerRecvEnd ==
  /\ Reading
  /\ CloseBoth("client_eof") \/ CloseBoth("client_error")
  /\ UNCHANGED <<sess, stage, obfs, sbuf, rbuf, hlen, up, down, blame>>

\* STAGE_ERROR: read and discard until the timer fires.
ServerRecvDiscard ==
  /\ stage = "ERROR"
  /\ \E r \in 1..BufSize : Arrived(r)
  /\ sbuf' = Buf(0, 0, 0)
  /\ UNCHANGED <<sess, stage, conn, obfs, rbuf, hlen, plain, remoteGot,
                 down, blame>>

\* "handle incomplete header part 1": not even the IV and one byte.
ServerRecvWait ==
  /\ stage = "INIT" /\ obfs = "done"
  /\ \E r \in 1..BufSize :
       /\ Arrived(r)
       /\ sbuf.len + r <= IvLen + 1
       /\ sbuf' = WithLen(sbuf, sbuf.len + r)
  /\ UNCHANGED <<sess, stage, conn, obfs, rbuf, hlen, plain, remoteGot,
                 down, blame>>

\* The obfs handshake: its segment is answered on the spot and dropped, or it
\* is wrong.  Its bytes are not part of the client's stream.
ServerRecvObfs ==
  /\ Reading
  /\ stage = "INIT" /\ obfs = "greeting" /\ sbuf.len = 0
  /\ \/ obfs' = "done" /\ UNCHANGED conn
     \/ CloseBoth("rejected") /\ UNCHANGED obfs
  /\ UNCHANGED <<sess, stage, sbuf, rbuf, hlen, up, down, blame>>

\* The part of server_recv_cb behind the waits: c bytes of the client have
\* gone through the decoders.
Decoding(r) ==
  /\ Arrived(r)
  /\ obfs = "done"
  /\ stage # "ERROR"
  /\ stage = "INIT" => sbuf.len + r > IvLen + 1

\* Decoding or decryption failed, the protocol plugin or a chunk's hash
\* refused the data.
ServerRecvReject ==
  /\ \E r \in 1..BufSize : Decoding(r)
  /\ CloseBoth("rejected")
  /\ blame' \in {blame, "malicious", "bad"}
  /\ UNCHANGED <<sess, stage, obfs, sbuf, rbuf, hlen, plain, remoteGot, down>>

\* server_post_decrypt returned 0: the frame is incomplete.
ServerRecvHold ==
  /\ \E r \in 1..BufSize : Decoding(r) /\ 0 \in Decoded(cRecv + r)
  /\ IF stage = "STREAM"
       THEN rbuf' = WithLen(rbuf, 0) /\ UNCHANGED sbuf
       ELSE sbuf' = WithLen(sbuf, 0) /\ UNCHANGED rbuf
  /\ UNCHANGED <<sess, stage, conn, obfs, hlen, plain, remoteGot, down, blame>>

\* STAGE_INIT: the first n bytes of plaintext.  An unknown address type is an
\* error, a complete header is parsed, an incomplete one goes to header_buf.
ServerRecvInit ==
  /\ stage = "INIT"
  /\ \E r \in 1..BufSize :
       /\ Decoding(r)
       /\ \E n \in Decoded(cRecv + r) \ {0} :
            \/ /\ sess.atyp = "bad"
               /\ stage' = "ERROR"
               /\ blame' = "malformed"
               /\ plain' = n
               /\ sbuf' = Buf(0, 0, 0)
               /\ UNCHANGED <<conn, rbuf, remoteGot, hlen>>
            \/ /\ sess.atyp # "bad"
               /\ n >= HdrLen
               /\ ParseHeader(n)
               /\ UNCHANGED hlen
            \/ /\ sess.atyp # "bad"
               /\ n < HdrLen
               /\ stage' = "HANDSHAKE"
               /\ hlen' = n
               /\ plain' = n
               /\ sbuf' = Buf(0, 0, 0)
               /\ UNCHANGED <<conn, rbuf, remoteGot, blame>>
  /\ UNCHANGED <<sess, obfs, down>>

(***************************************************************************)
(* STAGE_HANDSHAKE: the segment is appended to header_buf, but             *)
(* is_header_complete looks at the segment alone.  The segment starts in   *)
(* the middle of the header, so its first byte may be taken for any        *)
(* address type: every verdict is possible.                                *)
(***************************************************************************)
ServerRecvHandshake ==
  /\ stage = "HANDSHAKE"
  /\ \E r \in 1..BufSize :
       /\ Decoding(r)
       /\ \E n \in Decoded(cRecv + r) \ {0} :
            /\ hlen' = hlen + n
            /\ \/ ParseHeader(hlen + n)
               \/ /\ stage' \in {"HANDSHAKE", "ERROR"}
                  /\ plain' = plain + n
                  /\ sbuf' = Buf(0, 0, 0)
                  /\ UNCHANGED <<conn, rbuf, remoteGot, blame>>
  /\ UNCHANGED <<sess, obfs, down>>

\* STAGE_STREAM: the n bytes are sent at once; what the socket does not take
\* stays in remote->buf, and reading stops until it is gone.
ServerRecvStream ==
  /\ stage = "STREAM"
  /\ \E r \in 1..BufSize :
       /\ Decoding(r)
       /\ \E n \in Decoded(cRecv + r) \ {0} :
            /\ plain' = plain + n
            /\ \/ \E s \in 0..(n - 1) :
                    /\ remoteGot' = remoteGot \o Run(plain, s)
                    /\ rbuf' = Buf(plain, s, n - s)
                    /\ Switch("server_recv", {"remote_send"})
                    /\ Keep /\ UNCHANGED remote
               \/ /\ remoteGot' = remoteGot \o Run(plain, n)
                  /\ rbuf' = Buf(plain, rbuf.idx, n)
                  /\ UNCHANGED conn
               \/ /\ CloseBoth("remote_error")
                  /\ UNCHANGED <<rbuf, remoteGot>>
  /\ UNCHANGED <<sess, stage, obfs, sbuf, hlen, down, blame>>

ServerRecvCb ==
  \/ ServerRecvEnd
  \/ ServerRecvDiscard
  \/ ServerRecvWait
  \/ ServerRecvObfs
  \/ ServerRecvReject
  \/ ServerRecvHold
  \/ ServerRecvInit
  \/ ServerRecvHandshake
  \/ ServerRecvStream

-----------------------------------------------------------------------------
\* A defect for comparison: server->query still points to the freed query.
QueryAnsweredKeepsPointer == rq' = "freed" /\ UNCHANGED query

\* server->query = NULL, and the resolver frees the query it has answered.
QueryAnswered == rq' = "freed" /\ query' = "null"

(***************************************************************************)
(* server_resolve_cb, called by the resolver once A and AAAA are answered  *)
(* or timed out.                                                           *)
(***************************************************************************)
ServerResolveCb ==
  /\ rq = "live"
  /\ QueryAnswered
  /\ \/ \E why \in {"unresolved", "unreachable"} :
          /\ server' = "freed"
          /\ reason' = why
          /\ watch' = watch \ {"server_recv", "server_send"}
          /\ UNCHANGED <<remote, sbuf, rbuf, remoteGot>>
     \/ \E sent \in ConnectToRemote(sbuf.len) \ {NoRemote} :
          /\ AdoptRemote(sbuf, sent, sbuf.base + sbuf.idx + sent)
          /\ watch' = watch \cup {"remote_send"}
          /\ UNCHANGED <<server, reason>>
  /\ UNCHANGED <<sess, stage, obfs, hlen, cRecv, plain, down, blame>>

-----------------------------------------------------------------------------
(***************************************************************************)
(* remote_send_cb.  The first call tells whether the connect succeeded,    *)
(* clears the client from the block list, and goes on to send.             *)
(***************************************************************************)
Writing == live /\ "remote_send" \in watch

\* getpeername or send failed.
RemoteSendError ==
  /\ Writing
  /\ CloseBoth("remote_error")
  /\ blame' \in {blame, "reset"}
  /\ UNCHANGED <<sess, stage, obfs, sbuf, rbuf, hlen, up, down>>

Connected == /\ remote' = "connected"
             /\ blame' = IF remote = "connecting" THEN "reset" ELSE blame

\* A defect for comparison: reading the remote starts after every send.
StartStreamAlways ==
  /\ stage' = "STREAM"
  /\ Switch("remote_send", {"server_recv", "remote_recv"})
  /\ Keep

\* Everything is sent: both directions may be read.
StartStream ==
  /\ stage' = "STREAM"
  /\ Switch("remote_send", IF stage = "STREAM" THEN {"server_recv"}
                           ELSE {"server_recv", "remote_recv"})
  /\ Keep

\* Connected, and there was no payload behind the header.
RemoteSendNothing ==
  /\ Writing
  /\ remote = "connecting" /\ rbuf.len = 0
  /\ Connected
  /\ StartStream
  /\ UNCHANGED <<sess, obfs, sbuf, rbuf, hlen, up, down>>

\* A defect for comparison: the watcher stops after a partial send.
RemoteSendPartStops ==
  /\ Writing
  /\ Connected
  /\ \E s \in 0..(rbuf.len - 1) :
       /\ remoteGot' = remoteGot \o Unsent(rbuf, s)
       /\ rbuf' = Rest(rbuf, s)
  /\ Switch("remote_send", {})
  /\ Keep
  /\ UNCHANGED <<sess, stage, obfs, sbuf, hlen, cRecv, plain, down>>

\* The socket takes a part, or nothing (EAGAIN).
RemoteSendPart ==
  /\ Writing
  /\ Connected
  /\ \E s \in 0..(rbuf.len - 1) :
       /\ remoteGot' = remoteGot \o Unsent(rbuf, s)
       /\ rbuf' = Rest(rbuf, s)
  /\ Keep
  /\ UNCHANGED <<sess, stage, watch, obfs, sbuf, hlen, cRecv, plain, down>>

RemoteSendAll ==
  /\ Writing
  /\ rbuf.len > 0
  /\ Connected
  /\ remoteGot' = remoteGot \o Unsent(rbuf, rbuf.len)
  /\ rbuf' = Buf(rbuf.base, 0, 0)
  /\ StartStream
  /\ UNCHANGED <<sess, obfs, sbuf, hlen, cRecv, plain, down>>

RemoteSendCb ==
  RemoteSendError \/ RemoteSendNothing \/ RemoteSendPart \/ RemoteSendAll

-----------------------------------------------------------------------------
(***************************************************************************)
(* remote_recv_cb: answers go through the encoders into server->buf and to *)
(* the client at once; what the socket does not take stays there, and      *)
(* reading the remote stops until it is gone.                              *)
(***************************************************************************)
RemoteReading == live /\ "remote_recv" \in watch

RemoteRecvEnd ==
  /\ RemoteReading
  /\ CloseBoth("remote_eof") \/ CloseBoth("remote_error")
  /\ UNCHANGED <<sess, stage, obfs, sbuf, rbuf, hlen, up, down, blame>>

RemoteRecvData ==
  /\ RemoteReading
  /\ \E r \in 1..Smaller(BufSize, DownLen - dRecv) :
       /\ dRecv' = dRecv + r
       /\ \/ \E s \in 0..(r - 1) :
               /\ clientGot' = clientGot \o Run(DownBase + dRecv, s)
               /\ sbuf' = Buf(DownBase + dRecv, s, r - s)
               /\ Switch("remote_recv", {"server_send"})
               /\ Keep /\ UNCHANGED remote
          \/ /\ clientGot' = clientGot \o Run(DownBase + dRecv, r)
             /\ sbuf' = Buf(DownBase + dRecv, sbuf.idx, r)
             /\ UNCHANGED conn
          \/ /\ CloseBoth("client_error")
             /\ UNCHANGED <<sbuf, clientGot>>
  /\ UNCHANGED <<sess, stage, obfs, rbuf, hlen, up, blame>>

RemoteRecvCb == RemoteRecvEnd \/ RemoteRecvData

-----------------------------------------------------------------------------
\* server_send_cb.
Answering == live /\ "server_send" \in watch

ServerSendError ==
  /\ Answering
  /\ CloseBoth("client_error")
  /\ UNCHANGED <<sess, stage, obfs, sbuf, rbuf, hlen, up, down, blame>>

\* A defect for comparison: the watcher stops after a partial send.
ServerSendPartStops ==
  /\ Answering
  /\ \E s \in 1..(sbuf.len - 1) :
       /\ clientGot' = clientGot \o Unsent(sbuf, s)
       /\ sbuf' = Rest(sbuf, s)
  /\ Switch("server_send", {})
  /\ Keep
  /\ UNCHANGED <<sess, stage, remote, obfs, rbuf, hlen, up, dRecv, blame>>

ServerSendPart ==
  /\ Answering
  /\ \E s \in 1..(sbuf.len - 1) :
       /\ clientGot' = clientGot \o Unsent(sbuf, s)
       /\ sbuf' = Rest(sbuf, s)
  /\ UNCHANGED <<sess, stage, conn, obfs, rbuf, hlen, up, dRecv, blame>>

ServerSendAll ==
  /\ Answering
  /\ sbuf.len > 0
  /\ clientGot' = clientGot \o Unsent(sbuf, sbuf.len)
  /\ sbuf' = Buf(sbuf.base, 0, 0)
  /\ Switch("server_send", {"remote_recv"})
  /\ Keep
  /\ UNCHANGED <<sess, stage, remote, obfs, rbuf, hlen, up, dRecv, blame>>

ServerSendCb == ServerSendError \/ ServerSendPart \/ ServerSendAll

-----------------------------------------------------------------------------
\* A defect for comparison: <= for <.
HeaderPendingOrParsed == stage \in {"ERROR", "INIT", "HANDSHAKE", "PARSE"}

\* server->stage < STAGE_PARSE.
HeaderPending == stage \in {"ERROR", "INIT", "HANDSHAKE"}

(***************************************************************************)
(* server_timeout_cb.  Until the first byte of the stream stage the timer  *)
(* is the one accept_cb started, which nothing re-arms; from then on every *)
(* read re-arms it.                                                        *)
(***************************************************************************)
TimedOut ==
  /\ live
  /\ CloseBoth("timeout")
  /\ blame' = IF HeaderPending THEN "suspicious" ELSE blame
  /\ UNCHANGED <<sess, stage, obfs, sbuf, rbuf, hlen, up, down>>

\* A defect for comparison: the timer is stopped when the header is refused.
RequestTimeoutNotInError == stage \notin {"ERROR", "STREAM"} /\ TimedOut

RequestTimeout == stage # "STREAM" /\ TimedOut
IdleTimeout    == stage = "STREAM" /\ TimedOut

-----------------------------------------------------------------------------
\* accept_cb: a fresh server_t, its recv watcher and its timer started.
Init ==
  /\ sess \in Sessions
  /\ stage = "INIT"
  /\ server = "live"
  /\ remote = "none"
  /\ query = "null" /\ rq = "none"
  /\ watch = {"server_recv"}
  /\ obfs = IF sess.obfs THEN "greeting" ELSE "done"
  /\ sbuf = Buf(0, 0, 0) /\ rbuf = Buf(0, 0, 0) /\ hlen = 0
  /\ cRecv = 0 /\ plain = 0 /\ dRecv = 0
  /\ remoteGot = <<>> /\ clientGot = <<>>
  /\ blame = "none" /\ reason = ""

Next ==
  \/ ServerRecvCb
  \/ ServerResolveCb
  \/ RemoteSendCb
  \/ RemoteRecvCb
  \/ ServerSendCb
  \/ RequestTimeout
  \/ IdleTimeout

(***************************************************************************)
(* The sockets the relay waits to write on become writable, the resolver   *)
(* answers every query it holds (udns times each of them out), and the     *)
(* request timer fires.  Nothing is assumed about the two ends sending.    *)
(***************************************************************************)
Fairness ==
  /\ WF_vars(RemoteSendCb)
  /\ WF_vars(ServerSendCb)
  /\ WF_vars(ServerResolveCb)
  /\ WF_vars(RequestTimeout)

Spec     == Init /\ [][Next]_vars
FairSpec == Spec /\ Fairness

-----------------------------------------------------------------------------
(***************************************************************************)
(* Properties.                                                             *)
(***************************************************************************)

\* Every variable stays within its type.
TypeOK ==
  /\ sess \in Sessions
  /\ stage \in Stages
  /\ server \in {"live", "freed"}
  /\ remote \in {"none", "connecting", "connected", "freed"}
  /\ query \in {"null", "set"}
  /\ rq \in {"none", "live", "freed"}
  /\ watch \subseteq Watchers
  /\ obfs \in {"greeting", "done"}
  /\ sbuf \in Buffer /\ rbuf \in Buffer
  /\ hlen \in Nat
  /\ cRecv \in 0..Upstream
  /\ plain \in 0..(HdrLen + UpLen)
  /\ dRecv \in 0..DownLen
  /\ remoteGot \in Seq(Nat) /\ clientGot \in Seq(Nat)
  /\ blame \in Blames
  /\ reason \in Reasons

(***************************************************************************)
(* Flow control.  The watchers that are active are exactly those the stage *)
(* calls for: before the stream at most one, in the stream one for each    *)
(* direction, either the one that reads or the one that writes.  A side is *)
(* read only while nothing is waiting to be written to the other, so a     *)
(* buffer is never overwritten, and a buffer with unsent bytes always has  *)
(* the watcher that will send them: the branches "invalid server" and      *)
(* "should not reach here" and the close of an empty buffer are dead code. *)
(***************************************************************************)
FlowControl ==
  live =>
    /\ stage \in {"ERROR", "INIT", "HANDSHAKE"} =>
         watch = {"server_recv"} /\ remote = "none"
    /\ stage = "PARSE" => remote # "none"
    /\ stage \in {"PARSE", "RESOLVE"} /\ remote = "none" => watch = {}
    /\ stage \in {"PARSE", "RESOLVE"} /\ remote # "none" =>
         /\ watch = {"remote_send"}
         /\ remote = "connecting" \/ (remote = "connected" /\ rbuf.len > 0)
    /\ stage = "STREAM" =>
         /\ remote = "connected"
         /\ "server_recv" \in watch <=> "remote_send" \notin watch
         /\ "remote_send" \in watch => rbuf.len > 0
         /\ "remote_recv" \in watch <=> "server_send" \notin watch
         /\ "server_send" \in watch => sbuf.len > 0

(***************************************************************************)
(* Lifetimes.  The two halves of a connection go together: no remote_t     *)
(* outlives its server_t although half of the error paths free only the    *)
(* server_t, no watcher of a freed object is left in the loop, and a query *)
(* the resolver still holds belongs to a live server_t.                    *)
(***************************************************************************)
NoOrphan ==
  IF live THEN /\ remote # "freed"
               /\ rq = "live" => query = "set" /\ stage = "RESOLVE" /\ remote = "none"
          ELSE /\ remote \in {"none", "freed"}
               /\ watch = {}
               /\ query = "null" /\ rq # "live"

\* server->query is NULL or a query the resolver still holds, which is what
\* resolv_cancel in close_and_free_server needs.
QueryIsHeld == query = "set" => rq = "live"

\* Penalties.  A client is put on the block list as malformed or suspicious
\* only for a connection that relayed nothing in either direction.
NothingRelayedBeforeBlame ==
  blame \in {"malformed", "suspicious"} =>
    remote = "none" /\ remoteGot = <<>> /\ clientGot = <<>>

\* "handle incomplete header": a well-formed header is not taken for a
\* malformed one, however the client's bytes are cut into segments.
SplitHeaderAccepted ==
  sess.atyp # "bad" => stage # "ERROR" /\ reason # "malformed"

(***************************************************************************)
(* Accounting: where every byte between the two sockets is.                *)
(***************************************************************************)

\* The counters agree with the stage: nothing is decoded before the IV and a
\* first byte are there, header_buf holds all that was decoded of an incomplete
\* header, and a parsed header was complete.
UpCount ==
  live =>
    /\ stage = "INIT" => plain = 0 /\ sbuf.len <= cRecv
    /\ stage # "INIT" => plain + IvLen <= cRecv
    /\ stage = "HANDSHAKE" => hlen = plain
    /\ stage \in {"PARSE", "RESOLVE", "STREAM"} => HdrLen <= plain

\* Client to remote.  The payload decoded so far is with the remote socket and
\* otherwise in server->buf while the name is resolved, in remote->buf later.
UpOrder ==
  /\ remoteGot = Run(HdrLen, Len(remoteGot))
  /\ live =>
       LET next == HdrLen + Len(remoteGot)
       IN  /\ remote = "none" => remoteGot = <<>>
           /\ stage = "RESOLVE" /\ remote = "none" =>
                sbuf.base + sbuf.idx = next /\ next + sbuf.len = plain
           /\ remote # "none" =>
                IF "remote_send" \in watch /\ rbuf.len > 0
                  THEN rbuf.base + rbuf.idx = next /\ next + rbuf.len = plain
                  ELSE next = plain

\* Remote to client: all that was received is with the client socket or in
\* server->buf.
DownOrder ==
  /\ clientGot = Run(DownBase, Len(clientGot))
  /\ live =>
       LET next == DownBase + Len(clientGot)
       IN  IF "server_send" \in watch
             THEN sbuf.base + sbuf.idx = next /\ next + sbuf.len = DownBase + dRecv
             ELSE next = DownBase + dRecv
  /\ live /\ stage # "STREAM" => dRecv = 0

Accounting == UpCount /\ UpOrder /\ DownOrder

(***************************************************************************)
(* Both directions implement BytePipe.  A payload byte is taken when it    *)
(* leaves the decoders behind a parsed header.  The pipe is finished when  *)
(* its source ended its stream, and aborted when the connection is closed  *)
(* for any other reason.                                                   *)
(***************************************************************************)
UpTaken  == IF stage \in {"PARSE", "RESOLVE", "STREAM"} THEN plain - HdrLen ELSE 0
Status(eof) == IF live THEN "open"
               ELSE IF reason = eof THEN "finished" ELSE "aborted"

UpPipe == INSTANCE BytePipe WITH First <- HdrLen, Total <- UpLen,
            taken <- UpTaken, given <- remoteGot, status <- Status("client_eof")

DownPipe == INSTANCE BytePipe WITH First <- DownBase, Total <- DownLen,
              taken <- dRecv, given <- clientGot, status <- Status("remote_eof")

\* Client to remote: no payload byte is lost, repeated or reordered, however
\* segments, partial sends, fast open and DNS interleave; and when the client
\* ends its stream, all it sent has reached the remote socket.
UpIsPipe == UpPipe!PipeSpec

\* Remote to client, likewise, though server->buf served the header before.
DownIsPipe == DownPipe!PipeSpec

\* What the rest of the server sees of this connection.
Phase == IF ~live THEN "closed"
         ELSE IF stage = "ERROR" THEN "error"
         ELSE IF remote \in {"connecting", "connected"}
              THEN IF remote = "connected" THEN "stream" ELSE "connecting"
         ELSE IF stage = "RESOLVE" THEN "resolving" ELSE "header"

Seen == INSTANCE Connection WITH phase <- Phase, blame <- blame

\* The relay implements Connection, of which Server has many: it asks for one
\* name at most, accuses its client at most of the header and then of silence,
\* and clears it exactly when the remote has accepted.
IsConnection == Seen!ConnectionSpec

\* The remote socket gets the payload in order: the part of UpIsPipe that the
\* fast-open path is about.
UpInOrder == remoteGot = Run(HdrLen, Len(remoteGot))

\* No byte is stranded: a payload byte that was taken reaches the remote
\* socket unless the connection is closed.
UpDelivered ==
  \A n \in 1..UpLen : (UpTaken >= n) ~> (Len(remoteGot) >= n \/ ~live)

DownDelivered ==
  \A n \in 1..DownLen : (dRecv >= n) ~> (Len(clientGot) >= n \/ ~live)

\* A connection does not sit in the handshake for ever: it gets to the stream
\* stage or is closed, also after STAGE_ERROR, which has no other way out.
HandshakeEnds == <>(stage = "STREAM" \/ ~live)
=============================================================================
