--------------------------- MODULE TcpPipeProofs ----------------------------
(***************************************************************************)
(* Each direction of a connection of ssr-server is a byte pipe: the bytes  *)
(* of TcpRelay are accounted for, and from the account follows that both   *)
(* directions implement BytePipe.                                          *)
(***************************************************************************)
EXTENDS TcpRelayProofs

\* A header with a literal address never comes with fast open, where the code
\* copies from the wrong place (the run relay_fast_open).
NoEarlyData == \A s \in Sessions : ~(s.atyp = "ip" /\ s.fastopen)

Accounted == IInv /\ UpOrder /\ DownOrder

-----------------------------------------------------------------------------
(***************************************************************************)
(* Remote to client.                                                       *)
(***************************************************************************)

\* A step that has nothing to do with the answer.
LEMMA DownKept ==
  ASSUME DownOrder, UNCHANGED down,
         live' => /\ live
                  /\ "server_send" \in watch' <=> "server_send" \in watch
                  /\ "server_send" \in watch => UNCHANGED sbuf
                  /\ stage' # "STREAM" => stage # "STREAM"
  PROVE  DownOrder'
BY DEF DownOrder, down

LEMMA DownClosed ==
  ASSUME DownOrder, ~live', UNCHANGED clientGot
  PROVE  DownOrder'
BY DEF DownOrder

\* What the client's socket has got after m more bytes.
LEMMA DownGrows ==
  ASSUME IInv, DownOrder, NEW m \in Nat,
         clientGot' = clientGot \o Run(DownBase + Len(clientGot), m)
  PROVE  /\ clientGot' = Run(DownBase, Len(clientGot'))
         /\ Len(clientGot') = Len(clientGot) + m
         /\ Len(clientGot') \in Nat
<1> DEFINE a == DownBase
           q == clientGot
           t == q \o Run(a + Len(q), m)
<1>1. q \in Seq(Nat) /\ q = Run(a, Len(q)) /\ Len(q) \in Nat
  BY TypeFacts DEF DownOrder
<1>2. a \in Nat
  BY Lengths
<1>3. clientGot' = t
  OBVIOUS
<1> HIDE DEF a, q
<1>4. t = Run(a, Len(q) + m) /\ Len(t) = Len(q) + m
  BY <1>1, <1>2, RunGrows
<1>5. Len(q) + m \in Nat
  BY <1>1
<1> QED
  BY <1>3, <1>4, <1>5 DEF a, q

LEMMA HeaderDown ==
  ASSUME IInv, DownOrder, live, stage # "STREAM", UNCHANGED down,
         "server_send" \notin watch'
  PROVE  DownOrder'
<1>1. "server_send" \notin watch
  BY DEF IInv, TypeOK, Stages, FlowControl
<1> QED
  BY <1>1, DownKept

LEMMA ServerRecvCbDown == IInv /\ DownOrder /\ ServerRecvCb => DownOrder'
<1> SUFFICES ASSUME IInv, DownOrder, ServerRecvCb PROVE DownOrder'
  OBVIOUS
<1>1. UNCHANGED down
  BY DEF ServerRecvCb, ServerRecvEnd, ServerRecvDiscard, ServerRecvWait, ServerRecvObfs,
         ServerRecvReject, ServerRecvHold, ServerRecvInit, ServerRecvHandshake,
         ServerRecvStream
<1>2. CASE \E why : CloseBoth(why)
  BY <1>1, <1>2, Closing, DownClosed DEF down
<1>3. CASE UNCHANGED <<conn, stage>> /\ (stage = "STREAM" => UNCHANGED sbuf)
  <2>1. CASE live /\ stage # "STREAM"
    <3>1. "server_send" \notin watch
      BY <2>1 DEF IInv, TypeOK, Stages, FlowControl
    <3> QED
      BY <1>1, <1>3, <3>1, <2>1, HeaderDown DEF conn
  <2>2. CASE ~live \/ stage = "STREAM"
    BY <1>1, <1>3, <2>2, DownKept, DownClosed DEF conn, live, down
  <2> QED
    BY <2>1, <2>2
<1>4. CASE ServerRecvInit \/ ServerRecvHandshake
  <2>1. live /\ stage \in {"INIT", "HANDSHAKE"}
    BY <1>4 DEF ServerRecvInit, ServerRecvHandshake, Decoding, Arrived, Reading
  <2>2. watch = {"server_recv"}
    BY <2>1 DEF IInv, FlowControl
  <2>3. (\E len : ParseHeader(len)) \/ UNCHANGED conn
    BY <1>4 DEF ServerRecvInit, ServerRecvHandshake
  <2>4. ASSUME NEW len, ParseHeader(len)
        PROVE  "server_send" \notin watch'
    BY <2>2, <2>4 DEF ParseHeader, CloseServer, ConnectDirectly, Resolve, Switch
  <2>5. "server_send" \notin watch'
    BY <2>2, <2>3, <2>4 DEF conn
  <2> QED
    BY <1>1, <2>1, <2>5, HeaderDown
<1>5. CASE ServerRecvStream
  <2>1. stage = "STREAM" /\ UNCHANGED <<stage, sbuf>> /\ live
    BY <1>5 DEF ServerRecvStream, Decoding, Arrived, Reading
  <2>2. \/ Switch("server_recv", {"remote_send"}) /\ UNCHANGED server
        \/ UNCHANGED conn
        \/ \E why : CloseBoth(why)
    BY <1>5 DEF ServerRecvStream, Keep
  <2>3. CASE Switch("server_recv", {"remote_send"}) /\ UNCHANGED server
    BY <1>1, <2>1, <2>3, DownKept DEF Switch
  <2> QED
    BY <1>2, <1>3, <2>1, <2>2, <2>3
<1>6. CASE ServerRecvEnd \/ ServerRecvReject
  BY <1>2, <1>6 DEF ServerRecvEnd, ServerRecvReject
<1>7. CASE ServerRecvDiscard \/ ServerRecvWait \/ ServerRecvObfs \/ ServerRecvHold
  BY <1>2, <1>3, <1>7 DEF ServerRecvDiscard, ServerRecvWait, ServerRecvObfs, ServerRecvHold
<1> QED
  BY <1>4, <1>5, <1>6, <1>7 DEF ServerRecvCb

LEMMA ServerResolveCbDown == IInv /\ DownOrder /\ ServerResolveCb => DownOrder'
<1> SUFFICES ASSUME IInv, DownOrder, ServerResolveCb PROVE DownOrder'
  OBVIOUS
<1>1. live /\ stage = "RESOLVE" /\ remote = "none"
  BY DEF IInv, NoOrphan, ServerResolveCb
<1>2. watch = {}
  BY <1>1 DEF IInv, FlowControl
<1>3. UNCHANGED down /\ "server_send" \notin watch'
  BY <1>2 DEF ServerResolveCb
<1> QED
  BY <1>1, <1>3, HeaderDown

LEMMA RemoteSendCbDown == IInv /\ DownOrder /\ RemoteSendCb => DownOrder'
<1> SUFFICES ASSUME IInv, DownOrder, RemoteSendCb PROVE DownOrder'
  OBVIOUS
<1>1. live /\ UNCHANGED <<down, sbuf>>
  BY DEF RemoteSendCb, RemoteSendError, RemoteSendNothing, RemoteSendPart, RemoteSendAll,
         Writing
<1>2. CASE RemoteSendError
  BY <1>1, <1>2, Closing, DownClosed DEF RemoteSendError, down
<1>3. CASE RemoteSendPart
  BY <1>1, <1>3, DownKept DEF RemoteSendPart
<1>4. CASE RemoteSendNothing \/ RemoteSendAll
  <2>1. StartStream
    BY <1>4 DEF RemoteSendNothing, RemoteSendAll
  <2> QED
    BY <1>1, <2>1, DownKept DEF StartStream, Switch
<1> QED
  BY <1>2, <1>3, <1>4 DEF RemoteSendCb

LEMMA RemoteRecvDataDown == IInv /\ DownOrder /\ RemoteRecvData => DownOrder'
<1> SUFFICES ASSUME IInv, DownOrder, RemoteRecvData PROVE DownOrder'
  OBVIOUS
<1>1. live /\ "remote_recv" \in watch /\ UNCHANGED stage
  BY DEF RemoteRecvData, RemoteReading
<1>2. stage = "STREAM"
  BY <1>1 DEF IInv, TypeOK, Stages, FlowControl
<1>3. "server_send" \notin watch
  BY <1>1, <1>2, StreamFacts
<1>4. DownBase + Len(clientGot) = DownBase + dRecv
  BY <1>1, <1>3 DEF DownOrder
<1>5. PICK r \in 1..Smaller(BufSize, DownLen - dRecv) :
        /\ dRecv' = dRecv + r
        /\ \/ \E s \in 0..(r - 1) :
                /\ clientGot' = clientGot \o Run(DownBase + dRecv, s)
                /\ sbuf' = Buf(DownBase + dRecv, s, r - s)
                /\ Switch("remote_recv", {"server_send"})
           \/ /\ clientGot' = clientGot \o Run(DownBase + dRecv, r)
              /\ UNCHANGED conn
           \/ CloseBoth("client_error") /\ UNCHANGED clientGot
  BY DEF RemoteRecvData
<1>6. /\ r \in Nat /\ dRecv \in Nat /\ Len(clientGot) \in Nat /\ DownBase \in Nat
  BY TypeFacts, Lengths
<1>10. dRecv' = dRecv + r
  BY <1>5
<1>7. ASSUME NEW s \in 0..(r - 1),
             clientGot' = clientGot \o Run(DownBase + dRecv, s),
             sbuf' = Buf(DownBase + dRecv, s, r - s),
             Switch("remote_recv", {"server_send"})
      PROVE  DownOrder'
  <2>1. s \in Nat
    BY <1>6
  <2>2. clientGot' = Run(DownBase, Len(clientGot')) /\ Len(clientGot') = Len(clientGot) + s
         /\ Len(clientGot') \in Nat
    BY <1>4, <1>7, <2>1, DownGrows
  <2>0. /\ sbuf'.base = DownBase + dRecv /\ sbuf'.idx = s
        /\ sbuf'.len = r - s
    BY <1>7 DEF Buf
  <2>3. /\ sbuf'.base + sbuf'.idx = DownBase + Len(clientGot')
        /\ DownBase + Len(clientGot') + sbuf'.len = DownBase + dRecv'
    <3> DEFINE b == sbuf'.base
               i == sbuf'.idx
               l == sbuf'.len
               g == Len(clientGot')
    <3>0. Len(clientGot) = dRecv
      BY <1>4, <1>6
    <3>1. b = DownBase + dRecv /\ i = s /\ l = r - s /\ g = dRecv + s
      BY <2>0, <2>2, <3>0
    <3> HIDE DEF b, i, l, g
    <3>2. b + i = DownBase + g /\ DownBase + g + l = DownBase + (dRecv + r)
      BY <1>6, <2>1, <3>1
    <3> QED
      BY <1>10, <3>2 DEF b, i, l, g
  <2>4. "server_send" \in watch' /\ stage' = "STREAM"
    BY <1>1, <1>2, <1>7 DEF Switch
  <2> QED
    BY <2>2, <2>3, <2>4 DEF DownOrder
<1>8. ASSUME clientGot' = clientGot \o Run(DownBase + dRecv, r), UNCHANGED conn
      PROVE  DownOrder'
  <2>1. clientGot' = Run(DownBase, Len(clientGot')) /\ Len(clientGot') = Len(clientGot) + r
         /\ Len(clientGot') \in Nat
    BY <1>4, <1>6, <1>8, DownGrows
  <2>2. DownBase + Len(clientGot') = DownBase + dRecv'
    BY <1>4, <1>6, <1>10, <2>1
  <2>3. "server_send" \notin watch' /\ stage' = "STREAM"
    BY <1>1, <1>2, <1>3, <1>8 DEF conn
  <2> QED
    BY <2>1, <2>2, <2>3 DEF DownOrder
<1>9. CloseBoth("client_error") /\ UNCHANGED clientGot => DownOrder'
  BY Closing, DownClosed
<1> QED
  BY <1>5, <1>7, <1>8, <1>9

LEMMA ServerSendCbDown == IInv /\ DownOrder /\ ServerSendCb => DownOrder'
<1> SUFFICES ASSUME IInv, DownOrder, ServerSendCb PROVE DownOrder'
  OBVIOUS
<1>1. live /\ "server_send" \in watch /\ UNCHANGED <<dRecv, stage>>
  BY DEF ServerSendCb, ServerSendError, ServerSendPart, ServerSendAll, Answering, down
<1>2. stage = "STREAM"
  BY <1>1 DEF IInv, TypeOK, Stages, FlowControl
<1>3. /\ sbuf.base + sbuf.idx = DownBase + Len(clientGot)
      /\ DownBase + Len(clientGot) + sbuf.len = DownBase + dRecv
  BY <1>1 DEF DownOrder
<1>4. /\ sbuf \in Buffer /\ sbuf.len \in Nat /\ Len(clientGot) \in Nat
      /\ sbuf.base \in Nat /\ sbuf.idx \in Nat /\ DownBase \in Nat /\ dRecv \in Nat
  BY TypeFacts, Lengths DEF IInv, TypeOK
<1>5. CASE ServerSendError
  BY <1>5, Closing, DownClosed DEF ServerSendError, down
<1>6. CASE ServerSendPart
  <2>1. PICK s \in 1..(sbuf.len - 1) : /\ clientGot' = clientGot \o Unsent(sbuf, s)
                                       /\ sbuf' = Rest(sbuf, s)
    BY <1>6 DEF ServerSendPart
  <2>2. s \in Nat /\ s \in 0..sbuf.len
    BY <1>4
  <2>3. clientGot' = clientGot \o Run(DownBase + Len(clientGot), s)
    BY <1>3, <2>1 DEF Unsent
  <2>4. clientGot' = Run(DownBase, Len(clientGot')) /\ Len(clientGot') = Len(clientGot) + s
         /\ Len(clientGot') \in Nat
    BY <2>2, <2>3, DownGrows
  <2>5. sbuf'.base = sbuf.base /\ sbuf'.idx = sbuf.idx + s /\ sbuf'.len = sbuf.len - s
    BY <1>4, <2>1, <2>2, RestFields
  <2>6. /\ sbuf'.base + sbuf'.idx = DownBase + Len(clientGot')
        /\ DownBase + Len(clientGot') + sbuf'.len = DownBase + dRecv'
    <3>1. dRecv' = dRecv /\ Len(clientGot') = Len(clientGot) + s
      BY <1>1, <2>4
    <3> DEFINE b == sbuf.base
               i == sbuf.idx
               l == sbuf.len
               g == Len(clientGot)
               e == DownBase + dRecv
    <3>2. /\ b \in Nat /\ i \in Nat /\ l \in Nat /\ g \in Nat /\ e \in Nat
          /\ s \in 0..l /\ b + i = DownBase + g /\ DownBase + g + l = e
          /\ DownBase \in Nat
      BY <1>3, <1>4, <2>2
    <3> HIDE DEF b, i, l, g, e
    <3>3. b + (i + s) = DownBase + (g + s) /\ DownBase + (g + s) + (l - s) = e
      BY <3>2, Advance
    <3> QED
      BY <2>5, <3>1, <3>3 DEF b, i, l, g, e
  <2>7. "server_send" \in watch' /\ stage' = "STREAM"
    BY <1>1, <1>2, <1>6 DEF ServerSendPart, conn
  <2> QED
    BY <2>4, <2>6, <2>7 DEF DownOrder
<1>7. CASE ServerSendAll
  <2>1. clientGot' = clientGot \o Run(DownBase + Len(clientGot), sbuf.len)
    BY <1>3, <1>7 DEF ServerSendAll, Unsent
  <2>2. /\ clientGot' = Run(DownBase, Len(clientGot'))
        /\ Len(clientGot') = Len(clientGot) + sbuf.len
        /\ Len(clientGot') \in Nat
    BY <1>4, <2>1, DownGrows
  <2>3. DownBase + Len(clientGot') = DownBase + dRecv'
    BY <1>1, <1>3, <1>4, <2>2
  <2>4. "server_send" \notin watch' /\ stage' = "STREAM"
    BY <1>1, <1>2, <1>7 DEF ServerSendAll, Switch
  <2> QED
    BY <2>2, <2>3, <2>4 DEF DownOrder
<1> QED
  BY <1>5, <1>6, <1>7 DEF ServerSendCb

LEMMA NextDown == IInv /\ DownOrder /\ [Next]_vars => DownOrder'
<1> SUFFICES ASSUME IInv, DownOrder, [Next]_vars PROVE DownOrder'
  OBVIOUS
<1>1. CASE RemoteRecvEnd
  BY <1>1, Closing, DownClosed DEF RemoteRecvEnd, down
<1>2. CASE TimedOut
  BY <1>2, Closing, DownClosed DEF TimedOut, down
<1>3. CASE UNCHANGED vars
  BY <1>3 DEF vars, conn, down, DownOrder, live
<1> QED
  BY <1>1, <1>2, <1>3, ServerRecvCbDown, ServerResolveCbDown, RemoteSendCbDown,
     RemoteRecvDataDown, ServerSendCbDown
     DEF Next, RemoteRecvCb, RequestTimeout, IdleTimeout

-----------------------------------------------------------------------------
(***************************************************************************)
(* Client to remote.                                                       *)
(***************************************************************************)

\* A step that has nothing to do with the payload behind the header.
LEMMA UpKept ==
  ASSUME UpOrder, UNCHANGED remoteGot,
         live' => /\ live /\ UNCHANGED remote
                  /\ remote = "none" => stage' # "RESOLVE"
                  /\ remote # "none" =>
                       /\ UNCHANGED plain
                       /\ "remote_send" \in watch' <=> "remote_send" \in watch
                       /\ "remote_send" \in watch => UNCHANGED rbuf
  PROVE  UpOrder'
<1>1. CASE ~live'
  BY <1>1 DEF UpOrder
<1>2. CASE live' /\ remote = "none"
  BY <1>2 DEF UpOrder
<1>3. CASE live' /\ remote # "none"
  BY <1>3 DEF UpOrder
<1> QED
  BY <1>1, <1>2, <1>3

LEMMA UpClosed ==
  ASSUME UpOrder, ~live', UNCHANGED remoteGot
  PROVE  UpOrder'
BY DEF UpOrder

\* What the remote's socket has got after m more bytes.
LEMMA UpGrows ==
  ASSUME IInv, UpOrder, NEW m \in Nat,
         remoteGot' = remoteGot \o Run(HdrLen + Len(remoteGot), m)
  PROVE  /\ remoteGot' = Run(HdrLen, Len(remoteGot'))
         /\ Len(remoteGot') = Len(remoteGot) + m
         /\ Len(remoteGot') \in Nat
<1> DEFINE a == HdrLen
           q == remoteGot
           t == q \o Run(a + Len(q), m)
<1>1. q \in Seq(Nat) /\ q = Run(a, Len(q)) /\ Len(q) \in Nat
  BY TypeFacts DEF UpOrder
<1>2. a \in Nat
  BY Lengths
<1>3. remoteGot' = t
  OBVIOUS
<1> HIDE DEF a, q
<1>4. t = Run(a, Len(q) + m) /\ Len(t) = Len(q) + m
  BY <1>1, <1>2, RunGrows
<1>5. Len(q) + m \in Nat
  BY <1>1
<1> QED
  BY <1>3, <1>4, <1>5 DEF a, q

\* The payload of the first connection with the remote: s bytes of it went
\* with the connect.
LEMMA AdoptUp ==
  ASSUME IInv, UpOrder, live, remote = "none",
         NEW b \in Nat, NEW i \in Nat, NEW l \in Nat, NEW s \in 0..l,
         b + i = HdrLen, plain' = HdrLen + l,
         AdoptRemote(Buf(b, i, l), s, HdrLen + s),
         "remote_send" \in watch'
  PROVE  UpOrder'
<1>1. remoteGot = <<>> /\ Len(remoteGot) = 0
  BY DEF UpOrder
<1>2. HdrLen \in Nat /\ s \in Nat /\ HdrLen + Len(remoteGot) = HdrLen
  BY <1>1, Lengths
<1>3. remoteGot' = remoteGot \o Run(HdrLen, s) /\ remote' = "connecting"
  BY DEF AdoptRemote, Unsent, Buf
<1>4. remoteGot' = Run(HdrLen, Len(remoteGot')) /\ Len(remoteGot') = s
  BY <1>1, <1>2, <1>3, UpGrows
<1>5. CASE l > s
  <2>1. rbuf' = Buf(HdrLen + s, 0, l - s)
    BY <1>5 DEF AdoptRemote, Buf
  <2>2. rbuf'.base = HdrLen + s /\ rbuf'.idx = 0 /\ rbuf'.len = l - s
    BY <2>1 DEF Buf
  <2>3. /\ rbuf'.len > 0 /\ rbuf'.base + rbuf'.idx = HdrLen + Len(remoteGot')
        /\ HdrLen + Len(remoteGot') + rbuf'.len = plain'
    BY <1>2, <1>4, <1>5, <2>2
  <2> QED
    BY <1>3, <1>4, <2>3 DEF UpOrder
<1>6. CASE ~(l > s)
  <2>1. rbuf'.len = 0
    BY <1>6 DEF AdoptRemote, Buf
  <2>2. HdrLen + Len(remoteGot') = plain'
    BY <1>2, <1>4, <1>6
  <2> QED
    BY <1>3, <1>4, <2>1, <2>2 DEF UpOrder
<1> QED
  BY <1>5, <1>6

LEMMA ParseHeaderUp ==
  ASSUME NoEarlyData, IInv, UpOrder, live, stage \in {"INIT", "HANDSHAKE"},
         remote = "none", NEW len \in Nat, ParseHeader(len)
  PROVE  UpOrder'
<1>1. CASE CloseServer("malformed") \/ CloseServer("rejected")
  <2>1. ~live'
    BY <1>1 DEF CloseServer, live
  <2>2. CASE UNCHANGED remoteGot
    BY <2>1, <2>2, UpClosed
  <2>3. UNCHANGED remoteGot \/ live'
    BY DEF ParseHeader, ConnectDirectly, Resolve, AdoptRemote, CloseServer, Keep, live
  <2> QED
    BY <2>1, <2>2, <2>3
<1>2. ASSUME NEW kept \in 0..(len - HdrLen), plain' = HdrLen + kept,
             sess.atyp = "ip", ConnectDirectly(Buf(HdrLen, 0, kept))
      PROVE  UpOrder'
  <2>1. kept \in Nat /\ HdrLen \in Nat /\ Buf(HdrLen, 0, kept).len = kept
        /\ Buf(HdrLen, 0, kept).base = HdrLen
    BY Lengths DEF Buf
  <2>2. ~sess.fastopen
    BY <1>2 DEF NoEarlyData, IInv, TypeOK
  <2>3. PICK sent \in ConnectToRemote(kept) :
          IF sent = NoRemote
            THEN CloseServer("unreachable") /\ UNCHANGED remoteGot
            ELSE /\ AdoptRemote(Buf(HdrLen, 0, kept), sent, HdrLen)
                 /\ Switch("server_recv", {"remote_send"})
    BY <1>2, <2>1 DEF ConnectDirectly
  <2>4. CASE sent = NoRemote
    BY <2>3, <2>4, UpClosed DEF CloseServer, live
  <2>5. CASE sent # NoRemote
    <3>1. sent = 0 /\ 0 \in 0..kept /\ HdrLen + 0 = HdrLen
      BY <2>1, <2>2, <2>5, ConnectFacts
    <3>2. AdoptRemote(Buf(HdrLen, 0, kept), 0, HdrLen + 0)
      BY <2>3, <2>5, <3>1
    <3>3. "remote_send" \in watch'
      BY <2>3, <2>5 DEF Switch
    <3> QED
      BY <1>2, <2>1, <3>1, <3>2, <3>3, AdoptUp
  <2> QED
    BY <2>4, <2>5
<1>3. ASSUME NEW kept \in 0..(len - HdrLen), plain' = HdrLen + kept,
             Resolve(Buf(HdrLen, 0, kept))
      PROVE  UpOrder'
  <2>1. remoteGot' = <<>> /\ remote' = "none" /\ Len(remoteGot') = 0
    BY <1>3 DEF Resolve, UpOrder
  <2>2. sbuf'.base = HdrLen /\ sbuf'.idx = 0 /\ sbuf'.len = kept
    BY <1>3 DEF Resolve, Buf
  <2>3. HdrLen \in Nat /\ kept \in Nat
    BY Lengths
  <2>4. /\ sbuf'.base + sbuf'.idx = HdrLen + Len(remoteGot')
        /\ HdrLen + Len(remoteGot') + sbuf'.len = plain'
    BY <1>3, <2>1, <2>2, <2>3
  <2>5. remoteGot' = Run(HdrLen, Len(remoteGot'))
    BY <2>1, <2>3, RunEmpty
  <2> QED
    BY <2>1, <2>4, <2>5 DEF UpOrder
<1> QED
  BY <1>1, <1>2, <1>3 DEF ParseHeader

LEMMA HeaderUp ==
  NoEarlyData /\ IInv /\ UpOrder /\ (ServerRecvInit \/ ServerRecvHandshake) => UpOrder'
<1> SUFFICES ASSUME NoEarlyData, IInv, UpOrder, ServerRecvInit \/ ServerRecvHandshake
             PROVE  UpOrder'
  OBVIOUS
<1>1. live /\ stage \in {"INIT", "HANDSHAKE"}
  BY DEF ServerRecvInit, ServerRecvHandshake, Decoding, Arrived, Reading
<1>2. remote = "none"
  BY <1>1 DEF IInv, FlowControl
<1>3. PICK r \in 1..BufSize :
        /\ Decoding(r)
        /\ \E n \in Decoded(cRecv + r) :
             \/ ParseHeader(n) \/ ParseHeader(hlen + n)
             \/ UNCHANGED <<conn, remoteGot>> /\ stage' \in {"ERROR", "HANDSHAKE"}
  BY DEF ServerRecvInit, ServerRecvHandshake
<1>4. PICK n \in Decoded(cRecv + r) :
        \/ ParseHeader(n) \/ ParseHeader(hlen + n)
        \/ UNCHANGED <<conn, remoteGot>> /\ stage' \in {"ERROR", "HANDSHAKE"}
  BY <1>3
<1>5. n \in Nat /\ hlen \in Nat /\ hlen + n \in Nat
  <2>1. n \in Nat
    BY <1>3, DecodingFacts
  <2>2. hlen \in Nat
    BY TypeFacts
  <2> QED
    BY <2>1, <2>2
<1>6. CASE UNCHANGED <<conn, remoteGot>> /\ stage' \in {"ERROR", "HANDSHAKE"}
  BY <1>1, <1>2, <1>6, UpKept DEF conn
<1> QED
  BY <1>1, <1>2, <1>4, <1>5, <1>6, ParseHeaderUp

LEMMA ServerRecvStreamUp == IInv /\ UpOrder /\ ServerRecvStream => UpOrder'
<1> SUFFICES ASSUME IInv, UpOrder, ServerRecvStream PROVE UpOrder'
  OBVIOUS
<1>1. live /\ stage = "STREAM" /\ "server_recv" \in watch /\ stage' = "STREAM"
  BY DEF ServerRecvStream, Decoding, Arrived, Reading
<1>2. remote = "connected" /\ "remote_send" \notin watch
  BY <1>1, StreamFacts
<1>3. HdrLen + Len(remoteGot) = plain
  BY <1>1, <1>2 DEF UpOrder
<1>0. PICK r \in 1..BufSize :
        /\ Decoding(r)
        /\ \E n \in Decoded(cRecv + r) \ {0} :
             /\ plain' = plain + n
             /\ \/ \E s \in 0..(n - 1) :
                     /\ remoteGot' = remoteGot \o Run(plain, s)
                     /\ rbuf' = Buf(plain, s, n - s)
                     /\ Switch("server_recv", {"remote_send"})
                     /\ UNCHANGED remote
                \/ remoteGot' = remoteGot \o Run(plain, n) /\ UNCHANGED conn
                \/ CloseBoth("remote_error") /\ UNCHANGED remoteGot
  BY DEF ServerRecvStream
<1>4. PICK n \in Decoded(cRecv + r) \ {0} :
        /\ plain' = plain + n
        /\ \/ \E s \in 0..(n - 1) :
                /\ remoteGot' = remoteGot \o Run(plain, s)
                /\ rbuf' = Buf(plain, s, n - s)
                /\ Switch("server_recv", {"remote_send"})
                /\ UNCHANGED remote
           \/ remoteGot' = remoteGot \o Run(plain, n) /\ UNCHANGED conn
           \/ CloseBoth("remote_error") /\ UNCHANGED remoteGot
  BY <1>0
<1>5. n \in Nat
  BY <1>0, <1>4, DecodingFacts
<1>6. plain \in Nat /\ HdrLen \in Nat /\ Len(remoteGot) \in Nat
  BY TypeFacts, Lengths
<1>7. plain' = plain + n
  BY <1>4
<1>8. ASSUME NEW s \in 0..(n - 1),
             remoteGot' = remoteGot \o Run(plain, s),
             rbuf' = Buf(plain, s, n - s),
             Switch("server_recv", {"remote_send"}), UNCHANGED remote
      PROVE  UpOrder'
  <2>1. s \in Nat /\ n - s > 0
    BY <1>5
  <2>2. remoteGot' = Run(HdrLen, Len(remoteGot')) /\ Len(remoteGot') = Len(remoteGot) + s
         /\ Len(remoteGot') \in Nat
    BY <1>3, <1>8, <2>1, UpGrows
  <2>3. rbuf'.base = plain /\ rbuf'.idx = s /\ rbuf'.len = n - s
    BY <1>8 DEF Buf
  <2>4. /\ rbuf'.base + rbuf'.idx = HdrLen + Len(remoteGot')
        /\ HdrLen + Len(remoteGot') + rbuf'.len = plain' /\ rbuf'.len > 0
    <3> DEFINE b == rbuf'.base
               i == rbuf'.idx
               l == rbuf'.len
               g == Len(remoteGot)
               h == Len(remoteGot')
    <3>1. b = plain /\ i = s /\ l = n - s /\ h = g + s /\ plain = HdrLen + g /\ g \in Nat
      BY <1>3, <1>6, <2>2, <2>3
    <3> HIDE DEF b, i, l, g, h
    <3>2. b + i = HdrLen + h /\ HdrLen + h + l = plain + n /\ l > 0
      BY <1>5, <1>6, <2>1, <3>1
    <3> QED
      BY <1>7, <3>2 DEF b, i, l, h
  <2>5. "remote_send" \in watch' /\ remote' = "connected"
    BY <1>2, <1>8 DEF Switch
  <2> QED
    BY <2>2, <2>4, <2>5 DEF UpOrder
<1>9. ASSUME remoteGot' = remoteGot \o Run(plain, n), UNCHANGED conn
      PROVE  UpOrder'
  <2>1. remoteGot' = Run(HdrLen, Len(remoteGot')) /\ Len(remoteGot') = Len(remoteGot) + n
         /\ Len(remoteGot') \in Nat
    BY <1>3, <1>5, <1>9, UpGrows
  <2>2. HdrLen + Len(remoteGot') = plain'
    BY <1>3, <1>5, <1>6, <1>7, <2>1
  <2>3. "remote_send" \notin watch' /\ remote' = "connected"
    BY <1>2, <1>9 DEF conn
  <2> QED
    BY <2>1, <2>2, <2>3 DEF UpOrder
<1>10. CloseBoth("remote_error") /\ UNCHANGED remoteGot => UpOrder'
  BY Closing, UpClosed
<1> QED
  BY <1>4, <1>8, <1>9, <1>10

LEMMA ServerRecvCbUp == NoEarlyData /\ IInv /\ UpOrder /\ ServerRecvCb => UpOrder'
<1> SUFFICES ASSUME NoEarlyData, IInv, UpOrder, ServerRecvCb PROVE UpOrder'
  OBVIOUS
<1>1. CASE ServerRecvEnd \/ ServerRecvReject
  <2>1. (\E why : CloseBoth(why)) /\ UNCHANGED remoteGot
    BY <1>1 DEF ServerRecvEnd, ServerRecvReject, up
  <2> QED
    BY <2>1, Closing, UpClosed
<1>2. CASE ServerRecvDiscard \/ ServerRecvWait \/ ServerRecvObfs \/ ServerRecvHold
  <2>1. live /\ "server_recv" \in watch /\ UNCHANGED <<remoteGot, plain, stage>>
    BY <1>2 DEF ServerRecvDiscard, ServerRecvWait, ServerRecvObfs, ServerRecvHold,
                Decoding, Arrived, Reading, up
  <2>2. UNCHANGED conn \/ CloseBoth("rejected")
    BY <1>2 DEF ServerRecvDiscard, ServerRecvWait, ServerRecvObfs, ServerRecvHold
  <2>3. stage # "RESOLVE" /\ "remote_send" \notin watch
    BY <2>1 DEF IInv, TypeOK, Stages, FlowControl
  <2>4. CASE UNCHANGED conn
    BY <2>1, <2>3, <2>4, UpKept DEF conn
  <2>5. CASE CloseBoth("rejected")
    BY <2>1, <2>5, Closing, UpClosed
  <2> QED
    BY <2>2, <2>4, <2>5
<1> QED
  BY <1>1, <1>2, HeaderUp, ServerRecvStreamUp DEF ServerRecvCb

LEMMA ServerResolveCbUp == IInv /\ UpOrder /\ ServerResolveCb => UpOrder'
<1> SUFFICES ASSUME IInv, UpOrder, ServerResolveCb PROVE UpOrder'
  OBVIOUS
<1>1. live /\ stage = "RESOLVE" /\ remote = "none"
  BY DEF IInv, NoOrphan, ServerResolveCb
<1>2. CASE server' = "freed" /\ UNCHANGED remoteGot
  BY <1>2, UpClosed DEF live
<1>3. ASSUME NEW sent \in ConnectToRemote(sbuf.len) \ {NoRemote},
             AdoptRemote(sbuf, sent, sbuf.base + sbuf.idx + sent),
             watch' = watch \cup {"remote_send"}
      PROVE  UpOrder'
  <2> DEFINE b == sbuf.base
             i == sbuf.idx
             l == sbuf.len
  <2>1. b \in Nat /\ i \in Nat /\ l \in Nat /\ HdrLen \in Nat
    BY TypeFacts, Lengths
  <2>2. sent \in 0..l
    BY <1>3, <2>1, ConnectFacts
  <2>3. sbuf = Buf(b, i, l)
    BY DEF IInv, TypeOK, Buffer, Buf
  <2>4. remoteGot = <<>>
    BY <1>1 DEF UpOrder
  <2>5. b + i = HdrLen + Len(remoteGot) /\ HdrLen + Len(remoteGot) + l = plain
    BY <1>1 DEF UpOrder
  <2>6. b + i = HdrLen /\ plain = HdrLen + l
    BY <2>1, <2>4, <2>5
  <2>7. AdoptRemote(Buf(b, i, l), sent, b + i + sent)
    BY <1>3, <2>3
  <2>8. "remote_send" \in watch' /\ plain' = plain
    BY <1>3 DEF ServerResolveCb
  <2> HIDE DEF b, i, l
  <2>9. AdoptRemote(Buf(b, i, l), sent, HdrLen + sent) /\ plain' = HdrLen + l
    BY <2>6, <2>7, <2>8
  <2> QED
    BY <1>1, <2>1, <2>2, <2>6, <2>8, <2>9, AdoptUp
<1> QED
  BY <1>2, <1>3 DEF ServerResolveCb

LEMMA RemoteSendCbUp == IInv /\ UpOrder /\ RemoteSendCb => UpOrder'
<1> SUFFICES ASSUME IInv, UpOrder, RemoteSendCb PROVE UpOrder'
  OBVIOUS
<1>1. live /\ "remote_send" \in watch /\ UNCHANGED plain
  BY DEF RemoteSendCb, RemoteSendError, RemoteSendNothing, RemoteSendPart, RemoteSendAll,
         Writing, up
<1>2. remote # "none"
  BY <1>1 DEF IInv, TypeOK, Stages, FlowControl
<1>3. /\ rbuf \in Buffer /\ rbuf.base \in Nat /\ rbuf.idx \in Nat /\ rbuf.len \in Nat
      /\ Len(remoteGot) \in Nat /\ plain \in Nat /\ HdrLen \in Nat
  BY TypeFacts, Lengths DEF IInv, TypeOK
<1>4. IF rbuf.len > 0
        THEN /\ rbuf.base + rbuf.idx = HdrLen + Len(remoteGot)
             /\ HdrLen + Len(remoteGot) + rbuf.len = plain
        ELSE HdrLen + Len(remoteGot) = plain
  BY <1>1, <1>2 DEF UpOrder
<1>5. CASE RemoteSendError
  BY <1>5, Closing, UpClosed DEF RemoteSendError, up
<1>6. CASE RemoteSendNothing
  <2>1. /\ rbuf.len = 0 /\ UNCHANGED <<remoteGot, rbuf>> /\ "remote_send" \notin watch'
        /\ remote' = "connected"
    BY <1>6 DEF RemoteSendNothing, StartStream, Switch, Connected, up
  <2>2. HdrLen + Len(remoteGot') = plain'
    BY <1>1, <1>4, <2>1
  <2>3. remoteGot' = Run(HdrLen, Len(remoteGot'))
    BY <2>1 DEF UpOrder
  <2> QED
    BY <2>1, <2>2, <2>3 DEF UpOrder
<1>7. CASE RemoteSendPart
  <2>1. PICK s \in 0..(rbuf.len - 1) : /\ remoteGot' = remoteGot \o Unsent(rbuf, s)
                                       /\ rbuf' = Rest(rbuf, s)
    BY <1>7 DEF RemoteSendPart
  <2>2. s \in Nat /\ s \in 0..rbuf.len /\ rbuf.len > 0 /\ rbuf.len - s > 0
    BY <1>3
  <2>3. remoteGot' = remoteGot \o Run(HdrLen + Len(remoteGot), s)
    BY <1>4, <2>1, <2>2 DEF Unsent
  <2>4. /\ remoteGot' = Run(HdrLen, Len(remoteGot'))
        /\ Len(remoteGot') = Len(remoteGot) + s /\ Len(remoteGot') \in Nat
    BY <2>2, <2>3, UpGrows
  <2>5. rbuf'.base = rbuf.base /\ rbuf'.idx = rbuf.idx + s /\ rbuf'.len = rbuf.len - s
    BY <1>3, <2>1, <2>2, RestFields
  <2> DEFINE b == rbuf.base
             i == rbuf.idx
             l == rbuf.len
             g == Len(remoteGot)
  <2>6. /\ b \in Nat /\ i \in Nat /\ l \in Nat /\ g \in Nat /\ s \in 0..l
        /\ b + i = HdrLen + g /\ HdrLen + g + l = plain
    BY <1>3, <1>4, <2>2
  <2> HIDE DEF b, i, l, g
  <2>7. b + (i + s) = HdrLen + (g + s) /\ HdrLen + (g + s) + (l - s) = plain
    BY <1>3, <2>6, Advance
  <2>8. /\ rbuf'.base + rbuf'.idx = HdrLen + Len(remoteGot')
        /\ HdrLen + Len(remoteGot') + rbuf'.len = plain' /\ rbuf'.len > 0
    BY <1>1, <2>2, <2>4, <2>5, <2>7 DEF b, i, l, g
  <2>9. "remote_send" \in watch' /\ remote' = "connected"
    BY <1>1, <1>7 DEF RemoteSendPart, Connected
  <2> QED
    BY <2>4, <2>8, <2>9 DEF UpOrder
<1>8. CASE RemoteSendAll
  <2>1. /\ rbuf.len > 0 /\ "remote_send" \notin watch' /\ remote' = "connected"
        /\ remoteGot' = remoteGot \o Unsent(rbuf, rbuf.len)
    BY <1>8 DEF RemoteSendAll, StartStream, Switch, Connected
  <2>2. remoteGot' = remoteGot \o Run(HdrLen + Len(remoteGot), rbuf.len)
    BY <1>4, <2>1 DEF Unsent
  <2>3. /\ remoteGot' = Run(HdrLen, Len(remoteGot'))
        /\ Len(remoteGot') = Len(remoteGot) + rbuf.len /\ Len(remoteGot') \in Nat
    BY <1>3, <2>2, UpGrows
  <2>4. HdrLen + Len(remoteGot') = plain'
    BY <1>1, <1>3, <1>4, <2>1, <2>3
  <2> QED
    BY <2>1, <2>3, <2>4 DEF UpOrder
<1> QED
  BY <1>5, <1>6, <1>7, <1>8 DEF RemoteSendCb

\* The answer's way has nothing to do with the payload's.
LEMMA AnswerUp == IInv /\ UpOrder /\ (RemoteRecvCb \/ ServerSendCb) => UpOrder'
<1> SUFFICES ASSUME IInv, UpOrder, RemoteRecvCb \/ ServerSendCb PROVE UpOrder'
  OBVIOUS
<1>1. live /\ watch \cap {"remote_recv", "server_send"} # {}
  BY DEF RemoteRecvCb, RemoteRecvEnd, RemoteRecvData, ServerSendCb, ServerSendError,
         ServerSendPart, ServerSendAll, RemoteReading, Answering
<1>2. remote # "none"
  BY <1>1 DEF IInv, TypeOK, Stages, FlowControl
<1>3. UNCHANGED <<remoteGot, plain, rbuf>>
  BY DEF RemoteRecvCb, RemoteRecvEnd, RemoteRecvData, ServerSendCb, ServerSendError,
         ServerSendPart, ServerSendAll, up
<1>4. \/ \E why : CloseBoth(why)
      \/ /\ UNCHANGED remote
         /\ "remote_send" \in watch' <=> "remote_send" \in watch
  BY DEF RemoteRecvCb, RemoteRecvEnd, RemoteRecvData, ServerSendCb, ServerSendError,
         ServerSendPart, ServerSendAll, Switch, conn
<1> QED
  BY <1>1, <1>2, <1>3, <1>4, Closing, UpKept, UpClosed

LEMMA NextUp == NoEarlyData /\ IInv /\ UpOrder /\ [Next]_vars => UpOrder'
<1> SUFFICES ASSUME NoEarlyData, IInv, UpOrder, [Next]_vars PROVE UpOrder'
  OBVIOUS
<1>1. CASE TimedOut
  BY <1>1, Closing, UpClosed DEF TimedOut, up
<1>2. CASE UNCHANGED vars
  BY <1>2 DEF vars, conn, up, UpOrder, live
<1> QED
  BY <1>1, <1>2, ServerRecvCbUp, ServerResolveCbUp, RemoteSendCbUp, AnswerUp
     DEF Next, RequestTimeout, IdleTimeout

LEMMA InitAccounted == Init => UpOrder /\ DownOrder
<1> SUFFICES ASSUME Init PROVE UpOrder /\ DownOrder
  OBVIOUS
<1>1. /\ remoteGot = <<>> /\ clientGot = <<>> /\ dRecv = 0 /\ remote = "none"
      /\ stage = "INIT" /\ watch = {"server_recv"}
  BY DEF Init
<1>2. HdrLen \in Nat /\ DownBase \in Nat
  BY Lengths
<1>3. Len(remoteGot) = 0 /\ Len(clientGot) = 0
  BY <1>1
<1>4. remoteGot = Run(HdrLen, Len(remoteGot)) /\ clientGot = Run(DownBase, Len(clientGot))
  BY <1>1, <1>2, <1>3, RunEmpty
<1>5. DownBase + Len(clientGot) = DownBase + dRecv
  BY <1>1, <1>2, <1>3
<1> QED
  BY <1>1, <1>4, <1>5 DEF UpOrder, DownOrder

LEMMA SpecAccounted == ASSUME NoEarlyData PROVE Spec => []Accounted
<1>1. Init => UpOrder /\ DownOrder
  BY InitAccounted
<1>2. IInv /\ UpOrder /\ DownOrder /\ [Next]_vars => UpOrder' /\ DownOrder'
  BY NextUp, NextDown
<1>3. IInv /\ UpOrder /\ DownOrder => Accounted
  BY DEF Accounted
<1> QED
  BY <1>1, <1>2, <1>3, SpecIInv, PTL DEF Spec

(***************************************************************************)
(* Every byte between the two sockets is accounted for in every state of   *)
(* server.c's relay: what the sockets have got are runs from the first     *)
(* byte on, and the buffers hold exactly what follows.                     *)
(***************************************************************************)
THEOREM BytesAccounted ==
  ASSUME NoEarlyData
  PROVE  Spec => []Accounting
<1>1. Accounted => Accounting
  BY DEF Accounted, Accounting, IInv
<1> QED
  BY <1>1, SpecAccounted, PTL

-----------------------------------------------------------------------------
(***************************************************************************)
(* The refinement of BytePipe, remote to client.                           *)
(***************************************************************************)

\* A step that hands the next bytes to the client's socket, or none.
GivesClient == \/ UNCHANGED clientGot
               \/ live' /\ \E a, m \in Nat : clientGot' = clientGot \o Run(a, m)

LEMMA NextDownGrows ==
  ASSUME IInv, Next
  PROVE  live /\ dRecv' \in Nat /\ dRecv' >= dRecv /\ GivesClient
<1>1. dRecv \in Nat /\ DownBase \in Nat /\ sbuf.base \in Nat /\ sbuf.idx \in Nat
      /\ sbuf.len \in Nat /\ DownLen \in Nat /\ BufSize \in Nat
  BY TypeFacts, Lengths
<1>2. CASE UNCHANGED down /\ live
  BY <1>1, <1>2 DEF down, GivesClient
<1>3. CASE ServerRecvCb
  <2>1. UNCHANGED down /\ live
    BY <1>3 DEF ServerRecvCb, ServerRecvEnd, ServerRecvDiscard, ServerRecvWait,
         ServerRecvObfs, ServerRecvReject, ServerRecvHold, ServerRecvInit,
         ServerRecvHandshake, ServerRecvStream, Decoding, Arrived, Reading
  <2> QED
    BY <1>2, <2>1
<1>4. CASE ServerResolveCb \/ RemoteSendCb \/ RemoteRecvEnd \/ ServerSendError \/ TimedOut
  <2>1. UNCHANGED down
    BY <1>4 DEF ServerResolveCb, RemoteSendCb, RemoteSendError, RemoteSendNothing,
         RemoteSendPart, RemoteSendAll, RemoteRecvEnd, ServerSendError, TimedOut
  <2>2. live
    BY <1>4 DEF ServerResolveCb, RemoteSendCb, RemoteSendError, RemoteSendNothing,
         RemoteSendPart, RemoteSendAll, RemoteRecvEnd, ServerSendError, TimedOut,
         Writing, RemoteReading, Answering, IInv, NoOrphan
  <2> QED
    BY <1>2, <2>1, <2>2
<1>5. CASE RemoteRecvData
  <2>1. PICK r \in 1..Smaller(BufSize, DownLen - dRecv) :
          /\ dRecv' = dRecv + r
          /\ \/ UNCHANGED clientGot
             \/ server' = server /\ \E s \in 0..r :
                  clientGot' = clientGot \o Run(DownBase + dRecv, s)
    <3>1. PICK r \in 1..Smaller(BufSize, DownLen - dRecv) :
            /\ dRecv' = dRecv + r
            /\ \/ /\ \E s \in 0..(r - 1) :
                       clientGot' = clientGot \o Run(DownBase + dRecv, s)
                  /\ Keep
               \/ clientGot' = clientGot \o Run(DownBase + dRecv, r) /\ UNCHANGED conn
               \/ UNCHANGED clientGot
      BY <1>5 DEF RemoteRecvData
    <3>2. r \in Nat
      OBVIOUS
    <3> QED
      BY <3>1, <3>2 DEF Keep, conn
  <2>2. r \in Nat /\ DownBase + dRecv \in Nat /\ dRecv' = dRecv + r
    BY <1>1, <2>1
  <2>3. GivesClient
    <3>1. CASE UNCHANGED clientGot
      BY <3>1 DEF GivesClient
    <3>2. ASSUME server' = server, NEW s \in 0..r,
                 clientGot' = clientGot \o Run(DownBase + dRecv, s)
          PROVE  GivesClient
      <4>1. s \in Nat /\ live'
        BY <1>5, <2>2, <3>2 DEF live, RemoteRecvData, RemoteReading
      <4> QED
        BY <2>2, <3>2, <4>1 DEF GivesClient
    <3> QED
      BY <2>1, <3>1, <3>2
  <2>4. live
    BY <1>5 DEF RemoteRecvData, RemoteReading
  <2> QED
    BY <1>1, <2>2, <2>3, <2>4
<1>6. CASE ServerSendPart \/ ServerSendAll
  <2>1. live /\ live' /\ UNCHANGED dRecv
    BY <1>6 DEF ServerSendPart, ServerSendAll, Answering, Keep, conn, live
  <2>2. (\E s \in 1..(sbuf.len - 1) : clientGot' = clientGot \o Unsent(sbuf, s))
        \/ clientGot' = clientGot \o Unsent(sbuf, sbuf.len)
    BY <1>6 DEF ServerSendPart, ServerSendAll
  <2>3. ASSUME NEW s \in Nat, clientGot' = clientGot \o Unsent(sbuf, s)
        PROVE  GivesClient
    <3>1. clientGot' = clientGot \o Run(sbuf.base + sbuf.idx, s)
      BY <2>3 DEF Unsent
    <3>2. sbuf.base + sbuf.idx \in Nat
      BY <1>1
    <3> QED
      BY <2>1, <3>1, <3>2 DEF GivesClient
  <2>4. \A s \in 1..(sbuf.len - 1) : s \in Nat
    BY <1>1
  <2>5. GivesClient
    BY <1>1, <2>2, <2>3, <2>4
  <2> QED
    BY <1>1, <2>1, <2>5
<1> QED
  BY <1>3, <1>4, <1>5, <1>6 DEF Next, RemoteRecvCb, ServerSendCb, RequestTimeout, IdleTimeout

\* What was handed to the client was received before.
DownInside == live => Len(clientGot) <= dRecv

LEMMA DownIsInside ==
  ASSUME IInv, DownOrder, live
  PROVE  Len(clientGot) <= dRecv
<1>1. /\ Len(clientGot) \in Nat /\ dRecv \in Nat /\ DownBase \in Nat /\ sbuf.len \in Nat
  BY TypeFacts, Lengths
<1>2. CASE "server_send" \in watch
  <2>1. DownBase + Len(clientGot) + sbuf.len = DownBase + dRecv
    BY <1>2 DEF DownOrder
  <2> QED
    BY <1>1, <2>1
<1>3. CASE "server_send" \notin watch
  <2>1. DownBase + Len(clientGot) = DownBase + dRecv
    BY <1>3 DEF DownOrder
  <2> QED
    BY <1>1, <2>1
<1> QED
  BY <1>2, <1>3

\* Nobody but the end of the remote's stream is called its end.
LEMMA RemoteEof ==
  ASSUME IInv, Next, ~live', reason' = "remote_eof"
  PROVE  RemoteRecvEnd
<1>1. ASSUME NEW why \in Reasons \ {"remote_eof"}, CloseBoth(why) \/ CloseServer(why)
      PROVE  FALSE
  BY <1>1 DEF CloseBoth, CloseServer
<1>2. ASSUME live, UNCHANGED server PROVE FALSE
  BY <1>2 DEF live
<1>3. live
  BY NextDownGrows
<1>4. ~(ServerRecvInit \/ ServerRecvHandshake)
  <2>1. SUFFICES ASSUME ServerRecvInit \/ ServerRecvHandshake PROVE FALSE
    OBVIOUS
  <2>2. (\E len : ParseHeader(len)) \/ UNCHANGED conn
    BY <2>1 DEF ServerRecvInit, ServerRecvHandshake
  <2>3. ASSUME NEW len, ParseHeader(len)
        PROVE  \/ \E why \in Reasons \ {"remote_eof"} : CloseServer(why)
               \/ UNCHANGED server
    BY <2>3 DEF ParseHeader, ConnectDirectly, Resolve, Keep, Reasons
  <2> QED
    BY <1>1, <1>2, <1>3, <2>2, <2>3 DEF conn
<1>5. ~ServerResolveCb
  BY <1>2, <1>3 DEF ServerResolveCb
<1>6. ~(ServerRecvEnd \/ ServerRecvDiscard \/ ServerRecvWait \/ ServerRecvObfs
        \/ ServerRecvReject \/ ServerRecvHold \/ ServerRecvStream)
  BY <1>1, <1>2, <1>3 DEF ServerRecvEnd, ServerRecvDiscard, ServerRecvWait, ServerRecvObfs,
       ServerRecvReject, ServerRecvHold, ServerRecvStream, Keep, conn, Reasons
<1>7. ~RemoteSendCb
  BY <1>1, <1>2, <1>3 DEF RemoteSendCb, RemoteSendError, RemoteSendNothing, RemoteSendPart,
       RemoteSendAll, StartStream, Keep, Reasons
<1>8. ~(RemoteRecvData \/ ServerSendCb \/ TimedOut)
  BY <1>1, <1>2, <1>3 DEF RemoteRecvData, ServerSendCb, ServerSendError, ServerSendPart,
       ServerSendAll, TimedOut, Keep, conn, Reasons
<1> QED
  BY <1>4, <1>5, <1>6, <1>7, <1>8 DEF Next, ServerRecvCb, RemoteRecvCb,
     RequestTimeout, IdleTimeout

LEMMA DownPipeStep ==
  ASSUME IInv, DownOrder, DownInside, IInv', DownOrder', DownInside', Next
  PROVE  DownPipe!PipeNext
<1>1. live /\ dRecv' \in Nat /\ dRecv' >= dRecv /\ GivesClient
  BY NextDownGrows
<1>2. Len(clientGot) <= dRecv /\ Len(clientGot) \in Nat /\ dRecv \in Nat
  BY <1>1, TypeFacts DEF DownInside
<1>3. Status("remote_eof") = "open"
  BY <1>1 DEF Status
<1>4. CASE ~live' /\ reason' = "remote_eof"
  <2>1. RemoteRecvEnd
    BY <1>4, RemoteEof
  <2>2. UNCHANGED <<dRecv, clientGot>> /\ "remote_recv" \in watch
    BY <2>1 DEF RemoteRecvEnd, RemoteReading, down
  <2>3. stage = "STREAM"
    BY <1>1, <2>2 DEF IInv, TypeOK, Stages, FlowControl
  <2>4. "server_send" \notin watch
    BY <1>1, <2>2, <2>3, StreamFacts
  <2>5. DownBase + Len(clientGot) = DownBase + dRecv
    BY <1>1, <2>4 DEF DownOrder
  <2>6. Len(clientGot) = dRecv
    BY <1>2, <2>5, Lengths
  <2>7. Status("remote_eof")' = "finished"
    BY <1>4 DEF Status
  <2> QED
    BY <1>3, <2>2, <2>6, <2>7 DEF DownPipe!PipeNext, DownPipe!Finish
<1>5. CASE ~(~live' /\ reason' = "remote_eof")
  <2>1. Status("remote_eof")' \in {"open", "aborted"}
    BY <1>5 DEF Status
  <2>2. dRecv' \in dRecv..DownLen
    BY <1>1, <1>2, Lengths DEF IInv, TypeOK
  <2>3. clientGot' = Run(DownBase, Len(clientGot'))
    BY DEF DownOrder
  <2>4. Len(clientGot') \in Nat /\ Len(clientGot') >= Len(clientGot)
    <3>1. CASE UNCHANGED clientGot
      BY <1>2, <3>1
    <3>2. ASSUME NEW a \in Nat, NEW m \in Nat, clientGot' = clientGot \o Run(a, m)
          PROVE  Len(clientGot') \in Nat /\ Len(clientGot') >= Len(clientGot)
      <4>1. clientGot \in Seq(Nat)
        BY TypeFacts
      <4>2. Len(clientGot') = Len(clientGot) + m
        BY <3>2, <4>1, AppendRun
      <4> QED
        BY <1>2, <4>2
    <3> QED
      BY <1>1, <3>1, <3>2 DEF GivesClient
  <2>5. Len(clientGot') <= dRecv'
    <3>1. CASE live'
      BY <3>1 DEF DownInside
    <3>2. CASE UNCHANGED clientGot
      BY <1>1, <1>2, <3>2
    <3> QED
      BY <1>1, <3>1, <3>2 DEF GivesClient
  <2>6. Len(clientGot') \in Len(clientGot)..dRecv'
    <3> DEFINE g == Len(clientGot)
               h == Len(clientGot')
    <3>1. g \in Nat /\ h \in Nat /\ h >= g /\ h <= dRecv' /\ dRecv' \in Int
      BY <1>1, <1>2, <2>2, <2>4, <2>5
    <3> HIDE DEF g, h
    <3>2. h \in g..dRecv'
      BY <3>1
    <3> QED
      BY <3>2 DEF g, h
  <2>7. DownPipe!Relay
    BY <1>3, <2>1, <2>2, <2>3, <2>6 DEF DownPipe!Relay, DownPipe!Run, Run
  <2> QED
    BY <2>7 DEF DownPipe!PipeNext
<1> QED
  BY <1>4, <1>5

(***************************************************************************)
(* The answer of the remote reaches the client without loss, repetition or *)
(* change of order through server->buf, and when the remote's stream ends  *)
(* nothing of it is left behind (remote_recv_cb and server_send_cb).       *)
(***************************************************************************)
THEOREM DownImplementsPipe == Spec => DownIsPipe
<1>1. Init => DownOrder /\ DownPipe!PipeInit
  BY InitAccounted DEF Init, DownPipe!PipeInit, Status, live
<1>2. IInv /\ DownOrder => DownInside
  BY DownIsInside DEF DownInside
<1>3. IInv /\ DownOrder /\ [Next]_vars => DownOrder'
  BY NextDown
<1>4. /\ IInv /\ DownOrder /\ DownInside
      /\ IInv' /\ DownOrder' /\ DownInside'
      /\ [Next]_vars
      => [DownPipe!PipeNext]_(DownPipe!pipeVars)
  <2>1. UNCHANGED vars => UNCHANGED DownPipe!pipeVars
    BY DEF vars, conn, down, DownPipe!pipeVars, Status, live
  <2> QED
    BY <2>1, DownPipeStep
<1> QED
  BY <1>1, <1>2, <1>3, <1>4, SpecIInv, PTL DEF Spec, DownIsPipe, DownPipe!PipeSpec

-----------------------------------------------------------------------------
(***************************************************************************)
(* The refinement of BytePipe, client to remote.                           *)
(***************************************************************************)
Behind == {"PARSE", "RESOLVE", "STREAM"}

\* A step that hands the next bytes to the remote's socket, or none.
GivesRemote == \/ UNCHANGED remoteGot
               \/ live' /\ \E a, m \in Nat : remoteGot' = remoteGot \o Run(a, m)

\* The header is parsed once and for all, and from then on payload only comes.
Advances == /\ stage \in Behind => stage' \in Behind /\ plain' >= plain
            /\ stage' \in Behind /\ stage \notin Behind => plain' >= HdrLen

LEMMA ParseHeaderGrows ==
  ASSUME IInv, live, stage \notin Behind, NEW len \in Nat, ParseHeader(len)
  PROVE  Advances /\ GivesRemote
<1>1. CASE UNCHANGED <<stage, remoteGot>>
  BY <1>1 DEF Advances, GivesRemote
<1>2. ASSUME NEW kept \in 0..(len - HdrLen), plain' = HdrLen + kept,
             ConnectDirectly(Buf(HdrLen, 0, kept)) \/ Resolve(Buf(HdrLen, 0, kept))
      PROVE  Advances /\ GivesRemote
  <2>1. HdrLen \in Nat /\ kept \in Nat /\ Buf(HdrLen, 0, kept).len = kept
        /\ Buf(HdrLen, 0, kept).base = HdrLen /\ Buf(HdrLen, 0, kept).idx = 0
    BY Lengths DEF Buf
  <2>2. plain' >= HdrLen
    BY <1>2, <2>1
  <2>3. GivesRemote
    <3>1. CASE UNCHANGED remoteGot
      BY <3>1 DEF GivesRemote
    <3>2. CASE ~UNCHANGED remoteGot
      <4>1. PICK sent \in ConnectToRemote(kept) \ {NoRemote} :
              /\ AdoptRemote(Buf(HdrLen, 0, kept), sent, HdrLen)
              /\ Keep
        BY <1>2, <2>1, <3>2 DEF ConnectDirectly, Resolve
      <4>2. sent \in Nat
        BY <2>1, <4>1, ConnectFacts
      <4>5. Unsent(Buf(HdrLen, 0, kept), sent) = Run(HdrLen, sent)
        <5>1. Buf(HdrLen, 0, kept).base + Buf(HdrLen, 0, kept).idx = HdrLen
          BY <2>1
        <5> QED
          BY <5>1 DEF Unsent
      <4>3. remoteGot' = remoteGot \o Run(HdrLen, sent)
        BY <4>1, <4>5 DEF AdoptRemote
      <4>4. live'
        BY <4>1 DEF Keep, live
      <4> QED
        BY <2>1, <4>2, <4>3, <4>4 DEF GivesRemote
    <3> QED
      BY <3>1, <3>2
  <2> QED
    BY <2>2, <2>3 DEF Advances
<1> QED
  BY <1>1, <1>2 DEF ParseHeader

LEMMA NextUpGrows ==
  ASSUME IInv, Next
  PROVE  Advances /\ GivesRemote
<1>1. plain \in Nat /\ rbuf.base \in Nat /\ rbuf.idx \in Nat /\ rbuf.len \in Nat
      /\ sbuf.base \in Nat /\ sbuf.idx \in Nat /\ sbuf.len \in Nat
  BY TypeFacts
<1>2. CASE UNCHANGED <<stage, plain, remoteGot>>
  BY <1>1, <1>2 DEF Advances, GivesRemote
<1>3. CASE ServerRecvInit \/ ServerRecvHandshake
  <2>1. live /\ stage \notin Behind
    BY <1>3 DEF ServerRecvInit, ServerRecvHandshake, Decoding, Arrived, Reading, Behind
  <2>2. PICK r \in 1..BufSize :
          /\ Decoding(r)
          /\ \E n \in Decoded(cRecv + r) :
               \/ ParseHeader(n) \/ ParseHeader(hlen + n)
               \/ UNCHANGED remoteGot /\ stage' \in {"ERROR", "HANDSHAKE"}
    BY <1>3 DEF ServerRecvInit, ServerRecvHandshake
  <2>3. PICK n \in Decoded(cRecv + r) :
          \/ ParseHeader(n) \/ ParseHeader(hlen + n)
          \/ UNCHANGED remoteGot /\ stage' \in {"ERROR", "HANDSHAKE"}
    BY <2>2
  <2>4. n \in Nat /\ hlen + n \in Nat
    <3>1. Decoding(r)
      BY <2>2
    <3>2. n \in Nat
      BY <3>1, DecodingFacts
    <3>3. hlen \in Nat
      BY TypeFacts
    <3> QED
      BY <3>2, <3>3
  <2>5. CASE UNCHANGED remoteGot /\ stage' \in {"ERROR", "HANDSHAKE"}
    BY <2>1, <2>5 DEF Advances, GivesRemote, Behind
  <2> QED
    BY <2>1, <2>3, <2>4, <2>5, ParseHeaderGrows
<1>4. CASE ServerRecvStream
  <2>0. live /\ UNCHANGED stage
    BY <1>4 DEF ServerRecvStream, Decoding, Arrived, Reading
  <2>1. PICK r \in 1..BufSize :
          /\ Decoding(r)
          /\ \E n \in Decoded(cRecv + r) :
               /\ plain' = plain + n
               /\ \/ /\ server' = server
                     /\ \/ \E s \in 0..(n - 1) : remoteGot' = remoteGot \o Run(plain, s)
                        \/ remoteGot' = remoteGot \o Run(plain, n)
                  \/ UNCHANGED remoteGot
    BY <1>4 DEF ServerRecvStream, Keep, conn
  <2>2. PICK n \in Decoded(cRecv + r) :
          /\ plain' = plain + n
          /\ \/ /\ server' = server
                /\ \/ \E s \in 0..(n - 1) : remoteGot' = remoteGot \o Run(plain, s)
                   \/ remoteGot' = remoteGot \o Run(plain, n)
             \/ UNCHANGED remoteGot
    BY <2>1
  <2>3. n \in Nat
    BY <2>1, DecodingFacts
  <2>4. plain' >= plain
    BY <1>1, <2>2, <2>3
  <2>5. \A s \in 0..(n - 1) : s \in Nat
    OBVIOUS
  <2>6. GivesRemote
    BY <1>1, <2>0, <2>2, <2>3, <2>5 DEF GivesRemote, live
  <2> QED
    BY <2>0, <2>4, <2>6 DEF Advances, Behind
<1>5. CASE ServerResolveCb
  <2>1. UNCHANGED <<stage, plain>> /\ live
    BY <1>5 DEF ServerResolveCb, IInv, NoOrphan
  <2>2. CASE UNCHANGED remoteGot
    BY <1>2, <2>1, <2>2
  <2>3. CASE ~UNCHANGED remoteGot
    <3>1. PICK sent \in ConnectToRemote(sbuf.len) \ {NoRemote} :
            remoteGot' = remoteGot \o Unsent(sbuf, sent) /\ UNCHANGED server
      BY <1>5, <2>3 DEF ServerResolveCb, AdoptRemote
    <3>2. sent \in Nat /\ sbuf.base + sbuf.idx \in Nat
      BY <1>1, <3>1, ConnectFacts
    <3>3. remoteGot' = remoteGot \o Run(sbuf.base + sbuf.idx, sent)
      BY <3>1 DEF Unsent
    <3>4. live'
      BY <2>1, <3>1 DEF live
    <3> QED
      <4>1. Advances
        BY <1>1, <2>1 DEF Advances
      <4>2. GivesRemote
        BY <3>2, <3>3, <3>4 DEF GivesRemote
      <4> QED
        BY <4>1, <4>2
  <2> QED
    BY <2>2, <2>3
<1>6. CASE RemoteSendPart \/ RemoteSendAll
  <2>1. UNCHANGED <<plain, server>> /\ live /\ (stage' = stage \/ stage' = "STREAM")
    BY <1>6 DEF RemoteSendPart, RemoteSendAll, Writing, StartStream, Keep
  <2>2. stage \in Behind
    BY <1>6, WritingFacts DEF RemoteSendPart, RemoteSendAll, Behind
  <2>3. Advances
    BY <1>1, <2>1, <2>2 DEF Advances, Behind
  <2>4. (\E s \in 0..(rbuf.len - 1) : remoteGot' = remoteGot \o Unsent(rbuf, s))
        \/ remoteGot' = remoteGot \o Unsent(rbuf, rbuf.len)
    BY <1>6 DEF RemoteSendPart, RemoteSendAll
  <2>5. ASSUME NEW s \in Nat, remoteGot' = remoteGot \o Unsent(rbuf, s)
        PROVE  GivesRemote
    <3>1. remoteGot' = remoteGot \o Run(rbuf.base + rbuf.idx, s)
      BY <2>5 DEF Unsent
    <3>2. rbuf.base + rbuf.idx \in Nat /\ live'
      BY <1>1, <2>1 DEF live
    <3> QED
      BY <2>5, <3>1, <3>2 DEF GivesRemote
  <2>6. \A s \in 0..(rbuf.len - 1) : s \in Nat
    BY <1>1
  <2> QED
    BY <1>1, <2>3, <2>4, <2>5, <2>6
<1>7. CASE RemoteSendNothing
  <2>1. UNCHANGED <<plain, remoteGot>> /\ stage' = "STREAM"
    BY <1>7 DEF RemoteSendNothing, StartStream, up
  <2>2. stage \in Behind
    BY <1>7, WritingFacts DEF RemoteSendNothing, Behind
  <2> QED
    BY <1>1, <2>1, <2>2 DEF Advances, GivesRemote, Behind
<1>8. CASE ServerRecvEnd \/ ServerRecvDiscard \/ ServerRecvWait \/ ServerRecvObfs
           \/ ServerRecvReject \/ ServerRecvHold
  BY <1>2, <1>8 DEF ServerRecvEnd, ServerRecvDiscard, ServerRecvWait, ServerRecvObfs,
       ServerRecvReject, ServerRecvHold, up
<1>9. CASE RemoteSendError \/ RemoteRecvCb \/ ServerSendCb \/ TimedOut
  BY <1>2, <1>9 DEF RemoteSendError, RemoteRecvCb, RemoteRecvEnd, RemoteRecvData,
       ServerSendCb, ServerSendError, ServerSendPart, ServerSendAll, TimedOut, up
<1> QED
  BY <1>3, <1>4, <1>5, <1>6, <1>7, <1>8, <1>9
     DEF Next, ServerRecvCb, RemoteSendCb, RequestTimeout, IdleTimeout

\* What was handed to the remote is payload that was decoded before.
UpInside == live => Len(remoteGot) <= UpTaken

LEMMA UpIsInside ==
  ASSUME IInv, UpOrder, live
  PROVE  Len(remoteGot) <= UpTaken
<1>1. /\ Len(remoteGot) \in Nat /\ plain \in Nat /\ HdrLen \in Nat /\ rbuf.len \in Nat
  BY TypeFacts, Lengths
<1>2. CASE remote = "none"
  <2>1. Len(remoteGot) = 0
    BY <1>2 DEF UpOrder
  <2>2. stage \in Behind => HdrLen <= plain
    BY DEF IInv, UpCount, Behind
  <2> QED
    BY <1>1, <2>1, <2>2 DEF UpTaken, Behind
<1>3. CASE remote # "none"
  <2>1. stage \in Behind
    BY <1>3 DEF IInv, TypeOK, Stages, FlowControl, Behind
  <2>2. \/ HdrLen + Len(remoteGot) + rbuf.len = plain
        \/ HdrLen + Len(remoteGot) = plain
    BY <1>3 DEF UpOrder
  <2>3. UpTaken = plain - HdrLen
    BY <2>1 DEF UpTaken, Behind
  <2> QED
    BY <1>1, <2>2, <2>3
<1> QED
  BY <1>2, <1>3

\* Nobody but the end of the client's stream is called its end.
LEMMA ClientEof ==
  ASSUME IInv, Next, ~live', reason' = "client_eof"
  PROVE  ServerRecvEnd
<1>1. ASSUME NEW why \in Reasons \ {"client_eof"}, CloseBoth(why) \/ CloseServer(why)
      PROVE  FALSE
  BY <1>1 DEF CloseBoth, CloseServer
<1>2. ASSUME live, UNCHANGED server PROVE FALSE
  BY <1>2 DEF live
<1>3. live
  BY NextDownGrows
<1>4. ~(ServerRecvInit \/ ServerRecvHandshake)
  <2>1. SUFFICES ASSUME ServerRecvInit \/ ServerRecvHandshake PROVE FALSE
    OBVIOUS
  <2>2. (\E len : ParseHeader(len)) \/ UNCHANGED conn
    BY <2>1 DEF ServerRecvInit, ServerRecvHandshake
  <2>3. ASSUME NEW len, ParseHeader(len)
        PROVE  \/ \E why \in Reasons \ {"client_eof"} : CloseServer(why)
               \/ UNCHANGED server
    BY <2>3 DEF ParseHeader, ConnectDirectly, Resolve, Keep, Reasons
  <2> QED
    BY <1>1, <1>2, <1>3, <2>2, <2>3 DEF conn
<1>5. ~ServerResolveCb
  BY <1>2, <1>3 DEF ServerResolveCb
<1>6. ~(ServerRecvDiscard \/ ServerRecvWait \/ ServerRecvObfs
        \/ ServerRecvReject \/ ServerRecvHold \/ ServerRecvStream)
  BY <1>1, <1>2, <1>3 DEF ServerRecvDiscard, ServerRecvWait, ServerRecvObfs,
       ServerRecvReject, ServerRecvHold, ServerRecvStream, Keep, conn, Reasons
<1>7. ~RemoteSendCb
  BY <1>1, <1>2, <1>3 DEF RemoteSendCb, RemoteSendError, RemoteSendNothing, RemoteSendPart,
       RemoteSendAll, StartStream, Keep, Reasons
<1>8. ~(RemoteRecvCb \/ ServerSendCb \/ TimedOut)
  BY <1>1, <1>2, <1>3 DEF RemoteRecvCb, RemoteRecvEnd, RemoteRecvData, ServerSendCb,
       ServerSendError, ServerSendPart, ServerSendAll, TimedOut, Keep, conn, Reasons
<1> QED
  BY <1>4, <1>5, <1>6, <1>7, <1>8 DEF Next, ServerRecvCb, RequestTimeout, IdleTimeout

LEMMA UpPipeStep ==
  ASSUME IInv, UpOrder, UpInside, IInv', UpOrder', UpInside', Next
  PROVE  UpPipe!PipeNext
<1>1. live /\ Advances /\ GivesRemote
  BY NextDownGrows, NextUpGrows
<1>2. Len(remoteGot) <= UpTaken /\ Len(remoteGot) \in Nat
  BY <1>1, TypeFacts DEF UpInside
<1>3. Status("client_eof") = "open"
  BY <1>1 DEF Status
<1>4. /\ plain \in Nat /\ HdrLen \in Nat /\ UpLen \in Nat
      /\ plain' \in Nat /\ plain' <= HdrLen + UpLen
  BY Lengths DEF IInv, TypeOK
<1>5. stage \in Behind => HdrLen <= plain
  BY <1>1 DEF IInv, UpCount, Behind
<1>6. /\ UpTaken = IF stage \in Behind THEN plain - HdrLen ELSE 0
      /\ UpTaken' = IF stage' \in Behind THEN plain' - HdrLen ELSE 0
  BY DEF UpTaken, Behind
<1>7. UpTaken \in Nat /\ UpTaken' \in Nat /\ UpTaken' >= UpTaken /\ UpTaken' <= UpLen
  <2>1. CASE stage \in Behind
    <3>1. UpTaken = plain - HdrLen /\ UpTaken' = plain' - HdrLen
      BY <1>1, <1>6, <2>1 DEF Advances
    <3>2. HdrLen <= plain /\ plain <= plain'
      BY <1>1, <1>4, <1>5, <2>1 DEF Advances
    <3> DEFINE p == plain
               q == plain'
    <3>3. p \in Nat /\ q \in Nat /\ HdrLen <= p /\ p <= q /\ q <= HdrLen + UpLen
      BY <1>4, <3>2
    <3>4. UpTaken = p - HdrLen /\ UpTaken' = q - HdrLen
      BY <3>1
    <3> HIDE DEF p, q
    <3>5. p - HdrLen \in Nat /\ q - HdrLen \in Nat
      BY <1>4, <3>3
    <3>6. q - HdrLen >= p - HdrLen /\ q - HdrLen <= UpLen
      BY <1>4, <3>3
    <3> QED
      BY <3>4, <3>5, <3>6
  <2>2. CASE stage \notin Behind
    <3>1. UpTaken = 0
      BY <1>6, <2>2
    <3>2. CASE stage' \in Behind
      <4>1. UpTaken' = plain' - HdrLen /\ plain' >= HdrLen
        BY <1>1, <1>6, <2>2, <3>2 DEF Advances
      <4> DEFINE q == plain'
      <4>2. q \in Nat /\ HdrLen <= q /\ q <= HdrLen + UpLen /\ UpTaken' = q - HdrLen
        BY <1>4, <4>1
      <4> HIDE DEF q
      <4>3. q - HdrLen \in Nat /\ q - HdrLen >= 0 /\ q - HdrLen <= UpLen
        BY <1>4, <4>2
      <4> QED
        BY <3>1, <4>2, <4>3
    <3>3. CASE stage' \notin Behind
      BY <1>4, <1>6, <3>1, <3>3
    <3> QED
      BY <3>2, <3>3
  <2> QED
    BY <2>1, <2>2
<1>8. CASE ~live' /\ reason' = "client_eof"
  <2>1. ServerRecvEnd
    BY <1>8, ClientEof
  <2>2. UNCHANGED <<stage, plain, remoteGot>> /\ "server_recv" \in watch
    BY <2>1 DEF ServerRecvEnd, Reading, up
  <2>3. Len(remoteGot) = UpTaken
    <3>1. CASE stage \notin Behind
      <4>1. remote = "none"
        BY <1>1, <3>1 DEF IInv, TypeOK, Stages, FlowControl, Behind
      <4> QED
        BY <1>1, <1>6, <3>1, <4>1 DEF UpOrder
    <3>2. CASE stage \in Behind
      <4>1. stage = "STREAM"
        BY <1>1, <2>2, <3>2 DEF IInv, FlowControl, Behind
      <4>2. "remote_send" \notin watch /\ remote # "none"
        BY <1>1, <2>2, <4>1, StreamFacts
      <4>3. HdrLen + Len(remoteGot) = plain
        BY <1>1, <4>2 DEF UpOrder
      <4> QED
        BY <1>2, <1>4, <1>6, <3>2, <4>3
    <3> QED
      BY <3>1, <3>2
  <2>4. UNCHANGED <<UpTaken, remoteGot>>
    BY <2>2 DEF UpTaken
  <2>5. Status("client_eof")' = "finished"
    BY <1>8 DEF Status
  <2> QED
    BY <1>3, <2>3, <2>4, <2>5 DEF UpPipe!PipeNext, UpPipe!Finish
<1>9. CASE ~(~live' /\ reason' = "client_eof")
  <2>1. Status("client_eof")' \in {"open", "aborted"}
    BY <1>9 DEF Status
  <2>2. UpTaken' \in UpTaken..UpLen
    BY <1>4, <1>7
  <2>3. remoteGot' = Run(HdrLen, Len(remoteGot'))
    BY DEF UpOrder
  <2>4. Len(remoteGot') \in Nat /\ Len(remoteGot') >= Len(remoteGot)
    <3>1. CASE UNCHANGED remoteGot
      BY <1>2, <3>1
    <3>2. ASSUME NEW a \in Nat, NEW m \in Nat, remoteGot' = remoteGot \o Run(a, m)
          PROVE  Len(remoteGot') \in Nat /\ Len(remoteGot') >= Len(remoteGot)
      <4>1. remoteGot \in Seq(Nat)
        BY TypeFacts
      <4>2. Len(remoteGot') = Len(remoteGot) + m
        BY <3>2, <4>1, AppendRun
      <4> QED
        BY <1>2, <4>2
    <3> QED
      BY <1>1, <3>1, <3>2 DEF GivesRemote
  <2>5. Len(remoteGot') <= UpTaken'
    <3>1. CASE live'
      BY <3>1 DEF UpInside
    <3>2. CASE UNCHANGED remoteGot
      BY <1>2, <1>7, <3>2
    <3> QED
      BY <1>1, <3>1, <3>2 DEF GivesRemote
  <2>6. Len(remoteGot') \in Len(remoteGot)..UpTaken'
    <3> DEFINE g == Len(remoteGot)
               h == Len(remoteGot')
               t == UpTaken'
    <3>1. g \in Nat /\ h \in Nat /\ h >= g /\ h <= t /\ t \in Int
      BY <1>2, <2>2, <2>4, <2>5
    <3> HIDE DEF g, h, t
    <3>2. h \in g..t
      BY <3>1
    <3> QED
      BY <3>2 DEF g, h, t
  <2>7. UpPipe!Relay
    BY <1>3, <2>1, <2>2, <2>3, <2>6 DEF UpPipe!Relay, UpPipe!Run, Run
  <2> QED
    BY <2>7 DEF UpPipe!PipeNext
<1> QED
  BY <1>8, <1>9

(***************************************************************************)
(* The payload of the client reaches the remote without loss, repetition   *)
(* or change of order, however its segments are cut, the name is awaited,  *)
(* sends are partial and a part goes with the connect; and when the        *)
(* client's stream ends nothing of it is left behind (server_recv_cb,      *)
(* server_resolve_cb and remote_send_cb).                                  *)
(***************************************************************************)
THEOREM UpImplementsPipe ==
  ASSUME NoEarlyData
  PROVE  Spec => UpIsPipe
<1>1. Init => UpOrder /\ UpPipe!PipeInit
  BY InitAccounted DEF Init, UpPipe!PipeInit, Status, live, UpTaken
<1>2. IInv /\ UpOrder => UpInside
  BY UpIsInside DEF UpInside
<1>3. IInv /\ UpOrder /\ [Next]_vars => UpOrder'
  BY NextUp
<1>4. /\ IInv /\ UpOrder /\ UpInside
      /\ IInv' /\ UpOrder' /\ UpInside'
      /\ [Next]_vars
      => [UpPipe!PipeNext]_(UpPipe!pipeVars)
  <2>1. UNCHANGED vars => UNCHANGED UpPipe!pipeVars
    BY DEF vars, conn, up, UpPipe!pipeVars, Status, live, UpTaken
  <2> QED
    BY <2>1, UpPipeStep
<1> QED
  BY <1>1, <1>2, <1>3, <1>4, SpecIInv, PTL DEF Spec, UpIsPipe, UpPipe!PipeSpec
=============================================================================
