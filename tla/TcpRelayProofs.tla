--------------------------- MODULE TcpRelayProofs ---------------------------
(***************************************************************************)
(* Theorems about TcpRelay, for every length of the header, the IV, the    *)
(* buffers and the streams, and every set of kinds of connections.         *)
(***************************************************************************)
EXTENDS TcpRelay, BuffersProofs

\* The inductive invariant: the types need the counters, the counters need
\* the stage, and the stage is tied to the watchers and lifetimes.
IInv == TypeOK /\ FlowControl /\ NoOrphan /\ UpCount

\* What the assumptions on the constants are needed for.
LEMMA Lengths ==
  /\ IvLen \in Nat /\ HdrLen \in Nat /\ UpLen \in Nat /\ DownLen \in Nat
  /\ BufSize \in Nat /\ BufSize > IvLen + 1 /\ HdrLen > 0
  /\ Upstream \in Nat /\ DownBase \in Nat
BY RelayAssumption DEF Upstream, DownBase

LEMMA InitIInv == Init => IInv
<1> SUFFICES ASSUME Init PROVE IInv
  OBVIOUS
<1>1. obfs \in {"greeting", "done"}
  BY DEF Init
<1>2. sbuf \in Buffer /\ rbuf \in Buffer
  BY DEF Init, Buffer, Buf
<1>10. sbuf.len = 0
  BY DEF Init, Buf
<1>3. remoteGot \in Seq(Nat) /\ clientGot \in Seq(Nat)
  BY EmptySeq DEF Init
<1>4. cRecv = 0 /\ plain = 0 /\ dRecv = 0 /\ hlen = 0
  BY DEF Init
<1>5. /\ cRecv \in 0..Upstream /\ plain \in 0..(HdrLen + UpLen)
      /\ dRecv \in 0..DownLen /\ hlen \in Nat
  BY <1>4, Lengths
<1>6. /\ sess \in Sessions
      /\ stage = "INIT" /\ server = "live" /\ remote = "none"
      /\ query = "null" /\ rq = "none" /\ watch = {"server_recv"}
      /\ blame = "none" /\ reason = ""
  BY DEF Init
<1>7. TypeOK
  BY <1>1, <1>2, <1>3, <1>5, <1>6 DEF TypeOK, Stages, Watchers, Reasons, Blames
<1>8. FlowControl /\ NoOrphan
  BY <1>6 DEF live, FlowControl, NoOrphan
<1>9. UpCount
  <2>1. stage = "INIT" => plain = 0 /\ sbuf.len <= cRecv
    BY <1>4, <1>10
  <2>2. stage # "INIT" => plain + IvLen <= cRecv
    BY <1>6
  <2>3. stage = "HANDSHAKE" => hlen = plain
    BY <1>4
  <2>4. stage \in {"PARSE", "RESOLVE", "STREAM"} => HdrLen <= plain
    BY <1>6
  <2> QED
    BY <2>1, <2>2, <2>3, <2>4 DEF UpCount
<1> QED
  BY <1>7, <1>8, <1>9 DEF IInv

\* The two ways to close a connection establish what is said of a closed one.
LEMMA CloseBothIInv ==
  ASSUME IInv, live, NEW why \in Reasons, CloseBoth(why)
  PROVE  /\ ~live' /\ FlowControl' /\ NoOrphan' /\ UpCount'
         /\ remote' \in {"none", "freed"} /\ rq' \in {"none", "live", "freed"}
         /\ query' \in {"null", "set"} /\ server' \in {"live", "freed"} /\ watch' \subseteq Watchers
         /\ reason' \in Reasons
BY DEF IInv, TypeOK, live, CloseBoth, FlowControl, NoOrphan, UpCount

\* What every branch of server_recv_cb that received data starts from.
LEMMA ArrivedFacts ==
  ASSUME IInv, NEW r \in 1..BufSize, Arrived(r)
  PROVE  /\ live /\ "server_recv" \in watch
         /\ stage \in {"ERROR", "INIT", "HANDSHAKE", "STREAM"}
         /\ cRecv \in Nat /\ r \in Nat \ {0}
         /\ cRecv' = cRecv + r /\ cRecv + r <= Upstream
         /\ cRecv' \in 0..Upstream
<1>1. sbuf.len \in Nat
  BY DEF IInv, TypeOK, Buffer
<1>2. cRecv \in Nat /\ Upstream \in Nat
  BY Lengths DEF IInv, TypeOK
<1>3. r <= Upstream - cRecv /\ cRecv' = cRecv + r
  BY <1>1, <1>2, Lengths DEF Arrived, Smaller
<1>4. live /\ "server_recv" \in watch
  BY DEF Arrived, Reading
<1>5. stage \in {"ERROR", "INIT", "HANDSHAKE", "STREAM"}
  BY <1>4 DEF IInv, TypeOK, Stages, FlowControl
<1> QED
  BY <1>2, <1>3, <1>4, <1>5

LEMMA ServerRecvEndIInv == IInv /\ ServerRecvEnd => IInv'
<1> SUFFICES ASSUME IInv, ServerRecvEnd PROVE IInv'
  OBVIOUS
<1> QED
  BY CloseBothIInv DEF IInv, TypeOK, ServerRecvEnd, Reading, live, Reasons, up, down
LEMMA ServerRecvWaitIInv == IInv /\ ServerRecvWait => IInv'
<1> SUFFICES ASSUME IInv, ServerRecvWait PROVE IInv'
  OBVIOUS
<1>1. PICK r \in 1..BufSize : /\ Arrived(r)
                             /\ sbuf.len + r <= IvLen + 1
                             /\ sbuf' = WithLen(sbuf, sbuf.len + r)
  BY DEF ServerRecvWait
<1>2. cRecv \in Nat /\ cRecv' = cRecv + r /\ cRecv' \in 0..Upstream
  BY <1>1, ArrivedFacts
<1>3. sbuf' \in Buffer /\ sbuf'.len = sbuf.len + r /\ sbuf.len \in Nat
  BY <1>1 DEF IInv, TypeOK, Buffer, Buf, WithLen
<1>4. /\ stage = "INIT" /\ live
      /\ UNCHANGED <<sess, stage, conn, obfs, rbuf, hlen, plain, remoteGot, down, blame>>
  BY <1>1 DEF ServerRecvWait, Arrived, Reading, live
<1>5. TypeOK'
  BY <1>2, <1>3, <1>4 DEF IInv, TypeOK, conn, down
<1>6. FlowControl' /\ NoOrphan'
  BY <1>4 DEF IInv, live, FlowControl, NoOrphan, conn
<1>7. UpCount'
  BY <1>2, <1>3, <1>4 DEF IInv, TypeOK, live, UpCount, conn
<1> QED
  BY <1>5, <1>6, <1>7 DEF IInv

\* The parts of the invariant that a step can keep without touching them.
LEMMA TypeFacts ==
  ASSUME IInv
  PROVE  /\ sbuf.base \in Nat /\ sbuf.idx \in Nat /\ sbuf.len \in Nat
         /\ rbuf.base \in Nat /\ rbuf.idx \in Nat /\ rbuf.len \in Nat
         /\ cRecv \in Nat /\ plain \in Nat /\ dRecv \in Nat /\ hlen \in Nat
         /\ remoteGot \in Seq(Nat) /\ clientGot \in Seq(Nat)
         /\ Len(remoteGot) \in Nat /\ Len(clientGot) \in Nat
<1>1. sbuf \in Buffer /\ rbuf \in Buffer
  BY DEF IInv, TypeOK
<1>2. cRecv \in Nat /\ plain \in Nat /\ dRecv \in Nat /\ hlen \in Nat
  BY Lengths DEF IInv, TypeOK
<1>3. remoteGot \in Seq(Nat) /\ clientGot \in Seq(Nat)
  BY DEF IInv, TypeOK
<1>4. Len(remoteGot) \in Nat /\ Len(clientGot) \in Nat
  BY <1>3, LenProperties
<1> QED
  BY <1>1, <1>2, <1>3, <1>4, BufferFields

LEMMA ServerRecvDiscardIInv == IInv /\ ServerRecvDiscard => IInv'
<1> SUFFICES ASSUME IInv, ServerRecvDiscard PROVE IInv'
  OBVIOUS
<1>1. PICK r \in 1..BufSize : Arrived(r)
  BY DEF ServerRecvDiscard
<1>2. /\ stage = "ERROR"
      /\ sbuf' = Buf(0, 0, 0)
      /\ UNCHANGED <<sess, stage, conn, obfs, rbuf, hlen, plain, remoteGot, down, blame>>
  BY DEF ServerRecvDiscard
<1>3. sbuf' \in Buffer
  BY <1>2, BufFields
<1>4. TypeOK'
  BY <1>1, <1>2, <1>3, ArrivedFacts DEF IInv, TypeOK, conn, down
<1>5. FlowControl' /\ NoOrphan'
  BY <1>2 DEF IInv, live, FlowControl, NoOrphan, conn
<1>6. UpCount'
  BY <1>1, <1>2, ArrivedFacts, TypeFacts, Lengths DEF IInv, live, UpCount, conn
<1> QED
  BY <1>4, <1>5, <1>6 DEF IInv

LEMMA ServerRecvObfsIInv == IInv /\ ServerRecvObfs => IInv'
<1> SUFFICES ASSUME IInv, ServerRecvObfs PROVE IInv'
  OBVIOUS
<1>1. /\ live
      /\ UNCHANGED <<sess, stage, sbuf, rbuf, hlen, up, down, blame>>
      /\ obfs' \in {"greeting", "done"}
  BY DEF ServerRecvObfs, Reading, IInv, TypeOK
<1>2. CASE CloseBoth("rejected")
  BY <1>1, <1>2, CloseBothIInv DEF IInv, TypeOK, Reasons, up, down
<1>3. CASE UNCHANGED conn
  BY <1>1, <1>3 DEF IInv, TypeOK, live, FlowControl, NoOrphan, UpCount, conn, up, down
<1> QED
  BY <1>2, <1>3 DEF ServerRecvObfs

\* The counters of a branch that decoded r more bytes.
LEMMA DecodingFacts ==
  ASSUME IInv, NEW r \in 1..BufSize, Decoding(r), NEW n \in Decoded(cRecv + r)
  PROVE  /\ Arrived(r) /\ live
         /\ stage \in {"INIT", "HANDSHAKE", "STREAM"}
         /\ n \in Nat /\ plain + n + IvLen <= cRecv + r
         /\ plain + n <= HdrLen + UpLen
<1>1. Arrived(r) /\ stage # "ERROR" /\ (stage = "INIT" => sbuf.len + r > IvLen + 1)
  BY DEF Decoding
<1>2. live /\ stage \in {"INIT", "HANDSHAKE", "STREAM"} /\ cRecv + r <= Upstream
  BY <1>1, ArrivedFacts
<1> DEFINE inside == cRecv + r - IvLen - plain
<1>3. inside \in Nat
  <2>0. cRecv \in Nat /\ r \in Nat /\ IvLen \in Nat /\ plain \in Nat /\ sbuf.len \in Nat
    BY TypeFacts, Lengths
  <2>1. IF stage = "INIT" THEN plain = 0 /\ sbuf.len <= cRecv
                          ELSE plain + IvLen <= cRecv
    BY <1>2 DEF IInv, UpCount
  <2>2. CASE stage = "INIT"
    BY <2>0, <2>1, <2>2, <1>1
  <2>3. CASE stage # "INIT"
    BY <2>0, <2>1, <2>3
  <2> QED
    BY <2>2, <2>3
<1>4. n \in 0..inside
  BY TypeFacts, Lengths DEF Decoded, inside
<1>5. n \in Nat /\ plain + n + IvLen <= cRecv + r
  <2>1. cRecv \in Nat /\ r \in Nat /\ IvLen \in Nat /\ plain \in Nat
    BY TypeFacts, Lengths
  <2>2. n \in Nat /\ n <= inside
    BY <1>3, <1>4
  <2> QED
    BY <2>1, <2>2
<1>6. plain + n <= HdrLen + UpLen
  <2>1. /\ cRecv \in Nat /\ r \in Nat /\ IvLen \in Nat /\ plain \in Nat
        /\ HdrLen \in Nat /\ UpLen \in Nat
    BY TypeFacts, Lengths
  <2>2. cRecv + r <= IvLen + HdrLen + UpLen
    BY <1>2 DEF Upstream
  <2> QED
    BY <1>5, <2>1, <2>2
<1> QED
  BY <1>1, <1>2, <1>5, <1>6

LEMMA ServerRecvRejectIInv == IInv /\ ServerRecvReject => IInv'
<1> SUFFICES ASSUME IInv, ServerRecvReject PROVE IInv'
  OBVIOUS
<1>1. PICK r \in 1..BufSize : Decoding(r)
  BY DEF ServerRecvReject
<1>2. Arrived(r)
  BY <1>1 DEF Decoding
<1>3. live /\ cRecv' \in 0..Upstream
  BY <1>2, ArrivedFacts
<1>4. /\ CloseBoth("rejected")
      /\ UNCHANGED <<sess, stage, obfs, sbuf, rbuf, hlen, plain, remoteGot, down>>
      /\ blame' \in Blames
  BY DEF ServerRecvReject, IInv, TypeOK, Blames
<1> QED
  BY <1>3, <1>4, CloseBothIInv DEF IInv, TypeOK, Reasons, down

LEMMA ServerRecvHoldIInv == IInv /\ ServerRecvHold => IInv'
<1> SUFFICES ASSUME IInv, ServerRecvHold PROVE IInv'
  OBVIOUS
<1>1. PICK r \in 1..BufSize : Decoding(r) /\ 0 \in Decoded(cRecv + r)
  BY DEF ServerRecvHold
<1>2. /\ live /\ Arrived(r) /\ stage \in {"INIT", "HANDSHAKE", "STREAM"}
      /\ plain + IvLen <= cRecv + r
  BY <1>1, DecodingFacts, TypeFacts, Lengths
<1>3. /\ UNCHANGED <<sess, stage, conn, obfs, hlen, plain, remoteGot, down, blame>>
      /\ IF stage = "STREAM"
           THEN rbuf' = WithLen(rbuf, 0) /\ UNCHANGED sbuf
           ELSE sbuf' = WithLen(sbuf, 0) /\ UNCHANGED rbuf
  BY DEF ServerRecvHold
<1>4. cRecv' \in 0..Upstream /\ cRecv' = cRecv + r /\ "server_recv" \in watch
  BY <1>2, ArrivedFacts
<1>5. /\ WithLen(rbuf, 0) \in Buffer
      /\ WithLen(sbuf, 0) \in Buffer /\ WithLen(sbuf, 0).len = 0
  <2>1. sbuf \in Buffer /\ rbuf \in Buffer /\ 0 \in Nat
    BY DEF IInv, TypeOK
  <2> QED
    BY <2>1, WithLenFields
<1>6. TypeOK'
  BY <1>3, <1>4, <1>5 DEF IInv, TypeOK, conn, down
<1>7. FlowControl' /\ NoOrphan'
  <2>1. NoOrphan'
    BY <1>3 DEF IInv, live, NoOrphan, conn
  <2>2. ASSUME stage = "STREAM" PROVE FlowControl'
    <3>1. /\ "remote_send" \notin watch /\ remote = "connected"
          /\ "remote_recv" \in watch <=> "server_send" \notin watch
          /\ "server_send" \in watch => sbuf.len > 0
      BY <1>2, <1>4, <2>2 DEF IInv, FlowControl
    <3>2. sbuf' = sbuf /\ watch' = watch /\ remote' = remote /\ stage' = stage
      BY <1>3, <2>2 DEF conn
    <3> QED
      BY <1>4, <2>2, <3>1, <3>2 DEF FlowControl
  <2>3. ASSUME stage # "STREAM" PROVE FlowControl'
    <3>1. watch = {"server_recv"} /\ remote = "none"
      BY <1>2, <2>3 DEF IInv, FlowControl
    <3>2. watch' = watch /\ remote' = remote /\ stage' = stage
      BY <1>3 DEF conn
    <3> QED
      BY <1>2, <2>3, <3>1, <3>2 DEF FlowControl
  <2> QED
    BY <2>1, <2>2, <2>3
<1>8. UpCount'
  <2>1. stage' = stage /\ plain' = plain /\ hlen' = hlen /\ cRecv' = cRecv + r
    BY <1>3, <1>4
  <2>2. /\ stage = "INIT" => plain = 0
        /\ stage = "HANDSHAKE" => hlen = plain
        /\ stage \in {"PARSE", "RESOLVE", "STREAM"} => HdrLen <= plain
    BY <1>2 DEF IInv, UpCount
  <2>3. stage = "INIT" => sbuf'.len <= cRecv'
    <3> SUFFICES ASSUME stage = "INIT" PROVE sbuf'.len <= cRecv'
      OBVIOUS
    <3>1. sbuf'.len = 0
      BY <1>3, <1>5
    <3> QED
      BY <3>1, <1>4, Lengths
  <2>4. plain' + IvLen <= cRecv'
    BY <2>1, <1>2
  <2> QED
    BY <2>1, <2>2, <2>3, <2>4 DEF UpCount
<1> QED
  BY <1>6, <1>7, <1>8 DEF IInv

(***************************************************************************)
(* STAGE_PARSE.  The three results of ParseHeader, for any number len of   *)
(* plaintext bytes that can have been decoded.                             *)
(***************************************************************************)
LEMMA ConnectFacts ==
  ASSUME NEW l \in Nat, NEW sent \in ConnectToRemote(l), sent # NoRemote
  PROVE  /\ sent \in 0..l
         /\ ~sess.fastopen => sent = 0
<1>1. sent \in {s \in 0..l : sess.fastopen \/ s = 0}
  BY DEF ConnectToRemote
<1> QED
  BY <1>1

\* What the next invariant needs of a step from the header to the connection.
Parsed == /\ FlowControl' /\ NoOrphan' /\ UpCount'
          /\ stage' \in Stages
          /\ server' \in {"live", "freed"}
          /\ remote' \in {"none", "connecting"}
          /\ query' \in {"null", "set"} /\ rq' \in {"none", "live", "freed"}
          /\ watch' \subseteq Watchers /\ reason' \in Reasons
          /\ sbuf' \in Buffer /\ rbuf' \in Buffer
          /\ remoteGot' \in Seq(Nat)
          /\ plain' \in 0..(HdrLen + UpLen)
          /\ blame' \in Blames

LEMMA CloseServerParsed ==
  ASSUME IInv, live, remote = "none", NEW why \in Reasons, CloseServer(why),
         watch = {"server_recv"}
  PROVE  /\ FlowControl' /\ NoOrphan' /\ UpCount' /\ server' = "freed"
         /\ remote' = "none" /\ query' = "null" /\ rq' \in {"none", "live", "freed"}
         /\ watch' = {} /\ reason' \in Reasons
<1>1. /\ server' = "freed" /\ remote' = "none" /\ query' = "null"
      /\ rq' = IF query = "set" THEN "freed" ELSE rq
      /\ watch' = {} /\ reason' \in Reasons
  BY DEF CloseServer
<1>2. rq' \in {"none", "live", "freed"} /\ rq' # "live"
  BY <1>1 DEF IInv, TypeOK, live, NoOrphan
<1> QED
  BY <1>1, <1>2 DEF live, FlowControl, NoOrphan, UpCount

\* What adopting a new remote leaves in the buffers, the payload included.
LEMMA AdoptFacts ==
  ASSUME NEW b \in Nat, NEW i \in Nat, NEW l \in Nat, NEW s \in 0..l,
         NEW first \in Nat, remoteGot \in Seq(Nat),
         AdoptRemote(Buf(b, i, l), s, first)
  PROVE  /\ remote' = "connecting"
         /\ sbuf' \in Buffer /\ rbuf' \in Buffer /\ remoteGot' \in Seq(Nat)
         /\ remoteGot' = remoteGot \o Run(b + i, s)
         /\ rbuf'.len = l - s
         /\ s < l => rbuf'.base = first /\ rbuf'.idx = 0
<1> DEFINE buf == Buf(b, i, l)
<1>1. buf \in Buffer /\ buf.base = b /\ buf.idx = i /\ buf.len = l
  BY BufFields
<1> HIDE DEF buf
<1>2. /\ remote' = "connecting"
      /\ remoteGot' = remoteGot \o Unsent(buf, s)
      /\ rbuf' = IF buf.len > s THEN Buf(first, 0, buf.len - s) ELSE Buf(0, 0, 0)
      /\ sbuf' = IF buf.len > s THEN Buf(buf.base, 0, 0) ELSE Rest(buf, s)
  BY DEF AdoptRemote, buf
<1>3. remoteGot' = remoteGot \o Run(b + i, s) /\ b + i \in Nat /\ s \in Nat
  BY <1>1, <1>2 DEF Unsent
<1>4. remoteGot' \in Seq(Nat)
  BY <1>3, AppendRun
<1>5. CASE s < l
  <2>1. l - s \in Nat /\ 0 \in Nat
    BY <1>5
  <2>2. rbuf' = Buf(first, 0, l - s) /\ sbuf' = Buf(b, 0, 0)
    BY <1>1, <1>2, <1>5
  <2>3. rbuf' \in Buffer /\ rbuf'.base = first /\ rbuf'.idx = 0 /\ rbuf'.len = l - s
    <3>1. PICK m \in Nat : m = l - s
      BY <2>1
    <3>2. rbuf' = Buf(first, 0, m)
      BY <2>2, <3>1
    <3>3. /\ Buf(first, 0, m) \in Buffer /\ Buf(first, 0, m).base = first
          /\ Buf(first, 0, m).idx = 0 /\ Buf(first, 0, m).len = m
      BY <2>1 DEF Buf, Buffer
    <3> QED
      BY <3>1, <3>2, <3>3
  <2>4. sbuf' \in Buffer
    BY <2>1, <2>2, BufFields
  <2> QED
    BY <1>2, <1>3, <1>4, <2>3, <2>4
<1>6. CASE ~(s < l)
  <2>1. s = l /\ s \in 0..buf.len /\ 0 \in Nat /\ l - s = 0
    BY <1>1, <1>6
  <2>2. rbuf' = Buf(0, 0, 0) /\ sbuf' = Rest(buf, s)
    BY <1>1, <1>2, <1>6
  <2>3. rbuf' \in Buffer /\ rbuf'.len = 0
    BY <2>2, EmptyFields
  <2>4. sbuf' \in Buffer
    BY <1>1, <2>1, <2>2, RestFields
  <2> QED
    BY <1>2, <1>3, <1>4, <1>6, <2>1, <2>3, <2>4
<1> QED
  BY <1>5, <1>6

\* ParseHeader, for any number len of bytes that can have been decoded when
\* c bytes were received.
LEMMA ParseHeaderParsed ==
  ASSUME IInv, live, stage \in {"INIT", "HANDSHAKE"},
         NEW c \in Nat, cRecv' = c,
         NEW len \in Nat, ParseHeader(len),
         len + IvLen <= c, len <= HdrLen + UpLen
  PROVE  Parsed
<1>1. watch = {"server_recv"} /\ remote = "none"
  BY DEF IInv, FlowControl
<1>2. rq \in {"none", "freed"} /\ query \in {"null", "set"} /\ reason \in Reasons
  BY DEF IInv, TypeOK, NoOrphan
<1>3. /\ stage \in Stages /\ sbuf \in Buffer /\ rbuf \in Buffer
      /\ remoteGot \in Seq(Nat) /\ blame \in Blames
  BY DEF IInv, TypeOK
<1>4. ASSUME NEW why \in {"malformed", "rejected"}, CloseServer(why), plain' = len,
             blame' \in {blame, "malformed", "bad"},
             UNCHANGED <<stage, sbuf, rbuf, remoteGot>>
      PROVE  Parsed
  <2>1. why \in Reasons
    BY DEF Reasons
  <2>2. plain' \in 0..(HdrLen + UpLen)
    BY <1>4, Lengths
  <2>3. blame' \in Blames
    BY <1>4, <1>3 DEF Blames
  <2>4. /\ FlowControl' /\ NoOrphan' /\ UpCount' /\ server' = "freed"
        /\ remote' = "none" /\ query' = "null" /\ rq' \in {"none", "live", "freed"}
        /\ watch' = {} /\ reason' \in Reasons
    BY <1>1, <1>4, <2>1, CloseServerParsed
  <2> QED
    BY <1>3, <1>4, <2>2, <2>3, <2>4 DEF Parsed
<1>5. ASSUME NEW kept \in 0..(len - HdrLen), len >= HdrLen, plain' = HdrLen + kept,
             UNCHANGED blame,
             ConnectDirectly(Buf(HdrLen, 0, kept)) \/ Resolve(Buf(HdrLen, 0, kept))
      PROVE  Parsed
  <2> DEFINE buf == Buf(HdrLen, 0, kept)
  <2>1. kept \in Nat /\ HdrLen \in Nat /\ 0 \in Nat
    BY <1>5, Lengths
  <2>2. plain' \in 0..(HdrLen + UpLen) /\ plain' + IvLen <= c /\ HdrLen <= plain'
    BY <1>5, <2>1, Lengths
  <2>3. buf \in Buffer /\ buf.base = HdrLen /\ buf.idx = 0 /\ buf.len = kept
    BY <2>1, BufFields
  <2>4. blame' \in Blames
    BY <1>3, <1>5
  <2>5. ASSUME stage' \in {"PARSE", "RESOLVE"} PROVE UpCount'
    <3>1. stage' # "INIT" /\ stage' # "HANDSHAKE"
      BY <2>5
    <3> QED
      BY <2>2, <3>1 DEF UpCount
  <2>6. CASE Resolve(buf)
    <3>1. /\ stage' = "RESOLVE" /\ query' = "set" /\ rq' \in {"freed", "live"}
          /\ sbuf' = buf /\ watch' = {} /\ server' = server /\ server = "live"
          /\ remote' = "none" /\ reason' \in Reasons /\ rbuf' \in Buffer
          /\ remoteGot' \in Seq(Nat)
      BY <1>1, <1>2, <1>3, <2>6 DEF Resolve, Switch, live
    <3>2. FlowControl' /\ NoOrphan'
      BY <3>1 DEF FlowControl, NoOrphan, live
    <3> QED
      BY <2>2, <2>3, <2>4, <2>5, <3>1, <3>2 DEF Parsed, Stages
  <2>7. CASE ConnectDirectly(buf)
    <3>1. PICK sent \in ConnectToRemote(buf.len) :
            IF sent = NoRemote
              THEN /\ CloseServer("unreachable")
                   /\ sbuf' = buf
                   /\ UNCHANGED <<rbuf, remoteGot>>
              ELSE /\ AdoptRemote(buf, sent, buf.base)
                   /\ Switch("server_recv", {"remote_send"})
                   /\ Keep
      BY <2>7 DEF ConnectDirectly
    <3>2. stage' = "PARSE"
      BY <2>7 DEF ConnectDirectly
    <3>3. CASE sent = NoRemote
      <4>1. CloseServer("unreachable") /\ "unreachable" \in Reasons
        BY <3>1, <3>3 DEF Reasons
      <4>2. /\ FlowControl' /\ NoOrphan' /\ UpCount' /\ server' = "freed"
            /\ remote' = "none" /\ query' = "null" /\ rq' \in {"none", "live", "freed"}
            /\ watch' = {} /\ reason' \in Reasons
        BY <1>1, <4>1, CloseServerParsed
      <4> QED
        BY <1>3, <2>2, <2>3, <2>4, <3>1, <3>2, <3>3, <4>2 DEF Parsed, Stages
    <3>4. CASE sent # NoRemote
      <4>1. sent \in 0..kept
        BY <2>1, <2>3, <3>4, ConnectFacts
      <4>2. AdoptRemote(Buf(HdrLen, 0, kept), sent, HdrLen)
        BY <2>3, <3>1, <3>4
      <4>3. remote' = "connecting" /\ sbuf' \in Buffer /\ rbuf' \in Buffer /\ remoteGot' \in Seq(Nat)
        BY <1>3, <2>1, <4>1, <4>2, AdoptFacts
      <4>4. /\ watch' = {"remote_send"} /\ server' = "live"
            /\ query' = query /\ rq' = rq /\ reason' = reason
        BY <1>1, <3>1, <3>4 DEF Switch, Keep, live
      <4>5. FlowControl' /\ NoOrphan'
        BY <1>2, <3>2, <4>3, <4>4 DEF FlowControl, NoOrphan, live
      <4> QED
        BY <1>2, <2>2, <2>4, <2>5, <3>2, <4>3, <4>4, <4>5 DEF Parsed, Stages, Watchers
    <3> QED
      BY <3>3, <3>4
  <2> QED
    BY <1>5, <2>6, <2>7
<1>6. CASE len < HdrLen
  <2>1. CloseServer("malformed") /\ plain' = len /\ blame' = "malformed"
        /\ UNCHANGED <<stage, sbuf, rbuf, remoteGot>>
    BY <1>6, Lengths DEF ParseHeader
  <2> QED
    BY <1>4, <2>1
<1>7. CASE len >= HdrLen
  <2>1. CASE CloseServer("rejected") /\ blame' \in {blame, "malformed", "bad"}
             /\ plain' = len /\ UNCHANGED <<stage, sbuf, rbuf, remoteGot>>
    BY <1>4, <2>1
  <2>2. CASE /\ \E kept \in 0..(len - HdrLen) :
                  /\ sess.reframe \/ kept = len - HdrLen
                  /\ plain' = HdrLen + kept
                  /\ IF sess.atyp = "ip" THEN ConnectDirectly(Buf(HdrLen, 0, kept))
                                         ELSE Resolve(Buf(HdrLen, 0, kept))
             /\ UNCHANGED blame
    BY <1>5, <1>7, <2>2
  <2> QED
    BY <1>7, <2>1, <2>2, Lengths DEF ParseHeader
<1> QED
  BY <1>6, <1>7, Lengths

LEMMA ParsedIInv ==
  ASSUME IInv, Parsed, cRecv' \in 0..Upstream, hlen' \in Nat,
         UNCHANGED <<sess, obfs, down>>
  PROVE  IInv'
<1>1. TypeOK'
  BY DEF IInv, TypeOK, Parsed, down
<1> QED
  BY <1>1 DEF IInv, Parsed

\* A step that stays with the header, or gives it up: nothing but the counters.
LEMMA HeaderIInv ==
  ASSUME IInv, live, stage \in {"INIT", "HANDSHAKE"},
         NEW c \in 0..Upstream, cRecv' = c, stage' \in {"ERROR", "HANDSHAKE"},
         plain' \in Nat, plain' + IvLen <= c, plain' <= HdrLen + UpLen,
         hlen' \in Nat, stage' = "HANDSHAKE" => hlen' = plain',
         sbuf' = Buf(0, 0, 0), blame' \in Blames,
         UNCHANGED <<sess, conn, obfs, rbuf, remoteGot, down>>
  PROVE  IInv'
<1>1. sbuf' \in Buffer
  BY BufFields
<1>2. plain' \in 0..(HdrLen + UpLen)
  BY Lengths
<1>3. TypeOK'
  BY <1>1, <1>2 DEF IInv, TypeOK, conn, down, Stages
<1>4. watch = {"server_recv"} /\ remote = "none"
  BY DEF IInv, FlowControl
<1>5. FlowControl' /\ NoOrphan'
  <2>1. /\ watch' = {"server_recv"} /\ remote' = "none" /\ server' = server
        /\ query' = query /\ rq' = rq
    BY <1>4 DEF conn
  <2>2. rq # "live"
    BY DEF IInv, NoOrphan
  <2> QED
    BY <2>1, <2>2 DEF FlowControl, NoOrphan, live
<1>6. UpCount'
  <2>1. stage' \notin {"INIT", "PARSE", "RESOLVE", "STREAM"}
    OBVIOUS
  <2> QED
    BY <2>1 DEF UpCount
<1> QED
  BY <1>3, <1>5, <1>6 DEF IInv

LEMMA ServerRecvInitIInv == IInv /\ ServerRecvInit => IInv'
<1> SUFFICES ASSUME IInv, ServerRecvInit PROVE IInv'
  OBVIOUS
<1>1. PICK r \in 1..BufSize :
        /\ Decoding(r)
        /\ \E n \in Decoded(cRecv + r) \ {0} :
             \/ /\ sess.atyp = "bad"
                /\ stage' = "ERROR"
                /\ blame' = "malformed"
                /\ plain' = n
                /\ sbuf' = Buf(0, 0, 0)
                /\ UNCHANGED <<conn, rbuf, remoteGot, hlen>>
             \/ /\ sess.atyp # "bad"
                /\ n >= HdrLen
                /\ ParseHeader(n)
                /\ UNCHANGED hlen
             \/ /\ sess.atyp # "bad"
                /\ n < HdrLen
                /\ stage' = "HANDSHAKE"
                /\ hlen' = n
                /\ plain' = n
                /\ sbuf' = Buf(0, 0, 0)
                /\ UNCHANGED <<conn, rbuf, remoteGot, blame>>
  BY DEF ServerRecvInit
<1>2. stage = "INIT" /\ UNCHANGED <<sess, obfs, down>>
  BY DEF ServerRecvInit
<1>3. PICK n \in Decoded(cRecv + r) \ {0} :
        \/ /\ stage' = "ERROR"
           /\ blame' = "malformed"
           /\ plain' = n
           /\ sbuf' = Buf(0, 0, 0)
           /\ UNCHANGED <<conn, rbuf, remoteGot, hlen>>
        \/ /\ ParseHeader(n)
           /\ UNCHANGED hlen
        \/ /\ stage' = "HANDSHAKE"
           /\ hlen' = n
           /\ plain' = n
           /\ sbuf' = Buf(0, 0, 0)
           /\ UNCHANGED <<conn, rbuf, remoteGot, blame>>
  BY <1>1
<1>4. /\ Arrived(r) /\ live /\ n \in Nat /\ plain + n + IvLen <= cRecv + r
      /\ plain + n <= HdrLen + UpLen
  BY <1>1, <1>3, DecodingFacts
<1>5. cRecv' = cRecv + r /\ cRecv + r \in 0..Upstream /\ cRecv + r \in Nat
  BY <1>4, ArrivedFacts, Lengths
<1>6. plain = 0
  BY <1>2, <1>4 DEF IInv, UpCount
<1>7. n + IvLen <= cRecv + r /\ n <= HdrLen + UpLen
  BY <1>4, <1>6, Lengths
<1>8. hlen \in Nat /\ "malformed" \in Blames /\ blame \in Blames
  BY DEF IInv, TypeOK, Blames
<1>9. CASE stage' = "ERROR" /\ blame' = "malformed" /\ plain' = n
           /\ sbuf' = Buf(0, 0, 0) /\ UNCHANGED <<conn, rbuf, remoteGot, hlen>>
  BY <1>2, <1>4, <1>5, <1>7, <1>8, <1>9, HeaderIInv
<1>10. CASE stage' = "HANDSHAKE" /\ hlen' = n /\ plain' = n
            /\ sbuf' = Buf(0, 0, 0) /\ UNCHANGED <<conn, rbuf, remoteGot, blame>>
  BY <1>2, <1>4, <1>5, <1>7, <1>8, <1>10, HeaderIInv
<1>11. CASE ParseHeader(n) /\ UNCHANGED hlen
  <2>1. Parsed
    BY <1>2, <1>4, <1>5, <1>7, <1>11, ParseHeaderParsed
  <2> QED
    BY <1>2, <1>5, <1>8, <1>11, <2>1, ParsedIInv
<1> QED
  BY <1>3, <1>9, <1>10, <1>11

LEMMA ServerRecvHandshakeIInv == IInv /\ ServerRecvHandshake => IInv'
<1> SUFFICES ASSUME IInv, ServerRecvHandshake PROVE IInv'
  OBVIOUS
<1>1. PICK r \in 1..BufSize :
        /\ Decoding(r)
        /\ \E n \in Decoded(cRecv + r) \ {0} :
             /\ hlen' = hlen + n
             /\ \/ ParseHeader(hlen + n)
                \/ /\ stage' \in {"HANDSHAKE", "ERROR"}
                   /\ plain' = plain + n
                   /\ sbuf' = Buf(0, 0, 0)
                   /\ UNCHANGED <<conn, rbuf, remoteGot, blame>>
  BY DEF ServerRecvHandshake
<1>2. stage = "HANDSHAKE" /\ UNCHANGED <<sess, obfs, down>>
  BY DEF ServerRecvHandshake
<1>3. PICK n \in Decoded(cRecv + r) \ {0} :
        /\ hlen' = hlen + n
        /\ \/ ParseHeader(hlen + n)
           \/ /\ stage' \in {"HANDSHAKE", "ERROR"}
              /\ plain' = plain + n
              /\ sbuf' = Buf(0, 0, 0)
              /\ UNCHANGED <<conn, rbuf, remoteGot, blame>>
  BY <1>1
<1>4. /\ Arrived(r) /\ live /\ n \in Nat /\ plain + n + IvLen <= cRecv + r
      /\ plain + n <= HdrLen + UpLen
  BY <1>1, <1>3, DecodingFacts
<1>5. cRecv' = cRecv + r /\ cRecv + r \in 0..Upstream /\ cRecv + r \in Nat
  BY <1>4, ArrivedFacts, Lengths
<1>6. hlen = plain /\ plain \in Nat
  BY <1>2, <1>4, TypeFacts DEF IInv, UpCount
<1>7. hlen + n \in Nat /\ plain + n \in Nat /\ hlen + n = plain + n
  BY <1>4, <1>6
<1>8. blame \in Blames
  BY DEF IInv, TypeOK
<1>9. CASE ParseHeader(hlen + n)
  <2>1. Parsed
    BY <1>2, <1>4, <1>5, <1>7, <1>9, ParseHeaderParsed
  <2> QED
    BY <1>2, <1>3, <1>5, <1>7, <2>1, ParsedIInv
<1>10. CASE /\ stage' \in {"HANDSHAKE", "ERROR"} /\ plain' = plain + n
            /\ sbuf' = Buf(0, 0, 0) /\ UNCHANGED <<conn, rbuf, remoteGot, blame>>
  BY <1>2, <1>3, <1>4, <1>5, <1>7, <1>8, <1>10, HeaderIInv
<1> QED
  BY <1>3, <1>9, <1>10

(***************************************************************************)
(* The stream stage.  A step into it or within it keeps the invariant when *)
(* each direction is left with exactly one of its two watchers.            *)
(***************************************************************************)
LEMMA StreamIInv ==
  ASSUME IInv, live, rq # "live",
         stage' = "STREAM", remote' = "connected",
         watch' \subseteq Watchers,
         "server_recv" \in watch' <=> "remote_send" \notin watch',
         "remote_recv" \in watch' <=> "server_send" \notin watch',
         "remote_send" \in watch' => rbuf'.len > 0,
         "server_send" \in watch' => sbuf'.len > 0,
         sbuf' \in Buffer, rbuf' \in Buffer,
         cRecv' \in 0..Upstream, plain' \in 0..(HdrLen + UpLen),
         plain' + IvLen <= cRecv', HdrLen <= plain', dRecv' \in 0..DownLen,
         remoteGot' \in Seq(Nat), clientGot' \in Seq(Nat), blame' \in Blames,
         UNCHANGED <<sess, server, query, rq, reason, obfs, hlen>>
  PROVE  IInv'
<1>1. TypeOK'
  BY DEF IInv, TypeOK, Stages
<1>2. FlowControl'
  BY DEF FlowControl
<1>3. NoOrphan'
  BY DEF NoOrphan, live
<1>4. UpCount'
  BY DEF UpCount
<1> QED
  BY <1>1, <1>2, <1>3, <1>4 DEF IInv

\* What holds in the stream stage.
LEMMA StreamFacts ==
  ASSUME IInv, live, stage = "STREAM"
  PROVE  /\ remote = "connected" /\ rq # "live" /\ watch \subseteq Watchers
         /\ "server_recv" \in watch <=> "remote_send" \notin watch
         /\ "remote_recv" \in watch <=> "server_send" \notin watch
         /\ "remote_send" \in watch => rbuf.len > 0
         /\ "server_send" \in watch => sbuf.len > 0
         /\ plain + IvLen <= cRecv /\ HdrLen <= plain
         /\ sbuf \in Buffer /\ rbuf \in Buffer
         /\ cRecv \in 0..Upstream /\ plain \in 0..(HdrLen + UpLen)
         /\ dRecv \in 0..DownLen
         /\ remoteGot \in Seq(Nat) /\ clientGot \in Seq(Nat) /\ blame \in Blames
<1>1. remote = "connected" /\ rq # "live"
  BY DEF IInv, FlowControl, NoOrphan
<1>2. /\ "server_recv" \in watch <=> "remote_send" \notin watch
      /\ "remote_recv" \in watch <=> "server_send" \notin watch
      /\ "remote_send" \in watch => rbuf.len > 0
      /\ "server_send" \in watch => sbuf.len > 0
  BY DEF IInv, FlowControl
<1>3. plain + IvLen <= cRecv /\ HdrLen <= plain
  BY DEF IInv, UpCount
<1> QED
  BY <1>1, <1>2, <1>3 DEF IInv, TypeOK

LEMMA ServerRecvStreamIInv == IInv /\ ServerRecvStream => IInv'
<1> SUFFICES ASSUME IInv, ServerRecvStream PROVE IInv'
  OBVIOUS
<1>1. PICK r \in 1..BufSize :
        /\ Decoding(r)
        /\ \E n \in Decoded(cRecv + r) \ {0} :
             /\ plain' = plain + n
             /\ \/ \E s \in 0..(n - 1) :
                     /\ remoteGot' = remoteGot \o Run(plain, s)
                     /\ rbuf' = Buf(plain, s, n - s)
                     /\ Switch("server_recv", {"remote_send"})
                     /\ Keep /\ UNCHANGED remote
                \/ /\ remoteGot' = remoteGot \o Run(plain, n)
                   /\ rbuf' = Buf(plain, rbuf.idx, n)
                   /\ UNCHANGED conn
                \/ /\ CloseBoth("remote_error")
                   /\ UNCHANGED <<rbuf, remoteGot>>
  BY DEF ServerRecvStream
<1>2. stage = "STREAM" /\ UNCHANGED <<sess, stage, obfs, sbuf, hlen, down, blame>>
  BY DEF ServerRecvStream
<1>3. PICK n \in Decoded(cRecv + r) \ {0} :
        /\ plain' = plain + n
        /\ \/ \E s \in 0..(n - 1) :
                /\ remoteGot' = remoteGot \o Run(plain, s)
                /\ rbuf' = Buf(plain, s, n - s)
                /\ Switch("server_recv", {"remote_send"})
                /\ Keep /\ UNCHANGED remote
           \/ /\ remoteGot' = remoteGot \o Run(plain, n)
              /\ rbuf' = Buf(plain, rbuf.idx, n)
              /\ UNCHANGED conn
           \/ /\ CloseBoth("remote_error")
              /\ UNCHANGED <<rbuf, remoteGot>>
  BY <1>1
<1>4. /\ Arrived(r) /\ live /\ n \in Nat /\ plain + n + IvLen <= cRecv + r
      /\ plain + n <= HdrLen + UpLen
  BY <1>1, <1>3, DecodingFacts
<1>5. cRecv' = cRecv + r /\ cRecv' \in 0..Upstream /\ "server_recv" \in watch
  BY <1>4, ArrivedFacts
<1>6. /\ plain \in Nat /\ plain' \in 0..(HdrLen + UpLen) /\ plain' + IvLen <= cRecv'
      /\ HdrLen <= plain'
  <2>1. plain \in Nat /\ HdrLen <= plain /\ plain' = plain + n /\ cRecv \in Nat
    BY <1>2, <1>3, <1>4, StreamFacts, TypeFacts
  <2> QED
    BY <1>4, <1>5, <2>1, Lengths
<1>7. ASSUME NEW s \in 0..(n - 1),
             remoteGot' = remoteGot \o Run(plain, s),
             rbuf' = Buf(plain, s, n - s),
             Switch("server_recv", {"remote_send"}),
             Keep, UNCHANGED remote
      PROVE  IInv'
  <2>1. s \in Nat /\ n - s \in Nat /\ n - s > 0
    BY <1>4
  <2>2. rbuf' \in Buffer /\ rbuf'.len > 0
    BY <1>6, <1>7, <2>1 DEF Buf, Buffer
  <2>3. remoteGot' \in Seq(Nat)
    BY <1>6, <1>7, <2>1, TypeFacts, AppendRun
  <2>4. watch' = (watch \ {"server_recv"}) \cup {"remote_send"}
    BY <1>7 DEF Switch
  <2>5. watch' \subseteq Watchers
    BY <1>2, <1>4, <2>4, StreamFacts DEF Watchers
  <2> QED
    BY <1>2, <1>4, <1>5, <1>6, <1>7, <2>2, <2>3, <2>4, <2>5, StreamFacts, StreamIInv
       DEF Keep, down
<1>8. ASSUME remoteGot' = remoteGot \o Run(plain, n),
             rbuf' = Buf(plain, rbuf.idx, n),
             UNCHANGED conn
      PROVE  IInv'
  <2>1. rbuf' \in Buffer
    BY <1>4, <1>6, <1>8, TypeFacts, BufFields
  <2>2. remoteGot' \in Seq(Nat)
    BY <1>4, <1>6, <1>8, TypeFacts, AppendRun
  <2>3. "remote_send" \notin watch'
    BY <1>2, <1>4, <1>5, <1>8, StreamFacts DEF conn
  <2> QED
    BY <1>2, <1>4, <1>5, <1>6, <1>8, <2>1, <2>2, <2>3, StreamFacts, StreamIInv
       DEF conn, down
<1>9. ASSUME CloseBoth("remote_error"), UNCHANGED <<rbuf, remoteGot>>
      PROVE  IInv'
  BY <1>2, <1>4, <1>5, <1>6, <1>9, CloseBothIInv DEF IInv, TypeOK, Reasons, down
<1> QED
  BY <1>3, <1>7, <1>8, <1>9

LEMMA ServerRecvCbIInv == IInv /\ ServerRecvCb => IInv'
BY ServerRecvEndIInv, ServerRecvDiscardIInv, ServerRecvWaitIInv,
   ServerRecvObfsIInv, ServerRecvRejectIInv, ServerRecvHoldIInv,
   ServerRecvInitIInv, ServerRecvHandshakeIInv, ServerRecvStreamIInv
   DEF ServerRecvCb

LEMMA ServerResolveCbIInv == IInv /\ ServerResolveCb => IInv'
<1> SUFFICES ASSUME IInv, ServerResolveCb PROVE IInv'
  OBVIOUS
<1>1. /\ rq = "live" /\ rq' = "freed" /\ query' = "null"
      /\ UNCHANGED <<sess, stage, obfs, hlen, cRecv, plain, down, blame>>
  BY DEF ServerResolveCb, QueryAnswered
<1>2. live /\ stage = "RESOLVE" /\ remote = "none" /\ watch = {}
  BY <1>1 DEF IInv, NoOrphan, FlowControl
<1>3. UpCount'
  BY <1>1, <1>2 DEF IInv, UpCount
<1>4. ASSUME NEW why \in {"unresolved", "unreachable"},
             server' = "freed", reason' = why,
             watch' = watch \ {"server_recv", "server_send"},
             UNCHANGED <<remote, sbuf, rbuf, remoteGot>>
      PROVE  IInv'
  <2>1. TypeOK'
    BY <1>1, <1>2, <1>4 DEF IInv, TypeOK, Reasons, down
  <2>2. FlowControl' /\ NoOrphan'
    BY <1>1, <1>2, <1>4 DEF FlowControl, NoOrphan, live
  <2> QED
    BY <1>3, <2>1, <2>2 DEF IInv
<1>5. ASSUME NEW sent \in ConnectToRemote(sbuf.len) \ {NoRemote},
             AdoptRemote(sbuf, sent, sbuf.base + sbuf.idx + sent),
             watch' = watch \cup {"remote_send"},
             UNCHANGED <<server, reason>>
      PROVE  IInv'
  <2> DEFINE b == sbuf.base
             i == sbuf.idx
             l == sbuf.len
  <2>1. b \in Nat /\ i \in Nat /\ l \in Nat
    BY TypeFacts
  <2>2. sent \in 0..l
    BY <1>5, <2>1, ConnectFacts
  <2>3. sbuf = Buf(b, i, l)
    BY DEF IInv, TypeOK, Buffer, Buf
  <2>4. b + i + sent \in Nat
    BY <2>1, <2>2
  <2>5. remoteGot \in Seq(Nat)
    BY TypeFacts
  <2>6. AdoptRemote(Buf(b, i, l), sent, b + i + sent)
    BY <1>5, <2>3
  <2> HIDE DEF b, i, l
  <2>7. remote' = "connecting" /\ sbuf' \in Buffer /\ rbuf' \in Buffer /\ remoteGot' \in Seq(Nat)
    BY <2>1, <2>2, <2>4, <2>5, <2>6, AdoptFacts
  <2>8. watch' = {"remote_send"}
    BY <1>2, <1>5
  <2>9. TypeOK'
    BY <1>1, <1>5, <2>7, <2>8 DEF IInv, TypeOK, Watchers, down
  <2>10. FlowControl' /\ NoOrphan'
    BY <1>1, <1>2, <1>5, <2>7, <2>8 DEF FlowControl, NoOrphan, live
  <2> QED
    BY <1>3, <2>9, <2>10 DEF IInv
<1> QED
  BY <1>4, <1>5 DEF ServerResolveCb

(***************************************************************************)
(* remote_send_cb, with the remote connecting or connected.                *)
(***************************************************************************)
LEMMA WritingFacts ==
  ASSUME IInv, Writing
  PROVE  /\ live /\ "remote_send" \in watch /\ stage \in {"PARSE", "RESOLVE", "STREAM"}
         /\ remote \in {"connecting", "connected"} /\ rq # "live"
         /\ stage # "STREAM" => watch = {"remote_send"}
         /\ plain + IvLen <= cRecv /\ HdrLen <= plain
<1>1. live /\ "remote_send" \in watch
  BY DEF Writing
<1>2. stage \in {"PARSE", "RESOLVE", "STREAM"}
  BY <1>1 DEF IInv, TypeOK, Stages, FlowControl
<1>3. stage # "STREAM" => remote # "none"
  BY <1>1, <1>2 DEF IInv, FlowControl
<1>4. remote \in {"connecting", "connected"} /\ (stage # "STREAM" => watch = {"remote_send"})
  BY <1>1, <1>2, <1>3 DEF IInv, FlowControl
<1>5. rq # "live"
  BY <1>1, <1>4 DEF IInv, NoOrphan
<1> QED
  BY <1>1, <1>2, <1>4, <1>5 DEF IInv, UpCount

LEMMA RemoteSendErrorIInv == IInv /\ RemoteSendError => IInv'
<1> SUFFICES ASSUME IInv, RemoteSendError PROVE IInv'
  OBVIOUS
<1>1. blame' \in Blames
  BY DEF IInv, TypeOK, RemoteSendError, Blames
<1> QED
  BY <1>1, CloseBothIInv DEF IInv, TypeOK, RemoteSendError, Writing, Reasons, up, down

\* Both ways to complete the send: StartStream with a buffer in the types.
LEMMA StartStreamIInv ==
  ASSUME IInv, Writing, Connected, StartStream,
         rbuf' \in Buffer, remoteGot' \in Seq(Nat),
         UNCHANGED <<sess, obfs, sbuf, hlen, cRecv, plain, down>>
  PROVE  IInv'
<1>1. remote' = "connected" /\ blame' \in Blames
  BY DEF Connected, IInv, TypeOK, Blames
<1>2. /\ stage' = "STREAM" /\ UNCHANGED <<server, query, rq, reason>>
      /\ watch' = (watch \ {"remote_send"})
                    \cup IF stage = "STREAM" THEN {"server_recv"}
                         ELSE {"server_recv", "remote_recv"}
  BY DEF StartStream, Switch, Keep
<1>3. /\ watch' \subseteq Watchers
      /\ "server_recv" \in watch' /\ "remote_send" \notin watch'
      /\ "remote_recv" \in watch' <=> "server_send" \notin watch'
      /\ "server_send" \in watch' => sbuf'.len > 0
  <2>1. CASE stage = "STREAM"
    BY <1>2, <2>1, WritingFacts, StreamFacts DEF Watchers
  <2>2. CASE stage # "STREAM"
    BY <1>2, <2>2, WritingFacts DEF Watchers
  <2> QED
    BY <2>1, <2>2
<1>4. /\ live /\ rq # "live"
      /\ plain' + IvLen <= cRecv' /\ HdrLen <= plain'
  BY WritingFacts
<1>5. /\ sbuf' \in Buffer /\ cRecv' \in 0..Upstream
      /\ plain' \in 0..(HdrLen + UpLen) /\ dRecv' \in 0..DownLen
      /\ clientGot' \in Seq(Nat)
  BY DEF IInv, TypeOK, down
<1> QED
  BY <1>1, <1>2, <1>3, <1>4, <1>5, StreamIInv

LEMMA RemoteSendNothingIInv == IInv /\ RemoteSendNothing => IInv'
<1> SUFFICES ASSUME IInv, RemoteSendNothing PROVE IInv'
  OBVIOUS
<1>1. rbuf' \in Buffer /\ remoteGot' \in Seq(Nat)
  BY DEF IInv, TypeOK, RemoteSendNothing, up
<1> QED
  BY <1>1, StartStreamIInv DEF RemoteSendNothing, up

LEMMA RemoteSendAllIInv == IInv /\ RemoteSendAll => IInv'
<1> SUFFICES ASSUME IInv, RemoteSendAll PROVE IInv'
  OBVIOUS
<1>1. rbuf' \in Buffer
  BY TypeFacts, BufFields DEF RemoteSendAll
<1>2. remoteGot' \in Seq(Nat)
  BY TypeFacts, AppendUnsent DEF RemoteSendAll, IInv, TypeOK
<1> QED
  BY <1>1, <1>2, StartStreamIInv DEF RemoteSendAll

LEMMA RemoteSendPartIInv == IInv /\ RemoteSendPart => IInv'
<1> SUFFICES ASSUME IInv, RemoteSendPart PROVE IInv'
  OBVIOUS
<1>1. PICK s \in 0..(rbuf.len - 1) :
        /\ remoteGot' = remoteGot \o Unsent(rbuf, s)
        /\ rbuf' = Rest(rbuf, s)
  BY DEF RemoteSendPart
<1>2. s \in 0..rbuf.len /\ s \in Nat /\ rbuf.len - s > 0 /\ rbuf \in Buffer
  <2>1. rbuf \in Buffer
    BY DEF IInv, TypeOK
  <2>2. rbuf.len \in Nat
    BY <2>1, BufferFields
  <2> QED
    BY <2>1, <2>2
<1>3. rbuf' \in Buffer /\ rbuf'.len > 0
  <2>1. Rest(rbuf, s) \in Buffer /\ Rest(rbuf, s).len = rbuf.len - s
    BY <1>2, RestFields
  <2> QED
    BY <1>1, <1>2, <2>1
<1>4. remoteGot' \in Seq(Nat)
  BY <1>1, <1>2, TypeFacts, AppendUnsent
<1>5. /\ Writing /\ remote' = "connected" /\ blame' \in Blames
      /\ UNCHANGED <<sess, stage, watch, obfs, sbuf, hlen, cRecv, plain, down,
                     server, query, rq, reason>>
  BY DEF RemoteSendPart, Connected, Keep, IInv, TypeOK, Blames
<1>6. TypeOK'
  BY <1>3, <1>4, <1>5 DEF IInv, TypeOK, down
<1>7. FlowControl'
  <2>1. CASE stage = "STREAM"
    BY <1>3, <1>5, <2>1, WritingFacts, StreamFacts DEF FlowControl
  <2>2. CASE stage # "STREAM"
    BY <1>3, <1>5, <2>2, WritingFacts DEF FlowControl
  <2> QED
    BY <2>1, <2>2
<1>8. NoOrphan'
  BY <1>5, WritingFacts DEF NoOrphan, live
<1>9. UpCount'
  BY <1>5, WritingFacts DEF UpCount
<1> QED
  BY <1>6, <1>7, <1>8, <1>9 DEF IInv

LEMMA RemoteSendCbIInv == IInv /\ RemoteSendCb => IInv'
BY RemoteSendErrorIInv, RemoteSendNothingIInv, RemoteSendPartIInv,
   RemoteSendAllIInv DEF RemoteSendCb

(***************************************************************************)
(* The direction from the remote to the client.                            *)
(***************************************************************************)
LEMMA RemoteRecvEndIInv == IInv /\ RemoteRecvEnd => IInv'
<1> SUFFICES ASSUME IInv, RemoteRecvEnd PROVE IInv'
  OBVIOUS
<1> QED
  BY CloseBothIInv DEF IInv, TypeOK, RemoteRecvEnd, RemoteReading, Reasons, up, down

LEMMA RemoteReadingFacts ==
  ASSUME IInv, live, "remote_recv" \in watch \/ "server_send" \in watch
  PROVE  stage = "STREAM"
BY DEF IInv, TypeOK, Stages, FlowControl

LEMMA RemoteRecvDataIInv == IInv /\ RemoteRecvData => IInv'
<1> SUFFICES ASSUME IInv, RemoteRecvData PROVE IInv'
  OBVIOUS
<1>1. PICK r \in 1..Smaller(BufSize, DownLen - dRecv) :
        /\ dRecv' = dRecv + r
        /\ \/ \E s \in 0..(r - 1) :
                /\ clientGot' = clientGot \o Run(DownBase + dRecv, s)
                /\ sbuf' = Buf(DownBase + dRecv, s, r - s)
                /\ Switch("remote_recv", {"server_send"})
                /\ Keep /\ UNCHANGED remote
           \/ /\ clientGot' = clientGot \o Run(DownBase + dRecv, r)
              /\ sbuf' = Buf(DownBase + dRecv, sbuf.idx, r)
              /\ UNCHANGED conn
           \/ /\ CloseBoth("client_error")
              /\ UNCHANGED <<sbuf, clientGot>>
  BY DEF RemoteRecvData
<1>2. /\ live /\ "remote_recv" \in watch
      /\ UNCHANGED <<sess, stage, obfs, rbuf, hlen, up, blame>>
  BY DEF RemoteRecvData, RemoteReading
<1>3. stage = "STREAM"
  BY <1>2, RemoteReadingFacts
<1>4. r \in Nat /\ DownBase + dRecv \in Nat /\ dRecv' \in 0..DownLen
  <2>1. dRecv \in Nat /\ DownLen \in Nat /\ BufSize \in Nat /\ DownBase \in Nat
    BY TypeFacts, Lengths
  <2>2. r <= DownLen - dRecv /\ r \in Nat
    BY <2>1 DEF Smaller
  <2>3. DownBase + dRecv \in Nat
    BY <2>1
  <2> QED
    BY <1>1, <2>1, <2>2, <2>3
<1>5. ASSUME NEW s \in 0..(r - 1),
             clientGot' = clientGot \o Run(DownBase + dRecv, s),
             sbuf' = Buf(DownBase + dRecv, s, r - s),
             Switch("remote_recv", {"server_send"}),
             Keep, UNCHANGED remote
      PROVE  IInv'
  <2>1. s \in Nat /\ r - s \in Nat /\ r - s > 0
    BY <1>4
  <2>2. sbuf' \in Buffer /\ sbuf'.len > 0
    BY <1>4, <1>5, <2>1 DEF Buf, Buffer
  <2>3. clientGot' \in Seq(Nat)
    BY <1>4, <1>5, <2>1, TypeFacts, AppendRun
  <2>4. watch' = (watch \ {"remote_recv"}) \cup {"server_send"}
    BY <1>5 DEF Switch
  <2>5. watch' \subseteq Watchers
    BY <1>2, <1>3, <2>4, StreamFacts DEF Watchers
  <2> QED
    BY <1>2, <1>3, <1>4, <1>5, <2>2, <2>3, <2>4, <2>5, StreamFacts, StreamIInv
       DEF Keep, up
<1>6. ASSUME clientGot' = clientGot \o Run(DownBase + dRecv, r),
             sbuf' = Buf(DownBase + dRecv, sbuf.idx, r),
             UNCHANGED conn
      PROVE  IInv'
  <2>1. sbuf' \in Buffer
    BY <1>4, <1>6, TypeFacts, BufFields
  <2>2. clientGot' \in Seq(Nat)
    BY <1>4, <1>6, TypeFacts, AppendRun
  <2>3. "server_send" \notin watch'
    BY <1>2, <1>3, <1>6, StreamFacts DEF conn
  <2> QED
    BY <1>2, <1>3, <1>4, <1>6, <2>1, <2>2, <2>3, StreamFacts, StreamIInv
       DEF conn, up
<1>7. ASSUME CloseBoth("client_error"), UNCHANGED <<sbuf, clientGot>>
      PROVE  IInv'
  BY <1>2, <1>4, <1>7, CloseBothIInv DEF IInv, TypeOK, Reasons, up
<1> QED
  BY <1>1, <1>5, <1>6, <1>7

LEMMA ServerSendErrorIInv == IInv /\ ServerSendError => IInv'
<1> SUFFICES ASSUME IInv, ServerSendError PROVE IInv'
  OBVIOUS
<1> QED
  BY CloseBothIInv DEF IInv, TypeOK, ServerSendError, Answering, Reasons, up, down

LEMMA ServerSendPartIInv == IInv /\ ServerSendPart => IInv'
<1> SUFFICES ASSUME IInv, ServerSendPart PROVE IInv'
  OBVIOUS
<1>1. PICK s \in 1..(sbuf.len - 1) :
        /\ clientGot' = clientGot \o Unsent(sbuf, s)
        /\ sbuf' = Rest(sbuf, s)
  BY DEF ServerSendPart
<1>2. s \in 0..sbuf.len /\ s \in Nat /\ sbuf.len - s > 0 /\ sbuf \in Buffer
  <2>1. sbuf \in Buffer
    BY DEF IInv, TypeOK
  <2>2. sbuf.len \in Nat
    BY <2>1, BufferFields
  <2> QED
    BY <2>1, <2>2
<1>3. sbuf' \in Buffer /\ sbuf'.len > 0
  <2>1. Rest(sbuf, s) \in Buffer /\ Rest(sbuf, s).len = sbuf.len - s
    BY <1>2, RestFields
  <2> QED
    BY <1>1, <1>2, <2>1
<1>4. clientGot' \in Seq(Nat)
  BY <1>1, <1>2, TypeFacts, AppendUnsent
<1>5. /\ live /\ "server_send" \in watch
      /\ UNCHANGED <<sess, stage, conn, obfs, rbuf, hlen, up, dRecv, blame>>
  BY DEF ServerSendPart, Answering
<1>6. stage = "STREAM"
  BY <1>5, RemoteReadingFacts
<1> QED
  BY <1>3, <1>4, <1>5, <1>6, StreamFacts, StreamIInv DEF conn, up

LEMMA ServerSendAllIInv == IInv /\ ServerSendAll => IInv'
<1> SUFFICES ASSUME IInv, ServerSendAll PROVE IInv'
  OBVIOUS
<1>1. sbuf' \in Buffer
  BY TypeFacts, BufFields DEF ServerSendAll
<1>2. clientGot' \in Seq(Nat)
  BY TypeFacts, AppendUnsent DEF ServerSendAll, IInv, TypeOK
<1>3. /\ live /\ "server_send" \in watch
      /\ watch' = (watch \ {"server_send"}) \cup {"remote_recv"}
      /\ UNCHANGED <<sess, stage, remote, obfs, rbuf, hlen, up, dRecv, blame,
                     server, query, rq, reason>>
  BY DEF ServerSendAll, Answering, Switch, Keep
<1>4. stage = "STREAM"
  BY <1>3, RemoteReadingFacts
<1>5. watch' \subseteq Watchers
  BY <1>3, <1>4, StreamFacts DEF Watchers
<1> QED
  BY <1>1, <1>2, <1>3, <1>4, <1>5, StreamFacts, StreamIInv DEF up

LEMMA TimedOutIInv == IInv /\ TimedOut => IInv'
<1> SUFFICES ASSUME IInv, TimedOut PROVE IInv'
  OBVIOUS
<1>1. blame' \in Blames
  BY DEF IInv, TypeOK, TimedOut, Blames
<1> QED
  BY <1>1, CloseBothIInv DEF IInv, TypeOK, TimedOut, Reasons, up, down

(***************************************************************************)
(* The invariant is inductive.                                             *)
(***************************************************************************)
LEMMA NextIInv == IInv /\ [Next]_vars => IInv'
<1> SUFFICES ASSUME IInv, [Next]_vars PROVE IInv'
  OBVIOUS
<1>1. CASE ServerRecvCb
  BY <1>1, ServerRecvCbIInv
<1>2. CASE ServerResolveCb
  BY <1>2, ServerResolveCbIInv
<1>3. CASE RemoteSendCb
  BY <1>3, RemoteSendCbIInv
<1>4. CASE RemoteRecvCb
  BY <1>4, RemoteRecvEndIInv, RemoteRecvDataIInv DEF RemoteRecvCb
<1>5. CASE ServerSendCb
  BY <1>5, ServerSendErrorIInv, ServerSendPartIInv, ServerSendAllIInv DEF ServerSendCb
<1>6. CASE RequestTimeout \/ IdleTimeout
  BY <1>6, TimedOutIInv DEF RequestTimeout, IdleTimeout
<1>7. CASE UNCHANGED vars
  BY <1>7 DEF vars, conn, up, down, IInv, TypeOK, FlowControl, NoOrphan, UpCount, live
<1> QED
  BY <1>1, <1>2, <1>3, <1>4, <1>5, <1>6, <1>7 DEF Next

LEMMA SpecIInv == Spec => []IInv
<1>1. Init => IInv
  BY InitIInv
<1>2. IInv /\ [Next]_vars => IInv'
  BY NextIInv
<1> QED
  BY <1>1, <1>2, PTL DEF Spec

\* Type correctness of the relay of ssr-server.
THEOREM TypeCorrect == Spec => []TypeOK
<1>1. IInv => TypeOK
  BY DEF IInv
<1> QED
  BY <1>1, SpecIInv, PTL

\* Flow control: in every stage exactly the watchers the stage calls for are
\* active, and a side is read only while nothing waits to be written to the
\* other, whatever the lengths and the sizes of the buffers.
THEOREM FlowControlled == Spec => []FlowControl
<1>1. IInv => FlowControl
  BY DEF IInv
<1> QED
  BY <1>1, SpecIInv, PTL

\* Lifetimes: server_t, remote_t, watchers and DNS query end together.
THEOREM NoOrphans == Spec => []NoOrphan
<1>1. IInv => NoOrphan
  BY DEF IInv
<1> QED
  BY <1>1, SpecIInv, PTL

-----------------------------------------------------------------------------
(***************************************************************************)
(* Who is accused.                                                         *)
(***************************************************************************)
Accused == blame \in {"malformed", "suspicious"}
Untouched == remoteGot = <<>> /\ clientGot = <<>>

\* A connection without a remote has relayed nothing; an accused one has no
\* remote, and if it still lives it only waits for its timer.
Innocent ==
  /\ live /\ remote = "none" => Untouched
  /\ Accused => /\ remote = "none" /\ Untouched
                /\ live => stage = "ERROR"

\* Once there is a remote nobody is accused any more.
LEMMA RemoteInnocent ==
  ASSUME Innocent, remote # "none", remote' # "none",
         blame' \in {blame, "reset", "bad", "malicious"}
  PROVE  Innocent'
BY DEF Innocent, Accused

LEMMA Closing ==
  ASSUME NEW why, CloseBoth(why)
  PROVE  ~live' /\ (remote # "none" => remote' # "none")
                /\ (remote = "none" => remote' = "none")
BY DEF CloseBoth, live

\* A connection that is closed or goes on while nothing is relayed.
LEMMA QuietInnocent ==
  ASSUME Innocent, UNCHANGED <<remoteGot, clientGot>>,
         live, remote = "none" => remote' = "none",
         remote # "none" => remote' # "none",
         blame' \in {blame, "reset", "bad", "malicious"},
         live' => stage' = stage
  PROVE  Innocent'
BY DEF Innocent, Accused, Untouched

LEMMA ParseHeaderInnocent ==
  ASSUME Innocent, live, stage # "ERROR", remote = "none",
         NEW len, ParseHeader(len), UNCHANGED clientGot
  PROVE  Innocent'
<1>1. Untouched /\ ~Accused
  BY DEF Innocent
<1>2. CASE CloseServer("malformed") /\ UNCHANGED remoteGot
  BY <1>1, <1>2 DEF CloseServer, Innocent, Untouched, live
<1>3. CASE CloseServer("rejected") /\ UNCHANGED remoteGot
  BY <1>1, <1>3 DEF CloseServer, Innocent, Untouched, live
<1>4. ASSUME UNCHANGED blame, NEW buf, ConnectDirectly(buf) \/ Resolve(buf)
      PROVE  Innocent'
  <2>1. CASE UNCHANGED <<remote, remoteGot>>
    BY <1>1, <1>4, <2>1 DEF Innocent, Accused, Untouched
  <2>2. CASE remote' = "connecting"
    BY <1>1, <1>4, <2>2 DEF Innocent, Accused
  <2>3. ConnectDirectly(buf) => UNCHANGED <<remote, remoteGot>> \/ remote' = "connecting"
    BY DEF ConnectDirectly, CloseServer, AdoptRemote
  <2>4. Resolve(buf) => UNCHANGED <<remote, remoteGot>>
    BY DEF Resolve
  <2> QED
    BY <1>4, <2>1, <2>2, <2>3, <2>4
<1> QED
  BY <1>2, <1>3, <1>4 DEF ParseHeader

LEMMA ServerRecvCbInnocent == IInv /\ Innocent /\ ServerRecvCb => Innocent'
<1> SUFFICES ASSUME IInv, Innocent, ServerRecvCb PROVE Innocent'
  OBVIOUS
<1>1. CASE ServerRecvEnd
  BY <1>1, Closing, QuietInnocent DEF ServerRecvEnd, Reading, up, down
<1>2. CASE ServerRecvDiscard \/ ServerRecvWait \/ ServerRecvHold
  <2>1. live
    BY <1>2 DEF ServerRecvDiscard, ServerRecvWait, ServerRecvHold, Decoding, Arrived, Reading
  <2>2. UNCHANGED <<stage, conn, remoteGot, down, blame>>
    BY <1>2 DEF ServerRecvDiscard, ServerRecvWait, ServerRecvHold
  <2> QED
    BY <2>1, <2>2, QuietInnocent DEF conn, down
<1>3. CASE ServerRecvObfs
  <2>1. live /\ UNCHANGED <<stage, remoteGot, clientGot, blame>>
    BY <1>3 DEF ServerRecvObfs, Reading, up, down
  <2>2. UNCHANGED conn \/ CloseBoth("rejected")
    BY <1>3 DEF ServerRecvObfs
  <2> QED
    BY <2>1, <2>2, Closing, QuietInnocent DEF conn
<1>4. CASE ServerRecvReject
  <2>1. live /\ CloseBoth("rejected") /\ UNCHANGED <<stage, remoteGot, clientGot>>
    BY <1>4 DEF ServerRecvReject, Decoding, Arrived, Reading, down
  <2>2. blame' \in {blame, "malicious", "bad"}
    BY <1>4 DEF ServerRecvReject
  <2> QED
    BY <2>1, <2>2, Closing, QuietInnocent
<1>5. CASE ServerRecvInit \/ ServerRecvHandshake
  <2>1. live /\ stage \in {"INIT", "HANDSHAKE"} /\ UNCHANGED clientGot
    BY <1>5 DEF ServerRecvInit, ServerRecvHandshake, Decoding, Arrived, Reading, down
  <2>2. remote = "none" /\ Untouched /\ ~Accused
    BY <2>1 DEF IInv, FlowControl, Innocent
  <2>3. \/ \E len : ParseHeader(len)
        \/ /\ UNCHANGED <<conn, remoteGot>>
           /\ blame' = blame \/ stage' = "ERROR"
    BY <1>5 DEF ServerRecvInit, ServerRecvHandshake
  <2>4. CASE \E len : ParseHeader(len)
    BY <2>1, <2>2, <2>4, ParseHeaderInnocent
  <2>5. CASE UNCHANGED <<conn, remoteGot>> /\ (blame' = blame \/ stage' = "ERROR")
    BY <2>1, <2>2, <2>5 DEF Innocent, Accused, Untouched, conn
  <2> QED
    BY <2>3, <2>4, <2>5
<1>6. CASE ServerRecvStream
  <2>1. live /\ stage = "STREAM"
    BY <1>6 DEF ServerRecvStream, Decoding, Arrived, Reading
  <2>2. remote # "none"
    BY <2>1 DEF IInv, FlowControl
  <2>3. remote' = remote \/ CloseBoth("remote_error")
    BY <1>6 DEF ServerRecvStream, conn
  <2>4. blame' = blame
    BY <1>6 DEF ServerRecvStream
  <2> QED
    BY <2>2, <2>3, <2>4, Closing, RemoteInnocent
<1> QED
  BY <1>1, <1>2, <1>3, <1>4, <1>5, <1>6 DEF ServerRecvCb

LEMMA ServerResolveCbInnocent == IInv /\ Innocent /\ ServerResolveCb => Innocent'
<1> SUFFICES ASSUME IInv, Innocent, ServerResolveCb PROVE Innocent'
  OBVIOUS
<1>1. live /\ stage = "RESOLVE" /\ remote = "none"
  BY DEF IInv, NoOrphan, ServerResolveCb
<1>2. Untouched /\ ~Accused
  BY <1>1 DEF Innocent
<1>3. UNCHANGED <<blame, clientGot>>
  BY DEF ServerResolveCb, down
<1>4. UNCHANGED <<remote, remoteGot>> \/ remote' = "connecting"
  BY DEF ServerResolveCb, AdoptRemote
<1> QED
  BY <1>2, <1>3, <1>4 DEF Innocent, Accused, Untouched

LEMMA RemoteInnocentStep ==
  IInv /\ Innocent /\ (RemoteSendCb \/ RemoteRecvCb \/ ServerSendCb) => Innocent'
<1> SUFFICES ASSUME IInv, Innocent, RemoteSendCb \/ RemoteRecvCb \/ ServerSendCb
             PROVE  Innocent'
  OBVIOUS
<1>1. live /\ watch \cap {"remote_send", "remote_recv", "server_send"} # {}
  BY DEF RemoteSendCb, RemoteSendError, RemoteSendNothing, RemoteSendPart, RemoteSendAll,
         RemoteRecvCb, RemoteRecvEnd, RemoteRecvData, ServerSendCb, ServerSendError,
         ServerSendPart, ServerSendAll, Writing, RemoteReading, Answering
<1>2. remote # "none"
  BY <1>1 DEF IInv, TypeOK, Stages, FlowControl
<1>3. CASE RemoteSendCb
  <2>1. (\E why : CloseBoth(why)) \/ remote' = "connected"
    BY <1>3 DEF RemoteSendCb, RemoteSendError, RemoteSendNothing, RemoteSendPart,
                RemoteSendAll, Connected
  <2>2. blame' \in {blame, "reset"}
    BY <1>3 DEF RemoteSendCb, RemoteSendError, RemoteSendNothing, RemoteSendPart,
                RemoteSendAll, Connected
  <2> QED
    BY <1>2, <2>1, <2>2, Closing, RemoteInnocent
<1>4. CASE RemoteRecvCb \/ ServerSendCb
  <2>1. (\E why : CloseBoth(why)) \/ remote' = remote
    BY <1>4 DEF RemoteRecvCb, RemoteRecvEnd, RemoteRecvData, ServerSendCb,
                ServerSendError, ServerSendPart, ServerSendAll, conn
  <2>2. blame' = blame
    BY <1>4 DEF RemoteRecvCb, RemoteRecvEnd, RemoteRecvData, ServerSendCb,
                ServerSendError, ServerSendPart, ServerSendAll
  <2> QED
    BY <1>2, <2>1, <2>2, Closing, RemoteInnocent
<1> QED
  BY <1>3, <1>4

LEMMA TimedOutInnocent == IInv /\ Innocent /\ TimedOut => Innocent'
<1> SUFFICES ASSUME IInv, Innocent, TimedOut PROVE Innocent'
  OBVIOUS
<1>1. live /\ CloseBoth("timeout") /\ UNCHANGED <<stage, remoteGot, clientGot>>
  BY DEF TimedOut, up, down
<1>2. CASE HeaderPending
  <2>1. remote = "none" /\ Untouched
    BY <1>1, <1>2 DEF HeaderPending, IInv, FlowControl, Innocent
  <2> QED
    BY <1>1, <2>1, Closing DEF Innocent, Untouched
<1>3. CASE ~HeaderPending
  BY <1>1, <1>3, Closing, QuietInnocent DEF TimedOut
<1> QED
  BY <1>2, <1>3

LEMMA NextInnocent == IInv /\ Innocent /\ [Next]_vars => Innocent'
<1> SUFFICES ASSUME IInv, Innocent, [Next]_vars PROVE Innocent'
  OBVIOUS
<1>1. CASE UNCHANGED vars
  BY <1>1 DEF vars, conn, up, down, Innocent, Accused, Untouched, live
<1> QED
  BY <1>1, ServerRecvCbInnocent, ServerResolveCbInnocent, RemoteInnocentStep,
     TimedOutInnocent DEF Next, RequestTimeout, IdleTimeout

(***************************************************************************)
(* Nobody is put on the block list as malformed or suspicious for a        *)
(* connection that relayed anything in either direction, wherever the      *)
(* request timer strikes and however the header was cut.                   *)
(***************************************************************************)
THEOREM InnocentUntilRelayed == Spec => []NothingRelayedBeforeBlame
<1>1. Init => Innocent
  BY DEF Init, Innocent, Accused, Untouched
<1>2. IInv /\ Innocent /\ [Next]_vars => Innocent'
  BY NextInnocent
<1>3. Innocent => NothingRelayedBeforeBlame
  BY DEF Innocent, Accused, Untouched, NothingRelayedBeforeBlame
<1> QED
  BY <1>1, <1>2, <1>3, SpecIInv, PTL DEF Spec

-----------------------------------------------------------------------------
(***************************************************************************)
(* The pointer in server->query.                                           *)
(***************************************************************************)

\* What any step does to it: nothing, or it is cleared, or a query is made.
LEMMA QueryStep ==
  ASSUME Next
  PROVE  \/ UNCHANGED <<query, rq>>
         \/ query' = "null"
         \/ rq' = IF sess.atyp = "longhost" THEN "freed" ELSE "live"
<1>1. CASE \E why : CloseBoth(why)
  BY <1>1 DEF CloseBoth
<1>2. CASE ServerRecvInit \/ ServerRecvHandshake
  <2>1. (\E len : ParseHeader(len)) \/ UNCHANGED conn
    BY <1>2 DEF ServerRecvInit, ServerRecvHandshake
  <2>2. ASSUME NEW len, ParseHeader(len)
        PROVE  \/ \E why : CloseServer(why)
               \/ \E buf : ConnectDirectly(buf) \/ Resolve(buf)
    BY <2>2 DEF ParseHeader
  <2> QED
    BY <2>1, <2>2 DEF CloseServer, ConnectDirectly, Resolve, Keep, conn
<1>3. CASE ServerResolveCb
  BY <1>3 DEF ServerResolveCb, QueryAnswered
<1>4. CASE ServerRecvEnd \/ ServerRecvDiscard \/ ServerRecvWait \/ ServerRecvObfs
           \/ ServerRecvReject \/ ServerRecvHold \/ ServerRecvStream
  BY <1>1, <1>4 DEF ServerRecvEnd, ServerRecvDiscard, ServerRecvWait, ServerRecvObfs,
       ServerRecvReject, ServerRecvHold, ServerRecvStream, Keep, conn
<1>5. CASE RemoteSendCb
  BY <1>1, <1>5 DEF RemoteSendCb, RemoteSendError, RemoteSendNothing, RemoteSendPart,
       RemoteSendAll, StartStream, Keep
<1>6. CASE RemoteRecvCb \/ ServerSendCb \/ RequestTimeout \/ IdleTimeout
  BY <1>1, <1>6 DEF RemoteRecvCb, RemoteRecvEnd, RemoteRecvData, ServerSendCb,
       ServerSendError, ServerSendPart, ServerSendAll, RequestTimeout, IdleTimeout,
       TimedOut, Keep, conn
<1> QED
  BY <1>2, <1>3, <1>4, <1>5, <1>6 DEF Next, ServerRecvCb

\* Every name is one that a DNS query can carry.
Short == \A s \in Sessions : s.atyp # "longhost"

(***************************************************************************)
(* As long as names are short enough for a DNS query, server->query never  *)
(* points to a query that was freed, so close_and_free_server may cancel   *)
(* it.  The run relay_long_name shows what happens otherwise.              *)
(***************************************************************************)
THEOREM ShortNamesAreHeld ==
  ASSUME Short
  PROVE  Spec => []QueryIsHeld
<1>1. Init => QueryIsHeld
  BY DEF Init, QueryIsHeld
<1>2. IInv /\ QueryIsHeld /\ [Next]_vars => QueryIsHeld'
  <2> SUFFICES ASSUME IInv, QueryIsHeld, [Next]_vars PROVE QueryIsHeld'
    OBVIOUS
  <2>1. sess.atyp # "longhost"
    BY DEF Short, IInv, TypeOK
  <2>2. CASE Next
    BY <2>1, <2>2, QueryStep DEF QueryIsHeld
  <2>3. CASE UNCHANGED vars
    BY <2>3 DEF vars, conn, QueryIsHeld
  <2> QED
    BY <2>2, <2>3
<1> QED
  BY <1>1, <1>2, SpecIInv, PTL DEF Spec

-----------------------------------------------------------------------------
(***************************************************************************)
(* The relay implements Connection.                                        *)
(***************************************************************************)

\* The client was cleared when the remote accepted.
Cleared == live /\ remote = "connected" => blame = "reset"

LEMMA NextCleared == IInv /\ Cleared /\ [Next]_vars => Cleared'
<1> SUFFICES ASSUME IInv, Cleared, [Next]_vars PROVE Cleared'
  OBVIOUS
<1>1. CASE \E why : CloseBoth(why) \/ CloseServer(why)
  BY <1>1 DEF CloseBoth, CloseServer, Cleared, live
<1>2. CASE UNCHANGED <<server, remote, blame>>
  BY <1>2 DEF Cleared, live
<1>3. CASE remote' \in {"none", "connecting"}
  BY <1>3 DEF Cleared
<1>4. CASE ServerRecvInit \/ ServerRecvHandshake
  <2>1. live /\ stage \in {"INIT", "HANDSHAKE"}
    BY <1>4 DEF ServerRecvInit, ServerRecvHandshake, Decoding, Arrived, Reading
  <2>2. remote = "none"
    BY <2>1 DEF IInv, FlowControl
  <2>3. (\E len : ParseHeader(len)) \/ UNCHANGED conn
    BY <1>4 DEF ServerRecvInit, ServerRecvHandshake
  <2>4. ASSUME NEW len, ParseHeader(len) PROVE remote' \in {"none", "connecting"}
    BY <2>2, <2>4 DEF ParseHeader, CloseServer, ConnectDirectly, AdoptRemote, Resolve
  <2> QED
    BY <1>3, <2>2, <2>3, <2>4 DEF conn
<1>5. CASE ServerResolveCb
  <2>1. remote = "none"
    BY <1>5 DEF ServerResolveCb, IInv, NoOrphan
  <2> QED
    BY <1>3, <1>5, <2>1 DEF ServerResolveCb, AdoptRemote
<1>6. CASE ServerRecvEnd \/ ServerRecvDiscard \/ ServerRecvWait \/ ServerRecvObfs
           \/ ServerRecvReject \/ ServerRecvHold \/ ServerRecvStream
  BY <1>1, <1>2, <1>6 DEF ServerRecvEnd, ServerRecvDiscard, ServerRecvWait, ServerRecvObfs,
       ServerRecvReject, ServerRecvHold, ServerRecvStream, Keep, conn
<1>7. CASE RemoteSendNothing \/ RemoteSendPart \/ RemoteSendAll
  <2>1. live /\ remote \in {"connecting", "connected"}
    BY <1>7, WritingFacts DEF RemoteSendNothing, RemoteSendPart, RemoteSendAll, Writing
  <2>2. blame' = "reset"
    BY <1>7, <2>1 DEF RemoteSendNothing, RemoteSendPart, RemoteSendAll, Connected, Cleared
  <2> QED
    BY <2>2 DEF Cleared
<1>8. CASE RemoteSendError \/ RemoteRecvCb \/ ServerSendCb \/ TimedOut
  BY <1>1, <1>2, <1>8 DEF RemoteSendError, RemoteRecvCb, RemoteRecvEnd, RemoteRecvData,
       ServerSendCb, ServerSendError, ServerSendPart, ServerSendAll, TimedOut, Keep, conn
<1>9. CASE UNCHANGED vars
  BY <1>2, <1>9 DEF vars, conn
<1> QED
  BY <1>4, <1>5, <1>6, <1>7, <1>8, <1>9
     DEF Next, ServerRecvCb, RemoteSendCb, RequestTimeout, IdleTimeout

\* The phase of a connection, read off its stage and its remote.
PhaseIs ==
  /\ ~live => Phase = "closed"
  /\ live => Phase # "closed"
  /\ live /\ stage \in {"INIT", "HANDSHAKE"} => Phase = "header"
  /\ live /\ stage = "ERROR" => Phase = "error"
  /\ live /\ stage = "RESOLVE" /\ remote = "none" => Phase = "resolving"
  /\ live /\ remote = "connecting" => Phase = "connecting"
  /\ live /\ remote = "connected" => Phase = "stream"

LEMMA PhaseFacts == IInv => PhaseIs
<1> SUFFICES ASSUME IInv PROVE PhaseIs
  OBVIOUS
<1>1. CASE ~live
  BY <1>1 DEF PhaseIs, Phase
<1>2. CASE live
  <2>1. remote \in {"connecting", "connected"}
        => stage \notin {"ERROR", "INIT", "HANDSHAKE"}
    BY <1>2 DEF IInv, FlowControl
  <2> QED
    BY <1>2, <2>1 DEF PhaseIs, Phase
<1> QED
  BY <1>1, <1>2

\* Closed without another word about the client.
LEMMA SeenClosed ==
  ASSUME PhaseIs, PhaseIs', live, ~live', UNCHANGED blame
  PROVE  Seen!ConnectionNext
<1>1. Phase # "closed" /\ Phase' = "closed"
  BY DEF PhaseIs
<1> QED
  BY <1>1 DEF Seen!ConnectionNext, Seen!Closed

\* Nothing the neighbours see.
LEMMA SeenStutter ==
  ASSUME UNCHANGED <<server, stage, remote, blame>>
  PROVE  UNCHANGED <<Phase, blame>>
BY DEF Phase, live

LEMMA SeenHeader ==
  ASSUME IInv, PhaseIs, PhaseIs', ServerRecvInit \/ ServerRecvHandshake
  PROVE  Seen!ConnectionNext \/ UNCHANGED <<Phase, blame>>
<1>1. live /\ stage \in {"INIT", "HANDSHAKE"}
  BY DEF ServerRecvInit, ServerRecvHandshake, Decoding, Arrived, Reading
<1>2. remote = "none" /\ Phase = "header"
  BY <1>1 DEF IInv, FlowControl, PhaseIs
<1>3. \/ \E len : ParseHeader(len)
      \/ UNCHANGED conn /\ stage' = "ERROR" /\ blame' \in {blame, "malformed"}
      \/ UNCHANGED conn /\ stage' = "HANDSHAKE" /\ blame' = blame
  BY DEF ServerRecvInit, ServerRecvHandshake
<1>4. CASE UNCHANGED conn /\ stage' = "ERROR" /\ blame' \in {blame, "malformed"}
  <2>1. Phase' = "error"
    BY <1>1, <1>4 DEF PhaseIs, conn, live
  <2> QED
    BY <1>2, <1>4, <2>1 DEF Seen!ConnectionNext, Seen!Condemned
<1>5. CASE UNCHANGED conn /\ stage' = "HANDSHAKE" /\ blame' = blame
  <2>1. Phase' = "header"
    BY <1>1, <1>5 DEF PhaseIs, conn, live
  <2> QED
    BY <1>2, <1>5, <2>1
<1>6. ASSUME NEW len, ParseHeader(len)
      PROVE  Seen!ConnectionNext
  <2>1. CASE ~live'
    <3>1. Phase' = "closed"
      BY <2>1 DEF PhaseIs
    <3>2. blame' \in {blame, "malformed", "bad"}
      BY <1>6 DEF ParseHeader
    <3> QED
      BY <1>2, <3>1, <3>2
         DEF Seen!ConnectionNext, Seen!Closed, Seen!Refused, Seen!Blaming
  <2>2. CASE live' /\ remote' = "connecting" /\ blame' = blame
    <3>1. Phase' = "connecting"
      BY <2>2 DEF PhaseIs
    <3> QED
      BY <1>2, <2>2, <3>1 DEF Seen!ConnectionNext, Seen!Dialled
  <2>3. CASE live' /\ stage' = "RESOLVE" /\ remote' = "none" /\ blame' = blame
    <3>1. Phase' = "resolving"
      BY <2>3 DEF PhaseIs
    <3> QED
      BY <1>2, <2>3, <3>1 DEF Seen!ConnectionNext, Seen!NameAsked
  <2>4. live' => /\ blame' = blame
                 /\ \/ remote' = "connecting"
                    \/ stage' = "RESOLVE" /\ remote' = "none"
    BY <1>2, <1>6 DEF ParseHeader, ConnectDirectly, AdoptRemote, Resolve, CloseServer, live
  <2> QED
    BY <2>1, <2>2, <2>3, <2>4
<1> QED
  BY <1>3, <1>4, <1>5, <1>6

LEMMA SeenServerRecvCb ==
  ASSUME IInv, PhaseIs, PhaseIs', ServerRecvCb
  PROVE  Seen!ConnectionNext \/ UNCHANGED <<Phase, blame>>
<1>1. live
  BY DEF ServerRecvCb, ServerRecvEnd, ServerRecvDiscard, ServerRecvWait, ServerRecvObfs,
         ServerRecvReject, ServerRecvHold, ServerRecvInit, ServerRecvHandshake,
         ServerRecvStream, Decoding, Arrived, Reading
<1>2. CASE ServerRecvEnd \/ ServerRecvDiscard \/ ServerRecvWait \/ ServerRecvObfs
           \/ ServerRecvHold \/ ServerRecvStream
  <2>1. UNCHANGED <<stage, blame>>
    BY <1>2 DEF ServerRecvEnd, ServerRecvDiscard, ServerRecvWait, ServerRecvObfs,
         ServerRecvHold, ServerRecvStream
  <2>2. (\E why : CloseBoth(why)) \/ UNCHANGED <<server, remote>>
    BY <1>2 DEF ServerRecvEnd, ServerRecvDiscard, ServerRecvWait, ServerRecvObfs,
         ServerRecvHold, ServerRecvStream, Keep, conn
  <2> QED
    BY <1>1, <2>1, <2>2, Closing, SeenClosed, SeenStutter
<1>3. CASE ServerRecvReject
  <2>1. ~live' /\ blame' \in {blame, "malicious", "bad"}
    BY <1>3, Closing DEF ServerRecvReject
  <2>2. stage \in {"INIT", "HANDSHAKE", "STREAM"}
    BY <1>3, DecodingFacts, ArrivedFacts DEF ServerRecvReject, Decoding
  <2>3. stage = "STREAM" => remote = "connected"
    BY <1>1, StreamFacts
  <2>4. Phase \in {"header", "stream"} /\ Phase' = "closed"
    BY <1>1, <2>1, <2>2, <2>3 DEF PhaseIs
  <2> QED
    BY <2>1, <2>4 DEF Seen!ConnectionNext, Seen!Closed, Seen!Refused, Seen!Blaming
<1> QED
  BY <1>2, <1>3, SeenHeader DEF ServerRecvCb

LEMMA SeenOthers ==
  ASSUME IInv, PhaseIs, PhaseIs', Cleared,
         ServerResolveCb \/ RemoteSendCb \/ RemoteRecvCb \/ ServerSendCb \/ TimedOut
  PROVE  Seen!ConnectionNext \/ UNCHANGED <<Phase, blame>>
<1>1. CASE ServerResolveCb
  <2>1. live /\ stage = "RESOLVE" /\ remote = "none" /\ UNCHANGED blame
    BY <1>1 DEF ServerResolveCb, IInv, NoOrphan
  <2>2. Phase = "resolving"
    BY <2>1 DEF PhaseIs
  <2>3. ~live' \/ (live' /\ remote' = "connecting")
    BY <1>1, <2>1 DEF ServerResolveCb, AdoptRemote, live
  <2>4. CASE live' /\ remote' = "connecting"
    <3>1. Phase' = "connecting"
      BY <2>4 DEF PhaseIs
    <3> QED
      BY <2>1, <2>2, <3>1 DEF Seen!ConnectionNext, Seen!Dialled
  <2> QED
    BY <2>1, <2>3, <2>4, SeenClosed
<1>2. CASE RemoteSendError
  <2>1. live /\ ~live' /\ blame' \in {blame, "reset"}
    BY <1>2, Closing DEF RemoteSendError, Writing
  <2>2. remote \in {"connecting", "connected"}
    BY <1>2, WritingFacts DEF RemoteSendError
  <2>3. CASE blame' = blame
    BY <2>1, <2>3, SeenClosed
  <2>4. CASE blame' = "reset" /\ remote = "connecting"
    <3>1. Phase = "connecting" /\ Phase' = "closed"
      BY <2>1, <2>4 DEF PhaseIs
    <3> QED
      BY <2>4, <3>1 DEF Seen!ConnectionNext, Seen!Established
  <2> QED
    BY <2>1, <2>2, <2>3, <2>4 DEF Cleared
<1>3. CASE RemoteSendNothing \/ RemoteSendPart \/ RemoteSendAll
  <2>1. live /\ live' /\ remote \in {"connecting", "connected"} /\ remote' = "connected"
    BY <1>3, WritingFacts DEF RemoteSendNothing, RemoteSendPart, RemoteSendAll,
       StartStream, Connected, Keep, live
  <2>2. blame' = IF remote = "connecting" THEN "reset" ELSE blame
    BY <1>3 DEF RemoteSendNothing, RemoteSendPart, RemoteSendAll, Connected
  <2>3. Phase' = "stream"
    BY <2>1 DEF PhaseIs
  <2>4. CASE remote = "connecting"
    <3>1. Phase = "connecting" /\ blame' = "reset"
      BY <2>1, <2>2, <2>4 DEF PhaseIs
    <3> QED
      BY <2>3, <3>1 DEF Seen!ConnectionNext, Seen!Established
  <2>5. CASE remote = "connected"
    <3>1. Phase = "stream" /\ blame' = blame
      BY <2>1, <2>2, <2>5 DEF PhaseIs
    <3> QED
      BY <2>3, <3>1
  <2> QED
    BY <2>1, <2>4, <2>5
<1>4. CASE RemoteRecvCb \/ ServerSendCb
  <2>1. live /\ UNCHANGED <<stage, blame>>
    BY <1>4 DEF RemoteRecvCb, RemoteRecvEnd, RemoteRecvData, ServerSendCb, ServerSendError,
         ServerSendPart, ServerSendAll, RemoteReading, Answering
  <2>2. (\E why : CloseBoth(why)) \/ UNCHANGED <<server, remote>>
    BY <1>4 DEF RemoteRecvCb, RemoteRecvEnd, RemoteRecvData, ServerSendCb, ServerSendError,
         ServerSendPart, ServerSendAll, Keep, conn
  <2> QED
    BY <2>1, <2>2, Closing, SeenClosed, SeenStutter
<1>5. CASE TimedOut
  <2>1. live /\ ~live'
    BY <1>5, Closing DEF TimedOut
  <2>2. CASE HeaderPending
    <3>1. Phase \in {"header", "error"} /\ Phase' = "closed" /\ blame' = "suspicious"
      BY <1>5, <2>1, <2>2 DEF HeaderPending, PhaseIs, TimedOut
    <3> QED
      BY <3>1 DEF Seen!ConnectionNext, Seen!Suspected
  <2>3. CASE ~HeaderPending
    BY <1>5, <2>1, <2>3, SeenClosed DEF TimedOut
  <2> QED
    BY <2>2, <2>3
<1> QED
  BY <1>1, <1>2, <1>3, <1>4, <1>5 DEF RemoteSendCb

(***************************************************************************)
(* The relay of server.c implements Connection, which is all that the rest *)
(* of the server sees of it: the calls it makes about its client come in   *)
(* the order Connection allows, on every path of every callback.           *)
(***************************************************************************)
THEOREM RelayIsConnection == Spec => IsConnection
<1>1. Init => Cleared /\ Seen!ConnectionInit
  BY DEF Init, Cleared, Seen!ConnectionInit, Phase, live
<1>2. IInv /\ Cleared /\ [Next]_vars => Cleared'
  BY NextCleared
<1>3. IInv => PhaseIs
  BY PhaseFacts
<1>4. /\ IInv /\ PhaseIs /\ PhaseIs' /\ Cleared
      /\ [Next]_vars
      => [Seen!ConnectionNext]_(Seen!connectionVars)
  <2>1. UNCHANGED vars => UNCHANGED <<Phase, blame>>
    BY SeenStutter DEF vars, conn
  <2>2. ASSUME IInv, PhaseIs, PhaseIs', Cleared, Next
        PROVE  Seen!ConnectionNext \/ UNCHANGED <<Phase, blame>>
    BY <2>2, SeenServerRecvCb, SeenOthers DEF Next, RequestTimeout, IdleTimeout
  <2> QED
    BY <2>1, <2>2 DEF Seen!connectionVars
<1> QED
  BY <1>1, <1>2, <1>3, <1>4, SpecIInv, PTL DEF Spec, IsConnection, Seen!ConnectionSpec

=============================================================================
