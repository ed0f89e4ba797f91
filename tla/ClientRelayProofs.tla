------------------------- MODULE ClientRelayProofs --------------------------
(***************************************************************************)
(* A connection of ssr-local, ssr-redir or ssr-tunnel: the inductive       *)
(* invariant of ClientRelay, and what follows from it for every length,    *)
(* every buffer size and every set of meaningful sessions.                 *)
(***************************************************************************)
EXTENDS ClientRelay, BuffersProofs

\* Where the plaintext of the header comes from: nowhere, when direct.
Fresh == IF sess.direct THEN 0 ELSE HdrLen

\* The encoders have been given the first data of the connection.
Encoding == remote = "connected" \/ (Local /\ remote = "connecting")

\* The counters agree with each other and with the stage: before the request
\* is parsed server->buf holds what came, afterwards all of it was encoded.
Unopened == /\ Local /\ remote = "none" /\ enc = 0
            /\ stage = "INIT" => cRecv = 0
            /\ stage # "INIT" => sbuf.len = cRecv - Preamble + 1

Opened == /\ remote \in {"connecting", "connected"}
          /\ IF Encoding
             THEN enc = Fresh + (cRecv - Preamble)
             ELSE /\ enc = 0
                  /\ cRecv = IF Redir THEN rbuf.len ELSE 0

Counted ==
  /\ cRecv <= Preamble + UpLen
  /\ decoded <= dRecv
  /\ live => IF stage = "STREAM" THEN Opened ELSE Unopened

\* The handshake starts with the first data that is encoded.
Greeted ==
  /\ obfs \in (IF sess.tls THEN {"start", "hello", "done"} ELSE {"none"})
  /\ live => IF Encoding THEN obfs # "start" ELSE obfs \in {"none", "start"}

\* The watchers of a connection that is closed, waits for the request, waits
\* for the server, or relays.
Attended ==
  /\ ~live => watch = {}
  /\ live /\ remote # "connected" => watch \cap {"server_send", "remote_recv"} = {}
  /\ live /\ remote = "none" => watch = {"server_recv"}
  /\ live /\ Local /\ remote = "connecting" => watch = {"remote_send"}
  /\ live /\ remote = "connected" =>
       ("remote_recv" \in watch <=> "server_send" \notin watch)

\* The application's socket has got a prefix of what was decoded; the rest is
\* what server->buf waits to send.
DownOrder ==
  /\ clientGot = Run(0, Len(clientGot))
  /\ live => IF "server_send" \in watch
             THEN /\ sbuf.len > 0
                  /\ sbuf.base + sbuf.idx = Len(clientGot)
                  /\ Len(clientGot) + sbuf.len = decoded
             ELSE Len(clientGot) = decoded

IInv == ProgramTypeOK /\ Counted /\ Greeted /\ Attended /\ DownOrder

-----------------------------------------------------------------------------
(***************************************************************************)
(* Constants, sessions, types.                                             *)
(***************************************************************************)

LEMMA Lengths ==
  /\ GreetLen \in Nat /\ GreetLen > 0 /\ HdrLen \in Nat /\ HdrLen > 0
  /\ UpLen \in Nat /\ DownLen \in Nat /\ BufSize \in Nat /\ BufSize > 1
  /\ PlainBase \in Nat /\ PayloadBase \in Nat
  /\ PlainBase = GreetLen + GreetLen /\ PayloadBase = PlainBase + HdrLen
BY ClientAssumption DEF PlainBase, PayloadBase

LEMMA SessionFacts ==
  ASSUME sess \in Sessions
  PROVE  /\ Local \/ Redir \/ Tunnel
         /\ ~(Local /\ Redir) /\ ~(Local /\ Tunnel) /\ ~(Redir /\ Tunnel)
         /\ ~Local => ~sess.direct
         /\ sess.direct => ~sess.tls
         /\ sess.tls \in BOOLEAN /\ sess.direct \in BOOLEAN
         /\ sess.fixed \in BOOLEAN /\ sess.reframe \in BOOLEAN
         /\ Preamble \in Nat /\ Preamble <= 2
         /\ ~Local => Preamble = 0
         /\ Fresh \in Nat /\ Fresh <= HdrLen
         /\ ~Local => Fresh = HdrLen
         /\ FirstPlain \in Nat /\ FirstPlain + Fresh = PayloadBase
<1>1. sess \in SessionType /\ Meaningful(sess)
  BY ClientAssumption
<1>2. /\ sess.program \in {"local", "redir", "tunnel"}
      /\ sess.tls \in BOOLEAN /\ sess.direct \in BOOLEAN
      /\ sess.fixed \in BOOLEAN /\ sess.reframe \in BOOLEAN
  BY <1>1 DEF SessionType
<1>3. /\ sess.program # "local" => ~sess.direct
      /\ sess.direct => ~sess.tls
  BY <1>1 DEF Meaningful
<1> QED
  BY <1>2, <1>3, Lengths DEF Local, Redir, Tunnel, Preamble, Fresh, FirstPlain

LEMMA TypeFacts ==
  ASSUME ProgramTypeOK
  PROVE  /\ sess \in Sessions
         /\ enc \in Nat /\ cRecv \in Nat /\ dRecv \in Nat /\ decoded \in Nat
         /\ sbuf \in Buffer /\ sbuf.base \in Nat /\ sbuf.idx \in Nat /\ sbuf.len \in Nat
         /\ rbuf \in Buffer /\ rbuf.base \in Nat /\ rbuf.idx \in Nat /\ rbuf.len \in Nat
         /\ remoteGot \in Seq(Nat) /\ Len(remoteGot) \in Nat
         /\ clientGot \in Seq(Nat) /\ Len(clientGot) \in Nat
BY Lengths, BufferFields DEF ProgramTypeOK

\* What comes out of the encoders is a buffer.
LEMMA ProducedFields ==
  ASSUME ProgramTypeOK, NEW n \in Nat
  PROVE  /\ Produced(n) \in Buffer
         /\ Produced(n).idx = 0
         /\ Produced(n).len = CASE obfs = "start" -> GreetLen
                                [] obfs = "hello" -> 0
                                [] OTHER          -> n
         /\ Produced(n).base = CASE obfs = "start" -> 0
                                 [] obfs = "hello" -> 0
                                 [] OTHER          -> NextPlain
<1>0. FirstPlain \in Nat /\ enc \in Nat
  BY TypeFacts, SessionFacts
<1>1. NextPlain \in Nat /\ GreetLen \in Nat
  BY <1>0, Lengths DEF NextPlain
<1>2. CASE obfs = "start"
  <2>1. Produced(n) = Buf(0, 0, GreetLen)
    BY <1>2 DEF Produced
  <2>2. /\ Buf(0, 0, GreetLen) \in Buffer /\ Buf(0, 0, GreetLen).base = 0
        /\ Buf(0, 0, GreetLen).idx = 0 /\ Buf(0, 0, GreetLen).len = GreetLen
    BY <1>1, BufFields
  <2> QED
    BY <1>2, <2>1, <2>2
<1>3. CASE obfs = "hello"
  <2>1. Produced(n) = Buf(0, 0, 0)
    BY <1>3 DEF Produced
  <2>2. /\ Buf(0, 0, 0) \in Buffer /\ Buf(0, 0, 0).base = 0
        /\ Buf(0, 0, 0).idx = 0 /\ Buf(0, 0, 0).len = 0
    BY <1>1, BufFields
  <2> QED
    BY <1>3, <2>1, <2>2
<1>4. CASE obfs \notin {"start", "hello"}
  <2>1. Produced(n) = Buf(NextPlain, 0, n)
    BY <1>4 DEF Produced
  <2>2. /\ Buf(NextPlain, 0, n) \in Buffer
        /\ Buf(NextPlain, 0, n).base = NextPlain
        /\ Buf(NextPlain, 0, n).idx = 0
        /\ Buf(NextPlain, 0, n).len = n
    BY <1>1, BufFields
  <2> QED
    BY <1>4, <2>1, <2>2
<1> QED
  BY <1>2, <1>3, <1>4

\* sess never changes, and with it what is said of it.
LEMMA SessionKept ==
  ASSUME UNCHANGED sess
  PROVE  /\ Local' = Local /\ Redir' = Redir /\ Tunnel' = Tunnel
         /\ Preamble' = Preamble /\ Fresh' = Fresh /\ FirstPlain' = FirstPlain
BY DEF Local, Redir, Tunnel, Preamble, Fresh, FirstPlain

-----------------------------------------------------------------------------
(***************************************************************************)
(* The beginning and the end.                                              *)
(***************************************************************************)

LEMMA InitIInv == Init => IInv
<1> SUFFICES ASSUME Init PROVE IInv
  OBVIOUS
<1> USE DEF Init
<1>1. sess \in Sessions
  OBVIOUS
<1>2. /\ server = "live" /\ reason = "" /\ remoteGot = <<>> /\ clientGot = <<>>
      /\ obfs = IF sess.tls THEN "start" ELSE "none"
      /\ sbuf = Buf(0, 0, 0) /\ rbuf = Buf(0, 0, 0)
  OBVIOUS
<1>11. enc = 0 /\ cRecv = 0 /\ dRecv = 0 /\ decoded = 0
  OBVIOUS
<1>12. remoteGot = <<>> /\ clientGot = <<>>
  OBVIOUS
<1>3. \/ /\ Local /\ stage = "INIT" /\ remote = "none" /\ timer = "off"
         /\ watch = {"server_recv"}
      \/ /\ Redir /\ ~Local /\ stage = "STREAM" /\ remote = "connecting"
         /\ timer = "connect" /\ watch = {"server_recv", "remote_send"}
      \/ /\ Tunnel /\ ~Local /\ ~Redir /\ stage = "STREAM" /\ remote = "connecting"
         /\ timer = "connect" /\ watch = {"remote_send"}
  BY <1>1, SessionFacts
<1> HIDE DEF Init
<1>4. Buf(0, 0, 0) \in Buffer /\ Buf(0, 0, 0).len = 0
  BY BufFields
<1>5. Len(clientGot) = 0 /\ clientGot = Run(0, Len(clientGot))
  BY <1>2, RunEmpty
<1>6. Preamble \in Nat /\ sess.tls \in BOOLEAN /\ UpLen \in Nat /\ HdrLen \in Nat /\ DownLen \in Nat
  BY <1>1, SessionFacts, Lengths
<1>7. ProgramTypeOK
  <2>1. remoteGot \in Seq(Nat) /\ clientGot \in Seq(Nat)
    BY <1>12
  <2>2. /\ enc \in 0..(HdrLen + UpLen) /\ cRecv \in 0..(2 + UpLen)
        /\ dRecv \in 0..DownLen /\ decoded \in 0..DownLen
    BY <1>6, <1>11
  <2>3. /\ stage \in Stages /\ remote \in {"none", "connecting", "connected", "freed"}
        /\ watch \subseteq Watchers /\ timer \in {"off", "connect", "idle"}
    BY <1>3 DEF Stages, Watchers
  <2>4. /\ server \in {"live", "freed"} /\ reason \in Reasons
        /\ obfs \in {"none", "start", "hello", "done"} /\ sbuf \in Buffer /\ rbuf \in Buffer
    BY <1>2, <1>4 DEF Reasons
  <2> QED
    BY <1>1, <2>1, <2>2, <2>3, <2>4 DEF ProgramTypeOK
<1>8. Counted
  <2>1. cRecv = 0 /\ enc = 0 /\ rbuf.len = 0 /\ cRecv <= Preamble + UpLen /\ decoded <= dRecv
    <3>1. rbuf.len = 0
      BY <1>2, <1>4
    <3> QED
      BY <1>6, <1>11, <3>1
  <2>2. CASE Local
    BY <1>3, <2>1, <2>2 DEF Counted, Unopened
  <2>3. CASE ~Local
    <3>1. stage = "STREAM" /\ remote = "connecting" /\ ~Encoding
      BY <1>3, <2>3 DEF Encoding
    <3> QED
      BY <2>1, <3>1 DEF Counted, Opened
  <2> QED
    BY <2>2, <2>3
<1>9. Greeted /\ Attended
  BY <1>2, <1>3, <1>6 DEF Greeted, Attended, Encoding, live
<1>10. DownOrder
  BY <1>2, <1>3, <1>5, <1>11 DEF DownOrder, live
<1> QED
  BY <1>7, <1>8, <1>9, <1>10 DEF IInv

\* A closed connection keeps the invariant, whatever was encoded before.
LEMMA Closes ==
  ASSUME IInv, NEW why \in Reasons, CloseBoth(why), UNCHANGED <<sess, down>>,
         stage' \in Stages, obfs' \in {"none", "start", "hello", "done"},
         obfs' = "none" <=> obfs = "none",
         enc' \in 0..(HdrLen + UpLen), sbuf' \in Buffer, rbuf' \in Buffer,
         cRecv' \in Nat, cRecv' <= Preamble + UpLen, remoteGot' \in Seq(Nat)
  PROVE  IInv'
<1>1. ProgramTypeOK /\ Counted /\ Greeted /\ DownOrder
  BY DEF IInv
<1>2. /\ server' = "freed" /\ watch' = {} /\ timer' = "off" /\ reason' = why
      /\ remote' \in {"none", "freed"}
  BY DEF CloseBoth
<1>3. UNCHANGED <<dRecv, decoded, clientGot>> /\ ~live'
  BY <1>2 DEF down, live
<1>4. Preamble \in Nat /\ Preamble <= 2 /\ UpLen \in Nat /\ Preamble' = Preamble
  BY <1>1, TypeFacts, SessionFacts, SessionKept, Lengths
<1>5. cRecv' \in 0..(2 + UpLen)
  BY <1>4
<1>6. ProgramTypeOK'
  BY <1>1, <1>2, <1>3, <1>5 DEF ProgramTypeOK
<1>7. Counted'
  BY <1>1, <1>3, <1>4 DEF Counted
<1>8. Greeted'
  BY <1>1, <1>3 DEF Greeted
<1>9. Attended' /\ DownOrder'
  BY <1>1, <1>2, <1>3 DEF Attended, DownOrder
<1> QED
  BY <1>6, <1>7, <1>8, <1>9 DEF IInv

\* Closing for a reason that has nothing to do with data.
JustCloses == /\ \E why \in Reasons : CloseBoth(why)
              /\ UNCHANGED <<sess, stage, code, sbuf, rbuf, cRecv, remoteGot, down>>

LEMMA Closing == IInv /\ JustCloses => IInv'
<1> SUFFICES ASSUME IInv, JustCloses PROVE IInv'
  OBVIOUS
<1>1. PICK why \in Reasons : CloseBoth(why)
  BY DEF JustCloses
<1>2. UNCHANGED <<sess, stage, code, sbuf, rbuf, cRecv, remoteGot, down>>
  BY DEF JustCloses
<1>3. ProgramTypeOK /\ cRecv <= Preamble + UpLen
  BY DEF IInv, Counted
<1>4. cRecv \in Nat
  BY <1>3, TypeFacts
<1>5. UNCHANGED <<obfs, enc>>
  BY <1>2 DEF code
<1> QED
  BY <1>1, <1>2, <1>3, <1>4, <1>5, Closes DEF ProgramTypeOK

LEMMA EndingsClose ==
  \/ ServerRecvEnd \/ RemoteSendError \/ RemoteRecvEnd \/ ServerSendError
  \/ TimedOut
  => JustCloses
BY DEF ServerRecvEnd, RemoteSendError, RemoteRecvEnd, ServerSendError, TimedOut,
       JustCloses, Reasons

-----------------------------------------------------------------------------
(***************************************************************************)
(* Each part of the invariant over a step that leaves it alone.            *)
(***************************************************************************)

LEMMA DownKept ==
  ASSUME DownOrder, UNCHANGED down,
         live' => /\ live
                  /\ "server_send" \in watch' <=> "server_send" \in watch
                  /\ "server_send" \in watch => UNCHANGED sbuf
  PROVE  DownOrder'
BY DEF DownOrder, down

\* A step of a connection that has a remote, with nothing new from the
\* application.
LEMMA CountedKept ==
  ASSUME Counted, UNCHANGED <<sess, stage, server, remote, enc, cRecv>>, live,
         stage = "STREAM", decoded' <= dRecv',
         ~Encoding => UNCHANGED rbuf
  PROVE  Counted'
<1>1. Opened => Opened'
  BY SessionKept DEF Opened, Encoding
<1> QED
  BY <1>1, SessionKept DEF Counted, live

LEMMA GreetedKept ==
  ASSUME Greeted, UNCHANGED <<sess, obfs>>, live' => live /\ (Encoding' <=> Encoding)
  PROVE  Greeted'
BY DEF Greeted

\* A connection that has a remote is past the request.
LEMMA StreamFacts ==
  ASSUME IInv, live, remote \in {"connecting", "connected"}
  PROVE  /\ stage = "STREAM" /\ Opened
         /\ Encoding => enc = Fresh + (cRecv - Preamble) /\ obfs # "start"
         /\ ~Encoding => enc = 0 /\ obfs \in {"none", "start"}
BY DEF IInv, Counted, Greeted, Opened, Unopened

-----------------------------------------------------------------------------
(***************************************************************************)
(* Server to application.                                                  *)
(***************************************************************************)

\* Only a connected remote is read from or answered for.
LEMMA AnswerFacts ==
  ASSUME IInv, live, watch \cap {"server_send", "remote_recv"} # {}
  PROVE  /\ remote = "connected" /\ Encoding /\ stage = "STREAM"
         /\ "remote_recv" \in watch <=> "server_send" \notin watch
<1>1. remote = "connected"
  BY DEF IInv, Attended
<1>2. stage = "STREAM"
  BY <1>1, StreamFacts
<1> QED
  BY <1>1, <1>2 DEF IInv, Attended, Encoding

\* What a step of this direction that closes nothing must show.
LEMMA Answers ==
  ASSUME IInv, live, remote = "connected", stage = "STREAM",
         UNCHANGED <<sess, stage, server, remote, timer, reason, code, rbuf, cRecv, remoteGot>>,
         watch' \subseteq Watchers, sbuf' \in Buffer, clientGot' \in Seq(Nat),
         dRecv' \in 0..DownLen, decoded' \in 0..dRecv',
         "remote_recv" \in watch' <=> "server_send" \notin watch',
         DownOrder'
  PROVE  IInv'
<1>1. ProgramTypeOK /\ Counted /\ Greeted
  BY DEF IInv
<1>2. UNCHANGED <<obfs, enc>> /\ Encoding
  BY DEF code, Encoding
<1>3. dRecv' \in Nat /\ decoded' \in Nat /\ decoded' <= dRecv' /\ decoded' \in 0..DownLen
  BY Lengths
<1>4. ProgramTypeOK'
  BY <1>1, <1>2, <1>3 DEF ProgramTypeOK
<1>5. Counted'
  BY <1>1, <1>2, <1>3, CountedKept
<1>6. Encoding' <=> Encoding
  BY SessionKept DEF Encoding
<1>7. Greeted'
  BY <1>1, <1>2, <1>6, GreetedKept DEF live
<1>8. Attended'
  BY DEF Attended, live
<1> QED
  BY <1>4, <1>5, <1>7, <1>8 DEF IInv

\* What the application's socket has got after m more units.
LEMMA DownGrows ==
  ASSUME IInv, NEW m \in Nat, clientGot' = clientGot \o Run(Len(clientGot), m)
  PROVE  /\ clientGot' = Run(0, Len(clientGot'))
         /\ clientGot' \in Seq(Nat)
         /\ Len(clientGot') = Len(clientGot) + m
         /\ Len(clientGot') \in Nat
<1> DEFINE q == clientGot
           t == q \o Run(Len(q), m)
<1>1. q \in Seq(Nat) /\ q = Run(0, Len(q)) /\ Len(q) \in Nat
  BY TypeFacts DEF IInv, DownOrder
<1>2. clientGot' = t
  OBVIOUS
<1> HIDE DEF q
<1>3. t = Run(0, Len(q) + m) /\ t \in Seq(Nat) /\ Len(t) = Len(q) + m
  BY <1>1, RunGrowsFromStart
<1>4. Len(q) + m \in Nat
  BY <1>1
<1> QED
  BY <1>2, <1>3, <1>4 DEF q

LEMMA DataArrives == IInv /\ RemoteRecvData => IInv'
<1> SUFFICES ASSUME IInv, RemoteRecvData PROVE IInv'
  OBVIOUS
<1>1. /\ live /\ "remote_recv" \in watch
      /\ UNCHANGED <<sess, stage, code, rbuf, cRecv, remoteGot>>
  BY DEF RemoteRecvData, RemoteReading
<1>2. remote = "connected" /\ stage = "STREAM" /\ "server_send" \notin watch
  BY <1>1, AnswerFacts
<1>3. Len(clientGot) = decoded
  BY <1>1, <1>2 DEF IInv, DownOrder
<1>4. PICK r \in 1..BufSize :
        /\ r <= DownLen - dRecv
        /\ dRecv' = dRecv + r
        /\ \E n \in Decoded(dRecv + r) :
             /\ decoded' = decoded + n
             /\ \/ /\ clientGot' = clientGot \o Run(decoded, n)
                   /\ sbuf' = Buf(decoded, sbuf.idx, n)
                   /\ UNCHANGED conn
                \/ \E s \in 0..(n - 1) :
                     /\ clientGot' = clientGot \o Run(decoded, s)
                     /\ sbuf' = Buf(decoded, s, n - s)
                     /\ Switch("remote_recv", {"server_send"})
  BY DEF RemoteRecvData
<1>5. PICK n \in Decoded(dRecv + r) :
        /\ decoded' = decoded + n
        /\ \/ /\ clientGot' = clientGot \o Run(decoded, n)
              /\ sbuf' = Buf(decoded, sbuf.idx, n)
              /\ UNCHANGED conn
           \/ \E s \in 0..(n - 1) :
                /\ clientGot' = clientGot \o Run(decoded, s)
                /\ sbuf' = Buf(decoded, s, n - s)
                /\ Switch("remote_recv", {"server_send"})
  BY <1>4
<1>6. dRecv \in Nat /\ decoded \in Nat /\ sbuf.idx \in Nat /\ DownLen \in Nat /\ BufSize \in Nat
  BY TypeFacts, Lengths DEF IInv
<1>7. decoded <= dRecv
  BY DEF IInv, Counted
<1>8. n \in Nat /\ decoded + n <= dRecv + r /\ dRecv + r \in 0..DownLen
  <2>1. sess.reframe \in BOOLEAN
    BY SessionFacts DEF IInv, ProgramTypeOK
  <2>2. \A d : \A k \in Decoded(d) : k \in 0..(d - decoded)
    BY <2>1 DEF Decoded
  <2> QED
    BY <1>4, <1>5, <1>6, <1>7, <2>2
<1>9. dRecv' \in 0..DownLen /\ decoded' \in 0..dRecv'
  BY <1>4, <1>5, <1>6, <1>8
<1>10. watch \subseteq Watchers
  BY DEF IInv, ProgramTypeOK
<1>11. ASSUME clientGot' = clientGot \o Run(decoded, n),
              sbuf' = Buf(decoded, sbuf.idx, n), UNCHANGED conn
       PROVE  IInv'
  <2>1. /\ clientGot' = Run(0, Len(clientGot')) /\ clientGot' \in Seq(Nat)
        /\ Len(clientGot') = Len(clientGot) + n
    BY <1>3, <1>8, <1>11, DownGrows
  <2>2. UNCHANGED <<server, remote, watch, timer, reason>>
    BY <1>11 DEF conn
  <2>3. DownOrder'
    BY <1>2, <1>3, <1>5, <2>1, <2>2 DEF DownOrder
  <2>4. sbuf' \in Buffer
    BY <1>6, <1>8, <1>11, BufFields
  <2> QED
    BY <1>1, <1>2, <1>9, <1>10, <2>1, <2>2, <2>3, <2>4, Answers
<1>12. ASSUME NEW s \in 0..(n - 1), clientGot' = clientGot \o Run(decoded, s),
              sbuf' = Buf(decoded, s, n - s), Switch("remote_recv", {"server_send"})
       PROVE  IInv'
  <2>1. s \in Nat /\ n - s \in Nat /\ n - s > 0
    BY <1>8
  <2>2. /\ clientGot' = Run(0, Len(clientGot')) /\ clientGot' \in Seq(Nat)
        /\ Len(clientGot') = Len(clientGot) + s
    BY <1>3, <1>12, <2>1, DownGrows
  <2>3. sbuf' \in Buffer /\ sbuf'.base = decoded /\ sbuf'.idx = s /\ sbuf'.len = n - s
    <3>1. PICK m \in Nat : m = n - s
      BY <2>1
    <3>2. decoded \in Nat
      BY <1>6
    <3>3. /\ Buf(decoded, s, m) \in Buffer /\ Buf(decoded, s, m).base = decoded
          /\ Buf(decoded, s, m).idx = s /\ Buf(decoded, s, m).len = m
      BY <2>1, <3>2 DEF Buf, Buffer
    <3>4. sbuf' = Buf(decoded, s, m)
      BY <1>12, <3>1
    <3> QED
      BY <3>1, <3>3, <3>4
  <2>4. /\ watch' = (watch \ {"remote_recv"}) \cup {"server_send"}
        /\ UNCHANGED <<server, remote, timer, reason>>
    BY <1>12 DEF Switch
  <2>5. /\ sbuf'.base + sbuf'.idx = Len(clientGot')
        /\ Len(clientGot') + sbuf'.len = decoded'
    BY <1>3, <1>5, <1>6, <1>8, <2>1, <2>2, <2>3
  <2>6. DownOrder'
    BY <2>1, <2>2, <2>3, <2>4, <2>5 DEF DownOrder
  <2>7. watch' \subseteq Watchers
    BY <1>10, <2>4 DEF Watchers
  <2> QED
    BY <1>1, <1>2, <1>9, <2>2, <2>3, <2>4, <2>6, <2>7, Answers
<1> QED
  BY <1>5, <1>11, <1>12

LEMMA AnswerGoesOn == IInv /\ (ServerSendPart \/ ServerSendAll) => IInv'
<1> SUFFICES ASSUME IInv, ServerSendPart \/ ServerSendAll PROVE IInv'
  OBVIOUS
<1>1. /\ live /\ "server_send" \in watch
      /\ UNCHANGED <<sess, stage, code, rbuf, cRecv, remoteGot, dRecv, decoded>>
  BY DEF ServerSendPart, ServerSendAll, Answering
<1>2. remote = "connected" /\ stage = "STREAM" /\ "remote_recv" \notin watch
  BY <1>1, AnswerFacts
<1>3. /\ sbuf.base + sbuf.idx = Len(clientGot)
      /\ Len(clientGot) + sbuf.len = decoded
  BY <1>1 DEF IInv, DownOrder
<1>4. /\ sbuf \in Buffer /\ sbuf.len \in Nat /\ Len(clientGot) \in Nat
      /\ sbuf.base \in Nat /\ sbuf.idx \in Nat /\ watch \subseteq Watchers
  BY TypeFacts DEF IInv, ProgramTypeOK
<1>5. dRecv' \in 0..DownLen /\ decoded' \in 0..dRecv'
  <2>1. dRecv \in 0..DownLen /\ decoded \in Nat /\ decoded <= dRecv /\ DownLen \in Nat
    BY TypeFacts, Lengths DEF IInv, ProgramTypeOK, Counted
  <2> QED
    BY <1>1, <2>1
<1>6. ASSUME NEW s \in 0..(sbuf.len - 1), clientGot' = clientGot \o Unsent(sbuf, s),
             sbuf' = Rest(sbuf, s), UNCHANGED conn
      PROVE  IInv'
  <2>1. s \in Nat /\ s \in 0..sbuf.len /\ sbuf.len - s > 0
    BY <1>4
  <2>2. clientGot' = clientGot \o Run(Len(clientGot), s)
    BY <1>3, <1>6 DEF Unsent
  <2>3. /\ clientGot' = Run(0, Len(clientGot')) /\ clientGot' \in Seq(Nat)
        /\ Len(clientGot') = Len(clientGot) + s
    BY <2>1, <2>2, DownGrows
  <2>4. /\ sbuf' \in Buffer /\ sbuf'.base = sbuf.base /\ sbuf'.idx = sbuf.idx + s
        /\ sbuf'.len = sbuf.len - s
    BY <1>4, <1>6, <2>1, RestFields
  <2>5. UNCHANGED <<server, remote, watch, timer, reason>>
    BY <1>6 DEF conn
  <2>6. /\ sbuf'.base + sbuf'.idx = Len(clientGot')
        /\ Len(clientGot') + sbuf'.len = decoded'
    <3> DEFINE b == sbuf.base
               i == sbuf.idx
               l == sbuf.len
               g == Len(clientGot)
    <3>1. /\ b \in Nat /\ i \in Nat /\ l \in Nat /\ g \in Nat /\ decoded \in Nat
          /\ s \in 0..l /\ b + i = 0 + g /\ 0 + g + l = decoded
      BY <1>3, <1>4, <2>1
    <3> HIDE DEF b, i, l, g
    <3>2. b + (i + s) = 0 + (g + s) /\ 0 + (g + s) + (l - s) = decoded
      BY <3>1, Advance
    <3>3. b + (i + s) = g + s /\ (g + s) + (l - s) = decoded
      BY <3>1, <3>2
    <3>4. decoded' = decoded
      BY <1>1
    <3> QED
      BY <2>3, <2>4, <3>3, <3>4 DEF b, i, l, g
  <2>7. DownOrder'
    BY <1>1, <2>1, <2>3, <2>4, <2>5, <2>6 DEF DownOrder
  <2> QED
    BY <1>1, <1>2, <1>4, <1>5, <2>3, <2>4, <2>5, <2>7, Answers
<1>7. ASSUME clientGot' = clientGot \o Unsent(sbuf, sbuf.len),
             sbuf' = Buf(sbuf.base, 0, 0), Switch("server_send", {"remote_recv"})
      PROVE  IInv'
  <2>1. clientGot' = clientGot \o Run(Len(clientGot), sbuf.len)
    BY <1>3, <1>7 DEF Unsent
  <2>2. /\ clientGot' = Run(0, Len(clientGot')) /\ clientGot' \in Seq(Nat)
        /\ Len(clientGot') = Len(clientGot) + sbuf.len
    BY <1>4, <2>1, DownGrows
  <2>3. sbuf' \in Buffer
    BY <1>4, <1>7, BufFields
  <2>4. /\ watch' = (watch \ {"server_send"}) \cup {"remote_recv"}
        /\ UNCHANGED <<server, remote, timer, reason>>
    BY <1>7 DEF Switch
  <2>5. DownOrder'
    BY <1>1, <1>3, <2>2, <2>4 DEF DownOrder
  <2>6. watch' \subseteq Watchers
    BY <1>4, <2>4 DEF Watchers
  <2> QED
    BY <1>1, <1>2, <1>5, <2>2, <2>3, <2>4, <2>5, <2>6, Answers
<1> QED
  BY <1>6, <1>7 DEF ServerSendPart, ServerSendAll

-----------------------------------------------------------------------------
(***************************************************************************)
(* Application to server: types, counters, watchers.                       *)
(***************************************************************************)

\* No more goes into the encoders than the header and the payload.
LEMMA EncodedBound ==
  \A e, c, p, f, u, h \in Nat :
    f <= h /\ c <= p + u /\ (e = f + (c - p) \/ e = 0)
    => e \in 0..(h + u) /\ (p <= 2 => c \in 0..(2 + u))
OBVIOUS

\* What a step of this direction that closes nothing must show.
LEMMA Uploads ==
  ASSUME IInv, live, UNCHANGED <<sess, server, reason, down>>,
         stage' = "STREAM", timer' \in {"off", "connect", "idle"},
         watch' \subseteq Watchers, sbuf' \in Buffer, rbuf' \in Buffer,
         remoteGot' \in Seq(Nat), cRecv' \in Nat, cRecv' <= Preamble + UpLen,
         Opened', enc' \in Nat,
         obfs' \in (IF sess.tls THEN {"start", "hello", "done"} ELSE {"none"}),
         IF Encoding' THEN obfs' # "start" ELSE obfs' \in {"none", "start"},
         Attended',
         "server_send" \in watch' <=> "server_send" \in watch,
         "server_send" \in watch => UNCHANGED sbuf
  PROVE  IInv'
<1>1. ProgramTypeOK /\ Counted /\ DownOrder /\ sess' = sess /\ live'
  BY DEF IInv, live
<1>2. UNCHANGED <<dRecv, decoded, clientGot>>
  BY DEF down
<1>3. /\ Preamble \in Nat /\ Preamble <= 2 /\ Fresh \in Nat /\ Fresh <= HdrLen
      /\ Preamble' = Preamble /\ Fresh' = Fresh /\ UpLen \in Nat /\ HdrLen \in Nat
      /\ sess.tls \in BOOLEAN
  BY <1>1, TypeFacts, SessionFacts, SessionKept, Lengths
<1>4. remote' \in {"connecting", "connected"}
  BY DEF Opened
<1>5. enc' = Fresh' + (cRecv' - Preamble') \/ enc' = 0
  BY DEF Opened
<1>6. enc' \in 0..(HdrLen + UpLen) /\ cRecv' \in 0..(2 + UpLen)
  <2>2. enc' = Fresh + (cRecv' - Preamble) \/ enc' = 0
    BY <1>3, <1>5
  <2> QED
    BY <1>3, <2>2, EncodedBound
<1>7. obfs' \in {"none", "start", "hello", "done"}
  BY <1>3
<1>8. ProgramTypeOK'
  BY <1>1, <1>2, <1>4, <1>6, <1>7 DEF ProgramTypeOK, Stages
<1>9. Counted'
  BY <1>1, <1>2, <1>3 DEF Counted
<1>10. Greeted'
  BY <1>1 DEF Greeted
<1>11. DownOrder'
  BY <1>1, DownKept
<1> QED
  BY <1>8, <1>9, <1>10, <1>11 DEF IInv

\* What Encode leaves behind.
LEMMA EncodeFacts ==
  ASSUME IInv, NEW n \in Nat, Encode(n)
  PROVE  /\ enc' = enc + n /\ enc' \in Nat
         /\ obfs' = IF obfs = "start" THEN "hello" ELSE obfs
         /\ obfs' \in (IF sess.tls THEN {"start", "hello", "done"} ELSE {"none"})
         /\ obfs' # "start"
<1>1. enc \in Nat /\ sess.tls \in BOOLEAN
  BY TypeFacts, SessionFacts DEF IInv
<1>2. enc' = enc + n /\ enc' \in Nat
  BY <1>1 DEF Encode
<1>3. obfs \in (IF sess.tls THEN {"start", "hello", "done"} ELSE {"none"})
  BY DEF IInv, Greeted
<1>4. obfs' = IF obfs = "start" THEN "hello" ELSE obfs
  BY DEF Encode
<1> QED
  BY <1>1, <1>2, <1>3, <1>4

\* Sending from a buffer, in types.
LEMMA SendTypes ==
  ASSUME ProgramTypeOK, NEW b \in Buffer, NEW s \in 0..b.len
  PROVE  /\ remoteGot \o Unsent(b, s) \in Seq(Nat)
         /\ Len(remoteGot \o Unsent(b, s)) = Len(remoteGot) + s
         /\ Rest(b, s) \in Buffer
<1>1. b.len \in Nat
  BY BufferFields
<1>2. s \in Nat
  BY <1>1
<1>3. /\ remoteGot \o Unsent(b, s) \in Seq(Nat)
      /\ Len(remoteGot \o Unsent(b, s)) = Len(remoteGot) + s
  BY <1>2, TypeFacts, AppendUnsent
<1>4. Rest(b, s) \in Buffer
  BY RestFields
<1> QED
  BY <1>3, <1>4

LEMMA RemainderGoes == IInv /\ (RemoteSendPart \/ RemoteSendAll) => IInv'
<1> SUFFICES ASSUME IInv, RemoteSendPart \/ RemoteSendAll PROVE IInv'
  OBVIOUS
<1>1. /\ live /\ remote = "connected"
      /\ UNCHANGED <<sess, stage, server, remote, timer, reason, code, sbuf, cRecv, down>>
  BY DEF RemoteSendPart, RemoteSendAll, Writing, Switch, conn
<1>2. ProgramTypeOK /\ Attended /\ Greeted /\ Counted /\ stage = "STREAM" /\ Encoding /\ Opened
  BY <1>1, StreamFacts DEF IInv, Encoding
<1>3. \/ watch' = watch
      \/ watch' = (watch \ {"remote_send"}) \cup {"server_recv"}
  BY DEF RemoteSendPart, RemoteSendAll, Switch, conn
<1>4. watch' \subseteq Watchers /\ ("server_send" \in watch' <=> "server_send" \in watch)
      /\ ("remote_recv" \in watch' <=> "remote_recv" \in watch)
  BY <1>2, <1>3 DEF ProgramTypeOK, Watchers
<1>5. rbuf \in Buffer /\ rbuf.base \in Nat /\ rbuf.len \in Nat
  BY <1>2, TypeFacts
<1>6. rbuf' \in Buffer /\ remoteGot' \in Seq(Nat)
  <2>1. CASE RemoteSendPart
    <3>1. PICK s \in 0..(rbuf.len - 1) :
            remoteGot' = remoteGot \o Unsent(rbuf, s) /\ rbuf' = Rest(rbuf, s)
      BY <2>1 DEF RemoteSendPart
    <3>2. s \in 0..rbuf.len
      BY <1>5
    <3> QED
      BY <1>2, <1>5, <3>1, <3>2, SendTypes
  <2>2. CASE RemoteSendAll
    <3>1. remoteGot' = remoteGot \o Unsent(rbuf, rbuf.len) /\ rbuf' = Buf(rbuf.base, 0, 0)
      BY <2>2 DEF RemoteSendAll
    <3>2. rbuf.len \in 0..rbuf.len /\ 0 \in Nat
      BY <1>5
    <3>3. remoteGot \o Unsent(rbuf, rbuf.len) \in Seq(Nat)
      BY <1>2, <1>5, <3>2, SendTypes
    <3>4. Buf(rbuf.base, 0, 0) \in Buffer
      BY <1>5, <3>2, BufFields
    <3> QED
      BY <3>1, <3>3, <3>4
  <2> QED
    BY <2>1, <2>2
<1>7. UNCHANGED <<enc, obfs>> /\ cRecv' \in Nat /\ cRecv' <= Preamble + UpLen /\ enc' \in Nat
  BY <1>1, <1>2, TypeFacts DEF code, Counted
<1>8. Encoding' /\ Opened'
  BY <1>1, <1>2, <1>7, SessionKept DEF Encoding, Opened
<1>9. Attended'
  BY <1>1, <1>2, <1>4 DEF Attended, live
<1>10. sbuf' \in Buffer /\ timer' \in {"off", "connect", "idle"}
  BY <1>1, <1>2 DEF ProgramTypeOK
<1>11. /\ obfs' \in (IF sess.tls THEN {"start", "hello", "done"} ELSE {"none"})
       /\ obfs' # "start"
  BY <1>1, <1>2, <1>7 DEF Greeted
<1> QED
  BY <1>1, <1>2, <1>4, <1>6, <1>7, <1>8, <1>9, <1>10, <1>11, Uploads

LEMMA EarlyDataWaits == IInv /\ RedirRecvEarly => IInv'
<1> SUFFICES ASSUME IInv, RedirRecvEarly PROVE IInv'
  OBVIOUS
<1>1. /\ Redir /\ live /\ remote = "connecting"
      /\ UNCHANGED <<sess, stage, server, remote, timer, reason, code, sbuf, remoteGot, down>>
      /\ watch' = (watch \ {"server_recv"}) \cup {"remote_send"}
  BY DEF RedirRecvEarly, Switch, Arrived, Reading
<1>2. ProgramTypeOK /\ Attended /\ Greeted /\ stage = "STREAM" /\ Opened
  BY <1>1, StreamFacts DEF IInv
<1>3. ~Local /\ ~Encoding /\ Preamble = 0
  BY <1>1, <1>2, TypeFacts, SessionFacts DEF Encoding
<1>4. PICK r \in 1..BufSize : /\ r <= Preamble + UpLen - cRecv /\ cRecv' = cRecv + r
                              /\ rbuf' = Buf(PayloadBase, 0, rbuf.len + r)
  BY DEF RedirRecvEarly, Arrived
<1>5. /\ cRecv \in Nat /\ r \in Nat /\ rbuf.len \in Nat /\ PayloadBase \in Nat
      /\ UpLen \in Nat /\ enc \in Nat
  BY <1>2, TypeFacts, Lengths
<1>6. rbuf.len + r \in Nat
  BY <1>5
<1>7. rbuf' \in Buffer /\ rbuf'.len = rbuf.len + r
  BY <1>4, <1>5, <1>6, BufFields
<1>8. cRecv' \in Nat /\ cRecv' <= Preamble + UpLen
  BY <1>3, <1>4, <1>5
<1>9. enc = 0 /\ cRecv = rbuf.len
  BY <1>1, <1>2, <1>3 DEF Opened
<1>10. UNCHANGED <<enc, obfs>> /\ ~Encoding'
  BY <1>1, <1>3, SessionKept DEF code, Encoding
<1>11. cRecv' = rbuf'.len
  BY <1>4, <1>7, <1>9
<1>12. Opened'
  BY <1>1, <1>9, <1>10, <1>11, SessionKept DEF Opened
<1>13. watch' \subseteq Watchers /\ ("server_send" \in watch' <=> "server_send" \in watch)
  BY <1>1, <1>2 DEF ProgramTypeOK, Watchers
<1>14. Attended'
  BY <1>1, <1>2, <1>3, SessionKept DEF Attended, live
<1>15. /\ sbuf' \in Buffer /\ timer' \in {"off", "connect", "idle"} /\ remoteGot' \in Seq(Nat)
       /\ enc' \in Nat
  BY <1>1, <1>2, <1>5, <1>10 DEF ProgramTypeOK
<1>16. /\ obfs' \in (IF sess.tls THEN {"start", "hello", "done"} ELSE {"none"})
       /\ obfs' \in {"none", "start"}
  BY <1>1, <1>2, <1>3, <1>10 DEF Greeted
<1> QED
  BY <1>1, <1>2, <1>7, <1>8, <1>10, <1>12, <1>13, <1>14, <1>15, <1>16, Uploads

\* send of a buffer that was just encoded, in types.
LEMMA SendAtOnceTypes ==
  ASSUME ProgramTypeOK, NEW out \in Buffer, SendAtOnce(out)
  PROVE  /\ rbuf' \in Buffer /\ remoteGot' \in Seq(Nat)
         /\ \/ CloseBoth("remote_error")
            \/ /\ UNCHANGED <<server, remote, timer, reason>>
               /\ \/ watch' = watch \ {"server_recv"}
                  \/ watch' = (watch \ {"server_recv"}) \cup {"remote_send"}
                  \/ watch' = watch
<1>1. out.len \in Nat /\ out.base \in Nat
  BY BufferFields
<1>2. rbuf \in Buffer /\ remoteGot \in Seq(Nat)
  BY TypeFacts
<1>3. CASE out.len = 0 /\ rbuf' = Buf(0, 0, 0) /\ Switch("server_recv", {}) /\ UNCHANGED remoteGot
  BY <1>2, <1>3, BufFields DEF Switch
<1>4. CASE \E s \in 0..(out.len - 1) :
             /\ remoteGot' = remoteGot \o Unsent(out, s)
             /\ rbuf' = Rest(out, s)
             /\ Switch("server_recv", {"remote_send"})
  <2>1. PICK s \in 0..(out.len - 1) :
             /\ remoteGot' = remoteGot \o Unsent(out, s)
             /\ rbuf' = Rest(out, s)
             /\ Switch("server_recv", {"remote_send"})
    BY <1>4
  <2>2. s \in 0..out.len
    BY <1>1
  <2>3. rbuf' \in Buffer /\ remoteGot' \in Seq(Nat)
    BY <2>1, <2>2, SendTypes
  <2> QED
    BY <2>1, <2>3 DEF Switch
<1>5. CASE /\ out.len > 0
           /\ remoteGot' = remoteGot \o Unsent(out, out.len)
           /\ rbuf' = Buf(out.base, 0, IF Tunnel THEN out.len ELSE 0)
           /\ UNCHANGED conn
  <2>1. (IF Tunnel THEN out.len ELSE 0) \in Nat /\ out.len \in 0..out.len
    BY <1>1
  <2>2. rbuf' \in Buffer /\ remoteGot' \in Seq(Nat)
    BY <1>1, <1>5, <2>1, SendTypes, BufFields
  <2> QED
    BY <1>5, <2>2 DEF conn
<1>6. CASE CloseBoth("remote_error") /\ UNCHANGED <<rbuf, remoteGot>>
  BY <1>2, <1>6
<1> QED
  BY <1>3, <1>4, <1>5, <1>6 DEF SendAtOnce

LEMMA OutgoingFields ==
  ASSUME ProgramTypeOK, NEW out \in Buffer
  PROVE  Outgoing(out) \in Buffer
<1>1. rbuf.base \in Nat /\ rbuf.len \in Nat /\ out.len \in Nat
  BY TypeFacts, BufferFields
<1>2. rbuf.len + out.len \in Nat
  BY <1>1
<1> QED
  BY <1>1, <1>2, BufFields DEF Outgoing

LEMMA PayloadComes == IInv /\ ServerRecvStream => IInv'
<1> SUFFICES ASSUME IInv, ServerRecvStream PROVE IInv'
  OBVIOUS
<1>1. /\ live /\ stage = "STREAM" /\ remote = "connected"
      /\ UNCHANGED <<sess, stage, sbuf, down>>
  BY DEF ServerRecvStream, Arrived, Reading
<1>2. ProgramTypeOK /\ Attended /\ Encoding /\ enc = Fresh + (cRecv - Preamble)
  BY <1>1, StreamFacts DEF IInv, Encoding
<1>3. PICK r \in 1..BufSize : /\ Encode(r)
                              /\ SendAtOnce(Outgoing(Produced(r)))
                              /\ r <= Preamble + UpLen - cRecv
                              /\ cRecv' = cRecv + r
  BY DEF ServerRecvStream, Arrived
<1>4. /\ cRecv \in Nat /\ r \in Nat /\ Preamble \in Nat /\ UpLen \in Nat /\ HdrLen \in Nat
      /\ Fresh \in Nat /\ Fresh <= HdrLen
  BY <1>2, TypeFacts, SessionFacts, Lengths
<1>5. cRecv' \in Nat /\ cRecv' <= Preamble + UpLen
  BY <1>3, <1>4
<1>6. /\ enc' = enc + r /\ enc' \in Nat
      /\ obfs' = IF obfs = "start" THEN "hello" ELSE obfs
      /\ obfs' \in (IF sess.tls THEN {"start", "hello", "done"} ELSE {"none"})
      /\ obfs' # "start"
  BY <1>3, <1>4, EncodeFacts
<1>7. enc' = Fresh + (cRecv' - Preamble)
  BY <1>2, <1>3, <1>4, <1>6
<1>8. enc' \in 0..(HdrLen + UpLen)
  BY <1>4, <1>5, <1>6, <1>7, EncodedBound
<1>9. Outgoing(Produced(r)) \in Buffer
  BY <1>2, <1>4, ProducedFields, OutgoingFields
<1>10. /\ rbuf' \in Buffer /\ remoteGot' \in Seq(Nat)
       /\ \/ CloseBoth("remote_error")
          \/ /\ UNCHANGED <<server, remote, timer, reason>>
             /\ \/ watch' = watch \ {"server_recv"}
                \/ watch' = (watch \ {"server_recv"}) \cup {"remote_send"}
                \/ watch' = watch
  BY <1>2, <1>3, <1>9, SendAtOnceTypes
<1>11. sess.tls \in BOOLEAN /\ sbuf' \in Buffer /\ stage' \in Stages
       /\ timer \in {"off", "connect", "idle"} /\ watch \subseteq Watchers
  BY <1>1, <1>2, TypeFacts, SessionFacts DEF ProgramTypeOK
<1>12. CASE CloseBoth("remote_error")
  <2>1. "remote_error" \in Reasons /\ obfs' \in {"none", "start", "hello", "done"}
    BY <1>6, <1>11 DEF Reasons
  <2>2. obfs' = "none" <=> obfs = "none"
    BY <1>6
  <2> QED
    BY <1>1, <1>5, <1>8, <1>10, <1>11, <1>12, <2>1, <2>2, Closes
<1>13. CASE /\ UNCHANGED <<server, remote, timer, reason>>
            /\ \/ watch' = watch \ {"server_recv"}
               \/ watch' = (watch \ {"server_recv"}) \cup {"remote_send"}
               \/ watch' = watch
  <2>1. watch' \subseteq Watchers /\ ("server_send" \in watch' <=> "server_send" \in watch)
        /\ ("remote_recv" \in watch' <=> "remote_recv" \in watch)
    BY <1>11, <1>13 DEF Watchers
  <2>2. Attended'
    BY <1>1, <1>2, <1>13, <2>1 DEF Attended, live
  <2>3. Encoding' /\ Opened'
    BY <1>1, <1>7, <1>13, SessionKept DEF Encoding, Opened
  <2> QED
    BY <1>1, <1>5, <1>6, <1>10, <1>11, <1>13, <2>1, <2>2, <2>3, Uploads
<1> QED
  BY <1>10, <1>12, <1>13

LEMMA LocalOpens == IInv /\ LocalConnected => IInv'
<1> SUFFICES ASSUME IInv, LocalConnected PROVE IInv'
  OBVIOUS
<1>1. /\ Local /\ live /\ remote = "connecting" /\ remote' = "connected" /\ timer' = "idle"
      /\ UNCHANGED <<sess, stage, server, reason, code, sbuf, cRecv, down>>
  BY DEF LocalConnected, Writing
<1>2. ProgramTypeOK /\ Attended /\ Counted /\ Greeted /\ Encoding /\ stage = "STREAM" /\ Opened
  BY <1>1, StreamFacts DEF IInv, Encoding
<1>3. PICK s \in 0..rbuf.len :
        /\ remoteGot' = remoteGot \o Unsent(rbuf, s)
        /\ rbuf' = IF s = rbuf.len THEN Buf(rbuf.base, 0, 0) ELSE Rest(rbuf, s)
        /\ watch' = (watch \ (IF s = rbuf.len THEN {"remote_send"} ELSE {}))
                     \cup (IF s = rbuf.len THEN {"remote_recv", "server_recv"}
                                           ELSE {"remote_recv"})
  BY DEF LocalConnected
<1>4. rbuf \in Buffer /\ rbuf.base \in Nat
  BY <1>2, TypeFacts
<1>5. remoteGot' \in Seq(Nat) /\ rbuf' \in Buffer
  BY <1>2, <1>3, <1>4, SendTypes, BufFields
<1>6. watch = {"remote_send"}
  BY <1>1, <1>2 DEF Attended
<1>7. watch' \subseteq Watchers /\ "server_send" \notin watch' /\ "remote_recv" \in watch'
  BY <1>3, <1>6 DEF Watchers
<1>8. UNCHANGED <<obfs, enc>> /\ cRecv' \in Nat /\ cRecv' <= Preamble + UpLen /\ enc' \in Nat
  BY <1>1, <1>2, TypeFacts DEF code, Counted
<1>9. Encoding' /\ Opened'
  BY <1>1, <1>2, <1>8, SessionKept DEF Encoding, Opened
<1>10. Attended'
  BY <1>1, <1>7 DEF Attended, live
<1>11. sbuf' \in Buffer /\ "server_send" \notin watch
  BY <1>1, <1>2, <1>6 DEF ProgramTypeOK
<1>12. /\ obfs' \in (IF sess.tls THEN {"start", "hello", "done"} ELSE {"none"})
       /\ obfs' # "start"
  BY <1>1, <1>2, <1>8 DEF Greeted
<1> QED
  BY <1>1, <1>2, <1>5, <1>7, <1>8, <1>9, <1>10, <1>11, <1>12, Uploads

LEMMA RedirOpens == IInv /\ RedirConnected => IInv'
<1> SUFFICES ASSUME IInv, RedirConnected PROVE IInv'
  OBVIOUS
<1>1. /\ Redir /\ live /\ remote = "connecting" /\ remote' = "connected" /\ timer' = "idle"
      /\ UNCHANGED <<sess, stage, server, reason, sbuf, cRecv, down>>
      /\ Encode(HdrLen + rbuf.len)
  BY DEF RedirConnected, Writing
<1>2. ProgramTypeOK /\ Attended /\ stage = "STREAM" /\ Opened /\ cRecv <= Preamble + UpLen
  BY <1>1, StreamFacts DEF IInv, Counted
<1>3. ~Local /\ ~Encoding /\ Preamble = 0 /\ Fresh = HdrLen
  BY <1>1, <1>2, TypeFacts, SessionFacts DEF Encoding
<1>4. enc = 0 /\ cRecv = rbuf.len
  BY <1>1, <1>2, <1>3 DEF Opened
<1>5. rbuf.len \in Nat /\ HdrLen \in Nat /\ HdrLen + rbuf.len \in Nat /\ cRecv \in Nat
  <2>1. HdrLen \in Nat
    BY Lengths
  <2>2. rbuf.len \in Nat /\ cRecv \in Nat
    BY <1>2, TypeFacts
  <2> QED
    BY <2>1, <2>2
<1> DEFINE out == Produced(HdrLen + rbuf.len)
<1>6. out \in Buffer /\ out.base \in Nat
  BY <1>2, <1>5, ProducedFields, BufferFields
<1>7. PICK s \in 0..out.len :
        /\ remoteGot' = remoteGot \o Unsent(out, s)
        /\ rbuf' = IF s = out.len THEN Buf(out.base, 0, 0) ELSE Rest(out, s)
        /\ watch' = (watch \ {"remote_send"}) \cup {"remote_recv"} \cup
                      (IF s = out.len THEN {"server_recv"} ELSE {})
  BY DEF RedirConnected
<1> HIDE DEF out
<1>8. remoteGot' \in Seq(Nat) /\ rbuf' \in Buffer
  BY <1>2, <1>6, <1>7, SendTypes, BufFields
<1>9. "server_send" \notin watch /\ watch \subseteq Watchers
  BY <1>1, <1>2 DEF Attended, ProgramTypeOK
<1>10. watch' \subseteq Watchers /\ "server_send" \notin watch' /\ "remote_recv" \in watch'
  BY <1>7, <1>9 DEF Watchers
<1>11. /\ enc' = enc + (HdrLen + rbuf.len) /\ enc' \in Nat
       /\ obfs' \in (IF sess.tls THEN {"start", "hello", "done"} ELSE {"none"})
       /\ obfs' # "start"
  BY <1>1, <1>5, EncodeFacts
<1>12. enc' = Fresh + (cRecv' - Preamble)
  BY <1>1, <1>3, <1>4, <1>5, <1>11
<1>13. Encoding' /\ Opened'
  BY <1>1, <1>12, SessionKept DEF Encoding, Opened
<1>14. Attended'
  BY <1>1, <1>10 DEF Attended, live
<1>15. sbuf' \in Buffer /\ cRecv' \in Nat /\ cRecv' <= Preamble + UpLen
  BY <1>1, <1>2, <1>5 DEF ProgramTypeOK
<1> QED
  BY <1>1, <1>2, <1>8, <1>9, <1>10, <1>11, <1>13, <1>14, <1>15, Uploads

LEMMA TunnelOpens == IInv /\ TunnelConnected => IInv'
<1> SUFFICES ASSUME IInv, TunnelConnected PROVE IInv'
  OBVIOUS
<1>1. /\ Tunnel /\ live /\ remote = "connecting" /\ Encode(HdrLen)
      /\ UNCHANGED <<sess, stage, sbuf, cRecv, down>>
  BY DEF TunnelConnected, Writing
<1>2. ProgramTypeOK /\ Attended /\ stage = "STREAM" /\ Opened /\ cRecv <= Preamble + UpLen
  BY <1>1, StreamFacts DEF IInv, Counted
<1>3. ~Local /\ ~Redir /\ ~Encoding /\ Preamble = 0 /\ Fresh = HdrLen
  BY <1>1, <1>2, TypeFacts, SessionFacts DEF Encoding
<1>4. enc = 0 /\ cRecv = 0
  BY <1>1, <1>2, <1>3 DEF Opened
<1>5. HdrLen \in Nat /\ UpLen \in Nat /\ sess.tls \in BOOLEAN
  BY <1>2, TypeFacts, SessionFacts, Lengths
<1>6. /\ enc' = enc + HdrLen /\ enc' \in Nat
      /\ obfs' = IF obfs = "start" THEN "hello" ELSE obfs
      /\ obfs' \in (IF sess.tls THEN {"start", "hello", "done"} ELSE {"none"})
      /\ obfs' # "start"
  BY <1>1, <1>5, EncodeFacts
<1>7. sbuf' \in Buffer /\ cRecv' \in Nat /\ cRecv' <= Preamble + UpLen /\ stage' \in Stages
  BY <1>1, <1>2, <1>4 DEF ProgramTypeOK
<1>8. enc' = HdrLen /\ enc' \in 0..(HdrLen + UpLen)
  BY <1>4, <1>5, <1>6
<1> DEFINE out == Produced(HdrLen)
<1>9. ASSUME CloseBoth("remote_error"), UNCHANGED rbuf,
             NEW s \in 0..(out.len - 1), remoteGot' = remoteGot \o Unsent(out, s)
      PROVE  IInv'
  <2>1. /\ "remote_error" \in Reasons /\ obfs' \in {"none", "start", "hello", "done"}
        /\ rbuf' \in Buffer
    BY <1>2, <1>5, <1>6, <1>9 DEF Reasons, ProgramTypeOK
  <2>2. obfs' = "none" <=> obfs = "none"
    BY <1>6
  <2>3. out \in Buffer /\ out.len \in Nat
    BY <1>2, <1>5, ProducedFields, BufferFields
  <2> HIDE DEF out
  <2>4. s \in 0..out.len
    BY <2>3
  <2>5. remoteGot' \in Seq(Nat)
    BY <1>2, <1>9, <2>3, <2>4, SendTypes
  <2> QED
    BY <1>1, <1>7, <1>8, <1>9, <2>1, <2>2, <2>5, Closes
<1>10. ASSUME \/ remoteGot' = remoteGot \o Unsent(out, out.len)
              \/ UNCHANGED remoteGot,
              rbuf' = Buf(out.base, 0, 0),
              remote' = "connected", timer' = "off",
              watch' = {"remote_recv", "server_recv"}, UNCHANGED <<server, reason>>
       PROVE  IInv'
  <2>1. out \in Buffer /\ out.base \in Nat /\ out.len \in Nat
    BY <1>2, <1>5, ProducedFields, BufferFields
  <2> HIDE DEF out
  <2>2. out.len \in 0..out.len
    BY <2>1
  <2>3. remoteGot' \in Seq(Nat) /\ rbuf' \in Buffer
    <3>1. remoteGot \in Seq(Nat)
      BY <1>2, TypeFacts
    <3>2. ASSUME remoteGot' = remoteGot \o Unsent(out, out.len)
          PROVE  remoteGot' \in Seq(Nat)
      BY <1>2, <2>1, <2>2, <3>2, SendTypes
    <3>3. Buf(out.base, 0, 0) \in Buffer
      BY <2>1, BufFields
    <3>4. remoteGot' \in Seq(Nat)
      BY <1>10, <3>1, <3>2
    <3> QED
      BY <1>10, <3>3, <3>4
  <2>4. "server_send" \notin watch
    BY <1>1, <1>2 DEF Attended
  <2>5. watch' \subseteq Watchers /\ "server_send" \notin watch' /\ "remote_recv" \in watch'
    BY <1>10 DEF Watchers
  <2>6. enc' = Fresh + (cRecv' - Preamble)
    BY <1>1, <1>3, <1>4, <1>5, <1>8
  <2>7. Encoding' /\ Opened'
    BY <1>10, <2>6, <1>1, SessionKept DEF Encoding, Opened
  <2>8. Attended'
    BY <1>1, <1>10, <2>5 DEF Attended, live
  <2> QED
    BY <1>1, <1>2, <1>6, <1>7, <1>10, <2>3, <2>4, <2>5, <2>7, <2>8, Uploads
<1> QED
  BY <1>9, <1>10 DEF TunnelConnected

LEMMA AnswerOpens == IInv /\ RemoteRecvAnswer => IInv'
<1> SUFFICES ASSUME IInv, RemoteRecvAnswer PROVE IInv'
  OBVIOUS
<1>1. /\ live /\ "remote_recv" \in watch /\ obfs = "hello" /\ obfs' = "done"
      /\ sbuf' = WithLen(sbuf, 0)
      /\ UNCHANGED <<sess, stage, enc, cRecv, down>>
  BY DEF RemoteRecvAnswer, RemoteReading
<1>2. /\ remote = "connected" /\ Encoding /\ stage = "STREAM" /\ "server_send" \notin watch
  BY <1>1, AnswerFacts
<1>3. ProgramTypeOK /\ Attended /\ Opened /\ Greeted /\ cRecv <= Preamble + UpLen
  BY <1>1, <1>2, StreamFacts DEF IInv, Counted
<1>4. sbuf' \in Buffer /\ GreetLen \in Nat /\ enc \in Nat /\ cRecv \in Nat /\ sess.tls \in BOOLEAN
  BY <1>1, <1>3, TypeFacts, SessionFacts, WithLenFields, Lengths
<1>5. sess.tls /\ obfs' \in (IF sess.tls THEN {"start", "hello", "done"} ELSE {"none"})
  BY <1>1, <1>3, <1>4 DEF Greeted
<1>6. GreetLen + enc \in Nat
  BY <1>4
<1>7. ClosingPart \in Buffer /\ ClosingPart.len \in Nat
  BY <1>4, <1>6, BufFields DEF ClosingPart
<1>8. ASSUME CloseBoth("remote_error"), UNCHANGED <<rbuf, remoteGot>>
      PROVE  IInv'
  <2>1. /\ "remote_error" \in Reasons /\ rbuf' \in Buffer /\ remoteGot' \in Seq(Nat)
        /\ enc' \in 0..(HdrLen + UpLen) /\ stage' \in Stages
        /\ cRecv' \in Nat /\ cRecv' <= Preamble + UpLen
    BY <1>1, <1>3, <1>4, <1>8 DEF Reasons, ProgramTypeOK
  <2> QED
    BY <1>1, <1>4, <1>8, <2>1, Closes
<1>9. ASSUME NEW s \in 0..ClosingPart.len,
             remoteGot' = remoteGot \o Unsent(ClosingPart, s), rbuf' \in Buffer,
             UNCHANGED <<server, remote, timer, reason>>,
             \/ watch' = watch
             \/ watch' = (watch \ {"remote_send"}) \cup {"server_recv"}
      PROVE  IInv'
  <2>1. remoteGot' \in Seq(Nat)
    BY <1>3, <1>7, <1>9, SendTypes
  <2>2. watch' \subseteq Watchers /\ "server_send" \notin watch' /\ "remote_recv" \in watch'
    BY <1>1, <1>2, <1>3, <1>9 DEF ProgramTypeOK, Watchers
  <2>3. Encoding' /\ Opened'
    BY <1>1, <1>2, <1>3, <1>9, SessionKept DEF Encoding, Opened
  <2>4. Attended'
    BY <1>1, <1>2, <1>9, <2>2 DEF Attended, live
  <2>5. /\ timer' \in {"off", "connect", "idle"} /\ cRecv' \in Nat /\ enc' \in Nat
        /\ cRecv' <= Preamble + UpLen
    BY <1>1, <1>3, <1>4, <1>9 DEF ProgramTypeOK
  <2> QED
    BY <1>1, <1>2, <1>4, <1>5, <1>9, <2>1, <2>2, <2>3, <2>4, <2>5, Uploads
<1>10. ASSUME remoteGot' = remoteGot \o Unsent(ClosingPart, ClosingPart.len),
              rbuf' = Buf(GreetLen, 0, 0), Switch("remote_send", {"server_recv"})
       PROVE  IInv'
  <2>1. ClosingPart.len \in 0..ClosingPart.len /\ rbuf' \in Buffer
    BY <1>4, <1>7, <1>10, BufFields
  <2> QED
    BY <1>9, <1>10, <2>1 DEF Switch
<1>11. ASSUME NEW s \in 0..(ClosingPart.len - 1), UNCHANGED conn,
              remoteGot' = remoteGot \o Unsent(ClosingPart, s), rbuf' = Rest(ClosingPart, s)
       PROVE  IInv'
  <2>1. s \in 0..ClosingPart.len
    BY <1>7
  <2>2. rbuf' \in Buffer
    BY <1>3, <1>7, <1>11, <2>1, SendTypes
  <2> QED
    BY <1>9, <1>11, <2>1, <2>2 DEF conn
<1> QED
  BY <1>8, <1>10, <1>11 DEF RemoteRecvAnswer

-----------------------------------------------------------------------------
(***************************************************************************)
(* The request of ssr-local.                                               *)
(***************************************************************************)

LEMMA UnparsedFacts ==
  ASSUME IInv, live, Unparsed
  PROVE  /\ Unopened /\ watch = {"server_recv"} /\ ~Encoding
         /\ obfs \in {"none", "start"}
BY DEF IInv, Counted, Attended, Greeted, Unopened, Unparsed, Encoding

\* How much of a first packet goes into the encoders.
FirstPlainLen(p) == IF sess.direct THEN p ELSE HdrLen + p

LEMMA LocalConnects ==
  ASSUME IInv, live, Unparsed, NEW p \in Nat, cRecv' \in Nat,
         cRecv' = Preamble + p, p <= UpLen, stage' = "STREAM",
         sbuf' \in Buffer, UNCHANGED <<sess, down>>, LocalConnect(p)
  PROVE  IInv'
<1>1. /\ Local /\ enc = 0 /\ remote = "none" /\ ~Encoding /\ obfs \in {"none", "start"}
      /\ watch = {"server_recv"} /\ ProgramTypeOK /\ Greeted
  BY UnparsedFacts DEF Unopened, IInv
<1>2. /\ Preamble \in Nat /\ Fresh \in Nat /\ HdrLen \in Nat /\ UpLen \in Nat
      /\ sess.tls \in BOOLEAN /\ sess.direct \in BOOLEAN
  BY <1>1, TypeFacts, SessionFacts, Lengths
<1>3. cRecv' <= Preamble + UpLen
  BY <1>2
<1> DEFINE n == FirstPlainLen(p)
           out == Produced(n)
<1>4. n \in Nat /\ n = Fresh + p
  BY <1>2 DEF FirstPlainLen, Fresh
<1>5. out \in Buffer /\ out.len \in Nat
  BY <1>1, <1>4, ProducedFields, BufferFields
<1>6. ASSUME CloseBoth("unreachable"), UNCHANGED <<code, rbuf, remoteGot>>
      PROVE  IInv'
  <2>1. "unreachable" \in Reasons /\ stage' \in Stages
    BY DEF Reasons, Stages
  <2>2. UNCHANGED <<obfs, enc>>
    BY <1>6 DEF code
  <2>3. /\ obfs' \in {"none", "start", "hello", "done"} /\ enc' \in 0..(HdrLen + UpLen)
        /\ rbuf' \in Buffer /\ remoteGot' \in Seq(Nat)
    BY <1>1, <1>6, <2>2 DEF ProgramTypeOK
  <2> QED
    BY <1>3, <1>6, <2>1, <2>2, <2>3, Closes
<1>7. ASSUME Encode(n), NEW s \in 0..out.len, rbuf' \in Buffer,
             remoteGot' = remoteGot \o Unsent(out, s), UNCHANGED <<server, reason>>,
             \/ /\ remote' = "connecting" /\ watch' = {"remote_send"}
                /\ timer' \in {"off", "connect"}
             \/ /\ remote' = "connected" /\ watch' = {"server_recv", "remote_recv"}
                /\ timer' = "idle"
      PROVE  IInv'
  <2>1. /\ enc' = enc + n /\ enc' \in Nat /\ obfs' # "start"
        /\ obfs' \in (IF sess.tls THEN {"start", "hello", "done"} ELSE {"none"})
    BY <1>4, <1>7, EncodeFacts
  <2>2. enc' = Fresh + (cRecv' - Preamble)
    BY <1>1, <1>2, <1>4, <2>1
  <2>3. remoteGot' \in Seq(Nat)
    BY <1>1, <1>5, <1>7, SendTypes
  <2>4. Encoding' /\ Opened'
    BY <1>1, <1>7, <2>2, SessionKept DEF Encoding, Opened
  <2>5. watch' \subseteq Watchers /\ timer' \in {"off", "connect", "idle"}
    BY <1>7 DEF Watchers
  <2>6. "server_send" \notin watch /\ "server_send" \notin watch'
    BY <1>1, <1>7
  <2>7. Attended'
    BY <1>7, <2>6 DEF Attended, live
  <2> QED
    BY <1>3, <1>7, <2>1, <2>3, <2>4, <2>5, <2>6, <2>7, Uploads
<1>8. \/ CloseBoth("unreachable") /\ UNCHANGED <<code, rbuf, remoteGot>>
      \/ /\ Encode(n)
         /\ \/ \E s \in 0..(out.len - 1) :
                 /\ remote' = "connecting" /\ watch' = {"remote_send"}
                 /\ timer' = "connect" /\ rbuf' = Rest(out, s)
                 /\ remoteGot' = remoteGot \o Unsent(out, s)
                 /\ UNCHANGED <<server, reason>>
            \/ /\ remote' = "connecting" /\ watch' = {"remote_send"}
               /\ timer' \in {"off", "connect"} /\ rbuf' = Rest(out, 0)
               /\ remoteGot' = remoteGot \o Unsent(out, 0)
               /\ UNCHANGED <<server, reason>>
            \/ /\ remote' = "connected" /\ watch' = {"server_recv", "remote_recv"}
               /\ timer' = "idle" /\ rbuf' = Buf(0, 0, 0)
               /\ remoteGot' = remoteGot \o Unsent(out, out.len)
               /\ UNCHANGED <<server, reason>>
  BY DEF LocalConnect, FirstPlainLen
<1> HIDE DEF n, out
<1>9. 0 \in 0..out.len /\ out.len \in 0..out.len /\ Buf(0, 0, 0) \in Buffer
  BY <1>5, BufFields
<1>10. \A s \in 0..(out.len - 1) : s \in 0..out.len
  BY <1>5
<1>11. \A s \in 0..out.len : Rest(out, s) \in Buffer
  BY <1>1, <1>5, SendTypes
<1> QED
  BY <1>6, <1>7, <1>8, <1>9, <1>10, <1>11

LEMMA LocalParses ==
  ASSUME IInv, live, Unparsed, NEW at, NEW p \in Nat, cRecv' \in Nat,
         cRecv' = Preamble + p, p <= UpLen, UNCHANGED <<sess, down>>,
         LocalParse(at, p)
  PROVE  IInv'
<1>1. /\ Unopened /\ watch = {"server_recv"} /\ ~Encoding /\ ProgramTypeOK /\ Greeted
      /\ Counted /\ Attended /\ DownOrder /\ obfs \in {"none", "start"}
  BY UnparsedFacts DEF IInv
<1>2. Preamble \in Nat /\ Preamble <= 2 /\ UpLen \in Nat /\ Preamble' = Preamble
  BY <1>1, TypeFacts, SessionFacts, SessionKept, Lengths
<1>3. cRecv' <= Preamble + UpLen /\ cRecv' \in 0..(2 + UpLen)
  BY <1>2
<1>4. ASSUME NEW why \in {"client_error", "rejected"}, CloseBoth(why),
             UNCHANGED <<code, rbuf, remoteGot>>, stage' \in Stages, sbuf' \in Buffer
      PROVE  IInv'
  <2>1. UNCHANGED <<obfs, enc>>
    BY <1>4 DEF code
  <2>2. /\ obfs' \in {"none", "start", "hello", "done"} /\ enc' \in 0..(HdrLen + UpLen)
        /\ rbuf' \in Buffer /\ remoteGot' \in Seq(Nat) /\ why \in Reasons
    BY <1>1, <1>4, <2>1 DEF ProgramTypeOK, Reasons
  <2> QED
    BY <1>3, <1>4, <2>1, <2>2, Closes
<1>5. ASSUME stage' \in {"HANDSHAKE", "PARSE"}, sbuf' = Buf(0, 0, 1 + p),
             UNCHANGED <<conn, code, rbuf, remoteGot>>
      PROVE  IInv'
  <2>1. UNCHANGED <<server, remote, watch, timer, reason, obfs, enc, dRecv, decoded, clientGot>>
    BY <1>5 DEF conn, code, down
  <2>2. 1 + p \in Nat /\ 1 + p = cRecv' - Preamble + 1
    BY <1>2
  <2>3. sbuf' \in Buffer /\ sbuf'.len = 1 + p
    BY <1>5, <2>2, BufFields
  <2>4. ProgramTypeOK'
    BY <1>1, <1>3, <1>5, <2>1, <2>3 DEF ProgramTypeOK, Stages
  <2>5. Unopened'
    BY <1>1, <1>2, <1>5, <2>1, <2>2, <2>3, SessionKept DEF Unopened
  <2>6. Counted'
    BY <1>1, <1>2, <1>3, <1>5, <2>1, <2>5 DEF Counted
  <2>7. Greeted'
    BY <1>1, <2>1, SessionKept DEF Greeted, Encoding, live
  <2>8. Attended'
    BY <1>1, <2>1, SessionKept DEF Attended, live
  <2>9. DownOrder'
    BY <1>1, <2>1, DownKept DEF live, down
  <2> QED
    BY <2>4, <2>6, <2>7, <2>8, <2>9 DEF IInv
<1>6. sbuf \in Buffer /\ Buf(0, 0, p) \in Buffer /\ stage \in Stages /\ "STREAM" \in Stages
  BY <1>1, BufFields DEF ProgramTypeOK, Stages
<1>7. CASE \E why \in {"client_error", "rejected"} :
             CloseBoth(why) /\ UNCHANGED <<stage, code, sbuf, rbuf, remoteGot>>
  BY <1>4, <1>6, <1>7
<1>8. CASE /\ stage' \in {"HANDSHAKE", "PARSE"} /\ sbuf' = Buf(0, 0, 1 + p)
           /\ UNCHANGED <<conn, code, rbuf, remoteGot>>
  BY <1>5, <1>8
<1>9. CASE /\ stage' = "STREAM" /\ sbuf' = Buf(0, 0, p)
           /\ CloseBoth("rejected") /\ UNCHANGED <<code, rbuf, remoteGot>>
  BY <1>4, <1>6, <1>9
<1>10. CASE stage' = "STREAM" /\ sbuf' = Buf(0, 0, p) /\ LocalConnect(p)
  BY <1>6, <1>10, LocalConnects
<1> QED
  BY <1>7, <1>8, <1>9, <1>10 DEF LocalParse

LEMMA GreetingComes == IInv /\ LocalRecvInit => IInv'
<1> SUFFICES ASSUME IInv, LocalRecvInit PROVE IInv'
  OBVIOUS
<1>1. Unparsed /\ stage = "INIT" /\ live /\ UNCHANGED <<sess, down>>
  BY DEF LocalRecvInit, Arrived, Reading
<1>2. /\ Local /\ cRecv = 0 /\ ProgramTypeOK /\ Counted /\ Attended /\ Greeted /\ DownOrder
      /\ remote = "none" /\ enc = 0 /\ watch = {"server_recv"}
  BY <1>1, UnparsedFacts DEF Unopened, IInv
<1>3. /\ Preamble = (IF sess.fixed THEN 0 ELSE 2) /\ sess.fixed \in BOOLEAN
      /\ UpLen \in Nat /\ BufSize \in Nat
  BY <1>2, TypeFacts, SessionFacts, Lengths DEF Preamble
<1>4. PICK r \in 1..BufSize :
        /\ r <= Preamble + UpLen - cRecv /\ cRecv' = cRecv + r
        /\ \/ sess.fixed /\ LocalParse("PARSE", r)
           \/ ~sess.fixed /\ r > 1 /\ LocalParse("HANDSHAKE", r - 2)
           \/ /\ ~sess.fixed /\ r = 1
              /\ stage' = "HANDSHAKE"
              /\ sbuf' = Buf(0, 0, 0)
              /\ UNCHANGED <<conn, code, rbuf, remoteGot>>
  BY DEF LocalRecvInit, Arrived
<1>5. r \in Nat /\ cRecv' \in Nat /\ cRecv' = r /\ r <= Preamble + UpLen
  BY <1>2, <1>3, <1>4
<1>6. CASE sess.fixed /\ LocalParse("PARSE", r)
  <2>1. cRecv' = Preamble + r /\ r <= UpLen
    BY <1>3, <1>5, <1>6
  <2> QED
    BY <1>1, <1>5, <1>6, <2>1, LocalParses
<1>7. CASE ~sess.fixed /\ r > 1 /\ LocalParse("HANDSHAKE", r - 2)
  <2>1. r - 2 \in Nat /\ cRecv' = Preamble + (r - 2) /\ r - 2 <= UpLen
    BY <1>3, <1>5, <1>7
  <2> QED
    BY <1>1, <1>5, <1>7, <2>1, LocalParses
<1>8. CASE /\ ~sess.fixed /\ r = 1 /\ stage' = "HANDSHAKE" /\ sbuf' = Buf(0, 0, 0)
           /\ UNCHANGED <<conn, code, rbuf, remoteGot>>
  <2>1. UNCHANGED <<server, remote, watch, timer, reason, obfs, enc, dRecv, decoded, clientGot>>
    BY <1>1, <1>8 DEF conn, code, down
  <2>2. Preamble = 2 /\ Preamble' = 2 /\ cRecv' = 1 /\ Local'
    BY <1>1, <1>2, <1>3, <1>5, <1>8, SessionKept
  <2>3. sbuf' \in Buffer /\ sbuf'.len = 0
    BY <1>8, BufFields
  <2>4. cRecv' \in 0..(2 + UpLen) /\ cRecv' <= Preamble' + UpLen
    BY <1>3, <2>2
  <2>5. ProgramTypeOK'
    BY <1>1, <1>2, <1>8, <2>1, <2>3, <2>4 DEF ProgramTypeOK, Stages
  <2>6. Unopened'
    BY <1>2, <1>8, <2>1, <2>2, <2>3 DEF Unopened
  <2>7. Counted'
    BY <1>2, <1>8, <2>1, <2>4, <2>6 DEF Counted
  <2>8. Greeted'
    BY <1>1, <1>2, <2>1, SessionKept DEF Greeted, Encoding, live
  <2>9. Attended'
    BY <1>1, <1>2, <2>1, SessionKept DEF Attended, live
  <2>10. DownOrder'
    BY <1>1, <1>2, <2>1, DownKept DEF live
  <2> QED
    BY <2>5, <2>7, <2>8, <2>9, <2>10 DEF IInv
<1> QED
  BY <1>4, <1>6, <1>7, <1>8

LEMMA RequestComes == IInv /\ LocalRecvRequest => IInv'
<1> SUFFICES ASSUME IInv, LocalRecvRequest PROVE IInv'
  OBVIOUS
<1>1. Unparsed /\ stage # "INIT" /\ live /\ UNCHANGED <<sess, down>>
  BY DEF LocalRecvRequest, Arrived, Reading
<1>2. ProgramTypeOK /\ cRecv <= Preamble + UpLen /\ sbuf.len = cRecv - Preamble + 1
  BY <1>1, UnparsedFacts DEF Unopened, IInv, Counted
<1>3. PICK r \in 1..BufSize :
        /\ r <= Preamble + UpLen - cRecv /\ cRecv' = cRecv + r
        /\ LocalParse(stage, sbuf.len + r - 1)
  BY DEF LocalRecvRequest, Arrived
<1>4. /\ r \in Nat /\ r > 0 /\ cRecv \in Nat /\ sbuf.len \in Nat /\ Preamble \in Nat
      /\ UpLen \in Nat
  BY <1>2, TypeFacts, SessionFacts, Lengths
<1> DEFINE p == sbuf.len + r - 1
<1>5. p \in Nat /\ cRecv' \in Nat /\ cRecv' = Preamble + p /\ p <= UpLen
  BY <1>2, <1>3, <1>4
<1>6. LocalParse(stage, p)
  BY <1>3
<1> HIDE DEF p
<1> QED
  BY <1>1, <1>5, <1>6, LocalParses

-----------------------------------------------------------------------------
(***************************************************************************)
(* The invariant, and what it says to a reader.                            *)
(***************************************************************************)

LEMMA StutterIInv == IInv /\ UNCHANGED vars => IInv'
<1> SUFFICES ASSUME IInv, UNCHANGED vars PROVE IInv'
  OBVIOUS
<1>1. /\ UNCHANGED <<sess, stage, server, remote, watch, timer, reason, obfs, enc>>
      /\ UNCHANGED <<sbuf, rbuf, cRecv, remoteGot, dRecv, decoded, clientGot>>
  BY DEF vars, conn, code, down
<1>2. ProgramTypeOK' /\ Greeted'
  BY <1>1, SessionKept DEF IInv, ProgramTypeOK, Greeted, Encoding, live
<1>3. Counted'
  BY <1>1, SessionKept DEF IInv, Counted, Opened, Unopened, Encoding, live
<1>4. Attended' /\ DownOrder'
  BY <1>1, SessionKept DEF IInv, Attended, DownOrder, live
<1> QED
  BY <1>2, <1>3, <1>4 DEF IInv

\* The steps that close a connection for a reason that is not data.
Endings == \/ ServerRecvEnd \/ RemoteSendError \/ RemoteRecvEnd \/ ServerSendError
           \/ TimedOut

LEMMA NextCases ==
  Next => \/ Endings
          \/ LocalRecvInit \/ LocalRecvRequest \/ RedirRecvEarly \/ ServerRecvStream
          \/ RemoteSendPart \/ RemoteSendAll
          \/ LocalConnected \/ RedirConnected \/ TunnelConnected
          \/ RemoteRecvAnswer \/ RemoteRecvData
          \/ ServerSendPart \/ ServerSendAll
BY DEF Next, Endings, ServerRecvCb, RemoteSendCb, RemoteRecvCb, ServerSendCb,
       HandshakeTimeout, OtherTimeout

LEMMA NextIInv == IInv /\ [Next]_vars => IInv'
<1>1. IInv /\ Endings => IInv'
  BY EndingsClose, Closing DEF Endings
<1> QED
  BY <1>1, NextCases, GreetingComes, RequestComes, EarlyDataWaits, PayloadComes,
     RemainderGoes, LocalOpens, RedirOpens, TunnelOpens, AnswerOpens, DataArrives,
     AnswerGoesOn, StutterIInv

LEMMA SpecIInv == Spec => []IInv
<1>1. Init => IInv
  BY InitIInv
<1>2. IInv /\ [Next]_vars => IInv'
  BY NextIInv
<1> QED
  BY <1>1, <1>2, PTL DEF Spec

\* A slip is noted once and for all.
LEMMA SlipStays == [Next]_vars => UNCHANGED slipped \/ slipped' = TRUE
<1>1. UNCHANGED vars => UNCHANGED slipped
  BY DEF vars
<1>2. RedirConnected \/ TunnelConnected \/ RemoteRecvAnswer
      => UNCHANGED slipped \/ slipped' = TRUE
  BY DEF RedirConnected, TunnelConnected, RemoteRecvAnswer
<1>3. Next => \/ UNCHANGED slipped
              \/ RedirConnected \/ TunnelConnected \/ RemoteRecvAnswer
  BY DEF Next, ServerRecvCb, RemoteSendCb, RemoteRecvCb, ServerSendCb,
         HandshakeTimeout, OtherTimeout, TimedOut
<1> QED
  BY <1>1, <1>2, <1>3

\* Every variable stays within its type, on a socket of any kind: the counters
\* stay below the lengths, whatever is parsed, held or sent in parts, and
\* whatever the code makes of it.
THEOREM ClientTypeCorrect == Spec => []TypeOK
<1>1. IInv => ProgramTypeOK
  BY DEF IInv
<1>2. Init => slipped \in BOOLEAN
  BY DEF Init
<1>3. slipped \in BOOLEAN /\ [Next]_vars => (slipped \in BOOLEAN)'
  BY SlipStays
<1>4. Spec => [](slipped \in BOOLEAN)
  BY <1>2, <1>3, PTL DEF Spec
<1>5. ProgramTypeOK /\ slipped \in BOOLEAN => TypeOK
  BY DEF TypeOK
<1> QED
  BY <1>1, <1>4, <1>5, SpecIInv, PTL

-----------------------------------------------------------------------------
(***************************************************************************)
(* The order of the upload, as long as no send has slipped: afterwards     *)
(* ssr-redir and a session that shakes hands have forgotten the watcher    *)
(* (the run redir_first_send), and ssr-tunnel the header.                  *)
(***************************************************************************)

\* remote->buf holds what was encoded and not yet taken, and says where it goes.
Pending == /\ rbuf.len = EmitLen - Len(remoteGot)
           /\ rbuf.len > 0 => rbuf.base + rbuf.idx = EmitBase + Len(remoteGot)

\* All was taken; ssr-tunnel does not clear the length of its buffer.
AllTaken == Len(remoteGot) = EmitLen /\ (Tunnel \/ rbuf.len = 0)

UpOrder ==
  /\ remoteGot = Run(EmitBase, Len(remoteGot))
  /\ Len(remoteGot) <= EmitLen
  /\ live /\ Encoding => IF "remote_send" \in watch THEN Pending ELSE AllTaken

\* A connected session waits for the server's socket, or for the application,
\* or for the answer to its hello.
UpWatched ==
  live /\ remote = "connected" =>
    IF "remote_send" \in watch
    THEN "server_recv" \notin watch /\ Len(remoteGot) < EmitLen
    ELSE "server_recv" \in watch \/ obfs = "hello"

UpInv == UpOrder /\ UpWatched

LEMMA EmitFacts ==
  ASSUME IInv
  PROVE  /\ EmitBase \in Nat /\ EmitLen \in Nat /\ EmitBase <= PayloadBase
         /\ EmitBase = IF sess.tls THEN 0 ELSE FirstPlain
         /\ EmitLen = CASE obfs = "start" -> 0
                        [] obfs = "hello" -> GreetLen
                        [] obfs = "done"  -> PlainBase + enc
                        [] obfs = "none"  -> enc
<1>1. /\ FirstPlain \in Nat /\ sess.tls \in BOOLEAN /\ enc \in Nat
      /\ Fresh \in Nat /\ FirstPlain + Fresh = PayloadBase
  BY TypeFacts, SessionFacts DEF IInv
<1>2. /\ obfs \in (IF sess.tls THEN {"start", "hello", "done"} ELSE {"none"})
  BY DEF IInv, Greeted
<1>3. GreetLen \in Nat /\ PlainBase \in Nat /\ PayloadBase \in Nat
  BY Lengths
<1>4. EmitBase = IF sess.tls THEN 0 ELSE FirstPlain
  BY <1>1, <1>2 DEF EmitBase
<1>5. FirstPlain <= PayloadBase
  BY <1>1, <1>3
<1>6. EmitBase \in Nat /\ EmitBase <= PayloadBase
  BY <1>1, <1>3, <1>4, <1>5
<1>7. CASE obfs = "start"
  BY <1>1, <1>3, <1>4, <1>6, <1>7 DEF EmitLen
<1>8. CASE obfs = "hello"
  BY <1>1, <1>3, <1>4, <1>6, <1>8 DEF EmitLen
<1>9. CASE obfs = "done"
  <2>1. PlainBase + enc \in Nat
    BY <1>1, <1>3
  <2> QED
    BY <1>4, <1>6, <1>9, <2>1 DEF EmitLen
<1>10. CASE obfs = "none"
  BY <1>1, <1>4, <1>6, <1>10 DEF EmitLen
<1>11. obfs \in {"start", "hello", "done", "none"}
  BY <1>1, <1>2
<1> QED
  BY <1>7, <1>8, <1>9, <1>10, <1>11

Measured == EmitLen \in Nat

LEMMA EmitLenType == IInv => Measured
BY EmitFacts DEF Measured

LEMMA EmitLenNext == IInv' => Measured'
BY EmitLenType, PTL

\* The wire starts at the same position all the time.
LEMMA EmitBaseKept ==
  ASSUME IInv, IInv', UNCHANGED sess
  PROVE  EmitBase' = EmitBase
<1>1. EmitBase = IF sess.tls THEN 0 ELSE FirstPlain
  BY EmitFacts
<1>2. IInv' => EmitBase' = IF sess'.tls THEN 0 ELSE FirstPlain'
  BY DEF IInv, Greeted, EmitBase, ProgramTypeOK
<1> QED
  BY <1>1, <1>2, SessionKept

\* Before the first data is encoded nothing has been produced.
LEMMA NothingYet ==
  ASSUME IInv, UpOrder, live, ~Encoding
  PROVE  EmitLen = 0 /\ Len(remoteGot) = 0
<1>1. enc = 0 /\ obfs \in {"none", "start"}
  BY DEF IInv, Counted, Greeted, Opened, Unopened
<1>2. EmitLen = 0
  BY <1>1 DEF EmitLen
<1>3. Len(remoteGot) \in Nat /\ Len(remoteGot) <= 0
  BY <1>2, TypeFacts DEF IInv, UpOrder
<1> QED
  BY <1>2, <1>3

\* What the encoders produce goes behind what they have produced.
LEMMA EncodeExtends ==
  ASSUME IInv, NEW n \in Nat, Encode(n), UNCHANGED sess
  PROVE  /\ Produced(n).len \in Nat
         /\ EmitLen' = EmitLen + Produced(n).len
         /\ Produced(n).len > 0 =>
              Produced(n).base + Produced(n).idx = EmitBase + EmitLen
<1>1. /\ enc' = enc + n /\ obfs' = IF obfs = "start" THEN "hello" ELSE obfs
  BY DEF Encode
<1>2. /\ enc \in Nat /\ GreetLen \in Nat /\ PlainBase \in Nat /\ FirstPlain \in Nat
      /\ sess.tls \in BOOLEAN /\ sess.direct \in BOOLEAN
      /\ (sess.direct => ~sess.tls)
  BY TypeFacts, SessionFacts, Lengths DEF IInv
<1>3. obfs \in (IF sess.tls THEN {"start", "hello", "done"} ELSE {"none"})
  BY DEF IInv, Greeted
<1>4. ProgramTypeOK
  BY DEF IInv
<1> DEFINE out == Produced(n)
<1>5. CASE obfs = "start"
  <2>1. out.len = GreetLen /\ out.base = 0 /\ out.idx = 0
    BY <1>4, <1>5, ProducedFields
  <2>2. EmitLen = 0 /\ EmitLen' = GreetLen /\ EmitBase = 0
    BY <1>1, <1>5 DEF EmitLen, EmitBase
  <2> QED
    BY <1>2, <2>1, <2>2
<1>6. CASE obfs = "hello"
  <2>1. out.len = 0
    BY <1>4, <1>6, ProducedFields
  <2>2. EmitLen = GreetLen /\ EmitLen' = GreetLen
    BY <1>1, <1>6 DEF EmitLen
  <2> QED
    BY <1>2, <2>1, <2>2
<1>7. CASE obfs = "done"
  <2>1. out.len = n /\ out.base = NextPlain /\ out.idx = 0
    BY <1>4, <1>7, ProducedFields
  <2>2. EmitLen = PlainBase + enc /\ EmitLen' = PlainBase + (enc + n) /\ EmitBase = 0
    BY <1>1, <1>7 DEF EmitLen, EmitBase
  <2>3. NextPlain = PlainBase + enc
    BY <1>2, <1>3, <1>7 DEF NextPlain, FirstPlain
  <2> QED
    BY <1>2, <2>1, <2>2, <2>3
<1>8. CASE obfs = "none"
  <2>1. out.len = n /\ out.base = NextPlain /\ out.idx = 0
    BY <1>4, <1>8, ProducedFields
  <2>2. EmitLen = enc /\ EmitLen' = enc + n /\ EmitBase = FirstPlain
    BY <1>1, <1>8 DEF EmitLen, EmitBase
  <2> QED
    BY <1>2, <2>1, <2>2 DEF NextPlain
<1>9. obfs \in {"start", "hello", "done", "none"}
  BY <1>2, <1>3
<1> QED
  BY <1>5, <1>6, <1>7, <1>8, <1>9

\* A step after which nothing is encoded for a live connection any more, or
\* not yet.
LEMMA UpIdle ==
  ASSUME IInv, IInv', UpInv, UNCHANGED <<sess, remoteGot>>, ~(live' /\ Encoding'),
         EmitLen' >= EmitLen
  PROVE  UpInv'
<1>1. EmitBase' = EmitBase
  BY EmitBaseKept
<1>2. /\ remoteGot = Run(EmitBase, Len(remoteGot)) /\ Len(remoteGot) <= EmitLen
      /\ EmitLen \in Nat /\ EmitLen' \in Nat /\ Len(remoteGot) \in Nat
  BY EmitFacts, EmitLenNext, TypeFacts DEF UpInv, UpOrder, IInv, Measured
<1>3. Len(remoteGot) <= EmitLen'
  BY <1>2
<1>4. UpOrder'
  BY <1>1, <1>2, <1>3 DEF UpOrder
<1>5. UpWatched'
  BY DEF UpWatched, Encoding
<1> QED
  BY <1>4, <1>5 DEF UpInv

\* The server's socket takes s units of what is due.
LEMMA UpSends ==
  ASSUME IInv, IInv', UpInv, UNCHANGED sess, NEW b \in Buffer, NEW s \in 0..b.len,
         Len(remoteGot) + b.len = EmitLen',
         b.len > 0 => b.base + b.idx = EmitBase + Len(remoteGot),
         remoteGot' = remoteGot \o Unsent(b, s)
  PROVE  /\ remoteGot' = Run(EmitBase', Len(remoteGot'))
         /\ Len(remoteGot') = Len(remoteGot) + s
         /\ Len(remoteGot') \in Nat /\ EmitLen' \in Nat
         /\ Len(remoteGot') <= EmitLen'
         /\ s = b.len => Len(remoteGot') = EmitLen'
         /\ s < b.len => Len(remoteGot') < EmitLen'
         /\ Rest(b, s).len = EmitLen' - Len(remoteGot')
         /\ Rest(b, s).len > 0 =>
              Rest(b, s).base + Rest(b, s).idx = EmitBase' + Len(remoteGot')
<1> DEFINE q == remoteGot
           g == Len(remoteGot)
           a == EmitBase
<1>1. q \in Seq(Nat) /\ q = Run(a, g) /\ g \in Nat /\ a \in Nat /\ g = Len(q)
  BY TypeFacts, EmitFacts DEF IInv, UpInv, UpOrder
<1>2. b.base \in Nat /\ b.idx \in Nat /\ b.len \in Nat /\ s \in Nat /\ s <= b.len
  BY BufferFields
<1>3. EmitBase' = a
  BY EmitBaseKept
<1>4. /\ Rest(b, s).base = b.base /\ Rest(b, s).idx = b.idx + s
      /\ Rest(b, s).len = b.len - s
  BY <1>2, RestFields
<1> HIDE DEF q, a
<1>5. Unsent(b, s) = Run(a + g, s)
  <2>1. CASE b.len > 0
    <3>1. b.base + b.idx = a + g
      BY <2>1 DEF a
    <3> QED
      BY <3>1 DEF Unsent
  <2>2. CASE ~(b.len > 0)
    <3>1. s = 0
      BY <1>2, <2>2
    <3>2. Unsent(b, 0) = <<>> /\ Run(a + g, 0) = <<>>
      BY RunEmpty DEF Unsent
    <3> QED
      BY <3>1, <3>2
  <2> QED
    BY <2>1, <2>2
<1> HIDE DEF g
<1>6. /\ q \o Run(a + g, s) = Run(a, g + s)
      /\ Len(q \o Run(a + g, s)) = g + s
  <2>1. /\ q \o Run(a + Len(q), s) = Run(a, Len(q) + s)
        /\ Len(q \o Run(a + Len(q), s)) = Len(q) + s
    BY <1>1, <1>2, RunGrows
  <2> QED
    BY <1>1, <2>1
<1>7. remoteGot' = Run(a, g + s) /\ Len(remoteGot') = g + s
  BY <1>5, <1>6 DEF q
<1>8. g + b.len = EmitLen' /\ (b.len > 0 => b.base + b.idx = a + g)
  BY DEF g, a
<1>9. EmitLen' \in Nat
  BY EmitLenNext DEF Measured
<1>10. /\ g + s \in Nat /\ g + s <= EmitLen'
       /\ s = b.len => g + s = EmitLen'
       /\ s < b.len => g + s < EmitLen'
       /\ b.len - s = EmitLen' - (g + s)
       /\ b.len - s > 0 => b.base + (b.idx + s) = a + (g + s)
  <2> DEFINE l == b.len
             i == b.idx
             c == b.base
             e == EmitLen'
  <2>1. /\ l \in Nat /\ i \in Nat /\ c \in Nat /\ e \in Nat /\ s \in Nat /\ s <= l
        /\ g \in Nat /\ a \in Nat /\ g + l = e /\ (l > 0 => c + i = a + g)
    BY <1>1, <1>2, <1>8, <1>9
  <2> HIDE DEF l, i, c, e
  <2>2. /\ g + s \in Nat /\ g + s <= e
        /\ s = l => g + s = e
        /\ s < l => g + s < e
        /\ l - s = e - (g + s)
        /\ l - s > 0 => c + (i + s) = a + (g + s)
    BY <2>1
  <2> QED
    BY <2>2 DEF l, i, c, e
<1> QED
  BY <1>3, <1>4, <1>7, <1>9, <1>10 DEF g

\* A part of what is due is taken, and the watcher of the socket is on.
LEMMA UpPart ==
  ASSUME IInv, IInv', UpInv, UNCHANGED sess, NEW b \in Buffer, NEW s \in 0..b.len,
         Len(remoteGot) + b.len = EmitLen',
         b.len > 0 => b.base + b.idx = EmitBase + Len(remoteGot),
         remoteGot' = remoteGot \o Unsent(b, s),
         rbuf' = Rest(b, s), "remote_send" \in watch',
         remote' = "connected" => s < b.len /\ "server_recv" \notin watch'
  PROVE  UpInv'
<1>1. /\ remoteGot' = Run(EmitBase', Len(remoteGot'))
      /\ Len(remoteGot') <= EmitLen'
      /\ s < b.len => Len(remoteGot') < EmitLen'
      /\ rbuf'.len = EmitLen' - Len(remoteGot')
      /\ rbuf'.len > 0 => rbuf'.base + rbuf'.idx = EmitBase' + Len(remoteGot')
  BY UpSends
<1>2. UpOrder'
  BY <1>1 DEF UpOrder, Pending
<1>3. UpWatched'
  BY <1>1 DEF UpWatched
<1> QED
  BY <1>2, <1>3 DEF UpInv

\* All that is due is taken, and the application is listened to again.
LEMMA UpAll ==
  ASSUME IInv, IInv', UpInv, UNCHANGED sess, NEW b \in Buffer,
         Len(remoteGot) + b.len = EmitLen',
         b.len > 0 => b.base + b.idx = EmitBase + Len(remoteGot),
         remoteGot' = remoteGot \o Unsent(b, b.len),
         Tunnel \/ rbuf'.len = 0, "remote_send" \notin watch',
         "server_recv" \in watch' \/ obfs' = "hello"
  PROVE  UpInv'
<1>1. b.len \in 0..b.len
  BY BufferFields
<1>2. remoteGot' = Run(EmitBase', Len(remoteGot')) /\ Len(remoteGot') = EmitLen'
      /\ Len(remoteGot') <= EmitLen'
  BY <1>1, UpSends
<1>3. UpOrder'
  BY <1>2, SessionKept DEF UpOrder, AllTaken
<1>4. UpWatched'
  BY DEF UpWatched
<1> QED
  BY <1>3, <1>4 DEF UpInv

\* A step of the other direction.
LEMMA UpKept ==
  ASSUME UpInv, UNCHANGED <<sess, server, remote, code, rbuf, remoteGot>>,
         "remote_send" \in watch' <=> "remote_send" \in watch,
         "server_recv" \in watch' <=> "server_recv" \in watch
  PROVE  UpInv'
<1>1. /\ UNCHANGED <<EmitBase, EmitLen>> /\ Encoding' = Encoding /\ live' = live
      /\ Tunnel' = Tunnel /\ UNCHANGED obfs
  BY SessionKept DEF EmitBase, EmitLen, Encoding, live, code
<1>2. UpOrder'
  BY <1>1 DEF UpInv, UpOrder, Pending, AllTaken
<1>3. UpWatched'
  BY <1>1 DEF UpInv, UpWatched
<1> QED
  BY <1>2, <1>3 DEF UpInv

-----------------------------------------------------------------------------
(***************************************************************************)
(* The upload over each step.                                              *)
(***************************************************************************)

LEMMA InitUp == Init => UpInv
<1> SUFFICES ASSUME Init PROVE UpInv
  OBVIOUS
<1>1. IInv
  BY InitIInv
<1>2. remoteGot = <<>> /\ Len(remoteGot) = 0
  BY DEF Init
<1>3. EmitBase \in Nat /\ EmitLen \in Nat
  BY <1>1, EmitFacts
<1>4. sess \in Sessions /\ remote = IF Local THEN "none" ELSE "connecting"
  BY DEF Init
<1>5. ~Encoding
  BY <1>4, SessionFacts DEF Encoding
<1>6. remote # "connected"
  BY <1>4
<1>7. remoteGot = Run(EmitBase, Len(remoteGot))
  BY <1>2, <1>3, RunEmpty
<1> QED
  BY <1>2, <1>3, <1>5, <1>6, <1>7 DEF UpInv, UpOrder, UpWatched

\* Closing, whatever was encoded last.
LEMMA UpCloses ==
  ASSUME IInv, IInv', UpInv, NEW why, CloseBoth(why), UNCHANGED <<sess, remoteGot>>,
         EmitLen' >= EmitLen
  PROVE  UpInv'
<1>1. ~live'
  BY DEF CloseBoth, live
<1> QED
  BY <1>1, UpIdle

\* Closing after a part of what is due was taken.
LEMMA UpClosesMidway ==
  ASSUME IInv, IInv', UpInv, NEW why, CloseBoth(why), UNCHANGED sess,
         NEW b \in Buffer, NEW s \in 0..b.len,
         Len(remoteGot) + b.len = EmitLen',
         b.len > 0 => b.base + b.idx = EmitBase + Len(remoteGot),
         remoteGot' = remoteGot \o Unsent(b, s)
  PROVE  UpInv'
<1>1. ~live'
  BY DEF CloseBoth, live
<1>2. /\ remoteGot' = Run(EmitBase', Len(remoteGot'))
      /\ Len(remoteGot') <= EmitLen'
  BY UpSends
<1> QED
  BY <1>1, <1>2 DEF UpInv, UpOrder, UpWatched

LEMMA CodeKept ==
  ASSUME IInv, UNCHANGED code
  PROVE  EmitLen' = EmitLen /\ EmitLen' >= EmitLen
<1>1. EmitLen' = EmitLen
  BY DEF code, EmitLen
<1>2. EmitLen \in Nat
  BY EmitFacts
<1> QED
  BY <1>1, <1>2

LEMMA EndingsUp == IInv /\ IInv' /\ UpInv /\ JustCloses => UpInv'
BY CodeKept, UpCloses DEF JustCloses

\* What Encode adds is not negative.
LEMMA EncodeGrows ==
  ASSUME IInv, NEW n \in Nat, Encode(n), UNCHANGED sess
  PROVE  EmitLen' >= EmitLen
<1>1. EmitLen \in Nat
  BY EmitFacts
<1>2. Produced(n).len \in Nat /\ EmitLen' = EmitLen + Produced(n).len
  BY EncodeExtends
<1> QED
  BY <1>1, <1>2

LEMMA LocalConnectUp ==
  ASSUME IInv, IInv', UpInv, live, Unparsed, NEW p \in Nat, UNCHANGED sess, LocalConnect(p)
  PROVE  UpInv'
<1>1. ~Encoding /\ ProgramTypeOK
  BY UnparsedFacts DEF IInv
<1>2. EmitLen = 0 /\ Len(remoteGot) = 0
  BY <1>1, NothingYet DEF UpInv
<1> DEFINE n == FirstPlainLen(p)
           out == Produced(n)
<1>3. n \in Nat
  <2>1. sess.direct \in BOOLEAN /\ HdrLen \in Nat
    BY <1>1, TypeFacts, SessionFacts, Lengths
  <2> QED
    BY <2>1 DEF FirstPlainLen
<1>4. out \in Buffer /\ out.len \in Nat
  BY <1>1, <1>3, ProducedFields, BufferFields
<1>5. CASE CloseBoth("unreachable") /\ UNCHANGED <<code, rbuf, remoteGot>>
  BY <1>5, CodeKept, UpCloses
<1>6. ASSUME Encode(n)
      PROVE  /\ Len(remoteGot) + out.len = EmitLen'
             /\ out.len > 0 => out.base + out.idx = EmitBase + Len(remoteGot)
  <2>1. /\ EmitLen' = EmitLen + out.len
        /\ out.len > 0 => out.base + out.idx = EmitBase + EmitLen
    BY <1>3, <1>6, EncodeExtends
  <2> QED
    BY <1>2, <1>4, <2>1
<1>7. ASSUME Encode(n), NEW s \in 0..out.len, rbuf' = Rest(out, s),
             remoteGot' = remoteGot \o Unsent(out, s),
             remote' = "connecting", watch' = {"remote_send"}
      PROVE  UpInv'
  <2>1. "remote_send" \in watch' /\ remote' # "connected"
    BY <1>7
  <2> QED
    BY <1>4, <1>6, <1>7, <2>1, UpPart
<1>8. ASSUME Encode(n), rbuf' = Buf(0, 0, 0),
             remoteGot' = remoteGot \o Unsent(out, out.len),
             watch' = {"server_recv", "remote_recv"}
      PROVE  UpInv'
  <2>1. rbuf'.len = 0 /\ "server_recv" \in watch' /\ "remote_send" \notin watch'
    BY <1>8, BufFields
  <2> QED
    BY <1>4, <1>6, <1>8, <2>1, UpAll
<1>9. \/ CloseBoth("unreachable") /\ UNCHANGED <<code, rbuf, remoteGot>>
      \/ /\ Encode(n)
         /\ \/ \E s \in 0..(out.len - 1) :
                 /\ remote' = "connecting" /\ watch' = {"remote_send"}
                 /\ rbuf' = Rest(out, s)
                 /\ remoteGot' = remoteGot \o Unsent(out, s)
            \/ /\ remote' = "connecting" /\ watch' = {"remote_send"}
               /\ rbuf' = Rest(out, 0)
               /\ remoteGot' = remoteGot \o Unsent(out, 0)
            \/ /\ watch' = {"server_recv", "remote_recv"}
               /\ rbuf' = Buf(0, 0, 0)
               /\ remoteGot' = remoteGot \o Unsent(out, out.len)
  BY DEF LocalConnect, FirstPlainLen
<1> HIDE DEF n, out
<1>10. 0 \in 0..out.len /\ (\A s \in 0..(out.len - 1) : s \in 0..out.len)
  BY <1>4
<1> QED
  BY <1>5, <1>7, <1>8, <1>9, <1>10

LEMMA RequestUp ==
  IInv /\ IInv' /\ UpInv /\ (LocalRecvInit \/ LocalRecvRequest) => UpInv'
<1> SUFFICES ASSUME IInv, IInv', UpInv, LocalRecvInit \/ LocalRecvRequest PROVE UpInv'
  OBVIOUS
<1>1. Unparsed /\ live /\ UNCHANGED sess
  BY DEF LocalRecvInit, LocalRecvRequest, Arrived, Reading
<1>2. ~Encoding /\ ProgramTypeOK
  BY <1>1, UnparsedFacts DEF IInv
<1>3. ASSUME UNCHANGED <<conn, code, rbuf, remoteGot>> PROVE UpInv'
  <2>1. ~Encoding'
    BY <1>1, <1>2, <1>3, SessionKept DEF conn, Encoding
  <2> QED
    BY <1>1, <1>3, <2>1, CodeKept, UpIdle
<1>4. ASSUME NEW at, NEW p \in Nat, LocalParse(at, p) PROVE UpInv'
  <2>1. CASE (\E why : CloseBoth(why)) /\ UNCHANGED <<code, rbuf, remoteGot>>
    BY <1>1, <2>1, CodeKept, UpCloses
  <2>2. CASE UNCHANGED <<conn, code, rbuf, remoteGot>>
    BY <1>3, <2>2
  <2>3. CASE LocalConnect(p)
    BY <1>1, <2>3, LocalConnectUp
  <2> QED
    BY <1>4, <2>1, <2>2, <2>3 DEF LocalParse
<1>5. CASE LocalRecvInit
  <2>1. PICK r \in 1..BufSize :
          \/ LocalParse("PARSE", r)
          \/ r > 1 /\ LocalParse("HANDSHAKE", r - 2)
          \/ UNCHANGED <<conn, code, rbuf, remoteGot>>
    BY <1>5 DEF LocalRecvInit
  <2>2. r \in Nat /\ (r > 1 => r - 2 \in Nat)
    BY Lengths
  <2> QED
    BY <1>3, <1>4, <2>1, <2>2
<1>6. CASE LocalRecvRequest
  <2>1. PICK r \in 1..BufSize : LocalParse(stage, sbuf.len + r - 1)
    BY <1>6 DEF LocalRecvRequest
  <2>2. sbuf.len + r - 1 \in Nat
    <3>1. sbuf.len \in Nat /\ BufSize \in Nat
      BY <1>2, TypeFacts, Lengths
    <3> QED
      BY <3>1
  <2> QED
    BY <1>4, <2>1, <2>2
<1> QED
  BY <1>5, <1>6

LEMMA EarlyDataUp == IInv /\ IInv' /\ UpInv /\ RedirRecvEarly => UpInv'
<1> SUFFICES ASSUME IInv, IInv', UpInv, RedirRecvEarly PROVE UpInv'
  OBVIOUS
<1>1. /\ Redir /\ remote = "connecting" /\ UNCHANGED <<sess, remote, code, remoteGot>>
  BY DEF RedirRecvEarly, Switch
<1>2. ~Local
  BY <1>1, TypeFacts, SessionFacts DEF IInv
<1>3. ~Encoding'
  BY <1>1, <1>2, SessionKept DEF Encoding
<1> QED
  BY <1>1, <1>3, CodeKept, UpIdle

LEMMA PayloadUp == IInv /\ IInv' /\ UpInv /\ ServerRecvStream => UpInv'
<1> SUFFICES ASSUME IInv, IInv', UpInv, ServerRecvStream PROVE UpInv'
  OBVIOUS
<1>1. /\ live /\ "server_recv" \in watch /\ remote = "connected" /\ UNCHANGED sess
  BY DEF ServerRecvStream, Arrived, Reading
<1>2. ProgramTypeOK /\ Encoding /\ "remote_send" \notin watch /\ obfs # "start"
  BY <1>1 DEF IInv, UpInv, UpWatched, Encoding, Greeted
<1>3. Len(remoteGot) = EmitLen /\ (Tunnel \/ rbuf.len = 0)
  BY <1>1, <1>2 DEF UpInv, UpOrder, AllTaken
<1>4. PICK r \in 1..BufSize : Encode(r) /\ SendAtOnce(Outgoing(Produced(r)))
  BY DEF ServerRecvStream
<1>5. r \in Nat /\ r > 0
  BY Lengths
<1> DEFINE out == Produced(r)
<1>6. out \in Buffer /\ out.len \in Nat /\ out.base \in Nat
  BY <1>2, <1>5, ProducedFields, BufferFields
<1>7. Outgoing(out) = out
  BY <1>3 DEF Outgoing
<1>8. /\ Len(remoteGot) + out.len = EmitLen'
      /\ out.len > 0 => out.base + out.idx = EmitBase + Len(remoteGot)
  BY <1>1, <1>3, <1>4, <1>5, EncodeExtends
<1>9. out.len = 0 => obfs' = "hello"
  <2>1. out.len = 0 => obfs = "hello"
    BY <1>2, <1>5, ProducedFields
  <2> QED
    BY <1>4, <2>1 DEF Encode
<1>10. EmitLen' >= EmitLen
  BY <1>1, <1>4, <1>5, EncodeGrows
<1>11. SendAtOnce(out)
  BY <1>4, <1>7
<1> HIDE DEF out
<1>12. CASE out.len = 0 /\ Switch("server_recv", {}) /\ UNCHANGED remoteGot /\ rbuf' = Buf(0, 0, 0)
  <2>1. remoteGot' = remoteGot \o Unsent(out, out.len)
    <3>1. out.base + out.idx \in Nat
      BY <1>6, BufferFields
    <3>2. Unsent(out, out.len) = <<>>
      BY <1>12, <3>1, RunEmpty DEF Unsent
    <3>3. remoteGot \in Seq(Nat)
      BY <1>2, TypeFacts
    <3>4. remoteGot \o <<>> = remoteGot
      BY <3>3
    <3> QED
      BY <1>12, <3>2, <3>4
  <2>2. rbuf'.len = 0 /\ "remote_send" \notin watch'
    BY <1>2, <1>12, BufFields DEF Switch
  <2> QED
    BY <1>1, <1>6, <1>8, <1>9, <1>12, <2>1, <2>2, UpAll
<1>13. CASE \E s \in 0..(out.len - 1) :
              /\ remoteGot' = remoteGot \o Unsent(out, s)
              /\ rbuf' = Rest(out, s)
              /\ Switch("server_recv", {"remote_send"})
  <2>1. PICK s \in 0..(out.len - 1) :
              /\ remoteGot' = remoteGot \o Unsent(out, s)
              /\ rbuf' = Rest(out, s)
              /\ Switch("server_recv", {"remote_send"})
    BY <1>13
  <2>2. s \in 0..out.len /\ s < out.len
    BY <1>6
  <2>3. "remote_send" \in watch' /\ "server_recv" \notin watch'
    BY <2>1 DEF Switch
  <2> QED
    BY <1>1, <1>6, <1>8, <2>1, <2>2, <2>3, UpPart
<1>14. CASE /\ remoteGot' = remoteGot \o Unsent(out, out.len)
            /\ rbuf' = Buf(out.base, 0, IF Tunnel THEN out.len ELSE 0)
            /\ UNCHANGED conn
  <2>1. Tunnel \/ rbuf'.len = 0
    BY <1>14 DEF Buf
  <2>2. "remote_send" \notin watch' /\ "server_recv" \in watch'
    BY <1>1, <1>2, <1>14 DEF conn
  <2> QED
    BY <1>1, <1>6, <1>8, <1>14, <2>1, <2>2, UpAll
<1>15. CASE CloseBoth("remote_error") /\ UNCHANGED <<rbuf, remoteGot>>
  BY <1>1, <1>10, <1>15, UpCloses
<1> QED
  BY <1>11, <1>12, <1>13, <1>14, <1>15 DEF SendAtOnce

\* remote->buf, when the socket is waited for.
LEMMA PendingFacts ==
  ASSUME IInv, UpInv, live, Encoding, "remote_send" \in watch
  PROVE  /\ rbuf \in Buffer /\ rbuf.len \in Nat /\ rbuf.base \in Nat
         /\ Len(remoteGot) + rbuf.len = EmitLen
         /\ rbuf.len > 0 => rbuf.base + rbuf.idx = EmitBase + Len(remoteGot)
         /\ remote = "connected" => rbuf.len > 0
<1>1. rbuf \in Buffer /\ rbuf.len \in Nat /\ rbuf.base \in Nat /\ Len(remoteGot) \in Nat
  BY TypeFacts DEF IInv
<1>2. EmitLen \in Nat
  BY EmitFacts
<1>3. /\ rbuf.len = EmitLen - Len(remoteGot)
      /\ rbuf.len > 0 => rbuf.base + rbuf.idx = EmitBase + Len(remoteGot)
  BY DEF UpInv, UpOrder, Pending
<1>4. remote = "connected" => Len(remoteGot) < EmitLen
  BY DEF UpInv, UpWatched
<1>5. Len(remoteGot) + rbuf.len = EmitLen /\ (remote = "connected" => rbuf.len > 0)
  BY <1>1, <1>2, <1>3, <1>4
<1> QED
  BY <1>1, <1>3, <1>5

LEMMA RemainderUp == IInv /\ IInv' /\ UpInv /\ (RemoteSendPart \/ RemoteSendAll) => UpInv'
<1> SUFFICES ASSUME IInv, IInv', UpInv, RemoteSendPart \/ RemoteSendAll PROVE UpInv'
  OBVIOUS
<1>1. /\ live /\ remote = "connected" /\ "remote_send" \in watch /\ UNCHANGED <<sess, code>>
  BY DEF RemoteSendPart, RemoteSendAll, Writing, conn
<1>2. Encoding /\ "server_recv" \notin watch
  BY <1>1 DEF Encoding, UpInv, UpWatched
<1>3. /\ rbuf \in Buffer /\ rbuf.len \in Nat /\ rbuf.base \in Nat
      /\ Len(remoteGot) + rbuf.len = EmitLen'
      /\ rbuf.len > 0 => rbuf.base + rbuf.idx = EmitBase + Len(remoteGot)
  BY <1>1, <1>2, PendingFacts, CodeKept
<1>4. CASE RemoteSendPart
  <2>1. PICK s \in 0..(rbuf.len - 1) :
          remoteGot' = remoteGot \o Unsent(rbuf, s) /\ rbuf' = Rest(rbuf, s)
    BY <1>4 DEF RemoteSendPart
  <2>2. s \in 0..rbuf.len /\ s < rbuf.len
    BY <1>3
  <2>3. "remote_send" \in watch' /\ "server_recv" \notin watch'
    BY <1>1, <1>2, <1>4 DEF RemoteSendPart, conn
  <2> QED
    BY <1>1, <1>3, <2>1, <2>2, <2>3, UpPart
<1>5. CASE RemoteSendAll
  <2>1. remoteGot' = remoteGot \o Unsent(rbuf, rbuf.len) /\ rbuf' = Buf(rbuf.base, 0, 0)
    BY <1>5 DEF RemoteSendAll
  <2>2. rbuf'.len = 0 /\ "remote_send" \notin watch' /\ "server_recv" \in watch'
    BY <1>5, <2>1 DEF RemoteSendAll, Switch, Buf
  <2> QED
    BY <1>1, <1>3, <2>1, <2>2, UpAll
<1> QED
  BY <1>4, <1>5

LEMMA LocalOpensUp == IInv /\ IInv' /\ UpInv /\ LocalConnected => UpInv'
<1> SUFFICES ASSUME IInv, IInv', UpInv, LocalConnected PROVE UpInv'
  OBVIOUS
<1>1. /\ Local /\ live /\ "remote_send" \in watch /\ remote = "connecting"
      /\ UNCHANGED <<sess, code>>
  BY DEF LocalConnected, Writing
<1>2. Encoding /\ watch = {"remote_send"}
  BY <1>1 DEF Encoding, IInv, Attended
<1>3. /\ rbuf \in Buffer /\ rbuf.len \in Nat
      /\ Len(remoteGot) + rbuf.len = EmitLen'
      /\ rbuf.len > 0 => rbuf.base + rbuf.idx = EmitBase + Len(remoteGot)
  BY <1>1, <1>2, PendingFacts, CodeKept
<1>4. PICK s \in 0..rbuf.len :
        /\ remoteGot' = remoteGot \o Unsent(rbuf, s)
        /\ rbuf' = IF s = rbuf.len THEN Buf(rbuf.base, 0, 0) ELSE Rest(rbuf, s)
        /\ watch' = (watch \ (IF s = rbuf.len THEN {"remote_send"} ELSE {}))
                     \cup (IF s = rbuf.len THEN {"remote_recv", "server_recv"}
                                           ELSE {"remote_recv"})
  BY DEF LocalConnected
<1>5. CASE s = rbuf.len
  <2>1. rbuf'.len = 0 /\ "remote_send" \notin watch' /\ "server_recv" \in watch'
    BY <1>2, <1>4, <1>5 DEF Buf
  <2>2. remoteGot' = remoteGot \o Unsent(rbuf, rbuf.len)
    BY <1>4, <1>5
  <2> QED
    BY <1>1, <1>3, <2>1, <2>2, UpAll
<1>6. CASE s # rbuf.len
  <2>1. s < rbuf.len
    BY <1>3, <1>6
  <2>2. rbuf' = Rest(rbuf, s) /\ "remote_send" \in watch' /\ "server_recv" \notin watch'
    BY <1>2, <1>4, <1>6
  <2> QED
    BY <1>1, <1>3, <1>4, <2>1, <2>2, UpPart
<1> QED
  BY <1>5, <1>6

\* The connect of ssr-redir and ssr-tunnel: the first data that is encoded.
LEMMA FirstDue ==
  ASSUME IInv, UpInv, live, ~Encoding, NEW n \in Nat, Encode(n), UNCHANGED sess
  PROVE  /\ Produced(n) \in Buffer
         /\ Len(remoteGot) + Produced(n).len = EmitLen'
         /\ Produced(n).len > 0 =>
              Produced(n).base + Produced(n).idx = EmitBase + Len(remoteGot)
<1>1. EmitLen = 0 /\ Len(remoteGot) = 0
  BY NothingYet DEF UpInv
<1>2. Produced(n) \in Buffer
  BY ProducedFields DEF IInv
<1>3. /\ EmitLen' = EmitLen + Produced(n).len
      /\ Produced(n).len > 0 => Produced(n).base + Produced(n).idx = EmitBase + EmitLen
  BY EncodeExtends
<1> QED
  BY <1>1, <1>2, <1>3

LEMMA RedirOpensUp ==
  ASSUME IInv, IInv', UpInv, RedirConnected, ~slipped'
  PROVE  UpInv'
<1>1. /\ Redir /\ live /\ remote = "connecting" /\ UNCHANGED sess
      /\ Encode(HdrLen + rbuf.len)
  BY DEF RedirConnected, Writing
<1>2. ~Encoding /\ ProgramTypeOK
  BY <1>1, TypeFacts, SessionFacts DEF Encoding, IInv
<1>3. HdrLen + rbuf.len \in Nat
  <2>1. HdrLen \in Nat /\ rbuf.len \in Nat
    BY <1>2, TypeFacts, Lengths
  <2> QED
    BY <2>1
<1> DEFINE out == Produced(HdrLen + rbuf.len)
<1>4. /\ out \in Buffer /\ Len(remoteGot) + out.len = EmitLen'
      /\ out.len > 0 => out.base + out.idx = EmitBase + Len(remoteGot)
  BY <1>1, <1>2, <1>3, FirstDue
<1>5. PICK s \in 0..out.len :
        /\ remoteGot' = remoteGot \o Unsent(out, s)
        /\ rbuf' = IF s = out.len THEN Buf(out.base, 0, 0) ELSE Rest(out, s)
        /\ watch' = (watch \ {"remote_send"}) \cup {"remote_recv"} \cup
                      (IF s = out.len THEN {"server_recv"} ELSE {})
        /\ IF s < out.len THEN slipped' = TRUE ELSE UNCHANGED slipped
  BY DEF RedirConnected
<1>6. out.len \in Nat
  BY <1>4, BufferFields
<1> HIDE DEF out
<1>7. s = out.len
  <2>1. ~(s < out.len)
    BY <1>5
  <2> QED
    BY <1>6, <2>1
<1>8. /\ remoteGot' = remoteGot \o Unsent(out, out.len) /\ rbuf'.len = 0
      /\ "remote_send" \notin watch' /\ "server_recv" \in watch'
  BY <1>5, <1>7 DEF Buf
<1> QED
  BY <1>1, <1>4, <1>8, UpAll

LEMMA TunnelOpensUp ==
  ASSUME IInv, IInv', UpInv, TunnelConnected, ~slipped'
  PROVE  UpInv'
<1>1. Tunnel /\ live /\ remote = "connecting" /\ UNCHANGED sess /\ Encode(HdrLen)
  BY DEF TunnelConnected, Writing
<1>2. ~Encoding /\ HdrLen \in Nat
  BY <1>1, TypeFacts, SessionFacts, Lengths DEF Encoding, IInv
<1> DEFINE out == Produced(HdrLen)
<1>3. /\ out \in Buffer /\ Len(remoteGot) + out.len = EmitLen'
      /\ out.len > 0 => out.base + out.idx = EmitBase + Len(remoteGot)
  BY <1>1, <1>2, FirstDue
<1>4. CASE /\ \E s \in 0..(out.len - 1) : remoteGot' = remoteGot \o Unsent(out, s)
           /\ CloseBoth("remote_error")
  <2>1. PICK s \in 0..(out.len - 1) : remoteGot' = remoteGot \o Unsent(out, s)
    BY <1>4
  <2>2. out.len \in Nat
    BY <1>3, BufferFields
  <2> HIDE DEF out
  <2>3. s \in 0..out.len
    BY <2>2
  <2> QED
    BY <1>1, <1>3, <1>4, <2>1, <2>3, UpClosesMidway
<1>5. CASE /\ remoteGot' = remoteGot \o Unsent(out, out.len)
           /\ rbuf' = Buf(out.base, 0, 0)
           /\ watch' = {"remote_recv", "server_recv"}
  <2> HIDE DEF out
  <2>1. rbuf'.len = 0 /\ "remote_send" \notin watch' /\ "server_recv" \in watch'
    BY <1>5 DEF Buf
  <2> QED
    BY <1>1, <1>3, <1>5, <2>1, UpAll
<1> QED
  BY <1>4, <1>5 DEF TunnelConnected

LEMMA AnswerUp ==
  ASSUME IInv, IInv', UpInv, RemoteRecvAnswer, ~slipped'
  PROVE  UpInv'
<1>1. /\ live /\ obfs = "hello" /\ obfs' = "done" /\ Len(remoteGot) = GreetLen
      /\ UNCHANGED <<sess, enc>>
  BY DEF RemoteRecvAnswer, RemoteReading
<1>2. ProgramTypeOK
  BY DEF IInv
<1>3. /\ GreetLen \in Nat /\ enc \in Nat /\ PlainBase = GreetLen + GreetLen
      /\ GreetLen + enc \in Nat
  <2>1. GreetLen \in Nat /\ enc \in Nat /\ PlainBase = GreetLen + GreetLen
    BY <1>2, TypeFacts, Lengths
  <2> QED
    BY <2>1
<1>4. EmitBase = 0 /\ EmitLen = GreetLen /\ EmitLen' = PlainBase + enc
  BY <1>1 DEF EmitBase, EmitLen
<1>5. /\ ClosingPart \in Buffer /\ ClosingPart.base = GreetLen /\ ClosingPart.idx = 0
      /\ ClosingPart.len = GreetLen + enc
  BY <1>3, BufFields DEF ClosingPart
<1>6. /\ Len(remoteGot) + ClosingPart.len = EmitLen'
      /\ ClosingPart.base + ClosingPart.idx = EmitBase + Len(remoteGot)
  BY <1>1, <1>3, <1>4, <1>5
<1>7. EmitLen' >= EmitLen
  BY <1>3, <1>4
<1>8. CASE CloseBoth("remote_error") /\ UNCHANGED <<rbuf, remoteGot>>
  BY <1>1, <1>7, <1>8, UpCloses
<1>9. CASE /\ remoteGot' = remoteGot \o Unsent(ClosingPart, ClosingPart.len)
           /\ rbuf' = Buf(GreetLen, 0, 0)
           /\ Switch("remote_send", {"server_recv"})
  <2>1. rbuf'.len = 0 /\ "remote_send" \notin watch' /\ "server_recv" \in watch'
    BY <1>9 DEF Buf, Switch
  <2> QED
    BY <1>1, <1>5, <1>6, <1>9, <2>1, UpAll
<1> QED
  BY <1>8, <1>9 DEF RemoteRecvAnswer

LEMMA DownStepsUp ==
  IInv /\ UpInv /\ (RemoteRecvData \/ ServerSendPart \/ ServerSendAll) => UpInv'
<1> SUFFICES ASSUME IInv, UpInv, RemoteRecvData \/ ServerSendPart \/ ServerSendAll
             PROVE  UpInv'
  OBVIOUS
<1>1. UNCHANGED <<sess, code, rbuf, remoteGot>>
  BY DEF RemoteRecvData, ServerSendPart, ServerSendAll
<1>2. \/ UNCHANGED conn
      \/ Switch("remote_recv", {"server_send"})
      \/ Switch("server_send", {"remote_recv"})
  BY DEF RemoteRecvData, ServerSendPart, ServerSendAll
<1>3. /\ UNCHANGED <<server, remote>>
      /\ "remote_send" \in watch' <=> "remote_send" \in watch
      /\ "server_recv" \in watch' <=> "server_recv" \in watch
  BY <1>2 DEF Switch, conn
<1> QED
  BY <1>1, <1>3, UpKept

LEMMA StutterUp == UpInv /\ UNCHANGED vars => UpInv'
BY UpKept DEF vars, conn

LEMMA NextUp == IInv /\ IInv' /\ UpInv /\ ~slipped' /\ [Next]_vars => UpInv'
<1>1. IInv /\ IInv' /\ UpInv /\ Endings => UpInv'
  BY EndingsClose, EndingsUp DEF Endings
<1> QED
  BY <1>1, NextCases, RequestUp, EarlyDataUp, PayloadUp, RemainderUp, LocalOpensUp,
     RedirOpensUp, TunnelOpensUp, AnswerUp, DownStepsUp, StutterUp

\* As long as no send has slipped the upload is in order.
Ordered == ~slipped => UpInv

LEMMA SpecUp == Spec => []Ordered
<1>1. Init => Ordered
  BY InitUp DEF Ordered
<1>2. [Next]_vars => (slipped => slipped')
  BY SlipStays
<1>3. ASSUME IInv, IInv', Ordered, [Next]_vars PROVE Ordered'
  <2>1. ~slipped' => UpInv
    BY <1>2, <1>3 DEF Ordered
  <2>2. ~slipped' => UpInv'
    BY <1>3, <2>1, NextUp
  <2> QED
    BY <2>2 DEF Ordered
<1> QED
  BY <1>1, <1>3, SpecIInv, PTL DEF Spec

(***************************************************************************)
(* Until a send slips, a connected session always has the watcher that     *)
(* gets it on: units are left for the server's socket exactly while that   *)
(* socket is waited for, the application is not read meanwhile, and        *)
(* reading pauses only while a hello is unanswered (the ev_io_start and    *)
(* ev_io_stop calls of the four callbacks).  The answer is read or written *)
(* whatever slipped.                                                       *)
(***************************************************************************)
THEOREM ClientKeepsListening == Spec => []FlowControl
<1>1. IInv /\ Ordered => FlowControl
  <2> SUFFICES ASSUME IInv, Ordered PROVE FlowControl
    OBVIOUS
  <2>1. ~slipped => UnsentIsWatched
    <3> SUFFICES ASSUME UpInv, live, Len(remoteGot) < EmitLen, "remote_send" \notin watch
                 PROVE  FALSE
      BY DEF UnsentIsWatched, Ordered
    <3>1. EmitLen \in Nat /\ Len(remoteGot) \in Nat
      BY EmitFacts, TypeFacts DEF IInv
    <3>2. Encoding
      BY <3>1, NothingYet DEF UpInv
    <3> QED
      BY <3>1, <3>2 DEF UpInv, UpOrder, AllTaken
  <2>2. live /\ remote = "connected" /\ ~slipped =>
          /\ "remote_send" \in watch =>
               "server_recv" \notin watch /\ Len(remoteGot) < EmitLen
          /\ watch \cap {"remote_send", "server_recv"} = {} => obfs = "hello"
    BY DEF Ordered, UpInv, UpWatched
  <2>3. live /\ remote = "connected" =>
          /\ "remote_recv" \in watch <=> "server_send" \notin watch
          /\ "server_send" \in watch => sbuf.len > 0
    BY DEF IInv, Attended, DownOrder
  <2>4. live /\ remote \in {"none", "connecting"} =>
          watch \cap {"server_send", "remote_recv"} = {}
    BY DEF IInv, Attended
  <2> QED
    BY <2>1, <2>2, <2>3, <2>4 DEF FlowControl
<1> QED
  BY <1>1, SpecIInv, SpecUp, PTL

\* What Accounting says of the upload.
Sent == /\ remoteGot = SubSeq(Emitted, 1, Len(remoteGot))
        /\ live /\ remote # "none" /\ "remote_send" \in watch /\ enc > 0 =>
             remoteGot \o Unsent(rbuf, rbuf.len) = Emitted

(***************************************************************************)
(* Where the units are: until a send slips the server's socket has got a   *)
(* prefix of what was encoded and remote->buf holds the rest, through fast *)
(* open, early data and the handshake's held data; and whatever slipped,   *)
(* the application's socket with server->buf has all that was decoded.     *)
(***************************************************************************)
THEOREM ClientUnitsAccounted == Spec => []Accounting
<1>1. IInv /\ UpInv => Sent
  <2> SUFFICES ASSUME IInv, UpInv PROVE Sent
    OBVIOUS
  <2> DEFINE g == Len(remoteGot)
  <2>1. /\ EmitBase \in Nat /\ EmitLen \in Nat /\ g \in Nat /\ g <= EmitLen
        /\ remoteGot = Run(EmitBase, g)
    BY EmitFacts, TypeFacts DEF IInv, UpInv, UpOrder
  <2> HIDE DEF g
  <2>2. remoteGot = SubSeq(Emitted, 1, g)
    <3>1. g \in 0..EmitLen
      BY <2>1
    <3> QED
      BY <2>1, <3>1, RunPrefix DEF Emitted
  <2>3. ASSUME live, remote # "none", "remote_send" \in watch, enc > 0
        PROVE  remoteGot \o Unsent(rbuf, rbuf.len) = Emitted
    <3>1. Encoding
      BY <2>3 DEF IInv, Counted, Opened, Unopened
    <3>2. /\ rbuf.len \in Nat /\ g + rbuf.len = EmitLen
          /\ rbuf.len > 0 => rbuf.base + rbuf.idx = EmitBase + g
          /\ rbuf \in Buffer
      BY <2>3, <3>1, PendingFacts DEF g
    <3>3. Unsent(rbuf, rbuf.len) = Run(EmitBase + g, rbuf.len)
      <4>1. CASE rbuf.len > 0
        <5>1. rbuf.base + rbuf.idx = EmitBase + g
          BY <3>2, <4>1
        <5> QED
          BY <5>1 DEF Unsent
      <4>2. CASE ~(rbuf.len > 0)
        <5>1. rbuf.len = 0
          BY <3>2, <4>2
        <5>2. Unsent(rbuf, 0) = <<>> /\ Run(EmitBase + g, 0) = <<>>
          BY RunEmpty DEF Unsent
        <5> QED
          BY <5>1, <5>2
      <4> QED
        BY <4>1, <4>2
    <3>4. Run(EmitBase, g) \o Run(EmitBase + g, rbuf.len) = Run(EmitBase, g + rbuf.len)
      BY <2>1, <3>2, RunConcat
    <3>5. Run(EmitBase, g + rbuf.len) = Emitted
      BY <3>2 DEF Emitted
    <3> QED
      BY <2>1, <3>3, <3>4, <3>5
  <2> QED
    BY <2>2, <2>3 DEF Sent, g
<1>2. IInv => /\ clientGot = Run(0, Len(clientGot))
              /\ live => Len(clientGot)
                           + (IF "server_send" \in watch THEN sbuf.len ELSE 0) = decoded
  <2>1. IInv => Len(clientGot) \in Nat
    BY TypeFacts DEF IInv
  <2> QED
    BY <2>1 DEF IInv, DownOrder
<1>3. IInv /\ Ordered => Accounting
  BY <1>1, <1>2 DEF Ordered, Accounting, Sent
<1> QED
  BY <1>3, SpecIInv, SpecUp, PTL

-----------------------------------------------------------------------------
(***************************************************************************)
(* The refinement of BytePipe, server to application.                      *)
(***************************************************************************)

LEMMA NextIsLive == Next => live
BY DEF Next, ServerRecvCb, ServerRecvEnd, LocalRecvInit, LocalRecvRequest, RedirRecvEarly,
       ServerRecvStream, Arrived, Reading, RemoteSendCb, RemoteSendError, RemoteSendPart,
       RemoteSendAll, LocalConnected, RedirConnected, TunnelConnected, Writing,
       RemoteRecvCb, RemoteRecvEnd, RemoteRecvAnswer, RemoteRecvData, RemoteReading,
       ServerSendCb, ServerSendError, ServerSendPart, ServerSendAll, Answering,
       HandshakeTimeout, OtherTimeout, TimedOut

\* More is decoded, more is handed on, and both only while the connection lives.
GivesClient == \/ UNCHANGED down
               \/ /\ live' /\ decoded' >= decoded
                  /\ \E a, m \in Nat : clientGot' = clientGot \o Run(a, m)

LEMMA DataGives == IInv /\ RemoteRecvData => GivesClient
<1> SUFFICES ASSUME IInv, RemoteRecvData PROVE GivesClient
  OBVIOUS
<1>1. decoded \in Nat /\ dRecv \in Nat /\ decoded <= dRecv /\ BufSize \in Nat
  BY TypeFacts, Lengths DEF IInv, Counted
<1>2. sess.reframe \in BOOLEAN
  BY SessionFacts DEF IInv, ProgramTypeOK
<1>3. \A d : \A k \in Decoded(d) : k \in 0..(d - decoded)
  BY <1>2 DEF Decoded
<1>4. PICK r \in 1..BufSize : \E n \in Decoded(dRecv + r) :
        /\ decoded' = decoded + n
        /\ \/ clientGot' = clientGot \o Run(decoded, n) /\ UNCHANGED conn
           \/ \E s \in 0..(n - 1) : /\ clientGot' = clientGot \o Run(decoded, s)
                                    /\ Switch("remote_recv", {"server_send"})
  BY DEF RemoteRecvData
<1>5. PICK n \in Decoded(dRecv + r) :
        /\ decoded' = decoded + n
        /\ \/ clientGot' = clientGot \o Run(decoded, n) /\ UNCHANGED conn
           \/ \E s \in 0..(n - 1) : /\ clientGot' = clientGot \o Run(decoded, s)
                                    /\ Switch("remote_recv", {"server_send"})
  BY <1>4
<1>6. n \in Nat
  <2>1. n \in Decoded(dRecv + r)
    BY <1>5
  <2>2. n \in 0..((dRecv + r) - decoded)
    BY <1>3, <2>1
  <2> QED
    BY <1>1, <2>2
<1>7. decoded' >= decoded /\ live
  BY <1>1, <1>5, <1>6 DEF RemoteRecvData, RemoteReading
<1>8. live'
  BY <1>5, <1>7 DEF conn, Switch, live
<1>9. \A s \in 0..(n - 1) : s \in Nat
  BY <1>6
<1> QED
  BY <1>1, <1>5, <1>6, <1>7, <1>8, <1>9 DEF GivesClient

LEMMA AnswerGives == IInv /\ (ServerSendPart \/ ServerSendAll) => GivesClient
<1> SUFFICES ASSUME IInv, ServerSendPart \/ ServerSendAll PROVE GivesClient
  OBVIOUS
<1>1. sbuf \in Buffer /\ sbuf.len \in Nat /\ sbuf.base + sbuf.idx \in Nat /\ decoded \in Nat
  <2>1. sbuf \in Buffer /\ sbuf.len \in Nat /\ sbuf.base \in Nat /\ sbuf.idx \in Nat /\ decoded \in Nat
    BY TypeFacts DEF IInv
  <2> QED
    BY <2>1
<1>2. live' /\ decoded' >= decoded
  BY <1>1 DEF ServerSendPart, ServerSendAll, Answering, Switch, conn, live
<1>3. \E m \in Nat : clientGot' = clientGot \o Unsent(sbuf, m)
  <2>1. \A s \in 0..(sbuf.len - 1) : s \in Nat
    BY <1>1
  <2> QED
    BY <1>1, <2>1 DEF ServerSendPart, ServerSendAll
<1> QED
  BY <1>1, <1>2, <1>3 DEF GivesClient, Unsent

LEMMA NextGivesClient == IInv /\ Next => GivesClient
<1>1. \/ Endings \/ LocalRecvInit \/ LocalRecvRequest \/ RedirRecvEarly \/ ServerRecvStream
      \/ RemoteSendPart \/ RemoteSendAll
      \/ LocalConnected \/ RedirConnected \/ TunnelConnected \/ RemoteRecvAnswer
      => UNCHANGED down
  BY DEF Endings, ServerRecvEnd, RemoteSendError, RemoteRecvEnd, ServerSendError, TimedOut,
         LocalRecvInit, LocalRecvRequest, RedirRecvEarly, ServerRecvStream, RemoteSendPart,
         RemoteSendAll, LocalConnected, RedirConnected, TunnelConnected, RemoteRecvAnswer
<1> QED
  BY <1>1, NextCases, DataGives, AnswerGives DEF GivesClient

\* Which closings there are, by the reason they give.
LEMMA ClosingReasons ==
  ASSUME IInv, Next, ~live'
  PROVE  /\ reason' = "remote_eof" => RemoteRecvEnd
         /\ reason' = "client_eof" => ServerRecvEnd
<1> DEFINE eofs == {"remote_eof", "client_eof"}
<1>1. live
  BY NextIsLive
<1>2. ASSUME UNCHANGED server PROVE FALSE
  BY <1>1, <1>2 DEF live
<1>3. ASSUME NEW why \in Reasons \ eofs, CloseBoth(why) PROVE reason' \notin eofs
  BY <1>3 DEF CloseBoth
<1>4. ASSUME NEW at, NEW p, LocalParse(at, p) PROVE reason' \notin eofs
  BY <1>2, <1>3, <1>4 DEF LocalParse, LocalConnect, conn, Reasons
<1>5. LocalRecvInit \/ LocalRecvRequest => reason' \notin eofs
  <2>1. LocalRecvInit \/ LocalRecvRequest =>
          (\E at, p : LocalParse(at, p)) \/ UNCHANGED server
    BY DEF LocalRecvInit, LocalRecvRequest, conn
  <2> QED
    BY <1>2, <1>4, <2>1
<1>6. RedirRecvEarly \/ ServerRecvStream => reason' \notin eofs
  BY <1>2, <1>3 DEF RedirRecvEarly, ServerRecvStream, SendAtOnce, Switch, conn, Reasons
<1>7. RemoteSendError \/ RemoteSendPart \/ RemoteSendAll \/ LocalConnected
      \/ RedirConnected \/ TunnelConnected => reason' \notin eofs
  BY <1>2, <1>3 DEF RemoteSendError, RemoteSendPart, RemoteSendAll, LocalConnected,
       RedirConnected, TunnelConnected, Switch, conn, Reasons
<1>8. RemoteRecvAnswer \/ RemoteRecvData => reason' \notin eofs
  BY <1>2, <1>3 DEF RemoteRecvAnswer, RemoteRecvData, Switch, conn, Reasons
<1>9. ServerSendError \/ ServerSendPart \/ ServerSendAll \/ TimedOut => reason' \notin eofs
  BY <1>2, <1>3 DEF ServerSendError, ServerSendPart, ServerSendAll, TimedOut, Switch, conn,
       Reasons
<1>10. ServerRecvEnd => reason' # "remote_eof"
  BY DEF ServerRecvEnd, CloseBoth
<1>11. RemoteRecvEnd => reason' # "client_eof"
  BY DEF RemoteRecvEnd, CloseBoth
<1>12. CASE ServerRecvEnd
  BY <1>10, <1>12
<1>13. CASE RemoteRecvEnd
  BY <1>11, <1>13
<1> QED
  BY <1>5, <1>6, <1>7, <1>8, <1>9, <1>12, <1>13, NextCases DEF Endings

LEMMA DownPipeStep ==
  ASSUME IInv, IInv', Next
  PROVE  DownPipe!PipeNext
<1>1. live /\ GivesClient
  BY NextIsLive, NextGivesClient
<1>2. /\ Len(clientGot) \in Nat /\ decoded \in Nat /\ clientGot \in Seq(Nat)
      /\ Len(clientGot) <= decoded
  <2>1. Len(clientGot) \in Nat /\ decoded \in Nat /\ clientGot \in Seq(Nat) /\ sbuf.len \in Nat
    BY TypeFacts DEF IInv
  <2>2. Len(clientGot) + sbuf.len = decoded \/ Len(clientGot) = decoded
    BY <1>1 DEF IInv, DownOrder
  <2> QED
    BY <2>1, <2>2
<1>3. Status("remote_eof") = "open"
  BY <1>1 DEF Status
<1>4. CASE ~live' /\ reason' = "remote_eof"
  <2>1. RemoteRecvEnd
    BY <1>4, ClosingReasons
  <2>2. UNCHANGED <<decoded, clientGot>> /\ "remote_recv" \in watch
    BY <2>1 DEF RemoteRecvEnd, RemoteReading, down
  <2>3. "server_send" \notin watch
    BY <1>1, <2>2, AnswerFacts
  <2>4. Len(clientGot) = decoded
    BY <1>1, <2>3 DEF IInv, DownOrder
  <2>5. Status("remote_eof")' = "finished"
    BY <1>4 DEF Status
  <2> QED
    BY <1>3, <2>2, <2>4, <2>5 DEF DownPipe!PipeNext, DownPipe!Finish
<1>5. CASE ~(~live' /\ reason' = "remote_eof")
  <2>1. Status("remote_eof")' \in {"open", "aborted"}
    BY <1>5 DEF Status
  <2>2. decoded' \in decoded..DownLen
    <3>1. decoded' >= decoded
      BY <1>1, <1>2 DEF GivesClient, down
    <3>2. decoded' \in 0..DownLen /\ DownLen \in Nat
      BY Lengths DEF IInv, ProgramTypeOK
    <3> QED
      BY <1>2, <3>1, <3>2
  <2>3. clientGot' = Run(0, Len(clientGot'))
    BY DEF IInv, DownOrder
  <2>4. Len(clientGot') \in Len(clientGot)..decoded'
    <3>1. CASE UNCHANGED down
      BY <1>2, <3>1 DEF down
    <3>2. ASSUME live', NEW a \in Nat, NEW m \in Nat, clientGot' = clientGot \o Run(a, m)
          PROVE  Len(clientGot') \in Len(clientGot)..decoded'
      <4>1. Len(clientGot') = Len(clientGot) + m
        BY <1>2, <3>2, AppendRun
      <4>2. sbuf'.len \in Nat
        BY BufferFields DEF IInv, ProgramTypeOK
      <4>3. Len(clientGot') + sbuf'.len = decoded' \/ Len(clientGot') = decoded'
        BY <3>2 DEF IInv, DownOrder
      <4> DEFINE g == Len(clientGot)
                 h == Len(clientGot')
                 k == sbuf'.len
                 e == decoded'
      <4>4. g \in Nat /\ e \in Int
        BY <1>2, <2>2
      <4>5. h = g + m /\ k \in Nat /\ (h + k = e \/ h = e)
        BY <4>1, <4>2, <4>3
      <4> HIDE DEF g, h, k, e
      <4>6. h \in g..e
        BY <4>4, <4>5
      <4> QED
        BY <4>6 DEF g, h, e
    <3> QED
      BY <1>1, <3>1, <3>2 DEF GivesClient
  <2>5. DownPipe!Relay
    BY <1>3, <2>1, <2>2, <2>3, <2>4 DEF DownPipe!Relay, DownPipe!Run, Run
  <2> QED
    BY <2>5 DEF DownPipe!PipeNext
<1> QED
  BY <1>4, <1>5

(***************************************************************************)
(* The server's answer reaches the application without loss, repetition or *)
(* change of order through server->buf, which held the request before, and *)
(* when the server's stream ends nothing that was decoded is left behind   *)
(* (remote_recv_cb and server_send_cb, on sockets of any kind).            *)
(***************************************************************************)
THEOREM ClientDownImplementsPipe == Spec => DownIsPipe
<1>1. Init => DownPipe!PipeInit
  BY DEF Init, DownPipe!PipeInit, Status, live
<1>2. IInv /\ IInv' /\ [Next]_vars => [DownPipe!PipeNext]_(DownPipe!pipeVars)
  <2>1. UNCHANGED vars => UNCHANGED DownPipe!pipeVars
    BY DEF vars, conn, down, DownPipe!pipeVars, Status, live
  <2> QED
    BY <2>1, DownPipeStep
<1> QED
  BY <1>1, <1>2, SpecIInv, PTL DEF Spec, DownIsPipe, DownPipe!PipeSpec

-----------------------------------------------------------------------------
(***************************************************************************)
(* The refinement of BytePipe, application to server.                      *)
(***************************************************************************)

\* A step that hands the next units to the server's socket, or none.
GivesServer == \/ UNCHANGED remoteGot
               \/ \E a, m \in Nat : remoteGot' = remoteGot \o Run(a, m)

\* The encoders are fed more, or nothing.
Feeds == UNCHANGED enc \/ \E n \in Nat : enc' = enc + n

LEMMA SendGives ==
  ASSUME NEW b \in Buffer, NEW s \in 0..b.len, remoteGot' = remoteGot \o Unsent(b, s)
  PROVE  GivesServer
<1>1. b.len \in Nat /\ b.base \in Nat /\ b.idx \in Nat
  BY BufferFields
<1>2. s \in Nat /\ b.base + b.idx \in Nat
  BY <1>1
<1> QED
  BY <1>2 DEF GivesServer, Unsent

LEMMA SendAtOnceGives ==
  ASSUME NEW out \in Buffer, SendAtOnce(out)
  PROVE  GivesServer
<1>1. out.len \in Nat
  BY BufferFields
<1>2. out.len \in 0..out.len /\ (\A s \in 0..(out.len - 1) : s \in 0..out.len)
  BY <1>1
<1>3. \/ UNCHANGED remoteGot
      \/ \E s \in 0..(out.len - 1) : remoteGot' = remoteGot \o Unsent(out, s)
      \/ remoteGot' = remoteGot \o Unsent(out, out.len)
  BY DEF SendAtOnce
<1> QED
  BY <1>2, <1>3, SendGives DEF GivesServer

LEMMA LocalConnectGives ==
  ASSUME ProgramTypeOK, NEW p \in Nat, LocalConnect(p)
  PROVE  GivesServer /\ Feeds
<1> DEFINE n == FirstPlainLen(p)
           out == Produced(n)
<1>1. n \in Nat
  <2>1. sess.direct \in BOOLEAN /\ HdrLen \in Nat
    BY TypeFacts, SessionFacts, Lengths
  <2> QED
    BY <2>1 DEF FirstPlainLen
<1>2. out \in Buffer /\ out.len \in Nat
  BY <1>1, ProducedFields, BufferFields
<1>3. \/ UNCHANGED <<code, remoteGot>>
      \/ /\ Encode(n)
         /\ \/ \E s \in 0..(out.len - 1) : remoteGot' = remoteGot \o Unsent(out, s)
            \/ remoteGot' = remoteGot \o Unsent(out, 0)
            \/ remoteGot' = remoteGot \o Unsent(out, out.len)
  BY DEF LocalConnect, FirstPlainLen
<1> HIDE DEF n, out
<1>4. 0 \in 0..out.len /\ out.len \in 0..out.len
      /\ (\A s \in 0..(out.len - 1) : s \in 0..out.len)
  BY <1>2
<1>5. GivesServer
  BY <1>2, <1>3, <1>4, SendGives DEF GivesServer
<1>6. Feeds
  BY <1>1, <1>3 DEF Feeds, Encode, code
<1> QED
  BY <1>5, <1>6

LEMMA RequestGives ==
  IInv /\ (LocalRecvInit \/ LocalRecvRequest) => GivesServer /\ Feeds
<1> SUFFICES ASSUME IInv, LocalRecvInit \/ LocalRecvRequest PROVE GivesServer /\ Feeds
  OBVIOUS
<1>1. ProgramTypeOK
  BY DEF IInv
<1>2. CASE UNCHANGED <<code, remoteGot>>
  BY <1>2 DEF GivesServer, Feeds, code
<1>3. ASSUME NEW at, NEW p \in Nat, LocalParse(at, p) PROVE GivesServer /\ Feeds
  BY <1>1, <1>2, <1>3, LocalConnectGives DEF LocalParse
<1>4. CASE LocalRecvInit
  <2>1. PICK r \in 1..BufSize :
          \/ LocalParse("PARSE", r)
          \/ r > 1 /\ LocalParse("HANDSHAKE", r - 2)
          \/ UNCHANGED <<code, remoteGot>>
    BY <1>4 DEF LocalRecvInit
  <2>2. r \in Nat /\ (r > 1 => r - 2 \in Nat)
    BY Lengths
  <2> QED
    BY <1>2, <1>3, <2>1, <2>2
<1>5. CASE LocalRecvRequest
  <2>1. PICK r \in 1..BufSize : LocalParse(stage, sbuf.len + r - 1)
    BY <1>5 DEF LocalRecvRequest
  <2>2. sbuf.len + r - 1 \in Nat
    <3>1. sbuf.len \in Nat /\ BufSize \in Nat
      BY <1>1, TypeFacts, Lengths
    <3> QED
      BY <3>1
  <2> QED
    BY <1>3, <2>1, <2>2
<1> QED
  BY <1>4, <1>5

LEMMA UploadGives ==
  IInv /\ (\/ ServerRecvStream \/ RemoteSendPart \/ RemoteSendAll \/ LocalConnected
           \/ RedirConnected \/ TunnelConnected \/ RemoteRecvAnswer)
  => GivesServer /\ Feeds
<1> SUFFICES ASSUME IInv PROVE
       (\/ ServerRecvStream \/ RemoteSendPart \/ RemoteSendAll \/ LocalConnected
        \/ RedirConnected \/ TunnelConnected \/ RemoteRecvAnswer) => GivesServer /\ Feeds
  OBVIOUS
<1>1. ProgramTypeOK /\ rbuf \in Buffer /\ rbuf.len \in Nat /\ HdrLen \in Nat /\ enc \in Nat
      /\ GreetLen \in Nat
  BY TypeFacts, Lengths DEF IInv
<1>2. ASSUME ServerRecvStream PROVE GivesServer /\ Feeds
  <2>1. PICK r \in 1..BufSize : Encode(r) /\ SendAtOnce(Outgoing(Produced(r)))
    BY <1>2 DEF ServerRecvStream
  <2>2. r \in Nat
    BY Lengths
  <2>3. Outgoing(Produced(r)) \in Buffer
    BY <1>1, <2>2, ProducedFields, OutgoingFields
  <2>4. GivesServer
    BY <2>1, <2>3, SendAtOnceGives
  <2> QED
    BY <2>1, <2>2, <2>4 DEF Encode, Feeds
<1>3. ASSUME RemoteSendPart \/ RemoteSendAll \/ LocalConnected PROVE GivesServer /\ Feeds
  <2>1. UNCHANGED code /\ \E s \in 0..rbuf.len : remoteGot' = remoteGot \o Unsent(rbuf, s)
    <3>1. rbuf.len \in 0..rbuf.len /\ (\A s \in 0..(rbuf.len - 1) : s \in 0..rbuf.len)
      BY <1>1
    <3> QED
      BY <1>3, <3>1 DEF RemoteSendPart, RemoteSendAll, LocalConnected
  <2>2. GivesServer
    BY <1>1, <2>1, SendGives
  <2> QED
    BY <2>1, <2>2 DEF code, Feeds
<1>4. ASSUME RedirConnected PROVE GivesServer /\ Feeds
  <2> DEFINE n == HdrLen + rbuf.len
             out == Produced(n)
  <2>1. Encode(n) /\ \E s \in 0..out.len : remoteGot' = remoteGot \o Unsent(out, s)
    BY <1>4 DEF RedirConnected
  <2>2. n \in Nat
    BY <1>1
  <2>3. out \in Buffer
    BY <1>1, <2>2, ProducedFields
  <2> HIDE DEF n, out
  <2>4. GivesServer
    BY <2>1, <2>3, SendGives
  <2> QED
    BY <2>1, <2>2, <2>4 DEF Encode, Feeds
<1>5. ASSUME TunnelConnected PROVE GivesServer /\ Feeds
  <2> DEFINE out == Produced(HdrLen)
  <2>1. /\ Encode(HdrLen)
        /\ \/ UNCHANGED remoteGot
           \/ remoteGot' = remoteGot \o Unsent(out, out.len)
           \/ \E s \in 0..(out.len - 1) : remoteGot' = remoteGot \o Unsent(out, s)
    BY <1>5 DEF TunnelConnected
  <2>2. /\ out \in Buffer /\ out.len \in 0..out.len
        /\ \A s \in 0..(out.len - 1) : s \in 0..out.len
    <3>1. out \in Buffer /\ out.len \in Nat
      BY <1>1, ProducedFields, BufferFields
    <3> QED
      BY <3>1
  <2> HIDE DEF out
  <2>3. GivesServer
    BY <2>1, <2>2, SendGives DEF GivesServer
  <2> QED
    BY <1>1, <2>1, <2>3 DEF Encode, Feeds
<1>6. ASSUME RemoteRecvAnswer PROVE GivesServer /\ Feeds
  <2>1. GreetLen + enc \in Nat
    BY <1>1
  <2>2. ClosingPart \in Buffer /\ ClosingPart.len \in Nat
    BY <1>1, <2>1, BufFields DEF ClosingPart
  <2>3. /\ ClosingPart.len \in 0..ClosingPart.len
        /\ \A s \in 0..(ClosingPart.len - 1) : s \in 0..ClosingPart.len
    BY <2>2
  <2>4. \/ UNCHANGED remoteGot
        \/ \E s \in 0..ClosingPart.len : remoteGot' = remoteGot \o Unsent(ClosingPart, s)
    BY <1>6, <2>3 DEF RemoteRecvAnswer
  <2>5. GivesServer
    BY <2>2, <2>4, SendGives DEF GivesServer
  <2> QED
    BY <1>6, <2>5 DEF RemoteRecvAnswer, Feeds
<1> QED
  BY <1>2, <1>3, <1>4, <1>5, <1>6

LEMMA NextGivesServer == IInv /\ Next => GivesServer /\ Feeds
<1>1. \/ Endings \/ RedirRecvEarly \/ RemoteRecvData \/ ServerSendPart \/ ServerSendAll
      => UNCHANGED <<code, remoteGot>>
  BY DEF Endings, ServerRecvEnd, RemoteSendError, RemoteRecvEnd, ServerSendError, TimedOut,
         RedirRecvEarly, RemoteRecvData, ServerSendPart, ServerSendAll
<1>2. UNCHANGED <<code, remoteGot>> => GivesServer /\ Feeds
  BY DEF GivesServer, Feeds, code
<1> QED
  BY <1>1, <1>2, NextCases, RequestGives, UploadGives

\* The session stays what it is.
LEMMA NextKeepsSess == [Next]_vars => UNCHANGED sess
BY DEF vars, Next, ServerRecvCb, ServerRecvEnd, LocalRecvInit, LocalRecvRequest,
       RedirRecvEarly, ServerRecvStream, RemoteSendCb, RemoteSendError, RemoteSendPart,
       RemoteSendAll, LocalConnected, RedirConnected, TunnelConnected,
       RemoteRecvCb, RemoteRecvEnd, RemoteRecvAnswer, RemoteRecvData,
       ServerSendCb, ServerSendError, ServerSendPart, ServerSendAll,
       HandshakeTimeout, OtherTimeout, TimedOut

\* No more payload is encoded than the application sends.
Within == enc <= Fresh + UpLen

LEMMA LiveWithin == IInv /\ live => Within
<1> SUFFICES ASSUME IInv, live PROVE Within
  OBVIOUS
<1>1. /\ enc \in Nat /\ cRecv \in Nat /\ Preamble \in Nat /\ Fresh \in Nat /\ UpLen \in Nat
      /\ cRecv <= Preamble + UpLen
  BY TypeFacts, SessionFacts, Lengths DEF IInv, Counted
<1>2. enc = 0 \/ enc = Fresh + (cRecv - Preamble)
  BY DEF IInv, Counted, Opened, Unopened
<1> QED
  BY <1>1, <1>2 DEF Within

\* A step that closes the connection encodes nothing, or what it could not send.
LEMMA LastEncoded ==
  ASSUME IInv, Next, ~live'
  PROVE  UNCHANGED enc \/ ServerRecvStream \/ TunnelConnected
<1>1. ASSUME UNCHANGED server PROVE FALSE
  BY <1>1, NextIsLive DEF live
<1>2. ASSUME NEW at, NEW p, LocalParse(at, p) PROVE UNCHANGED enc
  BY <1>1, <1>2 DEF LocalParse, LocalConnect, conn, code
<1>3. LocalRecvInit \/ LocalRecvRequest => UNCHANGED enc
  <2>1. LocalRecvInit \/ LocalRecvRequest =>
          (\E at, p : LocalParse(at, p)) \/ UNCHANGED server
    BY DEF LocalRecvInit, LocalRecvRequest, conn
  <2> QED
    BY <1>1, <1>2, <2>1
<1>4. RedirConnected => FALSE
  BY <1>1 DEF RedirConnected
<1>5. \/ Endings \/ RedirRecvEarly \/ RemoteRecvData \/ ServerSendPart \/ ServerSendAll
      \/ RemoteSendPart \/ RemoteSendAll \/ LocalConnected \/ RemoteRecvAnswer
      => UNCHANGED enc
  BY DEF Endings, ServerRecvEnd, RemoteSendError, RemoteRecvEnd, ServerSendError, TimedOut,
         RedirRecvEarly, RemoteRecvData, ServerSendPart, ServerSendAll, RemoteSendPart,
         RemoteSendAll, LocalConnected, RemoteRecvAnswer, code
<1> QED
  BY <1>3, <1>4, <1>5, NextCases

LEMMA StreamWithin ==
  ASSUME IInv, ServerRecvStream
  PROVE  Within'
<1>1. live /\ remote = "connected" /\ Encoding /\ UNCHANGED sess
  BY DEF ServerRecvStream, Arrived, Reading, Encoding
<1>2. PICK r \in 1..BufSize : r <= Preamble + UpLen - cRecv /\ enc' = enc + r
  BY DEF ServerRecvStream, Arrived, Encode
<1>3. enc = Fresh + (cRecv - Preamble)
  BY <1>1, StreamFacts
<1>4. /\ enc \in Nat /\ cRecv \in Nat /\ Preamble \in Nat /\ Fresh \in Nat /\ UpLen \in Nat
      /\ r \in Nat
  BY TypeFacts, SessionFacts, Lengths DEF IInv
<1>5. Fresh' = Fresh
  BY <1>1, SessionKept
<1>6. enc + r <= Fresh + UpLen
  BY <1>2, <1>3, <1>4
<1> QED
  BY <1>2, <1>5, <1>6 DEF Within

LEMMA TunnelWithin ==
  ASSUME IInv, TunnelConnected
  PROVE  Within'
<1>1. Tunnel /\ live /\ remote = "connecting" /\ UNCHANGED sess /\ enc' = enc + HdrLen
  BY DEF TunnelConnected, Writing, Encode
<1>2. ~Encoding /\ Fresh = HdrLen /\ HdrLen \in Nat /\ UpLen \in Nat /\ Fresh' = Fresh
  BY <1>1, TypeFacts, SessionFacts, Lengths, SessionKept DEF Encoding, IInv
<1>3. enc = 0
  BY <1>1, <1>2, StreamFacts
<1>4. 0 + HdrLen <= HdrLen + UpLen
  BY <1>2
<1> QED
  BY <1>1, <1>2, <1>3, <1>4 DEF Within

LEMMA NextWithin == IInv /\ IInv' /\ Within /\ [Next]_vars => Within'
<1>1. IInv' /\ live' => Within'
  BY LiveWithin, PTL
<1>2. Within /\ UNCHANGED <<sess, enc>> => Within'
  BY SessionKept DEF Within
<1>3. UNCHANGED vars => UNCHANGED <<sess, enc>>
  BY DEF vars, code
<1> QED
  BY <1>1, <1>2, <1>3, NextKeepsSess, LastEncoded, StreamWithin, TunnelWithin

LEMMA SpecWithin == Spec => []Within
<1>1. Init => Within
  BY InitIInv, LiveWithin DEF Init, live
<1>2. IInv /\ IInv' /\ Within /\ [Next]_vars => Within'
  BY NextWithin
<1> QED
  BY <1>1, <1>2, SpecIInv, PTL DEF Spec

\* How many units are on the wire before the payload, and how many of the
\* payload the server's socket has got.
LeadIn       == PayloadBase - EmitBase
Beyond(z, n) == IF z <= n THEN n - z ELSE 0
GivenLen     == Beyond(LeadIn, Len(remoteGot))

LEMMA BeyondFacts ==
  ASSUME NEW z \in Nat, NEW x \in Nat
  PROVE  /\ Beyond(z, x) \in Nat
         /\ x <= z => Beyond(z, x) = 0
         /\ \A y \in Nat : x <= y => Beyond(z, x) <= Beyond(z, y)
         /\ \A c \in Nat : Beyond(c + z, c + x) = Beyond(z, x)
BY DEF Beyond

\* Where the first unit of the payload will be among those that are encoded.
LEMMA LeadInFacts ==
  ASSUME IInv
  PROVE  /\ LeadIn \in Nat /\ EmitBase + LeadIn = PayloadBase
         /\ PayloadTaken \in Nat
         /\ PayloadTaken = Beyond(Fresh, enc)
         /\ Fresh \in Nat /\ enc \in Nat
         /\ obfs = "none" => LeadIn = Fresh
         /\ obfs # "none" => LeadIn = PlainBase + Fresh
<1>1. /\ EmitBase \in Nat /\ EmitBase <= PayloadBase /\ PayloadBase \in Nat
      /\ PlainBase \in Nat /\ PayloadBase = PlainBase + HdrLen
  BY EmitFacts, Lengths
<1>2. /\ FirstPlain \in Nat /\ Fresh \in Nat /\ FirstPlain + Fresh = PayloadBase
      /\ enc \in Nat /\ sess.tls \in BOOLEAN /\ (sess.direct => ~sess.tls)
  BY TypeFacts, SessionFacts DEF IInv
<1>3. PayloadTaken = Beyond(Fresh, enc)
  <2>1. NextPlain = FirstPlain + enc /\ NextPlain \in Nat
    BY <1>2 DEF NextPlain
  <2> QED
    BY <1>1, <1>2, <2>1 DEF PayloadTaken, Beyond
<1>4. LeadIn \in Nat /\ EmitBase + LeadIn = PayloadBase
  BY <1>1 DEF LeadIn
<1>5. obfs = "none" => LeadIn = Fresh
  <2>1. obfs = "none" => EmitBase = FirstPlain
    BY DEF EmitBase
  <2> QED
    BY <1>1, <1>2, <2>1 DEF LeadIn
<1>6. obfs # "none" => LeadIn = PlainBase + Fresh
  <2> SUFFICES ASSUME obfs # "none" PROVE LeadIn = PlainBase + Fresh
    OBVIOUS
  <2>1. EmitBase = 0 /\ sess.tls
    BY DEF EmitBase, IInv, Greeted
  <2>2. Fresh = HdrLen
    BY <1>2, <2>1 DEF Fresh
  <2> QED
    BY <1>1, <2>1, <2>2 DEF LeadIn
<1>7. PayloadTaken \in Nat
  BY <1>2, <1>3, BeyondFacts
<1> QED
  BY <1>2, <1>3, <1>4, <1>5, <1>6, <1>7

\* The server's socket has got a prefix of the payload that was encoded.
Delivering == /\ GivenLen \in Nat /\ PayloadTaken \in Nat
              /\ PayloadGiven = Run(PayloadBase, GivenLen)
              /\ Len(PayloadGiven) = GivenLen
              /\ GivenLen <= PayloadTaken
              /\ PayloadTaken <= UpLen

LEMMA GivenBound ==
  ASSUME IInv, UpInv
  PROVE  /\ GivenLen \in Nat /\ GivenLen <= PayloadTaken
         /\ Len(remoteGot) = EmitLen /\ obfs # "hello" /\ (obfs = "start" => enc = 0)
            => GivenLen = PayloadTaken
<1> DEFINE g == Len(remoteGot)
<1>1. /\ LeadIn \in Nat /\ Fresh \in Nat /\ enc \in Nat /\ PayloadTaken \in Nat
      /\ PayloadTaken = Beyond(Fresh, enc)
      /\ obfs = "none" => LeadIn = Fresh
      /\ obfs # "none" => LeadIn = PlainBase + Fresh
  BY LeadInFacts
<1>2. /\ GreetLen \in Nat /\ GreetLen > 0 /\ PlainBase \in Nat
      /\ PlainBase = GreetLen + GreetLen
  BY Lengths
<1>3. /\ g \in Nat /\ EmitLen \in Nat /\ g <= EmitLen
  BY EmitFacts, TypeFacts DEF IInv, UpInv, UpOrder
<1>4. obfs \in {"start", "hello", "done", "none"}
  BY DEF IInv, ProgramTypeOK
<1>5. GivenLen = Beyond(LeadIn, g)
  BY DEF GivenLen
<1> HIDE DEF g
<1>6. /\ Beyond(LeadIn, g) \in Nat /\ Beyond(LeadIn, EmitLen) \in Nat
      /\ Beyond(LeadIn, g) <= Beyond(LeadIn, EmitLen)
  BY <1>1, <1>3, BeyondFacts
<1>7. Beyond(LeadIn, EmitLen) <= PayloadTaken
      /\ (obfs # "hello" /\ (obfs = "start" => enc = 0)
          => Beyond(LeadIn, EmitLen) = PayloadTaken)
  <2>1. CASE obfs = "none"
    <3>1. EmitLen = enc
      BY <2>1 DEF EmitLen
    <3> QED
      BY <1>1, <2>1, <3>1
  <2>2. CASE obfs = "done"
    <3>1. EmitLen = PlainBase + enc /\ LeadIn = PlainBase + Fresh
      BY <1>1, <2>2 DEF EmitLen
    <3>2. Beyond(PlainBase + Fresh, PlainBase + enc) = Beyond(Fresh, enc)
      BY <1>1, <1>2, BeyondFacts
    <3> QED
      BY <1>1, <3>1, <3>2
  <2>3. CASE obfs \in {"start", "hello"}
    <3>1. EmitLen \in {0, GreetLen}
      BY <2>3 DEF EmitLen
    <3>2. LeadIn = PlainBase + Fresh
      BY <1>1, <2>3
    <3>3. EmitLen <= LeadIn
      BY <1>1, <1>2, <3>1, <3>2
    <3>4. Beyond(LeadIn, EmitLen) = 0
      BY <1>1, <1>3, <3>3, BeyondFacts
    <3>5. enc = 0 => PayloadTaken = 0
      BY <1>1, BeyondFacts
    <3> QED
      BY <1>1, <2>3, <3>4, <3>5
  <2> QED
    BY <1>4, <2>1, <2>2, <2>3
<1>8. GivenLen <= PayloadTaken
  BY <1>1, <1>5, <1>6, <1>7
<1> QED
  BY <1>5, <1>6, <1>7, <1>8 DEF g

LEMMA IsDelivering == IInv /\ UpInv /\ Within => Delivering
<1> SUFFICES ASSUME IInv, UpInv, Within PROVE Delivering
  OBVIOUS
<1> DEFINE g == Len(remoteGot)
<1>1. /\ LeadIn \in Nat /\ EmitBase + LeadIn = PayloadBase /\ EmitBase \in Nat
      /\ PayloadTaken \in Nat /\ Fresh \in Nat /\ enc \in Nat /\ UpLen \in Nat
      /\ PayloadTaken = Beyond(Fresh, enc)
      /\ PayloadBase \in Nat
  BY LeadInFacts, EmitFacts, Lengths
<1>2. GivenLen \in Nat /\ GivenLen <= PayloadTaken
  BY GivenBound
<1>3. PayloadTaken <= UpLen
  BY <1>1 DEF Within, Beyond
<1>4. remoteGot = Run(EmitBase, g) /\ g \in Nat
  BY TypeFacts DEF IInv, UpInv, UpOrder
<1>5. PayloadGiven = SubSeq(Run(EmitBase, g), LeadIn + 1, g)
  BY <1>4 DEF PayloadGiven, LeadIn
<1> HIDE DEF g
<1>6. PayloadGiven = Run(EmitBase + LeadIn, IF LeadIn <= g THEN g - LeadIn ELSE 0)
  BY <1>1, <1>4, <1>5, RunSuffix
<1>7. PayloadGiven = Run(PayloadBase, GivenLen)
  BY <1>1, <1>6 DEF GivenLen, Beyond, g
<1>8. Len(PayloadGiven) = GivenLen
  BY <1>1, <1>2, <1>7, RunIsSeq
<1> QED
  BY <1>1, <1>2, <1>3, <1>7, <1>8 DEF Delivering

\* What is given grows with what the socket takes, and what is taken with
\* what is encoded.
LEMMA GivenGrows ==
  ASSUME IInv, IInv', UNCHANGED sess, GivesServer
  PROVE  GivenLen' >= GivenLen
<1> DEFINE g == Len(remoteGot)
           h == Len(remoteGot)'
<1>1. LeadIn \in Nat /\ g \in Nat /\ remoteGot \in Seq(Nat)
  BY LeadInFacts, TypeFacts DEF IInv
<1>2. LeadIn' = LeadIn
  <2>1. EmitBase' = EmitBase
    BY EmitBaseKept
  <2> QED
    BY <2>1 DEF LeadIn, PayloadBase, PlainBase
<1>3. h \in Nat /\ h >= g
  <2>1. CASE UNCHANGED remoteGot
    BY <1>1, <2>1
  <2>2. ASSUME NEW a \in Nat, NEW m \in Nat, remoteGot' = remoteGot \o Run(a, m)
        PROVE  h \in Nat /\ h >= g
    <3>1. h = g + m
      BY <1>1, <2>2, AppendRun
    <3> QED
      BY <1>1, <3>1
  <2> QED
    BY <2>1, <2>2 DEF GivesServer
<1>4. GivenLen = Beyond(LeadIn, g) /\ GivenLen' = Beyond(LeadIn, h)
  BY <1>2 DEF GivenLen, Beyond
<1> HIDE DEF g, h
<1>5. g <= h
  BY <1>1, <1>3
<1>6. /\ Beyond(LeadIn, g) \in Nat /\ Beyond(LeadIn, h) \in Nat
      /\ Beyond(LeadIn, g) <= Beyond(LeadIn, h)
  BY <1>1, <1>3, <1>5, BeyondFacts
<1> QED
  BY <1>4, <1>6

LEMMA TakenGrows ==
  ASSUME IInv, UNCHANGED sess, Feeds
  PROVE  PayloadTaken' >= PayloadTaken
<1>1. /\ enc \in Nat /\ FirstPlain \in Nat /\ PayloadBase \in Nat
  BY TypeFacts, SessionFacts, Lengths DEF IInv
<1>2. enc' \in Nat /\ enc' >= enc
  <2>1. CASE UNCHANGED enc
    BY <1>1, <2>1
  <2>2. ASSUME NEW n \in Nat, enc' = enc + n PROVE enc' \in Nat /\ enc' >= enc
    BY <1>1, <2>2
  <2> QED
    BY <2>1, <2>2 DEF Feeds
<1>3. NextPlain = FirstPlain + enc /\ NextPlain' = FirstPlain + enc'
  BY SessionKept DEF NextPlain
<1>4. NextPlain \in Nat /\ NextPlain' \in Nat /\ NextPlain <= NextPlain'
  <2>1. \A f, d, e \in Nat : e >= d => f + d \in Nat /\ f + e \in Nat /\ f + d <= f + e
    OBVIOUS
  <2> QED
    BY <1>1, <1>2, <1>3, <2>1
<1>5. \A n \in Nat : (IF n > PayloadBase THEN n - PayloadBase ELSE 0) = Beyond(PayloadBase, n)
  BY <1>1 DEF Beyond
<1>6. PayloadTaken' = Beyond(PayloadBase, NextPlain')
  <2>1. PayloadTaken' = IF NextPlain' > PayloadBase THEN NextPlain' - PayloadBase ELSE 0
    BY DEF PayloadTaken, PayloadBase, PlainBase
  <2> QED
    BY <1>4, <1>5, <2>1
<1>7. PayloadTaken = Beyond(PayloadBase, NextPlain)
  BY <1>4, <1>5 DEF PayloadTaken
<1>8. /\ Beyond(PayloadBase, NextPlain) \in Nat /\ Beyond(PayloadBase, NextPlain') \in Nat
      /\ Beyond(PayloadBase, NextPlain) <= Beyond(PayloadBase, NextPlain')
  BY <1>1, <1>4, BeyondFacts
<1> QED
  BY <1>6, <1>7, <1>8

\* Reading stops for the last time when nothing is left to send.
LEMMA EndOfUpload ==
  ASSUME IInv, UpInv, Within, ServerRecvEnd, obfs # "hello"
  PROVE  GivenLen = PayloadTaken
<1>1. live /\ "server_recv" \in watch
  BY DEF ServerRecvEnd, Reading
<1>2. CASE Encoding
  <2>1. remote = "connected"
    BY <1>1, <1>2 DEF IInv, Attended, Encoding
  <2>2. Len(remoteGot) = EmitLen
    BY <1>1, <1>2, <2>1 DEF UpInv, UpWatched, UpOrder, AllTaken
  <2>3. obfs # "start"
    BY <1>1, <1>2 DEF IInv, Greeted
  <2> QED
    BY <2>2, <2>3, GivenBound
<1>3. CASE ~Encoding
  <2>1. EmitLen = 0 /\ Len(remoteGot) = 0
    BY <1>1, <1>3, NothingYet DEF UpInv
  <2>2. enc = 0
    BY <1>1, <1>3 DEF IInv, Counted, Opened, Unopened
  <2> QED
    BY <2>1, <2>2, GivenBound
<1> QED
  BY <1>2, <1>3

UpStatus == IF obfs = "hello" /\ ~live THEN "aborted" ELSE Status("client_eof")

LEMMA UpPipeStep ==
  ASSUME IInv, IInv', UpInv, UpInv', Within, Within', Next
  PROVE  UpPipe!PipeNext
<1>1. live /\ GivesServer /\ Feeds /\ UNCHANGED sess
  BY NextIsLive, NextGivesServer, NextKeepsSess
<1>2. Delivering /\ Delivering'
  <2>1. IInv' /\ UpInv' /\ Within' => Delivering'
    BY IsDelivering, PTL
  <2> QED
    BY <2>1, IsDelivering
<1>3. UpStatus = "open"
  BY <1>1 DEF UpStatus, Status
<1>4. CASE ~live' /\ reason' = "client_eof" /\ obfs' # "hello"
  <2>1. ServerRecvEnd
    BY <1>4, ClosingReasons
  <2>2. UNCHANGED <<sess, obfs, enc, remoteGot>>
    BY <2>1 DEF ServerRecvEnd, code
  <2>3. Len(PayloadGiven) = PayloadTaken
    BY <1>2, <1>4, <2>1, <2>2, EndOfUpload DEF Delivering
  <2>4. UNCHANGED <<PayloadTaken, PayloadGiven>>
    BY <2>2, SessionKept DEF PayloadTaken, PayloadGiven, NextPlain, PayloadBase, PlainBase,
                             EmitBase
  <2>5. UpStatus' = "finished"
    BY <1>4 DEF UpStatus, Status
  <2> QED
    BY <1>3, <2>3, <2>4, <2>5 DEF UpPipe!PipeNext, UpPipe!Finish, UpStatus
<1>5. CASE ~(~live' /\ reason' = "client_eof" /\ obfs' # "hello")
  <2>1. UpStatus' \in {"open", "aborted"}
    BY <1>5 DEF UpStatus, Status
  <2>2. GivenLen' >= GivenLen /\ PayloadTaken' >= PayloadTaken
    BY <1>1, GivenGrows, TakenGrows
  <2>3. PayloadTaken' \in PayloadTaken..UpLen
    BY <1>2, <2>2, Lengths DEF Delivering
  <2>4. PayloadGiven' = Run(PayloadBase, GivenLen')
    BY <1>2 DEF Delivering, PayloadBase, PlainBase
  <2>5. GivenLen' \in Len(PayloadGiven)..PayloadTaken'
    BY <1>2, <2>2 DEF Delivering
  <2>6. \E n \in Len(PayloadGiven)..PayloadTaken' : PayloadGiven' = UpPipe!Run(PayloadBase, n)
    BY <2>4, <2>5 DEF UpPipe!Run, Run
  <2>7. UpPipe!Relay
    BY <1>3, <2>1, <2>3, <2>6 DEF UpPipe!Relay, UpStatus
  <2> QED
    BY <2>7 DEF UpPipe!PipeNext
<1> QED
  BY <1>4, <1>5

LEMMA UpPipeStarts == Init => UpPipe!PipeInit
<1> SUFFICES ASSUME Init PROVE UpPipe!PipeInit
  OBVIOUS
<1>1. IInv /\ UpInv /\ Within
  BY InitIInv, InitUp, LiveWithin DEF Init, live
<1>2. /\ enc = 0 /\ live
  BY DEF Init, live
<1>3. PayloadTaken = 0
  <2>1. PayloadTaken = Beyond(Fresh, 0) /\ Fresh \in Nat
    BY <1>1, <1>2, LeadInFacts
  <2>2. 0 <= Fresh
    BY <2>1
  <2> QED
    BY <2>1, <2>2, BeyondFacts
<1>4. PayloadGiven = Run(PayloadBase, 0)
  BY <1>1, <1>3, IsDelivering, GivenBound DEF Delivering
<1>5. PayloadGiven = <<>>
  BY <1>4, RunEmpty, Lengths
<1> QED
  BY <1>2, <1>3, <1>5 DEF UpPipe!PipeInit, Status

(***************************************************************************)
(* Until a send slips, the application's payload reaches the server        *)
(* without loss, repetition or change of order behind the handshake and    *)
(* the header: through early data, fast open, what the plugin holds, and   *)
(* sends of any part; and when the application ends its stream with no     *)
(* hello unanswered, everything that was encoded is gone.                  *)
(***************************************************************************)
THEOREM ClientUpImplementsPipe == Spec => UpIsPipe
<1>1. Init => UpPipe!PipeInit
  BY UpPipeStarts
<1>2. UNCHANGED vars => UNCHANGED UpPipe!pipeVars
  <2> SUFFICES ASSUME UNCHANGED vars PROVE UNCHANGED UpPipe!pipeVars
    OBVIOUS
  <2>1. UNCHANGED <<sess, server, reason, obfs, enc, remoteGot>>
    BY DEF vars, conn, code
  <2>2. UNCHANGED <<PayloadTaken, PayloadGiven>>
    BY <2>1, SessionKept DEF PayloadTaken, PayloadGiven, NextPlain, PayloadBase, PlainBase,
                             EmitBase
  <2> QED
    BY <2>1, <2>2 DEF UpPipe!pipeVars, Status, live
<1>3. ASSUME IInv, IInv', Ordered, Ordered', Within, Within', [Next]_vars
      PROVE  [slipped' \/ UpPipe!PipeNext]_(UpPipe!pipeVars)
  <2>1. slipped => slipped'
    BY <1>3, SlipStays
  <2>2. ~slipped' => UpInv /\ UpInv'
    BY <1>3, <2>1 DEF Ordered
  <2>3. ~slipped' /\ Next => UpPipe!PipeNext
    BY <1>3, <2>2, UpPipeStep
  <2> QED
    BY <1>2, <1>3, <2>3
<1> QED
  BY <1>1, <1>3, SpecIInv, SpecUp, SpecWithin, PTL DEF Spec, UpIsPipe
=============================================================================
