--------------------------- MODULE BuffersProofs ----------------------------
(***************************************************************************)
(* Facts about runs of consecutive bytes.                                  *)
(***************************************************************************)
EXTENDS Buffers, SequenceTheorems, TLAPS

\* A run of n bytes has n elements, all of them positions.
LEMMA RunIsSeq ==
  ASSUME NEW a \in Nat, NEW n \in Nat
  PROVE  /\ Run(a, n) \in Seq(Nat)
         /\ Len(Run(a, n)) = n
BY DEF Run

\* The empty run is the empty sequence.
LEMMA RunEmpty ==
  ASSUME NEW a
  PROVE  Run(a, 0) = <<>>
BY DEF Run

\* Two runs that meet are one run: what sending a buffer in parts relies on.
LEMMA RunConcat ==
  ASSUME NEW a \in Nat, NEW n \in Nat, NEW m \in Nat
  PROVE  Run(a, n) \o Run(a + n, m) = Run(a, n + m)
<1> DEFINE s == Run(a, n)
           t == Run(a + n, m)
           u == Run(a, n + m)
<1>1. a + n \in Nat /\ n + m \in Nat
  OBVIOUS
<1>2. s \in Seq(Nat) /\ Len(s) = n
  BY RunIsSeq
<1>3. t \in Seq(Nat) /\ Len(t) = m
  BY <1>1, RunIsSeq
<1>4. u \in Seq(Nat) /\ Len(u) = n + m
  BY <1>1, RunIsSeq
<1>5. \A i \in 1..n : s[i] = a + i - 1
  BY DEF Run
<1>6. \A i \in 1..m : t[i] = a + n + i - 1
  BY DEF Run
<1>7. \A i \in 1..(n + m) : u[i] = a + i - 1
  BY DEF Run
<1> HIDE DEF s, t, u
<1>8. /\ s \o t \in Seq(Nat)
      /\ Len(s \o t) = n + m
      /\ \A i \in 1..(n + m) : (s \o t)[i] = IF i <= n THEN s[i] ELSE t[i - n]
  BY <1>2, <1>3, ConcatProperties
<1>9. \A i \in 1..(n + m) : (s \o t)[i] = u[i]
  <2> SUFFICES ASSUME NEW i \in 1..(n + m)
               PROVE  (s \o t)[i] = a + i - 1
    BY <1>7
  <2>1. CASE i <= n
    BY <2>1, <1>5, <1>8
  <2>2. CASE ~(i <= n)
    <3>1. i - n \in 1..m
      BY <2>2
    <3> QED
      BY <2>2, <3>1, <1>6, <1>8
  <2> QED
    BY <2>1, <2>2
<1>10. s \o t = u
  BY <1>4, <1>8, <1>9, SeqEqual
<1> QED
  BY <1>10 DEF s, t, u

\* Handing on the next m bytes of a run keeps it a run.
LEMMA RunGrows ==
  ASSUME NEW a \in Nat, NEW q \in Seq(Nat), q = Run(a, Len(q)), NEW m \in Nat
  PROVE  /\ q \o Run(a + Len(q), m) = Run(a, Len(q) + m)
         /\ q \o Run(a + Len(q), m) \in Seq(Nat)
         /\ Len(q \o Run(a + Len(q), m)) = Len(q) + m
<1>1. Len(q) \in Nat /\ Len(q) + m \in Nat
  BY LenProperties
<1>2. Run(a, Len(q)) \o Run(a + Len(q), m) = Run(a, Len(q) + m)
  BY <1>1, RunConcat
<1>3. /\ Run(a, Len(q) + m) \in Seq(Nat)
      /\ Len(Run(a, Len(q) + m)) = Len(q) + m
  BY <1>1, RunIsSeq
<1> QED
  BY <1>2, <1>3

\* The same of a run that begins at zero.
LEMMA RunGrowsFromStart ==
  ASSUME NEW q \in Seq(Nat), q = Run(0, Len(q)), NEW m \in Nat
  PROVE  /\ q \o Run(Len(q), m) = Run(0, Len(q) + m)
         /\ q \o Run(Len(q), m) \in Seq(Nat)
         /\ Len(q \o Run(Len(q), m)) = Len(q) + m
<1>1. 0 + Len(q) = Len(q)
  BY LenProperties
<1>2. 0 \in Nat
  OBVIOUS
<1>3. /\ q \o Run(0 + Len(q), m) = Run(0, Len(q) + m)
      /\ q \o Run(0 + Len(q), m) \in Seq(Nat)
      /\ Len(q \o Run(0 + Len(q), m)) = Len(q) + m
  BY <1>2, RunGrows
<1> QED
  BY <1>1, <1>3

\* The first bytes of a run are a run.
LEMMA RunPrefix ==
  ASSUME NEW a \in Nat, NEW n \in Nat, NEW g \in 0..n
  PROVE  SubSeq(Run(a, n), 1, g) = Run(a, g)
<1> DEFINE s == Run(a, n)
           t == Run(a, g)
<1>1. g \in Nat
  OBVIOUS
<1>2. s \in Seq(Nat) /\ Len(s) = n /\ t \in Seq(Nat) /\ Len(t) = g
  BY <1>1, RunIsSeq
<1>3. (\A i \in 1..n : s[i] = a + i - 1) /\ (\A i \in 1..g : t[i] = a + i - 1)
  BY DEF Run
<1> HIDE DEF s, t
<1>4. /\ SubSeq(s, 1, g) \in Seq(Nat) /\ Len(SubSeq(s, 1, g)) = g
      /\ \A i \in 1..g : SubSeq(s, 1, g)[i] = s[i]
  BY <1>2
<1>5. \A i \in 1..g : SubSeq(s, 1, g)[i] = t[i]
  BY <1>3, <1>4
<1>6. SubSeq(s, 1, g) = t
  BY <1>2, <1>4, <1>5, SeqEqual
<1> QED
  BY <1>6 DEF s, t

\* And so are those behind the first k.
LEMMA RunSuffix ==
  ASSUME NEW a \in Nat, NEW n \in Nat, NEW k \in Nat
  PROVE  SubSeq(Run(a, n), k + 1, n) = Run(a + k, IF k <= n THEN n - k ELSE 0)
<1> DEFINE m == IF k <= n THEN n - k ELSE 0
           s == Run(a, n)
           t == Run(a + k, m)
           u == SubSeq(s, k + 1, n)
<1>1. m \in Nat /\ a + k \in Nat
  OBVIOUS
<1>2. s \in Seq(Nat) /\ Len(s) = n /\ t \in Seq(Nat) /\ Len(t) = m
  BY <1>1, RunIsSeq
<1>3. (\A i \in 1..n : s[i] = a + i - 1) /\ (\A i \in 1..m : t[i] = a + k + i - 1)
  BY DEF Run
<1>4. \A i \in 1..m : k + i \in 1..n
  OBVIOUS
<1>5. \A i \in (k + 1)..n : i \in 1..n
  OBVIOUS
<1> HIDE DEF s, t
<1>6. \A i \in (k + 1)..n : s[i] \in Nat
  BY <1>2, <1>5
<1>7. /\ u \in Seq(Nat)
      /\ Len(u) = IF k + 1 <= n THEN n - (k + 1) + 1 ELSE 0
      /\ \A i \in 1..(n - (k + 1) + 1) : u[i] = s[k + 1 + i - 1]
  BY <1>6, SubSeqProperties
<1>8. Len(u) = m
  BY <1>7
<1> HIDE DEF u
<1>9. \A i \in 1..m : u[i] = t[i]
  <2> SUFFICES ASSUME NEW i \in 1..m PROVE u[i] = t[i]
    OBVIOUS
  <2>1. i \in 1..(n - (k + 1) + 1) /\ k + 1 + i - 1 = k + i /\ k + i \in 1..n
    BY <1>4
  <2>2. u[i] = s[k + i]
    BY <1>7, <2>1
  <2>3. s[k + i] = a + (k + i) - 1
    BY <1>3, <2>1
  <2> QED
    BY <1>3, <2>2, <2>3
<1>10. u = t
  BY <1>2, <1>7, <1>8, <1>9, SeqEqual
<1> QED
  BY <1>10 DEF s, t, u

\* Appending any run of bytes to a sequence of bytes.
LEMMA AppendRun ==
  ASSUME NEW q \in Seq(Nat), NEW a \in Nat, NEW m \in Nat
  PROVE  /\ q \o Run(a, m) \in Seq(Nat)
         /\ Len(q \o Run(a, m)) = Len(q) + m
<1> DEFINE r == Run(a, m)
<1>1. r \in Seq(Nat) /\ Len(r) = m
  BY RunIsSeq
<1> HIDE DEF r
<1>2. q \o r \in Seq(Nat) /\ Len(q \o r) = Len(q) + Len(r)
  BY <1>1, ConcatProperties
<1> QED
  BY <1>1, <1>2 DEF r

\* The fields of buffers.
LEMMA BufferFields ==
  ASSUME NEW b \in Buffer
  PROVE  b.base \in Nat /\ b.idx \in Nat /\ b.len \in Nat
BY DEF Buffer

LEMMA BufFields ==
  ASSUME NEW b \in Nat, NEW i \in Nat, NEW l \in Nat
  PROVE  /\ Buf(b, i, l) \in Buffer
         /\ Buf(b, i, l).base = b
         /\ Buf(b, i, l).idx = i
         /\ Buf(b, i, l).len = l
BY DEF Buf, Buffer

\* The buffer after everything was sent.
LEMMA EmptyFields == Buf(0, 0, 0) \in Buffer /\ Buf(0, 0, 0).len = 0
BY DEF Buf, Buffer

LEMMA RestFields ==
  ASSUME NEW b \in Buffer, NEW s \in 0..b.len
  PROVE  /\ Rest(b, s) \in Buffer
         /\ Rest(b, s).base = b.base
         /\ Rest(b, s).idx = b.idx + s
         /\ Rest(b, s).len = b.len - s
<1>1. b.base \in Nat /\ b.idx + s \in Nat /\ b.len - s \in Nat
  BY BufferFields
<1>2. PICK i \in Nat, l \in Nat : i = b.idx + s /\ l = b.len - s
  BY <1>1
<1>3. PICK a \in Nat : a = b.base
  BY <1>1
<1>4. Rest(b, s) = [base |-> a, idx |-> i, len |-> l]
  BY <1>2, <1>3 DEF Rest, Buf
<1>5. Rest(b, s) \in Buffer
  BY <1>4 DEF Buffer
<1>6. Rest(b, s).base = a /\ Rest(b, s).idx = i /\ Rest(b, s).len = l
  BY <1>4
<1> QED
  BY <1>2, <1>3, <1>5, <1>6

LEMMA WithLenFields ==
  ASSUME NEW b \in Buffer, NEW l \in Nat
  PROVE  /\ WithLen(b, l) \in Buffer
         /\ WithLen(b, l).base = b.base
         /\ WithLen(b, l).idx = b.idx
         /\ WithLen(b, l).len = l
<1>1. b.base \in Nat /\ b.idx \in Nat
  BY BufferFields
<1>2. /\ Buf(b.base, b.idx, l) \in Buffer /\ Buf(b.base, b.idx, l).base = b.base
      /\ Buf(b.base, b.idx, l).idx = b.idx /\ Buf(b.base, b.idx, l).len = l
  BY <1>1, BufFields
<1> QED
  BY <1>2 DEF WithLen

\* Handing on unsent bytes of a buffer.
LEMMA AppendUnsent ==
  ASSUME NEW q \in Seq(Nat), NEW b \in Buffer, NEW m \in Nat
  PROVE  /\ q \o Unsent(b, m) \in Seq(Nat)
         /\ Len(q \o Unsent(b, m)) = Len(q) + m
<1>1. b.base + b.idx \in Nat
  BY BufferFields
<1> QED
  BY <1>1, AppendRun DEF Unsent

\* The unsent part of a buffer ends where it ended, whatever is sent of it.
LEMMA Advance ==
  ASSUME NEW base \in Nat, NEW idx \in Nat, NEW len \in Nat, NEW s \in 0..len,
         NEW first \in Nat, NEW got \in Nat, NEW end \in Nat,
         base + idx = first + got, first + got + len = end
  PROVE  /\ base + (idx + s) = first + (got + s)
         /\ first + (got + s) + (len - s) = end
OBVIOUS
=============================================================================
