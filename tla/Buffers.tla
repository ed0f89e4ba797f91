------------------------------ MODULE Buffers -------------------------------
(***************************************************************************)
(* The buffer_t of encrypt.h as the relays use it.  A byte is named by its *)
(* position in its stream; array[0] of a buffer is byte base, and idx and  *)
(* len are the fields of the code: array[idx .. idx + len - 1] is unsent.  *)
(***************************************************************************)
EXTENDS Integers, Sequences

Buffer == [base : Nat, idx : Nat, len : Nat]

Buf(b, i, l) == [base |-> b, idx |-> i, len |-> l]

\* The n consecutive bytes that start with byte a.
Run(a, n) == [k \in 1..n |-> a + k - 1]

\* The next n bytes send(fd, array + idx, len) takes from a buffer.
Unsent(buf, n) == Run(buf.base + buf.idx, n)

\* A defect for comparison: len shrinks and idx stays.
RestForgetsIdx(buf, s) == Buf(buf.base, buf.idx, buf.len - s)

\* What is left of a buffer after s of its bytes were sent.
Rest(buf, s) == Buf(buf.base, buf.idx + s, buf.len - s)

\* A buffer whose len field is set, its other fields as they were.
WithLen(buf, l) == Buf(buf.base, buf.idx, l)
=============================================================================
