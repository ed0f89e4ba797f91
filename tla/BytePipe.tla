------------------------------ MODULE BytePipe ------------------------------
(***************************************************************************)
(* What a relay promises for one direction of one connection, whatever it  *)
(* does inside: a FIFO pipe that never invents, drops, repeats or reorders *)
(* a byte, and that ends in one of two ways.  "finished" means that the    *)
(* source ended its stream and everything taken from it has been handed to *)
(* the sink; "aborted" makes no promise about the bytes still inside.      *)
(*                                                                         *)
(* A byte is named by its position: the pipe carries First, First + 1, ... *)
(***************************************************************************)
EXTENDS Buffers

CONSTANTS First,    \* the name of the first byte of the stream
          Total     \* how many bytes the source may produce

VARIABLES taken,    \* how many bytes were taken from the source
          given,    \* the bytes handed to the sink, in order
          status    \* "open", "finished" or "aborted"

pipeVars == <<taken, given, status>>

PipeInit == /\ taken = 0
            /\ given = <<>>
            /\ status = "open"

\* Take any number of bytes, hand on any of those inside, and keep going or
\* give up.
Relay == /\ status = "open"
         /\ taken' \in taken..Total
         /\ \E n \in Len(given)..taken' : given' = Run(First, n)
         /\ status' \in {"open", "aborted"}

\* The source has ended and nothing is left inside.
Finish == /\ status = "open"
          /\ Len(given) = taken
          /\ status' = "finished"
          /\ UNCHANGED <<taken, given>>

PipeNext == Relay \/ Finish

PipeSpec == PipeInit /\ [][PipeNext]_pipeVars
=============================================================================
