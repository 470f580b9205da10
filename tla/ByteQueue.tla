----------------------------- MODULE ByteQueue ------------------------------
(***************************************************************************)
(* What core/StreamBuffer.hpp promises its users: a queue of bytes.  What  *)
(* is put in comes out once, in order, and nothing else does.              *)
(***************************************************************************)
EXTENDS Naturals, Sequences

CONSTANT Byte

VARIABLES
  bytes,     \* what was put in and not taken out
  given      \* what the last call put in

Init == bytes = <<>> /\ given = <<>>

Put(s) ==
  /\ given' = s
  /\ bytes' = bytes \o s

\* The first n bytes are taken out.
Take(n) ==
  /\ given' = <<>>
  /\ bytes' = SubSeq(bytes, n + 1, Len(bytes))

Next ==
  \/ given' \in Seq(Byte) /\ Put(given')
  \/ \E n \in 0..Len(bytes) : Take(n)

Spec == Init /\ [][Next]_<<bytes, given>>
=============================================================================
