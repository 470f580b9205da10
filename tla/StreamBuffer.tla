---------------------------- MODULE StreamBuffer ----------------------------
(***************************************************************************)
(* core/StreamBuffer.hpp: the bytes a connection has read and not parsed,   *)
(* or was given and has not written.                                       *)
(*                                                                         *)
(* One block of memory; pointers are offsets from _data.  The bytes from    *)
(* head to tail are the contents; what is popped stays in the block until  *)
(* it is overwritten, and memory that was just allocated holds Junk.       *)
(*                                                                         *)
(* append() can write past the end of its block (Overruns).  What happens   *)
(* then is not defined: the model stops there, with overran, and says       *)
(* nothing of what follows.                                                *)
(***************************************************************************)
EXTENDS Integers, Sequences

CONSTANTS
  Byte,          \* the values of a byte
  Junk,          \* the contents of memory nobody wrote
  Size,          \* the constructor's n
  HeadRoom,      \* the constructor's headRoom
  ExtraBuf,      \* the size of readFd()'s second buffer
  MaxCap,        \* bound: no block is longer
  MaxChunk       \* bound: no call brings more bytes

ASSUME JunkAssumption == Junk \notin Byte
ASSUME SizeAssumption == Size \in Nat /\ HeadRoom \in 0..Size
ASSUME ExtraBufAssumption == ExtraBuf \in Nat
ASSUME BoundAssumption == MaxCap \in Nat /\ MaxChunk \in Nat

VARIABLES
  cap,       \* _end
  head,      \* _head
  tail,      \* _tail
  memory,    \* the block at _data
  overran,   \* append() wrote behind _end
  given      \* history: the bytes the last call put in

bufferVars == <<cap, head, tail, memory, overran, given>>

BufferInit ==
  /\ cap = Size
  /\ head = HeadRoom
  /\ tail = HeadRoom
  /\ memory = [i \in 0..(Size - 1) |-> Junk]
  /\ overran = FALSE
  /\ given = <<>>

\* What data() and size() show of a block.
Between(block, from, to) == [i \in 1..(to - from) |-> block[from + i - 1]]
Contents == Between(memory, head, tail)

\* endCapacity(), and what headCapacity() adds when the contents are moved back.
EndRoom == cap - tail
Slack == IF head > HeadRoom THEN head - HeadRoom ELSE 0

\* std::copy() of s into a block.
Copied(s, block, at) ==
  [i \in DOMAIN block |->
     IF at <= i /\ i < at + Len(s) THEN s[i - at + 1] ELSE block[i]]

\* upResize(): a new block; the contents stay at their distance from its start.
Resized(block, from, to, n) ==
  [i \in 0..(n - 1) |-> IF from <= i /\ i < to THEN block[i] ELSE Junk]

\* alignLeft(): the contents move back to HeadRoom.
Aligned == Copied(Contents, memory, HeadRoom)

-----------------------------------------------------------------------------

\* Fault: the tail is not moved before the block grows.
ReadFdGrowsTooSoon(s) ==
  /\ LET room == cap - tail
     IN \/ /\ Len(s) <= room
           /\ memory' = Copied(s, memory, tail)
           /\ tail' = tail + Len(s)
           /\ UNCHANGED cap
        \/ /\ Len(s) > room /\ Len(s) <= room + ExtraBuf
           /\ cap' = cap + (Len(s) - room)
           /\ memory' = Copied(SubSeq(s, room + 1, Len(s)),
                               Resized(memory, head, tail, cap'), tail)
           /\ tail' = tail + (Len(s) - room)
  /\ ~overran /\ cap' <= MaxCap
  /\ given' = s
  /\ UNCHANGED <<head, overran>>

\* readFd(), where readv() returned s: the room behind the contents first, then
\* the buffer on the stack, for which the block grows.
ReadFd(s) ==
  /\ LET room   == cap - tail
         first  == Copied(SubSeq(s, 1, room), memory, tail)
         second == SubSeq(s, room + 1, Len(s))
     IN \/ /\ Len(s) <= room
           /\ memory' = Copied(s, memory, tail)
           /\ tail' = tail + Len(s)
           /\ UNCHANGED cap
        \/ /\ Len(s) > room /\ Len(s) <= room + ExtraBuf
           /\ cap' = cap + Len(second)
           /\ memory' = Copied(second, Resized(first, head, cap, cap'), cap)
           /\ tail' = cap'
  /\ ~overran /\ cap' <= MaxCap
  /\ given' = s
  /\ UNCHANGED <<head, overran>>

\* append() makes its block longer for n more bytes.
Grows(n) == n > EndRoom + Slack

\* The new length allows for contents that begin at HeadRoom; upResize() leaves
\* them at head.
Overruns(n) == Grows(n) /\ head > HeadRoom

\* Fault: the new length has no room for what is in front of the contents.
AppendWithoutHeadRoom(s) ==
  /\ ~overran
  /\ given' = s
  /\ Grows(Len(s)) /\ ~Overruns(Len(s))
  /\ cap' = tail - head + Len(s)
  /\ cap' <= MaxCap
  /\ memory' = Copied(s, Resized(memory, head, tail, cap'), tail)
  /\ tail' = tail + Len(s)
  /\ UNCHANGED <<head, overran>>

\* append() of s, in place, ...
AppendInPlace(s) ==
  /\ ~overran
  /\ given' = s
  /\ head <= HeadRoom /\ ~Grows(Len(s))
  /\ memory' = Copied(s, memory, tail)
  /\ tail' = tail + Len(s)
  /\ UNCHANGED <<cap, head, overran>>

\* ... after alignLeft(), which moves the contents back to HeadRoom, ...
AppendAligned(s) ==
  /\ ~overran
  /\ given' = s
  /\ head > HeadRoom /\ ~Grows(Len(s))
  /\ head' = HeadRoom
  /\ tail' = HeadRoom + (tail - head) + Len(s)
  /\ memory' = Copied(s, Aligned, HeadRoom + (tail - head))
  /\ UNCHANGED <<cap, overran>>

\* ... or in a longer block.
AppendGrown(s) ==
  /\ ~overran
  /\ given' = s
  /\ Grows(Len(s)) /\ ~Overruns(Len(s))
  /\ cap' = HeadRoom + (tail - head) + Len(s)
  /\ cap' <= MaxCap
  /\ memory' = Copied(s, Resized(memory, head, tail, cap'), tail)
  /\ tail' = tail + Len(s)
  /\ UNCHANGED <<head, overran>>

\* The contents, left at head > HeadRoom, and s end behind the new block.
AppendOverrun(s) ==
  /\ ~overran
  /\ Overruns(Len(s))
  /\ overran' = TRUE
  /\ UNCHANGED <<cap, head, tail, memory, given>>

\* popFront(n): an empty buffer starts at HeadRoom again.
PopFront(n) ==
  /\ ~overran
  /\ given' = <<>>
  /\ n <= tail - head
  /\ IF n = tail - head THEN head' = HeadRoom /\ tail' = HeadRoom
                        ELSE head' = head + n /\ UNCHANGED tail
  /\ UNCHANGED <<cap, memory, overran>>

\* popFront() of everything.
PopAll ==
  /\ ~overran
  /\ given' = <<>>
  /\ head' = HeadRoom
  /\ tail' = HeadRoom
  /\ UNCHANGED <<cap, memory, overran>>

AppendBytes(s) ==
  AppendInPlace(s) \/ AppendAligned(s) \/ AppendGrown(s) \/ AppendOverrun(s)

Chunk == UNION {[1..k -> Byte] : k \in 0..MaxChunk}

BufferNext ==
  \/ \E s \in Chunk : ReadFd(s) \/ AppendBytes(s)
  \/ \E n \in 0..(tail - head) : PopFront(n)
  \/ PopAll

BufferSpec == BufferInit /\ [][BufferNext]_bufferVars

-----------------------------------------------------------------------------
(* Properties. *)

\* The contents lie inside the block, behind the head room, and every byte of
\* them was written: after any sequence of reads, appends and pops the two
\* pointers given to write() and to the parser are to bytes somebody sent.
InBounds ==
  /\ HeadRoom <= head /\ head <= tail /\ tail <= cap
  /\ DOMAIN memory = 0..(cap - 1)
  /\ \A i \in head..(tail - 1) : memory[i] \in Byte

\* However the block is moved and lengthened, the buffer is a queue of bytes:
\* the two parts of a read, and what is copied around them, are all there, in
\* their order.
Queue == INSTANCE ByteQueue WITH bytes <- Contents
ImplementsByteQueue == Queue!Spec

\* No call writes behind the block it was given.
NeverOverruns == ~overran
=============================================================================
