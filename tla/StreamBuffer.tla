---------------------------- MODULE StreamBuffer ----------------------------
(***************************************************************************)
(* The bytes a reader thread keeps of one output stream of a child process *)
(* (commands/exec/pipe.rs): the first HeadLimit, the last TailLimit and    *)
(* the number of bytes between them. A byte is its position in the stream. *)
(***************************************************************************)
EXTENDS Naturals, Sequences

CONSTANTS HeadLimit,  \* KEPT_HEAD_BYTES
          TailLimit   \* KEPT_TAIL_BYTES

ASSUME BufferAssumption == HeadLimit \in Nat /\ TailLimit \in Nat

Least(x, y) == IF x < y THEN x ELSE y

(* usize::saturating_sub *)
SaturatingSub(x, y) == IF x > y THEN x - y ELSE 0

Empty == [head |-> <<>>, tail |-> <<>>, dropped |-> 0, taken |-> FALSE]

(* The bytes from position i to position k of a stream. *)
Bytes(i, k) == [n \in 1 .. SaturatingSub(k + 1, i) |-> i + n - 1]

(* Mutant of Push: a full tail keeps its oldest bytes. *)
PushKeepsOldest(buf, bytes) ==
    LET split == Least(HeadLimit - Len(buf.head), Len(bytes))
        long  == buf.tail \o SubSeq(bytes, split + 1, Len(bytes))
        kept  == Least(TailLimit, Len(long))
    IN  IF buf.taken THEN buf
        ELSE [buf EXCEPT !.head = @ \o SubSeq(bytes, 1, split),
                         !.tail = SubSeq(long, 1, kept),
                         !.dropped = @ + Len(long) - kept]

(* StreamBuffer::push *)
Push(buf, bytes) ==
    LET room   == HeadLimit - Len(buf.head)
        split  == Least(room, Len(bytes))
        long   == buf.tail \o SubSeq(bytes, split + 1, Len(bytes))
        excess == SaturatingSub(Len(long), TailLimit)
    IN  IF buf.taken THEN buf
        ELSE [buf EXCEPT !.head = @ \o SubSeq(bytes, 1, split),
                         !.tail = SubSeq(long, excess + 1, Len(long)),
                         !.dropped = @ + excess]

(* StreamBuffer::take: the buffer afterwards, and KeptOutput. *)
Taken(buf) == [buf EXCEPT !.head = <<>>, !.tail = <<>>, !.taken = TRUE]

Kept(buf) == [head |-> buf.head, dropped |-> buf.dropped, tail |-> buf.tail]

(* What commands.md says is kept of a stream of n bytes: all of a short one,
   else its start, its end and the count of the rest. *)
Window(n) ==
    LET rest == SaturatingSub(n, HeadLimit)
    IN  [head |-> Bytes(1, Least(n, HeadLimit)),
         dropped |-> SaturatingSub(rest, TailLimit),
         tail |-> Bytes(n + 1 - Least(rest, TailLimit), n)]

=============================================================================
