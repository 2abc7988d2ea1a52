----------------------------- MODULE ExecProofs -----------------------------
(***************************************************************************)
(* The safety properties of Exec, proved for every set of pipes, every     *)
(* amount of output, size of the pipes and of the kept head and tail, and  *)
(* every timeout and deadline.                                             *)
(***************************************************************************)
EXTENDS Exec, SequenceTheorems, TLAPS

(* The buffer of a reader that has pushed n bytes, before it is taken. *)
Holding(n) ==
    [head |-> Window(n).head, tail |-> Window(n).tail, dropped |-> Window(n).dropped,
     taken |-> FALSE]

(* A pipe: nothing is read that was not written, the child keeps its end open,
   and a reader that has reported the end has read all there will ever be. *)
PipeInv(p) ==
    /\ written[p] \in Nat /\ read[p] \in 0 .. written[p]
    /\ child = "running" => "child" \in holders[p]
    /\ reader[p] = "ok" => child # "none" /\ holders[p] = {} /\ read[p] = written[p]
    /\ polled[p] => reader[p] = "ok"

(* Its buffer holds the window of what was read until it is taken, which happens
   after the last poll; what was taken is the window of some prefix. *)
BufferInv(p) ==
    \/ buffer[p] = Holding(read[p])
    \/ /\ buffer[p].taken /\ pc \in {"take", "returned"}
       /\ \E n \in 0 .. read[p] : kept[p] = Window(n)
       /\ polled[p] => kept[p] = Window(written[p])

(* The child is reaped once, by try_wait or after the one kill. *)
ChildInv ==
    /\ child \in {"none", "running"} \cup Status
    /\ exit \in {"none"} \cup Status
    /\ child = "none" <=> pc = "spawn" \/ (pc = "returned" /\ waited = "not_started")
    /\ waited = "not_started" => pc = "returned"
    /\ exit # "none" => reaped
    /\ reaped => child \in Status /\ (exit # "none" \/ pc \in {"take", "returned"})
    /\ pc \in {"take", "returned"} /\ child # "none" => reaped
    /\ pc \in {"spawn", "try_wait", "poll", "stop"} => kills = 0
    /\ pc = "returned" /\ waited # "not_started" => \A p \in Pipe : buffer[p].taken

LimitInv ==
    /\ now \in Nat /\ timeout \in Nat /\ deadline \in Nat \cup {NoLimit}
    /\ child # "none" => limit = WaitLimit(timeout, deadline)
    /\ waited = "timeout" => child # "none" /\ LimitOver

TypeInv ==
    /\ pc \in {"spawn", "try_wait", "poll", "stop", "reap", "take", "returned"}
    /\ written \in [Pipe -> Nat] /\ read \in [Pipe -> Nat] /\ polled \in [Pipe -> BOOLEAN]
    /\ reader \in [Pipe -> {"reading", "ok", "error"}]
    /\ holders \in [Pipe -> SUBSET {"child", "background"}]
    /\ DOMAIN buffer = Pipe /\ DOMAIN kept = Pipe
    /\ buffer = [p \in Pipe |-> buffer[p]] /\ kept = [p \in Pipe |-> kept[p]]

IInv ==
    /\ TypeInv /\ ChildInv /\ LimitInv
    /\ \A p \in Pipe : PipeInv(p) /\ BufferInv(p)

-----------------------------------------------------------------------------
(* Pieces of a stream. *)

LEMMA BytesProperties ==
    ASSUME NEW i \in Nat \ {0}, NEW k \in Nat
    PROVE  /\ Bytes(i, k) \in Seq(Nat)
           /\ Len(Bytes(i, k)) = SaturatingSub(k + 1, i)
           /\ SaturatingSub(k + 1, i) \in Nat
           /\ \A n \in 1 .. SaturatingSub(k + 1, i) : Bytes(i, k)[n] = i + n - 1
  <1> DEFINE len == SaturatingSub(k + 1, i)
  <1>1. len \in Nat
    BY DEF SaturatingSub
  <1>2. \A n \in 1 .. len : i + n - 1 \in Nat
    BY <1>1
  <1>. QED
    BY <1>1, <1>2 DEF Bytes

LEMMA BytesConcat ==
    ASSUME NEW i \in Nat \ {0}, NEW j \in Nat, NEW k \in Nat, i <= j + 1, j <= k
    PROVE  Bytes(i, j) \o Bytes(j + 1, k) = Bytes(i, k)
  <1> DEFINE a == Bytes(i, j) b == Bytes(j + 1, k) c == Bytes(i, k)
  <1>0. /\ SaturatingSub(j + 1, i) = j + 1 - i /\ SaturatingSub(k + 1, j + 1) = k - j
        /\ SaturatingSub(k + 1, i) = k + 1 - i /\ j + 1 \in Nat \ {0}
    BY DEF SaturatingSub
  <1>1. a \in Seq(Nat) /\ Len(a) = j + 1 - i /\ \A n \in 1 .. j + 1 - i : a[n] = i + n - 1
    BY <1>0, BytesProperties
  <1>2. b \in Seq(Nat) /\ Len(b) = k - j /\ \A n \in 1 .. k - j : b[n] = j + 1 + n - 1
    BY <1>0, BytesProperties
  <1>3. c \in Seq(Nat) /\ Len(c) = k + 1 - i /\ \A n \in 1 .. k + 1 - i : c[n] = i + n - 1
    BY <1>0, BytesProperties
  <1> HIDE DEF a, b, c
  <1>4. /\ a \o b \in Seq(Nat) /\ Len(a \o b) = Len(a) + Len(b)
        /\ \A n \in 1 .. Len(a) + Len(b) : (a \o b)[n] = IF n <= Len(a) THEN a[n] ELSE b[n - Len(a)]
    BY <1>1, <1>2, ConcatProperties
  <1>5. Len(a \o b) = Len(c)
    BY <1>1, <1>2, <1>3, <1>4
  <1>6. ASSUME NEW n \in 1 .. Len(c) PROVE (a \o b)[n] = c[n]
    <2>1. n \in Nat /\ 1 <= n /\ n <= k + 1 - i /\ n \in 1 .. Len(a) + Len(b)
      BY <1>1, <1>2, <1>3
    <2>2. (a \o b)[n] = IF n <= Len(a) THEN a[n] ELSE b[n - Len(a)]
      BY <1>4, <2>1
    <2>3. CASE n <= Len(a)
      BY <1>1, <1>3, <2>1, <2>2, <2>3
    <2>4. CASE n > Len(a)
      <3>1. n - Len(a) \in 1 .. k - j
        BY <1>1, <2>1, <2>4
      <3>2. b[n - Len(a)] = j + 1 + (n - Len(a)) - 1
        BY <1>2, <3>1
      <3>. QED
        BY <1>1, <1>3, <2>1, <2>2, <2>4, <3>2
    <2>. QED
      BY <1>1, <2>1, <2>3, <2>4
  <1>7. a \o b = c
    BY <1>3, <1>4, <1>5, <1>6, SeqEqual
  <1>. QED
    BY <1>7 DEF a, b, c

LEMMA BytesSub ==
    ASSUME NEW i \in Nat \ {0}, NEW k \in Nat, NEW x \in Nat \ {0}, NEW y \in Nat,
           x <= y + 1, i + y <= k + 1
    PROVE  SubSeq(Bytes(i, k), x, y) = Bytes(i + x - 1, i + y - 1)
  <1> DEFINE a == Bytes(i, k) b == Bytes(i + x - 1, i + y - 1)
  <1>0. /\ SaturatingSub(k + 1, i) = k + 1 - i
        /\ SaturatingSub(i + y - 1 + 1, i + x - 1) = y + 1 - x
        /\ i + x - 1 \in Nat \ {0} /\ i + y - 1 \in Nat
    BY DEF SaturatingSub
  <1>1. a \in Seq(Nat) /\ \A n \in 1 .. k + 1 - i : a[n] = i + n - 1
    BY <1>0, BytesProperties
  <1>2. /\ b \in Seq(Nat) /\ Len(b) = y + 1 - x
        /\ \A n \in 1 .. y + 1 - x : b[n] = i + x - 1 + n - 1
    BY <1>0, BytesProperties
  <1> HIDE DEF a, b
  <1>3. \A n \in x .. y : a[n] \in Nat
    BY <1>1
  <1>4. /\ SubSeq(a, x, y) \in Seq(Nat) /\ Len(SubSeq(a, x, y)) = y + 1 - x
        /\ \A n \in 1 .. y - x + 1 : SubSeq(a, x, y)[n] = a[x + n - 1]
    BY <1>3, SubSeqProperties
  <1>5. ASSUME NEW n \in 1 .. y + 1 - x PROVE SubSeq(a, x, y)[n] = b[n]
    <2>1. x + n - 1 \in 1 .. k + 1 - i /\ n \in 1 .. y - x + 1
      OBVIOUS
    <2>2. SubSeq(a, x, y)[n] = a[x + n - 1] /\ a[x + n - 1] = i + (x + n - 1) - 1
      BY <1>1, <1>4, <2>1
    <2>. QED
      BY <1>2, <2>2
  <1>6. SubSeq(a, x, y) = b
    BY <1>2, <1>4, <1>5, SeqEqual
  <1>. QED
    BY <1>6 DEF a, b

(* An empty piece is the empty sequence, wherever it is. *)
LEMMA BytesEmpty ==
    ASSUME NEW i \in Nat \ {0}, NEW k \in Nat, k < i
    PROVE  Bytes(i, k) = <<>>
  <1>1. Bytes(i, k) \in Seq(Nat) /\ Len(Bytes(i, k)) = 0
    BY BytesProperties DEF SaturatingSub
  <1>. QED
    BY <1>1, EmptySeq

LEMMA LeastProperties ==
    ASSUME NEW x \in Nat, NEW y \in Nat
    PROVE  /\ Least(x, y) \in Nat /\ Least(x, y) <= x /\ Least(x, y) <= y
           /\ Least(x, y) = x \/ Least(x, y) = y
           /\ SaturatingSub(x, y) \in Nat /\ SaturatingSub(x, y) = x - Least(x, y)
  BY DEF Least, SaturatingSub

(* The head and the tail of a buffer that holds n bytes. *)
LEMMA HoldingParts ==
    ASSUME NEW n \in Nat
    PROVE  /\ Holding(n).head = Bytes(1, Least(n, HeadLimit))
           /\ Len(Holding(n).head) = Least(n, HeadLimit)
           /\ Holding(n).tail = Bytes(n + 1 - Least(SaturatingSub(n, HeadLimit), TailLimit), n)
           /\ Holding(n).dropped = SaturatingSub(SaturatingSub(n, HeadLimit), TailLimit)
           /\ Holding(n).taken = FALSE
  <1>1. /\ Holding(n).head = Bytes(1, Least(n, HeadLimit))
        /\ Holding(n).tail = Bytes(n + 1 - Least(SaturatingSub(n, HeadLimit), TailLimit), n)
        /\ Holding(n).dropped = SaturatingSub(SaturatingSub(n, HeadLimit), TailLimit)
        /\ Holding(n).taken = FALSE
    BY DEF Holding, Window
  <1>2. Least(n, HeadLimit) \in Nat
    BY BufferAssumption, LeastProperties
  <1>3. SaturatingSub(Least(n, HeadLimit) + 1, 1) = Least(n, HeadLimit)
    BY <1>2 DEF SaturatingSub
  <1>. QED
    BY <1>1, <1>2, <1>3, BytesProperties

(* The parts of what push makes of it: the head takes what it has room for, the
   rest goes behind the tail, whose oldest bytes are dropped. *)
LEMMA HeadGrows ==
    ASSUME NEW n \in Nat, NEW m \in Nat, n < m, NEW split \in Nat,
           split = Least(HeadLimit - Least(n, HeadLimit), m - n)
    PROVE  /\ split \in 0 .. m - n
           /\ Bytes(1, Least(n, HeadLimit)) \o SubSeq(Bytes(n + 1, m), 1, split)
                = Bytes(1, Least(m, HeadLimit))
           /\ SubSeq(Bytes(n + 1, m), split + 1, m - n) = Bytes(n + split + 1, m)
           /\ split # 0 => n < HeadLimit /\ n + split = Least(m, HeadLimit)
           /\ split = 0 => n >= HeadLimit
  <1> DEFINE h == Least(n, HeadLimit)  k == Least(m, HeadLimit)
  <1>1. split \in 0 .. m - n /\ split = k - h /\ k \in Nat /\ h \in Nat
    BY BufferAssumption DEF Least
  <1>2. /\ split # 0 => n < HeadLimit /\ n + split = k /\ h = n
        /\ split = 0 => n >= HeadLimit
    BY BufferAssumption, <1>1 DEF Least
  <1> HIDE DEF h, k
  <1>3. SubSeq(Bytes(n + 1, m), 1, split) = Bytes(n + 1, n + split)
    <2>1. PICK i \in Nat \ {0}, x \in Nat \ {0} : i = n + 1 /\ x = 1
      OBVIOUS
    <2>2. SubSeq(Bytes(i, m), x, split) = Bytes(i + x - 1, i + split - 1)
      <3>1. x <= split + 1 /\ i + split <= m + 1
        BY <1>1, <2>1
      <3>. QED
        BY <3>1, BytesSub
    <2>3. i + x - 1 = n + 1 /\ i + split - 1 = n + split
      BY <2>1
    <2>. QED
      BY <2>1, <2>2, <2>3
  <1>4. SubSeq(Bytes(n + 1, m), split + 1, m - n) = Bytes(n + split + 1, m)
    <2>1. PICK i \in Nat \ {0}, x \in Nat \ {0}, y \in Nat :
             i = n + 1 /\ x = split + 1 /\ y = m - n
      OBVIOUS
    <2>2. SubSeq(Bytes(i, m), x, y) = Bytes(i + x - 1, i + y - 1)
      <3>1. x <= y + 1 /\ i + y <= m + 1
        BY <1>1, <2>1
      <3>. QED
        BY <3>1, BytesSub
    <2>3. i + x - 1 = n + split + 1 /\ i + y - 1 = m
      BY <2>1
    <2>. QED
      BY <2>1, <2>2, <2>3
  <1>5. Bytes(1, h) \o Bytes(n + 1, n + split) = Bytes(1, k)
    <2>1. CASE split = 0
      <3>1. Bytes(n + 1, n + split) = <<>>
        BY <2>1, BytesEmpty
      <3>2. Bytes(1, h) \in Seq(Nat) /\ h = k
        BY <1>1, <2>1, BytesProperties
      <3>. QED
        BY <3>1, <3>2, ConcatEmptySeq
    <2>2. CASE split # 0
      <3>1. Bytes(1, n) \o Bytes(n + 1, n + split) = Bytes(1, n + split)
        <4>1. PICK k1 \in Nat : k1 = n + split
          OBVIOUS
        <4>2. 1 \in Nat \ {0} /\ 1 <= n + 1 /\ n <= k1
          BY <4>1
        <4>. QED
          BY <4>1, <4>2, BytesConcat
      <3>. QED
        BY <1>2, <2>2, <3>1
    <2>. QED
      BY <2>1, <2>2
  <1>. QED
    BY <1>1, <1>2, <1>3, <1>4, <1>5 DEF h, k

LEMMA TailGrows ==
    ASSUME NEW n \in Nat, NEW m \in Nat, n < m, NEW split \in 0 .. m - n,
           split # 0 => n < HeadLimit /\ n + split = Least(m, HeadLimit),
           split = 0 => n >= HeadLimit
    PROVE  \E a \in Nat \ {0} :
              /\ a <= m + 1
              /\ Bytes(n + 1 - Least(SaturatingSub(n, HeadLimit), TailLimit), n)
                    \o Bytes(n + split + 1, m) = Bytes(a, m)
              /\ m + 1 - a = SaturatingSub(m, HeadLimit)
                               - SaturatingSub(SaturatingSub(n, HeadLimit), TailLimit)
  <1> DEFINE kept0 == Least(SaturatingSub(n, HeadLimit), TailLimit)
  <1>1. CASE split # 0
    <2>1. kept0 = 0 /\ SaturatingSub(SaturatingSub(n, HeadLimit), TailLimit) = 0
          /\ m + 1 - (n + split + 1) = SaturatingSub(m, HeadLimit)
          /\ n + split + 1 \in Nat \ {0}
      BY BufferAssumption, <1>1 DEF Least, SaturatingSub
    <2>2. Bytes(n + 1 - kept0, n) = <<>> /\ Bytes(n + split + 1, m) \in Seq(Nat)
      <3>1. PICK i \in Nat \ {0} : i = n + 1 - kept0 /\ n < i
        BY <2>1
      <3>2. Bytes(i, n) = <<>>
        BY <3>1, BytesEmpty
      <3>. QED
        BY <2>1, <3>1, <3>2, BytesProperties
    <2>3. Bytes(n + 1 - kept0, n) \o Bytes(n + split + 1, m) = Bytes(n + split + 1, m)
      BY <2>2, ConcatEmptySeq
    <2> HIDE DEF kept0
    <2>4. PICK a \in Nat \ {0} : a = n + split + 1
      OBVIOUS
    <2>5. a <= m + 1
      BY <2>4
    <2>6. m + 1 - a = SaturatingSub(m, HeadLimit)
                       - SaturatingSub(SaturatingSub(n, HeadLimit), TailLimit)
      BY <2>1, <2>4
    <2>7. Bytes(n + 1 - kept0, n) \o Bytes(n + split + 1, m) = Bytes(a, m)
      BY <2>3, <2>4
    <2>. QED
      BY <2>5, <2>6, <2>7 DEF kept0
  <1>2. CASE split = 0
    <2>1. /\ n + 1 - kept0 \in Nat \ {0} /\ n + 1 - kept0 <= n + 1
          /\ m + 1 - (n + 1 - kept0) = SaturatingSub(m, HeadLimit)
                               - SaturatingSub(SaturatingSub(n, HeadLimit), TailLimit)
      BY BufferAssumption, <1>2 DEF Least, SaturatingSub
    <2> HIDE DEF kept0
    <2>2. Bytes(n + 1 - kept0, n) \o Bytes(n + 1, m) = Bytes(n + 1 - kept0, m)
      <3>1. PICK i \in Nat \ {0} : i = n + 1 - kept0 /\ i <= n + 1
        BY <2>1
      <3>2. n <= m
        OBVIOUS
      <3>3. Bytes(i, n) \o Bytes(n + 1, m) = Bytes(i, m)
        BY <3>1, <3>2, BytesConcat
      <3>. QED
        BY <3>1, <3>3
    <2>3. n + split + 1 = n + 1
      BY <1>2
    <2>4. PICK a \in Nat \ {0} : a = n + 1 - kept0
      BY <2>1
    <2>5. a <= m + 1
      BY <2>1, <2>4
    <2>6. m + 1 - a = SaturatingSub(m, HeadLimit)
                       - SaturatingSub(SaturatingSub(n, HeadLimit), TailLimit)
      BY <2>1, <2>4
    <2>7. Bytes(n + 1 - kept0, n) \o Bytes(n + split + 1, m) = Bytes(a, m)
      BY <2>2, <2>3, <2>4
    <2>. QED
      BY <2>5, <2>6, <2>7 DEF kept0
  <1>. QED
    BY <1>1, <1>2

(* StreamBuffer::push of the next bytes of the stream, whatever their number:
   the window of n bytes becomes that of m. *)
LEMMA PushMovesWindow ==
    ASSUME NEW n \in Nat, NEW m \in Nat, n < m
    PROVE  Push(Holding(n), Bytes(n + 1, m)) = Holding(m)
  <1> DEFINE buf == Holding(n)  new == Bytes(n + 1, m)
  <1>1. Len(new) = m - n
    <2>1. SaturatingSub(m + 1, n + 1) = m - n
      BY DEF SaturatingSub
    <2>2. PICK i \in Nat \ {0} : i = n + 1
      OBVIOUS
    <2>. QED
      BY <2>1, <2>2, BytesProperties
  <1>2. PICK split \in Nat : split = Least(HeadLimit - Least(n, HeadLimit), m - n)
    <2>1. Least(HeadLimit - Least(n, HeadLimit), m - n) \in Nat
      BY BufferAssumption DEF Least
    <2>. QED
      BY <2>1
  <1>3. PICK a \in Nat \ {0} :
              /\ a <= m + 1
              /\ buf.tail \o SubSeq(new, split + 1, m - n) = Bytes(a, m)
              /\ m + 1 - a = SaturatingSub(m, HeadLimit)
                               - SaturatingSub(SaturatingSub(n, HeadLimit), TailLimit)
    <2>1. /\ split \in 0 .. m - n
          /\ SubSeq(new, split + 1, m - n) = Bytes(n + split + 1, m)
          /\ split # 0 => n < HeadLimit /\ n + split = Least(m, HeadLimit)
          /\ split = 0 => n >= HeadLimit
      BY <1>2, HeadGrows
    <2>2. buf.tail = Bytes(n + 1 - Least(SaturatingSub(n, HeadLimit), TailLimit), n)
      BY HoldingParts
    <2>. QED
      BY <2>1, <2>2, TailGrows
  <1>4. PICK excess \in Nat : excess = SaturatingSub(m + 1 - a, TailLimit)
    <2>1. SaturatingSub(m + 1 - a, TailLimit) \in Nat
      BY BufferAssumption, <1>3 DEF SaturatingSub
    <2>. QED
      BY <2>1
  <1>5. Len(Bytes(a, m)) = m + 1 - a
    <2>1. SaturatingSub(m + 1, a) = m + 1 - a
      BY <1>3 DEF SaturatingSub
    <2>. QED
      BY <2>1, BytesProperties
  <1>6. Push(buf, new) = [head |-> buf.head \o SubSeq(new, 1, split),
                          tail |-> SubSeq(Bytes(a, m), excess + 1, m + 1 - a),
                          dropped |-> buf.dropped + excess,
                          taken |-> FALSE]
    <2>1. Push(buf, new) =
             [buf EXCEPT !.head = @ \o SubSeq(new, 1, split),
                         !.tail = SubSeq(Bytes(a, m), excess + 1, m + 1 - a),
                         !.dropped = @ + excess]
      BY <1>1, <1>2, <1>3, <1>4, <1>5, HoldingParts DEF Push
    <2>. QED
      BY <2>1 DEF Holding
  <1>7. /\ SubSeq(Bytes(a, m), excess + 1, m + 1 - a) = Bytes(a + excess, m)
        /\ a + excess = m + 1 - Least(SaturatingSub(m, HeadLimit), TailLimit)
        /\ buf.dropped + excess = SaturatingSub(SaturatingSub(m, HeadLimit), TailLimit)
    <2>1. excess + 1 <= m + 1 - a + 1
      BY BufferAssumption, <1>3, <1>4 DEF SaturatingSub
    <2>2. PICK x \in Nat \ {0}, y \in Nat : x = excess + 1 /\ y = m + 1 - a
      BY <1>3
    <2>3. SubSeq(Bytes(a, m), x, y) = Bytes(a + excess, m)
      <3>1. x <= y + 1 /\ a + y <= m + 1
        BY <2>1, <2>2
      <3>2. SubSeq(Bytes(a, m), x, y) = Bytes(a + x - 1, a + y - 1)
        BY <3>1, BytesSub
      <3>3. a + x - 1 = a + excess /\ a + y - 1 = m
        BY <2>2
      <3>. QED
        BY <3>2, <3>3
    <2>4. /\ a + excess = m + 1 - Least(SaturatingSub(m, HeadLimit), TailLimit)
          /\ SaturatingSub(SaturatingSub(n, HeadLimit), TailLimit) + excess
                = SaturatingSub(SaturatingSub(m, HeadLimit), TailLimit)
      BY BufferAssumption, <1>3, <1>4 DEF SaturatingSub, Least
    <2>. QED
      BY <2>2, <2>3, <2>4, HoldingParts
  <1>8. buf.head \o SubSeq(new, 1, split) = Bytes(1, Least(m, HeadLimit))
    <2>1. buf.head = Bytes(1, Least(n, HeadLimit))
      BY HoldingParts
    <2>2. Bytes(1, Least(n, HeadLimit)) \o SubSeq(new, 1, split) = Bytes(1, Least(m, HeadLimit))
      BY <1>2, HeadGrows
    <2>. QED
      BY <2>1, <2>2
  <1>. QED
    BY <1>6, <1>7, <1>8 DEF Holding, Window

(* wait_limit gives one of the limits there are, and none is earlier. *)
LEMMA WaitLimitIsEarliest ==
    ASSUME NEW t \in Nat, NEW d \in Nat \cup {NoLimit}, WaitLimit(t, d) # NoLimit
    PROVE  LET l == WaitLimit(t, d) IN
           /\ l.at \in Nat
           /\ (l.at = t /\ t > 0) \/ (l.at = d /\ d # NoLimit)
           /\ t > 0 => l.at <= t
           /\ d # NoLimit => l.at <= d
           /\ l.seconds = IF l.of = "timeout" THEN t ELSE d
  <1>1. CASE t > 0 /\ d # NoLimit
    BY <1>1 DEF WaitLimit
  <1>2. CASE t > 0 /\ d = NoLimit
    BY <1>2 DEF WaitLimit
  <1>3. CASE t = 0 /\ d # NoLimit
    BY <1>3 DEF WaitLimit
  <1>4. ASSUME t = 0, d = NoLimit PROVE FALSE
    <2>1. WaitLimit(t, d) = NoLimit
      BY <1>4 DEF WaitLimit
    <2>. QED
      BY <2>1
  <1>. QED
    BY <1>1, <1>2, <1>3, <1>4

LEMMA EmptyIsHolding == Empty = Holding(0)
  <1>1. /\ Least(0, HeadLimit) = 0 /\ SaturatingSub(0, HeadLimit) = 0
        /\ Least(0, TailLimit) = 0 /\ SaturatingSub(0, TailLimit) = 0
    BY BufferAssumption DEF Least, SaturatingSub
  <1>2. Window(0) = [head |-> Bytes(1, 0), dropped |-> 0, tail |-> Bytes(0 + 1 - 0, 0)]
    BY <1>1 DEF Window
  <1>3. PICK i \in Nat \ {0}, k \in Nat : i = 1 /\ k = 0
    OBVIOUS
  <1>4. Bytes(i, k) = <<>>
    BY <1>3, BytesEmpty
  <1>5. 0 + 1 - 0 = 1
    OBVIOUS
  <1>6. Window(0) = [head |-> <<>>, dropped |-> 0, tail |-> <<>>]
    BY <1>2, <1>3, <1>4, <1>5
  <1>. QED
    <2>1. Window(0).head = <<>> /\ Window(0).tail = <<>> /\ Window(0).dropped = 0
      BY <1>6
    <2>. QED
      BY <2>1 DEF Empty, Holding

LEMMA HoldingIsKept ==
    ASSUME NEW n
    PROVE  Kept(Holding(n)) = Window(n) /\ Holding(n).taken = FALSE
  BY DEF Kept, Holding, Window

-----------------------------------------------------------------------------
(* The inductive invariant. *)

LEMMA InductiveInit == Init => IInv
  <1> SUFFICES ASSUME Init PROVE IInv
    OBVIOUS
  <1>1. TypeInv
    BY DEF Init, TypeInv
  <1>2. ChildInv
    BY DEF Init, ChildInv, Status
  <1>3. LimitInv
    BY ExecAssumption DEF Init, LimitInv
  <1>4. ASSUME NEW p \in Pipe PROVE PipeInv(p) /\ BufferInv(p)
    BY EmptyIsHolding DEF Init, PipeInv, BufferInv
  <1>. QED
    BY <1>1, <1>2, <1>3, <1>4 DEF IInv

(* The processes: a write, a background process, the end of the child. *)
LEMMA ProcessKeeps ==
    ASSUME IInv,
           \/ \E p \in Pipe, w \in {"child", "background"} : Write(p, w)
           \/ StartBackground \/ BackgroundEnds \/ ChildExits
    PROVE  IInv'
  <1>1. /\ UNCHANGED <<pc, limit, drainOver, reaped, exit, polled, waited, kept, kills>>
        /\ UNCHANGED readers /\ UNCHANGED world /\ UNCHANGED fixed
    BY DEF Write, StartBackground, BackgroundEnds, ChildExits
  <1>2. /\ UNCHANGED <<read, buffer, reader, now, timeout, deadline>>
    BY <1>1 DEF readers, world, fixed
  <1>3. child' = child \/ (child = "running" /\ child' \in Status)
    BY DEF Write, StartBackground, BackgroundEnds, ChildExits, ChildGone, Status
  <1>4. ASSUME NEW p \in Pipe
        PROVE  /\ written'[p] \in Nat /\ written'[p] >= written[p]
               /\ child' = "running" => "child" \in holders'[p]
               /\ child # "none" /\ holders[p] = {} => holders'[p] = {} /\ written'[p] = written[p]
    <2>1. written[p] \in Nat /\ (child = "running" => "child" \in holders[p])
      BY DEF IInv, PipeInv
    <2>2. ASSUME NEW q \in Pipe, NEW w, Write(q, w)
          PROVE  /\ written'[p] \in Nat /\ written'[p] >= written[p] /\ holders' = holders
                 /\ child' = child /\ (holders[p] = {} => written'[p] = written[p])
      <3>1. /\ w \in holders[q] /\ holders' = holders /\ child' = child
            /\ written' = [written EXCEPT ![q] = written[q] + 1]
        BY <2>2 DEF Write
      <3>2. CASE p = q
        BY <2>1, <3>1, <3>2 DEF IInv, TypeInv
      <3>3. CASE p # q
        BY <2>1, <3>1, <3>3 DEF IInv, TypeInv
      <3>. QED
        BY <3>2, <3>3
    <2>3. CASE StartBackground
      BY <2>1, <2>3 DEF StartBackground
    <2>4. CASE BackgroundEnds
      BY <2>1, <2>4 DEF BackgroundEnds
    <2>5. CASE ChildExits
      BY <2>1, <2>5 DEF ChildExits, ChildGone
    <2>. QED
      BY <2>1, <2>2, <2>3, <2>4, <2>5
  <1>5. TypeInv'
    <2>1. holders' \in [Pipe -> SUBSET {"child", "background"}] /\ written' \in [Pipe -> Nat]
      <3>1. holders \in [Pipe -> SUBSET {"child", "background"}] /\ written \in [Pipe -> Nat]
        BY DEF IInv, TypeInv
      <3>. QED
        BY <3>1 DEF Write, StartBackground, BackgroundEnds, ChildExits, ChildGone
    <2>. QED
      BY <1>1, <1>2, <2>1 DEF IInv, TypeInv
  <1>6. ChildInv'
    BY <1>1, <1>2, <1>3 DEF IInv, ChildInv, Status
  <1>7. LimitInv'
    BY <1>1, <1>2, <1>3 DEF IInv, LimitInv, LimitOver, Status
  <1>8. ASSUME NEW p \in Pipe PROVE PipeInv(p)' /\ BufferInv(p)'
    <2>1. PipeInv(p)'
      BY <1>1, <1>2, <1>3, <1>4 DEF IInv, PipeInv, Status
    <2>2. polled[p] => written'[p] = written[p]
      BY <1>4 DEF IInv, PipeInv
    <2>3. BufferInv(p)'
      BY <1>1, <1>2, <2>2 DEF IInv, BufferInv
    <2>. QED
      BY <2>1, <2>3
  <1>. QED
    BY <1>5, <1>6, <1>7, <1>8 DEF IInv

(* The reader threads. *)
LEMMA ReadKeeps ==
    ASSUME IInv, NEW p \in Pipe, Read(p)
    PROVE  IInv'
  <1>1. PICK n \in read[p] + 1 .. written[p] :
           /\ read' = [read EXCEPT ![p] = n]
           /\ buffer' = [buffer EXCEPT ![p] = Push(buffer[p], Bytes(read[p] + 1, n))]
    BY DEF Read
  <1>2. /\ UNCHANGED <<pc, limit, reaped, exit, reader, polled, waited, kept, kills, child, holders,
                        written, now, timeout, deadline>>
        /\ reader[p] = "reading"
    BY DEF Read, process, world, fixed
  <1>3. /\ read[p] \in Nat /\ n \in Nat /\ read[p] < n /\ n <= written[p] /\ written[p] \in Nat
    BY <1>1 DEF IInv, PipeInv
  <1>4. TypeInv'
    BY <1>1, <1>2, <1>3 DEF IInv, TypeInv
  <1>5. buffer'[p] = (IF buffer[p].taken THEN buffer[p] ELSE Holding(n))
    <2>1. buffer'[p] = Push(buffer[p], Bytes(read[p] + 1, n))
      BY <1>1 DEF IInv, TypeInv
    <2>2. CASE buffer[p].taken
      BY <2>1, <2>2 DEF Push
    <2>3. CASE ~buffer[p].taken
      <3>1. buffer[p] = Holding(read[p])
        BY <2>3 DEF IInv, BufferInv
      <3>. QED
        BY <1>3, <2>1, <2>3, <3>1, PushMovesWindow
    <2>. QED
      BY <2>2, <2>3
  <1>6. ASSUME NEW q \in Pipe, q # p PROVE read'[q] = read[q] /\ buffer'[q] = buffer[q]
    BY <1>1, <1>6 DEF IInv, TypeInv
  <1>7. read'[p] = n /\ \A q \in Pipe : buffer[q].taken => buffer'[q].taken
    BY <1>1, <1>5, <1>6 DEF IInv, TypeInv
  <1>8. ChildInv'
    BY <1>2, <1>7 DEF IInv, ChildInv
  <1>9. LimitInv'
    BY <1>2 DEF IInv, LimitInv, LimitOver
  <1>10. ASSUME NEW q \in Pipe PROVE PipeInv(q)' /\ BufferInv(q)'
    <2>1. CASE q # p
      BY <1>2, <1>6, <2>1 DEF IInv, PipeInv, BufferInv
    <2>2. PipeInv(p)'
      BY <1>2, <1>3, <1>7 DEF IInv, PipeInv
    <2>3. BufferInv(p)'
      <3>1. CASE ~buffer[p].taken
        BY <1>5, <1>7, <3>1 DEF BufferInv
      <3>2. CASE buffer[p].taken
        <4>1. buffer[p] # Holding(read[p])
          BY <3>2, HoldingIsKept
        <4>2. /\ pc \in {"take", "returned"}
              /\ polled[p] => kept[p] = Window(written[p])
              /\ \E k \in 0 .. read[p] : kept[p] = Window(k)
          BY <4>1 DEF IInv, BufferInv
        <4>3. \E k \in 0 .. n : kept[p] = Window(k)
          BY <1>3, <4>2
        <4>. QED
          BY <1>2, <1>5, <1>7, <3>2, <4>2, <4>3 DEF BufferInv
      <3>. QED
        BY <3>1, <3>2
    <2>. QED
      BY <2>1, <2>2, <2>3
  <1>. QED
    BY <1>4, <1>8, <1>9, <1>10 DEF IInv

LEMMA ReaderEndKeeps ==
    ASSUME IInv, NEW p \in Pipe, ReadEnd(p) \/ ReadFails(p)
    PROVE  IInv'
  <1>1. /\ UNCHANGED <<pc, limit, reaped, exit, read, buffer, polled, waited, kept, kills, child,
                        holders, written, now, timeout, deadline>>
        /\ reader[p] = "reading"
    BY DEF ReadEnd, ReadFails, process, world, fixed
  <1>2. TypeInv'
    BY <1>1 DEF IInv, TypeInv, ReadEnd, ReadFails
  <1>3. ChildInv' /\ LimitInv'
    BY <1>1 DEF IInv, ChildInv, LimitInv, LimitOver
  <1>4. ASSUME NEW q \in Pipe PROVE BufferInv(q)'
    BY <1>1 DEF IInv, BufferInv
  <1>5. ASSUME NEW q \in Pipe PROVE PipeInv(q)'
    BY <1>1 DEF IInv, PipeInv, TypeInv, ReadEnd, ReadFails
  <1>. QED
    BY <1>2, <1>3, <1>4, <1>5 DEF IInv

(* Time and the token. *)
LEMMA WorldKeeps ==
    ASSUME IInv, Tick \/ DrainElapses \/ Cancel \/ UNCHANGED vars
    PROVE  IInv'
  <1>1. /\ UNCHANGED <<pc, limit, reaped, exit, read, buffer, reader, polled, waited, kept, kills,
                        child, holders, written, timeout, deadline>>
        /\ now' = now \/ now' = now + 1
    BY DEF Tick, DrainElapses, Cancel, vars, process, readers, world, fixed
  <1>2. TypeInv' /\ ChildInv' /\ \A p \in Pipe : PipeInv(p)' /\ BufferInv(p)'
    BY <1>1 DEF IInv, TypeInv, ChildInv, PipeInv, BufferInv
  <1>3. LimitInv'
    <2>1. now \in Nat /\ (waited = "timeout" => limit.at \in Nat)
      BY WaitLimitIsEarliest DEF IInv, LimitInv, LimitOver
    <2>. QED
      BY <1>1, <2>1 DEF IInv, LimitInv, LimitOver
  <1>. QED
    BY <1>2, <1>3 DEF IInv

(* The loop of Exec. *)
LEMMA SpawnKeeps ==
    ASSUME IInv, Spawn \/ SpawnFails
    PROVE  IInv'
  <1>1. /\ UNCHANGED <<reaped, exit, written, polled, kept, kills, read, buffer, reader, now,
                        timeout, deadline>>
        /\ pc = "spawn" /\ child = "none"
    BY DEF Spawn, SpawnFails, process, readers, world, fixed, IInv, ChildInv
  <1>2. \/ /\ pc' = "try_wait" /\ child' = "running" /\ holders' = [p \in Pipe |-> {"child"}]
           /\ limit' = WaitLimit(timeout, deadline) /\ waited' = waited
        \/ pc' = "returned" /\ waited' = "not_started" /\ UNCHANGED <<child, holders, limit>>
    BY DEF Spawn, SpawnFails, process
  <1>3. TypeInv'
    BY <1>1, <1>2 DEF IInv, TypeInv
  <1>4. ChildInv'
    BY <1>1, <1>2 DEF IInv, ChildInv, Status
  <1>5. LimitInv'
    BY <1>1, <1>2 DEF IInv, LimitInv
  <1>6. ASSUME NEW p \in Pipe PROVE PipeInv(p)' /\ BufferInv(p)'
    BY <1>1, <1>2 DEF IInv, PipeInv, BufferInv
  <1>. QED
    BY <1>3, <1>4, <1>5, <1>6 DEF IInv

LEMMA WaitKeeps ==
    ASSUME IInv, TryWait \/ TryWaitFails
    PROVE  IInv'
  <1>1. /\ UNCHANGED <<limit, written, polled, kept, kills, read, buffer, reader, child, holders,
                        now, timeout, deadline>>
        /\ pc = "try_wait" /\ child # "none"
    BY DEF TryWait, TryWaitFails, process, readers, world, fixed, IInv, ChildInv
  <1>2. \/ /\ pc' = "poll" /\ waited' = waited /\ exit = "none" /\ child # "running"
           /\ exit' = child /\ reaped' = TRUE
        \/ /\ pc' = "poll" /\ waited' = waited /\ UNCHANGED <<exit, reaped>>
        \/ /\ pc' = "stop" /\ waited' = "wait_error" /\ UNCHANGED <<exit, reaped>>
    BY DEF TryWait, TryWaitFails
  <1>3. TypeInv'
    BY <1>1, <1>2 DEF IInv, TypeInv
  <1>4. ChildInv'
    BY <1>1, <1>2 DEF IInv, ChildInv, Status
  <1>5. LimitInv'
    BY <1>1, <1>2 DEF IInv, LimitInv, LimitOver
  <1>6. ASSUME NEW p \in Pipe PROVE PipeInv(p)' /\ BufferInv(p)'
    BY <1>1, <1>2 DEF IInv, PipeInv, BufferInv
  <1>. QED
    BY <1>3, <1>4, <1>5, <1>6 DEF IInv

LEMMA VerdictValues ==
    ASSUME exit \in {"none"} \cup Status
    PROVE  /\ Verdict \in {"read_error", "interrupted", "timeout", "none"} \cup Status
           /\ Verdict \in Status => exit # "none"
           /\ Verdict = "timeout" => LimitOver
  BY DEF Verdict, Status

LEMMA PollKeeps ==
    ASSUME IInv, Poll
    PROVE  IInv'
  <1>1. /\ UNCHANGED <<limit, reaped, exit, kept, kills, written, read, buffer, reader, child, holders,
                        now, timeout, deadline>>
        /\ pc = "poll" /\ child # "none" /\ exit \in {"none"} \cup Status
    BY DEF Poll, process, readers, world, fixed, IInv, ChildInv
  <1>2. PICK v : v = Verdict
    OBVIOUS
  <1>3. /\ v \in {"read_error", "interrupted", "timeout", "none"} \cup Status
        /\ v \in Status => exit # "none"
        /\ v = "timeout" => LimitOver
    BY <1>1, <1>2, VerdictValues
  <1>4. /\ waited' = v /\ polled' = [p \in Pipe |-> polled[p] \/ reader[p] = "ok"]
        /\ pc' \in {"try_wait", "take", "stop"}
        /\ pc' = "take" => v \in Status
    BY <1>2 DEF Poll, Status
  <1>5. TypeInv'
    BY <1>1, <1>4 DEF IInv, TypeInv
  <1>6. ChildInv'
    BY <1>1, <1>3, <1>4 DEF IInv, ChildInv, Status
  <1>7. LimitInv'
    BY <1>1, <1>3, <1>4 DEF IInv, LimitInv, LimitOver
  <1>8. ASSUME NEW p \in Pipe PROVE PipeInv(p)' /\ BufferInv(p)'
    <2>1. PipeInv(p)'
      BY <1>1, <1>4 DEF IInv, PipeInv
    <2>2. BufferInv(p)'
      BY <1>1 DEF IInv, BufferInv
    <2>. QED
      BY <2>1, <2>2
  <1>. QED
    BY <1>5, <1>6, <1>7, <1>8 DEF IInv

LEMMA StopKeeps ==
    ASSUME IInv, StopChild \/ Reap
    PROVE  IInv'
  <1>1. /\ UNCHANGED <<limit, exit, polled, waited, kept, written, read, buffer, reader, now,
                        timeout, deadline>>
        /\ pc \in {"stop", "reap"} /\ child # "none"
    BY DEF StopChild, Reap, process, readers, world, fixed, IInv, ChildInv
  <1>2. \/ /\ pc = "stop" /\ exit # "none" /\ pc' = "take" /\ UNCHANGED <<kills, child, holders, reaped>>
        \/ /\ pc = "stop" /\ exit = "none" /\ pc' = "reap" /\ UNCHANGED reaped
           /\ \/ UNCHANGED <<child, holders>>
              \/ /\ child = "running" /\ child' = "failure"
                 /\ holders' = [p \in Pipe |-> holders[p] \ {"child"}]
        \/ /\ pc = "reap" /\ child # "running" /\ pc' = "take" /\ reaped' = TRUE
           /\ UNCHANGED <<child, holders>>
    BY DEF StopChild, Reap, ChildGone, process
  <1>3. TypeInv'
    BY <1>1, <1>2 DEF IInv, TypeInv
  <1>4. ChildInv'
    BY <1>1, <1>2 DEF IInv, ChildInv, Status
  <1>5. LimitInv'
    BY <1>1, <1>2 DEF IInv, LimitInv, LimitOver
  <1>6. ASSUME NEW p \in Pipe PROVE PipeInv(p)' /\ BufferInv(p)'
    <2>1. PipeInv(p)'
      BY <1>1, <1>2 DEF IInv, PipeInv
    <2>2. BufferInv(p)'
      BY <1>1, <1>2 DEF IInv, BufferInv
    <2>. QED
      BY <2>1, <2>2
  <1>. QED
    BY <1>3, <1>4, <1>5, <1>6 DEF IInv

LEMMA TakeKeeps ==
    ASSUME IInv, NEW p \in Pipe, Take(p)
    PROVE  IInv'
  <1>1. /\ UNCHANGED <<pc, limit, reaped, exit, polled, waited, kills, written, read, reader, child,
                        holders, now, timeout, deadline>>
        /\ pc = "take" /\ ~buffer[p].taken
    BY DEF Take, process, world, fixed
  <1>2. buffer[p] = Holding(read[p]) /\ PipeInv(p)
    BY <1>1 DEF IInv, BufferInv
  <1>3. kept'[p] = Window(read[p]) /\ buffer'[p].taken
    <2>1. p \in DOMAIN kept /\ p \in DOMAIN buffer
      BY DEF IInv, TypeInv
    <2>2. kept'[p] = Kept(buffer[p]) /\ buffer'[p] = Taken(buffer[p])
      BY <2>1 DEF Take
    <2>. QED
      BY <1>2, <2>2, HoldingIsKept DEF Taken, Holding
  <1>4. \A q \in Pipe \ {p} : kept'[q] = kept[q] /\ buffer'[q] = buffer[q]
    BY DEF Take, IInv, TypeInv
  <1>5. TypeInv'
    BY <1>1 DEF IInv, TypeInv, Take
  <1>6. ChildInv' /\ LimitInv'
    BY <1>1, <1>3, <1>4 DEF IInv, ChildInv, LimitInv, LimitOver
  <1>7. ASSUME NEW q \in Pipe PROVE PipeInv(q)'
    BY <1>1 DEF IInv, PipeInv
  <1>8. ASSUME NEW q \in Pipe PROVE BufferInv(q)'
    <2>1. CASE q # p
      BY <1>1, <1>4, <2>1 DEF IInv, BufferInv
    <2>2. BufferInv(p)'
      BY <1>1, <1>2, <1>3 DEF PipeInv, BufferInv
    <2>. QED
      BY <2>1, <2>2
  <1>. QED
    BY <1>5, <1>6, <1>7, <1>8 DEF IInv

LEMMA ReturnKeeps ==
    ASSUME IInv, ExecReturn
    PROVE  IInv'
  <1>1. /\ UNCHANGED <<limit, reaped, exit, polled, waited, kept, kills, child, holders, written,
                        read, buffer, reader, now, timeout, deadline>>
        /\ pc = "take" /\ pc' = "returned" /\ \A p \in Pipe : buffer[p].taken
    BY DEF ExecReturn, process, readers, world, fixed
  <1>2. TypeInv' /\ ChildInv'
    <2>1. TypeInv'
      BY <1>1 DEF IInv, TypeInv
    <2>2. ChildInv'
      BY <1>1 DEF IInv, ChildInv
    <2>. QED
      BY <2>1, <2>2
  <1>3. LimitInv'
    BY <1>1 DEF IInv, LimitInv, LimitOver
  <1>4. ASSUME NEW p \in Pipe PROVE PipeInv(p)' /\ BufferInv(p)'
    BY <1>1 DEF IInv, PipeInv, BufferInv
  <1>. QED
    BY <1>2, <1>3, <1>4 DEF IInv

LEMMA Inductive == Spec => []IInv
  <1>1. IInv /\ [Next]_vars => IInv'
    BY ProcessKeeps, ReadKeeps, ReaderEndKeeps, WorldKeeps, SpawnKeeps, WaitKeeps, PollKeeps,
       StopKeeps, TakeKeeps, ReturnKeeps DEF Next, Loop
  <1>. QED
    BY <1>1, InductiveInit, PTL DEF Spec

-----------------------------------------------------------------------------
(* What the invariant says. *)

(* pipe.rs: however the stream is cut into reads and whenever it is taken, what
   is kept of it is its start, its end and the number of bytes between. *)
THEOREM BufferKeepsWindow == Spec => []KeptIsWindow
  <1>1. ASSUME IInv, NEW p \in Pipe
        PROVE  /\ ~buffer[p].taken => Kept(buffer[p]) = Window(read[p])
               /\ buffer[p].taken => \E n \in 0 .. read[p] : kept[p] = Window(n)
    BY <1>1, HoldingIsKept DEF IInv, BufferInv
  <1>2. IInv => KeptIsWindow
    BY <1>1 DEF KeptIsWindow
  <1>. QED
    BY <1>2, Inductive, PTL

(* wait_for_exit: a status returned after both readers have ended stands for all
   the output, of the child and of what it left behind. *)
THEOREM NothingIsLost == Spec => []OutputComplete
  <1>1. ASSUME IInv, pc = "returned", waited \in Status, NEW p \in Pipe, polled[p]
        PROVE  kept[p] = Window(written[p])
    <2>1. buffer[p].taken
      BY <1>1 DEF IInv, ChildInv, Status
    <2>. QED
      BY <1>1, <2>1, HoldingIsKept DEF IInv, BufferInv
  <1>2. IInv => OutputComplete
    BY <1>1 DEF OutputComplete
  <1>. QED
    BY <1>2, Inductive, PTL

(* stop_child: when Exec returns, its child has ended and been waited for. *)
THEOREM ChildIsReaped == Spec => []NoChildLeft
  <1>1. IInv => NoChildLeft
    BY DEF IInv, ChildInv, NoChildLeft, Status
  <1>. QED
    BY <1>1, Inductive, PTL

(* wait_limit: the limit a timeout names is the earliest, and it has passed. *)
THEOREM TimeoutNamesEarliest == Spec => []TimeoutIsEarliest
  <1>1. ASSUME IInv, waited = "timeout"
        PROVE  /\ limit.at \in Limits /\ now >= limit.at
               /\ \A l \in Limits : limit.at <= l
               /\ limit.seconds = IF limit.of = "timeout" THEN timeout ELSE deadline
    <2>1. /\ limit = WaitLimit(timeout, deadline) /\ limit # NoLimit /\ now >= limit.at
          /\ timeout \in Nat /\ deadline \in Nat \cup {NoLimit}
      BY <1>1 DEF IInv, LimitInv, LimitOver
    <2>. QED
      BY <2>1, WaitLimitIsEarliest DEF Limits
  <1>2. IInv => TimeoutIsEarliest
    BY <1>1 DEF TimeoutIsEarliest
  <1>. QED
    BY <1>2, Inductive, PTL

(* stop_child: the one signal goes to a process id that is still the child's. *)
THEOREM KillIsSafe == Spec => KillsOnlyOwnChild
  <1>1. ASSUME IInv, [Next]_vars, kills' # kills PROVE ~reaped /\ kills = 0
    <2>1. StopChild /\ exit = "none"
      BY <1>1 DEF Next, Loop, vars, Spawn, SpawnFails, TryWait, TryWaitFails, Poll, StopChild, Reap,
         Take, ExecReturn, StartBackground, BackgroundEnds, ChildExits, Write, Read, ReadEnd,
         ReadFails, Tick, DrainElapses, Cancel
    <2>. QED
      BY <1>1, <2>1 DEF StopChild, IInv, ChildInv
  <1>2. IInv /\ [Next]_vars => [kills' # kills => ~reaped /\ kills = 0]_vars
    BY <1>1
  <1>. QED
    BY <1>2, Inductive, PTL DEF Spec, KillsOnlyOwnChild

=============================================================================
