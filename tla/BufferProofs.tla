---------------------------- MODULE BufferProofs ----------------------------
(***************************************************************************)
(* Proofs about Buffer, for every size of the prefix, of the first vector  *)
(* and of extrabuf, and for any bytes: the indexes and the vector stay     *)
(* within their bounds, no assert fails, and what can be read is a queue   *)
(* of the bytes written.                                                   *)
(***************************************************************************)
EXTENDS Buffer, SequenceTheorems, TLAPS

Cells == Bytes \cup {0}

(* What every member may assume of the object and must leave true.         *)
Sound(b) ==
    /\ b \in [size : Nat, mem : [0 .. b.size - 1 -> Cells],
              pRead : Nat, pWrite : Nat, ok : BOOLEAN]
    /\ kCheapPrepend <= b.pRead
    /\ b.pRead <= b.pWrite
    /\ b.pWrite <= b.size

(* A sequence that has the elements of s and then those of t is s \o t.    *)
LEMMA IsConcat ==
    ASSUME NEW S, NEW s \in Seq(S), NEW t \in Seq(S), NEW u \in Seq(S),
           Len(u) = Len(s) + Len(t),
           \A i \in 1 .. Len(u) :
              u[i] = IF i <= Len(s) THEN s[i] ELSE t[i - Len(s)]
    PROVE  u = s \o t
<1>1. /\ s \o t \in Seq(S)
      /\ Len(s \o t) = Len(s) + Len(t)
      /\ \A i \in 1 .. Len(s) + Len(t) :
            (s \o t)[i] = IF i <= Len(s) THEN s[i] ELSE t[i - Len(s)]
  BY ConcatProperties
<1> QED
  BY <1>1, SeqEqual

LEMMA ReadableIsSeq ==
    ASSUME NEW b, Sound(b)
    PROVE  /\ Readable(b) \in Seq(Cells)
           /\ Len(Readable(b)) = b.pWrite - b.pRead
           /\ \A i \in 1 .. b.pWrite - b.pRead :
                 Readable(b)[i] = b.mem[b.pRead + i - 1]
<1>1. b.pWrite - b.pRead \in Nat
  BY BufferAssumption DEF Sound
<1>2. \A i \in 1 .. b.pWrite - b.pRead : b.pRead + i - 1 \in 0 .. b.size - 1
  BY BufferAssumption DEF Sound
<1>3. Readable(b) \in [1 .. b.pWrite - b.pRead -> Cells]
  BY <1>1, <1>2 DEF Sound, Readable, readableBytes
<1> QED
  BY <1>1, <1>3 DEF Readable, readableBytes

LEMMA ChunkIsSeq ==
    ASSUME NEW data \in Chunks
    PROVE  data \in Seq(Bytes) /\ data \in Seq(Cells) /\ Len(data) \in Nat
<1>1. PICK n \in 0 .. MaxChunk : data \in [1 .. n -> Bytes]
  BY DEF Chunks
<1>2. n \in Nat
  BY BufferAssumption
<1> QED
  BY <1>1, <1>2, SeqMonotonic DEF Cells

(* Growing or moving keeps what is readable and makes the room asked for.  *)
LEMMA MakeSpaceMakesRoom ==
    ASSUME NEW b, Sound(b), NEW len \in Nat, writableBytes(b) < len
    PROVE  LET c == makeSpace(b, len) IN
           /\ Sound(c)
           /\ c.ok = b.ok
           /\ writableBytes(c) >= len
           /\ Readable(c) = Readable(b)
           /\ \/ c.size = b.size
              \/ c.size <= kCheapPrepend + 2 * (readableBytes(b) + len)
<1> DEFINE c == makeSpace(b, len)
<1>1. CASE writableBytes(b) + b.pRead < len + kCheapPrepend
  <2>1. c = Resized(b, b.pWrite + len)
    BY <1>1 DEF makeSpace
  <2>2. /\ c.size = b.pWrite + len
        /\ c.mem = [i \in 0 .. b.pWrite + len - 1 |->
                       IF i < b.size THEN b.mem[i] ELSE 0]
        /\ c.pRead = b.pRead /\ c.pWrite = b.pWrite /\ c.ok = b.ok
    BY <2>1 DEF Resized, Sound
  <2>3. Sound(c)
    <3>1. b.pWrite + len \in Nat
      BY DEF Sound
    <3>2. [i \in 0 .. b.pWrite + len - 1 |-> IF i < b.size THEN b.mem[i] ELSE 0]
             \in [0 .. b.pWrite + len - 1 -> Cells]
      BY DEF Sound, Cells
    <3>3. b = [size |-> b.size, mem |-> b.mem, pRead |-> b.pRead,
               pWrite |-> b.pWrite, ok |-> b.ok]
      BY DEF Sound
    <3>6. c = [size |-> b.pWrite + len,
               mem |-> [i \in 0 .. b.pWrite + len - 1 |->
                           IF i < b.size THEN b.mem[i] ELSE 0],
               pRead |-> b.pRead, pWrite |-> b.pWrite, ok |-> b.ok]
      BY <2>1, <3>3, <2>2 DEF Resized
    <3>4. b.pRead \in Nat /\ b.pWrite \in Nat /\ b.ok \in BOOLEAN
      BY DEF Sound
    <3> HIDE DEF c
    <3>5. c \in [size : Nat, mem : [0 .. b.pWrite + len - 1 -> Cells],
                 pRead : Nat, pWrite : Nat, ok : BOOLEAN]
      BY <3>1, <3>2, <3>6, <3>4
    <3> QED
      BY <2>2, <3>5, <3>4 DEF Sound
  <2>4. writableBytes(c) >= len
    BY <2>2 DEF writableBytes, Sound
  <2>5. Readable(c) = Readable(b)
    <3>1. \A i \in 1 .. b.pWrite - b.pRead :
             c.mem[b.pRead + i - 1] = b.mem[b.pRead + i - 1]
      BY <2>2 DEF Sound
    <3> QED
      BY <2>2, <3>1 DEF Readable, readableBytes
  <2>6. c.size <= kCheapPrepend + 2 * (readableBytes(b) + len)
    BY <1>1, <2>2, BufferAssumption DEF writableBytes, readableBytes, Sound
  <2> QED
    BY <2>2, <2>3, <2>4, <2>5, <2>6
<1>2. CASE ~(writableBytes(b) + b.pRead < len + kCheapPrepend)
  <2> DEFINE n == readableBytes(b)
  <2>1. /\ kCheapPrepend < b.pRead
        /\ n \in Nat
        /\ kCheapPrepend + n <= b.size
    BY <1>2, BufferAssumption DEF writableBytes, readableBytes, Sound
  <2>2. c = MovedToFront([b EXCEPT !.ok = @ /\ kCheapPrepend < b.pRead])
    BY <1>2 DEF makeSpace
  <2>3. [b EXCEPT !.ok = @ /\ kCheapPrepend < b.pRead] = b
    BY <2>1 DEF Sound
  <2>4. c = MovedToFront(b)
    BY <2>2, <2>3
  <2>5. /\ c.size = b.size
        /\ c.mem = Copied(b, kCheapPrepend, Readable(b))
        /\ c.pRead = kCheapPrepend
        /\ c.pWrite = kCheapPrepend + n
        /\ c.ok = b.ok
    BY <2>4 DEF MovedToFront, Sound
  <2>6. /\ Readable(b) \in Seq(Cells)
        /\ Len(Readable(b)) = n
        /\ \A i \in 1 .. n : Readable(b)[i] = b.mem[b.pRead + i - 1]
    BY ReadableIsSeq DEF readableBytes
  <2>7. \A i \in 0 .. b.size - 1 :
           c.mem[i] = IF i \in kCheapPrepend .. kCheapPrepend + n - 1
                         THEN Readable(b)[i - kCheapPrepend + 1] ELSE b.mem[i]
    BY <2>5, <2>6 DEF Copied
  <2>8. c.mem \in [0 .. b.size - 1 -> Cells]
    <3>1. \A i \in 0 .. b.size - 1 :
             i \in kCheapPrepend .. kCheapPrepend + n - 1
                => Readable(b)[i - kCheapPrepend + 1] \in Cells
      <4> SUFFICES ASSUME NEW i \in 0 .. b.size - 1,
                          i \in kCheapPrepend .. kCheapPrepend + n - 1
                   PROVE  Readable(b)[i - kCheapPrepend + 1] \in Cells
        OBVIOUS
      <4>1. i - kCheapPrepend + 1 \in 1 .. n
        BY <2>1, BufferAssumption DEF Sound
      <4> QED
        BY <4>1, <2>6, ElementOfSeq
    <3>2. \A i \in 0 .. b.size - 1 : b.mem[i] \in Cells
      BY DEF Sound
    <3> QED
      BY <2>5, <2>6, <3>1, <3>2 DEF Copied
  <2>9. Sound(c)
    <3>1. c \in [size : Nat, mem : [0 .. b.size - 1 -> Cells],
                 pRead : Nat, pWrite : Nat, ok : BOOLEAN]
      <4>1. c = [b EXCEPT !.mem = Copied(b, kCheapPrepend, Readable(b)),
                          !.pRead = kCheapPrepend,
                          !.pWrite = kCheapPrepend + n]
        BY <2>4 DEF MovedToFront
      <4>2. kCheapPrepend + n \in Nat
        BY <2>1, BufferAssumption
      <4> QED
        BY <4>1, <4>2, <2>5, <2>8, BufferAssumption DEF Sound
    <3> QED
      BY <2>1, <2>5, <3>1, BufferAssumption DEF Sound
  <2>10. writableBytes(c) >= len
    BY <1>2, <2>5, BufferAssumption DEF writableBytes, readableBytes, Sound
  <2>11. Readable(c) = Readable(b)
    <3>1. /\ Readable(c) \in Seq(Cells)
          /\ Len(Readable(c)) = n
          /\ \A i \in 1 .. n : Readable(c)[i] = c.mem[kCheapPrepend + i - 1]
      <4>1. c.pWrite - c.pRead = n
        BY <2>1, <2>5, BufferAssumption
      <4> QED
        BY <2>9, <4>1, <2>5, ReadableIsSeq
    <3>2. \A i \in 1 .. n : c.mem[kCheapPrepend + i - 1] = Readable(b)[i]
      <4> SUFFICES ASSUME NEW i \in 1 .. n
                   PROVE  c.mem[kCheapPrepend + i - 1] = Readable(b)[i]
        OBVIOUS
      <4>1. /\ kCheapPrepend + i - 1 \in 0 .. b.size - 1
            /\ kCheapPrepend + i - 1 \in kCheapPrepend .. kCheapPrepend + n - 1
            /\ (kCheapPrepend + i - 1) - kCheapPrepend + 1 = i
        BY <2>1, BufferAssumption DEF Sound
      <4> QED
        BY <4>1, <2>7
    <3> QED
      BY <2>6, <3>1, <3>2, SeqEqual
  <2> QED
    BY <2>5, <2>9, <2>10, <2>11
<1> QED
  BY <1>1, <1>2

LEMMA EnsureMakesRoom ==
    ASSUME NEW b, Sound(b), NEW len \in Nat
    PROVE  LET c == ensureWritableBytes(b, len) IN
           /\ Sound(c)
           /\ c.ok = b.ok
           /\ writableBytes(c) >= len
           /\ Readable(c) = Readable(b)
           /\ \/ c.size = b.size
              \/ c.size <= kCheapPrepend + 2 * (readableBytes(b) + len)
<1> DEFINE d == IF writableBytes(b) < len THEN makeSpace(b, len) ELSE b
<1>1. /\ Sound(d)
      /\ d.ok = b.ok
      /\ writableBytes(d) >= len
      /\ Readable(d) = Readable(b)
      /\ \/ d.size = b.size
         \/ d.size <= kCheapPrepend + 2 * (readableBytes(b) + len)
  <2>1. CASE writableBytes(b) < len
    BY <2>1, MakeSpaceMakesRoom
  <2>2. CASE ~(writableBytes(b) < len)
    BY <2>2 DEF writableBytes, Sound
  <2> QED
    BY <2>1, <2>2
<1>2. ensureWritableBytes(b, len) = [d EXCEPT !.ok = @ /\ writableBytes(d) >= len]
  BY DEF ensureWritableBytes
<1>3. [d EXCEPT !.ok = @ /\ writableBytes(d) >= len] = d
  BY <1>1 DEF Sound
<1> QED
  BY <1>1, <1>2, <1>3

(* Where the i-th readable byte is, when k are copied behind n of them.     *)
LEMMA Positions ==
    \A r, w, size, n, k \in Nat :
       n = w - r /\ w + k <= size =>
          \A i \in 1 .. n + k :
             /\ r + i - 1 \in 0 .. size - 1
             /\ i <= n => i \in 1 .. n /\ r + i - 1 \notin w .. w + k - 1
             /\ ~(i <= n) => /\ r + i - 1 \in w .. w + k - 1
                             /\ (r + i - 1) - w + 1 = i - n
OBVIOUS

(* Copying data behind the readable bytes, where there is room, and moving *)
(* the write index behind it, adds data to what can be read.               *)
LEMMA CopyAtEndAppends ==
    ASSUME NEW b, Sound(b), NEW data \in Seq(Cells), writableBytes(b) >= Len(data)
    PROVE  LET c == [b EXCEPT !.mem = Copied(b, b.pWrite, data),
                              !.pWrite = @ + Len(data)] IN
           /\ Sound(c)
           /\ c.ok = b.ok
           /\ c.size = b.size
           /\ Readable(c) = Readable(b) \o data
<1> DEFINE c == [b EXCEPT !.mem = Copied(b, b.pWrite, data),
                          !.pWrite = @ + Len(data)]
           n == b.pWrite - b.pRead
           k == Len(data)
<1>1. /\ k \in Nat /\ n \in Nat
      /\ b.pWrite + k <= b.size
  BY BufferAssumption DEF Sound, writableBytes
<1>2. /\ c.size = b.size
      /\ c.pRead = b.pRead
      /\ c.pWrite = b.pWrite + k
      /\ c.ok = b.ok
      /\ c.mem = Copied(b, b.pWrite, data)
  BY DEF Sound
<1>3. \A i \in 0 .. b.size - 1 :
         c.mem[i] = IF i \in b.pWrite .. b.pWrite + k - 1
                       THEN data[i - b.pWrite + 1] ELSE b.mem[i]
  BY <1>2 DEF Copied
<1>4. c.mem \in [0 .. b.size - 1 -> Cells]
  <2>1. \A i \in 0 .. b.size - 1 :
           i \in b.pWrite .. b.pWrite + k - 1 => data[i - b.pWrite + 1] \in Cells
    <3> SUFFICES ASSUME NEW i \in 0 .. b.size - 1,
                        i \in b.pWrite .. b.pWrite + k - 1
                 PROVE  data[i - b.pWrite + 1] \in Cells
      OBVIOUS
    <3>1. i - b.pWrite + 1 \in 1 .. Len(data)
      BY <1>1 DEF Sound
    <3> QED
      BY <3>1, ElementOfSeq
  <2>2. \A i \in 0 .. b.size - 1 : b.mem[i] \in Cells
    BY DEF Sound
  <2> QED
    BY <1>2, <2>1, <2>2 DEF Copied
<1>5. Sound(c)
  <2>1. b.pWrite + k \in Nat
    BY <1>1 DEF Sound
  <2>2. Copied(b, b.pWrite, data) \in [0 .. b.size - 1 -> Cells]
    BY <1>2, <1>4
  <2>3. c \in [size : Nat, mem : [0 .. b.size - 1 -> Cells],
               pRead : Nat, pWrite : Nat, ok : BOOLEAN]
    BY <2>1, <2>2 DEF Sound
  <2> HIDE DEF c
  <2> QED
    BY <1>1, <1>2, <2>3 DEF Sound
<1> HIDE DEF c
<1>6. /\ Readable(b) \in Seq(Cells)
      /\ Len(Readable(b)) = n
      /\ \A i \in 1 .. n : Readable(b)[i] = b.mem[b.pRead + i - 1]
  BY ReadableIsSeq
<1>7. /\ Readable(c) \in Seq(Cells)
      /\ Len(Readable(c)) = n + k
      /\ \A i \in 1 .. n + k : Readable(c)[i] = c.mem[b.pRead + i - 1]
  <2>1. c.pWrite - c.pRead = n + k
    BY <1>1, <1>2 DEF Sound
  <2> QED
    BY <1>2, <1>5, <2>1, ReadableIsSeq
<1>8. ASSUME NEW i \in 1 .. n + k
      PROVE  Readable(c)[i] = IF i <= n THEN Readable(b)[i] ELSE data[i - n]
  <2>1. /\ b.pRead \in Nat /\ b.pWrite \in Nat /\ b.size \in Nat
        /\ b.pRead <= b.pWrite
        /\ n = b.pWrite - b.pRead
    BY DEF Sound
  <2> HIDE DEF n, k
  <2>2. /\ b.pRead + i - 1 \in 0 .. b.size - 1
        /\ i <= n => i \in 1 .. n /\ b.pRead + i - 1 \notin b.pWrite .. b.pWrite + k - 1
        /\ ~(i <= n) => /\ b.pRead + i - 1 \in b.pWrite .. b.pWrite + k - 1
                        /\ (b.pRead + i - 1) - b.pWrite + 1 = i - n
    <3>1. \A r, w, size \in Nat :
             n = w - r /\ w + k <= size =>
                /\ r + i - 1 \in 0 .. size - 1
                /\ i <= n => i \in 1 .. n /\ r + i - 1 \notin w .. w + k - 1
                /\ ~(i <= n) => /\ r + i - 1 \in w .. w + k - 1
                                /\ (r + i - 1) - w + 1 = i - n
      BY <1>1, Positions
    <3> QED
      BY <2>1, <1>1, <3>1, ZenonT(30)
  <2>3. CASE i <= n
    <3>1. c.mem[b.pRead + i - 1] = b.mem[b.pRead + i - 1]
      BY <2>2, <2>3, <1>3
    <3> QED
      BY <2>2, <2>3, <3>1, <1>6, <1>7
  <2>4. CASE ~(i <= n)
    <3>1. c.mem[b.pRead + i - 1] = data[i - n]
      BY <2>2, <2>4, <1>3
    <3> QED
      BY <2>4, <3>1, <1>7
  <2> QED
    BY <2>3, <2>4
<1>9. Readable(c) = Readable(b) \o data
  <2> HIDE DEF n, k
  <2>1. \A i \in 1 .. Len(Readable(c)) :
           Readable(c)[i] = IF i <= Len(Readable(b)) THEN Readable(b)[i]
                            ELSE data[i - Len(Readable(b))]
    BY <1>6, <1>7, <1>8
  <2>2. Len(Readable(c)) = Len(Readable(b)) + Len(data)
    BY <1>6, <1>7 DEF k
  <2> QED
    BY <1>6, <1>7, <2>1, <2>2, IsConcat
<1> QED
  BY <1>2, <1>5, <1>9 DEF c

LEMMA AppendAppends ==
    ASSUME NEW b, Sound(b), NEW data \in Seq(Cells)
    PROVE  LET c == append(b, data) IN
           /\ Sound(c)
           /\ c.ok = b.ok
           /\ Readable(c) = Readable(b) \o data
           /\ \/ c.size = b.size
              \/ c.size <= kCheapPrepend + 2 * (readableBytes(b) + Len(data))
<1> DEFINE d == ensureWritableBytes(b, Len(data))
<1>1. Len(data) \in Nat
  OBVIOUS
<1>2. /\ Sound(d)
      /\ d.ok = b.ok
      /\ writableBytes(d) >= Len(data)
      /\ Readable(d) = Readable(b)
      /\ \/ d.size = b.size
         \/ d.size <= kCheapPrepend + 2 * (readableBytes(b) + Len(data))
  BY <1>1, EnsureMakesRoom
<1>3. append(b, data) = [d EXCEPT !.mem = Copied(d, d.pWrite, data),
                                  !.pWrite = @ + Len(data)]
  BY DEF append
<1> HIDE DEF d
<1>4. LET c == [d EXCEPT !.mem = Copied(d, d.pWrite, data),
                         !.pWrite = @ + Len(data)] IN
      /\ Sound(c)
      /\ c.ok = d.ok
      /\ c.size = d.size
      /\ Readable(c) = Readable(d) \o data
  BY <1>2, CopyAtEndAppends
<1> QED
  BY <1>2, <1>3, <1>4

(* A read that ends in extrabuf adds its two pieces one after the other.   *)
LEMMA ReadvAppends ==
    ASSUME NEW b, Sound(b), NEW data \in Seq(Cells)
    PROVE  LET c == readv(b, data) IN
           /\ Sound(c)
           /\ c.ok = b.ok
           /\ Readable(c) = Readable(b) \o data
           /\ \/ c.size = b.size
              \/ c.size <= kCheapPrepend + 2 * (readableBytes(b) + Len(data))
<1>1. CASE Len(data) <= writableBytes(b)
  <2>1. readv(b, data) = [b EXCEPT !.mem = Copied(b, b.pWrite, data),
                                   !.pWrite = @ + Len(data)]
    BY <1>1 DEF readv
  <2>2. writableBytes(b) >= Len(data)
    BY <1>1 DEF writableBytes, Sound
  <2> DEFINE c == [b EXCEPT !.mem = Copied(b, b.pWrite, data),
                            !.pWrite = @ + Len(data)]
  <2>3. /\ Sound(c)
        /\ c.ok = b.ok
        /\ c.size = b.size
        /\ Readable(c) = Readable(b) \o data
    BY <2>2, CopyAtEndAppends
  <2>4. readv(b, data) = c
    BY <2>1
  <2> HIDE DEF c
  <2> QED
    BY <2>3, <2>4
<1>2. CASE ~(Len(data) <= writableBytes(b))
  <2> DEFINE w == writableBytes(b)
             front == SubSeq(data, 1, w)
             back == SubSeq(data, w + 1, Len(data))
             d == [b EXCEPT !.mem = Copied(b, b.pWrite, front),
                            !.pWrite = @ + Len(front)]
  <2>1. /\ w \in Nat /\ w < Len(data) /\ Len(data) \in Nat
        /\ b.pWrite + w = b.size
    BY <1>2 DEF writableBytes, Sound
  <2> HIDE DEF w
  <2>2. \A i \in 1 .. Len(data) : data[i] \in Cells
    BY ElementOfSeq
  <2>3. /\ front \in Seq(Cells)
        /\ Len(front) = w
    <3>1. \A i \in 1 .. w : data[i] \in Cells
      BY <2>1, <2>2
    <3> QED
      BY <2>1, <3>1, SubSeqProperties
  <2>4. /\ back \in Seq(Cells)
        /\ Len(back) = Len(data) - w
    <3>1. \A i \in w + 1 .. Len(data) : data[i] \in Cells
      BY <2>1, <2>2
    <3>2. w + 1 \in Int /\ Len(data) \in Int
      BY <2>1
    <3>3. /\ back \in Seq(Cells)
          /\ Len(back) = IF w + 1 <= Len(data) THEN Len(data) - (w + 1) + 1 ELSE 0
      BY <3>1, <3>2, SubSeqProperties
    <3> QED
      BY <3>3, <2>1
  <2>5. front \o back = data
    <3>1. SubSeq(data, 1, w) \o SubSeq(data, w + 1, Len(data))
             = SubSeq(data, 1, Len(data))
      <4>1. 1 \in 1 .. Len(data) + 1 /\ w \in 1 - 1 .. Len(data)
              /\ Len(data) \in w .. Len(data)
        BY <2>1
      <4> QED
        BY <4>1, ConcatAdjacentSubSeq
    <3> QED
      BY <3>1, SubSeqFull
  <2> HIDE DEF front, back
  <2>6. readv(b, data) = append(d, back)
    <3>1. b.pWrite + Len(front) = b.size
      BY <2>1, <2>3
    <3> QED
      BY <1>2, <3>1 DEF readv, w, front, back
  <2>7. /\ Sound(d)
        /\ d.ok = b.ok
        /\ d.size = b.size
        /\ Readable(d) = Readable(b) \o front
    <3>1. writableBytes(b) >= Len(front)
      BY <2>1, <2>3 DEF w
    <3> QED
      BY <2>3, <3>1, CopyAtEndAppends
  <2>8. readableBytes(d) = readableBytes(b) + w
    <3>1. d.pRead = b.pRead /\ d.pWrite = b.pWrite + w
      BY <2>3 DEF Sound
    <3> QED
      BY <2>1, <3>1 DEF readableBytes, Sound
  <2> HIDE DEF d
  <2>9. /\ Sound(append(d, back))
        /\ append(d, back).ok = d.ok
        /\ Readable(append(d, back)) = Readable(d) \o back
        /\ \/ append(d, back).size = d.size
           \/ append(d, back).size
                 <= kCheapPrepend + 2 * (readableBytes(d) + Len(back))
    BY <2>4, <2>7, AppendAppends
  <2>10. (Readable(b) \o front) \o back = Readable(b) \o data
    <3>1. Readable(b) \in Seq(Cells)
      BY ReadableIsSeq
    <3>2. (Readable(b) \o front) \o back = Readable(b) \o (front \o back)
      BY <2>3, <2>4, <3>1, ConcatAssociative
    <3> QED
      BY <2>5, <3>2
  <2>11. readableBytes(d) + Len(back) = readableBytes(b) + Len(data)
    <3>1. readableBytes(b) \in Int
      BY DEF readableBytes, Sound
    <3> QED
      BY <3>1, <2>1, <2>4, <2>8
  <2> QED
    BY <2>6, <2>7, <2>9, <2>10, <2>11
<1> QED
  BY <1>1, <1>2

LEMMA IndexesMove ==
    ASSUME NEW b, Sound(b), NEW c, NEW r \in Nat, NEW w \in Nat,
           kCheapPrepend <= r, r <= w, w <= b.size,
           c = [b EXCEPT !.pRead = r, !.pWrite = w]
    PROVE  Sound(c)
<1>1. /\ c.size = b.size /\ c.pRead = r /\ c.pWrite = w
      /\ c \in [size : Nat, mem : [0 .. b.size - 1 -> Cells],
                pRead : Nat, pWrite : Nat, ok : BOOLEAN]
  BY DEF Sound
<1> QED
  BY <1>1 DEF Sound

(* Taking bytes out leaves the others as they were.                        *)
LEMMA RetrieveTakes ==
    ASSUME NEW b, Sound(b), NEW n \in Nat, n <= readableBytes(b)
    PROVE  LET c == retrieve(b, n) IN
           /\ Sound(c)
           /\ c.ok = b.ok
           /\ c.size = b.size
           /\ Readable(c) = SubSeq(Readable(b), n + 1, Len(Readable(b)))
<1> DEFINE c == retrieve(b, n)
           left == SubSeq(Readable(b), n + 1, Len(Readable(b)))
           m == b.pWrite - b.pRead
<1>1. /\ Readable(b) \in Seq(Cells)
      /\ Len(Readable(b)) = m
      /\ \A i \in 1 .. m : Readable(b)[i] = b.mem[b.pRead + i - 1]
  BY ReadableIsSeq
<1>2. m \in Nat /\ n <= m
  BY DEF readableBytes, Sound
<1>3. [b EXCEPT !.ok = @ /\ n <= readableBytes(b)] = b
  BY DEF Sound
<1>4. CASE n < readableBytes(b)
  <2>1. c = [b EXCEPT !.pRead = @ + n]
    BY <1>3, <1>4 DEF retrieve
  <2>2. /\ c.size = b.size /\ c.mem = b.mem /\ c.pWrite = b.pWrite
        /\ c.pRead = b.pRead + n /\ c.ok = b.ok
    BY <2>1 DEF Sound
  <2>3. Sound(c)
    <3>1. c = [b EXCEPT !.pRead = b.pRead + n, !.pWrite = b.pWrite]
      BY <2>1 DEF Sound
    <3>2. /\ b.pRead + n \in Nat /\ b.pWrite \in Nat
          /\ kCheapPrepend <= b.pRead + n
          /\ b.pRead + n <= b.pWrite
          /\ b.pWrite <= b.size
      BY <1>4, BufferAssumption DEF Sound, readableBytes
    <3> HIDE DEF c
    <3> QED
      BY <3>1, <3>2, IndexesMove
  <2> HIDE DEF c
  <2>4. c.pWrite - c.pRead = m - n
    BY <2>2 DEF Sound
  <2>5. /\ Readable(c) \in Seq(Cells)
        /\ Len(Readable(c)) = m - n
        /\ \A i \in 1 .. m - n : Readable(c)[i] = b.mem[(b.pRead + n) + i - 1]
    BY <2>2, <2>3, <2>4, ReadableIsSeq
  <2>6. n < m
    BY <1>4 DEF readableBytes
  <2> HIDE DEF m
  <2>7. /\ left \in Seq(Cells)
        /\ Len(left) = m - n
        /\ \A i \in 1 .. m - n : left[i] = Readable(b)[n + i]
    <3>1. \A i \in n + 1 .. m : Readable(b)[i] \in Cells
      BY <1>1, <1>2, ElementOfSeq
    <3>2. n + 1 \in Int /\ m \in Int
      BY <1>2
    <3>3. /\ left \in Seq(Cells)
          /\ Len(left) = IF n + 1 <= m THEN m - (n + 1) + 1 ELSE 0
          /\ \A i \in 1 .. m - (n + 1) + 1 :
                left[i] = Readable(b)[(n + 1) + i - 1]
      BY <1>1, <3>1, <3>2, SubSeqProperties
    <3> QED
      BY <3>3, <1>2, <2>6
  <2> HIDE DEF left
  <2>8. \A i \in 1 .. m - n : Readable(c)[i] = left[i]
    <3> SUFFICES ASSUME NEW i \in 1 .. m - n
                 PROVE  Readable(c)[i] = left[i]
      OBVIOUS
    <3>1. n + i \in 1 .. m
      BY <1>2
    <3>2. (b.pRead + n) + i - 1 = b.pRead + (n + i) - 1
      BY DEF Sound
    <3> QED
      BY <3>1, <3>2, <1>1, <2>5, <2>7
  <2>9. Readable(c) = left
    BY <2>5, <2>7, <2>8, SeqEqual
  <2> QED
    BY <2>2, <2>3, <2>9 DEF left, c
<1>5. CASE ~(n < readableBytes(b))
  <2>1. c = [b EXCEPT !.pRead = kCheapPrepend, !.pWrite = kCheapPrepend]
    BY <1>3, <1>5 DEF retrieve, retrieveAll
  <2>2. /\ c.size = b.size /\ c.pWrite = kCheapPrepend
        /\ c.pRead = kCheapPrepend /\ c.ok = b.ok
    BY <2>1 DEF Sound
  <2>3. Sound(c)
    <3>1. kCheapPrepend <= b.size
      BY BufferAssumption DEF Sound
    <3>2. kCheapPrepend \in Nat /\ kCheapPrepend <= kCheapPrepend
      BY BufferAssumption
    <3> HIDE DEF c
    <3> QED
      BY <2>1, <3>1, <3>2, IndexesMove
  <2>4. Readable(c) = <<>>
    <3>1. Readable(c) \in Seq(Cells) /\ Len(Readable(c)) = 0
      BY <2>2, <2>3, ReadableIsSeq, BufferAssumption
    <3> QED
      BY <3>1, EmptySeq
  <2>5. n = m
    BY <1>2, <1>5 DEF readableBytes
  <2>6. left = <<>>
    BY <1>1, <1>2, <2>5, SubSeqEmpty
  <2> QED
    BY <2>2, <2>3, <2>4, <2>6
<1> QED
  BY <1>4, <1>5

LEMMA RetrieveAllTakes ==
    ASSUME NEW b, Sound(b)
    PROVE  /\ readableBytes(b) \in Nat
           /\ readableBytes(b) = Len(Readable(b))
           /\ retrieve(b, readableBytes(b)) = retrieveAll(b)
<1>1. readableBytes(b) \in Nat /\ readableBytes(b) = Len(Readable(b))
  BY ReadableIsSeq, BufferAssumption DEF Sound, readableBytes
<1>2. [b EXCEPT !.ok = @ /\ readableBytes(b) <= readableBytes(b)] = b
  BY <1>1 DEF Sound
<1> QED
  BY <1>1, <1>2 DEF retrieve

-----------------------------------------------------------------------------
(* The vector's size, as the invariant bounds it.                          *)
SizeBounded(b, p) ==
    \/ b.size = kCheapPrepend + kInitialSize
    \/ b.size <= kCheapPrepend + 2 * p

IInv ==
    /\ Sound(buffer)
    /\ buffer.ok
    /\ peak \in Nat
    /\ SizeBounded(buffer, peak)

LEMMA InvInit == Init => IInv /\ Queue!Init
<1> SUFFICES ASSUME Init PROVE IInv /\ Queue!Init
  OBVIOUS
<1>1. buffer = Construct /\ peak = 0 /\ call = [op |-> "none"]
  BY DEF Init
<1>2. [i \in 0 .. kCheapPrepend + kInitialSize - 1 |-> 0]
         \in [0 .. kCheapPrepend + kInitialSize - 1 -> Cells]
  BY DEF Cells
<1>3. /\ buffer.size = kCheapPrepend + kInitialSize
      /\ buffer.pRead = kCheapPrepend /\ buffer.pWrite = kCheapPrepend
      /\ buffer.ok = TRUE
  BY <1>1 DEF Construct
<1>4. Sound(buffer)
  BY <1>1, <1>2, BufferAssumption DEF Construct, Sound
<1>5. Readable(buffer) = <<>>
  <2>1. Readable(buffer) \in Seq(Cells) /\ Len(Readable(buffer)) = 0
    BY <1>3, <1>4, ReadableIsSeq, BufferAssumption
  <2> QED
    BY <2>1, EmptySeq
<1> QED
  BY <1>1, <1>3, <1>4, <1>5 DEF IInv, SizeBounded, Queue!Init

(* A call that adds data to a sound object, as the members do.             *)
LEMMA AddingKeepsInv ==
    ASSUME IInv, NEW data \in Chunks, Adds(data),
           Sound(buffer'), buffer'.ok = buffer.ok,
           Readable(buffer') = Readable(buffer) \o data,
           \/ buffer'.size = buffer.size
           \/ buffer'.size
                <= kCheapPrepend + 2 * (readableBytes(buffer) + Len(data))
    PROVE  IInv' /\ Queue!Write(data)
<1> DEFINE n == readableBytes(buffer) + Len(data)
<1>1. n \in Nat
  BY ChunkIsSeq, BufferAssumption DEF IInv, Sound, readableBytes
<1>2. peak' = IF n > peak THEN n ELSE peak
  BY DEF Adds
<1>3. Sound(buffer')
  OBVIOUS
<1>4. Sound(buffer)'
  BY <1>3 DEF Sound
<1>5. buffer.size \in Nat /\ buffer'.size \in Nat
  BY DEF IInv, Sound
<1> HIDE DEF n
<1>6. peak' \in Nat /\ peak' >= peak /\ peak' >= n
  BY <1>1, <1>2 DEF IInv
<1>7. SizeBounded(buffer, peak)'
  <2>1. CASE buffer'.size = buffer.size
    BY <2>1, <1>5, <1>6, BufferAssumption DEF IInv, SizeBounded
  <2>2. CASE buffer'.size <= kCheapPrepend + 2 * n
    BY <2>2, <1>1, <1>5, <1>6, BufferAssumption DEF SizeBounded
  <2> QED
    BY <2>1, <2>2 DEF n
<1>8. Queue!Write(data)
  BY DEF Queue!Write, Adds, Readable, readableBytes
<1> QED
  BY <1>4, <1>6, <1>7, <1>8 DEF IInv

LEMMA TakingKeepsInv ==
    ASSUME IInv, NEW n \in Nat, n <= readableBytes(buffer),
           buffer' = retrieve(buffer, n),
           call' = [op |-> "take", n |-> n], UNCHANGED peak
    PROVE  IInv' /\ \E k \in 0 .. Len(Readable(buffer)) : Queue!Take(k)
<1>1. /\ Sound(buffer')
      /\ buffer'.ok = buffer.ok
      /\ buffer'.size = buffer.size
      /\ Readable(buffer') = SubSeq(Readable(buffer), n + 1, Len(Readable(buffer)))
  BY RetrieveTakes DEF IInv
<1>2. Sound(buffer)'
  BY <1>1 DEF Sound
<1>3. IInv'
  BY <1>1, <1>2 DEF IInv, SizeBounded
<1>4. n \in 0 .. Len(Readable(buffer))
  BY ReadableIsSeq DEF IInv, readableBytes
<1>5. Queue!Take(n)
  BY <1>1 DEF Queue!Take, Readable, readableBytes
<1> QED
  BY <1>3, <1>4, <1>5

LEMMA InvStep ==
    ASSUME IInv, [Next]_vars
    PROVE  IInv' /\ [Queue!Next]_(Queue!vars)
<1>1. ASSUME NEW data \in Chunks, AppendData(data)
      PROVE  IInv' /\ Queue!Next
  <2>1. data \in Seq(Cells)
    BY ChunkIsSeq
  <2>2. Adds(data) /\ buffer' = append(buffer, data)
    BY <1>1 DEF AppendData
  <2>3. IInv' /\ Queue!Write(data)
    BY <2>1, <2>2, AppendAppends, AddingKeepsInv DEF IInv
  <2> QED
    BY <2>3 DEF Queue!Next
<1>2. ASSUME NEW data \in Chunks, ReadOnece(data)
      PROVE  IInv' /\ Queue!Next
  <2>1. data \in Seq(Cells)
    BY ChunkIsSeq
  <2>2. Adds(data) /\ buffer' = readv(buffer, data)
    BY <1>2 DEF ReadOnece
  <2>3. IInv' /\ Queue!Write(data)
    BY <2>1, <2>2, ReadvAppends, AddingKeepsInv DEF IInv
  <2> QED
    BY <2>3 DEF Queue!Next
<1>3. ASSUME NEW data \in Chunks, ReadAllRound(data)
      PROVE  IInv' /\ Queue!Next
  <2>1. data \in Seq(Cells)
    BY ChunkIsSeq
  <2>2. Adds(data) /\ buffer' = append(buffer, data)
    BY <1>3 DEF ReadAllRound
  <2>3. IInv' /\ Queue!Write(data)
    BY <2>1, <2>2, AppendAppends, AddingKeepsInv DEF IInv
  <2> QED
    BY <2>3 DEF Queue!Next
<1>4. ASSUME NEW n \in 0 .. MaxReadable, Retrieve(n)
      PROVE  IInv' /\ Queue!Next
  <2>1. n \in Nat
    BY BufferAssumption
  <2>2. IInv' /\ \E k \in 0 .. Len(Readable(buffer)) : Queue!Take(k)
    BY <1>4, <2>1, TakingKeepsInv DEF Retrieve
  <2> QED
    BY <2>2 DEF Queue!Next, Readable, readableBytes
<1>5. ASSUME RetrieveAll
      PROVE  IInv' /\ Queue!Next
  <2>1. /\ readableBytes(buffer) \in Nat
        /\ retrieve(buffer, readableBytes(buffer)) = retrieveAll(buffer)
    BY RetrieveAllTakes DEF IInv
  <2>2. IInv' /\ \E k \in 0 .. Len(Readable(buffer)) : Queue!Take(k)
    BY <1>5, <2>1, TakingKeepsInv DEF RetrieveAll
  <2> QED
    BY <2>2 DEF Queue!Next, Readable, readableBytes
<1>6. ASSUME UNCHANGED vars
      PROVE  IInv' /\ UNCHANGED Queue!vars
  BY <1>6 DEF vars, IInv, Sound, SizeBounded, Queue!vars, Readable, readableBytes
<1> QED
  BY <1>1, <1>2, <1>3, <1>4, <1>5, <1>6 DEF Next

LEMMA Invariance == Spec => []IInv
<1>1. Init => IInv
  BY InvInit
<1>2. IInv /\ [Next]_vars => IInv'
  BY InvStep
<1> QED
  BY <1>1, <1>2, PTL DEF Spec

(* The indexes never leave the vector, whose size is at most twice what    *)
(* ever had to fit: makeSpace() of Buffer.h.                               *)
THEOREM BoundsHold == Spec => []BoundsOK
<1>1. IInv => BoundsOK
  BY DEF IInv, BoundsOK, Sound, SizeBounded, Cells
<1> QED
  BY <1>1, Invariance, PTL

(* No assert() of Buffer.h can fail while its caller takes no more than    *)
(* there is.                                                               *)
THEOREM NeverFails == Spec => []NoFailure
<1>1. IInv => NoFailure
  BY DEF IInv, NoFailure
<1> QED
  BY <1>1, Invariance, PTL

(* append(), readOnece(), readAll() and the retrieve functions implement a *)
(* queue of bytes.                                                         *)
THEOREM IsByteQueue == Spec => ImplementsByteQueue
<1>1. Init => Queue!Init
  BY InvInit
<1>2. IInv /\ [Next]_vars => [Queue!Next]_(Queue!vars)
  BY InvStep
<1> QED
  BY <1>1, <1>2, Invariance, PTL DEF Spec, ImplementsByteQueue, Queue!Spec

=============================================================================
