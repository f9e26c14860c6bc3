------------------------------- MODULE Buffer -------------------------------
(***************************************************************************)
(* The byte buffer of a connection (net/Buffer.h, net/Buffer.cc): a vector *)
(* of bytes and two indexes.  What is between them can be read; what is    *)
(* after the second can be written; what is before the first is given back *)
(* by moving the bytes to the front.  The first kCheapPrepend bytes are    *)
(* never used.                                                             *)
(*                                                                         *)
(* peak is not in the code: the most that ever had to fit, what was        *)
(* readable and what was being added.  MaxChunk bounds what one call       *)
(* writes, MaxReadable what is in the buffer.                              *)
(***************************************************************************)
EXTENDS Integers, Sequences

CONSTANTS Bytes, kCheapPrepend, kInitialSize, kBufferSize,
          MaxChunk, MaxReadable

ASSUME BufferAssumption ==
    /\ kCheapPrepend \in Nat
    /\ kInitialSize \in Nat
    /\ kBufferSize \in Nat
    /\ MaxChunk \in Nat
    /\ MaxReadable \in Nat

VARIABLES
    buffer,     \* the object: m_buffer.size(), m_buffer, m_pRead, m_pWrite,
                \* and whether every assert() so far held
    call,
    peak

vars == <<buffer, call, peak>>

Chunks == UNION {[1 .. n -> Bytes] : n \in 0 .. MaxChunk}

readableBytes(b) == b.pWrite - b.pRead
writableBytes(b) == b.size - b.pWrite

(* What peek() shows.                                                      *)
Readable(b) == [i \in 1 .. readableBytes(b) |-> b.mem[b.pRead + i - 1]]

(* std::vector value-initialises its elements.                             *)
Construct ==
    [size |-> kCheapPrepend + kInitialSize,
     mem |-> [i \in 0 .. kCheapPrepend + kInitialSize - 1 |-> 0],
     pRead |-> kCheapPrepend,
     pWrite |-> kCheapPrepend,
     ok |-> TRUE]

-----------------------------------------------------------------------------
(* The members, as functions of the object.                                *)

(* b.mem with data copied to position at.                                  *)
Copied(b, at, data) ==
    [i \in 0 .. b.size - 1 |->
        IF i \in at .. at + Len(data) - 1 THEN data[i - at + 1] ELSE b.mem[i]]

retrieveAll(b) == [b EXCEPT !.pRead = kCheapPrepend, !.pWrite = kCheapPrepend]

(* retrieve(), retrieveAsString()                                          *)
retrieve(b, len) ==
    LET checked == [b EXCEPT !.ok = @ /\ len <= readableBytes(b)] IN
    IF len < readableBytes(b)
        THEN [checked EXCEPT !.pRead = @ + len]
        ELSE retrieveAll(checked)

Resized(b, n) ==
    [b EXCEPT !.size = n,
              !.mem = [i \in 0 .. n - 1 |-> IF i < b.size THEN b.mem[i] ELSE 0]]

MovedToFront(b) ==
    [b EXCEPT !.mem = Copied(b, kCheapPrepend, Readable(b)),
              !.pRead = kCheapPrepend,
              !.pWrite = kCheapPrepend + readableBytes(b)]

(* Mutant of makeSpace: the reserved prefix is counted as free.            *)
makeSpace_EatPrepend(b, len) ==
    IF writableBytes(b) + b.pRead < len
        THEN Resized(b, b.pWrite + len)
        ELSE MovedToFront([b EXCEPT !.ok = @ /\ kCheapPrepend < b.pRead])

(* Mutant of makeSpace: always grow.                                       *)
makeSpace_NeverMove(b, len) == Resized(b, b.pWrite + len)

makeSpace(b, len) ==
    IF writableBytes(b) + b.pRead < len + kCheapPrepend
        THEN Resized(b, b.pWrite + len)
        ELSE MovedToFront([b EXCEPT !.ok = @ /\ kCheapPrepend < b.pRead])

ensureWritableBytes(b, len) ==
    LET c == IF writableBytes(b) < len THEN makeSpace(b, len) ELSE b IN
    [c EXCEPT !.ok = @ /\ writableBytes(c) >= len]

append(b, data) ==
    LET c == ensureWritableBytes(b, Len(data)) IN
    [c EXCEPT !.mem = Copied(c, c.pWrite, data), !.pWrite = @ + Len(data)]

(* How much the two iovecs of readOnece() hold.                            *)
ReadLimit(b) ==
    IF writableBytes(b) < kBufferSize THEN writableBytes(b) + kBufferSize
                                      ELSE writableBytes(b)

(* Mutant of readv: m_pWrite is not moved to the end before append().      *)
readv_NoIndex(b, data) ==
    LET writable == writableBytes(b) IN
    IF Len(data) <= writable
    THEN [b EXCEPT !.mem = Copied(b, b.pWrite, data), !.pWrite = @ + Len(data)]
    ELSE append([b EXCEPT !.mem = Copied(b, b.pWrite, SubSeq(data, 1, writable))],
                SubSeq(data, writable + 1, Len(data)))

(* readOnece() when the kernel has data: the vector's free end is filled   *)
(* first, the rest arrives in extrabuf and is appended.                    *)
readv(b, data) ==
    LET writable == writableBytes(b) IN
    IF Len(data) <= writable
    THEN [b EXCEPT !.mem = Copied(b, b.pWrite, data), !.pWrite = @ + Len(data)]
    ELSE append([b EXCEPT !.mem = Copied(b, b.pWrite, SubSeq(data, 1, writable)),
                          !.pWrite = b.size],
                SubSeq(data, writable + 1, Len(data)))

-----------------------------------------------------------------------------
(* The calls.                                                              *)

Init ==
    /\ buffer = Construct
    /\ call = [op |-> "none"]
    /\ peak = 0

(* data is added: what is kept of the call, and the bound on the buffer.   *)
Adds(data) ==
    LET n == readableBytes(buffer) + Len(data) IN
    /\ n <= MaxReadable
    /\ peak' = IF n > peak THEN n ELSE peak
    /\ call' = [op |-> "write", data |-> data]

AppendData(data) ==
    /\ Adds(data)
    /\ buffer' = append(buffer, data)

(* A socket that is at its end gives no bytes, and nothing changes; a      *)
(* failing one makes Readv throw, before anything has changed.             *)
ReadOnece(data) ==
    /\ Len(data) <= ReadLimit(buffer)
    /\ Adds(data)
    /\ buffer' = readv(buffer, data)

(* One round of readAll()'s loop; it ends when the socket has no more.     *)
ReadAllRound(data) ==
    /\ Len(data) \in 1 .. kBufferSize
    /\ Adds(data)
    /\ buffer' = append(buffer, data)

(* The caller takes no more than there is.                                 *)
Retrieve(n) ==
    /\ n <= readableBytes(buffer)
    /\ buffer' = retrieve(buffer, n)
    /\ call' = [op |-> "take", n |-> n]
    /\ UNCHANGED peak

(* retrieveAll(), retrieveAllAsString()                                    *)
RetrieveAll ==
    /\ buffer' = retrieveAll(buffer)
    /\ call' = [op |-> "take", n |-> readableBytes(buffer)]
    /\ UNCHANGED peak

Next ==
    \/ \E data \in Chunks : AppendData(data) \/ ReadOnece(data) \/ ReadAllRound(data)
    \/ \E n \in 0 .. MaxReadable : Retrieve(n)
    \/ RetrieveAll

Spec == Init /\ [][Next]_vars

-----------------------------------------------------------------------------
(* Properties.                                                             *)

(* The indexes stay inside the vector and behind the reserved prefix, and  *)
(* the vector, which never shrinks, is never larger than twice what ever   *)
(* had to fit at one time: makeSpace() reuses what retrieve() freed.       *)
BoundsOK ==
    /\ buffer \in [size : Nat, mem : [0 .. buffer.size - 1 -> Bytes \cup {0}],
                   pRead : Nat, pWrite : Nat, ok : BOOLEAN]
    /\ kCheapPrepend <= buffer.pRead
    /\ buffer.pRead <= buffer.pWrite
    /\ buffer.pWrite <= buffer.size
    /\ \/ buffer.size = kCheapPrepend + kInitialSize
       \/ buffer.size <= kCheapPrepend + 2 * peak

(* No assert() of Buffer.h fails: bytes are moved only where there is room *)
(* before them, and there is room for what is about to be copied.          *)
NoFailure == buffer.ok

Queue == INSTANCE ByteQueue WITH queue <- Readable(buffer)

(* Whatever is written, grown, moved and read in two pieces: what can be   *)
(* read is what was written and not yet taken, in that order.              *)
ImplementsByteQueue == Queue!Spec

=============================================================================
