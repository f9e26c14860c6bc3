-------------------------- MODULE AsyncLoggingProofs --------------------------
(***************************************************************************)
(* The writing thread never lacks a buffer, and no line is lost, doubled   *)
(* or put out of order on its way to the stream, for any lines, any        *)
(* capacity of the buffers and however far the writer falls behind.        *)
(*                                                                         *)
(* LinesConserved is about FlattenSeq, which the library defines by a      *)
(* recursive function.  What it returns for every sequence of buffers is   *)
(* proved by least counterexample, from the well-foundedness of < on Nat.  *)
(***************************************************************************)
EXTENDS AsyncLogging, TLAPS, SequenceTheorems, WellFoundedInduction

(* Away from Write, the writer has two empty buffers and none to write.    *)
AtRest ==
    pc # "write" => /\ newBuffer1 = <<>>
                    /\ newBuffer2 = <<>>
                    /\ buffersToWrite = <<>>

(* A missing spare was used up by a full buffer.                           *)
SpareInv == m_nextBuffer = NoBuffer => m_buffers # <<>>

(* What the writer has given away came back to it in the swap: one buffer  *)
(* for the front buffer, and a second one if it replaced the spare.        *)
GivenInv ==
    pc = "write" => /\ Len(buffersToWrite) >= 1
                    /\ newBuffer2 = NoBuffer => Len(buffersToWrite) >= 2

LogInv ==
    /\ m_buffers \in Seq(Buffers)
    /\ buffersToWrite \in Seq(Buffers)
    /\ m_curBuffer \in Buffers
    /\ m_nextBuffer \in Buffers \cup {NoBuffer}
    /\ newBuffer1 \in Buffers \cup {NoBuffer}
    /\ AtRest
    /\ SpareInv
    /\ GivenInv
    /\ NoFailure

(* A null pointer is not an empty buffer.                                  *)
LEMMA NullIsNoBuffer == NoBuffer \notin Buffers /\ <<>> \in Buffers /\ NoBuffer # <<>>
<1>1. <<>> \in Buffers
  BY DEF Buffers
<1> QED
  BY <1>1, LoggingAssumption DEF Buffers

LEMMA LogInvInit == Init => LogInv
BY NullIsNoBuffer
   DEF Init, LogInv, AtRest, SpareInv, GivenInv, NoFailure

(* Putting a line into a buffer gives a buffer.                            *)
LEMMA PutType ==
    ASSUME NEW b \in Buffers, NEW l \in Lines
    PROVE  Put(b, l) \in Buffers
BY DEF Put, Buffers

LEMMA LogInvNext == LogInv /\ [Next]_vars => LogInv'
<1> SUFFICES ASSUME LogInv, [Next]_vars
             PROVE  LogInv'
  OBVIOUS
<1> USE DEF LogInv, AtRest, SpareInv, GivenInv, NoFailure
<1>1. ASSUME NEW l \in Lines, AppendHere(l)
      PROVE  LogInv'
  BY <1>1 DEF AppendHere, writerVars, Buffers
<1>2. ASSUME NEW l \in Lines, AppendNext(l)
      PROVE  LogInv'
  <2>1. /\ m_buffers' = Append(m_buffers, m_curBuffer)
        /\ m_nextBuffer' = NoBuffer
        /\ UNCHANGED <<newBuffer1, newBuffer2, buffersToWrite, failed>>
    BY <1>2 DEF AppendNext, writerVars
  <2>2. m_buffers' \in Seq(Buffers) /\ m_buffers' # <<>>
    BY <2>1
  <2>3. m_curBuffer' \in Buffers
    <3>1. (IF m_nextBuffer = NoBuffer THEN <<>> ELSE m_nextBuffer) \in Buffers
      BY NullIsNoBuffer
    <3> QED
      BY <3>1, <1>2, PutType DEF AppendNext
  <2>4. pc' = "write" <=> pc = "write"
    BY <1>2 DEF AppendNext, SignalWriter
  <2> QED
    BY <2>1, <2>2, <2>3, <2>4
<1>3. CASE Start
  BY <1>3 DEF Start, frontVars, writerVars
<1>4. CASE Stop
  <2>1. pc' = "write" <=> pc = "write"
    BY <1>4 DEF Stop, SignalWriter
  <2> QED
    BY <1>4, <2>1 DEF Stop, frontVars, writerVars
<1>5. CASE EndWait
  BY <1>5 DEF EndWait, frontVars, writerVars
<1>6. CASE WhileTest
  BY <1>6 DEF WhileTest, frontVars, writerVars
<1>7. CASE WaitForLines
  BY <1>7 DEF WaitForLines, frontVars, writerVars
<1>8. CASE Swap
  <2>1. /\ newBuffer1 = <<>>
        /\ newBuffer2 = <<>>
        /\ buffersToWrite = <<>>
        /\ ~failed
    BY <1>8 DEF Swap
  <2>2. /\ pc' = "write"
        /\ buffersToWrite' = Append(m_buffers, m_curBuffer)
        /\ m_buffers' = <<>>
        /\ m_curBuffer' = <<>>
        /\ newBuffer1' = NoBuffer
        /\ m_nextBuffer' = IF m_nextBuffer = NoBuffer THEN <<>> ELSE m_nextBuffer
        /\ newBuffer2' = IF m_nextBuffer = NoBuffer THEN NoBuffer ELSE <<>>
        /\ ~failed'
    BY <1>8, <2>1 DEF Swap
  <2>3. m_nextBuffer' \in Buffers /\ m_nextBuffer' # NoBuffer
    BY <2>2, NullIsNoBuffer
  <2>4. /\ buffersToWrite' \in Seq(Buffers)
        /\ Len(buffersToWrite') = Len(m_buffers) + 1
    BY <2>2
  <2>5. Len(m_buffers) \in Nat
    OBVIOUS
  <2>6. ASSUME newBuffer2' = NoBuffer
        PROVE  Len(buffersToWrite') >= 2
    <3>1. m_buffers # <<>>
      BY <2>6, <2>2, NullIsNoBuffer
    <3> QED
      BY <3>1, <2>4, <2>5
  <2> QED
    BY <2>2, <2>3, <2>4, <2>5, <2>6, NullIsNoBuffer
<1>9. CASE Write
  <2>1. Missing <= Len(buffersToWrite) /\ Missing <= 2
    BY <1>9 DEF Write, Missing
  <2>2. Len(buffersToWrite) \in Nat /\ Missing \in Nat
    BY DEF Missing
  <2>3. ~(Min2(Len(buffersToWrite)) < Missing)
    BY <2>1, <2>2 DEF Min2
  <2>4. /\ pc' = "while"
        /\ newBuffer1' = <<>>
        /\ newBuffer2' = <<>>
        /\ buffersToWrite' = <<>>
        /\ UNCHANGED <<m_curBuffer, m_nextBuffer, m_buffers>>
        /\ ~failed'
    BY <1>9, <2>3 DEF Write, frontVars
  <2>5. buffersToWrite' \in Seq(Buffers)
    BY <2>4
  <2> QED
    BY <2>4, <2>5, NullIsNoBuffer
<1>10. CASE UNCHANGED vars
  BY <1>10 DEF vars
<1> QED
  BY <1>1, <1>2, <1>3, <1>4, <1>5, <1>6, <1>7, <1>8, <1>9, <1>10
  DEF Next, WriterStep

(* The assertions of threadFunc never fail: the buffers written are always *)
(* enough to refill the writer's own two.                                  *)
THEOREM BuffersSuffice == Spec => []NoFailure
<1>1. LogInv => NoFailure
  BY DEF LogInv
<1> QED
  BY <1>1, LogInvInit, LogInvNext, PTL DEF Spec

-----------------------------------------------------------------------------
LEMMA Least ==
    ASSUME NEW T \in SUBSET Nat, T # {}
    PROVE  \E n \in T : \A m \in T : n <= m
<1>1. PICK n \in T : \A m \in T : ~ (<<m, n>> \in OpToRel(<, Nat))
  BY WFMin, NatLessThanWellFounded
<1>2. \A m \in T : ~(m < n)
  BY <1>1 DEF OpToRel
<1> QED
  BY <1>2

(* FlattenSeq's recursion over the prefixes of s.                          *)
Flattens(f, s) ==
    f = [i \in 1 .. Len(s) |-> IF i = 1 THEN s[i] ELSE f[i - 1] \o s[i]]

LEMMA FlattensOnce ==
    ASSUME NEW s \in Seq(Buffers), NEW f, NEW g, Flattens(f, s), Flattens(g, s)
    PROVE  f = g
<1> DEFINE T == {i \in 1 .. Len(s) : f[i] # g[i]}
<1>1. Len(s) \in Nat
  OBVIOUS
<1>2. /\ \A i \in 1 .. Len(s) : f[i] = IF i = 1 THEN s[i] ELSE f[i - 1] \o s[i]
      /\ \A i \in 1 .. Len(s) : g[i] = IF i = 1 THEN s[i] ELSE g[i - 1] \o s[i]
  BY DEF Flattens
<1>3. T = {}
  <2> SUFFICES ASSUME T # {} PROVE FALSE
    OBVIOUS
  <2>1. PICK n \in T : \A m \in T : n <= m
    <3>1. T \in SUBSET Nat
      BY <1>1
    <3> HIDE DEF T
    <3> QED
      BY <3>1, Least
  <2>2. CASE n = 1
    BY <1>2, <2>2
  <2>3. CASE n # 1
    <3>1. n - 1 \in 1 .. Len(s) /\ ~(n <= n - 1) /\ n \in 1 .. Len(s)
      BY <1>1, <2>3
    <3>2. f[n - 1] = g[n - 1]
      BY <2>1, <3>1
    <3> QED
      BY <1>2, <2>1, <2>3, <3>1, <3>2
  <2> QED
    BY <2>2, <2>3
<1>4. /\ f = [i \in 1 .. Len(s) |-> f[i]]
      /\ g = [i \in 1 .. Len(s) |-> g[i]]
  BY DEF Flattens
<1> QED
  BY <1>3, <1>4

LEMMA FlattenIs ==
    ASSUME NEW s \in Seq(Buffers), Len(s) # 0, NEW f, Flattens(f, s)
    PROVE  FlattenSeq(s) = f[Len(s)]
<1> DEFINE g == CHOOSE h : h = [i \in 1 .. Len(s) |->
                                   IF i = 1 THEN s[i] ELSE h[i - 1] \o s[i]]
<1>1. FlattenSeq(s) = g[Len(s)]
  BY DEF FlattenSeq
<1>2. Flattens(g, s)
  BY DEF Flattens
<1> QED
  BY <1>1, <1>2, FlattensOnce

(* One more buffer, one more step of the recursion.                        *)
LEMMA FlattensMore ==
    ASSUME NEW s \in Seq(Buffers), NEW b \in Buffers, NEW f \in [1 .. Len(s) -> Buffers],
           Flattens(f, s)
    PROVE  \E g \in [1 .. Len(s) + 1 -> Buffers] :
              /\ Flattens(g, Append(s, b))
              /\ g[Len(s) + 1] = IF Len(s) = 0 THEN b ELSE f[Len(s)] \o b
<1> DEFINE n == Len(s)
           x == IF n = 0 THEN b ELSE f[n] \o b
           g == [i \in 1 .. n + 1 |-> IF i = n + 1 THEN x ELSE f[i]]
           t == Append(s, b)
<1>1. n \in Nat /\ Len(t) = n + 1 /\ t[n + 1] = b /\ \A i \in 1 .. n : t[i] = s[i]
  BY AppendProperties, LenProperties
<1>2. x \in Buffers
  <2>1. CASE n = 0
    BY <2>1
  <2>2. CASE n # 0
    <3>1. f[n] \in Buffers
      BY <1>1, <2>2
    <3> QED
      BY <2>2, <3>1 DEF Buffers
  <2> QED
    BY <2>1, <2>2
<1> HIDE DEF n, x, t
<1>3. g \in [1 .. n + 1 -> Buffers]
  BY <1>1, <1>2 DEF n
<1>4. \A i \in 1 .. n : f[i] = IF i = 1 THEN s[i] ELSE f[i - 1] \o s[i]
  BY DEF Flattens, n
<1>5. ASSUME NEW i \in 1 .. n + 1
      PROVE  g[i] = IF i = 1 THEN t[i] ELSE g[i - 1] \o t[i]
  <2>1. CASE i = n + 1
    <3>1. g[i] = x /\ t[i] = b
      BY <1>1, <2>1
    <3>2. CASE n = 0
      BY <2>1, <3>1, <3>2 DEF x
    <3>3. CASE n # 0
      <4>1. n \in 1 .. n + 1 /\ n # n + 1 /\ i - 1 = n /\ i # 1
        BY <1>1, <2>1, <3>3
      <4>2. g[n] = f[n]
        BY <4>1
      <4> QED
        BY <3>1, <3>3, <4>1, <4>2 DEF x
    <3> QED
      BY <3>2, <3>3
  <2>2. CASE i # n + 1
    <3>1. i \in 1 .. n /\ g[i] = f[i] /\ t[i] = s[i]
      BY <1>1, <2>2
    <3>2. CASE i = 1
      BY <1>4, <3>1, <3>2
    <3>3. CASE i # 1
      <4>1. i - 1 \in 1 .. n + 1 /\ i - 1 # n + 1
        BY <1>1, <3>1, <3>3
      <4>2. g[i - 1] = f[i - 1]
        BY <4>1
      <4> QED
        BY <1>4, <3>1, <3>3, <4>2
    <3> QED
      BY <3>2, <3>3
  <2> QED
    BY <2>1, <2>2
<1>6. g[n + 1] = x
  BY <1>1
<1>7. g = [i \in 1 .. n + 1 |-> g[i]]
  OBVIOUS
<1> HIDE DEF g
<1>8. g = [i \in 1 .. n + 1 |-> IF i = 1 THEN t[i] ELSE g[i - 1] \o t[i]]
  BY <1>5, <1>7
<1>9. Flattens(g, t)
  BY <1>1, <1>8 DEF Flattens
<1> QED
  BY <1>3, <1>6, <1>9 DEF n, x, t

LEMMA FlattensAll ==
    ASSUME NEW s \in Seq(Buffers)
    PROVE  \E f \in [1 .. Len(s) -> Buffers] : Flattens(f, s)
<1> DEFINE Bad(t) == ~\E f \in [1 .. Len(t) -> Buffers] : Flattens(f, t)
           T == {n \in Nat : \E t \in Seq(Buffers) : Len(t) = n /\ Bad(t)}
<1>1. T = {}
  <2> SUFFICES ASSUME T # {} PROVE FALSE
    OBVIOUS
  <2>1. PICK n \in T : \A m \in T : n <= m
    BY Least
  <2>2. PICK t \in Seq(Buffers) : Len(t) = n /\ Bad(t)
    OBVIOUS
  <2>3. CASE n = 0
    <3>1. [i \in 1 .. Len(t) |-> <<>>] \in [1 .. Len(t) -> Buffers]
      BY DEF Buffers
    <3>2. Flattens([i \in 1 .. Len(t) |-> <<>>], t)
      BY <2>2, <2>3 DEF Flattens
    <3> QED
      BY <2>2, <3>1, <3>2
  <2>4. CASE n # 0
    <3> DEFINE r == SubSeq(t, 1, n - 1)
               b == t[n]
    <3>1. r \in Seq(Buffers) /\ Len(r) = n - 1 /\ b \in Buffers /\ n - 1 \in Nat
      BY <2>2, <2>4
    <3>2. t = Append(r, b)
      BY <2>2, <2>4
    <3> HIDE DEF r, b
    <3>3. ~Bad(r)
      <4>1. n - 1 \notin T
        BY <2>1, <3>1
      <4> QED
        BY <3>1, <4>1
    <3>4. PICK f \in [1 .. Len(r) -> Buffers] : Flattens(f, r)
      BY <3>3
    <3>5. \E g \in [1 .. Len(r) + 1 -> Buffers] : Flattens(g, t)
      BY <3>1, <3>2, <3>4, FlattensMore
    <3> QED
      BY <2>2, <3>1, <3>5
  <2> QED
    BY <2>3, <2>4
<1> QED
  BY <1>1

(* What FlattenSeq returns: of no buffers nothing, and of one more buffer  *)
(* its lines after those of the others.                                    *)
LEMMA FlattenEmpty == FlattenSeq(<<>>) = <<>>
BY DEF FlattenSeq

LEMMA NoLines == <<>> \in Buffers
BY DEF Buffers

LEMMA FlattenAppend ==
    ASSUME NEW s \in Seq(Buffers), NEW b \in Buffers
    PROVE  FlattenSeq(s) \in Buffers /\ FlattenSeq(Append(s, b)) = FlattenSeq(s) \o b
<1>1. PICK f \in [1 .. Len(s) -> Buffers] : Flattens(f, s)
  BY FlattensAll
<1>2. PICK g \in [1 .. Len(s) + 1 -> Buffers] :
         /\ Flattens(g, Append(s, b))
         /\ g[Len(s) + 1] = IF Len(s) = 0 THEN b ELSE f[Len(s)] \o b
  BY <1>1, FlattensMore
<1> DEFINE t == Append(s, b)
<1>3. t \in Seq(Buffers) /\ Len(t) = Len(s) + 1 /\ Len(s) \in Nat
  BY AppendProperties, LenProperties
<1> HIDE DEF t
<1>4. FlattenSeq(t) = g[Len(s) + 1]
  <2>1. Len(t) # 0 /\ Flattens(g, t)
    BY <1>2, <1>3 DEF t
  <2> QED
    BY <1>3, <2>1, FlattenIs
<1>5. CASE Len(s) = 0
  <2>1. s = <<>> /\ FlattenSeq(s) = <<>>
    BY <1>5, FlattenEmpty
  <2>2. <<>> \o b = b /\ <<>> \in Buffers
    BY ConcatEmptySeq DEF Buffers
  <2> QED
    BY <1>2, <1>3, <1>4, <1>5, <2>1, <2>2 DEF t
<1>6. CASE Len(s) # 0
  <2>1. FlattenSeq(s) = f[Len(s)] /\ f[Len(s)] \in Buffers
    BY <1>1, <1>3, <1>6, FlattenIs
  <2> QED
    BY <1>2, <1>3, <1>4, <1>6, <2>1 DEF t
<1> QED
  BY <1>5, <1>6

(* Concatenation of sequences whose elements are left alone.               *)
LEMMA AppendConcat ==
    ASSUME NEW a \in Seq(Buffers), NEW b \in Seq(Buffers), NEW x \in Buffers
    PROVE  /\ a \o b \in Seq(Buffers)
           /\ a \o Append(b, x) = Append(a \o b, x)
OBVIOUS

LEMMA LinesAssociate ==
    ASSUME NEW a \in Buffers, NEW b \in Buffers, NEW c \in Buffers
    PROVE  (a \o b) \o c = a \o (b \o c) /\ a \o b \in Buffers
BY ConcatAssociative DEF Buffers

LEMMA FlattenConcat ==
    ASSUME NEW a \in Seq(Buffers), NEW b \in Seq(Buffers)
    PROVE  FlattenSeq(a \o b) = FlattenSeq(a) \o FlattenSeq(b)
<1> DEFINE Bad(t) == FlattenSeq(a \o t) # FlattenSeq(a) \o FlattenSeq(t)
           T == {n \in Nat : \E t \in Seq(Buffers) : Len(t) = n /\ Bad(t)}
<1>1. ASSUME T # {} PROVE FALSE
  <2>1. PICK n \in T : \A m \in T : n <= m
    BY <1>1, Least
  <2>2. PICK t \in Seq(Buffers) : Len(t) = n /\ Bad(t)
    OBVIOUS
  <2>3. CASE n = 0
    <3>1. t = <<>> /\ a \o t = a
      BY <2>2, <2>3
    <3>2. FlattenSeq(a) \in Seq(Lines)
      BY NoLines, FlattenAppend DEF Buffers
    <3>3. FlattenSeq(a) \o <<>> = FlattenSeq(a)
      BY <3>2
    <3> QED
      BY <2>2, <3>1, <3>3, FlattenEmpty
  <2>4. CASE n # 0
    <3> DEFINE r == SubSeq(t, 1, n - 1)
               x == t[n]
    <3>1. r \in Seq(Buffers) /\ Len(r) = n - 1 /\ x \in Buffers /\ n - 1 \in Nat
      BY <2>2, <2>4
    <3>2. t = Append(r, x)
      BY <2>2, <2>4
    <3> HIDE DEF r, x
    <3>3. ~Bad(r)
      <4>1. n - 1 \notin T
        BY <2>1, <3>1
      <4> QED
        BY <3>1, <4>1
    <3>4. /\ FlattenSeq(a) \in Buffers
          /\ FlattenSeq(r) \in Buffers
          /\ FlattenSeq(t) = FlattenSeq(r) \o x
      BY <3>1, <3>2, FlattenAppend
    <3>5. a \o r \in Seq(Buffers) /\ a \o t = Append(a \o r, x)
      BY <3>1, <3>2, AppendConcat
    <3>6. FlattenSeq(a \o t) = FlattenSeq(a \o r) \o x
      BY <3>1, <3>5, FlattenAppend
    <3>7. (FlattenSeq(a) \o FlattenSeq(r)) \o x
             = FlattenSeq(a) \o (FlattenSeq(r) \o x)
      BY <3>1, <3>4, LinesAssociate
    <3>8. FlattenSeq(a \o r) = FlattenSeq(a) \o FlattenSeq(r)
      BY <3>3
    <3> QED
      BY <2>2, <3>4, <3>6, <3>7, <3>8
  <2> QED
    BY <2>3, <2>4
<1> QED
  <2>1. Len(b) \in Nat
    OBVIOUS
  <2> QED
    BY <1>1, <2>1

-----------------------------------------------------------------------------
(* No line is lost.                                                        *)

(* A spare buffer is empty.                                                *)
SpareEmpty == m_nextBuffer \in {<<>>, NoBuffer}

LinesInv ==
    /\ TypeOK
    /\ LogInv
    /\ SpareEmpty
    /\ LinesConserved

(* What append keeps of a line, and of the lines appended.                 *)
Kept(l) == IF l \in LongLines THEN <<>> ELSE <<l>>

KeptOf(s) == [i \in DOMAIN s |-> IF s[i] \in LongLines THEN <<>> ELSE <<s[i]>>]

(* The lines the writer, the full buffers and the front buffer hold.       *)
Holds(b, f, c) == FlattenSeq(b \o f \o <<c>>)

LEMMA ConservedIs ==
    LinesConserved <=> m_os \o Holds(buffersToWrite, m_buffers, m_curBuffer)
                          = FlattenSeq(KeptOf(appended))
BY DEF LinesConserved, Holds, KeptOf

LEMMA KeptType ==
    ASSUME NEW l \in Lines
    PROVE  Kept(l) \in Buffers
BY LoggingAssumption DEF Kept, Buffers

LEMMA KeptMore ==
    ASSUME NEW s \in Seq(Lines), NEW l \in Lines
    PROVE  /\ FlattenSeq(KeptOf(s)) \in Buffers
           /\ FlattenSeq(KeptOf(Append(s, l))) = FlattenSeq(KeptOf(s)) \o Kept(l)
<1> DEFINE n == Len(s)
           k == KeptOf(s)
           t == Append(s, l)
<1>1. n \in Nat /\ DOMAIN s = 1 .. n
  OBVIOUS
<1>2. /\ t \in Seq(Lines)
      /\ DOMAIN t = 1 .. n + 1
      /\ t[n + 1] = l
      /\ \A i \in 1 .. n : t[i] = s[i]
  BY AppendProperties, LenProperties
<1>3. k \in Seq(Buffers) /\ Len(k) = n /\ \A i \in 1 .. n : k[i] = Kept(s[i])
  <2>1. \A i \in 1 .. n : s[i] \in Lines
    BY <1>1
  <2>2. \A i \in 1 .. n : Kept(s[i]) \in Buffers
    BY <2>1, KeptType
  <2>3. k = [i \in 1 .. n |-> Kept(s[i])]
    BY <1>1 DEF KeptOf, Kept
  <2> HIDE DEF k, n
  <2> QED
    BY <1>1, <2>2, <2>3
<1>4. KeptOf(t) = Append(k, Kept(l))
  <2>1. KeptOf(t) = [i \in 1 .. n + 1 |-> Kept(t[i])]
    BY <1>2 DEF KeptOf, Kept
  <2>2. Append(k, Kept(l)) = [i \in 1 .. n + 1 |-> IF i = n + 1 THEN Kept(l) ELSE k[i]]
    <3>1. Kept(l) \in Buffers
      BY KeptType
    <3> DEFINE x == Kept(l)
    <3> HIDE DEF k, n, x
    <3>2. x \in Buffers
      BY <3>1 DEF x
    <3>3. /\ Append(k, x) \in Seq(Buffers)
          /\ Len(Append(k, x)) = n + 1
          /\ \A i \in 1 .. n : Append(k, x)[i] = k[i]
          /\ Append(k, x)[n + 1] = x
      BY <1>3, <3>2, AppendProperties
    <3> DEFINE a == Append(k, x)
    <3> HIDE DEF a
    <3>4. a = [i \in 1 .. n + 1 |-> a[i]]
      <4>1. a \in Seq(Buffers) /\ Len(a) = n + 1
        BY <3>3 DEF a
      <4> QED
        BY <4>1, <1>1
    <3>5. ASSUME NEW i \in 1 .. n + 1
          PROVE  a[i] = IF i = n + 1 THEN x ELSE k[i]
      <4>1. i # n + 1 => i \in 1 .. n
        BY <1>1
      <4> QED
        BY <4>1, <3>3 DEF a
    <3>6. a = [i \in 1 .. n + 1 |-> IF i = n + 1 THEN x ELSE k[i]]
      BY <3>4, <3>5
    <3> QED
      BY <3>6 DEF x, a
  <2>3. ASSUME NEW i \in 1 .. n + 1
        PROVE  Kept(t[i]) = IF i = n + 1 THEN Kept(l) ELSE k[i]
    <3>1. i # n + 1 => i \in 1 .. n
      BY <1>1
    <3> HIDE DEF k, n, t
    <3> QED
      BY <3>1, <1>2, <1>3
  <2> HIDE DEF k, n, t
  <2> QED
    BY <2>1, <2>2, <2>3
<1> HIDE DEF k, n, t
<1> QED
  BY <1>3, <1>4, KeptType, FlattenAppend DEF k, t

LEMMA HoldsIs ==
    ASSUME NEW b \in Seq(Buffers), NEW f \in Seq(Buffers), NEW c \in Buffers
    PROVE  /\ Holds(b, f, c) = (FlattenSeq(b) \o FlattenSeq(f)) \o c
           /\ FlattenSeq(b) \in Buffers
           /\ FlattenSeq(f) \in Buffers
           /\ FlattenSeq(b) \o FlattenSeq(f) \in Buffers
           /\ Holds(b, f, c) \in Buffers
<1>1. b \o f \in Seq(Buffers) /\ (b \o f) \o <<c>> = Append(b \o f, c)
  OBVIOUS
<1>2. Holds(b, f, c) = FlattenSeq(b \o f) \o c
  BY <1>1, FlattenAppend DEF Holds
<1>3. FlattenSeq(b \o f) = FlattenSeq(b) \o FlattenSeq(f)
  BY FlattenConcat
<1>4. FlattenSeq(b) \in Buffers /\ FlattenSeq(f) \in Buffers
  BY NoLines, FlattenAppend
<1>5. FlattenSeq(b) \o FlattenSeq(f) \in Buffers
  BY <1>4, LinesAssociate
<1> QED
  BY <1>2, <1>3, <1>4, <1>5, LinesAssociate

LEMMA NothingMore ==
    ASSUME NEW a \in Buffers
    PROVE  a \o <<>> = a /\ <<>> \o a = a
BY ConcatEmptySeq DEF Buffers

(* An append lengthens what is held by what is kept of the line.           *)
LEMMA LineKept ==
    ASSUME LinesInv, NEW l \in Lines, appended' = Append(appended, l), m_os' = m_os,
           Holds(buffersToWrite, m_buffers, m_curBuffer)'
              = Holds(buffersToWrite, m_buffers, m_curBuffer) \o Kept(l)
    PROVE  LinesConserved'
<1> DEFINE h == Holds(buffersToWrite, m_buffers, m_curBuffer)
<1>1. /\ m_os \in Buffers
      /\ h \in Buffers
      /\ Kept(l) \in Buffers
      /\ appended \in Seq(Lines)
  BY HoldsIs, KeptType DEF LinesInv, LogInv, TypeOK, Buffers
<1>2. m_os \o h = FlattenSeq(KeptOf(appended))
  BY ConservedIs DEF LinesInv
<1>3. m_os \o (h \o Kept(l)) = (m_os \o h) \o Kept(l)
  BY <1>1, LinesAssociate
<1>4. FlattenSeq(KeptOf(appended)) \o Kept(l) = FlattenSeq(KeptOf(appended'))
  BY <1>1, KeptMore
<1>5. m_os' \o Holds(buffersToWrite', m_buffers', m_curBuffer')
         = FlattenSeq(KeptOf(appended'))
  BY <1>2, <1>3, <1>4
<1> QED
  BY <1>5 DEF LinesConserved, Holds, KeptOf

(* What is held moved on, and with what is written is the same.            *)
LEMMA LinesMoved ==
    ASSUME LinesInv, appended' = appended,
           m_os' \o Holds(buffersToWrite, m_buffers, m_curBuffer)'
              = m_os \o Holds(buffersToWrite, m_buffers, m_curBuffer)
    PROVE  LinesConserved'
<1>1. m_os \o Holds(buffersToWrite, m_buffers, m_curBuffer) = FlattenSeq(KeptOf(appended))
  BY ConservedIs DEF LinesInv
<1>2. m_os' \o Holds(buffersToWrite', m_buffers', m_curBuffer')
         = FlattenSeq(KeptOf(appended'))
  BY <1>1
<1> QED
  BY <1>2 DEF LinesConserved, Holds, KeptOf

LEMMA LinesInvInit == Init => LinesInv
<1> SUFFICES ASSUME Init
             PROVE  LinesInv
  OBVIOUS
<1>1. /\ m_curBuffer = <<>>
      /\ m_buffers = <<>>
      /\ buffersToWrite = <<>>
      /\ m_os = <<>>
      /\ appended = <<>>
      /\ m_nextBuffer = <<>>
      /\ newBuffer1 = <<>>
      /\ newBuffer2 = <<>>
  BY DEF Init
<1>2. TypeOK
  <2>1. <<>> \in Seq(Buffers) /\ <<>> \in Seq(Lines)
    OBVIOUS
  <2> QED
    BY <1>1, <2>1, NoLines DEF Init, TypeOK
<1>3. LinesConserved
  <2>1. Holds(<<>>, <<>>, <<>>) = <<>>
    <3>1. <<>> \in Seq(Buffers)
      OBVIOUS
    <3> QED
      BY <3>1, NoLines, HoldsIs, FlattenEmpty, NothingMore
  <2>2. KeptOf(<<>>) = <<>>
    BY DEF KeptOf
  <2>3. <<>> \o <<>> = <<>>
    BY NoLines, NothingMore
  <2> QED
    BY <1>1, <2>1, <2>2, <2>3, FlattenEmpty, ConservedIs
<1> QED
  BY <1>1, <1>2, <1>3, LogInvInit DEF LinesInv, SpareEmpty

LEMMA TypeStep ==
    ASSUME LinesInv, [Next]_vars, LogInv'
    PROVE  TypeOK'
<1> USE DEF TypeOK
<1>1. ASSUME NEW l \in Lines, AppendHere(l)
      PROVE  TypeOK'
  BY <1>1 DEF AppendHere, writerVars, Buffers, LinesInv, LogInv
<1>2. ASSUME NEW l \in Lines, AppendNext(l)
      PROVE  TypeOK'
  <2>1. /\ appended' \in Seq(Lines)
        /\ UNCHANGED <<m_running, newBuffer1, newBuffer2, buffersToWrite, m_os, failed>>
    BY <1>2 DEF AppendNext, writerVars, LinesInv
  <2>2. pc' \in {"unstarted", "while", "lock", "wait", "swap", "write", "exit"}
    BY <1>2 DEF AppendNext, SignalWriter, LinesInv
  <2> QED
    BY <2>1, <2>2 DEF LogInv, LinesInv
<1>3. CASE Start
  BY <1>3 DEF Start, frontVars, writerVars, LinesInv
<1>4. CASE Stop
  BY <1>4 DEF Stop, SignalWriter, frontVars, writerVars, LinesInv
<1>5. CASE EndWait
  BY <1>5 DEF EndWait, frontVars, writerVars, LinesInv
<1>6. CASE WhileTest
  BY <1>6 DEF WhileTest, frontVars, writerVars, LinesInv
<1>7. CASE WaitForLines
  BY <1>7 DEF WaitForLines, frontVars, writerVars, LinesInv
<1>8. CASE Swap
  <2>1. UNCHANGED <<m_running, m_os, appended, failed>> /\ pc' = "write"
    BY <1>8 DEF Swap
  <2>2. newBuffer2' \in Buffers \cup {NoBuffer}
    BY <1>8 DEF Swap, LinesInv
  <2> QED
    BY <2>1, <2>2 DEF LogInv, LinesInv
<1>9. CASE Write
  <2>1. m_os' \in Seq(Lines)
    <3>1. m_os \in Buffers /\ FlattenSeq(buffersToWrite) \in Buffers
      BY NoLines, FlattenAppend DEF LinesInv, Buffers
    <3>2. m_os' = m_os \o FlattenSeq(buffersToWrite)
      BY <1>9 DEF Write
    <3> QED
      BY <3>1, <3>2, LinesAssociate DEF Buffers
  <2>2. /\ UNCHANGED <<m_running, appended>>
        /\ newBuffer2' = <<>>
        /\ pc' = "while"
        /\ failed' \in BOOLEAN
    BY <1>9 DEF Write, frontVars
  <2> QED
    BY <2>1, <2>2, NoLines DEF LogInv, LinesInv
<1>10. CASE UNCHANGED vars
  BY <1>10 DEF vars, LinesInv
<1> QED
  BY <1>1, <1>2, <1>3, <1>4, <1>5, <1>6, <1>7, <1>8, <1>9, <1>10
  DEF Next, WriterStep

LEMMA SpareStep ==
    ASSUME LinesInv, [Next]_vars
    PROVE  SpareEmpty'
<1> USE DEF SpareEmpty, LinesInv
<1>1. ASSUME NEW l \in Lines, AppendHere(l) \/ AppendNext(l)
      PROVE  SpareEmpty'
  BY <1>1 DEF AppendHere, AppendNext
<1>2. CASE Start \/ Stop \/ EndWait \/ WhileTest \/ WaitForLines \/ Write
  BY <1>2 DEF Start, Stop, EndWait, WhileTest, WaitForLines, Write, frontVars
<1>3. CASE Swap
  <2>1. newBuffer2 = <<>>
    BY <1>3 DEF Swap, LogInv, AtRest
  <2> QED
    BY <1>3, <2>1 DEF Swap
<1>4. CASE UNCHANGED vars
  BY <1>4 DEF vars
<1> QED
  BY <1>1, <1>2, <1>3, <1>4 DEF Next, WriterStep

LEMMA ConservedStep ==
    ASSUME LinesInv, [Next]_vars
    PROVE  LinesConserved'
<1> DEFINE b == FlattenSeq(buffersToWrite)
           f == FlattenSeq(m_buffers)
           h == Holds(buffersToWrite, m_buffers, m_curBuffer)
<1>1. /\ m_buffers \in Seq(Buffers)
      /\ buffersToWrite \in Seq(Buffers)
      /\ m_curBuffer \in Buffers
      /\ m_os \in Buffers
  BY DEF LinesInv, LogInv, TypeOK, Buffers
<1>2. /\ h = (b \o f) \o m_curBuffer
      /\ b \in Buffers
      /\ f \in Buffers
      /\ b \o f \in Buffers
      /\ h \in Buffers
  BY <1>1, HoldsIs
<1> HIDE DEF b, f, h
<1>0. /\ (b \o f) \o m_curBuffer = b \o (f \o m_curBuffer)
      /\ f \o m_curBuffer \in Buffers
  <2>1. PICK x \in Buffers, y \in Buffers, z \in Buffers :
           x = b /\ y = f /\ z = m_curBuffer
    BY <1>1, <1>2
  <2>2. (x \o y) \o z = x \o (y \o z) /\ y \o z \in Buffers
    BY LinesAssociate
  <2> QED
    BY <2>1, <2>2
<1>3. ASSUME NEW l \in Lines, AppendHere(l)
      PROVE  LinesConserved'
  <2>1. /\ appended' = Append(appended, l)
        /\ m_curBuffer' = Append(m_curBuffer, l)
        /\ UNCHANGED <<m_buffers, buffersToWrite, m_os>>
        /\ Kept(l) = <<l>>
    BY <1>3 DEF AppendHere, writerVars, HasRoom, Kept
  <2>2. m_curBuffer' = m_curBuffer \o Kept(l) /\ m_curBuffer' \in Buffers
    BY <1>1, <2>1 DEF Buffers
  <2>3. Holds(buffersToWrite, m_buffers, m_curBuffer')
           = (b \o f) \o (m_curBuffer \o Kept(l))
    BY <1>1, <2>2, HoldsIs DEF b, f
  <2>4. ((b \o f) \o m_curBuffer) \o Kept(l) = (b \o f) \o (m_curBuffer \o Kept(l))
    <3>1. PICK x \in Buffers, y \in Buffers, z \in Buffers :
             x = b \o f /\ y = m_curBuffer /\ z = Kept(l)
      BY <1>1, <1>2, KeptType
    <3>2. (x \o y) \o z = x \o (y \o z)
      BY LinesAssociate
    <3> QED
      BY <3>1, <3>2
  <2>5. Holds(buffersToWrite, m_buffers, m_curBuffer)' = h \o Kept(l)
    BY <1>2, <2>1, <2>3, <2>4
  <2> QED
    BY <2>1, <2>5, LineKept DEF h
<1>4. ASSUME NEW l \in Lines, AppendNext(l)
      PROVE  LinesConserved'
  <2>1. /\ appended' = Append(appended, l)
        /\ m_buffers' = Append(m_buffers, m_curBuffer)
        /\ UNCHANGED <<buffersToWrite, m_os>>
    BY <1>4 DEF AppendNext, writerVars
  <2>2. m_curBuffer' = Kept(l)
    <3>1. m_curBuffer' = Put(<<>>, l)
      BY <1>4 DEF AppendNext, LinesInv, SpareEmpty
    <3>2. HasRoom(<<>>, l) <=> l \notin LongLines
      BY LoggingAssumption DEF HasRoom
    <3>3. Append(<<>>, l) = <<l>>
      OBVIOUS
    <3> QED
      BY <3>1, <3>2, <3>3 DEF Put, Kept
  <2>3. m_buffers' \in Seq(Buffers) /\ FlattenSeq(m_buffers') = f \o m_curBuffer
    BY <1>1, <2>1, FlattenAppend, AppendProperties DEF f
  <2>4. Holds(buffersToWrite, m_buffers', Kept(l)) = (b \o (f \o m_curBuffer)) \o Kept(l)
    <3>1. PICK x \in Buffers : x = Kept(l)
      BY KeptType
    <3>2. Holds(buffersToWrite, m_buffers', x)
             = (FlattenSeq(buffersToWrite) \o FlattenSeq(m_buffers')) \o x
      BY <1>1, <2>3, HoldsIs
    <3> QED
      BY <2>3, <3>1, <3>2 DEF b
  <2>5. b \o (f \o m_curBuffer) = h
    BY <1>2, <1>0
  <2>6. Holds(buffersToWrite, m_buffers, m_curBuffer)' = h \o Kept(l)
    BY <2>1, <2>2, <2>4, <2>5
  <2> QED
    BY <2>1, <2>6, LineKept DEF h
<1>5. CASE Start \/ Stop \/ EndWait \/ WhileTest \/ WaitForLines \/ UNCHANGED vars
  <2>1. UNCHANGED <<appended, m_os, buffersToWrite, m_buffers, m_curBuffer>>
    BY <1>5 DEF Start, Stop, EndWait, WhileTest, WaitForLines, vars, frontVars, writerVars
  <2> QED
    BY <2>1, LinesMoved
<1>6. CASE Swap
  <2>1. buffersToWrite = <<>> /\ newBuffer1 = <<>>
    BY <1>6 DEF Swap, LinesInv, LogInv, AtRest
  <2>2. /\ buffersToWrite' = Append(m_buffers, m_curBuffer)
        /\ m_buffers' = <<>>
        /\ m_curBuffer' = <<>>
        /\ UNCHANGED <<appended, m_os>>
    BY <1>6, <2>1 DEF Swap
  <2>3. buffersToWrite' \in Seq(Buffers) /\ FlattenSeq(buffersToWrite') = f \o m_curBuffer
    BY <1>1, <2>2, FlattenAppend, AppendProperties DEF f
  <2>4. Holds(buffersToWrite', <<>>, <<>>) = ((f \o m_curBuffer) \o <<>>) \o <<>>
    <3>1. <<>> \in Seq(Buffers)
      OBVIOUS
    <3> QED
      BY <3>1, <2>3, NoLines, HoldsIs, FlattenEmpty
  <2>5. f \o m_curBuffer \in Buffers
    BY <1>1, <1>2, LinesAssociate
  <2>6. Holds(buffersToWrite', <<>>, <<>>) = f \o m_curBuffer
    BY <2>4, <2>5, NothingMore
  <2>7. b = <<>> /\ b \o f = f
    BY <1>2, <2>1, FlattenEmpty, NothingMore DEF b
  <2>8. Holds(buffersToWrite, m_buffers, m_curBuffer)' = h
    BY <1>2, <2>2, <2>6, <2>7
  <2> QED
    BY <2>2, <2>8, LinesMoved DEF h
<1>7. CASE Write
  <2>1. /\ m_os' = m_os \o b
        /\ buffersToWrite' = <<>>
        /\ UNCHANGED <<appended, m_buffers, m_curBuffer>>
    BY <1>7 DEF Write, frontVars, b
  <2>2. Holds(<<>>, m_buffers, m_curBuffer) = (<<>> \o f) \o m_curBuffer
    <3>1. <<>> \in Seq(Buffers)
      OBVIOUS
    <3>2. Holds(<<>>, m_buffers, m_curBuffer)
             = (FlattenSeq(<<>>) \o FlattenSeq(m_buffers)) \o m_curBuffer
      BY <3>1, <1>1, HoldsIs
    <3> QED
      BY <3>2, FlattenEmpty DEF f
  <2>3. Holds(buffersToWrite, m_buffers, m_curBuffer)' = f \o m_curBuffer
    BY <1>2, <2>1, <2>2, NothingMore
  <2>4. f \o m_curBuffer \in Buffers /\ h = b \o (f \o m_curBuffer)
    BY <1>2, <1>0
  <2>5. (m_os \o b) \o (f \o m_curBuffer) = m_os \o (b \o (f \o m_curBuffer))
    BY <1>1, <1>2, <2>4, LinesAssociate
  <2>6. m_os' \o Holds(buffersToWrite, m_buffers, m_curBuffer)' = m_os \o h
    BY <2>1, <2>3, <2>4, <2>5
  <2> QED
    BY <2>1, <2>6, LinesMoved DEF h
<1> QED
  BY <1>3, <1>4, <1>5, <1>6, <1>7 DEF Next, WriterStep

LEMMA LinesInvNext == LinesInv /\ [Next]_vars => LinesInv'
<1> SUFFICES ASSUME LinesInv, [Next]_vars
             PROVE  LinesInv'
  OBVIOUS
<1>1. LogInv'
  BY LogInvNext DEF LinesInv
<1> QED
  BY <1>1, TypeStep, SpareStep, ConservedStep DEF LinesInv

LEMMA LinesInvHolds == Spec => []LinesInv
BY LinesInvInit, LinesInvNext, PTL DEF Spec

(* Type correctness: what m_os takes is lines, whatever the writer swapped *)
(* out.                                                                    *)
THEOREM TypeCorrect == Spec => []TypeOK
<1>1. LinesInv => TypeOK
  BY DEF LinesInv
<1> QED
  BY <1>1, LinesInvHolds, PTL

(* append, the swap and the reuse of buffers: no line is lost, written     *)
(* twice or out of order, for any lines, any capacity of the buffers and   *)
(* however far the writer falls behind.                                    *)
THEOREM LinesKept == Spec => []LinesConserved
<1>1. LinesInv => LinesConserved
  BY DEF LinesInv
<1> QED
  BY <1>1, LinesInvHolds, PTL

===============================================================================
