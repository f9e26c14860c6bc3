--------------------------- MODULE TcpServerProofs ---------------------------
(***************************************************************************)
(* Proofs about TcpServer, for any numbers of loops, connections and       *)
(* threads, any calls and any partial writes, in this order:               *)
(*   - what a peer receives is what was sent on its connection, whole and  *)
(*     in order, with the end of the stream after it (DataInv);            *)
(*   - the server uses its thread pool as the pool must be used, so that   *)
(*     what is proved of the pool is true in the server (MapInv);          *)
(*   - where each functor of a connection may be queued, and the types     *)
(*     (FlowInv);                                                          *)
(*   - no channel of a destroyed connection stays registered (RegInv);     *)
(*   - no assertion fails (CalmInv);                                       *)
(*   - every connection lives as ConnectionLife says (LifeInv).            *)
(***************************************************************************)
EXTENDS TcpServer, SequenceTheorems, FiniteSetTheorems, TLAPS

(* The stream of a connection on which k messages were sent.               *)
Stream(k) == [i \in 1 .. k * MsgLen |-> i]

-----------------------------------------------------------------------------
(* Sequences.                                                              *)

LEMMA Joined ==
    ASSUME NEW s \in Seq(Nat), NEW t \in Seq(Nat)
    PROVE  /\ s \o t \in Seq(Nat)
           /\ Len(s \o t) = Len(s) + Len(t)
           /\ \A i \in 1 .. Len(s) + Len(t) :
                 (s \o t)[i] = IF i <= Len(s) THEN s[i] ELSE t[i - Len(s)]
BY ConcatProperties

LEMMA Associative ==
    ASSUME NEW r \in Seq(Nat), NEW s \in Seq(Nat), NEW t \in Seq(Nat)
    PROVE  (r \o s) \o t = r \o (s \o t)
BY ConcatAssociative

LEMMA StreamGrows ==
    ASSUME NEW k \in Nat
    PROVE  /\ Message(k + 1) \in Seq(Nat) /\ Len(Message(k + 1)) = MsgLen
           /\ Stream(k) \in Seq(Nat)
           /\ Stream(k) \o Message(k + 1) = Stream(k + 1)
<1> DEFINE m == Message(k + 1)
           n == k * MsgLen
<1>1. n \in Nat /\ MsgLen \in Nat /\ (k + 1) * MsgLen = n + MsgLen
  BY ServerAssumption
<1>2. m = [i \in 1 .. MsgLen |-> n + i]
  BY <1>1 DEF Message
<1>3. Stream(k) = [i \in 1 .. n |-> i] /\ Stream(k + 1) = [i \in 1 .. n + MsgLen |-> i]
  BY <1>1 DEF Stream
<1> HIDE DEF m, n
<1>4. m \in Seq(Nat) /\ Len(m) = MsgLen /\ \A i \in 1 .. MsgLen : m[i] = n + i
  BY <1>1, <1>2
<1>5. /\ Stream(k) \in Seq(Nat) /\ Len(Stream(k)) = n
      /\ Stream(k + 1) \in Seq(Nat) /\ Len(Stream(k + 1)) = n + MsgLen
      /\ \A i \in 1 .. n : Stream(k)[i] = i
      /\ \A i \in 1 .. n + MsgLen : Stream(k + 1)[i] = i
  BY <1>1, <1>3
<1>6. /\ Stream(k) \o m \in Seq(Nat)
      /\ Len(Stream(k) \o m) = n + MsgLen
      /\ \A i \in 1 .. n + MsgLen :
            (Stream(k) \o m)[i] = IF i <= n THEN Stream(k)[i] ELSE m[i - n]
  <2>1. Stream(k) \in Seq(Nat) /\ m \in Seq(Nat)
    BY <1>4, <1>5
  <2>2. /\ Stream(k) \o m \in Seq(Nat)
        /\ Len(Stream(k) \o m) = Len(Stream(k)) + Len(m)
        /\ \A i \in 1 .. Len(Stream(k)) + Len(m) :
              (Stream(k) \o m)[i] = IF i <= Len(Stream(k)) THEN Stream(k)[i]
                                    ELSE m[i - Len(Stream(k))]
    BY <2>1, Joined
  <2> QED
    BY <1>4, <1>5, <2>2
<1>7. \A i \in 1 .. n + MsgLen : (Stream(k) \o m)[i] = i
  <2>1. ASSUME NEW i \in 1 .. n + MsgLen, ~(i <= n)
        PROVE  m[i - n] = i
    <3>1. i - n \in 1 .. MsgLen /\ n + (i - n) = i
      BY <1>1, <2>1
    <3> QED
      BY <1>4, <3>1
  <2>2. ASSUME NEW i \in 1 .. n + MsgLen, i <= n
        PROVE  Stream(k)[i] = i
    <3>1. i \in 1 .. n
      BY <1>1, <2>2
    <3> QED
      BY <1>5, <3>1
  <2> QED
    BY <1>6, <2>1, <2>2
<1>8. Stream(k) \o m = Stream(k + 1)
  BY <1>5, <1>6, <1>7, SeqEqual
<1> QED
  BY <1>4, <1>5, <1>8 DEF m

(* A message is cut in two.                                                *)
LEMMA CutInTwo ==
    ASSUME NEW s \in Seq(Nat), NEW n \in 0 .. Len(s)
    PROVE  /\ SubSeq(s, 1, n) \in Seq(Nat)
           /\ SubSeq(s, n + 1, Len(s)) \in Seq(Nat)
           /\ SubSeq(s, 1, n) \o SubSeq(s, n + 1, Len(s)) = s
           /\ n = 0 => SubSeq(s, 1, n) = <<>> /\ SubSeq(s, n + 1, Len(s)) = s
           /\ n = Len(s) => SubSeq(s, n + 1, Len(s)) = <<>>
<1>1. Len(s) \in Nat /\ n \in Nat
  BY LenProperties
<1>2. SubSeq(s, 1, n) \in Seq(Nat)
  BY <1>1, SubSeqProperties, ElementOfSeq
<1>3. SubSeq(s, n + 1, Len(s)) \in Seq(Nat)
  <2>1. \A i \in n + 1 .. Len(s) : s[i] \in Nat
    BY <1>1, ElementOfSeq
  <2> QED
    BY <1>1, <2>1, SubSeqProperties
<1>4. SubSeq(s, 1, n) \o SubSeq(s, n + 1, Len(s)) = SubSeq(s, 1, Len(s))
  <2>1. /\ 1 \in 1 .. Len(s) + 1
        /\ n \in 1 - 1 .. Len(s)
        /\ Len(s) \in n .. Len(s)
    BY <1>1
  <2> QED
    BY <2>1, ConcatAdjacentSubSeq
<1>5. SubSeq(s, 1, Len(s)) = s
  BY SubSeqFull
<1>6. n = 0 => SubSeq(s, 1, n) = <<>>
  BY <1>1, SubSeqEmpty
<1>7. n = Len(s) => SubSeq(s, n + 1, Len(s)) = <<>>
  BY <1>1, SubSeqEmpty
<1>8. n = 0 => SubSeq(s, n + 1, Len(s)) = s
  BY <1>5
<1> QED
  BY <1>2, <1>3, <1>4, <1>5, <1>6, <1>7, <1>8

-----------------------------------------------------------------------------
(* The functors queued.  A connection is established by one functor, which *)
(* is in one place from newConnection until it runs, and no data is queued *)
(* for the connection before.                                              *)

Entry == Functors \X Conns
Est(c) == <<"connectEstablished", c>>
Snd(c) == <<"sendInLoop", c>>

In(q, f) == \E i \in DOMAIN q : q[i] = f
OnceIn(q, f) == \A i, j \in DOMAIN q : q[i] = f /\ q[j] = f => i = j

(* With p and b the functors pending and in the batches, u the connection  *)
(* callbacks and n the connections made.                                   *)
Waits(p, b, l, c) == In(p[l], Est(c)) \/ In(b[l], Est(c))

PlaceOK(p, b, u, n, l, c) ==
    /\ OnceIn(p[l], Est(c)) /\ OnceIn(b[l], Est(c))
    /\ ~(In(p[l], Est(c)) /\ In(b[l], Est(c)))
    /\ Waits(p, b, l, c) => /\ u[c] = 0 /\ c <= n
                            /\ \A k \in AllLoops \ {l} : ~Waits(p, b, k, c)
    /\ In(p[l], Snd(c)) \/ In(b[l], Snd(c)) => u[c] > 0

QueuesOK(p, b, u, n) ==
    /\ p \in [AllLoops -> Seq(Entry)]
    /\ b \in [AllLoops -> Seq(Entry)]
    /\ \A l \in AllLoops, c \in Conns : PlaceOK(p, b, u, n, l, c)

LEMMA Appended ==
    ASSUME NEW q \in Seq(Entry), NEW f \in Entry, NEW g
    PROVE  /\ Append(q, f) \in Seq(Entry)
           /\ In(Append(q, f), g) <=> In(q, g) \/ f = g
           /\ OnceIn(q, g) /\ ~(f = g /\ In(q, g)) => OnceIn(Append(q, f), g)
<1> DEFINE r == Append(q, f)
<1>1. /\ r \in Seq(Entry) /\ Len(r) = Len(q) + 1 /\ Len(q) \in Nat
      /\ \A i \in 1 .. Len(q) : r[i] = q[i]
      /\ r[Len(q) + 1] = f
      /\ DOMAIN q = 1 .. Len(q) /\ DOMAIN r = 1 .. Len(q) + 1
  BY AppendProperties, LenProperties
<1> HIDE DEF r
<1>2. In(r, g) <=> In(q, g) \/ f = g
  BY <1>1 DEF In
<1>3. OnceIn(q, g) /\ ~(f = g /\ In(q, g)) => OnceIn(r, g)
  BY <1>1 DEF In, OnceIn
<1> QED
  BY <1>1, <1>2, <1>3 DEF r

LEMMA Popped ==
    ASSUME NEW q \in Seq(Entry), q # <<>>, NEW g
    PROVE  /\ Tail(q) \in Seq(Entry)
           /\ In(Tail(q), g) => In(q, g)
           /\ OnceIn(q, g) => OnceIn(Tail(q), g)
           /\ Head(q) = g => In(q, g)
           /\ Head(q) = g /\ OnceIn(q, g) => ~In(Tail(q), g)
<1> DEFINE r == Tail(q)
<1>1. /\ r \in Seq(Entry) /\ Len(r) = Len(q) - 1 /\ Len(q) \in Nat \ {0}
      /\ \A i \in 1 .. Len(r) : r[i] = q[i + 1]
      /\ Head(q) = q[1]
      /\ DOMAIN q = 1 .. Len(q) /\ DOMAIN r = 1 .. Len(r)
  BY HeadTailProperties, LenProperties, EmptySeq
<1> HIDE DEF r
<1>2. ASSUME NEW i \in DOMAIN r
      PROVE  i \in Nat /\ i + 1 \in DOMAIN q /\ q[i + 1] = r[i] /\ i + 1 # 1
  BY <1>1
<1>3. In(r, g) => In(q, g)
  BY <1>2 DEF In
<1>4. OnceIn(q, g) => OnceIn(r, g)
  <2>1. ASSUME OnceIn(q, g), NEW i \in DOMAIN r, NEW j \in DOMAIN r,
               r[i] = g, r[j] = g
        PROVE  i = j
    <3>1. i + 1 = j + 1
      BY <1>2, <2>1 DEF OnceIn
    <3> QED
      BY <1>2, <3>1
  <2> QED
    BY <2>1 DEF OnceIn
<1>5. 1 \in DOMAIN q
  BY <1>1
<1>6. Head(q) = g => In(q, g)
  BY <1>1, <1>5 DEF In
<1>7. Head(q) = g /\ OnceIn(q, g) => ~In(r, g)
  BY <1>1, <1>2, <1>5 DEF In, OnceIn
<1> QED
  BY <1>1, <1>3, <1>4, <1>6, <1>7 DEF r

(* A functor other than connectEstablished is queued.                      *)
LEMMA Push ==
    ASSUME NEW p, NEW b, NEW u, NEW n, QueuesOK(p, b, u, n),
           NEW l \in AllLoops, NEW f \in Entry,
           \A c \in Conns : f # Est(c),
           \A c \in Conns : f = Snd(c) => u[c] > 0
    PROVE  QueuesOK([p EXCEPT ![l] = Append(@, f)], b, u, n)
<1> DEFINE r == [p EXCEPT ![l] = Append(@, f)]
<1>1. /\ p \in [AllLoops -> Seq(Entry)] /\ b \in [AllLoops -> Seq(Entry)]
      /\ \A k \in AllLoops, c \in Conns : PlaceOK(p, b, u, n, k, c)
  BY DEF QueuesOK
<1>2. /\ p[l] \in Seq(Entry) /\ r[l] = Append(p[l], f)
      /\ \A k \in AllLoops \ {l} : r[k] = p[k]
      /\ r = [k \in AllLoops |-> IF k = l THEN Append(p[l], f) ELSE p[k]]
  BY <1>1
<1>3. r \in [AllLoops -> Seq(Entry)]
  BY <1>1, <1>2, Appended
<1> HIDE DEF r
<1>4. ASSUME NEW c \in Conns, NEW k \in AllLoops
      PROVE  /\ In(r[k], Est(c)) <=> In(p[k], Est(c))
             /\ OnceIn(p[k], Est(c)) => OnceIn(r[k], Est(c))
             /\ In(r[k], Snd(c)) => In(p[k], Snd(c)) \/ u[c] > 0
  <2>1. CASE k = l
    BY <1>2, <2>1, Appended
  <2>2. CASE k # l
    BY <1>2, <2>2
  <2> QED
    BY <2>1, <2>2
<1>5. ASSUME NEW k \in AllLoops, NEW c \in Conns
      PROVE  PlaceOK(r, b, u, n, k, c)
  BY <1>1, <1>4 DEF PlaceOK, Waits
<1> QED
  BY <1>1, <1>3, <1>5 DEF QueuesOK, r

(* connectEstablished is queued, for a new connection.                     *)
LEMMA PushNew ==
    ASSUME NEW p, NEW b, NEW u, NEW n \in Nat, QueuesOK(p, b, u, n),
           NEW l \in AllLoops, n + 1 \in Conns, u[n + 1] = 0
    PROVE  QueuesOK([p EXCEPT ![l] = Append(@, Est(n + 1))], b, u, n + 1)
<1> DEFINE r == [p EXCEPT ![l] = Append(@, Est(n + 1))]
<1>1. /\ p \in [AllLoops -> Seq(Entry)] /\ b \in [AllLoops -> Seq(Entry)]
      /\ \A k \in AllLoops, c \in Conns : PlaceOK(p, b, u, n, k, c)
  BY DEF QueuesOK
<1>2. /\ p[l] \in Seq(Entry) /\ r[l] = Append(p[l], Est(n + 1))
      /\ \A k \in AllLoops \ {l} : r[k] = p[k]
      /\ Est(n + 1) \in Entry
      /\ r = [k \in AllLoops |-> IF k = l THEN Append(p[l], Est(n + 1)) ELSE p[k]]
  BY <1>1 DEF Est, Entry, Functors
<1>3. r \in [AllLoops -> Seq(Entry)]
  BY <1>1, <1>2, Appended
<1> HIDE DEF r
<1>4. ASSUME NEW c \in Conns, NEW k \in AllLoops, c # n + 1
      PROVE  /\ In(r[k], Est(c)) <=> In(p[k], Est(c))
             /\ OnceIn(p[k], Est(c)) => OnceIn(r[k], Est(c))
  <2>1. Est(n + 1) # Est(c)
    BY <1>4 DEF Est
  <2>2. CASE k = l
    BY <1>2, <2>1, <2>2, Appended
  <2>3. CASE k # l
    BY <1>2, <2>3
  <2> QED
    BY <2>2, <2>3
<1>5. ASSUME NEW c \in Conns, NEW k \in AllLoops
      PROVE  In(r[k], Snd(c)) => In(p[k], Snd(c))
  <2>1. Est(n + 1) # Snd(c)
    BY DEF Est, Snd
  <2>2. CASE k = l
    BY <1>2, <2>1, <2>2, Appended
  <2>3. CASE k # l
    BY <1>2, <2>3
  <2> QED
    BY <2>2, <2>3
<1>6. ASSUME NEW k \in AllLoops
      PROVE  ~In(p[k], Est(n + 1)) /\ ~In(b[k], Est(n + 1))
  BY <1>1, ~(n + 1 <= n) DEF PlaceOK, Waits
<1>7. /\ OnceIn(r[l], Est(n + 1))
      /\ \A k \in AllLoops \ {l} :
            ~In(r[k], Est(n + 1)) /\ OnceIn(r[k], Est(n + 1))
  <2>1. OnceIn(p[l], Est(n + 1)) /\ ~In(p[l], Est(n + 1))
    BY <1>1, <1>6 DEF PlaceOK
  <2> QED
    BY <1>1, <1>2, <1>6, <2>1, Appended DEF PlaceOK
<1>8. ASSUME NEW k \in AllLoops, NEW c \in Conns
      PROVE  PlaceOK(r, b, u, n + 1, k, c)
  <2>1. CASE c = n + 1
    BY <1>1, <1>5, <1>6, <1>7, <2>1 DEF PlaceOK, Waits
  <2>2. CASE c # n + 1
    <3>1. c <= n => c <= n + 1
      BY DEF Conns
    <3> QED
      BY <1>1, <1>4, <1>5, <2>2, <3>1 DEF PlaceOK, Waits
  <2> QED
    BY <2>1, <2>2
<1> QED
  BY <1>1, <1>3, <1>8 DEF QueuesOK, r

(* The next functor of a batch is taken; if it is connectEstablished, its  *)
(* connection may be counted as up.                                        *)
LEMMA PopFunctor ==
    ASSUME NEW p, NEW b, NEW u, NEW n, QueuesOK(p, b, u, n),
           NEW l \in AllLoops, b[l] # <<>>
    PROVE  /\ QueuesOK(p, [b EXCEPT ![l] = Tail(@)], u, n)
           /\ \A c \in Conns : Head(b[l]) = Snd(c) => u[c] > 0
           /\ \A c \in Conns :
                 Head(b[l]) = Est(c) =>
                     /\ u[c] = 0
                     /\ \A k \in AllLoops :
                           ~Waits(p, [b EXCEPT ![l] = Tail(@)], k, c)
<1> DEFINE r == [b EXCEPT ![l] = Tail(@)]
<1>1. /\ p \in [AllLoops -> Seq(Entry)] /\ b \in [AllLoops -> Seq(Entry)]
      /\ \A k \in AllLoops, c \in Conns : PlaceOK(p, b, u, n, k, c)
  BY DEF QueuesOK
<1>2. /\ b[l] \in Seq(Entry) /\ r[l] = Tail(b[l])
      /\ \A k \in AllLoops \ {l} : r[k] = b[k]
      /\ r = [k \in AllLoops |-> IF k = l THEN Tail(b[l]) ELSE b[k]]
  BY <1>1
<1>3. r \in [AllLoops -> Seq(Entry)]
  BY <1>1, <1>2, Popped
<1> HIDE DEF r
<1>4. ASSUME NEW k \in AllLoops, NEW g
      PROVE  /\ In(r[k], g) => In(b[k], g)
             /\ OnceIn(b[k], g) => OnceIn(r[k], g)
  <2>1. CASE k = l
    BY <1>2, <2>1, Popped
  <2>2. CASE k # l
    BY <1>2, <2>2
  <2> QED
    BY <2>1, <2>2
<1>5. ASSUME NEW k \in AllLoops, NEW c \in Conns
      PROVE  PlaceOK(p, r, u, n, k, c)
  BY <1>1, <1>4 DEF PlaceOK, Waits
<1>6. ASSUME NEW c \in Conns, Head(b[l]) = Snd(c)
      PROVE  u[c] > 0
  <2>1. In(b[l], Snd(c))
    BY <1>2, <1>6, Popped
  <2> QED
    BY <1>1, <2>1 DEF PlaceOK
<1>7. ASSUME NEW c \in Conns, Head(b[l]) = Est(c)
      PROVE  u[c] = 0 /\ \A k \in AllLoops : ~Waits(p, r, k, c)
  <2>1. OnceIn(b[l], Est(c))
    BY <1>1 DEF PlaceOK
  <2>2. In(b[l], Est(c)) /\ ~In(r[l], Est(c))
    BY <1>2, <1>7, <2>1, Popped
  <2>3. /\ u[c] = 0 /\ ~In(p[l], Est(c))
        /\ \A k \in AllLoops \ {l} : ~Waits(p, b, k, c)
    BY <1>1, <2>2 DEF PlaceOK, Waits
  <2> QED
    BY <1>4, <2>2, <2>3 DEF Waits
<1> QED
  BY <1>1, <1>3, <1>5, <1>6, <1>7 DEF QueuesOK, r

(* A connection nobody waits for comes up.                                 *)
LEMMA ComesUp ==
    ASSUME NEW p, NEW b, NEW u \in [Conns -> Nat], NEW n, QueuesOK(p, b, u, n),
           NEW c \in Conns, \A k \in AllLoops : ~Waits(p, b, k, c)
    PROVE  QueuesOK(p, b, [u EXCEPT ![c] = @ + 1], n)
<1> DEFINE v == [u EXCEPT ![c] = @ + 1]
<1>1. v[c] = u[c] + 1 /\ u[c] \in Nat /\ \A d \in Conns \ {c} : v[d] = u[d]
  OBVIOUS
<1> HIDE DEF v
<1>2. ASSUME NEW k \in AllLoops, NEW d \in Conns
      PROVE  PlaceOK(p, b, v, n, k, d)
  <2>1. PlaceOK(p, b, u, n, k, d)
    BY DEF QueuesOK
  <2>2. CASE d = c
    BY <1>1, <2>1, <2>2, v[c] > 0 DEF PlaceOK
  <2>3. CASE d # c
    BY <1>1, <2>1, <2>3 DEF PlaceOK
  <2> QED
    BY <2>2, <2>3
<1> QED
  BY <1>2 DEF QueuesOK, v

(* So does a new one, at once.                                             *)
LEMMA ComesUpNew ==
    ASSUME NEW p, NEW b, NEW u \in [Conns -> Nat], NEW n \in Nat,
           QueuesOK(p, b, u, n), n + 1 \in Conns
    PROVE  QueuesOK(p, b, [u EXCEPT ![n + 1] = @ + 1], n + 1)
<1>1. ASSUME NEW k \in AllLoops
      PROVE  ~Waits(p, b, k, n + 1)
  BY ~(n + 1 <= n) DEF QueuesOK, PlaceOK
<1>2. QueuesOK(p, b, u, n + 1)
  <2>1. ASSUME NEW k \in AllLoops, NEW d \in Conns
        PROVE  PlaceOK(p, b, u, n + 1, k, d)
    <3>1. d <= n => d <= n + 1
      BY DEF Conns
    <3> QED
      BY <3>1 DEF QueuesOK, PlaceOK
  <2> QED
    BY <2>1 DEF QueuesOK
<1> QED
  BY <1>1, <1>2, ComesUp

(* The pending functors of a loop become its batch.                        *)
LEMMA Swap ==
    ASSUME NEW p, NEW b, NEW u, NEW n, QueuesOK(p, b, u, n), NEW l \in AllLoops
    PROVE  QueuesOK([p EXCEPT ![l] = <<>>], [b EXCEPT ![l] = p[l]], u, n)
<1> DEFINE r == [p EXCEPT ![l] = <<>>]
           s == [b EXCEPT ![l] = p[l]]
<1>1. /\ p \in [AllLoops -> Seq(Entry)] /\ b \in [AllLoops -> Seq(Entry)]
      /\ \A k \in AllLoops, c \in Conns : PlaceOK(p, b, u, n, k, c)
  BY DEF QueuesOK
<1>2. /\ r \in [AllLoops -> Seq(Entry)] /\ s \in [AllLoops -> Seq(Entry)]
      /\ r[l] = <<>> /\ s[l] = p[l]
      /\ \A k \in AllLoops \ {l} : r[k] = p[k] /\ s[k] = b[k]
  BY <1>1
<1>3. \A g : ~In(<<>>, g) /\ OnceIn(<<>>, g)
  BY DEF In, OnceIn
<1> HIDE DEF r, s
<1>4. ASSUME NEW k \in AllLoops, NEW c \in Conns
      PROVE  PlaceOK(r, s, u, n, k, c)
  <2>1. \A m \in AllLoops : Waits(r, s, m, c) => Waits(p, b, m, c)
    BY <1>2, <1>3 DEF Waits
  <2>2. PlaceOK(p, b, u, n, k, c)
    BY <1>1
  <2>3. CASE k = l
    BY <1>2, <1>3, <2>1, <2>2, <2>3 DEF PlaceOK
  <2>4. CASE k # l
    BY <1>2, <2>1, <2>2, <2>4 DEF PlaceOK
  <2> QED
    BY <2>3, <2>4
<1> QED
  BY <1>2, <1>4 DEF QueuesOK, r, s

-----------------------------------------------------------------------------
(* The data of the connections.                                            *)

DataTypes ==
    /\ out \in [Conns -> Seq(Nat)]
    /\ wire \in [Conns -> Seq(Nat)]
    /\ inflight \in [Conns -> 0 .. SndBuf]
    /\ sent \in [Conns -> Nat]
    /\ wrShut \in [Conns -> BOOLEAN]
    /\ events \in [Conns -> SUBSET {"IN", "OUT"}]

(* While a connection reads, it waits for the socket or has all written.   *)
Flushed ==
    \A c \in Conns : "IN" \in events[c] /\ "OUT" \notin events[c] => out[c] = <<>>

DataInv == DataTypes /\ BytesInOrder /\ Flushed

LEMMA AcceptedFits ==
    ASSUME DataTypes, NEW c \in Conns, NEW len \in Nat
    PROVE  /\ Accepted(c, len) \in 0 .. len
           /\ inflight[c] + Accepted(c, len) \in 0 .. SndBuf
<1>1. inflight[c] \in 0 .. SndBuf /\ SndBuf \in Nat
  BY ServerAssumption DEF DataTypes
<1> QED
  BY <1>1 DEF Accepted

LEMMA DataStays ==
    ASSUME DataInv, UNCHANGED <<dataVars, events>>
    PROVE  DataInv' /\ FinAfterData
BY DEF DataInv, DataTypes, BytesInOrder, Flushed, FinAfterData, dataVars

(* A mask is set.                                                          *)
LEMMA MaskSet ==
    ASSUME DataInv, UNCHANGED dataVars, NEW c \in Conns,
           NEW e \in SUBSET {"IN", "OUT"},
           "IN" \in e /\ "OUT" \notin e => out[c] = <<>>,
           events' = [events EXCEPT ![c] = e]
    PROVE  DataInv' /\ FinAfterData
<1>1. /\ events' \in [Conns -> SUBSET {"IN", "OUT"}]
      /\ events'[c] = e
      /\ \A d \in Conns \ {c} : events'[d] = events[d]
  BY DEF DataInv, DataTypes
<1>2. out' = out /\ wire' = wire /\ inflight' = inflight /\ sent' = sent /\ wrShut' = wrShut
  BY DEF dataVars
<1>3. DataTypes' /\ BytesInOrder' /\ FinAfterData
  BY <1>1, <1>2 DEF DataInv, DataTypes, BytesInOrder, FinAfterData
<1>4. Flushed'
  <2>1. ASSUME NEW d \in Conns, "IN" \in events'[d], "OUT" \notin events'[d]
        PROVE  out'[d] = <<>>
    BY <1>1, <1>2, <2>1 DEF DataInv, Flushed
  <2> QED
    BY <2>1 DEF Flushed
<1> QED
  BY <1>3, <1>4 DEF DataInv

(* sendInLoop                                                              *)
LEMMA SendKeepsOrder ==
    ASSUME DataInv, NEW c \in Conns, SendInLoop(c), UNCHANGED wrShut
    PROVE  DataInv' /\ FinAfterData
<1> DEFINE msg == Message(sent[c] + 1)
           n == IF WritesDirectly(c) THEN Accepted(c, MsgLen) ELSE 0
<1>1. MsgLen \in Nat \ {0} /\ sent[c] \in Nat /\ SndBuf \in Nat
  BY ServerAssumption DEF DataInv, DataTypes
<1>2. n \in 0 .. MsgLen /\ inflight[c] + n \in 0 .. SndBuf
  <2>1. DataTypes /\ inflight[c] \in 0 .. SndBuf
    BY DEF DataInv, DataTypes
  <2> QED
    BY <1>1, <2>1, AcceptedFits
<1>3. /\ msg \in Seq(Nat) /\ Len(msg) = MsgLen
      /\ Stream(sent[c]) \o msg = Stream(sent[c] + 1)
  BY <1>1, StreamGrows
<1>4. /\ sent' = [sent EXCEPT ![c] = @ + 1]
      /\ wire' = [wire EXCEPT ![c] = @ \o SubSeq(msg, 1, n)]
      /\ inflight' = [inflight EXCEPT ![c] = @ + n]
      /\ out' = [out EXCEPT ![c] = @ \o SubSeq(msg, n + 1, MsgLen)]
      /\ IF n < MsgLen /\ "OUT" \notin events[c]
            THEN events' = [events EXCEPT ![c] = events[c] \cup {"OUT"}]
            ELSE events' = events
  BY DEF SendInLoop, SetEvents, chanVars
<1>5. n > 0 => out[c] = <<>>
  BY DEF WritesDirectly
<1> HIDE DEF msg, n
<1>6. /\ SubSeq(msg, 1, n) \in Seq(Nat)
      /\ SubSeq(msg, n + 1, MsgLen) \in Seq(Nat)
      /\ SubSeq(msg, 1, n) \o SubSeq(msg, n + 1, MsgLen) = msg
      /\ n = 0 => SubSeq(msg, 1, n) = <<>> /\ SubSeq(msg, n + 1, MsgLen) = msg
      /\ n = MsgLen => SubSeq(msg, n + 1, MsgLen) = <<>>
  BY <1>2, <1>3, CutInTwo
<1>7. /\ out[c] \in Seq(Nat) /\ wire[c] \in Seq(Nat)
      /\ wire[c] \o out[c] = Stream(sent[c])
  BY DEF DataInv, DataTypes, BytesInOrder, Stream
<1>8. /\ wire'[c] = wire[c] \o SubSeq(msg, 1, n)
      /\ out'[c] = out[c] \o SubSeq(msg, n + 1, MsgLen)
      /\ wire'[c] \in Seq(Nat) /\ out'[c] \in Seq(Nat)
      /\ sent'[c] = sent[c] + 1
      /\ \A d \in Conns \ {c} : wire'[d] = wire[d] /\ out'[d] = out[d] /\ sent'[d] = sent[d]
  <2>1. /\ wire'[c] = wire[c] \o SubSeq(msg, 1, n)
        /\ out'[c] = out[c] \o SubSeq(msg, n + 1, MsgLen)
        /\ sent'[c] = sent[c] + 1
        /\ \A d \in Conns \ {c} : wire'[d] = wire[d] /\ out'[d] = out[d] /\ sent'[d] = sent[d]
    BY <1>4 DEF DataInv, DataTypes
  <2>2. wire'[c] \in Seq(Nat) /\ out'[c] \in Seq(Nat)
    BY <1>6, <1>7, <2>1, Joined
  <2> QED
    BY <2>1, <2>2
<1>9. DataTypes'
  <2>1. out' \in [Conns -> Seq(Nat)] /\ wire' \in [Conns -> Seq(Nat)]
    BY <1>4, <1>8 DEF DataInv, DataTypes
  <2>2. inflight' \in [Conns -> 0 .. SndBuf] /\ sent' \in [Conns -> Nat]
    BY <1>1, <1>2, <1>4 DEF DataInv, DataTypes
  <2>3. events' \in [Conns -> SUBSET {"IN", "OUT"}] /\ wrShut' \in [Conns -> BOOLEAN]
    BY <1>4 DEF DataInv, DataTypes
  <2> QED
    BY <2>1, <2>2, <2>3 DEF DataTypes
<1>10. wire'[c] \o out'[c] = Stream(sent'[c])
  <2>1. CASE n = 0
    <3>1. wire'[c] = wire[c] /\ out'[c] = out[c] \o msg
      BY <1>6, <1>7, <1>8, <2>1, ConcatEmptySeq
    <3>2. wire[c] \o (out[c] \o msg) = (wire[c] \o out[c]) \o msg
      BY <1>3, <1>7, Associative
    <3> QED
      BY <1>3, <1>7, <1>8, <3>1, <3>2
  <2>2. CASE n > 0
    <3>1. out[c] = <<>> /\ out'[c] = SubSeq(msg, n + 1, MsgLen) /\ wire[c] = Stream(sent[c])
      BY <1>5, <1>6, <1>7, <1>8, <2>2, ConcatEmptySeq
    <3>2. wire'[c] \o out'[c] = (wire[c] \o SubSeq(msg, 1, n)) \o SubSeq(msg, n + 1, MsgLen)
      BY <1>8, <3>1
    <3>3. (wire[c] \o SubSeq(msg, 1, n)) \o SubSeq(msg, n + 1, MsgLen)
             = wire[c] \o (SubSeq(msg, 1, n) \o SubSeq(msg, n + 1, MsgLen))
      BY <1>6, <1>7, Associative
    <3> QED
      BY <1>3, <1>6, <1>8, <3>1, <3>2, <3>3
  <2>3. n = 0 \/ n > 0
    BY <1>1, <1>2
  <2> QED
    BY <2>1, <2>2, <2>3
<1>11. BytesInOrder'
  <2>1. ASSUME NEW d \in Conns
        PROVE  wire'[d] \o out'[d] = Stream(sent'[d])
    BY <1>8, <1>10 DEF DataInv, BytesInOrder, Stream
  <2> QED
    BY <2>1 DEF BytesInOrder, Stream
<1>12. Flushed'
  <2>1. ASSUME NEW d \in Conns, "IN" \in events'[d], "OUT" \notin events'[d]
        PROVE  out'[d] = <<>>
    <3>1. CASE d # c
      BY <1>4, <1>8, <2>1, <3>1 DEF DataInv, DataTypes, Flushed
    <3>2. CASE d = c
      <4>1. "OUT" \notin events[c] /\ "IN" \in events[c] /\ n = MsgLen
        BY <1>1, <1>2, <1>4, <2>1, <3>2 DEF DataInv, DataTypes
      <4>2. out[c] = <<>>
        BY <4>1 DEF DataInv, Flushed
      <4> QED
        BY <1>6, <1>8, <3>2, <4>1, <4>2, ConcatEmptySeq
    <3> QED
      BY <3>1, <3>2
  <2> QED
    BY <2>1 DEF Flushed
<1> QED
  BY <1>9, <1>11, <1>12 DEF DataInv, FinAfterData

(* handleWrite                                                             *)
LEMMA WriteKeepsOrder ==
    ASSUME DataInv, NEW c \in Conns, NEW n \in 0 .. Len(out[c]),
           inflight[c] + n \in 0 .. SndBuf,
           n > 0 => "OUT" \in events[c],
           wire' = [wire EXCEPT ![c] = @ \o SubSeq(out[c], 1, n)],
           inflight' = [inflight EXCEPT ![c] = @ + n],
           out' = [out EXCEPT ![c] = SubSeq(@, n + 1, Len(@))],
           UNCHANGED sent,
           IF n > 0 /\ n = Len(out[c])
              THEN events' = [events EXCEPT ![c] = @ \ {"OUT"}]
              ELSE UNCHANGED events,
           wrShut' = [wrShut EXCEPT ![c] =
                         @ \/ (n > 0 /\ n = Len(out[c]) /\ ShutsAfterWrite(c))]
    PROVE  DataInv' /\ FinAfterData
<1>1. /\ out[c] \in Seq(Nat) /\ wire[c] \in Seq(Nat)
      /\ wire[c] \o out[c] = Stream(sent[c])
  BY DEF DataInv, DataTypes, BytesInOrder, Stream
<1>2. /\ SubSeq(out[c], 1, n) \in Seq(Nat)
      /\ SubSeq(out[c], n + 1, Len(out[c])) \in Seq(Nat)
      /\ SubSeq(out[c], 1, n) \o SubSeq(out[c], n + 1, Len(out[c])) = out[c]
      /\ n = 0 => SubSeq(out[c], n + 1, Len(out[c])) = out[c]
      /\ n = Len(out[c]) => SubSeq(out[c], n + 1, Len(out[c])) = <<>>
  BY <1>1, CutInTwo
<1>3. /\ wire'[c] = wire[c] \o SubSeq(out[c], 1, n)
      /\ out'[c] = SubSeq(out[c], n + 1, Len(out[c]))
      /\ \A d \in Conns \ {c} : wire'[d] = wire[d] /\ out'[d] = out[d]
  BY DEF DataInv, DataTypes
<1>4. wire'[c] \in Seq(Nat)
  BY <1>1, <1>2, <1>3, Joined
<1>5. DataTypes'
  <2>1. out' \in [Conns -> Seq(Nat)] /\ wire' \in [Conns -> Seq(Nat)]
    BY <1>2, <1>3, <1>4 DEF DataInv, DataTypes
  <2>2. inflight' \in [Conns -> 0 .. SndBuf] /\ sent' \in [Conns -> Nat]
    BY DEF DataInv, DataTypes
  <2>3. events' \in [Conns -> SUBSET {"IN", "OUT"}] /\ wrShut' \in [Conns -> BOOLEAN]
    BY DEF DataInv, DataTypes
  <2> QED
    BY <2>1, <2>2, <2>3 DEF DataTypes
<1>6. wire'[c] \o out'[c] = Stream(sent[c])
  <2>1. (wire[c] \o SubSeq(out[c], 1, n)) \o SubSeq(out[c], n + 1, Len(out[c]))
           = wire[c] \o (SubSeq(out[c], 1, n) \o SubSeq(out[c], n + 1, Len(out[c])))
    BY <1>1, <1>2, Associative
  <2> QED
    BY <1>1, <1>2, <1>3, <2>1
<1>7. BytesInOrder'
  <2>1. ASSUME NEW d \in Conns
        PROVE  wire'[d] \o out'[d] = Stream(sent[d])
    BY <1>3, <1>6 DEF DataInv, BytesInOrder, Stream
  <2> QED
    BY <2>1 DEF BytesInOrder, Stream
<1>8. Flushed'
  <2>1. ASSUME NEW d \in Conns, "IN" \in events'[d], "OUT" \notin events'[d]
        PROVE  out'[d] = <<>>
    <3>1. CASE d # c
      BY <1>3, <2>1, <3>1 DEF DataInv, DataTypes, Flushed
    <3>2. CASE d = c /\ n > 0 /\ n = Len(out[c])
      BY <1>2, <1>3, <3>2
    <3>3. CASE d = c /\ ~(n > 0 /\ n = Len(out[c]))
      <4>1. events' = events
        BY <3>3
      <4>2. n = 0 /\ out[c] = <<>>
        BY <2>1, <3>3, <4>1 DEF DataInv, Flushed
      <4> QED
        BY <1>2, <1>3, <3>3, <4>2
    <3> QED
      BY <3>1, <3>2, <3>3
  <2> QED
    BY <2>1 DEF Flushed
<1>9. FinAfterData
  <2>1. ASSUME NEW d \in Conns, wrShut'[d], ~wrShut[d]
        PROVE  out'[d] = <<>>
    <3>1. d = c /\ n = Len(out[c])
      BY <2>1 DEF DataInv, DataTypes
    <3> QED
      BY <1>2, <1>3, <3>1
  <2> QED
    BY <2>1 DEF FinAfterData
<1> QED
  BY <1>5, <1>7, <1>8, <1>9 DEF DataInv

(* shutdownInLoop                                                          *)
LEMMA ShutdownKeepsOrder ==
    ASSUME DataInv, NEW c \in Conns, ShutdownInLoop(c),
           UNCHANGED <<out, wire, inflight, sent, events>>
    PROVE  DataInv' /\ FinAfterData
<1>1. DataInv'
  BY DEF ShutdownInLoop, DataInv, DataTypes, BytesInOrder, Flushed
<1>2. ASSUME NEW d \in Conns, wrShut'[d], ~wrShut[d], "IN" \in events[d]
      PROVE  out'[d] = <<>>
  <2>1. d = c /\ "OUT" \notin events[c]
    BY <1>2 DEF ShutdownInLoop, DataInv, DataTypes
  <2> QED
    BY <1>2, <2>1 DEF DataInv, Flushed
<1> QED
  BY <1>1, <1>2 DEF FinAfterData

-----------------------------------------------------------------------------
(* The server's tables: nothing is sent on a connection before it is       *)
(* established, which happens once.                                        *)

States == {"none", "kConnecting", "kConnected", "kDisconnecting", "kDisconnected"}
Calls == Ops \X Conns \X {"checked", "set"}

TableTypes ==
    /\ m_connId \in 0 .. NumConns
    /\ loop \in [Conns -> AllLoops]
    /\ m_state \in [Conns -> States]
    /\ cur \in [AllLoops -> Conns]
    /\ refs \subseteq Conns
    /\ ups \in [Conns -> Nat]
    /\ call \in [Users -> {NoCall} \cup Calls]

(* Threads send on connections they found up.                              *)
SendsUp ==
    \A u \in Users :
        call[u] # NoCall /\ call[u][1] = "send" => ups[call[u][2]] > 0

UpBeforeUse ==
    \A c \in Conns :
        /\ m_state[c] = "kConnected" => ups[c] > 0
        /\ ups[c] = 0 => sent[c] = 0
        /\ c > m_connId => ups[c] = 0

TableInv ==
    /\ TableTypes
    /\ SendsUp
    /\ UpBeforeUse
    /\ QueuesOK(pend, batch, ups, m_connId)

StreamInv == DataInv /\ TableInv

(* Before a connection is established it has no data.                      *)
LEMMA NothingBefore ==
    ASSUME StreamInv, NEW c \in Conns, ups[c] = 0
    PROVE  out[c] = <<>>
<1>1. sent[c] = 0 /\ MsgLen \in Nat
  BY ServerAssumption DEF StreamInv, TableInv, UpBeforeUse
<1>2. wire[c] \o out[c] = [i \in 1 .. 0 |-> i]
  <2>1. wire[c] \o out[c] = [i \in 1 .. sent[c] * MsgLen |-> i]
    BY DEF StreamInv, DataInv, BytesInOrder
  <2>2. sent[c] * MsgLen = 0
    BY <1>1
  <2> QED
    BY <2>1, <2>2
<1>3. [i \in 1 .. 0 |-> i] = <<>>
  OBVIOUS
<1>4. wire[c] \in Seq(Nat) /\ out[c] \in Seq(Nat)
  BY DEF StreamInv, DataInv, DataTypes
<1> QED
  BY <1>2, <1>3, <1>4, ConcatEqualIffEmpty

(* A step that neither makes a connection nor establishes one.             *)
LEMMA TablesKept ==
    ASSUME StreamInv, UNCHANGED <<m_connId, loop, ups>>,
           m_state' \in [Conns -> States],
           \A c \in Conns : m_state'[c] = "kConnected" => m_state[c] = "kConnected",
           \A c \in Conns : sent'[c] # sent[c] => ups[c] > 0,
           cur' \in [AllLoops -> Conns],
           refs' \subseteq Conns,
           call' \in [Users -> {NoCall} \cup Calls],
           \A u \in Users :
              call'[u] # NoCall /\ call'[u][1] = "send" => ups[call'[u][2]] > 0,
           QueuesOK(pend', batch', ups, m_connId)
    PROVE  TableInv'
<1>1. TableTypes'
  BY DEF StreamInv, TableInv, TableTypes
<1>2. SendsUp'
  BY DEF StreamInv, TableInv, SendsUp
<1>3. UpBeforeUse'
  BY DEF StreamInv, TableInv, UpBeforeUse
<1>4. QueuesOK(pend', batch', ups', m_connId')
  OBVIOUS
<1> QED
  BY <1>1, <1>2, <1>3, <1>4 DEF TableInv

LEMMA QueuesChange ==
    ASSUME StreamInv, UNCHANGED <<m_connId, loop, ups, sent, cur, refs, call>>,
           m_state' \in [Conns -> States],
           \A c \in Conns : m_state'[c] = "kConnected" => m_state[c] = "kConnected",
           QueuesOK(pend', batch', ups, m_connId)
    PROVE  TableInv'
BY DEF StreamInv, TableInv, TableTypes, SendsUp, UpBeforeUse

(* A functor other than the two is queued.                                 *)
LEMMA OtherQueued ==
    ASSUME StreamInv, NEW l \in AllLoops, NEW c \in Conns,
           NEW op \in Functors \ {"connectEstablished", "sendInLoop"},
           pend' = [pend EXCEPT ![l] = Append(@, <<op, c>>)]
    PROVE  QueuesOK(pend', batch, ups, m_connId)
<1> DEFINE f == <<op, c>>
<1>1. /\ f \in Entry
      /\ \A d \in Conns : f # Est(d)
      /\ \A d \in Conns : f = Snd(d) => ups[d] > 0
  BY DEF Entry, Est, Snd
<1>2. QueuesOK(pend, batch, ups, m_connId)
  BY DEF StreamInv, TableInv
<1> HIDE DEF f
<1>3. QueuesOK([pend EXCEPT ![l] = Append(@, f)], batch, ups, m_connId)
  BY <1>1, <1>2, Push
<1> QED
  BY <1>3 DEF f

-----------------------------------------------------------------------------
(* The steps.                                                              *)

LEMMA QuietStep ==
    ASSUME StreamInv, refs' \subseteq Conns,
           UNCHANGED <<dataVars, events, m_connId, loop, ups, m_state, cur,
                       call, pend, batch>>
    PROVE  StreamInv' /\ FinAfterData
<1>1. DataInv' /\ FinAfterData
  BY DataStays DEF StreamInv
<1>2. TableInv'
  BY DEF StreamInv, TableInv, TableTypes, SendsUp, UpBeforeUse, dataVars
<1> QED
  BY <1>1, <1>2 DEF StreamInv

LEMMA FailStep ==
    ASSUME StreamInv, NEW why, Fail(why)
    PROVE  StreamInv' /\ FinAfterData
<1>1. /\ UNCHANGED <<dataVars, events, m_connId, loop, ups, m_state, cur,
                     call, pend, batch>>
      /\ refs' = refs
  BY DEF Fail, serverVars, stateVars, chanVars, loopVars, queueVars, userVars
<1> QED
  BY <1>1, QuietStep DEF StreamInv, TableInv, TableTypes

LEMMA QuietSteps ==
    ASSUME StreamInv, NEW l \in AllLoops, NEW c \in Conns,
           \/ Start \/ Poll(l) \/ HandleFreed(l) \/ HandleReset(l)
           \/ EndBatch(l) \/ EndOnMessage(l) \/ CallbackShare(l)
           \/ UserDrops(c) \/ PeerSends(c) \/ PeerCloses(c) \/ PeerResets(c)
           \/ UNCHANGED vars
    PROVE  StreamInv' /\ FinAfterData
<1>1. CASE HandleFreed(l) \/ HandleReset(l)
  BY <1>1, FailStep DEF HandleFreed, HandleReset
<1>2. CASE \/ Start \/ Poll(l) \/ EndBatch(l) \/ EndOnMessage(l) \/ CallbackShare(l)
           \/ UserDrops(c) \/ PeerSends(c) \/ PeerCloses(c) \/ PeerResets(c)
           \/ UNCHANGED vars
  <2>1. refs \subseteq Conns /\ cur[l] \in Conns
    BY DEF StreamInv, TableInv, TableTypes
  <2>2. refs' \subseteq Conns
    BY <1>2, <2>1 DEF Start, Poll, EndBatch, EndOnMessage, CallbackShare,
       UserDrops, PeerSends, PeerCloses, PeerResets, vars, userVars, loopVars
  <2>3. UNCHANGED <<dataVars, events, m_connId, loop, ups, m_state, cur, call,
                    pend, batch>>
    BY <1>2 DEF Start, Poll, EndBatch, EndOnMessage, CallbackShare, UserDrops,
       PeerSends, PeerCloses, PeerResets, vars, serverVars, stateVars,
       chanVars, loopVars, queueVars, userVars, historyVars
  <2> QED
    BY <2>2, <2>3, QuietStep
<1> QED
  BY <1>1, <1>2

LEMMA PeerReadsStep ==
    ASSUME StreamInv, NEW c \in Conns, PeerReads(c)
    PROVE  StreamInv' /\ FinAfterData
<1>1. /\ inflight[c] > 0 /\ inflight' = [inflight EXCEPT ![c] = @ - 1]
      /\ UNCHANGED <<out, wire, wrShut, sent, events>>
      /\ UNCHANGED <<m_connId, loop, ups, sent, cur, refs, call, m_state, pend, batch>>
  BY DEF PeerReads, serverVars, stateVars, chanVars, loopVars, queueVars,
         userVars, historyVars
<1>2. inflight' \in [Conns -> 0 .. SndBuf]
  BY <1>1, ServerAssumption DEF StreamInv, DataInv, DataTypes
<1>3. DataInv' /\ FinAfterData
  BY <1>1, <1>2 DEF StreamInv, DataInv, DataTypes, BytesInOrder, Flushed, FinAfterData
<1>4. TableInv'
  BY <1>1, QueuesChange DEF StreamInv, TableInv, TableTypes
<1> QED
  BY <1>3, <1>4 DEF StreamInv

LEMMA HandleDataStep ==
    ASSUME StreamInv, NEW l \in AllLoops, HandleData(l)
    PROVE  StreamInv' /\ FinAfterData
<1>1. PICK c \in Conns : /\ cur' = [cur EXCEPT ![l] = c]
                         /\ UpdateTimer(c)
                         /\ UNCHANGED <<serverVars, chanVars, dataVars,
                                        queueVars, userVars, historyVars>>
  BY DEF HandleData
<1>2. DataInv' /\ FinAfterData
  BY <1>1, DataStays DEF StreamInv, chanVars
<1>3. m_state' \in [Conns -> States]
  BY <1>1 DEF UpdateTimer, stateVars, States, StreamInv, TableInv, TableTypes
<1>4. \A d \in Conns : m_state'[d] = "kConnected" => m_state[d] = "kConnected"
  BY <1>1 DEF UpdateTimer, stateVars, StreamInv, TableInv, TableTypes
<1>5. TableInv'
  BY <1>1, <1>3, <1>4, TablesKept DEF StreamInv, TableInv, TableTypes, SendsUp,
     serverVars, dataVars, queueVars, userVars, historyVars
<1> QED
  BY <1>2, <1>5 DEF StreamInv

(* handleClose, and what it has the base loop do.                          *)
LEMMA Removes ==
    ASSUME StreamInv, NEW c \in Conns, RemoveConnectionInLoop(c)
    PROVE  QueuesOK(pend', batch, ups, m_connId) /\ UNCHANGED <<m_connId, loop>>
<1>1. pend' = [pend EXCEPT ![loop[c]] = Append(@, <<"connectDestroyed", c>>)]
  BY DEF RemoveConnectionInLoop
<1>2. loop[c] \in AllLoops
  BY DEF StreamInv, TableInv, TableTypes
<1>3. QueuesOK(pend', batch, ups, m_connId)
  BY <1>1, <1>2, OtherQueued DEF Functors
<1> QED
  BY <1>3 DEF RemoveConnectionInLoop

LEMMA Closes ==
    ASSUME StreamInv, NEW c \in Conns, HandleClose(c), UNCHANGED dataVars
    PROVE  /\ DataInv' /\ FinAfterData
           /\ QueuesOK(pend', batch, ups, m_connId)
           /\ UNCHANGED <<m_connId, loop>>
<1>1. DataInv' /\ FinAfterData
  <2>1. events' = [events EXCEPT ![c] = {}]
    BY DEF HandleClose, SetEvents
  <2> QED
    BY <2>1, MaskSet DEF StreamInv
<1>2. CASE loop[c] = Base
  BY <1>1, <1>2, Removes DEF HandleClose
<1>3. CASE loop[c] # Base
  <2>1. pend' = [pend EXCEPT ![Base] = Append(@, <<"removeConnectionInLoop", c>>)]
    BY <1>3 DEF HandleClose
  <2>2. Base \in AllLoops
    BY DEF AllLoops
  <2>3. QueuesOK(pend', batch, ups, m_connId)
    BY <2>1, <2>2, OtherQueued DEF Functors
  <2> QED
    BY <1>1, <1>3, <2>3 DEF HandleClose, serverVars
<1> QED
  BY <1>2, <1>3

LEMMA HandleEndStep ==
    ASSUME StreamInv, NEW l \in AllLoops, HandleEnd(l)
    PROVE  StreamInv' /\ FinAfterData
<1>1. PICK c \in Conns :
         IF CloseFailure(c) # ""
         THEN Fail(CloseFailure(c))
         ELSE /\ HandleClose(c)
              /\ UNCHANGED <<stateVars, dataVars, cur, batch, userVars, historyVars>>
  BY DEF HandleEnd
<1>2. CASE CloseFailure(c) # ""
  BY <1>1, <1>2, FailStep
<1>3. CASE CloseFailure(c) = ""
  <2>1. /\ DataInv' /\ FinAfterData
        /\ QueuesOK(pend', batch, ups, m_connId)
        /\ UNCHANGED <<m_connId, loop>>
    BY <1>1, <1>3, Closes
  <2>2. UNCHANGED <<m_state, sent, cur, batch, refs, call, ups>>
    BY <1>1, <1>3 DEF stateVars, dataVars, userVars, historyVars
  <2>3. TableInv'
    BY <2>1, <2>2, QueuesChange DEF StreamInv, TableInv, TableTypes
  <2> QED
    BY <2>1, <2>3 DEF StreamInv
<1> QED
  BY <1>2, <1>3

LEMMA HandleWriteStep ==
    ASSUME StreamInv, NEW l \in AllLoops, HandleWrite(l)
    PROVE  StreamInv' /\ FinAfterData
<1> DEFINE N(c) == IF "OUT" \in events[c] THEN Accepted(c, Len(out[c])) ELSE 0
<1>1. PICK c \in Conns :
         /\ wire' = [wire EXCEPT ![c] = @ \o SubSeq(out[c], 1, N(c))]
         /\ inflight' = [inflight EXCEPT ![c] = @ + N(c)]
         /\ out' = [out EXCEPT ![c] = SubSeq(@, N(c) + 1, Len(@))]
         /\ IF N(c) > 0 /\ N(c) = Len(out[c])
               THEN SetEvents(c, events[c] \ {"OUT"}) ELSE UNCHANGED chanVars
         /\ wrShut' = [wrShut EXCEPT ![c] =
                          @ \/ (N(c) > 0 /\ N(c) = Len(out[c]) /\ ShutsAfterWrite(c))]
         /\ UNCHANGED <<serverVars, stateVars, sent, cur, queueVars, userVars, historyVars>>
  BY DEF HandleWrite
<1> DEFINE n == N(c)
<1>2. n \in 0 .. Len(out[c]) /\ inflight[c] + n \in 0 .. SndBuf
  <2>1. out[c] \in Seq(Nat) /\ DataTypes /\ inflight[c] \in 0 .. SndBuf
    BY DEF StreamInv, DataInv, DataTypes
  <2>2. Len(out[c]) \in Nat /\ SndBuf \in Nat
    BY <2>1, LenProperties, ServerAssumption
  <2>3. /\ Accepted(c, Len(out[c])) \in 0 .. Len(out[c])
        /\ inflight[c] + Accepted(c, Len(out[c])) \in 0 .. SndBuf
    BY <2>1, <2>2, AcceptedFits
  <2>4. CASE "OUT" \in events[c]
    BY <2>3, <2>4
  <2>5. CASE "OUT" \notin events[c]
    <3>1. n = 0
      BY <2>5
    <3> HIDE DEF n
    <3> QED
      BY <2>1, <2>2, <3>1
  <2> QED
    BY <2>4, <2>5
<1>3. n > 0 => "OUT" \in events[c]
  OBVIOUS
<1>4. IF n > 0 /\ n = Len(out[c])
         THEN events' = [events EXCEPT ![c] = @ \ {"OUT"}]
         ELSE UNCHANGED events
  BY <1>1 DEF SetEvents, chanVars
<1>5. /\ wire' = [wire EXCEPT ![c] = @ \o SubSeq(out[c], 1, n)]
      /\ inflight' = [inflight EXCEPT ![c] = @ + n]
      /\ out' = [out EXCEPT ![c] = SubSeq(@, n + 1, Len(@))]
      /\ wrShut' = [wrShut EXCEPT ![c] =
                       @ \/ (n > 0 /\ n = Len(out[c]) /\ ShutsAfterWrite(c))]
      /\ sent' = sent
  BY <1>1
<1> HIDE DEF n, N
<1>6. DataInv' /\ FinAfterData
  BY <1>2, <1>3, <1>4, <1>5, WriteKeepsOrder DEF StreamInv
<1>7. TableInv'
  BY <1>1, QueuesChange DEF StreamInv, TableInv, TableTypes, serverVars,
     stateVars, queueVars, userVars, historyVars
<1> QED
  BY <1>6, <1>7 DEF StreamInv

LEMMA TimerFiresStep ==
    ASSUME StreamInv, NEW l \in AllLoops, TimerFires(l)
    PROVE  StreamInv' /\ FinAfterData
<1>1. PICK c \in Conns :
         IF Alive(c) /\ Closable(c)
         THEN /\ m_state' = [m_state EXCEPT ![c] = "kDisconnecting"]
              /\ pend' = [pend EXCEPT ![l] = Append(@, <<"forceCloseInLoop", c>>)]
         ELSE UNCHANGED <<m_state, pend>>
  BY DEF TimerFires
<1>2. UNCHANGED <<dataVars, events, m_connId, loop, ups, sent, cur, refs, call, batch>>
  BY DEF TimerFires, serverVars, chanVars, dataVars, userVars, historyVars
<1>3. DataInv' /\ FinAfterData
  BY <1>2, DataStays DEF StreamInv
<1>4. /\ m_state' \in [Conns -> States]
      /\ \A d \in Conns : m_state'[d] = "kConnected" => m_state[d] = "kConnected"
  BY <1>1 DEF StreamInv, TableInv, TableTypes, States
<1>5. QueuesOK(pend', batch', ups, m_connId)
  <2>1. CASE Alive(c) /\ Closable(c)
    BY <1>1, <1>2, <2>1, OtherQueued DEF Functors
  <2>2. CASE ~(Alive(c) /\ Closable(c))
    BY <1>1, <1>2, <2>2 DEF StreamInv, TableInv
  <2> QED
    BY <2>1, <2>2
<1>6. TableInv'
  BY <1>2, <1>4, <1>5, QueuesChange
<1> QED
  BY <1>3, <1>6 DEF StreamInv

LEMMA EndEventsStep ==
    ASSUME StreamInv, NEW l \in AllLoops, EndEvents(l)
    PROVE  StreamInv' /\ FinAfterData
<1>1. /\ pend' = [pend EXCEPT ![l] = <<>>]
      /\ batch' = [batch EXCEPT ![l] = pend[l]]
      /\ UNCHANGED <<dataVars, events, m_connId, loop, ups, m_state, sent, cur,
                     refs, call>>
  BY DEF EndEvents, serverVars, stateVars, chanVars, dataVars, userVars, historyVars
<1>2. QueuesOK(pend', batch', ups, m_connId)
  BY <1>1, Swap DEF StreamInv, TableInv
<1>3. DataInv' /\ FinAfterData
  BY <1>1, DataStays DEF StreamInv
<1>4. TableInv'
  BY <1>1, <1>2, QueuesChange DEF StreamInv, TableInv, TableTypes
<1> QED
  BY <1>3, <1>4 DEF StreamInv

(* The functor at the head of a batch is taken.                            *)
LEMMA Taken ==
    ASSUME StreamInv, NEW l \in AllLoops, NEW op, NEW c \in Conns,
           Running(l, op, c), Pop(l)
    PROVE  /\ \A p : QueuesOK(p, batch, ups, m_connId)
                        => QueuesOK(p, batch', ups, m_connId)
           /\ op = "sendInLoop" => ups[c] > 0
           /\ op = "connectEstablished" =>
                /\ ups[c] = 0
                /\ \A k \in AllLoops : ~Waits(pend, batch', k, c)
<1>1. /\ batch[l] # <<>> /\ Head(batch[l]) = <<op, c>>
      /\ batch' = [batch EXCEPT ![l] = Tail(@)]
  BY DEF Running, Pop
<1>2. QueuesOK(pend, batch, ups, m_connId)
  BY DEF StreamInv, TableInv
<1>3. /\ op = "sendInLoop" => Head(batch[l]) = Snd(c)
      /\ op = "connectEstablished" => Head(batch[l]) = Est(c)
  BY <1>1 DEF Snd, Est
<1>4. ASSUME NEW p, QueuesOK(p, batch, ups, m_connId)
      PROVE  QueuesOK(p, batch', ups, m_connId)
  BY <1>1, <1>4, PopFunctor
<1>5. /\ \A d \in Conns : Head(batch[l]) = Snd(d) => ups[d] > 0
      /\ \A d \in Conns :
            Head(batch[l]) = Est(d) =>
                ups[d] = 0 /\ \A k \in AllLoops : ~Waits(pend, batch', k, d)
  <2> DEFINE b == [batch EXCEPT ![l] = Tail(@)]
  <2>1. /\ \A d \in Conns : Head(batch[l]) = Snd(d) => ups[d] > 0
        /\ \A d \in Conns :
              Head(batch[l]) = Est(d) =>
                  ups[d] = 0 /\ \A k \in AllLoops : ~Waits(pend, b, k, d)
    BY <1>1, <1>2, PopFunctor
  <2>2. batch' = b
    BY <1>1
  <2> HIDE DEF b
  <2> QED
    BY <2>1, <2>2
<1> QED
  BY <1>3, <1>4, <1>5

(* connectEstablished of a connection that nothing was sent on.            *)
LEMMA Establishes ==
    ASSUME StreamInv, NEW l \in AllLoops, NEW c \in Conns, ups[c] = 0,
           ConnectEstablished(l, c), UNCHANGED dataVars
    PROVE  /\ DataInv' /\ FinAfterData
           /\ m_state' \in [Conns -> States] /\ cur' \in [AllLoops -> Conns]
           /\ ups' = [ups EXCEPT ![c] = @ + 1]
           /\ ups' \in [Conns -> Nat] /\ ups'[c] > 0
           /\ \A d \in Conns \ {c} : ups'[d] = ups[d] /\ m_state'[d] = m_state[d]
<1>1. out[c] = <<>>
  BY NothingBefore
<1>2. /\ events' = [events EXCEPT ![c] = events[c] \cup {"IN"}]
      /\ events[c] \cup {"IN"} \in SUBSET {"IN", "OUT"}
  BY DEF ConnectEstablished, SetEvents, StreamInv, DataInv, DataTypes
<1>3. DataInv' /\ FinAfterData
  BY <1>1, <1>2, MaskSet DEF StreamInv
<1> QED
  BY <1>3 DEF ConnectEstablished, StreamInv, TableInv, TableTypes, States

LEMMA RunEstablishedStep ==
    ASSUME StreamInv, NEW l \in AllLoops, RunEstablished(l)
    PROVE  StreamInv' /\ FinAfterData
<1>1. PICK c \in Conns : /\ Running(l, "connectEstablished", c)
                         /\ ConnectEstablished(l, c)
                         /\ Pop(l)
  BY DEF RunEstablished
<1>2. UNCHANGED <<dataVars, sent, m_connId, loop, refs, call, pend>>
  BY DEF RunEstablished, serverVars, dataVars, userVars
<1>3. /\ ups[c] = 0
      /\ \A k \in AllLoops : ~Waits(pend, batch', k, c)
      /\ QueuesOK(pend, batch', ups, m_connId)
  BY <1>1, Taken DEF StreamInv, TableInv
<1>4. /\ DataInv' /\ FinAfterData
      /\ m_state' \in [Conns -> States] /\ cur' \in [AllLoops -> Conns]
      /\ ups' = [ups EXCEPT ![c] = @ + 1]
      /\ ups' \in [Conns -> Nat] /\ ups'[c] > 0
      /\ \A d \in Conns \ {c} : ups'[d] = ups[d] /\ m_state'[d] = m_state[d]
  BY <1>1, <1>2, <1>3, Establishes
<1>5. QueuesOK(pend', batch', ups', m_connId')
  BY <1>2, <1>3, <1>4, ComesUp DEF StreamInv, TableInv, TableTypes
<1>6. c <= m_connId
  <2>1. In(batch[l], Est(c))
    <3>1. batch[l] \in Seq(Entry) /\ batch[l] # <<>> /\ Head(batch[l]) = Est(c)
      BY <1>1 DEF Running, Est, StreamInv, TableInv, QueuesOK
    <3> QED
      BY <3>1, Popped
  <2> QED
    BY <2>1 DEF StreamInv, TableInv, QueuesOK, PlaceOK, Waits
<1>7. TableInv'
  <2>1. TableTypes'
    BY <1>2, <1>4 DEF StreamInv, TableInv, TableTypes
  <2>2. SendsUp'
    <3>1. ASSUME NEW u \in Users, call[u] # NoCall, call[u][1] = "send"
          PROVE  ups'[call[u][2]] > 0
      <4>1. call[u][2] \in Conns /\ ups[call[u][2]] > 0
        BY <3>1 DEF StreamInv, TableInv, TableTypes, SendsUp, Calls
      <4> QED
        BY <1>4, <4>1
    <3> QED
      BY <1>2, <3>1 DEF SendsUp
  <2>3. UpBeforeUse'
    <3>1. ASSUME NEW d \in Conns
          PROVE  /\ m_state'[d] = "kConnected" => ups'[d] > 0
                 /\ ups'[d] = 0 => sent[d] = 0
                 /\ d > m_connId => ups'[d] = 0
      <4>1. CASE d = c
        <5>1. ~(d > m_connId)
          BY <1>6, <4>1 DEF Conns, StreamInv, TableInv, TableTypes
        <5> QED
          BY <1>4, <4>1, <5>1
      <4>2. CASE d # c
        BY <1>4, <4>2 DEF StreamInv, TableInv, UpBeforeUse
      <4> QED
        BY <4>1, <4>2
    <3> QED
      BY <1>2, <3>1 DEF UpBeforeUse
  <2> QED
    BY <1>5, <2>1, <2>2, <2>3 DEF TableInv
<1> QED
  BY <1>4, <1>7 DEF StreamInv

LEMMA RunDestroyedStep ==
    ASSUME StreamInv, NEW l \in AllLoops, RunDestroyed(l)
    PROVE  StreamInv' /\ FinAfterData
<1>1. PICK c \in Conns :
         /\ Running(l, "connectDestroyed", c)
         /\ IF ~IsUp(c) /\ events[c] # {} THEN Fail("isNoneEvent()")
            ELSE IF c \notin channels THEN Fail("m_channels.count(fd)")
            ELSE /\ IF IsUp(c)
                       THEN /\ m_state' = [m_state EXCEPT ![c] = "kDisconnected"]
                            /\ downs' = [downs EXCEPT ![c] = @ + 1]
                       ELSE UNCHANGED <<m_state, downs>>
                 /\ RemoveChannel(c)
                 /\ Pop(l)
                 /\ UNCHANGED <<serverVars, dataVars, cur, pend, userVars, ups>>
  BY DEF RunDestroyed
<1>2. CASE (~IsUp(c) /\ events[c] # {}) \/ c \notin channels
  BY <1>1, <1>2, FailStep
<1>3. CASE ~((~IsUp(c) /\ events[c] # {}) \/ c \notin channels)
  <2>1. /\ IF IsUp(c) THEN m_state' = [m_state EXCEPT ![c] = "kDisconnected"]
                      ELSE m_state' = m_state
        /\ events' = [events EXCEPT ![c] = {}]
        /\ Pop(l)
        /\ UNCHANGED <<dataVars, m_connId, loop, sent, cur, pend, refs, call, ups>>
    BY <1>1, <1>3 DEF RemoveChannel, serverVars, userVars, dataVars
  <2>2. DataInv' /\ FinAfterData
    BY <2>1, MaskSet DEF StreamInv
  <2>3. /\ m_state' \in [Conns -> States]
        /\ \A d \in Conns : m_state'[d] = "kConnected" => m_state[d] = "kConnected"
    BY <2>1 DEF StreamInv, TableInv, TableTypes, States
  <2>4. QueuesOK(pend', batch', ups, m_connId)
    BY <1>1, <2>1, Taken DEF StreamInv, TableInv
  <2>5. TableInv'
    BY <2>1, <2>3, <2>4, QueuesChange
  <2> QED
    BY <2>2, <2>5 DEF StreamInv
<1> QED
  BY <1>2, <1>3

(* send on a connection that is up.                                        *)
LEMMA Sends ==
    ASSUME StreamInv, NEW c \in Conns, ups[c] > 0, SendInLoop(c),
           UNCHANGED <<m_connId, loop, m_state, wrShut, cur, refs, call, ups>>,
           QueuesOK(pend', batch', ups, m_connId)
    PROVE  StreamInv' /\ FinAfterData
<1>1. DataInv' /\ FinAfterData
  BY SendKeepsOrder DEF StreamInv
<1>2. \A d \in Conns : sent'[d] # sent[d] => ups[d] > 0
  BY DEF SendInLoop, StreamInv, DataInv, DataTypes
<1>3. TableInv'
  BY <1>2, TablesKept DEF StreamInv, TableInv, TableTypes, SendsUp
<1> QED
  BY <1>1, <1>3 DEF StreamInv

LEMMA RunSendStep ==
    ASSUME StreamInv, NEW l \in AllLoops, RunSend(l)
    PROVE  StreamInv' /\ FinAfterData
<1>1. PICK c \in Conns : Running(l, "sendInLoop", c) /\ SendInLoop(c) /\ Pop(l)
  BY DEF RunSend
<1>2. UNCHANGED <<m_connId, loop, m_state, wrShut, cur, refs, call, ups, pend>>
  BY DEF RunSend, serverVars, stateVars, userVars, historyVars
<1>3. ups[c] > 0 /\ QueuesOK(pend', batch', ups, m_connId)
  BY <1>1, <1>2, Taken DEF StreamInv, TableInv
<1> QED
  BY <1>1, <1>2, <1>3, Sends

LEMMA RunShutdownStep ==
    ASSUME StreamInv, NEW l \in AllLoops, RunShutdown(l)
    PROVE  StreamInv' /\ FinAfterData
<1>1. PICK c \in Conns : Running(l, "shutdownInLoop", c) /\ ShutdownInLoop(c) /\ Pop(l)
  BY DEF RunShutdown
<1>2. /\ UNCHANGED <<out, wire, inflight, sent, events>>
      /\ UNCHANGED <<m_connId, loop, ups, m_state, sent, cur, refs, call, pend>>
  BY DEF RunShutdown, serverVars, stateVars, chanVars, userVars, historyVars
<1>3. DataInv' /\ FinAfterData
  BY <1>1, <1>2, ShutdownKeepsOrder DEF StreamInv
<1>4. QueuesOK(pend', batch', ups, m_connId)
  BY <1>1, <1>2, Taken DEF StreamInv, TableInv
<1>5. TableInv'
  BY <1>2, <1>4, QueuesChange DEF StreamInv, TableInv, TableTypes
<1> QED
  BY <1>3, <1>5 DEF StreamInv

LEMMA RunForceCloseStep ==
    ASSUME StreamInv, NEW l \in AllLoops, RunForceClose(l)
    PROVE  StreamInv' /\ FinAfterData
<1>1. PICK c \in Conns :
         /\ Running(l, "forceCloseInLoop", c)
         /\ IF Closable(c) /\ CloseFailure(c) # ""
            THEN Fail(CloseFailure(c))
            ELSE /\ IF Closable(c) THEN HandleClose(c)
                                   ELSE UNCHANGED <<serverVars, chanVars, pend>>
                 /\ Pop(l)
                 /\ UNCHANGED <<stateVars, dataVars, cur, userVars, historyVars>>
  BY DEF RunForceClose
<1>2. CASE Closable(c) /\ CloseFailure(c) # ""
  BY <1>1, <1>2, FailStep
<1>3. CASE ~(Closable(c) /\ CloseFailure(c) # "")
  <2>1. /\ Pop(l)
        /\ UNCHANGED <<dataVars, m_state, sent, cur, refs, call, ups>>
        /\ IF Closable(c) THEN HandleClose(c)
                          ELSE UNCHANGED <<events, m_connId, loop, pend>>
    BY <1>1, <1>3 DEF stateVars, dataVars, userVars, historyVars, serverVars, chanVars
  <2>2. /\ DataInv' /\ FinAfterData
        /\ QueuesOK(pend', batch, ups, m_connId)
        /\ UNCHANGED <<m_connId, loop>>
    <3>1. CASE Closable(c)
      BY <2>1, <3>1, Closes
    <3>2. CASE ~Closable(c)
      BY <2>1, <3>2, DataStays DEF StreamInv, TableInv
    <3> QED
      BY <3>1, <3>2
  <2>3. QueuesOK(pend', batch', ups, m_connId)
    BY <1>1, <2>1, <2>2, Taken
  <2>4. TableInv'
    BY <2>1, <2>2, <2>3, QueuesChange DEF StreamInv, TableInv, TableTypes
  <2> QED
    BY <2>2, <2>4 DEF StreamInv
<1> QED
  BY <1>2, <1>3

LEMMA RunRemoveStep ==
    ASSUME StreamInv, NEW l \in AllLoops, RunRemove(l)
    PROVE  StreamInv' /\ FinAfterData
<1>1. PICK c \in Conns :
         /\ Running(l, "removeConnectionInLoop", c)
         /\ IF c \notin m_connections
            THEN Fail("n == 1")
            ELSE /\ RemoveConnectionInLoop(c)
                 /\ Pop(l)
                 /\ UNCHANGED <<stateVars, chanVars, dataVars, cur, userVars,
                                historyVars>>
  BY DEF RunRemove
<1>2. CASE c \notin m_connections
  BY <1>1, <1>2, FailStep
<1>3. CASE c \in m_connections
  <2>1. /\ RemoveConnectionInLoop(c) /\ Pop(l)
        /\ UNCHANGED <<dataVars, events, m_state, sent, cur, refs, call, ups>>
    BY <1>1, <1>3 DEF stateVars, chanVars, dataVars, userVars, historyVars
  <2>2. DataInv' /\ FinAfterData
    BY <2>1, DataStays DEF StreamInv
  <2>3. QueuesOK(pend', batch, ups, m_connId) /\ UNCHANGED <<m_connId, loop>>
    BY <2>1, Removes
  <2>4. QueuesOK(pend', batch', ups, m_connId)
    BY <1>1, <2>1, <2>3, Taken
  <2>5. TableInv'
    BY <2>1, <2>3, <2>4, QueuesChange DEF StreamInv, TableInv, TableTypes
  <2> QED
    BY <2>2, <2>5 DEF StreamInv
<1> QED
  BY <1>2, <1>3

-----------------------------------------------------------------------------
(* The callbacks and the other threads.                                    *)

LEMMA CallbackSendStep ==
    ASSUME StreamInv, NEW l \in AllLoops, CallbackSend(l)
    PROVE  StreamInv' /\ FinAfterData
<1>1. /\ m_state[cur[l]] = "kConnected" /\ SendInLoop(cur[l])
      /\ UNCHANGED <<m_connId, loop, m_state, wrShut, cur, refs, call, ups,
                     pend, batch>>
  BY DEF CallbackSend, serverVars, stateVars, loopVars, queueVars, userVars,
         historyVars
<1>2. cur[l] \in Conns
  BY DEF StreamInv, TableInv, TableTypes
<1>3. ups[cur[l]] > 0 /\ QueuesOK(pend', batch', ups, m_connId)
  BY <1>1, <1>2 DEF StreamInv, TableInv, UpBeforeUse
<1> QED
  BY <1>1, <1>2, <1>3, Sends

(* m_state becomes kDisconnecting.                                         *)
LEMMA Demotes ==
    ASSUME StreamInv, NEW c \in Conns,
           m_state' = [m_state EXCEPT ![c] = "kDisconnecting"]
    PROVE  /\ m_state' \in [Conns -> States]
           /\ \A d \in Conns : m_state'[d] = "kConnected" => m_state[d] = "kConnected"
BY DEF StreamInv, TableInv, TableTypes, States

LEMMA CallbackShutdownStep ==
    ASSUME StreamInv, NEW l \in AllLoops, CallbackShutdown(l)
    PROVE  StreamInv' /\ FinAfterData
<1>1. /\ m_state' = [m_state EXCEPT ![cur[l]] = "kDisconnecting"]
      /\ ShutdownInLoop(cur[l])
      /\ UNCHANGED <<out, wire, inflight, sent, events>>
      /\ UNCHANGED <<m_connId, loop, ups, sent, cur, refs, call, pend, batch>>
  BY DEF CallbackShutdown, serverVars, chanVars, loopVars, queueVars, userVars
<1>2. cur[l] \in Conns
  BY DEF StreamInv, TableInv, TableTypes
<1>3. DataInv' /\ FinAfterData
  BY <1>1, <1>2, ShutdownKeepsOrder DEF StreamInv
<1>4. TableInv'
  BY <1>1, <1>2, Demotes, QueuesChange DEF StreamInv, TableInv
<1> QED
  BY <1>3, <1>4 DEF StreamInv

LEMMA CallbackForceCloseStep ==
    ASSUME StreamInv, NEW l \in AllLoops, CallbackForceClose(l)
    PROVE  StreamInv' /\ FinAfterData
<1>1. /\ m_state' = [m_state EXCEPT ![cur[l]] = "kDisconnecting"]
      /\ pend' = [pend EXCEPT ![l] = Append(@, <<"forceCloseInLoop", cur[l]>>)]
      /\ UNCHANGED <<dataVars, events, m_connId, loop, ups, sent, cur, refs,
                     call, batch>>
  BY DEF CallbackForceClose, serverVars, chanVars, dataVars
<1>2. cur[l] \in Conns
  BY DEF StreamInv, TableInv, TableTypes
<1>3. DataInv' /\ FinAfterData
  BY <1>1, DataStays DEF StreamInv
<1>4. QueuesOK(pend', batch', ups, m_connId)
  BY <1>1, <1>2, OtherQueued DEF Functors
<1>5. TableInv'
  BY <1>1, <1>2, <1>4, Demotes, QueuesChange
<1> QED
  BY <1>3, <1>5 DEF StreamInv

LEMMA EndOnConnectionStep ==
    ASSUME StreamInv, NEW l \in AllLoops, EndOnConnection(l)
    PROVE  StreamInv' /\ FinAfterData
<1>1. /\ \/ m_state' = [m_state EXCEPT ![cur[l]] = "kDisconnecting"]
         \/ m_state' = m_state
      /\ UNCHANGED <<dataVars, events, m_connId, loop, ups, sent, cur, refs,
                     call, pend, batch>>
  BY DEF EndOnConnection, serverVars, stateVars, chanVars, dataVars, queueVars,
         userVars, historyVars
<1>2. cur[l] \in Conns
  BY DEF StreamInv, TableInv, TableTypes
<1>3. DataInv' /\ FinAfterData
  BY <1>1, DataStays DEF StreamInv
<1>4. /\ m_state' \in [Conns -> States]
      /\ \A d \in Conns : m_state'[d] = "kConnected" => m_state[d] = "kConnected"
  BY <1>1, <1>2, Demotes DEF StreamInv, TableInv, TableTypes
<1>5. TableInv'
  BY <1>1, <1>4, QueuesChange DEF StreamInv, TableInv
<1> QED
  BY <1>3, <1>5 DEF StreamInv

LEMMA UserChecksStep ==
    ASSUME StreamInv, NEW u \in Users, NEW op \in ThreadOps, NEW c \in Conns,
           UserChecks(u, op, c)
    PROVE  StreamInv' /\ FinAfterData
<1> DEFINE x == <<op, c, IF op = "send" THEN "set" ELSE "checked">>
<1>1. /\ m_state[c] = "kConnected" \/ op = "forceClose"
      /\ call' = [call EXCEPT ![u] = x]
      /\ UNCHANGED <<dataVars, events, m_connId, loop, ups, m_state, sent, cur,
                     refs, pend, batch>>
  BY DEF UserChecks, serverVars, stateVars, chanVars, dataVars, loopVars,
         queueVars, historyVars
<1>2. x \in Calls /\ x[1] = op /\ x[2] = c
  BY ServerAssumption DEF Calls
<1> HIDE DEF x
<1>3. DataInv' /\ FinAfterData
  BY <1>1, DataStays DEF StreamInv
<1>4. call' \in [Users -> {NoCall} \cup Calls]
  BY <1>1, <1>2 DEF StreamInv, TableInv, TableTypes
<1>5. ASSUME NEW v \in Users, call'[v] # NoCall, call'[v][1] = "send"
      PROVE  ups[call'[v][2]] > 0
  <2>1. CASE v = u
    <3>1. call'[v] = x
      BY <1>1, <2>1 DEF StreamInv, TableInv, TableTypes
    <3>2. m_state[c] = "kConnected"
      BY <1>1, <1>2, <1>5, <3>1
    <3> QED
      BY <1>2, <3>1, <3>2 DEF StreamInv, TableInv, UpBeforeUse
  <2>2. CASE v # u
    <3>1. call'[v] = call[v]
      BY <1>1, <2>2 DEF StreamInv, TableInv, TableTypes
    <3> QED
      BY <1>5, <3>1 DEF StreamInv, TableInv, SendsUp
  <2> QED
    BY <2>1, <2>2
<1>6. /\ m_state' \in [Conns -> States] /\ cur' \in [AllLoops -> Conns]
      /\ refs' \subseteq Conns
      /\ QueuesOK(pend', batch', ups, m_connId)
  BY <1>1 DEF StreamInv, TableInv, TableTypes
<1>7. TableInv'
  BY <1>1, <1>4, <1>5, <1>6, TablesKept
<1> QED
  BY <1>3, <1>7 DEF StreamInv

LEMMA UserSetsStep ==
    ASSUME StreamInv, NEW u \in Users, UserSets(u)
    PROVE  StreamInv' /\ FinAfterData
<1> DEFINE x == <<call[u][1], call[u][2], "set">>
<1>1. /\ call[u] # NoCall
      /\ m_state' = [m_state EXCEPT ![call[u][2]] = "kDisconnecting"]
      /\ call' = [call EXCEPT ![u] = x]
      /\ UNCHANGED <<dataVars, events, m_connId, loop, ups, sent, cur, refs,
                     pend, batch>>
  BY DEF UserSets, serverVars, chanVars, dataVars, loopVars, queueVars
<1>2. call[u] \in Calls /\ call[u][1] \in Ops /\ call[u][2] \in Conns
  BY <1>1 DEF StreamInv, TableInv, TableTypes, Calls
<1>3. x \in Calls /\ x[1] = call[u][1] /\ x[2] = call[u][2]
  BY <1>2 DEF Calls
<1> HIDE DEF x
<1>4. DataInv' /\ FinAfterData
  BY <1>1, DataStays DEF StreamInv
<1>5. call' \in [Users -> {NoCall} \cup Calls]
  BY <1>1, <1>3 DEF StreamInv, TableInv, TableTypes
<1>6. ASSUME NEW v \in Users, call'[v] # NoCall, call'[v][1] = "send"
      PROVE  ups[call'[v][2]] > 0
  <2>1. call[v] # NoCall /\ call[v][1] = "send" /\ call'[v][2] = call[v][2]
    BY <1>1, <1>3, <1>6 DEF StreamInv, TableInv, TableTypes
  <2> QED
    BY <2>1 DEF StreamInv, TableInv, SendsUp
<1>7. /\ m_state' \in [Conns -> States]
      /\ \A d \in Conns : m_state'[d] = "kConnected" => m_state[d] = "kConnected"
  BY <1>1, <1>2, Demotes
<1>8. /\ cur' \in [AllLoops -> Conns] /\ refs' \subseteq Conns
      /\ QueuesOK(pend', batch', ups, m_connId)
  BY <1>1 DEF StreamInv, TableInv, TableTypes
<1>9. TableInv'
  BY <1>1, <1>5, <1>6, <1>7, <1>8, TablesKept
<1> QED
  BY <1>4, <1>9 DEF StreamInv

LEMMA UserQueuesStep ==
    ASSUME StreamInv, NEW u \in Users, UserQueues(u)
    PROVE  StreamInv' /\ FinAfterData
<1> DEFINE c == call[u][2]
           f == <<Functor(call[u][1]), c>>
<1>1. /\ call[u] # NoCall
      /\ pend' = [pend EXCEPT ![loop[c]] = Append(@, f)]
      /\ call' = [call EXCEPT ![u] = NoCall]
      /\ UNCHANGED <<dataVars, events, m_connId, loop, ups, m_state, sent, cur,
                     refs, batch>>
  BY DEF UserQueues, serverVars, stateVars, chanVars, dataVars, historyVars
<1>2. /\ call[u] \in Calls /\ call[u][1] \in Ops /\ c \in Conns
      /\ loop[c] \in AllLoops
  BY <1>1 DEF StreamInv, TableInv, TableTypes, Calls
<1>3. /\ f \in Entry
      /\ \A d \in Conns : f # Est(d)
      /\ \A d \in Conns : f = Snd(d) => ups[d] > 0
  <2>1. CASE call[u][1] = "send"
    <3>1. Functor(call[u][1]) = "sendInLoop" /\ ups[c] > 0
      BY <1>1, <2>1 DEF Functor, StreamInv, TableInv, SendsUp
    <3> QED
      BY <1>2, <3>1 DEF Entry, Functors, Est, Snd
  <2>2. CASE call[u][1] # "send"
    <3>1. Functor(call[u][1]) \in {"shutdownInLoop", "forceCloseInLoop"}
      BY <1>2, <2>2 DEF Functor, Ops
    <3> QED
      BY <1>2, <3>1 DEF Entry, Functors, Est, Snd
  <2> QED
    BY <2>1, <2>2
<1> HIDE DEF f, c
<1>4. DataInv' /\ FinAfterData
  BY <1>1, DataStays DEF StreamInv
<1>5. QueuesOK(pend', batch', ups, m_connId)
  BY <1>1, <1>2, <1>3, Push DEF StreamInv, TableInv
<1>6. /\ call' \in [Users -> {NoCall} \cup Calls]
      /\ \A v \in Users :
            call'[v] # NoCall /\ call'[v][1] = "send" => ups[call'[v][2]] > 0
  BY <1>1 DEF StreamInv, TableInv, TableTypes, SendsUp
<1>7. /\ m_state' \in [Conns -> States] /\ cur' \in [AllLoops -> Conns]
      /\ refs' \subseteq Conns
  BY <1>1 DEF StreamInv, TableInv, TableTypes
<1>8. TableInv'
  BY <1>1, <1>5, <1>6, <1>7, TablesKept
<1> QED
  BY <1>4, <1>8 DEF StreamInv

-----------------------------------------------------------------------------
(* A new connection.                                                       *)

LEMMA NewConnectionStep ==
    ASSUME StreamInv, NewConnection
    PROVE  StreamInv' /\ FinAfterData
<1> DEFINE c == m_connId + 1
<1>1. PICK l \in AllLoops :
         /\ loop' = [loop EXCEPT ![c] = l]
         /\ IF l = Base THEN ConnectEstablished(l, c) /\ UNCHANGED pend
                        ELSE QueueEstablished(l, c)
  BY DEF NewConnection
<1>2. /\ m_connId' = c /\ m_connId < NumConns
      /\ UNCHANGED <<dataVars, sent, refs, call, batch>>
  BY DEF NewConnection, dataVars, userVars
<1>3. /\ m_connId \in Nat /\ c \in Conns /\ c \in 0 .. NumConns
      /\ c > m_connId /\ \A d \in Conns : d > c => d > m_connId
  BY <1>2, ServerAssumption DEF StreamInv, TableInv, TableTypes, Conns
<1>4. ups[c] = 0
  BY <1>3 DEF StreamInv, TableInv, UpBeforeUse
<1>5. loop' \in [Conns -> AllLoops] /\ m_connId' \in 0 .. NumConns
  BY <1>1, <1>2, <1>3 DEF StreamInv, TableInv, TableTypes
<1>6. CASE l = Base
  <2>1. /\ DataInv' /\ FinAfterData
        /\ m_state' \in [Conns -> States] /\ cur' \in [AllLoops -> Conns]
        /\ ups' = [ups EXCEPT ![c] = @ + 1]
        /\ ups' \in [Conns -> Nat] /\ ups'[c] > 0
        /\ \A d \in Conns \ {c} : ups'[d] = ups[d] /\ m_state'[d] = m_state[d]
    BY <1>1, <1>2, <1>3, <1>4, <1>6, Establishes
  <2>2. QueuesOK(pend', batch', ups', m_connId')
    BY <1>1, <1>2, <1>3, <1>6, <2>1, ComesUpNew DEF StreamInv, TableInv, TableTypes
  <2>3. TableTypes'
    BY <1>2, <1>5, <2>1 DEF StreamInv, TableInv, TableTypes
  <2>4. SendsUp'
    <3>1. ASSUME NEW u \in Users, call[u] # NoCall, call[u][1] = "send"
          PROVE  ups'[call[u][2]] > 0
      <4>1. call[u][2] \in Conns /\ ups[call[u][2]] > 0
        BY <3>1 DEF StreamInv, TableInv, TableTypes, SendsUp, Calls
      <4> QED
        BY <2>1, <4>1
    <3> QED
      BY <1>2, <3>1 DEF SendsUp
  <2>5. UpBeforeUse'
    <3> HIDE DEF c
    <3>1. ASSUME NEW d \in Conns
          PROVE  /\ m_state'[d] = "kConnected" => ups'[d] > 0
                 /\ ups'[d] = 0 => sent[d] = 0
                 /\ d > c => ups'[d] = 0
      <4>1. CASE d = c
        <5>1. ~(c > c)
          BY <1>3
        <5> QED
          BY <2>1, <4>1, <5>1
      <4>2. CASE d # c
        BY <1>3, <2>1, <4>2 DEF StreamInv, TableInv, UpBeforeUse
      <4> QED
        BY <4>1, <4>2
    <3> QED
      BY <1>2, <3>1 DEF UpBeforeUse
  <2> QED
    BY <2>1, <2>2, <2>3, <2>4, <2>5 DEF StreamInv, TableInv
<1>7. CASE l # Base
  <2>1. /\ m_state' = [m_state EXCEPT ![c] = "kConnecting"]
        /\ pend' = [pend EXCEPT ![l] = Append(@, Est(c))]
        /\ UNCHANGED <<events, cur, ups>>
    BY <1>1, <1>7 DEF QueueEstablished, Est, chanVars
  <2>2. QueuesOK(pend', batch', ups', m_connId')
    BY <1>2, <1>3, <1>4, <2>1, PushNew DEF StreamInv, TableInv
  <2>3. DataInv' /\ FinAfterData
    BY <1>2, <2>1, DataStays DEF StreamInv
  <2>4. TableTypes'
    BY <1>2, <1>5, <2>1 DEF StreamInv, TableInv, TableTypes, States
  <2>5. SendsUp'
    BY <1>2, <2>1 DEF StreamInv, TableInv, SendsUp
  <2>6. UpBeforeUse'
    <3> HIDE DEF c
    <3>1. \A d \in Conns : m_state'[d] = "kConnected" => m_state[d] = "kConnected"
      BY <2>1 DEF StreamInv, TableInv, TableTypes
    <3> QED
      BY <1>2, <1>3, <2>1, <3>1 DEF StreamInv, TableInv, UpBeforeUse
  <2> QED
    BY <2>2, <2>3, <2>4, <2>5, <2>6 DEF StreamInv, TableInv
<1> QED
  BY <1>6, <1>7

-----------------------------------------------------------------------------
LEMMA StreamInit == Init => StreamInv
<1> SUFFICES ASSUME Init PROVE StreamInv
  OBVIOUS
<1>1. NumConns \in Nat \ {0} /\ MsgLen \in Nat /\ SndBuf \in Nat
  BY ServerAssumption
<1>2. DataTypes
  <2>1. /\ out = [c \in Conns |-> <<>>]
        /\ wire = [c \in Conns |-> <<>>]
        /\ inflight = [c \in Conns |-> 0]
        /\ sent = [c \in Conns |-> 0]
        /\ wrShut = [c \in Conns |-> FALSE]
        /\ events = [c \in Conns |-> {}]
    BY DEF Init
  <2>2. <<>> \in Seq(Nat) /\ 0 \in 0 .. SndBuf
    BY <1>1
  <2> QED
    BY <2>1, <2>2 DEF DataTypes
<1>3. BytesInOrder
  <2>1. ASSUME NEW c \in Conns
        PROVE  wire[c] \o out[c] = [i \in 1 .. sent[c] * MsgLen |-> i]
    <3>1. wire[c] = <<>> /\ out[c] = <<>> /\ sent[c] = 0
      BY DEF Init
    <3>2. sent[c] * MsgLen = 0
      BY <1>1, <3>1
    <3>3. [i \in 1 .. 0 |-> i] = <<>> /\ <<>> \o <<>> = <<>>
      OBVIOUS
    <3> QED
      BY <3>1, <3>2, <3>3
  <2> QED
    BY <2>1 DEF BytesInOrder
<1>4. Flushed
  BY DEF Init, Flushed
<1>5. TableTypes
  <2>1. 1 \in Conns /\ Base \in AllLoops
    BY <1>1 DEF Conns, AllLoops
  <2>2. /\ m_connId = 0 /\ refs = {}
        /\ loop = [c \in Conns |-> Base]
        /\ m_state = [c \in Conns |-> "none"]
        /\ cur = [l \in AllLoops |-> 1]
        /\ ups = [c \in Conns |-> 0]
        /\ call = [u \in Users |-> NoCall]
    BY DEF Init
  <2> QED
    BY <1>1, <2>1, <2>2 DEF TableTypes, States
<1>6. SendsUp /\ UpBeforeUse
  BY DEF Init, SendsUp, UpBeforeUse
<1>7. QueuesOK(pend, batch, ups, m_connId)
  <2>1. \A g : ~In(<<>>, g) /\ OnceIn(<<>>, g)
    BY DEF In, OnceIn
  <2>2. /\ pend = [l \in AllLoops |-> <<>>]
        /\ batch = [l \in AllLoops |-> <<>>]
    BY DEF Init
  <2> QED
    BY <2>1, <2>2 DEF QueuesOK, PlaceOK, Waits
<1> QED
  BY <1>2, <1>3, <1>4, <1>5, <1>6, <1>7 DEF StreamInv, DataInv, TableInv

LEMMA StreamStep == StreamInv /\ [Next]_vars => StreamInv' /\ FinAfterData
<1> SUFFICES ASSUME StreamInv, [Next]_vars PROVE StreamInv' /\ FinAfterData
  OBVIOUS
<1>1. Base \in AllLoops /\ 1 \in Conns
  BY ServerAssumption DEF AllLoops, Conns
<1>2. CASE Start \/ UNCHANGED vars
  BY <1>1, <1>2, QuietSteps
<1>3. CASE NewConnection
  BY <1>3, NewConnectionStep
<1>4. ASSUME NEW l \in AllLoops, LoopStep(l)
      PROVE  StreamInv' /\ FinAfterData
  <2>1. CASE Poll(l) \/ HandleFreed(l) \/ HandleReset(l) \/ EndBatch(l) \/ EndOnMessage(l)
    BY <1>1, <2>1, QuietSteps
  <2>2. CASE HandleData(l) \/ HandleEnd(l) \/ HandleWrite(l) \/ EndEvents(l)
    BY <2>2, HandleDataStep, HandleEndStep, HandleWriteStep, EndEventsStep
  <2>3. CASE RunEstablished(l) \/ RunDestroyed(l) \/ RunSend(l)
    BY <2>3, RunEstablishedStep, RunDestroyedStep, RunSendStep
  <2>4. CASE RunShutdown(l) \/ RunForceClose(l) \/ RunRemove(l)
    BY <2>4, RunShutdownStep, RunForceCloseStep, RunRemoveStep
  <2>5. CASE EndOnConnection(l)
    BY <2>5, EndOnConnectionStep
  <2> QED
    BY <1>4, <2>1, <2>2, <2>3, <2>4, <2>5 DEF LoopStep
<1>5. ASSUME NEW l \in AllLoops, CallbackStep(l) \/ TimerFires(l)
      PROVE  StreamInv' /\ FinAfterData
  <2>1. CASE CallbackShare(l)
    BY <1>1, <2>1, QuietSteps
  <2>2. CASE CallbackSend(l) \/ CallbackShutdown(l) \/ CallbackForceClose(l) \/ TimerFires(l)
    BY <2>2, CallbackSendStep, CallbackShutdownStep, CallbackForceCloseStep, TimerFiresStep
  <2> QED
    BY <1>5, <2>1, <2>2 DEF CallbackStep
<1>6. ASSUME NEW u \in Users, UserStep(u)
      PROVE  StreamInv' /\ FinAfterData
  BY <1>6, UserChecksStep, UserSetsStep, UserQueuesStep DEF UserStep
<1>7. ASSUME NEW c \in Conns, UserDrops(c) \/ PeerStep(c)
      PROVE  StreamInv' /\ FinAfterData
  <2>1. CASE UserDrops(c) \/ PeerSends(c) \/ PeerCloses(c) \/ PeerResets(c)
    BY <1>1, <2>1, QuietSteps
  <2>2. CASE PeerReads(c)
    BY <2>2, PeerReadsStep
  <2> QED
    BY <1>7, <2>1, <2>2 DEF PeerStep
<1> QED
  BY <1>2, <1>3, <1>4, <1>5, <1>6, <1>7 DEF Next

(* sendInLoop, handleWrite and shutdownInLoop: what a peer receives and    *)
(* what is in m_outputBuffer is together what was sent, in order, with     *)
(* nothing lost or repeated, and a FIN comes only after all of it, however *)
(* many loops, connections and threads there are and whatever write(2)     *)
(* takes at a time.                                                        *)
THEOREM PeersGetStreams == Spec => StreamInOrder
<1>1. StreamInv /\ [Next]_vars => StreamInv' /\ [BytesInOrder' /\ FinAfterData]_vars
  BY StreamStep DEF StreamInv, DataInv
<1> QED
  BY <1>1, StreamInit, PTL DEF Spec, StreamInOrder

-----------------------------------------------------------------------------
(* The server and its thread pool.  m_connections has as many connections  *)
(* on a loop as the pool was asked for less those it was told are gone.    *)

On(l) == {c \in m_connections : loop[c] = l}

MapInv ==
    /\ m_connId \in 0 .. NumConns
    /\ m_connections \subseteq 1 .. m_connId
    /\ loop \in [Conns -> AllLoops]
    /\ m_connections # {} => m_started

Removal == \E c \in m_connections : RemoveConnectionInLoop(c)

(* Only these steps change m_connections and the pool's tables.            *)
LEMMA HandleCloseRemoves ==
    ASSUME NEW c \in Conns, HandleClose(c), Closable(c), CloseFailure(c) = ""
    PROVE  Removal \/ UNCHANGED serverVars
<1>1. CASE loop[c] = Base
  <2>1. c \in m_connections
    BY <1>1 DEF CloseFailure
  <2> QED
    BY <1>1, <2>1 DEF HandleClose, Removal
<1>2. CASE loop[c] # Base
  BY <1>2 DEF HandleClose
<1> QED
  BY <1>1, <1>2

LEMMA ServerSteps ==
    [Next]_vars => Start \/ NewConnection \/ Removal \/ UNCHANGED serverVars
<1> DEFINE Goal == Start \/ NewConnection \/ Removal \/ UNCHANGED serverVars
<1> SUFFICES ASSUME [Next]_vars PROVE Goal
  OBVIOUS
<1>1. ASSUME NEW l \in AllLoops, HandleEnd(l)
      PROVE  Goal
  <2>1. PICK c \in Conns : IF CloseFailure(c) # "" THEN Fail(CloseFailure(c))
                                                   ELSE HandleClose(c)
    BY <1>1 DEF HandleEnd
  <2>2. CASE CloseFailure(c) # ""
    BY <2>1, <2>2 DEF Fail
  <2>3. CASE CloseFailure(c) = ""
    <3>1. Closable(c)
      BY <2>3 DEF CloseFailure
    <3> QED
      BY <2>1, <2>3, <3>1, HandleCloseRemoves
  <2> QED
    BY <2>2, <2>3
<1>2. ASSUME NEW l \in AllLoops, RunForceClose(l)
      PROVE  Goal
  <2>1. PICK c \in Conns :
           IF Closable(c) /\ CloseFailure(c) # ""
           THEN Fail(CloseFailure(c))
           ELSE IF Closable(c) THEN HandleClose(c)
                               ELSE UNCHANGED <<serverVars, chanVars, pend>>
    BY <1>2 DEF RunForceClose
  <2>2. CASE Closable(c) /\ CloseFailure(c) # ""
    BY <2>1, <2>2 DEF Fail
  <2>3. CASE Closable(c) /\ CloseFailure(c) = ""
    BY <2>1, <2>3, HandleCloseRemoves
  <2>4. CASE ~Closable(c)
    BY <2>1, <2>4
  <2> QED
    BY <2>2, <2>3, <2>4
<1>3. ASSUME NEW l \in AllLoops, RunRemove(l)
      PROVE  Goal
  <2>1. PICK c \in Conns : IF c \notin m_connections THEN Fail("n == 1")
                                                     ELSE RemoveConnectionInLoop(c)
    BY <1>3 DEF RunRemove
  <2> QED
    BY <2>1 DEF Fail, Removal
<1>4. ASSUME NEW l \in AllLoops, RunDestroyed(l)
      PROVE  Goal
  BY <1>4 DEF RunDestroyed, Fail
<1>5. ASSUME NEW l \in AllLoops, LoopStep(l)
      PROVE  Goal
  BY <1>1, <1>2, <1>3, <1>4, <1>5 DEF LoopStep, Poll, HandleFreed, HandleReset,
     HandleData, HandleWrite, EndEvents, EndBatch, RunEstablished, RunSend,
     RunShutdown, EndOnConnection, EndOnMessage, Fail
<1>6. ASSUME NEW l \in AllLoops, CallbackStep(l) \/ TimerFires(l)
      PROVE  Goal
  BY <1>6 DEF CallbackStep, CallbackSend, CallbackShutdown, CallbackForceClose,
     CallbackShare, TimerFires
<1>7. ASSUME NEW u \in Users, UserStep(u)
      PROVE  Goal
  BY <1>7 DEF UserStep, UserChecks, UserSets, UserQueues
<1>8. ASSUME NEW c \in Conns, UserDrops(c) \/ PeerStep(c)
      PROVE  Goal
  BY <1>8 DEF UserDrops, PeerStep, PeerSends, PeerReads, PeerCloses, PeerResets
<1>9. CASE UNCHANGED vars
  BY <1>9 DEF vars
<1> QED
  BY <1>5, <1>6, <1>7, <1>8, <1>9 DEF Next

LEMMA OnFinite ==
    ASSUME MapInv, NEW l
    PROVE  /\ IsFiniteSet(On(l)) /\ Cardinality(On(l)) \in Nat
           /\ \A c : c \notin On(l) => Cardinality(On(l) \cup {c}) = Cardinality(On(l)) + 1
           /\ \A c \in On(l) :
                 /\ Cardinality(On(l) \ {c}) = Cardinality(On(l)) - 1
                 /\ Cardinality(On(l)) > 0
           /\ Cardinality(On(l)) <= m_connId
<1>1. m_connId \in Nat
  BY ServerAssumption DEF MapInv
<1>2. IsFiniteSet(1 .. m_connId) /\ Cardinality(1 .. m_connId) = m_connId
  BY <1>1, FS_Interval
<1>3. On(l) \subseteq 1 .. m_connId
  BY DEF On, MapInv
<1>4. IsFiniteSet(On(l)) /\ Cardinality(On(l)) <= m_connId
  BY <1>2, <1>3, FS_Subset
<1>5. Cardinality(On(l)) \in Nat
  BY <1>4, FS_CardinalityType
<1>6. ASSUME NEW c, c \notin On(l)
      PROVE  Cardinality(On(l) \cup {c}) = Cardinality(On(l)) + 1
  BY <1>4, <1>6, FS_AddElement
<1>7. ASSUME NEW c \in On(l)
      PROVE  /\ Cardinality(On(l) \ {c}) = Cardinality(On(l)) - 1
             /\ Cardinality(On(l)) > 0
  <2>1. Cardinality(On(l) \ {c}) = Cardinality(On(l)) - 1
    BY <1>4, FS_RemoveElement
  <2>2. Cardinality(On(l)) # 0
    BY <1>4, <1>7, FS_EmptySet
  <2> QED
    BY <1>5, <2>1, <2>2
<1> QED
  BY <1>4, <1>5, <1>6, <1>7

(* The pool's view of the connections is what the map holds.               *)
LEMMA Given ==
    /\ Pool!Loops = IoLoops /\ Pool!Loops \cup {Pool!Base} = AllLoops
    /\ Pool!Base = Base
BY DEF Pool!Loops, Pool!Base, IoLoops, AllLoops, Base

Counts == [l \in AllLoops |-> Cardinality(On(l))]

LEMMA PoolStart ==
    ASSUME MapInv, Start
    PROVE  Pool!Start /\ MapInv'
<1>1. /\ Pool!StartTables /\ m_started'
      /\ UNCHANGED <<m_connId, m_connections, loop>>
  BY DEF Start, Pool!StartTables
<1> QED
  BY <1>1 DEF Pool!Start, MapInv

LEMMA PoolGets ==
    ASSUME MapInv, NewConnection
    PROVE  Pool!GetNextLoopMinConnection /\ MapInv'
<1> DEFINE c == m_connId + 1
<1>1. PICK l \in AllLoops : Pool!TakeMinLoop(l) /\ loop' = [loop EXCEPT ![c] = l]
  BY DEF NewConnection
<1>2. /\ m_connId' = c /\ m_connId < NumConns
      /\ m_connections' = m_connections \cup {c}
      /\ m_started /\ m_started' = m_started
  BY DEF NewConnection
<1>3. /\ m_connId \in Nat /\ c \in Conns /\ c \in 0 .. NumConns
      /\ c \notin m_connections
      /\ 1 .. m_connId \subseteq 1 .. c /\ c \in 1 .. c
      /\ m_connections \subseteq Conns
  BY <1>2, ServerAssumption DEF MapInv, Conns
<1>4. /\ loop' \in [Conns -> AllLoops] /\ loop'[c] = l
      /\ \A d \in Conns \ {c} : loop'[d] = loop[d]
  BY <1>1, <1>3 DEF MapInv
<1>5. MapInv'
  BY <1>2, <1>3, <1>4 DEF MapInv
<1> HIDE DEF c
<1>6. /\ On(l)' = On(l) \cup {c} /\ c \notin On(l)
      /\ \A k \in AllLoops \ {l} : On(k)' = On(k)
  BY <1>2, <1>3, <1>4 DEF On
<1>7. /\ Cardinality(On(l)') = Cardinality(On(l)) + 1
      /\ Cardinality(On(l)) < NumConns
  BY <1>2, <1>3, <1>6, OnFinite, ServerAssumption
<1>8. Counts' = [Counts EXCEPT ![l] = @ + 1]
  BY <1>6, <1>7 DEF Counts
<1>9. /\ [k \in AllLoops |-> Cardinality({d \in m_connections : loop[d] = k})] = Counts
      /\ [k \in AllLoops |-> Cardinality({d \in m_connections : loop[d] = k})]' = Counts'
  BY DEF Counts, On
<1>10. Counts[l] < NumConns
  BY <1>7 DEF Counts
<1> QED
  BY <1>1, <1>2, <1>5, <1>8, <1>9, <1>10, Given DEF Pool!GetNextLoopMinConnection

LEMMA PoolRemoves ==
    ASSUME MapInv, Removal
    PROVE  (\E l \in AllLoops : Pool!RemoveLoopConnection(l)) /\ MapInv'
<1>1. PICK c \in m_connections : RemoveConnectionInLoop(c)
  BY DEF Removal
<1>2. c \in Conns
  BY <1>1, ServerAssumption DEF MapInv, Conns
<1>3. PICK l \in AllLoops : l = loop[c]
  BY <1>2 DEF MapInv
<1>4. /\ m_connections' = m_connections \ {c} /\ Pool!DropLoop(l)
      /\ UNCHANGED <<m_started, m_connId, loop>>
  BY <1>1, <1>3 DEF RemoveConnectionInLoop, UncountConnection
<1>5. MapInv' /\ m_started
  BY <1>1, <1>4 DEF MapInv
<1>6. /\ On(l)' = On(l) \ {c} /\ c \in On(l)
      /\ \A k \in AllLoops \ {l} : On(k)' = On(k)
  BY <1>1, <1>3, <1>4 DEF On
<1>7. Cardinality(On(l)') = Cardinality(On(l)) - 1 /\ Cardinality(On(l)) > 0
  BY <1>6, OnFinite
<1>8. Counts' = [Counts EXCEPT ![l] = @ - 1] /\ Counts[l] > 0
  BY <1>6, <1>7 DEF Counts
<1>9. /\ [k \in AllLoops |-> Cardinality({d \in m_connections : loop[d] = k})] = Counts
      /\ [k \in AllLoops |-> Cardinality({d \in m_connections : loop[d] = k})]' = Counts'
  BY DEF Counts, On
<1>10. Pool!RemoveLoopConnection(l)
  BY <1>4, <1>5, <1>8, <1>9 DEF Pool!RemoveLoopConnection
<1> QED
  BY <1>5, <1>10

LEMMA PoolStep == MapInv /\ [Next]_vars => MapInv' /\ [Pool!Next]_(Pool!vars)
<1> SUFFICES ASSUME MapInv, [Next]_vars PROVE MapInv' /\ [Pool!Next]_(Pool!vars)
  OBVIOUS
<1>1. CASE Start
  BY <1>1, PoolStart DEF Pool!Next
<1>2. CASE NewConnection
  BY <1>2, PoolGets DEF Pool!Next
<1>3. CASE Removal
  BY <1>3, PoolRemoves, Given DEF Pool!Next
<1>4. CASE UNCHANGED serverVars
  BY <1>4 DEF serverVars, MapInv, Pool!vars
<1> QED
  BY <1>1, <1>2, <1>3, <1>4, ServerSteps

LEMMA PoolInit == Init => MapInv /\ Pool!Init
<1> SUFFICES ASSUME Init PROVE MapInv /\ Pool!Init
  OBVIOUS
<1>1. m_connections = {} /\ m_connId = 0 /\ loop = [c \in Conns |-> Base]
  BY DEF Init
<1>2. Base \in AllLoops /\ NumConns \in Nat
  BY ServerAssumption DEF AllLoops
<1>3. MapInv
  BY <1>1, <1>2 DEF MapInv
<1>4. [l \in AllLoops |-> Cardinality({c \in m_connections : loop[c] = l})]
         = [l \in AllLoops |-> 0]
  BY <1>1, FS_EmptySet
<1>5. Pool!Init
  BY <1>4, Given DEF Init, Pool!Init
<1> QED
  BY <1>3, <1>5

(* newConnection, removeConnectionInLoop and handleClose keep the thread   *)
(* pool's contract: however connections are made and closed, at once or by *)
(* functors, every removal it is told of is of a connection it gave a loop *)
(* and nobody has removed; all that is proved of the pool, that its tables *)
(* agree and that the least loaded loop is chosen, is true in the server.  *)
THEOREM ServerUsesPool == Spec => ImplementsPool
BY PoolInit, PoolStep, PTL DEF Spec, ImplementsPool, Pool!Spec

(* What is proved of the pool, on the server's tables: the theorems cited  *)
(* are those of the pool's own Spec, which says nothing of the threads.    *)
PoolTheorems == INSTANCE EventLoopThreadProofs WITH
            base <- 0,
            thread <- 0,
            MaxConns <- NumConns,
            MaxCalls <- 0,
            m_next <- 0,
            handed <- [l \in IoLoops |-> 0],
            given <- [l \in AllLoops |->
                        Cardinality({c \in m_connections : loop[c] = l})]

LEMMA ServerRunsPool == Spec => PoolTheorems!Spec
<1>1. Pool!Init => PoolTheorems!Init
  BY DEF Pool!Init, PoolTheorems!Init, Pool!Loops, Pool!Base,
     PoolTheorems!Loops, PoolTheorems!Base
<1>2. [Pool!Next]_(Pool!vars) => [PoolTheorems!Next]_(PoolTheorems!vars)
  BY DEF Pool!vars, PoolTheorems!vars,
     Pool!Next, Pool!Start, Pool!StartTables,
     Pool!GetNextLoopMinConnection, Pool!TakeMinLoop, Pool!IsFirst,
     Pool!UpdateTables, Pool!RemoveLoopConnection, Pool!DropLoop,
     Pool!GetNextLoop, Pool!Loops, Pool!Base, PoolTheorems!Next,
     PoolTheorems!Start, PoolTheorems!StartTables,
     PoolTheorems!GetNextLoopMinConnection, PoolTheorems!TakeMinLoop,
     PoolTheorems!IsFirst, PoolTheorems!UpdateTables,
     PoolTheorems!RemoveLoopConnection, PoolTheorems!DropLoop,
     PoolTheorems!GetNextLoop, PoolTheorems!Loops, PoolTheorems!Base
<1> QED
  BY <1>1, <1>2, ServerUsesPool, PTL DEF ImplementsPool, Pool!Spec, PoolTheorems!Spec

(* The asserts of update() hold in the server: for each loop both tables   *)
(* have one entry, with the number of connections of m_connections that    *)
(* are on it, whatever order connections come and go in on the loops.      *)
THEOREM ServerTablesAgree == Spec => []Pool!CountsAgree
<1>1. PoolTheorems!Spec => []PoolTheorems!CountsAgree
  BY PoolTheorems!TablesAgree, ServerAssumption DEF PoolTheorems!PoolAssumption
<1>2. PoolTheorems!CountsAgree => Pool!CountsAgree
  BY DEF Pool!CountsAgree, PoolTheorems!CountsAgree, Pool!Loops, PoolTheorems!Loops
<1> QED
  BY <1>1, <1>2, ServerRunsPool, PTL

-----------------------------------------------------------------------------
(* Where things are.  A functor for a connection is queued only to the     *)
(* loop of the connection, connectEstablished while the map holds it and   *)
(* the others once it is established, and removeConnectionInLoop to the    *)
(* base loop from another; a loop in a callback is in one of a connection  *)
(* of its own that has its channel registered, and so are the channels it  *)
(* has to handle; a loop keeps a batch only while it runs functors.        *)

Ds(c) == <<"connectDestroyed", c>>
Rm(c) == <<"removeConnectionInLoop", c>>

Queued(l, f) == In(pend[l], f) \/ In(batch[l], f)

Placed(l, f) ==
    IF f[1] = "connectEstablished"
    THEN loop[f[2]] = l /\ l # Base /\ f[2] \in m_connections
    ELSE /\ ups[f[2]] > 0
         /\ IF f[1] = "removeConnectionInLoop" THEN l = Base /\ loop[f[2]] # Base
                                               ELSE loop[f[2]] = l

PlacedInv == \A l \in AllLoops, f \in Entry : Queued(l, f) => Placed(l, f)

InHandler(l) == at[l] \in {"onConnection", "onMessage", "write"}
RunsBatch(l) == at[l] = "functors" \/ (at[l] = "onConnection" /\ l # Base)

LoopOK(l) ==
    /\ IF RunsBatch(l) THEN active[l] = {} ELSE batch[l] = <<>> /\ held[l] = {}
    /\ \A f \in Entry : In(batch[l], f) => f[2] \in held[l]
    /\ \A c \in active[l] : c \in channels /\ loop[c] = l
    /\ InHandler(l) => cur[l] \in channels /\ loop[cur[l]] = l

Fresh(c) ==
    /\ m_state[c] \in {"none", "kConnecting"} /\ m_timer[c] = "none"
    /\ events[c] = {} /\ index[c] = "kNew" /\ c \notin channels
    /\ c \notin refs /\ downs[c] = 0

ConnOK(c) ==
    /\ ups[c] = 0 => Fresh(c)
    /\ ups[c] \in 0 .. 1 /\ downs[c] \in 0 .. 1
    /\ m_state[c] = "kConnected" => downs[c] = 0
    /\ index[c] = "kAdded" => c \in channels

CallOK == \A u \in Users : call[u] # NoCall => call[u][2] \in refs

Places == {"poll", "events", "onMessage", "write", "functors", "onConnection"}

FlowTypes ==
    /\ m_timer \in [Conns -> {"none", "armed", "fired"}]
    /\ index \in [Conns -> {"kNew", "kAdded", "kDeleted"}]
    /\ channels \subseteq Conns
    /\ at \in [AllLoops -> Places]
    /\ active \in [AllLoops -> SUBSET Conns]
    /\ held \in [AllLoops -> SUBSET Conns]
    /\ downs \in [Conns -> Nat]

FlowInv ==
    /\ FlowTypes
    /\ PlacedInv
    /\ \A l \in AllLoops : LoopOK(l)
    /\ \A c \in Conns : ConnOK(c)
    /\ CallOK

Reach == StreamInv /\ MapInv /\ FlowInv

LEMMA Kinds ==
    /\ Base \in AllLoops
    /\ \A c \in Conns, op \in Functors :
          <<op, c>> \in Entry /\ <<op, c>>[1] = op /\ <<op, c>>[2] = c
    /\ \A f \in Entry : f[1] \in Functors /\ f[2] \in Conns /\ f = <<f[1], f[2]>>
BY DEF AllLoops, Entry

LEMMA Typed ==
    ASSUME Reach
    PROVE  /\ pend \in [AllLoops -> Seq(Entry)] /\ batch \in [AllLoops -> Seq(Entry)]
           /\ m_state \in [Conns -> States] /\ events \in [Conns -> SUBSET {"IN", "OUT"}]
           /\ loop \in [Conns -> AllLoops] /\ cur \in [AllLoops -> Conns]
           /\ ups \in [Conns -> Nat] /\ refs \subseteq Conns
           /\ call \in [Users -> {NoCall} \cup Calls]
           /\ m_connections \subseteq Conns /\ m_connId \in Nat
           /\ FlowTypes
<1>1. 1 .. m_connId \subseteq Conns /\ m_connId \in Nat
  BY ServerAssumption DEF Reach, MapInv, Conns
<1> QED
  BY <1>1 DEF Reach, StreamInv, DataInv, DataTypes, TableInv, TableTypes,
     QueuesOK, MapInv, FlowInv

(* Queues.                                                                 *)
Pushes(k, g) == pend' = [pend EXCEPT ![k] = Append(@, g)]

LEMMA PendPushed ==
    ASSUME Reach, NEW k \in AllLoops, NEW g \in Entry, Pushes(k, g)
    PROVE  \A l \in AllLoops, f \in Entry :
              In(pend'[l], f) <=> In(pend[l], f) \/ (l = k /\ f = g)
<1>1. ASSUME NEW l \in AllLoops, NEW f \in Entry
      PROVE  In(pend'[l], f) <=> In(pend[l], f) \/ (l = k /\ f = g)
  <2>1. pend[k] \in Seq(Entry) /\ pend \in [AllLoops -> Seq(Entry)]
    BY Typed
  <2>2. In(Append(pend[k], g), f) <=> In(pend[k], f) \/ g = f
    BY <2>1, Appended
  <2>3. CASE l = k
    <3>1. pend'[l] = Append(pend[k], g)
      BY <2>1, <2>3 DEF Pushes
    <3> QED
      BY <2>2, <2>3, <3>1
  <2>4. CASE l # k
    BY <2>1, <2>4 DEF Pushes
  <2> QED
    BY <2>3, <2>4
<1> QED
  BY <1>1

LEMMA Pushed ==
    ASSUME Reach, NEW k \in AllLoops, NEW g \in Entry, Pushes(k, g), batch' = batch
    PROVE  \A l \in AllLoops, f \in Entry :
              Queued(l, f)' <=> Queued(l, f) \/ (l = k /\ f = g)
BY PendPushed DEF Queued

LEMMA Swapped ==
    ASSUME Reach, NEW k \in AllLoops, batch[k] = <<>>,
           pend' = [pend EXCEPT ![k] = <<>>], batch' = [batch EXCEPT ![k] = pend[k]]
    PROVE  \A l \in AllLoops, f \in Entry : Queued(l, f)' <=> Queued(l, f)
<1>1. ASSUME NEW l \in AllLoops, NEW f \in Entry
      PROVE  Queued(l, f)' <=> Queued(l, f)
  <2>1. pend \in [AllLoops -> Seq(Entry)] /\ batch \in [AllLoops -> Seq(Entry)]
    BY Typed
  <2>2. ~In(<<>>, f)
    BY DEF In
  <2>3. CASE l = k
    <3>1. pend'[l] = <<>> /\ batch'[l] = pend[l] /\ batch[l] = <<>>
      BY <2>1, <2>3
    <3> QED
      BY <2>2, <3>1 DEF Queued
  <2>4. CASE l # k
    BY <2>1, <2>4 DEF Queued
  <2> QED
    BY <2>3, <2>4
<1> QED
  BY <1>1

LEMMA TailKeeps ==
    ASSUME NEW q \in Seq(Entry), q # <<>>, NEW g, In(q, g), g # Head(q)
    PROVE  In(Tail(q), g)
<1> DEFINE r == Tail(q)
<1>1. /\ Len(r) = Len(q) - 1 /\ Len(q) \in Nat \ {0}
      /\ \A i \in 1 .. Len(r) : r[i] = q[i + 1]
      /\ Head(q) = q[1]
      /\ DOMAIN q = 1 .. Len(q) /\ DOMAIN r = 1 .. Len(r)
  BY HeadTailProperties, LenProperties, EmptySeq
<1> HIDE DEF r
<1>2. PICK i \in DOMAIN q : q[i] = g
  BY DEF In
<1>3. i # 1 /\ i \in Nat /\ i - 1 \in DOMAIN r /\ (i - 1) + 1 = i
  BY <1>1, <1>2
<1>4. r[i - 1] = g
  BY <1>1, <1>2, <1>3
<1> QED
  BY <1>3, <1>4 DEF In, r

(* A functor runs, and pushes at most one other.                           *)
LEMMA Ran ==
    ASSUME Reach, NEW k \in AllLoops, NEW op, NEW c \in Conns,
           Running(k, op, c), Pop(k)
    PROVE  /\ op \in Functors /\ <<op, c>> \in Entry
           /\ at[k] = "functors" /\ active[k] = {} /\ c \in held[k]
           /\ Queued(k, <<op, c>>) /\ Placed(k, <<op, c>>)
           /\ In(batch[k], <<op, c>>)
           /\ \A l \in AllLoops, f \in Entry : In(batch'[l], f) => In(batch[l], f)
           /\ \A l \in AllLoops, f \in Entry :
                 l # k \/ f # <<op, c>> => (In(batch'[l], f) <=> In(batch[l], f))
<1>1. /\ at[k] = "functors" /\ batch[k] # <<>> /\ Head(batch[k]) = <<op, c>>
      /\ batch' = [batch EXCEPT ![k] = Tail(@)]
  BY DEF Running, Pop
<1>2. batch \in [AllLoops -> Seq(Entry)] /\ batch[k] \in Seq(Entry)
  BY Typed
<1>3. Head(batch[k]) \in Entry
  BY <1>1, <1>2, HeadTailProperties
<1>4. <<op, c>> \in Entry /\ op \in Functors
  BY <1>1, <1>3 DEF Entry
<1>5. In(batch[k], <<op, c>>)
  BY <1>1, <1>2, Popped
<1>6. Queued(k, <<op, c>>) /\ Placed(k, <<op, c>>)
  BY <1>4, <1>5 DEF Queued, Reach, FlowInv, PlacedInv
<1>7. active[k] = {} /\ c \in held[k]
  BY <1>1, <1>4, <1>5 DEF Reach, FlowInv, LoopOK, RunsBatch, Entry
<1>8. ASSUME NEW l \in AllLoops, NEW f \in Entry
      PROVE  /\ In(batch'[l], f) => In(batch[l], f)
             /\ l # k \/ f # <<op, c>> => (In(batch'[l], f) <=> In(batch[l], f))
  <2>1. CASE l = k
    <3>1. batch'[l] = Tail(batch[k])
      BY <1>1, <1>2, <2>1
    <3>2. In(Tail(batch[k]), f) => In(batch[k], f)
      BY <1>1, <1>2, Popped
    <3>3. In(batch[k], f) /\ f # Head(batch[k]) => In(Tail(batch[k]), f)
      BY <1>1, <1>2, TailKeeps
    <3> QED
      BY <1>1, <2>1, <3>1, <3>2, <3>3
  <2>2. CASE l # k
    BY <1>1, <1>2, <2>2
  <2> QED
    BY <2>1, <2>2
<1> QED
  BY <1>1, <1>4, <1>5, <1>6, <1>7, <1>8

-----------------------------------------------------------------------------
(* What a step must do to keep each part of FlowInv.                       *)

LEMMA LoopsStay ==
    ASSUME Reach, UNCHANGED <<at, cur, active, batch, held, loop>>, channels \subseteq channels'
    PROVE  \A l \in AllLoops : LoopOK(l)'
BY DEF Reach, FlowInv, LoopOK, RunsBatch, InHandler

LEMMA OtherLoops ==
    ASSUME Reach, NEW l \in AllLoops, loop' = loop, LoopOK(l)',
           \A k \in AllLoops \ {l} :
              /\ at'[k] = at[k] /\ cur'[k] = cur[k] /\ active'[k] = active[k]
              /\ batch'[k] = batch[k] /\ held'[k] = held[k],
           \A c \in channels : c \in channels' \/ loop[c] = l
    PROVE  \A k \in AllLoops : LoopOK(k)'
<1>1. ASSUME NEW k \in AllLoops, k # l
      PROVE  LoopOK(k)'
  <2>1. LoopOK(k)
    BY DEF Reach, FlowInv
  <2>2. \A c \in channels : loop[c] = k => c \in channels'
    BY <1>1
  <2> QED
    BY <1>1, <2>1, <2>2 DEF LoopOK, RunsBatch, InHandler
<1> QED
  BY <1>1

LEMMA PlacedStays ==
    ASSUME Reach, UNCHANGED <<loop, ups>>,
           \A c \in Conns : ups[c] = 0 /\ c \in m_connections => c \in m_connections',
           \A l \in AllLoops, f \in Entry : Queued(l, f)' => Queued(l, f) \/ Placed(l, f)'
    PROVE  PlacedInv'
<1>1. ASSUME NEW l \in AllLoops, NEW f \in Entry, Queued(l, f)
      PROVE  Placed(l, f)'
  <2>1. Placed(l, f)
    BY <1>1 DEF Reach, FlowInv, PlacedInv
  <2>2. CASE f[1] = "connectEstablished"
    <3>1. f = Est(f[2]) /\ f[2] \in Conns
      BY <2>2, Kinds DEF Est
    <3>2. ups[f[2]] = 0
      BY <1>1, <3>1 DEF Queued, Reach, StreamInv, TableInv, QueuesOK, PlaceOK, Waits
    <3> QED
      BY <2>1, <2>2, <3>1, <3>2 DEF Placed
  <2>3. CASE f[1] # "connectEstablished"
    BY <2>1, <2>3 DEF Placed
  <2> QED
    BY <2>2, <2>3
<1> QED
  BY <1>1 DEF PlacedInv

LEMMA ConnsStay ==
    ASSUME Reach, UNCHANGED <<ups, downs>>,
           \A c \in Conns :
              /\ ups[c] = 0 => /\ m_state'[c] = m_state[c] /\ m_timer'[c] = m_timer[c]
                               /\ events'[c] = events[c] /\ index'[c] = index[c]
                               /\ c \in channels' => c \in channels
                               /\ c \in refs' => c \in refs
              /\ m_state'[c] = "kConnected" => m_state[c] = "kConnected"
              /\ index'[c] = "kAdded" => c \in channels'
    PROVE  \A c \in Conns : ConnOK(c)'
BY DEF Reach, FlowInv, ConnOK, Fresh

LEMMA Established ==
    ASSUME Reach, NEW c \in Conns, c \in channels \/ c \in refs \/ m_timer[c] # "none"
                                   \/ Closable(c)
    PROVE  ups[c] > 0 /\ ups[c] # 0
<1>1. ConnOK(c)
  BY DEF Reach, FlowInv
<1>2. ups[c] # 0
  BY <1>1 DEF ConnOK, Fresh, Closable
<1>3. ups[c] \in Nat
  BY Typed
<1> QED
  BY <1>2, <1>3

(* A step on the queues, the states and the masks alone.                   *)
LEMMA FlowKept ==
    ASSUME Reach, UNCHANGED <<m_connections, loop, ups, at, cur, active, held, batch, downs>>,
           channels \subseteq channels', channels' \subseteq Conns,
           m_timer' \in [Conns -> {"none", "armed", "fired"}],
           index' \in [Conns -> {"kNew", "kAdded", "kDeleted"}],
           \A c \in Conns : ConnOK(c)',
           CallOK',
           \A l \in AllLoops, f \in Entry : Queued(l, f)' => Queued(l, f) \/ Placed(l, f)'
    PROVE  FlowInv'
<1>1. PlacedInv'
  BY PlacedStays
<1>2. FlowTypes'
  BY DEF Reach, FlowInv, FlowTypes
<1> QED
  BY <1>1, <1>2, LoopsStay DEF FlowInv

LEMMA FlowQuiet ==
    ASSUME Reach, UNCHANGED <<m_connections, loop, ups, pend, batch, at, cur, active,
                              held, stateVars, chanVars, refs, call, downs>>
    PROVE  FlowInv'
BY DEF Reach, FlowInv, FlowTypes, PlacedInv, Placed, Queued, LoopOK, RunsBatch, InHandler,
   ConnOK, Fresh, CallOK, stateVars, chanVars

LEMMA FlowFails ==
    ASSUME Reach, NEW why, Fail(why)
    PROVE  FlowInv'
BY FlowQuiet DEF Fail, serverVars, loopVars, eventVars, queueVars, userVars

(* A mask is set.                                                          *)
LEMMA MasksOK ==
    ASSUME Reach, NEW c \in Conns, NEW e, SetEvents(c, e), ups[c] > 0,
           UNCHANGED <<ups, downs, stateVars, refs>>
    PROVE  /\ \A d \in Conns : ConnOK(d)'
           /\ channels \subseteq channels' /\ channels' \subseteq Conns
           /\ index' \in [Conns -> {"kNew", "kAdded", "kDeleted"}]
<1>1. /\ index' \in [Conns -> {"kNew", "kAdded", "kDeleted"}]
      /\ channels' = channels \cup {c} /\ channels' \subseteq Conns
      /\ \A d \in Conns \ {c} : events'[d] = events[d] /\ index'[d] = index[d]
  BY Typed DEF SetEvents, FlowTypes
<1>2. ups[c] # 0
  BY Typed
<1>3. ASSUME NEW d \in Conns
      PROVE  /\ ups[d] = 0 => /\ events'[d] = events[d] /\ index'[d] = index[d]
                              /\ d \in channels' => d \in channels
             /\ index'[d] = "kAdded" => d \in channels'
  <2>1. CASE d = c
    BY <1>1, <1>2, <2>1
  <2>2. CASE d # c
    BY <1>1, <2>2 DEF Reach, FlowInv, ConnOK
  <2> QED
    BY <2>1, <2>2
<1>4. \A d \in Conns : ConnOK(d)'
  BY <1>3, ConnsStay DEF stateVars
<1> QED
  BY <1>1, <1>4

-----------------------------------------------------------------------------
(* The steps keep FlowInv.                                                 *)

LEMMA FlowStart == ASSUME Reach, Start PROVE FlowInv'
BY FlowQuiet DEF Start, loopVars, eventVars, queueVars, userVars, historyVars

LEMMA FlowPeer ==
    ASSUME Reach, NEW c \in Conns, PeerStep(c) \/ UNCHANGED vars
    PROVE  FlowInv'
BY FlowQuiet DEF PeerStep, PeerSends, PeerReads, PeerCloses, PeerResets, vars,
   serverVars, loopVars, eventVars, queueVars, userVars, historyVars

LEMMA FlowPoll ==
    ASSUME Reach, NEW l \in AllLoops, Poll(l)
    PROVE  FlowInv'
<1>1. /\ at[l] = "poll" /\ at' = [at EXCEPT ![l] = "events"]
      /\ active' = [active EXCEPT ![l] = ReadyOn(l)]
      /\ UNCHANGED <<serverVars, stateVars, chanVars, cur, queueVars, userVars, historyVars>>
  BY DEF Poll
<1>2. ReadyOn(l) \subseteq channels /\ \A c \in ReadyOn(l) : loop[c] = l
  BY DEF ReadyOn
<1>3. /\ at'[l] = "events" /\ active'[l] = ReadyOn(l)
      /\ \A k \in AllLoops \ {l} : at'[k] = at[k] /\ active'[k] = active[k]
      /\ at' \in [AllLoops -> Places] /\ active' \in [AllLoops -> SUBSET Conns]
  BY <1>1, <1>2, Typed DEF FlowTypes, Places
<1>4. UNCHANGED <<m_connections, loop, ups, pend, batch, cur, held, stateVars,
                  chanVars, refs, call, downs>>
  BY <1>1 DEF serverVars, queueVars, userVars, historyVars
<1>5. LoopOK(l)
  BY DEF Reach, FlowInv
<1>6. LoopOK(l)'
  BY <1>1, <1>2, <1>3, <1>4, <1>5 DEF LoopOK, RunsBatch, InHandler, chanVars
<1>7. \A k \in AllLoops : LoopOK(k)'
  BY <1>3, <1>4, <1>6, OtherLoops DEF chanVars
<1> QED
  BY <1>3, <1>4, <1>7 DEF Reach, FlowInv, FlowTypes, PlacedInv, Placed, Queued,
     ConnOK, Fresh, CallOK, stateVars, chanVars

LEMMA FlowEndBatch ==
    ASSUME Reach, NEW l \in AllLoops, EndBatch(l)
    PROVE  FlowInv'
<1>1. /\ at[l] = "functors" /\ batch[l] = <<>>
      /\ at' = [at EXCEPT ![l] = "poll"] /\ held' = [held EXCEPT ![l] = {}]
      /\ UNCHANGED <<serverVars, stateVars, chanVars, cur, eventVars, pend, batch,
                     userVars, historyVars>>
  BY DEF EndBatch
<1>2. /\ at'[l] = "poll" /\ held'[l] = {}
      /\ \A k \in AllLoops \ {l} : at'[k] = at[k] /\ held'[k] = held[k]
      /\ at' \in [AllLoops -> Places] /\ held' \in [AllLoops -> SUBSET Conns]
  BY <1>1, Typed DEF FlowTypes, Places
<1>3. UNCHANGED <<m_connections, loop, ups, pend, batch, active, cur, stateVars,
                  chanVars, refs, call, downs>>
  BY <1>1 DEF serverVars, eventVars, userVars, historyVars
<1>4. LoopOK(l)
  BY DEF Reach, FlowInv
<1>5. LoopOK(l)'
  BY <1>1, <1>2, <1>3, <1>4 DEF LoopOK, RunsBatch, InHandler, In
<1>6. \A k \in AllLoops : LoopOK(k)'
  BY <1>2, <1>3, <1>5, OtherLoops DEF chanVars
<1> QED
  BY <1>2, <1>3, <1>6 DEF Reach, FlowInv, FlowTypes, PlacedInv, Placed, Queued,
     ConnOK, Fresh, CallOK, stateVars, chanVars

LEMMA FlowEndEvents ==
    ASSUME Reach, NEW l \in AllLoops, EndEvents(l)
    PROVE  FlowInv'
<1>1. /\ at[l] = "events" /\ active[l] = {}
      /\ at' = [at EXCEPT ![l] = IF pend[l] = <<>> THEN "poll" ELSE "functors"]
      /\ batch' = [batch EXCEPT ![l] = pend[l]]
      /\ held' = [held EXCEPT ![l] = {pend[l][i][2] : i \in DOMAIN pend[l]}]
      /\ pend' = [pend EXCEPT ![l] = <<>>]
      /\ UNCHANGED <<serverVars, stateVars, chanVars, cur, eventVars, userVars, historyVars>>
  BY DEF EndEvents
<1>2. {pend[l][i][2] : i \in DOMAIN pend[l]} \subseteq Conns
  <2>1. pend[l] \in Seq(Entry)
    BY Typed
  <2>2. \A i \in DOMAIN pend[l] : pend[l][i] \in Entry
    BY <2>1, ElementOfSeq, LenProperties
  <2> QED
    BY <2>2, Kinds
<1>3. /\ at'[l] = IF pend[l] = <<>> THEN "poll" ELSE "functors"
      /\ held'[l] = {pend[l][i][2] : i \in DOMAIN pend[l]} /\ batch'[l] = pend[l]
      /\ \A k \in AllLoops \ {l} : at'[k] = at[k] /\ held'[k] = held[k] /\ batch'[k] = batch[k]
      /\ at' \in [AllLoops -> Places] /\ held' \in [AllLoops -> SUBSET Conns]
  BY <1>1, <1>2, Typed DEF FlowTypes, Places
<1>4. UNCHANGED <<m_connections, loop, ups, active, cur, stateVars, chanVars,
                  refs, call, downs>>
  BY <1>1 DEF serverVars, eventVars, userVars, historyVars
<1>5. LoopOK(l) /\ batch[l] = <<>>
  BY <1>1 DEF Reach, FlowInv, LoopOK, RunsBatch
<1>6. LoopOK(l)'
  <2>1. ASSUME NEW f \in Entry, In(batch'[l], f)
        PROVE  f[2] \in held'[l]
    BY <1>3, <2>1 DEF In
  <2>2. ~InHandler(l)'
    BY <1>3 DEF InHandler
  <2>3. IF RunsBatch(l)' THEN active'[l] = {} ELSE batch'[l] = <<>> /\ held'[l] = {}
    BY <1>1, <1>3, <1>4 DEF RunsBatch
  <2> QED
    BY <1>1, <1>4, <2>1, <2>2, <2>3 DEF LoopOK
<1>7. \A k \in AllLoops : LoopOK(k)'
  BY <1>3, <1>4, <1>6, OtherLoops DEF chanVars
<1>8. \A k \in AllLoops, f \in Entry : Queued(k, f)' <=> Queued(k, f)
  BY <1>1, <1>5, Swapped
<1>9. PlacedInv'
  BY <1>4, <1>8, PlacedStays
<1> QED
  BY <1>3, <1>4, <1>7, <1>9 DEF Reach, FlowInv, FlowTypes, ConnOK, Fresh, CallOK,
     stateVars, chanVars

LEMMA FlowEndOnMessage ==
    ASSUME Reach, NEW l \in AllLoops, EndOnMessage(l)
    PROVE  FlowInv'
<1>1. /\ at[l] = "onMessage" /\ at' = [at EXCEPT ![l] = "write"]
      /\ UNCHANGED <<serverVars, stateVars, chanVars, cur, eventVars, queueVars,
                     userVars, historyVars>>
  BY DEF EndOnMessage
<1>2. /\ at'[l] = "write" /\ at' \in [AllLoops -> Places]
      /\ \A k \in AllLoops \ {l} : at'[k] = at[k]
  BY <1>1, Typed DEF FlowTypes, Places
<1>3. UNCHANGED <<m_connections, loop, ups, pend, batch, active, held, cur, stateVars,
                  chanVars, refs, call, downs>>
  BY <1>1 DEF serverVars, eventVars, queueVars, userVars, historyVars
<1>4. LoopOK(l)
  BY DEF Reach, FlowInv
<1>5. LoopOK(l)'
  BY <1>1, <1>2, <1>3, <1>4 DEF LoopOK, RunsBatch, InHandler, chanVars
<1>6. \A k \in AllLoops : LoopOK(k)'
  BY <1>2, <1>3, <1>5, OtherLoops DEF chanVars
<1> QED
  BY <1>2, <1>3, <1>6 DEF Reach, FlowInv, FlowTypes, PlacedInv, Placed, Queued,
     ConnOK, Fresh, CallOK, stateVars, chanVars

LEMMA FlowEndOnConnection ==
    ASSUME Reach, NEW l \in AllLoops, EndOnConnection(l)
    PROVE  FlowInv'
<1> DEFINE c == cur[l]
<1>1. /\ at[l] = "onConnection"
      /\ at' = [at EXCEPT ![l] = IF l = Base THEN "events" ELSE "functors"]
      /\ \/ /\ m_state' = [m_state EXCEPT ![c] = "kDisconnecting"]
            /\ m_timer' = [m_timer EXCEPT ![c] = "armed"]
         \/ UNCHANGED stateVars
      /\ UNCHANGED <<serverVars, chanVars, cur, eventVars, queueVars, userVars, historyVars>>
  BY DEF EndOnConnection
<1>2. /\ at'[l] = IF l = Base THEN "events" ELSE "functors"
      /\ at' \in [AllLoops -> Places]
      /\ \A k \in AllLoops \ {l} : at'[k] = at[k]
  BY <1>1, Typed DEF FlowTypes, Places
<1>3. UNCHANGED <<m_connections, loop, ups, pend, batch, active, held, cur,
                  chanVars, refs, call, downs>>
  BY <1>1 DEF serverVars, eventVars, queueVars, userVars, historyVars
<1>4. LoopOK(l) /\ c \in channels
  BY <1>1 DEF Reach, FlowInv, LoopOK, InHandler
<1>5. LoopOK(l)'
  BY <1>1, <1>2, <1>3, <1>4 DEF LoopOK, RunsBatch, InHandler, chanVars
<1>6. \A k \in AllLoops : LoopOK(k)'
  BY <1>2, <1>3, <1>5, OtherLoops DEF chanVars
<1>7. c \in Conns /\ ups[c] # 0
  BY <1>4, Established, Typed
<1>8. /\ \A d \in Conns \ {c} : m_state'[d] = m_state[d] /\ m_timer'[d] = m_timer[d]
      /\ m_state'[c] = "kConnected" => m_state[c] = "kConnected"
      /\ m_timer' \in [Conns -> {"none", "armed", "fired"}]
  BY <1>1, <1>7, Typed DEF stateVars, FlowTypes
<1> HIDE DEF c
<1>9. \A d \in Conns : ConnOK(d)'
  BY <1>3, <1>7, <1>8, ConnsStay DEF chanVars, Reach, FlowInv, ConnOK
<1> QED
  BY <1>2, <1>3, <1>6, <1>8, <1>9 DEF Reach, FlowInv, FlowTypes, PlacedInv, Placed, Queued,
     CallOK, chanVars

LEMMA FlowHandleData ==
    ASSUME Reach, NEW l \in AllLoops, HandleData(l)
    PROVE  FlowInv'
<1>1. PICK c \in Conns :
         /\ Handling(l, c)
         /\ at' = [at EXCEPT ![l] = "onMessage"] /\ cur' = [cur EXCEPT ![l] = c]
         /\ UpdateTimer(c)
         /\ UNCHANGED <<serverVars, chanVars, eventVars, queueVars, userVars, historyVars>>
  BY DEF HandleData
<1>2. /\ at'[l] = "onMessage" /\ at' \in [AllLoops -> Places] /\ cur'[l] = c
      /\ \A k \in AllLoops \ {l} : at'[k] = at[k] /\ cur'[k] = cur[k]
  BY <1>1, Typed DEF FlowTypes, Places
<1>3. UNCHANGED <<m_connections, loop, ups, pend, batch, active, held,
                  chanVars, refs, call, downs>>
  BY <1>1 DEF serverVars, eventVars, queueVars, userVars, historyVars
<1>4. LoopOK(l) /\ at[l] = "events" /\ c \in channels /\ loop[c] = l
  BY <1>1 DEF Reach, FlowInv, LoopOK, Handling
<1>5. LoopOK(l)'
  BY <1>1, <1>2, <1>3, <1>4 DEF LoopOK, RunsBatch, InHandler, chanVars
<1>6. \A k \in AllLoops : LoopOK(k)'
  BY <1>2, <1>3, <1>5, OtherLoops DEF chanVars
<1>7. ups[c] # 0
  BY <1>4, Established
<1>8. /\ \A d \in Conns \ {c} : m_state'[d] = m_state[d] /\ m_timer'[d] = m_timer[d]
      /\ m_state'[c] = "kConnected" => m_state[c] = "kConnected"
      /\ m_timer' \in [Conns -> {"none", "armed", "fired"}]
  BY <1>1, Typed DEF UpdateTimer, stateVars, FlowTypes
<1>9. \A d \in Conns : ConnOK(d)'
  BY <1>3, <1>7, <1>8, ConnsStay DEF chanVars, Reach, FlowInv, ConnOK
<1> QED
  BY <1>2, <1>3, <1>6, <1>8, <1>9 DEF Reach, FlowInv, FlowTypes, PlacedInv, Placed, Queued,
     CallOK, chanVars

(* handleClose: the connection is on its way out of the map, or out of it  *)
(* and on its way to be destroyed.                                         *)
Leaves(c) ==
    \/ /\ loop[c] # Base /\ Pushes(Base, Rm(c))
       /\ m_connections' = m_connections
    \/ /\ c \in m_connections /\ Pushes(loop[c], Ds(c))
       /\ m_connections' = m_connections \ {c}

LEMMA LeavesPushes ==
    ASSUME Reach, NEW c \in Conns, Leaves(c), ups[c] > 0, UNCHANGED <<loop, ups>>
    PROVE  /\ \E k \in AllLoops, g \in Entry :
                 /\ Pushes(k, g) /\ Placed(k, g)' /\ g[2] = c
                 /\ (k = Base /\ g = Rm(c)) \/ (k = loop[c] /\ g = Ds(c))
           /\ m_connections' \subseteq m_connections
           /\ \A d \in Conns : ups[d] = 0 /\ d \in m_connections => d \in m_connections'
<1>1. loop[c] \in AllLoops
  BY Typed
<1>2. /\ Rm(c) \in Entry /\ Rm(c)[1] = "removeConnectionInLoop" /\ Rm(c)[2] = c
      /\ Ds(c) \in Entry /\ Ds(c)[1] = "connectDestroyed" /\ Ds(c)[2] = c
  BY Kinds DEF Rm, Ds, Functors
<1>3. ups[c] # 0
  BY Typed
<1>4. CASE loop[c] # Base /\ Pushes(Base, Rm(c)) /\ m_connections' = m_connections
  <2>1. Placed(Base, Rm(c))'
    BY <1>2, <1>4 DEF Placed
  <2> QED
    BY <1>2, <1>3, <1>4, <2>1, Kinds
<1>5. CASE /\ c \in m_connections /\ Pushes(loop[c], Ds(c))
           /\ m_connections' = m_connections \ {c}
  <2>1. Placed(loop[c], Ds(c))'
    BY <1>2, <1>5 DEF Placed
  <2> QED
    BY <1>1, <1>2, <1>3, <1>5, <2>1
<1> QED
  BY <1>4, <1>5 DEF Leaves

LEMMA HandleCloseLeaves ==
    ASSUME NEW c \in Conns, HandleClose(c), CloseFailure(c) = ""
    PROVE  Closable(c) /\ SetEvents(c, {}) /\ Leaves(c) /\ loop' = loop
<1>1. Closable(c) /\ (loop[c] = Base => c \in m_connections)
  BY DEF CloseFailure
<1> QED
  BY <1>1 DEF HandleClose, Leaves, Pushes, RemoveConnectionInLoop, Rm, Ds, serverVars

LEMMA FlowHandleEnd ==
    ASSUME Reach, NEW l \in AllLoops, HandleEnd(l)
    PROVE  FlowInv'
<1>1. PICK c \in Conns :
         /\ Handling(l, c)
         /\ IF CloseFailure(c) # ""
            THEN Fail(CloseFailure(c))
            ELSE /\ HandleClose(c)
                 /\ Handled(l, c)
                 /\ UNCHANGED <<stateVars, at, cur, batch, held, userVars, historyVars>>
  BY DEF HandleEnd
<1>2. CASE CloseFailure(c) # ""
  BY <1>1, <1>2, FlowFails
<1>3. CASE CloseFailure(c) = ""
  <2>1. /\ SetEvents(c, {}) /\ Leaves(c) /\ Closable(c)
        /\ active' = [active EXCEPT ![l] = @ \ {c}]
        /\ UNCHANGED <<loop, ups, stateVars, at, cur, batch, held, refs, call, downs>>
    BY <1>1, <1>3, HandleCloseLeaves DEF Handled, userVars, historyVars
  <2>2. ups[c] > 0
    BY <2>1, Established
  <2>3. /\ \A d \in Conns : ConnOK(d)'
        /\ channels \subseteq channels' /\ channels' \subseteq Conns
        /\ index' \in [Conns -> {"kNew", "kAdded", "kDeleted"}]
    BY <2>1, <2>2, MasksOK
  <2>4. PlacedInv'
    BY <2>1, <2>2, LeavesPushes, Pushed, PlacedStays
  <2>5. /\ active'[l] = active[l] \ {c} /\ \A k \in AllLoops \ {l} : active'[k] = active[k]
        /\ active' \in [AllLoops -> SUBSET Conns]
    BY <2>1, Typed DEF FlowTypes
  <2>6. LoopOK(l)
    BY DEF Reach, FlowInv
  <2>7. LoopOK(l)'
    BY <2>1, <2>3, <2>5, <2>6 DEF LoopOK, RunsBatch, InHandler
  <2>8. \A k \in AllLoops : LoopOK(k)'
    BY <2>1, <2>3, <2>5, <2>7, OtherLoops
  <2> QED
    BY <2>1, <2>3, <2>4, <2>5, <2>8 DEF Reach, FlowInv, FlowTypes, CallOK, stateVars
<1> QED
  BY <1>2, <1>3

LEMMA FlowHandleWrite ==
    ASSUME Reach, NEW l \in AllLoops, HandleWrite(l)
    PROVE  FlowInv'
<1>1. PICK c \in Conns :
         /\ (at[l] = "write" /\ cur[l] = c) \/ Handling(l, c)
         /\ SetEvents(c, events[c] \ {"OUT"}) \/ UNCHANGED chanVars
         /\ Handled(l, c)
         /\ at' = [at EXCEPT ![l] = "events"]
         /\ UNCHANGED <<serverVars, stateVars, cur, queueVars, userVars, historyVars>>
  BY DEF HandleWrite
<1>2. UNCHANGED <<m_connections, loop, ups, stateVars, cur, pend, batch, held,
                  refs, call, downs>>
  BY <1>1 DEF serverVars, queueVars, userVars, historyVars
<1>3. LoopOK(l) /\ c \in channels
  BY <1>1 DEF Reach, FlowInv, LoopOK, InHandler, Handling
<1>4. ups[c] > 0
  BY <1>3, Established
<1>5. /\ \A d \in Conns : ConnOK(d)'
      /\ channels \subseteq channels' /\ channels' \subseteq Conns
      /\ index' \in [Conns -> {"kNew", "kAdded", "kDeleted"}]
  <2>1. CASE SetEvents(c, events[c] \ {"OUT"})
    BY <1>2, <1>4, <2>1, MasksOK
  <2>2. CASE UNCHANGED chanVars
    BY <1>2, <2>2 DEF chanVars, stateVars, Reach, FlowInv, FlowTypes, ConnOK, Fresh
  <2> QED
    BY <1>1, <2>1, <2>2
<1>6. /\ active'[l] = active[l] \ {c} /\ at'[l] = "events"
      /\ \A k \in AllLoops \ {l} : active'[k] = active[k] /\ at'[k] = at[k]
      /\ active' \in [AllLoops -> SUBSET Conns] /\ at' \in [AllLoops -> Places]
  BY <1>1, Typed DEF FlowTypes, Handled, Places
<1>7. LoopOK(l)'
  BY <1>1, <1>2, <1>3, <1>5, <1>6 DEF LoopOK, RunsBatch, InHandler, Handling
<1>8. \A k \in AllLoops : LoopOK(k)'
  BY <1>2, <1>5, <1>6, <1>7, OtherLoops
<1> QED
  BY <1>2, <1>5, <1>6, <1>8 DEF Reach, FlowInv, FlowTypes, PlacedInv, Placed, Queued,
     CallOK, stateVars

LEMMA FlowTimerFires ==
    ASSUME Reach, NEW l \in AllLoops, TimerFires(l)
    PROVE  FlowInv'
<1>1. PICK c \in Conns :
         /\ loop[c] = l /\ m_timer[c] = "armed"
         /\ m_timer' = [m_timer EXCEPT ![c] = "fired"]
         /\ \/ /\ m_state' = [m_state EXCEPT ![c] = "kDisconnecting"]
               /\ Pushes(l, <<"forceCloseInLoop", c>>)
            \/ UNCHANGED <<m_state, pend>>
  BY DEF TimerFires, Pushes
<1>2. UNCHANGED <<m_connections, loop, ups, at, cur, active, held, batch,
                  chanVars, refs, call, downs>>
  BY DEF TimerFires, serverVars, eventVars, userVars, historyVars
<1>3. ups[c] > 0 /\ ups[c] # 0
  BY <1>1, Established
<1>4. /\ \A d \in Conns \ {c} : m_state'[d] = m_state[d] /\ m_timer'[d] = m_timer[d]
      /\ m_state'[c] = "kConnected" => m_state[c] = "kConnected"
      /\ m_timer' \in [Conns -> {"none", "armed", "fired"}]
  BY <1>1, Typed DEF FlowTypes
<1>5. \A d \in Conns : ConnOK(d)'
  BY <1>2, <1>3, <1>4, ConnsStay DEF chanVars, Reach, FlowInv, ConnOK
<1>6. \A k \in AllLoops, f \in Entry : Queued(k, f)' => Queued(k, f) \/ Placed(k, f)'
  <2>1. CASE Pushes(l, <<"forceCloseInLoop", c>>)
    <3>1. <<"forceCloseInLoop", c>> \in Entry
      BY Kinds DEF Functors
    <3>2. Placed(l, <<"forceCloseInLoop", c>>)'
      BY <1>1, <1>2, <1>3 DEF Placed
    <3> QED
      BY <1>2, <2>1, <3>1, <3>2, Pushed
  <2>2. CASE pend' = pend
    BY <1>2, <2>2 DEF Queued
  <2> QED
    BY <1>1, <2>1, <2>2
<1> QED
  BY <1>2, <1>4, <1>5, <1>6, FlowKept DEF chanVars, Reach, FlowInv, FlowTypes, CallOK

(* A functor runs on l; its channel may go.                                *)
LEMMA RanLoops ==
    ASSUME Reach, NEW l \in AllLoops, NEW op, NEW c \in Conns, Running(l, op, c), Pop(l),
           UNCHANGED <<at, cur, active, held, loop>>,
           \A d \in channels : d \in channels' \/ loop[d] = l
    PROVE  \A k \in AllLoops : LoopOK(k)'
<1>1. /\ at[l] = "functors" /\ active[l] = {}
      /\ \A f \in Entry : In(batch'[l], f) => In(batch[l], f)
  BY Ran
<1>2. \A k \in AllLoops \ {l} : batch'[k] = batch[k]
  BY Typed DEF Pop
<1>3. LoopOK(l)
  BY DEF Reach, FlowInv
<1>4. LoopOK(l)'
  BY <1>1, <1>3 DEF LoopOK, RunsBatch, InHandler
<1> QED
  BY <1>2, <1>4, OtherLoops

LEMMA RanQueued ==
    ASSUME Reach, NEW l \in AllLoops, NEW op, NEW c \in Conns, Running(l, op, c), Pop(l)
    PROVE  /\ pend' = pend => \A k \in AllLoops, f \in Entry : Queued(k, f)' => Queued(k, f)
           /\ \A m \in AllLoops, g \in Entry :
                 Pushes(m, g) => \A k \in AllLoops, f \in Entry :
                                    Queued(k, f)' => Queued(k, f) \/ (k = m /\ f = g)
<1>1. \A k \in AllLoops, f \in Entry : In(batch'[k], f) => In(batch[k], f)
  BY Ran
<1> QED
  BY <1>1, PendPushed DEF Queued

LEMMA FlowRunEstablished ==
    ASSUME Reach, NEW l \in AllLoops, RunEstablished(l)
    PROVE  FlowInv'
<1>1. PICK c \in Conns :
         /\ Running(l, "connectEstablished", c) /\ ConnectEstablished(l, c) /\ Pop(l)
         /\ UNCHANGED <<serverVars, m_timer, eventVars, pend, held, userVars, downs>>
  BY DEF RunEstablished
<1>2. UNCHANGED <<m_connections, loop, m_timer, active, pend, held, refs, call, downs>>
  BY <1>1 DEF serverVars, eventVars, userVars
<1>3. /\ ups[c] = 0 /\ active[l] = {} /\ loop[c] = l /\ l # Base
      /\ at[l] = "functors"
      /\ \A k \in AllLoops, f \in Entry : In(batch'[k], f) => In(batch[k], f)
  <2>1. StreamInv
    BY DEF Reach
  <2>2. ups[c] = 0
    BY <1>1, <2>1, Taken
  <2>3. /\ at[l] = "functors" /\ active[l] = {} /\ Placed(l, Est(c))
        /\ \A k \in AllLoops, f \in Entry : In(batch'[k], f) => In(batch[k], f)
    BY <1>1, Ran DEF Est
  <2>4. Est(c)[1] = "connectEstablished" /\ Est(c)[2] = c
    BY DEF Est
  <2> QED
    BY <2>2, <2>3, <2>4 DEF Placed
<1>4. /\ at' = [at EXCEPT ![l] = "onConnection"] /\ cur' = [cur EXCEPT ![l] = c]
      /\ m_state' = [m_state EXCEPT ![c] = "kConnected"] /\ ups' = [ups EXCEPT ![c] = @ + 1]
      /\ SetEvents(c, events[c] \cup {"IN"})
  BY <1>1 DEF ConnectEstablished
<1>5. /\ at'[l] = "onConnection" /\ cur'[l] = c
      /\ at' \in [AllLoops -> Places]
      /\ \A k \in AllLoops \ {l} : at'[k] = at[k] /\ cur'[k] = cur[k] /\ batch'[k] = batch[k]
  BY <1>1, <1>4, Typed DEF FlowTypes, Places, Pop
<1>6. /\ index' \in [Conns -> {"kNew", "kAdded", "kDeleted"}]
      /\ channels' = channels \cup {c} /\ channels' \subseteq Conns
      /\ \A d \in Conns \ {c} : events'[d] = events[d] /\ index'[d] = index[d]
                                /\ m_state'[d] = m_state[d] /\ ups'[d] = ups[d]
      /\ ups'[c] = 1
  BY <1>3, <1>4, Typed DEF SetEvents, FlowTypes
<1>7. LoopOK(l) /\ ConnOK(c) /\ \A d \in Conns : ConnOK(d)
  BY DEF Reach, FlowInv
<1>8. LoopOK(l)'
  BY <1>2, <1>3, <1>5, <1>6, <1>7 DEF LoopOK, RunsBatch, InHandler
<1>9. \A k \in AllLoops : LoopOK(k)'
  BY <1>2, <1>5, <1>6, <1>8, OtherLoops
<1>10. ASSUME NEW d \in Conns
       PROVE  ConnOK(d)'
  <2>1. CASE d = c
    BY <1>2, <1>3, <1>6, <1>7, <2>1 DEF ConnOK, Fresh
  <2>2. CASE d # c
    BY <1>2, <1>6, <1>7, <2>2 DEF ConnOK, Fresh
  <2> QED
    BY <2>1, <2>2
<1>11. PlacedInv'
  <2>1. \A d \in Conns : ups[d] > 0 => ups'[d] > 0
    BY <1>3, <1>6
  <2>2. \A k \in AllLoops, f \in Entry : Placed(k, f) => Placed(k, f)'
    BY <1>2, <2>1, Kinds DEF Placed
  <2>3. \A k \in AllLoops, f \in Entry : Queued(k, f)' => Queued(k, f)
    BY <1>1, <1>2, RanQueued
  <2> QED
    BY <2>2, <2>3 DEF PlacedInv, Reach, FlowInv
<1> QED
  BY <1>2, <1>5, <1>6, <1>9, <1>10, <1>11 DEF Reach, FlowInv, FlowTypes, CallOK

LEMMA FlowRunDestroyed ==
    ASSUME Reach, NEW l \in AllLoops, RunDestroyed(l)
    PROVE  FlowInv'
<1>1. PICK c \in Conns :
         /\ Running(l, "connectDestroyed", c)
         /\ \/ \E why : Fail(why)
            \/ /\ \/ /\ IsUp(c)
                     /\ m_state' = [m_state EXCEPT ![c] = "kDisconnected"]
                     /\ downs' = [downs EXCEPT ![c] = @ + 1]
                  \/ UNCHANGED <<m_state, downs>>
               /\ RemoveChannel(c)
               /\ Pop(l)
               /\ UNCHANGED <<serverVars, m_timer, at, cur, eventVars, pend,
                              held, userVars, ups>>
  BY DEF RunDestroyed
<1>2. CASE \E why : Fail(why)
  BY <1>2, FlowFails
<1>3. CASE ~\E why : Fail(why)
  <2>1. /\ \/ /\ IsUp(c)
              /\ m_state' = [m_state EXCEPT ![c] = "kDisconnected"]
              /\ downs' = [downs EXCEPT ![c] = @ + 1]
           \/ UNCHANGED <<m_state, downs>>
        /\ RemoveChannel(c) /\ Pop(l)
        /\ UNCHANGED <<m_connections, loop, m_timer, at, cur, active, pend, held,
                       refs, call, ups>>
    BY <1>1, <1>3 DEF serverVars, eventVars, userVars
  <2>2. /\ index' \in [Conns -> {"kNew", "kAdded", "kDeleted"}]
        /\ channels' = channels \ {c} /\ channels' \subseteq Conns
        /\ events'[c] = {} /\ index'[c] = "kNew"
        /\ \A d \in Conns \ {c} : events'[d] = events[d] /\ index'[d] = index[d]
    BY <2>1, Typed DEF RemoveChannel, FlowTypes
  <2>3. Placed(l, Ds(c)) /\ Ds(c)[1] = "connectDestroyed" /\ Ds(c)[2] = c
    BY <1>1, <2>1, Ran DEF Ds
  <2>4. ups[c] > 0 /\ loop[c] = l /\ ups[c] # 0
    BY <2>3, Typed DEF Placed
  <2>5. \A k \in AllLoops : LoopOK(k)'
    BY <1>1, <2>1, <2>2, <2>4, RanLoops
  <2>6. PlacedInv'
    BY <1>1, <2>1, RanQueued, PlacedStays
  <2>7. \A d \in Conns : ConnOK(d)
    BY DEF Reach, FlowInv
  <2>8. /\ m_state' \in [Conns -> States] /\ downs' \in [Conns -> Nat]
        /\ \A d \in Conns \ {c} : m_state'[d] = m_state[d] /\ downs'[d] = downs[d]
        /\ \/ m_state'[c] = "kDisconnected" /\ downs'[c] = 1
           \/ m_state'[c] = m_state[c] /\ downs'[c] = downs[c]
    <3>1. /\ IsUp(c) => downs[c] = 0
          /\ m_state \in [Conns -> States] /\ downs \in [Conns -> Nat]
      BY <2>7, Typed DEF IsUp, ConnOK, FlowTypes
    <3>2. CASE UNCHANGED <<m_state, downs>>
      BY <3>1, <3>2
    <3>3. CASE /\ IsUp(c)
               /\ m_state' = [m_state EXCEPT ![c] = "kDisconnected"]
               /\ downs' = [downs EXCEPT ![c] = @ + 1]
      BY <3>1, <3>3 DEF States
    <3> QED
      BY <2>1, <3>2, <3>3
  <2>9. ASSUME NEW d \in Conns
        PROVE  ConnOK(d)'
    <3>1. CASE d = c
      BY <2>1, <2>2, <2>4, <2>7, <2>8, <3>1 DEF ConnOK
    <3>2. CASE d # c
      BY <2>1, <2>2, <2>7, <2>8, <3>2 DEF ConnOK, Fresh
    <3> QED
      BY <3>1, <3>2
  <2> QED
    BY <2>1, <2>2, <2>5, <2>6, <2>8, <2>9 DEF Reach, FlowInv, FlowTypes, CallOK
<1> QED
  BY <1>2, <1>3

(* sendInLoop changes the queues of no loop.                               *)
LEMMA SendMasks ==
    ASSUME Reach, NEW c \in Conns, SendInLoop(c), ups[c] > 0,
           UNCHANGED <<ups, downs, stateVars, refs>>
    PROVE  /\ \A d \in Conns : ConnOK(d)'
           /\ channels \subseteq channels' /\ channels' \subseteq Conns
           /\ index' \in [Conns -> {"kNew", "kAdded", "kDeleted"}]
<1>1. CASE SetEvents(c, events[c] \cup {"OUT"})
  BY <1>1, MasksOK
<1>2. CASE UNCHANGED chanVars
  BY <1>2 DEF chanVars, stateVars, Reach, FlowInv, FlowTypes, ConnOK, Fresh
<1> QED
  BY <1>1, <1>2 DEF SendInLoop

LEMMA FlowRunSend ==
    ASSUME Reach, NEW l \in AllLoops, RunSend(l)
    PROVE  FlowInv'
<1>1. PICK c \in Conns :
         /\ Running(l, "sendInLoop", c) /\ SendInLoop(c) /\ Pop(l)
         /\ UNCHANGED <<serverVars, stateVars, at, cur, eventVars, pend, held,
                        userVars, historyVars>>
  BY DEF RunSend
<1>2. UNCHANGED <<m_connections, loop, ups, stateVars, at, cur, active, pend, held,
                  refs, call, downs>>
  BY <1>1 DEF serverVars, eventVars, userVars, historyVars
<1>3. ups[c] > 0
  BY <1>1, Taken DEF Reach
<1>4. /\ \A d \in Conns : ConnOK(d)'
      /\ channels \subseteq channels' /\ channels' \subseteq Conns
      /\ index' \in [Conns -> {"kNew", "kAdded", "kDeleted"}]
  BY <1>1, <1>2, <1>3, SendMasks
<1>5. PlacedInv'
  BY <1>1, <1>2, RanQueued, PlacedStays
<1>6. \A k \in AllLoops : LoopOK(k)'
  BY <1>1, <1>2, <1>4, RanLoops
<1> QED
  BY <1>2, <1>4, <1>5, <1>6 DEF Reach, FlowInv, FlowTypes, CallOK, stateVars

LEMMA FlowRunShutdown ==
    ASSUME Reach, NEW l \in AllLoops, RunShutdown(l)
    PROVE  FlowInv'
<1>1. PICK c \in Conns :
         /\ Running(l, "shutdownInLoop", c) /\ Pop(l)
         /\ UNCHANGED <<serverVars, stateVars, chanVars, at, cur, eventVars, pend,
                        held, userVars, historyVars>>
  BY DEF RunShutdown
<1>2. UNCHANGED <<m_connections, loop, ups, stateVars, chanVars, at, cur, active,
                  pend, held, refs, call, downs>>
  BY <1>1 DEF serverVars, eventVars, userVars, historyVars
<1>3. PlacedInv'
  BY <1>1, <1>2, RanQueued, PlacedStays
<1>4. \A k \in AllLoops : LoopOK(k)'
  BY <1>1, <1>2, RanLoops DEF chanVars
<1> QED
  BY <1>2, <1>3, <1>4 DEF Reach, FlowInv, FlowTypes, ConnOK, Fresh, CallOK,
     stateVars, chanVars

(* A functor that closes the connection or takes it from the map.          *)
LEMMA FlowLeaves ==
    ASSUME Reach, NEW l \in AllLoops, NEW op, NEW c \in Conns, Running(l, op, c),
           Pop(l), Leaves(c), ups[c] > 0,
           SetEvents(c, {}) \/ UNCHANGED chanVars,
           UNCHANGED <<loop, ups, stateVars, at, cur, active, held, refs, call, downs>>
    PROVE  FlowInv'
<1>1. /\ \A d \in Conns : ConnOK(d)'
      /\ channels \subseteq channels' /\ channels' \subseteq Conns
      /\ index' \in [Conns -> {"kNew", "kAdded", "kDeleted"}]
  <2>1. CASE SetEvents(c, {})
    BY <2>1, MasksOK
  <2>2. CASE UNCHANGED chanVars
    BY <2>2 DEF chanVars, stateVars, Reach, FlowInv, FlowTypes, ConnOK, Fresh
  <2> QED
    BY <2>1, <2>2
<1>2. PlacedInv'
  <2>1. PICK m \in AllLoops, g \in Entry : Pushes(m, g) /\ Placed(m, g)'
    BY LeavesPushes
  <2>2. \A k \in AllLoops, f \in Entry : Queued(k, f)' => Queued(k, f) \/ Placed(k, f)'
    BY <2>1, RanQueued
  <2>3. \A d \in Conns : ups[d] = 0 /\ d \in m_connections => d \in m_connections'
    BY LeavesPushes
  <2> QED
    BY <2>2, <2>3, PlacedStays
<1>3. \A k \in AllLoops : LoopOK(k)'
  BY <1>1, RanLoops
<1> QED
  BY <1>1, <1>2, <1>3 DEF Reach, FlowInv, FlowTypes, CallOK, stateVars

LEMMA FlowRunForceClose ==
    ASSUME Reach, NEW l \in AllLoops, RunForceClose(l)
    PROVE  FlowInv'
<1>1. PICK c \in Conns :
         /\ Running(l, "forceCloseInLoop", c)
         /\ IF Closable(c) /\ CloseFailure(c) # ""
            THEN Fail(CloseFailure(c))
            ELSE /\ IF Closable(c) THEN HandleClose(c)
                                   ELSE UNCHANGED <<serverVars, chanVars, pend>>
                 /\ Pop(l)
                 /\ UNCHANGED <<stateVars, at, cur, eventVars, held, userVars, historyVars>>
  BY DEF RunForceClose
<1>2. CASE Closable(c) /\ CloseFailure(c) # ""
  BY <1>1, <1>2, FlowFails
<1>3. CASE Closable(c) /\ CloseFailure(c) = ""
  <2>1. Leaves(c) /\ SetEvents(c, {}) /\ loop' = loop
    BY <1>1, <1>3, HandleCloseLeaves
  <2>2. ups[c] > 0
    BY <1>3, Established
  <2>3. UNCHANGED <<ups, stateVars, at, cur, active, held, refs, call, downs>>
    BY <1>1, <1>3 DEF eventVars, userVars, historyVars
  <2> QED
    BY <1>1, <1>3, <2>1, <2>2, <2>3, FlowLeaves
<1>4. CASE ~Closable(c)
  <2>1. UNCHANGED <<m_connections, loop, ups, stateVars, chanVars, at, cur, active,
                    pend, held, refs, call, downs>>
    BY <1>1, <1>4 DEF serverVars, eventVars, userVars, historyVars
  <2>2. PlacedInv'
    BY <1>1, <1>4, <2>1, RanQueued, PlacedStays
  <2>3. \A k \in AllLoops : LoopOK(k)'
    BY <1>1, <1>4, <2>1, RanLoops DEF chanVars
  <2> QED
    BY <2>1, <2>2, <2>3 DEF Reach, FlowInv, FlowTypes, ConnOK, Fresh, CallOK,
       stateVars, chanVars
<1> QED
  BY <1>2, <1>3, <1>4

LEMMA FlowRunRemove ==
    ASSUME Reach, NEW l \in AllLoops, RunRemove(l)
    PROVE  FlowInv'
<1>1. PICK c \in Conns :
         /\ Running(l, "removeConnectionInLoop", c)
         /\ IF c \notin m_connections
            THEN Fail("n == 1")
            ELSE /\ RemoveConnectionInLoop(c)
                 /\ Pop(l)
                 /\ UNCHANGED <<stateVars, chanVars, at, cur, eventVars, held,
                                userVars, historyVars>>
  BY DEF RunRemove
<1>2. CASE c \notin m_connections
  BY <1>1, <1>2, FlowFails
<1>3. CASE c \in m_connections
  <2>1. Leaves(c) /\ Pop(l) /\ loop' = loop
    BY <1>1, <1>3 DEF RemoveConnectionInLoop, Leaves, Pushes, Ds
  <2>2. UNCHANGED <<ups, stateVars, chanVars, at, cur, active, held, refs, call, downs>>
    BY <1>1, <1>3 DEF eventVars, userVars, historyVars
  <2>3. Placed(l, Rm(c)) /\ Rm(c)[1] = "removeConnectionInLoop" /\ Rm(c)[2] = c
    BY <1>1, <2>1, Ran DEF Rm
  <2>4. ups[c] > 0
    BY <2>3 DEF Placed
  <2> QED
    BY <1>1, <2>1, <2>2, <2>4, FlowLeaves
<1> QED
  BY <1>2, <1>3

LEMMA FlowCallbackSend ==
    ASSUME Reach, NEW l \in AllLoops, CallbackSend(l)
    PROVE  FlowInv'
<1>1. /\ InHandler(l) /\ SendInLoop(cur[l])
      /\ UNCHANGED <<m_connections, loop, ups, stateVars, at, cur, active, pend, batch,
                     held, refs, call, downs>>
  BY DEF CallbackSend, InCallback, InHandler, serverVars, loopVars, eventVars,
     queueVars, userVars, historyVars
<1>2. cur[l] \in channels /\ cur[l] \in Conns
  BY <1>1, Typed DEF Reach, FlowInv, LoopOK
<1>3. ups[cur[l]] > 0
  BY <1>2, Established
<1>4. /\ \A d \in Conns : ConnOK(d)'
      /\ channels \subseteq channels' /\ channels' \subseteq Conns
      /\ index' \in [Conns -> {"kNew", "kAdded", "kDeleted"}]
  BY <1>1, <1>2, <1>3, SendMasks
<1> QED
  BY <1>1, <1>4, FlowKept DEF Queued, Reach, FlowInv, FlowTypes, CallOK, stateVars

(* A call on a connection that is established sets it kDisconnecting.      *)
LEMMA FlowDemotes ==
    ASSUME Reach, NEW c \in Conns, ups[c] > 0,
           m_state' = [m_state EXCEPT ![c] = "kDisconnecting"],
           UNCHANGED <<ups, downs, m_timer, chanVars, refs>>
    PROVE  \A d \in Conns : ConnOK(d)'
<1>1. /\ \A d \in Conns \ {c} : m_state'[d] = m_state[d]
      /\ m_state'[c] = "kDisconnecting" /\ ups[c] # 0
  BY Typed
<1> QED
  BY <1>1, ConnsStay DEF chanVars, Reach, FlowInv, ConnOK

LEMMA FlowCallbackShutdown ==
    ASSUME Reach, NEW l \in AllLoops, CallbackShutdown(l)
    PROVE  FlowInv'
<1>1. /\ InHandler(l) /\ m_state' = [m_state EXCEPT ![cur[l]] = "kDisconnecting"]
      /\ UNCHANGED <<m_connections, loop, ups, m_timer, chanVars, at, cur, active, pend,
                     batch, held, refs, call, downs>>
  BY DEF CallbackShutdown, InCallback, InHandler, serverVars, loopVars, eventVars,
     queueVars, userVars
<1>2. cur[l] \in channels /\ cur[l] \in Conns
  BY <1>1, Typed DEF Reach, FlowInv, LoopOK
<1>3. ups[cur[l]] > 0
  BY <1>2, Established
<1>4. \A d \in Conns : ConnOK(d)'
  BY <1>1, <1>2, <1>3, FlowDemotes
<1> QED
  BY <1>1, <1>4, FlowKept DEF Queued, Reach, FlowInv, FlowTypes, CallOK, chanVars

LEMMA FlowCallbackForceClose ==
    ASSUME Reach, NEW l \in AllLoops, CallbackForceClose(l)
    PROVE  FlowInv'
<1>1. /\ InHandler(l) /\ m_state' = [m_state EXCEPT ![cur[l]] = "kDisconnecting"]
      /\ Pushes(l, <<"forceCloseInLoop", cur[l]>>)
      /\ UNCHANGED <<m_connections, loop, ups, m_timer, chanVars, at, cur, active,
                     batch, held, refs, call, downs>>
  BY DEF CallbackForceClose, InCallback, InHandler, Pushes, serverVars, eventVars
<1>2. PICK c \in Conns : c = cur[l]
  BY Typed
<1>3. PICK g \in Entry : g = <<"forceCloseInLoop", c>>
  BY Kinds DEF Functors
<1>4. c \in channels /\ loop[c] = l
  BY <1>1, <1>2 DEF Reach, FlowInv, LoopOK
<1>5. ups[c] > 0
  BY <1>4, Established
<1>6. \A d \in Conns : ConnOK(d)'
  BY <1>1, <1>2, <1>5, FlowDemotes
<1>7. Placed(l, g)'
  BY <1>1, <1>3, <1>4, <1>5 DEF Placed
<1>8. Pushes(l, g)
  BY <1>1, <1>2, <1>3
<1>9. \A k \in AllLoops, f \in Entry : Queued(k, f)' => Queued(k, f) \/ Placed(k, f)'
  BY <1>1, <1>7, <1>8, Pushed
<1> QED
  BY <1>1, <1>6, <1>9, FlowKept DEF Reach, FlowInv, FlowTypes, CallOK, chanVars

LEMMA FlowCallbackShare ==
    ASSUME Reach, NEW l \in AllLoops, CallbackShare(l)
    PROVE  FlowInv'
<1>1. /\ InHandler(l) /\ refs' = refs \cup {cur[l]}
      /\ UNCHANGED <<m_connections, loop, ups, stateVars, chanVars, at, cur, active,
                     pend, batch, held, call, downs>>
  BY DEF CallbackShare, InHandler, serverVars, loopVars, eventVars, queueVars, historyVars
<1>2. cur[l] \in channels /\ cur[l] \in Conns
  BY <1>1, Typed DEF Reach, FlowInv, LoopOK
<1>3. ups[cur[l]] # 0
  BY <1>2, Established
<1>4. \A d \in Conns : ConnOK(d)'
  BY <1>1, <1>3, ConnsStay DEF stateVars, chanVars, Reach, FlowInv, ConnOK
<1> QED
  BY <1>1, <1>4, FlowKept DEF Queued, Reach, FlowInv, FlowTypes, CallOK, chanVars, stateVars

LEMMA FlowUserChecks ==
    ASSUME Reach, NEW u \in Users, NEW op \in ThreadOps, NEW c \in Conns,
           UserChecks(u, op, c)
    PROVE  FlowInv'
<1> DEFINE x == <<op, c, IF op = "send" THEN "set" ELSE "checked">>
<1>1. /\ c \in refs /\ call' = [call EXCEPT ![u] = x]
      /\ UNCHANGED <<m_connections, loop, ups, stateVars, chanVars, at, cur, active,
                     pend, batch, held, refs, downs>>
  BY DEF UserChecks, serverVars, loopVars, eventVars, queueVars, historyVars
<1>2. x[2] = c
  OBVIOUS
<1> HIDE DEF x
<1>3. CallOK'
  <2>1. ASSUME NEW v \in Users, call'[v] # NoCall
        PROVE  call'[v][2] \in refs
    BY <1>1, <1>2, <2>1, Typed DEF Reach, FlowInv, CallOK
  <2> QED
    BY <1>1, <2>1 DEF CallOK
<1> QED
  BY <1>1, <1>3, FlowKept DEF Queued, Reach, FlowInv, FlowTypes, ConnOK, Fresh,
     chanVars, stateVars

LEMMA FlowUserSets ==
    ASSUME Reach, NEW u \in Users, UserSets(u)
    PROVE  FlowInv'
<1> DEFINE x == <<call[u][1], call[u][2], "set">>
<1>1. /\ call[u] # NoCall /\ call' = [call EXCEPT ![u] = x]
      /\ m_state' = [m_state EXCEPT ![call[u][2]] = "kDisconnecting"]
      /\ UNCHANGED <<m_connections, loop, ups, m_timer, chanVars, at, cur, active,
                     pend, batch, held, refs, downs>>
  BY DEF UserSets, serverVars, loopVars, eventVars, queueVars
<1>2. x[2] = call[u][2]
  OBVIOUS
<1> HIDE DEF x
<1>3. call[u][2] \in refs /\ call[u][2] \in Conns
  BY <1>1, Typed DEF Reach, FlowInv, CallOK
<1>4. CallOK'
  <2>1. ASSUME NEW v \in Users, call'[v] # NoCall
        PROVE  call'[v][2] \in refs
    BY <1>1, <1>2, <1>3, <2>1, Typed DEF Reach, FlowInv, CallOK
  <2> QED
    BY <1>1, <2>1 DEF CallOK
<1>5. ups[call[u][2]] > 0
  BY <1>3, Established
<1>6. \A d \in Conns : ConnOK(d)'
  BY <1>1, <1>3, <1>5, FlowDemotes
<1> QED
  BY <1>1, <1>4, <1>6, FlowKept DEF Queued, Reach, FlowInv, FlowTypes, chanVars

LEMMA FlowUserQueues ==
    ASSUME Reach, NEW u \in Users, UserQueues(u)
    PROVE  FlowInv'
<1>1. /\ call[u] # NoCall /\ call' = [call EXCEPT ![u] = NoCall]
      /\ Pushes(loop[call[u][2]], <<Functor(call[u][1]), call[u][2]>>)
      /\ UNCHANGED <<m_connections, loop, ups, stateVars, chanVars, at, cur, active,
                     batch, held, refs, downs>>
  BY DEF UserQueues, Pushes, serverVars, eventVars, historyVars
<1>2. call[u] \in Calls /\ call[u][1] \in Ops /\ call[u][2] \in Conns
  BY <1>1, Typed DEF Calls
<1>3. PICK c \in Conns : c = call[u][2]
  BY <1>2
<1>4. Functor(call[u][1]) \in {"sendInLoop", "shutdownInLoop", "forceCloseInLoop"}
  BY <1>2 DEF Functor, Ops
<1>5. PICK g \in Entry : g = <<Functor(call[u][1]), c>>
  BY <1>4, Kinds DEF Functors
<1>6. PICK l \in AllLoops : l = loop[c]
  BY Typed
<1>7. ups[c] > 0
  BY <1>1, <1>3, Established DEF Reach, FlowInv, CallOK
<1>8. Placed(l, g)'
  BY <1>1, <1>4, <1>5, <1>6, <1>7 DEF Placed
<1>9. Pushes(l, g)
  BY <1>1, <1>3, <1>5, <1>6
<1>10. \A k \in AllLoops, f \in Entry : Queued(k, f)' => Queued(k, f) \/ Placed(k, f)'
  BY <1>1, <1>8, <1>9, Pushed
<1>11. CallOK'
  BY <1>1, Typed DEF Reach, FlowInv, CallOK
<1> QED
  BY <1>1, <1>10, <1>11, FlowKept DEF Reach, FlowInv, FlowTypes, ConnOK, Fresh,
     chanVars, stateVars

LEMMA FlowUserDrops ==
    ASSUME Reach, NEW c \in Conns, UserDrops(c)
    PROVE  FlowInv'
<1>1. /\ \A u \in Users : call[u] # NoCall => call[u][2] # c
      /\ refs' = refs \ {c}
      /\ UNCHANGED <<m_connections, loop, ups, stateVars, chanVars, at, cur, active,
                     pend, batch, held, call, downs>>
  BY DEF UserDrops, serverVars, loopVars, eventVars, queueVars, historyVars
<1>2. CallOK'
  BY <1>1 DEF Reach, FlowInv, CallOK
<1>3. \A d \in Conns : ConnOK(d)'
  BY <1>1, ConnsStay DEF stateVars, chanVars, Reach, FlowInv, ConnOK
<1> QED
  BY <1>1, <1>2, <1>3, FlowKept DEF Queued, Reach, FlowInv, FlowTypes, chanVars, stateVars

LEMMA FlowNewConnection ==
    ASSUME Reach, NewConnection
    PROVE  FlowInv'
<1>1. PICK c \in Conns : c = m_connId + 1 /\ m_connId' = c
  BY Typed, ServerAssumption DEF NewConnection, Conns
<1>2. PICK l \in AllLoops :
         /\ loop' = [loop EXCEPT ![c] = l]
         /\ IF l = Base THEN ConnectEstablished(l, c) /\ UNCHANGED pend
                        ELSE QueueEstablished(l, c)
  BY <1>1 DEF NewConnection
<1>3. /\ at[Base] = "events" /\ m_connections' = m_connections \cup {c}
      /\ UNCHANGED <<m_timer, active, batch, held, refs, call, downs>>
  BY <1>1 DEF NewConnection, eventVars, userVars
<1>4. ups[c] = 0
  BY <1>1, Typed DEF Reach, StreamInv, TableInv, UpBeforeUse
<1>5. /\ loop'[c] = l /\ \A d \in Conns \ {c} : loop'[d] = loop[d]
  BY <1>2, Typed
<1>6. \A k \in AllLoops : LoopOK(k) /\ \A d \in Conns : ConnOK(d)
  BY DEF Reach, FlowInv
<1>7. \A k \in AllLoops, f \in Entry : f[2] = c => ~Queued(k, f)
  <2>1. ASSUME NEW k \in AllLoops, NEW f \in Entry, f[2] = c, Queued(k, f)
        PROVE  FALSE
    <3>1. CASE f[1] = "connectEstablished"
      <4>1. f = Est(c)
        BY <2>1, <3>1, Kinds DEF Est
      <4>2. c <= m_connId
        BY <2>1, <4>1 DEF Queued, Reach, StreamInv, TableInv, QueuesOK, PlaceOK, Waits
      <4> QED
        BY <1>1, <4>2, Typed
    <3>2. CASE f[1] # "connectEstablished"
      <4>1. Placed(k, f)
        BY <2>1 DEF Reach, FlowInv, PlacedInv
      <4> QED
        BY <1>4, <2>1, <3>2, <4>1, ~(0 > 0) DEF Placed
    <3> QED
      BY <3>1, <3>2
  <2> QED
    BY <2>1
<1>8. c \notin channels
  BY <1>4, <1>6 DEF ConnOK, Fresh
<1>9. \A k \in AllLoops : active[k] \subseteq Conns /\ cur[k] \in Conns
  BY Typed DEF FlowTypes
<1>10. CASE l = Base
  <2>1. /\ at' = [at EXCEPT ![l] = "onConnection"] /\ cur' = [cur EXCEPT ![l] = c]
        /\ m_state' = [m_state EXCEPT ![c] = "kConnected"] /\ ups' = [ups EXCEPT ![c] = @ + 1]
        /\ SetEvents(c, events[c] \cup {"IN"}) /\ pend' = pend
    BY <1>2, <1>10 DEF ConnectEstablished
  <2>2. /\ at'[l] = "onConnection" /\ cur'[l] = c /\ at' \in [AllLoops -> Places]
        /\ \A k \in AllLoops \ {l} : at'[k] = at[k] /\ cur'[k] = cur[k]
    BY <2>1, Typed DEF FlowTypes, Places
  <2>3. /\ index' \in [Conns -> {"kNew", "kAdded", "kDeleted"}]
        /\ channels' = channels \cup {c} /\ channels' \subseteq Conns
        /\ \A d \in Conns \ {c} : events'[d] = events[d] /\ index'[d] = index[d]
                                  /\ m_state'[d] = m_state[d] /\ ups'[d] = ups[d]
        /\ ups'[c] = 1
    <3>1. /\ index' \in [Conns -> {"kNew", "kAdded", "kDeleted"}]
          /\ channels' = channels \cup {c} /\ channels' \subseteq Conns
          /\ \A d \in Conns \ {c} : events'[d] = events[d] /\ index'[d] = index[d]
      BY <2>1, Typed DEF SetEvents, FlowTypes
    <3>2. \A d \in Conns \ {c} : m_state'[d] = m_state[d] /\ ups'[d] = ups[d]
      BY <2>1, Typed
    <3>3. ups'[c] = 1
      BY <1>4, <2>1, Typed
    <3> QED
      BY <3>1, <3>2, <3>3
  <2>4. ASSUME NEW k \in AllLoops
        PROVE  LoopOK(k)'
    <3>1. CASE k = l
      BY <1>3, <1>5, <1>6, <1>8, <1>9, <1>10, <2>2, <2>3, <3>1
         DEF LoopOK, RunsBatch, InHandler
    <3>2. CASE k # l
      <4>1. \A d \in active[k] : d # c
        BY <1>6, <1>8 DEF LoopOK
      <4>2. InHandler(k) => cur[k] # c
        BY <1>6, <1>8 DEF LoopOK
      <4> QED
        BY <1>3, <1>5, <1>6, <1>9, <2>2, <2>3, <3>2, <4>1, <4>2 DEF LoopOK, RunsBatch, InHandler
    <3> QED
      BY <3>1, <3>2
  <2>5. ASSUME NEW d \in Conns
        PROVE  ConnOK(d)'
    <3>1. CASE d = c
      BY <1>3, <1>4, <1>6, <2>3, <3>1 DEF ConnOK, Fresh
    <3>2. CASE d # c
      BY <1>3, <1>6, <2>3, <3>2 DEF ConnOK, Fresh
    <3> QED
      BY <3>1, <3>2
  <2>6. PlacedInv'
    <3>1. ASSUME NEW k \in AllLoops, NEW f \in Entry, Queued(k, f)'
          PROVE  Placed(k, f)'
      <4>1. Queued(k, f) /\ f[2] # c /\ f[2] \in Conns
        BY <1>3, <1>7, <2>1, <3>1, Kinds DEF Queued
      <4>2. Placed(k, f)
        BY <4>1 DEF Reach, FlowInv, PlacedInv
      <4> QED
        BY <1>3, <1>5, <2>3, <4>1, <4>2 DEF Placed
    <3> QED
      BY <3>1 DEF PlacedInv
  <2> QED
    BY <1>3, <2>2, <2>3, <2>4, <2>5, <2>6 DEF Reach, FlowInv, FlowTypes, CallOK
<1>11. CASE l # Base
  <2>1. /\ m_state' = [m_state EXCEPT ![c] = "kConnecting"]
        /\ Pushes(l, Est(c))
        /\ UNCHANGED <<chanVars, at, cur, ups>>
    BY <1>2, <1>11 DEF QueueEstablished, Est, Pushes
  <2>2. /\ m_state'[c] = "kConnecting"
        /\ \A d \in Conns \ {c} : m_state'[d] = m_state[d]
    BY <2>1, Typed
  <2>3. ASSUME NEW k \in AllLoops
        PROVE  LoopOK(k)'
    <3>1. \A d \in active[k] : d # c
      BY <1>6, <1>8 DEF LoopOK
    <3>2. InHandler(k) => cur[k] # c
      BY <1>6, <1>8 DEF LoopOK
    <3> QED
      BY <1>3, <1>5, <1>6, <1>9, <2>1, <3>1, <3>2 DEF LoopOK, RunsBatch, InHandler, chanVars
  <2>4. ASSUME NEW d \in Conns
        PROVE  ConnOK(d)'
    <3>1. CASE d = c
      BY <1>3, <1>4, <1>6, <2>1, <2>2, <3>1 DEF ConnOK, Fresh, chanVars
    <3>2. CASE d # c
      BY <1>3, <1>6, <2>1, <2>2, <3>2 DEF ConnOK, Fresh, chanVars
    <3> QED
      BY <3>1, <3>2
  <2>5. PlacedInv'
    <3>1. /\ Est(c) \in Entry /\ Est(c)[1] = "connectEstablished" /\ Est(c)[2] = c
      BY Kinds DEF Est, Functors
    <3>2. ASSUME NEW k \in AllLoops, NEW f \in Entry, Queued(k, f)'
          PROVE  Placed(k, f)'
      <4>1. Queued(k, f) \/ (k = l /\ f = Est(c))
        BY <1>3, <2>1, <3>1, <3>2, Pushed
      <4>2. CASE Queued(k, f)
        <5>1. Placed(k, f) /\ f[2] # c /\ f[2] \in Conns
          BY <1>7, <4>2, Kinds DEF Reach, FlowInv, PlacedInv
        <5> QED
          BY <1>3, <1>5, <2>1, <5>1 DEF Placed
      <4>3. CASE k = l /\ f = Est(c)
        BY <1>3, <1>5, <1>11, <3>1, <4>3 DEF Placed
      <4> QED
        BY <4>1, <4>2, <4>3
    <3> QED
      BY <3>2 DEF PlacedInv
  <2> QED
    BY <1>3, <2>1, <2>3, <2>4, <2>5 DEF Reach, FlowInv, FlowTypes, CallOK, chanVars
<1> QED
  BY <1>10, <1>11

LEMMA FlowInit == Init => FlowInv
<1> SUFFICES ASSUME Init PROVE FlowInv
  OBVIOUS
<1>1. /\ m_timer = [c \in Conns |-> "none"] /\ index = [c \in Conns |-> "kNew"]
      /\ channels = {} /\ refs = {} /\ events = [c \in Conns |-> {}]
      /\ at = [l \in AllLoops |-> "poll"] /\ active = [l \in AllLoops |-> {}]
      /\ held = [l \in AllLoops |-> {}] /\ pend = [l \in AllLoops |-> <<>>]
      /\ batch = [l \in AllLoops |-> <<>>] /\ call = [u \in Users |-> NoCall]
      /\ ups = [c \in Conns |-> 0] /\ downs = [c \in Conns |-> 0]
      /\ m_state = [c \in Conns |-> "none"]
  BY DEF Init
<1>2. FlowTypes
  BY <1>1 DEF FlowTypes, Places
<1>3. \A g : ~In(<<>>, g)
  BY DEF In
<1>4. PlacedInv
  BY <1>1, <1>3 DEF PlacedInv, Queued
<1>5. \A l \in AllLoops : LoopOK(l)
  BY <1>1, <1>3 DEF LoopOK, RunsBatch, InHandler
<1>6. (\A c \in Conns : ConnOK(c)) /\ CallOK
  BY <1>1 DEF ConnOK, Fresh, CallOK
<1> QED
  BY <1>2, <1>4, <1>5, <1>6 DEF FlowInv

LEMMA FlowStep == Reach /\ [Next]_vars => FlowInv'
<1> SUFFICES ASSUME Reach, [Next]_vars PROVE FlowInv'
  OBVIOUS
<1>1. 1 \in Conns
  BY ServerAssumption DEF Conns
<1>2. CASE Start \/ NewConnection \/ UNCHANGED vars
  BY <1>1, <1>2, FlowStart, FlowNewConnection, FlowPeer
<1>3. ASSUME NEW l \in AllLoops, LoopStep(l)
      PROVE  FlowInv'
  <2>1. CASE HandleFreed(l) \/ HandleReset(l)
    BY <2>1, FlowFails DEF HandleFreed, HandleReset
  <2>2. CASE \/ Poll(l) \/ HandleData(l) \/ HandleEnd(l) \/ HandleWrite(l)
             \/ EndEvents(l) \/ EndBatch(l)
    BY <2>2, FlowPoll, FlowHandleData, FlowHandleEnd, FlowHandleWrite, FlowEndEvents,
       FlowEndBatch
  <2>3. CASE \/ RunEstablished(l) \/ RunDestroyed(l) \/ RunSend(l) \/ RunShutdown(l)
             \/ RunForceClose(l) \/ RunRemove(l)
    BY <2>3, FlowRunEstablished, FlowRunDestroyed, FlowRunSend, FlowRunShutdown,
       FlowRunForceClose, FlowRunRemove
  <2>4. CASE EndOnConnection(l) \/ EndOnMessage(l)
    BY <2>4, FlowEndOnConnection, FlowEndOnMessage
  <2> QED
    BY <1>3, <2>1, <2>2, <2>3, <2>4 DEF LoopStep
<1>4. ASSUME NEW l \in AllLoops, CallbackStep(l) \/ TimerFires(l)
      PROVE  FlowInv'
  BY <1>4, FlowCallbackSend, FlowCallbackShutdown, FlowCallbackForceClose,
     FlowCallbackShare, FlowTimerFires DEF CallbackStep
<1>5. ASSUME NEW u \in Users, UserStep(u)
      PROVE  FlowInv'
  BY <1>5, FlowUserChecks, FlowUserSets, FlowUserQueues DEF UserStep
<1>6. ASSUME NEW c \in Conns, UserDrops(c) \/ PeerStep(c)
      PROVE  FlowInv'
  BY <1>6, FlowUserDrops, FlowPeer
<1> QED
  BY <1>2, <1>3, <1>4, <1>5, <1>6 DEF Next

LEMMA ReachStep == Reach /\ [Next]_vars => Reach'
BY FlowStep, StreamStep, PoolStep DEF Reach

LEMMA Reached == Spec => []Reach
<1>1. Init => Reach
  BY FlowInit, StreamInit, PoolInit DEF Reach
<1> QED
  BY <1>1, ReachStep, PTL DEF Spec

-----------------------------------------------------------------------------
(* Type correctness.                                                       *)

RestTypes ==
    /\ m_delay \in BOOLEAN
    /\ m_started \in BOOLEAN
    /\ rx \in [Conns -> BOOLEAN]
    /\ fin \in [Conns -> BOOLEAN]
    /\ reset \in [Conns -> BOOLEAN]
    /\ revents \in [Conns -> SUBSET {"IN", "OUT", "HUP"}]
    /\ call \in [Users -> {NoCall} \cup (ThreadOps \X Conns \X {"checked", "set"})]
    /\ \A u \in Users : call[u] # NoCall /\ call[u][3] = "checked" => call[u][1] # "send"
    /\ calls \in 0 .. MaxCalls
    /\ asked \in [Conns -> SUBSET {"shutdown", "forceClose"}]
    /\ failed \in {"", "n == 1", "isNoneEvent()", "m_channels.count(fd)",
                   "m_state", "readv", "freed"}

LEMMA RestInit == Init => RestTypes
<1> SUFFICES ASSUME Init PROVE RestTypes
  OBVIOUS
<1>1. /\ m_delay \in Delays /\ m_started = FALSE
      /\ rx = [c \in Conns |-> FALSE] /\ fin = [c \in Conns |-> FALSE]
      /\ reset = [c \in Conns |-> FALSE] /\ revents = [c \in Conns |-> {}]
      /\ call = [u \in Users |-> NoCall] /\ calls = 0
      /\ asked = [c \in Conns |-> {}] /\ failed = ""
  BY DEF Init
<1>2. m_delay \in BOOLEAN /\ m_started \in BOOLEAN
  BY <1>1, ServerAssumption
<1>3. calls \in 0 .. MaxCalls
  <2>1. calls = 0
    BY <1>1
  <2> QED
    BY <2>1, ServerAssumption
<1>4. /\ call \in [Users -> {NoCall} \cup (ThreadOps \X Conns \X {"checked", "set"})]
      /\ \A u \in Users : call[u] = NoCall
  BY <1>1
<1>5. /\ rx \in [Conns -> BOOLEAN] /\ fin \in [Conns -> BOOLEAN]
      /\ reset \in [Conns -> BOOLEAN]
      /\ revents \in [Conns -> SUBSET {"IN", "OUT", "HUP"}]
      /\ asked \in [Conns -> SUBSET {"shutdown", "forceClose"}]
  BY <1>1
<1> QED
  BY <1>1, <1>2, <1>3, <1>4, <1>5 DEF RestTypes

LEMMA RestFails ==
    ASSUME RestTypes, NEW why, Fail(why),
           why \in {"n == 1", "isNoneEvent()", "m_channels.count(fd)", "m_state",
                    "readv", "freed"}
    PROVE  RestTypes'
BY DEF RestTypes, Fail, serverVars, peerVars, loopVars, eventVars, userVars

LEMMA RestStays ==
    ASSUME RestTypes, UNCHANGED <<m_delay, m_started, peerVars, revents, call, calls,
                                  asked, failed>>
    PROVE  RestTypes'
BY DEF RestTypes, peerVars

LEMMA OneMoreCall ==
    ASSUME RestTypes, calls < MaxCalls, calls' = calls + 1
    PROVE  calls' \in 0 .. MaxCalls
<1>1. calls \in 0 .. MaxCalls
  BY DEF RestTypes
<1> QED
  BY <1>1, ServerAssumption

LEMMA RestStep == RestTypes /\ Reach /\ [Next]_vars => RestTypes'
<1> SUFFICES ASSUME RestTypes, Reach, [Next]_vars PROVE RestTypes'
  OBVIOUS
<1>1. CASE Start
  <2>1. m_started' = TRUE
    BY <1>1 DEF Start, Pool!StartTables
  <2> QED
    BY <1>1, <2>1 DEF Start, RestTypes, peerVars, loopVars, eventVars, userVars, historyVars
<1>2. CASE NewConnection \/ UNCHANGED vars
  BY <1>2, RestStays DEF NewConnection, vars, serverVars, loopVars, eventVars, userVars, historyVars
<1>3. \A c \in Conns : CloseFailure(c) \in {"", "m_state", "n == 1"}
  BY DEF CloseFailure
<1>4. ASSUME NEW c \in Conns, RemoveConnectionInLoop(c)
      PROVE  UNCHANGED <<m_delay, m_started>>
  BY <1>4 DEF RemoveConnectionInLoop
<1>5. ASSUME NEW c \in Conns, HandleClose(c)
      PROVE  UNCHANGED <<m_delay, m_started>>
  BY <1>4, <1>5 DEF HandleClose, serverVars
<1>6. ASSUME NEW l \in AllLoops, LoopStep(l)
      PROVE  RestTypes'
  <2>1. CASE HandleFreed(l) \/ HandleReset(l)
    BY <2>1, RestFails DEF HandleFreed, HandleReset
  <2>2. CASE Poll(l)
    <3>1. \A c \in Conns : Ready(c) \subseteq {"IN", "OUT", "HUP"}
      BY DEF Ready
    <3>2. revents' \in [Conns -> SUBSET {"IN", "OUT", "HUP"}]
      BY <2>2, <3>1 DEF Poll, RestTypes
    <3> QED
      BY <2>2, <3>2 DEF Poll, RestTypes, serverVars, peerVars, userVars, historyVars
  <2>3. CASE HandleData(l)
    BY <2>3 DEF HandleData, RestTypes, serverVars, eventVars, userVars, historyVars
  <2>4. CASE HandleEnd(l)
    <3>1. PICK c \in Conns :
             IF CloseFailure(c) # ""
             THEN Fail(CloseFailure(c))
             ELSE /\ HandleClose(c) /\ Handled(l, c)
                  /\ UNCHANGED <<peerVars, userVars, historyVars>>
      BY <2>4 DEF HandleEnd
    <3>2. CASE CloseFailure(c) # ""
      BY <1>3, <3>1, <3>2, RestFails
    <3>3. CASE CloseFailure(c) = ""
      BY <1>5, <3>1, <3>3 DEF Handled, RestTypes, peerVars, userVars, historyVars
    <3> QED
      BY <3>2, <3>3
  <2>5. CASE HandleWrite(l)
    <3>1. PICK c \in Conns : Handled(l, c)
      BY <2>5 DEF HandleWrite
    <3>2. UNCHANGED <<serverVars, peerVars, userVars, historyVars>>
      BY <2>5 DEF HandleWrite
    <3> QED
      BY <3>1, <3>2 DEF Handled, RestTypes, serverVars, peerVars, userVars, historyVars
  <2>6. CASE EndEvents(l) \/ EndBatch(l) \/ EndOnConnection(l) \/ EndOnMessage(l)
    BY <2>6, RestStays DEF EndEvents, EndBatch, EndOnConnection, EndOnMessage,
       serverVars, eventVars, userVars, historyVars
  <2>7. CASE RunEstablished(l) \/ RunSend(l) \/ RunShutdown(l)
    BY <2>7, RestStays DEF RunEstablished, RunSend, RunShutdown,
       serverVars, eventVars, userVars, historyVars
  <2>8. CASE RunDestroyed(l)
    <3>1. PICK c \in Conns :
             IF ~IsUp(c) /\ events[c] # {} THEN Fail("isNoneEvent()")
             ELSE IF c \notin channels THEN Fail("m_channels.count(fd)")
             ELSE UNCHANGED <<serverVars, eventVars, peerVars, userVars, asked, failed>>
      BY <2>8 DEF RunDestroyed
    <3>2. CASE Fail("isNoneEvent()") \/ Fail("m_channels.count(fd)")
      BY <3>2, RestFails
    <3>3. CASE UNCHANGED <<serverVars, eventVars, peerVars, userVars, asked, failed>>
      BY <3>3, RestStays DEF serverVars, eventVars, userVars
    <3> QED
      BY <3>1, <3>2, <3>3
  <2>9. CASE RunForceClose(l)
    <3>1. PICK c \in Conns :
             IF Closable(c) /\ CloseFailure(c) # ""
             THEN Fail(CloseFailure(c))
             ELSE /\ HandleClose(c) \/ UNCHANGED serverVars
                  /\ UNCHANGED <<peerVars, eventVars, userVars, historyVars>>
      BY <2>9 DEF RunForceClose
    <3>2. CASE Closable(c) /\ CloseFailure(c) # ""
      BY <1>3, <3>1, <3>2, RestFails
    <3>3. CASE ~(Closable(c) /\ CloseFailure(c) # "")
      BY <1>5, <3>1, <3>3, RestStays DEF serverVars, eventVars, userVars, historyVars
    <3> QED
      BY <3>2, <3>3
  <2>10. CASE RunRemove(l)
    <3>1. PICK c \in Conns :
             IF c \notin m_connections
             THEN Fail("n == 1")
             ELSE /\ RemoveConnectionInLoop(c)
                  /\ UNCHANGED <<peerVars, eventVars, userVars, historyVars>>
      BY <2>10 DEF RunRemove
    <3>2. CASE c \notin m_connections
      BY <3>1, <3>2, RestFails
    <3>3. CASE c \in m_connections
      BY <1>4, <3>1, <3>3, RestStays DEF eventVars, userVars, historyVars
    <3> QED
      BY <3>2, <3>3
  <2> QED
    BY <1>6, <2>1, <2>2, <2>3, <2>4, <2>5, <2>6, <2>7, <2>8, <2>9, <2>10 DEF LoopStep
<1>7. ASSUME NEW l \in AllLoops, CallbackStep(l) \/ TimerFires(l)
      PROVE  RestTypes'
  <2>1. cur[l] \in Conns
    BY Typed
  <2>2. CASE CallbackSend(l) \/ CallbackShare(l) \/ TimerFires(l)
    BY <2>2, RestStays DEF CallbackSend, CallbackShare, TimerFires, serverVars,
       loopVars, eventVars, userVars, historyVars
  <2>3. CASE CallbackShutdown(l)
    BY <2>1, <2>3 DEF CallbackShutdown, RestTypes, serverVars, peerVars, loopVars,
       eventVars, userVars
  <2>4. CASE CallbackForceClose(l)
    <3>1. calls < MaxCalls /\ calls' = calls + 1
      BY <2>4 DEF CallbackForceClose
    <3>2. calls' \in 0 .. MaxCalls
      BY <3>1, OneMoreCall
    <3> QED
      BY <2>1, <2>4, <3>2 DEF CallbackForceClose, RestTypes, serverVars, peerVars, eventVars
  <2> QED
    BY <1>7, <2>2, <2>3, <2>4 DEF CallbackStep
<1>8. ASSUME NEW u \in Users, UserStep(u)
      PROVE  RestTypes'
  <2>1. ASSUME NEW op \in ThreadOps, NEW c \in Conns, UserChecks(u, op, c)
        PROVE  RestTypes'
    <3> DEFINE x == <<op, c, IF op = "send" THEN "set" ELSE "checked">>
    <3>1. /\ calls < MaxCalls /\ calls' = calls + 1 /\ call' = [call EXCEPT ![u] = x]
          /\ UNCHANGED <<m_delay, m_started, peerVars, revents, asked, failed>>
      BY <2>1 DEF UserChecks, serverVars, loopVars, eventVars, historyVars
    <3>2. /\ x \in ThreadOps \X Conns \X {"checked", "set"}
          /\ x[3] = "checked" => x[1] # "send"
      OBVIOUS
    <3> HIDE DEF x
    <3>3. calls' \in 0 .. MaxCalls
      BY <3>1, OneMoreCall
    <3> QED
      BY <3>1, <3>2, <3>3 DEF RestTypes, peerVars
  <2>2. CASE UserSets(u)
    <3> DEFINE x == <<call[u][1], call[u][2], "set">>
    <3>1. /\ call[u] # NoCall /\ call[u][3] = "checked"
          /\ asked' = [asked EXCEPT ![call[u][2]] = @ \cup {call[u][1]}]
          /\ call' = [call EXCEPT ![u] = x]
          /\ UNCHANGED <<m_delay, m_started, peerVars, revents, calls, failed>>
      BY <2>2 DEF UserSets, serverVars, loopVars, eventVars
    <3>2. /\ call[u] \in ThreadOps \X Conns \X {"checked", "set"}
          /\ call[u][1] # "send"
      BY <3>1 DEF RestTypes
    <3>3. /\ x \in ThreadOps \X Conns \X {"checked", "set"} /\ x[3] = "set"
          /\ call[u][1] \in {"shutdown", "forceClose"}
      BY <3>2, ServerAssumption DEF Ops
    <3> HIDE DEF x
    <3>4. asked' \in [Conns -> SUBSET {"shutdown", "forceClose"}]
      BY <3>1, <3>3 DEF RestTypes
    <3>5. call' \in [Users -> {NoCall} \cup (ThreadOps \X Conns \X {"checked", "set"})]
      BY <3>1, <3>3 DEF RestTypes
    <3>6. ASSUME NEW v \in Users, call'[v] # NoCall, call'[v][3] = "checked"
          PROVE  call'[v][1] # "send"
      BY <3>1, <3>3, <3>6 DEF RestTypes
    <3> QED
      BY <3>1, <3>4, <3>5, <3>6 DEF RestTypes, peerVars
  <2>3. CASE UserQueues(u)
    BY <2>3 DEF UserQueues, RestTypes, serverVars, peerVars, eventVars, historyVars
  <2> QED
    BY <1>8, <2>1, <2>2, <2>3 DEF UserStep
<1>9. ASSUME NEW c \in Conns, UserDrops(c) \/ PeerStep(c)
      PROVE  RestTypes'
  BY <1>9 DEF UserDrops, PeerStep, PeerSends, PeerReads, PeerCloses, PeerResets, RestTypes,
     serverVars, peerVars, loopVars, eventVars, userVars, historyVars
<1> QED
  BY <1>1, <1>2, <1>6, <1>7, <1>8, <1>9 DEF Next

(* Every variable of the server keeps its type, the connection callbacks   *)
(* of each connection counted: connectEstablished runs once for it, and    *)
(* connectDestroyed finds it kConnected at most once.                      *)
THEOREM TypeCorrect == Spec => []TypeOK
<1>1. PoolTheorems!Spec => []PoolTheorems!TypeOK
  BY PoolTheorems!TypeCorrect, ServerAssumption DEF PoolTheorems!PoolAssumption
<1>2. RestTypes /\ Reach /\ PoolTheorems!TypeOK => TypeOK
  <2> SUFFICES ASSUME RestTypes, Reach, PoolTheorems!TypeOK PROVE TypeOK
    OBVIOUS
  <2>1. m_loopInfo \in [IoLoops -> Int \X IoLoops] /\ m_connectionCount \subseteq Int \X IoLoops
    BY DEF PoolTheorems!TypeOK, PoolTheorems!Loops, IoLoops
  <2>2. DataTypes /\ m_connId \in 0 .. NumConns
    BY DEF Reach, StreamInv, DataInv, MapInv
  <2>3. ups \in [Conns -> 0 .. 1] /\ downs \in [Conns -> 0 .. 1]
    <3>1. ups \in [Conns -> Nat] /\ downs \in [Conns -> Nat]
      BY Typed DEF FlowTypes
    <3>2. \A c \in Conns : ups[c] \in 0 .. 1 /\ downs[c] \in 0 .. 1
      BY DEF Reach, FlowInv, ConnOK
    <3> QED
      BY <3>1, <3>2
  <2>4. pend \in [AllLoops -> Seq(Functors \X Conns)] /\ batch \in [AllLoops -> Seq(Functors \X Conns)]
    BY Typed DEF Entry
  <2> QED
    BY <2>1, <2>2, <2>3, <2>4, Typed DEF TypeOK, RestTypes, DataTypes, FlowTypes, States, Places
<1> QED
  BY <1>1, <1>2, RestInit, RestStep, Reached, ServerRunsPool, PTL DEF Spec

-----------------------------------------------------------------------------
(* What becomes of the channels that are registered.                       *)

LEMMA Named ==
    \A c \in Conns, op \in Functors :
       /\ <<op, c>> \in Entry
       /\ \E f \in Entry : f = <<op, c>> /\ f[1] = op /\ f[2] = c
<1>1. ASSUME NEW c \in Conns, NEW op \in Functors
      PROVE  \E f \in Entry : f = <<op, c>> /\ f[1] = op /\ f[2] = c
  BY Kinds
<1> QED
  BY <1>1

LEMMA Names ==
    /\ \A c \in Conns :
          /\ Est(c) \in Entry /\ Est(c)[1] = "connectEstablished" /\ Est(c)[2] = c
          /\ Snd(c) \in Entry /\ Snd(c)[1] = "sendInLoop" /\ Snd(c)[2] = c
          /\ Ds(c) \in Entry /\ Ds(c)[1] = "connectDestroyed" /\ Ds(c)[2] = c
          /\ Rm(c) \in Entry /\ Rm(c)[1] = "removeConnectionInLoop" /\ Rm(c)[2] = c
    /\ \A f \in Entry :
          /\ f[1] = "connectEstablished" => f = Est(f[2])
          /\ f[1] = "sendInLoop" => f = Snd(f[2])
          /\ f[1] = "connectDestroyed" => f = Ds(f[2])
          /\ f[1] = "removeConnectionInLoop" => f = Rm(f[2])
<1>1. \A c \in Conns :
         /\ Est(c) \in Entry /\ Est(c)[1] = "connectEstablished" /\ Est(c)[2] = c
         /\ Snd(c) \in Entry /\ Snd(c)[1] = "sendInLoop" /\ Snd(c)[2] = c
  BY Named DEF Est, Snd, Functors
<1>2. \A c \in Conns :
         /\ Ds(c) \in Entry /\ Ds(c)[1] = "connectDestroyed" /\ Ds(c)[2] = c
         /\ Rm(c) \in Entry /\ Rm(c)[1] = "removeConnectionInLoop" /\ Rm(c)[2] = c
  BY Named DEF Ds, Rm, Functors
<1>3. ASSUME NEW f \in Entry
      PROVE  /\ f[1] = "connectEstablished" => f = Est(f[2])
             /\ f[1] = "sendInLoop" => f = Snd(f[2])
             /\ f[1] = "connectDestroyed" => f = Ds(f[2])
             /\ f[1] = "removeConnectionInLoop" => f = Rm(f[2])
  <2>1. f = <<f[1], f[2]>>
    BY Kinds
  <2> QED
    BY <2>1 DEF Est, Snd, Ds, Rm
<1> QED
  BY <1>1, <1>2, <1>3

(* What the queues hold after a functor has run, and pushed another or not. *)
LEMMA RanKeeps ==
    ASSUME Reach, NEW l \in AllLoops, NEW op, NEW c \in Conns, Running(l, op, c), Pop(l)
    PROVE  /\ pend' = pend =>
                 \A k \in AllLoops, f \in Entry :
                    k # l \/ f # <<op, c>> => (Queued(k, f)' <=> Queued(k, f))
           /\ \A m \in AllLoops, g \in Entry :
                 Pushes(m, g) =>
                    \A k \in AllLoops, f \in Entry :
                       k # l \/ f # <<op, c>> =>
                          (Queued(k, f)' <=> Queued(k, f) \/ (k = m /\ f = g))
           /\ \A m \in AllLoops, g \in Entry : Pushes(m, g) => Queued(m, g)'
<1>1. \A k \in AllLoops, f \in Entry :
         k # l \/ f # <<op, c>> => (In(batch'[k], f) <=> In(batch[k], f))
  BY Ran
<1> QED
  BY <1>1, PendPushed DEF Queued

Leaving(c) == Queued(loop[c], Ds(c)) \/ Queued(Base, Rm(c))

RegInv ==
    /\ \A c \in channels : c \in m_connections \/ Leaving(c)
    /\ \A l \in AllLoops, c \in Conns : ~Queued(l, Snd(c))

LEMMA RegKept ==
    ASSUME Reach, RegInv, loop' = loop, m_connections' = m_connections,
           channels' \subseteq channels \cup m_connections,
           \A l \in AllLoops, c \in channels' : Queued(l, Ds(c)) => Queued(l, Ds(c))',
           \A c \in channels' : Queued(Base, Rm(c)) => Queued(Base, Rm(c))',
           \A l \in AllLoops, c \in Conns : Queued(l, Snd(c))' => Queued(l, Snd(c))
    PROVE  RegInv'
<1>1. \A c \in Conns : loop[c] \in AllLoops
  BY Typed
<1>2. channels \subseteq Conns
  BY Typed DEF FlowTypes
<1>3. ASSUME NEW c \in channels'
      PROVE  c \in m_connections' \/ Leaving(c)'
  <2>1. CASE c \in m_connections
    BY <2>1
  <2>2. CASE c \in channels /\ c \notin m_connections
    BY <1>1, <1>2, <1>3, <2>2 DEF RegInv, Leaving
  <2> QED
    BY <1>3, <2>1, <2>2
<1> QED
  BY <1>3 DEF RegInv

LEMMA RegQuiet ==
    ASSUME Reach, RegInv, UNCHANGED <<loop, m_connections, pend, batch>>,
           channels' \subseteq channels
    PROVE  RegInv'
BY RegKept DEF Queued

LEMMA RegFails == ASSUME Reach, RegInv, NEW why, Fail(why) PROVE RegInv'
BY RegQuiet DEF Fail, serverVars, chanVars, loopVars, queueVars

LEMMA RegPushes ==
    ASSUME Reach, RegInv, NEW k \in AllLoops, NEW g \in Entry, Pushes(k, g),
           g[1] # "sendInLoop", UNCHANGED <<loop, m_connections, batch, channels>>
    PROVE  RegInv'
<1>1. \A l \in AllLoops, f \in Entry : Queued(l, f)' <=> Queued(l, f) \/ (l = k /\ f = g)
  BY Pushed
<1>2. channels \subseteq Conns
  BY Typed DEF FlowTypes
<1> QED
  BY <1>1, <1>2, Names, Kinds, RegKept

LEMMA RegLeaves ==
    ASSUME Reach, RegInv, NEW c \in Conns, Leaves(c), ups[c] > 0, UNCHANGED <<loop, ups>>,
           channels' \subseteq channels \cup {c},
           \A k \in AllLoops, g \in Entry : Pushes(k, g) => Queued(k, g)',
           \A k \in AllLoops, f \in Entry : Queued(k, f) /\ f[2] # c => Queued(k, f)',
           \A k \in AllLoops, d \in Conns : Queued(k, Snd(d))' => Queued(k, Snd(d))
    PROVE  RegInv'
<1>1. PICK k \in AllLoops, g \in Entry :
         /\ Pushes(k, g)
         /\ (k = Base /\ g = Rm(c)) \/ (k = loop[c] /\ g = Ds(c))
  BY LeavesPushes
<1>2. Leaving(c)'
  BY <1>1 DEF Leaving
<1>3. ASSUME NEW d \in channels', d # c
      PROVE  d \in m_connections' \/ Leaving(d)'
  <2>1. d \in channels /\ d \in Conns /\ loop[d] \in AllLoops
    BY <1>3, Typed DEF FlowTypes
  <2>2. CASE d \in m_connections
    BY <1>3, <2>2 DEF Leaves
  <2>3. CASE Leaving(d)
    BY <1>3, <2>1, <2>3, Names, Kinds DEF Leaving
  <2> QED
    BY <2>1, <2>2, <2>3 DEF RegInv
<1> QED
  BY <1>2, <1>3 DEF RegInv

LEMMA RegLoopStep ==
    ASSUME Reach, RegInv, NEW l \in AllLoops, LoopStep(l)
    PROVE  RegInv'
<1>1. CASE HandleFreed(l) \/ HandleReset(l)
  BY <1>1, RegFails DEF HandleFreed, HandleReset
<1>2. CASE Poll(l) \/ HandleData(l) \/ EndBatch(l) \/ EndOnConnection(l) \/ EndOnMessage(l)
  BY <1>2, RegQuiet DEF Poll, HandleData, EndBatch, EndOnConnection, EndOnMessage,
     serverVars, chanVars, queueVars
<1>3. CASE HandleEnd(l)
  <2>1. PICK c \in Conns :
           /\ Handling(l, c)
           /\ IF CloseFailure(c) # ""
              THEN Fail(CloseFailure(c))
              ELSE HandleClose(c) /\ UNCHANGED <<batch, historyVars>>
    BY <1>3 DEF HandleEnd
  <2>2. CASE CloseFailure(c) # ""
    BY <2>1, <2>2, RegFails
  <2>3. CASE CloseFailure(c) = ""
    <3>1. Leaves(c) /\ SetEvents(c, {}) /\ Closable(c) /\ UNCHANGED <<loop, ups, batch>>
      BY <2>1, <2>3, HandleCloseLeaves DEF historyVars
    <3>2. ups[c] > 0
      BY <3>1, Established
    <3>3. PICK k \in AllLoops, g \in Entry :
             /\ Pushes(k, g)
             /\ g = Rm(c) \/ g = Ds(c)
      BY <3>1, <3>2, LeavesPushes
    <3>4. \A m \in AllLoops, f \in Entry : Queued(m, f)' <=> Queued(m, f) \/ (m = k /\ f = g)
      BY <3>1, <3>3, Pushed
    <3>5. \A m \in AllLoops, f \in Entry : Pushes(m, f) => Queued(m, f)'
      BY <3>1, Pushed
    <3>6. \A m \in AllLoops, d \in Conns : Queued(m, Snd(d))' => Queued(m, Snd(d))
      BY <3>3, <3>4, Names
    <3> QED
      BY <3>1, <3>2, <3>4, <3>5, <3>6, RegLeaves DEF SetEvents
  <2> QED
    BY <2>2, <2>3
<1>4. CASE HandleWrite(l)
  <2>1. PICK c \in Conns :
           /\ (at[l] = "write" /\ cur[l] = c) \/ Handling(l, c)
           /\ SetEvents(c, events[c] \ {"OUT"}) \/ UNCHANGED chanVars
    BY <1>4 DEF HandleWrite
  <2>2. UNCHANGED <<m_connections, loop, pend, batch>>
    BY <1>4 DEF HandleWrite, serverVars, queueVars
  <2>3. c \in channels
    BY <2>1 DEF Reach, FlowInv, LoopOK, InHandler, Handling
  <2> QED
    BY <2>1, <2>2, <2>3, RegQuiet DEF SetEvents, chanVars
<1>5. CASE EndEvents(l)
  <2>1. /\ pend' = [pend EXCEPT ![l] = <<>>] /\ batch' = [batch EXCEPT ![l] = pend[l]]
        /\ at[l] = "events" /\ UNCHANGED <<loop, m_connections, channels>>
    BY <1>5 DEF EndEvents, serverVars, chanVars
  <2>2. batch[l] = <<>>
    BY <2>1 DEF Reach, FlowInv, LoopOK, RunsBatch
  <2>3. \A k \in AllLoops, f \in Entry : Queued(k, f)' <=> Queued(k, f)
    BY <2>1, <2>2, Swapped
  <2>4. channels \subseteq Conns
    BY Typed DEF FlowTypes
  <2> QED
    BY <2>1, <2>3, <2>4, Names, Kinds, RegKept
<1>6. CASE RunEstablished(l)
  <2>1. PICK c \in Conns :
           /\ Running(l, "connectEstablished", c) /\ Pop(l)
           /\ SetEvents(c, events[c] \cup {"IN"})
           /\ UNCHANGED <<loop, m_connections, pend>>
    BY <1>6 DEF RunEstablished, ConnectEstablished, serverVars
  <2>2. Placed(l, Est(c))
    BY <2>1, Ran DEF Est
  <2>3. c \in m_connections
    BY <2>2, Names DEF Placed
  <2>4. \A k \in AllLoops, f \in Entry :
           k # l \/ f # Est(c) => (Queued(k, f)' <=> Queued(k, f))
    BY <2>1, RanKeeps DEF Est
  <2>5. channels' = channels \cup {c} /\ channels' \subseteq Conns
    BY <2>1, Typed DEF SetEvents, FlowTypes
  <2>6. \A k \in AllLoops, d \in Conns :
           /\ Queued(k, Ds(d)) => Queued(k, Ds(d))'
           /\ Queued(k, Rm(d)) => Queued(k, Rm(d))'
           /\ Queued(k, Snd(d))' => Queued(k, Snd(d))
    BY <2>4, Names
  <2> QED
    BY <2>1, <2>3, <2>5, <2>6, Kinds, RegKept
<1>7. CASE RunDestroyed(l)
  <2>1. PICK c \in Conns :
           \/ \E why : Fail(why)
           \/ /\ Running(l, "connectDestroyed", c) /\ Pop(l)
              /\ channels' = channels \ {c}
              /\ UNCHANGED <<loop, m_connections, pend>>
    BY <1>7 DEF RunDestroyed, RemoveChannel, serverVars
  <2>2. CASE \E why : Fail(why)
    BY <2>2, RegFails
  <2>3. CASE ~\E why : Fail(why)
    <3>1. \A k \in AllLoops, f \in Entry :
             k # l \/ f # Ds(c) => (Queued(k, f)' <=> Queued(k, f))
      BY <2>1, <2>3, RanKeeps DEF Ds
    <3>2. \A k \in AllLoops, d \in Conns :
             /\ Queued(k, Ds(d)) /\ d # c => Queued(k, Ds(d))'
             /\ Queued(k, Rm(d)) => Queued(k, Rm(d))'
             /\ Queued(k, Snd(d))' => Queued(k, Snd(d))
      BY <3>1, Names
    <3>3. channels \subseteq Conns
      BY Typed DEF FlowTypes
    <3> QED
      BY <2>1, <2>3, <3>2, <3>3, Kinds, RegKept
  <2> QED
    BY <2>2, <2>3
<1>8. CASE RunSend(l)
  <2>1. PICK c \in Conns : Running(l, "sendInLoop", c) /\ Pop(l)
    BY <1>8 DEF RunSend
  <2>2. Queued(l, Snd(c))
    BY <2>1, Ran DEF Snd
  <2> QED
    BY <2>2 DEF RegInv
<1>9. CASE RunShutdown(l)
  <2>1. PICK c \in Conns :
           /\ Running(l, "shutdownInLoop", c) /\ Pop(l)
           /\ UNCHANGED <<loop, m_connections, pend, channels>>
    BY <1>9 DEF RunShutdown, serverVars, chanVars
  <2>2. PICK f \in Entry : f = <<"shutdownInLoop", c>> /\ f[1] = "shutdownInLoop"
    <3>1. "shutdownInLoop" \in Functors
      BY DEF Functors
    <3> QED
      BY <3>1, Named
  <2>3. \A k \in AllLoops, g \in Entry : k # l \/ g # f => (Queued(k, g)' <=> Queued(k, g))
    BY <2>1, <2>2, RanKeeps
  <2>4. channels \subseteq Conns
    BY Typed DEF FlowTypes
  <2> QED
    BY <2>1, <2>2, <2>3, <2>4, Names, Kinds, RegKept
<1>10. CASE RunForceClose(l)
  <2>1. PICK c \in Conns :
           /\ Running(l, "forceCloseInLoop", c)
           /\ IF Closable(c) /\ CloseFailure(c) # ""
              THEN Fail(CloseFailure(c))
              ELSE /\ IF Closable(c) THEN HandleClose(c)
                                     ELSE UNCHANGED <<serverVars, chanVars, pend>>
                   /\ Pop(l)
                   /\ UNCHANGED historyVars
    BY <1>10 DEF RunForceClose
  <2>2. PICK h \in Entry : h = <<"forceCloseInLoop", c>> /\ h[1] = "forceCloseInLoop" /\ h[2] = c
    <3>1. "forceCloseInLoop" \in Functors
      BY DEF Functors
    <3> QED
      BY <3>1, Named
  <2>3. CASE Closable(c) /\ CloseFailure(c) # ""
    BY <2>1, <2>3, RegFails
  <2>4. CASE Closable(c) /\ CloseFailure(c) = ""
    <3>1. Leaves(c) /\ SetEvents(c, {}) /\ Pop(l) /\ UNCHANGED <<loop, ups>>
      BY <2>1, <2>4, HandleCloseLeaves DEF historyVars
    <3>2. ups[c] > 0
      BY <2>4, Established
    <3>3. PICK k \in AllLoops, g \in Entry :
             /\ Pushes(k, g)
             /\ g = Rm(c) \/ g = Ds(c)
      BY <3>1, <3>2, LeavesPushes
    <3>4. \A m \in AllLoops, f \in Entry :
             m # l \/ f # h => (Queued(m, f)' <=> Queued(m, f) \/ (m = k /\ f = g))
      <4>1. Running(l, "forceCloseInLoop", c) /\ Pop(l) /\ Pushes(k, g)
        BY <2>1, <3>1, <3>3
      <4> QED
        BY <2>2, <4>1, RanKeeps
    <3>5. \A m \in AllLoops, f \in Entry : Pushes(m, f) => Queued(m, f)'
      BY <2>1, <3>1, RanKeeps
    <3>6. \A m \in AllLoops, d \in Conns : Queued(m, Snd(d))' => Queued(m, Snd(d))
      BY <2>2, <3>3, <3>4, Names
    <3>7. \A m \in AllLoops, f \in Entry : Queued(m, f) /\ f[2] # c => Queued(m, f)'
      BY <2>2, <3>4
    <3> QED
      BY <3>1, <3>2, <3>5, <3>6, <3>7, RegLeaves DEF SetEvents
  <2>5. CASE ~Closable(c)
    <3>1. Pop(l) /\ UNCHANGED <<loop, m_connections, pend, channels>>
      BY <2>1, <2>5 DEF serverVars, chanVars
    <3>2. \A k \in AllLoops, g \in Entry : k # l \/ g # h => (Queued(k, g)' <=> Queued(k, g))
      BY <2>1, <2>2, <3>1, RanKeeps
    <3>3. channels \subseteq Conns
      BY Typed DEF FlowTypes
    <3> QED
      BY <2>2, <3>1, <3>2, <3>3, Names, Kinds, RegKept
  <2> QED
    BY <2>3, <2>4, <2>5
<1>11. CASE RunRemove(l)
  <2>1. PICK c \in Conns :
           IF c \notin m_connections
           THEN Fail("n == 1")
           ELSE /\ Running(l, "removeConnectionInLoop", c)
                /\ RemoveConnectionInLoop(c) /\ Pop(l)
                /\ UNCHANGED <<chanVars, historyVars>>
    BY <1>11 DEF RunRemove
  <2>2. CASE c \notin m_connections
    BY <2>1, <2>2, RegFails
  <2>3. CASE c \in m_connections
    <3>1. Leaves(c) /\ Pushes(loop[c], Ds(c)) /\ UNCHANGED <<loop, ups, channels>>
      BY <2>1, <2>3 DEF RemoveConnectionInLoop, Leaves, Pushes, Ds, chanVars, historyVars
    <3>2. Placed(l, Rm(c))
      BY <2>1, <2>3, Ran DEF Rm
    <3>3. ups[c] > 0 /\ loop[c] \in AllLoops
      BY <3>2, Names, Typed DEF Placed
    <3>4. \A m \in AllLoops, f \in Entry :
             m # l \/ f # Rm(c) => (Queued(m, f)' <=> Queued(m, f) \/ (m = loop[c] /\ f = Ds(c)))
      <4>1. PICK k \in AllLoops, g \in Entry : k = loop[c] /\ g = Ds(c)
        BY <3>3, Names
      <4>2. Pushes(k, g)
        BY <3>1, <4>1
      <4>3. \A m \in AllLoops, f \in Entry :
               m # l \/ f # Rm(c) => (Queued(m, f)' <=> Queued(m, f) \/ (m = k /\ f = g))
        BY <2>1, <2>3, <4>2, RanKeeps DEF Rm
      <4> QED
        BY <4>1, <4>3
    <3>5. \A m \in AllLoops, f \in Entry : Pushes(m, f) => Queued(m, f)'
      BY <2>1, <2>3, RanKeeps
    <3>6. \A m \in AllLoops, d \in Conns : Queued(m, Snd(d))' => Queued(m, Snd(d))
      BY <3>4, Names
    <3>7. \A m \in AllLoops, f \in Entry : Queued(m, f) /\ f[2] # c => Queued(m, f)'
      BY <3>4, Names
    <3> QED
      BY <3>1, <3>3, <3>5, <3>6, <3>7, RegLeaves
  <2> QED
    BY <2>2, <2>3
<1> QED
  BY <1>1, <1>2, <1>3, <1>4, <1>5, <1>6, <1>7, <1>8, <1>9, <1>10, <1>11 DEF LoopStep

LEMMA RegNewConnection ==
    ASSUME Reach, RegInv, NewConnection
    PROVE  RegInv'
<1>1. PICK c \in Conns : c = m_connId + 1 /\ m_connId' = c
  BY Typed, ServerAssumption DEF NewConnection, Conns
<1>2. PICK l \in AllLoops :
         /\ loop' = [loop EXCEPT ![c] = l]
         /\ IF l = Base THEN ConnectEstablished(l, c) /\ UNCHANGED pend
                        ELSE QueueEstablished(l, c)
  BY <1>1 DEF NewConnection
<1>3. m_connections' = m_connections \cup {c} /\ batch' = batch
  BY <1>1 DEF NewConnection
<1>4. \A d \in Conns \ {c} : loop'[d] = loop[d]
  BY <1>2, Typed
<1>5. channels' \subseteq channels \cup {c}
  BY <1>2 DEF ConnectEstablished, QueueEstablished, SetEvents, chanVars
<1>6. \A k \in AllLoops, f \in Entry :
         /\ Queued(k, f) => Queued(k, f)'
         /\ Queued(k, f)' => Queued(k, f) \/ f = Est(c)
  <2>1. CASE l = Base
    BY <1>2, <1>3, <2>1 DEF Queued
  <2>2. CASE l # Base
    <3>1. PICK g \in Entry : g = Est(c)
      BY Names
    <3>2. Pushes(l, g)
      BY <1>2, <2>2, <3>1 DEF QueueEstablished, Pushes, Est
    <3> QED
      BY <1>3, <3>1, <3>2, Pushed
  <2> QED
    BY <2>1, <2>2
<1>7. ASSUME NEW d \in channels', d # c
      PROVE  d \in m_connections' \/ Leaving(d)'
  <2>1. d \in channels /\ d \in Conns /\ loop[d] \in AllLoops /\ loop'[d] = loop[d]
    BY <1>4, <1>5, <1>7, Typed DEF FlowTypes
  <2> QED
    BY <1>3, <1>6, <2>1, Names, Kinds DEF RegInv, Leaving
<1>8. \A k \in AllLoops, d \in Conns : Queued(k, Snd(d))' => Queued(k, Snd(d))
  BY <1>6, Names
<1> QED
  BY <1>3, <1>7, <1>8 DEF RegInv

LEMMA RegStep ==
    ASSUME "send" \notin ThreadOps, Reach, RestTypes, RegInv, [Next]_vars
    PROVE  RegInv'
<1>1. CASE Start \/ UNCHANGED vars
  BY <1>1, RegQuiet DEF Start, vars, serverVars, chanVars, loopVars, queueVars
<1>2. CASE NewConnection
  BY <1>2, RegNewConnection
<1>3. ASSUME NEW l \in AllLoops, LoopStep(l)
      PROVE  RegInv'
  BY <1>3, RegLoopStep
<1>4. ASSUME NEW l \in AllLoops, CallbackStep(l) \/ TimerFires(l)
      PROVE  RegInv'
  <2>1. CASE CallbackSend(l)
    <3>1. cur[l] \in channels
      BY <2>1 DEF CallbackSend, InCallback, Reach, FlowInv, LoopOK, InHandler
    <3>2. UNCHANGED <<loop, m_connections, pend, batch>> /\ channels' \subseteq channels
      BY <2>1, <3>1 DEF CallbackSend, SendInLoop, SetEvents, chanVars, serverVars,
         loopVars, queueVars
    <3> QED
      BY <3>2, RegQuiet
  <2>2. CASE CallbackShutdown(l) \/ CallbackShare(l)
    BY <2>2, RegQuiet DEF CallbackShutdown, CallbackShare, serverVars, chanVars,
       loopVars, queueVars
  <2>3. CASE CallbackForceClose(l)
    <3>1. PICK g \in Entry : g = <<"forceCloseInLoop", cur[l]>> /\ g[1] = "forceCloseInLoop"
      <4>1. "forceCloseInLoop" \in Functors /\ cur[l] \in Conns
        BY Typed DEF Functors
      <4> QED
        BY <4>1, Named
    <3>2. Pushes(l, g) /\ UNCHANGED <<loop, m_connections, batch, channels>>
      BY <2>3, <3>1 DEF CallbackForceClose, Pushes, serverVars, chanVars
    <3> QED
      BY <3>1, <3>2, RegPushes
  <2>4. CASE TimerFires(l)
    <3>1. PICK c \in Conns :
             pend' = [pend EXCEPT ![l] = Append(@, <<"forceCloseInLoop", c>>)] \/ pend' = pend
      BY <2>4 DEF TimerFires
    <3>2. UNCHANGED <<loop, m_connections, batch, channels>>
      BY <2>4 DEF TimerFires, serverVars, chanVars
    <3>3. PICK g \in Entry : g = <<"forceCloseInLoop", c>> /\ g[1] = "forceCloseInLoop"
      <4>1. "forceCloseInLoop" \in Functors
        BY DEF Functors
      <4> QED
        BY <4>1, Named
    <3>4. Pushes(l, g) \/ pend' = pend
      BY <3>1, <3>3 DEF Pushes
    <3> QED
      BY <3>2, <3>3, <3>4, RegPushes, RegQuiet
  <2> QED
    BY <1>4, <2>1, <2>2, <2>3, <2>4 DEF CallbackStep
<1>5. ASSUME NEW u \in Users, UserStep(u)
      PROVE  RegInv'
  <2>1. CASE UserQueues(u)
    <3>1. /\ call[u] # NoCall
          /\ Pushes(loop[call[u][2]], <<Functor(call[u][1]), call[u][2]>>)
          /\ UNCHANGED <<loop, m_connections, batch, channels>>
      BY <2>1 DEF UserQueues, Pushes, serverVars, chanVars
    <3>2. call[u][1] \in ThreadOps /\ call[u][2] \in Conns
      BY <3>1 DEF RestTypes
    <3>3. Functor(call[u][1]) \in {"shutdownInLoop", "forceCloseInLoop"}
      BY <3>2, ServerAssumption DEF Ops, Functor
    <3>4. PICK g \in Entry :
             g = <<Functor(call[u][1]), call[u][2]>> /\ g[1] = Functor(call[u][1])
      <4>1. Functor(call[u][1]) \in Functors
        BY <3>3 DEF Functors
      <4> QED
        BY <3>2, <4>1, Named
    <3>5. PICK k \in AllLoops : k = loop[call[u][2]]
      BY <3>2, Typed
    <3>6. Pushes(k, g) /\ g[1] # "sendInLoop"
      BY <3>1, <3>3, <3>4, <3>5
    <3> QED
      BY <3>1, <3>6, RegPushes
  <2>2. CASE UserSets(u) \/ \E op \in ThreadOps, c \in Conns : UserChecks(u, op, c)
    BY <2>2, RegQuiet DEF UserSets, UserChecks, serverVars, chanVars, loopVars, queueVars
  <2> QED
    BY <1>5, <2>1, <2>2 DEF UserStep
<1>6. ASSUME NEW c \in Conns, UserDrops(c) \/ PeerStep(c)
      PROVE  RegInv'
  BY <1>6, RegQuiet DEF UserDrops, PeerStep, PeerSends, PeerReads, PeerCloses, PeerResets,
     serverVars, chanVars, loopVars, queueVars
<1> QED
  BY <1>1, <1>2, <1>3, <1>4, <1>5, <1>6 DEF Next

LEMMA QueuedKeeps ==
    ASSUME Reach, NEW l \in AllLoops, NEW f \in Entry, Queued(l, f)
    PROVE  Kept(f[2])
<1>1. CASE In(pend[l], f)
  BY <1>1 DEF In, InQueue, Kept
<1>2. CASE In(batch[l], f)
  BY <1>2 DEF Reach, FlowInv, LoopOK, Kept
<1> QED
  BY <1>1, <1>2 DEF Queued

LEMMA RestHolds == Spec => []RestTypes
<1>1. RestTypes /\ Reach /\ [Next]_vars => RestTypes'
  BY RestStep
<1> QED
  BY <1>1, RestInit, Reached, PTL DEF Spec

(* Channel::update puts a channel into Poller::m_channels and only         *)
(* removeChannel, in connectDestroyed, takes it out: while application     *)
(* threads do not send, each channel there is that of a connection which   *)
(* the server holds or has a functor queued for.                           *)
THEOREM RegisteredChannelsLive ==
    ASSUME "send" \notin ThreadOps
    PROVE  Spec => []RegisteredAlive
<1>1. Init => RegInv
  <2> SUFFICES ASSUME Init PROVE RegInv
    OBVIOUS
  <2>1. channels = {} /\ pend = [l \in AllLoops |-> <<>>] /\ batch = [l \in AllLoops |-> <<>>]
    BY DEF Init
  <2> QED
    BY <2>1 DEF RegInv, Queued, In
<1>2. Reach /\ RestTypes /\ RegInv /\ [Next]_vars => RegInv'
  BY RegStep
<1>3. Reach /\ RegInv => RegisteredAlive
  <2> SUFFICES ASSUME Reach, RegInv, NEW c \in channels PROVE c \in Conns /\ Alive(c)
    BY DEF RegisteredAlive
  <2>1. c \in Conns /\ loop[c] \in AllLoops
    BY Typed DEF FlowTypes
  <2>2. c \in m_connections \/ Leaving(c)
    BY DEF RegInv
  <2>3. Leaving(c) => Kept(c)
    BY <2>1, Names, Kinds, QueuedKeeps DEF Leaving
  <2> QED
    BY <2>1, <2>2, <2>3 DEF Alive, Kept
<1> QED
  BY <1>1, <1>2, <1>3, Reached, RestHolds, PTL DEF Spec

-----------------------------------------------------------------------------
(* A functor is queued once.                                               *)

Once(l, f) ==
    OnceIn(pend[l], f) /\ OnceIn(batch[l], f) /\ ~(In(pend[l], f) /\ In(batch[l], f))

(* What a step does not do to a functor.                                   *)
Same(l, f) == (Queued(l, f)' <=> Queued(l, f)) /\ (Once(l, f) => Once(l, f)')

LEMMA OncePending ==
    ASSUME Reach, NEW k \in AllLoops, NEW g \in Entry, Pushes(k, g),
           NEW l \in AllLoops, NEW f \in Entry
    PROVE  /\ OnceIn(pend[l], f) /\ ~(l = k /\ f = g /\ In(pend[l], f)) => OnceIn(pend'[l], f)
           /\ In(pend'[l], f) <=> In(pend[l], f) \/ (l = k /\ f = g)
           /\ ~In(pend[l], f) => OnceIn(pend[l], f)
<1>1. pend[k] \in Seq(Entry) /\ pend \in [AllLoops -> Seq(Entry)]
  BY Typed
<1>2. CASE l = k
  <2>1. pend'[l] = Append(pend[k], g)
    BY <1>1, <1>2 DEF Pushes
  <2>2. OnceIn(pend[k], f) /\ ~(g = f /\ In(pend[k], f)) => OnceIn(Append(pend[k], g), f)
    BY <1>1, Appended
  <2>3. ~In(pend[l], f) => OnceIn(pend[l], f)
    BY DEF In, OnceIn
  <2> QED
    BY <1>2, <2>1, <2>2, <2>3, PendPushed
<1>3. CASE l # k
  <2>1. pend'[l] = pend[l]
    BY <1>1, <1>3 DEF Pushes
  <2>2. ~In(pend[l], f) => OnceIn(pend[l], f)
    BY DEF In, OnceIn
  <2> QED
    BY <1>3, <2>1, <2>2
<1> QED
  BY <1>2, <1>3

LEMMA NotQueuedOnce ==
    ASSUME NEW l, NEW f, ~Queued(l, f)
    PROVE  Once(l, f)
BY DEF Queued, Once, OnceIn, In

LEMMA SamePushed ==
    ASSUME Reach, NEW k \in AllLoops, NEW g \in Entry, Pushes(k, g), batch' = batch
    PROVE  /\ \A l \in AllLoops, f \in Entry : l # k \/ f # g => Same(l, f)
           /\ ~Queued(k, g) => Once(k, g)'
           /\ Queued(k, g)'
<1>1. ASSUME NEW l \in AllLoops, NEW f \in Entry, l # k \/ f # g
      PROVE  Same(l, f)
  <2>1. Queued(l, f)' <=> Queued(l, f)
    BY <1>1, Pushed
  <2>2. /\ OnceIn(pend[l], f) => OnceIn(pend'[l], f)
        /\ In(pend'[l], f) <=> In(pend[l], f)
    BY <1>1, OncePending
  <2> QED
    BY <2>1, <2>2 DEF Same, Once
<1>2. ASSUME ~Queued(k, g)
      PROVE  Once(k, g)'
  <2>1. OnceIn(pend'[k], g)
    BY <1>2, OncePending DEF Queued
  <2>2. ~In(batch[k], g) /\ OnceIn(batch[k], g)
    BY <1>2 DEF Queued, In, OnceIn
  <2> QED
    BY <2>1, <2>2 DEF Once
<1> QED
  BY <1>1, <1>2, Pushed

LEMMA SameSwapped ==
    ASSUME Reach, NEW k \in AllLoops, batch[k] = <<>>,
           pend' = [pend EXCEPT ![k] = <<>>], batch' = [batch EXCEPT ![k] = pend[k]]
    PROVE  \A l \in AllLoops, f \in Entry : Same(l, f)
<1>1. ASSUME NEW l \in AllLoops, NEW f \in Entry
      PROVE  Once(l, f) => Once(l, f)'
  <2>1. pend \in [AllLoops -> Seq(Entry)] /\ batch \in [AllLoops -> Seq(Entry)]
    BY Typed
  <2>2. ~In(<<>>, f) /\ OnceIn(<<>>, f)
    BY DEF In, OnceIn
  <2>3. CASE l = k
    <3>1. pend'[l] = <<>> /\ batch'[l] = pend[l]
      BY <2>1, <2>3
    <3> QED
      BY <2>2, <3>1 DEF Once
  <2>4. CASE l # k
    BY <2>1, <2>4 DEF Once
  <2> QED
    BY <2>3, <2>4
<1> QED
  BY <1>1, Swapped DEF Same

(* A functor that runs is taken from the batch, and no other.              *)
LEMMA RanOnce ==
    ASSUME Reach, NEW l \in AllLoops, NEW op, NEW c \in Conns, Running(l, op, c), Pop(l)
    PROVE  /\ \A k \in AllLoops, f \in Entry : OnceIn(batch[k], f) => OnceIn(batch'[k], f)
           /\ OnceIn(batch[l], <<op, c>>) => ~In(batch'[l], <<op, c>>)
           /\ In(batch[l], <<op, c>>)
<1>1. /\ batch[l] # <<>> /\ Head(batch[l]) = <<op, c>>
      /\ batch' = [batch EXCEPT ![l] = Tail(@)]
  BY DEF Running, Pop
<1>2. batch \in [AllLoops -> Seq(Entry)] /\ batch[l] \in Seq(Entry)
  BY Typed
<1>3. batch'[l] = Tail(batch[l]) /\ \A k \in AllLoops \ {l} : batch'[k] = batch[k]
  BY <1>1, <1>2
<1>4. \A f : OnceIn(batch[l], f) => OnceIn(Tail(batch[l]), f)
  BY <1>1, <1>2, Popped
<1>5. /\ OnceIn(batch[l], <<op, c>>) => ~In(Tail(batch[l]), <<op, c>>)
      /\ In(batch[l], <<op, c>>)
  BY <1>1, <1>2, Popped
<1> QED
  BY <1>3, <1>4, <1>5

LEMMA SameRan ==
    ASSUME Reach, NEW l \in AllLoops, NEW h \in Entry,
           Running(l, h[1], h[2]), Pop(l), pend' = pend
    PROVE  /\ \A k \in AllLoops, f \in Entry : k # l \/ f # h => Same(k, f)
           /\ Once(l, h) => ~Queued(l, h)'
<1>1. h[2] \in Conns /\ h = <<h[1], h[2]>>
  BY Kinds
<1>2. /\ \A k \in AllLoops, f \in Entry : OnceIn(batch[k], f) => OnceIn(batch'[k], f)
      /\ OnceIn(batch[l], h) => ~In(batch'[l], h)
      /\ In(batch[l], h)
      /\ \A k \in AllLoops, f \in Entry : In(batch'[k], f) => In(batch[k], f)
      /\ \A k \in AllLoops, f \in Entry : k # l \/ f # h => (In(batch'[k], f) <=> In(batch[k], f))
  BY <1>1, RanOnce, Ran
<1> QED
  BY <1>2 DEF Same, Once, Queued

LEMMA SameRanPushed ==
    ASSUME Reach, NEW l \in AllLoops, NEW h \in Entry,
           Running(l, h[1], h[2]), Pop(l),
           NEW m \in AllLoops, NEW g \in Entry, Pushes(m, g), m # l \/ g # h
    PROVE  /\ \A k \in AllLoops, f \in Entry :
                 (k # l \/ f # h) /\ (k # m \/ f # g) => Same(k, f)
           /\ Once(l, h) => ~Queued(l, h)'
           /\ ~Queued(m, g) => Once(m, g)'
           /\ Queued(m, g)'
<1>1. h[2] \in Conns /\ h = <<h[1], h[2]>>
  BY Kinds
<1>2. /\ \A k \in AllLoops, f \in Entry : OnceIn(batch[k], f) => OnceIn(batch'[k], f)
      /\ OnceIn(batch[l], h) => ~In(batch'[l], h)
      /\ In(batch[l], h)
      /\ \A k \in AllLoops, f \in Entry : In(batch'[k], f) => In(batch[k], f)
      /\ \A k \in AllLoops, f \in Entry : k # l \/ f # h => (In(batch'[k], f) <=> In(batch[k], f))
  BY <1>1, RanOnce, Ran
<1>3. \A k \in AllLoops, f \in Entry :
         /\ OnceIn(pend[k], f) /\ ~(k = m /\ f = g /\ In(pend[k], f)) => OnceIn(pend'[k], f)
         /\ In(pend'[k], f) <=> In(pend[k], f) \/ (k = m /\ f = g)
         /\ ~In(pend[k], f) => OnceIn(pend[k], f)
  BY OncePending
<1>4. ~In(batch[m], g) => OnceIn(batch[m], g)
  BY DEF In, OnceIn
<1> QED
  BY <1>2, <1>3, <1>4 DEF Same, Once, Queued

-----------------------------------------------------------------------------
(* While no client resets, nothing closes a connection but the peer's FIN: *)
(* a channel is registered with epoll as long as its connection is in the  *)
(* map and nothing on its way to take it out.                              *)

Calm == ~m_delay /\ calls = 0 /\ \A c \in Conns : ~reset[c]

CalmConn(c) ==
    /\ m_timer[c] = "none"
    /\ IF index[c] = "kAdded"
       THEN "IN" \in events[c] /\ Closable(c) /\ c \in m_connections /\ ~Leaving(c)
       ELSE events[c] = {}
    /\ Queued(Base, Rm(c)) => /\ c \in m_connections /\ c \in channels
                              /\ Once(Base, Rm(c)) /\ ~Queued(loop[c], Ds(c))
    /\ Queued(loop[c], Ds(c)) => c \notin m_connections /\ c \in channels /\ Once(loop[c], Ds(c))

CalmBusy(l) ==
    /\ \A c \in active[l] : index[c] = "kAdded"
    /\ InHandler(l) => index[cur[l]] = "kAdded"

CalmQueue(l) ==
    \A f \in Entry : Queued(l, f) => f[1] \in {"connectEstablished", "connectDestroyed",
                                               "removeConnectionInLoop"}

CalmInv ==
    /\ failed = ""
    /\ \A u \in Users : call[u] = NoCall
    /\ \A c \in Conns : CalmConn(c)
    /\ \A l \in AllLoops : CalmBusy(l) /\ CalmQueue(l)

LEMMA CalmSame ==
    ASSUME Reach, NEW d \in Conns, CalmConn(d), m_timer'[d] = m_timer[d],
           index'[d] = index[d],
           "IN" \in events[d] => "IN" \in events'[d],
           index[d] # "kAdded" => events'[d] = events[d],
           Closable(d) => Closable(d)',
           d \in m_connections' <=> d \in m_connections,
           d \in channels => d \in channels',
           loop'[d] = loop[d],
           \A k \in AllLoops : Same(k, Ds(d)) /\ Same(k, Rm(d))
    PROVE  CalmConn(d)'
<1>1. loop[d] \in AllLoops /\ Base \in AllLoops
  BY Typed, Kinds
<1>2. Leaving(d)' => Leaving(d)
  BY <1>1 DEF Same, Leaving
<1> QED
  BY <1>1, <1>2 DEF CalmConn, Same

LEMMA SameStays ==
    ASSUME UNCHANGED <<pend, batch>>
    PROVE  \A l, f : Same(l, f)
BY DEF Same, Queued, Once

LEMMA CalmQuiet ==
    ASSUME Reach, CalmInv,
           UNCHANGED <<failed, call, m_timer, chanVars, m_connections, loop, pend, batch,
                       active, cur>>,
           \A l \in AllLoops : InHandler(l)' => InHandler(l),
           \A c \in Conns : Closable(c) => Closable(c)'
    PROVE  CalmInv'
<1>1. \A c \in Conns : CalmConn(c)'
  BY SameStays, CalmSame DEF CalmInv, chanVars
<1> QED
  BY <1>1 DEF CalmInv, CalmBusy, CalmQueue, Queued, chanVars

LEMMA CalmBefore ==
    ASSUME Reach, RestTypes, [Next]_vars, Calm'
    PROVE  Calm
<1>1. CASE Start \/ NewConnection \/ UNCHANGED vars
  BY <1>1 DEF Start, NewConnection, Calm, vars, serverVars, peerVars, userVars
<1>2. ASSUME NEW c \in Conns, UserDrops(c) \/ PeerStep(c)
      PROVE  Calm
  BY <1>2 DEF UserDrops, PeerStep, PeerSends, PeerReads, PeerCloses, PeerResets, Calm,
     RestTypes, serverVars, peerVars, userVars
<1>3. calls \in Nat
  <2>1. calls \in 0 .. MaxCalls
    BY DEF RestTypes
  <2> QED
    BY <2>1
<1>4. ASSUME NEW u \in Users, UserStep(u)
      PROVE  Calm
  BY <1>3, <1>4 DEF UserStep, UserChecks, UserSets, UserQueues, Calm, serverVars, peerVars
<1>5. ASSUME NEW l \in AllLoops, CallbackStep(l) \/ TimerFires(l)
      PROVE  Calm
  BY <1>3, <1>5 DEF CallbackStep, CallbackSend, CallbackShutdown, CallbackForceClose,
     CallbackShare, TimerFires, Calm, serverVars, peerVars, userVars
<1>6. \A c \in Conns : HandleClose(c) \/ RemoveConnectionInLoop(c) => m_delay' = m_delay
  BY DEF HandleClose, RemoveConnectionInLoop, serverVars
<1>7. \A why : Fail(why) => UNCHANGED <<m_delay, calls, reset>>
  BY DEF Fail, serverVars, peerVars, userVars
<1>8. ASSUME NEW l \in AllLoops, LoopStep(l)
      PROVE  Calm
  <2>1. CASE HandleFreed(l) \/ HandleReset(l)
    BY <1>7, <2>1 DEF HandleFreed, HandleReset, Calm
  <2>2. CASE HandleEnd(l) \/ RunForceClose(l) \/ RunRemove(l) \/ RunDestroyed(l)
    BY <1>6, <1>7, <2>2 DEF HandleEnd, RunForceClose, RunRemove, RunDestroyed, Calm,
       serverVars, peerVars, userVars
  <2>3. CASE HandleData(l) \/ HandleWrite(l)
    <3>1. UNCHANGED <<m_delay, calls, reset>>
      BY <2>3 DEF HandleData, HandleWrite, serverVars, peerVars, userVars
    <3> QED
      BY <3>1 DEF Calm
  <2>4. CASE Poll(l) \/ EndEvents(l) \/ EndBatch(l) \/ EndOnConnection(l) \/ EndOnMessage(l)
    BY <2>4 DEF Poll, EndEvents, EndBatch, EndOnConnection, EndOnMessage, Calm,
       serverVars, peerVars, userVars
  <2>5. CASE RunEstablished(l) \/ RunSend(l) \/ RunShutdown(l)
    BY <2>5 DEF RunEstablished, RunSend, RunShutdown, Calm, serverVars, peerVars, userVars
  <2> QED
    BY <1>8, <2>1, <2>2, <2>3, <2>4, <2>5 DEF LoopStep
<1> QED
  BY <1>1, <1>2, <1>4, <1>5, <1>8 DEF Next

LEMMA CalmChannel ==
    ASSUME Reach, CalmInv, NEW l \in AllLoops, NEW c \in Conns,
           c \in active[l] \/ (InHandler(l) /\ cur[l] = c)
    PROVE  /\ index[c] = "kAdded" /\ "IN" \in events[c] /\ Closable(c)
           /\ c \in m_connections /\ ~Leaving(c) /\ c \in channels /\ loop[c] = l
           /\ Alive(c)
<1>1. index[c] = "kAdded"
  BY DEF CalmInv, CalmBusy
<1>2. CalmConn(c)
  BY DEF CalmInv
<1>3. c \in channels /\ loop[c] = l
  BY DEF Reach, FlowInv, LoopOK
<1> QED
  BY <1>1, <1>2, <1>3 DEF CalmConn, Alive, Kept

(* A step that takes no functor, adds none and leaves the registrations.   *)
LEMMA CalmMasks ==
    ASSUME Reach, CalmInv,
           UNCHANGED <<failed, call, m_timer, index, m_connections, loop, pend, batch>>,
           channels \subseteq channels',
           \A c \in Conns : /\ "IN" \in events[c] => "IN" \in events'[c]
                            /\ index[c] # "kAdded" => events'[c] = events[c]
                            /\ Closable(c) => Closable(c)',
           \A l \in AllLoops : /\ \A c \in active'[l] : index[c] = "kAdded"
                               /\ InHandler(l)' => index[cur'[l]] = "kAdded"
    PROVE  CalmInv'
<1>1. \A c \in Conns : CalmConn(c)'
  BY SameStays, CalmSame DEF CalmInv
<1> QED
  BY <1>1 DEF CalmInv, CalmBusy, CalmQueue, Queued

LEMMA CalmPoll ==
    ASSUME Reach, CalmInv, NEW l \in AllLoops, Poll(l)
    PROVE  CalmInv'
<1>1. /\ at' = [at EXCEPT ![l] = "events"] /\ active' = [active EXCEPT ![l] = ReadyOn(l)]
      /\ UNCHANGED <<failed, call, m_state, m_timer, chanVars, m_connections, loop, pend, batch, cur>>
  BY DEF Poll, serverVars, stateVars, queueVars, userVars, historyVars
<1>2. \A c \in ReadyOn(l) : index[c] = "kAdded"
  BY DEF ReadyOn
<1>3. /\ at'[l] = "events" /\ active'[l] = ReadyOn(l)
      /\ \A k \in AllLoops \ {l} : at'[k] = at[k] /\ active'[k] = active[k]
  BY <1>1, Typed DEF FlowTypes
<1>4. ASSUME NEW k \in AllLoops
      PROVE  /\ \A c \in active'[k] : index[c] = "kAdded"
             /\ InHandler(k)' => index[cur'[k]] = "kAdded"
  <2>1. CalmBusy(k)
    BY DEF CalmInv
  <2>2. CASE k = l
    BY <1>2, <1>3, <2>2 DEF InHandler
  <2>3. CASE k # l
    BY <1>1, <1>3, <2>1, <2>3 DEF InHandler, CalmBusy
  <2> QED
    BY <2>2, <2>3
<1> QED
  BY <1>1, <1>4, CalmMasks DEF chanVars, Closable

LEMMA CalmHandleData ==
    ASSUME Reach, CalmInv, NEW l \in AllLoops, HandleData(l)
    PROVE  CalmInv'
<1>1. PICK c \in Conns :
         /\ Handling(l, c) /\ UpdateTimer(c)
         /\ at' = [at EXCEPT ![l] = "onMessage"] /\ cur' = [cur EXCEPT ![l] = c]
  BY DEF HandleData
<1>2. UNCHANGED <<failed, call, chanVars, m_connections, loop, pend, batch, active>>
  BY DEF HandleData, serverVars, eventVars, queueVars, userVars, historyVars
<1>3. m_timer[c] = "none"
  BY DEF CalmInv, CalmConn
<1>4. m_timer' = m_timer /\ m_state' = m_state
  BY <1>1, <1>3 DEF UpdateTimer, stateVars
<1>5. /\ cur'[l] = c /\ index[c] = "kAdded"
      /\ \A k \in AllLoops \ {l} : at'[k] = at[k] /\ cur'[k] = cur[k]
  BY <1>1, Typed, CalmChannel DEF FlowTypes, Handling
<1>6. ASSUME NEW k \in AllLoops
      PROVE  /\ \A d \in active'[k] : index[d] = "kAdded"
             /\ InHandler(k)' => index[cur'[k]] = "kAdded"
  <2>1. CalmBusy(k)
    BY DEF CalmInv
  <2>2. CASE k = l
    BY <1>2, <1>5, <2>1, <2>2 DEF CalmBusy
  <2>3. CASE k # l
    BY <1>2, <1>5, <2>1, <2>3 DEF InHandler, CalmBusy
  <2> QED
    BY <2>2, <2>3
<1> QED
  BY <1>2, <1>4, <1>6, CalmMasks DEF chanVars, Closable

LEMMA CalmHandleEnd ==
    ASSUME Reach, CalmInv, NEW l \in AllLoops, HandleEnd(l)
    PROVE  CalmInv'
<1>1. PICK c \in Conns :
         /\ Handling(l, c)
         /\ IF CloseFailure(c) # ""
            THEN Fail(CloseFailure(c))
            ELSE /\ HandleClose(c)
                 /\ Handled(l, c)
                 /\ UNCHANGED <<stateVars, at, cur, batch, userVars, historyVars>>
  BY DEF HandleEnd
<1>2. /\ index[c] = "kAdded" /\ Closable(c) /\ c \in m_connections /\ ~Leaving(c)
      /\ c \in channels /\ loop[c] = l /\ at[l] = "events"
  BY <1>1, CalmChannel DEF Handling
<1>3. CloseFailure(c) = ""
  BY <1>2 DEF CloseFailure
<1>4. /\ SetEvents(c, {}) /\ Leaves(c)
      /\ active' = [active EXCEPT ![l] = @ \ {c}]
      /\ UNCHANGED <<loop, ups, failed, call, m_state, m_timer, at, cur, batch>>
  BY <1>1, <1>3, HandleCloseLeaves DEF Handled, userVars, historyVars, stateVars
<1>5. /\ index'[c] = "kDeleted" /\ events'[c] = {} /\ channels' = channels \cup {c}
      /\ \A d \in Conns \ {c} : index'[d] = index[d] /\ events'[d] = events[d]
  BY <1>2, <1>4, Typed DEF SetEvents, FlowTypes
<1>6. ups[c] > 0
  BY <1>2, Established
<1>7. PICK k \in AllLoops, g \in Entry :
         /\ Pushes(k, g) /\ g[2] = c
         /\ \/ k = Base /\ g = Rm(c) /\ m_connections' = m_connections
            \/ k = loop[c] /\ g = Ds(c) /\ m_connections' = m_connections \ {c}
  <2>1. loop[c] \in AllLoops
    BY Typed
  <2> QED
    BY <1>4, <2>1, Names, Kinds DEF Leaves
<1>8. ~Queued(k, g) /\ ~Queued(Base, Rm(c)) /\ ~Queued(loop[c], Ds(c))
  BY <1>2, <1>7 DEF Leaving
<1>9. /\ \A m \in AllLoops, f \in Entry : m # k \/ f # g => Same(m, f)
      /\ Once(k, g)' /\ Queued(k, g)'
  BY <1>4, <1>7, <1>8, SamePushed
<1>10. ASSUME NEW d \in Conns
       PROVE  CalmConn(d)'
  <2>1. CalmConn(d) /\ CalmConn(c)
    BY DEF CalmInv
  <2>2. CASE d # c
    <3>1. \A m \in AllLoops : Same(m, Ds(d)) /\ Same(m, Rm(d))
      BY <1>7, <1>9, <2>2, Names
    <3>2. d \in m_connections' <=> d \in m_connections
      BY <1>7, <2>2
    <3> QED
      BY <1>4, <1>5, <2>1, <2>2, <3>1, <3>2, CalmSame DEF Closable
  <2>3. CASE d = c /\ g = Rm(c)
    <3>1. k = Base /\ m_connections' = m_connections /\ Ds(c) # Rm(c)
      BY <1>7, <2>3, Names
    <3>2. Same(loop[c], Ds(c))
      BY <1>9, <2>3, <3>1, Names, Typed
    <3>3. ~Queued(loop[c], Ds(c))'
      BY <1>4, <1>8, <3>2 DEF Same
    <3> QED
      BY <1>2, <1>4, <1>5, <1>9, <2>1, <2>3, <3>1, <3>3 DEF CalmConn
  <2>4. CASE d = c /\ g = Ds(c)
    <3>1. k = loop[c] /\ m_connections' = m_connections \ {c} /\ Ds(c) # Rm(c)
      BY <1>7, <2>4, Names
    <3>2. Same(Base, Rm(c))
      BY <1>9, <2>4, <3>1, Names, Kinds
    <3>3. ~Queued(Base, Rm(c))'
      BY <1>8, <3>2 DEF Same
    <3>4. Once(loop[c], Ds(c))'
      BY <1>4, <1>9, <2>4, <3>1
    <3> QED
      BY <1>2, <1>4, <1>5, <2>1, <2>4, <3>1, <3>3, <3>4 DEF CalmConn
  <2> QED
    BY <1>7, <2>2, <2>3, <2>4
<1>11. ASSUME NEW m \in AllLoops
       PROVE  CalmBusy(m)'
  <2>1. CalmBusy(m) /\ LoopOK(m)
    BY DEF CalmInv, Reach, FlowInv
  <2>2. active'[m] = IF m = l THEN active[m] \ {c} ELSE active[m]
    BY <1>4, Typed DEF FlowTypes
  <2>3. c \notin active'[m]
    BY <1>2, <2>1, <2>2 DEF LoopOK
  <2>4. InHandler(m) => cur[m] # c /\ cur[m] \in Conns
    BY <1>2, <2>1, Typed DEF LoopOK, InHandler
  <2>5. active[m] \subseteq Conns
    BY Typed DEF FlowTypes
  <2> QED
    BY <1>4, <1>5, <2>1, <2>2, <2>3, <2>4, <2>5 DEF CalmBusy, InHandler
<1>12. ASSUME NEW m \in AllLoops
       PROVE  CalmQueue(m)'
  <2>1. \A f \in Entry : Queued(m, f)' => Queued(m, f) \/ f = g
    BY <1>9 DEF Same
  <2>2. g[1] \in {"connectDestroyed", "removeConnectionInLoop"}
    BY <1>7, Names
  <2>3. CalmQueue(m)
    BY DEF CalmInv
  <2> QED
    BY <2>1, <2>2, <2>3 DEF CalmQueue
<1> QED
  BY <1>4, <1>10, <1>11, <1>12 DEF CalmInv

(* A mask that keeps EPOLLIN.                                              *)
LEMMA CalmMasked ==
    ASSUME Reach, NEW c \in Conns, NEW e, SetEvents(c, e), index[c] = "kAdded", "IN" \in e
    PROVE  /\ index' = index /\ channels \subseteq channels'
           /\ \A d \in Conns : /\ "IN" \in events[d] => "IN" \in events'[d]
                               /\ index[d] # "kAdded" => events'[d] = events[d]
<1>1. index \in [Conns -> {"kNew", "kAdded", "kDeleted"}] /\ e # {}
  BY Typed DEF FlowTypes
<1>2. index' = [index EXCEPT ![c] = "kAdded"] /\ channels \subseteq channels'
  BY <1>1 DEF SetEvents
<1>3. index' = index
  BY <1>1, <1>2
<1>4. events'[c] = e /\ \A d \in Conns \ {c} : events'[d] = events[d]
  BY Typed DEF SetEvents
<1> QED
  BY <1>2, <1>3, <1>4

LEMMA CalmHandleWrite ==
    ASSUME Reach, CalmInv, NEW l \in AllLoops, HandleWrite(l)
    PROVE  CalmInv'
<1>1. PICK c \in Conns :
         /\ (at[l] = "write" /\ cur[l] = c) \/ Handling(l, c)
         /\ SetEvents(c, events[c] \ {"OUT"}) \/ UNCHANGED chanVars
         /\ Handled(l, c)
         /\ at' = [at EXCEPT ![l] = "events"]
  BY DEF HandleWrite
<1>2. UNCHANGED <<failed, call, m_state, m_timer, m_connections, loop, pend, batch, cur>>
  BY DEF HandleWrite, serverVars, stateVars, queueVars, userVars, historyVars
<1>3. index[c] = "kAdded" /\ "IN" \in events[c]
  BY <1>1, CalmChannel DEF Handling, InHandler
<1>4. /\ index' = index /\ channels \subseteq channels'
      /\ \A d \in Conns : /\ "IN" \in events[d] => "IN" \in events'[d]
                          /\ index[d] # "kAdded" => events'[d] = events[d]
  <2>1. CASE SetEvents(c, events[c] \ {"OUT"})
    <3> DEFINE e == events[c] \ {"OUT"}
    <3>1. "IN" \in e /\ SetEvents(c, e)
      BY <1>3, <2>1
    <3> HIDE DEF e
    <3> QED
      BY <1>3, <3>1, CalmMasked
  <2>2. CASE UNCHANGED chanVars
    BY <2>2 DEF chanVars
  <2> QED
    BY <1>1, <2>1, <2>2
<1>5. ASSUME NEW k \in AllLoops
      PROVE  /\ \A d \in active'[k] : index[d] = "kAdded"
             /\ InHandler(k)' => index[cur'[k]] = "kAdded"
  <2>1. CalmBusy(k)
    BY DEF CalmInv
  <2>2. active'[k] \subseteq active[k] /\ (InHandler(k)' => InHandler(k))
    BY <1>1, Typed DEF Handled, FlowTypes, InHandler
  <2> QED
    BY <1>2, <2>1, <2>2 DEF CalmBusy
<1> QED
  BY <1>2, <1>4, <1>5, CalmMasks DEF Closable

LEMMA CalmEndEvents ==
    ASSUME Reach, CalmInv, NEW l \in AllLoops, EndEvents(l)
    PROVE  CalmInv'
<1>1. /\ pend' = [pend EXCEPT ![l] = <<>>] /\ batch' = [batch EXCEPT ![l] = pend[l]]
      /\ at[l] = "events"
      /\ at' = [at EXCEPT ![l] = IF pend[l] = <<>> THEN "poll" ELSE "functors"]
      /\ UNCHANGED <<loop, m_connections, chanVars, failed, call, m_state, m_timer, active, cur>>
  BY DEF EndEvents, serverVars, stateVars, eventVars, userVars, historyVars
<1>2. batch[l] = <<>>
  BY <1>1 DEF Reach, FlowInv, LoopOK, RunsBatch
<1>3. \A k \in AllLoops, f \in Entry : Same(k, f)
  BY <1>1, <1>2, SameSwapped
<1>4. \A c \in Conns : CalmConn(c)'
  BY <1>1, <1>3, Names, CalmSame DEF CalmInv, chanVars, Closable
<1>5. \A k \in AllLoops : InHandler(k)' => InHandler(k)
  BY <1>1, Typed DEF FlowTypes, InHandler
<1> QED
  BY <1>1, <1>3, <1>4, <1>5 DEF CalmInv, CalmBusy, CalmQueue, Same, chanVars

LEMMA CalmRunEstablished ==
    ASSUME Reach, CalmInv, NEW l \in AllLoops, RunEstablished(l)
    PROVE  CalmInv'
<1>1. PICK c \in Conns :
         /\ Running(l, "connectEstablished", c) /\ ConnectEstablished(l, c) /\ Pop(l)
         /\ UNCHANGED <<serverVars, m_timer, eventVars, pend, userVars, failed>>
  BY DEF RunEstablished
<1>2. PICK h \in Entry : h = Est(c) /\ h[1] = "connectEstablished" /\ h[2] = c
  BY Names
<1>3. UNCHANGED <<failed, call, m_timer, m_connections, loop, pend, active>>
  BY <1>1 DEF serverVars, eventVars, userVars
<1>4. Placed(l, h) /\ active[l] = {}
  BY <1>1, <1>2, Ran DEF Est
<1>5. c \in m_connections /\ loop[c] = l /\ ups[c] = 0
  <2>1. ups[c] = 0
    BY <1>1, Taken DEF Reach
  <2> QED
    BY <1>2, <1>4, <2>1 DEF Placed
<1>6. \A k \in AllLoops, f \in Entry : k # l \/ f # h => Same(k, f)
  BY <1>1, <1>2, <1>3, SameRan
<1>7. /\ m_state'[c] = "kConnected" /\ at'[l] = "onConnection" /\ cur'[l] = c
      /\ \A k \in AllLoops \ {l} : at'[k] = at[k] /\ cur'[k] = cur[k]
      /\ \A d \in Conns \ {c} : m_state'[d] = m_state[d]
  BY <1>1, Typed DEF ConnectEstablished, FlowTypes
<1>8. /\ index'[c] = "kAdded" /\ "IN" \in events'[c] /\ channels' = channels \cup {c}
      /\ \A d \in Conns \ {c} : index'[d] = index[d] /\ events'[d] = events[d]
  BY <1>1, Typed DEF ConnectEstablished, SetEvents, FlowTypes
<1>9. ~Leaving(c)
  <2>1. loop[c] \in AllLoops /\ Base \in AllLoops
    BY Typed, Kinds
  <2>2. \A k \in AllLoops, f \in Entry : Queued(k, f) => Placed(k, f)
    BY DEF Reach, FlowInv, PlacedInv
  <2> QED
    BY <1>5, <2>1, <2>2, Names, ~(0 > 0) DEF Leaving, Placed
<1>10. ASSUME NEW d \in Conns
       PROVE  CalmConn(d)'
  <2>1. \A m \in AllLoops : Same(m, Ds(d)) /\ Same(m, Rm(d))
    BY <1>2, <1>6, Names
  <2>2. CalmConn(d)
    BY DEF CalmInv
  <2>3. CASE d # c
    BY <1>3, <1>7, <1>8, <2>1, <2>2, <2>3, CalmSame DEF Closable
  <2>4. CASE d = c
    <3>1. ~Queued(loop[c], Ds(c))' /\ ~Queued(Base, Rm(c))'
      <4>1. loop[c] \in AllLoops /\ Base \in AllLoops
        BY Typed, Kinds
      <4> QED
        BY <1>3, <1>9, <2>1, <2>4, <4>1 DEF Same, Leaving
    <3> QED
      BY <1>3, <1>5, <1>7, <1>8, <2>2, <2>4, <3>1 DEF CalmConn, Closable, Leaving
  <2> QED
    BY <2>3, <2>4
<1>11. ASSUME NEW k \in AllLoops
       PROVE  CalmBusy(k)'
  <2>1. CalmBusy(k) /\ cur[k] \in Conns /\ active[k] \subseteq Conns
    BY Typed DEF CalmInv, FlowTypes
  <2>2. CASE k = l
    BY <1>3, <1>4, <1>7, <1>8, <2>2 DEF CalmBusy
  <2>3. CASE k # l
    BY <1>3, <1>7, <1>8, <2>1, <2>3 DEF CalmBusy, InHandler
  <2> QED
    BY <2>2, <2>3
<1>12. ASSUME NEW k \in AllLoops
       PROVE  CalmQueue(k)'
  <2>1. \A f \in Entry : Queued(k, f)' => Queued(k, f) \/ f = h
    BY <1>6 DEF Same
  <2> QED
    BY <1>2, <2>1 DEF CalmQueue, CalmInv
<1> QED
  BY <1>3, <1>10, <1>11, <1>12 DEF CalmInv

LEMMA CalmRunDestroyed ==
    ASSUME Reach, CalmInv, NEW l \in AllLoops, RunDestroyed(l)
    PROVE  CalmInv'
<1>1. PICK c \in Conns :
         /\ Running(l, "connectDestroyed", c)
         /\ IF ~IsUp(c) /\ events[c] # {} THEN Fail("isNoneEvent()")
            ELSE IF c \notin channels THEN Fail("m_channels.count(fd)")
            ELSE /\ IF IsUp(c)
                       THEN /\ m_state' = [m_state EXCEPT ![c] = "kDisconnected"]
                            /\ downs' = [downs EXCEPT ![c] = @ + 1]
                       ELSE UNCHANGED <<m_state, downs>>
                 /\ RemoveChannel(c)
                 /\ Pop(l)
                 /\ UNCHANGED <<serverVars, m_timer, at, cur, eventVars, pend, userVars, failed>>
  BY DEF RunDestroyed
<1>2. PICK h \in Entry : h = Ds(c) /\ h[1] = "connectDestroyed" /\ h[2] = c
  BY Names
<1>3. Queued(l, h) /\ Placed(l, h)
  <2>1. In(batch[l], h)
    <3>1. /\ batch[l] # <<>> /\ Head(batch[l]) = h
      BY <1>1, <1>2 DEF Running, Ds
    <3> QED
      BY <3>1, Popped, Typed
  <2> QED
    BY <2>1 DEF Queued, Reach, FlowInv, PlacedInv
<1>4. loop[c] = l
  BY <1>2, <1>3 DEF Placed
<1>5. /\ c \notin m_connections /\ c \in channels /\ Once(l, h) /\ index[c] # "kAdded"
      /\ events[c] = {} /\ ~Queued(Base, Rm(c)) /\ m_timer[c] = "none"
  BY <1>2, <1>3, <1>4 DEF CalmInv, CalmConn
<1>6. /\ \/ m_state' = [m_state EXCEPT ![c] = "kDisconnected"]
         \/ m_state' = m_state
      /\ RemoveChannel(c) /\ Pop(l)
      /\ UNCHANGED <<failed, call, m_timer, m_connections, loop, pend, active, at, cur>>
  BY <1>1, <1>5 DEF serverVars, eventVars, userVars
<1>7. /\ \A k \in AllLoops, f \in Entry : k # l \/ f # h => Same(k, f)
      /\ ~Queued(l, h)'
  BY <1>1, <1>2, <1>5, <1>6, SameRan
<1>8. /\ index'[c] = "kNew" /\ events'[c] = {} /\ channels' = channels \ {c}
      /\ \A d \in Conns \ {c} : index'[d] = index[d] /\ events'[d] = events[d]
  BY <1>6, Typed DEF RemoveChannel, FlowTypes
<1>9. \A d \in Conns \ {c} : m_state'[d] = m_state[d]
  BY <1>6, Typed
<1>10. ASSUME NEW d \in Conns
       PROVE  CalmConn(d)'
  <2>1. CalmConn(d)
    BY DEF CalmInv
  <2>2. CASE d # c
    <3>1. \A m \in AllLoops : Same(m, Ds(d)) /\ Same(m, Rm(d))
      BY <1>2, <1>7, <2>2, Names
    <3> QED
      BY <1>6, <1>8, <1>9, <2>1, <2>2, <3>1, CalmSame DEF Closable
  <2>3. CASE d = c
    <3>1. ~Queued(loop[c], Ds(c))'
      BY <1>2, <1>4, <1>6, <1>7
    <3>2. Same(Base, Rm(c))
      BY <1>2, <1>7, Names, Kinds
    <3>3. ~Queued(Base, Rm(c))'
      BY <1>5, <3>2 DEF Same
    <3> QED
      BY <1>5, <1>6, <1>8, <2>3, <3>1, <3>3 DEF CalmConn
  <2> QED
    BY <2>2, <2>3
<1>11. ASSUME NEW k \in AllLoops
       PROVE  CalmBusy(k)'
  <2>1. CalmBusy(k) /\ cur[k] \in Conns /\ active[k] \subseteq Conns
    BY Typed DEF CalmInv, FlowTypes
  <2>2. c \notin active[k] /\ (InHandler(k) => cur[k] # c)
    BY <1>5, <2>1 DEF CalmBusy
  <2> QED
    BY <1>6, <1>8, <2>1, <2>2 DEF CalmBusy, InHandler
<1>12. ASSUME NEW k \in AllLoops
       PROVE  CalmQueue(k)'
  <2>1. \A f \in Entry : Queued(k, f)' => Queued(k, f) \/ f = h
    BY <1>7 DEF Same
  <2> QED
    BY <1>2, <2>1 DEF CalmQueue, CalmInv
<1> QED
  BY <1>6, <1>10, <1>11, <1>12 DEF CalmInv

LEMMA CalmRunRemove ==
    ASSUME Reach, CalmInv, NEW l \in AllLoops, RunRemove(l)
    PROVE  CalmInv'
<1>1. PICK c \in Conns :
         /\ Running(l, "removeConnectionInLoop", c)
         /\ IF c \notin m_connections
            THEN Fail("n == 1")
            ELSE /\ RemoveConnectionInLoop(c)
                 /\ Pop(l)
                 /\ UNCHANGED <<stateVars, chanVars, at, cur, eventVars, userVars, historyVars>>
  BY DEF RunRemove
<1>2. PICK h \in Entry : h = Rm(c) /\ h[1] = "removeConnectionInLoop" /\ h[2] = c
  BY Names
<1>3. Queued(l, h) /\ Placed(l, h)
  <2>1. In(batch[l], h)
    <3>1. /\ batch[l] # <<>> /\ Head(batch[l]) = h
      BY <1>1, <1>2 DEF Running, Rm
    <3> QED
      BY <3>1, Popped, Typed
  <2> QED
    BY <2>1 DEF Queued, Reach, FlowInv, PlacedInv
<1>4. l = Base
  BY <1>2, <1>3 DEF Placed
<1>5. /\ c \in m_connections /\ c \in channels /\ Once(Base, Rm(c)) /\ ~Queued(loop[c], Ds(c))
      /\ index[c] # "kAdded" /\ events[c] = {} /\ m_timer[c] = "none"
  BY <1>2, <1>3, <1>4 DEF CalmInv, CalmConn, Leaving
<1>6. /\ Pushes(loop[c], Ds(c)) /\ Pop(l) /\ m_connections' = m_connections \ {c}
      /\ UNCHANGED <<failed, call, m_state, m_timer, chanVars, loop, active, at, cur>>
  BY <1>1, <1>5 DEF RemoveConnectionInLoop, Pushes, Ds, stateVars, eventVars, userVars, historyVars
<1>7. PICK k \in AllLoops, g \in Entry :
         k = loop[c] /\ g = Ds(c) /\ g[1] = "connectDestroyed" /\ g[2] = c
  BY Names, Typed
<1>8. Pushes(k, g) /\ g # h /\ Running(l, h[1], h[2]) /\ Once(l, h) /\ ~Queued(k, g)
  BY <1>1, <1>2, <1>4, <1>5, <1>6, <1>7
<1>9. /\ \A m \in AllLoops, f \in Entry : (m # l \/ f # h) /\ (m # k \/ f # g) => Same(m, f)
      /\ ~Queued(l, h)' /\ Once(k, g)' /\ Queued(k, g)'
  BY <1>6, <1>8, SameRanPushed
<1>10. ASSUME NEW d \in Conns
       PROVE  CalmConn(d)'
  <2>1. CalmConn(d)
    BY DEF CalmInv
  <2>2. CASE d # c
    <3>1. \A m \in AllLoops : Same(m, Ds(d)) /\ Same(m, Rm(d))
      BY <1>2, <1>7, <1>9, <2>2, Names
    <3> QED
      BY <1>6, <2>1, <2>2, <3>1, CalmSame DEF Closable, chanVars
  <2>3. CASE d = c
    <3>1. ~Queued(Base, Rm(c))'
      BY <1>2, <1>4, <1>9
    <3>2. Once(loop[c], Ds(c))'
      BY <1>6, <1>7, <1>9
    <3> QED
      BY <1>5, <1>6, <2>3, <3>1, <3>2 DEF CalmConn, chanVars
  <2> QED
    BY <2>2, <2>3
<1>11. ASSUME NEW m \in AllLoops
       PROVE  CalmQueue(m)'
  <2>1. \A f \in Entry : Queued(m, f)' => Queued(m, f) \/ f = h \/ f = g
    BY <1>9 DEF Same
  <2> QED
    BY <1>2, <1>7, <2>1 DEF CalmQueue, CalmInv
<1> QED
  BY <1>6, <1>10, <1>11 DEF CalmInv, CalmBusy, InHandler, chanVars

LEMMA CalmNewConnection ==
    ASSUME Reach, CalmInv, NewConnection
    PROVE  CalmInv'
<1>1. PICK c \in Conns : c = m_connId + 1 /\ m_connId' = c
  BY Typed, ServerAssumption DEF NewConnection, Conns
<1>2. PICK l \in AllLoops :
         /\ loop' = [loop EXCEPT ![c] = l]
         /\ IF l = Base THEN ConnectEstablished(l, c) /\ UNCHANGED pend
                        ELSE QueueEstablished(l, c)
  BY <1>1 DEF NewConnection
<1>3. /\ m_connections' = m_connections \cup {c} /\ at[Base] = "events"
      /\ UNCHANGED <<m_timer, active, batch, call, failed>>
  BY <1>1 DEF NewConnection, eventVars, userVars
<1>4. loop'[c] = l /\ \A d \in Conns \ {c} : loop'[d] = loop[d]
  BY <1>2, Typed
<1>5. ups[c] = 0
  BY <1>1, Typed DEF Reach, StreamInv, TableInv, UpBeforeUse
<1>6. PICK h \in Entry : h = Est(c) /\ h[1] = "connectEstablished" /\ h[2] = c
  BY Names
<1>7. \A k \in AllLoops, f \in Entry : f # h => Same(k, f)
  <2>1. CASE l = Base
    BY <1>2, <1>3, <2>1, SameStays
  <2>2. CASE l # Base
    <3>1. Pushes(l, h)
      BY <1>2, <1>6, <2>2 DEF QueueEstablished, Pushes, Est
    <3> QED
      BY <1>3, <3>1, SamePushed
  <2> QED
    BY <2>1, <2>2
<1>8. \A k \in AllLoops, d \in Conns : Same(k, Ds(d)) /\ Same(k, Rm(d))
  BY <1>6, <1>7, Names
<1>9. /\ \A k \in AllLoops : ~Queued(k, Ds(c))
      /\ ~Queued(Base, Rm(c))
  <2>1. \A k \in AllLoops, f \in Entry : Queued(k, f) => Placed(k, f)
    BY DEF Reach, FlowInv, PlacedInv
  <2> QED
    BY <1>5, <2>1, Names, Kinds, ~(0 > 0) DEF Placed
<1>10. index[c] = "kNew" /\ events[c] = {} /\ m_timer[c] = "none"
  BY <1>5 DEF Reach, FlowInv, ConnOK, Fresh
<1>11. /\ \A d \in Conns \ {c} : /\ index'[d] = index[d] /\ events'[d] = events[d]
                                 /\ m_state'[d] = m_state[d]
       /\ channels \subseteq channels'
       /\ \/ index'[c] = "kNew" /\ events'[c] = {}
          \/ index'[c] = "kAdded" /\ "IN" \in events'[c] /\ m_state'[c] = "kConnected"
  <2>1. CASE l = Base
    <3>1. /\ m_state' = [m_state EXCEPT ![c] = "kConnected"]
          /\ SetEvents(c, events[c] \cup {"IN"})
      BY <1>2, <2>1 DEF ConnectEstablished
    <3>2. /\ m_state'[c] = "kConnected"
          /\ \A d \in Conns \ {c} : m_state'[d] = m_state[d]
      BY <3>1, Typed
    <3>3. /\ index'[c] = "kAdded" /\ "IN" \in events'[c] /\ channels \subseteq channels'
          /\ \A d \in Conns \ {c} : index'[d] = index[d] /\ events'[d] = events[d]
      BY <3>1, Typed DEF SetEvents, FlowTypes
    <3> QED
      BY <3>2, <3>3
  <2>2. CASE l # Base
    BY <1>2, <1>10, <2>2, Typed DEF QueueEstablished, chanVars
  <2> QED
    BY <2>1, <2>2
<1>12. ASSUME NEW d \in Conns
       PROVE  CalmConn(d)'
  <2>1. CalmConn(d)
    BY DEF CalmInv
  <2>2. CASE d # c
    BY <1>3, <1>4, <1>8, <1>11, <2>1, <2>2, CalmSame DEF Closable
  <2>3. CASE d = c
    <3>1. ~Queued(l, Ds(c))' /\ ~Queued(Base, Rm(c))'
      BY <1>8, <1>9, Kinds DEF Same
    <3>2. ~Queued(loop[c], Ds(c))'
      BY <1>4, <3>1
    <3> QED
      BY <1>3, <1>10, <1>11, <2>3, <3>1, <3>2 DEF CalmConn, Leaving, Closable
  <2> QED
    BY <2>2, <2>3
<1>13. ASSUME NEW k \in AllLoops
       PROVE  CalmBusy(k)'
  <2>1. CalmBusy(k) /\ cur[k] \in Conns /\ active[k] \subseteq Conns
    BY Typed DEF CalmInv, FlowTypes
  <2>2. c \notin active[k] /\ (InHandler(k) => cur[k] # c)
    BY <1>10, <2>1 DEF CalmBusy
  <2>3. CASE k = Base /\ l = Base
    <3>1. at'[k] = "onConnection" /\ cur'[k] = c /\ index'[c] = "kAdded"
      BY <1>2, <1>10, <2>3, Typed DEF ConnectEstablished, SetEvents, FlowTypes
    <3> QED
      BY <1>3, <1>11, <2>1, <2>2, <3>1 DEF CalmBusy
  <2>4. CASE ~(k = Base /\ l = Base)
    <3>1. at'[k] = at[k] /\ cur'[k] = cur[k]
      <4>1. CASE l = Base
        <5>1. /\ at' = [at EXCEPT ![l] = "onConnection"] /\ cur' = [cur EXCEPT ![l] = c]
              /\ k # l
          BY <1>2, <2>4, <4>1 DEF ConnectEstablished
        <5> QED
          BY <5>1, Typed DEF FlowTypes
      <4>2. CASE l # Base
        BY <1>2, <4>2 DEF QueueEstablished
      <4> QED
        BY <4>1, <4>2
    <3> QED
      BY <1>3, <1>11, <2>1, <2>2, <3>1 DEF CalmBusy, InHandler
  <2> QED
    BY <2>3, <2>4
<1>14. ASSUME NEW k \in AllLoops
       PROVE  CalmQueue(k)'
  <2>1. \A f \in Entry : Queued(k, f)' => Queued(k, f) \/ f = h
    BY <1>7 DEF Same
  <2> QED
    BY <1>6, <2>1 DEF CalmQueue, CalmInv
<1> QED
  BY <1>3, <1>12, <1>13, <1>14 DEF CalmInv

LEMMA CalmStep ==
    ASSUME Reach, RestTypes, Calm, Calm', CalmInv, [Next]_vars
    PROVE  CalmInv'
<1>1. CASE Start \/ UNCHANGED vars
  BY <1>1, CalmQuiet DEF Start, vars, serverVars, stateVars, loopVars, queueVars, eventVars,
     userVars, historyVars, InHandler, Closable
<1>2. CASE NewConnection
  BY <1>2, CalmNewConnection
<1>3. \A l \in AllLoops, op \in Functors, c \in Conns :
         Running(l, op, c) => op \in {"connectEstablished", "connectDestroyed",
                                      "removeConnectionInLoop"}
  <2>1. ASSUME NEW l \in AllLoops, NEW op \in Functors, NEW c \in Conns, Running(l, op, c)
        PROVE  op \in {"connectEstablished", "connectDestroyed", "removeConnectionInLoop"}
    <3>1. PICK h \in Entry : h = <<op, c>> /\ h[1] = op
      BY Named
    <3>2. batch[l] # <<>> /\ Head(batch[l]) = h /\ batch[l] \in Seq(Entry)
      BY <2>1, <3>1, Typed DEF Running
    <3>3. In(batch[l], h)
      BY <3>2, Popped
    <3> QED
      BY <3>1, <3>3 DEF CalmInv, CalmQueue, Queued
  <2> QED
    BY <2>1
<1>4. ASSUME NEW l \in AllLoops, LoopStep(l)
      PROVE  CalmInv'
  <2>1. CASE HandleFreed(l)
    <3>1. PICK c \in Conns : c \in active[l] /\ ~Alive(c)
      BY <2>1 DEF HandleFreed, Handling
    <3> QED
      BY <3>1, CalmChannel
  <2>2. CASE HandleReset(l)
    BY <2>2 DEF HandleReset, Calm
  <2>3. CASE Poll(l) \/ HandleData(l) \/ HandleEnd(l) \/ HandleWrite(l) \/ EndEvents(l)
    BY <2>3, CalmPoll, CalmHandleData, CalmHandleEnd, CalmHandleWrite, CalmEndEvents
  <2>4. CASE RunEstablished(l) \/ RunDestroyed(l) \/ RunRemove(l)
    BY <2>4, CalmRunEstablished, CalmRunDestroyed, CalmRunRemove
  <2>5. CASE RunSend(l) \/ RunShutdown(l) \/ RunForceClose(l)
    <3>1. {"sendInLoop", "shutdownInLoop", "forceCloseInLoop"} \subseteq Functors
      BY DEF Functors
    <3> QED
      BY <1>3, <2>5, <3>1 DEF RunSend, RunShutdown, RunForceClose
  <2>6. CASE EndBatch(l) \/ EndOnMessage(l) \/ EndOnConnection(l)
    <3>1. UNCHANGED <<failed, call, chanVars, m_connections, loop, pend, batch, active, cur>>
      BY <2>6 DEF EndBatch, EndOnMessage, EndOnConnection, serverVars, queueVars, eventVars,
         userVars, historyVars
    <3>2. UNCHANGED stateVars
      BY <2>6 DEF EndBatch, EndOnMessage, EndOnConnection, Calm
    <3>3. \A k \in AllLoops : InHandler(k)' => InHandler(k)
      BY <2>6, Typed DEF EndBatch, EndOnMessage, EndOnConnection, FlowTypes, InHandler
    <3> QED
      BY <3>1, <3>2, <3>3, CalmQuiet DEF stateVars, Closable
  <2> QED
    BY <1>4, <2>1, <2>2, <2>3, <2>4, <2>5, <2>6 DEF LoopStep
<1>5. ASSUME NEW l \in AllLoops, CallbackStep(l) \/ TimerFires(l)
      PROVE  CalmInv'
  <2>1. cur[l] \in Conns
    BY Typed
  <2>2. CASE CallbackSend(l)
    <3>1. /\ InHandler(l)
          /\ UNCHANGED <<failed, call, m_timer, m_connections, loop, pend, batch, active, cur,
                         m_state, at>>
          /\ SetEvents(cur[l], events[cur[l]] \cup {"OUT"}) \/ UNCHANGED chanVars
      BY <2>2 DEF CallbackSend, InCallback, InHandler, SendInLoop, serverVars, stateVars,
         loopVars, queueVars, eventVars, userVars, historyVars
    <3>2. PICK c \in Conns : c = cur[l]
      BY <2>1
    <3>3. index[c] = "kAdded" /\ "IN" \in events[c]
      BY <3>1, <3>2, CalmChannel
    <3>4. /\ index' = index /\ channels \subseteq channels'
          /\ \A d \in Conns : /\ "IN" \in events[d] => "IN" \in events'[d]
                              /\ index[d] # "kAdded" => events'[d] = events[d]
      <4>1. CASE SetEvents(c, events[c] \cup {"OUT"})
        <5> DEFINE e == events[c] \cup {"OUT"}
        <5>1. "IN" \in e /\ SetEvents(c, e)
          BY <3>3, <4>1
        <5> HIDE DEF e
        <5> QED
          BY <3>3, <5>1, CalmMasked
      <4>2. CASE UNCHANGED chanVars
        BY <4>2 DEF chanVars
      <4> QED
        BY <3>1, <3>2, <4>1, <4>2
    <3>5. \A k \in AllLoops : /\ \A d \in active'[k] : index[d] = "kAdded"
                              /\ InHandler(k)' => index[cur'[k]] = "kAdded"
      BY <3>1 DEF CalmInv, CalmBusy, InHandler
    <3> QED
      BY <3>1, <3>4, <3>5, CalmMasks DEF Closable
  <2>3. CASE CallbackShutdown(l)
    <3>1. /\ m_state' = [m_state EXCEPT ![cur[l]] = "kDisconnecting"]
          /\ UNCHANGED <<failed, call, m_timer, chanVars, m_connections, loop, pend, batch,
                         active, cur, at>>
      BY <2>3 DEF CallbackShutdown, serverVars, loopVars, queueVars, eventVars, userVars
    <3>2. \A c \in Conns : Closable(c) => Closable(c)'
      BY <2>1, <3>1, Typed DEF Closable
    <3> QED
      BY <3>1, <3>2, CalmQuiet DEF InHandler
  <2>4. CASE CallbackShare(l)
    BY <2>4, CalmQuiet DEF CallbackShare, serverVars, stateVars, loopVars, queueVars,
       eventVars, historyVars, InHandler, Closable
  <2>5. CASE CallbackForceClose(l)
    BY <2>5 DEF CallbackForceClose, Calm
  <2>6. CASE TimerFires(l)
    <3>1. PICK c \in Conns : m_timer[c] = "armed"
      BY <2>6 DEF TimerFires
    <3> QED
      BY <3>1 DEF CalmInv, CalmConn
  <2> QED
    BY <1>5, <2>2, <2>3, <2>4, <2>5, <2>6 DEF CallbackStep
<1>6. ASSUME NEW u \in Users, UserStep(u)
      PROVE  CalmInv'
  <2>1. call[u] = NoCall
    BY DEF CalmInv
  <2>2. calls' # calls + 1
    BY DEF Calm
  <2> QED
    BY <1>6, <2>1, <2>2 DEF UserStep, UserChecks, UserSets, UserQueues
<1>7. ASSUME NEW c \in Conns, UserDrops(c) \/ PeerStep(c)
      PROVE  CalmInv'
  BY <1>7, CalmQuiet DEF UserDrops, PeerStep, PeerSends, PeerReads, PeerCloses, PeerResets,
     serverVars, stateVars, loopVars, queueVars, eventVars, userVars, historyVars,
     InHandler, Closable
<1> QED
  BY <1>1, <1>2, <1>4, <1>5, <1>6, <1>7 DEF Next

(* The assertions of handleClose, removeConnectionInLoop and               *)
(* connectDestroyed, and Poller's raw pointers: until a client resets a    *)
(* connection, a delay is set, another thread calls one or a callback      *)
(* calls forceClose, none of them fails.                                   *)
THEOREM ServerDoesNotFail == Spec => []NoFailure
<1>1. Init => CalmInv
  <2> SUFFICES ASSUME Init PROVE CalmInv
    OBVIOUS
  <2>1. /\ failed = "" /\ call = [u \in Users |-> NoCall]
        /\ m_timer = [c \in Conns |-> "none"] /\ index = [c \in Conns |-> "kNew"]
        /\ events = [c \in Conns |-> {}] /\ at = [l \in AllLoops |-> "poll"]
        /\ active = [l \in AllLoops |-> {}] /\ loop = [c \in Conns |-> Base]
        /\ pend = [l \in AllLoops |-> <<>>] /\ batch = [l \in AllLoops |-> <<>>]
    BY DEF Init
  <2>2. \A l \in AllLoops : \A f : ~Queued(l, f)
    <3>1. \A f : ~In(<<>>, f)
      BY DEF In
    <3> QED
      BY <2>1, <3>1 DEF Queued
  <2>3. \A c \in Conns : CalmConn(c)
    BY <2>1, <2>2, Kinds DEF CalmConn
  <2> QED
    BY <2>1, <2>2, <2>3 DEF CalmInv, CalmBusy, CalmQueue, InHandler
<1>2. Reach /\ RestTypes /\ (Calm => CalmInv) /\ [Next]_vars => (Calm => CalmInv)'
  BY CalmBefore, CalmStep
<1>3. RestTypes => (calls # 0 => calls > 0)
  <2> SUFFICES ASSUME RestTypes PROVE calls # 0 => calls > 0
    OBVIOUS
  <2>1. calls \in 0 .. MaxCalls
    BY DEF RestTypes
  <2>2. calls \in Nat
    BY <2>1
  <2> QED
    BY <2>2
<1>4. RestTypes /\ (Calm => CalmInv) => NoFailure
  <2> SUFFICES ASSUME RestTypes, Calm => CalmInv, failed # ""
               PROVE  m_delay \/ calls > 0 \/ \E c \in Conns : reset[c]
    BY DEF NoFailure
  <2>1. ~Calm
    BY DEF CalmInv
  <2> QED
    BY <1>3, <2>1 DEF Calm
<1> QED
  BY <1>1, <1>2, <1>4, Reached, RestHolds, PTL DEF Spec

-----------------------------------------------------------------------------
(* The callbacks of a connection.  With no delay and no other thread that  *)
(* closes, a connection is asked to close only in its callbacks, is        *)
(* readable only while the server holds it, and is let go down or asked.   *)

Sd(c) == <<"shutdownInLoop", c>>

LifeConn(c) ==
    /\ m_timer[c] = "none"
    /\ ups[c] = 0 => asked[c] = {}
    /\ "IN" \in events[c] =>
          downs[c] = 0 /\ (c \in m_connections \/ Queued(loop[c], Ds(c)))
    /\ m_state[c] = "kDisconnecting" => asked[c] # {}
    /\ m_state[c] = "kConnected" => asked[c] = {}
    /\ downs[c] = 1 <=> m_state[c] = "kDisconnected"
    /\ ups[c] # 0 =>
          /\ m_state[c] \in {"kConnected", "kDisconnecting", "kDisconnected"}
          /\ c \in m_connections \/ Queued(loop[c], Ds(c)) \/ downs[c] = 1 \/ asked[c] # {}

LifeLoop(l) ==
    /\ \A c \in active[l] : "IN" \in revents[c] => "IN" \in events[c]
    /\ InHandler(l) => "IN" \in events[cur[l]]

LifeInv ==
    /\ ~m_delay
    /\ \A l \in AllLoops, c \in Conns : ~Queued(l, Sd(c))
    /\ \A c \in Conns : LifeConn(c)
    /\ \A l \in AllLoops : LifeLoop(l)

LEMMA Downs ==
    ASSUME Reach, NEW c \in Conns
    PROVE  downs[c] = 0 \/ downs[c] = 1
BY DEF Reach, FlowInv, ConnOK

LEMMA ShutdownNamed ==
    \A c \in Conns : Sd(c) \in Entry /\ Sd(c)[1] = "shutdownInLoop" /\ Sd(c)[2] = c
<1>1. "shutdownInLoop" \in Functors
  BY DEF Functors
<1> QED
  BY <1>1, Named DEF Sd

LEMMA LifeSame ==
    ASSUME Reach, NEW d \in Conns, LifeConn(d), m_timer'[d] = m_timer[d],
           loop'[d] = loop[d], ups'[d] = ups[d], downs'[d] = downs[d],
           m_state'[d] = m_state[d], asked'[d] = asked[d],
           "IN" \in events'[d] => "IN" \in events[d],
           d \in m_connections => d \in m_connections' \/ Queued(loop[d], Ds(d))',
           \A k \in AllLoops : Queued(k, Ds(d)) => Queued(k, Ds(d))'
    PROVE  LifeConn(d)'
<1>1. loop[d] \in AllLoops
  BY Typed
<1>2. Queued(loop[d], Ds(d)) => Queued(loop[d], Ds(d))'
  BY <1>1
<1> QED
  BY <1>2 DEF LifeConn

(* A step that takes no functor, adds none and makes no channel unreadable. *)
LEMMA LifeQuiet ==
    ASSUME Reach, LifeInv,
           UNCHANGED <<m_delay, m_state, m_timer, ups, downs, asked, m_connections, loop,
                       pend, batch>>,
           \A c \in Conns : "IN" \in events'[c] <=> "IN" \in events[c],
           \A l \in AllLoops : /\ active'[l] \subseteq active[l]
                               /\ cur'[l] = cur[l]
                               /\ InHandler(l)' => InHandler(l),
           \A c \in Conns : revents'[c] = revents[c] \/ revents'[c] = {}
    PROVE  LifeInv'
<1>1. \A l \in AllLoops : \A f : Queued(l, f)' <=> Queued(l, f)
  BY DEF Queued
<1>2. \A c \in Conns : LifeConn(c)'
  BY <1>1, LifeSame DEF LifeInv
<1>3. ASSUME NEW l \in AllLoops
      PROVE  LifeLoop(l)'
  <2>1. LifeLoop(l) /\ active[l] \subseteq Conns /\ cur[l] \in Conns
    BY Typed DEF LifeInv, FlowTypes
  <2>2. ASSUME NEW c \in active'[l], "IN" \in revents'[c]
        PROVE  "IN" \in events'[c]
    <3>1. c \in active[l] /\ c \in Conns /\ revents'[c] = revents[c]
      BY <2>1, <2>2
    <3> QED
      BY <2>1, <2>2, <3>1 DEF LifeLoop
  <2>3. InHandler(l)' => "IN" \in events'[cur'[l]]
    BY <2>1 DEF LifeLoop
  <2> QED
    BY <2>2, <2>3 DEF LifeLoop
<1> QED
  BY <1>1, <1>2, <1>3 DEF LifeInv

LEMMA LifeFails == ASSUME Reach, LifeInv, NEW why, Fail(why) PROVE LifeInv'
BY LifeQuiet DEF Fail, serverVars, stateVars, chanVars, loopVars, queueVars, eventVars, InHandler

(* What the steps of a loop may take for granted of its channels.          *)
LEMMA LifeChannel ==
    ASSUME Reach, LifeInv, NEW l \in AllLoops, NEW c \in Conns,
           InHandler(l) /\ cur[l] = c
    PROVE  /\ "IN" \in events[c] /\ downs[c] = 0 /\ c \in channels /\ loop[c] = l
           /\ ups[c] # 0 /\ Alive(c) /\ Kept(c)
<1>1. "IN" \in events[c] /\ LifeConn(c)
  BY DEF LifeInv, LifeLoop
<1>2. c \in channels /\ loop[c] = l
  BY DEF Reach, FlowInv, LoopOK
<1>3. ups[c] # 0
  BY <1>2, Established
<1>4. Kept(c)
  <2>1. Queued(l, Ds(c)) => Kept(c)
    BY Names, QueuedKeeps
  <2> QED
    BY <1>1, <1>2, <2>1 DEF LifeConn, Kept
<1> QED
  BY <1>1, <1>2, <1>3, <1>4 DEF LifeConn, Alive

LEMMA SendMask ==
    ASSUME Reach, NEW c \in Conns, SendInLoop(c)
    PROVE  /\ \A d \in Conns \ {c} : events'[d] = events[d]
           /\ \A d \in Conns : "IN" \in events'[d] <=> "IN" \in events[d]
<1>1. SetEvents(c, events[c] \cup {"OUT"}) \/ UNCHANGED chanVars
  BY DEF SendInLoop
<1>2. CASE SetEvents(c, events[c] \cup {"OUT"})
  <2>1. /\ events'[c] = events[c] \cup {"OUT"}
        /\ \A d \in Conns \ {c} : events'[d] = events[d]
    BY <1>2, Typed DEF SetEvents
  <2> QED
    BY <2>1
<1>3. CASE UNCHANGED chanVars
  BY <1>3 DEF chanVars
<1> QED
  BY <1>1, <1>2, <1>3

(* A step of loop l on the mask of a channel of its own that it is not     *)
(* about to handle.                                                        *)
LEMMA LifeLoops ==
    ASSUME Reach, LifeInv, NEW l \in AllLoops, NEW c \in Conns, loop[c] = l,
           \A k \in AllLoops \ {l} : /\ active'[k] = active[k] /\ cur'[k] = cur[k]
                                     /\ InHandler(k)' => InHandler(k),
           \A d \in Conns \ {c} : events'[d] = events[d] /\ revents'[d] = revents[d],
           LifeLoop(l)'
    PROVE  \A k \in AllLoops : LifeLoop(k)'
<1>1. ASSUME NEW k \in AllLoops, k # l
      PROVE  LifeLoop(k)'
  <2>1. LifeLoop(k) /\ LoopOK(k) /\ active[k] \subseteq Conns /\ cur[k] \in Conns
    BY Typed DEF LifeInv, FlowTypes, Reach, FlowInv
  <2>2. c \notin active[k] /\ (InHandler(k) => cur[k] # c)
    BY <1>1, <2>1 DEF LoopOK
  <2>3. ASSUME NEW d \in active'[k], "IN" \in revents'[d]
        PROVE  "IN" \in events'[d]
    BY <1>1, <2>1, <2>2, <2>3 DEF LifeLoop
  <2>4. InHandler(k)' => "IN" \in events'[cur'[k]]
    BY <1>1, <2>1, <2>2 DEF LifeLoop
  <2> QED
    BY <2>3, <2>4 DEF LifeLoop
<1> QED
  BY <1>1

LEMMA LifePoll ==
    ASSUME Reach, LifeInv, NEW l \in AllLoops, Poll(l)
    PROVE  LifeInv'
<1>1. /\ at' = [at EXCEPT ![l] = "events"] /\ active' = [active EXCEPT ![l] = ReadyOn(l)]
      /\ UNCHANGED <<m_delay, m_state, m_timer, ups, downs, asked, m_connections, loop,
                     pend, batch, chanVars, cur>>
  BY DEF Poll, serverVars, stateVars, queueVars, historyVars
<1>2. /\ \A c \in ReadyOn(l) : revents'[c] = Ready(c) /\ loop[c] = l /\ c \in Conns
      /\ \A c \in Conns \ ReadyOn(l) : revents'[c] = revents[c]
  BY Typed DEF Poll, ReadyOn, FlowTypes
<1>3. /\ at'[l] = "events" /\ active'[l] = ReadyOn(l)
      /\ \A k \in AllLoops \ {l} : at'[k] = at[k] /\ active'[k] = active[k]
  BY <1>1, Typed DEF FlowTypes
<1>4. \A k \in AllLoops : \A f : Queued(k, f)' <=> Queued(k, f)
  BY <1>1 DEF Queued
<1>5. \A c \in Conns : LifeConn(c)'
  BY <1>1, <1>4, LifeSame DEF LifeInv, chanVars
<1>6. \A c : "IN" \in Ready(c) => "IN" \in events[c]
  BY DEF Ready
<1>7. ASSUME NEW k \in AllLoops
      PROVE  LifeLoop(k)'
  <2>1. LifeLoop(k) /\ LoopOK(k) /\ active[k] \subseteq Conns
    BY Typed DEF LifeInv, Reach, FlowInv, FlowTypes
  <2>2. CASE k = l
    BY <1>1, <1>2, <1>3, <1>6, <2>2 DEF LifeLoop, InHandler, chanVars
  <2>3. CASE k # l
    <3>1. \A c \in active[k] : c \notin ReadyOn(l)
      BY <1>2, <2>1, <2>3 DEF LoopOK
    <3>2. ASSUME NEW c \in active'[k], "IN" \in revents'[c]
          PROVE  "IN" \in events'[c]
      BY <1>1, <1>2, <1>3, <2>1, <2>3, <3>1, <3>2 DEF LifeLoop, chanVars
    <3>3. InHandler(k)' => "IN" \in events'[cur'[k]]
      BY <1>1, <1>3, <2>1, <2>3 DEF LifeLoop, InHandler, chanVars
    <3> QED
      BY <3>2, <3>3 DEF LifeLoop
  <2> QED
    BY <2>2, <2>3
<1> QED
  BY <1>1, <1>4, <1>5, <1>7 DEF LifeInv

LEMMA LifeHandleData ==
    ASSUME Reach, LifeInv, NEW l \in AllLoops, HandleData(l)
    PROVE  LifeInv'
<1>1. PICK c \in Conns :
         /\ c \in active[l] /\ at[l] = "events" /\ "IN" \in revents[c] /\ UpdateTimer(c)
         /\ at' = [at EXCEPT ![l] = "onMessage"] /\ cur' = [cur EXCEPT ![l] = c]
  BY DEF HandleData, Handling, Readable
<1>2. UNCHANGED <<m_delay, ups, downs, asked, m_connections, loop, pend, batch, chanVars,
                  active, revents>>
  BY DEF HandleData, serverVars, eventVars, queueVars, historyVars
<1>3. m_timer[c] = "none" /\ "IN" \in events[c] /\ loop[c] = l
  BY <1>1 DEF LifeInv, LifeConn, LifeLoop, Reach, FlowInv, LoopOK
<1>4. m_timer' = m_timer /\ m_state' = m_state
  BY <1>1, <1>3 DEF UpdateTimer, stateVars
<1>5. /\ cur'[l] = c
      /\ \A k \in AllLoops \ {l} : at'[k] = at[k] /\ cur'[k] = cur[k]
  BY <1>1, Typed DEF FlowTypes
<1>6. \A k \in AllLoops : \A f : Queued(k, f)' <=> Queued(k, f)
  BY <1>2 DEF Queued
<1>7. \A d \in Conns : LifeConn(d)'
  BY <1>2, <1>4, <1>6, LifeSame DEF LifeInv, chanVars
<1>8. LifeLoop(l)'
  BY <1>2, <1>3, <1>5 DEF LifeInv, LifeLoop, chanVars
<1>9. \A k \in AllLoops : LifeLoop(k)'
  BY <1>2, <1>3, <1>5, <1>8, LifeLoops DEF InHandler, chanVars
<1> QED
  BY <1>2, <1>4, <1>6, <1>7, <1>9 DEF LifeInv

(* A connection is closed, or taken from the map: no other is.             *)
LEMMA LifeLeaves ==
    ASSUME Reach, LifeInv, NEW c \in Conns, Leaves(c), ups[c] > 0,
           SetEvents(c, {}) \/ UNCHANGED chanVars,
           UNCHANGED <<m_delay, loop, ups, downs, asked, m_state, m_timer>>,
           \A k \in AllLoops, g \in Entry : Pushes(k, g) => Queued(k, g)',
           \A k \in AllLoops, d \in Conns :
              /\ Queued(k, Ds(d)) => Queued(k, Ds(d))'
              /\ ~Queued(k, Sd(d))'
    PROVE  (\A d \in Conns : LifeConn(d)') /\ ((\A l \in AllLoops : LifeLoop(l)') => LifeInv')
<1>1. PICK k \in AllLoops, g \in Entry :
         /\ Pushes(k, g)
         /\ \/ k = Base /\ g = Rm(c) /\ m_connections' = m_connections
            \/ k = loop[c] /\ g = Ds(c) /\ m_connections' = m_connections \ {c}
  <2>1. loop[c] \in AllLoops
    BY Typed
  <2> QED
    BY <2>1, Names, Kinds DEF Leaves
<1>2. c \in m_connections' \/ c \notin m_connections \/ Queued(loop[c], Ds(c))'
  BY <1>1
<1>3. \A d \in Conns : "IN" \in events'[d] => "IN" \in events[d]
  BY Typed DEF SetEvents, chanVars
<1>4. \A d \in Conns \ {c} : d \in m_connections' <=> d \in m_connections
  BY <1>1
<1>5. ASSUME NEW d \in Conns
      PROVE  LifeConn(d)'
  <2>1. LifeConn(d)
    BY DEF LifeInv
  <2>2. d \in m_connections => d \in m_connections' \/ Queued(loop[d], Ds(d))'
    <3>1. CASE d = c
      BY <1>2, <3>1
    <3>2. CASE d # c
      BY <1>4, <3>2
    <3> QED
      BY <3>1, <3>2
  <2> QED
    BY <1>3, <2>1, <2>2, LifeSame
<1> QED
  BY <1>5 DEF LifeInv

LEMMA LifeHandleEnd ==
    ASSUME Reach, LifeInv, NEW l \in AllLoops, HandleEnd(l)
    PROVE  LifeInv'
<1>1. PICK c \in Conns :
         /\ Handling(l, c)
         /\ IF CloseFailure(c) # ""
            THEN Fail(CloseFailure(c))
            ELSE /\ HandleClose(c)
                 /\ Handled(l, c)
                 /\ UNCHANGED <<stateVars, at, cur, batch, historyVars>>
                 /\ m_delay' = m_delay
  BY DEF HandleEnd, HandleClose, RemoveConnectionInLoop, serverVars
<1>2. CASE CloseFailure(c) # ""
  BY <1>1, <1>2, LifeFails
<1>3. CASE CloseFailure(c) = ""
  <2>1. /\ SetEvents(c, {}) /\ Leaves(c) /\ Closable(c) /\ c \in active[l] /\ at[l] = "events"
        /\ active' = [active EXCEPT ![l] = @ \ {c}]
        /\ revents' = [revents EXCEPT ![c] = {}]
        /\ UNCHANGED <<m_delay, loop, ups, downs, asked, m_state, m_timer, at, cur, batch>>
    BY <1>1, <1>3, HandleCloseLeaves DEF Handled, Handling, stateVars, historyVars
  <2>2. ups[c] > 0
    BY <2>1, Established
  <2>3. loop[c] = l
    BY <2>1 DEF Reach, FlowInv, LoopOK
  <2>4. /\ active'[l] = active[l] \ {c}
        /\ \A k \in AllLoops \ {l} : active'[k] = active[k]
        /\ \A d \in Conns \ {c} : events'[d] = events[d]
    BY <2>1, Typed DEF FlowTypes, SetEvents
  <2>5. \A d \in Conns \ {c} : revents'[d] = revents[d] \/ revents' = revents
    BY <2>1
  <2>6. PICK k \in AllLoops, g \in Entry : Pushes(k, g) /\ g[2] = c /\ (g = Rm(c) \/ g = Ds(c))
    BY <2>1, <2>2, LeavesPushes
  <2>7. /\ \A m \in AllLoops, f \in Entry : Queued(m, f)' <=> Queued(m, f) \/ (m = k /\ f = g)
        /\ \A m \in AllLoops, f \in Entry : Pushes(m, f) => Queued(m, f)'
    BY <2>1, <2>6, Pushed
  <2>8. \A m \in AllLoops, d \in Conns : /\ Queued(m, Ds(d)) => Queued(m, Ds(d))'
                                         /\ ~Queued(m, Sd(d))'
    BY <2>6, <2>7, Names, ShutdownNamed DEF LifeInv
  <2> QED
    <3>1. LifeLoop(l)'
      <4>1. ~InHandler(l)'
        BY <2>1 DEF InHandler
      <4>2. ASSUME NEW d \in active'[l], "IN" \in revents'[d]
            PROVE  "IN" \in events'[d]
        <5>1. d # c /\ d \in active[l] /\ d \in Conns
          BY <2>4, <4>2, Typed DEF FlowTypes
        <5>2. revents'[d] = revents[d]
          BY <2>1, <5>1
        <5> QED
          BY <2>4, <4>2, <5>1, <5>2 DEF LifeInv, LifeLoop
      <4> QED
        BY <4>1, <4>2 DEF LifeLoop
    <3>2. \A d \in Conns \ {c} : revents'[d] = revents[d]
      BY <2>1
    <3>3. \A m \in AllLoops : LifeLoop(m)'
      BY <2>1, <2>3, <2>4, <3>1, <3>2, LifeLoops DEF InHandler
    <3> QED
      BY <2>1, <2>2, <2>7, <2>8, <3>3, LifeLeaves
<1> QED
  BY <1>2, <1>3

LEMMA LifeHandleWrite ==
    ASSUME Reach, LifeInv, NEW l \in AllLoops, HandleWrite(l)
    PROVE  LifeInv'
<1>1. PICK c \in Conns :
         /\ SetEvents(c, events[c] \ {"OUT"}) \/ UNCHANGED chanVars
         /\ Handled(l, c)
         /\ at' = [at EXCEPT ![l] = "events"]
  BY DEF HandleWrite
<1>2. UNCHANGED <<m_delay, m_state, m_timer, ups, downs, asked, m_connections, loop,
                  pend, batch, cur>>
  BY DEF HandleWrite, serverVars, stateVars, queueVars, historyVars
<1>3. \A d \in Conns : "IN" \in events'[d] <=> "IN" \in events[d]
  <2>1. CASE SetEvents(c, events[c] \ {"OUT"})
    <3>1. /\ events'[c] = events[c] \ {"OUT"}
          /\ \A d \in Conns \ {c} : events'[d] = events[d]
      BY <2>1, Typed DEF SetEvents
    <3> QED
      BY <3>1
  <2>2. CASE UNCHANGED chanVars
    BY <2>2 DEF chanVars
  <2> QED
    BY <1>1, <2>1, <2>2
<1>4. \A k \in AllLoops : active'[k] \subseteq active[k] /\ (InHandler(k)' => InHandler(k))
  BY <1>1, Typed DEF Handled, FlowTypes, InHandler
<1> QED
  <2>1. ASSUME NEW d \in Conns
        PROVE  revents'[d] = revents[d] \/ revents'[d] = {}
    BY <1>1 DEF Handled
  <2> QED
    BY <1>2, <1>3, <1>4, <2>1, LifeQuiet

LEMMA LifeEndEvents ==
    ASSUME Reach, LifeInv, NEW l \in AllLoops, EndEvents(l)
    PROVE  LifeInv'
<1>1. /\ pend' = [pend EXCEPT ![l] = <<>>] /\ batch' = [batch EXCEPT ![l] = pend[l]]
      /\ at[l] = "events"
      /\ at' = [at EXCEPT ![l] = IF pend[l] = <<>> THEN "poll" ELSE "functors"]
      /\ UNCHANGED <<m_delay, loop, m_connections, chanVars, m_state, m_timer, ups, downs,
                     asked, active, revents, cur>>
  BY DEF EndEvents, serverVars, stateVars, eventVars, historyVars
<1>2. batch[l] = <<>>
  BY <1>1 DEF Reach, FlowInv, LoopOK, RunsBatch
<1>3. \A k \in AllLoops, f \in Entry : Queued(k, f)' <=> Queued(k, f)
  BY <1>1, <1>2, Swapped
<1>4. \A c \in Conns : LifeConn(c)'
  BY <1>1, <1>3, Names, LifeSame DEF LifeInv, chanVars
<1>5. \A k \in AllLoops : InHandler(k)' => InHandler(k)
  BY <1>1, Typed DEF FlowTypes, InHandler
<1> QED
  BY <1>1, <1>3, <1>4, <1>5, ShutdownNamed DEF LifeInv, LifeLoop, chanVars

(* A functor that runs, on a loop that is in no handler.                   *)
LEMMA LifeRunLoops ==
    ASSUME Reach, LifeInv, NEW l \in AllLoops, NEW c \in Conns, loop[c] = l,
           active[l] = {}, at[l] = "functors",
           UNCHANGED <<at, cur, active, revents>>,
           \A d \in Conns \ {c} : events'[d] = events[d]
    PROVE  \A k \in AllLoops : LifeLoop(k)'
<1>1. LifeLoop(l)'
  BY DEF LifeLoop, InHandler
<1> QED
  BY <1>1, LifeLoops DEF InHandler

LEMMA LifeRunEstablished ==
    ASSUME Reach, LifeInv, NEW l \in AllLoops, RunEstablished(l)
    PROVE  LifeInv'
<1>1. PICK c \in Conns :
         /\ Running(l, "connectEstablished", c) /\ ConnectEstablished(l, c) /\ Pop(l)
         /\ UNCHANGED <<serverVars, m_timer, eventVars, pend, asked, downs>>
  BY DEF RunEstablished
<1>2. PICK h \in Entry : h = Est(c) /\ h[1] = "connectEstablished" /\ h[2] = c
  BY Names
<1>3. UNCHANGED <<m_delay, m_timer, m_connections, loop, pend, active, revents, asked, downs>>
  BY <1>1 DEF serverVars, eventVars
<1>4. Placed(l, h) /\ active[l] = {}
  BY <1>1, <1>2, Ran DEF Est
<1>5. c \in m_connections /\ loop[c] = l /\ ups[c] = 0
  <2>1. ups[c] = 0
    BY <1>1, Taken DEF Reach
  <2> QED
    BY <1>2, <1>4, <2>1 DEF Placed
<1>6. \A k \in AllLoops, f \in Entry : k # l \/ f # h => (Queued(k, f)' <=> Queued(k, f))
  BY <1>1, <1>2, <1>3, RanKeeps DEF Est
<1>7. /\ m_state'[c] = "kConnected" /\ at'[l] = "onConnection" /\ cur'[l] = c
      /\ \A k \in AllLoops \ {l} : at'[k] = at[k] /\ cur'[k] = cur[k]
      /\ \A d \in Conns \ {c} : m_state'[d] = m_state[d] /\ ups'[d] = ups[d]
  BY <1>1, Typed DEF ConnectEstablished, FlowTypes
<1>8. /\ "IN" \in events'[c]
      /\ \A d \in Conns \ {c} : events'[d] = events[d]
  BY <1>1, Typed DEF ConnectEstablished, SetEvents, FlowTypes
<1>9. downs[c] = 0 /\ LifeConn(c) /\ asked[c] = {}
  <2>1. downs[c] = 0
    BY <1>5 DEF Reach, FlowInv, ConnOK, Fresh
  <2> QED
    BY <1>5, <2>1 DEF LifeInv, LifeConn
<1>10. ASSUME NEW d \in Conns
       PROVE  LifeConn(d)'
  <2>1. CASE d # c
    BY <1>2, <1>3, <1>6, <1>7, <1>8, <2>1, Names, LifeSame DEF LifeInv
  <2>2. CASE d = c
    BY <1>3, <1>5, <1>7, <1>8, <1>9, <2>2 DEF LifeConn
  <2> QED
    BY <2>1, <2>2
<1>11. LifeLoop(l)'
  BY <1>3, <1>4, <1>7, <1>8 DEF LifeLoop
<1>12. \A k \in AllLoops : LifeLoop(k)'
  BY <1>3, <1>5, <1>7, <1>8, <1>11, LifeLoops DEF InHandler
<1>13. \A k \in AllLoops, d \in Conns : ~Queued(k, Sd(d))'
  BY <1>2, <1>6, ShutdownNamed DEF LifeInv
<1> QED
  BY <1>3, <1>10, <1>12, <1>13 DEF LifeInv

LEMMA LifeRunDestroyed ==
    ASSUME Reach, LifeInv, NEW l \in AllLoops, RunDestroyed(l)
    PROVE  LifeInv'
<1>1. PICK c \in Conns :
         /\ Running(l, "connectDestroyed", c)
         /\ \/ \E why : Fail(why)
            \/ /\ IF IsUp(c)
                     THEN /\ m_state' = [m_state EXCEPT ![c] = "kDisconnected"]
                          /\ downs' = [downs EXCEPT ![c] = @ + 1]
                     ELSE UNCHANGED <<m_state, downs>>
               /\ RemoveChannel(c)
               /\ Pop(l)
               /\ UNCHANGED <<serverVars, m_timer, at, cur, eventVars, pend, ups, asked>>
  BY DEF RunDestroyed
<1>2. CASE \E why : Fail(why)
  BY <1>2, LifeFails
<1>3. CASE ~\E why : Fail(why)
  <2>1. /\ RemoveChannel(c) /\ Pop(l)
        /\ UNCHANGED <<m_delay, m_connections, loop, m_timer, at, cur, active, revents, pend,
                       ups, asked>>
    BY <1>1, <1>3 DEF serverVars, eventVars
  <2>2. PICK h \in Entry : h = Ds(c) /\ h[1] = "connectDestroyed" /\ h[2] = c
    BY Names
  <2>3. Placed(l, h) /\ at[l] = "functors" /\ active[l] = {}
    BY <1>1, <2>1, <2>2, Ran DEF Ds
  <2>4. loop[c] = l /\ ups[c] # 0
    BY <2>2, <2>3, Typed DEF Placed
  <2>5. \A k \in AllLoops, f \in Entry : k # l \/ f # h => (Queued(k, f)' <=> Queued(k, f))
    BY <1>1, <2>1, <2>2, RanKeeps DEF Ds
  <2>6. events'[c] = {} /\ \A d \in Conns \ {c} : events'[d] = events[d]
    BY <2>1, Typed DEF RemoveChannel
  <2>7. /\ \A d \in Conns \ {c} : m_state'[d] = m_state[d] /\ downs'[d] = downs[d]
        /\ \/ IsUp(c) /\ m_state'[c] = "kDisconnected" /\ downs'[c] = 1
           \/ ~IsUp(c) /\ m_state'[c] = m_state[c] /\ downs'[c] = downs[c]
    <3>1. CASE IsUp(c)
      <4>1. downs[c] = 0
        BY <3>1 DEF IsUp, Reach, FlowInv, ConnOK
      <4>2. /\ m_state' = [m_state EXCEPT ![c] = "kDisconnected"]
            /\ downs' = [downs EXCEPT ![c] = @ + 1]
        BY <1>1, <1>3, <3>1
      <4> QED
        BY <3>1, <4>1, <4>2, Typed DEF FlowTypes
    <3>2. CASE ~IsUp(c)
      BY <1>1, <1>3, <3>2
    <3> QED
      BY <3>1, <3>2
  <2>8. ASSUME NEW d \in Conns
        PROVE  LifeConn(d)'
    <3>1. LifeConn(d)
      BY DEF LifeInv
    <3>2. CASE d # c
      BY <2>1, <2>2, <2>5, <2>6, <2>7, <3>1, <3>2, Names, LifeSame
    <3>3. CASE d = c
      <4>1. m_state[c] # "kConnected" => m_state[c] = "kDisconnected" \/ asked[c] # {}
        BY <2>4, <3>1, <3>3 DEF LifeConn
      <4> QED
        BY <2>1, <2>4, <2>6, <2>7, <3>1, <3>3, <4>1 DEF LifeConn, IsUp
    <3> QED
      BY <3>2, <3>3
  <2>9. \A k \in AllLoops : LifeLoop(k)'
    BY <2>1, <2>3, <2>4, <2>6, LifeRunLoops
  <2>10. \A k \in AllLoops, d \in Conns : ~Queued(k, Sd(d))'
    BY <2>2, <2>5, ShutdownNamed DEF LifeInv
  <2> QED
    BY <2>1, <2>8, <2>9, <2>10 DEF LifeInv
<1> QED
  BY <1>2, <1>3

LEMMA LifeRunSend ==
    ASSUME Reach, LifeInv, NEW l \in AllLoops, RunSend(l)
    PROVE  LifeInv'
<1>1. PICK c \in Conns :
         /\ Running(l, "sendInLoop", c) /\ SendInLoop(c) /\ Pop(l)
  BY DEF RunSend
<1>2. UNCHANGED <<m_delay, m_connections, loop, ups, downs, asked, m_state, m_timer, at, cur,
                  active, revents, pend>>
  BY DEF RunSend, serverVars, stateVars, eventVars, historyVars
<1>3. PICK h \in Entry : h = Snd(c) /\ h[1] = "sendInLoop" /\ h[2] = c
  BY Names
<1>4. Placed(l, h) /\ at[l] = "functors" /\ active[l] = {}
  BY <1>1, <1>3, Ran DEF Snd
<1>5. loop[c] = l
  BY <1>3, <1>4 DEF Placed
<1>6. \A k \in AllLoops, f \in Entry : k # l \/ f # h => (Queued(k, f)' <=> Queued(k, f))
  BY <1>1, <1>2, <1>3, RanKeeps DEF Snd
<1>7. /\ \A d \in Conns \ {c} : events'[d] = events[d]
      /\ \A d \in Conns : "IN" \in events'[d] => "IN" \in events[d]
  BY <1>1, SendMask
<1>8. \A d \in Conns : LifeConn(d)'
  BY <1>2, <1>3, <1>6, <1>7, Names, LifeSame DEF LifeInv
<1>9. \A k \in AllLoops : LifeLoop(k)'
  BY <1>2, <1>4, <1>5, <1>7, LifeRunLoops
<1>10. \A k \in AllLoops, d \in Conns : ~Queued(k, Sd(d))'
  BY <1>3, <1>6, ShutdownNamed DEF LifeInv
<1> QED
  BY <1>2, <1>8, <1>9, <1>10 DEF LifeInv

LEMMA LifeRunShutdown ==
    ASSUME Reach, LifeInv, NEW l \in AllLoops, RunShutdown(l)
    PROVE  FALSE
<1>1. PICK c \in Conns : Running(l, "shutdownInLoop", c) /\ Pop(l)
  BY DEF RunShutdown
<1>2. Queued(l, Sd(c))
  BY <1>1, Ran DEF Sd
<1> QED
  BY <1>2 DEF LifeInv

LEMMA LifeRunForceClose ==
    ASSUME Reach, LifeInv, NEW l \in AllLoops, RunForceClose(l)
    PROVE  LifeInv'
<1>1. PICK c \in Conns :
         /\ Running(l, "forceCloseInLoop", c)
         /\ IF Closable(c) /\ CloseFailure(c) # ""
            THEN Fail(CloseFailure(c))
            ELSE /\ IF Closable(c) THEN HandleClose(c)
                                   ELSE UNCHANGED <<serverVars, chanVars, pend>>
                 /\ Pop(l)
                 /\ UNCHANGED <<stateVars, at, cur, eventVars, historyVars>>
  BY DEF RunForceClose
<1>2. PICK h \in Entry : h = <<"forceCloseInLoop", c>> /\ h[1] = "forceCloseInLoop" /\ h[2] = c
  <2>1. "forceCloseInLoop" \in Functors
    BY DEF Functors
  <2> QED
    BY <2>1, Named
<1>3. CASE Closable(c) /\ CloseFailure(c) # ""
  BY <1>1, <1>3, LifeFails
<1>4. CASE ~(Closable(c) /\ CloseFailure(c) # "")
  <2>1. /\ Pop(l) /\ Running(l, h[1], h[2])
        /\ UNCHANGED <<m_state, m_timer, at, cur, active, revents, ups, downs, asked>>
    BY <1>1, <1>2, <1>4 DEF stateVars, eventVars, historyVars
  <2>2. Placed(l, h) /\ at[l] = "functors" /\ active[l] = {}
    BY <1>1, <1>2, <2>1, Ran
  <2>3. loop[c] = l /\ ups[c] > 0
    BY <1>2, <2>2 DEF Placed
  <2>4. CASE Closable(c)
    <3>1. Leaves(c) /\ SetEvents(c, {}) /\ loop' = loop /\ m_delay' = m_delay
      BY <1>1, <1>4, <2>4, HandleCloseLeaves DEF HandleClose, RemoveConnectionInLoop, serverVars
    <3>2. PICK k \in AllLoops, g \in Entry : Pushes(k, g) /\ g[2] = c /\ (g = Rm(c) \/ g = Ds(c))
      BY <2>1, <2>3, <3>1, LeavesPushes
    <3>3. /\ \A m \in AllLoops, f \in Entry :
               m # l \/ f # h => (Queued(m, f)' <=> Queued(m, f) \/ (m = k /\ f = g))
          /\ \A m \in AllLoops, f \in Entry : Pushes(m, f) => Queued(m, f)'
      <4>1. Pushes(k, g) /\ Running(l, "forceCloseInLoop", c) /\ Pop(l)
        BY <1>1, <2>1, <3>2
      <4> QED
        BY <1>2, <4>1, RanKeeps
    <3>4. \A m \in AllLoops, d \in Conns : /\ Queued(m, Ds(d)) => Queued(m, Ds(d))'
                                           /\ ~Queued(m, Sd(d))'
      BY <1>2, <3>2, <3>3, Names, ShutdownNamed DEF LifeInv
    <3>5. \A d \in Conns \ {c} : events'[d] = events[d]
      BY <3>1, Typed DEF SetEvents
    <3>6. \A m \in AllLoops : LifeLoop(m)'
      BY <2>1, <2>2, <2>3, <3>5, LifeRunLoops
    <3> QED
      BY <2>1, <2>3, <3>1, <3>3, <3>4, <3>6, LifeLeaves
  <2>5. CASE ~Closable(c)
    <3>1. UNCHANGED <<m_delay, loop, m_connections, chanVars, pend>>
      BY <1>1, <1>4, <2>5 DEF serverVars
    <3>2. \A k \in AllLoops, f \in Entry : k # l \/ f # h => (Queued(k, f)' <=> Queued(k, f))
      BY <1>1, <1>2, <2>1, <3>1, RanKeeps
    <3>3. \A d \in Conns : LifeConn(d)'
      BY <1>2, <2>1, <3>1, <3>2, Names, LifeSame DEF LifeInv, chanVars
    <3>4. \A k \in AllLoops, d \in Conns : ~Queued(k, Sd(d))'
      BY <1>2, <3>2, ShutdownNamed DEF LifeInv
    <3> QED
      BY <2>1, <3>1, <3>3, <3>4 DEF LifeInv, LifeLoop, InHandler, chanVars
  <2> QED
    BY <2>4, <2>5
<1> QED
  BY <1>3, <1>4

LEMMA LifeRunRemove ==
    ASSUME Reach, LifeInv, NEW l \in AllLoops, RunRemove(l)
    PROVE  LifeInv'
<1>1. PICK c \in Conns :
         /\ Running(l, "removeConnectionInLoop", c)
         /\ IF c \notin m_connections
            THEN Fail("n == 1")
            ELSE /\ RemoveConnectionInLoop(c)
                 /\ Pop(l)
                 /\ UNCHANGED <<stateVars, chanVars, at, cur, eventVars, historyVars>>
  BY DEF RunRemove
<1>2. CASE c \notin m_connections
  BY <1>1, <1>2, LifeFails
<1>3. CASE c \in m_connections
  <2>1. /\ Leaves(c) /\ Pushes(loop[c], Ds(c)) /\ Pop(l)
        /\ UNCHANGED <<m_delay, loop, m_state, m_timer, chanVars, at, cur, active, revents,
                       ups, downs, asked>>
    BY <1>1, <1>3 DEF RemoveConnectionInLoop, Leaves, Pushes, Ds, stateVars, eventVars, historyVars
  <2>2. PICK h \in Entry : h = Rm(c) /\ h[1] = "removeConnectionInLoop" /\ h[2] = c
    BY Names
  <2>3. Placed(l, h)
    BY <1>1, <2>1, <2>2, Ran DEF Rm
  <2>4. ups[c] > 0
    BY <2>2, <2>3 DEF Placed
  <2>5. PICK k \in AllLoops, g \in Entry : k = loop[c] /\ g = Ds(c)
    BY Names, Typed
  <2>6. /\ \A m \in AllLoops, f \in Entry :
             m # l \/ f # h => (Queued(m, f)' <=> Queued(m, f) \/ (m = k /\ f = g))
        /\ \A m \in AllLoops, f \in Entry : Pushes(m, f) => Queued(m, f)'
    <3>1. Pushes(k, g) /\ Running(l, "removeConnectionInLoop", c) /\ Pop(l)
      BY <1>1, <2>1, <2>5
    <3> QED
      BY <2>2, <3>1, RanKeeps DEF Rm
  <2>7. \A m \in AllLoops, d \in Conns : /\ Queued(m, Ds(d)) => Queued(m, Ds(d))'
                                         /\ ~Queued(m, Sd(d))'
    BY <2>2, <2>5, <2>6, Names, ShutdownNamed DEF LifeInv
  <2>8. \A m \in AllLoops : LifeLoop(m)'
    BY <2>1 DEF LifeInv, LifeLoop, InHandler, chanVars
  <2> QED
    BY <2>1, <2>4, <2>6, <2>7, <2>8, LifeLeaves
<1> QED
  BY <1>2, <1>3

LEMMA LifeCallback ==
    ASSUME Reach, RestTypes, LifeInv, NEW l \in AllLoops, CallbackStep(l)
    PROVE  LifeInv'
<1>1. PICK c \in Conns : c = cur[l]
  BY Typed
<1>2. CASE CallbackSend(l)
  <2>1. /\ SendInLoop(c)
        /\ UNCHANGED <<m_delay, m_state, m_timer, ups, downs, asked, m_connections, loop,
                       pend, batch, at, cur, active, revents>>
    BY <1>1, <1>2 DEF CallbackSend, serverVars, stateVars, loopVars, eventVars, queueVars,
       historyVars
  <2>2. \A d \in Conns : "IN" \in events'[d] <=> "IN" \in events[d]
    BY <2>1, SendMask
  <2> QED
    BY <2>1, <2>2, LifeQuiet DEF InHandler
<1>3. CASE CallbackShare(l)
  BY <1>3, LifeQuiet DEF CallbackShare, serverVars, stateVars, chanVars, loopVars, eventVars,
     queueVars, historyVars, InHandler
<1>4. CASE CallbackShutdown(l) \/ CallbackForceClose(l)
  <2>1. /\ InCallback(l) /\ Closable(c) /\ m_state' = [m_state EXCEPT ![c] = "kDisconnecting"]
        /\ \E op \in {"shutdown", "forceClose"} : asked' = [asked EXCEPT ![c] = @ \cup {op}]
        /\ UNCHANGED <<m_delay, m_connections, loop, m_timer, chanVars, at, cur, active,
                       revents, batch, ups, downs>>
    BY <1>1, <1>4 DEF CallbackShutdown, CallbackForceClose, Closable, serverVars, loopVars,
       eventVars, queueVars
  <2>2. PICK g \in Entry : g = <<"forceCloseInLoop", c>> /\ g[1] = "forceCloseInLoop"
    <3>1. "forceCloseInLoop" \in Functors
      BY DEF Functors
    <3> QED
      BY <3>1, Named
  <2>3. pend' = pend \/ Pushes(l, g)
    BY <1>1, <1>4, <2>2 DEF CallbackShutdown, CallbackForceClose, Pushes, loopVars, queueVars
  <2>4. \A k \in AllLoops, f \in Entry : /\ Queued(k, f) => Queued(k, f)'
                                         /\ Queued(k, f)' => Queued(k, f) \/ f = g
    <3>1. CASE pend' = pend
      BY <2>1, <3>1 DEF Queued
    <3>2. CASE Pushes(l, g)
      BY <2>1, <3>2, Pushed
    <3> QED
      BY <2>3, <3>1, <3>2
  <2>5. ups[c] # 0 /\ LifeConn(c)
    BY <2>1, Established DEF LifeInv
  <2>6. /\ m_state'[c] = "kDisconnecting" /\ asked'[c] # {}
        /\ \A d \in Conns \ {c} : m_state'[d] = m_state[d] /\ asked'[d] = asked[d]
    <3>1. m_state \in [Conns -> States]
      BY Typed
    <3>2. asked \in [Conns -> SUBSET {"shutdown", "forceClose"}]
      BY DEF RestTypes
    <3> QED
      BY <2>1, <3>1, <3>2
  <2>7. downs[c] # 1 /\ loop[c] \in AllLoops
    BY <2>1, <2>5, Typed DEF LifeConn, Closable
  <2>8. ASSUME NEW d \in Conns
        PROVE  LifeConn(d)'
    <3>1. CASE d # c
      BY <2>1, <2>4, <2>6, <3>1, Names, LifeSame DEF LifeInv, chanVars
    <3>2. CASE d = c
      BY <2>1, <2>4, <2>5, <2>6, <2>7, <3>2, Names DEF LifeConn, chanVars
    <3> QED
      BY <3>1, <3>2
  <2>9. \A k \in AllLoops, d \in Conns : ~Queued(k, Sd(d))'
    BY <2>2, <2>4, ShutdownNamed DEF LifeInv
  <2> QED
    BY <2>1, <2>8, <2>9 DEF LifeInv, LifeLoop, InHandler, chanVars
<1> QED
  BY <1>2, <1>3, <1>4 DEF CallbackStep

LEMMA LifeUser ==
    ASSUME ThreadOps \subseteq {"send"}, Reach, RestTypes, LifeInv, NEW u \in Users, UserStep(u)
    PROVE  LifeInv'
<1>1. CASE \E op \in ThreadOps, c \in Conns : UserChecks(u, op, c)
  BY <1>1, LifeQuiet DEF UserChecks, serverVars, stateVars, chanVars, loopVars, eventVars,
     queueVars, historyVars, InHandler
<1>2. CASE UserSets(u)
  <2>1. call[u] # NoCall /\ call[u][3] = "checked"
    BY <1>2 DEF UserSets
  <2> QED
    BY <2>1 DEF RestTypes
<1>3. CASE UserQueues(u)
  <2>1. /\ call[u] # NoCall
        /\ Pushes(loop[call[u][2]], <<Functor(call[u][1]), call[u][2]>>)
        /\ UNCHANGED <<m_delay, m_state, m_timer, ups, downs, asked, m_connections, loop, batch,
                       chanVars, at, cur, active, revents>>
    BY <1>3 DEF UserQueues, Pushes, serverVars, stateVars, eventVars, historyVars
  <2>2. call[u][1] = "send" /\ call[u][2] \in Conns
    BY <2>1 DEF RestTypes
  <2>3. PICK c \in Conns, k \in AllLoops, g \in Entry :
           c = call[u][2] /\ k = loop[c] /\ g = Snd(c) /\ g[1] = "sendInLoop"
    BY <2>2, Typed, Names
  <2>4. Pushes(k, g)
    BY <2>1, <2>2, <2>3 DEF Functor, Snd
  <2>5. \A m \in AllLoops, f \in Entry : Queued(m, f)' <=> Queued(m, f) \/ (m = k /\ f = g)
    BY <2>1, <2>4, Pushed
  <2>6. \A d \in Conns : LifeConn(d)'
    BY <2>1, <2>5, Names, LifeSame DEF LifeInv, chanVars
  <2>7. \A m \in AllLoops, d \in Conns : ~Queued(m, Sd(d))'
    BY <2>3, <2>5, ShutdownNamed DEF LifeInv
  <2> QED
    BY <2>1, <2>6, <2>7 DEF LifeInv, LifeLoop, InHandler, chanVars
<1> QED
  BY <1>1, <1>2, <1>3 DEF UserStep

LEMMA LifeNewConnection ==
    ASSUME Reach, LifeInv, NewConnection
    PROVE  LifeInv'
<1>1. PICK c \in Conns : c = m_connId + 1 /\ m_connId' = c
  BY Typed, ServerAssumption DEF NewConnection, Conns
<1>2. PICK l \in AllLoops :
         /\ loop' = [loop EXCEPT ![c] = l]
         /\ IF l = Base THEN ConnectEstablished(l, c) /\ UNCHANGED pend
                        ELSE QueueEstablished(l, c)
  BY <1>1 DEF NewConnection
<1>3. /\ m_connections' = m_connections \cup {c} /\ at[Base] = "events"
      /\ UNCHANGED <<m_delay, m_timer, active, revents, batch, asked, downs>>
  BY <1>1 DEF NewConnection, eventVars
<1>4. loop'[c] = l /\ \A d \in Conns \ {c} : loop'[d] = loop[d]
  BY <1>2, Typed
<1>5. ups[c] = 0
  BY <1>1, Typed DEF Reach, StreamInv, TableInv, UpBeforeUse
<1>6. events[c] = {} /\ m_timer[c] = "none" /\ downs[c] = 0 /\ asked[c] = {} /\ c \notin channels
  BY <1>5 DEF Reach, FlowInv, ConnOK, Fresh, LifeInv, LifeConn
<1>7. PICK h \in Entry : h = Est(c) /\ h[1] = "connectEstablished" /\ h[2] = c
  BY Names
<1>8. \A k \in AllLoops, f \in Entry : f # h => (Queued(k, f)' <=> Queued(k, f))
  <2>1. CASE l = Base
    BY <1>2, <1>3, <2>1 DEF Queued
  <2>2. CASE l # Base
    <3>1. Pushes(l, h)
      BY <1>2, <1>7, <2>2 DEF QueueEstablished, Pushes, Est
    <3> QED
      BY <1>3, <3>1, Pushed
  <2> QED
    BY <2>1, <2>2
<1>9. /\ \A d \in Conns \ {c} : /\ events'[d] = events[d] /\ m_state'[d] = m_state[d]
                                /\ ups'[d] = ups[d]
      /\ \/ l = Base /\ "IN" \in events'[c] /\ m_state'[c] = "kConnected"
         \/ l # Base /\ events'[c] = {} /\ m_state'[c] = "kConnecting" /\ ups'[c] = 0
  <2>1. CASE l = Base
    <3>1. /\ m_state' = [m_state EXCEPT ![c] = "kConnected"]
          /\ SetEvents(c, events[c] \cup {"IN"}) /\ ups' = [ups EXCEPT ![c] = @ + 1]
      BY <1>2, <2>1 DEF ConnectEstablished
    <3>2. "IN" \in events'[c] /\ \A d \in Conns \ {c} : events'[d] = events[d]
      BY <3>1, Typed DEF SetEvents
    <3> QED
      BY <2>1, <3>1, <3>2, Typed
  <2>2. CASE l # Base
    BY <1>2, <1>5, <1>6, <2>2, Typed DEF QueueEstablished, chanVars
  <2> QED
    BY <2>1, <2>2
<1>10. ASSUME NEW d \in Conns
       PROVE  LifeConn(d)'
  <2>1. CASE d # c
    BY <1>3, <1>4, <1>7, <1>8, <1>9, <2>1, Names, LifeSame DEF LifeInv
  <2>2. CASE d = c
    BY <1>3, <1>6, <1>9, <2>2 DEF LifeConn
  <2> QED
    BY <2>1, <2>2
<1>11. ASSUME NEW k \in AllLoops
       PROVE  LifeLoop(k)'
  <2>1. LifeLoop(k) /\ LoopOK(k) /\ cur[k] \in Conns /\ active[k] \subseteq Conns
    BY Typed DEF LifeInv, FlowTypes, Reach, FlowInv
  <2>2. c \notin active[k] /\ (InHandler(k) => cur[k] # c)
    BY <1>6, <2>1 DEF LoopOK
  <2>3. ASSUME NEW d \in active'[k], "IN" \in revents'[d]
        PROVE  "IN" \in events'[d]
    BY <1>3, <1>9, <2>1, <2>2, <2>3 DEF LifeLoop
  <2>4. InHandler(k)' => "IN" \in events'[cur'[k]]
    <3>1. CASE k = l /\ l = Base
      <4>1. cur'[k] = c
        BY <1>2, <3>1, Typed DEF ConnectEstablished
      <4> QED
        BY <1>9, <3>1, <4>1
    <3>2. CASE ~(k = l /\ l = Base)
      <4>1. at'[k] = at[k] /\ cur'[k] = cur[k]
        <5>1. CASE l = Base
          <6>1. /\ at' = [at EXCEPT ![l] = "onConnection"] /\ cur' = [cur EXCEPT ![l] = c]
                /\ k # l
            BY <1>2, <3>2, <5>1 DEF ConnectEstablished
          <6> QED
            BY <6>1, Typed DEF FlowTypes
        <5>2. CASE l # Base
          BY <1>2, <5>2 DEF QueueEstablished
        <5> QED
          BY <5>1, <5>2
      <4> QED
        BY <1>9, <2>1, <2>2, <4>1 DEF LifeLoop, InHandler
    <3> QED
      BY <3>1, <3>2
  <2> QED
    BY <2>3, <2>4 DEF LifeLoop
<1>12. \A k \in AllLoops, d \in Conns : ~Queued(k, Sd(d))'
  BY <1>7, <1>8, ShutdownNamed DEF LifeInv
<1> QED
  BY <1>3, <1>10, <1>11, <1>12 DEF LifeInv

LEMMA LifeStep ==
    ASSUME ThreadOps \subseteq {"send"}, Reach, RestTypes, LifeInv, [Next]_vars
    PROVE  LifeInv'
<1>1. CASE Start \/ UNCHANGED vars
  BY <1>1, LifeQuiet DEF Start, vars, serverVars, stateVars, chanVars, loopVars, queueVars,
     eventVars, historyVars, InHandler
<1>2. ASSUME NEW l \in AllLoops, LoopStep(l)
      PROVE  LifeInv'
  <2>1. CASE HandleFreed(l) \/ HandleReset(l)
    BY <2>1, LifeFails DEF HandleFreed, HandleReset
  <2>2. CASE EndBatch(l) \/ EndOnMessage(l) \/ EndOnConnection(l)
    <3>1. UNCHANGED <<m_delay, m_state, m_timer, ups, downs, asked, m_connections, loop, pend,
                      batch, chanVars, cur, active, revents>>
      BY <2>2 DEF EndBatch, EndOnMessage, EndOnConnection, serverVars, stateVars, eventVars,
         queueVars, historyVars, LifeInv
    <3>2. \A k \in AllLoops : InHandler(k)' => InHandler(k)
      BY <2>2, Typed DEF EndBatch, EndOnMessage, EndOnConnection, InHandler, FlowTypes
    <3> QED
      BY <3>1, <3>2, LifeQuiet DEF chanVars
  <2>3. ~RunShutdown(l)
    BY LifeRunShutdown
  <2> QED
    BY <1>2, <2>1, <2>2, <2>3, LifePoll, LifeHandleData, LifeHandleEnd, LifeHandleWrite,
       LifeEndEvents, LifeRunEstablished, LifeRunDestroyed, LifeRunSend, LifeRunForceClose,
       LifeRunRemove DEF LoopStep
<1>3. ASSUME NEW l \in AllLoops, TimerFires(l)
      PROVE  LifeInv'
  BY <1>3 DEF TimerFires, LifeInv, LifeConn
<1>4. ASSUME NEW c \in Conns, UserDrops(c) \/ PeerStep(c)
      PROVE  LifeInv'
  BY <1>4, LifeQuiet DEF UserDrops, PeerStep, PeerSends, PeerReads, PeerCloses, PeerResets,
     serverVars, stateVars, chanVars, loopVars, queueVars, eventVars, historyVars, InHandler
<1> QED
  BY <1>1, <1>2, <1>3, <1>4, LifeNewConnection, LifeCallback, LifeUser DEF Next

LEMMA LifeInit == ASSUME Delays \subseteq {FALSE}, Init PROVE LifeInv
<1>1. /\ m_delay \in Delays
      /\ m_timer = [c \in Conns |-> "none"]
      /\ events = [c \in Conns |-> {}]
      /\ m_state = [c \in Conns |-> "none"]
      /\ asked = [c \in Conns |-> {}]
      /\ ups = [c \in Conns |-> 0]
      /\ downs = [c \in Conns |-> 0]
  BY DEF Init
<1>2. /\ pend = [l \in AllLoops |-> <<>>] /\ batch = [l \in AllLoops |-> <<>>]
      /\ at = [l \in AllLoops |-> "poll"] /\ active = [l \in AllLoops |-> {}]
  BY DEF Init
<1>3. \A l \in AllLoops : \A f : ~Queued(l, f)
  BY <1>2 DEF Queued, In
<1>4. \A c \in Conns : LifeConn(c)
  BY <1>1 DEF LifeConn
<1>5. \A l \in AllLoops : LifeLoop(l)
  BY <1>2 DEF LifeLoop, InHandler
<1> QED
  BY <1>1, <1>3, <1>4, <1>5 DEF LifeInv

-----------------------------------------------------------------------------
(* The server as module ConnectionLife sees it.                            *)

LifeFn == [c \in Conns |->
              IF ups[c] = 0 THEN "new"
              ELSE IF ~Alive(c) THEN "freed"
              ELSE IF downs[c] = 1 THEN "down" ELSE "up"]
CallbackFn == [c \in Conns |->
                  IF \E l \in AllLoops : InCallback(l) /\ cur[l] = c
                      THEN at[CHOOSE l \in AllLoops :
                                  InCallback(l) /\ cur[l] = c]
                      ELSE "none"]
AskedSet == {c \in Conns : asked[c] # {}}

CallbackIs(c) ==
    CallbackFn[c] = IF InCallback(loop[c]) /\ cur[loop[c]] = c THEN at[loop[c]] ELSE "none"

CallbacksAre == \A c \in Conns : CallbackIs(c)

LEMMA InCallbacks == Reach => CallbacksAre
<1> SUFFICES ASSUME Reach, NEW c \in Conns PROVE CallbackIs(c)
  BY DEF CallbacksAre
<1> DEFINE P(l) == InCallback(l) /\ cur[l] = c
<1>1. ASSUME NEW l \in AllLoops, P(l) PROVE l = loop[c]
  BY <1>1 DEF Reach, FlowInv, LoopOK, InHandler, InCallback
<1>2. loop[c] \in AllLoops
  BY Typed
<1>3. CASE P(loop[c])
  <2>1. \E l \in AllLoops : P(l)
    BY <1>2, <1>3
  <2>2. (CHOOSE l \in AllLoops : P(l)) = loop[c]
    BY <1>1, <2>1
  <2>3. CallbackFn[c] = at[CHOOSE l \in AllLoops : P(l)]
    BY <2>1 DEF CallbackFn
  <2> QED
    BY <1>3, <2>2, <2>3 DEF CallbackIs
<1>4. CASE ~P(loop[c])
  <2>1. ~\E l \in AllLoops : P(l)
    BY <1>1, <1>4
  <2> QED
    BY <1>4, <2>1 DEF CallbackFn, CallbackIs
<1> QED
  BY <1>3, <1>4

(* Two states that look alike but for the connections of D.                *)
LifeStays(D) == \A d \in Conns \ D : LifeFn'[d] = LifeFn[d]
CallbackStays(D) == \A d \in Conns \ D : CallbackFn'[d] = CallbackFn[d]

LEMMA SeenFunctions ==
    /\ DOMAIN LifeFn = Conns /\ DOMAIN CallbackFn = Conns
    /\ LifeFn = [c \in Conns |-> LifeFn[c]] /\ CallbackFn = [c \in Conns |-> CallbackFn[c]]
    /\ LifeFn' = [c \in Conns |-> LifeFn'[c]] /\ CallbackFn' = [c \in Conns |-> CallbackFn'[c]]
BY DEF LifeFn, CallbackFn

LEMMA OneLife ==
    ASSUME NEW c \in Conns, NEW v, LifeStays({c}), LifeFn'[c] = v
    PROVE  LifeFn' = [LifeFn EXCEPT ![c] = v]
<1>1. \A d \in Conns : LifeFn'[d] = [LifeFn EXCEPT ![c] = v][d]
  BY SeenFunctions DEF LifeStays
<1> QED
  BY <1>1, SeenFunctions

LEMMA OneCallback ==
    ASSUME NEW c \in Conns, NEW v, CallbackStays({c}), CallbackFn'[c] = v
    PROVE  CallbackFn' = [CallbackFn EXCEPT ![c] = v]
<1>1. \A d \in Conns : CallbackFn'[d] = [CallbackFn EXCEPT ![c] = v][d]
  BY SeenFunctions DEF CallbackStays
<1> QED
  BY <1>1, SeenFunctions

LEMMA NoLife == ASSUME LifeStays({}) PROVE LifeFn' = LifeFn
BY SeenFunctions DEF LifeStays

LEMMA NoCallback == ASSUME CallbackStays({}) PROVE CallbackFn' = CallbackFn
BY SeenFunctions DEF CallbackStays

LEMMA SeesNothing ==
    ASSUME LifeStays({}), CallbackStays({}), AskedSet' = AskedSet, wrShut' = wrShut
    PROVE  UNCHANGED Life!vars
<1>1. LifeFn' = LifeFn /\ CallbackFn' = CallbackFn
  BY NoLife, NoCallback
<1> QED
  BY <1>1 DEF Life!vars, LifeFn, CallbackFn, AskedSet

LEMMA SeesUp ==
    ASSUME NEW c \in Conns, LifeFn[c] = "new", LifeStays({c}), LifeFn'[c] = "up",
           CallbackStays({c}), CallbackFn'[c] = "onConnection",
           AskedSet' = AskedSet, wrShut' = wrShut
    PROVE  Life!Next
<1>1. /\ LifeFn' = [LifeFn EXCEPT ![c] = "up"]
      /\ CallbackFn' = [CallbackFn EXCEPT ![c] = "onConnection"]
  BY OneLife, OneCallback
<1>2. Life!ConnectionUp(c)
  BY <1>1 DEF Life!ConnectionUp, LifeFn, CallbackFn, AskedSet
<1> QED
  BY <1>2 DEF Life!Next

LEMMA SeesMessage ==
    ASSUME NEW c \in Conns, LifeFn[c] = "up", LifeStays({}), CallbackFn[c] = "none",
           CallbackStays({c}), CallbackFn'[c] = "onMessage",
           AskedSet' = AskedSet, wrShut' = wrShut
    PROVE  Life!Next
<1>1. LifeFn' = LifeFn /\ CallbackFn' = [CallbackFn EXCEPT ![c] = "onMessage"]
  BY NoLife, OneCallback
<1>2. Life!Message(c)
  BY <1>1 DEF Life!Message, LifeFn, CallbackFn, AskedSet
<1> QED
  BY <1>2 DEF Life!Next

LEMMA SeesReturn ==
    ASSUME NEW c \in Conns, LifeStays({}), CallbackFn[c] # "none",
           CallbackStays({c}), CallbackFn'[c] = "none",
           AskedSet' = AskedSet, wrShut' = wrShut
    PROVE  Life!Next
<1>1. LifeFn' = LifeFn /\ CallbackFn' = [CallbackFn EXCEPT ![c] = "none"]
  BY NoLife, OneCallback
<1>2. Life!Return(c)
  BY <1>1 DEF Life!Return, LifeFn, CallbackFn, AskedSet
<1> QED
  BY <1>2 DEF Life!Next

LEMMA SeesAsk ==
    ASSUME NEW c \in Conns, LifeStays({}), CallbackFn[c] # "none", CallbackStays({}),
           c \notin AskedSet, AskedSet' = AskedSet \cup {c},
           wrShut' \in {wrShut, [wrShut EXCEPT ![c] = TRUE]}
    PROVE  Life!Next
<1>1. LifeFn' = LifeFn /\ CallbackFn' = CallbackFn
  BY NoLife, NoCallback
<1>2. Life!AskToClose(c)
  BY <1>1 DEF Life!AskToClose, LifeFn, CallbackFn, AskedSet
<1> QED
  BY <1>2 DEF Life!Next

LEMMA SeesShut ==
    ASSUME NEW c \in Conns, LifeStays({}), CallbackStays({}), c \in AskedSet,
           LifeFn[c] = "up", AskedSet' = AskedSet, wrShut' = [wrShut EXCEPT ![c] = TRUE]
    PROVE  Life!Next
<1>1. LifeFn' = LifeFn /\ CallbackFn' = CallbackFn
  BY NoLife, NoCallback
<1>2. Life!ShutWrite(c)
  BY <1>1 DEF Life!ShutWrite, LifeFn, CallbackFn, AskedSet
<1> QED
  BY <1>2 DEF Life!Next

LEMMA SeesDown ==
    ASSUME NEW c \in Conns, LifeFn[c] = "up", LifeStays({c}), LifeFn'[c] = "down",
           CallbackFn[c] = "none", CallbackStays({}),
           AskedSet' = AskedSet, wrShut' = wrShut
    PROVE  Life!Next
<1>1. LifeFn' = [LifeFn EXCEPT ![c] = "down"] /\ CallbackFn' = CallbackFn
  BY OneLife, NoCallback
<1>2. Life!ConnectionDown(c)
  BY <1>1 DEF Life!ConnectionDown, LifeFn, CallbackFn, AskedSet
<1> QED
  BY <1>2 DEF Life!Next

LEMMA SeesFree ==
    ASSUME NEW gone \in SUBSET Conns,
           \A c \in gone : /\ LifeFn[c] = "down" \/ (LifeFn[c] = "up" /\ c \in AskedSet)
                           /\ CallbackFn[c] = "none" /\ LifeFn'[c] = "freed",
           LifeStays(gone), CallbackStays({}), AskedSet' = AskedSet, wrShut' = wrShut
    PROVE  Life!Next
<1>1. CallbackFn' = CallbackFn
  BY NoCallback
<1>2. LifeFn' = [c \in Conns |-> IF c \in gone THEN "freed" ELSE LifeFn[c]]
  BY SeenFunctions DEF LifeStays
<1>3. Life!Free(gone)
  BY <1>1, <1>2 DEF Life!Free, LifeFn, CallbackFn, AskedSet
<1> QED
  BY <1>3 DEF Life!Next

-----------------------------------------------------------------------------
(* What a step leaves as it was.                                           *)

LEMMA LifeOf ==
    \A c \in Conns : LifeFn[c] = IF ups[c] = 0 THEN "new"
                                 ELSE IF ~Alive(c) THEN "freed"
                                 ELSE IF downs[c] = 1 THEN "down" ELSE "up"
BY DEF LifeFn

LEMMA LifeOfNext ==
    \A c \in Conns : LifeFn'[c] = IF ups'[c] = 0 THEN "new"
                                  ELSE IF ~Alive(c)' THEN "freed"
                                  ELSE IF downs'[c] = 1 THEN "down" ELSE "up"
BY DEF LifeFn

LEMMA AskedStays == asked' = asked => AskedSet' = AskedSet
BY DEF AskedSet

LEMMA SameLife ==
    ASSUME NEW D, UNCHANGED <<ups, downs>>,
           \A d \in Conns \ D : ups[d] # 0 => (Alive(d)' <=> Alive(d))
    PROVE  LifeStays(D)
BY LifeOf, LifeOfNext DEF LifeStays

LEMMA SameCallback ==
    ASSUME Reach, Reach', NEW D, loop' = loop,
           \A d \in Conns \ D :
              \/ at'[loop[d]] = at[loop[d]] /\ cur'[loop[d]] = cur[loop[d]]
              \/ /\ InCallback(loop[d]) => cur[loop[d]] # d
                 /\ InCallback(loop[d])' => cur'[loop[d]] # d
    PROVE  CallbackStays(D)
<1>1. (Reach => CallbacksAre)'
  BY InCallbacks, PTL
<1>2. ASSUME NEW d \in Conns \ D
      PROVE  CallbackFn'[d] = CallbackFn[d]
  <2>1. CallbackIs(d) /\ CallbackIs(d)'
    BY <1>1, InCallbacks DEF CallbacksAre
  <2> QED
    BY <2>1 DEF CallbackIs, InCallback
<1> QED
  BY <1>2 DEF CallbackStays

(* The callbacks of a loop that moves on are its own.                      *)
LEMMA LoopCallback ==
    ASSUME Reach, Reach', NEW D, loop' = loop, NEW l \in AllLoops,
           \A k \in AllLoops \ {l} : at'[k] = at[k] /\ cur'[k] = cur[k],
           \A d \in Conns \ D : /\ InCallback(l) => cur[l] # d
                                /\ InCallback(l)' => cur'[l] # d
    PROVE  CallbackStays(D)
<1>1. \A d \in Conns : loop[d] \in AllLoops
  BY Typed
<1>2. ASSUME NEW d \in Conns \ D
      PROVE  \/ at'[loop[d]] = at[loop[d]] /\ cur'[loop[d]] = cur[loop[d]]
             \/ /\ InCallback(loop[d]) => cur[loop[d]] # d
                /\ InCallback(loop[d])' => cur'[loop[d]] # d
  <2>1. CASE loop[d] = l
    BY <2>1 DEF InCallback
  <2>2. CASE loop[d] # l
    BY <1>1, <2>2
  <2> QED
    BY <2>1, <2>2
<1> QED
  BY <1>2, SameCallback

LEMMA InItsCallback ==
    ASSUME Reach, NEW l \in AllLoops, NEW c \in Conns, loop[c] = l
    PROVE  CallbackFn[c] = IF InCallback(l) /\ cur[l] = c THEN at[l] ELSE "none"
BY InCallbacks DEF CallbacksAre, CallbackIs

LEMMA InItsCallbackNext ==
    ASSUME Reach', NEW l \in AllLoops, NEW c \in Conns, loop'[c] = l
    PROVE  CallbackFn'[c] = IF InCallback(l)' /\ cur'[l] = c THEN at'[l] ELSE "none"
<1>1. (Reach => CallbacksAre)'
  BY InCallbacks, PTL
<1> QED
  BY <1>1 DEF CallbacksAre, CallbackIs, InCallback

-----------------------------------------------------------------------------
(* Who lives.                                                              *)

LEMMA SameKeepers ==
    ASSUME UNCHANGED <<m_connections, pend, held, refs>>
    PROVE  \A d \in Conns : Alive(d)' <=> Alive(d)
BY DEF Alive, Kept, InQueue

LEMMA QueuePushed ==
    ASSUME Reach, NEW k \in AllLoops, NEW g \in Entry, Pushes(k, g)
    PROVE  \A l \in AllLoops, d \in Conns :
              InQueue(d, pend'[l]) <=> InQueue(d, pend[l]) \/ (l = k /\ g[2] = d)
<1>1. pend \in [AllLoops -> Seq(Entry)] /\ pend[k] \in Seq(Entry)
  BY Typed
<1> DEFINE q == pend[k]
           r == Append(q, g)
<1>2. /\ Len(q) \in Nat /\ DOMAIN q = 1 .. Len(q) /\ DOMAIN r = 1 .. Len(q) + 1
      /\ \A i \in 1 .. Len(q) : r[i] = q[i]
      /\ r[Len(q) + 1] = g
  BY <1>1, AppendProperties, LenProperties
<1>3. pend'[k] = r /\ \A l \in AllLoops \ {k} : pend'[l] = pend[l]
  BY <1>1 DEF Pushes
<1> HIDE DEF r
<1>4. ASSUME NEW d \in Conns
      PROVE  InQueue(d, r) <=> InQueue(d, q) \/ g[2] = d
  <2>1. ASSUME InQueue(d, r)
        PROVE  InQueue(d, q) \/ g[2] = d
    <3>1. PICK i \in DOMAIN r : r[i][2] = d
      BY <2>1 DEF InQueue
    <3>2. i = Len(q) + 1 \/ i \in 1 .. Len(q)
      BY <1>2
    <3> QED
      BY <1>2, <3>1, <3>2 DEF InQueue
  <2>2. ASSUME InQueue(d, q)
        PROVE  InQueue(d, r)
    <3>1. PICK i \in DOMAIN q : q[i][2] = d
      BY <2>2 DEF InQueue
    <3>2. i \in DOMAIN r /\ r[i] = q[i]
      BY <1>2
    <3> QED
      BY <3>1, <3>2 DEF InQueue
  <2>3. ASSUME g[2] = d
        PROVE  InQueue(d, r)
    <3>1. Len(q) + 1 \in DOMAIN r
      BY <1>2
    <3> QED
      BY <1>2, <2>3, <3>1 DEF InQueue
  <2> QED
    BY <2>1, <2>2, <2>3
<1> QED
  BY <1>3, <1>4

(* A functor that is queued keeps its connection, which was kept before.   *)
LEMMA PushKeepers ==
    ASSUME Reach, NEW k \in AllLoops, NEW g \in Entry, Pushes(k, g), Alive(g[2]),
           UNCHANGED <<held, refs>>,
           m_connections \ {g[2]} = m_connections' \ {g[2]}
    PROVE  \A d \in Conns : Alive(d)' <=> Alive(d)
<1>1. \A l \in AllLoops, d \in Conns :
         InQueue(d, pend'[l]) <=> InQueue(d, pend[l]) \/ (l = k /\ g[2] = d)
  BY QueuePushed
<1>2. ASSUME NEW d \in Conns
      PROVE  Alive(d)' <=> Alive(d)
  <2>1. CASE d = g[2]
    BY <1>1, <2>1 DEF Alive, Kept, InQueue
  <2>2. CASE d # g[2]
    BY <1>1, <2>2 DEF Alive, Kept, InQueue
  <2> QED
    BY <2>1, <2>2
<1> QED
  BY <1>2

(* doPendingFunctors keeps what was queued until the end of the batch.     *)
LEMMA SwapKeepers ==
    ASSUME Reach, NEW l \in AllLoops, EndEvents(l)
    PROVE  \A d \in Conns : Alive(d)' <=> Alive(d)
<1>1. /\ at[l] = "events"
      /\ held' = [held EXCEPT ![l] = {pend[l][i][2] : i \in DOMAIN pend[l]}]
      /\ pend' = [pend EXCEPT ![l] = <<>>]
      /\ UNCHANGED <<m_connections, refs>>
  BY DEF EndEvents, serverVars, userVars
<1>2. held[l] = {}
  BY <1>1 DEF Reach, FlowInv, LoopOK, RunsBatch
<1>3. /\ held'[l] = {pend[l][i][2] : i \in DOMAIN pend[l]} /\ pend'[l] = <<>>
      /\ \A k \in AllLoops \ {l} : held'[k] = held[k] /\ pend'[k] = pend[k]
  BY <1>1, Typed DEF FlowTypes
<1>4. ASSUME NEW d \in Conns, NEW k \in AllLoops
      PROVE  (InQueue(d, pend'[k]) \/ d \in held'[k]) <=> (InQueue(d, pend[k]) \/ d \in held[k])
  <2>1. CASE k = l
    BY <1>2, <1>3, <2>1 DEF InQueue
  <2>2. CASE k # l
    BY <1>3, <2>2
  <2> QED
    BY <2>1, <2>2
<1> QED
  BY <1>1, <1>4 DEF Alive, Kept, InQueue

-----------------------------------------------------------------------------
(* Each step of the server as a step of ConnectionLife.                    *)

Shows == Life!Next \/ UNCHANGED Life!vars

(* Nothing changes that the application or the peer could see.             *)
LEMMA ShowsNothing ==
    ASSUME Reach, Reach', UNCHANGED <<loop, ups, downs, asked, wrShut>>,
           \A d \in Conns : Alive(d)' <=> Alive(d),
           \A k \in AllLoops : \/ at'[k] = at[k] /\ cur'[k] = cur[k]
                               \/ ~InCallback(k) /\ ~InCallback(k)'
    PROVE  Shows
<1>1. LifeStays({})
  BY SameLife
<1>2. CallbackStays({})
  <2>1. \A d \in Conns : loop[d] \in AllLoops
    BY Typed
  <2> QED
    BY <2>1, SameCallback
<1> QED
  BY <1>1, <1>2, AskedStays, SeesNothing DEF Shows

LEMMA ShowsFail == ASSUME Reach, Reach', NEW why, Fail(why) PROVE Shows
BY SameKeepers, ShowsNothing DEF Fail, serverVars, dataVars, loopVars, queueVars, userVars

LEMMA ShowsQuiet ==
    ASSUME Reach, Reach', Start \/ (\E c \in Conns : PeerStep(c)) \/ UNCHANGED vars
    PROVE  Shows
BY SameKeepers, ShowsNothing DEF Start, PeerStep, PeerSends, PeerReads, PeerCloses, PeerResets,
   vars, serverVars, dataVars, loopVars, queueVars, userVars, historyVars

LEMMA ShowsPoll == ASSUME Reach, Reach', NEW l \in AllLoops, Poll(l) PROVE Shows
<1>1. at[l] = "poll" /\ at'[l] = "events" /\ \A k \in AllLoops \ {l} : at'[k] = at[k]
  BY Typed DEF Poll, FlowTypes
<1>2. \A k \in AllLoops : \/ at'[k] = at[k] /\ cur'[k] = cur[k]
                          \/ ~InCallback(k) /\ ~InCallback(k)'
  BY <1>1 DEF Poll, InCallback
<1> QED
  BY <1>2, SameKeepers, ShowsNothing DEF Poll, serverVars, dataVars, queueVars, userVars, historyVars

LEMMA ShowsHandleData ==
    ASSUME Reach, Reach', LifeInv, NEW l \in AllLoops, HandleData(l)
    PROVE  Shows
<1>1. PICK c \in Conns :
         /\ c \in active[l] /\ at[l] = "events" /\ "IN" \in revents[c] /\ Alive(c)
         /\ at' = [at EXCEPT ![l] = "onMessage"] /\ cur' = [cur EXCEPT ![l] = c]
  BY DEF HandleData, Handling, Readable
<1>2. UNCHANGED <<ups, downs, asked, wrShut, loop, m_connections, pend, held, refs>>
  BY DEF HandleData, serverVars, dataVars, queueVars, userVars, historyVars
<1>3. c \in channels /\ loop[c] = l /\ "IN" \in events[c] /\ LifeConn(c)
  BY <1>1 DEF LifeInv, LifeLoop, Reach, FlowInv, LoopOK
<1>4. LifeFn[c] = "up"
  BY <1>1, <1>3, Established, LifeOf DEF LifeConn
<1>5. /\ at'[l] = "onMessage" /\ cur'[l] = c
      /\ \A k \in AllLoops \ {l} : at'[k] = at[k] /\ cur'[k] = cur[k]
  BY <1>1, Typed DEF FlowTypes
<1>6. CallbackFn[c] = "none" /\ CallbackFn'[c] = "onMessage"
  BY <1>1, <1>2, <1>3, <1>5, InItsCallback, InItsCallbackNext DEF InCallback
<1>7. CallbackStays({c})
  BY <1>1, <1>2, <1>5, LoopCallback DEF InCallback
<1>8. LifeStays({})
  BY <1>2, SameKeepers, SameLife
<1> QED
  BY <1>2, <1>4, <1>6, <1>7, <1>8, AskedStays, SeesMessage DEF Shows

LEMMA ShowsReturn ==
    ASSUME Reach, Reach', NEW l \in AllLoops, EndOnMessage(l) \/ EndOnConnection(l)
    PROVE  Shows
<1>1. /\ InCallback(l)
      /\ \/ at' = [at EXCEPT ![l] = "write"] \/ at' = [at EXCEPT ![l] = "events"]
         \/ at' = [at EXCEPT ![l] = "functors"]
      /\ UNCHANGED <<cur, ups, downs, asked, wrShut, loop, m_connections, pend, held, refs>>
  BY DEF EndOnMessage, EndOnConnection, InCallback, serverVars, dataVars, queueVars, userVars,
     historyVars
<1>2. PICK c \in Conns : c = cur[l]
  BY Typed
<1>3. loop[c] = l
  BY <1>1, <1>2 DEF Reach, FlowInv, LoopOK, InHandler, InCallback
<1>4. ~InCallback(l)' /\ \A k \in AllLoops \ {l} : at'[k] = at[k]
  BY <1>1, Typed DEF InCallback, FlowTypes
<1>5. CallbackFn[c] # "none" /\ CallbackFn'[c] = "none"
  BY <1>1, <1>2, <1>3, <1>4, InItsCallback, InItsCallbackNext DEF InCallback
<1>6. CallbackStays({c})
  BY <1>1, <1>2, <1>4, LoopCallback
<1>7. LifeStays({})
  BY <1>1, SameKeepers, SameLife
<1> QED
  BY <1>1, <1>5, <1>6, <1>7, AskedStays, SeesReturn DEF Shows

(* Poller and Channel go on to the next channel.                           *)
LEMMA LeavesKeepers ==
    ASSUME Reach, NEW c \in Conns, Leaves(c), Alive(c), ups[c] > 0,
           UNCHANGED <<loop, ups, held, refs>>
    PROVE  \A d \in Conns : Alive(d)' <=> Alive(d)
<1>1. PICK k \in AllLoops, g \in Entry : Pushes(k, g) /\ g[2] = c
  BY LeavesPushes
<1>2. m_connections \ {g[2]} = m_connections' \ {g[2]}
  BY <1>1 DEF Leaves
<1> QED
  BY <1>1, <1>2, PushKeepers

LEMMA ShowsHandleEnd == ASSUME Reach, Reach', NEW l \in AllLoops, HandleEnd(l) PROVE Shows
<1>1. PICK c \in Conns :
         /\ Alive(c)
         /\ IF CloseFailure(c) # ""
            THEN Fail(CloseFailure(c))
            ELSE /\ HandleClose(c)
                 /\ UNCHANGED <<dataVars, at, cur, held, userVars, historyVars>>
  BY DEF HandleEnd
<1>2. CASE CloseFailure(c) # ""
  BY <1>1, <1>2, ShowsFail
<1>3. CASE CloseFailure(c) = ""
  <2>1. /\ Leaves(c) /\ Closable(c)
        /\ UNCHANGED <<loop, wrShut, at, cur, held, refs, ups, downs, asked>>
    BY <1>1, <1>3, HandleCloseLeaves DEF dataVars, userVars, historyVars
  <2>2. \A d \in Conns : Alive(d)' <=> Alive(d)
    BY <1>1, <2>1, Established, LeavesKeepers
  <2> QED
    BY <2>1, <2>2, ShowsNothing
<1> QED
  BY <1>2, <1>3

LEMMA ShowsHandleWrite ==
    ASSUME Reach, Reach', LifeInv, NEW l \in AllLoops, HandleWrite(l)
    PROVE  Shows
<1>1. PICK c \in Conns :
         /\ \/ at[l] = "write" /\ cur[l] = c
            \/ Handling(l, c) /\ Alive(c)
         /\ at' = [at EXCEPT ![l] = "events"]
         /\ \/ wrShut' = [wrShut EXCEPT ![c] = @ \/ FALSE]
            \/ wrShut' = [wrShut EXCEPT ![c] = @ \/ TRUE] /\ m_state[c] = "kDisconnecting"
  <2>1. PICK c \in Conns :
         /\ \/ at[l] = "write" /\ cur[l] = c
            \/ Handling(l, c) /\ Alive(c) /\ revents[c] = {"OUT"}
         /\ LET n == IF "OUT" \in events[c] THEN Accepted(c, Len(out[c])) ELSE 0
                drained == n > 0 /\ n = Len(out[c])
            IN  wrShut' = [wrShut EXCEPT ![c] = @ \/ (drained /\ ShutsAfterWrite(c))]
         /\ at' = [at EXCEPT ![l] = "events"]
    BY DEF HandleWrite
  <2> DEFINE n == IF "OUT" \in events[c] THEN Accepted(c, Len(out[c])) ELSE 0
             drained == n > 0 /\ n = Len(out[c])
  <2>2. wrShut' = [wrShut EXCEPT ![c] = @ \/ (drained /\ ShutsAfterWrite(c))]
    BY <2>1
  <2> HIDE DEF drained
  <2>3. CASE drained /\ ShutsAfterWrite(c)
    BY <2>1, <2>2, <2>3 DEF ShutsAfterWrite
  <2>4. CASE ~(drained /\ ShutsAfterWrite(c))
    BY <2>1, <2>2, <2>4
  <2> QED
    BY <2>3, <2>4
<1>2. UNCHANGED <<cur, ups, downs, asked, loop, m_connections, pend, held, refs>>
  BY DEF HandleWrite, serverVars, queueVars, userVars, historyVars
<1>3. wrShut \in [Conns -> BOOLEAN]
  BY DEF Reach, StreamInv, DataInv, DataTypes
<1>4. /\ ~InCallback(l) /\ ~InCallback(l)'
      /\ \A k \in AllLoops \ {l} : at'[k] = at[k]
  BY <1>1, Typed DEF InCallback, Handling, FlowTypes
<1>5. \A d \in Conns : Alive(d)' <=> Alive(d)
  BY <1>2, SameKeepers
<1>6. CASE wrShut' = [wrShut EXCEPT ![c] = @ \/ FALSE]
  <2>1. wrShut' = wrShut
    BY <1>3, <1>6
  <2> QED
    BY <1>2, <1>4, <1>5, <2>1, ShowsNothing
<1>7. CASE wrShut' = [wrShut EXCEPT ![c] = @ \/ TRUE] /\ m_state[c] = "kDisconnecting"
  <2>1. Alive(c) /\ ups[c] # 0 /\ LifeConn(c)
    <3>1. CASE at[l] = "write" /\ cur[l] = c
      BY <3>1, LifeChannel DEF InHandler, LifeInv
    <3>2. CASE Handling(l, c) /\ Alive(c)
      <4>1. Closable(c)
        BY <1>7 DEF Closable
      <4> QED
        BY <3>2, <4>1, Established DEF LifeInv
    <3> QED
      BY <1>1, <3>1, <3>2
  <2>2. LifeFn[c] = "up" /\ c \in AskedSet
    BY <1>7, <2>1, LifeOf DEF LifeConn, AskedSet
  <2>3. wrShut' = [wrShut EXCEPT ![c] = TRUE]
    BY <1>3, <1>7
  <2>4. LifeStays({})
    BY <1>2, <1>5, SameLife
  <2>5. CallbackStays({})
    BY <1>2, <1>4, LoopCallback
  <2> QED
    BY <1>2, <2>2, <2>3, <2>4, <2>5, AskedStays, SeesShut DEF Shows
<1> QED
  BY <1>1, <1>6, <1>7

LEMMA ShowsEndEvents == ASSUME Reach, Reach', NEW l \in AllLoops, EndEvents(l) PROVE Shows
<1>1. /\ at[l] = "events" /\ at'[l] \in {"poll", "functors"}
      /\ \A k \in AllLoops \ {l} : at'[k] = at[k]
  BY Typed DEF EndEvents, FlowTypes
<1>2. \A k \in AllLoops : \/ at'[k] = at[k] /\ cur'[k] = cur[k]
                          \/ ~InCallback(k) /\ ~InCallback(k)'
  BY <1>1 DEF EndEvents, InCallback
<1> QED
  BY <1>2, SwapKeepers, ShowsNothing DEF EndEvents, serverVars, dataVars, historyVars

QueuesKeep == \A l \in AllLoops, f \in Entry : Queued(l, f) => Kept(f[2])
HandlersKeep == \A l \in AllLoops : InHandler(l) => Kept(cur[l])

LEMMA WhatKeeps == Reach /\ LifeInv => QueuesKeep /\ HandlersKeep
<1> SUFFICES ASSUME Reach, LifeInv PROVE QueuesKeep /\ HandlersKeep
  OBVIOUS
<1>1. QueuesKeep
  BY QueuedKeeps DEF QueuesKeep
<1>2. HandlersKeep
  BY Typed, LifeChannel DEF HandlersKeep
<1> QED
  BY <1>1, <1>2

(* What the server lets go of is down, or the application asked for it.    *)
LEMMA ShowsFree ==
    ASSUME Reach, Reach', LifeInv', UNCHANGED <<loop, ups, downs, asked, wrShut, m_state>>,
           \A d \in Conns : Alive(d)' => Alive(d),
           \A k \in AllLoops : \/ at'[k] = at[k] /\ cur'[k] = cur[k]
                               \/ ~InCallback(k) /\ ~InCallback(k)'
    PROVE  Shows
<1> DEFINE gone == {d \in Conns : ups[d] # 0 /\ Alive(d) /\ ~Alive(d)'}
<1>1. \A d \in Conns : loop[d] \in AllLoops
  BY Typed
<1>2. CallbackStays({})
  BY <1>1, SameCallback
<1>3. LifeStays(gone)
  BY SameLife
<1>4. QueuesKeep' /\ HandlersKeep'
  <2>1. (Reach /\ LifeInv => QueuesKeep /\ HandlersKeep)'
    BY WhatKeeps, PTL
  <2> QED
    BY <2>1
<1>5. ASSUME NEW c \in gone
      PROVE  /\ LifeFn[c] = "down" \/ (LifeFn[c] = "up" /\ c \in AskedSet)
             /\ CallbackFn[c] = "none" /\ LifeFn'[c] = "freed"
  <2>1. (~Kept(c))' /\ c \notin refs'
    BY DEF Alive
  <2>2. ~Queued(loop[c], Ds(c))' /\ c \notin m_connections'
    <3>1. Queued(loop[c], Ds(c))' => Kept(c)'
      BY <1>1, <1>4, Names DEF QueuesKeep
    <3> QED
      BY <2>1, <3>1 DEF Kept
  <2>3. downs[c] = 1 \/ asked[c] # {}
    BY <2>2 DEF LifeInv, LifeConn
  <2>4. LifeFn[c] = "down" \/ (LifeFn[c] = "up" /\ c \in AskedSet)
    BY <2>3, LifeOf DEF AskedSet
  <2>5. LifeFn'[c] = "freed"
    BY LifeOfNext
  <2>6. CallbackFn[c] = "none"
    <3>1. ASSUME InCallback(loop[c])', cur'[loop[c]] = c
          PROVE  FALSE
      <4>1. PICK l \in AllLoops : l = loop[c]
        BY <1>1
      <4>2. Kept(cur[l])'
        BY <1>4, <3>1, <4>1 DEF HandlersKeep, InHandler, InCallback
      <4>3. cur'[l] = c
        BY <3>1, <4>1
      <4> QED
        BY <2>1, <4>2, <4>3 DEF Kept
    <3>2. CallbackFn'[c] = "none"
      BY <1>1, <3>1, InItsCallbackNext
    <3> QED
      BY <1>2, <3>2 DEF CallbackStays
  <2> QED
    BY <2>4, <2>5, <2>6
<1> HIDE DEF gone
<1>6. gone \in SUBSET Conns
  BY DEF gone
<1> QED
  BY <1>2, <1>3, <1>5, <1>6, AskedStays, SeesFree DEF Shows

LEMMA ShowsEndBatch ==
    ASSUME Reach, Reach', LifeInv', NEW l \in AllLoops, EndBatch(l)
    PROVE  Shows
<1>1. /\ at[l] = "functors" /\ at' = [at EXCEPT ![l] = "poll"] /\ held' = [held EXCEPT ![l] = {}]
      /\ UNCHANGED <<m_connections, pend, refs, cur, loop, ups, downs, asked, wrShut, m_state>>
  BY DEF EndBatch, serverVars, stateVars, dataVars, userVars, historyVars
<1>2. /\ at'[l] = "poll" /\ \A k \in AllLoops \ {l} : at'[k] = at[k]
      /\ \A k \in AllLoops : held'[k] \subseteq held[k]
  BY <1>1, Typed DEF FlowTypes
<1>3. \A d \in Conns : Alive(d)' => Alive(d)
  BY <1>1, <1>2 DEF Alive, Kept, InQueue
<1>4. \A k \in AllLoops : \/ at'[k] = at[k] /\ cur'[k] = cur[k]
                          \/ ~InCallback(k) /\ ~InCallback(k)'
  BY <1>1, <1>2 DEF InCallback
<1> QED
  BY <1>1, <1>3, <1>4, ShowsFree

LEMMA ShowsUserDrops ==
    ASSUME Reach, Reach', LifeInv', NEW c \in Conns, UserDrops(c)
    PROVE  Shows
<1>1. /\ refs' = refs \ {c}
      /\ UNCHANGED <<m_connections, pend, held, at, cur, loop, ups, downs, asked, wrShut, m_state>>
  BY DEF UserDrops, serverVars, stateVars, dataVars, loopVars, queueVars, historyVars
<1>2. \A d \in Conns : Alive(d)' => Alive(d)
  BY <1>1 DEF Alive, Kept, InQueue
<1> QED
  BY <1>1, <1>2, ShowsFree

(* A functor keeps its connection while it runs.                           *)
LEMMA RunsAlive ==
    ASSUME Reach, NEW l \in AllLoops, NEW op \in Functors, NEW c \in Conns, Running(l, op, c),
           Pop(l)
    PROVE  Alive(c) /\ Placed(l, <<op, c>>) /\ ~InCallback(l)
BY Ran DEF Alive, Kept, InCallback

LEMMA ShowsRunEstablished ==
    ASSUME Reach, Reach', LifeInv, NEW l \in AllLoops, RunEstablished(l)
    PROVE  Shows
<1>1. PICK c \in Conns :
         /\ Running(l, "connectEstablished", c) /\ ConnectEstablished(l, c) /\ Pop(l)
         /\ UNCHANGED <<serverVars, dataVars, pend, held, userVars, asked, downs>>
  BY DEF RunEstablished
<1>2. PICK h \in Entry : h = Est(c) /\ h[1] = "connectEstablished" /\ h[2] = c
  BY Names
<1>3. Placed(l, h) /\ at[l] = "functors"
  BY <1>1, <1>2, Ran DEF Est
<1>4. c \in m_connections /\ loop[c] = l /\ ups[c] = 0
  <2>1. ups[c] = 0
    BY <1>1, Taken DEF Reach
  <2> QED
    BY <1>2, <1>3, <2>1 DEF Placed
<1>5. UNCHANGED <<m_connections, loop, wrShut, pend, held, refs, asked, downs>>
  BY <1>1 DEF serverVars, dataVars, userVars
<1>6. /\ at'[l] = "onConnection" /\ cur'[l] = c
      /\ \A k \in AllLoops \ {l} : at'[k] = at[k] /\ cur'[k] = cur[k]
  BY <1>1, Typed DEF ConnectEstablished, FlowTypes
<1>7. /\ ups'[c] = 1
      /\ \A d \in Conns \ {c} : ups'[d] = ups[d]
  BY <1>1, <1>4, Typed DEF ConnectEstablished
<1>8. downs[c] = 0
  BY <1>4 DEF Reach, FlowInv, ConnOK, Fresh
<1>9. \A d \in Conns : Alive(d)' <=> Alive(d)
  BY <1>5, SameKeepers
<1>10. Alive(c)
  BY <1>4 DEF Alive, Kept
<1>11. LifeFn[c] = "new" /\ LifeFn'[c] = "up"
  <2>1. ups'[c] # 0 /\ downs'[c] # 1 /\ Alive(c)'
    BY <1>5, <1>7, <1>8, <1>9, <1>10
  <2> QED
    BY <1>4, <2>1, LifeOf, LifeOfNext
<1>12. LifeStays({c})
  BY <1>5, <1>7, <1>9, LifeOf, LifeOfNext DEF LifeStays
<1>13. CallbackFn'[c] = "onConnection"
  BY <1>4, <1>5, <1>6, InItsCallbackNext DEF InCallback
<1>14. CallbackStays({c})
  BY <1>3, <1>5, <1>6, LoopCallback DEF InCallback
<1> QED
  BY <1>5, <1>11, <1>12, <1>13, <1>14, AskedStays, SeesUp DEF Shows

LEMMA ShowsRunDestroyed ==
    ASSUME Reach, Reach', LifeInv, NEW l \in AllLoops, RunDestroyed(l)
    PROVE  Shows
<1>1. PICK c \in Conns :
         /\ Running(l, "connectDestroyed", c)
         /\ \/ \E why : Fail(why)
            \/ /\ IF IsUp(c) THEN downs' = [downs EXCEPT ![c] = @ + 1] ELSE downs' = downs
               /\ Pop(l)
               /\ UNCHANGED <<serverVars, dataVars, at, cur, pend, held, userVars, ups, asked>>
  BY DEF RunDestroyed
<1>2. CASE \E why : Fail(why)
  BY <1>2, ShowsFail
<1>3. CASE ~\E why : Fail(why)
  <2>1. /\ IF IsUp(c) THEN downs' = [downs EXCEPT ![c] = @ + 1] ELSE downs' = downs
        /\ Pop(l)
        /\ UNCHANGED <<m_connections, loop, wrShut, at, cur, pend, held, refs, ups, asked>>
    BY <1>1, <1>3 DEF serverVars, dataVars, userVars
  <2>2. Alive(c) /\ ~InCallback(l)
    <3>1. "connectDestroyed" \in Functors
      BY DEF Functors
    <3> QED
      BY <1>1, <2>1, <3>1, RunsAlive
  <2>3. PICK h \in Entry : h = Ds(c) /\ h[1] = "connectDestroyed" /\ h[2] = c
    BY Names
  <2>4. Placed(l, h)
    BY <1>1, <2>1, <2>3, Ran DEF Ds
  <2>5. loop[c] = l /\ ups[c] # 0
    BY <2>3, <2>4, Typed DEF Placed
  <2>6. \A d \in Conns : Alive(d)' <=> Alive(d)
    BY <2>1, SameKeepers
  <2>7. CASE ~IsUp(c)
    BY <2>1, <2>6, <2>7, ShowsNothing
  <2>8. CASE IsUp(c)
    <3>1. downs[c] = 0
      BY <2>8 DEF IsUp, Reach, FlowInv, ConnOK
    <3>2. downs'[c] = 1 /\ \A d \in Conns \ {c} : downs'[d] = downs[d]
      BY <2>1, <2>8, <3>1, Typed DEF FlowTypes
    <3>3. LifeFn[c] = "up" /\ LifeFn'[c] = "down"
      <4>1. downs[c] # 1 /\ ups'[c] # 0 /\ Alive(c)'
        BY <2>1, <2>2, <2>5, <2>6, <3>1
      <4> QED
        BY <2>2, <2>5, <3>2, <4>1, LifeOf, LifeOfNext
    <3>4. LifeStays({c})
      BY <2>1, <2>6, <3>2, LifeOf, LifeOfNext DEF LifeStays
    <3>5. CallbackStays({})
      BY <2>1, SameCallback
    <3>6. CallbackFn[c] = "none"
      BY <2>2, <2>5, InItsCallback
    <3> QED
      BY <2>1, <3>3, <3>4, <3>5, <3>6, AskedStays, SeesDown DEF Shows
  <2> QED
    BY <2>7, <2>8
<1> QED
  BY <1>2, <1>3

LEMMA ShowsRunSend == ASSUME Reach, Reach', NEW l \in AllLoops, RunSend(l) PROVE Shows
BY SameKeepers, ShowsNothing DEF RunSend, serverVars, userVars, historyVars

LEMMA ShowsRunForceClose ==
    ASSUME Reach, Reach', NEW l \in AllLoops, RunForceClose(l)
    PROVE  Shows
<1>1. PICK c \in Conns :
         /\ Running(l, "forceCloseInLoop", c)
         /\ IF Closable(c) /\ CloseFailure(c) # ""
            THEN Fail(CloseFailure(c))
            ELSE /\ IF Closable(c) THEN HandleClose(c)
                                   ELSE UNCHANGED <<serverVars, chanVars, pend>>
                 /\ Pop(l)
                 /\ UNCHANGED <<dataVars, at, cur, held, userVars, historyVars>>
  BY DEF RunForceClose
<1>2. CASE Closable(c) /\ CloseFailure(c) # ""
  BY <1>1, <1>2, ShowsFail
<1>3. CASE ~(Closable(c) /\ CloseFailure(c) # "")
  <2>1. /\ Pop(l)
        /\ UNCHANGED <<wrShut, at, cur, held, refs, ups, downs, asked>>
    BY <1>1, <1>3 DEF dataVars, userVars, historyVars
  <2>2. Alive(c)
    <3>1. "forceCloseInLoop" \in Functors
      BY DEF Functors
    <3> QED
      BY <1>1, <2>1, <3>1, RunsAlive
  <2>3. CASE Closable(c)
    <3>1. Leaves(c) /\ loop' = loop
      BY <1>1, <1>3, <2>3, HandleCloseLeaves
    <3>2. \A d \in Conns : Alive(d)' <=> Alive(d)
      BY <2>1, <2>2, <2>3, <3>1, Established, LeavesKeepers
    <3> QED
      BY <2>1, <3>1, <3>2, ShowsNothing
  <2>4. CASE ~Closable(c)
    BY <1>1, <2>1, <2>4, SameKeepers, ShowsNothing DEF serverVars
  <2> QED
    BY <2>3, <2>4
<1> QED
  BY <1>2, <1>3

LEMMA ShowsRunRemove ==
    ASSUME Reach, Reach', NEW l \in AllLoops, RunRemove(l)
    PROVE  Shows
<1>1. PICK c \in Conns :
         /\ Running(l, "removeConnectionInLoop", c)
         /\ IF c \notin m_connections
            THEN Fail("n == 1")
            ELSE /\ RemoveConnectionInLoop(c)
                 /\ UNCHANGED <<dataVars, at, cur, held, userVars, historyVars>>
  BY DEF RunRemove
<1>2. CASE c \notin m_connections
  BY <1>1, <1>2, ShowsFail
<1>3. CASE c \in m_connections
  <2>1. /\ m_connections' = m_connections \ {c} /\ Pushes(loop[c], Ds(c))
        /\ UNCHANGED <<loop, wrShut, at, cur, held, refs, ups, downs, asked>>
    BY <1>1, <1>3 DEF RemoveConnectionInLoop, Pushes, Ds, dataVars, userVars, historyVars
  <2>2. PICK k \in AllLoops, g \in Entry : k = loop[c] /\ g = Ds(c) /\ g[2] = c
    BY Names, Typed
  <2>3. Alive(g[2]) /\ Pushes(k, g)
    BY <1>3, <2>1, <2>2 DEF Alive, Kept
  <2>4. m_connections \ {g[2]} = m_connections' \ {g[2]}
    BY <2>1, <2>2
  <2>5. \A d \in Conns : Alive(d)' <=> Alive(d)
    BY <2>1, <2>3, <2>4, PushKeepers
  <2> QED
    BY <2>1, <2>5, ShowsNothing
<1> QED
  BY <1>2, <1>3

LEMMA ShowsNewConnection ==
    ASSUME Reach, Reach', NewConnection
    PROVE  Shows
<1>1. PICK c \in Conns : c = m_connId + 1 /\ m_connId' = c
  BY Typed, ServerAssumption DEF NewConnection, Conns
<1>2. PICK l \in AllLoops :
         /\ loop' = [loop EXCEPT ![c] = l]
         /\ IF l = Base THEN ConnectEstablished(l, c) /\ UNCHANGED pend
                        ELSE QueueEstablished(l, c)
  BY <1>1 DEF NewConnection
<1>3. /\ m_connections' = m_connections \cup {c} /\ at[Base] = "events"
      /\ UNCHANGED <<wrShut, held, refs, asked, downs>>
  BY <1>1 DEF NewConnection, dataVars, userVars
<1>4. loop'[c] = l /\ \A d \in Conns \ {c} : loop'[d] = loop[d]
  BY <1>2, Typed
<1>5. ups[c] = 0
  BY <1>1, Typed DEF Reach, StreamInv, TableInv, UpBeforeUse
<1>6. downs[c] = 0 /\ c \notin channels
  BY <1>5 DEF Reach, FlowInv, ConnOK, Fresh
<1>7. \A k \in AllLoops : InCallback(k) => cur[k] # c
  BY <1>6 DEF Reach, FlowInv, LoopOK, InHandler, InCallback
<1>8. CallbackFn[c] = "none"
  <2>1. PICK k \in AllLoops : k = loop[c]
    BY Typed
  <2> QED
    BY <1>7, <2>1, InItsCallback
<1>9. PICK h \in Entry : h = Est(c) /\ h[2] = c
  BY Names
<1>10. ASSUME NEW d \in Conns \ {c}
       PROVE  Alive(d)' <=> Alive(d)
  <2>1. \A k \in AllLoops : InQueue(d, pend'[k]) <=> InQueue(d, pend[k])
    <3>1. CASE l = Base
      BY <1>2, <3>1
    <3>2. CASE l # Base
      <4>1. Pushes(l, h)
        BY <1>2, <1>9, <3>2 DEF QueueEstablished, Pushes, Est
      <4> QED
        BY <1>9, <4>1, QueuePushed
    <3> QED
      BY <3>1, <3>2
  <2> QED
    BY <1>3, <2>1 DEF Alive, Kept, InQueue
<1>11. CASE l = Base
  <2>1. /\ at'[l] = "onConnection" /\ cur'[l] = c
        /\ \A k \in AllLoops \ {l} : at'[k] = at[k] /\ cur'[k] = cur[k]
    BY <1>2, <1>11, Typed DEF ConnectEstablished, FlowTypes
  <2>2. ups'[c] = 1 /\ \A d \in Conns \ {c} : ups'[d] = ups[d]
    BY <1>2, <1>5, <1>11, Typed DEF ConnectEstablished
  <2>3. LifeFn[c] = "new" /\ LifeFn'[c] = "up"
    <3>1. Alive(c)' /\ downs'[c] # 1 /\ ups'[c] # 0
      BY <1>3, <1>6, <2>2 DEF Alive, Kept
    <3> QED
      BY <1>5, <3>1, LifeOf, LifeOfNext
  <2>4. LifeStays({c})
    BY <1>3, <1>10, <2>2, LifeOf, LifeOfNext DEF LifeStays
  <2>5. CallbackFn'[c] = "onConnection"
    BY <1>4, <2>1, InItsCallbackNext DEF InCallback
  <2>6. CallbackStays({c})
    <3>1. ASSUME NEW d \in Conns \ {c}
          PROVE  CallbackFn'[d] = CallbackFn[d]
      <4>1. PICK k \in AllLoops : k = loop[d] /\ k = loop'[d]
        BY <1>4, Typed
      <4>2. /\ CallbackFn[d] = IF InCallback(k) /\ cur[k] = d THEN at[k] ELSE "none"
            /\ CallbackFn'[d] = IF InCallback(k)' /\ cur'[k] = d THEN at'[k] ELSE "none"
        BY <4>1, InItsCallback, InItsCallbackNext
      <4> QED
        BY <1>3, <1>11, <2>1, <4>2 DEF InCallback
    <3> QED
      BY <3>1 DEF CallbackStays
  <2> QED
    BY <1>3, <2>3, <2>4, <2>5, <2>6, AskedStays, SeesUp DEF Shows
<1>12. CASE l # Base
  <2>1. UNCHANGED <<at, cur, ups>>
    BY <1>2, <1>12 DEF QueueEstablished
  <2>2. LifeStays({})
    BY <1>3, <1>5, <1>10, <2>1, SameLife
  <2>3. CallbackStays({})
    <3>1. ASSUME NEW d \in Conns
          PROVE  CallbackFn'[d] = CallbackFn[d]
      <4>1. CASE d = c
        BY <1>4, <1>7, <1>8, <2>1, <4>1, InItsCallbackNext DEF InCallback
      <4>2. CASE d # c
        <5>1. PICK k \in AllLoops : k = loop[d] /\ k = loop'[d]
          BY <1>4, <4>2, Typed
        <5>2. /\ CallbackFn[d] = IF InCallback(k) /\ cur[k] = d THEN at[k] ELSE "none"
              /\ CallbackFn'[d] = IF InCallback(k)' /\ cur'[k] = d THEN at'[k] ELSE "none"
          BY <5>1, InItsCallback, InItsCallbackNext
        <5> QED
          BY <2>1, <5>2 DEF InCallback
      <4> QED
        BY <4>1, <4>2
    <3> QED
      BY <3>1 DEF CallbackStays
  <2> QED
    BY <1>3, <2>2, <2>3, AskedStays, SeesNothing DEF Shows
<1> QED
  BY <1>11, <1>12

LEMMA ShowsCallbackStep ==
    ASSUME Reach, Reach', RestTypes, LifeInv, NEW l \in AllLoops, CallbackStep(l)
    PROVE  Shows
<1>1. PICK c \in Conns : c = cur[l]
  BY Typed
<1>2. InCallback(l) /\ InHandler(l)
  BY DEF CallbackStep, CallbackSend, CallbackShutdown, CallbackForceClose, CallbackShare,
     InCallback, InHandler
<1>3. loop[c] = l /\ Alive(c) /\ LifeConn(c)
  BY <1>1, <1>2, LifeChannel DEF LifeInv
<1>4. CASE CallbackSend(l)
  BY <1>4, SameKeepers, ShowsNothing DEF CallbackSend, serverVars, loopVars, queueVars, userVars,
     historyVars
<1>5. CASE CallbackShare(l)
  <2>1. /\ refs' = refs \cup {c}
        /\ UNCHANGED <<m_connections, pend, held, at, cur, loop, ups, downs, asked, wrShut>>
    BY <1>1, <1>5 DEF CallbackShare, serverVars, dataVars, loopVars, queueVars, historyVars
  <2>2. \A d \in Conns : Alive(d)' <=> Alive(d)
    BY <1>3, <2>1 DEF Alive, Kept, InQueue
  <2> QED
    BY <2>1, <2>2, ShowsNothing
<1>6. CallbackFn[c] # "none"
  BY <1>1, <1>2, <1>3, InItsCallback DEF InCallback
<1>7. asked \in [Conns -> SUBSET {"shutdown", "forceClose"}] /\ wrShut \in [Conns -> BOOLEAN]
  BY DEF RestTypes, Reach, StreamInv, DataInv, DataTypes
<1>8. CASE CallbackShutdown(l)
  <2>1. /\ m_state[c] = "kConnected" /\ asked' = [asked EXCEPT ![c] = @ \cup {"shutdown"}]
        /\ wrShut' = [wrShut EXCEPT ![c] = @ \/ "OUT" \notin events[c]]
        /\ UNCHANGED <<m_connections, pend, held, refs, at, cur, loop, ups, downs>>
    BY <1>1, <1>8 DEF CallbackShutdown, ShutdownInLoop, serverVars, loopVars, queueVars, userVars
  <2>2. c \notin AskedSet /\ AskedSet' = AskedSet \cup {c}
    BY <1>3, <1>7, <2>1 DEF AskedSet, LifeConn
  <2>3. wrShut' \in {wrShut, [wrShut EXCEPT ![c] = TRUE]}
    BY <1>7, <2>1
  <2>4. LifeStays({}) /\ CallbackStays({})
    BY <2>1, SameKeepers, SameLife, SameCallback
  <2> QED
    BY <1>6, <2>2, <2>3, <2>4, SeesAsk DEF Shows
<1>9. CASE CallbackForceClose(l)
  <2>1. /\ asked' = [asked EXCEPT ![c] = @ \cup {"forceClose"}]
        /\ pend' = [pend EXCEPT ![l] = Append(@, <<"forceCloseInLoop", c>>)]
        /\ UNCHANGED <<m_connections, held, refs, at, cur, loop, ups, downs, wrShut>>
    BY <1>1, <1>9 DEF CallbackForceClose, serverVars, dataVars
  <2>2. PICK g \in Entry : g = <<"forceCloseInLoop", c>> /\ g[2] = c
    <3>1. "forceCloseInLoop" \in Functors
      BY DEF Functors
    <3> QED
      BY <3>1, Named
  <2>3. Pushes(l, g) /\ Alive(g[2])
    BY <1>3, <2>1, <2>2 DEF Pushes
  <2>4. \A d \in Conns : Alive(d)' <=> Alive(d)
    BY <2>1, <2>3, PushKeepers
  <2>5. LifeStays({}) /\ CallbackStays({})
    BY <2>1, <2>4, SameLife, SameCallback
  <2>6. AskedSet' = AskedSet \cup {c}
    BY <1>7, <2>1 DEF AskedSet
  <2>7. CASE c \in AskedSet
    <3>1. AskedSet' = AskedSet
      BY <2>6, <2>7
    <3> QED
      BY <2>1, <2>5, <3>1, SeesNothing DEF Shows
  <2>8. CASE c \notin AskedSet
    BY <1>6, <2>1, <2>5, <2>6, <2>8, SeesAsk DEF Shows
  <2> QED
    BY <2>7, <2>8
<1> QED
  BY <1>4, <1>5, <1>8, <1>9 DEF CallbackStep

LEMMA ShowsUserStep ==
    ASSUME ThreadOps \subseteq {"send"}, Reach, Reach', RestTypes, NEW u \in Users, UserStep(u)
    PROVE  Shows
<1>1. CASE \E op \in ThreadOps, c \in Conns : UserChecks(u, op, c)
  BY <1>1, SameKeepers, ShowsNothing DEF UserChecks, serverVars, dataVars, loopVars, queueVars,
     historyVars
<1>2. CASE UserSets(u)
  <2>1. call[u] # NoCall /\ call[u][3] = "checked"
    BY <1>2 DEF UserSets
  <2> QED
    BY <2>1 DEF RestTypes
<1>3. CASE UserQueues(u)
  <2>1. /\ call[u] # NoCall
        /\ Pushes(loop[call[u][2]], <<Functor(call[u][1]), call[u][2]>>)
        /\ UNCHANGED <<m_connections, loop, held, refs, at, cur, ups, downs, asked, wrShut>>
    BY <1>3 DEF UserQueues, Pushes, serverVars, dataVars, historyVars
  <2>2. call[u][1] = "send" /\ call[u][2] \in Conns /\ call[u][2] \in refs
    BY <2>1 DEF RestTypes, Reach, FlowInv, CallOK
  <2>3. PICK c \in Conns, k \in AllLoops, g \in Entry :
           c = call[u][2] /\ k = loop[c] /\ g = Snd(c) /\ g[2] = c
    BY <2>2, Typed, Names
  <2>4. Pushes(k, g) /\ Alive(g[2])
    BY <2>1, <2>2, <2>3 DEF Functor, Snd, Alive
  <2>5. \A d \in Conns : Alive(d)' <=> Alive(d)
    BY <2>1, <2>4, PushKeepers
  <2> QED
    BY <2>1, <2>5, ShowsNothing
<1> QED
  BY <1>1, <1>2, <1>3 DEF UserStep

LEMMA LifeShows ==
    ASSUME ThreadOps \subseteq {"send"}, Reach, Reach', RestTypes, LifeInv, LifeInv', [Next]_vars
    PROVE  [Life!Next]_(Life!vars)
<1>1. ASSUME NEW l \in AllLoops, LoopStep(l)
      PROVE  Shows
  <2>1. CASE HandleFreed(l) \/ HandleReset(l)
    BY <2>1, ShowsFail DEF HandleFreed, HandleReset
  <2>2. ~RunShutdown(l)
    BY LifeRunShutdown
  <2> QED
    BY <1>1, <2>1, <2>2, ShowsPoll, ShowsHandleData, ShowsHandleEnd, ShowsHandleWrite,
       ShowsEndEvents, ShowsEndBatch, ShowsRunEstablished, ShowsRunDestroyed, ShowsRunSend,
       ShowsRunForceClose, ShowsRunRemove, ShowsReturn DEF LoopStep
<1>2. ASSUME NEW l \in AllLoops, TimerFires(l)
      PROVE  Shows
  BY <1>2 DEF TimerFires, LifeInv, LifeConn
<1>3. Shows
  BY <1>1, <1>2, ShowsQuiet, ShowsNewConnection, ShowsCallbackStep, ShowsUserStep,
     ShowsUserDrops DEF Next
<1> QED
  BY <1>3 DEF Shows

LEMMA LifeBegins == Init => Life!Init
<1> SUFFICES ASSUME Init PROVE Life!Init
  OBVIOUS
<1>1. /\ wrShut = [c \in Conns |-> FALSE] /\ asked = [c \in Conns |-> {}]
      /\ ups = [c \in Conns |-> 0] /\ at = [l \in AllLoops |-> "poll"]
  BY DEF Init
<1>2. LifeFn = [c \in Conns |-> "new"]
  BY <1>1 DEF LifeFn
<1>3. CallbackFn = [c \in Conns |-> "none"]
  BY <1>1 DEF CallbackFn, InCallback
<1>4. AskedSet = {}
  BY <1>1 DEF AskedSet
<1> QED
  BY <1>1, <1>2, <1>3, <1>4 DEF Life!Init, LifeFn, CallbackFn, AskedSet

(* newConnection, connectEstablished, handleRead, handleClose,             *)
(* connectDestroyed and the functors between the loops: when no delay is   *)
(* set and other threads only send, the server keeps module                *)
(* ConnectionLife's promise about the callbacks of every connection, its   *)
(* end and its FIN, on any number of loops.                                *)
THEOREM ServerKeepsConnectionLife ==
    ASSUME Delays \subseteq {FALSE}, ThreadOps \subseteq {"send"}
    PROVE  Spec => ImplementsConnectionLife
<1>1. Init => LifeInv
  BY LifeInit
<1>2. Reach /\ RestTypes /\ LifeInv /\ [Next]_vars => LifeInv'
  BY LifeStep
<1>3. Reach /\ Reach' /\ RestTypes /\ LifeInv /\ LifeInv' /\ [Next]_vars => [Life!Next]_(Life!vars)
  BY LifeShows
<1> QED
  BY <1>1, <1>2, <1>3, LifeBegins, Reached, RestHolds, PTL
  DEF Spec, ImplementsConnectionLife, Life!Spec

==============================================================================
