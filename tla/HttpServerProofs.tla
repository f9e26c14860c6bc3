-------------------------- MODULE HttpServerProofs --------------------------
(***************************************************************************)
(* Theorems of HttpServer, and of the parser it gives every message to.    *)
(*                                                                         *)
(*   RepliesInv  where the responses end: all of them but the last have a  *)
(*               length, and the last is the end of the connection if it   *)
(*               has none                                                  *)
(*   AskInv      as long as every piece was a whole request, unread is     *)
(*               what the requests of asked say, one after the other       *)
(*                                                                         *)
(* That parse() understands a request is proved along its text: At says    *)
(* where in a message a text stands, Stands what the parser is behind so   *)
(* many symbols, Knows what it has read by then.  One lemma reads each     *)
(* part of a request; lists of parameters and of headers are read element  *)
(* by element (NoneBad, the induction on the naturals).  A piece may end   *)
(* anywhere behind the request line, or begin another request behind this  *)
(* one: KnowsLine says what no later round takes back once the line is     *)
(* read, KnowsHead what none does behind the blank line.                   *)
(***************************************************************************)
EXTENDS HttpServer, SequenceTheorems, WellFoundedInduction, TLAPS

-----------------------------------------------------------------------------
(* Induction on naturals, by least counterexample.                         *)

LEMMA Least ==
    ASSUME NEW T \in SUBSET Nat, T # {}
    PROVE  \E n \in T : \A m \in T : n <= m
<1>1. PICK n \in T : \A m \in T : ~ (<<m, n>> \in OpToRel(<, Nat))
  BY WFMin, NatLessThanWellFounded
<1>2. \A m \in T : ~(m < n)
  BY <1>1 DEF OpToRel
<1> QED
  BY <1>2

(* If 0 is not in T and no n + 1 is unless n is, no number up to m is.     *)
LEMMA NoneBad ==
    ASSUME NEW m \in Nat, NEW T \in SUBSET (0 .. m), 0 \notin T,
           \A n \in 1 .. m : n \in T => n - 1 \in T
    PROVE  T = {}
<1> SUFFICES ASSUME T # {} PROVE FALSE
  OBVIOUS
<1>1. PICK n \in T : \A k \in T : n <= k
  BY Least
<1>2. n \in 1 .. m
  OBVIOUS
<1> QED
  BY <1>1, <1>2

-----------------------------------------------------------------------------
(* Where the responses end.                                                *)

Ends == [byApp : BOOLEAN, end : [length : BOOLEAN, close : BOOLEAN]]

RepliesInv ==
    /\ m_state \in {"kConnected", "kDisconnecting"}
    /\ replies \in Seq(Ends)
    /\ ResponsesDelimited

(* Every step keeps RepliesInv.                                            *)
LEMMA RepliesStep == RepliesInv /\ [Next]_vars => RepliesInv'
<1> SUFFICES ASSUME RepliesInv, [Next]_vars
             PROVE  RepliesInv'
  OBVIOUS
<1>1. CASE UNCHANGED vars
  BY <1>1 DEF vars, RepliesInv, ResponsesDelimited
<1>2. ASSUME NEW r \in Requests, SendRequest(r)
      PROVE  RepliesInv'
  BY <1>2 DEF SendRequest, RepliesInv, ResponsesDelimited
<1>3. ASSUME NEW n \in 1 .. Len(unread), OnMessage(n)
      PROVE  RepliesInv'
  <2>1. PICK app \in BOOLEAN, close \in BOOLEAN :
           /\ Reply([byApp |-> app, end |-> dump(IF app THEN ~close ELSE close)])
           /\ m_state' = IF close THEN "kDisconnecting" ELSE m_state
    <3> DEFINE request == parse(SubSeq(unread, 1, n))
    <3>1. PICK version \in IF request.m_version = Unset THEN {"Http10", "Http11"}
                           ELSE {request.m_version},
               app \in BOOLEAN :
            LET close == WantsClose(request, version)
                closeConnection == IF app THEN ~close ELSE close
            IN /\ Reply([byApp |-> app, end |-> dump(closeConnection)])
               /\ m_state' = IF close THEN "kDisconnecting" ELSE m_state
      BY <1>3 DEF OnMessage
    <3> HIDE DEF request
    <3>2. WantsClose(request, version) \in BOOLEAN
      BY DEF WantsClose
    <3> QED
      BY <3>1, <3>2
  <2> DEFINE x == [byApp |-> app, end |-> dump(IF app THEN ~close ELSE close)]
  <2>2. /\ x \in Ends
        /\ x.byApp = app
        /\ ~app => x.end.length = ~close
    BY DEF dump, Ends
  <2> HIDE DEF x
  <2>3. /\ m_state \in {"kConnected", "kDisconnecting"}
        /\ replies \in Seq(Ends)
        /\ Len(replies) \in Nat
        /\ DOMAIN replies = 1 .. Len(replies)
    BY DEF RepliesInv
  <2>4. CASE m_state # "kConnected"
    <3>1. replies' = replies /\ m_state' = m_state
      BY <2>1, <2>3, <2>4 DEF Reply
    <3> QED
      BY <3>1 DEF RepliesInv, ResponsesDelimited
  <2>5. CASE m_state = "kConnected"
    <3>1. /\ replies' = Append(replies, x)
          /\ m_state' = IF close THEN "kDisconnecting" ELSE "kConnected"
      BY <2>1, <2>5 DEF Reply, x
    <3>2. /\ replies' \in Seq(Ends)
          /\ Len(replies') = Len(replies) + 1
          /\ DOMAIN replies' = 1 .. Len(replies')
          /\ replies'[Len(replies) + 1] = x
          /\ \A k \in 1 .. Len(replies) : replies'[k] = replies[k]
      BY <3>1, <2>2, <2>3, AppendProperties
    <3>3. ASSUME NEW k \in DOMAIN replies'
          PROVE  \/ replies'[k].byApp
                 \/ IF replies'[k].end.length
                    THEN k = Len(replies') => m_state' = "kConnected"
                    ELSE k = Len(replies') /\ m_state' = "kDisconnecting"
      <4>1. CASE k = Len(replies) + 1
        BY <4>1, <3>1, <3>2, <2>2
      <4>2. CASE k # Len(replies) + 1
        <5>1. k \in DOMAIN replies /\ k # Len(replies') /\ replies'[k] = replies[k]
          BY <4>2, <2>3, <3>2
        <5>2. replies[k].byApp \/ replies[k].end.length
          BY <5>1, <2>5 DEF RepliesInv, ResponsesDelimited
        <5> QED
          BY <5>1, <5>2
      <4> QED
        BY <4>1, <4>2
    <3> QED
      BY <3>1, <3>2, <3>3 DEF RepliesInv, ResponsesDelimited
  <2> QED
    BY <2>4, <2>5
<1> QED
  BY <1>1, <1>2, <1>3 DEF Next

(* send(), shutdown() and dump(): the client of a connection, whatever it  *)
(* asks and however its bytes arrive, can tell where each response ends.   *)
THEOREM ResponsesEnd == Spec => []ResponsesDelimited
<1>1. Init => RepliesInv
  BY DEF Init, RepliesInv, ResponsesDelimited
<1>2. RepliesInv => ResponsesDelimited
  BY DEF RepliesInv
<1> QED
  BY <1>1, <1>2, RepliesStep, PTL DEF Spec

-----------------------------------------------------------------------------
(* Concatenation of texts.                                                *)

(* FlattenSeq's recursion over the prefixes of s.                          *)
Flattens(f, s) ==
    f = [i \in 1 .. Len(s) |-> IF i = 1 THEN s[i] ELSE f[i - 1] \o s[i]]

LEMMA FlattensOnce ==
    ASSUME NEW s \in Seq(Texts), NEW f, NEW g, Flattens(f, s), Flattens(g, s)
    PROVE  f = g
<1> DEFINE T == {i \in 1 .. Len(s) : f[i] # g[i]}
<1>1. Len(s) \in Nat
  OBVIOUS
<1>2. /\ \A i \in 1 .. Len(s) : f[i] = IF i = 1 THEN s[i] ELSE f[i - 1] \o s[i]
      /\ \A i \in 1 .. Len(s) : g[i] = IF i = 1 THEN s[i] ELSE g[i - 1] \o s[i]
  BY DEF Flattens
<1>3. T = {}
  <2> SUFFICES ASSUME T # {} PROVE FALSE
    OBVIOUS
  <2>1. PICK n \in T : \A m \in T : n <= m
    <3>1. T \in SUBSET Nat
      BY <1>1
    <3> HIDE DEF T
    <3> QED
      BY <3>1, Least
  <2>2. CASE n = 1
    BY <1>2, <2>2
  <2>3. CASE n # 1
    <3>1. n - 1 \in 1 .. Len(s) /\ ~(n <= n - 1) /\ n \in 1 .. Len(s)
      BY <1>1, <2>3
    <3>2. f[n - 1] = g[n - 1]
      BY <2>1, <3>1
    <3> QED
      BY <1>2, <2>1, <2>3, <3>1, <3>2
  <2> QED
    BY <2>2, <2>3
<1>4. /\ f = [i \in 1 .. Len(s) |-> f[i]]
      /\ g = [i \in 1 .. Len(s) |-> g[i]]
  BY DEF Flattens
<1> QED
  BY <1>3, <1>4

LEMMA FlattenIs ==
    ASSUME NEW s \in Seq(Texts), Len(s) # 0, NEW f, Flattens(f, s)
    PROVE  FlattenSeq(s) = f[Len(s)]
<1> DEFINE g == CHOOSE h : h = [i \in 1 .. Len(s) |->
                                   IF i = 1 THEN s[i] ELSE h[i - 1] \o s[i]]
<1>1. FlattenSeq(s) = g[Len(s)]
  BY DEF FlattenSeq
<1>2. Flattens(g, s)
  BY DEF Flattens
<1> QED
  BY <1>1, <1>2, FlattensOnce

(* One more text, one more step of the recursion.                        *)
LEMMA FlattensMore ==
    ASSUME NEW s \in Seq(Texts), NEW b \in Texts, NEW f \in [1 .. Len(s) -> Texts],
           Flattens(f, s)
    PROVE  \E g \in [1 .. Len(s) + 1 -> Texts] :
              /\ Flattens(g, Append(s, b))
              /\ g[Len(s) + 1] = IF Len(s) = 0 THEN b ELSE f[Len(s)] \o b
<1> DEFINE n == Len(s)
           x == IF n = 0 THEN b ELSE f[n] \o b
           g == [i \in 1 .. n + 1 |-> IF i = n + 1 THEN x ELSE f[i]]
           t == Append(s, b)
<1>1. n \in Nat /\ Len(t) = n + 1 /\ t[n + 1] = b /\ \A i \in 1 .. n : t[i] = s[i]
  BY AppendProperties, LenProperties
<1>2. x \in Texts
  <2>1. CASE n = 0
    BY <2>1
  <2>2. CASE n # 0
    <3>1. f[n] \in Texts
      BY <1>1, <2>2
    <3> QED
      BY <2>2, <3>1 DEF Texts
  <2> QED
    BY <2>1, <2>2
<1> HIDE DEF n, x, t
<1>3. g \in [1 .. n + 1 -> Texts]
  BY <1>1, <1>2 DEF n
<1>4. \A i \in 1 .. n : f[i] = IF i = 1 THEN s[i] ELSE f[i - 1] \o s[i]
  BY DEF Flattens, n
<1>5. ASSUME NEW i \in 1 .. n + 1
      PROVE  g[i] = IF i = 1 THEN t[i] ELSE g[i - 1] \o t[i]
  <2>1. CASE i = n + 1
    <3>1. g[i] = x /\ t[i] = b
      BY <1>1, <2>1
    <3>2. CASE n = 0
      BY <2>1, <3>1, <3>2 DEF x
    <3>3. CASE n # 0
      <4>1. n \in 1 .. n + 1 /\ n # n + 1 /\ i - 1 = n /\ i # 1
        BY <1>1, <2>1, <3>3
      <4>2. g[n] = f[n]
        BY <4>1
      <4> QED
        BY <3>1, <3>3, <4>1, <4>2 DEF x
    <3> QED
      BY <3>2, <3>3
  <2>2. CASE i # n + 1
    <3>1. i \in 1 .. n /\ g[i] = f[i] /\ t[i] = s[i]
      BY <1>1, <2>2
    <3>2. CASE i = 1
      BY <1>4, <3>1, <3>2
    <3>3. CASE i # 1
      <4>1. i - 1 \in 1 .. n + 1 /\ i - 1 # n + 1
        BY <1>1, <3>1, <3>3
      <4>2. g[i - 1] = f[i - 1]
        BY <4>1
      <4> QED
        BY <1>4, <3>1, <3>3, <4>2
    <3> QED
      BY <3>2, <3>3
  <2> QED
    BY <2>1, <2>2
<1>6. g[n + 1] = x
  BY <1>1
<1>7. g = [i \in 1 .. n + 1 |-> g[i]]
  OBVIOUS
<1> HIDE DEF g
<1>8. g = [i \in 1 .. n + 1 |-> IF i = 1 THEN t[i] ELSE g[i - 1] \o t[i]]
  BY <1>5, <1>7
<1>9. Flattens(g, t)
  BY <1>1, <1>8 DEF Flattens
<1> QED
  BY <1>3, <1>6, <1>9 DEF n, x, t

LEMMA FlattensAll ==
    ASSUME NEW s \in Seq(Texts)
    PROVE  \E f \in [1 .. Len(s) -> Texts] : Flattens(f, s)
<1> DEFINE Bad(t) == ~\E f \in [1 .. Len(t) -> Texts] : Flattens(f, t)
           T == {n \in Nat : \E t \in Seq(Texts) : Len(t) = n /\ Bad(t)}
<1>1. T = {}
  <2> SUFFICES ASSUME T # {} PROVE FALSE
    OBVIOUS
  <2>1. PICK n \in T : \A m \in T : n <= m
    BY Least
  <2>2. PICK t \in Seq(Texts) : Len(t) = n /\ Bad(t)
    OBVIOUS
  <2>3. CASE n = 0
    <3>1. [i \in 1 .. Len(t) |-> <<>>] \in [1 .. Len(t) -> Texts]
      BY DEF Texts
    <3>2. Flattens([i \in 1 .. Len(t) |-> <<>>], t)
      BY <2>2, <2>3 DEF Flattens
    <3> QED
      BY <2>2, <3>1, <3>2
  <2>4. CASE n # 0
    <3> DEFINE r == SubSeq(t, 1, n - 1)
               b == t[n]
    <3>1. r \in Seq(Texts) /\ Len(r) = n - 1 /\ b \in Texts /\ n - 1 \in Nat
      BY <2>2, <2>4
    <3>2. t = Append(r, b)
      BY <2>2, <2>4
    <3> HIDE DEF r, b
    <3>3. ~Bad(r)
      <4>1. n - 1 \notin T
        BY <2>1, <3>1
      <4> QED
        BY <3>1, <4>1
    <3>4. PICK f \in [1 .. Len(r) -> Texts] : Flattens(f, r)
      BY <3>3
    <3>5. \E g \in [1 .. Len(r) + 1 -> Texts] : Flattens(g, t)
      BY <3>1, <3>2, <3>4, FlattensMore
    <3> QED
      BY <2>2, <3>1, <3>5
  <2> QED
    BY <2>3, <2>4
<1> QED
  BY <1>1

LEMMA Joins ==
    ASSUME NEW a \in Texts, NEW b \in Texts
    PROVE  /\ a \o b \in Texts
           /\ Len(a \o b) = Len(a) + Len(b)
           /\ Len(a) \in Nat
           /\ Len(b) \in Nat
           /\ \A i \in 1 .. Len(a) : (a \o b)[i] = a[i]
           /\ \A i \in 1 .. Len(b) : (a \o b)[Len(a) + i] = b[i]
BY DEF Texts

(* What FlattenSeq returns, one text after the other.                      *)
LEMMA FlattenRuns ==
    ASSUME NEW s \in Seq(Texts)
    PROVE  \E g \in [0 .. Len(s) -> Texts] :
              /\ g[0] = <<>>
              /\ \A i \in 1 .. Len(s) : g[i] = g[i - 1] \o s[i]
              /\ g[Len(s)] = FlattenSeq(s)
<1>1. PICK f \in [1 .. Len(s) -> Texts] : Flattens(f, s)
  BY FlattensAll
<1> DEFINE n == Len(s)
           g == [i \in 0 .. n |-> IF i = 0 THEN <<>> ELSE f[i]]
<1>2. n \in Nat /\ \A i \in 1 .. n : s[i] \in Texts
  OBVIOUS
<1>3. <<>> \in Texts /\ \A a \in Texts : <<>> \o a = a
  BY ConcatEmptySeq DEF Texts
<1> HIDE DEF n
<1>4. g \in [0 .. n -> Texts] /\ g[0] = <<>>
  BY <1>1, <1>2, <1>3 DEF n
<1>5. ASSUME NEW i \in 1 .. n
      PROVE  g[i] = g[i - 1] \o s[i]
  <2>1. f[i] = IF i = 1 THEN s[i] ELSE f[i - 1] \o s[i]
    BY <1>1 DEF Flattens, n
  <2>2. CASE i = 1
    <3>1. i - 1 = 0 /\ g[i] = f[i] /\ f[i] = s[i] /\ s[i] \in Texts
      BY <1>2, <2>1, <2>2
    <3>2. <<>> \o s[i] = s[i]
      BY <1>3, <3>1
    <3> HIDE DEF g
    <3> QED
      BY <1>4, <3>1, <3>2
  <2>3. CASE i # 1
    <3>1. i - 1 \in 0 .. n /\ i - 1 # 0 /\ i # 0
      BY <1>2, <2>3
    <3>2. g[i - 1] = f[i - 1] /\ g[i] = f[i]
      BY <3>1
    <3> QED
      BY <2>1, <2>3, <3>2
  <2> QED
    BY <2>2, <2>3
<1>6. g[n] = FlattenSeq(s)
  <2>1. CASE n = 0
    <3>1. s = <<>>
      BY <2>1 DEF n
    <3>2. FlattenSeq(<<>>) = <<>>
      BY DEF FlattenSeq
    <3> QED
      BY <1>4, <2>1, <3>1, <3>2
  <2>2. CASE n # 0
    <3>1. FlattenSeq(s) = f[n]
      BY <1>1, <2>2, FlattenIs DEF n
    <3> QED
      BY <1>2, <2>2, <3>1
  <2> QED
    BY <2>1, <2>2
<1> HIDE DEF g
<1> QED
  BY <1>4, <1>5, <1>6 DEF n

-----------------------------------------------------------------------------
(* parse() round by round.                                                 *)

Rounds(f, msg, n) ==
    f = [i \in 0 .. n |-> IF i = 0 THEN Blank ELSE Round(f[i - 1], msg, i)]

LEMMA RoundsGoOn ==
    ASSUME NEW msg, NEW n \in Nat, n # 0, NEW f, Rounds(f, msg, n - 1)
    PROVE  \E g : Rounds(g, msg, n)
<1> DEFINE g == [i \in 0 .. n |-> IF i = n THEN Round(f[n - 1], msg, n) ELSE f[i]]
<1>1. \A i \in 0 .. n - 1 : f[i] = IF i = 0 THEN Blank ELSE Round(f[i - 1], msg, i)
  BY DEF Rounds
<1>2. ASSUME NEW i \in 0 .. n
      PROVE  g[i] = IF i = 0 THEN Blank ELSE Round(g[i - 1], msg, i)
  <2>1. CASE i = n
    <3>1. i - 1 \in 0 .. n /\ i - 1 # n /\ i # 0
      BY <2>1
    <3>2. g[i - 1] = f[n - 1]
      BY <2>1, <3>1
    <3> QED
      BY <2>1, <3>1, <3>2
  <2>2. CASE i # n
    <3>1. i \in 0 .. n - 1 /\ g[i] = f[i]
      BY <2>2
    <3>2. CASE i = 0
      BY <1>1, <3>1, <3>2
    <3>3. CASE i # 0
      <4>1. i - 1 \in 0 .. n /\ i - 1 # n
        BY <3>1, <3>3
      <4>2. g[i - 1] = f[i - 1]
        BY <4>1
      <4> QED
        BY <1>1, <3>1, <3>3, <4>2
    <3> QED
      BY <3>2, <3>3
  <2> QED
    BY <2>1, <2>2
<1>3. g = [i \in 0 .. n |-> g[i]]
  OBVIOUS
<1> HIDE DEF g
<1>4. Rounds(g, msg, n)
  BY <1>2, <1>3 DEF Rounds
<1> QED
  BY <1>4

(* The recursion of parse() has a solution.                                *)
LEMMA RoundsExist ==
    ASSUME NEW msg, NEW m \in Nat
    PROVE  \E f : Rounds(f, msg, m)
<1> DEFINE T == {n \in 0 .. m : ~\E f : Rounds(f, msg, n)}
<1>1. 0 \notin T
  <2>1. Rounds([i \in 0 .. 0 |-> Blank], msg, 0)
    BY DEF Rounds
  <2> QED
    BY <2>1
<1>2. ASSUME NEW n \in 1 .. m, n \in T
      PROVE  n - 1 \in T
  <2>1. n \in Nat /\ n # 0 /\ n - 1 \in 0 .. m
    OBVIOUS
  <2>2. ~\E f : Rounds(f, msg, n - 1)
    BY <1>2, <2>1, RoundsGoOn
  <2> QED
    BY <2>1, <2>2
<1>3. T \in SUBSET (0 .. m)
  OBVIOUS
<1>4. T = {}
  <2> HIDE DEF T
  <2> QED
    BY <1>1, <1>2, <1>3, NoneBad
<1> QED
  BY <1>4

(* What parse() has after i symbols of msg.                                *)
After(msg) == CHOOSE f : Rounds(f, msg, Len(msg))

(* parse() is its last value, and Round takes one to the next.             *)
LEMMA ParseIs ==
    ASSUME NEW msg, Len(msg) \in Nat
    PROVE  /\ parse(msg) = After(msg)[Len(msg)]
           /\ After(msg)[0] = Blank
           /\ \A i \in 1 .. Len(msg) :
                 After(msg)[i] = Round(After(msg)[i - 1], msg, i)
<1>1. Rounds(After(msg), msg, Len(msg))
  BY RoundsExist DEF After
<1>2. parse(msg) = After(msg)[Len(msg)]
  BY DEF parse, After, Rounds
<1>3. \A i \in 0 .. Len(msg) :
         After(msg)[i] = IF i = 0 THEN Blank ELSE Round(After(msg)[i - 1], msg, i)
  <2> DEFINE f == After(msg)
  <2>1. f = [i \in 0 .. Len(msg) |-> IF i = 0 THEN Blank ELSE Round(f[i - 1], msg, i)]
    BY <1>1 DEF Rounds
  <2> HIDE DEF f
  <2>2. \A i \in 0 .. Len(msg) : f[i] = IF i = 0 THEN Blank ELSE Round(f[i - 1], msg, i)
    BY <2>1
  <2> QED
    BY <2>2 DEF f
<1> QED
  BY <1>2, <1>3

-----------------------------------------------------------------------------
(* The parser's members.                                                   *)

(* q has these members, and no others.                                     *)
Has(q, state, method, version, path, params, heads, body, begin, key, length) ==
    q = [m_state |-> state, m_method |-> method, m_version |-> version,
         m_path |-> path, m_params |-> params, m_heads |-> heads, m_body |-> body,
         begin |-> begin, key |-> key, bodyLength |-> length]

IsParser(q) ==
    Has(q, q.m_state, q.m_method, q.m_version, q.m_path, q.m_params, q.m_heads,
        q.m_body, q.begin, q.key, q.bodyLength)

(* Its members, by their names.                                            *)
LEMMA MembersAre ==
    ASSUME NEW a, NEW b, NEW c, NEW d, NEW e, NEW f, NEW g, NEW h, NEW i, NEW j,
           NEW q, Has(q, a, b, c, d, e, f, g, h, i, j)
    PROVE  /\ IsParser(q)
           /\ q.m_state = a
           /\ q.m_method = b
           /\ q.m_version = c
           /\ q.m_path = d
           /\ q.m_params = e
           /\ q.m_heads = f
           /\ q.m_body = g
           /\ q.begin = h
           /\ q.key = i
           /\ q.bodyLength = j
BY DEF IsParser, Has

(* What an assignment to a member, or to two, does.                        *)
LEMMA Assigned ==
    ASSUME NEW q, IsParser(q), NEW x
    PROVE  /\ Has(Goto(q, x), x, q.m_method, q.m_version, q.m_path,
              q.m_params, q.m_heads, q.m_body, q.begin, q.key, q.bodyLength)
           /\ Has([q EXCEPT !.begin = x], q.m_state, q.m_method, q.m_version, q.m_path,
              q.m_params, q.m_heads, q.m_body, x, q.key, q.bodyLength)
           /\ Has([q EXCEPT !.m_method = x], q.m_state, x, q.m_version, q.m_path,
              q.m_params, q.m_heads, q.m_body, q.begin, q.key, q.bodyLength)
           /\ Has([q EXCEPT !.m_version = x], q.m_state, q.m_method, x, q.m_path,
              q.m_params, q.m_heads, q.m_body, q.begin, q.key, q.bodyLength)
           /\ Has([q EXCEPT !.m_path = x], q.m_state, q.m_method, q.m_version, x,
              q.m_params, q.m_heads, q.m_body, q.begin, q.key, q.bodyLength)
           /\ Has([q EXCEPT !.m_params = x], q.m_state, q.m_method, q.m_version, q.m_path,
              x, q.m_heads, q.m_body, q.begin, q.key, q.bodyLength)
           /\ Has([q EXCEPT !.m_heads = x], q.m_state, q.m_method, q.m_version, q.m_path,
              q.m_params, x, q.m_body, q.begin, q.key, q.bodyLength)
           /\ Has([q EXCEPT !.m_body = x], q.m_state, q.m_method, q.m_version, q.m_path,
              q.m_params, q.m_heads, x, q.begin, q.key, q.bodyLength)
           /\ Has([q EXCEPT !.key = x], q.m_state, q.m_method, q.m_version, q.m_path,
              q.m_params, q.m_heads, q.m_body, q.begin, x, q.bodyLength)
           /\ Has([q EXCEPT !.bodyLength = x], q.m_state, q.m_method, q.m_version, q.m_path,
              q.m_params, q.m_heads, q.m_body, q.begin, q.key, x)
<1>1. Has(Goto(q, x), x, q.m_method, q.m_version, q.m_path,
              q.m_params, q.m_heads, q.m_body, q.begin, q.key, q.bodyLength)
  BY DEF IsParser, Has, Goto
<1>2. Has([q EXCEPT !.begin = x], q.m_state, q.m_method, q.m_version, q.m_path,
              q.m_params, q.m_heads, q.m_body, x, q.key, q.bodyLength)
  BY DEF IsParser, Has, Goto
<1>3. Has([q EXCEPT !.m_method = x], q.m_state, x, q.m_version, q.m_path,
              q.m_params, q.m_heads, q.m_body, q.begin, q.key, q.bodyLength)
  BY DEF IsParser, Has, Goto
<1>4. Has([q EXCEPT !.m_version = x], q.m_state, q.m_method, x, q.m_path,
              q.m_params, q.m_heads, q.m_body, q.begin, q.key, q.bodyLength)
  BY DEF IsParser, Has, Goto
<1>5. Has([q EXCEPT !.m_path = x], q.m_state, q.m_method, q.m_version, x,
              q.m_params, q.m_heads, q.m_body, q.begin, q.key, q.bodyLength)
  BY DEF IsParser, Has, Goto
<1>6. Has([q EXCEPT !.m_params = x], q.m_state, q.m_method, q.m_version, q.m_path,
              x, q.m_heads, q.m_body, q.begin, q.key, q.bodyLength)
  BY DEF IsParser, Has, Goto
<1>7. Has([q EXCEPT !.m_heads = x], q.m_state, q.m_method, q.m_version, q.m_path,
              q.m_params, x, q.m_body, q.begin, q.key, q.bodyLength)
  BY DEF IsParser, Has, Goto
<1>8. Has([q EXCEPT !.m_body = x], q.m_state, q.m_method, q.m_version, q.m_path,
              q.m_params, q.m_heads, x, q.begin, q.key, q.bodyLength)
  BY DEF IsParser, Has, Goto
<1>9. Has([q EXCEPT !.key = x], q.m_state, q.m_method, q.m_version, q.m_path,
              q.m_params, q.m_heads, q.m_body, q.begin, x, q.bodyLength)
  BY DEF IsParser, Has, Goto
<1>10. Has([q EXCEPT !.bodyLength = x], q.m_state, q.m_method, q.m_version, q.m_path,
              q.m_params, q.m_heads, q.m_body, q.begin, q.key, x)
  BY DEF IsParser, Has, Goto
<1> QED
  BY <1>1, <1>2, <1>3, <1>4, <1>5, <1>6, <1>7, <1>8, <1>9, <1>10

LEMMA Marked ==
    ASSUME NEW q, IsParser(q), NEW x, NEW i
    PROVE  Has(Mark(q, i, x), x, q.m_method, q.m_version, q.m_path,
              q.m_params, q.m_heads, q.m_body, i, q.key, q.bodyLength)
<1>1. PICK r : r = Goto(q, x)
  OBVIOUS
<1>2. Has(r, x, q.m_method, q.m_version, q.m_path,
              q.m_params, q.m_heads, q.m_body, q.begin, q.key, q.bodyLength)
  BY <1>1, Assigned
<1>3. Mark(q, i, x) = [r EXCEPT !.begin = i]
  BY <1>1 DEF Mark, Goto
<1> QED
  BY <1>2, <1>3 DEF Has

-----------------------------------------------------------------------------
(* Requests are texts.                                                     *)

LEMMA MapsTexts ==
    ASSUME NEW s, NEW n \in Nat, NEW f, s = [i \in 1 .. n |-> f[i]],
           \A i \in 1 .. n : f[i] \in Texts
    PROVE  s \in Seq(Texts) /\ Len(s) = n
<1>1. s \in [1 .. n -> Texts]
  OBVIOUS
<1> QED
  BY <1>1

LEMMA FlattenType ==
    ASSUME NEW s \in Seq(Texts)
    PROVE  FlattenSeq(s) \in Texts
<1>1. Len(s) \in 0 .. Len(s)
  OBVIOUS
<1> QED
  BY <1>1, FlattenRuns

LEMMA PairsAre ==
    ASSUME NEW ps \in Pairs
    PROVE  /\ Len(ps) \in Nat
           /\ DOMAIN ps = 1 .. Len(ps)
           /\ \A i \in 1 .. Len(ps) : ps[i].key \in Texts /\ ps[i].val \in Texts
<1>1. PICK F : F = [key : Texts, val : Texts]
  OBVIOUS
<1>2. ps \in Seq(F)
  BY <1>1 DEF Pairs
<1>3. /\ Len(ps) \in Nat
      /\ DOMAIN ps = 1 .. Len(ps)
      /\ \A i \in 1 .. Len(ps) : ps[i] \in F
  BY <1>2
<1>4. \A f \in F : f.key \in Texts /\ f.val \in Texts
  BY <1>1
<1> QED
  BY <1>3, <1>4

ParamChunk(ps, i) ==
    <<IF i = 1 THEN "?" ELSE "&">> \o ps[i].key \o <<"=">> \o ps[i].val

LEMMA Ones ==
    /\ <<"SP">> \in Texts
    /\ <<"CR">> \in Texts
    /\ <<"=">> \in Texts
    /\ <<"?">> \in Texts
    /\ <<"&">> \in Texts
    /\ <<":", "SP">> \in Texts
    /\ EndOfLine \in Texts
<1>1. {"SP", "TAB", "CR", "LF", "?", "&", "=", ":"} \subseteq Symbols
  BY HttpAssumption DEF Separators, Blanks
<1> QED
  BY <1>1 DEF Texts, EndOfLine

LEMMA ParamChunkType ==
    ASSUME NEW ps \in Pairs, NEW i \in 1 .. Len(ps)
    PROVE  ParamChunk(ps, i) \in Texts
<1>1. ps[i].key \in Texts /\ ps[i].val \in Texts
  BY PairsAre
<1>2. <<IF i = 1 THEN "?" ELSE "&">> \in Texts
  BY Ones
<1> QED
  BY <1>1, <1>2, Ones, Joins DEF ParamChunk

LEMMA ParamsTextIs ==
    ASSUME NEW ps \in Pairs
    PROVE  \E s \in Seq(Texts) : /\ Len(s) = Len(ps)
                                 /\ \A i \in 1 .. Len(ps) : s[i] = ParamChunk(ps, i)
                                 /\ ParamsText(ps) = FlattenSeq(s)
<1> DEFINE s == [i \in DOMAIN ps |-> ParamChunk(ps, i)]
<1>1. DOMAIN ps = 1 .. Len(ps) /\ Len(ps) \in Nat
  BY DEF Pairs
<1>2. ParamsText(ps) = FlattenSeq(s)
  BY DEF ParamsText, ParamChunk
<1>3. s \in [1 .. Len(ps) -> Texts]
  BY <1>1, ParamChunkType
<1>4. \A i \in 1 .. Len(ps) : s[i] = ParamChunk(ps, i)
  BY <1>1
<1> HIDE DEF s
<1>5. s \in Seq(Texts) /\ Len(s) = Len(ps)
  BY <1>1, <1>3
<1> QED
  BY <1>2, <1>4, <1>5

LEMMA HeaderTextType ==
    ASSUME NEW hs \in Pairs, NEW i \in 1 .. Len(hs)
    PROVE  HeaderText(hs[i]) \in Texts
<1>1. hs[i].key \in Texts /\ hs[i].val \in Texts
  BY PairsAre
<1> QED
  BY <1>1, Ones, Joins DEF HeaderText

LEMMA HeadersTextIs ==
    ASSUME NEW hs \in Pairs
    PROVE  \E s \in Seq(Texts) :
              /\ Len(s) = Len(hs)
              /\ \A i \in 1 .. Len(hs) : s[i] = HeaderText(hs[i])
              /\ FlattenSeq([i \in DOMAIN hs |-> HeaderText(hs[i])]) = FlattenSeq(s)
<1> DEFINE s == [i \in DOMAIN hs |-> HeaderText(hs[i])]
<1>1. DOMAIN hs = 1 .. Len(hs) /\ Len(hs) \in Nat
  BY DEF Pairs
<1>3. s \in [1 .. Len(hs) -> Texts]
  BY <1>1, HeaderTextType
<1>4. \A i \in 1 .. Len(hs) : s[i] = HeaderText(hs[i])
  BY <1>1
<1>2. FlattenSeq([i \in DOMAIN hs |-> HeaderText(hs[i])]) = FlattenSeq(s)
  OBVIOUS
<1> HIDE DEF s
<1>5. s \in Seq(Texts) /\ Len(s) = Len(hs)
  BY <1>1, <1>3
<1> QED
  BY <1>2, <1>4, <1>5

LEMMA RequestIs ==
    ASSUME NEW r, WellFormed(r)
    PROVE  /\ r.method \in Texts /\ r.method \in Seq(Capitals)
           /\ r.path \in Texts
           /\ r.params \in Pairs
           /\ r.version \in Texts
           /\ r.headers \in Pairs
           /\ r.body \in Texts
           /\ ParamsText(r.params) \in Texts
           /\ FlattenSeq([i \in DOMAIN r.headers |-> HeaderText(r.headers[i])]) \in Texts
<1>1. /\ r.method \in Seq(Capitals)
      /\ r.path \in Texts
      /\ r.params \in Pairs
      /\ r.version \in Texts
      /\ r.headers \in Pairs
      /\ r.body \in Texts
  BY DEF WellFormed
<1>2. r.method \in Texts
  <2>1. Capitals \subseteq Symbols
    BY HttpAssumption
  <2> QED
    BY <1>1, <2>1 DEF Texts
<1>3. /\ ParamsText(r.params) \in Texts
      /\ FlattenSeq([i \in DOMAIN r.headers |-> HeaderText(r.headers[i])]) \in Texts
  BY <1>1, ParamsTextIs, HeadersTextIs, FlattenType
<1> QED
  BY <1>1, <1>2, <1>3

(* What a client writes is text: a line, a head, a request.                *)
LEMMA LineTextType ==
    ASSUME NEW r, WellFormed(r)
    PROVE  LineText(r) \in Texts
<1>1. PICK me, pa, pt, ve :
         me = r.method /\ pa = r.path /\ pt = ParamsText(r.params) /\ ve = r.version
  OBVIOUS
<1>2. me \in Texts /\ pa \in Texts /\ pt \in Texts /\ ve \in Texts
  BY <1>1, RequestIs
<1>3. LineText(r) = me \o <<"SP">> \o pa \o pt \o <<"SP">> \o ve
  BY <1>1 DEF LineText
<1>4. me \o <<"SP">> \o pa \o pt \in Texts
  BY <1>2, Ones, Joins
<1> QED
  BY <1>2, <1>3, <1>4, Ones, Joins

LEMMA HeadTextType ==
    ASSUME NEW r, WellFormed(r)
    PROVE  HeadText(r) \in Texts
<1>1. PICK lt, ht : /\ lt = LineText(r)
                    /\ ht = FlattenSeq([i \in DOMAIN r.headers |-> HeaderText(r.headers[i])])
  OBVIOUS
<1>2. lt \in Texts /\ ht \in Texts
  BY <1>1, LineTextType, RequestIs
<1>3. HeadText(r) = lt \o EndOfLine \o ht \o EndOfLine
  BY <1>1 DEF HeadText
<1>4. lt \o EndOfLine \in Texts
  BY <1>2, Ones, Joins
<1>5. lt \o EndOfLine \o ht \in Texts
  BY <1>2, <1>4, Joins
<1> QED
  BY <1>3, <1>5, Ones, Joins

LEMMA RequestTextType ==
    ASSUME NEW r, WellFormed(r)
    PROVE  RequestText(r) \in Texts
<1>1. HeadText(r) \in Texts /\ r.body \in Texts
  BY HeadTextType, RequestIs
<1> QED
  BY <1>1, Joins DEF RequestText

-----------------------------------------------------------------------------
(* Reading a text.                                                         *)

(* The symbols of msg behind the first p begin with text.                  *)
At(msg, p, text) ==
    /\ p + Len(text) <= Len(msg)
    /\ \A k \in 1 .. Len(text) : msg[p + k] = text[k]

(* A text in two parts stands where its parts stand.                       *)
LEMMA AtJoin ==
    ASSUME NEW msg \in Texts, NEW p \in Nat, NEW a \in Texts, NEW b \in Texts,
           At(msg, p, a \o b)
    PROVE  /\ At(msg, p, a)
           /\ At(msg, p + Len(a), b)
           /\ Len(a \o b) = Len(a) + Len(b)
<1>1. /\ Len(a) \in Nat /\ Len(b) \in Nat /\ Len(msg) \in Nat
      /\ Len(a \o b) = Len(a) + Len(b)
      /\ \A i \in 1 .. Len(a) : (a \o b)[i] = a[i]
      /\ \A i \in 1 .. Len(b) : (a \o b)[Len(a) + i] = b[i]
  BY Joins DEF Texts
<1>2. /\ p + Len(a \o b) <= Len(msg)
      /\ \A k \in 1 .. Len(a \o b) : msg[p + k] = (a \o b)[k]
  BY DEF At
<1> DEFINE c == a \o b
<1> HIDE DEF c
<1>3. ASSUME NEW k \in 1 .. Len(a)
      PROVE  msg[p + k] = a[k]
  <2>1. k \in 1 .. Len(c)
    BY <1>1 DEF c
  <2> QED
    BY <1>1, <1>2, <2>1 DEF c
<1>4. ASSUME NEW k \in 1 .. Len(b)
      PROVE  msg[p + Len(a) + k] = b[k]
  <2>1. Len(a) + k \in 1 .. Len(c) /\ p + (Len(a) + k) = p + Len(a) + k
    BY <1>1 DEF c
  <2>2. msg[p + (Len(a) + k)] = c[Len(a) + k]
    BY <1>2, <2>1 DEF c
  <2> QED
    BY <1>1, <2>1, <2>2 DEF c
<1>5. p + Len(a) <= Len(msg) /\ p + Len(a) + Len(b) <= Len(msg)
  BY <1>1, <1>2
<1> QED
  BY <1>1, <1>3, <1>4, <1>5 DEF At

(* A symbol, or two.                                                       *)
LEMMA AtOne ==
    ASSUME NEW msg \in Texts, NEW p \in Nat, NEW c, At(msg, p, <<c>>)
    PROVE  p + 1 \in 1 .. Len(msg) /\ msg[p + 1] = c
BY DEF At, Texts

LEMMA AtTwo ==
    ASSUME NEW msg \in Texts, NEW p \in Nat, NEW c, NEW d, At(msg, p, <<c, d>>)
    PROVE  /\ p + 1 \in 1 .. Len(msg) /\ msg[p + 1] = c
           /\ p + 2 \in 1 .. Len(msg) /\ msg[p + 2] = d
BY DEF At, Texts

(* The parser stays as it is as long as its rounds leave it alone.         *)
LEMMA Stays ==
    ASSUME NEW msg \in Texts, NEW p \in Nat, NEW e \in Nat, p <= e, e <= Len(msg),
           NEW q, After(msg)[p] = q,
           \A k \in p + 1 .. e : Round(q, msg, k) = q
    PROVE  After(msg)[e] = q
<1> DEFINE T == {j \in 0 .. e - p : After(msg)[p + j] # q}
<1>1. Len(msg) \in Nat
  BY DEF Texts
<1>2. 0 \notin T
  OBVIOUS
<1>3. ASSUME NEW j \in 1 .. e - p, j \in T
      PROVE  j - 1 \in T
  <2>1. p + j \in 1 .. Len(msg) /\ p + j \in p + 1 .. e /\ p + j - 1 = p + (j - 1)
    BY <1>1
  <2>2. After(msg)[p + j] = Round(After(msg)[p + (j - 1)], msg, p + j)
    BY <1>1, <2>1, ParseIs
  <2>3. Round(q, msg, p + j) = q
    BY <2>1
  <2>4. After(msg)[p + j] # q
    BY <1>3
  <2>5. After(msg)[p + (j - 1)] # q
    BY <2>2, <2>3, <2>4
  <2> QED
    BY <2>5
<1>4. T \in SUBSET (0 .. e - p) /\ e - p \in Nat
  OBVIOUS
<1>5. T = {}
  <2> HIDE DEF T
  <2> QED
    BY <1>2, <1>3, <1>4, NoneBad
<1>6. \A j \in 0 .. e - p : After(msg)[p + j] = q
  BY <1>5
<1> HIDE DEF T
<1>7. PICK j \in 0 .. e - p : p + j = e
  <2>1. e - p \in 0 .. e - p /\ p + (e - p) = e
    OBVIOUS
  <2> QED
    BY <2>1
<1> QED
  BY <1>6, <1>7

(* The text between a mark and here.                                       *)
LEMMA TextIs ==
    ASSUME NEW msg \in Texts, NEW p \in Nat, NEW t \in Texts, At(msg, p, t),
           NEW q, q.begin = p + 1
    PROVE  Text(q, msg, p + Len(t) + 1) = t
<1>1. /\ Len(t) \in Nat /\ Len(msg) \in Nat
      /\ p + Len(t) <= Len(msg)
      /\ \A k \in 1 .. Len(t) : msg[p + k] = t[k]
      /\ p + Len(t) + 1 - 1 = p + Len(t)
  BY DEF At, Texts
<1>2. Text(q, msg, p + Len(t) + 1) = SubSeq(msg, p + 1, p + Len(t))
  BY <1>1 DEF Text
<1>3. PICK s : s = SubSeq(msg, p + 1, p + Len(t))
  OBVIOUS
<1>4. s \in Seq(Symbols) /\ Len(s) = Len(t) /\ \A k \in 1 .. Len(t) : s[k] = msg[p + k]
  BY <1>1, <1>3 DEF Texts
<1>5. s = t
  BY <1>1, <1>4 DEF Texts
<1> QED
  BY <1>2, <1>3, <1>5

(* A text that the parser enters in state x at its first symbol and leaves *)
(* only behind its last.                                                   *)
LEMMA Reads ==
    ASSUME NEW msg \in Texts, NEW p \in Nat, NEW t \in Texts, t # <<>>, At(msg, p, t),
           NEW q, After(msg)[p] = q, IsParser(q), NEW x,
           NEW m, m = Mark(q, p + 1, x),
           Round(q, msg, p + 1) = m,
           \A k \in 2 .. Len(t) : Round(m, msg, p + k) = m
    PROVE  /\ After(msg)[p + Len(t)] = m
           /\ Text(m, msg, p + Len(t) + 1) = t
<1>1. /\ Len(t) \in Nat /\ Len(t) # 0 /\ Len(msg) \in Nat
      /\ p + Len(t) <= Len(msg)
  BY EmptySeq DEF At, Texts
<1>2. p + 1 \in 1 .. Len(msg) /\ p + 1 - 1 = p
  BY <1>1
<1>3. After(msg)[p + 1] = m
  BY <1>1, <1>2, ParseIs
<1>4. ASSUME NEW k \in p + 1 + 1 .. p + Len(t)
      PROVE  Round(m, msg, k) = m
  <2>1. k - p \in 2 .. Len(t) /\ p + (k - p) = k
    BY <1>1
  <2> QED
    BY <2>1
<1>5. After(msg)[p + Len(t)] = m
  <2>1. /\ p + 1 \in Nat /\ p + Len(t) \in Nat /\ p + 1 <= p + Len(t)
    BY <1>1
  <2> QED
    BY <1>1, <1>3, <1>4, <2>1, Stays
<1>6. m.begin = p + 1
  BY Marked, MembersAre
<1> QED
  BY <1>5, <1>6, TextIs

-----------------------------------------------------------------------------
(* Rounds on the way.                                                      *)

(* q stands in a state with what it has read.                              *)
Knows(q, state, method, version, path, params, heads) ==
    /\ IsParser(q)
    /\ q.m_state = state
    /\ q.m_method = method
    /\ q.m_version = version
    /\ q.m_path = path
    /\ q.m_params = params
    /\ q.m_heads = heads
    /\ q.m_body = <<>>

LEMMA KnowsMark ==
    ASSUME NEW q, NEW s, NEW me, NEW ve, NEW pa, NEW ps, NEW hs,
           Knows(q, s, me, ve, pa, ps, hs), NEW x, NEW i
    PROVE  /\ Knows(Mark(q, i, x), x, me, ve, pa, ps, hs)
           /\ Mark(q, i, x).begin = i
           /\ Mark(q, i, x).key = q.key
<1>1. PICK r : r = Mark(q, i, x)
  OBVIOUS
<1>2. Has(r, x, q.m_method, q.m_version, q.m_path, q.m_params, q.m_heads, q.m_body,
          i, q.key, q.bodyLength)
  BY <1>1, Marked DEF Knows
<1> QED
  BY <1>1, <1>2, MembersAre DEF Knows

LEMMA KnowsGoto ==
    ASSUME NEW q, NEW s, NEW me, NEW ve, NEW pa, NEW ps, NEW hs,
           Knows(q, s, me, ve, pa, ps, hs), NEW x
    PROVE  /\ Knows(Goto(q, x), x, me, ve, pa, ps, hs)
           /\ Goto(q, x).begin = q.begin
           /\ Goto(q, x).key = q.key
           /\ Goto(q, x).bodyLength = q.bodyLength
<1>1. PICK r : r = Goto(q, x)
  OBVIOUS
<1>2. Has(r, x, q.m_method, q.m_version, q.m_path, q.m_params, q.m_heads, q.m_body,
          q.begin, q.key, q.bodyLength)
  BY <1>1, Assigned DEF Knows
<1> QED
  BY <1>1, <1>2, MembersAre DEF Knows

LEMMA KnowsMethod ==
    ASSUME NEW q, NEW s, NEW me, NEW ve, NEW pa, NEW ps, NEW hs,
           Knows(q, s, me, ve, pa, ps, hs), NEW x
    PROVE  Knows([q EXCEPT !.m_method = x], s, x, ve, pa, ps, hs)
<1>1. PICK r : r = [q EXCEPT !.m_method = x]
  OBVIOUS
<1>2. Has(r, q.m_state, x, q.m_version, q.m_path, q.m_params, q.m_heads, q.m_body,
          q.begin, q.key, q.bodyLength)
  BY <1>1, Assigned DEF Knows
<1> QED
  BY <1>1, <1>2, MembersAre DEF Knows

LEMMA KnowsVersion ==
    ASSUME NEW q, NEW s, NEW me, NEW ve, NEW pa, NEW ps, NEW hs,
           Knows(q, s, me, ve, pa, ps, hs), NEW x
    PROVE  Knows([q EXCEPT !.m_version = x], s, me, x, pa, ps, hs)
<1>1. PICK r : r = [q EXCEPT !.m_version = x]
  OBVIOUS
<1>2. Has(r, q.m_state, q.m_method, x, q.m_path, q.m_params, q.m_heads, q.m_body,
          q.begin, q.key, q.bodyLength)
  BY <1>1, Assigned DEF Knows
<1> QED
  BY <1>1, <1>2, MembersAre DEF Knows

LEMMA KnowsPath ==
    ASSUME NEW q, NEW s, NEW me, NEW ve, NEW pa, NEW ps, NEW hs,
           Knows(q, s, me, ve, pa, ps, hs), NEW x
    PROVE  Knows([q EXCEPT !.m_path = x], s, me, ve, x, ps, hs)
<1>1. PICK r : r = [q EXCEPT !.m_path = x]
  OBVIOUS
<1>2. Has(r, q.m_state, q.m_method, q.m_version, x, q.m_params, q.m_heads, q.m_body,
          q.begin, q.key, q.bodyLength)
  BY <1>1, Assigned DEF Knows
<1> QED
  BY <1>1, <1>2, MembersAre DEF Knows

LEMMA KnowsParams ==
    ASSUME NEW q, NEW s, NEW me, NEW ve, NEW pa, NEW ps, NEW hs,
           Knows(q, s, me, ve, pa, ps, hs), NEW x
    PROVE  Knows([q EXCEPT !.m_params = x], s, me, ve, pa, x, hs)
<1>1. PICK r : r = [q EXCEPT !.m_params = x]
  OBVIOUS
<1>2. Has(r, q.m_state, q.m_method, q.m_version, q.m_path, x, q.m_heads, q.m_body,
          q.begin, q.key, q.bodyLength)
  BY <1>1, Assigned DEF Knows
<1> QED
  BY <1>1, <1>2, MembersAre DEF Knows

LEMMA KnowsHeads ==
    ASSUME NEW q, NEW s, NEW me, NEW ve, NEW pa, NEW ps, NEW hs,
           Knows(q, s, me, ve, pa, ps, hs), NEW x
    PROVE  Knows([q EXCEPT !.m_heads = x], s, me, ve, pa, ps, x)
<1>1. PICK r : r = [q EXCEPT !.m_heads = x]
  OBVIOUS
<1>2. Has(r, q.m_state, q.m_method, q.m_version, q.m_path, q.m_params, x, q.m_body,
          q.begin, q.key, q.bodyLength)
  BY <1>1, Assigned DEF Knows
<1> QED
  BY <1>1, <1>2, MembersAre DEF Knows

LEMMA KnowsKey ==
    ASSUME NEW q, NEW s, NEW me, NEW ve, NEW pa, NEW ps, NEW hs,
           Knows(q, s, me, ve, pa, ps, hs), NEW x
    PROVE  /\ Knows([q EXCEPT !.key = x], s, me, ve, pa, ps, hs)
           /\ [q EXCEPT !.key = x].key = x
<1>1. PICK r : r = [q EXCEPT !.key = x]
  OBVIOUS
<1>2. Has(r, q.m_state, q.m_method, q.m_version, q.m_path, q.m_params, q.m_heads, q.m_body,
          q.begin, x, q.bodyLength)
  BY <1>1, Assigned DEF Knows
<1> QED
  BY <1>1, <1>2, MembersAre DEF Knows

LEMMA KnowsLength ==
    ASSUME NEW q, NEW s, NEW me, NEW ve, NEW pa, NEW ps, NEW hs,
           Knows(q, s, me, ve, pa, ps, hs), NEW x
    PROVE  /\ Knows([q EXCEPT !.bodyLength = x], s, me, ve, pa, ps, hs)
           /\ [q EXCEPT !.bodyLength = x].bodyLength = x
<1>1. PICK r : r = [q EXCEPT !.bodyLength = x]
  OBVIOUS
<1>2. Has(r, q.m_state, q.m_method, q.m_version, q.m_path, q.m_params, q.m_heads, q.m_body,
          q.begin, q.key, x)
  BY <1>1, Assigned DEF Knows
<1> QED
  BY <1>1, <1>2, MembersAre DEF Knows

-----------------------------------------------------------------------------
(* The rounds that a well-formed request meets.                            *)

(* Which part of the switch a state belongs to.                            *)
LEMMA RoundIs ==
    ASSUME NEW q, NEW msg, NEW i
    PROVE  /\ q.m_state \in {"START", "METHOD", "BEFORE_PATH", "PATH", "BEFORE_PARAM_KEY",
                             "PARAM_KEY", "BEFORE_PARAM_VALUE", "PARAM_VALUE"}
                 => Round(q, msg, i) = RequestLine(q, msg, i)
           /\ q.m_state \in {"BEFORE_VERSION", "VERSION"}
                 => Round(q, msg, i) = Version(q, msg, i)
           /\ q.m_state \in {"HEADER_KEY", "BEFORE_HEADER_VALUE", "HEADER_VALUE"}
                 => Round(q, msg, i) = Headers(q, msg, i)
           /\ q.m_state \in {"W_CR", "W_CR_LF", "W_CR_LF_CR", "BODY"}
                 => Round(q, msg, i) = LineEndsAndBody(q, msg, i)
           /\ q.m_state \in Final => Round(q, msg, i) = q
BY DEF Round, Final

LEMMA MethodRounds ==
    ASSUME NEW q, NEW msg, NEW i
    PROVE  /\ q.m_state = "START" /\ msg[i] \in Capitals
                 => RequestLine(q, msg, i) = Mark(q, i, "METHOD")
           /\ q.m_state = "METHOD" /\ msg[i] \in Capitals => RequestLine(q, msg, i) = q
           /\ q.m_state = "METHOD" /\ msg[i] = "SP"
                 => RequestLine(q, msg, i)
                       = Mark([q EXCEPT !.m_method = MethodOf(Text(q, msg, i))], i,
                              "BEFORE_PATH")
BY DEF RequestLine, Capitals, Blanks

LEMMA PathRounds ==
    ASSUME NEW q, NEW msg, NEW i
    PROVE  /\ q.m_state = "BEFORE_PATH" /\ msg[i] \in Paths
                 => RequestLine(q, msg, i) = Mark(q, i, "PATH")
           /\ q.m_state = "PATH" /\ msg[i] \notin Blanks \cup {"?"} => RequestLine(q, msg, i) = q
           /\ q.m_state = "PATH" /\ msg[i] = "SP"
                 => RequestLine(q, msg, i)
                       = Goto([q EXCEPT !.m_path = Text(q, msg, i)], "BEFORE_VERSION")
           /\ q.m_state = "PATH" /\ msg[i] = "?"
                 => RequestLine(q, msg, i)
                       = Goto([q EXCEPT !.m_path = Text(q, msg, i)], "BEFORE_PARAM_KEY")
BY DEF RequestLine, Paths, Blanks

LEMMA KeyRounds ==
    ASSUME NEW q, NEW msg, NEW i
    PROVE  /\ q.m_state = "BEFORE_PARAM_KEY" /\ msg[i] \notin Blanks \cup {"CR", "LF"}
                 => RequestLine(q, msg, i) = Mark(q, i, "PARAM_KEY")
           /\ q.m_state = "PARAM_KEY" /\ msg[i] \notin Blanks \cup {"="}
                 => RequestLine(q, msg, i) = q
           /\ q.m_state = "PARAM_KEY" /\ msg[i] = "="
                 => RequestLine(q, msg, i)
                       = Goto([q EXCEPT !.key = Text(q, msg, i)], "BEFORE_PARAM_VALUE")
BY DEF RequestLine, Blanks

LEMMA ValueRounds ==
    ASSUME NEW q, NEW msg, NEW i
    PROVE  /\ q.m_state = "BEFORE_PARAM_VALUE" /\ msg[i] \notin Blanks \cup {"CR", "LF"}
                 => RequestLine(q, msg, i) = Mark(q, i, "PARAM_VALUE")
           /\ q.m_state = "PARAM_VALUE" /\ msg[i] \notin Blanks \cup {"&"}
                 => RequestLine(q, msg, i) = q
           /\ q.m_state = "PARAM_VALUE" /\ msg[i] = "&"
                 => RequestLine(q, msg, i)
                       = Goto([q EXCEPT !.m_params = Inserted(@, q.key, Text(q, msg, i))],
                              "BEFORE_PARAM_KEY")
           /\ q.m_state = "PARAM_VALUE" /\ msg[i] = "SP"
                 => RequestLine(q, msg, i)
                       = Goto([q EXCEPT !.m_params = Inserted(@, q.key, Text(q, msg, i))],
                              "BEFORE_VERSION")
BY DEF RequestLine, Blanks

LEMMA VersionRounds ==
    ASSUME NEW q, NEW msg, NEW i
    PROVE  /\ q.m_state = "BEFORE_VERSION" /\ msg[i] \notin Blanks
                 => Version(q, msg, i) = Mark(q, i, "VERSION")
           /\ q.m_state = "VERSION" /\ msg[i] # "CR" => Version(q, msg, i) = q
           /\ q.m_state = "VERSION" /\ msg[i] = "CR"
                 => Version(q, msg, i)
                       = Goto([q EXCEPT !.m_version = VersionOf(Text(q, msg, i))], "W_CR")
BY DEF Version, Blanks

LEMMA HeaderRounds ==
    ASSUME NEW q, NEW msg, NEW i
    PROVE  /\ q.m_state = "HEADER_KEY" /\ msg[i] # ":" => Headers(q, msg, i) = q
           /\ q.m_state = "HEADER_KEY" /\ msg[i] = ":"
                 => Headers(q, msg, i)
                       = Goto([q EXCEPT !.key = Text(q, msg, i)], "BEFORE_HEADER_VALUE")
           /\ q.m_state = "BEFORE_HEADER_VALUE" /\ msg[i] \in Blanks
                 => Headers(q, msg, i) = q
           /\ q.m_state = "BEFORE_HEADER_VALUE" /\ msg[i] \notin Blanks \cup {"CR"}
                 => Headers(q, msg, i) = Mark(q, i, "HEADER_VALUE")
           /\ q.m_state = "HEADER_VALUE" /\ msg[i] # "CR" => Headers(q, msg, i) = q
BY DEF Headers, Blanks

LEMMA HeaderEnds ==
    ASSUME NEW q, NEW msg, NEW i, msg[i] = "CR", q.m_state = "HEADER_VALUE"
    PROVE  Headers(q, msg, i)
              = Goto([q EXCEPT !.m_heads = Inserted(@, q.key, Text(q, msg, i))], "W_CR")
BY DEF Headers, Blanks

LEMMA EmptyHeaderEnds ==
    ASSUME NEW q, NEW msg, NEW i, msg[i] = "CR", q.m_state = "BEFORE_HEADER_VALUE",
           NEW m, m = Mark(q, i, "HEADER_VALUE")
    PROVE  Headers(q, msg, i)
              = Goto([m EXCEPT !.m_heads = Inserted(@, m.key, Text(m, msg, i))], "W_CR")
BY DEF Headers, Blanks

LEMMA LineRounds ==
    ASSUME NEW q, NEW msg, NEW i
    PROVE  /\ q.m_state = "W_CR" /\ msg[i] = "LF"
                 => LineEndsAndBody(q, msg, i) = Goto(q, "W_CR_LF")
           /\ q.m_state = "W_CR_LF" /\ msg[i] = "CR"
                 => LineEndsAndBody(q, msg, i) = Goto(q, "W_CR_LF_CR")
           /\ q.m_state = "W_CR_LF" /\ msg[i] \notin Blanks \cup {"CR"}
                 => LineEndsAndBody(q, msg, i) = Mark(q, i, "HEADER_KEY")
BY DEF LineEndsAndBody, Blanks

LEMMA LengthRound ==
    ASSUME NEW q, NEW msg, NEW i, q.m_state = "W_CR_LF_CR", msg[i] = "LF"
    PROVE  LineEndsAndBody(q, msg, i)
              = IF <<"Content-Length">> \in DOMAIN q.m_heads
                THEN LET n == NumberOf(q.m_heads[<<"Content-Length">>]) IN
                     Goto([q EXCEPT !.bodyLength = n], IF n > 0 THEN "BODY" ELSE "END")
                ELSE Goto([q EXCEPT !.bodyLength = Len(msg) - i], "BODY")
BY DEF LineEndsAndBody

LEMMA BodyRound ==
    ASSUME NEW q, NEW msg, NEW i, q.m_state = "BODY"
    PROVE  LineEndsAndBody(q, msg, i)
              = Goto([q EXCEPT !.m_body = [j \in 1 .. q.bodyLength |->
                                             IF i + j - 1 <= Len(msg)
                                             THEN msg[i + j - 1] ELSE Garbage]],
                     "END")
BY DEF LineEndsAndBody

-----------------------------------------------------------------------------
(* Reading the parts of a request.                                         *)

(* Behind p symbols of msg the parser is q.                                *)
Stands(msg, p, q) == After(msg)[p] = q

(* One more round.                                                         *)
LEMMA NextRound ==
    ASSUME NEW msg \in Texts, NEW p \in Nat, p + 1 \in 1 .. Len(msg),
           NEW q, Stands(msg, p, q)
    PROVE  Stands(msg, p + 1, Round(q, msg, p + 1))
<1>1. Len(msg) \in Nat /\ p + 1 - 1 = p
  BY DEF Texts
<1> QED
  BY <1>1, ParseIs DEF Stands

LEMMA AtFirst ==
    ASSUME NEW msg \in Texts, NEW p \in Nat, NEW t \in Texts, t # <<>>, At(msg, p, t)
    PROVE  /\ 1 \in 1 .. Len(t)
           /\ Len(t) \in Nat
           /\ p + 1 \in 1 .. Len(msg)
           /\ msg[p + 1] = t[1]
           /\ \A k \in 2 .. Len(t) : k \in 1 .. Len(t) /\ msg[p + k] = t[k]
<1>1. Len(t) \in Nat /\ Len(t) # 0 /\ Len(msg) \in Nat
  BY EmptySeq DEF Texts
<1> QED
  BY <1>1 DEF At

(* In state x the rounds behind the first symbol of t change nothing.      *)
Skips(x, msg, p, t) ==
    \A k \in 2 .. Len(t) : \A m : m.m_state = x => Round(m, msg, p + k) = m

(* Reads, for a parser that knows what it has read.                        *)
LEMMA KnowsText ==
    ASSUME NEW msg \in Texts, NEW p \in Nat, NEW t \in Texts, t # <<>>, At(msg, p, t),
           NEW q, Stands(msg, p, q), NEW x,
           Round(q, msg, p + 1) = Mark(q, p + 1, x),
           Skips(x, msg, p, t),
           NEW s, NEW me, NEW ve, NEW pa, NEW ps, NEW hs,
           Knows(q, s, me, ve, pa, ps, hs),
           NEW m, Stands(msg, p + Len(t), m)
    PROVE  /\ Knows(m, x, me, ve, pa, ps, hs)
           /\ m.key = q.key
           /\ Text(m, msg, p + Len(t) + 1) = t
<1>1. PICK r : r = Mark(q, p + 1, x)
  OBVIOUS
<1>2. Knows(r, x, me, ve, pa, ps, hs) /\ r.key = q.key
  BY <1>1, KnowsMark
<1>3. r.m_state = x
  BY <1>2 DEF Knows
<1>4. \A k \in 2 .. Len(t) : Round(r, msg, p + k) = r
  BY <1>3 DEF Skips
<1>5. IsParser(q) /\ After(msg)[p] = q
  BY DEF Knows, Stands
<1>6. Round(q, msg, p + 1) = r
  BY <1>1
<1>7. /\ After(msg)[p + Len(t)] = r
      /\ Text(r, msg, p + Len(t) + 1) = t
  BY <1>1, <1>4, <1>5, <1>6, Reads
<1>8. m = r
  BY <1>7 DEF Stands
<1> QED
  BY <1>2, <1>7, <1>8

(* The method, and the blank behind it.                                    *)
LEMMA MethodRead ==
    ASSUME NEW msg \in Texts, NEW t \in Texts, t # <<>>,
           \A k \in 1 .. Len(t) : t[k] \in Capitals,
           At(msg, 0, t), At(msg, Len(t), <<"SP">>)
    PROVE  \E r : /\ Stands(msg, Len(t) + 1, r)
                  /\ Knows(r, "BEFORE_PATH", MethodOf(t), Unset, <<>>, NoTexts, NoTexts)
<1>1. /\ 1 \in 1 .. Len(t)
      /\ Len(t) \in Nat
      /\ 0 + 1 \in 1 .. Len(msg)
      /\ msg[0 + 1] = t[1]
      /\ \A k \in 2 .. Len(t) : k \in 1 .. Len(t) /\ msg[0 + k] = t[k]
  BY AtFirst
<1>2. PICK q : q = Blank
  OBVIOUS
<1>3. Stands(msg, 0, q)
  <2>1. Len(msg) \in Nat
    BY DEF Texts
  <2> QED
    BY <1>2, <2>1, ParseIs DEF Stands
<1>4. Knows(q, "START", Unset, Unset, <<>>, NoTexts, NoTexts)
  <2>1. Has(q, "START", Unset, Unset, <<>>, NoTexts, NoTexts, <<>>, 1, <<>>, 0)
    BY <1>2 DEF Blank, Has
  <2> QED
    BY <2>1, MembersAre DEF Knows
<1>5. Round(q, msg, 0 + 1) = Mark(q, 0 + 1, "METHOD")
  <2>1. q.m_state = "START"
    BY <1>4 DEF Knows
  <2>2. msg[0 + 1] \in Capitals
    BY <1>1
  <2>3. Round(q, msg, 0 + 1) = RequestLine(q, msg, 0 + 1)
    BY <2>1, RoundIs
  <2>4. RequestLine(q, msg, 0 + 1) = Mark(q, 0 + 1, "METHOD")
    BY <2>1, <2>2, MethodRounds
  <2> QED
    BY <2>3, <2>4
<1>6. Skips("METHOD", msg, 0, t)
  <2> SUFFICES ASSUME NEW k \in 2 .. Len(t), NEW m, m.m_state = "METHOD"
               PROVE  Round(m, msg, 0 + k) = m
    BY DEF Skips
  <2>1. msg[0 + k] \in Capitals
    BY <1>1
  <2>2. Round(m, msg, 0 + k) = RequestLine(m, msg, 0 + k)
    BY RoundIs
  <2>3. RequestLine(m, msg, 0 + k) = m
    BY <2>1, MethodRounds
  <2> QED
    BY <2>2, <2>3
<1>7. PICK m : Stands(msg, 0 + Len(t), m)
  BY DEF Stands
<1>8. /\ Knows(m, "METHOD", Unset, Unset, <<>>, NoTexts, NoTexts)
      /\ Text(m, msg, 0 + Len(t) + 1) = t
  BY <1>3, <1>4, <1>5, <1>6, <1>7, KnowsText
<1>9. /\ Len(t) + 1 \in 1 .. Len(msg) /\ msg[Len(t) + 1] = "SP"
      /\ 0 + Len(t) = Len(t)
  BY <1>1, AtOne
<1>10. PICK r : r = [m EXCEPT !.m_method = MethodOf(t)]
  OBVIOUS
<1>11. Knows(r, "METHOD", MethodOf(t), Unset, <<>>, NoTexts, NoTexts)
  BY <1>8, <1>10, KnowsMethod
<1>12. Stands(msg, Len(t) + 1, Mark(r, Len(t) + 1, "BEFORE_PATH"))
  <2>1. m.m_state = "METHOD"
    BY <1>8 DEF Knows
  <2>2. Round(m, msg, Len(t) + 1)
           = Mark([m EXCEPT !.m_method = MethodOf(Text(m, msg, Len(t) + 1))],
                  Len(t) + 1, "BEFORE_PATH")
    BY <1>9, <2>1, RoundIs, MethodRounds
  <2>3. Round(m, msg, Len(t) + 1) = Mark(r, Len(t) + 1, "BEFORE_PATH")
    BY <1>8, <1>9, <1>10, <2>2
  <2>4. Stands(msg, Len(t), m)
    BY <1>7, <1>9
  <2>5. Stands(msg, Len(t) + 1, Round(m, msg, Len(t) + 1))
    BY <1>1, <1>9, <2>4, NextRound
  <2> QED
    BY <2>3, <2>5
<1> QED
  BY <1>11, <1>12, KnowsMark

(* The path: what ends it says whether parameters follow.                  *)
LEMMA PathRead ==
    ASSUME NEW msg \in Texts, NEW p \in Nat, NEW t \in Texts, t # <<>>,
           \A k \in 1 .. Len(t) : t[k] \notin Blanks \cup {"?"},
           t[1] \in Paths, At(msg, p, t), p + Len(t) + 1 \in 1 .. Len(msg),
           NEW q, Stands(msg, p, q),
           NEW me, Knows(q, "BEFORE_PATH", me, Unset, <<>>, NoTexts, NoTexts),
           NEW n, Stands(msg, p + Len(t) + 1, n)
    PROVE  /\ msg[p + Len(t) + 1] = "SP"
                 => Knows(n, "BEFORE_VERSION", me, Unset, t, NoTexts, NoTexts)
           /\ msg[p + Len(t) + 1] = "?"
                 => Knows(n, "BEFORE_PARAM_KEY", me, Unset, t, NoTexts, NoTexts)
<1>1. /\ 1 \in 1 .. Len(t)
      /\ Len(t) \in Nat
      /\ p + 1 \in 1 .. Len(msg)
      /\ msg[p + 1] = t[1]
      /\ \A k \in 2 .. Len(t) : k \in 1 .. Len(t) /\ msg[p + k] = t[k]
  BY AtFirst
<1>2. Round(q, msg, p + 1) = Mark(q, p + 1, "PATH")
  <2>1. q.m_state = "BEFORE_PATH"
    BY DEF Knows
  <2>2. msg[p + 1] \in Paths
    BY <1>1
  <2>3. Round(q, msg, p + 1) = RequestLine(q, msg, p + 1)
    BY <2>1, RoundIs
  <2>4. RequestLine(q, msg, p + 1) = Mark(q, p + 1, "PATH")
    BY <2>1, <2>2, PathRounds
  <2> QED
    BY <2>3, <2>4
<1>3. Skips("PATH", msg, p, t)
  <2> SUFFICES ASSUME NEW k \in 2 .. Len(t), NEW m, m.m_state = "PATH"
               PROVE  Round(m, msg, p + k) = m
    BY DEF Skips
  <2>1. msg[p + k] \notin Blanks \cup {"?"}
    BY <1>1
  <2>2. Round(m, msg, p + k) = RequestLine(m, msg, p + k)
    BY RoundIs
  <2>3. RequestLine(m, msg, p + k) = m
    BY <2>1, PathRounds
  <2> QED
    BY <2>2, <2>3
<1>4. PICK m : Stands(msg, p + Len(t), m)
  BY DEF Stands
<1>5. /\ Knows(m, "PATH", me, Unset, <<>>, NoTexts, NoTexts)
      /\ Text(m, msg, p + Len(t) + 1) = t
  BY <1>2, <1>3, <1>4, KnowsText
<1>6. PICK r : r = [m EXCEPT !.m_path = t]
  OBVIOUS
<1>7. Knows(r, "PATH", me, Unset, t, NoTexts, NoTexts)
  BY <1>5, <1>6, KnowsPath
<1>8. m.m_state = "PATH"
  BY <1>5 DEF Knows
<1>9. PICK e : e = p + Len(t) + 1
  OBVIOUS
<1>10. n = Round(m, msg, e)
  <2>1. p + Len(t) \in Nat
    BY <1>1
  <2>2. Stands(msg, e, Round(m, msg, e))
    BY <1>4, <1>9, <2>1, NextRound
  <2> QED
    BY <1>9, <2>2 DEF Stands
<1>11. Text(m, msg, e) = t
  BY <1>5, <1>9
<1>12. msg[e] = "SP" => n = Goto(r, "BEFORE_VERSION")
  BY <1>6, <1>8, <1>10, <1>11, RoundIs, PathRounds
<1>13. msg[e] = "?" => n = Goto(r, "BEFORE_PARAM_KEY")
  BY <1>6, <1>8, <1>10, <1>11, RoundIs, PathRounds
<1>14. /\ Knows(Goto(r, "BEFORE_VERSION"), "BEFORE_VERSION", me, Unset, t, NoTexts, NoTexts)
       /\ Knows(Goto(r, "BEFORE_PARAM_KEY"), "BEFORE_PARAM_KEY", me, Unset, t, NoTexts, NoTexts)
  BY <1>7, KnowsGoto
<1> QED
  BY <1>9, <1>12, <1>13, <1>14

(* A parameter's key, and the "=" behind it.                               *)
LEMMA KeyRead ==
    ASSUME NEW msg \in Texts, NEW p \in Nat, NEW t \in Texts, Token(t, {"="}),
           At(msg, p, t), At(msg, p + Len(t), <<"=">>),
           NEW q, Stands(msg, p, q), NEW me, NEW ve, NEW pa, NEW ps, NEW hs,
           Knows(q, "BEFORE_PARAM_KEY", me, ve, pa, ps, hs)
    PROVE  \E n : /\ Stands(msg, p + Len(t) + 1, n)
                  /\ Knows(n, "BEFORE_PARAM_VALUE", me, ve, pa, ps, hs)
                  /\ n.key = t
<1> /\ t # <<>>
    /\ \A k \in 1 .. Len(t) : t[k] \notin Blanks \cup {"CR", "LF", "="}
  BY DEF Token, Without, Texts
<1>1. /\ 1 \in 1 .. Len(t)
      /\ Len(t) \in Nat
      /\ p + 1 \in 1 .. Len(msg)
      /\ msg[p + 1] = t[1]
      /\ \A k \in 2 .. Len(t) : k \in 1 .. Len(t) /\ msg[p + k] = t[k]
  BY AtFirst
<1>2. Round(q, msg, p + 1) = Mark(q, p + 1, "PARAM_KEY")
  <2>1. q.m_state = "BEFORE_PARAM_KEY"
    BY DEF Knows
  <2>2. msg[p + 1] \notin Blanks \cup {"CR", "LF", "="}
    BY <1>1
  <2>3. Round(q, msg, p + 1) = RequestLine(q, msg, p + 1)
    BY <2>1, RoundIs
  <2>4. RequestLine(q, msg, p + 1) = Mark(q, p + 1, "PARAM_KEY")
    BY <2>1, <2>2, KeyRounds
  <2> QED
    BY <2>3, <2>4
<1>3. Skips("PARAM_KEY", msg, p, t)
  <2> SUFFICES ASSUME NEW k \in 2 .. Len(t), NEW m, m.m_state = "PARAM_KEY"
               PROVE  Round(m, msg, p + k) = m
    BY DEF Skips
  <2>1. msg[p + k] \notin Blanks \cup {"CR", "LF", "="}
    BY <1>1
  <2>2. Round(m, msg, p + k) = RequestLine(m, msg, p + k)
    BY RoundIs
  <2>3. RequestLine(m, msg, p + k) = m
    BY <2>1, KeyRounds
  <2> QED
    BY <2>2, <2>3
<1>4. PICK m : Stands(msg, p + Len(t), m)
  BY DEF Stands
<1>5. /\ Knows(m, "PARAM_KEY", me, ve, pa, ps, hs)
      /\ m.key = q.key
      /\ Text(m, msg, p + Len(t) + 1) = t
  BY <1>2, <1>3, <1>4, KnowsText
<1>6. m.m_state = "PARAM_KEY"
  BY <1>5 DEF Knows
<1>7. PICK e : e = p + Len(t) + 1
  OBVIOUS
<1>8. e \in 1 .. Len(msg) /\ Stands(msg, e, Round(m, msg, e))
  <2>1. p + Len(t) \in Nat /\ p + Len(t) + 1 \in 1 .. Len(msg)
    BY <1>1, AtOne, AtTwo DEF EndOfLine
  <2> QED
    BY <1>4, <1>7, <2>1, NextRound
<1>9. Text(m, msg, e) = t
  BY <1>5, <1>7
<1>10. msg[e] = "="
  BY <1>1, <1>7, AtOne
<1>11. PICK r : r = [m EXCEPT !.key = t]
  OBVIOUS
<1>12. Knows(r, "PARAM_KEY", me, ve, pa, ps, hs) /\ r.key = t
  BY <1>5, <1>11, KnowsKey
<1>13. Round(m, msg, e) = Goto(r, "BEFORE_PARAM_VALUE")
  BY <1>6, <1>9, <1>10, <1>11, RoundIs, KeyRounds
<1>14. /\ Knows(Goto(r, "BEFORE_PARAM_VALUE"), "BEFORE_PARAM_VALUE", me, ve, pa, ps, hs)
       /\ Goto(r, "BEFORE_PARAM_VALUE").key = t
  BY <1>12, KnowsGoto
<1> QED
  BY <1>7, <1>8, <1>13, <1>14

(* A parameter's value: what ends it says whether another follows.         *)
LEMMA ValueRead ==
    ASSUME NEW msg \in Texts, NEW p \in Nat, NEW t \in Texts, Token(t, {"&"}),
           At(msg, p, t), p + Len(t) + 1 \in 1 .. Len(msg),
           NEW q, Stands(msg, p, q), NEW me, NEW ve, NEW pa, NEW ps, NEW hs,
           Knows(q, "BEFORE_PARAM_VALUE", me, ve, pa, ps, hs),
           NEW n, Stands(msg, p + Len(t) + 1, n)
    PROVE  /\ msg[p + Len(t) + 1] = "SP"
                 => Knows(n, "BEFORE_VERSION", me, ve, pa, Inserted(ps, q.key, t), hs)
           /\ msg[p + Len(t) + 1] = "&"
                 => Knows(n, "BEFORE_PARAM_KEY", me, ve, pa, Inserted(ps, q.key, t), hs)
<1> /\ t # <<>>
    /\ \A k \in 1 .. Len(t) : t[k] \notin Blanks \cup {"CR", "LF", "&"}
  BY DEF Token, Without, Texts
<1>1. /\ 1 \in 1 .. Len(t)
      /\ Len(t) \in Nat
      /\ p + 1 \in 1 .. Len(msg)
      /\ msg[p + 1] = t[1]
      /\ \A k \in 2 .. Len(t) : k \in 1 .. Len(t) /\ msg[p + k] = t[k]
  BY AtFirst
<1>2. Round(q, msg, p + 1) = Mark(q, p + 1, "PARAM_VALUE")
  <2>1. q.m_state = "BEFORE_PARAM_VALUE"
    BY DEF Knows
  <2>2. msg[p + 1] \notin Blanks \cup {"CR", "LF", "&"}
    BY <1>1
  <2>3. Round(q, msg, p + 1) = RequestLine(q, msg, p + 1)
    BY <2>1, RoundIs
  <2>4. RequestLine(q, msg, p + 1) = Mark(q, p + 1, "PARAM_VALUE")
    BY <2>1, <2>2, ValueRounds
  <2> QED
    BY <2>3, <2>4
<1>3. Skips("PARAM_VALUE", msg, p, t)
  <2> SUFFICES ASSUME NEW k \in 2 .. Len(t), NEW m, m.m_state = "PARAM_VALUE"
               PROVE  Round(m, msg, p + k) = m
    BY DEF Skips
  <2>1. msg[p + k] \notin Blanks \cup {"CR", "LF", "&"}
    BY <1>1
  <2>2. Round(m, msg, p + k) = RequestLine(m, msg, p + k)
    BY RoundIs
  <2>3. RequestLine(m, msg, p + k) = m
    BY <2>1, ValueRounds
  <2> QED
    BY <2>2, <2>3
<1>4. PICK m : Stands(msg, p + Len(t), m)
  BY DEF Stands
<1>5. /\ Knows(m, "PARAM_VALUE", me, ve, pa, ps, hs)
      /\ m.key = q.key
      /\ Text(m, msg, p + Len(t) + 1) = t
  BY <1>2, <1>3, <1>4, KnowsText
<1>6. m.m_state = "PARAM_VALUE"
  BY <1>5 DEF Knows
<1>7. PICK e : e = p + Len(t) + 1
  OBVIOUS
<1>8. e \in 1 .. Len(msg) /\ Stands(msg, e, Round(m, msg, e))
  <2>1. p + Len(t) \in Nat /\ p + Len(t) + 1 \in 1 .. Len(msg)
    BY <1>1
  <2> QED
    BY <1>4, <1>7, <2>1, NextRound
<1>9. Text(m, msg, e) = t
  BY <1>5, <1>7
<1>10. n = Round(m, msg, e)
  BY <1>7, <1>8 DEF Stands
<1>11. PICK is : is = Inserted(ps, q.key, t)
  OBVIOUS
<1>12. PICK r : r = [m EXCEPT !.m_params = is]
  OBVIOUS
<1>13. Knows(r, "PARAM_VALUE", me, ve, pa, is, hs)
  BY <1>5, <1>12, KnowsParams
<1>14. is = Inserted(m.m_params, m.key, Text(m, msg, e))
  BY <1>5, <1>9, <1>11 DEF Knows
<1>15. r = [m EXCEPT !.m_params = Inserted(@, m.key, Text(m, msg, e))]
  BY <1>12, <1>14
<1>16. msg[e] = "SP" => n = Goto(r, "BEFORE_VERSION")
  BY <1>6, <1>10, <1>15, RoundIs, ValueRounds
<1>17. msg[e] = "&" => n = Goto(r, "BEFORE_PARAM_KEY")
  BY <1>6, <1>10, <1>15, RoundIs, ValueRounds
<1>18. /\ Knows(Goto(r, "BEFORE_VERSION"), "BEFORE_VERSION", me, ve, pa, is, hs)
       /\ Knows(Goto(r, "BEFORE_PARAM_KEY"), "BEFORE_PARAM_KEY", me, ve, pa, is, hs)
  BY <1>13, KnowsGoto
<1> QED
  BY <1>7, <1>11, <1>16, <1>17, <1>18

(* The second symbol of a line's end.                                      *)
LEMMA LineEnds ==
    ASSUME NEW msg \in Texts, NEW p \in Nat, p + 1 \in 1 .. Len(msg), msg[p + 1] = "LF",
           NEW q, Stands(msg, p, q), NEW me, NEW ve, NEW pa, NEW ps, NEW hs,
           Knows(q, "W_CR", me, ve, pa, ps, hs)
    PROVE  \E n : /\ Stands(msg, p + 1, n)
                  /\ Knows(n, "W_CR_LF", me, ve, pa, ps, hs)
<1>1. q.m_state = "W_CR"
  BY DEF Knows
<1>2. Round(q, msg, p + 1) = Goto(q, "W_CR_LF")
  BY <1>1, RoundIs, LineRounds
<1>3. Stands(msg, p + 1, Goto(q, "W_CR_LF"))
  BY <1>2, NextRound
<1> QED
  BY <1>3, KnowsGoto

(* The version, and the first symbol of its line's end.                    *)
LEMMA VersionRead ==
    ASSUME NEW msg \in Texts, NEW p \in Nat, NEW t \in Texts, Token(t, {}),
           At(msg, p, t), At(msg, p + Len(t), <<"CR">>),
           NEW q, Stands(msg, p, q), NEW me, NEW ve, NEW pa, NEW ps, NEW hs,
           Knows(q, "BEFORE_VERSION", me, ve, pa, ps, hs)
    PROVE  \E n : /\ Stands(msg, p + Len(t) + 1, n)
                  /\ Knows(n, "W_CR", me, VersionOf(t), pa, ps, hs)
<1> /\ t # <<>>
    /\ \A k \in 1 .. Len(t) : t[k] \notin Blanks \cup {"CR", "LF"}
  BY DEF Token, Without, Texts
<1>1. /\ 1 \in 1 .. Len(t)
      /\ Len(t) \in Nat
      /\ p + 1 \in 1 .. Len(msg)
      /\ msg[p + 1] = t[1]
      /\ \A k \in 2 .. Len(t) : k \in 1 .. Len(t) /\ msg[p + k] = t[k]
  BY AtFirst
<1>2. Round(q, msg, p + 1) = Mark(q, p + 1, "VERSION")
  <2>1. q.m_state = "BEFORE_VERSION"
    BY DEF Knows
  <2>2. msg[p + 1] \notin Blanks \cup {"CR", "LF"}
    BY <1>1
  <2>3. Round(q, msg, p + 1) = Version(q, msg, p + 1)
    BY <2>1, RoundIs
  <2>4. Version(q, msg, p + 1) = Mark(q, p + 1, "VERSION")
    BY <2>1, <2>2, VersionRounds
  <2> QED
    BY <2>3, <2>4
<1>3. Skips("VERSION", msg, p, t)
  <2> SUFFICES ASSUME NEW k \in 2 .. Len(t), NEW m, m.m_state = "VERSION"
               PROVE  Round(m, msg, p + k) = m
    BY DEF Skips
  <2>1. msg[p + k] \notin Blanks \cup {"CR", "LF"}
    BY <1>1
  <2>2. Round(m, msg, p + k) = Version(m, msg, p + k)
    BY RoundIs
  <2>3. Version(m, msg, p + k) = m
    BY <2>1, VersionRounds
  <2> QED
    BY <2>2, <2>3
<1>4. PICK m : Stands(msg, p + Len(t), m)
  BY DEF Stands
<1>5. /\ Knows(m, "VERSION", me, ve, pa, ps, hs)
      /\ m.key = q.key
      /\ Text(m, msg, p + Len(t) + 1) = t
  BY <1>2, <1>3, <1>4, KnowsText
<1>6. m.m_state = "VERSION"
  BY <1>5 DEF Knows
<1>7. PICK e : e = p + Len(t) + 1
  OBVIOUS
<1>8. /\ e \in 1 .. Len(msg) /\ msg[e] = "CR"
      /\ Stands(msg, e, Round(m, msg, e))
  <2>1. /\ p + Len(t) \in Nat /\ p + Len(t) + 1 \in 1 .. Len(msg)
        /\ msg[p + Len(t) + 1] = "CR"
    BY <1>1, AtOne
  <2> QED
    BY <1>4, <1>7, <2>1, NextRound
<1>9. Text(m, msg, e) = t
  BY <1>5, <1>7
<1>10. PICK r : r = [m EXCEPT !.m_version = VersionOf(t)]
  OBVIOUS
<1>11. Knows(r, "VERSION", me, VersionOf(t), pa, ps, hs)
  BY <1>5, <1>10, KnowsVersion
<1>12. Round(m, msg, e) = Goto(r, "W_CR")
  BY <1>6, <1>8, <1>9, <1>10, RoundIs, VersionRounds
<1>13. Knows(Goto(r, "W_CR"), "W_CR", me, VersionOf(t), pa, ps, hs)
  BY <1>11, KnowsGoto
<1> QED
  BY <1>7, <1>8, <1>12, <1>13

(* A header's key, and the colon and the blank behind it.                  *)
LEMMA HeaderKeyRead ==
    ASSUME NEW msg \in Texts, NEW p \in Nat, NEW t \in Texts, Token(t, {":"}),
           At(msg, p, t), At(msg, p + Len(t), <<":", "SP">>),
           NEW q, Stands(msg, p, q), NEW me, NEW ve, NEW pa, NEW ps, NEW hs,
           Knows(q, "W_CR_LF", me, ve, pa, ps, hs)
    PROVE  \E n : /\ Stands(msg, p + Len(t) + 2, n)
                  /\ Knows(n, "BEFORE_HEADER_VALUE", me, ve, pa, ps, hs)
                  /\ n.key = t
<1> /\ t # <<>>
    /\ \A k \in 1 .. Len(t) : t[k] \notin Blanks \cup {"CR", "LF", ":"}
  BY DEF Token, Without, Texts
<1>1. /\ 1 \in 1 .. Len(t)
      /\ Len(t) \in Nat
      /\ p + 1 \in 1 .. Len(msg)
      /\ msg[p + 1] = t[1]
      /\ \A k \in 2 .. Len(t) : k \in 1 .. Len(t) /\ msg[p + k] = t[k]
  BY AtFirst
<1>2. Round(q, msg, p + 1) = Mark(q, p + 1, "HEADER_KEY")
  <2>1. q.m_state = "W_CR_LF"
    BY DEF Knows
  <2>2. msg[p + 1] \notin Blanks \cup {"CR", "LF", ":"}
    BY <1>1
  <2>3. Round(q, msg, p + 1) = LineEndsAndBody(q, msg, p + 1)
    BY <2>1, RoundIs
  <2>4. LineEndsAndBody(q, msg, p + 1) = Mark(q, p + 1, "HEADER_KEY")
    BY <2>1, <2>2, LineRounds
  <2> QED
    BY <2>3, <2>4
<1>3. Skips("HEADER_KEY", msg, p, t)
  <2> SUFFICES ASSUME NEW k \in 2 .. Len(t), NEW m, m.m_state = "HEADER_KEY"
               PROVE  Round(m, msg, p + k) = m
    BY DEF Skips
  <2>1. msg[p + k] \notin Blanks \cup {"CR", "LF", ":"}
    BY <1>1
  <2>2. Round(m, msg, p + k) = Headers(m, msg, p + k)
    BY RoundIs
  <2>3. Headers(m, msg, p + k) = m
    BY <2>1, HeaderRounds
  <2> QED
    BY <2>2, <2>3
<1>4. PICK m : Stands(msg, p + Len(t), m)
  BY DEF Stands
<1>5. /\ Knows(m, "HEADER_KEY", me, ve, pa, ps, hs)
      /\ m.key = q.key
      /\ Text(m, msg, p + Len(t) + 1) = t
  BY <1>2, <1>3, <1>4, KnowsText
<1>6. m.m_state = "HEADER_KEY"
  BY <1>5 DEF Knows
<1>7. PICK e : e = p + Len(t) + 1
  OBVIOUS
<1>8. e \in 1 .. Len(msg) /\ Stands(msg, e, Round(m, msg, e))
  <2>1. p + Len(t) \in Nat /\ p + Len(t) + 1 \in 1 .. Len(msg)
    BY <1>1, AtOne, AtTwo
  <2> QED
    BY <1>4, <1>7, <2>1, NextRound
<1>9. Text(m, msg, e) = t
  BY <1>5, <1>7
<1>10. msg[e] = ":" /\ e + 1 \in 1 .. Len(msg) /\ msg[e + 1] = "SP"
  <2>1. p + Len(t) \in Nat /\ e + 1 = p + Len(t) + 2
    BY <1>1, <1>7
  <2> QED
    BY <1>7, <2>1, AtTwo
<1>11. PICK r : r = [m EXCEPT !.key = t]
  OBVIOUS
<1>12. Knows(r, "HEADER_KEY", me, ve, pa, ps, hs) /\ r.key = t
  BY <1>5, <1>11, KnowsKey
<1>13. Round(m, msg, e) = Goto(r, "BEFORE_HEADER_VALUE")
  BY <1>6, <1>9, <1>10, <1>11, RoundIs, HeaderRounds
<1>14. PICK n : n = Goto(r, "BEFORE_HEADER_VALUE")
  OBVIOUS
<1>15. Knows(n, "BEFORE_HEADER_VALUE", me, ve, pa, ps, hs) /\ n.key = t
  BY <1>12, <1>14, KnowsGoto
<1>16. Round(n, msg, e + 1) = n
  <2>1. n.m_state = "BEFORE_HEADER_VALUE" /\ msg[e + 1] \in Blanks
    BY <1>10, <1>15 DEF Knows, Blanks
  <2>2. Round(n, msg, e + 1) = Headers(n, msg, e + 1)
    BY <2>1, RoundIs
  <2>3. Headers(n, msg, e + 1) = n
    BY <2>1, HeaderRounds
  <2> QED
    BY <2>2, <2>3
<1>17. Stands(msg, e + 1, n)
  <2>1. e \in Nat /\ Stands(msg, e, n)
    BY <1>8, <1>13, <1>14
  <2>2. Stands(msg, e + 1, Round(n, msg, e + 1))
    BY <1>10, <2>1, NextRound
  <2> QED
    BY <1>16, <2>2
<1>18. e + 1 = p + Len(t) + 2
  BY <1>1, <1>7
<1> QED
  BY <1>15, <1>17, <1>18

(* An empty value ends where it begins.                                    *)
LEMMA NoValueRead ==
    ASSUME NEW msg \in Texts, NEW p \in Nat, At(msg, p, EndOfLine),
           NEW q, Stands(msg, p, q), NEW me, NEW ve, NEW pa, NEW ps, NEW hs,
           Knows(q, "BEFORE_HEADER_VALUE", me, ve, pa, ps, hs)
    PROVE  \E n : /\ Stands(msg, p + 2, n)
                  /\ Knows(n, "W_CR_LF", me, ve, pa, ps, Inserted(hs, q.key, <<>>))
<1>1. /\ p + 1 \in 1 .. Len(msg) /\ msg[p + 1] = "CR"
      /\ p + 2 \in 1 .. Len(msg) /\ msg[p + 2] = "LF"
  BY AtTwo DEF EndOfLine
<1>2. q.m_state = "BEFORE_HEADER_VALUE"
  BY DEF Knows
<1>3. PICK m : m = Mark(q, p + 1, "HEADER_VALUE")
  OBVIOUS
<1>4. /\ Knows(m, "HEADER_VALUE", me, ve, pa, ps, hs)
      /\ m.begin = p + 1 /\ m.key = q.key
  BY <1>3, KnowsMark
<1>5. Text(m, msg, p + 1) = <<>>
  BY <1>4 DEF Text, Texts
<1>6. PICK is : is = Inserted(hs, q.key, <<>>)
  OBVIOUS
<1>7. PICK r : r = [m EXCEPT !.m_heads = is]
  OBVIOUS
<1>8. Knows(r, "HEADER_VALUE", me, ve, pa, ps, is)
  BY <1>4, <1>7, KnowsHeads
<1>9. is = Inserted(m.m_heads, m.key, Text(m, msg, p + 1))
  BY <1>4, <1>5, <1>6 DEF Knows
<1>10. Round(q, msg, p + 1) = Goto(r, "W_CR")
  <2>1. Round(q, msg, p + 1) = Headers(q, msg, p + 1)
    BY <1>2, RoundIs
  <2>2. Headers(q, msg, p + 1)
           = Goto([m EXCEPT !.m_heads = Inserted(@, m.key, Text(m, msg, p + 1))], "W_CR")
    BY <1>1, <1>2, <1>3, EmptyHeaderEnds
  <2> QED
    BY <1>7, <1>9, <2>1, <2>2
<1>11. Knows(Goto(r, "W_CR"), "W_CR", me, ve, pa, ps, is)
  BY <1>8, KnowsGoto
<1>12. PICK n : /\ Stands(msg, p + 1 + 1, n)
               /\ Knows(n, "W_CR_LF", me, ve, pa, ps, is)
  <2>1. Stands(msg, p + 1, Goto(r, "W_CR"))
    BY <1>1, <1>10, NextRound
  <2>2. p + 1 \in Nat /\ p + 1 + 1 = p + 2
    OBVIOUS
  <2>3. p + 1 + 1 \in 1 .. Len(msg) /\ msg[p + 1 + 1] = "LF"
    BY <1>1, <2>2
  <2> QED
    BY <1>11, <2>1, <2>2, <2>3, LineEnds
<1>13. p + 1 + 1 = p + 2
  OBVIOUS
<1> QED
  BY <1>6, <1>12, <1>13

(* A value that has symbols, and the end of its line.                      *)
LEMMA HeaderValueRead ==
    ASSUME NEW msg \in Texts, NEW p \in Nat, NEW t \in Texts,
           Without(t, {"CR"}), t # <<>>, t[1] \notin Blanks,
           At(msg, p, t), At(msg, p + Len(t), EndOfLine),
           NEW q, Stands(msg, p, q), NEW me, NEW ve, NEW pa, NEW ps, NEW hs,
           Knows(q, "BEFORE_HEADER_VALUE", me, ve, pa, ps, hs)
    PROVE  \E n : /\ Stands(msg, p + Len(t) + 2, n)
                  /\ Knows(n, "W_CR_LF", me, ve, pa, ps, Inserted(hs, q.key, t))
<1> \A k \in 1 .. Len(t) : t[k] # "CR"
  BY DEF Without, Texts
<1>1. /\ 1 \in 1 .. Len(t)
      /\ Len(t) \in Nat
      /\ p + 1 \in 1 .. Len(msg)
      /\ msg[p + 1] = t[1]
      /\ \A k \in 2 .. Len(t) : k \in 1 .. Len(t) /\ msg[p + k] = t[k]
  BY AtFirst
<1>2. Round(q, msg, p + 1) = Mark(q, p + 1, "HEADER_VALUE")
  <2>1. q.m_state = "BEFORE_HEADER_VALUE"
    BY DEF Knows
  <2>2. msg[p + 1] \notin Blanks \cup {"CR"}
    BY <1>1
  <2>3. Round(q, msg, p + 1) = Headers(q, msg, p + 1)
    BY <2>1, RoundIs
  <2>4. Headers(q, msg, p + 1) = Mark(q, p + 1, "HEADER_VALUE")
    BY <2>1, <2>2, HeaderRounds
  <2> QED
    BY <2>3, <2>4
<1>3. Skips("HEADER_VALUE", msg, p, t)
  <2> SUFFICES ASSUME NEW k \in 2 .. Len(t), NEW m, m.m_state = "HEADER_VALUE"
               PROVE  Round(m, msg, p + k) = m
    BY DEF Skips
  <2>1. msg[p + k] # "CR"
    BY <1>1
  <2>2. Round(m, msg, p + k) = Headers(m, msg, p + k)
    BY RoundIs
  <2>3. Headers(m, msg, p + k) = m
    BY <2>1, HeaderRounds
  <2> QED
    BY <2>2, <2>3
<1>4. PICK m : Stands(msg, p + Len(t), m)
  BY DEF Stands
<1>5. /\ Knows(m, "HEADER_VALUE", me, ve, pa, ps, hs)
      /\ m.key = q.key
      /\ Text(m, msg, p + Len(t) + 1) = t
  BY <1>2, <1>3, <1>4, KnowsText
<1>6. m.m_state = "HEADER_VALUE"
  BY <1>5 DEF Knows
<1>7. PICK e : e = p + Len(t) + 1
  OBVIOUS
<1>8. e \in 1 .. Len(msg) /\ Stands(msg, e, Round(m, msg, e))
  <2>1. p + Len(t) \in Nat /\ p + Len(t) + 1 \in 1 .. Len(msg)
    BY <1>1, AtOne, AtTwo DEF EndOfLine
  <2> QED
    BY <1>4, <1>7, <2>1, NextRound
<1>9. Text(m, msg, e) = t
  BY <1>5, <1>7
<1>10. msg[e] = "CR" /\ e + 1 \in 1 .. Len(msg) /\ msg[e + 1] = "LF"
  <2>1. p + Len(t) \in Nat /\ e + 1 = p + Len(t) + 2
    BY <1>1, <1>7
  <2> QED
    BY <1>7, <2>1, AtTwo DEF EndOfLine
<1>11. PICK is : is = Inserted(hs, q.key, t)
  OBVIOUS
<1>12. PICK r : r = [m EXCEPT !.m_heads = is]
  OBVIOUS
<1>13. Knows(r, "HEADER_VALUE", me, ve, pa, ps, is)
  BY <1>5, <1>12, KnowsHeads
<1>14. is = Inserted(m.m_heads, m.key, Text(m, msg, e))
  BY <1>5, <1>9, <1>11 DEF Knows
<1>15. Round(m, msg, e) = Goto(r, "W_CR")
  <2>1. r = [m EXCEPT !.m_heads = Inserted(@, m.key, Text(m, msg, e))]
    BY <1>12, <1>14
  <2>2. Round(m, msg, e) = Headers(m, msg, e)
    BY <1>6, RoundIs
  <2>3. Headers(m, msg, e)
           = Goto([m EXCEPT !.m_heads = Inserted(@, m.key, Text(m, msg, e))], "W_CR")
    BY <1>6, <1>10, HeaderEnds
  <2> QED
    BY <2>1, <2>2, <2>3
<1>16. Knows(Goto(r, "W_CR"), "W_CR", me, ve, pa, ps, is)
  BY <1>13, KnowsGoto
<1>17. PICK n : /\ Stands(msg, e + 1, n)
               /\ Knows(n, "W_CR_LF", me, ve, pa, ps, is)
  <2>1. e \in Nat /\ Stands(msg, e, Goto(r, "W_CR"))
    BY <1>8, <1>15
  <2> QED
    BY <1>10, <1>16, <2>1, LineEnds
<1>18. e + 1 = p + Len(t) + 2
  BY <1>1, <1>7
<1> QED
  BY <1>11, <1>17, <1>18

-----------------------------------------------------------------------------
(* Lists of keys and values.                                               *)

IsFirst(pairs, i, k) == pairs[i].key = k /\ \A j \in 1 .. i - 1 : pairs[j].key # k

KeysOf(pairs) == {pairs[i].key : i \in 1 .. Len(pairs)}

(* The map has the value of that place.                                    *)
LEMMA FirstIs ==
    ASSUME NEW a \in Pairs, NEW k, NEW i \in 1 .. Len(a), IsFirst(a, i, k)
    PROVE  AsMap(a)[k] = a[i].val
<1>1. Len(a) \in Nat /\ DOMAIN a = 1 .. Len(a)
  BY PairsAre
<1> DEFINE f == CHOOSE j \in DOMAIN a : IsFirst(a, j, k)
<1>2. f \in 1 .. Len(a) /\ IsFirst(a, f, k)
  BY <1>1
<1> HIDE DEF f
<1>3. f = i
  BY <1>1, <1>2 DEF IsFirst
<1>4. k \in {a[j].key : j \in DOMAIN a}
  BY <1>1 DEF IsFirst
<1>5. AsMap(a)[k] = a[f].val
  BY <1>4 DEF AsMap, f, IsFirst
<1> QED
  BY <1>3, <1>5

(* Every key has a first place in the list.                                *)
LEMMA FirstExists ==
    ASSUME NEW a \in Pairs, NEW k \in KeysOf(a)
    PROVE  \E i \in 1 .. Len(a) : IsFirst(a, i, k)
<1> DEFINE T == {i \in 1 .. Len(a) : a[i].key = k}
<1>1. Len(a) \in Nat /\ T \in SUBSET Nat /\ T # {}
  BY PairsAre DEF KeysOf
<1>2. \A i \in 1 .. Len(a) : i \in T <=> a[i].key = k
  OBVIOUS
<1>3. T \subseteq 1 .. Len(a)
  OBVIOUS
<1> HIDE DEF T
<1>4. PICK n \in T : \A m \in T : n <= m
  BY <1>1, Least
<1>5. n \in 1 .. Len(a) /\ a[n].key = k
  BY <1>2, <1>3
<1>6. ASSUME NEW j \in 1 .. n - 1
      PROVE  a[j].key # k
  <2>1. j \in 1 .. Len(a) /\ ~(n <= j)
    BY <1>1, <1>5
  <2> QED
    BY <1>2, <1>4, <2>1
<1> QED
  BY <1>5, <1>6 DEF IsFirst

LEMMA MapKeys ==
    ASSUME NEW a \in Pairs
    PROVE  /\ DOMAIN AsMap(a) = KeysOf(a)
           /\ AsMap(a) = [k \in KeysOf(a) |-> AsMap(a)[k]]
<1>1. DOMAIN a = 1 .. Len(a)
  BY PairsAre
<1>2. \E f : AsMap(a) = [k \in KeysOf(a) |-> f[k]]
  <2> DEFINE f == [k \in KeysOf(a) |->
                      a[CHOOSE i \in DOMAIN a :
                           /\ a[i].key = k
                           /\ \A j \in 1 .. i - 1 : a[j].key # k].val]
  <2>1. AsMap(a) = f
    BY <1>1 DEF AsMap, KeysOf
  <2>2. f = [k \in KeysOf(a) |-> f[k]]
    OBVIOUS
  <2> HIDE DEF f
  <2> QED
    BY <2>1, <2>2
<1> QED
  BY <1>2

(* One more key and value is one more insert().                            *)
LEMMA MapMore ==
    ASSUME NEW a \in Pairs, NEW b \in Pairs, Len(b) = Len(a) + 1,
           \A i \in 1 .. Len(a) : b[i] = a[i]
    PROVE  AsMap(b) = Inserted(AsMap(a), b[Len(b)].key, b[Len(b)].val)
<1> DEFINE key == b[Len(b)].key
           val == b[Len(b)].val
<1>1. /\ Len(a) \in Nat /\ Len(b) \in Nat /\ Len(b) \in 1 .. Len(b)
      /\ 1 .. Len(b) = (1 .. Len(a)) \cup {Len(b)}
      /\ Len(b) - 1 = Len(a)
  BY PairsAre
<1>2. KeysOf(b) = KeysOf(a) \cup {key}
  BY <1>1 DEF KeysOf
<1>3. ASSUME NEW k \in KeysOf(a)
      PROVE  AsMap(b)[k] = AsMap(a)[k]
  <2>1. PICK i \in 1 .. Len(a) : IsFirst(a, i, k)
    BY FirstExists
  <2>2. AsMap(a)[k] = a[i].val
    BY <2>1, FirstIs
  <2>3. i \in 1 .. Len(b) /\ b[i] = a[i] /\ \A j \in 1 .. i - 1 : j \in 1 .. Len(a)
    BY <1>1
  <2>4. IsFirst(b, i, k)
    BY <2>1, <2>3 DEF IsFirst
  <2>5. AsMap(b)[k] = b[i].val
    BY <2>3, <2>4, FirstIs
  <2> QED
    BY <2>2, <2>3, <2>5
<1>4. ASSUME key \notin KeysOf(a)
      PROVE  AsMap(b)[key] = val
  <2>1. IsFirst(b, Len(b), key)
    BY <1>1, <1>4 DEF IsFirst, KeysOf
  <2> QED
    BY <1>1, <2>1, FirstIs
<1> HIDE DEF key, val
<1>5. /\ DOMAIN AsMap(a) = KeysOf(a)
      /\ AsMap(b) = [k \in KeysOf(b) |-> AsMap(b)[k]]
  BY MapKeys
<1>6. Inserted(AsMap(a), key, val)
         = [k \in KeysOf(a) \cup {key} |-> IF k \in KeysOf(a) THEN AsMap(a)[k] ELSE val]
  BY <1>5 DEF Inserted
<1>7. \A k \in KeysOf(b) : AsMap(b)[k] = IF k \in KeysOf(a) THEN AsMap(a)[k] ELSE val
  BY <1>2, <1>3, <1>4
<1>8. AsMap(b) = Inserted(AsMap(a), key, val)
  BY <1>2, <1>5, <1>6, <1>7
<1> QED
  BY <1>8 DEF key, val

(* The map of the first n.                                                 *)
MapUpTo(pairs, n) == AsMap(SubSeq(pairs, 1, n))

LEMMA MapsUpTo ==
    ASSUME NEW ps \in Pairs
    PROVE  /\ MapUpTo(ps, 0) = NoTexts
           /\ MapUpTo(ps, Len(ps)) = AsMap(ps)
           /\ \A n \in 1 .. Len(ps) :
                 MapUpTo(ps, n) = Inserted(MapUpTo(ps, n - 1), ps[n].key, ps[n].val)
<1>1. PICK F : F = [key : Texts, val : Texts]
  OBVIOUS
<1>2. ps \in Seq(F) /\ Len(ps) \in Nat
  BY <1>1 DEF Pairs
<1>3. MapUpTo(ps, 0) = NoTexts
  <2>1. SubSeq(ps, 1, 0) = <<>>
    BY <1>2
  <2>2. PICK a : a = SubSeq(ps, 1, 0)
    OBVIOUS
  <2>3. a \in Pairs /\ Len(a) = 0
    BY <1>1, <2>1, <2>2 DEF Pairs
  <2>4. KeysOf(a) = {}
    BY <2>3 DEF KeysOf
  <2>5. AsMap(a) = [k \in {} |-> AsMap(a)[k]]
    BY <2>3, <2>4, MapKeys
  <2>6. AsMap(a) = [k \in {} |-> <<>>]
    BY <2>5
  <2> QED
    BY <2>2, <2>6 DEF MapUpTo, NoTexts
<1>4. MapUpTo(ps, Len(ps)) = AsMap(ps)
  <2>1. SubSeq(ps, 1, Len(ps)) = ps
    BY <1>2
  <2> QED
    BY <2>1 DEF MapUpTo
<1>5. ASSUME NEW n \in 1 .. Len(ps)
      PROVE  MapUpTo(ps, n) = Inserted(MapUpTo(ps, n - 1), ps[n].key, ps[n].val)
  <2>1. PICK a, b : a = SubSeq(ps, 1, n - 1) /\ b = SubSeq(ps, 1, n)
    OBVIOUS
  <2>2. /\ a \in Seq(F) /\ b \in Seq(F) /\ Len(a) = n - 1 /\ Len(b) = n
        /\ \A i \in 1 .. n - 1 : a[i] = ps[i]
        /\ \A i \in 1 .. n : b[i] = ps[i]
    BY <1>2, <2>1
  <2>3. /\ a \in Pairs /\ b \in Pairs /\ Len(b) = Len(a) + 1
        /\ \A i \in 1 .. Len(a) : b[i] = a[i]
        /\ b[Len(b)] = ps[n]
    BY <1>1, <1>2, <2>2 DEF Pairs
  <2>4. AsMap(b) = Inserted(AsMap(a), b[Len(b)].key, b[Len(b)].val)
    BY <2>3, MapMore
  <2> QED
    BY <2>1, <2>3, <2>4 DEF MapUpTo
<1> QED
  BY <1>3, <1>4, <1>5

-----------------------------------------------------------------------------
(* Texts one after the other.                                              *)

LEMMA AtRuns ==
    ASSUME NEW msg \in Texts, NEW p \in Nat, NEW s \in Seq(Texts),
           NEW g \in [0 .. Len(s) -> Texts], g[0] = <<>>,
           \A i \in 1 .. Len(s) : g[i] = g[i - 1] \o s[i],
           At(msg, p, g[Len(s)])
    PROVE  /\ Len(g[0]) = 0
           /\ \A i \in 0 .. Len(s) : Len(g[i]) \in Nat
           /\ \A i \in 1 .. Len(s) : /\ At(msg, p + Len(g[i - 1]), s[i])
                                     /\ Len(g[i]) = Len(g[i - 1]) + Len(s[i])
<1> DEFINE n == Len(s)
           T == {k \in 0 .. n : ~At(msg, p, g[n - k])}
<1>1. n \in Nat /\ \A i \in 1 .. n : s[i] \in Texts
  OBVIOUS
<1>2. \A i \in 0 .. n : g[i] \in Texts /\ Len(g[i]) \in Nat
  <2>1. \A a \in Texts : Len(a) \in Nat
    BY DEF Texts
  <2> QED
    BY <2>1
<1>3. ASSUME NEW i \in 1 .. n, At(msg, p, g[i])
      PROVE  /\ At(msg, p, g[i - 1])
             /\ At(msg, p + Len(g[i - 1]), s[i])
             /\ Len(g[i]) = Len(g[i - 1]) + Len(s[i])
  <2>1. i - 1 \in 0 .. n /\ g[i] = g[i - 1] \o s[i]
    BY <1>1
  <2>2. g[i - 1] \in Texts /\ s[i] \in Texts
    BY <1>1, <1>2, <2>1
  <2> QED
    BY <1>3, <2>1, <2>2, AtJoin
<1> HIDE DEF n
<1>4. T = {}
  <2>1. 0 \notin T
    BY <1>1 DEF n
  <2>2. ASSUME NEW k \in 1 .. n, k \in T
        PROVE  k - 1 \in T
    <3>1. n - (k - 1) \in 1 .. n /\ n - (k - 1) - 1 = n - k /\ k - 1 \in 0 .. n
      BY <1>1
    <3>2. ~At(msg, p, g[n - k])
      BY <2>2
    <3>3. ~At(msg, p, g[n - (k - 1)])
      BY <1>3, <3>1, <3>2
    <3> QED
      BY <3>1, <3>3
  <2>3. T \in SUBSET (0 .. n)
    OBVIOUS
  <2> HIDE DEF T
  <2> QED
    BY <1>1, <2>1, <2>2, <2>3, NoneBad
<1>5. \A i \in 1 .. n : At(msg, p, g[i])
  <2> TAKE i \in 1 .. n
  <2>1. n - i \in 0 .. n /\ n - (n - i) = i
    BY <1>1
  <2>2. n - i \notin T
    BY <1>4
  <2> QED
    BY <2>1, <2>2
<1>6. Len(g[0]) = 0
  OBVIOUS
<1> QED
  BY <1>2, <1>3, <1>5, <1>6 DEF n

(* Where the texts of FlattenSeq(s) begin.                                 *)
LEMMA TextRuns ==
    ASSUME NEW msg \in Texts, NEW p \in Nat, NEW s \in Seq(Texts),
           At(msg, p, FlattenSeq(s))
    PROVE  \E e \in [0 .. Len(s) -> Nat] :
              /\ e[0] = p
              /\ e[Len(s)] = p + Len(FlattenSeq(s))
              /\ \A i \in 1 .. Len(s) : /\ At(msg, e[i - 1], s[i])
                                        /\ e[i] = e[i - 1] + Len(s[i])
<1>1. PICK g \in [0 .. Len(s) -> Texts] : /\ g[0] = <<>>
                                          /\ \A i \in 1 .. Len(s) : g[i] = g[i - 1] \o s[i]
                                          /\ g[Len(s)] = FlattenSeq(s)
  BY FlattenRuns
<1>2. At(msg, p, g[Len(s)])
  BY <1>1
<1>3. /\ Len(g[0]) = 0
      /\ \A i \in 0 .. Len(s) : Len(g[i]) \in Nat
      /\ \A i \in 1 .. Len(s) : /\ At(msg, p + Len(g[i - 1]), s[i])
                                /\ Len(g[i]) = Len(g[i - 1]) + Len(s[i])
  BY <1>1, <1>2, AtRuns
<1> DEFINE e == [i \in 0 .. Len(s) |-> p + Len(g[i])]
<1>4. Len(s) \in Nat
  OBVIOUS
<1>5. e \in [0 .. Len(s) -> Nat] /\ e[0] = p /\ e[Len(s)] = p + Len(FlattenSeq(s))
  BY <1>1, <1>3, <1>4
<1>6. ASSUME NEW i \in 1 .. Len(s)
      PROVE  At(msg, e[i - 1], s[i]) /\ e[i] = e[i - 1] + Len(s[i])
  <2>1. i - 1 \in 0 .. Len(s) /\ i \in 0 .. Len(s)
    BY <1>4
  <2>2. e[i - 1] = p + Len(g[i - 1]) /\ e[i] = p + Len(g[i])
    BY <2>1
  <2>3. PICK x, y, z : x = Len(g[i]) /\ y = Len(g[i - 1]) /\ z = Len(s[i])
    OBVIOUS
  <2>4. z \in Nat
    <3>1. s[i] \in Texts
      OBVIOUS
    <3> QED
      BY <2>3, <3>1 DEF Texts
  <2>5. x \in Nat /\ y \in Nat /\ x = y + z
    BY <1>3, <2>1, <2>3
  <2>6. p + x = p + y + z
    BY <2>4, <2>5
  <2> QED
    BY <1>3, <2>2, <2>3, <2>6
<1> HIDE DEF e
<1> QED
  BY <1>5, <1>6

-----------------------------------------------------------------------------
(* The parameters.                                                         *)

(* A parameter, when its separator has been read.                          *)
LEMMA ParamRead ==
    ASSUME NEW msg \in Texts, NEW p \in Nat, NEW c, <<c>> \in Texts,
           NEW key \in Texts, Token(key, {"="}), NEW val \in Texts, Token(val, {"&"}),
           NEW t, t = <<c>> \o key \o <<"=">> \o val,
           At(msg, p, t), p + Len(t) + 1 \in 1 .. Len(msg),
           NEW q, Stands(msg, p + 1, q), NEW me, NEW ve, NEW pa, NEW ps, NEW hs,
           Knows(q, "BEFORE_PARAM_KEY", me, ve, pa, ps, hs),
           NEW n, Stands(msg, p + Len(t) + 1, n)
    PROVE  /\ msg[p + Len(t) + 1] = "SP"
                 => Knows(n, "BEFORE_VERSION", me, ve, pa, Inserted(ps, key, val), hs)
           /\ msg[p + Len(t) + 1] = "&"
                 => Knows(n, "BEFORE_PARAM_KEY", me, ve, pa, Inserted(ps, key, val), hs)
<1>1. <<"=">> \in Texts
  BY Ones
<1>2. PICK a : a = <<c>> \o key
  OBVIOUS
<1>3. PICK b : b = a \o <<"=">>
  OBVIOUS
<1>4. t = b \o val
  BY <1>2, <1>3
<1>5. a \in Texts /\ b \in Texts
  BY <1>1, <1>2, <1>3, Joins
<1>6. /\ At(msg, p, b) /\ At(msg, p + Len(b), val) /\ Len(t) = Len(b) + Len(val)
  <2>1. At(msg, p, b \o val) /\ Len(t) = Len(b \o val)
    BY <1>4
  <2> QED
    BY <1>5, <2>1, AtJoin
<1>7. /\ At(msg, p, a) /\ At(msg, p + Len(a), <<"=">>) /\ Len(b) = Len(a) + Len(<<"=">>)
  BY <1>1, <1>3, <1>5, <1>6, AtJoin
<1>8. /\ At(msg, p + Len(<<c>>), key) /\ Len(a) = Len(<<c>>) + Len(key)
  <2>1. At(msg, p, <<c>> \o key) /\ Len(a) = Len(<<c>> \o key)
    BY <1>2, <1>7
  <2>2. PICK d : d = <<c>>
    OBVIOUS
  <2>3. d \in Texts /\ At(msg, p, d \o key)
    BY <2>1, <2>2
  <2>4. At(msg, p + Len(d), key) /\ Len(d \o key) = Len(d) + Len(key)
    BY <2>3, AtJoin
  <2> QED
    BY <2>1, <2>2, <2>4
<1>9. /\ Len(<<c>>) = 1 /\ Len(<<"=">>) = 1 /\ Len(key) \in Nat /\ Len(val) \in Nat
      /\ Len(a) \in Nat /\ Len(b) \in Nat /\ Len(t) \in Nat
  BY <1>5, <1>6 DEF Texts
<1>10. /\ p + Len(a) = p + 1 + Len(key)
       /\ p + Len(b) = p + 1 + Len(key) + 1
       /\ p + Len(t) = p + Len(b) + Len(val)
       /\ p + 1 \in Nat /\ p + Len(b) \in Nat
  BY <1>6, <1>7, <1>8, <1>9
<1>11. PICK m : /\ Stands(msg, p + 1 + Len(key) + 1, m)
                /\ Knows(m, "BEFORE_PARAM_VALUE", me, ve, pa, ps, hs)
                /\ m.key = key
  <2>1. At(msg, p + 1, key) /\ At(msg, p + 1 + Len(key), <<"=">>)
    BY <1>7, <1>8, <1>9, <1>10
  <2> QED
    BY <1>10, <2>1, KeyRead
<1>12. PICK d : d = p + Len(b)
  OBVIOUS
<1>13. /\ d \in Nat /\ Stands(msg, d, m) /\ At(msg, d, val)
       /\ d + Len(val) + 1 \in 1 .. Len(msg) /\ Stands(msg, d + Len(val) + 1, n)
       /\ p + Len(t) + 1 = d + Len(val) + 1
  BY <1>6, <1>10, <1>11, <1>12
<1>14. /\ msg[d + Len(val) + 1] = "SP"
             => Knows(n, "BEFORE_VERSION", me, ve, pa, Inserted(ps, m.key, val), hs)
       /\ msg[d + Len(val) + 1] = "&"
             => Knows(n, "BEFORE_PARAM_KEY", me, ve, pa, Inserted(ps, m.key, val), hs)
  BY <1>11, <1>13, ValueRead
<1> QED
  BY <1>11, <1>13, <1>14

(* Behind the path and the first k parameters.                             *)
ParamsUpTo(n, c, me, pa, ps, k) ==
    /\ c = "SP" => Knows(n, "BEFORE_VERSION", me, Unset, pa, MapUpTo(ps, k), NoTexts)
    /\ c = (IF k = 0 THEN "?" ELSE "&")
          => Knows(n, "BEFORE_PARAM_KEY", me, Unset, pa, MapUpTo(ps, k), NoTexts)

(* All parameters: one more per step of the induction.                     *)
LEMMA ParamsRead ==
    ASSUME NEW msg \in Texts, NEW p \in Nat, NEW ps \in Pairs,
           \A i \in DOMAIN ps : Token(ps[i].key, {"="}) /\ Token(ps[i].val, {"&"}),
           NEW t, t = ParamsText(ps), At(msg, p, t), At(msg, p + Len(t), <<"SP">>),
           NEW me, NEW pa,
           \A n : Stands(msg, p + 1, n) => ParamsUpTo(n, msg[p + 1], me, pa, ps, 0),
           NEW m, Stands(msg, p + Len(t) + 1, m)
    PROVE  Knows(m, "BEFORE_VERSION", me, Unset, pa, AsMap(ps), NoTexts)
<1>1. PICK s \in Seq(Texts) : /\ Len(s) = Len(ps)
                              /\ \A i \in 1 .. Len(ps) : s[i] = ParamChunk(ps, i)
                              /\ t = FlattenSeq(s)
  BY ParamsTextIs
<1> DEFINE N == Len(ps)
<1>2. PICK e \in [0 .. N -> Nat] :
         /\ e[0] = p
         /\ e[N] = p + Len(t)
         /\ \A i \in 1 .. N : /\ At(msg, e[i - 1], s[i])
                             /\ e[i] = e[i - 1] + Len(s[i])
  <2>1. At(msg, p, FlattenSeq(s))
    BY <1>1
  <2>2. \E e \in [0 .. Len(s) -> Nat] :
           /\ e[0] = p
           /\ e[Len(s)] = p + Len(FlattenSeq(s))
           /\ \A i \in 1 .. Len(s) : /\ At(msg, e[i - 1], s[i])
                                     /\ e[i] = e[i - 1] + Len(s[i])
    BY <2>1, TextRuns
  <2> QED
    BY <1>1, <2>2
<1> DEFINE Good(k) == \A n : Stands(msg, e[k] + 1, n)
                                => ParamsUpTo(n, msg[e[k] + 1], me, pa, ps, k)
           T == {k \in 0 .. N : ~Good(k)}
<1> HIDE DEF T, Good
<1>4. N \in Nat /\ DOMAIN ps = 1 .. N /\ Len(msg) \in Nat
  BY PairsAre DEF Texts
<1>5. \A k \in 0 .. N : e[k] \in Nat
  BY <1>4
<1>6. ASSUME NEW k \in 1 .. N
      PROVE  /\ e[k - 1] + 1 \in 1 .. Len(msg)
             /\ msg[e[k - 1] + 1] = IF k = 1 THEN "?" ELSE "&"
  <2> DEFINE c == IF k = 1 THEN "?" ELSE "&"
             r == ps[k].key \o <<"=">> \o ps[k].val
  <2>1. k - 1 \in 0 .. N /\ e[k - 1] \in Nat
    BY <1>4, <1>5
  <2>2. <<c>> \in Texts /\ <<"=">> \in Texts /\ ps[k].key \in Texts /\ ps[k].val \in Texts
    BY Ones, PairsAre
  <2>3. s[k] = <<c>> \o ps[k].key \o <<"=">> \o ps[k].val
    BY <1>1 DEF ParamChunk
  <2>4. At(msg, e[k - 1], <<c>>)
    <3> HIDE DEF c
    <3>1. PICK a : a = <<c>> \o ps[k].key
      OBVIOUS
    <3>2. PICK b : b = a \o <<"=">>
      OBVIOUS
    <3>3. a \in Texts /\ b \in Texts
      BY <2>2, <3>1, <3>2, Joins
    <3>4. At(msg, e[k - 1], b)
      <4>1. At(msg, e[k - 1], b \o ps[k].val)
        BY <1>2, <2>3, <3>1, <3>2
      <4> QED
        BY <2>1, <2>2, <3>3, <4>1, AtJoin
    <3>5. At(msg, e[k - 1], a)
      BY <2>1, <2>2, <3>2, <3>3, <3>4, AtJoin
    <3> QED
      BY <2>1, <2>2, <3>1, <3>5, AtJoin
  <2> QED
    BY <2>1, <2>4, AtOne
<1>7. e[N] + 1 \in 1 .. Len(msg) /\ msg[e[N] + 1] = "SP"
  <2>1. e[N] = p + Len(t) /\ e[N] \in Nat
    BY <1>1, <1>2, <1>4, <1>5
  <2> QED
    BY <2>1, AtOne
<1>8. ASSUME NEW k \in 1 .. N, Good(k - 1)
      PROVE  Good(k)
  <2> SUFFICES ASSUME NEW n, Stands(msg, e[k] + 1, n)
               PROVE  ParamsUpTo(n, msg[e[k] + 1], me, pa, ps, k)
    BY DEF Good
  <2>1. /\ k - 1 \in 0 .. N /\ k \in 0 .. N
        /\ e[k - 1] \in Nat /\ e[k] = e[k - 1] + Len(s[k])
    <3>1. k - 1 \in 0 .. N /\ k \in 0 .. N
      BY <1>4
    <3> QED
      BY <1>2, <1>5, <3>1
  <2>2. PICK q : Stands(msg, e[k - 1] + 1, q)
    BY DEF Stands
  <2>3. Knows(q, "BEFORE_PARAM_KEY", me, Unset, pa, MapUpTo(ps, k - 1), NoTexts)
    <3>1. ParamsUpTo(q, msg[e[k - 1] + 1], me, pa, ps, k - 1)
      BY <1>8, <2>2 DEF Good
    <3>2. msg[e[k - 1] + 1] = IF k - 1 = 0 THEN "?" ELSE "&"
      BY <1>6
    <3> QED
      BY <3>1, <3>2 DEF ParamsUpTo
  <2>4. e[k] + 1 \in 1 .. Len(msg)
    <3>1. CASE k = N
      BY <1>7, <3>1
    <3>2. CASE k # N
      <4>1. k + 1 \in 1 .. N /\ k + 1 - 1 = k
        <5> HIDE DEF N
        <5> QED
          BY <1>4, <3>2
      <4> QED
        BY <1>6, <4>1
    <3> QED
      BY <3>1, <3>2
  <2>5. MapUpTo(ps, k) = Inserted(MapUpTo(ps, k - 1), ps[k].key, ps[k].val)
    BY MapsUpTo
  <2>6. /\ ps[k].key \in Texts /\ ps[k].val \in Texts
        /\ Token(ps[k].key, {"="}) /\ Token(ps[k].val, {"&"})
    BY <1>4, PairsAre
  <2>7. PICK c : c = IF k = 1 THEN "?" ELSE "&"
    OBVIOUS
  <2>8. <<c>> \in Texts /\ s[k] = <<c>> \o ps[k].key \o <<"=">> \o ps[k].val
    BY <1>1, <2>7, Ones DEF ParamChunk
  <2>9. At(msg, e[k - 1], s[k])
    BY <1>2
  <2>10. PICK d : d = e[k - 1]
    OBVIOUS
  <2>11. /\ d \in Nat /\ Stands(msg, d + 1, q) /\ At(msg, d, s[k])
         /\ d + Len(s[k]) + 1 \in 1 .. Len(msg)
         /\ Stands(msg, d + Len(s[k]) + 1, n)
         /\ e[k] + 1 = d + Len(s[k]) + 1
    BY <2>1, <2>2, <2>4, <2>9, <2>10
  <2>12. PICK x : x = s[k]
    OBVIOUS
  <2>13. PICK key, val, is : key = ps[k].key /\ val = ps[k].val /\ is = MapUpTo(ps, k - 1)
    OBVIOUS
  <2>14. /\ x = <<c>> \o key \o <<"=">> \o val
         /\ key \in Texts /\ val \in Texts /\ Token(key, {"="}) /\ Token(val, {"&"})
         /\ Knows(q, "BEFORE_PARAM_KEY", me, Unset, pa, is, NoTexts)
         /\ At(msg, d, x) /\ d + Len(x) + 1 \in 1 .. Len(msg)
         /\ Stands(msg, d + Len(x) + 1, n)
    BY <2>3, <2>6, <2>8, <2>11, <2>12, <2>13
  <2>15. /\ msg[d + Len(x) + 1] = "SP"
               => Knows(n, "BEFORE_VERSION", me, Unset, pa, Inserted(is, key, val), NoTexts)
         /\ msg[d + Len(x) + 1] = "&"
               => Knows(n, "BEFORE_PARAM_KEY", me, Unset, pa, Inserted(is, key, val), NoTexts)
    BY <2>8, <2>11, <2>14, <2>2, ParamRead
  <2>16. Inserted(is, key, val) = MapUpTo(ps, k) /\ e[k] + 1 = d + Len(x) + 1 /\ k # 0
    BY <2>5, <2>11, <2>12, <2>13
  <2> QED
    BY <2>15, <2>16 DEF ParamsUpTo
<1>9. Good(0)
  <2>1. e[0] = p
    BY <1>2
  <2> QED
    BY <2>1 DEF Good
<1>10. T = {}
  <2>1. 0 \notin T
    BY <1>9 DEF T
  <2>2. ASSUME NEW k \in 1 .. N, k \in T
        PROVE  k - 1 \in T
    <3>1. k - 1 \in 0 .. N
      BY <1>4
    <3>2. ~Good(k - 1)
      BY <1>8, <2>2 DEF T
    <3> QED
      BY <3>1, <3>2 DEF T
  <2>3. T \in SUBSET (0 .. N)
    BY DEF T
  <2> QED
    BY <1>4, <2>1, <2>2, <2>3, NoneBad
<1>11. Good(N)
  BY <1>4, <1>10 DEF T
<1>12. e[N] = p + Len(t)
  BY <1>2
<1>13. ParamsUpTo(m, msg[e[N] + 1], me, pa, ps, N)
  BY <1>11, <1>12 DEF Good
<1>14. MapUpTo(ps, N) = AsMap(ps)
  BY MapsUpTo
<1> QED
  BY <1>7, <1>13, <1>14 DEF ParamsUpTo

-----------------------------------------------------------------------------
(* The headers.                                                            *)

(* A header line.                                                          *)
LEMMA HeaderRead ==
    ASSUME NEW msg \in Texts, NEW p \in Nat, NEW h, h.key \in Texts, h.val \in Texts,
           Token(h.key, {":"}), Without(h.val, {"CR"}),
           h.val # <<>> => h.val[1] \notin Blanks,
           NEW t, t = HeaderText(h), At(msg, p, t),
           NEW q, Stands(msg, p, q), NEW me, NEW ve, NEW pa, NEW ps, NEW hs,
           Knows(q, "W_CR_LF", me, ve, pa, ps, hs),
           NEW n, Stands(msg, p + Len(t), n)
    PROVE  Knows(n, "W_CR_LF", me, ve, pa, ps, Inserted(hs, h.key, h.val))
<1>1. PICK key, val, c, d : /\ key = h.key /\ val = h.val /\ c = <<":", "SP">>
                            /\ d = EndOfLine
  OBVIOUS
<1>2. /\ key \in Texts /\ val \in Texts /\ c \in Texts /\ d \in Texts
      /\ Token(key, {":"}) /\ Without(val, {"CR"})
      /\ val # <<>> => val[1] \notin Blanks
  BY <1>1, Ones
<1>3. PICK a : a = key \o c
  OBVIOUS
<1>4. PICK b : b = a \o val
  OBVIOUS
<1>5. a \in Texts /\ b \in Texts
  BY <1>2, <1>3, <1>4, Joins
<1>6. At(msg, p, b \o d) /\ Len(t) = Len(b \o d)
  BY <1>1, <1>3, <1>4 DEF HeaderText
<1>7. At(msg, p, b) /\ At(msg, p + Len(b), d) /\ Len(t) = Len(b) + Len(d)
  BY <1>2, <1>5, <1>6, AtJoin
<1>8. At(msg, p, a \o val) /\ Len(b) = Len(a \o val)
  BY <1>4, <1>7
<1>9. At(msg, p, a) /\ At(msg, p + Len(a), val) /\ Len(b) = Len(a) + Len(val)
  BY <1>2, <1>5, <1>8, AtJoin
<1>10. At(msg, p, key \o c) /\ Len(a) = Len(key \o c)
  BY <1>3, <1>9
<1>11. At(msg, p, key) /\ At(msg, p + Len(key), c) /\ Len(a) = Len(key) + Len(c)
  BY <1>2, <1>10, AtJoin
<1>12. /\ Len(c) = 2 /\ Len(d) = 2 /\ Len(key) \in Nat /\ Len(val) \in Nat
  BY <1>1, <1>2 DEF Texts, EndOfLine
<1>13. /\ p + Len(a) = p + Len(key) + 2
       /\ p + Len(b) = p + Len(a) + Len(val)
       /\ p + Len(t) = p + Len(a) + Len(val) + 2
       /\ p + Len(a) \in Nat
  BY <1>7, <1>9, <1>11, <1>12
<1>14. PICK m : /\ Stands(msg, p + Len(key) + 2, m)
                /\ Knows(m, "BEFORE_HEADER_VALUE", me, ve, pa, ps, hs)
                /\ m.key = key
  <2>1. At(msg, p + Len(key), <<":", "SP">>)
    BY <1>1, <1>11
  <2>2. \E m : /\ Stands(msg, p + Len(key) + 2, m)
               /\ Knows(m, "BEFORE_HEADER_VALUE", me, ve, pa, ps, hs)
               /\ m.key = key
    BY <1>2, <1>11, <2>1, HeaderKeyRead
  <2> QED
    BY <2>2
<1>15. PICK e : e = p + Len(a)
  OBVIOUS
<1>16. /\ e \in Nat /\ Stands(msg, e, m) /\ At(msg, e, val)
       /\ At(msg, e + Len(val), EndOfLine) /\ Stands(msg, e + Len(val) + 2, n)
  BY <1>1, <1>7, <1>9, <1>13, <1>14, <1>15
<1>17. CASE val = <<>>
  <2>1. Len(val) = 0
    BY <1>17
  <2>2. e + Len(val) = e /\ e + Len(val) + 2 = e + 2
    BY <1>16, <2>1
  <2>3. At(msg, e, EndOfLine) /\ Stands(msg, e + 2, n)
    BY <1>16, <2>2
  <2>4. \E x : /\ Stands(msg, e + 2, x)
               /\ Knows(x, "W_CR_LF", me, ve, pa, ps, Inserted(hs, m.key, <<>>))
    BY <1>14, <1>16, <2>3, NoValueRead
  <2> QED
    BY <1>1, <1>14, <1>17, <2>3, <2>4 DEF Stands
<1>18. CASE val # <<>>
  <2>1. val[1] \notin Blanks
    BY <1>2, <1>18
  <2>2. \E x : /\ Stands(msg, e + Len(val) + 2, x)
               /\ Knows(x, "W_CR_LF", me, ve, pa, ps, Inserted(hs, m.key, val))
    BY <1>2, <1>14, <1>16, <1>18, <2>1, HeaderValueRead
  <2> QED
    BY <1>1, <1>14, <1>16, <2>2 DEF Stands
<1> QED
  BY <1>17, <1>18

(* All header lines: one more per step of the induction.                   *)
LEMMA HeadersRead ==
    ASSUME NEW msg \in Texts, NEW p \in Nat, NEW hs \in Pairs,
           \A i \in DOMAIN hs : /\ Token(hs[i].key, {":"})
                                /\ Without(hs[i].val, {"CR"})
                                /\ hs[i].val # <<>> => hs[i].val[1] \notin Blanks,
           NEW t, t = FlattenSeq([i \in DOMAIN hs |-> HeaderText(hs[i])]),
           At(msg, p, t),
           NEW q, Stands(msg, p, q), NEW me, NEW ve, NEW pa, NEW ps,
           Knows(q, "W_CR_LF", me, ve, pa, ps, NoTexts),
           NEW m, Stands(msg, p + Len(t), m)
    PROVE  Knows(m, "W_CR_LF", me, ve, pa, ps, AsMap(hs))
<1>1. PICK s \in Seq(Texts) : /\ Len(s) = Len(hs)
                              /\ \A i \in 1 .. Len(hs) : s[i] = HeaderText(hs[i])
                              /\ t = FlattenSeq(s)
  BY HeadersTextIs
<1> DEFINE N == Len(hs)
<1>2. PICK e \in [0 .. N -> Nat] :
         /\ e[0] = p
         /\ e[N] = p + Len(t)
         /\ \A i \in 1 .. N : /\ At(msg, e[i - 1], s[i])
                             /\ e[i] = e[i - 1] + Len(s[i])
  <2>1. At(msg, p, FlattenSeq(s))
    BY <1>1
  <2>2. \E e \in [0 .. Len(s) -> Nat] :
           /\ e[0] = p
           /\ e[Len(s)] = p + Len(FlattenSeq(s))
           /\ \A i \in 1 .. Len(s) : /\ At(msg, e[i - 1], s[i])
                                     /\ e[i] = e[i - 1] + Len(s[i])
    BY <2>1, TextRuns
  <2> QED
    BY <1>1, <2>2
<1> DEFINE Good(k) == \A n : Stands(msg, e[k], n)
                         => Knows(n, "W_CR_LF", me, ve, pa, ps, MapUpTo(hs, k))
           T == {k \in 0 .. N : ~Good(k)}
<1> HIDE DEF T, Good
<1>4. N \in Nat /\ DOMAIN hs = 1 .. N
  BY PairsAre
<1>5. \A k \in 0 .. N : e[k] \in Nat
  BY <1>4
<1>6. ASSUME NEW k \in 1 .. N, Good(k - 1)
      PROVE  Good(k)
  <2> SUFFICES ASSUME NEW n, Stands(msg, e[k], n)
               PROVE  Knows(n, "W_CR_LF", me, ve, pa, ps, MapUpTo(hs, k))
    BY DEF Good
  <2>1. k - 1 \in 0 .. N /\ e[k - 1] \in Nat /\ e[k] = e[k - 1] + Len(s[k])
    <3>1. k - 1 \in 0 .. N /\ k \in 0 .. N
      BY <1>4
    <3> QED
      BY <1>2, <1>5, <3>1
  <2>2. PICK x : Stands(msg, e[k - 1], x)
    BY DEF Stands
  <2>3. PICK is : is = MapUpTo(hs, k - 1)
    OBVIOUS
  <2>4. Knows(x, "W_CR_LF", me, ve, pa, ps, is)
    BY <1>6, <2>2, <2>3 DEF Good
  <2>5. PICK h : h = hs[k]
    OBVIOUS
  <2>6. /\ h.key \in Texts /\ h.val \in Texts
        /\ Token(h.key, {":"}) /\ Without(h.val, {"CR"})
        /\ h.val # <<>> => h.val[1] \notin Blanks
    BY <1>4, <2>5, PairsAre
  <2>7. MapUpTo(hs, k) = Inserted(is, h.key, h.val)
    BY <2>3, <2>5, MapsUpTo
  <2>8. PICK u, d : u = s[k] /\ d = e[k - 1]
    OBVIOUS
  <2>9. /\ u = HeaderText(h) /\ d \in Nat /\ At(msg, d, u)
        /\ Stands(msg, d, x) /\ Stands(msg, d + Len(u), n)
    BY <1>1, <1>2, <2>1, <2>2, <2>5, <2>8
  <2>10. Knows(n, "W_CR_LF", me, ve, pa, ps, Inserted(is, h.key, h.val))
    BY <2>4, <2>6, <2>9, HeaderRead
  <2> QED
    BY <2>7, <2>10
<1>7. Good(0)
  <2>1. e[0] = p /\ MapUpTo(hs, 0) = NoTexts
    BY <1>2, MapsUpTo
  <2> QED
    BY <2>1 DEF Good, Stands
<1>8. T = {}
  <2>1. 0 \notin T
    BY <1>7 DEF T
  <2>2. ASSUME NEW k \in 1 .. N, k \in T
        PROVE  k - 1 \in T
    <3>1. k - 1 \in 0 .. N
      BY <1>4
    <3>2. ~Good(k - 1)
      BY <1>6, <2>2 DEF T
    <3> QED
      BY <3>1, <3>2 DEF T
  <2>3. T \in SUBSET (0 .. N)
    BY DEF T
  <2> QED
    BY <1>4, <2>1, <2>2, <2>3, NoneBad
<1>9. Good(N)
  BY <1>4, <1>8 DEF T
<1>10. e[N] = p + Len(t) /\ MapUpTo(hs, N) = AsMap(hs)
  BY <1>1, <1>2, MapsUpTo
<1> QED
  BY <1>9, <1>10 DEF Good

-----------------------------------------------------------------------------
(* The body.                                                               *)

Took(n, me, ve, pa, ps, hs, body) ==
    /\ n.m_method = me
    /\ n.m_version = ve
    /\ n.m_path = pa
    /\ n.m_params = ps
    /\ n.m_heads = hs
    /\ n.m_body = body

(* The body is the last that parse() sets.                                 *)
LEMMA KnowsBody ==
    ASSUME NEW q, NEW s, NEW me, NEW ve, NEW pa, NEW ps, NEW hs,
           Knows(q, s, me, ve, pa, ps, hs), NEW x, NEW y,
           NEW n, n = Goto([q EXCEPT !.m_body = x], y)
    PROVE  n.m_state = y /\ Took(n, me, ve, pa, ps, hs, x)
<1>1. PICK r : r = [q EXCEPT !.m_body = x]
  OBVIOUS
<1>2. Has(r, q.m_state, q.m_method, q.m_version, q.m_path, q.m_params, q.m_heads, x,
          q.begin, q.key, q.bodyLength)
  BY <1>1, Assigned DEF Knows
<1>3. IsParser(r)
  BY <1>2, MembersAre
<1>4. n = Goto(r, y)
  BY <1>1
<1>5. Has(n, y, r.m_method, r.m_version, r.m_path, r.m_params, r.m_heads, r.m_body,
          r.begin, r.key, r.bodyLength)
  BY <1>3, <1>4, Assigned
<1>6. /\ r.m_method = q.m_method /\ r.m_version = q.m_version /\ r.m_path = q.m_path
      /\ r.m_params = q.m_params /\ r.m_heads = q.m_heads /\ r.m_body = x
  BY <1>2, MembersAre
<1>7. /\ n.m_state = y
      /\ n.m_method = r.m_method /\ n.m_version = r.m_version /\ n.m_path = r.m_path
      /\ n.m_params = r.m_params /\ n.m_heads = r.m_heads /\ n.m_body = r.m_body
  BY <1>5, MembersAre
<1> QED
  BY <1>6, <1>7 DEF Knows, Took

(* The rest of the message is the body.                                    *)
LEMMA BodyRead ==
    ASSUME NEW msg \in Texts, NEW p \in Nat, NEW body \in Texts, body # <<>>,
           At(msg, p, body), Len(msg) = p + Len(body),
           NEW q, Stands(msg, p, q), NEW me, NEW ve, NEW pa, NEW ps, NEW hs,
           Knows(q, "BODY", me, ve, pa, ps, hs), q.bodyLength = Len(body),
           NEW n, Stands(msg, Len(msg), n)
    PROVE  Took(n, me, ve, pa, ps, hs, body)
<1>1. /\ Len(body) \in Nat /\ p + 1 \in 1 .. Len(msg) /\ Len(msg) \in Nat
      /\ \A k \in 1 .. Len(body) : msg[p + k] = body[k]
      /\ p + 1 \in Nat /\ p + 1 <= Len(msg)
  <2>1. Len(body) \in Nat /\ Len(body) # 0 /\ Len(msg) \in Nat
    BY EmptySeq DEF Texts
  <2> QED
    BY <2>1 DEF At
<1>2. q.m_state = "BODY"
  BY DEF Knows
<1>3. PICK b : b = [j \in 1 .. q.bodyLength |->
                        IF p + 1 + j - 1 <= Len(msg) THEN msg[p + 1 + j - 1] ELSE Garbage]
  OBVIOUS
<1>4. b = body
  <2>1. ASSUME NEW j \in 1 .. Len(body)
        PROVE  b[j] = body[j]
    <3>1. p + 1 + j - 1 = p + j /\ p + j <= Len(msg) /\ j \in 1 .. q.bodyLength
      BY <1>1
    <3>2. b[j] = msg[p + j]
      BY <1>3, <3>1
    <3> QED
      BY <1>1, <3>2
  <2>2. b = [j \in 1 .. Len(body) |-> b[j]]
    BY <1>3
  <2>3. body = [j \in 1 .. Len(body) |-> body[j]]
    BY DEF Texts
  <2> QED
    BY <2>1, <2>2, <2>3
<1>5. PICK m : m = Goto([q EXCEPT !.m_body = b], "END")
  OBVIOUS
<1>6. m.m_state = "END" /\ Took(m, me, ve, pa, ps, hs, body)
  <2>1. m.m_state = "END" /\ Took(m, me, ve, pa, ps, hs, b)
    BY <1>5, KnowsBody
  <2> QED
    BY <1>4, <2>1
<1>7. Round(q, msg, p + 1) = m
  <2>1. Round(q, msg, p + 1) = LineEndsAndBody(q, msg, p + 1)
    BY <1>2, RoundIs
  <2>2. LineEndsAndBody(q, msg, p + 1)
           = Goto([q EXCEPT !.m_body = [j \in 1 .. q.bodyLength |->
                                          IF p + 1 + j - 1 <= Len(msg)
                                          THEN msg[p + 1 + j - 1] ELSE Garbage]],
                  "END")
    BY <1>2, BodyRound
  <2> QED
    BY <1>3, <1>5, <2>1, <2>2
<1>8. After(msg)[p + 1] = m
  BY <1>1, <1>7, NextRound DEF Stands
<1>9. \A k \in p + 1 + 1 .. Len(msg) : Round(m, msg, k) = m
  BY <1>6, RoundIs DEF Final
<1>10. After(msg)[Len(msg)] = m
  BY <1>1, <1>8, <1>9, Stays
<1> QED
  BY <1>6, <1>10 DEF Stands

(* The empty line, and the body as Content-Length or the message ends it.  *)
LEMMA EndRead ==
    ASSUME NEW msg \in Texts, NEW p \in Nat, NEW body \in Texts,
           At(msg, p, EndOfLine), At(msg, p + 2, body), Len(msg) = p + 2 + Len(body),
           NEW q, Stands(msg, p, q), NEW me, NEW ve, NEW pa, NEW ps, NEW hs,
           Knows(q, "W_CR_LF", me, ve, pa, ps, hs),
           <<"Content-Length">> \in DOMAIN hs
              => NumberOf(hs[<<"Content-Length">>]) = Len(body),
           NEW n, Stands(msg, Len(msg), n)
    PROVE  Took(n, me, ve, pa, ps, hs, body)
<1>1. /\ p + 1 \in 1 .. Len(msg) /\ msg[p + 1] = "CR"
      /\ p + 2 \in 1 .. Len(msg) /\ msg[p + 2] = "LF"
  BY AtTwo DEF EndOfLine
<1>2. Len(body) \in Nat /\ p + 2 \in Nat /\ p + 1 \in Nat /\ p + 1 + 1 = p + 2
  BY DEF Texts
<1>3. PICK m : m = Goto(q, "W_CR_LF_CR")
  OBVIOUS
<1>4. Knows(m, "W_CR_LF_CR", me, ve, pa, ps, hs)
  BY <1>3, KnowsGoto
<1>5. Stands(msg, p + 1, m)
  <2>1. q.m_state = "W_CR_LF"
    BY DEF Knows
  <2>2. Round(q, msg, p + 1) = m
    BY <1>1, <1>3, <2>1, RoundIs, LineRounds
  <2> QED
    BY <1>1, <2>2, NextRound
<1>6. m.m_state = "W_CR_LF_CR" /\ m.m_heads = hs
  BY <1>4 DEF Knows
<1>7. PICK x : x = Round(m, msg, p + 2)
  OBVIOUS
<1>8. Stands(msg, p + 2, x)
  BY <1>1, <1>2, <1>5, <1>7, NextRound
<1>9. PICK r : r = [m EXCEPT !.bodyLength = Len(body)]
  OBVIOUS
<1>10. Knows(r, "W_CR_LF_CR", me, ve, pa, ps, hs) /\ r.bodyLength = Len(body)
  BY <1>4, <1>9, KnowsLength
<1>11. /\ x = Goto(r, "BODY") \/ x = Goto(r, "END")
       /\ Len(body) > 0 => x = Goto(r, "BODY")
  <2> DEFINE c == <<"Content-Length">>
  <2>1. x = LineEndsAndBody(m, msg, p + 2)
    BY <1>6, <1>7, RoundIs
  <2>2. LineEndsAndBody(m, msg, p + 2)
           = IF c \in DOMAIN m.m_heads
             THEN LET k == NumberOf(m.m_heads[c]) IN
                  Goto([m EXCEPT !.bodyLength = k], IF k > 0 THEN "BODY" ELSE "END")
             ELSE Goto([m EXCEPT !.bodyLength = Len(msg) - (p + 2)], "BODY")
    BY <1>1, <1>6, LengthRound
  <2>3. c \in DOMAIN hs => NumberOf(hs[c]) = Len(body)
    OBVIOUS
  <2> HIDE DEF c
  <2>4. CASE c \in DOMAIN hs
    <3>1. x = Goto([m EXCEPT !.bodyLength = NumberOf(hs[c])],
                   IF NumberOf(hs[c]) > 0 THEN "BODY" ELSE "END")
      BY <1>6, <2>1, <2>2, <2>4
    <3>2. x = Goto(r, IF Len(body) > 0 THEN "BODY" ELSE "END")
      BY <1>9, <2>3, <2>4, <3>1
    <3> QED
      BY <3>2
  <2>5. CASE c \notin DOMAIN hs
    <3>1. x = Goto([m EXCEPT !.bodyLength = Len(msg) - (p + 2)], "BODY")
      BY <1>6, <2>1, <2>2, <2>5
    <3>2. Len(msg) - (p + 2) = Len(body)
      BY <1>2
    <3>3. x = Goto(r, "BODY")
      BY <1>9, <3>1, <3>2
    <3> QED
      BY <3>3
  <2> QED
    BY <2>4, <2>5
<1>12. CASE body = <<>>
  <2>1. Len(body) = 0
    BY <1>12
  <2>2. Len(msg) = p + 2
    BY <1>2, <2>1
  <2>3. n = x
    BY <1>8, <2>2 DEF Stands
  <2>4. \E y : Knows(x, y, me, ve, pa, ps, hs)
    <3>1. /\ Knows(Goto(r, "BODY"), "BODY", me, ve, pa, ps, hs)
          /\ Knows(Goto(r, "END"), "END", me, ve, pa, ps, hs)
      BY <1>10, KnowsGoto
    <3> QED
      BY <1>11, <3>1
  <2> QED
    BY <1>12, <2>3, <2>4 DEF Knows, Took
<1>13. CASE body # <<>>
  <2>1. x = Goto(r, "BODY")
    <3>1. Len(body) # 0
      BY <1>13, EmptySeq DEF Texts
    <3> QED
      BY <1>2, <1>11, <3>1
  <2>2. Knows(x, "BODY", me, ve, pa, ps, hs) /\ x.bodyLength = Len(body)
    BY <1>10, <2>1, KnowsGoto
  <2> QED
    BY <1>2, <1>8, <1>13, <2>2, BodyRead
<1> QED
  BY <1>12, <1>13

-----------------------------------------------------------------------------
(* What stays as it was read.                                              *)

(* What a change of members leaves alone: the request line.                *)
Same(r, q) == /\ IsParser(r)
              /\ r.m_method = q.m_method
              /\ r.m_version = q.m_version
              /\ r.m_path = q.m_path
              /\ r.m_params = q.m_params

LEMMA GotoLeaves ==
    ASSUME NEW q, IsParser(q), NEW x
    PROVE  /\ Same(Goto(q, x), q)
           /\ Goto(q, x).m_state = x
           /\ Goto(q, x).m_heads = q.m_heads
<1>1. PICK r : r = Goto(q, x)
  OBVIOUS
<1>2. Has(r, x, q.m_method, q.m_version, q.m_path, q.m_params,
             q.m_heads, q.m_body, q.begin, q.key, q.bodyLength)
  BY <1>1, Assigned
<1>3. Same(r, q) /\ r.m_state = x /\ r.m_heads = q.m_heads
  BY <1>2, MembersAre DEF Same
<1> QED
  BY <1>1, <1>3

LEMMA MarkLeaves ==
    ASSUME NEW q, IsParser(q), NEW x, NEW i
    PROVE  Same(Mark(q, i, x), q) /\ Mark(q, i, x).m_state = x
<1>1. PICK r : r = Mark(q, i, x)
  OBVIOUS
<1>2. Has(r, x, q.m_method, q.m_version, q.m_path, q.m_params,
             q.m_heads, q.m_body, i, q.key, q.bodyLength)
  BY <1>1, Marked
<1>3. Same(r, q) /\ r.m_state = x
  BY <1>2, MembersAre DEF Same
<1> QED
  BY <1>1, <1>3

LEMMA Leaves ==
    ASSUME NEW q, IsParser(q), NEW x
    PROVE  /\ Same([q EXCEPT !.m_heads = x], q)
           /\ Same([q EXCEPT !.m_body = x], q)
           /\ [q EXCEPT !.m_body = x].m_heads = q.m_heads
           /\ Same([q EXCEPT !.key = x], q)
           /\ Same([q EXCEPT !.bodyLength = x], q)
<1>1. Same([q EXCEPT !.m_heads = x], q)
  <2>1. PICK r : r = [q EXCEPT !.m_heads = x]
    OBVIOUS
  <2>2. Has(r, q.m_state, q.m_method, q.m_version, q.m_path, q.m_params,
               x, q.m_body, q.begin, q.key, q.bodyLength)
    BY <2>1, Assigned
  <2>3. Same(r, q)
    BY <2>2, MembersAre DEF Same
  <2> QED
    BY <2>1, <2>3
<1>2. Same([q EXCEPT !.m_body = x], q) /\ [q EXCEPT !.m_body = x].m_heads = q.m_heads
  <2>1. PICK r : r = [q EXCEPT !.m_body = x]
    OBVIOUS
  <2>2. Has(r, q.m_state, q.m_method, q.m_version, q.m_path, q.m_params,
               q.m_heads, x, q.begin, q.key, q.bodyLength)
    BY <2>1, Assigned
  <2>3. Same(r, q) /\ r.m_heads = q.m_heads
    BY <2>2, MembersAre DEF Same
  <2> QED
    BY <2>1, <2>3
<1>3. Same([q EXCEPT !.key = x], q)
  <2>1. PICK r : r = [q EXCEPT !.key = x]
    OBVIOUS
  <2>2. Has(r, q.m_state, q.m_method, q.m_version, q.m_path, q.m_params,
               q.m_heads, q.m_body, q.begin, x, q.bodyLength)
    BY <2>1, Assigned
  <2>3. Same(r, q)
    BY <2>2, MembersAre DEF Same
  <2> QED
    BY <2>1, <2>3
<1>4. Same([q EXCEPT !.bodyLength = x], q)
  <2>1. PICK r : r = [q EXCEPT !.bodyLength = x]
    OBVIOUS
  <2>2. Has(r, q.m_state, q.m_method, q.m_version, q.m_path, q.m_params,
               q.m_heads, q.m_body, q.begin, q.key, x)
    BY <2>1, Assigned
  <2>3. Same(r, q)
    BY <2>2, MembersAre DEF Same
  <2> QED
    BY <2>1, <2>3
<1> QED
  BY <1>1, <1>2, <1>3, <1>4

(* The states behind the request line, and what the parser knows there.    *)
BehindLine == {"W_CR", "W_CR_LF", "W_CR_LF_CR", "HEADER_KEY",
               "BEFORE_HEADER_VALUE", "HEADER_VALUE", "BODY"} \cup Final

KnowsLine(q, me, ve, pa, ps) ==
    /\ IsParser(q)
    /\ q.m_state \in BehindLine
    /\ q.m_method = me
    /\ q.m_version = ve
    /\ q.m_path = pa
    /\ q.m_params = ps

(* ... and behind the blank line.                                          *)
KnowsHead(q, me, ve, pa, ps, hs) ==
    /\ KnowsLine(q, me, ve, pa, ps)
    /\ q.m_state \in {"BODY"} \cup Final
    /\ q.m_heads = hs

LEMMA LineGoesOn ==
    ASSUME NEW q, NEW me, NEW ve, NEW pa, NEW ps, KnowsLine(q, me, ve, pa, ps),
           NEW p, Same(p, q), NEW i, NEW x \in BehindLine
    PROVE  KnowsLine(Goto(p, x), me, ve, pa, ps) /\ KnowsLine(Mark(p, i, x), me, ve, pa, ps)
<1>1. IsParser(p)
  BY DEF Same
<1>2. PICK r : r = Goto(p, x)
  OBVIOUS
<1>3. Same(r, p) /\ r.m_state = x
  BY <1>1, <1>2, GotoLeaves
<1>4. PICK t : t = Mark(p, i, x)
  OBVIOUS
<1>5. Same(t, p) /\ t.m_state = x
  BY <1>1, <1>4, MarkLeaves
<1>6. KnowsLine(r, me, ve, pa, ps)
  BY <1>3 DEF Same, KnowsLine
<1>7. KnowsLine(t, me, ve, pa, ps)
  BY <1>5 DEF Same, KnowsLine
<1> QED
  BY <1>2, <1>4, <1>6, <1>7

(* What Headers and LineEndsAndBody do, state by state.                    *)
LEMMA HeadersSteps ==
    ASSUME NEW q, NEW msg, NEW i
    PROVE  LET text == Text(q, msg, i)
               next == Headers(q, msg, i)
           IN
           /\ q.m_state = "HEADER_KEY" =>
                 \/ next = q
                 \/ next = Goto([q EXCEPT !.key = text], "BEFORE_HEADER_VALUE")
           /\ q.m_state \in {"BEFORE_HEADER_VALUE", "HEADER_VALUE"} =>
                 \E r \in {q, Mark(q, i, "HEADER_VALUE")} :
                    \/ next = r
                    \/ \E m : next = Goto([r EXCEPT !.m_heads = m], "W_CR")
<1>1. ASSUME q.m_state = "HEADER_KEY"
      PROVE  \/ Headers(q, msg, i) = q
             \/ Headers(q, msg, i) =
                   Goto([q EXCEPT !.key = Text(q, msg, i)], "BEFORE_HEADER_VALUE")
  BY <1>1 DEF Headers
<1>2. ASSUME q.m_state \in {"BEFORE_HEADER_VALUE", "HEADER_VALUE"}
      PROVE  \E r \in {q, Mark(q, i, "HEADER_VALUE")} :
                \/ Headers(q, msg, i) = r
                \/ \E m : Headers(q, msg, i) = Goto([r EXCEPT !.m_heads = m], "W_CR")
  <2> DEFINE r == IF q.m_state = "BEFORE_HEADER_VALUE" /\ msg[i] \notin Blanks
                  THEN Mark(q, i, "HEADER_VALUE") ELSE q
  <2>1. r \in {q, Mark(q, i, "HEADER_VALUE")}
    OBVIOUS
  <2>2. Headers(q, msg, i) =
           IF msg[i] = "CR"
           THEN Goto([r EXCEPT !.m_heads = Inserted(@, r.key, Text(r, msg, i))], "W_CR")
           ELSE r
    BY <1>2 DEF Headers
  <2> HIDE DEF r
  <2>3. \/ Headers(q, msg, i) = r
        \/ \E m : Headers(q, msg, i) = Goto([r EXCEPT !.m_heads = m], "W_CR")
    BY <2>2
  <2> QED
    BY <2>1, <2>3
<1> QED
  BY <1>1, <1>2

LEMMA EndsSteps ==
    ASSUME NEW q, NEW msg, NEW i
    PROVE  LET next == LineEndsAndBody(q, msg, i)
           IN
           /\ q.m_state = "W_CR" => next = Goto(q, "W_CR_LF") \/ next = Goto(q, "INVALID")
           /\ q.m_state = "W_CR_LF" =>
                 \/ next = Goto(q, "W_CR_LF_CR")
                 \/ next = Goto(q, "INVALID")
                 \/ next = Mark(q, i, "HEADER_KEY")
BY DEF LineEndsAndBody

LEMMA LengthSteps ==
    ASSUME NEW q, NEW msg, NEW i, q.m_state = "W_CR_LF_CR"
    PROVE  \/ LineEndsAndBody(q, msg, i) = q
           \/ \E n : LineEndsAndBody(q, msg, i) = Goto([q EXCEPT !.bodyLength = n], "BODY")
           \/ \E n : LineEndsAndBody(q, msg, i) = Goto([q EXCEPT !.bodyLength = n], "END")
<1> DEFINE n == NumberOf(q.m_heads[<<"Content-Length">>])
<1>1. \/ LineEndsAndBody(q, msg, i) = q
      \/ LineEndsAndBody(q, msg, i)
            = Goto([q EXCEPT !.bodyLength = n], IF n > 0 THEN "BODY" ELSE "END")
      \/ LineEndsAndBody(q, msg, i)
            = Goto([q EXCEPT !.bodyLength = Len(msg) - i], "BODY")
  BY DEF LineEndsAndBody
<1> HIDE DEF n
<1> QED
  BY <1>1

LEMMA BodySteps ==
    ASSUME NEW q, NEW msg, NEW i, q.m_state = "BODY"
    PROVE  \E b : LineEndsAndBody(q, msg, i) = Goto([q EXCEPT !.m_body = b], "END")
BY DEF LineEndsAndBody

(* No round behind the request line changes what it said.                  *)
LEMMA HeadersKeepLine ==
    ASSUME NEW q, NEW me, NEW ve, NEW pa, NEW ps, KnowsLine(q, me, ve, pa, ps),
           NEW msg, NEW i,
           q.m_state \in {"HEADER_KEY", "BEFORE_HEADER_VALUE", "HEADER_VALUE"}
    PROVE  KnowsLine(Headers(q, msg, i), me, ve, pa, ps)
<1> DEFINE text == Text(q, msg, i)
           next == Headers(q, msg, i)
           Good(x) == KnowsLine(x, me, ve, pa, ps)
<1>1. IsParser(q) /\ Same(q, q) /\ Good(q)
  BY DEF KnowsLine, Same
<1>2. "BEFORE_HEADER_VALUE" \in BehindLine /\ "HEADER_VALUE" \in BehindLine /\ "W_CR" \in BehindLine
  BY DEF BehindLine
<1>3. CASE q.m_state = "HEADER_KEY"
  <2>1. \/ next = q
        \/ next = Goto([q EXCEPT !.key = text], "BEFORE_HEADER_VALUE")
    BY <1>3, HeadersSteps
  <2> HIDE DEF next
  <2>2. PICK p : p = [q EXCEPT !.key = text]
    OBVIOUS
  <2>3. Same(p, q)
    BY <1>1, <2>2, Leaves
  <2>4. Good(Goto(p, "BEFORE_HEADER_VALUE"))
    BY <1>2, <2>3, LineGoesOn
  <2> QED
    BY <1>1, <2>1, <2>2, <2>4 DEF next
<1>4. CASE q.m_state \in {"BEFORE_HEADER_VALUE", "HEADER_VALUE"}
  <2>1. PICK r \in {q, Mark(q, i, "HEADER_VALUE")} :
           \/ next = r
           \/ \E m : next = Goto([r EXCEPT !.m_heads = m], "W_CR")
    BY <1>4, HeadersSteps
  <2> HIDE DEF next
  <2>2. Good(Mark(q, i, "HEADER_VALUE"))
    BY <1>1, <1>2, LineGoesOn
  <2>3. PICK t : t = Mark(q, i, "HEADER_VALUE")
    OBVIOUS
  <2>4. Same(t, q)
    BY <1>1, <2>3, MarkLeaves
  <2>5. Good(r) /\ Same(r, q)
    BY <1>1, <2>1, <2>2, <2>3, <2>4
  <2>6. ASSUME NEW m
        PROVE  Good(Goto([r EXCEPT !.m_heads = m], "W_CR"))
    <3>1. PICK p : p = [r EXCEPT !.m_heads = m]
      OBVIOUS
    <3>2. Same(p, r)
      BY <2>5, <3>1, Leaves DEF Same
    <3>3. Same(p, q)
      BY <2>5, <3>2 DEF Same
    <3>4. Good(Goto(p, "W_CR"))
      BY <1>2, <3>3, LineGoesOn
    <3> QED
      BY <3>1, <3>4
  <2> QED
    BY <2>1, <2>5, <2>6 DEF next
<1> QED
  BY <1>3, <1>4

LEMMA EndsKeepLine ==
    ASSUME NEW q, NEW me, NEW ve, NEW pa, NEW ps, KnowsLine(q, me, ve, pa, ps),
           NEW msg, NEW i,
           q.m_state \in {"W_CR", "W_CR_LF", "W_CR_LF_CR", "BODY"}
    PROVE  KnowsLine(LineEndsAndBody(q, msg, i), me, ve, pa, ps)
<1> DEFINE next == LineEndsAndBody(q, msg, i)
           Good(x) == KnowsLine(x, me, ve, pa, ps)
<1>1. IsParser(q) /\ Same(q, q) /\ Good(q)
  BY DEF KnowsLine, Same
<1>2. {"W_CR_LF", "W_CR_LF_CR", "HEADER_KEY", "INVALID", "BODY", "END"} \subseteq BehindLine
  BY DEF BehindLine, Final
<1>3. CASE q.m_state \in {"W_CR", "W_CR_LF"}
  <2>1. \/ next = Goto(q, "W_CR_LF")
        \/ next = Goto(q, "W_CR_LF_CR")
        \/ next = Goto(q, "INVALID")
        \/ next = Mark(q, i, "HEADER_KEY")
    BY <1>3, EndsSteps
  <2> HIDE DEF next
  <2>2. /\ Good(Goto(q, "W_CR_LF"))
        /\ Good(Goto(q, "W_CR_LF_CR"))
        /\ Good(Goto(q, "INVALID"))
        /\ Good(Mark(q, i, "HEADER_KEY"))
    BY <1>1, <1>2, LineGoesOn
  <2> QED
    BY <2>1, <2>2 DEF next
<1>4. CASE q.m_state = "W_CR_LF_CR"
  <2>1. \/ next = q
        \/ \E n : next = Goto([q EXCEPT !.bodyLength = n], "BODY")
        \/ \E n : next = Goto([q EXCEPT !.bodyLength = n], "END")
    BY <1>4, LengthSteps
  <2> HIDE DEF next
  <2>2. ASSUME NEW n
        PROVE  /\ Good(Goto([q EXCEPT !.bodyLength = n], "BODY"))
               /\ Good(Goto([q EXCEPT !.bodyLength = n], "END"))
    <3>1. PICK p : p = [q EXCEPT !.bodyLength = n]
      OBVIOUS
    <3>2. Same(p, q)
      BY <1>1, <3>1, Leaves
    <3>3. Good(Goto(p, "BODY")) /\ Good(Goto(p, "END"))
      BY <1>2, <3>2, LineGoesOn
    <3> QED
      BY <3>1, <3>3
  <2> QED
    BY <1>1, <2>1, <2>2 DEF next
<1>5. CASE q.m_state = "BODY"
  <2>1. PICK b : next = Goto([q EXCEPT !.m_body = b], "END")
    BY <1>5, BodySteps
  <2> HIDE DEF next
  <2>2. PICK p : p = [q EXCEPT !.m_body = b]
    OBVIOUS
  <2>3. Same(p, q)
    BY <1>1, <2>2, Leaves
  <2>4. Good(Goto(p, "END"))
    BY <1>2, <2>3, LineGoesOn
  <2> QED
    BY <2>1, <2>2, <2>4 DEF next
<1> QED
  BY <1>3, <1>4, <1>5

LEMMA RoundKeepsLine ==
    ASSUME NEW q, NEW me, NEW ve, NEW pa, NEW ps, KnowsLine(q, me, ve, pa, ps),
           NEW msg, NEW i
    PROVE  KnowsLine(Round(q, msg, i), me, ve, pa, ps)
<1>1. CASE q.m_state \in Final
  BY <1>1, RoundIs
<1>2. CASE q.m_state \in {"HEADER_KEY", "BEFORE_HEADER_VALUE", "HEADER_VALUE"}
  <2>1. Round(q, msg, i) = Headers(q, msg, i)
    BY <1>2, RoundIs
  <2> QED
    BY <1>2, <2>1, HeadersKeepLine
<1>3. CASE q.m_state \in {"W_CR", "W_CR_LF", "W_CR_LF_CR", "BODY"}
  <2>1. Round(q, msg, i) = LineEndsAndBody(q, msg, i)
    BY <1>3, RoundIs
  <2> QED
    BY <1>3, <2>1, EndsKeepLine
<1> QED
  BY <1>1, <1>2, <1>3 DEF KnowsLine, BehindLine

(* Nor does any behind the blank line change what a header said.           *)
LEMMA RoundKeepsHead ==
    ASSUME NEW q, NEW me, NEW ve, NEW pa, NEW ps, NEW hs,
           KnowsHead(q, me, ve, pa, ps, hs), NEW msg, NEW i
    PROVE  KnowsHead(Round(q, msg, i), me, ve, pa, ps, hs)
<1>1. /\ KnowsLine(q, me, ve, pa, ps) /\ IsParser(q)
      /\ q.m_state \in {"BODY"} \cup Final /\ q.m_heads = hs
  BY DEF KnowsHead, KnowsLine
<1>2. CASE q.m_state \in Final
  BY <1>2, RoundIs
<1>3. CASE q.m_state = "BODY"
  <2>1. PICK n : n = Round(q, msg, i)
    OBVIOUS
  <2>2. n = LineEndsAndBody(q, msg, i)
    BY <1>3, <2>1, RoundIs
  <2>3. PICK b : LineEndsAndBody(q, msg, i) = Goto([q EXCEPT !.m_body = b], "END")
    BY <1>3, BodySteps
  <2>4. PICK p : p = [q EXCEPT !.m_body = b]
    OBVIOUS
  <2>5. IsParser(p) /\ p.m_heads = hs
    BY <1>1, <2>4, Leaves DEF Same
  <2>6. n = Goto(p, "END")
    BY <2>2, <2>3, <2>4
  <2>7. n.m_state = "END" /\ n.m_heads = hs
    BY <2>5, <2>6, GotoLeaves
  <2>8. KnowsLine(n, me, ve, pa, ps)
    BY <1>1, <2>1, RoundKeepsLine
  <2> QED
    BY <2>1, <2>7, <2>8 DEF KnowsHead, Final
<1> QED
  BY <1>1, <1>2, <1>3

(* From p on up, to n.                                                     *)
LEMMA Onwards ==
    ASSUME NEW n \in Nat, NEW p \in 0 .. n, NEW G, p \in G,
           \A k \in p + 1 .. n : k - 1 \in G => k \in G
    PROVE  n \in G
<1> DEFINE T == {j \in 0 .. n - p : p + j \notin G}
<1>1. 0 \notin T
  OBVIOUS
<1>2. ASSUME NEW j \in 1 .. n - p, j \in T
      PROVE  j - 1 \in T
  <2>1. p + j \in p + 1 .. n /\ p + j - 1 = p + (j - 1) /\ j - 1 \in 0 .. n - p
    OBVIOUS
  <2>2. p + j \notin G
    BY <1>2
  <2>3. p + (j - 1) \notin G
    BY <2>1, <2>2
  <2> QED
    BY <2>1, <2>3
<1>3. T \in SUBSET (0 .. n - p) /\ n - p \in Nat
  OBVIOUS
<1>4. T = {}
  <2> HIDE DEF T
  <2> QED
    BY <1>1, <1>2, <1>3, NoneBad
<1>5. n - p \in 0 .. n - p /\ p + (n - p) = n
  OBVIOUS
<1> QED
  BY <1>4, <1>5

(* So parse() returns them as they were when the line, or the head, had    *)
(* been read.                                                              *)
LEMMA LineStays ==
    ASSUME NEW msg \in Texts, NEW p \in 0 .. Len(msg), NEW q, Stands(msg, p, q),
           NEW me, NEW ve, NEW pa, NEW ps, KnowsLine(q, me, ve, pa, ps)
    PROVE  KnowsLine(parse(msg), me, ve, pa, ps)
<1> DEFINE G == {k \in 0 .. Len(msg) : KnowsLine(After(msg)[k], me, ve, pa, ps)}
<1>1. Len(msg) \in Nat
  BY DEF Texts
<1>2. p \in G
  BY DEF Stands
<1>3. ASSUME NEW k \in p + 1 .. Len(msg), k - 1 \in G
      PROVE  k \in G
  <2>1. k \in 1 .. Len(msg) /\ KnowsLine(After(msg)[k - 1], me, ve, pa, ps)
    BY <1>1, <1>3
  <2>2. After(msg)[k] = Round(After(msg)[k - 1], msg, k)
    BY <1>1, <2>1, ParseIs
  <2>3. KnowsLine(After(msg)[k], me, ve, pa, ps)
    BY <2>1, <2>2, RoundKeepsLine
  <2> QED
    BY <1>1, <2>1, <2>3
<1>4. Len(msg) \in G
  <2> HIDE DEF G
  <2> QED
    BY <1>1, <1>2, <1>3, Onwards
<1> QED
  BY <1>1, <1>4, ParseIs

LEMMA HeadStays ==
    ASSUME NEW msg \in Texts, NEW p \in 0 .. Len(msg), NEW q, Stands(msg, p, q),
           NEW me, NEW ve, NEW pa, NEW ps, NEW hs, KnowsHead(q, me, ve, pa, ps, hs)
    PROVE  KnowsHead(parse(msg), me, ve, pa, ps, hs)
<1> DEFINE G == {k \in 0 .. Len(msg) : KnowsHead(After(msg)[k], me, ve, pa, ps, hs)}
<1>1. Len(msg) \in Nat
  BY DEF Texts
<1>2. p \in G
  BY DEF Stands
<1>3. ASSUME NEW k \in p + 1 .. Len(msg), k - 1 \in G
      PROVE  k \in G
  <2>1. k \in 1 .. Len(msg) /\ KnowsHead(After(msg)[k - 1], me, ve, pa, ps, hs)
    BY <1>1, <1>3
  <2>2. After(msg)[k] = Round(After(msg)[k - 1], msg, k)
    BY <1>1, <2>1, ParseIs
  <2>3. KnowsHead(After(msg)[k], me, ve, pa, ps, hs)
    BY <2>1, <2>2, RoundKeepsHead
  <2> QED
    BY <1>1, <2>1, <2>3
<1>4. Len(msg) \in G
  <2> HIDE DEF G
  <2> QED
    BY <1>1, <1>2, <1>3, Onwards
<1> QED
  BY <1>1, <1>4, ParseIs

-----------------------------------------------------------------------------
(* The request line, the head, a whole request.                            *)

IsJoin(c, a, b) == c = a \o b

(* AtJoin at the message's beginning, for a text that has a name.          *)
LEMMA AtStart ==
    ASSUME NEW msg \in Texts, NEW a \in Texts, NEW b \in Texts,
           NEW c, IsJoin(c, a, b), At(msg, 0, c)
    PROVE  /\ At(msg, 0, a)
           /\ At(msg, Len(a), b)
           /\ Len(c) = Len(a) + Len(b)
           /\ Len(a) \in Nat
           /\ Len(b) \in Nat
<1>1. At(msg, 0, a \o b) /\ Len(c) = Len(a \o b)
  BY DEF IsJoin
<1>2. Len(a) \in Nat /\ Len(b) \in Nat
  BY DEF Texts
<1>3. At(msg, 0, a) /\ At(msg, 0 + Len(a), b) /\ Len(a \o b) = Len(a) + Len(b)
  BY <1>1, AtJoin
<1> QED
  BY <1>1, <1>2, <1>3

(* The parts of a request line, and where in it they begin.                *)
LineAt(msg, r, b) ==
    /\ b.path = Len(r.method) + 1
    /\ b.params = b.path + Len(r.path)
    /\ b.version = b.params + Len(ParamsText(r.params)) + 1
    /\ Len(LineText(r)) = b.version + Len(r.version)
    /\ At(msg, 0, r.method)
    /\ At(msg, Len(r.method), <<"SP">>)
    /\ At(msg, b.path, r.path)
    /\ At(msg, b.params, ParamsText(r.params))
    /\ At(msg, b.params + Len(ParamsText(r.params)), <<"SP">>)
    /\ At(msg, b.version, r.version)

LEMMA LineParts ==
    ASSUME NEW r, WellFormed(r), NEW msg \in Texts, At(msg, 0, LineText(r))
    PROVE  \E b \in [path : Nat, params : Nat, version : Nat] : LineAt(msg, r, b)
<1>1. PICK me, pa, pt, ve, sp :
         /\ me = r.method /\ pa = r.path /\ pt = ParamsText(r.params) /\ ve = r.version
         /\ sp = <<"SP">>
  OBVIOUS
<1>2. /\ me \in Texts /\ pa \in Texts /\ pt \in Texts /\ ve \in Texts /\ sp \in Texts
  BY <1>1, RequestIs, Ones
<1>3. PICK a2, a3, a4, a5, a6 :
         /\ a2 = me \o sp /\ a3 = a2 \o pa /\ a4 = a3 \o pt /\ a5 = a4 \o sp
         /\ a6 = a5 \o ve
  OBVIOUS
<1>4. a6 = LineText(r)
  BY <1>1, <1>3 DEF LineText
<1>5. /\ a2 \in Texts /\ a3 \in Texts /\ a4 \in Texts /\ a5 \in Texts /\ a6 \in Texts
  BY <1>2, <1>3, Joins
<1>6. At(msg, 0, a6)
  BY <1>4
<1>7. /\ IsJoin(a2, me, sp) /\ IsJoin(a3, a2, pa) /\ IsJoin(a4, a3, pt)
      /\ IsJoin(a5, a4, sp) /\ IsJoin(a6, a5, ve)
  BY <1>3 DEF IsJoin
<1>8. At(msg, 0, a5) /\ At(msg, Len(a5), ve) /\ Len(a6) = Len(a5) + Len(ve)
  BY <1>2, <1>5, <1>6, <1>7, AtStart
<1>9. At(msg, 0, a4) /\ At(msg, Len(a4), sp) /\ Len(a5) = Len(a4) + Len(sp)
  BY <1>2, <1>5, <1>8, <1>7, AtStart
<1>10. At(msg, 0, a3) /\ At(msg, Len(a3), pt) /\ Len(a4) = Len(a3) + Len(pt)
  BY <1>2, <1>5, <1>9, <1>7, AtStart
<1>11. At(msg, 0, a2) /\ At(msg, Len(a2), pa) /\ Len(a3) = Len(a2) + Len(pa)
  BY <1>2, <1>5, <1>10, <1>7, AtStart
<1>12. At(msg, 0, me) /\ At(msg, Len(me), sp) /\ Len(a2) = Len(me) + Len(sp)
  BY <1>2, <1>11, <1>7, AtStart
<1>13. Len(sp) = 1
  BY <1>1
<1>14. Len(a2) \in Nat /\ Len(a3) \in Nat /\ Len(a5) \in Nat
  BY <1>5 DEF Texts
<1>15. PICK b : b = [path |-> Len(a2), params |-> Len(a3), version |-> Len(a5)]
  OBVIOUS
<1>16. /\ b \in [path : Nat, params : Nat, version : Nat]
       /\ b.path = Len(a2) /\ b.params = Len(a3) /\ b.version = Len(a5)
  BY <1>14, <1>15
<1>17. /\ Len(a2) = Len(me) + 1
       /\ Len(a5) = Len(a3) + Len(pt) + 1
       /\ Len(LineText(r)) = Len(a5) + Len(ve)
       /\ Len(a4) = Len(a3) + Len(pt)
  BY <1>4, <1>8, <1>9, <1>10, <1>12, <1>13
<1>18. At(msg, Len(a3) + Len(pt), sp)
  BY <1>9, <1>17
<1>19. LineAt(msg, r, b)
  BY <1>1, <1>8, <1>10, <1>11, <1>12, <1>16, <1>17, <1>18 DEF LineAt
<1> QED
  BY <1>16, <1>19

(* The request line, and the first symbol of its end.                      *)
LEMMA LineRead ==
    ASSUME NEW r, WellFormed(r), NEW msg \in Texts, At(msg, 0, LineText(r)),
           NEW d, d = Len(LineText(r)), At(msg, d, <<"CR">>)
    PROVE  \E q : /\ Stands(msg, d + 1, q)
                  /\ Knows(q, "W_CR", MethodOf(r.method), VersionOf(r.version),
                           r.path, AsMap(r.params), NoTexts)
<1>1. PICK b \in [path : Nat, params : Nat, version : Nat] : LineAt(msg, r, b)
  BY LineParts
<1>2. /\ r.method \in Texts /\ r.method \in Seq(Capitals) /\ r.path \in Texts
      /\ r.params \in Pairs /\ r.version \in Texts
  BY RequestIs
<1>3. PICK d1, d2, d3 : d1 = b.path /\ d2 = b.params /\ d3 = b.version
  OBVIOUS
<1>4. d1 \in Nat /\ d2 \in Nat /\ d3 \in Nat
  BY <1>3
<1>5. PICK me, pa, ps, ve, pt :
         /\ me = r.method /\ pa = r.path /\ ps = r.params /\ ve = r.version
         /\ pt = ParamsText(ps)
  OBVIOUS
<1>6. /\ d1 = Len(me) + 1 /\ At(msg, 0, me) /\ At(msg, Len(me), <<"SP">>)
      /\ d2 = d1 + Len(pa) /\ At(msg, d1, pa)
      /\ d3 = d2 + Len(pt) + 1 /\ At(msg, d2, pt) /\ At(msg, d2 + Len(pt), <<"SP">>)
      /\ d = d3 + Len(ve) /\ At(msg, d3, ve) /\ At(msg, d3 + Len(ve), <<"CR">>)
  BY <1>1, <1>3, <1>5 DEF LineAt
<1>7. /\ me \in Texts /\ me \in Seq(Capitals) /\ me # <<>>
      /\ pa \in Texts /\ Token(pa, {"?"}) /\ pa[1] \in Paths
      /\ ps \in Pairs /\ ve \in Texts /\ Token(ve, {})
  BY <1>2, <1>5 DEF WellFormed
<1>8. \A i \in DOMAIN ps : Token(ps[i].key, {"="}) /\ Token(ps[i].val, {"&"})
  BY <1>5 DEF WellFormed
<1>9. PICK q1 : /\ Stands(msg, d1, q1)
                 /\ Knows(q1, "BEFORE_PATH", MethodOf(me), Unset, <<>>, NoTexts, NoTexts)
  <2>1. \A k \in 1 .. Len(me) : me[k] \in Capitals
    BY <1>7
  <2>2. \E q : /\ Stands(msg, Len(me) + 1, q)
               /\ Knows(q, "BEFORE_PATH", MethodOf(me), Unset, <<>>, NoTexts, NoTexts)
    BY <1>6, <1>7, <2>1, MethodRead
  <2> QED
    BY <1>6, <2>2
<1>10. \A n : Stands(msg, d2 + 1, n)
                 => ParamsUpTo(n, msg[d2 + 1], MethodOf(me), pa, ps, 0)
  <2> SUFFICES ASSUME NEW n, Stands(msg, d2 + 1, n)
               PROVE  ParamsUpTo(n, msg[d2 + 1], MethodOf(me), pa, ps, 0)
    OBVIOUS
  <2>1. pa # <<>> /\ \A k \in 1 .. Len(pa) : pa[k] \notin Blanks \cup {"?"}
    BY <1>7 DEF Token, Without, Texts
  <2>2. d2 + 1 \in 1 .. Len(msg)
    <3>1. pt \in Texts
      BY <1>5, RequestIs
    <3>2. Len(pt) \in Nat /\ Len(msg) \in Nat
      BY <3>1 DEF Texts
    <3>3. PICK x : x = d2 + Len(pt)
      OBVIOUS
    <3>4. x \in Nat /\ At(msg, x, <<"SP">>)
      BY <1>4, <1>6, <3>2, <3>3
    <3>5. x + 1 \in 1 .. Len(msg)
      BY <3>4, AtOne
    <3> QED
      BY <1>4, <3>2, <3>3, <3>5
  <2>3. d1 + Len(pa) + 1 \in 1 .. Len(msg) /\ Stands(msg, d1 + Len(pa) + 1, n)
    BY <1>6, <2>2
  <2>4. /\ msg[d1 + Len(pa) + 1] = "SP"
              => Knows(n, "BEFORE_VERSION", MethodOf(me), Unset, pa, NoTexts, NoTexts)
        /\ msg[d1 + Len(pa) + 1] = "?"
              => Knows(n, "BEFORE_PARAM_KEY", MethodOf(me), Unset, pa, NoTexts, NoTexts)
    BY <1>4, <1>6, <1>7, <1>9, <2>1, <2>3, PathRead
  <2>5. MapUpTo(ps, 0) = NoTexts
    BY <1>7, MapsUpTo
  <2> QED
    BY <1>6, <2>4, <2>5 DEF ParamsUpTo
<1>11. PICK q3 : /\ Stands(msg, d3, q3)
                 /\ Knows(q3, "BEFORE_VERSION", MethodOf(me), Unset, pa, AsMap(ps), NoTexts)
  <2>1. PICK q : Stands(msg, d2 + Len(pt) + 1, q)
    BY DEF Stands
  <2>2. Knows(q, "BEFORE_VERSION", MethodOf(me), Unset, pa, AsMap(ps), NoTexts)
    BY <1>4, <1>5, <1>6, <1>7, <1>8, <1>10, <2>1, ParamsRead
  <2> QED
    BY <1>6, <2>1, <2>2
<1>12. PICK q4 : /\ Stands(msg, d + 1, q4)
                 /\ Knows(q4, "W_CR", MethodOf(me), VersionOf(ve), pa, AsMap(ps), NoTexts)
  <2>1. \E q : /\ Stands(msg, d3 + Len(ve) + 1, q)
               /\ Knows(q, "W_CR", MethodOf(me), VersionOf(ve), pa, AsMap(ps), NoTexts)
    BY <1>4, <1>6, <1>7, <1>11, VersionRead
  <2> QED
    BY <1>6, <2>1
<1> QED
  BY <1>5, <1>12

(* The parts of a head: the line, its end, the headers, the blank line.    *)
LEMMA HeadParts ==
    ASSUME NEW r, WellFormed(r), NEW msg \in Texts, At(msg, 0, HeadText(r)),
           NEW l, l = Len(LineText(r)),
           NEW t, t = FlattenSeq([i \in DOMAIN r.headers |-> HeaderText(r.headers[i])])
    PROVE  /\ l \in Nat /\ Len(t) \in Nat
           /\ At(msg, 0, LineText(r)) /\ At(msg, l, EndOfLine)
           /\ At(msg, l + 2, t) /\ At(msg, l + 2 + Len(t), EndOfLine)
           /\ Len(HeadText(r)) = l + 2 + Len(t) + 2
<1>1. PICK a1, el : a1 = LineText(r) /\ el = EndOfLine
  OBVIOUS
<1>2. a1 \in Texts /\ t \in Texts /\ el \in Texts
  BY <1>1, LineTextType, RequestIs, Ones
<1>3. PICK a2, a3, a4 : a2 = a1 \o el /\ a3 = a2 \o t /\ a4 = a3 \o el
  OBVIOUS
<1>4. a4 = HeadText(r)
  BY <1>1, <1>3 DEF HeadText
<1>5. a2 \in Texts /\ a3 \in Texts /\ a4 \in Texts
  BY <1>2, <1>3, Joins
<1>6. At(msg, 0, a4)
  BY <1>4
<1>7. IsJoin(a2, a1, el) /\ IsJoin(a3, a2, t) /\ IsJoin(a4, a3, el)
  BY <1>3 DEF IsJoin
<1>8. At(msg, 0, a3) /\ At(msg, Len(a3), el) /\ Len(a4) = Len(a3) + Len(el)
  BY <1>2, <1>5, <1>6, <1>7, AtStart
<1>9. At(msg, 0, a2) /\ At(msg, Len(a2), t) /\ Len(a3) = Len(a2) + Len(t)
  BY <1>2, <1>5, <1>7, <1>8, AtStart
<1>10. At(msg, 0, a1) /\ At(msg, Len(a1), el) /\ Len(a2) = Len(a1) + Len(el)
  BY <1>2, <1>5, <1>7, <1>9, AtStart
<1>11. Len(el) = 2 /\ Len(a1) = l
  BY <1>1 DEF EndOfLine
<1>12. l \in Nat /\ Len(t) \in Nat
  BY <1>2, <1>11 DEF Texts
<1>13. Len(a2) = l + 2 /\ Len(a3) = l + 2 + Len(t) /\ Len(a4) = l + 2 + Len(t) + 2
  BY <1>8, <1>9, <1>10, <1>11, <1>12
<1> QED
  BY <1>1, <1>4, <1>8, <1>9, <1>10, <1>12, <1>13

(* The line and the headers; the blank line is next.                       *)
LEMMA HeadRead ==
    ASSUME NEW r, WellFormed(r), NEW msg \in Texts, At(msg, 0, HeadText(r))
    PROVE  \E d \in Nat : \E q :
              /\ Len(HeadText(r)) = d + 2
              /\ At(msg, d, EndOfLine)
              /\ Stands(msg, d, q)
              /\ Knows(q, "W_CR_LF", MethodOf(r.method), VersionOf(r.version),
                       r.path, AsMap(r.params), AsMap(r.headers))
<1>1. PICK l, t, hs :
         /\ l = Len(LineText(r)) /\ hs = r.headers
         /\ t = FlattenSeq([i \in DOMAIN hs |-> HeaderText(hs[i])])
  OBVIOUS
<1>2. /\ l \in Nat /\ Len(t) \in Nat
      /\ At(msg, 0, LineText(r)) /\ At(msg, l, EndOfLine)
      /\ At(msg, l + 2, t) /\ At(msg, l + 2 + Len(t), EndOfLine)
      /\ Len(HeadText(r)) = l + 2 + Len(t) + 2
  BY <1>1, HeadParts
<1>3. /\ l + 1 \in 1 .. Len(msg) /\ msg[l + 1] = "CR"
      /\ l + 2 \in 1 .. Len(msg) /\ msg[l + 2] = "LF"
  BY <1>2, AtTwo DEF EndOfLine
<1>4. At(msg, l, <<"CR">>)
  <2>1. Len(msg) \in Nat
    BY DEF Texts
  <2> QED
    BY <1>2, <1>3, <2>1 DEF At
<1>5. PICK me, ve, pa, ps :
         /\ me = MethodOf(r.method) /\ ve = VersionOf(r.version) /\ pa = r.path
         /\ ps = AsMap(r.params)
  OBVIOUS
<1>6. PICK q1 : Stands(msg, l + 1, q1) /\ Knows(q1, "W_CR", me, ve, pa, ps, NoTexts)
  BY <1>1, <1>2, <1>4, <1>5, LineRead
<1>7. PICK e : e = l + 1
  OBVIOUS
<1>8. PICK q2 : Stands(msg, l + 2, q2) /\ Knows(q2, "W_CR_LF", me, ve, pa, ps, NoTexts)
  <2>1. e \in Nat /\ e + 1 = l + 2 /\ Stands(msg, e, q1)
    BY <1>2, <1>6, <1>7
  <2>2. e + 1 \in 1 .. Len(msg) /\ msg[e + 1] = "LF"
    BY <1>3, <2>1
  <2>3. \E n : Stands(msg, e + 1, n) /\ Knows(n, "W_CR_LF", me, ve, pa, ps, NoTexts)
    BY <1>6, <2>1, <2>2, LineEnds
  <2> QED
    BY <2>1, <2>3
<1>9. PICK d, c : c = l + 2 /\ d = c + Len(t)
  OBVIOUS
<1>10. PICK q3 : Stands(msg, d, q3)
  BY DEF Stands
<1>11. Knows(q3, "W_CR_LF", me, ve, pa, ps, AsMap(hs))
  <2>1. hs \in Pairs /\ c \in Nat
    BY <1>1, <1>2, <1>9, RequestIs
  <2>2. \A i \in DOMAIN hs : /\ Token(hs[i].key, {":"})
                             /\ Without(hs[i].val, {"CR"})
                             /\ hs[i].val # <<>> => hs[i].val[1] \notin Blanks
    BY <1>1 DEF WellFormed
  <2>3. At(msg, c, t) /\ Stands(msg, c, q2) /\ Stands(msg, c + Len(t), q3)
    BY <1>2, <1>8, <1>9, <1>10
  <2> QED
    BY <1>1, <1>8, <2>1, <2>2, <2>3, HeadersRead
<1>12. d \in Nat /\ Len(HeadText(r)) = d + 2 /\ At(msg, d, EndOfLine)
  BY <1>2, <1>9
<1> QED
  BY <1>1, <1>5, <1>10, <1>11, <1>12

(* The blank line.                                                         *)
LEMMA BlankLineRead ==
    ASSUME NEW msg \in Texts, NEW p \in Nat, At(msg, p, EndOfLine),
           NEW q, Stands(msg, p, q), NEW me, NEW ve, NEW pa, NEW ps, NEW hs,
           Knows(q, "W_CR_LF", me, ve, pa, ps, hs)
    PROVE  \E x : Stands(msg, p + 2, x) /\ KnowsHead(x, me, ve, pa, ps, hs)
<1>1. /\ p + 1 \in 1 .. Len(msg) /\ msg[p + 1] = "CR"
      /\ p + 2 \in 1 .. Len(msg) /\ msg[p + 2] = "LF"
  BY AtTwo DEF EndOfLine
<1>2. p + 2 \in Nat /\ p + 1 \in Nat /\ p + 1 + 1 = p + 2
  OBVIOUS
<1>3. PICK m : m = Goto(q, "W_CR_LF_CR")
  OBVIOUS
<1>4. Knows(m, "W_CR_LF_CR", me, ve, pa, ps, hs)
  BY <1>3, KnowsGoto
<1>5. Stands(msg, p + 1, m)
  <2>1. q.m_state = "W_CR_LF"
    BY DEF Knows
  <2>2. Round(q, msg, p + 1) = m
    BY <1>1, <1>3, <2>1, RoundIs, LineRounds
  <2> QED
    BY <1>1, <2>2, NextRound
<1>6. m.m_state = "W_CR_LF_CR"
  BY <1>4 DEF Knows
<1>7. PICK x : x = Round(m, msg, p + 2)
  OBVIOUS
<1>8. Stands(msg, p + 2, x)
  BY <1>1, <1>2, <1>5, <1>7, NextRound
<1>9. \E k : \E y \in {"BODY", "END"} : x = Goto([m EXCEPT !.bodyLength = k], y)
  <2> DEFINE c == <<"Content-Length">>
  <2>1. x = LineEndsAndBody(m, msg, p + 2)
    BY <1>6, <1>7, RoundIs
  <2>2. LineEndsAndBody(m, msg, p + 2)
           = IF c \in DOMAIN m.m_heads
             THEN LET k == NumberOf(m.m_heads[c]) IN
                  Goto([m EXCEPT !.bodyLength = k], IF k > 0 THEN "BODY" ELSE "END")
             ELSE Goto([m EXCEPT !.bodyLength = Len(msg) - (p + 2)], "BODY")
    BY <1>1, <1>6, LengthRound
  <2> HIDE DEF c
  <2>3. PICK j : j = NumberOf(m.m_heads[c])
    OBVIOUS
  <2>4. \/ x = Goto([m EXCEPT !.bodyLength = j], IF j > 0 THEN "BODY" ELSE "END")
        \/ x = Goto([m EXCEPT !.bodyLength = Len(msg) - (p + 2)], "BODY")
    BY <2>1, <2>2, <2>3
  <2> QED
    BY <2>4
<1>10. PICK k : \E y \in {"BODY", "END"} : x = Goto([m EXCEPT !.bodyLength = k], y)
  BY <1>9
<1>11. PICK y \in {"BODY", "END"} : x = Goto([m EXCEPT !.bodyLength = k], y)
  BY <1>10
<1>12. PICK u : u = [m EXCEPT !.bodyLength = k]
  OBVIOUS
<1>13. Knows(u, "W_CR_LF_CR", me, ve, pa, ps, hs)
  BY <1>4, <1>12, KnowsLength
<1>14. Knows(x, y, me, ve, pa, ps, hs)
  <2>1. x = Goto(u, y)
    BY <1>11, <1>12
  <2> QED
    BY <1>13, <2>1, KnowsGoto
<1>15. KnowsHead(x, me, ve, pa, ps, hs)
  BY <1>14 DEF Knows, KnowsHead, KnowsLine, BehindLine, Final
<1> QED
  BY <1>8, <1>15

(* parse() understands a whole request.                                    *)
LEMMA RequestRead ==
    ASSUME NEW r, WellFormed(r), NEW msg \in Texts, msg = RequestText(r)
    PROVE  Understood(parse(msg), r)
<1>1. PICK hd, bo : hd = HeadText(r) /\ bo = r.body
  OBVIOUS
<1>2. hd \in Texts /\ bo \in Texts
  BY <1>1, HeadTextType, RequestIs
<1>3. IsJoin(msg, hd, bo)
  BY <1>1 DEF IsJoin, RequestText
<1>4. At(msg, 0, msg)
  BY DEF At, Texts
<1>5. At(msg, 0, hd) /\ At(msg, Len(hd), bo) /\ Len(msg) = Len(hd) + Len(bo)
  BY <1>2, <1>3, <1>4, AtStart
<1>6. PICK me, ve, pa, ps, hs :
         /\ me = MethodOf(r.method) /\ ve = VersionOf(r.version) /\ pa = r.path
         /\ ps = AsMap(r.params) /\ hs = AsMap(r.headers)
  OBVIOUS
<1>7. PICK d \in Nat : \E q : /\ Len(hd) = d + 2
                              /\ At(msg, d, EndOfLine)
                              /\ Stands(msg, d, q)
                              /\ Knows(q, "W_CR_LF", me, ve, pa, ps, hs)
  BY <1>1, <1>5, <1>6, HeadRead
<1> PICK q : /\ Len(hd) = d + 2
             /\ At(msg, d, EndOfLine)
             /\ Stands(msg, d, q)
             /\ Knows(q, "W_CR_LF", me, ve, pa, ps, hs)
  BY <1>7
<1>8. <<"Content-Length">> \in DOMAIN hs
         => NumberOf(hs[<<"Content-Length">>]) = Len(bo)
  BY <1>1, <1>6 DEF WellFormed
<1>9. PICK n : n = parse(msg)
  OBVIOUS
<1>10. Stands(msg, Len(msg), n)
  <2>1. Len(msg) \in Nat
    BY DEF Texts
  <2> QED
    BY <1>9, <2>1, ParseIs DEF Stands
<1>11. At(msg, d + 2, bo) /\ Len(msg) = d + 2 + Len(bo)
  BY <1>5, <1>7
<1>12. Took(n, me, ve, pa, ps, hs, bo)
  BY <1>2, <1>7, <1>8, <1>10, <1>11, EndRead
<1> QED
  BY <1>1, <1>6, <1>9, <1>12 DEF Took, Understood, HeadIs, LineIs

(* A piece of what is to be read, and the rest.                            *)
LEMMA Taken ==
    ASSUME NEW s \in Texts, NEW n \in 1 .. Len(s)
    PROVE  /\ SubSeq(s, 1, n) \in Texts
           /\ Len(SubSeq(s, 1, n)) = n
           /\ n \in Nat
           /\ SubSeq(s, n + 1, Len(s)) \in Texts
BY DEF Texts

(* A text that stands in the first n symbols.                              *)
LEMMA AtPiece ==
    ASSUME NEW text \in Texts, NEW n \in 1 .. Len(text),
           NEW msg, msg = SubSeq(text, 1, n), NEW p \in Nat, NEW t \in Texts,
           At(text, p, t), p + Len(t) <= n
    PROVE  At(msg, p, t)
<1>1. /\ Len(msg) = n /\ Len(t) \in Nat /\ n \in Nat
      /\ \A k \in 1 .. n : msg[k] = text[k]
  BY DEF Texts
<1>2. ASSUME NEW k \in 1 .. Len(t)
      PROVE  msg[p + k] = t[k]
  <2>1. p + k \in 1 .. n
    BY <1>1
  <2>2. text[p + k] = t[k]
    BY DEF At
  <2> QED
    BY <1>1, <2>1, <2>2
<1> QED
  BY <1>1, <1>2 DEF At

(* And a piece that has a request's line, or head, of what its client      *)
(* meant by it, wherever it ends.                                          *)
LEMMA PieceRead ==
    ASSUME NEW r, WellFormed(r), NEW text \in Texts, At(text, 0, RequestText(r)),
           NEW n \in 1 .. Len(text), NEW msg, msg = SubSeq(text, 1, n)
    PROVE  /\ n > Len(LineText(r)) => LineIs(parse(msg), r)
           /\ n >= Len(HeadText(r)) => HeadIs(parse(msg), r)
<1>1. msg \in Texts /\ Len(msg) = n /\ n \in Nat
  BY Taken
<1>2. PICK lt, hd, l : lt = LineText(r) /\ hd = HeadText(r) /\ l = Len(lt)
  OBVIOUS
<1>3. lt \in Texts /\ hd \in Texts
  BY <1>2, LineTextType, HeadTextType
<1>4. At(text, 0, hd)
  <2>1. PICK all, bo : all = RequestText(r) /\ bo = r.body
    OBVIOUS
  <2>2. IsJoin(all, hd, bo) /\ bo \in Texts /\ At(text, 0, all)
    BY <1>2, <2>1, RequestIs DEF IsJoin, RequestText
  <2> QED
    BY <1>3, <2>2, AtStart
<1>5. PICK me, ve, pa, ps, hs :
         /\ me = MethodOf(r.method) /\ ve = VersionOf(r.version) /\ pa = r.path
         /\ ps = AsMap(r.params) /\ hs = AsMap(r.headers)
  OBVIOUS
<1>6. ASSUME n > l
      PROVE  LineIs(parse(msg), r)
  <2>1. At(text, 0, lt) /\ At(text, l, EndOfLine) /\ l \in Nat
    BY <1>2, <1>4, HeadParts
  <2>2. l + 1 \in 1 .. Len(text) /\ text[l + 1] = "CR"
    BY <2>1, AtTwo DEF EndOfLine
  <2>3. At(msg, 0, lt)
    <3>1. 0 + Len(lt) <= n
      BY <1>1, <1>2, <1>6, <2>1
    <3> QED
      BY <1>3, <2>1, <3>1, AtPiece
  <2>4. At(msg, l, <<"CR">>)
    <3>1. msg[l + 1] = "CR"
      BY <1>1, <1>6, <2>1, <2>2 DEF Texts
    <3> QED
      BY <1>1, <1>6, <2>1, <3>1 DEF At
  <2>5. PICK q : Stands(msg, l + 1, q) /\ Knows(q, "W_CR", me, ve, pa, ps, NoTexts)
    BY <1>1, <1>2, <1>5, <2>3, <2>4, LineRead
  <2>6. KnowsLine(q, me, ve, pa, ps)
    BY <2>5 DEF Knows, KnowsLine, BehindLine
  <2>7. PICK e : e = l + 1
    OBVIOUS
  <2>8. e \in 0 .. Len(msg) /\ Stands(msg, e, q)
    BY <1>1, <1>6, <2>1, <2>5, <2>7
  <2>9. KnowsLine(parse(msg), me, ve, pa, ps)
    BY <1>1, <2>6, <2>8, LineStays
  <2> QED
    BY <1>5, <2>9 DEF KnowsLine, LineIs
<1>7. ASSUME n >= Len(hd)
      PROVE  HeadIs(parse(msg), r)
  <2>1. At(msg, 0, hd)
    <3>1. 0 + Len(hd) <= n
      BY <1>1, <1>3, <1>7 DEF Texts
    <3> QED
      BY <1>3, <1>4, <3>1, AtPiece
  <2>2. PICK d \in Nat : \E q : /\ Len(hd) = d + 2
                                /\ At(msg, d, EndOfLine)
                                /\ Stands(msg, d, q)
                                /\ Knows(q, "W_CR_LF", me, ve, pa, ps, hs)
    BY <1>1, <1>2, <1>5, <2>1, HeadRead
  <2> PICK q : /\ Len(hd) = d + 2
               /\ At(msg, d, EndOfLine)
               /\ Stands(msg, d, q)
               /\ Knows(q, "W_CR_LF", me, ve, pa, ps, hs)
    BY <2>2
  <2>3. PICK x : Stands(msg, d + 2, x) /\ KnowsHead(x, me, ve, pa, ps, hs)
    BY <1>1, <2>2, BlankLineRead
  <2>4. PICK e : e = d + 2
    OBVIOUS
  <2>5. e \in 0 .. Len(msg) /\ Stands(msg, e, x)
    BY <1>1, <1>7, <2>2, <2>3, <2>4
  <2>6. KnowsHead(parse(msg), me, ve, pa, ps, hs)
    BY <1>1, <2>3, <2>5, HeadStays
  <2> QED
    BY <1>5, <2>6 DEF KnowsHead, KnowsLine, HeadIs, LineIs
<1> QED
  BY <1>2, <1>6, <1>7

-----------------------------------------------------------------------------
(* What is to be read.                                                     *)

(* unread is what the requests of asked say, one after the other: h[i] is  *)
(* what it says from the i-th on.                                          *)
Says(h, rs, text) ==
    /\ h \in [1 .. Len(rs) + 1 -> Texts]
    /\ h[1] = text
    /\ h[Len(rs) + 1] = <<>>
    /\ \A i \in 1 .. Len(rs) : h[i] = RequestText(rs[i]) \o h[i + 1]

AskInv ==
    /\ asked \in Seq(Requests)
    /\ aligned \in BOOLEAN
    /\ unread \in Texts
    /\ aligned => \E h : Says(h, asked, unread)
    /\ AlignedUnderstood
    /\ HeadUnderstood

(* One more request.                                                       *)
LEMMA SaysMore ==
    ASSUME NEW rs \in Seq(Requests), NEW text \in Texts, NEW h, Says(h, rs, text),
           NEW r \in Requests
    PROVE  \E g : Says(g, Append(rs, r), text \o RequestText(r))
<1>1. PICK n, t, ss : n = Len(rs) /\ t = RequestText(r) /\ ss = Append(rs, r)
  OBVIOUS
<1>2. /\ n \in Nat /\ Len(ss) = n + 1 /\ ss[n + 1] = r
      /\ \A i \in 1 .. n : ss[i] = rs[i]
  BY <1>1
<1>3. t \in Texts
  BY <1>1, HttpAssumption, RequestTextType
<1> DEFINE g == [i \in 1 .. n + 2 |-> IF i = n + 2 THEN <<>> ELSE h[i] \o t]
<1>4. /\ \A i \in 1 .. n + 1 : h[i] \in Texts
      /\ h[1] = text /\ h[n + 1] = <<>>
      /\ \A i \in 1 .. n : h[i] = RequestText(rs[i]) \o h[i + 1]
  BY <1>1 DEF Says
<1>5. /\ g[n + 2] = <<>>
      /\ \A i \in 1 .. n + 1 : g[i] = h[i] \o t
  BY <1>2
<1>6. g \in [1 .. n + 2 -> Texts]
  <2>1. <<>> \in Texts
    BY DEF Texts
  <2>2. ASSUME NEW i \in 1 .. n + 2, i # n + 2
        PROVE  h[i] \o t \in Texts
    <3>1. i \in 1 .. n + 1
      BY <1>2, <2>2
    <3>2. h[i] \in Texts
      BY <1>4, <3>1
    <3> QED
      BY <1>3, <3>2, Joins
  <2> QED
    BY <2>1, <2>2
<1> HIDE DEF g
<1>7. g[1] = text \o t
  <2>1. 1 \in 1 .. n + 1
    BY <1>2
  <2> QED
    BY <1>4, <1>5, <2>1
<1>8. ASSUME NEW i \in 1 .. n + 1
      PROVE  g[i] = RequestText(ss[i]) \o g[i + 1]
  <2>1. CASE i = n + 1
    <3>1. ss[i] = r /\ i + 1 = n + 2 /\ n + 1 \in 1 .. n + 1
      BY <1>2, <2>1
    <3>2. g[i] = <<>> \o t /\ g[i + 1] = <<>>
      BY <1>4, <1>5, <2>1, <3>1
    <3>3. <<>> \o t = t /\ t \o <<>> = t
      BY <1>3, ConcatEmptySeq DEF Texts
    <3> QED
      BY <1>1, <3>1, <3>2, <3>3
  <2>2. CASE i # n + 1
    <3>1. i \in 1 .. n /\ i + 1 \in 1 .. n + 1
      BY <1>2, <2>2
    <3>2. PICK a, b : a = RequestText(rs[i]) /\ b = h[i + 1]
      OBVIOUS
    <3>3. a \in Texts /\ b \in Texts
      <4>1. rs[i] \in Requests
        BY <1>1, <3>1
      <4> QED
        BY <1>4, <3>1, <3>2, <4>1, HttpAssumption, RequestTextType
    <3>4. (a \o b) \o t = a \o (b \o t)
      BY <1>3, <3>3, ConcatAssociative DEF Texts
    <3>5. g[i] = (a \o b) \o t /\ g[i + 1] = b \o t /\ ss[i] = rs[i]
      BY <1>2, <1>4, <1>5, <3>1, <3>2
    <3> QED
      BY <3>2, <3>4, <3>5
  <2> QED
    BY <2>1, <2>2
<1>9. Len(ss) + 1 = n + 2
  BY <1>2
<1>10. Says(g, ss, text \o t)
  BY <1>2, <1>5, <1>6, <1>7, <1>8, <1>9 DEF Says
<1> QED
  BY <1>1, <1>10

(* One request less.                                                       *)
LEMMA SaysLess ==
    ASSUME NEW rs \in Seq(Requests), rs # <<>>, NEW text \in Texts, NEW h,
           Says(h, rs, text), NEW n, n = Len(RequestText(Head(rs)))
    PROVE  /\ Head(rs) \in Requests
           /\ Tail(rs) \in Seq(Requests)
           /\ SubSeq(text, 1, n) = RequestText(Head(rs))
           /\ \E g : Says(g, Tail(rs), SubSeq(text, n + 1, Len(text)))
<1>1. PICK m, ss, t, rest :
         m = Len(rs) /\ ss = Tail(rs) /\ t = RequestText(Head(rs)) /\ rest = h[2]
  OBVIOUS
<1>2. /\ m \in Nat /\ m # 0 /\ Len(ss) = m - 1 /\ ss \in Seq(Requests)
      /\ Head(rs) = rs[1] /\ rs[1] \in Requests
      /\ \A i \in 1 .. m - 1 : ss[i] = rs[i + 1]
  BY <1>1
<1>3. /\ \A i \in 1 .. m + 1 : h[i] \in Texts
      /\ h[1] = text /\ h[m + 1] = <<>>
      /\ \A i \in 1 .. m : h[i] = RequestText(rs[i]) \o h[i + 1]
  BY <1>1 DEF Says
<1>4. t \in Texts /\ rest \in Texts /\ text = t \o rest
  <2>1. 1 \in 1 .. m /\ 2 \in 1 .. m + 1 /\ 1 + 1 = 2
    BY <1>2
  <2>2. t \in Texts
    BY <1>1, <1>2, HttpAssumption, RequestTextType
  <2> QED
    BY <1>1, <1>2, <1>3, <2>1, <2>2
<1>5. n = Len(t) /\ n \in Nat /\ Len(rest) \in Nat
  BY <1>1, <1>4 DEF Texts
<1>6. /\ Len(text) = n + Len(rest)
      /\ \A i \in 1 .. n : text[i] = t[i]
      /\ \A i \in 1 .. Len(rest) : text[n + i] = rest[i]
  <2>1. PICK c : c = t \o rest
    OBVIOUS
  <2>2. /\ Len(c) = Len(t) + Len(rest)
        /\ \A i \in 1 .. Len(t) : c[i] = t[i]
        /\ \A i \in 1 .. Len(rest) : c[Len(t) + i] = rest[i]
    BY <1>4, <2>1, Joins
  <2>3. c = text
    BY <1>4, <2>1
  <2> QED
    BY <1>5, <2>2, <2>3
<1>7. SubSeq(text, 1, n) = t
  <2>1. PICK s : s = SubSeq(text, 1, n)
    OBVIOUS
  <2>2. s \in Texts /\ Len(s) = n /\ \A i \in 1 .. n : s[i] = text[i]
    BY <1>5, <1>6, <2>1 DEF Texts
  <2>3. s = t
    BY <1>4, <1>5, <1>6, <2>2 DEF Texts
  <2> QED
    BY <2>1, <2>3
<1>8. SubSeq(text, n + 1, Len(text)) = rest
  <2>1. PICK s : s = SubSeq(text, n + 1, Len(text))
    OBVIOUS
  <2>2. /\ s \in Texts /\ Len(s) = Len(rest)
        /\ \A i \in 1 .. Len(rest) : s[i] = text[n + i]
    <3>1. PICK k, l : k = Len(text) /\ l = Len(rest)
      OBVIOUS
    <3>2. k \in Nat /\ l \in Nat /\ k = n + l /\ n \in Nat
      BY <1>5, <1>6, <3>1
    <3>3. s \in Texts /\ Len(s) = l
      <4>1. s = SubSeq(text, n + 1, k)
        BY <2>1, <3>1
      <4>2. /\ n + 1 \in 1 .. k + 1 /\ k \in n .. k
            /\ k - (n + 1) + 1 = l
            /\ text \in Seq(Symbols) /\ Len(text) = k
        BY <3>1, <3>2 DEF Texts
      <4>3. s \in Seq(Symbols)
        BY <3>2, <4>1, <4>2
      <4>4. Len(s) = IF n + 1 <= k THEN k - (n + 1) + 1 ELSE 0
        BY <3>2, <4>1, <4>2
      <4> QED
        BY <3>2, <4>2, <4>3, <4>4 DEF Texts
    <3>4. ASSUME NEW i \in 1 .. l
          PROVE  s[i] = text[n + i]
      <4>1. s[i] = text[n + 1 + i - 1] /\ n + 1 + i - 1 = n + i
        BY <2>1, <3>1, <3>2 DEF Texts
      <4> QED
        BY <4>1
    <3> QED
      BY <3>1, <3>3, <3>4
  <2>3. s = rest
    <3>1. s = [i \in 1 .. Len(s) |-> s[i]]
      BY <2>2 DEF Texts
    <3>2. rest = [i \in 1 .. Len(rest) |-> rest[i]]
      BY <1>4 DEF Texts
    <3> QED
      BY <1>6, <2>2, <3>1, <3>2
  <2> QED
    BY <2>1, <2>3
<1> DEFINE g == [i \in 1 .. m |-> h[i + 1]]
<1>9. g \in [1 .. m -> Texts] /\ g[1] = rest /\ g[m] = <<>>
  <2>1. \A i \in 1 .. m : i + 1 \in 1 .. m + 1
    BY <1>2
  <2>2. 1 \in 1 .. m /\ m \in 1 .. m /\ 1 + 1 = 2
    BY <1>2
  <2> QED
    BY <1>1, <1>3, <2>1, <2>2
<1>10. ASSUME NEW i \in 1 .. m - 1
       PROVE  g[i] = RequestText(ss[i]) \o g[i + 1]
  <2>1. i \in 1 .. m /\ i + 1 \in 1 .. m
    BY <1>2
  <2>2. g[i] = h[i + 1] /\ g[i + 1] = h[i + 1 + 1] /\ ss[i] = rs[i + 1]
    BY <1>2, <2>1
  <2> QED
    BY <1>3, <2>1, <2>2
<1> HIDE DEF g
<1>11. Len(ss) + 1 = m
  BY <1>2
<1>12. Says(g, ss, rest)
  BY <1>2, <1>9, <1>10, <1>11 DEF Says
<1> QED
  BY <1>1, <1>2, <1>7, <1>8, <1>12

(* The first of the requests is what unread begins with.                   *)
LEMMA SaysFirst ==
    ASSUME NEW rs \in Seq(Requests), NEW text \in Texts, text # <<>>, NEW h,
           Says(h, rs, text)
    PROVE  /\ rs # <<>>
           /\ Head(rs) \in Requests
           /\ At(text, 0, RequestText(Head(rs)))
<1>1. PICK m, r : m = Len(rs) /\ r = RequestText(Head(rs))
  OBVIOUS
<1>2. m \in Nat /\ h[1] = text /\ h[m + 1] = <<>>
  BY <1>1 DEF Says
<1>3. m # 0
  <2> SUFFICES ASSUME m = 0 PROVE FALSE
    OBVIOUS
  <2>1. h[1] = <<>>
    BY <1>2
  <2> QED
    BY <1>2, <2>1
<1>4. rs # <<>> /\ Head(rs) = rs[1] /\ rs[1] \in Requests
  BY <1>1, <1>2, <1>3
<1>5. r \in Texts
  BY <1>1, <1>4, HttpAssumption, RequestTextType
<1>6. PICK rest : rest = h[2]
  OBVIOUS
<1>7. rest \in Texts /\ text = r \o rest
  <2>1. 1 \in 1 .. m /\ 2 \in 1 .. m + 1 /\ 1 + 1 = 2
    BY <1>2, <1>3
  <2>2. \A i \in 1 .. m + 1 : h[i] \in Texts
    BY <1>1 DEF Says
  <2>3. h[1] = RequestText(rs[1]) \o h[1 + 1]
    BY <1>1, <2>1 DEF Says
  <2> QED
    BY <1>1, <1>2, <1>4, <1>6, <2>1, <2>2, <2>3
<1>8. IsJoin(text, r, rest)
  BY <1>7 DEF IsJoin
<1>9. At(text, 0, text)
  BY DEF At, Texts
<1>10. At(text, 0, r)
  BY <1>5, <1>7, <1>8, <1>9, AtStart
<1> QED
  BY <1>1, <1>4, <1>10

(* What the server makes of its next piece.                                *)
LEMMA NextPiece ==
    ASSUME AskInv, aligned, NEW n \in 1 .. Len(unread)
    PROVE  /\ asked # <<>>
           /\ n > Len(LineText(Head(asked)))
                 => LineIs(parse(SubSeq(unread, 1, n)), Head(asked))
           /\ n >= Len(HeadText(Head(asked)))
                 => HeadIs(parse(SubSeq(unread, 1, n)), Head(asked))
<1>1. asked \in Seq(Requests) /\ unread \in Texts
  BY DEF AskInv
<1>2. PICK h : Says(h, asked, unread)
  BY DEF AskInv
<1>3. unread # <<>>
  BY <1>1 DEF Texts
<1>4. /\ asked # <<>> /\ Head(asked) \in Requests
      /\ At(unread, 0, RequestText(Head(asked)))
  BY <1>1, <1>2, <1>3, SaysFirst
<1>5. PICK r : r = Head(asked)
  OBVIOUS
<1>6. WellFormed(r)
  BY <1>4, <1>5, HttpAssumption
<1>7. PICK msg : msg = SubSeq(unread, 1, n)
  OBVIOUS
<1>8. /\ n > Len(LineText(r)) => LineIs(parse(msg), r)
      /\ n >= Len(HeadText(r)) => HeadIs(parse(msg), r)
  BY <1>1, <1>4, <1>5, <1>6, <1>7, PieceRead
<1> QED
  BY <1>4, <1>5, <1>7, <1>8

(* Every step keeps AskInv.                                                *)
LEMMA AskStep == AskInv /\ [Next]_vars => AskInv'
<1> SUFFICES ASSUME AskInv, [Next]_vars
             PROVE  AskInv'
  OBVIOUS
<1> /\ asked \in Seq(Requests) /\ aligned \in BOOLEAN /\ unread \in Texts
    /\ AlignedUnderstood /\ HeadUnderstood
  BY DEF AskInv
<1>1. CASE UNCHANGED vars
  <2>1. AlignedUnderstood' /\ HeadUnderstood'
    BY <1>1 DEF vars, AlignedUnderstood, HeadUnderstood
  <2> QED
    BY <1>1, <2>1 DEF vars, AskInv
<1>2. ASSUME NEW r \in Requests, SendRequest(r)
      PROVE  AskInv'
  <2>1. /\ unread' = unread \o RequestText(r) /\ handled' = handled
        /\ aligned' = aligned
        /\ asked' = IF aligned THEN Append(asked, r) ELSE asked
    BY <1>2 DEF SendRequest
  <2>2. AlignedUnderstood' /\ HeadUnderstood'
    BY <2>1 DEF AlignedUnderstood, HeadUnderstood
  <2>3. asked' \in Seq(Requests)
    BY <2>1
  <2>4. ASSUME aligned
        PROVE  \E g : Says(g, asked', unread')
    <3>1. PICK h : Says(h, asked, unread)
      BY <2>4 DEF AskInv
    <3>2. \E g : Says(g, Append(asked, r), unread \o RequestText(r))
      BY <3>1, SaysMore
    <3> QED
      BY <2>1, <2>4, <3>2
  <2>5. unread' \in Texts
    <3>1. RequestText(r) \in Texts
      BY HttpAssumption, RequestTextType
    <3> QED
      BY <2>1, <3>1, Joins
  <2> QED
    BY <2>1, <2>2, <2>3, <2>4, <2>5 DEF AskInv
<1>3. ASSUME NEW n \in 1 .. Len(unread), OnMessage(n)
      PROVE  AskInv'
  <2>1. PICK msg, r : msg = SubSeq(unread, 1, n) /\ r = Head(asked)
    OBVIOUS
  <2>2. /\ unread' = SubSeq(unread, n + 1, Len(unread))
        /\ aligned' = (aligned /\ n = Len(RequestText(r)))
        /\ handled' = [request |-> parse(msg),
                       line |-> IF aligned /\ n > Len(LineText(r)) THEN {r} ELSE {},
                       head |-> IF aligned /\ n >= Len(HeadText(r)) THEN {r} ELSE {},
                       whole |-> IF aligned' THEN {r} ELSE {}]
        /\ asked' = IF aligned' THEN Tail(asked) ELSE <<>>
    BY <1>3, <2>1 DEF OnMessage
  <2>3. unread' \in Texts
    BY <2>2, Taken
  <2>4. HeadUnderstood'
    <3>1. CASE ~aligned
      <4>1. handled'.line = {} /\ handled'.head = {}
        BY <2>2, <3>1
      <4> QED
        BY <4>1 DEF HeadUnderstood
    <3>2. CASE aligned
      <4>1. /\ n > Len(LineText(r)) => LineIs(parse(msg), r)
            /\ n >= Len(HeadText(r)) => HeadIs(parse(msg), r)
        BY <2>1, <3>2, NextPiece
      <4>2. /\ handled'.request = parse(msg)
            /\ handled'.line = IF n > Len(LineText(r)) THEN {r} ELSE {}
            /\ handled'.head = IF n >= Len(HeadText(r)) THEN {r} ELSE {}
        BY <2>2, <3>2
      <4> QED
        BY <4>1, <4>2 DEF HeadUnderstood
    <3> QED
      BY <3>1, <3>2
  <2>5. CASE ~aligned'
    <3>1. asked' = <<>> /\ handled'.whole = {} /\ aligned' = FALSE
      BY <2>2, <2>5
    <3>2. AlignedUnderstood'
      BY <3>1 DEF AlignedUnderstood
    <3>3. asked' \in Seq(Requests)
      BY <3>1
    <3> QED
      BY <2>3, <2>4, <3>1, <3>2, <3>3 DEF AskInv
  <2>6. CASE aligned'
    <3>1. aligned /\ n = Len(RequestText(r)) /\ aligned' = TRUE
      BY <2>2, <2>6
    <3>2. PICK h : Says(h, asked, unread)
      BY <3>1 DEF AskInv
    <3>3. asked # <<>>
      BY <3>1, NextPiece
    <3>4. /\ r \in Requests
          /\ Tail(asked) \in Seq(Requests)
          /\ msg = RequestText(r)
          /\ \E g : Says(g, Tail(asked), SubSeq(unread, n + 1, Len(unread)))
      BY <2>1, <3>1, <3>2, <3>3, SaysLess
    <3>5. WellFormed(r) /\ RequestText(r) \in Texts
      BY <3>4, HttpAssumption, RequestTextType
    <3>6. Understood(parse(RequestText(r)), r)
      BY <3>5, RequestRead
    <3>7. handled'.request = parse(RequestText(r)) /\ handled'.whole = {r}
      BY <2>2, <2>6, <3>4
    <3>8. AlignedUnderstood'
      BY <3>6, <3>7 DEF AlignedUnderstood
    <3>9. asked' = Tail(asked)
      BY <2>2, <2>6
    <3> QED
      BY <2>2, <2>3, <2>4, <3>1, <3>4, <3>8, <3>9 DEF AskInv
  <2> QED
    BY <2>5, <2>6
<1> QED
  BY <1>1, <1>2, <1>3 DEF Next

LEMMA AskInit == Init => AskInv
<1> SUFFICES ASSUME Init PROVE AskInv
  OBVIOUS
<1>1. /\ unread = <<>> /\ asked = <<>> /\ aligned = TRUE
      /\ handled.line = {} /\ handled.head = {} /\ handled.whole = {}
  BY DEF Init
<1>2. <<>> \in Texts
  BY DEF Texts
<1>3. AlignedUnderstood /\ HeadUnderstood
  BY <1>1 DEF AlignedUnderstood, HeadUnderstood
<1>4. Says([i \in 1 .. 1 |-> <<>>], <<>>, <<>>)
  BY <1>2 DEF Says
<1>5. asked \in Seq(Requests)
  BY <1>1
<1> QED
  BY <1>1, <1>2, <1>3, <1>4, <1>5 DEF AskInv

(* As long as every piece the server reads is one whole request, parse()   *)
(* gives the application the method, the path, the parameters, the         *)
(* version, the headers and the body that the client meant.                *)
THEOREM Understands == Spec => []AlignedUnderstood
<1>1. AskInv => AlignedUnderstood
  BY DEF AskInv
<1> QED
  BY <1>1, AskInit, AskStep, PTL DEF Spec

(* A piece that begins with a request and has its first line, or its head, *)
(* gives onMessage() the method, the version, the path and the parameters, *)
(* or the headers too, that the client meant, wherever the piece ends: no  *)
(* round of parse() behind them loses one or takes one from what follows.  *)
THEOREM UnderstandsHead == Spec => []HeadUnderstood
<1>1. AskInv => HeadUnderstood
  BY DEF AskInv
<1> QED
  BY <1>1, AskInit, AskStep, PTL DEF Spec

=============================================================================
