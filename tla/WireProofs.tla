----------------------------- MODULE WireProofs -----------------------------
(***************************************************************************)
(* What the connections and the server's handlers keep true by themselves, *)
(* whoever is on the other side.  TlsServer and Delivery compose them with *)
(* clients of their own; the proofs about either rest on these lemmas.     *)
(***************************************************************************)
EXTENDS ServerConn, FiniteSets, SequenceTheorems, FiniteSetTheorems, TLAPS

(* What is left of a stream that was cut is a stream again.                *)
LEMMA PrefixType ==
    ASSUME NEW S, NEW s \in Seq(S), NEW p \in Prefixes(s)
    PROVE  p \in Seq(S)
<1>1. PICK n \in 0..Len(s) : p = SubSeq(s, 1, n)
  BY DEF Prefixes
<1>2. n \in Int /\ \A i \in 1..n : s[i] \in S
  BY <1>1, LenProperties, ElementOfSeq
<1>3. SubSeq(s, 1, n) \in Seq(S)
  BY <1>2, SubSeqProperties
<1> QED
  BY <1>1, <1>3

(* What anyone may do to connection k, or to the set of connections.       *)
WireStep(k) ==
    \/ UNCHANGED wireVars
    \/ Open
    \/ \E m \in Nat : ClientWrites(k, m)
    \/ \E r \in Responses : ServerWrites(k, r)
    \/ ServerReads(k) \/ ClientReads(k)
    \/ ClientHangsUp(k) \/ ServerHangsUp(k)
    \/ Cut(k)

(* Reading, writing, hanging up and losing the end of a stream leave every *)
(* stream a sequence of messages and every set one of opened connections.  *)
LEMMA WireType ==
    ASSUME WireTypeOK, NEW k \in Conns, WireStep(k)
    PROVE  WireTypeOK'
<1> USE WireAssumption DEF WireTypeOK, Conns
<1>1. CASE UNCHANGED wireVars
  BY <1>1 DEF wireVars
<1>2. CASE Open
  BY <1>2 DEF Open, NewConn
<1>3. ASSUME NEW m \in Nat, ClientWrites(k, m) PROVE WireTypeOK'
  <2>1. Append(c2s[k], m) \in Seq(Nat)
    BY AppendProperties
  <2> QED
    BY <1>3, <2>1 DEF ClientWrites
<1>4. ASSUME NEW r \in Responses, ServerWrites(k, r) PROVE WireTypeOK'
  <2>1. Append(s2c[k], r) \in Seq(Responses)
    BY AppendProperties
  <2> QED
    BY <1>4, <2>1 DEF ServerWrites
<1>5. CASE ServerReads(k)
  <2>1. Tail(c2s[k]) \in Seq(Nat)
    BY <1>5, HeadTailProperties DEF ServerReads
  <2> QED
    BY <1>5, <2>1 DEF ServerReads
<1>6. CASE ClientReads(k)
  <2>1. Tail(s2c[k]) \in Seq(Responses)
    BY <1>6, HeadTailProperties DEF ClientReads
  <2> QED
    BY <1>6, <2>1 DEF ClientReads
<1>7. CASE ClientHangsUp(k)
  <2>1. <<>> \in Seq(Responses)
    BY EmptySeq
  <2>2. s2c' \in [Conns -> Seq(Responses)]
    BY <1>7, <2>1 DEF ClientHangsUp
  <2> QED
    BY <1>7, <2>2 DEF ClientHangsUp
<1>8. CASE ServerHangsUp(k)
  <2>1. <<>> \in Seq(Nat)
    BY EmptySeq
  <2>2. c2s' \in [Conns -> Seq(Nat)]
    BY <1>8, <2>1 DEF ServerHangsUp
  <2> QED
    BY <1>8, <2>2 DEF ServerHangsUp
<1>9. CASE Cut(k)
  <2>1. PICK p \in Prefixes(c2s[k]), q \in Prefixes(s2c[k]) :
            c2s' = [c2s EXCEPT ![k] = p] /\ s2c' = [s2c EXCEPT ![k] = q]
    BY <1>9 DEF Cut
  <2>2. p \in Seq(Nat) /\ q \in Seq(Responses)
    BY PrefixType
  <2>3. c2s' \in [Conns -> Seq(Nat)] /\ s2c' \in [Conns -> Seq(Responses)]
    BY <2>1, <2>2
  <2> QED
    BY <1>9, <2>3 DEF Cut
<1> QED
  BY <1>1, <1>2, <1>3, <1>4, <1>5, <1>6, <1>7, <1>8, <1>9 DEF WireStep

(* A handler keeps its own state well typed, and the streams.              *)
LEMMA HandlerType ==
    ASSUME WireTypeOK, ServerTypeOK, NEW k \in Conns,
           HandlerStep(k) \/ HandshakeFails(k) \/ \E v \in BOOLEAN : Handshake(k, v)
    PROVE  WireTypeOK' /\ ServerTypeOK'
<1> USE DEF ServerTypeOK
<1>1. WireStep(k)
  BY DEF HandlerStep, Handshake, HandshakeFails, handleEntry, ReadsPing, SendsPong, ReadsEnd,
     IdleTimeout, AcksOK, AcksNOK, sendAck, releaseConn, WireStep, Responses
<1>2. /\ hpc' \in [Conns -> {"accept", "listen", "pong", "OK", "NOK", "release", "done"}]
      /\ ack' \in [Conns -> BOOLEAN]
  BY DEF HandlerStep, Handshake, HandshakeFails, handleEntry, ReadsPing, SendsPong, ReadsEnd,
     IdleTimeout, AcksOK, AcksNOK, releaseConn, Goes
<1>3. handled' \in Seq(Nat)
  <2>1. CASE UNCHANGED handled
    BY <2>1
  <2>2. CASE handled' = Append(handled, Head(c2s[k])) /\ c2s[k] # <<>>
    <3>1. Head(c2s[k]) \in Nat
      BY <2>2, HeadTailProperties DEF WireTypeOK
    <3> QED
      BY <2>2, <3>1, AppendProperties
  <2> QED
    BY <2>1, <2>2 DEF HandlerStep, Handshake, HandshakeFails, handleEntry, ReadsPing,
       SendsPong, ReadsEnd, IdleTimeout, AcksOK, AcksNOK, releaseConn
<1> QED
  BY <1>1, <1>2, <1>3, WireType

----------------------------------------------------------------------------
(* A stream in two parts, what was read and what was not: writing adds to  *)
(* its end, reading moves the border, and the first part is a prefix.      *)
LEMMA ConcatAppend ==
    ASSUME NEW S, NEW s \in Seq(S), NEW t \in Seq(S), NEW e \in S
    PROVE  s \o Append(t, e) = Append(s \o t, e)
  OBVIOUS

(* Reading moves the border between what was read and what is under way.   *)
LEMMA ConcatRead ==
    ASSUME NEW S, NEW s \in Seq(S), NEW t \in Seq(S), t # <<>>
    PROVE  Append(s, Head(t)) \o Tail(t) = s \o t
  OBVIOUS

(* What was read is a prefix of all that was written.                      *)
LEMMA ConcatPrefix ==
    ASSUME NEW S, NEW s \in Seq(S), NEW t \in Seq(S)
    PROVE  /\ DOMAIN s = 1..Len(s) /\ Len(s) \in 0..Len(s \o t)
           /\ \A i \in 1..Len(s) : s[i] = (s \o t)[i]
  OBVIOUS

(* How often x is in a stream: what counting answers and copies rests on.  *)
Occurrences(s, x) == Cardinality({i \in DOMAIN s : s[i] = x})

(* A stream has finitely many copies of anything, ...                      *)
LEMMA OccurrencesType ==
    ASSUME NEW S, NEW s \in Seq(S), NEW x
    PROVE  /\ IsFiniteSet({i \in DOMAIN s : s[i] = x})
           /\ Occurrences(s, x) \in Nat
<1>1. DOMAIN s = 1..Len(s) /\ Len(s) \in Nat
  BY LenProperties
<1>2. IsFiniteSet(1..Len(s))
  BY <1>1, FS_Interval
<1>3. {i \in DOMAIN s : s[i] = x} \in SUBSET (1..Len(s))
  BY <1>1
<1>4. IsFiniteSet({i \in DOMAIN s : s[i] = x})
  BY <1>2, <1>3, FS_Subset
<1> QED
  BY <1>4, FS_CardinalityType DEF Occurrences

(* ... and an empty one has none.                                          *)
LEMMA OccurrencesEmpty == \A x : Occurrences(<<>>, x) = 0
<1> SUFFICES ASSUME NEW x PROVE Occurrences(<<>>, x) = 0
  OBVIOUS
<1>1. {i \in DOMAIN <<>> : <<>>[i] = x} = {}
  OBVIOUS
<1> QED
  BY <1>1, FS_EmptySet DEF Occurrences

(* One more element: it counts, or it does not.                            *)
LEMMA OccurrencesAppend ==
    ASSUME NEW S, NEW s \in Seq(S), NEW e \in S, NEW x
    PROVE  Occurrences(Append(s, e), x) = Occurrences(s, x) + (IF e = x THEN 1 ELSE 0)
<1> DEFINE A == {i \in DOMAIN s : s[i] = x}
           B == {i \in DOMAIN Append(s, e) : Append(s, e)[i] = x}
<1>1. /\ DOMAIN s = 1..Len(s) /\ Len(s) \in Nat
      /\ DOMAIN Append(s, e) = 1..(Len(s) + 1)
      /\ \A i \in 1..Len(s) : Append(s, e)[i] = s[i]
      /\ Append(s, e)[Len(s) + 1] = e
  BY AppendProperties, LenProperties
<1>2. IsFiniteSet(A) /\ Cardinality(A) \in Nat
  BY OccurrencesType DEF Occurrences
<1>3. Occurrences(s, x) = Cardinality(A) /\ Occurrences(Append(s, e), x) = Cardinality(B)
  BY DEF Occurrences
<1>4. CASE e = x
  <2>1. B = A \cup {Len(s) + 1}
    BY <1>1, <1>4
  <2>2. Len(s) + 1 \notin A
    BY <1>1
  <2>3. Cardinality(A \cup {Len(s) + 1}) = Cardinality(A) + 1
    <3> HIDE DEF A
    <3> QED
      BY <1>2, <2>2, FS_AddElement
  <2> HIDE DEF A, B
  <2> QED
    BY <1>3, <1>4, <2>1, <2>3
<1>5. CASE e # x
  <2>1. B = A
    BY <1>1, <1>5
  <2> HIDE DEF A, B
  <2> QED
    BY <1>2, <1>3, <1>5, <2>1
<1> QED
  BY <1>4, <1>5

(* The same for what the client sends, by its numbers.                     *)
LEMMA NumbersAppend ==
    ASSUME NEW s \in Seq(Nat), NEW e \in Nat, NEW x
    PROVE  Occurrences(Append(s, e), x) = Occurrences(s, x) + (IF e = x THEN 1 ELSE 0)
BY OccurrencesAppend

(* One element less, at the front.                                         *)
LEMMA OccurrencesTail ==
    ASSUME NEW S, NEW s \in Seq(S), s # <<>>, NEW x
    PROVE  Occurrences(s, x) = Occurrences(Tail(s), x) + (IF Head(s) = x THEN 1 ELSE 0)
<1> DEFINE A == {i \in DOMAIN Tail(s) : Tail(s)[i] = x}
           B == {i \in DOMAIN s : s[i] = x}
           f == [i \in A |-> i + 1]
<1>1. /\ Tail(s) \in Seq(S) /\ Len(s) \in Nat
      /\ DOMAIN s = 1..Len(s) /\ DOMAIN Tail(s) = 1..(Len(s) - 1)
      /\ \A i \in 1..(Len(s) - 1) : Tail(s)[i] = s[i + 1]
  BY HeadTailProperties, LenProperties
<1>2. Head(s) = s[1] /\ 1 \in DOMAIN s
  BY <1>1, EmptySeq
<1>3. IsFiniteSet(A) /\ Cardinality(A) \in Nat
  BY <1>1, OccurrencesType DEF Occurrences
<1>4. f \in Bijection(A, B \ {1})
  <2>1. A \subseteq Int /\ \A i \in A : i + 1 \in B \ {1}
    BY <1>1
  <2>2. \A j \in B \ {1} : j - 1 \in A /\ (j - 1) + 1 = j
    BY <1>1
  <2>3. f \in [A -> B \ {1}]
    BY <2>1
  <2>4. \A i, j \in A : f[i] = f[j] => i = j
    BY <2>1
  <2>5. \A j \in B \ {1} : \E i \in A : f[i] = j
    BY <2>2
  <2> QED
    BY <2>3, <2>4, <2>5 DEF Bijection, Injection, Surjection, IsInjective
<1>5. IsFiniteSet(B \ {1}) /\ Cardinality(B \ {1}) = Cardinality(A)
  BY <1>3, <1>4, FS_Bijection DEF ExistsBijection
<1>6. Occurrences(Tail(s), x) = Cardinality(A) /\ Occurrences(s, x) = Cardinality(B)
  BY DEF Occurrences
<1>7. CASE Head(s) = x
  <2>1. B = (B \ {1}) \cup {1}
    BY <1>2, <1>7
  <2>2. Cardinality((B \ {1}) \cup {1}) = Cardinality(B \ {1}) + 1
    <3> HIDE DEF A, B
    <3> QED
      BY <1>5, FS_AddElement
  <2> HIDE DEF A, B
  <2> QED
    BY <1>5, <1>6, <1>7, <2>1, <2>2
<1>8. CASE Head(s) # x
  <2>1. B = B \ {1}
    BY <1>2, <1>8
  <2>2. Cardinality(B) = Cardinality(A)
    BY <1>5, <2>1, Zenon
  <2> HIDE DEF A, B
  <2> QED
    BY <1>3, <1>6, <1>8, <2>2
<1> QED
  BY <1>7, <1>8

(* Losing the end of a stream adds no occurrence.                          *)
LEMMA OccurrencesPrefix ==
    ASSUME NEW S, NEW s \in Seq(S), NEW p \in Prefixes(s), NEW x
    PROVE  Occurrences(p, x) <= Occurrences(s, x)
<1> DEFINE A == {i \in DOMAIN p : p[i] = x}
           B == {i \in DOMAIN s : s[i] = x}
<1>1. PICK n \in 0..Len(s) : p = SubSeq(s, 1, n)
  BY DEF Prefixes
<1>2. n \in Int /\ Len(s) \in Nat /\ n <= Len(s) /\ DOMAIN s = 1..Len(s)
      /\ \A i \in 1..n : s[i] \in S
  BY <1>1, LenProperties, ElementOfSeq
<1>3. DOMAIN p = 1..n /\ \A i \in 1..n : p[i] = s[i]
  BY <1>1, <1>2, SubSeqProperties
<1>4. A \in SUBSET B
  BY <1>2, <1>3
<1>5. IsFiniteSet(B)
  BY OccurrencesType
<1>6. Cardinality(A) <= Cardinality(B)
  <2> HIDE DEF A, B
  <2> QED
    BY <1>4, <1>5, FS_Subset
<1> QED
  BY <1>6 DEF Occurrences

(* Where x is in the streams f.                                            *)
Places(f, x) == {p \in (DOMAIN f) \X Nat : p[2] \in DOMAIN f[p[1]] /\ f[p[1]][p[2]] = x}

(* Two sums of numbers are the same.                                       *)
Balance(a, b, c, d) == /\ a \in Nat /\ b \in Nat /\ c \in Nat /\ d \in Nat
                       /\ a + b = c + d

(* A change of one of the streams, k, to t changes the number of places by *)
(* as much as t has more of them, or less.                                 *)
LEMMA PlacesUpdate ==
    ASSUME NEW K, NEW f \in [K -> Seq(Nat)], NEW k \in K, NEW t \in Seq(Nat), NEW x,
           NEW s, s = f[k], NEW g, g = [f EXCEPT ![k] = t], IsFiniteSet(Places(f, x))
    PROVE  /\ IsFiniteSet(Places(g, x))
           /\ Balance(Cardinality(Places(g, x)), Occurrences(s, x),
                      Cardinality(Places(f, x)), Occurrences(t, x))
<1> DEFINE In(r)  == {i \in DOMAIN r : r[i] = x}
           Others == {p \in Places(f, x) : p[1] # k}
<1>1. f[k] \in Seq(Nat) /\ DOMAIN f = K
  OBVIOUS
<1>2. DOMAIN g = K /\ g[k] = t /\ \A j \in K : j # k => g[j] = f[j]
  OBVIOUS
<1>3. \A r \in Seq(Nat) : DOMAIN r \subseteq Nat
  OBVIOUS
<1>4. Places(f, x) = Others \cup ({k} \X In(f[k]))
  BY <1>1, <1>3 DEF Places
<1>5. Places(g, x) = Others \cup ({k} \X In(t))
  BY <1>1, <1>2, <1>3 DEF Places
<1>6. IsFiniteSet(Others)
  <2>1. Others \in SUBSET Places(f, x)
    OBVIOUS
  <2> HIDE DEF Others
  <2> QED
    BY <2>1, FS_Subset
<1>7. ASSUME NEW r \in Seq(Nat)
      PROVE  /\ IsFiniteSet(Others \cup ({k} \X In(r))) /\ Occurrences(r, x) \in Nat
             /\ Cardinality(Others \cup ({k} \X In(r))) = Cardinality(Others) + Occurrences(r, x)
  <2>1. IsFiniteSet(In(r)) /\ Cardinality(In(r)) = Occurrences(r, x) /\ Occurrences(r, x) \in Nat
    BY OccurrencesType DEF Occurrences
  <2>2. IsFiniteSet({k}) /\ Cardinality({k}) = 1
    BY FS_Singleton
  <2>3. Others \cap ({k} \X In(r)) = {}
    OBVIOUS
  <2> HIDE DEF In, Others
  <2>4. IsFiniteSet({k} \X In(r)) /\ Cardinality({k} \X In(r)) = 1 * Occurrences(r, x)
    <3>1. PICK A, B : A = {k} /\ B = In(r)
      OBVIOUS
    <3>2. IsFiniteSet(A \X B) /\ Cardinality(A \X B) = Cardinality(A) * Cardinality(B)
      BY <2>1, <2>2, <3>1, FS_Product
    <3> QED
      BY <2>1, <2>2, <3>1, <3>2
  <2>5. PICK T : T = {k} \X In(r)
    OBVIOUS
  <2>6. IsFiniteSet(T) /\ Cardinality(T) = Occurrences(r, x) /\ Others \cap T = {}
    BY <2>1, <2>3, <2>4, <2>5
  <2>7. Cardinality(Others \cap T) = 0 /\ Cardinality(Others) \in Nat
    BY <1>6, <2>6, FS_EmptySet, FS_CardinalityType
  <2>8. /\ IsFiniteSet(Others \cup T)
        /\ Cardinality(Others \cup T) =
               Cardinality(Others) + Cardinality(T) - Cardinality(Others \cap T)
    BY <1>6, <2>6, FS_Union
  <2> QED
    BY <2>1, <2>5, <2>6, <2>7, <2>8
<1>8. Cardinality(Others) \in Nat
  <2> HIDE DEF Others
  <2> QED
    BY <1>6, FS_CardinalityType
<1> HIDE DEF In, Others
<1>9. /\ Occurrences(f[k], x) \in Nat
      /\ Cardinality(Places(f, x)) = Cardinality(Others) + Occurrences(f[k], x)
  BY <1>1, <1>4, <1>7
<1>10. /\ IsFiniteSet(Places(g, x)) /\ Occurrences(t, x) \in Nat
       /\ Cardinality(Places(g, x)) = Cardinality(Others) + Occurrences(t, x)
  BY <1>5, <1>7
<1>11. Occurrences(s, x) = Occurrences(f[k], x)
  OBVIOUS
<1> QED
  BY <1>8, <1>9, <1>10, <1>11 DEF Balance
============================================================================
