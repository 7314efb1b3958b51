----------------------------- MODULE FoldProofs -----------------------------
(***************************************************************************)
(* What the loops of the models compute, for every number of rounds.       *)
(*                                                                         *)
(* The models write a loop as FoldLeft(LAMBDA a, i : Op(p, a, i), base,    *)
(* s), which is Folded: a recursive function over sets of indices.  Op,    *)
(* the body, is a parameter of this module.  FoldGoesThrough says that a   *)
(* loop goes through states h[0], h[1], ..., each made of the one before   *)
(* it; a module that is about a certain loop instantiates this one with    *)
(* its body.  What holds in every round then follows with                  *)
(* BoundedInduction, in which the property is a set of numbers.  Both rest *)
(* on the least element of a set of natural numbers.                       *)
(***************************************************************************)
EXTENDS Integers, Sequences

LOCAL INSTANCE WellFoundedInduction

CONSTANT Op(_, _, _)      \* the body of a loop: of its surroundings, its state and an item

(* The last of some indices.                                               *)
Largest(t) == CHOOSE x \in t : \A y \in t : x >= y

(* The loop over the items of s.                                           *)
Folded(p, base, s) ==
    LET iter[t \in SUBSET DOMAIN s] ==
            IF t = {} THEN base ELSE LET x == Largest(t) IN Op(p, iter[t \ {x}], s[x])
    IN iter[DOMAIN s]

(* Natural numbers are well-founded, so a set of them has a least one.     *)
LEMMA LeastElement ==
    ASSUME NEW T \in SUBSET Nat, T # {}
    PROVE  \E m \in T : \A k \in T : m <= k
<1>1. IsWellFoundedOn(OpToRel(<, Nat), Nat)
  BY NatLessThanWellFounded
<1>2. PICK R : R = OpToRel(<, Nat)
  OBVIOUS
<1>3. \A x, y \in Nat : <<x, y>> \in R <=> x < y
  BY <1>2 DEF OpToRel
<1>4. IsWellFoundedOn(R, Nat)
  BY <1>1, <1>2
<1>5. PICK m \in T : \A y \in T : ~(<<y, m>> \in R)
  BY <1>4, WFMin
<1>6. ASSUME NEW k \in T PROVE m <= k
  <2>1. k \in Nat /\ m \in Nat /\ ~(k < m)
    BY <1>3, <1>5
  <2> QED
    BY <2>1
<1> QED
  BY <1>6

(* Induction, with the property as a set.                                  *)
LEMMA SetInduction ==
    ASSUME NEW S, 0 \in S, \A n \in Nat : n \in S => n + 1 \in S
    PROVE  \A n \in Nat : n \in S
<1> SUFFICES ASSUME NEW k \in Nat, k \notin S PROVE FALSE
  OBVIOUS
<1>1. PICK T \in SUBSET Nat : T = Nat \ S
  OBVIOUS
<1>2. PICK m \in T : \A j \in T : m <= j
  BY <1>1, LeastElement
<1>3. m # 0 /\ m - 1 \in Nat
  BY <1>1, <1>2
<1>4. m - 1 \notin T
  BY <1>2, <1>3
<1> QED
  BY <1>1, <1>3, <1>4

(* Induction up to a bound.                                                *)
LEMMA BoundedInduction ==
    ASSUME NEW n \in Nat, NEW S, 0 \in S, \A k \in 1..n : k - 1 \in S => k \in S
    PROVE  \A k \in 0..n : k \in S
<1> DEFINE T == {k \in Nat : k <= n => k \in S}
<1>1. 0 \in T
  OBVIOUS
<1>2. ASSUME NEW k \in Nat, k \in T PROVE k + 1 \in T
  <2> SUFFICES ASSUME k + 1 <= n PROVE k + 1 \in S
    OBVIOUS
  <2>1. k \in S /\ k + 1 \in 1..n /\ (k + 1) - 1 = k
    BY <1>2
  <2> QED
    BY <2>1
<1> HIDE DEF T
<1>3. \A k \in Nat : k \in T
  BY <1>1, <1>2, SetInduction
<1> QED
  BY <1>3 DEF T

(* The largest of the first n + 1 numbers is the last one, if it is there. *)
LEMMA MaxUpTo ==
    ASSUME NEW n \in Nat, NEW s \in SUBSET (1..(n + 1))
    PROVE  /\ n + 1 \in s => Largest(s) = n + 1
           /\ n + 1 \notin s => s \in SUBSET (1..n)
<1>1. ASSUME n + 1 \in s PROVE Largest(s) = n + 1
  <2>1. \A y \in s : n + 1 >= y /\ y \in Int
    OBVIOUS
  <2>2. \A x \in s : (\A y \in s : x >= y) => x = n + 1
    BY <1>1, <2>1
  <2> QED
    BY <1>1, <2>1, <2>2 DEF Largest
<1> QED
  BY <1>1

(* A non-empty set of indices has a largest one.                           *)
LEMMA MaxIn ==
    ASSUME NEW n \in Nat, NEW s \in SUBSET (1..n), s # {}
    PROVE  Largest(s) \in s /\ \A k \in s : k <= Largest(s)
<1> DEFINE above == {m \in Nat : \A k \in s : k <= m}
<1>1. n \in above /\ above \in SUBSET Nat
  OBVIOUS
<1>2. PICK m \in above : \A k \in above : m <= k
  BY <1>1, LeastElement
<1>3. \A k \in s : k <= m
  BY <1>2
<1>4. m \in s
  <2> SUFFICES ASSUME m \notin s PROVE FALSE
    OBVIOUS
  <2>1. \A k \in s : k \in 1..n /\ k < m
    BY <1>3
  <2>2. PICK j \in s : TRUE
    OBVIOUS
  <2>3. m - 1 \in Nat /\ \A k \in s : k <= m - 1
    BY <2>1, <2>2
  <2>4. m - 1 \in above
    BY <2>3
  <2> QED
    BY <1>2, <2>4
<1> QED
  BY <1>3, <1>4 DEF Largest

(* The indices up to k, as the fold takes them apart.                      *)
LEMMA UpTo ==
    ASSUME NEW n \in Nat, NEW k \in 1..n
    PROVE  /\ 1..k \in SUBSET (1..n) /\ 1..k # {}
           /\ Largest(1..k) = k /\ (1..k) \ {k} = 1..(k - 1)
<1>1. 1..k \in SUBSET (1..n) /\ k \in 1..k /\ (1..k) \ {k} = 1..(k - 1)
  OBVIOUS
<1>2. k - 1 \in Nat /\ (k - 1) + 1 = k /\ 1..k \in SUBSET (1..((k - 1) + 1))
  OBVIOUS
<1>3. Largest(1..k) = k
  BY <1>1, <1>2, MaxUpTo
<1> QED
  BY <1>1, <1>3

(* h lists the states the loop goes through.                               *)
Through(h, p, base, s) ==
    /\ h[0] = base
    /\ \A k \in 1..Len(s) : h[k] = Op(p, h[k - 1], s[k])
    /\ h[Len(s)] = Folded(p, base, s)

(* There are such states: the recursive function of the fold exists, as it *)
(* does for one item more than any number of items, and FoldLeft chooses   *)
(* it.                                                                     *)
LEMMA FoldGoesThrough ==
    ASSUME NEW p, NEW base, NEW T, NEW s \in Seq(T)
    PROVE  \E h : Through(h, p, base, s)
<1> DEFINE Unfolded(f, n) ==
               [t \in SUBSET (1..n) |->
                   IF t = {} THEN base ELSE LET x == Largest(t) IN Op(p, f[t \ {x}], s[x])]
           Good(n) == \E f : f = Unfolded(f, n)
           S == {n \in Nat : Good(n)}
           OnSets(f) ==
               [t \in SUBSET (DOMAIN s) |->
                   IF t = {} THEN base ELSE LET x == Largest(t) IN Op(p, f[t \ {x}], s[x])]
           iter == CHOOSE f : f = OnSets(f)
           h == [k \in 0..Len(s) |-> iter[1..k]]
<1>1. Folded(p, base, s) = iter[DOMAIN s]
  BY DEF Folded
<1>2. DOMAIN s = 1..Len(s) /\ Len(s) \in Nat
  OBVIOUS
<1>3. Good(0)
  <2> DEFINE f == [t \in SUBSET (1..0) |-> base]
  <2>1. SUBSET (1..0) = {{}}
    OBVIOUS
  <2>2. f = Unfolded(f, 0)
    BY <2>1
  <2> QED
    BY <2>2
<1>4. ASSUME NEW n \in Nat, Good(n) PROVE Good(n + 1)
  <2>1. PICK f : f = Unfolded(f, n)
    BY <1>4
  <2> DEFINE Next(t) == Op(p, f[t \ {n + 1}], s[n + 1])
             g == [t \in SUBSET (1..(n + 1)) |-> IF n + 1 \in t THEN Next(t) ELSE f[t]]
  <2>2. ASSUME NEW t \in SUBSET (1..(n + 1)) PROVE g[t] = Unfolded(g, n + 1)[t]
    <3>1. CASE n + 1 \in t
      <4>1. Largest(t) = n + 1 /\ t # {}
        BY <3>1, MaxUpTo
      <4>2. t \ {n + 1} \in SUBSET (1..(n + 1)) /\ n + 1 \notin t \ {n + 1}
        OBVIOUS
      <4>3. g[t \ {n + 1}] = f[t \ {n + 1}]
        BY <4>2
      <4>4. g[t] = Op(p, g[t \ {n + 1}], s[n + 1])
        BY <3>1, <4>3
      <4> HIDE DEF g
      <4> QED
        BY <4>1, <4>4
    <3>2. CASE n + 1 \notin t
      <4>1. t \in SUBSET (1..n) /\ g[t] = f[t]
        BY <3>2, MaxUpTo
      <4>2. t \ {Largest(t)} \in SUBSET (1..n) /\ t \ {Largest(t)} \in SUBSET (1..(n + 1))
            /\ n + 1 \notin t \ {Largest(t)}
        BY <3>2, <4>1
      <4>3. g[t \ {Largest(t)}] = f[t \ {Largest(t)}]
        BY <4>2
      <4>4. f[t] = IF t = {} THEN base ELSE Op(p, f[t \ {Largest(t)}], s[Largest(t)])
        BY <2>1, <4>1
      <4> HIDE DEF g
      <4> QED
        BY <4>1, <4>3, <4>4
    <3> QED
      BY <3>1, <3>2
  <2>3. g = Unfolded(g, n + 1)
    <3>1. g = [t \in SUBSET (1..(n + 1)) |-> g[t]]
      OBVIOUS
    <3>2. Unfolded(g, n + 1) = [t \in SUBSET (1..(n + 1)) |-> Unfolded(g, n + 1)[t]]
      OBVIOUS
    <3> HIDE DEF g, Unfolded
    <3> QED
      BY <2>2, <3>1, <3>2
  <2> HIDE DEF g, Unfolded
  <2> QED
    BY <2>3
<1>5. \A n \in Nat : n \in S
  <2> HIDE DEF Good
  <2>1. 0 \in S /\ \A n \in Nat : n \in S => n + 1 \in S
    BY <1>3, <1>4
  <2> HIDE DEF S
  <2> QED
    BY <2>1, SetInduction
<1>6. iter = OnSets(iter)
  <2>1. PICK f : f = Unfolded(f, Len(s))
    BY <1>2, <1>5
  <2>2. f = OnSets(f)
    BY <1>2, <2>1
  <2> HIDE DEF OnSets
  <2> QED
    BY <2>2
<1> HIDE DEF iter
<1>7. h[0] = base
  <2>1. 1..0 = {} /\ 0 \in 0..Len(s)
    BY <1>2
  <2>2. iter[{}] = base
    BY <1>6
  <2> QED
    BY <2>1, <2>2
<1>8. ASSUME NEW k \in 1..Len(s) PROVE h[k] = Op(p, h[k - 1], s[k])
  <2>1. /\ 1..k \in SUBSET (1..Len(s)) /\ 1..k # {}
        /\ Largest(1..k) = k /\ (1..k) \ {k} = 1..(k - 1)
    BY <1>2, UpTo
  <2>2. iter[1..k] = Op(p, iter[(1..k) \ {Largest(1..k)}], s[Largest(1..k)])
    BY <1>2, <1>6, <2>1
  <2>3. h[k] = iter[1..k] /\ h[k - 1] = iter[1..(k - 1)]
    BY <1>2
  <2> HIDE DEF h
  <2> QED
    BY <2>1, <2>2, <2>3
<1>9. h[Len(s)] = Folded(p, base, s)
  BY <1>1, <1>2
<1> HIDE DEF h
<1> QED
  BY <1>7, <1>8, <1>9 DEF Through
=============================================================================
