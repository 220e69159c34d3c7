------------------------------- MODULE Folding -------------------------------
(***************************************************************************)
(* What a left fold over a sequence computes: nothing over the empty one,  *)
(* one step more for one more element, and whatever every step keeps.  The *)
(* step and the claim are parameters, so a module that folds takes an      *)
(* INSTANCE of this one with its own, what they depend on being handed     *)
(* through as a context.  Fold is FoldLeft of the sequence library, its    *)
(* definition expanded, so that an instance brings nothing else along.     *)
(***************************************************************************)
EXTENDS Integers, WellFoundedInduction, TLAPS

CONSTANTS Step(_, _, _),   \* of a context, the state so far and an element
          Claim(_, _, _)   \* of a context, how many elements were taken, and the state

\* The first n elements.
Prefix(seq, n) == [i \in 1 .. n |-> seq[i]]

-----------------------------------------------------------------------------
(* The function the definition of a fold chooses.                          *)

Largest(S) == CHOOSE x \in S : \A y \in S : x >= y

\* h gives the fold of any of the elements numbered in S, in their order.
Iterates(c, base, seq, S, h) ==
    h = [s \in SUBSET S |-> IF s = {} THEN base
                            ELSE Step(c, h[s \ {Largest(s)}], seq[Largest(s)])]

Fold(c, base, seq) == (CHOOSE h : Iterates(c, base, seq, DOMAIN seq, h))[DOMAIN seq]

\* A set of naturals that is not empty has a least one.
LEMMA LeastOf ==
    ASSUME NEW T \in SUBSET Nat, T # {}
    PROVE  \E n \in T : \A m \in T : n <= m
  <1>1. \E n \in T : \A m \in T : ~ (<<m, n>> \in OpToRel(<, Nat))
    BY NatLessThanWellFounded, WFMin
  <1>2. PICK n \in T : \A m \in T : ~ (<<m, n>> \in OpToRel(<, Nat))
    BY <1>1
  <1>3. \A m \in T : ~ (m < n)
    <2> SUFFICES ASSUME NEW m \in T, m < n PROVE FALSE
      OBVIOUS
    <2>1. <<m, n>> \in Nat \X Nat /\ <<m, n>>[1] < <<m, n>>[2]
      OBVIOUS
    <2>2. <<m, n>> \in OpToRel(<, Nat)
      BY <2>1, Zenon DEF OpToRel
    <2> QED  BY <2>2, <1>2
  <1> QED  BY <1>3

\* The largest of some numbers up to n + 1 that it is one of.
LEMMA LargestOf ==
    ASSUME NEW n \in Nat, NEW s \in SUBSET (1 .. n + 1), n + 1 \in s
    PROVE  Largest(s) = n + 1
  <1>1. \A x \in s : (\A y \in s : x >= y) <=> x = n + 1
    OBVIOUS
  <1> QED  BY <1>1 DEF Largest

\* Such a function exists, however many elements there are.
LEMMA IterateExists ==
    ASSUME NEW c, NEW base, NEW seq
    PROVE  \A n \in Nat : \E h : Iterates(c, base, seq, 1 .. n, h)
  <1> DEFINE Wrong == {n \in Nat : ~ \E h : Iterates(c, base, seq, 1 .. n, h)}
  <1> SUFFICES ASSUME Wrong # {} PROVE FALSE
    OBVIOUS
  <1>1. PICK n \in Wrong : \A m \in Wrong : n <= m
    BY LeastOf
  <1>2. n # 0
    <2> SUFFICES ASSUME n = 0 PROVE FALSE
      OBVIOUS
    <2> DEFINE h == [s \in SUBSET (1 .. 0) |-> base]
    <2>1. \A s \in SUBSET (1 .. 0) : s = {}
      OBVIOUS
    <2>2. h = [s \in SUBSET (1 .. 0) |-> IF s = {} THEN base
                            ELSE Step(c, h[s \ {Largest(s)}], seq[Largest(s)])]
      BY <2>1, Zenon
    <2>3. Iterates(c, base, seq, 1 .. 0, h)
      BY <2>2, Zenon DEF Iterates
    <2> QED  BY <2>3, <1>1
  <1>3. n - 1 \in Nat /\ n - 1 \notin Wrong
    BY <1>1, <1>2
  <1>4. PICK g : Iterates(c, base, seq, 1 .. n - 1, g)
    BY <1>3
  <1> DEFINE h == [s \in SUBSET (1 .. n) |->
                     IF n \in s THEN Step(c, g[s \ {n}], seq[n]) ELSE g[s]]
             H(s) == IF s = {} THEN base ELSE Step(c, h[s \ {Largest(s)}], seq[Largest(s)])
  <1>5. ASSUME NEW s \in SUBSET (1 .. n) PROVE h[s] = H(s)
    <2>1. CASE n \in s
      <3>1. Largest(s) = n
        <4>1. n - 1 \in Nat /\ s \in SUBSET (1 .. (n - 1) + 1) /\ (n - 1) + 1 \in s
          BY <2>1, <1>3
        <4> QED  BY <4>1, LargestOf
      <3>2. s \ {n} \in SUBSET (1 .. n) /\ n \notin s \ {n}
        OBVIOUS
      <3>3. h[s \ {n}] = g[s \ {n}]
        BY <3>2
      <3> QED  BY <2>1, <3>1, <3>3
    <2>2. CASE n \notin s
      <3>1. s \in SUBSET (1 .. n - 1)
        BY <2>2, <1>3
      <3>2. g[s] = IF s = {} THEN base ELSE Step(c, g[s \ {Largest(s)}], seq[Largest(s)])
        BY <3>1, <1>4 DEF Iterates
      <3>3. n \notin s \ {Largest(s)} /\ s \ {Largest(s)} \in SUBSET (1 .. n)
        BY <2>2
      <3>4. h[s \ {Largest(s)}] = g[s \ {Largest(s)}]
        BY <3>3
      <3> QED  BY <2>2, <3>2, <3>4
    <2> QED  BY <2>1, <2>2
  <1>6. Iterates(c, base, seq, 1 .. n, h)
    <2>1. h = [s \in SUBSET (1 .. n) |-> h[s]]
      OBVIOUS
    <2>2. [s \in SUBSET (1 .. n) |-> h[s]] = [s \in SUBSET (1 .. n) |-> H(s)]
      BY <1>5, Zenon
    <2> HIDE DEF h
    <2> QED  BY <2>1, <2>2, Zenon DEF Iterates
  <1> QED  BY <1>1, <1>6

\* What it gives for the first elements does not depend on how many more there are.
LEMMA IteratesAgree ==
    ASSUME NEW c, NEW base, NEW one, NEW two, NEW n \in Nat, NEW k \in Nat, n <= k,
           \A i \in 1 .. n : one[i] = two[i],
           NEW g, Iterates(c, base, one, 1 .. n, g),
           NEW h, Iterates(c, base, two, 1 .. k, h)
    PROVE  g[1 .. n] = h[1 .. n]
  <1> DEFINE Wrong == {m \in 0 .. n : g[1 .. m] # h[1 .. m]}
  <1> SUFFICES ASSUME Wrong # {} PROVE FALSE
    OBVIOUS
  <1>1. PICK m \in Wrong : \A x \in Wrong : m <= x
    <2>1. Wrong \in SUBSET Nat
      OBVIOUS
    <2> QED  BY <2>1, LeastOf
  <1>2. 1 .. m \in SUBSET (1 .. n) /\ 1 .. m \in SUBSET (1 .. k)
    OBVIOUS
  <1>3. /\ g[1 .. m] = IF 1 .. m = {} THEN base
                       ELSE Step(c, g[(1 .. m) \ {Largest(1 .. m)}], one[Largest(1 .. m)])
        /\ h[1 .. m] = IF 1 .. m = {} THEN base
                       ELSE Step(c, h[(1 .. m) \ {Largest(1 .. m)}], two[Largest(1 .. m)])
    BY <1>2 DEF Iterates
  <1>4. m # 0
    BY <1>3, <1>1
  <1>5. 1 .. m # {} /\ Largest(1 .. m) = m /\ (1 .. m) \ {m} = 1 .. m - 1
    <2>1. m - 1 \in Nat /\ 1 .. m \in SUBSET (1 .. (m - 1) + 1) /\ (m - 1) + 1 \in 1 .. m
      BY <1>4
    <2>2. Largest(1 .. m) = m
      BY <2>1, LargestOf
    <2>3. \A x : x \in (1 .. m) \ {m} <=> x \in 1 .. (m - 1)
      BY <2>1
    <2>4. (1 .. m) \ {m} = 1 .. (m - 1)
      BY <2>3
    <2> QED  BY <2>1, <2>2, <2>4
  <1>6. m - 1 \in 0 .. n /\ m - 1 \notin Wrong
    BY <1>1, <1>4
  <1>7. g[1 .. m - 1] = h[1 .. m - 1] /\ one[m] = two[m]
    BY <1>6, <1>1
  <1>8. g[1 .. m] = h[1 .. m]
    BY <1>3, <1>5, <1>7
  <1> QED  BY <1>1, <1>8

\* The chosen function is one of them.
LEMMA ChosenIterates ==
    ASSUME NEW c, NEW base, NEW seq, NEW n \in Nat, DOMAIN seq = 1 .. n
    PROVE  \E h : /\ Iterates(c, base, seq, 1 .. n, h)
                  /\ Fold(c, base, seq) = h[1 .. n]
  <1>1. \E h : Iterates(c, base, seq, 1 .. n, h)
    BY IterateExists
  <1> DEFINE h == CHOOSE h : Iterates(c, base, seq, 1 .. n, h)
  <1>2. Iterates(c, base, seq, 1 .. n, h)
    BY <1>1, Zenon
  <1>3. Fold(c, base, seq) = h[1 .. n]
    BY Zenon DEF Fold
  <1> HIDE DEF h
  <1> QED  BY <1>2, <1>3

-----------------------------------------------------------------------------
(* The equations of a fold, and its invariants.                            *)

\* The fold of nothing is what it starts from.
THEOREM FoldOfNone ==
    ASSUME NEW c, NEW base, NEW seq, DOMAIN seq = {}
    PROVE  Fold(c, base, seq) = base
  <1>1. DOMAIN seq = 1 .. 0
    OBVIOUS
  <1>2. PICK h : Iterates(c, base, seq, 1 .. 0, h) /\ Fold(c, base, seq) = h[1 .. 0]
    BY <1>1, ChosenIterates
  <1>3. 1 .. 0 = {} /\ {} \in SUBSET (1 .. 0)
    OBVIOUS
  <1> QED  BY <1>2, <1>3 DEF Iterates

\* One element more is one step more.
THEOREM FoldOfOneMore ==
    ASSUME NEW c, NEW base, NEW seq, NEW n \in Nat, DOMAIN seq = 1 .. n + 1
    PROVE  Fold(c, base, seq) = Step(c, Fold(c, base, Prefix(seq, n)), seq[n + 1])
  <1>1. DOMAIN Prefix(seq, n) = 1 .. n /\ n + 1 \in Nat
    BY DEF Prefix
  <1>2. PICK g : /\ Iterates(c, base, Prefix(seq, n), 1 .. n, g)
                 /\ Fold(c, base, Prefix(seq, n)) = g[1 .. n]
    BY <1>1, ChosenIterates
  <1>3. PICK h : /\ Iterates(c, base, seq, 1 .. n + 1, h)
                 /\ Fold(c, base, seq) = h[1 .. n + 1]
    BY <1>1, ChosenIterates
  <1>4. \A i \in 1 .. n : Prefix(seq, n)[i] = seq[i]
    BY DEF Prefix
  <1>5. g[1 .. n] = h[1 .. n]
    BY <1>1, <1>2, <1>3, <1>4, IteratesAgree
  <1>6. /\ 1 .. n + 1 # {} /\ Largest(1 .. n + 1) = n + 1
        /\ (1 .. n + 1) \ {n + 1} = 1 .. n
    BY LargestOf
  <1>7. h[1 .. n + 1] = Step(c, h[1 .. n], seq[n + 1])
    BY <1>3, <1>6 DEF Iterates
  <1> QED  BY <1>2, <1>3, <1>5, <1>7

\* The fold of the first elements takes one step for the last of them.
THEOREM FoldOfFirst ==
    ASSUME NEW c, NEW base, NEW seq, NEW k \in Nat \ {0}
    PROVE  Fold(c, base, Prefix(seq, k)) = Step(c, Fold(c, base, Prefix(seq, k - 1)), seq[k])
  <1> DEFINE p == Prefix(seq, k)
  <1>1. k - 1 \in Nat /\ DOMAIN p = 1 .. (k - 1) + 1 /\ p[(k - 1) + 1] = seq[k]
    BY DEF Prefix
  <1>2. Prefix(p, k - 1) = Prefix(seq, k - 1)
    BY DEF Prefix
  <1>3. Fold(c, base, p) = Step(c, Fold(c, base, Prefix(p, k - 1)), p[(k - 1) + 1])
    BY <1>1, FoldOfOneMore
  <1> QED  BY <1>1, <1>2, <1>3

\* None of the elements fold to what the fold starts from.
THEOREM FoldOfNoneFirst ==
    ASSUME NEW c, NEW base, NEW seq
    PROVE  Fold(c, base, Prefix(seq, 0)) = base
  <1>1. DOMAIN Prefix(seq, 0) = {}
    BY DEF Prefix
  <1> QED  BY <1>1, FoldOfNone

\* The first n of n elements are all of them.
THEOREM FoldOfAll ==
    ASSUME NEW c, NEW base, NEW seq, NEW n \in Nat, DOMAIN seq = 1 .. n
    PROVE  Fold(c, base, Prefix(seq, n)) = Fold(c, base, seq)
  <1>1. CASE n = 0
    <2>1. DOMAIN seq = {}
      BY <1>1
    <2> QED  BY <1>1, <2>1, FoldOfNone, FoldOfNoneFirst
  <1>2. CASE n # 0
    <2>1. n - 1 \in Nat /\ DOMAIN seq = 1 .. (n - 1) + 1 /\ (n - 1) + 1 = n
      BY <1>2
    <2>2. Fold(c, base, seq) = Step(c, Fold(c, base, Prefix(seq, n - 1)), seq[(n - 1) + 1])
      BY <2>1, FoldOfOneMore
    <2> QED  BY <1>2, <2>1, <2>2, FoldOfFirst
  <1> QED  BY <1>1, <1>2

\* Folds whose steps do alike give alike, whatever else their contexts and elements differ in.
THEOREM FoldsAlike ==
    ASSUME NEW c, NEW d, NEW base, NEW one, NEW two, NEW n \in Nat,
           DOMAIN one = 1 .. n, DOMAIN two = 1 .. n,
           \A i \in 1 .. n : \A s : Step(c, s, one[i]) = Step(d, s, two[i])
    PROVE  Fold(c, base, one) = Fold(d, base, two)
  <1> DEFINE F(m) == Fold(c, base, Prefix(one, m))
             G(m) == Fold(d, base, Prefix(two, m))
             Wrong == {m \in 0 .. n : F(m) # G(m)}
  <1>1. \A m \in 0 .. n : F(m) = G(m)
    <2> SUFFICES ASSUME Wrong # {} PROVE FALSE
      OBVIOUS
    <2>1. PICK m \in Wrong : \A x \in Wrong : m <= x
      <3>1. Wrong \in SUBSET Nat
        OBVIOUS
      <3> HIDE DEF Wrong
      <3> QED  BY <3>1, LeastOf
    <2>2. m # 0
      BY <2>1, FoldOfNoneFirst
    <2>3. m \in 1 .. n /\ m \in Nat \ {0} /\ m - 1 \in 0 .. n /\ m - 1 \notin Wrong
      BY <2>1, <2>2
    <2>4. F(m - 1) = G(m - 1)
      BY <2>3
    <2>5. F(m) = Step(c, F(m - 1), one[m]) /\ G(m) = Step(d, G(m - 1), two[m])
      BY <2>3, FoldOfFirst
    <2> HIDE DEF F, G
    <2>6. F(m) = G(m)
      BY <2>3, <2>4, <2>5
    <2> QED  BY <2>1, <2>6
  <1>2. F(n) = Fold(c, base, one) /\ G(n) = Fold(d, base, two)
    BY FoldOfAll
  <1> QED  BY <1>1, <1>2

\* What holds at the start and is kept by every step holds of the fold; what the claim is about
\* may be more than the steps look at.
THEOREM FoldMaintains ==
    ASSUME NEW c, NEW e, NEW base, NEW seq, NEW n \in Nat, DOMAIN seq = 1 .. n,
           Claim(e, 0, base),
           \A i \in 1 .. n : \A s : Claim(e, i - 1, s) => Claim(e, i, Step(c, s, seq[i]))
    PROVE  Claim(e, n, Fold(c, base, seq))
  <1> DEFINE F(m) == Fold(c, base, Prefix(seq, m))
             Wrong == {m \in 0 .. n : ~ Claim(e, m, F(m))}
  <1>1. \A m \in 0 .. n : Claim(e, m, F(m))
    <2> SUFFICES ASSUME Wrong # {} PROVE FALSE
      OBVIOUS
    <2>1. PICK m \in Wrong : \A x \in Wrong : m <= x
      <3>1. Wrong \in SUBSET Nat
        OBVIOUS
      <3> HIDE DEF Wrong
      <3> QED  BY <3>1, LeastOf
    <2>2. m # 0
      BY <2>1, FoldOfNoneFirst
    <2>3. m \in 1 .. n /\ m \in Nat \ {0} /\ m - 1 \in 0 .. n /\ m - 1 \notin Wrong
      BY <2>1, <2>2
    <2>4. Claim(e, m - 1, F(m - 1))
      BY <2>3
    <2>5. F(m) = Step(c, F(m - 1), seq[m])
      BY <2>3, FoldOfFirst
    <2> HIDE DEF F
    <2>6. Claim(e, m, F(m))
      BY <2>3, <2>4, <2>5
    <2> QED  BY <2>1, <2>6
  <1>2. F(n) = Fold(c, base, seq)
    BY FoldOfAll
  <1>3. Claim(e, n, F(n))
    BY <1>1
  <1> QED  BY <1>2, <1>3

\* The same, the claim being about what the steps look at.
THEOREM FoldKeeps ==
    ASSUME NEW c, NEW base, NEW seq, NEW n \in Nat, DOMAIN seq = 1 .. n,
           Claim(c, 0, base),
           \A i \in 1 .. n : \A s : Claim(c, i - 1, s) => Claim(c, i, Step(c, s, seq[i]))
    PROVE  Claim(c, n, Fold(c, base, seq))
  BY FoldMaintains
=============================================================================
