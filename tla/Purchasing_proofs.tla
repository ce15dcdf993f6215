-------------------------- MODULE Purchasing_proofs --------------------------
(* Proofs about ReceiptMatching, Purchasing, PurchasingOverlap and          *)
(* PurchasingSerial, for any number of requests, products, lines, units and *)
(* receipt numbers.  An order that has receipts exists and has left DRAFT;  *)
(* it is RECEIVED exactly when its lines are complete, but for the overlaps *)
(* PurchasingOverlap names; a cancelled order stays cancelled, but for      *)
(* those of its cancellation; receipts bring what the lines count as        *)
(* received, no more than was ordered, but for overlaps.  One request at a  *)
(* time, receipts fill the oldest lines first and the service implements    *)
(* PurchaseOrderBook.                                                       *)
EXTENDS PurchasingOverlap, PurchasingSerial, FiniteSetTheorems, TLAPS
-----------------------------------------------------------------------------
(* Sums over functions with a finite domain: the fold of SumOf unfolded     *)
(* by induction on the size of the domain                                   *)

Choice(s) == CHOOSE x \in s : TRUE

Iterates(f, U, g) ==
    g = [s \in SUBSET U |-> IF s = {} THEN 0 ELSE f[Choice(s)] + g[s \ {Choice(s)}]]

SumOver(f, U) == FoldFunctionOnSet(+, 0, f, U)

LEMMA ChoiceIn == ASSUME NEW s, s # {} PROVE Choice(s) \in s
  BY DEF Choice

LEMMA Moved == ASSUME NEW a \in Nat, NEW b \in Nat, NEW c \in Nat, NEW d \in Nat, NEW e \in Nat,
                      d + c = e, a + d = b + e
               PROVE  a = b + c
  OBVIOUS

\* What can be said of all finite sets holds if it holds of each one all of
\* whose strict subsets it holds of.
LEMMA Smallest ==
    ASSUME NEW S, NEW T, T \subseteq FiniteSubsetsOf(S), T # {}
    PROVE  \E U \in T : \A V \in T : ~(V \subseteq U /\ V # U)
  <1>1. IsWellFoundedOn(StrictSubsetOrdering(S), FiniteSubsetsOf(S))
    BY FS_StrictSubsetOrderingWellFounded
  <1>2. PICK U \in T : \A V \in T : ~(<<V, U>> \in StrictSubsetOrdering(S))
    BY <1>1, WFMin
  <1>3. \A V \in T : V \subseteq U /\ V # U => <<V, U>> \in StrictSubsetOrdering(S)
    BY DEF StrictSubsetOrdering, FiniteSubsetsOf
  <1>4. ASSUME NEW V \in T, V \subseteq U, V # U PROVE FALSE
    BY <1>2, <1>3, <1>4
  <1>5. QED
    BY <1>4

LEMMA IteratesOne ==
    ASSUME NEW f, NEW U, NEW V, NEW g, NEW h, Iterates(f, U, g), Iterates(f, V, h),
           NEW s, IsFiniteSet(s), s \subseteq U, s \subseteq V
    PROVE  g[s] = h[s]
  <1> DEFINE T == {t \in FiniteSubsetsOf(s) : g[t] # h[t]}
  <1>1. ASSUME T # {} PROVE FALSE
    <2>1. PICK t \in T : \A r \in T : ~(r \subseteq t /\ r # t)
      <3>1. T \subseteq FiniteSubsetsOf(s)
        OBVIOUS
      <3> HIDE DEF T
      <3>2. QED
        BY <1>1, <3>1, Smallest
    <2>2. t \in SUBSET U /\ t \in SUBSET V /\ t \subseteq s /\ IsFiniteSet(t)
      BY DEF FiniteSubsetsOf
    <2>3. g[t] = IF t = {} THEN 0 ELSE f[Choice(t)] + g[t \ {Choice(t)}]
      BY <2>2 DEF Iterates
    <2>4. h[t] = IF t = {} THEN 0 ELSE f[Choice(t)] + h[t \ {Choice(t)}]
      BY <2>2 DEF Iterates
    <2>5. CASE t = {}
      BY <2>3, <2>4, <2>5
    <2>6. CASE t # {}
      <3>1. t \ {Choice(t)} \in FiniteSubsetsOf(s)
        BY <2>2, FS_RemoveElement DEF FiniteSubsetsOf
      <3>2. t \ {Choice(t)} # t
        BY <2>6, ChoiceIn
      <3>3. g[t \ {Choice(t)}] = h[t \ {Choice(t)}]
        BY <2>1, <3>1, <3>2
      <3>4. QED
        BY <2>3, <2>4, <2>6, <3>3
    <2>7. QED
      BY <2>5, <2>6
  <1>2. s \in FiniteSubsetsOf(s)
    BY DEF FiniteSubsetsOf
  <1>3. QED
    BY <1>1, <1>2

LEMMA IteratesSome ==
    ASSUME NEW f, NEW S, IsFiniteSet(S) PROVE \E g : Iterates(f, S, g)
  <1> DEFINE T == {U \in FiniteSubsetsOf(S) : ~\E g : Iterates(f, U, g)}
  <1>1. ASSUME T # {} PROVE FALSE
    <2>1. PICK U \in T : \A V \in T : ~(V \subseteq U /\ V # U)
      <3>1. T \subseteq FiniteSubsetsOf(S)
        OBVIOUS
      <3> HIDE DEF T
      <3>2. QED
        BY <1>1, <3>1, Smallest
    <2>2. U \subseteq S /\ IsFiniteSet(U)
      BY DEF FiniteSubsetsOf
    <2> DEFINE G(V) == CHOOSE g : Iterates(f, V, g)
    <2>3. ASSUME NEW V, V \subseteq U, V # U PROVE Iterates(f, V, G(V))
      <3>1. V \in FiniteSubsetsOf(S)
        BY <2>2, <2>3, FS_Subset DEF FiniteSubsetsOf
      <3>2. \E g : Iterates(f, V, g)
        BY <2>1, <2>3, <3>1
      <3>3. QED
        BY <3>2
    <2> DEFINE v(s) == IF s = {} THEN 0 ELSE f[Choice(s)] + G(s \ {Choice(s)})[s \ {Choice(s)}]
               h == [s \in SUBSET U |-> v(s)]
    <2>4. ASSUME NEW V, V \subseteq U, V # U PROVE h[V] = G(V)[V]
      <3>1. CASE V = {}
        <4>1. Iterates(f, V, G(V))
          BY <2>3, <2>4
        <4>2. G(V)[V] = 0
          <5> HIDE DEF G
          <5>1. QED
            BY <3>1, <4>1 DEF Iterates
        <4>3. h[V] = 0
          BY <2>4, <3>1
        <4>4. QED
          BY <4>2, <4>3
      <3>2. CASE V # {}
        <4> DEFINE W == V \ {Choice(V)}
        <4>1. W \subseteq V /\ W # V /\ W # U /\ IsFiniteSet(W)
          <5>1. Choice(V) \in V
            BY <3>2, ChoiceIn
          <5>2. IsFiniteSet(V)
            BY <2>2, <2>4, FS_Subset
          <5>3. QED
            BY <2>4, <5>1, <5>2, FS_RemoveElement
        <4>2. Iterates(f, V, G(V)) /\ Iterates(f, W, G(W))
          BY <2>3, <2>4, <4>1
        <4>3. G(V)[W] = G(W)[W]
          <5> HIDE DEF G, W
          <5>1. QED
            BY <4>1, <4>2, IteratesOne
        <4>4. G(V)[V] = f[Choice(V)] + G(V)[W]
          BY <3>2, <4>2 DEF Iterates
        <4>5. h[V] = f[Choice(V)] + G(W)[W]
          BY <2>4, <3>2
        <4>6. QED
          BY <4>3, <4>4, <4>5
      <3>3. QED
        BY <3>1, <3>2
    <2>5. ASSUME NEW s \in SUBSET U
          PROVE  v(s) = IF s = {} THEN 0 ELSE f[Choice(s)] + h[s \ {Choice(s)}]
      <3>1. CASE s = {}
        BY <3>1
      <3>2. CASE s # {}
        <4>1. s \ {Choice(s)} \subseteq U /\ s \ {Choice(s)} # U
          BY <3>2, ChoiceIn
        <4>2. h[s \ {Choice(s)}] = G(s \ {Choice(s)})[s \ {Choice(s)}]
          BY <2>4, <4>1
        <4>3. QED
          BY <3>2, <4>2
      <3>3. QED
        BY <3>1, <3>2
    <2>6. Iterates(f, U, h)
      <3>1. h = [s \in SUBSET U |-> v(s)]
        OBVIOUS
      <3> HIDE DEF h, v
      <3>2. QED
        BY <2>5, <3>1 DEF Iterates
    <2>7. QED
      BY <2>1, <2>6
  <1>2. S \in FiniteSubsetsOf(S)
    BY DEF FiniteSubsetsOf
  <1>3. QED
    BY <1>1, <1>2

LEMMA SumIterates ==
    ASSUME NEW f, NEW S, IsFiniteSet(S)
    PROVE  \E g : Iterates(f, S, g) /\ SumOver(f, S) = g[S]
  <1> DEFINE it == CHOOSE g : Iterates(f, S, g)
  <1>1. Iterates(f, S, it)
    BY IteratesSome
  <1>2. SumOver(f, S) = it[S]
    BY DEF SumOver, FoldFunctionOnSet, MapThenFoldSet, Iterates, Choice
  <1>3. QED
    BY <1>1, <1>2

LEMMA SumUnfold ==
    ASSUME NEW f, NEW S, IsFiniteSet(S)
    PROVE  /\ S = {} => SumOver(f, S) = 0
           /\ S # {} => SumOver(f, S) = f[Choice(S)] + SumOver(f, S \ {Choice(S)})
  <1>1. PICK g : Iterates(f, S, g) /\ SumOver(f, S) = g[S]
    BY SumIterates
  <1>2. g[S] = IF S = {} THEN 0 ELSE f[Choice(S)] + g[S \ {Choice(S)}]
    BY <1>1 DEF Iterates
  <1>3. ASSUME S # {} PROVE g[S \ {Choice(S)}] = SumOver(f, S \ {Choice(S)})
    <2> DEFINE R == S \ {Choice(S)}
    <2>1. IsFiniteSet(R) /\ R \subseteq S
      BY FS_RemoveElement
    <2>2. PICK h : Iterates(f, R, h) /\ SumOver(f, R) = h[R]
      BY <2>1, SumIterates
    <2>3. g[R] = h[R]
      BY <1>1, <2>1, <2>2, IteratesOne
    <2>4. QED
      BY <2>2, <2>3
  <1>4. QED
    BY <1>1, <1>2, <1>3

LEMMA SumNat ==
    ASSUME NEW f, NEW S, IsFiniteSet(S), \A x \in S : f[x] \in Nat
    PROVE  SumOver(f, S) \in Nat
  <1> DEFINE T == {U \in FiniteSubsetsOf(S) : SumOver(f, U) \notin Nat}
  <1>1. ASSUME T # {} PROVE FALSE
    <2>1. PICK U \in T : \A V \in T : ~(V \subseteq U /\ V # U)
      <3>1. T \subseteq FiniteSubsetsOf(S)
        OBVIOUS
      <3> HIDE DEF T
      <3>2. QED
        BY <1>1, <3>1, Smallest
    <2>2. U \subseteq S /\ IsFiniteSet(U) /\ SumOver(f, U) \notin Nat
      BY DEF FiniteSubsetsOf
    <2>3. U # {}
      <3>1. ASSUME U = {} PROVE SumOver(f, U) = 0
        BY <2>2, <3>1, SumUnfold
      <3>2. QED
        BY <2>2, <3>1
    <2>4. Choice(U) \in U /\ U \ {Choice(U)} \in FiniteSubsetsOf(S)
      BY <2>2, <2>3, ChoiceIn, FS_RemoveElement DEF FiniteSubsetsOf
    <2>5. SumOver(f, U \ {Choice(U)}) \in Nat
      BY <2>1, <2>4
    <2>6. SumOver(f, U) = f[Choice(U)] + SumOver(f, U \ {Choice(U)})
      BY <2>2, <2>3, SumUnfold
    <2>7. QED
      BY <2>2, <2>4, <2>5, <2>6
  <1>2. S \in FiniteSubsetsOf(S)
    BY DEF FiniteSubsetsOf
  <1>3. QED
    BY <1>1, <1>2

LEMMA SumOfNat ==
    ASSUME NEW f, IsFiniteSet(DOMAIN f), \A x \in DOMAIN f : f[x] \in Nat
    PROVE  SumOf(f) \in Nat
  <1>1. SumOf(f) = SumOver(f, DOMAIN f)
    BY DEF SumOf, FoldFunction, SumOver
  <1>2. QED
    BY <1>1, SumNat

\* Induction over the subsets of a finite set, and over the naturals, for the
\* set of those that a statement holds of.
LEMMA SubsetInduction ==
    ASSUME NEW S, IsFiniteSet(S), NEW I, {} \in I,
           \A U \in SUBSET S : \A x \in U : U \ {x} \in I => U \in I
    PROVE  S \in I
  <1> DEFINE T == {U \in FiniteSubsetsOf(S) : U \notin I}
  <1>1. ASSUME T # {} PROVE FALSE
    <2>1. PICK U \in T : \A V \in T : ~(V \subseteq U /\ V # U)
      <3>1. T \subseteq FiniteSubsetsOf(S)
        OBVIOUS
      <3> HIDE DEF T
      <3>2. QED
        BY <1>1, <3>1, Smallest
    <2>2. U \subseteq S /\ IsFiniteSet(U) /\ U \notin I
      BY DEF FiniteSubsetsOf
    <2>3. PICK x \in U : TRUE
      BY <2>2
    <2>4. U \ {x} \in FiniteSubsetsOf(S)
      BY <2>2, FS_RemoveElement DEF FiniteSubsetsOf
    <2>5. QED
      BY <2>1, <2>2, <2>3, <2>4
  <1>2. S \in FiniteSubsetsOf(S)
    BY DEF FiniteSubsetsOf
  <1>3. QED
    BY <1>1, <1>2

LEMMA NatsInduction ==
    ASSUME NEW I, 0 \in I, \A n \in Nat : n \in I => n + 1 \in I
    PROVE  \A n \in Nat : n \in I
  <1> SUFFICES ASSUME NEW m \in Nat PROVE m \in I
    OBVIOUS
  <1> DEFINE T == {0 .. n : n \in {k \in 0 .. m : k \notin I}}
  <1>1. ASSUME T # {} PROVE FALSE
    <2>1. PICK U \in T : \A V \in T : ~(V \subseteq U /\ V # U)
      <3>1. \A n \in 0 .. m : 0 .. n \in FiniteSubsetsOf(0 .. m)
        BY FS_Interval DEF FiniteSubsetsOf
      <3>2. T \subseteq FiniteSubsetsOf(0 .. m)
        BY <3>1
      <3> HIDE DEF T
      <3>3. QED
        BY <1>1, <3>2, Smallest
    <2>2. PICK n \in 0 .. m : U = 0 .. n /\ n \notin I
      OBVIOUS
    <2>3. n - 1 \in 0 .. m /\ n - 1 \notin I
      BY <2>2
    <2>4. 0 .. (n - 1) \in T
      BY <2>3
    <2>5. 0 .. (n - 1) \subseteq U /\ n \in U /\ n \notin 0 .. (n - 1)
      BY <2>2
    <2>6. QED
      BY <2>1, <2>4, <2>5
  <1>2. m \notin I => 0 .. m \in T
    OBVIOUS
  <1>3. QED
    BY <1>1, <1>2

LEMMA SumEmpty == ASSUME NEW f PROVE SumOver(f, {}) = 0
  BY SumUnfold, FS_EmptySet

\* An element may be taken out of a sum.
LEMMA SumAny ==
    ASSUME NEW f, NEW S, IsFiniteSet(S), \A x \in S : f[x] \in Nat, NEW z \in S
    PROVE  SumOver(f, S) = f[z] + SumOver(f, S \ {z})
  <1> DEFINE T == {U \in FiniteSubsetsOf(S) :
                      \E y \in U : SumOver(f, U) # f[y] + SumOver(f, U \ {y})}
  <1>1. ASSUME T # {} PROVE FALSE
    <2>1. PICK U \in T : \A V \in T : ~(V \subseteq U /\ V # U)
      <3>1. T \subseteq FiniteSubsetsOf(S)
        OBVIOUS
      <3> HIDE DEF T
      <3>2. QED
        BY <1>1, <3>1, Smallest
    <2>2. PICK y \in U : SumOver(f, U) # f[y] + SumOver(f, U \ {y})
      OBVIOUS
    <2> DEFINE c == Choice(U)
               W == (U \ {c}) \ {y}
    <2>3. U \subseteq S /\ IsFiniteSet(U) /\ c \in U
      BY ChoiceIn DEF FiniteSubsetsOf
    <2>4. SumOver(f, U) = f[c] + SumOver(f, U \ {c})
      BY <2>3, SumUnfold
    <2>5. c # y
      BY <2>2, <2>4
    <2>6. ASSUME NEW u \in U
          PROVE  /\ U \ {u} \in FiniteSubsetsOf(S) /\ U \ {u} \notin T
                 /\ \A v \in U \ {u} :
                       SumOver(f, U \ {u}) = f[v] + SumOver(f, (U \ {u}) \ {v})
      <3>1. U \ {u} \in FiniteSubsetsOf(S)
        BY <2>3, FS_RemoveElement DEF FiniteSubsetsOf
      <3>2. U \ {u} \notin T
        BY <2>1
      <3>3. QED
        BY <3>1, <3>2
    <2>7. SumOver(f, U \ {c}) = f[y] + SumOver(f, W)
      BY <2>3, <2>5, <2>6
    <2>8. SumOver(f, U \ {y}) = f[c] + SumOver(f, W)
      <3>1. c \in U \ {y}
        BY <2>3, <2>5
      <3>2. SumOver(f, U \ {y}) = f[c] + SumOver(f, (U \ {y}) \ {c})
        BY <2>6, <3>1
      <3>3. (U \ {y}) \ {c} = W
        OBVIOUS
      <3>4. QED
        BY <3>2, <3>3
    <2>9. SumOver(f, W) \in Nat /\ f[c] \in Nat /\ f[y] \in Nat
      <3>1. IsFiniteSet(W) /\ \A x \in W : f[x] \in Nat
        BY <2>3, FS_RemoveElement
      <3> HIDE DEF W
      <3>2. QED
        BY <2>3, <3>1, SumNat
    <2>10. QED
      BY <2>2, <2>4, <2>7, <2>8, <2>9
  <1>2. S \in FiniteSubsetsOf(S)
    BY DEF FiniteSubsetsOf
  <1>3. QED
    BY <1>1, <1>2

\* A sum is of the values in the set.
LEMMA SumSame ==
    ASSUME NEW f, NEW g, NEW S, IsFiniteSet(S),
           \A x \in S : f[x] = g[x] /\ f[x] \in Nat
    PROVE  SumOver(f, S) = SumOver(g, S)
  <1> DEFINE I == {U \in SUBSET S : SumOver(f, U) = SumOver(g, U)}
  <1>1. {} \in I
    BY SumEmpty
  <1>2. ASSUME NEW U \in SUBSET S, NEW x \in U, U \ {x} \in I PROVE U \in I
    <2>1. IsFiniteSet(U)
      BY FS_Subset
    <2>2. SumOver(f, U) = f[x] + SumOver(f, U \ {x})
      BY <2>1, SumAny
    <2>3. SumOver(g, U) = g[x] + SumOver(g, U \ {x})
      BY <2>1, SumAny
    <2>4. QED
      BY <1>2, <2>2, <2>3
  <1> HIDE DEF I
  <1>3. S \in I
    BY <1>1, <1>2, SubsetInduction
  <1>4. QED
    BY <1>3 DEF I

\* Sums add up.
LEMMA SumPlus ==
    ASSUME NEW f, NEW g, NEW h, NEW S, IsFiniteSet(S),
           \A x \in S : f[x] \in Nat /\ g[x] \in Nat /\ h[x] = f[x] + g[x]
    PROVE  SumOver(h, S) = SumOver(f, S) + SumOver(g, S)
  <1> DEFINE I == {U \in SUBSET S : SumOver(h, U) = SumOver(f, U) + SumOver(g, U)}
  <1>1. {} \in I
    BY SumEmpty
  <1>2. ASSUME NEW U \in SUBSET S, NEW x \in U, U \ {x} \in I PROVE U \in I
    <2>1. IsFiniteSet(U) /\ IsFiniteSet(U \ {x})
      BY FS_Subset
    <2>2. SumOver(f, U) = f[x] + SumOver(f, U \ {x})
      BY <2>1, SumAny
    <2>3. SumOver(g, U) = g[x] + SumOver(g, U \ {x})
      BY <2>1, SumAny
    <2>4. SumOver(h, U) = h[x] + SumOver(h, U \ {x})
      <3>1. \A y \in U : h[y] \in Nat
        OBVIOUS
      <3>2. QED
        BY <2>1, <3>1, SumAny
    <2>5. SumOver(f, U \ {x}) \in Nat /\ SumOver(g, U \ {x}) \in Nat
      BY <2>1, SumNat
    <2>6. QED
      BY <1>2, <2>2, <2>3, <2>4, <2>5
  <1> HIDE DEF I
  <1>3. S \in I
    BY <1>1, <1>2, SubsetInduction
  <1>4. QED
    BY <1>3 DEF I

\* Smaller values have a smaller sum, and the same sum only if they are equal.
LEMMA SumLess ==
    ASSUME NEW f, NEW g, NEW S, IsFiniteSet(S),
           \A x \in S : f[x] \in Nat /\ g[x] \in Nat /\ f[x] <= g[x]
    PROVE  /\ SumOver(f, S) <= SumOver(g, S)
           /\ SumOver(f, S) = SumOver(g, S) => \A x \in S : f[x] = g[x]
  <1> DEFINE d == [x \in S |-> g[x] - f[x]]
  <1>1. \A x \in S : d[x] \in Nat /\ g[x] = f[x] + d[x]
    OBVIOUS
  <1> HIDE DEF d
  <1>2. SumOver(g, S) = SumOver(f, S) + SumOver(d, S)
    BY <1>1, SumPlus
  <1>3. SumOver(f, S) \in Nat /\ SumOver(d, S) \in Nat
    BY <1>1, SumNat
  <1>4. ASSUME SumOver(d, S) = 0, NEW x \in S PROVE d[x] = 0
    <2>1. SumOver(d, S) = d[x] + SumOver(d, S \ {x})
      BY <1>1, SumAny
    <2>2. IsFiniteSet(S \ {x})
      BY FS_RemoveElement
    <2>3. SumOver(d, S \ {x}) \in Nat
      BY <1>1, <2>2, SumNat
    <2>4. QED
      BY <1>1, <1>4, <2>1, <2>3
  <1>5. QED
    BY <1>1, <1>2, <1>3, <1>4

-----------------------------------------------------------------------------
(* How a receipt is spread over the lines of its order                      *)

LEMMA HasMax ==
    ASSUME NEW n \in Nat, NEW S \in SUBSET (0 .. n), S # {}
    PROVE  Max(S) \in S /\ \A x \in S : x <= Max(S)
  <1> DEFINE I == {m \in Nat : \A T \in SUBSET (0 .. m) :
                       T # {} => \E x \in T : \A y \in T : x >= y}
  <1>1. 0 \in I
    <2> SUFFICES ASSUME NEW T \in SUBSET (0 .. 0), T # {}
                 PROVE  \E x \in T : \A y \in T : x >= y
      OBVIOUS
    <2>1. \A y \in T : y = 0
      <3>1. \A y \in T : y \in 0 .. 0
        OBVIOUS
      <3>2. \A y \in 0 .. 0 : y = 0
        OBVIOUS
      <3>3. QED
        BY <3>1, <3>2
    <2>2. PICK y \in T : TRUE
      OBVIOUS
    <2>3. y >= y
      BY <2>1, <2>2
    <2>4. QED
      BY <2>1, <2>2, <2>3
  <1>2. ASSUME NEW m \in Nat, m \in I PROVE m + 1 \in I
    <2> SUFFICES ASSUME NEW T \in SUBSET (0 .. m + 1), T # {}
                 PROVE  \E x \in T : \A y \in T : x >= y
      OBVIOUS
    <2>1. CASE m + 1 \in T
      BY <2>1
    <2>2. CASE m + 1 \notin T
      <3>1. T \in SUBSET (0 .. m)
        BY <2>2
      <3>2. QED
        BY <1>2, <3>1
    <2>3. QED
      BY <2>1, <2>2
  <1> HIDE DEF I
  <1>3. n \in I
    BY <1>1, <1>2, NatsInduction
  <1>4. \E x \in S : \A y \in S : x >= y
    BY <1>3 DEF I
  <1>5. Max(S) \in S /\ \A y \in S : Max(S) >= y
    BY <1>4 DEF Max
  <1>6. QED
    BY <1>5

LEMMA LesserOf ==
    ASSUME NEW a \in Nat, NEW b \in Nat
    PROVE  Min({a, b}) = IF a <= b THEN a ELSE b
  <1>1. \E x \in {a, b} : \A y \in {a, b} : x <= y
    BY a <= b \/ b <= a
  <1>2. Min({a, b}) \in {a, b} /\ \A y \in {a, b} : Min({a, b}) <= y
    BY <1>1 DEF Min
  <1>3. QED
    BY <1>2

\* f is the recursive function over 0 .. n that starts at b and goes on by G.
IsTurn(D, n, G) == G \in [D \X (1 .. n) -> D]
IsLoop(D, b, n, G, f) ==
    /\ f \in [0 .. n -> D]
    /\ f[0] = b /\ \A i \in 1 .. n : f[i] = G[<<f[i - 1], i>>]

\* There is such a function.
LEMMA Recursion ==
    ASSUME NEW D, NEW b \in D, NEW n \in Nat, NEW G, IsTurn(D, n, G)
    PROVE  \E f : IsLoop(D, b, n, G, f)
  <1> DEFINE Solves(f, m) == f[0] = b /\ \A i \in 1 .. m : f[i] = G[<<f[i - 1], i>>]
             I == {m \in Nat : m <= n => \E f \in [0 .. m -> D] : Solves(f, m)}
  <1>0. G \in [D \X (1 .. n) -> D]
    BY DEF IsTurn
  <1>1. 0 \in I
    <2>1. [i \in 0 .. 0 |-> b] \in [0 .. 0 -> D] /\ Solves([i \in 0 .. 0 |-> b], 0)
      OBVIOUS
    <2>2. QED
      BY <2>1
  <1>2. ASSUME NEW m \in Nat, m \in I PROVE m + 1 \in I
    <2> SUFFICES ASSUME m + 1 <= n PROVE \E f \in [0 .. m + 1 -> D] : Solves(f, m + 1)
      OBVIOUS
    <2>1. PICK g \in [0 .. m -> D] : Solves(g, m)
      BY <1>2
    <2> DEFINE f == [i \in 0 .. m + 1 |-> IF i <= m THEN g[i] ELSE G[<<g[m], m + 1>>]]
    <2>2. G[<<g[m], m + 1>>] \in D
      <3>1. g[m] \in D /\ m + 1 \in 1 .. n
        OBVIOUS
      <3>2. QED
        BY <1>0, <3>1
    <2>3. f \in [0 .. m + 1 -> D]
      BY <2>2
    <2>4. /\ \A i \in 0 .. m : f[i] = g[i]
          /\ f[m + 1] = G[<<g[m], m + 1>>]
      OBVIOUS
    <2> HIDE DEF f
    <2>5. Solves(f, m + 1)
      <3>1. f[0] = b
        BY <2>1, <2>4
      <3>2. ASSUME NEW i \in 1 .. m + 1 PROVE f[i] = G[<<f[i - 1], i>>]
        <4>1. CASE i = m + 1
          BY <2>4, <4>1
        <4>2. CASE i # m + 1
          <5>1. i \in 1 .. m /\ i \in 0 .. m /\ i - 1 \in 0 .. m
            BY <4>2
          <5>2. QED
            BY <2>1, <2>4, <5>1
        <4>3. QED
          BY <4>1, <4>2
      <3>3. QED
        BY <3>1, <3>2
    <2>6. QED
      BY <2>3, <2>5
  <1> HIDE DEF I
  <1>3. n \in I
    BY <1>1, <1>2, NatsInduction
  <1>4. QED
    BY <1>3 DEF I, IsLoop

-----------------------------------------------------------------------------
\* Rows of an order: ids up to some number, nothing received beyond what was
\* ordered.
Tidy(rows) ==
    /\ \E n \in Nat : DOMAIN rows \subseteq 1 .. n
    /\ \A l \in DOMAIN rows : /\ rows[l].qty \in Nat /\ rows[l].received \in Nat
                              /\ rows[l].received <= rows[l].qty

Of(rows, p) == {l \in DOMAIN rows : rows[l].product = p}
Updates(rows) == [line : DOMAIN rows, received : Int]

\* left is what a plan leaves of the rows, updates is what it writes: oldest
\* rows first, one value for each row that it fills.
PlanOf(rows, left, updates) ==
    /\ left \in [DOMAIN rows -> Nat]
    /\ \A k \in DOMAIN rows : left[k] <= rows[k].qty - rows[k].received
    /\ \A k, l \in DOMAIN rows :
          k < l /\ rows[k].product = rows[l].product /\ left[l] < rows[l].qty
              => left[k] = 0
    /\ updates \in Seq(Updates(rows))
    /\ \A i, j \in DOMAIN updates : updates[i].line = updates[j].line => i = j
    /\ \A i \in DOMAIN updates :
          updates[i].received = rows[updates[i].line].qty - left[updates[i].line]
    /\ \A k \in DOMAIN rows :
          left[k] # rows[k].qty - rows[k].received =>
              \E i \in DOMAIN updates : updates[i].line = k

Spreads(rows) == [qty : Nat, left : [DOMAIN rows -> Nat], updates : Seq(Updates(rows))]

\* v is u with x put in it: places are kept, and there is one for its line.
Placed(U, u, x, v) ==
    /\ v \in Seq(U)
    /\ DOMAIN u \subseteq DOMAIN v
    /\ \A i \in DOMAIN u : v[i] = IF u[i].line = x.line THEN x ELSE u[i]
    /\ \A i \in DOMAIN v \ DOMAIN u :
          v[i] = x /\ \A j \in DOMAIN u : u[j].line # x.line
    /\ \A i, j \in DOMAIN v \ DOMAIN u : i = j
    /\ \E i \in DOMAIN v : v[i].line = x.line

LEMMA PutPlaces ==
    ASSUME NEW U, NEW u \in Seq(U), NEW x \in U
    PROVE  Placed(U, u, x, Put(u, x))
  <1> SUFFICES ASSUME NEW v, v = Put(u, x) PROVE Placed(U, u, x, v)
    OBVIOUS
  <1>1. CASE \E i \in DOMAIN u : u[i].line = x.line
    <2>1. v = [i \in DOMAIN u |-> IF u[i].line = x.line THEN x ELSE u[i]]
      BY <1>1 DEF Put
    <2>2. v \in Seq(U) /\ DOMAIN v = DOMAIN u
      BY <2>1
    <2>3. QED
      BY <1>1, <2>1, <2>2 DEF Placed
  <1>2. CASE ~\E i \in DOMAIN u : u[i].line = x.line
    <2>1. v = Append(u, x)
      BY <1>2 DEF Put
    <2>2. /\ v \in Seq(U) /\ DOMAIN v = DOMAIN u \cup {Len(u) + 1}
          /\ v[Len(u) + 1] = x /\ \A i \in DOMAIN u : v[i] = u[i]
      BY <2>1
    <2>3. QED
      BY <1>2, <2>2 DEF Placed
  <1>3. QED
    BY <1>1, <1>2

\* e writes in row l what d does not leave of it.
Fills(rows, d, l, e) ==
    Placed(Updates(rows), d.updates, [line |-> l, received |-> rows[l].qty - e.left[l]],
           e.updates)

\* A turn takes units of its row only, as many as there are to take.
LEMMA TakeUnits ==
    ASSUME NEW rows, Tidy(rows), NEW d \in Spreads(rows), NEW l \in DOMAIN rows,
           NEW e, e = Take(rows, d, l)
    PROVE  /\ e \in Spreads(rows)
           /\ \A k \in DOMAIN rows \ {l} : e.left[k] = d.left[k]
           /\ d.left[l] + e.qty = e.left[l] + d.qty
           /\ e.qty # 0 => e.left[l] = 0
           /\ e.qty <= d.qty
           /\ \/ e = d
              \/ d.qty # 0 /\ e.left[l] < d.left[l] /\ Fills(rows, d, l, e)
  <1>1. /\ d.qty \in Nat /\ d.left \in [DOMAIN rows -> Nat] /\ d.left[l] \in Nat
        /\ d.updates \in Seq(Updates(rows))
        /\ \A k \in DOMAIN rows : /\ k \in Nat /\ d.left[k] \in Nat /\ rows[k].qty \in Nat
                                  /\ rows[k].received \in Nat
    BY DEF Spreads, Tidy
  <1>2. CASE d.qty = 0 \/ d.left[l] = 0
    <2>1. Take(rows, d, l) = d
      BY <1>1, <1>2 DEF Take
    <2>2. QED
      BY <1>1, <1>2, <2>1
  <1>3. CASE d.qty # 0 /\ d.left[l] # 0
    <2> DEFINE n == Min({d.left[l], d.qty})
               rest == d.left[l] - n
               x == [line |-> l, received |-> rows[l].qty - rest]
               left == [d.left EXCEPT ![l] = rest]
               updates == Put(d.updates, x)
    <2>0. n = IF d.left[l] <= d.qty THEN d.left[l] ELSE d.qty
      BY <1>1, LesserOf, Zenon
    <2>1. /\ n \in Nat /\ n # 0 /\ n <= d.left[l] /\ n <= d.qty
          /\ (n = d.left[l] \/ n = d.qty)
      BY <1>1, <1>3, <2>0
    <2> HIDE DEF n
    <2>2. e = [qty |-> d.qty - n, left |-> left, updates |-> updates]
      BY <1>1, <1>3 DEF Take, n
    <2>3. /\ rest \in Nat /\ rest < d.left[l] /\ x \in Updates(rows)
          /\ left \in [DOMAIN rows -> Nat] /\ left[l] = rest
          /\ \A k \in DOMAIN rows \ {l} : left[k] = d.left[k]
          /\ \A k \in DOMAIN rows : left[k] <= d.left[k]
      BY <1>1, <2>1 DEF Updates
    <2> HIDE DEF left, rest
    <2>4. x.line = l /\ x.received = rows[l].qty - left[l]
      BY <2>3
    <2> HIDE DEF x
    <2>11. Placed(Updates(rows), d.updates, x, updates)
      BY <1>1, <2>3, PutPlaces, Zenon
    <2>5. updates \in Seq(Updates(rows))
      BY <2>11 DEF Placed
    <2> HIDE DEF updates
    <2>6. e.qty = d.qty - n /\ e.left = left /\ e.updates = updates
      BY <2>2
    <2>7. e \in Spreads(rows)
      BY <1>1, <2>1, <2>2, <2>3, <2>5 DEF Spreads
    <2>8. left[l] = d.left[l] - n
      BY <2>3 DEF rest
    <2>9. x = [line |-> l, received |-> rows[l].qty - e.left[l]]
      BY <2>6, <2>3 DEF x
    <2> HIDE DEF left
    <2>10. /\ e.qty <= d.qty
           /\ d.left[l] + e.qty = e.left[l] + d.qty
           /\ e.qty # 0 => e.left[l] = 0
           /\ d.qty # 0 /\ e.left[l] < d.left[l]
      BY <1>1, <1>3, <2>1, <2>3, <2>6, <2>8
    <2>12. \A k \in DOMAIN rows \ {l} : e.left[k] = d.left[k]
      BY <2>3, <2>6
    <2>13. Fills(rows, d, l, e)
      BY <2>6, <2>9, <2>11 DEF Fills
    <2>14. QED
      BY <2>7, <2>10, <2>12, <2>13, <1>3
  <1>4. QED
    BY <1>2, <1>3

\* It keeps a plan a plan, provided the older rows of the product are full.
LEMMA TakeStep ==
    ASSUME NEW rows, Tidy(rows), NEW d \in Spreads(rows), NEW l \in DOMAIN rows,
           PlanOf(rows, d.left, d.updates),
           d.qty # 0 => \A k \in DOMAIN rows :
                            k < l /\ rows[k].product = rows[l].product => d.left[k] = 0,
           NEW e, e = Take(rows, d, l)
    PROVE  PlanOf(rows, e.left, e.updates)
  <1> DEFINE left == e.left
             updates == e.updates
             x == [line |-> l, received |-> rows[l].qty - left[l]]
  <1>1. /\ d.left \in [DOMAIN rows -> Nat] /\ d.left[l] \in Nat
        /\ d.updates \in Seq(Updates(rows))
        /\ \A k \in DOMAIN rows : /\ k \in Nat /\ d.left[k] \in Nat /\ rows[k].qty \in Nat
                                  /\ rows[k].received \in Nat
    BY DEF Spreads, Tidy
  <1>2. CASE e = d
    BY <1>2
  <1>3. CASE e # d
    <2>1. /\ e \in Spreads(rows) /\ d.qty # 0 /\ left[l] < d.left[l]
          /\ \A k \in DOMAIN rows \ {l} : left[k] = d.left[k]
          /\ Fills(rows, d, l, e)
      BY <1>3, TakeUnits
    <2>8. Placed(Updates(rows), d.updates, x, updates)
      BY <2>1 DEF Fills
    <2>2. left \in [DOMAIN rows -> Nat]
      BY <2>1 DEF Spreads
    <2> HIDE DEF left, updates
    <2>3. /\ left \in [DOMAIN rows -> Nat] /\ d.qty # 0
          /\ \A k \in DOMAIN rows \ {l} : left[k] = d.left[k]
          /\ left[l] < d.left[l]
          /\ \A k \in DOMAIN rows : left[k] <= d.left[k]
      BY <1>1, <2>1, <2>2
    <2>4. x.line = l /\ x.received = rows[l].qty - left[l]
      OBVIOUS
    <2> HIDE DEF x
    <2>5. /\ updates \in Seq(Updates(rows))
          /\ DOMAIN d.updates \subseteq DOMAIN updates
          /\ \A i \in DOMAIN d.updates :
                updates[i] = IF d.updates[i].line = x.line THEN x ELSE d.updates[i]
          /\ \A i \in DOMAIN updates \ DOMAIN d.updates :
                updates[i] = x /\ \A j \in DOMAIN d.updates : d.updates[j].line # x.line
          /\ \A i, j \in DOMAIN updates \ DOMAIN d.updates : i = j
          /\ \E i \in DOMAIN updates : updates[i].line = x.line
      BY <2>8 DEF Placed
    <2>6. PlanOf(rows, left, updates)
      <3>1. \A k \in DOMAIN rows : left[k] <= rows[k].qty - rows[k].received
        <4> TAKE k \in DOMAIN rows
        <4>1. d.left[k] <= rows[k].qty - rows[k].received /\ left[k] <= d.left[k]
              /\ left[k] \in Nat
          BY <2>3 DEF PlanOf
        <4>2. QED
          BY <1>1, <4>1
      <3>2. ASSUME NEW k \in DOMAIN rows, NEW m \in DOMAIN rows, k < m,
                   rows[k].product = rows[m].product, left[m] < rows[m].qty
            PROVE  left[k] = 0
        <4>1. CASE m = l
          BY <2>3, <3>2, <4>1
        <4>2. CASE m # l
          <5>1. d.left[k] = 0
            BY <2>3, <3>2, <4>2 DEF PlanOf
          <5>2. QED
            BY <1>1, <2>3, <5>1
        <4>3. QED
          BY <4>1, <4>2
      <3>3. ASSUME NEW i \in DOMAIN updates, NEW j \in DOMAIN updates,
                   updates[i].line = updates[j].line
            PROVE  i = j
        <4>1. /\ i \in DOMAIN d.updates => updates[i].line = d.updates[i].line
              /\ j \in DOMAIN d.updates => updates[j].line = d.updates[j].line
          BY <2>5
        <4>2. CASE i \in DOMAIN d.updates /\ j \in DOMAIN d.updates
          BY <3>3, <4>1, <4>2 DEF PlanOf
        <4>3. CASE i \notin DOMAIN d.updates \/ j \notin DOMAIN d.updates
          BY <2>5, <3>3, <4>1, <4>3
        <4>4. QED
          BY <4>2, <4>3
      <3>4. ASSUME NEW i \in DOMAIN updates
            PROVE  updates[i].received = rows[updates[i].line].qty - left[updates[i].line]
        <4>1. CASE updates[i] = x
          BY <2>4, <4>1
        <4>2. CASE updates[i] # x
          <5>1. /\ i \in DOMAIN d.updates /\ updates[i] = d.updates[i]
                /\ d.updates[i].line # l
            BY <2>4, <2>5, <4>2
          <5>0. d.updates[i] \in Updates(rows)
            BY <1>1, <5>1
          <5>2. d.updates[i].line \in DOMAIN rows
            BY <5>0 DEF Updates
          <5>3. QED
            BY <2>3, <5>1, <5>2 DEF PlanOf
        <4>3. QED
          BY <4>1, <4>2
      <3>5. ASSUME NEW k \in DOMAIN rows, left[k] # rows[k].qty - rows[k].received
            PROVE  \E i \in DOMAIN updates : updates[i].line = k
        <4>1. CASE k = l
          BY <2>4, <2>5, <4>1
        <4>2. CASE k # l
          <5>1. PICK i \in DOMAIN d.updates : d.updates[i].line = k
            BY <2>3, <3>5, <4>2 DEF PlanOf
          <5>2. QED
            BY <2>4, <2>5, <4>2, <5>1
        <4>3. QED
          BY <4>1, <4>2
      <3>6. QED
        BY <2>3, <2>5, <3>1, <3>2, <3>3, <3>4, <3>5 DEF PlanOf
    <2>7. QED
      BY <2>6 DEF left, updates
  <1>4. QED
    BY <1>2, <1>3

-----------------------------------------------------------------------------
(* What a receipt leaves of each line, and what is to be written *)

LEMMA TheOne == ASSUME NEW x PROVE The({x}) = x
  BY DEF The

\* A sum changes by what one value changes.
LEMMA SumChange ==
    ASSUME NEW f, NEW g, NEW S, IsFiniteSet(S), NEW z \in S,
           \A x \in S : f[x] \in Nat /\ g[x] \in Nat,
           \A x \in S \ {z} : g[x] = f[x]
    PROVE  SumOver(g, S) + f[z] = SumOver(f, S) + g[z]
  <1>1. IsFiniteSet(S \ {z})
    BY FS_RemoveElement
  <1>2. SumOver(f, S) = f[z] + SumOver(f, S \ {z})
    BY SumAny
  <1>3. SumOver(g, S) = g[z] + SumOver(g, S \ {z})
    BY SumAny
  <1>4. SumOver(f, S \ {z}) = SumOver(g, S \ {z})
    BY <1>1, SumSame
  <1>5. SumOver(f, S \ {z}) \in Nat
    BY <1>1, SumNat
  <1>6. QED
    BY <1>2, <1>3, <1>4, <1>5

LEMMA RowsFinite ==
    ASSUME NEW rows, Tidy(rows)
    PROVE  /\ LastLine(rows) \in Nat
           /\ \A l \in DOMAIN rows : l \in 1 .. LastLine(rows)
           /\ IsFiniteSet(DOMAIN rows) /\ \A p : IsFiniteSet(Of(rows, p))
  <1>1. PICK n \in Nat : DOMAIN rows \subseteq 1 .. n
    BY DEF Tidy
  <1>2. DOMAIN rows \cup {0} \in SUBSET (0 .. n)
    BY <1>1
  <1>3. LastLine(rows) \in DOMAIN rows \cup {0}
        /\ \A l \in DOMAIN rows \cup {0} : l <= LastLine(rows)
    BY <1>2, HasMax DEF LastLine
  <1>4. IsFiniteSet(DOMAIN rows)
    <2>1. IsFiniteSet(1 .. n)
      BY FS_Interval
    <2>2. QED
      BY <1>1, <2>1, FS_Subset
  <1>5. \A p : Of(rows, p) \subseteq DOMAIN rows
    BY DEF Of
  <1>6. QED
    BY <1>1, <1>3, <1>4, <1>5, FS_Subset

\* One turn of the loop over the rows.
Visit(rows, product, d, l) ==
    IF l \in DOMAIN rows /\ rows[l].product = product THEN Take(rows, d, l) ELSE d

\* Units of product p in a receipt line.
Units(r, p) == IF r.product = p THEN r.qty ELSE 0

\* What the loop has done by row n.
Spreading(rows, s, r, d, n) ==
    /\ d \in Spreads(rows) /\ PlanOf(rows, d.left, d.updates)
    /\ d.qty # 0 => \A k \in DOMAIN rows :
           k <= n /\ rows[k].product = r.product => d.left[k] = 0
    /\ \A p : SumOver(d.left, Of(rows, p)) + Units(r, p)
                = SumOver(s.left, Of(rows, p)) + (IF r.product = p THEN d.qty ELSE 0)
    /\ \A k \in DOMAIN rows : d.left[k] <= s.left[k]
    /\ SumOver(d.left, DOMAIN rows) + r.qty = SumOver(s.left, DOMAIN rows) + d.qty

LEMMA VisitStep ==
    ASSUME NEW rows, Tidy(rows), NEW s, s.left \in [DOMAIN rows -> Nat],
           NEW r, r.qty \in Nat, NEW d, NEW l \in Nat \ {0},
           Spreading(rows, s, r, d, l - 1), NEW e, e = Visit(rows, r.product, d, l)
    PROVE  Spreading(rows, s, r, e, l)
  <1>1. /\ d \in Spreads(rows) /\ PlanOf(rows, d.left, d.updates)
        /\ d.qty \in Nat /\ d.left \in [DOMAIN rows -> Nat]
        /\ DOMAIN rows \subseteq Nat
    BY DEF Spreading, Spreads, Tidy
  <1>2. CASE ~(l \in DOMAIN rows /\ rows[l].product = r.product)
    <2>1. e = d
      BY <1>2 DEF Visit
    <2>2. \A k \in DOMAIN rows : k <= l /\ rows[k].product = r.product => k <= l - 1
      BY <1>1, <1>2
    <2>3. QED
      BY <2>1, <2>2 DEF Spreading
  <1>3. CASE l \in DOMAIN rows /\ rows[l].product = r.product
    <2>1. e = Take(rows, d, l)
      BY <1>3 DEF Visit
    <2>2. /\ e \in Spreads(rows)
          /\ \A k \in DOMAIN rows \ {l} : e.left[k] = d.left[k]
          /\ d.left[l] + e.qty = e.left[l] + d.qty
          /\ e.qty # 0 => e.left[l] = 0
          /\ e.qty <= d.qty
      BY <1>1, <1>3, <2>1, TakeUnits
    <2>3. PlanOf(rows, e.left, e.updates)
      <3>1. d.qty # 0 => \A k \in DOMAIN rows :
                k < l /\ rows[k].product = rows[l].product => d.left[k] = 0
        BY <1>1, <1>3 DEF Spreading
      <3>2. QED
        BY <1>1, <1>3, <2>1, <3>1, TakeStep
    <2>4. e.qty # 0 => \A k \in DOMAIN rows :
              k <= l /\ rows[k].product = r.product => e.left[k] = 0
      <3> SUFFICES ASSUME e.qty # 0, NEW k \in DOMAIN rows, k <= l,
                          rows[k].product = r.product
                   PROVE  e.left[k] = 0
        OBVIOUS
      <3>1. CASE k = l
        BY <2>2, <3>1
      <3>2. CASE k # l
        <4>0. d.qty # 0 /\ k <= l - 1
          <5>1. e.qty \in Nat /\ k \in Nat
            BY <1>1, <2>2 DEF Spreads
          <5>2. d.qty # 0
            BY <1>1, <2>2, <5>1
          <5>3. k <= l - 1
            BY <3>2, <5>1
          <5>4. QED
            BY <5>2, <5>3
        <4>1. d.left[k] = 0
          BY <4>0 DEF Spreading
        <4>2. QED
          BY <2>2, <3>2, <4>1
      <3>3. QED
        BY <3>1, <3>2
    <2>5. ASSUME NEW p
          PROVE  SumOver(e.left, Of(rows, p)) + Units(r, p)
                   = SumOver(s.left, Of(rows, p)) + (IF r.product = p THEN e.qty ELSE 0)
      <3> DEFINE S == Of(rows, p)
      <3>1. /\ IsFiniteSet(S) /\ S \subseteq DOMAIN rows
            /\ \A x \in S : d.left[x] \in Nat /\ e.left[x] \in Nat /\ s.left[x] \in Nat
        BY <1>1, <2>2, RowsFinite DEF Of, Spreads
      <3>2. SumOver(d.left, S) + Units(r, p)
              = SumOver(s.left, S) + (IF r.product = p THEN d.qty ELSE 0)
        BY DEF Spreading
      <3>3. SumOver(d.left, S) \in Nat /\ SumOver(e.left, S) \in Nat /\ SumOver(s.left, S) \in Nat
        <4> HIDE DEF S
        <4>1. QED
          BY <3>1, SumNat
      <3>4. CASE r.product = p
        <4>1. l \in S
          BY <1>3, <3>4 DEF Of
        <4>2. SumOver(e.left, S) + d.left[l] = SumOver(d.left, S) + e.left[l]
          <5> HIDE DEF S
          <5>1. QED
            BY <2>2, <3>1, <4>1, SumChange
        <4>3. d.left[l] \in Nat /\ e.left[l] \in Nat /\ e.qty \in Nat
          BY <2>2, <3>1, <4>1 DEF Spreads
        <4>4. QED
          BY <1>1, <2>2, <3>2, <3>3, <3>4, <4>2, <4>3 DEF Units
      <3>5. CASE r.product # p
        <4>1. l \notin S
          BY <1>3, <3>5 DEF Of
        <4>2. SumOver(d.left, S) = SumOver(e.left, S)
          <5>1. \A x \in S : d.left[x] = e.left[x] /\ d.left[x] \in Nat
            BY <2>2, <3>1, <4>1
          <5> HIDE DEF S
          <5>2. QED
            BY <3>1, <5>1, SumSame
        <4>3. QED
          BY <3>2, <3>5, <4>2
      <3>6. QED
        BY <3>4, <3>5
    <2>6. ASSUME NEW k \in DOMAIN rows PROVE e.left[k] <= s.left[k]
      <3>1. d.left[k] <= s.left[k]
        BY DEF Spreading
      <3>2. CASE k = l
        <4>1. d.left[l] \in Nat /\ e.left[l] \in Nat /\ s.left[l] \in Nat
              /\ d.qty \in Nat /\ e.qty \in Nat /\ e.qty <= d.qty
          BY <1>1, <1>3, <2>2 DEF Spreads
        <4>2. QED
          BY <2>2, <3>1, <3>2, <4>1
      <3>3. CASE k # l
        BY <2>2, <3>1, <3>3
      <3>4. QED
        BY <3>2, <3>3
    <2>8. SumOver(e.left, DOMAIN rows) + r.qty = SumOver(s.left, DOMAIN rows) + e.qty
      <3>1. /\ IsFiniteSet(DOMAIN rows) /\ l \in DOMAIN rows
            /\ \A x \in DOMAIN rows : d.left[x] \in Nat /\ e.left[x] \in Nat
        BY <1>1, <1>3, <2>2, RowsFinite DEF Spreads
      <3>2. SumOver(e.left, DOMAIN rows) + d.left[l] = SumOver(d.left, DOMAIN rows) + e.left[l]
        BY <2>2, <3>1, SumChange
      <3>3. /\ SumOver(d.left, DOMAIN rows) \in Nat /\ SumOver(e.left, DOMAIN rows) \in Nat
            /\ SumOver(s.left, DOMAIN rows) \in Nat
        BY <3>1, SumNat
      <3>4. SumOver(d.left, DOMAIN rows) + r.qty = SumOver(s.left, DOMAIN rows) + d.qty
        BY DEF Spreading
      <3>5. d.left[l] \in Nat /\ e.left[l] \in Nat /\ e.qty \in Nat
        BY <2>2, <3>1 DEF Spreads
      <3>6. d.left[l] + e.qty = e.left[l] + d.qty /\ d.qty \in Nat
        BY <1>1, <2>2
      <3>7. QED
        BY <3>2, <3>3, <3>4, <3>5, <3>6
    <2>9. QED
      BY <2>2, <2>3, <2>4, <2>5, <2>6, <2>8 DEF Spreading
  <1>4. QED
    BY <1>2, <1>3

\* Distribute keeps a plan a plan; with nothing left to distribute, the order
\* waits for so much less.
LEMMA DistributeSpec ==
    ASSUME NEW rows, Tidy(rows), NEW s, PlanOf(rows, s.left, s.updates),
           NEW r, r.qty \in Nat, NEW d, d = Distribute(rows, s, r)
    PROVE  /\ d \in Spreads(rows) /\ PlanOf(rows, d.left, d.updates)
           /\ \A k \in DOMAIN rows : d.left[k] <= s.left[k]
           /\ d.qty = 0 =>
                /\ \A p : SumOver(d.left, Of(rows, p)) + Units(r, p)
                            = SumOver(s.left, Of(rows, p))
                /\ SumOver(d.left, DOMAIN rows) + r.qty = SumOver(s.left, DOMAIN rows)
  <1> PICK L : L = LastLine(rows)
    OBVIOUS
  <1> PICK b : b = [qty |-> r.qty, left |-> s.left, updates |-> s.updates]
    OBVIOUS
  <1> DEFINE D == Spreads(rows)
             Turn(f) == [n \in 0 .. L |->
                 IF n = 0 THEN b
                 ELSE The({Visit(rows, r.product, c, OldestFirst(rows, n)) : c \in {f[n - 1]}})]
             turn == CHOOSE f : f = Turn(f)
  <1>1. L \in Nat /\ \A l \in DOMAIN rows : l \in 1 .. L
    BY RowsFinite
  <1>2. /\ b \in D /\ b.qty = r.qty /\ b.left = s.left /\ b.updates = s.updates
        /\ s.left \in [DOMAIN rows -> Nat]
    BY DEF PlanOf, Spreads
  <1> PICK G : G = [x \in D \X (1 .. L) |-> Visit(rows, r.product, x[1], x[2])]
    OBVIOUS
  <1>3. G \in [Spreads(rows) \X (1 .. L) -> Spreads(rows)]
    <2> SUFFICES ASSUME NEW c \in D, NEW l \in 1 .. L PROVE Visit(rows, r.product, c, l) \in D
      OBVIOUS
    <2>1. l \in DOMAIN rows => Take(rows, c, l) \in D
      BY TakeUnits
    <2>2. QED
      BY <2>1 DEF Visit
  <1>4. ASSUME NEW f, NEW n \in 1 .. L
        PROVE  The({Visit(rows, r.product, c, OldestFirst(rows, n)) : c \in {f[n - 1]}})
                 = Visit(rows, r.product, f[n - 1], n)
    <2>1. {Visit(rows, r.product, c, OldestFirst(rows, n)) : c \in {f[n - 1]}}
            = {Visit(rows, r.product, f[n - 1], n)}
      BY DEF OldestFirst
    <2>2. QED
      BY <2>1, TheOne
  <1>5. \E f : f = Turn(f)
    <2>0. b \in Spreads(rows)
      BY <1>2
    <2>4. IsTurn(Spreads(rows), L, G)
      BY <1>3 DEF IsTurn
    <2>5. PICK f : IsLoop(Spreads(rows), b, L, G, f)
      BY <1>1, <2>0, <2>4, Recursion
    <2>1. /\ f \in [0 .. L -> Spreads(rows)]
          /\ f[0] = b /\ \A i \in 1 .. L : f[i] = G[<<f[i - 1], i>>]
      BY <2>5 DEF IsLoop
    <2>2. ASSUME NEW n \in 1 .. L PROVE f[n] = Visit(rows, r.product, f[n - 1], n)
      <3>1. f[n - 1] \in D
        BY <1>1, <2>1
      <3>2. QED
        BY <2>1, <3>1
    <2>3. ASSUME NEW n \in 0 .. L PROVE f[n] = Turn(f)[n]
      <3>1. CASE n = 0
        BY <1>1, <2>1, <3>1
      <3>2. CASE n # 0
        <4>1. n \in 1 .. L
          BY <1>1, <3>2
        <4>2. Turn(f)[n] = Visit(rows, r.product, f[n - 1], n)
          BY <1>4, <3>2, <4>1
        <4>3. QED
          BY <2>2, <4>1, <4>2
      <3>3. QED
        BY <3>1, <3>2
    <2>6. DOMAIN Turn(f) = 0 .. L /\ Turn(f) = [n \in 0 .. L |-> Turn(f)[n]]
      OBVIOUS
    <2> HIDE DEF Turn
    <2>7. QED
      BY <2>1, <2>3, <2>6
  <1>6. turn = Turn(turn)
    BY <1>5
  <1>7. d = turn[L]
    BY DEF Distribute, Visit
  <1> HIDE DEF turn
  <1>8. /\ turn[0] = b
        /\ \A n \in 1 .. L : turn[n] = Visit(rows, r.product, turn[n - 1], n)
    <2>1. turn[0] = b
      BY <1>1, <1>6
    <2>2. ASSUME NEW n \in 1 .. L PROVE turn[n] = Visit(rows, r.product, turn[n - 1], n)
      <3>1. turn[n] = The({Visit(rows, r.product, c, OldestFirst(rows, n)) : c \in {turn[n - 1]}})
        <4>1. Turn(turn)[n] = The({Visit(rows, r.product, c, OldestFirst(rows, n)) : c \in {turn[n - 1]}})
          BY <1>1
        <4> HIDE DEF Turn
        <4>2. QED
          BY <1>6, <4>1
      <3>2. QED
        BY <1>4, <3>1
    <2>3. QED
      BY <2>1, <2>2
  <1> DEFINE I == {n \in Nat : n <= L => Spreading(rows, s, r, turn[n], n)}
  <1>9. 0 \in I
    <2>1. \A k \in DOMAIN rows : ~(k <= 0)
      BY <1>1
    <2>2. \A p : SumOver(b.left, Of(rows, p)) + Units(r, p)
            = SumOver(s.left, Of(rows, p)) + (IF r.product = p THEN b.qty ELSE 0)
      BY <1>2 DEF Units
    <2>3. \A k \in DOMAIN rows : b.left[k] <= s.left[k]
      BY <1>2
    <2>4. QED
      BY <1>2, <1>8, <2>1, <2>2, <2>3 DEF Spreading
  <1>10. ASSUME NEW n \in Nat, n \in I PROVE n + 1 \in I
    <2> SUFFICES ASSUME n + 1 <= L PROVE Spreading(rows, s, r, turn[n + 1], n + 1)
      OBVIOUS
    <2>1. n + 1 \in 1 .. L /\ n <= L /\ (n + 1) - 1 = n
      BY <1>1
    <2>2. turn[n + 1] = Visit(rows, r.product, turn[n], n + 1)
      BY <1>8, <2>1
    <2>3. Spreading(rows, s, r, turn[n], n)
      BY <1>10, <2>1
    <2>4. n + 1 \in Nat \ {0} /\ Spreading(rows, s, r, turn[n], (n + 1) - 1)
      BY <2>1, <2>3
    <2>5. QED
      BY <1>2, <2>2, <2>4, VisitStep
  <1> HIDE DEF I
  <1>11. L \in I
    BY <1>1, <1>9, <1>10, NatsInduction
  <1>12. Spreading(rows, s, r, d, L)
    BY <1>1, <1>7, <1>11 DEF I
  <1>13. ASSUME d.qty = 0, NEW p
         PROVE  SumOver(d.left, Of(rows, p)) + Units(r, p) = SumOver(s.left, Of(rows, p))
    <2>1. SumOver(s.left, Of(rows, p)) \in Nat
      <3>1. IsFiniteSet(Of(rows, p)) /\ \A x \in Of(rows, p) : s.left[x] \in Nat
        BY <1>2, RowsFinite DEF Of
      <3>2. QED
        BY <3>1, SumNat
    <2>2. QED
      BY <1>12, <1>13, <2>1 DEF Spreading
  <1>14. d.qty = 0 => SumOver(d.left, DOMAIN rows) + r.qty = SumOver(s.left, DOMAIN rows)
    <2>1. SumOver(s.left, DOMAIN rows) \in Nat
      BY <1>2, RowsFinite, SumNat
    <2>2. QED
      BY <1>12, <2>1 DEF Spreading
  <1>15. QED
    BY <1>12, <1>13, <1>14 DEF Spreading

-----------------------------------------------------------------------------
(* The cost a receipt inherits, and what Resolve returns *)

LEMMA RoundedNat == ASSUME NEW n \in Nat, NEW d \in Nat \ {0} PROVE RoundedDiv(n, d) \in Nat
  <1>1. \A u \in Nat, v \in Nat \ {0} : u \div v \in Nat
    OBVIOUS
  <1>2. 2 * n + d \in Nat /\ 2 * d \in Nat \ {0}
    OBVIOUS
  <1>3. QED
    BY <1>1, <1>2 DEF RoundedDiv

LEMMA InheritedNat ==
    ASSUME NEW rows, Tidy(rows), \A l \in DOMAIN rows : rows[l].unitCost \in Nat,
           NEW before \in [DOMAIN rows -> Nat], NEW after \in [DOMAIN rows -> Nat],
           \A l \in DOMAIN rows : after[l] <= before[l], NEW n \in Nat \ {0},
           SumOver(after, DOMAIN rows) + n = SumOver(before, DOMAIN rows)
    PROVE  Inherited(rows, before, after) \in Nat
  <1> DEFINE taken == [l \in DOMAIN rows |-> before[l] - after[l]]
             costs == [l \in DOMAIN rows |-> (before[l] - after[l]) * rows[l].unitCost]
  <1>1. IsFiniteSet(DOMAIN rows)
    BY RowsFinite
  <1>2. DOMAIN taken = DOMAIN rows /\ DOMAIN costs = DOMAIN rows
    OBVIOUS
  <1>3. \A l \in DOMAIN rows : /\ taken[l] \in Nat /\ after[l] \in Nat
                               /\ before[l] = after[l] + taken[l]
    OBVIOUS
  <1>4. \A l \in DOMAIN rows : costs[l] \in Nat
    <2> TAKE l \in DOMAIN rows
    <2>1. before[l] - after[l] \in Nat /\ rows[l].unitCost \in Nat
      OBVIOUS
    <2>2. \A a, b \in Nat : a * b \in Nat
      OBVIOUS
    <2>3. QED
      BY <2>1, <2>2
  <1>5. Inherited(rows, before, after) = RoundedDiv(SumOf(costs), SumOf(taken))
    BY DEF Inherited
  <1> HIDE DEF taken, costs
  <1>6. SumOver(before, DOMAIN rows) = SumOver(after, DOMAIN rows) + SumOver(taken, DOMAIN rows)
    BY <1>1, <1>3, SumPlus
  <1>7. SumOver(after, DOMAIN rows) \in Nat /\ SumOver(taken, DOMAIN rows) \in Nat
    BY <1>1, <1>3, SumNat
  <1>8. SumOver(taken, DOMAIN rows) \in Nat \ {0}
    BY <1>6, <1>7
  <1>9. SumOf(taken) = SumOver(taken, DOMAIN rows)
    BY <1>2 DEF SumOf, FoldFunction, SumOver
  <1>10. SumOf(costs) \in Nat
    BY <1>1, <1>2, <1>4, SumOfNat
  <1>11. QED
    BY <1>5, <1>8, <1>9, <1>10, RoundedNat

\* What the loop over the lines of a receipt goes through.
Settled(rows) ==
    {s \in [ok : BOOLEAN, left : [DOMAIN rows -> Nat], updates : Seq(Updates(rows)),
            costed : Seq(ReceiptLine)] :
        PlanOf(rows, s.left, s.updates)}

CostsKnown(rows) == \A l \in DOMAIN rows : rows[l].unitCost \in Nat

\* e is s with the receipt line r dealt with.
Deals(rows, s, r, e) ==
    /\ e \in Settled(rows)
    /\ \E c \in ReceiptLine : /\ c.product = r.product /\ c.qty = r.qty
                              /\ e.costed = Append(s.costed, c)
    /\ e.ok => /\ s.ok
               /\ \A p : SumOver(e.left, Of(rows, p)) + Units(r, p)
                           = SumOver(s.left, Of(rows, p))

LEMMA ResolvedStep ==
    ASSUME NEW rows, Tidy(rows), CostsKnown(rows), NEW s \in Settled(rows),
           NEW r \in ReceiptLine
    PROVE  Deals(rows, s, r, Resolved(rows, s, r))
  <1> PICK d : d = Distribute(rows, s, r)
    OBVIOUS
  <1> PICK c : c = [r EXCEPT !.unitCost =
                       IF @ # NoCost \/ ~Accepts(rows, r, d) THEN @
                       ELSE Inherited(rows, s.left, d.left)]
    OBVIOUS
  <1> PICK e : e = [ok |-> s.ok /\ Accepts(rows, r, d), left |-> d.left,
                    updates |-> d.updates, costed |-> Append(s.costed, c)]
    OBVIOUS
  <1>1. Resolved(rows, s, r) = e
    <2>1. Resolved(rows, s, r) = The({e})
      BY DEF Resolved
    <2>2. The({e}) = e
      BY TheOne, Zenon
    <2>3. QED
      BY <2>1, <2>2, Zenon
  <1>2. /\ s.left \in [DOMAIN rows -> Nat] /\ s.costed \in Seq(ReceiptLine)
        /\ PlanOf(rows, s.left, s.updates) /\ r.qty \in Nat
        /\ r = [product |-> r.product, qty |-> r.qty, unitCost |-> r.unitCost]
        /\ r.unitCost \in Nat \cup {NoCost} /\ r.product \in Product /\ s.ok \in BOOLEAN
    BY DEF Settled, ReceiptLine
  <1>3. /\ d \in Spreads(rows) /\ PlanOf(rows, d.left, d.updates)
        /\ \A k \in DOMAIN rows : d.left[k] <= s.left[k]
        /\ d.qty = 0 =>
             /\ \A p : SumOver(d.left, Of(rows, p)) + Units(r, p)
                         = SumOver(s.left, Of(rows, p))
             /\ SumOver(d.left, DOMAIN rows) + r.qty = SumOver(s.left, DOMAIN rows)
    BY <1>2, DistributeSpec
  <1>4. d.left \in [DOMAIN rows -> Nat] /\ d.updates \in Seq(Updates(rows))
    BY <1>3 DEF Spreads
  <1>5. Accepts(rows, r, d) => /\ d.qty = 0
                               /\ r.unitCost = NoCost => r.qty # 0
    BY DEF Accepts
  <1>6. c \in ReceiptLine /\ c.product = r.product /\ c.qty = r.qty
    <2>1. CASE r.unitCost # NoCost \/ ~Accepts(rows, r, d)
      BY <1>2, <2>1 DEF ReceiptLine
    <2>2. CASE r.unitCost = NoCost /\ Accepts(rows, r, d)
      <3>1. d.qty = 0 /\ r.qty \in Nat \ {0}
        BY <1>2, <1>5, <2>2
      <3>2. Inherited(rows, s.left, d.left) \in Nat
        BY <1>2, <1>3, <1>4, <3>1, InheritedNat DEF CostsKnown
      <3>3. c = [r EXCEPT !.unitCost = Inherited(rows, s.left, d.left)]
        BY <2>2
      <3>4. QED
        BY <1>2, <3>2, <3>3 DEF ReceiptLine
    <2>3. QED
      BY <2>1, <2>2
  <1>7. /\ e.ok = (s.ok /\ Accepts(rows, r, d)) /\ e.left = d.left /\ e.updates = d.updates
        /\ e.costed = Append(s.costed, c)
    OBVIOUS
  <1>8. e \in Settled(rows)
    <2>1. Append(s.costed, c) \in Seq(ReceiptLine)
      BY <1>2, <1>6
    <2>2. QED
      BY <1>2, <1>3, <1>4, <1>7, <2>1 DEF Settled
  <1>9. e.ok => /\ s.ok
                /\ \A p : SumOver(e.left, Of(rows, p)) + Units(r, p)
                            = SumOver(s.left, Of(rows, p))
    BY <1>3, <1>5, <1>7
  <1>10. Deals(rows, s, r, e)
    BY <1>6, <1>7, <1>8, <1>9 DEF Deals
  <1>11. QED
    BY <1>1, <1>10

\* Rows of which the oldest of each product are filled first.
OldFirst(rows) ==
    \A k, l \in DOMAIN rows :
        k < l /\ rows[k].product = rows[l].product /\ rows[l].received > 0
            => rows[k].received = rows[k].qty

LEMMA NothingPlanned ==
    ASSUME NEW rows, Tidy(rows), OldFirst(rows)
    PROVE  PlanOf(rows, Remaining(rows), <<>>)
  <1> PICK left : left = Remaining(rows)
    OBVIOUS
  <1>1. \A k \in DOMAIN rows : /\ left[k] = rows[k].qty - rows[k].received /\ left[k] \in Nat
                               /\ rows[k].qty \in Nat /\ rows[k].received \in Nat
    BY DEF Remaining, Tidy
  <1>2. left \in [DOMAIN rows -> Nat]
    BY <1>1 DEF Remaining
  <1>3. ASSUME NEW k \in DOMAIN rows, NEW l \in DOMAIN rows, k < l,
               rows[k].product = rows[l].product, left[l] < rows[l].qty
        PROVE  left[k] = 0
    <2>1. rows[l].received > 0
      BY <1>1, <1>3
    <2>2. rows[k].received = rows[k].qty
      BY <1>3, <2>1 DEF OldFirst
    <2>3. QED
      BY <1>1, <2>2
  <1>4. \A k \in DOMAIN rows : left[k] <= rows[k].qty - rows[k].received
    BY <1>1
  <1>5. <<>> \in Seq(Updates(rows)) /\ DOMAIN <<>> = {}
    OBVIOUS
  <1>6. PlanOf(rows, left, <<>>)
    BY <1>1, <1>2, <1>3, <1>4, <1>5 DEF PlanOf
  <1>7. QED
    BY <1>6

-----------------------------------------------------------------------------
Quantities(ls) == [i \in DOMAIN ls |-> ls[i].qty]
Named(ls, p, n) == {i \in 1 .. n : ls[i].product = p}

LEMMA UnitsSum ==
    ASSUME NEW ls, Len(ls) \in Nat, DOMAIN ls = 1 .. Len(ls),
           \A i \in DOMAIN ls : ls[i].qty \in Nat, NEW p
    PROVE  UnitsIn(ls, p) = SumOver(Quantities(ls), Named(ls, p, Len(ls)))
  <1> DEFINE S == {k \in DOMAIN ls : ls[k].product = p}
             f == [i \in S |-> ls[i].qty]
  <1>1. DOMAIN ls = 1 .. Len(ls) /\ Len(ls) \in Nat /\ \A i \in 1 .. Len(ls) : ls[i].qty \in Nat
    OBVIOUS
  <1>2. S = Named(ls, p, Len(ls)) /\ DOMAIN f = S
    BY <1>1 DEF Named
  <1>3. IsFiniteSet(S)
    <2>1. IsFiniteSet(1 .. Len(ls))
      BY <1>1, FS_Interval
    <2>2. S \subseteq 1 .. Len(ls)
      BY <1>1
    <2> HIDE DEF S
    <2>3. QED
      BY <2>1, <2>2, FS_Subset
  <1>4. \A i \in S : f[i] = Quantities(ls)[i] /\ f[i] \in Nat
    BY <1>1 DEF Quantities
  <1>5. UnitsIn(ls, p) = SumOf(f)
    BY DEF UnitsIn
  <1> HIDE DEF S, f
  <1>6. SumOf(f) = SumOver(f, S)
    BY <1>2 DEF SumOf, FoldFunction, SumOver
  <1>7. SumOver(f, S) = SumOver(Quantities(ls), S)
    BY <1>3, <1>4, SumSame
  <1>8. QED
    BY <1>2, <1>5, <1>6, <1>7

\* What the loop over the lines of rec has done by line n.
Settling(rows, rec, s, n) ==
    /\ s \in Settled(rows) /\ Len(s.costed) = n
    /\ \A i \in 1 .. n : /\ s.costed[i].product = rec[i].product
                         /\ s.costed[i].qty = rec[i].qty
    /\ s.ok => \A p : SumOver(s.left, Of(rows, p)) + SumOver(Quantities(rec), Named(rec, p, n))
                        = SumOver(Remaining(rows), Of(rows, p))

LEMMA SettlingStep ==
    ASSUME NEW rows, Tidy(rows), NEW rec \in Seq(ReceiptLine), NEW n \in 1 .. Len(rec),
           NEW s, Settling(rows, rec, s, n - 1), NEW e, Deals(rows, s, rec[n], e)
    PROVE  Settling(rows, rec, e, n)
  <1>1. n - 1 \in Nat /\ (n - 1) + 1 = n /\ 1 .. n = 1 .. (n - 1) \cup {n} /\ n \in Nat
    OBVIOUS
  <1>2. PICK c \in ReceiptLine : /\ c.product = rec[n].product /\ c.qty = rec[n].qty
                                 /\ e.costed = Append(s.costed, c)
    BY DEF Deals
  <1>3. s.costed \in Seq(ReceiptLine) /\ Len(s.costed) = n - 1
    BY DEF Settling, Settled
  <1>4. /\ Len(e.costed) = n /\ e.costed[n] = c
        /\ \A i \in 1 .. n - 1 : e.costed[i] = s.costed[i]
    BY <1>1, <1>2, <1>3
  <1>5. ASSUME e.ok, NEW p
        PROVE  SumOver(e.left, Of(rows, p)) + SumOver(Quantities(rec), Named(rec, p, n))
                 = SumOver(Remaining(rows), Of(rows, p))
    <2> DEFINE A == SumOver(e.left, Of(rows, p))
               B == SumOver(s.left, Of(rows, p))
               P == SumOver(Quantities(rec), Named(rec, p, n - 1))
               Q == SumOver(Quantities(rec), Named(rec, p, n))
    <2>1. A + Units(rec[n], p) = B /\ B + P = SumOver(Remaining(rows), Of(rows, p))
      BY <1>5 DEF Deals, Settling
    <2>2. /\ DOMAIN rec = 1 .. Len(rec) /\ Len(rec) \in Nat
          /\ \A i \in 1 .. Len(rec) : rec[i].qty \in Nat
      <3>1. \A i \in 1 .. Len(rec) : rec[i] \in ReceiptLine
        OBVIOUS
      <3>2. QED
        BY <3>1 DEF ReceiptLine
    <2>3. \A m \in 0 .. n : /\ IsFiniteSet(Named(rec, p, m))
                            /\ \A i \in Named(rec, p, m) : Quantities(rec)[i] \in Nat
      <3> TAKE m \in 0 .. n
      <3>1. IsFiniteSet(1 .. m)
        BY FS_Interval
      <3>2. Named(rec, p, m) \subseteq 1 .. m
        BY DEF Named
      <3>3. IsFiniteSet(Named(rec, p, m))
        BY <3>1, <3>2, FS_Subset
      <3>4. QED
        BY <2>2, <3>3 DEF Named, Quantities
    <2>4. Q = P + Units(rec[n], p)
      <3>1. CASE rec[n].product = p
        <4>1. n \in Named(rec, p, n) /\ Named(rec, p, n) \ {n} = Named(rec, p, n - 1)
          BY <1>1, <3>1 DEF Named
        <4>2. Q = Quantities(rec)[n] + P
          BY <1>1, <2>3, <4>1, SumAny
        <4>3. Quantities(rec)[n] = Units(rec[n], p) /\ Units(rec[n], p) \in Nat
          BY <2>2, <3>1 DEF Quantities, Units
        <4>4. P \in Nat
          <5>1. n - 1 \in 0 .. n
            BY <1>1
          <5>2. QED
            BY <2>3, <5>1, SumNat
        <4>5. QED
          BY <4>2, <4>3, <4>4
      <3>2. CASE rec[n].product # p
        <4>1. Named(rec, p, n) = Named(rec, p, n - 1)
          BY <1>1, <3>2 DEF Named
        <4>2. P \in Nat
          <5>1. n - 1 \in 0 .. n
            BY <1>1
          <5>2. QED
            BY <2>3, <5>1, SumNat
        <4>3. QED
          BY <3>2, <4>1, <4>2 DEF Units
      <3>3. QED
        BY <3>1, <3>2
    <2>5. A \in Nat /\ B \in Nat
      <3>1. /\ e.left \in [DOMAIN rows -> Nat] /\ s.left \in [DOMAIN rows -> Nat]
            /\ Of(rows, p) \subseteq DOMAIN rows
        BY DEF Deals, Settling, Settled, Of
      <3>2. QED
        BY <3>1, RowsFinite, SumNat
    <2>6. P \in Nat /\ Units(rec[n], p) \in Nat
      <3>1. n - 1 \in 0 .. n
        BY <1>1
      <3>2. QED
        BY <2>2, <2>3, <3>1, SumNat DEF Units
    <2> HIDE DEF A, B, P, Q
    <2>7. A + Q = SumOver(Remaining(rows), Of(rows, p))
      <3> DEFINE u == Units(rec[n], p)
      <3>1. u \in Nat /\ A + u = B /\ Q = P + u
        BY <2>1, <2>4, <2>6
      <3>2. B + P = SumOver(Remaining(rows), Of(rows, p))
        BY <2>1
      <3> HIDE DEF u
      <3>3. A + Q = B + P
        BY <2>5, <2>6, <3>1
      <3>4. QED
        BY <3>2, <3>3
    <2>8. QED
      BY <2>7 DEF A, Q
  <1>6. QED
    BY <1>1, <1>2, <1>4, <1>5 DEF Settling, Deals

\* Of tidy rows, filled oldest first, resolveLines returns lines of a receipt
\* with the products and quantities it was given, and updates that fill the
\* oldest rows first, each row once and none beyond what was ordered; if it
\* accepts the receipt, they take of each product the units it brings.
THEOREM ResolveSpec ==
    ASSUME NEW rows, Tidy(rows), OldFirst(rows), CostsKnown(rows),
           NEW rec \in Seq(ReceiptLine), NEW R, R = Resolve(rows, rec)
    PROVE  /\ R \in Settled(rows) /\ Len(R.costed) = Len(rec)
           /\ \A i \in 1 .. Len(rec) : /\ R.costed[i].product = rec[i].product
                                       /\ R.costed[i].qty = rec[i].qty
           /\ R.ok => \A p : SumOver(R.left, Of(rows, p)) + UnitsIn(rec, p)
                               = SumOver(Remaining(rows), Of(rows, p))
  <1> PICK L : L = Len(rec)
    OBVIOUS
  <1> PICK b : b = [ok |-> TRUE, left |-> Remaining(rows), updates |-> <<>>, costed |-> <<>>]
    OBVIOUS
  <1> PICK G : G = [x \in Settled(rows) \X (1 .. L) |-> Resolved(rows, x[1], rec[x[2]])]
    OBVIOUS
  <1> DEFINE Turn(f) == [i \in 0 .. L |->
                 IF i = 0 THEN b ELSE The({Resolved(rows, s, rec[i]) : s \in {f[i - 1]}})]
             turn == CHOOSE f : f = Turn(f)
  <1>1. L \in Nat /\ DOMAIN rec = 1 .. L /\ \A i \in 1 .. L : rec[i] \in ReceiptLine
    OBVIOUS
  <1>2. /\ b \in Settled(rows) /\ b.ok = TRUE /\ b.left = Remaining(rows)
        /\ b.costed = <<>> /\ Len(b.costed) = 0
    <2>1. PlanOf(rows, Remaining(rows), <<>>)
      BY NothingPlanned
    <2>2. Remaining(rows) \in [DOMAIN rows -> Nat]
      BY <2>1 DEF PlanOf
    <2>3. <<>> \in Seq(Updates(rows)) /\ <<>> \in Seq(ReceiptLine) /\ Len(<<>>) = 0
      OBVIOUS
    <2>4. QED
      BY <2>1, <2>2, <2>3 DEF Settled
  <1>3. IsTurn(Settled(rows), L, G)
    <2>1. ASSUME NEW s \in Settled(rows), NEW i \in 1 .. L
          PROVE  Resolved(rows, s, rec[i]) \in Settled(rows)
      BY <1>1, ResolvedStep DEF Deals
    <2>2. G \in [Settled(rows) \X (1 .. L) -> Settled(rows)]
      BY <2>1
    <2>3. QED
      BY <2>2 DEF IsTurn
  <1>4. ASSUME NEW f, NEW n \in 1 .. L
        PROVE  The({Resolved(rows, s, rec[n]) : s \in {f[n - 1]}}) = Resolved(rows, f[n - 1], rec[n])
    <2>1. {Resolved(rows, s, rec[n]) : s \in {f[n - 1]}} = {Resolved(rows, f[n - 1], rec[n])}
      OBVIOUS
    <2>2. QED
      BY <2>1, TheOne
  <1>5. \E f : f = Turn(f)
    <2>1. PICK f : IsLoop(Settled(rows), b, L, G, f)
      BY <1>1, <1>2, <1>3, Recursion
    <2>2. /\ f \in [0 .. L -> Settled(rows)]
          /\ f[0] = b /\ \A i \in 1 .. L : f[i] = G[<<f[i - 1], i>>]
      BY <2>1 DEF IsLoop
    <2>3. ASSUME NEW n \in 0 .. L PROVE f[n] = Turn(f)[n]
      <3>1. CASE n = 0
        BY <1>1, <2>2, <3>1
      <3>2. CASE n # 0
        <4>1. n \in 1 .. L
          BY <1>1, <3>2
        <4>2. Turn(f)[n] = Resolved(rows, f[n - 1], rec[n])
          BY <1>4, <3>2, <4>1
        <4>3. f[n - 1] \in Settled(rows)
          <5>1. n - 1 \in 0 .. L
            BY <1>1, <4>1
          <5>2. QED
            BY <2>2, <5>1
        <4>4. QED
          BY <2>2, <4>1, <4>2, <4>3
      <3>3. QED
        BY <3>1, <3>2
    <2>4. DOMAIN Turn(f) = 0 .. L /\ Turn(f) = [n \in 0 .. L |-> Turn(f)[n]]
      OBVIOUS
    <2> HIDE DEF Turn
    <2>5. QED
      BY <2>2, <2>3, <2>4
  <1>6. turn = Turn(turn)
    BY <1>5
  <1>7. R = turn[L]
    BY DEF Resolve
  <1> HIDE DEF turn
  <1>8. turn[0] = b /\ \A n \in 1 .. L : turn[n] = Resolved(rows, turn[n - 1], rec[n])
    <2>1. Turn(turn)[0] = b
      BY <1>1
    <2>2. ASSUME NEW n \in 1 .. L PROVE Turn(turn)[n] = Resolved(rows, turn[n - 1], rec[n])
      BY <1>1, <1>4
    <2> HIDE DEF Turn
    <2>3. QED
      BY <1>6, <2>1, <2>2
  <1> DEFINE I == {n \in Nat : n <= L => Settling(rows, rec, turn[n], n)}
  <1>9. 0 \in I
    <2>1. ASSUME NEW p
          PROVE  SumOver(b.left, Of(rows, p)) + SumOver(Quantities(rec), Named(rec, p, 0))
                   = SumOver(Remaining(rows), Of(rows, p))
      <3>1. Named(rec, p, 0) = {}
        BY DEF Named
      <3>2. SumOver(Quantities(rec), Named(rec, p, 0)) = 0
        BY <3>1, SumEmpty
      <3>3. SumOver(b.left, Of(rows, p)) \in Nat
        <4>1. b.left \in [DOMAIN rows -> Nat] /\ Of(rows, p) \subseteq DOMAIN rows
          BY <1>2 DEF Settled, Of
        <4>2. QED
          BY <4>1, RowsFinite, SumNat
      <3>4. QED
        BY <1>2, <3>2, <3>3
    <2>2. QED
      BY <1>2, <1>8, <2>1 DEF Settling
  <1>10. ASSUME NEW n \in Nat, n \in I PROVE n + 1 \in I
    <2> SUFFICES ASSUME n + 1 <= L PROVE Settling(rows, rec, turn[n + 1], n + 1)
      OBVIOUS
    <2>1. n + 1 \in 1 .. L /\ n <= L /\ (n + 1) - 1 = n
      BY <1>1
    <2>2. turn[n + 1] = Resolved(rows, turn[n], rec[n + 1])
      BY <1>8, <2>1
    <2>3. Settling(rows, rec, turn[n], n)
      BY <1>10, <2>1
    <2>4. Settling(rows, rec, turn[n], (n + 1) - 1) /\ turn[n] \in Settled(rows)
      BY <2>1, <2>3 DEF Settling
    <2>5. Deals(rows, turn[n], rec[n + 1], turn[n + 1])
      BY <1>1, <2>1, <2>2, <2>4, ResolvedStep
    <2>6. QED
      BY <2>1, <2>4, <2>5, SettlingStep
  <1> HIDE DEF I
  <1>11. L \in I
    BY <1>1, <1>9, <1>10, NatsInduction
  <1>12. Settling(rows, rec, R, L)
    BY <1>1, <1>7, <1>11 DEF I
  <1>13. \A p : UnitsIn(rec, p) = SumOver(Quantities(rec), Named(rec, p, L))
    <2>1. \A i \in DOMAIN rec : rec[i].qty \in Nat
      BY <1>1 DEF ReceiptLine
    <2>2. QED
      BY <1>1, <2>1, UnitsSum
  <1>14. QED
    BY <1>12, <1>13 DEF Settling

-----------------------------------------------------------------------------
(* The status of an order, the requests and their transactions *)

Left == {"APPROVED", "RECEIVED", "CANCELLED"}     \* statuses after DRAFT

\* Functions are functions, and an idle slot holds a request that exists.
ShapeInv ==
    /\ pc \in [Tx -> Active \cup {"idle"}]
    /\ job \in [Tx -> Job]
    /\ DOMAIN hdr = Tx
    /\ DOMAIN order = {"status", "total"}
    /\ order.status \in Status \cup {"NONE", "GONE"}

\* Where each kind of request can be.
Places(kind) ==
    CASE kind = "UPDATE" -> {"read", "lines", "clear", "clearing", "header", "commit"}
      [] kind = "REMOVE" -> {"read", "delete"}
      [] kind \in {"APPROVE", "CANCEL"} -> {"read", "status", "commit"}
      [] kind = "RECEIVE" -> {"read", "lines", "receipt", "advance", "check",
                              "close", "commit"}
      [] kind = "DIRECT" -> {"receipt", "commit"}

PlaceInv == \A t \in Tx : pc[t] # "idle" => pc[t] \in Places(job[t].kind)

\* A written header belongs to a request about to commit; an edit has kept
\* the status of the order, the others move it past DRAFT.
HeaderInv ==
    \A t \in Tx : hdr[t] # None =>
        /\ pc[t] = "commit"
        /\ DOMAIN hdr[t] = {"status", "total"}
        /\ order.status \in Status
        /\ IF job[t].kind = "UPDATE" THEN hdr[t].status = order.status
                                     ELSE hdr[t].status \in Left
        /\ \A u \in Tx : hdr[u] # None => u = t

\* Once a receipt has found its order APPROVED, the order never is a DRAFT
\* again, and from its insertion on it cannot be deleted.
ReceiptInv ==
    \A t \in Tx :
        job[t].kind = "RECEIVE" /\ pc[t] \notin {"idle", "read"} =>
            /\ order.status \in Left \cup {"GONE"}
            /\ KeyShare(t) => order.status \in Left

\* The inductive invariant.
OrderInv == ShapeInv /\ PlaceInv /\ HeaderInv /\ ReceiptInv
            /\ ReceiptsKeepTheirOrder

-----------------------------------------------------------------------------
LEMMA SomeJobIsJob == SomeJob \in Job
  BY JobAssumption DEF SomeJob

LEMMA KindOf == ASSUME ShapeInv, NEW t \in Tx PROVE job[t].kind \in Kind
  BY JobAssumption DEF ShapeInv

LEMMA OrderInit == Init => OrderInv
  <1> SUFFICES ASSUME Init PROVE OrderInv
    OBVIOUS
  <1>1. ShapeInv
    BY SomeJobIsJob DEF Init, ShapeInv
  <1>2. PlaceInv /\ HeaderInv /\ ReceiptInv
    BY DEF Init, PlaceInv, HeaderInv, ReceiptInv
  <1>3. ReceiptsKeepTheirOrder
    BY DEF Init, ReceiptsKeepTheirOrder
  <1>4. QED
    BY <1>1, <1>2, <1>3 DEF OrderInv

\* A statement that writes neither header nor receipts and moves its request
\* on: a receipt leaves "read" only with the order APPROVED, and is inserted
\* only while the order exists.
LEMMA MoveKeeps ==
    ASSUME OrderInv, NEW t \in Tx, NEW w \in Places(job[t].kind),
           pc[t] \notin {"idle", "commit"},
           UNCHANGED <<order, receipts, hdr, job>>,
           pc' = [pc EXCEPT ![t] = w],
           job[t].kind = "RECEIVE" =>
               /\ pc[t] = "read" => order.status = "APPROVED"
               /\ w \in {"advance", "check", "close", "commit"} =>
                      KeyShare(t) \/ order.status \in Status
    PROVE  OrderInv'
  <1> USE DEF OrderInv
  <1>1. job[t].kind \in Kind
    BY KindOf
  <1>2. w \in Active
    BY <1>1 DEF Places, Active, Kind
  <1>3. ShapeInv'
    BY <1>2 DEF ShapeInv
  <1>4. PlaceInv'
    BY DEF PlaceInv, ShapeInv
  <1>5. HeaderInv'
    BY DEF HeaderInv, ShapeInv
  <1>6. ReceiptsKeepTheirOrder'
    BY DEF ReceiptsKeepTheirOrder
  <1>7. ASSUME NEW u \in Tx, job[u].kind = "RECEIVE",
               pc'[u] \notin {"idle", "read"}
        PROVE  /\ order.status \in Left \cup {"GONE"}
               /\ KeyShare(u)' => order.status \in Left
    <2>1. CASE u # t
      BY <1>7, <2>1 DEF ReceiptInv, ShapeInv, KeyShare, Inserted
    <2>2. CASE u = t
      <3>1. order.status \in Left \cup {"GONE"}
        BY <1>7, <2>2 DEF ReceiptInv, Left
      <3>2. KeyShare(t)' => w \in {"advance", "check", "close", "commit"}
        BY DEF KeyShare, Inserted, ShapeInv
      <3>3. KeyShare(t) => order.status \in Left
        BY DEF ReceiptInv, KeyShare, Inserted
      <3>4. KeyShare(t)' => order.status \in Left
        BY <1>7, <2>2, <3>1, <3>2, <3>3 DEF Left, Status
      <3>5. QED
        BY <2>2, <3>1, <3>4
    <2>3. QED
      BY <2>1, <2>2
  <1>8. ReceiptInv'
    BY <1>7 DEF ReceiptInv
  <1>9. QED
    BY <1>3, <1>4, <1>5, <1>6, <1>8

\* A statement writes the header h, which nobody else has written.
Writes(t, h) ==
    /\ pc[t] \in {"header", "status", "close"}
    /\ HeaderFree(t) /\ OrderExists
    /\ UNCHANGED <<order, receipts, job>>
    /\ hdr' = [hdr EXCEPT ![t] = h]
    /\ pc' = [pc EXCEPT ![t] = "commit"]
    /\ DOMAIN h = {"status", "total"}
    /\ IF job[t].kind = "UPDATE" THEN h.status = order.status
                                 ELSE h.status \in Left

LEMMA WriteKeeps ==
    ASSUME OrderInv, NEW t \in Tx, NEW h, Writes(t, h)
    PROVE  OrderInv'
  <1> USE DEF OrderInv, Writes
  <1>1. ShapeInv'
    BY DEF ShapeInv, Active
  <1>2. PlaceInv'
    <2>1. job[t].kind \in Kind /\ pc[t] \in Places(job[t].kind)
      BY KindOf DEF PlaceInv
    <2>2. "commit" \in Places(job[t].kind)
      BY <2>1 DEF Places, Kind
    <2>3. QED
      BY <2>2 DEF PlaceInv, ShapeInv
  <1>3. HeaderInv'
    BY DEF HeaderInv, ShapeInv, HeaderFree, OrderExists
  <1>4. ReceiptInv'
    BY DEF ReceiptInv, ShapeInv, KeyShare, Inserted, OrderExists, Status, Left
  <1>5. ReceiptsKeepTheirOrder'
    BY DEF ReceiptsKeepTheirOrder
  <1>6. QED
    BY <1>1, <1>2, <1>3, <1>4, <1>5

\* The end of a transaction frees its slot and its locks.
LEMMA RollbackKeeps ==
    ASSUME OrderInv, NEW t \in Tx, Rollback(t) PROVE OrderInv'
  <1> USE DEF OrderInv
  <1>1. /\ UNCHANGED <<order, receipts>>
        /\ pc' = [pc EXCEPT ![t] = "idle"]
        /\ hdr' = [hdr EXCEPT ![t] = None]
        /\ job' = [job EXCEPT ![t] = SomeJob]
    BY DEF Rollback, End, Goto
  <1>2. ShapeInv'
    BY <1>1, SomeJobIsJob DEF ShapeInv
  <1>3. PlaceInv'
    BY <1>1 DEF PlaceInv, ShapeInv
  <1>4. HeaderInv'
    BY <1>1 DEF HeaderInv, ShapeInv
  <1>5. ReceiptInv'
    BY <1>1 DEF ReceiptInv, ShapeInv, KeyShare, Inserted
  <1>6. ReceiptsKeepTheirOrder'
    BY <1>1 DEF ReceiptsKeepTheirOrder
  <1>7. QED
    BY <1>2, <1>3, <1>4, <1>5, <1>6

-----------------------------------------------------------------------------
(* The actions *)

LEMMA CreateKeeps == ASSUME OrderInv, Create PROVE OrderInv'
  <1> USE DEF OrderInv
  <1>1. /\ order.status = "NONE"
        /\ order'.status = "DRAFT" /\ DOMAIN order' = {"status", "total"}
        /\ UNCHANGED <<receipts, pc, job, hdr>>
    BY DEF Create, txVars
  <1>2. \A t \in Tx : hdr[t] = None
    BY <1>1 DEF HeaderInv, Status
  <1>3. \A t \in Tx : job[t].kind # "RECEIVE" \/ pc[t] \in {"idle", "read"}
    BY <1>1 DEF ReceiptInv, Left
  <1>4. ShapeInv' /\ PlaceInv'
    BY <1>1 DEF ShapeInv, PlaceInv, Status
  <1>5. HeaderInv' /\ ReceiptInv'
    BY <1>1, <1>2, <1>3 DEF HeaderInv, ReceiptInv
  <1>6. ReceiptsKeepTheirOrder'
    BY <1>1 DEF ReceiptsKeepTheirOrder
  <1>7. QED
    BY <1>4, <1>5, <1>6

LEMMA BeginKeeps == ASSUME OrderInv, NEW t \in Tx, Begin(t) PROVE OrderInv'
  <1> USE DEF OrderInv
  <1>1. PICK j \in Job :
            /\ job' = [job EXCEPT ![t] = j]
            /\ pc' = [pc EXCEPT ![t] =
                         IF j.kind = "DIRECT" THEN "receipt" ELSE "read"]
    BY DEF Begin, Goto
  <1>2. pc[t] = "idle" /\ UNCHANGED <<order, receipts, hdr>>
    BY DEF Begin
  <1>3. j.kind \in Kind
    BY JobAssumption
  <1>4. ShapeInv'
    BY <1>1, <1>2 DEF ShapeInv, Active
  <1>5. PlaceInv'
    <2>1. DOMAIN pc = Tx /\ DOMAIN job = Tx
      BY DEF ShapeInv
    <2>2. job'[t] = j /\ pc'[t] = (IF j.kind = "DIRECT" THEN "receipt" ELSE "read")
      BY <1>1, <2>1
    <2>3. pc'[t] \in Places(j.kind)
      BY <1>3, <2>2 DEF Places, Kind
    <2>4. \A u \in Tx \ {t} : pc'[u] = pc[u] /\ job'[u] = job[u]
      BY <1>1, <2>1
    <2>5. QED
      BY <2>2, <2>3, <2>4 DEF PlaceInv
  <1>6. HeaderInv'
    BY <1>1, <1>2 DEF HeaderInv, ShapeInv
  <1>7. ReceiptInv'
    BY <1>1, <1>2 DEF ReceiptInv, ShapeInv, KeyShare, Inserted
  <1>8. ReceiptsKeepTheirOrder'
    BY <1>2 DEF ReceiptsKeepTheirOrder
  <1>9. QED
    BY <1>4, <1>5, <1>6, <1>7, <1>8

LEMMA ReadsKeep ==
    ASSUME OrderInv, NEW t \in Tx,
           ReadHeader(t) \/ ReadLinesToUpdate(t) \/ ReadLinesToReceive(t)
    PROVE  OrderInv'
  <1>1. job[t].kind \in Kind /\ pc[t] \in Places(job[t].kind)
    BY KindOf DEF OrderInv, PlaceInv, ReadHeader, ReadLinesToUpdate,
                  ReadLinesToReceive
  <1>2. CASE ReadHeader(t)
    <2> DEFINE w == CASE job[t].kind \in {"UPDATE", "RECEIVE"} -> "lines"
                      [] job[t].kind \in {"APPROVE", "CANCEL"} -> "status"
                      [] job[t].kind = "REMOVE" -> "delete"
    <2>1. /\ UNCHANGED <<order, receipts, hdr, job>>
          /\ pc[t] = "read" /\ pc' = [pc EXCEPT ![t] = w]
      BY <1>2 DEF ReadHeader, Goto
    <2>2. job[t].kind # "DIRECT"
      BY <1>1, <2>1 DEF Places, Kind
    <2>3. w \in Places(job[t].kind)
      BY <1>1, <2>2 DEF Places, Kind
    <2>4. job[t].kind = "RECEIVE" => order.status = "APPROVED" /\ w = "lines"
      BY <1>2 DEF ReadHeader, Admissible
    <2> HIDE DEF w
    <2>5. QED
      BY <2>1, <2>3, <2>4, MoveKeeps
  <1>3. CASE ReadLinesToUpdate(t)
    <2>1. PICK w \in {"clear", "header"} : pc' = [pc EXCEPT ![t] = w]
      BY <1>3 DEF ReadLinesToUpdate, Goto
    <2>2. /\ UNCHANGED <<order, receipts, hdr, job>>
          /\ pc[t] = "lines" /\ job[t].kind = "UPDATE"
      BY <1>3 DEF ReadLinesToUpdate
    <2>3. w \in Places(job[t].kind)
      BY <2>2 DEF Places
    <2>4. QED
      BY <2>1, <2>2, <2>3, MoveKeeps
  <1>4. CASE ReadLinesToReceive(t)
    <2>1. /\ UNCHANGED <<order, receipts, hdr, job>>
          /\ pc' = [pc EXCEPT ![t] = "receipt"]
          /\ pc[t] = "lines" /\ job[t].kind = "RECEIVE"
      BY <1>4 DEF ReadLinesToReceive, Goto
    <2>2. "receipt" \in Places(job[t].kind)
      BY <2>1 DEF Places
    <2>3. QED
      BY <2>1, <2>2, MoveKeeps
  <1>5. QED
    BY <1>2, <1>3, <1>4

LEMMA ClearsKeep ==
    ASSUME OrderInv, NEW t \in Tx, StartClear(t) \/ ClearLines(t)
    PROVE  OrderInv'
  <1>1. PICK w \in {"clearing", "header"} : pc' = [pc EXCEPT ![t] = w]
    BY DEF StartClear, ClearLines, Goto
  <1>2. /\ UNCHANGED <<order, receipts, hdr, job>>
        /\ pc[t] \in {"clear", "clearing"}
    BY DEF StartClear, ClearLines
  <1>3. job[t].kind \in Kind /\ pc[t] \in Places(job[t].kind)
    BY <1>2, KindOf DEF OrderInv, PlaceInv
  <1>4. job[t].kind = "UPDATE"
    BY <1>2, <1>3 DEF Places, Kind
  <1>5. w \in Places(job[t].kind)
    BY <1>4 DEF Places
  <1>6. QED
    BY <1>1, <1>2, <1>4, <1>5, MoveKeeps

LEMMA HeaderWritesKeep ==
    ASSUME OrderInv, NEW t \in Tx,
           WriteHeader(t) \/ SetStatus(t) \/ CloseOrder(t)
    PROVE  OrderInv'
  <1>1. pc[t] \in {"header", "status", "close"}
    BY DEF WriteHeader, WriteHeaderAs, SetStatus, CloseOrder
  <1>2. job[t].kind \in Kind /\ pc[t] \in Places(job[t].kind)
    BY <1>1, KindOf DEF OrderInv, PlaceInv
  <1>3. DOMAIN order = {"status", "total"}
    BY DEF OrderInv, ShapeInv
  <1>4. CASE WriteHeader(t)
    <2>0. PICK h : h = [order EXCEPT !.total = local[t].total]
      OBVIOUS
    <2>1. /\ HeaderFree(t) /\ OrderExists /\ pc[t] = "header"
          /\ UNCHANGED <<order, receipts, job>>
          /\ hdr' = [hdr EXCEPT ![t] = h] /\ pc' = [pc EXCEPT ![t] = "commit"]
      BY <1>4, <2>0 DEF WriteHeader, WriteHeaderAs, Goto
    <2>2. job[t].kind = "UPDATE"
      BY <1>2, <2>1 DEF Places, Kind
    <2>3. DOMAIN h = {"status", "total"} /\ h.status = order.status
      BY <1>3, <2>0
    <2>4. Writes(t, h)
      BY <2>1, <2>2, <2>3 DEF Writes
    <2>5. QED
      BY <2>4, WriteKeeps
  <1>5. CASE SetStatus(t)
    <2>0. PICK h : h = [order EXCEPT !.status =
                        IF job[t].kind = "APPROVE" THEN "APPROVED"
                                                   ELSE "CANCELLED"]
      OBVIOUS
    <2>1. /\ HeaderFree(t) /\ OrderExists /\ pc[t] = "status"
          /\ UNCHANGED <<order, receipts, job>>
          /\ hdr' = [hdr EXCEPT ![t] = h] /\ pc' = [pc EXCEPT ![t] = "commit"]
      BY <1>5, <2>0 DEF SetStatus, Goto
    <2>2. job[t].kind # "UPDATE"
      BY <1>2, <2>1 DEF Places, Kind
    <2>3. DOMAIN h = {"status", "total"} /\ h.status \in Left
      BY <1>3, <2>0 DEF Left
    <2>4. Writes(t, h)
      BY <2>1, <2>2, <2>3 DEF Writes
    <2>5. QED
      BY <2>4, WriteKeeps
  <1>6. CASE CloseOrder(t)
    <2>0. PICK h : h = [order EXCEPT !.status = "RECEIVED"]
      OBVIOUS
    <2>1. /\ HeaderFree(t) /\ OrderExists /\ pc[t] = "close"
          /\ UNCHANGED <<order, receipts, job>>
          /\ hdr' = [hdr EXCEPT ![t] = h] /\ pc' = [pc EXCEPT ![t] = "commit"]
      BY <1>6, <2>0 DEF CloseOrder, Goto
    <2>2. job[t].kind # "UPDATE"
      BY <1>2, <2>1 DEF Places, Kind
    <2>3. DOMAIN h = {"status", "total"} /\ h.status \in Left
      BY <1>3, <2>0 DEF Left
    <2>4. Writes(t, h)
      BY <2>1, <2>2, <2>3 DEF Writes
    <2>5. QED
      BY <2>4, WriteKeeps
  <1>7. QED
    BY <1>4, <1>5, <1>6

\* The deletion meets no receipt, inserted or committed, and no header
\* somebody has written.
LEMMA DeleteKeeps == ASSUME OrderInv, NEW t \in Tx, DeleteOrder(t) PROVE OrderInv'
  <1> USE DEF OrderInv
  <1>1. /\ pc[t] = "delete" /\ HeaderFree(t)
        /\ \A u \in Tx : ~KeyShare(u)
        /\ \A n \in DOMAIN receipts : ~receipts[n].against
        /\ order'.status = "GONE" /\ DOMAIN order' = {"status", "total"}
        /\ receipts' = receipts
        /\ pc' = [pc EXCEPT ![t] = "idle"]
        /\ hdr' = [hdr EXCEPT ![t] = None]
        /\ job' = [job EXCEPT ![t] = SomeJob]
    BY DEF DeleteOrder, End, Goto
  <1>2. \A u \in Tx : hdr'[u] = None
    BY <1>1 DEF HeaderFree, ShapeInv
  <1>3. ShapeInv'
    BY <1>1, SomeJobIsJob DEF ShapeInv
  <1>4. PlaceInv'
    BY <1>1 DEF PlaceInv, ShapeInv
  <1>5. HeaderInv'
    BY <1>2 DEF HeaderInv
  <1>6. ReceiptInv'
    BY <1>1 DEF ReceiptInv, ShapeInv, KeyShare, Inserted
  <1>7. ReceiptsKeepTheirOrder'
    BY <1>1 DEF ReceiptsKeepTheirOrder
  <1>8. QED
    BY <1>3, <1>4, <1>5, <1>6, <1>7

LEMMA ReceivesKeep ==
    ASSUME OrderInv, NEW t \in Tx,
           InsertReceipt(t) \/ AdvanceLine(t) \/ CheckComplete(t)
    PROVE  OrderInv'
  <1>1. /\ pc[t] \in {"receipt", "advance", "check"}
        /\ UNCHANGED <<order, receipts, hdr, job>>
    BY DEF InsertReceipt, AdvanceLine, AdvanceWith, CheckComplete, CheckWith
  <1>2. job[t].kind \in Kind /\ pc[t] \in Places(job[t].kind)
    BY <1>1, KindOf DEF OrderInv, PlaceInv
  <1>3. CASE InsertReceipt(t)
    <2>2. pc[t] = "receipt" /\ (job[t].kind = "RECEIVE" => OrderExists)
      BY <1>3 DEF InsertReceipt
    <2>5. job[t].kind \in {"RECEIVE", "DIRECT"}
      BY <1>2, <2>2 DEF Places, Kind
    <2>1. PICK w \in {"advance", "check", "commit"} :
              /\ pc' = [pc EXCEPT ![t] = w]
              /\ job[t].kind = "RECEIVE" => w \in {"advance", "check"}
              /\ job[t].kind # "RECEIVE" => w = "commit"
      <3>1. CASE job[t].kind = "DIRECT"
        BY <1>3, <3>1 DEF InsertReceipt, Goto
      <3>2. CASE job[t].kind = "RECEIVE" /\ local[t].updates = <<>>
        BY <1>3, <3>2 DEF InsertReceipt, Goto
      <3>3. CASE job[t].kind = "RECEIVE" /\ local[t].updates # <<>>
        BY <1>3, <3>3 DEF InsertReceipt, Goto
      <3>4. QED
        BY <2>5, <3>1, <3>2, <3>3
    <2>3. w \in Places(job[t].kind)
      BY <2>1, <2>5 DEF Places
    <2>4. QED
      BY <1>1, <2>1, <2>2, <2>3, MoveKeeps DEF OrderExists
  <1>4. CASE AdvanceLine(t) \/ CheckComplete(t)
    <2>1. PICK w \in {"advance", "check", "commit", "close"} :
              pc' = [pc EXCEPT ![t] = w]
      BY <1>4 DEF AdvanceLine, AdvanceWith, CheckComplete, CheckWith, Goto
    <2>2. pc[t] \in {"advance", "check"}
      BY <1>4 DEF AdvanceLine, AdvanceWith, CheckComplete, CheckWith
    <2>3. job[t].kind = "RECEIVE"
      BY <1>2, <2>2 DEF Places, Kind
    <2>4. KeyShare(t)
      BY <2>2, <2>3 DEF KeyShare, Inserted
    <2>5. w \in Places(job[t].kind)
      BY <2>3 DEF Places
    <2>6. QED
      BY <1>1, <2>1, <2>2, <2>4, <2>5, MoveKeeps
  <1>5. QED
    BY <1>3, <1>4

\* The commit installs the header its request wrote, and its receipt.
LEMMA CommitKeeps == ASSUME OrderInv, NEW t \in Tx, Commit(t) PROVE OrderInv'
  <1> USE DEF OrderInv
  <1>1. /\ pc[t] = "commit"
        /\ order' = IF hdr[t] = None THEN order ELSE hdr[t]
        /\ pc' = [pc EXCEPT ![t] = "idle"]
        /\ hdr' = [hdr EXCEPT ![t] = None]
        /\ job' = [job EXCEPT ![t] = SomeJob]
    BY DEF Commit, End, Goto
  <1>2. ~KeyShare(t) =>
            \A n \in DOMAIN receipts' :
                receipts'[n].against =>
                    n \in DOMAIN receipts /\ receipts[n].against
    <2>1. CASE ~Inserted(t)
      BY <2>1 DEF Commit
    <2>2. CASE Inserted(t) /\ ~KeyShare(t)
      <3>1. job[t].kind # "RECEIVE"
        BY <2>2 DEF KeyShare
      <3>2. receipts' = WithReceipt(t)
        BY <2>2 DEF Commit
      <3>3. QED
        BY <3>1, <3>2 DEF WithReceipt
    <2>3. QED
      BY <2>1, <2>2
  <1>3. \/ order'.status = order.status
        \/ order.status \in Status /\ order'.status \in Left
    BY <1>1 DEF HeaderInv
  <1>4. ShapeInv'
    BY <1>1, <1>3, SomeJobIsJob DEF ShapeInv, HeaderInv, Left, Status
  <1>5. PlaceInv'
    BY <1>1 DEF PlaceInv, ShapeInv
  <1>6. HeaderInv'
    <2>1. ASSUME NEW u \in Tx, hdr'[u] # None PROVE u # t /\ hdr[u] = hdr'[u]
      BY <1>1, <2>1 DEF ShapeInv
    <2>2. (\E u \in Tx : hdr'[u] # None) => order' = order
      BY <1>1, <2>1 DEF HeaderInv
    <2>3. QED
      BY <1>1, <2>1, <2>2 DEF HeaderInv, ShapeInv
  <1>7. ReceiptInv'
    BY <1>1, <1>3 DEF ReceiptInv, ShapeInv, KeyShare, Inserted, Left, Status
  <1>8. ReceiptsKeepTheirOrder'
    <2>1. CASE KeyShare(t)
      <3>1. order.status \in Left
        BY <1>1, <2>1 DEF ReceiptInv, KeyShare, Inserted
      <3>2. order'.status \in Left
        BY <1>3, <3>1
      <3>3. QED
        BY <3>2 DEF ReceiptsKeepTheirOrder, Left
    <2>2. CASE ~KeyShare(t)
      BY <1>2, <1>3, <2>2 DEF ReceiptsKeepTheirOrder, Left
    <2>3. QED
      BY <2>1, <2>2
  <1>9. QED
    BY <1>4, <1>5, <1>6, <1>7, <1>8

-----------------------------------------------------------------------------
LEMMA OrderStep == OrderInv /\ [Next]_vars => OrderInv'
  <1> SUFFICES ASSUME OrderInv, [Next]_vars PROVE OrderInv'
    OBVIOUS
  <1>1. CASE Create
    BY <1>1, CreateKeeps
  <1>2. ASSUME NEW t \in Tx, Begin(t) PROVE OrderInv'
    BY <1>2, BeginKeeps
  <1>3. ASSUME NEW t \in Tx, Step(t) PROVE OrderInv'
    BY <1>3, ReadsKeep, ClearsKeep, HeaderWritesKeep, DeleteKeeps,
       ReceivesKeep, CommitKeeps, RollbackKeeps DEF Step, Refuse, Abort
  <1>4. ASSUME NEW t \in Tx, Interrupt(t) \/ DeadlockVictim(t) PROVE OrderInv'
    BY <1>4, RollbackKeeps DEF Interrupt, DeadlockVictim
  <1>5. CASE UNCHANGED vars
    BY <1>5 DEF vars, txVars, OrderInv, ShapeInv, PlaceInv, HeaderInv,
                ReceiptInv, ReceiptsKeepTheirOrder, KeyShare, Inserted
  <1>6. QED
    BY <1>1, <1>2, <1>3, <1>4, <1>5 DEF Next

\* Whatever the requests and their interleaving, an order that has receipts
\* is never deleted and never a DRAFT again.
THEOREM ReceiptsKeepOrder == Spec => []ReceiptsKeepTheirOrder
  <1>1. OrderInv => ReceiptsKeepTheirOrder
    BY DEF OrderInv
  <1>2. QED
    BY <1>1, OrderInit, OrderStep, PTL DEF Spec

\* Row locks work: no two open transactions have written the header of the
\* same order, and one that has keeps the status its edit found.
THEOREM HeaderWrittenOnce == Spec => []HeaderInv
  <1>1. OrderInv => HeaderInv
    BY DEF OrderInv
  <1>2. QED
    BY <1>1, OrderInit, OrderStep, PTL DEF Spec

-----------------------------------------------------------------------------
(* Types, but for what comes out of the matching of a receipt *)

RowTyped(r) ==
    /\ DOMAIN r = {"product", "qty", "unitCost", "received"}
    /\ r.qty \in Nat /\ r.unitCost \in Nat

RowsTyped(rows) ==
    /\ DOMAIN rows \subseteq 1 .. nextLine - 1
    /\ \A l \in DOMAIN rows : rows[l] = None \/ RowTyped(rows[l])

TypedInv ==
    /\ order \in Header
    /\ nextLine \in Nat \ {0}
    /\ RowsTyped(lines) /\ \A l \in DOMAIN lines : RowTyped(lines[l])
    /\ lines = [l \in DOMAIN lines |-> lines[l]]
    /\ hdr \in [Tx -> Header \cup {None}]
    /\ DOMAIN own = Tx /\ \A t \in Tx : RowsTyped(own[t])
    /\ DOMAIN local = Tx
    /\ \A t \in Tx : /\ DOMAIN local[t] = {"targets", "total", "costed", "updates"}
                     /\ local[t].total \in Nat

LEMMA TotalNat ==
    ASSUME NEW ls, IsFiniteSet(DOMAIN ls),
           \A i \in DOMAIN ls : ls[i].qty \in Nat /\ ls[i].unitCost \in Nat
    PROVE  TotalOf(ls) \in Nat
  <1> DEFINE f == [i \in DOMAIN ls |-> ls[i].qty * ls[i].unitCost]
  <1>1. \A i \in DOMAIN f : f[i] \in Nat
    OBVIOUS
  <1>2. DOMAIN f = DOMAIN ls
    OBVIOUS
  <1> HIDE DEF f
  <1>3. SumOf(f) \in Nat
    BY <1>1, <1>2, SumOfNat
  <1>4. QED
    BY <1>3 DEF TotalOf, f

LEMMA GivenTotal ==
    ASSUME NEW ls \in OrderLines PROVE TotalOf(ls) \in Nat
  <1>1. ls \in Seq(OrderLine)
    BY OrderLinesAssumption
  <1>2. DOMAIN ls = 1 .. Len(ls) /\ Len(ls) \in Nat
    BY <1>1
  <1>3. IsFiniteSet(DOMAIN ls)
    BY <1>2, FS_Interval
  <1>4. \A i \in DOMAIN ls : ls[i] \in OrderLine
    BY <1>1, <1>2
  <1>5. \A i \in DOMAIN ls : ls[i].qty \in Nat /\ ls[i].unitCost \in Nat
    BY <1>4 DEF OrderLine
  <1>6. QED
    BY <1>3, <1>5, TotalNat

LEMMA ReadTotal == ASSUME TypedInv PROVE TotalOf(lines) \in Nat
  <1>1. DOMAIN lines \in SUBSET (1 .. nextLine - 1) /\ nextLine \in Nat
    BY DEF TypedInv, RowsTyped
  <1>2. IsFiniteSet(DOMAIN lines)
    <2>1. 1 \in Int /\ nextLine - 1 \in Int
      BY <1>1
    <2>2. IsFiniteSet(1 .. nextLine - 1)
      BY <2>1, FS_Interval
    <2>3. QED
      BY <1>1, <2>2, FS_Subset
  <1>3. \A i \in DOMAIN lines : lines[i].qty \in Nat /\ lines[i].unitCost \in Nat
    BY DEF TypedInv, RowTyped
  <1>4. QED
    BY <1>2, <1>3, TotalNat

\* The rows of given lines, at the ids the sequence hands out.
LEMMA NewRows ==
    ASSUME nextLine \in Nat \ {0}, NEW ls \in OrderLines \cup {<<>>}
    PROVE  /\ Len(ls) \in Nat
           /\ DOMAIN Rows(ls) = nextLine .. nextLine + Len(ls) - 1
           /\ \A l \in DOMAIN Rows(ls) :
                  RowTyped(Rows(ls)[l]) /\ Rows(ls)[l].received = 0
  <1>1. ls \in Seq(OrderLine)
    <2>1. CASE ls \in OrderLines
      BY <2>1, OrderLinesAssumption
    <2>2. CASE ls = <<>>
      BY <2>2
    <2>3. QED
      BY <2>1, <2>2
  <1>2. Len(ls) \in Nat /\ \A i \in 1 .. Len(ls) : ls[i] \in OrderLine
    BY <1>1
  <1>3. ASSUME NEW l \in nextLine .. nextLine + Len(ls) - 1
        PROVE  RowTyped(Rows(ls)[l]) /\ Rows(ls)[l].received = 0
    <2>1. l - nextLine + 1 \in 1 .. Len(ls)
      BY <1>2
    <2>2. ls[l - nextLine + 1] \in OrderLine
      BY <1>2, <2>1
    <2>3. QED
      BY <2>2 DEF Rows, RowTyped, OrderLine
  <1>4. QED
    BY <1>2, <1>3 DEF Rows

LEMMA TypedInit == Init => TypedInv
  <1> SUFFICES ASSUME Init PROVE TypedInv
    OBVIOUS
  <1>1. order \in Header /\ nextLine \in Nat \ {0} /\ hdr \in [Tx -> Header \cup {None}]
    BY DEF Init, Header
  <1>2. RowsTyped(NoRows) /\ NoRows = [l \in DOMAIN NoRows |-> NoRows[l]] /\ DOMAIN NoRows = {}
    BY DEF NoRows, RowsTyped
  <1>3. QED
    BY <1>1, <1>2 DEF Init, TypedInv, NoLocal

\* A transaction that ends leaves the committed rows typed.
LEMMA TypedEnd ==
    ASSUME TypedInv, NEW t \in Tx, End(t),
           order' \in Header, RowsTyped(lines'),
           \A l \in DOMAIN lines' : RowTyped(lines'[l]),
           lines' = [l \in DOMAIN lines' |-> lines'[l]]
    PROVE  TypedInv'
  <1>1. /\ hdr' = [hdr EXCEPT ![t] = None] /\ own' = [own EXCEPT ![t] = NoRows]
        /\ local' = [local EXCEPT ![t] = NoLocal] /\ nextLine' = nextLine
    BY DEF End
  <1>2. hdr' \in [Tx -> Header \cup {None}] /\ DOMAIN own' = Tx /\ DOMAIN local' = Tx
    BY <1>1 DEF TypedInv
  <1>3. ASSUME NEW u \in Tx PROVE RowsTyped(own'[u])
    BY <1>1, <1>3 DEF TypedInv, RowsTyped, NoRows
  <1>4. ASSUME NEW u \in Tx
        PROVE  /\ DOMAIN local'[u] = {"targets", "total", "costed", "updates"}
               /\ local'[u].total \in Nat
    BY <1>1 DEF TypedInv, NoLocal
  <1>5. QED
    BY <1>1, <1>2, <1>3, <1>4 DEF TypedInv, RowsTyped

\* A statement changes at most the local values of its request.
LEMMA TypedLocal ==
    ASSUME TypedInv, NEW t \in Tx,
           UNCHANGED <<order, lines, nextLine, hdr, own>>,
           DOMAIN local' = Tx, \A u \in Tx \ {t} : local'[u] = local[u],
           DOMAIN local'[t] = DOMAIN local[t], local'[t].total \in Nat
    PROVE  TypedInv'
  BY DEF TypedInv, RowsTyped

\* A statement writes a header, rows, or both.
LEMMA TypedWrite ==
    ASSUME TypedInv, NEW t \in Tx, UNCHANGED <<order, lines>>,
           nextLine' \in Nat, nextLine <= nextLine',
           DOMAIN hdr' = Tx, \A u \in Tx \ {t} : hdr'[u] = hdr[u],
           hdr'[t] \in Header \cup {None},
           hdr' = [u \in Tx |-> hdr'[u]],
           DOMAIN own' = Tx, \A u \in Tx \ {t} : own'[u] = own[u],
           DOMAIN own'[t] \subseteq 1 .. nextLine' - 1,
           \A l \in DOMAIN own'[t] : own'[t][l] = None \/ RowTyped(own'[t][l]),
           DOMAIN local' = Tx,
           \A u \in Tx : DOMAIN local'[u] = DOMAIN local[u]
                         /\ local'[u].total = local[u].total
    PROVE  TypedInv'
  <1>1. 1 .. nextLine - 1 \subseteq 1 .. nextLine' - 1
    BY DEF TypedInv
  <1>2. RowsTyped(lines)' /\ \A u \in Tx : RowsTyped(own[u])'
    BY <1>1 DEF TypedInv, RowsTyped
  <1>3. hdr' \in [Tx -> Header \cup {None}]
    BY DEF TypedInv
  <1>4. QED
    BY <1>2, <1>3 DEF TypedInv

LEMMA TypedCreate == ASSUME TypedInv, Create PROVE TypedInv'
  <1>1. PICK ls \in OrderLines :
            /\ order' = [status |-> "DRAFT", total |-> TotalOf(ls)]
            /\ lines' = Rows(ls) /\ nextLine' = nextLine + Len(ls)
    BY DEF Create
  <1>2. UNCHANGED <<hdr, own, local>>
    BY DEF Create, txVars
  <1>3. order' \in Header
    BY <1>1, GivenTotal DEF Header, Status
  <1>4. /\ Len(ls) \in Nat /\ nextLine \in Nat \ {0}
        /\ DOMAIN Rows(ls) = nextLine .. nextLine + Len(ls) - 1
        /\ \A l \in DOMAIN Rows(ls) : RowTyped(Rows(ls)[l])
    BY NewRows DEF TypedInv
  <1>5. nextLine' \in Nat \ {0} /\ 1 .. nextLine - 1 \subseteq 1 .. nextLine' - 1
    BY <1>1, <1>4
  <1>6. RowsTyped(lines)' /\ \A l \in DOMAIN lines' : RowTyped(lines'[l])
    BY <1>1, <1>4 DEF RowsTyped
  <1>7. Rows(ls) = [l \in DOMAIN Rows(ls) |-> Rows(ls)[l]]
    BY DEF Rows
  <1>8. \A u \in Tx : RowsTyped(own[u])'
    BY <1>2, <1>5 DEF TypedInv, RowsTyped
  <1>9. QED
    BY <1>1, <1>2, <1>3, <1>5, <1>6, <1>7, <1>8 DEF TypedInv

LEMMA TypedBegin == ASSUME TypedInv, NEW t \in Tx, Begin(t) PROVE TypedInv'
  <1>1. PICK j \in Job : local' = IF j.kind = "DIRECT"
                                  THEN [local EXCEPT ![t].costed = j.lines] ELSE local
    BY DEF Begin
  <1>2. UNCHANGED <<order, lines, nextLine, hdr, own>>
    BY DEF Begin
  <1>3. /\ DOMAIN local' = Tx /\ \A u \in Tx \ {t} : local'[u] = local[u]
        /\ DOMAIN local'[t] = DOMAIN local[t] /\ local'[t].total = local[t].total
    BY <1>1 DEF TypedInv
  <1>4. local'[t].total \in Nat
    BY <1>3 DEF TypedInv
  <1>5. QED
    BY <1>2, <1>3, <1>4, TypedLocal

LEMMA TypedRead ==
    ASSUME OrderInv, TypedInv, NEW t \in Tx,
           ReadHeader(t) \/ ReadLinesToUpdate(t) \/ ReadLinesToReceive(t)
             \/ StartClear(t) \/ InsertReceipt(t) \/ CheckComplete(t)
    PROVE  TypedInv'
  <1>1. UNCHANGED <<order, lines, nextLine, hdr, own>>
    BY DEF ReadHeader, ReadLinesToUpdate, ReadLinesToReceive, StartClear,
           InsertReceipt, CheckComplete, CheckWith
  <1>2. DOMAIN local = Tx /\ local[t].total \in Nat
        /\ DOMAIN local[t] = {"targets", "total", "costed", "updates"}
    BY DEF TypedInv
  <1>3. CASE ReadHeader(t) \/ InsertReceipt(t) \/ CheckComplete(t)
    <2>1. local' = local
      BY <1>3 DEF ReadHeader, InsertReceipt, CheckComplete, CheckWith
    <2>2. QED
      BY <1>1, <1>2, <2>1, TypedLocal
  <1>4. CASE ReadLinesToReceive(t)
    <2>1. /\ DOMAIN local' = Tx /\ \A u \in Tx \ {t} : local'[u] = local[u]
          /\ DOMAIN local'[t] = DOMAIN local[t] /\ local'[t].total = local[t].total
      BY <1>2, <1>4 DEF ReadLinesToReceive
    <2>2. QED
      BY <1>1, <1>2, <2>1, TypedLocal
  <1>5. CASE StartClear(t)
    <2>1. /\ DOMAIN local' = Tx /\ \A u \in Tx \ {t} : local'[u] = local[u]
          /\ DOMAIN local'[t] = DOMAIN local[t] /\ local'[t].total = local[t].total
      BY <1>2, <1>5 DEF StartClear
    <2>2. QED
      BY <1>1, <1>2, <2>1, TypedLocal
  <1>6. CASE ReadLinesToUpdate(t)
    <2> DEFINE n == TotalOf(IF job[t].lines # <<>> THEN job[t].lines ELSE lines)
    <2>1. job[t] \in Job /\ job[t].kind = "UPDATE"
      BY <1>6 DEF ReadLinesToUpdate, OrderInv, ShapeInv
    <2>2. job[t].lines \in OrderLines \cup {<<>>}
      BY <2>1, JobAssumption
    <2>3. n \in Nat
      BY <2>2, GivenTotal, ReadTotal
    <2>4. local' = [local EXCEPT ![t].total = n]
      BY <1>6 DEF ReadLinesToUpdate
    <2> HIDE DEF n
    <2>5. /\ DOMAIN local' = Tx /\ \A u \in Tx \ {t} : local'[u] = local[u]
          /\ DOMAIN local'[t] = DOMAIN local[t] /\ local'[t].total = n
      BY <1>2, <2>4
    <2>6. QED
      BY <1>1, <2>3, <2>5, TypedLocal
  <1>7. QED
    BY <1>3, <1>4, <1>5, <1>6

LEMMA TypedWrites ==
    ASSUME OrderInv, TypedInv, NEW t \in Tx,
           ClearLines(t) \/ WriteHeader(t) \/ SetStatus(t) \/ CloseOrder(t)
             \/ AdvanceLine(t)
    PROVE  TypedInv'
  <1>1. /\ order \in Header /\ nextLine \in Nat \ {0}
        /\ hdr \in [Tx -> Header \cup {None}]
        /\ DOMAIN own = Tx /\ RowsTyped(own[t]) /\ RowsTyped(lines)
        /\ \A l \in DOMAIN lines : RowTyped(lines[l])
        /\ DOMAIN local = Tx /\ local[t].total \in Nat
        /\ DOMAIN local[t] = {"targets", "total", "costed", "updates"}
    BY DEF TypedInv
  <1>2. CASE ClearLines(t)
    <2>1. /\ own' = [own EXCEPT ![t] =
                        [l \in local[t].targets \cap DOMAIN lines |-> None]]
          /\ UNCHANGED <<order, lines, nextLine, hdr, local>>
      BY <1>2 DEF ClearLines
    <2>2. DOMAIN own'[t] \subseteq 1 .. nextLine - 1
          /\ \A l \in DOMAIN own'[t] : own'[t][l] = None
      BY <1>1, <2>1 DEF RowsTyped
    <2>3. QED
      BY <1>1, <2>1, <2>2, TypedWrite
  <1>3. CASE WriteHeader(t)
    <2>1. pc[t] = "header" /\ job[t] \in Job
      BY <1>3 DEF WriteHeader, WriteHeaderAs, OrderInv, ShapeInv
    <2>2. job[t].kind = "UPDATE"
      BY <2>1, KindOf DEF OrderInv, PlaceInv, Places, Kind
    <2>3. job[t].lines \in OrderLines \cup {<<>>}
      BY <2>1, <2>2, JobAssumption
    <2> DEFINE ls == job[t].lines
    <2>4. /\ Len(ls) \in Nat
          /\ DOMAIN Rows(ls) = nextLine .. nextLine + Len(ls) - 1
          /\ \A l \in DOMAIN Rows(ls) : RowTyped(Rows(ls)[l])
      BY <1>1, <2>3, NewRows
    <2>5. /\ own' = [own EXCEPT ![t] = Over(Rows(ls), @)]
          /\ hdr' = [hdr EXCEPT ![t] = [order EXCEPT !.total = local[t].total]]
          /\ nextLine' = nextLine + Len(ls)
          /\ UNCHANGED <<order, lines, local>>
      BY <1>3 DEF WriteHeader, WriteHeaderAs
    <2>6. [order EXCEPT !.total = local[t].total] \in Header
      BY <1>1 DEF Header
    <2>7. own'[t] = Over(Rows(ls), own[t])
      BY <1>1, <2>5
    <2> HIDE DEF ls
    <2>8. /\ DOMAIN own'[t] = DOMAIN Rows(ls) \cup DOMAIN own[t]
          /\ \A l \in DOMAIN own'[t] :
                 own'[t][l] = IF l \in DOMAIN Rows(ls) THEN Rows(ls)[l] ELSE own[t][l]
      BY <2>7 DEF Over
    <2>9. DOMAIN own'[t] \subseteq 1 .. nextLine' - 1
          /\ \A l \in DOMAIN own'[t] : own'[t][l] = None \/ RowTyped(own'[t][l])
      BY <1>1, <2>4, <2>5, <2>8 DEF RowsTyped
    <2>10. /\ DOMAIN hdr' = Tx /\ hdr'[t] \in Header \cup {None}
           /\ hdr' = [u \in Tx |-> hdr'[u]] /\ \A u \in Tx \ {t} : hdr'[u] = hdr[u]
      BY <1>1, <2>5, <2>6
    <2>11. DOMAIN own' = Tx /\ \A u \in Tx \ {t} : own'[u] = own[u]
      BY <1>1, <2>5
    <2>12. nextLine' \in Nat /\ nextLine <= nextLine'
      BY <1>1, <2>4, <2>5
    <2>13. QED
      BY <1>1, <2>5, <2>9, <2>10, <2>11, <2>12, TypedWrite
  <1>4. CASE SetStatus(t) \/ CloseOrder(t)
    <2>1. PICK h \in Header : hdr' = [hdr EXCEPT ![t] = h]
      <3>1. [order EXCEPT !.status = "RECEIVED"] \in Header
            /\ [order EXCEPT !.status = IF job[t].kind = "APPROVE" THEN "APPROVED"
                                                                   ELSE "CANCELLED"] \in Header
        BY <1>1 DEF Header, Status
      <3>2. QED
        BY <1>4, <3>1 DEF SetStatus, CloseOrder
    <2>2. UNCHANGED <<order, lines, nextLine, own, local>>
      BY <1>4 DEF SetStatus, CloseOrder
    <2>3. /\ DOMAIN hdr' = Tx /\ hdr'[t] \in Header \cup {None}
          /\ hdr' = [u \in Tx |-> hdr'[u]] /\ \A u \in Tx \ {t} : hdr'[u] = hdr[u]
      BY <1>1, <2>1
    <2>4. QED
      BY <1>1, <2>2, <2>3, TypedWrite DEF RowsTyped
  <1>5. CASE AdvanceLine(t)
    <2> DEFINE id == NextUpdate(t).line
    <2>1. /\ id \in DOMAIN lines
          /\ own' = [own EXCEPT ![t] = Over([l \in {id} |-> Advanced(t)], @)]
          /\ local' = [local EXCEPT ![t].updates = Tail(@)]
          /\ UNCHANGED <<order, lines, nextLine, hdr>>
      BY <1>5 DEF AdvanceLine, AdvanceWith
    <2>2. RowTyped(Advanced(t))
      <3>1. RowTyped(lines[id])
        BY <1>1, <2>1
      <3>2. PICK v : Advanced(t) = [lines[id] EXCEPT !.received = v]
        BY DEF Advanced
      <3> HIDE DEF id
      <3>3. QED
        BY <3>1, <3>2 DEF RowTyped
    <2>3. own'[t] = Over([l \in {id} |-> Advanced(t)], own[t])
      BY <1>1, <2>1
    <2> HIDE DEF id
    <2>4. /\ DOMAIN own'[t] = {id} \cup DOMAIN own[t]
          /\ \A l \in DOMAIN own'[t] :
                 own'[t][l] = IF l = id THEN Advanced(t) ELSE own[t][l]
      BY <2>3 DEF Over
    <2>5. DOMAIN own'[t] \subseteq 1 .. nextLine - 1
          /\ \A l \in DOMAIN own'[t] : own'[t][l] = None \/ RowTyped(own'[t][l])
      BY <1>1, <2>1, <2>2, <2>4 DEF RowsTyped
    <2>6. /\ DOMAIN own' = Tx /\ \A u \in Tx \ {t} : own'[u] = own[u]
          /\ DOMAIN local' = Tx
          /\ \A u \in Tx : DOMAIN local'[u] = DOMAIN local[u]
                         /\ local'[u].total = local[u].total
      BY <1>1, <2>1
    <2>7. QED
      BY <1>1, <2>1, <2>5, <2>6, TypedWrite
  <1>6. QED
    BY <1>2, <1>3, <1>4, <1>5

LEMMA SeenTyped ==
    ASSUME TypedInv, NEW t \in Tx
    PROVE  /\ RowsTyped(Seen(t)) /\ \A l \in DOMAIN Seen(t) : RowTyped(Seen(t)[l])
           /\ Seen(t) = [l \in DOMAIN Seen(t) |-> Seen(t)[l]]
  <1>1. RowsTyped(lines) /\ RowsTyped(own[t]) /\ \A l \in DOMAIN lines : RowTyped(lines[l])
    BY DEF TypedInv
  <1>2. \A l \in DOMAIN Seen(t) :
            RowTyped(Seen(t)[l]) /\ l \in DOMAIN lines \cup DOMAIN own[t]
    BY <1>1 DEF Seen, RowsTyped
  <1>3. RowsTyped(Seen(t))
    BY <1>1, <1>2 DEF RowsTyped
  <1>4. QED
    BY <1>2, <1>3 DEF Seen

LEMMA TypedEnds ==
    ASSUME TypedInv, NEW t \in Tx, Rollback(t) \/ DeleteOrder(t) \/ Commit(t)
    PROVE  TypedInv'
  <1>1. End(t) /\ nextLine' = nextLine
    BY DEF Rollback, DeleteOrder, Commit, End
  <1>2. CASE Rollback(t)
    BY <1>1, <1>2, TypedEnd DEF Rollback, TypedInv, RowsTyped
  <1>3. CASE DeleteOrder(t)
    <2>1. order' \in Header
      BY <1>3 DEF DeleteOrder, Header
    <2>2. lines' = NoRows /\ DOMAIN NoRows = {} /\ NoRows = [l \in DOMAIN NoRows |-> NoRows[l]]
      BY <1>3 DEF DeleteOrder, NoRows
    <2>3. RowsTyped(lines') /\ \A l \in DOMAIN lines' : RowTyped(lines'[l])
      BY <2>2 DEF RowsTyped
    <2>4. QED
      BY <1>1, <2>1, <2>2, <2>3, TypedEnd
  <1>4. CASE Commit(t)
    <2>1. order' \in Header
      BY <1>4 DEF Commit, TypedInv
    <2>2. lines' = Seen(t)
      BY <1>4 DEF Commit
    <2>3. QED
      BY <1>1, <2>1, <2>2, SeenTyped, TypedEnd
  <1>5. QED
    BY <1>2, <1>3, <1>4

LEMMA TypedStep == OrderInv /\ TypedInv /\ [Next]_vars => TypedInv'
  <1> SUFFICES ASSUME OrderInv, TypedInv, [Next]_vars PROVE TypedInv'
    OBVIOUS
  <1>1. CASE Create
    BY <1>1, TypedCreate
  <1>2. ASSUME NEW t \in Tx, Begin(t) PROVE TypedInv'
    BY <1>2, TypedBegin
  <1>3. ASSUME NEW t \in Tx, Step(t) PROVE TypedInv'
    BY <1>3, TypedRead, TypedWrites, TypedEnds DEF Step, Refuse, Abort
  <1>4. ASSUME NEW t \in Tx, Interrupt(t) \/ DeadlockVictim(t) PROVE TypedInv'
    BY <1>4, TypedEnds DEF Interrupt, DeadlockVictim
  <1>5. CASE UNCHANGED vars
    BY <1>5 DEF vars, txVars, TypedInv, RowsTyped
  <1>6. QED
    BY <1>1, <1>2, <1>3, <1>4, <1>5 DEF Next

-----------------------------------------------------------------------------
(* Which overlaps disturb the status of an order *)

\* A request has read its order and found its status acceptable.
Past(t, kind) == job[t].kind = kind /\ pc[t] \notin {"idle", "read"}

\* The history knows the transactions that are open together.
OverlapKnown ==
    \A t, u \in Tx :
        t # u /\ pc[t] # "idle" /\ pc[u] # "idle" =>
            {job[t].kind, job[u].kind} \in overlap

\* Nothing of the lines of a DRAFT was received yet.
RowsInv ==
    order.status = "DRAFT" =>
        \A l \in DOMAIN lines : lines[l].received = 0

\* Lines with units wait for some.
Awaited(rows) == UnitsOf(rows) => RemainsOf(rows)

\* What each kind of request writes.
WritesInv(t) ==
    /\ pc[t] = "idle" \/ job[t].kind \notin {"UPDATE", "RECEIVE"} => own[t] = NoRows
    /\ job[t].kind = "UPDATE" =>
           \A l \in DOMAIN own[t] :
               own[t][l] # None => own[t][l].received = 0
    /\ hdr[t] # None =>
           \/ job[t].kind = "UPDATE"
           \/ job[t].kind = "APPROVE" /\ hdr[t].status = "APPROVED"
           \/ job[t].kind = "CANCEL" /\ hdr[t].status = "CANCELLED"
           \/ job[t].kind = "RECEIVE" /\ hdr[t].status = "RECEIVED"

BaseInv ==
    /\ OrderInv /\ TypedInv /\ OverlapKnown /\ RowsInv
    /\ \A t \in Tx : WritesInv(t)

\* An edit and a receipt under way exclude each other, for one has read a
\* DRAFT and the other an APPROVED order.
EditsInv ==
    \/ Met({"UPDATE"}, {"APPROVE"})
    \/ \A t \in Tx : Past(t, "UPDATE") =>
           /\ order.status \in {"DRAFT", "CANCELLED", "GONE"}
           /\ \A u \in Tx : ~Past(u, "RECEIVE")

\* A receipt that has looked for lines left open will see the same at its end.
CheckedInv(t) ==
    job[t].kind = "RECEIVE" =>
        /\ pc[t] = "close" => ~RemainsOf(Seen(t))
        /\ pc[t] = "commit" => (hdr[t] = None <=> RemainsOf(Seen(t)))

\* The order a receipt found APPROVED is not RECEIVED by anybody else, and the
\* one an approval found as a DRAFT still waits for what it orders.
FreshInv(t) ==
    /\ Past(t, "RECEIVE") => order.status \in {"APPROVED", "CANCELLED", "GONE"}
    /\ Past(t, "APPROVE") =>
           order.status = "GONE" \/ (order.status \in Status /\ Awaited(lines))
    /\ CheckedInv(t)

Raced ==
    Met({"RECEIVE"}, {"RECEIVE", "APPROVE"}) \/ Met({"UPDATE"}, {"APPROVE"})
ClosedInv == Raced \/ (CompleteIsReceived /\ \A t \in Tx : FreshInv(t))

\* Who could take a cancellation back has overlapped with it.
CancelInv ==
    \/ Met({"CANCEL"}, {"APPROVE", "REMOVE", "RECEIVE"})
    \/ order.status = "CANCELLED" =>
           \A t \in Tx : \A k \in {"APPROVE", "REMOVE", "RECEIVE"} : ~Past(t, k)

\* The inductive invariant.
RaceInv == BaseInv /\ EditsInv /\ ClosedInv /\ CancelInv

-----------------------------------------------------------------------------
LEMMA Meet ==
    ASSUME OverlapKnown, NEW t \in Tx, NEW u \in Tx, t # u,
           pc[t] # "idle", pc[u] # "idle",
           NEW K, NEW L, job[t].kind \in K, job[u].kind \in L
    PROVE  Met(K, L)
  BY DEF OverlapKnown, Met

LEMMA MetGrows ==
    ASSUME overlap \subseteq overlap', NEW K, NEW L, Met(K, L) PROVE Met(K, L)'
  BY DEF Met

LEMMA SeenUnwritten == ASSUME TypedInv, NEW t \in Tx, own[t] = NoRows
                       PROVE  Seen(t) = lines
  <1>1. DOMAIN own[t] = {}
    BY DEF NoRows
  <1>2. DOMAIN lines \cup DOMAIN own[t] = DOMAIN lines
    BY <1>1
  <1>3. {l \in DOMAIN lines : l \in DOMAIN own[t] => own[t][l] # None} = DOMAIN lines
    BY <1>1
  <1>4. Seen(t) = [l \in DOMAIN lines |-> IF l \in DOMAIN own[t] THEN own[t][l] ELSE lines[l]]
    BY <1>2, <1>3 DEF Seen
  <1>5. Seen(t) = [l \in DOMAIN lines |-> lines[l]]
    BY <1>1, <1>4
  <1>6. QED
    BY <1>5 DEF TypedInv

\* A DRAFT waits for all that it orders.
LEMMA DraftRemains ==
    ASSUME TypedInv, RowsInv, order.status = "DRAFT" PROVE Awaited(lines)
  BY DEF Awaited, TypedInv, RowTyped, RowsInv, RemainsOf, UnitsOf

\* A step of t that changes no committed row: it begins, moves or gives up, and
\* it gets past its first query only by an order it may work on.
Quiet(t) ==
    /\ UNCHANGED <<order, lines>>
    /\ overlap \subseteq overlap'
    /\ \A u \in Tx \ {t} : /\ pc'[u] = pc[u] /\ job'[u] = job[u]
                           /\ hdr'[u] = hdr[u] /\ own'[u] = own[u]
    /\ \/ pc'[t] \in {"idle", "read"} \/ job'[t].kind = "DIRECT"
       \/ /\ job'[t] = job[t] /\ pc[t] # "idle"
          /\ pc[t] = "read" => Admissible(t)

\* What Admissible says of an order a request of the kind may work on.
Allows(kind) ==
    /\ kind \in {"UPDATE", "REMOVE"} => order.status = "DRAFT"
    /\ kind = "APPROVE" => order.status = "DRAFT" /\ lines # NoRows
    /\ kind = "RECEIVE" => order.status = "APPROVED"

LEMMA QuietKeeps ==
    ASSUME RaceInv, NEW t \in Tx, Quiet(t), Raced \/ CheckedInv(t)', BaseInv'
    PROVE  RaceInv'
  <1> USE DEF RaceInv
  <1>1. ASSUME NEW u \in Tx, NEW k \in Kind \ {"DIRECT"}, Past(u, k)', ~Past(u, k)
        PROVE  Allows(k)
    <2>1. u = t /\ job[t].kind = k /\ Admissible(t)
      BY <1>1 DEF Quiet, Past
    <2>2. QED
      BY <2>1 DEF Admissible, Allows, Kind
  <1>2. EditsInv'
    <2>1. CASE Met({"UPDATE"}, {"APPROVE"})
      BY <2>1, MetGrows DEF EditsInv, Quiet
    <2>2. CASE ~Met({"UPDATE"}, {"APPROVE"})
      <3>1. ASSUME NEW v \in Tx, Past(v, "UPDATE")'
            PROVE  order.status \in {"DRAFT", "CANCELLED", "GONE"}
        BY <1>1, <2>2, <3>1 DEF EditsInv, Kind, Allows
      <3>2. ASSUME NEW v \in Tx, NEW u \in Tx, Past(v, "UPDATE")', Past(u, "RECEIVE")'
            PROVE  FALSE
        <4>1. CASE Past(u, "RECEIVE")
          <5>1. ~Past(v, "UPDATE")
            BY <2>2, <4>1 DEF EditsInv
          <5>2. order.status = "DRAFT"
            BY <1>1, <3>2, <5>1 DEF Kind, Allows
          <5>3. QED
            BY <4>1, <5>2 DEF BaseInv, OrderInv, ReceiptInv, Past, Left
        <4>2. CASE ~Past(u, "RECEIVE")
          <5>1. order.status = "APPROVED"
            BY <1>1, <3>2, <4>2 DEF Kind, Allows
          <5>2. QED
            BY <3>1, <3>2, <5>1
        <4>3. QED
          BY <4>1, <4>2
      <3>3. QED
        BY <3>1, <3>2 DEF EditsInv, Quiet
    <2>3. QED
      BY <2>1, <2>2
  <1>3. ClosedInv'
    <2>1. CASE Raced
      BY <2>1, MetGrows DEF ClosedInv, Raced, Quiet
    <2>2. CASE ~Raced
      <3>1. CompleteIsReceived'
        BY <2>2 DEF ClosedInv, CompleteIsReceived, Quiet, RemainsOf, UnitsOf
      <3>2. ASSUME NEW u \in Tx, Past(u, "RECEIVE")'
            PROVE  order.status \in {"APPROVED", "CANCELLED", "GONE"}
        BY <1>1, <2>2, <3>2 DEF ClosedInv, FreshInv, Kind, Allows
      <3>3. ASSUME NEW u \in Tx, Past(u, "APPROVE")'
            PROVE  \/ order.status = "GONE"
                   \/ order.status \in Status /\ Awaited(lines)
        <4>1. CASE Past(u, "APPROVE")
          BY <2>2, <4>1 DEF ClosedInv, FreshInv
        <4>2. CASE ~Past(u, "APPROVE")
          <5>1. order.status = "DRAFT"
            BY <1>1, <3>3, <4>2 DEF Kind, Allows
          <5>2. QED
            BY <5>1, DraftRemains DEF BaseInv, Status
        <4>3. QED
          BY <4>1, <4>2
      <3>4. ASSUME NEW u \in Tx PROVE CheckedInv(u)'
        <4>1. CASE u # t
          <5>1. CheckedInv(u)
            BY <2>2 DEF ClosedInv, FreshInv
          <5>2. Seen(u)' = Seen(u)
            BY <4>1 DEF Seen, Quiet
          <5>3. RemainsOf(Seen(u))' = RemainsOf(Seen(u))
            BY <5>2 DEF RemainsOf
          <5>4. QED
            BY <4>1, <5>1, <5>3 DEF CheckedInv, Quiet
        <4>2. QED
          BY <2>2, <4>1
      <3>5. QED
        BY <3>1, <3>2, <3>3, <3>4 DEF ClosedInv, FreshInv, Quiet, Awaited, RemainsOf, UnitsOf
    <2>3. QED
      BY <2>1, <2>2
  <1>4. CancelInv'
    <2>1. CASE Met({"CANCEL"}, {"APPROVE", "REMOVE", "RECEIVE"})
      BY <2>1, MetGrows DEF CancelInv, Quiet
    <2>2. CASE ~Met({"CANCEL"}, {"APPROVE", "REMOVE", "RECEIVE"})
      BY <1>1, <2>2 DEF CancelInv, Kind, Allows, Quiet
    <2>3. QED
      BY <2>1, <2>2
  <1>5. QED
    BY <1>2, <1>3, <1>4

-----------------------------------------------------------------------------
(* Its steps *)

\* A step of t that begins nothing.
Onwards(t) ==
    /\ UNCHANGED overlap
    /\ pc[t] # "idle"
    /\ \A u \in Tx \ {t} : /\ pc'[u] = pc[u] /\ job'[u] = job[u]
                           /\ hdr'[u] = hdr[u] /\ own'[u] = own[u]
    /\ pc'[t] = "idle" \/ job'[t] = job[t]

LEMMA OnwardsKnown == ASSUME OverlapKnown, NEW t \in Tx, Onwards(t) PROVE OverlapKnown'
  <1>1. \A u \in Tx : pc'[u] # "idle" => pc[u] # "idle" /\ job'[u] = job[u]
    BY DEF Onwards
  <1>2. QED
    BY <1>1 DEF OverlapKnown, Onwards

LEMMA WritesOfOthers ==
    ASSUME NEW t \in Tx, Onwards(t), NEW u \in Tx \ {t}, WritesInv(u)
    PROVE  WritesInv(u)'
  BY DEF Onwards, WritesInv

LEMMA ChecksOfOthers ==
    ASSUME NEW t \in Tx, Onwards(t), lines' = lines, NEW u \in Tx \ {t}, CheckedInv(u)
    PROVE  CheckedInv(u)'
  <1>1. Seen(u)' = Seen(u)
    BY DEF Seen, Onwards
  <1>2. RemainsOf(Seen(u))' = RemainsOf(Seen(u))
    BY <1>1 DEF RemainsOf
  <1>3. QED
    BY <1>2 DEF CheckedInv, Onwards

\* The transaction t has ended.
Ended(t) ==
    /\ Onwards(t)
    /\ pc'[t] = "idle" /\ hdr'[t] = None /\ own'[t] = NoRows

LEMMA EndEnds ==
    ASSUME OrderInv, TypedInv, NEW t \in Tx, pc[t] # "idle", End(t), UNCHANGED overlap
    PROVE  Ended(t)
  BY DEF End, Goto, Ended, Onwards, OrderInv, ShapeInv, TypedInv

LEMMA EndedWrites == ASSUME NEW t \in Tx, Ended(t)
                     PROVE  WritesInv(t)' /\ CheckedInv(t)' /\ \A k : ~Past(t, k)'
  BY DEF Ended, WritesInv, CheckedInv, Past, NoRows

\* What the statements of the handlers leave behind.
LEMMA MovesOnwards ==
    ASSUME OrderInv, TypedInv, NEW t \in Tx, UNCHANGED overlap,
           ReadHeader(t) \/ ReadLinesToUpdate(t) \/ ReadLinesToReceive(t)
             \/ StartClear(t) \/ ClearLines(t) \/ WriteHeader(t) \/ SetStatus(t)
             \/ InsertReceipt(t) \/ AdvanceLine(t) \/ CheckComplete(t) \/ CloseOrder(t)
    PROVE  /\ Quiet(t) /\ Onwards(t) /\ job' = job
           /\ UNCHANGED order
  <1>1. PICK w : pc' = [pc EXCEPT ![t] = w]
    BY DEF ReadHeader, ReadLinesToUpdate, ReadLinesToReceive, StartClear, ClearLines,
           WriteHeader, WriteHeaderAs, SetStatus, InsertReceipt, AdvanceLine,
           AdvanceWith, CheckComplete, CheckWith, CloseOrder, Goto
  <1>2. /\ UNCHANGED <<order, lines, job>>
        /\ pc[t] # "idle" /\ (pc[t] = "read" => Admissible(t))
    BY DEF ReadHeader, ReadLinesToUpdate, ReadLinesToReceive, StartClear, ClearLines,
           WriteHeader, WriteHeaderAs, SetStatus, InsertReceipt, AdvanceLine,
           AdvanceWith, CheckComplete, CheckWith, CloseOrder
  <1>3. \E h : hdr' = [hdr EXCEPT ![t] = h]
    <2>1. CASE hdr' = hdr
      <3>1. hdr' = [hdr EXCEPT ![t] = hdr[t]]
        BY <2>1 DEF TypedInv
      <3>2. QED
        BY <3>1
    <2>2. CASE hdr' # hdr
      BY <2>2 DEF ReadHeader, ReadLinesToUpdate, ReadLinesToReceive, StartClear,
             ClearLines, WriteHeader, WriteHeaderAs, SetStatus, InsertReceipt,
             AdvanceLine, AdvanceWith, CheckComplete, CheckWith, CloseOrder
    <2>3. QED
      BY <2>1, <2>2
  <1>4. DOMAIN own' = Tx /\ \A u \in Tx \ {t} : own'[u] = own[u]
    BY DEF ReadHeader, ReadLinesToUpdate, ReadLinesToReceive, StartClear, ClearLines,
           WriteHeader, WriteHeaderAs, SetStatus, InsertReceipt, AdvanceLine,
           AdvanceWith, CheckComplete, CheckWith, CloseOrder, TypedInv
  <1>5. \A u \in Tx \ {t} : pc'[u] = pc[u] /\ job'[u] = job[u]
                            /\ hdr'[u] = hdr[u] /\ own'[u] = own[u]
    BY <1>1, <1>2, <1>3, <1>4 DEF OrderInv, ShapeInv, TypedInv
  <1>6. QED
    BY <1>2, <1>5 DEF Quiet, Onwards

\* They write what their kind writes.
LEMMA MovesWrite ==
    ASSUME OrderInv, TypedInv, NEW t \in Tx, WritesInv(t),
           ReadHeader(t) \/ ReadLinesToUpdate(t) \/ ReadLinesToReceive(t)
             \/ StartClear(t) \/ ClearLines(t) \/ WriteHeader(t) \/ SetStatus(t)
             \/ InsertReceipt(t) \/ AdvanceLine(t) \/ CheckComplete(t) \/ CloseOrder(t)
    PROVE  WritesInv(t)'
  <1>1. /\ job[t].kind \in Kind /\ job' = job /\ pc[t] \in Places(job[t].kind)
        /\ DOMAIN own = Tx /\ DOMAIN hdr = Tx /\ pc \in [Tx -> Active \cup {"idle"}]
    BY KindOf DEF OrderInv, ShapeInv, PlaceInv, TypedInv, ReadHeader, ReadLinesToUpdate,
           ReadLinesToReceive, StartClear, ClearLines, WriteHeader, WriteHeaderAs,
           SetStatus, InsertReceipt, AdvanceLine, AdvanceWith, CheckComplete,
           CheckWith, CloseOrder
  <1>0. pc'[t] # "idle"
    <2>1. CASE ReadHeader(t)
      <3>1. job[t].kind # "DIRECT"
        BY <1>1, <2>1 DEF ReadHeader, Places
      <3>2. QED
        BY <1>1, <2>1, <3>1 DEF ReadHeader, Goto, Kind
    <2>2. QED
      BY <1>1, <2>1 DEF ReadLinesToUpdate, ReadLinesToReceive, StartClear, ClearLines,
         WriteHeader, WriteHeaderAs, SetStatus, InsertReceipt, AdvanceLine,
         AdvanceWith, CheckComplete, CheckWith, CloseOrder, Goto
  <1>2. CASE UNCHANGED <<hdr, own>> /\ pc[t] # "idle"
    BY <1>0, <1>1, <1>2 DEF WritesInv
  <1>3. CASE ClearLines(t)
    <2>1. /\ pc[t] = "clearing" /\ hdr' = hdr
          /\ own' = [own EXCEPT ![t] =
                        [l \in local[t].targets \cap DOMAIN lines |-> None]]
      BY <1>3 DEF ClearLines
    <2>2. job[t].kind = "UPDATE"
      BY <1>1, <2>1 DEF Places, Kind
    <2>3. \A l \in DOMAIN own'[t] : own'[t][l] = None
      BY <1>1, <2>1
    <2>4. QED
      BY <1>0, <1>1, <2>1, <2>2, <2>3 DEF WritesInv
  <1>4. CASE WriteHeader(t)
    <2> DEFINE ls == job[t].lines
    <2>1. /\ pc[t] = "header" /\ own' = [own EXCEPT ![t] = Over(Rows(ls), @)]
      BY <1>4 DEF WriteHeader, WriteHeaderAs
    <2>2. job[t].kind = "UPDATE"
      BY <1>1, <2>1 DEF Places, Kind
    <2>3. ls \in OrderLines \cup {<<>>}
      BY <2>2, JobAssumption DEF OrderInv, ShapeInv
    <2>4. \A l \in DOMAIN Rows(ls) : Rows(ls)[l].received = 0
      BY <2>3, NewRows DEF TypedInv
    <2>5. own'[t] = Over(Rows(ls), own[t])
      BY <1>1, <2>1
    <2> HIDE DEF ls
    <2>6. \A l \in DOMAIN own'[t] :
              IF l \in DOMAIN Rows(ls) THEN own'[t][l] = Rows(ls)[l]
              ELSE l \in DOMAIN own[t] /\ own'[t][l] = own[t][l]
      BY <2>5 DEF Over
    <2>7. \A l \in DOMAIN own'[t] :
              own'[t][l] # None => own'[t][l].received = 0
      BY <2>2, <2>4, <2>6 DEF WritesInv
    <2>8. QED
      BY <1>0, <1>1, <2>2, <2>7 DEF WritesInv
  <1>5. CASE SetStatus(t)
    <2>1. /\ pc[t] = "status" /\ own' = own
          /\ hdr'[t] = [order EXCEPT !.status =
                           IF job[t].kind = "APPROVE" THEN "APPROVED" ELSE "CANCELLED"]
      BY <1>1, <1>5 DEF SetStatus
    <2>2. job[t].kind \in {"APPROVE", "CANCEL"}
      BY <1>1, <2>1 DEF Places, Kind
    <2>3. hdr'[t].status = IF job[t].kind = "APPROVE" THEN "APPROVED" ELSE "CANCELLED"
      BY <2>1 DEF TypedInv, Header
    <2>4. QED
      BY <1>0, <1>1, <2>1, <2>2, <2>3 DEF WritesInv
  <1>6. CASE CloseOrder(t)
    <2>1. /\ pc[t] = "close" /\ own' = own
          /\ hdr'[t] = [order EXCEPT !.status = "RECEIVED"]
      BY <1>1, <1>6 DEF CloseOrder
    <2>2. job[t].kind = "RECEIVE"
      BY <1>1, <2>1 DEF Places, Kind
    <2>3. hdr'[t].status = "RECEIVED"
      BY <2>1 DEF TypedInv, Header
    <2>4. QED
      BY <1>0, <1>1, <2>1, <2>2, <2>3 DEF WritesInv
  <1>7. CASE AdvanceLine(t)
    <2>1. pc[t] = "advance" /\ hdr' = hdr
      BY <1>7 DEF AdvanceLine, AdvanceWith
    <2>2. job[t].kind = "RECEIVE"
      BY <1>1, <2>1 DEF Places, Kind
    <2>3. QED
      BY <1>0, <1>1, <2>1, <2>2 DEF WritesInv
  <1>8. QED
    BY <1>2, <1>3, <1>4, <1>5, <1>6, <1>7 DEF ReadHeader, ReadLinesToUpdate,
       ReadLinesToReceive, StartClear, InsertReceipt, CheckComplete, CheckWith

\* A receipt decides by the lines as it sees them, its own among them.
LEMMA MovesCheck ==
    ASSUME OrderInv, TypedInv, NEW t \in Tx, CheckedInv(t),
           ReadHeader(t) \/ ReadLinesToUpdate(t) \/ ReadLinesToReceive(t)
             \/ StartClear(t) \/ ClearLines(t) \/ WriteHeader(t) \/ SetStatus(t)
             \/ InsertReceipt(t) \/ AdvanceLine(t) \/ CheckComplete(t) \/ CloseOrder(t)
    PROVE  CheckedInv(t)'
  <1>1. /\ job[t].kind \in Kind /\ job' = job /\ lines' = lines
        /\ pc[t] \in Places(job[t].kind)
        /\ DOMAIN own = Tx /\ DOMAIN hdr = Tx /\ pc \in [Tx -> Active \cup {"idle"}]
    BY KindOf DEF OrderInv, ShapeInv, PlaceInv, TypedInv, ReadHeader, ReadLinesToUpdate,
           ReadLinesToReceive, StartClear, ClearLines, WriteHeader, WriteHeaderAs,
           SetStatus, InsertReceipt, AdvanceLine, AdvanceWith, CheckComplete,
           CheckWith, CloseOrder
  <1> SUFFICES ASSUME job[t].kind = "RECEIVE" PROVE CheckedInv(t)'
    BY <1>1 DEF CheckedInv
  <1>2. CASE pc'[t] \notin {"close", "commit"}
    BY <1>2 DEF CheckedInv
  <1>3. CASE CheckComplete(t)
    <2>1. /\ pc[t] = "check" /\ UNCHANGED <<hdr, own>>
          /\ pc'[t] = IF RemainsOf(Seen(t)) THEN "commit" ELSE "close"
      BY <1>1, <1>3 DEF CheckComplete, CheckWith, Goto
    <2>2. hdr[t] = None
      BY <2>1 DEF OrderInv, HeaderInv
    <2>3. Seen(t)' = Seen(t)
      BY <1>1, <2>1 DEF Seen
    <2>4. RemainsOf(Seen(t))' = RemainsOf(Seen(t))
      BY <2>3 DEF RemainsOf
    <2>5. QED
      BY <2>1, <2>2, <2>4 DEF CheckedInv
  <1>4. CASE CloseOrder(t)
    <2>1. /\ pc[t] = "close" /\ pc'[t] = "commit" /\ own' = own
          /\ hdr'[t] = [order EXCEPT !.status = "RECEIVED"]
      BY <1>1, <1>4 DEF CloseOrder, Goto
    <2>2. hdr'[t] # None
      <3>1. hdr'[t] \in Header
        BY <2>1 DEF TypedInv, Header, Status
      <3>2. QED
        BY <3>1, NoneAssumption
    <2>3. ~RemainsOf(Seen(t))
      BY <2>1 DEF CheckedInv
    <2>4. Seen(t)' = Seen(t)
      BY <1>1, <2>1 DEF Seen
    <2>5. RemainsOf(Seen(t))' = RemainsOf(Seen(t))
      BY <2>4 DEF RemainsOf
    <2>6. QED
      BY <2>1, <2>2, <2>3, <2>5 DEF CheckedInv
  <1>5. CASE ReadHeader(t) \/ ReadLinesToReceive(t) \/ InsertReceipt(t) \/ AdvanceLine(t)
    <2>1. pc'[t] \in {"lines", "receipt", "advance", "check"}
      BY <1>1, <1>5 DEF ReadHeader, ReadLinesToReceive, InsertReceipt, AdvanceLine,
                        AdvanceWith, Goto
    <2>2. QED
      BY <1>2, <2>1
  <1>6. ~(ReadLinesToUpdate(t) \/ StartClear(t) \/ ClearLines(t) \/ WriteHeader(t)
            \/ SetStatus(t))
    BY <1>1 DEF ReadLinesToUpdate, StartClear, ClearLines, WriteHeader, WriteHeaderAs,
                SetStatus, Places
  <1>7. QED
    BY <1>3, <1>4, <1>5, <1>6

LEMMA MoveKeepsRace ==
    ASSUME RaceInv, OrderInv', TypedInv', NEW t \in Tx, UNCHANGED overlap,
           ReadHeader(t) \/ ReadLinesToUpdate(t) \/ ReadLinesToReceive(t)
             \/ StartClear(t) \/ ClearLines(t) \/ WriteHeader(t) \/ SetStatus(t)
             \/ InsertReceipt(t) \/ AdvanceLine(t) \/ CheckComplete(t) \/ CloseOrder(t)
    PROVE  RaceInv'
  <1>1. OrderInv /\ TypedInv /\ OverlapKnown /\ RowsInv /\ \A u \in Tx : WritesInv(u)
    BY DEF RaceInv, BaseInv
  <1>2. Quiet(t) /\ Onwards(t)
    BY <1>1, MovesOnwards
  <1>3. WritesInv(t)'
    BY <1>1, MovesWrite
  <1>4. \A u \in Tx : WritesInv(u)'
    BY <1>1, <1>2, <1>3, WritesOfOthers
  <1>5. OverlapKnown' /\ RowsInv'
    BY <1>1, <1>2, OnwardsKnown DEF Quiet, RowsInv
  <1>6. BaseInv'
    BY <1>4, <1>5 DEF BaseInv
  <1>7. CheckedInv(t) => CheckedInv(t)'
    BY <1>1, MovesCheck
  <1>8. Raced \/ CheckedInv(t)'
    BY <1>7 DEF RaceInv, ClosedInv, FreshInv
  <1>9. QED
    BY <1>2, <1>6, <1>8, QuietKeeps

\* A transaction that ends without having changed the order.
LEMMA GiveUpKeepsRace ==
    ASSUME RaceInv, OrderInv', TypedInv', NEW t \in Tx, Ended(t),
           UNCHANGED <<order, lines>>
    PROVE  RaceInv'
  <1>1. OverlapKnown /\ RowsInv /\ \A u \in Tx : WritesInv(u)
    BY DEF RaceInv, BaseInv
  <1>2. Quiet(t) /\ Onwards(t)
    BY DEF Quiet, Ended, Onwards
  <1>3. \A u \in Tx : WritesInv(u)'
    BY <1>1, <1>2, EndedWrites, WritesOfOthers
  <1>4. OverlapKnown' /\ RowsInv'
    BY <1>1, <1>2, OnwardsKnown DEF RowsInv
  <1>5. BaseInv'
    BY <1>3, <1>4 DEF BaseInv
  <1>6. CheckedInv(t)'
    BY EndedWrites
  <1>7. QED
    BY <1>2, <1>5, <1>6, QuietKeeps

\* What stays known when t ends and the others do nothing.
LEMMA EndKeepsBase ==
    ASSUME BaseInv, OrderInv', TypedInv', RowsInv', NEW t \in Tx, Ended(t)
    PROVE  /\ BaseInv'
           /\ \A u \in Tx, k \in Kind : Past(u, k)' => u # t /\ Past(u, k)
  <1>1. Onwards(t)
    BY DEF Ended
  <1>2. \A u \in Tx : WritesInv(u)'
    BY <1>1, EndedWrites, WritesOfOthers DEF BaseInv
  <1>3. OverlapKnown'
    BY <1>1, OnwardsKnown DEF BaseInv
  <1>4. ASSUME NEW u \in Tx, NEW k \in Kind, Past(u, k)' PROVE u # t /\ Past(u, k)
    BY <1>1, <1>4, EndedWrites DEF Onwards, Past
  <1>5. QED
    BY <1>2, <1>3, <1>4 DEF BaseInv

\* The committed lines are those of the order before, or what an edit or a
\* receipt made of them.
LEMMA CommitLines ==
    ASSUME BaseInv, NEW t \in Tx, pc[t] # "idle", job[t].kind \notin {"UPDATE", "RECEIVE"}
    PROVE  Seen(t) = lines
  BY SeenUnwritten DEF BaseInv, WritesInv

\* Two requests past their first query whose kinds conflict have met.
LEMMA PastMeet ==
    ASSUME BaseInv, NEW t \in Tx, NEW u \in Tx, t # u, NEW K, NEW L,
           NEW j \in K, NEW k \in L, Past(t, j), Past(u, k)
    PROVE  Met(K, L)
  BY Meet DEF BaseInv, Past

LEMMA CommitUpdate ==
    ASSUME RaceInv, OrderInv', TypedInv', NEW t \in Tx, Commit(t), UNCHANGED overlap,
           job[t].kind = "UPDATE"
    PROVE  RaceInv'
  <1>1. BaseInv /\ Past(t, "UPDATE") /\ "UPDATE" \in Kind /\ pc[t] = "commit"
    BY DEF RaceInv, Commit, Past, Kind
  <1>2. Ended(t)
    BY <1>1, EndEnds DEF BaseInv, Commit
  <1>3. order'.status = order.status
    BY <1>1 DEF Commit, BaseInv, OrderInv, HeaderInv
  <1>4. RowsInv'
    <2>1. ASSUME order.status = "DRAFT", NEW l \in DOMAIN Seen(t)
          PROVE  Seen(t)[l].received = 0
      BY <1>1, <2>1 DEF Seen, BaseInv, RowsInv, WritesInv
    <2>2. lines' = Seen(t)
      BY DEF Commit
    <2>3. QED
      BY <1>3, <2>1, <2>2 DEF RowsInv
  <1>5. /\ BaseInv'
        /\ \A u \in Tx, k \in Kind : Past(u, k)' => u # t /\ Past(u, k)
    BY <1>1, <1>2, <1>4, EndKeepsBase
  <1>6. EditsInv'
    <2>1. Met({"UPDATE"}, {"APPROVE"}) => Met({"UPDATE"}, {"APPROVE"})'
      BY DEF Met
    <2>2. QED
      BY <1>3, <1>5, <2>1 DEF RaceInv, EditsInv, Kind
  <1>7. ClosedInv'
    <2>1. Raced => Raced'
      BY DEF Raced, Met
    <2>2. CASE ~Raced
      <3>1. /\ order.status \in {"DRAFT", "CANCELLED", "GONE"}
            /\ \A u \in Tx : ~Past(u, "RECEIVE")
        BY <1>1, <2>2 DEF RaceInv, EditsInv, Raced
      <3>2. \A u \in Tx : ~Past(u, "RECEIVE")' /\ ~Past(u, "APPROVE")'
        <4>1. ASSUME NEW u \in Tx, u # t, Past(u, "APPROVE") PROVE FALSE
          BY <1>1, <2>2, <4>1, PastMeet DEF Raced
        <4>2. QED
          BY <1>5, <3>1, <4>1 DEF Kind
      <3>3. CompleteIsReceived'
        BY <1>3, <3>1 DEF CompleteIsReceived
      <3>4. \A u \in Tx : CheckedInv(u)'
        BY <3>2 DEF CheckedInv, Past
      <3>5. QED
        BY <3>2, <3>3, <3>4 DEF ClosedInv, FreshInv
    <2>3. QED
      BY <2>1, <2>2 DEF ClosedInv
  <1>8. CancelInv'
    <2>1. Met({"CANCEL"}, {"APPROVE", "REMOVE", "RECEIVE"}) =>
              Met({"CANCEL"}, {"APPROVE", "REMOVE", "RECEIVE"})'
      BY DEF Met
    <2>2. QED
      BY <1>3, <1>5, <2>1 DEF RaceInv, CancelInv, Kind
  <1>9. QED
    BY <1>5, <1>6, <1>7, <1>8 DEF RaceInv

LEMMA CommitReceive ==
    ASSUME RaceInv, OrderInv', TypedInv', NEW t \in Tx, Commit(t), UNCHANGED overlap,
           job[t].kind = "RECEIVE"
    PROVE  RaceInv'
  <1>1. BaseInv /\ Past(t, "RECEIVE") /\ "RECEIVE" \in Kind /\ pc[t] = "commit"
    BY DEF RaceInv, Commit, Past, Kind
  <1>2. Ended(t)
    BY <1>1, EndEnds DEF BaseInv, Commit
  <1>3. /\ order' = IF hdr[t] = None THEN order ELSE hdr[t]
        /\ lines' = Seen(t)
        /\ hdr[t] # None => hdr[t].status = "RECEIVED"
        /\ order.status \in Left \cup {"GONE"}
    BY <1>1 DEF Commit, BaseInv, OrderInv, ReceiptInv, WritesInv
  <1>4. RowsInv'
    BY <1>3 DEF RowsInv, Left
  <1>5. /\ BaseInv'
        /\ \A u \in Tx, k \in Kind : Past(u, k)' => u # t /\ Past(u, k)
    BY <1>1, <1>2, <1>4, EndKeepsBase
  <1>6. EditsInv'
    <2>1. Met({"UPDATE"}, {"APPROVE"}) => Met({"UPDATE"}, {"APPROVE"})'
      BY DEF Met
    <2>2. QED
      BY <1>1, <1>5, <2>1 DEF RaceInv, EditsInv, Kind
  <1>7. ClosedInv'
    <2>1. Raced => Raced'
      BY DEF Raced, Met
    <2>2. CASE ~Raced
      <3>1. \A u \in Tx : ~Past(u, "RECEIVE")' /\ ~Past(u, "APPROVE")'
        <4>1. ASSUME NEW u \in Tx, u # t, Past(u, "RECEIVE") \/ Past(u, "APPROVE")
              PROVE  FALSE
          BY <1>1, <2>2, <4>1, PastMeet DEF Raced
        <4>2. QED
          BY <1>5, <4>1 DEF Kind
      <3>2. /\ order.status \in {"APPROVED", "CANCELLED", "GONE"}
            /\ hdr[t] = None <=> RemainsOf(Seen(t))
        BY <1>1, <2>2 DEF RaceInv, ClosedInv, FreshInv, CheckedInv
      <3>3. RemainsOf(lines)' = RemainsOf(Seen(t))
        BY <1>3 DEF RemainsOf
      <3>4. CompleteIsReceived'
        BY <1>3, <3>2, <3>3 DEF CompleteIsReceived
      <3>5. \A u \in Tx : CheckedInv(u)'
        BY <3>1 DEF CheckedInv, Past
      <3>6. QED
        BY <3>1, <3>4, <3>5 DEF ClosedInv, FreshInv
    <2>3. QED
      BY <2>1, <2>2 DEF ClosedInv
  <1>8. CancelInv'
    <2>1. Met({"CANCEL"}, {"APPROVE", "REMOVE", "RECEIVE"}) =>
              Met({"CANCEL"}, {"APPROVE", "REMOVE", "RECEIVE"})'
      BY DEF Met
    <2>2. QED
      BY <1>3, <1>5, <2>1 DEF RaceInv, CancelInv, Kind
  <1>9. QED
    BY <1>5, <1>6, <1>7, <1>8 DEF RaceInv

\* An approval or a cancellation that has written the header.
LEMMA CommitTransition ==
    ASSUME RaceInv, OrderInv', TypedInv', NEW t \in Tx, Commit(t), UNCHANGED overlap,
           job[t].kind \in {"APPROVE", "CANCEL"}, hdr[t] # None
    PROVE  RaceInv'
  <1>1. BaseInv /\ Past(t, job[t].kind) /\ pc[t] = "commit"
    BY DEF RaceInv, Commit, Past
  <1>2. Ended(t)
    BY <1>1, EndEnds DEF BaseInv, Commit
  <1>3. /\ order'.status = IF job[t].kind = "APPROVE" THEN "APPROVED" ELSE "CANCELLED"
        /\ order.status \in Status
        /\ lines' = lines
    BY <1>1, CommitLines DEF Commit, BaseInv, OrderInv, HeaderInv, WritesInv
  <1>4. RowsInv'
    BY <1>3 DEF RowsInv
  <1>5. /\ BaseInv'
        /\ \A u \in Tx, k \in Kind : Past(u, k)' => u # t /\ Past(u, k)
    BY <1>1, <1>2, <1>4, EndKeepsBase
  <1>6. EditsInv'
    <2>1. Met({"UPDATE"}, {"APPROVE"}) => Met({"UPDATE"}, {"APPROVE"})'
      BY DEF Met
    <2>2. CASE ~Met({"UPDATE"}, {"APPROVE"})
      <3>1. ASSUME NEW u \in Tx, u # t, Past(u, "UPDATE"), job[t].kind = "APPROVE"
            PROVE  FALSE
        BY <1>1, <2>2, <3>1, PastMeet
      <3>2. QED
        BY <1>3, <1>5, <2>2, <3>1 DEF RaceInv, EditsInv, Kind
    <2>3. QED
      BY <2>1, <2>2 DEF EditsInv
  <1>7. ClosedInv'
    <2>1. Raced => Raced'
      BY DEF Raced, Met
    <2>2. CASE ~Raced
      <3>1. ASSUME NEW u \in Tx, u # t, Past(u, "RECEIVE"), job[t].kind = "APPROVE"
            PROVE  FALSE
        BY <1>1, <2>2, <3>1, PastMeet DEF Raced
      <3>2. ASSUME NEW u \in Tx, Past(u, "APPROVE") PROVE Awaited(lines)
        BY <1>1, <1>3, <2>2, <3>2 DEF RaceInv, ClosedInv, FreshInv, Status
      <3>3. /\ RemainsOf(lines)' = RemainsOf(lines) /\ UnitsOf(lines)' = UnitsOf(lines)
            /\ Awaited(lines)' = Awaited(lines)
        BY <1>3 DEF RemainsOf, UnitsOf, Awaited
      <3>4. CompleteIsReceived'
        BY <1>1, <1>3, <3>2, <3>3 DEF CompleteIsReceived, Awaited
      <3>5. ASSUME NEW u \in Tx PROVE CheckedInv(u)'
        <4>1. CASE u = t
          BY <1>2, <4>1, EndedWrites
        <4>2. CASE u # t
          BY <1>2, <1>3, <2>2, <4>2, ChecksOfOthers DEF Ended, RaceInv, ClosedInv, FreshInv
        <4>3. QED
          BY <4>1, <4>2
      <3>6. ASSUME NEW u \in Tx PROVE FreshInv(u)'
        <4>1. Past(u, "RECEIVE")' => order'.status \in {"APPROVED", "CANCELLED", "GONE"}
          BY <1>3
        <4>2. Past(u, "APPROVE")' => Awaited(lines)'
          BY <1>5, <3>2, <3>3 DEF Kind
        <4>3. order'.status \in Status
          BY <1>3 DEF Status
        <4>4. QED
          BY <3>5, <4>1, <4>2, <4>3 DEF FreshInv
      <3>7. QED
        BY <3>4, <3>6 DEF ClosedInv
    <2>3. QED
      BY <2>1, <2>2 DEF ClosedInv
  <1>8. CancelInv'
    <2> DEFINE K == {"APPROVE", "REMOVE", "RECEIVE"}
    <2>1. Met({"CANCEL"}, K) => Met({"CANCEL"}, K)'
      BY DEF Met
    <2>2. CASE ~Met({"CANCEL"}, K)
      <3>1. ASSUME NEW u \in Tx, u # t, NEW k \in K, Past(u, k), job[t].kind = "CANCEL"
            PROVE  FALSE
        <4> HIDE DEF K
        <4>1. Past(t, "CANCEL")
          BY <1>1, <3>1
        <4>2. QED
          BY <1>1, <2>2, <3>1, <4>1, PastMeet
      <3>2. QED
        BY <1>3, <1>5, <3>1 DEF CancelInv, Kind
    <2>3. QED
      BY <2>1, <2>2 DEF CancelInv
  <1>9. QED
    BY <1>5, <1>6, <1>7, <1>8 DEF RaceInv

LEMMA CommitKeepsRace ==
    ASSUME RaceInv, OrderInv', TypedInv', NEW t \in Tx, Commit(t), UNCHANGED overlap
    PROVE  RaceInv'
  <1>1. BaseInv /\ pc[t] = "commit"
    BY DEF RaceInv, Commit
  <1>2. CASE job[t].kind \in {"UPDATE", "RECEIVE"}
    BY <1>2, CommitUpdate, CommitReceive
  <1>3. CASE job[t].kind \in {"APPROVE", "CANCEL"} /\ hdr[t] # None
    BY <1>3, CommitTransition
  <1>4. CASE job[t].kind \notin {"UPDATE", "RECEIVE"} /\ hdr[t] = None
    <2>1. order' = order /\ lines' = lines
      BY <1>1, <1>4, CommitLines DEF Commit
    <2>2. Ended(t)
      BY <1>1, EndEnds DEF BaseInv, Commit
    <2>3. QED
      BY <2>1, <2>2, GiveUpKeepsRace
  <1>5. hdr[t] # None => job[t].kind \in {"UPDATE", "APPROVE", "CANCEL", "RECEIVE"}
    BY <1>1 DEF BaseInv, WritesInv
  <1>6. QED
    BY <1>2, <1>3, <1>4, <1>5

LEMMA DeleteKeepsRace ==
    ASSUME RaceInv, OrderInv', TypedInv', NEW t \in Tx, DeleteOrder(t), UNCHANGED overlap
    PROVE  RaceInv'
  <1>1. BaseInv /\ pc[t] = "delete" /\ \A u \in Tx : ~KeyShare(u)
    BY DEF RaceInv, DeleteOrder
  <1>2. Ended(t)
    BY <1>1, EndEnds DEF BaseInv, DeleteOrder
  <1>3. order'.status = "GONE"
    BY DEF DeleteOrder
  <1>4. RowsInv'
    BY <1>3 DEF RowsInv
  <1>5. /\ BaseInv'
        /\ \A u \in Tx, k \in Kind : Past(u, k)' => u # t /\ Past(u, k)
    BY <1>1, <1>2, <1>4, EndKeepsBase
  <1>6. EditsInv'
    <2>1. Met({"UPDATE"}, {"APPROVE"}) => Met({"UPDATE"}, {"APPROVE"})'
      BY DEF Met
    <2>2. QED
      BY <1>3, <1>5, <2>1 DEF RaceInv, EditsInv, Kind
  <1>7. \A u \in Tx : CheckedInv(u)'
    <2>1. ASSUME NEW u \in Tx \ {t} PROVE ~KeyShare(u) /\ pc'[u] = pc[u] /\ job'[u] = job[u]
      BY <1>1, <1>2 DEF Ended, Onwards
    <2>2. \A u \in Tx \ {t} : CheckedInv(u)'
      BY <2>1 DEF CheckedInv, KeyShare, Inserted
    <2>3. QED
      BY <1>2, <2>2, EndedWrites
  <1>8. ClosedInv'
    BY <1>3, <1>7 DEF ClosedInv, FreshInv, CompleteIsReceived
  <1>9. CancelInv'
    BY <1>3 DEF CancelInv
  <1>10. QED
    BY <1>5, <1>6, <1>8, <1>9 DEF RaceInv

LEMMA CreateKeepsRace ==
    ASSUME RaceInv, OrderInv', TypedInv', Create, UNCHANGED overlap
    PROVE  RaceInv'
  <1>1. /\ BaseInv /\ order.status = "NONE" /\ order'.status = "DRAFT"
        /\ UNCHANGED <<pc, job, hdr, own>>
    BY DEF RaceInv, Create, txVars
  <1>2. PICK ls \in OrderLines : lines' = Rows(ls)
    BY DEF Create
  <1>3. RowsInv'
    BY <1>1, <1>2, NewRows DEF RowsInv, BaseInv, TypedInv
  <1>4. OverlapKnown' /\ \A u \in Tx : WritesInv(u)'
    BY <1>1 DEF BaseInv, OverlapKnown, WritesInv
  <1>5. BaseInv'
    BY <1>3, <1>4 DEF BaseInv
  <1>6. \A u \in Tx : ~Past(u, "RECEIVE")
    BY <1>1 DEF BaseInv, OrderInv, ReceiptInv, Past, Left
  <1>7. EditsInv'
    <2>1. Met({"UPDATE"}, {"APPROVE"}) => Met({"UPDATE"}, {"APPROVE"})'
      BY DEF Met
    <2>2. QED
      BY <1>1, <1>6, <2>1 DEF RaceInv, EditsInv, Past
  <1>8. ClosedInv'
    <2>1. Raced => Raced'
      BY DEF Raced, Met
    <2>2. CASE ~Raced
      <3>1. \A u \in Tx : ~Past(u, "APPROVE")
        BY <1>1, <2>2 DEF RaceInv, ClosedInv, FreshInv, Status
      <3>2. \A u \in Tx : CheckedInv(u)'
        BY <1>1, <1>6 DEF CheckedInv, Past
      <3>3. QED
        BY <1>1, <1>6, <3>1, <3>2 DEF ClosedInv, FreshInv, CompleteIsReceived, Past
    <2>3. QED
      BY <2>1, <2>2 DEF ClosedInv
  <1>9. CancelInv'
    BY <1>1 DEF CancelInv
  <1>10. QED
    BY <1>5, <1>7, <1>8, <1>9 DEF RaceInv

\* A request that begins meets those under way.
LEMMA BeginKeepsRace ==
    ASSUME RaceInv, OrderInv', TypedInv', NEW t \in Tx, OBegin(t)
    PROVE  RaceInv'
  <1>1. PICK j \in Job :
            /\ job' = [job EXCEPT ![t] = j]
            /\ pc' = [pc EXCEPT ![t] =
                         IF j.kind = "DIRECT" THEN "receipt" ELSE "read"]
    BY DEF OBegin, Begin, Goto
  <1>2. /\ pc[t] = "idle" /\ UNCHANGED <<order, lines, hdr, own>>
        /\ overlap' = overlap \cup
               {{job'[t].kind, job[u].kind} : u \in {v \in Tx : pc[v] # "idle"}}
    BY DEF OBegin, Begin
  <1>3. BaseInv /\ DOMAIN pc = Tx /\ DOMAIN job = Tx /\ hdr[t] = None
    BY <1>2 DEF RaceInv, BaseInv, OrderInv, ShapeInv, HeaderInv
  <1>4. /\ job'[t] = j /\ pc'[t] \in {"receipt", "read"}
        /\ j.kind # "DIRECT" => pc'[t] = "read"
        /\ \A u \in Tx \ {t} : pc'[u] = pc[u] /\ job'[u] = job[u]
    BY <1>1, <1>3
  <1>5. Quiet(t)
    BY <1>2, <1>4 DEF Quiet
  <1>6. OverlapKnown'
    <2>1. ASSUME NEW u \in Tx, u # t, pc[u] # "idle"
          PROVE  {job'[t].kind, job'[u].kind} \in overlap'
      BY <1>2, <1>4, <2>1
    <2>2. ASSUME NEW u \in Tx, NEW v \in Tx, u # t, v # t, u # v,
                 pc'[u] # "idle", pc'[v] # "idle"
          PROVE  {job'[u].kind, job'[v].kind} \in overlap'
      BY <1>2, <1>3, <1>4, <2>2 DEF BaseInv, OverlapKnown
    <2>3. ASSUME NEW u \in Tx, NEW v \in Tx, u # v, pc'[u] # "idle", pc'[v] # "idle"
          PROVE  {job'[u].kind, job'[v].kind} \in overlap'
      <3>1. CASE u = t
        BY <1>4, <2>1, <2>3, <3>1
      <3>2. CASE v = t
        <4>1. {job'[v].kind, job'[u].kind} \in overlap'
          BY <1>4, <2>1, <2>3, <3>2
        <4>2. {job'[v].kind, job'[u].kind} = {job'[u].kind, job'[v].kind}
          OBVIOUS
        <4>3. QED
          BY <4>1, <4>2
      <3>3. QED
        BY <2>2, <2>3, <3>1, <3>2
    <2>4. QED
      BY <2>3 DEF OverlapKnown
  <1>7. ASSUME NEW u \in Tx PROVE WritesInv(u)'
    <2>1. CASE u # t
      BY <1>2, <1>3, <1>4, <2>1 DEF BaseInv, WritesInv
    <2>2. CASE u = t
      <3>1. own'[t] = NoRows /\ hdr'[t] = None
        BY <1>2, <1>3 DEF BaseInv, WritesInv
      <3>2. QED
        BY <2>2, <3>1 DEF WritesInv, NoRows
    <2>3. QED
      BY <2>1, <2>2
  <1>8. BaseInv'
    BY <1>2, <1>3, <1>6, <1>7 DEF BaseInv, RowsInv
  <1>9. CheckedInv(t)'
    BY <1>4 DEF CheckedInv
  <1>10. QED
    BY <1>5, <1>8, <1>9, QuietKeeps

-----------------------------------------------------------------------------
LEMMA RaceInit == OInit => RaceInv
  <1> SUFFICES ASSUME OInit PROVE RaceInv
    OBVIOUS
  <1>1. OrderInv /\ TypedInv
    BY OrderInit, TypedInit DEF OInit
  <1>2. /\ order.status = "NONE" /\ lines = NoRows
        /\ \A t \in Tx : pc[t] = "idle" /\ hdr[t] = None /\ own[t] = NoRows
    BY DEF OInit, Init
  <1>3. BaseInv
    BY <1>1, <1>2 DEF BaseInv, OverlapKnown, RowsInv, WritesInv, NoRows
  <1>4. EditsInv /\ ClosedInv /\ CancelInv
    BY <1>2 DEF EditsInv, ClosedInv, CancelInv, Past, FreshInv, CheckedInv,
                CompleteIsReceived
  <1>5. QED
    BY <1>3, <1>4 DEF RaceInv

LEMMA StillRaced == ASSUME UNCHANGED ovars PROVE RaceInv' = RaceInv
  BY DEF ovars, vars, txVars, RaceInv, BaseInv, EditsInv, ClosedInv, CancelInv, OrderInv,
         ShapeInv, PlaceInv, HeaderInv, ReceiptInv, ReceiptsKeepTheirOrder, KeyShare,
         Inserted, TypedInv, RowsTyped, OverlapKnown, RowsInv, WritesInv, Met, Past,
         Raced, CompleteIsReceived, RemainsOf, UnitsOf, Awaited, FreshInv, CheckedInv,
         Seen

LEMMA OStepIsStep == [ONext]_ovars => [Next]_vars
  BY DEF ONext, Next, OBegin, OStep, OVictim, ovars

LEMMA RaceStep == RaceInv /\ [ONext]_ovars => RaceInv'
  <1> SUFFICES ASSUME RaceInv, [ONext]_ovars PROVE RaceInv'
    OBVIOUS
  <1>1. OrderInv' /\ TypedInv'
    BY OStepIsStep, OrderStep, TypedStep DEF RaceInv, BaseInv
  <1>2. CASE Create /\ UNCHANGED overlap
    BY <1>1, <1>2, CreateKeepsRace
  <1>3. ASSUME NEW t \in Tx, OBegin(t) PROVE RaceInv'
    BY <1>1, <1>3, BeginKeepsRace
  <1>4. ASSUME NEW t \in Tx, Rollback(t), pc[t] # "idle", UNCHANGED overlap PROVE RaceInv'
    <2>1. Ended(t)
      BY <1>4, EndEnds DEF RaceInv, BaseInv, Rollback
    <2>2. QED
      BY <1>1, <1>4, <2>1, GiveUpKeepsRace DEF Rollback
  <1>5. ASSUME NEW t \in Tx, Refuse(t) \/ Abort(t) \/ Interrupt(t) \/ DeadlockVictim(t),
               UNCHANGED overlap
        PROVE  RaceInv'
    <2>1. pc[t] # "idle"
      <3>1. DeadlockVictim(t) => \E u \in Tx : WaitsFor(t, u)
        BY DEF DeadlockVictim, InDeadlock
      <3>2. QED
        BY <1>5, <3>1 DEF Refuse, Refused, Abort, Broken, Interrupt, WaitsFor
    <2>2. QED
      BY <1>4, <1>5, <2>1 DEF Refuse, Abort, Interrupt, DeadlockVictim
  <1>6. ASSUME NEW t \in Tx, Step(t), UNCHANGED overlap PROVE RaceInv'
    BY <1>1, <1>5, <1>6, MoveKeepsRace, CommitKeepsRace, DeleteKeepsRace DEF Step
  <1>7. CASE UNCHANGED ovars
    BY <1>7, StillRaced
  <1>8. QED
    BY <1>2, <1>3, <1>5, <1>6, <1>7 DEF ONext, OStep, OVictim

\* An order is RECEIVED exactly when its lines are complete, unless receipts
\* overlapped each other or an approval, or an edit overlapped an approval
\* (create of a receipt re-reads the lines inside its transaction).
THEOREM ClosedUnlessOverlapped == OSpec => []ClosedUnlessRace
  <1>1. RaceInv => ClosedUnlessRace
    BY DEF RaceInv, ClosedInv, Raced, ClosedUnlessRace
  <1>2. QED
    BY <1>1, RaceInit, RaceStep, PTL DEF OSpec

LEMMA CancelledStays ==
    RaceInv /\ [ONext]_ovars =>
        \/ Met({"CANCEL"}, {"APPROVE", "REMOVE", "RECEIVE"})
        \/ order.status # "CANCELLED"
        \/ order'.status = "CANCELLED"
  <1> SUFFICES ASSUME RaceInv, [ONext]_ovars, order.status = "CANCELLED",
                      ~Met({"CANCEL"}, {"APPROVE", "REMOVE", "RECEIVE"})
               PROVE  order'.status = "CANCELLED"
    OBVIOUS
  <1>1. \A t \in Tx : \A k \in {"APPROVE", "REMOVE", "RECEIVE"} : ~Past(t, k)
    BY DEF RaceInv, CancelInv
  <1>2. ASSUME NEW t \in Tx, Commit(t) PROVE order'.status = "CANCELLED"
    <2>1. pc[t] = "commit" /\ order' = IF hdr[t] = None THEN order ELSE hdr[t]
      BY <1>2 DEF Commit
    <2>2. job[t].kind \notin {"APPROVE", "REMOVE", "RECEIVE"}
      BY <1>1, <2>1 DEF Past
    <2>3. QED
      BY <2>1, <2>2 DEF RaceInv, BaseInv, OrderInv, HeaderInv, WritesInv
  <1>3. ASSUME NEW t \in Tx, DeleteOrder(t) PROVE FALSE
    <2>1. pc[t] = "delete" /\ job[t].kind \in Kind /\ pc[t] \in Places(job[t].kind)
      BY <1>3, KindOf DEF DeleteOrder, RaceInv, BaseInv, OrderInv, PlaceInv
    <2>2. job[t].kind = "REMOVE"
      BY <2>1 DEF Places, Kind
    <2>3. QED
      BY <1>1, <2>1, <2>2 DEF Past
  <1>4. ASSUME NEW t \in Tx, Step(t), ~Commit(t), ~DeleteOrder(t)
        PROVE  order'.status = "CANCELLED"
    BY <1>4 DEF Step, ReadHeader, ReadLinesToUpdate, ReadLinesToReceive, Refuse,
       StartClear, ClearLines, WriteHeader, WriteHeaderAs, SetStatus, InsertReceipt,
       AdvanceLine, AdvanceWith, CheckComplete, CheckWith, CloseOrder, Abort, Rollback
  <1>5. QED
    BY <1>2, <1>3, <1>4 DEF ONext, OBegin, Begin, OStep, OVictim, DeadlockVictim,
       Interrupt, Rollback, Create, ovars, vars

\* A cancelled order stays cancelled, unless the cancellation overlapped an
\* approval, a deletion or a receipt (transition writes the status by id,
\* whatever it is by then).
THEOREM CancelledStaysCancelled == OSpec => CancelledIsFinal
  <1>1. RaceInv /\ [ONext]_ovars =>
            [\/ Met({"CANCEL"}, {"APPROVE", "REMOVE", "RECEIVE"})
             \/ order.status # "CANCELLED"
             \/ order'.status = "CANCELLED"]_vars
    BY CancelledStays
  <1>2. QED
    BY <1>1, RaceInit, RaceStep, PTL DEF OSpec, CancelledIsFinal

-----------------------------------------------------------------------------
(* Receipts and the lines they fill *)

Got(rows) == [l \in DOMAIN rows |-> rows[l].received]
Asked(rows) == [l \in DOMAIN rows |-> rows[l].qty]

\* left is what some receipts may leave of the rows, the oldest ones filled
\* first.
Leaves(rows, left) ==
    /\ left \in [DOMAIN rows -> Nat]
    /\ \A k \in DOMAIN rows : left[k] <= rows[k].qty - rows[k].received
    /\ \A k, l \in DOMAIN rows :
          k < l /\ rows[k].product = rows[l].product /\ left[l] < rows[l].qty
              => left[k] = 0

LinesInv ==
    /\ \A l \in DOMAIN lines : lines[l] \in Row /\ lines[l].received <= lines[l].qty
    /\ OldFirst(lines)

ReceiptsInv ==
    /\ IsFiniteSet(DOMAIN receipts)
    /\ \A n \in DOMAIN receipts : receipts[n] \in Receipt

\* The units on the receipts are those on the lines.
CountInv == \A p \in Product : ReceivedOf(p) = ReceiptsOf(p)

Booked == {"receipt", "advance", "check", "close", "commit"}

\* An edit writes new rows only; a receipt writes none before it is inserted.
OwnInv(t) ==
    /\ pc[t] = "idle" => own[t] = NoRows
    /\ job[t].kind = "UPDATE" =>
           \A l \in DOMAIN own[t] :
               own[t][l] # None => own[t][l] \in Row /\ own[t][l].received = 0
    /\ job[t].kind # "UPDATE" /\ ~KeyShare(t) => own[t] = NoRows

\* What a receipt has written (mine) and has to write (updates) leaves left of
\* the rows, and the difference is what it brings.
Under(rows, mine, updates, costed, left) ==
    /\ Leaves(rows, left)
    /\ \A l \in DOMAIN mine :
          /\ l \in DOMAIN rows
          /\ mine[l] = [rows[l] EXCEPT !.received = rows[l].qty - left[l]]
    /\ updates \in Seq(Updates(rows))
    /\ \A i \in DOMAIN updates :
          updates[i].received = rows[updates[i].line].qty - left[updates[i].line]
    /\ \A k \in DOMAIN rows :
          left[k] # rows[k].qty - rows[k].received =>
              k \in DOMAIN mine \/ \E i \in DOMAIN updates : updates[i].line = k
    /\ \A p \in Product :
          SumOver(left, Of(rows, p)) + UnitsIn(costed, p)
            = SumOver(Remaining(rows), Of(rows, p))

Planned(rows, mine, updates, costed) ==
    \E left \in [DOMAIN rows -> Nat] : Under(rows, mine, updates, costed, left)

PlanInv(t) ==
    job[t].kind = "RECEIVE" /\ pc[t] \in Booked =>
        /\ order.status = "GONE" \/ Planned(lines, own[t], local[t].updates, local[t].costed)
        /\ pc[t] \in {"check", "close", "commit"} => local[t].updates = <<>>

CostedInv(t) ==
    job[t].kind \in {"RECEIVE", "DIRECT"} /\ pc[t] \in Booked =>
        local[t].costed \in Seq(ReceiptLine) /\ local[t].costed # <<>>

\* No two receipts have one number.
NumberInv(t) ==
    Inserted(t) =>
        /\ job[t].number \notin DOMAIN receipts
        /\ \A u \in Tx \ {t} : Inserted(u) => job[u].number # job[t].number

Kept(t) == OwnInv(t) /\ PlanInv(t) /\ CostedInv(t) /\ NumberInv(t)

MatchInv == LinesInv /\ ReceiptsInv /\ CountInv /\ \A t \in Tx : Kept(t)

\* Past its first query an edit meets no receipt, and a receipt no other one.
Clashless ==
    /\ \A t, u \in Tx : Past(t, "RECEIVE") /\ Past(u, "RECEIVE") => t = u
    /\ \A t \in Tx : Past(t, "UPDATE") =>
           /\ \A u \in Tx : ~Past(u, "RECEIVE")
           /\ \A n \in DOMAIN receipts : ~receipts[n].against

Rush == Met({"RECEIVE"}, {"RECEIVE"}) \/ Met({"UPDATE"}, {"APPROVE"})
FitInv == Rush \/ (Clashless /\ MatchInv)
-----------------------------------------------------------------------------
(* Sums of units *)

ReceivedIn(rows, p) == SumOf([l \in Of(rows, p) |-> rows[l].received])
OrderedIn(rows, p) == SumOf([l \in Of(rows, p) |-> rows[l].qty])
AgainstIn(recs) == {n \in DOMAIN recs : recs[n].against}
Brought(recs, p) == [n \in DOMAIN recs |-> UnitsIn(recs[n].lines, p)]
ReceiptsIn(recs, p) == SumOf([n \in AgainstIn(recs) |-> UnitsIn(recs[n].lines, p)])

\* A function's sum is that of any function with its values.
LEMMA SumOfIs ==
    ASSUME NEW f, NEW g, NEW S, IsFiniteSet(S), DOMAIN f = S,
           \A x \in S : f[x] = g[x] /\ f[x] \in Nat
    PROVE  SumOf(f) = SumOver(g, S) /\ SumOf(f) \in Nat
  <1>1. SumOf(f) = SumOver(f, S)
    BY DEF SumOf, FoldFunction, SumOver
  <1>2. SumOver(f, S) = SumOver(g, S)
    BY SumSame
  <1>3. SumOver(f, S) \in Nat
    BY SumNat
  <1>4. QED
    BY <1>1, <1>2, <1>3

LEMMA RowSums ==
    ASSUME NEW rows, Tidy(rows), NEW p
    PROVE  /\ ReceivedIn(rows, p) = SumOver(Got(rows), Of(rows, p))
           /\ OrderedIn(rows, p) = SumOver(Asked(rows), Of(rows, p))
           /\ ReceivedIn(rows, p) \in Nat /\ OrderedIn(rows, p) \in Nat
  <1> PICK f : f = [l \in Of(rows, p) |-> rows[l].received]
    OBVIOUS
  <1> PICK g : g = [l \in Of(rows, p) |-> rows[l].qty]
    OBVIOUS
  <1> PICK S : S = Of(rows, p)
    OBVIOUS
  <1>1. IsFiniteSet(S) /\ DOMAIN f = S /\ DOMAIN g = S
    BY RowsFinite
  <1> PICK a : a = Got(rows)
    OBVIOUS
  <1> PICK b : b = Asked(rows)
    OBVIOUS
  <1>2. \A l \in S : l \in DOMAIN rows /\ rows[l].received \in Nat /\ rows[l].qty \in Nat
    BY DEF Of, Tidy
  <1>3. \A l \in S : f[l] = a[l] /\ f[l] \in Nat
    BY <1>2 DEF Got
  <1>4. \A l \in S : g[l] = b[l] /\ g[l] \in Nat
    BY <1>2 DEF Asked
  <1>5. SumOf(f) = SumOver(a, S) /\ SumOf(f) \in Nat
    BY <1>1, <1>3, SumOfIs
  <1>6. SumOf(g) = SumOver(b, S) /\ SumOf(g) \in Nat
    BY <1>1, <1>4, SumOfIs
  <1>7. QED
    BY <1>5, <1>6 DEF ReceivedIn, OrderedIn

LEMMA LineQty ==
    ASSUME NEW ls \in Seq(ReceiptLine)
    PROVE  /\ Len(ls) \in Nat /\ DOMAIN ls = 1 .. Len(ls)
           /\ \A i \in DOMAIN ls : ls[i].qty \in Nat /\ ls[i].product \in Product
  <1>1. Len(ls) \in Nat /\ DOMAIN ls = 1 .. Len(ls) /\ \A i \in DOMAIN ls : ls[i] \in ReceiptLine
    OBVIOUS
  <1>2. QED
    BY <1>1 DEF ReceiptLine

LEMMA NamedFinite == ASSUME NEW ls, NEW p, NEW n \in Nat PROVE IsFiniteSet(Named(ls, p, n))
  <1>1. IsFiniteSet(1 .. n)
    BY FS_Interval
  <1>2. Named(ls, p, n) \subseteq 1 .. n
    BY DEF Named
  <1>3. QED
    BY <1>1, <1>2, FS_Subset

LEMMA UnitsNat == ASSUME NEW ls \in Seq(ReceiptLine), NEW p PROVE UnitsIn(ls, p) \in Nat
  <1>1. \A i \in Named(ls, p, Len(ls)) : Quantities(ls)[i] \in Nat
    BY LineQty DEF Named, Quantities
  <1>2. IsFiniteSet(Named(ls, p, Len(ls)))
    BY LineQty, NamedFinite
  <1>3. SumOver(Quantities(ls), Named(ls, p, Len(ls))) \in Nat
    BY <1>1, <1>2, SumNat
  <1>4. UnitsIn(ls, p) = SumOver(Quantities(ls), Named(ls, p, Len(ls)))
    BY LineQty, UnitsSum
  <1>5. QED
    BY <1>3, <1>4

\* Costs do not count.
LEMMA UnitsSame ==
    ASSUME NEW ls \in Seq(ReceiptLine), NEW ms \in Seq(ReceiptLine), Len(ls) = Len(ms),
           \A i \in 1 .. Len(ls) : ls[i].product = ms[i].product /\ ls[i].qty = ms[i].qty,
           NEW p
    PROVE  UnitsIn(ls, p) = UnitsIn(ms, p)
  <1> PICK S : S = Named(ls, p, Len(ls))
    OBVIOUS
  <1>0. Len(ls) \in Nat /\ DOMAIN ls = 1 .. Len(ls) /\ DOMAIN ms = 1 .. Len(ls)
    OBVIOUS
  <1>1. S = Named(ms, p, Len(ms)) /\ IsFiniteSet(S)
    <2>1. \A i \in 1 .. Len(ls) : ls[i].product = p <=> ms[i].product = p
      OBVIOUS
    <2>2. S = Named(ms, p, Len(ms))
      BY <2>1 DEF Named
    <2>3. QED
      BY <1>0, <2>2, NamedFinite
  <1>2. \A i \in S : Quantities(ls)[i] = Quantities(ms)[i] /\ Quantities(ls)[i] \in Nat
    BY LineQty DEF Named, Quantities
  <1>3. SumOver(Quantities(ls), S) = SumOver(Quantities(ms), S)
    BY <1>1, <1>2, SumSame
  <1>4. UnitsIn(ls, p) = SumOver(Quantities(ls), S)
    BY LineQty, UnitsSum
  <1>5. UnitsIn(ms, p) = SumOver(Quantities(ms), S)
    BY <1>1, LineQty, UnitsSum
  <1>6. QED
    BY <1>3, <1>4, <1>5

LEMMA ReceiptSums ==
    ASSUME NEW recs, IsFiniteSet(DOMAIN recs), \A n \in DOMAIN recs : recs[n] \in Receipt, NEW p
    PROVE  /\ ReceiptsIn(recs, p) = SumOver(Brought(recs, p), AgainstIn(recs))
           /\ ReceiptsIn(recs, p) \in Nat
           /\ IsFiniteSet(AgainstIn(recs)) /\ AgainstIn(recs) \subseteq DOMAIN recs
           /\ \A n \in DOMAIN recs : Brought(recs, p)[n] \in Nat
  <1> PICK S : S = AgainstIn(recs)
    OBVIOUS
  <1> PICK f : f = [n \in S |-> UnitsIn(recs[n].lines, p)]
    OBVIOUS
  <1>1. S \subseteq DOMAIN recs
    BY DEF AgainstIn
  <1>2. IsFiniteSet(S)
    BY <1>1, FS_Subset
  <1>3. ASSUME NEW n \in DOMAIN recs
        PROVE  Brought(recs, p)[n] = UnitsIn(recs[n].lines, p) /\ Brought(recs, p)[n] \in Nat
    <2>1. recs[n].lines \in Seq(ReceiptLine)
      BY DEF Receipt
    <2>2. UnitsIn(recs[n].lines, p) \in Nat
      BY <2>1, UnitsNat
    <2>3. QED
      BY <2>2 DEF Brought
  <1>4. DOMAIN f = S /\ \A n \in S : f[n] = Brought(recs, p)[n] /\ f[n] \in Nat
    BY <1>1, <1>3
  <1>5. SumOf(f) = SumOver(Brought(recs, p), S) /\ SumOf(f) \in Nat
    BY <1>2, <1>4, SumOfIs
  <1>6. QED
    BY <1>1, <1>2, <1>3, <1>5 DEF ReceiptsIn

OneMore(recs, m, r, more) ==
    /\ m \notin DOMAIN recs /\ DOMAIN more = DOMAIN recs \cup {m} /\ more[m] = r
    /\ \A n \in DOMAIN recs : more[n] = recs[n]

\* One more receipt counts if it is against the order.
LEMMA OneReceiptMore ==
    ASSUME NEW recs, IsFiniteSet(DOMAIN recs), \A n \in DOMAIN recs : recs[n] \in Receipt,
           NEW m, NEW r \in Receipt, NEW more, OneMore(recs, m, r, more), NEW p
    PROVE  /\ IsFiniteSet(DOMAIN more) /\ \A n \in DOMAIN more : more[n] \in Receipt
           /\ ReceiptsIn(more, p) = ReceiptsIn(recs, p)
                                      + (IF r.against THEN UnitsIn(r.lines, p) ELSE 0)
  <1>0. /\ m \notin DOMAIN recs /\ DOMAIN more = DOMAIN recs \cup {m} /\ more[m] = r
        /\ \A n \in DOMAIN recs : more[n] = recs[n]
    BY DEF OneMore
  <1>1. IsFiniteSet(DOMAIN more) /\ \A n \in DOMAIN more : more[n] \in Receipt
    BY <1>0, FS_AddElement
  <1> PICK S : S = AgainstIn(recs)
    OBVIOUS
  <1> PICK T : T = AgainstIn(more)
    OBVIOUS
  <1> PICK f : f = Brought(recs, p)
    OBVIOUS
  <1> PICK g : g = Brought(more, p)
    OBVIOUS
  <1>2. /\ ReceiptsIn(recs, p) = SumOver(f, S) /\ ReceiptsIn(recs, p) \in Nat
        /\ IsFiniteSet(S) /\ S \subseteq DOMAIN recs /\ \A n \in DOMAIN recs : f[n] \in Nat
    BY ReceiptSums
  <1>3. /\ ReceiptsIn(more, p) = SumOver(g, T) /\ IsFiniteSet(T)
        /\ \A n \in DOMAIN more : g[n] \in Nat
    BY <1>1, ReceiptSums
  <1>4. \A n \in DOMAIN recs : f[n] = g[n]
    BY <1>0 DEF Brought
  <1>5. SumOver(f, S) = SumOver(g, S)
    BY <1>2, <1>4, SumSame
  <1>6. g[m] = UnitsIn(r.lines, p)
    BY <1>0 DEF Brought
  <1>7. CASE r.against
    <2>1. m \in T /\ T \ {m} = S
      BY <1>0, <1>7 DEF AgainstIn
    <2>2. \A n \in T : g[n] \in Nat
      BY <1>3 DEF AgainstIn
    <2>3. SumOver(g, T) = g[m] + SumOver(g, S)
      BY <1>3, <2>1, <2>2, SumAny
    <2>4. g[m] \in Nat
      BY <1>0, <1>3
    <2>5. QED
      BY <1>1, <1>2, <1>3, <1>5, <1>6, <1>7, <2>3, <2>4
  <1>8. CASE ~r.against
    <2>1. T = S
      BY <1>0, <1>8 DEF AgainstIn
    <2>2. QED
      BY <1>1, <1>2, <1>3, <1>5, <1>8, <2>1
  <1>9. QED
    BY <1>7, <1>8

\* new is rows after what left does not leave of them has come in.
FilledTo(rows, left, new) ==
    /\ DOMAIN new = DOMAIN rows
    /\ \A l \in DOMAIN rows : new[l] = [rows[l] EXCEPT !.received = rows[l].qty - left[l]]

LEMMA Filled ==
    ASSUME NEW rows, Tidy(rows), \A l \in DOMAIN rows : rows[l] \in Row,
           NEW left, Leaves(rows, left),
           NEW new, FilledTo(rows, left, new)
    PROVE  /\ \A l \in DOMAIN new : new[l] \in Row /\ new[l].received <= new[l].qty
           /\ Tidy(new) /\ OldFirst(new)
           /\ \A p : Of(new, p) = Of(rows, p)
           /\ \A p : SumOver(Got(new), Of(rows, p)) + SumOver(left, Of(rows, p))
                       = SumOver(Got(rows), Of(rows, p)) + SumOver(Remaining(rows), Of(rows, p))
  <1>0. /\ DOMAIN new = DOMAIN rows
        /\ \A l \in DOMAIN rows : new[l] = [rows[l] EXCEPT !.received = rows[l].qty - left[l]]
    BY DEF FilledTo
  <1>1. ASSUME NEW l \in DOMAIN rows
        PROVE  /\ rows[l].qty \in Nat /\ rows[l].received \in Nat /\ left[l] \in Nat
               /\ rows[l].received <= rows[l].qty
               /\ left[l] <= rows[l].qty - rows[l].received
               /\ new[l].qty = rows[l].qty /\ new[l].product = rows[l].product
               /\ new[l].received = rows[l].qty - left[l]
               /\ new[l] \in Row /\ new[l].received \in Nat /\ new[l].received <= new[l].qty
    <2>1. /\ rows[l].qty \in Nat /\ rows[l].received \in Nat /\ left[l] \in Nat
          /\ rows[l].received <= rows[l].qty
          /\ left[l] <= rows[l].qty - rows[l].received
      BY DEF Tidy, Row, Leaves
    <2>2. rows[l].qty - left[l] \in Nat /\ rows[l].qty - left[l] <= rows[l].qty
      BY <2>1
    <2>3. new[l] = [product |-> rows[l].product, qty |-> rows[l].qty,
                    unitCost |-> rows[l].unitCost, received |-> rows[l].qty - left[l]]
          /\ rows[l].product \in Product /\ rows[l].unitCost \in Nat
      BY <1>0 DEF Row
    <2>4. new[l] \in Row
      BY <2>1, <2>2, <2>3 DEF Row
    <2>5. QED
      BY <2>1, <2>2, <2>3, <2>4
  <1>2. Tidy(new)
    BY <1>0, <1>1 DEF Tidy
  <1>3. ASSUME NEW k \in DOMAIN new, NEW l \in DOMAIN new, k < l,
               new[k].product = new[l].product, new[l].received > 0
        PROVE  new[k].received = new[k].qty
    <2>1. k \in DOMAIN rows /\ l \in DOMAIN rows /\ left[l] < rows[l].qty
      BY <1>0, <1>1, <1>3
    <2>2. left[k] = 0
      BY <1>1, <1>3, <2>1 DEF Leaves
    <2>3. QED
      BY <1>1, <2>1, <2>2
  <1>4. OldFirst(new)
    BY <1>3 DEF OldFirst
  <1>5. \A p : Of(new, p) = Of(rows, p)
    BY <1>0, <1>1 DEF Of
  <1>6. ASSUME NEW p
        PROVE  SumOver(Got(new), Of(rows, p)) + SumOver(left, Of(rows, p))
                 = SumOver(Got(rows), Of(rows, p)) + SumOver(Remaining(rows), Of(rows, p))
    <2> PICK S : S = Of(rows, p)
      OBVIOUS
    <2>1. IsFiniteSet(S) /\ S \subseteq DOMAIN rows
      BY RowsFinite DEF Of
    <2>2. \A l \in S : /\ Got(new)[l] \in Nat /\ left[l] \in Nat
                       /\ Asked(rows)[l] = Got(new)[l] + left[l]
      BY <1>0, <1>1, <2>1 DEF Got, Asked
    <2>3. SumOver(Asked(rows), S) = SumOver(Got(new), S) + SumOver(left, S)
      BY <2>1, <2>2, SumPlus
    <2>4. \A l \in S : /\ Got(rows)[l] \in Nat /\ Remaining(rows)[l] \in Nat
                       /\ Asked(rows)[l] = Got(rows)[l] + Remaining(rows)[l]
      BY <1>1, <2>1 DEF Got, Asked, Remaining
    <2>5. SumOver(Asked(rows), S) = SumOver(Got(rows), S) + SumOver(Remaining(rows), S)
      BY <2>1, <2>4, SumPlus
    <2>6. QED
      BY <2>3, <2>5
  <1>7. QED
    BY <1>0, <1>1, <1>2, <1>4, <1>5, <1>6

-----------------------------------------------------------------------------
(* What a request relies on while others go on *)

LEMMA CountsAre ==
    /\ \A p : ReceivedOf(p) = ReceivedIn(lines, p) /\ ReceiptsOf(p) = ReceiptsIn(receipts, p)
    /\ \A p : ReceivedOf(p)' = ReceivedIn(lines', p) /\ ReceiptsOf(p)' = ReceiptsIn(receipts', p)
  BY DEF ReceivedOf, ReceiptsOf, ReceivedIn, ReceiptsIn, Of, AgainstIn

LEMMA LinesTidy ==
    ASSUME TypedInv, LinesInv
    PROVE  /\ Tidy(lines) /\ CostsKnown(lines) /\ OldFirst(lines)
           /\ \A l \in DOMAIN lines : lines[l] \in Row
  <1>1. nextLine - 1 \in Nat /\ DOMAIN lines \subseteq 1 .. nextLine - 1
    BY DEF TypedInv, RowsTyped
  <1>2. \A l \in DOMAIN lines : lines[l] \in Row /\ lines[l].received <= lines[l].qty
    BY DEF LinesInv
  <1>3. \A l \in DOMAIN lines : /\ lines[l].qty \in Nat /\ lines[l].received \in Nat
                                /\ lines[l].unitCost \in Nat
    BY <1>2 DEF Row
  <1>4. Tidy(lines)
    BY <1>1, <1>2, <1>3 DEF Tidy
  <1>5. QED
    BY <1>2, <1>3, <1>4 DEF CostsKnown, LinesInv

\* Rows of which nothing was received sum up to nothing, and only such rows.
LEMMA NothingIn ==
    ASSUME NEW rows, Tidy(rows), \A l \in DOMAIN rows : rows[l].received = 0, NEW p
    PROVE  ReceivedIn(rows, p) = 0
  <1> PICK f : f = Got(rows)
    OBVIOUS
  <1> PICK S : S = Of(rows, p)
    OBVIOUS
  <1>1. IsFiniteSet(S)
    BY RowsFinite
  <1>2. \A l \in S : f[l] = 0
    BY DEF Of, Got
  <1>3. \A l \in S : f[l] \in Nat /\ f[l] = f[l] + f[l]
    BY <1>2
  <1>4. SumOver(f, S) = SumOver(f, S) + SumOver(f, S)
    BY <1>1, <1>3, SumPlus
  <1>5. SumOver(f, S) \in Nat
    BY <1>1, <1>3, SumNat
  <1>6. SumOver(f, S) = 0
    <2>1. \A x \in Nat : x = x + x => x = 0
      OBVIOUS
    <2>2. QED
      BY <1>4, <1>5, <2>1
  <1>7. QED
    BY <1>6, RowSums

LEMMA NoneCounted ==
    ASSUME NEW rows, Tidy(rows), NEW l \in DOMAIN rows, ReceivedIn(rows, rows[l].product) = 0
    PROVE  rows[l].received = 0
  <1> PICK f : f = Got(rows)
    OBVIOUS
  <1> PICK S : S = Of(rows, rows[l].product)
    OBVIOUS
  <1>1. IsFiniteSet(S) /\ l \in S
    BY RowsFinite DEF Of
  <1>2. \A k \in S : f[k] \in Nat
    BY DEF Of, Got, Tidy
  <1>3. SumOver(f, S) = 0
    BY RowSums
  <1>4. SumOver(f, S) = f[l] + SumOver(f, S \ {l})
    BY <1>1, <1>2, SumAny
  <1>5. SumOver(f, S \ {l}) \in Nat
    <2>1. IsFiniteSet(S \ {l}) /\ \A k \in S \ {l} : f[k] \in Nat
      BY <1>1, <1>2, FS_Subset
    <2>2. QED
      BY <2>1, SumNat
  <1>6. f[l] = 0
    BY <1>1, <1>2, <1>3, <1>4, <1>5
  <1>7. QED
    BY <1>6 DEF Got

LEMMA NoAgainst ==
    ASSUME NEW recs, IsFiniteSet(DOMAIN recs), \A n \in DOMAIN recs : recs[n] \in Receipt,
           \A n \in DOMAIN recs : ~recs[n].against, NEW p
    PROVE  ReceiptsIn(recs, p) = 0
  <1>1. AgainstIn(recs) = {}
    BY DEF AgainstIn
  <1>2. ReceiptsIn(recs, p) = SumOver(Brought(recs, p), {})
    BY <1>1, ReceiptSums
  <1>3. QED
    BY <1>2, SumEmpty

LEMMA RowsAreNew ==
    ASSUME nextLine \in Nat \ {0}, NEW ls \in OrderLines \cup {<<>>}, NEW l \in DOMAIN Rows(ls)
    PROVE  Rows(ls)[l] \in Row /\ Rows(ls)[l].received = 0
  <1>1. ls \in Seq(OrderLine)
    <2>1. CASE ls \in OrderLines
      BY <2>1, OrderLinesAssumption
    <2>2. CASE ls = <<>>
      BY <2>2
    <2>3. QED
      BY <2>1, <2>2
  <1>2. Len(ls) \in Nat /\ \A i \in 1 .. Len(ls) : ls[i] \in OrderLine
    BY <1>1
  <1>3. l \in nextLine .. nextLine + Len(ls) - 1
    BY DEF Rows
  <1>4. ls[l - nextLine + 1] \in OrderLine
    <2>1. l - nextLine + 1 \in 1 .. Len(ls)
      BY <1>2, <1>3
    <2>2. QED
      BY <1>2, <2>1
  <1>5. Rows(ls)[l] = [product |-> ls[l - nextLine + 1].product,
                       qty |-> ls[l - nextLine + 1].qty,
                       unitCost |-> ls[l - nextLine + 1].unitCost, received |-> 0]
    BY <1>3 DEF Rows
  <1>6. QED
    BY <1>4, <1>5 DEF Row, OrderLine

\* Rows of which nothing was received meet the invariants.
LEMMA FreshRows ==
    ASSUME NEW rows, \E n \in Nat : DOMAIN rows \subseteq 1 .. n,
           \A l \in DOMAIN rows : rows[l] \in Row /\ rows[l].received = 0
    PROVE  /\ \A l \in DOMAIN rows : rows[l] \in Row /\ rows[l].received <= rows[l].qty
           /\ OldFirst(rows) /\ \A p : ReceivedIn(rows, p) = 0
  <1>1. \A l \in DOMAIN rows : rows[l].qty \in Nat /\ rows[l].received = 0
    BY DEF Row
  <1>2. Tidy(rows)
    BY <1>1 DEF Tidy
  <1>3. \A p : ReceivedIn(rows, p) = 0
    BY <1>2, NothingIn
  <1>4. QED
    BY <1>1, <1>3 DEF OldFirst
-----------------------------------------------------------------------------
\* A step of t that changes nothing committed.
Inside(t) ==
    /\ UNCHANGED <<order, lines, receipts>>
    /\ \A u \in Tx \ {t} : /\ pc'[u] = pc[u] /\ job'[u] = job[u]
                           /\ own'[u] = own[u] /\ local'[u] = local[u]

LEMMA InsideKeeps ==
    ASSUME MatchInv, NEW t \in Tx, Inside(t), Kept(t)'
    PROVE  MatchInv'
  <1>1. LinesInv' /\ ReceiptsInv'
    BY DEF MatchInv, Inside, LinesInv, ReceiptsInv
  <1>2. CountInv'
    BY CountsAre DEF MatchInv, Inside, CountInv
  <1>3. ASSUME NEW u \in Tx \ {t} PROVE Kept(u)'
    <2>1. /\ pc'[u] = pc[u] /\ job'[u] = job[u] /\ own'[u] = own[u] /\ local'[u] = local[u]
          /\ order' = order /\ lines' = lines /\ receipts' = receipts
      BY DEF Inside
    <2>2. OwnInv(u) /\ PlanInv(u) /\ CostedInv(u) /\ NumberInv(u)
      BY DEF MatchInv, Kept
    <2>3. OwnInv(u)' /\ CostedInv(u)'
      BY <2>1, <2>2 DEF OwnInv, CostedInv, KeyShare, Inserted
    <2>4. PlanInv(u)'
      BY <2>1, <2>2 DEF PlanInv
    <2>5. ASSUME Inserted(u)', NEW v \in Tx \ {u}, Inserted(v)'
          PROVE  job'[v].number # job'[u].number
      <3>1. CASE v = t
        BY <2>5, <3>1 DEF Kept, NumberInv
      <3>2. CASE v # t
        BY <2>1, <2>2, <2>5, <3>2 DEF NumberInv, Inserted, Inside
      <3>3. QED
        BY <3>1, <3>2
    <2>6. NumberInv(u)'
      BY <2>1, <2>2, <2>5 DEF NumberInv, Inserted
    <2>7. QED
      BY <2>3, <2>4, <2>6 DEF Kept
  <1>4. QED
    BY <1>1, <1>2, <1>3 DEF MatchInv

\* A request that is over, or not yet past its first query, holds nothing.
LEMMA IdleKeeps ==
    ASSUME MatchInv, NEW t \in Tx, Inside(t), pc'[t] \in {"idle", "read"}, own'[t] = NoRows
    PROVE  MatchInv'
  <1>1. Kept(t)'
    BY DEF Kept, OwnInv, PlanInv, CostedInv, NumberInv, Inserted, Booked, NoRows
  <1>2. QED
    BY <1>1, InsideKeeps

-----------------------------------------------------------------------------
(* The rows that a receipt plans to write *)

\* What a receipt plans when it has read the lines.
LEMMA PlanFits ==
    ASSUME NEW rows, Tidy(rows), OldFirst(rows), CostsKnown(rows),
           NEW rec \in Seq(ReceiptLine), rec # <<>>, NEW R, R = Resolve(rows, rec), R.ok
    PROVE  /\ Planned(rows, NoRows, R.updates, R.costed)
           /\ R.costed \in Seq(ReceiptLine) /\ R.costed # <<>>
  <1>1. /\ R \in Settled(rows) /\ Len(R.costed) = Len(rec)
        /\ \A i \in 1 .. Len(rec) : /\ R.costed[i].product = rec[i].product
                                    /\ R.costed[i].qty = rec[i].qty
        /\ \A p : SumOver(R.left, Of(rows, p)) + UnitsIn(rec, p)
                    = SumOver(Remaining(rows), Of(rows, p))
    BY ResolveSpec
  <1>2. /\ R.left \in [DOMAIN rows -> Nat] /\ R.updates \in Seq(Updates(rows))
        /\ R.costed \in Seq(ReceiptLine) /\ PlanOf(rows, R.left, R.updates)
    BY <1>1 DEF Settled
  <1>3. R.costed # <<>>
    BY <1>1, <1>2
  <1>4. \A p : UnitsIn(R.costed, p) = UnitsIn(rec, p)
    BY <1>1, <1>2, UnitsSame
  <1>5. DOMAIN NoRows = {}
    BY DEF NoRows
  <1>6. Under(rows, NoRows, R.updates, R.costed, R.left)
    <2>1. Leaves(rows, R.left)
      BY <1>2 DEF PlanOf, Leaves
    <2>2. /\ \A i \in DOMAIN R.updates :
              R.updates[i].received = rows[R.updates[i].line].qty - R.left[R.updates[i].line]
          /\ \A k \in DOMAIN rows :
                R.left[k] # rows[k].qty - rows[k].received =>
                    \E i \in DOMAIN R.updates : R.updates[i].line = k
      BY <1>2 DEF PlanOf
    <2>3. QED
      BY <1>1, <1>2, <1>4, <1>5, <2>1, <2>2 DEF Under
  <1>7. QED
    BY <1>2, <1>3, <1>6 DEF Planned

\* A receipt writes the next of its lines.
LEMMA AdvanceFits ==
    ASSUME NEW rows, NEW mine, NEW updates, NEW costed, Planned(rows, mine, updates, costed),
           updates # <<>>, NEW u, u = Head(updates), u.line \in DOMAIN rows,
           NEW row, row = [rows[u.line] EXCEPT !.received = u.received],
           NEW new, new = Over([l \in {u.line} |-> row], mine)
    PROVE  Planned(rows, new, Tail(updates), costed)
  <1>1. PICK left \in [DOMAIN rows -> Nat] : Under(rows, mine, updates, costed, left)
    BY DEF Planned
  <1> PICK rest : rest = Tail(updates)
    OBVIOUS
  <1>2. updates \in Seq(Updates(rows)) /\ 1 \in DOMAIN updates /\ u = updates[1]
    BY <1>1 DEF Under
  <1>3. /\ rest \in Seq(Updates(rows))
        /\ \A i \in DOMAIN rest : i + 1 \in DOMAIN updates /\ rest[i] = updates[i + 1]
        /\ \A i \in DOMAIN updates : i = 1 \/ (i - 1 \in DOMAIN rest /\ rest[i - 1] = updates[i])
    BY <1>2
  <1>4. /\ DOMAIN new = DOMAIN mine \cup {u.line}
        /\ new[u.line] = row
        /\ \A l \in DOMAIN mine \ {u.line} : new[l] = mine[l]
    BY DEF Over
  <1>5. u.received = rows[u.line].qty - left[u.line]
    BY <1>1, <1>2 DEF Under
  <1>6. ASSUME NEW l \in DOMAIN new
        PROVE  l \in DOMAIN rows /\ new[l] = [rows[l] EXCEPT !.received = rows[l].qty - left[l]]
    <2>1. CASE l = u.line
      BY <1>4, <1>5, <2>1
    <2>2. CASE l # u.line
      BY <1>1, <1>4, <1>6, <2>2 DEF Under
    <2>3. QED
      BY <2>1, <2>2
  <1>7. ASSUME NEW i \in DOMAIN rest
        PROVE  rest[i].received = rows[rest[i].line].qty - left[rest[i].line]
    BY <1>1, <1>3 DEF Under
  <1>8. ASSUME NEW k \in DOMAIN rows, left[k] # rows[k].qty - rows[k].received
        PROVE  k \in DOMAIN new \/ \E i \in DOMAIN rest : rest[i].line = k
    <2>1. CASE k \in DOMAIN mine
      BY <1>4, <2>1
    <2>2. CASE k \notin DOMAIN mine
      <3>1. PICK i \in DOMAIN updates : updates[i].line = k
        BY <1>1, <1>8, <2>2 DEF Under
      <3>2. CASE i = 1
        BY <1>2, <1>4, <3>1, <3>2
      <3>3. CASE i # 1
        BY <1>3, <3>1, <3>3
      <3>4. QED
        BY <3>2, <3>3
    <2>3. QED
      BY <2>1, <2>2
  <1>9. Under(rows, new, rest, costed, left)
    BY <1>1, <1>3, <1>6, <1>7, <1>8 DEF Under
  <1>10. QED
    BY <1>9 DEF Planned

LEMMA MovesInside ==
    ASSUME OrderInv, TypedInv, MatchInv, NEW t \in Tx,
           ReadHeader(t) \/ ReadLinesToUpdate(t) \/ ReadLinesToReceive(t)
             \/ StartClear(t) \/ ClearLines(t) \/ WriteHeader(t) \/ SetStatus(t)
             \/ InsertReceipt(t) \/ AdvanceLine(t) \/ CheckComplete(t) \/ CloseOrder(t)
    PROVE  /\ Inside(t) /\ job' = job /\ pc[t] # "idle" /\ pc'[t] # "idle"
           /\ \E w : pc' = [pc EXCEPT ![t] = w] /\ pc'[t] = w
  <1>1. PICK w : pc' = [pc EXCEPT ![t] = w] /\ w # "idle"
    <2>1. CASE ReadHeader(t)
      <3>1. pc[t] = "read" /\ job[t].kind \in Kind /\ pc[t] \in Places(job[t].kind)
        BY <2>1, KindOf DEF ReadHeader, OrderInv, PlaceInv
      <3>2. job[t].kind \in {"UPDATE", "REMOVE", "APPROVE", "CANCEL", "RECEIVE"}
        BY <3>1 DEF Places, Kind
      <3>3. CASE job[t].kind \in {"UPDATE", "RECEIVE"}
        <4>1. pc' = [pc EXCEPT ![t] = "lines"] /\ "lines" # "idle"
          BY <2>1, <3>3 DEF ReadHeader, Goto
        <4>2. QED
          BY <4>1, Zenon
      <3>4. CASE job[t].kind \in {"APPROVE", "CANCEL"}
        <4>1. pc' = [pc EXCEPT ![t] = "status"] /\ "status" # "idle"
          BY <2>1, <3>4 DEF ReadHeader, Goto
        <4>2. QED
          BY <4>1, Zenon
      <3>5. CASE job[t].kind = "REMOVE"
        <4>1. pc' = [pc EXCEPT ![t] = "delete"] /\ "delete" # "idle"
          BY <2>1, <3>5 DEF ReadHeader, Goto
        <4>2. QED
          BY <4>1, Zenon
      <3>6. QED
        BY <3>2, <3>3, <3>4, <3>5
    <2>2. CASE ReadLinesToUpdate(t) \/ StartClear(t) \/ ClearLines(t)
      BY <2>2 DEF ReadLinesToUpdate, StartClear, ClearLines, Goto
    <2>3. CASE ReadLinesToReceive(t) \/ InsertReceipt(t)
      BY <2>3 DEF ReadLinesToReceive, InsertReceipt, Goto
    <2>4. CASE WriteHeader(t) \/ SetStatus(t) \/ CloseOrder(t)
      BY <2>4 DEF WriteHeader, WriteHeaderAs, SetStatus, CloseOrder, Goto
    <2>5. CASE AdvanceLine(t) \/ CheckComplete(t)
      BY <2>5 DEF AdvanceLine, AdvanceWith, CheckComplete, CheckWith, Goto
    <2>6. QED
      BY <2>1, <2>2, <2>3, <2>4, <2>5
  <1>2. /\ UNCHANGED <<order, lines, receipts, job>>
        /\ pc[t] # "idle"
    BY DEF ReadHeader, ReadLinesToUpdate, ReadLinesToReceive, StartClear, ClearLines,
           WriteHeader, WriteHeaderAs, SetStatus, InsertReceipt, AdvanceLine,
           AdvanceWith, CheckComplete, CheckWith, CloseOrder
  <1>3. DOMAIN own = Tx /\ DOMAIN local = Tx /\ DOMAIN pc = Tx
    BY DEF TypedInv, OrderInv, ShapeInv
  <1>4. \A u \in Tx \ {t} : own'[u] = own[u]
    BY <1>3 DEF ReadHeader, ReadLinesToUpdate, ReadLinesToReceive, StartClear, ClearLines,
           WriteHeader, WriteHeaderAs, SetStatus, InsertReceipt, AdvanceLine,
           AdvanceWith, CheckComplete, CheckWith, CloseOrder
  <1>5. \A u \in Tx \ {t} : local'[u] = local[u]
    BY <1>3 DEF ReadHeader, ReadLinesToUpdate, ReadLinesToReceive, StartClear, ClearLines,
           WriteHeader, WriteHeaderAs, SetStatus, InsertReceipt, AdvanceLine,
           AdvanceWith, CheckComplete, CheckWith, CloseOrder
  <1>6. QED
    BY <1>1, <1>2, <1>3, <1>4, <1>5 DEF Inside

-----------------------------------------------------------------------------
(* The steps inside a transaction keep the rows and the receipts together *)

\* A request that is no receipt promises only the rows it wrote.
LEMMA KeptByOthers ==
    ASSUME NEW t \in Tx, job'[t] = job[t], job[t].kind \notin {"RECEIVE", "DIRECT"},
           pc'[t] # "idle", OwnInv(t)'
    PROVE  Kept(t)'
  BY DEF Kept, PlanInv, CostedInv, NumberInv, Inserted

LEMMA ReadKeepsMatch ==
    ASSUME OrderInv, TypedInv, MatchInv, NEW t \in Tx,
           ReadHeader(t) \/ ReadLinesToUpdate(t) \/ StartClear(t) \/ SetStatus(t)
    PROVE  MatchInv'
  <1>1. Inside(t) /\ job' = job /\ pc[t] # "idle" /\ pc'[t] # "idle"
    BY MovesInside
  <1>2. /\ own' = own /\ OwnInv(t) /\ job[t].kind \in Kind /\ pc[t] \in Places(job[t].kind)
    BY KindOf DEF ReadHeader, ReadLinesToUpdate, StartClear, SetStatus, MatchInv, Kept,
       OrderInv, PlaceInv
  <1>3. CASE ReadHeader(t)
    <2>1. pc[t] = "read" /\ pc'[t] \in {"lines", "status", "delete"}
      <3>1. job[t].kind \in {"UPDATE", "REMOVE", "APPROVE", "CANCEL", "RECEIVE"}
        BY <1>2, <1>3 DEF Places, Kind, ReadHeader
      <3>2. DOMAIN pc = Tx
        BY DEF OrderInv, ShapeInv
      <3>3. QED
        BY <1>3, <3>1, <3>2 DEF ReadHeader, Goto
    <2>2. ~Inserted(t) /\ ~Inserted(t)' /\ ~KeyShare(t)
      BY <1>1, <2>1 DEF KeyShare, Inserted
    <2>3. OwnInv(t)'
      BY <1>1, <1>2, <2>1, <2>2 DEF OwnInv
    <2>4. PlanInv(t)' /\ CostedInv(t)' /\ NumberInv(t)'
      BY <2>1, <2>2 DEF PlanInv, CostedInv, NumberInv, Booked
    <2>5. QED
      BY <1>1, <2>3, <2>4, InsideKeeps DEF Kept
  <1>4. CASE ~ReadHeader(t)
    <2>1. job[t].kind \notin {"RECEIVE", "DIRECT"}
      BY <1>2, <1>4 DEF Places, Kind, ReadLinesToUpdate, StartClear, SetStatus
    <2>2. ~KeyShare(t) /\ ~KeyShare(t)'
      BY <1>1, <2>1 DEF KeyShare, Inserted
    <2>3. OwnInv(t)'
      BY <1>1, <1>2, <2>2 DEF OwnInv
    <2>4. QED
      BY <1>1, <2>1, <2>3, KeptByOthers, InsideKeeps
  <1>5. QED
    BY <1>3, <1>4

\* An edit deletes the rows it found and writes new ones.
LEMMA EditKeepsMatch ==
    ASSUME OrderInv, TypedInv, MatchInv, NEW t \in Tx, ClearLines(t) \/ WriteHeader(t)
    PROVE  MatchInv'
  <1>1. Inside(t) /\ job' = job /\ pc[t] # "idle" /\ pc'[t] # "idle"
    BY MovesInside
  <1>2. OwnInv(t) /\ job[t].kind = "UPDATE"
    <2>1. pc[t] \in {"clearing", "header"} /\ job[t].kind \in Kind /\ pc[t] \in Places(job[t].kind)
      BY KindOf DEF ClearLines, WriteHeader, WriteHeaderAs, OrderInv, PlaceInv
    <2>2. QED
      BY <2>1 DEF Places, Kind, MatchInv, Kept
  <1>3. ASSUME NEW l \in DOMAIN own'[t], own'[t][l] # None
        PROVE  own'[t][l] \in Row /\ own'[t][l].received = 0
    <2>1. CASE ClearLines(t)
      <3>1. own'[t] = [k \in local[t].targets \cap DOMAIN lines |-> None]
        BY <2>1 DEF ClearLines, TypedInv
      <3>2. QED
        BY <1>3, <3>1
    <2>2. CASE WriteHeader(t)
      <3>1. own'[t] = Over(Rows(job[t].lines), own[t])
        BY <2>2 DEF WriteHeader, WriteHeaderAs, TypedInv
      <3>2. /\ DOMAIN own'[t] = DOMAIN Rows(job[t].lines) \cup DOMAIN own[t]
            /\ own'[t][l] = IF l \in DOMAIN Rows(job[t].lines) THEN Rows(job[t].lines)[l]
                                                               ELSE own[t][l]
        BY <1>3, <3>1 DEF Over
      <3>3. job[t].lines \in OrderLines \cup {<<>>} /\ nextLine \in Nat \ {0}
        BY <1>2, JobAssumption DEF OrderInv, ShapeInv, TypedInv
      <3>4. CASE l \in DOMAIN Rows(job[t].lines)
        BY <3>2, <3>3, <3>4, RowsAreNew
      <3>5. CASE l \notin DOMAIN Rows(job[t].lines)
        BY <1>2, <1>3, <3>2, <3>5 DEF OwnInv
      <3>6. QED
        BY <3>4, <3>5
    <2>3. QED
      BY <2>1, <2>2
  <1>4. OwnInv(t)'
    BY <1>1, <1>2, <1>3 DEF OwnInv
  <1>5. QED
    BY <1>1, <1>2, <1>4, KeptByOthers, InsideKeeps

LEMMA PlanKeepsMatch ==
    ASSUME OrderInv, TypedInv, MatchInv, NEW t \in Tx, ReadLinesToReceive(t)
    PROVE  MatchInv'
  <1>1. Inside(t) /\ job' = job /\ pc[t] # "idle" /\ pc'[t] # "idle"
    BY MovesInside
  <1>2. /\ pc[t] = "lines" /\ pc'[t] = "receipt" /\ job[t].kind = "RECEIVE" /\ own' = own
        /\ Plan(t).ok /\ local'[t].updates = Plan(t).updates
        /\ local'[t].costed = Plan(t).costed
    BY DEF ReadLinesToReceive, Goto, OrderInv, ShapeInv, TypedInv
  <1>3. own[t] = NoRows
    BY <1>2 DEF MatchInv, Kept, OwnInv, KeyShare, Inserted
  <1>4. job[t].lines \in Seq(ReceiptLine) /\ job[t].lines # <<>>
    BY <1>2, JobAssumption DEF OrderInv, ShapeInv
  <1>5. Tidy(lines) /\ OldFirst(lines) /\ CostsKnown(lines)
    BY LinesTidy DEF MatchInv
  <1>6. /\ Planned(lines, NoRows, Plan(t).updates, Plan(t).costed)
        /\ Plan(t).costed \in Seq(ReceiptLine) /\ Plan(t).costed # <<>>
    BY <1>2, <1>4, <1>5, PlanFits DEF Plan
  <1>7. lines' = lines
    BY <1>1 DEF Inside
  <1>8. PlanInv(t)'
    BY <1>2, <1>3, <1>6, <1>7 DEF PlanInv
  <1>9. OwnInv(t)' /\ CostedInv(t)' /\ NumberInv(t)'
    BY <1>1, <1>2, <1>3, <1>6 DEF OwnInv, CostedInv, NumberInv, Inserted
  <1>10. QED
    BY <1>1, <1>8, <1>9, InsideKeeps DEF Kept

LEMMA InsertKeepsMatch ==
    ASSUME OrderInv, TypedInv, MatchInv, NEW t \in Tx, InsertReceipt(t)
    PROVE  MatchInv'
  <1>1. Inside(t) /\ job' = job /\ pc[t] # "idle" /\ pc'[t] # "idle"
    BY MovesInside
  <1>2. /\ pc[t] = "receipt" /\ NumberFree(t) /\ job[t].number \notin DOMAIN receipts
        /\ IF job[t].kind = "DIRECT" THEN pc'[t] = "commit"
           ELSE /\ pc'[t] \in {"advance", "check"}
                /\ pc'[t] = "check" => local[t].updates = <<>>
        /\ own' = own /\ local' = local
    BY DEF InsertReceipt, Goto, OrderInv, ShapeInv
  <1>3. job[t].kind \in {"RECEIVE", "DIRECT"}
    <2>1. job[t].kind \in Kind /\ pc[t] \in Places(job[t].kind)
      BY <1>1, KindOf DEF OrderInv, PlaceInv
    <2>2. QED
      BY <1>2, <2>1 DEF Places, Kind
  <1>4. OwnInv(t) /\ PlanInv(t) /\ CostedInv(t)
    BY DEF MatchInv, Kept
  <1>5. own[t] = NoRows
    BY <1>2, <1>3, <1>4 DEF OwnInv, KeyShare, Inserted
  <1>6. OwnInv(t)'
    BY <1>1, <1>2, <1>3, <1>5 DEF OwnInv
  <1>7. order' = order /\ lines' = lines /\ receipts' = receipts
    BY <1>1 DEF Inside
  <1>8. PlanInv(t)'
    BY <1>1, <1>2, <1>4, <1>7 DEF PlanInv, Booked
  <1>9. CostedInv(t)'
    BY <1>1, <1>2, <1>3, <1>4 DEF CostedInv, Booked
  <1>10. NumberInv(t)'
    <2>1. \A u \in Tx \ {t} : Inserted(u)' = Inserted(u)
      BY <1>1 DEF Inside, Inserted
    <2>2. QED
      BY <1>1, <1>2, <1>7, <2>1 DEF NumberInv, NumberFree
  <1>11. QED
    BY <1>1, <1>6, <1>8, <1>9, <1>10, InsideKeeps DEF Kept

LEMMA ReceiveKeepsMatch ==
    ASSUME OrderInv, TypedInv, MatchInv, NEW t \in Tx,
           AdvanceLine(t) \/ CheckComplete(t) \/ CloseOrder(t)
    PROVE  MatchInv'
  <1>1. Inside(t) /\ job' = job /\ pc[t] # "idle" /\ pc'[t] # "idle"
    BY MovesInside
  <1>2. /\ pc[t] \in {"advance", "check", "close"}
        /\ pc'[t] \in {"advance", "check", "close", "commit"}
    BY DEF AdvanceLine, AdvanceWith, CheckComplete, CheckWith, CloseOrder, Goto, OrderInv,
           ShapeInv
  <1>3. job[t].kind = "RECEIVE"
    <2>1. job[t].kind \in Kind /\ pc[t] \in Places(job[t].kind)
      BY <1>1, KindOf DEF OrderInv, PlaceInv
    <2>2. QED
      BY <1>2, <2>1 DEF Places, Kind
  <1>4. OwnInv(t) /\ PlanInv(t) /\ CostedInv(t) /\ NumberInv(t)
    BY DEF MatchInv, Kept
  <1>5. Inserted(t) /\ Inserted(t)' /\ KeyShare(t)'
    BY <1>1, <1>2, <1>3 DEF KeyShare, Inserted
  <1>6. OwnInv(t)'
    BY <1>1, <1>3, <1>5 DEF OwnInv
  <1>7. local'[t].costed = local[t].costed
    BY DEF AdvanceLine, AdvanceWith, CheckComplete, CheckWith, CloseOrder, TypedInv
  <1>8. CostedInv(t)'
    BY <1>1, <1>2, <1>4, <1>7 DEF CostedInv, Booked
  <1>9. order' = order /\ lines' = lines /\ receipts' = receipts
    BY <1>1 DEF Inside
  <1>10. NumberInv(t)'
    <2>1. \A u \in Tx \ {t} : Inserted(u)' = Inserted(u)
      BY <1>1 DEF Inside, Inserted
    <2>2. QED
      BY <1>1, <1>4, <1>5, <1>9, <2>1 DEF NumberInv
  <1>11. PlanInv(t)'
    <2>1. CASE AdvanceLine(t)
      <3>1. /\ pc[t] = "advance" /\ local[t].updates # <<>>
            /\ NextUpdate(t).line \in DOMAIN lines
            /\ own'[t] = Over([l \in {NextUpdate(t).line} |-> Advanced(t)], own[t])
            /\ local'[t].updates = Tail(local[t].updates)
            /\ pc'[t] = IF Len(local[t].updates) = 1 THEN "check" ELSE "advance"
        BY <2>1 DEF AdvanceLine, AdvanceWith, Goto, TypedInv, OrderInv, ShapeInv
      <3>2. order.status # "GONE"
        BY <1>3, <3>1 DEF OrderInv, ReceiptInv, KeyShare, Inserted, Left
      <3>3. Planned(lines, own[t], local[t].updates, local[t].costed)
        BY <1>3, <1>4, <3>1, <3>2 DEF PlanInv, Booked
      <3>4. Planned(lines, own'[t], Tail(local[t].updates), local[t].costed)
        BY <3>1, <3>3, AdvanceFits DEF NextUpdate, Advanced
      <3>5. local[t].updates \in Seq(Updates(lines))
        BY <3>3 DEF Planned, Under
      <3>6. pc'[t] = "check" => Tail(local[t].updates) = <<>>
        <4> PICK s : s = local[t].updates
          OBVIOUS
        <4>1. s \in Seq(Updates(lines)) /\ s # <<>> /\ (pc'[t] = "check" => Len(s) = 1)
          BY <3>1, <3>5
        <4>2. Tail(s) \in Seq(Updates(lines)) /\ Len(Tail(s)) = Len(s) - 1
          BY <4>1
        <4>3. \A r \in Seq(Updates(lines)) : Len(r) = 0 => r = <<>>
          OBVIOUS
        <4>4. pc'[t] = "check" => Len(Tail(s)) = 0
          BY <4>1, <4>2
        <4>5. QED
          BY <4>2, <4>3, <4>4
      <3>7. QED
        BY <1>7, <1>9, <3>1, <3>4, <3>6 DEF PlanInv
    <2>2. CASE CheckComplete(t) \/ CloseOrder(t)
      <3>1. own' = own /\ local' = local /\ pc[t] \in {"check", "close"}
        BY <2>2 DEF CheckComplete, CheckWith, CloseOrder
      <3>2. QED
        BY <1>1, <1>4, <1>9, <3>1 DEF PlanInv, Booked
    <2>3. QED
      BY <2>1, <2>2
  <1>12. QED
    BY <1>1, <1>6, <1>8, <1>10, <1>11, InsideKeeps DEF Kept

-----------------------------------------------------------------------------
(* So do its ends *)

\* The transaction of t is over, the others have not moved.
IsOver(t) ==
    /\ \A u \in Tx \ {t} : /\ pc'[u] = pc[u] /\ job'[u] = job[u]
                           /\ own'[u] = own[u] /\ local'[u] = local[u]
    /\ pc'[t] = "idle" /\ own'[t] = NoRows

LEMMA EndIsOver ==
    ASSUME OrderInv, TypedInv, NEW t \in Tx, End(t) PROVE IsOver(t)
  BY DEF End, Goto, IsOver, OrderInv, ShapeInv, TypedInv

LEMMA RollbackKeepsMatch ==
    ASSUME OrderInv, TypedInv, MatchInv, NEW t \in Tx, Rollback(t)
    PROVE  MatchInv'
  <1>1. IsOver(t) /\ UNCHANGED <<order, lines, receipts>>
    BY EndIsOver DEF Rollback
  <1>2. Inside(t) /\ pc'[t] \in {"idle", "read"} /\ own'[t] = NoRows
    BY <1>1 DEF Inside, IsOver
  <1>3. QED
    BY <1>2, IdleKeeps

LEMMA BeginKeepsMatch ==
    ASSUME OrderInv, TypedInv, MatchInv, NEW t \in Tx, Begin(t)
    PROVE  MatchInv'
  <1>1. PICK j \in Job :
            /\ job' = [job EXCEPT ![t] = j]
            /\ IF j.kind = "DIRECT"
               THEN /\ Goto(t, "receipt")
                    /\ local' = [local EXCEPT ![t].costed = j.lines]
               ELSE Goto(t, "read") /\ UNCHANGED local
    BY DEF Begin
  <1>2. pc[t] = "idle" /\ own' = own /\ UNCHANGED <<order, lines, receipts>>
    BY DEF Begin
  <1>3. own[t] = NoRows
    BY <1>2 DEF MatchInv, Kept, OwnInv
  <1>4. Inside(t)
    BY <1>1, <1>2 DEF Inside, Goto, OrderInv, ShapeInv, TypedInv
  <1>5. CASE j.kind # "DIRECT"
    <2>1. pc'[t] = "read"
      BY <1>1, <1>5 DEF Goto, OrderInv, ShapeInv
    <2>2. QED
      BY <1>2, <1>3, <1>4, <2>1, IdleKeeps
  <1>6. CASE j.kind = "DIRECT"
    <2>1. pc'[t] = "receipt" /\ job'[t] = j /\ local'[t].costed = j.lines
      BY <1>1, <1>6 DEF Goto, OrderInv, ShapeInv, TypedInv
    <2>2. j.lines \in Seq(ReceiptLine) /\ j.lines # <<>>
      BY <1>6, JobAssumption
    <2>3. Kept(t)'
      BY <1>2, <1>3, <1>6, <2>1, <2>2 DEF Kept, OwnInv, PlanInv, CostedInv, NumberInv, Inserted
    <2>4. QED
      BY <1>4, <2>3, InsideKeeps
  <1>7. QED
    BY <1>5, <1>6

\* A transaction that ends leaves the others what they had, if the lines suit
\* the receipts under way.
LEMMA EndKeepsMatch ==
    ASSUME MatchInv, NEW t \in Tx, IsOver(t), LinesInv', ReceiptsInv', CountInv',
           \A u \in Tx \ {t} : PlanInv(u)',
           \/ receipts' = receipts
           \/ Inserted(t) /\ DOMAIN receipts' = DOMAIN receipts \cup {job[t].number}
    PROVE  MatchInv'
  <1>1. Kept(t)'
    BY DEF IsOver, Kept, OwnInv, PlanInv, CostedInv, NumberInv, Inserted, Booked, NoRows
  <1>2. ASSUME NEW u \in Tx \ {t} PROVE Kept(u)'
    <2>1. /\ pc'[u] = pc[u] /\ job'[u] = job[u] /\ own'[u] = own[u] /\ local'[u] = local[u]
      BY DEF IsOver
    <2>2. OwnInv(u) /\ CostedInv(u) /\ NumberInv(u) /\ NumberInv(t)
      BY DEF MatchInv, Kept
    <2>3. OwnInv(u)' /\ CostedInv(u)'
      BY <2>1, <2>2 DEF OwnInv, CostedInv, KeyShare, Inserted
    <2>4. NumberInv(u)'
      <3>1. ASSUME Inserted(u)' PROVE job'[u].number \notin DOMAIN receipts'
        BY <2>1, <2>2, <3>1 DEF NumberInv, Inserted
      <3>2. ASSUME Inserted(u)', NEW v \in Tx \ {u}, Inserted(v)'
            PROVE  job'[v].number # job'[u].number
        BY <2>1, <2>2, <3>2 DEF NumberInv, Inserted, IsOver
      <3>3. QED
        BY <3>1, <3>2 DEF NumberInv
    <2>5. QED
      BY <2>3, <2>4 DEF Kept
  <1>3. QED
    BY <1>1, <1>2 DEF MatchInv

LEMMA CreateKeepsMatch ==
    ASSUME OrderInv, TypedInv, TypedInv', MatchInv, Create
    PROVE  MatchInv'
  <1>1. PICK ls \in OrderLines : lines' = Rows(ls)
    BY DEF Create
  <1>2. order.status = "NONE" /\ UNCHANGED <<receipts, pc, job, own, local>>
    BY DEF Create, txVars
  <1>3. \A l \in DOMAIN lines' : lines'[l] \in Row /\ lines'[l].received = 0
    BY <1>1, RowsAreNew DEF TypedInv
  <1>4. \E n \in Nat : DOMAIN lines' \subseteq 1 .. n
    <2>1. nextLine' - 1 \in Nat /\ DOMAIN lines' \subseteq 1 .. nextLine' - 1
      BY DEF TypedInv, RowsTyped
    <2>2. QED
      BY <2>1
  <1>5. LinesInv' /\ \A p : ReceivedIn(lines', p) = 0
    BY <1>3, <1>4, FreshRows DEF LinesInv
  <1>6. \A n \in DOMAIN receipts : ~receipts[n].against
    BY <1>2 DEF OrderInv, ReceiptsKeepTheirOrder
  <1>7. ReceiptsInv /\ \A p : ReceiptsIn(receipts, p) = 0
    BY <1>6, NoAgainst DEF MatchInv, ReceiptsInv
  <1>8. CountInv'
    BY <1>2, <1>5, <1>7, CountsAre DEF CountInv
  <1>9. ReceiptsInv'
    BY <1>2, <1>7 DEF ReceiptsInv
  <1>10. ASSUME NEW u \in Tx PROVE Kept(u)'
    <2>1. ~(job[u].kind = "RECEIVE" /\ pc[u] \in Booked)
      BY <1>2 DEF OrderInv, ReceiptInv, Left, Booked
    <2>2. PlanInv(u)'
      BY <1>2, <2>1 DEF PlanInv
    <2>3. OwnInv(u)' /\ CostedInv(u)' /\ NumberInv(u)'
      BY <1>2 DEF MatchInv, Kept, OwnInv, CostedInv, NumberInv, KeyShare, Inserted
    <2>4. QED
      BY <2>2, <2>3 DEF Kept
  <1>11. QED
    BY <1>5, <1>8, <1>9, <1>10 DEF MatchInv

LEMMA DeleteKeepsMatch ==
    ASSUME OrderInv, TypedInv, MatchInv, NEW t \in Tx, DeleteOrder(t)
    PROVE  MatchInv'
  <1>1. /\ order'.status = "GONE" /\ lines' = NoRows /\ receipts' = receipts
        /\ \A n \in DOMAIN receipts : ~receipts[n].against
        /\ IsOver(t)
    BY EndIsOver DEF DeleteOrder
  <1>2. DOMAIN lines' = {} /\ \E n \in Nat : DOMAIN lines' \subseteq 1 .. n
    BY <1>1 DEF NoRows
  <1>3. LinesInv' /\ \A p : ReceivedIn(lines', p) = 0
    BY <1>2, FreshRows DEF LinesInv
  <1>4. ReceiptsInv /\ \A p : ReceiptsIn(receipts, p) = 0
    BY <1>1, NoAgainst DEF MatchInv, ReceiptsInv
  <1>5. CountInv' /\ ReceiptsInv'
    BY <1>1, <1>3, <1>4, CountsAre DEF CountInv, ReceiptsInv
  <1>6. ASSUME NEW u \in Tx \ {t} PROVE PlanInv(u)'
    BY <1>1 DEF IsOver, PlanInv, MatchInv, Kept
  <1>7. QED
    BY <1>1, <1>3, <1>5, <1>6, EndKeepsMatch

-----------------------------------------------------------------------------
(* How a receipt is counted *)

\* The rows a receipt leaves behind.
LEMMA ReceiptFills ==
    ASSUME NEW rows, Tidy(rows), \A l \in DOMAIN rows : rows[l] \in Row,
           NEW mine, NEW costed, Planned(rows, mine, <<>>, costed),
           NEW new, DOMAIN new = {l \in DOMAIN rows \cup DOMAIN mine :
                                      l \in DOMAIN mine => mine[l] # None},
           \A l \in DOMAIN new : new[l] = IF l \in DOMAIN mine THEN mine[l] ELSE rows[l],
           costed \in Seq(ReceiptLine)
    PROVE  /\ \A l \in DOMAIN new : new[l] \in Row /\ new[l].received <= new[l].qty
           /\ Tidy(new) /\ OldFirst(new)
           /\ DOMAIN new = DOMAIN rows
           /\ \A l \in DOMAIN rows : /\ new[l].product = rows[l].product
                                     /\ new[l].qty = rows[l].qty
           /\ \A p \in Product :
                 ReceivedIn(new, p) = ReceivedIn(rows, p) + UnitsIn(costed, p)
  <1>1. PICK left \in [DOMAIN rows -> Nat] : Under(rows, mine, <<>>, costed, left)
    BY DEF Planned
  <1>2. /\ Leaves(rows, left)
        /\ \A l \in DOMAIN mine :
              /\ l \in DOMAIN rows
              /\ mine[l] = [rows[l] EXCEPT !.received = rows[l].qty - left[l]]
        /\ \A k \in DOMAIN rows : left[k] # rows[k].qty - rows[k].received => k \in DOMAIN mine
        /\ \A p \in Product :
              SumOver(left, Of(rows, p)) + UnitsIn(costed, p)
                = SumOver(Remaining(rows), Of(rows, p))
    BY <1>1 DEF Under
  <1>3. ASSUME NEW l \in DOMAIN rows
        PROVE  /\ [rows[l] EXCEPT !.received = rows[l].qty - left[l]] \in Row
               /\ l \notin DOMAIN mine =>
                      rows[l] = [rows[l] EXCEPT !.received = rows[l].qty - left[l]]
    <2>1. /\ rows[l].qty \in Nat /\ rows[l].received \in Nat /\ left[l] \in Nat
          /\ left[l] <= rows[l].qty - rows[l].received
          /\ rows[l].product \in Product /\ rows[l].unitCost \in Nat
          /\ rows[l] = [product |-> rows[l].product, qty |-> rows[l].qty,
                        unitCost |-> rows[l].unitCost, received |-> rows[l].received]
      BY <1>2 DEF Row, Leaves
    <2>2. rows[l].qty - left[l] \in Nat
      BY <2>1
    <2>3. [rows[l] EXCEPT !.received = rows[l].qty - left[l]]
            = [product |-> rows[l].product, qty |-> rows[l].qty,
               unitCost |-> rows[l].unitCost, received |-> rows[l].qty - left[l]]
      BY <2>1
    <2>4. [rows[l] EXCEPT !.received = rows[l].qty - left[l]] \in Row
      BY <2>1, <2>2, <2>3 DEF Row
    <2>5. l \notin DOMAIN mine => rows[l].received = rows[l].qty - left[l]
      BY <1>2, <2>1
    <2>6. QED
      BY <2>1, <2>3, <2>4, <2>5
  <1>4. DOMAIN new = DOMAIN rows
    <2>1. \A l \in DOMAIN mine : l \in DOMAIN rows /\ mine[l] # None
      BY <1>2, <1>3, NoneAssumption
    <2>2. QED
      BY <2>1
  <1>5. \A l \in DOMAIN rows : new[l] = [rows[l] EXCEPT !.received = rows[l].qty - left[l]]
    BY <1>2, <1>3, <1>4
  <1>6. /\ \A l \in DOMAIN new : new[l] \in Row /\ new[l].received <= new[l].qty
        /\ Tidy(new) /\ OldFirst(new)
        /\ \A p : Of(new, p) = Of(rows, p)
        /\ \A p : SumOver(Got(new), Of(rows, p)) + SumOver(left, Of(rows, p))
                    = SumOver(Got(rows), Of(rows, p)) + SumOver(Remaining(rows), Of(rows, p))
    <2>1. Leaves(rows, left) /\ FilledTo(rows, left, new)
      BY <1>2, <1>4, <1>5 DEF FilledTo
    <2>2. /\ \A l \in DOMAIN new : new[l] \in Row /\ new[l].received <= new[l].qty
          /\ Tidy(new) /\ OldFirst(new)
      BY <2>1, Filled
    <2>3. \A p : Of(new, p) = Of(rows, p)
      BY <2>1, Filled
    <2>4. ASSUME NEW p
          PROVE  SumOver(Got(new), Of(rows, p)) + SumOver(left, Of(rows, p))
                   = SumOver(Got(rows), Of(rows, p)) + SumOver(Remaining(rows), Of(rows, p))
      BY <2>1, Filled
    <2>5. QED
      BY <2>2, <2>3, <2>4
  <1>7. ASSUME NEW p \in Product
        PROVE  ReceivedIn(new, p) = ReceivedIn(rows, p) + UnitsIn(costed, p)
    <2>1. /\ ReceivedIn(new, p) = SumOver(Got(new), Of(rows, p))
          /\ ReceivedIn(new, p) \in Nat
      BY <1>6, RowSums
    <2>2. /\ ReceivedIn(rows, p) = SumOver(Got(rows), Of(rows, p))
          /\ ReceivedIn(rows, p) \in Nat
      BY RowSums
    <2>3. UnitsIn(costed, p) \in Nat
      BY UnitsNat
    <2>4. SumOver(left, Of(rows, p)) \in Nat
      <3>1. Of(rows, p) \subseteq DOMAIN rows
        BY DEF Of
      <3>2. \A l \in Of(rows, p) : left[l] \in Nat
        BY <3>1
      <3>3. IsFiniteSet(Of(rows, p))
        BY RowsFinite
      <3>4. QED
        BY <3>2, <3>3, SumNat
    <2>5. /\ SumOver(left, Of(rows, p)) + UnitsIn(costed, p)
               = SumOver(Remaining(rows), Of(rows, p))
          /\ ReceivedIn(new, p) + SumOver(left, Of(rows, p))
               = ReceivedIn(rows, p) + SumOver(Remaining(rows), Of(rows, p))
      BY <1>2, <1>6, <2>1, <2>2
    <2>6. SumOver(Remaining(rows), Of(rows, p)) \in Nat
      BY <2>3, <2>4, <2>5
    <2> DEFINE a == ReceivedIn(new, p)
               b == ReceivedIn(rows, p)
               c == UnitsIn(costed, p)
               d == SumOver(left, Of(rows, p))
               e == SumOver(Remaining(rows), Of(rows, p))
    <2>7. /\ a \in Nat /\ b \in Nat /\ c \in Nat /\ d \in Nat /\ e \in Nat
          /\ d + c = e /\ a + d = b + e
      BY <2>1, <2>2, <2>3, <2>4, <2>5, <2>6
    <2> HIDE DEF a, b, c, d, e
    <2>8. a = b + c
      BY <2>7, Moved
    <2>9. QED
      BY <2>8 DEF a, b, c
  <1>8. \A l \in DOMAIN rows : new[l].product = rows[l].product /\ new[l].qty = rows[l].qty
    BY <1>5 DEF Row
  <1>9. QED
    BY <1>4, <1>6, <1>7, <1>8

-----------------------------------------------------------------------------
(* Its commits, above all that of a receipt *)

LEMMA CommitIs ==
    ASSUME OrderInv, TypedInv, NEW t \in Tx, Commit(t)
    PROVE  /\ IsOver(t) /\ pc[t] = "commit" /\ lines' = Seen(t)
           /\ receipts' = IF Inserted(t) THEN WithReceipt(t) ELSE receipts
           /\ order.status = "GONE" => order'.status = "GONE"
           /\ job[t].kind \in Kind
  <1>1. IsOver(t) /\ pc[t] = "commit" /\ lines' = Seen(t)
    BY EndIsOver DEF Commit
  <1>2. order' = IF hdr[t] = None THEN order ELSE hdr[t]
    BY DEF Commit
  <1>3. order.status = "GONE" => order'.status = "GONE"
    BY <1>2 DEF OrderInv, HeaderInv, Status
  <1>4. QED
    BY <1>1, <1>3, KindOf DEF Commit, OrderInv

\* Receipts under way keep their plans if the lines stay.
LEMMA PlansStay ==
    ASSUME MatchInv, NEW t \in Tx, IsOver(t), lines' = lines,
           order.status = "GONE" => order'.status = "GONE", NEW u \in Tx \ {t}
    PROVE  PlanInv(u)'
  BY DEF MatchInv, Kept, IsOver, PlanInv

\* The committed receipt, and what it adds.
LEMMA ReceiptComesIn ==
    ASSUME MatchInv, NEW t \in Tx, Inserted(t), pc[t] = "commit", receipts' = WithReceipt(t)
    PROVE  /\ ReceiptsInv' /\ DOMAIN receipts' = DOMAIN receipts \cup {job[t].number}
           /\ local[t].costed \in Seq(ReceiptLine)
           /\ \A p : ReceiptsIn(receipts', p) = ReceiptsIn(receipts, p)
                       + (IF job[t].kind = "RECEIVE" THEN UnitsIn(local[t].costed, p) ELSE 0)
  <1> PICK more, m, r : more = receipts' /\ m = job[t].number /\ r = receipts'[m]
    OBVIOUS
  <1>1. m \notin DOMAIN receipts /\ local[t].costed \in Seq(ReceiptLine)
    BY DEF MatchInv, Kept, NumberInv, CostedInv, Inserted, Booked
  <1>2. r = [against |-> job[t].kind = "RECEIVE", lines |-> local[t].costed]
    BY DEF WithReceipt
  <1>3. r \in Receipt /\ r.against = (job[t].kind = "RECEIVE") /\ r.lines = local[t].costed
    BY <1>1, <1>2 DEF Receipt
  <1>4. OneMore(receipts, m, r, more)
    BY <1>1 DEF WithReceipt, OneMore
  <1>5. IsFiniteSet(DOMAIN receipts) /\ \A n \in DOMAIN receipts : receipts[n] \in Receipt
    BY DEF MatchInv, ReceiptsInv
  <1>6. ASSUME NEW p
        PROVE  /\ IsFiniteSet(DOMAIN more) /\ \A n \in DOMAIN more : more[n] \in Receipt
               /\ ReceiptsIn(more, p) = ReceiptsIn(receipts, p)
                                          + (IF r.against THEN UnitsIn(r.lines, p) ELSE 0)
    BY <1>3, <1>4, <1>5, OneReceiptMore
  <1>7. ReceiptsInv'
    BY <1>6 DEF ReceiptsInv
  <1>8. QED
    BY <1>1, <1>3, <1>4, <1>6, <1>7 DEF OneMore

\* The rows a receipt commits.
LEMMA ReceiptRows ==
    ASSUME OrderInv, TypedInv, MatchInv, NEW t \in Tx, pc[t] = "commit",
           job[t].kind = "RECEIVE", NEW new, new = Seen(t)
    PROVE  /\ \A l \in DOMAIN new : new[l] \in Row /\ new[l].received <= new[l].qty
           /\ Tidy(new) /\ OldFirst(new)
           /\ DOMAIN new = DOMAIN lines
           /\ \A l \in DOMAIN lines : /\ new[l].product = lines[l].product
                                      /\ new[l].qty = lines[l].qty
           /\ \A p \in Product :
                 ReceivedIn(new, p) = ReceivedIn(lines, p) + UnitsIn(local[t].costed, p)
  <1>1. Tidy(lines) /\ \A l \in DOMAIN lines : lines[l] \in Row
    BY LinesTidy DEF MatchInv
  <1>2. order.status # "GONE"
    BY DEF OrderInv, ReceiptInv, KeyShare, Inserted, Left
  <1>3. PlanInv(t) /\ CostedInv(t)
    BY DEF MatchInv, Kept
  <1>4. /\ Planned(lines, own[t], <<>>, local[t].costed)
        /\ local[t].costed \in Seq(ReceiptLine)
    BY <1>2, <1>3 DEF PlanInv, CostedInv, Booked
  <1>5. /\ DOMAIN new = {l \in DOMAIN lines \cup DOMAIN own[t] :
                             l \in DOMAIN own[t] => own[t][l] # None}
        /\ \A l \in DOMAIN new : new[l] = IF l \in DOMAIN own[t] THEN own[t][l] ELSE lines[l]
    BY DEF Seen
  <1>6. QED
    BY <1>1, <1>4, <1>5, ReceiptFills

\* Before there are receipts against the order, nothing of it was received.
LEMMA NothingReceived ==
    ASSUME TypedInv, MatchInv, \A n \in DOMAIN receipts : ~receipts[n].against
    PROVE  \A l \in DOMAIN lines : lines[l] \in Row /\ lines[l].received = 0
  <1>1. \A p : ReceiptsIn(receipts, p) = 0
    BY NoAgainst DEF MatchInv, ReceiptsInv
  <1>2. \A p \in Product : ReceivedIn(lines, p) = 0
    BY <1>1, CountsAre DEF MatchInv, CountInv
  <1>3. Tidy(lines) /\ \A l \in DOMAIN lines : lines[l] \in Row
    BY LinesTidy DEF MatchInv
  <1>4. \A l \in DOMAIN lines : lines[l].product \in Product
    BY <1>3 DEF Row
  <1>5. QED
    BY <1>2, <1>3, <1>4, NoneCounted

LEMMA CommitKeepsMatch ==
    ASSUME OrderInv, TypedInv, TypedInv', MatchInv, Clashless, NEW t \in Tx, Commit(t)
    PROVE  MatchInv'
  <1>1. /\ IsOver(t) /\ pc[t] = "commit" /\ lines' = Seen(t)
        /\ receipts' = IF Inserted(t) THEN WithReceipt(t) ELSE receipts
        /\ order.status = "GONE" => order'.status = "GONE"
        /\ job[t].kind \in Kind
    BY CommitIs
  <1>2. LinesInv /\ ReceiptsInv /\ CountInv
    BY DEF MatchInv
  <1>3. CASE job[t].kind = "RECEIVE"
    <2>1. Inserted(t) /\ Past(t, "RECEIVE")
      BY <1>1, <1>3 DEF Inserted, Past
    <2>2. /\ ReceiptsInv' /\ DOMAIN receipts' = DOMAIN receipts \cup {job[t].number}
          /\ \A p : ReceiptsIn(receipts', p)
                      = ReceiptsIn(receipts, p) + UnitsIn(local[t].costed, p)
      BY <1>1, <1>3, <2>1, ReceiptComesIn
    <2>3. /\ LinesInv'
          /\ \A p \in Product :
                ReceivedIn(lines', p) = ReceivedIn(lines, p) + UnitsIn(local[t].costed, p)
      BY <1>1, <1>3, ReceiptRows DEF LinesInv
    <2>4. CountInv'
      BY <1>2, <2>2, <2>3, CountsAre DEF CountInv
    <2>5. ASSUME NEW u \in Tx \ {t} PROVE PlanInv(u)'
      <3>1. ~Past(u, "RECEIVE")
        BY <2>1 DEF Clashless
      <3>2. QED
        BY <1>1, <3>1 DEF IsOver, PlanInv, Past, Booked
    <2>6. QED
      BY <1>1, <2>1, <2>2, <2>3, <2>4, <2>5, EndKeepsMatch
  <1>4. CASE job[t].kind = "UPDATE"
    <2>1. Past(t, "UPDATE") /\ receipts' = receipts
      BY <1>1, <1>4 DEF Past, Inserted
    <2>2. \A n \in DOMAIN receipts : ~receipts[n].against
      BY <2>1 DEF Clashless
    <2>3. \A l \in DOMAIN lines : lines[l] \in Row /\ lines[l].received = 0
      BY <2>2, NothingReceived
    <2>4. OwnInv(t)
      BY DEF MatchInv, Kept
    <2>5. ASSUME NEW l \in DOMAIN lines' PROVE lines'[l] \in Row /\ lines'[l].received = 0
      <3>1. l \in DOMAIN Seen(t) /\ lines'[l] = Seen(t)[l]
        BY <1>1, <2>5
      <3>2. QED
        BY <1>4, <2>3, <2>4, <3>1 DEF Seen, OwnInv
    <2>6. \E n \in Nat : DOMAIN lines' \subseteq 1 .. n
      <3>1. nextLine' - 1 \in Nat /\ DOMAIN lines' \subseteq 1 .. nextLine' - 1
        BY DEF TypedInv, RowsTyped
      <3>2. QED
        BY <3>1
    <2>7. LinesInv' /\ \A p : ReceivedIn(lines', p) = 0
      BY <2>5, <2>6, FreshRows DEF LinesInv
    <2>8. \A p : ReceiptsIn(receipts, p) = 0
      BY <1>2, <2>2, NoAgainst DEF ReceiptsInv
    <2>9. CountInv' /\ ReceiptsInv'
      BY <1>2, <2>1, <2>7, <2>8, CountsAre DEF CountInv, ReceiptsInv
    <2>10. ASSUME NEW u \in Tx \ {t} PROVE PlanInv(u)'
      <3>1. ~Past(u, "RECEIVE")
        BY <2>1 DEF Clashless
      <3>2. QED
        BY <1>1, <3>1 DEF IsOver, PlanInv, Past, Booked
    <2>11. QED
      BY <1>1, <2>1, <2>7, <2>9, <2>10, EndKeepsMatch
  <1>5. CASE job[t].kind \notin {"RECEIVE", "UPDATE"}
    <2>1. own[t] = NoRows
      BY <1>5 DEF MatchInv, Kept, OwnInv, KeyShare
    <2>2. lines' = lines
      BY <1>1, <2>1, SeenUnwritten
    <2>3. LinesInv'
      BY <1>2, <2>2 DEF LinesInv
    <2>4. \A u \in Tx \ {t} : PlanInv(u)'
      BY <1>1, <2>2, PlansStay
    <2>5. CASE Inserted(t)
      <3>1. /\ ReceiptsInv' /\ DOMAIN receipts' = DOMAIN receipts \cup {job[t].number}
            /\ \A p : ReceiptsIn(receipts', p) = ReceiptsIn(receipts, p) + 0
        BY <1>1, <1>5, <2>5, ReceiptComesIn
      <3>2. \A p : ReceiptsIn(receipts, p) \in Nat
        BY <1>2, ReceiptSums DEF ReceiptsInv
      <3>3. CountInv'
        BY <1>2, <2>2, <3>1, <3>2, CountsAre DEF CountInv
      <3>4. QED
        BY <1>1, <2>3, <2>4, <2>5, <3>1, <3>3, EndKeepsMatch
    <2>6. CASE ~Inserted(t)
      <3>1. receipts' = receipts
        BY <1>1, <2>6
      <3>2. CountInv' /\ ReceiptsInv'
        BY <1>2, <2>2, <3>1, CountsAre DEF CountInv, ReceiptsInv
      <3>3. QED
        BY <1>1, <2>3, <2>4, <3>1, <3>2, EndKeepsMatch
    <2>7. QED
      BY <2>5, <2>6
  <1>6. QED
    BY <1>3, <1>4, <1>5

LEMMA MatchInit == Init => MatchInv
  <1> SUFFICES ASSUME Init PROVE MatchInv
    OBVIOUS
  <1>1. /\ DOMAIN lines = {} /\ DOMAIN receipts = {}
        /\ \A t \in Tx : pc[t] = "idle" /\ own[t] = NoRows /\ DOMAIN own[t] = {}
    BY DEF Init, NoRows
  <1>2. \A p : ReceivedIn(lines, p) = 0
    <2>1. DOMAIN lines \subseteq 1 .. 0
      BY <1>1
    <2>2. QED
      BY <1>1, <2>1, FreshRows
  <1>3. ReceiptsInv
    BY <1>1, FS_EmptySet DEF ReceiptsInv
  <1>4. \A p : ReceiptsIn(receipts, p) = 0
    BY <1>1, <1>3, NoAgainst DEF ReceiptsInv
  <1>5. LinesInv /\ CountInv
    BY <1>1, <1>2, <1>4, CountsAre DEF LinesInv, OldFirst, CountInv
  <1>6. \A t \in Tx : Kept(t)
    BY <1>1 DEF Kept, OwnInv, PlanInv, CostedInv, NumberInv, Inserted, Booked, KeyShare
  <1>7. QED
    BY <1>3, <1>5, <1>6 DEF MatchInv

LEMMA MatchStill == ASSUME MatchInv, UNCHANGED vars PROVE MatchInv'
  <1>1. UNCHANGED <<order, lines, receipts, pc, job, own, local>>
    BY DEF vars, txVars
  <1>2. LinesInv' /\ ReceiptsInv'
    BY <1>1 DEF MatchInv, LinesInv, ReceiptsInv
  <1>3. CountInv'
    BY <1>1, CountsAre DEF MatchInv, CountInv
  <1>4. \A u \in Tx : Kept(u)'
    BY <1>1 DEF MatchInv, Kept, OwnInv, PlanInv, CostedInv, NumberInv, KeyShare, Inserted
  <1>5. QED
    BY <1>2, <1>3, <1>4 DEF MatchInv

LEMMA MatchStep ==
    ASSUME OrderInv, TypedInv, MatchInv, Clashless, [Next]_vars PROVE MatchInv'
  <1>1. TypedInv'
    BY TypedStep
  <1>2. CASE Create
    BY <1>1, <1>2, CreateKeepsMatch
  <1>3. ASSUME NEW t \in Tx, Begin(t) PROVE MatchInv'
    BY <1>3, BeginKeepsMatch
  <1>4. ASSUME NEW t \in Tx, Step(t) PROVE MatchInv'
    BY <1>1, <1>4, ReadKeepsMatch, EditKeepsMatch, PlanKeepsMatch, InsertKeepsMatch,
       ReceiveKeepsMatch, DeleteKeepsMatch, CommitKeepsMatch, RollbackKeepsMatch
    DEF Step, Refuse, Abort
  <1>5. ASSUME NEW t \in Tx, Interrupt(t) \/ DeadlockVictim(t) PROVE MatchInv'
    BY <1>5, RollbackKeepsMatch DEF Interrupt, DeadlockVictim
  <1>6. CASE UNCHANGED vars
    BY <1>6, MatchStill
  <1>7. QED
    BY <1>2, <1>3, <1>4, <1>5, <1>6 DEF Next

-----------------------------------------------------------------------------
\* Receipts bring no more than was ordered.
LEMMA MatchFits == ASSUME TypedInv, MatchInv PROVE NoOverReceipt
  <1> SUFFICES ASSUME NEW p \in Product PROVE ReceiptsOf(p) <= OrderedOf(p)
    BY DEF NoOverReceipt
  <1> PICK f, g, S : f = Got(lines) /\ g = Asked(lines) /\ S = Of(lines, p)
    OBVIOUS
  <1>1. Tidy(lines)
    BY LinesTidy DEF MatchInv
  <1>2. ReceivedIn(lines, p) = SumOver(f, S) /\ OrderedIn(lines, p) = SumOver(g, S)
    BY <1>1, RowSums
  <1>3. IsFiniteSet(S) /\ \A l \in S : f[l] \in Nat /\ g[l] \in Nat /\ f[l] <= g[l]
    <2>1. IsFiniteSet(S)
      BY <1>1, RowsFinite
    <2>2. QED
      BY <1>1, <2>1 DEF Of, Got, Asked, Tidy
  <1>4. SumOver(f, S) <= SumOver(g, S)
    BY <1>3, SumLess
  <1>5. ReceiptsOf(p) = ReceivedIn(lines, p)
    BY CountsAre DEF MatchInv, CountInv
  <1>6. OrderedOf(p) = OrderedIn(lines, p)
    BY DEF OrderedOf, UnitsIn, OrderedIn, Of
  <1>7. QED
    BY <1>2, <1>4, <1>5, <1>6

-----------------------------------------------------------------------------
(* Requests that overlap *)

\* An edit gets past its first query by finding a DRAFT.
LEMMA EditBegins ==
    ASSUME OrderInv, TypedInv, MatchInv, [Next]_vars, NEW t \in Tx,
           Past(t, "UPDATE")', ~Past(t, "UPDATE")
    PROVE  order.status = "DRAFT" /\ receipts' = receipts
  <1>1. ASSUME NEW u \in Tx, IsOver(u) PROVE FALSE
    BY <1>1 DEF IsOver, Past
  <1>2. ASSUME NEW u \in Tx, Begin(u) PROVE FALSE
    BY <1>2 DEF Begin, Goto, Past, OrderInv, ShapeInv
  <1>3. ASSUME NEW u \in Tx, Inside(u), job' = job, pc[u] # "idle",
               pc[u] = "read" => Admissible(u)
        PROVE  order.status = "DRAFT" /\ receipts' = receipts
    <2>1. u = t /\ job[t].kind = "UPDATE" /\ pc[t] = "read"
      BY <1>3 DEF Inside, Past
    <2>2. QED
      BY <1>3, <2>1 DEF Inside, Admissible
  <1>4. CASE Create
    BY <1>4 DEF Create, txVars, Past
  <1>5. ASSUME NEW u \in Tx, Rollback(u) \/ DeleteOrder(u) \/ Commit(u) PROVE FALSE
    BY <1>1, <1>5, EndIsOver DEF Rollback, DeleteOrder, Commit
  <1>6. ASSUME NEW u \in Tx,
               ReadHeader(u) \/ ReadLinesToUpdate(u) \/ ReadLinesToReceive(u)
                 \/ StartClear(u) \/ ClearLines(u) \/ WriteHeader(u) \/ SetStatus(u)
                 \/ InsertReceipt(u) \/ AdvanceLine(u) \/ CheckComplete(u) \/ CloseOrder(u)
        PROVE  order.status = "DRAFT" /\ receipts' = receipts
    <2>1. Inside(u) /\ job' = job /\ pc[u] # "idle"
      BY <1>6, MovesInside
    <2>2. pc[u] = "read" => Admissible(u)
      BY <1>6 DEF ReadHeader, ReadLinesToUpdate, ReadLinesToReceive, StartClear, ClearLines,
         WriteHeader, WriteHeaderAs, SetStatus, InsertReceipt, AdvanceLine, AdvanceWith,
         CheckComplete, CheckWith, CloseOrder
    <2>3. QED
      BY <1>3, <2>1, <2>2
  <1>7. CASE UNCHANGED vars
    BY <1>7 DEF vars, txVars, Past
  <1>8. QED
    BY <1>2, <1>4, <1>5, <1>6, <1>7 DEF Next, Step, Refuse, Abort, Interrupt, DeadlockVictim

\* Receipts come in by the commit of one.
LEMMA ReceiptsGrow ==
    ASSUME OrderInv, TypedInv, MatchInv, [Next]_vars, receipts' # receipts
    PROVE  \E u \in Tx : /\ Inserted(u) /\ pc[u] = "commit" /\ IsOver(u)
                         /\ receipts' = WithReceipt(u)
  <1>1. PICK u \in Tx : Commit(u)
    <2>1. ~Create /\ ~UNCHANGED vars
      BY DEF Create, vars
    <2>2. PICK u \in Tx : Begin(u) \/ Step(u) \/ Interrupt(u) \/ DeadlockVictim(u)
      BY <2>1 DEF Next
    <2>3. QED
      BY <2>2 DEF Begin, Step, Interrupt, DeadlockVictim, Rollback, ReadHeader,
         ReadLinesToUpdate, ReadLinesToReceive, Refuse, StartClear, ClearLines, WriteHeader,
         WriteHeaderAs, SetStatus, DeleteOrder, InsertReceipt, AdvanceLine, AdvanceWith,
         CheckComplete, CheckWith, CloseOrder, Abort
  <1>2. QED
    BY <1>1, CommitIs

\* While no edit has begun on an order with receipts and none is past its
\* first query beside one, none comes to be.
LEMMA EditsMeetNoReceipt ==
    ASSUME OrderInv, TypedInv, MatchInv, [Next]_vars, Clashless, NEW t \in Tx,
           Past(t, "UPDATE")', NEW n \in DOMAIN receipts'
    PROVE  ~receipts'[n].against
  <1> SUFFICES ASSUME receipts'[n].against PROVE FALSE
    OBVIOUS
  <1>1. CASE receipts' = receipts
    <2>1. ~Past(t, "UPDATE")
      BY <1>1 DEF Clashless
    <2>2. order.status = "DRAFT"
      BY <2>1, EditBegins
    <2>3. QED
      BY <1>1, <2>2 DEF OrderInv, ReceiptsKeepTheirOrder
  <1>2. CASE receipts' # receipts
    <2>1. PICK u \in Tx : /\ Inserted(u) /\ pc[u] = "commit" /\ IsOver(u)
                          /\ receipts' = WithReceipt(u)
      BY <1>2, ReceiptsGrow
    <2>2. u # t /\ Past(t, "UPDATE")
      BY <2>1 DEF IsOver, Past
    <2>3. \A k \in DOMAIN receipts : ~receipts[k].against
      BY <2>2 DEF Clashless
    <2>4. job[u].kind = "RECEIVE"
      BY <2>1, <2>3 DEF WithReceipt
    <2>5. Past(u, "RECEIVE")
      BY <2>1, <2>4 DEF Past
    <2>6. QED
      BY <2>2, <2>5 DEF Clashless
  <1>3. QED
    BY <1>1, <1>2

LEMMA FitInit == OInit => FitInv
  <1> SUFFICES ASSUME OInit PROVE FitInv
    OBVIOUS
  <1>1. MatchInv
    BY MatchInit DEF OInit
  <1>2. Clashless
    BY DEF OInit, Init, Clashless, Past
  <1>3. QED
    BY <1>1, <1>2 DEF FitInv

LEMMA FitStep == RaceInv /\ FitInv /\ [ONext]_ovars => FitInv'
  <1> SUFFICES ASSUME RaceInv, FitInv, [ONext]_ovars, ~Rush' PROVE Clashless' /\ MatchInv'
    BY DEF FitInv
  <1>1. RaceInv' /\ [Next]_vars
    BY RaceStep, OStepIsStep
  <1>2. overlap \subseteq overlap'
    BY DEF ONext, OBegin, OStep, OVictim, ovars
  <1>3. ~Rush
    BY <1>2, MetGrows DEF Rush
  <1>4. OrderInv /\ TypedInv /\ MatchInv /\ Clashless
    BY <1>3 DEF FitInv, RaceInv, BaseInv
  <1>5. MatchInv'
    BY <1>1, <1>4, MatchStep
  <1>6. ASSUME NEW t \in Tx, NEW u \in Tx, Past(t, "RECEIVE")', Past(u, "RECEIVE")'
        PROVE  t = u
    <2>1. ASSUME t # u PROVE {job'[t].kind, job'[u].kind} \in overlap'
      BY <1>1, <1>6, <2>1 DEF RaceInv, BaseInv, OverlapKnown, Past
    <2>2. QED
      BY <1>6, <2>1 DEF Rush, Met, Past
  <1>7. ASSUME NEW t \in Tx, Past(t, "UPDATE")', NEW u \in Tx
        PROVE  ~Past(u, "RECEIVE")'
    BY <1>1, <1>7 DEF RaceInv, EditsInv, Rush
  <1>8. ASSUME NEW t \in Tx, Past(t, "UPDATE")', NEW n \in DOMAIN receipts'
        PROVE  ~receipts'[n].against
    BY <1>1, <1>4, <1>8, EditsMeetNoReceipt
  <1>9. Clashless'
    BY <1>6, <1>7, <1>8 DEF Clashless
  <1>10. QED
    BY <1>5, <1>9

\* No more comes in than was ordered, unless two receipts overlapped or an
\* edit overlapped an approval (resolveLines reads the lines inside the
\* transaction and writes absolute quantities).
THEOREM ReceiptsFit == OSpec => []ReceiptsFitUnlessRace
  <1>1. RaceInv /\ FitInv => ReceiptsFitUnlessRace
    BY MatchFits DEF RaceInv, BaseInv, FitInv, Rush, ReceiptsFitUnlessRace
  <1>2. QED
    BY <1>1, RaceInit, RaceStep, FitInit, FitStep, PTL DEF OSpec

-----------------------------------------------------------------------------
(* Requests that do not overlap *)

Alone == \A t, u \in Tx : pc[t] # "idle" /\ pc[u] # "idle" => t = u

\* Nobody changes the order under a request that has found it admissible.
StageInv(t) == job[t].kind # "DIRECT" /\ pc[t] \notin {"idle", "read"} => Admissible(t)

\* The inductive invariant.
Staged(t) == WritesInv(t) /\ CheckedInv(t) /\ StageInv(t)
SerialInv == OrderInv /\ TypedInv /\ MatchInv /\ Alone /\ \A t \in Tx : Staged(t)

LEMMA SerialClashless == ASSUME SerialInv PROVE Clashless
  <1> USE DEF SerialInv
  <1>1. \A t, u \in Tx : Past(t, "RECEIVE") /\ Past(u, "RECEIVE") => t = u
    BY DEF Alone, Past
  <1>2. ASSUME NEW t \in Tx, Past(t, "UPDATE")
        PROVE  /\ \A u \in Tx : ~Past(u, "RECEIVE")
               /\ \A n \in DOMAIN receipts : ~receipts[n].against
    <2>1. order.status = "DRAFT"
      BY <1>2 DEF Past, Staged, StageInv, Admissible
    <2>2. \A n \in DOMAIN receipts : ~receipts[n].against
      BY <2>1 DEF OrderInv, ReceiptsKeepTheirOrder
    <2>3. \A u \in Tx : ~Past(u, "RECEIVE")
      BY <1>2 DEF Alone, Past
    <2>4. QED
      BY <2>2, <2>3
  <1>3. QED
    BY <1>1, <1>2 DEF Clashless

LEMMA IdleStaged ==
    ASSUME NEW t \in Tx, pc'[t] = "idle", own'[t] = NoRows, hdr'[t] = None
    PROVE  Staged(t)'
  BY DEF Staged, WritesInv, CheckedInv, StageInv, NoRows

\* Once the only open transaction is over, all slots are idle.
LEMMA EndStaged ==
    ASSUME SerialInv, NEW t \in Tx, pc[t] # "idle", End(t)
    PROVE  Alone' /\ \A u \in Tx : Staged(u)'
  <1> USE DEF SerialInv
  <1>1. IsOver(t)
    BY EndIsOver
  <1>2. hdr' = [hdr EXCEPT ![t] = None] /\ DOMAIN hdr = Tx
    BY DEF End, OrderInv, ShapeInv
  <1>3. ASSUME NEW u \in Tx PROVE pc'[u] = "idle" /\ own'[u] = NoRows /\ hdr'[u] = None
    <2>1. CASE u = t
      BY <1>1, <1>2, <2>1 DEF IsOver
    <2>2. CASE u # t
      <3>1. pc[u] = "idle"
        BY <2>2 DEF Alone
      <3>2. own[u] = NoRows /\ hdr[u] = None
        BY <3>1 DEF MatchInv, Kept, OwnInv, OrderInv, HeaderInv
      <3>3. QED
        BY <1>1, <1>2, <2>2, <3>1, <3>2 DEF IsOver
    <2>3. QED
      BY <2>1, <2>2
  <1>4. \A u \in Tx : Staged(u)'
    BY <1>3, IdleStaged
  <1>5. QED
    BY <1>3, <1>4 DEF Alone

\* A statement keeps what its request has found.
LEMMA MoveStaged ==
    ASSUME SerialInv, NEW t \in Tx,
           ReadHeader(t) \/ ReadLinesToUpdate(t) \/ ReadLinesToReceive(t)
             \/ StartClear(t) \/ ClearLines(t) \/ WriteHeader(t) \/ SetStatus(t)
             \/ InsertReceipt(t) \/ AdvanceLine(t) \/ CheckComplete(t) \/ CloseOrder(t)
    PROVE  Staged(t)'
  <1> USE DEF SerialInv
  <1>1. Inside(t) /\ job' = job /\ pc[t] # "idle" /\ pc'[t] # "idle"
    BY MovesInside
  <1>2. WritesInv(t) /\ CheckedInv(t) /\ StageInv(t)
    BY DEF Staged
  <1>3. WritesInv(t)' /\ CheckedInv(t)'
    BY <1>2, MovesWrite, MovesCheck
  <1>4. pc[t] = "read" => Admissible(t)
    BY DEF ReadHeader, ReadLinesToUpdate, ReadLinesToReceive, StartClear, ClearLines,
       WriteHeader, WriteHeaderAs, SetStatus, InsertReceipt, AdvanceLine, AdvanceWith,
       CheckComplete, CheckWith, CloseOrder
  <1>5. job[t].kind # "DIRECT" => Admissible(t)
    BY <1>1, <1>2, <1>4 DEF StageInv
  <1>6. StageInv(t)'
    <2>1. Admissible(t)' = Admissible(t)
      BY <1>1 DEF Admissible, Inside
    <2>2. QED
      BY <1>1, <1>5, <2>1 DEF StageInv
  <1>7. QED
    BY <1>3, <1>6 DEF Staged

LEMMA MoveKeepsSerial ==
    ASSUME SerialInv, NEW t \in Tx,
           ReadHeader(t) \/ ReadLinesToUpdate(t) \/ ReadLinesToReceive(t)
             \/ StartClear(t) \/ ClearLines(t) \/ WriteHeader(t) \/ SetStatus(t)
             \/ InsertReceipt(t) \/ AdvanceLine(t) \/ CheckComplete(t) \/ CloseOrder(t)
    PROVE  Alone' /\ \A u \in Tx : Staged(u)'
  <1> USE DEF SerialInv
  <1>1. Inside(t) /\ job' = job /\ pc[t] # "idle" /\ pc'[t] # "idle"
    BY MovesInside
  <1>2. \A u \in Tx \ {t} : pc'[u] = "idle"
    BY <1>1 DEF Inside, Alone
  <1>3. Alone'
    BY <1>2 DEF Alone
  <1>4. ASSUME NEW u \in Tx \ {t} PROVE Staged(u)'
    <2>1. own'[u] = NoRows
      BY <1>1, <1>2 DEF Inside, MatchInv, Kept, OwnInv
    <2>2. OrderInv'
      BY OrderStep DEF Next, Step
    <2>3. hdr'[u] = None
      BY <1>2, <2>2 DEF OrderInv, HeaderInv
    <2>4. QED
      BY <1>2, <2>1, <2>3, IdleStaged
  <1>5. QED
    BY <1>3, <1>4, MoveStaged

LEMMA BeginKeepsSerial ==
    ASSUME SerialInv, NEW t \in Tx, SerialBegin(t)
    PROVE  Alone' /\ \A u \in Tx : Staged(u)'
  <1> USE DEF SerialInv
  <1>1. PICK j \in Job :
            /\ job' = [job EXCEPT ![t] = j]
            /\ pc' = [pc EXCEPT ![t] = IF j.kind = "DIRECT" THEN "receipt" ELSE "read"]
    BY DEF SerialBegin, Begin, Goto
  <1>2. (\A u \in Tx : pc[u] = "idle") /\ hdr' = hdr /\ own' = own
    BY DEF SerialBegin, Begin
  <1>3. \A u \in Tx : own'[u] = NoRows /\ hdr'[u] = None
    BY <1>2 DEF MatchInv, Kept, OwnInv, OrderInv, HeaderInv
  <1>4. DOMAIN pc = Tx /\ DOMAIN job = Tx
    BY DEF OrderInv, ShapeInv
  <1>5. \A u \in Tx \ {t} : pc'[u] = "idle"
    BY <1>1, <1>2, <1>4
  <1>6. \A u \in Tx \ {t} : Staged(u)'
    BY <1>3, <1>5, IdleStaged
  <1>7. job'[t] = j /\ pc'[t] \in {"receipt", "read"} /\ (j.kind # "DIRECT" => pc'[t] = "read")
    BY <1>1, <1>4
  <1>8. Staged(t)'
    BY <1>3, <1>7 DEF Staged, WritesInv, CheckedInv, StageInv, NoRows
  <1>9. Alone'
    BY <1>5 DEF Alone
  <1>10. QED
    BY <1>6, <1>8, <1>9

LEMMA SerialInit == Init => SerialInv
  <1> SUFFICES ASSUME Init PROVE SerialInv
    OBVIOUS
  <1>1. OrderInv /\ TypedInv /\ MatchInv
    BY OrderInit, TypedInit, MatchInit
  <1>2. \A t \in Tx : pc[t] = "idle" /\ own[t] = NoRows /\ hdr[t] = None
    BY DEF Init
  <1>3. Alone /\ \A t \in Tx : Staged(t)
    BY <1>2 DEF Alone, Staged, WritesInv, CheckedInv, StageInv, NoRows
  <1>4. QED
    BY <1>1, <1>3 DEF SerialInv

LEMMA SerialIsNext == [SerialNext]_vars => [Next]_vars
  BY DEF SerialNext, SerialBegin, Next

LEMMA SerialStep == SerialInv /\ [SerialNext]_vars => SerialInv'
  <1> SUFFICES ASSUME SerialInv, [SerialNext]_vars PROVE SerialInv'
    OBVIOUS
  <1>1. Clashless /\ [Next]_vars
    BY SerialClashless, SerialIsNext
  <1>2. OrderInv' /\ TypedInv' /\ MatchInv'
    BY <1>1, OrderStep, TypedStep, MatchStep DEF SerialInv
  <1> DEFINE Good == Alone' /\ \A u \in Tx : Staged(u)'
  <1>3. CASE Create
    <2>1. UNCHANGED <<pc, job, hdr, own>> /\ order.status = "NONE"
      BY <1>3 DEF Create, txVars
    <2>2. Alone'
      BY <2>1 DEF SerialInv, Alone
    <2>3. ASSUME NEW u \in Tx PROVE Staged(u)'
      <3>1. WritesInv(u) /\ CheckedInv(u) /\ StageInv(u)
        BY DEF SerialInv, Staged
      <3>2. job[u].kind \in Kind
        BY KindOf DEF SerialInv, OrderInv
      <3>3. job[u].kind = "DIRECT" \/ pc[u] \in {"idle", "read"}
        BY <2>1, <3>1, <3>2 DEF StageInv, Admissible, Kind
      <3>4. WritesInv(u)' /\ StageInv(u)' /\ CheckedInv(u)'
        BY <2>1, <3>1, <3>3 DEF WritesInv, StageInv, CheckedInv
      <3>5. QED
        BY <3>4 DEF Staged
    <2>4. QED
      BY <1>2, <2>2, <2>3 DEF SerialInv
  <1>4. ASSUME NEW t \in Tx, SerialBegin(t) PROVE Good
    BY <1>4, BeginKeepsSerial
  <1>5. ASSUME NEW t \in Tx, pc[t] # "idle", End(t) PROVE Good
    BY <1>5, EndStaged
  <1>6. ASSUME NEW t \in Tx, Step(t) \/ Interrupt(t) PROVE Good
    <2>1. CASE Refuse(t) \/ DeleteOrder(t) \/ Commit(t) \/ Abort(t) \/ Interrupt(t)
      <3>1. End(t)
        BY <2>1 DEF Refuse, DeleteOrder, Commit, Abort, Interrupt, Rollback
      <3>2. pc[t] # "idle"
        BY <2>1 DEF Refuse, Refused, DeleteOrder, Commit, Abort, Broken, Interrupt
      <3>3. QED
        BY <1>5, <3>1, <3>2
    <2>2. CASE ~(Refuse(t) \/ DeleteOrder(t) \/ Commit(t) \/ Abort(t) \/ Interrupt(t))
      BY <1>6, <2>2, MoveKeepsSerial DEF Step
    <2>3. QED
      BY <2>1, <2>2
  <1>7. CASE UNCHANGED vars
    <2>1. UNCHANGED <<order, lines, pc, job, hdr, own>>
      BY <1>7 DEF vars, txVars
    <2>2. Alone'
      BY <2>1 DEF SerialInv, Alone
    <2>3. ASSUME NEW u \in Tx PROVE Staged(u)'
      <3>1. WritesInv(u) /\ CheckedInv(u) /\ StageInv(u)
        BY DEF SerialInv, Staged
      <3>2. Seen(u)' = Seen(u) /\ Admissible(u)' = Admissible(u)
        BY <2>1 DEF Seen, Admissible
      <3>3. WritesInv(u)'
        BY <2>1, <3>1 DEF WritesInv
      <3>4. StageInv(u)' /\ CheckedInv(u)'
        BY <2>1, <3>1, <3>2 DEF StageInv, CheckedInv, RemainsOf
      <3>5. QED
        BY <3>3, <3>4 DEF Staged
    <2>4. QED
      BY <1>2, <2>2, <2>3 DEF SerialInv
  <1>8. QED
    BY <1>2, <1>3, <1>4, <1>6, <1>7 DEF SerialInv, SerialNext

\* The oldest line of a product is filled first (resolveLines takes the lines
\* in the order of their ids).
THEOREM OldestFilledFirst == SerialSpec => []OldestLineFirst
  <1>1. SerialInv => OldestLineFirst
    BY DEF SerialInv, MatchInv, LinesInv, OldFirst, OldestLineFirst
  <1>2. QED
    BY <1>1, SerialInit, SerialStep, PTL DEF SerialSpec

-----------------------------------------------------------------------------
(* The order as a book of units *)

LEMMA RowsBooked ==
    ASSUME NEW rows, Tidy(rows), \A l \in DOMAIN rows : rows[l] \in Row
    PROVE  /\ \A p : /\ OrderedIn(rows, p) \in Nat /\ ReceivedIn(rows, p) \in Nat
                     /\ ReceivedIn(rows, p) <= OrderedIn(rows, p)
           /\ DOMAIN rows = {} => \A p : OrderedIn(rows, p) = 0
           /\ ~RemainsOf(rows) <=> \A p \in Product : ReceivedIn(rows, p) = OrderedIn(rows, p)
  <1> PICK f, g : f = Got(rows) /\ g = Asked(rows)
    OBVIOUS
  <1>1. \A l \in DOMAIN rows : /\ f[l] = rows[l].received /\ g[l] = rows[l].qty
                               /\ f[l] \in Nat /\ g[l] \in Nat /\ f[l] <= g[l]
                               /\ rows[l].product \in Product
    BY DEF Got, Asked, Tidy, Row
  <1>2. ASSUME NEW p
        PROVE  /\ OrderedIn(rows, p) = SumOver(g, Of(rows, p)) /\ OrderedIn(rows, p) \in Nat
               /\ ReceivedIn(rows, p) = SumOver(f, Of(rows, p)) /\ ReceivedIn(rows, p) \in Nat
               /\ IsFiniteSet(Of(rows, p)) /\ Of(rows, p) \subseteq DOMAIN rows
    <2>1. IsFiniteSet(Of(rows, p))
      BY RowsFinite
    <2>2. Of(rows, p) \subseteq DOMAIN rows
      BY DEF Of
    <2>3. QED
      BY <2>1, <2>2, RowSums
  <1>3. ASSUME NEW p
        PROVE  /\ ReceivedIn(rows, p) <= OrderedIn(rows, p)
               /\ ReceivedIn(rows, p) = OrderedIn(rows, p) =>
                      \A l \in Of(rows, p) : f[l] = g[l]
    <2> PICK S : S = Of(rows, p)
      OBVIOUS
    <2>1. IsFiniteSet(S) /\ \A l \in S : f[l] \in Nat /\ g[l] \in Nat /\ f[l] <= g[l]
      BY <1>1, <1>2
    <2>2. /\ SumOver(f, S) <= SumOver(g, S)
          /\ SumOver(f, S) = SumOver(g, S) => \A l \in S : f[l] = g[l]
      BY <2>1, SumLess
    <2>3. QED
      BY <1>2, <2>2
  <1>5. ASSUME DOMAIN rows = {}, NEW p PROVE OrderedIn(rows, p) = 0
    <2>1. Of(rows, p) = {}
      BY <1>5 DEF Of
    <2>2. QED
      BY <1>2, <2>1, SumEmpty
  <1>6. ASSUME ~RemainsOf(rows), NEW p PROVE ReceivedIn(rows, p) = OrderedIn(rows, p)
    <2> PICK S : S = Of(rows, p)
      OBVIOUS
    <2>1. IsFiniteSet(S) /\ \A l \in S : f[l] = g[l] /\ f[l] \in Nat
      BY <1>1, <1>2, <1>6 DEF RemainsOf
    <2>2. SumOver(f, S) = SumOver(g, S)
      BY <2>1, SumSame
    <2>3. QED
      BY <1>2, <2>2
  <1>7. ASSUME \A p \in Product : ReceivedIn(rows, p) = OrderedIn(rows, p), RemainsOf(rows)
        PROVE  FALSE
    <2>1. PICK l \in DOMAIN rows : rows[l].qty > rows[l].received
      BY <1>7 DEF RemainsOf
    <2>2. l \in Of(rows, rows[l].product)
      BY DEF Of
    <2>3. f[l] = g[l]
      BY <1>1, <1>3, <1>7, <2>2
    <2>4. QED
      BY <1>1, <2>1, <2>3
  <1>8. QED
    BY <1>2, <1>3, <1>5, <1>6, <1>7

OrderedNow == [p \in Product |-> OrderedOf(p)]
ReceivedNow == [p \in Product |-> ReceivedOf(p)]

LEMMA BookIs ==
    /\ OrderedNow = [p \in Product |-> OrderedIn(lines, p)]
    /\ ReceivedNow = [p \in Product |-> ReceivedIn(lines, p)]
    /\ OrderedNow' = [p \in Product |-> OrderedIn(lines', p)]
    /\ ReceivedNow' = [p \in Product |-> ReceivedIn(lines', p)]
  <1>1. \A p : OrderedOf(p) = OrderedIn(lines, p) /\ ReceivedOf(p) = ReceivedIn(lines, p)
    BY CountsAre DEF OrderedOf, OrderedIn, UnitsIn, Of
  <1>2. \A p : OrderedOf(p)' = OrderedIn(lines', p) /\ ReceivedOf(p)' = ReceivedIn(lines', p)
    BY CountsAre DEF OrderedOf, OrderedIn, UnitsIn, Of
  <1>3. QED
    BY <1>1, <1>2 DEF OrderedNow, ReceivedNow

\* What the lines say stays if no receipt comes in.
LEMMA ReceivedStays ==
    ASSUME MatchInv, MatchInv', receipts' = receipts PROVE ReceivedNow' = ReceivedNow
  <1>1. \A p \in Product : ReceivedOf(p) = ReceiptsOf(p) /\ ReceivedOf(p)' = ReceiptsOf(p)'
    BY DEF MatchInv, CountInv
  <1>2. \A p : ReceiptsOf(p)' = ReceiptsOf(p)
    BY CountsAre
  <1>3. QED
    BY <1>1, <1>2 DEF ReceivedNow

\* The quantities on the lines, and what they say of them.
Bookish ==
    /\ OrderedNow \in [Product -> Nat] /\ ReceivedNow \in [Product -> Nat]
    /\ \A p \in Product : ReceivedNow[p] <= OrderedNow[p]
    /\ DOMAIN lines = {} => OrderedNow = [p \in Product |-> 0]
    /\ ~RemainsOf(lines) <=> ReceivedNow = OrderedNow

LEMMA BookOfLines == TypedInv /\ MatchInv => Bookish
  <1> SUFFICES ASSUME TypedInv, MatchInv PROVE Bookish
    OBVIOUS
  <1>1. Tidy(lines) /\ \A l \in DOMAIN lines : lines[l] \in Row
    BY LinesTidy DEF MatchInv
  <1>2. /\ \A p : /\ OrderedIn(lines, p) \in Nat /\ ReceivedIn(lines, p) \in Nat
                  /\ ReceivedIn(lines, p) <= OrderedIn(lines, p)
        /\ DOMAIN lines = {} => \A p : OrderedIn(lines, p) = 0
        /\ ~RemainsOf(lines) <=> \A p \in Product : ReceivedIn(lines, p) = OrderedIn(lines, p)
    BY <1>1, RowsBooked
  <1>3. /\ OrderedNow = [p \in Product |-> OrderedIn(lines, p)]
        /\ ReceivedNow = [p \in Product |-> ReceivedIn(lines, p)]
    BY BookIs
  <1>4. ReceivedNow = OrderedNow <=> \A p \in Product : ReceivedIn(lines, p) = OrderedIn(lines, p)
    <2>1. ASSUME ReceivedNow = OrderedNow, NEW p \in Product
          PROVE  ReceivedIn(lines, p) = OrderedIn(lines, p)
      <3>1. ReceivedNow[p] = OrderedNow[p]
        BY <2>1
      <3>2. QED
        BY <1>3, <3>1
    <2>2. QED
      BY <1>3, <2>1
  <1>5. QED
    BY <1>2, <1>3, <1>4 DEF Bookish

LEMMA BookOfNextLines == TypedInv' /\ MatchInv' => Bookish'
  BY BookOfLines, PTL

-----------------------------------------------------------------------------
(* Every step of a serial run is a step of the book, or none *)

\* The book's next step, or none.
BookStep == [Book!Next]_<<order.status, OrderedNow, ReceivedNow>>

LEMMA BookStays == ASSUME order'.status = order.status, lines' = lines PROVE BookStep
  <1>1. OrderedNow' = OrderedNow /\ ReceivedNow' = ReceivedNow
    BY BookIs
  <1>2. QED
    BY <1>1 DEF BookStep

LEMMA BookCreate ==
    ASSUME SerialInv, SerialInv', Create PROVE BookStep
  <1>1. order.status = "NONE" /\ order'.status = "DRAFT" /\ receipts' = receipts
    BY DEF Create
  <1>2. OrderedNow' \in [Product -> Nat]
    BY BookOfNextLines DEF SerialInv, Bookish
  <1>3. ReceivedNow' = ReceivedNow
    BY <1>1, ReceivedStays DEF SerialInv
  <1>4. Book!Draft
    BY <1>1, <1>2, <1>3 DEF Book!Draft, Book!Quantities, OrderedNow, ReceivedNow
  <1>5. QED
    BY <1>4 DEF BookStep, Book!Next

LEMMA BookDelete ==
    ASSUME SerialInv, SerialInv', NEW t \in Tx, DeleteOrder(t) PROVE BookStep
  <1>1. order'.status = "GONE" /\ lines' = NoRows /\ receipts' = receipts /\ pc[t] = "delete"
    BY DEF DeleteOrder
  <1>2. job[t].kind = "REMOVE"
    <2>1. job[t].kind \in Kind /\ pc[t] \in Places(job[t].kind)
      BY <1>1, KindOf DEF SerialInv, OrderInv, PlaceInv
    <2>2. QED
      BY <1>1, <2>1 DEF Places, Kind
  <1>3. order.status = "DRAFT"
    BY <1>1, <1>2 DEF SerialInv, Staged, StageInv, Admissible
  <1>4. DOMAIN lines' = {}
    BY <1>1 DEF NoRows
  <1>5. Bookish'
    BY BookOfNextLines DEF SerialInv
  <1>6. OrderedNow' = [p \in Product |-> 0]
    BY <1>4, <1>5 DEF Bookish
  <1>7. ReceivedNow' = ReceivedNow
    BY <1>1, ReceivedStays DEF SerialInv
  <1>8. Book!Remove
    BY <1>1, <1>3, <1>6, <1>7 DEF Book!Remove, Book!Nothing, OrderedNow, ReceivedNow
  <1>9. QED
    BY <1>8 DEF BookStep, Book!Next

LEMMA BookEdit ==
    ASSUME SerialInv, SerialInv', NEW t \in Tx, Commit(t), job[t].kind = "UPDATE"
    PROVE  BookStep
  <1>1. /\ pc[t] = "commit" /\ lines' = Seen(t) /\ receipts' = receipts
        /\ order' = IF hdr[t] = None THEN order ELSE hdr[t]
    BY DEF Commit, Inserted
  <1>2. order.status = "DRAFT" /\ order'.status = "DRAFT"
    BY <1>1 DEF SerialInv, Staged, StageInv, Admissible, OrderInv, HeaderInv
  <1>3. OrderedNow' \in [Product -> Nat]
    BY BookOfNextLines DEF SerialInv, Bookish
  <1>4. ReceivedNow' = ReceivedNow
    BY <1>1, ReceivedStays DEF SerialInv
  <1>5. Book!Draft
    BY <1>2, <1>3, <1>4 DEF Book!Draft, Book!Quantities, OrderedNow, ReceivedNow
  <1>6. QED
    BY <1>5 DEF BookStep, Book!Next

LEMMA BookTransition ==
    ASSUME SerialInv, SerialInv', NEW t \in Tx, Commit(t),
           job[t].kind \notin {"UPDATE", "RECEIVE"}
    PROVE  BookStep
  <1>1. /\ pc[t] = "commit" /\ lines' = Seen(t)
        /\ order' = IF hdr[t] = None THEN order ELSE hdr[t]
    BY DEF Commit
  <1>2. WritesInv(t) /\ StageInv(t)
    BY DEF SerialInv, Staged
  <1>3. lines' = lines
    BY <1>1, <1>2, SeenUnwritten DEF WritesInv, SerialInv
  <1>4. OrderedNow' = OrderedNow /\ ReceivedNow' = ReceivedNow
    BY <1>3, BookIs
  <1>5. CASE hdr[t] = None
    BY <1>1, <1>3, <1>5, BookStays
  <1>6. CASE hdr[t] # None /\ job[t].kind = "APPROVE"
    <2>1. order.status = "DRAFT" /\ order'.status = "APPROVED"
      BY <1>1, <1>2, <1>6 DEF WritesInv, StageInv, Admissible
    <2>2. Book!Approve
      BY <1>4, <2>1 DEF Book!Approve, OrderedNow, ReceivedNow
    <2>3. QED
      BY <2>2 DEF BookStep, Book!Next
  <1>7. CASE hdr[t] # None /\ job[t].kind = "CANCEL"
    <2>1. order.status \in {"DRAFT", "APPROVED"} /\ order'.status = "CANCELLED"
      BY <1>1, <1>2, <1>7 DEF WritesInv, StageInv, Admissible
    <2>2. Book!Cancel
      BY <1>4, <2>1 DEF Book!Cancel, OrderedNow, ReceivedNow
    <2>3. QED
      BY <2>2 DEF BookStep, Book!Next
  <1>8. QED
    BY <1>2, <1>5, <1>6, <1>7 DEF WritesInv

LEMMA BookReceive ==
    ASSUME SerialInv, SerialInv', NEW t \in Tx, Commit(t), job[t].kind = "RECEIVE"
    PROVE  BookStep
  <1>1. /\ pc[t] = "commit" /\ lines' = Seen(t)
        /\ order' = IF hdr[t] = None THEN order ELSE hdr[t]
    BY DEF Commit
  <1>2. OrderInv /\ TypedInv /\ MatchInv
    BY DEF SerialInv
  <1>3. WritesInv(t) /\ CheckedInv(t) /\ StageInv(t)
    BY DEF SerialInv, Staged
  <1> PICK new, costed : new = Seen(t) /\ costed = local[t].costed
    OBVIOUS
  <1>4. /\ DOMAIN new = DOMAIN lines
        /\ \A l \in DOMAIN lines : new[l].product = lines[l].product /\ new[l].qty = lines[l].qty
        /\ \A p \in Product : ReceivedIn(new, p) = ReceivedIn(lines, p) + UnitsIn(costed, p)
    BY <1>1, <1>2, ReceiptRows
  <1>5. \A p : OrderedIn(new, p) = OrderedIn(lines, p)
    <2>1. \A p : Of(new, p) = Of(lines, p)
      BY <1>4 DEF Of
    <2>2. ASSUME NEW p
          PROVE  [l \in Of(new, p) |-> new[l].qty] = [l \in Of(lines, p) |-> lines[l].qty]
      BY <1>4, <2>1 DEF Of
    <2>3. QED
      BY <2>2 DEF OrderedIn
  <1>6. OrderedNow' = OrderedNow
    BY <1>1, <1>5, BookIs
  <1>7. costed \in Seq(ReceiptLine) /\ costed # <<>>
    BY <1>1, <1>2 DEF MatchInv, Kept, CostedInv, Booked
  <1>8. \A p : UnitsIn(costed, p) \in Nat
    BY <1>7, UnitsNat
  <1>9. Bookish /\ Bookish'
    BY BookOfLines, BookOfNextLines DEF SerialInv
  <1>10. \A p \in Product : /\ ReceivedNow'[p] = ReceivedNow[p] + UnitsIn(costed, p)
                            /\ ReceivedNow[p] \in Nat
    BY <1>1, <1>4, <1>9, BookIs DEF Bookish
  <1>11. \A p \in Product : /\ ReceivedNow[p] <= ReceivedNow'[p]
                            /\ ReceivedNow'[p] <= OrderedNow[p]
    BY <1>6, <1>8, <1>9, <1>10 DEF Bookish
  <1>12. order.status = "APPROVED"
    BY <1>1, <1>3 DEF StageInv, Admissible
  <1>13. hdr[t] = None <=> RemainsOf(lines)'
    <2>1. hdr[t] = None <=> RemainsOf(Seen(t))
      BY <1>1, <1>3 DEF CheckedInv
    <2>2. RemainsOf(lines)' = RemainsOf(Seen(t))
      BY <1>1 DEF RemainsOf
    <2>3. QED
      BY <2>1, <2>2
  <1>14. order'.status = IF ReceivedNow' = OrderedNow THEN "RECEIVED" ELSE "APPROVED"
    <2>1. ~RemainsOf(lines)' <=> ReceivedNow' = OrderedNow
      BY <1>6, <1>9 DEF Bookish
    <2>2. hdr[t] # None => hdr[t].status = "RECEIVED"
      BY <1>3 DEF WritesInv
    <2>3. QED
      BY <1>1, <1>12, <1>13, <2>1, <2>2
  <1>15. ReceivedNow' \in [Product -> Nat]
    BY <1>9 DEF Bookish
  <1>16. Book!Receive
    BY <1>6, <1>11, <1>12, <1>14, <1>15
    DEF Book!Receive, Book!Quantities, OrderedNow, ReceivedNow
  <1>17. QED
    BY <1>16 DEF BookStep, Book!Next

LEMMA StepsKeepBook == SerialInv /\ SerialInv' /\ [SerialNext]_vars => BookStep
  <1> SUFFICES ASSUME SerialInv, SerialInv', [SerialNext]_vars PROVE BookStep
    OBVIOUS
  <1>1. CASE Create
    BY <1>1, BookCreate
  <1>2. ASSUME NEW t \in Tx, Commit(t) PROVE BookStep
    BY <1>2, BookEdit, BookReceive, BookTransition
  <1>3. ASSUME NEW t \in Tx, DeleteOrder(t) PROVE BookStep
    BY <1>3, BookDelete
  <1>4. CASE UNCHANGED <<order, lines>>
    BY <1>4, BookStays
  <1>5. QED
    BY <1>1, <1>2, <1>3, <1>4 DEF SerialNext, SerialBegin, Begin, Step, ReadHeader,
       ReadLinesToUpdate, ReadLinesToReceive, Refuse, StartClear, ClearLines, WriteHeader,
       WriteHeaderAs, SetStatus, InsertReceipt, AdvanceLine, AdvanceWith, CheckComplete,
       CheckWith, CloseOrder, Abort, Interrupt, Rollback, vars

LEMMA BookInit == Init => Book!Init
  <1> SUFFICES ASSUME Init PROVE Book!Init
    OBVIOUS
  <1>1. TypedInv /\ MatchInv
    BY TypedInit, MatchInit
  <1>2. Bookish
    BY <1>1, BookOfLines
  <1>3. order.status = "NONE" /\ DOMAIN lines = {}
    BY DEF Init, NoRows
  <1>4. OrderedNow = [p \in Product |-> 0]
    BY <1>2, <1>3 DEF Bookish
  <1>5. ~RemainsOf(lines)
    BY <1>3 DEF RemainsOf
  <1>6. ReceivedNow = OrderedNow
    BY <1>2, <1>5 DEF Bookish
  <1>7. QED
    BY <1>3, <1>4, <1>6 DEF Book!Init, Book!Nothing, OrderedNow, ReceivedNow

\* Requests that do not overlap keep the promise of PurchaseOrderBook: only a
\* DRAFT changes or goes, and the receipt that leaves nothing to wait for, and
\* no other, makes the order RECEIVED.
THEOREM SerialImplementsBook == SerialSpec => ImplementsBook
  <1>1. SerialInv /\ SerialInv' /\ [SerialNext]_vars =>
        [Book!Next]_<<order.status, [p \in Product |-> OrderedOf(p)],
                      [p \in Product |-> ReceivedOf(p)]>>
    BY StepsKeepBook DEF BookStep, OrderedNow, ReceivedNow
  <1>2. SerialSpec => []SerialInv
    BY SerialInit, SerialStep, PTL DEF SerialSpec
  <1>3. QED
    BY <1>1, <1>2, BookInit, PTL DEF SerialSpec, ImplementsBook, Book!Spec
=============================================================================
