----------------------------- MODULE Recursions -----------------------------
(***************************************************************************)
(* That the recursive functions of the specifications are functions: a     *)
(* definition f[x \in S] == e chooses a function that satisfies its        *)
(* equation, and here it is proved that there is one.  Induction is stated *)
(* of sets, not of operators.  Then what a CHOOSE over subsets, a fold, a  *)
(* layout, an encoding and a sum give, for sequences of any length.        *)
(***************************************************************************)
EXTENDS Integers, Sequences, FiniteSets, WellFoundedInduction, FiniteSetTheorems,
        SequenceTheorems, TLAPS

Msg == INSTANCE Messages

(* What holds of 0, and of n + 1 if of n, holds of all numbers.             *)
LEMMA Induction ==
  ASSUME NEW S, 0 \in S, \A n \in Nat : n \in S => n + 1 \in S
  PROVE  Nat \subseteq S
<1> DEFINE R == OpToRel(<, Nat)
           U == Nat \ S
<1>1. SUFFICES ASSUME U # {} PROVE FALSE
  OBVIOUS
<1>2. IsWellFoundedOn(R, Nat)
  BY NatLessThanWellFounded, Zenon
<1>3. \A x, y \in Nat : x < y => <<x, y>> \in R
  BY DEF OpToRel
<1>4. U \subseteq Nat
  OBVIOUS
<1> HIDE DEF R
<1>5. PICK x \in U : \A y \in U : ~ (<<y, x>> \in R)
  <2> HIDE DEF U
  <2> QED BY <1>1, <1>2, <1>4, WFMin
<1>6. x \in Nat /\ x \notin S /\ x # 0
  BY <1>5
<1>7. x - 1 \in Nat /\ x - 1 < x /\ (x - 1) + 1 = x
  BY <1>6
<1>8. x - 1 \in S
  BY <1>3, <1>5, <1>6, <1>7
<1> QED
  BY <1>6, <1>7, <1>8

(* g is the start of the sequence, as far as m.                             *)
UpTo(V, a, h, g, m) == /\ g \in [0 .. m -> V] /\ g[0] = a
                       /\ \A n \in 0 .. m - 1 : g[n + 1] = h[<<n, g[n]>>]
(* There is a sequence that starts with a and goes on with h.               *)
Continues(V, a, h) == \E f \in [Nat -> V] : f[0] = a /\ \A n \in Nat : f[n + 1] = h[<<n, f[n]>>]

(* So there is, for any h.                                                  *)
LEMMA Recursion ==
  ASSUME NEW V, NEW a \in V, NEW h \in [Nat \X V -> V]
  PROVE  Continues(V, a, h)
<1> DEFINE Fits(g, m) == UpTo(V, a, h, g, m)
           Done == {m \in Nat : \E g : Fits(g, m)}
           Same == {m \in Nat : \A f, g : \A k \in Nat, j \in Nat :
                       Fits(f, k) /\ Fits(g, j) /\ m <= k /\ m <= j => f[m] = g[m]}
<1>1. Nat \subseteq Done
  <2>1. 0 \in Done
    <3> DEFINE g == [i \in 0 .. 0 |-> a]
    <3>1. Fits(g, 0)
      BY DEF UpTo
    <3> QED BY <3>1
  <2>2. ASSUME NEW m \in Nat, m \in Done PROVE m + 1 \in Done
    <3>1. PICK g : Fits(g, m)
      BY <2>2
    <3> DEFINE gg == [i \in 0 .. m + 1 |-> IF i = m + 1 THEN h[<<m, g[m]>>] ELSE g[i]]
    <3>2. gg \in [0 .. m + 1 -> V] /\ gg[0] = a
      BY <3>1 DEF UpTo
    <3>4. ASSUME NEW n \in 0 .. m PROVE gg[n + 1] = h[<<n, gg[n]>>]
      <4>1. CASE n = m
        <5>1. gg[m + 1] = h[<<m, g[m]>>]
          OBVIOUS
        <5>2. m \in 0 .. m + 1 /\ m # m + 1
          OBVIOUS
        <5>3. gg[m] = g[m]
          BY <5>2
        <5> HIDE DEF gg
        <5> QED BY <4>1, <5>1, <5>3
      <4>2. CASE n # m
        <5>1. n \in 0 .. m - 1 /\ n + 1 # m + 1 /\ n + 1 \in 0 .. m + 1 /\ n \in 0 .. m + 1 /\ n # m + 1
          BY <4>2
        <5>2. gg[n + 1] = g[n + 1] /\ gg[n] = g[n]
          BY <5>1
        <5>3. g[n + 1] = h[<<n, g[n]>>]
          BY <5>1, <3>1 DEF UpTo
        <5> QED BY <5>2, <5>3
      <4> QED BY <4>1, <4>2
    <3> HIDE DEF gg
    <3>5. Fits(gg, m + 1)
      BY <3>2, <3>4 DEF UpTo
    <3> HIDE DEF Fits
    <3> QED BY <3>5
  <2> HIDE DEF Done
  <2> QED BY <2>1, <2>2, Induction
<1>2. Nat \subseteq Same
  <2>1. 0 \in Same
    BY DEF UpTo
  <2>2. ASSUME NEW m \in Nat, m \in Same PROVE m + 1 \in Same
    <3>1. SUFFICES ASSUME NEW f, NEW g, NEW k \in Nat, NEW j \in Nat, Fits(f, k), Fits(g, j), m + 1 <= k, m + 1 <= j
                   PROVE f[m + 1] = g[m + 1]
      <4> HIDE DEF Fits
      <4> QED OBVIOUS
    <3>2. f[m] = g[m]
      <4> HIDE DEF Fits
      <4> QED BY <2>2, <3>1
    <3>3. m \in 0 .. k - 1 /\ m \in 0 .. j - 1
      BY <3>1
    <3>4. f[m + 1] = h[<<m, f[m]>>] /\ g[m + 1] = h[<<m, g[m]>>]
      BY <3>1, <3>3 DEF UpTo
    <3> QED BY <3>2, <3>4
  <2> HIDE DEF Same
  <2> QED BY <2>1, <2>2, Induction
<1>3. \E G : \A m \in Nat : Fits(G[m], m)
  <2> DEFINE G == [m \in Nat |-> CHOOSE g : Fits(g, m)]
  <2>1. ASSUME NEW m \in Nat PROVE Fits(G[m], m)
    <3>1. \E g : Fits(g, m)
      BY <1>1
    <3> HIDE DEF Fits
    <3>2. Fits(CHOOSE g : Fits(g, m), m)
      BY <3>1
    <3> QED BY <3>2
  <2> HIDE DEF Fits, G
  <2> QED BY <2>1
<1>4. PICK G : \A m \in Nat : Fits(G[m], m)
  BY <1>3
<1> DEFINE f == [m \in Nat |-> G[m][m]]
<1>5. f \in [Nat -> V] /\ f[0] = a
  BY <1>4 DEF UpTo
<1>6. ASSUME NEW n \in Nat PROVE f[n + 1] = h[<<n, f[n]>>]
  <2>1. Fits(G[n], n) /\ Fits(G[n + 1], n + 1)
    BY <1>4
  <2>2. n \in Same
    BY <1>2
  <2>3. G[n][n] = G[n + 1][n]
    <3> HIDE DEF Fits
    <3> QED BY <2>1, <2>2
  <2>4. G[n + 1][n + 1] = h[<<n, G[n + 1][n]>>]
    BY <2>1 DEF UpTo
  <2> QED BY <2>3, <2>4
<1> HIDE DEF f
<1> QED
  BY <1>5, <1>6 DEF Continues

(* A function on SS may be given by what it is where stop holds and how it  *)
(* follows from its value at a smaller element elsewhere.                   *)
Recurs(SS, V, stop, next, base, comb) ==
  \E f \in [SS -> V] : \A s \in SS : f[s] = IF s \in stop THEN base[s] ELSE comb[<<s, f[next[s]]>>]

(* So it may: F[n] is that function on the elements below n in size.        *)
LEMMA SizeRecursion ==
  ASSUME NEW SS, NEW V, NEW size \in [SS -> Nat], NEW stop, NEW next, NEW base \in [SS -> V],
         NEW comb \in [SS \X V -> V],
         \A s \in SS : s \notin stop => next[s] \in SS /\ size[next[s]] < size[s]
  PROVE  Recurs(SS, V, stop, next, base, comb)
<1> DEFINE W == [SS -> V]
           Up(g) == [s \in SS |-> IF s \in stop THEN base[s] ELSE comb[<<s, g[next[s]]>>]]
           h == [p \in Nat \X W |-> Up(p[2])]
<1>1. ASSUME NEW g \in W PROVE Up(g) \in W
  OBVIOUS
<1>2a. h \in [Nat \X W -> W]
  <2> HIDE DEF W, Up
  <2> QED BY <1>1
<1>2. \A n \in Nat, g \in W : h[<<n, g>>] = Up(g)
  <2> HIDE DEF W, Up
  <2> QED BY <1>1
<1>3. PICK F \in [Nat -> W] : F[0] = base /\ \A n \in Nat : F[n + 1] = Up(F[n])
  <2>1. base \in W
    OBVIOUS
  <2> HIDE DEF W, Up, h
  <2>2. Continues(W, base, h)
    BY <1>2a, <2>1, Recursion
  <2>3. \E F \in [Nat -> W] : F[0] = base /\ \A n \in Nat : F[n + 1] = h[<<n, F[n]>>]
    BY <2>2 DEF Continues
  <2> QED
    BY <1>2, <2>3
<1> DEFINE Stable == {n \in Nat : \A s \in SS : size[s] < n => F[n + 1][s] = F[n][s]}
<1>4. Nat \subseteq Stable
  <2>1. 0 \in Stable
    OBVIOUS
  <2>2. ASSUME NEW n \in Nat, n \in Stable PROVE n + 1 \in Stable
    <3>1. SUFFICES ASSUME NEW s \in SS, size[s] < n + 1 PROVE F[(n + 1) + 1][s] = F[n + 1][s]
      OBVIOUS
    <3>2. F[(n + 1) + 1] = Up(F[n + 1]) /\ F[n + 1] = Up(F[n])
      BY <1>3
    <3>3. CASE s \in stop
      BY <3>2, <3>3
    <3>4. CASE s \notin stop
      <4>1. next[s] \in SS /\ size[next[s]] < n
        BY <3>1, <3>4
      <4>2. F[n + 1][next[s]] = F[n][next[s]]
        BY <2>2, <4>1
      <4>3. F[(n + 1) + 1][s] = comb[<<s, F[n + 1][next[s]]>>] /\ F[n + 1][s] = comb[<<s, F[n][next[s]]>>]
        BY <3>2, <3>4
      <4> QED BY <4>2, <4>3
    <3> QED BY <3>3, <3>4
  <2> HIDE DEF Stable
  <2> QED BY <2>1, <2>2, Induction
<1>5. ASSUME NEW s \in SS, NEW m \in Nat, size[s] < m PROVE F[m][s] = F[size[s] + 1][s]
  <2> DEFINE Agree == {n \in Nat : F[size[s] + 1 + n][s] = F[size[s] + 1][s]}
  <2>1. 0 \in Agree
    OBVIOUS
  <2>2. ASSUME NEW n \in Nat, n \in Agree PROVE n + 1 \in Agree
    <3>1. size[s] + 1 + n \in Nat /\ size[s] < size[s] + 1 + n
      OBVIOUS
    <3>2. size[s] + 1 + n \in Stable
      <4> HIDE DEF Stable
      <4> QED BY <1>4, <3>1
    <3>3. F[(size[s] + 1 + n) + 1][s] = F[size[s] + 1 + n][s]
      BY <3>1, <3>2
    <3>4. size[s] + 1 + (n + 1) = (size[s] + 1 + n) + 1
      <4>1. size[s] \in Nat
        OBVIOUS
      <4> QED BY <4>1
    <3>5. F[size[s] + 1 + n][s] = F[size[s] + 1][s]
      BY <2>2
    <3> QED BY <3>3, <3>4, <3>5
  <2>3. Nat \subseteq Agree
    <3> HIDE DEF Agree
    <3> QED BY <2>1, <2>2, Induction
  <2>4. m - (size[s] + 1) \in Nat /\ size[s] + 1 + (m - (size[s] + 1)) = m
    BY <1>5
  <2> QED BY <2>3, <2>4
<1> DEFINE f == [s \in SS |-> F[size[s] + 1][s]]
<1>6. f \in [SS -> V]
  OBVIOUS
<1>7. ASSUME NEW s \in SS PROVE f[s] = IF s \in stop THEN base[s] ELSE comb[<<s, f[next[s]]>>]
  <2>1. F[size[s] + 1] = Up(F[size[s]])
    BY <1>3
  <2>2. CASE s \in stop
    BY <2>1, <2>2
  <2>3. CASE s \notin stop
    <3>1. next[s] \in SS /\ size[next[s]] < size[s] /\ size[s] \in Nat
      BY <2>3
    <3>2. F[size[s]][next[s]] = f[next[s]]
      BY <1>5, <3>1
    <3>3. f[s] = comb[<<s, F[size[s]][next[s]]>>]
      BY <2>1, <2>3
    <3> QED BY <2>3, <3>2, <3>3
  <2> QED BY <2>2, <2>3
<1> HIDE DEF f
<1> QED
  BY <1>6, <1>7 DEF Recurs
-----------------------------------------------------------------------------
(* A function on the subsets of a finite set may be given by its value at   *)
(* {} and how it follows from its value at the set without one element.     *)
Removes(SS, V, ch, b, go) ==
  \E f \in [SUBSET SS -> V] : \A s \in SUBSET SS :
    f[s] = IF s = {} THEN b ELSE go[<<ch[s], f[s \ {ch[s]}]>>]

LEMMA Removal ==
  ASSUME NEW SS, IsFiniteSet(SS), NEW V, NEW b \in V, NEW ch \in [SUBSET SS -> SS \cup {SS}],
         \A s \in SUBSET SS : s # {} => ch[s] \in s, NEW go \in [SS \X V -> V]
  PROVE  Removes(SS, V, ch, b, go)
  <1> DEFINE PP == SUBSET SS
             size == [s \in PP |-> Cardinality(s)]
             next == [s \in PP |-> s \ {ch[s]}]
             base == [s \in PP |-> b]
             comb == [q \in PP \X V |-> IF q[1] = {} THEN b ELSE go[<<ch[q[1]], q[2]>>]]
  <1>1. size \in [PP -> Nat]
    BY FS_Subset, FS_CardinalityType
  <1>2. ASSUME NEW s \in PP, s \notin {{}} PROVE next[s] \in PP /\ size[next[s]] < size[s]
    <2>1. ch[s] \in s /\ IsFiniteSet(s) /\ next[s] = s \ {ch[s]}
      BY <1>2, FS_Subset
    <2>2. Cardinality(s \ {ch[s]}) = Cardinality(s) - 1 /\ Cardinality(s) \in Nat
      BY <2>1, FS_RemoveElement, FS_CardinalityType
    <2> QED BY <2>1, <2>2
  <1>3. base \in [PP -> V]
    OBVIOUS
  <1>4. ASSUME NEW s \in PP, NEW v \in V PROVE comb[<<s, v>>] = IF s = {} THEN b ELSE go[<<ch[s], v>>]
    OBVIOUS
  <1>5. comb \in [PP \X V -> V]
    <2> SUFFICES ASSUME NEW q \in PP \X V PROVE comb[q] \in V
      BY Zenon
    <2>1. PICK s \in PP, v \in V : q = <<s, v>>
      OBVIOUS
    <2>2. CASE s = {}
      BY <2>1, <2>2
    <2>3. CASE s # {}
      <3>1. <<ch[s], v>> \in SS \X V
        BY <2>3
      <3>2. comb[q] = go[<<ch[s], v>>]
        BY <2>1, <2>3, <1>4
      <3> HIDE DEF comb
      <3> QED BY <3>1, <3>2
    <2> QED BY <2>2, <2>3
  <1> HIDE DEF size, next, base, comb, PP
  <1>6. Recurs(PP, V, {{}}, next, base, comb)
    BY <1>1, <1>2, <1>3, <1>5, SizeRecursion
  <1>7. PICK f \in [PP -> V] : \A s \in PP : f[s] = IF s \in {{}} THEN base[s] ELSE comb[<<s, f[next[s]]>>]
    BY <1>6 DEF Recurs
  <1>8. ASSUME NEW s \in PP PROVE f[s] = IF s = {} THEN b ELSE go[<<ch[s], f[s \ {ch[s]}]>>]
    <2>1. CASE s = {}
      BY <2>1, <1>7 DEF base
    <2>2. CASE s # {}
      <3>1. next[s] = s \ {ch[s]} /\ next[s] \in PP
        BY <1>2, <2>2 DEF next
      <3>2. f[next[s]] \in V
        BY <3>1
      <3>3. f[s] = comb[<<s, f[next[s]]>>]
        BY <1>7, <2>2
      <3> QED BY <3>1, <3>2, <3>3, <2>2, <1>4
    <2> QED BY <2>1, <2>2
  <1> QED
    BY <1>8 DEF Removes, PP

-----------------------------------------------------------------------------
(* The largest of numbers.                                                  *)
LEMMA MaxIs ==
  ASSUME NEW n \in Nat, NEW s \in SUBSET (1 .. n), s # {}
  PROVE  Msg!Max(s) \in s /\ \A x \in s : x <= Msg!Max(s)
  <1> DEFINE A == {m \in Nat : \A t \in SUBSET (1 .. m) : t # {} => \E y \in t : \A x \in t : x <= y}
  <1>1. 0 \in A
    <2>1. 1 .. 0 = {}
      OBVIOUS
    <2>2. \A t \in SUBSET (1 .. 0) : t = {}
      BY <2>1
    <2> QED BY <2>2
  <1>2. ASSUME NEW m \in Nat, m \in A PROVE m + 1 \in A
    <2> SUFFICES ASSUME NEW t \in SUBSET (1 .. m + 1), t # {} PROVE \E y \in t : \A x \in t : x <= y
      OBVIOUS
    <2>1. CASE m + 1 \in t
      BY <2>1
    <2>2. CASE m + 1 \notin t
      <3>1. t \in SUBSET (1 .. m)
        BY <2>2
      <3> QED BY <1>2, <3>1
    <2> QED BY <2>1, <2>2
  <1>3. Nat \subseteq A
    <2> HIDE DEF A
    <2> QED BY <1>1, <1>2, Induction
  <1>4. \E y \in s : \A x \in s : x <= y
    BY <1>3
  <1>5. \E y \in s : \A x \in s : y >= x
    BY <1>4
  <1>6. Msg!Max(s) \in s /\ \A x \in s : Msg!Max(s) >= x
    BY <1>5 DEF Msg!Max
  <1> QED
    BY <1>6

LEMMA MaxOfPrefix ==
  ASSUME NEW n \in Nat, NEW k \in 0 .. n - 1
  PROVE  Msg!Max(1 .. k + 1) = k + 1 /\ (1 .. k + 1) \ {k + 1} = 1 .. k /\ (1 .. k + 1) \in SUBSET (1 .. n)
         /\ (1 .. k + 1) # {}
  <1>1. (1 .. k + 1) \in SUBSET (1 .. n) /\ k + 1 \in 1 .. k + 1
    OBVIOUS
  <1>2. Msg!Max(1 .. k + 1) \in 1 .. k + 1 /\ k + 1 <= Msg!Max(1 .. k + 1)
    BY <1>1, MaxIs
  <1>3. Msg!Max(1 .. k + 1) = k + 1
    BY <1>2
  <1> QED
    BY <1>1, <1>3

-----------------------------------------------------------------------------
(* A fold over a sequence of n: the last of the values after each element.  *)
Folded(V, n, b, go, r) == \E g \in [0 .. n -> V] :
  g[0] = b /\ (\A k \in 0 .. n - 1 : g[k + 1] = go[<<k + 1, g[k]>>]) /\ r = g[n]
(* What FoldLeft chooses is a function on the sets of positions.            *)
Foldable(V, n, b, go) == \E f \in [SUBSET (1 .. n) -> V] : \A s \in SUBSET (1 .. n) :
  f[s] = IF s = {} THEN b ELSE go[<<Msg!Max(s), f[s \ {Msg!Max(s)}]>>]

LEMMA FoldExists ==
  ASSUME NEW V, NEW n \in Nat, NEW b \in V, NEW go \in [(1 .. n) \X V -> V]
  PROVE  Foldable(V, n, b, go)
  <1> DEFINE SS == 1 .. n
             ch == [s \in SUBSET SS |-> IF s = {} THEN SS ELSE Msg!Max(s)]
  <1>3. \A s \in SUBSET SS : s # {} => ch[s] = Msg!Max(s) /\ Msg!Max(s) \in s
    BY MaxIs
  <1>4. ch \in [SUBSET SS -> SS \cup {SS}]
    BY <1>3
  <1>7. IsFiniteSet(SS)
    BY FS_Interval
  <1> HIDE DEF ch
  <1>8. Removes(SS, V, ch, b, go)
    <2>1. \A s \in SUBSET SS : s # {} => ch[s] \in s
      BY <1>3
    <2>2. go \in [SS \X V -> V]
      OBVIOUS
    <2> HIDE DEF SS
    <2> QED BY <1>4, <1>7, <2>1, <2>2, Removal
  <1> HIDE DEF SS
  <1>9. PICK f \in [SUBSET SS -> V] : \A s \in SUBSET SS : f[s] = IF s = {} THEN b ELSE go[<<ch[s], f[s \ {ch[s]}]>>]
    BY <1>8 DEF Removes
  <1>10. \A s \in SUBSET SS : f[s] = IF s = {} THEN b ELSE go[<<Msg!Max(s), f[s \ {Msg!Max(s)}]>>]
    BY <1>3, <1>9
  <1> QED
    BY <1>10 DEF Foldable, SS

LEMMA FoldIs ==
  ASSUME NEW V, NEW n \in Nat, NEW b \in V, NEW go \in [(1 .. n) \X V -> V], NEW it, it[{}] = b,
         \A s \in SUBSET (1 .. n), v \in V : s # {} /\ it[s \ {Msg!Max(s)}] = v => it[s] = go[<<Msg!Max(s), v>>]
  PROVE  Folded(V, n, b, go, it[1 .. n])
  <1> DEFINE g == [k \in 0 .. n |-> it[1 .. k]]
  <1>1. g[0] = b
    <2>1. 1 .. 0 = {} /\ 0 \in 0 .. n
      OBVIOUS
    <2> QED BY <2>1
  <1>2. ASSUME NEW k \in 0 .. n - 1, g[k] \in V PROVE g[k + 1] = go[<<k + 1, g[k]>>] /\ g[k + 1] \in V
    <2>1. Msg!Max(1 .. k + 1) = k + 1 /\ (1 .. k + 1) \ {k + 1} = 1 .. k /\ (1 .. k + 1) \in SUBSET (1 .. n) /\ (1 .. k + 1) # {}
      BY MaxOfPrefix
    <2>2. k + 1 \in 0 .. n /\ k \in 0 .. n /\ k + 1 \in 1 .. n
      OBVIOUS
    <2>3. g[k] = it[1 .. k] /\ g[k + 1] = it[1 .. k + 1]
      BY <2>2
    <2> HIDE DEF g
    <2>4. it[1 .. k + 1] = go[<<k + 1, g[k]>>]
      <3>1. it[(1 .. k + 1) \ {Msg!Max(1 .. k + 1)}] = g[k]
        BY <2>1, <2>3
      <3> DEFINE s == 1 .. k + 1
      <3>2. s \in SUBSET (1 .. n) /\ s # {} /\ it[s \ {Msg!Max(s)}] = g[k] /\ Msg!Max(s) = k + 1
        BY <3>1, <2>1
      <3> HIDE DEF s
      <3>3. it[s] = go[<<Msg!Max(s), g[k]>>]
        BY <3>2, <1>2
      <3> QED BY <3>2, <3>3 DEF s
    <2>5. go[<<k + 1, g[k]>>] \in V
      BY <2>2, <1>2
    <2> QED BY <2>3, <2>4, <2>5
  <1>3. \A k \in Nat : k <= n => g[k] \in V
    <2> HIDE DEF g
    <2> DEFINE A == {k \in Nat : k <= n => g[k] \in V}
    <2>1. 0 \in A
      BY <1>1
    <2>2. ASSUME NEW k \in Nat, k \in A PROVE k + 1 \in A
      <3> SUFFICES ASSUME k + 1 <= n PROVE g[k + 1] \in V
        OBVIOUS
      <3>1. k \in 0 .. n - 1 /\ g[k] \in V
        BY <2>2
      <3> QED BY <3>1, <1>2
    <2>3. Nat \subseteq A
      <3> HIDE DEF A
      <3> QED BY <2>1, <2>2, Induction
    <2> QED BY <2>3
  <1>4. ASSUME NEW k \in 0 .. n PROVE it[1 .. k] \in V
    <2>1. g[k] = it[1 .. k] /\ k \in Nat /\ k <= n
      OBVIOUS
    <2> HIDE DEF g
    <2> QED BY <2>1, <1>3
  <1>5. g \in [0 .. n -> V]
    BY <1>4
  <1>6. \A k \in 0 .. n - 1 : g[k + 1] = go[<<k + 1, g[k]>>]
    <2> HIDE DEF g
    <2>1. \A k \in 0 .. n - 1 : k \in Nat /\ k <= n
      OBVIOUS
    <2> QED BY <2>1, <1>2, <1>3
  <1>7. it[1 .. n] = g[n]
    OBVIOUS
  <1> HIDE DEF g
  <1> QED
    BY <1>1, <1>5, <1>6, <1>7 DEF Folded

-----------------------------------------------------------------------------
(* The pieces p put together, and the numbers w added, as the folds of the  *)
(* specifications do it.                                                    *)
CatOf(p) == Msg!FoldLeft(LAMBDA bytes, x : bytes \o x, <<>>, p)
SumOf(w) == Msg!FoldLeft(LAMBDA n, x : n + x, 0, w)

(* What they are: the last of the sums of the first k.                      *)
Builds(p, r) == \E g \in [0 .. Len(p) -> Seq(Nat)] :
  g[0] = <<>> /\ (\A k \in 0 .. Len(p) - 1 : g[k + 1] = g[k] \o p[k + 1]) /\ r = g[Len(p)]
Adds(w, r) == \E g \in [0 .. Len(w) -> Nat] :
  g[0] = 0 /\ (\A k \in 0 .. Len(w) - 1 : g[k + 1] = g[k] + w[k + 1]) /\ r = g[Len(w)]

LEMMA CatBuilds ==
  ASSUME NEW p \in Seq(Seq(Nat)) PROVE Builds(p, CatOf(p))
  <1> DEFINE n == Len(p)
             V == Seq(Nat)
             Eq(iter) == [s \in SUBSET DOMAIN p |-> IF s = {} THEN <<>> ELSE iter[s \ {Msg!Max(s)}] \o p[Msg!Max(s)]]
             go == [q \in (1 .. n) \X V |-> q[2] \o p[q[1]]]
             it == CHOOSE iter : iter = Eq(iter)
  <1>1. n \in Nat /\ DOMAIN p = 1 .. n /\ \A i \in 1 .. n : p[i] \in V
    OBVIOUS
  <1>2. CatOf(p) = it[DOMAIN p]
    BY DEF CatOf, Msg!FoldLeft, Msg!MapThenFoldSet
  <1>3. \A i \in 1 .. n, v \in V : go[<<i, v>>] = v \o p[i] /\ go[<<i, v>>] \in V
    <2>1. ASSUME NEW i \in 1 .. n, NEW v \in V PROVE v \o p[i] \in V
      <3>1. v \in Seq(Nat) /\ p[i] \in Seq(Nat)
        BY <1>1
      <3> QED BY <3>1
    <2> HIDE DEF V
    <2> QED BY <2>1
  <1>4. go \in [(1 .. n) \X V -> V]
    BY <1>3
  <1>5. <<>> \in V
    OBVIOUS
  <1> HIDE DEF Eq, go, it, V, n
  <1>6. PICK f \in [SUBSET (1 .. n) -> V] : \A s \in SUBSET (1 .. n) :
          f[s] = IF s = {} THEN <<>> ELSE go[<<Msg!Max(s), f[s \ {Msg!Max(s)}]>>]
    <2>1. Foldable(V, n, <<>>, go)
      BY <1>1, <1>4, <1>5, FoldExists
    <2> QED BY <2>1 DEF Foldable
  <1>7. f = Eq(f)
    <2>1. ASSUME NEW s \in SUBSET (1 .. n), s # {} PROVE f[s] = f[s \ {Msg!Max(s)}] \o p[Msg!Max(s)]
      <3>1. Msg!Max(s) \in 1 .. n /\ f[s \ {Msg!Max(s)}] \in V
        BY <1>1, <2>1, MaxIs
      <3> QED BY <3>1, <2>1, <1>3, <1>6
    <2>2. \A s \in SUBSET (1 .. n) : f[s] = IF s = {} THEN <<>> ELSE f[s \ {Msg!Max(s)}] \o p[Msg!Max(s)]
      BY <2>1, <1>6
    <2> QED BY <2>2, <1>1 DEF Eq
  <1>8. it = Eq(it)
    BY <1>7 DEF it
  <1>9. it[{}] = <<>> /\ \A s \in SUBSET (1 .. n) : s # {} => it[s] = it[s \ {Msg!Max(s)}] \o p[Msg!Max(s)]
    BY <1>8, <1>1 DEF Eq
  <1>10. ASSUME NEW s \in SUBSET (1 .. n), NEW v \in V, s # {}, it[s \ {Msg!Max(s)}] = v
         PROVE  it[s] = go[<<Msg!Max(s), v>>]
    <2>1. Msg!Max(s) \in 1 .. n
      BY <1>1, <1>10, MaxIs
    <2> QED BY <2>1, <1>3, <1>9, <1>10
  <1>11. Folded(V, n, <<>>, go, it[1 .. n])
    <2>1. it[{}] = <<>> /\ \A s \in SUBSET (1 .. n), v \in V :
            s # {} /\ it[s \ {Msg!Max(s)}] = v => it[s] = go[<<Msg!Max(s), v>>]
      BY <1>9, <1>10
    <2> QED BY <1>1, <1>4, <1>5, <2>1, FoldIs
  <1>12. PICK g \in [0 .. n -> V] : g[0] = <<>> /\ (\A k \in 0 .. n - 1 : g[k + 1] = go[<<k + 1, g[k]>>]) /\ it[1 .. n] = g[n]
    BY <1>11 DEF Folded
  <1>13. ASSUME NEW k \in 0 .. n - 1 PROVE g[k + 1] = g[k] \o p[k + 1]
    <2>1. k + 1 \in 1 .. n /\ g[k] \in V
      BY <1>1
    <2> QED BY <2>1, <1>3, <1>12
  <1> QED
    BY <1>1, <1>2, <1>12, <1>13 DEF Builds, V, n

LEMMA SumAdds ==
  ASSUME NEW w \in Seq(Nat) PROVE Adds(w, SumOf(w))
  <1> DEFINE n == Len(w)
             Eq(iter) == [s \in SUBSET DOMAIN w |-> IF s = {} THEN 0 ELSE iter[s \ {Msg!Max(s)}] + w[Msg!Max(s)]]
             go == [q \in (1 .. n) \X Nat |-> q[2] + w[q[1]]]
             it == CHOOSE iter : iter = Eq(iter)
  <1>1. n \in Nat /\ DOMAIN w = 1 .. n /\ \A i \in 1 .. n : w[i] \in Nat
    OBVIOUS
  <1>2. SumOf(w) = it[DOMAIN w]
    BY DEF SumOf, Msg!FoldLeft, Msg!MapThenFoldSet
  <1>3. \A i \in 1 .. n, v \in Nat : go[<<i, v>>] = v + w[i] /\ go[<<i, v>>] \in Nat
    BY <1>1
  <1>4. go \in [(1 .. n) \X Nat -> Nat]
    BY <1>3
  <1> HIDE DEF Eq, go, it, n
  <1>6. PICK f \in [SUBSET (1 .. n) -> Nat] : \A s \in SUBSET (1 .. n) :
          f[s] = IF s = {} THEN 0 ELSE go[<<Msg!Max(s), f[s \ {Msg!Max(s)}]>>]
    <2>1. Foldable(Nat, n, 0, go)
      BY <1>1, <1>4, FoldExists
    <2> QED BY <2>1 DEF Foldable
  <1>7. f = Eq(f)
    <2>1. ASSUME NEW s \in SUBSET (1 .. n), s # {} PROVE f[s] = f[s \ {Msg!Max(s)}] + w[Msg!Max(s)]
      <3>1. Msg!Max(s) \in 1 .. n /\ f[s \ {Msg!Max(s)}] \in Nat
        BY <1>1, <2>1, MaxIs
      <3> QED BY <3>1, <2>1, <1>3, <1>6
    <2>2. \A s \in SUBSET (1 .. n) : f[s] = IF s = {} THEN 0 ELSE f[s \ {Msg!Max(s)}] + w[Msg!Max(s)]
      BY <2>1, <1>6
    <2> QED BY <2>2, <1>1 DEF Eq
  <1>8. it = Eq(it)
    BY <1>7 DEF it
  <1>9. it[{}] = 0 /\ \A s \in SUBSET (1 .. n) : s # {} => it[s] = it[s \ {Msg!Max(s)}] + w[Msg!Max(s)]
    BY <1>8, <1>1 DEF Eq
  <1>10. ASSUME NEW s \in SUBSET (1 .. n), NEW v \in Nat, s # {}, it[s \ {Msg!Max(s)}] = v
         PROVE  it[s] = go[<<Msg!Max(s), v>>]
    <2>1. Msg!Max(s) \in 1 .. n
      BY <1>1, <1>10, MaxIs
    <2> QED BY <2>1, <1>3, <1>9, <1>10
  <1>11. Folded(Nat, n, 0, go, it[1 .. n])
    <2>1. it[{}] = 0 /\ \A s \in SUBSET (1 .. n), v \in Nat :
            s # {} /\ it[s \ {Msg!Max(s)}] = v => it[s] = go[<<Msg!Max(s), v>>]
      BY <1>9, <1>10
    <2>2. 0 \in Nat
      OBVIOUS
    <2> QED BY <1>1, <1>4, <2>1, <2>2, FoldIs, Zenon
  <1>12. PICK g \in [0 .. n -> Nat] : g[0] = 0 /\ (\A k \in 0 .. n - 1 : g[k + 1] = go[<<k + 1, g[k]>>]) /\ it[1 .. n] = g[n]
    BY <1>11 DEF Folded
  <1>13. ASSUME NEW k \in 0 .. n - 1 PROVE g[k + 1] = g[k] + w[k + 1]
    <2>1. k + 1 \in 1 .. n /\ g[k] \in Nat
      BY <1>1
    <2> QED BY <2>1, <1>3, <1>12
  <1> QED
    BY <1>1, <1>2, <1>12, <1>13 DEF Adds, n

-----------------------------------------------------------------------------
(* The first sums are those of the first numbers.                           *)
LEMMA PrefixSums ==
  ASSUME NEW w \in Seq(Nat), NEW m \in 0 .. Len(w),
         NEW g \in [0 .. Len(w) -> Nat], g[0] = 0, \A k \in 0 .. Len(w) - 1 : g[k + 1] = g[k] + w[k + 1]
  PROVE  SumOf(SubSeq(w, 1, m)) = g[m]
  <1> DEFINE u == SubSeq(w, 1, m)
  <1>1. u \in Seq(Nat) /\ Len(u) = m /\ \A i \in 1 .. m : u[i] = w[i]
    OBVIOUS
  <1>2. Adds(u, SumOf(u))
    BY <1>1, SumAdds
  <1> HIDE DEF u
  <1>3. PICK b \in [0 .. m -> Nat] : b[0] = 0 /\ (\A k \in 0 .. m - 1 : b[k + 1] = b[k] + u[k + 1]) /\ SumOf(u) = b[m]
    BY <1>1, <1>2 DEF Adds
  <1> DEFINE A == {k \in Nat : k <= m => b[k] = g[k]}
  <1>4. 0 \in A
    BY <1>3
  <1>5. ASSUME NEW k \in Nat, k \in A PROVE k + 1 \in A
    <2> SUFFICES ASSUME k + 1 <= m PROVE b[k + 1] = g[k + 1]
      OBVIOUS
    <2>1. k \in 0 .. m - 1 /\ k \in 0 .. Len(w) - 1 /\ k + 1 \in 1 .. m
      OBVIOUS
    <2>2. b[k] = g[k] /\ u[k + 1] = w[k + 1]
      BY <2>1, <1>5, <1>1
    <2>3. b[k + 1] = b[k] + u[k + 1] /\ g[k + 1] = g[k] + w[k + 1]
      BY <2>1, <1>3
    <2> QED BY <2>2, <2>3
  <1>6. Nat \subseteq A
    <2> HIDE DEF A
    <2> QED BY <1>4, <1>5, Induction
  <1>7. b[m] = g[m]
    BY <1>6
  <1> QED
    BY <1>3, <1>7 DEF u

(* What o does.                                                             *)
Follows(V, x, y, z) == /\ z \in Seq(V) /\ Len(z) = Len(x) + Len(y)
                       /\ \A i \in 1 .. Len(x) : z[i] = x[i]
                       /\ \A i \in 1 .. Len(y) : z[Len(x) + i] = y[i]
LEMMA CatFollows == ASSUME NEW V, NEW x \in Seq(V), NEW y \in Seq(V) PROVE Follows(V, x, y, x \o y)
  <1>1. x \o y \in Seq(V) /\ Len(x \o y) = Len(x) + Len(y)
    OBVIOUS
  <1>2. \A i \in 1 .. Len(x) : (x \o y)[i] = x[i]
    OBVIOUS
  <1>3. \A i \in 1 .. Len(y) : (x \o y)[Len(x) + i] = y[i]
    OBVIOUS
  <1> QED BY <1>1, <1>2, <1>3 DEF Follows

(* Each piece lies where the widths of those before it add up to.           *)
Places(w, p, bytes) == \E g \in [0 .. Len(w) -> Nat] :
  /\ g[0] = 0 /\ \A k \in 0 .. Len(w) - 1 : g[k + 1] = g[k] + w[k + 1]
  /\ bytes \in Seq(Nat) /\ Len(bytes) = g[Len(w)]
  /\ \A k \in 0 .. Len(w) : SumOf(SubSeq(w, 1, k)) = g[k]
  /\ \A k \in 1 .. Len(w) : \A i \in 1 .. w[k] : g[k - 1] + i \in 1 .. Len(bytes) /\ bytes[g[k - 1] + i] = p[k][i]

LEMMA CatPlaces ==
  ASSUME NEW p \in Seq(Seq(Nat)), NEW w \in Seq(Nat), Len(w) = Len(p),
         \A i \in 1 .. Len(w) : Len(p[i]) = w[i]
  PROVE  Places(w, p, CatOf(p))
  <1> DEFINE n == Len(w)
  <1>0. n \in Nat /\ n = Len(p) /\ \A i \in 1 .. n : w[i] \in Nat /\ p[i] \in Seq(Nat) /\ Len(p[i]) = w[i]
    OBVIOUS
  <1>1. Adds(w, SumOf(w)) /\ Builds(p, CatOf(p))
    BY SumAdds, CatBuilds
  <1>2. PICK g \in [0 .. n -> Nat] : g[0] = 0 /\ \A k \in 0 .. n - 1 : g[k + 1] = g[k] + w[k + 1]
    BY <1>1 DEF Adds
  <1>3. PICK b \in [0 .. n -> Seq(Nat)] :
          b[0] = <<>> /\ (\A k \in 0 .. n - 1 : b[k + 1] = b[k] \o p[k + 1]) /\ CatOf(p) = b[n]
    BY <1>1, <1>0 DEF Builds
  <1>4. \A k \in 0 .. n : SumOf(SubSeq(w, 1, k)) = g[k]
    BY <1>2, PrefixSums
  <1> HIDE DEF n
  <1> DEFINE Fine(m) == /\ Len(b[m]) = g[m]
                        /\ \A k \in 1 .. m : \A i \in 1 .. w[k] :
                             g[k - 1] + i \in 1 .. g[m] /\ b[m][g[k - 1] + i] = p[k][i]
             A == {m \in Nat : m <= n => Fine(m)}
  <1>5. 0 \in A
    BY <1>2, <1>3
  <1>6. ASSUME NEW m \in Nat, m \in A PROVE m + 1 \in A
    <2> SUFFICES ASSUME m + 1 <= n PROVE Fine(m + 1)
      OBVIOUS
    <2>0. m <= n /\ n \in Nat
      BY <1>0
    <2>1. m \in 0 .. n - 1 /\ m + 1 \in 1 .. n /\ m \in 0 .. n /\ m + 1 \in 0 .. n /\ Fine(m)
      <3> HIDE DEF Fine
      <3> QED BY <2>0, <1>6
    <2>2. b[m] \in Seq(Nat) /\ p[m + 1] \in Seq(Nat) /\ Len(p[m + 1]) = w[m + 1] /\ w[m + 1] \in Nat /\ g[m] \in Nat
      BY <2>1, <1>0
    <2>3. b[m + 1] = b[m] \o p[m + 1] /\ g[m + 1] = g[m] + w[m + 1]
      BY <2>1, <1>2, <1>3
    <2>3a. Follows(Nat, b[m], p[m + 1], b[m + 1])
      BY <2>2, <2>3, CatFollows
    <2>3b. Len(b[m]) = g[m] /\ \A k \in 1 .. m : \A i \in 1 .. w[k] :
            g[k - 1] + i \in 1 .. g[m] /\ b[m][g[k - 1] + i] = p[k][i]
      BY <2>1
    <2> HIDE DEF Fine, A
    <2>4. Len(b[m + 1]) = g[m + 1]
      BY <2>2, <2>3, <2>3a, <2>3b DEF Follows
    <2>5. ASSUME NEW k \in 1 .. m + 1, NEW i \in 1 .. w[k]
          PROVE  g[k - 1] + i \in 1 .. g[m + 1] /\ b[m + 1][g[k - 1] + i] = p[k][i]
      <3>1. CASE k = m + 1
        <4>1. k - 1 = m /\ i \in 1 .. w[m + 1] /\ i \in Nat
          BY <3>1, <2>2
        <4>2. b[m + 1][g[m] + i] = p[m + 1][i]
          BY <4>1, <2>2, <2>3a, <2>3b DEF Follows
        <4>3. g[m] + i \in 1 .. g[m] + w[m + 1]
          <5>1. \A x, y \in Nat : \A z \in 1 .. y : x + z \in 1 .. x + y
            OBVIOUS
          <5> QED BY <5>1, <4>1, <2>2
        <4> QED BY <4>1, <4>2, <4>3, <3>1, <2>3
      <3>2. CASE k # m + 1
        <4>1. k \in 1 .. m
          BY <3>2
        <4>2. g[k - 1] + i \in 1 .. g[m] /\ b[m][g[k - 1] + i] = p[k][i]
          BY <4>1, <2>3b
        <4>4. b[m + 1][g[k - 1] + i] = b[m][g[k - 1] + i]
          BY <4>2, <2>3a, <2>3b DEF Follows
        <4>5. g[k - 1] + i \in 1 .. g[m + 1]
          <5>1. \A j \in 1 .. g[m] : j \in 1 .. g[m] + w[m + 1]
            BY <2>2
          <5> QED BY <5>1, <4>2, <2>3
        <4> QED BY <4>2, <4>4, <4>5
      <3> QED BY <3>1, <3>2
    <2> QED BY <2>4, <2>5 DEF Fine
  <1>7. Fine(n)
    <2>1. Nat \subseteq A
      <3> HIDE DEF A
      <3> QED BY <1>5, <1>6, Induction
    <2>2. n \in A /\ n <= n
      <3> HIDE DEF A
      <3> QED BY <2>1, <1>0
    <2> HIDE DEF Fine
    <2> QED BY <2>2
  <1>8. CatOf(p) \in Seq(Nat) /\ Len(CatOf(p)) = g[n]
    BY <1>0, <1>3, <1>7
  <1> QED
    BY <1>2, <1>3, <1>4, <1>7, <1>8 DEF Places, n

-----------------------------------------------------------------------------
(* The fields of the messages that are proved about.                        *)
FieldNames ==
  {"msg_len", "MessageType", "GatewayClientID", "Password", "UserID",
   "UserTag", "OrderInstrumentID", "OrderType", "OrderTimeInForce",
   "OrderSide", "OrderExecutionType", "OrderQuantity",
   "OrderDisclosedQuantity", "OrderPrice", "MarketPriceProtectionTicks",
   "OrderTriggerPrice", "TriggerOn", "ExchangeOrderID", "ExchangeEventID",
   "StatusID", "TimeStamp", "OrderQuantityRemaining", "InstrumentID",
   "Leverage", "cancel_gtc"}
(* A layout names each field once.                                          *)
Layouts == {l \in Seq(FieldNames \X Nat) : \A i, j \in DOMAIN l : l[i][1] = l[j][1] => i = j}
Widths_(layout) == [i \in DOMAIN layout |-> layout[i][2]]

LEMMA SizeIsSum ==
  ASSUME NEW n \in Nat, NEW layout, DOMAIN layout = 1 .. n
  PROVE  Msg!SizeOf(layout) = SumOf(Widths_(layout))
  <1> DEFINE w == Widths_(layout)
             E1(iter) == [s \in SUBSET DOMAIN layout |->
                            IF s = {} THEN 0 ELSE iter[s \ {Msg!Max(s)}] + layout[Msg!Max(s)][2]]
             E2(iter) == [s \in SUBSET DOMAIN w |->
                            IF s = {} THEN 0 ELSE iter[s \ {Msg!Max(s)}] + w[Msg!Max(s)]]
  <1>1. DOMAIN w = DOMAIN layout /\ \A i \in DOMAIN layout : w[i] = layout[i][2]
    BY DEF Widths_
  <1>2. ASSUME NEW iter PROVE E1(iter) = E2(iter)
    <2>1. ASSUME NEW s \in SUBSET DOMAIN layout, s # {} PROVE Msg!Max(s) \in DOMAIN layout
      <3>1. s \in SUBSET (1 .. n)
        OBVIOUS
      <3> QED BY <2>1, <3>1, MaxIs
    <2> QED BY <2>1, <1>1
  <1>3. Msg!SizeOf(layout) = (CHOOSE iter : iter = E1(iter))[DOMAIN layout]
    BY DEF Msg!SizeOf, Msg!FoldLeft, Msg!MapThenFoldSet
  <1>4. SumOf(w) = (CHOOSE iter : iter = E2(iter))[DOMAIN w]
    BY DEF SumOf, Msg!FoldLeft, Msg!MapThenFoldSet
  <1> HIDE DEF E1, E2, w
  <1>5. (CHOOSE iter : iter = E1(iter)) = (CHOOSE iter : iter = E2(iter))
    BY <1>2
  <1> QED
    BY <1>1, <1>3, <1>4, <1>5 DEF w

(* The fields f put together are the pieces of them.                        *)
Pieces(layout, f) == [i \in DOMAIN layout |-> Msg!Bytes(f[layout[i][1]], layout[i][2])]
LEMMA EncodeIsCat ==
  ASSUME NEW n \in Nat, NEW layout, DOMAIN layout = 1 .. n, NEW f
  PROVE  Msg!Encode(layout, f) = CatOf(Pieces(layout, f))
  <1> DEFINE p == Pieces(layout, f)
             E1(iter) == [s \in SUBSET DOMAIN layout |->
                            IF s = {} THEN <<>>
                            ELSE iter[s \ {Msg!Max(s)}]
                                 \o Msg!Bytes(f[layout[Msg!Max(s)][1]], layout[Msg!Max(s)][2])]
             E2(iter) == [s \in SUBSET DOMAIN p |->
                            IF s = {} THEN <<>> ELSE iter[s \ {Msg!Max(s)}] \o p[Msg!Max(s)]]
  <1>1. DOMAIN p = DOMAIN layout /\ \A i \in DOMAIN layout : p[i] = Msg!Bytes(f[layout[i][1]], layout[i][2])
    BY DEF Pieces
  <1>2. ASSUME NEW iter PROVE E1(iter) = E2(iter)
    <2>1. ASSUME NEW s \in SUBSET DOMAIN layout, s # {} PROVE Msg!Max(s) \in DOMAIN layout
      <3>1. s \in SUBSET (1 .. n)
        OBVIOUS
      <3> QED BY <2>1, <3>1, MaxIs
    <2> QED BY <2>1, <1>1
  <1>3. Msg!Encode(layout, f) = (CHOOSE iter : iter = E1(iter))[DOMAIN layout]
    BY DEF Msg!Encode, Msg!FoldLeft, Msg!MapThenFoldSet
  <1>4. CatOf(p) = (CHOOSE iter : iter = E2(iter))[DOMAIN p]
    BY DEF CatOf, Msg!FoldLeft, Msg!MapThenFoldSet
  <1> HIDE DEF E1, E2, p
  <1>5. (CHOOSE iter : iter = E1(iter)) = (CHOOSE iter : iter = E2(iter))
    BY <1>2
  <1> QED
    BY <1>1, <1>3, <1>4, <1>5 DEF p

(* A part of a sequence that is element for element another sequence.       *)
LEMMA PieceIs ==
  ASSUME NEW b \in Seq(Nat), NEW off \in Nat, NEW m \in Nat, NEW x \in Seq(Nat), Len(x) = m,
         \A i \in 1 .. m : off + i \in 1 .. Len(b) /\ b[off + i] = x[i]
  PROVE  SubSeq(b, off + 1, off + m) = x
  <1> DEFINE y == SubSeq(b, off + 1, off + m)
  <1>1. y \in Seq(Nat) /\ Len(y) = m /\ \A i \in 1 .. m : y[i] = b[off + i]
    <2>1. CASE m = 0
      BY <2>1
    <2>2. CASE m > 0
      <3>1. off + 1 \in 1 .. Len(b) /\ off + m \in 1 .. Len(b)
        BY <2>2
      <3> QED BY <3>1, SubSeqProperties
    <2> QED BY <2>1, <2>2
  <1> HIDE DEF y
  <1>2. \A i \in 1 .. m : y[i] = x[i]
    BY <1>1
  <1>3. y = x
    BY <1>1, <1>2, SeqEqual
  <1> QED BY <1>3 DEF y

(* A message that holds the pieces p in the fields of its layout.           *)
Carries(bytes, layout, p) ==
  /\ bytes \in Seq(Nat) /\ Len(bytes) = Msg!SizeOf(layout)
  /\ \A k \in DOMAIN layout : Msg!Read(bytes, layout, layout[k][1]) = p[k]
  /\ Len(layout) >= 1 => \A i \in 1 .. layout[1][2] : bytes[i] = p[1][i]
  /\ Len(layout) >= 2 => \A i \in 1 .. layout[2][2] : bytes[layout[1][2] + i] = p[2][i]

LEMMA CatCarries ==
  ASSUME NEW layout \in Layouts, NEW p \in Seq(Seq(Nat)), Len(p) = Len(layout),
         \A i \in 1 .. Len(p) : Len(p[i]) = layout[i][2]
  PROVE  Carries(CatOf(p), layout, p)
  <1> DEFINE w == Widths_(layout)
             n == Len(w)
             bytes == CatOf(p)
  <1>1. /\ w \in Seq(Nat) /\ n \in Nat /\ n = Len(layout) /\ DOMAIN layout = 1 .. n /\ n = Len(p)
        /\ \A i \in 1 .. n : w[i] = layout[i][2] /\ w[i] \in Nat /\ Len(p[i]) = w[i] /\ p[i] \in Seq(Nat)
    <2>1. layout \in Seq(FieldNames \X Nat) /\ DOMAIN layout = 1 .. Len(layout) /\ Len(layout) \in Nat
      BY DEF Layouts
    <2>2. ASSUME NEW i \in 1 .. Len(layout) PROVE layout[i][2] \in Nat
      <3>1. layout[i] \in FieldNames \X Nat
        BY <2>1
      <3> QED BY <3>1
    <2>3. DOMAIN w = 1 .. Len(layout) /\ \A i \in 1 .. Len(layout) : w[i] = layout[i][2]
      BY <2>1 DEF Widths_
    <2>4. w \in [1 .. Len(layout) -> Nat]
      BY <2>1, <2>2 DEF Widths_
    <2>5. w \in Seq(Nat) /\ Len(w) = Len(layout)
      <3>1. \A k \in Nat : \A u \in [1 .. k -> Nat] : u \in Seq(Nat) /\ Len(u) = k
        OBVIOUS
      <3> HIDE DEF w
      <3> QED BY <3>1, <2>1, <2>4, Zenon
    <2> HIDE DEF w
    <2> QED BY <2>1, <2>2, <2>3, <2>5
  <1>2. Places(w, p, bytes)
    BY <1>1, CatPlaces
  <1> HIDE DEF w, bytes
  <1>3. PICK g \in [0 .. n -> Nat] :
          /\ g[0] = 0 /\ \A k \in 0 .. n - 1 : g[k + 1] = g[k] + w[k + 1]
          /\ bytes \in Seq(Nat) /\ Len(bytes) = g[n]
          /\ \A k \in 0 .. n : SumOf(SubSeq(w, 1, k)) = g[k]
          /\ \A k \in 1 .. n : \A i \in 1 .. w[k] : g[k - 1] + i \in 1 .. Len(bytes) /\ bytes[g[k - 1] + i] = p[k][i]
    BY <1>2 DEF Places
  <1>4. Len(bytes) = Msg!SizeOf(layout)
    <2>1. Msg!SizeOf(layout) = SumOf(w)
      BY <1>1, SizeIsSum DEF w
    <2>2. SubSeq(w, 1, n) = w
      BY <1>1
    <2>3. SumOf(SubSeq(w, 1, n)) = g[n]
      BY <1>1, <1>3
    <2> QED BY <1>3, <2>1, <2>2, <2>3
  <1>5. ASSUME NEW k \in 1 .. n PROVE Msg!Read(bytes, layout, layout[k][1]) = p[k]
    <2>1. Msg!Index(layout, layout[k][1]) = k
      <3>1. \A i \in DOMAIN layout : layout[i][1] = layout[k][1] => i = k
        BY <1>1 DEF Layouts
      <3>2. \E i \in DOMAIN layout : layout[i][1] = layout[k][1]
        BY <1>1
      <3> QED BY <3>1, <3>2 DEF Msg!Index
    <2>2. Msg!WidthOf(layout, layout[k][1]) = w[k]
      BY <2>1, <1>1 DEF Msg!WidthOf
    <2>3. Msg!Offset(layout, layout[k][1]) = g[k - 1]
      <3> DEFINE u == SubSeq(layout, 1, k - 1)
      <3>1. k - 1 \in Nat /\ DOMAIN u = 1 .. k - 1 /\ \A i \in 1 .. k - 1 : u[i] = layout[i]
        BY <1>1
      <3>2. Widths_(u) = SubSeq(w, 1, k - 1)
        BY <3>1, <1>1 DEF Widths_
      <3>3. Msg!SizeOf(u) = SumOf(Widths_(u))
        <4> HIDE DEF u
        <4> QED BY <3>1, SizeIsSum
      <3>4. k - 1 \in 0 .. n
        BY <1>1
      <3> QED BY <2>1, <3>2, <3>3, <3>4, <1>3 DEF Msg!Offset
    <2>4. Msg!Read(bytes, layout, layout[k][1]) = SubSeq(bytes, g[k - 1] + 1, g[k - 1] + w[k])
      BY <2>2, <2>3 DEF Msg!Read
    <2>5. /\ g[k - 1] \in Nat /\ w[k] \in Nat /\ p[k] \in Seq(Nat) /\ Len(p[k]) = w[k]
          /\ \A i \in 1 .. w[k] : g[k - 1] + i \in 1 .. Len(bytes) /\ bytes[g[k - 1] + i] = p[k][i]
      <3>1. k - 1 \in 0 .. n
        BY <1>1
      <3>2. g[k - 1] \in Nat
        BY <3>1
      <3> QED BY <3>2, <1>1, <1>3
    <2> QED BY <2>4, <2>5, PieceIs, <1>3
  <1>6. n >= 1 => \A i \in 1 .. layout[1][2] : bytes[i] = p[1][i]
    <2> SUFFICES ASSUME n >= 1, NEW i \in 1 .. w[1] PROVE bytes[i] = p[1][i]
      BY <1>1
    <2>1. 1 \in 1 .. n /\ i \in Nat
      BY <1>1
    <2>2. \A y \in 1 .. w[1] : bytes[g[1 - 1] + y] = p[1][y]
      BY <2>1, <1>3
    <2>3. 1 - 1 = 0 /\ g[0] = 0
      BY <1>3
    <2> QED BY <2>1, <2>2, <2>3
  <1>7. n >= 2 => \A i \in 1 .. layout[2][2] : bytes[layout[1][2] + i] = p[2][i]
    <2>0. n >= 2 => layout[2][2] = w[2] /\ layout[1][2] = w[1]
      <3>1. n >= 2 => 1 \in 1 .. n /\ 2 \in 1 .. n
        BY <1>1
      <3> QED BY <3>1, <1>1
    <2> SUFFICES ASSUME n >= 2, NEW i \in 1 .. w[2] PROVE bytes[w[1] + i] = p[2][i]
      BY <2>0
    <2>1. 2 \in 1 .. n /\ 1 \in 1 .. n /\ 0 \in 0 .. n - 1
      BY <1>1
    <2>2. bytes[g[2 - 1] + i] = p[2][i] /\ g[0 + 1] = g[0] + w[0 + 1] /\ g[0] = 0 /\ w[1] \in Nat
      BY <2>1, <1>1, <1>3
    <2>3. 2 - 1 = 1 /\ 0 + 1 = 1 /\ 0 + w[1] = w[1]
      BY <2>2
    <2> QED BY <2>2, <2>3
  <1> QED
    BY <1>1, <1>3, <1>4, <1>5, <1>6, <1>7 DEF Carries, bytes

-----------------------------------------------------------------------------
(* A row of fields of one width.                                            *)
LEMMA RowsAre ==
  ASSUME NEW names \in Seq(FieldNames)
  PROVE  /\ Msg!Longs(names) \in Seq(FieldNames \X Nat)
         /\ Msg!Shorts(names) \in Seq(FieldNames \X Nat)
         /\ Msg!Chars(names) \in Seq(FieldNames \X Nat)
  <1>1. DOMAIN names = 1 .. Len(names) /\ Len(names) \in Nat /\ \A i \in 1 .. Len(names) : names[i] \in FieldNames
    OBVIOUS
  <1>2. ASSUME NEW w \in Nat PROVE [i \in DOMAIN names |-> <<names[i], w>>] \in Seq(FieldNames \X Nat)
    <2>1. \A i \in 1 .. Len(names) : <<names[i], w>> \in FieldNames \X Nat
      BY <1>1
    <2> QED BY <1>1, <2>1, IsASeq
  <1> QED
    BY <1>2 DEF Msg!Longs, Msg!Shorts, Msg!Chars

(* The layouts are sequences of fields with their widths.                   *)
LEMMA LayoutsAreRows ==
  LET Rows == Seq(FieldNames \X Nat)
  IN  /\ Msg!FRAME_HDR \in Rows
      /\ Msg!HEARTBEAT \in Rows
      /\ Msg!GATEWAY_CLIENT_LOGON_REQUEST \in Rows
      /\ Msg!GATEWAY_CLIENT_LOGOFF_REQUEST \in Rows
      /\ Msg!NEW_ORDER_REQUEST \in Rows
      /\ Msg!NEW_ORDER_RESPONSE \in Rows
      /\ Msg!MODIFY_ORDER_REQUEST \in Rows
      /\ Msg!MODIFY_LEVERAGE_REQUEST \in Rows
      /\ Msg!CANCEL_ORDER_REQUEST \in Rows
      /\ Msg!CANCEL_ALL_ORDERS_REQUEST \in Rows
      /\ Msg!WORKING_ORDERS_REQUEST \in Rows
      /\ Msg!FILL_REQUEST \in Rows
  <1> DEFINE Rows == Seq(FieldNames \X Nat)
  <1>1. /\ <<"MessageType">> \in Seq(FieldNames)
        /\ <<"UserID">> \in Seq(FieldNames)
        /\ <<"UserTag">> \in Seq(FieldNames)
        /\ <<"StatusID", "TimeStamp">> \in Seq(FieldNames)
        /\ <<"ExchangeEventID">> \in Seq(FieldNames)
        /\ <<"OrderQuantity", "OrderDisclosedQuantity", "OrderPrice">> \in Seq(FieldNames)
        /\ <<"MarketPriceProtectionTicks">> \in Seq(FieldNames)
        /\ <<"OrderTriggerPrice">> \in Seq(FieldNames)
        /\ <<"TriggerOn">> \in Seq(FieldNames)
        /\ <<"msg_len">> \in Seq(FieldNames)
        /\ <<"GatewayClientID">> \in Seq(FieldNames)
        /\ <<"OrderInstrumentID">> \in Seq(FieldNames)
        /\ <<"OrderType", "OrderTimeInForce", "OrderSide", "OrderExecutionType">> \in Seq(FieldNames)
        /\ <<"ExchangeOrderID">> \in Seq(FieldNames)
        /\ <<"ExchangeOrderID", "OrderQuantityRemaining">> \in Seq(FieldNames)
        /\ <<"OrderType", "OrderTimeInForce", "OrderExecutionType">> \in Seq(FieldNames)
        /\ <<"InstrumentID", "Leverage">> \in Seq(FieldNames)
        /\ <<"cancel_gtc">> \in Seq(FieldNames)
    BY DEF FieldNames
  <1>2. /\ Msg!Shorts(<<"MessageType">>) \in Rows
        /\ Msg!Longs(<<"UserID">>) \in Rows
        /\ Msg!Longs(<<"UserTag">>) \in Rows
        /\ Msg!Longs(<<"StatusID", "TimeStamp">>) \in Rows
        /\ Msg!Longs(<<"ExchangeEventID">>) \in Rows
        /\ Msg!Longs(<<"OrderQuantity", "OrderDisclosedQuantity", "OrderPrice">>) \in Rows
        /\ Msg!Shorts(<<"MarketPriceProtectionTicks">>) \in Rows
        /\ Msg!Longs(<<"OrderTriggerPrice">>) \in Rows
        /\ Msg!Chars(<<"TriggerOn">>) \in Rows
        /\ Msg!Shorts(<<"msg_len">>) \in Rows
        /\ Msg!Longs(<<"GatewayClientID">>) \in Rows
        /\ Msg!Longs(<<"OrderInstrumentID">>) \in Rows
        /\ Msg!Chars(<<"OrderType", "OrderTimeInForce", "OrderSide", "OrderExecutionType">>) \in Rows
        /\ Msg!Longs(<<"ExchangeOrderID">>) \in Rows
        /\ Msg!Longs(<<"ExchangeOrderID", "OrderQuantityRemaining">>) \in Rows
        /\ Msg!Chars(<<"OrderType", "OrderTimeInForce", "OrderExecutionType">>) \in Rows
        /\ Msg!Longs(<<"InstrumentID", "Leverage">>) \in Rows
        /\ Msg!Chars(<<"cancel_gtc">>) \in Rows
    BY <1>1, RowsAre
  <1>3. /\ Msg!FRAME_HDR \in Rows /\ Msg!Kind \in Rows /\ Msg!User \in Rows /\ Msg!Request \in Rows
        /\ Msg!Event \in Rows /\ Msg!Prices \in Rows
    BY <1>2 DEF Msg!FRAME_HDR, Msg!Kind, Msg!User, Msg!Request, Msg!Outcome, Msg!Event, Msg!Prices
  <1>4. << <<"Password", 16>> >> \in Rows
    BY DEF FieldNames
  <1> HIDE DEF Rows
  <1>5. /\ Msg!HEARTBEAT \in Rows
        /\ Msg!GATEWAY_CLIENT_LOGON_REQUEST \in Rows
        /\ Msg!GATEWAY_CLIENT_LOGOFF_REQUEST \in Rows
        /\ Msg!NEW_ORDER_REQUEST \in Rows
        /\ Msg!NEW_ORDER_RESPONSE \in Rows
        /\ Msg!MODIFY_ORDER_REQUEST \in Rows
        /\ Msg!MODIFY_LEVERAGE_REQUEST \in Rows
        /\ Msg!CANCEL_ORDER_REQUEST \in Rows
        /\ Msg!CANCEL_ALL_ORDERS_REQUEST \in Rows
        /\ Msg!WORKING_ORDERS_REQUEST \in Rows
        /\ Msg!FILL_REQUEST \in Rows
    <2> USE DEF Rows
    <2> QED
      BY <1>2, <1>3, <1>4 DEF Msg!HEARTBEAT, Msg!GATEWAY_CLIENT_LOGON_REQUEST,
         Msg!GATEWAY_CLIENT_LOGOFF_REQUEST, Msg!NEW_ORDER_REQUEST, Msg!NEW_ORDER_RESPONSE,
         Msg!MODIFY_ORDER_REQUEST, Msg!MODIFY_LEVERAGE_REQUEST, Msg!CANCEL_ORDER_REQUEST,
         Msg!CANCEL_ALL_ORDERS_REQUEST, Msg!WORKING_ORDERS_REQUEST, Msg!FILL_REQUEST
  <1> QED
    BY <1>3, <1>5 DEF Rows

(* The size of a message is that of its fields.                             *)
Sized(l) == \E g \in [0 .. Len(l) -> Nat] :
  g[0] = 0 /\ (\A k \in 1 .. Len(l) : g[k] = g[k - 1] + l[k][2]) /\ Msg!SizeOf(l) = g[Len(l)]
LEMMA SizeGoes == ASSUME NEW l \in Layouts PROVE Sized(l)
  <1> DEFINE w == Widths_(l)
             n == Len(l)
  <1>1. n \in Nat /\ DOMAIN l = 1 .. n /\ w \in Seq(Nat) /\ Len(w) = n /\ \A i \in 1 .. n : w[i] = l[i][2]
    BY DEF Layouts, Widths_
  <1>2. Msg!SizeOf(l) = SumOf(w)
    BY <1>1, SizeIsSum
  <1>3. Adds(w, SumOf(w))
    BY <1>1, SumAdds
  <1> HIDE DEF w, n
  <1>4. PICK g \in [0 .. n -> Nat] : g[0] = 0 /\ (\A k \in 0 .. n - 1 : g[k + 1] = g[k] + w[k + 1]) /\ SumOf(w) = g[n]
    BY <1>1, <1>3 DEF Adds
  <1>5. ASSUME NEW k \in 1 .. n PROVE g[k] = g[k - 1] + l[k][2]
    <2>1. k - 1 \in 0 .. n - 1 /\ (k - 1) + 1 = k
      BY <1>1
    <2>2. g[(k - 1) + 1] = g[k - 1] + w[(k - 1) + 1]
      BY <2>1, <1>4
    <2> QED BY <2>1, <2>2, <1>1
  <1> QED
    BY <1>1, <1>2, <1>4, <1>5 DEF Sized, n

(* A message whose n fields begin with its type and add up to size.         *)
Formed(l, n, size) ==
  /\ l \in Layouts /\ Len(l) = n /\ l[1] = <<"MessageType", 2>>
  /\ Msg!SizeOf(l) = size /\ \A i \in 1 .. n : l[i][1] # "msg_len"

LEMMA HeartbeatFields ==
  LET l == Msg!HEARTBEAT
  IN  /\ Len(l) = 1 /\ l[1] = <<"MessageType", 2>>
  BY DEF Msg!HEARTBEAT, Msg!Kind, Msg!Shorts
LEMMA HeartbeatFormed == Formed(Msg!HEARTBEAT, 1, 2)
  <1> DEFINE l == Msg!HEARTBEAT
  <1>1. /\ Len(l) = 1 /\ l[1] = <<"MessageType", 2>>
    BY HeartbeatFields
  <1>2. l \in Seq(FieldNames \X Nat)
    BY LayoutsAreRows
  <1> HIDE DEF l
  <1>3. DOMAIN l = 1 .. 1
    BY <1>1, <1>2
  <1>4. ASSUME NEW i \in 1 .. 1 PROVE l[i][1] # "msg_len" /\ \A j \in 1 .. 1 : l[i][1] = l[j][1] => i = j
    BY <1>1
  <1>5. l \in Layouts
    BY <1>2, <1>3, <1>4 DEF Layouts
  <1>6. PICK g \in [0 .. 1 -> Nat] : g[0] = 0 /\ (\A i \in 1 .. 1 : g[i] = g[i - 1] + l[i][2]) /\ Msg!SizeOf(l) = g[1]
    BY <1>1, <1>5, SizeGoes DEF Sized
  <1>7. g[1] = 2
    BY <1>1, <1>6
  <1> QED
    BY <1>1, <1>4, <1>5, <1>6, <1>7 DEF Formed, l

LEMMA GatewayClientLogonRequestFields ==
  LET l == Msg!GATEWAY_CLIENT_LOGON_REQUEST
  IN  /\ Len(l) = 3 /\ l[1] = <<"MessageType", 2>> /\ l[2] = <<"GatewayClientID", 8>>
      /\ l[3] = <<"Password", 16>>
  BY DEF Msg!GATEWAY_CLIENT_LOGON_REQUEST, Msg!Kind, Msg!Longs, Msg!Shorts
LEMMA GatewayClientLogonRequestFormed == Formed(Msg!GATEWAY_CLIENT_LOGON_REQUEST, 3, 26)
  <1> DEFINE l == Msg!GATEWAY_CLIENT_LOGON_REQUEST
  <1>1. /\ Len(l) = 3 /\ l[1] = <<"MessageType", 2>> /\ l[2] = <<"GatewayClientID", 8>>
        /\ l[3] = <<"Password", 16>>
    BY GatewayClientLogonRequestFields
  <1>2. l \in Seq(FieldNames \X Nat)
    BY LayoutsAreRows
  <1> HIDE DEF l
  <1>3. DOMAIN l = 1 .. 3
    BY <1>1, <1>2
  <1>4. ASSUME NEW i \in 1 .. 3 PROVE l[i][1] # "msg_len" /\ \A j \in 1 .. 3 : l[i][1] = l[j][1] => i = j
    BY <1>1
  <1>5. l \in Layouts
    BY <1>2, <1>3, <1>4 DEF Layouts
  <1>6. PICK g \in [0 .. 3 -> Nat] : g[0] = 0 /\ (\A i \in 1 .. 3 : g[i] = g[i - 1] + l[i][2]) /\ Msg!SizeOf(l) = g[3]
    BY <1>1, <1>5, SizeGoes DEF Sized
  <1>7. /\ g[1] = 2
        /\ g[2] = 10 /\ g[3] = 26
    BY <1>1, <1>6
  <1> QED
    BY <1>1, <1>4, <1>5, <1>6, <1>7 DEF Formed, l

LEMMA GatewayClientLogoffRequestFields ==
  LET l == Msg!GATEWAY_CLIENT_LOGOFF_REQUEST
  IN  /\ Len(l) = 1 /\ l[1] = <<"MessageType", 2>>
  BY DEF Msg!GATEWAY_CLIENT_LOGOFF_REQUEST, Msg!Kind, Msg!Shorts
LEMMA GatewayClientLogoffRequestFormed == Formed(Msg!GATEWAY_CLIENT_LOGOFF_REQUEST, 1, 2)
  <1> DEFINE l == Msg!GATEWAY_CLIENT_LOGOFF_REQUEST
  <1>1. /\ Len(l) = 1 /\ l[1] = <<"MessageType", 2>>
    BY GatewayClientLogoffRequestFields
  <1>2. l \in Seq(FieldNames \X Nat)
    BY LayoutsAreRows
  <1> HIDE DEF l
  <1>3. DOMAIN l = 1 .. 1
    BY <1>1, <1>2
  <1>4. ASSUME NEW i \in 1 .. 1 PROVE l[i][1] # "msg_len" /\ \A j \in 1 .. 1 : l[i][1] = l[j][1] => i = j
    BY <1>1
  <1>5. l \in Layouts
    BY <1>2, <1>3, <1>4 DEF Layouts
  <1>6. PICK g \in [0 .. 1 -> Nat] : g[0] = 0 /\ (\A i \in 1 .. 1 : g[i] = g[i - 1] + l[i][2]) /\ Msg!SizeOf(l) = g[1]
    BY <1>1, <1>5, SizeGoes DEF Sized
  <1>7. g[1] = 2
    BY <1>1, <1>6
  <1> QED
    BY <1>1, <1>4, <1>5, <1>6, <1>7 DEF Formed, l

LEMMA NewOrderRequestFields ==
  LET l == Msg!NEW_ORDER_REQUEST
  IN  /\ Len(l) = 14 /\ l[1] = <<"MessageType", 2>> /\ l[2] = <<"UserID", 8>>
      /\ l[3] = <<"UserTag", 8>> /\ l[4] = <<"OrderInstrumentID", 8>> /\ l[5] = <<"OrderType", 1>>
      /\ l[6] = <<"OrderTimeInForce", 1>> /\ l[7] = <<"OrderSide", 1>>
      /\ l[8] = <<"OrderExecutionType", 1>> /\ l[9] = <<"OrderQuantity", 8>>
      /\ l[10] = <<"OrderDisclosedQuantity", 8>> /\ l[11] = <<"OrderPrice", 8>>
      /\ l[12] = <<"MarketPriceProtectionTicks", 2>> /\ l[13] = <<"OrderTriggerPrice", 8>>
      /\ l[14] = <<"TriggerOn", 1>>
  BY DEF Msg!NEW_ORDER_REQUEST, Msg!Chars, Msg!Kind, Msg!Longs, Msg!Prices, Msg!Request, Msg!Shorts, Msg!User
LEMMA NewOrderRequestFormed == Formed(Msg!NEW_ORDER_REQUEST, 14, 65)
  <1> DEFINE l == Msg!NEW_ORDER_REQUEST
  <1>1. /\ Len(l) = 14 /\ l[1] = <<"MessageType", 2>> /\ l[2] = <<"UserID", 8>>
        /\ l[3] = <<"UserTag", 8>> /\ l[4] = <<"OrderInstrumentID", 8>> /\ l[5] = <<"OrderType", 1>>
        /\ l[6] = <<"OrderTimeInForce", 1>> /\ l[7] = <<"OrderSide", 1>>
        /\ l[8] = <<"OrderExecutionType", 1>> /\ l[9] = <<"OrderQuantity", 8>>
        /\ l[10] = <<"OrderDisclosedQuantity", 8>> /\ l[11] = <<"OrderPrice", 8>>
        /\ l[12] = <<"MarketPriceProtectionTicks", 2>> /\ l[13] = <<"OrderTriggerPrice", 8>>
        /\ l[14] = <<"TriggerOn", 1>>
    BY NewOrderRequestFields
  <1>2. l \in Seq(FieldNames \X Nat)
    BY LayoutsAreRows
  <1> HIDE DEF l
  <1>3. DOMAIN l = 1 .. 14
    BY <1>1, <1>2
  <1>4. ASSUME NEW i \in 1 .. 14 PROVE l[i][1] # "msg_len" /\ \A j \in 1 .. 14 : l[i][1] = l[j][1] => i = j
    BY <1>1
  <1>5. l \in Layouts
    BY <1>2, <1>3, <1>4 DEF Layouts
  <1>6. PICK g \in [0 .. 14 -> Nat] : g[0] = 0 /\ (\A i \in 1 .. 14 : g[i] = g[i - 1] + l[i][2]) /\ Msg!SizeOf(l) = g[14]
    BY <1>1, <1>5, SizeGoes DEF Sized
  <1>7. /\ g[1] = 2 /\ g[2] = 10 /\ g[3] = 18 /\ g[4] = 26 /\ g[5] = 27 /\ g[6] = 28 /\ g[7] = 29
        /\ g[8] = 30 /\ g[9] = 38 /\ g[10] = 46 /\ g[11] = 54 /\ g[12] = 56 /\ g[13] = 64 /\ g[14] = 65
    BY <1>1, <1>6
  <1> QED
    BY <1>1, <1>4, <1>5, <1>6, <1>7 DEF Formed, l

LEMMA NewOrderResponseFields ==
  LET l == Msg!NEW_ORDER_RESPONSE
  IN  /\ Len(l) = 7 /\ l[1] = <<"MessageType", 2>> /\ l[2] = <<"UserID", 8>>
      /\ l[3] = <<"UserTag", 8>> /\ l[4] = <<"ExchangeOrderID", 8>>
      /\ l[5] = <<"ExchangeEventID", 8>> /\ l[6] = <<"StatusID", 8>> /\ l[7] = <<"TimeStamp", 8>>
  BY DEF Msg!NEW_ORDER_RESPONSE, Msg!Event, Msg!Kind, Msg!Longs, Msg!Outcome, Msg!Request,
     Msg!Shorts, Msg!User
LEMMA NewOrderResponseFormed == Formed(Msg!NEW_ORDER_RESPONSE, 7, 50)
  <1> DEFINE l == Msg!NEW_ORDER_RESPONSE
  <1>1. /\ Len(l) = 7 /\ l[1] = <<"MessageType", 2>> /\ l[2] = <<"UserID", 8>>
        /\ l[3] = <<"UserTag", 8>> /\ l[4] = <<"ExchangeOrderID", 8>>
        /\ l[5] = <<"ExchangeEventID", 8>> /\ l[6] = <<"StatusID", 8>> /\ l[7] = <<"TimeStamp", 8>>
    BY NewOrderResponseFields
  <1>2. l \in Seq(FieldNames \X Nat)
    BY LayoutsAreRows
  <1> HIDE DEF l
  <1>3. DOMAIN l = 1 .. 7
    BY <1>1, <1>2
  <1>4. ASSUME NEW i \in 1 .. 7 PROVE l[i][1] # "msg_len" /\ \A j \in 1 .. 7 : l[i][1] = l[j][1] => i = j
    BY <1>1
  <1>5. l \in Layouts
    BY <1>2, <1>3, <1>4 DEF Layouts
  <1>6. PICK g \in [0 .. 7 -> Nat] : g[0] = 0 /\ (\A i \in 1 .. 7 : g[i] = g[i - 1] + l[i][2]) /\ Msg!SizeOf(l) = g[7]
    BY <1>1, <1>5, SizeGoes DEF Sized
  <1>7. /\ g[1] = 2 /\ g[2] = 10 /\ g[3] = 18
        /\ g[4] = 26 /\ g[5] = 34 /\ g[6] = 42 /\ g[7] = 50
    BY <1>1, <1>6
  <1> QED
    BY <1>1, <1>4, <1>5, <1>6, <1>7 DEF Formed, l

LEMMA ModifyOrderRequestFields ==
  LET l == Msg!MODIFY_ORDER_REQUEST
  IN  /\ Len(l) = 14 /\ l[1] = <<"MessageType", 2>> /\ l[2] = <<"UserID", 8>>
      /\ l[3] = <<"UserTag", 8>> /\ l[4] = <<"ExchangeOrderID", 8>>
      /\ l[5] = <<"OrderQuantityRemaining", 8>> /\ l[6] = <<"OrderType", 1>>
      /\ l[7] = <<"OrderTimeInForce", 1>> /\ l[8] = <<"OrderExecutionType", 1>>
      /\ l[9] = <<"OrderQuantity", 8>> /\ l[10] = <<"OrderDisclosedQuantity", 8>>
      /\ l[11] = <<"OrderPrice", 8>> /\ l[12] = <<"MarketPriceProtectionTicks", 2>>
      /\ l[13] = <<"OrderTriggerPrice", 8>> /\ l[14] = <<"TriggerOn", 1>>
  BY DEF Msg!MODIFY_ORDER_REQUEST, Msg!Chars, Msg!Kind, Msg!Longs, Msg!Prices, Msg!Request,
     Msg!Shorts, Msg!User
LEMMA ModifyOrderRequestFormed == Formed(Msg!MODIFY_ORDER_REQUEST, 14, 72)
  <1> DEFINE l == Msg!MODIFY_ORDER_REQUEST
  <1>1. /\ Len(l) = 14 /\ l[1] = <<"MessageType", 2>> /\ l[2] = <<"UserID", 8>>
        /\ l[3] = <<"UserTag", 8>> /\ l[4] = <<"ExchangeOrderID", 8>>
        /\ l[5] = <<"OrderQuantityRemaining", 8>> /\ l[6] = <<"OrderType", 1>>
        /\ l[7] = <<"OrderTimeInForce", 1>> /\ l[8] = <<"OrderExecutionType", 1>>
        /\ l[9] = <<"OrderQuantity", 8>> /\ l[10] = <<"OrderDisclosedQuantity", 8>>
        /\ l[11] = <<"OrderPrice", 8>> /\ l[12] = <<"MarketPriceProtectionTicks", 2>>
        /\ l[13] = <<"OrderTriggerPrice", 8>> /\ l[14] = <<"TriggerOn", 1>>
    BY ModifyOrderRequestFields
  <1>2. l \in Seq(FieldNames \X Nat)
    BY LayoutsAreRows
  <1> HIDE DEF l
  <1>3. DOMAIN l = 1 .. 14
    BY <1>1, <1>2
  <1>4. ASSUME NEW i \in 1 .. 14 PROVE l[i][1] # "msg_len" /\ \A j \in 1 .. 14 : l[i][1] = l[j][1] => i = j
    BY <1>1
  <1>5. l \in Layouts
    BY <1>2, <1>3, <1>4 DEF Layouts
  <1>6. PICK g \in [0 .. 14 -> Nat] : g[0] = 0 /\ (\A i \in 1 .. 14 : g[i] = g[i - 1] + l[i][2]) /\ Msg!SizeOf(l) = g[14]
    BY <1>1, <1>5, SizeGoes DEF Sized
  <1>7. /\ g[1] = 2 /\ g[2] = 10 /\ g[3] = 18 /\ g[4] = 26 /\ g[5] = 34 /\ g[6] = 35 /\ g[7] = 36
        /\ g[8] = 37 /\ g[9] = 45 /\ g[10] = 53 /\ g[11] = 61 /\ g[12] = 63 /\ g[13] = 71 /\ g[14] = 72
    BY <1>1, <1>6
  <1> QED
    BY <1>1, <1>4, <1>5, <1>6, <1>7 DEF Formed, l

LEMMA ModifyLeverageRequestFields ==
  LET l == Msg!MODIFY_LEVERAGE_REQUEST
  IN  /\ Len(l) = 5 /\ l[1] = <<"MessageType", 2>> /\ l[2] = <<"UserID", 8>>
      /\ l[3] = <<"UserTag", 8>> /\ l[4] = <<"InstrumentID", 8>> /\ l[5] = <<"Leverage", 8>>
  BY DEF Msg!MODIFY_LEVERAGE_REQUEST, Msg!Kind, Msg!Longs, Msg!Request, Msg!Shorts, Msg!User
LEMMA ModifyLeverageRequestFormed == Formed(Msg!MODIFY_LEVERAGE_REQUEST, 5, 34)
  <1> DEFINE l == Msg!MODIFY_LEVERAGE_REQUEST
  <1>1. /\ Len(l) = 5 /\ l[1] = <<"MessageType", 2>> /\ l[2] = <<"UserID", 8>>
        /\ l[3] = <<"UserTag", 8>> /\ l[4] = <<"InstrumentID", 8>> /\ l[5] = <<"Leverage", 8>>
    BY ModifyLeverageRequestFields
  <1>2. l \in Seq(FieldNames \X Nat)
    BY LayoutsAreRows
  <1> HIDE DEF l
  <1>3. DOMAIN l = 1 .. 5
    BY <1>1, <1>2
  <1>4. ASSUME NEW i \in 1 .. 5 PROVE l[i][1] # "msg_len" /\ \A j \in 1 .. 5 : l[i][1] = l[j][1] => i = j
    BY <1>1
  <1>5. l \in Layouts
    BY <1>2, <1>3, <1>4 DEF Layouts
  <1>6. PICK g \in [0 .. 5 -> Nat] : g[0] = 0 /\ (\A i \in 1 .. 5 : g[i] = g[i - 1] + l[i][2]) /\ Msg!SizeOf(l) = g[5]
    BY <1>1, <1>5, SizeGoes DEF Sized
  <1>7. /\ g[1] = 2 /\ g[2] = 10
        /\ g[3] = 18 /\ g[4] = 26 /\ g[5] = 34
    BY <1>1, <1>6
  <1> QED
    BY <1>1, <1>4, <1>5, <1>6, <1>7 DEF Formed, l

LEMMA CancelOrderRequestFields ==
  LET l == Msg!CANCEL_ORDER_REQUEST
  IN  /\ Len(l) = 4 /\ l[1] = <<"MessageType", 2>> /\ l[2] = <<"UserID", 8>>
      /\ l[3] = <<"UserTag", 8>> /\ l[4] = <<"ExchangeOrderID", 8>>
  BY DEF Msg!CANCEL_ORDER_REQUEST, Msg!Kind, Msg!Longs, Msg!Request, Msg!Shorts, Msg!User
LEMMA CancelOrderRequestFormed == Formed(Msg!CANCEL_ORDER_REQUEST, 4, 26)
  <1> DEFINE l == Msg!CANCEL_ORDER_REQUEST
  <1>1. /\ Len(l) = 4 /\ l[1] = <<"MessageType", 2>> /\ l[2] = <<"UserID", 8>>
        /\ l[3] = <<"UserTag", 8>> /\ l[4] = <<"ExchangeOrderID", 8>>
    BY CancelOrderRequestFields
  <1>2. l \in Seq(FieldNames \X Nat)
    BY LayoutsAreRows
  <1> HIDE DEF l
  <1>3. DOMAIN l = 1 .. 4
    BY <1>1, <1>2
  <1>4. ASSUME NEW i \in 1 .. 4 PROVE l[i][1] # "msg_len" /\ \A j \in 1 .. 4 : l[i][1] = l[j][1] => i = j
    BY <1>1
  <1>5. l \in Layouts
    BY <1>2, <1>3, <1>4 DEF Layouts
  <1>6. PICK g \in [0 .. 4 -> Nat] : g[0] = 0 /\ (\A i \in 1 .. 4 : g[i] = g[i - 1] + l[i][2]) /\ Msg!SizeOf(l) = g[4]
    BY <1>1, <1>5, SizeGoes DEF Sized
  <1>7. /\ g[1] = 2 /\ g[2] = 10
        /\ g[3] = 18 /\ g[4] = 26
    BY <1>1, <1>6
  <1> QED
    BY <1>1, <1>4, <1>5, <1>6, <1>7 DEF Formed, l

LEMMA CancelAllOrdersRequestFields ==
  LET l == Msg!CANCEL_ALL_ORDERS_REQUEST
  IN  /\ Len(l) = 4 /\ l[1] = <<"MessageType", 2>> /\ l[2] = <<"UserID", 8>>
      /\ l[3] = <<"UserTag", 8>> /\ l[4] = <<"cancel_gtc", 1>>
  BY DEF Msg!CANCEL_ALL_ORDERS_REQUEST, Msg!Chars, Msg!Kind, Msg!Longs, Msg!Request, Msg!Shorts, Msg!User
LEMMA CancelAllOrdersRequestFormed == Formed(Msg!CANCEL_ALL_ORDERS_REQUEST, 4, 19)
  <1> DEFINE l == Msg!CANCEL_ALL_ORDERS_REQUEST
  <1>1. /\ Len(l) = 4 /\ l[1] = <<"MessageType", 2>> /\ l[2] = <<"UserID", 8>>
        /\ l[3] = <<"UserTag", 8>> /\ l[4] = <<"cancel_gtc", 1>>
    BY CancelAllOrdersRequestFields
  <1>2. l \in Seq(FieldNames \X Nat)
    BY LayoutsAreRows
  <1> HIDE DEF l
  <1>3. DOMAIN l = 1 .. 4
    BY <1>1, <1>2
  <1>4. ASSUME NEW i \in 1 .. 4 PROVE l[i][1] # "msg_len" /\ \A j \in 1 .. 4 : l[i][1] = l[j][1] => i = j
    BY <1>1
  <1>5. l \in Layouts
    BY <1>2, <1>3, <1>4 DEF Layouts
  <1>6. PICK g \in [0 .. 4 -> Nat] : g[0] = 0 /\ (\A i \in 1 .. 4 : g[i] = g[i - 1] + l[i][2]) /\ Msg!SizeOf(l) = g[4]
    BY <1>1, <1>5, SizeGoes DEF Sized
  <1>7. /\ g[1] = 2 /\ g[2] = 10
        /\ g[3] = 18 /\ g[4] = 19
    BY <1>1, <1>6
  <1> QED
    BY <1>1, <1>4, <1>5, <1>6, <1>7 DEF Formed, l

LEMMA WorkingOrdersRequestFields ==
  LET l == Msg!WORKING_ORDERS_REQUEST
  IN  /\ Len(l) = 3 /\ l[1] = <<"MessageType", 2>> /\ l[2] = <<"UserID", 8>>
      /\ l[3] = <<"UserTag", 8>>
  BY DEF Msg!WORKING_ORDERS_REQUEST, Msg!Kind, Msg!Longs, Msg!Request, Msg!Shorts, Msg!User
LEMMA WorkingOrdersRequestFormed == Formed(Msg!WORKING_ORDERS_REQUEST, 3, 18)
  <1> DEFINE l == Msg!WORKING_ORDERS_REQUEST
  <1>1. /\ Len(l) = 3 /\ l[1] = <<"MessageType", 2>> /\ l[2] = <<"UserID", 8>>
        /\ l[3] = <<"UserTag", 8>>
    BY WorkingOrdersRequestFields
  <1>2. l \in Seq(FieldNames \X Nat)
    BY LayoutsAreRows
  <1> HIDE DEF l
  <1>3. DOMAIN l = 1 .. 3
    BY <1>1, <1>2
  <1>4. ASSUME NEW i \in 1 .. 3 PROVE l[i][1] # "msg_len" /\ \A j \in 1 .. 3 : l[i][1] = l[j][1] => i = j
    BY <1>1
  <1>5. l \in Layouts
    BY <1>2, <1>3, <1>4 DEF Layouts
  <1>6. PICK g \in [0 .. 3 -> Nat] : g[0] = 0 /\ (\A i \in 1 .. 3 : g[i] = g[i - 1] + l[i][2]) /\ Msg!SizeOf(l) = g[3]
    BY <1>1, <1>5, SizeGoes DEF Sized
  <1>7. /\ g[1] = 2
        /\ g[2] = 10 /\ g[3] = 18
    BY <1>1, <1>6
  <1> QED
    BY <1>1, <1>4, <1>5, <1>6, <1>7 DEF Formed, l

LEMMA FillRequestFields ==
  LET l == Msg!FILL_REQUEST
  IN  /\ Len(l) = 3 /\ l[1] = <<"MessageType", 2>> /\ l[2] = <<"UserID", 8>>
      /\ l[3] = <<"UserTag", 8>>
  BY DEF Msg!FILL_REQUEST, Msg!Kind, Msg!Longs, Msg!Request, Msg!Shorts, Msg!User
LEMMA FillRequestFormed == Formed(Msg!FILL_REQUEST, 3, 18)
  <1> DEFINE l == Msg!FILL_REQUEST
  <1>1. /\ Len(l) = 3 /\ l[1] = <<"MessageType", 2>> /\ l[2] = <<"UserID", 8>>
        /\ l[3] = <<"UserTag", 8>>
    BY FillRequestFields
  <1>2. l \in Seq(FieldNames \X Nat)
    BY LayoutsAreRows
  <1> HIDE DEF l
  <1>3. DOMAIN l = 1 .. 3
    BY <1>1, <1>2
  <1>4. ASSUME NEW i \in 1 .. 3 PROVE l[i][1] # "msg_len" /\ \A j \in 1 .. 3 : l[i][1] = l[j][1] => i = j
    BY <1>1
  <1>5. l \in Layouts
    BY <1>2, <1>3, <1>4 DEF Layouts
  <1>6. PICK g \in [0 .. 3 -> Nat] : g[0] = 0 /\ (\A i \in 1 .. 3 : g[i] = g[i - 1] + l[i][2]) /\ Msg!SizeOf(l) = g[3]
    BY <1>1, <1>5, SizeGoes DEF Sized
  <1>7. /\ g[1] = 2
        /\ g[2] = 10 /\ g[3] = 18
    BY <1>1, <1>6
  <1> QED
    BY <1>1, <1>4, <1>5, <1>6, <1>7 DEF Formed, l

(* The length and the message.                                              *)
HasHeader(m, l, n, size) ==
  /\ m \in Layouts /\ Len(m) = n + 1 /\ m[1] = <<"msg_len", 2>>
  /\ \A i \in 1 .. n : m[i + 1] = l[i]
  /\ Msg!SizeOf(m) = size + 2
LEMMA HeadedForms ==
  ASSUME NEW l, NEW n \in Nat, NEW size \in Nat, Formed(l, n, size)
  PROVE  HasHeader(Msg!FRAME_HDR \o l, l, n, size)
  <1> DEFINE m == Msg!FRAME_HDR \o l
             Rows == Seq(FieldNames \X Nat)
  <1>1. l \in Layouts /\ l \in Rows /\ Len(l) = n /\ Msg!SizeOf(l) = size /\ \A i \in 1 .. n : l[i][1] # "msg_len"
    BY DEF Formed, Layouts
  <1>2. Msg!FRAME_HDR \in Rows /\ Len(Msg!FRAME_HDR) = 1 /\ Msg!FRAME_HDR[1] = <<"msg_len", 2>>
    BY LayoutsAreRows DEF Msg!FRAME_HDR, Msg!Shorts
  <1>0. Follows(FieldNames \X Nat, Msg!FRAME_HDR, l, m)
    BY <1>1, <1>2, CatFollows
  <1>3. m \in Rows /\ Len(m) = n + 1 /\ m[1] = <<"msg_len", 2>>
    BY <1>0, <1>1, <1>2 DEF Follows
  <1>4. ASSUME NEW i \in 1 .. n PROVE m[i + 1] = l[i]
    BY <1>0, <1>1, <1>2 DEF Follows
  <1> HIDE DEF m
  <1>5. DOMAIN m = 1 .. n + 1 /\ DOMAIN l = 1 .. n
    BY <1>1, <1>3
  <1>6. ASSUME NEW i \in 1 .. n + 1, i # 1 PROVE i - 1 \in 1 .. n /\ m[i] = l[i - 1]
    <2>1. i - 1 \in 1 .. n /\ (i - 1) + 1 = i
      BY <1>6
    <2> QED BY <2>1, <1>4
  <1>7. m \in Layouts
    <2> SUFFICES ASSUME NEW i \in 1 .. n + 1, NEW j \in 1 .. n + 1, m[i][1] = m[j][1] PROVE i = j
      BY <1>3, <1>5 DEF Layouts
    <2>1. CASE i = 1 /\ j # 1
      BY <2>1, <1>1, <1>3, <1>6
    <2>2. CASE i # 1 /\ j = 1
      BY <2>2, <1>1, <1>3, <1>6
    <2>3. CASE i # 1 /\ j # 1
      <3>1. i - 1 \in DOMAIN l /\ j - 1 \in DOMAIN l /\ l[i - 1][1] = l[j - 1][1]
        BY <2>3, <1>5, <1>6
      <3>2. i - 1 = j - 1
        BY <3>1, <1>1 DEF Layouts
      <3> QED BY <3>2
    <2> QED BY <2>1, <2>2, <2>3
  <1>8. Msg!SizeOf(m) = size + 2
    <2>1. PICK b \in [0 .. n -> Nat] : b[0] = 0 /\ (\A k \in 1 .. n : b[k] = b[k - 1] + l[k][2]) /\ size = b[n]
      BY <1>1, SizeGoes DEF Sized
    <2>2. PICK g \in [0 .. n + 1 -> Nat] : g[0] = 0 /\ (\A k \in 1 .. n + 1 : g[k] = g[k - 1] + m[k][2]) /\ Msg!SizeOf(m) = g[n + 1]
      BY <1>3, <1>7, SizeGoes DEF Sized
    <2> DEFINE A == {k \in Nat : k <= n => g[k + 1] = b[k] + 2}
    <2>3. 0 \in A
      <3>1. 1 \in 1 .. n + 1 /\ 1 - 1 = 0 /\ 0 + 1 = 1
        OBVIOUS
      <3>2. g[1] = g[0] + 2
        BY <3>1, <2>2, <1>3
      <3> QED BY <3>2, <2>1, <2>2
    <2>4. ASSUME NEW k \in Nat, k \in A PROVE k + 1 \in A
      <3> SUFFICES ASSUME k + 1 <= n PROVE g[(k + 1) + 1] = b[k + 1] + 2
        OBVIOUS
      <3>1. k + 1 \in 1 .. n /\ (k + 1) + 1 \in 1 .. n + 1 /\ (k + 1) + 1 - 1 = k + 1 /\ (k + 1) - 1 = k /\ k <= n
            /\ k \in 0 .. n
        OBVIOUS
      <3> DEFINE i == k + 1
                 j == i + 1
      <3>2. g[j] = g[j - 1] + m[j][2] /\ b[i] = b[i - 1] + l[i][2] /\ j - 1 = i /\ i - 1 = k
        <4>1. i \in 1 .. n /\ j \in 1 .. n + 1 /\ j - 1 = i /\ i - 1 = k
          BY <3>1
        <4> HIDE DEF i, j
        <4> QED BY <4>1, <2>1, <2>2
      <3>3. m[(k + 1) + 1][2] = l[k + 1][2] /\ g[k + 1] = b[k] + 2
        BY <3>1, <2>4, <1>4
      <3>4. l[k + 1][2] \in Nat /\ b[k] \in Nat
        <4>1. l[k + 1] \in FieldNames \X Nat
          BY <3>1, <1>1
        <4> QED BY <4>1, <3>1
      <3>5. g[i + 1] = g[i] + m[i + 1][2] /\ b[i] = b[k] + l[i][2]
        BY <3>2
      <3>6. m[i + 1][2] = l[i][2] /\ g[i] = b[k] + 2 /\ l[i][2] \in Nat /\ b[k] \in Nat
        BY <3>3, <3>4
      <3> HIDE DEF i, j
      <3>7. g[i + 1] = b[i] + 2
        <4>1. \A u, x \in Nat : (u + 2) + x = (u + x) + 2
          OBVIOUS
        <4>2. g[i + 1] = (b[k] + 2) + l[i][2]
          BY <3>5, <3>6, Zenon
        <4> QED BY <3>5, <3>6, <4>1, <4>2, Zenon
      <3> QED BY <3>7 DEF i
    <2>5. Nat \subseteq A
      <3> HIDE DEF A
      <3> QED BY <2>3, <2>4, Induction
    <2>6. g[n + 1] = b[n] + 2
      BY <2>5
    <2> QED BY <2>1, <2>2, <2>6
  <1> QED
    BY <1>3, <1>4, <1>7, <1>8 DEF HasHeader, m

(* The bytes of a number.                                                   *)
Held(b, v, w) == /\ b \in Seq(Nat) /\ Len(b) = w
                 /\ (v < 256 /\ w >= 1 => b[1] = v)
                 /\ (v < 256 /\ w >= 2 => b[2] = 0)
LEMMA BytesAre == ASSUME NEW v \in Nat, NEW w \in Nat PROVE Held(Msg!Bytes(v, w), v, w)
  <1> DEFINE b == Msg!Bytes(v, w)
             one(j) == IF j <= 4 THEN (v \div Msg!Unit[j]) % 256 ELSE 0
  <1>1. ASSUME NEW j \in 1 .. w PROVE one(j) \in Nat
    BY DEF Msg!Unit
  <1>2. b = [j \in 1 .. w |-> one(j)]
    BY DEF Msg!Bytes
  <1>3. one(1) = v % 256 /\ one(2) = (v \div 256) % 256
    BY DEF Msg!Unit
  <1>4. v < 256 => v % 256 = v /\ v \div 256 = 0 /\ 0 % 256 = 0
    OBVIOUS
  <1> HIDE DEF b, one
  <1>5. b \in Seq(Nat)
    <2>1. [j \in 1 .. w |-> one(j)] \in [1 .. w -> Nat]
      BY <1>1
    <2> QED BY <2>1, <1>2
  <1>6. Len(b) = w
    BY <1>2
  <1>7. w >= 1 => b[1] = one(1)
    BY <1>2
  <1>8. w >= 2 => b[2] = one(2)
    BY <1>2
  <1> QED
    BY <1>3, <1>4, <1>5, <1>6, <1>7, <1>8 DEF Held, b

-----------------------------------------------------------------------------
(* Sums                                                                     *)
(* The sums of f over the subsets of Dom, in whatever order it is added.      *)
SumsTo(f, Dom, it) ==
  /\ it \in [SUBSET Dom -> Nat] /\ it[{}] = 0
  /\ \A s \in SUBSET Dom : \A k \in s : it[s] = it[s \ {k}] + f[k]
EqSum(f, Dom, it) ==
  it = [s \in SUBSET Dom |-> IF s = {} THEN 0 ELSE f[CHOOSE x \in s : TRUE] + it[s \ {CHOOSE x \in s : TRUE}]]

LEMMA SumAnyOrder ==
  ASSUME NEW Dom, IsFiniteSet(Dom), NEW f, \A x \in Dom : f[x] \in Nat, NEW ch,
         \A s \in SUBSET Dom : s # {} => ch[s] \in s,
         NEW it \in [SUBSET Dom -> Nat], it[{}] = 0,
         \A s \in SUBSET Dom : s # {} => it[s] = f[ch[s]] + it[s \ {ch[s]}]
  PROVE  SumsTo(f, Dom, it)
  <1> DEFINE A == {n \in Nat : \A s \in SUBSET Dom : Cardinality(s) = n => \A k \in s : it[s] = it[s \ {k}] + f[k]}
  <1>1. \A s \in SUBSET Dom : IsFiniteSet(s) /\ Cardinality(s) \in Nat
    BY FS_Subset, FS_CardinalityType
  <1>2. \A s \in SUBSET Dom : \A k \in s : Cardinality(s \ {k}) = Cardinality(s) - 1 /\ s \ {k} \in SUBSET Dom
    BY <1>1, FS_RemoveElement
  <1>3. 0 \in A
    <2>1. \A s \in SUBSET Dom : Cardinality(s) = 0 => s = {}
      BY <1>1, FS_EmptySet
    <2> QED BY <2>1
  <1>4. ASSUME NEW n \in Nat, n \in A PROVE n + 1 \in A
    <2> SUFFICES ASSUME NEW s \in SUBSET Dom, Cardinality(s) = n + 1, NEW k \in s PROVE it[s] = it[s \ {k}] + f[k]
      OBVIOUS
    <2> DEFINE x == ch[s]
    <2>1. x \in s /\ it[s] = f[x] + it[s \ {x}]
      OBVIOUS
    <2>2. CASE x = k
      <3>1. f[k] \in Nat /\ it[s \ {k}] \in Nat
        BY <1>2
      <3>2. \A v, w \in Nat : v + w = w + v
        OBVIOUS
      <3>3. it[s] = f[k] + it[s \ {k}]
        BY <2>1, <2>2
      <3> HIDE DEF x
      <3> QED BY <3>1, <3>2, <3>3, Zenon
    <2>3. CASE x # k
      <3>1. k \in s \ {x} /\ x \in s \ {k} /\ (s \ {x}) \ {k} = (s \ {k}) \ {x}
        BY <2>1, <2>3
      <3> HIDE DEF x
      <3>2. Cardinality(s \ {x}) = n /\ Cardinality(s \ {k}) = n
        <4>1. Cardinality(s \ {x}) = Cardinality(s) - 1 /\ Cardinality(s \ {k}) = Cardinality(s) - 1
          BY <2>1, <1>2
        <4>2. (n + 1) - 1 = n
          OBVIOUS
        <4> QED BY <4>1, <4>2, Zenon
      <3>3. it[s \ {x}] = it[(s \ {x}) \ {k}] + f[k] /\ it[s \ {k}] = it[(s \ {k}) \ {x}] + f[x]
        BY <2>1, <3>1, <3>2, <1>2, <1>4
      <3>4. f[x] \in Nat /\ f[k] \in Nat /\ it[(s \ {k}) \ {x}] \in Nat
        <4>1. (s \ {k}) \ {x} \in SUBSET Dom
          OBVIOUS
        <4> QED BY <2>1, <4>1
      <3>5. \A u, v, w \in Nat : u + (v + w) = (v + u) + w
        OBVIOUS
      <3>6. (s \ {x}) \ {k} = (s \ {k}) \ {x}
        BY <3>1
      <3>7. it[s] = f[x] + (it[(s \ {k}) \ {x}] + f[k])
        BY <2>1, <3>3, <3>6, Zenon
      <3>8. it[s \ {k}] + f[k] = (it[(s \ {k}) \ {x}] + f[x]) + f[k]
        BY <3>3, Zenon
      <3> DEFINE rr == it[(s \ {k}) \ {x}]
      <3>9. rr \in Nat /\ f[x] \in Nat /\ f[k] \in Nat
        BY <3>4
      <3>10. f[x] + (rr + f[k]) = (rr + f[x]) + f[k]
        <4> HIDE DEF rr
        <4>1. \A v, w \in Nat : f[x] + (v + w) = (v + f[x]) + w
          BY <3>5, <3>9, Zenon
        <4>2. \A w \in Nat : f[x] + (rr + w) = (rr + f[x]) + w
          BY <4>1, <3>9, Zenon
        <4> QED BY <4>2, <3>9, Zenon
      <3> QED BY <3>7, <3>8, <3>10, Zenon
    <2> QED BY <2>2, <2>3
  <1>5. Nat \subseteq A
    <2> HIDE DEF A
    <2> QED BY <1>3, <1>4, Induction
  <1> QED BY <1>1, <1>5 DEF SumsTo

LEMMA SumChosen ==
  ASSUME NEW Dom, IsFiniteSet(Dom), NEW f, \A x \in Dom : f[x] \in Nat
  PROVE  SumsTo(f, Dom, CHOOSE it : EqSum(f, Dom, it))
  <1> DEFINE ch == [s \in SUBSET Dom |-> IF s = {} THEN Dom ELSE CHOOSE x \in s : TRUE]
             go == [q \in Dom \X Nat |-> f[q[1]] + q[2]]
             chosen == CHOOSE it : EqSum(f, Dom, it)
  <1>1. \A s \in SUBSET Dom : s # {} => ch[s] = (CHOOSE x \in s : TRUE) /\ ch[s] \in s
    OBVIOUS
  <1>2. ch \in [SUBSET Dom -> Dom \cup {Dom}]
    OBVIOUS
  <1>3. go \in [Dom \X Nat -> Nat] /\ \A x \in Dom, v \in Nat : go[<<x, v>>] = f[x] + v
    OBVIOUS
  <1> HIDE DEF ch, go
  <1>4. Removes(Dom, Nat, ch, 0, go)
    <2>1. 0 \in Nat
      OBVIOUS
    <2>2. \A s \in SUBSET Dom : s # {} => ch[s] \in s
      BY <1>1
    <2> QED BY <1>2, <1>3, <2>1, <2>2, Removal, Zenon
  <1>5. PICK g \in [SUBSET Dom -> Nat] : \A s \in SUBSET Dom : g[s] = IF s = {} THEN 0 ELSE go[<<ch[s], g[s \ {ch[s]}]>>]
    BY <1>4 DEF Removes
  <1>6. EqSum(f, Dom, g)
    <2>1. ASSUME NEW s \in SUBSET Dom
          PROVE  g[s] = IF s = {} THEN 0 ELSE f[CHOOSE x \in s : TRUE] + g[s \ {CHOOSE x \in s : TRUE}]
      <3>1. CASE s = {}
        BY <3>1, <1>5
      <3>2. CASE s # {}
        <4>1. ch[s] = (CHOOSE x \in s : TRUE) /\ ch[s] \in Dom /\ s \ {ch[s]} \in SUBSET Dom
          BY <3>2, <1>1
        <4>2. g[s \ {ch[s]}] \in Nat
          BY <4>1
        <4>3. g[s] = f[ch[s]] + g[s \ {ch[s]}]
          BY <3>2, <4>1, <4>2, <1>3, <1>5
        <4> QED BY <3>2, <4>1, <4>3
      <3> QED BY <3>1, <3>2
    <2> QED BY <2>1 DEF EqSum
  <1>7. EqSum(f, Dom, chosen)
    BY <1>6
  <1> HIDE DEF chosen
  <1>8. /\ chosen[{}] = 0
        /\ \A s \in SUBSET Dom : s # {} => chosen[s] = f[ch[s]] + chosen[s \ {ch[s]}]
    BY <1>1, <1>7 DEF EqSum
  <1>10. DOMAIN chosen = SUBSET Dom /\ chosen = [s \in DOMAIN chosen |-> chosen[s]]
    BY <1>7 DEF EqSum
  <1>9. chosen \in [SUBSET Dom -> Nat]
    <2> DEFINE A == {n \in Nat : \A s \in SUBSET Dom : Cardinality(s) = n => chosen[s] \in Nat}
    <2>1. \A s \in SUBSET Dom : IsFiniteSet(s) /\ Cardinality(s) \in Nat
      BY FS_Subset, FS_CardinalityType
    <2>2. 0 \in A
      <3>1. \A s \in SUBSET Dom : Cardinality(s) = 0 => s = {}
        BY <2>1, FS_EmptySet
      <3>2. \A s \in SUBSET Dom : Cardinality(s) = 0 => chosen[s] \in Nat
        <4> SUFFICES ASSUME NEW s \in SUBSET Dom, Cardinality(s) = 0 PROVE chosen[s] \in Nat
          OBVIOUS
        <4>1. chosen[s] = 0
          BY <3>1, <1>8, Zenon
        <4> QED BY <4>1
      <3> QED BY <3>2
    <2>3. ASSUME NEW n \in Nat, n \in A PROVE n + 1 \in A
      <3> SUFFICES ASSUME NEW s \in SUBSET Dom, Cardinality(s) = n + 1 PROVE chosen[s] \in Nat
        OBVIOUS
      <3>1. s # {}
        <4>1. Cardinality({}) = 0
          BY FS_EmptySet
        <4> QED BY <4>1
      <3>2. ch[s] \in s /\ Cardinality(s \ {ch[s]}) = n /\ s \ {ch[s]} \in SUBSET Dom
        <4>1. ch[s] \in s
          BY <3>1, <1>1
        <4>2. Cardinality(s \ {ch[s]}) = Cardinality(s) - 1
          BY <4>1, <2>1, FS_RemoveElement
        <4>3. (n + 1) - 1 = n
          OBVIOUS
        <4> QED BY <4>1, <4>2, <4>3
      <3>3. chosen[s \ {ch[s]}] \in Nat /\ f[ch[s]] \in Nat
        BY <2>3, <3>2
      <3>4. chosen[s] = f[ch[s]] + chosen[s \ {ch[s]}]
        BY <3>1, <1>8
      <3>5. \A v, w \in Nat : v + w \in Nat
        OBVIOUS
      <3> QED BY <3>3, <3>4, <3>5, Zenon
    <2>4. Nat \subseteq A
      <3> HIDE DEF A
      <3> QED BY <2>2, <2>3, Induction
    <2>5. \A s \in SUBSET Dom : chosen[s] \in Nat
      BY <2>1, <2>4
    <2> QED BY <2>5, <1>10
  <1> QED
    BY <1>1, <1>8, <1>9, SumAnyOrder DEF chosen

(* Sums of what is the same are the same.                                   *)
Agree(f, g, r) == \A x \in r : f[x] = g[x]
LEMMA SumSame ==
  ASSUME NEW Dom, NEW E1, IsFiniteSet(Dom), NEW f, NEW g, NEW it, NEW jt, SumsTo(f, Dom, it), SumsTo(g, E1, jt),
         NEW r, r \subseteq Dom, r \subseteq E1, Agree(f, g, r)
  PROVE  it[r] = jt[r]
  <1> DEFINE A == {n \in Nat : \A s \in SUBSET r : Cardinality(s) = n => it[s] = jt[s]}
  <1>1. \A s \in SUBSET r : IsFiniteSet(s) /\ Cardinality(s) \in Nat
    BY FS_Subset, FS_CardinalityType
  <1>2. 0 \in A
    <2>1. \A s \in SUBSET r : Cardinality(s) = 0 => s = {}
      BY <1>1, FS_EmptySet
    <2> QED BY <2>1 DEF SumsTo
  <1>3. ASSUME NEW n \in Nat, n \in A PROVE n + 1 \in A
    <2> SUFFICES ASSUME NEW s \in SUBSET r, Cardinality(s) = n + 1 PROVE it[s] = jt[s]
      OBVIOUS
    <2>1. PICK k \in s : TRUE
      <3>1. Cardinality({}) = 0
        BY FS_EmptySet
      <3> QED BY <3>1
    <2>2. s \ {k} \in SUBSET r /\ Cardinality(s \ {k}) = n
      <3>1. Cardinality(s \ {k}) = Cardinality(s) - 1
        BY <2>1, <1>1, FS_RemoveElement
      <3>2. (n + 1) - 1 = n
        OBVIOUS
      <3> QED BY <3>1, <3>2
    <2>3. it[s \ {k}] = jt[s \ {k}] /\ f[k] = g[k]
      BY <2>2, <1>3 DEF Agree
    <2>4. it[s] = it[s \ {k}] + f[k] /\ jt[s] = jt[s \ {k}] + g[k]
      BY DEF SumsTo
    <2> QED BY <2>3, <2>4
  <1>4. Nat \subseteq A
    <2> HIDE DEF A
    <2> QED BY <1>2, <1>3, Induction
  <1> QED BY <1>1, <1>4

=============================================================================
