----------------------------- MODULE SetInduction -----------------------------
(***************************************************************************)
(* Induction on the natural numbers, and functions defined by recursion on *)
(* them, stated with sets and functions where the library's theorems have  *)
(* operators for parameters: the provers can use these.                    *)
(***************************************************************************)
EXTENDS WellFoundedInduction, TLAPS

\* A set of numbers that holds 0 and the successors of its elements holds all
\* of them: otherwise there is a least one that it lacks.
LEMMA SetInduction ==
    ASSUME NEW T \in SUBSET Nat, 0 \in T, \A n \in T : n + 1 \in T
    PROVE  T = Nat
<1> DEFINE Lacking == Nat \ T
           Less == {ss \in Nat \X Nat : ss[1] < ss[2]}
<1> SUFFICES ASSUME Lacking # {}
             PROVE  FALSE
    OBVIOUS
<1>1. IsWellFoundedOn(Less, Nat)
    <2>1. OpToRel(<, Nat) = Less
        BY Zenon DEF OpToRel
    <2> QED BY <2>1, NatLessThanWellFounded, Zenon
<1>2. PICK n \in Lacking : \A m \in Lacking : <<m, n>> \notin Less
    <2> HIDE DEF Less
    <2> QED BY <1>1, WFMin
<1>3. n # 0 /\ n - 1 \in Nat /\ (n - 1) + 1 = n /\ n - 1 < n
    OBVIOUS
<1>4. n - 1 \notin Lacking
    BY <1>2, <1>3
<1> QED BY <1>3, <1>4

\* The same up to a bound.
LEMMA BoundedInduction ==
    ASSUME NEW N \in Nat, NEW T, 0 \in T,
           \A n \in 0 .. N - 1 : n \in T => n + 1 \in T
    PROVE  0 .. N \subseteq T
<1> DEFINE U == {n \in Nat : n <= N => n \in T}
<1>1. 0 \in U
    OBVIOUS
<1>2. ASSUME NEW n \in U
      PROVE  n + 1 \in U
    OBVIOUS
<1>3. U = Nat
    <2> HIDE DEF U
    <2>1. U \in SUBSET Nat
        BY DEF U
    <2> QED BY <1>1, <1>2, <2>1, SetInduction
<1> QED BY <1>3

\* The step of a recursion: the next value from its index and the last one.
Steps(S) == [Nat \X S -> S]

\* The function on 0 .. N that has this first value and this step.
Iterates(f, S, first, step, N) ==
    /\ f \in [0 .. N -> S]
    /\ f[0] = first
    /\ \A n \in 1 .. N : f[n] = step[<<n, f[n - 1]>>]

\* A first value and a step define a function on an interval.
LEMMA RecursionExists ==
    ASSUME NEW S, NEW first \in S, NEW step \in Steps(S), NEW N \in Nat
    PROVE  \E f : Iterates(f, S, first, step, N)
<1> DEFINE Fits(f, n) ==
            /\ f \in [0 .. n -> S]
            /\ f[0] = first
            /\ \A k \in 1 .. n : f[k] = step[<<k, f[k - 1]>>]
           T == {n \in Nat : \E f : Fits(f, n)}
<1>1. 0 \in T
    <2> DEFINE f == [k \in 0 .. 0 |-> first]
    <2>1. Fits(f, 0)
        OBVIOUS
    <2> QED BY <2>1
<1>2. ASSUME NEW n \in T
      PROVE  n + 1 \in T
    <2>1. PICK f : Fits(f, n)
        OBVIOUS
    <2> DEFINE g == [k \in 0 .. n + 1 |->
                        IF k <= n THEN f[k] ELSE step[<<k, f[n]>>]]
    <2>2. g \in [0 .. n + 1 -> S]
        BY <2>1 DEF Steps
    <2>3. g[0] = first
        BY <2>1
    <2>4. ASSUME NEW k \in 1 .. n + 1
          PROVE  g[k] = step[<<k, g[k - 1]>>]
        <3>1. CASE k \in 1 .. n
            <4>1. g[k] = f[k] /\ g[k - 1] = f[k - 1]
                BY <3>1
            <4> QED BY <2>1, <3>1, <4>1
        <3>2. CASE k = n + 1
            <4>1. g[k] = step[<<k, f[n]>>] /\ g[k - 1] = f[n]
                BY <3>2
            <4> QED BY <4>1
        <3> QED BY <3>1, <3>2
    <2>5. Fits(g, n + 1)
        <3> HIDE DEF g
        <3> QED BY <2>2, <2>3, <2>4
    <2> HIDE DEF g, Fits
    <2>6. \E h : Fits(h, n + 1)
        BY <2>5
    <2> QED BY <2>6
<1>3. T = Nat
    <2>1. T \in SUBSET Nat
        OBVIOUS
    <2> HIDE DEF T
    <2> QED BY <1>1, <1>2, <2>1, SetInduction
<1>4. PICK f : Fits(f, N)
    BY <1>3
<1> QED BY <1>4 DEF Iterates
=============================================================================
