----------------------------- MODULE DataInduction -----------------------------
(***************************************************************************)
(* Induction over data.  The induction theorems of the library take the    *)
(* property as an operator, which the provers at hand cannot instantiate.  *)
(* That the numbers are well founded is stated with sets alone, and so is  *)
(* everything here: a property is the set of the numbers that have it, the *)
(* step of a definition by recursion is a function.                        *)
(***************************************************************************)
EXTENDS Integers, SequenceTheorems, WellFoundedInduction, TLAPS

(* A set of numbers that is not empty has a least one. *)
LEMMA LeastNumber ==
    ASSUME NEW T, T \subseteq Nat, T # {}
    PROVE  \E x \in T : \A y \in T : x <= y
<1>1. DEFINE R == {p \in Nat \X Nat : p[1] < p[2]}
<1>2. IsWellFoundedOn(R, Nat)
    BY NatLessThanWellFounded DEF OpToRel
<1>3. PICK x \in T : \A y \in T : <<y, x>> \notin R
    <2> HIDE DEF R
    <2> QED BY <1>2, WFMin
<1>4. ASSUME NEW y \in T PROVE x <= y
    <2>1. <<y, x>> \in Nat \X Nat /\ <<y, x>> \notin R
        BY <1>3, <1>4
    <2>2. ~(y < x)
        BY <2>1
    <2> QED BY <2>1, <2>2
<1> QED BY <1>3, <1>4

(* A set that has 0 and with n also n + 1 has every number. *)
LEMMA SetInduction ==
    ASSUME NEW S, 0 \in S, \A n \in Nat : n \in S => n + 1 \in S
    PROVE  \A n \in Nat : n \in S
<1>1. SUFFICES ASSUME NEW m \in Nat, m \notin S PROVE FALSE
    OBVIOUS
<1>2. DEFINE T == {n \in Nat : n \notin S}
<1>3. PICK x \in T : \A y \in T : x <= y
    BY <1>1, LeastNumber
<1>4. x - 1 \in Nat /\ x - 1 \in S
    BY <1>3
<1> QED BY <1>3, <1>4

(* The same up to a bound. *)
LEMMA BoundedInduction ==
    ASSUME NEW N \in Nat, NEW S, 0 \in S, \A n \in 0 .. N - 1 : n \in S => n + 1 \in S
    PROVE  \A n \in 0 .. N : n \in S
<1>1. DEFINE T == {n \in Nat : n <= N => n \in S}
<1>2. \A n \in Nat : n \in T
    <2>1. 0 \in T
        OBVIOUS
    <2>2. ASSUME NEW n \in Nat, n \in T PROVE n + 1 \in T
        BY <2>2
    <2> HIDE DEF T
    <2> QED BY <2>1, <2>2, SetInduction
<1> QED BY <1>2

-----------------------------------------------------------------------------
(* The first n + 1 values of the function that begins with c and steps     *)
(* with G.                                                                 *)
Begins(g, n, c, G) == g[0] = c /\ \A i \in 0 .. n - 1 : g[i + 1] = G[<<i, g[i]>>]

(* Two beginnings agree as far as both go. *)
LEMMA BeginningsAgree ==
    ASSUME NEW c, NEW G, NEW m \in Nat, NEW n \in Nat, NEW g, NEW h,
           Begins(g, m, c, G), Begins(h, n, c, G), m <= n
    PROVE  \A i \in 0 .. m : g[i] = h[i]
<1>1. DEFINE T == {i \in 0 .. m : g[i] = h[i]}
<1>2. 0 \in T
    BY DEF Begins
<1>3. ASSUME NEW i \in 0 .. m - 1, i \in T PROVE i + 1 \in T
    <2>1. i \in 0 .. n - 1 /\ i + 1 \in 0 .. m /\ g[i] = h[i]
        BY <1>3
    <2>2. g[i + 1] = G[<<i, g[i]>>]
        BY DEF Begins
    <2>3. h[i + 1] = G[<<i, h[i]>>]
        BY <2>1 DEF Begins
    <2> QED BY <2>1, <2>2, <2>3
<1> HIDE DEF T
<1>4. \A i \in 0 .. m : i \in T
    BY <1>2, <1>3, BoundedInduction
<1> USE DEF T
<1> QED BY <1>4

(* c is in S, G stays in S, and f begins with c and steps with G. *)
StaysIn(S, c, G) == c \in S /\ \A n \in Nat, v \in S : G[<<n, v>>] \in S
Unfolds(f, c, G) == f[0] = c /\ \A n \in Nat : f[n + 1] = G[<<n, f[n]>>]

(* Recursion defines a function. *)
LEMMA Recursion ==
    ASSUME NEW S, NEW c, NEW G, StaysIn(S, c, G)
    PROVE  \E f \in [Nat -> S] : Unfolds(f, c, G)
<1>0. c \in S /\ \A n \in Nat, v \in S : G[<<n, v>>] \in S
    BY DEF StaysIn
<1>1. DEFINE T == {n \in Nat : \E g \in [0 .. n -> S] : Begins(g, n, c, G)}
<1>2. 0 \in T
    <2>1. [i \in 0 .. 0 |-> c] \in [0 .. 0 -> S] /\ Begins([i \in 0 .. 0 |-> c], 0, c, G)
        BY <1>0 DEF Begins
    <2> QED BY <2>1
<1>3. ASSUME NEW n \in Nat, n \in T PROVE n + 1 \in T
    <2>1. PICK g \in [0 .. n -> S] : Begins(g, n, c, G)
        BY <1>3
    <2>2. DEFINE h == [i \in 0 .. n + 1 |-> IF i = n + 1 THEN G[<<n, g[n]>>] ELSE g[i]]
    <2>3. h \in [0 .. n + 1 -> S]
        BY <1>0, <2>1
    <2>4. h[0] = c
        BY <2>1 DEF Begins
    <2>5. ASSUME NEW i \in 0 .. (n + 1) - 1 PROVE h[i + 1] = G[<<i, h[i]>>]
        <3>1. h[i] = g[i] /\ i \in 0 .. n
            OBVIOUS
        <3>2. CASE i = n
            <4>1. n + 1 \in 0 .. n + 1 /\ h[n + 1] = G[<<n, g[n]>>]
                OBVIOUS
            <4> HIDE DEF h
            <4> QED BY <3>1, <3>2, <4>1
        <3>3. CASE i # n
            <4>1. i \in 0 .. n - 1 /\ h[i + 1] = g[i + 1]
                BY <3>3
            <4>2. g[i + 1] = G[<<i, g[i]>>]
                BY <2>1, <4>1 DEF Begins
            <4> QED BY <3>1, <4>1, <4>2
        <3> QED BY <3>2, <3>3
    <2> HIDE DEF h
    <2>6. Begins(h, n + 1, c, G)
        BY <2>4, <2>5 DEF Begins
    <2> QED BY <2>3, <2>6
<1>4. \A n \in Nat : \E g \in [0 .. n -> S] : Begins(g, n, c, G)
    <2>1. \A n \in Nat : n \in T
        <3> HIDE DEF T
        <3> QED BY <1>2, <1>3, SetInduction
    <2> QED BY <2>1
<1>5. DEFINE Part(n) == CHOOSE g \in [0 .. n -> S] : Begins(g, n, c, G)
             f == [n \in Nat |-> Part(n)[n]]
<1>6. \A n \in Nat : Part(n) \in [0 .. n -> S] /\ Begins(Part(n), n, c, G)
    BY <1>4
<1> HIDE DEF Part
<1>7. f \in [Nat -> S]
    BY <1>6
<1>8. f[0] = c
    BY <1>6 DEF Begins
<1>9. ASSUME NEW n \in Nat PROVE f[n + 1] = G[<<n, f[n]>>]
    <2>1. Part(n)[n] = Part(n + 1)[n]
        BY <1>6, BeginningsAgree
    <2>2. Part(n + 1)[n + 1] = G[<<n, Part(n + 1)[n]>>]
        <3>1. n + 1 \in Nat /\ n \in 0 .. (n + 1) - 1
            OBVIOUS
        <3> QED BY <1>6, <3>1 DEF Begins
    <2> QED BY <2>1, <2>2
<1> QED BY <1>7, <1>8, <1>9 DEF Unfolds

-----------------------------------------------------------------------------
(* Pieces put in a row one after the other. *)
IsRow(f, N, P) == f = [n \in 0 .. N |-> IF n = 0 THEN <<>> ELSE f[n - 1] \o P[n]]

(* There is a row of any pieces. *)
LEMMA RowExists ==
    ASSUME NEW S, NEW N \in Nat, NEW P \in [1 .. N -> Seq(S)]
    PROVE  \E f \in [0 .. N -> Seq(S)] : IsRow(f, N, P)
<1>1. DEFINE G == [p \in Nat \X Seq(S) |-> IF p[1] < N THEN p[2] \o P[p[1] + 1] ELSE p[2]]
<1>2. <<>> \in Seq(S)
    OBVIOUS
<1>3. ASSUME NEW n \in Nat, NEW v \in Seq(S)
      PROVE  /\ G[<<n, v>>] \in Seq(S)
             /\ n < N => G[<<n, v>>] = v \o P[n + 1]
    <2>1. CASE n < N
        <3>1. P[n + 1] \in Seq(S)
            BY <2>1
        <3>2. v \o P[n + 1] \in Seq(S)
            BY <3>1, ConcatProperties
        <3> QED BY <2>1, <3>2
    <2>2. CASE ~(n < N)
        BY <2>2
    <2> QED BY <2>1, <2>2
<1> HIDE DEF G
<1>4. PICK F \in [Nat -> Seq(S)] : F[0] = <<>> /\ \A n \in Nat : F[n + 1] = G[<<n, F[n]>>]
    <2>1. StaysIn(Seq(S), <<>>, G)
        BY <1>2, <1>3 DEF StaysIn
    <2>2. PICK F \in [Nat -> Seq(S)] : Unfolds(F, <<>>, G)
        BY <2>1, Recursion
    <2>3. F[0] = <<>> /\ \A n \in Nat : F[n + 1] = G[<<n, F[n]>>]
        BY <2>2 DEF Unfolds
    <2> QED BY <2>3
<1>5. DEFINE f == [n \in 0 .. N |-> F[n]]
<1>6. ASSUME NEW n \in 1 .. N PROVE f[n] = f[n - 1] \o P[n]
    <2>1. n - 1 \in Nat /\ n - 1 < N /\ (n - 1) + 1 = n /\ n - 1 \in 0 .. N
        OBVIOUS
    <2>2. F[(n - 1) + 1] = G[<<n - 1, F[n - 1]>>] /\ F[n - 1] \in Seq(S)
        BY <1>4, <2>1
    <2>3. G[<<n - 1, F[n - 1]>>] = F[n - 1] \o P[(n - 1) + 1]
        BY <1>3, <2>1, <2>2
    <2>4. f[n] = F[(n - 1) + 1] /\ f[n - 1] = F[n - 1]
        BY <2>1
    <2>5. f[n] = f[n - 1] \o P[(n - 1) + 1]
        BY <2>2, <2>3, <2>4, Zenon
    <2> QED BY <2>1, <2>5
<1>7. f[0] = <<>> /\ f \in [0 .. N -> Seq(S)]
    BY <1>4
<1>8. IsRow(f, N, P)
    <2> HIDE DEF f
    <2>1. \A n \in 0 .. N : f[n] = IF n = 0 THEN <<>> ELSE f[n - 1] \o P[n]
        <3>1. TAKE n \in 0 .. N
        <3>2. CASE n = 0
            BY <1>7, <3>2
        <3>3. CASE n # 0
            <4>1. n \in 1 .. N
                BY <3>3
            <4>2. f[n] = f[n - 1] \o P[n]
                BY <1>6, <4>1
            <4> QED BY <3>3, <4>2, Zenon
        <3> QED BY <3>2, <3>3
    <2> QED BY <1>7, <2>1 DEF IsRow
<1> HIDE DEF f
<1> QED BY <1>7, <1>8

(* N pieces of m elements each; s is the first n of them in a row. *)
Pieces(S, m, N, P) == P \in [1 .. N -> Seq(S)] /\ \A i \in 1 .. N : Len(P[i]) = m
Placed(s, S, m, n, P) ==
    /\ s \in Seq(S) /\ Len(s) = m * n
    /\ \A i \in 1 .. n, j \in 1 .. m : s[m * (i - 1) + j] = P[i][j]

(* A row of pieces of one length: how long it is, and what stands where. *)
LEMMA RowElements ==
    ASSUME NEW S, NEW N \in Nat, NEW m \in Nat, NEW P, Pieces(S, m, N, P),
           NEW f, IsRow(f, N, P)
    PROVE  \A n \in 0 .. N : Placed(f[n], S, m, n, P)
<1>0. P \in [1 .. N -> Seq(S)] /\ \A i \in 1 .. N : Len(P[i]) = m
    BY DEF Pieces
<1>1. DEFINE T == {n \in 0 .. N : Placed(f[n], S, m, n, P)}
<1>2. 0 \in T
    <2>1. f[0] = <<>> /\ m * 0 = 0
        BY DEF IsRow
    <2>2. Placed(f[0], S, m, 0, P)
        BY <2>1 DEF Placed
    <2> QED BY <2>2
<1>3. ASSUME NEW n \in 0 .. N - 1, n \in T PROVE n + 1 \in T
    <2>1. /\ f[n] \in Seq(S) /\ Len(f[n]) = m * n
          /\ \A i \in 1 .. n, j \in 1 .. m : f[n][m * (i - 1) + j] = P[i][j]
        BY <1>3 DEF Placed
    <2>2. n + 1 \in 0 .. N /\ n + 1 # 0 /\ (n + 1) - 1 = n /\ n + 1 \in 1 .. N
        OBVIOUS
    <2>3. f[n + 1] = f[n] \o P[n + 1]
        BY <2>2 DEF IsRow
    <2>4. P[n + 1] \in Seq(S) /\ Len(P[n + 1]) = m
        BY <1>0, <2>2
    <2>5. /\ f[n + 1] \in Seq(S) /\ Len(f[n + 1]) = m * n + m
          /\ \A i \in 1 .. m * n : f[n + 1][i] = f[n][i]
          /\ \A j \in 1 .. m : f[n + 1][m * n + j] = P[n + 1][j]
        <3>1. f[n] \in Seq(S) /\ Len(f[n]) = m * n
            BY <2>1
        <3>2. /\ f[n] \o P[n + 1] \in Seq(S)
              /\ Len(f[n] \o P[n + 1]) = Len(f[n]) + Len(P[n + 1])
              /\ \A i \in 1 .. Len(f[n]) + Len(P[n + 1]) :
                    (f[n] \o P[n + 1])[i] = IF i <= Len(f[n]) THEN f[n][i] ELSE P[n + 1][i - Len(f[n])]
            BY <2>4, <3>1, ConcatProperties
        <3>3. m * n \in Nat /\ Len(f[n]) = m * n /\ Len(P[n + 1]) = m
            BY <2>4, <3>1, LenProperties
        <3> DEFINE q == m * n
                   g == f[n] \o P[n + 1]
        <3>4. q \in Nat /\ Len(f[n]) = q /\ f[n + 1] = g /\ Len(P[n + 1]) = m
            BY <2>3, <3>3
        <3>5. \A i \in 1 .. q + m : g[i] = IF i <= q THEN f[n][i] ELSE P[n + 1][i - q]
            BY <3>2, <3>3
        <3> HIDE DEF q, g
        <3>6. ASSUME NEW i \in 1 .. q PROVE f[n + 1][i] = f[n][i]
            BY <3>4, <3>5
        <3>7. ASSUME NEW j \in 1 .. m PROVE f[n + 1][q + j] = P[n + 1][j]
            <4>1. q + j \in 1 .. q + m /\ ~(q + j <= q) /\ (q + j) - q = j
                BY <3>4
            <4> QED BY <3>4, <3>5, <4>1
        <3> QED BY <2>3, <3>2, <3>3, <3>6, <3>7 DEF q
    <2>6. m * n + m = m * (n + 1)
        OBVIOUS
    <2>7. ASSUME NEW i \in 1 .. n + 1, NEW j \in 1 .. m
          PROVE  f[n + 1][m * (i - 1) + j] = P[i][j]
        <3>1. CASE i = n + 1
            <4>1. i - 1 = n
                BY <3>1
            <4> QED BY <2>5, <3>1, <4>1
        <3>2. CASE i # n + 1
            <4>1. i \in 1 .. n
                BY <3>2
            <4>2. m * n = m * (i - 1) + m + m * (n - i) /\ m * (n - i) \in Nat /\ m * (i - 1) \in Nat
                BY <4>1
            <4>3. m * (i - 1) + j \in 1 .. m * n
                <5> DEFINE a == m * (i - 1)
                           d == m * (n - i)
                           q == m * n
                <5>1. q = a + m + d /\ d \in Nat /\ a \in Nat
                    BY <4>2
                <5> HIDE DEF a, d, q
                <5>2. a + j \in 1 .. q
                    BY <5>1
                <5> QED BY <5>2 DEF a, q
            <4>4. f[n][m * (i - 1) + j] = P[i][j]
                BY <2>1, <4>1
            <4> QED BY <2>5, <4>3, <4>4
        <3> QED BY <3>1, <3>2
    <2>8. Placed(f[n + 1], S, m, n + 1, P)
        BY <2>5, <2>6, <2>7 DEF Placed
    <2> QED BY <2>2, <2>8
<1>4. \A n \in 0 .. N : n \in T
    <2> HIDE DEF T
    <2> QED BY <1>2, <1>3, BoundedInduction
<1> QED BY <1>4

=============================================================================
