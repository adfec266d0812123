------------------------------ MODULE SynthProofs ------------------------------
(***************************************************************************)
(* The commands that put a pattern on the channels do what they reply, for *)
(* every width, length and rate and buffers of any size: what they play is *)
(* what the reply describes, padding and repetition add no edge, nothing   *)
(* built is refused when it is loaded, and a refusal changes nothing.  The *)
(* arguments are the numbers that are written, to the last digit.          *)
(*                                                                         *)
(* Numbers are followed bit by bit from the lowest: halving a number drops *)
(* its lowest bit, so what is known of the half is known of the rest.      *)
(***************************************************************************)
EXTENDS Synth, DataInduction, FiniteSetTheorems

-----------------------------------------------------------------------------
(* Division.                                                               *)

(* A quotient and a remainder are those of the division. *)
LEMMA DivisionIs ==
    ASSUME NEW n \in Nat \ {0}, NEW q \in Int, NEW r \in 0 .. n - 1
    PROVE  (n * q + r) \div n = q /\ (n * q + r) % n = r
<1>1. DEFINE a == n * q + r
             p == a \div n
<1>2. a \in Int /\ a = n * p + (a % n) /\ p \in Int /\ a % n \in 0 .. n - 1
    OBVIOUS
<1>3. n * p + (a % n) = n * q + r
    BY <1>2
<1> HIDE DEF a, p
<1>4. p = q
    <2>1. CASE p < q
        <3>1. q = p + 1 + (q - p - 1) /\ q - p - 1 \in Nat
            BY <1>2, <2>1
        <3>2. n * q = n * p + n + n * (q - p - 1) /\ n * (q - p - 1) \in Nat
            BY <1>2, <3>1
        <3> QED BY <1>2, <1>3, <3>2
    <2>2. CASE q < p
        <3>1. p = q + 1 + (p - q - 1) /\ p - q - 1 \in Nat
            BY <1>2, <2>2
        <3>2. n * p = n * q + n + n * (p - q - 1) /\ n * (p - q - 1) \in Nat
            BY <1>2, <3>1
        <3> QED BY <1>2, <1>3, <3>2
    <2> QED BY <1>2, <2>1, <2>2
<1>5. a % n = r
    BY <1>2, <1>3, <1>4
<1> QED BY <1>4, <1>5 DEF a, p

(* What is left by a division of a natural number. *)
LEMMA DivisionOf ==
    ASSUME NEW n \in Nat \ {0}, NEW a \in Nat
    PROVE  a = n * (a \div n) + (a % n) /\ a \div n \in Nat /\ a % n \in 0 .. n - 1
OBVIOUS

(* Dividing twice is dividing by the product. *)
LEMMA DividedTwice ==
    ASSUME NEW a \in Nat, NEW m \in Nat \ {0}, NEW n \in Nat \ {0}
    PROVE  a \div (m * n) = (a \div m) \div n
<1>1. DEFINE p == a \div m
             q == p \div n
             r == a % m
             t == p % n
<1>2. a = m * p + r /\ p \in Nat /\ r \in 0 .. m - 1
    BY DivisionOf
<1>3. p = n * q + t /\ q \in Nat /\ t \in 0 .. n - 1
    BY <1>2, DivisionOf
<1> HIDE DEF p, q, r, t
<1>4. a = m * (n * q + t) + r
    BY <1>2, <1>3
<1>5. m * (n * q + t) = (m * n) * q + m * t
    BY <1>3
<1>6. m * t + r \in 0 .. m * n - 1
    <2>1. n = t + 1 + (n - 1 - t) /\ n - 1 - t \in Nat
        BY <1>3
    <2>2. m * n = m * t + m + m * (n - 1 - t) /\ m * (n - 1 - t) \in Nat /\ m * t \in Nat
        BY <1>3, <2>1
    <2> QED BY <1>2, <2>2
<1>7. m * n \in Nat \ {0}
    <2>1. n = 1 + (n - 1) /\ n - 1 \in Nat
        OBVIOUS
    <2>2. m * n = m + m * (n - 1) /\ m * (n - 1) \in Nat
        BY <2>1
    <2> QED BY <2>2
<1>8. a = (m * n) * q + (m * t + r)
    <2> DEFINE c == m * (n * q + t)
               d == (m * n) * q
               e == m * t
    <2>1. d \in Nat /\ e \in Nat /\ c = d + e /\ a = c + r
        BY <1>3, <1>4, <1>5, <1>7
    <2> HIDE DEF c, d, e
    <2>2. a = d + (e + r)
        BY <1>2, <2>1
    <2> QED BY <2>2 DEF d, e
<1>9. a \div (m * n) = q
    <2> DEFINE k == m * n
               s == m * t + r
    <2>1. k \in Nat \ {0} /\ s \in 0 .. k - 1 /\ a = k * q + s
        BY <1>6, <1>7, <1>8
    <2> HIDE DEF k, s
    <2>2. a \div k = q
        BY <1>3, <2>1, DivisionIs
    <2> QED BY <2>2 DEF k
<1> QED BY <1>9 DEF p, q

-----------------------------------------------------------------------------
(* Powers and bits.                                                        *)

(* There is a function of all powers of b, and Power takes its values. *)
LEMMA PowerFunction ==
    ASSUME NEW b \in Nat \ {0}
    PROVE  \E p \in [Nat -> Nat \ {0}] :
              /\ p[0] = 1 /\ \A n \in Nat : p[n + 1] = b * p[n]
              /\ \A n \in Nat : Power(b, n) = p[n]
<1>1. DEFINE G == [v \in Nat \X (Nat \ {0}) |-> b * v[2]]
<1>2. \A n \in Nat, v \in Nat \ {0} : G[<<n, v>>] = b * v /\ b * v \in Nat \ {0}
    <2>1. ASSUME NEW v \in Nat \ {0} PROVE b * v \in Nat \ {0}
        <3>1. v = 1 + (v - 1) /\ v - 1 \in Nat
            OBVIOUS
        <3>2. b * v = b + b * (v - 1) /\ b * (v - 1) \in Nat
            BY <3>1
        <3> QED BY <3>2
    <2> QED BY <2>1
<1> HIDE DEF G
<1>3. StaysIn(Nat \ {0}, 1, G)
    BY <1>2 DEF StaysIn
<1>4. PICK p \in [Nat -> Nat \ {0}] : Unfolds(p, 1, G)
    BY <1>3, Recursion
<1>5. p[0] = 1 /\ \A n \in Nat : p[n + 1] = b * p[n]
    BY <1>2, <1>4 DEF Unfolds
<1>6. ASSUME NEW n \in Nat PROVE Power(b, n) = p[n]
    <2> DEFINE Is(g) == g = [i \in 0 .. n |-> IF i = 0 THEN 1 ELSE b * g[i - 1]]
               f == CHOOSE g : Is(g)
               h == [i \in 0 .. n |-> p[i]]
    <2>1. ASSUME NEW i \in 0 .. n, i # 0 PROVE p[i] = b * h[i - 1]
        <3>1. i - 1 \in Nat /\ i - 1 \in 0 .. n /\ (i - 1) + 1 = i
            BY <2>1
        <3> QED BY <1>5, <3>1
    <2>2. Is(h)
        BY <1>5, <2>1
    <2>3. Is(f)
        BY <2>2
    <2>4. Power(b, n) = f[n]
        BY DEF Power
    <2> HIDE DEF f
    <2> DEFINE T == {i \in 0 .. n : f[i] = p[i]}
    <2>5. 0 \in T
        BY <1>5, <2>3
    <2>6. ASSUME NEW i \in 0 .. n - 1, i \in T PROVE i + 1 \in T
        <3>1. i + 1 \in 0 .. n /\ i + 1 # 0 /\ (i + 1) - 1 = i /\ i \in Nat
            OBVIOUS
        <3>2. f[i + 1] = b * f[i]
            BY <2>3, <3>1
        <3> QED BY <1>5, <2>6, <3>1, <3>2
    <2>7. \A i \in 0 .. n : i \in T
        <3> HIDE DEF T
        <3> QED BY <2>5, <2>6, BoundedInduction
    <2> QED BY <2>4, <2>7
<1> QED BY <1>5, <1>6

(* Powers are positive, and each is b times the one before. *)
LEMMA PowerFacts ==
    ASSUME NEW b \in Nat \ {0}, NEW n \in Nat
    PROVE  /\ Power(b, 0) = 1 /\ Power(b, n + 1) = b * Power(b, n)
           /\ Power(b, n) \in Nat \ {0}
<1>1. PICK p \in [Nat -> Nat \ {0}] :
        /\ p[0] = 1 /\ \A k \in Nat : p[k + 1] = b * p[k]
        /\ \A k \in Nat : Power(b, k) = p[k]
    BY PowerFunction
<1>2. Power(b, 0) = p[0] /\ Power(b, n) = p[n] /\ Power(b, n + 1) = p[n + 1] /\ p[n + 1] = b * p[n]
    BY <1>1
<1> QED BY <1>1, <1>2

(* The lowest bit is what halving leaves, the others are the half's. *)
LEMMA BitFacts ==
    ASSUME NEW n \in Nat
    PROVE  /\ Bit(n, 0) = n % 2
           /\ \A i \in Nat : Bit(n, i + 1) = Bit(n \div 2, i) /\ Bit(n, i) \in {0, 1}
           /\ n \div 2 \in Nat /\ n = 2 * (n \div 2) + (n % 2) /\ n % 2 \in {0, 1}
<1>1. n \div 2 \in Nat /\ n = 2 * (n \div 2) + (n % 2) /\ n % 2 \in {0, 1}
    OBVIOUS
<1>2. Bit(n, 0) = n % 2
    <2>1. Power(2, 0) = 1 /\ n \div 1 = n
        BY PowerFacts
    <2> QED BY <2>1 DEF Bit
<1>3. ASSUME NEW i \in Nat PROVE Bit(n, i + 1) = Bit(n \div 2, i) /\ Bit(n, i) \in {0, 1}
    <2>1. Power(2, i + 1) = 2 * Power(2, i) /\ Power(2, i) \in Nat \ {0}
        BY PowerFacts
    <2>2. n \div (2 * Power(2, i)) = (n \div 2) \div Power(2, i)
        BY <2>1, DividedTwice
    <2>3. n \div Power(2, i) \in Nat
        BY <2>1, DivisionOf
    <2>4. (n \div Power(2, i)) % 2 \in 0 .. 1
        BY <2>3, DivisionOf
    <2> QED BY <2>1, <2>2, <2>4 DEF Bit
<1> QED BY <1>1, <1>2, <1>3

(* A number written as twice another and a bit. *)
LEMMA Doubled ==
    ASSUME NEW m \in Nat, NEW b \in {0, 1}
    PROVE  /\ 2 * m + b \in Nat /\ (2 * m + b) \div 2 = m /\ (2 * m + b) % 2 = b
           /\ Bit(2 * m + b, 0) = b /\ \A i \in Nat : Bit(2 * m + b, i + 1) = Bit(m, i)
<1>1. DEFINE n == 2 * m + b
<1>2. n \in Nat /\ n \div 2 = m /\ n % 2 = b
    OBVIOUS
<1> HIDE DEF n
<1>3. Bit(n, 0) = b /\ \A i \in Nat : Bit(n, i + 1) = Bit(m, i)
    BY <1>2, BitFacts
<1> QED BY <1>2, <1>3 DEF n

(* A number that is not zero and fits w bits has one of them set. *)
LEMMA SomeBitSet ==
    \A w \in Nat : \A n \in Nat : n # 0 /\ n < Power(2, w) => \E i \in 0 .. w - 1 : Bit(n, i) = 1
<1>1. DEFINE Has1(w) == \A n \in Nat : n # 0 /\ n < Power(2, w) => \E i \in 0 .. w - 1 : Bit(n, i) = 1
             T == {w \in Nat : Has1(w)}
<1>2. 0 \in T
    BY PowerFacts
<1>3. ASSUME NEW w \in Nat, w \in T PROVE w + 1 \in T
    <2>1. ASSUME NEW n \in Nat, n # 0, n < Power(2, w + 1) PROVE \E i \in 0 .. w : Bit(n, i) = 1
        <3>1. CASE n % 2 = 1
            <4>1. Bit(n, 0) = n % 2
                BY BitFacts
            <4>2. 0 \in 0 .. w
                OBVIOUS
            <4> QED BY <3>1, <4>1, <4>2
        <3>2. CASE n % 2 = 0
            <4> DEFINE h == n \div 2
            <4>1. h \in Nat /\ n = 2 * h
                BY <3>2
            <4>0. Power(2, w + 1) = 2 * Power(2, w) /\ Power(2, w) \in Nat
                BY PowerFacts
            <4>2. \A i \in Nat : Bit(n, i + 1) = Bit(h, i)
                BY BitFacts
            <4> HIDE DEF h
            <4>3. h # 0 /\ h < Power(2, w)
                BY <2>1, <4>0, <4>1
            <4>4. PICK i \in 0 .. w - 1 : Bit(h, i) = 1
                BY <1>3, <4>1, <4>3
            <4>5. i + 1 \in 0 .. w /\ i \in Nat
                OBVIOUS
            <4> QED BY <4>2, <4>4, <4>5
        <3> QED BY <3>1, <3>2, BitFacts
    <2>2. w + 1 \in Nat /\ (w + 1) - 1 = w
        OBVIOUS
    <2> QED BY <2>1, <2>2
<1>4. \A w \in Nat : w \in T
    <2> HIDE DEF T
    <2> QED BY <1>2, <1>3, SetInduction
<1> QED BY <1>4

(* Whether channel i is high in the code of n. *)
Codes(n, i) == Bit(n, i) # Bit(n, i + 1)

(* The codes of two numbers in a row differ in one bit. *)
LEMMA OneChange ==
    \A w \in Nat : \A n \in Nat : n + 1 < Power(2, w) =>
        \E k \in 0 .. w - 1 : \A i \in Nat : (Codes(n, i) <=> Codes(n + 1, i)) <=> i # k
<1>1. DEFINE One(n, w) == \E k \in 0 .. w - 1 : \A i \in Nat : (Codes(n, i) <=> Codes(n + 1, i)) <=> i # k
             T == {w \in Nat : \A n \in Nat : n + 1 < Power(2, w) => One(n, w)}
<1>2. 0 \in T
    <2>1. ASSUME NEW n \in Nat PROVE ~(n + 1 < Power(2, 0))
        BY PowerFacts
    <2> QED BY <2>1
<1>3. ASSUME NEW w \in Nat, w \in T PROVE w + 1 \in T
    <2>1. ASSUME NEW n \in Nat, n + 1 < Power(2, w + 1) PROVE One(n, w + 1)
        <3>1. DEFINE h == n \div 2
        <3>2. h \in Nat /\ n = 2 * h + (n % 2) /\ n % 2 \in {0, 1}
            BY BitFacts
        <3>3. Power(2, w + 1) = 2 * Power(2, w) /\ Power(2, w) \in Nat
            BY PowerFacts
        <3> HIDE DEF h
        <3>4. Bit(n, 0) = n % 2 /\ \A i \in Nat : Bit(n, i + 1) = Bit(h, i)
            BY BitFacts DEF h
        <3>5. CASE n % 2 = 0
            <4>1. n + 1 = 2 * h + 1
                BY <3>2, <3>5
            <4>2. Bit(n + 1, 0) = 1 /\ \A i \in Nat : Bit(n + 1, i + 1) = Bit(h, i)
                <5>1. 1 \in {0, 1}
                    OBVIOUS
                <5>2. Bit(2 * h + 1, 0) = 1 /\ \A i \in Nat : Bit(2 * h + 1, i + 1) = Bit(h, i)
                    BY <3>2, <5>1, Doubled
                <5> QED BY <4>1, <5>2
            <4>3. ASSUME NEW i \in Nat PROVE (Codes(n, i) <=> Codes(n + 1, i)) <=> i # 0
                <5>1. CASE i = 0
                    <6>1. /\ Bit(n, 0) = 0 /\ Bit(n + 1, 0) = 1
                          /\ Bit(n, 1) = Bit(h, 0) /\ Bit(n + 1, 1) = Bit(h, 0)
                          /\ Bit(h, 0) \in {0, 1}
                        <7>1. 0 + 1 = 1 /\ 0 \in Nat
                            OBVIOUS
                        <7>2. Bit(h, 0) \in {0, 1}
                            BY <3>2, BitFacts
                        <7> QED BY <3>4, <3>5, <4>2, <7>1, <7>2
                    <6> QED BY <5>1, <6>1 DEF Codes
                <5>2. CASE i # 0
                    <6>1. PICK j \in Nat : i = j + 1
                        <7>1. i - 1 \in Nat /\ i = (i - 1) + 1
                            BY <5>2
                        <7> QED BY <7>1
                    <6>2. /\ Bit(n, j + 1) = Bit(n + 1, j + 1)
                          /\ Bit(n, (j + 1) + 1) = Bit(n + 1, (j + 1) + 1)
                        BY <3>4, <4>2
                    <6> QED BY <5>2, <6>1, <6>2 DEF Codes
                <5> QED BY <5>1, <5>2
            <4>4. 0 \in 0 .. (w + 1) - 1
                OBVIOUS
            <4> QED BY <4>3, <4>4
        <3>6. CASE n % 2 = 1
            <4>1. n + 1 = 2 * (h + 1) + 0 /\ h + 1 \in Nat /\ h + 1 < Power(2, w)
                BY <2>1, <3>2, <3>3, <3>6
            <4>2. Bit(n + 1, 0) = 0 /\ \A i \in Nat : Bit(n + 1, i + 1) = Bit(h + 1, i)
                BY <4>1, Doubled
            <4>3. PICK k \in 0 .. w - 1 : \A i \in Nat : (Codes(h, i) <=> Codes(h + 1, i)) <=> i # k
                BY <1>3, <3>2, <4>1
            <4>4. ASSUME NEW i \in Nat PROVE (Codes(n, i) <=> Codes(n + 1, i)) <=> i # k + 1
                <5>1. CASE i = 0
                    <6>1. /\ Bit(n, 0) = 1 /\ Bit(n + 1, 0) = 0
                          /\ Bit(n, 0 + 1) = h % 2 /\ Bit(n + 1, 0 + 1) = (h + 1) % 2
                        <7>1. Bit(h, 0) = h % 2 /\ Bit(h + 1, 0) = (h + 1) % 2
                            BY <3>2, <4>1, BitFacts
                        <7> QED BY <3>4, <3>6, <4>2, <7>1
                    <6>2. h % 2 \in {0, 1} /\ (h + 1) % 2 = 1 - (h % 2)
                        BY <3>2
                    <6>3. Codes(n, 0) <=> Codes(n + 1, 0)
                        <7> DEFINE x == h % 2
                                   y == (h + 1) % 2
                        <7>1. x \in {0, 1} /\ y = 1 - x /\ Bit(n, 0 + 1) = x /\ Bit(n + 1, 0 + 1) = y
                            BY <6>1, <6>2
                        <7> HIDE DEF x, y
                        <7>2. 1 # x <=> 0 # y
                            BY <7>1
                        <7> QED BY <6>1, <7>1, <7>2 DEF Codes
                    <6> QED BY <5>1, <6>3
                <5>2. CASE i # 0
                    <6>1. PICK j \in Nat : i = j + 1
                        <7>1. i - 1 \in Nat /\ i = (i - 1) + 1
                            BY <5>2
                        <7> QED BY <7>1
                    <6>2. (Codes(n, i) <=> Codes(h, j)) /\ (Codes(n + 1, i) <=> Codes(h + 1, j))
                        BY <3>4, <4>2, <6>1 DEF Codes
                    <6>3. i # k + 1 <=> j # k
                        BY <6>1
                    <6>4. (Codes(h, j) <=> Codes(h + 1, j)) <=> j # k
                        BY <4>3
                    <6> QED BY <6>2, <6>3, <6>4
                <5> QED BY <5>1, <5>2
            <4>5. k + 1 \in 0 .. (w + 1) - 1
                OBVIOUS
            <4> QED BY <4>4, <4>5
        <3> QED BY <3>2, <3>5, <3>6
    <2> HIDE DEF One
    <2> QED BY <2>1
<1>4. \A w \in Nat : w \in T
    <2> HIDE DEF T
    <2> QED BY <1>2, <1>3, SetInduction
<1> QED BY <1>4

(* The code of the last number has the highest bit only; that of zero has  *)
(* none.                                                                   *)
LEMMA LastCode ==
    \A w \in Nat : /\ Power(2, w) - 1 \in Nat
                   /\ \A i \in 0 .. w - 1 : Codes(Power(2, w) - 1, i) <=> i = w - 1
<1>1. DEFINE top(w) == Power(2, w) - 1
             Only(w) == top(w) \in Nat /\ \A i \in 0 .. w - 1 : Codes(top(w), i) <=> i = w - 1
             T == {w \in Nat : Only(w) /\ Bit(top(w), 0) = IF w = 0 THEN 0 ELSE 1}
<1>2. 0 \in T
    <2>1. top(0) = 0
        BY PowerFacts
    <2>2. Bit(0, 0) = 0 % 2
        BY BitFacts
    <2> QED BY <2>1, <2>2
<1>3. ASSUME NEW w \in Nat, w \in T PROVE w + 1 \in T
    <2>1. top(w) \in Nat /\ top(w + 1) = 2 * top(w) + 1
        <3>1. Power(2, w + 1) = 2 * Power(2, w) /\ Power(2, w) \in Nat \ {0}
            BY PowerFacts
        <3> QED BY <3>1
    <2>2. /\ top(w + 1) \in Nat /\ Bit(top(w + 1), 0) = 1
          /\ \A i \in Nat : Bit(top(w + 1), i + 1) = Bit(top(w), i)
        <3> HIDE DEF top
        <3>1. 1 \in {0, 1}
            OBVIOUS
        <3>2. /\ 2 * top(w) + 1 \in Nat /\ Bit(2 * top(w) + 1, 0) = 1
              /\ \A i \in Nat : Bit(2 * top(w) + 1, i + 1) = Bit(top(w), i)
            BY <2>1, <3>1, Doubled
        <3> QED BY <2>1, <3>2
    <2>3. /\ \A i \in 0 .. w - 1 : Codes(top(w), i) <=> i = w - 1
          /\ Bit(top(w), 0) = IF w = 0 THEN 0 ELSE 1
        BY <1>3
    <2> HIDE DEF top
    <2>4. ASSUME NEW i \in 0 .. (w + 1) - 1 PROVE Codes(top(w + 1), i) <=> i = (w + 1) - 1
        <3>1. CASE i = 0
            <4>1. Bit(top(w + 1), 0 + 1) = Bit(top(w), 0)
                BY <2>2
            <4> QED BY <2>2, <2>3, <3>1, <4>1 DEF Codes
        <3>2. CASE i # 0
            <4>1. PICK j \in 0 .. w - 1 : i = j + 1
                <5>1. i - 1 \in 0 .. w - 1 /\ i = (i - 1) + 1
                    BY <3>2
                <5> QED BY <5>1
            <4>2. Codes(top(w + 1), i) <=> Codes(top(w), j)
                BY <2>2, <4>1 DEF Codes
            <4>3. Codes(top(w), j) <=> j = w - 1
                BY <2>3
            <4> QED BY <4>1, <4>2, <4>3
        <3> QED BY <3>1, <3>2
    <2> QED BY <2>2, <2>4
<1>4. \A w \in Nat : w \in T
    <2> HIDE DEF T
    <2> QED BY <1>2, <1>3, SetInduction
<1> QED BY <1>4

(* Every set of channels is the code of a number. *)
LEMMA EveryCode ==
    \A w \in Nat : \A A \in SUBSET (0 .. w - 1) :
        \E n \in Nat : n < Power(2, w) /\ \A i \in 0 .. w - 1 : Codes(n, i) <=> i \in A
<1>1. DEFINE Coded(A, w) == \E n \in Nat : n < Power(2, w) /\ \A i \in 0 .. w - 1 : Codes(n, i) <=> i \in A
             T == {w \in Nat : \A A \in SUBSET (0 .. w - 1) : Coded(A, w)}
<1>2. 0 \in T
    <2>1. 0 < Power(2, 0)
        BY PowerFacts
    <2> QED BY <2>1
<1>3. ASSUME NEW w \in Nat, w \in T PROVE w + 1 \in T
    <2>1. ASSUME NEW A \in SUBSET (0 .. (w + 1) - 1) PROVE Coded(A, w + 1)
        <3>1. DEFINE H == {j \in 0 .. w - 1 : j + 1 \in A}
        <3>2. PICK m \in Nat : m < Power(2, w) /\ \A i \in 0 .. w - 1 : Codes(m, i) <=> i \in H
            BY <1>3
        <3>3. m % 2 \in {0, 1} /\ Bit(m, 0) = m % 2
            BY BitFacts
        <3>4. PICK b \in {0, 1} : b # Bit(m, 0) <=> 0 \in A
            BY <3>3
        <3>5. /\ 2 * m + b \in Nat /\ Bit(2 * m + b, 0) = b
              /\ \A i \in Nat : Bit(2 * m + b, i + 1) = Bit(m, i)
            BY Doubled
        <3>6. 2 * m + b < Power(2, w + 1)
            <4>1. Power(2, w + 1) = 2 * Power(2, w) /\ Power(2, w) \in Nat
                BY PowerFacts
            <4> QED BY <3>2, <4>1
        <3>7. ASSUME NEW i \in 0 .. (w + 1) - 1 PROVE Codes(2 * m + b, i) <=> i \in A
            <4>1. CASE i = 0
                <5>1. Bit(2 * m + b, 0 + 1) = Bit(m, 0)
                    BY <3>5
                <5> QED BY <3>4, <3>5, <4>1, <5>1 DEF Codes
            <4>2. CASE i # 0
                <5>1. PICK j \in 0 .. w - 1 : i = j + 1
                    <6>1. i - 1 \in 0 .. w - 1 /\ i = (i - 1) + 1
                        BY <4>2
                    <6> QED BY <6>1
                <5>2. Codes(2 * m + b, i) <=> Codes(m, j)
                    BY <3>5, <5>1 DEF Codes
                <5>3. Codes(m, j) <=> j + 1 \in A
                    BY <3>2
                <5> QED BY <5>1, <5>2, <5>3
            <4> QED BY <4>1, <4>2
        <3> QED BY <3>5, <3>6, <3>7
    <2> HIDE DEF Coded
    <2> QED BY <2>1
<1>4. \A w \in Nat : w \in T
    <2> HIDE DEF T
    <2> QED BY <1>2, <1>3, SetInduction
<1> QED BY <1>4

-----------------------------------------------------------------------------
(* Patterns: what the writer and the padding make of logical samples.      *)

(* A function on 1 .. n is a sequence of length n. *)
LEMMA FunctionSeq ==
    ASSUME NEW S, NEW n \in Nat, NEW f \in [1 .. n -> S]
    PROVE  f \in Seq(S) /\ Len(f) = n /\ DOMAIN f = 1 .. n
BY SeqDef

(* The elements of a sequence. *)
LEMMA SampleFacts ==
    ASSUME NEW s \in Samples
    PROVE  /\ Len(s) \in Nat /\ DOMAIN s = 1 .. Len(s) /\ s \in [1 .. Len(s) -> SUBSET Channels]
           /\ \A i \in 1 .. Len(s) : s[i] \in SUBSET Channels
           /\ s # <<>> => Len(s) \in Nat \ {0} /\ Last(s) = s[Len(s)] /\ Last(s) \in SUBSET Channels
<1>1. s \in Seq(SUBSET Channels)
    BY DEF Samples
<1>2. Len(s) \in Nat /\ DOMAIN s = 1 .. Len(s) /\ s \in [1 .. Len(s) -> SUBSET Channels]
    BY <1>1, LenProperties
<1>3. s # <<>> => Len(s) # 0
    BY <1>1, EmptySeq
<1> QED BY <1>2, <1>3 DEF Last

(* Entry i of a writer that repeats every sample: which one it is.         *)
LEMMA EntryFacts ==
    ASSUME NEW n \in Nat, NEW r \in Nat \ {0}, NEW i \in 1 .. n * r
    PROVE  /\ Entry(i, n, r) \in 1 .. n
           /\ i < n * r => Entry(i + 1, n, r) = IF i % r = 0 THEN Entry(i, n, r) + 1 ELSE Entry(i, n, r)
<1>1. n * r \in Nat
    OBVIOUS
<1>2. DEFINE q == (i - 1) \div r
             t == (i - 1) % r
<1>3. i - 1 \in Nat /\ i - 1 = r * q + t /\ q \in Nat /\ t \in 0 .. r - 1
    <2>1. i - 1 \in Nat
        BY <1>1
    <2> QED BY <2>1, DivisionOf
<1>4. Entry(i, n, r) = q + 1
    BY DEF Entry
<1>5. Entry(i + 1, n, r) = (i \div r) + 1
    BY DEF Entry
<1> HIDE DEF q, t
<1>6. q < n
    <2>1. SUFFICES ASSUME q >= n PROVE FALSE
        BY <1>3
    <2>2. q = n + (q - n) /\ q - n \in Nat
        BY <1>3, <2>1
    <2>3. r * q = n * r + r * (q - n) /\ r * (q - n) \in Nat
        BY <2>2
    <2> QED BY <1>1, <1>3, <2>3
<1>7. CASE t = r - 1
    <2>1. i = r * (q + 1) + 0 /\ 0 \in 0 .. r - 1 /\ q + 1 \in Int
        <3>1. r * (q + 1) = r * q + r
            BY <1>3
        <3> QED BY <1>3, <1>7, <3>1
    <2>2. (r * (q + 1) + 0) \div r = q + 1 /\ (r * (q + 1) + 0) % r = 0
        BY <2>1, DivisionIs
    <2>3. i \div r = q + 1 /\ i % r = 0
        BY <2>1, <2>2
    <2> QED BY <1>3, <1>4, <1>5, <1>6, <2>3
<1>8. CASE t # r - 1
    <2>1. i = r * q + (t + 1) /\ t + 1 \in 0 .. r - 1
        BY <1>3, <1>8
    <2>2. (r * q + (t + 1)) \div r = q /\ (r * q + (t + 1)) % r = t + 1
        BY <1>3, <2>1, DivisionIs
    <2>3. i \div r = q /\ i % r = t + 1 /\ t + 1 # 0
        BY <1>3, <2>1, <2>2
    <2> QED BY <1>3, <1>4, <1>5, <1>6, <2>3
<1> QED BY <1>7, <1>8

(* What the writer writes. *)
LEMMA WriterWrites ==
    ASSUME NEW s \in Samples, NEW r \in Nat \ {0}
    PROVE  /\ Write(s, r).ok \in BOOLEAN
           /\ ~Write(s, r).ok => Write(s, r).error = "TooLong"
           /\ Write(s, r).ok =>
                 /\ Write(s, r).value \in Samples
                 /\ Len(Write(s, r).value) = Len(s) * r /\ Len(s) * r <= Capacity
                 /\ \A i \in 1 .. Len(s) * r : Write(s, r).value[i] = s[Entry(i, Len(s), r)]
<1>1. DEFINE n == Len(s) * r
             v == [i \in 1 .. n |-> s[Entry(i, Len(s), r)]]
<1>2. Len(s) \in Nat /\ n \in Nat /\ \A i \in 1 .. Len(s) : s[i] \in SUBSET Channels
    BY SampleFacts
<1>3. v \in [1 .. n -> SUBSET Channels]
    BY <1>2, EntryFacts
<1>4. v \in Samples /\ Len(v) = n
    <2> HIDE DEF v, n
    <2> QED BY <1>2, <1>3, FunctionSeq DEF Samples
<1>5. Write(s, r) = IF n > Capacity THEN Unbuilt("TooLong", Written(s, r, Capacity \div r)) ELSE Ok(v)
    BY DEF Write, Written
<1>6. \A i \in 1 .. n : v[i] = s[Entry(i, Len(s), r)]
    OBVIOUS
<1>7. n > Capacity \/ n <= Capacity
    BY <1>2, PatternsAssumption
<1> HIDE DEF v, n
<1>8. CASE n > Capacity
    <2>1. Write(s, r).ok = FALSE /\ Write(s, r).error = "TooLong"
        BY <1>5, <1>8 DEF Unbuilt
    <2> QED BY <2>1
<1>9. CASE ~(n > Capacity)
    <2>1. Write(s, r).ok = TRUE /\ Write(s, r).value = v
        BY <1>5, <1>9 DEF Ok
    <2> QED BY <1>4, <1>6, <1>7, <1>9, <2>1 DEF n
<1> QED BY <1>8, <1>9

(* With nothing repeated it writes what it is given. *)
LEMMA WrittenOnce ==
    ASSUME NEW s \in Samples, Write(s, 1).ok
    PROVE  Write(s, 1).value = s /\ Len(s) <= Capacity
<1>1. Len(s) \in Nat /\ s \in [1 .. Len(s) -> SUBSET Channels]
    BY SampleFacts
<1>2. Len(s) * 1 = Len(s) /\ 1 \in Nat \ {0}
    <2>1. \A n \in Nat : n * 1 = n
        OBVIOUS
    <2>2. Len(s) * 1 = Len(s)
        BY <1>1, <2>1, Zenon
    <2> QED BY <2>2
<1>3. /\ Write(s, 1).value \in Samples /\ Len(Write(s, 1).value) = Len(s) /\ Len(s) <= Capacity
      /\ \A i \in 1 .. Len(s) : Write(s, 1).value[i] = s[Entry(i, Len(s), 1)]
    BY <1>2, WriterWrites
<1>4. \A i \in 1 .. Len(s) : Entry(i, Len(s), 1) = i
    BY <1>1 DEF Entry
<1>5. Write(s, 1).value \in [1 .. Len(s) -> SUBSET Channels]
    BY <1>3, SampleFacts
<1> QED BY <1>1, <1>3, <1>4, <1>5

(* The pad repeats the last sample, or there is none; what is padded can   *)
(* be loaded.                                                              *)
LEMMA Padded ==
    ASSUME NEW s \in Samples, s # <<>>, Len(s) <= Capacity
    PROVE  /\ PadEven(s) \in Samples /\ PadEven(s) # <<>>
           /\ Len(PadEven(s)) % 2 = 0 /\ Len(PadEven(s)) <= Capacity
           /\ LoadError(PadEven(s)) = "none"
           /\ PadEven(s) = s \/ (PadEven(s) = Append(s, Last(s)) /\ Len(PadEven(s)) = Len(s) + 1)
           /\ \A i \in 1 .. Len(s) : PadEven(s)[i] = s[i]
           /\ Last(PadEven(s)) = Last(s)
<1>1. /\ Len(s) \in Nat \ {0} /\ Capacity \in Nat /\ Capacity % 2 = 0 /\ s \in Seq(SUBSET Channels)
      /\ Last(s) \in SUBSET Channels
    BY SampleFacts, PatternsAssumption DEF Samples
<1>2. CASE Len(s) % 2 = 0 \/ Len(s) >= Capacity
    <2>1. PadEven(s) = s
        BY <1>2 DEF PadEven
    <2>2. Len(s) % 2 = 0
        BY <1>1, <1>2
    <2> QED BY <1>1, <2>1, <2>2 DEF LoadError
<1>3. CASE ~(Len(s) % 2 = 0 \/ Len(s) >= Capacity)
    <2>1. PadEven(s) = Append(s, Last(s))
        BY <1>3 DEF PadEven
    <2> DEFINE p == Append(s, Last(s))
    <2>2. /\ p \in Seq(SUBSET Channels) /\ Len(p) = Len(s) + 1 /\ p[Len(s) + 1] = Last(s)
          /\ \A i \in 1 .. Len(s) : p[i] = s[i]
        BY <1>1, AppendProperties
    <2> HIDE DEF p
    <2>3. Len(p) % 2 = 0 /\ Len(p) <= Capacity
        BY <1>1, <1>3, <2>2
    <2>4. p # <<>>
        BY <1>1, <2>2
    <2>5. Last(p) = Last(s)
        BY <2>2 DEF Last
    <2>6. LoadError(p) = "none"
        BY <1>1, <2>2, <2>3, <2>4 DEF LoadError
    <2>7. PadEven(s) = p /\ p = Append(s, Last(s))
        BY <2>1 DEF p
    <2> QED BY <2>2, <2>3, <2>4, <2>5, <2>6, <2>7 DEF Samples
<1> QED BY <1>2, <1>3

-----------------------------------------------------------------------------
(* Levels: padding adds no edge.                                           *)

(* Putting pieces together one after the other. *)
Joins(f, N, P) == f = [i \in 1 .. N |-> IF i = 1 THEN P[i] ELSE f[i - 1] \o P[i]]

Grows(f, N, P, S) ==
    /\ f[1] = P[1] /\ \A i \in 1 .. N - 1 : f[i + 1] = f[i] \o P[i + 1]
    /\ \A i \in 1 .. N : f[i] \in Seq(S)

(* FlattenSeq does it. *)
LEMMA FlattenIs ==
    ASSUME NEW S, NEW N \in Nat \ {0}, NEW P \in [1 .. N -> Seq(S)]
    PROVE  \E f : FlattenSeq(P) = f[N] /\ Grows(f, N, P, S)
<1>1. PICK g \in [0 .. N -> Seq(S)] : IsRow(g, N, P)
    BY RowExists
<1>2. DEFINE h == [i \in 1 .. N |-> g[i]]
             f == CHOOSE f : Joins(f, N, P)
<1>3. Joins(h, N, P)
    <2>1. ASSUME NEW i \in 1 .. N PROVE h[i] = IF i = 1 THEN P[i] ELSE h[i - 1] \o P[i]
        <3>1. i \in 0 .. N /\ i # 0 /\ i - 1 \in 0 .. N /\ P[i] \in Seq(S)
            OBVIOUS
        <3>2. g[i] = g[i - 1] \o P[i]
            BY <1>1, <3>1 DEF IsRow
        <3>3. CASE i = 1
            <4>1. i - 1 = 0 /\ 0 \in 0 .. N
                BY <3>3
            <4>2. g[i - 1] = <<>>
                BY <1>1, <4>1 DEF IsRow
            <4>3. <<>> \o P[i] = P[i]
                BY <3>1
            <4> QED BY <3>2, <3>3, <4>2, <4>3
        <3>4. CASE i # 1
            <4>1. i - 1 \in 1 .. N
                BY <3>4
            <4> QED BY <3>2, <3>4, <4>1
        <3> QED BY <3>3, <3>4
    <2> HIDE DEF h
    <2>2. h = [i \in 1 .. N |-> h[i]]
        BY DEF h
    <2> QED BY <2>1, <2>2 DEF Joins
<1>4. Joins(f, N, P)
    BY <1>3
<1>5. FlattenSeq(P) = f[N]
    <2>1. Len(P) = N /\ N # 0
        BY FunctionSeq
    <2> QED BY <2>1 DEF FlattenSeq, Joins
<1> HIDE DEF f
<1>6. f[1] = P[1] /\ \A i \in 1 .. N - 1 : f[i + 1] = f[i] \o P[i + 1]
    <2>1. f[1] = P[1]
        BY <1>4 DEF Joins
    <2>2. ASSUME NEW i \in 1 .. N - 1 PROVE f[i + 1] = f[i] \o P[i + 1]
        <3>1. i + 1 \in 1 .. N /\ i + 1 # 1 /\ (i + 1) - 1 = i
            OBVIOUS
        <3> QED BY <1>4, <3>1 DEF Joins
    <2> QED BY <2>1, <2>2
<1>7. ASSUME NEW i \in 1 .. N PROVE f[i] \in Seq(S)
    <2> DEFINE T == {k \in 0 .. N - 1 : f[k + 1] \in Seq(S)}
    <2>1. 0 \in T
        BY <1>6
    <2>2. ASSUME NEW k \in 0 .. (N - 1) - 1, k \in T PROVE k + 1 \in T
        <3>1. k + 1 \in 1 .. N - 1 /\ (k + 1) + 1 \in 1 .. N /\ k + 1 \in 0 .. N - 1
            OBVIOUS
        <3>2. f[(k + 1) + 1] = f[k + 1] \o P[(k + 1) + 1]
            BY <1>6, <3>1
        <3>3. f[k + 1] \in Seq(S) /\ P[(k + 1) + 1] \in Seq(S)
            BY <2>2, <3>1
        <3>4. f[k + 1] \o P[(k + 1) + 1] \in Seq(S)
            BY <3>3, ConcatProperties
        <3> QED BY <3>1, <3>2, <3>4
    <2>3. \A k \in 0 .. N - 1 : k \in T
        <3> HIDE DEF T
        <3>1. N - 1 \in Nat
            OBVIOUS
        <3> QED BY <2>1, <2>2, <3>1, BoundedInduction
    <2>4. i - 1 \in 0 .. N - 1 /\ (i - 1) + 1 = i
        OBVIOUS
    <2> QED BY <2>3, <2>4
<1> QED BY <1>5, <1>6, <1>7 DEF Grows

(* The pieces of Levels: one sample, or none where the next is the same. *)
Pieced(s) == [i \in DOMAIN s |-> IF i < Len(s) /\ s[i] = s[i + 1] THEN <<>> ELSE <<s[i]>>]

(* A last sample once more adds no level. *)
LEMMA LevelsPadded ==
    ASSUME NEW s \in Samples, s # <<>>
    PROVE  Levels(Append(s, Last(s))) = Levels(s)
<1>1. DEFINE S == SUBSET Channels
             n == Len(s)
             p == Append(s, Last(s))
             P == Pieced(s)
             Q == Pieced(p)
<1>2. n \in Nat \ {0} /\ DOMAIN s = 1 .. n /\ (\A i \in 1 .. n : s[i] \in S) /\ s \in Seq(S) /\ Last(s) = s[n]
    BY SampleFacts DEF Samples
<1>3. /\ Len(p) = n + 1 /\ DOMAIN p = 1 .. n + 1 /\ p[n + 1] = s[n]
      /\ \A i \in 1 .. n : p[i] = s[i]
    <2>1. p \in Seq(S) /\ Len(p) = n + 1 /\ p[n + 1] = s[n] /\ \A i \in 1 .. n : p[i] = s[i]
        BY <1>2, AppendProperties
    <2> QED BY <2>1, LenProperties
<1> HIDE DEF p
<1>4. \A i \in 1 .. n : s[i] \in S /\ <<s[i]>> \in Seq(S) /\ <<>> \in Seq(S)
    BY <1>2
<1>5. P \in [1 .. n -> Seq(S)] /\ P[n] = <<s[n]>>
    <2>1. P \in [1 .. n -> Seq(S)]
        BY <1>2, <1>4 DEF Pieced
    <2>2. n \in DOMAIN s /\ ~(n < n)
        BY <1>2
    <2>3. P[n] = <<s[n]>>
        BY <2>2 DEF Pieced
    <2> QED BY <2>1, <2>3
<1>6. Q \in [1 .. n + 1 -> Seq(S)]
    <2>1. \A i \in 1 .. n + 1 : p[i] \in S
        BY <1>2, <1>3
    <2>2. \A i \in 1 .. n + 1 : <<p[i]>> \in Seq(S) /\ <<>> \in Seq(S)
        BY <2>1
    <2> QED BY <1>3, <2>2 DEF Pieced
<1>7. Q[n] = <<>> /\ Q[n + 1] = <<s[n]>>
    <2>1. n \in 1 .. n + 1 /\ n + 1 \in 1 .. n + 1 /\ n < n + 1 /\ ~(n + 1 < n + 1) /\ n \in 1 .. n
        BY <1>2
    <2> QED BY <1>3, <2>1 DEF Pieced
<1>8. ASSUME NEW i \in 1 .. n - 1 PROVE Q[i] = P[i]
    <2>1. i \in 1 .. n + 1 /\ i \in 1 .. n /\ i + 1 \in 1 .. n /\ i < n /\ i < n + 1
        BY <1>2
    <2> QED BY <1>2, <1>3, <2>1 DEF Pieced
<1>9. Levels(s) = FlattenSeq(P) /\ Levels(p) = FlattenSeq(Q)
    BY DEF Levels, Pieced
<1> HIDE DEF P, Q, S, n
<1>10. PICK f : FlattenSeq(P) = f[n] /\ Grows(f, n, P, S)
    BY <1>2, <1>5, FlattenIs
<1>11. PICK g : FlattenSeq(Q) = g[n + 1] /\ Grows(g, n + 1, Q, S)
    <2>1. n + 1 \in Nat \ {0}
        BY <1>2
    <2> QED BY <1>6, <2>1, FlattenIs
<1>12. /\ FlattenSeq(P) = f[n] /\ f[1] = P[1]
       /\ \A i \in 1 .. n - 1 : f[i + 1] = f[i] \o P[i + 1]
       /\ \A i \in 1 .. n : f[i] \in Seq(S)
    BY <1>10 DEF Grows
<1>13. /\ FlattenSeq(Q) = g[n + 1] /\ g[1] = Q[1]
       /\ \A i \in 1 .. (n + 1) - 1 : g[i + 1] = g[i] \o Q[i + 1]
       /\ \A i \in 1 .. n + 1 : g[i] \in Seq(S)
    BY <1>11 DEF Grows
<1>14. CASE n = 1
    <2>1. f[1] = <<s[n]>> /\ g[1] = <<>>
        BY <1>5, <1>7, <1>12, <1>13, <1>14
    <2>2. 1 \in 1 .. (n + 1) - 1
        BY <1>14
    <2>3. g[1 + 1] = g[1] \o Q[1 + 1]
        BY <1>13, <2>2
    <2>4. g[n + 1] = <<>> \o <<s[n]>>
        BY <1>7, <1>14, <2>1, <2>3
    <2> QED BY <1>9, <1>12, <1>13, <1>14, <2>1, <2>4 DEF p
<1>15. CASE n # 1
    <2>1. n - 1 \in 1 .. n - 1 /\ (n - 1) + 1 = n /\ n - 1 \in 1 .. (n + 1) - 1 /\ n \in 1 .. (n + 1) - 1
          /\ n - 1 \in 1 .. n /\ n - 2 \in Nat /\ (n - 2) + 1 = n - 1
        BY <1>2, <1>15
    <2> DEFINE T == {k \in 0 .. n - 2 : g[k + 1] = f[k + 1]}
    <2>2. 0 \in T
        <3>1. 1 \in 1 .. n - 1 /\ 0 \in 0 .. n - 2 /\ 0 + 1 = 1
            BY <2>1
        <3> QED BY <1>8, <1>12, <1>13, <3>1
    <2>3. ASSUME NEW k \in 0 .. (n - 2) - 1, k \in T PROVE k + 1 \in T
        <3>1. /\ k + 1 \in 1 .. n - 1 /\ k + 1 \in 1 .. (n + 1) - 1
              /\ (k + 1) + 1 \in 1 .. n - 1 /\ k + 1 \in 0 .. n - 2
            BY <2>1
        <3>2. g[(k + 1) + 1] = g[k + 1] \o Q[(k + 1) + 1] /\ f[(k + 1) + 1] = f[k + 1] \o P[(k + 1) + 1]
            BY <1>12, <1>13, <3>1
        <3> QED BY <1>8, <2>3, <3>1, <3>2
    <2>4. \A k \in 0 .. n - 2 : k \in T
        <3> HIDE DEF T
        <3> QED BY <2>1, <2>2, <2>3, BoundedInduction
    <2>5. g[n - 1] = f[n - 1]
        <3>1. n - 2 \in 0 .. n - 2
            BY <2>1
        <3>2. g[(n - 2) + 1] = f[(n - 2) + 1]
            BY <2>4, <3>1
        <3> QED BY <2>1, <3>2
    <2>6. f[(n - 1) + 1] = f[n - 1] \o P[(n - 1) + 1] /\ f[n - 1] \in Seq(S)
        BY <1>12, <2>1
    <2>7. f[n] = f[n - 1] \o <<s[n]>>
        BY <1>5, <2>1, <2>6
    <2>8. g[(n - 1) + 1] = g[n - 1] \o Q[(n - 1) + 1]
        BY <1>13, <2>1
    <2>9. g[n] = f[n - 1] \o <<>>
        BY <1>7, <2>1, <2>5, <2>8
    <2>10. g[n] = f[n - 1]
        BY <2>6, <2>9
    <2>11. g[n + 1] = g[n] \o Q[n + 1]
        BY <1>13, <2>1
    <2>12. g[n + 1] = f[n]
        BY <1>7, <2>7, <2>10, <2>11
    <2> QED BY <1>9, <1>12, <1>13, <2>12 DEF p
<1> QED BY <1>14, <1>15

(* So the levels of a pattern are those of what was padded. *)
LEMMA LevelsKept ==
    ASSUME NEW s \in Samples, s # <<>>, Len(s) <= Capacity
    PROVE  Levels(PadEven(s)) = Levels(s)
BY Padded, LevelsPadded

-----------------------------------------------------------------------------
(* Sweeps.                                                                 *)

Width == 1 .. BusWidth

(* Neighbouring samples of a sweep over w channels differ. *)
Distinct(s) == \A j \in 1 .. Len(s) - 1 : s[j] # s[j + 1]
SweepOver(s, w) == s \in Seq(SUBSET (0 .. w - 1)) /\ s # <<>> /\ Distinct(s)

(* A function of at least one number is a sweep if neighbours differ. *)
LEMMA SweepIs ==
    ASSUME NEW w, NEW n \in Nat \ {0}, NEW f \in [1 .. n -> SUBSET (0 .. w - 1)],
           \A j \in 1 .. n - 1 : f[j] # f[j + 1]
    PROVE  SweepOver(f, w) /\ Len(f) = n
<1>1. f \in Seq(SUBSET (0 .. w - 1)) /\ Len(f) = n
    BY FunctionSeq
<1>2. f # <<>>
    BY <1>1
<1> QED BY <1>1, <1>2 DEF SweepOver, Distinct

(* One channel after the other, high or low. *)
LEMMA WalkSweeps ==
    ASSUME NEW w \in Width
    PROVE  SweepOver(WalkingOnes(w), w) /\ SweepOver(WalkingZeros(w), w)
<1>1. w \in Nat \ {0}
    BY SynthAssumption DEF Width
<1>2. WalkingOnes(w) \in [1 .. w -> SUBSET (0 .. w - 1)]
    BY <1>1 DEF WalkingOnes
<1>3. WalkingZeros(w) \in [1 .. w -> SUBSET (0 .. w - 1)]
    BY <1>1 DEF WalkingZeros, MaskOfWidth
<1>4. ASSUME NEW j \in 1 .. w - 1
      PROVE  WalkingOnes(w)[j] # WalkingOnes(w)[j + 1] /\ WalkingZeros(w)[j] # WalkingZeros(w)[j + 1]
    <2>1. j \in 1 .. w /\ j + 1 \in 1 .. w /\ (j + 1) - 1 = j /\ j - 1 \in 0 .. w - 1 /\ j - 1 # j
        BY <1>1
    <2>2. WalkingOnes(w)[j] = {j - 1} /\ WalkingOnes(w)[j + 1] = {j}
        BY <2>1 DEF WalkingOnes
    <2>3. WalkingZeros(w)[j] = (0 .. w - 1) \ {j - 1} /\ WalkingZeros(w)[j + 1] = (0 .. w - 1) \ {j}
        BY <2>1 DEF WalkingZeros, MaskOfWidth
    <2> QED BY <2>1, <2>2, <2>3
<1> QED BY <1>1, <1>2, <1>3, <1>4, SweepIs

(* The codes of GrayCode, and how many there are. *)
LEMMA GrayIs ==
    ASSUME NEW w \in Width
    PROVE  /\ Power(2, w) \in Nat \ {0} /\ w \in Nat \ {0}
           /\ Gray(w) \in [1 .. Power(2, w) -> SUBSET (0 .. w - 1)]
           /\ \A j \in 1 .. Power(2, w) : Gray(w)[j] = {i \in 0 .. w - 1 : Codes(j - 1, i)}
<1>1. w \in Nat \ {0} /\ Power(2, w) \in Nat \ {0}
    BY PowerFacts, SynthAssumption DEF Width
<1>2. \A j \in 1 .. Power(2, w) : GrayCode(j - 1, w) = {i \in 0 .. w - 1 : Codes(j - 1, i)}
    BY DEF GrayCode, Codes
<1> QED BY <1>1, <1>2 DEF Gray

(* The set of the channels that change between two samples. *)
LEMMA GraySweeps ==
    ASSUME NEW w \in Width
    PROVE  /\ SweepOver(Gray(w), w) /\ Len(Gray(w)) = Power(2, w)
           /\ \A j \in 1 .. Power(2, w) - 1 :
                 \E k \in 0 .. w - 1 : SymDiff(Gray(w)[j], Gray(w)[j + 1]) = {k}
           /\ SymDiff(Gray(w)[Power(2, w)], Gray(w)[1]) \subseteq {w - 1}
           /\ \A A \in SUBSET (0 .. w - 1) : \E j \in 1 .. Power(2, w) : Gray(w)[j] = A
<1>1. DEFINE N == Power(2, w)
             g == Gray(w)
<1>2. /\ N \in Nat \ {0} /\ w \in Nat \ {0} /\ g \in [1 .. N -> SUBSET (0 .. w - 1)]
      /\ \A j \in 1 .. N : g[j] = {i \in 0 .. w - 1 : Codes(j - 1, i)}
    BY GrayIs
<1> HIDE DEF g
<1>3. ASSUME NEW j \in 1 .. N - 1 PROVE \E k \in 0 .. w - 1 : SymDiff(g[j], g[j + 1]) = {k}
    <2>1. j - 1 \in Nat /\ (j - 1) + 1 = j /\ j < N /\ (j + 1) - 1 = j /\ j \in 1 .. N /\ j + 1 \in 1 .. N
        BY <1>2
    <2>2. PICK k \in 0 .. w - 1 : \A i \in Nat : (Codes(j - 1, i) <=> Codes((j - 1) + 1, i)) <=> i # k
        <3>1. \A n \in Nat : n + 1 < Power(2, w) =>
                \E k \in 0 .. w - 1 : \A i \in Nat : (Codes(n, i) <=> Codes(n + 1, i)) <=> i # k
            BY <1>2, OneChange
        <3>2. (j - 1) + 1 < Power(2, w)
            BY <2>1
        <3> QED BY <2>1, <3>1, <3>2
    <2>3. g[j] = {i \in 0 .. w - 1 : Codes(j - 1, i)} /\ g[j + 1] = {i \in 0 .. w - 1 : Codes(j, i)}
        BY <1>2, <2>1
    <2>4. \A i \in 0 .. w - 1 : (i \in g[j] <=> i \in g[j + 1]) <=> i # k
        BY <2>1, <2>2, <2>3
    <2>5. SymDiff(g[j], g[j + 1]) = {k}
        BY <2>3, <2>4 DEF SymDiff
    <2> QED BY <2>5
<1>4. SymDiff(g[N], g[1]) \subseteq {w - 1}
    <2>1. N \in 1 .. N /\ 1 \in 1 .. N
        BY <1>2
    <2>2. \A i \in 0 .. w - 1 : Codes(N - 1, i) <=> i = w - 1
        BY <1>2, LastCode
    <2>3. g[N] = {i \in 0 .. w - 1 : Codes(N - 1, i)} /\ g[1] = {i \in 0 .. w - 1 : Codes(1 - 1, i)}
        BY <1>2, <2>1
    <2>4. \A i \in 0 .. w - 1 : ~Codes(1 - 1, i)
        <3>1. \A i \in Nat : Bit(0, i) = 0
            <4>1. ASSUME NEW i \in Nat PROVE Bit(0, i) = 0
                <5>1. Power(2, i) \in Nat \ {0}
                    BY PowerFacts
                <5>2. 0 \div Power(2, i) = 0
                    <6>1. 0 \in 0 .. Power(2, i) - 1 /\ Power(2, i) * 0 + 0 = 0
                        BY <5>1
                    <6> QED BY <5>1, <6>1, DivisionIs
                <5> QED BY <5>2 DEF Bit
            <4> QED BY <4>1
        <3>2. 1 - 1 = 0 /\ \A i \in 0 .. w - 1 : i \in Nat /\ i + 1 \in Nat
            OBVIOUS
        <3> QED BY <3>1, <3>2 DEF Codes
    <2> QED BY <2>2, <2>3, <2>4 DEF SymDiff
<1>5. ASSUME NEW A \in SUBSET (0 .. w - 1) PROVE \E j \in 1 .. N : g[j] = A
    <2>1. PICK n \in Nat : n < N /\ \A i \in 0 .. w - 1 : Codes(n, i) <=> i \in A
        BY <1>2, EveryCode
    <2>2. n + 1 \in 1 .. N /\ (n + 1) - 1 = n
        BY <1>2, <2>1
    <2>3. g[n + 1] = {i \in 0 .. w - 1 : Codes(n, i)}
        BY <1>2, <2>2
    <2>4. g[n + 1] = A
        BY <2>1, <2>3
    <2> QED BY <2>2, <2>4
<1>6. \A j \in 1 .. N - 1 : g[j] # g[j + 1]
    BY <1>3 DEF SymDiff
<1>7. SweepOver(g, w) /\ Len(g) = N
    BY <1>2, <1>6, SweepIs
<1> QED BY <1>3, <1>4, <1>5, <1>7 DEF g

(* Counting changes the lowest channel at every step. *)
LEMMA RampSweeps ==
    ASSUME NEW w \in Width
    PROVE  SweepOver(Ramp(w), w)
<1>1. DEFINE N == Power(2, w)
             r == Ramp(w)
<1>2. w \in Nat \ {0} /\ N \in Nat \ {0}
    BY PowerFacts, SynthAssumption DEF Width
<1>3. r \in [1 .. N -> SUBSET (0 .. w - 1)] /\ \A j \in 1 .. N : r[j] = Bits(j - 1, w)
    BY <1>2 DEF Ramp, Bits
<1> HIDE DEF N, r
<1>4. ASSUME NEW j \in 1 .. N - 1 PROVE r[j] # r[j + 1]
    <2>1. j - 1 \in Nat /\ j \in Nat /\ (j + 1) - 1 = j /\ j \in 1 .. N /\ j + 1 \in 1 .. N
        BY <1>2
    <2>2. Bit(j - 1, 0) = (j - 1) % 2 /\ Bit(j, 0) = j % 2
        BY <2>1, BitFacts
    <2>3. (j - 1) % 2 # j % 2 /\ (j - 1) % 2 \in {0, 1} /\ j % 2 \in {0, 1}
        BY <2>1
    <2>4. 0 \in 0 .. w - 1
        BY <1>2
    <2>5. 0 \in Bits(j - 1, w) <=> (j - 1) % 2 = 1
        BY <2>2, <2>4 DEF Bits
    <2>6. 0 \in Bits(j, w) <=> j % 2 = 1
        BY <2>2, <2>4 DEF Bits
    <2>7. r[j] = Bits(j - 1, w) /\ r[j + 1] = Bits(j, w)
        BY <1>3, <2>1
    <2> QED BY <2>3, <2>5, <2>6, <2>7
<1>5. SweepOver(r, w)
    BY <1>2, <1>3, <1>4, SweepIs
<1> QED BY <1>5 DEF r

(* So every sweep is one, on channels of the bus. *)
LEMMA SweepsSweep ==
    ASSUME NEW op \in Sweeps, NEW w \in Width
    PROVE  /\ Logical(op, w) \in Samples /\ Len(Logical(op, w)) \in Nat \ {0}
           /\ Distinct(Logical(op, w))
<1>1. SweepOver(Logical(op, w), w)
    <2>1. CASE op = "walk"
        BY <2>1, WalkSweeps DEF Logical
    <2>2. CASE op = "walkz"
        BY <2>2, WalkSweeps DEF Logical
    <2>3. CASE op = "gray"
        BY <2>3, GraySweeps DEF Logical
    <2>4. CASE op = "ramp"
        BY <2>4, RampSweeps DEF Logical
    <2> QED BY <2>1, <2>2, <2>3, <2>4 DEF Sweeps
<1>2. DEFINE s == Logical(op, w)
<1>3. s \in Seq(SUBSET (0 .. w - 1)) /\ s # <<>> /\ Distinct(s)
    BY <1>1 DEF SweepOver
<1> HIDE DEF s
<1>4. 0 .. w - 1 \subseteq Channels
    BY SynthAssumption DEF Width, Channels
<1>5. s \in Samples
    <2>1. \A i \in 1 .. Len(s) : s[i] \in SUBSET Channels
        BY <1>3, <1>4, LenProperties
    <2>2. s \in [1 .. Len(s) -> SUBSET Channels] /\ Len(s) \in Nat
        BY <1>3, <2>1, LenProperties
    <2> QED BY <2>2, FunctionSeq DEF Samples
<1>6. Len(s) \in Nat \ {0}
    BY <1>3, <1>5, SampleFacts
<1> QED BY <1>3, <1>5, <1>6 DEF s

-----------------------------------------------------------------------------
(* Arguments: what the parsers return.                                     *)

Token == Seq(STRING)
Numbers == {Some(v) : v \in 0 .. MaxU32} \cup {None}

(* A number or nothing. *)
LEMMA NumberFacts ==
    ASSUME NEW v \in Numbers
    PROVE  v.ok \in BOOLEAN /\ (v.ok => v.value \in 0 .. MaxU32)
<1>1. CASE v = None
    <2>1. v.ok = FALSE
        BY <1>1 DEF None, Err
    <2> QED BY <2>1
<1>2. CASE v # None
    <2>1. PICK n \in 0 .. MaxU32 : v = Some(n)
        BY <1>2 DEF Numbers
    <2>2. v.ok = TRUE /\ v.value = n
        BY <2>1 DEF Some, Ok
    <2> QED BY <2>2
<1> QED BY <1>1, <1>2

(* The digits of a token are characters of it. *)
LEMMA DigitsToken ==
    ASSUME NEW s \in Token
    PROVE  Digits(s) \in Token /\ Radix(s) \in {2, 10, 16}
<1>1. s \in Seq(STRING) /\ Len(s) \in Nat
    BY DEF Token
<1>2. Radix(s) # 10 => Len(s) >= 2
    BY DEF Radix, Prefixed
<1>3. Radix(s) # 10 => SubSeq(s, 3, Len(s)) \in Seq(STRING)
    BY <1>1, <1>2, SubSeqProperties
<1> QED BY <1>1, <1>3 DEF Digits, Radix, Token

(* The figures of the parser are those of the reference. *)
LEMMA FigureTable ==
    ASSUME NEW v \in 0 .. 15
    PROVE  Figures[v + 1] = {Small[v + 1], Capital[v + 1]}
<1>1. CASE v \in 0 .. 7
    BY <1>1 DEF Figures, Small, Capital
<1>2. CASE v \in 8 .. 15
    BY <1>2 DEF Figures, Small, Capital
<1> QED BY <1>1, <1>2

(* No character stands for two figures. *)
LEMMA FigureOnce ==
    ASSUME NEW c, NEW v \in 0 .. 15, NEW w \in 0 .. 15, Denotes(c, v), Denotes(c, w)
    PROVE  v = w
<1>1. PICK i \in 1 .. 16, j \in 1 .. 16 : i = v + 1 /\ j = w + 1
    OBVIOUS
<1>2. c \in {Small[i], Capital[i]} /\ c \in {Small[j], Capital[j]}
    BY <1>1 DEF Denotes
<1>3. i = j
    BY <1>2 DEF Small, Capital
<1> QED BY <1>1, <1>3

(* A character has a value if and only if it stands for a figure. *)
LEMMA HasValue ==
    ASSUME NEW c
    PROVE  c \in DOMAIN DigitValue <=> \E v \in 0 .. 15 : Denotes(c, v)
<1>1. DOMAIN Figures = 1 .. 16
    BY DEF Figures
<1>2. DOMAIN DigitValue = UNION ToSet(Figures)
    BY DEF DigitValue
<1>3. c \in UNION ToSet(Figures) <=> \E i \in 1 .. 16 : c \in Figures[i]
    BY <1>1, Zenon DEF ToSet
<1>4. ASSUME NEW i \in 1 .. 16, c \in Figures[i] PROVE \E v \in 0 .. 15 : Denotes(c, v)
    <2>1. PICK v \in 0 .. 15 : v + 1 = i
        <3>1. i - 1 \in 0 .. 15 /\ (i - 1) + 1 = i
            OBVIOUS
        <3> QED BY <3>1
    <2>2. c \in Figures[v + 1]
        BY <1>4, <2>1
    <2> QED BY <2>2, FigureTable DEF Denotes
<1>5. ASSUME NEW v \in 0 .. 15, Denotes(c, v) PROVE \E i \in 1 .. 16 : c \in Figures[i]
    <2>1. v + 1 \in 1 .. 16
        OBVIOUS
    <2> QED BY <1>5, <2>1, FigureTable DEF Denotes
<1> QED BY <1>2, <1>3, <1>4, <1>5

(* The value is that of the figure it stands for. *)
LEMMA DigitIs ==
    ASSUME NEW c, NEW v \in 0 .. 15, Denotes(c, v)
    PROVE  c \in DOMAIN DigitValue /\ DigitValue[c] = v
<1>1. c \in DOMAIN DigitValue
    BY HasValue
<1>2. DigitValue[c] = CHOOSE w \in 0 .. 15 : c \in Figures[w + 1]
    BY <1>1 DEF DigitValue
<1>3. c \in Figures[v + 1]
    BY FigureTable DEF Denotes
<1>4. DigitValue[c] \in 0 .. 15 /\ c \in Figures[DigitValue[c] + 1]
    <2> DEFINE P(w) == c \in Figures[w + 1]
    <2>1. P(v)
        BY <1>3
    <2>2. DigitValue[c] = CHOOSE w \in 0 .. 15 : P(w)
        BY <1>2
    <2> HIDE DEF P
    <2>3. DigitValue[c] \in 0 .. 15 /\ P(DigitValue[c])
        BY <2>1, <2>2
    <2> QED BY <2>3 DEF P
<1>5. Denotes(c, DigitValue[c])
    BY <1>4, FigureTable DEF Denotes
<1> QED BY <1>1, <1>4, <1>5, FigureOnce

(* Every digit has a value. *)
LEMMA DigitValues == ASSUME NEW c \in DOMAIN DigitValue PROVE DigitValue[c] \in 0 .. 15
<1>1. PICK v \in 0 .. 15 : Denotes(c, v)
    BY HasValue
<1> QED BY <1>1, DigitIs

(* Checked arithmetic stays within the width, a digit at a time. *)
LEMMA DigitTaken ==
    ASSUME NEW acc \in Numbers, NEW c, NEW radix \in {2, 10, 16}
    PROVE  TakeDigit(radix, acc, c) \in Numbers
<1>1. acc.ok \in BOOLEAN /\ (acc.ok => acc.value \in 0 .. MaxU32) /\ MaxU32 \in Nat
    BY NumberFacts, TimingAssumption
<1>2. CASE ~acc.ok \/ c = "_"
    BY <1>2 DEF TakeDigit
<1>3. CASE ~(~acc.ok \/ c = "_")
    <2> DEFINE v == acc.value * radix + DigitValue[c]
    <2>1. CASE ~IsDigit(c, radix) \/ v > MaxU32
        BY <1>3, <2>1 DEF TakeDigit, Numbers
    <2>2. CASE ~(~IsDigit(c, radix) \/ v > MaxU32)
        <3>1. c \in DOMAIN DigitValue
            BY <2>2 DEF IsDigit
        <3>2. DigitValue[c] \in 0 .. 15
            BY <3>1, DigitValues
        <3>3. v \in 0 .. MaxU32
            <4>1. acc.value * radix \in Nat
                <5>1. acc.value \in 0 .. MaxU32
                    BY <1>1, <1>3, Zenon
                <5>2. acc.value \in Nat /\ radix \in Nat
                    BY <1>1, <5>1
                <5> QED BY <5>2
            <4> QED BY <1>1, <2>2, <3>2, <4>1
        <3>4. TakeDigit(radix, acc, c) = Some(v)
            BY <1>3, <2>2 DEF TakeDigit
        <3> QED BY <3>3, <3>4 DEF Numbers
    <2> QED BY <2>1, <2>2
<1> QED BY <1>2, <1>3

(* What is left after each digit. *)
After(f, digits, radix) ==
    f = [n \in 0 .. Len(digits) |-> IF n = 0 THEN Some(0) ELSE TakeDigit(radix, f[n - 1], digits[n])]

(* There is such a function, and what u32_arg returns comes from one. *)
LEMMA U32Is ==
    ASSUME NEW s \in Token
    PROVE  \E f \in [0 .. Len(Digits(s)) -> Numbers] :
              /\ After(f, Digits(s), Radix(s))
              /\ U32Arg(s) = IF \A i \in DOMAIN Digits(s) : Digits(s)[i] = "_" THEN None
                             ELSE f[Len(Digits(s))]
<1>1. DEFINE d == Digits(s)
             N == Len(d)
             r == Radix(s)
             G == [p \in Nat \X Numbers |-> TakeDigit(r, p[2], d[p[1] + 1])]
<1>2. d \in Token /\ r \in {2, 10, 16} /\ N \in Nat
    BY DigitsToken, LenProperties DEF Token
<1> HIDE DEF d, r
<1>3. Some(0) \in Numbers
    BY TimingAssumption DEF Numbers
<1>4. \A n \in Nat, v \in Numbers : G[<<n, v>>] = TakeDigit(r, v, d[n + 1]) /\ G[<<n, v>>] \in Numbers
    BY <1>2, DigitTaken
<1> HIDE DEF G, N
<1>5. PICK g \in [Nat -> Numbers] : Unfolds(g, Some(0), G)
    BY <1>3, <1>4, Recursion DEF StaysIn
<1>6. DEFINE h == [n \in 0 .. N |-> g[n]]
             f == CHOOSE f : After(f, d, r)
<1>7. After(h, d, r)
    <2>1. ASSUME NEW n \in 0 .. N PROVE h[n] = IF n = 0 THEN Some(0) ELSE TakeDigit(r, h[n - 1], d[n])
        <3>1. CASE n = 0
            BY <1>5, <3>1 DEF Unfolds
        <3>2. CASE n # 0
            <4>1. n - 1 \in Nat /\ n - 1 \in 0 .. N /\ (n - 1) + 1 = n
                BY <1>2, <3>2
            <4>2. g[(n - 1) + 1] = G[<<n - 1, g[n - 1]>>] /\ g[n - 1] \in Numbers
                BY <1>5, <4>1 DEF Unfolds
            <4>3. g[n] = TakeDigit(r, g[n - 1], d[n])
                BY <1>4, <4>1, <4>2
            <4> QED BY <3>2, <4>1, <4>3
        <3> QED BY <3>1, <3>2
    <2> HIDE DEF h
    <2>2. h = [n \in 0 .. N |-> h[n]]
        BY DEF h
    <2> QED BY <2>1, <2>2 DEF After, N
<1>8. After(f, d, r)
    BY <1>7
<1>9. U32Arg(s) = IF \A i \in DOMAIN d : d[i] = "_" THEN None ELSE f[N]
    BY DEF U32Arg, After, N, d, r
<1> HIDE DEF f
<1>10. f \in [0 .. N -> Numbers]
    <2> DEFINE T == {n \in 0 .. N : f[n] \in Numbers}
    <2>1. 0 \in T
        BY <1>2, <1>3, <1>8 DEF After, N
    <2>2. ASSUME NEW n \in 0 .. N - 1, n \in T PROVE n + 1 \in T
        <3>1. n + 1 \in 0 .. N /\ n + 1 # 0 /\ (n + 1) - 1 = n
            BY <1>2
        <3>2. f[n + 1] = TakeDigit(r, f[n], d[n + 1])
            BY <1>8, <3>1 DEF After, N
        <3> QED BY <1>2, <2>2, <3>1, <3>2, DigitTaken
    <2>3. \A n \in 0 .. N : n \in T
        <3> HIDE DEF T
        <3> QED BY <1>2, <2>1, <2>2, BoundedInduction
    <2>4. f = [n \in 0 .. N |-> f[n]]
        BY <1>8, Zenon DEF After, N
    <2> QED BY <2>3, <2>4
<1> QED BY <1>8, <1>9, <1>10 DEF d, r, N

(* A number that fits the width, or nothing. *)
LEMMA U32Type ==
    ASSUME NEW s \in Token
    PROVE  U32Arg(s) \in Numbers
<1>1. PICK f \in [0 .. Len(Digits(s)) -> Numbers] :
        U32Arg(s) = IF \A i \in DOMAIN Digits(s) : Digits(s)[i] = "_" THEN None
                    ELSE f[Len(Digits(s))]
    BY U32Is
<1>2. Len(Digits(s)) \in Nat /\ None \in Numbers
    BY DigitsToken, LenProperties DEF Token, Numbers
<1>3. f[Len(Digits(s))] \in Numbers
    BY <1>2
<1> QED BY <1>1, <1>2, <1>3

(* A channel of the bus, or nothing. *)
LEMMA ChannelType ==
    ASSUME NEW s \in Token
    PROVE  /\ ChannelArg(s, BusWidth).ok \in BOOLEAN
           /\ ChannelArg(s, BusWidth).ok => ChannelArg(s, BusWidth).value \in Channels
<1>1. U32Arg(s).ok \in BOOLEAN /\ (U32Arg(s).ok => U32Arg(s).value \in 0 .. MaxU32) /\ MaxU32 \in Nat
    BY U32Type, NumberFacts, TimingAssumption
<1>2. None.ok = FALSE
    BY DEF None, Err
<1>3. CASE U32Arg(s).ok /\ U32Arg(s).value < BusWidth
    <2>1. ChannelArg(s, BusWidth) = U32Arg(s)
        BY <1>3 DEF ChannelArg
    <2>2. U32Arg(s).value \in Channels
        BY <1>1, <1>3, SynthAssumption DEF Channels
    <2> QED BY <1>1, <2>1, <2>2
<1>4. CASE ~(U32Arg(s).ok /\ U32Arg(s).value < BusWidth)
    <2>1. ChannelArg(s, BusWidth) = None
        BY <1>4 DEF ChannelArg
    <2> QED BY <1>2, <2>1
<1> QED BY <1>3, <1>4

(* A mask within the bus, or nothing; one that is not zero has a channel. *)
LEMMA MaskType ==
    ASSUME NEW s \in Token
    PROVE  MaskArg(s, BusWidth).ok /\ MaskArg(s, BusWidth).value # 0 =>
              Bits(MaskArg(s, BusWidth).value, BusWidth) \in (SUBSET Channels) \ {{}}
<1>1. U32Arg(s).ok \in BOOLEAN /\ (U32Arg(s).ok => U32Arg(s).value \in 0 .. MaxU32) /\ MaxU32 \in Nat
    BY U32Type, NumberFacts, TimingAssumption
<1>2. Power(2, BusWidth) \in Nat \ {0} /\ BusWidth \in Nat
    BY PowerFacts, SynthAssumption
<1>3. DEFINE v == MaskArg(s, BusWidth).value
<1>4. SUFFICES ASSUME MaskArg(s, BusWidth).ok, v # 0 PROVE Bits(v, BusWidth) \in (SUBSET Channels) \ {{}}
    OBVIOUS
<1>5. v \in Nat /\ v < Power(2, BusWidth)
    <2>1. CASE SpellsAll(s)
        <3>1. MaskArg(s, BusWidth) = Some(Power(2, BusWidth) - 1)
            BY <2>1 DEF MaskArg, All
        <3>2. v = Power(2, BusWidth) - 1
            BY <3>1 DEF Some, Ok
        <3> HIDE DEF v
        <3> QED BY <1>2, <3>2
    <2>2. CASE ~SpellsAll(s)
        <3>1. MaskArg(s, BusWidth) = U32Arg(s) /\ U32Arg(s).ok /\ U32Arg(s).value <= Power(2, BusWidth) - 1
            BY <1>4, <2>2 DEF MaskArg, All, None, Err
        <3> QED BY <1>1, <1>2, <3>1
    <2> QED BY <2>1, <2>2
<1> HIDE DEF v
<1>6. PICK i \in 0 .. BusWidth - 1 : Bit(v, i) = 1
    BY <1>2, <1>4, <1>5, SomeBitSet
<1> QED BY <1>6 DEF Bits, Channels

(* A frequency is a number that fits the width, or nothing. *)
LEMMA HzType ==
    ASSUME NEW s \in Token
    PROVE  HzArg(s) \in Numbers
<1>1. {Kilo, Mega} \subseteq Nat
    <2>1. ASSUME NEW n \in 1 .. 6 PROVE Power(10, n) \in Nat
        <3>1. 10 \in Nat \ {0} /\ n \in Nat
            OBVIOUS
        <3> QED BY <3>1, PowerFacts
    <2> QED BY <2>1, ParseAssumption
<1>2. ASSUME NEW m \in Nat, NEW at \in 1 .. Len(s) PROVE Multiplied(s, at, m) \in Numbers
    <2> DEFINE whole == U32Arg(SubSeq(s, 1, at - 1))
               frac == SubSeq(s, at + 1, Len(s))
               part == U32Arg(frac)
               scale == Scale(frac, m)
    <2>1. frac \in Token /\ SubSeq(s, 1, at - 1) \in Token /\ Len(frac) \in Nat
        <3>1. s \in Seq(STRING) /\ Len(s) \in Nat
            BY LenProperties DEF Token
        <3>2. \A i \in 1 .. at - 1 : s[i] \in STRING
            BY <3>1, ElementOfSeq
        <3>3. \A i \in at + 1 .. Len(s) : s[i] \in STRING
            BY <3>1, ElementOfSeq
        <3>4. SubSeq(s, 1, at - 1) \in Seq(STRING)
            BY <3>1, <3>2, SubSeqProperties
        <3>5. frac \in Seq(STRING)
            BY <3>1, <3>3, SubSeqProperties
        <3> HIDE DEF frac
        <3> QED BY <3>4, <3>5, LenProperties DEF Token
    <2>2. whole \in Numbers /\ part \in Numbers /\ None \in Numbers
        BY <2>1, U32Type DEF Numbers
    <2>3. scale \in Nat
        <3>1. Power(10, Len(frac)) \in Nat \ {0}
            <4>1. 10 \in Nat \ {0}
                OBVIOUS
            <4> QED BY <2>1, <4>1, PowerFacts
        <3> HIDE DEF frac
        <3> QED BY <3>1, DivisionOf DEF Scale
    <2>4. Multiplied(s, at, m) =
            IF ~whole.ok \/ whole.value * m > MaxU32 THEN None
            ELSE IF frac = <<>> THEN Some(whole.value * m)
            ELSE IF ~part.ok \/ scale = 0 THEN None
            ELSE IF whole.value * m + part.value * scale > MaxU32 THEN None
            ELSE Some(whole.value * m + part.value * scale)
        BY DEF Multiplied
    <2> HIDE DEF whole, part, scale, frac
    <2>5. whole.ok => whole.value * m \in Nat
        BY <2>2, NumberFacts
    <2>6. part.ok => part.value * scale \in Nat
        BY <2>2, <2>3, NumberFacts
    <2>7. MaxU32 \in Nat
        BY TimingAssumption
    <2> DEFINE a == whole.value * m
               b == part.value * scale
    <2>8. /\ whole.ok => a \in Nat
          /\ part.ok => b \in Nat
          /\ Multiplied(s, at, m) = IF ~whole.ok \/ a > MaxU32 THEN None
                                    ELSE IF frac = <<>> THEN Some(a)
                                    ELSE IF ~part.ok \/ scale = 0 THEN None
                                    ELSE IF a + b > MaxU32 THEN None
                                    ELSE Some(a + b)
        BY <2>4, <2>5, <2>6
    <2> HIDE DEF a, b
    <2>9. (\A v \in 0 .. MaxU32 : Some(v) \in Numbers) /\ None \in Numbers
        BY DEF Numbers
    <2> QED BY <2>7, <2>8, <2>9
<1>3. ASSUME NEW letters PROVE Find(s, letters) # 0 => Find(s, letters) \in 1 .. Len(s)
    <2> DEFINE I == {i \in 1 .. Len(s) : s[i] \in letters}
    <2>1. Find(s, letters) = IF I # {} THEN Min(I) ELSE 0
        BY DEF Find, SelectInSeq
    <2>2. I # {} => Min(I) \in I
        <3>1. SUFFICES ASSUME I # {} PROVE Min(I) \in I
            OBVIOUS
        <3>2. I \subseteq Nat
            BY LenProperties DEF Token
        <3> HIDE DEF I
        <3>3. \E x \in I : \A y \in I : x <= y
            BY <3>1, <3>2, LeastNumber
        <3> QED BY <3>3 DEF Min
    <2> QED BY <2>1, <2>2
<1>4. U32Arg(s) \in Numbers
    BY U32Type
<1> QED BY <1>1, <1>2, <1>3, <1>4 DEF HzArg

-----------------------------------------------------------------------------
(* The inductive invariant, and what the commands share.                   *)

Answers == ShapeAsReported /\ GraySteps /\ SweepDwell

(* Between two commands that play it, a pattern waits in the buffer as it  *)
(* was accepted.                                                           *)
Accepted == pattern = PadEven(raw) /\ PlaysWhatWasAccepted

SynthInv ==
    /\ req = NoReq \/ req \in Requests
    /\ TypeOK /\ PaddingSuffices /\ PadAddsNoEdge /\ Accepted /\ Answers

Shaped == {"glitch", "skew", "pulse"} \cup Sweeps
LoadErrors == {"empty", "odd", "exceeds"}

(* An answer that describes no shape. *)
LEMMA PlainAnswer ==
    ASSUME ~reply'.ok \/ reply'.op \notin Shaped
    PROVE  Answers'
BY DEF Answers, ShapeAsReported, GraySteps, SweepDwell, Shaped, Sweeps

(* A refusal, whatever it leaves in the scratch buffer. *)
LEMMA Refused ==
    ASSUME SynthInv, NEW e, e \notin LoadErrors, NEW written, RefuseLeaving(written, e)
    PROVE  SynthInv'
<1>1. reply' = [ok |-> FALSE, op |-> req.op, error |-> e] /\ UNCHANGED <<req, pattern, playing, raw>>
    BY DEF RefuseLeaving, Rejected
<1>2. reply'.ok = FALSE /\ reply'.error = e
    BY <1>1
<1>3. Answers'
    BY <1>2, PlainAnswer
<1>4. TypeOK'
    BY <1>1, <1>2 DEF SynthInv, TypeOK
<1>5. PaddingSuffices'
    BY <1>2 DEF PaddingSuffices, LoadErrors
<1>6. PadAddsNoEdge'
    BY <1>1 DEF SynthInv, PadAddsNoEdge, Levels
<1>7. Accepted'
    BY <1>1 DEF SynthInv, Accepted, PlaysWhatWasAccepted, PadEven
<1> QED BY <1>1, <1>3, <1>4, <1>5, <1>6, <1>7 DEF SynthInv

(* What a generator hands over: a pattern that fits, or why there is none. *)
Buildable(built) ==
    /\ built.ok \in BOOLEAN
    /\ built.ok => built.value \in Samples /\ built.value # <<>> /\ Len(built.value) <= Capacity
    /\ ~built.ok => built.error \in {"BadArgument", "TooLong"}

(* Loading a pattern keeps what is true of the pattern loaded. *)
LEMMA LoadKeeps ==
    ASSUME NEW s \in Samples, s # <<>>, Len(s) <= Capacity, Loaded(s)
    PROVE  /\ pattern' \in Samples /\ Len(pattern') % 2 = 0 /\ Len(pattern') <= Capacity
           /\ PadAddsNoEdge' /\ pattern' = PadEven(s) /\ (PadEven(raw))' = PadEven(s)
<1>1. pattern' = PadEven(s) /\ raw' = s
    BY DEF Loaded
<1>2. Levels(pattern') = Levels(raw')
    BY <1>1, LevelsKept
<1>3. (PadEven(raw))' = PadEven(s)
    BY <1>1 DEF PadEven
<1> QED BY <1>1, <1>2, <1>3, Padded DEF PadAddsNoEdge

(* Playing what was built: refused with the generator's error, or loaded,  *)
(* padded and put on the channels.                                         *)
LEMMA Played ==
    ASSUME SynthInv, NEW built, Buildable(built), NEW looping, NEW divisor,
           NEW answer, answer.ok = TRUE, Play(built, looping, divisor, answer)
    PROVE  \/ SynthInv'
           \/ /\ built.ok /\ reply' = answer
              /\ playing' = Wave(PadEven(built.value), looping, divisor)
              /\ Answers' => SynthInv'
<1>1. CASE ~built.ok
    <2>1. RefuseLeaving(built.written, built.error) /\ built.error \notin LoadErrors
        BY <1>1 DEF Play, Buildable, LoadErrors
    <2> QED BY <2>1, Refused
<1>2. CASE built.ok
    <2>1. built.value \in Samples /\ built.value # <<>> /\ Len(built.value) <= Capacity
        BY <1>2 DEF Buildable
    <2>2. LoadError(PadEven(built.value)) = "none"
        BY <2>1, Padded
    <2>3. /\ Loaded(built.value) /\ reply' = answer /\ UNCHANGED req
          /\ playing' = Wave(PadEven(built.value), looping, divisor)
        BY <1>2, <2>2 DEF Play, Loaded
    <2>4. /\ pattern' \in Samples /\ Len(pattern') % 2 = 0 /\ Len(pattern') <= Capacity
          /\ PadAddsNoEdge' /\ pattern' = PadEven(built.value) /\ (PadEven(raw))' = PadEven(built.value)
        BY <2>1, <2>3, LoadKeeps
    <2>5. /\ playing'.kind = "pattern" /\ playing'.samples = PadEven(built.value)
        BY <2>3 DEF Wave
    <2>6. PadEven(built.value) \in Samples \ {<<>>}
        BY <2>1, Padded
    <2>7. TypeOK'
        BY <2>3, <2>4, <2>5, <2>6 DEF SynthInv, TypeOK
    <2>8. PaddingSuffices'
        BY <2>3 DEF PaddingSuffices
    <2>9. Accepted'
        BY <2>4, <2>5 DEF Accepted, PlaysWhatWasAccepted
    <2> QED BY <1>2, <2>3, <2>4, <2>7, <2>8, <2>9 DEF SynthInv
<1> QED BY <1>1, <1>2 DEF Buildable

(* The arguments of a line are tokens. *)
LEMMA ArgToken ==
    ASSUME SynthInv, req.op # "none", NEW n \in Nat, Has(n), NEW i \in 1 .. n
    PROVE  Arg(i) \in Token
<1>1. req \in Requests
    BY DEF SynthInv, NoReq
<1>2. req.args \in Seq(Token)
    BY <1>1, SynthAssumption DEF Token
<1>3. Len(req.args) \in Nat /\ i \in 1 .. Len(req.args)
    BY <1>2, LenProperties DEF Has
<1> QED BY <1>2, <1>3, ElementOfSeq DEF Arg

-----------------------------------------------------------------------------
(* Sweeps, repeated and padded.                                            *)

(* Where the writer's first and last entries and its turns come from. *)
LEMMA EntryEnds ==
    ASSUME NEW n \in Nat \ {0}, NEW r \in Nat \ {0}
    PROVE  /\ n * r \in Nat \ {0}
           /\ Entry(1, n, r) = 1 /\ Entry(n * r, n, r) = n
           /\ \A j \in 1 .. n : (j - 1) * r + 1 \in 1 .. n * r /\ Entry((j - 1) * r + 1, n, r) = j
<1>1. ASSUME NEW j \in 1 .. n
      PROVE  (j - 1) * r + 1 \in 1 .. n * r /\ Entry((j - 1) * r + 1, n, r) = j
    <2>1. j - 1 \in Nat /\ n - j \in Nat /\ n = (j - 1) + 1 + (n - j) /\ r \in Nat
        OBVIOUS
    <2> DEFINE a == (j - 1) * r
               b == (n - j) * r
    <2>2. a \in Nat /\ b \in Nat /\ n * r = a + r + b /\ a = r * (j - 1)
        BY <2>1
    <2> HIDE DEF a, b
    <2>3. a + 1 \in 1 .. n * r /\ (a + 1) - 1 = r * (j - 1) + 0
        BY <2>2
    <2>4. 0 \in 0 .. r - 1 /\ j - 1 \in Int
        BY <2>1
    <2>5. (r * (j - 1) + 0) \div r = j - 1
        BY <2>4, DivisionIs
    <2>6. Entry(a + 1, n, r) = j
        BY <2>3, <2>5 DEF Entry
    <2> QED BY <2>3, <2>6 DEF a
<1>2. n * r \in Nat \ {0} /\ Entry(n * r, n, r) = n
    <2>1. n - 1 \in Nat /\ r - 1 \in 0 .. r - 1 /\ r \in Nat /\ n = (n - 1) + 1
        OBVIOUS
    <2> DEFINE a == r * (n - 1)
               b == n * r
    <2>2. a \in Nat /\ b = a + r
        BY <2>1
    <2>3. (a + (r - 1)) \div r = n - 1
        <3>1. n - 1 \in Int
            OBVIOUS
        <3> QED BY <2>1, <3>1, DivisionIs
    <2> HIDE DEF a, b
    <2>4. b \in Nat \ {0} /\ b - 1 = a + (r - 1)
        BY <2>2
    <2>5. Entry(b, n, r) = n
        BY <2>3, <2>4 DEF Entry
    <2> QED BY <2>4, <2>5 DEF b
<1>3. Entry(1, n, r) = 1
    <2>1. 1 \in 1 .. n /\ (1 - 1) * r + 1 = 1
        OBVIOUS
    <2> QED BY <1>1, <2>1
<1> QED BY <1>1, <1>2, <1>3

(* s is L with every sample r times, and at the end perhaps once more. *)
Repeats(s, L, r) ==
    /\ Len(s) \in {Len(L) * r, Len(L) * r + 1}
    /\ \A i \in 1 .. Len(L) * r : s[i] = L[Entry(i, Len(L), r)]
    /\ Len(s) = Len(L) * r + 1 => s[Len(s)] = s[Len(L) * r]

(* Which is what is loaded for a sweep. *)
LEMMA SweepLoaded ==
    ASSUME NEW L \in Samples, L # <<>>, NEW r \in Nat \ {0}
    PROVE  /\ Buildable(Write(L, r))
           /\ Write(L, r).ok => Repeats(PadEven(Write(L, r).value), L, r)
<1>1. DEFINE b == Write(L, r)
             v == b.value
             n == Len(L)
<1>2. n \in Nat \ {0}
    BY SampleFacts
<1>3. n * r \in Nat \ {0}
    BY <1>2, EntryEnds
<1>4. /\ b.ok \in BOOLEAN /\ (~b.ok => b.error = "TooLong")
      /\ b.ok => /\ v \in Samples /\ Len(v) = n * r /\ n * r <= Capacity
                 /\ \A i \in 1 .. n * r : v[i] = L[Entry(i, n, r)]
    BY WriterWrites
<1> HIDE DEF b, v
<1>5. CASE ~b.ok
    BY <1>4, <1>5 DEF Buildable, b
<1>6. CASE b.ok
    <2>1. v # <<>>
        BY <1>3, <1>4, <1>6
    <2>2. Buildable(b)
        BY <1>4, <1>6, <2>1 DEF Buildable, v
    <2> DEFINE p == PadEven(v)
    <2>3. /\ p = v \/ Len(p) = n * r + 1
          /\ \A i \in 1 .. n * r : p[i] = v[i]
          /\ Last(p) = Last(v) /\ p \in Samples /\ p # <<>>
        BY <1>4, <1>6, <2>1, Padded
    <2> HIDE DEF p
    <2>4. Len(p) \in {n * r, n * r + 1}
        BY <1>4, <1>6, <2>3
    <2>5. \A i \in 1 .. n * r : p[i] = L[Entry(i, n, r)]
        BY <1>4, <1>6, <2>3
    <2>6. p[Len(p)] = v[n * r] /\ p[n * r] = v[n * r]
        <3>1. n * r \in 1 .. n * r
            BY <1>3
        <3>2. Last(v) = v[n * r]
            BY <1>4, <1>6, <2>1 DEF Last
        <3>3. Last(p) = p[Len(p)]
            BY <2>3, SampleFacts
        <3> QED BY <2>3, <3>1, <3>2, <3>3
    <2>7. Repeats(p, L, r)
        BY <2>4, <2>5, <2>6 DEF Repeats, n
    <2> QED BY <2>2, <2>7 DEF p, v, b
<1> QED BY <1>4, <1>5, <1>6

(* Two samples in a row are the same entry, or the next one, or the pad. *)
LEMMA NextEntry ==
    ASSUME NEW L \in Samples, L # <<>>, NEW r \in Nat \ {0}, NEW s, Repeats(s, L, r),
           NEW i \in 1 .. Len(s) - 1
    PROVE  \/ /\ (i % r) = 0 /\ i < r * Len(L)
              /\ \E j \in 1 .. Len(L) - 1 : s[i] = L[j] /\ s[i + 1] = L[j + 1]
           \/ /\ ~((i % r) = 0 /\ i < r * Len(L))
              /\ s[i + 1] = s[i]
<1>1. DEFINE n == Len(L)
             m == n * r
<1>2. n \in Nat \ {0} /\ m \in Nat \ {0} /\ m = r * n
    <2>1. n \in Nat \ {0}
        BY SampleFacts
    <2> HIDE DEF n
    <2>2. n * r \in Nat \ {0}
        BY <2>1, EntryEnds
    <2>3. n * r = r * n
        BY <2>1
    <2> QED BY <2>1, <2>2, <2>3
<1>3. /\ Len(s) \in {m, m + 1}
      /\ \A k \in 1 .. m : s[k] = L[Entry(k, n, r)]
      /\ Len(s) = m + 1 => s[Len(s)] = s[m]
    BY DEF Repeats
<1>4. \A k \in 1 .. m : /\ Entry(k, n, r) \in 1 .. n
                        /\ k < m => Entry(k + 1, n, r) = IF k % r = 0 THEN Entry(k, n, r) + 1
                                                         ELSE Entry(k, n, r)
    BY <1>2, EntryFacts
<1> HIDE DEF n, m
<1>5. CASE i < m
    <2>1. i \in 1 .. m /\ i + 1 \in 1 .. m
        BY <1>2, <1>5
    <2>2. s[i] = L[Entry(i, n, r)] /\ s[i + 1] = L[Entry(i + 1, n, r)]
        BY <1>3, <2>1
    <2>3. Entry(i, n, r) \in 1 .. n /\ Entry(i + 1, n, r) \in 1 .. n
        BY <1>4, <2>1
    <2>4. CASE (i % r) = 0
        <3>1. Entry(i + 1, n, r) = Entry(i, n, r) + 1
            BY <1>4, <1>5, <2>1, <2>4
        <3>2. Entry(i, n, r) \in 1 .. n - 1
            BY <1>2, <2>3, <3>1
        <3> QED BY <1>2, <1>5, <2>2, <2>4, <3>1, <3>2 DEF n
    <2>5. CASE (i % r) # 0
        <3>1. Entry(i + 1, n, r) = Entry(i, n, r)
            BY <1>4, <1>5, <2>1, <2>5
        <3> QED BY <2>2, <2>5, <3>1
    <2> QED BY <2>4, <2>5
<1>6. CASE ~(i < m)
    <2>1. i = m /\ Len(s) = m + 1
        BY <1>2, <1>3, <1>6
    <2>2. ~(i < r * n)
        BY <1>2, <1>6
    <2> QED BY <1>3, <2>1, <2>2 DEF n
<1> QED BY <1>5, <1>6

(* Every level lasts its repeats and differs from the next. *)
LEMMA SweepDwells ==
    ASSUME NEW op \in Sweeps, NEW w \in Width, NEW r \in Nat \ {0}, NEW s,
           Repeats(s, Logical(op, w), r)
    PROVE  \A i \in 1 .. Len(s) - 1 :
              s[i] # s[i + 1] <=> i % r = 0 /\ i < r * Len(Logical(op, w))
<1>1. DEFINE L == Logical(op, w)
<1>2. L \in Samples /\ Len(L) \in Nat \ {0} /\ Distinct(L)
    BY SweepsSweep
<1>3. Repeats(s, L, r)
    OBVIOUS
<1> HIDE DEF L
<1>4. L # <<>>
    BY <1>2
<1>5. ASSUME NEW i \in 1 .. Len(s) - 1
      PROVE  s[i] # s[i + 1] <=> (i % r) = 0 /\ i < r * Len(L)
    <2>1. CASE /\ (i % r) = 0 /\ i < r * Len(L)
               /\ \E j \in 1 .. Len(L) - 1 : s[i] = L[j] /\ s[i + 1] = L[j + 1]
        BY <1>2, <2>1 DEF Distinct
    <2>2. CASE ~((i % r) = 0 /\ i < r * Len(L)) /\ s[i + 1] = s[i]
        BY <2>2
    <2> QED BY <1>2, <1>3, <1>4, <2>1, <2>2, NextEntry
<1> QED BY <1>5 DEF L

(* Sets of one element at most. *)
LEMMA OneAtMost ==
    ASSUME NEW A, NEW k, A \subseteq {k}
    PROVE  Cardinality(A) <= 1
<1>1. A = {} \/ A = {k}
    OBVIOUS
<1>2. CASE A = {}
    BY <1>2, FS_EmptySet
<1>3. CASE A = {k}
    BY <1>3, FS_Singleton
<1> QED BY <1>1, <1>2, <1>3

(* A gray sweep moves one channel at a time, also where it wraps, and      *)
(* visits every code.                                                      *)
LEMMA GrayMoves ==
    ASSUME NEW w \in Width, NEW r \in Nat \ {0}, NEW s \in Samples, Repeats(s, Gray(w), r)
    PROVE  /\ \A i \in DOMAIN s : Cardinality(SymDiff(s[i], s[(i % Len(s)) + 1])) <= 1
           /\ ToSet(s) = SUBSET (0 .. w - 1)
<1>1. DEFINE L == Gray(w)
             n == Len(L)
             m == n * r
<1>2. /\ L \in Samples /\ n \in Nat \ {0} /\ L # <<>>
      /\ \A j \in 1 .. n - 1 : \E k \in 0 .. w - 1 : SymDiff(L[j], L[j + 1]) = {k}
      /\ SymDiff(L[n], L[1]) \subseteq {w - 1}
      /\ \A A \in SUBSET (0 .. w - 1) : \E j \in 1 .. n : L[j] = A
      /\ \A j \in 1 .. n : L[j] \in SUBSET (0 .. w - 1)
    <2>1. n = Power(2, w) /\ L \in [1 .. n -> SUBSET (0 .. w - 1)]
        BY GraySweeps, GrayIs
    <2>2. L \in Samples /\ n \in Nat \ {0}
        <3>1. Logical("gray", w) = L /\ "gray" \in Sweeps
            BY DEF Logical, Sweeps
        <3> QED BY <3>1, SweepsSweep
    <2>3. L # <<>>
        BY GraySweeps DEF SweepOver
    <2>4. \A j \in 1 .. n : L[j] \in SUBSET (0 .. w - 1)
        BY <2>1
    <2> QED BY <2>1, <2>2, <2>3, <2>4, GraySweeps
<1>3. Repeats(s, L, r)
    OBVIOUS
<1> HIDE DEF L
<1>4. /\ m \in Nat \ {0} /\ Entry(1, n, r) = 1 /\ Entry(m, n, r) = n
      /\ \A j \in 1 .. n : (j - 1) * r + 1 \in 1 .. m /\ Entry((j - 1) * r + 1, n, r) = j
    <2> HIDE DEF n
    <2>1. n \in Nat \ {0}
        BY <1>2
    <2> QED BY <2>1, EntryEnds, Zenon
<1>5. /\ Len(s) \in {m, m + 1}
      /\ \A k \in 1 .. m : s[k] = L[Entry(k, n, r)]
      /\ Len(s) = m + 1 => s[Len(s)] = s[m]
    BY <1>3 DEF Repeats
<1>6. \A k \in 1 .. m : Entry(k, n, r) \in 1 .. n
    BY <1>2, EntryFacts
<1> HIDE DEF n, m
<1>7. DOMAIN s = 1 .. Len(s)
    BY SampleFacts
<1>8. s[1] = L[1] /\ s[Len(s)] = L[n]
    <2>1. 1 \in 1 .. m /\ m \in 1 .. m
        BY <1>4
    <2> QED BY <1>4, <1>5, <2>1
<1>9. ASSUME NEW i \in 1 .. Len(s) PROVE \E k : SymDiff(s[i], s[(i % Len(s)) + 1]) \subseteq {k}
    <2>1. CASE i = Len(s)
        <3>1. (i % Len(s)) + 1 = 1
            BY <1>4, <1>5, <2>1
        <3> QED BY <1>2, <1>8, <2>1, <3>1
    <2>2. CASE i # Len(s)
        <3>1. i \in 1 .. Len(s) - 1 /\ (i % Len(s)) + 1 = i + 1
            <4> DEFINE k == Len(s)
            <4>1. k \in Nat \ {0} /\ i \in 1 .. k /\ i # k
                BY <1>4, <1>5, <2>2
            <4> HIDE DEF k
            <4>2. i \in 1 .. k - 1 /\ i % k = i
                BY <4>1
            <4> QED BY <4>2 DEF k
        <3>2. CASE \E j \in 1 .. Len(L) - 1 : s[i] = L[j] /\ s[i + 1] = L[j + 1]
            BY <1>2, <3>1, <3>2 DEF n
        <3>3. CASE s[i + 1] = s[i]
            <4>1. SymDiff(s[i], s[i + 1]) = {}
                BY <3>3 DEF SymDiff
            <4> QED BY <3>1, <4>1
        <3>4. \/ \E j \in 1 .. Len(L) - 1 : s[i] = L[j] /\ s[i + 1] = L[j + 1]
              \/ s[i + 1] = s[i]
            BY <1>2, <1>3, <3>1, NextEntry
        <3> QED BY <3>2, <3>3, <3>4
    <2> QED BY <2>1, <2>2
<1>10. \A i \in DOMAIN s : Cardinality(SymDiff(s[i], s[(i % Len(s)) + 1])) <= 1
    BY <1>7, <1>9, OneAtMost
<1>11. ASSUME NEW i \in 1 .. Len(s) PROVE s[i] \in SUBSET (0 .. w - 1)
    <2>1. i \in 1 .. m \/ (Len(s) = m + 1 /\ i = Len(s))
        BY <1>4, <1>5
    <2>2. m \in 1 .. m
        BY <1>4
    <2> QED BY <1>2, <1>5, <1>6, <2>1, <2>2
<1>12. ASSUME NEW A \in SUBSET (0 .. w - 1) PROVE \E i \in 1 .. Len(s) : s[i] = A
    <2>1. PICK j \in 1 .. n : L[j] = A
        BY <1>2
    <2> DEFINE i == (j - 1) * r + 1
    <2>2. i \in 1 .. m /\ Entry(i, n, r) = j
        BY <1>4
    <2> HIDE DEF i
    <2>3. i \in 1 .. Len(s) /\ s[i] = L[j]
        BY <1>4, <1>5, <2>2
    <2> QED BY <2>1, <2>3
<1>13. ToSet(s) = SUBSET (0 .. w - 1)
    BY <1>7, <1>11, <1>12 DEF ToSet
<1> QED BY <1>10, <1>13

-----------------------------------------------------------------------------
(* Bursts and pulses.                                                      *)

(* The samples in which a channel is high. *)
HighIn(s, c) == {i \in DOMAIN s : c \in s[i]}

(* The same sample n times. *)
LEMMA CopiesFacts ==
    ASSUME NEW A \in SUBSET Channels, NEW n \in Nat
    PROVE  /\ Copies(A, n) \in Samples /\ Len(Copies(A, n)) = n
           /\ \A i \in 1 .. n : Copies(A, n)[i] = A
BY FunctionSeq DEF Copies, Samples

(* One pattern after another. *)
LEMMA JoinedFacts ==
    ASSUME NEW s \in Samples, NEW t \in Samples
    PROVE  /\ s \o t \in Samples /\ Len(s \o t) = Len(s) + Len(t)
           /\ \A i \in 1 .. Len(s) + Len(t) :
                 (s \o t)[i] = IF i <= Len(s) THEN s[i] ELSE t[i - Len(s)]
BY ConcatProperties DEF Samples

(* The idle samples on both sides. *)
LEMMA FramedFacts ==
    ASSUME NEW s \in Samples
    PROVE  /\ Framed(s) \in Samples /\ Len(Framed(s)) = Len(s) + 2 /\ Framed(s) # <<>>
           /\ Last(Framed(s)) = {}
           /\ \A c : HighIn(Framed(s), c) = {i \in 2 .. Len(s) + 1 : c \in s[i - 1]}
<1>1. DEFINE idle == <<{}>>
             u == idle \o s
             f == u \o idle
             n == Len(s)
<1>2. idle \in Samples /\ Len(idle) = 1 /\ idle[1] = {} /\ n \in Nat
    BY SampleFacts DEF Samples
<1> HIDE DEF idle
<1>3. u \in Samples /\ Len(u) = n + 1
      /\ \A i \in 1 .. n + 1 : u[i] = IF i <= 1 THEN idle[i] ELSE s[i - 1]
    <2>1. u \in Samples /\ Len(u) = Len(idle) + n
          /\ \A i \in 1 .. Len(idle) + n : u[i] = IF i <= Len(idle) THEN idle[i] ELSE s[i - Len(idle)]
        BY <1>2, JoinedFacts
    <2> QED BY <1>2, <2>1
<1> HIDE DEF u, n
<1>4. f \in Samples /\ Len(f) = n + 2
      /\ \A i \in 1 .. n + 2 : f[i] = IF i <= n + 1 THEN u[i] ELSE idle[i - (n + 1)]
    <2>1. f \in Samples /\ Len(f) = Len(u) + Len(idle)
          /\ \A i \in 1 .. Len(u) + Len(idle) : f[i] = IF i <= Len(u) THEN u[i] ELSE idle[i - Len(u)]
        BY <1>2, <1>3, JoinedFacts
    <2> QED BY <1>2, <1>3, <2>1
<1>5. Framed(s) = f
    BY DEF Framed, f, u, idle
<1> HIDE DEF f
<1>6. f # <<>> /\ DOMAIN f = 1 .. n + 2
    BY <1>2, <1>4, SampleFacts
<1>7. f[n + 2] = {}
    <2>1. n + 2 \in 1 .. n + 2 /\ ~(n + 2 <= n + 1) /\ (n + 2) - (n + 1) = 1
        BY <1>2
    <2> QED BY <1>2, <1>4, <2>1
<1>8. ASSUME NEW i \in 2 .. n + 1 PROVE f[i] = s[i - 1]
    <2>1. i \in 1 .. n + 2 /\ i <= n + 1 /\ i \in 1 .. n + 1 /\ ~(i <= 1)
        BY <1>2
    <2> QED BY <1>3, <1>4, <2>1
<1>9. f[1] = {}
    <2>1. 1 \in 1 .. n + 2 /\ 1 <= n + 1 /\ 1 \in 1 .. n + 1
        BY <1>2
    <2> QED BY <1>2, <1>3, <1>4, <2>1
<1>10. ASSUME NEW c PROVE HighIn(f, c) = {i \in 2 .. n + 1 : c \in s[i - 1]}
    <2>1. ASSUME NEW i \in 1 .. n + 2 PROVE i = 1 \/ i = n + 2 \/ i \in 2 .. n + 1
        BY <1>2
    <2>2. 2 .. n + 1 \subseteq 1 .. n + 2
        BY <1>2
    <2> QED BY <1>6, <1>7, <1>8, <1>9, <2>1, <2>2 DEF HighIn
<1> QED BY <1>4, <1>5, <1>6, <1>7, <1>10 DEF n, Last

(* A pattern that ends low is written and padded as it is. *)
LEMMA BuiltOnce ==
    ASSUME NEW s \in Samples, s # <<>>, Last(s) = {}
    PROVE  /\ Buildable(Write(s, 1))
           /\ Write(s, 1).ok =>
                 /\ Last(PadEven(Write(s, 1).value)) = {}
                 /\ \A c : HighIn(PadEven(Write(s, 1).value), c) = HighIn(s, c)
<1>1. Write(s, 1).ok \in BOOLEAN /\ (~Write(s, 1).ok => Write(s, 1).error = "TooLong")
    <2>1. 1 \in Nat \ {0}
        OBVIOUS
    <2> QED BY <2>1, WriterWrites
<1>2. CASE ~Write(s, 1).ok
    BY <1>1, <1>2 DEF Buildable
<1>3. CASE Write(s, 1).ok
    <2>1. Write(s, 1).value = s /\ Len(s) <= Capacity
        BY <1>3, WrittenOnce
    <2> DEFINE p == PadEven(s)
               n == Len(s)
    <2>2. /\ p = s \/ (p = Append(s, Last(s)) /\ Len(p) = n + 1)
          /\ \A i \in 1 .. n : p[i] = s[i]
          /\ Last(p) = {} /\ p \in Samples /\ p # <<>>
        BY <2>1, Padded
    <2>3. n \in Nat /\ DOMAIN s = 1 .. n /\ DOMAIN p = 1 .. Len(p) /\ Last(p) = p[Len(p)]
        BY <2>2, SampleFacts
    <2> HIDE DEF p, n
    <2>4. ASSUME NEW c PROVE HighIn(p, c) = HighIn(s, c)
        <3>1. CASE p = s
            BY <3>1
        <3>2. CASE Len(p) = n + 1
            <4>1. \A i \in 1 .. n + 1 : i \in 1 .. n \/ i = n + 1
                BY <2>3
            <4>2. 1 .. n \subseteq 1 .. n + 1
                BY <2>3
            <4> QED BY <2>2, <2>3, <3>2, <4>1, <4>2 DEF HighIn
        <3> QED BY <2>2, <3>1, <3>2
    <2> QED BY <1>1, <1>3, <2>1, <2>2, <2>4 DEF Buildable, p
<1> QED BY <1>1, <1>2, <1>3

(* What a refused burst is refused with. *)
LEMMA BadArgument ==
    Buildable(Unbuilt("BadArgument", <<>>)) /\ Unbuilt("BadArgument", <<>>).ok = FALSE
BY DEF Buildable, Unbuilt

(* A glitch is high for its ticks and nothing else is. *)
LEMMA GlitchMade ==
    ASSUME NEW ch \in Channels, NEW ticks \in Nat
    PROVE  /\ Buildable(Glitch({ch}, ticks))
           /\ Glitch({ch}, ticks).ok =>
                 /\ Last(PadEven(Glitch({ch}, ticks).value)) = {}
                 /\ \A c : HighIn(PadEven(Glitch({ch}, ticks).value), c) =
                              IF c = ch THEN 2 .. ticks + 1 ELSE {}
<1>1. CASE ticks = 0
    BY <1>1, BadArgument DEF Glitch
<1>2. CASE ticks # 0
    <2> DEFINE s == Copies({ch}, ticks)
               f == Framed(s)
    <2>1. s \in Samples /\ Len(s) = ticks /\ \A i \in 1 .. ticks : s[i] = {ch}
        BY CopiesFacts
    <2>2. /\ f \in Samples /\ f # <<>> /\ Last(f) = {}
          /\ \A c : HighIn(f, c) = {i \in 2 .. ticks + 1 : c \in s[i - 1]}
        BY <2>1, FramedFacts
    <2>3. Glitch({ch}, ticks) = Write(f, 1)
        BY <1>2 DEF Glitch
    <2> HIDE DEF s, f
    <2>4. \A c : HighIn(f, c) = IF c = ch THEN 2 .. ticks + 1 ELSE {}
        <3>1. ASSUME NEW i \in 2 .. ticks + 1 PROVE s[i - 1] = {ch}
            <4>1. i - 1 \in 1 .. ticks
                OBVIOUS
            <4> QED BY <2>1, <4>1
        <3> DEFINE R == 2 .. ticks + 1
        <3>2. ASSUME NEW c PROVE HighIn(f, c) = {i \in R : c \in s[i - 1]}
            BY <2>2
        <3>3. \A i \in R : s[i - 1] = {ch}
            BY <3>1
        <3> HIDE DEF R
        <3>4. ASSUME NEW c PROVE {i \in R : c \in s[i - 1]} = IF c = ch THEN R ELSE {}
            BY <3>3
        <3> QED BY <3>2, <3>4 DEF R
    <2> QED BY <2>2, <2>3, <2>4, BuiltOnce
<1> QED BY <1>1, <1>2

(* A skew is one channel high and then both, as long each. *)
LEMMA SkewMade ==
    ASSUME NEW a \in Channels, NEW b \in Channels, a # b, NEW ticks \in Nat
    PROVE  /\ Buildable(Skew({a}, {b}, ticks))
           /\ Skew({a}, {b}, ticks).ok =>
                 /\ Last(PadEven(Skew({a}, {b}, ticks).value)) = {}
                 /\ \A c : HighIn(PadEven(Skew({a}, {b}, ticks).value), c) =
                              CASE c = a -> 2 .. 2 * ticks + 1
                                [] c = b -> ticks + 2 .. 2 * ticks + 1
                                [] OTHER -> {}
<1>1. CASE ticks = 0
    BY <1>1, BadArgument DEF Skew
<1>2. CASE ticks # 0
    <2> DEFINE x == Copies({a}, ticks)
               y == Copies({a} \cup {b}, ticks)
               s == x \o y
               f == Framed(s)
    <2>1. /\ x \in Samples /\ Len(x) = ticks /\ \A i \in 1 .. ticks : x[i] = {a}
          /\ y \in Samples /\ Len(y) = ticks /\ \A i \in 1 .. ticks : y[i] = {a} \cup {b}
        <3>1. {a} \in SUBSET Channels /\ {a} \cup {b} \in SUBSET Channels
            OBVIOUS
        <3> QED BY <3>1, CopiesFacts
    <2>2. Skew({a}, {b}, ticks) = Write(f, 1)
        BY <1>2 DEF Skew
    <2> HIDE DEF x, y
    <2>3. /\ s \in Samples /\ Len(s) = 2 * ticks
          /\ \A i \in 1 .. 2 * ticks : s[i] = IF i <= ticks THEN {a} ELSE {a, b}
        <3>1. /\ s \in Samples /\ Len(s) = Len(x) + Len(y)
              /\ \A i \in 1 .. Len(x) + Len(y) : s[i] = IF i <= Len(x) THEN x[i] ELSE y[i - Len(x)]
            BY <2>1, JoinedFacts
        <3> HIDE DEF s
        <3>2. ticks + ticks = 2 * ticks
            OBVIOUS
        <3>3. ASSUME NEW i \in 1 .. 2 * ticks PROVE s[i] = IF i <= ticks THEN {a} ELSE {a, b}
            <4>1. s[i] = IF i <= ticks THEN x[i] ELSE y[i - ticks]
                BY <2>1, <3>1, <3>2
            <4>2. i <= ticks => i \in 1 .. ticks
                OBVIOUS
            <4>3. ~(i <= ticks) => i - ticks \in 1 .. ticks
                OBVIOUS
            <4> QED BY <2>1, <4>1, <4>2, <4>3
        <3> QED BY <2>1, <3>1, <3>2, <3>3
    <2> HIDE DEF s
    <2>4. /\ f \in Samples /\ f # <<>> /\ Last(f) = {}
          /\ \A c : HighIn(f, c) = {i \in 2 .. 2 * ticks + 1 : c \in s[i - 1]}
        BY <2>3, FramedFacts
    <2> HIDE DEF f
    <2>5. ASSUME NEW i \in 2 .. 2 * ticks + 1
          PROVE  s[i - 1] = IF i <= ticks + 1 THEN {a} ELSE {a, b}
        <3>1. i - 1 \in 1 .. 2 * ticks /\ (i - 1 <= ticks <=> i <= ticks + 1)
            OBVIOUS
        <3> QED BY <2>3, <3>1
    <2>6. ASSUME NEW c PROVE HighIn(f, c) = CASE c = a -> 2 .. 2 * ticks + 1
                                              [] c = b -> ticks + 2 .. 2 * ticks + 1
                                              [] OTHER -> {}
        <3>1. CASE c = a
            BY <2>4, <2>5, <3>1
        <3>2. CASE c = b
            <4>1. \A i \in 2 .. 2 * ticks + 1 : c \in s[i - 1] <=> ~(i <= ticks + 1)
                BY <2>5, <3>2
            <4>2. \A i \in Int : i \in ticks + 2 .. 2 * ticks + 1 <=>
                                /\ i \in 2 .. 2 * ticks + 1
                                /\ ~(i <= ticks + 1)
                OBVIOUS
            <4> DEFINE R == 2 .. 2 * ticks + 1
                       S == ticks + 2 .. 2 * ticks + 1
            <4>3. R \subseteq Int /\ S \subseteq Int
                OBVIOUS
            <4>4. HighIn(f, c) = {i \in R : c \in s[i - 1]}
                BY <2>4
            <4> HIDE DEF R, S
            <4>5. {i \in R : c \in s[i - 1]} = {i \in R : ~(i <= ticks + 1)}
                BY <4>1 DEF R
            <4>6. {i \in R : ~(i <= ticks + 1)} = S
                BY <4>2, <4>3 DEF R, S
            <4> QED BY <3>2, <4>4, <4>5, <4>6 DEF S
        <3>3. CASE c # a /\ c # b
            <4>1. HighIn(f, c) = {}
                BY <2>4, <2>5, <3>3
            <4> QED BY <3>3, <4>1
        <3> QED BY <3>1, <3>2, <3>3
    <2> QED BY <2>2, <2>4, <2>6, BuiltOnce
<1> QED BY <1>1, <1>2

(* A pulse is high for its first samples. *)
LEMMA PulseMade ==
    ASSUME NEW ch \in Channels, NEW high \in Nat, NEW period \in Nat
    PROVE  /\ Buildable(Pulse({ch}, high, period))
           /\ Pulse({ch}, high, period).ok =>
                 /\ Last(PadEven(Pulse({ch}, high, period).value)) = {}
                 /\ \A c : HighIn(PadEven(Pulse({ch}, high, period).value), c) =
                              IF c = ch THEN 1 .. high ELSE {}
<1>1. CASE high = 0 \/ period <= high
    BY <1>1, BadArgument DEF Pulse
<1>2. CASE ~(high = 0 \/ period <= high)
    <2> DEFINE low == period - high
               x == Copies({ch}, high)
               y == Copies({}, low)
               s == x \o y
    <2>1. low \in Nat \ {0}
        BY <1>2
    <2>2. Pulse({ch}, high, period) = Write(s, 1)
        BY <1>2 DEF Pulse
    <2> HIDE DEF low
    <2>3. /\ x \in Samples /\ Len(x) = high /\ \A i \in 1 .. high : x[i] = {ch}
          /\ y \in Samples /\ Len(y) = low /\ \A i \in 1 .. low : y[i] = {}
        BY <2>1, CopiesFacts
    <2> HIDE DEF x, y
    <2>4. /\ s \in Samples /\ Len(s) = high + low
          /\ \A i \in 1 .. high + low : s[i] = IF i <= high THEN x[i] ELSE y[i - high]
        BY <2>3, JoinedFacts
    <2> HIDE DEF s
    <2>5. ASSUME NEW i \in 1 .. high + low PROVE s[i] = IF i <= high THEN {ch} ELSE {}
        <3>1. i <= high => i \in 1 .. high
            OBVIOUS
        <3>2. ~(i <= high) => i - high \in 1 .. low
            BY <2>1
        <3> QED BY <2>3, <2>4, <3>1, <3>2
    <2>6. s # <<>> /\ Last(s) = {} /\ DOMAIN s = 1 .. high + low
        <3>1. s # <<>> /\ DOMAIN s = 1 .. high + low
            BY <2>1, <2>4, SampleFacts
        <3>2. high + low \in 1 .. high + low /\ ~(high + low <= high)
            BY <2>1
        <3> QED BY <2>4, <2>5, <3>1, <3>2 DEF Last
    <2>7. \A c : HighIn(s, c) = IF c = ch THEN 1 .. high ELSE {}
        <3>1. \A i : i \in 1 .. high <=> i \in 1 .. high + low /\ i <= high
            BY <2>1
        <3> QED BY <2>5, <2>6, <3>1 DEF HighIn
    <2> QED BY <2>2, <2>4, <2>6, <2>7, BuiltOnce
<1> QED BY <1>1, <1>2

(* A number accepted is the number of its value. *)
LEMMA NumberIs ==
    ASSUME NEW v \in Numbers, v.ok
    PROVE  v = Some(v.value)
<1>1. None.ok = FALSE
    BY DEF None, Err
<1>2. v # None
    BY <1>1
<1>3. PICK n \in 0 .. MaxU32 : v = Some(n)
    BY <1>2 DEF Numbers
<1>4. v.value = n
    BY <1>3 DEF Some, Ok
<1> QED BY <1>3, <1>4

(* Two channel arguments that are accepted differ in their channels. *)
LEMMA ChannelsDiffer ==
    ASSUME NEW s \in Token, NEW t \in Token,
           ChannelArg(s, BusWidth).ok, ChannelArg(t, BusWidth).ok,
           ChannelArg(s, BusWidth) # ChannelArg(t, BusWidth)
    PROVE  ChannelArg(s, BusWidth).value # ChannelArg(t, BusWidth).value
<1>1. None.ok = FALSE
    BY DEF None, Err
<1>2. ASSUME NEW u \in Token, ChannelArg(u, BusWidth).ok
      PROVE  ChannelArg(u, BusWidth) = Some(ChannelArg(u, BusWidth).value)
    <2>1. ChannelArg(u, BusWidth) = U32Arg(u)
        BY <1>1, <1>2 DEF ChannelArg
    <2>2. U32Arg(u) \in Numbers /\ U32Arg(u).ok
        BY <1>2, <2>1, U32Type
    <2> QED BY <2>1, <2>2, NumberIs
<1> QED BY <1>2

(* A length of time is a number of ticks, and the ticks reported in time   *)
(* are those ticks.                                                        *)
LEMMA TickFacts ==
    ASSUME NEW ns \in Nat
    PROVE  /\ TicksForNs(Sysclk, ns) \in Nat
           /\ \A h \in Nat : NsOfTicksPs(Sysclk, h) \div TickPs(Sysclk) = h
<1>1. TickPs(Sysclk) \in Nat \ {0}
    <2>1. Second \in Nat \ {0} /\ Sysclk \in 1 .. Second
        BY TimingAssumption, SynthAssumption
    <2> DEFINE q == Second \div Sysclk
    <2>2. Sysclk \in Nat \ {0} /\ Second \in Nat
        BY <2>1
    <2>3. Second = Sysclk * q + (Second % Sysclk) /\ q \in Nat /\ Second % Sysclk \in 0 .. Sysclk - 1
        BY <2>2, DivisionOf
    <2> HIDE DEF q
    <2>4. q # 0
        <3>1. SUFFICES ASSUME q = 0 PROVE FALSE
            OBVIOUS
        <3>2. Sysclk * q = 0
            BY <2>2, <3>1
        <3> QED BY <2>1, <2>3, <3>2
    <2> QED BY <2>3, <2>4 DEF TickPs, q
<1>2. DEFINE T == TickPs(Sysclk)
<1> HIDE DEF T
<1>3. T \in Nat \ {0}
    BY <1>1 DEF T
<1>4. T \div 2 \in Nat
    BY <1>3
<1>5. DEFINE a == ns * 1000 + T \div 2
<1>6. a \in Nat
    BY <1>4
<1> HIDE DEF a
<1>7. a \div T \in Nat
    BY <1>3, <1>6, DivisionOf
<1>8. TicksForNs(Sysclk, ns) = Saturate(AtLeastOne(a \div T))
    BY DEF TicksForNs, T, a
<1>9. TicksForNs(Sysclk, ns) \in Nat
    BY <1>7, <1>8, TimingAssumption DEF Saturate, AtLeastOne
<1>10. ASSUME NEW h \in Nat PROVE (h * T) \div T = h
    <2>1. 0 \in 0 .. T - 1 /\ h * T = T * h + 0
        BY <1>3
    <2>2. (T * h + 0) \div T = h
        BY <1>3, <2>1, DivisionIs
    <2> QED BY <2>1, <2>2
<1> QED BY <1>9, <1>10 DEF NsOfTicksPs, T

-----------------------------------------------------------------------------
(* Rates.                                                                  *)

(* Why there is no divisor. *)
LEMMA DivisorFacts ==
    ASSUME NEW sysclk, NEW rate
    PROVE  /\ DivisorForRate(sysclk, rate).ok \in BOOLEAN
           /\ ~DivisorForRate(sysclk, rate).ok => DivisorForRate(sysclk, rate).error \notin LoadErrors
<1>1. DEFINE d == DivisorForRate(sysclk, rate)
<1>2. \/ d \in {Err("Zero"), Err("TooFast"), Err("TooSlow")}
      \/ d = Ok(FromX256(Rounded(sysclk, rate)))
    BY DEF DivisorForRate
<1> HIDE DEF d
<1>3. CASE d \in {Err("Zero"), Err("TooFast"), Err("TooSlow")}
    <2>1. d.ok = FALSE /\ d.error \in {"Zero", "TooFast", "TooSlow"}
        BY <1>3 DEF Err
    <2>2. {"Zero", "TooFast", "TooSlow"} \cap LoadErrors = {}
        BY DEF LoadErrors
    <2> QED BY <2>1, <2>2 DEF d
<1>4. CASE d = Ok(FromX256(Rounded(sysclk, rate)))
    <2>1. d.ok = TRUE
        BY <1>4 DEF Ok
    <2> QED BY <2>1 DEF d
<1> QED BY <1>2, <1>3, <1>4

(* Dividing upwards, a number that is not less than the divisor. *)
LEMMA DividedUp ==
    ASSUME NEW a \in Nat, NEW b \in Nat \ {0}
    PROVE  DivCeil(a, b) \in Nat /\ (a >= 1 => DivCeil(a, b) # 0)
<1>1. DEFINE c == a + b - 1
             q == c \div b
<1>2. c \in Nat /\ (a >= 1 => c >= b)
    OBVIOUS
<1> HIDE DEF c
<1>3. c = b * q + (c % b) /\ q \in Nat /\ c % b \in 0 .. b - 1
    BY <1>2, DivisionOf
<1> HIDE DEF q
<1>4. ASSUME a >= 1, q = 0 PROVE FALSE
    <2>1. b * q = 0
        BY <1>4
    <2> QED BY <1>2, <1>3, <1>4, <2>1
<1> QED BY <1>3, <1>4 DEF DivCeil, c, q

(* A plan repeats every sample at least once. *)
LEMMA PlanFacts ==
    ASSUME NEW hz \in Nat
    PROVE  /\ PlanRate(hz).ok \in BOOLEAN
           /\ PlanRate(hz).ok => PlanRate(hz).value.repeat \in Nat \ {0}
           /\ ~PlanRate(hz).ok => PlanRate(hz).error \notin LoadErrors
<1>1. DEFINE least == MinRate(Sysclk)
             repeat == IF hz >= least THEN 1 ELSE DivCeil(least, hz)
             divisor == DivisorForRate(Sysclk, hz * repeat)
             p == PlanRate(hz)
<1>2. p = IF hz = 0 THEN Err("Zero")
          ELSE IF repeat > Capacity \div 2 THEN Err("TooSlow")
          ELSE IF hz * repeat > MaxU32 THEN Err("TooFast")
          ELSE IF ~divisor.ok THEN divisor
          ELSE Ok([divisor |-> divisor.value, repeat |-> repeat])
    BY DEF PlanRate
<1>3. least \in Nat
    <2>1. MaxX256 \in Nat \ {0}
        <3>1. MaxInt \in Nat /\ Units \in Nat \ {0} /\ MaxInt = 2 + (MaxInt - 2) /\ MaxInt - 2 \in Nat
            BY TimingAssumption
        <3>2. MaxInt * Units = 2 * Units + (MaxInt - 2) * Units /\ (MaxInt - 2) * Units \in Nat
            BY <3>1
        <3> QED BY <3>1, <3>2 DEF MaxX256
    <2>2. Sysclk * Units \in Nat
        BY TimingAssumption, SynthAssumption
    <2> QED BY <2>1, <2>2, DividedUp DEF MinRate
<1> HIDE DEF least
<1>4. hz # 0 => repeat \in Nat \ {0}
    <2>1. SUFFICES ASSUME hz # 0, ~(hz >= least) PROVE DivCeil(least, hz) \in Nat \ {0}
        OBVIOUS
    <2>2. least >= 1 /\ hz \in Nat \ {0}
        BY <1>3, <2>1
    <2> QED BY <1>3, <2>2, DividedUp
<1>5. divisor.ok \in BOOLEAN /\ (~divisor.ok => divisor.error \notin LoadErrors)
    BY DivisorFacts
<1> HIDE DEF repeat, divisor, p
<1>6. CASE p \in {Err("Zero"), Err("TooSlow"), Err("TooFast")}
    <2>1. p.ok = FALSE /\ p.error \in {"Zero", "TooFast", "TooSlow"}
        BY <1>6 DEF Err
    <2>2. {"Zero", "TooFast", "TooSlow"} \cap LoadErrors = {}
        BY DEF LoadErrors
    <2> QED BY <2>1, <2>2 DEF p
<1>7. CASE ~divisor.ok /\ p = divisor
    BY <1>5, <1>7 DEF p
<1>8. CASE hz # 0 /\ p = Ok([divisor |-> divisor.value, repeat |-> repeat])
    <2>1. p.ok = TRUE /\ p.value.repeat = repeat
        BY <1>8 DEF Ok
    <2> QED BY <1>4, <1>8, <2>1 DEF p
<1>9. \/ p \in {Err("Zero"), Err("TooSlow"), Err("TooFast")}
      \/ ~divisor.ok /\ p = divisor
      \/ hz # 0 /\ p = Ok([divisor |-> divisor.value, repeat |-> repeat])
    BY <1>2
<1> QED BY <1>6, <1>7, <1>8, <1>9

-----------------------------------------------------------------------------
(* The commands.                                                           *)

(* Refusing an argument. *)
LEMMA RefusedKept ==
    ASSUME SynthInv, NEW e, e \notin LoadErrors, Refuse(e)
    PROVE  SynthInv'
BY Refused DEF Refuse

(* The refusals that are not of load_pattern. *)
LEMMA OtherErrors ==
    {"argument", "arguments", "TooHigh", "rate"} \cap LoadErrors = {}
BY DEF LoadErrors

(* A state machine that runs free leaves the pattern alone. *)
LEMMA RunFreeKept ==
    ASSUME SynthInv, req.op \notin Shaped, NEW signal, NEW hz, RunFree(signal, hz),
           signal.kind \in {"toggle", "count"},
           signal.kind = "toggle" => signal.mask \in (SUBSET Channels) \ {{}}
    PROVE  SynthInv'
<1>1. CASE Refuse("TooHigh") \/ Refuse("rate")
    BY <1>1, RefusedKept, OtherErrors
<1>2. CASE /\ playing' = signal
           /\ reply' = [ok |-> TRUE, op |-> req.op]
           /\ UNCHANGED <<req, pattern, raw>>
    <2>1. reply'.ok = TRUE /\ reply'.op = req.op
        BY <1>2
    <2>2. Answers'
        BY <2>1, PlainAnswer
    <2>3. playing'.kind # "pattern"
        BY <1>2
    <2>4. TypeOK'
        BY <1>2, <2>1, <2>3 DEF SynthInv, TypeOK
    <2>5. PaddingSuffices' /\ PadAddsNoEdge'
        BY <1>2, <2>1 DEF SynthInv, PaddingSuffices, PadAddsNoEdge, Levels
    <2>6. Accepted'
        BY <1>2, <2>3 DEF SynthInv, Accepted, PlaysWhatWasAccepted, PadEven
    <2> QED BY <1>2, <2>1, <2>2, <2>4, <2>5, <2>6 DEF SynthInv
<1> QED BY <1>1, <1>2 DEF RunFree

(* Lines come and answers are collected. *)
LEMMA LineKept ==
    ASSUME SynthInv, Receive \/ Collect \/ TooManyArguments
    PROVE  SynthInv'
<1>1. CASE Receive
    <2>1. req' \in Requests /\ UNCHANGED <<reply, pattern, playing, raw>>
        BY <1>1 DEF Receive
    <2>2. DOMAIN req' = {"op", "args"}
        BY <2>1, SynthAssumption
    <2>3. TypeOK'
        BY <2>1, <2>2 DEF SynthInv, TypeOK
    <2>4. PaddingSuffices' /\ PadAddsNoEdge'
        BY <2>1 DEF SynthInv, PaddingSuffices, PadAddsNoEdge, Levels
    <2>5. Answers'
        BY <2>1 DEF SynthInv, Answers, ShapeAsReported, GraySteps, SweepDwell,
                    GlitchShape, SkewShape, PulseShape, AllLowAtEnd, High
    <2>6. Accepted'
        BY <2>1 DEF SynthInv, Accepted, PlaysWhatWasAccepted, PadEven
    <2> QED BY <2>1, <2>3, <2>4, <2>5, <2>6 DEF SynthInv
<1>2. CASE Collect
    <2>1. req' = NoReq /\ reply' = NoReply /\ UNCHANGED <<pattern, playing, raw>>
        BY <1>2 DEF Collect
    <2>2. reply'.ok = TRUE /\ reply'.op = "none" /\ DOMAIN req' = {"op", "args"}
        BY <2>1 DEF NoReply, NoReq
    <2>3. Answers'
        BY <2>2, PlainAnswer DEF Shaped, Sweeps
    <2>4. TypeOK'
        BY <2>1, <2>2 DEF SynthInv, TypeOK
    <2>5. PaddingSuffices' /\ PadAddsNoEdge'
        BY <2>1, <2>2 DEF SynthInv, PaddingSuffices, PadAddsNoEdge, Levels
    <2>6. Accepted'
        BY <2>1 DEF SynthInv, Accepted, PlaysWhatWasAccepted, PadEven
    <2> QED BY <2>1, <2>2, <2>3, <2>4, <2>5, <2>6 DEF SynthInv
<1>3. CASE TooManyArguments
    BY <1>3, RefusedKept, OtherErrors DEF TooManyArguments
<1> QED BY <1>1, <1>2, <1>3

(* Silence. *)
LEMMA StopKept == ASSUME SynthInv, CmdStop PROVE SynthInv'
<1>1. /\ playing' = Silence /\ reply' = [ok |-> TRUE, op |-> "stop"]
      /\ UNCHANGED <<req, pattern, raw>>
    BY DEF CmdStop
<1>2. reply'.ok = TRUE /\ reply'.op = "stop" /\ playing'.kind = "silence"
    BY <1>1 DEF Silence
<1>3. Answers'
    BY <1>2, PlainAnswer DEF Shaped, Sweeps
<1>4. TypeOK'
    BY <1>1, <1>2 DEF SynthInv, TypeOK
<1>5. PaddingSuffices' /\ PadAddsNoEdge'
    BY <1>1, <1>2 DEF SynthInv, PaddingSuffices, PadAddsNoEdge, Levels
<1>6. Accepted'
    BY <1>1, <1>2 DEF SynthInv, Accepted, PlaysWhatWasAccepted, PadEven
<1> QED BY <1>1, <1>2, <1>3, <1>4, <1>5, <1>6 DEF SynthInv

(* Waves and counting. *)
LEMMA TogglesKept == ASSUME SynthInv, CmdSquare \/ CmdToggle \/ CmdCount PROVE SynthInv'
<1>1. ASSUME NEW op \in {"square", "toggle", "count"} PROVE op # "none" /\ op \notin Shaped
    BY DEF Shaped, Sweeps
<1>2. CASE CmdSquare
    <2> DEFINE ch == ChannelArg(Arg(1), BusWidth)
               hz == HzArg(Arg(2))
    <2>1. req.op = "square"
        BY <1>2 DEF CmdSquare, Asked
    <2>2. CASE Has(2) /\ ch.ok /\ hz.ok
        <3>1. RunFree([kind |-> "toggle", mask |-> {ch.value}], hz.value)
            BY <1>2, <2>2 DEF CmdSquare
        <3>2. Arg(1) \in Token
            <4>1. 2 \in Nat /\ 1 \in 1 .. 2
                OBVIOUS
            <4> QED BY <1>1, <2>1, <2>2, <4>1, ArgToken
        <3>3. ch.value \in Channels
            BY <2>2, <3>2, ChannelType
        <3> HIDE DEF ch, hz
        <3>4. {ch.value} \in (SUBSET Channels) \ {{}}
            BY <3>3
        <3> QED BY <1>1, <2>1, <3>1, <3>4, RunFreeKept
    <2>3. CASE ~(Has(2) /\ ch.ok /\ hz.ok)
        <3>1. Refuse("argument")
            BY <1>2, <2>3 DEF CmdSquare
        <3> QED BY <3>1, RefusedKept, OtherErrors
    <2> QED BY <2>2, <2>3
<1>3. CASE CmdToggle
    <2> DEFINE mask == MaskArg(Arg(1), BusWidth)
               hz == HzArg(Arg(2))
    <2>1. req.op = "toggle"
        BY <1>3 DEF CmdToggle, Asked
    <2>2. CASE Has(2) /\ mask.ok /\ mask.value # 0 /\ hz.ok
        <3>1. RunFree([kind |-> "toggle", mask |-> Bits(mask.value, BusWidth)], hz.value)
            BY <1>3, <2>2 DEF CmdToggle
        <3>2. Arg(1) \in Token
            <4>1. 2 \in Nat /\ 1 \in 1 .. 2
                OBVIOUS
            <4> QED BY <1>1, <2>1, <2>2, <4>1, ArgToken
        <3>3. Bits(mask.value, BusWidth) \in (SUBSET Channels) \ {{}}
            BY <2>2, <3>2, MaskType
        <3> HIDE DEF mask, hz
        <3> QED BY <1>1, <2>1, <3>1, <3>3, RunFreeKept
    <2>3. CASE ~(Has(2) /\ mask.ok /\ mask.value # 0 /\ hz.ok)
        <3>1. Refuse("argument")
            BY <1>3, <2>3 DEF CmdToggle
        <3> QED BY <3>1, RefusedKept, OtherErrors
    <2> QED BY <2>2, <2>3
<1>4. CASE CmdCount
    <2> DEFINE hz == HzArg(Arg(1))
    <2>1. req.op = "count"
        BY <1>4 DEF CmdCount, Asked
    <2>2. CASE Has(1) /\ hz.ok
        <3>1. RunFree([kind |-> "count"], hz.value)
            BY <1>4, <2>2 DEF CmdCount
        <3> HIDE DEF hz
        <3> QED BY <1>1, <2>1, <3>1, RunFreeKept
    <2>3. CASE ~(Has(1) /\ hz.ok)
        <3>1. Refuse("argument")
            BY <1>4, <2>3 DEF CmdCount
        <3> QED BY <3>1, RefusedKept, OtherErrors
    <2> QED BY <2>2, <2>3
<1> QED BY <1>2, <1>3, <1>4

(* A burst of one channel. *)
LEMMA GlitchKept == ASSUME SynthInv, CmdGlitch PROVE SynthInv'
<1>1. DEFINE ch == ChannelArg(Arg(1), BusWidth)
             ticks == U32Arg(Arg(2))
             made == Glitch({ch.value}, ticks.value)
<1>2. req.op = "glitch"
    BY DEF CmdGlitch, Asked
<1>3. CASE ~(Has(2) /\ ch.ok /\ ticks.ok)
    <2>1. Refuse("argument")
        BY <1>3 DEF CmdGlitch
    <2> QED BY <2>1, RefusedKept, OtherErrors
<1>4. CASE Has(2) /\ ch.ok /\ ticks.ok
    <2>1. OneShot(made, <<ch.value>>, ticks.value)
        BY <1>4 DEF CmdGlitch
    <2>2. Arg(1) \in Token /\ Arg(2) \in Token
        <3>1. 2 \in Nat /\ 1 \in 1 .. 2 /\ 2 \in 1 .. 2 /\ req.op # "none"
            BY <1>2
        <3> QED BY <1>4, <3>1, ArgToken
    <2>3. ch.value \in Channels
        BY <1>4, <2>2, ChannelType
    <2>4. ticks.value \in Nat
        <3>1. ticks.value \in 0 .. MaxU32
            BY <1>4, <2>2, U32Type, NumberFacts
        <3> QED BY <3>1, TimingAssumption
    <2> DEFINE answer == [ok |-> TRUE, op |-> req.op, chans |-> <<ch.value>>, ticks |-> ticks.value,
                          preloaded |-> Len(PadEven(made.value)) <= PreloadSamples]
               c == ch.value
               t == ticks.value
    <2>5. Play(made, FALSE, FullRate, answer)
        BY <2>1 DEF OneShot
    <2>6. /\ Buildable(made)
          /\ made.ok => /\ Last(PadEven(made.value)) = {}
                        /\ \A d : HighIn(PadEven(made.value), d) = IF d = c THEN 2 .. t + 1 ELSE {}
        BY <2>3, <2>4, GlitchMade
    <2>7. answer.ok = TRUE /\ answer.op = "glitch" /\ answer.chans[1] = c /\ answer.ticks = t
        BY <1>2
    <2> HIDE DEF answer, made, c, t, ch, ticks
    <2>8. CASE /\ made.ok /\ reply' = answer
               /\ playing' = Wave(PadEven(made.value), FALSE, FullRate)
               /\ Answers' => SynthInv'
        <3>1. reply'.ok = TRUE /\ reply'.op = "glitch" /\ reply'.chans[1] = c /\ reply'.ticks = t
            BY <2>7, <2>8
        <3>2. playing'.samples = PadEven(made.value) /\ playing'.looping = FALSE
            BY <2>8 DEF Wave
        <3>3. GlitchShape(reply.chans[1], reply.ticks)'
            <4>1. Last(playing'.samples) = {}
                BY <2>6, <2>8, <3>2
            <4>2. ASSUME NEW d \in Channels PROVE High(d)' = IF d = c THEN 2 .. t + 1 ELSE {}
                <5>1. HighIn(playing'.samples, d) = IF d = c THEN 2 .. t + 1 ELSE {}
                    BY <2>6, <2>8, <3>2
                <5> QED BY <5>1 DEF High, HighIn
            <4> QED BY <3>1, <3>2, <4>1, <4>2 DEF GlitchShape, AllLowAtEnd
        <3>4. Answers'
            BY <3>1, <3>3 DEF Answers, ShapeAsReported, GraySteps, SweepDwell, Sweeps
        <3> QED BY <2>8, <3>4
    <2> QED BY <2>5, <2>6, <2>7, <2>8, Played
<1> QED BY <1>3, <1>4

(* A burst of two. *)
LEMMA SkewKept == ASSUME SynthInv, CmdSkew PROVE SynthInv'
<1>1. DEFINE ch1 == ChannelArg(Arg(1), BusWidth)
             ch2 == ChannelArg(Arg(2), BusWidth)
             ticks == U32Arg(Arg(3))
             made == Skew({ch1.value}, {ch2.value}, ticks.value)
<1>2. req.op = "skew"
    BY DEF CmdSkew, Asked
<1>3. CASE ~(Has(3) /\ ch1.ok /\ ch2.ok /\ ch1 # ch2 /\ ticks.ok)
    <2>1. Refuse("argument")
        BY <1>3 DEF CmdSkew
    <2> QED BY <2>1, RefusedKept, OtherErrors
<1>4. CASE Has(3) /\ ch1.ok /\ ch2.ok /\ ch1 # ch2 /\ ticks.ok
    <2>1. OneShot(made, <<ch1.value, ch2.value>>, ticks.value)
        BY <1>4 DEF CmdSkew
    <2>2. Arg(1) \in Token /\ Arg(2) \in Token /\ Arg(3) \in Token
        <3>1. 3 \in Nat /\ 1 \in 1 .. 3 /\ 2 \in 1 .. 3 /\ 3 \in 1 .. 3 /\ req.op # "none"
            BY <1>2
        <3> QED BY <1>4, <3>1, ArgToken
    <2>3. ch1.value \in Channels /\ ch2.value \in Channels /\ ch1.value # ch2.value
        BY <1>4, <2>2, ChannelType, ChannelsDiffer
    <2>4. ticks.value \in Nat
        <3>1. ticks.value \in 0 .. MaxU32
            BY <1>4, <2>2, U32Type, NumberFacts
        <3> QED BY <3>1, TimingAssumption
    <2> DEFINE answer == [ok |-> TRUE, op |-> req.op, chans |-> <<ch1.value, ch2.value>>,
                          ticks |-> ticks.value,
                          preloaded |-> Len(PadEven(made.value)) <= PreloadSamples]
               a == ch1.value
               b == ch2.value
               t == ticks.value
    <2>5. Play(made, FALSE, FullRate, answer)
        BY <2>1 DEF OneShot
    <2>6. /\ Buildable(made)
          /\ made.ok => /\ Last(PadEven(made.value)) = {}
                        /\ \A c : HighIn(PadEven(made.value), c) = CASE c = a -> 2 .. 2 * t + 1
                                                                     [] c = b -> t + 2 .. 2 * t + 1
                                                                     [] OTHER -> {}
        BY <2>3, <2>4, SkewMade
    <2>7. /\ answer.ok = TRUE /\ answer.op = "skew" /\ answer.ticks = t
          /\ answer.chans[1] = a /\ answer.chans[2] = b
        BY <1>2
    <2> HIDE DEF answer, made, a, b, t, ch1, ch2, ticks
    <2>8. CASE /\ made.ok /\ reply' = answer
               /\ playing' = Wave(PadEven(made.value), FALSE, FullRate)
               /\ Answers' => SynthInv'
        <3>1. /\ reply'.ok = TRUE /\ reply'.op = "skew" /\ reply'.ticks = t
              /\ reply'.chans[1] = a /\ reply'.chans[2] = b
            BY <2>7, <2>8
        <3>2. playing'.samples = PadEven(made.value) /\ playing'.looping = FALSE
            BY <2>8 DEF Wave
        <3>3. SkewShape(reply.chans[1], reply.chans[2], reply.ticks)'
            <4>1. Last(playing'.samples) = {}
                BY <2>6, <2>8, <3>2
            <4>2. ASSUME NEW c \in Channels
                  PROVE  High(c)' = CASE c = a -> 2 .. 2 * t + 1
                                      [] c = b -> t + 2 .. 2 * t + 1
                                      [] OTHER -> {}
                <5>1. High(c)' = HighIn(playing'.samples, c)
                    BY DEF High, HighIn
                <5> QED BY <2>6, <2>8, <3>2, <5>1
            <4> QED BY <3>1, <3>2, <4>1, <4>2 DEF SkewShape, AllLowAtEnd
        <3>4. Answers'
            BY <3>1, <3>3 DEF Answers, ShapeAsReported, GraySteps, SweepDwell, Sweeps
        <3> QED BY <2>8, <3>4
    <2> QED BY <2>5, <2>6, <2>7, <2>8, Played
<1> QED BY <1>3, <1>4

(* A pulse train, in time. *)
LEMMA PulseKept == ASSUME SynthInv, CmdPulse PROVE SynthInv'
<1>1. DEFINE ch == ChannelArg(Arg(1), BusWidth)
             ns1 == U32Arg(Arg(2))
             ns2 == U32Arg(Arg(3))
             high == TicksForNs(Sysclk, ns1.value)
             period == TicksForNs(Sysclk, ns2.value)
             made == Pulse({ch.value}, high, period)
<1>2. req.op = "pulse"
    BY DEF CmdPulse, Asked
<1>3. CASE ~(Has(3) /\ ch.ok /\ ns1.ok /\ ns2.ok)
    <2>1. Refuse("argument")
        BY <1>3 DEF CmdPulse
    <2> QED BY <2>1, RefusedKept, OtherErrors
<1>4. CASE Has(3) /\ ch.ok /\ ns1.ok /\ ns2.ok
    <2> DEFINE answer == [ok |-> TRUE, op |-> "pulse", chan |-> ch.value,
                          highPs |-> NsOfTicksPs(Sysclk, high), periodPs |-> NsOfTicksPs(Sysclk, period)]
               c == ch.value
    <2>1. Play(made, TRUE, FullRate, answer)
        BY <1>4 DEF CmdPulse
    <2>2. Arg(1) \in Token /\ Arg(2) \in Token /\ Arg(3) \in Token
        <3>1. 3 \in Nat /\ 1 \in 1 .. 3 /\ 2 \in 1 .. 3 /\ 3 \in 1 .. 3 /\ req.op # "none"
            BY <1>2
        <3> QED BY <1>4, <3>1, ArgToken
    <2>3. ch.value \in Channels
        BY <1>4, <2>2, ChannelType
    <2>4. ns1.value \in Nat /\ ns2.value \in Nat
        <3>1. ns1.value \in 0 .. MaxU32 /\ ns2.value \in 0 .. MaxU32
            BY <1>4, <2>2, U32Type, NumberFacts
        <3> QED BY <3>1, TimingAssumption
    <2>5. high \in Nat /\ period \in Nat /\ NsOfTicksPs(Sysclk, high) \div TickPs(Sysclk) = high
        BY <2>4, TickFacts
    <2> HIDE DEF ns1, ns2, high, period
    <2>6. /\ Buildable(made)
          /\ made.ok => /\ Last(PadEven(made.value)) = {}
                        /\ \A d : HighIn(PadEven(made.value), d) = IF d = c THEN 1 .. high ELSE {}
        BY <2>3, <2>5, PulseMade
    <2>7. /\ answer.ok = TRUE /\ answer.op = "pulse" /\ answer.chan = c
          /\ answer.highPs \div TickPs(Sysclk) = high
        BY <2>5
    <2> HIDE DEF answer, made, c, ch
    <2>8. CASE /\ made.ok /\ reply' = answer
               /\ playing' = Wave(PadEven(made.value), TRUE, FullRate)
               /\ Answers' => SynthInv'
        <3>1. /\ reply'.ok = TRUE /\ reply'.op = "pulse" /\ reply'.chan = c
              /\ reply'.highPs \div TickPs(Sysclk) = high
            BY <2>7, <2>8
        <3>2. playing'.samples = PadEven(made.value) /\ playing'.looping = TRUE
            BY <2>8 DEF Wave
        <3>3. PulseShape(reply.chan, reply.highPs \div TickPs(Sysclk))'
            <4>1. Last(playing'.samples) = {}
                BY <2>6, <2>8, <3>2
            <4>2. ASSUME NEW d \in Channels PROVE High(d)' = IF d = c THEN 1 .. high ELSE {}
                <5>1. HighIn(playing'.samples, d) = IF d = c THEN 1 .. high ELSE {}
                    BY <2>6, <2>8, <3>2
                <5> QED BY <5>1 DEF High, HighIn
            <4> QED BY <3>1, <3>2, <4>1, <4>2 DEF PulseShape, AllLowAtEnd
        <3>4. Answers'
            BY <3>1, <3>3 DEF Answers, ShapeAsReported, GraySteps, SweepDwell, Sweeps
        <3> QED BY <2>8, <3>4
    <2> QED BY <2>1, <2>6, <2>7, <2>8, Played
<1> QED BY <1>3, <1>4

(* A sweep. *)
LEMMA SweepKept == ASSUME SynthInv, CmdSweep PROVE SynthInv'
<1>1. DEFINE width == SweepWidth(req.op)
             hz == HzArg(Arg(1))
             plan == PlanRate(hz.value)
             w == width.value
             r == plan.value.repeat
             made == Write(Logical(req.op, w), r)
             divisor == plan.value.divisor
<1>2. req.op \in Sweeps /\ req.op # "none" /\ req.op \notin {"glitch", "skew", "pulse"}
    BY DEF CmdSweep, Asked, Sweeps
<1>3. CASE ~(Has(1) /\ hz.ok /\ width.ok /\ w \in 1 .. BusWidth)
    <2>1. Refuse("argument")
        BY <1>3 DEF CmdSweep
    <2> QED BY <2>1, RefusedKept, OtherErrors
<1>4. CASE Has(1) /\ hz.ok /\ width.ok /\ w \in 1 .. BusWidth
    <2> DEFINE answer == [ok |-> TRUE, op |-> req.op, width |-> w, repeat |-> r]
    <2>1. IF ~plan.ok THEN Refuse(plan.error) ELSE Play(made, TRUE, divisor, answer)
        BY <1>4 DEF CmdSweep
    <2>2. hz.value \in Nat
        <3>1. 1 \in Nat /\ 1 \in 1 .. 1
            OBVIOUS
        <3>2. Arg(1) \in Token
            BY <1>2, <1>4, <3>1, ArgToken
        <3>3. hz.value \in 0 .. MaxU32
            BY <1>4, <3>2, HzType, NumberFacts
        <3> QED BY <3>3, TimingAssumption
    <2>3. CASE ~plan.ok
        <3>1. Refuse(plan.error) /\ plan.error \notin LoadErrors
            BY <2>1, <2>2, <2>3, PlanFacts
        <3> QED BY <3>1, RefusedKept
    <2>4. CASE plan.ok
        <3>1. Play(made, TRUE, divisor, answer) /\ r \in Nat \ {0} /\ w \in Width
            BY <1>4, <2>1, <2>2, <2>4, PlanFacts DEF Width
        <3> HIDE DEF w, r, divisor, hz, width, plan
        <3>2. Logical(req.op, w) \in Samples /\ Len(Logical(req.op, w)) \in Nat \ {0}
            BY <1>2, <3>1, SweepsSweep
        <3>3. Logical(req.op, w) # <<>>
            BY <3>2
        <3>4. Buildable(made) /\ (made.ok => Repeats(PadEven(made.value), Logical(req.op, w), r))
            BY <3>1, <3>2, <3>3, SweepLoaded
        <3>5. /\ answer.ok = TRUE /\ answer.op = req.op /\ answer.width = w /\ answer.repeat = r
            OBVIOUS
        <3> HIDE DEF answer, made
        <3>6. CASE /\ made.ok /\ reply' = answer
                   /\ playing' = Wave(PadEven(made.value), TRUE, divisor)
                   /\ Answers' => SynthInv'
            <4> DEFINE s == PadEven(made.value)
                       op == req.op
            <4>1. /\ reply'.ok = TRUE /\ reply'.op = op /\ reply'.width = w /\ reply'.repeat = r
                  /\ playing'.samples = s
                BY <3>5, <3>6 DEF Wave
            <4>2. s \in Samples /\ Repeats(s, Logical(op, w), r) /\ op \in Sweeps
                BY <1>2, <3>4, <3>6, Padded DEF Buildable
            <4> HIDE DEF s
            <4>3. ShapeAsReported'
                BY <1>2, <4>1 DEF ShapeAsReported
            <4>4. GraySteps'
                <5>1. SUFFICES ASSUME op = "gray" PROVE GraySteps'
                    BY <4>1 DEF GraySteps
                <5>2. Repeats(s, Gray(w), r)
                    BY <4>2, <5>1 DEF Logical
                <5>3. /\ \A i \in DOMAIN s : Cardinality(SymDiff(s[i], s[(i % Len(s)) + 1])) <= 1
                      /\ ToSet(s) = SUBSET (0 .. w - 1)
                    BY <3>1, <4>2, <5>2, GrayMoves
                <5> QED BY <4>1, <5>3 DEF GraySteps
            <4>5. SweepDwell'
                <5>1. \A i \in 1 .. Len(s) - 1 :
                        s[i] # s[i + 1] <=> i % r = 0 /\ i < r * Len(Logical(op, w))
                    BY <3>1, <4>2, SweepDwells
                <5> HIDE DEF op
                <5>2. (Logical(reply.op, reply.width))' = Logical(reply'.op, reply'.width)
                    BY DEF Logical
                <5> QED BY <4>1, <5>1, <5>2 DEF SweepDwell
            <4> QED BY <3>6, <4>1, <4>3, <4>4, <4>5 DEF Answers
        <3> QED BY <3>1, <3>4, <3>5, <3>6, Played
    <2> QED BY <2>2, <2>3, <2>4
<1> QED BY <1>3, <1>4

(* Samples of the host's own. *)
LEMMA LoadKept == ASSUME SynthInv, CmdLoad PROVE SynthInv'
<1>1. DEFINE values == [i \in DOMAIN req.args |-> U32Arg(Arg(i))]
             samples == [i \in DOMAIN values |-> Bits(values[i].value, BusWidth)]
             bad == {i \in DOMAIN values : ~(values[i].ok /\ values[i].value < Power(2, BusWidth))}
             n == Len(req.args)
<1>2. req.op = "load"
    BY DEF CmdLoad, Asked
<1>3. CASE ~Has(1) \/ Has(Capacity + 1)
    <2>1. Refuse("argument")
        BY <1>3 DEF CmdLoad
    <2> QED BY <2>1, RefusedKept, OtherErrors
<1>4. CASE Has(1) /\ ~Has(Capacity + 1) /\ bad # {}
    <2> DEFINE written == [i \in 1 .. Min(bad) - 1 |-> samples[i]]
    <2>1. RefuseLeaving(written, "argument")
        BY <1>4 DEF CmdLoad
    <2> HIDE DEF written
    <2> QED BY <2>1, Refused, OtherErrors
<1>5. CASE Has(1) /\ ~Has(Capacity + 1) /\ bad = {}
    <2>1. IF LoadError(PadEven(samples)) # "none"
          THEN RefuseLeaving(PadEven(samples), LoadError(PadEven(samples)))
          ELSE /\ Loaded(samples) /\ playing' = Silence
               /\ reply' = [ok |-> TRUE, op |-> "load"]
               /\ UNCHANGED req
        BY <1>5 DEF CmdLoad
    <2>2. n \in Nat /\ DOMAIN req.args = 1 .. n /\ n >= 1 /\ n <= Capacity
        <3>1. req \in Requests
            BY <1>2 DEF SynthInv, NoReq
        <3>2. req.args \in Seq(Seq(STRING))
            BY <3>1, SynthAssumption
        <3>3. n \in Nat /\ DOMAIN req.args = 1 .. n
            BY <3>2, LenProperties
        <3> QED BY <1>5, <3>3, PatternsAssumption DEF Has
    <2>3. \A v : Bits(v, BusWidth) \in SUBSET Channels
        BY DEF Bits, Channels
    <2>4. DOMAIN samples = 1 .. n
        BY <2>2
    <2> HIDE DEF values, n
    <2>5. samples \in [1 .. n -> SUBSET Channels]
        BY <2>3, <2>4
    <2> HIDE DEF samples, bad
    <2>6. samples \in Samples /\ Len(samples) = n /\ samples # <<>> /\ Len(samples) <= Capacity
        <3>1. samples \in Samples /\ Len(samples) = n
            BY <2>2, <2>5, FunctionSeq DEF Samples
        <3> QED BY <2>2, <3>1
    <2>7. LoadError(PadEven(samples)) = "none"
        BY <2>6, Padded
    <2>8. /\ Loaded(samples) /\ playing' = Silence /\ UNCHANGED req
          /\ reply' = [ok |-> TRUE, op |-> "load"]
        BY <2>1, <2>7
    <2>9. reply'.ok = TRUE /\ reply'.op = "load" /\ playing'.kind = "silence"
        BY <2>8 DEF Silence
    <2>10. /\ pattern' \in Samples /\ Len(pattern') % 2 = 0 /\ Len(pattern') <= Capacity
           /\ PadAddsNoEdge' /\ pattern' = PadEven(samples) /\ (PadEven(raw))' = PadEven(samples)
        BY <2>6, <2>8, LoadKeeps
    <2>11. Answers'
        BY <2>9, PlainAnswer DEF Shaped, Sweeps
    <2>12. TypeOK'
        BY <2>8, <2>9, <2>10 DEF SynthInv, TypeOK
    <2>13. PaddingSuffices'
        BY <2>9 DEF PaddingSuffices
    <2>14. Accepted'
        BY <2>9, <2>10 DEF Accepted, PlaysWhatWasAccepted
    <2> QED BY <2>8, <2>9, <2>10, <2>11, <2>12, <2>13, <2>14 DEF SynthInv
<1> QED BY <1>3, <1>4, <1>5

(* And played. *)
LEMMA PlayKept == ASSUME SynthInv, CmdPlay PROVE SynthInv'
<1>1. DEFINE divisor == DivisorForRate(Sysclk, HzArg(Arg(1)).value)
             legal == /\ pattern # <<>> /\ Has(1) /\ HzArg(Arg(1)).ok
                      /\ Has(2) => Arg(2) = <<"l", "o", "o", "p">>
<1>2. IF legal
      THEN IF ~divisor.ok THEN Refuse(divisor.error)
           ELSE /\ playing' = Wave(pattern, Has(2), divisor.value)
                /\ reply' = [ok |-> TRUE, op |-> "play"]
                /\ UNCHANGED <<req, pattern, raw>>
      ELSE Refuse("argument")
    BY DEF CmdPlay
<1>3. divisor.ok \in BOOLEAN /\ (~divisor.ok => divisor.error \notin LoadErrors)
    BY DivisorFacts
<1>4. legal => pattern # <<>>
    OBVIOUS
<1> HIDE DEF divisor, legal
<1>5. CASE ~legal \/ ~divisor.ok
    BY <1>2, <1>3, <1>5, RefusedKept, OtherErrors
<1>6. CASE legal /\ divisor.ok
    <2>1. /\ playing' = Wave(pattern, Has(2), divisor.value)
          /\ reply' = [ok |-> TRUE, op |-> "play"]
          /\ UNCHANGED <<req, pattern, raw>>
        BY <1>2, <1>6
    <2>2. /\ reply'.ok = TRUE /\ reply'.op = "play"
          /\ playing'.kind = "pattern" /\ playing'.samples = pattern
        BY <2>1 DEF Wave
    <2>3. Answers'
        BY <2>2, PlainAnswer DEF Shaped, Sweeps
    <2>4. pattern \in Samples \ {<<>>}
        BY <1>4, <1>6 DEF SynthInv, TypeOK
    <2>5. TypeOK'
        BY <2>1, <2>2, <2>4 DEF SynthInv, TypeOK
    <2>6. PaddingSuffices' /\ PadAddsNoEdge'
        BY <2>1, <2>2 DEF SynthInv, PaddingSuffices, PadAddsNoEdge, Levels
    <2>7. Accepted'
        BY <2>1, <2>2 DEF SynthInv, Accepted, PlaysWhatWasAccepted, PadEven
    <2> QED BY <2>1, <2>2, <2>3, <2>5, <2>6, <2>7 DEF SynthInv
<1> QED BY <1>3, <1>5, <1>6

-----------------------------------------------------------------------------
(* The invariant of the commands.                                          *)

(* It holds before the first line. *)
LEMMA InitSynthInv == Init => SynthInv
<1> SUFFICES ASSUME Init PROVE SynthInv
    OBVIOUS
<1>1. reply.ok = TRUE /\ reply.op = "none" /\ DOMAIN req = {"op", "args"} /\ playing.kind = "silence"
    BY DEF Init, NoReply, NoReq, Silence
<1>2. Answers
    BY <1>1 DEF Answers, ShapeAsReported, GraySteps, SweepDwell, Sweeps
<1>3. TypeOK
    <2>1. pattern \in Samples /\ Len(pattern) = 0 /\ 0 % 2 = 0 /\ 0 <= Capacity
        BY PatternsAssumption DEF Init, Samples
    <2> QED BY <1>1, <2>1 DEF TypeOK
<1>4. PaddingSuffices /\ PadAddsNoEdge
    BY <1>1 DEF Init, PaddingSuffices, PadAddsNoEdge
<1>5. Accepted
    <2>1. PadEven(<<>>) = <<>>
        <3>1. Len(<<>>) % 2 = 0
            OBVIOUS
        <3> QED BY <3>1 DEF PadEven
    <2> QED BY <1>1, <2>1 DEF Init, Accepted, PlaysWhatWasAccepted
<1> QED BY <1>2, <1>3, <1>4, <1>5 DEF Init, SynthInv

(* No step breaks it. *)
LEMMA StepKept ==
    ASSUME SynthInv, [Next]_vars
    PROVE  SynthInv'
<1>1. CASE UNCHANGED vars
    <2>1. UNCHANGED <<req, reply, pattern, playing, raw>>
        BY <1>1 DEF vars
    <2>2. TypeOK'
        BY <2>1 DEF SynthInv, TypeOK
    <2>3. PaddingSuffices' /\ PadAddsNoEdge'
        BY <2>1 DEF SynthInv, PaddingSuffices, PadAddsNoEdge, Levels
    <2>4. Answers'
        BY <2>1 DEF SynthInv, Answers, ShapeAsReported, GraySteps, SweepDwell,
                    GlitchShape, SkewShape, PulseShape, AllLowAtEnd, High
    <2>5. Accepted'
        BY <2>1 DEF SynthInv, Accepted, PlaysWhatWasAccepted, PadEven
    <2> QED BY <2>1, <2>2, <2>3, <2>4, <2>5 DEF SynthInv
<1>2. CASE Next
    BY <1>2, LineKept, StopKept, TogglesKept, GlitchKept, SkewKept, PulseKept, SweepKept,
       LoadKept, PlayKept DEF Next
<1> QED BY <1>1, <1>2

(* The commands keep all that is said of them below, together. *)
THEOREM SynthInvariance == Spec => []SynthInv
<1>1. SynthInv /\ [Next]_vars => SynthInv'
    BY StepKept
<1> QED BY <1>1, InitSynthInv, PTL DEF Spec

(* What is loaded is whole words that fit the buffer, and what is put on   *)
(* the channels stays on the bus.                                          *)
THEOREM SynthTypeOK == Spec => []TypeOK
<1>1. SynthInv => TypeOK
    BY DEF SynthInv
<1> QED BY <1>1, SynthInvariance, PTL

(* No pattern a command built is refused when it is loaded.                *)
THEOREM SynthPaddingSuffices == Spec => []PaddingSuffices
<1>1. SynthInv => PaddingSuffices
    BY DEF SynthInv
<1> QED BY <1>1, SynthInvariance, PTL

(* Padding invents no transition. *)
THEOREM SynthPadAddsNoEdge == Spec => []PadAddsNoEdge
<1>1. SynthInv => PadAddsNoEdge
    BY DEF SynthInv
<1> QED BY <1>1, SynthInvariance, PTL

(* A burst and a pulse are what their reply says. *)
THEOREM SynthShapeAsReported == Spec => []ShapeAsReported
<1>1. SynthInv => ShapeAsReported
    BY DEF SynthInv, Answers
<1> QED BY <1>1, SynthInvariance, PTL

(* A gray sweep of any width moves one channel at a time, also where it    *)
(* wraps, and visits every code.                                           *)
THEOREM SynthGraySteps == Spec => []GraySteps
<1>1. SynthInv => GraySteps
    BY DEF SynthInv, Answers
<1> QED BY <1>1, SynthInvariance, PTL

(* Every level of a sweep lasts the samples its rate was planned for.      *)
THEOREM SynthSweepDwell == Spec => []SweepDwell
<1>1. SynthInv => SweepDwell
    BY DEF SynthInv, Answers
<1> QED BY <1>1, SynthInvariance, PTL

(* The pattern on the channels is the one accepted last, whatever was      *)
(* refused half-way, stopped or put in its place in between.               *)
THEOREM SynthPlaysWhatWasAccepted == Spec => []PlaysWhatWasAccepted
<1>1. SynthInv => PlaysWhatWasAccepted
    BY DEF SynthInv, Accepted
<1> QED BY <1>1, SynthInvariance, PTL


-----------------------------------------------------------------------------
(* Numbers: what the parsers compute is what is written.                   *)

(* The digits kept of the beginnings of a token, one after the other. *)
Keeping(f, s) ==
    f = [n \in 0 .. Len(s) |->
            IF n = 0 THEN <<>> ELSE IF s[n] = "_" THEN f[n - 1] ELSE Append(f[n - 1], s[n])]

(* Unseparated is what is kept of all of it. *)
LEMMA UnseparatedIs ==
    ASSUME NEW s \in Token
    PROVE  \E f \in [0 .. Len(s) -> Token] : Keeping(f, s) /\ Unseparated(s) = f[Len(s)]
<1>1. DEFINE N == Len(s)
             G == [p \in Nat \X Token |-> IF p[1] + 1 \in 1 .. N /\ s[p[1] + 1] # "_"
                                          THEN Append(p[2], s[p[1] + 1]) ELSE p[2]]
<1>2. s \in Seq(STRING) /\ N \in Nat /\ <<>> \in Token /\ \A i \in 1 .. N : s[i] \in STRING
    BY LenProperties, ElementOfSeq DEF Token
<1> HIDE DEF N
<1>3. ASSUME NEW n \in Nat, NEW v \in Token
      PROVE  /\ G[<<n, v>>] \in Token
             /\ n + 1 \in 1 .. N => G[<<n, v>>] = IF s[n + 1] = "_" THEN v ELSE Append(v, s[n + 1])
    <2>1. G[<<n, v>>] = IF n + 1 \in 1 .. N /\ s[n + 1] # "_" THEN Append(v, s[n + 1]) ELSE v
        OBVIOUS
    <2>2. \A c \in STRING : Append(v, c) \in Token
        BY AppendProperties DEF Token
    <2> QED BY <1>2, <2>1, <2>2
<1> HIDE DEF G
<1>4. StaysIn(Token, <<>>, G)
    BY <1>2, <1>3 DEF StaysIn
<1>5. PICK g \in [Nat -> Token] : Unfolds(g, <<>>, G)
    BY <1>4, Recursion
<1>6. DEFINE h == [n \in 0 .. N |-> g[n]]
             f == CHOOSE f : Keeping(f, s)
<1>7. Keeping(h, s)
    <2>1. ASSUME NEW n \in 0 .. N
          PROVE  h[n] = IF n = 0 THEN <<>> ELSE IF s[n] = "_" THEN h[n - 1] ELSE Append(h[n - 1], s[n])
        <3>1. CASE n = 0
            BY <1>5, <3>1 DEF Unfolds
        <3>2. CASE n # 0
            <4>1. n - 1 \in Nat /\ n - 1 \in 0 .. N /\ (n - 1) + 1 = n /\ n \in 1 .. N
                BY <1>2, <3>2
            <4>2. g[(n - 1) + 1] = G[<<n - 1, g[n - 1]>>] /\ g[n - 1] \in Token
                BY <1>5, <4>1 DEF Unfolds
            <4>3. g[n] = IF s[n] = "_" THEN g[n - 1] ELSE Append(g[n - 1], s[n])
                BY <1>3, <4>1, <4>2
            <4> QED BY <3>2, <4>1, <4>3
        <3> QED BY <3>1, <3>2
    <2> HIDE DEF h
    <2>2. h = [n \in 0 .. N |-> h[n]]
        BY DEF h
    <2> QED BY <2>1, <2>2 DEF Keeping, N
<1>8. Keeping(f, s)
    BY <1>7
<1>9. Unseparated(s) = f[N]
    BY DEF Unseparated, Keeping, N
<1> HIDE DEF f
<1>10. f \in [0 .. N -> Token]
    <2> DEFINE T == {n \in 0 .. N : f[n] \in Token}
    <2>1. 0 \in T
        <3>1. 0 \in 0 .. N
            BY <1>2
        <3>2. f[0] = <<>>
            BY <1>8, <3>1, Zenon DEF Keeping, N
        <3> QED BY <1>2, <3>1, <3>2
    <2>2. ASSUME NEW n \in 0 .. N - 1, n \in T PROVE n + 1 \in T
        <3>1. n + 1 \in 0 .. N /\ n + 1 # 0 /\ (n + 1) - 1 = n /\ n + 1 \in 1 .. N
            BY <1>2
        <3>2. f[n + 1] = IF s[n + 1] = "_" THEN f[n] ELSE Append(f[n], s[n + 1])
            BY <1>8, <3>1 DEF Keeping, N
        <3>3. Append(f[n], s[n + 1]) \in Token
            BY <1>2, <2>2, <3>1, AppendProperties DEF Token
        <3> QED BY <2>2, <3>1, <3>2, <3>3
    <2>3. \A n \in 0 .. N : n \in T
        <3> HIDE DEF T
        <3> QED BY <1>2, <2>1, <2>2, BoundedInduction
    <2>4. f = [n \in 0 .. N |-> f[n]]
        BY <1>8, Zenon DEF Keeping, N
    <2> QED BY <2>3, <2>4
<1> QED BY <1>8, <1>9, <1>10 DEF N

(* Digits all, and their sums from the left. *)
AllDigits(d, radix) == \A i \in DOMAIN d : IsDigit(d[i], radix)

Adding(f, d, radix) ==
    f = [n \in 0 .. Len(d) |->
            IF n = 0 THEN 0 ELSE f[n - 1] + DigitValue[d[n]] * Power(radix, Len(d) - n)]

Radices == {2, 10, 16}

(* A digit of a radix is a figure of it, and worth what it stands for. *)
LEMMA DigitFigure ==
    ASSUME NEW c, NEW radix \in Radices
    PROVE  /\ IsDigit(c, radix) <=> IsFigure(c, radix)
           /\ IsDigit(c, radix) => \E v \in 0 .. radix - 1 :
                                      v \in 0 .. 15 /\ Denotes(c, v) /\ DigitValue[c] = v
<1>1. radix \in 2 .. 16
    BY DEF Radices
<1>2. ASSUME IsDigit(c, radix)
      PROVE  \E v \in 0 .. radix - 1 : v \in 0 .. 15 /\ Denotes(c, v) /\ DigitValue[c] = v
    <2>1. PICK v \in 0 .. 15 : Denotes(c, v)
        BY <1>2, HasValue DEF IsDigit
    <2>2. DigitValue[c] = v
        BY <2>1, DigitIs
    <2>3. v \in 0 .. radix - 1
        BY <1>1, <1>2, <2>2 DEF IsDigit
    <2> QED BY <2>1, <2>2, <2>3
<1>3. ASSUME IsFigure(c, radix) PROVE IsDigit(c, radix)
    <2>1. PICK v \in 0 .. radix - 1 : Denotes(c, v)
        BY <1>3 DEF IsFigure
    <2>2. v \in 0 .. 15
        BY <1>1
    <2>3. c \in DOMAIN DigitValue /\ DigitValue[c] = v
        BY <2>1, <2>2, DigitIs
    <2>4. DigitValue[c] < radix
        BY <1>1, <2>3
    <2> QED BY <2>3, <2>4 DEF IsDigit
<1>4. IsDigit(c, radix) => IsFigure(c, radix)
    BY <1>2 DEF IsFigure
<1> QED BY <1>2, <1>3, <1>4

(* The characters of figures. *)
FigureLetters == {"0", "1", "2", "3", "4", "5", "6", "7", "8", "9",
                  "a", "b", "c", "d", "e", "f", "A", "B", "C", "D", "E", "F"}

(* Every figure is one of them, in either case. *)
LEMMA FigureChars ==
    ASSUME NEW i \in 1 .. 16
    PROVE  Small[i] \in FigureLetters /\ Capital[i] \in FigureLetters
<1>1. Small[i] \in FigureLetters
    BY DEF Small, FigureLetters
<1>2. Capital[i] \in FigureLetters
    BY DEF Capital, FigureLetters
<1> QED BY <1>1, <1>2

(* The value of a digit. *)
LEMMA DigitFacts ==
    ASSUME NEW c, NEW radix \in Radices, IsDigit(c, radix)
    PROVE  DigitValue[c] \in 0 .. radix - 1 /\ c # "_"
<1>1. PICK v \in 0 .. 15 : Denotes(c, v) /\ DigitValue[c] = v /\ v \in 0 .. radix - 1
    BY DigitFigure
<1>2. PICK i \in 1 .. 16 : i = v + 1
    OBVIOUS
<1>3. c \in {Small[i], Capital[i]}
    BY <1>1, <1>2 DEF Denotes
<1>4. c # "_"
    <2>1. c \in FigureLetters
        BY <1>3, FigureChars
    <2> QED BY <2>1 DEF FigureLetters
<1> QED BY <1>1, <1>4

(* What the reference takes a character for, and how it adds them up. *)
FigureWorth(c) == CHOOSE v \in 0 .. 15 : Denotes(c, v)

Summing(f, d, radix) ==
    f = [n \in 0 .. Len(d) |->
            IF n = 0 THEN 0 ELSE f[n - 1] + FigureWorth(d[n]) * Power(radix, Len(d) - n)]

(* It takes a digit for what the parser does. *)
LEMMA WorthIs ==
    ASSUME NEW c, NEW radix \in Radices, IsDigit(c, radix)
    PROVE  FigureWorth(c) = DigitValue[c]
<1>1. PICK v \in 0 .. 15 : Denotes(c, v) /\ DigitValue[c] = v
    BY DigitFigure
<1>2. FigureWorth(c) \in 0 .. 15 /\ Denotes(c, FigureWorth(c))
    <2> DEFINE P(w) == Denotes(c, w)
    <2>1. P(v)
        BY <1>1
    <2>2. FigureWorth(c) = CHOOSE w \in 0 .. 15 : P(w)
        BY DEF FigureWorth
    <2> HIDE DEF P
    <2>3. FigureWorth(c) \in 0 .. 15 /\ P(FigureWorth(c))
        BY <2>1, <2>2
    <2> QED BY <2>3 DEF P
<1> QED BY <1>1, <1>2, FigureOnce

(* Of digits, it is the sum of their values. *)
LEMMA SummingIs ==
    ASSUME NEW d \in Token, NEW radix \in Radices, AllDigits(d, radix), NEW f
    PROVE  Summing(f, d, radix) <=> Adding(f, d, radix)
<1>1. DOMAIN d = 1 .. Len(d) /\ Len(d) \in Nat
    BY LenProperties DEF Token
<1> DEFINE A == [n \in 0 .. Len(d) |->
                    IF n = 0 THEN 0 ELSE f[n - 1] + DigitValue[d[n]] * Power(radix, Len(d) - n)]
           S == [n \in 0 .. Len(d) |->
                    IF n = 0 THEN 0 ELSE f[n - 1] + FigureWorth(d[n]) * Power(radix, Len(d) - n)]
<1>2. ASSUME NEW n \in 0 .. Len(d) PROVE A[n] = S[n]
    <2>1. CASE n = 0
        BY <2>1
    <2>2. CASE n # 0
        <3>1. n \in DOMAIN d
            BY <1>1, <2>2
        <3>2. FigureWorth(d[n]) = DigitValue[d[n]]
            BY <3>1, WorthIs DEF AllDigits
        <3> QED BY <3>2
    <2> QED BY <2>1, <2>2
<1>3. A = S
    BY <1>2
<1> QED BY <1>3 DEF Summing, Adding

(* ByPosition is the last of the sums. *)
LEMMA ByPositionIs ==
    ASSUME NEW d \in Token, NEW radix \in Radices, AllDigits(d, radix)
    PROVE  \E f \in [0 .. Len(d) -> Nat] : Adding(f, d, radix) /\ ByPosition(d, radix) = f[Len(d)]
<1>1. DEFINE N == Len(d)
             worth == [n \in 1 .. N |-> DigitValue[d[n]] * Power(radix, N - n)]
             G == [p \in Nat \X Nat |-> IF p[1] + 1 \in 1 .. N THEN p[2] + worth[p[1] + 1] ELSE p[2]]
<1>2. N \in Nat /\ DOMAIN d = 1 .. N
    BY LenProperties DEF Token
<1>3. ASSUME NEW n \in 1 .. N PROVE worth[n] \in Nat
    <2>1. DigitValue[d[n]] \in Nat
        <3>1. DigitValue[d[n]] \in 0 .. radix - 1
            BY <1>2, DigitFacts DEF AllDigits
        <3> QED BY <3>1
    <2>2. N - n \in Nat /\ radix \in Nat \ {0}
        BY <1>2 DEF Radices
    <2>3. Power(radix, N - n) \in Nat
        BY <2>2, PowerFacts
    <2> QED BY <2>1, <2>3
<1> HIDE DEF worth
<1>4. ASSUME NEW n \in Nat, NEW v \in Nat
      PROVE  G[<<n, v>>] \in Nat /\ (n + 1 \in 1 .. N => G[<<n, v>>] = v + worth[n + 1])
    <2>1. G[<<n, v>>] = IF n + 1 \in 1 .. N THEN v + worth[n + 1] ELSE v
        OBVIOUS
    <2> QED BY <1>3, <2>1
<1> HIDE DEF G, N
<1>5. PICK g \in [Nat -> Nat] : Unfolds(g, 0, G)
    <2>1. StaysIn(Nat, 0, G)
        BY <1>4 DEF StaysIn
    <2> QED BY <2>1, Recursion
<1>6. DEFINE h == [n \in 0 .. N |-> g[n]]
             f == CHOOSE f : Summing(f, d, radix)
<1>7. Adding(h, d, radix)
    <2>1. ASSUME NEW n \in 0 .. N
          PROVE  h[n] = IF n = 0 THEN 0 ELSE h[n - 1] + DigitValue[d[n]] * Power(radix, N - n)
        <3>1. CASE n = 0
            BY <1>5, <3>1 DEF Unfolds
        <3>2. CASE n # 0
            <4>1. n - 1 \in Nat /\ n - 1 \in 0 .. N /\ (n - 1) + 1 = n /\ n \in 1 .. N
                BY <1>2, <3>2
            <4>2. g[(n - 1) + 1] = G[<<n - 1, g[n - 1]>>] /\ g[n - 1] \in Nat
                BY <1>5, <4>1 DEF Unfolds
            <4>3. g[n] = g[n - 1] + worth[n]
                BY <1>4, <4>1, <4>2
            <4>4. worth[n] = DigitValue[d[n]] * Power(radix, N - n)
                BY <4>1 DEF worth
            <4>5. h[n] = g[n] /\ h[n - 1] = g[n - 1]
                BY <4>1
            <4> HIDE DEF h
            <4> QED BY <3>2, <4>3, <4>4, <4>5
        <3> QED BY <3>1, <3>2
    <2> HIDE DEF h
    <2>2. h = [n \in 0 .. N |-> h[n]]
        BY DEF h
    <2> QED BY <2>1, <2>2 DEF Adding, N
<1>8. Adding(f, d, radix)
    <2>1. Summing(h, d, radix)
        BY <1>7, SummingIs
    <2> HIDE DEF h
    <2>2. Summing(f, d, radix)
        BY <2>1
    <2> QED BY <2>2, SummingIs
<1>9. ByPosition(d, radix) = f[N]
    BY DEF ByPosition, Summing, FigureWorth, N
<1> HIDE DEF f
<1>10. f \in [0 .. N -> Nat]
    <2> DEFINE T == {n \in 0 .. N : f[n] \in Nat}
    <2>1. 0 \in T
        BY <1>2, <1>8 DEF Adding, N
    <2>2. ASSUME NEW n \in 0 .. N - 1, n \in T PROVE n + 1 \in T
        <3>1. n + 1 \in 0 .. N /\ n + 1 # 0 /\ (n + 1) - 1 = n /\ n + 1 \in 1 .. N
            BY <1>2
        <3>2. f[n + 1] = f[n] + DigitValue[d[n + 1]] * Power(radix, N - (n + 1))
            BY <1>8, <3>1 DEF Adding, N
        <3>3. worth[n + 1] = DigitValue[d[n + 1]] * Power(radix, N - (n + 1))
            BY <3>1 DEF worth
        <3>4. worth[n + 1] \in Nat /\ f[n] \in Nat
            BY <1>3, <2>2, <3>1
        <3>5. f[n + 1] = f[n] + worth[n + 1]
            BY <3>2, <3>3
        <3> QED BY <3>1, <3>4, <3>5
    <2>3. \A n \in 0 .. N : n \in T
        <3> HIDE DEF T
        <3> QED BY <1>2, <2>1, <2>2, BoundedInduction
    <2>4. f = [n \in 0 .. N |-> f[n]]
        BY <1>8, Zenon DEF Adding, N
    <2> QED BY <2>3, <2>4
<1> QED BY <1>8, <1>9, <1>10 DEF N

Character == STRING

(* A token is characters. *)
LEMMA TokenFacts ==
    ASSUME NEW d \in Token
    PROVE  /\ Len(d) \in Nat /\ DOMAIN d = 1 .. Len(d)
           /\ \A i \in 1 .. Len(d) : d[i] \in Character
<1>1. d \in Seq(Character)
    BY DEF Token, Character
<1> QED BY <1>1, LenProperties, ElementOfSeq

(* One with another character behind it is one again. *)
LEMMA AppendFacts ==
    ASSUME NEW d \in Token, NEW c \in Character
    PROVE  /\ Append(d, c) \in Token /\ Append(d, c) # <<>>
           /\ Len(Append(d, c)) = Len(d) + 1
           /\ Append(d, c)[Len(d) + 1] = c /\ \A i \in 1 .. Len(d) : Append(d, c)[i] = d[i]
           /\ DOMAIN Append(d, c) = 1 .. Len(d) + 1
<1>1. d \in Seq(Character)
    BY DEF Token, Character
<1>2. Append(d, c) \in Seq(Character)
    BY <1>1, AppendProperties
<1>3. Append(d, c) \in Token
    BY <1>2 DEF Token, Character
<1> QED BY <1>1, <1>3, AppendProperties, TokenFacts

(* Nothing is worth nothing. *)
LEMMA ByPositionEmpty ==
    ASSUME NEW radix \in Radices
    PROVE  ByPosition(<<>>, radix) = 0 /\ AllDigits(<<>>, radix)
<1>1. <<>> \in Token /\ AllDigits(<<>>, radix) /\ Len(<<>>) = 0
    BY DEF Token, AllDigits
<1>2. PICK f \in [0 .. Len(<<>>) -> Nat] : Adding(f, <<>>, radix) /\ ByPosition(<<>>, radix) = f[Len(<<>>)]
    BY <1>1, ByPositionIs
<1>3. 0 \in 0 .. Len(<<>>)
    BY <1>1
<1>4. f[0] = 0
    BY <1>2, <1>3, Zenon DEF Adding
<1> QED BY <1>1, <1>2, <1>4

(* Another digit multiplies what is there by the radix. *)
LEMMA ByPositionAppend ==
    ASSUME NEW d \in Token, NEW radix \in Radices, AllDigits(d, radix),
           NEW c \in Character, IsDigit(c, radix)
    PROVE  /\ AllDigits(Append(d, c), radix) /\ ByPosition(d, radix) \in Nat
           /\ ByPosition(Append(d, c), radix) = ByPosition(d, radix) * radix + DigitValue[c]
<1>1. DEFINE N == Len(d)
             e == Append(d, c)
             v == [n \in 1 .. N |-> DigitValue[d[n]]]
<1>2. N \in Nat /\ DOMAIN d = 1 .. N /\ radix \in Nat \ {0} /\ DigitValue[c] \in Nat
    <2>1. DigitValue[c] \in 0 .. radix - 1
        BY DigitFacts
    <2>2. radix \in Nat \ {0}
        BY DEF Radices
    <2>3. N \in Nat /\ DOMAIN d = 1 .. N
        BY TokenFacts
    <2> QED BY <2>1, <2>2, <2>3
<1>3. /\ e \in Token /\ Len(e) = N + 1 /\ DOMAIN e = 1 .. N + 1
      /\ e[N + 1] = c /\ \A n \in 1 .. N : e[n] = d[n]
    BY AppendFacts
<1> HIDE DEF N, e
<1>4. AllDigits(e, radix)
    <2>1. ASSUME NEW n \in 1 .. N + 1 PROVE IsDigit(e[n], radix)
        <3>1. n = N + 1 \/ n \in 1 .. N
            BY <1>2
        <3> QED BY <1>2, <1>3, <3>1 DEF AllDigits
    <2> QED BY <1>3, <2>1 DEF AllDigits
<1>5. PICK f \in [0 .. N -> Nat] : Adding(f, d, radix) /\ ByPosition(d, radix) = f[N]
    BY ByPositionIs DEF N
<1>6. PICK g \in [0 .. N + 1 -> Nat] : Adding(g, e, radix) /\ ByPosition(e, radix) = g[N + 1]
    BY <1>3, <1>4, ByPositionIs
<1>7. f[0] = 0 /\ g[0] = 0
    <2>1. 0 \in 0 .. N /\ 0 \in 0 .. N + 1
        BY <1>2
    <2>2. f[0] = 0
        BY <1>5, <2>1, Zenon DEF Adding, N
    <2>3. g[0] = 0
        BY <1>3, <1>6, <2>1, Zenon DEF Adding
    <2> QED BY <2>2, <2>3
<1>8. ASSUME NEW n \in 0 .. N - 1
      PROVE  /\ f[n + 1] = f[n] + v[n + 1] * Power(radix, N - (n + 1))
             /\ g[n + 1] = g[n] + v[n + 1] * (radix * Power(radix, N - (n + 1)))
             /\ v[n + 1] \in Nat /\ Power(radix, N - (n + 1)) \in Nat
    <2>1. /\ n + 1 \in 0 .. N /\ n + 1 \in 0 .. N + 1 /\ n + 1 # 0 /\ (n + 1) - 1 = n /\ n + 1 \in 1 .. N
          /\ N - (n + 1) \in Nat /\ (N + 1) - (n + 1) = (N - (n + 1)) + 1
        BY <1>2
    <2>2. v[n + 1] = DigitValue[d[n + 1]]
        BY <2>1
    <2> HIDE DEF v
    <2>3. f[n + 1] = f[n] + v[n + 1] * Power(radix, N - (n + 1))
        BY <1>5, <2>1, <2>2 DEF Adding, N
    <2>4. g[n + 1] = g[n] + v[n + 1] * Power(radix, (N + 1) - (n + 1))
        BY <1>3, <1>6, <2>1, <2>2 DEF Adding
    <2>5. /\ Power(radix, (N - (n + 1)) + 1) = radix * Power(radix, N - (n + 1))
          /\ Power(radix, N - (n + 1)) \in Nat
        BY <1>2, <2>1, PowerFacts
    <2>6. v[n + 1] \in Nat
        <3>1. DigitValue[d[n + 1]] \in 0 .. radix - 1
            BY <1>2, <2>1, DigitFacts DEF AllDigits
        <3> QED BY <2>2, <3>1
    <2> QED BY <2>1, <2>3, <2>4, <2>5, <2>6
<1> HIDE DEF v
<1>9. DEFINE T == {n \in 0 .. N : g[n] = radix * f[n]}
<1>10. 0 \in T
    BY <1>2, <1>7
<1>11. ASSUME NEW n \in 0 .. N - 1, n \in T PROVE n + 1 \in T
    <2>1. n \in 0 .. N /\ n + 1 \in 0 .. N
        BY <1>2
    <2> DEFINE a == f[n]
               x == v[n + 1]
               p == Power(radix, N - (n + 1))
    <2>2. /\ a \in Nat /\ x \in Nat /\ p \in Nat
          /\ f[n + 1] = a + x * p /\ g[n + 1] = radix * a + x * (radix * p)
        BY <1>8, <1>11, <2>1
    <2> HIDE DEF a, x, p
    <2>3. radix * (a + x * p) = radix * a + x * (radix * p)
        BY <1>2, <2>2
    <2> QED BY <2>1, <2>2, <2>3
<1>12. \A n \in 0 .. N : n \in T
    <2> HIDE DEF T
    <2> QED BY <1>2, <1>10, <1>11, BoundedInduction
<1>13. g[N] = radix * f[N] /\ f[N] \in Nat
    BY <1>2, <1>12
<1>14. g[N + 1] = g[N] + DigitValue[c]
    <2>1. N + 1 \in 0 .. N + 1 /\ N + 1 # 0 /\ (N + 1) - 1 = N /\ (N + 1) - (N + 1) = 0
        BY <1>2
    <2>2. g[N + 1] = g[N] + DigitValue[c] * Power(radix, 0)
        BY <1>3, <1>6, <2>1 DEF Adding
    <2>3. Power(radix, 0) = 1
        BY <1>2, PowerFacts
    <2>4. DigitValue[c] * Power(radix, 0) = DigitValue[c]
        BY <1>2, <2>3
    <2> QED BY <2>2, <2>4
<1>15. radix * f[N] = f[N] * radix
    BY <1>2, <1>13
<1> QED BY <1>4, <1>5, <1>6, <1>13, <1>14, <1>15 DEF e

(* What digits are worth where numbers have a width. *)
Worth(d, radix) ==
    IF AllDigits(d, radix) /\ ByPosition(d, radix) <= MaxU32 THEN Some(ByPosition(d, radix)) ELSE None

(* The value of digits is a number. *)
LEMMA ByPositionNat ==
    ASSUME NEW d \in Token, NEW radix \in Radices, AllDigits(d, radix)
    PROVE  ByPosition(d, radix) \in Nat
<1>1. PICK f \in [0 .. Len(d) -> Nat] : ByPosition(d, radix) = f[Len(d)]
    BY ByPositionIs
<1>2. Len(d) \in 0 .. Len(d)
    BY LenProperties DEF Token
<1> QED BY <1>1, <1>2

(* A character that counts. *)
Counts(c) == c # "_"

(* The loop of u32_arg computes it, a digit at a time: what has overflowed *)
(* or gone wrong stays so.                                                 *)
LEMMA TakesWorth ==
    ASSUME NEW d \in Token, NEW radix \in Radices, NEW c \in Character, Counts(c)
    PROVE  TakeDigit(radix, Worth(d, radix), c) = Worth(Append(d, c), radix)
<1>1. DEFINE e == Append(d, c)
             b == ByPosition(d, radix)
<1>2. MaxU32 \in Nat /\ radix \in Nat \ {0}
    BY TimingAssumption DEF Radices
<1>0. None.ok = FALSE
    BY DEF None, Err
<1>3. /\ DOMAIN d = 1 .. Len(d) /\ DOMAIN e = 1 .. Len(d) + 1 /\ Len(d) \in Nat
      /\ e[Len(d) + 1] = c /\ \A n \in 1 .. Len(d) : e[n] = d[n]
    BY AppendFacts, TokenFacts
<1>4. AllDigits(e, radix) => AllDigits(d, radix) /\ IsDigit(c, radix)
    <2>1. SUFFICES ASSUME \A n \in 1 .. Len(d) + 1 : IsDigit(e[n], radix)
                   PROVE  AllDigits(d, radix) /\ IsDigit(c, radix)
        BY <1>3 DEF AllDigits
    <2> HIDE DEF e
    <2>2. Len(d) + 1 \in 1 .. Len(d) + 1 /\ \A n \in 1 .. Len(d) : n \in 1 .. Len(d) + 1
        BY <1>3
    <2> QED BY <1>3, <2>1, <2>2 DEF AllDigits
<1>5. CASE AllDigits(d, radix) /\ IsDigit(c, radix)
    <2>1. /\ AllDigits(e, radix) /\ b \in Nat /\ ByPosition(e, radix) = b * radix + DigitValue[c]
        BY <1>5, ByPositionAppend
    <2>2. DigitValue[c] \in Nat
        <3>1. DigitValue[c] \in 0 .. radix - 1
            BY <1>5, DigitFacts
        <3> QED BY <3>1
    <2> DEFINE x == b * radix + DigitValue[c]
    <2> HIDE DEF b, e
    <2>3. x \in Nat /\ x >= b
        <3>1. radix = 1 + (radix - 1) /\ radix - 1 \in Nat
            BY <1>2
        <3>2. b * radix = b + b * (radix - 1) /\ b * (radix - 1) \in Nat
            BY <2>1, <3>1
        <3> QED BY <2>1, <2>2, <3>2
    <2>4. Worth(e, radix) = IF x <= MaxU32 THEN Some(x) ELSE None
        BY <2>1 DEF Worth
    <2>5. CASE b <= MaxU32
        <3>1. Worth(d, radix) = Some(b)
            BY <1>5, <2>5 DEF Worth, b
        <3>2. Some(b).ok = TRUE /\ Some(b).value = b
            BY DEF Some, Ok
        <3>3. TakeDigit(radix, Some(b), c) = IF x > MaxU32 THEN None ELSE Some(x)
            BY <1>5, <3>2 DEF TakeDigit, Counts
        <3> HIDE DEF x
        <3>4. x > MaxU32 <=> ~(x <= MaxU32)
            BY <1>2, <2>3
        <3> QED BY <2>4, <3>1, <3>3, <3>4 DEF e
    <2>6. CASE ~(b <= MaxU32)
        <3>1. Worth(d, radix) = None
            BY <2>6 DEF Worth, b
        <3>2. TakeDigit(radix, None, c) = None
            BY <1>0 DEF TakeDigit
        <3> HIDE DEF x
        <3>3. ~(x <= MaxU32)
            BY <1>2, <2>1, <2>3, <2>6
        <3> QED BY <2>4, <3>1, <3>2, <3>3 DEF e
    <2> QED BY <2>5, <2>6
<1>6. CASE AllDigits(d, radix) /\ ~IsDigit(c, radix)
    <2>1. Worth(e, radix) = None
        BY <1>4, <1>6 DEF Worth
    <2>2. Worth(d, radix) \in {Some(b), None}
        BY DEF Worth
    <2>3. TakeDigit(radix, None, c) = None
        BY <1>0 DEF TakeDigit
    <2>4. TakeDigit(radix, Some(b), c) = None
        <3>1. Some(b).ok = TRUE
            BY DEF Some, Ok
        <3> QED BY <1>6, <3>1 DEF TakeDigit, Counts
    <2> QED BY <2>1, <2>2, <2>3, <2>4
<1>7. CASE ~AllDigits(d, radix)
    <2>1. Worth(e, radix) = None /\ Worth(d, radix) = None
        BY <1>4, <1>7 DEF Worth
    <2>2. TakeDigit(radix, None, c) = None
        BY <1>0 DEF TakeDigit
    <2> QED BY <2>1, <2>2
<1> QED BY <1>5, <1>6, <1>7

(* So u32_arg is worth what is written, to the last digit. *)
LEMMA U32Worth ==
    ASSUME NEW s \in Token
    PROVE  U32Arg(s) = AsWritten(Digits(s), Radix(s))
<1>1. DEFINE d == Digits(s)
             radix == Radix(s)
             N == Len(d)
<1>2. d \in Token /\ radix \in Radices
    BY DigitsToken DEF Radices
<1>3. PICK f \in [0 .. N -> Numbers] :
        /\ After(f, d, radix)
        /\ U32Arg(s) = IF \A i \in DOMAIN d : d[i] = "_" THEN None ELSE f[N]
    BY U32Is
<1> HIDE DEF d, radix
<1>4. PICK g \in [0 .. N -> Token] : Keeping(g, d) /\ Unseparated(d) = g[N]
    BY <1>2, UnseparatedIs
<1>5. N \in Nat /\ DOMAIN d = 1 .. N /\ \A i \in 1 .. N : d[i] \in Character
    BY <1>2, TokenFacts
<1>6. ASSUME NEW n \in 0 .. N - 1
      PROVE  /\ n \in 0 .. N /\ n + 1 \in 0 .. N /\ n + 1 \in 1 .. N
             /\ f[n + 1] = TakeDigit(radix, f[n], d[n + 1])
             /\ g[n + 1] = IF d[n + 1] = "_" THEN g[n] ELSE Append(g[n], d[n + 1])
    <2>1. n + 1 \in 0 .. N /\ n + 1 # 0 /\ (n + 1) - 1 = n /\ n \in 0 .. N /\ n + 1 \in 1 .. N
        BY <1>5
    <2>2. f[n + 1] = TakeDigit(radix, f[n], d[n + 1])
        BY <1>3, <2>1 DEF After
    <2>3. g[n + 1] = IF d[n + 1] = "_" THEN g[n] ELSE Append(g[n], d[n + 1])
        BY <1>4, <2>1 DEF Keeping
    <2> QED BY <2>1, <2>2, <2>3
<1>7. 0 \in 0 .. N /\ f[0] = Some(0) /\ g[0] = <<>>
    <2>1. 0 \in 0 .. N
        BY <1>5
    <2>2. f[0] = Some(0)
        BY <1>3, <2>1, Zenon DEF After
    <2>3. g[0] = <<>>
        BY <1>4, <2>1, Zenon DEF Keeping
    <2> QED BY <2>1, <2>2, <2>3
<1> HIDE DEF N
<1>8. DEFINE T == {n \in 0 .. N : /\ f[n] = Worth(g[n], radix)
                                  /\ g[n] = <<>> <=> \A i \in 1 .. n : d[i] = "_"}
<1>9. 0 \in T
    <2>1. ByPosition(<<>>, radix) = 0 /\ AllDigits(<<>>, radix) /\ 0 <= MaxU32
        BY <1>2, ByPositionEmpty, TimingAssumption
    <2>2. Worth(<<>>, radix) = Some(0)
        BY <2>1 DEF Worth
    <2>3. 1 .. 0 = {}
        OBVIOUS
    <2> QED BY <1>7, <2>2, <2>3
<1>10. ASSUME NEW n \in 0 .. N - 1, n \in T PROVE n + 1 \in T
    <2>1. /\ f[n] = Worth(g[n], radix) /\ g[n] \in Token /\ n + 1 \in 0 .. N /\ d[n + 1] \in Character
          /\ g[n] = <<>> <=> \A i \in 1 .. n : d[i] = "_"
        BY <1>5, <1>6, <1>10
    <2>2. \A i \in 1 .. n + 1 : i \in 1 .. n \/ i = n + 1
        OBVIOUS
    <2>3. n + 1 \in 1 .. n + 1 /\ \A i \in 1 .. n : i \in 1 .. n + 1
        OBVIOUS
    <2>4. CASE d[n + 1] = "_"
        <3>1. f[n + 1] = f[n]
            BY <1>6, <2>4 DEF TakeDigit
        <3>2. g[n + 1] = g[n]
            BY <1>6, <2>4
        <3> QED BY <2>1, <2>2, <2>3, <2>4, <3>1, <3>2
    <2>5. CASE d[n + 1] # "_"
        <3>1. f[n + 1] = Worth(Append(g[n], d[n + 1]), radix)
            BY <1>2, <1>6, <2>1, <2>5, TakesWorth DEF Counts
        <3>2. g[n + 1] = Append(g[n], d[n + 1])
            BY <1>6, <2>5
        <3>3. Append(g[n], d[n + 1]) # <<>>
            BY <2>1, AppendFacts
        <3> QED BY <2>1, <2>3, <2>5, <3>1, <3>2, <3>3
    <2> QED BY <2>4, <2>5
<1>11. \A n \in 0 .. N : n \in T
    <2> HIDE DEF T
    <2> QED BY <1>5, <1>9, <1>10, BoundedInduction
<1>12. f[N] = Worth(g[N], radix) /\ (g[N] = <<>> <=> \A i \in 1 .. N : d[i] = "_")
    <2>1. N \in 0 .. N
        BY <1>5
    <2>2. N \in T
        BY <1>11, <2>1
    <2> QED BY <2>2
<1>13. U32Arg(s) = IF g[N] = <<>> THEN None ELSE Worth(g[N], radix)
    BY <1>3, <1>5, <1>12
<1>14. AsWritten(d, radix) = IF g[N] = <<>> THEN None ELSE Worth(g[N], radix)
    BY <1>2, <1>4, DigitFigure DEF AsWritten, Worth, AllDigits
<1> QED BY <1>13, <1>14 DEF d, radix

(* Where every character counts, all are kept. *)
LEMMA NothingSeparated ==
    ASSUME NEW s \in Token, \A i \in DOMAIN s : Counts(s[i])
    PROVE  Unseparated(s) = s
<1>1. DEFINE N == Len(s)
<1>2. N \in Nat /\ DOMAIN s = 1 .. N /\ \A i \in 1 .. N : s[i] \in Character
    BY TokenFacts
<1>3. PICK f \in [0 .. N -> Token] : Keeping(f, s) /\ Unseparated(s) = f[N]
    BY UnseparatedIs
<1> HIDE DEF N
<1>4. DEFINE T == {n \in 0 .. N : Len(f[n]) = n /\ \A i \in 1 .. n : f[n][i] = s[i]}
<1>5. 0 \in T
    <2>1. 0 \in 0 .. N /\ 1 .. 0 = {}
        BY <1>2
    <2>2. f[0] = <<>>
        BY <1>3, <2>1, Zenon DEF Keeping, N
    <2>3. Len(f[0]) = 0
        BY <2>2
    <2> QED BY <2>1, <2>3
<1>6. ASSUME NEW n \in 0 .. N - 1, n \in T PROVE n + 1 \in T
    <2>1. n \in 0 .. N /\ n + 1 \in 0 .. N /\ n + 1 # 0 /\ (n + 1) - 1 = n /\ n + 1 \in 1 .. N
        BY <1>2
    <2>2. f[n + 1] = IF s[n + 1] = "_" THEN f[n] ELSE Append(f[n], s[n + 1])
        BY <1>3, <2>1 DEF Keeping, N
    <2>3. Counts(s[n + 1])
        BY <1>2, <2>1
    <2>4. f[n + 1] = Append(f[n], s[n + 1])
        BY <2>2, <2>3 DEF Counts
    <2>5. f[n] \in Token /\ s[n + 1] \in Character /\ Len(f[n]) = n /\ \A i \in 1 .. n : f[n][i] = s[i]
        BY <1>2, <1>6, <2>1
    <2>6. /\ Len(f[n + 1]) = n + 1 /\ f[n + 1][n + 1] = s[n + 1]
          /\ \A i \in 1 .. n : f[n + 1][i] = s[i]
        BY <2>4, <2>5, AppendFacts
    <2>7. \A i \in 1 .. n + 1 : i \in 1 .. n \/ i = n + 1
        BY <2>1
    <2> QED BY <2>1, <2>6, <2>7
<1>7. N \in T
    <2>1. \A n \in 0 .. N : n \in T
        <3> HIDE DEF T
        <3> QED BY <1>2, <1>5, <1>6, BoundedInduction
    <2> QED BY <1>2, <2>1
<1>8. N \in 0 .. N /\ Len(f[N]) = N /\ \A i \in 1 .. N : f[N][i] = s[i]
    BY <1>2, <1>7
<1>9. f[N] \in Seq(Character) /\ s \in Seq(Character)
    BY <1>8 DEF Token, Character
<1>10. f[N] = s
    BY <1>8, <1>9, SeqEqual DEF N
<1> QED BY <1>3, <1>10

(* The folds of hex_byte_arg: a digit at a time. *)
Folded(f, u) ==
    f = [n \in 0 .. Len(u) |-> IF n = 0 THEN 0 ELSE f[n - 1] * 16 + DigitValue[u[n]]]

(* A byte is worth its two digits. *)
LEMMA FoldedTwice ==
    ASSUME NEW u \in Token, Len(u) \in 1 .. 2
    PROVE  \E f : /\ Folded(f, u) /\ f = CHOOSE g : Folded(g, u)
                  /\ f[1] = 0 * 16 + DigitValue[u[1]]
                  /\ Len(u) = 2 => f[2] = f[1] * 16 + DigitValue[u[2]]
<1>1. DEFINE a == 0 * 16 + DigitValue[u[1]]
             h == [n \in 0 .. Len(u) |-> IF n = 0 THEN 0 ELSE IF n = 1 THEN a
                                         ELSE a * 16 + DigitValue[u[2]]]
             f == CHOOSE g : Folded(g, u)
<1>2. Folded(h, u)
    <2>1. ASSUME NEW n \in 0 .. Len(u), n # 0 PROVE h[n] = h[n - 1] * 16 + DigitValue[u[n]]
        <3>1. n = 1 \/ n = 2
            BY <2>1
        <3>2. n - 1 \in 0 .. Len(u)
            BY <2>1
        <3>3. CASE n = 1
            <4>1. h[n] = a /\ h[n - 1] = 0
                BY <3>2, <3>3
            <4> HIDE DEF h
            <4> QED BY <3>3, <4>1
        <3>4. CASE n = 2
            <4>1. h[n] = a * 16 + DigitValue[u[2]] /\ h[n - 1] = a
                BY <3>2, <3>4
            <4> HIDE DEF h, a
            <4> QED BY <3>4, <4>1
        <3> QED BY <3>1, <3>3, <3>4
    <2>2. h[0] = 0
        OBVIOUS
    <2>3. h = [n \in 0 .. Len(u) |-> h[n]]
        OBVIOUS
    <2> HIDE DEF h
    <2>4. \A n \in 0 .. Len(u) : h[n] = IF n = 0 THEN 0 ELSE h[n - 1] * 16 + DigitValue[u[n]]
        BY <2>1, <2>2
    <2> QED BY <2>3, <2>4 DEF Folded
<1>3. Folded(f, u)
    BY <1>2
<1> HIDE DEF f
<1>4. f[0] = 0
    <2>1. 0 \in 0 .. Len(u)
        OBVIOUS
    <2> QED BY <1>3, <2>1, Zenon DEF Folded
<1>5. f[1] = f[0] * 16 + DigitValue[u[1]]
    <2>1. 1 \in 0 .. Len(u) /\ 1 # 0 /\ 1 - 1 = 0
        OBVIOUS
    <2> QED BY <1>3, <2>1 DEF Folded
<1>6. Len(u) = 2 => f[2] = f[1] * 16 + DigitValue[u[2]]
    <2>1. Len(u) = 2 => 2 \in 0 .. Len(u) /\ 2 # 0 /\ 2 - 1 = 1
        OBVIOUS
    <2> QED BY <1>3, <2>1 DEF Folded
<1> QED BY <1>3, <1>4, <1>5, <1>6 DEF f

(* And so by position; it fits. *)
LEMMA ByteWorth ==
    ASSUME NEW u \in Token, Len(u) \in 1 .. 2, AllDigits(u, 16), NEW f, Folded(f, u),
           f[1] = 0 * 16 + DigitValue[u[1]],
           Len(u) = 2 => f[2] = f[1] * 16 + DigitValue[u[2]]
    PROVE  f[Len(u)] = ByPosition(u, 16) /\ ByPosition(u, 16) <= MaxU32
<1>1. 16 \in Radices /\ 16 \in Nat \ {0} /\ 0 \in Nat /\ 0 + 1 = 1
    BY DEF Radices
<1>2. PICK g \in [0 .. Len(u) -> Nat] : Adding(g, u, 16) /\ ByPosition(u, 16) = g[Len(u)]
    BY <1>1, ByPositionIs
<1>3. \A i \in 1 .. Len(u) : DigitValue[u[i]] \in 0 .. 15
    <2>1. ASSUME NEW i \in 1 .. Len(u) PROVE DigitValue[u[i]] \in 0 .. 16 - 1
        <3>1. IsDigit(u[i], 16)
            BY TokenFacts DEF AllDigits
        <3> QED BY <1>1, <3>1, DigitFacts
    <2> QED BY <2>1
<1>4. Power(16, 0) = 1 /\ Power(16, 1) = 16
    <2>1. Power(16, 0) = 1 /\ Power(16, 0 + 1) = 16 * Power(16, 0)
        BY <1>1, PowerFacts
    <2> QED BY <1>1, <2>1
<1>5. g[0] = 0
    <2>1. 0 \in 0 .. Len(u)
        OBVIOUS
    <2> QED BY <1>2, <2>1, Zenon DEF Adding
<1>6. g[1] = g[0] + DigitValue[u[1]] * Power(16, Len(u) - 1)
    <2>1. 1 \in 0 .. Len(u) /\ 1 # 0 /\ 1 - 1 = 0
        OBVIOUS
    <2> QED BY <1>2, <2>1 DEF Adding
<1>7. Len(u) = 2 => g[2] = g[1] + DigitValue[u[2]] * Power(16, Len(u) - 2)
    <2>1. Len(u) = 2 => 2 \in 0 .. Len(u) /\ 2 # 0 /\ 2 - 1 = 1
        OBVIOUS
    <2> QED BY <1>2, <2>1 DEF Adding
<1>8. MaxU32 >= 255 /\ MaxU32 \in Nat
    BY ParseAssumption, TimingAssumption
<1>9. DEFINE x == DigitValue[u[1]]
             y == DigitValue[u[2]]
<1>10. CASE Len(u) = 1
    <2>1. x \in 0 .. 15
        BY <1>3, <1>10
    <2>2. g[1] = g[0] + x * Power(16, 0)
        BY <1>6, <1>10
    <2> HIDE DEF x
    <2>3. g[1] = x
        BY <1>4, <1>5, <2>1, <2>2
    <2>4. f[1] = x
        BY <2>1 DEF x
    <2> QED BY <1>2, <1>8, <1>10, <2>1, <2>3, <2>4
<1>11. CASE Len(u) = 2
    <2>1. x \in 0 .. 15 /\ y \in 0 .. 15
        BY <1>3, <1>11
    <2>2. g[1] = g[0] + x * Power(16, 1) /\ g[2] = g[1] + y * Power(16, 0)
        BY <1>6, <1>7, <1>11
    <2>3. f[1] = 0 * 16 + x /\ f[2] = f[1] * 16 + y
        BY <1>11
    <2> HIDE DEF x, y
    <2>4. g[2] = x * 16 + y
        BY <1>4, <1>5, <2>1, <2>2
    <2>5. f[2] = x * 16 + y
        BY <2>1, <2>3
    <2> QED BY <1>2, <1>8, <1>11, <2>1, <2>4, <2>5
<1> QED BY <1>10, <1>11

(* Neither separators nor a sign. *)
Unsigned(u) == ToSet(u) \cap {"_", "+"} = {}

(* The steps of hex_byte_arg. *)
Stripped(s) == IF Prefixed(s, {"x", "X"}) THEN SubSeq(s, 3, Len(s)) ELSE s
SignTaken(d) == IF Len(d) = 2 /\ d[1] = "+" THEN Tail(d) ELSE d
Byte(d, u) ==
    IF Len(d) \notin 1 .. 2 \/ \E i \in DOMAIN u : ~IsDigit(u[i], 16) THEN None
    ELSE Some((CHOOSE f : Folded(f, u))[Len(u)])

(* So hex_byte_arg takes one or two digits for what they are worth. *)
LEMMA HexWorth ==
    ASSUME NEW s \in Token, NEW u, u = (IF Radix(s) = 16 THEN Digits(s) ELSE s),
           Len(u) \in 1 .. 2, Unsigned(u)
    PROVE  HexByteArg(s) = AsWritten(u, 16)
<1>1. u \in Token
    BY DigitsToken
<1>2. Len(u) \in Nat /\ DOMAIN u = 1 .. Len(u) /\ 1 \in DOMAIN u
    BY <1>1, TokenFacts
<1>3. \A i \in DOMAIN u : u[i] \notin {"_", "+"}
    BY DEF ToSet, Unsigned
<1>4. Unseparated(u) = u
    <2>1. \A i \in DOMAIN u : Counts(u[i])
        BY <1>3 DEF Counts
    <2> QED BY <1>1, <2>1, NothingSeparated
<1>5. PICK f : /\ Folded(f, u) /\ f = CHOOSE g : Folded(g, u)
               /\ f[1] = 0 * 16 + DigitValue[u[1]]
               /\ Len(u) = 2 => f[2] = f[1] * 16 + DigitValue[u[2]]
    BY <1>1, FoldedTwice
<1>6. HexByteArg(s) = IF \E i \in DOMAIN u : ~IsDigit(u[i], 16) THEN None ELSE Some(f[Len(u)])
    <2>1. u = Stripped(s)
        <3>1. CASE Prefixed(s, {"x", "X"})
            <4>1. Radix(s) = 16
                BY <3>1 DEF Radix
            <4> QED BY <3>1, <4>1 DEF Digits, Stripped
        <3>2. CASE ~Prefixed(s, {"x", "X"})
            <4>1. Radix(s) \in {2, 10}
                BY <3>2 DEF Radix
            <4> QED BY <3>2, <4>1 DEF Stripped
        <3> QED BY <3>1, <3>2
    <2>2. u = SignTaken(u)
        <3>1. ~(Len(u) = 2 /\ u[1] = "+")
            BY <1>2, <1>3
        <3> QED BY <3>1 DEF SignTaken
    <2>3. HexByteArg(s) = Byte(Stripped(s), SignTaken(Stripped(s)))
        BY DEF HexByteArg, Byte, Folded, Stripped, SignTaken
    <2>4. HexByteArg(s) = Byte(u, u)
        BY <2>1, <2>2, <2>3
    <2>5. Len(u) \notin 1 .. 2 <=> FALSE
        OBVIOUS
    <2> QED BY <1>5, <2>4, <2>5 DEF Byte
<1>7. u # <<>>
    <2>1. Len(<<>>) = 0
        OBVIOUS
    <2> QED BY <2>1
<1>8. AsWritten(u, 16) = IF AllDigits(u, 16) /\ ByPosition(u, 16) <= MaxU32
                         THEN Some(ByPosition(u, 16)) ELSE None
    <2>1. \A i \in DOMAIN u : IsFigure(u[i], 16) <=> IsDigit(u[i], 16)
        <3>1. 16 \in Radices
            BY DEF Radices
        <3> QED BY <3>1, DigitFigure
    <2> QED BY <1>4, <1>7, <2>1 DEF AsWritten, AllDigits
<1>9. CASE AllDigits(u, 16)
    <2>1. f[Len(u)] = ByPosition(u, 16) /\ ByPosition(u, 16) <= MaxU32
        BY <1>1, <1>5, <1>9, ByteWorth
    <2>2. HexByteArg(s) = Some(f[Len(u)])
        BY <1>6, <1>9 DEF AllDigits
    <2> QED BY <1>8, <1>9, <2>1, <2>2
<1>10. CASE ~AllDigits(u, 16)
    <2>1. HexByteArg(s) = None
        BY <1>6, <1>10 DEF AllDigits
    <2> QED BY <1>8, <1>10, <2>1
<1> QED BY <1>9, <1>10

(* What the host writes is tokens. *)
LEMMA RequestToken ==
    ASSUME SynthInv, NEW token \in ToSet(req.args)
    PROVE  token \in Token
<1>1. req = NoReq \/ req \in Requests
    BY DEF SynthInv
<1>2. req # NoReq
    <2>1. SUFFICES ASSUME req = NoReq PROVE FALSE
        OBVIOUS
    <2>2. req.args = <<>>
        BY <2>1 DEF NoReq
    <2> QED BY <2>2 DEF ToSet
<1>3. req.args \in Seq(Token)
    BY <1>1, <1>2, SynthAssumption DEF Token
<1>4. PICK i \in DOMAIN req.args : token = req.args[i]
    BY DEF ToSet
<1>5. i \in 1 .. Len(req.args)
    BY <1>3, <1>4, LenProperties
<1> QED BY <1>3, <1>4, <1>5, ElementOfSeq

(* A number that is accepted is what is written, whatever its radix, its   *)
(* separators and its length, and none that does not fit is accepted.      *)
THEOREM SynthNumbersAsWritten == Spec => []NumbersAsWritten
<1>1. ASSUME SynthInv PROVE NumbersAsWritten
    <2>1. ASSUME NEW token \in ToSet(req.args),
                 NEW u, u = (IF Radix(token) = 16 THEN Digits(token) ELSE token)
          PROVE  /\ U32Arg(token) = AsWritten(Digits(token), Radix(token))
                 /\ Len(u) \in 1 .. 2 /\ Unsigned(u) => HexByteArg(token) = AsWritten(u, 16)
        <3>1. token \in Token
            BY <1>1, RequestToken
        <3> QED BY <2>1, <3>1, U32Worth, HexWorth
    <2> QED BY <2>1 DEF NumbersAsWritten, Unsigned
<1>2. SynthInv => NumbersAsWritten
    BY <1>1
<1> QED BY <1>2, SynthInvariance, PTL

-----------------------------------------------------------------------------
(* Frequencies: the digits after a suffix are tenths of one another.       *)

(* The product of powers is the power of the sum. *)
LEMMA PowerSum ==
    ASSUME NEW b \in Nat \ {0}, NEW m \in Nat, NEW n \in Nat
    PROVE  Power(b, m + n) = Power(b, m) * Power(b, n)
<1>1. PICK p \in [Nat -> Nat \ {0}] :
        /\ p[0] = 1 /\ \A k \in Nat : p[k + 1] = b * p[k]
        /\ \A k \in Nat : Power(b, k) = p[k]
    BY PowerFunction
<1>2. DEFINE T == {k \in Nat : p[m + k] = p[m] * p[k]}
<1>3. 0 \in T
    BY <1>1
<1>4. ASSUME NEW k \in Nat, k \in T PROVE k + 1 \in T
    <2>1. m + k \in Nat /\ m + (k + 1) = (m + k) + 1 /\ k + 1 \in Nat
        OBVIOUS
    <2>2. p[m + (k + 1)] = b * p[m + k] /\ p[k + 1] = b * p[k]
        BY <1>1, <2>1
    <2> DEFINE x == p[m]
               y == p[k]
    <2>3. x \in Nat /\ y \in Nat /\ p[m + k] = x * y
        BY <1>4
    <2> HIDE DEF x, y
    <2>4. b * (x * y) = x * (b * y)
        BY <2>3
    <2>5. p[m + (k + 1)] = x * (b * y)
        BY <2>2, <2>3, <2>4
    <2> QED BY <2>1, <2>2, <2>5 DEF x, y
<1>5. n \in T
    <2> HIDE DEF T
    <2> QED BY <1>3, <1>4, SetInduction
<1>6. p[m + n] = p[m] * p[n] /\ m + n \in Nat
    BY <1>5
<1> QED BY <1>1, <1>6

(* A factor is no larger than a product with something. *)
LEMMA ProductGrows ==
    ASSUME NEW a \in Nat, NEW b \in Nat \ {0}
    PROVE  a * b \in Nat /\ a * b >= a
<1>1. b = 1 + (b - 1) /\ b - 1 \in Nat
    OBVIOUS
<1>2. a * b = a + a * (b - 1) /\ a * (b - 1) \in Nat
    BY <1>1
<1> QED BY <1>2

Multipliers == {Power(10, n) : n \in 1 .. 6}

(* A multiplier is whole tenths, or there are too many of them. *)
LEMMA Tenths ==
    ASSUME NEW mult \in Multipliers, NEW n \in Nat
    PROVE  /\ mult \in Nat \ {0} /\ Power(10, n) \in Nat \ {0}
           /\ Power(10, n) > mult => mult \div Power(10, n) = 0
           /\ Power(10, n) <= mult =>
                 /\ mult \div Power(10, n) \in Nat \ {0}
                 /\ Power(10, n) * (mult \div Power(10, n)) = mult
<1>1. PICK m \in 1 .. 6 : mult = Power(10, m)
    BY DEF Multipliers
<1>2. 10 \in Nat \ {0} /\ m \in Nat
    BY <1>1
<1>3. \A k \in Nat : Power(10, k) \in Nat \ {0}
    BY <1>2, PowerFacts
<1>4. DEFINE t == Power(10, n)
<1>5. t \in Nat \ {0} /\ mult \in Nat \ {0}
    BY <1>1, <1>2, <1>3
<1> HIDE DEF t
<1>6. CASE n <= m
    <2>1. m - n \in Nat /\ n + (m - n) = m
        BY <1>2, <1>6
    <2> DEFINE q == Power(10, m - n)
    <2>2. mult = t * q /\ q \in Nat \ {0}
        <3>1. Power(10, n + (m - n)) = Power(10, n) * Power(10, m - n)
            BY <1>2, <2>1, PowerSum
        <3>2. q \in Nat \ {0}
            BY <1>3, <2>1
        <3>3. mult = t * q
            BY <1>1, <2>1, <3>1 DEF t
        <3> QED BY <3>2, <3>3
    <2> HIDE DEF q
    <2>3. mult \div t = q
        <3>1. (t * q + 0) \div t = q
            <4>1. 0 \in 0 .. t - 1 /\ q \in Int
                BY <1>5, <2>2
            <4> QED BY <1>5, <4>1, DivisionIs
        <3>2. t * q + 0 = t * q
            BY <1>5, <2>2
        <3> QED BY <2>2, <3>1, <3>2
    <2>4. mult >= t
        BY <1>5, <2>2, ProductGrows
    <2>5. ~(t > mult)
        BY <1>5, <2>4
    <2> QED BY <1>5, <2>2, <2>3, <2>5 DEF t
<1>7. CASE ~(n <= m)
    <2>1. n - m - 1 \in Nat /\ (m + 1) + (n - m - 1) = n /\ m + 1 \in Nat
        BY <1>2, <1>7
    <2> DEFINE q == Power(10, n - m - 1)
    <2>2. Power(10, m + 1) = 10 * mult
        BY <1>1, <1>2, PowerFacts
    <2>3. t = (10 * mult) * q /\ q \in Nat \ {0}
        <3>1. Power(10, (m + 1) + (n - m - 1)) = Power(10, m + 1) * Power(10, n - m - 1)
            BY <1>2, <2>1, PowerSum
        <3>2. q \in Nat \ {0}
            BY <1>3, <2>1
        <3>3. t = (10 * mult) * q
            BY <2>1, <2>2, <3>1 DEF t
        <3> QED BY <3>2, <3>3
    <2> HIDE DEF q
    <2>4. t >= 10 * mult
        <3>1. 10 * mult \in Nat
            BY <1>5
        <3> DEFINE p == 10 * mult
        <3>2. p * q >= p
            <4> HIDE DEF p
            <4> QED BY <2>3, <3>1, ProductGrows DEF p
        <3> QED BY <2>3, <3>2
    <2>5. t > mult /\ ~(t <= mult)
        BY <1>5, <2>4
    <2>6. mult \div t = 0
        <3>1. (t * 0 + mult) \div t = 0
            <4>1. 0 \in Int /\ mult \in 0 .. t - 1
                BY <1>5, <2>5
            <4> QED BY <1>5, <4>1, DivisionIs
        <3>2. t * 0 + mult = mult
            BY <1>5
        <3> QED BY <3>1, <3>2
    <2> QED BY <1>5, <2>5, <2>6 DEF t
<1> QED BY <1>6, <1>7

(* The first letter of a kind, and where there is none. *)
LEMMA Found ==
    ASSUME NEW s \in Token, NEW letters
    PROVE  \/ Find(s, letters) = 0 /\ \A i \in DOMAIN s : s[i] \notin letters
           \/ Find(s, letters) \in DOMAIN s /\ Find(s, letters) # 0 /\ s[Find(s, letters)] \in letters
<1>1. DEFINE I == {i \in 1 .. Len(s) : s[i] \in letters}
<1>2. Find(s, letters) = IF I # {} THEN Min(I) ELSE 0
    BY DEF Find, SelectInSeq
<1>3. DOMAIN s = 1 .. Len(s) /\ Len(s) \in Nat
    BY TokenFacts
<1>4. CASE I = {}
    <2>1. Find(s, letters) = 0
        BY <1>2, <1>4
    <2>2. \A i \in DOMAIN s : s[i] \notin letters
        BY <1>3, <1>4
    <2> QED BY <2>1, <2>2
<1>5. CASE I # {}
    <2>1. Find(s, letters) = Min(I)
        BY <1>2, <1>5
    <2>2. Min(I) \in I
        <3>1. I \subseteq Nat
            BY <1>3
        <3> HIDE DEF I
        <3>2. \E x \in I : \A y \in I : x <= y
            BY <1>5, <3>1, LeastNumber
        <3> QED BY <3>2 DEF Min
    <2>3. Min(I) \in DOMAIN s /\ Min(I) # 0 /\ s[Min(I)] \in letters
        BY <1>3, <2>2
    <2> QED BY <2>1, <2>3
<1> QED BY <1>4, <1>5

MegaLetters == {"M", "m"}
KiloLetters == {"k", "K"}

(* A letter of a suffix is no digit, no separator and no prefix. *)
LEMMA NoDigit ==
    ASSUME NEW c \in SuffixLetters, NEW radix
    PROVE  ~IsDigit(c, radix) /\ Counts(c) /\ c \notin {"0", "x", "X", "b", "B"}
<1>1. ASSUME NEW v \in 0 .. 15, Denotes(c, v) PROVE FALSE
    <2>1. PICK i \in 1 .. 16 : i = v + 1
        OBVIOUS
    <2>2. c \in FigureLetters
        BY <1>1, <2>1, FigureChars DEF Denotes
    <2> QED BY <2>2 DEF FigureLetters, SuffixLetters
<1>2. ~IsDigit(c, radix)
    BY <1>1, HasValue DEF IsDigit
<1> QED BY <1>2 DEF Counts, SuffixLetters

(* A number with such a letter in it is none. *)
LEMMA LetterRefused ==
    ASSUME NEW s \in Token, NEW i \in DOMAIN s, s[i] \in SuffixLetters
    PROVE  ~U32Arg(s).ok
<1>1. DEFINE d == Digits(s)
             N == Len(d)
<1>2. d \in Token /\ N \in Nat
    BY DigitsToken, TokenFacts
<1>3. PICK k \in 1 .. N : d[k] \in SuffixLetters
    <2>1. /\ DOMAIN s = 1 .. Len(s) /\ Len(s) \in Nat /\ s \in Seq(Character)
          /\ \A j \in 1 .. Len(s) : s[j] \in Character
        BY TokenFacts DEF Token, Character
    <2>2. CASE Radix(s) = 10
        BY <2>1, <2>2 DEF Digits
    <2>3. CASE Radix(s) # 10
        <3>1. PICK letters \in {{"x", "X"}, {"b", "B"}} : Prefixed(s, letters)
            BY <2>3 DEF Radix
        <3>2. Len(s) >= 2 /\ s[1] = "0" /\ s[2] \in {"x", "X", "b", "B"}
            BY <3>1 DEF Prefixed
        <3>3. i # 1 /\ i # 2
            <4>1. s[i] \notin {"0", "x", "X", "b", "B"}
                BY NoDigit
            <4> QED BY <3>2, <4>1
        <3>4. i - 2 \in 1 .. Len(s) - 3 + 1 /\ 3 + (i - 2) - 1 = i
            BY <2>1, <3>2, <3>3
        <3>5. d = SubSeq(s, 3, Len(s))
            BY <2>3 DEF Digits
        <3>6. \A j \in 3 .. Len(s) : s[j] \in Character
            BY <2>1
        <3>7. /\ Len(d) = IF 3 <= Len(s) THEN Len(s) - 3 + 1 ELSE 0
              /\ \A j \in 1 .. Len(s) - 3 + 1 : d[j] = s[3 + j - 1]
            BY <2>1, <3>5, <3>6, SubSeqProperties
        <3>8. d[i - 2] = s[i]
            <4>1. d[i - 2] = s[3 + (i - 2) - 1]
                BY <3>4, <3>7
            <4> QED BY <3>4, <4>1
        <3>9. i - 2 \in 1 .. Len(d)
            <4>1. 3 <= Len(s)
                BY <2>1, <3>3
            <4>2. Len(d) = Len(s) - 3 + 1
                BY <3>7, <4>1
            <4> QED BY <3>4, <4>2
        <3> HIDE DEF d
        <3> QED BY <3>8, <3>9
    <2> QED BY <2>2, <2>3
<1>4. PICK f \in [0 .. N -> Numbers] :
        /\ After(f, d, Radix(s))
        /\ U32Arg(s) = IF \A j \in DOMAIN d : d[j] = "_" THEN None ELSE f[N]
    BY U32Is
<1> HIDE DEF d, N
<1>5. None.ok = FALSE
    BY DEF None, Err
<1>6. DEFINE T == {n \in 0 .. N : n >= k => ~f[n].ok}
<1>7. 0 \in T
    BY <1>2
<1>8. ASSUME NEW n \in 0 .. N - 1, n \in T PROVE n + 1 \in T
    <2>1. n \in 0 .. N /\ n + 1 \in 0 .. N /\ n + 1 # 0 /\ (n + 1) - 1 = n
        BY <1>2
    <2>2. f[n + 1] = TakeDigit(Radix(s), f[n], d[n + 1])
        BY <1>4, <2>1 DEF After, N
    <2>3. CASE n >= k
        <3>1. ~f[n].ok
            BY <1>8, <2>3
        <3>2. f[n + 1] = f[n]
            BY <2>2, <3>1 DEF TakeDigit
        <3> QED BY <2>1, <3>1, <3>2
    <2>4. CASE n + 1 = k
        <3>1. ~IsDigit(d[n + 1], Radix(s)) /\ Counts(d[n + 1])
            BY <1>3, <2>4, NoDigit
        <3>2. f[n + 1] = f[n] \/ f[n + 1] = None
            BY <2>2, <3>1 DEF TakeDigit, Counts
        <3>3. ~f[n].ok \/ f[n + 1] = None
            BY <2>2, <3>1 DEF TakeDigit, Counts
        <3>4. ~f[n + 1].ok
            BY <1>5, <3>2, <3>3, Zenon
        <3> QED BY <2>1, <3>4
    <2>5. CASE n + 1 < k
        BY <2>1, <2>5
    <2> QED BY <1>2, <1>3, <2>3, <2>4, <2>5
<1>9. ~f[N].ok
    <2>1. \A n \in 0 .. N : n \in T
        <3> HIDE DEF T
        <3> QED BY <1>2, <1>7, <1>8, BoundedInduction
    <2>2. N \in T /\ N >= k
        BY <1>2, <1>3, <2>1
    <2> QED BY <2>2
<1> QED BY <1>4, <1>5, <1>9

(* What is written before a suffix and what behind it. *)
Before(s, at) == SubSeq(s, 1, at - 1)
Behind(s, at) == SubSeq(s, at + 1, Len(s))

(* The two sides are the characters of the token on either side. *)
LEMMA Sides ==
    ASSUME NEW s \in Token, NEW at \in DOMAIN s
    PROVE  /\ Before(s, at) \in Token /\ DOMAIN Before(s, at) = 1 .. at - 1
           /\ \A i \in 1 .. at - 1 : Before(s, at)[i] = s[i] /\ i \in DOMAIN s
           /\ Behind(s, at) \in Token /\ DOMAIN Behind(s, at) = 1 .. Len(s) - at
           /\ \A i \in 1 .. Len(s) - at : Behind(s, at)[i] = s[at + i] /\ at + i \in DOMAIN s
           /\ at \in 1 .. Len(s) /\ Len(s) \in Nat /\ DOMAIN s = 1 .. Len(s)
<1>1. /\ Len(s) \in Nat /\ DOMAIN s = 1 .. Len(s) /\ at \in 1 .. Len(s)
      /\ \A j \in 1 .. Len(s) : s[j] \in Character
    BY TokenFacts
<1>2. DEFINE u == Before(s, at)
             v == Behind(s, at)
<1>3. at - 1 \in Int /\ 1 \in Int /\ at + 1 \in Int /\ Len(s) \in Int
    BY <1>1
<1>4. /\ u \in Seq(Character) /\ Len(u) = IF 1 <= at - 1 THEN (at - 1) - 1 + 1 ELSE 0
      /\ \A i \in 1 .. (at - 1) - 1 + 1 : u[i] = s[1 + i - 1]
    <2>1. \A j \in 1 .. at - 1 : s[j] \in Character
        BY <1>1
    <2> QED BY <1>3, <2>1, SubSeqProperties DEF Before
<1>5. /\ v \in Seq(Character) /\ Len(v) = IF at + 1 <= Len(s) THEN Len(s) - (at + 1) + 1 ELSE 0
      /\ \A i \in 1 .. Len(s) - (at + 1) + 1 : v[i] = s[(at + 1) + i - 1]
    <2>1. \A j \in at + 1 .. Len(s) : s[j] \in Character
        BY <1>1
    <2> QED BY <1>3, <2>1, SubSeqProperties DEF Behind
<1>6. u \in Token /\ v \in Token
    BY <1>4, <1>5 DEF Token, Character
<1> HIDE DEF u, v
<1>7. Len(u) = at - 1 /\ Len(v) = Len(s) - at
    BY <1>1, <1>4, <1>5
<1>8. DOMAIN u = 1 .. at - 1 /\ DOMAIN v = 1 .. Len(s) - at
    BY <1>6, <1>7, TokenFacts
<1>9. ASSUME NEW i \in 1 .. at - 1 PROVE u[i] = s[i] /\ i \in DOMAIN s
    <2>1. i \in 1 .. (at - 1) - 1 + 1 /\ 1 + i - 1 = i /\ i \in 1 .. Len(s)
        BY <1>1
    <2> QED BY <1>1, <1>4, <2>1
<1>10. ASSUME NEW i \in 1 .. Len(s) - at PROVE v[i] = s[at + i] /\ at + i \in DOMAIN s
    <2>1. i \in 1 .. Len(s) - (at + 1) + 1 /\ (at + 1) + i - 1 = at + i /\ at + i \in 1 .. Len(s)
        BY <1>1
    <2> QED BY <1>1, <1>5, <2>1
<1> QED BY <1>1, <1>6, <1>8, <1>9, <1>10 DEF u, v

(* What a suffix makes of its sides, and nothing where one of them is none. *)
LEMMA MultipliedIs ==
    ASSUME NEW s, NEW at, NEW mult
    PROVE  /\ ~U32Arg(Before(s, at)).ok => ~Multiplied(s, at, mult).ok
           /\ Behind(s, at) # <<>> /\ ~U32Arg(Behind(s, at)).ok => ~Multiplied(s, at, mult).ok
<1>1. None.ok = FALSE
    BY DEF None, Err
<1>2. ~U32Arg(Before(s, at)).ok => Multiplied(s, at, mult) = None
    BY DEF Multiplied, Before
<1>3. Behind(s, at) # <<>> /\ ~U32Arg(Behind(s, at)).ok => Multiplied(s, at, mult) = None
    BY DEF Multiplied, Behind
<1> QED BY <1>1, <1>2, <1>3

(* Where the suffix is, if there is one. *)
LEMMA HzCases ==
    ASSUME NEW s \in Token
    PROVE  \/ HzArg(s) = U32Arg(s) /\ \A i \in DOMAIN s : s[i] \notin SuffixLetters
           \/ \E at \in DOMAIN s : /\ s[at] \in MegaLetters /\ HzArg(s) = Multiplied(s, at, Mega)
           \/ \E at \in DOMAIN s : /\ s[at] \in KiloLetters /\ HzArg(s) = Multiplied(s, at, Kilo)
                                   /\ \A i \in DOMAIN s : s[i] \notin MegaLetters
<1>1. DEFINE m == Find(s, MegaLetters)
             k == Find(s, KiloLetters)
<1>2. HzArg(s) = IF m # 0 THEN Multiplied(s, m, Mega) ELSE IF k # 0 THEN Multiplied(s, k, Kilo) ELSE U32Arg(s)
    BY DEF HzArg, MegaLetters, KiloLetters
<1>3. \/ m = 0 /\ \A i \in DOMAIN s : s[i] \notin MegaLetters
      \/ m \in DOMAIN s /\ m # 0 /\ s[m] \in MegaLetters
    BY Found
<1>4. \/ k = 0 /\ \A i \in DOMAIN s : s[i] \notin KiloLetters
      \/ k \in DOMAIN s /\ k # 0 /\ s[k] \in KiloLetters
    BY Found
<1>5. \A c : c \in SuffixLetters <=> c \in MegaLetters \/ c \in KiloLetters
    BY DEF SuffixLetters, MegaLetters, KiloLetters
<1> HIDE DEF m, k
<1>6. CASE m # 0
    BY <1>2, <1>3, <1>6
<1>7. CASE m = 0 /\ k # 0
    BY <1>2, <1>3, <1>4, <1>7
<1>8. CASE m = 0 /\ k = 0
    BY <1>2, <1>3, <1>4, <1>5, <1>8
<1> QED BY <1>6, <1>7, <1>8

(* The letters of the suffixes, and what they multiply by. *)
LEMMA LetterFacts ==
    ASSUME NEW c
    PROVE  /\ c \in SuffixLetters <=> c \in MegaLetters \/ c \in KiloLetters
           /\ c \in MegaLetters => MultiplierOf(c) = Mega
           /\ c \in KiloLetters => MultiplierOf(c) = Kilo
           /\ {Kilo, Mega} \subseteq Multipliers
BY ParseAssumption DEF SuffixLetters, MegaLetters, KiloLetters, MultiplierOf, Multipliers

(* Two suffixes are refused. *)
LEMMA TwiceRefused ==
    ASSUME NEW s \in Token, NEW i \in DOMAIN s, NEW j \in DOMAIN s, i # j,
           s[i] \in SuffixLetters, s[j] \in SuffixLetters
    PROVE  ~HzArg(s).ok
<1>1. ASSUME NEW at \in DOMAIN s, NEW mult PROVE ~Multiplied(s, at, mult).ok
    <2>1. PICK k \in DOMAIN s : k # at /\ s[k] \in SuffixLetters
        OBVIOUS
    <2>2. DOMAIN s = 1 .. Len(s) /\ Len(s) \in Nat
        BY TokenFacts
    <2>3. CASE k < at
        <3>1. k \in 1 .. at - 1
            BY <2>2, <2>3
        <3>2. Before(s, at) \in Token /\ k \in DOMAIN Before(s, at) /\ Before(s, at)[k] = s[k]
            BY <3>1, Sides
        <3>3. ~U32Arg(Before(s, at)).ok
            BY <2>1, <3>2, LetterRefused
        <3> QED BY <3>3, MultipliedIs
    <2>4. CASE at < k
        <3>1. k - at \in 1 .. Len(s) - at /\ at + (k - at) = k
            BY <2>2, <2>4
        <3>2. Behind(s, at) \in Token /\ k - at \in DOMAIN Behind(s, at) /\ Behind(s, at)[k - at] = s[k]
            BY <3>1, Sides
        <3>3. ~U32Arg(Behind(s, at)).ok
            BY <2>1, <3>2, LetterRefused
        <3>4. Behind(s, at) # <<>>
            BY <3>2
        <3> QED BY <3>3, <3>4, MultipliedIs
    <2> QED BY <2>1, <2>2, <2>3, <2>4
<1>2. ~(\A k \in DOMAIN s : s[k] \notin SuffixLetters)
    OBVIOUS
<1> QED BY <1>1, <1>2, HzCases

(* The only suffix is the one that multiplies. *)
LEMMA OneSuffix ==
    ASSUME NEW s \in Token, NEW at \in DOMAIN s, s[at] \in SuffixLetters,
           \A i \in DOMAIN s : s[i] \in SuffixLetters => i = at
    PROVE  HzArg(s) = Multiplied(s, at, MultiplierOf(s[at]))
<1>1. ~(\A k \in DOMAIN s : s[k] \notin SuffixLetters)
    OBVIOUS
<1>2. CASE \E i \in DOMAIN s : s[i] \in MegaLetters /\ HzArg(s) = Multiplied(s, i, Mega)
    <2>1. PICK i \in DOMAIN s : s[i] \in MegaLetters /\ HzArg(s) = Multiplied(s, i, Mega)
        BY <1>2
    <2>2. i = at
        BY <2>1, LetterFacts
    <2> QED BY <2>1, <2>2, LetterFacts
<1>3. CASE \E i \in DOMAIN s : s[i] \in KiloLetters /\ HzArg(s) = Multiplied(s, i, Kilo)
    <2>1. PICK i \in DOMAIN s : s[i] \in KiloLetters /\ HzArg(s) = Multiplied(s, i, Kilo)
        BY <1>3
    <2>2. i = at
        BY <2>1, LetterFacts
    <2> QED BY <2>1, <2>2, LetterFacts
<1> QED BY <1>1, <1>2, <1>3, HzCases

(* Decimal digits are worth what they are by position. *)
LEMMA DecimalWorth ==
    ASSUME NEW s \in Token, s # <<>>, AllDigits(s, 10)
    PROVE  U32Arg(s) = Worth(s, 10)
<1>1. 10 \in Radices /\ DOMAIN s = 1 .. Len(s) /\ Len(s) \in Nat
    BY TokenFacts DEF Radices
<1>2. \A i \in DOMAIN s : IsDigit(s[i], 10) /\ s[i] # "_"
    BY <1>1, DigitFacts DEF AllDigits
<1>3. Radix(s) = 10
    <2>0. Len(s) >= 2 => IsDigit(s[2], 10)
        <3>1. Len(s) >= 2 => 2 \in DOMAIN s
            BY <1>1
        <3> QED BY <3>1 DEF AllDigits
    <2>1. SUFFICES ASSUME Len(s) >= 2, s[2] \in {"x", "X", "b", "B"} PROVE FALSE
        BY DEF Radix, Prefixed
    <2>2. IsDigit(s[2], 10)
        BY <2>0, <2>1
    <2>3. PICK v \in 0 .. 9 : Denotes(s[2], v)
        BY <1>1, <2>2, DigitFigure DEF IsFigure
    <2>4. PICK i \in 1 .. 10 : i = v + 1
        OBVIOUS
    <2>5. s[2] \in {Small[i], Capital[i]}
        BY <2>3, <2>4 DEF Denotes
    <2>6. Small[i] \notin {"x", "X", "b", "B"}
        BY DEF Small
    <2>7. Capital[i] \notin {"x", "X", "b", "B"}
        BY DEF Capital
    <2> QED BY <2>1, <2>5, <2>6, <2>7
<1>4. Digits(s) = s
    BY <1>3 DEF Digits
<1>5. Unseparated(s) = s
    BY <1>2, NothingSeparated DEF Counts
<1>6. U32Arg(s) = AsWritten(s, 10)
    BY <1>3, <1>4, U32Worth
<1> QED BY <1>1, <1>5, <1>6, DigitFigure DEF AsWritten, Worth, AllDigits

(* The digits of a frequency, as one number of the smallest tenths. *)
Hz(s, at) ==
    LET tenths == Power(10, Len(Behind(s, at)))
    IN  (ByPosition(Before(s, at), 10) * tenths + ByPosition(Behind(s, at), 10))
            * (MultiplierOf(s[at]) \div tenths)

(* The arithmetic of hz_arg is exact: w before the suffix, x of the tenths *)
(* behind it, a tenth being worth the scale.                               *)
LEMMA ExactSum ==
    ASSUME NEW w \in Nat, NEW x \in Nat, NEW tenths \in Nat \ {0}, NEW scale \in Nat \ {0}
    PROVE  /\ (w * tenths + x) * scale = w * (tenths * scale) + x * scale
           /\ w * (tenths * scale) \in Nat /\ x * scale \in Nat
           /\ w * (tenths * scale) >= w /\ x * scale >= x
<1>1. DEFINE m == tenths * scale
             u == w * tenths
<1>2. m \in Nat \ {0}
    <2>1. m \in Nat /\ m >= tenths
        BY ProductGrows
    <2> HIDE DEF m
    <2> QED BY <2>1
<1>3. u \in Nat
    OBVIOUS
<1>4. u * scale = w * m
    OBVIOUS
<1> HIDE DEF m, u
<1>5. w * m \in Nat /\ w * m >= w
    BY <1>2, ProductGrows
<1>6. x * scale \in Nat /\ x * scale >= x
    BY ProductGrows
<1>7. (u + x) * scale = u * scale + x * scale
    BY <1>3
<1> QED BY <1>4, <1>5, <1>6, <1>7 DEF m, u

(* Numbers of any width, where they have one. *)
Fits(v) == IF v <= MaxU32 THEN Some(v) ELSE None

(* A frequency with digits before its only suffix is what is written. *)
LEMMA FrequencyWorth ==
    ASSUME NEW s \in Token, NEW at \in DOMAIN s, s[at] \in SuffixLetters,
           \A i \in DOMAIN s : s[i] \in SuffixLetters => i = at,
           Before(s, at) # <<>>,
           \A i \in DOMAIN s : i # at => IsDigit(s[i], 10)
    PROVE  HzArg(s) = IF Power(10, Len(Behind(s, at))) > MultiplierOf(s[at]) \/ Hz(s, at) > MaxU32
                      THEN None ELSE Some(Hz(s, at))
<1>1. DEFINE u == Before(s, at)
             v == Behind(s, at)
             mult == MultiplierOf(s[at])
             t == Power(10, Len(v))
             scale == mult \div t
             w == ByPosition(u, 10)
             x == ByPosition(v, 10)
             hz == (w * t + x) * scale
<1>2. u \in Token /\ v \in Token /\ AllDigits(u, 10) /\ AllDigits(v, 10) /\ Len(v) \in Nat
    <2>1. \A i \in 1 .. at - 1 : i # at
        BY Sides
    <2>2. \A i \in 1 .. Len(s) - at : at + i # at
        BY Sides
    <2>3. AllDigits(u, 10)
        BY <2>1, Sides DEF AllDigits
    <2>4. AllDigits(v, 10)
        BY <2>2, Sides DEF AllDigits
    <2>5. u \in Token /\ v \in Token
        BY Sides
    <2>6. Len(v) \in Nat
        BY <2>5, TokenFacts
    <2> QED BY <2>3, <2>4, <2>5, <2>6
<1>3. HzArg(s) = Multiplied(s, at, mult) /\ mult \in Multipliers
    <2>1. mult \in {Kilo, Mega}
        BY LetterFacts
    <2> QED BY <2>1, OneSuffix, LetterFacts
<1>4. U32Arg(u) = Fits(w)
    BY <1>2, DecimalWorth DEF Worth, Fits
<1>5. v # <<>> => U32Arg(v) = Fits(x)
    BY <1>2, DecimalWorth DEF Worth, Fits
<1>6. v = <<>> => x = 0 /\ t = 1
    <2>1. SUFFICES ASSUME v = <<>> PROVE x = 0 /\ t = 1
        OBVIOUS
    <2>2. 10 \in Radices /\ Len(<<>>) = 0 /\ 10 \in Nat \ {0} /\ 0 \in Nat
        BY DEF Radices
    <2>3. ByPosition(<<>>, 10) = 0
        BY <2>2, ByPositionEmpty
    <2>4. Power(10, 0) = 1
        BY <2>2, PowerFacts
    <2> QED BY <2>1, <2>2, <2>3, <2>4
<1>7. w \in Nat /\ x \in Nat
    <2>1. 10 \in Radices
        BY DEF Radices
    <2> QED BY <1>2, <2>1, ByPositionNat
<1>8. /\ mult \in Nat \ {0} /\ t \in Nat \ {0}
      /\ t > mult => scale = 0
      /\ t <= mult => scale \in Nat \ {0} /\ t * scale = mult
    BY <1>2, <1>3, Tenths
<1>9. Multiplied(s, at, mult) =
        IF ~U32Arg(u).ok \/ U32Arg(u).value * mult > MaxU32 THEN None
        ELSE IF v = <<>> THEN Some(U32Arg(u).value * mult)
        ELSE IF ~U32Arg(v).ok \/ scale = 0 THEN None
        ELSE IF U32Arg(u).value * mult + U32Arg(v).value * scale > MaxU32 THEN None
        ELSE Some(U32Arg(u).value * mult + U32Arg(v).value * scale)
    BY DEF Multiplied, Before, Behind, Scale
<1>10. /\ \A n : Some(n).ok = TRUE /\ Some(n).value = n
       /\ None.ok = FALSE
    BY DEF Some, Ok, None, Err
<1>11. MaxU32 \in Nat
    BY TimingAssumption
<1>12. Hz(s, at) = hz
    BY DEF Hz
<1>13. SUFFICES Multiplied(s, at, mult) = IF t > mult \/ hz > MaxU32 THEN None ELSE Some(hz)
    BY <1>3, <1>12
<1> HIDE DEF u, v, mult, t, scale, w, x, hz
<1>14. DEFINE a == w * mult
              b == x * scale
<1>15. t <= mult => /\ hz = a + b /\ a \in Nat /\ b \in Nat /\ a >= w /\ b >= x
    <2>1. SUFFICES ASSUME t <= mult PROVE hz = a + b /\ a \in Nat /\ b \in Nat /\ a >= w /\ b >= x
        OBVIOUS
    <2>2. scale \in Nat \ {0} /\ t * scale = mult
        BY <1>8, <2>1
    <2>3. /\ (w * t + x) * scale = w * (t * scale) + x * scale
          /\ w * (t * scale) \in Nat /\ x * scale \in Nat
          /\ w * (t * scale) >= w /\ x * scale >= x
        BY <1>7, <1>8, <2>2, ExactSum
    <2> QED BY <2>2, <2>3 DEF hz
<1>16. a \in Nat /\ a >= w
    BY <1>7, <1>8, ProductGrows
<1>17. v = <<>> => t <= mult /\ b = 0
    <2>1. 1 <= mult /\ 0 * scale = 0
        <3>1. t <= mult \/ t > mult
            BY <1>8
        <3>2. scale \in Nat
            BY <1>8, <3>1
        <3> QED BY <1>8, <3>2
    <2> QED BY <1>6, <2>1
<1> HIDE DEF a, b
<1>18. CASE w > MaxU32
    <2>1. ~(w <= MaxU32)
        BY <1>7, <1>11, <1>18
    <2>2. U32Arg(u) = None
        BY <1>4, <2>1 DEF Fits
    <2>3. Multiplied(s, at, mult) = None
        BY <1>9, <1>10, <2>2
    <2>4. t > mult \/ hz > MaxU32
        BY <1>7, <1>8, <1>11, <1>15, <1>18
    <2> QED BY <2>3, <2>4
<1>19. CASE ~(w > MaxU32)
    <2>1. U32Arg(u) = Some(w)
        BY <1>4, <1>7, <1>11, <1>19 DEF Fits
    <2>2. U32Arg(u).ok = TRUE /\ U32Arg(u).value = w
        BY <1>10, <2>1
    <2>3. Multiplied(s, at, mult) =
            IF a > MaxU32 THEN None
            ELSE IF v = <<>> THEN Some(a)
            ELSE IF ~U32Arg(v).ok \/ scale = 0 THEN None
            ELSE IF a + U32Arg(v).value * scale > MaxU32 THEN None
            ELSE Some(a + U32Arg(v).value * scale)
        BY <1>9, <2>2 DEF a
    <2>4. CASE a > MaxU32
        <3>1. t > mult \/ hz > MaxU32
            BY <1>8, <1>11, <1>15, <2>4
        <3> QED BY <2>3, <2>4, <3>1
    <2>5. CASE ~(a > MaxU32) /\ v = <<>>
        <3>1. t <= mult /\ b = 0 /\ hz = a + b /\ a \in Nat
            BY <1>15, <1>17, <2>5
        <3>2. hz = a /\ ~(t > mult)
            BY <1>8, <3>1
        <3>3. Multiplied(s, at, mult) = Some(a)
            BY <2>3, <2>5
        <3>4. ~(hz > MaxU32)
            BY <2>5, <3>2
        <3> QED BY <3>2, <3>3, <3>4
    <2>6. CASE ~(a > MaxU32) /\ v # <<>>
        <3>1. Multiplied(s, at, mult) =
                IF ~U32Arg(v).ok \/ scale = 0 THEN None
                ELSE IF a + U32Arg(v).value * scale > MaxU32 THEN None
                ELSE Some(a + U32Arg(v).value * scale)
            BY <2>3, <2>6
        <3>2. CASE x > MaxU32
            <4>1. ~(x <= MaxU32)
                BY <1>7, <1>11, <3>2
            <4>2. U32Arg(v).ok = FALSE
                BY <1>5, <1>10, <2>6, <4>1 DEF Fits
            <4>3. t > mult \/ hz > MaxU32
                BY <1>7, <1>8, <1>11, <1>15, <3>2
            <4> QED BY <3>1, <4>2, <4>3
        <3>3. CASE ~(x > MaxU32)
            <4>1. U32Arg(v) = Some(x)
                BY <1>5, <1>7, <1>11, <2>6, <3>3 DEF Fits
            <4>2. U32Arg(v).ok = TRUE /\ U32Arg(v).value = x
                BY <1>10, <4>1
            <4>3. Multiplied(s, at, mult) =
                    IF scale = 0 THEN None ELSE IF a + b > MaxU32 THEN None ELSE Some(a + b)
                BY <3>1, <4>2 DEF b
            <4>4. CASE t > mult
                BY <1>8, <4>3, <4>4
            <4>5. CASE ~(t > mult)
                <5>1. t <= mult
                    BY <1>8, <4>5
                <5>2. scale # 0 /\ hz = a + b
                    BY <1>8, <1>15, <5>1
                <5> QED BY <4>3, <4>5, <5>2
            <4> QED BY <4>4, <4>5
        <3> QED BY <3>2, <3>3
    <2> QED BY <2>4, <2>5, <2>6
<1> QED BY <1>18, <1>19

(* Where the suffixes of a token are. *)
Marks(s) == {i \in DOMAIN s : s[i] \in SuffixLetters}

(* No suffix, more than one, and the place of the only one. *)
LEMMA MarksFacts ==
    ASSUME NEW s \in Token
    PROVE  /\ Cardinality(Marks(s)) = 0 => HzArg(s) = U32Arg(s)
           /\ Cardinality(Marks(s)) > 1 => ~HzArg(s).ok
           /\ Cardinality(Marks(s)) = 1 =>
                 \E at \in Marks(s) : Marks(s) = {at} /\ (CHOOSE i \in Marks(s) : TRUE) = at
<1>1. IsFiniteSet(Marks(s))
    <2>1. DOMAIN s = 1 .. Len(s) /\ Len(s) \in Int /\ 1 \in Int
        BY TokenFacts
    <2>2. IsFiniteSet(DOMAIN s)
        BY <2>1, FS_Interval
    <2>3. Marks(s) \in SUBSET DOMAIN s
        BY DEF Marks
    <2> QED BY <2>2, <2>3, FS_Subset
<1>2. ASSUME Cardinality(Marks(s)) = 0 PROVE HzArg(s) = U32Arg(s)
    <2>1. Marks(s) = {}
        BY <1>1, <1>2, FS_EmptySet
    <2>2. \A i \in DOMAIN s : s[i] \notin SuffixLetters
        BY <2>1 DEF Marks
    <2> QED BY <2>2, HzCases, LetterFacts
<1>3. ASSUME Cardinality(Marks(s)) > 1 PROVE ~HzArg(s).ok
    <2>1. PICK i \in Marks(s) : TRUE
        <3>1. Marks(s) # {}
            <4>1. SUFFICES ASSUME Marks(s) = {} PROVE FALSE
                OBVIOUS
            <4>2. Cardinality(Marks(s)) = 0
                BY <4>1, FS_EmptySet
            <4> QED BY <1>3, <4>2
        <3> QED BY <3>1
    <2>2. PICK j \in Marks(s) : j # i
        <3>1. SUFFICES ASSUME Marks(s) = {i} PROVE FALSE
            BY <2>1
        <3>2. Cardinality(Marks(s)) = 1
            BY <3>1, FS_Singleton
        <3> QED BY <1>3, <3>2
    <2> QED BY <2>2, TwiceRefused DEF Marks
<1>4. ASSUME Cardinality(Marks(s)) = 1
      PROVE  \E at \in Marks(s) : Marks(s) = {at} /\ (CHOOSE i \in Marks(s) : TRUE) = at
    <2>1. PICK at : Marks(s) = {at}
        BY <1>1, <1>4, FS_Singleton
    <2>2. at \in Marks(s) /\ \A i \in Marks(s) : i = at
        BY <2>1
    <2> QED BY <2>1, <2>2
<1> QED BY <1>2, <1>3, <1>4

(* What the run checks of a token, case by case. *)
LEMMA FrequencyAsWritten ==
    ASSUME NEW s \in Token
    PROVE  LET at == CHOOSE i \in Marks(s) : TRUE
           IN  CASE Cardinality(Marks(s)) = 0 -> HzArg(s) = U32Arg(s)
                 [] Cardinality(Marks(s)) > 1 -> ~HzArg(s).ok
                 [] Cardinality(Marks(s)) = 1 /\ Before(s, at) = <<>> -> ~HzArg(s).ok
                 [] Cardinality(Marks(s)) = 1 /\ Before(s, at) # <<>>
                      /\ \A i \in DOMAIN s \ Marks(s) : IsFigure(s[i], 10) ->
                        HzArg(s) =
                            IF Power(10, Len(Behind(s, at))) > MultiplierOf(s[at]) \/ Hz(s, at) > MaxU32
                            THEN None ELSE Some(Hz(s, at))
                 [] OTHER -> TRUE
<1>1. DEFINE at == CHOOSE i \in Marks(s) : TRUE
             worth == IF Power(10, Len(Behind(s, at))) > MultiplierOf(s[at]) \/ Hz(s, at) > MaxU32
                      THEN None ELSE Some(Hz(s, at))
             P0 == Cardinality(Marks(s)) = 0
             P1 == Cardinality(Marks(s)) > 1
             P2 == Cardinality(Marks(s)) = 1 /\ Before(s, at) = <<>>
             P3 == /\ Cardinality(Marks(s)) = 1 /\ Before(s, at) # <<>>
                   /\ \A i \in DOMAIN s \ Marks(s) : IsFigure(s[i], 10)
<1>2. ASSUME Cardinality(Marks(s)) = 1
      PROVE  /\ at \in DOMAIN s /\ s[at] \in SuffixLetters /\ Marks(s) = {at}
             /\ \A i \in DOMAIN s : s[i] \in SuffixLetters => i = at
    <2>1. at \in Marks(s) /\ Marks(s) = {at}
        BY <1>2, MarksFacts
    <2> HIDE DEF at
    <2> QED BY <2>1 DEF Marks
<1>3. P0 => HzArg(s) = U32Arg(s)
    BY MarksFacts
<1>4. P1 => ~HzArg(s).ok
    BY MarksFacts
<1>5. ASSUME P2 PROVE ~HzArg(s).ok
    <2>1. HzArg(s) = Multiplied(s, at, MultiplierOf(s[at]))
        BY <1>2, <1>5, OneSuffix
    <2>2. ~U32Arg(<<>>).ok
        <3>1. Digits(<<>>) = <<>>
            BY DEF Digits, Radix, Prefixed
        <3>2. <<>> \in Token /\ DOMAIN <<>> = {}
            BY DEF Token
        <3>3. PICK f : U32Arg(<<>>) = IF \A i \in DOMAIN <<>> : <<>>[i] = "_" THEN None ELSE f[Len(<<>>)]
            BY <3>1, <3>2, U32Is
        <3>4. U32Arg(<<>>) = None
            BY <3>2, <3>3
        <3> QED BY <3>4 DEF None, Err
    <2> HIDE DEF at
    <2> QED BY <1>5, <2>1, <2>2, MultipliedIs
<1>6. ASSUME P3 PROVE HzArg(s) = worth
    <2>1. \A i \in DOMAIN s : i # at => IsDigit(s[i], 10)
        <3>1. \A i \in DOMAIN s : i # at => IsFigure(s[i], 10)
            BY <1>2, <1>6
        <3>2. 10 \in Radices
            BY DEF Radices
        <3> HIDE DEF at
        <3> QED BY <3>1, <3>2, DigitFigure
    <2> HIDE DEF at
    <2> QED BY <1>2, <1>6, <2>1, FrequencyWorth
<1> HIDE DEF P0, P1, P2, P3, worth
<1>7. (CASE P0 -> HzArg(s) = U32Arg(s)
         [] P1 -> ~HzArg(s).ok
         [] P2 -> ~HzArg(s).ok
         [] P3 -> HzArg(s) = worth
         [] OTHER -> TRUE)
    BY <1>3, <1>4, <1>5, <1>6
<1> QED BY <1>7 DEF P0, P1, P2, P3, worth

(* A frequency that is accepted is exact, whatever the number of digits on *)
(* either side of its suffix; two suffixes, or none of the digits before   *)
(* one, are refused.                                                       *)
THEOREM SynthFrequenciesAsWritten == Spec => []FrequenciesAsWritten
<1>1. ASSUME SynthInv PROVE FrequenciesAsWritten
    <2>1. ASSUME NEW s \in ToSet(req.args) PROVE s \in Token
        BY <1>1, RequestToken
    <2> QED BY <2>1, FrequencyAsWritten DEF FrequenciesAsWritten, Marks, Before, Behind, Hz
<1>2. SynthInv => FrequenciesAsWritten
    BY <1>1
<1> QED BY <1>2, SynthInvariance, PTL
=============================================================================
