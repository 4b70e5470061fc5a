--------------------------- MODULE IntegerProofs ---------------------------
(***************************************************************************)
(* What an integer token is worth, for lines of any length and integers of *)
(* any width: the digits strtol adds up from the left, held at LongMax + 1 *)
(* once they no longer fit, are the sum Denotes takes from the right.      *)
(***************************************************************************)
EXTENDS LexerIntegers, LexerProofs

----------------------------------------------------------------------------
(* Recursion along a sequence.                                             *)

\* What is built step by step from 0 to n.
Builds(w, n, S, a, step) == /\ w \in [0 .. n -> S] /\ w[0] = a
                            /\ \A m \in 1 .. n : w[m] = step[m][w[m - 1]]

\* It exists.
LEMMA Built ==
  ASSUME NEW n \in Nat, NEW S, NEW a \in S, NEW step \in [1 .. n -> [S -> S]]
  PROVE  \E w : Builds(w, n, S, a, step)
<1> DEFINE P(w, k) == Builds(w, k, S, a, step)
           T == {k \in Nat : k <= n => \E w : P(w, k)}
<1>1. 0 \in T
  <2> DEFINE w == [m \in 0 .. 0 |-> a]
  <2>1. w \in [0 .. 0 -> S] /\ w[0] = a
    OBVIOUS
  <2>2. 1 .. 0 = {}
    OBVIOUS
  <2> HIDE DEF w
  <2>3. P(w, 0)
    BY <2>1, <2>2 DEF Builds
  <2>4. QED
    BY <2>3
<1>2. ASSUME NEW k \in Nat, k \in T PROVE k + 1 \in T
  <2> SUFFICES ASSUME k + 1 <= n PROVE \E v : P(v, k + 1)
    OBVIOUS
  <2>1. PICK w : P(w, k)
    BY <1>2
  <2> DEFINE v == [m \in 0 .. k + 1 |-> IF m = k + 1 THEN step[k + 1][w[k]] ELSE w[m]]
  <2>2. w[k] \in S /\ k + 1 \in 1 .. n
    BY <2>1 DEF Builds
  <2>3. step[k + 1][w[k]] \in S
    BY <2>2
  <2>4. \A m \in 0 .. k + 1 : m # k + 1 => m \in 0 .. k
    OBVIOUS
  <2>5. v \in [0 .. k + 1 -> S]
    BY <2>1, <2>3, <2>4 DEF Builds
  <2>6. v[0] = a /\ v[k + 1] = step[k + 1][w[k]] /\ \A m \in 0 .. k : v[m] = w[m]
    BY <2>1 DEF Builds
  <2> HIDE DEF v
  <2>7. ASSUME NEW m \in 1 .. k + 1 PROVE v[m] = step[m][v[m - 1]]
    <3>1. CASE m = k + 1
      <4>1. m - 1 = k /\ k \in 0 .. k
        BY <3>1
      <4>2. QED
        BY <2>6, <3>1, <4>1
    <3>2. CASE m # k + 1
      <4>1. m \in 1 .. k /\ m \in 0 .. k /\ m - 1 \in 0 .. k
        BY <3>2
      <4>2. w[m] = step[m][w[m - 1]]
        BY <2>1, <4>1 DEF Builds
      <4>3. QED
        BY <2>6, <4>1, <4>2
    <3>3. QED
      BY <3>1, <3>2
  <2>8. QED
    BY <2>5, <2>6, <2>7 DEF Builds
<1>3. n \in T
  <2> HIDE DEF T
  <2>1. QED
    BY <1>1, <1>2, NatIsAll
<1>4. PICK w : P(w, n)
  BY <1>3
<1>5. QED
  BY <1>4

----------------------------------------------------------------------------
(* Digits.                                                                 *)

\* The value of n digits D from the left, each times the base plus the next;
\* the same, held at LongMax + 1; the powers of the base; and the sum from the
\* right.
Rises(w, n, D, base) == /\ w \in [0 .. n -> Nat] /\ w[0] = 0
                        /\ \A m \in 1 .. n : w[m] = w[m - 1] * base + D[m]
Held(v) == IF v > LongMax THEN LongMax + 1 ELSE v
Holds(c, n, D, base) == /\ c \in [0 .. n -> Nat] /\ c[0] = 0
                        /\ \A m \in 1 .. n : c[m] = Held(c[m - 1] * base + D[m])
Powers(p, n, base) == /\ p \in [0 .. n -> Nat] /\ p[0] = 1
                      /\ \A m \in 1 .. n : p[m] = base * p[m - 1]
Places(s, n, D, p) == /\ s \in [0 .. n -> Nat] /\ s[0] = 0
                      /\ \A m \in 1 .. n : s[m] = s[m - 1] + D[n + 1 - m] * p[m - 1]

\* The product of natural numbers is one.
LEMMA Product == ASSUME NEW a \in Nat, NEW b \in Nat PROVE a * b \in Nat
OBVIOUS

\* So is what is held of one.
LEMMA HeldIsNat == ASSUME NEW v \in Nat PROVE Held(v) \in Nat
BY LongMaxAssumption DEF Held

\* All four exist.
LEMMA RisesExists ==
  ASSUME NEW n \in Nat, NEW D \in [1 .. n -> Nat], NEW base \in Nat
  PROVE  \E w : Rises(w, n, D, base)
<1> DEFINE step == [m \in 1 .. n |-> [v \in Nat |-> v * base + D[m]]]
<1>1. step \in [1 .. n -> [Nat -> Nat]]
  BY Product
<1>2. PICK w : Builds(w, n, Nat, 0, step)
  <2>1. 0 \in Nat
    OBVIOUS
  <2>2. \A f \in [1 .. n -> [Nat -> Nat]] : \E w : Builds(w, n, Nat, 0, f)
    BY <2>1, Built
  <2>3. QED
    BY <1>1, <2>2
<1>3. ASSUME NEW m \in 1 .. n PROVE w[m] = w[m - 1] * base + D[m]
  <2>1. m - 1 \in 0 .. n
    OBVIOUS
  <2>2. w[m - 1] \in Nat
    BY <1>2, <2>1 DEF Builds
  <2>3. QED
    BY <1>2, <2>2 DEF Builds
<1>4. QED
  BY <1>2, <1>3 DEF Builds, Rises

LEMMA HoldsExists ==
  ASSUME NEW n \in Nat, NEW D \in [1 .. n -> Nat], NEW base \in Nat
  PROVE  \E c : Holds(c, n, D, base)
<1> DEFINE step == [m \in 1 .. n |-> [v \in Nat |-> Held(v * base + D[m])]]
<1>1. step \in [1 .. n -> [Nat -> Nat]]
  <2>1. ASSUME NEW m \in 1 .. n, NEW v \in Nat PROVE Held(v * base + D[m]) \in Nat
    <3>1. v * base \in Nat /\ D[m] \in Nat
      BY Product
    <3>2. v * base + D[m] \in Nat
      BY <3>1
    <3>3. QED
      BY <3>2, HeldIsNat
  <2>2. QED
    BY <2>1
<1>2. PICK w : Builds(w, n, Nat, 0, step)
  <2>1. 0 \in Nat
    OBVIOUS
  <2>2. \A f \in [1 .. n -> [Nat -> Nat]] : \E w : Builds(w, n, Nat, 0, f)
    BY <2>1, Built
  <2>3. QED
    BY <1>1, <2>2
<1>3. ASSUME NEW m \in 1 .. n PROVE w[m] = Held(w[m - 1] * base + D[m])
  <2>1. m - 1 \in 0 .. n
    OBVIOUS
  <2>2. w[m - 1] \in Nat
    BY <1>2, <2>1 DEF Builds
  <2>3. QED
    BY <1>2, <2>2 DEF Builds
<1>4. QED
  BY <1>2, <1>3 DEF Builds, Holds

LEMMA PowersExist ==
  ASSUME NEW n \in Nat, NEW base \in Nat
  PROVE  \E p : Powers(p, n, base)
<1> DEFINE step == [m \in 1 .. n |-> [v \in Nat |-> base * v]]
<1>1. step \in [1 .. n -> [Nat -> Nat]]
  BY Product
<1>2. PICK w : Builds(w, n, Nat, 1, step)
  <2>1. 1 \in Nat
    OBVIOUS
  <2>2. \A f \in [1 .. n -> [Nat -> Nat]] : \E w : Builds(w, n, Nat, 1, f)
    BY <2>1, Built
  <2>3. QED
    BY <1>1, <2>2
<1>3. ASSUME NEW m \in 1 .. n PROVE w[m] = base * w[m - 1]
  <2>1. m - 1 \in 0 .. n
    OBVIOUS
  <2>2. w[m - 1] \in Nat
    BY <1>2, <2>1 DEF Builds
  <2>3. QED
    BY <1>2, <2>2 DEF Builds
<1>4. QED
  BY <1>2, <1>3 DEF Builds, Powers

LEMMA PlacesExist ==
  ASSUME NEW n \in Nat, NEW D \in [1 .. n -> Nat], NEW p \in [0 .. n -> Nat]
  PROVE  \E s : Places(s, n, D, p)
<1> DEFINE step == [m \in 1 .. n |-> [v \in Nat |-> v + D[n + 1 - m] * p[m - 1]]]
<1>1. step \in [1 .. n -> [Nat -> Nat]]
  <2>1. ASSUME NEW m \in 1 .. n, NEW v \in Nat PROVE v + D[n + 1 - m] * p[m - 1] \in Nat
    <3>1. n + 1 - m \in 1 .. n /\ m - 1 \in 0 .. n
      OBVIOUS
    <3>2. D[n + 1 - m] * p[m - 1] \in Nat
      BY <3>1, Product
    <3>3. QED
      BY <3>2
  <2>2. QED
    BY <2>1
<1>2. PICK w : Builds(w, n, Nat, 0, step)
  <2>1. 0 \in Nat
    OBVIOUS
  <2>2. \A f \in [1 .. n -> [Nat -> Nat]] : \E w : Builds(w, n, Nat, 0, f)
    BY <2>1, Built
  <2>3. QED
    BY <1>1, <2>2
<1>3. ASSUME NEW m \in 1 .. n PROVE w[m] = w[m - 1] + D[n + 1 - m] * p[m - 1]
  <2>1. m - 1 \in 0 .. n
    OBVIOUS
  <2>2. w[m - 1] \in Nat
    BY <1>2, <2>1 DEF Builds
  <2>3. QED
    BY <1>2, <2>2 DEF Builds
<1>4. QED
  BY <1>2, <1>3 DEF Builds, Places

\* One digit moves from the left sum to the right one.
LEMMA MoveDigit ==
  ASSUME NEW h \in Nat, NEW b \in Nat, NEW d \in Nat, NEW p \in Nat, NEW s \in Nat
  PROVE  (h * b + d) * p + s = h * (b * p) + (s + d * p)
OBVIOUS

\* From the left and from the right the digits have the same value.
LEMMA BothWays ==
  ASSUME NEW n \in Nat, NEW D \in [1 .. n -> Nat], NEW base \in Nat,
         NEW w, Rises(w, n, D, base), NEW p, Powers(p, n, base), NEW s, Places(s, n, D, p)
  PROVE  w[n] = s[n]
<1> DEFINE T == {k \in Nat : k <= n => w[n - k] * p[k] + s[k] = w[n]}
<1>1. /\ \A m \in 0 .. n : w[m] \in Nat /\ p[m] \in Nat /\ s[m] \in Nat
      /\ w[0] = 0 /\ p[0] = 1 /\ s[0] = 0
  BY DEF Rises, Powers, Places
<1>2. 0 \in T
  <2>1. n - 0 = n /\ n \in 0 .. n /\ w[n] \in Nat
    BY <1>1
  <2>2. w[n] * 1 + 0 = w[n]
    BY <2>1
  <2>3. QED
    BY <1>1, <2>1, <2>2
<1>3. ASSUME NEW k \in Nat, k \in T PROVE k + 1 \in T
  <2> SUFFICES ASSUME k + 1 <= n PROVE w[n - (k + 1)] * p[k + 1] + s[k + 1] = w[n]
    OBVIOUS
  <2> DEFINE m == n - k
  <2>1. /\ m \in 1 .. n /\ m - 1 = n - (k + 1) /\ m - 1 \in 0 .. n /\ m \in 0 .. n
        /\ k \in 0 .. n /\ k + 1 \in 1 .. n /\ k + 1 - 1 = k /\ n + 1 - (k + 1) = m
    OBVIOUS
  <2>2. w[m] * p[k] + s[k] = w[n]
    BY <1>3
  <2> HIDE DEF m
  <2>3. w[m] = w[m - 1] * base + D[m]
    BY <2>1 DEF Rises
  <2>4. p[k + 1] = base * p[k]
    BY <2>1 DEF Powers
  <2>5. s[k + 1] = s[k] + D[m] * p[k]
    <3>1. \A j \in 1 .. n : s[j] = s[j - 1] + D[n + 1 - j] * p[j - 1]
      BY DEF Places
    <3>2. s[k + 1] = s[k + 1 - 1] + D[n + 1 - (k + 1)] * p[k + 1 - 1]
      BY <2>1, <3>1
    <3>3. QED
      BY <2>1, <3>2
  <2>6. w[m - 1] \in Nat /\ D[m] \in Nat /\ p[k] \in Nat /\ s[k] \in Nat
    BY <1>1, <2>1
  <2>7. (w[m - 1] * base + D[m]) * p[k] + s[k] = w[m - 1] * (base * p[k]) + (s[k] + D[m] * p[k])
    <3>1. PICK h, d, q, t \in Nat : h = w[m - 1] /\ d = D[m] /\ q = p[k] /\ t = s[k]
      BY <2>6
    <3>2. (h * base + d) * q + t = h * (base * q) + (t + d * q)
      BY MoveDigit
    <3>3. QED
      BY <3>1, <3>2
  <2>8. QED
    BY <2>1, <2>2, <2>3, <2>4, <2>5, <2>7
<1>4. n \in T
  <2> HIDE DEF T
  <2>1. QED
    BY <1>2, <1>3, NatIsAll
<1>5. w[n - n] * p[n] + s[n] = w[n]
  BY <1>4
<1>6. n - n = 0 /\ n \in 0 .. n
  OBVIOUS
<1>7. p[n] \in Nat /\ s[n] \in Nat /\ 0 * p[n] + s[n] = s[n]
  BY <1>1, <1>6
<1>8. QED
  BY <1>1, <1>5, <1>6, <1>7

\* A digit more never makes a number smaller.
LEMMA Grows ==
  ASSUME NEW a \in Nat, NEW base \in Nat, base > 0, NEW d \in Nat
  PROVE  a * base + d >= a
<1>1. PICK b \in Nat : base = b + 1
  <2>1. base - 1 \in Nat /\ base = (base - 1) + 1
    OBVIOUS
  <2>2. QED
    BY <2>1
<1>2. a * (b + 1) = a * b + a /\ a * b \in Nat
  BY Product
<1>3. QED
  BY <1>1, <1>2

\* Holding at every digit is holding once.
LEMMA HeldOnce ==
  ASSUME NEW n \in Nat, NEW D \in [1 .. n -> Nat], NEW base \in Nat, base > 0,
         NEW w, Rises(w, n, D, base), NEW c, Holds(c, n, D, base)
  PROVE  c[n] = Held(w[n])
<1> DEFINE T == {k \in Nat : k <= n => c[k] = Held(w[k])}
<1>1. \A m \in 0 .. n : w[m] \in Nat /\ c[m] \in Nat
  BY DEF Rises, Holds
<1>2. 0 \in T
  <2>1. c[0] = Held(w[0])
    BY LongMaxAssumption DEF Rises, Holds, Held
  <2>2. QED
    BY <2>1
<1>3. ASSUME NEW k \in Nat, k \in T PROVE k + 1 \in T
  <2> SUFFICES ASSUME k + 1 <= n PROVE c[k + 1] = Held(w[k + 1])
    OBVIOUS
  <2>1. k \in 0 .. n /\ k + 1 \in 1 .. n /\ k + 1 - 1 = k
    OBVIOUS
  <2>2. c[k] = Held(w[k]) /\ w[k] \in Nat /\ D[k + 1] \in Nat
    BY <1>1, <1>3, <2>1
  <2>3. w[k + 1] = w[k] * base + D[k + 1]
    BY <2>1 DEF Rises
  <2>4. c[k + 1] = Held(c[k] * base + D[k + 1])
    BY <2>1 DEF Holds
  <2>5. CASE w[k] > LongMax
    <3>1. c[k] = LongMax + 1 /\ LongMax + 1 \in Nat
      BY <2>2, <2>5, LongMaxAssumption DEF Held
    <3>2. c[k] * base + D[k + 1] >= LongMax + 1 /\ w[k] * base + D[k + 1] >= w[k]
      BY <2>2, <3>1, Grows
    <3>3. w[k] * base \in Nat /\ c[k] * base \in Nat
      BY <2>2, <3>1, Product
    <3>4. \A x \in Nat : x >= LongMax + 1 => x > LongMax
      BY LongMaxAssumption
    <3>5. \A x, y \in Nat : x > LongMax /\ y >= x => y > LongMax
      BY LongMaxAssumption
    <3>6. c[k] * base + D[k + 1] \in Nat /\ w[k] * base + D[k + 1] \in Nat
      BY <2>2, <3>3
    <3>7. c[k] * base + D[k + 1] > LongMax
      BY <3>2, <3>4, <3>6
    <3>8. w[k] * base + D[k + 1] > LongMax
      BY <2>2, <2>5, <3>2, <3>5, <3>6
    <3>9. QED
      BY <2>3, <2>4, <3>7, <3>8 DEF Held
  <2>6. CASE ~(w[k] > LongMax)
    BY <2>2, <2>3, <2>4, <2>6 DEF Held
  <2>7. QED
    BY <2>5, <2>6
<1>4. n \in T
  <2> HIDE DEF T
  <2>1. QED
    BY <1>2, <1>3, NatIsAll
<1>5. QED
  BY <1>4

\* Two functions that begin alike, and go on alike from every place where they
\* are, are the same up to n.
SameUpTo(n, v, w) == \A k \in 0 .. n : v[k] = w[k]
StaySame(n, v, w) == \A k \in 0 .. n - 1 : v[k] = w[k] => v[k + 1] = w[k + 1]

LEMMA Agree ==
  ASSUME NEW n \in Nat, NEW v, NEW w, v[0] = w[0], StaySame(n, v, w)
  PROVE  SameUpTo(n, v, w)
<1> DEFINE T == {k \in Nat : k <= n => v[k] = w[k]}
<1>1. 0 \in T
  OBVIOUS
<1>2. ASSUME NEW k \in Nat, k \in T PROVE k + 1 \in T
  BY <1>2 DEF StaySame
<1>3. Nat \subseteq T
  <2> HIDE DEF T
  <2>1. QED
    BY <1>1, <1>2, NatIsAll
<1>4. QED
  BY <1>3 DEF SameUpTo

\* The digits of the two bases.
LEMMA DigitValues ==
  /\ \A c \in HexDigit : DigitValue[c] \in Nat
  /\ DigitsOf(10) = Digit /\ DigitsOf(16) = HexDigit
<1>1. \A c \in HexDigit : DigitValue[c] \in 0 .. 15
  BY DEF DigitValue, HexDigit, Digit
<1>2. \A c \in Digit : DigitValue[c] < 10
  BY DEF DigitValue, HexDigit, Digit
<1>3. \A c \in HexDigit \ Digit : ~(DigitValue[c] < 10)
  BY DEF DigitValue, HexDigit, Digit
<1>4. Digit \subseteq HexDigit
  BY DEF HexDigit
<1>5. QED
  BY <1>1, <1>2, <1>3, <1>4 DEF DigitsOf

\* The longest prefix of digits is all of a text that has nothing else.
LEMMA AllDigits ==
  ASSUME NEW base, NEW s \in Seq(DigitsOf(base))
  PROVE  DigitPrefix(s, base) = s
<1> DEFINE P(n) == /\ \A i \in 1 .. n : s[i] \in DigitsOf(base)
                   /\ n < Len(s) => s[n + 1] \notin DigitsOf(base)
<1>1. \A i \in 1 .. Len(s) : s[i] \in DigitsOf(base)
  OBVIOUS
<1>2. Len(s) \in 0 .. Len(s) /\ P(Len(s))
  BY <1>1
<1>3. \A n \in 0 .. Len(s) : P(n) => n = Len(s)
  BY <1>1
<1> HIDE DEF P
<1>4. (CHOOSE n \in 0 .. Len(s) : P(n)) = Len(s)
  BY <1>2, <1>3
<1>5. SubSeq(s, 1, Len(s)) = s
  OBVIOUS
<1>6. QED
  BY <1>4, <1>5 DEF P, DigitPrefix

\* The values of the digits.
Values(s) == [k \in 1 .. Len(s) |-> DigitValue[s[k]]]

\* They are natural numbers.
LEMMA ValuesTyped ==
  ASSUME NEW base, NEW s \in Seq(DigitsOf(base))
  PROVE  Len(s) \in Nat /\ Values(s) \in [1 .. Len(s) -> Nat]
<1>1. \A c \in DigitsOf(base) : DigitValue[c] \in Nat
  BY DigitValues DEF DigitsOf
<1>2. \A i \in 1 .. Len(s) : DigitValue[s[i]] \in Nat
  BY <1>1
<1>3. QED
  BY <1>2 DEF Values

\* Magnitude holds the value of the digits from the left.
LEMMA MagnitudeHolds ==
  ASSUME NEW base \in Nat, NEW s \in Seq(DigitsOf(base)),
         NEW c, Holds(c, Len(s), Values(s), base)
  PROVE  Magnitude(s, base) = c[Len(s)]
<1> DEFINE n == Len(s)
           F(f) == [m \in 0 .. n |-> IF m = 0 THEN 0
                                     ELSE Held(f[m - 1] * base + DigitValue[s[m]])]
           v == CHOOSE f : f = F(f)
<1>1. n \in Nat /\ \A m \in 1 .. n : Values(s)[m] = DigitValue[s[m]]
  BY ValuesTyped DEF Values
<1>2. /\ c \in [0 .. n -> Nat] /\ c[0] = 0
      /\ \A m \in 1 .. n : c[m] = Held(c[m - 1] * base + DigitValue[s[m]])
  BY <1>1 DEF Holds
<1>3. c = F(c)
  <2>1. \A m \in 0 .. n : m # 0 => m \in 1 .. n
    BY <1>1
  <2>2. \A m \in 0 .. n : c[m] = IF m = 0 THEN 0 ELSE Held(c[m - 1] * base + DigitValue[s[m]])
    BY <1>2, <2>1
  <2>3. c = [m \in 0 .. n |-> c[m]]
    BY <1>2
  <2>4. QED
    BY <2>2, <2>3
<1>4. v = F(v)
  BY <1>3
<1> HIDE DEF v
<1>5. \A m \in 0 .. n : v[m] = IF m = 0 THEN 0 ELSE Held(v[m - 1] * base + DigitValue[s[m]])
  BY <1>4
<1>6. v[0] = c[0]
  BY <1>1, <1>2, <1>5
<1>7. ASSUME NEW k \in 0 .. n - 1, v[k] = c[k] PROVE v[k + 1] = c[k + 1]
  <2>1. k + 1 \in 0 .. n /\ k + 1 # 0 /\ k + 1 \in 1 .. n /\ k + 1 - 1 = k
    BY <1>1
  <2>2. v[k + 1] = Held(v[k + 1 - 1] * base + DigitValue[s[k + 1]])
    BY <1>5, <2>1
  <2>3. c[k + 1] = Held(c[k + 1 - 1] * base + DigitValue[s[k + 1]])
    BY <1>2, <2>1
  <2>4. QED
    BY <1>7, <2>1, <2>2, <2>3
<1>8. \A k \in 0 .. n : v[k] = c[k]
  <2>1. StaySame(n, v, c)
    BY <1>7 DEF StaySame
  <2>2. QED
    BY <1>1, <1>6, <2>1, Agree DEF SameUpTo
<1>9. Magnitude(s, base) = v[n]
  BY AllDigits DEF Magnitude, Held, v
<1>10. QED
  BY <1>1, <1>8, <1>9

\* Denotes is the sum from the right.
LEMMA DenotesSum ==
  ASSUME NEW base \in Nat, NEW s \in Seq(DigitsOf(base)),
         NEW p, Powers(p, Len(s), base), NEW t, Places(t, Len(s), Values(s), p)
  PROVE  Denotes(s, base) = t[Len(s)]
<1> DEFINE n == Len(s)
           P(f) == [k \in 0 .. n |-> IF k = 0 THEN 1 ELSE base * f[k - 1]]
           power == CHOOSE f : f = P(f)
           S(f) == [k \in 0 .. n |->
                      IF k = 0 THEN 0
                      ELSE f[k - 1] + DigitValue[s[n + 1 - k]] * power[k - 1]]
           sum == CHOOSE f : f = S(f)
<1>1. n \in Nat /\ \A m \in 1 .. n : Values(s)[m] = DigitValue[s[m]]
  BY ValuesTyped DEF Values
<1>2. \A m \in 0 .. n : m # 0 => m \in 1 .. n
  BY <1>1
<1>3. power = P(power)
  <2>1. \A k \in 0 .. n : p[k] = IF k = 0 THEN 1 ELSE base * p[k - 1]
    BY <1>2 DEF Powers
  <2>2. p = [k \in 0 .. n |-> p[k]]
    BY DEF Powers
  <2>3. p = P(p)
    BY <2>1, <2>2
  <2>4. QED
    BY <2>3
<1>4. \A k \in 0 .. n : power[k] = p[k]
  <2> HIDE DEF power
  <2>1. \A k \in 0 .. n : power[k] = IF k = 0 THEN 1 ELSE base * power[k - 1]
    BY <1>3
  <2>2. power[0] = p[0]
    BY <1>1, <2>1 DEF Powers
  <2>3. ASSUME NEW k \in 0 .. n - 1, power[k] = p[k] PROVE power[k + 1] = p[k + 1]
    <3>1. k + 1 \in 0 .. n /\ k + 1 # 0 /\ k + 1 \in 1 .. n /\ k + 1 - 1 = k
      BY <1>1
    <3>2. power[k + 1] = base * power[k + 1 - 1]
      BY <2>1, <3>1
    <3>3. p[k + 1] = base * p[k + 1 - 1]
      BY <3>1 DEF Powers
    <3>4. QED
      BY <2>3, <3>1, <3>2, <3>3
  <2>4. StaySame(n, power, p)
    BY <2>3 DEF StaySame
  <2>5. QED
    BY <1>1, <2>2, <2>4, Agree DEF SameUpTo
<1>5. sum = S(sum)
  <2> HIDE DEF power
  <2>1. ASSUME NEW k \in 1 .. n
        PROVE  t[k] = t[k - 1] + DigitValue[s[n + 1 - k]] * power[k - 1]
    <3>1. n + 1 - k \in 1 .. n /\ k - 1 \in 0 .. n
      BY <1>1
    <3>2. t[k] = t[k - 1] + Values(s)[n + 1 - k] * p[k - 1]
      BY DEF Places
    <3>3. QED
      BY <1>1, <1>4, <3>1, <3>2
  <2>2. t[0] = 0 /\ t = [k \in 0 .. n |-> t[k]]
    BY DEF Places
  <2>3. t = S(t)
    BY <1>2, <2>1, <2>2
  <2>4. QED
    BY <2>3
<1> HIDE DEF power, sum
<1>6. \A k \in 0 .. n : sum[k] = t[k]
  <2>1. \A k \in 0 .. n :
          sum[k] = IF k = 0 THEN 0
                   ELSE sum[k - 1] + DigitValue[s[n + 1 - k]] * power[k - 1]
    BY <1>5
  <2>2. sum[0] = t[0]
    BY <1>1, <2>1 DEF Places
  <2>3. ASSUME NEW k \in 0 .. n - 1, sum[k] = t[k] PROVE sum[k + 1] = t[k + 1]
    <3> DEFINE m == k + 1
    <3>1. /\ m \in 0 .. n /\ m # 0 /\ m \in 1 .. n /\ m - 1 = k
          /\ n + 1 - m \in 1 .. n /\ k \in 0 .. n
      BY <1>1
    <3> HIDE DEF m
    <3>2. sum[m] = sum[m - 1] + DigitValue[s[n + 1 - m]] * power[m - 1]
      BY <2>1, <3>1
    <3>3. t[m] = t[m - 1] + Values(s)[n + 1 - m] * p[m - 1]
      BY <3>1 DEF Places
    <3>4. sum[m] = t[m]
      BY <1>1, <1>4, <2>3, <3>1, <3>2, <3>3
    <3>5. QED
      BY <3>4 DEF m
  <2>4. StaySame(n, sum, t)
    BY <2>3 DEF StaySame
  <2>5. QED
    BY <1>1, <2>2, <2>4, Agree DEF SameUpTo
<1>7. Denotes(s, base) = sum[n]
  BY DEF Denotes, sum, power
<1>8. QED
  BY <1>1, <1>6, <1>7

\* So strtol reads digits as the number they denote, as long as a long holds it.
LEMMA MagnitudeIs ==
  ASSUME NEW base \in Nat, base > 0, NEW s \in Seq(DigitsOf(base))
  PROVE  Denotes(s, base) \in Nat /\ Magnitude(s, base) = Held(Denotes(s, base))
<1> DEFINE n == Len(s)
           D == Values(s)
<1>1. n \in Nat /\ D \in [1 .. n -> Nat]
  BY ValuesTyped
<1> HIDE DEF D
<1>2. PICK w : Rises(w, n, D, base)
  BY <1>1, RisesExists
<1>3. PICK c : Holds(c, n, D, base)
  BY <1>1, HoldsExists
<1>4. PICK p : Powers(p, n, base)
  BY <1>1, PowersExist
<1>5. PICK t : Places(t, n, D, p)
  <2>1. p \in [0 .. n -> Nat]
    BY <1>4 DEF Powers
  <2>2. QED
    BY <1>1, <2>1, PlacesExist
<1>6. Magnitude(s, base) = c[n]
  BY <1>3, MagnitudeHolds DEF D
<1>7. Denotes(s, base) = t[n]
  BY <1>4, <1>5, DenotesSum DEF D
<1>8. c[n] = Held(w[n])
  BY <1>1, <1>2, <1>3, HeldOnce
<1>9. w[n] = t[n]
  BY <1>1, <1>2, <1>4, <1>5, BothWays
<1>10. w[n] \in Nat
  BY <1>1, <1>2 DEF Rises
<1>11. QED
  BY <1>6, <1>7, <1>8, <1>9, <1>10

----------------------------------------------------------------------------
(* The conversions.                                                        *)

\* The remainder is the one number below the modulus that is left.
LEMMA Remainder ==
  ASSUME NEW M \in Nat \ {0}, NEW q \in Int, NEW r \in 0 .. M - 1
  PROVE  (M * q + r) % M = r
<1> DEFINE x == M * q + r
           p == x \div M
           e == x % M
<1>1. x \in Int /\ M * q \in Int
  OBVIOUS
<1>2. p \in Int /\ e \in 0 .. M - 1 /\ x = M * p + e
  BY <1>1
<1> HIDE DEF p, e
<1>3. q = p
  <2>1. ASSUME NEW a \in Int, NEW b \in Int, a >= b + 1 PROVE M * a >= M * b + M
    <3>1. PICK d \in Nat : a = b + 1 + d
      <4>1. a - (b + 1) \in Nat /\ a = b + 1 + (a - (b + 1))
        BY <2>1
      <4>2. QED
        BY <4>1
    <3>2. M * (b + 1 + d) = M * b + M + M * d /\ M * d \in Nat /\ M * b \in Int
      OBVIOUS
    <3>3. QED
      BY <3>1, <3>2
  <2>2. ~(q >= p + 1)
    <3>1. SUFFICES ASSUME q >= p + 1 PROVE FALSE
      OBVIOUS
    <3>2. M * q >= M * p + M
      BY <1>2, <2>1, <3>1
    <3>3. M * p \in Int /\ M * q \in Int
      BY <1>2
    <3>4. QED
      BY <1>2, <3>2, <3>3
  <2>3. ~(p >= q + 1)
    <3>1. SUFFICES ASSUME p >= q + 1 PROVE FALSE
      OBVIOUS
    <3>2. M * p >= M * q + M
      BY <1>2, <2>1, <3>1
    <3>3. M * p \in Int /\ M * q \in Int
      BY <1>2
    <3>4. QED
      BY <1>2, <3>2, <3>3
  <2>4. QED
    BY <1>2, <2>2, <2>3
<1>4. e = r
  BY <1>1, <1>2, <1>3
<1>5. QED
  BY <1>4 DEF e

\* long -> int -> uint32_t is long -> uint32_t: nothing is lost on the way
\* through the sign.
LEMMA Wraps == ASSUME NEW v \in Int PROVE ToUnsigned(ToInt(v)) = v % IntMod
<1> DEFINE M == IntMod
           h == IntMod \div 2
           a == (v + h) % M
           q == (v + h) \div M
           r == (a - h) % M
           p == (a - h) \div M
<1>1. M \in Nat \ {0} /\ h \in Int
  BY IntModAssumption
<1>2. a \in Int /\ q \in Int /\ v + h = M * q + a
  BY <1>1
<1>3. r \in 0 .. M - 1 /\ p \in Int /\ a - h = M * p + r
  BY <1>1, <1>2
<1>4. ToUnsigned(ToInt(v)) = r
  BY DEF ToUnsigned, ToInt
<1> HIDE DEF M, h, a, q, r, p
<1>5. v = M * (q + p) + r
  <2>1. M * (q + p) = M * q + M * p /\ M * q \in Int /\ M * p \in Int
    BY <1>1, <1>2, <1>3
  <2>2. QED
    BY <1>1, <1>2, <1>3, <2>1
<1>6. v % M = r
  BY <1>1, <1>2, <1>3, <1>5, Remainder
<1>7. QED
  BY <1>4, <1>6 DEF M

----------------------------------------------------------------------------
(* The texts of integer tokens.                                            *)

\* A sign is not followed by a mark.
IntegerTexts ==
  tok.type = "INTEGER" => /\ tok.text # <<>>
                          /\ tok.text[1] = DASH => ~HasBaseMark(tok.text)

\* The text of a number has a first character that is not a dash, or a digit
\* behind it.
LEMMA IntegerText ==
  ASSUME IInv, NEW i \in 1 .. Len(line), NEW n \in i .. Len(line),
         Decimal(i, n) \/ Hex(i, n)
  PROVE  /\ Reference!Text(i, n + 1) # <<>>
         /\ Reference!Text(i, n + 1)[1] = DASH => ~HasBaseMark(Reference!Text(i, n + 1))
<1> DEFINE t == SubSeq(line, i, n)
<1>1. line \in Seq(Chars) /\ Len(line) \in Nat /\ i \in Nat /\ n \in Nat
  BY LineTyped
<1>2. t # <<>> /\ Len(t) = n - i + 1 /\ t[1] = line[i] /\ (Len(t) >= 2 => t[2] = line[i + 1])
  BY <1>1
<1>3. Reference!Text(i, n + 1) = t
  BY <1>1 DEF Reference!Text
<1> HIDE DEF t
<1>4. CASE Decimal(i, n)
  <2>1. ASSUME Len(t) >= 2 PROVE t[2] \notin BaseMark
    <3>1. i + 1 \in i + 1 .. n
      BY <1>1, <1>2, <2>1
    <3>2. line[i + 1] \in Digit
      BY <1>4, <3>1 DEF Decimal, Run, Reference!In
    <3>3. QED
      BY <1>2, <2>1, <3>2, Classes DEF HexDigit
  <2>2. QED
    BY <1>2, <1>3, <2>1 DEF HasBaseMark
<1>5. CASE Hex(i, n)
  BY <1>2, <1>3, <1>5, Classes DEF Hex
<1>6. QED
  BY <1>4, <1>5

\* The three places where an integer is accepted.
LEMMA IntegerAccepted ==
  ASSUME IInv, WordInv, calling, ~AtEnd \/ state = "NUMBER",
         state \in {"NUMBER", "NUMBER_BASE16"}, buffer' = buffer, Return("INTEGER", "ZERO")
  PROVE  IntegerTexts'
<1> DEFINE n == char_no
<1>1. PICK i : /\ i \in 1 .. Len(line) /\ i \in start + 1 .. n /\ n \in i .. Len(line)
               /\ Begins(i) /\ Word(state, i, n, buffer)
  BY InWord, LineTyped
<1>2. /\ Decimal(i, n) \/ Hex(i, n)
      /\ buffer = Reference!Text(i, n + 1)
  BY <1>1 DEF Word
<1>3. /\ buffer # <<>>
      /\ buffer[1] = DASH => ~HasBaseMark(buffer)
  BY <1>1, <1>2, IntegerText
<1>4. buffer[Len(buffer)] # NUL
  <2>1. /\ line \in Seq(Chars) /\ Len(line) \in Nat /\ i \in Nat /\ n \in Nat
        /\ buffer = SubSeq(line, i, n)
    BY <1>1, <1>2, LineTyped DEF Reference!Text
  <2>2. buffer[Len(buffer)] = line[n]
    BY <1>1, <2>1
  <2>3. line[n] # NUL
    <3>1. CASE n = i
      BY <1>1, <3>1, Classes DEF Begins
    <3>2. CASE n # i
      <4>1. n \in i + 1 .. n
        BY <1>1, <2>1, <3>2
      <4>2. CASE Decimal(i, n)
        BY <4>1, <4>2, Classes DEF Decimal, Run, Reference!In
      <4>3. CASE Hex(i, n)
        <5>1. PICK f \in i + 1 .. n : Run(f, n, HexDigit)
          BY <4>3 DEF Hex
        <5>2. n \in f .. n
          BY <2>1, <5>1
        <5>3. QED
          BY <5>1, <5>2, Classes DEF Run, Reference!In
      <4>4. QED
        BY <1>2, <4>2, <4>3
    <3>3. QED
      BY <3>1, <3>2
  <2>4. QED
    BY <2>2, <2>3
<1>5. tok'.text = buffer
  BY <1>4 DEF Return, Token, CString
<1>6. QED
  BY <1>3, <1>5 DEF IntegerTexts

\* No step returns another integer.
LEMMA IntegerTextsStep == IInv /\ WordInv /\ IntegerTexts /\ [Next]_vars => IntegerTexts'
<1> SUFFICES ASSUME IInv, WordInv, IntegerTexts, [Next]_vars PROVE IntegerTexts'
  OBVIOUS
<1>1. ASSUME tok' = tok \/ tok'.type # "INTEGER" PROVE IntegerTexts'
  BY <1>1 DEF IntegerTexts
<1>2. ASSUME NEW t, t # "INTEGER", NEW s, Return(t, s) PROVE IntegerTexts'
  BY <1>1, <1>2 DEF Return, Token
<1>3. ASSUME NEW s, Goto(s) PROVE IntegerTexts'
  BY <1>1, <1>3 DEF Goto
<1>4. Fail => IntegerTexts'
  BY <1>2 DEF Fail
<1>5. CASE ScanNumber \/ ScanNumberBase16
  <2>1. calling /\ state \in {"NUMBER", "NUMBER_BASE16"} /\ ~AtEnd
    BY <1>5 DEF ScanNumber, ScanNumberBase16, Scan, GetcIsEOF
  <2>2. CASE Take(<<>>) /\ Accept("INTEGER")
    BY <2>1, <2>2, BufferTyped, IntegerAccepted DEF Take, Accept
  <2>3. QED
    BY <1>3, <1>4, <1>5, <2>2 DEF ScanNumber, ScanNumberBase16
<1>6. CASE ScanEnd
  <2>1. CASE state = "NUMBER" /\ Accept("INTEGER")
    BY <1>6, <2>1, IntegerAccepted DEF ScanEnd, Accept
  <2>2. QED
    BY <1>2, <1>6, <2>1 DEF ScanEnd, Accept
<1>7. CASE ScanZero \/ ScanMinus \/ ScanIntegerBase16 \/ ScanNumberPrefix
  BY <1>2, <1>3, <1>4, <1>7 DEF ScanZero, ScanMinus, ScanIntegerBase16, ScanNumberPrefix, Accept
<1>8. CASE ScanString \/ ScanEscape \/ ScanSymbol
  BY <1>2, <1>3, <1>4, <1>8 DEF ScanString, ScanEscape, ScanSymbol, Accept
<1>9. CASE LineSet \/ TokenGet \/ UNCHANGED vars
  BY <1>1, <1>9 DEF LineSet, TokenGet, vars, NoToken
<1>10. QED
  BY <1>5, <1>6, <1>7, <1>8, <1>9 DEF Next, ScanStep

----------------------------------------------------------------------------

\* What strtol makes of digits, and of digits behind a sign.
LEMMA StrtolIs ==
  ASSUME NEW base \in {10, 16}, NEW s \in Seq(DigitsOf(base))
  PROVE  /\ Denotes(s, base) \in Nat
         /\ strtol(s, base) = HeldByLong(Denotes(s, base))
         /\ \A z : z # <<>> /\ z[1] = DASH /\ Tail(z) = s =>
              strtol(z, base) = HeldByLong(-Denotes(s, base))
<1>1. Denotes(s, base) \in Nat /\ Magnitude(s, base) = Held(Denotes(s, base))
  BY MagnitudeIs
<1>2. s # <<>> => s[1] # DASH
  <2>1. DigitsOf(base) \subseteq HexDigit
    BY DEF DigitsOf
  <2>2. DASH \notin HexDigit
    BY DEF HexDigit, Digit, DASH
  <2>3. s # <<>> => s[1] \in DigitsOf(base)
    OBVIOUS
  <2>4. QED
    BY <2>1, <2>2, <2>3
<1>3. strtol(s, base) = HeldByLong(Denotes(s, base))
  BY <1>1, <1>2, LongMaxAssumption DEF strtol, HeldByLong, Held
<1>4. ASSUME NEW z, z # <<>>, z[1] = DASH, Tail(z) = s
      PROVE  strtol(z, base) = HeldByLong(-Denotes(s, base))
  <2>1. strtol(z, base) = -Magnitude(s, base)
    BY <1>4 DEF strtol
  <2>2. HeldByLong(-Denotes(s, base)) = -Held(Denotes(s, base))
    BY <1>1, LongMaxAssumption DEF HeldByLong, Held
  <2>3. QED
    BY <1>1, <2>1, <2>2
<1>5. QED
  BY <1>1, <1>3, <1>4

\* A sequence whose elements are of a set is a sequence of that set.
LEMMA SeqOf ==
  ASSUME NEW A, NEW B, NEW s \in Seq(A), \A k \in 1 .. Len(s) : s[k] \in B
  PROVE  s \in Seq(B)
OBVIOUS

\* A literal is worth the number it denotes.
LEMMA LiteralIs ==
  ASSUME NEW text \in Seq(Chars), text # <<>>, text[1] = DASH => ~HasBaseMark(text),
         IsDecimal(text) \/ IsHexadecimal(text)
  PROVE  ToUnsigned(IntegerOf(text)) = HeldByLong(Literal(text)) % IntMod
<1>1. \A v \in Int : HeldByLong(v) \in Int
  BY LongMaxAssumption DEF HeldByLong
<1>2. SUFFICES \E v \in Int : /\ Literal(text) = v
                              /\ IntegerOf(text) = ToInt(HeldByLong(v))
  BY <1>1, Wraps
<1>3. IsDecimal(text) => ~HasBaseMark(text)
  <2>1. IsDecimal(text) /\ Len(text) >= 2 => text[2] \in Digit
    BY DEF IsDecimal
  <2>2. QED
    BY <2>1, Classes DEF HasBaseMark, HexDigit
<1>4. CASE IsDecimal(text) /\ text[1] = DASH
  <2>1. Tail(text) \in Seq(DigitsOf(10))
    <3>1. Tail(text) \in Seq(Chars) /\ \A k \in 1 .. Len(Tail(text)) : Tail(text)[k] \in Digit
      BY <1>4 DEF IsDecimal
    <3>2. Tail(text) \in Seq(Digit)
      BY <3>1, SeqOf
    <3>3. QED
      BY <3>2, DigitValues
  <2>2. /\ Denotes(Tail(text), 10) \in Nat
        /\ strtol(text, 10) = HeldByLong(-Denotes(Tail(text), 10))
    BY <1>4, <2>1, StrtolIs
  <2>3. Literal(text) = -Denotes(Tail(text), 10)
    BY <1>4 DEF Literal, Magnitudes, Negative, Digits
  <2>4. IntegerOf(text) = ToInt(strtol(text, 10))
    BY <1>3, <1>4 DEF IntegerOf
  <2>5. QED
    BY <2>2, <2>3, <2>4
<1>5. CASE IsDecimal(text) /\ text[1] # DASH
  <2>1. text \in Seq(DigitsOf(10))
    <3>1. \A k \in 1 .. Len(text) : text[k] \in Digit
      BY <1>5 DEF IsDecimal
    <3>2. text \in Seq(Digit)
      BY <3>1, SeqOf
    <3>3. QED
      BY <3>2, DigitValues
  <2>2. /\ Denotes(text, 10) \in Nat
        /\ strtol(text, 10) = HeldByLong(Denotes(text, 10))
    BY <2>1, StrtolIs
  <2>3. Literal(text) = Denotes(text, 10)
    BY <1>5 DEF Literal, Magnitudes, Negative, Digits
  <2>4. IntegerOf(text) = ToInt(strtol(text, 10))
    BY <1>3, <1>5 DEF IntegerOf
  <2>5. QED
    BY <2>2, <2>3, <2>4
<1>6. CASE ~IsDecimal(text)
  <2> DEFINE s == SubSeq(text, 3, Len(text))
  <2>1. HasBaseMark(text) /\ text[1] # DASH /\ \A k \in 3 .. Len(text) : text[k] \in HexDigit
    BY <1>6 DEF IsHexadecimal
  <2>2. s \in Seq(DigitsOf(16))
    <3>1. Len(text) \in Nat /\ Len(text) >= 2
      BY <2>1 DEF HasBaseMark
    <3>2. s \in Seq(Chars)
      BY <3>1
    <3>3. \A k \in 1 .. Len(s) : s[k] \in HexDigit
      BY <2>1, <3>1
    <3>4. s \in Seq(HexDigit)
      BY <3>2, <3>3, SeqOf
    <3>5. QED
      BY <3>4, DigitValues
  <2>3. /\ Denotes(s, 16) \in Nat
        /\ strtol(s, 16) = HeldByLong(Denotes(s, 16))
    BY <2>2, StrtolIs
  <2>4. Literal(text) = Denotes(s, 16)
    BY <1>6, <2>1 DEF Literal, Magnitudes, Negative
  <2>5. IntegerOf(text) = ToInt(strtol(s, 16))
    BY <2>1 DEF IntegerOf
  <2>6. QED
    BY <2>3, <2>4, <2>5
<1>7. QED
  BY <1>4, <1>5, <1>6

\* Every literal the lexer accepts in one of the two notations reaches the
\* command as the number it denotes, modulo the width of an int and clamped
\* only where a long does not hold it.
THEOREM LiteralsReachCommands == Spec => []LiteralsDenote
<1>1. Init => IntegerTexts
  BY DEF Init, NoToken, IntegerTexts
<1>2. IInv /\ IntegerTexts => LiteralsDenote
  <2> SUFFICES ASSUME IInv, IntegerTexts, LiteralToken
               PROVE  ToUnsigned(IntegerOf(tok.text)) = HeldByLong(Literal(tok.text)) % IntMod
    BY DEF LiteralsDenote
  <2>1. tok.text \in Seq(Chars)
    BY DEF IInv, TypeOK
  <2>2. QED
    BY <2>1, LiteralIs DEF LiteralToken, IntegerToken, IntegerTexts
<1>3. QED
  BY <1>1, <1>2, IntegerTextsStep, IInvHolds, WordInvHolds, PTL DEF Spec
=============================================================================
