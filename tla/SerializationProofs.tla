------------------------ MODULE SerializationProofs ------------------------
(***************************************************************************)
(* The invariants of Serialization, for any types, however they are        *)
(* nested, any objects, any bytes that somebody else may write, any number *)
(* of values of a byte and any block: objects come back as they went in,   *)
(* both ways of measuring them agree, nothing is returned that was not     *)
(* there, and no vector is given more room than a block beyond its items.  *)
(*                                                                         *)
(* Three lemmas about every type carry them, each by induction on how deep *)
(* a type is nested: EveryTypeMeasured, EveryTypeSane and                  *)
(* EveryTypeFaithful.                                                      *)
(***************************************************************************)
EXTENDS Serialization, SequenceTheorems, WellFoundedInduction, TLAPS

-----------------------------------------------------------------------------
(***************************************************************************)
(* Recursions over numbers, which the functions of the templates are.      *)
(***************************************************************************)
(* A set of numbers that is not empty has a smallest.                      *)
LEMMA SmallestNumber ==
  ASSUME NEW T \in SUBSET Nat, T # {}
  PROVE  \E n \in T : \A m \in T : n <= m
<1> DEFINE R == {ss \in Nat \X Nat : ss[1] < ss[2]}
<1>1. IsWellFoundedOn(R, Nat)
  BY NatLessThanWellFounded DEF OpToRel
<1> HIDE DEF R
<1>2. PICK n \in T : \A m \in T : ~ (<<m, n>> \in R)
  BY <1>1, WFMin, Zenon
<1>3. ASSUME NEW m \in T PROVE n <= m
  <2>1. m \in Nat /\ n \in Nat
    OBVIOUS
  <2>2. ~ (m < n)
    BY <1>2, <2>1 DEF R
  <2> QED
    BY <2>1, <2>2
<1> QED
  BY <1>3

(* A set that holds 0, and with each number below n the next, holds all    *)
(* numbers up to n.                                                        *)
LEMMA NumbersUpTo ==
  ASSUME NEW n \in Nat, NEW S, 0 \in S, \A i \in 0 .. n - 1 : i \in S => i + 1 \in S
  PROVE  \A i \in 0 .. n : i \in S
<1> DEFINE T == {i \in 0 .. n : i \notin S}
<1>1. CASE T # {}
  <2>1. PICK i \in T : \A m \in T : i <= m
    <3>1. T \in SUBSET Nat
      OBVIOUS
    <3> HIDE DEF T
    <3> QED
      BY <1>1, <3>1, SmallestNumber
  <2>2. i # 0 /\ i - 1 \in 0 .. n - 1 /\ i - 1 \in 0 .. n /\ ~ (i <= i - 1)
    BY <2>1
  <2>3. i - 1 \in S
    BY <2>1, <2>2
  <2> QED
    BY <2>1, <2>2, <2>3
<1> QED
  BY <1>1

(* Steps that stay within a set of values, and a function that a recursion *)
(* of n such steps from a defines.                                         *)
StaysIn(V, n, step) == \A i \in 1 .. n, x \in V : step[i][x] \in V
Recurs(f, V, n, a, step) ==
  /\ f \in [0 .. n -> V]
  /\ f[0] = a
  /\ \A i \in 1 .. n : f[i] = step[i][f[i - 1]]

(* There is such a function.                                               *)
LEMMA Recursion ==
  ASSUME NEW n \in Nat, NEW V, NEW a \in V, NEW step, StaysIn(V, n, step)
  PROVE  \E f : Recurs(f, V, n, a, step)
<1> USE DEF StaysIn, Recurs
<1> DEFINE Good(f, m) == f[0] = a /\ \A i \in 1 .. m : f[i] = step[i][f[i - 1]]
           S == {m \in 0 .. n : \E f \in [0 .. m -> V] : Good(f, m)}
<1>1. 0 \in S
  <2> DEFINE f == [i \in 0 .. 0 |-> a]
  <2>1. f \in [0 .. 0 -> V] /\ f[0] = a
    OBVIOUS
  <2> HIDE DEF f
  <2>2. Good(f, 0)
    BY <2>1
  <2> QED
    BY <2>1, <2>2
<1>2. ASSUME NEW m \in 0 .. n - 1, m \in S PROVE m + 1 \in S
  <2>1. PICK f \in [0 .. m -> V] : Good(f, m)
    BY <1>2
  <2> DEFINE g == [i \in 0 .. m + 1 |-> IF i = m + 1 THEN step[m + 1][f[m]] ELSE f[i]]
  <2>2. g \in [0 .. m + 1 -> V]
    <3>1. step[m + 1][f[m]] \in V
      BY <2>1
    <3>2. \A i \in 0 .. m + 1 : i # m + 1 => f[i] \in V
      BY <2>1
    <3> QED
      BY <3>1, <3>2
  <2>3. g[0] = a
    BY <2>1
  <2>4. ASSUME NEW i \in 1 .. m + 1 PROVE g[i] = step[i][g[i - 1]]
    <3>1. i - 1 \in 0 .. m + 1 /\ i - 1 # m + 1 /\ g[i - 1] = f[i - 1]
      OBVIOUS
    <3>2. CASE i = m + 1
      <4>1. i - 1 = m /\ g[i] = step[m + 1][f[m]]
        BY <3>2
      <4> QED
        BY <3>1, <3>2, <4>1, Zenon
    <3>3. CASE i # m + 1
      <4>1. i \in 1 .. m /\ g[i] = f[i]
        BY <3>3
      <4> QED
        BY <2>1, <3>1, <4>1, Zenon
    <3> QED
      BY <3>2, <3>3
  <2> HIDE DEF g
  <2>5. Good(g, m + 1)
    BY <2>3, <2>4
  <2> QED
    BY <2>2, <2>5
<1>3. \A m \in 0 .. n : m \in S
  <2> HIDE DEF S
  <2> QED
    BY <1>1, <1>2, NumbersUpTo
<1>4. n \in 0 .. n
  OBVIOUS
<1> QED
  BY <1>3, <1>4
-----------------------------------------------------------------------------
(* The powers of Base: numbers above 0, each Base times the last.          *)
LEMMA PowerDef ==
  /\ Power[0] = 1
  /\ \A n \in 1 .. 8 : Power[n] = Base * Power[n - 1]
  /\ \A n \in 0 .. 8 : Power[n] \in Nat \ {0}
<1> DEFINE step == [n \in 1 .. 8 |-> [x \in Nat \ {0} |-> Base * x]]
<1>1. \A n \in 1 .. 8, x \in Nat \ {0} : step[n][x] = Base * x
  OBVIOUS
<1>2. \A x \in Nat \ {0} : Base * x \in Nat \ {0}
  <2>1. \A x, y \in Nat \ {0} : x * y \in Nat \ {0}
    OBVIOUS
  <2> QED
    BY <2>1, BaseAssumption
<1>3. \A n \in 1 .. 8, x \in Nat \ {0} : step[n][x] \in Nat \ {0}
  BY <1>1, <1>2
<1> HIDE DEF step
<1>4. PICK f \in [0 .. 8 -> Nat \ {0}] : f[0] = 1 /\ \A n \in 1 .. 8 : f[n] = step[n][f[n - 1]]
  <2>1. 8 \in Nat /\ 1 \in Nat \ {0}
    OBVIOUS
  <2>2. StaysIn(Nat \ {0}, 8, step)
    BY <1>3 DEF StaysIn
  <2>3. \E f : Recurs(f, Nat \ {0}, 8, 1, step)
    BY <2>1, <2>2, Recursion
  <2> QED
    BY <2>3 DEF Recurs
<1>5. f = [n \in 0 .. 8 |-> IF n = 0 THEN 1 ELSE Base * f[n - 1]]
  <2>1. ASSUME NEW n \in 0 .. 8, n # 0 PROVE f[n] = Base * f[n - 1]
    <3>1. n \in 1 .. 8 /\ n - 1 \in 0 .. 8
      BY <2>1
    <3> QED
      BY <1>1, <1>4, <3>1
  <2> QED
    BY <1>4, <2>1
<1>6. Power = [n \in 0 .. 8 |-> IF n = 0 THEN 1 ELSE Base * Power[n - 1]]
  BY <1>5, Zenon DEF Power
<1>7. \A n \in 1 .. 8 : Power[n] = Base * Power[n - 1]
  <2>1. ASSUME NEW n \in 1 .. 8 PROVE n \in 0 .. 8 /\ n # 0
    OBVIOUS
  <2> QED
    BY <1>6, <2>1, Zenon
<1>8. Power[0] = 1
  <2>1. 0 \in 0 .. 8
    OBVIOUS
  <2> QED
    BY <1>6, <2>1, Zenon
<1>9. \A n \in 0 .. 8 : Power[n] \in Nat \ {0}
  <2> DEFINE S == {n \in 0 .. 8 : Power[n] \in Nat \ {0}}
  <2>1. 0 \in S
    BY <1>8
  <2>2. ASSUME NEW n \in 0 .. 8 - 1, n \in S PROVE n + 1 \in S
    <3>1. n + 1 \in 1 .. 8 /\ (n + 1) - 1 = n /\ n + 1 \in 0 .. 8
      OBVIOUS
    <3>2. Power[n + 1] = Base * Power[n]
      BY <1>7, <3>1
    <3> QED
      BY <1>2, <2>2, <3>1, <3>2
  <2> HIDE DEF S
  <2>3. 8 \in Nat
    OBVIOUS
  <2>4. \A n \in 0 .. 8 : n \in S
    BY <2>1, <2>2, <2>3, NumbersUpTo
  <2> QED
    BY <2>4 DEF S
<1> QED
  BY <1>7, <1>8, <1>9

(* Division with remainder, for any divisor.                               *)
LEMMA DivMod ==
  ASSUME NEW n \in Nat, NEW b \in Nat \ {0}
  PROVE  /\ n \div b \in Nat /\ n % b \in 0 .. b - 1
         /\ n = (n % b) + b * (n \div b)
OBVIOUS

(* The quotient is the only number it can be.                              *)
LEMMA Quotient ==
  ASSUME NEW n \in Nat, NEW b \in Nat \ {0}, NEW q \in Nat,
         b * q <= n, n < b * (q + 1)
  PROVE  n \div b = q
<1> DEFINE d == n \div b
           r == n % b
<1>1. d \in Nat /\ r \in 0 .. b - 1 /\ n = r + b * d
  BY DivMod
<1> HIDE DEF d, r
<1>2. CASE d < q
  <2>1. \A x, y, z \in Nat : x + 1 <= y => z * (x + 1) <= z * y
    OBVIOUS
  <2>2. b * (d + 1) <= b * q
    BY <1>1, <1>2, <2>1
  <2>3. b * (d + 1) = b * d + b
    BY <1>1
  <2> QED
    BY <1>1, <2>2, <2>3
<1>3. CASE q < d
  <2>1. \A x, y, z \in Nat : x + 1 <= y => z * (x + 1) <= z * y
    OBVIOUS
  <2>2. b * (q + 1) <= b * d
    BY <1>1, <1>3, <2>1
  <2> QED
    BY <1>1, <2>2
<1>4. d = q
  BY <1>1, <1>2, <1>3
<1> QED
  BY <1>4 DEF d

(* Dividing by p and then by b is dividing by b * p.                       *)
LEMMA DivDiv ==
  ASSUME NEW n \in Nat, NEW p \in Nat \ {0}, NEW b \in Nat \ {0}
  PROVE  (n \div p) \div b = n \div (b * p)
<1> DEFINE d == n \div p
           q == d \div b
<1>1. d \in Nat /\ n % p \in 0 .. p - 1 /\ n = (n % p) + p * d
  BY DivMod
<1>2. q \in Nat /\ d % b \in 0 .. b - 1 /\ d = (d % b) + b * q
  <2> HIDE DEF d
  <2> QED
    BY <1>1, DivMod
<1> DEFINE r == n % p
           t == d % b
<1>3. r \in 0 .. p - 1 /\ t \in 0 .. b - 1
  BY <1>1, <1>2
<1>4. n = r + p * d /\ d = t + b * q
  BY <1>1, <1>2
<1> HIDE DEF d, q, r, t
<1>5. n = r + p * t + (b * p) * q
  BY <1>1, <1>2, <1>3, <1>4
<1>6. r + p * t < b * p
  <2>1. \A x, y, z \in Nat : x + 1 <= y => z * x + z <= y * z
    <3>1. \A x, y, z \in Nat : x + 1 <= y => (x + 1) * z <= y * z
      OBVIOUS
    <3>2. \A x, z \in Nat : (x + 1) * z = z * x + z
      OBVIOUS
    <3> QED
      BY <3>1, <3>2
  <2>2. p * t + p <= b * p
    BY <1>3, <2>1
  <2>3. p * t \in Nat /\ b * p \in Nat
    BY <1>3
  <2> QED
    BY <1>3, <2>2, <2>3
<1>7. b * p \in Nat \ {0} /\ (b * p) * q \in Nat /\ r + p * t \in Nat
  <2>1. \A x, y \in Nat \ {0} : x * y \in Nat \ {0}
    OBVIOUS
  <2>2. \A x, y \in Nat : x * y \in Nat
    OBVIOUS
  <2>3. b * p \in Nat \ {0}
    BY <2>1
  <2>4. p * t \in Nat
    BY <1>3, <2>2
  <2> QED
    BY <1>2, <1>3, <2>2, <2>3, <2>4
<1>8. (b * p) * (q + 1) = (b * p) * q + b * p
  BY <1>2, <1>7
<1>9. (b * p) * q <= n /\ n < (b * p) * (q + 1)
  BY <1>5, <1>6, <1>7, <1>8
<1>10. n \div (b * p) = q
  BY <1>2, <1>7, <1>9, Quotient
<1> QED
  BY <1>10 DEF q, d

(* A number smaller than the divisor.                                      *)
LEMMA DivSmall ==
  ASSUME NEW b \in Nat \ {0}, NEW n \in 0 .. b - 1
  PROVE  n \div b = 0
OBVIOUS
-----------------------------------------------------------------------------
(* A number is written in as many bytes as it has.                         *)
LEMMA BytesType ==
  ASSUME NEW n \in Nat, NEW size \in 0 .. 8
  PROVE  /\ Bytes(n, size) \in Seq(Byte) /\ Len(Bytes(n, size)) = size
         /\ \A i \in 1 .. size : Bytes(n, size)[i] = (n \div Power[i - 1]) % Base
<1>1. ASSUME NEW i \in 1 .. size PROVE (n \div Power[i - 1]) % Base \in Byte
  <2>1. Power[i - 1] \in Nat \ {0}
    <3>1. i - 1 \in 0 .. 8
      OBVIOUS
    <3> QED
      BY <3>1, PowerDef
  <2>2. n \div Power[i - 1] \in Nat
    BY <2>1, DivMod
  <2>3. Base \in Nat \ {0}
    BY BaseAssumption
  <2>4. (n \div Power[i - 1]) % Base \in 0 .. Base - 1
    BY <2>2, <2>3, DivMod
  <2> QED
    BY <2>4 DEF Byte
<1> QED
  BY <1>1 DEF Bytes

(* What the last n bytes make, for each n up to all of them.               *)
Makes(f, b) ==
  /\ f \in [0 .. Len(b) -> Nat]
  /\ f[0] = 0
  /\ \A n \in 1 .. Len(b) : f[n] = b[Len(b) - n + 1] + Base * f[n - 1]

(* The recursion of NumberOf is such a function.                           *)
LEMMA NumberDef ==
  ASSUME NEW b \in Seq(Byte)
  PROVE  \E f : Makes(f, b) /\ NumberOf(b) = f[Len(b)]
<1> DEFINE L == Len(b)
           step == [n \in 1 .. L |-> [x \in Nat |-> b[L - n + 1] + Base * x]]
<1>1. L \in Nat /\ \A n \in 1 .. L : b[L - n + 1] \in Nat
  <2>1. L \in Nat /\ \A i \in 1 .. L : b[i] \in Byte
    BY LenProperties, ElementOfSeq
  <2> HIDE DEF L
  <2>2. \A n \in 1 .. L : L - n + 1 \in 1 .. L
    BY <2>1
  <2> QED
    BY <2>1, <2>2, BaseAssumption DEF Byte
<1> HIDE DEF L
<1>2. \A n \in 1 .. L, x \in Nat : step[n][x] = b[L - n + 1] + Base * x
  OBVIOUS
<1>3. \A n \in 1 .. L, x \in Nat : b[L - n + 1] + Base * x \in Nat
  <2>1. \A x, y \in Nat : x * y \in Nat
    OBVIOUS
  <2>2. \A x \in Nat : Base * x \in Nat
    BY <2>1, BaseAssumption
  <2>3. ASSUME NEW n \in 1 .. L, NEW x \in Nat PROVE b[L - n + 1] + Base * x \in Nat
    <3>1. b[L - n + 1] \in Nat /\ Base * x \in Nat
      BY <1>1, <2>2
    <3> DEFINE y == b[L - n + 1]
               z == Base * x
    <3>2. y \in Nat /\ z \in Nat
      BY <3>1
    <3> HIDE DEF y, z
    <3>3. y + z \in Nat
      BY <3>2
    <3> QED
      BY <3>3 DEF y, z
  <2> QED
    BY <2>3
<1>4. StaysIn(Nat, L, step)
  BY <1>2, <1>3 DEF StaysIn
<1> HIDE DEF step
<1>5. PICK g : Recurs(g, Nat, L, 0, step)
  <2>1. 0 \in Nat
    OBVIOUS
  <2> QED
    BY <1>1, <1>4, <2>1, Recursion
<1>6. g = [n \in 0 .. L |-> IF n = 0 THEN 0 ELSE b[L - n + 1] + Base * g[n - 1]]
  <2>1. ASSUME NEW n \in 0 .. L, n # 0 PROVE g[n] = b[L - n + 1] + Base * g[n - 1]
    <3>1. n \in 1 .. L /\ n - 1 \in 0 .. L
      BY <1>1, <2>1
    <3>2. g[n] = step[n][g[n - 1]] /\ g[n - 1] \in Nat
      BY <1>5, <3>1 DEF Recurs
    <3> QED
      BY <1>2, <3>1, <3>2
  <2> QED
    BY <1>5, <2>1 DEF Recurs
<1> DEFINE f == CHOOSE f : f = [n \in 0 .. L |-> IF n = 0 THEN 0 ELSE b[L - n + 1] + Base * f[n - 1]]
<1>7. f = [n \in 0 .. L |-> IF n = 0 THEN 0 ELSE b[L - n + 1] + Base * f[n - 1]]
  BY <1>6, Zenon
<1>8. NumberOf(b) = f[L]
  BY Zenon DEF NumberOf, L
<1> HIDE DEF f
<1>9. f[0] = 0 /\ \A n \in 1 .. L : f[n] = b[L - n + 1] + Base * f[n - 1]
  <2>1. 0 \in 0 .. L /\ \A n \in 1 .. L : n \in 0 .. L /\ n # 0
    BY <1>1
  <2> QED
    BY <1>7, <2>1, Zenon
<1>10. \A n \in 0 .. L : f[n] \in Nat
  <2> DEFINE S == {n \in 0 .. L : f[n] \in Nat}
  <2>1. 0 \in S
    BY <1>1, <1>9
  <2>2. ASSUME NEW n \in 0 .. L - 1, n \in S PROVE n + 1 \in S
    <3>1. n + 1 \in 1 .. L /\ (n + 1) - 1 = n /\ n + 1 \in 0 .. L /\ f[n] \in Nat
      BY <1>1, <2>2
    <3>2. f[n + 1] = b[L - (n + 1) + 1] + Base * f[n]
      BY <1>9, <3>1
    <3> QED
      BY <1>3, <3>1, <3>2
  <2> HIDE DEF S
  <2>3. \A n \in 0 .. L : n \in S
    BY <1>1, <2>1, <2>2, NumbersUpTo
  <2> QED
    BY <2>3 DEF S
<1>11. Makes(f, b)
  <2>1. f \in [0 .. L -> Nat]
    BY <1>7, <1>10
  <2> QED
    BY <1>9, <2>1 DEF Makes, L
<1> QED
  BY <1>8, <1>11 DEF L

(* Bytes make a number, below what so many bytes can make.                 *)
LEMMA NumberOfType ==
  ASSUME NEW b \in Seq(Byte), Len(b) \in 0 .. 8
  PROVE  NumberOf(b) \in 0 .. Power[Len(b)] - 1
<1>1. PICK f : Makes(f, b) /\ NumberOf(b) = f[Len(b)]
  BY NumberDef
<1> DEFINE L == Len(b)
           S == {n \in 0 .. L : f[n] < Power[n]}
<1>2. L \in 0 .. 8 /\ \A n \in 0 .. L : f[n] \in Nat
  BY <1>1 DEF Makes
<1>1a. b \in Seq(Byte) /\ Len(b) = L
  OBVIOUS
<1> HIDE DEF L
<1>3. 0 \in S
  <2>1. f[0] = 0 /\ Power[0] = 1
    BY <1>1, PowerDef DEF Makes
  <2> QED
    BY <1>2, <2>1
<1>4. ASSUME NEW n \in 0 .. L - 1, n \in S PROVE n + 1 \in S
  <2>1. n + 1 \in 1 .. L /\ (n + 1) - 1 = n /\ n + 1 \in 0 .. L /\ n + 1 \in 1 .. 8
        /\ n \in 0 .. 8 /\ n \in 0 .. L
    BY <1>2
  <2>2. f[n + 1] = b[L - (n + 1) + 1] + Base * f[n] /\ Power[n + 1] = Base * Power[n]
    BY <1>1, <2>1, PowerDef DEF Makes, L
  <2>3. b[L - (n + 1) + 1] \in Byte
    <3>1. L - (n + 1) + 1 \in 1 .. L
      BY <1>2
    <3> QED
      BY <1>1a, <3>1, ElementOfSeq
  <2>4. f[n] \in Nat /\ Power[n] \in Nat /\ f[n] + 1 <= Power[n]
    <3>1. f[n] \in Nat /\ Power[n] \in Nat
      BY <1>2, <2>1, PowerDef
    <3>2. f[n] < Power[n]
      BY <1>4
    <3> QED
      BY <3>1, <3>2
  <2> DEFINE x == f[n]
             p == Power[n]
             c == b[L - (n + 1) + 1]
  <2>5. c \in 0 .. Base - 1 /\ x \in Nat /\ p \in Nat /\ x + 1 <= p
    BY <2>3, <2>4 DEF Byte
  <2> HIDE DEF x, p, c
  <2>6. c + Base * x < Base * p
    <3>1. \A y, z, w \in Nat : y + 1 <= z => w * (y + 1) <= w * z
      OBVIOUS
    <3>2. Base * (x + 1) <= Base * p
      BY <2>5, <3>1, BaseAssumption
    <3>3. Base * (x + 1) = Base * x + Base
      BY <2>5, BaseAssumption
    <3> QED
      BY <2>5, <3>2, <3>3, BaseAssumption
  <2> QED
    BY <2>1, <2>2, <2>6 DEF x, p, c
<1> HIDE DEF S
<1>5. \A n \in 0 .. L : n \in S
  <2>1. L \in Nat
    BY <1>2
  <2> QED
    BY <1>3, <1>4, <2>1, NumbersUpTo
<1>6. f[L] < Power[L] /\ f[L] \in Nat /\ Power[L] \in Nat
  <2>1. L \in 0 .. L
    BY <1>2
  <2> QED
    BY <1>2, <1>5, <2>1, PowerDef DEF S
<1>7. NumberOf(b) = f[L]
  BY <1>1 DEF L
<1>8. NumberOf(b) \in 0 .. Power[L] - 1
  BY <1>6, <1>7
<1> QED
  BY <1>1a, <1>8

(* A number is what its bytes make: READDATA undoes WRITEDATA.             *)
LEMMA NumberOfBytes ==
  ASSUME NEW size \in 0 .. 8, NEW n \in 0 .. Power[size] - 1
  PROVE  NumberOf(Bytes(n, size)) = n
<1> DEFINE b == Bytes(n, size)
<1>1. n \in Nat
  BY PowerDef
<1>2. b \in Seq(Byte) /\ Len(b) = size
      /\ \A i \in 1 .. size : b[i] = (n \div Power[i - 1]) % Base
  BY <1>1, BytesType
<1> HIDE DEF b
<1>3. PICK f : Makes(f, b) /\ NumberOf(b) = f[Len(b)]
  BY <1>2, NumberDef
<1> DEFINE S == {k \in 0 .. size : f[k] = n \div Power[size - k]}
<1>4. 0 \in S
  <2>1. f[0] = 0
    BY <1>3 DEF Makes
  <2>2. n \div Power[size] = 0
    BY DivSmall, PowerDef
  <2> QED
    BY <2>1, <2>2
<1>5. ASSUME NEW k \in 0 .. size - 1, k \in S PROVE k + 1 \in S
  <2> DEFINE j == size - (k + 1)
  <2>1. j \in 0 .. 8 /\ j + 1 \in 1 .. size /\ j + 1 \in 1 .. 8 /\ (j + 1) - 1 = j
        /\ size - k = j + 1 /\ k + 1 \in 1 .. size /\ (k + 1) - 1 = k
        /\ size - (k + 1) + 1 = j + 1 /\ k + 1 \in 0 .. size
    OBVIOUS
  <2> HIDE DEF j
  <2> DEFINE q == n \div Power[j]
  <2>2. f[k + 1] = b[j + 1] + Base * f[k]
    BY <1>2, <1>3, <2>1 DEF Makes
  <2>3. b[j + 1] = q % Base
    BY <1>2, <2>1
  <2>4. Power[j] \in Nat \ {0} /\ Power[j + 1] = Base * Power[j]
    BY <2>1, PowerDef
  <2>5. f[k] = q \div Base
    <3>1. f[k] = n \div Power[j + 1]
      BY <1>5, <2>1
    <3>2. (n \div Power[j]) \div Base = n \div (Base * Power[j])
      BY <1>1, <2>4, DivDiv, BaseAssumption
    <3> QED
      BY <2>4, <3>1, <3>2
  <2>6. q \in Nat
    BY <1>1, <2>4, DivMod
  <2> HIDE DEF q
  <2>7. q = (q % Base) + Base * (q \div Base)
    BY <2>6, DivMod, BaseAssumption
  <2>8. f[k + 1] = q
    BY <2>2, <2>3, <2>5, <2>7
  <2> QED
    BY <2>1, <2>8 DEF q, j
<1> HIDE DEF S
<1>6. size \in S
  <2>1. size \in Nat /\ size \in 0 .. size
    OBVIOUS
  <2>2. \A k \in 0 .. size : k \in S
    BY <1>4, <1>5, <2>1, NumbersUpTo
  <2> QED
    BY <2>1, <2>2
<1>7. f[size] = n
  <2>1. size - size = 0 /\ n \div 1 = n
    BY <1>1
  <2> QED
    BY <1>6, <2>1, PowerDef DEF S
<1> QED
  BY <1>2, <1>3, <1>7 DEF b

-----------------------------------------------------------------------------
(***************************************************************************)
(* Compact sizes, and what a read of the stream returns.                   *)
(***************************************************************************)
(* The largest values of the sizes of numbers, in their order.             *)
LEMMA Limits ==
  /\ Base \in Nat /\ Base > 3
  /\ USHRT_MAX \in Nat /\ UINT_MAX \in Nat
  /\ UCHAR_MAX < USHRT_MAX /\ USHRT_MAX < UINT_MAX
  /\ Power[1] = Base /\ Power[2] = USHRT_MAX + 1 /\ Power[4] = UINT_MAX + 1
<1>1. Base \in Nat /\ Base > 3
  BY BaseAssumption
<1>2. \A x \in Nat \ {0} : x < Base * x
  <2>1. \A x, y \in Nat \ {0} : y > 1 => x < y * x
    OBVIOUS
  <2> QED
    BY <1>1, <2>1
<1>3. /\ Power[0] = 1 /\ Power[1] = Base * Power[0] /\ Power[2] = Base * Power[1]
      /\ Power[3] = Base * Power[2] /\ Power[4] = Base * Power[3]
  <2>1. /\ 1 - 1 = 0 /\ 2 - 1 = 1 /\ 3 - 1 = 2 /\ 4 - 1 = 3
        /\ 1 \in 1 .. 8 /\ 2 \in 1 .. 8 /\ 3 \in 1 .. 8 /\ 4 \in 1 .. 8
    OBVIOUS
  <2> QED
    BY <2>1, PowerDef
<1>4. Power[1] \in Nat \ {0} /\ Power[2] \in Nat \ {0} /\ Power[3] \in Nat \ {0}
      /\ Power[4] \in Nat \ {0}
  BY PowerDef
<1>5. Power[1] = Base
  BY <1>1, <1>3
<1>6. Power[1] < Power[2] /\ Power[2] < Power[3] /\ Power[3] < Power[4]
  BY <1>2, <1>3, <1>4
<1> QED
  BY <1>1, <1>4, <1>5, <1>6 DEF UCHAR_MAX, USHRT_MAX, UINT_MAX

(* A compact size is as long as GetSizeOfCompactSize says.                 *)
LEMMA CompactSizeType ==
  ASSUME NEW n \in Nat
  PROVE  /\ WriteCompactSize(n) \in Seq(Byte)
         /\ Len(WriteCompactSize(n)) = GetSizeOfCompactSize(n)
<1>1. UCHAR_MAX \in Byte /\ UCHAR_MAX - 1 \in Byte /\ UCHAR_MAX - 2 \in Byte
  BY Limits DEF UCHAR_MAX, Byte
<1>2. ASSUME NEW c \in Byte, NEW size \in 0 .. 8
      PROVE  /\ <<c>> \o Bytes(n, size) \in Seq(Byte)
             /\ Len(<<c>> \o Bytes(n, size)) = 1 + size
  <2>1. <<c>> \in Seq(Byte) /\ Len(<<c>>) = 1
    OBVIOUS
  <2>2. Bytes(n, size) \in Seq(Byte) /\ Len(Bytes(n, size)) = size
    BY BytesType
  <2> QED
    BY <2>1, <2>2, ConcatProperties
<1>3. 1 \in 0 .. 8 /\ 2 \in 0 .. 8 /\ 4 \in 0 .. 8 /\ 8 \in 0 .. 8
  OBVIOUS
<1>4. CASE n < UCHAR_MAX - 2
  BY <1>3, <1>4, BytesType DEF WriteCompactSize, GetSizeOfCompactSize
<1>5. CASE ~ (n < UCHAR_MAX - 2) /\ n <= USHRT_MAX
  BY <1>1, <1>2, <1>3, <1>5 DEF WriteCompactSize, GetSizeOfCompactSize
<1>6. CASE ~ (n < UCHAR_MAX - 2) /\ ~ (n <= USHRT_MAX) /\ n <= UINT_MAX
  BY <1>1, <1>2, <1>3, <1>6 DEF WriteCompactSize, GetSizeOfCompactSize
<1>7. CASE ~ (n < UCHAR_MAX - 2) /\ ~ (n <= USHRT_MAX) /\ ~ (n <= UINT_MAX)
  BY <1>1, <1>2, <1>3, <1>7 DEF WriteCompactSize, GetSizeOfCompactSize
<1> QED
  BY <1>4, <1>5, <1>6, <1>7

(* A larger size takes no fewer bytes.                                     *)
LEMMA CompactSizeGrows ==
  ASSUME NEW m \in Nat, NEW n \in Nat, m <= n
  PROVE  /\ GetSizeOfCompactSize(m) \in Nat /\ GetSizeOfCompactSize(n) \in Nat
         /\ GetSizeOfCompactSize(m) <= GetSizeOfCompactSize(n)
BY Limits DEF GetSizeOfCompactSize, UCHAR_MAX
-----------------------------------------------------------------------------
(* A read that came to its end, with what and where, and one that threw.   *)
Came(r, value, at) == r.ok /\ r.value = value /\ r.at = at /\ r.room = 0
Threw(r, at) == ~ r.ok /\ r.at = at /\ r.room = 0

(* Results say so.                                                         *)
LEMMA ResultCame ==
  ASSUME NEW value, NEW at
  PROVE  Came(Result(TRUE, value, at, 0), value, at)
BY DEF Came, Result

(* A result that says it threw.                                            *)
LEMMA ResultThrew ==
  ASSUME NEW value, NEW at
  PROVE  Threw(Result(FALSE, value, at, 0), at)
BY DEF Threw, Result

(* With changes the value only.                                            *)
LEMMA WithFields ==
  ASSUME NEW r, NEW other
  PROVE  /\ With(r, other).ok = r.ok /\ With(r, other).value = other
         /\ With(r, other).at = r.at /\ With(r, other).room = r.room
BY DEF With, Result

(* So a read that came to its end did so with the other value.             *)
LEMMA WithCame ==
  ASSUME NEW r, NEW value, NEW at, NEW other, Came(r, value, at)
  PROVE  Came(With(r, other), other, at)
BY DEF With, Came, Result

(* A read of n bytes: all of them, or none where they are not there.       *)
LEMMA ReadDef ==
  ASSUME NEW s \in Seq(Byte), NEW at \in 0 .. Len(s), NEW n \in Nat
  PROVE  IF at + n <= Len(s)
         THEN \E v \in Seq(Byte) :
                /\ Came(read(s, at, n), v, at + n)
                /\ Len(v) = n /\ \A i \in 1 .. n : v[i] = s[at + i]
         ELSE Threw(read(s, at, n), at)
<1>1. Len(s) \in Nat
  BY LenProperties
<1> DEFINE v == SubSeq(s, at + 1, at + n)
<1>2. CASE at + n <= Len(s)
  <2>1. \A i \in at + 1 .. at + n : s[i] \in Byte
    <3>1. \A i \in at + 1 .. at + n : i \in 1 .. Len(s)
      BY <1>1, <1>2
    <3> QED
      BY <3>1, ElementOfSeq
  <2>2. /\ v \in Seq(Byte)
        /\ Len(v) = (IF at + 1 <= at + n THEN at + n - (at + 1) + 1 ELSE 0)
        /\ \A i \in 1 .. at + n - (at + 1) + 1 : v[i] = s[at + 1 + i - 1]
    <3>1. at + 1 \in Int /\ at + n \in Int
      BY <1>1
    <3> QED
      BY <2>1, <3>1, SubSeqProperties
  <2> HIDE DEF v
  <2>3. Len(v) = n /\ \A i \in 1 .. n : v[i] = s[at + i]
    <3>1. at + n - (at + 1) + 1 = n /\ \A i \in 1 .. n : at + 1 + i - 1 = at + i
      BY <1>1
    <3> QED
      BY <1>1, <2>2, <3>1
  <2>4. Came(read(s, at, n), v, at + n)
    <3>1. ~ (at + n > Len(s))
      BY <1>1, <1>2
    <3>2. read(s, at, n) = Result(TRUE, v, at + n, 0)
      BY <3>1, Zenon DEF read, v
    <3> QED
      BY <3>2, ResultCame, Zenon
  <2> QED
    BY <1>2, <2>2, <2>3, <2>4
<1>3. CASE ~ (at + n <= Len(s))
  <2>1. at + n > Len(s)
    BY <1>1, <1>3
  <2>2. read(s, at, n) = Result(FALSE, <<>>, at, 0)
    BY <2>1, Zenon DEF read
  <2>3. Threw(read(s, at, n), at)
    BY <2>2, ResultThrew, Zenon
  <2> QED
    BY <1>3, <2>3
<1> QED
  BY <1>2, <1>3

(* A read of a number.                                                     *)
LEMMA ReadNumberDef ==
  ASSUME NEW s \in Seq(Byte), NEW at \in 0 .. Len(s), NEW size \in 1 .. 8
  PROVE  IF at + size <= Len(s)
         THEN \E b \in Seq(Byte) :
                /\ Came(ReadNumber(s, at, size), NumberOf(b), at + size)
                /\ NumberOf(b) \in 0 .. Power[size] - 1
                /\ Len(b) = size /\ \A i \in 1 .. size : b[i] = s[at + i]
         ELSE Threw(ReadNumber(s, at, size), at)
<1> DEFINE r == read(s, at, size)
<1>1. size \in Nat /\ size \in 0 .. 8
  OBVIOUS
<1>2. CASE at + size <= Len(s)
  <2>1. PICK b \in Seq(Byte) :
               /\ Came(r, b, at + size)
               /\ Len(b) = size /\ \A i \in 1 .. size : b[i] = s[at + i]
    BY <1>1, <1>2, ReadDef
  <2>2. NumberOf(b) \in 0 .. Power[size] - 1
    BY <1>1, <2>1, NumberOfType
  <2>3. ReadNumber(s, at, size) = With(r, NumberOf(b))
    BY <2>1, Zenon DEF ReadNumber, Came
  <2>4. Came(ReadNumber(s, at, size), NumberOf(b), at + size)
    BY <2>1, <2>3, WithCame, Zenon
  <2> QED
    BY <1>2, <2>1, <2>2, <2>4
<1>3. CASE ~ (at + size <= Len(s))
  <2>1. Threw(r, at)
    BY <1>1, <1>3, ReadDef
  <2>2. ReadNumber(s, at, size) = r
    BY <2>1, Zenon DEF ReadNumber, Threw
  <2> QED
    BY <1>3, <2>1, <2>2
<1> QED
  BY <1>2, <1>3

(* The bytes of x stand in s behind at, as far as s goes.                  *)
Carries(s, at, x) == \A i \in 1 .. Len(x) : at + i <= Len(s) => s[at + i] = x[i]

(* A read gives back the value that x stands for if all of x is there, and *)
(* throws if it is not.                                                    *)
Restores(r, s, at, x, value) ==
  IF at + Len(x) <= Len(s) THEN r.ok /\ r.value = value /\ r.at = at + Len(x) ELSE ~ r.ok

(* What stands behind at does so part by part.                             *)
LEMMA CarriesConcat ==
  ASSUME NEW s \in Seq(Byte), NEW at \in Nat, NEW x \in Seq(Byte), NEW y \in Seq(Byte),
         Carries(s, at, x \o y)
  PROVE  Carries(s, at, x) /\ Carries(s, at + Len(x), y)
<1> DEFINE xy == x \o y
<1>1. /\ Len(x) \in Nat /\ Len(y) \in Nat /\ Len(xy) = Len(x) + Len(y)
      /\ \A i \in 1 .. Len(x) + Len(y) : xy[i] = IF i <= Len(x) THEN x[i] ELSE y[i - Len(x)]
  BY LenProperties, ConcatProperties
<1>2. \A i \in 1 .. Len(xy) : at + i <= Len(s) => s[at + i] = xy[i]
  BY Zenon DEF Carries
<1>3. Len(s) \in Nat
  BY LenProperties
<1> HIDE DEF xy
<1>4. ASSUME NEW i \in 1 .. Len(x), at + i <= Len(s) PROVE s[at + i] = x[i]
  <2>1. i \in 1 .. Len(x) + Len(y) /\ i <= Len(x)
    BY <1>1
  <2> QED
    BY <1>1, <1>2, <1>4, <2>1
<1>5. ASSUME NEW i \in 1 .. Len(y), at + Len(x) + i <= Len(s)
      PROVE  s[at + Len(x) + i] = y[i]
  <2> DEFINE j == Len(x) + i
  <2>1. j \in 1 .. Len(x) + Len(y) /\ ~ (j <= Len(x)) /\ j - Len(x) = i /\ at + j = at + Len(x) + i
    BY <1>1
  <2> HIDE DEF j
  <2> QED
    BY <1>1, <1>2, <1>5, <2>1
<1> QED
  BY <1>4, <1>5 DEF Carries

(* A block of bytes is read back.                                          *)
LEMMA ReadRestores ==
  ASSUME NEW s \in Seq(Byte), NEW at \in 0 .. Len(s), NEW x \in Seq(Byte), Carries(s, at, x)
  PROVE  Restores(read(s, at, Len(x)), s, at, x, x)
<1> DEFINE r == read(s, at, Len(x))
<1>1. Len(x) \in Nat
  BY LenProperties
<1>2. CASE at + Len(x) <= Len(s)
  <2>1. PICK v \in Seq(Byte) :
          /\ Came(r, v, at + Len(x))
          /\ Len(v) = Len(x) /\ \A i \in 1 .. Len(x) : v[i] = s[at + i]
    BY <1>1, <1>2, ReadDef
  <2>2. \A i \in 1 .. Len(v) : v[i] = x[i]
    <3>1. \A i \in 1 .. Len(x) : at + i <= Len(s)
      BY <1>1, <1>2, LenProperties
    <3> QED
      BY <2>1, <3>1 DEF Carries
  <2>3. v = x
    BY <2>1, <2>2, SeqEqual
  <2> HIDE DEF r
  <2>4. Restores(r, s, at, x, x)
    BY <1>2, <2>1, <2>3 DEF Came, Restores
  <2> QED
    BY <2>4 DEF r
<1>3. CASE ~ (at + Len(x) <= Len(s))
  <2>1. Threw(r, at)
    BY <1>1, <1>3, ReadDef
  <2> HIDE DEF r
  <2>2. Restores(r, s, at, x, x)
    BY <1>3, <2>1 DEF Threw, Restores
  <2> QED
    BY <2>2 DEF r
<1> QED
  BY <1>2, <1>3

(* A number is read back.                                                  *)
LEMMA ReadNumberRestores ==
  ASSUME NEW s \in Seq(Byte), NEW at \in 0 .. Len(s),
         NEW size \in 1 .. 8, NEW n \in 0 .. Power[size] - 1, Carries(s, at, Bytes(n, size))
  PROVE  Restores(ReadNumber(s, at, size), s, at, Bytes(n, size), n)
<1> DEFINE r == ReadNumber(s, at, size)
           x == Bytes(n, size)
<1>1. size \in 0 .. 8 /\ n \in Nat
  BY PowerDef
<1>2. x \in Seq(Byte) /\ Len(x) = size
  BY <1>1, BytesType
<1>3. NumberOf(x) = n
  BY <1>1, NumberOfBytes
<1>4. CASE at + size <= Len(s)
  <2>1. PICK b \in Seq(Byte) :
          /\ Came(r, NumberOf(b), at + size)
          /\ Len(b) = size /\ \A i \in 1 .. size : b[i] = s[at + i]
    BY <1>1, <1>4, ReadNumberDef
  <2> HIDE DEF x, r
  <2>2. \A i \in 1 .. Len(b) : b[i] = x[i]
    <3>1. \A i \in 1 .. size : at + i <= Len(s)
      BY <1>1, <1>4, LenProperties
    <3>2. \A i \in 1 .. size : at + i <= Len(s) => s[at + i] = x[i]
      BY <1>2 DEF Carries, x
    <3> QED
      BY <2>1, <3>1, <3>2
  <2>3. b = x
    BY <1>2, <2>1, <2>2, SeqEqual
  <2>4. Restores(r, s, at, x, n)
    BY <1>2, <1>3, <1>4, <2>1, <2>3 DEF Came, Restores
  <2> QED
    BY <2>4 DEF r, x
<1>5. CASE ~ (at + size <= Len(s))
  <2>1. Threw(r, at)
    BY <1>1, <1>5, ReadNumberDef
  <2> HIDE DEF x, r
  <2>2. Restores(r, s, at, x, n)
    BY <1>2, <1>5, <2>1 DEF Threw, Restores
  <2> QED
    BY <2>2 DEF r, x
<1> QED
  BY <1>4, <1>5

(* A number of one byte.                                                   *)
LEMMA OneByte ==
  ASSUME NEW c \in Byte
  PROVE  c \in 0 .. Power[1] - 1 /\ Bytes(c, 1) = <<c>>
<1>1. c \in 0 .. Base - 1 /\ Power[1] = Base /\ Power[0] = 1 /\ Base \in Nat \ {0} /\ c \in Nat
  BY Limits, PowerDef DEF Byte
<1>2. Bytes(c, 1) \in Seq(Byte) /\ Len(Bytes(c, 1)) = 1 /\ Bytes(c, 1)[1] = (c \div Power[1 - 1]) % Base
  <2>1. 1 \in 0 .. 8
    OBVIOUS
  <2> QED
    BY <1>1, <2>1, BytesType
<1>3. (c \div 1) % Base = c
  BY <1>1
<1>4. 1 - 1 = 0
  OBVIOUS
<1>5. Bytes(c, 1)[1] = c
  BY <1>1, <1>2, <1>3, <1>4
<1>6. <<c>> \in Seq(Byte) /\ Len(<<c>>) = 1
  OBVIOUS
<1> QED
  BY <1>1, <1>2, <1>5, <1>6, SeqEqual

(* A number behind a code of one byte.                                     *)
LEMMA CodedRestores ==
  ASSUME NEW s \in Seq(Byte), NEW at \in 0 .. Len(s), NEW c \in Byte,
         NEW size \in 1 .. 8, NEW n \in 0 .. Power[size] - 1,
         Carries(s, at, <<c>> \o Bytes(n, size))
  PROVE  LET first == ReadNumber(s, at, 1)
             r     == ReadNumber(s, first.at, size)
         IN  IF at + 1 <= Len(s)
             THEN first.ok /\ first.value = c /\ Restores(r, s, at, <<c>> \o Bytes(n, size), n)
             ELSE ~ first.ok
<1> DEFINE first == ReadNumber(s, at, 1)
           x     == Bytes(n, size)
<1>1. 1 \in 1 .. 8 /\ 1 \in 0 .. 8 /\ size \in 0 .. 8 /\ n \in Nat /\ at \in Nat /\ Len(s) \in Nat
  BY PowerDef, LenProperties
<1>2. x \in Seq(Byte) /\ Len(x) = size
  BY <1>1, BytesType
<1>3. <<c>> \in Seq(Byte) /\ Len(<<c>>) = 1
  OBVIOUS
<1>4. Len(<<c>> \o x) = 1 + size
  BY <1>2, <1>3, ConcatProperties
<1>5. Carries(s, at, <<c>>) /\ Carries(s, at + 1, x)
  BY <1>1, <1>2, <1>3, CarriesConcat
<1>6. c \in 0 .. Power[1] - 1 /\ Bytes(c, 1) = <<c>>
  BY OneByte
<1>7. Restores(first, s, at, <<c>>, c)
  <2>1. Restores(ReadNumber(s, at, 1), s, at, Bytes(c, 1), c)
    BY <1>1, <1>5, <1>6, ReadNumberRestores
  <2> QED
    BY <1>6, <2>1
<1> HIDE DEF first
<1>8. CASE at + 1 <= Len(s)
  <2>1. first.ok /\ first.value = c /\ first.at = at + 1
    BY <1>3, <1>7, <1>8 DEF Restores
  <2>2. at + 1 \in 0 .. Len(s)
    BY <1>1, <1>8
  <2>3. Restores(ReadNumber(s, at + 1, size), s, at + 1, x, n)
    BY <1>5, <2>2, ReadNumberRestores
  <2> DEFINE r == ReadNumber(s, first.at, size)
             cx == <<c>> \o x
  <2>4. Restores(r, s, at + 1, x, n)
    BY <2>1, <2>3
  <2>5. Len(cx) = 1 + size
    BY <1>4
  <2> HIDE DEF r, cx, x
  <2>6. Restores(r, s, at, cx, n)
    BY <1>1, <1>2, <2>4, <2>5 DEF Restores
  <2> QED
    BY <1>8, <2>1, <2>6 DEF r, cx, x, first
<1>9. CASE ~ (at + 1 <= Len(s))
  <2>1. ~ first.ok
    BY <1>3, <1>7, <1>9 DEF Restores
  <2> QED
    BY <1>9, <2>1 DEF first
<1> QED
  BY <1>8, <1>9

(* A compact size is read back: by the first byte, one of four widths.     *)
LEMMA ReadCompactSizeRestores ==
  ASSUME NEW s \in Seq(Byte), NEW at \in 0 .. Len(s), NEW n \in 0 .. UINT_MAX,
         Carries(s, at, WriteCompactSize(n))
  PROVE  Restores(ReadCompactSize(s, at), s, at, WriteCompactSize(n), n)
<1> DEFINE chSize == ReadNumber(s, at, 1)
           r      == ReadCompactSize(s, at)
<1>1. /\ UCHAR_MAX \in Nat /\ UCHAR_MAX - 1 \in Byte /\ UCHAR_MAX - 2 \in Byte /\ n \in Nat
      /\ UCHAR_MAX - 1 # UCHAR_MAX - 2 /\ 1 \in 1 .. 8 /\ 2 \in 1 .. 8 /\ 4 \in 1 .. 8
  BY Limits DEF UCHAR_MAX, Byte
<1>2. CASE n < UCHAR_MAX - 2
  <2>1. WriteCompactSize(n) = Bytes(n, 1)
    BY <1>2, Zenon DEF WriteCompactSize
  <2>2. n \in 0 .. Power[1] - 1
    BY <1>2, Limits DEF UCHAR_MAX
  <2>3. Restores(chSize, s, at, Bytes(n, 1), n)
    BY <1>1, <2>1, <2>2, ReadNumberRestores
  <2>4. ~ chSize.ok \/ chSize.value < UCHAR_MAX - 2
    <3> HIDE DEF chSize
    <3> QED
      BY <1>2, <2>3 DEF Restores
  <2>5. r = chSize
    BY <2>4, Zenon DEF ReadCompactSize
  <2> QED
    BY <2>1, <2>3, <2>5
<1>3. ASSUME NEW c \in Byte, NEW size \in 1 .. 8, n \in 0 .. Power[size] - 1,
             WriteCompactSize(n) = <<c>> \o Bytes(n, size), c \in Nat, ~ (c < UCHAR_MAX - 2),
             chSize.ok /\ chSize.value = c => r = ReadNumber(s, chSize.at, size)
      PROVE  Restores(r, s, at, WriteCompactSize(n), n)
  <2> DEFINE x == <<c>> \o Bytes(n, size)
             q == ReadNumber(s, chSize.at, size)
  <2>1. IF at + 1 <= Len(s) THEN chSize.ok /\ chSize.value = c /\ Restores(q, s, at, x, n)
                            ELSE ~ chSize.ok
    BY <1>3, CodedRestores
  <2>2. CASE at + 1 <= Len(s)
    BY <1>3, <2>1, <2>2
  <2>3. CASE ~ (at + 1 <= Len(s))
    <3>1. ~ chSize.ok
      BY <2>1, <2>3
    <3>2. r = chSize
      BY <3>1, Zenon DEF ReadCompactSize
    <3>3. ~ r.ok
      BY <3>1, <3>2
    <3>4. Len(WriteCompactSize(n)) \in Nat /\ Len(WriteCompactSize(n)) >= 1
      <4>1. Len(WriteCompactSize(n)) = GetSizeOfCompactSize(n)
        BY <1>1, CompactSizeType
      <4> QED
        BY <4>1 DEF GetSizeOfCompactSize
    <3>5. ~ (at + Len(WriteCompactSize(n)) <= Len(s))
      <4>1. at \in Nat /\ Len(s) \in Nat
        BY LenProperties
      <4> QED
        BY <2>3, <3>4, <4>1
    <3> QED
      BY <3>3, <3>5, Zenon DEF Restores
  <2> QED
    BY <2>2, <2>3
<1>4. CASE ~ (n < UCHAR_MAX - 2) /\ n <= USHRT_MAX
  <2>1. WriteCompactSize(n) = <<UCHAR_MAX - 2>> \o Bytes(n, 2)
    BY <1>4, Zenon DEF WriteCompactSize
  <2>2. n \in 0 .. Power[2] - 1
    BY <1>4, Limits
  <2>3. ~ (UCHAR_MAX - 2 < UCHAR_MAX - 2) /\ UCHAR_MAX - 2 \in Nat
    BY <1>1, Limits DEF UCHAR_MAX
  <2>4. chSize.ok /\ chSize.value = UCHAR_MAX - 2 => r = ReadNumber(s, chSize.at, 2)
    BY <2>3, Zenon DEF ReadCompactSize
  <2> HIDE DEF r, chSize
  <2>5. Restores(r, s, at, WriteCompactSize(n), n)
    BY <1>1, <1>3, <2>1, <2>2, <2>3, <2>4
  <2> QED
    BY <2>5 DEF r
<1>5. CASE ~ (n < UCHAR_MAX - 2) /\ ~ (n <= USHRT_MAX)
  <2>1. WriteCompactSize(n) = <<UCHAR_MAX - 1>> \o Bytes(n, 4)
    <3>1. n <= UINT_MAX
      OBVIOUS
    <3> QED
      BY <1>5, <3>1, Zenon DEF WriteCompactSize
  <2>2. n \in 0 .. Power[4] - 1
    BY <1>5, Limits
  <2>3. ~ (UCHAR_MAX - 1 < UCHAR_MAX - 2) /\ UCHAR_MAX - 1 \in Nat
    BY <1>1, Limits DEF UCHAR_MAX
  <2>4. chSize.ok /\ chSize.value = UCHAR_MAX - 1 => r = ReadNumber(s, chSize.at, 4)
    BY <1>1, <2>3, Zenon DEF ReadCompactSize
  <2> HIDE DEF r, chSize
  <2>5. Restores(r, s, at, WriteCompactSize(n), n)
    BY <1>1, <1>3, <2>1, <2>2, <2>3, <2>4
  <2> QED
    BY <2>5 DEF r
<1> QED
  BY <1>2, <1>4, <1>5

(* And so is what a container or a string takes its size to be.            *)
LEMMA ReadSizeRestores ==
  ASSUME NEW s \in Seq(Byte), NEW at \in 0 .. Len(s), NEW n \in 0 .. UINT_MAX,
         Carries(s, at, WriteCompactSize(n))
  PROVE  Restores(ReadSize(s, at), s, at, WriteCompactSize(n), n)
<1> DEFINE r == ReadCompactSize(s, at)
           q == ReadSize(s, at)
           x == WriteCompactSize(n)
<1>1. Restores(r, s, at, x, n)
  BY ReadCompactSizeRestores
<1>2. n % (UINT_MAX + 1) = n
  BY Limits
<1>3. CASE r.ok
  <2>1. q = With(r, r.value % (UINT_MAX + 1))
    BY <1>3, Zenon DEF ReadSize
  <2> HIDE DEF r, q, x
  <2>2. r.value = n
    BY <1>1, <1>3 DEF Restores
  <2>3. q = With(r, n)
    BY <1>2, <2>1, <2>2
  <2>4. q.ok = r.ok /\ q.value = n /\ q.at = r.at
    BY <2>3, WithFields
  <2>5. Restores(q, s, at, x, n)
    BY <1>1, <1>3, <2>4 DEF Restores
  <2> QED
    BY <2>5 DEF q, x
<1>4. CASE ~ r.ok
  <2>1. q = r
    BY <1>4, Zenon DEF ReadSize
  <2> QED
    BY <1>1, <2>1
<1> QED
  BY <1>3, <1>4

(* What a read of at least k bytes leaves: within the stream, and where it *)
(* came to its end those bytes further on.                                 *)
Within(r, s, at, k) ==
  /\ r.ok \in BOOLEAN /\ r.at \in at .. Len(s) /\ r.room = 0
  /\ r.ok => at + k <= r.at

(* A number of any bytes.                                                  *)
LEMMA ReadNumberWithin ==
  ASSUME NEW s \in Seq(Byte), NEW at \in 0 .. Len(s), NEW size \in 1 .. 8
  PROVE  LET r == ReadNumber(s, at, size)
         IN  Within(r, s, at, size) /\ (r.ok => r.value \in 0 .. Power[size] - 1)
<1> DEFINE r == ReadNumber(s, at, size)
<1>1. Len(s) \in Nat /\ r.ok \in BOOLEAN
  <2>1. read(s, at, size).ok \in BOOLEAN
    BY DEF read, Result
  <2>2. r.ok \in BOOLEAN
    BY <2>1, WithFields DEF ReadNumber
  <2> QED
    BY <2>2, LenProperties
<1>2. CASE at + size <= Len(s)
  <2>1. PICK b \in Seq(Byte) : /\ Came(r, NumberOf(b), at + size)
                               /\ NumberOf(b) \in 0 .. Power[size] - 1
    BY <1>2, ReadNumberDef
  <2> HIDE DEF r
  <2>2. Within(r, s, at, size) /\ r.value \in 0 .. Power[size] - 1
    BY <1>1, <1>2, <2>1 DEF Within, Came
  <2> QED
    BY <2>2 DEF r
<1>3. CASE ~ (at + size <= Len(s))
  <2>1. Threw(r, at)
    BY <1>3, ReadNumberDef
  <2> HIDE DEF r
  <2>2. Within(r, s, at, size) /\ ~ r.ok
    BY <1>1, <1>3, <2>1 DEF Within, Threw
  <2> QED
    BY <2>2 DEF r
<1> QED
  BY <1>2, <1>3

(* A block of bytes.                                                       *)
LEMMA ReadWithin ==
  ASSUME NEW s \in Seq(Byte), NEW at \in 0 .. Len(s), NEW n \in Nat
  PROVE  LET r == read(s, at, n)
         IN  Within(r, s, at, n) /\ (r.ok => r.value \in Seq(Byte) /\ Len(r.value) = n)
<1> DEFINE r == read(s, at, n)
<1>1. Len(s) \in Nat /\ r.ok \in BOOLEAN
  <2>1. r.ok \in BOOLEAN
    BY DEF read, Result
  <2> QED
    BY <2>1, LenProperties
<1>2. CASE at + n <= Len(s)
  <2>1. PICK v \in Seq(Byte) : Came(r, v, at + n) /\ Len(v) = n
    BY <1>2, ReadDef
  <2> HIDE DEF r
  <2>2. Within(r, s, at, n) /\ r.value \in Seq(Byte) /\ Len(r.value) = n
    BY <1>1, <1>2, <2>1 DEF Within, Came
  <2> QED
    BY <2>2 DEF r
<1>3. CASE ~ (at + n <= Len(s))
  <2>1. Threw(r, at)
    BY <1>3, ReadDef
  <2> HIDE DEF r
  <2>2. Within(r, s, at, n) /\ ~ r.ok
    BY <1>1, <1>3, <2>1 DEF Within, Threw
  <2> QED
    BY <2>2 DEF r
<1> QED
  BY <1>2, <1>3

(* A compact size of any bytes took at least as many as it would be        *)
(* written in: a size longer than it need be takes more.                   *)
LEMMA ReadCompactSizeWithin ==
  ASSUME NEW s \in Seq(Byte), NEW at \in 0 .. Len(s)
  PROVE  LET r == ReadCompactSize(s, at)
         IN  /\ Within(r, s, at, 1)
             /\ r.ok => /\ r.value \in Nat
                        /\ at + GetSizeOfCompactSize(r.value) <= r.at
<1> DEFINE chSize == ReadNumber(s, at, 1)
           r      == ReadCompactSize(s, at)
<1>1. 1 \in 1 .. 8 /\ 2 \in 1 .. 8 /\ 4 \in 1 .. 8 /\ 8 \in 1 .. 8 /\ Len(s) \in Nat
  BY LenProperties
<1>2. Within(chSize, s, at, 1) /\ (chSize.ok => chSize.value \in 0 .. UCHAR_MAX)
  <2>1. Within(chSize, s, at, 1) /\ (chSize.ok => chSize.value \in 0 .. Power[1] - 1)
    BY <1>1, ReadNumberWithin
  <2> QED
    BY <2>1, Limits DEF UCHAR_MAX
<1>3. CASE ~ chSize.ok \/ chSize.value < UCHAR_MAX - 2
  <2>1. r = chSize
    BY <1>3, Zenon DEF ReadCompactSize
  <2> HIDE DEF r, chSize
  <2>2. /\ Within(r, s, at, 1)
        /\ r.ok => r.value \in Nat /\ at + GetSizeOfCompactSize(r.value) <= r.at
    BY <1>2, <1>3, <2>1 DEF Within, GetSizeOfCompactSize
  <2> QED
    BY <2>2 DEF r
<1>4. ASSUME NEW size \in 1 .. 8, chSize.ok, r = ReadNumber(s, chSize.at, size)
      PROVE  /\ Within(r, s, at, 1)
             /\ r.ok => r.value \in 0 .. Power[size] - 1 /\ at + 1 + size <= r.at
  <2> DEFINE q == ReadNumber(s, chSize.at, size)
  <2>1. chSize.at \in 0 .. Len(s) /\ at + 1 <= chSize.at
    <3> HIDE DEF chSize
    <3> QED
      BY <1>1, <1>2, <1>4 DEF Within
  <2>2. Within(q, s, chSize.at, size) /\ (q.ok => q.value \in 0 .. Power[size] - 1)
    <3> HIDE DEF chSize
    <3> QED
      BY <2>1, ReadNumberWithin
  <2>3. r = q
    BY <1>4
  <2> HIDE DEF r, chSize, q
  <2>4. /\ Within(r, s, at, 1)
        /\ r.ok => r.value \in 0 .. Power[size] - 1 /\ at + 1 + size <= r.at
    BY <1>1, <2>1, <2>2, <2>3 DEF Within
  <2> QED
    BY <2>4 DEF r
<1>5. CASE ~ (~ chSize.ok \/ chSize.value < UCHAR_MAX - 2)
  <2>1. chSize.ok
    BY <1>5
  <2>2. CASE chSize.value = UCHAR_MAX - 2
    <3>1. r = ReadNumber(s, chSize.at, 2)
      BY <1>5, <2>2, Zenon DEF ReadCompactSize
    <3> HIDE DEF r, chSize
    <3>2. Within(r, s, at, 1) /\ (r.ok => r.value \in 0 .. Power[2] - 1 /\ at + 1 + 2 <= r.at)
      BY <1>1, <1>4, <2>1, <3>1
    <3>3. r.ok => r.value \in Nat /\ r.value <= USHRT_MAX
      BY <3>2, Limits
    <3>4. r.ok => at + GetSizeOfCompactSize(r.value) <= r.at
      <4>1. r.at \in Nat
        BY <1>1, <3>2 DEF Within
      <4> QED
        BY <3>2, <3>3, <4>1 DEF GetSizeOfCompactSize
    <3>5. /\ Within(r, s, at, 1)
          /\ r.ok => r.value \in Nat /\ at + GetSizeOfCompactSize(r.value) <= r.at
      BY <3>2, <3>3, <3>4
    <3> QED
      BY <3>5 DEF r
  <2>3. CASE chSize.value # UCHAR_MAX - 2 /\ chSize.value = UCHAR_MAX - 1
    <3>1. r = ReadNumber(s, chSize.at, 4)
      BY <1>5, <2>3, Zenon DEF ReadCompactSize
    <3> HIDE DEF r, chSize
    <3>2. Within(r, s, at, 1) /\ (r.ok => r.value \in 0 .. Power[4] - 1 /\ at + 1 + 4 <= r.at)
      BY <1>1, <1>4, <2>1, <3>1
    <3>3. r.ok => r.value \in Nat /\ r.value <= UINT_MAX
      BY <3>2, Limits
    <3>4. r.ok => at + GetSizeOfCompactSize(r.value) <= r.at
      <4>1. r.at \in Nat
        BY <1>1, <3>2 DEF Within
      <4> QED
        BY <3>2, <3>3, <4>1 DEF GetSizeOfCompactSize
    <3>5. /\ Within(r, s, at, 1)
          /\ r.ok => r.value \in Nat /\ at + GetSizeOfCompactSize(r.value) <= r.at
      BY <3>2, <3>3, <3>4
    <3> QED
      BY <3>5 DEF r
  <2>4. CASE chSize.value # UCHAR_MAX - 2 /\ chSize.value # UCHAR_MAX - 1
    <3>1. r = ReadNumber(s, chSize.at, 8)
      BY <1>5, <2>4, Zenon DEF ReadCompactSize
    <3> HIDE DEF r, chSize
    <3>2. Within(r, s, at, 1) /\ (r.ok => r.value \in 0 .. Power[8] - 1 /\ at + 1 + 8 <= r.at)
      BY <1>1, <1>4, <2>1, <3>1
    <3>3. r.ok => r.value \in Nat
      BY <3>2, PowerDef
    <3>4. r.ok => at + GetSizeOfCompactSize(r.value) <= r.at
      <4>1. r.at \in Nat
        BY <1>1, <3>2 DEF Within
      <4> QED
        BY <3>2, <3>3, <4>1 DEF GetSizeOfCompactSize
    <3>5. /\ Within(r, s, at, 1)
          /\ r.ok => r.value \in Nat /\ at + GetSizeOfCompactSize(r.value) <= r.at
      BY <3>2, <3>3, <3>4
    <3> QED
      BY <3>5 DEF r
  <2> QED
    BY <2>2, <2>3, <2>4
<1> QED
  BY <1>3, <1>5

(* The same of a size, which is cut to an unsigned int.                    *)
LEMMA ReadSizeWithin ==
  ASSUME NEW s \in Seq(Byte), NEW at \in 0 .. Len(s)
  PROVE  LET r == ReadSize(s, at)
         IN  /\ Within(r, s, at, 1)
             /\ r.ok => r.value \in 0 .. UINT_MAX /\ at + GetSizeOfCompactSize(r.value) <= r.at
<1> DEFINE q == ReadCompactSize(s, at)
           r == ReadSize(s, at)
<1>1. /\ Within(q, s, at, 1)
      /\ q.ok => q.value \in Nat /\ at + GetSizeOfCompactSize(q.value) <= q.at
  BY ReadCompactSizeWithin
<1>2. CASE q.ok
  <2> DEFINE n == q.value % (UINT_MAX + 1)
  <2>1. r = With(q, n)
    BY <1>2, Zenon DEF ReadSize
  <2> HIDE DEF q, r
  <2>2. r.ok = q.ok /\ r.value = n /\ r.at = q.at /\ r.room = q.room
    BY <2>1, WithFields
  <2>3. n \in 0 .. UINT_MAX /\ n <= q.value
    <3>1. q.value \in Nat /\ UINT_MAX + 1 \in Nat \ {0}
      BY <1>1, <1>2, Limits
    <3>2. \A x \in Nat, y \in Nat \ {0} : x % y \in 0 .. y - 1 /\ x % y <= x
      <4>1. ASSUME NEW x \in Nat, NEW y \in Nat \ {0} PROVE x % y \in 0 .. y - 1 /\ x % y <= x
        <5>1. x \div y \in Nat /\ x % y \in 0 .. y - 1 /\ x = (x % y) + y * (x \div y)
          BY DivMod
        <5>2. y * (x \div y) \in Nat
          <6>1. \A v, w \in Nat : v * w \in Nat
            OBVIOUS
          <6> QED
            BY <5>1, <6>1
        <5> QED
          BY <5>1, <5>2
      <4> QED
        BY <4>1
    <3>3. n \in 0 .. (UINT_MAX + 1) - 1 /\ n <= q.value
      BY <3>1, <3>2
    <3> QED
      BY <3>3, Limits
  <2> HIDE DEF n
  <2>4. GetSizeOfCompactSize(n) \in Nat /\ GetSizeOfCompactSize(n) <= GetSizeOfCompactSize(q.value)
        /\ GetSizeOfCompactSize(q.value) \in Nat
    <3>1. n \in Nat /\ q.value \in Nat /\ n <= q.value
      BY <1>1, <1>2, <2>3, Limits
    <3> QED
      BY <3>1, CompactSizeGrows
  <2>5. Within(r, s, at, 1) /\ r.value \in 0 .. UINT_MAX /\ at + GetSizeOfCompactSize(r.value) <= r.at
    BY <1>1, <1>2, <2>2, <2>3, <2>4, LenProperties DEF Within
  <2> QED
    BY <2>5 DEF r
<1>3. CASE ~ q.ok
  <2>1. r = q
    BY <1>3, Zenon DEF ReadSize
  <2> HIDE DEF q, r
  <2>2. Within(r, s, at, 1) /\ ~ r.ok
    BY <1>1, <1>3, <2>1
  <2> QED
    BY <2>2 DEF r
<1> QED
  BY <1>2, <1>3

-----------------------------------------------------------------------------
(***************************************************************************)
(* Sums, and sequences of bytes one behind the other.                      *)
(***************************************************************************)
(* What the first n of some numbers sum to, for each n up to all of them.  *)
Sums(f, numbers) ==
  /\ f \in [0 .. Len(numbers) -> Nat]
  /\ f[0] = 0
  /\ \A n \in 1 .. Len(numbers) : f[n] = f[n - 1] + numbers[n]

(* The recursion of SumOf is such a function.                              *)
LEMMA SumOfDef ==
  ASSUME NEW a \in Seq(Nat)
  PROVE  \E f : Sums(f, a) /\ SumOf(a) = f[Len(a)]
<1> DEFINE L == Len(a)
           step == [n \in 1 .. L |-> [x \in Nat |-> x + a[n]]]
<1>1. L \in Nat /\ \A n \in 1 .. L : a[n] \in Nat
  BY LenProperties, ElementOfSeq
<1>2. \A n \in 1 .. L, x \in Nat : step[n][x] = x + a[n]
  OBVIOUS
<1>3. \A n \in 1 .. L, x \in Nat : x + a[n] \in Nat
  BY <1>1
<1> HIDE DEF step, L
<1>4. StaysIn(Nat, L, step)
  BY <1>2, <1>3 DEF StaysIn
<1>5. PICK g : Recurs(g, Nat, L, 0, step)
  <2>1. 0 \in Nat
    OBVIOUS
  <2> QED
    BY <1>1, <1>4, <2>1, Recursion
<1>6. g = [n \in 0 .. L |-> IF n = 0 THEN 0 ELSE g[n - 1] + a[n]]
  <2>1. ASSUME NEW n \in 0 .. L, n # 0 PROVE g[n] = g[n - 1] + a[n]
    <3>1. n \in 1 .. L /\ n - 1 \in 0 .. L
      BY <1>1, <2>1
    <3>2. g[n] = step[n][g[n - 1]] /\ g[n - 1] \in Nat
      BY <1>5, <3>1 DEF Recurs
    <3> QED
      BY <1>2, <3>1, <3>2
  <2> QED
    BY <1>5, <2>1 DEF Recurs
<1> DEFINE f == CHOOSE f : f = [n \in 0 .. L |-> IF n = 0 THEN 0 ELSE f[n - 1] + a[n]]
<1>7. f = [n \in 0 .. L |-> IF n = 0 THEN 0 ELSE f[n - 1] + a[n]]
  BY <1>6, Zenon
<1>8. SumOf(a) = f[L]
  BY Zenon DEF SumOf, L
<1> HIDE DEF f
<1>9. f[0] = 0 /\ \A n \in 1 .. L : f[n] = f[n - 1] + a[n]
  <2>1. 0 \in 0 .. L /\ \A n \in 1 .. L : n \in 0 .. L /\ n # 0
    BY <1>1
  <2> QED
    BY <1>7, <2>1, Zenon
<1>10. \A n \in 0 .. L : f[n] \in Nat
  <2> DEFINE S == {n \in 0 .. L : f[n] \in Nat}
  <2>1. 0 \in S
    BY <1>1, <1>9
  <2>2. ASSUME NEW n \in 0 .. L - 1, n \in S PROVE n + 1 \in S
    <3>1. n + 1 \in 1 .. L /\ (n + 1) - 1 = n /\ n + 1 \in 0 .. L /\ f[n] \in Nat
      BY <1>1, <2>2
    <3>2. f[n + 1] = f[n] + a[n + 1]
      BY <1>9, <3>1
    <3> QED
      BY <1>1, <3>1, <3>2
  <2> HIDE DEF S
  <2>3. \A n \in 0 .. L : n \in S
    BY <1>1, <2>1, <2>2, NumbersUpTo
  <2> QED
    BY <2>3 DEF S
<1>11. Sums(f, a)
  <2>1. f \in [0 .. L -> Nat]
    BY <1>7, <1>10
  <2> QED
    BY <1>9, <2>1 DEF Sums, L
<1> QED
  BY <1>8, <1>11 DEF L

(* One number more, wherever it is put, adds to the sum.                   *)
LEMMA SumOfInsert ==
  ASSUME NEW a \in Seq(Nat), NEW b \in Seq(Nat), Len(b) = Len(a) + 1,
         NEW p \in 1 .. Len(b),
         \A i \in 1 .. p - 1 : b[i] = a[i],
         \A i \in p .. Len(a) : b[i + 1] = a[i]
  PROVE  SumOf(a) \in Nat /\ SumOf(b) = SumOf(a) + b[p]
<1>1. PICK f : Sums(f, a) /\ SumOf(a) = f[Len(a)]
  BY SumOfDef
<1>2. PICK g : Sums(g, b) /\ SumOf(b) = g[Len(b)]
  BY SumOfDef
<1> DEFINE L == Len(a)
           S == {i \in 0 .. L : IF i < p THEN g[i] = f[i] ELSE TRUE}
           T == {i \in 0 .. L : i + 1 >= p => g[i + 1] = f[i] + b[p]}
<1>3. L \in Nat /\ Len(b) = L + 1
  BY LenProperties
<1>4. /\ f \in [0 .. L -> Nat] /\ f[0] = 0 /\ \A n \in 1 .. L : f[n] = f[n - 1] + a[n]
      /\ g \in [0 .. L + 1 -> Nat] /\ g[0] = 0 /\ \A n \in 1 .. L + 1 : g[n] = g[n - 1] + b[n]
  BY <1>1, <1>2, <1>3 DEF Sums
<1>5. /\ \A i \in 1 .. L + 1 : b[i] \in Nat
      /\ \A i \in 1 .. L : a[i] \in Nat
      /\ p \in 1 .. L + 1
      /\ \A i \in 1 .. p - 1 : b[i] = a[i]
      /\ \A i \in p .. L : b[i + 1] = a[i]
  BY <1>3, ElementOfSeq
<1> HIDE DEF L
<1>6. \A i \in 0 .. L : i \in S
  <2>1. 0 \in S
    BY <1>3, <1>4
  <2>2. ASSUME NEW i \in 0 .. L - 1, i \in S PROVE i + 1 \in S
    <3>1. i + 1 \in 1 .. L /\ (i + 1) - 1 = i /\ i + 1 \in 1 .. L + 1 /\ i + 1 \in 0 .. L
      BY <1>3
    <3>2. f[i + 1] = f[i] + a[i + 1] /\ g[i + 1] = g[i] + b[i + 1]
      BY <1>4, <3>1
    <3>3. i + 1 < p => b[i + 1] = a[i + 1] /\ g[i] = f[i]
      BY <1>5, <2>2, <3>1
    <3> QED
      BY <3>1, <3>2, <3>3
  <2> HIDE DEF S
  <2> QED
    BY <1>3, <2>1, <2>2, NumbersUpTo
<1>7. \A i \in 0 .. L : i \in T
  <2>1. ASSUME NEW i \in 0 .. L, i + 1 = p PROVE g[i + 1] = f[i] + b[p]
    <3>1. i + 1 \in 1 .. L + 1 /\ (i + 1) - 1 = i /\ i < p
      <4>1. L \in Nat /\ i \in Nat /\ i <= L
        BY <1>3
      <4> QED
        BY <2>1, <4>1
    <3>2. g[i + 1] = g[i] + b[i + 1]
      BY <1>4, <3>1
    <3>3. g[i] = f[i]
      BY <1>6, <3>1
    <3> QED
      BY <2>1, <3>2, <3>3
  <2>2. 0 \in T
    <3>1. 0 + 1 >= p => 0 + 1 = p
      BY <1>5
    <3> QED
      BY <1>3, <2>1, <3>1
  <2>3. ASSUME NEW i \in 0 .. L - 1, i \in T PROVE i + 1 \in T
    <3>1. CASE (i + 1) + 1 = p
      BY <1>3, <2>1, <3>1
    <3>2. CASE (i + 1) + 1 > p
      <4>1. /\ i + 1 \in 1 .. L /\ (i + 1) - 1 = i /\ i + 1 >= p /\ i + 1 \in p .. L
            /\ (i + 1) + 1 \in 1 .. L + 1 /\ ((i + 1) + 1) - 1 = i + 1
        BY <1>3, <1>5, <3>2
      <4>2. f[i + 1] = f[i] + a[i + 1] /\ g[(i + 1) + 1] = g[i + 1] + b[(i + 1) + 1]
        BY <1>4, <4>1
      <4>3. b[(i + 1) + 1] = a[i + 1] /\ a[i + 1] \in Nat
        BY <1>5, <4>1
      <4>4. g[i + 1] = f[i] + b[p]
        BY <2>3, <4>1
      <4>5. f[i] \in Nat /\ b[p] \in Nat
        <5>1. i \in 0 .. L
          BY <1>3
        <5> QED
          BY <1>4, <1>5, <5>1
      <4>6. g[(i + 1) + 1] = f[i + 1] + b[p]
        BY <4>2, <4>3, <4>4, <4>5
      <4>7. i + 1 \in 0 .. L
        BY <1>3
      <4> QED
        BY <4>6, <4>7
    <3>3. CASE (i + 1) + 1 < p
      BY <1>3, <1>5, <3>3
    <3> QED
      BY <1>5, <3>1, <3>2, <3>3
  <2> HIDE DEF T
  <2> QED
    BY <1>3, <2>2, <2>3, NumbersUpTo
<1>8. g[L + 1] = f[L] + b[p]
  <2>1. L \in 0 .. L /\ L + 1 >= p
    BY <1>3, <1>5
  <2> QED
    BY <1>7, <2>1
<1>9. f[L] \in Nat
  BY <1>3, <1>4
<1> QED
  BY <1>1, <1>2, <1>3, <1>8, <1>9 DEF L

(* What the first n of some sequences of bytes make, one behind the other, *)
(* for each n up to all of them.                                           *)
Joins(f, seqs) ==
  /\ f \in [0 .. Len(seqs) -> Seq(Byte)]
  /\ f[0] = <<>>
  /\ \A n \in 1 .. Len(seqs) : f[n] = f[n - 1] \o seqs[n]

(* FlattenSeq makes what all of them make.                                 *)
LEMMA FlattenDef ==
  ASSUME NEW a \in Seq(Seq(Byte))
  PROVE  \E f : Joins(f, a) /\ FlattenSeq(a) = f[Len(a)]
<1> DEFINE L == Len(a)
           V == Seq(Byte)
           step == [n \in 1 .. L |-> [x \in V |-> x \o a[n]]]
<1>1. L \in Nat /\ \A n \in 1 .. L : a[n] \in V
  BY LenProperties, ElementOfSeq
<1>2. \A n \in 1 .. L, x \in V : step[n][x] = x \o a[n]
  OBVIOUS
<1>3. \A n \in 1 .. L, x \in V : x \o a[n] \in V
  BY <1>1, ConcatProperties
<1>0. <<>> \in V
  BY EmptySeq
<1> HIDE DEF step, L
<1>4. StaysIn(V, L, step)
  BY <1>2, <1>3 DEF StaysIn
<1>5. PICK g : Recurs(g, V, L, <<>>, step)
  BY <1>0, <1>1, <1>4, Recursion
<1>6. /\ g \in [0 .. L -> V] /\ g[0] = <<>>
      /\ \A n \in 1 .. L : g[n] = g[n - 1] \o a[n]
  <2>1. \A n \in 1 .. L : n \in 0 .. L /\ n - 1 \in 0 .. L
    BY <1>1
  <2> QED
    BY <1>2, <1>5, <2>1 DEF Recurs
<1>7. Joins(g, a)
  BY <1>6 DEF Joins, L
<1>8. CASE L = 0
  <2>1. a = <<>>
    BY <1>8, EmptySeq DEF L
  <2>2. FlattenSeq(a) = a
    BY <1>8, Zenon DEF FlattenSeq, L
  <2> QED
    BY <1>6, <1>7, <1>8, <2>1, <2>2 DEF L
<1>9. CASE L # 0
  <2> DEFINE h == [i \in 1 .. L |-> g[i]]
             f == CHOOSE f : f = [i \in 1 .. L |-> IF i = 1 THEN a[i] ELSE f[i - 1] \o a[i]]
  <2>1. g[1] = a[1]
    <3>1. 1 \in 1 .. L /\ 1 - 1 = 0
      BY <1>1, <1>9
    <3>2. a[1] \in Seq(Byte) /\ g[1] = <<>> \o a[1]
      BY <1>1, <1>6, <3>1
    <3> QED
      BY <3>2, ConcatEmptySeq
  <2>2. h = [i \in 1 .. L |-> IF i = 1 THEN a[i] ELSE h[i - 1] \o a[i]]
    <3>1. ASSUME NEW i \in 1 .. L, i # 1 PROVE h[i] = h[i - 1] \o a[i]
      <4>1. i - 1 \in 1 .. L
        BY <1>1, <3>1
      <4>2. h[i] = g[i] /\ h[i - 1] = g[i - 1]
        BY <4>1
      <4> QED
        BY <1>6, <4>2
    <3>2. \A i \in 1 .. L : h[i] = IF i = 1 THEN a[i] ELSE h[i - 1] \o a[i]
      BY <2>1, <3>1
    <3> DEFINE k == [i \in 1 .. L |-> IF i = 1 THEN a[i] ELSE h[i - 1] \o a[i]]
    <3>3. \A i \in 1 .. L : h[i] = k[i]
      BY <3>2
    <3>4. h = k
      BY <3>3
    <3> QED
      BY <3>4
  <2> HIDE DEF h
  <2>3. f = [i \in 1 .. L |-> IF i = 1 THEN a[i] ELSE f[i - 1] \o a[i]]
    BY <2>2, Zenon
  <2>4. FlattenSeq(a) = f[L]
    BY <1>9, Zenon DEF FlattenSeq, L
  <2> HIDE DEF f
  <2>5. \A i \in 1 .. L : f[i] = IF i = 1 THEN a[i] ELSE f[i - 1] \o a[i]
    BY <2>3, Zenon
  <2> DEFINE S == {i \in 0 .. L : i > 0 => f[i] = g[i]}
  <2>6. 0 \in S
    BY <1>1
  <2>7. ASSUME NEW i \in 0 .. L - 1, i \in S PROVE i + 1 \in S
    <3>1. i + 1 \in 1 .. L /\ (i + 1) - 1 = i /\ i + 1 \in 0 .. L
      BY <1>1
    <3>2. f[i + 1] = g[i + 1]
      <4>1. CASE i = 0
        <5>1. f[1] = a[1]
          BY <2>5, <3>1, <4>1
        <5> QED
          BY <2>1, <4>1, <5>1
      <4>2. CASE i # 0
        <5>1. f[i + 1] = f[i] \o a[i + 1]
          <6>1. i + 1 # 1
            BY <4>2
          <6>2. f[i + 1] = f[(i + 1) - 1] \o a[i + 1]
            BY <2>5, <3>1, <6>1
          <6> QED
            BY <3>1, <6>2
        <5>2. f[i] = g[i]
          BY <2>7, <4>2
        <5> QED
          BY <1>6, <3>1, <5>1, <5>2
      <4> QED
        BY <4>1, <4>2
    <3> QED
      BY <3>1, <3>2
  <2> HIDE DEF S
  <2>8. \A i \in 0 .. L : i \in S
    BY <1>1, <2>6, <2>7, NumbersUpTo
  <2>9. f[L] = g[L]
    <3>1. L \in 0 .. L /\ L > 0
      BY <1>1, <1>9
    <3> QED
      BY <2>8, <3>1 DEF S
  <2> QED
    BY <1>7, <2>4, <2>9 DEF L
<1> QED
  BY <1>8, <1>9

(* Each part stands where those before it end, and adds its length.        *)
LEMMA JoinsParts ==
  ASSUME NEW a \in Seq(Seq(Byte)), NEW f, Joins(f, a)
  PROVE  \A i \in 1 .. Len(a) :
           /\ a[i] \in Seq(Byte) /\ f[i - 1] \in Seq(Byte) /\ f[i] \in Seq(Byte)
           /\ f[i] = f[i - 1] \o a[i]
           /\ Len(f[i - 1]) \in Nat /\ Len(a[i]) \in Nat
           /\ Len(f[i]) = Len(f[i - 1]) + Len(a[i])
<1> TAKE i \in 1 .. Len(a)
<1>1. i - 1 \in 0 .. Len(a) /\ i \in 0 .. Len(a)
  BY LenProperties
<1>2. a[i] \in Seq(Byte) /\ f[i - 1] \in Seq(Byte) /\ f[i] \in Seq(Byte)
      /\ f[i] = f[i - 1] \o a[i]
  BY <1>1, ElementOfSeq DEF Joins
<1> QED
  BY <1>2, LenProperties, ConcatProperties

(* Where all of them stand in s, so does each, where those before it end.  *)
LEMMA JoinsCarried ==
  ASSUME NEW a \in Seq(Seq(Byte)), NEW f, Joins(f, a),
         NEW s \in Seq(Byte), NEW at \in Nat, Carries(s, at, f[Len(a)])
  PROVE  \A i \in 1 .. Len(a) : Carries(s, at + Len(f[i - 1]), a[i])
<1> DEFINE L == Len(a)
           S == {k \in 0 .. L : Carries(s, at, f[L - k])}
<1>1. L \in Nat
  BY LenProperties
<1>2. 0 \in S
  <2>1. L - 0 = L
    BY <1>1
  <2> QED
    BY <1>1, <2>1
<1>3. ASSUME NEW i \in 1 .. L, Carries(s, at, f[i])
      PROVE  Carries(s, at, f[i - 1]) /\ Carries(s, at + Len(f[i - 1]), a[i])
  <2>1. a[i] \in Seq(Byte) /\ f[i - 1] \in Seq(Byte) /\ f[i] = f[i - 1] \o a[i]
    BY JoinsParts
  <2>2. Carries(s, at, f[i - 1] \o a[i])
    BY <1>3, <2>1
  <2> QED
    BY <2>1, <2>2, CarriesConcat
<1> HIDE DEF L
<1>4. ASSUME NEW k \in 0 .. L - 1, k \in S PROVE k + 1 \in S
  <2>1. L - k \in 1 .. L /\ (L - k) - 1 = L - (k + 1) /\ k + 1 \in 0 .. L
    BY <1>1
  <2>2. Carries(s, at, f[L - k])
    BY <1>4
  <2>3. Carries(s, at, f[L - (k + 1)])
    BY <1>3, <2>1, <2>2
  <2> QED
    BY <2>1, <2>3
<1> HIDE DEF S
<1>5. \A k \in 0 .. L : k \in S
  BY <1>1, <1>2, <1>4, NumbersUpTo
<1>6. ASSUME NEW i \in 1 .. L PROVE Carries(s, at + Len(f[i - 1]), a[i])
  <2>1. L - i \in 0 .. L /\ L - (L - i) = i
    BY <1>1
  <2>2. Carries(s, at, f[L - (L - i)])
    BY <1>5, <2>1 DEF S
  <2> QED
    BY <1>3, <2>1, <2>2
<1> QED
  BY <1>6 DEF L

(* Together they are as long as their lengths sum to.                      *)
LEMMA FlattenLength ==
  ASSUME NEW a \in Seq(Seq(Byte)), NEW b \in Seq(Nat), Len(b) = Len(a),
         \A i \in 1 .. Len(a) : b[i] = Len(a[i])
  PROVE  FlattenSeq(a) \in Seq(Byte) /\ Len(FlattenSeq(a)) = SumOf(b)
<1>1. PICK f : Joins(f, a) /\ FlattenSeq(a) = f[Len(a)]
  BY FlattenDef
<1>2. PICK g : Sums(g, b) /\ SumOf(b) = g[Len(b)]
  BY SumOfDef
<1> DEFINE L == Len(a)
           S == {i \in 0 .. L : Len(f[i]) = g[i]}
<1>3. L \in Nat
  BY LenProperties
<1>4. 0 \in S
  BY <1>1, <1>2, <1>3, EmptySeq DEF Joins, Sums
<1>5. \A i \in 1 .. L : Len(f[i]) = Len(f[i - 1]) + Len(a[i]) /\ g[i] = g[i - 1] + Len(a[i])
  BY <1>1, <1>2, JoinsParts DEF Sums
<1> HIDE DEF L
<1>6. ASSUME NEW i \in 0 .. L - 1, i \in S PROVE i + 1 \in S
  <2>1. i + 1 \in 1 .. L /\ (i + 1) - 1 = i /\ i + 1 \in 0 .. L
    BY <1>3
  <2> QED
    BY <1>5, <1>6, <2>1
<1> HIDE DEF S
<1>7. \A i \in 0 .. L : i \in S
  BY <1>3, <1>4, <1>6, NumbersUpTo
<1>8. L \in 0 .. L
  BY <1>3
<1>9. Len(f[L]) = g[L]
  BY <1>7, <1>8 DEF S
<1>10. f[L] \in Seq(Byte)
  BY <1>1, <1>8 DEF Joins, L
<1> QED
  BY <1>1, <1>2, <1>9, <1>10 DEF L

-----------------------------------------------------------------------------
(***************************************************************************)
(* The templates of a type are made from those of its parts, so what       *)
(* holds of each type whose parts it holds of holds of every type.         *)
(***************************************************************************)
(* What an assignment of templates to the types makes of a type.           *)
Made(type, f) ==
  LET of == CASE type.kind \in Basic      -> <<>>
              [] type.kind \in Containers -> <<f[type.of[1]]>>
              [] type.kind \in Pairs      -> <<f[type.of[1]], f[type.of[2]]>>
  IN  Instantiate(type, of)

(* A type of the program: its parts are types and not as deep as it is.    *)
LEMMA PartsOfType ==
  ASSUME NEW type \in Types
  PROVE  /\ type.kind \in Basic \cup Containers \cup Pairs
         /\ type.depth \in 0 .. MaxDepth
         /\ type.kind \in Basic => DOMAIN type.of = {}
         /\ type.kind \in Containers => DOMAIN type.of = {1}
         /\ type.kind \in Pairs => DOMAIN type.of = {1, 2}
         /\ \A i \in DOMAIN type.of :
              /\ type.of[i] \in Types
              /\ type.of[i].depth < type.depth
              /\ type.of[i].kind \in Wrappers => type.kind = "struct"
<1>1. WellFormed(type)
  BY SerializationAssumption
<1>2. type.of \in Seq(Types) /\ DOMAIN type.of = 1 .. Len(type.of)
  BY <1>1, LenProperties DEF WellFormed
<1>3. \A i \in DOMAIN type.of : type.of[i] \in Types
  BY <1>2, ElementOfSeq
<1>4. Len(type.of) = IF type.kind \in Basic THEN 0 ELSE IF type.kind \in Containers THEN 1 ELSE 2
  BY <1>1, Zenon DEF WellFormed
<1>5. /\ type.kind \in Containers => ~ (type.kind \in Basic)
      /\ type.kind \in Pairs => ~ (type.kind \in Basic) /\ ~ (type.kind \in Containers)
  BY DEF Basic, Containers, Pairs
<1>6. 1 .. 0 = {} /\ 1 .. 1 = {1} /\ 1 .. 2 = {1, 2}
  OBVIOUS
<1>7. /\ type.kind \in Basic => DOMAIN type.of = {}
      /\ type.kind \in Containers => DOMAIN type.of = {1}
      /\ type.kind \in Pairs => DOMAIN type.of = {1, 2}
  BY <1>2, <1>4, <1>5, <1>6, Zenon
<1> QED
  BY <1>1, <1>3, <1>7, Zenon DEF WellFormed

(* By the kind of the type.                                                *)
LEMMA MadeCases ==
  ASSUME NEW type \in Types, NEW f
  PROVE  /\ type.kind \in Basic => Made(type, f) = Instantiate(type, <<>>)
         /\ type.kind \in Containers => Made(type, f) = Instantiate(type, <<f[type.of[1]]>>)
         /\ type.kind \in Pairs => Made(type, f) = Instantiate(type, <<f[type.of[1]], f[type.of[2]]>>)
<1>1. /\ type.kind \in Containers => ~ (type.kind \in Basic)
      /\ type.kind \in Pairs => ~ (type.kind \in Basic) /\ ~ (type.kind \in Containers)
  BY DEF Basic, Containers, Pairs
<1>2. CASE type.kind \in Basic
  BY <1>1, <1>2, Zenon DEF Made
<1>3. CASE type.kind \in Containers
  BY <1>1, <1>3, Zenon DEF Made
<1>4. CASE type.kind \in Pairs
  BY <1>1, <1>4, Zenon DEF Made
<1> QED
  BY <1>2, <1>3, <1>4, PartsOfType

(* Nothing but the parts matters.                                          *)
LEMMA MadeOfParts ==
  ASSUME NEW type \in Types, NEW f, NEW g, \A i \in DOMAIN type.of : f[type.of[i]] = g[type.of[i]]
  PROVE  Made(type, f) = Made(type, g)
<1>1. CASE type.kind \in Basic
  BY <1>1, MadeCases
<1>2. CASE type.kind \in Containers
  <2>1. f[type.of[1]] = g[type.of[1]]
    BY <1>2, PartsOfType
  <2>2. Instantiate(type, <<f[type.of[1]]>>) = Instantiate(type, <<g[type.of[1]]>>)
    BY <2>1, Zenon
  <2> QED
    BY <1>2, <2>2, MadeCases, Zenon
<1>3. CASE type.kind \in Pairs
  <2>1. f[type.of[1]] = g[type.of[1]] /\ f[type.of[2]] = g[type.of[2]]
    BY <1>3, PartsOfType
  <2>2. Instantiate(type, <<f[type.of[1]], f[type.of[2]]>>)
          = Instantiate(type, <<g[type.of[1]], g[type.of[2]]>>)
    BY <2>1, Zenon
  <2> QED
    BY <1>3, <2>2, MadeCases, Zenon
<1> QED
  BY <1>1, <1>2, <1>3, PartsOfType

(* There is such an assignment: one for the types of each depth, from the  *)
(* one for those less deep.                                                *)
LEMMA TemplatesExist ==
  \E f : f = [type \in Types |-> Made(type, f)]
<1> DEFINE Good(d, f) == \A type \in Types : type.depth <= d => f[type] = Made(type, f)
           Deeper(f) == [type \in Types |-> Made(type, f)]
           S == {d \in 0 .. MaxDepth : \E f : Good(d, f)}
<1>1. MaxDepth \in Nat
  BY SerializationAssumption
<1>2. \A type \in Types : type.depth \in Nat /\ type.depth <= MaxDepth
  BY <1>1, PartsOfType
<1>3. ASSUME NEW d \in Nat, NEW f,
             \A type \in Types : type.depth < d => f[type] = Made(type, f)
      PROVE  Good(d, Deeper(f))
  <2> DEFINE g == Deeper(f)
  <2>1. \A type \in Types : g[type] = Made(type, f)
    OBVIOUS
  <2> HIDE DEF g
  <2>2. ASSUME NEW type \in Types, type.depth <= d PROVE g[type] = Made(type, g)
    <3>1. ASSUME NEW i \in DOMAIN type.of PROVE f[type.of[i]] = g[type.of[i]]
      <4>1. type.of[i] \in Types /\ type.of[i].depth < type.depth
        BY PartsOfType
      <4>2. type.of[i].depth < d
        BY <1>2, <2>2, <4>1
      <4> QED
        BY <1>3, <2>1, <4>1, <4>2
    <3>2. Made(type, f) = Made(type, g)
      BY <3>1, MadeOfParts
    <3> QED
      BY <2>1, <3>2
  <2>3. Good(d, g)
    BY <2>2
  <2> QED
    BY <2>3 DEF g
<1>4. 0 \in S
  <2>1. \A type \in Types : ~ (type.depth < 0)
    BY <1>2
  <2> DEFINE f == [type \in Types |-> 0]
  <2> HIDE DEF f, Good, Deeper
  <2>2. Good(0, Deeper(f))
    BY <1>3, <2>1
  <2> QED
    BY <1>1, <2>2
<1>5. ASSUME NEW d \in 0 .. MaxDepth - 1, d \in S PROVE d + 1 \in S
  <2>1. PICK f : Good(d, f)
    BY <1>5
  <2>2. \A type \in Types : type.depth < d + 1 => f[type] = Made(type, f)
    BY <1>2, <2>1
  <2>3. d + 1 \in Nat /\ d + 1 \in 0 .. MaxDepth
    BY <1>1
  <2> HIDE DEF Good, Deeper
  <2>4. Good(d + 1, Deeper(f))
    BY <1>3, <2>2, <2>3
  <2> QED
    BY <2>3, <2>4
<1>6. MaxDepth \in S
  <2> HIDE DEF S
  <2>1. \A d \in 0 .. MaxDepth : d \in S
    BY <1>1, <1>4, <1>5, NumbersUpTo
  <2> QED
    BY <1>1, <2>1
<1>7. PICK f : Good(MaxDepth, f)
  BY <1>6
<1>8. \A type \in Types : f[type] = Made(type, f)
  BY <1>2, <1>7
<1> DEFINE g == [type \in Types |-> Made(type, f)]
<1>9. \A type \in Types : g[type] = Made(type, f)
  OBVIOUS
<1>10. g = [type \in Types |-> g[type]]
  OBVIOUS
<1> HIDE DEF g
<1>11. ASSUME NEW type \in Types PROVE g[type] = Made(type, g)
  <2>1. \A i \in DOMAIN type.of : f[type.of[i]] = g[type.of[i]]
    BY <1>8, <1>9, PartsOfType
  <2>2. Made(type, f) = Made(type, g)
    BY <2>1, MadeOfParts
  <2> QED
    BY <1>9, <2>2
<1>12. g = [type \in Types |-> Made(type, g)]
  BY <1>10, <1>11
<1> QED
  BY <1>12

(* The templates of the types are such an assignment.                      *)
LEMMA TemplateDef ==
  ASSUME NEW type \in Types
  PROVE  Template[type] = Made(type, Template)
<1>1. Template = [t \in Types |-> Made(t, Template)]
  BY TemplatesExist, Zenon DEF Template, Made
<1> QED
  BY <1>1, Zenon

(* What holds of a type whose parts it holds of, holds of every type.      *)
LEMMA TypeInduction ==
  ASSUME NEW S, \A type \in Types : (\A i \in DOMAIN type.of : type.of[i] \in S) => type \in S
  PROVE  \A type \in Types : type \in S
<1> DEFINE D == {d \in 0 .. MaxDepth : \A type \in Types : type.depth <= d => type \in S}
<1>1. MaxDepth \in Nat
  BY SerializationAssumption
<1>2. \A type \in Types : type.depth \in Nat /\ type.depth <= MaxDepth
  BY <1>1, PartsOfType
<1>3. ASSUME NEW d \in Nat, \A type \in Types : type.depth < d => type \in S
      PROVE  \A type \in Types : type.depth <= d => type \in S
  <2>1. ASSUME NEW type \in Types, type.depth <= d PROVE type \in S
    <3>1. ASSUME NEW i \in DOMAIN type.of PROVE type.of[i] \in S
      <4>1. type.of[i] \in Types /\ type.of[i].depth < type.depth
        BY PartsOfType
      <4> QED
        BY <1>2, <1>3, <2>1, <4>1
    <3> QED
      BY <1>2, <3>1, PartsOfType
  <2> QED
    BY <2>1
<1>4. 0 \in D
  <2>1. \A type \in Types : type.depth < 0 => type \in S
    BY <1>2
  <2>2. \A type \in Types : type.depth <= 0 => type \in S
    BY <1>3, <2>1
  <2> QED
    BY <1>1, <2>2
<1>5. ASSUME NEW d \in 0 .. MaxDepth - 1, d \in D PROVE d + 1 \in D
  <2>1. d + 1 \in Nat /\ d + 1 \in 0 .. MaxDepth
    BY <1>1
  <2>2. \A type \in Types : type.depth < d + 1 => type \in S
    BY <1>2, <1>5
  <2>3. \A type \in Types : type.depth <= d + 1 => type \in S
    BY <1>3, <2>1, <2>2
  <2> QED
    BY <2>1, <2>3
<1> HIDE DEF D
<1>6. MaxDepth \in D
  <2>1. \A d \in 0 .. MaxDepth : d \in D
    BY <1>1, <1>4, <1>5, NumbersUpTo
  <2> QED
    BY <1>1, <2>1
<1> QED
  BY <1>2, <1>6 DEF D

(* The templates of a type, from those of its parts.                       *)
Composed(type, of) ==
  /\ Template[type] = Instantiate(type, of)
  /\ \A i \in DOMAIN type.of : of[i] = Template[type.of[i]]

(* Every type has such parts.                                              *)
LEMMA TemplateComposed ==
  ASSUME NEW type \in Types
  PROVE  \E of : Composed(type, of)
<1>1. CASE type.kind \in Basic
  <2>1. Template[type] = Instantiate(type, <<>>)
    BY <1>1, TemplateDef, MadeCases
  <2>2. DOMAIN type.of = {}
    BY <1>1, PartsOfType
  <2> QED
    BY <2>1, <2>2, Zenon DEF Composed
<1>2. CASE type.kind \in Containers
  <2> DEFINE of == <<Template[type.of[1]]>>
  <2>1. Template[type] = Instantiate(type, of)
    BY <1>2, TemplateDef, MadeCases
  <2>2. DOMAIN type.of = {1}
    BY <1>2, PartsOfType
  <2>3. of[1] = Template[type.of[1]]
    OBVIOUS
  <2> HIDE DEF of
  <2> QED
    BY <2>1, <2>2, <2>3 DEF Composed
<1>3. CASE type.kind \in Pairs
  <2> DEFINE of == <<Template[type.of[1]], Template[type.of[2]]>>
  <2>1. Template[type] = Instantiate(type, of)
    BY <1>3, TemplateDef, MadeCases
  <2>2. DOMAIN type.of = {1, 2}
    BY <1>3, PartsOfType
  <2>3. of[1] = Template[type.of[1]] /\ of[2] = Template[type.of[2]]
    OBVIOUS
  <2> HIDE DEF of
  <2> QED
    BY <2>1, <2>2, <2>3 DEF Composed
<1> QED
  BY <1>1, <1>2, <1>3, PartsOfType

(* The members of an instance of the templates.                            *)
LEMMA InstanceDef ==
  ASSUME NEW type, NEW of, NEW T, T = Instantiate(type, of)
  PROVE  /\ T.values = Values(type, of)
         /\ \A value \in Values(type, of) :
              /\ T.bytes[value] = Serialize(type, of, value)
              /\ T.size[value] = GetSerializeSize(type, of, value)
         /\ \A s \in Seq(Byte), at \in Nat : T.read[s][at] = Unserialize(type, of, s, at)
         /\ T.readable = Readable(type, of)
<1> DEFINE B == [value \in Values(type, of) |-> Serialize(type, of, value)]
           Z == [value \in Values(type, of) |-> GetSerializeSize(type, of, value)]
           R == [s \in Seq(Byte) |-> [at \in Nat |-> Unserialize(type, of, s, at)]]
<1>1. \A value \in Values(type, of) : B[value] = Serialize(type, of, value)
  OBVIOUS
<1>2. \A value \in Values(type, of) : Z[value] = GetSerializeSize(type, of, value)
  OBVIOUS
<1>3. \A s \in Seq(Byte), at \in Nat : R[s][at] = Unserialize(type, of, s, at)
  OBVIOUS
<1>4. T.values = Values(type, of) /\ T.bytes = B /\ T.size = Z /\ T.read = R
      /\ T.readable = Readable(type, of)
  <2> HIDE DEF B, Z, R
  <2>1. T = [values |-> Values(type, of), bytes |-> B, size |-> Z, read |-> R,
             readable |-> Readable(type, of)]
    BY Zenon DEF Instantiate, B, Z, R
  <2> QED
    BY <2>1
<1> HIDE DEF B, Z, R
<1> QED
  BY <1>1, <1>2, <1>3, <1>4

-----------------------------------------------------------------------------
(***************************************************************************)
(* How long what is written is.                                            *)
(***************************************************************************)
(* The definitions that go by the kind of a type, for each.                *)
LEMMA ValuesCases ==
  ASSUME NEW type, NEW of
  PROVE  /\ type.kind = "number" => Values(type, of) = 0 .. Power[type.size] - 1
         /\ type.kind = "bool"   => Values(type, of) = {0, 1}
         /\ type.kind = "string" => Values(type, of) = Sized(Seq(Byte))
         /\ type.kind = "flat"   => Values(type, of) = {v \in Seq(Byte) : Len(v) = type.size}
         /\ type.kind = "fixed"  => Values(type, of) = Seq(Byte)
         /\ type.kind = "vector" => Values(type, of) = Sized(Seq(of[1].values))
         /\ type.kind \in {"map", "set"} =>
              Values(type, of) =
                {v \in Sized(Seq(of[1].values)) :
                   \A i \in DOMAIN v, j \in DOMAIN v : i < j => Key(type, v[i]) < Key(type, v[j])}
         /\ type.kind \in Pairs => Values(type, of) = of[1].values \X of[2].values
BY Zenon DEF Values, Pairs

(* What Serialize writes, by the kind of the type.                         *)
LEMMA SerializeCases ==
  ASSUME NEW type, NEW of, NEW value
  PROVE  /\ type.kind \in {"number", "bool"} => Serialize(type, of, value) = Bytes(value, type.size)
         /\ type.kind = "string" => Serialize(type, of, value) = WriteCompactSize(Len(value)) \o value
         /\ type.kind = "flat"   => Serialize(type, of, value) = value
         /\ type.kind = "fixed"  => Serialize(type, of, value) = FixedField(value, type.size)
         /\ type.kind \in Pairs  =>
              Serialize(type, of, value) = of[1].bytes[value[1]] \o of[2].bytes[value[2]]
         /\ type.kind \in Containers =>
              Serialize(type, of, value) =
                WriteCompactSize(Len(value))
                  \o FlattenSeq([i \in DOMAIN value |-> of[1].bytes[value[i]]])
BY DEF Serialize, Pairs, Containers

(* And what GetSerializeSize makes of it.                                  *)
LEMMA SizeCases ==
  ASSUME NEW type, NEW of, NEW value
  PROVE  /\ type.kind \in {"number", "bool", "flat", "fixed"} =>
              GetSerializeSize(type, of, value) = type.size
         /\ type.kind = "string" =>
              GetSerializeSize(type, of, value) = GetSizeOfCompactSize(Len(value)) + Len(value)
         /\ type.kind \in Pairs  =>
              GetSerializeSize(type, of, value) = of[1].size[value[1]] + of[2].size[value[2]]
         /\ type.kind \in Containers =>
              GetSerializeSize(type, of, value) =
                GetSizeOfCompactSize(Len(value)) + SumOf([i \in DOMAIN value |-> of[1].size[value[i]]])
BY DEF GetSerializeSize, Pairs, Containers
-----------------------------------------------------------------------------
(* A string up to its first zero.                                          *)
LEMMA UpToNulType ==
  ASSUME NEW str \in Seq(Byte)
  PROVE  /\ UpToNul(str) \in Seq(Byte)
         /\ Len(UpToNul(str)) <= Len(str)
<1>1. Len(str) \in Nat
  BY LenProperties
<1>2. CASE Contains(str, 0)
  <2> DEFINE Z == {i \in 1 .. Len(str) : str[i] = 0}
             p == SelectInSeq(str, LAMBDA b : b = 0)
  <2>1. Z # {} /\ Z \in SUBSET Nat
    BY <1>2 DEF Contains
  <2>2. p = Min(Z)
    BY <2>1 DEF SelectInSeq
  <2>3. \E n \in Z : \A m \in Z : n <= m
    <3> HIDE DEF Z
    <3> QED
      BY <2>1, SmallestNumber
  <2>4. Min(Z) \in Z
    <3> HIDE DEF Z
    <3> QED
      BY <2>3, Zenon DEF Min
  <2>5. p \in 1 .. Len(str)
    BY <2>2, <2>4
  <2>6. UpToNul(str) = SubSeq(str, 1, p - 1)
    BY <1>2, Zenon DEF UpToNul
  <2> HIDE DEF p, Z
  <2>7. \A i \in 1 .. p - 1 : str[i] \in Byte
    <3>1. \A i \in 1 .. p - 1 : i \in 1 .. Len(str)
      BY <1>1, <2>5
    <3> QED
      BY <3>1, ElementOfSeq
  <2>8. /\ SubSeq(str, 1, p - 1) \in Seq(Byte)
        /\ Len(SubSeq(str, 1, p - 1)) = IF 1 <= p - 1 THEN (p - 1) - 1 + 1 ELSE 0
    <3>1. 1 \in Int /\ p - 1 \in Int
      BY <2>5
    <3> QED
      BY <2>7, <3>1, SubSeqProperties
  <2> QED
    BY <1>1, <2>5, <2>6, <2>8
<1>3. CASE ~ Contains(str, 0)
  <2>1. UpToNul(str) = str
    BY <1>3, Zenon DEF UpToNul
  <2> QED
    BY <1>1, <2>1
<1> QED
  BY <1>2, <1>3

(* A field is as long as it is declared.                                   *)
LEMMA FixedFieldType ==
  ASSUME NEW str \in Seq(Byte), NEW size \in Nat
  PROVE  FixedField(str, size) \in Seq(Byte) /\ Len(FixedField(str, size)) = size
<1> DEFINE n == Len(UpToNul(str))
<1>1. n \in Nat /\ n <= Len(str) /\ Len(str) \in Nat
  BY UpToNulType, LenProperties
<1> HIDE DEF n
<1>2. \A i \in 1 .. size : (IF i <= n THEN str[i] ELSE 0) \in Byte
  <2>1. 0 \in Byte
    BY BaseAssumption DEF Byte
  <2>2. ASSUME NEW i \in 1 .. size, i <= n PROVE str[i] \in Byte
    <3>1. i \in 1 .. Len(str)
      BY <1>1, <2>2
    <3> QED
      BY <3>1, ElementOfSeq
  <2> QED
    BY <2>1, <2>2
<1> DEFINE f == [i \in 1 .. size |-> IF i <= n THEN str[i] ELSE 0]
<1>3. f \in Seq(Byte) /\ Len(f) = size
  BY <1>2
<1>4. FixedField(str, size) = f
  BY Zenon DEF FixedField, n
<1> QED
  BY <1>3, <1>4

(* What f makes of the items of a sequence.                                *)
LEMMA Mapped ==
  ASSUME NEW V, NEW S, NEW f, \A x \in V : f[x] \in S, NEW v \in Seq(V)
  PROVE  LET w == [i \in DOMAIN v |-> f[v[i]]]
         IN  w \in Seq(S) /\ Len(w) = Len(v) /\ \A i \in 1 .. Len(v) : w[i] = f[v[i]] /\ f[v[i]] \in S
<1>1. Len(v) \in Nat /\ DOMAIN v = 1 .. Len(v)
  BY LenProperties
<1>2. \A i \in 1 .. Len(v) : f[v[i]] \in S
  BY ElementOfSeq
<1> DEFINE w == [i \in 1 .. Len(v) |-> f[v[i]]]
<1>3. w \in Seq(S) /\ Len(w) = Len(v) /\ \A i \in 1 .. Len(v) : w[i] = f[v[i]]
  BY <1>1, <1>2
<1>4. [i \in DOMAIN v |-> f[v[i]]] = w
  BY <1>1
<1> HIDE DEF w
<1> QED
  BY <1>2, <1>3, <1>4

(* A value of a type is as long as its templates say.                      *)
Measured(T) ==
  \A v \in T.values : T.bytes[v] \in Seq(Byte) /\ T.size[v] = Len(T.bytes[v])

(* The values of numbers and of bool are numbers of the size.              *)
LEMMA NumberValues ==
  ASSUME NEW type \in Types, type.kind \in {"number", "bool"}, NEW of
  PROVE  /\ type.size \in 1 .. 8
         /\ Values(type, of) \subseteq 0 .. Power[type.size] - 1
<1>1. WellFormed(type)
  BY SerializationAssumption
<1>2. CASE type.kind = "number"
  BY <1>1, <1>2, ValuesCases, Zenon DEF WellFormed
<1>3. CASE type.kind = "bool"
  <2>1. type.size = 1 /\ Values(type, of) = {0, 1}
    BY <1>1, <1>3, ValuesCases, Zenon DEF WellFormed
  <2>2. Power[1] = Base /\ Base \in Nat /\ Base > 3
    BY Limits
  <2> QED
    BY <2>1, <2>2
<1> QED
  BY <1>2, <1>3

(* GetSerializeSize is the length of what Serialize writes, for any type.  *)
LEMMA EveryTypeMeasured ==
  ASSUME NEW type \in Types
  PROVE  Measured(Template[type])
<1> DEFINE S == {t \in Types : Measured(Template[t])}
<1>1. ASSUME NEW t \in Types, \A i \in DOMAIN t.of : t.of[i] \in S PROVE t \in S
  <2>1. PICK of : Composed(t, of)
    BY TemplateComposed
  <2> DEFINE T == Template[t]
             V == Values(t, of)
  <2>2. T = Instantiate(t, of) /\ \A i \in DOMAIN t.of : of[i] = Template[t.of[i]] /\ Measured(of[i])
    BY <1>1, <2>1 DEF Composed
  <2>3. /\ T.values = V
        /\ \A v \in V : T.bytes[v] = Serialize(t, of, v) /\ T.size[v] = GetSerializeSize(t, of, v)
    BY <2>2, InstanceDef
  <2>4. WellFormed(t)
    BY SerializationAssumption
  <2> HIDE DEF T
  <2>5. ASSUME NEW v \in V
        PROVE  Serialize(t, of, v) \in Seq(Byte)
               /\ GetSerializeSize(t, of, v) = Len(Serialize(t, of, v))
    <3>1. CASE t.kind \in {"number", "bool"}
      <4>1. t.size \in 1 .. 8 /\ v \in 0 .. Power[t.size] - 1
        BY <3>1, NumberValues
      <4>2. t.size \in 0 .. 8 /\ v \in Nat
        BY <4>1, PowerDef
      <4>3. Bytes(v, t.size) \in Seq(Byte) /\ Len(Bytes(v, t.size)) = t.size
        BY <4>2, BytesType
      <4> QED
        BY <3>1, <4>3, SerializeCases, SizeCases
    <3>2. CASE t.kind = "string"
      <4>1. v \in Seq(Byte)
        BY <3>2, ValuesCases DEF Sized
      <4>2. Len(v) \in Nat
        BY <4>1, LenProperties
      <4>3. /\ WriteCompactSize(Len(v)) \in Seq(Byte)
            /\ Len(WriteCompactSize(Len(v))) = GetSizeOfCompactSize(Len(v))
        BY <4>2, CompactSizeType
      <4>4. Serialize(t, of, v) = WriteCompactSize(Len(v)) \o v
        BY <3>2 DEF Serialize, Pairs, Containers
      <4>5. GetSerializeSize(t, of, v) = GetSizeOfCompactSize(Len(v)) + Len(v)
        BY <3>2, SizeCases, Zenon
      <4> QED
        BY <4>1, <4>3, <4>4, <4>5, ConcatProperties
    <3>3. CASE t.kind = "flat"
      <4>1. v \in Seq(Byte) /\ Len(v) = t.size
        BY <3>3, ValuesCases
      <4> QED
        BY <3>3, <4>1, SerializeCases, SizeCases
    <3>4. CASE t.kind = "fixed"
      <4>1. v \in Seq(Byte)
        BY <3>4, ValuesCases
      <4>2. t.size \in Nat
        BY <2>4, <3>4 DEF WellFormed, Wrappers
      <4>3. FixedField(v, t.size) \in Seq(Byte) /\ Len(FixedField(v, t.size)) = t.size
        BY <4>1, <4>2, FixedFieldType
      <4>4. Serialize(t, of, v) = FixedField(v, t.size)
        BY <3>4 DEF Serialize, Pairs, Containers
      <4>5. GetSerializeSize(t, of, v) = t.size
        BY <3>4, SizeCases
      <4> QED
        BY <4>3, <4>4, <4>5
    <3>5. CASE t.kind \in Pairs
      <4>1. 1 \in DOMAIN t.of /\ 2 \in DOMAIN t.of
        BY <3>5, PartsOfType
      <4>2. v[1] \in of[1].values /\ v[2] \in of[2].values
        BY <3>5, ValuesCases
      <4>3. /\ of[1].bytes[v[1]] \in Seq(Byte) /\ of[1].size[v[1]] = Len(of[1].bytes[v[1]])
            /\ of[2].bytes[v[2]] \in Seq(Byte) /\ of[2].size[v[2]] = Len(of[2].bytes[v[2]])
        BY <2>2, <4>1, <4>2, SMTT(30) DEF Measured
      <4>4. /\ of[1].bytes[v[1]] \o of[2].bytes[v[2]] \in Seq(Byte)
            /\ Len(of[1].bytes[v[1]] \o of[2].bytes[v[2]]) = of[1].size[v[1]] + of[2].size[v[2]]
        BY <4>3, ConcatProperties
      <4>5. Serialize(t, of, v) = of[1].bytes[v[1]] \o of[2].bytes[v[2]]
        BY <3>5 DEF Serialize, Pairs, Containers
      <4>6. GetSerializeSize(t, of, v) = of[1].size[v[1]] + of[2].size[v[2]]
        BY <3>5 DEF GetSerializeSize, Pairs, Containers
      <4> QED
        BY <4>4, <4>5, <4>6
    <3>6. CASE t.kind \in Containers
      <4>1. 1 \in DOMAIN t.of
        BY <3>6, PartsOfType
      <4>2. v \in Seq(of[1].values)
        BY <3>6, ValuesCases DEF Containers, Sized
      <4> DEFINE a == [i \in DOMAIN v |-> of[1].bytes[v[i]]]
                 b == [i \in DOMAIN v |-> of[1].size[v[i]]]
                 c == WriteCompactSize(Len(v))
      <4>3. \A x \in of[1].values : of[1].bytes[x] \in Seq(Byte) /\ of[1].size[x] = Len(of[1].bytes[x])
                                    /\ of[1].size[x] \in Nat
        BY <2>2, <4>1, LenProperties DEF Measured
      <4>4. /\ a \in Seq(Seq(Byte)) /\ Len(a) = Len(v)
            /\ \A i \in 1 .. Len(v) : a[i] = of[1].bytes[v[i]]
        BY <4>2, <4>3, Mapped, SMTT(30)
      <4>5. /\ b \in Seq(Nat) /\ Len(b) = Len(v)
            /\ \A i \in 1 .. Len(v) : b[i] = of[1].size[v[i]]
        BY <4>2, <4>3, Mapped, SMTT(30)
      <4>6. \A i \in 1 .. Len(v) : v[i] \in of[1].values
        BY <4>2, ElementOfSeq
      <4>7. Len(v) \in Nat
        BY <4>2, LenProperties
      <4>8. c \in Seq(Byte) /\ Len(c) = GetSizeOfCompactSize(Len(v))
        BY <4>7, CompactSizeType
      <4> HIDE DEF a, b, c
      <4>9. FlattenSeq(a) \in Seq(Byte) /\ Len(FlattenSeq(a)) = SumOf(b)
        <5>1. Len(b) = Len(a) /\ \A i \in 1 .. Len(a) : b[i] = Len(a[i])
          BY <4>3, <4>4, <4>5, <4>6
        <5> QED
          BY <4>4, <4>5, <5>1, FlattenLength
      <4>10. c \o FlattenSeq(a) \in Seq(Byte)
             /\ Len(c \o FlattenSeq(a)) = GetSizeOfCompactSize(Len(v)) + SumOf(b)
        BY <4>8, <4>9, ConcatProperties
      <4>11. Serialize(t, of, v) = c \o FlattenSeq(a)
        BY <3>6 DEF Serialize, Pairs, Containers, a, c
      <4>12. GetSerializeSize(t, of, v) = GetSizeOfCompactSize(Len(v)) + SumOf(b)
        BY <3>6 DEF GetSerializeSize, Pairs, Containers, b
      <4> QED
        BY <4>10, <4>11, <4>12
    <3> QED
      BY <3>1, <3>2, <3>3, <3>4, <3>5, <3>6, PartsOfType DEF Basic
  <2>6. Measured(T)
    BY <2>3, <2>5 DEF Measured
  <2> QED
    BY <2>6 DEF T
<1> HIDE DEF S
<1>2. \A t \in Types : t \in S
  BY <1>1, TypeInduction
<1> QED
  BY <1>2 DEF S

-----------------------------------------------------------------------------
(***************************************************************************)
(* The items of a map and of a set.                                        *)
(***************************************************************************)
(* InsertAt puts one item in, and moves those behind it on by one.         *)
LEMMA InsertAtDef ==
  ASSUME NEW V, NEW items \in Seq(V), NEW p \in 1 .. Len(items) + 1, NEW x \in V
  PROVE  LET w == InsertAt(items, p, x)
         IN  /\ w \in Seq(V) /\ Len(w) = Len(items) + 1 /\ w[p] = x
             /\ \A i \in 1 .. p - 1 : w[i] = items[i]
             /\ \A i \in p .. Len(items) : w[i + 1] = items[i]
<1> DEFINE L == Len(items)
           a == SubSeq(items, 1, p - 1)
           b == SubSeq(items, p, L)
           c == a \o <<x>>
           w == c \o b
<1>1. L \in Nat /\ p \in 1 .. L + 1 /\ (\A i \in 1 .. L : items[i] \in V)
  BY LenProperties, ElementOfSeq
<1> HIDE DEF L
<1>2. a \in Seq(V) /\ Len(a) = p - 1 /\ \A i \in 1 .. p - 1 : a[i] = items[i]
  <2>1. \A i \in 1 .. p - 1 : items[i] \in V
    BY <1>1
  <2>2. 1 \in Int /\ p - 1 \in Int
    BY <1>1
  <2>3. /\ a \in Seq(V) /\ Len(a) = IF 1 <= p - 1 THEN (p - 1) - 1 + 1 ELSE 0
        /\ \A i \in 1 .. (p - 1) - 1 + 1 : a[i] = items[1 + i - 1]
    BY <2>1, <2>2, SubSeqProperties
  <2> HIDE DEF a
  <2>4. (p - 1) - 1 + 1 = p - 1 /\ \A i \in 1 .. p - 1 : 1 + i - 1 = i
    BY <1>1
  <2> QED
    BY <1>1, <2>3, <2>4
<1>3. b \in Seq(V) /\ Len(b) = L - p + 1 /\ \A i \in 1 .. L - p + 1 : b[i] = items[p + i - 1]
  <2>1. \A i \in p .. L : items[i] \in V
    BY <1>1
  <2>2. p \in Int /\ L \in Int
    BY <1>1
  <2>3. /\ b \in Seq(V) /\ Len(b) = IF p <= L THEN L - p + 1 ELSE 0
        /\ \A i \in 1 .. L - p + 1 : b[i] = items[p + i - 1]
    BY <2>1, <2>2, SubSeqProperties
  <2> HIDE DEF b
  <2> QED
    BY <1>1, <2>3
<1>4. <<x>> \in Seq(V) /\ Len(<<x>>) = 1 /\ <<x>>[1] = x
  OBVIOUS
<1> HIDE DEF a, b
<1>5. c \in Seq(V) /\ Len(c) = p /\ c[p] = x /\ \A i \in 1 .. p - 1 : c[i] = items[i]
  <2>1. /\ c \in Seq(V) /\ Len(c) = Len(a) + Len(<<x>>)
        /\ \A i \in 1 .. Len(a) + Len(<<x>>) : c[i] = IF i <= Len(a) THEN a[i] ELSE <<x>>[i - Len(a)]
    BY <1>2, <1>4, ConcatProperties
  <2> HIDE DEF c
  <2>2. /\ p \in 1 .. Len(a) + Len(<<x>>) /\ ~ (p <= Len(a)) /\ p - Len(a) = 1
        /\ \A i \in 1 .. p - 1 : i \in 1 .. Len(a) + Len(<<x>>) /\ i <= Len(a)
    BY <1>1, <1>2, <1>4
  <2>3. c[p] = <<x>>[1]
    BY <2>1, <2>2
  <2> QED
    BY <1>1, <1>2, <1>4, <2>1, <2>2, <2>3
<1> HIDE DEF c
<1>6. /\ w \in Seq(V) /\ Len(w) = L + 1 /\ w[p] = x
      /\ \A i \in 1 .. p - 1 : w[i] = items[i]
      /\ \A i \in p .. L : w[i + 1] = items[i]
  <2>1. /\ w \in Seq(V) /\ Len(w) = Len(c) + Len(b)
        /\ \A i \in 1 .. Len(c) + Len(b) : w[i] = IF i <= Len(c) THEN c[i] ELSE b[i - Len(c)]
    BY <1>3, <1>5, ConcatProperties
  <2> HIDE DEF w
  <2>2. Len(c) + Len(b) = L + 1
    BY <1>1, <1>3, <1>5
  <2>3. ASSUME NEW i \in p .. L PROVE w[i + 1] = items[i]
    <3>1. i + 1 \in 1 .. L + 1 /\ ~ (i + 1 <= p) /\ (i + 1) - p \in 1 .. L - p + 1
          /\ p + ((i + 1) - p) - 1 = i
      BY <1>1
    <3>2. w[i + 1] = b[(i + 1) - p]
      BY <1>5, <2>1, <2>2, <3>1
    <3>3. b[(i + 1) - p] = items[p + ((i + 1) - p) - 1]
      BY <1>3, <3>1
    <3> QED
      BY <3>1, <3>2, <3>3
  <2>4. w[p] = x /\ \A i \in 1 .. p - 1 : w[i] = items[i]
    <3>1. \A i \in 1 .. p : i \in 1 .. L + 1 /\ i <= p
      BY <1>1
    <3>2. \A i \in 1 .. p : w[i] = c[i]
      BY <1>5, <2>1, <2>2, <3>1
    <3>3. p \in 1 .. p /\ \A i \in 1 .. p - 1 : i \in 1 .. p
      BY <1>1
    <3> QED
      BY <1>5, <3>2, <3>3
  <2> QED
    BY <2>1, <2>2, <2>3, <2>4
<1>7. InsertAt(items, p, x) = w
  BY Zenon DEF InsertAt, a, b, c, L
<1> HIDE DEF w
<1> QED
  BY <1>6, <1>7 DEF L

(* Items in the order of their keys.                                       *)
Ascending(type, v) ==
  \A i \in DOMAIN v, j \in DOMAIN v : i < j => Key(type, v[i]) < Key(type, v[j])

(* Where an item goes.                                                     *)
LEMMA LowerBoundDef ==
  ASSUME NEW type, NEW V, \A x \in V : Key(type, x) \in Nat,
         NEW items \in Seq(V), NEW key \in Nat
  PROVE  LET p == LowerBound(type, items, key)
         IN  /\ p \in 1 .. Len(items) + 1
             /\ \A i \in 1 .. p - 1 : Key(type, items[i]) < key
             /\ p <= Len(items) => key <= Key(type, items[p])
<1> DEFINE L == Len(items)
           K == [i \in 1 .. L |-> Key(type, items[i])]
           Is(p) == /\ \A i \in 1 .. p - 1 : Key(type, items[i]) < key
                    /\ p <= L => key <= Key(type, items[p])
           Z == {i \in 1 .. L : key <= Key(type, items[i])}
<1>1. L \in Nat /\ \A i \in 1 .. L : Key(type, items[i]) \in Nat
  BY LenProperties, ElementOfSeq
<1>2. \E p \in 1 .. L + 1 : Is(p)
  <2> HIDE DEF L
  <2>1. CASE Z = {}
    <3>1. \A i \in 1 .. L : Key(type, items[i]) < key
      BY <1>1, <2>1
    <3>2. L + 1 \in 1 .. L + 1 /\ (L + 1) - 1 = L /\ ~ (L + 1 <= L)
      BY <1>1
    <3> QED
      BY <3>1, <3>2
  <2>2. CASE Z # {}
    <3>1. PICK p \in Z : \A m \in Z : p <= m
      <4>1. Z \in SUBSET Nat
        BY <1>1
      <4> HIDE DEF Z
      <4> QED
        BY <2>2, <4>1, SmallestNumber
    <3>2. p \in 1 .. L /\ p \in 1 .. L + 1 /\ key <= Key(type, items[p])
      BY <1>1, <3>1
    <3>3. ASSUME NEW i \in 1 .. p - 1 PROVE Key(type, items[i]) < key
      <4>1. i \in 1 .. L /\ ~ (p <= i)
        BY <1>1, <3>2
      <4>2. i \notin Z
        BY <3>1, <4>1
      <4> QED
        BY <1>1, <4>1, <4>2
    <3> QED
      BY <3>2, <3>3
  <2> QED
    BY <2>1, <2>2
<1> DEFINE p == LowerBound(type, items, key)
<1>3. p = CHOOSE q \in 1 .. L + 1 : Is(q)
  BY Zenon DEF LowerBound
<1> HIDE DEF Is, p, L
<1>4. p \in 1 .. L + 1 /\ Is(p)
  BY <1>2, <1>3, Zenon
<1> QED
  BY <1>4, Zenon DEF Is, p, L

(* w is items with x put in at p.                                          *)
PutIn(w, items, p, x) ==
  /\ p \in 1 .. Len(items) + 1
  /\ Len(w) = Len(items) + 1 /\ w[p] = x
  /\ \A i \in 1 .. p - 1 : w[i] = items[i]
  /\ \A i \in p .. Len(items) : w[i + 1] = items[i]

(* Insert keeps the order: an item whose key is not there is put in.       *)
LEMMA InsertAscends ==
  ASSUME NEW type, NEW V, \A x \in V : Key(type, x) \in Nat,
         NEW items \in Seq(V), Ascending(type, items), NEW x \in V
  PROVE  LET w == Insert(type, items, x)
         IN  w = items \/ (w \in Seq(V) /\ Ascending(type, w) /\ \E p \in Nat : PutIn(w, items, p, x))
<1> DEFINE p == LowerBound(type, items, Key(type, x))
           k == Key(type, x)
           w == Insert(type, items, x)
           L == Len(items)
<1>1. k \in Nat
  OBVIOUS
<1>2. p \in 1 .. L + 1 /\ (\A i \in 1 .. p - 1 : Key(type, items[i]) < k)
      /\ (p <= L => k <= Key(type, items[p]))
  BY <1>1, LowerBoundDef
<1>3. CASE p <= L /\ Key(type, items[p]) = k
  BY <1>3, Zenon DEF Insert
<1>4. CASE ~ (p <= L /\ Key(type, items[p]) = k)
  <2>1. w = InsertAt(items, p, x)
    BY <1>4, Zenon DEF Insert
  <2> HIDE DEF w, p
  <2>2. w \in Seq(V) /\ PutIn(w, items, p, x)
    <3>1. p \in 1 .. Len(items) + 1
      BY <1>2
    <3> DEFINE q == InsertAt(items, p, x)
    <3>2. /\ q \in Seq(V) /\ Len(q) = Len(items) + 1 /\ q[p] = x
          /\ \A i \in 1 .. p - 1 : q[i] = items[i]
          /\ \A i \in p .. Len(items) : q[i + 1] = items[i]
      BY <3>1, InsertAtDef
    <3>3. w = q
      BY <2>1
    <3> HIDE DEF q
    <3> QED
      BY <3>1, <3>2, <3>3 DEF PutIn
  <2>3. L \in Nat /\ (\A i \in 1 .. L : Key(type, items[i]) \in Nat) /\ DOMAIN items = 1 .. L
    BY LenProperties, ElementOfSeq
  <2>4. DOMAIN w = 1 .. L + 1
    BY <2>2, LenProperties DEF PutIn
  <2>5. p \in 1 .. L + 1
    BY <1>2
  <2>6. p <= L => k < Key(type, items[p])
    <3>1. p <= L => p \in 1 .. L
      BY <2>3, <2>5
    <3> QED
      BY <1>1, <1>2, <1>4, <2>3, <3>1
  <2>7. \A i \in 1 .. L, j \in 1 .. L : i < j => Key(type, items[i]) < Key(type, items[j])
    BY <2>3 DEF Ascending
  <2> HIDE DEF L, k
  <2>8. ASSUME NEW j \in p .. L PROVE k < Key(type, items[j])
    <3>1. p <= L /\ p \in 1 .. L /\ j \in 1 .. L
      BY <2>3, <2>5
    <3>2. CASE p = j
      BY <2>6, <3>1, <3>2
    <3>3. CASE p # j
      <4>1. p < j
        BY <3>1, <3>3
      <4>2. Key(type, items[p]) < Key(type, items[j]) /\ k < Key(type, items[p])
        BY <2>6, <2>7, <3>1, <4>1
      <4> QED
        BY <1>1, <2>3, <3>1, <4>2
    <3> QED
      BY <3>2, <3>3
  <2>9. /\ \A i \in 1 .. p - 1 : w[i] = items[i] /\ i \in 1 .. L
        /\ w[p] = x
        /\ \A i \in p + 1 .. L + 1 : w[i] = items[i - 1] /\ i - 1 \in p .. L /\ i - 1 \in 1 .. L
    <3>1. ASSUME NEW i \in p + 1 .. L + 1
          PROVE  w[i] = items[i - 1] /\ i - 1 \in p .. L /\ i - 1 \in 1 .. L
      <4>1. i - 1 \in p .. L /\ i - 1 \in 1 .. L /\ (i - 1) + 1 = i
        BY <2>3, <2>5
      <4> QED
        BY <2>2, <4>1 DEF PutIn, L
    <3>2. \A i \in 1 .. p - 1 : i \in 1 .. L
      BY <2>3, <2>5
    <3> QED
      BY <2>2, <3>1, <3>2 DEF PutIn
  <2>10. ASSUME NEW i \in 1 .. L + 1, NEW j \in 1 .. L + 1, i < j
         PROVE  Key(type, w[i]) < Key(type, w[j])
    <3>1. CASE j < p
      <4>1. i \in 1 .. p - 1 /\ j \in 1 .. p - 1
        BY <2>3, <2>5, <2>10, <3>1
      <4> QED
        BY <2>7, <2>9, <2>10, <4>1
    <3>2. CASE j = p
      <4>1. i \in 1 .. p - 1
        BY <2>3, <2>5, <2>10, <3>2
      <4> QED
        BY <1>2, <2>9, <3>2, <4>1 DEF k
    <3>3. CASE j > p /\ i < p
      <4>1. i \in 1 .. p - 1 /\ j \in p + 1 .. L + 1
        BY <2>3, <2>5, <3>3
      <4>2. j - 1 > i
        BY <2>3, <2>5, <3>3
      <4> QED
        BY <2>7, <2>9, <4>1, <4>2
    <3>4. CASE j > p /\ i = p
      <4>1. j \in p + 1 .. L + 1
        BY <2>3, <2>5, <3>4
      <4> QED
        BY <2>8, <2>9, <3>4, <4>1 DEF k
    <3>5. CASE j > p /\ i > p
      <4>1. i \in p + 1 .. L + 1 /\ j \in p + 1 .. L + 1
        BY <2>3, <2>5, <3>5
      <4>2. i - 1 < j - 1
        BY <2>10
      <4> QED
        BY <2>7, <2>9, <4>1, <4>2
    <3> QED
      BY <2>3, <2>5, <2>10, <3>1, <3>2, <3>3, <3>4, <3>5
  <2>11. Ascending(type, w)
    BY <2>4, <2>10 DEF Ascending
  <2> QED
    BY <2>2, <2>5, <2>11, SMTT(30) DEF w, PutIn
<1> QED
  BY <1>3, <1>4

(* An item whose key is larger than all there goes behind them.            *)
LEMMA InsertLast ==
  ASSUME NEW type, NEW V, \A x \in V : Key(type, x) \in Nat,
         NEW items \in Seq(V), NEW x \in V,
         \A i \in 1 .. Len(items) : Key(type, items[i]) < Key(type, x)
  PROVE  Insert(type, items, x) = Append(items, x)
<1> DEFINE k == Key(type, x)
           p == LowerBound(type, items, k)
           L == Len(items)
           w == InsertAt(items, p, x)
           a == Append(items, x)
<1>1. k \in Nat /\ L \in Nat /\ \A i \in 1 .. L : Key(type, items[i]) \in Nat
  BY LenProperties, ElementOfSeq
<1>2. p \in 1 .. L + 1 /\ (p <= L => k <= Key(type, items[p]))
  BY <1>1, LowerBoundDef
<1>3. p = L + 1
  <2> HIDE DEF p
  <2>1. CASE p <= L
    <3>1. p \in 1 .. L
      BY <1>1, <1>2, <2>1
    <3>2. Key(type, items[p]) < k /\ Key(type, items[p]) \in Nat
      BY <1>1, <3>1
    <3> QED
      BY <1>1, <1>2, <2>1, <3>2
  <2> QED
    BY <1>1, <1>2, <2>1
<1>4. Insert(type, items, x) = w
  <2>1. ~ (p <= L)
    <3> HIDE DEF p
    <3> QED
      BY <1>1, <1>3
  <2> QED
    BY <2>1, Zenon DEF Insert
<1>5. /\ w \in Seq(V) /\ Len(w) = L + 1 /\ w[p] = x
      /\ \A i \in 1 .. p - 1 : w[i] = items[i]
  <2> HIDE DEF p
  <2> QED
    BY <1>2, InsertAtDef
<1>6. /\ a \in Seq(V) /\ Len(a) = L + 1 /\ a[L + 1] = x
      /\ \A i \in 1 .. L : a[i] = items[i]
  BY AppendProperties
<1> HIDE DEF w, a, p, L
<1>7. \A i \in 1 .. Len(w) : w[i] = a[i]
  <2>1. \A i \in 1 .. L + 1 : i = L + 1 \/ i \in 1 .. L
    BY <1>1
  <2>2. p - 1 = L
    BY <1>1, <1>3
  <2> QED
    BY <1>3, <1>5, <1>6, <2>1, <2>2
<1>8. w = a
  BY <1>5, <1>6, <1>7, SeqEqual
<1> QED
  BY <1>4, <1>8 DEF a

(* What the sizes of some values sum to.                                   *)
Total(size, v) == SumOf([i \in DOMAIN v |-> size[v[i]]])

(* That is a number.                                                       *)
LEMMA TotalType ==
  ASSUME NEW V, NEW size, \A y \in V : size[y] \in Nat, NEW items \in Seq(V)
  PROVE  Total(size, items) \in Nat
<1> DEFINE a == [i \in DOMAIN items |-> size[items[i]]]
<1>1. a \in Seq(Nat) /\ Len(a) = Len(items) /\ \A i \in 1 .. Len(items) : a[i] = size[items[i]]
  BY Mapped
<1>2. Total(size, items) = SumOf(a)
  BY Zenon DEF Total
<1> HIDE DEF a
<1>3. PICK f : Sums(f, a) /\ SumOf(a) = f[Len(a)]
  BY <1>1, SumOfDef
<1>4. Len(a) \in 0 .. Len(a)
  BY <1>1, LenProperties
<1> QED
  BY <1>2, <1>3, <1>4 DEF Sums

(* A value put in anywhere adds its size.                                  *)
LEMMA TotalPutIn ==
  ASSUME NEW V, NEW size, \A y \in V : size[y] \in Nat,
         NEW items \in Seq(V), NEW w \in Seq(V), NEW p, NEW x \in V, PutIn(w, items, p, x)
  PROVE  Total(size, items) \in Nat /\ Total(size, w) = Total(size, items) + size[x]
<1> DEFINE a == [i \in DOMAIN items |-> size[items[i]]]
           b == [i \in DOMAIN w |-> size[w[i]]]
<1>1. a \in Seq(Nat) /\ Len(a) = Len(items) /\ \A i \in 1 .. Len(items) : a[i] = size[items[i]]
  BY Mapped
<1>2. b \in Seq(Nat) /\ Len(b) = Len(w) /\ \A i \in 1 .. Len(w) : b[i] = size[w[i]]
  BY Mapped
<1>3. Total(size, items) = SumOf(a) /\ Total(size, w) = SumOf(b)
  BY Zenon DEF Total
<1> HIDE DEF a, b
<1>4. Len(items) \in Nat /\ Len(w) = Len(items) + 1 /\ p \in 1 .. Len(items) + 1
  BY LenProperties DEF PutIn
<1>5. \A i \in 1 .. p - 1 : b[i] = a[i]
  <2>1. \A i \in 1 .. p - 1 : i \in 1 .. Len(items) /\ i \in 1 .. Len(w) /\ w[i] = items[i]
    BY <1>4 DEF PutIn
  <2>2. ASSUME NEW i \in 1 .. p - 1 PROVE b[i] = a[i]
    <3>1. i \in 1 .. Len(items) /\ i \in 1 .. Len(w) /\ w[i] = items[i]
      BY <2>1
    <3>2. a[i] = size[items[i]] /\ b[i] = size[w[i]]
      BY <1>1, <1>2, <3>1
    <3> QED
      BY <3>1, <3>2
  <2> QED
    BY <2>2
<1>6. \A i \in p .. Len(a) : b[i + 1] = a[i]
  <2>1. \A i \in p .. Len(items) : i \in 1 .. Len(items) /\ i + 1 \in 1 .. Len(w) /\ w[i + 1] = items[i]
    BY <1>4 DEF PutIn
  <2> QED
    BY <1>1, <1>2, <2>1
<1>7. p \in 1 .. Len(b) /\ b[p] = size[x] /\ Len(b) = Len(a) + 1
  BY <1>1, <1>2, <1>4 DEF PutIn
<1>8. SumOf(a) \in Nat /\ SumOf(b) = SumOf(a) + b[p]
  BY <1>1, <1>2, <1>5, <1>6, <1>7, SumOfInsert
<1> QED
  BY <1>3, <1>7, <1>8

(* So does one put at the end.                                             *)
LEMMA TotalAppend ==
  ASSUME NEW V, NEW size, \A y \in V : size[y] \in Nat, NEW items \in Seq(V), NEW x \in V
  PROVE  /\ Total(size, items) \in Nat
         /\ Total(size, Append(items, x)) = Total(size, items) + size[x]
<1> DEFINE w == Append(items, x)
<1>1. w \in Seq(V) /\ PutIn(w, items, Len(items) + 1, x)
  <2>1. /\ w \in Seq(V) /\ Len(w) = Len(items) + 1 /\ w[Len(items) + 1] = x
        /\ \A i \in 1 .. Len(items) : w[i] = items[i]
    BY AppendProperties
  <2>2. Len(items) \in Nat
    BY LenProperties
  <2> HIDE DEF w
  <2> QED
    BY <2>1, <2>2 DEF PutIn
<1> HIDE DEF w
<1>2. Total(size, items) \in Nat /\ Total(size, w) = Total(size, items) + size[x]
  BY <1>1, TotalPutIn
<1> QED
  BY <1>2 DEF w

(* No values have no size.                                                 *)
LEMMA TotalEmpty ==
  ASSUME NEW size
  PROVE  Total(size, <<>>) = 0
<1> DEFINE a == [i \in DOMAIN <<>> |-> size[<<>>[i]]]
<1>1. a = <<>>
  OBVIOUS
<1>2. Total(size, <<>>) = SumOf(a)
  BY Zenon DEF Total
<1>3. SumOf(<<>>) = 0
  <2>1. <<>> \in Seq(Nat) /\ Len(<<>>) = 0
    BY EmptySeq
  <2>2. PICK f : Sums(f, <<>>) /\ SumOf(<<>>) = f[Len(<<>>)]
    BY <2>1, SumOfDef
  <2> QED
    BY <2>1, <2>2 DEF Sums
<1> QED
  BY <1>1, <1>2, <1>3

(* The room that a vector is given is at most a block, and no more than it *)
(* is still to have.                                                       *)
LEMMA RoomType ==
  ASSUME NEW n \in Nat, NEW i \in 0 .. n
  PROVE  Room(n, i) \in 0 .. Block
<1>1. Block \in Nat \ {0}
  BY SerializationAssumption
<1>2. i % Block \in 0 .. Block - 1
  BY <1>1
<1> QED
  BY <1>1, <1>2 DEF Room

(* What the items of a container are read into, item by item.              *)
ReadInto(f, type, of, s, at, n) ==
  /\ f[0] = Result(TRUE, <<>>, at, 0)
  /\ \A i \in 0 .. n - 1 : f[i + 1] = UnserializeItem(type, of, s, n, i, f[i])
  /\ UnserializeItems(type, of, s, at, n) = f[n]

(* UnserializeItems makes such a function.                                 *)
LEMMA UnserializeItemsDef ==
  ASSUME NEW type, NEW of, NEW s, NEW at, NEW n \in Nat
  PROVE  \E f : ReadInto(f, type, of, s, at, n)
<1> DEFINE a == Result(TRUE, <<>>, at, 0)
           Step(i, x) == UnserializeItem(type, of, s, n, i, x)
           Good(f, m) == f[0] = a /\ \A i \in 1 .. m : f[i] = Step(i - 1, f[i - 1])
           S == {m \in 0 .. n : \E f : Good(f, m)}
<1> HIDE DEF a, Step
<1>1. 0 \in S
  <2> DEFINE f == [i \in 0 .. 0 |-> a]
  <2>1. f[0] = a
    OBVIOUS
  <2> HIDE DEF f
  <2>2. Good(f, 0)
    BY <2>1
  <2> QED
    BY <2>2
<1>2. ASSUME NEW m \in 0 .. n - 1, m \in S PROVE m + 1 \in S
  <2>1. PICK f : Good(f, m)
    BY <1>2
  <2> DEFINE x == Step(m, f[m])
             g == [i \in 0 .. m + 1 |-> IF i = m + 1 THEN x ELSE f[i]]
  <2>2. g[m + 1] = x /\ \A i \in 0 .. m : g[i] = f[i]
    <3> HIDE DEF x
    <3> QED
      OBVIOUS
  <2> HIDE DEF g
  <2>3. ASSUME NEW i \in 1 .. m + 1 PROVE g[i] = Step(i - 1, g[i - 1])
    <3>1. i - 1 \in 0 .. m /\ g[i - 1] = f[i - 1]
      BY <2>2
    <3>2. CASE i = m + 1
      <4>1. i - 1 = m
        BY <3>2
      <4> QED
        BY <2>2, <3>1, <3>2, <4>1
    <3>3. CASE i # m + 1
      <4>1. i \in 1 .. m /\ i \in 0 .. m
        BY <3>3
      <4> QED
        BY <2>1, <2>2, <3>1, <4>1
    <3> QED
      BY <3>2, <3>3
  <2>4. g[0] = a
    BY <2>1, <2>2
  <2>5. Good(g, m + 1)
    BY <2>3, <2>4
  <2> QED
    BY <2>5
<1>3. n \in S
  <2> HIDE DEF S
  <2> QED
    BY <1>1, <1>2, NumbersUpTo
<1>4. PICK h : Good(h, n)
  BY <1>3
<1> DEFINE g == [i \in 0 .. n |-> h[i]]
<1>5. g = [i \in 0 .. n |-> IF i = 0 THEN a ELSE Step(i - 1, g[i - 1])]
  <2>1. \A i \in 0 .. n : g[i] = h[i]
    OBVIOUS
  <2>2. g = [i \in 0 .. n |-> g[i]]
    OBVIOUS
  <2> HIDE DEF g
  <2>3. ASSUME NEW i \in 0 .. n PROVE g[i] = IF i = 0 THEN a ELSE Step(i - 1, g[i - 1])
    <3>1. CASE i = 0
      BY <1>4, <2>1, <3>1
    <3>2. CASE i # 0
      <4>1. i \in 1 .. n /\ i - 1 \in 0 .. n
        BY <3>2
      <4> QED
        BY <1>4, <2>1, <3>2, <4>1
    <3> QED
      BY <3>1, <3>2
  <2> DEFINE k == [i \in 0 .. n |-> IF i = 0 THEN a ELSE Step(i - 1, g[i - 1])]
  <2>4. \A i \in 0 .. n : k[i] = g[i]
    BY <2>3
  <2>5. k = [i \in 0 .. n |-> k[i]]
    OBVIOUS
  <2> HIDE DEF k
  <2>6. k = g
    BY <2>2, <2>4, <2>5
  <2> QED
    BY <2>6 DEF k
<1> HIDE DEF g
<1> DEFINE f == CHOOSE f : f = [i \in 0 .. n |-> IF i = 0 THEN a ELSE Step(i - 1, f[i - 1])]
<1>6. f = [i \in 0 .. n |-> IF i = 0 THEN a ELSE Step(i - 1, f[i - 1])]
  BY <1>5, Zenon
<1>7. UnserializeItems(type, of, s, at, n) = f[n]
  BY Zenon DEF UnserializeItems, a, Step
<1> HIDE DEF f
<1>8. ASSUME NEW i \in 0 .. n - 1 PROVE f[i + 1] = Step(i, f[i])
  <2>1. i + 1 \in 0 .. n /\ i + 1 # 0 /\ (i + 1) - 1 = i
    OBVIOUS
  <2>2. f[i + 1] = Step((i + 1) - 1, f[(i + 1) - 1])
    BY <1>6, <2>1, Zenon
  <2> QED
    BY <2>1, <2>2
<1>9. f[0] = a
  <2>1. 0 \in 0 .. n
    OBVIOUS
  <2> QED
    BY <1>6, <2>1, Zenon
<1> QED
  BY <1>7, <1>8, <1>9 DEF a, Step, ReadInto

-----------------------------------------------------------------------------
(***************************************************************************)
(* Reading what anybody may have written.                                  *)
(***************************************************************************)
(* What a read of a type leaves, of any bytes: it stays within the stream; *)
(* a value of the type, where there is one, would take no more bytes than  *)
(* were taken; and no vector is given more room than a block.              *)
ReadsWithin(T, s, at, r) ==
  /\ r.ok \in BOOLEAN /\ r.at \in at .. Len(s) /\ r.room \in 0 .. Block
  /\ r.ok => r.value \in T.values /\ at + T.size[r.value] <= r.at

Sane(T) == \A s \in Seq(Byte) : \A at \in 0 .. Len(s) : ReadsWithin(T, s, at, T.read[s][at])

(* The same of the first i items of a container, read from start on.       *)
ItemsWithin(type, T, s, start, i, x) ==
  /\ x.ok \in BOOLEAN /\ x.at \in start .. Len(s) /\ x.room \in 0 .. Block
  /\ x.ok => /\ x.value \in Seq(T.values) /\ Len(x.value) <= i
             /\ type.kind \in {"map", "set"} => Ascending(type, x.value)
             /\ start + Total(T.size, x.value) <= x.at
             /\ type.kind = "vector" /\ type.of[1].kind = "number" =>
                  start + i * type.of[1].size <= x.at

(* An item more.                                                           *)
LEMMA WithAnItem ==
  ASSUME NEW type, type.kind \in Containers, NEW V, NEW size, \A y \in V : size[y] \in Nat,
         type.kind \in {"map", "set"} => \A x \in V : Key(type, x) \in Nat,
         NEW items \in Seq(V), NEW x \in V,
         type.kind \in {"map", "set"} => Ascending(type, items)
  PROVE  LET w == IF type.kind = "vector" THEN Append(items, x) ELSE Insert(type, items, x)
         IN  /\ w \in Seq(V) /\ Len(w) <= Len(items) + 1
             /\ type.kind \in {"map", "set"} => Ascending(type, w)
             /\ Total(size, items) \in Nat /\ Total(size, w) \in Nat
             /\ Total(size, w) <= Total(size, items) + size[x]
<1>1. Len(items) \in Nat /\ Total(size, items) \in Nat /\ size[x] \in Nat
  BY LenProperties, TotalAppend
<1>2. CASE type.kind = "vector"
  <2> DEFINE w == Append(items, x)
  <2>1. /\ w \in Seq(V) /\ Len(w) = Len(items) + 1
        /\ Total(size, w) = Total(size, items) + size[x]
    BY AppendProperties, TotalAppend
  <2> HIDE DEF w
  <2>2. /\ w \in Seq(V) /\ Len(w) <= Len(items) + 1
        /\ Total(size, w) \in Nat
        /\ Total(size, w) <= Total(size, items) + size[x]
    BY <1>1, <2>1
  <2> QED
    BY <1>1, <1>2, <2>2 DEF w
<1>3. CASE type.kind \in {"map", "set"}
  <2> DEFINE w == Insert(type, items, x)
  <2>1. w = items \/ (w \in Seq(V) /\ Ascending(type, w) /\ \E p \in Nat : PutIn(w, items, p, x))
    BY <1>3, InsertAscends
  <2> HIDE DEF w
  <2>2. /\ w \in Seq(V) /\ Len(w) <= Len(items) + 1 /\ Ascending(type, w)
        /\ Total(size, w) \in Nat
        /\ Total(size, w) <= Total(size, items) + size[x]
    <3>1. CASE w = items
      BY <1>1, <1>3, <3>1
    <3>2. CASE w # items
      <4>1. w \in Seq(V) /\ Ascending(type, w)
        BY <2>1, <3>2
      <4>2. PICK p : PutIn(w, items, p, x)
        BY <2>1, <3>2
      <4>3. Total(size, w) = Total(size, items) + size[x]
        BY <4>1, <4>2, TotalPutIn
      <4>4. Len(w) = Len(items) + 1
        BY <4>2 DEF PutIn
      <4> QED
        BY <1>1, <4>1, <4>3, <4>4
    <3> QED
      BY <3>1, <3>2
  <2>3. type.kind # "vector"
    BY <1>3
  <2> QED
    BY <1>1, <1>3, <2>2, <2>3 DEF w
<1> QED
  BY <1>2, <1>3 DEF Containers

(* A type of numbers: its values, and what they take.                      *)
LEMMA NumberType ==
  ASSUME NEW type \in Types, type.kind = "number"
  PROVE  /\ type.size \in 1 .. 8
         /\ Template[type].values \subseteq Nat
         /\ \A x \in Template[type].values : Template[type].size[x] = type.size
<1>1. PICK of : Composed(type, of)
  BY TemplateComposed
<1> DEFINE T == Template[type]
           V == Values(type, of)
<1>2. /\ T.values = V
      /\ \A v \in V : T.size[v] = GetSerializeSize(type, of, v)
  <2>1. T = Instantiate(type, of)
    BY <1>1 DEF Composed
  <2> QED
    BY <2>1, InstanceDef
<1>3. type.size \in 1 .. 8 /\ V \subseteq 0 .. Power[type.size] - 1
  BY NumberValues
<1>4. \A v \in V : GetSerializeSize(type, of, v) = type.size
  BY SizeCases
<1>5. V \subseteq Nat
  <2>1. type.size \in 0 .. 8
    BY <1>3
  <2>2. Power[type.size] \in Nat
    BY <2>1, PowerDef
  <2> HIDE DEF V
  <2> QED
    BY <1>3, <2>2
<1> QED
  BY <1>2, <1>3, <1>4, <1>5

(* The items of a container.                                               *)
LEMMA ItemType ==
  ASSUME NEW type \in Types, type.kind \in Containers, NEW of, Composed(type, of)
  PROVE  /\ type.of[1] \in Types /\ of[1] = Template[type.of[1]] /\ 1 \in DOMAIN type.of
         /\ \A x \in of[1].values : of[1].size[x] \in Nat
         /\ type.kind \in {"map", "set"} => \A x \in of[1].values : Key(type, x) \in Nat
         /\ type.of[1].kind = "number" =>
              /\ type.of[1].size \in 1 .. 8
              /\ \A x \in of[1].values : of[1].size[x] = type.of[1].size
<1>1. type.of[1] \in Types /\ 1 \in DOMAIN type.of
  BY PartsOfType
<1>2. of[1] = Template[type.of[1]]
  BY <1>1 DEF Composed
<1>3. WellFormed(type)
  BY SerializationAssumption
<1>4. \A x \in of[1].values : of[1].size[x] \in Nat
  <2>1. Measured(of[1])
    BY <1>1, <1>2, EveryTypeMeasured
  <2> QED
    BY <2>1, LenProperties DEF Measured
<1>5. CASE type.kind = "map"
  <2> DEFINE pair == type.of[1]
  <2>1. pair \in Types /\ pair.kind = "pair" /\ pair.of[1].kind = "number"
    BY <1>1, <1>3, <1>5, Zenon DEF WellFormed
  <2> HIDE DEF pair
  <2>2. PICK o : Composed(pair, o)
    BY <2>1, TemplateComposed
  <2>3. Template[pair] = Instantiate(pair, o)
    BY <2>2 DEF Composed
  <2>4. Template[pair].values = Values(pair, o)
    BY <2>3, InstanceDef
  <2>5. Values(pair, o) = o[1].values \X o[2].values
    BY <2>1 DEF Values, Pairs
  <2>6. pair.of[1] \in Types /\ 1 \in DOMAIN pair.of
    BY <2>1, PartsOfType DEF Pairs
  <2>7. o[1] = Template[pair.of[1]]
    BY <2>2, <2>6 DEF Composed
  <2>8. o[1].values \subseteq Nat
    BY <2>1, <2>6, <2>7, NumberType
  <2>9. of[1].values = o[1].values \X o[2].values
    BY <1>2, <2>4, <2>5 DEF pair
  <2>10. \A x \in of[1].values : x[1] \in Nat
    BY <2>8, <2>9
  <2>11. \A x \in of[1].values : Key(type, x) \in Nat
    BY <1>5, <2>10 DEF Key
  <2>12. type.of[1].kind # "number"
    BY <2>1 DEF pair
  <2> QED
    BY <1>1, <1>2, <1>4, <2>11, <2>12
<1>6. CASE type.kind # "map"
  <2>1. type.of[1].kind = "number" =>
          /\ type.of[1].size \in 1 .. 8 /\ of[1].values \subseteq Nat
          /\ \A x \in of[1].values : of[1].size[x] = type.of[1].size
    BY <1>1, <1>2, NumberType
  <2>2. type.kind = "set" => type.of[1].kind = "number"
    BY <1>3, Zenon DEF WellFormed
  <2>3. type.kind \in {"map", "set"} => \A x \in of[1].values : Key(type, x) \in Nat
    BY <1>6, <2>1, <2>2 DEF Key
  <2> QED
    BY <1>1, <1>2, <1>4, <2>1, <2>3
<1> QED
  BY <1>5, <1>6

(* One item more is read, or the container is given up.                    *)
LEMMA ItemStepWithin ==
  ASSUME NEW type \in Types, type.kind \in Containers, NEW of, Composed(type, of), Sane(of[1]),
         NEW s \in Seq(Byte), NEW start \in 0 .. Len(s), NEW n \in Nat, NEW i \in 0 .. n - 1,
         NEW x, ItemsWithin(type, of[1], s, start, i, x)
  PROVE  ItemsWithin(type, of[1], s, start, i + 1, UnserializeItem(type, of, s, n, i, x))
<1> DEFINE T == of[1]
           V == T.values
           y == UnserializeItem(type, of, s, n, i, x)
           r == T.read[s][x.at]
           most == Larger(Larger(x.room, r.room), IF type.kind = "vector" THEN Room(n, i) ELSE 0)
           w == IF type.kind = "vector" THEN Append(x.value, r.value)
                                        ELSE Insert(type, x.value, r.value)
<1>1. /\ \A v \in V : T.size[v] \in Nat
      /\ type.kind \in {"map", "set"} => \A v \in V : Key(type, v) \in Nat
      /\ type.of[1].kind = "number" =>
           type.of[1].size \in 1 .. 8 /\ \A v \in V : T.size[v] = type.of[1].size
  BY ItemType
<1>2. Len(s) \in Nat /\ Block \in Nat \ {0} /\ i \in Nat /\ start \in Nat
  BY LenProperties, SerializationAssumption
<1>3. /\ x.ok \in BOOLEAN /\ x.at \in start .. Len(s) /\ x.room \in 0 .. Block
      /\ x.ok => /\ x.value \in Seq(V) /\ Len(x.value) <= i
                 /\ type.kind \in {"map", "set"} => Ascending(type, x.value)
                 /\ start + Total(T.size, x.value) <= x.at
                 /\ type.kind = "vector" /\ type.of[1].kind = "number" =>
                      start + i * type.of[1].size <= x.at
  BY DEF ItemsWithin
<1>4. x.at \in 0 .. Len(s)
  BY <1>2, <1>3
<1>5. /\ r.ok \in BOOLEAN /\ r.at \in x.at .. Len(s) /\ r.room \in 0 .. Block
      /\ r.ok => r.value \in V /\ x.at + T.size[r.value] <= r.at
  BY <1>4 DEF Sane, ReadsWithin
<1> HIDE DEF r, T
<1>6. most \in 0 .. Block
  <2>1. Room(n, i) \in 0 .. Block
    <3>1. i \in 0 .. n
      OBVIOUS
    <3> QED
      BY <3>1, RoomType
  <2> QED
    BY <1>2, <1>3, <1>5, <2>1 DEF Larger
<1> HIDE DEF most, w
<1>7. CASE ~ x.ok
  <2>1. y = x
    BY <1>7, Zenon DEF UnserializeItem
  <2> QED
    BY <1>7, <2>1 DEF ItemsWithin
<1>8. CASE x.ok /\ r.ok
  <2>1. y = Result(TRUE, w, r.at, most)
    BY <1>8, Zenon DEF UnserializeItem, r, T, w, most
  <2>2. /\ w \in Seq(V) /\ Len(w) <= Len(x.value) + 1
        /\ type.kind \in {"map", "set"} => Ascending(type, w)
        /\ Total(T.size, x.value) \in Nat /\ Total(T.size, w) \in Nat
        /\ Total(T.size, w) <= Total(T.size, x.value) + T.size[r.value]
    BY <1>1, <1>3, <1>5, <1>8, WithAnItem DEF w
  <2>3. T.size[r.value] \in Nat /\ Len(x.value) \in Nat /\ Len(w) \in Nat
    BY <1>1, <1>3, <1>5, <1>8, <2>2, LenProperties
  <2>4. start + Total(T.size, w) <= r.at /\ Len(w) <= i + 1
    <3> DEFINE a == Total(T.size, x.value)
               b == Total(T.size, w)
               c == T.size[r.value]
    <3>1. a \in Nat /\ b \in Nat /\ c \in Nat /\ b <= a + c /\ start + a <= x.at /\ x.at + c <= r.at
      BY <1>3, <1>5, <1>8, <2>2, <2>3
    <3>2. x.at \in Nat /\ r.at \in Nat
      BY <1>2, <1>3, <1>5
    <3> HIDE DEF a, b, c
    <3>3. start + b <= r.at
      BY <1>2, <3>1, <3>2
    <3>4. Len(w) <= i + 1
      BY <1>2, <1>3, <1>8, <2>2, <2>3
    <3> QED
      BY <3>3, <3>4 DEF b
  <2>5. type.kind = "vector" /\ type.of[1].kind = "number" => start + (i + 1) * type.of[1].size <= r.at
    <3>1. ASSUME type.kind = "vector", type.of[1].kind = "number"
          PROVE  start + (i + 1) * type.of[1].size <= r.at
      <4> DEFINE z == type.of[1].size
      <4>1. z \in Nat /\ T.size[r.value] = z /\ start + i * z <= x.at
        BY <1>1, <1>3, <1>5, <1>8, <3>1
      <4> HIDE DEF z
      <4>2. (i + 1) * z = i * z + z /\ i * z \in Nat
        BY <1>2, <4>1
      <4>3. start + (i + 1) * z <= r.at
        BY <1>2, <1>3, <1>5, <1>8, <4>1, <4>2
      <4> QED
        BY <4>3 DEF z
    <3> QED
      BY <3>1
  <2>6. y.ok = TRUE /\ y.value = w /\ y.at = r.at /\ y.room = most
    BY <2>1 DEF Result
  <2>7. r.at \in start .. Len(s)
    BY <1>2, <1>3, <1>5
  <2> HIDE DEF y, V
  <2>8. ItemsWithin(type, T, s, start, i + 1, y)
    BY <1>6, <2>2, <2>4, <2>5, <2>6, <2>7 DEF ItemsWithin, V
  <2> QED
    BY <2>8 DEF T, y
<1>9. CASE x.ok /\ ~ r.ok
  <2>1. y = Result(FALSE, <<>>, Begun(type, r.at, i), most)
    BY <1>9, Zenon DEF UnserializeItem, r, T, most
  <2>2. Begun(type, r.at, i) \in start .. Len(s)
    <3>1. CASE type.kind = "vector" /\ type.of[1].kind = "number"
      <4> DEFINE z == type.of[1].size
                 m == i % Block
      <4>1. z \in Nat /\ start + i * z <= x.at
        BY <1>1, <1>3, <1>9, <3>1, SMTT(30)
      <4>2. m \in Nat /\ m <= i
        <5>1. i \div Block \in Nat /\ m \in 0 .. Block - 1 /\ i = m + Block * (i \div Block)
          BY <1>2, DivMod
        <5>2. Block * (i \div Block) \in Nat
          <6>1. \A a, b \in Nat : a * b \in Nat
            OBVIOUS
          <6> QED
            BY <1>2, <5>1, <6>1
        <5> QED
          BY <1>2, <5>1, <5>2
      <4>3. Begun(type, r.at, i) = r.at - m * z
        BY <3>1, Zenon DEF Begun
      <4> HIDE DEF z, m
      <4>4. m * z \in Nat /\ m * z <= i * z /\ i * z \in Nat
        <5>1. \A a, b, c \in Nat : a <= b => a * c <= b * c
          OBVIOUS
        <5>2. \A a, b \in Nat : a * b \in Nat
          OBVIOUS
        <5> QED
          BY <1>2, <4>1, <4>2, <5>1, <5>2
      <4> QED
        BY <1>2, <1>3, <1>5, <4>1, <4>3, <4>4
    <3>2. CASE ~ (type.kind = "vector" /\ type.of[1].kind = "number")
      <4>1. Begun(type, r.at, i) = r.at
        BY <3>2, Zenon DEF Begun
      <4> QED
        BY <1>2, <1>3, <1>5, <4>1
    <3> QED
      BY <3>1, <3>2
  <2> DEFINE b == Begun(type, r.at, i)
  <2> HIDE DEF b
  <2>3. y.ok = FALSE /\ y.at = b /\ y.room = most
    BY <2>1 DEF Result, b
  <2> HIDE DEF y
  <2>4. ItemsWithin(type, T, s, start, i + 1, y)
    BY <1>6, <2>2, <2>3 DEF ItemsWithin, b
  <2> QED
    BY <2>4 DEF T, y
<1> QED
  BY <1>3, <1>5, <1>7, <1>8, <1>9

(* Reading, by the kind of the type.                                       *)
LEMMA UnserializeCases ==
  ASSUME NEW type, NEW of, NEW s, NEW at
  PROVE  LET block == read(s, at, type.size)
             nSize == ReadSize(s, at)
             r     == Unserialize(type, of, s, at)
         IN  /\ type.kind = "number" => r = ReadNumber(s, at, type.size)
             /\ type.kind = "bool" =>
                  r = IF block.ok THEN With(block, IF block.value = <<0>> THEN 0 ELSE 1) ELSE block
             /\ type.kind = "flat" => r = block
             /\ type.kind = "fixed" =>
                  r = IF type.const THEN Result(FALSE, <<>>, at, 0)
                      ELSE IF block.ok THEN With(block, UpToNul(block.value)) ELSE block
             /\ type.kind = "string" =>
                  r = IF nSize.ok THEN read(s, nSize.at, nSize.value) ELSE nSize
             /\ type.kind \in Pairs => r = UnserializePair(of, s, at)
             /\ type.kind \in Containers =>
                  r = IF nSize.ok THEN UnserializeItems(type, of, s, nSize.at, nSize.value) ELSE nSize
<1>1. CASE type.kind = "number"
  BY <1>1 DEF Unserialize, Pairs, Containers
<1>2. CASE type.kind = "bool"
  BY <1>2 DEF Unserialize, Pairs, Containers
<1>3. CASE type.kind = "flat"
  BY <1>3 DEF Unserialize, Pairs, Containers
<1>4. CASE type.kind = "fixed"
  BY <1>4 DEF Unserialize, Pairs, Containers
<1>5. CASE type.kind = "string"
  BY <1>5 DEF Unserialize, Pairs, Containers
<1>6. CASE type.kind \in Pairs
  BY <1>6 DEF Unserialize, Pairs, Containers
<1>7. CASE type.kind \in Containers
  BY <1>7 DEF Unserialize, Pairs, Containers
<1> QED
  BY <1>1, <1>2, <1>3, <1>4, <1>5, <1>6, <1>7

(* All items of a container, behind its size.                              *)
LEMMA ItemsAreWithin ==
  ASSUME NEW type \in Types, type.kind \in Containers, NEW of, Composed(type, of), Sane(of[1]),
         NEW s \in Seq(Byte), NEW start \in 0 .. Len(s), NEW n \in Nat
  PROVE  ItemsWithin(type, of[1], s, start, n, UnserializeItems(type, of, s, start, n))
<1> DEFINE T == of[1]
<1>1. PICK f : ReadInto(f, type, of, s, start, n)
  BY UnserializeItemsDef
<1> DEFINE S == {i \in 0 .. n : ItemsWithin(type, T, s, start, i, f[i])}
<1>2. Len(s) \in Nat /\ Block \in Nat \ {0} /\ start \in Nat
  BY LenProperties, SerializationAssumption
<1>3. 0 \in S
  <2> DEFINE x == f[0]
  <2>1. x.ok = TRUE /\ x.value = <<>> /\ x.at = start /\ x.room = 0
    BY <1>1 DEF Result, ReadInto
  <2>2. Total(T.size, <<>>) = 0
    BY TotalEmpty
  <2>3. <<>> \in Seq(T.values) /\ Len(<<>>) = 0 /\ Ascending(type, <<>>)
    BY EmptySeq DEF Ascending
  <2>4. type.kind = "vector" /\ type.of[1].kind = "number" => 0 * type.of[1].size = 0
    <3>1. ASSUME type.of[1].kind = "number" PROVE 0 * type.of[1].size = 0
      <4>1. type.of[1].size \in 1 .. 8
        BY <3>1, ItemType
      <4> QED
        BY <4>1
    <3> QED
      BY <3>1
  <2> HIDE DEF x, T
  <2>5. ItemsWithin(type, T, s, start, 0, x)
    <3>1. x.ok \in BOOLEAN /\ x.at \in start .. Len(s) /\ x.room \in 0 .. Block
      <4>1. x.ok \in BOOLEAN
        BY <2>1
      <4>2. start \in start .. Len(s) /\ 0 \in 0 .. Block
        BY <1>2
      <4> QED
        BY <2>1, <4>1, <4>2
    <3>2. x.value \in Seq(T.values) /\ Len(x.value) <= 0 /\ Ascending(type, x.value)
      BY <2>1, <2>3
    <3>3. start + Total(T.size, x.value) <= x.at
      BY <1>2, <2>1, <2>2
    <3>4. type.kind = "vector" /\ type.of[1].kind = "number" => start + 0 * type.of[1].size <= x.at
      BY <1>2, <2>1, <2>4
    <3> QED
      BY <3>1, <3>2, <3>3, <3>4 DEF ItemsWithin
  <2> QED
    BY <2>5 DEF x
<1>4. ASSUME NEW i \in 0 .. n - 1, i \in S PROVE i + 1 \in S
  <2>1. ItemsWithin(type, T, s, start, i + 1, UnserializeItem(type, of, s, n, i, f[i]))
    BY <1>4, ItemStepWithin
  <2>2. f[i + 1] = UnserializeItem(type, of, s, n, i, f[i])
    BY <1>1 DEF ReadInto
  <2>3. i + 1 \in 0 .. n
    OBVIOUS
  <2> QED
    BY <2>1, <2>2, <2>3
<1>5. n \in S
  <2> HIDE DEF S
  <2>1. \A i \in 0 .. n : i \in S
    BY <1>3, <1>4, NumbersUpTo
  <2> QED
    BY <2>1
<1> QED
  BY <1>1, <1>5 DEF ReadInto

(* What is read for a type that is not composed.                           *)
LEMMA BasicWithin ==
  ASSUME NEW type \in Types, type.kind \in Basic, NEW of, Composed(type, of),
         NEW s \in Seq(Byte), NEW at \in 0 .. Len(s)
  PROVE  ReadsWithin(Template[type], s, at, Unserialize(type, of, s, at))
<1> DEFINE T == Template[type]
           V == Values(type, of)
           r == Unserialize(type, of, s, at)
           block == read(s, at, type.size)
<1>1. T.values = V /\ \A v \in V : T.size[v] = GetSerializeSize(type, of, v)
  <2>1. T = Instantiate(type, of)
    BY DEF Composed
  <2> QED
    BY <2>1, InstanceDef
<1>2. WellFormed(type) /\ Block \in Nat \ {0}
  BY SerializationAssumption
<1>3. at \in Nat /\ Len(s) \in Nat
  BY LenProperties
<1> HIDE DEF T, V
<1>4. ASSUME NEW q, NEW k \in Nat, Within(q, s, at, k),
             q.ok => q.value \in V /\ GetSerializeSize(type, of, q.value) = k
      PROVE  ReadsWithin(T, s, at, q)
  BY <1>1, <1>2, <1>4 DEF ReadsWithin, Within
<1>5. type.kind \in {"bool", "flat", "fixed"} =>
        /\ type.size \in Nat
        /\ Within(block, s, at, type.size)
        /\ block.ok => block.value \in Seq(Byte) /\ Len(block.value) = type.size
  <2>1. type.kind \in {"bool", "flat", "fixed"} => type.size \in Nat
    BY <1>2 DEF WellFormed, Wrappers
  <2> QED
    BY <2>1, ReadWithin
<1>6. CASE type.kind = "number"
  <2>1. r = ReadNumber(s, at, type.size)
    BY <1>6 DEF Unserialize, Pairs, Containers
  <2>2. type.size \in 1 .. 8 /\ V = 0 .. Power[type.size] - 1
    BY <1>6, NumberValues, ValuesCases DEF V
  <2>3. Within(r, s, at, type.size) /\ (r.ok => r.value \in V)
    BY <2>1, <2>2, ReadNumberWithin
  <2> HIDE DEF r
  <2>4. GetSerializeSize(type, of, r.value) = type.size
    BY <1>6 DEF GetSerializeSize, Pairs, Containers
  <2>5. ReadsWithin(T, s, at, r)
    BY <1>4, <2>2, <2>3, <2>4
  <2> QED
    BY <2>5 DEF r, T
<1>7. CASE type.kind = "bool"
  <2> DEFINE b == IF block.value = <<0>> THEN 0 ELSE 1
  <2>1. r = IF block.ok THEN With(block, b) ELSE block
    BY <1>7 DEF Unserialize, Pairs, Containers
  <2>2. b \in V
    BY <1>7, ValuesCases DEF V
  <2> HIDE DEF r, block, b
  <2>3. Within(r, s, at, type.size) /\ (r.ok => r.value = b)
    <3>1. Within(block, s, at, type.size)
      BY <1>5, <1>7
    <3>2. CASE block.ok
      <4>1. r = With(block, b)
        BY <2>1, <3>2
      <4>2. r.ok = block.ok /\ r.value = b /\ r.at = block.at /\ r.room = block.room
        BY <4>1, WithFields
      <4> QED
        BY <3>1, <4>2 DEF Within
    <3>3. CASE ~ block.ok
      BY <2>1, <3>1, <3>3
    <3> QED
      BY <3>2, <3>3
  <2>4. GetSerializeSize(type, of, r.value) = type.size
    BY <1>7 DEF GetSerializeSize, Pairs, Containers
  <2>5. ReadsWithin(T, s, at, r)
    BY <1>4, <1>5, <1>7, <2>2, <2>3, <2>4
  <2> QED
    BY <2>5 DEF r, T
<1>8. CASE type.kind = "flat"
  <2>1. r = block
    BY <1>8 DEF Unserialize, Pairs, Containers
  <2>2. V = {v \in Seq(Byte) : Len(v) = type.size}
    BY <1>8, ValuesCases DEF V
  <2> HIDE DEF r, block
  <2>3. GetSerializeSize(type, of, r.value) = type.size
    BY <1>8 DEF GetSerializeSize, Pairs, Containers
  <2>4. ReadsWithin(T, s, at, r)
    BY <1>4, <1>5, <1>8, <2>1, <2>2, <2>3
  <2> QED
    BY <2>4 DEF r, T
<1>9. CASE type.kind = "fixed"
  <2> DEFINE b == UpToNul(block.value)
  <2>1. r = IF type.const THEN Result(FALSE, <<>>, at, 0)
            ELSE IF block.ok THEN With(block, b) ELSE block
    BY <1>9 DEF Unserialize, Pairs, Containers
  <2>2. V = Seq(Byte)
    BY <1>9, ValuesCases DEF V
  <2> HIDE DEF r, block, b
  <2>3. Within(r, s, at, type.size) /\ (r.ok => r.value \in V)
    <3>1. CASE type.const
      <4>1. r = Result(FALSE, <<>>, at, 0)
        BY <2>1, <3>1
      <4>2. r.ok = FALSE /\ r.at = at /\ r.room = 0
        BY <4>1 DEF Result
      <4> QED
        <5>1. ~ r.ok /\ r.ok \in BOOLEAN
          BY <4>2
        <5>2. at \in at .. Len(s)
          BY <1>3
        <5> QED
          BY <4>2, <5>1, <5>2 DEF Within
    <3>2. CASE ~ type.const /\ block.ok
      <4>1. r = With(block, b)
        BY <2>1, <3>2
      <4>2. r.ok = block.ok /\ r.value = b /\ r.at = block.at /\ r.room = block.room
        BY <4>1, WithFields
      <4>3. b \in Seq(Byte)
        BY <1>5, <1>9, <3>2, UpToNulType DEF b
      <4> QED
        BY <1>5, <1>9, <2>2, <4>2, <4>3 DEF Within
    <3>3. CASE ~ type.const /\ ~ block.ok
      <4>1. r = block
        BY <2>1, <3>3
      <4> QED
        BY <1>5, <1>9, <3>3, <4>1
    <3> QED
      BY <3>1, <3>2, <3>3
  <2>4. GetSerializeSize(type, of, r.value) = type.size
    BY <1>9 DEF GetSerializeSize, Pairs, Containers
  <2>5. ReadsWithin(T, s, at, r)
    BY <1>4, <1>5, <1>9, <2>3, <2>4
  <2> QED
    BY <2>5 DEF r, T
<1>11. CASE type.kind = "string"
  <2> DEFINE nSize == ReadSize(s, at)
             q == read(s, nSize.at, nSize.value)
  <2>1. r = IF nSize.ok THEN q ELSE nSize
    BY <1>11 DEF Unserialize, Pairs, Containers
  <2>2. /\ Within(nSize, s, at, 1)
        /\ nSize.ok => nSize.value \in 0 .. UINT_MAX /\ at + GetSizeOfCompactSize(nSize.value) <= nSize.at
    BY ReadSizeWithin
  <2>3. V = Sized(Seq(Byte))
    BY <1>11, ValuesCases DEF V
  <2> HIDE DEF nSize
  <2>4. CASE ~ nSize.ok
    <3>1. r = nSize
      BY <2>1, <2>4
    <3> HIDE DEF r
    <3>2. ReadsWithin(T, s, at, r)
      BY <1>2, <2>2, <2>4, <3>1 DEF ReadsWithin, Within
    <3> QED
      BY <3>2 DEF r, T
  <2>5. CASE nSize.ok
    <3>1. r = q
      BY <2>1, <2>5
    <3>2. nSize.at \in 0 .. Len(s) /\ nSize.value \in Nat /\ at <= nSize.at /\ nSize.value <= UINT_MAX
      BY <1>3, <2>2, <2>5, Limits DEF Within
    <3>3. Within(q, s, nSize.at, nSize.value)
          /\ (q.ok => q.value \in Seq(Byte) /\ Len(q.value) = nSize.value)
      BY <3>2, ReadWithin
    <3> HIDE DEF r, q
    <3>4. GetSizeOfCompactSize(nSize.value) \in Nat
      BY DEF GetSizeOfCompactSize
    <3> DEFINE k == GetSizeOfCompactSize(nSize.value) + nSize.value
    <3>5. Within(r, s, at, k)
      BY <1>3, <2>2, <2>5, <3>1, <3>2, <3>3, <3>4 DEF Within
    <3>6. r.ok => r.value \in V /\ GetSerializeSize(type, of, r.value) = k
      <4>1. GetSerializeSize(type, of, r.value) = GetSizeOfCompactSize(Len(r.value)) + Len(r.value)
        BY <1>11 DEF GetSerializeSize, Pairs, Containers
      <4> QED
        BY <2>3, <3>1, <3>2, <3>3, <4>1 DEF Sized
    <3>7. k \in Nat
      BY <3>2, <3>4
    <3> HIDE DEF k
    <3>8. ReadsWithin(T, s, at, r)
      BY <1>4, <3>5, <3>6, <3>7
    <3> QED
      BY <3>8 DEF r, T
  <2> QED
    BY <2>4, <2>5
<1>10. type.kind \in {"number", "bool", "string", "flat", "fixed"}
  BY DEF Basic
<1> QED
  BY <1>6, <1>7, <1>8, <1>9, <1>10, <1>11

(* What is read for a container.                                           *)
LEMMA ContainerWithin ==
  ASSUME NEW type \in Types, type.kind \in Containers, NEW of, Composed(type, of), Sane(of[1]),
         NEW s \in Seq(Byte), NEW at \in 0 .. Len(s)
  PROVE  ReadsWithin(Template[type], s, at, Unserialize(type, of, s, at))
<1> DEFINE T == Template[type]
           V == Values(type, of)
           r == Unserialize(type, of, s, at)
           nSize == ReadSize(s, at)
           q == UnserializeItems(type, of, s, nSize.at, nSize.value)
<1>1. T.values = V /\ \A v \in V : T.size[v] = GetSerializeSize(type, of, v)
  <2>1. T = Instantiate(type, of)
    BY DEF Composed
  <2> QED
    BY <2>1, InstanceDef
<1>2. Block \in Nat \ {0} /\ Len(s) \in Nat /\ at \in Nat
  BY SerializationAssumption, LenProperties
<1>3. r = IF nSize.ok THEN q ELSE nSize
  BY DEF Unserialize, Pairs, Containers
<1>4. /\ Within(nSize, s, at, 1)
      /\ nSize.ok => nSize.value \in 0 .. UINT_MAX /\ at + GetSizeOfCompactSize(nSize.value) <= nSize.at
  BY ReadSizeWithin
<1> HIDE DEF nSize, T
<1>5. CASE ~ nSize.ok
  <2>1. r = nSize
    BY <1>3, <1>5
  <2> HIDE DEF r
  <2>2. ReadsWithin(T, s, at, r)
    BY <1>2, <1>4, <1>5, <2>1 DEF ReadsWithin, Within
  <2> QED
    BY <2>2 DEF r, T
<1>6. CASE nSize.ok
  <2>1. r = q
    BY <1>3, <1>6
  <2> DEFINE n == nSize.value
  <2>2. nSize.at \in 0 .. Len(s) /\ n \in Nat /\ at <= nSize.at /\ n <= UINT_MAX
        /\ at + GetSizeOfCompactSize(n) <= nSize.at
    BY <1>2, <1>4, <1>6, Limits DEF Within
  <2>3. ItemsWithin(type, of[1], s, nSize.at, n, q)
    BY <2>2, ItemsAreWithin
  <2> HIDE DEF r, q, V, n
  <2>4. ASSUME r.ok PROVE r.value \in V /\ at + GetSerializeSize(type, of, r.value) <= r.at
    <3> DEFINE v == r.value
               t == Total(of[1].size, v)
    <3>1. /\ v \in Seq(of[1].values) /\ Len(v) <= n
          /\ type.kind \in {"map", "set"} => Ascending(type, v)
          /\ nSize.at + t <= r.at
      BY <2>1, <2>3, <2>4 DEF ItemsWithin
    <3>2. GetSerializeSize(type, of, v) = GetSizeOfCompactSize(Len(v)) + t
      BY DEF GetSerializeSize, Pairs, Containers, Total
    <3>3. Len(v) \in Nat
      BY <3>1, LenProperties
    <3>4. t \in Nat
      <4>1. \A x \in of[1].values : of[1].size[x] \in Nat
        BY ItemType
      <4> QED
        BY <3>1, <4>1, TotalType
    <3> HIDE DEF t, v
    <3>5. GetSizeOfCompactSize(Len(v)) \in Nat /\ GetSizeOfCompactSize(n) \in Nat
          /\ GetSizeOfCompactSize(Len(v)) <= GetSizeOfCompactSize(n)
      BY <2>2, <3>1, <3>3, CompactSizeGrows
    <3>6. v \in V
      <4>1. Len(v) <= UINT_MAX
        BY <2>2, <3>1, <3>3, Limits
      <4>2. v \in Sized(Seq(of[1].values))
        BY <3>1, <4>1 DEF Sized
      <4>3. CASE type.kind = "vector"
        BY <4>2, <4>3, ValuesCases DEF V
      <4>4. CASE type.kind \in {"map", "set"}
        <5>1. V = {w \in Sized(Seq(of[1].values)) :
                   \A i \in DOMAIN w, j \in DOMAIN w : i < j => Key(type, w[i]) < Key(type, w[j])}
          BY <4>4, ValuesCases DEF V
        <5> QED
          BY <3>1, <4>2, <4>4, <5>1 DEF Ascending
      <4> QED
        BY <4>3, <4>4 DEF Containers
    <3>7. r.at \in Nat
      BY <1>2, <2>1, <2>2, <2>3 DEF ItemsWithin
    <3>8. at + (GetSizeOfCompactSize(Len(v)) + t) <= r.at
      BY <1>2, <2>2, <3>1, <3>4, <3>5, <3>7
    <3>9. v \in V /\ at + GetSerializeSize(type, of, v) <= r.at
      BY <3>2, <3>6, <3>8
    <3> QED
      BY <3>9 DEF v
  <2>5. r.ok \in BOOLEAN /\ r.at \in at .. Len(s) /\ r.room \in 0 .. Block
    BY <1>2, <2>1, <2>2, <2>3 DEF ItemsWithin
  <2>6. ReadsWithin(T, s, at, r)
    BY <1>1, <2>4, <2>5 DEF ReadsWithin, V
  <2> QED
    BY <2>6 DEF r, T
<1> QED
  BY <1>5, <1>6

(* What is read for a pair, a part behind the other.                       *)
LEMMA PairWithin ==
  ASSUME NEW type \in Types, type.kind \in Pairs, NEW of, Composed(type, of),
         Sane(of[1]), Sane(of[2]),
         \A x \in of[1].values : of[1].size[x] \in Nat,
         \A x \in of[2].values : of[2].size[x] \in Nat,
         NEW s \in Seq(Byte), NEW at \in 0 .. Len(s)
  PROVE  ReadsWithin(Template[type], s, at, Unserialize(type, of, s, at))
<1> DEFINE T == Template[type]
           V == Values(type, of)
           r == Unserialize(type, of, s, at)
           first  == of[1].read[s][at]
           second == of[2].read[s][first.at]
<1>1. T.values = V /\ \A v \in V : T.size[v] = GetSerializeSize(type, of, v)
  <2>1. T = Instantiate(type, of)
    BY DEF Composed
  <2> QED
    BY <2>1, InstanceDef
<1>2. Block \in Nat \ {0} /\ Len(s) \in Nat /\ at \in Nat
  BY SerializationAssumption, LenProperties
<1>3. r = UnserializePair(of, s, at)
  BY DEF Unserialize, Pairs, Containers
<1>4. ReadsWithin(of[1], s, at, first)
  BY DEF Sane
<1> HIDE DEF first, T
<1>5. first.at \in 0 .. Len(s)
  BY <1>2, <1>4 DEF ReadsWithin
<1>6. ReadsWithin(of[2], s, first.at, second)
  BY <1>5 DEF Sane
<1> HIDE DEF second
<1>7. CASE ~ first.ok
  <2>1. r = first
    BY <1>3, <1>7, Zenon DEF UnserializePair, first
  <2> HIDE DEF r
  <2>2. ReadsWithin(T, s, at, r)
    BY <1>4, <1>7, <2>1 DEF ReadsWithin
  <2> QED
    BY <2>2 DEF r, T
<1>8. CASE first.ok
  <2> DEFINE v == <<first.value, second.value>>
             m == Larger(first.room, second.room)
  <2>1. r = Result(second.ok, v, second.at, m)
    BY <1>3, <1>8, Zenon DEF UnserializePair, first, second
  <2>2. m \in 0 .. Block
    BY <1>4, <1>6 DEF ReadsWithin, Larger
  <2>3. (r.ok <=> second.ok) /\ r.ok = second.ok /\ r.value = v /\ r.at = second.at /\ r.room = m
    <3> HIDE DEF r, v, m
    <3> QED
      BY <2>1 DEF Result
  <2>4. v[1] = first.value /\ v[2] = second.value
    OBVIOUS
  <2>5. V = of[1].values \X of[2].values
    BY ValuesCases
  <2> HIDE DEF r, m, V
  <2>6. ASSUME r.ok PROVE r.value \in V /\ at + GetSerializeSize(type, of, r.value) <= r.at
    <3>1. second.ok
      BY <2>3, <2>6
    <3>2. first.value \in of[1].values /\ second.value \in of[2].values
      BY <1>4, <1>6, <1>8, <3>1 DEF ReadsWithin
    <3>3. v \in V
      BY <2>5, <3>2
    <3> HIDE DEF v
    <3>4. GetSerializeSize(type, of, v) = of[1].size[first.value] + of[2].size[second.value]
      <4>1. GetSerializeSize(type, of, v) = of[1].size[v[1]] + of[2].size[v[2]]
        BY DEF GetSerializeSize, Pairs, Containers
      <4> QED
        BY <2>4, <4>1
    <3>5. of[1].size[first.value] \in Nat /\ of[2].size[second.value] \in Nat
      BY <3>2
    <3>6. at + of[1].size[first.value] <= first.at /\ first.at + of[2].size[second.value] <= second.at
          /\ second.at \in Nat /\ first.at \in Nat
      BY <1>2, <1>4, <1>5, <1>6, <1>8, <3>1 DEF ReadsWithin
    <3>7. at + GetSerializeSize(type, of, v) <= second.at
      <4> DEFINE a == of[1].size[first.value]
                 b == of[2].size[second.value]
      <4>1. a \in Nat /\ b \in Nat /\ at + a <= first.at /\ first.at + b <= second.at
        BY <3>5, <3>6
      <4> HIDE DEF a, b
      <4>2. at + (a + b) <= second.at
        BY <1>2, <3>6, <4>1
      <4> QED
        BY <3>4, <4>2 DEF a, b
    <3> QED
      BY <2>3, <3>3, <3>7
  <2>7. r.ok \in BOOLEAN /\ r.at \in at .. Len(s) /\ r.room \in 0 .. Block
    BY <1>2, <1>4, <1>5, <1>6, <2>2, <2>3 DEF ReadsWithin
  <2>8. ReadsWithin(T, s, at, r)
    BY <1>1, <2>6, <2>7 DEF ReadsWithin, V
  <2> QED
    BY <2>8 DEF r, T
<1> QED
  BY <1>7, <1>8

(* Whatever stands in a stream, every type is read so.                     *)
LEMMA EveryTypeSane ==
  ASSUME NEW type \in Types
  PROVE  Sane(Template[type])
<1> DEFINE S == {t \in Types : Sane(Template[t])}
<1>1. ASSUME NEW t \in Types, \A i \in DOMAIN t.of : t.of[i] \in S PROVE t \in S
  <2>1. PICK of : Composed(t, of)
    BY TemplateComposed
  <2>2. \A i \in DOMAIN t.of : t.of[i] \in Types /\ of[i] = Template[t.of[i]] /\ Sane(of[i])
    BY <1>1, <2>1, PartsOfType DEF Composed
  <2>3. ASSUME NEW i \in DOMAIN t.of PROVE \A x \in of[i].values : of[i].size[x] \in Nat
    <3>1. Measured(of[i])
      BY <2>2, EveryTypeMeasured
    <3> QED
      BY <3>1, LenProperties DEF Measured
  <2>4. ASSUME NEW s \in Seq(Byte), NEW at \in 0 .. Len(s)
        PROVE  ReadsWithin(Template[t], s, at, Template[t].read[s][at])
    <3>1. Template[t].read[s][at] = Unserialize(t, of, s, at)
      <4>1. at \in Nat
        OBVIOUS
      <4>2. Template[t] = Instantiate(t, of)
        BY <2>1 DEF Composed
      <4> QED
        BY <4>1, <4>2, InstanceDef
    <3>2. CASE t.kind \in Basic
      BY <2>1, <3>1, <3>2, BasicWithin
    <3>3. CASE t.kind \in Containers
      <4>1. Sane(of[1])
        BY <2>2, <3>3, PartsOfType
      <4> QED
        BY <2>1, <3>1, <3>3, <4>1, ContainerWithin
    <3>4. CASE t.kind \in Pairs
      <4>1. 1 \in DOMAIN t.of /\ 2 \in DOMAIN t.of
        BY <3>4, PartsOfType
      <4>2. Sane(of[1]) /\ Sane(of[2])
        BY <2>2, <4>1
      <4>3. /\ \A x \in of[1].values : of[1].size[x] \in Nat
            /\ \A x \in of[2].values : of[2].size[x] \in Nat
        BY <2>3, <4>1
      <4>4. ReadsWithin(Template[t], s, at, Unserialize(t, of, s, at))
        BY <2>1, <3>4, <4>2, <4>3, PairWithin
      <4> QED
        BY <3>1, <4>4
    <3> QED
      BY <3>2, <3>3, <3>4, PartsOfType
  <2> QED
    BY <2>4 DEF Sane
<1> HIDE DEF S
<1>2. \A t \in Types : t \in S
  BY <1>1, TypeInduction
<1> QED
  BY <1>2 DEF S

-----------------------------------------------------------------------------
(***************************************************************************)
(* Reading what was written by Serialize.                                  *)
(***************************************************************************)
(* A read of what was written gives back what the type keeps of a value;   *)
(* a const string throws.                                                  *)
Returns(type, r, s, at, x, value) ==
  IF Const(type) THEN ~ r.ok ELSE Restores(r, s, at, x, Kept(type, value))

Faithful(type, T) ==
  T.readable =>
    \A value \in T.values : \A s \in Seq(Byte) : \A at \in 0 .. Len(s) :
      Carries(s, at, T.bytes[value]) =>
        Returns(type, T.read[s][at], s, at, T.bytes[value], value)

(* A block, with what is made of it.                                       *)
LEMMA BlockRestores ==
  ASSUME NEW s \in Seq(Byte), NEW at \in 0 .. Len(s), NEW x \in Seq(Byte), Carries(s, at, x),
         NEW size, size = Len(x), NEW r, NEW w, NEW value,
         LET block == read(s, at, size)
         IN  /\ r = IF block.ok THEN With(block, w) ELSE block
             /\ block.value = x => w = value
  PROVE  Restores(r, s, at, x, value)
<1> DEFINE block == read(s, at, size)
<1>1. Restores(block, s, at, x, x)
  BY ReadRestores
<1>2. (r = IF block.ok THEN With(block, w) ELSE block) /\ (block.value = x => w = value)
  OBVIOUS
<1> HIDE DEF block
<1>3. CASE block.ok
  <2>1. r = With(block, w)
    BY <1>2, <1>3
  <2>2. r.ok = block.ok /\ r.value = w /\ r.at = block.at
    BY <2>1, WithFields
  <2> QED
    BY <1>1, <1>2, <1>3, <2>2 DEF Restores
<1>4. CASE ~ block.ok
  <2>1. r = block
    BY <1>2, <1>4
  <2> QED
    BY <1>1, <1>4, <2>1 DEF Restores
<1> QED
  BY <1>3, <1>4

(* A type that is not composed is read back.                               *)
LEMMA BasicReturns ==
  ASSUME NEW type \in Types, type.kind \in Basic, NEW of, NEW value \in Values(type, of),
         NEW s \in Seq(Byte), NEW at \in 0 .. Len(s),
         Carries(s, at, Serialize(type, of, value))
  PROVE  Returns(type, Unserialize(type, of, s, at), s, at, Serialize(type, of, value), value)
<1> DEFINE r == Unserialize(type, of, s, at)
           x == Serialize(type, of, value)
<1>1. WellFormed(type)
  BY SerializationAssumption
<1>2. CASE type.kind = "number"
  <2>1. type.size \in 1 .. 8 /\ value \in 0 .. Power[type.size] - 1
    BY <1>2, NumberValues
  <2>2. x = Bytes(value, type.size)
    BY <1>2 DEF Serialize, Pairs, Containers
  <2>3. r = ReadNumber(s, at, type.size)
    BY <1>2 DEF Unserialize, Pairs, Containers
  <2>4. Restores(ReadNumber(s, at, type.size), s, at, Bytes(value, type.size), value)
    BY <2>1, <2>2, ReadNumberRestores
  <2>5. Restores(r, s, at, x, value)
    BY <2>2, <2>3, <2>4
  <2> HIDE DEF r, x
  <2>6. Returns(type, r, s, at, x, value)
    BY <1>2, <2>5 DEF Returns, Const, Kept
  <2> QED
    BY <2>6 DEF r, x
<1>3. CASE type.kind = "bool"
  <2>1. value \in {0, 1} /\ type.size = 1
    BY <1>1, <1>3, ValuesCases DEF WellFormed
  <2>2. x = Bytes(value, 1)
    BY <1>3, <2>1 DEF Serialize, Pairs, Containers
  <2>3. value \in Byte
    BY <2>1, BaseAssumption DEF Byte
  <2>4. x = <<value>>
    BY <2>2, <2>3, OneByte
  <2>5. x \in Seq(Byte) /\ Len(x) = 1
    BY <2>3, <2>4
  <2> DEFINE block == read(s, at, type.size)
             w == IF block.value = <<0>> THEN 0 ELSE 1
  <2>6. r = IF block.ok THEN With(block, w) ELSE block
    BY <1>3 DEF Unserialize, Pairs, Containers
  <2>7. block.value = x => w = value
    <3> HIDE DEF block
    <3> QED
      BY <2>1, <2>4
  <2>8. Carries(s, at, x)
    OBVIOUS
  <2> HIDE DEF r, x, w
  <2>9. Restores(r, s, at, x, value)
    BY <2>1, <2>5, <2>6, <2>7, <2>8, BlockRestores
  <2>10. Returns(type, r, s, at, x, value)
    BY <1>3, <2>9 DEF Returns, Const, Kept
  <2> QED
    BY <2>10 DEF r, x
<1>4. CASE type.kind = "flat"
  <2>1. value \in Seq(Byte) /\ Len(value) = type.size
    BY <1>4, ValuesCases
  <2>2. x = value
    BY <1>4 DEF Serialize, Pairs, Containers
  <2>3. r = read(s, at, Len(value))
    BY <1>4, <2>1 DEF Unserialize, Pairs, Containers
  <2>4. Restores(read(s, at, Len(value)), s, at, value, value)
    BY <2>1, <2>2, ReadRestores
  <2> HIDE DEF r, x
  <2>5. Returns(type, r, s, at, x, value)
    BY <1>4, <2>2, <2>3, <2>4 DEF Returns, Const, Kept
  <2> QED
    BY <2>5 DEF r, x
<1>5. CASE type.kind = "fixed"
  <2>1. value \in Seq(Byte) /\ type.size \in Nat
    BY <1>1, <1>5, ValuesCases DEF WellFormed, Wrappers
  <2>2. x = FixedField(value, type.size)
    BY <1>5 DEF Serialize, Pairs, Containers
  <2>3. x \in Seq(Byte) /\ Len(x) = type.size
    BY <2>1, <2>2, FixedFieldType
  <2> DEFINE block == read(s, at, type.size)
             w == UpToNul(block.value)
             k == UpToNul(FixedField(value, type.size))
  <2>4. r = IF type.const THEN Result(FALSE, <<>>, at, 0)
            ELSE IF block.ok THEN With(block, w) ELSE block
    BY <1>5 DEF Unserialize, Pairs, Containers
  <2>5. block.value = x => w = k
    BY <2>2
  <2>6. Carries(s, at, x)
    OBVIOUS
  <2>7. Kept(type, value) = k
    BY <1>5, Zenon DEF Kept
  <2>8. CASE type.const
    <3>1. r = Result(FALSE, <<>>, at, 0)
      BY <2>4, <2>8
    <3>2. ~ r.ok
      BY <3>1 DEF Result
    <3> HIDE DEF r, x
    <3>3. Returns(type, r, s, at, x, value)
      BY <1>5, <2>8, <3>2 DEF Returns, Const
    <3> QED
      BY <3>3 DEF r, x
  <2>9. CASE ~ type.const
    <3>1. r = IF block.ok THEN With(block, w) ELSE block
      BY <2>4, <2>9
    <3> HIDE DEF r, x, w, k
    <3>2. Restores(r, s, at, x, k)
      BY <2>3, <2>5, <2>6, <3>1, BlockRestores
    <3>3. Returns(type, r, s, at, x, value)
      BY <2>7, <2>9, <3>2 DEF Returns, Const
    <3> QED
      BY <3>3 DEF r, x
  <2> QED
    BY <2>8, <2>9
<1>6. CASE type.kind = "string"
  <2> DEFINE c == WriteCompactSize(Len(value))
             n == Len(value)
             nSize == ReadSize(s, at)
             q == read(s, nSize.at, nSize.value)
  <2>1. value \in Seq(Byte) /\ n \in 0 .. UINT_MAX
    <3>1. value \in Seq(Byte) /\ Len(value) <= UINT_MAX
      BY <1>6, ValuesCases DEF Sized
    <3> QED
      BY <3>1, LenProperties, Limits
  <2>2. x = c \o value
    BY <1>6 DEF Serialize, Pairs, Containers
  <2>3. r = IF nSize.ok THEN q ELSE nSize
    BY <1>6 DEF Unserialize, Pairs, Containers
  <2>4. c \in Seq(Byte) /\ at \in Nat /\ Len(s) \in Nat
    BY <2>1, CompactSizeType, LenProperties
  <2>5. Carries(s, at, c) /\ Carries(s, at + Len(c), value)
    <3>1. Carries(s, at, c \o value)
      BY <2>2
    <3> QED
      BY <2>1, <2>4, <3>1, CarriesConcat
  <2>6. Restores(nSize, s, at, c, n)
    BY <2>1, <2>5, ReadSizeRestores
  <2>7. Len(x) = Len(c) + n /\ Len(c) \in Nat /\ n \in Nat
    BY <2>1, <2>2, <2>4, ConcatProperties, LenProperties
  <2> HIDE DEF nSize, c
  <2>8. CASE nSize.ok
    <3>1. r = q
      BY <2>3, <2>8
    <3>2. nSize.value = n /\ nSize.at = at + Len(c) /\ at + Len(c) \in 0 .. Len(s)
      BY <2>4, <2>6, <2>7, <2>8 DEF Restores
    <3>3. Restores(read(s, at + Len(c), Len(value)), s, at + Len(c), value, value)
      BY <2>1, <2>5, <3>2, ReadRestores
    <3>4. Restores(q, s, at + Len(c), value, value)
      BY <3>2, <3>3
    <3> HIDE DEF r, q, x
    <3>5. Restores(r, s, at, x, value)
      BY <2>4, <2>7, <3>1, <3>4 DEF Restores
    <3> HIDE DEF n
    <3>6. Returns(type, r, s, at, x, value)
      BY <1>6, <3>5 DEF Returns, Const, Kept
    <3> QED
      BY <3>6 DEF r, x
  <2>9. CASE ~ nSize.ok
    <3>1. r = nSize
      BY <2>3, <2>9
    <3> HIDE DEF r, x, n
    <3>2. Restores(r, s, at, x, value)
      BY <2>4, <2>6, <2>7, <2>9, <3>1 DEF Restores
    <3>3. Returns(type, r, s, at, x, value)
      BY <1>6, <3>2 DEF Returns, Const, Kept
    <3> QED
      BY <3>3 DEF r, x
  <2> QED
    BY <2>8, <2>9
<1>7. type.kind \in {"number", "bool", "string", "flat", "fixed"}
  BY DEF Basic
<1> QED
  BY <1>2, <1>3, <1>4, <1>5, <1>6, <1>7

(* A part gives back its value as it is.                                   *)
Restored(T) ==
  \A value \in T.values : \A s \in Seq(Byte) : \A at \in 0 .. Len(s) :
    Carries(s, at, T.bytes[value]) =>
      Restores(T.read[s][at], s, at, T.bytes[value], value)

(* A part of a type that can be read does so.                              *)
LEMMA PartRestored ==
  ASSUME NEW type, NEW T, Faithful(type, T), T.readable, type.kind \notin Wrappers
  PROVE  Restored(T)
<1>1. ~ Const(type) /\ \A value : Kept(type, value) = value
  BY DEF Wrappers, Const, Kept
<1> QED
  BY <1>1 DEF Faithful, Restored, Returns

(* A pair is read back, part by part.                                      *)
LEMMA PairReturns ==
  ASSUME NEW type \in Types, type.kind \in Pairs, NEW of,
         Measured(of[1]), Measured(of[2]), Restored(of[1]), Restored(of[2]),
         NEW value \in Values(type, of), NEW s \in Seq(Byte), NEW at \in 0 .. Len(s),
         Carries(s, at, Serialize(type, of, value))
  PROVE  Returns(type, Unserialize(type, of, s, at), s, at, Serialize(type, of, value), value)
<1> DEFINE r == Unserialize(type, of, s, at)
           x == Serialize(type, of, value)
           a == of[1].bytes[value[1]]
           b == of[2].bytes[value[2]]
           first  == of[1].read[s][at]
           second == of[2].read[s][first.at]
<1>1. value[1] \in of[1].values /\ value[2] \in of[2].values /\ value = <<value[1], value[2]>>
  <2>1. Values(type, of) = of[1].values \X of[2].values
    BY ValuesCases, Zenon
  <2> QED
    BY <2>1
<1>2. x = a \o b
  BY DEF Serialize, Pairs, Containers
<1>3. a \in Seq(Byte) /\ b \in Seq(Byte)
  BY <1>1 DEF Measured
<1>4. Carries(s, at, a) /\ Carries(s, at + Len(a), b)
  <2>1. Carries(s, at, a \o b) /\ at \in Nat
    BY <1>2
  <2> QED
    BY <1>3, <2>1, CarriesConcat
<1>5. Restores(first, s, at, a, value[1])
  BY <1>1, <1>4, Zenon DEF Restored
<1>6. Len(x) = Len(a) + Len(b) /\ Len(a) \in Nat /\ Len(b) \in Nat /\ Len(s) \in Nat /\ at \in Nat
  BY <1>2, <1>3, ConcatProperties, LenProperties
<1>7. r = UnserializePair(of, s, at)
  BY DEF Unserialize, Pairs, Containers
<1>8. ASSUME Restores(r, s, at, x, value) PROVE Returns(type, r, s, at, x, value)
  <2>1. ~ Const(type) /\ Kept(type, value) = value
    BY DEF Pairs, Const, Kept
  <2> QED
    BY <1>8, <2>1, Zenon DEF Returns
<1> HIDE DEF first, a, b
<1>9. CASE first.ok
  <2>1. first.value = value[1] /\ first.at = at + Len(a) /\ at + Len(a) \in 0 .. Len(s)
    BY <1>5, <1>6, <1>9 DEF Restores
  <2>2. Restores(of[2].read[s][at + Len(a)], s, at + Len(a), b, value[2])
    BY <1>1, <1>4, <2>1 DEF Restored, b
  <2>3. Restores(second, s, at + Len(a), b, value[2])
    BY <2>1, <2>2
  <2> HIDE DEF second
  <2> DEFINE v == <<first.value, second.value>>
             m == Larger(first.room, second.room)
  <2>4. r = Result(second.ok, v, second.at, m)
    BY <1>7, <1>9, Zenon DEF UnserializePair, first, second
  <2>5. v[1] = first.value /\ v[2] = second.value /\ v = <<first.value, second.value>>
    OBVIOUS
  <2> HIDE DEF r, v, m
  <2>6. (r.ok <=> second.ok) /\ r.value = v /\ r.at = second.at
    BY <2>4 DEF Result
  <2>7. second.ok => v = value
    <3>1. ASSUME second.ok PROVE v = value
      <4>1. second.value = value[2]
        BY <2>3, <3>1 DEF Restores
      <4> QED
        BY <1>1, <2>1, <2>5, <4>1, Zenon
    <3> QED
      BY <3>1
  <2> HIDE DEF x
  <2>8. Restores(r, s, at, x, value)
    BY <1>6, <2>3, <2>6, <2>7 DEF Restores
  <2>9. Returns(type, r, s, at, x, value)
    BY <1>8, <2>8 DEF r, x
  <2> QED
    BY <2>9 DEF r, x
<1>10. CASE ~ first.ok
  <2>1. r = first
    BY <1>7, <1>10, Zenon DEF UnserializePair, first
  <2> HIDE DEF r, x
  <2>2. Restores(r, s, at, x, value)
    BY <1>5, <1>6, <1>10, <2>1 DEF Restores
  <2>3. Returns(type, r, s, at, x, value)
    BY <1>8, <2>2 DEF r, x
  <2> QED
    BY <2>3 DEF r, x
<1> QED
  BY <1>9, <1>10

(* The first i items of a container, read back from start on.              *)
ItemsReturned(x, s, start, done, v, i) ==
  IF start + Len(done) <= Len(s)
  THEN x.ok /\ x.value = SubSeq(v, 1, i) /\ x.at = start + Len(done)
  ELSE ~ x.ok

(* One item more is read back.                                             *)
LEMMA ItemStepReturns ==
  ASSUME NEW type \in Types, type.kind \in Containers, NEW of, Composed(type, of),
         Restored(of[1]), NEW v \in Values(type, of), NEW n,
         NEW s \in Seq(Byte), NEW start \in 0 .. Len(s), NEW i \in 0 .. Len(v) - 1,
         NEW done \in Seq(Byte), NEW a \in Seq(Byte), a = of[1].bytes[v[i + 1]],
         Carries(s, start + Len(done), a),
         NEW x, ItemsReturned(x, s, start, done, v, i)
  PROVE  ItemsReturned(UnserializeItem(type, of, s, n, i, x), s, start, done \o a, v, i + 1)
<1> DEFINE T == of[1]
           y == UnserializeItem(type, of, s, n, i, x)
           r == T.read[s][x.at]
           most == Larger(Larger(x.room, r.room), IF type.kind = "vector" THEN Room(n, i) ELSE 0)
           w == IF type.kind = "vector" THEN Append(x.value, r.value)
                                        ELSE Insert(type, x.value, r.value)
           da == done \o a
<1>1. /\ Len(da) = Len(done) + Len(a) /\ Len(done) \in Nat /\ Len(a) \in Nat
      /\ Len(s) \in Nat /\ start \in Nat /\ i \in Nat
  BY ConcatProperties, LenProperties
<1>2. v \in Seq(T.values) /\ (type.kind \in {"map", "set"} => Ascending(type, v))
  <2>1. CASE type.kind = "vector"
    BY <2>1, ValuesCases DEF Sized
  <2>2. CASE type.kind \in {"map", "set"}
    <3>1. Values(type, of) = {z \in Sized(Seq(of[1].values)) :
                   \A j \in DOMAIN z, k \in DOMAIN z : j < k => Key(type, z[j]) < Key(type, z[k])}
      BY <2>2, ValuesCases
    <3> QED
      BY <3>1 DEF Sized, Ascending
  <2> QED
    BY <2>1, <2>2 DEF Containers
<1>3. Len(v) \in Nat /\ DOMAIN v = 1 .. Len(v) /\ \A j \in 1 .. Len(v) : v[j] \in T.values
  BY <1>2, LenProperties, ElementOfSeq
<1>4. i + 1 \in 1 .. Len(v) /\ v[i + 1] \in T.values
  BY <1>3
<1> DEFINE u == SubSeq(v, 1, i)
<1>5. u \in Seq(T.values) /\ Len(u) = i /\ \A j \in 1 .. i : u[j] = v[j]
  <2>1. \A j \in 1 .. i : v[j] \in T.values
    BY <1>3
  <2>2. 1 \in Int /\ i \in Int
    BY <1>1
  <2> DEFINE TV == T.values
  <2>3. /\ u \in Seq(TV) /\ Len(u) = IF 1 <= i THEN i - 1 + 1 ELSE 0
        /\ \A j \in 1 .. i - 1 + 1 : u[j] = v[1 + j - 1]
    <3>1. \A j \in 1 .. i : v[j] \in TV
      BY <2>1
    <3> HIDE DEF TV
    <3>2. /\ SubSeq(v, 1, i) \in Seq(TV)
          /\ Len(SubSeq(v, 1, i)) = IF 1 <= i THEN i - 1 + 1 ELSE 0
          /\ \A j \in 1 .. i - 1 + 1 : SubSeq(v, 1, i)[j] = v[1 + j - 1]
      BY <2>2, <3>1, SubSeqProperties
    <3> QED
      BY <3>2
  <2> HIDE DEF u
  <2>4. i - 1 + 1 = i /\ \A j \in 1 .. i : 1 + j - 1 = j
    BY <1>1
  <2> QED
    BY <1>1, <2>3, <2>4
<1>6. SubSeq(v, 1, i + 1) = Append(u, v[i + 1])
  <2>1. SubSeq(v, 1, i + 1) = SubSeq(v, 1, (i + 1) - 1) \o <<v[i + 1]>>
    <3>1. 1 \in 1 .. Len(v) /\ i + 1 \in 1 .. Len(v)
      BY <1>1, <1>4
    <3> QED
      BY <1>2, <3>1, SubSeqRecursiveSecond
  <2>2. (i + 1) - 1 = i
    BY <1>1
  <2>3. Append(u, v[i + 1]) = u \o <<v[i + 1]>>
    <3> HIDE DEF u
    <3> QED
      BY <1>4, <1>5, AppendIsConcat
  <2> QED
    BY <2>1, <2>2, <2>3
<1>7. type.kind \in {"map", "set"} => Insert(type, u, v[i + 1]) = Append(u, v[i + 1])
  <2>1. ASSUME type.kind \in {"map", "set"} PROVE Insert(type, u, v[i + 1]) = Append(u, v[i + 1])
    <3>1. \A z \in T.values : Key(type, z) \in Nat
      BY <2>1, ItemType
    <3>2. ASSUME NEW j \in 1 .. Len(u) PROVE Key(type, u[j]) < Key(type, v[i + 1])
      <4>1. j \in 1 .. i
        BY <1>5
      <4>2. j \in DOMAIN v /\ i + 1 \in DOMAIN v /\ j < i + 1
        BY <1>1, <1>3, <1>4, <4>1
      <4>3. u[j] = v[j]
        BY <1>5, <4>1
      <4> HIDE DEF u
      <4> QED
        BY <1>2, <2>1, <4>2, <4>3 DEF Ascending
    <3> HIDE DEF u
    <3> QED
      BY <1>4, <1>5, <3>1, <3>2, InsertLast
  <2> QED
    BY <2>1
<1> HIDE DEF u, T, da, r
<1>8. CASE ~ x.ok
  <2>1. y = x
    BY <1>8, Zenon DEF UnserializeItem
  <2> HIDE DEF y
  <2>2. ItemsReturned(y, s, start, da, v, i + 1)
    BY <1>1, <1>8, <2>1 DEF ItemsReturned
  <2> QED
    BY <2>2 DEF y, da
<1>9. CASE x.ok
  <2>1. start + Len(done) <= Len(s) /\ x.value = u /\ x.at = start + Len(done)
    BY <1>9 DEF ItemsReturned, u
  <2>2. start + Len(done) \in 0 .. Len(s)
    BY <1>1, <2>1
  <2>3. Restores(T.read[s][start + Len(done)], s, start + Len(done), a, v[i + 1])
    BY <1>4, <2>2 DEF Restored, T
  <2>4. Restores(r, s, start + Len(done), a, v[i + 1])
    BY <2>1, <2>3 DEF r
  <2> HIDE DEF most
  <2>5. CASE r.ok
    <3>1. y = Result(TRUE, w, r.at, most)
      BY <1>9, <2>5, Zenon DEF UnserializeItem, r, T, most
    <3>2. r.value = v[i + 1] /\ r.at = start + Len(done) + Len(a) /\ start + Len(done) + Len(a) <= Len(s)
      BY <2>4, <2>5 DEF Restores
    <3>3. w = Append(u, v[i + 1])
      <4>1. CASE type.kind = "vector"
        BY <2>1, <3>2, <4>1
      <4>2. CASE type.kind \in {"map", "set"}
        <5>1. type.kind # "vector"
          BY <4>2
        <5>2. w = Insert(type, u, v[i + 1])
          BY <2>1, <3>2, <5>1
        <5> QED
          BY <1>7, <4>2, <5>2
      <4> QED
        BY <4>1, <4>2 DEF Containers
    <3> HIDE DEF w
    <3>4. y.ok /\ y.value = w /\ y.at = r.at
      BY <3>1 DEF Result
    <3> HIDE DEF y
    <3>5. y.value = SubSeq(v, 1, i + 1)
      BY <1>6, <3>3, <3>4
    <3>6. ItemsReturned(y, s, start, da, v, i + 1)
      BY <1>1, <3>2, <3>4, <3>5 DEF ItemsReturned
    <3> QED
      BY <3>6 DEF y, da
  <2>6. CASE ~ r.ok
    <3> DEFINE b == Begun(type, r.at, i)
    <3>1. y = Result(FALSE, <<>>, b, most)
      BY <1>9, <2>6, Zenon DEF UnserializeItem, r, T, most
    <3>2. ~ y.ok
      BY <3>1 DEF Result
    <3>3. ~ (start + Len(done) + Len(a) <= Len(s))
      BY <2>4, <2>6 DEF Restores
    <3> HIDE DEF y
    <3>4. ItemsReturned(y, s, start, da, v, i + 1)
      BY <1>1, <3>2, <3>3 DEF ItemsReturned
    <3> QED
      BY <3>4 DEF y, da
  <2> QED
    BY <2>5, <2>6
<1> QED
  BY <1>8, <1>9

(* The value of a container is a sequence of values of its part, which the *)
(* prefix counts.                                                          *)
LEMMA ContainerValues ==
  ASSUME NEW type \in Types, type.kind \in Containers, NEW of, NEW v \in Values(type, of)
  PROVE  v \in Seq(of[1].values) /\ Len(v) \in 0 .. UINT_MAX
<1>1. v \in Seq(of[1].values) /\ Len(v) <= UINT_MAX
  <2>1. CASE type.kind = "vector"
    BY <2>1, ValuesCases DEF Sized
  <2>2. CASE type.kind \in {"map", "set"}
    BY <2>2, ValuesCases DEF Sized
  <2> QED
    BY <2>1, <2>2 DEF Containers
<1> QED
  BY <1>1, LenProperties, Limits

(* All items of a container, read back.                                    *)
LEMMA ItemsAreReturned ==
  ASSUME NEW type \in Types, type.kind \in Containers, NEW of, Composed(type, of),
         Restored(of[1]), NEW v \in Values(type, of),
         NEW s \in Seq(Byte), NEW start \in 0 .. Len(s),
         NEW d \in Seq(Seq(Byte)), Len(d) = Len(v),
         \A i \in 1 .. Len(v) : d[i] = of[1].bytes[v[i]],
         NEW f, Joins(f, d), Carries(s, start, f[Len(d)])
  PROVE  ItemsReturned(UnserializeItems(type, of, s, start, Len(v)),
                       s, start, f[Len(v)], v, Len(v))
<1> DEFINE n == Len(v)
<1>1. n \in Nat /\ start \in Nat /\ v \in Seq(of[1].values)
  BY ContainerValues, Limits
<1>2. PICK g : ReadInto(g, type, of, s, start, n)
  BY <1>1, UnserializeItemsDef
<1>3. \A i \in 1 .. n : Carries(s, start + Len(f[i - 1]), d[i])
  BY <1>1, JoinsCarried
<1>4. \A i \in 1 .. n : d[i] \in Seq(Byte) /\ f[i - 1] \in Seq(Byte) /\ f[i] = f[i - 1] \o d[i]
  <2>1. \A i \in 1 .. Len(d) :
          /\ d[i] \in Seq(Byte) /\ f[i - 1] \in Seq(Byte)
          /\ f[i] = f[i - 1] \o d[i]
    BY JoinsParts
  <2> QED
    BY <2>1
<1> DEFINE S == {i \in 0 .. n : ItemsReturned(g[i], s, start, f[i], v, i)}
<1>5. 0 \in S
  <2> DEFINE x == g[0]
             done == f[0]
             u == SubSeq(v, 1, 0)
  <2>1. x.ok /\ x.value = <<>> /\ x.at = start
    BY <1>2 DEF Result, ReadInto
  <2>2. done = <<>>
    BY DEF Joins
  <2>3. u = <<>>
    <3>1. 1 \in Int /\ 0 \in Int /\ 0 < 1
      OBVIOUS
    <3> QED
      BY <3>1, SubSeqEmpty
  <2>4. Len(done) = 0
    BY <2>2
  <2>5. Len(s) \in Nat /\ start <= Len(s) /\ start + 0 = start
    BY <1>1, LenProperties
  <2> HIDE DEF x, done
  <2>6. ItemsReturned(x, s, start, done, v, 0)
    <3>1. x.value = SubSeq(v, 1, 0)
      BY <2>1, <2>3
    <3> QED
      BY <2>1, <2>4, <2>5, <3>1 DEF ItemsReturned
  <2>7. 0 \in 0 .. n
    BY <1>1
  <2> QED
    BY <2>6, <2>7 DEF x, done
<1>6. ASSUME NEW i \in 0 .. n - 1, i \in S PROVE i + 1 \in S
  <2> DEFINE a    == d[i + 1]
             done == f[i]
             x    == g[i]
             y    == UnserializeItem(type, of, s, n, i, x)
  <2>1. i + 1 \in 1 .. n /\ (i + 1) - 1 = i /\ i + 1 \in 0 .. n
    BY <1>1
  <2>2. a \in Seq(Byte) /\ done \in Seq(Byte) /\ f[i + 1] = done \o a /\ Carries(s, start + Len(done), a)
    BY <1>3, <1>4, <2>1
  <2>3. a = of[1].bytes[v[i + 1]]
    BY <2>1
  <2>4. ItemsReturned(x, s, start, done, v, i)
    BY <1>6
  <2>5. g[i + 1] = y
    BY <1>2 DEF ReadInto
  <2>6. ItemsReturned(y, s, start, done \o a, v, i + 1)
    <3> HIDE DEF a, done, x
    <3> QED
      BY <2>2, <2>3, <2>4, ItemStepReturns
  <2> HIDE DEF y, a, done
  <2>7. ItemsReturned(g[i + 1], s, start, f[i + 1], v, i + 1)
    BY <2>2, <2>5, <2>6
  <2> QED
    BY <2>1, <2>7
<1>7. n \in S
  <2> HIDE DEF S
  <2>1. \A i \in 0 .. n : i \in S
    <3> HIDE DEF n
    <3> QED
      BY <1>1, <1>5, <1>6, NumbersUpTo
  <2> QED
    BY <1>1, <2>1
<1> QED
  BY <1>2, <1>7 DEF ReadInto

(* A container is read back, its size and then its items.                  *)
LEMMA ContainerReturns ==
  ASSUME NEW type \in Types, type.kind \in Containers, NEW of, Composed(type, of),
         Measured(of[1]), Restored(of[1]),
         NEW v \in Values(type, of), NEW s \in Seq(Byte), NEW at \in 0 .. Len(s),
         Carries(s, at, Serialize(type, of, v))
  PROVE  Returns(type, Unserialize(type, of, s, at), s, at, Serialize(type, of, v), v)
<1> DEFINE r == Unserialize(type, of, s, at)
           x == Serialize(type, of, v)
           c == WriteCompactSize(Len(v))
           d == [i \in DOMAIN v |-> of[1].bytes[v[i]]]
           e == FlattenSeq(d)
           nSize == ReadSize(s, at)
           q == UnserializeItems(type, of, s, nSize.at, nSize.value)
<1>1. v \in Seq(of[1].values) /\ Len(v) \in 0 .. UINT_MAX /\ Len(v) \in Nat
      /\ at \in Nat /\ Len(s) \in Nat
  BY ContainerValues, Limits, LenProperties
<1>2. /\ d \in Seq(Seq(Byte)) /\ Len(d) = Len(v)
      /\ \A i \in 1 .. Len(v) : d[i] = of[1].bytes[v[i]]
  <2>1. \A z \in of[1].values : of[1].bytes[z] \in Seq(Byte)
    BY DEF Measured
  <2> QED
    BY <1>1, <2>1, Mapped
<1>3. PICK f : Joins(f, d) /\ e = f[Len(d)]
  BY <1>2, FlattenDef
<1>4. x = c \o e
  BY DEF Serialize, Pairs, Containers
<1>5. r = IF nSize.ok THEN q ELSE nSize
  BY DEF Unserialize, Pairs, Containers
<1> HIDE DEF d, e
<1>6. c \in Seq(Byte) /\ e \in Seq(Byte)
  <2>1. e \in Seq(Byte)
    BY <1>1, <1>2, <1>3 DEF Joins
  <2> QED
    BY <1>1, <2>1, CompactSizeType
<1>7. Carries(s, at, c) /\ Carries(s, at + Len(c), e)
  <2>1. Carries(s, at, c \o e)
    BY <1>4
  <2> QED
    BY <1>1, <1>6, <2>1, CarriesConcat
<1>8. Restores(nSize, s, at, c, Len(v))
  BY <1>1, <1>7, ReadSizeRestores
<1>9. Len(x) = Len(c) + Len(e) /\ Len(c) \in Nat /\ Len(e) \in Nat
  BY <1>4, <1>6, ConcatProperties, LenProperties
<1>10. ASSUME Restores(r, s, at, x, v) PROVE Returns(type, r, s, at, x, v)
  <2>1. ~ Const(type) /\ Kept(type, v) = v
    BY DEF Containers, Const, Kept
  <2> QED
    BY <1>10, <2>1, Zenon DEF Returns
<1> HIDE DEF nSize, c
<1>11. CASE nSize.ok
  <2>1. nSize.value = Len(v) /\ nSize.at = at + Len(c) /\ at + Len(c) \in 0 .. Len(s)
    BY <1>1, <1>8, <1>9, <1>11 DEF Restores
  <2> DEFINE start == at + Len(c)
             n == Len(v)
             t == UnserializeItems(type, of, s, start, n)
  <2>2. r = t
    BY <1>5, <1>11, <2>1
  <2>3. ItemsReturned(t, s, start, f[n], v, n)
    <3>1. start \in 0 .. Len(s) /\ Carries(s, start, f[Len(d)])
      BY <1>3, <1>7, <2>1
    <3> HIDE DEF start
    <3> QED
      BY <1>2, <1>3, <3>1, ItemsAreReturned
  <2>4. f[n] = e
    BY <1>2, <1>3
  <2>5. SubSeq(v, 1, n) = v
    BY <1>1, SubSeqFull
  <2> HIDE DEF r, x, t
  <2>6. Restores(r, s, at, x, v)
    <3>1. IF start + Len(e) <= Len(s) THEN r.ok /\ r.value = v /\ r.at = start + Len(e) ELSE ~ r.ok
      BY <2>2, <2>3, <2>4, <2>5 DEF ItemsReturned
    <3>2. at + Len(x) = start + Len(e)
      BY <1>1, <1>9
    <3> QED
      BY <3>1, <3>2 DEF Restores
  <2>7. Returns(type, r, s, at, x, v)
    BY <1>10, <2>6 DEF r, x
  <2> QED
    BY <2>7 DEF r, x
<1>12. CASE ~ nSize.ok
  <2>1. r = nSize
    BY <1>5, <1>12
  <2> HIDE DEF r, x
  <2>2. Restores(r, s, at, x, v)
    BY <1>1, <1>8, <1>9, <1>12, <2>1 DEF Restores
  <2>3. Returns(type, r, s, at, x, v)
    BY <1>10, <2>2 DEF r, x
  <2> QED
    BY <2>3 DEF r, x
<1> QED
  BY <1>11, <1>12

(* Every type that can be read is read back, however it is composed.       *)
LEMMA EveryTypeFaithful ==
  ASSUME NEW type \in Types
  PROVE  Faithful(type, Template[type])
<1> DEFINE S == {t \in Types : Faithful(t, Template[t])}
<1>1. ASSUME NEW t \in Types, \A i \in DOMAIN t.of : t.of[i] \in S PROVE t \in S
  <2>1. PICK of : Composed(t, of)
    BY TemplateComposed
  <2> DEFINE T == Template[t]
  <2>2. /\ T.values = Values(t, of)
        /\ \A value \in Values(t, of) : T.bytes[value] = Serialize(t, of, value)
        /\ \A s \in Seq(Byte), at \in Nat : T.read[s][at] = Unserialize(t, of, s, at)
        /\ T.readable = Readable(t, of)
    <3>1. T = Instantiate(t, of)
      BY <2>1 DEF Composed
    <3> QED
      BY <3>1, InstanceDef
  <2> HIDE DEF T
  <2>3. ASSUME T.readable, NEW i \in DOMAIN t.of PROVE Measured(of[i]) /\ Restored(of[i])
    <3>1. t.of[i] \in Types /\ of[i] = Template[t.of[i]] /\ Faithful(t.of[i], of[i])
      BY <1>1, <2>1, PartsOfType DEF Composed
    <3>2. of[i].readable /\ t.of[i].kind \notin Wrappers
      BY <2>2, <2>3 DEF Readable
    <3>3. Measured(of[i])
      BY <3>1, EveryTypeMeasured
    <3> QED
      BY <3>1, <3>2, <3>3, PartRestored
  <2>4. ASSUME T.readable, NEW value \in Values(t, of), NEW s \in Seq(Byte), NEW at \in 0 .. Len(s),
               Carries(s, at, Serialize(t, of, value))
        PROVE  Returns(t, Unserialize(t, of, s, at), s, at, Serialize(t, of, value), value)
    <3>1. CASE t.kind \in Basic
      BY <2>4, <3>1, BasicReturns
    <3>2. CASE t.kind \in Containers
      <4>1. 1 \in DOMAIN t.of
        BY <3>2, PartsOfType
      <4>2. Measured(of[1]) /\ Restored(of[1])
        BY <2>3, <2>4, <4>1
      <4> QED
        BY <2>1, <2>4, <3>2, <4>2, ContainerReturns
    <3>3. CASE t.kind \in Pairs
      <4>1. 1 \in DOMAIN t.of /\ 2 \in DOMAIN t.of
        BY <3>3, PartsOfType
      <4>2. Measured(of[1]) /\ Restored(of[1]) /\ Measured(of[2]) /\ Restored(of[2])
        BY <2>3, <2>4, <4>1
      <4> QED
        BY <2>4, <3>3, <4>2, PairReturns
    <3> QED
      BY <3>1, <3>2, <3>3, PartsOfType
  <2>5. Faithful(t, T)
    <3> SUFFICES ASSUME T.readable, NEW value \in T.values, NEW s \in Seq(Byte), NEW at \in 0 .. Len(s),
                        Carries(s, at, T.bytes[value])
                 PROVE  Returns(t, T.read[s][at], s, at, T.bytes[value], value)
      BY DEF Faithful
    <3>1. value \in Values(t, of) /\ T.bytes[value] = Serialize(t, of, value)
      BY <2>2
    <3>2. at \in Nat
      OBVIOUS
    <3>3. T.read[s][at] = Unserialize(t, of, s, at)
      BY <2>2, <3>2
    <3> QED
      BY <2>4, <3>1, <3>3
  <2> QED
    BY <2>5 DEF T
<1> HIDE DEF S
<1>2. \A t \in Types : t \in S
  BY <1>1, TypeInduction
<1> QED
  BY <1>2 DEF S

-----------------------------------------------------------------------------
(***************************************************************************)
(* The stream.                                                             *)
(***************************************************************************)
(* What every state of the stream keeps besides the four invariants.       *)
AnyValue == UNION {Template[type].values : type \in Types}
StreamType ==
  /\ bytes \in Seq(Byte) /\ nReadPos \in 0 .. Len(bytes)
  /\ thrown \in BOOLEAN /\ harm \in {"none", "cut", "garbled"}
  /\ puts \in Seq(Objects)
  /\ gets \in Seq(AnyValue) /\ Len(gets) <= Len(puts)
  /\ room \in 0 .. Block

(* An object is one of a type, whose templates are as proved above.        *)
LEMMA ObjectType ==
  ASSUME NEW o \in Objects
  PROVE  LET T == Template[o.type]
         IN  /\ o.type \in Types /\ o.value \in T.values
             /\ T.bytes[o.value] \in Seq(Byte)
             /\ T.size[o.value] = Len(T.bytes[o.value])
             /\ \A v \in T.values : v \in AnyValue /\ T.size[v] \in Nat
             /\ Sane(T) /\ Faithful(o.type, T)
<1> DEFINE T == Template[o.type]
<1>1. o.type \in Types /\ o.value \in T.values
  BY SerializationAssumption
<1>2. Measured(T) /\ Sane(T) /\ Faithful(o.type, T)
  BY <1>1, EveryTypeMeasured, EveryTypeSane, EveryTypeFaithful
<1>3. \A v \in T.values : v \in AnyValue
  BY <1>1 DEF AnyValue
<1> HIDE DEF T
<1>4. \A v \in T.values : T.size[v] \in Nat
  BY <1>2, LenProperties DEF Measured
<1>5. T.bytes[o.value] \in Seq(Byte) /\ T.size[o.value] = Len(T.bytes[o.value])
  BY <1>1, <1>2 DEF Measured
<1> QED
  BY <1>1, <1>2, <1>3, <1>4, <1>5 DEF T

(* What is put in the stream goes behind what is there.                    *)
LEMMA PutEffect ==
  ASSUME StreamType, NEW object \in Objects, Put(object)
  PROVE  LET x == Template[object.type].bytes[object.value]
         IN  /\ x \in Seq(Byte)
             /\ bytes' = bytes \o x /\ bytes' \in Seq(Byte) /\ Len(bytes') = Len(bytes) + Len(x)
             /\ Len(bytes) \in Nat /\ Len(x) \in Nat
             /\ puts' = Append(puts, object) /\ puts' \in Seq(Objects)
             /\ Len(puts) \in Nat /\ Len(puts') = Len(puts) + 1 /\ puts'[Len(puts) + 1] = object
             /\ \A i \in 1 .. Len(puts) : puts'[i] = puts[i]
             /\ harm = "none"
             /\ UNCHANGED <<nReadPos, thrown, harm, gets, room>>
<1> DEFINE x == Template[object.type].bytes[object.value]
<1>1. x \in Seq(Byte)
  BY ObjectType
<1>2. bytes' = bytes \o x /\ puts' = Append(puts, object) /\ harm = "none"
      /\ UNCHANGED <<nReadPos, thrown, harm, gets, room>>
  BY DEF Put
<1> HIDE DEF x
<1>3. bytes \in Seq(Byte) /\ puts \in Seq(Objects)
  BY DEF StreamType
<1>4. bytes' \in Seq(Byte) /\ Len(bytes') = Len(bytes) + Len(x) /\ Len(bytes) \in Nat /\ Len(x) \in Nat
  BY <1>1, <1>2, <1>3, ConcatProperties, LenProperties
<1>5. /\ puts' \in Seq(Objects) /\ Len(puts) \in Nat /\ Len(puts') = Len(puts) + 1
      /\ puts'[Len(puts) + 1] = object /\ \A i \in 1 .. Len(puts) : puts'[i] = puts[i]
  BY <1>2, <1>3, AppendProperties, LenProperties, SMTT(30)
<1> QED
  BY <1>1, <1>2, <1>4, <1>5 DEF x

(* What is taken out of it comes from the next object's bytes on.          *)
LEMMA GetEffect ==
  ASSUME StreamType, Get
  PROVE  LET object == puts[Len(gets) + 1]
             T      == Template[object.type]
             r      == T.read[bytes][nReadPos]
         IN  /\ object \in Objects /\ T.readable /\ ~ thrown
             /\ Len(gets) \in Nat /\ Len(puts) \in Nat /\ Len(gets) + 1 \in 1 .. Len(puts)
             /\ ReadsWithin(T, bytes, nReadPos, r)
             /\ nReadPos' = r.at /\ thrown' = ~ r.ok
             /\ gets' = IF r.ok THEN Append(gets, r.value) ELSE gets
             /\ room' = Larger(room, r.room)
             /\ UNCHANGED <<bytes, harm, puts>>
<1> DEFINE object == puts[Len(gets) + 1]
           T      == Template[object.type]
           r      == T.read[bytes][nReadPos]
<1>1. /\ ~ thrown /\ Len(gets) < Len(puts) /\ T.readable
      /\ nReadPos' = r.at /\ thrown' = ~ r.ok
      /\ gets' = IF r.ok THEN Append(gets, r.value) ELSE gets
      /\ room' = Larger(room, r.room) /\ UNCHANGED <<bytes, harm, puts>>
  BY DEF Get
<1>2. Len(gets) \in Nat /\ Len(puts) \in Nat /\ Len(gets) + 1 \in 1 .. Len(puts)
  <2>1. gets \in Seq(AnyValue) /\ puts \in Seq(Objects)
    BY DEF StreamType
  <2>2. Len(gets) \in Nat /\ Len(puts) \in Nat
    BY <2>1, LenProperties, Zenon
  <2>3. Len(gets) < Len(puts)
    BY <1>1
  <2> QED
    BY <2>2, <2>3
<1>3. object \in Objects
  <2>1. puts \in Seq(Objects)
    BY DEF StreamType
  <2> QED
    BY <1>2, <2>1, ElementOfSeq
<1>4. ReadsWithin(T, bytes, nReadPos, r)
  <2>1. Sane(T)
    BY <1>3, ObjectType
  <2> HIDE DEF T
  <2> QED
    BY <2>1 DEF Sane, StreamType
<1> QED
  BY <1>1, <1>2, <1>3, <1>4

(* Every step keeps the types.                                             *)
LEMMA StreamTypeStep ==
  ASSUME StreamType, [Next]_vars
  PROVE  StreamType'
<1>1. ASSUME NEW object \in Objects, Put(object) PROVE StreamType'
  <2> DEFINE x == Template[object.type].bytes[object.value]
  <2>1. /\ bytes' \in Seq(Byte) /\ Len(bytes') = Len(bytes) + Len(x)
        /\ Len(bytes) \in Nat /\ Len(x) \in Nat
        /\ puts' \in Seq(Objects) /\ Len(puts) \in Nat /\ Len(puts') = Len(puts) + 1
        /\ UNCHANGED <<nReadPos, thrown, harm, gets, room>>
    BY <1>1, PutEffect
  <2>2. Len(gets) \in Nat
    BY LenProperties DEF StreamType
  <2> HIDE DEF x
  <2>3. nReadPos' \in 0 .. Len(bytes')
    BY <2>1 DEF StreamType
  <2>4. Len(gets') <= Len(puts')
    BY <2>1, <2>2 DEF StreamType
  <2> QED
    BY <2>1, <2>3, <2>4 DEF StreamType
<1>2. CASE Get
  <2> DEFINE object == puts[Len(gets) + 1]
             T      == Template[object.type]
             r      == T.read[bytes][nReadPos]
  <2>1. /\ object \in Objects
        /\ Len(gets) \in Nat /\ Len(puts) \in Nat /\ Len(gets) + 1 \in 1 .. Len(puts)
        /\ ReadsWithin(T, bytes, nReadPos, r)
        /\ nReadPos' = r.at /\ thrown' = ~ r.ok
        /\ gets' = IF r.ok THEN Append(gets, r.value) ELSE gets
        /\ room' = Larger(room, r.room) /\ UNCHANGED <<bytes, harm, puts>>
    BY <1>2, GetEffect, Zenon
  <2>2. \A v \in T.values : v \in AnyValue
    BY <2>1, ObjectType
  <2>3. Block \in Nat /\ Len(bytes) \in Nat
    BY SerializationAssumption, LenProperties DEF StreamType
  <2> HIDE DEF object, T, r
  <2>4. r.ok \in BOOLEAN /\ r.at \in nReadPos .. Len(bytes) /\ r.room \in 0 .. Block
        /\ (r.ok => r.value \in AnyValue)
    BY <2>1, <2>2 DEF ReadsWithin
  <2>5. nReadPos' \in 0 .. Len(bytes)
    BY <2>1, <2>3, <2>4 DEF StreamType
  <2>6. room' \in 0 .. Block
    BY <2>1, <2>3, <2>4 DEF StreamType, Larger
  <2>7. gets' \in Seq(AnyValue) /\ Len(gets') <= Len(puts')
    <3>1. CASE r.ok
      <4>1. gets' = Append(gets, r.value) /\ r.value \in AnyValue /\ gets \in Seq(AnyValue)
        BY <2>1, <2>4, <3>1 DEF StreamType
      <4>2. gets' \in Seq(AnyValue) /\ Len(gets') = Len(gets) + 1
        BY <4>1, AppendProperties
      <4> QED
        BY <2>1, <4>2
    <3>2. CASE ~ r.ok
      BY <2>1, <3>2 DEF StreamType
    <3> QED
      BY <3>1, <3>2
  <2> QED
    BY <2>1, <2>4, <2>5, <2>6, <2>7, Zenon DEF StreamType
<1>3. CASE CutOff
  <2>1. PICK n \in nReadPos .. Len(bytes) - 1 : bytes' = SubSeq(bytes, 1, n)
    BY <1>3 DEF CutOff
  <2>2. harm' = "cut" /\ UNCHANGED <<nReadPos, thrown, puts, gets, room>>
    BY <1>3 DEF CutOff
  <2>3. Len(bytes) \in Nat
    BY LenProperties DEF StreamType
  <2>4. n \in Nat /\ nReadPos <= n /\ n <= Len(bytes)
    BY <2>3 DEF StreamType
  <2>5. bytes' \in Seq(Byte) /\ Len(bytes') = n
    BY <2>1, <2>4 DEF StreamType
  <2>6. nReadPos' \in 0 .. Len(bytes')
    BY <2>2, <2>4, <2>5 DEF StreamType
  <2> QED
    BY <2>2, <2>5, <2>6 DEF StreamType
<1>4. CASE Garble
  <2>1. PICK rest \in Garbage : bytes' = SubSeq(bytes, 1, nReadPos) \o rest
    BY <1>4 DEF Garble
  <2>2. harm' = "garbled" /\ UNCHANGED <<nReadPos, thrown, puts, gets, room>>
    BY <1>4 DEF Garble
  <2>3. Len(bytes) \in Nat /\ nReadPos \in Nat /\ nReadPos <= Len(bytes)
    BY LenProperties DEF StreamType
  <2> DEFINE u == SubSeq(bytes, 1, nReadPos)
  <2>4. u \in Seq(Byte) /\ Len(u) = nReadPos
    BY <2>3 DEF StreamType
  <2>5. rest \in Seq(Byte) /\ Len(rest) \in Nat
    BY SerializationAssumption, LenProperties
  <2>6. bytes' \in Seq(Byte) /\ Len(bytes') = nReadPos + Len(rest)
    <3> HIDE DEF u
    <3>1. bytes' = u \o rest
      BY <2>1 DEF u
    <3> QED
      BY <2>4, <2>5, <3>1, ConcatProperties
  <2>7. nReadPos' \in 0 .. Len(bytes')
    BY <2>2, <2>3, <2>5, <2>6
  <2> QED
    BY <2>2, <2>6, <2>7 DEF StreamType
<1>5. CASE UNCHANGED vars
  BY <1>5 DEF vars, StreamType
<1> QED
  BY <1>1, <1>2, <1>3, <1>4, <1>5 DEF Next

(* They hold of every state.                                               *)
LEMMA StreamTypeAlways == Spec => []StreamType
<1>1. Init => StreamType
  <2> SUFFICES ASSUME Init PROVE StreamType
    OBVIOUS
  <2>1. <<>> \in Seq(Byte) /\ <<>> \in Seq(Objects) /\ <<>> \in Seq(AnyValue) /\ Len(<<>>) = 0
    BY EmptySeq
  <2>2. 0 \in 0 .. Block
    BY SerializationAssumption
  <2>3. bytes = <<>> /\ nReadPos = 0 /\ thrown = FALSE /\ harm = "none" /\ puts = <<>>
        /\ gets = <<>> /\ room = 0
    BY DEF Init
  <2>4. nReadPos \in 0 .. Len(bytes) /\ Len(gets) <= Len(puts)
    BY <2>1, <2>3
  <2> QED
    BY <2>1, <2>2, <2>3, <2>4 DEF StreamType
<1> QED
  BY <1>1, StreamTypeStep, PTL DEF Spec

(* Whatever size stands before the elements of a vector, it is given room  *)
(* for no more than a block beyond those that are there.                   *)
THEOREM NoRoomForBogusSizes == Spec => []RoomBounded
<1>1. StreamType => RoomBounded
  BY DEF StreamType, RoomBounded
<1> QED
  BY <1>1, StreamTypeAlways, PTL

(* A sum, and what is added to it.                                         *)
LEMMA SumOfMore ==
  ASSUME NEW n \in Nat, NEW a, NEW b,
         \A i \in 1 .. n : a[i] \in Nat /\ b[i] = a[i], b[n + 1] \in Nat
  PROVE  /\ SumOf([i \in 1 .. n |-> a[i]]) \in Nat
         /\ SumOf([i \in 1 .. n + 1 |-> b[i]]) = SumOf([i \in 1 .. n |-> a[i]]) + b[n + 1]
<1> DEFINE x == [i \in 1 .. n |-> a[i]]
           y == [i \in 1 .. n + 1 |-> b[i]]
<1>1. x \in Seq(Nat) /\ Len(x) = n /\ \A i \in 1 .. n : x[i] = a[i]
  OBVIOUS
<1>2. \A i \in 1 .. n + 1 : b[i] \in Nat
  <2>1. ASSUME NEW i \in 1 .. n + 1 PROVE b[i] \in Nat
    <3>1. i \in 1 .. n \/ i = n + 1
      OBVIOUS
    <3> QED
      BY <3>1
  <2> QED
    BY <2>1
<1>3. y \in Seq(Nat) /\ Len(y) = n + 1 /\ \A i \in 1 .. n + 1 : y[i] = b[i]
  BY <1>2
<1> HIDE DEF x, y
<1>4. /\ Len(y) = Len(x) + 1 /\ n + 1 \in 1 .. Len(y)
      /\ \A i \in 1 .. (n + 1) - 1 : y[i] = x[i]
      /\ \A i \in n + 1 .. Len(x) : y[i + 1] = x[i]
  BY <1>1, <1>3
<1>5. SumOf(x) \in Nat /\ SumOf(y) = SumOf(x) + y[n + 1]
  BY <1>1, <1>3, <1>4, SumOfInsert
<1>6. y[n + 1] = b[n + 1]
  BY <1>3
<1> QED
  BY <1>5, <1>6 DEF x, y

(* The sum of nothing.                                                     *)
LEMMA SumOfNothing ==
  ASSUME NEW a, DOMAIN a = {}
  PROVE  SumOf([i \in DOMAIN a |-> a[i]]) = 0
<1> DEFINE x == [i \in DOMAIN a |-> a[i]]
<1>1. x = <<>>
  OBVIOUS
<1>2. <<>> \in Seq(Nat) /\ Len(<<>>) = 0
  BY EmptySeq
<1>3. PICK f : Sums(f, <<>>) /\ SumOf(<<>>) = f[Len(<<>>)]
  BY <1>2, SumOfDef
<1>4. SumOf(<<>>) = 0
  BY <1>2, <1>3 DEF Sums
<1> QED
  BY <1>1, <1>4

(* GetSerializeSize and what Serialize writes agree about everything that  *)
(* was put in the stream, whatever the types are and however they are      *)
(* nested.                                                                 *)
THEOREM SizesAlwaysAgree == Spec => []SizesAgree
<1>1. Init => SizesAgree
  <2> SUFFICES ASSUME Init PROVE SizesAgree
    OBVIOUS
  <2> DEFINE a == [i \in DOMAIN puts |-> Template[puts[i].type].size[puts[i].value]]
  <2>1. puts = <<>> /\ Len(bytes) = 0
    BY DEF Init
  <2>2. a = <<>>
    BY <2>1
  <2>3. SumOf(<<>>) = 0
    <3>1. [i \in DOMAIN <<>> |-> <<>>[i]] = <<>> /\ DOMAIN <<>> = {}
      OBVIOUS
    <3> QED
      BY <3>1, SumOfNothing
  <2> QED
    BY <2>1, <2>2, <2>3 DEF SizesAgree
<1>2. StreamType /\ SizesAgree /\ [Next]_vars => SizesAgree'
  <2> SUFFICES ASSUME StreamType, SizesAgree, [Next]_vars PROVE SizesAgree'
    OBVIOUS
  <2>1. ASSUME NEW object \in Objects, Put(object) PROVE SizesAgree'
    <3> DEFINE n == Len(puts)
               x == Template[object.type].bytes[object.value]
               a == [i \in 1 .. n |-> Template[puts[i].type].size[puts[i].value]]
               b == [i \in 1 .. n + 1 |-> Template[puts'[i].type].size[puts'[i].value]]
    <3>1. /\ Len(bytes') = Len(bytes) + Len(x) /\ n \in Nat
          /\ puts' \in Seq(Objects) /\ Len(puts') = n + 1 /\ puts'[n + 1] = object
          /\ \A i \in 1 .. n : puts'[i] = puts[i]
          /\ harm = "none" /\ Len(bytes) \in Nat /\ Len(x) \in Nat
      BY <2>1, PutEffect
    <3>2. Len(x) = Template[object.type].size[object.value]
      BY ObjectType
    <3>3. puts \in Seq(Objects) /\ DOMAIN puts = 1 .. n /\ DOMAIN puts' = 1 .. n + 1
      <4>1. puts \in Seq(Objects)
        BY DEF StreamType
      <4> QED
        BY <3>1, <4>1, LenProperties
    <3>4. \A i \in 1 .. n : a[i] \in Nat /\ b[i] = a[i]
      <4>1. ASSUME NEW i \in 1 .. n PROVE a[i] \in Nat /\ b[i] = a[i]
        <5>1. puts[i] \in Objects /\ i \in 1 .. n + 1 /\ puts'[i] = puts[i]
          BY <3>1, <3>3, ElementOfSeq
        <5>2. a[i] = Template[puts[i].type].size[puts[i].value] /\ b[i] = a[i]
          BY <5>1
        <5>3. Template[puts[i].type].size[puts[i].value] \in Nat
          BY <5>1, ObjectType
        <5> QED
          BY <5>2, <5>3
      <4> QED
        BY <4>1
    <3>5. b[n + 1] = Len(x)
      <4>1. n + 1 \in 1 .. n + 1
        BY <3>1
      <4> QED
        BY <3>1, <3>2, <4>1
    <3>6. Len(bytes) = SumOf(a)
      BY <3>1, <3>3 DEF SizesAgree
    <3>7. a = [i \in 1 .. n |-> a[i]] /\ b = [i \in 1 .. n + 1 |-> b[i]]
      OBVIOUS
    <3>8. b = [i \in DOMAIN puts' |-> Template[puts'[i].type].size[puts'[i].value]]
      BY <3>3
    <3> HIDE DEF a, b, x
    <3>9. SumOf([i \in 1 .. n + 1 |-> b[i]]) = SumOf([i \in 1 .. n |-> a[i]]) + b[n + 1]
      BY <3>1, <3>4, <3>5, SumOfMore
    <3>10. Len(bytes') = SumOf(b)
      BY <3>1, <3>5, <3>6, <3>7, <3>9
    <3> QED
      BY <3>8, <3>10 DEF SizesAgree
  <2>2. CASE Get
    BY <2>2 DEF Get, SizesAgree
  <2>3. CASE CutOff
    BY <2>3 DEF CutOff, SizesAgree
  <2>4. CASE Garble
    BY <2>4 DEF Garble, SizesAgree
  <2>5. CASE UNCHANGED vars
    BY <2>5 DEF vars, SizesAgree
  <2> QED
    BY <2>1, <2>2, <2>3, <2>4, <2>5 DEF Next
<1> QED
  BY <1>1, <1>2, StreamTypeAlways, PTL DEF Spec

(* Whatever stands in the stream, an object that is returned was read from *)
(* bytes that are there, has a value of its type, and would take no more   *)
(* bytes than were taken for it.                                           *)
THEOREM NothingIsInvented == Spec => []NothingInvented
<1>1. Init => NothingInvented
  <2> SUFFICES ASSUME Init PROVE NothingInvented
    OBVIOUS
  <2>1. gets = <<>> /\ nReadPos = 0 /\ Len(bytes) = 0 /\ DOMAIN gets = {}
    BY DEF Init
  <2>2. [i \in DOMAIN gets |-> Template[puts[i].type].size[gets[i]]] = <<>>
    BY <2>1
  <2>3. SumOf(<<>>) = 0
    <3>1. [i \in DOMAIN <<>> |-> <<>>[i]] = <<>> /\ DOMAIN <<>> = {}
      OBVIOUS
    <3> QED
      BY <3>1, SumOfNothing
  <2> QED
    BY <2>1, <2>2, <2>3 DEF NothingInvented
<1>2. StreamType /\ NothingInvented /\ [Next]_vars /\ StreamType' => NothingInvented'
  <2> SUFFICES ASSUME StreamType, NothingInvented, [Next]_vars, StreamType' PROVE NothingInvented'
    OBVIOUS
  <2> DEFINE n == Len(gets)
             a == [i \in 1 .. n |-> Template[puts[i].type].size[gets[i]]]
  <2>1. n \in Nat /\ DOMAIN gets = 1 .. n /\ n <= Len(puts) /\ Len(puts) \in Nat
        /\ \A i \in 1 .. n : puts[i] \in Objects
    <3>1. gets \in Seq(AnyValue) /\ puts \in Seq(Objects) /\ n <= Len(puts)
      BY DEF StreamType
    <3>2. n \in Nat /\ DOMAIN gets = 1 .. n /\ Len(puts) \in Nat
      BY <3>1, LenProperties
    <3>3. \A i \in 1 .. n : i \in 1 .. Len(puts)
      BY <3>1, <3>2
    <3>4. \A i \in 1 .. Len(puts) : puts[i] \in Objects
      BY <3>1, ElementOfSeq
    <3> QED
      BY <3>1, <3>2, <3>3, <3>4
  <2>2. nReadPos' <= Len(bytes')
    BY DEF StreamType
  <2>3. /\ \A i \in 1 .. n : gets[i] \in Template[puts[i].type].values
        /\ SumOf(a) <= nReadPos
    BY <2>1 DEF NothingInvented
  <2>4. ASSUME gets' = gets, nReadPos' = nReadPos, \A i \in 1 .. n : puts'[i] = puts[i]
        PROVE  NothingInvented'
    <3>1. a = [i \in DOMAIN gets' |-> Template[puts'[i].type].size[gets'[i]]]
      BY <2>1, <2>4
    <3> HIDE DEF a
    <3>2. \A i \in DOMAIN gets' : gets'[i] \in Template[puts'[i].type].values
      BY <2>1, <2>3, <2>4
    <3> QED
      BY <2>2, <2>3, <2>4, <3>1, <3>2 DEF NothingInvented
  <2>5. ASSUME NEW object \in Objects, Put(object) PROVE NothingInvented'
    <3>1. /\ \A i \in 1 .. Len(puts) : puts'[i] = puts[i]
          /\ gets' = gets /\ nReadPos' = nReadPos
      BY <2>5, PutEffect
    <3>2. \A i \in 1 .. n : i \in 1 .. Len(puts)
      BY <2>1
    <3> HIDE DEF a
    <3> QED
      BY <2>4, <3>1, <3>2
  <2>6. CASE Get
    <3> DEFINE object == puts[n + 1]
               T      == Template[object.type]
               r      == T.read[bytes][nReadPos]
    <3>1. /\ object \in Objects
          /\ ReadsWithin(T, bytes, nReadPos, r)
          /\ nReadPos' = r.at
          /\ gets' = IF r.ok THEN Append(gets, r.value) ELSE gets
          /\ UNCHANGED <<bytes, puts>>
      BY <2>6, GetEffect
    <3>2. \A v \in T.values : T.size[v] \in Nat
      BY <3>1, ObjectType
    <3>3. nReadPos \in Nat /\ Len(bytes) \in Nat
      BY LenProperties DEF StreamType
    <3> HIDE DEF r, a
    <3>4. r.at \in nReadPos .. Len(bytes)
          /\ (r.ok => r.value \in T.values /\ nReadPos + T.size[r.value] <= r.at)
      BY <3>1 DEF ReadsWithin
    <3>5. \A i \in 1 .. n : Template[puts[i].type].size[gets[i]] \in Nat
      <4>1. ASSUME NEW i \in 1 .. n PROVE Template[puts[i].type].size[gets[i]] \in Nat
        <5>1. puts[i] \in Objects /\ gets[i] \in Template[puts[i].type].values
          BY <2>1, <2>3
        <5> QED
          BY <5>1, ObjectType
      <4> QED
        BY <4>1
    <3>6. CASE r.ok
      <4> DEFINE g == Append(gets, r.value)
                 b == [i \in 1 .. n + 1 |-> Template[puts[i].type].size[g[i]]]
                 z == T.size[r.value]
      <4>1. gets' = g
        BY <3>1, <3>6
      <4>2. /\ Len(g) = n + 1 /\ g[n + 1] = r.value /\ DOMAIN g = 1 .. n + 1
            /\ \A i \in 1 .. n : g[i] = gets[i]
        <5>1. gets \in Seq(AnyValue)
          BY DEF StreamType
        <5>2. gets' \in Seq(AnyValue)
          BY DEF StreamType
        <5>3. \A i \in 1 .. n : g[i] = gets[i]
          BY <2>1, <5>1
        <5>4. Len(g) = n + 1 /\ g[n + 1] = r.value
          BY <2>1, <5>1
        <5>5. DOMAIN g = 1 .. n + 1
          BY <4>1, <5>2, <5>4, LenProperties
        <5> QED
          BY <5>3, <5>4, <5>5
      <4> HIDE DEF g
      <4>3. /\ \A i \in 1 .. n : a[i] \in Nat /\ b[i] = a[i]
            /\ a = [i \in 1 .. n |-> a[i]] /\ b = [i \in 1 .. n + 1 |-> b[i]]
            /\ b[n + 1] = z
        <5>1. \A i \in 1 .. n : i \in 1 .. n + 1
          BY <2>1
        <5>2. \A i \in 1 .. n : a[i] = Template[puts[i].type].size[gets[i]]
          BY DEF a
        <5>3. \A i \in 1 .. n + 1 : b[i] = Template[puts[i].type].size[g[i]]
          OBVIOUS
        <5>4. n + 1 \in 1 .. n + 1
          BY <2>1
        <5>5. a = [i \in 1 .. n |-> a[i]] /\ b = [i \in 1 .. n + 1 |-> b[i]]
          BY DEF a
        <5> HIDE DEF b
        <5>6. b[n + 1] = z
          BY <4>2, <5>3, <5>4
        <5>7. \A i \in 1 .. n : a[i] \in Nat /\ b[i] = a[i]
          BY <3>5, <4>2, <5>1, <5>2, <5>3
        <5> QED
          BY <5>5, <5>6, <5>7
      <4>4. z \in Nat /\ nReadPos + z <= r.at
        BY <3>2, <3>4, <3>6
      <4>5. b = [i \in DOMAIN gets' |-> Template[puts'[i].type].size[gets'[i]]]
        BY <3>1, <4>1, <4>2
      <4>6. \A i \in DOMAIN gets' : gets'[i] \in Template[puts'[i].type].values
        <5>1. ASSUME NEW i \in 1 .. n + 1 PROVE g[i] \in Template[puts[i].type].values
          <6>1. CASE i = n + 1
            BY <3>4, <3>6, <4>2, <6>1
          <6>2. CASE i # n + 1
            <7>1. i \in 1 .. n
              BY <2>1, <6>2
            <7> QED
              BY <2>3, <4>2, <7>1
          <6> QED
            BY <6>1, <6>2
        <5>2. puts' = puts /\ gets' = g /\ DOMAIN g = 1 .. n + 1
          BY <3>1, <4>1, <4>2
        <5> QED
          BY <5>1, <5>2
      <4> HIDE DEF b, z
      <4>7. /\ SumOf([i \in 1 .. n |-> a[i]]) \in Nat
            /\ SumOf([i \in 1 .. n + 1 |-> b[i]]) = SumOf([i \in 1 .. n |-> a[i]]) + b[n + 1]
        <5>1. b[n + 1] \in Nat
          BY <4>3, <4>4
        <5>2. \A i \in 1 .. n : a[i] \in Nat /\ b[i] = a[i]
          BY <4>3
        <5> QED
          BY <2>1, <5>1, <5>2, SumOfMore
      <4>8. SumOf(a) \in Nat /\ SumOf(b) = SumOf(a) + z
        <5>1. a = [i \in 1 .. n |-> a[i]] /\ b = [i \in 1 .. n + 1 |-> b[i]] /\ b[n + 1] = z
          BY <4>3
        <5> QED
          BY <4>7, <5>1, Zenon
      <4>9. SumOf(b) <= nReadPos'
        <5>1. SumOf(a) <= nReadPos /\ r.at \in Nat /\ nReadPos' = r.at
          BY <2>3, <3>1, <3>3, <3>4
        <5> HIDE DEF T, object
        <5> QED
          BY <3>3, <4>4, <4>8, <5>1
      <4> QED
        BY <2>2, <4>5, <4>6, <4>9 DEF NothingInvented
    <3>7. CASE ~ r.ok
      <4>1. gets' = gets /\ puts' = puts
        BY <3>1, <3>7
      <4>2. a = [i \in DOMAIN gets' |-> Template[puts'[i].type].size[gets'[i]]]
        BY <2>1, <4>1 DEF a
      <4>3. SumOf(a) <= nReadPos'
        <5> DEFINE k == SumOf(a)
        <5>1. k \in Nat
          <6> DEFINE size == [i \in 1 .. n |-> Template[puts[i].type].size[gets[i]]]
          <6>1. size \in Seq(Nat)
            BY <2>1, <3>5
          <6>2. PICK f : Sums(f, size) /\ SumOf(size) = f[Len(size)]
            BY <6>1, SumOfDef
          <6>3. Len(size) \in 0 .. Len(size)
            BY <6>1, LenProperties
          <6>4. SumOf(size) \in Nat
            <7> HIDE DEF size
            <7> QED
              BY <6>2, <6>3 DEF Sums
          <6> QED
            BY <6>4 DEF a
        <5>2. k <= nReadPos /\ nReadPos' = r.at /\ nReadPos <= r.at /\ r.at \in Nat
          BY <2>3, <3>1, <3>3, <3>4
        <5> HIDE DEF k, T, object
        <5>3. k <= nReadPos'
          BY <3>3, <5>1, <5>2
        <5> QED
          BY <5>3 DEF k
      <4>4. \A i \in DOMAIN gets' : gets'[i] \in Template[puts'[i].type].values
        BY <2>1, <2>3, <4>1
      <4> QED
        BY <2>2, <4>2, <4>3, <4>4 DEF NothingInvented
    <3>8. r.ok \in BOOLEAN
      BY <3>1 DEF ReadsWithin
    <3> QED
      BY <3>6, <3>7, Zenon
  <2>7. CASE CutOff
    <3>1. gets' = gets /\ nReadPos' = nReadPos /\ puts' = puts
      BY <2>7 DEF CutOff
    <3> HIDE DEF a
    <3> QED
      BY <2>4, <3>1
  <2>8. CASE Garble
    <3>1. gets' = gets /\ nReadPos' = nReadPos /\ puts' = puts
      BY <2>8 DEF Garble
    <3> HIDE DEF a
    <3> QED
      BY <2>4, <3>1
  <2>9. CASE UNCHANGED vars
    <3>1. gets' = gets /\ nReadPos' = nReadPos /\ puts' = puts
      BY <2>9 DEF vars
    <3> HIDE DEF a
    <3> QED
      BY <2>4, <3>1
  <2> QED
    BY <2>5, <2>6, <2>7, <2>8, <2>9 DEF Next
<1>3. StreamType /\ [Next]_vars => StreamType'
  BY StreamTypeStep
<1> QED
  BY <1>1, <1>2, <1>3, StreamTypeAlways, PTL DEF Spec

(* Objects stand in a stream: f[i] is what the first i of them make, and   *)
(* the stream is, as far as it goes, what all of them make; it is that     *)
(* itself if it is whole.                                                  *)
Parts(objects) == [i \in DOMAIN objects |-> Template[objects[i].type].bytes[objects[i].value]]
Holds(f, objects, s, whole) ==
  /\ Joins(f, Parts(objects))
  /\ Carries(s, 0, f[Len(objects)])
  /\ whole => s = f[Len(objects)]

(* Every object is written as bytes.                                       *)
LEMMA PartsType ==
  ASSUME NEW objects \in Seq(Objects)
  PROVE  /\ Parts(objects) \in Seq(Seq(Byte)) /\ Len(Parts(objects)) = Len(objects)
         /\ Len(objects) \in Nat
         /\ \A i \in 1 .. Len(objects) :
              /\ objects[i] \in Objects
              /\ Parts(objects)[i] = Template[objects[i].type].bytes[objects[i].value]
<1> DEFINE n == Len(objects)
           p == [i \in 1 .. n |-> Template[objects[i].type].bytes[objects[i].value]]
<1>1. n \in Nat /\ DOMAIN objects = 1 .. n
  BY LenProperties
<1>2. \A i \in 1 .. n : objects[i] \in Objects
  BY ElementOfSeq
<1>3. \A i \in 1 .. n : Template[objects[i].type].bytes[objects[i].value] \in Seq(Byte)
  BY <1>2, ObjectType
<1>4. p \in Seq(Seq(Byte)) /\ Len(p) = n
      /\ \A i \in 1 .. n : p[i] = Template[objects[i].type].bytes[objects[i].value]
  BY <1>1, <1>3
<1>5. Parts(objects) = p
  BY <1>1 DEF Parts
<1> HIDE DEF p
<1> QED
  BY <1>1, <1>2, <1>4, <1>5

(* More parts make no less.                                                *)
LEMMA JoinsGrow ==
  ASSUME NEW a \in Seq(Seq(Byte)), NEW f, Joins(f, a)
  PROVE  \A i \in 0 .. Len(a) : f[i] \in Seq(Byte) /\ Len(f[i]) \in Nat /\ Len(f[i]) <= Len(f[Len(a)])
<1> DEFINE n == Len(a)
           S == {m \in 0 .. n : \A i \in 0 .. m : Len(f[i]) <= Len(f[m])}
<1>1. n \in Nat
  BY LenProperties
<1>2. \A i \in 0 .. n : f[i] \in Seq(Byte) /\ Len(f[i]) \in Nat
  <2>1. f \in [0 .. n -> Seq(Byte)]
    BY DEF Joins
  <2>2. \A i \in 0 .. n : f[i] \in Seq(Byte)
    BY <2>1
  <2> QED
    BY <2>2, LenProperties
<1>3. \A m \in 0 .. n - 1 : Len(f[m]) <= Len(f[m + 1])
  <2>1. ASSUME NEW m \in 0 .. n - 1 PROVE Len(f[m]) <= Len(f[m + 1])
    <3>1. m + 1 \in 1 .. Len(a) /\ (m + 1) - 1 = m
      BY <1>1
    <3>2. Len(f[m + 1]) = Len(f[(m + 1) - 1]) + Len(a[m + 1])
          /\ Len(f[(m + 1) - 1]) \in Nat /\ Len(a[m + 1]) \in Nat
      <4>1. \A i \in 1 .. Len(a) : /\ Len(f[i - 1]) \in Nat /\ Len(a[i]) \in Nat
                                   /\ Len(f[i]) = Len(f[i - 1]) + Len(a[i])
        BY JoinsParts
      <4> QED
        BY <3>1, <4>1
    <3>3. f[(m + 1) - 1] = f[m]
      BY <3>1
    <3> DEFINE u == Len(f[m])
               v == Len(a[m + 1])
               w == Len(f[m + 1])
    <3>4. w = u + v /\ u \in Nat /\ v \in Nat
      BY <3>2, <3>3
    <3> HIDE DEF u, v, w
    <3>5. u <= w
      BY <3>4
    <3> QED
      BY <3>5 DEF u, w
  <2> QED
    BY <2>1
<1>4. 0 \in S
  BY <1>1, <1>2
<1>5. ASSUME NEW m \in 0 .. n - 1, m \in S PROVE m + 1 \in S
  <2>1. m + 1 \in 0 .. n /\ m \in 0 .. n
    BY <1>1
  <2>2. ASSUME NEW i \in 0 .. m + 1 PROVE Len(f[i]) <= Len(f[m + 1])
    <3>1. CASE i = m + 1
      BY <1>2, <2>1, <3>1
    <3>2. CASE i # m + 1
      <4>1. i \in 0 .. m /\ i \in 0 .. n
        BY <1>1, <3>2
      <4>2. Len(f[i]) <= Len(f[m])
        BY <1>5, <4>1
      <4> QED
        BY <1>2, <1>3, <2>1, <4>1, <4>2
    <3> QED
      BY <3>1, <3>2
  <2> QED
    BY <2>1, <2>2
<1>6. n \in S
  <2> HIDE DEF S, n
  <2>1. \A m \in 0 .. n : m \in S
    BY <1>1, <1>4, <1>5, NumbersUpTo
  <2> QED
    BY <1>1, <2>1
<1> QED
  BY <1>2, <1>6

(* A whole stream, and the same with an object more behind the others.     *)
Whole(f, objects, s) == Holds(f, objects, s, TRUE)
Extended(f, p, q, s) == \E g : Whole(g, q, s) /\ \A m \in 0 .. Len(p) : g[m] = f[m]

(* An object that is put in extends a whole stream.                        *)
LEMMA MoreHeld ==
  ASSUME NEW p \in Seq(Objects), NEW q \in Seq(Objects), NEW object \in Objects,
         Len(q) = Len(p) + 1, q[Len(p) + 1] = object, \A i \in 1 .. Len(p) : q[i] = p[i],
         NEW s \in Seq(Byte), NEW f, Whole(f, p, s)
  PROVE  Extended(f, p, q, s \o Template[object.type].bytes[object.value])
<1> DEFINE n == Len(p)
           x == Template[object.type].bytes[object.value]
           t == s \o x
           g == [m \in 0 .. n + 1 |-> IF m = n + 1 THEN t ELSE f[m]]
           a == Parts(p)
           b == Parts(q)
<1>1. /\ n \in Nat /\ a \in Seq(Seq(Byte)) /\ Len(a) = n
      /\ \A i \in 1 .. n : a[i] = Template[p[i].type].bytes[p[i].value]
  BY PartsType
<1>2. /\ b \in Seq(Seq(Byte)) /\ Len(b) = n + 1
      /\ \A i \in 1 .. n + 1 : b[i] = Template[q[i].type].bytes[q[i].value]
  <2>1. /\ b \in Seq(Seq(Byte)) /\ Len(b) = Len(q)
        /\ \A i \in 1 .. Len(q) : b[i] = Template[q[i].type].bytes[q[i].value]
    BY PartsType
  <2> QED
    BY <2>1
<1>3. b[n + 1] = x /\ \A i \in 1 .. n : b[i] = a[i]
  <2>1. n + 1 \in 1 .. n + 1 /\ \A i \in 1 .. n : i \in 1 .. n + 1
    BY <1>1
  <2> QED
    BY <1>1, <1>2, <2>1
<1>4. x \in Seq(Byte) /\ t \in Seq(Byte)
  <2>1. x \in Seq(Byte)
    BY ObjectType
  <2> HIDE DEF x
  <2> QED
    BY <2>1, ConcatProperties
<1>5. Joins(f, a) /\ s = f[n]
  BY DEF Whole, Holds
<1>6. f \in [0 .. n -> Seq(Byte)] /\ f[0] = <<>> /\ \A i \in 1 .. n : f[i] = f[i - 1] \o a[i]
  BY <1>1, <1>5 DEF Joins
<1> HIDE DEF a, b
<1>7. g[n + 1] = t /\ \A m \in 0 .. n : g[m] = f[m]
  <2> HIDE DEF t
  <2>1. n + 1 \in 0 .. n + 1 /\ \A m \in 0 .. n : m \in 0 .. n + 1 /\ m # n + 1
    BY <1>1
  <2> QED
    BY <2>1
<1>8. g \in [0 .. n + 1 -> Seq(Byte)]
  <2> HIDE DEF t
  <2>1. ASSUME NEW m \in 0 .. n + 1, m # n + 1 PROVE f[m] \in Seq(Byte)
    <3>1. m \in 0 .. n
      BY <1>1, <2>1
    <3> QED
      BY <1>6, <3>1
  <2> QED
    BY <1>4, <2>1
<1> HIDE DEF g
<1>9. ASSUME NEW i \in 1 .. n + 1 PROVE g[i] = g[i - 1] \o b[i]
  <2>1. CASE i = n + 1
    <3>1. i - 1 = n /\ n \in 0 .. n
      BY <1>1, <2>1
    <3>2. g[i - 1] = s /\ b[i] = x /\ g[i] = t
      BY <1>3, <1>5, <1>7, <2>1, <3>1
    <3> QED
      BY <3>2
  <2>2. CASE i # n + 1
    <3>1. i \in 1 .. n /\ i - 1 \in 0 .. n /\ i \in 0 .. n
      BY <1>1, <2>2
    <3>2. g[i] = f[i] /\ g[i - 1] = f[i - 1] /\ b[i] = a[i]
      BY <1>3, <1>7, <3>1
    <3> HIDE DEF x
    <3> QED
      BY <1>6, <3>1, <3>2
  <2> QED
    BY <2>1, <2>2
<1>10. Joins(g, b)
  <2>1. 0 \in 0 .. n
    BY <1>1
  <2>2. g[0] = <<>>
    BY <1>6, <1>7, <2>1
  <2> QED
    BY <1>2, <1>8, <1>9, <2>2 DEF Joins
<1>11. Carries(t, 0, t)
  <2> HIDE DEF t
  <2> QED
    BY <1>4, LenProperties DEF Carries
<1>12. Whole(g, q, t)
  BY <1>7, <1>10, <1>11 DEF Whole, Holds, b
<1> QED
  BY <1>7, <1>12, Zenon DEF Extended

(* A stream whose end is lost.                                             *)
LEMMA CutHeld ==
  ASSUME NEW s \in Seq(Byte), NEW n \in 0 .. Len(s), NEW f, NEW p, NEW whole, Holds(f, p, s, whole)
  PROVE  Holds(f, p, SubSeq(s, 1, n), FALSE)
<1> DEFINE u == SubSeq(s, 1, n)
           x == f[Len(p)]
<1>1. Len(s) \in Nat /\ n \in Nat /\ n <= Len(s)
  BY LenProperties
<1>2. Len(u) = n /\ \A i \in 1 .. n : u[i] = s[i]
  BY <1>1
<1>3. Carries(s, 0, x)
  BY DEF Holds
<1> HIDE DEF u, x
<1>4. \A i \in 1 .. Len(x) : 0 + i <= Len(s) => s[0 + i] = x[i]
  BY <1>3 DEF Carries
<1>5. ASSUME NEW i \in 1 .. Len(x), 0 + i <= Len(u) PROVE u[0 + i] = x[i]
  <2>1. 0 + i = i /\ i \in 1 .. n
    BY <1>1, <1>2, <1>5
  <2>2. i <= Len(s)
    BY <1>1, <2>1
  <2> QED
    BY <1>2, <1>4, <2>1, <2>2
<1>6. Carries(u, 0, x)
  BY <1>5, Zenon DEF Carries
<1> QED
  BY <1>6 DEF Holds, u, x

(* The next object, of a stream where the first k objects were taken.      *)
LEMMA NextObject ==
  ASSUME NEW p \in Seq(Objects), NEW s \in Seq(Byte), NEW f, NEW whole \in BOOLEAN,
         Holds(f, p, s, whole), NEW k \in 0 .. Len(p) - 1,
         NEW at \in 0 .. Len(s), at = Len(f[k]), Template[p[k + 1].type].readable
  PROVE  LET r == Template[p[k + 1].type].read[s][at]
         IN  IF r.ok THEN r.value = Kept(p[k + 1].type, p[k + 1].value) /\ r.at = Len(f[k + 1])
                     ELSE ~ whole \/ Const(p[k + 1].type)
<1> DEFINE o == p[k + 1]
           T == Template[o.type]
           x == T.bytes[o.value]
           r == T.read[s][at]
           a == Parts(p)
           n == Len(p)
<1>1. n \in Nat /\ a \in Seq(Seq(Byte)) /\ Len(a) = n
      /\ \A i \in 1 .. n : p[i] \in Objects /\ a[i] = Template[p[i].type].bytes[p[i].value]
  BY PartsType
<1>2. k + 1 \in 1 .. n /\ k \in 0 .. n /\ k + 1 \in 0 .. n /\ (k + 1) - 1 = k
  BY <1>1
<1>3. o \in Objects /\ a[k + 1] = x
  BY <1>1, <1>2
<1>4. o.value \in T.values /\ Faithful(o.type, T)
  BY <1>3, ObjectType
<1>5. Joins(f, a) /\ Carries(s, 0, f[n]) /\ (whole => s = f[n])
  BY DEF Holds
<1> HIDE DEF a
<1>6. Carries(s, at, x)
  <2>1. Carries(s, 0, f[Len(a)])
    BY <1>1, <1>5
  <2>2. \A i \in 1 .. Len(a) : Carries(s, 0 + Len(f[i - 1]), a[i])
    <3>1. 0 \in Nat
      OBVIOUS
    <3> QED
      BY <1>1, <1>5, <2>1, <3>1, JoinsCarried
  <2>3. Carries(s, 0 + Len(f[(k + 1) - 1]), a[k + 1])
    BY <1>1, <1>2, <2>2
  <2>4. 0 + at = at
    BY LenProperties
  <2>5. 0 + Len(f[(k + 1) - 1]) = at
    BY <1>2, <2>4
  <2> HIDE DEF x, o
  <2> QED
    BY <1>3, <2>3, <2>5
<1>7. Returns(o.type, r, s, at, x, o.value)
  <2> HIDE DEF T
  <2> QED
    BY <1>4, <1>6 DEF Faithful, T
<1>8. /\ Len(f[k + 1]) = at + Len(x) /\ at + Len(x) \in Nat
      /\ Len(f[k + 1]) <= Len(f[n])
  <2>1. Len(f[k + 1]) = Len(f[(k + 1) - 1]) + Len(a[k + 1])
    <3>1. \A i \in 1 .. Len(a) : Len(f[i]) = Len(f[i - 1]) + Len(a[i])
      BY <1>1, <1>5, JoinsParts
    <3> QED
      BY <1>1, <1>2, <3>1
  <2>2. \A i \in 0 .. Len(a) : Len(f[i]) \in Nat /\ Len(f[i]) <= Len(f[Len(a)])
    BY <1>1, <1>5, JoinsGrow
  <2>3. Len(f[k + 1]) \in Nat /\ Len(f[k + 1]) <= Len(f[n])
    BY <1>1, <1>2, <2>2
  <2> HIDE DEF x, o
  <2> QED
    BY <1>2, <1>3, <2>1, <2>3
<1> HIDE DEF r, x, T, o
<1>9. IF r.ok THEN r.value = Kept(o.type, o.value) /\ r.at = Len(f[k + 1])
              ELSE ~ whole \/ Const(o.type)
  <2>1. CASE Const(o.type)
    BY <1>7, <2>1 DEF Returns
  <2>2. CASE ~ Const(o.type)
    <3>1. Restores(r, s, at, x, Kept(o.type, o.value))
      BY <1>7, <2>2 DEF Returns
    <3>2. CASE r.ok
      BY <1>8, <3>1, <3>2 DEF Restores
    <3>3. CASE ~ r.ok
      <4>1. ~ (at + Len(x) <= Len(s))
        BY <3>1, <3>3 DEF Restores
      <4>2. whole => at + Len(x) <= Len(s)
        BY <1>5, <1>8
      <4> QED
        BY <3>3, <4>1, <4>2
    <3> QED
      BY <3>2, <3>3
  <2> QED
    BY <2>1, <2>2
<1> QED
  BY <1>9 DEF r, T, o

(* The invariant: unless somebody else wrote to it, the stream holds what  *)
(* was put in, and is read where the next object begins; and a read has    *)
(* thrown only where RoundTrip says, with an object left.                  *)
InStep(f) ==
  /\ Holds(f, puts, bytes, harm = "none")
  /\ ~ thrown => nReadPos = Len(f[Len(gets)])
Rightly ==
  /\ \A i \in DOMAIN gets : gets[i] = Kept(puts[i].type, puts[i].value)
  /\ thrown => /\ Len(gets) < Len(puts)
               /\ harm = "cut" \/ Const(puts[Len(gets) + 1].type)
RoundTripInv == harm # "garbled" => Rightly /\ \E f : InStep(f)

(* Lengths, as StreamType has them.                                        *)
LEMMA Lengths ==
  ASSUME StreamType
  PROVE  /\ Len(gets) \in Nat /\ Len(puts) \in Nat /\ Len(bytes) \in Nat
         /\ Len(gets) <= Len(puts) /\ DOMAIN gets = 1 .. Len(gets)
<1>1. /\ gets \in Seq(AnyValue) /\ puts \in Seq(Objects) /\ bytes \in Seq(Byte)
      /\ Len(gets) <= Len(puts)
  BY DEF StreamType
<1> QED
  BY <1>1, LenProperties

(* An object that is put in keeps it.                                      *)
LEMMA PutInStep ==
  ASSUME StreamType, RoundTripInv, NEW object \in Objects, Put(object)
  PROVE  RoundTripInv'
<1> DEFINE x == Template[object.type].bytes[object.value]
<1>1. /\ bytes' = bytes \o x /\ puts' \in Seq(Objects) /\ Len(puts') = Len(puts) + 1
      /\ puts'[Len(puts) + 1] = object
      /\ \A i \in 1 .. Len(puts) : puts'[i] = puts[i]
      /\ harm = "none" /\ UNCHANGED <<nReadPos, thrown, harm, gets, room>>
  BY PutEffect
<1>2. ~ thrown
  BY DEF Put
<1>3. Rightly
  BY <1>1 DEF RoundTripInv
<1>4. PICK f : InStep(f)
  BY <1>1 DEF RoundTripInv
<1>5. Whole(f, puts, bytes) /\ nReadPos = Len(f[Len(gets)])
  <2>1. (harm = "none") = TRUE
    BY <1>1
  <2> QED
    BY <1>2, <1>4, <2>1 DEF InStep, Whole
<1>6. puts \in Seq(Objects) /\ bytes \in Seq(Byte)
  BY DEF StreamType
<1>7. PICK g : Whole(g, puts', bytes \o x) /\ \A m \in 0 .. Len(puts) : g[m] = f[m]
  <2> DEFINE p == puts
             q == puts'
             s == bytes
  <2>1. /\ p \in Seq(Objects) /\ q \in Seq(Objects) /\ s \in Seq(Byte)
        /\ Len(q) = Len(p) + 1 /\ q[Len(p) + 1] = object
        /\ \A i \in 1 .. Len(p) : q[i] = p[i]
        /\ Whole(f, p, s)
    BY <1>1, <1>5, <1>6
  <2> HIDE DEF p, q, s
  <2>2. Extended(f, p, q, s \o x)
    BY <2>1, MoreHeld
  <2> HIDE DEF x
  <2> QED
    BY <2>2 DEF p, q, s, Extended
<1> HIDE DEF x
<1>8. Len(gets) \in 0 .. Len(puts)
  BY Lengths
<1>9. Holds(g, puts', bytes', harm' = "none")
  <2>1. (harm' = "none") = TRUE
    BY <1>1
  <2> QED
    BY <1>1, <1>7, <2>1 DEF Whole
<1>10. nReadPos' = Len(g[Len(gets')])
  BY <1>1, <1>5, <1>7, <1>8
<1>11. InStep(g)'
  BY <1>9, <1>10 DEF InStep
<1>12. Rightly'
  <2>1. \A i \in 1 .. Len(gets) : i \in 1 .. Len(puts)
    BY Lengths
  <2>2. \A i \in DOMAIN gets' : gets'[i] = Kept(puts'[i].type, puts'[i].value)
    BY <1>1, <1>3, <2>1, Lengths DEF Rightly
  <2>3. ~ thrown'
    BY <1>1, <1>2
  <2> QED
    BY <2>2, <2>3 DEF Rightly
<1> QED
  BY <1>11, <1>12 DEF RoundTripInv

(* So does an object that is taken out.                                    *)
LEMMA GetInStep ==
  ASSUME StreamType, RoundTripInv, Get
  PROVE  RoundTripInv'
<1> SUFFICES ASSUME harm # "garbled" PROVE Rightly' /\ \E f : InStep(f)'
  BY Zenon DEF RoundTripInv, Get
<1> DEFINE k      == Len(gets)
           object == puts[k + 1]
           r      == Template[object.type].read[bytes][nReadPos]
<1>1. /\ Template[object.type].readable /\ ~ thrown
      /\ r.ok \in BOOLEAN
      /\ nReadPos' = r.at /\ thrown' = ~ r.ok
      /\ gets' = IF r.ok THEN Append(gets, r.value) ELSE gets
      /\ UNCHANGED <<bytes, harm, puts>>
  BY GetEffect DEF ReadsWithin
<1>2. k \in Nat /\ Len(puts) \in Nat /\ k < Len(puts) /\ DOMAIN gets = 1 .. k
  BY Lengths DEF Get
<1>3. Rightly
  BY DEF RoundTripInv
<1>4. PICK f : InStep(f)
  BY Zenon DEF RoundTripInv
<1>5. Holds(f, puts, bytes, harm = "none") /\ nReadPos = Len(f[k])
  BY <1>1, <1>4 DEF InStep
<1>6. IF r.ok THEN r.value = Kept(object.type, object.value) /\ r.at = Len(f[k + 1])
              ELSE ~ (harm = "none") \/ Const(object.type)
  <2>1. puts \in Seq(Objects) /\ bytes \in Seq(Byte) /\ nReadPos \in 0 .. Len(bytes)
        /\ k \in 0 .. Len(puts) - 1 /\ (harm = "none") \in BOOLEAN
    BY <1>2, SMTT(30) DEF StreamType
  <2> DEFINE whole == harm = "none"
             at    == nReadPos
  <2>2. whole \in BOOLEAN /\ Holds(f, puts, bytes, whole) /\ at = Len(f[k])
        /\ at \in 0 .. Len(bytes) /\ Template[puts[k + 1].type].readable
    BY <1>1, <1>5, <2>1
  <2> HIDE DEF whole, k, at
  <2>3. LET u == Template[puts[k + 1].type].read[bytes][at]
        IN  IF u.ok THEN u.value = Kept(puts[k + 1].type, puts[k + 1].value) /\ u.at = Len(f[k + 1])
                    ELSE ~ whole \/ Const(puts[k + 1].type)
    BY <2>1, <2>2, NextObject, SMTT(30)
  <2> QED
    BY <2>3 DEF whole, k, at
<1>7. harm \in {"none", "cut"}
  BY DEF StreamType
<1> HIDE DEF r
<1>8. CASE r.ok
  <2>1. gets' = Append(gets, r.value) /\ ~ thrown'
    BY <1>1, <1>8
  <2>2. /\ Len(gets') = k + 1 /\ gets'[k + 1] = r.value /\ DOMAIN gets' = 1 .. k + 1
        /\ \A i \in 1 .. k : gets'[i] = gets[i]
    <3>1. gets \in Seq({gets[i] : i \in 1 .. k} \cup {r.value})
      <4>1. gets \in Seq(AnyValue)
        BY DEF StreamType
      <4>2. gets = [i \in 1 .. k |-> gets[i]]
        BY <4>1, LenProperties
      <4> QED
        BY <1>2, <4>2
    <3> DEFINE V == {gets[i] : i \in 1 .. k} \cup {r.value}
    <3>2. r.value \in V
      OBVIOUS
    <3> HIDE DEF V
    <3>3. /\ gets' \in Seq(V) /\ Len(gets') = k + 1 /\ gets'[k + 1] = r.value
          /\ \A i \in 1 .. k : gets'[i] = gets[i]
      BY <2>1, <3>1, <3>2, AppendProperties DEF V
    <3> QED
      BY <3>3, LenProperties
  <2>3. ASSUME NEW i \in 1 .. k + 1 PROVE gets'[i] = Kept(puts[i].type, puts[i].value)
    <3>1. CASE i = k + 1
      BY <1>6, <1>8, <2>2, <3>1
    <3>2. CASE i # k + 1
      <4>1. i \in 1 .. k
        BY <1>2, <3>2
      <4> HIDE DEF k
      <4> QED
        BY <1>2, <1>3, <2>2, <4>1 DEF Rightly
    <3> QED
      BY <3>1, <3>2
  <2>4. Rightly'
    BY <1>1, <2>1, <2>2, <2>3 DEF Rightly
  <2>5. nReadPos' = Len(f[Len(gets')])
    BY <1>1, <1>6, <1>8, <2>2
  <2>6. InStep(f)'
    BY <1>1, <1>5, <2>5 DEF InStep
  <2> QED
    BY <2>4, <2>6
<1>9. CASE ~ r.ok
  <2>1. gets' = gets /\ thrown'
    BY <1>1, <1>9
  <2>2. Rightly'
    BY <1>1, <1>2, <1>3, <1>6, <1>7, <1>9, <2>1 DEF Rightly
  <2>3. InStep(f)'
    BY <1>1, <1>5, <2>1 DEF InStep
  <2> QED
    BY <2>2, <2>3
<1> QED
  BY <1>1, <1>8, <1>9

(* And the end of the stream that is lost.                                 *)
LEMMA CutInStep ==
  ASSUME StreamType, RoundTripInv, CutOff
  PROVE  RoundTripInv'
<1>1. PICK n \in nReadPos .. Len(bytes) - 1 : bytes' = SubSeq(bytes, 1, n)
  BY DEF CutOff
<1>2. harm = "none" /\ harm' = "cut" /\ UNCHANGED <<nReadPos, thrown, puts, gets, room>>
  BY DEF CutOff
<1>3. Rightly
  BY <1>2 DEF RoundTripInv
<1>4. PICK f : InStep(f)
  BY <1>2 DEF RoundTripInv
<1>5. n \in 0 .. Len(bytes) /\ bytes \in Seq(Byte)
  BY Lengths DEF StreamType
<1>6. Holds(f, puts', bytes', FALSE)
  BY <1>1, <1>2, <1>4, <1>5, CutHeld DEF InStep
<1>7. (harm' = "none") = FALSE
  BY <1>2
<1>8. InStep(f)'
  BY <1>2, <1>4, <1>6, <1>7 DEF InStep
<1>9. Rightly'
  BY <1>2, <1>3 DEF Rightly
<1> QED
  BY <1>8, <1>9 DEF RoundTripInv

(* Objects come out as they went in, whatever their types are and however  *)
(* they are nested, for any Base and any Block; of a stream that was cut   *)
(* off, the one the cut went through throws, and none comes out with a     *)
(* part missing.                                                           *)
THEOREM ObjectsComeBack == Spec => []RoundTrip
<1>1. Init => RoundTripInv
  <2> SUFFICES ASSUME Init PROVE Rightly /\ \E f : InStep(f)
    BY DEF RoundTripInv
  <2>1. bytes = <<>> /\ nReadPos = 0 /\ thrown = FALSE /\ puts = <<>> /\ gets = <<>>
    BY DEF Init
  <2> DEFINE f == [i \in 0 .. 0 |-> <<>>]
  <2>2. Rightly
    BY <2>1 DEF Rightly
  <2>3. <<>> \in Seq(Byte) /\ <<>> \in Seq(Objects) /\ Len(<<>>) = 0 /\ 0 \in 0 .. 0
        /\ 1 .. 0 = {}
    BY EmptySeq
  <2>4. Len(Parts(puts)) = 0
    BY <2>1, <2>3, PartsType
  <2>5. f[0] = <<>> /\ f \in [0 .. 0 -> Seq(Byte)]
    BY <2>3
  <2> HIDE DEF f
  <2>6. Joins(f, Parts(puts))
    BY <2>3, <2>4, <2>5 DEF Joins
  <2>7. Carries(bytes, 0, f[0])
    BY <2>3, <2>5 DEF Carries
  <2>8. Len(puts) = 0 /\ Len(gets) = 0
    BY <2>1, <2>3
  <2>9. InStep(f)
    BY <2>1, <2>3, <2>5, <2>6, <2>7, <2>8 DEF InStep, Holds
  <2> QED
    BY <2>2, <2>9
<1>2. StreamType /\ RoundTripInv /\ [Next]_vars => RoundTripInv'
  <2> SUFFICES ASSUME StreamType, RoundTripInv, [Next]_vars PROVE RoundTripInv'
    OBVIOUS
  <2>1. CASE Garble
    BY <2>1 DEF Garble, RoundTripInv
  <2>2. CASE UNCHANGED vars
    BY <2>2 DEF vars, RoundTripInv, Rightly, InStep
  <2> QED
    BY <2>1, <2>2, PutInStep, GetInStep, CutInStep DEF Next
<1>3. StreamType /\ RoundTripInv => RoundTrip
  <2> SUFFICES ASSUME StreamType, RoundTripInv, harm # "garbled"
               PROVE  /\ Rightly
                      /\ Len(gets) = Len(puts) /\ harm = "none" => nReadPos = Len(bytes)
    BY DEF RoundTrip, Rightly
  <2>1. PICK f : InStep(f)
    BY DEF RoundTripInv
  <2>2. Rightly
    BY DEF RoundTripInv
  <2>3. ASSUME Len(gets) = Len(puts), harm = "none" PROVE nReadPos = Len(bytes)
    <3>1. ~ thrown
      BY <2>2, <2>3, Lengths DEF Rightly
    <3> QED
      BY <2>1, <2>3, <3>1 DEF InStep, Holds
  <2> QED
    BY <2>2, <2>3
<1> QED
  BY <1>1, <1>2, <1>3, StreamTypeAlways, PTL DEF Spec
=============================================================================
