------------------------ MODULE MessageStreamProofs ------------------------
(* Theorems about MessageStream and the PacketFraming it extends, for any   *)
(* sizes of bytes and length fields, any packets and any stream.            *)
EXTENDS MessageStream, SequenceTheorems, WellFoundedInduction, TLAPS

-----------------------------------------------------------------------------
(* Induction, for a set of numbers, and the recursion it justifies.         *)
LEMMA Induction ==
    ASSUME NEW S, 0 \in S, \A k \in Nat : k \in S => k + 1 \in S
    PROVE  Nat \subseteq S
<1> DEFINE T == Nat \ S
<1>1. SUFFICES ASSUME T # {} PROVE FALSE
    OBVIOUS
<1>2. PICK k \in T : \A m \in T : ~ (<<m, k>> \in OpToRel(<, Nat))
    BY <1>1, NatLessThanWellFounded, WFMin, Zenon
<1>3. \A m \in T : ~ (m < k)
    BY <1>2 DEF OpToRel
<1>4. k - 1 \in Nat /\ k - 1 \in S
    BY <1>3
<1>5. k - 1 + 1 \in S
    BY <1>4, Zenon
<1>6. QED
    BY <1>4, <1>5

Recurs(f, n, R, base, step) ==
    /\ f \in [0 .. n -> R]
    /\ f[0] = base
    /\ \A k \in 1 .. n : f[k] = step[<<k, f[k - 1]>>]

LEMMA Recursion ==
    ASSUME NEW R, NEW base \in R, NEW step \in [Nat \X R -> R], NEW n \in Nat
    PROVE  \E f : Recurs(f, n, R, base, step)
<1> DEFINE S == {k \in Nat : \E f : Recurs(f, k, R, base, step)}
<1>1. 0 \in S
  <2> DEFINE f == [i \in 0 .. 0 |-> base]
  <2>1. Recurs(f, 0, R, base, step)
      BY DEF Recurs
  <2>2. QED
      BY <2>1
<1>2. ASSUME NEW k \in Nat, k \in S PROVE k + 1 \in S
  <2>1. PICK f : Recurs(f, k, R, base, step)
      BY <1>2
  <2> DEFINE g == [i \in 0 .. k + 1 |-> IF i = k + 1 THEN step[<<k + 1, f[k]>>] ELSE f[i]]
  <2>2. \A i \in 0 .. k : g[i] = f[i] /\ f[i] \in R
      BY <2>1 DEF Recurs
  <2>3. g[k + 1] = step[<<k + 1, f[k]>>]
      OBVIOUS
  <2>4. g[k + 1] \in R
    <3>1. k + 1 \in Nat /\ k \in 0 .. k
        OBVIOUS
    <3>2. <<k + 1, f[k]>> \in Nat \X R
        BY <2>2, <3>1, Zenon
    <3>3. QED
        BY <2>3, <3>2, Zenon
  <2>5. \A i \in 1 .. k + 1 : g[i] = step[<<i, g[i - 1]>>]
    <3> TAKE i \in 1 .. k + 1
    <3>1. CASE i = k + 1
      <4>1. i - 1 = k /\ k \in 0 .. k
          BY <3>1
      <4>2. QED
          BY <2>2, <2>3, <3>1, <4>1, Zenon
    <3>2. CASE i # k + 1
      <4>1. i \in 1 .. k /\ i - 1 \in 0 .. k /\ i \in 0 .. k
          BY <3>2
      <4>2. f[i] = step[<<i, f[i - 1]>>]
          BY <2>1, <4>1 DEF Recurs
      <4>3. QED
          BY <2>2, <4>1, <4>2
    <3>3. QED
        BY <3>1, <3>2
  <2>6. g \in [0 .. k + 1 -> R]
    <3>1. \A i \in 0 .. k + 1 : i \in 0 .. k \/ i = k + 1
        OBVIOUS
    <3>2. \A i \in 0 .. k + 1 : g[i] \in R
        BY <2>2, <2>4, <3>1, Zenon
    <3>3. g = [i \in 0 .. k + 1 |-> g[i]]
        BY Zenon
    <3> HIDE DEF g
    <3>4. QED
        BY <3>2, <3>3, Zenon
  <2>7. g[0] = base
      BY <2>1, <2>2 DEF Recurs
  <2>8. Recurs(g, k + 1, R, base, step)
      BY <2>5, <2>6, <2>7 DEF Recurs
  <2>9. QED
      BY <2>8
<1>3. n \in S
    BY <1>1, <1>2, Induction
<1>4. QED
    BY <1>3

-----------------------------------------------------------------------------
(* Lengths as bytes and back.                                               *)
LEMMA ConstantsOK ==
    /\ Base \in Nat /\ Base > 1 /\ Base > 0 /\ Digits \in Nat /\ Digits > 0 /\ Magic \in Bytes
    /\ Capacity \in Nat /\ Capacity > 0 /\ MaxNoise \in Nat
BY FramingConstantsOK

LEMMA PowerRecurs ==
    /\ Power \in [0 .. Digits -> Nat]
    /\ Power[0] = 1
    /\ \A k \in 1 .. Digits : Power[k] = Base * Power[k - 1]
<1> DEFINE step == [x \in Nat \X Nat |-> Base * x[2]]
           P(f) == f = [k \in 0 .. Digits |-> IF k = 0 THEN 1 ELSE Base * f[k - 1]]
<1>1. step \in [Nat \X Nat -> Nat]
    BY ConstantsOK
<1>2. PICK f : Recurs(f, Digits, Nat, 1, step)
    BY <1>1, Recursion, ConstantsOK
<1>3. \A k \in 1 .. Digits : f[k] = Base * f[k - 1]
  <2> TAKE k \in 1 .. Digits
  <2>1. k \in Nat /\ k - 1 \in 0 .. Digits
      BY ConstantsOK
  <2>2. f[k - 1] \in Nat /\ f[k] = step[<<k, f[k - 1]>>]
      BY <1>2, <2>1, Zenon DEF Recurs
  <2>3. <<k, f[k - 1]>> \in Nat \X Nat
      BY <2>1, <2>2, Zenon
  <2>4. step[<<k, f[k - 1]>>] = Base * <<k, f[k - 1]>>[2]
      BY <2>3, Zenon
  <2>5. QED
      BY <2>2, <2>4
<1>4. P(f)
  <2>1. f = [k \in 0 .. Digits |-> f[k]]
      BY <1>2, Zenon DEF Recurs
  <2>2. \A k \in 0 .. Digits : f[k] = IF k = 0 THEN 1 ELSE Base * f[k - 1]
      BY <1>2, <1>3, ConstantsOK DEF Recurs
  <2>3. QED
      BY <2>1, <2>2, Zenon
<1>5. P(Power)
    BY <1>4, Zenon DEF Power
<1>6. \A k \in 0 .. Digits : Power[k] = IF k = 0 THEN 1 ELSE Base * Power[k - 1]
    BY <1>5, Zenon
<1>7. Power[0] = 1 /\ \A k \in 1 .. Digits : Power[k] = Base * Power[k - 1]
    BY <1>6, ConstantsOK
<1>8. \A k \in 0 .. Digits : Power[k] \in Nat
  <2> DEFINE S == {k \in Nat : k <= Digits => Power[k] \in Nat}
  <2>1. 0 \in S
      BY <1>7
  <2>2. ASSUME NEW k \in Nat, k \in S PROVE k + 1 \in S
      BY <1>7, <2>2, ConstantsOK
  <2>3. Nat \subseteq S
      BY <2>1, <2>2, Induction
  <2>4. QED
      BY <2>3, ConstantsOK
<1>9. DOMAIN Power = 0 .. Digits
    BY <1>5, Zenon
<1>10. Power = [k \in 0 .. Digits |-> Power[k]]
    BY <1>5, <1>9, Zenon
<1>11. QED
    BY <1>7, <1>8, <1>10, Zenon

LEMMA PowerPositive == \A k \in 0 .. Digits : Power[k] \in Nat /\ Power[k] > 0
<1> DEFINE S == {k \in Nat : k <= Digits => Power[k] \in Nat /\ Power[k] > 0}
<1>1. 0 \in S
    BY PowerRecurs
<1>2. ASSUME NEW k \in Nat, k \in S PROVE k + 1 \in S
  <2>1. SUFFICES ASSUME k + 1 <= Digits
                 PROVE  Power[k + 1] \in Nat /\ Power[k + 1] > 0
      OBVIOUS
  <2>2. Power[k + 1] = Base * Power[k] /\ Power[k] \in Nat /\ Power[k] > 0
      BY <1>2, <2>1, PowerRecurs, ConstantsOK
  <2>3. QED
      BY <2>2, ConstantsOK
<1> HIDE DEF S
<1>3. Nat \subseteq S
    BY <1>1, <1>2, Induction
<1>4. QED
    BY <1>3, ConstantsOK DEF S

LEMMA TooLongPositive == TooLong \in Nat /\ TooLong > 0
BY PowerPositive, ConstantsOK DEF TooLong

LEMMA Quotient ==
    ASSUME NEW d \in Nat, d > 0, NEW q \in Nat, NEW r \in 0 .. d - 1
    PROVE  (d * q + r) \div d = q
<1> DEFINE n == d * q + r
           p == n \div d
<1>1. n \in Nat
    OBVIOUS
<1> HIDE DEF n
<1>2. p \in Nat /\ n = d * p + (n % d) /\ n % d \in 0 .. d - 1
  <2>1. n % d \in 0 .. d - 1
      BY <1>1
  <2>2. p \in Nat
      BY <1>1
  <2>3. n = d * p + (n % d)
      BY <1>1
  <2>4. QED
      BY <2>1, <2>2, <2>3
<1> HIDE DEF p
<1> DEFINE dp == d * p
           dq == d * q
<1>6. dp \in Nat /\ dq \in Nat /\ n = dp + (n % d) /\ n = dq + r
    BY <1>2 DEF n
<1>3. ~ (p < q)
  <2>1. SUFFICES ASSUME p + 1 <= q PROVE FALSE
      BY <1>2
  <2>2. d * (p + 1) <= dq
      BY <1>2, <2>1
  <2>3. d * (p + 1) = dp + d
      BY <1>2
  <2> HIDE DEF dp, dq
  <2>4. QED
      BY <1>2, <1>6, <2>2, <2>3
<1>4. ~ (q < p)
  <2>1. SUFFICES ASSUME q + 1 <= p PROVE FALSE
      BY <1>2
  <2>2. d * (q + 1) <= dp
      BY <1>2, <2>1
  <2>3. d * (q + 1) = dq + d
      BY <1>2
  <2> HIDE DEF dp, dq
  <2>4. QED
      BY <1>2, <1>6, <2>2, <2>3
<1>5. QED
    BY <1>2, <1>3, <1>4 DEF n, p

LEMMA QuotientOfProduct ==
    ASSUME NEW n \in Nat, NEW w \in Nat, w > 0, NEW b \in Nat, b > 0
    PROVE  n \div (b * w) = (n \div w) \div b
<1> DEFINE m == n \div w
           r == n % w
           q == m \div b
           s == m % b
<1>1. m \in Nat /\ r \in 0 .. w - 1 /\ n = w * m + r
    OBVIOUS
<1>2. q \in Nat /\ s \in 0 .. b - 1 /\ m = b * q + s
    BY <1>1
<1> HIDE DEF m, r, q, s
<1>3. n = (b * w) * q + (w * s + r)
  <2>1. w * m = w * (b * q) + w * s
      BY <1>1, <1>2
  <2>2. w * (b * q) = (b * w) * q
      BY <1>1, <1>2
  <2>3. w * (b * q) \in Nat /\ w * s \in Nat
      BY <1>1, <1>2
  <2>4. QED
      BY <1>1, <2>1, <2>2, <2>3
<1>4. w * s + r \in 0 .. b * w - 1
  <2>1. w * s <= w * (b - 1)
      BY <1>1, <1>2
  <2>2. w * (b - 1) = b * w - w /\ b * w \in Nat /\ w * s \in Nat
      BY <1>2
  <2>3. QED
      BY <1>1, <2>1, <2>2
<1>5. b * w \in Nat /\ b * w > 0
    OBVIOUS
<1>6. n \div (b * w) = q
    BY <1>2, <1>3, <1>4, <1>5, Quotient
<1>7. QED
    BY <1>6 DEF m, q

LEMMA Remainder ==
    ASSUME NEW d \in Nat, d > 0, NEW q \in Nat, NEW r \in 0 .. d - 1
    PROVE  (d * q + r) % d = r
<1> DEFINE dq == d * q
           n == dq + r
<1>1. n \div d = q
    BY Quotient
<1>2. dq \in Nat
    OBVIOUS
<1>3. n = d * (n \div d) + (n % d)
    BY <1>2
<1>4. n = dq + (n % d)
    BY <1>1, <1>3, Zenon
<1>5. n % d \in 0 .. d - 1
    BY <1>2
<1> HIDE DEF dq
<1>6. QED
    BY <1>2, <1>4, <1>5

LengthField == [1 .. Digits -> Bytes]

LEMMA EncodeType ==
    ASSUME NEW n \in Nat
    PROVE  EncodeLength(n) \in LengthField
<1>1. \A i \in 1 .. Digits : Digits - i \in 0 .. Digits
    BY ConstantsOK
<1>2. ASSUME NEW i \in 1 .. Digits
      PROVE  (n \div Power[Digits - i]) % Base \in Bytes
  <2>1. n \div Power[Digits - i] \in Nat
      BY <1>1, PowerPositive
  <2> HIDE DEF Power
  <2>2. QED
      BY <2>1, ConstantsOK DEF Bytes
<1>3. QED
    BY <1>2 DEF EncodeLength, LengthField

LEMMA DecodeRecurs ==
    ASSUME NEW s \in LengthField
    PROVE  \E v \in [0 .. Digits -> Nat] :
              /\ v[0] = 0
              /\ \A k \in 1 .. Digits : v[k] = Base * v[k - 1] + s[k]
              /\ DecodeLength(s) = v[Digits]
<1> DEFINE digit(k) == IF k \in 1 .. Digits THEN s[k] ELSE 0
           step == [x \in Nat \X Nat |-> x[2] * Base + digit(x[1])]
           P(f) == f = [k \in 0 .. Digits |-> IF k = 0 THEN 0 ELSE f[k - 1] * Base + s[k]]
<1>1. step \in [Nat \X Nat -> Nat]
  <2>1. \A k \in Nat : digit(k) \in Nat
      BY ConstantsOK DEF LengthField, Bytes
  <2> HIDE DEF digit
  <2>2. \A x \in Nat \X Nat : x[2] * Base + digit(x[1]) \in Nat
      BY <2>1, ConstantsOK
  <2>3. QED
      BY <2>2
<1>2. PICK f : Recurs(f, Digits, Nat, 0, step)
    BY <1>1, Recursion, ConstantsOK
<1>3. \A k \in 1 .. Digits : f[k] = f[k - 1] * Base + s[k]
  <2> TAKE k \in 1 .. Digits
  <2>1. k \in Nat /\ k - 1 \in 0 .. Digits
      BY ConstantsOK
  <2>2. f[k - 1] \in Nat /\ f[k] = step[<<k, f[k - 1]>>]
      BY <1>2, <2>1, Zenon DEF Recurs
  <2>3. <<k, f[k - 1]>> \in Nat \X Nat
      BY <2>1, <2>2, Zenon
  <2>4. step[<<k, f[k - 1]>>] = <<k, f[k - 1]>>[2] * Base + digit(<<k, f[k - 1]>>[1])
      BY <2>3, Zenon
  <2>5. QED
      BY <2>2, <2>4
<1>4. \E g : P(g)
  <2>1. f = [k \in 0 .. Digits |-> f[k]]
      BY <1>2, Zenon DEF Recurs
  <2>2. \A k \in 0 .. Digits : f[k] = IF k = 0 THEN 0 ELSE f[k - 1] * Base + s[k]
      BY <1>2, <1>3, ConstantsOK DEF Recurs
  <2>3. QED
      BY <2>1, <2>2, Zenon
<1> DEFINE v == CHOOSE g : P(g)
<1>5. P(v)
    BY <1>4, Zenon
<1>6. DecodeLength(s) = v[Digits]
  <2> DEFINE D(n) == LET value[k \in 0 .. n] == IF k = 0 THEN 0 ELSE value[k - 1] * Base + s[k]
                     IN value[n]
  <2>1. Len(s) = Digits
      BY ConstantsOK, SeqDef, LenProperties DEF LengthField
  <2>2. DecodeLength(s) = D(Len(s))
      BY Zenon DEF DecodeLength
  <2>3. D(Digits) = v[Digits]
      BY Zenon
  <2> HIDE DEF D, v
  <2>4. QED
      BY <2>1, <2>2, <2>3, Zenon
<1> HIDE DEF v
<1>7. \A k \in 0 .. Digits : v[k] = IF k = 0 THEN 0 ELSE v[k - 1] * Base + s[k]
    BY <1>5, Zenon
<1>8. \A k \in 1 .. Digits : s[k] \in Nat
    BY ConstantsOK DEF LengthField, Bytes
<1> DEFINE S == {k \in Nat : k <= Digits => v[k] \in Nat}
<1>9. 0 \in S
    BY <1>7, ConstantsOK
<1>10. ASSUME NEW k \in Nat, k \in S PROVE k + 1 \in S
  <2>1. SUFFICES ASSUME k + 1 <= Digits PROVE v[k + 1] \in Nat
      OBVIOUS
  <2>2. v[k + 1] = v[k] * Base + s[k + 1] /\ v[k] \in Nat /\ s[k + 1] \in Nat
      BY <1>7, <1>8, <1>10, <2>1, ConstantsOK
  <2>3. QED
      BY <2>2, ConstantsOK
<1> HIDE DEF S
<1>11. Nat \subseteq S
    BY <1>9, <1>10, Induction
<1>12. \A k \in 0 .. Digits : v[k] \in Nat
    BY <1>11, ConstantsOK DEF S
<1>13. v \in [0 .. Digits -> Nat]
  <2>1. v = [k \in 0 .. Digits |-> v[k]]
      BY <1>5, Zenon
  <2>2. QED
      BY <1>12, <2>1, Zenon
<1>14. \A k \in 1 .. Digits : v[k] = Base * v[k - 1] + s[k]
  <2> TAKE k \in 1 .. Digits
  <2>1. k \in 0 .. Digits /\ k # 0 /\ k - 1 \in 0 .. Digits
      BY ConstantsOK
  <2>2. v[k] = v[k - 1] * Base + s[k] /\ v[k - 1] \in Nat
      BY <1>7, <1>12, <2>1
  <2>3. QED
      BY <2>2, ConstantsOK
<1>15. v[0] = 0
    BY <1>7, ConstantsOK
<1>16. QED
    BY <1>6, <1>13, <1>14, <1>15

(* What a length field says is below TooLong.                               *)
LEMMA DecodeType ==
    ASSUME NEW s \in LengthField
    PROVE  DecodeLength(s) \in 0 .. TooLong - 1
<1>1. PICK v \in [0 .. Digits -> Nat] :
          /\ v[0] = 0
          /\ \A k \in 1 .. Digits : v[k] = Base * v[k - 1] + s[k]
          /\ DecodeLength(s) = v[Digits]
    BY DecodeRecurs
<1> DEFINE S == {k \in Nat : k <= Digits => v[k] < Power[k]}
<1>2. 0 \in S
    BY <1>1, PowerRecurs
<1>3. ASSUME NEW k \in Nat, k \in S PROVE k + 1 \in S
  <2>1. SUFFICES ASSUME k + 1 <= Digits PROVE v[k + 1] < Power[k + 1]
      OBVIOUS
  <2> DEFINE w == Power[k]
             u == v[k]
  <2>2. k \in 0 .. Digits /\ k + 1 \in 1 .. Digits /\ k + 1 - 1 = k
      BY <2>1, ConstantsOK
  <2>3. v[k + 1] = Base * u + s[k + 1] /\ Power[k + 1] = Base * w
      BY <1>1, <2>2, PowerRecurs
  <2>4. u \in Nat /\ w \in Nat /\ u <= w - 1 /\ s[k + 1] \in 0 .. Base - 1
      BY <1>3, <2>2, PowerPositive, ConstantsOK DEF LengthField, Bytes
  <2> HIDE DEF u, w
  <2>5. Base * u <= Base * (w - 1)
      BY <2>4, ConstantsOK
  <2>6. Base * (w - 1) = Base * w - Base
      BY <2>4, ConstantsOK
  <2> DEFINE bu == Base * u
             bw == Base * w
  <2>7. bu \in Nat /\ bw \in Nat /\ bu <= bw - Base
    <3>1. bu \in Nat /\ bw \in Nat
        BY <2>4, ConstantsOK
    <3>2. bu <= bw - Base
        BY <2>5, <2>6, Zenon
    <3>3. QED
        BY <3>1, <3>2
  <2>8. v[k + 1] = bu + s[k + 1] /\ Power[k + 1] = bw
      BY <2>3, Zenon
  <2> HIDE DEF bu, bw
  <2>9. QED
      BY <2>4, <2>7, <2>8, ConstantsOK
<1> HIDE DEF S
<1>4. Nat \subseteq S
    BY <1>2, <1>3, Induction
<1>5. v[Digits] < Power[Digits] /\ v[Digits] \in Nat
    BY <1>4, ConstantsOK DEF S
<1>6. QED
    BY <1>1, <1>5, PowerPositive, ConstantsOK DEF TooLong

(* A length that fits is read as it was written.                            *)
LEMMA DecodeOfEncode ==
    ASSUME NEW n \in 0 .. TooLong - 1
    PROVE  DecodeLength(EncodeLength(n)) = n
<1> DEFINE s == EncodeLength(n)
<1>1. n \in Nat /\ s \in LengthField
    BY EncodeType, TooLongPositive
<1>2. PICK v \in [0 .. Digits -> Nat] :
          /\ v[0] = 0
          /\ \A k \in 1 .. Digits : v[k] = Base * v[k - 1] + s[k]
          /\ DecodeLength(s) = v[Digits]
    BY <1>1, DecodeRecurs
<1> DEFINE S == {k \in Nat : k <= Digits => v[k] = n \div Power[Digits - k]}
<1>3. 0 \in S
  <2>1. n \div TooLong = 0
    <3>1. (TooLong * 0 + n) \div TooLong = 0
        BY Quotient, TooLongPositive
    <3>2. QED
        BY <3>1, TooLongPositive
  <2>2. Digits - 0 = Digits
      BY ConstantsOK
  <2>3. QED
      BY <1>2, <2>1, <2>2, Zenon DEF TooLong
<1>4. ASSUME NEW k \in Nat, k \in S PROVE k + 1 \in S
  <2>1. SUFFICES ASSUME k + 1 <= Digits
                 PROVE  v[k + 1] = n \div Power[Digits - (k + 1)]
      OBVIOUS
  <2> DEFINE w == Power[Digits - (k + 1)]
             m == n \div w
  <2>2. /\ k + 1 \in 1 .. Digits /\ k + 1 - 1 = k /\ Digits - k \in 1 .. Digits
        /\ Digits - k - 1 = Digits - (k + 1) /\ Digits - (k + 1) \in 0 .. Digits
      BY <2>1, ConstantsOK
  <2>3. w \in Nat /\ w > 0 /\ Power[Digits - k] = Base * w
      BY <2>2, PowerRecurs, PowerPositive
  <2>4. v[k] = n \div (Base * w)
      BY <1>4, <2>1, <2>3, ConstantsOK
  <2>5. m \in Nat
      BY <1>1, <2>3
  <2>6. s[k + 1] = m % Base
      BY <2>2, Zenon DEF EncodeLength
  <2> HIDE DEF w
  <2>7. n \div (Base * w) = m \div Base
      BY <1>1, <2>3, QuotientOfProduct, ConstantsOK
  <2>8. v[k + 1] = Base * (m \div Base) + (m % Base)
      BY <1>2, <2>2, <2>4, <2>6, <2>7
  <2> HIDE DEF m
  <2>9. m = Base * (m \div Base) + (m % Base)
      BY <2>5, ConstantsOK
  <2>10. QED
      BY <2>8, <2>9, Zenon DEF m, w
<1> HIDE DEF S
<1>5. Nat \subseteq S
    BY <1>3, <1>4, Induction
<1>6. v[Digits] = n \div Power[Digits - Digits]
    BY <1>5, ConstantsOK DEF S
<1>7. n \div 1 = n
    BY <1>1
<1>8. Digits - Digits = 0
    BY ConstantsOK
<1>9. QED
    BY <1>2, <1>6, <1>7, <1>8, PowerRecurs, Zenon

(* The bytes of a length are the only ones that say it.                     *)
LEMMA EncodeOfDecode ==
    ASSUME NEW s \in LengthField
    PROVE  EncodeLength(DecodeLength(s)) = s
<1>1. PICK v \in [0 .. Digits -> Nat] :
          /\ v[0] = 0
          /\ \A k \in 1 .. Digits : v[k] = Base * v[k - 1] + s[k]
          /\ DecodeLength(s) = v[Digits]
    BY DecodeRecurs
<1> DEFINE n == v[Digits]
           S == {j \in Nat : j <= Digits => v[Digits - j] = n \div Power[j]}
<1>2. n \in Nat
    BY ConstantsOK
<1>3. 0 \in S
  <2>1. Digits - 0 = Digits
      BY ConstantsOK
  <2>2. n \div 1 = n
      BY <1>2
  <2>3. QED
      BY <2>1, <2>2, PowerRecurs, Zenon
<1>4. ASSUME NEW j \in Nat, j \in S PROVE j + 1 \in S
  <2>1. SUFFICES ASSUME j + 1 <= Digits
                 PROVE  v[Digits - (j + 1)] = n \div Power[j + 1]
      OBVIOUS
  <2> DEFINE i == Digits - j
             q == v[Digits - (j + 1)]
             w == Power[j]
  <2>2. /\ i \in 1 .. Digits /\ i - 1 = Digits - (j + 1) /\ i - 1 \in 0 .. Digits
        /\ j \in 0 .. Digits /\ j + 1 \in 1 .. Digits /\ j + 1 - 1 = j
      BY <2>1, ConstantsOK
  <2>3. v[i] = Base * q + s[i] /\ q \in Nat /\ s[i] \in 0 .. Base - 1
      BY <1>1, <2>2 DEF LengthField, Bytes
  <2>4. w \in Nat /\ w > 0 /\ Power[j + 1] = Base * w
      BY <2>2, PowerRecurs, PowerPositive
  <2>5. v[i] = n \div w
      BY <1>4, <2>1, ConstantsOK
  <2> HIDE DEF w, q, i, n
  <2>6. n \div (Base * w) = (n \div w) \div Base
      BY <1>2, <2>4, QuotientOfProduct, ConstantsOK, ZenonT(40)
  <2>7. (Base * q + s[i]) \div Base = q
      BY <2>3, Quotient, ConstantsOK, Zenon
  <2>8. QED
      BY <2>3, <2>4, <2>5, <2>6, <2>7, Zenon DEF q
<1> HIDE DEF S
<1>5. Nat \subseteq S
    BY <1>3, <1>4, Induction
<1>6. ASSUME NEW i \in 1 .. Digits
      PROVE  (n \div Power[Digits - i]) % Base = s[i]
  <2>1. Digits - i \in Nat /\ Digits - i <= Digits /\ Digits - (Digits - i) = i
        /\ i - 1 \in 0 .. Digits
      BY ConstantsOK
  <2>2. v[i] = n \div Power[Digits - i]
      BY <1>5, <2>1 DEF S
  <2>3. v[i] = Base * v[i - 1] + s[i] /\ v[i - 1] \in Nat /\ s[i] \in 0 .. Base - 1
      BY <1>1, <2>1 DEF LengthField, Bytes
  <2>4. (Base * v[i - 1] + s[i]) % Base = s[i]
      BY <2>3, Remainder, ConstantsOK, Zenon
  <2>5. QED
      BY <2>2, <2>3, <2>4, Zenon
<1>7. EncodeLength(n) = [i \in 1 .. Digits |-> s[i]]
    BY <1>6, Zenon DEF EncodeLength
<1>8. s = [i \in 1 .. Digits |-> s[i]]
    BY Zenon DEF LengthField
<1>9. QED
    BY <1>1, <1>7, <1>8, Zenon

-----------------------------------------------------------------------------
(* Bytes, one after the other.                                              *)
ByteSeq == Seq(Bytes)

LEMMA NoBytes ==
    /\ << >> \in ByteSeq
    /\ \A s \in ByteSeq : s \o << >> = s /\ << >> \o s = s
    /\ \A s \in ByteSeq : Len(s) \in Nat /\ (Len(s) = 0 => s = << >>)
BY EmptySeq, ConcatEmptySeq, LenProperties DEF ByteSeq

LEMMA Joined ==
    ASSUME NEW s \in ByteSeq, NEW t \in ByteSeq
    PROVE  s \o t \in ByteSeq /\ Len(s \o t) = Len(s) + Len(t)
BY ConcatProperties DEF ByteSeq

LEMMA Regrouped ==
    ASSUME NEW s \in ByteSeq, NEW t \in ByteSeq, NEW u \in ByteSeq
    PROVE  (s \o t) \o u = s \o (t \o u)
BY ConcatAssociative DEF ByteSeq

LEMMA SameRest ==
    ASSUME NEW s \in ByteSeq, NEW t \in ByteSeq, NEW u \in ByteSeq, s \o t = s \o u
    PROVE  t = u
BY ConcatSimplifications, Zenon DEF ByteSeq

LEMMA SameStart ==
    ASSUME NEW s \in ByteSeq, NEW t \in ByteSeq, NEW x \in ByteSeq, NEW y \in ByteSeq,
           Len(s) = Len(t), s \o x = t \o y
    PROVE  s = t /\ x = y
<1>1. ASSUME NEW i \in 1 .. Len(s) PROVE s[i] = t[i]
  <2>1. i \in 1 .. Len(s) + Len(x) /\ i \in 1 .. Len(t) + Len(y)
      BY NoBytes
  <2>2. (s \o x)[i] = s[i] /\ (t \o y)[i] = t[i]
      BY <2>1, ConcatProperties DEF ByteSeq
  <2>3. QED
      BY <2>2
<1>2. s = t
    BY <1>1, SeqEqual DEF ByteSeq
<1>3. QED
    BY <1>2, SameRest

(* The first n bytes, and what follows them.                                *)
LEMMA Cut ==
    ASSUME NEW s \in ByteSeq, NEW n \in 0 .. Len(s)
    PROVE  /\ SubSeq(s, 1, n) \in ByteSeq /\ Len(SubSeq(s, 1, n)) = n
           /\ SubSeq(s, n + 1, Len(s)) \in ByteSeq
           /\ Len(SubSeq(s, n + 1, Len(s))) = Len(s) - n
           /\ SubSeq(s, 1, n) \o SubSeq(s, n + 1, Len(s)) = s
<1>1. Len(s) \in Nat
    BY NoBytes
<1>2. \A i \in 1 .. Len(s) : s[i] \in Bytes
    BY ElementOfSeq DEF ByteSeq
<1>3. SubSeq(s, 1, n) \in ByteSeq /\ Len(SubSeq(s, 1, n)) = n
    BY <1>1, <1>2, SubSeqProperties DEF ByteSeq
<1>4. SubSeq(s, n + 1, Len(s)) \in ByteSeq /\ Len(SubSeq(s, n + 1, Len(s))) = Len(s) - n
    BY <1>1, <1>2, SubSeqProperties DEF ByteSeq
<1>5. SubSeq(s, 1, n) \o SubSeq(s, n + 1, Len(s)) = SubSeq(s, 1, Len(s))
  <2>1. /\ 1 \in 1 .. Len(s) + 1 /\ n \in 1 - 1 .. Len(s)
        /\ Len(s) \in n .. Len(s)
      BY <1>1
  <2>2. QED
      BY <2>1, ConcatAdjacentSubSeq, Zenon DEF ByteSeq
<1>6. QED
    BY <1>3, <1>4, <1>5, SubSeqFull DEF ByteSeq

LEMMA LengthFieldBytes ==
    /\ \A s \in LengthField : s \in ByteSeq /\ Len(s) = Digits
    /\ \A s \in ByteSeq : Len(s) = Digits => s \in LengthField
BY ConstantsOK, LenProperties, SeqDef DEF LengthField, ByteSeq

LEMMA MagicByte == <<Magic>> \in ByteSeq /\ Len(<<Magic>>) = 1
BY ConstantsOK DEF ByteSeq

(* What precedes a packet's message.                                        *)
Header(m, v) == <<Magic>> \o EncodeLength(m) \o EncodeLength(v)

Lengths == 0 .. TooLong - 1

LEMMA LengthBytes ==
    ASSUME NEW n \in Lengths
    PROVE  /\ EncodeLength(n) \in ByteSeq /\ Len(EncodeLength(n)) = Digits
           /\ DecodeLength(EncodeLength(n)) = n
BY EncodeType, DecodeOfEncode, LengthFieldBytes, TooLongPositive DEF Lengths

LEMMA HeaderType ==
    ASSUME NEW m \in Lengths, NEW v \in Lengths
    PROVE  Header(m, v) \in ByteSeq /\ Len(Header(m, v)) = HeaderSize
<1> DEFINE s == <<Magic>> \o EncodeLength(m)
<1>1. s \in ByteSeq /\ Len(s) = 1 + Digits
    BY MagicByte, LengthBytes, Joined
<1>2. EncodeLength(v) \in ByteSeq /\ Len(EncodeLength(v)) = Digits
    BY LengthBytes
<1> HIDE DEF s
<1>3. s \o EncodeLength(v) \in ByteSeq /\ Len(s \o EncodeLength(v)) = 1 + Digits + Digits
    BY <1>1, <1>2, Joined
<1>4. QED
    BY <1>3, ConstantsOK DEF Header, s, HeaderSize

LEMMA HeaderSays ==
    ASSUME NEW m \in Lengths, NEW v \in Lengths, NEW k \in Lengths, NEW l \in Lengths,
           Header(m, v) = Header(k, l)
    PROVE  m = k /\ v = l
<1> DEFINE s(n) == <<Magic>> \o EncodeLength(n)
<1>1. s(m) \in ByteSeq /\ s(k) \in ByteSeq /\ Len(s(m)) = Len(s(k))
    BY MagicByte, LengthBytes, Joined
<1>2. s(m) \o EncodeLength(v) = s(k) \o EncodeLength(l)
    BY Zenon DEF Header
<1> HIDE DEF s
<1>3. s(m) = s(k) /\ EncodeLength(v) = EncodeLength(l)
    BY <1>1, <1>2, SameStart, LengthBytes, Zenon
<1>4. EncodeLength(m) = EncodeLength(k)
    BY <1>3, MagicByte, SameRest, LengthBytes, Zenon DEF s
<1>5. QED
    BY <1>3, <1>4, LengthBytes, Zenon

(* Packets that can be framed.                                              *)
Short == {s \in ByteSeq : Len(s) < TooLong}
Framed == [message : Short, value : Short]

LEMMA FramedLengths ==
    ASSUME NEW p \in Framed
    PROVE  /\ p.message \in ByteSeq /\ Len(p.message) \in Lengths
           /\ p.value \in ByteSeq /\ Len(p.value) \in Lengths
<1>1. p.message \in Short /\ p.value \in Short
    BY DEF Framed
<1>2. QED
    BY <1>1, NoBytes, TooLongPositive DEF Short, Lengths

LEMMA EncodeParts ==
    ASSUME NEW p \in Framed
    PROVE  /\ Encode(p) = (Header(Len(p.message), Len(p.value)) \o p.message) \o p.value
           /\ Encode(p) \in ByteSeq
           /\ Len(Encode(p)) = HeaderSize + Len(p.message) + Len(p.value)
           /\ Len(Encode(p)) > 0
<1> DEFINE h == Header(Len(p.message), Len(p.value))
<1>1. Encode(p) = (h \o p.message) \o p.value
    BY Zenon DEF Encode, Header
<1>2. h \in ByteSeq /\ Len(h) = HeaderSize
    BY HeaderType, FramedLengths
<1> HIDE DEF h
<1>3. h \o p.message \in ByteSeq /\ Len(h \o p.message) = HeaderSize + Len(p.message)
    BY <1>2, FramedLengths, Joined
<1>4. /\ (h \o p.message) \o p.value \in ByteSeq
      /\ Len((h \o p.message) \o p.value) = HeaderSize + Len(p.message) + Len(p.value)
    BY <1>3, FramedLengths, Joined
<1>5. HeaderSize \in Nat /\ HeaderSize > 0
    BY ConstantsOK DEF HeaderSize
<1>6. HeaderSize + Len(p.message) + Len(p.value) > 0
  <2> DEFINE m == Len(p.message)
             v == Len(p.value)
             z == HeaderSize
  <2>1. m \in Nat /\ v \in Nat /\ z \in Nat /\ z > 0
      BY <1>5, FramedLengths, NoBytes
  <2> HIDE DEF m, v, z
  <2>2. z + m + v > 0
      BY <2>1
  <2>3. QED
      BY <2>2 DEF m, v, z
<1>7. QED
    BY <1>1, <1>4, <1>6 DEF h

(* What a header is followed by.                                            *)
LEMMA EncodeStart ==
    ASSUME NEW p \in Framed, NEW x \in ByteSeq
    PROVE  /\ p.message \o (p.value \o x) \in ByteSeq
           /\ Encode(p) \o x
                = Header(Len(p.message), Len(p.value)) \o (p.message \o (p.value \o x))
<1> DEFINE h == Header(Len(p.message), Len(p.value))
<1>1. h \in ByteSeq /\ p.message \in ByteSeq /\ p.value \in ByteSeq
    BY HeaderType, FramedLengths
<1> HIDE DEF h
<1>2. h \o p.message \in ByteSeq /\ p.value \o x \in ByteSeq
    BY <1>1, Joined
<1>3. p.message \o (p.value \o x) \in ByteSeq
    BY <1>1, <1>2, Joined
<1>4. ((h \o p.message) \o p.value) \o x = (h \o p.message) \o (p.value \o x)
  <2> DEFINE a == h \o p.message
             v == p.value
  <2>1. a \in ByteSeq /\ v \in ByteSeq
      BY <1>1, <1>2
  <2> HIDE DEF a, v
  <2>2. (a \o v) \o x = a \o (v \o x)
      BY <2>1, Regrouped, SMTT(40)
  <2>3. QED
      BY <2>2 DEF a, v
<1>5. (h \o p.message) \o (p.value \o x) = h \o (p.message \o (p.value \o x))
    BY <1>1, <1>2, Regrouped, ZenonT(40)
<1>6. QED
    BY <1>3, <1>4, <1>5, EncodeParts, Zenon DEF h

(* No packet's bytes are the beginning of another's.                        *)
LEMMA EncodeDistinct ==
    ASSUME NEW p \in Framed, NEW q \in Framed, NEW x \in ByteSeq, NEW y \in ByteSeq,
           Encode(p) \o x = Encode(q) \o y
    PROVE  p = q
<1> DEFINE h(r) == Header(Len(r.message), Len(r.value))
           px == p.value \o x
           qy == q.value \o y
           pmx == p.message \o px
           qmy == q.message \o qy
<1>1. h(p) \o pmx = h(q) \o qmy
    BY EncodeStart, Zenon
<1>2. /\ h(p) \in ByteSeq /\ h(q) \in ByteSeq /\ Len(h(p)) = Len(h(q))
      /\ pmx \in ByteSeq /\ qmy \in ByteSeq
    BY HeaderType, FramedLengths, EncodeStart
<1>3. px \in ByteSeq /\ qy \in ByteSeq
    BY FramedLengths, Joined
<1>4. pmx = p.message \o px /\ qmy = q.message \o qy
    OBVIOUS
<1>5. px = p.value \o x /\ qy = q.value \o y
    OBVIOUS
<1> HIDE DEF px, qy, pmx, qmy
<1>6. h(p) = h(q) /\ pmx = qmy
  <2> DEFINE s == h(p)
             t == h(q)
  <2>1. s \in ByteSeq /\ t \in ByteSeq /\ Len(s) = Len(t) /\ s \o pmx = t \o qmy
      BY <1>1, <1>2
  <2> HIDE DEF s, t
  <2>2. s = t /\ pmx = qmy
      BY <1>2, <2>1, SameStart
  <2>3. QED
      BY <2>2 DEF s, t
<1>7. Len(p.message) = Len(q.message) /\ Len(p.value) = Len(q.value)
    BY <1>6, HeaderSays, FramedLengths
<1>8. /\ p.message \in ByteSeq /\ q.message \in ByteSeq
      /\ p.value \in ByteSeq /\ q.value \in ByteSeq
    BY FramedLengths
<1>9. p.message = q.message /\ px = qy
  <2> DEFINE s == p.message
             t == q.message
  <2>1. s \in ByteSeq /\ t \in ByteSeq /\ Len(s) = Len(t) /\ s \o px = t \o qy
      BY <1>4, <1>6, <1>7, <1>8
  <2> HIDE DEF s, t
  <2>2. s = t /\ px = qy
      BY <1>3, <2>1, SameStart
  <2>3. QED
      BY <2>2 DEF s, t
<1>10. p.value = q.value
  <2> DEFINE s == p.value
             t == q.value
  <2>1. s \in ByteSeq /\ t \in ByteSeq /\ Len(s) = Len(t) /\ s \o x = t \o y
      BY <1>5, <1>9, <1>7, <1>8
  <2> HIDE DEF s, t
  <2>2. s = t
      BY <2>1, SameStart
  <2>3. QED
      BY <2>2 DEF s, t
<1>11. QED
    BY <1>9, <1>10 DEF Framed

-----------------------------------------------------------------------------
(* Packets, one after the other.                                            *)
Joins(ss, f, n) ==
    /\ f \in [0 .. n -> ByteSeq]
    /\ f[0] = << >>
    /\ \A k \in 1 .. n : f[k] = f[k - 1] \o ss[k]

LEMMA FlattenRecurs ==
    ASSUME NEW ss \in Seq(ByteSeq)
    PROVE  \E f : Joins(ss, f, Len(ss)) /\ FlattenSeq(ss) = f[Len(ss)]
<1> DEFINE n == Len(ss)
           item(k) == IF k \in 1 .. n THEN ss[k] ELSE << >>
           step == [x \in Nat \X ByteSeq |-> x[2] \o item(x[1])]
           P(g) == g = [i \in 1 .. n |-> IF i = 1 THEN ss[i] ELSE g[i - 1] \o ss[i]]
<1>1. n \in Nat /\ DOMAIN ss = 1 .. n /\ \A k \in 1 .. n : ss[k] \in ByteSeq
    BY LenProperties, ElementOfSeq
<1> HIDE DEF n
<1>2. step \in [Nat \X ByteSeq -> ByteSeq]
  <2>1. \A k \in Nat : item(k) \in ByteSeq
      BY <1>1, NoBytes
  <2> HIDE DEF item
  <2>2. \A x \in Nat \X ByteSeq : x[2] \o item(x[1]) \in ByteSeq
    <3> TAKE x \in Nat \X ByteSeq
    <3>1. x[2] \in ByteSeq /\ x[1] \in Nat
        OBVIOUS
    <3>2. item(x[1]) \in ByteSeq
        BY <2>1, <3>1
    <3>3. QED
        BY <3>1, <3>2, Joined
  <2>3. QED
      BY <2>2, Zenon
<1>3. PICK f : Recurs(f, n, ByteSeq, << >>, step)
    BY <1>1, <1>2, Recursion, NoBytes, Zenon
<1>4. \A k \in 1 .. n : f[k] = f[k - 1] \o ss[k]
  <2> TAKE k \in 1 .. n
  <2>1. k \in Nat /\ k - 1 \in 0 .. n
      BY <1>1
  <2>2. f[k - 1] \in ByteSeq /\ f[k] = step[<<k, f[k - 1]>>]
      BY <1>3, <2>1, Zenon DEF Recurs
  <2>3. <<k, f[k - 1]>> \in Nat \X ByteSeq
      BY <2>1, <2>2, Zenon
  <2>4. step[<<k, f[k - 1]>>] = <<k, f[k - 1]>>[2] \o item(<<k, f[k - 1]>>[1])
      BY <2>3, Zenon
  <2>5. <<k, f[k - 1]>>[2] = f[k - 1] /\ <<k, f[k - 1]>>[1] = k
      OBVIOUS
  <2>6. item(k) = ss[k]
      OBVIOUS
  <2>7. QED
      BY <2>2, <2>4, <2>5, <2>6, Zenon
<1>5. Joins(ss, f, n)
    BY <1>3, <1>4, Zenon DEF Joins, Recurs
<1>6. CASE n = 0
  <2>1. ss = << >>
      BY <1>6, EmptySeq DEF n
  <2>2. FlattenSeq(ss) = ss
      BY <1>6, Zenon DEF FlattenSeq, n
  <2>3. FlattenSeq(ss) = f[n]
      BY <1>5, <1>6, <2>1, <2>2, Zenon DEF Joins
  <2>4. QED
      BY <1>5, <2>3, Zenon DEF n
<1>7. CASE n # 0
  <2> DEFINE h == [i \in 1 .. n |-> f[i]]
             v == CHOOSE g : P(g)
  <2>1. f[1] = ss[1]
    <3>1. 1 \in 1 .. n /\ 1 - 1 = 0
        BY <1>1, <1>7
    <3>2. f[1] = f[0] \o ss[1] /\ f[0] = << >>
        BY <1>4, <1>5, <3>1, Zenon DEF Joins
    <3>3. QED
        BY <1>1, <3>1, <3>2, NoBytes
  <2>2. \A i \in 1 .. n : f[i] = IF i = 1 THEN ss[i] ELSE h[i - 1] \o ss[i]
    <3> TAKE i \in 1 .. n
    <3>1. CASE i = 1
        BY <2>1, <3>1
    <3>2. CASE i # 1
      <4>1. i - 1 \in 1 .. n
          BY <1>1, <3>2
      <4>2. QED
          BY <1>4, <3>2, <4>1, Zenon
    <3>3. QED
        BY <3>1, <3>2
  <2>3. P(h)
      BY <2>2, Zenon
  <2> HIDE DEF h
  <2>4. P(v)
      BY <2>3, Zenon
  <2>5. FlattenSeq(ss) = v[n]
      BY <1>7, Zenon DEF FlattenSeq, n
  <2> HIDE DEF v
  <2>6. \A i \in 1 .. n : v[i] = IF i = 1 THEN ss[i] ELSE v[i - 1] \o ss[i]
      BY <2>4, Zenon
  <2> DEFINE S == {k \in Nat : k \in 1 .. n => v[k] = f[k]}
  <2>7. 0 \in S
      OBVIOUS
  <2>8. ASSUME NEW k \in Nat, k \in S PROVE k + 1 \in S
    <3>1. SUFFICES ASSUME k + 1 \in 1 .. n PROVE v[k + 1] = f[k + 1]
        OBVIOUS
    <3>2. CASE k = 0
        BY <2>1, <2>6, <3>1, <3>2
    <3>3. CASE k # 0
      <4>1. k \in 1 .. n /\ k + 1 # 1 /\ k + 1 - 1 = k
          BY <1>1, <3>1, <3>3
      <4> DEFINE j == k + 1
      <4>2. v[k] = f[k] /\ k = j - 1 /\ j \in 1 .. n /\ j # 1
          BY <2>8, <3>1, <4>1
      <4> HIDE DEF j
      <4>3. v[j] = v[j - 1] \o ss[j]
          BY <2>6, <4>2, Zenon
      <4>4. f[j] = f[j - 1] \o ss[j]
          BY <1>4, <4>2, Zenon
      <4>5. v[j] = f[j]
          BY <4>2, <4>3, <4>4, Zenon
      <4>6. QED
          BY <4>5, Zenon DEF j
    <3>4. QED
        BY <3>2, <3>3
  <2> HIDE DEF S
  <2>9. Nat \subseteq S
      BY <2>7, <2>8, Induction
  <2>10. v[n] = f[n]
      BY <1>1, <1>7, <2>9 DEF S
  <2>11. QED
      BY <1>5, <2>5, <2>10, Zenon DEF n
<1>8. QED
    BY <1>6, <1>7

LEMMA FlattenAppend ==
    ASSUME NEW ss \in Seq(ByteSeq), NEW s \in ByteSeq
    PROVE  /\ FlattenSeq(ss) \in ByteSeq
           /\ FlattenSeq(Append(ss, s)) = FlattenSeq(ss) \o s
<1> DEFINE n == Len(ss)
           tt == Append(ss, s)
<1>1. /\ n \in Nat /\ tt \in Seq(ByteSeq) /\ Len(tt) = n + 1
      /\ tt[n + 1] = s /\ \A k \in 1 .. n : tt[k] = ss[k]
    BY LenProperties, AppendProperties
<1>2. PICK f : Joins(ss, f, n) /\ FlattenSeq(ss) = f[n]
    BY FlattenRecurs
<1>3. PICK g : Joins(tt, g, n + 1) /\ FlattenSeq(tt) = g[n + 1]
    BY <1>1, FlattenRecurs, Zenon
<1> HIDE DEF n, tt
<1> DEFINE S == {k \in Nat : k <= n => g[k] = f[k]}
<1>4. 0 \in S
    BY <1>2, <1>3 DEF Joins
<1>5. ASSUME NEW k \in Nat, k \in S PROVE k + 1 \in S
  <2>1. SUFFICES ASSUME k + 1 <= n PROVE g[k + 1] = f[k + 1]
      OBVIOUS
  <2> DEFINE j == k + 1
  <2>2. j \in 1 .. n /\ j \in 1 .. n + 1 /\ k = j - 1 /\ g[k] = f[k]
      BY <1>1, <1>5, <2>1
  <2> HIDE DEF j
  <2>3. f[j] = f[j - 1] \o ss[j]
      BY <1>2, <2>2, Zenon DEF Joins
  <2>4. g[j] = g[j - 1] \o tt[j]
      BY <1>3, <2>2, Zenon DEF Joins
  <2>5. g[j] = f[j]
      BY <1>1, <2>2, <2>3, <2>4, Zenon
  <2>6. QED
      BY <2>5, Zenon DEF j
<1> HIDE DEF S
<1>6. Nat \subseteq S
    BY <1>4, <1>5, Induction
<1>7. g[n] = f[n]
    BY <1>1, <1>6 DEF S
<1>8. n + 1 \in 1 .. n + 1 /\ n + 1 - 1 = n /\ n \in 0 .. n
    BY <1>1
<1>9. g[n + 1] = g[n] \o tt[n + 1] /\ f[n] \in ByteSeq
    BY <1>2, <1>3, <1>8 DEF Joins
<1>10. QED
    BY <1>1, <1>2, <1>3, <1>7, <1>9, Zenon DEF tt

LEMMA EncodedNone == Encoded(<< >>) = << >>
<1> DEFINE ss == [i \in DOMAIN << >> |-> Encode(<< >>[i])]
<1>1. ss = << >> /\ Len(ss) = 0
    OBVIOUS
<1> HIDE DEF ss
<1>2. FlattenSeq(ss) = ss
    BY <1>1, Zenon DEF FlattenSeq
<1>3. QED
    BY <1>1, <1>2, Zenon DEF Encoded, ss

LEMMA EncodedAppend ==
    ASSUME NEW ps \in Seq(Framed), NEW p \in Framed
    PROVE  /\ Encoded(ps) \in ByteSeq
           /\ Encoded(Append(ps, p)) = Encoded(ps) \o Encode(p)
<1> DEFINE n == Len(ps)
           qs == Append(ps, p)
           ss == [i \in DOMAIN ps |-> Encode(ps[i])]
           tt == [i \in DOMAIN qs |-> Encode(qs[i])]
<1>1. n \in Nat /\ DOMAIN ps = 1 .. n /\ \A i \in 1 .. n : ps[i] \in Framed
    BY LenProperties, ElementOfSeq
<1>2. /\ qs \in Seq(Framed) /\ Len(qs) = n + 1 /\ DOMAIN qs = 1 .. n + 1
      /\ qs[n + 1] = p /\ \A i \in 1 .. n : qs[i] = ps[i]
  <2>1. qs \in Seq(Framed) /\ Len(qs) = n + 1
      BY AppendProperties
  <2>2. qs[n + 1] = p /\ \A i \in 1 .. n : qs[i] = ps[i]
      BY AppendProperties
  <2>3. DOMAIN qs = 1 .. n + 1
      BY <2>1, LenProperties
  <2>4. QED
      BY <2>1, <2>2, <2>3
<1> HIDE DEF qs, n
<1>3. ss \in Seq(ByteSeq) /\ Len(ss) = n /\ \A i \in 1 .. n : ss[i] = Encode(ps[i])
  <2>1. ss \in [1 .. n -> ByteSeq]
      BY <1>1, EncodeParts, Zenon
  <2>2. QED
      BY <1>1, <2>1, SeqDef, LenProperties
<1>4. tt \in Seq(ByteSeq) /\ Len(tt) = n + 1 /\ \A i \in 1 .. n + 1 : tt[i] = Encode(qs[i])
  <2>1. \A i \in 1 .. n + 1 : qs[i] \in Framed
      BY <1>2, ElementOfSeq
  <2>2. tt \in [1 .. n + 1 -> ByteSeq]
      BY <1>2, <2>1, EncodeParts, Zenon
  <2>3. QED
      BY <1>1, <1>2, <2>2, SeqDef, LenProperties
<1> HIDE DEF ss, tt
<1>5. Encode(p) \in ByteSeq
    BY EncodeParts
<1> DEFINE uu == Append(ss, Encode(p))
<1>6. /\ uu \in Seq(ByteSeq) /\ Len(uu) = n + 1
      /\ uu[n + 1] = Encode(p) /\ \A i \in 1 .. n : uu[i] = ss[i]
    BY <1>3, <1>5, AppendProperties
<1> HIDE DEF uu
<1>7. \A i \in 1 .. n + 1 : tt[i] = uu[i]
  <2> TAKE i \in 1 .. n + 1
  <2>1. i \in 1 .. n \/ i = n + 1
      BY <1>1
  <2>2. QED
      BY <1>2, <1>3, <1>4, <1>6, <2>1, ZenonT(40)
<1>8. tt = uu
    BY <1>4, <1>6, <1>7, SeqEqual
<1>9. FlattenSeq(ss) \in ByteSeq /\ FlattenSeq(uu) = FlattenSeq(ss) \o Encode(p)
    BY <1>3, <1>5, FlattenAppend, Zenon DEF uu
<1>10. Encoded(ps) = FlattenSeq(ss) /\ Encoded(qs) = FlattenSeq(tt)
    BY Zenon DEF Encoded, ss, tt
<1>11. QED
    BY <1>8, <1>9, <1>10, Zenon DEF qs

LEMMA FramedExists == [message |-> << >>, value |-> << >>] \in Framed
BY NoBytes, TooLongPositive DEF Framed, Short

LEMMA EncodedType ==
    ASSUME NEW ps \in Seq(Framed)
    PROVE  Encoded(ps) \in ByteSeq
BY FramedExists, EncodedAppend

LEMMA FirstAndNext ==
    ASSUME NEW T, NEW ps \in Seq(T), NEW k \in 0 .. Len(ps) - 1
    PROVE  /\ SubSeq(ps, 1, k) \in Seq(T) /\ ps[k + 1] \in T
           /\ SubSeq(ps, 1, k + 1) = Append(SubSeq(ps, 1, k), ps[k + 1])
<1>1. Len(ps) \in Nat /\ k \in Nat /\ k + 1 \in 1 .. Len(ps)
    BY LenProperties
<1>2. \A i \in 1 .. Len(ps) : ps[i] \in T
    BY ElementOfSeq
<1>3. SubSeq(ps, 1, k) \in Seq(T)
    BY <1>1, <1>2, SubSeqProperties
<1>4. 1 \in 1 .. Len(ps) /\ k + 1 \in 1 .. Len(ps) /\ k + 1 - 1 = k
    BY <1>1
<1>5. SubSeq(ps, 1, k + 1) = SubSeq(ps, 1, k) \o <<ps[k + 1]>>
    BY <1>4, SubSeqRecursiveSecond
<1>6. Append(SubSeq(ps, 1, k), ps[k + 1]) = SubSeq(ps, 1, k) \o <<ps[k + 1]>>
    BY <1>2, <1>3, <1>4, AppendIsConcat
<1>7. QED
    BY <1>2, <1>3, <1>4, <1>5, <1>6

(* After k packets comes the next one.                                      *)
LEMMA EncodedSplit ==
    ASSUME NEW ps \in Seq(Framed), NEW k \in 0 .. Len(ps) - 1
    PROVE  \E z \in ByteSeq :
              Encoded(ps) = Encoded(SubSeq(ps, 1, k)) \o (Encode(ps[k + 1]) \o z)
<1> DEFINE n == Len(ps)
           e(m) == Encoded(SubSeq(ps, 1, m))
           p == ps[k + 1]
           Follows(m) == \E z \in ByteSeq : e(m) = e(k) \o (Encode(p) \o z)
           S == {m \in Nat : m \in k + 1 .. n => Follows(m)}
<1>1. n \in Nat /\ k \in Nat /\ k + 1 \in 1 .. n /\ k + 1 \in k + 1 .. n
    BY LenProperties
<1>2. ASSUME NEW m \in 0 .. n - 1
      PROVE  /\ e(m) \in ByteSeq /\ ps[m + 1] \in Framed /\ Encode(ps[m + 1]) \in ByteSeq
             /\ e(m + 1) = e(m) \o Encode(ps[m + 1])
  <2>1. /\ SubSeq(ps, 1, m) \in Seq(Framed) /\ ps[m + 1] \in Framed
        /\ SubSeq(ps, 1, m + 1) = Append(SubSeq(ps, 1, m), ps[m + 1])
      BY FirstAndNext
  <2>2. QED
      BY <2>1, EncodedAppend, EncodeParts
<1>3. p \in Framed /\ e(k) \in ByteSeq /\ Encode(p) \in ByteSeq /\ e(k + 1) = e(k) \o Encode(p)
    BY <1>2
<1>4. e(n) = Encoded(ps)
    BY SubSeqFull
<1> HIDE DEF n, e, p
<1>5. 0 \in S
    BY <1>1
<1>6. ASSUME NEW m \in Nat, m \in S PROVE m + 1 \in S
  <2> HIDE DEF Follows
  <2>1. SUFFICES ASSUME m + 1 \in k + 1 .. n PROVE Follows(m + 1)
      OBVIOUS
  <2> USE DEF Follows
  <2>2. CASE m = k
    <3>1. Encode(p) \o << >> = Encode(p)
        BY <1>3, NoBytes
    <3>2. QED
        BY <1>3, <2>2, <3>1, NoBytes
  <2>3. CASE m # k
    <3>1. m \in k + 1 .. n /\ m \in 0 .. n - 1
        BY <1>1, <2>1, <2>3
    <3>2. PICK z \in ByteSeq : e(m) = e(k) \o (Encode(p) \o z)
        BY <1>6, <3>1
    <3> DEFINE q == Encode(ps[m + 1])
    <3>3. q \in ByteSeq /\ e(m + 1) = e(m) \o q
        BY <1>2, <3>1
    <3> HIDE DEF q
    <3>4. (e(k) \o (Encode(p) \o z)) \o q = e(k) \o (Encode(p) \o (z \o q))
      <4> DEFINE a == e(k)
                 b == Encode(p)
      <4>1. a \in ByteSeq /\ b \in ByteSeq /\ z \in ByteSeq /\ q \in ByteSeq
          BY <1>3, <3>2, <3>3
      <4> HIDE DEF a, b
      <4> DEFINE c == b \o z
      <4>2. c \in ByteSeq
          BY <4>1, Joined
      <4>3. c \o q = b \o (z \o q)
          BY <4>1, Regrouped, SMTT(40)
      <4> HIDE DEF c
      <4>4. (a \o c) \o q = a \o (c \o q)
          BY <4>1, <4>2, Regrouped, SMTT(40)
      <4>5. QED
          BY <4>3, <4>4, Zenon DEF a, b, c
    <3>5. z \o q \in ByteSeq
        BY <3>3, Joined
    <3>6. QED
        BY <3>2, <3>3, <3>4, <3>5, Zenon
  <2>4. QED
      BY <2>2, <2>3
<1>7. Nat \subseteq S
    BY <1>5, <1>6, Induction
<1>8. n \in Nat /\ n \in k + 1 .. n
    BY <1>1
<1>9. \E z \in ByteSeq : e(n) = e(k) \o (Encode(p) \o z)
    BY <1>7, <1>8
<1>10. QED
    BY <1>4, <1>9, Zenon DEF e, p

LEMMA EncodedThen ==
    ASSUME NEW ps \in Seq(Framed), NEW k \in 0 .. Len(ps) - 1, NEW w \in ByteSeq
    PROVE  \E x \in ByteSeq :
              Encoded(ps) \o w = Encoded(SubSeq(ps, 1, k)) \o (Encode(ps[k + 1]) \o x)
<1> DEFINE e == Encoded(SubSeq(ps, 1, k))
           b == Encode(ps[k + 1])
<1>1. PICK z \in ByteSeq : Encoded(ps) = e \o (b \o z)
    BY EncodedSplit, Zenon
<1>2. e \in ByteSeq /\ b \in ByteSeq /\ z \in ByteSeq
    BY <1>1, FirstAndNext, EncodedType, EncodeParts
<1> HIDE DEF e, b
<1> DEFINE c == b \o z
<1>3. c \in ByteSeq
    BY <1>2, Joined
<1>4. c \o w = b \o (z \o w)
    BY <1>2, Regrouped, SMTT(40)
<1> HIDE DEF c
<1>5. (e \o c) \o w = e \o (c \o w)
    BY <1>2, <1>3, Regrouped, SMTT(40)
<1>6. Encoded(ps) \o w = e \o (b \o (z \o w))
    BY <1>1, <1>4, <1>5, Zenon DEF c
<1>7. z \o w \in ByteSeq
    BY <1>2, Joined
<1>8. QED
    BY <1>6, <1>7, Zenon DEF e, b

(* What a reader accepts.                                                   *)
Readable == {p \in Framed : ParsesAsMessage(p.message)}

(* Bytes that begin no packet a reader accepts hide none: what is read of   *)
(* packets and such bytes is the first of the packets.                      *)
LEMMA DecodedInOrder ==
    ASSUME NEW ps \in Seq(Readable), NEW qs \in Seq(Framed),
           NEW w \in ByteSeq, NEW u \in ByteSeq,
           \A p \in Readable : \A v \in ByteSeq : Encode(p) \o v # u,
           Encoded(ps) \o w = Encoded(qs) \o u
    PROVE  IsPrefix(ps, qs)
<1> DEFINE Same(k) == k <= Len(qs) /\ SubSeq(ps, 1, k) = SubSeq(qs, 1, k)
           S == {k \in Nat : k <= Len(ps) => Same(k)}
<1>1. /\ Len(ps) \in Nat /\ Len(qs) \in Nat /\ ps \in Seq(Framed)
      /\ \A i \in 1 .. Len(ps) : ps[i] \in Readable
    BY LenProperties, ElementOfSeq, SeqMonotonic DEF Readable
<1>2. 0 \in S
    BY <1>1, SubSeqEmpty
<1>3. ASSUME NEW k \in Nat, k \in S PROVE k + 1 \in S
  <2>1. SUFFICES ASSUME k + 1 <= Len(ps) PROVE Same(k + 1)
      OBVIOUS
  <2> DEFINE e == Encoded(SubSeq(ps, 1, k))
             p == ps[k + 1]
  <2>2. k \in 0 .. Len(ps) - 1 /\ k + 1 \in 1 .. Len(ps) /\ Same(k)
      BY <1>1, <1>3, <2>1
  <2>3. /\ SubSeq(ps, 1, k) \in Seq(Framed) /\ p \in Readable /\ p \in Framed
        /\ SubSeq(ps, 1, k + 1) = Append(SubSeq(ps, 1, k), p)
      BY <1>1, <2>2, FirstAndNext
  <2>4. PICK x \in ByteSeq : Encoded(ps) \o w = e \o (Encode(p) \o x)
      BY <1>1, <2>2, EncodedThen, Zenon
  <2>5. e \in ByteSeq /\ Encode(p) \in ByteSeq
      BY <2>3, EncodedType, EncodeParts
  <2>6. x \in ByteSeq /\ Encode(p) \o x \in ByteSeq
      BY <2>4, <2>5, Joined
  <2> HIDE DEF e
  <2>7. CASE k = Len(qs)
    <3>1. SubSeq(qs, 1, k) = qs
        BY <2>7, SubSeqFull
    <3>2. Encoded(qs) = e
        BY <2>2, <3>1, Zenon DEF e
    <3>3. e \o (Encode(p) \o x) = e \o u
        BY <2>4, <3>2, Zenon
    <3>4. Encode(p) \o x = u
        BY <2>5, <2>6, <3>3, SameRest
    <3>5. QED
        BY <2>3, <2>6, <3>4, Zenon
  <2>8. CASE k # Len(qs)
    <3> DEFINE q == qs[k + 1]
    <3>1. k \in 0 .. Len(qs) - 1
        BY <1>1, <2>2, <2>8
    <3>2. /\ q \in Framed
          /\ SubSeq(qs, 1, k + 1) = Append(SubSeq(qs, 1, k), q)
        BY <3>1, FirstAndNext
    <3>3. PICK y \in ByteSeq :
              Encoded(qs) \o u = Encoded(SubSeq(qs, 1, k)) \o (Encode(q) \o y)
        BY <3>1, EncodedThen, Zenon
    <3>4. e \o (Encode(p) \o x) = e \o (Encode(q) \o y)
        BY <2>2, <2>4, <3>3, Zenon DEF e
    <3>5. Encode(q) \o y \in ByteSeq
        BY <3>2, <3>3, EncodeParts, Joined
    <3>6. Encode(p) \o x = Encode(q) \o y
        BY <2>5, <2>6, <3>4, <3>5, SameRest
    <3>7. /\ p \in Framed /\ q \in Framed /\ x \in ByteSeq /\ y \in ByteSeq
          /\ Encode(p) \o x = Encode(q) \o y
        BY <2>3, <2>6, <3>2, <3>3, <3>6, Zenon
    <3>8. p = q
      <4> HIDE DEF p, q
      <4>1. QED
          BY <3>7, EncodeDistinct
    <3>9. k + 1 <= Len(qs)
        BY <1>1, <3>1
    <3>10. QED
        BY <2>2, <2>3, <3>2, <3>8, <3>9, Zenon
  <2>9. QED
      BY <2>7, <2>8
<1> HIDE DEF S
<1>4. Nat \subseteq S
    BY <1>2, <1>3, Induction
<1>5. Same(Len(ps))
    BY <1>1, <1>4 DEF S
<1>6. QED
    BY <1>5, Zenon DEF IsPrefix

(* What begins no packet: nothing, a magic byte, and the header of what     *)
(* cannot be serialized.                                                    *)
NoPacket(u) == \A p \in Readable : \A v \in ByteSeq : Encode(p) \o v # u

LEMMA HeaderOnly ==
    ASSUME NEW p \in Framed, NEW v \in ByteSeq
    PROVE  /\ Len(Encode(p) \o v) >= HeaderSize
           /\ \A m, n \in Lengths : Encode(p) \o v = Header(m, n) =>
                 p.message = << >> /\ m = 0
<1> DEFINE h == Header(Len(p.message), Len(p.value))
           t == p.message \o (p.value \o v)
<1>1. h \in ByteSeq /\ Len(h) = HeaderSize /\ t \in ByteSeq /\ Encode(p) \o v = h \o t
    BY HeaderType, FramedLengths, EncodeStart
<1>2. HeaderSize \in Nat /\ Len(t) \in Nat
    BY <1>1, NoBytes, ConstantsOK DEF HeaderSize
<1>3. Len(h \o t) >= HeaderSize
  <2> HIDE DEF h, t
  <2>1. Len(h \o t) = HeaderSize + Len(t)
      BY <1>1, Joined
  <2>2. QED
      BY <1>2, <2>1
<1>4. ASSUME NEW m \in Lengths, NEW n \in Lengths, Encode(p) \o v = Header(m, n)
      PROVE  p.message = << >> /\ m = 0
  <2> DEFINE g == Header(m, n)
  <2>1. g \in ByteSeq /\ Len(g) = HeaderSize /\ << >> \in ByteSeq /\ g \o << >> = g
      BY HeaderType, NoBytes
  <2>2. t = p.message \o (p.value \o v)
      OBVIOUS
  <2> HIDE DEF h, t, g
  <2>3. h \o t = g \o << >>
      BY <1>1, <1>4, <2>1 DEF g
  <2>4. h = g /\ t = << >>
      BY <1>1, <2>1, <2>3, SameStart
  <2>5. p.value \o v \in ByteSeq /\ p.message \in ByteSeq
      BY FramedLengths, Joined
  <2>6. p.message = << >>
      BY <2>2, <2>4, <2>5, ConcatSimplifications, Zenon DEF ByteSeq
  <2>7. Len(p.message) = m
      BY <2>4, HeaderSays, FramedLengths, Zenon DEF g, h
  <2>8. QED
      BY <2>6, <2>7, EmptySeq
<1>5. QED
    BY <1>1, <1>3, <1>4

LEMMA SizeWithoutRequiredOK ==
    /\ SizeWithoutRequired \in Lengths
    /\ SizeWithoutRequired = 0 => ~ ParsesAsMessage(<< >>)
BY StreamConstantsOK DEF Lengths

LEMMA NoPackets ==
    /\ NoPacket(<< >>) /\ NoPacket(<<Magic>>)
    /\ \A n \in Lengths : NoPacket(Header(SizeWithoutRequired, n))
<1>1. HeaderSize \in Nat /\ HeaderSize > 1
    BY ConstantsOK DEF HeaderSize
<1> SUFFICES ASSUME NEW p \in Readable, NEW v \in ByteSeq
             PROVE  /\ Encode(p) \o v # << >> /\ Encode(p) \o v # <<Magic>>
                    /\ \A n \in Lengths : Encode(p) \o v # Header(SizeWithoutRequired, n)
    BY Zenon DEF NoPacket
<1>2. p \in Framed /\ ParsesAsMessage(p.message)
    BY DEF Readable
<1>3. Len(Encode(p) \o v) >= HeaderSize
    BY <1>2, HeaderOnly
<1>4. Len(<< >>) = 0 /\ Len(<<Magic>>) = 1
    OBVIOUS
<1>5. Encode(p) \o v # << >> /\ Encode(p) \o v # <<Magic>>
    BY <1>1, <1>3, <1>4
<1>6. \A n \in Lengths : Encode(p) \o v # Header(SizeWithoutRequired, n)
    BY <1>2, HeaderOnly, SizeWithoutRequiredOK
<1>7. QED
    BY <1>5, <1>6

(* The packets that may be written.                                         *)
LEMMA PacketsOK ==
    ASSUME NEW p \in Packets
    PROVE  /\ p.value \in ByteSeq /\ Len(p.value) \in Lengths
           /\ p.message # Unserializable => p \in Framed
<1>1. p \in [message : Seq(Bytes) \cup {Unserializable}, value : Seq(Bytes)]
      /\ Len(p.value) < TooLong
      /\ (p.message # Unserializable => Len(p.message) < TooLong)
    BY FramingConstantsOK
<1>2. p.value \in ByteSeq /\ Len(p.value) \in Nat
    BY <1>1, LenProperties DEF ByteSeq
<1>3. p.message # Unserializable => p.message \in ByteSeq
    BY <1>1 DEF ByteSeq
<1>4. p = [message |-> p.message, value |-> p.value]
    BY <1>1
<1>5. QED
    BY <1>1, <1>2, <1>3, <1>4, TooLongPositive DEF Framed, Short, Lengths

-----------------------------------------------------------------------------
(* The reader: the bytes taken are those of the packets read, those of the  *)
(* fields read since, and those in the string reader.                       *)
Before(st, ls, m) ==
    CASE st \in {"magic", "header"} -> << >>
      [] st = "messageLength" -> <<Magic>>
      [] st = "valueLength" -> <<Magic>> \o EncodeLength(ls[1])
      [] st = "message" -> Header(ls[1], ls[2])
      [] st = "value" -> Header(ls[1], ls[2]) \o m

ReaderTypes ==
    /\ rstate \in Fields \cup {"header", "finished", "failed"}
    /\ buf \in ByteSeq /\ size \in 0 .. TooLong + HeaderSize /\ Len(buf) <= size
    /\ lengths \in Seq(Lengths) /\ taken \in ByteSeq /\ got \in Seq(Readable)

ReaderSizes ==
    /\ rstate = "magic" => size = 1
    /\ rstate = "header" => size = HeaderSize
    /\ rstate \in {"messageLength", "valueLength"} => size = Digits
    /\ rstate = "valueLength" => Len(lengths) = 1
    /\ rstate \in {"message", "value"} => Len(lengths) = 2
    /\ rstate = "message" => size = lengths[1]
    /\ rstate = "value" => size = lengths[2] /\ message \in ByteSeq /\ Len(message) = lengths[1]

ReaderTaken ==
    /\ ~ Over(rstate) => taken = (Encoded(got) \o Before(rstate, lengths, message)) \o buf
    /\ rstate = "finished" => taken = Encoded(got)
    /\ rstate = "failed" => \E rest \in ByteSeq : taken = Encoded(got) \o rest

ReaderOK == ReaderTypes /\ ReaderSizes /\ ReaderTaken

StreamBytes == stream \in ByteSeq /\ Len(stream) <= Capacity

LEMMA BeforeFields ==
    ASSUME NEW ls, NEW m
    PROVE  /\ Before("magic", ls, m) = << >> /\ Before("header", ls, m) = << >>
           /\ Before("messageLength", ls, m) = <<Magic>>
           /\ Before("valueLength", ls, m) = <<Magic>> \o EncodeLength(ls[1])
           /\ Before("message", ls, m) = Header(ls[1], ls[2])
           /\ Before("value", ls, m) = Header(ls[1], ls[2]) \o m
BY DEF Before

LEMMA HeaderSizeOK ==
    /\ HeaderSize \in Nat /\ HeaderSize > 0 /\ HeaderSize <= TooLong + HeaderSize
    /\ 1 \in 0 .. TooLong + HeaderSize /\ Digits \in 0 .. TooLong + HeaderSize
    /\ HeaderSize \in 0 .. TooLong + HeaderSize /\ Lengths \subseteq 0 .. TooLong + HeaderSize
BY ConstantsOK, TooLongPositive DEF HeaderSize, Lengths

LEMMA GotBytes ==
    ASSUME ReaderTypes
    PROVE  got \in Seq(Framed) /\ Encoded(got) \in ByteSeq
<1>1. got \in Seq(Framed)
    BY SeqMonotonic DEF ReaderTypes, Readable
<1>2. QED
    BY <1>1, EncodedType

LEMMA BeforeType ==
    ASSUME ReaderTypes, ReaderSizes, ~ Over(rstate)
    PROVE  Before(rstate, lengths, message) \in ByteSeq
<1>1. \A i \in 1 .. Len(lengths) : lengths[i] \in Lengths
    BY ElementOfSeq DEF ReaderTypes
<1>2. rstate = "valueLength" => lengths[1] \in Lengths
    BY <1>1 DEF ReaderSizes
<1>3. rstate \in {"message", "value"} => lengths[1] \in Lengths /\ lengths[2] \in Lengths
    BY <1>1 DEF ReaderSizes
<1>4. rstate \in Fields \cup {"header"}
    BY DEF ReaderTypes, Over
<1>5. CASE rstate \in {"magic", "header"}
    BY <1>5, BeforeFields, NoBytes
<1>6. CASE rstate = "messageLength"
    BY <1>6, BeforeFields, MagicByte
<1>7. CASE rstate = "valueLength"
    BY <1>2, <1>7, BeforeFields, MagicByte, LengthBytes, Joined
<1>8. CASE rstate = "message"
    BY <1>3, <1>8, BeforeFields, HeaderType
<1>9. CASE rstate = "value"
  <2>1. Header(lengths[1], lengths[2]) \in ByteSeq /\ message \in ByteSeq
      BY <1>3, <1>9, HeaderType DEF ReaderSizes
  <2>2. QED
      BY <1>9, <2>1, BeforeFields, Joined
<1>10. QED
    BY <1>4, <1>5, <1>6, <1>7, <1>8, <1>9 DEF Fields

(* A field is complete, or the reader gives up in one.                      *)
LEMMA FieldComplete ==
    ASSUME NEW e \in ByteSeq, NEW b \in ByteSeq, NEW c \in ByteSeq
    PROVE  /\ (e \o b) \o c = (e \o (b \o c)) \o << >>
           /\ (e \o b) \o c = e \o (b \o c) /\ b \o c \in ByteSeq
<1>1. b \o c \in ByteSeq
    BY Joined
<1>2. (e \o b) \o c = e \o (b \o c)
    BY Regrouped, SMTT(40)
<1>3. e \o (b \o c) \in ByteSeq
    BY <1>1, Joined
<1>4. (e \o (b \o c)) \o << >> = e \o (b \o c)
    BY <1>3, NoBytes
<1>5. QED
    BY <1>1, <1>2, <1>4, Zenon

(* What has been taken begins with the packets read.                        *)
LEMMA TakenStarts ==
    ASSUME ReaderOK
    PROVE  \E rest \in ByteSeq : taken = Encoded(got) \o rest
<1>1. Encoded(got) \in ByteSeq
    BY GotBytes DEF ReaderOK
<1>2. CASE ~ Over(rstate)
  <2> DEFINE b == Before(rstate, lengths, message)
  <2>1. b \in ByteSeq /\ buf \in ByteSeq /\ taken = (Encoded(got) \o b) \o buf
      BY <1>2, BeforeType DEF ReaderOK, ReaderTypes, ReaderTaken
  <2> HIDE DEF b
  <2>2. taken = Encoded(got) \o (b \o buf) /\ b \o buf \in ByteSeq
      BY <1>1, <2>1, FieldComplete
  <2>3. QED
      BY <2>2
<1>3. CASE rstate = "finished"
  <2>1. taken = Encoded(got) \o << >>
      BY <1>1, <1>3, NoBytes DEF ReaderOK, ReaderTaken
  <2>2. QED
      BY <2>1, NoBytes
<1>4. QED
    BY <1>2, <1>3 DEF Over, ReaderOK, ReaderTaken

LEMMA ReaderFails ==
    ASSUME ReaderOK, rstate' = "failed",
           UNCHANGED <<size, buf, lengths, got, taken>>
    PROVE  ReaderOK'
<1>1. ReaderTypes'
    BY DEF ReaderOK, ReaderTypes
<1>2. ReaderSizes'
    BY DEF ReaderSizes
<1>3. ReaderTaken'
    BY TakenStarts DEF ReaderTaken, Over
<1>4. QED
    BY <1>1, <1>2, <1>3 DEF ReaderOK

(* On to the next field.                                                    *)
LEMMA ReaderMoves ==
    ASSUME ReaderOK, ~ Over(rstate), NEW st \in Fields \cup {"header"},
           NEW n \in 0 .. TooLong + HeaderSize, NextField(st, n),
           lengths' \in Seq(Lengths), UNCHANGED <<got, taken>>, ReaderSizes',
           Before(st, lengths', message') = Before(rstate, lengths, message) \o buf
    PROVE  ReaderOK'
<1>1. ReaderTypes'
    BY NoBytes DEF ReaderOK, ReaderTypes, NextField
<1>2. ReaderTaken'
  <2> DEFINE e == Encoded(got)
             b == Before(rstate, lengths, message)
  <2>1. e \in ByteSeq /\ b \in ByteSeq /\ buf \in ByteSeq
      BY GotBytes, BeforeType DEF ReaderOK, ReaderTypes
  <2>2. taken = (e \o b) \o buf
      BY Zenon DEF ReaderOK, ReaderTaken
  <2>3. e' = e
      BY Zenon
  <2>4. Before(rstate', lengths', message') = b \o buf
      BY Zenon DEF NextField
  <2> HIDE DEF e, b
  <2>5. taken = (e \o (b \o buf)) \o << >>
      BY <2>1, <2>2, FieldComplete
  <2>6. taken' = (e \o Before(rstate', lengths', message')) \o buf'
      BY <2>4, <2>5, Zenon DEF NextField
  <2>7. rstate' \notin {"finished", "failed"}
      BY DEF NextField, Fields
  <2>8. QED
      BY <2>3, <2>6, <2>7 DEF ReaderTaken, e, Over
<1>3. QED
    BY <1>1, <1>2, Zenon DEF ReaderOK

LEMMA NewReaderOK ==
    ASSUME ReaderOK, NewReader \/ ReadMessage
    PROVE  ReaderOK'
<1>1. /\ rstate = "finished" /\ rstate' \in {"magic", "header"}
      /\ rstate' = "magic" => size' = 1
      /\ rstate' = "header" => size' = HeaderSize
      /\ buf' = << >> /\ lengths' = << >> /\ got' = got /\ taken' = taken
    BY DEF NewReader, ReadMessage, NextField, readerVars
<1>2. size' \in 0 .. TooLong + HeaderSize
    BY <1>1, HeaderSizeOK
<1>3. ReaderTypes'
    BY <1>1, <1>2, NoBytes, EmptySeq DEF ReaderOK, ReaderTypes, Fields
<1>4. ReaderSizes'
    BY <1>1 DEF ReaderSizes
<1>5. ReaderTaken'
  <2>1. taken = Encoded(got) /\ Encoded(got) \in ByteSeq
      BY <1>1, GotBytes DEF ReaderOK, ReaderTaken
  <2>2. (Encoded(got) \o << >>) \o << >> = Encoded(got)
      BY <2>1, NoBytes
  <2>3. Before(rstate', lengths', message') = << >>
      BY <1>1, BeforeFields
  <2>4. taken' = (Encoded(got') \o Before(rstate', lengths', message')) \o buf'
      BY <1>1, <2>1, <2>2, <2>3, Zenon
  <2>5. QED
      BY <1>1, <2>4 DEF ReaderTaken, Over
<1>6. QED
    BY <1>3, <1>4, <1>5 DEF ReaderOK

LEMMA ReadBytesOK ==
    ASSUME ReaderOK, StreamBytes, NEW n \in 1 .. Capacity, ReadBytes(n)
    PROVE  /\ ReaderOK' /\ StreamBytes'
           /\ taken' \o stream' = taken \o stream
<1> DEFINE piece == SubSeq(stream, 1, n)
           rest == SubSeq(stream, n + 1, Len(stream))
<1>1. /\ ~ Over(rstate) /\ n <= Len(stream) /\ Len(buf) + n <= size
      /\ buf' = buf \o piece /\ taken' = taken \o piece /\ stream' = rest
      /\ UNCHANGED <<rstate, size, lengths, message, got>>
    BY DEF ReadBytes
<1>2. stream \in ByteSeq /\ Len(stream) \in Nat /\ n \in 0 .. Len(stream)
    BY <1>1, NoBytes, ConstantsOK DEF StreamBytes
<1>3. /\ piece \in ByteSeq /\ Len(piece) = n
      /\ rest \in ByteSeq /\ Len(rest) = Len(stream) - n
      /\ piece \o rest = stream
    BY <1>2, Cut
<1> HIDE DEF piece, rest
<1>4. buf \in ByteSeq /\ taken \in ByteSeq /\ Len(buf) \in Nat
    BY NoBytes DEF ReaderOK, ReaderTypes
<1>5. /\ buf \o piece \in ByteSeq /\ Len(buf \o piece) = Len(buf) + n
      /\ taken \o piece \in ByteSeq
    BY <1>3, <1>4, Joined
<1>6. ReaderTypes'
    BY <1>1, <1>5 DEF ReaderOK, ReaderTypes
<1>7. ReaderSizes'
    BY <1>1 DEF ReaderOK, ReaderSizes
<1>8. ReaderTaken'
  <2> DEFINE e == Encoded(got) \o Before(rstate, lengths, message)
  <2>1. e \in ByteSeq
      BY <1>1, GotBytes, BeforeType, Joined DEF ReaderOK
  <2>2. taken = e \o buf
      BY <1>1 DEF ReaderOK, ReaderTaken
  <2>3. e' = e
      BY <1>1
  <2> HIDE DEF e
  <2>4. (e \o buf) \o piece = e \o (buf \o piece)
      BY <1>3, <1>4, <2>1, Regrouped, SMTT(40)
  <2>5. taken' = e' \o buf'
      BY <1>1, <2>2, <2>3, <2>4, Zenon
  <2>6. QED
      BY <1>1, <2>5 DEF ReaderTaken, e, Over
<1>9. StreamBytes'
  <2>1. Len(stream) - n <= Capacity
      BY <1>2, ConstantsOK DEF StreamBytes
  <2>2. QED
      BY <1>1, <1>3, <2>1, Zenon DEF StreamBytes
<1>10. (taken \o piece) \o rest = taken \o (piece \o rest)
    BY <1>3, <1>4, Regrouped, ZenonT(40)
<1>11. taken' \o stream' = taken \o stream
    BY <1>1, <1>3, <1>10, Zenon
<1>12. QED
    BY <1>6, <1>7, <1>8, <1>9, <1>11, Zenon DEF ReaderOK

(* A length field read, and the message.                                    *)
LEMMA FieldBytes ==
    ASSUME ReaderOK, Len(buf) = size
    PROVE  /\ rstate \in {"messageLength", "valueLength"} =>
                 /\ DecodeLength(buf) \in Lengths
                 /\ EncodeLength(DecodeLength(buf)) = buf
           /\ rstate = "valueLength" => lengths[1] \in Lengths
           /\ rstate \in {"message", "value"} =>
                 lengths[1] \in Lengths /\ lengths[2] \in Lengths
<1>1. rstate \in {"messageLength", "valueLength"} => buf \in LengthField
    BY LengthFieldBytes DEF ReaderOK, ReaderTypes, ReaderSizes
<1>2. \A i \in 1 .. Len(lengths) : lengths[i] \in Lengths
    BY ElementOfSeq DEF ReaderOK, ReaderTypes
<1>3. QED
    BY <1>1, <1>2, DecodeType, EncodeOfDecode DEF ReaderOK, ReaderSizes, Lengths

LEMMA MagicRead ==
    ASSUME ReaderOK, rstate = "magic", buf = <<Magic>>,
           NextField("messageLength", Digits), UNCHANGED <<lengths, message, got, taken>>
    PROVE  ReaderOK'
<1>1. Before("messageLength", lengths', message') = Before(rstate, lengths, message) \o buf
  <2>1. << >> \o <<Magic>> = <<Magic>>
      BY MagicByte, NoBytes
  <2>2. QED
      BY <2>1, BeforeFields, Zenon
<1>2. ReaderSizes'
    BY DEF ReaderSizes, NextField
<1>3. lengths' \in Seq(Lengths) /\ Digits \in 0 .. TooLong + HeaderSize
    BY HeaderSizeOK DEF ReaderOK, ReaderTypes
<1>4. QED
    BY <1>1, <1>2, <1>3, ReaderMoves DEF Over, Fields

LEMMA MessageLengthRead ==
    ASSUME ReaderOK, rstate = "messageLength", Len(buf) = size,
           lengths' = <<DecodeLength(buf)>>, NextField("valueLength", Digits),
           UNCHANGED <<message, got, taken>>
    PROVE  ReaderOK'
<1>1. DecodeLength(buf) \in Lengths /\ EncodeLength(DecodeLength(buf)) = buf
    BY FieldBytes
<1>2. lengths' \in Seq(Lengths) /\ Len(lengths') = 1 /\ lengths'[1] = DecodeLength(buf)
    BY <1>1
<1>3. Before("valueLength", lengths', message') = Before(rstate, lengths, message) \o buf
    BY <1>1, <1>2, BeforeFields, ZenonT(40)
<1>4. ReaderSizes'
    BY <1>2 DEF ReaderSizes, NextField
<1>5. QED
    BY <1>2, <1>3, <1>4, HeaderSizeOK, ReaderMoves DEF Over, Fields

LEMMA SecondLength ==
    ASSUME NEW ls \in Seq(Lengths), Len(ls) = 1, NEW l \in Lengths
    PROVE  /\ Append(ls, l) \in Seq(Lengths) /\ Len(Append(ls, l)) = 2
           /\ Append(ls, l)[1] = ls[1] /\ Append(ls, l)[2] = l
<1> DEFINE a == Append(ls, l)
<1>1. a \in Seq(Lengths) /\ Len(a) = Len(ls) + 1
    BY AppendProperties, ZenonT(40)
<1>2. a[Len(ls) + 1] = l /\ \A i \in 1 .. Len(ls) : a[i] = ls[i]
    BY AppendProperties, ZenonT(40)
<1> HIDE DEF a
<1>3. QED
    BY <1>1, <1>2 DEF a

LEMMA ValueLengthRead ==
    ASSUME ReaderOK, rstate = "valueLength", Len(buf) = size,
           lengths' = Append(lengths, DecodeLength(buf)), NextField("message", lengths[1]),
           UNCHANGED <<message, got, taken>>
    PROVE  ReaderOK'
<1>1. /\ DecodeLength(buf) \in Lengths /\ EncodeLength(DecodeLength(buf)) = buf
      /\ lengths[1] \in Lengths
    BY FieldBytes
<1>2. lengths \in Seq(Lengths) /\ Len(lengths) = 1
    BY DEF ReaderOK, ReaderTypes, ReaderSizes
<1>3. /\ lengths' \in Seq(Lengths) /\ Len(lengths') = 2
      /\ lengths'[1] = lengths[1] /\ lengths'[2] = DecodeLength(buf)
  <2> DEFINE l == DecodeLength(buf)
  <2>1. l \in Lengths /\ lengths' = Append(lengths, l)
      BY <1>1
  <2> HIDE DEF l
  <2>2. /\ Append(lengths, l) \in Seq(Lengths) /\ Len(Append(lengths, l)) = 2
        /\ Append(lengths, l)[1] = lengths[1] /\ Append(lengths, l)[2] = l
      BY <1>2, <2>1, SecondLength
  <2>3. QED
      BY <2>1, <2>2, Zenon DEF l
<1>4. Before("message", lengths', message') = Before(rstate, lengths, message) \o buf
  <2>1. /\ Before("message", lengths', message') = Header(lengths'[1], lengths'[2])
        /\ Before(rstate, lengths, message) = <<Magic>> \o EncodeLength(lengths[1])
      BY BeforeFields, Zenon
  <2>2. Header(lengths'[1], lengths'[2]) = (<<Magic>> \o EncodeLength(lengths[1])) \o buf
      BY <1>1, <1>3, Zenon DEF Header
  <2>3. QED
      BY <2>1, <2>2, Zenon
<1>5. ReaderSizes'
    BY <1>3 DEF ReaderSizes, NextField
<1>6. QED
    BY <1>1, <1>3, <1>4, <1>5, HeaderSizeOK, ReaderMoves DEF Over, Fields

LEMMA MessageBytesRead ==
    ASSUME ReaderOK, rstate = "message", Len(buf) = size, message' = buf,
           NextField("value", lengths[2]), UNCHANGED <<lengths, got, taken>>
    PROVE  ReaderOK'
<1>1. lengths[2] \in Lengths /\ lengths \in Seq(Lengths) /\ buf \in ByteSeq
    BY FieldBytes DEF ReaderOK, ReaderTypes
<1>2. Before("value", lengths', message') = Before(rstate, lengths, message) \o buf
    BY BeforeFields, Zenon
<1>3. ReaderSizes'
    BY <1>1 DEF ReaderOK, ReaderSizes, NextField
<1>4. QED
    BY <1>1, <1>2, <1>3, HeaderSizeOK, ReaderMoves DEF Over, Fields

(* The value is the last field: a packet has been read.                     *)
LEMMA ValueRead ==
    ASSUME ReaderOK, rstate = "value", Len(buf) = size, ParsesAsMessage(message),
           got' = Append(got, [message |-> message, value |-> buf]),
           rstate' = "finished", UNCHANGED <<size, buf, lengths, message, taken>>
    PROVE  ReaderOK'
<1> DEFINE p == [message |-> message, value |-> buf]
<1>1. /\ lengths[1] \in Lengths /\ lengths[2] \in Lengths
      /\ Len(message) = lengths[1] /\ Len(buf) = lengths[2]
      /\ message \in ByteSeq /\ buf \in ByteSeq
    BY FieldBytes DEF ReaderOK, ReaderTypes, ReaderSizes
<1>2. p \in Readable /\ p \in Framed
    BY <1>1, TooLongPositive DEF Readable, Framed, Short, Lengths
<1>3. got \in Seq(Readable) /\ got \in Seq(Framed) /\ got' \in Seq(Readable)
    BY <1>2, GotBytes, AppendProperties DEF ReaderOK, ReaderTypes
<1>4. Encoded(got') = Encoded(got) \o Encode(p) /\ Encoded(got) \in ByteSeq
    BY <1>2, <1>3, EncodedAppend, Zenon
<1> DEFINE b == Header(lengths[1], lengths[2]) \o message
<1>5. Encode(p) = b \o buf
  <2>1. Encode(p) = (Header(Len(p.message), Len(p.value)) \o p.message) \o p.value
      BY <1>2, EncodeParts, Zenon
  <2>2. p.message = message /\ p.value = buf
      OBVIOUS
  <2>3. QED
      BY <1>1, <2>1, <2>2, Zenon
<1>6. taken = (Encoded(got) \o b) \o buf
    BY BeforeFields, ZenonT(40) DEF ReaderOK, ReaderTaken, Over
<1>7. b \in ByteSeq
    BY <1>1, HeaderType, Joined
<1> HIDE DEF b, p
<1>8. taken = Encoded(got) \o (b \o buf)
    BY <1>1, <1>4, <1>6, <1>7, FieldComplete
<1>9. taken' = Encoded(got')
    BY <1>4, <1>5, <1>8, Zenon
<1>10. ReaderTypes'
    BY <1>3 DEF ReaderOK, ReaderTypes
<1>11. ReaderSizes'
    BY DEF ReaderSizes
<1>12. QED
    BY <1>9, <1>10, <1>11 DEF ReaderOK, ReaderTaken, Over

LEMMA FieldReadOK ==
    ASSUME ReaderOK, FieldRead
    PROVE  ReaderOK'
<1>1. Len(buf) = size /\ UNCHANGED taken
    BY DEF FieldRead
<1>2. CASE rstate = "magic" /\ buf = <<Magic>> /\ NextField("messageLength", Digits)
           /\ UNCHANGED <<lengths, message, got>>
    BY <1>1, <1>2, MagicRead
<1>3. CASE rstate = "messageLength" /\ lengths' = <<DecodeLength(buf)>>
           /\ NextField("valueLength", Digits) /\ UNCHANGED <<message, got>>
    BY <1>1, <1>3, MessageLengthRead
<1>4. CASE rstate = "valueLength" /\ lengths' = Append(lengths, DecodeLength(buf))
           /\ NextField("message", lengths[1]) /\ UNCHANGED <<message, got>>
    BY <1>1, <1>4, ValueLengthRead
<1>5. CASE rstate = "message" /\ message' = buf
           /\ NextField("value", lengths[2]) /\ UNCHANGED <<lengths, got>>
    BY <1>1, <1>5, MessageBytesRead
<1>6. CASE rstate = "value" /\ ParsesAsMessage(message)
           /\ got' = Append(got, [message |-> message, value |-> buf])
           /\ rstate' = "finished" /\ UNCHANGED <<size, buf, lengths, message>>
    BY <1>1, <1>6, ValueRead
<1>7. CASE rstate' = "failed" /\ UNCHANGED <<size, buf, lengths, message, got>>
    BY <1>1, <1>7, ReaderFails
<1>8. QED
    BY <1>2, <1>3, <1>4, <1>5, <1>6, <1>7 DEF FieldRead

(* The header of MessageStream, in one piece.                               *)
LEMMA WholeHeader ==
    ASSUME NEW s \in ByteSeq, Len(s) = HeaderSize, s[1] = Magic
    PROVE  LET m == DecodeLength(SubSeq(s, 2, 1 + Digits))
               v == DecodeLength(SubSeq(s, 2 + Digits, HeaderSize))
           IN m \in Lengths /\ v \in Lengths /\ s = Header(m, v)
<1> DEFINE a == SubSeq(s, 2, 1 + Digits)
           b == SubSeq(s, 2 + Digits, HeaderSize)
<1>1. /\ Digits \in Nat /\ Digits > 0 /\ HeaderSize = 1 + 2 * Digits
      /\ \A i \in 1 .. HeaderSize : s[i] \in Bytes
    BY ConstantsOK, ElementOfSeq DEF HeaderSize, ByteSeq
<1>2. a \in ByteSeq /\ Len(a) = Digits
  <2> DEFINE l == 1 + Digits
  <2>1. /\ \A i \in 2 .. l : s[i] \in Bytes
        /\ 2 \in Int /\ l \in Int /\ 2 <= l /\ l - 2 + 1 = Digits
      BY <1>1
  <2> HIDE DEF l
  <2>2. /\ SubSeq(s, 2, l) \in Seq(Bytes)
        /\ Len(SubSeq(s, 2, l)) = IF 2 <= l THEN l - 2 + 1 ELSE 0
      BY <2>1, SubSeqProperties, ZenonT(40)
  <2>3. QED
      BY <2>1, <2>2, Zenon DEF ByteSeq, l
<1>3. b \in ByteSeq /\ Len(b) = Digits
  <2> DEFINE k == 2 + Digits
             l == HeaderSize
  <2>1. /\ \A i \in k .. l : s[i] \in Bytes
        /\ k \in Int /\ l \in Int /\ k <= l /\ l - k + 1 = Digits
      BY <1>1
  <2> HIDE DEF k, l
  <2>2. /\ SubSeq(s, k, l) \in Seq(Bytes)
        /\ Len(SubSeq(s, k, l)) = IF k <= l THEN l - k + 1 ELSE 0
      BY <2>1, SubSeqProperties, Zenon
  <2>3. QED
      BY <2>1, <2>2, Zenon DEF ByteSeq, k, l
<1>4. SubSeq(s, 1, 1) = <<Magic>>
  <2>1. 1 \in 1 .. Len(s)
      BY <1>1
  <2>2. SubSeq(s, 1, 1) = <<s[1]>> \o SubSeq(s, 1 + 1, 1)
      BY <2>1, SubSeqRecursiveFirst DEF ByteSeq
  <2>3. SubSeq(s, 1 + 1, 1) = << >>
      BY SubSeqEmpty
  <2>4. <<Magic>> \o << >> = <<Magic>>
      BY MagicByte, NoBytes
  <2>5. QED
      BY <2>2, <2>3, <2>4, Zenon
<1>5. SubSeq(s, 1, 1) \o a = SubSeq(s, 1, 1 + Digits)
  <2>1. /\ 1 \in 1 .. Len(s) + 1 /\ 1 \in 1 - 1 .. Len(s) /\ 1 + Digits \in 1 .. Len(s)
        /\ 1 + 1 = 2
      BY <1>1
  <2>2. SubSeq(s, 1, 1) \o SubSeq(s, 1 + 1, 1 + Digits) = SubSeq(s, 1, 1 + Digits)
      BY <2>1, ConcatAdjacentSubSeq DEF ByteSeq
  <2>3. QED
      BY <2>1, <2>2, Zenon
<1>6. SubSeq(s, 1, 1 + Digits) \o b = s
  <2>1. /\ 1 + Digits \in 0 .. Len(s) /\ 1 + Digits + 1 = 2 + Digits
      BY <1>1
  <2>2. SubSeq(s, 1, 1 + Digits) \o SubSeq(s, 1 + Digits + 1, Len(s)) = s
      BY <2>1, Cut
  <2>3. QED
      BY <2>1, <2>2, Zenon
<1> HIDE DEF a, b
<1>7. a \in LengthField /\ b \in LengthField
    BY <1>2, <1>3, LengthFieldBytes
<1>8. s = (<<Magic>> \o a) \o b
    BY <1>4, <1>5, <1>6, Zenon
<1>9. /\ DecodeLength(a) \in Lengths /\ DecodeLength(b) \in Lengths
      /\ EncodeLength(DecodeLength(a)) = a /\ EncodeLength(DecodeLength(b)) = b
    BY <1>7, DecodeType, EncodeOfDecode DEF Lengths
<1>10. s = Header(DecodeLength(a), DecodeLength(b))
    BY <1>8, <1>9, Zenon DEF Header
<1>11. QED
    BY <1>9, <1>10, Zenon DEF a, b

LEMMA ReadHeaderOK ==
    ASSUME ReaderOK, ReadHeader
    PROVE  ReaderOK'
<1> DEFINE m == DecodeLength(SubSeq(buf, 2, 1 + Digits))
           v == DecodeLength(SubSeq(buf, 2 + Digits, HeaderSize))
<1>1. rstate = "header" /\ Len(buf) = size /\ UNCHANGED <<message, got, taken>>
    BY DEF ReadHeader
<1>2. CASE rstate' = "failed" /\ UNCHANGED <<size, buf, lengths>>
    BY <1>1, <1>2, ReaderFails
<1>3. CASE buf[1] = Magic /\ lengths' = <<m, v>> /\ NextField("message", m)
  <2>1. buf \in ByteSeq /\ Len(buf) = HeaderSize
      BY <1>1 DEF ReaderOK, ReaderTypes, ReaderSizes
  <2>2. m \in Lengths /\ v \in Lengths /\ buf = Header(m, v)
      BY <1>3, <2>1, WholeHeader, Zenon
  <2>3. lengths' = <<m, v>> /\ NextField("message", m)
      BY <1>3
  <2> HIDE DEF m, v
  <2>4. lengths' \in Seq(Lengths) /\ Len(lengths') = 2 /\ lengths'[1] = m /\ lengths'[2] = v
      BY <2>2, <2>3
  <2>5. Before("message", lengths', message') = Before(rstate, lengths, message) \o buf
    <3>1. << >> \o buf = buf
        BY <2>1, NoBytes
    <3>2. QED
        BY <1>1, <2>2, <2>4, <3>1, BeforeFields, Zenon
  <2>6. ReaderSizes'
      BY <2>3, <2>4 DEF ReaderSizes, NextField
  <2>7. QED
      BY <1>1, <2>2, <2>3, <2>4, <2>5, <2>6, HeaderSizeOK, ReaderMoves DEF Over, Fields
<1>4. QED
    BY <1>2, <1>3 DEF ReadHeader

LEMMA MessageReadOK ==
    ASSUME ReaderOK, MessageRead
    PROVE  ReaderOK'
<1>1. rstate = "message" /\ Len(buf) = size /\ UNCHANGED <<lengths, got, taken>>
    BY DEF MessageRead
<1>2. CASE rstate' = "failed" /\ UNCHANGED <<size, buf, message>>
    BY <1>1, <1>2, ReaderFails
<1>3. CASE message' = buf /\ NextField("value", lengths[2])
    BY <1>1, <1>3, MessageBytesRead
<1>4. QED
    BY <1>2, <1>3 DEF MessageRead

LEMMA ReaderRests ==
    ASSUME ReaderOK, UNCHANGED readerVars
    PROVE  ReaderOK'
BY DEF ReaderOK, ReaderTypes, ReaderSizes, ReaderTaken, Before, readerVars

(* A step of the reader's end.                                              *)
LEMMA ReadStepOK ==
    ASSUME ReaderOK, StreamBytes, StreamReadStep \/ ReadWaits
    PROVE  /\ ReaderOK' /\ StreamBytes'
           /\ taken' \o stream' = taken \o stream
           /\ UNCHANGED <<writerVars, closed, noise>>
<1>1. UNCHANGED <<writerVars, closed, noise>>
    BY DEF StreamReadStep, ReadWaits, NewReader, ReadMessage, ReadHeader, MessageRead,
           FieldRead, ReadFails, ReadBytes
<1>2. CASE \E n \in 1 .. Capacity : ReadBytes(n)
    BY <1>1, <1>2, ReadBytesOK
<1>3. CASE NewReader \/ ReadMessage
  <2>1. UNCHANGED <<taken, stream>>
      BY <1>3 DEF NewReader, ReadMessage
  <2>2. QED
      BY <1>1, <1>3, <2>1, NewReaderOK DEF StreamBytes
<1>4. CASE ReadHeader
  <2>1. UNCHANGED <<taken, stream>>
      BY <1>4 DEF ReadHeader
  <2>2. QED
      BY <1>1, <1>4, <2>1, ReadHeaderOK DEF StreamBytes
<1>5. CASE MessageRead
  <2>1. UNCHANGED <<taken, stream>>
      BY <1>5 DEF MessageRead
  <2>2. QED
      BY <1>1, <1>5, <2>1, MessageReadOK DEF StreamBytes
<1>6. CASE FieldRead
  <2>1. UNCHANGED <<taken, stream>>
      BY <1>6 DEF FieldRead
  <2>2. QED
      BY <1>1, <1>6, <2>1, FieldReadOK DEF StreamBytes
<1>7. CASE ReadFails
  <2>1. UNCHANGED <<taken, stream>>
      BY <1>7 DEF ReadFails
  <2>2. QED
      BY <1>1, <1>7, <2>1, ReaderFails DEF StreamBytes, ReadFails
<1>8. CASE ReadWaits
  <2>1. UNCHANGED <<size, buf, lengths, message, got, taken, stream>>
        /\ rstate' \in {rstate, "failed"}
      BY <1>8 DEF ReadWaits
  <2>2. ReaderOK'
    <3>1. CASE rstate' = "failed"
        BY <2>1, <3>1, ReaderFails
    <3>2. CASE rstate' = rstate
        BY <2>1, <3>2, ReaderRests DEF readerVars
    <3>3. QED
        BY <2>1, <3>1, <3>2
  <2>3. QED
      BY <1>1, <2>1, <2>2 DEF StreamBytes
<1>9. QED
    BY <1>2, <1>3, <1>4, <1>5, <1>6, <1>7, <1>8 DEF StreamReadStep

-----------------------------------------------------------------------------
(* The writer: as long as nobody else writes, what has been read and what   *)
(* is under way are the beginning of what the writer has announced, which   *)
(* is all of it up to the field it is at.  A writer that has failed was at  *)
(* some field, and a stream that is closed may have lost its bytes.         *)
Stages == Fields \cup {"header", "finished"}

ByteSize(p) == IF p.message = Unserializable THEN SizeWithoutRequired ELSE Len(p.message)

Upto(st, p) ==
    CASE st = "magic" -> <<Magic>>
      [] st = "messageLength" -> <<Magic>> \o EncodeLength(Len(p.message))
      [] st = "valueLength" -> Header(Len(p.message), Len(p.value))
      [] st = "header" -> Header(ByteSize(p), Len(p.value))
      [] st = "message" -> Header(Len(p.message), Len(p.value)) \o p.message
      [] st = "value" -> Encode(p)

Announced(st, ps) ==
    IF st = "finished" THEN Encoded(ps) ELSE Encoded(Front(ps)) \o Upto(st, Last(ps))

Serializes(p) == p.message # Unserializable

WriterOK ==
    /\ todo \in Seq(Packets) /\ begun \in Seq(Packets)
    /\ wstate \in Stages \cup {"failed"} /\ left \in ByteSeq
    /\ wstate = "finished" => left = << >>
    /\ wstate # "finished" => begun # << >>
    /\ \A i \in 1 .. Len(begun) :
          \/ Serializes(begun[i])
          \/ i = Len(begun) /\ wstate \in {"magic", "header", "failed"}

Sent(st, x) ==
    /\ st # "finished" => begun # << >>
    /\ begun # << >> => Serializes(Last(begun)) \/ st \in {"magic", "header"}
    /\ (taken \o stream) \o x = Announced(st, begun)
    /\ wstate # "failed" => st = wstate /\ (closed \/ x = left)

StreamOK == noise = 0 => \E st \in Stages : \E x \in ByteSeq : Sent(st, x)

LEMMA UptoFields ==
    ASSUME NEW p
    PROVE  /\ Upto("magic", p) = <<Magic>>
           /\ Upto("messageLength", p) = <<Magic>> \o EncodeLength(Len(p.message))
           /\ Upto("valueLength", p) = Header(Len(p.message), Len(p.value))
           /\ Upto("header", p) = Header(ByteSize(p), Len(p.value))
           /\ Upto("message", p) = Header(Len(p.message), Len(p.value)) \o p.message
           /\ Upto("value", p) = Encode(p)
BY DEF Upto

LEMMA ByteSizeOK ==
    ASSUME NEW p \in Packets
    PROVE  ByteSize(p) \in Lengths
BY PacketsOK, FramedLengths, SizeWithoutRequiredOK DEF ByteSize

LEMMA UptoType ==
    ASSUME NEW p \in Packets, NEW st \in Fields \cup {"header"},
           Serializes(p) \/ st \in {"magic", "header"}
    PROVE  Upto(st, p) \in ByteSeq
<1>1. CASE st = "magic"
    BY <1>1, UptoFields, MagicByte
<1>2. CASE st = "header"
    BY <1>2, UptoFields, ByteSizeOK, PacketsOK, HeaderType
<1>3. CASE st \notin {"magic", "header"}
  <2>1. /\ p \in Framed /\ Len(p.message) \in Lengths /\ Len(p.value) \in Lengths
        /\ p.message \in ByteSeq
      BY <1>3, PacketsOK, FramedLengths DEF Serializes
  <2>2. Header(Len(p.message), Len(p.value)) \in ByteSeq
      BY <2>1, HeaderType
  <2>3. CASE st = "messageLength"
      BY <2>1, <2>3, UptoFields, MagicByte, LengthBytes, Joined
  <2>4. CASE st = "valueLength"
      BY <2>2, <2>4, UptoFields
  <2>5. CASE st = "message"
    <3>1. Header(Len(p.message), Len(p.value)) \o p.message \in ByteSeq
        BY <2>1, <2>2, Joined
    <3>2. QED
        BY <2>5, <3>1, UptoFields
  <2>6. CASE st = "value"
      BY <2>1, <2>6, UptoFields, EncodeParts
  <2>7. QED
      BY <1>3, <2>3, <2>4, <2>5, <2>6 DEF Fields
<1>4. QED
    BY <1>1, <1>2, <1>3

(* All but the last of a sequence, and the last.                            *)
LEMMA FrontLast ==
    ASSUME NEW T, NEW ps \in Seq(T), ps # << >>
    PROVE  /\ Front(ps) \in Seq(T) /\ Last(ps) \in T /\ Len(Front(ps)) = Len(ps) - 1
           /\ \A i \in 1 .. Len(Front(ps)) : Front(ps)[i] = ps[i]
           /\ Last(ps) = ps[Len(ps)] /\ Len(ps) \in 1 .. Len(ps)
           /\ ps = Append(Front(ps), Last(ps))
<1> DEFINE n == Len(ps)
           f == SubSeq(ps, 1, n - 1)
<1>1. n \in Nat \ {0} /\ \A i \in 1 .. n : ps[i] \in T
    BY EmptySeq, ElementOfSeq
<1>2. n - 1 \in 0 .. n - 1 /\ n - 1 + 1 = n /\ n \in 1 .. n
    BY <1>1
<1>3. SubSeq(ps, 1, n) = Append(f, ps[n]) /\ f \in Seq(T)
    BY <1>2, FirstAndNext
<1>4. SubSeq(ps, 1, n) = ps
    BY SubSeqFull
<1>5. Len(f) = n - 1 /\ \A i \in 1 .. n - 1 : f[i] = ps[i]
  <2> DEFINE m == n - 1
  <2>1. 1 \in Int /\ m \in Nat /\ m \in Int /\ \A i \in 1 .. m : ps[i] \in T
      BY <1>1
  <2> HIDE DEF m
  <2>2. /\ Len(SubSeq(ps, 1, m)) = IF 1 <= m THEN m - 1 + 1 ELSE 0
        /\ \A i \in 1 .. m - 1 + 1 : SubSeq(ps, 1, m)[i] = ps[1 + i - 1]
      BY <2>1, SubSeqProperties
  <2> DEFINE g == SubSeq(ps, 1, m)
  <2>3. /\ Len(g) = IF 1 <= m THEN m - 1 + 1 ELSE 0
        /\ \A i \in 1 .. m - 1 + 1 : g[i] = ps[1 + i - 1]
      BY <2>2
  <2> HIDE DEF g
  <2>4. Len(g) = m /\ \A i \in 1 .. m : g[i] = ps[i]
    <3>1. Len(g) = m
        BY <2>1, <2>3
    <3>2. ASSUME NEW i \in 1 .. m PROVE g[i] = ps[i]
      <4>1. i \in 1 .. m - 1 + 1 /\ 1 + i - 1 = i
          BY <2>1
      <4>2. QED
          BY <2>3, <4>1
    <3>3. QED
        BY <3>1, <3>2
  <2>5. QED
      BY <2>4, Zenon DEF g, m
<1>6. Front(ps) = f /\ Last(ps) = ps[n]
    BY DEF Front, Last
<1> HIDE DEF f, n
<1>7. QED
    BY <1>1, <1>2, <1>3, <1>4, <1>5, <1>6, Zenon DEF n

LEMMA FrontOfAppend ==
    ASSUME NEW T, NEW ps \in Seq(T), NEW p \in T
    PROVE  /\ Front(Append(ps, p)) = ps /\ Last(Append(ps, p)) = p
           /\ Append(ps, p) \in Seq(T) /\ Append(ps, p) # << >>
           /\ Len(Append(ps, p)) = Len(ps) + 1
           /\ \A i \in 1 .. Len(ps) : Append(ps, p)[i] = ps[i]
<1> DEFINE qs == Append(ps, p)
<1>1. /\ qs \in Seq(T) /\ qs # << >> /\ Len(qs) = Len(ps) + 1 /\ Len(ps) \in Nat
      /\ qs[Len(ps) + 1] = p /\ \A i \in 1 .. Len(ps) : qs[i] = ps[i]
    BY AppendProperties, LenProperties
<1>2. Len(qs) \in Nat /\ Len(qs) - 1 = Len(ps)
    BY <1>1
<1>3. /\ Front(qs) \in Seq(T) /\ Last(qs) = p /\ Len(Front(qs)) = Len(ps)
      /\ \A i \in 1 .. Len(Front(qs)) : Front(qs)[i] = qs[i]
    BY <1>1, <1>2, FrontLast
<1>4. Front(qs) = ps
    BY <1>1, <1>3, SeqEqual
<1>5. QED
    BY <1>1, <1>3, <1>4, Zenon

LEMMA SeqOfElements ==
    ASSUME NEW S, NEW T, NEW s \in Seq(S), \A i \in 1 .. Len(s) : s[i] \in T
    PROVE  s \in Seq(T)
<1>1. Len(s) \in Nat /\ s \in [1 .. Len(s) -> S]
    BY LenProperties
<1>2. s \in [1 .. Len(s) -> T]
    BY <1>1
<1>3. QED
    BY <1>1, <1>2, SeqDef

(* All the packets but the last can be framed, and often the last too.      *)
LEMMA BegunFramed ==
    ASSUME WriterOK
    PROVE  /\ begun # << >> => Front(begun) \in Seq(Framed) /\ Last(begun) \in Packets
           /\ begun = << >> \/ Serializes(Last(begun)) => begun \in Seq(Framed)
           /\ wstate \notin {"magic", "header", "failed"} /\ begun # << >>
                 => Serializes(Last(begun))
<1>1. /\ begun \in Seq(Packets) /\ Len(begun) \in Nat
      /\ \A i \in 1 .. Len(begun) : begun[i] \in Packets
    BY LenProperties, ElementOfSeq DEF WriterOK
<1>2. \A i \in 1 .. Len(begun) : Serializes(begun[i]) => begun[i] \in Framed
    BY <1>1, PacketsOK DEF Serializes
<1>3. \A i \in 1 .. Len(begun) : i # Len(begun) => begun[i] \in Framed
    BY <1>2 DEF WriterOK
<1>4. CASE begun = << >>
    BY <1>4, EmptySeq
<1>5. CASE begun # << >>
  <2>1. /\ Front(begun) \in Seq(Packets) /\ Last(begun) \in Packets
        /\ Len(Front(begun)) = Len(begun) - 1
        /\ \A i \in 1 .. Len(Front(begun)) : Front(begun)[i] = begun[i]
        /\ Last(begun) = begun[Len(begun)] /\ Len(begun) \in 1 .. Len(begun)
      BY <1>1, <1>5, FrontLast
  <2>2. \A i \in 1 .. Len(Front(begun)) : Front(begun)[i] \in Framed
      BY <1>1, <1>3, <2>1
  <2>3. Front(begun) \in Seq(Framed)
      BY <2>1, <2>2, SeqOfElements
  <2>4. Serializes(Last(begun)) => \A i \in 1 .. Len(begun) : begun[i] \in Framed
      BY <1>2, <1>3, <2>1
  <2>5. Serializes(Last(begun)) => begun \in Seq(Framed)
      BY <1>1, <2>4, SeqOfElements
  <2>6. wstate \notin {"magic", "header", "failed"} => Serializes(Last(begun))
      BY <2>1 DEF WriterOK
  <2>7. QED
      BY <1>5, <2>1, <2>3, <2>5, <2>6
<1>6. QED
    BY <1>4, <1>5

LEMMA AnnouncedType ==
    ASSUME WriterOK, NEW st \in Stages, st # "finished" => begun # << >>,
           begun # << >> => Serializes(Last(begun)) \/ st \in {"magic", "header"}
    PROVE  Announced(st, begun) \in ByteSeq
<1>1. CASE st = "finished"
    BY <1>1, BegunFramed, EncodedType DEF Announced
<1>2. CASE st # "finished"
  <2>1. Front(begun) \in Seq(Framed) /\ Last(begun) \in Packets /\ st \in Fields \cup {"header"}
      BY <1>2, BegunFramed DEF Stages
  <2>2. Upto(st, Last(begun)) \in ByteSeq
      BY <1>2, <2>1, UptoType
  <2>3. Encoded(Front(begun)) \in ByteSeq
      BY <2>1, EncodedType
  <2>4. Encoded(Front(begun)) \o Upto(st, Last(begun)) \in ByteSeq
      BY <2>2, <2>3, Joined
  <2>5. QED
      BY <1>2, <2>4 DEF Announced
<1>3. QED
    BY <1>1, <1>2

(* The writer announces more.                                               *)
LEMMA AnnouncesMore ==
    ASSUME StreamOK, wstate # "failed", left = << >>,
           taken \in ByteSeq, stream \in ByteSeq,
           NEW st \in Stages, wstate' = st, left' \in ByteSeq,
           UNCHANGED <<taken, stream, closed, noise>>,
           st # "finished" => begun' # << >>,
           begun' # << >> => Serializes(Last(begun')) \/ st \in {"magic", "header"},
           Announced(st, begun') = Announced(wstate, begun) \o left'
    PROVE  StreamOK'
<1> SUFFICES ASSUME noise' = 0
             PROVE  \E x \in ByteSeq : Sent(st, x)'
    BY DEF StreamOK
<1>1. PICK st0 \in Stages, x \in ByteSeq : Sent(st0, x)
    BY DEF StreamOK
<1>2. st0 = wstate /\ (closed \/ x = << >>) /\ (taken \o stream) \o x = Announced(wstate, begun)
    BY <1>1 DEF Sent
<1> DEFINE ts == taken \o stream
           b == left'
           y == x \o b
<1>3. ts \in ByteSeq /\ b \in ByteSeq /\ y \in ByteSeq
    BY <1>1, Joined
<1>4. b = left' /\ y = x \o b /\ ts = taken \o stream
    OBVIOUS
<1> HIDE DEF ts, b, y
<1>5. (ts \o x) \o b = ts \o (x \o b)
    BY <1>1, <1>3, Regrouped, SMTT(40)
<1>6. ts \o y = Announced(st, begun')
    BY <1>2, <1>4, <1>5, Zenon
<1>7. (taken' \o stream') \o y = Announced(st, begun')
    BY <1>4, <1>6, Zenon
<1>8. closed' \/ y = left'
  <2>1. << >> \o b = b
      BY <1>3, NoBytes
  <2>2. QED
      BY <1>2, <1>4, <2>1
<1>9. PICK z \in ByteSeq : /\ (taken' \o stream') \o z = Announced(st, begun')
                           /\ closed' \/ z = left'
    BY <1>3, <1>7, <1>8, Zenon
<1>10. Sent(st, z)'
    BY <1>9, Zenon DEF Sent
<1>11. QED
    BY <1>9, <1>10

(* A packet is begun, with its magic byte or its whole header.              *)
LEMMA BeginsPacket ==
    ASSUME WriterOK, StreamOK, taken \in ByteSeq, stream \in ByteSeq,
           wstate = "finished", todo # << >>, NEW st \in {"magic", "header"},
           wstate' = st, left' = Upto(st, Head(todo)),
           begun' = Append(begun, Head(todo)), todo' = Tail(todo),
           UNCHANGED <<taken, stream, closed, noise>>
    PROVE  WriterOK' /\ StreamOK'
<1> DEFINE p == Head(todo)
<1>1. /\ p \in Packets /\ todo' \in Seq(Packets)
      /\ begun \in Seq(Packets) /\ left = << >> /\ st \in Stages
    BY HeadTailProperties DEF WriterOK, Stages, Fields
<1> HIDE DEF p
<1>2. /\ Front(begun') = begun /\ Last(begun') = p
      /\ begun' \in Seq(Packets) /\ begun' # << >> /\ Len(begun') = Len(begun) + 1
      /\ \A i \in 1 .. Len(begun) : begun'[i] = begun[i]
    BY <1>1, FrontOfAppend, Zenon DEF p
<1>3. left' = Upto(st, p) /\ left' \in ByteSeq
  <2>1. left' = Upto(st, p) /\ st \in Fields \cup {"header"}
      BY DEF p, Fields
  <2>2. Upto(st, p) \in ByteSeq
      BY <1>1, <2>1, UptoType
  <2>3. QED
      BY <2>1, <2>2
<1>4. Announced(st, begun') = Announced(wstate, begun) \o left'
    BY <1>2, <1>3, Zenon DEF Announced
<1>5. StreamOK'
  <2>1. wstate # "failed"
      OBVIOUS
  <2>2. QED
      BY <1>1, <1>2, <1>3, <1>4, <2>1, AnnouncesMore
<1>6. \A i \in 1 .. Len(begun') : Serializes(begun'[i]) \/ i = Len(begun')
  <2>1. Len(begun) \in Nat
      BY <1>1, LenProperties
  <2>2. \A i \in 1 .. Len(begun') : i # Len(begun') => i \in 1 .. Len(begun)
      BY <1>2, <2>1
  <2>3. \A i \in 1 .. Len(begun) : Serializes(begun[i])
      BY DEF WriterOK
  <2>4. QED
      BY <1>2, <2>2, <2>3
<1>7. WriterOK'
    BY <1>1, <1>2, <1>3, <1>6 DEF WriterOK
<1>8. QED
    BY <1>5, <1>7

(* A field is written, and the packet can be.                               *)
LEMMA NextFieldBegins ==
    ASSUME WriterOK, StreamOK, taken \in ByteSeq, stream \in ByteSeq,
           wstate \in Fields \cup {"header"}, left = << >>, Serializes(Last(begun)),
           NEW st \in Stages \ {"magic", "header", "finished"},
           wstate' = st, left' \in ByteSeq,
           Upto(st, Last(begun)) = Upto(wstate, Last(begun)) \o left',
           UNCHANGED <<todo, begun, taken, stream, closed, noise>>
    PROVE  WriterOK' /\ StreamOK'
<1>1. begun # << >> /\ begun \in Seq(Packets)
    BY DEF WriterOK, Fields
<1>2. Front(begun) \in Seq(Framed) /\ Last(begun) \in Packets
    BY <1>1, BegunFramed
<1> DEFINE e == Encoded(Front(begun))
           u == Upto(wstate, Last(begun))
           b == left'
<1>3. e \in ByteSeq /\ u \in ByteSeq /\ b \in ByteSeq
    BY <1>2, EncodedType, UptoType
<1>4. Announced(st, begun) = e \o (u \o b) /\ Announced(wstate, begun) = e \o u
    BY Zenon DEF Announced, Fields
<1>5. b = left'
    OBVIOUS
<1> HIDE DEF e, u, b
<1>6. (e \o u) \o b = e \o (u \o b)
    BY <1>3, Regrouped, SMTT(40)
<1>7. Announced(st, begun') = Announced(wstate, begun) \o left'
    BY <1>4, <1>5, <1>6, Zenon
<1>8. StreamOK'
  <2>1. wstate # "failed" /\ st \in Stages /\ begun' # << >> /\ Serializes(Last(begun'))
      BY <1>1 DEF Fields
  <2>2. QED
      BY <1>7, <2>1, AnnouncesMore
<1>9. \A i \in 1 .. Len(begun) : Serializes(begun[i])
    BY DEF WriterOK, Last
<1>10. WriterOK'
    BY <1>1, <1>9 DEF WriterOK, Stages
<1>11. QED
    BY <1>8, <1>10

LEMMA ValueWritten ==
    ASSUME WriterOK, StreamOK, taken \in ByteSeq, stream \in ByteSeq,
           wstate = "value", left = << >>, TransitionTo("finished", << >>),
           UNCHANGED <<todo, begun, taken, stream, closed, noise>>
    PROVE  WriterOK' /\ StreamOK'
<1>1. begun # << >> /\ Serializes(Last(begun)) /\ begun \in Seq(Packets)
    BY BegunFramed DEF WriterOK
<1>2. Front(begun) \in Seq(Framed) /\ begun \in Seq(Framed)
    BY <1>1, BegunFramed
<1>3. Last(begun) \in Framed /\ begun = Append(Front(begun), Last(begun))
    BY <1>1, <1>2, FrontLast
<1>4. Encoded(begun) = Encoded(Front(begun)) \o Encode(Last(begun)) /\ Encoded(begun) \in ByteSeq
  <2> DEFINE f == Front(begun)
             p == Last(begun)
  <2>1. f \in Seq(Framed) /\ p \in Framed /\ begun = Append(f, p)
      BY <1>2, <1>3
  <2> HIDE DEF f, p
  <2>2. Encoded(Append(f, p)) = Encoded(f) \o Encode(p)
      BY <2>1, EncodedAppend
  <2>3. QED
      BY <1>2, <2>1, <2>2, EncodedType, Zenon DEF f, p
<1>5. Announced("finished", begun) = Encoded(begun) /\ Announced("value", begun) = Encoded(begun)
    BY <1>4, UptoFields, Zenon DEF Announced
<1>6. left' = << >> /\ wstate' = "finished" /\ "finished" \in Stages
    BY DEF TransitionTo, Stages
<1>7. Encoded(begun) \o << >> = Encoded(begun)
    BY <1>4, NoBytes
<1>8. Announced("finished", begun') = Announced(wstate, begun) \o left'
    BY <1>5, <1>6, <1>7, Zenon
<1>9. StreamOK'
  <2>1. wstate # "failed" /\ left' \in ByteSeq /\ Serializes(Last(begun'))
      BY <1>1, <1>6, NoBytes
  <2>2. QED
      BY <1>6, <1>8, <2>1, AnnouncesMore
<1>10. \A i \in 1 .. Len(begun) : Serializes(begun[i])
    BY DEF WriterOK
<1>11. WriterOK'
    BY <1>1, <1>6, <1>10, NoBytes DEF WriterOK, Stages
<1>12. QED
    BY <1>9, <1>11

LEMMA WriterFails ==
    ASSUME WriterOK, StreamOK, ~ Over(wstate), wstate' = "failed",
           UNCHANGED <<todo, begun, left, taken, stream, closed, noise>>
    PROVE  WriterOK' /\ StreamOK'
<1>1. begun # << >>
    BY DEF WriterOK, Over
<1>2. WriterOK'
    BY <1>1 DEF WriterOK
<1>3. StreamOK'
  <2> SUFFICES ASSUME noise' = 0
               PROVE  \E st \in Stages : \E x \in ByteSeq : Sent(st, x)'
      BY DEF StreamOK
  <2>1. PICK st \in Stages, x \in ByteSeq : Sent(st, x)
      BY DEF StreamOK
  <2>2. Sent(st, x)'
      BY <2>1 DEF Sent
  <2>3. QED
      BY <2>1, <2>2
<1>4. QED
    BY <1>2, <1>3

LEMMA WriteBytesOK ==
    ASSUME WriterOK, StreamBytes, StreamOK, taken \in ByteSeq,
           NEW n \in 1 .. Capacity, WriteBytes(n)
    PROVE  WriterOK' /\ StreamBytes' /\ StreamOK'
<1> DEFINE piece == SubSeq(left, 1, n)
           rest == SubSeq(left, n + 1, Len(left))
<1>1. /\ ~ Over(wstate) /\ ~ closed /\ n <= Len(left) /\ Len(stream) + n <= Capacity
      /\ stream' = stream \o piece /\ left' = rest
      /\ UNCHANGED <<todo, begun, wstate, taken, closed, noise>>
    BY DEF WriteBytes, readerVars
<1>2. /\ left \in ByteSeq /\ stream \in ByteSeq /\ Len(left) \in Nat /\ Len(stream) \in Nat
      /\ n \in 0 .. Len(left)
    BY <1>1, NoBytes, ConstantsOK DEF WriterOK, StreamBytes
<1>3. /\ piece \in ByteSeq /\ Len(piece) = n /\ rest \in ByteSeq
      /\ piece \o rest = left
    BY <1>2, Cut
<1> HIDE DEF piece, rest
<1>4. stream \o piece \in ByteSeq /\ Len(stream \o piece) = Len(stream) + n
    BY <1>2, <1>3, Joined
<1>5. StreamBytes'
    BY <1>1, <1>4 DEF StreamBytes
<1>6. WriterOK'
    BY <1>1, <1>3 DEF WriterOK, Over
<1>7. StreamOK'
  <2> SUFFICES ASSUME noise' = 0
               PROVE  \E st \in Stages : \E x \in ByteSeq : Sent(st, x)'
      BY DEF StreamOK
  <2>1. PICK st \in Stages, x \in ByteSeq : Sent(st, x)
      BY <1>1 DEF StreamOK
  <2>2. x = left /\ st = wstate
      BY <1>1, <2>1 DEF Sent, Over
  <2>3. (taken \o stream) \o left = (taken \o (stream \o piece)) \o rest
    <3> DEFINE ts == taken \o stream
    <3>1. ts \in ByteSeq
        BY <1>2, Joined
    <3>2. ts \o piece = taken \o (stream \o piece)
        BY <1>2, <1>3, Regrouped, ZenonT(40)
    <3> HIDE DEF ts
    <3>3. (ts \o piece) \o rest = ts \o (piece \o rest)
        BY <1>3, <3>1, Regrouped, ZenonT(40)
    <3>4. QED
        BY <1>3, <3>2, <3>3, Zenon DEF ts
  <2>4. PICK y \in ByteSeq : y = rest
      BY <1>3
  <2>5. (taken' \o stream') \o y = Announced(st, begun')
    <3>1. (taken \o stream) \o left = Announced(st, begun)
        BY <2>1, <2>2, Zenon DEF Sent
    <3>2. (taken' \o stream') \o y = (taken \o (stream \o piece)) \o rest
        BY <1>1, <2>4, Zenon
    <3>3. begun' = begun
        BY <1>1
    <3>4. QED
        BY <2>3, <3>1, <3>2, <3>3, Zenon
  <2>6. Sent(st, y)'
    <3>1. /\ st # "finished" => begun' # << >>
          /\ begun' # << >> => Serializes(Last(begun')) \/ st \in {"magic", "header"}
        BY <1>1, <2>1 DEF Sent
    <3>2. st = wstate' /\ y = left'
        BY <1>1, <2>2, <2>4
    <3>3. QED
        BY <2>5, <3>1, <3>2, Zenon DEF Sent
  <2>7. QED
      BY <2>1, <2>4, <2>6
<1>8. QED
    BY <1>5, <1>6, <1>7

LEMMA FieldWrittenOK ==
    ASSUME WriterOK, StreamOK, taken \in ByteSeq, stream \in ByteSeq,
           FieldWritten \/ HeaderWritten
    PROVE  WriterOK' /\ StreamOK'
<1> DEFINE p == Last(begun)
<1>1. left = << >> /\ UNCHANGED <<todo, begun, taken, stream, closed, noise>>
    BY DEF FieldWritten, HeaderWritten, readerVars
<1>2. CASE wstate \in {"magic", "header"} /\ wstate' = "failed" /\ UNCHANGED left
    BY <1>1, <1>2, WriterFails DEF Over
<1>3. wstate \in {"messageLength", "valueLength", "message", "value"} =>
          begun # << >> /\ Serializes(p) /\ p \in Packets
    BY BegunFramed DEF WriterOK
<1>4. begun # << >> /\ Serializes(p) =>
          /\ p \in Framed /\ Len(p.message) \in Lengths /\ Len(p.value) \in Lengths
          /\ p.message \in ByteSeq /\ p.value \in ByteSeq
    BY BegunFramed, PacketsOK, FramedLengths DEF Serializes
<1>5. wstate \in {"magic", "header"} => begun # << >>
    BY DEF WriterOK
<1> HIDE DEF p
<1>6. CASE wstate = "magic" /\ Serializes(p)
           /\ TransitionTo("messageLength", EncodeLength(Len(p.message)))
  <2>1. left' \in ByteSeq /\ left' = EncodeLength(Len(p.message)) /\ wstate' = "messageLength"
      BY <1>4, <1>5, <1>6, LengthBytes DEF TransitionTo
  <2>2. Upto("messageLength", p) = Upto(wstate, p) \o left'
      BY <1>6, <2>1, UptoFields, Zenon
  <2>3. QED
      BY <1>1, <1>6, <2>1, <2>2, NextFieldBegins DEF p, Fields, Stages
<1>7. CASE wstate = "messageLength" /\ TransitionTo("valueLength", EncodeLength(Len(p.value)))
  <2>1. left' \in ByteSeq /\ left' = EncodeLength(Len(p.value)) /\ wstate' = "valueLength"
      BY <1>3, <1>4, <1>7, LengthBytes DEF TransitionTo
  <2>2. Upto("valueLength", p) = Upto(wstate, p) \o left'
      BY <1>7, <2>1, UptoFields, Zenon DEF Header
  <2>3. QED
      BY <1>1, <1>3, <1>7, <2>1, <2>2, NextFieldBegins DEF p, Fields, Stages
<1>8. CASE wstate = "valueLength" /\ TransitionTo("message", p.message)
  <2>1. left' \in ByteSeq /\ left' = p.message /\ wstate' = "message"
      BY <1>3, <1>4, <1>8 DEF TransitionTo
  <2>2. Upto("message", p) = Upto(wstate, p) \o left'
      BY <1>8, <2>1, UptoFields, Zenon
  <2>3. QED
      BY <1>1, <1>3, <1>8, <2>1, <2>2, NextFieldBegins DEF p, Fields, Stages
<1>9. CASE wstate = "header" /\ Serializes(p) /\ TransitionTo("message", p.message)
  <2>1. left' \in ByteSeq /\ left' = p.message /\ wstate' = "message"
      BY <1>4, <1>5, <1>9 DEF TransitionTo
  <2>2. ByteSize(p) = Len(p.message)
      BY <1>9 DEF ByteSize, Serializes
  <2>3. Upto("message", p) = Upto(wstate, p) \o left'
      BY <1>9, <2>1, <2>2, UptoFields, Zenon
  <2>4. QED
      BY <1>1, <1>9, <2>1, <2>3, NextFieldBegins DEF p, Fields, Stages
<1>10. CASE wstate = "message" /\ TransitionTo("value", p.value)
  <2>1. left' \in ByteSeq /\ left' = p.value /\ wstate' = "value"
      BY <1>3, <1>4, <1>10 DEF TransitionTo
  <2>2. Encode(p) = (Header(Len(p.message), Len(p.value)) \o p.message) \o p.value
      BY <1>3, <1>4, <1>10, EncodeParts
  <2>3. Upto("value", p) = Upto(wstate, p) \o left'
      BY <1>10, <2>1, <2>2, UptoFields, Zenon
  <2>4. QED
      BY <1>1, <1>3, <1>10, <2>1, <2>3, NextFieldBegins DEF p, Fields, Stages
<1>11. CASE wstate = "value" /\ TransitionTo("finished", << >>)
    BY <1>1, <1>11, ValueWritten
<1>12. QED
    BY <1>2, <1>6, <1>7, <1>8, <1>9, <1>10, <1>11
    DEF FieldWritten, HeaderWritten, Serializes, p

LEMMA PacketBegun ==
    ASSUME WriterOK, StreamOK, taken \in ByteSeq, stream \in ByteSeq,
           NewWriter \/ WriteHeader
    PROVE  WriterOK' /\ StreamOK'
<1> DEFINE p == Head(todo)
<1>1. /\ wstate = "finished" /\ todo # << >>
      /\ begun' = Append(begun, Head(todo)) /\ todo' = Tail(todo)
      /\ UNCHANGED <<taken, stream, closed, noise>>
    BY DEF NewWriter, WriteHeader, readerVars
<1>2. CASE NewWriter
  <2>1. wstate' = "magic" /\ left' = <<Magic>>
      BY <1>2 DEF NewWriter
  <2>2. left' = Upto("magic", Head(todo))
      BY <2>1, UptoFields, Zenon
  <2>3. QED
      BY <1>1, <2>1, <2>2, BeginsPacket
<1>3. CASE WriteHeader
  <2>1. /\ wstate' = "header"
        /\ left' = <<Magic>> \o EncodeLength(ByteSize(p)) \o EncodeLength(Len(p.value))
      BY <1>3, Zenon DEF WriteHeader, TransitionTo, ByteSize
  <2>2. left' = Upto("header", Head(todo))
      BY <2>1, UptoFields, Zenon DEF Header
  <2>3. QED
      BY <1>1, <2>1, <2>2, BeginsPacket
<1>4. QED
    BY <1>2, <1>3

(* A step of another: what has been read and what is under way are still    *)
(* the same bytes, or fewer of them once the stream is closed.              *)
LEMMA WriterRests ==
    ASSUME WriterOK, UNCHANGED writerVars
    PROVE  WriterOK'
BY DEF WriterOK, writerVars

LEMMA StreamRests ==
    ASSUME StreamOK, UNCHANGED <<writerVars, closed, noise>>,
           taken' \o stream' = taken \o stream
    PROVE  StreamOK'
<1> SUFFICES ASSUME noise' = 0
             PROVE  \E st \in Stages : \E x \in ByteSeq : Sent(st, x)'
    BY DEF StreamOK
<1>1. PICK st \in Stages, x \in ByteSeq : Sent(st, x)
    BY DEF StreamOK
<1>2. begun' = begun /\ wstate' = wstate /\ left' = left /\ closed' = closed
    BY DEF writerVars
<1>3. (taken' \o stream') \o x = Announced(st, begun')
    BY <1>1, <1>2, Zenon DEF Sent
<1>4. Sent(st, x)'
    BY <1>1, <1>2, <1>3 DEF Sent
<1>5. QED
    BY <1>1, <1>4

LEMMA CloseOK ==
    ASSUME ReaderTypes, StreamBytes, StreamOK, Close
    PROVE  StreamBytes' /\ StreamOK'
<1>1. /\ closed' /\ stream' \in {stream, << >>}
      /\ UNCHANGED <<writerVars, taken, noise>>
    BY DEF Close, readerVars
<1>2. taken \in ByteSeq /\ stream \in ByteSeq /\ << >> \in ByteSeq
    BY NoBytes DEF ReaderTypes, StreamBytes
<1>3. StreamBytes'
    BY <1>1, <1>2, ConstantsOK DEF StreamBytes
<1>4. StreamOK'
  <2> SUFFICES ASSUME noise' = 0
               PROVE  \E st \in Stages : \E x \in ByteSeq : Sent(st, x)'
      BY DEF StreamOK
  <2>1. PICK st \in Stages, x \in ByteSeq : Sent(st, x)
      BY <1>1 DEF StreamOK
  <2>2. PICK y \in ByteSeq : (taken \o stream') \o y = (taken \o stream) \o x
    <3>1. CASE stream' = stream
        BY <2>1, <3>1
    <3>2. CASE stream' = << >>
      <4>1. stream \o x \in ByteSeq
          BY <1>2, <2>1, Joined
      <4>2. taken \o << >> = taken
          BY <1>2, NoBytes
      <4>3. (taken \o stream) \o x = taken \o (stream \o x)
          BY <1>2, <2>1, Regrouped, SMTT(40)
      <4>4. QED
          BY <3>2, <4>1, <4>2, <4>3, Zenon
    <3>3. QED
        BY <1>1, <3>1, <3>2
  <2>3. begun' = begun /\ wstate' = wstate /\ taken' = taken
      BY <1>1 DEF writerVars
  <2>4. (taken' \o stream') \o y = Announced(st, begun')
      BY <2>1, <2>2, <2>3, Zenon DEF Sent
  <2>5. Sent(st, y)'
      BY <1>1, <2>1, <2>3, <2>4 DEF Sent
  <2>6. QED
      BY <2>1, <2>2, <2>5
<1>5. QED
    BY <1>3, <1>4

LEMMA NoiseOK ==
    ASSUME StreamBytes, noise \in Nat, Noise
    PROVE  StreamBytes' /\ StreamOK'
<1>1. noise' = noise + 1 /\ Len(stream) < Capacity
    BY DEF Noise
<1>2. PICK b \in Bytes : stream' = Append(stream, b)
    BY DEF Noise
<1>3. stream' \in ByteSeq /\ Len(stream') = Len(stream) + 1
    BY <1>2, AppendProperties DEF StreamBytes, ByteSeq
<1>4. StreamBytes'
    BY <1>1, <1>3, NoBytes, ConstantsOK DEF StreamBytes
<1>5. QED
    BY <1>1, <1>4 DEF StreamOK

(* A step of the writer's end.                                              *)
LEMMA WriteStepOK ==
    ASSUME ReaderTypes, WriterOK, StreamBytes, StreamOK, StreamWriteStep \/ WriteWaits
    PROVE  /\ WriterOK' /\ StreamBytes' /\ StreamOK'
           /\ UNCHANGED <<readerVars, closed, noise>>
<1>1. UNCHANGED <<readerVars, closed, noise>>
    BY DEF StreamWriteStep, WriteWaits, NewWriter, WriteHeader, HeaderWritten,
           FieldWritten, WriteFails, WriteBytes
<1>2. taken \in ByteSeq /\ stream \in ByteSeq
    BY DEF ReaderTypes, StreamBytes
<1>3. CASE NewWriter \/ WriteHeader
  <2>1. UNCHANGED stream
      BY <1>3 DEF NewWriter, WriteHeader
  <2>2. QED
      BY <1>1, <1>2, <1>3, <2>1, PacketBegun DEF StreamBytes
<1>4. CASE HeaderWritten \/ FieldWritten
  <2>1. UNCHANGED stream
      BY <1>4 DEF HeaderWritten, FieldWritten
  <2>2. QED
      BY <1>1, <1>2, <1>4, <2>1, FieldWrittenOK DEF StreamBytes
<1>5. CASE WriteFails \/ WriteWaits
  <2>1. /\ UNCHANGED <<todo, begun, left, taken, stream, closed, noise>>
        /\ ~ Over(wstate) /\ wstate' \in {wstate, "failed"}
      BY <1>5 DEF WriteFails, WriteWaits, readerVars
  <2>2. CASE wstate' = "failed"
      BY <1>1, <2>1, <2>2, WriterFails DEF StreamBytes
  <2>3. CASE wstate' = wstate
    <3>1. UNCHANGED <<writerVars, closed, noise>> /\ taken' \o stream' = taken \o stream
        BY <2>1, <2>3 DEF writerVars
    <3>2. QED
        BY <1>1, <2>1, <3>1, WriterRests, StreamRests DEF StreamBytes
  <2>4. QED
      BY <2>1, <2>2, <2>3
<1>6. CASE \E n \in 1 .. Capacity : WriteBytes(n)
    BY <1>1, <1>2, <1>6, WriteBytesOK
<1>7. QED
    BY <1>3, <1>4, <1>5, <1>6 DEF StreamWriteStep

-----------------------------------------------------------------------------
(* The invariant.  A Read or Write that has waited too long has failed.     *)
TimersOK ==
    /\ closed \in BOOLEAN /\ noise \in 0 .. MaxNoise /\ ends \in Ends
    /\ wwaited \in 0 .. SocketTimeout /\ rwaited \in 0 .. SocketTimeout
    /\ wwaited = SocketTimeout => wstate = "failed"
    /\ rwaited = SocketTimeout => rstate = "failed"

LEMMA TimeoutsOK ==
    ASSUME TimersOK, [StreamNext]_streamVars
    PROVE  TimersOK'
<1>1. SocketTimeout \in Nat /\ SocketTimeout > 0 /\ MaxNoise \in Nat
    BY StreamConstantsOK, FramingConstantsOK
<1>2. CASE StreamWriteStep
  <2>1. UNCHANGED <<rstate, closed, noise, ends, rwaited>>
      BY <1>2 DEF StreamWriteStep, NewWriter, WriteHeader, HeaderWritten,
             FieldWritten, WriteFails, WriteBytes, readerVars
  <2>2. wwaited' = IF wstate' = wstate THEN wwaited ELSE 0
      BY <1>2 DEF StreamWriteStep
  <2>3. QED
      BY <1>1, <2>1, <2>2 DEF TimersOK
<1>3. CASE StreamReadStep
  <2>1. UNCHANGED <<wstate, closed, noise, ends, wwaited>>
      BY <1>3 DEF StreamReadStep, NewReader, ReadMessage, ReadHeader, MessageRead,
             FieldRead, ReadFails, ReadBytes, writerVars
  <2>2. rwaited' = IF rstate' = rstate THEN rwaited ELSE 0
      BY <1>3 DEF StreamReadStep
  <2>3. QED
      BY <1>1, <2>1, <2>2 DEF TimersOK
<1>4. CASE WriteWaits
  <2>1. /\ wwaited' = wwaited + 1 /\ wstate # "failed"
        /\ wstate' = IF wwaited' = SocketTimeout THEN "failed" ELSE wstate
        /\ UNCHANGED <<rstate, closed, noise, ends, rwaited>>
      BY <1>4 DEF WriteWaits, Over, readerVars
  <2>2. wwaited \in 0 .. SocketTimeout - 1
      BY <1>1, <2>1 DEF TimersOK
  <2>3. QED
      BY <1>1, <2>1, <2>2 DEF TimersOK
<1>5. CASE ReadWaits
  <2>1. /\ rwaited' = rwaited + 1 /\ rstate # "failed"
        /\ rstate' = IF rwaited' = SocketTimeout THEN "failed" ELSE rstate
        /\ UNCHANGED <<wstate, closed, noise, ends, wwaited>>
      BY <1>5 DEF ReadWaits, Over, writerVars
  <2>2. rwaited \in 0 .. SocketTimeout - 1
      BY <1>1, <2>1 DEF TimersOK
  <2>3. QED
      BY <1>1, <2>1, <2>2 DEF TimersOK
<1>6. CASE (Close \/ Noise) /\ UNCHANGED <<ends, wwaited, rwaited>>
  <2>1. /\ UNCHANGED <<wstate, rstate, ends, wwaited, rwaited>>
        /\ closed' \in {closed, TRUE}
        /\ noise' = noise \/ (noise < MaxNoise /\ noise' = noise + 1)
      BY <1>6 DEF Close, Noise, writerVars, readerVars
  <2>2. closed' \in BOOLEAN
      BY <2>1, Zenon DEF TimersOK
  <2>3. noise \in 0 .. MaxNoise
      BY Zenon DEF TimersOK
  <2>4. noise' \in 0 .. MaxNoise
      BY <1>1, <2>1, <2>3
  <2>5. QED
      BY <2>1, <2>2, <2>4, Zenon DEF TimersOK
<1>7. CASE UNCHANGED streamVars
    BY <1>7 DEF streamVars, vars, writerVars, readerVars, TimersOK
<1>8. QED
    BY <1>2, <1>3, <1>4, <1>5, <1>6, <1>7 DEF StreamNext

IInv == ReaderOK /\ WriterOK /\ StreamBytes /\ StreamOK /\ TimersOK

LEMMA InitOK ==
    ASSUME StreamInit
    PROVE  IInv
<1>1. PICK n \in 0 .. MaxPackets : todo \in [1 .. n -> Packets]
    BY DEF StreamInit, Init
<1>2. /\ begun = << >> /\ wstate = "finished" /\ left = << >>
      /\ stream = << >> /\ closed = FALSE /\ noise = 0
      /\ rstate = "finished" /\ size = 0 /\ buf = << >>
      /\ lengths = << >> /\ message = << >>
      /\ got = << >> /\ taken = << >>
      /\ ends \in Ends /\ wwaited = 0 /\ rwaited = 0
    BY DEF StreamInit, Init
<1>3. /\ MaxPackets \in Nat /\ MaxNoise \in Nat /\ Capacity \in Nat
      /\ SocketTimeout \in Nat /\ SocketTimeout > 0
    BY FramingConstantsOK, StreamConstantsOK
<1>4. << >> \in ByteSeq /\ Len(<< >>) = 0 /\ << >> \o << >> = << >>
    BY NoBytes
<1>5. todo \in Seq(Packets) /\ begun \in Seq(Packets)
  <2>1. n \in Nat
      BY <1>1, <1>3
  <2>2. todo \in Seq(Packets)
      BY <1>1, <2>1, SeqDef
  <2>3. QED
      BY <1>2, <2>2, EmptySeq
<1>6. ReaderTypes
    BY <1>2, <1>4, HeaderSizeOK, TooLongPositive, EmptySeq DEF ReaderTypes
<1>7. ReaderOK
    BY <1>2, <1>6, EncodedNone DEF ReaderOK, ReaderSizes, ReaderTaken, Over
<1>8. WriterOK
    BY <1>2, <1>4, <1>5 DEF WriterOK, Stages
<1>9. StreamBytes
    BY <1>2, <1>3, <1>4 DEF StreamBytes
<1>10. StreamOK
  <2>1. "finished" \in Stages
      BY DEF Stages
  <2>2. Announced("finished", begun) = << >>
      BY <1>2, EncodedNone, Zenon DEF Announced
  <2>3. (taken \o stream) \o << >> = << >>
      BY <1>2, <1>4, Zenon
  <2>4. Sent("finished", << >>)
      BY <1>2, <2>2, <2>3 DEF Sent
  <2>5. QED
      BY <1>4, <2>1, <2>4 DEF StreamOK
<1>11. TimersOK
  <2>1. 0 \in 0 .. MaxNoise /\ 0 \in 0 .. SocketTimeout /\ 0 # SocketTimeout
      BY <1>3
  <2>2. FALSE \in BOOLEAN
      OBVIOUS
  <2>3. QED
      BY <1>2, <2>1, <2>2, Zenon DEF TimersOK
<1>12. QED
    BY <1>7, <1>8, <1>9, <1>10, <1>11 DEF IInv

LEMMA NextOK ==
    ASSUME IInv, [StreamNext]_streamVars
    PROVE  IInv'
<1>1. ReaderOK /\ ReaderTypes /\ WriterOK /\ StreamBytes /\ StreamOK /\ noise \in Nat
    BY FramingConstantsOK DEF IInv, ReaderOK, TimersOK
<1>2. TimersOK'
    BY TimeoutsOK DEF IInv
<1>3. CASE StreamWriteStep \/ WriteWaits
  <2>1. WriterOK' /\ StreamBytes' /\ StreamOK' /\ UNCHANGED readerVars
      BY <1>1, <1>3, WriteStepOK
  <2>2. QED
      BY <1>1, <1>2, <2>1, ReaderRests DEF IInv
<1>4. CASE StreamReadStep \/ ReadWaits
  <2>1. /\ ReaderOK' /\ StreamBytes'
        /\ taken' \o stream' = taken \o stream
        /\ UNCHANGED <<writerVars, closed, noise>>
      BY <1>1, <1>4, ReadStepOK
  <2>2. WriterOK' /\ StreamOK'
      BY <1>1, <2>1, WriterRests, StreamRests
  <2>3. QED
      BY <1>2, <2>1, <2>2 DEF IInv
<1>5. CASE Close \/ Noise
  <2>1. UNCHANGED <<writerVars, readerVars>>
      BY <1>5 DEF Close, Noise
  <2>2. StreamBytes' /\ StreamOK'
      BY <1>1, <1>5, CloseOK, NoiseOK
  <2>3. QED
      BY <1>1, <1>2, <2>1, <2>2, ReaderRests, WriterRests DEF IInv
<1>6. CASE UNCHANGED streamVars
  <2>1. UNCHANGED <<writerVars, readerVars, stream, closed, noise>>
      BY <1>6 DEF streamVars, vars
  <2>2. taken' \o stream' = taken \o stream /\ StreamBytes'
      BY <1>1, <2>1 DEF readerVars, StreamBytes
  <2>3. QED
      BY <1>1, <1>2, <2>1, <2>2, ReaderRests, WriterRests, StreamRests DEF IInv
<1>7. QED
    BY <1>3, <1>4, <1>5, <1>6 DEF StreamNext

(* The state of every end, and of the stream between them, is one that      *)
(* reading and writing in order explain.                                    *)
THEOREM StreamInvariance == StreamSpec => []IInv
<1>1. StreamInit => IInv
    BY InitOK
<1>2. IInv /\ [StreamNext]_streamVars => IInv'
    BY NextOK
<1>3. QED
    BY <1>1, <1>2, PTL DEF StreamSpec

-----------------------------------------------------------------------------
(* What it says of a state.                                                 *)
LEMMA TypesFollow ==
    ASSUME IInv
    PROVE  FramingTypeOK
<1>1. ReaderTypes /\ WriterOK /\ StreamBytes /\ TimersOK
    BY DEF IInv, ReaderOK
<1>2. {todo, begun} \subseteq Seq(Packets)
    BY <1>1 DEF WriterOK
<1>3. {wstate, rstate} \subseteq Fields \cup {"header", "finished", "failed"}
    BY <1>1 DEF WriterOK, ReaderTypes, Stages
<1>4. /\ stream \in Seq(Bytes) /\ Len(stream) <= Capacity
      /\ buf \in Seq(Bytes) /\ size \in 0 .. TooLong + HeaderSize /\ Len(buf) <= size
    BY <1>1 DEF StreamBytes, ReaderTypes, ByteSeq
<1>5. /\ closed \in BOOLEAN /\ noise \in 0 .. MaxNoise
      /\ ends \in Ends /\ {wwaited, rwaited} \subseteq 0 .. SocketTimeout
      /\ wwaited = SocketTimeout => wstate = "failed"
      /\ rwaited = SocketTimeout => rstate = "failed"
    BY <1>1, Zenon DEF TimersOK
<1>6. QED
    BY <1>2, <1>3, <1>4, <1>5, Zenon DEF FramingTypeOK

LEMMA Beginning ==
    ASSUME NEW s \in ByteSeq, NEW t \in ByteSeq
    PROVE  IsPrefix(s, s \o t)
<1> DEFINE st == s \o t
           n == Len(s)
           a == SubSeq(st, 1, n)
           b == SubSeq(st, n + 1, Len(st))
<1>1. st \in ByteSeq /\ Len(st) = Len(s) + Len(t) /\ Len(s) \in Nat /\ Len(t) \in Nat
    BY Joined, NoBytes
<1>2. n \in 0 .. Len(st) /\ n <= Len(st)
    BY <1>1
<1>3. a \in ByteSeq /\ Len(a) = n /\ b \in ByteSeq /\ a \o b = st
  <2> HIDE DEF st, n
  <2>1. QED
      BY <1>1, <1>2, Cut, Zenon
<1>4. a \o b = s \o t
    BY <1>3
<1>5. SubSeq(s, 1, n) = s
    BY SubSeqFull DEF ByteSeq
<1> HIDE DEF a, b
<1>6. a = s
    BY <1>3, <1>4, SameStart, Zenon DEF n
<1> HIDE DEF st
<1>7. SubSeq(st, 1, n) = SubSeq(s, 1, n)
    BY <1>5, <1>6, Zenon DEF a
<1>8. QED
    BY <1>2, <1>7, Zenon DEF IsPrefix, n, st

LEMMA ReadFollows ==
    ASSUME IInv
    PROVE  ReadsExactly
<1>1. ReaderOK
    BY DEF IInv
<1>2. PICK rest \in ByteSeq : taken = Encoded(got) \o rest
    BY <1>1, TakenStarts
<1>3. Encoded(got) \in ByteSeq
    BY <1>1, GotBytes DEF ReaderOK
<1>4. IsPrefix(Encoded(got), taken)
    BY <1>2, <1>3, Beginning, Zenon
<1>5. rstate = "finished" => taken = Encoded(got)
    BY <1>1 DEF ReaderOK, ReaderTaken
<1>6. QED
    BY <1>4, <1>5, Zenon DEF ReadsExactly

Two(a, b) == a \o b
Three(a, b, c) == Two(Two(a, b), c)
Four(a, b, c, d) == Two(Three(a, b, c), d)
Five(a, b, c, d, g) == Two(Four(a, b, c, d), g)
Begins(s, whole) == \E y \in ByteSeq : s \o y = whole

LEMMA TwoBegin ==
    ASSUME NEW s \in ByteSeq, NEW t \in ByteSeq
    PROVE  /\ Two(s, t) \in ByteSeq /\ Begins(s, Two(s, t))
           /\ \A w : Begins(Two(s, t), w) => Begins(s, w)
<1>1. Two(s, t) \in ByteSeq /\ Begins(s, Two(s, t))
    BY Joined, Zenon DEF Two, Begins
<1>2. ASSUME NEW w, Begins(Two(s, t), w) PROVE Begins(s, w)
  <2>1. PICK y \in ByteSeq : (s \o t) \o y = w
      BY <1>2, Zenon DEF Two, Begins
  <2>2. (s \o t) \o y = s \o (t \o y)
      BY Regrouped, SMTT(40)
  <2>3. t \o y \in ByteSeq
      BY Joined
  <2>4. QED
      BY <2>1, <2>2, <2>3, Zenon DEF Begins
<1>3. QED
    BY <1>1, <1>2

LEMMA PartsBegin ==
    ASSUME NEW a \in ByteSeq, NEW b \in ByteSeq, NEW c \in ByteSeq, NEW d \in ByteSeq,
           NEW g \in ByteSeq
    PROVE  /\ Begins(a, Five(a, b, c, d, g)) /\ Begins(Two(a, b), Five(a, b, c, d, g))
           /\ Begins(Three(a, b, c), Five(a, b, c, d, g))
           /\ Begins(Four(a, b, c, d), Five(a, b, c, d, g))
<1> DEFINE w == Five(a, b, c, d, g)
<1>1. /\ Two(a, b) \in ByteSeq /\ Three(a, b, c) \in ByteSeq
      /\ Four(a, b, c, d) \in ByteSeq
    BY TwoBegin DEF Three, Four
<1>2. Begins(Four(a, b, c, d), w)
    BY <1>1, TwoBegin DEF Five
<1> HIDE DEF w
<1>3. Begins(Three(a, b, c), w)
    BY <1>1, <1>2, TwoBegin DEF Four
<1>4. Begins(Two(a, b), w)
    BY <1>1, <1>3, TwoBegin DEF Three
<1>5. Begins(a, w)
    BY <1>4, TwoBegin
<1>6. QED
    BY <1>2, <1>3, <1>4, <1>5 DEF w

(* The fields up to one of them are the beginning of the packet.            *)
LEMMA UptoStarts ==
    ASSUME NEW p \in Framed, Serializes(p), NEW st \in Fields \cup {"header"}
    PROVE  \E y \in ByteSeq : Upto(st, p) \o y = Encode(p)
<1> DEFINE M  == <<Magic>>
           lm == EncodeLength(Len(p.message))
           lv == EncodeLength(Len(p.value))
           m  == p.message
           v  == p.value
<1>1. M \in ByteSeq /\ lm \in ByteSeq /\ lv \in ByteSeq /\ m \in ByteSeq /\ v \in ByteSeq
    BY FramedLengths, LengthBytes, MagicByte
<1>2. Encode(p) = Five(M, lm, lv, m, v)
    BY EncodeParts, Zenon DEF Header, Two, Three, Four, Five
<1>3. /\ Upto("magic", p) = M /\ Upto("messageLength", p) = Two(M, lm)
      /\ Upto("valueLength", p) = Three(M, lm, lv) /\ Upto("header", p) = Three(M, lm, lv)
      /\ Upto("message", p) = Four(M, lm, lv, m)
  <2>1. ByteSize(p) = Len(p.message)
      BY DEF ByteSize, Serializes
  <2>2. QED
      BY <2>1, UptoFields, Zenon DEF Header, Two, Three, Four
<1>4. Begins(Upto("value", p), Encode(p))
  <2>1. Upto("value", p) = Encode(p) /\ Encode(p) \in ByteSeq
      BY UptoFields, EncodeParts
  <2>2. QED
      BY <2>1, NoBytes, Zenon DEF Begins
<1> HIDE DEF M, lm, lv, m, v
<1>5. /\ Begins(M, Five(M, lm, lv, m, v)) /\ Begins(Two(M, lm), Five(M, lm, lv, m, v))
      /\ Begins(Three(M, lm, lv), Five(M, lm, lv, m, v))
      /\ Begins(Four(M, lm, lv, m), Five(M, lm, lv, m, v))
    BY <1>1, PartsBegin
<1>6. Begins(Upto(st, p), Encode(p))
    BY <1>2, <1>3, <1>4, <1>5 DEF Fields
<1>7. QED
    BY <1>6, Zenon DEF Begins

LEMMA AnnouncedStarts ==
    ASSUME WriterOK, NEW st \in Stages, st # "finished" => begun # << >>,
           begun # << >> => Serializes(Last(begun))
    PROVE  /\ begun \in Seq(Framed)
           /\ \E y \in ByteSeq : Announced(st, begun) \o y = Encoded(begun)
<1>1. begun \in Seq(Framed)
    BY BegunFramed
<1>2. CASE st = "finished"
  <2>1. Encoded(begun) \in ByteSeq /\ Announced(st, begun) = Encoded(begun)
      BY <1>1, <1>2, EncodedType DEF Announced
  <2>2. QED
      BY <1>1, <2>1, NoBytes
<1>3. CASE st # "finished"
  <2> DEFINE f == Front(begun)
             p == Last(begun)
             e == Encoded(f)
             u == Upto(st, p)
  <2>1. /\ f \in Seq(Framed) /\ p \in Framed /\ begun = Append(f, p)
        /\ Serializes(p) /\ p \in Packets
      BY <1>1, <1>3, FrontLast, BegunFramed
  <2>2. st \in Fields \cup {"header"} /\ Announced(st, begun) = e \o u
      BY <1>3 DEF Stages, Announced
  <2> HIDE DEF f, p
  <2>3. e \in ByteSeq /\ Encoded(begun) = e \o Encode(p)
      BY <2>1, EncodedAppend, Zenon
  <2>4. PICK y \in ByteSeq : u \o y = Encode(p)
      BY <2>1, <2>2, UptoStarts, Zenon
  <2>5. u \in ByteSeq
      BY <2>1, <2>2, UptoType, Zenon
  <2> HIDE DEF e, u
  <2>6. (e \o u) \o y = e \o (u \o y)
      BY <2>3, <2>4, <2>5, Regrouped, ZenonT(40)
  <2>7. Announced(st, begun) \o y = Encoded(begun)
      BY <2>2, <2>3, <2>4, <2>6, Zenon
  <2>8. QED
      BY <1>1, <2>7
<1>4. QED
    BY <1>2, <1>3

LEMMA PrefixOfFront ==
    ASSUME NEW T, NEW qs \in Seq(T), qs # << >>, NEW ps, Len(ps) \in Nat,
           IsPrefix(ps, Front(qs))
    PROVE  IsPrefix(ps, qs)
<1> DEFINE f == Front(qs)
           k == Len(ps)
           a == SubSeq(f, 1, k)
           b == SubSeq(qs, 1, k)
<1>1. /\ f \in Seq(T) /\ Len(f) = Len(qs) - 1 /\ Len(qs) \in Nat
      /\ \A i \in 1 .. Len(f) : f[i] = qs[i]
      /\ k <= Len(f) /\ SubSeq(ps, 1, k) = a
    BY FrontLast, LenProperties DEF IsPrefix
<1>2. /\ k \in Nat /\ k <= Len(qs)
      /\ \A i \in 1 .. k : f[i] = qs[i] /\ f[i] \in T /\ qs[i] \in T
  <2>1. k \in Nat /\ k <= Len(qs) /\ \A i \in 1 .. k : i \in 1 .. Len(f) /\ i \in 1 .. Len(qs)
      BY <1>1
  <2>2. QED
      BY <1>1, <2>1, ElementOfSeq
<1> HIDE DEF f, k
<1>3. /\ a \in Seq(T) /\ b \in Seq(T) /\ Len(a) = Len(b) /\ Len(a) = k
      /\ \A i \in 1 .. k : a[i] = f[i] /\ b[i] = qs[i]
    BY <1>2, SubSeqProperties
<1> HIDE DEF a, b
<1>4. a = b
    BY <1>2, <1>3, SeqEqual
<1>5. QED
    BY <1>1, <1>2, <1>4, Zenon DEF IsPrefix, b, k

LEMMA DeliveryFollows ==
    ASSUME IInv, noise = 0
    PROVE  IsPrefix(got, begun)
<1>1. ReaderOK /\ ReaderTypes /\ WriterOK /\ StreamBytes /\ StreamOK
    BY DEF IInv, ReaderOK
<1>2. PICK st \in Stages, x \in ByteSeq : Sent(st, x)
    BY <1>1 DEF StreamOK
<1>3. PICK rest \in ByteSeq : taken = Encoded(got) \o rest
    BY <1>1, TakenStarts
<1> DEFINE e == Encoded(got)
           r == (rest \o stream) \o x
<1>4. e \in ByteSeq /\ got \in Seq(Readable) /\ stream \in ByteSeq /\ r \in ByteSeq
    BY <1>1, <1>2, <1>3, GotBytes, Joined DEF ReaderTypes, StreamBytes
<1>5. e \o r = Announced(st, begun)
  <2>1. (taken \o stream) \o x = Announced(st, begun)
      BY <1>2, Zenon DEF Sent
  <2>2. rest \o stream \in ByteSeq
      BY <1>3, <1>4, Joined
  <2> HIDE DEF e
  <2>3. (e \o rest) \o stream = e \o (rest \o stream)
      BY <1>3, <1>4, Regrouped, SMTT(40)
  <2>4. (e \o (rest \o stream)) \o x = e \o ((rest \o stream) \o x)
    <3> DEFINE b == rest \o stream
    <3>1. e \in ByteSeq /\ b \in ByteSeq /\ x \in ByteSeq
        BY <1>2, <1>4, <2>2
    <3> HIDE DEF b
    <3>2. (e \o b) \o x = e \o (b \o x)
        BY <3>1, Regrouped, SMTT(40)
    <3>3. QED
        BY <3>2 DEF b
  <2>5. QED
      BY <1>3, <2>1, <2>3, <2>4, Zenon DEF e
<1>6. /\ st # "finished" => begun # << >>
      /\ begun # << >> => Serializes(Last(begun)) \/ st \in {"magic", "header"}
    BY <1>2 DEF Sent
<1> HIDE DEF r
<1>7. CASE begun # << >> => Serializes(Last(begun))
  <2>1. begun \in Seq(Framed)
      BY <1>1, <1>6, <1>7, AnnouncedStarts
  <2>2. PICK y \in ByteSeq : Announced(st, begun) \o y = Encoded(begun)
      BY <1>1, <1>6, <1>7, AnnouncedStarts
  <2>3. Encoded(begun) \in ByteSeq /\ << >> \in ByteSeq
      BY <2>1, EncodedType, NoBytes
  <2>4. r \o y \in ByteSeq /\ Encoded(begun) \o << >> = Encoded(begun)
      BY <1>4, <2>2, <2>3, Joined, NoBytes
  <2> HIDE DEF e
  <2>5. (e \o r) \o y = e \o (r \o y)
      BY <1>4, <2>2, Regrouped, SMTT(40)
  <2>6. Encoded(got) \o (r \o y) = Encoded(begun) \o << >>
      BY <1>5, <2>2, <2>4, <2>5, Zenon DEF e
  <2>7. \A p \in Readable : \A v \in ByteSeq : Encode(p) \o v # << >>
      BY NoPackets, Zenon DEF NoPacket
  <2>8. QED
      BY <1>4, <2>1, <2>3, <2>4, <2>6, <2>7, DecodedInOrder, Zenon
<1>8. CASE begun # << >> /\ ~ Serializes(Last(begun))
  <2> DEFINE f == Front(begun)
             p == Last(begun)
             u == Upto(st, p)
  <2>1. f \in Seq(Framed) /\ p \in Packets /\ st \in {"magic", "header"}
      BY <1>1, <1>6, <1>8, BegunFramed
  <2>2. Announced(st, begun) = Encoded(f) \o u
      BY <2>1 DEF Announced
  <2>3. u \in ByteSeq
      BY <2>1, UptoType DEF Fields
  <2>4. u = <<Magic>> \/ u = Header(SizeWithoutRequired, Len(p.value))
    <3>1. ByteSize(p) = SizeWithoutRequired
        BY <1>8 DEF ByteSize, Serializes
    <3>2. QED
        BY <2>1, <3>1, UptoFields, Zenon
  <2>5. Len(p.value) \in Lengths
      BY <2>1, PacketsOK
  <2> HIDE DEF f, p, u
  <2>6. \A q \in Readable : \A v \in ByteSeq : Encode(q) \o v # u
      BY <2>4, <2>5, NoPackets, Zenon DEF NoPacket
  <2>7. Encoded(got) \o r = Encoded(f) \o u
      BY <1>5, <2>2, Zenon
  <2>8. IsPrefix(got, f)
      BY <1>4, <2>1, <2>3, <2>6, <2>7, DecodedInOrder, Zenon
  <2>9. Len(got) \in Nat /\ begun \in Seq(Packets)
      BY <1>1, <1>4, LenProperties DEF WriterOK
  <2>10. QED
      BY <1>8, <2>8, <2>9, PrefixOfFront, Zenon DEF f
<1>9. QED
    BY <1>7, <1>8

-----------------------------------------------------------------------------
(* The theorems.                                                            *)

\* Whatever bytes arrive, wherever the stream breaks and whichever
\* implementations meet, a string reader never holds more than its size_, a
\* length decoded from four bytes never exceeds what four bytes can hold, and
\* ReaderWriter gives up when its socket_timeout is over.
THEOREM FramingTypes == StreamSpec => []FramingTypeOK
<1>1. IInv => FramingTypeOK
    BY TypesFollow
<1>2. QED
    BY <1>1, StreamInvariance, PTL

\* NonblockingPacketReader and MessageStream::ReadMessage take from the
\* stream the bytes of the packets they return and, once they have returned
\* one, nothing of the next: whoever reads next starts at a packet.  Stray
\* bytes are allowed for.
THEOREM ReadsOnlyPackets == StreamSpec => []ReadsExactly
<1>1. IInv => ReadsExactly
    BY ReadFollows
<1>2. QED
    BY <1>1, StreamInvariance, PTL

\* What NonblockingPacketReader or ReadMessage returns is what
\* NonblockingPacketWriter or WriteMessage was given, in the same order and
\* with nothing left out, for packets of any content, even when a message
\* failed to serialize after its header was sent or the connection broke.
THEOREM WhatIsReadWasWritten == StreamSpec => []Delivered
<1>1. IInv => Delivered
    BY DeliveryFollows DEF Delivered
<1>2. QED
    BY <1>1, StreamInvariance, PTL

\* htonl and ntohl undo each other: every length that fits in the field is
\* read as it was written, and every field is the encoding of what it says.
THEOREM LengthsSurvive ==
    /\ \A n \in 0 .. TooLong - 1 :
          EncodeLength(n) \in LengthField /\ DecodeLength(EncodeLength(n)) = n
    /\ \A s \in LengthField :
          DecodeLength(s) \in 0 .. TooLong - 1 /\ EncodeLength(DecodeLength(s)) = s
BY EncodeType, DecodeOfEncode, DecodeType, EncodeOfDecode, TooLongPositive

\* No two lists of packets have the same bytes: the framing of
\* NonblockingPacketWriter needs no separator, and an empty message or value
\* is not taken for a part of its neighbour.
THEOREM UniqueDecoding ==
    ASSUME NEW ps \in Seq(Readable), NEW qs \in Seq(Framed), Encoded(ps) = Encoded(qs)
    PROVE  ps = qs
<1>1. ps \in Seq(Framed) /\ Len(ps) \in Nat /\ Len(qs) \in Nat
    BY LenProperties, SeqMonotonic DEF Readable
<1>2. Encoded(ps) \o << >> = Encoded(ps) /\ Encoded(ps) \in ByteSeq /\ << >> \in ByteSeq
    BY <1>1, EncodedType, NoBytes
<1>3. Encoded(ps) \o << >> = Encoded(qs) \o << >>
    BY Zenon
<1>4. \A p \in Readable : \A v \in ByteSeq : Encode(p) \o v # << >>
    BY NoPackets, Zenon DEF NoPacket
<1>5. IsPrefix(ps, qs)
    BY <1>2, <1>3, <1>4, DecodedInOrder, Zenon
<1> DEFINE k == Len(ps)
<1>6. k <= Len(qs) /\ SubSeq(qs, 1, k) = ps
  <2>1. SubSeq(ps, 1, k) = ps
      BY SubSeqFull
  <2>2. QED
      BY <1>5, <2>1, Zenon DEF IsPrefix
<1>7. CASE k = Len(qs)
    BY <1>6, <1>7, SubSeqFull
<1>8. CASE k # Len(qs)
  <2>1. k \in 0 .. Len(qs) - 1 /\ k + 1 \in 1 .. Len(qs)
      BY <1>1, <1>6, <1>8
  <2> DEFINE e == Encoded(SubSeq(qs, 1, k))
             b == Encode(qs[k + 1])
  <2>2. PICK x \in ByteSeq : Encoded(qs) = e \o (b \o x)
      BY <2>1, EncodedSplit, Zenon
  <2>3. e = Encoded(ps) /\ b \in ByteSeq /\ Len(b) \in Nat /\ Len(b) > 0
      BY <1>6, <2>1, ElementOfSeq, EncodeParts, NoBytes
  <2> HIDE DEF e, b
  <2>4. b \o x \in ByteSeq /\ Len(b \o x) = Len(b) + Len(x) /\ Len(x) \in Nat
      BY <2>2, <2>3, Joined, NoBytes
  <2>5. b \o x = << >>
    <3> DEFINE c == b \o x
               z == Encoded(ps)
    <3>1. z \in ByteSeq /\ c \in ByteSeq /\ << >> \in ByteSeq /\ z \o c = z \o << >>
        BY <1>2, <2>2, <2>3, <2>4, Zenon
    <3> HIDE DEF c, z
    <3>2. c = << >>
        BY <3>1, SameRest
    <3>3. QED
        BY <3>2 DEF c
  <2>6. Len(<< >>) = 0
      OBVIOUS
  <2>7. QED
      BY <2>3, <2>4, <2>5, <2>6
<1>9. QED
    BY <1>7, <1>8
=============================================================================
