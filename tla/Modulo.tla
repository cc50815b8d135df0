------------------------------- MODULE Modulo -------------------------------
(***************************************************************************)
(* Facts about remainders for the two counters that come round: the slots  *)
(* of the frame ring and the command IDs.                                  *)
(***************************************************************************)
EXTENDS Integers, TLAPS

(* What % and \div mean. *)
LEMMA Division ==
  ASSUME NEW L \in Nat \ {0}, NEW a \in Int
  PROVE  a = L * (a \div L) + (a % L) /\ a \div L \in Int /\ a % L \in 0 .. L - 1
BY SMT

LEMMA Multiple ==
  ASSUME NEW L \in Nat \ {0}, NEW k \in Int, k >= 1
  PROVE  L * k >= L
BY SMT

(* Quotient and remainder are unique. *)
LEMMA OneQuotient ==
  ASSUME NEW L \in Nat \ {0}, NEW x \in Int, NEW y \in Int, NEW r \in Int, NEW s \in Int,
         L * x + r = L * y + s, r - s < L, s - r < L
  PROVE  x = y /\ r = s
<1>1. L * (x - y) = L * x - L * y /\ L * (y - x) = L * y - L * x
  OBVIOUS
<1>2. L * x \in Int /\ L * y \in Int
  OBVIOUS
<1>3. ~(x - y >= 1)
  BY <1>1, <1>2, Multiple
<1>4. ~(y - x >= 1)
  BY <1>1, <1>2, Multiple
<1>5. x = y
  BY <1>3, <1>4
<1> QED BY <1>2, <1>5

(* Numbers with the same remainder that are less than L apart are equal. *)
LEMMA SameRemainder ==
  ASSUME NEW L \in Nat \ {0}, NEW a \in Int, NEW b \in Int,
         a % L = b % L, a - b < L, b - a < L
  PROVE  a = b
<1> DEFINE x == a \div L
           y == b \div L
<1>1. x \in Int /\ y \in Int /\ a = L * x + (a % L) /\ b = L * y + (b % L) /\ a % L \in Int
  BY Division
<1>2. L * x + a = L * x + a /\ L * x \in Int /\ L * y \in Int
  BY <1>1
<1> HIDE DEF x, y
<1>3. L * x + b = L * y + a
  BY <1>1, <1>2
<1> QED BY <1>1, <1>3, OneQuotient

LEMMA SmallRemainder ==
  ASSUME NEW L \in Nat \ {0}, NEW a \in 0 .. L - 1
  PROVE  a % L = a
BY SMT

(* Counting on from the remainder is counting on. *)
LEMMA NextRemainder ==
  ASSUME NEW L \in Nat \ {0}, NEW a \in Int
  PROVE  ((a % L) + 1) % L = (a + 1) % L
<1> DEFINE x == a \div L
           y == ((a % L) + 1) \div L
           z == (a + 1) \div L
           s == ((a % L) + 1) % L
           t == (a + 1) % L
<1>1. x \in Int /\ a % L \in Int /\ a = L * x + (a % L)
  BY Division
<1>2. y \in Int /\ s \in 0 .. L - 1 /\ (a % L) + 1 = L * y + s
  BY <1>1, Division
<1>3. z \in Int /\ t \in 0 .. L - 1 /\ a + 1 = L * z + t
  <2>1. a + 1 \in Int
    OBVIOUS
  <2> DEFINE b == a + 1
  <2> HIDE DEF b
  <2>2. /\ b = L * (b \div L) + (b % L)
        /\ b \div L \in Int /\ b % L \in 0 .. L - 1
    BY <2>1, Division DEF b
  <2> QED BY <2>2 DEF b
<1> HIDE DEF x, y, z, s, t
<1>4. L * (x + y) = L * x + L * y /\ L * x \in Int /\ L * y \in Int /\ L * z \in Int
  BY <1>1, <1>2, <1>3
<1>5. x + y \in Int /\ s \in Int /\ t \in Int /\ s - t < L /\ t - s < L
  BY <1>1, <1>2, <1>3
<1>6. L * (x + y) + s = L * z + t
  BY <1>1, <1>2, <1>3, <1>4
<1>7. s = t
  BY <1>3, <1>5, <1>6, OneQuotient
<1> QED BY <1>7 DEF s, t
=============================================================================
