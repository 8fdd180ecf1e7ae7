-------------------------- MODULE SefdmTablesProofs --------------------------
(***************************************************************************)
(* Proofs about SefdmTables for any number of carriers and blocks and any  *)
(* prime: the shapes of the tables, and the elimination of invert.         *)
(***************************************************************************)
EXTENDS SefdmTables, WellFoundedInduction, TLAPS

-----------------------------------------------------------------------------
(* Induction, by sets of numbers. *)

(* A set of natural numbers that is not empty has a least element. *)
LEMMA LeastNumber ==
  ASSUME NEW S \in SUBSET Nat, S # {}
  PROVE  \E n \in S : \A m \in S : n <= m
<1> DEFINE R == OpToRel(<, Nat)
<1>1. IsWellFoundedOn(R, Nat)
  BY NatLessThanWellFounded
<1>2. \E n \in S : \A m \in S : ~(<<m, n>> \in R)
  <2> HIDE DEF R
  <2> QED BY <1>1, WFMin
<1>3. PICK n \in S : \A m \in S : <<m, n>> \notin OpToRel(<, Nat)
  BY <1>2
<1>4. \A m \in S : ~(m < n)
  BY <1>3 DEF OpToRel
<1> QED BY <1>4

(* A set with 0 and with the successor of each of its elements is all of Nat. *)
LEMMA SetInduction ==
  ASSUME NEW S \in SUBSET Nat, 0 \in S, \A n \in S : n + 1 \in S
  PROVE  \A n \in Nat : n \in S
<1> SUFFICES ASSUME Nat \ S # {} PROVE FALSE
  OBVIOUS
<1>1. PICK n \in Nat \ S : \A m \in Nat \ S : n <= m
  BY LeastNumber
<1>2. n # 0 /\ n - 1 \in Nat
  BY <1>1
<1>3. n - 1 \in S
  BY <1>1, <1>2
<1> QED BY <1>1, <1>2, <1>3

-----------------------------------------------------------------------------
(* Residues. *)

(* Division by p, of numbers that may be negative. *)
LEMMA DivisionUnique ==
  ASSUME NEW p \in Nat \ {0}, NEW q \in Int, NEW b \in 0 .. p - 1
  PROVE  (p * q + b) % p = b
OBVIOUS

LEMMA Division ==
  ASSUME NEW p \in Nat \ {0}, NEW a \in Int
  PROVE  \E q \in Int : \E b \in 0 .. p - 1 : a = p * q + b /\ (a % p) = b
<1>1. a = p * (a \div p) + (a % p) /\ (a % p) \in 0 .. p - 1 /\ a \div p \in Int
  OBVIOUS
<1> QED BY <1>1

LEMMA ResidueType ==
  ASSUME NEW p \in Nat \ {0}, NEW a \in Int
  PROVE  (a % p) \in 0 .. p - 1 /\ (a % p) \in Int
BY Division

(* A multiple of the modulus does not change the residue. *)
LEMMA ModShift ==
  ASSUME NEW p \in Nat \ {0}, NEW a \in Int, NEW q \in Int
  PROVE  (a + p * q) % p = a % p
<1>1. PICK d \in Int, b \in 0 .. p - 1 : a = p * d + b /\ a % p = b
  BY Division
<1>2. a + p * q = p * (d + q) + b
  BY <1>1
<1>3. (p * (d + q) + b) % p = b
  BY DivisionUnique, d + q \in Int
<1> QED BY <1>1, <1>2, <1>3

(* A number and its residue differ by a multiple. *)
LEMMA ModStep ==
  ASSUME NEW p \in Nat \ {0}, NEW a \in Int
  PROVE  \E q \in Int : a % p = a + p * q
<1>1. PICK d \in Int, b \in 0 .. p - 1 : a = p * d + b /\ a % p = b
  BY Division
<1>2. b = a + p * (-d) /\ -d \in Int
  BY <1>1
<1> QED BY <1>1, <1>2

LEMMA PrimePositive == Prime \in Nat \ {0} /\ Prime \in Nat /\ Prime > 2
BY TablesAssumption

LEMMA ResiduesType ==
  ASSUME NEW a \in Int, NEW b \in Int
  PROVE  Residues(a, b) \in Value
BY PrimePositive, ResidueType DEF Residues, Value

LEMMA ValueParts ==
  ASSUME NEW x \in Value
  PROVE  /\ x[1] \in Int /\ x[2] \in Int
         /\ x[1] \in 0 .. Prime - 1 /\ x[2] \in 0 .. Prime - 1
         /\ x = <<x[1], x[2]>>
BY PrimePositive DEF Value

LEMMA SmallResidue ==
  ASSUME NEW p \in Nat \ {0}, NEW b \in 0 .. p - 1
  PROVE  b % p = b
<1>1. (p * 0 + b) % p = b
  BY DivisionUnique
<1> QED BY <1>1

(* A value is its own residue. *)
LEMMA ValueResidues ==
  ASSUME NEW x \in Value
  PROVE  x = Residues(x[1], x[2])
<1>1. x[1] % Prime = x[1] /\ x[2] % Prime = x[2]
  BY ValueParts, SmallResidue, PrimePositive
<1> QED BY <1>1, ValueParts DEF Residues

(* Sums, differences, products and conjugates can be taken before or after the residue. *)
LEMMA PlusResidues ==
  ASSUME NEW a \in Int, NEW b \in Int, NEW c \in Int, NEW d \in Int
  PROVE  Plus(Residues(a, b), Residues(c, d)) = Residues(a + c, b + d)
<1> DEFINE p == Prime
<1>0. p \in Nat \ {0}
  BY PrimePositive
<1> HIDE DEF p
<1>1. ASSUME NEW x \in Int, NEW y \in Int
      PROVE  ((x % p) + (y % p)) % p = (x + y) % p
  <2>1. PICK q \in Int : x % p = x + p * q
    BY <1>0, ModStep
  <2>2. PICK s \in Int : y % p = y + p * s
    BY <1>0, ModStep
  <2>3. (x % p) + (y % p) = (x + y) + p * (q + s)
    <3>1. q \in Int /\ s \in Int
      BY <2>1, <2>2
    <3>2. (x + p * q) + (y + p * s) = (x + y) + p * (q + s)
      BY <1>0, <3>1
    <3> QED BY <2>1, <2>2, <3>2
  <2>4. ((x + y) + p * (q + s)) % p = (x + y) % p
    <3>1. x + y \in Int /\ q + s \in Int
      BY <2>1, <2>2
    <3> QED BY <1>0, <3>1, ModShift
  <2> QED BY <2>3, <2>4
<1>2. ((a % p) + (c % p)) % p = (a + c) % p /\ ((b % p) + (d % p)) % p = (b + d) % p
  BY <1>1
<1> QED BY <1>2 DEF Plus, Residues, p

LEMMA MinusResidues ==
  ASSUME NEW a \in Int, NEW b \in Int, NEW c \in Int, NEW d \in Int
  PROVE  Minus(Residues(a, b), Residues(c, d)) = Residues(a - c, b - d)
<1> DEFINE p == Prime
<1>0. p \in Nat \ {0}
  BY PrimePositive
<1> HIDE DEF p
<1>1. ASSUME NEW x \in Int, NEW y \in Int
      PROVE  ((x % p) - (y % p)) % p = (x - y) % p
  <2>1. PICK q \in Int : x % p = x + p * q
    BY <1>0, ModStep
  <2>2. PICK s \in Int : y % p = y + p * s
    BY <1>0, ModStep
  <2>3. (x % p) - (y % p) = (x - y) + p * (q - s)
    <3>1. q \in Int /\ s \in Int
      BY <2>1, <2>2
    <3>2. (x + p * q) - (y + p * s) = (x - y) + p * (q - s)
      BY <1>0, <3>1
    <3> QED BY <2>1, <2>2, <3>2
  <2>4. ((x - y) + p * (q - s)) % p = (x - y) % p
    <3>1. x - y \in Int /\ q - s \in Int
      BY <2>1, <2>2
    <3> QED BY <1>0, <3>1, ModShift
  <2> QED BY <2>3, <2>4
<1>2. ((a % p) - (c % p)) % p = (a - c) % p /\ ((b % p) - (d % p)) % p = (b - d) % p
  BY <1>1
<1> QED BY <1>2 DEF Minus, Residues, p

LEMMA ConjResidues ==
  ASSUME NEW a \in Int, NEW b \in Int
  PROVE  Conj(Residues(a, b)) = Residues(a, -b)
<1> DEFINE p == Prime
<1>0. p \in Nat \ {0}
  BY PrimePositive
<1> HIDE DEF p
<1>1. (a % p) % p = a % p
  BY <1>0, ResidueType, SmallResidue
<1>2. PICK q \in Int : b % p = b + p * q
  BY <1>0, ModStep
<1>3. -(b % p) = (-b) + p * (-q)
  BY <1>0, <1>2
<1>4. ((-b) + p * (-q)) % p = (-b) % p
  BY <1>0, ModShift, -b \in Int, -q \in Int
<1> QED BY <1>1, <1>3, <1>4 DEF Conj, Residues, p

(* A product of residues differs from the product by a multiple. *)
LEMMA ProductStep ==
  ASSUME NEW p \in Nat \ {0}, NEW a \in Int, NEW c \in Int
  PROVE  \E q \in Int : (a % p) * (c % p) = a * c + p * q
<1>1. PICK x \in Int : (a % p) = a + p * x
  BY ModStep
<1>2. PICK z \in Int : (c % p) = c + p * z
  BY ModStep
<1>3. x \in Int /\ z \in Int
  BY <1>1, <1>2
<1>4. (a + p * x) * (c + p * z) = a * c + p * (a * z + x * c + p * x * z)
  BY <1>3
<1>5. a * z + x * c + p * x * z \in Int
  BY <1>3
<1> QED BY <1>1, <1>2, <1>4, <1>5

SameProduct(p, a, b, c, d) ==
  /\ ((a % p) * (c % p) - (b % p) * (d % p)) % p = (a * c - b * d) % p
  /\ ((a % p) * (c % p) + (b % p) * (d % p)) % p = (a * c + b * d) % p

LEMMA ProductResidue ==
  ASSUME NEW p \in Nat \ {0}, NEW a \in Int, NEW b \in Int, NEW c \in Int, NEW d \in Int
  PROVE  SameProduct(p, a, b, c, d)
<1>1. PICK u \in Int : (a % p) * (c % p) = a * c + p * u
  BY ProductStep
<1>2. PICK v \in Int : (b % p) * (d % p) = b * d + p * v
  BY ProductStep
<1> DEFINE m == a * c
           n == b * d
<1>3. u \in Int /\ v \in Int /\ m \in Int /\ n \in Int
  BY <1>1, <1>2
<1> HIDE DEF m, n
<1>4. /\ (m + p * u) - (n + p * v) = (m - n) + p * (u - v)
      /\ (m + p * u) + (n + p * v) = (m + n) + p * (u + v)
  BY <1>3
<1>5. /\ ((m - n) + p * (u - v)) % p = (m - n) % p
      /\ ((m + n) + p * (u + v)) % p = (m + n) % p
  <2>1. m - n \in Int /\ u - v \in Int /\ m + n \in Int /\ u + v \in Int
    BY <1>3
  <2> QED BY <2>1, ModShift
<1> QED BY <1>1, <1>2, <1>4, <1>5 DEF m, n, SameProduct

LEMMA TimesResidues ==
  ASSUME NEW a \in Int, NEW b \in Int, NEW c \in Int, NEW d \in Int
  PROVE  Times(Residues(a, b), Residues(c, d)) = Residues(a * c - b * d, a * d + b * c)
<1>1. SameProduct(Prime, a, b, c, d) /\ SameProduct(Prime, a, b, d, c)
  BY PrimePositive, ProductResidue
<1> QED BY <1>1 DEF SameProduct, Times, Residues

(* A value is the residues of two numbers. *)
LEMMA ValuePick ==
  ASSUME NEW x \in Value
  PROVE  \E a, b \in Int : x = Residues(a, b)
BY ValueParts, ValueResidues

(* The operations on values that are given as residues. *)
LEMMA OpsAs ==
  ASSUME NEW x \in Value, NEW y \in Value, NEW a \in Int, NEW b \in Int,
         NEW c \in Int, NEW d \in Int, x = Residues(a, b), y = Residues(c, d)
  PROVE  /\ Plus(x, y) = Residues(a + c, b + d)
         /\ Minus(x, y) = Residues(a - c, b - d)
         /\ Times(x, y) = Residues(a * c - b * d, a * d + b * c)
<1>1. Plus(x, y) = Residues(a + c, b + d)
  BY PlusResidues
<1>2. Minus(x, y) = Residues(a - c, b - d)
  BY MinusResidues
<1>3. Times(x, y) = Residues(a * c - b * d, a * d + b * c)
  BY TimesResidues
<1> QED BY <1>1, <1>2, <1>3

LEMMA OpsType ==
  ASSUME NEW x \in Value, NEW y \in Value
  PROVE  /\ Plus(x, y) \in Value /\ Minus(x, y) \in Value /\ Times(x, y) \in Value
         /\ Crossed(x, y) \in Value /\ Conj(x) \in Value
<1>1. /\ x[1] \in Int /\ x[2] \in Int /\ y[1] \in Int /\ y[2] \in Int
  BY ValueParts
<1>2. /\ x[1] + y[1] \in Int /\ x[2] + y[2] \in Int /\ x[1] - y[1] \in Int /\ x[2] - y[2] \in Int
      /\ x[1] * y[1] - x[2] * y[2] \in Int /\ x[1] * y[1] + x[2] * y[2] \in Int
      /\ x[1] * y[2] + x[2] * y[1] \in Int /\ -x[2] \in Int
  BY <1>1
<1> QED BY <1>1, <1>2, ResiduesType DEF Plus, Minus, Times, Crossed, Conj

LEMMA TimesComm ==
  ASSUME NEW x \in Value, NEW y \in Value
  PROVE  Times(x, y) = Times(y, x)
<1>1. /\ x[1] \in Int /\ x[2] \in Int /\ y[1] \in Int /\ y[2] \in Int
  BY ValueParts
<1>2. /\ x[1] * y[1] - x[2] * y[2] = y[1] * x[1] - y[2] * x[2]
      /\ x[1] * y[2] + x[2] * y[1] = y[1] * x[2] + y[2] * x[1]
  BY <1>1
<1> QED BY <1>2 DEF Times

LEMMA TimesAssoc ==
  ASSUME NEW x \in Value, NEW y \in Value, NEW z \in Value
  PROVE  Times(Times(x, y), z) = Times(x, Times(y, z))
<1>1. PICK a, b \in Int : x = Residues(a, b)
  BY ValuePick
<1>2. PICK c, d \in Int : y = Residues(c, d)
  BY ValuePick
<1>3. PICK e, f \in Int : z = Residues(e, f)
  BY ValuePick
<1> DEFINE m == a * c - b * d
           n == a * d + b * c
           p == c * e - d * f
           q == c * f + d * e
<1>4. a \in Int /\ b \in Int /\ c \in Int /\ d \in Int /\ e \in Int /\ f \in Int
  BY <1>1, <1>2, <1>3
<1>5. m \in Int /\ n \in Int /\ p \in Int /\ q \in Int
  BY <1>4
<1>6. Times(x, y) = Residues(m, n) /\ Times(y, z) = Residues(p, q)
  <2>1. Times(x, y) = Residues(m, n)
    BY <1>1, <1>2, <1>4, OpsAs
  <2>2. Times(y, z) = Residues(p, q)
    BY <1>2, <1>3, <1>4, OpsAs
  <2> QED BY <2>1, <2>2
<1>7. /\ m * e - n * f = a * p - b * q
      /\ m * f + n * e = a * q + b * p
  BY <1>4
<1> HIDE DEF m, n, p, q
<1>8. Times(Residues(m, n), z) = Residues(m * e - n * f, m * f + n * e)
  BY <1>3, <1>4, <1>5, TimesResidues
<1>9. Times(x, Residues(p, q)) = Residues(a * p - b * q, a * q + b * p)
  BY <1>1, <1>4, <1>5, TimesResidues
<1> QED BY <1>6, <1>7, <1>8, <1>9

LEMMA TimesPlus ==
  ASSUME NEW x \in Value, NEW y \in Value, NEW z \in Value
  PROVE  /\ Times(x, Plus(y, z)) = Plus(Times(x, y), Times(x, z))
         /\ Times(x, Minus(y, z)) = Minus(Times(x, y), Times(x, z))
<1>1. PICK a, b \in Int : x = Residues(a, b)
  BY ValuePick
<1>2. PICK c, d \in Int : y = Residues(c, d)
  BY ValuePick
<1>3. PICK e, f \in Int : z = Residues(e, f)
  BY ValuePick
<1> DEFINE m == a * c - b * d
           n == a * d + b * c
           p == a * e - b * f
           q == a * f + b * e
<1>4. a \in Int /\ b \in Int /\ c \in Int /\ d \in Int /\ e \in Int /\ f \in Int
  BY <1>1, <1>2, <1>3
<1>5. m \in Int /\ n \in Int /\ p \in Int /\ q \in Int
  BY <1>4
<1>6. Times(x, y) = Residues(m, n) /\ Times(x, z) = Residues(p, q)
  <2>1. Times(x, y) = Residues(m, n)
    BY <1>1, <1>2, <1>4, OpsAs
  <2>2. Times(x, z) = Residues(p, q)
    BY <1>1, <1>3, <1>4, OpsAs
  <2> QED BY <2>1, <2>2
<1>7. /\ a * (c + e) - b * (d + f) = m + p /\ a * (d + f) + b * (c + e) = n + q
      /\ a * (c - e) - b * (d - f) = m - p /\ a * (d - f) + b * (c - e) = n - q
  BY <1>4
<1> HIDE DEF m, n, p, q
<1>8. /\ Plus(Residues(m, n), Residues(p, q)) = Residues(m + p, n + q)
      /\ Minus(Residues(m, n), Residues(p, q)) = Residues(m - p, n - q)
  BY <1>5, PlusResidues, MinusResidues
<1>9. /\ Plus(y, z) = Residues(c + e, d + f) /\ Minus(y, z) = Residues(c - e, d - f)
      /\ c + e \in Int /\ d + f \in Int /\ c - e \in Int /\ d - f \in Int
  <2>1. Plus(y, z) = Residues(c + e, d + f) /\ Minus(y, z) = Residues(c - e, d - f)
    BY <1>2, <1>3, <1>4, OpsAs
  <2> QED BY <1>4, <2>1
<1>10. Times(x, Residues(c + e, d + f))
         = Residues(a * (c + e) - b * (d + f), a * (d + f) + b * (c + e))
  BY <1>1, <1>4, <1>9, TimesResidues
<1>11. Times(x, Residues(c - e, d - f))
         = Residues(a * (c - e) - b * (d - f), a * (d - f) + b * (c - e))
  BY <1>1, <1>4, <1>9, TimesResidues
<1> QED BY <1>6, <1>7, <1>8, <1>9, <1>10, <1>11

LEMMA TimesExchange ==
  ASSUME NEW x \in Value, NEW y \in Value, NEW z \in Value
  PROVE  Times(x, Times(y, z)) = Times(y, Times(x, z))
<1>1. Times(Times(x, y), z) = Times(x, Times(y, z)) /\ Times(Times(y, x), z) = Times(y, Times(x, z))
  BY TimesAssoc
<1>2. Times(x, y) = Times(y, x)
  BY TimesComm
<1> QED BY <1>1, <1>2

LEMMA MinusTimes ==
  ASSUME NEW m \in Value, NEW a \in Value, NEW n \in Value, NEW z \in Value
  PROVE  Times(Minus(m, Times(a, n)), z) = Minus(Times(m, z), Times(a, Times(n, z)))
<1> DEFINE q == Times(a, n)
<1>1. q \in Value /\ Minus(m, q) \in Value
  <2>1. q \in Value
    BY OpsType
  <2> QED BY <2>1, OpsType
<1>2. Times(q, z) = Times(a, Times(n, z))
  BY TimesAssoc
<1> HIDE DEF q
<1>3. Times(Minus(m, q), z) = Times(z, Minus(m, q))
  BY <1>1, TimesComm
<1>4. Times(z, Minus(m, q)) = Minus(Times(z, m), Times(z, q))
  BY <1>1, TimesPlus
<1>5. Times(z, m) = Times(m, z) /\ Times(z, q) = Times(q, z)
  BY <1>1, TimesComm
<1> QED BY <1>2, <1>3, <1>4, <1>5 DEF q

LEMMA MinusPlus ==
  ASSUME NEW x \in Value, NEW y \in Value, NEW u \in Value, NEW v \in Value
  PROVE  Minus(Plus(x, y), Plus(u, v)) = Plus(Minus(x, u), Minus(y, v))
<1>1. PICK a, b \in Int : x = Residues(a, b)
  BY ValuePick
<1>2. PICK c, d \in Int : y = Residues(c, d)
  BY ValuePick
<1>3. PICK e, f \in Int : u = Residues(e, f)
  BY ValuePick
<1>4. PICK g, h \in Int : v = Residues(g, h)
  BY ValuePick
<1>5. /\ a \in Int /\ b \in Int /\ c \in Int /\ d \in Int
      /\ e \in Int /\ f \in Int /\ g \in Int /\ h \in Int
  BY <1>1, <1>2, <1>3, <1>4
<1>6. /\ Plus(x, y) = Residues(a + c, b + d) /\ Plus(u, v) = Residues(e + g, f + h)
      /\ Minus(x, u) = Residues(a - e, b - f) /\ Minus(y, v) = Residues(c - g, d - h)
  <2>1. Plus(x, y) = Residues(a + c, b + d)
    BY <1>1, <1>2, <1>5, OpsAs
  <2>2. Plus(u, v) = Residues(e + g, f + h)
    BY <1>3, <1>4, <1>5, OpsAs
  <2>3. Minus(x, u) = Residues(a - e, b - f)
    BY <1>1, <1>3, <1>5, OpsAs
  <2>4. Minus(y, v) = Residues(c - g, d - h)
    BY <1>2, <1>4, <1>5, OpsAs
  <2> QED BY <2>1, <2>2, <2>3, <2>4
<1>7. Minus(Residues(a + c, b + d), Residues(e + g, f + h))
        = Residues((a + c) - (e + g), (b + d) - (f + h))
  BY <1>5, MinusResidues
<1>8. Plus(Residues(a - e, b - f), Residues(c - g, d - h))
        = Residues((a - e) + (c - g), (b - f) + (d - h))
  BY <1>5, PlusResidues
<1>9. /\ (a + c) - (e + g) = (a - e) + (c - g)
      /\ (b + d) - (f + h) = (b - f) + (d - h)
  BY <1>5
<1> QED BY <1>6, <1>7, <1>8, <1>9

LEMMA ConjOps ==
  ASSUME NEW x \in Value, NEW y \in Value
  PROVE  /\ Conj(Plus(x, y)) = Plus(Conj(x), Conj(y))
         /\ Conj(Minus(x, y)) = Minus(Conj(x), Conj(y))
         /\ Conj(Times(x, y)) = Times(Conj(x), Conj(y))
         /\ Conj(Conj(x)) = x
<1>1. PICK a, b \in Int : x = Residues(a, b)
  BY ValuePick
<1>2. PICK c, d \in Int : y = Residues(c, d)
  BY ValuePick
<1>3. a \in Int /\ b \in Int /\ c \in Int /\ d \in Int /\ -b \in Int /\ -d \in Int
  BY <1>1, <1>2
<1>4. Conj(x) = Residues(a, -b) /\ Conj(y) = Residues(c, -d)
  BY <1>1, <1>2, <1>3, ConjResidues
<1>5. Conj(Plus(x, y)) = Plus(Conj(x), Conj(y))
  <2>1. Plus(x, y) = Residues(a + c, b + d)
    BY <1>1, <1>2, <1>3, PlusResidues
  <2>2. Conj(Residues(a + c, b + d)) = Residues(a + c, -(b + d))
    BY <1>3, ConjResidues
  <2>3. Plus(Residues(a, -b), Residues(c, -d)) = Residues(a + c, (-b) + (-d))
    BY <1>3, PlusResidues
  <2>4. -(b + d) = (-b) + (-d)
    BY <1>3
  <2> QED BY <1>4, <2>1, <2>2, <2>3, <2>4
<1>6. Conj(Minus(x, y)) = Minus(Conj(x), Conj(y))
  <2>1. Minus(x, y) = Residues(a - c, b - d)
    BY <1>1, <1>2, <1>3, MinusResidues
  <2>2. Conj(Residues(a - c, b - d)) = Residues(a - c, -(b - d))
    BY <1>3, ConjResidues
  <2>3. Minus(Residues(a, -b), Residues(c, -d)) = Residues(a - c, (-b) - (-d))
    BY <1>3, MinusResidues
  <2>4. -(b - d) = (-b) - (-d)
    BY <1>3
  <2> QED BY <1>4, <2>1, <2>2, <2>3, <2>4
<1>7. Conj(Times(x, y)) = Times(Conj(x), Conj(y))
  <2> DEFINE m == a * c - b * d
             n == a * d + b * c
  <2>1. Times(x, y) = Residues(m, n) /\ m \in Int /\ n \in Int
    BY <1>1, <1>2, <1>3, TimesResidues
  <2>2. Conj(Residues(m, n)) = Residues(m, -n)
    BY <2>1, ConjResidues
  <2>3. Times(Residues(a, -b), Residues(c, -d)) = Residues(a * c - (-b) * (-d), a * (-d) + (-b) * c)
    BY <1>3, TimesResidues
  <2>4. a * c - (-b) * (-d) = m /\ a * (-d) + (-b) * c = -n
    BY <1>3
  <2> HIDE DEF m, n
  <2> QED BY <1>4, <2>1, <2>2, <2>3, <2>4
<1>8. Conj(Conj(x)) = x
  <2>1. Conj(Residues(a, -b)) = Residues(a, -(-b))
    BY <1>3, ConjResidues
  <2>2. -(-b) = b
    BY <1>3
  <2> QED BY <1>1, <1>4, <2>1, <2>2
<1> QED BY <1>5, <1>6, <1>7, <1>8

-----------------------------------------------------------------------------
(* Zero, One and real values. *)

LEMMA UnitsType == Zero \in Value /\ One \in Value
BY PrimePositive DEF Zero, One, Value

LEMMA MinusSelf ==
  ASSUME NEW x \in Value
  PROVE  Minus(x, x) = Zero
<1>1. x[1] - x[1] = 0 /\ x[2] - x[2] = 0
  BY ValueParts
<1>2. 0 % Prime = 0
  BY PrimePositive, SmallResidue
<1> QED BY <1>1, <1>2 DEF Minus, Residues, Zero

LEMMA Units ==
  ASSUME NEW x \in Value
  PROVE  /\ Plus(x, Zero) = x /\ Plus(Zero, x) = x
         /\ Minus(x, Zero) = x /\ Minus(x, x) = Zero
         /\ Times(x, One) = x /\ Times(One, x) = x
         /\ Times(x, Zero) = Zero /\ Times(Zero, x) = Zero
         /\ Conj(Zero) = Zero
<1>1. x[1] \in Int /\ x[2] \in Int /\ x = Residues(x[1], x[2])
  BY ValueParts, ValueResidues
<1>2. 0 % Prime = 0
  BY PrimePositive, SmallResidue
<1> DEFINE a == x[1]
           b == x[2]
<1>3. Plus(x, Zero) = Residues(a + 0, b + 0) /\ Plus(Zero, x) = Residues(0 + a, 0 + b)
  BY DEF Plus, Zero
<1>4. Minus(x, Zero) = Residues(a - 0, b - 0) 
  BY DEF Minus, Zero
<1>5. /\ Times(x, One) = Residues(a * 1 - b * 0, a * 0 + b * 1)
      /\ Times(One, x) = Residues(1 * a - 0 * b, 1 * b + 0 * a)
  BY DEF Times, One
<1>6. /\ Times(x, Zero) = Residues(a * 0 - b * 0, a * 0 + b * 0)
      /\ Times(Zero, x) = Residues(0 * a - 0 * b, 0 * b + 0 * a)
  BY DEF Times, Zero
<1>7. a \in Int /\ b \in Int /\ x = Residues(a, b)
  BY <1>1
<1> HIDE DEF a, b
<1>8. /\ a + 0 = a /\ b + 0 = b /\ 0 + a = a /\ 0 + b = b
      /\ a - 0 = a /\ b - 0 = b 
      /\ a * 1 - b * 0 = a /\ a * 0 + b * 1 = b /\ 1 * a - 0 * b = a /\ 1 * b + 0 * a = b
      /\ a * 0 - b * 0 = 0 /\ a * 0 + b * 0 = 0 /\ 0 * a - 0 * b = 0 /\ 0 * b + 0 * a = 0
  BY <1>7
<1>9. Residues(0, 0) = Zero
  BY <1>2 DEF Residues, Zero
<1>10. Conj(Zero) = Zero
  <2>1. Minus(x, x) = Zero
    BY MinusSelf
  <2>2. Conj(x) \in Value /\ Conj(Minus(x, x)) = Minus(Conj(x), Conj(x))
    BY OpsType, ConjOps
  <2>3. Minus(Conj(x), Conj(x)) = Zero
    BY <2>2, MinusSelf
  <2> QED BY <2>1, <2>2, <2>3
<1> QED BY <1>3, <1>4, <1>5, <1>6, <1>7, <1>8, <1>9, <1>10, MinusSelf

(* With a real second factor the sign of Crossed does not matter. *)
LEMMA CrossedReal ==
  ASSUME NEW x \in Value, NEW y \in Value, y[2] = 0
  PROVE  Crossed(x, y) = Times(x, y)
<1>1. x[1] * y[1] + x[2] * y[2] = x[1] * y[1] - x[2] * y[2]
  <2>1. x[1] * y[1] \in Int /\ x[2] * 0 = 0
    BY ValueParts
  <2> QED BY <2>1
<1> QED BY <1>1 DEF Crossed, Times

(* The real values are closed under the operations. *)
LEMMA RealOps ==
  ASSUME NEW x \in Value, NEW y \in Value, x[2] = 0, y[2] = 0
  PROVE  Times(x, y)[2] = 0 /\ Minus(x, y)[2] = 0
<1>1. 0 % Prime = 0
  BY PrimePositive, SmallResidue
<1>2. x[1] * y[2] + x[2] * y[1] = 0 /\ x[2] - y[2] = 0
  BY ValueParts
<1> QED BY <1>1, <1>2 DEF Times, Minus, Residues

(* Prime is odd. *)
LEMMA PrimeOdd ==
  ASSUME NEW k \in Int
  PROVE  2 * k # Prime
<1> SUFFICES ASSUME 2 * k = Prime PROVE FALSE
  OBVIOUS
<1>1. PICK e \in 1 .. Prime - 1 : (e * 2) % Prime = 1
  <2>1. 2 \in 1 .. Prime - 1
    BY PrimePositive
  <2>2. \A d \in 1 .. Prime - 1 : \E e \in 1 .. Prime - 1 : (e * d) % Prime = 1
    BY TablesAssumption
  <2> QED BY <2>1, <2>2
<1>2. e * 2 \in Int /\ Prime \in Nat \ {0}
  <2>1. e \in 1 .. Prime - 1 /\ Prime \in Nat \ {0}
    BY PrimePositive, <1>1
  <2> QED BY <2>1
<1>3. PICK q \in Int, b \in 0 .. Prime - 1 : e * 2 = Prime * q + b /\ ((e * 2) % Prime) = b
  BY <1>2, Division
<1>4. e * 2 = Prime * q + 1
  BY <1>1, <1>3
<1>5. e \in Int /\ q \in Int
  BY <1>1, <1>3
<1> DEFINE z == k * q
<1>6. Prime * q = 2 * z /\ z \in Int
  BY <1>5
<1> HIDE DEF z
<1> QED BY <1>4, <1>5, <1>6

(* A value that is its own conjugate is real. *)
LEMMA SelfConj ==
  ASSUME NEW x \in Value, Conj(x) = x
  PROVE  x[2] = 0
<1>1. x[2] \in 0 .. Prime - 1 /\ Prime \in Nat \ {0}
  BY ValueParts, PrimePositive
<1>2. (-x[2]) % Prime = x[2]
  BY DEF Conj, Residues
<1> DEFINE b == x[2]
<1>3. PICK q \in Int, c \in 0 .. Prime - 1 : -b = Prime * q + c /\ ((-b) % Prime) = c
  BY <1>1, Division, -b \in Int
<1>4. b \in 0 .. Prime - 1 /\ -b = Prime * q + b /\ q \in Int
  BY <1>1, <1>2, <1>3
<1> HIDE DEF b
<1>5. Prime * (-q) = b + b
  BY <1>1, <1>4
<1> DEFINE m == -q
<1>6. m \in Int /\ Prime * m = b + b
  BY <1>4, <1>5
<1> HIDE DEF m
<1>7. m = 0 \/ m = 1
  <2>1. CASE m >= 2
    <3>1. Prime * m >= Prime * 2
      BY <1>1, <1>6, <2>1
    <3> QED BY <1>1, <1>4, <1>6, <3>1
  <2>2. CASE m <= -1
    <3>1. Prime * m <= Prime * (-1)
      BY <1>1, <1>6, <2>2
    <3> QED BY <1>1, <1>4, <1>6, <3>1
  <2> QED BY <1>6, <2>1, <2>2
<1>8. m # 1
  <2>1. 2 * b # Prime
    BY PrimeOdd, <1>4
  <2> QED BY <1>1, <1>4, <1>6, <2>1
<1>9. b = 0
  BY <1>1, <1>4, <1>6, <1>7, <1>8
<1> QED BY <1>9 DEF b

(* Division by a real number that is not zero is multiplication by a real one, and
   then rounding; it gives a value, keeps 0 and 1, and keeps real values real. *)
Divides(d, e) ==
  /\ e \in Value /\ e[2] = 0
  /\ Exact => \A x \in Value : Over(x, d) = Times(x, e)
  /\ \A x \in Value : Over(x, d) \in Value /\ (x[2] = 0 => Over(x, d)[2] = 0)
  /\ Over(<<d, 0>>, d) = One
  /\ Over(Zero, d) = Zero

LEMMA OverTimes ==
  ASSUME NEW d \in 1 .. Prime - 1, ceil6 \in Roundings
  PROVE  \E e : Divides(d, e)
<1> DEFINE e == CHOOSE e \in 1 .. Prime - 1 : (e * d) % Prime = 1
<1>1. e \in 1 .. Prime - 1 /\ ((e * d) % Prime) = 1
  BY TablesAssumption
<1>2. \A x : Over(x, d) = <<ceil6[(x[1] * e) % Prime], ceil6[(x[2] * e) % Prime]>>
  BY DEF Over
<1> HIDE DEF e
<1>3. <<e, 0>> \in Value /\ <<e, 0>>[2] = 0
  BY <1>1, PrimePositive DEF Value
<1>4. /\ ceil6 \in [0 .. Prime - 1 -> 0 .. Prime - 1]
      /\ ceil6[0] = 0 /\ ceil6[1] = 1
  BY TablesAssumption
<1>5. ASSUME NEW x \in Value
      PROVE  /\ x[1] * e \in Int /\ x[2] * e \in Int
             /\ ((x[1] * e) % Prime) \in 0 .. Prime - 1 /\ ((x[2] * e) % Prime) \in 0 .. Prime - 1
  <2>1. x[1] * e \in Int /\ x[2] * e \in Int
    BY <1>1, ValueParts
  <2> QED BY <2>1, PrimePositive, ResidueType
<1>6. ASSUME Exact, NEW x \in Value PROVE Over(x, d) = Times(x, <<e, 0>>)
  <2>1. x[1] * e - x[2] * 0 = x[1] * e /\ x[1] * 0 + x[2] * e = x[2] * e
    BY ValueParts, <1>1
  <2>2. /\ ceil6[(x[1] * e) % Prime] = (x[1] * e) % Prime
        /\ ceil6[(x[2] * e) % Prime] = (x[2] * e) % Prime
    BY <1>5, <1>6 DEF Exact
  <2>3. Over(x, d) = <<(x[1] * e) % Prime, (x[2] * e) % Prime>>
    BY <1>2, <2>2
  <2> QED BY <2>1, <2>3 DEF Times, Residues
<1>7. 0 % Prime = 0 /\ 0 * e = 0 /\ d * e = e * d
  BY <1>1, PrimePositive, SmallResidue
<1>8. ASSUME NEW x \in Value PROVE Over(x, d) \in Value
  <2> DEFINE a == (x[1] * e) % Prime
             b == (x[2] * e) % Prime
  <2>1. a \in 0 .. Prime - 1 /\ b \in 0 .. Prime - 1
    BY <1>5
  <2>2. Over(x, d) = <<ceil6[a], ceil6[b]>>
    BY <1>2
  <2> HIDE DEF a, b
  <2> QED BY <1>4, <2>1, <2>2 DEF Value
<1>9. ASSUME NEW x \in Value, x[2] = 0 PROVE Over(x, d)[2] = 0
  BY <1>2, <1>4, <1>7, <1>9
<1>10. Over(<<d, 0>>, d) = One
  <2>1. ((d * e) % Prime) = 1 /\ ((0 * e) % Prime) = 0
    BY <1>1, <1>7
  <2>2. Over(<<d, 0>>, d) = <<ceil6[(d * e) % Prime], ceil6[(0 * e) % Prime]>>
    BY <1>2
  <2> QED BY <1>4, <2>1, <2>2 DEF One
<1>11. Over(Zero, d) = Zero
  <2>1. ((0 * e) % Prime) = 0
    BY <1>7
  <2>2. Over(<<0, 0>>, d) = <<ceil6[(0 * e) % Prime], ceil6[(0 * e) % Prime]>>
    BY <1>2
  <2> QED BY <1>4, <2>1, <2>2 DEF Zero
<1>12. Divides(d, <<e, 0>>)
  BY <1>3, <1>6, <1>8, <1>9, <1>10, <1>11 DEF Divides
<1> QED BY <1>12

-----------------------------------------------------------------------------
(* Total. *)

(* s satisfies the recursion of Total. *)
Sums(f, n, s) == s = [k \in 0 .. n |-> IF k = 0 THEN Zero ELSE Plus(s[k - 1], f[k - 1])]

LEMMA SumsFacts ==
  ASSUME NEW f, NEW n \in Nat, NEW s, Sums(f, n, s)
  PROVE  s[0] = Zero /\ \A k \in 1 .. n : s[k] = Plus(s[k - 1], f[k - 1])
<1>1. \A k \in 0 .. n : s[k] = IF k = 0 THEN Zero ELSE Plus(s[k - 1], f[k - 1])
  BY DEF Sums
<1> QED BY <1>1

LEMMA SumsExist ==
  ASSUME NEW f
  PROVE  \A n \in Nat : \E s : Sums(f, n, s)
<1> DEFINE S == {n \in Nat : \E s : Sums(f, n, s)}
<1>1. 0 \in S
  <2> DEFINE s == [k \in 0 .. 0 |-> Zero]
  <2>1. Sums(f, 0, s)
    BY DEF Sums
  <2> QED BY <2>1
<1>2. ASSUME NEW n \in S PROVE n + 1 \in S
  <2>1. PICK s : Sums(f, n, s)
    OBVIOUS
  <2>2. s[0] = Zero /\ \A k \in 1 .. n : s[k] = Plus(s[k - 1], f[k - 1])
    BY <2>1, SumsFacts
  <2> DEFINE g == [k \in 0 .. n + 1 |-> IF k = n + 1 THEN Plus(s[n], f[n]) ELSE s[k]]
  <2>3. g[0] = Zero
    BY <2>2
  <2>4. ASSUME NEW k \in 1 .. n + 1 PROVE g[k] = Plus(g[k - 1], f[k - 1])
    <3>1. CASE k = n + 1
      BY <3>1
    <3>2. CASE k # n + 1
      <4>1. k \in 1 .. n /\ k - 1 \in 0 .. n
        BY <3>2
      <4>2. g[k] = s[k] /\ g[k - 1] = s[k - 1]
        BY <4>1
      <4> QED BY <2>2, <4>1, <4>2
    <3> QED BY <3>1, <3>2
  <2>5. g = [k \in 0 .. n + 1 |-> g[k]]
    OBVIOUS
  <2>6. n \in Nat
    OBVIOUS
  <2> HIDE DEF g, S
  <2>7. \A k \in 0 .. n + 1 : g[k] = IF k = 0 THEN Zero ELSE Plus(g[k - 1], f[k - 1])
    BY <2>3, <2>4, <2>6
  <2>8. Sums(f, n + 1, g)
    BY <2>5, <2>7 DEF Sums
  <2> QED BY <2>6, <2>8 DEF S
<1>3. \A n \in Nat : n \in S
  <2> HIDE DEF S
  <2>1. S \in SUBSET Nat
    BY DEF S
  <2> QED BY <1>1, <1>2, <2>1, SetInduction
<1> QED BY <1>3

(* Two solutions agree as far as both go. *)
LEMMA SumsAgree ==
  ASSUME NEW f, NEW m \in Nat, NEW n \in Nat, NEW s, NEW g, Sums(f, m, s), Sums(f, n, g)
  PROVE  \A k \in Nat : k <= m /\ k <= n => s[k] = g[k]
<1> DEFINE S == {k \in Nat : k <= m /\ k <= n => s[k] = g[k]}
<1>1. /\ s[0] = Zero /\ \A k \in 1 .. m : s[k] = Plus(s[k - 1], f[k - 1])
      /\ g[0] = Zero /\ \A k \in 1 .. n : g[k] = Plus(g[k - 1], f[k - 1])
  BY SumsFacts
<1>2. 0 \in S
  BY <1>1
<1>3. ASSUME NEW k \in S PROVE k + 1 \in S
  <2> SUFFICES ASSUME k + 1 <= m, k + 1 <= n PROVE s[k + 1] = g[k + 1]
    OBVIOUS
  <2>1. s[k] = g[k]
    OBVIOUS
  <2>2. k + 1 \in 1 .. m /\ k + 1 \in 1 .. n /\ (k + 1) - 1 = k
    OBVIOUS
  <2> QED BY <1>1, <2>1, <2>2
<1>4. \A k \in Nat : k \in S
  <2> HIDE DEF S
  <2>1. S \in SUBSET Nat
    BY DEF S
  <2> QED BY <1>2, <1>3, <2>1, SetInduction
<1> QED BY <1>4

LEMMA TotalSums ==
  ASSUME NEW f, NEW n \in Nat
  PROVE  \E s : Sums(f, n, s) /\ Total(f, n) = s[n]
<1>1. \E s : Sums(f, n, s)
  BY SumsExist
<1>2. Sums(f, n, CHOOSE s : Sums(f, n, s))
  BY <1>1
<1> QED BY <1>2 DEF Total, Sums

(* Total, term by term. *)
LEMMA TotalStep ==
  ASSUME NEW f
  PROVE  /\ Total(f, 0) = Zero
         /\ \A n \in Nat : Total(f, n + 1) = Plus(Total(f, n), f[n])
<1>1. Total(f, 0) = Zero
  <2>1. PICK s : Sums(f, 0, s) /\ Total(f, 0) = s[0]
    BY TotalSums
  <2> QED BY <2>1, SumsFacts
<1>2. ASSUME NEW n \in Nat PROVE Total(f, n + 1) = Plus(Total(f, n), f[n])
  <2>1. PICK s : Sums(f, n, s) /\ Total(f, n) = s[n]
    BY TotalSums
  <2>2. PICK g : Sums(f, n + 1, g) /\ Total(f, n + 1) = g[n + 1]
    BY TotalSums
  <2>3. g[n + 1] = Plus(g[(n + 1) - 1], f[(n + 1) - 1])
    BY <2>2, SumsFacts
  <2>4. s[n] = g[n]
    BY <2>1, <2>2, SumsAgree
  <2>5. (n + 1) - 1 = n
    OBVIOUS
  <2> QED BY <2>1, <2>2, <2>3, <2>4, <2>5
<1> QED BY <1>1, <1>2

LEMMA TotalType ==
  ASSUME NEW f, NEW n \in Nat, \A k \in 0 .. n - 1 : f[k] \in Value
  PROVE  \A k \in 0 .. n : Total(f, k) \in Value
<1> DEFINE S == {k \in Nat : k <= n => Total(f, k) \in Value}
<1>1. 0 \in S
  BY TotalStep, UnitsType
<1>2. ASSUME NEW k \in S PROVE k + 1 \in S
  <2> SUFFICES ASSUME k + 1 <= n PROVE Total(f, k + 1) \in Value
    OBVIOUS
  <2>1. Total(f, k) \in Value /\ f[k] \in Value
    OBVIOUS
  <2> QED BY <2>1, TotalStep, OpsType
<1>3. \A k \in Nat : k \in S
  <2> HIDE DEF S
  <2>1. S \in SUBSET Nat
    BY DEF S
  <2> QED BY <1>1, <1>2, <2>1, SetInduction
<1> QED BY <1>3

(* Sums of equal terms. *)
LEMMA TotalSame ==
  ASSUME NEW f, NEW g, NEW n \in Nat, \A k \in 0 .. n - 1 : f[k] = g[k]
  PROVE  Total(f, n) = Total(g, n)
<1> DEFINE S == {k \in Nat : k <= n => Total(f, k) = Total(g, k)}
<1>1. 0 \in S
  BY TotalStep
<1>2. ASSUME NEW k \in S PROVE k + 1 \in S
  <2> SUFFICES ASSUME k + 1 <= n PROVE Total(f, k + 1) = Total(g, k + 1)
    OBVIOUS
  <2>1. Total(f, k) = Total(g, k) /\ f[k] = g[k]
    OBVIOUS
  <2> QED BY <2>1, TotalStep
<1>3. \A k \in Nat : k \in S
  <2> HIDE DEF S
  <2>1. S \in SUBSET Nat
    BY DEF S
  <2> QED BY <1>1, <1>2, <2>1, SetInduction
<1> QED BY <1>3

(* The conjugate of a sum. *)
LEMMA TotalConj ==
  ASSUME NEW f, NEW g, NEW n \in Nat,
         \A k \in 0 .. n - 1 : f[k] \in Value /\ g[k] = Conj(f[k])
  PROVE  Total(g, n) = Conj(Total(f, n))
<1> DEFINE S == {k \in Nat : k <= n => Total(g, k) = Conj(Total(f, k))}
<1>0. \A k \in 0 .. n : Total(f, k) \in Value
  BY TotalType
<1>1. 0 \in S
  BY TotalStep, Units, UnitsType
<1>2. ASSUME NEW k \in S PROVE k + 1 \in S
  <2> SUFFICES ASSUME k + 1 <= n PROVE Total(g, k + 1) = Conj(Total(f, k + 1))
    OBVIOUS
  <2>1. Total(g, k) = Conj(Total(f, k)) /\ g[k] = Conj(f[k]) /\ f[k] \in Value
    OBVIOUS
  <2>2. Total(f, k) \in Value
    BY <1>0
  <2>3. Conj(Plus(Total(f, k), f[k])) = Plus(Conj(Total(f, k)), Conj(f[k]))
    BY <2>1, <2>2, ConjOps
  <2> QED BY <2>1, <2>3, TotalStep
<1>3. \A k \in Nat : k \in S
  <2> HIDE DEF S
  <2>1. S \in SUBSET Nat
    BY DEF S
  <2> QED BY <1>1, <1>2, <2>1, SetInduction
<1> QED BY <1>3

(* A multiple of a sum. *)
LEMMA TotalTimes ==
  ASSUME NEW f, NEW g, NEW n \in Nat, NEW c \in Value,
         \A k \in 0 .. n - 1 : f[k] \in Value /\ g[k] = Times(c, f[k])
  PROVE  Total(g, n) = Times(c, Total(f, n))
<1> DEFINE S == {k \in Nat : k <= n => Total(g, k) = Times(c, Total(f, k))}
<1>0. \A k \in 0 .. n : Total(f, k) \in Value
  BY TotalType
<1>1. 0 \in S
  BY TotalStep, Units
<1>2. ASSUME NEW k \in S PROVE k + 1 \in S
  <2> SUFFICES ASSUME k + 1 <= n PROVE Total(g, k + 1) = Times(c, Total(f, k + 1))
    OBVIOUS
  <2>1. Total(g, k) = Times(c, Total(f, k)) /\ g[k] = Times(c, f[k]) /\ f[k] \in Value
    OBVIOUS
  <2>2. Total(f, k) \in Value
    BY <1>0
  <2>3. Times(c, Plus(Total(f, k), f[k])) = Plus(Times(c, Total(f, k)), Times(c, f[k]))
    BY <2>1, <2>2, TimesPlus
  <2> QED BY <2>1, <2>3, TotalStep
<1>3. \A k \in Nat : k \in S
  <2> HIDE DEF S
  <2>1. S \in SUBSET Nat
    BY DEF S
  <2> QED BY <1>1, <1>2, <2>1, SetInduction
<1> QED BY <1>3

(* The difference of two sums. *)
LEMMA TotalMinus ==
  ASSUME NEW f, NEW g, NEW h, NEW n \in Nat,
         \A k \in 0 .. n - 1 : f[k] \in Value /\ g[k] \in Value /\ h[k] = Minus(f[k], g[k])
  PROVE  Total(h, n) = Minus(Total(f, n), Total(g, n))
<1> DEFINE S == {k \in Nat : k <= n => Total(h, k) = Minus(Total(f, k), Total(g, k))}
<1>0. \A k \in 0 .. n : Total(f, k) \in Value /\ Total(g, k) \in Value
  BY TotalType
<1>1. 0 \in S
  BY TotalStep, Units, UnitsType
<1>2. ASSUME NEW k \in S PROVE k + 1 \in S
  <2> SUFFICES ASSUME k + 1 <= n
               PROVE  Total(h, k + 1) = Minus(Total(f, k + 1), Total(g, k + 1))
    OBVIOUS
  <2>1. /\ Total(h, k) = Minus(Total(f, k), Total(g, k)) /\ h[k] = Minus(f[k], g[k])
        /\ f[k] \in Value /\ g[k] \in Value
    OBVIOUS
  <2>2. Total(f, k) \in Value /\ Total(g, k) \in Value
    BY <1>0
  <2>3. Minus(Plus(Total(f, k), f[k]), Plus(Total(g, k), g[k]))
          = Plus(Minus(Total(f, k), Total(g, k)), Minus(f[k], g[k]))
    BY <2>1, <2>2, MinusPlus
  <2> QED BY <2>1, <2>3, TotalStep
<1>3. \A k \in Nat : k \in S
  <2> HIDE DEF S
  <2>1. S \in SUBSET Nat
    BY DEF S
  <2> QED BY <1>1, <1>2, <2>1, SetInduction
<1> QED BY <1>3

(* A sum with one term that is not zero. *)
LEMMA TotalUnit ==
  ASSUME NEW f, NEW n \in Nat, NEW i \in 0 .. n - 1, f[i] \in Value,
         \A k \in 0 .. n - 1 : k # i => f[k] = Zero
  PROVE  Total(f, n) = f[i]
<1> DEFINE S == {k \in Nat : k <= n => Total(f, k) = IF k <= i THEN Zero ELSE f[i]}
<1>1. 0 \in S
  BY TotalStep
<1>2. ASSUME NEW k \in S PROVE k + 1 \in S
  <2> SUFFICES ASSUME k + 1 <= n
               PROVE  Total(f, k + 1) = IF k + 1 <= i THEN Zero ELSE f[i]
    OBVIOUS
  <2>1. Total(f, k) = IF k <= i THEN Zero ELSE f[i]
    OBVIOUS
  <2>2. Total(f, k + 1) = Plus(Total(f, k), f[k])
    BY TotalStep
  <2>3. Zero \in Value /\ Plus(Zero, Zero) = Zero /\ Plus(f[i], Zero) = f[i]
        /\ Plus(Zero, f[i]) = f[i]
    BY Units, UnitsType
  <2>4. CASE k = i
    BY <2>1, <2>2, <2>3, <2>4
  <2>5. CASE k # i
    <3>1. f[k] = Zero
      BY <2>5
    <3> QED BY <2>1, <2>2, <2>3, <2>5, <3>1
  <2> QED BY <2>4, <2>5
<1>3. \A k \in Nat : k \in S
  <2> HIDE DEF S
  <2>1. S \in SUBSET Nat
    BY DEF S
  <2> QED BY <1>1, <1>2, <2>1, SetInduction
<1> QED BY <1>3

-----------------------------------------------------------------------------
(* Tables. *)

Entry(m, i, j) == m.head[j][i + 1].value

(* A column that is Complete, as a sequence. *)
Column(m, j, rows) ==
  /\ m.head[j] = [n \in 1 .. rows |-> m.head[j][n]]
  /\ \A n \in 1 .. rows : m.head[j][n].row = n - 1 /\ m.head[j][n].col = j

Sized(m, rows, columns) ==
  m.rows = rows /\ m.columns = columns /\ DOMAIN m.head = 0 .. columns - 1

Whole(m, rows, columns) ==
  Sized(m, rows, columns) /\ \A j \in 0 .. columns - 1 : Column(m, j, rows)

Blank(m, rows, columns) ==
  Sized(m, rows, columns) /\ \A j \in 0 .. columns - 1 : m.head[j] = <<>>

HasValues(m, rows, columns) ==
  \A i \in 0 .. rows - 1, j \in 0 .. columns - 1 : Entry(m, i, j) \in Value

LEMMA InitBlank ==
  ASSUME NEW rows \in Nat, NEW columns \in Nat
  PROVE  Blank(table_init(rows, columns), rows, columns)
BY DEF Blank, Sized, table_init

(* A column that is a function has as many nodes as rows. *)
LEMMA ColumnLen ==
  ASSUME NEW m, NEW j, NEW rows \in Nat, Column(m, j, rows)
  PROVE  DOMAIN m.head[j] = 1 .. rows /\ Len(m.head[j]) = rows
<1> DEFINE w == m.head[j]
<1>1. w = [n \in 1 .. rows |-> w[n]]
  BY DEF Column
<1> HIDE DEF w
<1> DEFINE S == {w[n] : n \in 1 .. rows}
<1>2. w \in [1 .. rows -> S]
  BY <1>1
<1> HIDE DEF S
<1>3. w \in Seq(S) /\ Len(w) = rows /\ DOMAIN w = 1 .. rows
  BY <1>2
<1> QED BY <1>3 DEF w

LEMMA FillWhole ==
  ASSUME NEW rows \in Nat, NEW columns \in Nat, NEW value
  PROVE  /\ Whole(Fill(rows, columns, value), rows, columns)
         /\ \A i \in 0 .. rows - 1, j \in 0 .. columns - 1 :
               Entry(Fill(rows, columns, value), i, j) = value[i][j]
<1> DEFINE m == Fill(rows, columns, value)
<1>1. Sized(m, rows, columns)
  BY DEF Fill, Sized
<1>2. ASSUME NEW j \in 0 .. columns - 1
      PROVE  m.head[j] = [n \in 1 .. rows |-> node_init(value[n - 1][j], n - 1, j)]
  BY DEF Fill
<1> HIDE DEF m
<1>3. ASSUME NEW j \in 0 .. columns - 1 PROVE Column(m, j, rows)
  <2>1. m.head[j] = [n \in 1 .. rows |-> node_init(value[n - 1][j], n - 1, j)]
    BY <1>2
  <2>2. m.head[j] = [n \in 1 .. rows |-> m.head[j][n]]
    BY <2>1
  <2>3. \A n \in 1 .. rows : m.head[j][n].row = n - 1 /\ m.head[j][n].col = j
    BY <2>1 DEF node_init
  <2> QED BY <2>2, <2>3 DEF Column
<1>4. ASSUME NEW i \in 0 .. rows - 1, NEW j \in 0 .. columns - 1
      PROVE  Entry(m, i, j) = value[i][j]
  <2>1. i + 1 \in 1 .. rows /\ (i + 1) - 1 = i
    OBVIOUS
  <2>2. m.head[j][i + 1] = node_init(value[(i + 1) - 1][j], (i + 1) - 1, j)
    BY <1>2, <2>1
  <2> QED BY <2>1, <2>2 DEF Entry, node_init
<1> QED BY <1>1, <1>3, <1>4 DEF Whole, m

(* The search of At finds the node in its row. *)
LEMMA AtEntry ==
  ASSUME NEW m, NEW rows \in Nat, NEW columns \in Nat, Whole(m, rows, columns),
         NEW i \in 0 .. rows - 1, NEW j \in 0 .. columns - 1
  PROVE  At(m, i, j) = Entry(m, i, j)
<1>1. Column(m, j, rows)
  BY DEF Whole
<1>2. DOMAIN m.head[j] = 1 .. rows
  BY <1>1, ColumnLen
<1>3. \A n \in 1 .. rows : m.head[j][n].row = n - 1
  BY <1>1 DEF Column
<1>4. i + 1 \in 1 .. rows /\ m.head[j][i + 1].row = i
  BY <1>3
<1>5. (CHOOSE n \in DOMAIN m.head[j] : m.head[j][n].row = i) = i + 1
  BY <1>2, <1>3, <1>4
<1> QED BY <1>5 DEF At, Entry

LEMMA CopyRowWhole ==
  ASSUME NEW m, NEW rows \in Nat, NEW columns \in Nat, Whole(m, rows, columns),
         NEW row, NEW k \in 0 .. rows - 1
  PROVE  /\ Whole(copy_row_to_table(m, row, k), rows, columns)
         /\ \A i \in 0 .. rows - 1, j \in 0 .. columns - 1 :
               Entry(copy_row_to_table(m, row, k), i, j)
                 = IF i = k THEN row[j] ELSE Entry(m, i, j)
<1> DEFINE c == copy_row_to_table(m, row, k)
<1>0. Sized(m, rows, columns)
  BY DEF Whole
<1>1. /\ DOMAIN c.head = DOMAIN m.head /\ c.rows = m.rows /\ c.columns = m.columns
      /\ \A j \in DOMAIN m.head :
            c.head[j] = [n \in DOMAIN m.head[j] |-> IF m.head[j][n].row = k
                                                     THEN node_init(row[j], k, j)
                                                     ELSE m.head[j][n]]
  BY DEF copy_row_to_table
<1> HIDE DEF c
<1>2. Sized(c, rows, columns)
  BY <1>0, <1>1 DEF Sized
<1>3. ASSUME NEW j \in 0 .. columns - 1
      PROVE  /\ Column(c, j, rows)
             /\ \A n \in 1 .. rows : c.head[j][n] = IF n = k + 1 THEN node_init(row[j], k, j)
                                                                ELSE m.head[j][n]
  <2>1. Column(m, j, rows) /\ DOMAIN m.head[j] = 1 .. rows
    BY ColumnLen DEF Whole
  <2>2. c.head[j] = [n \in 1 .. rows |-> IF m.head[j][n].row = k THEN node_init(row[j], k, j)
                                                                ELSE m.head[j][n]]
    BY <1>0, <1>1, <2>1 DEF Sized
  <2>3. \A n \in 1 .. rows : m.head[j][n].row = n - 1 /\ m.head[j][n].col = j
    BY <2>1 DEF Column
  <2>4. ASSUME NEW n \in 1 .. rows
        PROVE  c.head[j][n] = IF n = k + 1 THEN node_init(row[j], k, j) ELSE m.head[j][n]
    <3>1. m.head[j][n].row = k <=> n = k + 1
      BY <2>3
    <3> QED BY <2>2, <3>1
  <2>5. c.head[j] = [n \in 1 .. rows |-> c.head[j][n]]
    BY <2>2
  <2>6. \A n \in 1 .. rows : c.head[j][n].row = n - 1 /\ c.head[j][n].col = j
    BY <2>3, <2>4 DEF node_init
  <2> QED BY <2>4, <2>5, <2>6 DEF Column
<1>4. ASSUME NEW i \in 0 .. rows - 1, NEW j \in 0 .. columns - 1
      PROVE  Entry(c, i, j) = IF i = k THEN row[j] ELSE Entry(m, i, j)
  <2>1. i + 1 \in 1 .. rows /\ (i + 1 = k + 1 <=> i = k)
    OBVIOUS
  <2>2. c.head[j][i + 1] = IF i + 1 = k + 1 THEN node_init(row[j], k, j) ELSE m.head[j][i + 1]
    BY <1>3, <2>1
  <2> QED BY <2>1, <2>2 DEF Entry, node_init
<1> QED BY <1>2, <1>3, <1>4 DEF Whole, c

LEMMA SubWhole ==
  ASSUME NEW m, NEW rows \in Nat, NEW columns \in Nat, Whole(m, rows, columns), NEW s
  PROVE  /\ Whole(table_sub(m, s), rows, columns)
         /\ \A i \in 0 .. rows - 1, j \in 0 .. columns - 1 :
               Entry(table_sub(m, s), i, j) = Minus(Entry(m, i, j), Entry(s, i, j))
<1> DEFINE c == table_sub(m, s)
<1>0. Sized(m, rows, columns)
  BY DEF Whole
<1>1. /\ DOMAIN c.head = DOMAIN m.head /\ c.rows = m.rows /\ c.columns = m.columns
      /\ \A j \in DOMAIN m.head :
            c.head[j] = [n \in DOMAIN m.head[j] |->
                           node_init(Minus(m.head[j][n].value, s.head[j][n].value),
                                     m.head[j][n].row, m.head[j][n].col)]
  BY DEF table_sub
<1> HIDE DEF c
<1>2. Sized(c, rows, columns)
  BY <1>0, <1>1 DEF Sized
<1>3. ASSUME NEW j \in 0 .. columns - 1
      PROVE  /\ Column(c, j, rows)
             /\ \A n \in 1 .. rows :
                   c.head[j][n].value = Minus(m.head[j][n].value, s.head[j][n].value)
  <2>1. Column(m, j, rows) /\ DOMAIN m.head[j] = 1 .. rows
    BY ColumnLen DEF Whole
  <2>2. c.head[j] = [n \in 1 .. rows |->
                       node_init(Minus(m.head[j][n].value, s.head[j][n].value),
                                 m.head[j][n].row, m.head[j][n].col)]
    BY <1>0, <1>1, <2>1 DEF Sized
  <2>3. \A n \in 1 .. rows : m.head[j][n].row = n - 1 /\ m.head[j][n].col = j
    BY <2>1 DEF Column
  <2>5. c.head[j] = [n \in 1 .. rows |-> c.head[j][n]]
    BY <2>2
  <2>6. \A n \in 1 .. rows : /\ c.head[j][n].row = n - 1 /\ c.head[j][n].col = j
                             /\ c.head[j][n].value
                                  = Minus(m.head[j][n].value, s.head[j][n].value)
    BY <2>2, <2>3 DEF node_init
  <2> QED BY <2>5, <2>6 DEF Column
<1>4. ASSUME NEW i \in 0 .. rows - 1, NEW j \in 0 .. columns - 1
      PROVE  Entry(c, i, j) = Minus(Entry(m, i, j), Entry(s, i, j))
  <2>1. i + 1 \in 1 .. rows
    OBVIOUS
  <2> QED BY <1>3, <2>1 DEF Entry
<1> QED BY <1>2, <1>3, <1>4 DEF Whole, c

(* table_mult keeps the shape of its second table. *)
LEMMA MultShape ==
  ASSUME NEW m, NEW b, NEW rows \in Nat, NEW columns \in Nat, Whole(b, rows, columns)
  PROVE  Whole(table_mult(m, b), rows, columns)
<1> DEFINE c == table_mult(m, b)
           V(j, n) == Total([k \in 0 .. m.columns - 1 |->
                               Times(m.head[k][n].value, b.head[j][n].value)], m.columns)
<1>1. /\ DOMAIN c.head = DOMAIN b.head /\ c.rows = b.rows /\ c.columns = b.columns
      /\ \A j \in DOMAIN b.head :
            c.head[j] = [n \in DOMAIN b.head[j] |->
                           node_init(V(j, n), b.head[j][n].row, b.head[j][n].col)]
  BY DEF table_mult
<1> HIDE DEF c, V
<1>2. Sized(c, rows, columns)
  BY <1>1 DEF Sized, Whole
<1>3. ASSUME NEW j \in 0 .. columns - 1 PROVE Column(c, j, rows)
  <2>1. Column(b, j, rows) /\ DOMAIN b.head[j] = 1 .. rows
    BY ColumnLen DEF Whole
  <2>2. c.head[j] = [n \in 1 .. rows |-> node_init(V(j, n), b.head[j][n].row, b.head[j][n].col)]
    BY <1>1, <2>1 DEF Sized, Whole
  <2>3. \A n \in 1 .. rows : b.head[j][n].row = n - 1 /\ b.head[j][n].col = j
    BY <2>1 DEF Column
  <2>4. \A n \in 1 .. rows : c.head[j][n].row = n - 1 /\ c.head[j][n].col = j
    BY <2>2, <2>3 DEF node_init
  <2>5. c.head[j] = [n \in 1 .. rows |-> c.head[j][n]]
    BY <2>2
  <2> QED BY <2>4, <2>5 DEF Column
<1> QED BY <1>2, <1>3 DEF Whole, c

-----------------------------------------------------------------------------
(* The inductive invariant. *)

(* The tables of main and their dimensions. *)
Names == {"IP_SIG", "CARRIERS", "CORRELATION", "MODI", "AWGN", "NOISY", "INVERSE", "ANSWER"}

Rows == [IP_SIG |-> Carriers, CARRIERS |-> Blocks, CORRELATION |-> Carriers, MODI |-> Blocks,
         AWGN |-> Blocks * Oversampling, NOISY |-> Blocks, INVERSE |-> Carriers,
         ANSWER |-> Carriers]

Columns == [IP_SIG |-> Blocks, CARRIERS |-> Carriers, CORRELATION |-> Carriers, MODI |-> Blocks,
            AWGN |-> Blocks, NOISY |-> Blocks * Oversampling, INVERSE |-> Carriers,
            ANSWER |-> Carriers]

(* What addition makes: its first column, and others with it, are filled. *)
Noisy(m) ==
  /\ Sized(m, Blocks, Blocks * Oversampling)
  /\ \A j \in 0 .. Blocks * Oversampling - 1 : Column(m, j, Blocks) \/ m.head[j] = <<>>
  /\ Column(m, 0, Blocks)

(* What main may put in the place of a table. *)
Fits(name, m) == IF name = "NOISY" THEN Noisy(m) ELSE Whole(m, Rows[name], Columns[name])

(* A table is as table_init left it until its stage, and filled from then on. *)
Shapes ==
  /\ DOMAIN t = Names
  /\ \A name \in Names : IF Made(name) THEN Fits(name, t[name])
                                       ELSE Blank(t[name], Rows[name], Columns[name])

Square(m) == Whole(m, Carriers, Carriers) /\ HasValues(m, Carriers, Carriers)
Real(m) == \A i, j \in 0 .. Carriers - 1 : Entry(m, i, j)[2] = 0
Unit(i, j) == IF i = j THEN One ELSE Zero

(* The part of m from row and column k on is its own conjugate transpose. *)
Hermitian(m, k) == \A i, j \in k .. Carriers - 1 : Entry(m, i, j) = Conj(Entry(m, j, i))

(* The columns of m before, and from k on, are those of the identity. *)
Cleared(m, k)   == \A i \in 0 .. Carriers - 1, j \in 0 .. k - 1 : Entry(m, i, j) = Unit(i, j)
Untouched(m, k) == \A i \in 0 .. Carriers - 1, j \in k .. Carriers - 1 : Entry(m, i, j) = Unit(i, j)

(* Row i, column j of the product of m and s. *)
Terms(m, s, i, j) == [k \in 0 .. Carriers - 1 |-> Times(Entry(m, i, k), Entry(s, k, j))]
Product(m, s, i, j) == Total(Terms(m, s, i, j), Carriers)

(* m times s is p. *)
Solves(m, s, p) == \A i, j \in 0 .. Carriers - 1 : Product(m, s, i, j) = Entry(p, i, j)

(* How many columns of A the rounds have cleared. *)
Through == IF r < 2 \/ Exact \/ Real(t.CORRELATION) THEN r ELSE 1

(* Where invert stands after r rounds. *)
Halfway ==
  /\ Square(A) /\ Square(Aug)
  /\ Cleared(A, Through) /\ Untouched(Aug, r)
  /\ r = 0 \/ Exact => Hermitian(A, r)
  /\ Exact /\ (r < 2 \/ Real(t.CORRELATION)) => Solves(Aug, t.CORRELATION, A)
  /\ Real(t.CORRELATION) => Real(A) /\ Real(Aug)

SInv ==
  /\ r \in 0 .. 2
  /\ stage \in DOMAIN Place
  /\ ceil6 \in Roundings
  /\ Shapes
  /\ stage \notin {"round", "infinite", "ANSWER", "done"} => r = 0
  /\ stage \notin {"IP_SIG", "CARRIERS"} =>
        Whole(t.CARRIERS, Blocks, Carriers) /\ HasValues(t.CARRIERS, Blocks, Carriers)
  /\ stage \notin {"IP_SIG", "CARRIERS", "CORRELATION"} =>
        Square(t.CORRELATION) /\ Hermitian(t.CORRELATION, 0)
  /\ stage = "copy" => t.INVERSE = identity_init(Carriers, Carriers)
  /\ stage = "round" => Halfway
  /\ stage \in {"ANSWER", "done"} => r = 2 /\ Halfway /\ t.INVERSE = Aug

-----------------------------------------------------------------------------
(* The tables main makes. *)

LEMMA Sizes ==
  /\ Carriers \in Nat /\ Carriers >= 2 /\ Blocks \in Nat /\ Blocks >= 2
  /\ Oversampling \in Nat /\ Oversampling >= 1 /\ Oversampling <= Blocks
  /\ Blocks * Oversampling \in Nat /\ Blocks * Oversampling >= Blocks
<1>1. /\ Carriers \in Nat /\ Carriers >= 2 /\ Blocks \in Nat /\ Blocks >= 2
      /\ Oversampling \in Nat /\ Oversampling >= 1 /\ Oversampling <= Blocks
  BY TablesAssumption
<1>2. Blocks * Oversampling \in Nat /\ Blocks * Oversampling >= Blocks * 1
  BY <1>1
<1> QED BY <1>1, <1>2

(* correlate makes a table that is its own conjugate transpose. *)
LEMMA CorrelateHermitian ==
  ASSUME NEW m, Whole(m, Blocks, Carriers), HasValues(m, Blocks, Carriers)
  PROVE  Square(correlate(m)) /\ Hermitian(correlate(m), 0)
<1> DEFINE c == correlate(m)
           f(i, j) == [n \in 0 .. Blocks - 1 |-> Times(Conj(Entry(m, n, j)), Entry(m, n, i))]
<1>0. m.rows = Blocks /\ m.columns = Carriers /\ Blocks \in Nat /\ Carriers \in Nat
  BY Sizes DEF Whole, Sized
<1>1. \A i, j : Correlation(m, i, j) = Total(f(i, j), Blocks)
  BY <1>0 DEF Correlation, Entry
<1>2. /\ Whole(c, Carriers, Carriers)
      /\ \A i, j \in 0 .. Carriers - 1 : Entry(c, i, j) = Total(f(i, j), Blocks)
  <2> DEFINE v == [i \in 0 .. Carriers - 1 |-> [j \in 0 .. Carriers - 1 |-> Correlation(m, i, j)]]
  <2>1. c = Fill(Carriers, Carriers, v)
    BY <1>0 DEF correlate
  <2>2. \A i, j \in 0 .. Carriers - 1 : v[i][j] = Correlation(m, i, j)
    OBVIOUS
  <2> HIDE DEF v, c, f
  <2>3. /\ Whole(Fill(Carriers, Carriers, v), Carriers, Carriers)
        /\ \A i \in 0 .. Carriers - 1, j \in 0 .. Carriers - 1 :
              Entry(Fill(Carriers, Carriers, v), i, j) = v[i][j]
    BY <1>0, FillWhole
  <2> QED BY <1>1, <2>1, <2>2, <2>3
<1> HIDE DEF c
<1>3. ASSUME NEW i \in 0 .. Carriers - 1, NEW j \in 0 .. Carriers - 1
      PROVE  Total(f(i, j), Blocks) \in Value /\ Total(f(i, j), Blocks) = Conj(Total(f(j, i), Blocks))
  <2>1. ASSUME NEW n \in 0 .. Blocks - 1
        PROVE  /\ f(i, j)[n] \in Value /\ f(j, i)[n] \in Value
               /\ f(i, j)[n] = Conj(f(j, i)[n])
    <3> DEFINE x == Entry(m, n, i)
               y == Entry(m, n, j)
    <3>1. x \in Value /\ y \in Value
      BY DEF HasValues
    <3>2. f(i, j)[n] = Times(Conj(y), x) /\ f(j, i)[n] = Times(Conj(x), y)
      OBVIOUS
    <3> HIDE DEF x, y, f
    <3>3. Conj(x) \in Value /\ Conj(y) \in Value
      BY <3>1, OpsType
    <3>4. Conj(Times(Conj(x), y)) = Times(x, Conj(y))
      BY <3>1, <3>3, ConjOps
    <3>5. Times(x, Conj(y)) = Times(Conj(y), x)
      BY <3>1, <3>3, TimesComm
    <3>6. Times(Conj(y), x) \in Value /\ Times(Conj(x), y) \in Value
      BY <3>1, <3>3, OpsType
    <3> QED BY <3>2, <3>4, <3>5, <3>6
  <2> HIDE DEF f
  <2>2. Total(f(i, j), Blocks) \in Value
    BY <1>0, <2>1, TotalType
  <2>3. Total(f(i, j), Blocks) = Conj(Total(f(j, i), Blocks))
    BY <1>0, <2>1, TotalConj
  <2> QED BY <2>2, <2>3
<1> HIDE DEF f
<1> QED BY <1>0, <1>2, <1>3 DEF Square, HasValues, Hermitian, c

LEMMA ModulateWhole ==
  ASSUME NEW m, Sized(m, Blocks, Carriers), NEW s, Sized(s, Carriers, Blocks), NEW own
  PROVE  Whole(modulate(m, s, own), Blocks, Blocks)
<1>1. m.rows = Blocks /\ s.columns = Blocks /\ Blocks \in Nat
  BY Sizes DEF Sized
<1> QED BY <1>1, FillWhole DEF modulate

LEMMA IdentityWhole ==
  /\ Square(identity_init(Carriers, Carriers))
  /\ \A i, j \in 0 .. Carriers - 1 : Entry(identity_init(Carriers, Carriers), i, j) = Unit(i, j)
<1> DEFINE v == [i \in 0 .. Carriers - 1 |-> [j \in 0 .. Carriers - 1 |->
                   IF i = j THEN One ELSE Zero]]
           c == identity_init(Carriers, Carriers)
<1>1. c = Fill(Carriers, Carriers, v)
  BY DEF identity_init
<1>2. \A i, j \in 0 .. Carriers - 1 : v[i][j] = Unit(i, j)
  BY DEF Unit
<1>3. /\ Whole(Fill(Carriers, Carriers, v), Carriers, Carriers)
      /\ \A i \in 0 .. Carriers - 1, j \in 0 .. Carriers - 1 :
            Entry(Fill(Carriers, Carriers, v), i, j) = v[i][j]
  <2> HIDE DEF v
  <2> QED BY Sizes, FillWhole
<1> HIDE DEF v, c
<1>4. \A i, j \in 0 .. Carriers - 1 : Unit(i, j) \in Value
  BY UnitsType DEF Unit
<1> QED BY <1>1, <1>2, <1>3, <1>4 DEF Square, HasValues, c

(* addition fills a column of C or leaves it empty, and fills the first. *)
LEMMA AdditionNoisy ==
  ASSUME NEW n, Whole(n, Blocks * Oversampling, Blocks), NEW m, Whole(m, Blocks, Blocks)
  PROVE  Noisy(addition(n, m))
<1> DEFINE c == addition(n, m)
           N == Blocks * Oversampling
           Noise(k) == IF k < n.columns THEN n.head[k] ELSE <<>>
           I(k) == k % Oversampling
           J(k) == k \div Oversampling
           K(k) == J(k) + I(k) * Oversampling
           Sum(u, w, k) == [p \in DOMAIN u \cap DOMAIN w |->
                              node_init(Plus(u[p].value, w[p].value), u[p].row, k)]
<1>0. /\ Sized(n, N, Blocks) /\ Sized(m, Blocks, Blocks)
      /\ Blocks \in Nat /\ Blocks >= 2 /\ N \in Nat /\ N >= Blocks
      /\ Oversampling \in Nat /\ Oversampling >= 1
  BY Sizes DEF Whole
<1>1. /\ Sized(c, Blocks, N)
      /\ \A k \in 0 .. N - 1 : c.head[k] = Sum(Noise(K(k)), m.head[J(k)], k)
  BY <1>0 DEF addition, table_init, Sized
<1>2. ASSUME NEW k \in 0 .. N - 1
      PROVE  I(k) \in Nat /\ J(k) \in 0 .. Blocks - 1 /\ K(k) \in Nat
  <2> DEFINE q == J(k)
             b == I(k)
  <2>1. k = q * Oversampling + b /\ b \in 0 .. Oversampling - 1 /\ q \in Nat
    BY <1>0
  <2> HIDE DEF q, b
  <2>2. q < Blocks
    <3> SUFFICES ASSUME q >= Blocks PROVE FALSE
      BY <1>0, <2>1
    <3>1. q * Oversampling >= Blocks * Oversampling
      BY <1>0, <2>1
    <3>2. q * Oversampling \in Nat
      BY <1>0, <2>1
    <3>3. k < N /\ k \in Nat
      BY <1>0
    <3> QED BY <1>0, <2>1, <3>1, <3>2, <3>3
  <2>3. q \in 0 .. Blocks - 1 /\ b \in Nat /\ q + b * Oversampling \in Nat
    BY <1>0, <2>1, <2>2
  <2> QED BY <2>3 DEF q, b
<1>3. 0 \in 0 .. N - 1 /\ I(0) = 0 /\ J(0) = 0 /\ K(0) = 0
  BY <1>0
<1> HIDE DEF c, I, J, K
<1>4. ASSUME NEW k \in 0 .. N - 1, K(k) < Blocks
      PROVE  Column(c, k, Blocks)
  <2>1. Column(m, J(k), Blocks) /\ Column(n, K(k), N)
    BY <1>0, <1>2, <1>4 DEF Whole
  <2>2. DOMAIN m.head[J(k)] = 1 .. Blocks /\ DOMAIN n.head[K(k)] = 1 .. N
    BY <1>0, <2>1, ColumnLen
  <2>3. (1 .. N) \cap (1 .. Blocks) = 1 .. Blocks
    BY <1>0
  <2>4. Noise(K(k)) = n.head[K(k)]
    BY <1>0, <1>4 DEF Sized
  <2>5. \A p \in 1 .. Blocks : n.head[K(k)][p].row = p - 1
    BY <2>1, <2>3 DEF Column
  <2> DEFINE u == n.head[K(k)]
             w == m.head[J(k)]
  <2>6. c.head[k] = [p \in 1 .. Blocks |-> node_init(Plus(u[p].value, w[p].value), u[p].row, k)]
    BY <1>1, <2>2, <2>3, <2>4
  <2>7. \A p \in 1 .. Blocks : u[p].row = p - 1
    BY <2>5
  <2> HIDE DEF u, w
  <2>8. \A p \in 1 .. Blocks : c.head[k][p].row = p - 1 /\ c.head[k][p].col = k
    BY <2>6, <2>7 DEF node_init
  <2>9. c.head[k] = [p \in 1 .. Blocks |-> c.head[k][p]]
    BY <2>6
  <2> QED BY <2>8, <2>9 DEF Column
<1>5. ASSUME NEW k \in 0 .. N - 1, ~(K(k) < Blocks)
      PROVE  c.head[k] = <<>>
  <2>1. DOMAIN Noise(K(k)) = {}
    BY <1>0, <1>5 DEF Sized
  <2> DEFINE u == Noise(K(k))
             w == m.head[J(k)]
  <2>2. c.head[k] = [p \in DOMAIN u \cap DOMAIN w |->
                       node_init(Plus(u[p].value, w[p].value), u[p].row, k)]
    BY <1>1
  <2>3. DOMAIN u \cap DOMAIN w = {}
    BY <2>1
  <2> HIDE DEF u, w
  <2>4. c.head[k] = [p \in {} |-> node_init(Plus(u[p].value, w[p].value), u[p].row, k)]
    BY <2>2, <2>3
  <2> QED BY <2>4
<1>6. \A k \in 0 .. N - 1 : Column(c, k, Blocks) \/ c.head[k] = <<>>
  BY <1>4, <1>5
<1>7. Column(c, 0, Blocks)
  BY <1>0, <1>3, <1>4
<1> QED BY <1>1, <1>6, <1>7 DEF Noisy, c

-----------------------------------------------------------------------------
(* A round of invert. *)

LEMMA RealConj ==
  ASSUME NEW x \in Value, x[2] = 0
  PROVE  Conj(x) = x
<1>1. -x[2] = 0
  <2>1. \A b \in Int : -b = 0 - b
    OBVIOUS
  <2>2. -x[2] = 0 - x[2]
    BY <2>1, ValueParts
  <2> QED BY <2>2
<1>2. x = Residues(x[1], x[2])
  BY ValueResidues
<1> QED BY <1>1, <1>2 DEF Conj

(* Row r of m, normalised, where row is the row of m before. *)
Normal(m) ==
  \A j \in 0 .. Carriers - 1 :
    /\ Normalised(m, r)[j] \in Value
    /\ Entry(m, r, j) = Zero => Normalised(m, r)[j] = Zero
    /\ Entry(A, r, r)[2] = 0 /\ Entry(m, r, j)[2] = 0 => Normalised(m, r)[j][2] = 0

(* Quotients that are not rounded: row r is multiplied by the inverse of the pivot. *)
Scales(e) ==
  /\ e \in Value /\ e[2] = 0
  /\ \A j \in 0 .. Carriers - 1 :
       /\ Normalised(A, r)[j] = Times(Entry(A, r, j), e)
       /\ Normalised(Aug, r)[j] = Times(Entry(Aug, r, j), e)

LEMMA NormaliseRow ==
  ASSUME r \in 0 .. Carriers - 1, Square(A), Divisor(r) # 0, ceil6 \in Roundings
  PROVE  \E e : /\ Divides(Divisor(r), e)
                /\ \A m : Square(m) =>
                     /\ Normal(m)
                     /\ Entry(A, r, r)[2] = 0 =>
                          \A j \in 0 .. Carriers - 1 :
                            Normalised(m, r)[j] = Over(Entry(m, r, j), Divisor(r))
                /\ Entry(A, r, r)[2] = 0 => Normalised(A, r)[r] = One
<1> DEFINE p == Entry(A, r, r)
           C == 0 .. Carriers - 1
           d == Divisor(r)
<1>0. Carriers \in Nat /\ r \in C
  BY Sizes
<1>1. p \in Value /\ At(A, r, r) = p
  BY <1>0, AtEntry DEF Square, HasValues
<1>2. ASSUME NEW m, Square(m), NEW j \in C
      PROVE  /\ Entry(m, r, j) \in Value
             /\ Conditioned(m, r)[j] = IF p[2] # 0 THEN Times(Entry(m, r, j), p) ELSE Entry(m, r, j)
             /\ Conditioned(m, r)[j] \in Value
             /\ Normalised(m, r)[j] = Over(Conditioned(m, r)[j], d)
  <2>0. m.columns = Carriers /\ Whole(m, Carriers, Carriers)
    BY <1>2 DEF Square, Whole, Sized
  <2>1. At(m, r, j) = Entry(m, r, j)
    BY <1>0, <2>0, AtEntry
  <2>2. Conditioned(m, r)[j] = IF p[2] # 0 THEN Times(Entry(m, r, j), p) ELSE Entry(m, r, j)
    BY <1>1, <2>0, <2>1 DEF Conditioned
  <2>3. Entry(m, r, j) \in Value
    BY <1>0, <1>2 DEF Square, HasValues
  <2>4. Times(Entry(m, r, j), p) \in Value
    BY <1>1, <2>3, OpsType
  <2>5. Normalised(m, r)[j] = Over(Conditioned(m, r)[j], d)
    BY <2>0 DEF Normalised
  <2> HIDE DEF p
  <2> QED BY <2>2, <2>3, <2>4, <2>5
<1>3. d = Conditioned(A, r)[r][1] /\ d \in 1 .. Prime - 1
  <2>1. d = Conditioned(A, r)[r][1] /\ d # 0
    BY DEF Divisor
  <2>2. Conditioned(A, r)[r] \in Value
    BY <1>0, <1>2
  <2>3. Conditioned(A, r)[r][1] \in 0 .. Prime - 1
    BY <2>2, ValueParts
  <2> HIDE DEF d
  <2> QED BY <2>1, <2>3, PrimePositive
<1> HIDE DEF d
<1>4. PICK e : Divides(d, e)
  BY <1>3, OverTimes
<1> HIDE DEF p
<1>5. ASSUME NEW m, Square(m) PROVE Normal(m)
  <2> SUFFICES ASSUME NEW j \in C
               PROVE  /\ Normalised(m, r)[j] \in Value
                      /\ Entry(m, r, j) = Zero => Normalised(m, r)[j] = Zero
                      /\ p[2] = 0 /\ Entry(m, r, j)[2] = 0 => Normalised(m, r)[j][2] = 0
    BY DEF Normal, p
  <2> DEFINE x == Entry(m, r, j)
             c == Conditioned(m, r)[j]
             n == Normalised(m, r)[j]
  <2>1. /\ x \in Value /\ c \in Value /\ n = Over(c, d)
        /\ c = IF p[2] # 0 THEN Times(x, p) ELSE x
    BY <1>2, <1>5
  <2> HIDE DEF x, c, n
  <2>2. n \in Value /\ (c[2] = 0 => n[2] = 0)
    BY <1>4, <2>1 DEF Divides
  <2>3. x = Zero => c = Zero
    BY <1>1, <2>1, Units
  <2>4. c = Zero => n = Zero
    BY <1>4, <2>1 DEF Divides
  <2>5. p[2] = 0 => c = x
    BY <2>1
  <2> QED BY <2>2, <2>3, <2>4, <2>5 DEF x, n
<1>6. ASSUME NEW m, Square(m), p[2] = 0, NEW j \in C
      PROVE  Normalised(m, r)[j] = Over(Entry(m, r, j), d)
  BY <1>2, <1>6
<1>7. ASSUME p[2] = 0 PROVE Normalised(A, r)[r] = One
  <2>1. Conditioned(A, r)[r] = p /\ d = p[1]
    BY <1>0, <1>2, <1>3, <1>7 DEF p
  <2>2. p = <<d, 0>>
    BY <1>1, <1>7, <2>1, ValueParts
  <2>3. Normalised(A, r)[r] = Over(p, d)
    BY <1>0, <1>2, <2>1
  <2> QED BY <1>4, <2>2, <2>3 DEF Divides
<1> QED BY <1>4, <1>5, <1>6, <1>7 DEF d, p

(* What a round does to the two rows. *)
RowsNormal ==
  /\ Normal(A) /\ Normal(Aug)
  /\ Entry(A, r, r)[2] = 0 => Normalised(A, r)[r] = One
  /\ Exact => \E e : Scales(e)

(* The pivot is real in the first round, and in the second if nothing is rounded or
   everything is real. *)
LEMMA RealPivot ==
  ASSUME Halfway, r \in 0 .. Carriers - 1, r = 0 \/ Exact \/ Real(A)
  PROVE  Entry(A, r, r)[2] = 0
<1>1. r \in r .. Carriers - 1 /\ Entry(A, r, r) \in Value
  BY Sizes DEF Halfway, Square, HasValues
<1>2. CASE r = 0 \/ Exact
  <2>1. Entry(A, r, r) = Conj(Entry(A, r, r))
    BY <1>1, <1>2 DEF Halfway, Hermitian
  <2> QED BY <1>1, <2>1, SelfConj
<1>3. CASE Real(A)
  BY <1>3 DEF Real
<1> QED BY <1>2, <1>3

LEMMA RoundScales ==
  ASSUME Halfway, r \in 0 .. 1, Divisor(r) # 0, ceil6 \in Roundings
  PROVE  RowsNormal
<1> DEFINE C == 0 .. Carriers - 1
<1>0. r \in C /\ Square(A) /\ Square(Aug)
  BY Sizes DEF Halfway
<1>1. PICK e : /\ Divides(Divisor(r), e)
               /\ \A m : Square(m) =>
                    /\ Normal(m)
                    /\ Entry(A, r, r)[2] = 0 =>
                         \A j \in C : Normalised(m, r)[j] = Over(Entry(m, r, j), Divisor(r))
               /\ Entry(A, r, r)[2] = 0 => Normalised(A, r)[r] = One
  BY <1>0, NormaliseRow
<1>2. ASSUME Exact PROVE Scales(e)
  <2>1. Entry(A, r, r)[2] = 0
    BY <1>0, <1>2, RealPivot
  <2>2. ASSUME NEW m, Square(m), NEW j \in C
        PROVE  Normalised(m, r)[j] = Times(Entry(m, r, j), e)
    <3>1. Entry(m, r, j) \in Value
      BY <1>0, <2>2 DEF Square, HasValues
    <3>2. Normalised(m, r)[j] = Over(Entry(m, r, j), Divisor(r))
      BY <1>1, <2>1, <2>2
    <3> QED BY <1>1, <1>2, <3>1, <3>2 DEF Divides
  <2>3. e \in Value /\ e[2] = 0
    BY <1>1 DEF Divides
  <2> QED BY <1>0, <2>2, <2>3 DEF Scales
<1> QED BY <1>0, <1>1, <1>2 DEF RowsNormal

Eliminates(new, m, k, sub) ==
  /\ Whole(new, Carriers, Carriers)
  /\ \A i, j \in 0 .. Carriers - 1 :
       Entry(new, i, j) = Minus(IF i = k THEN Normalised(m, k)[j] ELSE Entry(m, i, j), sub[i][j])

LEMMA EliminateWhole ==
  ASSUME NEW m, Whole(m, Carriers, Carriers), NEW k \in 0 .. Carriers - 1, NEW sub
  PROVE  Eliminates(Eliminate(m, k, sub), m, k, sub)
<1>0. Carriers \in Nat /\ m.rows = Carriers /\ m.columns = Carriers
  BY Sizes DEF Whole, Sized
<1> DEFINE c == copy_row_to_table(m, Normalised(m, k), k)
           s == Fill(Carriers, Carriers, sub)
<1>1. Eliminate(m, k, sub) = table_sub(c, s)
  BY <1>0 DEF Eliminate
<1>2. /\ Whole(c, Carriers, Carriers)
      /\ \A i \in 0 .. Carriers - 1, j \in 0 .. Carriers - 1 :
            Entry(c, i, j) = IF i = k THEN Normalised(m, k)[j] ELSE Entry(m, i, j)
  BY <1>0, CopyRowWhole
<1>3. \A i \in 0 .. Carriers - 1, j \in 0 .. Carriers - 1 : Entry(s, i, j) = sub[i][j]
  BY <1>0, FillWhole
<1> HIDE DEF c, s
<1>4. /\ Whole(table_sub(c, s), Carriers, Carriers)
      /\ \A i \in 0 .. Carriers - 1, j \in 0 .. Carriers - 1 :
            Entry(table_sub(c, s), i, j) = Minus(Entry(c, i, j), Entry(s, i, j))
  BY <1>0, <1>2, SubWhole
<1> QED BY <1>1, <1>2, <1>3, <1>4 DEF Eliminates

(* What a round does to a table, as if the subtrahend were taken off everywhere:
   row r becomes row, and of the others row is taken off A's multiple. *)
Reduced(new, old, row) ==
  \A i, j \in 0 .. Carriers - 1 :
    Entry(new, i, j) = IF i = r THEN row[j]
                       ELSE Minus(Entry(old, i, j), Times(Entry(A, i, r), row[j]))

LEMMA RoundA ==
  ASSUME Halfway, r \in 0 .. 1, Round, RowsNormal
  PROVE  /\ Whole(A', Carriers, Carriers)
         /\ Reduced(A', A, Normalised(A, r))
         /\ \A j \in 0 .. Carriers - 1 : Normalised(A, r)[j] \in Value
         /\ \A j \in 0 .. r - 1 : Normalised(A, r)[j] = Zero
<1> DEFINE C == 0 .. Carriers - 1
           N == Normalised(A, r)
           sub == [i \in C |-> [j \in C |-> Subtrahend(r, i, j)]]
<1>0. /\ Carriers \in Nat /\ r \in C /\ \A j \in 0 .. r - 1 : j \in C /\ j # r
      /\ Whole(A, Carriers, Carriers)
  BY Sizes DEF Halfway, Square
<1>1. \A i, j \in C : Entry(A, i, j) \in Value
  BY DEF Halfway, Square, HasValues
<1>2. A' = Eliminate(A, r, sub)
  BY DEF Round
<1>3. \A i, j \in C : sub[i][j] = Subtrahend(r, i, j)
  OBVIOUS
<1> HIDE DEF sub
<1>5. \A j \in C : N[j] \in Value
  BY DEF RowsNormal, Normal
<1>6. \A j \in 0 .. r - 1 : N[j] = Zero
  <2> SUFFICES ASSUME NEW j \in 0 .. r - 1 PROVE N[j] = Zero
    OBVIOUS
  <2>1. Entry(A, r, j) = Zero
    BY <1>0 DEF Halfway, Through, Cleared, Unit
  <2> QED BY <1>0, <2>1 DEF RowsNormal, Normal
<1> HIDE DEF N
<1>7. /\ Whole(A', Carriers, Carriers)
      /\ \A i, j \in C : Entry(A', i, j)
                           = Minus(IF i = r THEN N[j] ELSE Entry(A, i, j), sub[i][j])
  <2>1. Eliminates(Eliminate(A, r, sub), A, r, sub)
    BY <1>0, EliminateWhole
  <2>2. Eliminates(A', A, r, sub)
    BY <1>2, <2>1
  <2> QED BY <2>2 DEF Eliminates, N
<1>8. ASSUME NEW i \in C, NEW j \in C
      PROVE  Entry(A', i, j) = IF i = r THEN N[j]
                               ELSE Minus(Entry(A, i, j), Times(Entry(A, i, r), N[j]))
  <2>1. At(A, i, r) = Entry(A, i, r)
    BY <1>0, AtEntry
  <2>2. sub[i][j] = IF j < r \/ i = r THEN Zero ELSE Times(Entry(A, i, r), N[j])
    BY <1>3, <2>1 DEF Subtrahend, N
  <2>3. Entry(A', i, j) = Minus(IF i = r THEN N[j] ELSE Entry(A, i, j), sub[i][j])
    BY <1>7
  <2>4. CASE i = r
    BY <1>5, <2>2, <2>3, <2>4, Units
  <2>5. CASE i # r /\ j < r
    <3>1. N[j] = Zero
      BY <1>6, <2>5
    <3>2. Times(Entry(A, i, r), N[j]) = Zero
      BY <1>0, <1>1, <3>1, Units
    <3> QED BY <2>2, <2>3, <2>5, <3>2
  <2>6. CASE i # r /\ ~(j < r)
    BY <2>2, <2>3, <2>6
  <2> QED BY <2>4, <2>5, <2>6
<1> QED BY <1>5, <1>6, <1>7, <1>8 DEF Reduced, N

LEMMA RoundAug ==
  ASSUME Halfway, r \in 0 .. 1, Round, RowsNormal
  PROVE  /\ Whole(Aug', Carriers, Carriers)
         /\ HasValues(Aug', Carriers, Carriers)
         /\ Untouched(Aug', r + 1)
         /\ r = 0 \/ (Real(A) /\ Real(Aug)) => Reduced(Aug', Aug, Normalised(Aug, r))
         /\ Real(A) /\ Real(Aug) => \A j \in 0 .. Carriers - 1 : Normalised(Aug, r)[j][2] = 0
         /\ \A j \in 0 .. Carriers - 1 : Normalised(Aug, r)[j] \in Value
<1> DEFINE C == 0 .. Carriers - 1
           N == Normalised(Aug, r)
           sub == [i \in C |-> [j \in C |-> AugSubtrahend(r, i, j)]]
<1>0. /\ Carriers \in Nat /\ r \in C
      /\ Whole(A, Carriers, Carriers) /\ Whole(Aug, Carriers, Carriers)
  BY Sizes DEF Halfway, Square
<1>1. \A i, j \in C : Entry(A, i, j) \in Value /\ Entry(Aug, i, j) \in Value
  BY DEF Halfway, Square, HasValues
<1>2. Aug' = Eliminate(Aug, r, sub)
  BY DEF Round
<1>3. \A i, j \in C : sub[i][j] = AugSubtrahend(r, i, j)
  OBVIOUS
<1> HIDE DEF sub
<1>4. ASSUME NEW j \in C
      PROVE  /\ N[j] \in Value
             /\ Entry(Aug, r, j) = Zero => N[j] = Zero
             /\ Entry(A, r, r)[2] = 0 /\ Entry(Aug, r, j)[2] = 0 => N[j][2] = 0
  BY DEF RowsNormal, Normal
<1> HIDE DEF N
<1>5. \A j \in C : N[j] \in Value
  BY <1>4
<1>6. \A j \in C : j > r => N[j] = Zero
  <2> SUFFICES ASSUME NEW j \in C, j > r PROVE N[j] = Zero
    OBVIOUS
  <2>1. Entry(Aug, r, j) = Zero
    <3>1. j \in r .. Carriers - 1 /\ r # j
      BY <1>0
    <3> QED BY <1>0, <3>1 DEF Halfway, Untouched, Unit
  <2> QED BY <1>4, <2>1
<1>7. /\ Whole(Aug', Carriers, Carriers)
      /\ \A i, j \in C : Entry(Aug', i, j)
                           = Minus(IF i = r THEN N[j] ELSE Entry(Aug, i, j), sub[i][j])
  <2>1. Eliminates(Eliminate(Aug, r, sub), Aug, r, sub)
    BY <1>0, EliminateWhole
  <2>2. Eliminates(Aug', Aug, r, sub)
    BY <1>2, <2>1
  <2> QED BY <2>2 DEF Eliminates, N
<1>8. \A i, j \in C : sub[i][j] = IF j > r \/ i = r THEN Zero ELSE Crossed(Entry(A, i, r), N[j])
  <2> SUFFICES ASSUME NEW i \in C, NEW j \in C
               PROVE  sub[i][j] = IF j > r \/ i = r THEN Zero ELSE Crossed(Entry(A, i, r), N[j])
    OBVIOUS
  <2>1. At(A, i, r) = Entry(A, i, r)
    BY <1>0, AtEntry
  <2> QED BY <1>3, <2>1 DEF AugSubtrahend, N
<1>9. \A i, j \in C : Entry(Aug', i, j) \in Value
  <2> SUFFICES ASSUME NEW i \in C, NEW j \in C PROVE Entry(Aug', i, j) \in Value
    OBVIOUS
  <2>1. Crossed(Entry(A, i, r), N[j]) \in Value
    BY <1>0, <1>1, <1>5, OpsType
  <2>2. sub[i][j] \in Value
    BY <1>8, <2>1, UnitsType
  <2> QED BY <1>1, <1>5, <1>7, <2>2, OpsType
<1>10. Untouched(Aug', r + 1)
  <2> SUFFICES ASSUME NEW i \in C, NEW j \in r + 1 .. Carriers - 1
               PROVE  Entry(Aug', i, j) = Unit(i, j)
    BY DEF Untouched
  <2>1. j \in C /\ j > r /\ j \in r .. Carriers - 1
    BY <1>0
  <2>2. sub[i][j] = Zero /\ N[j] = Zero
    BY <1>6, <1>8, <2>1
  <2>3. CASE i = r
    <3>1. Entry(Aug', i, j) = Minus(Zero, Zero)
      BY <1>7, <2>1, <2>2, <2>3
    <3> QED BY <2>1, <2>3, <3>1, Units, UnitsType DEF Unit
  <2>4. CASE i # r
    <3>1. Entry(Aug', i, j) = Minus(Entry(Aug, i, j), Zero)
      BY <1>7, <2>1, <2>2, <2>4
    <3>2. Entry(Aug, i, j) = Unit(i, j)
      BY <2>1 DEF Halfway, Untouched
    <3> QED BY <1>1, <2>1, <3>1, <3>2, Units
  <2> QED BY <2>3, <2>4
<1>11. ASSUME Real(A), Real(Aug) PROVE \A j \in C : N[j][2] = 0
  <2>1. Entry(A, r, r)[2] = 0
    BY <1>0, <1>11, RealPivot
  <2>2. \A j \in C : Entry(Aug, r, j)[2] = 0
    BY <1>0, <1>11 DEF Real
  <2> QED BY <1>4, <2>1, <2>2
<1>12. ASSUME r = 0 \/ (Real(A) /\ Real(Aug)), NEW j \in C, j <= r PROVE N[j][2] = 0
  <2>1. CASE Real(A) /\ Real(Aug)
    BY <1>11, <2>1
  <2>2. CASE r = 0
    <3>1. j = 0 /\ 0 \in r .. Carriers - 1
      BY <1>0, <1>12, <2>2
    <3>2. Entry(Aug, r, 0) = One
      BY <1>0, <2>2, <3>1 DEF Halfway, Untouched, Unit
    <3>3. Entry(Aug, r, j)[2] = 0
      BY <3>1, <3>2 DEF One
    <3>4. Entry(A, r, r)[2] = 0
      BY <1>0, <2>2, RealPivot
    <3> QED BY <1>4, <3>3, <3>4
  <2> QED BY <1>12, <2>1, <2>2
<1>13. ASSUME r = 0 \/ (Real(A) /\ Real(Aug)), NEW i \in C, NEW j \in C
       PROVE  Entry(Aug', i, j) = IF i = r THEN N[j]
                                  ELSE Minus(Entry(Aug, i, j), Times(Entry(A, i, r), N[j]))
  <2>1. Entry(Aug', i, j) = Minus(IF i = r THEN N[j] ELSE Entry(Aug, i, j), sub[i][j])
    BY <1>7
  <2>2. CASE i = r
    BY <1>5, <1>8, <2>1, <2>2, Units
  <2>3. CASE i # r /\ j > r
    <3>1. Times(Entry(A, i, r), N[j]) = Zero
      BY <1>0, <1>1, <1>6, <2>3, Units
    <3> QED BY <1>8, <2>1, <2>3, <3>1
  <2>4. CASE i # r /\ ~(j > r)
    <3>1. N[j][2] = 0
      BY <1>0, <1>12, <1>13, <2>4
    <3>2. Crossed(Entry(A, i, r), N[j]) = Times(Entry(A, i, r), N[j])
      BY <1>0, <1>1, <1>5, <3>1, CrossedReal
    <3> QED BY <1>8, <2>1, <2>4, <3>2
  <2> QED BY <2>2, <2>3, <2>4
<1> QED BY <1>5, <1>7, <1>9, <1>10, <1>11, <1>13 DEF Reduced, HasValues, N

LEMMA ReducedValues ==
  ASSUME NEW new, NEW old, NEW row, Reduced(new, old, row), r \in 0 .. Carriers - 1,
         HasValues(A, Carriers, Carriers), HasValues(old, Carriers, Carriers),
         \A j \in 0 .. Carriers - 1 : row[j] \in Value
  PROVE  HasValues(new, Carriers, Carriers)
<1> SUFFICES ASSUME NEW i \in 0 .. Carriers - 1, NEW j \in 0 .. Carriers - 1
             PROVE  Entry(new, i, j) \in Value
  BY DEF HasValues
<1>1. Entry(old, i, j) \in Value /\ Entry(A, i, r) \in Value /\ row[j] \in Value
  BY DEF HasValues
<1>2. Minus(Entry(old, i, j), Times(Entry(A, i, r), row[j])) \in Value
  BY <1>1, OpsType
<1> QED BY <1>1, <1>2 DEF Reduced

LEMMA ReducedReal ==
  ASSUME NEW new, NEW old, NEW row, Reduced(new, old, row), r \in 0 .. Carriers - 1,
         HasValues(A, Carriers, Carriers), HasValues(old, Carriers, Carriers),
         \A j \in 0 .. Carriers - 1 : row[j] \in Value /\ row[j][2] = 0,
         Real(A), Real(old)
  PROVE  Real(new)
<1> SUFFICES ASSUME NEW i \in 0 .. Carriers - 1, NEW j \in 0 .. Carriers - 1
             PROVE  Entry(new, i, j)[2] = 0
  BY DEF Real
<1>1. /\ Entry(old, i, j) \in Value /\ Entry(A, i, r) \in Value /\ row[j] \in Value
      /\ Entry(old, i, j)[2] = 0 /\ Entry(A, i, r)[2] = 0 /\ row[j][2] = 0
  BY DEF HasValues, Real
<1> DEFINE x == Times(Entry(A, i, r), row[j])
<1>2. x \in Value /\ x[2] = 0
  BY <1>1, OpsType, RealOps
<1> HIDE DEF x
<1>3. Minus(Entry(old, i, j), x)[2] = 0
  BY <1>1, <1>2, RealOps
<1> QED BY <1>1, <1>3 DEF Reduced, x

(* The round leaves the columns before alone, and clears the pivot's where the pivot
   is real. *)
LEMMA RoundClears ==
  ASSUME Halfway, r \in 0 .. 1, Round, RowsNormal, NEW k \in {r, r + 1},
         k = r + 1 => Entry(A, r, r)[2] = 0
  PROVE  Cleared(A', k)
<1> DEFINE N == Normalised(A, r)
<1>1. /\ Reduced(A', A, N) /\ \A j \in 0 .. Carriers - 1 : N[j] \in Value
      /\ \A j \in 0 .. r - 1 : N[j] = Zero
  BY RoundA
<1>2. k = r + 1 => N[r] = One
  BY DEF RowsNormal
<1> HIDE DEF N
<1>3. Carriers \in Nat /\ r \in 0 .. Carriers - 1 /\ r + 1 <= Carriers
  BY Sizes
<1> SUFFICES ASSUME NEW i \in 0 .. Carriers - 1, NEW j \in 0 .. k - 1
             PROVE  Entry(A', i, j) = Unit(i, j)
  BY DEF Cleared
<1>4. j \in 0 .. Carriers - 1 /\ (j # r => j \in 0 .. r - 1) /\ (j = r => k = r + 1)
  BY <1>3
<1>5. Entry(A', i, j) = IF i = r THEN N[j]
                        ELSE Minus(Entry(A, i, j), Times(Entry(A, i, r), N[j]))
  BY <1>1, <1>4 DEF Reduced
<1>6. Entry(A, i, j) \in Value /\ Entry(A, i, r) \in Value
  BY <1>3, <1>4 DEF Halfway, Square, HasValues
<1>7. CASE j = r
  <2>1. Times(Entry(A, i, r), One) = Entry(A, i, r)
    BY <1>6, Units
  <2>2. Minus(Entry(A, i, r), Entry(A, i, r)) = Zero
    BY <1>6, Units
  <2> QED BY <1>2, <1>4, <1>5, <1>7, <2>1, <2>2 DEF Unit
<1>8. CASE j # r
  <2>1. N[j] = Zero
    BY <1>1, <1>4, <1>8
  <2>2. Minus(Entry(A, i, j), Times(Entry(A, i, r), Zero)) = Entry(A, i, j)
    BY <1>6, Units
  <2>3. Entry(A, i, j) = Unit(i, j)
    BY <1>4, <1>8 DEF Halfway, Through, Cleared
  <2> QED BY <1>5, <1>8, <2>1, <2>2, <2>3 DEF Unit
<1> QED BY <1>7, <1>8

(* The rest of A stays its own conjugate transpose, if nothing is rounded. *)
LEMMA RoundHermitian ==
  ASSUME Halfway, r \in 0 .. 1, Round, RowsNormal, Exact
  PROVE  Hermitian(A', r + 1)
<1> DEFINE N == Normalised(A, r)
<1>1. Reduced(A', A, N)
  BY RoundA
<1>0. PICK e : Scales(e)
  BY DEF RowsNormal
<1>2. e \in Value /\ Conj(e) = e /\ \A j \in 0 .. Carriers - 1 : N[j] = Times(Entry(A, r, j), e)
  BY <1>0, RealConj DEF Scales
<1> HIDE DEF N
<1>3. Carriers \in Nat /\ r \in 0 .. Carriers - 1 /\ r \in r .. Carriers - 1
  BY Sizes
<1> SUFFICES ASSUME NEW i \in r + 1 .. Carriers - 1, NEW j \in r + 1 .. Carriers - 1
             PROVE  Entry(A', i, j) = Conj(Entry(A', j, i))
  BY DEF Hermitian
<1>4. /\ i \in 0 .. Carriers - 1 /\ i \in r .. Carriers - 1 /\ i # r
      /\ j \in 0 .. Carriers - 1 /\ j \in r .. Carriers - 1 /\ j # r
  BY <1>3
<1> DEFINE x == Entry(A, j, i)
           u == Entry(A, j, r)
           v == Entry(A, r, i)
<1>5. x \in Value /\ u \in Value /\ v \in Value
  BY <1>3, <1>4 DEF Halfway, Square, HasValues
<1>6. Entry(A, i, j) = Conj(x) /\ Entry(A, r, j) = Conj(u) /\ Entry(A, i, r) = Conj(v)
  BY <1>3, <1>4 DEF Halfway, Hermitian
<1>7. Entry(A', j, i) = Minus(x, Times(u, Times(v, e)))
  BY <1>1, <1>2, <1>4 DEF Reduced
<1>8. Entry(A', i, j) = Minus(Conj(x), Times(Conj(v), Times(Conj(u), e)))
  BY <1>1, <1>2, <1>4, <1>6 DEF Reduced
<1> HIDE DEF x, u, v
<1>9. /\ Conj(x) \in Value /\ Conj(u) \in Value /\ Conj(v) \in Value
      /\ Times(v, e) \in Value /\ Times(u, Times(v, e)) \in Value
  <2>1. /\ Conj(x) \in Value /\ Conj(u) \in Value /\ Conj(v) \in Value /\ Times(v, e) \in Value
    BY <1>2, <1>5, OpsType
  <2> QED BY <1>5, <2>1, OpsType
<1>10. Conj(Minus(x, Times(u, Times(v, e)))) = Minus(Conj(x), Conj(Times(u, Times(v, e))))
  BY <1>5, <1>9, ConjOps
<1>11. Conj(Times(u, Times(v, e))) = Times(Conj(u), Times(Conj(v), e))
  <2>1. Conj(Times(v, e)) = Times(Conj(v), e)
    BY <1>2, <1>5, ConjOps
  <2>2. Conj(Times(u, Times(v, e))) = Times(Conj(u), Conj(Times(v, e)))
    BY <1>5, <1>9, ConjOps
  <2> QED BY <2>1, <2>2
<1>12. Times(Conj(u), Times(Conj(v), e)) = Times(Conj(v), Times(Conj(u), e))
  BY <1>2, <1>9, TimesExchange
<1> QED BY <1>7, <1>8, <1>10, <1>11, <1>12

(* The equations that Aug times the correlation is A survive the round. *)
LEMMA ReducedSolves ==
  ASSUME NEW s, HasValues(s, Carriers, Carriers), HasValues(A, Carriers, Carriers),
         HasValues(Aug, Carriers, Carriers), r \in 0 .. Carriers - 1,
         NEW e \in Value, NEW x, NEW y, NEW new, NEW g,
         \A j \in 0 .. Carriers - 1 : x[j] = Times(Entry(A, r, j), e),
         \A j \in 0 .. Carriers - 1 : y[j] = Times(Entry(Aug, r, j), e),
         Reduced(new, A, x), Reduced(g, Aug, y), Solves(Aug, s, A)
  PROVE  Solves(g, s, new)
<1> SUFFICES ASSUME NEW i \in 0 .. Carriers - 1, NEW j \in 0 .. Carriers - 1
             PROVE  Product(g, s, i, j) = Entry(new, i, j)
  BY DEF Solves
<1> DEFINE C == 0 .. Carriers - 1
           a == Entry(A, i, r)
           Q == [k \in C |-> Times(y[k], Entry(s, k, j))]
           R == [k \in C |-> Times(a, Q[k])]
<1>0. Carriers \in Nat
  BY Sizes
<1>1. /\ a \in Value /\ \A k \in C : Entry(s, k, j) \in Value
      /\ \A k \in C : Entry(Aug, i, k) \in Value /\ Entry(Aug, r, k) \in Value
  BY DEF HasValues
<1>2. \A k \in C : y[k] \in Value
  BY <1>1, OpsType
<1>3. \A k \in C : Q[k] = Times(y[k], Entry(s, k, j)) /\ Q[k] \in Value
  BY <1>1, <1>2, OpsType
<1>4. /\ \A k \in C : Terms(Aug, s, r, j)[k] = Times(Entry(Aug, r, k), Entry(s, k, j))
      /\ \A k \in C : Terms(Aug, s, i, j)[k] = Times(Entry(Aug, i, k), Entry(s, k, j))
      /\ \A k \in C : Terms(g, s, i, j)[k] = Times(Entry(g, i, k), Entry(s, k, j))
  BY DEF Terms
<1>5. ASSUME NEW k \in C
      PROVE  Terms(Aug, s, r, j)[k] \in Value /\ Terms(Aug, s, i, j)[k] \in Value
  <2>1. /\ Entry(s, k, j) \in Value /\ Entry(Aug, i, k) \in Value
        /\ Entry(Aug, r, k) \in Value
    BY <1>1
  <2>2. /\ Terms(Aug, s, r, j)[k] = Times(Entry(Aug, r, k), Entry(s, k, j))
        /\ Terms(Aug, s, i, j)[k] = Times(Entry(Aug, i, k), Entry(s, k, j))
    BY <1>4
  <2>3. Times(Entry(Aug, r, k), Entry(s, k, j)) \in Value
    BY <2>1, OpsType
  <2>4. Times(Entry(Aug, i, k), Entry(s, k, j)) \in Value
    BY <2>1, OpsType
  <2> QED BY <2>2, <2>3, <2>4
<1> HIDE DEF a, Q
(* The row itself. *)
<1>6. Total(Q, Carriers) = x[j]
  <2>1. ASSUME NEW k \in C PROVE Q[k] = Times(e, Terms(Aug, s, r, j)[k])
    <3>1. Q[k] = Times(Times(Entry(Aug, r, k), e), Entry(s, k, j))
      BY <1>3
    <3>2. Times(Entry(Aug, r, k), e) = Times(e, Entry(Aug, r, k))
      BY <1>1, TimesComm
    <3>3. Times(Times(e, Entry(Aug, r, k)), Entry(s, k, j))
            = Times(e, Times(Entry(Aug, r, k), Entry(s, k, j)))
      BY <1>1, TimesAssoc
    <3> QED BY <1>4, <3>1, <3>2, <3>3
  <2>2. Total(Q, Carriers) = Times(e, Product(Aug, s, r, j))
    BY <1>0, <1>5, <2>1, TotalTimes DEF Product
  <2>3. Product(Aug, s, r, j) = Entry(A, r, j) /\ Entry(A, r, j) \in Value
    BY DEF Solves, HasValues
  <2>4. Times(e, Entry(A, r, j)) = Times(Entry(A, r, j), e)
    BY <2>3, TimesComm
  <2> QED BY <2>2, <2>3, <2>4
<1>7. CASE i = r
  <2>1. \A k \in C : Terms(g, s, i, j)[k] = Q[k]
    BY <1>3, <1>4, <1>7 DEF Reduced
  <2>2. Product(g, s, i, j) = Total(Q, Carriers)
    BY <1>0, <2>1, TotalSame DEF Product
  <2> QED BY <1>6, <1>7, <2>2 DEF Reduced
<1>8. CASE i # r
  <2>1. \A k \in C : R[k] = Times(a, Q[k])
    OBVIOUS
  <2> HIDE DEF R
  <2>2. ASSUME NEW k \in C PROVE R[k] \in Value
    <3>1. a \in Value /\ Q[k] \in Value /\ R[k] = Times(a, Q[k])
      BY <1>1, <1>3, <2>1
    <3> QED BY <3>1, OpsType
  <2>3. ASSUME NEW k \in C PROVE Terms(g, s, i, j)[k] = Minus(Terms(Aug, s, i, j)[k], R[k])
    <3> DEFINE m == Entry(Aug, i, k)
               n == y[k]
               z == Entry(s, k, j)
    <3>1. Entry(g, i, k) = Minus(m, Times(a, n))
      BY <1>8 DEF Reduced, a
    <3>2. /\ Terms(g, s, i, j)[k] = Times(Entry(g, i, k), z)
          /\ Terms(Aug, s, i, j)[k] = Times(m, z)
          /\ R[k] = Times(a, Times(n, z))
      BY <1>3, <1>4, <2>1
    <3>3. m \in Value /\ n \in Value /\ z \in Value /\ a \in Value
      BY <1>1, <1>2
    <3> HIDE DEF m, n, z
    <3>4. Times(Minus(m, Times(a, n)), z) = Minus(Times(m, z), Times(a, Times(n, z)))
      BY <3>3, MinusTimes
    <3> QED BY <3>1, <3>2, <3>4
  <2>4. Product(g, s, i, j) = Minus(Product(Aug, s, i, j), Total(R, Carriers))
    BY <1>0, <1>5, <2>2, <2>3, TotalMinus DEF Product
  <2>5. Total(R, Carriers) = Times(a, Total(Q, Carriers))
    BY <1>0, <1>1, <1>3, <2>1, TotalTimes
  <2>6. Product(Aug, s, i, j) = Entry(A, i, j)
    BY DEF Solves
  <2>7. Entry(new, i, j) = Minus(Entry(A, i, j), Times(a, x[j]))
    BY <1>8 DEF Reduced, a
  <2> QED BY <1>6, <2>4, <2>5, <2>6, <2>7
<1> QED BY <1>7, <1>8

LEMMA RoundHalfway ==
  ASSUME Halfway, r \in 0 .. 1, Round, Square(t.CORRELATION), ceil6 \in Roundings
  PROVE  Halfway'
<1>0. /\ t' = t /\ r' = r + 1 /\ ceil6' = ceil6 /\ Divisor(r) # 0
      /\ r \in 0 .. Carriers - 1 /\ Carriers \in Nat
  BY Sizes DEF Round
<1>1. RowsNormal
  BY <1>0, RoundScales
<1> DEFINE N == Normalised(A, r)
           G == Normalised(Aug, r)
<1>2. /\ Whole(A', Carriers, Carriers) /\ Reduced(A', A, N)
      /\ \A j \in 0 .. Carriers - 1 : N[j] \in Value
  BY <1>1, RoundA
<1>3. /\ Whole(Aug', Carriers, Carriers) /\ HasValues(Aug', Carriers, Carriers)
      /\ Untouched(Aug', r + 1)
      /\ r = 0 \/ (Real(A) /\ Real(Aug)) => Reduced(Aug', Aug, G)
      /\ Real(A) /\ Real(Aug) => \A j \in 0 .. Carriers - 1 : G[j][2] = 0
      /\ \A j \in 0 .. Carriers - 1 : G[j] \in Value
  BY <1>1, RoundAug
<1>4. /\ HasValues(A, Carriers, Carriers) /\ HasValues(Aug, Carriers, Carriers)
      /\ HasValues(t.CORRELATION, Carriers, Carriers)
  BY DEF Halfway, Square
<1>5. ASSUME Real(t.CORRELATION) PROVE Real(A) /\ Real(Aug)
  BY <1>5 DEF Halfway
<1>6. Cleared(A', Through')
  <2>1. CASE r = 0 \/ Exact \/ Real(t.CORRELATION)
    <3>1. Entry(A, r, r)[2] = 0
      BY <1>0, <1>5, <2>1, RealPivot
    <3>2. Cleared(A', r + 1)
      BY <1>1, <3>1, RoundClears
    <3>3. Through' = r + 1
      BY <1>0, <2>1 DEF Through, Exact, Real, Entry
    <3> QED BY <3>2, <3>3
  <2>2. CASE ~(r = 0 \/ Exact \/ Real(t.CORRELATION))
    <3>1. r = 1 /\ Through' = r
      BY <1>0, <2>2 DEF Through, Exact, Real, Entry
    <3>2. Cleared(A', r)
      BY <1>1, RoundClears
    <3> QED BY <3>1, <3>2
  <2> QED BY <2>1, <2>2
<1>7. ASSUME Exact PROVE Hermitian(A', r + 1)
  BY <1>1, <1>7, RoundHermitian
<1>8. HasValues(A', Carriers, Carriers)
  BY <1>0, <1>2, <1>4, ReducedValues
<1>9. ASSUME Real(t.CORRELATION) PROVE Real(A') /\ Real(Aug')
  <2>1. Real(A) /\ Real(Aug)
    BY <1>5, <1>9
  <2>2. \A j \in 0 .. Carriers - 1 : N[j][2] = 0
    <3>1. Entry(A, r, r)[2] = 0 /\ \A j \in 0 .. Carriers - 1 : Entry(A, r, j)[2] = 0
      BY <1>0, <2>1 DEF Real
    <3> QED BY <1>1, <3>1 DEF RowsNormal, Normal
  <2> HIDE DEF N, G
  <2>3. Real(A')
    BY <1>0, <1>2, <1>4, <2>1, <2>2, ReducedReal
  <2>4. Real(Aug')
    BY <1>0, <1>3, <1>4, <2>1, ReducedReal
  <2> QED BY <2>3, <2>4
<1>10. ASSUME Exact, r' < 2 \/ Real(t.CORRELATION) PROVE Solves(Aug', t.CORRELATION, A')
  <2>1. r = 0 \/ (Real(A) /\ Real(Aug))
    BY <1>0, <1>5, <1>10
  <2>2. Solves(Aug, t.CORRELATION, A)
    BY <1>0, <1>10 DEF Halfway
  <2>3. Reduced(Aug', Aug, G)
    BY <1>3, <2>1
  <2>4. PICK e : Scales(e)
    BY <1>1, <1>10 DEF RowsNormal
  <2>5. /\ e \in Value
        /\ \A j \in 0 .. Carriers - 1 : N[j] = Times(Entry(A, r, j), e)
        /\ \A j \in 0 .. Carriers - 1 : G[j] = Times(Entry(Aug, r, j), e)
    BY <2>4 DEF Scales
  <2> HIDE DEF N, G
  <2> QED BY <1>0, <1>2, <1>4, <2>2, <2>3, <2>5, ReducedSolves
<1>11. Exact' = Exact /\ Real(t.CORRELATION)' = Real(t.CORRELATION)
  BY <1>0 DEF Exact, Real, Entry
<1>12. r' # 0
  BY <1>0
<1> QED BY <1>0, <1>2, <1>3, <1>6, <1>7, <1>8, <1>9, <1>10, <1>11, <1>12 DEF Halfway, Square

-----------------------------------------------------------------------------
(* The invariant holds. *)

(* No two tables are made at once. *)
LEMMA PlaceFacts ==
  /\ \A name \in Names : Place[name] \in Nat /\ Place[name] >= 1 /\ name \in DOMAIN Place
  /\ \A x, y \in Names : Place[x] = Place[y] => x = y
<1>1. \A name \in Names : Place[name] \in Nat /\ Place[name] >= 1 /\ name \in DOMAIN Place
  BY DEF Names, Place
<1>2. \A x, y \in Names : Place[x] = Place[y] => x = y
  BY DEF Names, Place
<1> QED BY <1>1, <1>2

LEMMA SInvInit == Init => SInv
<1> SUFFICES ASSUME Init PROVE SInv
  OBVIOUS
<1>1. stage = "IP_SIG" /\ r = 0 /\ ceil6 \in Roundings /\ stage \in DOMAIN Place
  BY DEF Init, Place
<1>2. /\ DOMAIN t = Names
      /\ \A name \in Names : t[name] = table_init(Rows[name], Columns[name])
  BY DEF Init, Names, Rows, Columns
<1>3. \A name \in Names : Rows[name] \in Nat /\ Columns[name] \in Nat
  BY Sizes DEF Names, Rows, Columns
<1>4. \A name \in Names : Blank(t[name], Rows[name], Columns[name])
  BY <1>2, <1>3, InitBlank
<1>5. \A name \in Names : ~Made(name)
  <2>1. Place[stage] = 1
    BY <1>1 DEF Place
  <2> QED BY <2>1, PlaceFacts DEF Made
<1>6. Shapes
  BY <1>2, <1>4, <1>5 DEF Shapes
<1> QED BY <1>1, <1>6 DEF SInv

LEMMA ShapesStep ==
  ASSUME Shapes, NEW name \in Names, NEW m, Fits(name, m), t' = [t EXCEPT ![name] = m],
         \A other \in Names : Made(other)' <=> (other = name \/ Made(other))
  PROVE  /\ Shapes' /\ t'[name] = m
         /\ \A other \in Names : other # name => t'[other] = t[other]
<1>1. DOMAIN t = Names
  BY DEF Shapes
<1>2. /\ DOMAIN t' = Names /\ t'[name] = m
      /\ \A other \in Names : other # name => t'[other] = t[other]
  BY <1>1
<1>3. ASSUME NEW other \in Names
      PROVE  IF Made(other)' THEN Fits(other, t'[other])
                             ELSE Blank(t'[other], Rows[other], Columns[other])
  <2>1. CASE other = name
    BY <1>2, <2>1
  <2>2. CASE other # name
    <3>1. t'[other] = t[other] /\ (Made(other)' <=> Made(other))
      BY <1>2, <2>2
    <3> QED BY <3>1 DEF Shapes
  <2> QED BY <2>1, <2>2
<1> QED BY <1>2, <1>3 DEF Shapes

(* A step that makes no table. *)
LEMMA ShapesKept ==
  ASSUME Shapes, t' = t, Place[stage'] = Place[stage]
  PROVE  Shapes'
<1>1. \A name : Made(name)' <=> Made(name)
  BY DEF Made
<1> QED BY <1>1 DEF Shapes

(* A step of main that makes a table. *)
LEMMA MakeStep ==
  ASSUME SInv, NEW name \in Names, NEW m, NEW next, Make(name, m, next), Fits(name, m),
         Place[next] = Place[name] + 1
  PROVE  /\ Shapes' /\ r' = r /\ stage = name /\ stage' = next
         /\ t'[name] = m
         /\ \A other \in Names : other # name => t'[other] = t[other]
         /\ ceil6' = ceil6 /\ A' = A /\ Aug' = Aug
<1>1. /\ stage = name /\ stage' = next /\ t' = [t EXCEPT ![name] = m]
      /\ r' = r /\ ceil6' = ceil6 /\ A' = A /\ Aug' = Aug
  BY DEF Make
<1>2. ASSUME NEW other \in Names PROVE Made(other)' <=> (other = name \/ Made(other))
  <2>1. /\ Place[other] \in Nat /\ Place[name] \in Nat
        /\ Place[other] = Place[name] <=> other = name
    BY PlaceFacts
  <2>2. Made(other)' <=> Place[other] < Place[name] + 1
    BY <1>1 DEF Made
  <2>3. Made(other) <=> Place[other] < Place[name]
    BY <1>1 DEF Made
  <2> QED BY <2>1, <2>2, <2>3
<1>3. Shapes
  BY DEF SInv
<1>4. /\ Shapes' /\ t'[name] = m
      /\ \A other \in Names : other # name => t'[other] = t[other]
  BY <1>1, <1>2, <1>3, ShapesStep
<1> QED BY <1>1, <1>4

(* What the tables made so far look like, by name. *)
LEMMA MadeWhole ==
  ASSUME Shapes, NEW name \in Names, name # "NOISY", Made(name)
  PROVE  Whole(t[name], Rows[name], Columns[name])
BY DEF Shapes, Fits

(* The tables the rest of the invariant is about. *)
CarriersMade == Whole(t.CARRIERS, Blocks, Carriers) /\ HasValues(t.CARRIERS, Blocks, Carriers)
Correlated   == Square(t.CORRELATION) /\ Hermitian(t.CORRELATION, 0)

LEMMA SInvMake ==
  ASSUME SInv, NEW name \in Names, NEW m, NEW next, Make(name, m, next), Fits(name, m),
         name \in {"IP_SIG", "MODI", "AWGN", "NOISY", "INVERSE", "ANSWER"},
         next \notin {"round", "ANSWER"}, next \in DOMAIN Place,
         Place[next] = Place[name] + 1,
         name = "IP_SIG" => next = "CARRIERS",
         name = "ANSWER" <=> next = "done",
         next = "copy" => name = "INVERSE" /\ m = identity_init(Carriers, Carriers)
  PROVE  SInv'
<1>1. /\ Shapes' /\ r' = r /\ stage = name /\ stage' = next /\ t'[name] = m
      /\ \A other \in Names : other # name => t'[other] = t[other]
      /\ ceil6' = ceil6 /\ A' = A /\ Aug' = Aug
  BY MakeStep
<1>2. t'["CARRIERS"] = t["CARRIERS"] /\ t'["CORRELATION"] = t["CORRELATION"]
  BY <1>1 DEF Names
<1>3. r' \in 0 .. 2 /\ (stage' \notin {"round", "infinite", "ANSWER", "done"} => r' = 0)
  BY <1>1 DEF SInv
<1>4. stage' \notin {"IP_SIG", "CARRIERS"} =>
         Whole(t.CARRIERS, Blocks, Carriers)' /\ HasValues(t.CARRIERS, Blocks, Carriers)'
  BY <1>1, <1>2 DEF SInv
<1>5. stage' \notin {"IP_SIG", "CARRIERS", "CORRELATION"} =>
         Square(t.CORRELATION)' /\ Hermitian(t.CORRELATION, 0)'
  BY <1>1, <1>2 DEF SInv
<1>6. stage' = "copy" => t'["INVERSE"] = identity_init(Carriers, Carriers)
  BY <1>1
<1>7. ASSUME stage' = "done" PROVE r' = 2 /\ Halfway' /\ t'["INVERSE"] = Aug'
  <2>1. name = "ANSWER"
    BY <1>1, <1>7 DEF SInv, Names, Make
  <2>2. r = 2 /\ Halfway /\ t.INVERSE = Aug
    BY <1>1, <2>1 DEF SInv
  <2>3. A' = A /\ Aug' = Aug /\ ceil6' = ceil6
    BY <1>1
  <2>4. t'["INVERSE"] = t["INVERSE"] /\ t'["CORRELATION"] = t["CORRELATION"]
    BY <1>1, <2>1 DEF Names
  <2> QED BY <1>1, <2>2, <2>3, <2>4 DEF Halfway, Through, Exact
<1>8. stage' \in DOMAIN Place /\ ceil6' \in Roundings
  BY <1>1 DEF SInv
<1> QED BY <1>1, <1>8, <1>3, <1>4, <1>5, <1>6, <1>7 DEF SInv

LEMMA SInvIPBlocks == SInv /\ create_IP_BLOCKS => SInv'
<1> SUFFICES ASSUME SInv, NEW x \in Signals,
                    Make("IP_SIG", Fill(Carriers, Blocks, x), "CARRIERS")
             PROVE  SInv'
  BY DEF create_IP_BLOCKS
<1>1. Fits("IP_SIG", Fill(Carriers, Blocks, x))
  BY FillWhole, Sizes DEF Fits, Rows, Columns
<1> QED BY <1>1, SInvMake DEF Names, Place

LEMMA SInvCarriers == SInv /\ create_CARRIERS => SInv'
<1> SUFFICES ASSUME SInv, NEW w \in [0 .. Blocks - 1 -> [0 .. Carriers - 1 -> Waves]],
                    Make("CARRIERS", Fill(Blocks, Carriers, w), "CORRELATION")
             PROVE  SInv'
  BY DEF create_CARRIERS
<1> DEFINE m == Fill(Blocks, Carriers, w)
<1>1. /\ Whole(m, Blocks, Carriers)
      /\ \A i \in 0 .. Blocks - 1, j \in 0 .. Carriers - 1 : Entry(m, i, j) = w[i][j]
  BY FillWhole, Sizes
<1>2. HasValues(m, Blocks, Carriers)
  <2>1. \A i \in 0 .. Blocks - 1, j \in 0 .. Carriers - 1 : w[i][j] \in Waves
    OBVIOUS
  <2>2. Waves \subseteq Value
    BY TablesAssumption
  <2> QED BY <1>1, <2>1, <2>2 DEF HasValues
<1> HIDE DEF m
<1>3. Fits("CARRIERS", m)
  BY <1>1 DEF Fits, Rows, Columns
<1>4. /\ Shapes' /\ r' = r /\ stage = "CARRIERS" /\ stage' = "CORRELATION"
      /\ t'["CARRIERS"] = m /\ ceil6' = ceil6
  BY <1>3, MakeStep DEF Names, Place, m
<1>5. r = 0 /\ ceil6 \in Roundings /\ stage' \in DOMAIN Place
  BY <1>4 DEF SInv, Place
<1> QED BY <1>1, <1>2, <1>4, <1>5 DEF SInv

LEMMA SInvCorrelate == SInv /\ Correlate => SInv'
<1> SUFFICES ASSUME SInv, Correlate PROVE SInv'
  OBVIOUS
<1> DEFINE m == correlate(t.CARRIERS)
<1>1. stage = "CORRELATION"
  BY DEF Correlate, Make
<1>2. Whole(t.CARRIERS, Blocks, Carriers) /\ HasValues(t.CARRIERS, Blocks, Carriers) /\ r = 0
  BY <1>1 DEF SInv
<1>3. Square(m) /\ Hermitian(m, 0)
  BY <1>2, CorrelateHermitian
<1>4. Make("CORRELATION", m, "MODI")
  BY DEF Correlate
<1> HIDE DEF m
<1>5. Fits("CORRELATION", m)
  BY <1>3 DEF Fits, Rows, Columns, Square
<1>6. /\ Shapes' /\ r' = r /\ stage' = "MODI" /\ t'["CORRELATION"] = m
      /\ \A other \in Names : other # "CORRELATION" => t'[other] = t[other]
      /\ ceil6' = ceil6
  BY <1>4, <1>5, MakeStep DEF Names, Place
<1>7. t'["CARRIERS"] = t["CARRIERS"]
  BY <1>6 DEF Names
<1>8. stage' \in DOMAIN Place /\ ceil6 \in Roundings
  BY <1>6 DEF SInv, Place
<1> QED BY <1>2, <1>3, <1>6, <1>7, <1>8 DEF SInv

LEMMA SInvModulate == SInv /\ Modulate => SInv'
<1> SUFFICES ASSUME SInv, NEW own \in BOOLEAN,
                    Make("MODI", modulate(t.CARRIERS, t.IP_SIG, own), "AWGN")
             PROVE  SInv'
  BY DEF Modulate
<1>1. Sized(t.CARRIERS, Blocks, Carriers) /\ Sized(t.IP_SIG, Carriers, Blocks)
  <2>1. Made("CARRIERS") /\ Made("IP_SIG")
    BY DEF Make, Made, Place
  <2>2. Whole(t["CARRIERS"], Blocks, Carriers) /\ Whole(t["IP_SIG"], Carriers, Blocks)
    BY <2>1, MadeWhole DEF SInv, Names, Rows, Columns
  <2> QED BY <2>2 DEF Whole
<1>2. Fits("MODI", modulate(t.CARRIERS, t.IP_SIG, own))
  BY <1>1, ModulateWhole DEF Fits, Rows, Columns
<1> QED BY <1>2, SInvMake DEF Names, Place

LEMMA SInvNoise == SInv /\ create_noise => SInv'
<1> SUFFICES ASSUME SInv, NEW z \in Noises,
                    Make("AWGN", Fill(Blocks * Oversampling, Blocks, z), "NOISY")
             PROVE  SInv'
  BY DEF create_noise
<1>1. Fits("AWGN", Fill(Blocks * Oversampling, Blocks, z))
  BY FillWhole, Sizes DEF Fits, Rows, Columns
<1> QED BY <1>1, SInvMake DEF Names, Place

LEMMA SInvAddition == SInv /\ Addition => SInv'
<1> SUFFICES ASSUME SInv, Make("NOISY", addition(t.AWGN, t.MODI), "INVERSE") PROVE SInv'
  BY DEF Addition
<1>0. Made("AWGN") /\ Made("MODI")
  BY DEF Make, Made, Place
<1>1. Fits("NOISY", addition(t.AWGN, t.MODI))
  <2>1. Whole(t["AWGN"], Blocks * Oversampling, Blocks) /\ Whole(t["MODI"], Blocks, Blocks)
    BY <1>0, MadeWhole DEF SInv, Names, Rows, Columns
  <2> QED BY <2>1, AdditionNoisy DEF Fits
<1> QED BY <1>1, SInvMake DEF Names, Place

LEMMA SInvIdentity == SInv /\ MakeIdentity => SInv'
<1> SUFFICES ASSUME SInv, Make("INVERSE", identity_init(Carriers, Carriers), "copy") PROVE SInv'
  BY DEF MakeIdentity
<1>1. Fits("INVERSE", identity_init(Carriers, Carriers))
  BY IdentityWhole DEF Fits, Rows, Columns, Square
<1> QED BY <1>1, SInvMake DEF Names, Place

LEMMA SInvCheck == SInv /\ CheckInversion => SInv'
<1> SUFFICES ASSUME SInv, Make("ANSWER", table_mult(t.CORRELATION, t.INVERSE), "done")
             PROVE  SInv'
  BY DEF CheckInversion
<1>0. Made("INVERSE")
  BY DEF Make, Made, Place
<1>1. Whole(t["INVERSE"], Carriers, Carriers)
  BY <1>0, MadeWhole DEF SInv, Names, Rows, Columns
<1>2. Fits("ANSWER", table_mult(t.CORRELATION, t.INVERSE))
  BY <1>1, MultShape, Sizes DEF Fits, Rows, Columns
<1> QED BY <1>2, SInvMake DEF Names, Place

(* The copies: no round has been made. *)
LEMMA CopyHalfway ==
  ASSUME NEW s, Square(s), Hermitian(s, 0)
  PROVE  LET c == identity_init(Carriers, Carriers)
         IN  /\ Square(c) /\ Cleared(s, 0) /\ Untouched(c, 0)
             /\ Solves(c, s, s) /\ Real(c)
<1> DEFINE c == identity_init(Carriers, Carriers)
           C == 0 .. Carriers - 1
<1>0. Carriers \in Nat
  BY Sizes
<1>1. Square(c) /\ \A i, j \in C : Entry(c, i, j) = Unit(i, j)
  BY IdentityWhole
<1> HIDE DEF c
<1>2. Cleared(s, 0) /\ Untouched(c, 0)
  BY <1>0, <1>1 DEF Cleared, Untouched
<1>3. Real(c)
  BY <1>1 DEF Real, Unit, One, Zero
<1>4. ASSUME NEW i \in C, NEW j \in C PROVE Product(c, s, i, j) = Entry(s, i, j)
  <2> DEFINE f == Terms(c, s, i, j)
  <2>1. \A k \in C : f[k] = Times(Unit(i, k), Entry(s, k, j)) /\ Entry(s, k, j) \in Value
    BY <1>1 DEF Terms, Square, HasValues
  <2> HIDE DEF f
  <2>2. f[i] = Entry(s, i, j) /\ f[i] \in Value
    BY <2>1, Units DEF Unit
  <2>3. ASSUME NEW k \in C, k # i PROVE f[k] = Zero
    BY <2>1, <2>3, Units DEF Unit
  <2>4. Total(f, Carriers) = f[i]
    BY <1>0, <2>2, <2>3, TotalUnit
  <2> QED BY <2>2, <2>4 DEF Product, f
<1> QED BY <1>1, <1>2, <1>3, <1>4 DEF Solves, c

LEMMA SInvCopy == SInv /\ CopyTables => SInv'
<1> SUFFICES ASSUME SInv, CopyTables PROVE SInv'
  OBVIOUS
<1>1. /\ stage = "copy" /\ stage' = "round" /\ t' = t /\ r' = r /\ ceil6' = ceil6
      /\ A' = t.CORRELATION /\ Aug' = t.INVERSE
  BY DEF CopyTables
<1>2. /\ r = 0 /\ t.INVERSE = identity_init(Carriers, Carriers)
      /\ Square(t.CORRELATION) /\ Hermitian(t.CORRELATION, 0)
      /\ Whole(t.CARRIERS, Blocks, Carriers) /\ HasValues(t.CARRIERS, Blocks, Carriers)
  BY <1>1 DEF SInv
<1>3. /\ Square(Aug') /\ Cleared(t.CORRELATION, 0) /\ Untouched(Aug', 0)
      /\ Solves(Aug', t.CORRELATION, t.CORRELATION) /\ Real(Aug')
  BY <1>1, <1>2, CopyHalfway
<1>4. Halfway'
  <2>1. Through' = 0 /\ A' = t'.CORRELATION
    BY <1>1, <1>2 DEF Through
  <2> QED BY <1>1, <1>2, <1>3, <2>1 DEF Halfway
<1>5. Shapes' /\ stage' \in DOMAIN Place /\ ceil6 \in Roundings
  BY <1>1, ShapesKept DEF SInv, Place
<1> QED BY <1>1, <1>2, <1>4, <1>5 DEF SInv

LEMMA SInvRound == SInv /\ Round => SInv'
<1> SUFFICES ASSUME SInv, Round PROVE SInv'
  OBVIOUS
<1>1. /\ stage = "round" /\ stage' = "round" /\ t' = t /\ r' = r + 1 /\ r \in 0 .. 1
      /\ ceil6' = ceil6 /\ ceil6 \in Roundings
  BY DEF Round, SInv
<1>2. /\ Halfway /\ Square(t.CORRELATION) /\ Hermitian(t.CORRELATION, 0)
      /\ Whole(t.CARRIERS, Blocks, Carriers) /\ HasValues(t.CARRIERS, Blocks, Carriers)
  BY <1>1 DEF SInv
<1>3. Halfway'
  BY <1>1, <1>2, RoundHalfway
<1>4. Shapes' /\ stage' \in DOMAIN Place
  BY <1>1, ShapesKept DEF SInv
<1> QED BY <1>1, <1>2, <1>3, <1>4 DEF SInv

LEMMA SInvDivide == SInv /\ DivideByZero => SInv'
<1> SUFFICES ASSUME SInv, DivideByZero PROVE SInv'
  OBVIOUS
<1>1. stage = "round" /\ stage' = "infinite" /\ t' = t /\ r' = r /\ ceil6' = ceil6
  BY DEF DivideByZero
<1>2. Shapes' /\ stage' \in DOMAIN Place
  BY <1>1, ShapesKept DEF SInv, Place
<1> QED BY <1>1, <1>2 DEF SInv

LEMMA SInvResult == SInv /\ CopyResult => SInv'
<1> SUFFICES ASSUME SInv, CopyResult PROVE SInv'
  OBVIOUS
<1>1. /\ stage = "round" /\ stage' = "ANSWER" /\ r' = r /\ ceil6' = ceil6
      /\ t' = [t EXCEPT !["INVERSE"] = Aug]
  BY DEF CopyResult
<1>2. Halfway /\ Shapes
  BY <1>1 DEF SInv
<1>3. Fits("INVERSE", Aug)
  BY <1>2 DEF Halfway, Square, Fits, Rows, Columns
<1>4. Shapes' /\ \A other \in Names : other # "INVERSE" => t'[other] = t[other]
  <2>1. ASSUME NEW other \in Names PROVE Made(other)' <=> (other = "INVERSE" \/ Made(other))
    BY <1>1 DEF Made, Names, Place
  <2> QED BY <1>1, <1>2, <1>3, <2>1, ShapesStep DEF Names
<1>5. t'["CARRIERS"] = t["CARRIERS"] /\ t'["CORRELATION"] = t["CORRELATION"]
  BY <1>4 DEF Names
<1>6. r' = 2 /\ Halfway' /\ t'["INVERSE"] = Aug'
  <2>1. r = 2 /\ A' = A /\ Aug' = Aug
    BY DEF CopyResult
  <2>2. t'["INVERSE"] = Aug
    BY <1>1, <1>2 DEF Shapes, Names
  <2> QED BY <1>1, <1>2, <1>5, <2>1, <2>2 DEF Halfway, Through, Exact
<1>7. stage' \in DOMAIN Place /\ ceil6 \in Roundings
  BY <1>1 DEF SInv, Place
<1> QED BY <1>1, <1>4, <1>5, <1>6, <1>7 DEF SInv

LEMMA SInvNext == SInv /\ [Next]_vars => SInv'
<1> SUFFICES ASSUME SInv, [Next]_vars PROVE SInv'
  OBVIOUS
<1>1. CASE UNCHANGED vars
  BY <1>1 DEF vars, SInv, Shapes, Made, Halfway, Through, Exact
<1>2. CASE Next
  BY <1>2, SInvIPBlocks, SInvCarriers, SInvCorrelate, SInvModulate, SInvNoise, SInvAddition,
     SInvIdentity, SInvCheck, SInvCopy, SInvRound, SInvDivide, SInvResult DEF Next
<1> QED BY <1>1, <1>2

LEMMA SInvHolds == Spec => []SInv
<1>1. Init => SInv
  BY SInvInit
<1>2. SInv /\ [Next]_vars => SInv'
  BY SInvNext
<1> QED BY <1>1, <1>2, PTL DEF Spec

-----------------------------------------------------------------------------
(* What follows from it. *)

(* A column that is Column is Complete. *)
LEMMA ColumnComplete ==
  ASSUME NEW m, NEW j, NEW rows \in Nat, m.rows = rows, Column(m, j, rows)
  PROVE  Complete(m, j) /\ Len(m.head[j]) = m.rows
BY ColumnLen DEF Complete, Column

LEMMA SInvType == SInv => TypeOK
<1> SUFFICES ASSUME SInv PROVE TypeOK
  OBVIOUS
<1>1. Shapes /\ r \in 0 .. 2 /\ stage \in DOMAIN Place
  BY DEF SInv
<1>2. \A name \in Names : Rows[name] \in Nat /\ Columns[name] \in Nat
  BY Sizes DEF Names, Rows, Columns
<1>3. \A name \in Names : Sized(t[name], Rows[name], Columns[name])
  <2> SUFFICES ASSUME NEW name \in Names PROVE Sized(t[name], Rows[name], Columns[name])
    OBVIOUS
  <2>1. CASE ~Made(name)
    BY <1>1, <2>1 DEF Shapes, Blank
  <2>2. CASE Made(name) /\ name # "NOISY"
    BY <1>1, <2>2, MadeWhole DEF Whole
  <2>3. CASE Made(name) /\ name = "NOISY"
    BY <1>1, <2>3 DEF Shapes, Fits, Noisy, Rows, Columns
  <2> QED BY <2>1, <2>2, <2>3
<1>4. ASSUME NEW name \in Names, NEW j \in DOMAIN t[name].head
      PROVE  \/ Made(name) /\ Complete(t[name], j)
             \/ ~Made(name) /\ t[name].head[j] = <<>>
             \/ name = "NOISY" /\ j # 0 /\ t[name].head[j] = <<>>
  <2>1. /\ j \in 0 .. Columns[name] - 1 /\ t[name].rows = Rows[name]
        /\ Rows[name] \in Nat
    BY <1>2, <1>3 DEF Sized
  <2>2. CASE ~Made(name)
    BY <1>1, <2>1, <2>2 DEF Shapes, Blank
  <2>3. CASE Made(name) /\ name # "NOISY"
    <3>1. Column(t[name], j, Rows[name])
      BY <1>1, <2>1, <2>3, MadeWhole DEF Whole
    <3> QED BY <2>1, <2>3, <3>1, ColumnComplete
  <2>4. CASE Made(name) /\ name = "NOISY"
    <3>1. Noisy(t[name]) /\ Rows[name] = Blocks /\ Columns[name] = Blocks * Oversampling
      BY <1>1, <2>4 DEF Shapes, Fits, Rows, Columns
    <3>2. Column(t[name], j, Rows[name]) \/ (j # 0 /\ t[name].head[j] = <<>>)
      BY <2>1, <3>1 DEF Noisy
    <3> QED BY <2>1, <2>4, <3>2, ColumnComplete
  <2> QED BY <2>2, <2>3, <2>4
<1>5. DOMAIN t = Names
  BY <1>1 DEF Shapes
<1>6. t.MODI.rows = t.NOISY.rows /\ t.MODI.columns * Oversampling = t.NOISY.columns
  BY <1>3 DEF Sized, Names, Rows, Columns
<1> QED BY <1>1, <1>4, <1>5, <1>6 DEF TypeOK

(* Every table of main is as table_init left it until its stage and complete from then
   on, in the dimensions main gave it; only columns of NOISY that addition had no noise
   for stay empty, never the first. *)
THEOREM TablesTypeCorrect == Spec => []TypeOK
BY SInvHolds, SInvType, PTL

(* RealCorrelation, in terms of Entry. *)
LEMMA RealCorrelated ==
  ASSUME Whole(t.CORRELATION, Carriers, Carriers)
  PROVE  RealCorrelation <=> Real(t.CORRELATION)
<1>1. \A i, j \in 0 .. Carriers - 1 : At(t.CORRELATION, i, j) = Entry(t.CORRELATION, i, j)
  BY Sizes, AtEntry
<1> QED BY <1>1 DEF RealCorrelation, Real

LEMMA SInvEliminated == SInv => Eliminated
<1> DEFINE through == IF r < 2 \/ Exact \/ RealCorrelation THEN r ELSE 1
<1> SUFFICES ASSUME SInv, stage = "round"
             PROVE  /\ \A i \in 0 .. Carriers - 1, j \in 0 .. through - 1 :
                          At(A, i, j) = IF i = j THEN One ELSE Zero
                    /\ r < Carriers /\ (r = 0 \/ Exact \/ RealCorrelation) => At(A, r, r)[2] = 0
  BY DEF Eliminated, InInvert
<1>0. Carriers \in Nat /\ Carriers >= 2 /\ r \in 0 .. 2
  BY Sizes DEF SInv
<1>1. /\ Halfway /\ Whole(A, Carriers, Carriers) /\ HasValues(A, Carriers, Carriers)
      /\ Square(t.CORRELATION)
  BY DEF SInv, Halfway, Square
<1>2. RealCorrelation <=> Real(t.CORRELATION)
  BY <1>1, RealCorrelated DEF Square
<1>3. through = Through /\ through \in 0 .. 2
  BY <1>0, <1>2 DEF Through
<1> HIDE DEF through
<1>4. ASSUME NEW i \in 0 .. Carriers - 1, NEW j \in 0 .. through - 1
      PROVE  At(A, i, j) = IF i = j THEN One ELSE Zero
  <2>1. j \in 0 .. Carriers - 1
    BY <1>0, <1>3
  <2>2. At(A, i, j) = Entry(A, i, j)
    BY <1>0, <1>1, <2>1, AtEntry
  <2>3. Entry(A, i, j) = Unit(i, j)
    BY <1>1, <1>3 DEF Halfway, Cleared
  <2> QED BY <2>2, <2>3 DEF Unit
<1>5. ASSUME r < Carriers, r = 0 \/ Exact \/ RealCorrelation PROVE At(A, r, r)[2] = 0
  <2>1. r \in 0 .. Carriers - 1
    BY <1>0, <1>5
  <2>2. At(A, r, r) = Entry(A, r, r)
    BY <1>0, <1>1, <2>1, AtEntry
  <2>3. r = 0 \/ Exact \/ Real(A)
    BY <1>1, <1>2, <1>5 DEF Halfway
  <2> QED BY <1>1, <2>1, <2>2, <2>3, RealPivot
<1> QED BY <1>4, <1>5

(* For any number of carriers, any samples, any prime and any rounding, the first round
   has a real pivot and leaves the first column that of the identity for good. The
   second does the same for its column if the correlation is real or no quotient is
   rounded, because what is left of a Hermitian table stays Hermitian. *)
THEOREM PivotsReal == Spec => []Eliminated
BY SInvHolds, SInvEliminated, PTL

LEMMA SInvAugment == SInv => AugmentFollows
<1> DEFINE C == 0 .. Carriers - 1
<1> SUFFICES ASSUME SInv, stage = "round", Exact, r < 2 \/ RealCorrelation,
                    NEW i \in C, NEW j \in C
             PROVE  Total([k \in C |-> Times(At(Aug, i, k), At(t.CORRELATION, k, j))], Carriers)
                      = At(A, i, j)
  BY DEF AugmentFollows, InInvert
<1>0. Carriers \in Nat
  BY Sizes
<1>1. /\ Halfway /\ Whole(A, Carriers, Carriers) /\ Whole(Aug, Carriers, Carriers)
      /\ Whole(t.CORRELATION, Carriers, Carriers)
  BY DEF SInv, Halfway, Square
<1>2. \A x, y \in C : /\ At(A, x, y) = Entry(A, x, y) /\ At(Aug, x, y) = Entry(Aug, x, y)
                      /\ At(t.CORRELATION, x, y) = Entry(t.CORRELATION, x, y)
  BY <1>0, <1>1, AtEntry
<1>3. r < 2 \/ Real(t.CORRELATION)
  BY <1>1, RealCorrelated
<1>4. Product(Aug, t.CORRELATION, i, j) = Entry(A, i, j)
  BY <1>1, <1>3 DEF Halfway, Solves
<1>5. [k \in C |-> Times(At(Aug, i, k), At(t.CORRELATION, k, j))] = Terms(Aug, t.CORRELATION, i, j)
  BY <1>2 DEF Terms
<1> QED BY <1>2, <1>4, <1>5 DEF Product

(* What invert does to the rows it does to the augment: where no quotient is rounded,
   the augment times the correlation is A, always after the first round, and after both
   when the correlation is real. *)
THEOREM AugmentFollowsRows == Spec => []AugmentFollows
BY SInvHolds, SInvAugment, PTL

(* With two carriers and a real correlation invert is right but for rounding: what it
   leaves in INVERSE, times the correlation, is the identity. *)
TwoCarriersInverted ==
  stage \in {"ANSWER", "done"} /\ Carriers = 2 /\ Exact /\ Real(t.CORRELATION) =>
    \A i, j \in 0 .. 1 : Product(t.INVERSE, t.CORRELATION, i, j) = Unit(i, j)

(* The outcome of invert: two rounds are enough for two carriers, whatever their samples. *)
THEOREM TwoCarriersInvert == Spec => []TwoCarriersInverted
<1>1. SInv => TwoCarriersInverted
  <2> SUFFICES ASSUME SInv, stage \in {"ANSWER", "done"}, Carriers = 2, Exact, Real(t.CORRELATION),
                      NEW i \in 0 .. 1, NEW j \in 0 .. 1
               PROVE  Product(t.INVERSE, t.CORRELATION, i, j) = Unit(i, j)
    BY DEF TwoCarriersInverted
  <2>1. r = 2 /\ Halfway /\ t.INVERSE = Aug
    BY DEF SInv
  <2>2. i \in 0 .. Carriers - 1 /\ j \in 0 .. Carriers - 1 /\ j \in 0 .. r - 1
    BY <2>1
  <2>3. Solves(Aug, t.CORRELATION, A) /\ Cleared(A, r)
    BY <2>1 DEF Halfway, Through
  <2>4. Product(Aug, t.CORRELATION, i, j) = Entry(A, i, j)
    BY <2>2, <2>3 DEF Solves
  <2>5. Entry(A, i, j) = Unit(i, j)
    BY <2>2, <2>3 DEF Cleared
  <2> QED BY <2>1, <2>4, <2>5
<1> QED BY <1>1, SInvHolds, PTL
=============================================================================
