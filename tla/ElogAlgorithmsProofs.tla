------------------------ MODULE ElogAlgorithmsProofs ------------------------
(***************************************************************************)
(* Proofs about the numeric helpers of vca_elog.py: the loop of           *)
(* bcd_to_bin, unrolled over two turns, is the whole loop on every byte,  *)
(* and it returns the byte's two decimal digits.  The loop of             *)
(* parse_evt_cnt, a recursive function over the counter, returns Width   *)
(* + 1 minus the number of the counter's leading one bits, for            *)
(* every counter and every Width: shown by least-counterexample induction *)
(* over the naturals (NatLeast).                                           *)
(***************************************************************************)
EXTENDS MCElogAlgorithms, NaturalsInduction, WellFoundedInduction, TLAPS

\* The loop state bcd_to_bin starts from on argument x.
BcdStart(x) == [res |-> 0, curMul |-> 1, par |-> x]

\* On every byte the loop of bcd_to_bin has stopped after two turns
\* (par is 0), so BcdToBin is the code's whole loop and not a prefix of it.
LEMMA BcdLoopStops ==
  ASSUME NEW x \in Byte
  PROVE  BcdTurn(BcdTurn(BcdStart(x))).par = 0
<1>1. CASE x = 0
  BY <1>1 DEF BcdTurn, BcdStart
<1>2. CASE x # 0 /\ x \div 16 = 0
  BY <1>2 DEF BcdTurn, BcdStart
<1>3. CASE x # 0 /\ x \div 16 # 0
  <2>1. (x \div 16) \div 16 = 0
    BY DEF Byte
  <2> QED
    BY <1>3, <2>1 DEF BcdTurn, BcdStart
<1> QED
  BY <1>1, <1>2, <1>3

\* bcd_to_bin returns sixteens digit times 10 plus ones digit on every
\* byte, BCD or not: it reads the high nibble as a decimal digit.
LEMMA BcdToBinNibbles ==
  ASSUME NEW x \in Byte
  PROVE  BcdToBin(x) = BcdValue(x)
<1>1. CASE x = 0
  BY <1>1 DEF BcdToBin, BcdTurn, BcdStart, BcdValue, Nibble, CurMul
<1>2. CASE x # 0 /\ x \div 16 = 0
  BY <1>2 DEF BcdToBin, BcdTurn, BcdStart, BcdValue, Nibble, CurMul, Byte
<1>3. CASE x \div 16 # 0
  <2>1. /\ x # 0
        /\ (x \div 16) \div 16 = 0
        /\ (x \div 16) % 16 = x \div 16
    BY <1>3 DEF Byte
  <2>2. BcdTurn(BcdStart(x))
          = [res |-> x % 16, curMul |-> 10, par |-> x \div 16]
    BY <2>1 DEF BcdTurn, BcdStart, CurMul, Byte
  <2>3. BcdToBin(x) = (x % 16) + 10 * (x \div 16)
    BY <1>3, <2>1, <2>2 DEF BcdToBin, BcdTurn, BcdStart
  <2> QED
    BY <2>1, <2>3 DEF BcdValue, Nibble, Byte
<1> QED
  BY <1>1, <1>2, <1>3

(***************************************************************************)
(* Powers of two and induction over the naturals.                          *)
(***************************************************************************)

\* Pow2 is the function its recursive definition describes.
LEMMA Pow2Def ==
  NatInductiveDefConclusion(Pow2, 1, LAMBDA v, n : 2 * v)
<1>1. NatInductiveDefHypothesis(Pow2, 1, LAMBDA v, n : 2 * v)
  BY DEF NatInductiveDefHypothesis, Pow2
<1> QED
  BY <1>1, NatInductiveDef

\* The two cases of Pow2's definition.
LEMMA Pow2Unfold ==
  /\ Pow2[0] = 1
  /\ \A n \in Nat : Pow2[n + 1] = 2 * Pow2[n]
BY Pow2Def DEF NatInductiveDefConclusion

\* Every non-empty set of naturals has a least element: the
\* well-foundedness of < on Nat, used below as the induction principle.
LEMMA NatLeast ==
  ASSUME NEW T, T \subseteq Nat, T # {}
  PROVE  \E m \in T : \A k \in T : m <= k
<1>1. PICK x \in T : \A y \in T : ~(<<y, x>> \in OpToRel(<, Nat))
  BY NatLessThanWellFounded, WFMin
<1>2. \A y \in T : ~(y < x)
  BY <1>1 DEF OpToRel
<1> QED
  BY <1>2

\* Every power of two is a positive natural.
LEMMA Pow2Type ==
  \A n \in Nat : Pow2[n] \in Nat \ {0}
<1> DEFINE T == {n \in Nat : Pow2[n] \notin Nat \ {0}}
<1> SUFFICES ASSUME T # {} PROVE FALSE
  OBVIOUS
<1>1. PICK m \in T : \A k \in T : m <= k
  BY NatLeast
<1>2. m # 0
  BY <1>1, Pow2Unfold
<1>3. m - 1 \notin T
  BY <1>1, <1>2
<1>4. Pow2[m] = 2 * Pow2[m - 1]
  BY <1>1, <1>2, Pow2Unfold
<1> QED
  BY <1>1, <1>2, <1>3, <1>4

\* 2^(i + j) = 2^i * 2^j.
LEMMA Pow2Add ==
  ASSUME NEW i \in Nat, NEW j \in Nat
  PROVE  Pow2[i + j] = Pow2[i] * Pow2[j]
<1> DEFINE T == {n \in Nat : Pow2[i + n] # Pow2[i] * Pow2[n]}
<1> SUFFICES ASSUME T # {} PROVE FALSE
  OBVIOUS
<1>1. PICK m \in T : \A k \in T : m <= k
  BY NatLeast
<1>2. m # 0
  BY <1>1, Pow2Unfold, Pow2Type
<1>3. Pow2[i + (m - 1)] = Pow2[i] * Pow2[m - 1]
  BY <1>1, <1>2
<1>4. /\ Pow2[i + m] = 2 * Pow2[i + (m - 1)]
      /\ Pow2[m] = 2 * Pow2[m - 1]
  BY <1>1, <1>2, Pow2Unfold
<1>5. Pow2[i] \in Nat /\ Pow2[m - 1] \in Nat
  BY <1>1, <1>2, Pow2Type
<1> QED
  BY <1>1, <1>3, <1>4, <1>5

\* x \div n is the quotient of every decomposition x = n * v + r with r
\* a remainder below n.
LEMMA DivUnique ==
  ASSUME NEW x \in Int, NEW n \in Nat \ {0}, NEW v \in Int,
         NEW r \in 0 .. n - 1, x = n * v + r
  PROVE  x \div n = v /\ x % n = r
OBVIOUS

\* Dividing by p and then by q is dividing by p * q.
LEMMA DivDiv ==
  ASSUME NEW x \in Nat, NEW p \in Nat \ {0}, NEW q \in Nat \ {0}
  PROVE  (x \div p) \div q = x \div (p * q)
<1> DEFINE u == x \div p
<1> DEFINE v == u \div q
<1>1. x = p * u + (x % p) /\ x % p \in 0 .. p - 1 /\ u \in Nat
  OBVIOUS
<1>2. u = q * v + (u % q) /\ u % q \in 0 .. q - 1 /\ v \in Nat
  BY <1>1
<1> HIDE DEF u, v
<1>3. x = (p * q) * v + (p * (u % q) + (x % p))
  BY <1>1, <1>2
<1>4. p * (u % q) + (x % p) \in 0 .. p * q - 1
  <2>1. p * (u % q) <= p * (q - 1)
    BY <1>2
  <2> QED
    BY <1>1, <1>2, <2>1
<1>5. p * q \in Nat \ {0}
  OBVIOUS
<1> QED
  BY <1>2, <1>3, <1>4, <1>5, DivUnique DEF u, v

(***************************************************************************)
(* The reference LeadingOnes: its CHOOSE has exactly one candidate.        *)
(***************************************************************************)

\* The top k of the counter's Width bits are ones.
TopOnes(x, k) == x \div Pow2[Width - k] = Pow2[k] - 1

\* The predicate LeadingOnes chooses by: k top ones, then a zero.
IsLeadingOnes(x, k) == TopOnes(x, k) /\ (k = Width \/ ~TopOnes(x, k + 1))

\* Facts about Width and 2^Width used throughout.
LEMMA WidthFacts ==
  /\ Width \in Nat \ {0}
  /\ Pow2[Width] = 2 * Top
  /\ Top \in Nat \ {0}
  /\ Ones = 2 * Top - 1
  /\ Ones \in Nat
<1>1. Width \in Nat \ {0}
  BY WidthAssumption
<1>2. Pow2[Width] = 2 * Pow2[Width - 1]
  BY <1>1, Pow2Unfold
<1>3. Pow2[Width - 1] \in Nat \ {0}
  BY <1>1, Pow2Type
<1> QED
  BY <1>1, <1>2, <1>3 DEF Top, Ones

\* (m * c - 1) \div c = m - 1 for positive m and c.
LEMMA AllOnesDiv ==
  ASSUME NEW m \in Nat \ {0}, NEW c \in Nat \ {0}
  PROVE  (m * c - 1) \div c = m - 1
<1>1. m * c - 1 = c * (m - 1) + (c - 1)
  OBVIOUS
<1> QED
  BY <1>1, DivUnique

\* Ones at the top k bits means ones at the top j bits for every j <= k.
LEMMA TopOnesPrefix ==
  ASSUME NEW x \in Nat, NEW k \in 0 .. Width, NEW j \in 0 .. k,
         TopOnes(x, k)
  PROVE  TopOnes(x, j)
<1>1. Width \in Nat
  BY WidthAssumption
<1>2. Pow2[Width - j] = Pow2[Width - k] * Pow2[k - j]
  BY <1>1, Pow2Add
<1>3. Pow2[k] = Pow2[j] * Pow2[k - j]
  BY Pow2Add
<1>4. /\ Pow2[Width - k] \in Nat \ {0}
      /\ Pow2[k - j] \in Nat \ {0}
      /\ Pow2[j] \in Nat \ {0}
  BY <1>1, Pow2Type
<1>5. x \div Pow2[Width - j] = (x \div Pow2[Width - k]) \div Pow2[k - j]
  BY <1>2, <1>4, DivDiv
<1>6. (Pow2[k] - 1) \div Pow2[k - j] = Pow2[j] - 1
  BY <1>3, <1>4, AllOnesDiv
<1> QED
  BY <1>5, <1>6 DEF TopOnes

\* Every counter has a number of leading ones.
LEMMA LeadingOnesExists ==
  ASSUME NEW x \in 0 .. Ones
  PROVE  \E k \in 0 .. Width : IsLeadingOnes(x, k)
<1>1. Width \in Nat \ {0} /\ Ones = Pow2[Width] - 1
  BY WidthFacts DEF Ones
<1> DEFINE K == {n \in 0 .. Width : TopOnes(x, Width - n)}
<1>2. Width \in K
  <2>1. x \div Pow2[Width] = 0
    BY <1>1, Pow2Type, DivUnique
  <2> QED
    BY <1>1, <2>1, Pow2Unfold DEF TopOnes
<1>3. PICK n \in K : \A l \in K : n <= l
  <2>1. K \subseteq Nat
    BY <1>1 DEF K
  <2>2. K # {}
    BY <1>2
  <2> HIDE DEF K
  <2> QED
    BY <2>1, <2>2, NatLeast
<1>4. IsLeadingOnes(x, Width - n)
  <2>1. CASE n = 0
    BY <1>1, <1>3, <2>1 DEF IsLeadingOnes, K
  <2>2. CASE n # 0
    <3>1. n - 1 \notin K
      BY <1>3, <2>2
    <3>2. ~TopOnes(x, Width - (n - 1))
      BY <1>1, <1>3, <2>2, <3>1 DEF K
    <3> QED
      BY <1>1, <1>3, <3>2 DEF IsLeadingOnes, K
  <2> QED
    BY <2>1, <2>2
<1> QED
  BY <1>1, <1>3, <1>4 DEF K

\* A counter has only one number of leading ones.
LEMMA LeadingOnesUnique ==
  ASSUME NEW x \in Nat, NEW k1 \in 0 .. Width, NEW k2 \in 0 .. Width,
         IsLeadingOnes(x, k1), IsLeadingOnes(x, k2)
  PROVE  k1 = k2
<1> SUFFICES ASSUME k1 < k2 PROVE FALSE
  <2>1. ~(k2 < k1)
    BY TopOnesPrefix DEF IsLeadingOnes
  <2> QED
    BY <2>1
<1>1. TopOnes(x, k1 + 1)
  BY TopOnesPrefix DEF IsLeadingOnes
<1> QED
  BY <1>1 DEF IsLeadingOnes

\* LeadingOnes(x) is the one k its CHOOSE describes.
LEMMA LeadingOnesIs ==
  ASSUME NEW x \in 0 .. Ones
  PROVE  /\ LeadingOnes(x) \in 0 .. Width
         /\ IsLeadingOnes(x, LeadingOnes(x))
         /\ \A k \in 0 .. Width : IsLeadingOnes(x, k) => LeadingOnes(x) = k
<1>1. Ones \in Nat /\ Width \in Nat
  BY WidthFacts
<1>2. \A k \in 0 .. Width :
        IsLeadingOnes(x, k)
          <=> /\ x \div Pow2[Width - k] = Pow2[k] - 1
              /\ (k = Width \/ x \div Pow2[Width - k - 1] # Pow2[k + 1] - 1)
  BY <1>1 DEF IsLeadingOnes, TopOnes
<1>3. LeadingOnes(x) \in 0 .. Width /\ IsLeadingOnes(x, LeadingOnes(x))
  BY <1>2, LeadingOnesExists DEF LeadingOnes
<1> QED
  BY <1>1, <1>3, LeadingOnesUnique

\* The k of IsLeadingOnes is LeadingOnes.
LEMMA LeadingOnesEq ==
  ASSUME NEW x \in 0 .. Ones, NEW k \in 0 .. Width, IsLeadingOnes(x, k)
  PROVE  LeadingOnes(x) = k
BY LeadingOnesIs

\* 0xFFFFFFFF has all Width bits set.
LEMMA OnesLeading ==
  IsLeadingOnes(Ones, Width)
<1>1. Ones \in Nat /\ Width \in Nat /\ Ones = Pow2[Width] - 1
  BY WidthFacts DEF Ones
<1> QED
  BY <1>1, Pow2Unfold DEF IsLeadingOnes, TopOnes

\* The arithmetic of one turn: if the counter's bits above the lowest
\* w + 1 are the k ones P - 1 (P = 2^k, m = 2^w), then after the shift and
\* the new top bit Top = P * m its bits above the lowest w are 2P - 1.
LEMMA ShiftInOne ==
  ASSUME NEW x \in Nat, NEW m \in Nat \ {0}, NEW P \in Nat \ {0},
         x \div (2 * m) = P - 1
  PROVE  (x \div 2 + P * m) \div m = 2 * P - 1
<1>1. (x \div 2) \div m = x \div (2 * m)
  <2>1. 2 \in Nat \ {0}
    OBVIOUS
  <2> QED
    BY <2>1, DivDiv, Zenon
<1> DEFINE h == x \div 2
<1> DEFINE s == h % m
<1>2. h \in Nat /\ h = m * (P - 1) + s /\ s \in 0 .. m - 1
  BY <1>1
<1> HIDE DEF h, s
<1>3. h + P * m = m * (2 * P - 1) + s
  BY <1>2
<1> DEFINE X == h + P * m
<1> HIDE DEF X
<1>4. X \div m = 2 * P - 1
  BY <1>2, <1>3 DEF X
<1> QED
  BY <1>4 DEF X, h

\* ... and if the bit below those k ones is a zero (the bits above the
\* lowest w are not 2P - 1, m = 2n), then the bits above the lowest w - 1
\* after the turn are 4P - 2, not the k + 2 ones 4P - 1.
LEMMA ShiftKeepsZero ==
  ASSUME NEW x \in Nat, NEW n \in Nat \ {0}, NEW P \in Nat \ {0},
         x \div (2 * (2 * n)) = P - 1,
         x \div (2 * n) # 2 * P - 1
  PROVE  (x \div 2 + P * (2 * n)) \div n # 4 * P - 1
<1>1. /\ 2 \in Nat \ {0}
      /\ 2 * n \in Nat \ {0}
  OBVIOUS
<1>2. (x \div (2 * n)) \div 2 = x \div ((2 * n) * 2)
  BY <1>1, DivDiv, Zenon
<1>3. (x \div 2) \div n = x \div (2 * n)
  BY <1>1, DivDiv, Zenon
<1> DEFINE q == x \div (2 * n)
<1>4. q \in Nat /\ q \div 2 = P - 1 /\ q # 2 * P - 1
  BY <1>2
<1> HIDE DEF q
<1>5. q = 2 * P - 2
  BY <1>4
<1> DEFINE h == x \div 2
<1> DEFINE s == h % n
<1>6. h \in Nat /\ h = n * (2 * P - 2) + s /\ s \in 0 .. n - 1
  BY <1>3, <1>5 DEF q
<1> HIDE DEF h, s
<1>7. h + P * (2 * n) = n * (4 * P - 2) + s
  BY <1>6
<1> DEFINE X == h + P * (2 * n)
<1> HIDE DEF X
<1>8. X \div n = 4 * P - 2
  BY <1>6, <1>7 DEF X
<1> QED
  BY <1>8 DEF X, h

\* One turn of parse_evt_cnt's loop, (x >> 1) | 0x80000000, shifts in one
\* more leading one: the counter stays a counter and its leading ones go
\* from k to k + 1.
LEMMA TurnAddsLeadingOne ==
  ASSUME NEW x \in 0 .. Ones, x # Ones, NEW k \in 0 .. Width,
         IsLeadingOnes(x, k)
  PROVE  /\ k < Width
         /\ x \div 2 + Top \in 0 .. Ones
         /\ IsLeadingOnes(x \div 2 + Top, k + 1)
<1>1. /\ Width \in Nat \ {0} /\ Top \in Nat \ {0} /\ Ones = 2 * Top - 1
      /\ Pow2[Width] = 2 * Top
  BY WidthFacts
<1>2. k # Width
  BY <1>1, Pow2Unfold DEF IsLeadingOnes, TopOnes, Ones
<1>3. x \div 2 + Top \in 0 .. Ones
  BY <1>1
<1>4. /\ Width - k - 1 \in Nat /\ k \in Nat
      /\ Width - k = (Width - k - 1) + 1
      /\ Width - 1 = k + (Width - k - 1)
  BY <1>1, <1>2
<1>5. /\ Pow2[Width - k - 1] \in Nat \ {0} /\ Pow2[k] \in Nat \ {0}
      /\ Pow2[(Width - k - 1) + 1] = 2 * Pow2[Width - k - 1]
      /\ Pow2[k + 1] = 2 * Pow2[k]
  BY <1>4, Pow2Type, Pow2Unfold
<1>6. Pow2[k + (Width - k - 1)] = Pow2[k] * Pow2[Width - k - 1]
  BY <1>4, Pow2Add, Zenon
<1> DEFINE m == Pow2[Width - k - 1]
<1> DEFINE P == Pow2[k]
<1>7. /\ m \in Nat \ {0} /\ P \in Nat \ {0}
      /\ Pow2[Width - k] = 2 * m
      /\ Pow2[k + 1] = 2 * P
      /\ Top = P * m
  BY <1>4, <1>5, <1>6 DEF Top, m, P
<1>8. x \div (2 * m) = P - 1
  BY <1>7 DEF IsLeadingOnes, TopOnes, m, P
<1>9. x \in Nat
  BY <1>1
<1> HIDE DEF m, P
<1>10. TopOnes(x \div 2 + Top, k + 1)
  <2>1. (x \div 2 + P * m) \div m = 2 * P - 1
    BY <1>7, <1>8, <1>9, ShiftInOne, Zenon
  <2>2. Width - (k + 1) = Width - k - 1
    BY <1>1, <1>4
  <2> QED
    BY <1>7, <2>1, <2>2 DEF TopOnes, m
<1>11. k + 1 # Width => ~TopOnes(x \div 2 + Top, k + 2)
  <2> SUFFICES ASSUME k + 1 # Width
               PROVE  ~TopOnes(x \div 2 + Top, k + 2)
    OBVIOUS
  <2>1. /\ Width - k - 2 \in Nat
        /\ Width - k - 1 = (Width - k - 2) + 1
        /\ Width - (k + 2) = Width - k - 2
        /\ Width - (k + 1) = Width - k - 1
        /\ k + 2 = (k + 1) + 1
    BY <1>1, <1>2, <1>4
  <2>2. /\ Pow2[Width - k - 2] \in Nat \ {0}
        /\ Pow2[(Width - k - 2) + 1] = 2 * Pow2[Width - k - 2]
        /\ Pow2[(k + 1) + 1] = 2 * Pow2[k + 1]
  BY <2>1, Pow2Type, Pow2Unfold
  <2> DEFINE n == Pow2[Width - k - 2]
  <2>3. /\ n \in Nat \ {0} /\ m = 2 * n
        /\ Pow2[k + 2] = 4 * P
    BY <1>7, <2>1, <2>2 DEF m, P, n
  <2>4. x \div (2 * n) # 2 * P - 1
    <3>1. ~TopOnes(x, k + 1)
      BY <1>2 DEF IsLeadingOnes
    <3> QED
      BY <1>7, <2>1, <2>3, <3>1 DEF TopOnes, m, P
  <2>5. x \div (2 * (2 * n)) = P - 1
    BY <1>8, <2>3
  <2> HIDE DEF n
  <2>6. (x \div 2 + P * (2 * n)) \div n # 4 * P - 1
    BY <1>7, <1>9, <2>3, <2>4, <2>5, ShiftKeepsZero, Zenon
  <2> QED
    BY <1>7, <2>1, <2>3, <2>6 DEF TopOnes, n
<1> QED
  BY <1>1, <1>2, <1>3, <1>10, <1>11 DEF IsLeadingOnes

(***************************************************************************)
(* What parse_evt_cnt's loop computes.                                     *)
(***************************************************************************)

\* The count the loop should return: 1 plus the bits below the leading ones.
ExpectedCnt == [x \in 0 .. Ones |-> 1 + Width - LeadingOnes(x)]

\* The expected counts satisfy the loop's recursion, so the recursive
\* definition of EvtCnt describes a function.
LEMMA ExpectedCntFixpoint ==
  ExpectedCnt = [x \in 0 .. Ones |->
                   IF x = Ones THEN LocCnt ELSE 1 + ExpectedCnt[x \div 2 + Top]]
<1> SUFFICES ASSUME NEW x \in 0 .. Ones
             PROVE  ExpectedCnt[x] =
                      IF x = Ones THEN LocCnt ELSE 1 + ExpectedCnt[x \div 2 + Top]
  BY DEF ExpectedCnt
<1>1. Width \in Nat /\ Ones \in Nat
  BY WidthFacts
<1>2. CASE x = Ones
  <2>1. LeadingOnes(Ones) = Width
    BY <1>1, OnesLeading, LeadingOnesIs
  <2> QED
    BY <1>1, <1>2, <2>1 DEF ExpectedCnt, LocCnt
<1>3. CASE x # Ones
  <2>1. LeadingOnes(x) \in 0 .. Width /\ IsLeadingOnes(x, LeadingOnes(x))
    BY LeadingOnesIs
  <2>2. /\ LeadingOnes(x) < Width
        /\ x \div 2 + Top \in 0 .. Ones
        /\ IsLeadingOnes(x \div 2 + Top, LeadingOnes(x) + 1)
    BY <1>3, <2>1, TurnAddsLeadingOne
  <2>3. LeadingOnes(x \div 2 + Top) = LeadingOnes(x) + 1
    <3>1. LeadingOnes(x) + 1 \in 0 .. Width
      BY <1>1, <2>1, <2>2
    <3> QED
      BY <2>2, <3>1, LeadingOnesEq
  <2> QED
    BY <1>1, <1>3, <2>1, <2>2, <2>3 DEF ExpectedCnt
<1> QED
  BY <1>2, <1>3

\* EvtCnt satisfies its recursive definition.
LEMMA EvtCntUnfold ==
  EvtCnt = [x \in 0 .. Ones |->
              IF x = Ones THEN LocCnt ELSE 1 + EvtCnt[x \div 2 + Top]]
BY ExpectedCntFixpoint DEF EvtCnt

\* parse_evt_cnt returns 1 plus the number of bits below the counter's
\* leading ones, for every Width-bit counter: induction on that number.
LEMMA EvtCntIsExpected ==
  \A x \in 0 .. Ones : EvtCnt[x] = 1 + Width - LeadingOnes(x)
<1>1. Width \in Nat /\ Ones \in Nat
  BY WidthFacts
<1> DEFINE Bad(x) == EvtCnt[x] # 1 + Width - LeadingOnes(x)
<1> DEFINE T == {d \in Nat : \E x \in 0 .. Ones : Width - LeadingOnes(x) = d /\ Bad(x)}
<1> SUFFICES ASSUME NEW x \in 0 .. Ones, Bad(x) PROVE FALSE
  OBVIOUS
<1>2. T \subseteq Nat /\ T # {}
  <2>1. LeadingOnes(x) \in 0 .. Width
    BY LeadingOnesIs
  <2> QED
    BY <1>1, <2>1
<1>3. PICK d \in T : \A l \in T : d <= l
  <2> HIDE DEF T
  <2> QED
    BY <1>2, NatLeast
<1>4. PICK x0 \in 0 .. Ones : Width - LeadingOnes(x0) = d /\ Bad(x0)
  BY <1>3
<1>5. CASE x0 = Ones
  <2>1. LeadingOnes(Ones) = Width
    BY <1>1, OnesLeading, LeadingOnesIs
  <2>2. EvtCnt[Ones] = LocCnt
    BY <1>1, EvtCntUnfold
  <2> QED
    BY <1>1, <1>4, <1>5, <2>1, <2>2 DEF LocCnt
<1>6. CASE x0 # Ones
  <2> DEFINE y == x0 \div 2 + Top
  <2>1. LeadingOnes(x0) \in 0 .. Width /\ IsLeadingOnes(x0, LeadingOnes(x0))
    BY LeadingOnesIs
  <2>2. /\ LeadingOnes(x0) < Width
        /\ y \in 0 .. Ones
        /\ IsLeadingOnes(y, LeadingOnes(x0) + 1)
    BY <1>6, <2>1, TurnAddsLeadingOne
  <2>3. LeadingOnes(y) = LeadingOnes(x0) + 1
    <3>1. LeadingOnes(x0) + 1 \in 0 .. Width
      BY <1>1, <2>1, <2>2
    <3> QED
      BY <2>2, <3>1, LeadingOnesEq
  <2>4. d - 1 \notin T
    BY <1>1, <1>3, <1>4, <2>1, <2>2
  <2>5. ~Bad(y)
    BY <1>1, <1>4, <2>1, <2>2, <2>3, <2>4
  <2>6. EvtCnt[x0] = 1 + EvtCnt[y]
    BY <1>6, EvtCntUnfold
  <2> QED
    BY <1>1, <1>4, <2>1, <2>3, <2>5, <2>6
<1> QED
  BY <1>5, <1>6

\* The inputs stay those the run starts from: b is a byte.
IsByte == b \in Byte

\* The property the elog_numeric run checks on every byte: bcd_to_bin
\* decodes the two digits of every BCD time byte (lines 227-234), for
\* every input the run starts from.
THEOREM BcdCorrect == SpecNumeric => []BcdDecodesDigits
<1>1. InitNumeric => IsByte
  BY DEF InitNumeric, IsByte
<1>2. IsByte /\ [Stay]_vars => IsByte'
  BY DEF Stay, vars, IsByte
<1>3. IsByte => BcdDecodesDigits
  BY BcdToBinNibbles DEF BcdDecodesDigits, IsByte
<1> QED
  BY <1>1, <1>2, <1>3, PTL DEF SpecNumeric
\* The counter stays one of the Width-bit counters the run starts from.
IsCounter == e \in 0 .. Ones

\* The property the elog_numeric run checks on its sample counters, for
\* every input the run starts from and every width: parse_evt_cnt (lines
\* 206-217) returns 1 plus the bits below the counter's leading ones.
THEOREM EvtCntCorrect == SpecNumeric => []EvtCntMatchesLeadingOnes
<1>1. InitNumeric => IsCounter
  BY DEF InitNumeric, IsCounter, CntSamples
<1>2. IsCounter /\ [Stay]_vars => IsCounter'
  BY DEF Stay, vars, IsCounter
<1>3. IsCounter => EvtCntMatchesLeadingOnes
  BY EvtCntIsExpected DEF EvtCntMatchesLeadingOnes, IsCounter
<1> QED
  BY <1>1, <1>2, <1>3, PTL DEF SpecNumeric
=============================================================================
