--------------------------- MODULE ElogAlgorithms ---------------------------
(***************************************************************************)
(* The numeric helpers of src/modules/scripts/vca_elog.py: bcd_to_bin and *)
(* parse_time, which decode the six BCD time bytes of a record, and       *)
(* parse_evt_cnt, which turns the 32-bit multiple-event counter into a    *)
(* count.  The loop of bcd_to_bin is unrolled over the two turns a byte   *)
(* takes; that of parse_evt_cnt, whose number of turns depends on the     *)
(* width, is a recursive function.                                        *)
(***************************************************************************)
EXTENDS Naturals

\* The counter's width: 32 in the code (struct "@I").  TLC's integers stop
\* at 2^31, so the runs take the largest width below that; the loop does
\* the same thing at every width.
CONSTANT Width

ASSUME WidthAssumption == Width \in Nat \ {0}

Byte == 0 .. 255
Nibble(b, i) == IF i = 0 THEN b % 16 ELSE (b \div 16) % 16

\* A byte both of whose nibbles are decimal digits.
IsBcd(b) == Nibble(b, 0) <= 9 /\ Nibble(b, 1) <= 9

\* Reference: the two decimal digits of a BCD byte.
BcdValue(b) == 10 * Nibble(b, 1) + Nibble(b, 0)

\* Mutant: the digit weight multiplied by 16, as for a hexadecimal digit.
CurMulHex == 16

\* curMul *= 10 (line 232): the weight of the next digit.
CurMul == 10

\* One turn of the while loop of bcd_to_bin (lines 230-233) on the state
\* <<res, curMul, par>>: res += curMul * (par % 16); curMul *= 10;
\* par /= 16 (Python 2 integer division).  Once par is 0 the loop has
\* stopped and a turn changes nothing.
BcdTurn(s) ==
  IF s.par = 0 THEN s
  ELSE [res |-> s.res + s.curMul * (s.par % 16),
        curMul |-> s.curMul * CurMul,
        par |-> s.par \div 16]

\* bcd_to_bin (lines 227-234) from res = 0, curMul = 1.  Its argument is
\* always ord() of one byte (lines 173-178), and par \div 16 \div 16 is 0
\* for a byte, so the loop has stopped after two turns.
BcdToBin(par) == BcdTurn(BcdTurn([res |-> 0, curMul |-> 1, par |-> par])).res

(***************************************************************************)
(* parse_time (lines 172-194): datetime(2000 + year, month, day, hour,    *)
(* min, sec) or, when datetime raises ValueError, the placeholder          *)
(* 2000-01-01 00:00:00.  print_events prints "Date: <unknown>" whenever    *)
(* the year is 2000 (lines 288-289).                                       *)
(***************************************************************************)
IsLeap(y) == (y % 4 = 0 /\ y % 100 # 0) \/ y % 400 = 0
DaysIn(y, m) ==
  CASE m = 2 -> IF IsLeap(y) THEN 29 ELSE 28
    [] m \in {4, 6, 9, 11} -> 30
    [] OTHER -> 31

\* What Python's datetime constructor accepts.
IsDateTime(d) ==
  /\ 1 <= d.year /\ d.year <= 9999 /\ 1 <= d.month /\ d.month <= 12
  /\ 1 <= d.day /\ d.day <= DaysIn(d.year, d.month)
  /\ d.hour <= 23 /\ d.min <= 59 /\ d.sec <= 59

Placeholder == [year |-> 2000, month |-> 1, day |-> 1,
                hour |-> 0, min |-> 0, sec |-> 0]

\* t is the sequence of the six time bytes in the order they are read.
ParseTime(t) ==
  LET d == [year |-> BcdToBin(t[1]) + 2000, month |-> BcdToBin(t[2]),
            day |-> BcdToBin(t[3]), hour |-> BcdToBin(t[4]),
            min |-> BcdToBin(t[5]), sec |-> BcdToBin(t[6])]
  IN IF IsDateTime(d) THEN d ELSE Placeholder

\* print_events shows "Date: <unknown>" instead of the time t decodes to.
ShownUnknown(t) == ParseTime(t).year = 2000

(***************************************************************************)
(* parse_evt_cnt (lines 206-217): count 1, then while the counter is not  *)
(* 0xFFFFFFFF shift it right and set bit 31, counting one per turn.        *)
(***************************************************************************)
\* 2^n, as a function the proofs can unfold.
Pow2[n \in Nat] == IF n = 0 THEN 1 ELSE 2 * Pow2[n - 1]

Ones == Pow2[Width] - 1
Top == Pow2[Width - 1]

\* Mutant: the count started at 0.
LocCntZero == 0

\* loc_cnt = 1 (line 210): the count before the loop.
LocCnt == 1

\* The loop: e \div 2 + Top is (e >> 1) | 0x80000000 for e < 2^32.
EvtCnt[e \in 0 .. Ones] ==
  IF e = Ones THEN LocCnt ELSE 1 + EvtCnt[e \div 2 + Top]

\* Reference: how many of the counter's top bits are ones.
LeadingOnes(e) ==
  CHOOSE k \in 0 .. Width :
    /\ e \div Pow2[Width - k] = Pow2[k] - 1
    /\ (k = Width \/ e \div Pow2[Width - k - 1] # Pow2[k + 1] - 1)

=============================================================================
