-------------------------- MODULE MCElogAlgorithms --------------------------
(***************************************************************************)
(* The helpers of ElogAlgorithms checked over bounded inputs: each initial *)
(* state is one input, and the properties compare the code's loop with    *)
(* its reference definition.                                               *)
(***************************************************************************)
EXTENDS ElogAlgorithms

VARIABLES
  b,    \* a byte handed to bcd_to_bin
  e,    \* a multiple-event counter handed to parse_evt_cnt
  t     \* the six time bytes of a record

vars == <<b, e, t>>

\* Counters with k leading ones followed by a zero and then zeros, ones,
\* or one set bit: every count from 1 to 33 and every bit pattern below
\* the first zero that changes nothing.
\* (At width 1 the last form is -1, which is no counter.)
CntSamples ==
  {x \in {Ones} \cup
          UNION {{Ones - Pow2[j], Ones - Pow2[j + 1] + 1, Ones - Pow2[j] - 1}
                   : j \in 0 .. Width - 1} : x \in 0 .. Ones}

\* Time bytes: BCD digits, BCD values out of range for a field, and bytes
\* with a nibble above 9.
TimeSamples == {0, 1, 10, 18, 31, 89}

InitNumeric ==
  /\ b \in Byte /\ e \in CntSamples /\ t = <<1, 1, 1, 0, 0, 0>>
InitTime ==
  /\ b = 0 /\ e = Ones /\ t \in [1 .. 6 -> TimeSamples]

\* The inputs are fixed: every state is final.
Stay == UNCHANGED vars

SpecNumeric == InitNumeric /\ [][Stay]_vars

\* bcd_to_bin returns the two decimal digits of every BCD byte.
BcdDecodesDigits == IsBcd(b) => BcdToBin(b) = BcdValue(b)

\* parse_evt_cnt stops on every counter and returns 1 plus the number of
\* bits below the counter's leading ones.
EvtCntMatchesLeadingOnes == EvtCnt[e] = 1 + Width - LeadingOnes(e)

\* parse_time's ValueError handler ("Invalid time record", line 191): a
\* record whose time bytes are not all BCD is printed with an unknown date.
NonBcdTimeShownUnknown ==
  (\E i \in 1 .. 6 : ~IsBcd(t[i])) => ShownUnknown(t)

=============================================================================
