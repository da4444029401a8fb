--------------------------- MODULE EventLogProofs ---------------------------
(***************************************************************************)
(* Proofs about the record walk EventLog, for every log size and every set *)
(* of record headers: the type invariant, and that the CurShift            *)
(* bookkeeping of print_events keeps the walk on the record chain.        *)
(***************************************************************************)
EXTENDS EventLog, TLAPS

\* A parser is balanced when it subtracts from CurShift exactly what it
\* moves the file position by.
Balanced(p) == p.adv \in Nat /\ p.dec = p.adv

(***************************************************************************)
(* Lemmas about the parser operators.                                      *)
(***************************************************************************)

\* A parser that reads n bytes is balanced.
LEMMA ParseBalanced ==
  ASSUME NEW n \in Nat
  PROVE  Balanced(Parse(n))
BY DEF Balanced, Parse

\* Running two balanced parsers one after the other is balanced.
LEMMA PlusBalanced ==
  ASSUME NEW p, NEW q, Balanced(p), Balanced(q)
  PROVE  Balanced(Plus(p, q))
BY DEF Balanced, Plus

\* The fixed part of a record: type, length, time and format bytes.
LEMMA HeadParseBalanced ==
  ASSUME NEW h
  PROVE  Balanced(HeadParse(h))
BY ParseBalanced, PlusBalanced DEF HeadParse, ParseTime, FormatByte

\* Every format print_events knows parses balanced data.
LEMMA FormatParseBalanced ==
  ASSUME NEW f \in KnownFormats
  PROVE  Balanced(FormatParse(f))
<1>1. /\ Balanced(ParseBiosHandle) /\ Balanced(ParseEvtCnt)
      /\ Balanced(ParseDword) /\ Balanced(NoParse)
  BY ParseBalanced DEF ParseBiosHandle, ParseEvtCnt, ParseDword, NoParse
<1>2. /\ Balanced(Plus(ParseBiosHandle, ParseEvtCnt))
      /\ Balanced(Plus(ParseDword, ParseEvtCnt))
  BY <1>1, PlusBalanced
<1>3. QED
  BY <1>1, <1>2 DEF FormatParse, KnownFormats

\* Every type parser is balanced, whatever the BIOS, the seek(3, 1) of
\* parse_pci_error_data included.
LEMMA DataParseBalanced ==
  ASSUME NEW t, NEW b
  PROVE  Balanced(DataParse(t, b))
<1>1. Balanced(ParseEcc) /\ Balanced(NoParse) /\ Balanced(Parse(6))
  BY ParseBalanced DEF ParseEcc, NoParse
<1>2. Balanced(ParsePci(b))
  BY <1>1 DEF ParsePci
<1>3. QED
  BY <1>1, <1>2 DEF DataParse

\* Whatever a record's header, the parsers print_events runs on it are
\* balanced together.
LEMMA RecordBalanced ==
  ASSUME NEW h \in Header, NEW b
  PROVE  LET known == h.fmt \in KnownFormats
             head  == IF known THEN Plus(HeadParse(h), FormatParse(h.fmt))
                      ELSE HeadParse(h)
             data  == IF known /\ h.type \in AllEvents
                      THEN DataParse(h.type, b) ELSE NoParse
         IN  Balanced(head) /\ Balanced(data) /\ Balanced(Plus(head, data))
<1> DEFINE known == h.fmt \in KnownFormats
           head  == IF known THEN Plus(HeadParse(h), FormatParse(h.fmt))
                    ELSE HeadParse(h)
           data  == IF known /\ h.type \in AllEvents
                    THEN DataParse(h.type, b) ELSE NoParse
<1>1. Balanced(head)
  <2>1. CASE known
    BY <2>1, HeadParseBalanced, FormatParseBalanced, PlusBalanced
  <2>2. CASE ~known
    BY <2>2, HeadParseBalanced
  <2>3. QED
    BY <2>1, <2>2
<1>2. Balanced(data)
  BY DataParseBalanced, ParseBalanced DEF NoParse
<1>3. QED
  BY <1>1, <1>2, PlusBalanced

\* A balanced walk step lands at the record's start plus its length.
LEMMA NextPosBalanced ==
  ASSUME NEW at \in Nat, NEW h \in Header, NEW p, Balanced(p)
  PROVE  NextPos(at, h, p) = at + h.len
BY DEF NextPos, Balanced, Header, Bytes

(***************************************************************************)
(* Type correctness.                                                       *)
(***************************************************************************)
\* Headers are headers.
LEMMA HeadersType == Headers \subseteq Header
BY LogAssumption DEF Headers, Header

\* The start of the script is typed.
LEMMA InitTypeOK == Init => TypeOK
BY DEF Init, TypeOK, BiosKinds, Status

\* Every step keeps the types.
LEMMA NextTypeOK == TypeOK /\ [Next]_vars => TypeOK'
<1> SUFFICES ASSUME TypeOK, [Next]_vars PROVE TypeOK'
  OBVIOUS
<1>1. CASE Start
  BY <1>1 DEF Start, TypeOK, Status
<1>2. CASE ReadRecord
  <2>1. PICK h \in IF last # NoHdr /\ start = pos THEN {last} ELSE Headers :
          LET known == h.fmt \in KnownFormats
              head  == IF known THEN Plus(HeadParse(h), FormatParse(h.fmt))
                       ELSE HeadParse(h)
              data  == IF known /\ h.type \in AllEvents
                       THEN DataParse(h.type, bios) ELSE NoParse
          IN
          \/ /\ h.type = EndOfLog
             /\ status' = IF pos + 1 > LogLen THEN PastEnd ELSE "done"
             /\ UNCHANGED <<pos, start, last>>
          \/ /\ h.type # EndOfLog
             /\ pos + head.adv > LogLen
             /\ status' = PastEnd
             /\ UNCHANGED <<pos, start, last>>
          \/ /\ h.type # EndOfLog
             /\ pos + head.adv <= LogLen
             /\ known /\ h.type \in PciTypes /\ bios = "none"
             /\ status' = "index_crash"
             /\ UNCHANGED <<pos, start, last>>
          \/ /\ h.type # EndOfLog
             /\ pos + head.adv <= LogLen
             /\ ~(known /\ h.type \in PciTypes /\ bios = "none")
             /\ IF pos + head.adv + data.adv > LogLen
                  THEN status' = PastEnd /\ UNCHANGED <<pos, start, last>>
                  ELSE /\ pos' = NextPos(pos, h, Plus(head, data))
                       /\ start' = pos /\ last' = h
                       /\ UNCHANGED status
    BY <1>2 DEF ReadRecord
  <2>2. h \in Headers
    BY <2>1 DEF TypeOK
  <2>3. h \in Header
    BY <2>2, HeadersType
  <2>4. PastEnd \in Status
    BY DEF PastEnd, Status
  <2>5. NextPos(pos, h, Plus(
          IF h.fmt \in KnownFormats
          THEN Plus(HeadParse(h), FormatParse(h.fmt)) ELSE HeadParse(h),
          IF h.fmt \in KnownFormats /\ h.type \in AllEvents
          THEN DataParse(h.type, bios) ELSE NoParse)) = pos + h.len
    BY <2>3, RecordBalanced, NextPosBalanced DEF TypeOK
  <2>6. pos + h.len \in Nat
    BY <2>3 DEF TypeOK, Header, Bytes
  <2>7. UNCHANGED <<cmd, input, bios>>
    BY <1>2 DEF ReadRecord
  <2>8. QED
    BY <2>1, <2>2, <2>4, <2>5, <2>6, <2>7 DEF TypeOK, Status
<1>3. CASE Exited
  BY <1>3 DEF Exited, TypeOK, vars
<1>4. CASE UNCHANGED vars
  BY <1>4 DEF TypeOK, vars
<1>5. QED
  BY <1>1, <1>2, <1>3, <1>4 DEF Next

\* The type invariant (checked by TLC in the run elog_walk) holds in every
\* reachable state of the reader, for every log size and header set.
THEOREM TypeCorrect == Spec => []TypeOK
BY InitTypeOK, NextTypeOK, PTL DEF Spec

(***************************************************************************)
(* The walk stays on the record chain.                                     *)
(***************************************************************************)
\* Every iteration of the print_events loop that goes on with the walk
\* ends at its record's start plus the record's length byte, for every
\* format and type parser and every BIOS kind: the action property
\* WalkAligned, checked by TLC in the run elog_walk.
LEMMA StepAligned ==
  TypeOK /\ Next
    => (status = "running" /\ status' = "running" /\ last' # NoHdr
          => pos' = start' + last'.len)
<1> SUFFICES ASSUME TypeOK, Next,
                    status = "running", status' = "running", last' # NoHdr
             PROVE  pos' = start' + last'.len
  OBVIOUS
<1>1. CASE Start
  BY <1>1 DEF Start
<1>2. CASE ReadRecord
  <2>1. "running" \notin {PastEnd, "done", "index_crash"}
    BY DEF PastEnd
  <2>2. PICK h \in IF last # NoHdr /\ start = pos THEN {last} ELSE Headers :
          LET known == h.fmt \in KnownFormats
              head  == IF known THEN Plus(HeadParse(h), FormatParse(h.fmt))
                       ELSE HeadParse(h)
              data  == IF known /\ h.type \in AllEvents
                       THEN DataParse(h.type, bios) ELSE NoParse
          IN  /\ pos' = NextPos(pos, h, Plus(head, data))
              /\ start' = pos /\ last' = h
    BY <1>2, <2>1 DEF ReadRecord
  <2>3. h \in Header
    BY <2>2, HeadersType DEF TypeOK
  <2>4. QED
    BY <2>2, <2>3, RecordBalanced, NextPosBalanced DEF TypeOK
<1>3. CASE Exited
  BY <1>3 DEF Exited
<1>4. QED
  BY <1>1, <1>2, <1>3 DEF Next

\* WalkAligned holds on every behaviour of the reader, for every log size
\* and header set: print_events's seek always lands on the next record.
THEOREM WalkAlignedCorrect == Spec => WalkAligned
<1>1. Spec => []TypeOK
  BY TypeCorrect
<1>2. TypeOK /\ [Next]_vars
        => [status = "running" /\ status' = "running" /\ last' # NoHdr
              => pos' = start' + last'.len]_vars
  BY StepAligned
<1>3. QED
  BY <1>1, <1>2, PTL DEF Spec, WalkAligned

====
