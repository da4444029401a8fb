------------------------------ MODULE EventLog ------------------------------
(***************************************************************************)
(* The event-log reader src/modules/scripts/vca_elog.py: the start-up     *)
(* (BIOS detection, -d download or the record walk) and print_events, the *)
(* loop over the SMBIOS type-15 records.  Each iteration reads the type    *)
(* byte, stops on 0xff, reads the length byte into CurShift, then the     *)
(* time, the format byte and the format's data, then the type's data, and *)
(* seeks CurShift bytes forward; every parser subtracts from CurShift what *)
(* it moved the file position by, so the seek lands on the next record.   *)
(*                                                                         *)
(* A record header is the triple <<type, length, format>>.  The bytes of   *)
(* the log are read lazily: a header is any element of Headers, except    *)
(* that a record read again at the same place (length 0) is the same      *)
(* record.  A record that starts inside bytes read before (length smaller *)
(* than what its parsers read) gets an arbitrary header: this             *)
(* over-approximates what those bytes can be.  Time and data bytes only   *)
(* feed the printed text and are not represented.                         *)
(***************************************************************************)
EXTENDS Naturals

CONSTANTS
  LogLen,    \* bytes of the log area: the -i file or the NVRAM window
  Types,     \* type bytes a record may have
  Lens,      \* length bytes a record may have
  Formats,   \* format bytes (EvtLogFrm) a record may have
  NoHdr      \* no record read yet at the current position

Bytes == 0 .. 255

ASSUME LogAssumption ==
  /\ LogLen \in Nat
  /\ Types \subseteq Bytes /\ Lens \subseteq Bytes /\ Formats \subseteq Bytes
  /\ Types # {} /\ Lens # {} /\ Formats # {}

Header == [type : Bytes, len : Bytes, fmt : Bytes]
Headers == [type : Types, len : Lens, fmt : Formats]

ASSUME NoHdrAssumption == NoHdr \notin Header

\* End of log (line 242).
EndOfLog == 255

\* The keys of EventDatas (lines 89-120): AllEvents.
AllEvents == (1 .. 14) \cup (16 .. 23) \cup {224, 225, 226}
EccTypes == {1, 2}    \* parse_ecc_error_data
PciTypes == {9, 10}   \* parse_pci_error_data

(***************************************************************************)
(* What each parser does to the file: adv is how far it moves the file    *)
(* position, dec what it subtracts from CurShift.                          *)
(***************************************************************************)
Parse(n) == [adv |-> n, dec |-> n]
Plus(p, q) == [adv |-> p.adv + q.adv, dec |-> p.dec + q.dec]
NoParse == Parse(0)

\* parse_time (lines 172-194): six BCD bytes.
ParseTime == Parse(6)
\* The format byte (lines 247-248).
FormatByte == Parse(1)
\* parse_bios_handle, parse_evt_cnt, parse_dword (lines 197-225).
ParseBiosHandle == Parse(2)
ParseEvtCnt == Parse(4)
ParseDword == Parse(4)
\* parse_ecc_error_data (lines 76-79).
ParseEcc == Parse(3)

(***************************************************************************)
(* The BIOS information the main block has (lines 339, 355-376):          *)
(*   "none"        -i given: biosdata stays the empty tuple;               *)
(*   "notfound"    dmidecode has no known BIOS: (False, u"", 0, 0);        *)
(*   "unsupported" 0ACGC older than 008: the script exits;                 *)
(*   "old"/"new"   a version whose biosdata[2] is below / not below "012". *)
(* Python 2 orders 0 before any unicode text, so "notfound" acts as old.  *)
(***************************************************************************)
BiosKinds == {"none", "notfound", "unsupported", "old", "new"}

\* Mutant: the position moved by the seek(3, 1) left out of CurShift.
ParsePciNoSeekShift(bios) ==
  IF bios \in {"notfound", "old"} THEN NoParse ELSE [adv |-> 6, dec |-> 3]

\* parse_pci_error_data (lines 81-87): below BIOS "012" it reads nothing;
\* otherwise it skips 3 bytes and reads 3.  (With "none", biosdata[2]
\* raises IndexError before this: see ReadRecord.)
ParsePci(bios) ==
  IF bios \in {"notfound", "old"} THEN NoParse ELSE Parse(6)

\* The EvtLogFrm dispatch of print_events (lines 257-270); the formats
\* 0x80-0xFF have no data (lines 271-273).
KnownFormats == (1 .. 6) \cup (128 .. 255)
FormatParse(f) ==
  CASE f = 1 -> ParseBiosHandle
    [] f = 2 -> ParseEvtCnt
    [] f = 3 -> Plus(ParseBiosHandle, ParseEvtCnt)
    [] f \in {4, 5} -> ParseDword
    [] f = 6 -> Plus(ParseDword, ParseEvtCnt)
    [] f \in 128 .. 255 -> NoParse

\* EventDatas[TypeEvt][2]() for a known type (lines 282-284).
DataParse(t, bios) ==
  CASE t \in EccTypes -> ParseEcc
    [] t \in PciTypes -> ParsePci(bios)
    [] OTHER -> NoParse

\* The type and length bytes (lines 241, 244: CurShift = length - 2), the
\* time and the format byte.
HeadParse(h) == Plus(Parse(2), Plus(ParseTime, FormatByte))

\* Mutant: the seek taken from the start of the record.
NextPosFromStart(pos, h, p) == pos + (h.len - p.dec)

\* Mutant: the type and length bytes subtracted from CurShift twice.
NextPosDoubleHeader(pos, h, p) == pos + p.adv + (h.len - 2 - p.dec)

\* fp.seek(CurShift, 1) (lines 275, 299) after the parsers p moved the file
\* p.adv bytes from pos; CurShift is the length byte minus p.dec (line 244
\* takes 2 for the type and length bytes, each parser its own bytes).
NextPos(pos, h, p) == pos + p.adv + (h.len - p.dec)

Status == {"init", "running", "done", "downloaded", "unsupported",
           "eof_crash", "index_crash", "overrun"}

VARIABLES
  cmd,     \* "print" (walk the log) or "download" (-d)
  input,   \* "file" (-i) or "nvram" (/dev/mem)
  bios,    \* what GetBIOSInformation left in biosdata
  pos,     \* the file position, relative to the start of the log
  start,   \* where the last record walked started
  last,    \* its header <<TypeEvt, length, EvtLogFrm>>, NoHdr before one
  status

vars == <<cmd, input, bios, pos, start, last, status>>

\* Type invariant.
TypeOK ==
  /\ cmd \in {"print", "download"}
  /\ input \in {"file", "nvram"}
  /\ bios \in BiosKinds
  /\ pos \in Nat /\ start \in Nat
  /\ last \in Headers \cup {NoHdr}
  /\ status \in Status

\* The command line (lines 53-59: -d and -i exclude each other) and the
\* BIOS detection that runs only without -i (lines 355-360).
Init ==
  /\ cmd \in {"print", "download"}
  /\ input \in IF cmd = "download" THEN {"nvram"} ELSE {"file", "nvram"}
  /\ bios \in IF input = "file" THEN {"none"} ELSE BiosKinds \ {"none"}
  /\ pos = 0 /\ start = 0 /\ last = NoHdr
  /\ status = "init"

(***************************************************************************)
(* The main block after argument parsing (lines 361-394): an unsupported  *)
(* 0ACGC BIOS exits; -d copies the log area to a file (download_nvram);   *)
(* otherwise the memory file is opened and print_events starts.           *)
(***************************************************************************)
Start ==
  /\ status = "init"
  /\ status' = CASE bios = "unsupported" -> "unsupported"
                 [] cmd = "download"     -> "downloaded"
                 [] OTHER                -> "running"
  /\ UNCHANGED <<cmd, input, bios, pos, start, last>>

\* A read past the log area: ord('') or struct.unpack raise on the -i
\* file; on /dev/mem the walk leaves the log and reads other memory, which
\* the model does not follow.
PastEnd == IF input = "file" THEN "eof_crash" ELSE "overrun"

(***************************************************************************)
(* One iteration of the loop of print_events (lines 239-299) at pos.      *)
(***************************************************************************)
ReadRecord ==
  /\ status = "running"
  /\ \E h \in IF last # NoHdr /\ start = pos THEN {last} ELSE Headers :
       LET known == h.fmt \in KnownFormats
           head  == IF known THEN Plus(HeadParse(h), FormatParse(h.fmt))
                    ELSE HeadParse(h)
           data  == IF known /\ h.type \in AllEvents
                    THEN DataParse(h.type, bios) ELSE NoParse
       IN
       \/ /\ h.type = EndOfLog
          /\ status' = IF pos + 1 > LogLen THEN PastEnd ELSE "done"
          /\ UNCHANGED <<pos, start, last>>
       \/ /\ h.type # EndOfLog
          /\ pos + head.adv > LogLen
          /\ status' = PastEnd
          /\ UNCHANGED <<pos, start, last>>
       \/ /\ h.type # EndOfLog
          /\ pos + head.adv <= LogLen
          /\ known /\ h.type \in PciTypes /\ bios = "none"
          /\ status' = "index_crash"
          /\ UNCHANGED <<pos, start, last>>
       \/ /\ h.type # EndOfLog
          /\ pos + head.adv <= LogLen
          /\ ~(known /\ h.type \in PciTypes /\ bios = "none")
          /\ IF pos + head.adv + data.adv > LogLen
               THEN status' = PastEnd /\ UNCHANGED <<pos, start, last>>
               ELSE /\ pos' = NextPos(pos, h, Plus(head, data))
                    /\ start' = pos /\ last' = h
                    /\ UNCHANGED status
  /\ UNCHANGED <<cmd, input, bios>>

\* The process has exited.
Exited ==
  /\ status \notin {"init", "running"}
  /\ UNCHANGED vars

Next == Start \/ ReadRecord \/ Exited

\* The loop never blocks: it reads a local file or /dev/mem and prints.
Fairness == WF_vars(Next)

Spec == Init /\ [][Next]_vars /\ Fairness

(***************************************************************************)
(* Properties                                                              *)
(***************************************************************************)

\* print_events ends on every log read from a file: it stops at the 0xff
\* marker, or an exception ends the process; the loop of lines 239-299
\* never runs forever.
Termination == input = "file" => <>(status \notin {"init", "running"})

\* The CurShift bookkeeping of every parser keeps the walk on the record
\* chain: after each record the file position is exactly its start plus
\* its length byte, whatever format and type parsers ran (lines 244-299).
WalkAligned ==
  [][status = "running" /\ status' = "running" /\ last' # NoHdr
       => pos' = start' + last'.len]_vars

\* The script's advice (line 353) is to read a downloaded log with -i: a
\* run on such a file never dies of biosdata[2] on the empty tuple.
InputFileNeverIndexError == input = "file" => status # "index_crash"

=============================================================================
