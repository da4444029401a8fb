---------------------------- MODULE ConfigExtract ----------------------------
(***************************************************************************)
(* Extraction of the option triples in src/apps/scripts/make_config.py:   *)
(* XMLContainer (lines 408-477) reads the three documents and             *)
(* combine_properties (lines 485-522) turns what it read into one triple  *)
(* [old, user, new] per option and scope.  The documents are visited in  *)
(* the iteration order of the dict {"o", "u", "n"}, which in CPython 2 is *)
(* u, o, n.  The code is deterministic, so each function is an operator   *)
(* of the three documents D.  The loop over the documents is written as  *)
(* its three passes; the loops that carry state from one cpu to the next  *)
(* (bDevs, the block-device reset) as "the last earlier visit that ..."   *)
(* over the visit order.                                                  *)
(*                                                                         *)
(* A document has a global section, and per card slot either Absent or   *)
(* per cpu slot either Absent or the cpu element: its option texts and    *)
(* either Absent (no block-devs child) or, per device name, Absent or the *)
(* device's option texts.  Element order inside a document is card id,    *)
(* cpu id order.                                                           *)
(***************************************************************************)
EXTENDS Naturals

CONSTANTS
  NCards,    \* card slots: 8 in the code (line 447)
  NCpus,     \* cpu slots per card: 3 in the code (line 452)
  Opts,      \* option tags of the global and cpu sections
  Devs,      \* block-device tags
  DevOpts,   \* option tags of a block device
  Values,    \* option texts
  NoneText,  \* the text "None"
  None,      \* Python's None
  Absent     \* no such element in the document

ASSUME ExtractAssumption ==
  /\ NCards \in Nat \ {0} /\ NCpus \in Nat \ {0}
  /\ NoneText \in Values /\ None \notin Values /\ Absent \notin Values
  /\ None # Absent /\ "block-devs" \notin Opts

Cards == 0 .. NCards - 1
Cpus == 0 .. NCpus - 1
Xmls == {"o", "u", "n"}

\* XML_IDX (lines 479-483), one-based: the slot of each document.
XmlIdx == [o |-> 1, u |-> 2, n |-> 3]
XmlAt == <<"o", "u", "n">>
\* The iteration order of the dicts keyed by "o", "u", "n" (lines 413-417).
Order == <<"u", "o", "n">>
Rank == [u |-> 1, o |-> 2, n |-> 3]

Text == Values \cup {Absent}
DevElem == [DevOpts -> Text]
CpuElem == [opt : [Opts -> Text],
            bdevs : {Absent} \cup [Devs -> {Absent} \cup DevElem]]
Doc == [glob : [Opts -> Text],
        cards : [Cards -> {Absent} \cup [Cpus -> {Absent} \cup CpuElem]]]

\* The tag and text of the block-devs child of a cpu (whitespace).
BlockDevsTag == "block-devs"
BlockDevsText == "whitespace"
Tags == Opts \cup {BlockDevsTag}

\* A triple of texts: the slot of a document that lacks the key is None.
Triple(val(_)) == [i \in 1 .. 3 |-> IF val(XmlAt[i]) = Absent THEN None
                                    ELSE val(XmlAt[i])]

(***************************************************************************)
(* get_global_attribs (lines 428-443) and combine_properties for "global" *)
(* (lines 487-496): "None" is read as None here and nowhere else.          *)
(***************************************************************************)
GlobalAttribs(D) ==
  [x \in Xmls |-> [t \in Opts |->
     IF D[x].glob[t] = NoneText THEN None ELSE D[x].glob[t]]]
GlobalOptions(D) ==
  LET g == GlobalAttribs(D) IN
  [t \in {t \in Opts : \E x \in Xmls : g[x][t] # Absent} |->
     Triple(LAMBDA x : g[x][t])]

(***************************************************************************)
(* get_card_cpu_specific_attribs (lines 445-462).  prop holds every child *)
(* of the cpu, block-devs included (line 457 is "pass", not "continue"),  *)
(* and all_cpu[id] is only assigned inside the loop over the children, so *)
(* a cpu without children stays None.  all_card is created once for all   *)
(* three documents: a card a document lacks keeps what an earlier         *)
(* document put there.                                                     *)
(***************************************************************************)
CpuProp(cpu) ==
  [t \in Tags |-> IF t = BlockDevsTag
                  THEN IF cpu.bdevs = Absent THEN Absent ELSE BlockDevsText
                  ELSE cpu.opt[t]]
CpuSlot(cpu) ==
  IF cpu = Absent \/ \A t \in Tags : CpuProp(cpu)[t] = Absent THEN None
  ELSE CpuProp(cpu)
AllCpu(card) == [p \in Cpus |-> CpuSlot(card[p])]

\* One pass of the loop over the documents (lines 451-460): every card the
\* k-th document has replaces its slot of all_card; the others keep theirs.
CardStep(D, allCard, k) ==
  [c \in Cards |-> IF D[Order[k]].cards[c] = Absent THEN allCard[c]
                   ELSE AllCpu(D[Order[k]].cards[c])]

\* Mutant: attr[config] = all_card without the deep copy (line 461), so
\* every document's entry is the list as the last document left it.
CardCpuAttribsAliased(D) ==
  LET all1 == CardStep(D, [c \in Cards |-> None], 1)
      all2 == CardStep(D, all1, 2)
      all3 == CardStep(D, all2, 3)
  IN [x \in Xmls |-> all3]

\* The loop runs once per document of the dict, three times: attr[config]
\* is a deep copy of all_card after that document's pass.
CardCpuAttribs(D) ==
  LET all1 == CardStep(D, [c \in Cards |-> None], 1)
      all2 == CardStep(D, all1, 2)
      all3 == CardStep(D, all2, 3)
  IN [x \in Xmls |-> <<all1, all2, all3>>[Rank[x]]]

\* combine_properties for "cardCpu" (lines 498-522): len() and iteration
\* of a None slot raise TypeError (lines 502-503).
CardCpuTypeError(a) ==
  \E x \in Xmls, c \in Cards :
    a[x][c] = None \/ \E p \in Cpus : a[x][c][p] = None
CardCpuOptions(a) ==
  [c \in Cards |-> [p \in Cpus |->
     [t \in {t \in Tags : \E x \in Xmls : a[x][c][p][t] # Absent} |->
        Triple(LAMBDA x : a[x][c][p][t])]]]

(***************************************************************************)
(* get_block_devs_attribs (lines 464-477).  The cpus are visited document *)
(* by document in the order u, o, n, card by card, cpu by cpu.  bDevs is   *)
(* only assigned inside the loop over the block-devs children, so a cpu   *)
(* without one gets the list of the last visited cpu that had one, or the *)
(* name is unbound (NameError) if none had.  Slots of a card or cpu the   *)
(* document lacks stay None.                                               *)
(***************************************************************************)
VRank(k, c, p) == ((k - 1) * NCards + c) * NCpus + p
Visited(D, k, c, p) ==
  D[Order[k]].cards[c] # Absent /\ D[Order[k]].cards[c][p] # Absent
HasBlockDevs(D, k, c, p) ==
  Visited(D, k, c, p) /\ D[Order[k]].cards[c][p].bdevs # Absent
\* The visits up to <<k, c, p>> that assign bDevs.
Setters(D, k, c, p) ==
  {v \in (1 .. 3) \X Cards \X Cpus :
     VRank(v[1], v[2], v[3]) <= VRank(k, c, p)
       /\ HasBlockDevs(D, v[1], v[2], v[3])}
BDevs(D, k, c, p) ==
  LET S == Setters(D, k, c, p)
      v == CHOOSE v \in S : \A w \in S :
             VRank(w[1], w[2], w[3]) <= VRank(v[1], v[2], v[3])
  IN D[Order[v[1]]].cards[v[2]][v[3]].bdevs
BlockNameError(D) ==
  \E k \in 1 .. 3, c \in Cards, p \in Cpus :
    Visited(D, k, c, p) /\ Setters(D, k, c, p) = {}
BlockDevsAttribs(D) ==
  [x \in Xmls |-> [c \in Cards |-> [p \in Cpus |->
     IF Visited(D, Rank[x], c, p) THEN BDevs(D, Rank[x], c, p) ELSE None]]]

(***************************************************************************)
(* combine_properties for "block_dev" (lines 498-522).  Iterating a None  *)
(* slot raises TypeError (line 503).  The first pass resets               *)
(* result[card][cpu][dev] to {} for every document that has the device    *)
(* (line 506), so the keys left are the options of the last document, in *)
(* the order u, o, n, that has it; the second pass then raises KeyError   *)
(* on an option of an earlier document that the last one lacks (519).    *)
(***************************************************************************)
DevIn(b, x, c, p, d) == IF b[x][c][p] = None THEN Absent ELSE b[x][c][p][d]
Holders(b, c, p, d) == {x \in Xmls : DevIn(b, x, c, p, d) # Absent}
LastHolder(b, c, p, d) ==
  CHOOSE x \in Holders(b, c, p, d) :
    \A y \in Holders(b, c, p, d) : Rank[y] <= Rank[x]
DevKeys(b, c, p, d) ==
  {q \in DevOpts : b[LastHolder(b, c, p, d)][c][p][d][q] # Absent}

\* Mutant: slots that are None skipped instead of iterated.
BlockTypeErrorSkipNone(b) == FALSE

BlockTypeError(b) == \E x \in Xmls, c \in Cards, p \in Cpus : b[x][c][p] = None
BlockKeyError(b) ==
  \E x \in Xmls, c \in Cards, p \in Cpus, d \in Devs, q \in DevOpts :
    /\ DevIn(b, x, c, p, d) # Absent /\ b[x][c][p][d][q] # Absent
    /\ q \notin DevKeys(b, c, p, d)
BlockDevOptions(b) ==
  [c \in Cards |-> [p \in Cpus |->
     [d \in {d \in Devs : Holders(b, c, p, d) # {}} |->
        [q \in DevKeys(b, c, p, d) |->
           Triple(LAMBDA x : IF DevIn(b, x, c, p, d) = Absent THEN Absent
                             ELSE b[x][c][p][d][q])]]]]

(***************************************************************************)
(* How the extraction of the main block (lines 591-599) ends: the first   *)
(* exception raised, in the order the calls are made, or "ok".             *)
(***************************************************************************)
ExtractStatus(D) ==
  LET a == CardCpuAttribs(D)
      b == BlockDevsAttribs(D)
  IN CASE CardCpuTypeError(a) -> "TypeError"
       [] BlockNameError(D)   -> "NameError"
       [] BlockTypeError(b)   -> "TypeError"
       [] BlockKeyError(b)    -> "KeyError"
       [] OTHER               -> "ok"

VARIABLES
  docs,      \* the old, user and new documents
  status,    \* "init" before extraction, then how it ended
  globOpts,  \* globalOptions (line 591)
  cpuOpts,   \* cardCpuOpt (line 596)
  devOpts    \* block_dev_opt (line 599)

vars == <<docs, status, globOpts, cpuOpts, devOpts>>

Init ==
  /\ docs \in [Xmls -> Doc]
  /\ status = "init"
  /\ globOpts = <<>> /\ cpuOpts = <<>> /\ devOpts = <<>>

\* Lines 591-599: the three extractions and combinations, in this order; an
\* exception leaves nothing for the updaters.
Extract ==
  /\ status = "init"
  /\ status' = ExtractStatus(docs)
  /\ globOpts' = GlobalOptions(docs)
  /\ cpuOpts' = IF status' = "ok" THEN CardCpuOptions(CardCpuAttribs(docs))
                ELSE <<>>
  /\ devOpts' = IF status' = "ok" THEN BlockDevOptions(BlockDevsAttribs(docs))
                ELSE <<>>
  /\ UNCHANGED docs

\* The updaters run (ConfigUpdate) or the traceback ends the process.
Done == status # "init" /\ UNCHANGED vars

Next == Extract \/ Done

Spec == Init /\ [][Next]_vars

(***************************************************************************)
(* Properties                                                              *)
(***************************************************************************)
\* Where a document has a card's cpu, the triples the extraction hands to
\* the updaters carry, in that document's slot, exactly the text it gives
\* each option of the cpu and of each of its block devices, and None where
\* it lacks the option (the document contract of the update: each source
\* yields a mapping per scope, absent names get None).  Spans the deep
\* copies of all_card, the two passes of combine_properties and the
\* per-document reset of a block device.
PresentScopesFaithful ==
  status = "ok" =>
    \A x \in Xmls, c \in Cards, p \in Cpus :
      LET cpu == docs[x].cards[c][p]
          i == XmlIdx[x]
      IN /\ \A t \in Opts :
              /\ cpu.opt[t] # Absent => t \in DOMAIN cpuOpts[c][p]
              /\ t \in DOMAIN cpuOpts[c][p] =>
                   cpuOpts[c][p][t][i] = IF cpu.opt[t] = Absent THEN None
                                         ELSE cpu.opt[t]
         /\ cpu.bdevs # Absent =>
              \A d \in Devs :
                /\ cpu.bdevs[d] # Absent =>
                     /\ d \in DOMAIN devOpts[c][p]
                     /\ \A q \in DevOpts : cpu.bdevs[d][q] # Absent =>
                          q \in DOMAIN devOpts[c][p][d]
                /\ d \in DOMAIN devOpts[c][p] =>
                     \A q \in DOMAIN devOpts[c][p][d] :
                       devOpts[c][p][d][q][i] =
                         IF cpu.bdevs[d] = Absent \/ cpu.bdevs[d][q] = Absent
                         THEN None ELSE cpu.bdevs[d][q]

\* The stale all_card of get_card_cpu_specific_attribs never reaches an
\* updater: extraction only succeeds when every document has every card
\* and cpu, since a lacking one leaves a None slot in the fresh
\* block_devs lists that combine_properties iterates.
ExtractRejectsMissingCards ==
  status = "ok" =>
    \A x \in Xmls, c \in Cards :
      docs[x].cards[c] # Absent /\ \A p \in Cpus : docs[x].cards[c][p] # Absent

====
