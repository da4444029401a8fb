------------------------- MODULE ConfigExtractProofs -------------------------
(***************************************************************************)
(* Proofs about the extraction ConfigExtract, for every number of card    *)
(* and cpu slots, every option, device and device-option set and every    *)
(* triple of documents: a successful extraction never leaves a card or    *)
(* cpu missing, and hands the updaters, in each document's slot, exactly   *)
(* the texts that document gives each present cpu and block device.       *)
(*                                                                         *)
(* The argument: "ok" means no exception was raised, so no block-devs      *)
(* slot is None, so every document has every card and cpu; then every     *)
(* pass of the all_card loop overwrites every slot (the stale copy never  *)
(* shows), and the bDevs a cpu with a block-devs child gets is its own    *)
(* (it is the last visit that assigns bDevs up to itself).                *)
(***************************************************************************)
EXTENDS ConfigExtract, TLAPS

\* What the variables hold: the documents never change, and a successful
\* extraction stored what the three extractions of the documents return.
EInv ==
  /\ docs \in [Xmls -> Doc]
  /\ status = "ok" =>
       /\ ExtractStatus(docs) = "ok"
       /\ cpuOpts = CardCpuOptions(CardCpuAttribs(docs))
       /\ devOpts = BlockDevOptions(BlockDevsAttribs(docs))

\* EInv holds initially and is kept by every step.
LEMMA EInvInductive ==
  /\ Init => EInv
  /\ EInv /\ [Next]_vars => EInv'
<1>1. Init => EInv
  BY DEF Init, EInv
<1>2. EInv /\ Extract => EInv'
  BY DEF EInv, Extract
<1>3. EInv /\ (Done \/ UNCHANGED vars) => EInv'
  BY DEF EInv, Done, vars
<1>4. QED
  BY <1>1, <1>2, <1>3 DEF Next

\* EInv holds in every reachable state.
THEOREM EInvCorrect == Spec => []EInv
BY EInvInductive, PTL DEF Spec

(***************************************************************************)
(* The visit order.                                                        *)
(***************************************************************************)
\* Rank is the inverse of Order.
LEMMA OrderRank ==
  ASSUME NEW x \in Xmls
  PROVE  Rank[x] \in 1 .. 3 /\ Order[Rank[x]] = x
         /\ XmlIdx[x] \in 1 .. 3 /\ XmlAt[XmlIdx[x]] = x
BY DEF Xmls, Rank, Order, XmlIdx, XmlAt

\* "ok" is the status when none of the four exceptions is raised.
LEMMA OkNoErrors ==
  ASSUME NEW D, ExtractStatus(D) = "ok"
  PROVE  /\ ~CardCpuTypeError(CardCpuAttribs(D))
         /\ ~BlockNameError(D)
         /\ ~BlockTypeError(BlockDevsAttribs(D))
         /\ ~BlockKeyError(BlockDevsAttribs(D))
BY DEF ExtractStatus

(***************************************************************************)
(* Missing cards and cpus.                                                 *)
(***************************************************************************)
\* A slot of the block-devs lists is None exactly where the document lacks
\* the card or the cpu; without a TypeError none is None, so every
\* document has every card and every cpu.
LEMMA OkAllPresent ==
  ASSUME NEW D, ExtractStatus(D) = "ok",
         NEW x \in Xmls, NEW c \in Cards, NEW p \in Cpus
  PROVE  D[x].cards[c] # Absent /\ D[x].cards[c][p] # Absent
<1>1. BlockDevsAttribs(D)[x][c][p] # None
  BY OkNoErrors DEF BlockTypeError
<1>2. Visited(D, Rank[x], c, p)
  BY <1>1 DEF BlockDevsAttribs
<1>3. QED
  BY <1>2, OrderRank DEF Visited

\* A run that extracts successfully has read every card slot and every
\* cpu slot in each of the three documents, so the all_card list that a
\* card-less document inherits from an earlier one (the deep copy of
\* get_card_cpu_specific_attribs) never reaches an updater.
THEOREM RejectsMissingCards == Spec => []ExtractRejectsMissingCards
<1>1. EInv => ExtractRejectsMissingCards
  <2> SUFFICES ASSUME EInv, status = "ok", NEW x \in Xmls, NEW c \in Cards
               PROVE  /\ docs[x].cards[c] # Absent
                      /\ \A p \in Cpus : docs[x].cards[c][p] # Absent
    BY DEF ExtractRejectsMissingCards
  <2>1. ExtractStatus(docs) = "ok"
    BY DEF EInv
  <2>2. 0 \in Cpus
    BY ExtractAssumption DEF Cpus
  <2>3. QED
    BY <2>1, <2>2, OkAllPresent
<1>2. QED
  BY <1>1, EInvCorrect, PTL

(***************************************************************************)
(* all_card.                                                               *)
(***************************************************************************)
\* When every document has card c, each pass of the loop overwrites the
\* slot, so the copy stored for document x is x's own list of cpus.
LEMMA AttribsOwnCard ==
  ASSUME NEW D, ExtractStatus(D) = "ok", NEW x \in Xmls, NEW c \in Cards
  PROVE  CardCpuAttribs(D)[x][c] = AllCpu(D[x].cards[c])
<1>1. \A y \in Xmls : D[y].cards[c] # Absent
  <2>1. 0 \in Cpus
    BY ExtractAssumption DEF Cpus
  <2>2. QED
    BY <2>1, OkAllPresent
<1> DEFINE all1 == CardStep(D, [d \in Cards |-> None], 1)
<1> DEFINE all2 == CardStep(D, all1, 2)
<1> DEFINE all3 == CardStep(D, all2, 3)
<1>2. CardCpuAttribs(D)[x] = <<all1, all2, all3>>[Rank[x]]
  BY DEF CardCpuAttribs
<1>3. /\ all1[c] = AllCpu(D["u"].cards[c])
      /\ all2[c] = AllCpu(D["o"].cards[c])
      /\ all3[c] = AllCpu(D["n"].cards[c])
  BY <1>1 DEF CardStep, Order, Xmls
<1>4. QED
  BY <1>2, <1>3 DEF Xmls, Rank

(***************************************************************************)
(* bDevs.                                                                  *)
(***************************************************************************)
\* Quotient and remainder by B are unique.
LEMMA DivModUnique ==
  ASSUME NEW B \in Nat \ {0}, NEW q1 \in Nat, NEW q2 \in Nat,
         NEW r1 \in 0 .. B - 1, NEW r2 \in 0 .. B - 1,
         q1 * B + r1 = q2 * B + r2
  PROVE  q1 = q2 /\ r1 = r2
<1>1. ~(q1 < q2)
  <2> SUFFICES ASSUME q1 < q2 PROVE FALSE
    OBVIOUS
  <2>1. (q1 + 1) * B <= q2 * B
    OBVIOUS
  <2>2. QED
    BY <2>1
<1>2. ~(q2 < q1)
  <2> SUFFICES ASSUME q2 < q1 PROVE FALSE
    OBVIOUS
  <2>1. (q2 + 1) * B <= q1 * B
    OBVIOUS
  <2>2. QED
    BY <2>1
<1>3. QED
  BY <1>1, <1>2

\* The visits of get_block_devs_attribs are numbered without repetition.
LEMMA VRankInjective ==
  ASSUME NEW k1 \in 1 .. 3, NEW c1 \in Cards, NEW p1 \in Cpus,
         NEW k2 \in 1 .. 3, NEW c2 \in Cards, NEW p2 \in Cpus,
         VRank(k1, c1, p1) = VRank(k2, c2, p2)
  PROVE  k1 = k2 /\ c1 = c2 /\ p1 = p2
<1>1. NCards \in Nat \ {0} /\ NCpus \in Nat \ {0}
      /\ c1 \in 0 .. NCards - 1 /\ c2 \in 0 .. NCards - 1
      /\ p1 \in 0 .. NCpus - 1 /\ p2 \in 0 .. NCpus - 1
  BY ExtractAssumption DEF Cards, Cpus
<1>2. /\ (k1 - 1) * NCards + c1 \in Nat /\ (k2 - 1) * NCards + c2 \in Nat
      /\ k1 - 1 \in Nat /\ k2 - 1 \in Nat
  BY <1>1
<1>3. (k1 - 1) * NCards + c1 = (k2 - 1) * NCards + c2 /\ p1 = p2
  BY <1>1, <1>2, DivModUnique DEF VRank
<1>4. k1 - 1 = k2 - 1 /\ c1 = c2
  BY <1>1, <1>2, <1>3, DivModUnique
<1>5. QED
  BY <1>3, <1>4

\* A visit numbers to a natural.
LEMMA VRankNat ==
  ASSUME NEW k \in 1 .. 3, NEW c \in Cards, NEW p \in Cpus
  PROVE  VRank(k, c, p) \in Nat
BY ExtractAssumption DEF VRank, Cards, Cpus

\* A cpu with a block-devs child is the last visit up to itself that
\* assigns bDevs, so it gets its own block devices.
LEMMA BDevsOwn ==
  ASSUME NEW D, NEW k \in 1 .. 3, NEW c \in Cards, NEW p \in Cpus,
         HasBlockDevs(D, k, c, p)
  PROVE  BDevs(D, k, c, p) = D[Order[k]].cards[c][p].bdevs
<1> DEFINE S == Setters(D, k, c, p)
<1> DEFINE R(v) == VRank(v[1], v[2], v[3])
<1> DEFINE u == <<k, c, p>>
<1> DEFINE v == CHOOSE v \in S : \A w \in S :
                 VRank(w[1], w[2], w[3]) <= VRank(v[1], v[2], v[3])
<1>1. u \in S
  BY VRankNat DEF Setters
<1>2. \A w \in S : R(w) <= R(u)
  BY DEF Setters
<1>3. v \in S /\ \A w \in S : R(w) <= R(v)
  BY <1>1, <1>2
<1>4. v \in (1 .. 3) \X Cards \X Cpus /\ R(v) <= R(u)
  BY <1>3 DEF Setters
<1>5. R(u) <= R(v)
  BY <1>1, <1>3
<1>6. R(v) = R(u)
  BY <1>4, <1>5, VRankNat
<1>7. v = u
  BY <1>4, <1>6, VRankInjective
<1>8. BDevs(D, k, c, p) = D[Order[v[1]]].cards[v[2]][v[3]].bdevs
  BY DEF BDevs
<1> HIDE DEF v
<1>9. v[1] = k /\ v[2] = c /\ v[3] = p
  BY <1>7
<1>10. QED
  BY <1>8, <1>9

(***************************************************************************)
(* What the updaters receive.                                              *)
(***************************************************************************)
\* After a successful extraction every cpu slot holds a cpu element.
LEMMA OkCpuElem ==
  ASSUME NEW D \in [Xmls -> Doc], ExtractStatus(D) = "ok",
         NEW x \in Xmls, NEW c \in Cards, NEW p \in Cpus
  PROVE  /\ D[x].cards[c] \in [Cpus -> {Absent} \cup CpuElem]
         /\ D[x].cards[c][p] \in CpuElem
BY OkAllPresent DEF Doc

\* The cardCpu attributes of a cpu are the texts of its own element.
LEMMA CpuAttribsOwn ==
  ASSUME NEW D \in [Xmls -> Doc], ExtractStatus(D) = "ok",
         NEW x \in Xmls, NEW c \in Cards, NEW p \in Cpus, NEW t \in Opts
  PROVE  CardCpuAttribs(D)[x][c][p][t] = D[x].cards[c][p].opt[t]
<1> DEFINE cpu == D[x].cards[c][p]
<1> DEFINE a == CardCpuAttribs(D)
<1>1. a[x][c] = AllCpu(D[x].cards[c])
  BY AttribsOwnCard DEF a
<1>2. a[x][c][p] = CpuSlot(cpu)
  BY <1>1 DEF AllCpu, cpu
<1>3. a[x][c][p] # None
  BY OkNoErrors DEF CardCpuTypeError, a
<1>4. a[x][c][p] = CpuProp(cpu)
  BY <1>2, <1>3 DEF CpuSlot
<1>5. CpuProp(cpu)[t] = cpu.opt[t]
  BY ExtractAssumption DEF CpuProp, Tags, BlockDevsTag
<1>6. QED
  BY <1>4, <1>5 DEF a, cpu

\* The cardCpu triples cO carry document x's own text of option t of cpu p
\* of card c in x's slot, and every option x has there.
CpuFaithful(D, cO, x, c, p, t) ==
  LET cpu == D[x].cards[c][p] IN
  /\ cpu.opt[t] # Absent => t \in DOMAIN cO[c][p]
  /\ t \in DOMAIN cO[c][p] =>
       cO[c][p][t][XmlIdx[x]] = IF cpu.opt[t] = Absent THEN None ELSE cpu.opt[t]

\* The cardCpu triples carry each document's own option texts.
LEMMA CpuOptsFaithful ==
  ASSUME NEW D \in [Xmls -> Doc], ExtractStatus(D) = "ok",
         NEW x \in Xmls, NEW c \in Cards, NEW p \in Cpus, NEW t \in Opts
  PROVE  CpuFaithful(D, CardCpuOptions(CardCpuAttribs(D)), x, c, p, t)
<1> DEFINE a == CardCpuAttribs(D)
<1> DEFINE cpu == D[x].cards[c][p]
<1>1. DOMAIN CardCpuOptions(a)[c][p]
        = {s \in Tags : \E y \in Xmls : a[y][c][p][s] # Absent}
  BY DEF CardCpuOptions
<1>2. t \in Tags /\ a[x][c][p][t] = cpu.opt[t]
  BY CpuAttribsOwn DEF Tags
<1>3. cpu.opt[t] # Absent => t \in DOMAIN CardCpuOptions(a)[c][p]
  BY <1>1, <1>2
<1>4. ASSUME t \in DOMAIN CardCpuOptions(a)[c][p]
      PROVE  CardCpuOptions(a)[c][p][t][XmlIdx[x]]
               = IF cpu.opt[t] = Absent THEN None ELSE cpu.opt[t]
  <2>1. CardCpuOptions(a)[c][p][t] = Triple(LAMBDA y : a[y][c][p][t])
    BY <1>4 DEF CardCpuOptions
  <2>2. XmlIdx[x] \in 1 .. 3 /\ XmlAt[XmlIdx[x]] = x
    BY OrderRank
  <2>3. QED
    BY <1>2, <2>1, <2>2 DEF Triple
<1>5. QED
  BY <1>3, <1>4 DEF CpuFaithful, cpu

\* The block-devs slot of a cpu with a block-devs child is its own.
LEMMA DevAttribsOwn ==
  ASSUME NEW D \in [Xmls -> Doc], ExtractStatus(D) = "ok",
         NEW x \in Xmls, NEW c \in Cards, NEW p \in Cpus,
         D[x].cards[c][p].bdevs # Absent
  PROVE  /\ BlockDevsAttribs(D)[x][c][p] = D[x].cards[c][p].bdevs
         /\ BlockDevsAttribs(D)[x][c][p] # None
<1>1. Rank[x] \in 1 .. 3 /\ Order[Rank[x]] = x
  BY OrderRank
<1>2. Visited(D, Rank[x], c, p) /\ HasBlockDevs(D, Rank[x], c, p)
  BY <1>1, OkAllPresent DEF Visited, HasBlockDevs
<1>3. BDevs(D, Rank[x], c, p) = D[x].cards[c][p].bdevs
  BY <1>1, <1>2, BDevsOwn
<1>4. BlockDevsAttribs(D)[x][c][p] = BDevs(D, Rank[x], c, p)
  BY <1>2 DEF BlockDevsAttribs
<1>5. BlockDevsAttribs(D)[x][c][p] # None
  BY OkNoErrors DEF BlockTypeError
<1>6. QED
  BY <1>3, <1>4, <1>5

\* The block_dev triples dO carry document x's own texts of device d of
\* cpu p of card c in x's slot, and every device and option x has there.
DevFaithful(D, dO, x, c, p, d) ==
  LET cpu == D[x].cards[c][p] IN
  /\ cpu.bdevs[d] # Absent =>
       /\ d \in DOMAIN dO[c][p]
       /\ \A q \in DevOpts : cpu.bdevs[d][q] # Absent => q \in DOMAIN dO[c][p][d]
  /\ d \in DOMAIN dO[c][p] =>
       \A q \in DOMAIN dO[c][p][d] :
         dO[c][p][d][q][XmlIdx[x]] =
           IF cpu.bdevs[d] = Absent \/ cpu.bdevs[d][q] = Absent
           THEN None ELSE cpu.bdevs[d][q]

\* The block_dev triples carry each document's own device option texts,
\* and every device and option that document has.
LEMMA DevOptsFaithful ==
  ASSUME NEW D \in [Xmls -> Doc], ExtractStatus(D) = "ok",
         NEW x \in Xmls, NEW c \in Cards, NEW p \in Cpus, NEW d \in Devs,
         D[x].cards[c][p].bdevs # Absent
  PROVE  DevFaithful(D, BlockDevOptions(BlockDevsAttribs(D)), x, c, p, d)
<1> DEFINE b == BlockDevsAttribs(D)
<1> DEFINE cpu == D[x].cards[c][p]
<1>1. b[x][c][p] = cpu.bdevs /\ b[x][c][p] # None
  BY DevAttribsOwn DEF b, cpu
<1>2. DevIn(b, x, c, p, d) = cpu.bdevs[d]
  BY <1>1 DEF DevIn
<1>3. DOMAIN BlockDevOptions(b)[c][p] = {e \in Devs : Holders(b, c, p, e) # {}}
  BY DEF BlockDevOptions
<1>4. ASSUME d \in DOMAIN BlockDevOptions(b)[c][p]
      PROVE  DOMAIN BlockDevOptions(b)[c][p][d] = DevKeys(b, c, p, d)
  BY <1>4 DEF BlockDevOptions
<1>5. ASSUME cpu.bdevs[d] # Absent
      PROVE  /\ d \in DOMAIN BlockDevOptions(b)[c][p]
             /\ \A q \in DevOpts : cpu.bdevs[d][q] # Absent =>
                  q \in DOMAIN BlockDevOptions(b)[c][p][d]
  <2>1. d \in DOMAIN BlockDevOptions(b)[c][p]
    BY <1>2, <1>3, <1>5 DEF Holders
  <2>2. ASSUME NEW q \in DevOpts, cpu.bdevs[d][q] # Absent
        PROVE  q \in DevKeys(b, c, p, d)
    <3>1. ~BlockKeyError(b)
      BY OkNoErrors DEF b
    <3>2. DevIn(b, x, c, p, d) # Absent /\ b[x][c][p][d][q] # Absent
      BY <1>1, <1>2, <1>5, <2>2
    <3>3. QED
      BY <3>1, <3>2 DEF BlockKeyError
  <2>3. QED
    BY <1>4, <2>1, <2>2
<1>6. ASSUME d \in DOMAIN BlockDevOptions(b)[c][p],
             NEW q \in DOMAIN BlockDevOptions(b)[c][p][d]
      PROVE  BlockDevOptions(b)[c][p][d][q][XmlIdx[x]] =
               IF cpu.bdevs[d] = Absent \/ cpu.bdevs[d][q] = Absent
               THEN None ELSE cpu.bdevs[d][q]
  <2>1. q \in DevKeys(b, c, p, d)
    BY <1>4, <1>6
  <2>2. BlockDevOptions(b)[c][p][d][q]
          = Triple(LAMBDA y : IF DevIn(b, y, c, p, d) = Absent THEN Absent
                              ELSE b[y][c][p][d][q])
    BY <1>6, <2>1 DEF BlockDevOptions
  <2>3. XmlIdx[x] \in 1 .. 3 /\ XmlAt[XmlIdx[x]] = x
    BY OrderRank
  <2> DEFINE val == IF DevIn(b, x, c, p, d) = Absent THEN Absent
                    ELSE b[x][c][p][d][q]
  <2>4. BlockDevOptions(b)[c][p][d][q][XmlIdx[x]]
          = IF val = Absent THEN None ELSE val
    BY <2>2, <2>3 DEF Triple, val
  <2>5. val = IF cpu.bdevs[d] = Absent THEN Absent ELSE cpu.bdevs[d][q]
    BY <1>1, <1>2 DEF val
  <2>6. QED
    BY <2>4, <2>5
<1>7. QED
  BY <1>5, <1>6 DEF DevFaithful, b, cpu

\* A successful extraction hands the updaters, for every document that
\* has a card's cpu, that document's own text of every option of the cpu
\* and of every option of each of its block devices in its slot of the
\* triples, and None where it lacks the option: the deep copies of
\* all_card, the bDevs carried from cpu to cpu and the two passes of
\* combine_properties never mix the documents up.
THEOREM ScopesFaithful == Spec => []PresentScopesFaithful
<1>1. EInv => PresentScopesFaithful
  <2> SUFFICES ASSUME EInv, status = "ok" PROVE PresentScopesFaithful
    BY DEF PresentScopesFaithful
  <2>1. /\ docs \in [Xmls -> Doc] /\ ExtractStatus(docs) = "ok"
        /\ cpuOpts = CardCpuOptions(CardCpuAttribs(docs))
        /\ devOpts = BlockDevOptions(BlockDevsAttribs(docs))
    BY DEF EInv
  <2>2. ASSUME NEW x \in Xmls, NEW c \in Cards, NEW p \in Cpus, NEW t \in Opts
        PROVE  CpuFaithful(docs, cpuOpts, x, c, p, t)
    BY <2>1, CpuOptsFaithful
  <2>3. ASSUME NEW x \in Xmls, NEW c \in Cards, NEW p \in Cpus,
               docs[x].cards[c][p].bdevs # Absent, NEW d \in Devs
        PROVE  DevFaithful(docs, devOpts, x, c, p, d)
    BY <2>1, <2>3, DevOptsFaithful
  <2>4. \A x \in Xmls, c \in Cards, p \in Cpus :
          /\ \A t \in Opts : CpuFaithful(docs, cpuOpts, x, c, p, t)
          /\ docs[x].cards[c][p].bdevs # Absent =>
               \A d \in Devs : DevFaithful(docs, devOpts, x, c, p, d)
    BY <2>2, <2>3
  <2>5. QED
    BY <2>4 DEF PresentScopesFaithful, CpuFaithful, DevFaithful
<1>2. QED
  BY <1>1, EInvCorrect, PTL

====
