-------------------------- MODULE MCConfigExtract --------------------------
(***************************************************************************)
(* The extraction of ConfigExtract checked on every triple of documents   *)
(* over a small schema: each initial state is one input, read once.       *)
(***************************************************************************)
EXTENDS ConfigExtract

CONSTANTS a, nonetext, none, absent, o1, d1, q1

\* Cpu elements: the option present or not, and no block-devs child or
\* one with device d1 with or without its option q1.
MCCpus ==
  [opt : [Opts -> {a, absent}],
   bdevs : {absent} \cup [Devs -> [DevOpts -> {a, absent}]]]
\* Documents whose global section holds a and whose card and cpu slots
\* are present or not.
MCDocs ==
  [glob : {[t \in Opts |-> a]},
   cards : [Cards -> {absent} \cup [Cpus -> {absent} \cup MCCpus]]]

\* A document is complete when every card slot has every cpu, each with
\* a block-devs element.
Complete(x) ==
  \A c \in Cards : docs[x].cards[c] # Absent /\
    \A p \in Cpus : docs[x].cards[c][p] # Absent
                   /\ docs[x].cards[c][p].bdevs # Absent

\* The document contract of the update (any option present in only some
\* sources gets None in the other slots) makes extraction total on
\* complete documents: combine_properties never raises on them, whatever
\* options a block device has in each document.
CompleteDocsExtracted ==
  (\A x \in Xmls : Complete(x)) => status \in {"init", "ok"}

\* A document whose cpu has no block-devs element contributes no block
\* device values at that cpu: its slot of every block-device triple there
\* is None (get_block_devs_attribs, lines 470-475).
AbsentBlockDevsNone ==
  status = "ok" =>
    \A x \in Xmls, c \in Cards, p \in Cpus :
      docs[x].cards[c][p].bdevs = Absent =>
        \A d \in DOMAIN devOpts[c][p] :
          \A q \in DOMAIN devOpts[c][p][d] : devOpts[c][p][d][q][XmlIdx[x]] = None

=============================================================================
