\* Every triple of documents with two card slots of one cpu, one option,
\* one block device with one option:
\* a block-device option that a later document lacks.
CONSTANTS
  a = a  nonetext = nonetext  none = none  absent = absent
  o1 = o1  d1 = d1  q1 = q1
  NCards = 2
  NCpus = 1
  Opts = {o1}
  Devs = {d1}
  DevOpts = {q1}
  Values = {a, nonetext}
  NoneText = nonetext
  None = none
  Absent = absent
  Doc <- MCDocs
SPECIFICATION Spec
INVARIANT CompleteDocsExtracted
