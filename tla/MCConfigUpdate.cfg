\* Every option triple over two texts and None, at the global scope, one
\* card/cpu scope and one block device, in every mode, with and without
\* debug.
CONSTANTS
  a = a
  b = b
  none = none
  o1 = o1
  o2 = o2
  Vals <- MCVals
  NoVal = none
  NCards = 1
  NCpus = 1
  NBlk = 1
  Options <- MCOptions1
  EntryChoices <- MCEntries
SYMMETRY MCSymmetry
SPECIFICATION Spec
INVARIANTS
  TypeOK
  UnattendedMergeCorrect
  CompleteOnSuccess
  UserDeletionAborts
  AutomaticModesAlwaysDecide
  WarningNoticeExact
PROPERTY
  MergeRefinement
