\* Every option triple at the global scope and one card/cpu scope.
CONSTANTS
  a = a
  b = b
  none = none
  o1 = o1
  o2 = o2
  Vals <- MCVals
  NoVal = none
  NCards = 1
  NCpus = 1
  NBlk = 0
  Options <- MCOptions1
  EntryChoices <- MCEntries
  Modes <- MCAutoModes
SPECIFICATION Spec
INVARIANTS
  NewOptionNotApplied
