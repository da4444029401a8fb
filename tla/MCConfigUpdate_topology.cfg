\* Two cards of two cpus with one block device each (nine updaters), in the
\* automatic modes, options drawn from three triples.
CONSTANTS
  a = a
  b = b
  none = none
  o1 = o1
  o2 = o2
  Vals <- MCVals
  NoVal = none
  NCards = 2
  NCpus = 2
  NBlk = 1
  Options <- MCOptions1
  EntryChoices <- MCTopologyEntries
  Modes <- MCAutoModes
SPECIFICATION Spec
INVARIANTS
  CompleteOnSuccess
