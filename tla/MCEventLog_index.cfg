\* Logs read with -i.
CONSTANTS
  nohdr = nohdr
  NoHdr = nohdr
  LogLen = 24
  Types <- MCTypes
  Lens <- MCLens
  Formats <- MCFormats
SPECIFICATION Spec
INVARIANT InputFileNeverIndexError
