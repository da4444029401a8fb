\* Logs of up to 24 bytes from the -i file or /dev/mem, with every BIOS
\* kind, records of every type, length and format above, under weak
\* fairness.
CONSTANTS
  nohdr = nohdr
  NoHdr = nohdr
  LogLen = 24
  Types <- MCTypes
  Lens <- MCLens
  Formats <- MCFormats
SPECIFICATION Spec
INVARIANT TypeOK
PROPERTIES WalkAligned Termination
