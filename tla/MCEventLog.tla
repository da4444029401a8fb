----------------------------- MODULE MCEventLog -----------------------------
(***************************************************************************)
(* Small instances of EventLog for TLC.                                    *)
(***************************************************************************)
EXTENDS EventLog

CONSTANTS nohdr

\* An ECC error, a PCI error, System Boot (no data), an unknown type 0x0F,
\* and the end marker.
MCTypes == {1, 9, 23, 15, 255}

\* Lengths: 2 (shorter than any record: the walk lands inside the record),
\* 9 (a record without data) and 12 (with 3 data bytes).
MCLens == {2, 9, 12}

\* The same with a zero length byte.
MCLensZero == {0, 9}

\* Formats: none known (0, skipped by the `continue` branch), BIOS handle
\* (1), OEM without data (0x80).
MCFormats == {0, 1, 128}

=============================================================================
