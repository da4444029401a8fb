--------------------------- MODULE MCConfigUpdate ---------------------------
(***************************************************************************)
(* Small instances of ConfigUpdate for TLC.                                *)
(***************************************************************************)
EXTENDS ConfigUpdate, TLC

CONSTANTS a, b, none, o1, o2

\* Two texts are enough to tell every classifier branch apart: a user value
\* that differs from the old default and a new default that differs from
\* both.
MCVals == {a, b}
MCOptions1 == {o1}
MCOptions2 == {o1, o2}
MCEntries == Entry
MCSymmetry == Permutations(MCVals)

\* The modes that never prompt for every option.
MCAutoModes == {"semi-auto", "full-auto"}

\* For the walk over several cards and cpus: an untouched option, a user
\* edit and a user deletion of an unchanged default.
MCTopologyEntries ==
  { [old |-> a, user |-> a, new |-> a],
    [old |-> a, user |-> b, new |-> a],
    [old |-> a, user |-> none, new |-> a] }

=============================================================================
