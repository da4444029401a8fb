------------------------------ MODULE MergeSpec ------------------------------
(***************************************************************************)
(* What the configuration update promises, without the updater list, the  *)
(* decision tables or vcactl: every option of every scope is written at    *)
(* most once; where no operator is asked it gets the merge (the user's     *)
(* value where the user changed it, the new default elsewhere); where the  *)
(* operator is asked it gets some value; in debug mode nothing is written; *)
(* the run may abort at any point, keeping what was written; it ends       *)
(* successfully only once every option has been handled.                   *)
(***************************************************************************)
EXTENDS ChangeState

CONSTANTS
  Scopes,    \* the scopes of the updaters
  Options    \* option names

VARIABLES
  xml,       \* xml[s][o]: the triple of the option
  mode,      \* the update strategy
  debug,     \* vcactl is printed, not run
  cfg,       \* cfg[s][o]: the device configuration
  done,      \* the <<scope, option>> pairs already handled
  outcome    \* "running", "done" or "aborted"

vars == <<xml, mode, debug, cfg, done, outcome>>

\* The merge the update promises.
MergedValue(e) == IF e.old # e.user /\ e.user # NoVal THEN e.user ELSE e.new

\* The operator decides in manual mode, and in semi-auto mode when both
\* the user and the new default changed the option.
Prompted(m, e) ==
  \/ m = "manual"
  \/ m = "semi-auto" /\ EncodeChanges(e) \in {<<"d", "m", "nd">>, <<"d", "m", "del">>}

Init ==
  /\ xml \in [Scopes -> [Options -> Entry]]
  /\ mode \in Modes
  /\ debug \in BOOLEAN
  /\ cfg = [s \in Scopes |-> [o \in Options |-> xml[s][o].new]]
  /\ done = {}
  /\ outcome = "running"

\* Option o of scope s is handled: written with its merge, or with a value
\* the operator chose, or only printed in debug mode.
Apply(s, o) ==
  /\ outcome = "running"
  /\ <<s, o>> \notin done
  /\ done' = done \cup {<<s, o>>}
  /\ \/ debug /\ UNCHANGED cfg
     \/ /\ ~debug
        /\ \E v \in IF Prompted(mode, xml[s][o]) THEN Value
                    ELSE {MergedValue(xml[s][o])} :
             cfg' = [cfg EXCEPT ![s][o] = v]
  /\ UNCHANGED <<xml, mode, debug, outcome>>

\* The run stops early; what was written stays.
Abort ==
  /\ outcome = "running"
  /\ outcome' = "aborted"
  /\ UNCHANGED <<xml, mode, debug, cfg, done>>

\* The run ends successfully after every option.
Finish ==
  /\ outcome = "running"
  /\ done = Scopes \X Options
  /\ outcome' = "done"
  /\ UNCHANGED <<xml, mode, debug, cfg, done>>

Next ==
  \/ \E s \in Scopes, o \in Options : Apply(s, o)
  \/ Abort
  \/ Finish

Spec == Init /\ [][Next]_vars

====
