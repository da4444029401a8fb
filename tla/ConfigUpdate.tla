---------------------------- MODULE ConfigUpdate ----------------------------
(***************************************************************************)
(* The reconciliation driver of src/apps/scripts/make_config.py: the main *)
(* block builds one VcactlUpdater per scope (global, then for every card  *)
(* and cpu the card/cpu scope followed by its block devices) and runs     *)
(* them in that order; VcactlUpdater.execute classifies every option,     *)
(* asks the strategy for an action, resolves the value and calls          *)
(* "vcactl config".  The first fatal outcome ends the process.            *)
(*                                                                         *)
(* The device configuration that vcactl edits is cfg.  It starts as the   *)
(* new default configuration: the script's own abort messages say "new   *)
(* default configuration will be used" for every option it did not reach *)
(* (lines 619, 626, 633).                                                  *)
(***************************************************************************)
EXTENDS ChangeState

CONSTANTS
  NCards,    \* card slots (8 in the code: all_card = [None]*8)
  NCpus,     \* cpu slots per card (3 in the code: all_cpu = [None]*3)
  NBlk,      \* block devices per cpu, numbered by the dict's iteration order
  Options,   \* option names
  EntryChoices \* the option triples the three documents may combine to

ASSUME TopologyAssumption ==
  /\ NCards \in Nat \ {0} /\ NCpus \in Nat \ {0} /\ NBlk \in Nat
  /\ Options # {} /\ EntryChoices \subseteq Entry /\ EntryChoices # {}

(***************************************************************************)
(* A scope is the (cardId, nodeId, block device) a VcactlUpdater is built *)
(* with.  card = cpu = NoVal is the global updater; blk = 0 is the         *)
(* card/cpu updater, blk = k > 0 the k-th block device of that cpu.        *)
(***************************************************************************)
Cards == 0 .. NCards - 1
Cpus == 0 .. NCpus - 1
GlobalScope == [card |-> NoVal, cpu |-> NoVal, blk |-> 0]
CpuScope(c, n) == [card |-> c, cpu |-> n, blk |-> 0]
Scopes == {GlobalScope} \cup [card : Cards, cpu : Cpus, blk : 0 .. NBlk]

\* The updater list is exhausted.
EndOfList == [card |-> NoVal, cpu |-> NoVal, blk |-> 1]

\* The updater after s in the list built at lines 588-605.
\* Mutant: off-by-one in the block-device loop, the last device skipped.
NextScopeSkipLastBlk(s) ==
  IF s.card = NoVal THEN CpuScope(0, 0)
  ELSE IF s.blk < NBlk - 1 THEN [s EXCEPT !.blk = @ + 1]
  ELSE IF s.cpu < NCpus - 1 THEN CpuScope(s.card, s.cpu + 1)
  ELSE IF s.card < NCards - 1 THEN CpuScope(s.card + 1, 0)
  ELSE EndOfList

\* Mutant: off-by-one in the cpu loop (xrange(2) for xrange(3)).
NextScopeSkipLastCpu(s) ==
  IF s.card = NoVal THEN CpuScope(0, 0)
  ELSE IF s.blk < NBlk THEN [s EXCEPT !.blk = @ + 1]
  ELSE IF s.cpu < NCpus - 2 THEN CpuScope(s.card, s.cpu + 1)
  ELSE IF s.card < NCards - 1 THEN CpuScope(s.card + 1, 0)
  ELSE EndOfList

NextScope(s) ==
  IF s.card = NoVal THEN CpuScope(0, 0)
  ELSE IF s.blk < NBlk THEN [s EXCEPT !.blk = @ + 1]
  ELSE IF s.cpu < NCpus - 1 THEN CpuScope(s.card, s.cpu + 1)
  ELSE IF s.card < NCards - 1 THEN CpuScope(s.card + 1, 0)
  ELSE EndOfList

Pending == "pending"

\* How the process ends: "done" exits 0, "error" and "unknown" exit 3
\* (lines 617-630), "vcactl_error" exits with vcactl's status (631-636),
\* "crash" is an uncaught exception and "sigint" the SIGINT handler; both
\* exit 1.
Status == {"running", "done", "error", "unknown", "vcactl_error", "crash",
           "sigint"}

VARIABLES
  xml,     \* xml[s][o]: the combined option triple (options_in_xmls)
  mode,    \* the update strategy chosen on the command line
  debug,   \* the "debug" argument: vcactl is printed, not run
  cur,     \* the scope of the updater being executed
  act,     \* act[s][o]: the action taken on the option, Pending before
  cfg,     \* cfg[s][o]: the device configuration as vcactl has set it
  wrn,     \* WRN_UP: a warning was printed
  status

vars == <<xml, mode, debug, cur, act, cfg, wrn, status>>

\* Type invariant: every variable holds a value the script can hold.
TypeOK ==
  /\ xml \in [Scopes -> [Options -> Entry]]
  /\ mode \in Modes
  /\ debug \in BOOLEAN
  /\ cur \in Scopes \cup {EndOfList}
  /\ act \in [Scopes -> [Options -> Outcomes \cup {Pending}]]
  /\ cfg \in [Scopes -> [Options -> Value]]
  /\ wrn \in BOOLEAN
  /\ status \in Status

Init ==
  /\ xml \in [Scopes -> [Options -> EntryChoices]]
  /\ mode \in Modes
  /\ debug \in BOOLEAN
  /\ cur = GlobalScope
  /\ act = [s \in Scopes |-> [o \in Options |-> Pending]]
  /\ cfg = [s \in Scopes |-> [o \in Options |-> xml[s][o].new]]
  /\ wrn = FALSE
  /\ status = "running"

\* __print_message raises UnknownActionTaken or BadXMLConfiguration, or the
\* decision itself raised: the main loop's handler (lines 613-630) exits.
Abort(o, a) ==
  /\ act' = [act EXCEPT ![cur][o] = a]
  /\ status' = a
  /\ UNCHANGED <<cfg, wrn>>

\* The values __choose_value may return for action a (lines 345-355); for
\* "new_usr", __get_new_user_value returns str() of what the operator typed.
Candidates(a, e) == IF a = "new_usr" THEN Vals ELSE {ChooseValue(a, e)}

\* __choose_value returned (or raised) and __run_vcactl ran with value v.
RunVcactl(o, a, v) ==
  \* __get_new_user_value: input() raises NameError on an unquoted word,
  \* which is not caught (lines 338-341)
  \/ /\ a = "new_usr"
     /\ status' = "crash"
     /\ UNCHANGED <<act, cfg>>
  \* debug mode prints the command only (lines 326-328)
  \/ /\ debug
     /\ act' = [act EXCEPT ![cur][o] = a]
     /\ UNCHANGED <<cfg, status>>
  \* proc.check_call returns: vcactl has set the value
  \/ /\ ~debug
     /\ act' = [act EXCEPT ![cur][o] = a]
     /\ cfg' = [cfg EXCEPT ![cur][o] = v]
     /\ UNCHANGED status
  \* proc.check_call raises CalledProcessError (caught at line 615)
  \/ /\ ~debug
     /\ status' = "vcactl_error"
     /\ UNCHANGED <<act, cfg>>

(***************************************************************************)
(* One iteration of VcactlUpdater.execute (lines 400-406) on option o of  *)
(* the current updater: __encode_changes, strategy.run (decide, then      *)
(* __print_message: raise on "unknown"/"error", set WRN_UP on             *)
(* "wrn_apply_user"), __choose_value, then __run_vcactl.  The options of  *)
(* a scope are visited in dict order, which is any order here.            *)
(***************************************************************************)
ExecuteOption(o) ==
  LET e == xml[cur][o] IN
  /\ status = "running"
  /\ cur # EndOfList
  /\ act[cur][o] = Pending
  /\ \E a \in Decide(mode, EncodeChanges(e)) :
       \/ a \in Fatal /\ Abort(o, a)
       \/ /\ a \notin Fatal
          /\ wrn' = (wrn \/ a = "wrn_apply_user")
          /\ \E v \in Candidates(a, e) : RunVcactl(o, a, v)
  /\ UNCHANGED <<xml, mode, debug, cur>>

\* execute() has visited every option: the main loop takes the next updater.
NextUpdater ==
  /\ status = "running"
  /\ cur # EndOfList
  /\ \A o \in Options : act[cur][o] # Pending
  /\ cur' = NextScope(cur)
  /\ UNCHANGED <<xml, mode, debug, act, cfg, wrn, status>>

\* All updaters ran: the warning notice if WRN_UP, then sys.exit(0)
\* (lines 638-646).
Finish ==
  /\ status = "running"
  /\ cur = EndOfList
  /\ status' = "done"
  /\ UNCHANGED <<xml, mode, debug, cur, act, cfg, wrn>>

\* sigint_handler (lines 567-569) may run between any two steps.
Interrupt ==
  /\ status = "running"
  /\ status' = "sigint"
  /\ UNCHANGED <<xml, mode, debug, cur, act, cfg, wrn>>

\* The process has exited.
Exited ==
  /\ status # "running"
  /\ UNCHANGED vars

Next ==
  \/ \E o \in Options : ExecuteOption(o)
  \/ NextUpdater
  \/ Finish
  \/ Interrupt
  \/ Exited

Spec == Init /\ [][Next]_vars

(***************************************************************************)
(* Properties                                                              *)
(***************************************************************************)

\* The merge the script promises (print_help, lines 526-529): the USER
\* value wherever the user changed the option, the NEW default elsewhere.
MergeValue(e) == IF e.old # e.user /\ e.user # NoVal THEN e.user ELSE e.new

\* The vectors on which semi-auto mode asks the operator.
Contested == {<<"d", "m", "nd">>, <<"d", "m", "del">>}

Unattended(m, e) ==
  \/ m = "full-auto"
  \/ m = "semi-auto" /\ EncodeChanges(e) \notin Contested

Applied(s, o) == act[s][o] \notin Fatal \cup {Pending}

\* In every state of a run that calls vcactl, an option the run has not
\* applied still holds its new default, and an option applied without the
\* operator (full-auto, or semi-auto off a contested vector) holds the
\* merged value: user edits kept, new defaults adopted, also after an abort
\* part-way through the updaters (classifier, strategy and __choose_value).
UnattendedMergeCorrect ==
  ~debug =>
    \A s \in Scopes, o \in Options :
      /\ ~Applied(s, o) => cfg[s][o] = xml[s][o].new
      /\ Applied(s, o) /\ Unattended(mode, xml[s][o]) =>
           cfg[s][o] = MergeValue(xml[s][o])

\* A run that exits 0 has executed every option of every updater: the
\* global section, every card/cpu and every block device (main loop,
\* lines 588-606).
CompleteOnSuccess ==
  status = "done" => \A s \in Scopes, o \in Options : Applied(s, o)

\* An option the user deleted while its default never changed ("d","del",
\* "d") is never applied in any mode: it stops the run with the
\* "USER configuration is corrupted" error (lines 189, 242, 271).
UserDeletionAborts ==
  \A s \in Scopes, o \in Options :
    EncodeChanges(xml[s][o]) = <<"d", "del", "d">> /\ act[s][o] # Pending
      => act[s][o] = "error" /\ status = "error"

\* The automatic modes never stop with "Can not decide what update action
\* take": every vector the classifier produces is in their tables.
AutomaticModesAlwaysDecide ==
  mode \in {"semi-auto", "full-auto"} => status # "unknown"

\* A successful run prints the closing warning notice exactly when some
\* option kept a user value over a changed new default (full-auto
\* "wrn_apply_user", WRN_UP, lines 143-146 and 638-643).
WarningNoticeExact ==
  status = "done" =>
    (wrn <=> /\ mode = "full-auto"
             /\ \E s \in Scopes, o \in Options :
                  EncodeChanges(xml[s][o]) = <<"d", "m", "nd">>)

\* The spec's exit codes (0, 3, vcactl's status, 1 on interrupt) and its
\* rule 6 ("classification undefined: a fatal input error, reported with
\* the option and its triple"): a full-auto run, which never prompts, never
\* dies of an uncaught exception.
FullAutoNeverCrashes ==
  mode = "full-auto" => status # "crash"

\* The spec's design note 9: an option only the new default has (old and
\* user absent) falls through to "Unreachable" in both automatic modes and
\* aborts the run, so such an option is never applied there.
NewOptionNotApplied ==
  \A s \in Scopes, o \in Options :
    /\ mode \in {"semi-auto", "full-auto"}
    /\ xml[s][o].old = NoVal /\ xml[s][o].user = NoVal /\ xml[s][o].new # NoVal
    => ~Applied(s, o)


(***************************************************************************)
(* The driver implements the abstract update MergeSpec: an option is      *)
(* handled once its action is taken and is not fatal, the run is          *)
(* "running" until the process exits, "done" on exit 0 and "aborted" on   *)
(* every other exit (error, unknown, vcactl failure, crash, SIGINT).       *)
(***************************************************************************)
Merge == INSTANCE MergeSpec
           WITH done <- {so \in Scopes \X Options : Applied(so[1], so[2])},
                outcome <- CASE status = "running" -> "running"
                             [] status = "done"    -> "done"
                             [] OTHER              -> "aborted"

\* Every run of the driver is a run of the abstract update: each option is
\* written at most once, with the merge unless the operator is asked, never
\* in debug mode, and exit 0 only after every option of every updater
\* (VcactlUpdater.execute, the strategies, __choose_value, __run_vcactl and
\* the main loop, lines 588-646).
MergeRefinement == Merge!Spec

=============================================================================
