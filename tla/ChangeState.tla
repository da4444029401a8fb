---------------------------- MODULE ChangeState ----------------------------
(***************************************************************************)
(* The pure part of the configuration-merge script                        *)
(* src/apps/scripts/make_config.py: the change classifier                 *)
(* (VcactlUpdater.__encode_changes), the three update strategies          *)
(* (ManualUpdate, SemiAutoUpdate, FullAutoUpdate) and the value resolver   *)
(* (VcactlUpdater.__choose_value).                                         *)
(*                                                                         *)
(* An option entry is the triple [old default, user, new default] the     *)
(* script builds per option (combine_properties).  A value is a text from *)
(* Vals or Python's None, written NoVal: an option missing from a         *)
(* document, an empty element, or the text "None" in the global section.  *)
(* The classifier returns NoVal (None) for the one triple it does not     *)
(* cover, exactly as the code does.                                       *)
(***************************************************************************)
EXTENDS Naturals

CONSTANTS
  Vals,    \* the option texts the three documents may hold
  NoVal    \* Python's None: no value (also the classifier's "no vector")

\* The symbols of a change vector: "d" default, "m" modified, "del" deleted,
\* "nd" new default (comment block above encode_changes, lines 49-67).
Sym == {"d", "m", "del", "nd"}
Vectors == Sym \X Sym \X Sym

ASSUME NoValAssumption ==
  NoVal \notin Vals /\ NoVal \notin Vectors /\ NoVal \notin Nat

Value == Vals \cup {NoVal}

\* options_in_xmls[name] = [old default, user, new default]
Entry == [old : Value, user : Value, new : Value]

\* UPDATE_ACTIONS (lines 28-37).  "crash" stands for a Python exception the
\* script does not catch (a TypeError from subscripting the None vector, or
\* an exception raised by input() at an operator prompt): the process dies
\* with a traceback.
Actions == {"no_action", "apply_user", "wrn_apply_user", "new_default",
            "delete", "error", "new_usr", "unknown"}
Outcomes == Actions \cup {"crash"}

\* The outcomes that end the run before vcactl is called: __print_message
\* raises on "unknown" and "error" (lines 137-141).
Fatal == {"error", "unknown", "crash"}

\* Mutant: the "option added by user, new default in new rev." test
\* (line 385) tried before the "modified by user" branch (line 368).
EncodeChangesAddedFirst(e) ==
  IF e.old = NoVal /\ e.user # NoVal /\ e.new # NoVal THEN <<"del", "m", "d">>
  ELSE IF e.old = e.user
    THEN IF e.user = e.new THEN <<"d", "d", "d">>
         ELSE IF e.new # NoVal THEN <<"d", "d", "nd">>
         ELSE <<"d", "d", "del">>
  ELSE IF e.user # NoVal
    THEN IF e.new = e.old THEN <<"d", "m", "d">>
         ELSE IF e.new = NoVal THEN <<"d", "m", "del">>
         ELSE <<"d", "m", "nd">>
  ELSE IF e.old = e.new /\ e.user = NoVal THEN <<"d", "del", "d">>
  ELSE NoVal

(***************************************************************************)
(* Change classifier: __encode_changes (lines 357-394).  The branches are  *)
(* tried in the code's order; the first that matches wins.                *)
(***************************************************************************)
EncodeChanges(e) ==
  IF e.old = e.user
    THEN IF e.user = e.new THEN <<"d", "d", "d">>
         ELSE IF e.new # NoVal THEN <<"d", "d", "nd">>
         ELSE <<"d", "d", "del">>
  ELSE IF e.user # NoVal
    THEN IF e.new = e.old THEN <<"d", "m", "d">>
         ELSE IF e.new = NoVal THEN <<"d", "m", "del">>
         ELSE <<"d", "m", "nd">>
  ELSE IF e.old = NoVal /\ e.user # NoVal /\ e.new = NoVal
    THEN <<"del", "m", "del">>
  ELSE IF e.old = e.new /\ e.user = NoVal
    THEN <<"d", "del", "d">>
  ELSE IF e.old = NoVal /\ e.user # NoVal /\ e.new # NoVal
    THEN <<"del", "m", "d">>
  ELSE IF e.old = NoVal /\ e.user = NoVal /\ e.new # NoVal
    THEN <<"del", "del", "nd">>
  ELSE IF e.old = NoVal /\ e.user = NoVal /\ e.new = NoVal
    THEN <<"del", "del", "del">>
  ELSE NoVal

(***************************************************************************)
(* The operator prompt of ManualUpdate/SemiAutoUpdate.__ask_user (lines   *)
(* 176-186).  Python 2 input() evaluates what is typed: 1 applies the     *)
(* user value, 3 asks for a new value, anything else (and a SyntaxError   *)
(* or NameError) takes the new default; any other exception (EOFError on  *)
(* a closed stdin, ZeroDivisionError for "1/0", ...) is not caught.       *)
(***************************************************************************)
AskUser == {"apply_user", "new_usr", "new_default", "crash"}

\* Mutant: the corrupted-user-configuration guard dropped.
ManualDecideNoGuard(ch) ==
  IF ch = NoVal THEN {"crash"} ELSE AskUser

\* ManualUpdate._AbstractUpdate__decide_action (lines 188-192).  Reading
\* changes[1] of the None vector raises TypeError.
ManualDecide(ch) ==
  IF ch = NoVal THEN {"crash"}
  ELSE IF ch[2] = "del" /\ ch[1] = "d" /\ ch[3] = "d" THEN {"error"}
  ELSE AskUser

(***************************************************************************)
(* SemiAutoUpdate._AbstractUpdate__decide_action (lines 228-254).  Line   *)
(* 240 reads `changes[2] == 'nd' or 'del'`, which is always true, so every *)
(* "d","m",X with X # "d" is asked.  Line 252 calls __ask_user without     *)
(* returning its answer, so the prompt is shown (and may raise) and the   *)
(* method then returns "unknown".                                          *)
(***************************************************************************)
SemiDecide(ch) ==
  IF ch = NoVal THEN {"crash"}
  ELSE CASE ch = <<"d", "d", "d">>                      -> {"no_action"}
         [] ch = <<"d", "d", "nd">>                     -> {"new_default"}
         [] ch = <<"d", "d", "del">>                    -> {"delete"}
         [] ch = <<"d", "m", "d">>                      -> {"apply_user"}
         [] ch[1] = "d" /\ ch[2] = "m" /\ ch[3] # "d"   -> AskUser
         [] ch[1] = "d" /\ ch[2] = "del"                -> {"error"}
         [] ch = <<"del", "m", "del">>                  -> {"apply_user"}
         [] ch = <<"del", "m", "nd">>                   -> {"new_default"}
         [] ch[1] = "del" /\ ch[2] = "m" /\ ch[3] \notin {"del", "nd"}
                                                        -> {"unknown", "crash"}
         [] OTHER                                       -> {"unknown"}

\* Mutant: the "option deleted in new default" rule (line 274) tried before
\* the rules that keep a user value (lines 264-269).
FullDecideDeleteFirst(ch) ==
  IF ch = NoVal THEN {"crash"}
  ELSE IF ch = <<"d", "m", "d">> THEN {"apply_user"}
  ELSE IF ch[3] = "del" THEN {"delete"}
  ELSE IF ch[1] \in {"del", "d"} /\ ch[2] = "m" /\ ch[3] \in {"d", "nd"}
    THEN {"wrn_apply_user"}
  ELSE IF ch[2] = "del" /\ ch[1] = "d" /\ ch[3] = "d" THEN {"error"}
  ELSE IF ch[1] = "d" /\ ch[2] = "d" /\ ch[3] = "d" THEN {"no_action"}
  ELSE IF ch[1] = "d" /\ ch[2] = "d" /\ ch[3] = "nd" THEN {"new_default"}
  ELSE {"unknown"}

\* Mutant: the first rule (line 262) dropped, so "d","m","d" warns.
FullDecideNoFirstRule(ch) ==
  IF ch = NoVal THEN {"crash"}
  ELSE IF ch[1] \in {"del", "d"} /\ ch[2] = "m" /\ ch[3] = "del"
    THEN {"apply_user"}
  ELSE IF ch[1] \in {"del", "d"} /\ ch[2] = "m" /\ ch[3] \in {"d", "nd"}
    THEN {"wrn_apply_user"}
  ELSE IF ch[2] = "del" /\ ch[1] = "d" /\ ch[3] = "d" THEN {"error"}
  ELSE IF ch[3] = "del" THEN {"delete"}
  ELSE IF ch[1] = "d" /\ ch[2] = "d" /\ ch[3] = "d" THEN {"no_action"}
  ELSE IF ch[1] = "d" /\ ch[2] = "d" /\ ch[3] = "nd" THEN {"new_default"}
  ELSE {"unknown"}

\* FullAutoUpdate._AbstractUpdate__decide_action (lines 261-284): never
\* prompts; the tests are tried in the code's order.
FullDecide(ch) ==
  IF ch = NoVal THEN {"crash"}
  ELSE IF ch = <<"d", "m", "d">> THEN {"apply_user"}
  ELSE IF ch[1] \in {"del", "d"} /\ ch[2] = "m" /\ ch[3] = "del"
    THEN {"apply_user"}
  ELSE IF ch[1] \in {"del", "d"} /\ ch[2] = "m" /\ ch[3] \in {"d", "nd"}
    THEN {"wrn_apply_user"}
  ELSE IF ch[2] = "del" /\ ch[1] = "d" /\ ch[3] = "d" THEN {"error"}
  ELSE IF ch[3] = "del" THEN {"delete"}
  ELSE IF ch[1] = "d" /\ ch[2] = "d" /\ ch[3] = "d" THEN {"no_action"}
  ELSE IF ch[1] = "d" /\ ch[2] = "d" /\ ch[3] = "nd" THEN {"new_default"}
  ELSE {"unknown"}

\* The strategy chosen from the command line (UPDATE_MODE, lines 558-562).
Modes == {"manual", "semi-auto", "full-auto"}

Decide(mode, ch) ==
  CASE mode = "manual"    -> ManualDecide(ch)
    [] mode = "semi-auto" -> SemiDecide(ch)
    [] mode = "full-auto" -> FullDecide(ch)

\* Mutant: "delete" stored as the literal "" the code returns.
ChooseValueEmptyText(a, e) ==
  CASE a = "no_action"                        -> e.old
    [] a \in {"apply_user", "wrn_apply_user"} -> e.user
    [] a = "new_default"                      -> e.new
    [] a = "delete"                           -> ""

(***************************************************************************)
(* Value resolver: __choose_value (lines 345-355) for the actions that do  *)
(* not prompt.  "delete" returns "", which vcactl receives exactly like a  *)
(* None value (__get_command, lines 319-322): both are NoVal here.         *)
(* "new_usr" reads a value from the operator (__get_new_user_value); that *)
(* is an input of the driver, not a function of the entry.                 *)
(***************************************************************************)
ChooseValue(a, e) ==
  CASE a = "no_action"                        -> e.old
    [] a \in {"apply_user", "wrn_apply_user"} -> e.user
    [] a = "new_default"                      -> e.new
    [] a = "delete"                           -> NoVal

=============================================================================
