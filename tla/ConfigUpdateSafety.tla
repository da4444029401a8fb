------------------------- MODULE ConfigUpdateSafety -------------------------
(***************************************************************************)
(* Proofs of the safety properties of the reconciliation driver that the  *)
(* run MCConfigUpdate checks, for every topology, option set and set of    *)
(* triples: a successful run handled every option, a user deletion of an  *)
(* unchanged default always stops the run, the automatic modes always     *)
(* decide, and the closing warning is printed exactly when full-auto kept *)
(* a user value over a changed default.                                    *)
(*                                                                         *)
(* All four rest on what the decision tables answer on the vectors the    *)
(* classifier can produce: __encode_changes never returns a vector whose  *)
(* first element is "del" (that needs old = None while old # user and     *)
(* user = None, which the earlier branches have already taken), so the    *)
(* "Unreachable" rows of the strategies are indeed never reached.         *)
(***************************************************************************)
EXTENDS ConfigUpdateRefinement

\* The vectors __encode_changes returns for some triple.
Produced ==
  { <<"d", "d", "d">>, <<"d", "d", "nd">>, <<"d", "d", "del">>,
    <<"d", "m", "d">>, <<"d", "m", "del">>, <<"d", "m", "nd">>,
    <<"d", "del", "d">>, NoVal }

\* Exit 0 is taken only at the end of the updater list.
DoneAtEnd == status = "done" => cur = EndOfList

\* While the run goes on or after it ended successfully, WRN_UP is set
\* exactly when some option was given "wrn_apply_user"; and an option got
\* "wrn_apply_user" exactly when full-auto met the vector "d","m","nd".
WarnTracked ==
  /\ status \in {"running", "done"} =>
       (wrn <=> \E s \in Scopes, o \in Options : act[s][o] = "wrn_apply_user")
  /\ \A s \in Scopes, o \in Options :
       act[s][o] # Pending =>
         (act[s][o] = "wrn_apply_user" <=>
            mode = "full-auto" /\ EncodeChanges(xml[s][o]) = <<"d", "m", "nd">>)

\* The inductive invariant behind the four properties.
SInv ==
  /\ RInv
  /\ DoneAtEnd
  /\ WarnTracked
  /\ UserDeletionAborts
  /\ AutomaticModesAlwaysDecide

(***************************************************************************)
(* The classifier and the decision tables.                                *)
(***************************************************************************)
\* __encode_changes returns one of seven vectors, or None: never one that
\* starts with "del".
LEMMA ClassifierImage ==
  ASSUME NEW e \in Entry
  PROVE  EncodeChanges(e) \in Produced
BY DEF EncodeChanges, Produced

\* Every strategy answers the vector "d","del","d" with the corrupted
\* configuration error (lines 189, 242, 271).
LEMMA DeletionDecidesError ==
  ASSUME NEW m \in Modes
  PROVE  Decide(m, <<"d", "del", "d">>) = {"error"}
BY NoValAssumption
   DEF Decide, Modes, ManualDecide, SemiDecide, FullDecide, Vectors, Sym

\* On a vector the classifier produces, neither automatic strategy answers
\* "unknown".
LEMMA AutomaticDecides ==
  ASSUME NEW m \in {"semi-auto", "full-auto"}, NEW ch \in Produced
  PROVE  "unknown" \notin Decide(m, ch)
BY NoValAssumption
   DEF Decide, SemiDecide, FullDecide, AskUser, Produced, Vectors, Sym

\* On a vector the classifier produces, a strategy answers
\* "wrn_apply_user" exactly in full-auto mode on "d","m","nd".
LEMMA WarnDecided ==
  ASSUME NEW m \in Modes, NEW ch \in Produced, NEW a \in Decide(m, ch)
  PROVE  a = "wrn_apply_user" <=> m = "full-auto" /\ ch = <<"d", "m", "nd">>
BY NoValAssumption
   DEF Decide, Modes, ManualDecide, SemiDecide, FullDecide, AskUser,
       Produced, Vectors, Sym

(***************************************************************************)
(* The invariant SInv.                                                     *)
(***************************************************************************)
\* No vector "d","del","d" is recorded while the run goes on: recording it
\* ends the run.
LEMMA NoDeletionWhileRunning ==
  ASSUME UserDeletionAborts, status = "running",
         NEW s \in Scopes, NEW p \in Options,
         EncodeChanges(xml[s][p]) = <<"d", "del", "d">>
  PROVE  act[s][p] = Pending
BY DEF UserDeletionAborts

\* Before the first updater nothing was decided.
LEMMA InitSInv == Init => SInv
<1> SUFFICES ASSUME Init
             PROVE  DoneAtEnd /\ WarnTracked /\ UserDeletionAborts
                    /\ AutomaticModesAlwaysDecide
  BY InitRInv DEF SInv
<1>1. \A s \in Scopes, o \in Options : act[s][o] = Pending
  BY DEF Init
<1>2. QED
  BY <1>1 DEF Init, DoneAtEnd, WarnTracked, UserDeletionAborts,
              AutomaticModesAlwaysDecide, Pending

\* Running one option records the strategy's answer at that option only;
\* the run goes on only if the answer is not fatal and vcactl succeeded.
LEMMA ExecuteOptionSInv ==
  ASSUME SInv, NEW o \in Options, ExecuteOption(o)
  PROVE  (DoneAtEnd /\ WarnTracked /\ UserDeletionAborts
          /\ AutomaticModesAlwaysDecide)'
<1> DEFINE e == xml[cur][o]
<1> DEFINE ch == EncodeChanges(e)
<1> USE DEF SInv
<1>1. /\ cur \in Scopes /\ status = "running" /\ act[cur][o] = Pending
      /\ UNCHANGED <<xml, mode, debug, cur>>
  BY DEF ExecuteOption, RInv, TypeOK
<1>2. e \in Entry /\ ch \in Produced /\ mode \in Modes
  BY <1>1, ClassifierImage DEF RInv, TypeOK
<1>3. PICK a \in Decide(mode, ch) :
        \/ a \in Fatal /\ Abort(o, a)
        \/ /\ a \notin Fatal
           /\ wrn' = (wrn \/ a = "wrn_apply_user")
           /\ \E v \in Candidates(a, e) : RunVcactl(o, a, v)
  BY DEF ExecuteOption
\* The three shapes of the step: a fatal answer, a recorded answer, and
\* vcactl failing or input() raising before anything is recorded.
<1>4. \/ /\ a \in Fatal /\ act' = [act EXCEPT ![cur][o] = a]
         /\ status' = a /\ wrn' = wrn
      \/ /\ a \notin Fatal /\ act' = [act EXCEPT ![cur][o] = a]
         /\ status' = "running" /\ wrn' = (wrn \/ a = "wrn_apply_user")
      \/ act' = act /\ status' \in {"crash", "vcactl_error"}
  BY <1>1, <1>3 DEF Abort, RunVcactl
<1>5. \A s \in Scopes, p \in Options :
        s # cur \/ p # o => act'[s][p] = act[s][p]
  BY <1>1, <1>4 DEF RInv, TypeOK
<1>6. act' = [act EXCEPT ![cur][o] = a] => act'[cur][o] = a
  BY <1>1 DEF RInv, TypeOK
<1>7. DoneAtEnd'
  BY <1>4 DEF DoneAtEnd, Fatal
<1>8. AutomaticModesAlwaysDecide'
  <2> SUFFICES ASSUME mode \in {"semi-auto", "full-auto"}, status' = "unknown"
               PROVE  FALSE
    BY <1>1 DEF AutomaticModesAlwaysDecide
  <2>1. a = "unknown"
    BY <1>4
  <2>2. QED
    BY <1>2, <2>1, AutomaticDecides
<1>9. UserDeletionAborts'
  <2> SUFFICES ASSUME NEW s \in Scopes, NEW p \in Options,
                      EncodeChanges(xml[s][p]) = <<"d", "del", "d">>,
                      act'[s][p] # Pending
               PROVE  act'[s][p] = "error" /\ status' = "error"
    BY <1>1 DEF UserDeletionAborts
  <2>1. CASE s # cur \/ p # o
    <3>1. act[s][p] = Pending
      BY <1>1, NoDeletionWhileRunning
    <3>2. QED
      BY <1>5, <2>1, <3>1
  <2>4. CASE s = cur /\ p = o
    <3>1. a = "error"
      BY <1>2, <2>4, DeletionDecidesError
    <3>2. act' # act
      BY <1>1, <2>4
    <3>3. QED
      BY <1>4, <1>6, <2>4, <3>1, <3>2 DEF Fatal
  <2>5. QED
    BY <2>1, <2>4
<1>10. WarnTracked'
  <2>1. ASSUME NEW s \in Scopes, NEW p \in Options, act'[s][p] # Pending
        PROVE  act'[s][p] = "wrn_apply_user" <=>
                 mode = "full-auto" /\ EncodeChanges(xml[s][p]) = <<"d", "m", "nd">>
    <3>1. CASE s # cur \/ p # o
      BY <1>1, <1>5, <2>1, <3>1 DEF WarnTracked
    <3>2. CASE s = cur /\ p = o
      <4>1. act'[s][p] = a
        BY <1>1, <1>4, <1>6, <2>1, <3>2
      <4>2. QED
        BY <1>1, <1>2, <3>2, <4>1, WarnDecided
    <3>5. QED
      BY <3>1, <3>2
  <2>2. ASSUME status' \in {"running", "done"}
        PROVE  wrn' <=> \E s \in Scopes, p \in Options : act'[s][p] = "wrn_apply_user"
    <3>1. a \notin Fatal /\ act' = [act EXCEPT ![cur][o] = a]
          /\ wrn' = (wrn \/ a = "wrn_apply_user")
      BY <1>4, <2>2 DEF Fatal
    <3>2. wrn <=> \E s \in Scopes, p \in Options : act[s][p] = "wrn_apply_user"
      BY <1>1 DEF WarnTracked
    <3>3. (\E s \in Scopes, p \in Options : act'[s][p] = "wrn_apply_user")
            <=> (\E s \in Scopes, p \in Options : act[s][p] = "wrn_apply_user")
                \/ a = "wrn_apply_user"
      BY <1>1, <1>5, <1>6, <3>1 DEF Pending
    <3>4. QED
      BY <3>1, <3>2, <3>3
  <2>3. QED
    BY <1>1, <2>1, <2>2 DEF WarnTracked
<1>11. QED
  BY <1>7, <1>8, <1>9, <1>10

\* Every step of the driver keeps SInv.
LEMMA NextSInv == SInv /\ [Next]_vars => SInv'
<1> SUFFICES ASSUME SInv, [Next]_vars PROVE SInv'
  OBVIOUS
<1> USE DEF SInv
<1>1. RInv'
  BY NextRInv
<1>2. CASE \E o \in Options : ExecuteOption(o)
  BY <1>1, <1>2, ExecuteOptionSInv
\* Taking the next updater moves cur only.
<1>3. CASE NextUpdater
  <2>1. status = "running" /\ UNCHANGED <<xml, mode, act, wrn, status>>
    BY <1>3 DEF NextUpdater
  <2>2. QED
    BY <1>1, <2>1 DEF DoneAtEnd, WarnTracked, UserDeletionAborts,
                      AutomaticModesAlwaysDecide
\* Exit 0 at the end of the list, or SIGINT: nothing recorded changes, and
\* no deletion was recorded since the run was still going on.
<1>4. CASE Finish \/ Interrupt
  <2>1. /\ status = "running" /\ status' \in {"done", "sigint"}
        /\ status' = "done" => cur = EndOfList
        /\ UNCHANGED <<xml, mode, cur, act, wrn>>
    BY <1>4 DEF Finish, Interrupt
  <2>2. UserDeletionAborts'
    BY <2>1, NoDeletionWhileRunning DEF UserDeletionAborts
  <2>3. QED
    BY <1>1, <2>1, <2>2 DEF DoneAtEnd, WarnTracked, AutomaticModesAlwaysDecide
<1>5. CASE Exited \/ UNCHANGED vars
  <2>1. UNCHANGED vars
    BY <1>5 DEF Exited
  <2>2. QED
    BY <1>1, <2>1 DEF vars, DoneAtEnd, WarnTracked, UserDeletionAborts,
                      AutomaticModesAlwaysDecide
<1>6. QED
  BY <1>2, <1>3, <1>4, <1>5 DEF Next

\* SInv holds in every reachable state.
THEOREM SInvCorrect == Spec => []SInv
BY InitSInv, NextSInv, PTL DEF Spec

(***************************************************************************)
(* The four properties.                                                    *)
(***************************************************************************)
\* A run that exits 0 has executed every option of every updater (the
\* main loop, lines 588-606): at exit 0 the list is exhausted and every
\* updater before its end has handled all its options.
THEOREM CompleteCorrect == Spec => []CompleteOnSuccess
<1>1. SInv => CompleteOnSuccess
  <2> SUFFICES ASSUME SInv, status = "done", NEW s \in Scopes, NEW o \in Options
               PROVE  Applied(s, o)
    BY DEF CompleteOnSuccess
  <2>1. cur = EndOfList
    BY DEF SInv, DoneAtEnd
  <2>2. QED
    BY <2>1, IdxBelowEnd DEF SInv, RInv, Walked
<1>2. QED
  BY <1>1, SInvCorrect, PTL

\* In every mode an option the user deleted while its default never
\* changed stops the run with "USER configuration is corrupted"
\* (lines 189, 242, 271), and is never applied.
THEOREM DeletionCorrect == Spec => []UserDeletionAborts
BY SInvCorrect, PTL DEF SInv

\* The automatic modes never stop with "Can not decide what update action
\* take" (lines 253, 284): every vector __encode_changes returns is in
\* their tables.
THEOREM DecideCorrect == Spec => []AutomaticModesAlwaysDecide
BY SInvCorrect, PTL DEF SInv

\* A run that exits 0 prints the closing warning notice (WRN_UP, lines
\* 143-146 and 638-643) exactly when full-auto mode kept a user value over
\* a changed new default somewhere.
THEOREM WarningCorrect == Spec => []WarningNoticeExact
<1>1. SInv => WarningNoticeExact
  <2> SUFFICES ASSUME SInv, status = "done"
               PROVE  wrn <=> /\ mode = "full-auto"
                              /\ \E s \in Scopes, o \in Options :
                                   EncodeChanges(xml[s][o]) = <<"d", "m", "nd">>
    BY DEF WarningNoticeExact
  <2>1. \A s \in Scopes, o \in Options : act[s][o] # Pending
    <3>1. cur = EndOfList
      BY DEF SInv, DoneAtEnd
    <3>2. QED
      BY <3>1, IdxBelowEnd DEF SInv, RInv, Walked, Applied
  <2>2. wrn <=> \E s \in Scopes, o \in Options : act[s][o] = "wrn_apply_user"
    BY DEF SInv, WarnTracked
  <2>3. \A s \in Scopes, o \in Options :
          act[s][o] = "wrn_apply_user" <=>
            mode = "full-auto" /\ EncodeChanges(xml[s][o]) = <<"d", "m", "nd">>
    BY <2>1 DEF SInv, WarnTracked
  <2>4. QED
    BY <2>2, <2>3
<1>2. QED
  BY <1>1, SInvCorrect, PTL

====
