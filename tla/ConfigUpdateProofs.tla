------------------------- MODULE ConfigUpdateProofs -------------------------
(***************************************************************************)
(* Proofs about the reconciliation driver ConfigUpdate, for every value of *)
(* the constants: the type invariant, and that every option the script     *)
(* applies without asking the operator gets the merged value while every   *)
(* option it has not applied keeps its new default.                        *)
(***************************************************************************)
EXTENDS ConfigUpdate, TLAPS

(***************************************************************************)
(* Lemmas about the operators of ChangeState.                              *)
(***************************************************************************)

\* The classifier returns one of the code's vectors, or None.
LEMMA EncodeChangesType ==
  ASSUME NEW e \in Entry
  PROVE  EncodeChanges(e) \in Vectors \cup {NoVal}
BY DEF EncodeChanges, Vectors, Sym

\* Every strategy answers with an outcome of the script.
LEMMA DecideType ==
  ASSUME NEW m \in Modes, NEW ch \in Vectors \cup {NoVal}
  PROVE  Decide(m, ch) \subseteq Outcomes
BY DEF Decide, Modes, ManualDecide, SemiDecide, FullDecide, AskUser,
       Outcomes, Actions

\* A non-fatal action other than "new_usr" resolves to a value.
LEMMA ChooseValueType ==
  ASSUME NEW e \in Entry, NEW a \in Outcomes \ (Fatal \cup {"new_usr"})
  PROVE  ChooseValue(a, e) \in Value
BY DEF ChooseValue, Outcomes, Actions, Fatal, Entry, Value

(***************************************************************************)
(* The decision tables agree with the merge on every triple: in full-auto  *)
(* mode, and in semi-auto mode off the contested vectors, an action that   *)
(* lets the run go on is never "new_usr" and resolves to MergeValue.       *)
(***************************************************************************)
LEMMA FullAutoResolvesToMerge ==
  ASSUME NEW e \in Entry,
         NEW a \in FullDecide(EncodeChanges(e)) \ Fatal
  PROVE  a # "new_usr" /\ ChooseValue(a, e) = MergeValue(e)
BY NoValAssumption
   DEF FullDecide, EncodeChanges, ChooseValue, MergeValue, Fatal, Entry, Value

LEMMA SemiAutoResolvesToMerge ==
  ASSUME NEW e \in Entry,
         EncodeChanges(e) \notin Contested,
         NEW a \in SemiDecide(EncodeChanges(e)) \ Fatal
  PROVE  a # "new_usr" /\ ChooseValue(a, e) = MergeValue(e)
BY NoValAssumption
   DEF SemiDecide, AskUser, EncodeChanges, ChooseValue, MergeValue, Fatal,
       Contested, Entry, Value

\* The updater list only visits scopes.
LEMMA NextScopeType ==
  ASSUME NEW s \in Scopes
  PROVE  NextScope(s) \in Scopes \cup {EndOfList}
BY TopologyAssumption, NoValAssumption
   DEF NextScope, Scopes, CpuScope, GlobalScope, Cards, Cpus

(***************************************************************************)
(* Type correctness.                                                       *)
(***************************************************************************)
\* The initial state of the script (before the first updater) is typed.
LEMMA InitTypeOK == Init => TypeOK
<1> SUFFICES ASSUME Init PROVE TypeOK
  OBVIOUS
<1>1. xml \in [Scopes -> [Options -> Entry]]
  BY TopologyAssumption DEF Init
<1>2. \A s \in Scopes, o \in Options : xml[s][o].new \in Value
  BY <1>1 DEF Entry
<1>3. cfg \in [Scopes -> [Options -> Value]]
  BY <1>2 DEF Init
<1>4. cur \in Scopes
  BY DEF Init, Scopes, GlobalScope
<1>5. QED
  BY <1>1, <1>3, <1>4 DEF Init, TypeOK, Status

\* Running one option (decide, resolve, vcactl) keeps the types.
LEMMA ExecuteOptionTypeOK ==
  ASSUME TypeOK, NEW o \in Options, ExecuteOption(o)
  PROVE  TypeOK'
<1> DEFINE e == xml[cur][o]
<1>1. cur \in Scopes
  BY DEF ExecuteOption, TypeOK
<1>2. e \in Entry
  BY <1>1 DEF TypeOK
<1>3. PICK a \in Decide(mode, EncodeChanges(e)) :
        \/ a \in Fatal /\ Abort(o, a)
        \/ /\ a \notin Fatal
           /\ wrn' = (wrn \/ a = "wrn_apply_user")
           /\ \E v \in Candidates(a, e) : RunVcactl(o, a, v)
  BY DEF ExecuteOption
<1>4. a \in Outcomes
  BY <1>2, EncodeChangesType, DecideType DEF TypeOK
<1>5. UNCHANGED <<xml, mode, debug, cur>>
  BY DEF ExecuteOption
<1>6. act' = [act EXCEPT ![cur][o] = a] =>
        act' \in [Scopes -> [Options -> Outcomes \cup {Pending}]]
  BY <1>1, <1>4 DEF TypeOK
<1>7. CASE a \in Fatal
  <2>1. Abort(o, a)
    BY <1>3, <1>7
  <2>2. status' \in Status
    BY <1>7, <2>1 DEF Abort, Fatal, Status
  <2>3. QED
    BY <1>5, <1>6, <2>1, <2>2 DEF Abort, TypeOK
<1>8. CASE a \notin Fatal
  <2>1. PICK v \in Candidates(a, e) : RunVcactl(o, a, v)
    BY <1>3, <1>8
  <2>2. v \in Value
    BY <1>2, <1>4, <1>8, ChooseValueType DEF Candidates, Value
  <2>3. wrn' \in BOOLEAN
    BY <1>3, <1>8
  <2>4. cfg' = [cfg EXCEPT ![cur][o] = v] =>
          cfg' \in [Scopes -> [Options -> Value]]
    BY <1>1, <2>2 DEF TypeOK
  <2>5. status' \in Status
    BY <2>1 DEF RunVcactl, TypeOK, Status
  <2>6. QED
    BY <1>5, <1>6, <2>1, <2>3, <2>4, <2>5 DEF RunVcactl, TypeOK
<1>9. QED
  BY <1>7, <1>8

\* Every step of the driver keeps the types.
LEMMA NextTypeOK == TypeOK /\ [Next]_vars => TypeOK'
<1> SUFFICES ASSUME TypeOK, [Next]_vars PROVE TypeOK'
  OBVIOUS
<1>1. CASE \E o \in Options : ExecuteOption(o)
  BY <1>1, ExecuteOptionTypeOK
<1>2. CASE NextUpdater
  BY <1>2, NextScopeType DEF NextUpdater, TypeOK
<1>3. CASE Finish
  BY <1>3 DEF Finish, TypeOK, Status
<1>4. CASE Interrupt
  BY <1>4 DEF Interrupt, TypeOK, Status
<1>5. CASE Exited \/ UNCHANGED vars
  BY <1>5 DEF Exited, vars, TypeOK
<1>6. QED
  BY <1>1, <1>2, <1>3, <1>4, <1>5 DEF Next

\* The model's state keeps its types: the script never stores a value, an
\* action or a scope outside the sets its code can produce.
THEOREM TypeCorrect == Spec => []TypeOK
BY InitTypeOK, NextTypeOK, PTL DEF Spec

(***************************************************************************)
(* The merge.  UnattendedMergeCorrect is inductive once the types are     *)
(* known: an ExecuteOption step changes act and cfg only at the option it *)
(* runs, which was Pending and so still held its new default; the other   *)
(* steps leave act, cfg, xml, mode and debug alone.                       *)
(***************************************************************************)
IInv == TypeOK /\ UnattendedMergeCorrect

\* Running one option keeps the merge invariant, at that option and at
\* every other one.
LEMMA ExecuteOptionMerge ==
  ASSUME IInv, NEW o \in Options, ExecuteOption(o)
  PROVE  UnattendedMergeCorrect'
<1> DEFINE e == xml[cur][o]
<1> USE DEF IInv
<1>1. UNCHANGED <<xml, mode, debug, cur>>
  BY DEF ExecuteOption
<1> SUFFICES ASSUME ~debug, NEW s \in Scopes, NEW p \in Options
             PROVE  /\ ~Applied(s, p)' => cfg'[s][p] = xml'[s][p].new
                    /\ Applied(s, p)' /\ Unattended(mode', xml'[s][p]) =>
                         cfg'[s][p] = MergeValue(xml'[s][p])
  BY <1>1 DEF UnattendedMergeCorrect
<1>2. cur \in Scopes /\ act[cur][o] = Pending
  BY DEF ExecuteOption, TypeOK
<1>3. e \in Entry /\ cfg[cur][o] = e.new
  BY <1>2 DEF TypeOK, UnattendedMergeCorrect, Applied, Pending, Fatal
<1>4. PICK a \in Decide(mode, EncodeChanges(e)) :
        \/ a \in Fatal /\ Abort(o, a)
        \/ /\ a \notin Fatal
           /\ wrn' = (wrn \/ a = "wrn_apply_user")
           /\ \E v \in Candidates(a, e) : RunVcactl(o, a, v)
  BY DEF ExecuteOption
\* The step leaves every other option alone.
<1>5. CASE s # cur \/ p # o
  <2>1. act' \in {act, [act EXCEPT ![cur][o] = a]}
    BY <1>4 DEF Abort, RunVcactl
  <2>2. \/ cfg' = cfg
        \/ \E v \in Candidates(a, e) : cfg' = [cfg EXCEPT ![cur][o] = v]
    BY <1>4 DEF Abort, RunVcactl
  <2>3. act'[s][p] = act[s][p] /\ cfg'[s][p] = cfg[s][p]
    BY <1>2, <1>5, <2>1, <2>2 DEF TypeOK
  <2>4. QED
    BY <1>1, <2>3 DEF UnattendedMergeCorrect, Applied
\* The option the step runs was Pending, so it held its new default.
<1>6. CASE s = cur /\ p = o
  <2>1. CASE a \in Fatal
    <3>1. act'[s][p] = a /\ cfg' = cfg
      BY <1>2, <1>4, <1>6, <2>1 DEF Abort, TypeOK
    <3>2. QED
      BY <1>1, <1>3, <1>6, <2>1, <3>1 DEF Applied
  <2>2. CASE a \notin Fatal
    <3>1. PICK v \in Candidates(a, e) : RunVcactl(o, a, v)
      BY <1>4, <2>2
    <3>2. CASE UNCHANGED <<act, cfg>>
      BY <1>1, <1>2, <1>3, <1>6, <3>2 DEF Applied, Pending, Fatal
    <3>3. CASE act' = [act EXCEPT ![cur][o] = a] /\ cfg' = [cfg EXCEPT ![cur][o] = v]
      <4>0. Applied(s, p)'
        <5>1. a \in Outcomes
          BY <1>3, EncodeChangesType, DecideType DEF TypeOK
        <5>2. QED
          BY <1>2, <1>6, <2>2, <3>3, <5>1 DEF Applied, TypeOK, Outcomes,
                                               Actions, Pending
      <4>1. cfg'[s][p] = v
        BY <1>2, <1>6, <3>3 DEF TypeOK
      <4>2. ASSUME Unattended(mode, e) PROVE v = MergeValue(e)
        <5>1. mode \in Modes
          BY DEF TypeOK
        <5>2. CASE mode = "full-auto"
          <6>1. a \in FullDecide(EncodeChanges(e)) \ Fatal
            BY <1>4, <2>2, <5>2 DEF Decide
          <6>2. QED
            BY <1>3, <3>1, <6>1, FullAutoResolvesToMerge DEF Candidates
        <5>3. CASE mode = "semi-auto"
          <6>1. a \in SemiDecide(EncodeChanges(e)) \ Fatal
            BY <1>4, <2>2, <5>3 DEF Decide
          <6>2. EncodeChanges(e) \notin Contested
            BY <4>2, <5>3 DEF Unattended
          <6>3. QED
            BY <1>3, <3>1, <6>1, <6>2, SemiAutoResolvesToMerge DEF Candidates
        <5>4. QED
          BY <4>2, <5>1, <5>2, <5>3 DEF Unattended, Modes
      <4>3. QED
        BY <1>1, <1>6, <4>0, <4>1, <4>2
    <3>4. QED
      BY <3>1, <3>2, <3>3 DEF RunVcactl
  <2>3. QED
    BY <2>1, <2>2
<1>7. QED
  BY <1>5, <1>6

\* Every step of the driver keeps the merge invariant.
LEMMA NextMerge == IInv /\ [Next]_vars => UnattendedMergeCorrect'
<1> SUFFICES ASSUME IInv, [Next]_vars PROVE UnattendedMergeCorrect'
  OBVIOUS
<1>1. CASE \E o \in Options : ExecuteOption(o)
  BY <1>1, ExecuteOptionMerge
<1>2. CASE ~\E o \in Options : ExecuteOption(o)
  <2>1. UNCHANGED <<xml, mode, debug, act, cfg>>
    BY <1>2 DEF Next, NextUpdater, Finish, Interrupt, Exited, vars
  <2>2. QED
    BY <2>1 DEF IInv, UnattendedMergeCorrect, Applied, Unattended
<1>3. QED
  BY <1>1, <1>2

\* In every state of every run, for every topology and every set of option
\* triples: an option the script has not applied holds its new default,
\* and one it applied in full-auto mode, or in semi-auto mode without a
\* prompt, holds the user's edit if there was one and the new default
\* otherwise (classifier, strategies, __choose_value and the updater loop).
THEOREM MergeCorrect == Spec => []UnattendedMergeCorrect
<1>1. Init => IInv
  <2> SUFFICES ASSUME Init PROVE UnattendedMergeCorrect
    BY InitTypeOK DEF IInv
  <2>1. \A s \in Scopes, o \in Options : ~Applied(s, o)
    BY DEF Init, Applied, Pending, Fatal
  <2>2. QED
    BY <2>1 DEF Init, UnattendedMergeCorrect
<1>2. IInv /\ [Next]_vars => IInv'
  BY NextTypeOK, NextMerge DEF IInv
<1>3. QED
  BY <1>1, <1>2, PTL DEF Spec, IInv

=============================================================================
