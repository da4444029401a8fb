----------------------- MODULE ConfigUpdateRefinement -----------------------
(***************************************************************************)
(* Proof that the driver ConfigUpdate implements the abstract update       *)
(* MergeSpec under the mapping Merge, for every topology, option set and  *)
(* set of triples.  The step that needs an invariant is Finish: exit 0     *)
(* maps to the abstract Finish only if every option of every scope has    *)
(* been handled, which follows from the updaters running in list order   *)
(* (Walked) and from no fatal action being recorded while the run goes on *)
(* (NoFatalWhileRunning).                                                  *)
(***************************************************************************)
EXTENDS ConfigUpdateProofs

\* The position of a scope in the updater list of lines 588-605; the end of
\* the list comes after every scope.
Idx(s) ==
  IF s = GlobalScope THEN 0
  ELSE IF s = EndOfList THEN 1 + NCards * NCpus * (NBlk + 1)
  ELSE 1 + (s.card * NCpus + s.cpu) * (NBlk + 1) + s.blk

\* Every updater before the current one has handled all its options.
Walked ==
  \A s \in Scopes : Idx(s) < Idx(cur) => \A o \in Options : Applied(s, o)

\* A fatal action ends the run at once.
NoFatalWhileRunning ==
  status = "running" => \A s \in Scopes, o \in Options : act[s][o] \notin Fatal

RInv == TypeOK /\ Walked /\ NoFatalWhileRunning

(***************************************************************************)
(* The updater list.                                                       *)
(***************************************************************************)
\* The end of the list is no updater, and a card/cpu scope is not global.
LEMMA ScopeShapes ==
  /\ EndOfList \notin Scopes
  /\ \A c \in Nat, n \in Nat : CpuScope(c, n) # GlobalScope
  /\ \A c \in Nat, n \in Nat : CpuScope(c, n) # EndOfList
BY NoValAssumption DEF EndOfList, Scopes, GlobalScope, CpuScope, Cards, Cpus

\* The position of a card/cpu scope.
LEMMA IdxCpuScope ==
  ASSUME NEW c \in Nat, NEW n \in Nat, NEW k \in Nat
  PROVE  Idx([card |-> c, cpu |-> n, blk |-> k])
           = 1 + (c * NCpus + n) * (NBlk + 1) + k
<1>1. [card |-> c, cpu |-> n, blk |-> k] # GlobalScope
  BY NoValAssumption DEF GlobalScope
<1>2. [card |-> c, cpu |-> n, blk |-> k] # EndOfList
  BY NoValAssumption DEF EndOfList
<1>3. QED
  BY <1>1, <1>2 DEF Idx

\* The position of the end of the list.
LEMMA IdxEnd == Idx(EndOfList) = 1 + NCards * NCpus * (NBlk + 1)
<1>1. EndOfList # GlobalScope
  BY DEF EndOfList, GlobalScope
<1>2. QED
  BY <1>1 DEF Idx

\* A card/cpu scope is the record of its three fields.
LEMMA CpuScopeFields ==
  ASSUME NEW s \in Scopes, s # GlobalScope
  PROVE  /\ s = [card |-> s.card, cpu |-> s.cpu, blk |-> s.blk]
         /\ s.card \in 0 .. NCards - 1 /\ s.cpu \in 0 .. NCpus - 1
         /\ s.blk \in 0 .. NBlk
BY DEF Scopes, Cards, Cpus

\* A scope's position is a number below the end of the list.
LEMMA IdxBelowEnd ==
  ASSUME NEW s \in Scopes
  PROVE  Idx(s) \in Nat /\ Idx(s) < Idx(EndOfList)
<1>1. CASE s = GlobalScope
  <2>1. Idx(s) = 0
    BY <1>1 DEF Idx
  <2>2. QED
    BY <2>1, IdxEnd, TopologyAssumption
<1>2. CASE s # GlobalScope
  <2>1. /\ s = [card |-> s.card, cpu |-> s.cpu, blk |-> s.blk]
        /\ s.card \in 0 .. NCards - 1 /\ s.cpu \in 0 .. NCpus - 1
        /\ s.blk \in 0 .. NBlk
    BY <1>2, CpuScopeFields
  <2>2. Idx(s) = 1 + (s.card * NCpus + s.cpu) * (NBlk + 1) + s.blk
    BY <2>1, IdxCpuScope
  <2>3. s.card * NCpus + s.cpu <= NCards * NCpus - 1
    BY <2>1, TopologyAssumption
  <2>4. (s.card * NCpus + s.cpu) * (NBlk + 1) + s.blk
          < NCards * NCpus * (NBlk + 1)
    BY <2>1, <2>3, TopologyAssumption
  <2>5. QED
    BY <2>1, <2>2, <2>4, IdxEnd, TopologyAssumption
<1>3. QED
  BY <1>1, <1>2

\* NextScope moves one place down the list.
LEMMA IdxNextScope ==
  ASSUME NEW s \in Scopes
  PROVE  Idx(NextScope(s)) = Idx(s) + 1
<1>1. CASE s = GlobalScope
  <2>1. NextScope(s) = [card |-> 0, cpu |-> 0, blk |-> 0]
    BY <1>1 DEF NextScope, GlobalScope, CpuScope
  <2>2. Idx(s) = 0
    BY <1>1 DEF Idx
  <2>3. Idx([card |-> 0, cpu |-> 0, blk |-> 0]) = 1
    BY IdxCpuScope, TopologyAssumption
  <2>4. QED
    BY <2>1, <2>2, <2>3
<1>2. CASE s # GlobalScope
  <2> DEFINE c == s.card  n == s.cpu  k == s.blk
  <2>1. /\ s = [card |-> c, cpu |-> n, blk |-> k]
        /\ c \in 0 .. NCards - 1 /\ n \in 0 .. NCpus - 1 /\ k \in 0 .. NBlk
    BY <1>2, CpuScopeFields
  <2>2. c # NoVal
    BY <2>1, NoValAssumption
  <2>3. Idx(s) = 1 + (c * NCpus + n) * (NBlk + 1) + k
    BY <2>1, IdxCpuScope
  <2>4. CASE k < NBlk
    <3>1. NextScope(s) = [card |-> c, cpu |-> n, blk |-> k + 1]
      BY <2>1, <2>2, <2>4 DEF NextScope
    <3>2. Idx([card |-> c, cpu |-> n, blk |-> k + 1])
            = 1 + (c * NCpus + n) * (NBlk + 1) + (k + 1)
      BY <2>1, IdxCpuScope
    <3>3. QED
      BY <2>1, <2>3, <3>1, <3>2, TopologyAssumption
  <2>5. CASE k = NBlk /\ n < NCpus - 1
    <3>1. NextScope(s) = [card |-> c, cpu |-> n + 1, blk |-> 0]
      BY <2>1, <2>2, <2>5 DEF NextScope, CpuScope
    <3>2. Idx(NextScope(s)) = 1 + (c * NCpus + (n + 1)) * (NBlk + 1) + 0
      <4>1. c \in Nat /\ n + 1 \in Nat /\ 0 \in Nat
        BY <2>1
      <4>2. QED
        BY <3>1, <4>1, IdxCpuScope
    <3>3. QED
      BY <2>1, <2>3, <2>5, <3>2, TopologyAssumption
  <2>6. CASE k = NBlk /\ n = NCpus - 1 /\ c < NCards - 1
    <3>1. NextScope(s) = [card |-> c + 1, cpu |-> 0, blk |-> 0]
      BY <2>1, <2>2, <2>6, TopologyAssumption DEF NextScope, CpuScope
    <3>2. Idx(NextScope(s)) = 1 + ((c + 1) * NCpus + 0) * (NBlk + 1) + 0
      <4>1. c + 1 \in Nat /\ 0 \in Nat
        BY <2>1
      <4>2. QED
        BY <3>1, <4>1, IdxCpuScope
    <3>3. QED
      BY <2>1, <2>3, <2>6, <3>2, TopologyAssumption
  <2>7. CASE k = NBlk /\ n = NCpus - 1 /\ c = NCards - 1
    <3>1. NextScope(s) = EndOfList
      BY <2>1, <2>2, <2>7, TopologyAssumption DEF NextScope
    <3>2. QED
      BY <2>1, <2>3, <2>7, <3>1, IdxEnd, TopologyAssumption
  <2>8. QED
    BY <2>1, <2>4, <2>5, <2>6, <2>7, TopologyAssumption
<1>3. QED
  BY <1>1, <1>2

\* Quotient and remainder by B are unique.
LEMMA QuotRemUnique ==
  ASSUME NEW B \in Nat \ {0}, NEW q1 \in Nat, NEW q2 \in Nat,
         NEW r1 \in 0 .. B - 1, NEW r2 \in 0 .. B - 1,
         q1 * B + r1 = q2 * B + r2
  PROVE  q1 = q2 /\ r1 = r2
<1>1. ~(q1 < q2)
  <2> SUFFICES ASSUME q1 < q2 PROVE FALSE
    OBVIOUS
  <2>1. (q1 + 1) * B <= q2 * B
    OBVIOUS
  <2>2. QED
    BY <2>1
<1>2. ~(q2 < q1)
  <2> SUFFICES ASSUME q2 < q1 PROVE FALSE
    OBVIOUS
  <2>1. (q2 + 1) * B <= q1 * B
    OBVIOUS
  <2>2. QED
    BY <2>1
<1>3. q1 = q2
  BY <1>1, <1>2
<1>4. QED
  BY <1>3

\* No two updaters share a position.
LEMMA IdxInjective ==
  ASSUME NEW s \in Scopes, NEW t \in Scopes, Idx(s) = Idx(t)
  PROVE  s = t
<1>1. CASE s = GlobalScope /\ t = GlobalScope
  BY <1>1
<1>2. ASSUME NEW u \in Scopes, u # GlobalScope PROVE Idx(u) # 0
  <2>1. /\ u = [card |-> u.card, cpu |-> u.cpu, blk |-> u.blk]
        /\ u.card \in 0 .. NCards - 1 /\ u.cpu \in 0 .. NCpus - 1
        /\ u.blk \in 0 .. NBlk
    BY <1>2, CpuScopeFields
  <2>2. Idx(u) = 1 + (u.card * NCpus + u.cpu) * (NBlk + 1) + u.blk
    BY <2>1, IdxCpuScope
  <2>3. QED
    BY <2>1, <2>2, TopologyAssumption
<1>3. CASE s = GlobalScope /\ t # GlobalScope
  BY <1>2, <1>3 DEF Idx
<1>4. CASE s # GlobalScope /\ t = GlobalScope
  BY <1>2, <1>4 DEF Idx
<1>5. CASE s # GlobalScope /\ t # GlobalScope
  <2>1. /\ s = [card |-> s.card, cpu |-> s.cpu, blk |-> s.blk]
        /\ s.card \in 0 .. NCards - 1 /\ s.cpu \in 0 .. NCpus - 1
        /\ s.blk \in 0 .. NBlk
    BY <1>5, CpuScopeFields
  <2>2. /\ t = [card |-> t.card, cpu |-> t.cpu, blk |-> t.blk]
        /\ t.card \in 0 .. NCards - 1 /\ t.cpu \in 0 .. NCpus - 1
        /\ t.blk \in 0 .. NBlk
    BY <1>5, CpuScopeFields
  <2>3. (s.card * NCpus + s.cpu) * (NBlk + 1) + s.blk
          = (t.card * NCpus + t.cpu) * (NBlk + 1) + t.blk
    BY <2>1, <2>2, IdxCpuScope, TopologyAssumption
  <2>4. s.card * NCpus + s.cpu = t.card * NCpus + t.cpu /\ s.blk = t.blk
    <3>1. /\ s.card * NCpus + s.cpu \in Nat /\ t.card * NCpus + t.cpu \in Nat
          /\ NBlk + 1 \in Nat \ {0}
          /\ s.blk \in 0 .. (NBlk + 1) - 1 /\ t.blk \in 0 .. (NBlk + 1) - 1
      BY <2>1, <2>2, TopologyAssumption
    <3>2. \A q1, q2 \in Nat, r1, r2 \in 0 .. NBlk :
            q1 * (NBlk + 1) + r1 = q2 * (NBlk + 1) + r2 => q1 = q2 /\ r1 = r2
      <4> TAKE q1, q2 \in Nat, r1, r2 \in 0 .. NBlk
      <4>1. NBlk + 1 \in Nat \ {0} /\ r1 \in 0 .. (NBlk + 1) - 1
            /\ r2 \in 0 .. (NBlk + 1) - 1
        BY TopologyAssumption
      <4>2. QED
        BY <4>1, QuotRemUnique
    <3>3. QED
      BY <2>1, <2>2, <2>3, <3>1, <3>2
  <2>5. s.card = t.card /\ s.cpu = t.cpu
    BY <2>1, <2>2, <2>4, TopologyAssumption, QuotRemUnique
  <2>6. QED
    BY <2>1, <2>2, <2>4, <2>5
<1>6. QED
  BY <1>1, <1>3, <1>4, <1>5

(***************************************************************************)
(* The invariant RInv.                                                     *)
(***************************************************************************)
\* Before the first updater nothing precedes it and nothing is fatal.
LEMMA InitRInv == Init => RInv
<1> SUFFICES ASSUME Init PROVE Walked /\ NoFatalWhileRunning
  BY InitTypeOK DEF RInv
<1>1. Walked
  <2> SUFFICES ASSUME NEW s \in Scopes, Idx(s) < Idx(cur) PROVE FALSE
    BY DEF Walked
  <2>1. Idx(cur) = 0
    BY DEF Init, Idx
  <2>2. QED
    BY <2>1, IdxBelowEnd
<1>2. NoFatalWhileRunning
  BY DEF Init, NoFatalWhileRunning, Pending, Fatal
<1>3. QED
  BY <1>1, <1>2

\* Running one option changes act only at the current updater, and only
\* to a fatal action when the run stops.
LEMMA ExecuteOptionRInv ==
  ASSUME RInv, NEW o \in Options, ExecuteOption(o)
  PROVE  Walked' /\ NoFatalWhileRunning'
<1> DEFINE e == xml[cur][o]
<1>1. cur \in Scopes /\ status = "running" /\ UNCHANGED cur
  BY DEF ExecuteOption, RInv, TypeOK
<1>2. PICK a \in Decide(mode, EncodeChanges(e)) :
        \/ a \in Fatal /\ Abort(o, a)
        \/ /\ a \notin Fatal
           /\ wrn' = (wrn \/ a = "wrn_apply_user")
           /\ \E v \in Candidates(a, e) : RunVcactl(o, a, v)
  BY DEF ExecuteOption
<1>3. \/ a \in Fatal /\ act' = [act EXCEPT ![cur][o] = a] /\ status' # "running"
      \/ a \notin Fatal /\ act' = [act EXCEPT ![cur][o] = a]
      \/ act' = act /\ status' # "running"
  BY <1>2 DEF Abort, RunVcactl, Fatal
<1>4. \A s \in Scopes, p \in Options : s # cur => act'[s][p] = act[s][p]
  BY <1>1, <1>3 DEF RInv, TypeOK
<1>5. Walked'
  <2> SUFFICES ASSUME NEW s \in Scopes, Idx(s) < Idx(cur), NEW p \in Options
               PROVE  Applied(s, p)'
    BY <1>1 DEF Walked
  <2>1. s # cur
    BY <1>1, IdxBelowEnd
  <2>2. QED
    BY <1>4, <2>1 DEF RInv, Walked, Applied
<1>6. NoFatalWhileRunning'
  <2> SUFFICES ASSUME status' = "running", NEW s \in Scopes, NEW p \in Options
               PROVE  act'[s][p] \notin Fatal
    BY DEF NoFatalWhileRunning
  <2>1. act[s][p] \notin Fatal
    BY <1>1 DEF RInv, NoFatalWhileRunning
  <2>2. QED
    BY <1>1, <1>3, <2>1 DEF RInv, TypeOK
<1>7. QED
  BY <1>5, <1>6

\* Every step of the driver keeps RInv.
LEMMA NextRInv == RInv /\ [Next]_vars => RInv'
<1> SUFFICES ASSUME RInv, [Next]_vars PROVE RInv'
  OBVIOUS
<1>1. TypeOK'
  BY NextTypeOK DEF RInv
<1>2. CASE \E o \in Options : ExecuteOption(o)
  BY <1>1, <1>2, ExecuteOptionRInv DEF RInv
<1>3. CASE NextUpdater
  <2>1. cur \in Scopes /\ status = "running"
        /\ \A p \in Options : act[cur][p] # Pending
        /\ cur' = NextScope(cur) /\ UNCHANGED <<act, status>>
    BY <1>3 DEF NextUpdater, RInv, TypeOK
  <2>2. Walked'
    <3> SUFFICES ASSUME NEW s \in Scopes, Idx(s) < Idx(cur) + 1,
                        NEW p \in Options
                 PROVE  Applied(s, p)'
      BY <2>1, IdxNextScope DEF Walked
    <3>1. Idx(s) \in Nat /\ Idx(cur) \in Nat
      BY <2>1, IdxBelowEnd
    <3>2. CASE Idx(s) < Idx(cur)
      BY <2>1, <3>2 DEF RInv, Walked, Applied
    <3>3. CASE Idx(s) = Idx(cur)
      <4>1. s = cur
        BY <2>1, <3>3, IdxInjective
      <4>2. act[s][p] \notin Fatal
        BY <2>1 DEF RInv, NoFatalWhileRunning
      <4>3. QED
        BY <2>1, <4>1, <4>2 DEF Applied
    <3>4. QED
      BY <3>1, <3>2, <3>3
  <2>3. QED
    BY <1>1, <2>1, <2>2 DEF RInv, NoFatalWhileRunning
<1>4. CASE Finish \/ Interrupt
  <2>1. status' # "running" /\ UNCHANGED <<cur, act>>
    BY <1>4 DEF Finish, Interrupt
  <2>2. QED
    BY <1>1, <2>1 DEF RInv, Walked, Applied, NoFatalWhileRunning
<1>5. CASE Exited \/ UNCHANGED vars
  <2>1. UNCHANGED <<cur, act, status>>
    BY <1>5 DEF Exited, vars
  <2>2. QED
    BY <1>1, <2>1 DEF RInv, Walked, Applied, NoFatalWhileRunning
<1>6. QED
  BY <1>2, <1>3, <1>4, <1>5 DEF Next

\* RInv holds in every reachable state.
THEOREM RInvCorrect == Spec => []RInv
BY InitRInv, NextRInv, PTL DEF Spec

(***************************************************************************)
(* The refinement.                                                         *)
(***************************************************************************)
\* The handled options, as the mapping Merge sees them.
Handled == {so \in Scopes \X Options : Applied(so[1], so[2])}

\* Recording action a on a Pending option adds it to the handled options
\* exactly when a is not fatal.
LEMMA RecordHandled ==
  ASSUME TypeOK, NEW o \in Options, cur \in Scopes, act[cur][o] = Pending,
         NEW a \in Outcomes, act' = [act EXCEPT ![cur][o] = a]
  PROVE  /\ a \notin Fatal => Handled' = Handled \cup {<<cur, o>>}
         /\ a \in Fatal => Handled' = Handled
<1>1. \A s \in Scopes, p \in Options :
        Applied(s, p)' = IF <<s, p>> = <<cur, o>> THEN a \notin Fatal
                         ELSE Applied(s, p)
  BY DEF TypeOK, Applied, Outcomes, Actions, Pending, Fatal
<1>2. ~Applied(cur, o)
  BY DEF Applied, Pending
<1>3. ASSUME a \notin Fatal PROVE Handled' = Handled \cup {<<cur, o>>}
  <2>1. ASSUME NEW so \in Scopes \X Options
        PROVE  Applied(so[1], so[2])' <=> so \in Handled \cup {<<cur, o>>}
    <3>1. so = <<so[1], so[2]>> /\ so[1] \in Scopes /\ so[2] \in Options
      OBVIOUS
    <3>2. QED
      BY <1>1, <1>3, <3>1 DEF Handled
  <2>2. <<cur, o>> \in Scopes \X Options
    OBVIOUS
  <2>3. QED
    BY <2>1, <2>2 DEF Handled
<1>4. ASSUME a \in Fatal PROVE Handled' = Handled
  <2>1. ASSUME NEW so \in Scopes \X Options
        PROVE  Applied(so[1], so[2])' <=> so \in Handled
    <3>1. so = <<so[1], so[2]>> /\ so[1] \in Scopes /\ so[2] \in Options
      OBVIOUS
    <3>2. QED
      BY <1>1, <1>2, <1>4, <3>1 DEF Handled
  <2>2. QED
    BY <2>1 DEF Handled
<1>5. QED
  BY <1>3, <1>4

\* MergeSpec's copy of ChangeState is ChangeState.
LEMMA SameChangeState ==
  /\ Merge!Modes = Modes /\ Merge!Value = Value /\ Merge!Entry = Entry
  /\ \A e : Merge!EncodeChanges(e) = EncodeChanges(e)
BY DEF Merge!Modes, Modes, Merge!Value, Value, Merge!Entry, Entry,
       Merge!EncodeChanges, EncodeChanges

\* The driver's first state is a first state of the abstract update.
LEMMA InitRefines == Init => Merge!Init
<1> SUFFICES ASSUME Init PROVE Merge!Init
  OBVIOUS
<1>1. TypeOK
  BY InitTypeOK
<1>2. {so \in Scopes \X Options : Applied(so[1], so[2])} = {}
  BY DEF Init, Applied, Pending, Fatal
<1>3. /\ xml \in [Scopes -> [Options -> Entry]] /\ mode \in Modes
      /\ debug \in BOOLEAN
      /\ cfg = [s \in Scopes |-> [p \in Options |-> xml[s][p].new]]
      /\ status = "running"
  BY <1>1 DEF Init, TypeOK
<1>4. QED
  BY <1>2, <1>3, SameChangeState DEF Merge!Init

\* Running one option is an abstract Apply of that option or an Abort.
LEMMA ExecuteOptionRefines ==
  ASSUME RInv, NEW o \in Options, ExecuteOption(o)
  PROVE  Merge!Apply(cur, o) \/ Merge!Abort
<1> DEFINE e == xml[cur][o]
<1>1. /\ cur \in Scopes /\ status = "running" /\ act[cur][o] = Pending
      /\ UNCHANGED <<xml, mode, debug, cur>> /\ e \in Entry /\ mode \in Modes
  BY DEF ExecuteOption, RInv, TypeOK
<1>2. PICK a \in Decide(mode, EncodeChanges(e)) :
        \/ a \in Fatal /\ Abort(o, a)
        \/ /\ a \notin Fatal
           /\ wrn' = (wrn \/ a = "wrn_apply_user")
           /\ \E v \in Candidates(a, e) : RunVcactl(o, a, v)
  BY DEF ExecuteOption
<1>3. a \in Outcomes
  BY <1>1, EncodeChangesType, DecideType
<1>4. TypeOK
  BY DEF RInv
\* A step that stops the run with act and cfg as they were, or with a
\* fatal action recorded, is an abstract Abort.
<1>5. ASSUME status' \notin {"running", "done"}, UNCHANGED cfg,
             Handled' = Handled
      PROVE  Merge!Abort
  BY <1>1, <1>5 DEF Merge!Abort, Handled
<1>6. CASE a \in Fatal
  <2>1. act' = [act EXCEPT ![cur][o] = a] /\ status' = a /\ UNCHANGED cfg
    BY <1>2, <1>6 DEF Abort
  <2>2. Handled' = Handled
    BY <1>1, <1>3, <1>4, <1>6, <2>1, RecordHandled
  <2>3. QED
    BY <1>5, <1>6, <2>1, <2>2 DEF Fatal
<1>7. CASE a \notin Fatal
  <2>1. PICK v \in Candidates(a, e) : RunVcactl(o, a, v)
    BY <1>2, <1>7
  <2>2. CASE a = "new_usr" /\ status' = "crash" /\ UNCHANGED <<act, cfg>>
    BY <1>5, <2>2 DEF Handled, Applied
  <2>3. CASE ~debug /\ status' = "vcactl_error" /\ UNCHANGED <<act, cfg>>
    BY <1>5, <2>3 DEF Handled, Applied
  <2>4. CASE act' = [act EXCEPT ![cur][o] = a] /\ UNCHANGED status
             /\ (\/ debug /\ UNCHANGED cfg
                 \/ ~debug /\ cfg' = [cfg EXCEPT ![cur][o] = v])
    <3>1. Handled' = Handled \cup {<<cur, o>>}
      BY <1>1, <1>3, <1>4, <1>7, <2>4, RecordHandled
    <3>2. <<cur, o>> \notin Handled
      BY <1>1 DEF Handled, Applied, Pending
    <3>3. v \in IF Merge!Prompted(mode, e) THEN Value
                ELSE {Merge!MergedValue(e)}
      <4>1. CASE Merge!Prompted(mode, e)
        <5>1. a \in Outcomes \ (Fatal \cup {"new_usr"}) => ChooseValue(a, e) \in Value
          BY <1>1, ChooseValueType
        <5>2. QED
          BY <1>3, <1>7, <2>1, <4>1, <5>1, SameChangeState
             DEF Candidates, Value
      <4>2. CASE ~Merge!Prompted(mode, e)
        <5>1. Unattended(mode, e)
          <6>1. mode # "manual"
            BY <4>2 DEF Merge!Prompted
          <6>2. mode = "semi-auto" => EncodeChanges(e) \notin Contested
            BY <4>2, SameChangeState DEF Merge!Prompted, Contested
          <6>3. QED
            BY <1>1, <6>1, <6>2 DEF Unattended, Modes
        <5>2. CASE mode = "full-auto"
          <6>1. a \in FullDecide(EncodeChanges(e)) \ Fatal
            BY <1>2, <1>7, <5>2 DEF Decide
          <6>2. a # "new_usr" /\ ChooseValue(a, e) = MergeValue(e)
            BY <1>1, <6>1, FullAutoResolvesToMerge
          <6>3. QED
            BY <2>1, <4>2, <6>2 DEF Candidates, MergeValue, Merge!MergedValue
        <5>3. CASE mode = "semi-auto"
          <6>1. a \in SemiDecide(EncodeChanges(e)) \ Fatal
            BY <1>2, <1>7, <5>3 DEF Decide
          <6>2. EncodeChanges(e) \notin Contested
            BY <5>1, <5>3 DEF Unattended
          <6>3. a # "new_usr" /\ ChooseValue(a, e) = MergeValue(e)
            BY <1>1, <6>1, <6>2, SemiAutoResolvesToMerge
          <6>4. QED
            BY <2>1, <4>2, <6>3 DEF Candidates, MergeValue, Merge!MergedValue
        <5>4. QED
          BY <5>1, <5>2, <5>3 DEF Unattended
      <4>3. QED
        BY <4>1, <4>2
    <3>4. QED
      BY <1>1, <2>4, <3>1, <3>2, <3>3, SameChangeState DEF Merge!Apply, Handled
  <2>5. QED
    BY <2>1, <2>2, <2>3, <2>4 DEF RunVcactl
<1>8. QED
  BY <1>6, <1>7

\* Exit 0 comes only after every option of every updater was handled.
LEMMA FinishRefines ==
  ASSUME RInv, Finish
  PROVE  Merge!Finish
<1>1. cur = EndOfList /\ status = "running" /\ status' = "done"
      /\ UNCHANGED <<xml, mode, debug, act, cfg>>
  BY DEF Finish
<1>2. \A s \in Scopes, p \in Options : Applied(s, p)
  BY <1>1, IdxBelowEnd DEF RInv, Walked
<1>3. Handled = Scopes \X Options /\ Handled' = Handled
  BY <1>1, <1>2 DEF Handled, Applied
<1>4. QED
  BY <1>1, <1>3 DEF Merge!Finish, Handled

\* Every step of the driver is a step of the abstract update or leaves its
\* variables alone.
LEMMA NextRefines == RInv /\ [Next]_vars => [Merge!Next]_Merge!vars
<1> SUFFICES ASSUME RInv, [Next]_vars PROVE [Merge!Next]_Merge!vars
  OBVIOUS
<1>1. CASE \E o \in Options : ExecuteOption(o)
  <2>1. PICK o \in Options : ExecuteOption(o)
    BY <1>1
  <2>2. cur \in Scopes
    BY <2>1 DEF ExecuteOption, RInv, TypeOK
  <2>3. QED
    BY <2>1, <2>2, ExecuteOptionRefines DEF Merge!Next
<1>2. CASE NextUpdater \/ Exited \/ UNCHANGED vars
  <2>1. UNCHANGED <<xml, mode, debug, act, cfg, status>>
    BY <1>2 DEF NextUpdater, Exited, vars
  <2>2. QED
    BY <2>1 DEF Merge!vars, Applied
<1>3. CASE Finish
  BY <1>3, FinishRefines DEF Merge!Next
<1>4. CASE Interrupt
  <2>1. status = "running" /\ status' = "sigint"
        /\ UNCHANGED <<xml, mode, debug, act, cfg>>
    BY <1>4 DEF Interrupt
  <2>2. Merge!Abort
    BY <2>1 DEF Merge!Abort, Applied
  <2>3. QED
    BY <2>2 DEF Merge!Next
<1>5. QED
  BY <1>1, <1>2, <1>3, <1>4 DEF Next

\* The driver implements MergeSpec, for every topology, option set and set
\* of triples: every run of make_config.py's updaters (the strategies,
\* __choose_value, __run_vcactl and the main loop) writes each option at
\* most once, with the merge wherever the operator is not asked, nothing in
\* debug mode, and exits 0 only after every option of every updater.
THEOREM Refinement == Spec => MergeRefinement
<1>1. Init => Merge!Init
  BY InitRefines
<1>2. RInv /\ [Next]_vars => [Merge!Next]_Merge!vars
  BY NextRefines
<1>3. QED
  BY <1>1, <1>2, RInvCorrect, PTL DEF Spec, MergeRefinement, Merge!Spec

====
