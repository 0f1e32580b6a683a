----------------------- MODULE BasisConversionProofs -----------------------
(***************************************************************************)
(* Theorems about BasisConversion, for every table, every order in which   *)
(* it is iterated, every native set and every kernel; and then on the      *)
(* decomposition table of the repository, or any part of it, where the     *)
(* hypotheses of these theorems follow from what the rules emit.           *)
(***************************************************************************)
EXTENDS BasisConversion, DecompositionRulesProofs, FiniteSetTheorems, TLAPS

(***************************************************************************)
(* Type correctness.                                                       *)
(***************************************************************************)

\* The walk has not begun while the sweeps run.
WalkNotBegun ==
  pc = "sweep" =>
    round = 0 /\ pending = input /\ visited = <<>> /\ ~failed /\ ~gaveUp

\* What is emitted for a gate of a mnemonic in the table is a sequence of gates.
LEMMA EmitType ==
  ASSUME NEW m \in Entries, NEW r \in 1..Len(Table[m]), NEW g \in Gate,
         Classify(g) = m
  PROVE  Emit(Table[m][r], g) \in Seq(Gate)
BY EmitAssumption

\* An entry of the sweep is a mnemonic of the table.
LEMMA OrderType ==
  ASSUME TypeOK, pos <= Len(order)
  PROVE  order \in Seq(Entries) /\ pos \in 1..Len(order) /\ order[pos] \in Entries
<1>1. order \in Seq(Entries)
  BY OrdersAssumption DEF TypeOK
<1>2. pos \in 1..Len(order)
  BY <1>1 DEF TypeOK
<1> QED
  BY <1>1, <1>2

\* The variables have their types in the initial states, and every step keeps them.
LEMMA TypeInit == Init => TypeOK /\ WalkNotBegun
<1> SUFFICES ASSUME Init PROVE TypeOK /\ WalkNotBegun
  OBVIOUS
<1>1. input \in Seq(Gate) /\ <<>> \in Seq(Gate)
  BY KernelsAssumption DEF Init
<1>2. 1 \in 1..(Len(order) + 1)
  BY OrdersAssumption DEF Init
<1>3. \A m \in Entries : 0 \in 0..Len(Table[m])
  BY TableAssumption
<1>4. 0 \in 0..(MaxRounds - 1)
  BY MaxRoundsAssumption
<1>5. TypeOK
  BY <1>1, <1>2, <1>3, <1>4 DEF Init, TypeOK
<1>6. WalkNotBegun
  BY DEF Init, WalkNotBegun
<1> QED
  BY <1>5, <1>6

LEMMA TypeStep ==
  ASSUME TypeOK, WalkNotBegun, [Next]_vars
  PROVE  TypeOK' /\ WalkNotBegun'
<1> USE DEF TypeOK, WalkNotBegun, inputVars, sweepVars, walkVars
<1>1. CASE SkipEntry
  BY <1>1, OrderType DEF SkipEntry
<1>2. CASE TakeWitness
  <2>0. pos <= Len(order)
    BY <1>2 DEF TakeWitness
  <2>1. order \in Seq(Entries) /\ pos \in 1..Len(order) /\ order[pos] \in Entries
    BY <2>0, OrderType
  <2>3. Len(Table[order[pos]]) \in Nat
    BY <2>1, TableAssumption
  <2>2. PICK r \in 1..Len(Table[order[pos]]) :
          witness' = [witness EXCEPT ![order[pos]] = r]
    BY <1>2 DEF TakeWitness, ResolvableRules
  <2>4. /\ witness' \in [Entries -> Nat]
        /\ \A m \in Entries : witness'[m] \in 0..Len(Table[m])
    <3>1. witness \in [Entries -> Nat] /\ \A m \in Entries : witness[m] \in 0..Len(Table[m])
      OBVIOUS
    <3>2. r \in Nat /\ r \in 0..Len(Table[order[pos]])
      BY <2>3
    <3>3. witness' \in [Entries -> Nat]
      BY <2>1, <2>2, <3>1, <3>2, Zenon
    <3>4. ASSUME NEW m \in Entries
          PROVE  witness'[m] \in 0..Len(Table[m])
      <4>1. CASE m = order[pos]
        <5>1. witness'[m] = r
          BY <2>1, <2>2, <3>1, <4>1, Zenon
        <5> QED
          BY <3>2, <4>1, <5>1, Zenon
      <4>2. CASE m # order[pos]
        <5>1. witness'[m] = witness[m]
          BY <2>1, <2>2, <3>1, <4>2, Zenon
        <5> QED
          BY <3>1, <5>1, Zenon
      <4> QED
        BY <4>1, <4>2
    <3> QED
      BY <3>3, <3>4, Zenon
  <2>5. rank' \in [Entries -> Nat] /\ assigned' \in Nat
    <3>1. rank' = [rank EXCEPT ![order[pos]] = assigned + 1] /\ assigned' = assigned + 1
      BY <1>2 DEF TakeWitness
    <3>2. rank \in [Entries -> Nat] /\ assigned \in Nat
      OBVIOUS
    <3>3. assigned + 1 \in Nat
      BY <3>2
    <3> QED
      BY <2>1, <3>1, <3>2, <3>3, Zenon
  <2>6. pos' \in 1..(Len(order') + 1)
    BY <1>2, <2>1 DEF TakeWitness
  <2> QED
    BY <1>2, <2>4, <2>5, <2>6 DEF TakeWitness
<1>3. CASE NextSweep
  <2>1. order \in Seq(Entries)
    BY OrdersAssumption
  <2>2. order' = order /\ pos' = 1
    BY <1>3 DEF NextSweep
  <2>3. pos' \in 1..(Len(order') + 1)
    BY <2>1, <2>2
  <2> QED
    BY <1>3, <2>3 DEF NextSweep
<1>4. CASE WitnessesDone
  BY <1>4 DEF WitnessesDone
<1>5. CASE KeepOp
  BY <1>5 DEF KeepOp, This
<1>6. CASE RejectOp
  BY <1>6 DEF RejectOp, This
<1>7. CASE RewriteOp
  <2>1. This \in Gate /\ Tail(pending) \in Seq(Gate)
    <3>1. pending \in Seq(Gate) /\ pending # <<>>
      BY <1>7 DEF RewriteOp
    <3> QED
      BY <3>1 DEF This
  <2>2. Classify(This) \in Entries /\ witness[Classify(This)] \in 1..Len(Table[Classify(This)])
    <3>1. Len(Table[Classify(This)]) \in Nat
      BY <1>7, TableAssumption DEF RewriteOp
    <3> QED
      BY <1>7, <3>1 DEF RewriteOp
  <2>3. Emit(Table[Classify(This)][witness[Classify(This)]], This) \in Seq(Gate)
    BY <2>1, <2>2, EmitType
  <2>4. visited' \in Seq(Gate)
    BY <1>7, <2>3 DEF RewriteOp
  <2> QED
    BY <1>7, <2>1, <2>4 DEF RewriteOp
<1>8. CASE FixedPoint
  BY <1>8 DEF FixedPoint
<1>9. CASE NextRound
  <2>1. round' \in 0..(MaxRounds - 1)
    BY <1>9, MaxRoundsAssumption DEF NextRound
  <2>2. visited' \in Seq(Gate) /\ pending' \in Seq(Gate)
    BY <1>9 DEF NextRound
  <2> QED
    BY <1>9, <2>1, <2>2 DEF NextRound
<1>10. CASE GiveUp
  BY <1>10 DEF GiveUp
<1>11. CASE UNCHANGED vars
  BY <1>11 DEF vars
<1> QED
  BY <1>1, <1>2, <1>3, <1>4, <1>5, <1>6, <1>7, <1>8, <1>9, <1>10, <1>11
     DEF Next, Sweep, Walk, Done

\* Every variable of the pass keeps its type.
THEOREM TypeCorrect == Spec => []TypeOK
<1>1. TypeOK /\ WalkNotBegun /\ [Next]_vars => (TypeOK /\ WalkNotBegun)'
  BY TypeStep
<1> QED
  BY <1>1, TypeInit, PTL DEF Spec

-----------------------------------------------------------------------------
(***************************************************************************)
(* The sweeps of computeWitnesses.                                         *)
(***************************************************************************)

\* What TakeWitness does to the entry m it has reached.
Takes(m, r) ==
  /\ m \in Entries
  /\ ~Resolved(native, witness, m)
  /\ r \in 1..Len(Table[m])
  /\ \A p \in Table[m][r].produces : Resolved(native, witness, p)
  /\ witness' = [witness EXCEPT ![m] = r]
  /\ rank' = [rank EXCEPT ![m] = assigned + 1]
  /\ assigned' = assigned + 1

LEMMA TakeWitnessFacts ==
  ASSUME TypeOK, TakeWitness
  PROVE  \E r \in Nat \ {0} : Takes(order[pos], r)
<1>1. order[pos] \in Entries
  BY OrderType DEF TakeWitness
<1>2. Len(Table[order[pos]]) \in Nat
  BY <1>1, TableAssumption
<1>3. PICK r \in ResolvableRules(native, witness, order[pos]) :
        witness' = [witness EXCEPT ![order[pos]] = r]
  BY DEF TakeWitness
<1>4. /\ r \in 1..Len(Table[order[pos]])
      /\ \A p \in Table[order[pos]][r].produces : Resolved(native, witness, p)
  BY DEF ResolvableRules
<1>5. Takes(order[pos], r)
  BY <1>1, <1>3, <1>4 DEF TakeWitness, Takes
<1> QED
  BY <1>2, <1>4, <1>5

\* Every other step leaves the witnesses, their ranks and the native set alone.
LEMMA OtherSteps ==
  ASSUME [Next]_vars, ~TakeWitness
  PROVE  UNCHANGED <<witness, rank, assigned>>
<1> USE DEF inputVars, sweepVars, walkVars
<1>1. CASE SkipEntry \/ NextSweep \/ WitnessesDone
  BY <1>1 DEF SkipEntry, NextSweep, WitnessesDone
<1>2. CASE Walk
  BY <1>2 DEF Walk, KeepOp, RejectOp, RewriteOp, FixedPoint, NextRound, GiveUp
<1>3. CASE UNCHANGED vars
  BY <1>3 DEF vars
<1> QED
  BY <1>1, <1>2, <1>3 DEF Next, Sweep, Done

LEMMA InputsAreFixed ==
  ASSUME [Next]_vars
  PROVE  UNCHANGED <<native, order, input>>
<1> USE DEF inputVars, sweepVars, walkVars
<1>1. CASE Sweep
  BY <1>1 DEF Sweep, SkipEntry, TakeWitness, NextSweep, WitnessesDone
<1>2. CASE Walk
  BY <1>2 DEF Walk, KeepOp, RejectOp, RewriteOp, FixedPoint, NextRound, GiveUp
<1>3. CASE UNCHANGED vars
  BY <1>3 DEF vars
<1> QED
  BY <1>1, <1>2, <1>3 DEF Next, Done

\* The auxiliary variables say when a witness was taken.
RanksAreTimes ==
  \A m \in Entries : (witness[m] # 0 <=> rank[m] # 0) /\ rank[m] <= assigned

LEMMA RankStep ==
  ASSUME TypeOK, RanksAreTimes, WitnessesAreRanked, [Next]_vars
  PROVE  RanksAreTimes' /\ WitnessesAreRanked'
<1>1. native' = native
  BY InputsAreFixed
<1>2. CASE ~TakeWitness
  BY <1>1, <1>2, OtherSteps DEF RanksAreTimes, WitnessesAreRanked
<1>3. CASE TakeWitness
  <2>1. PICK r \in Nat \ {0} : Takes(order[pos], r)
    BY <1>3, TakeWitnessFacts
  <2> DEFINE e == order[pos]
  <2>2. /\ witness \in [Entries -> Nat] /\ rank \in [Entries -> Nat] /\ assigned \in Nat
        /\ e \in Entries /\ witness[e] = 0 /\ rank[e] = 0
    BY <2>1 DEF TypeOK, Takes, Resolved, RanksAreTimes
  <2>3. /\ witness'[e] = r /\ rank'[e] = assigned + 1 /\ assigned' = assigned + 1
        /\ \A m \in Entries \ {e} : witness'[m] = witness[m] /\ rank'[m] = rank[m]
    BY <2>1, <2>2 DEF Takes
  <2> HIDE DEF e
  <2>4. RanksAreTimes'
    BY <2>2, <2>3 DEF RanksAreTimes
  <2>5. ASSUME NEW m \in Entries, witness'[m] # 0
        PROVE  /\ ~IsNative(native, m)
               /\ \A p \in Table[m][witness'[m]].produces :
                    IsNative(native, p) \/ (p \in Entries /\ rank'[p] \in 1..(rank'[m] - 1))
    <3>1. CASE m = e
      <4>1. ~IsNative(native, e) /\ \A p \in Table[e][r].produces : Resolved(native, witness, p)
        BY <2>1 DEF Takes, Resolved, e
      <4>2. ASSUME NEW p \in Entries, witness[p] # 0
            PROVE  rank'[p] \in 1..(rank'[e] - 1)
        BY <2>2, <2>3, <4>2 DEF RanksAreTimes
      <4> QED
        BY <2>3, <3>1, <4>1, <4>2 DEF Resolved
    <3>2. CASE m # e
      <4>1. witness'[m] = witness[m] /\ rank'[m] = rank[m] /\ witness[m] # 0
        BY <2>3, <2>5, <3>2
      <4>2. ASSUME NEW p \in Entries, rank[p] \in 1..(rank[m] - 1)
            PROVE  rank'[p] \in 1..(rank'[m] - 1)
        BY <2>2, <2>3, <4>1, <4>2
      <4> QED
        BY <4>1, <4>2 DEF WitnessesAreRanked
    <3> QED
      BY <3>1, <3>2
  <2> QED
    BY <1>1, <2>4, <2>5 DEF WitnessesAreRanked
<1> QED
  BY <1>2, <1>3

LEMMA RanksAreKept == Spec => [](RanksAreTimes /\ WitnessesAreRanked)
<1>1. Init => RanksAreTimes /\ WitnessesAreRanked
  BY DEF Init, RanksAreTimes, WitnessesAreRanked
<1>2. TypeOK /\ RanksAreTimes /\ WitnessesAreRanked /\ [Next]_vars
        => (RanksAreTimes /\ WitnessesAreRanked)'
  BY RankStep
<1> QED
  BY <1>1, <1>2, TypeCorrect, PTL DEF Spec

\* A witness bottoms out: the mnemonics its rule produces are native, or were
\* given their own witnesses before it.
THEOREM Ranked == Spec => []WitnessesAreRanked
BY RanksAreKept, PTL

-----------------------------------------------------------------------------
(***************************************************************************)
(* The fixed point.  No witness leaves a closed set (soundness), and a     *)
(* sweep that has changed nothing so far has settled every entry it passed *)
(* (completeness).                                                         *)
(***************************************************************************)
StaysInClosedSets ==
  \A S \in SUBSET Entries :
    IsClosed(native, S) => \A m \in Entries : Resolved(native, witness, m) => m \in S

Settled(m) == Resolved(native, witness, m) \/ ResolvableRules(native, witness, m) = {}

PassedAreSettled ==
  /\ pc = "sweep" /\ ~changed => \A i \in 1..Len(order) : i < pos => Settled(order[i])
  /\ pc # "sweep" => \A m \in Entries : Settled(m)

LEMMA SoundStep ==
  ASSUME TypeOK, StaysInClosedSets, [Next]_vars
  PROVE  StaysInClosedSets'
<1>1. native' = native
  BY InputsAreFixed
<1>2. CASE ~TakeWitness
  BY <1>1, <1>2, OtherSteps DEF StaysInClosedSets, Resolved
<1>3. CASE TakeWitness
  <2>1. PICK r \in Nat \ {0} : Takes(order[pos], r)
    BY <1>3, TakeWitnessFacts
  <2> DEFINE e == order[pos]
  <2> SUFFICES ASSUME NEW S \in SUBSET Entries, IsClosed(native, S),
                      NEW m \in Entries, Resolved(native, witness', m)
               PROVE  m \in S
    BY <1>1 DEF StaysInClosedSets, Resolved, IsClosed
  <2>2. \A p \in Entries : Resolved(native, witness, p) => p \in S
    BY DEF StaysInClosedSets
  <2>3. CASE m = e
    <3>1. /\ e \in Entries /\ ~IsNative(native, e) /\ r \in 1..Len(Table[e])
          /\ \A p \in Table[e][r].produces : Resolved(native, witness, p)
      BY <2>1 DEF Takes, Resolved
    <3>2. \A p \in Table[e][r].produces : IsNative(native, p) \/ p \in S
      BY <2>2, <3>1 DEF Resolved
    <3> QED
      BY <2>3, <3>1, <3>2 DEF IsClosed
  <2>4. CASE m # e
    <3>1. witness'[m] = witness[m]
      BY <2>1, <2>4 DEF Takes, TypeOK
    <3> QED
      BY <2>2, <3>1 DEF Resolved
  <2> QED
    BY <2>3, <2>4
<1> QED
  BY <1>2, <1>3

LEMMA SettledStep ==
  ASSUME TypeOK, PassedAreSettled, [Next]_vars
  PROVE  PassedAreSettled'
<1> USE DEF inputVars, sweepVars, walkVars
<1>1. native' = native /\ order' = order
  BY InputsAreFixed
<1>2. order \in Seq(Entries) /\ pos \in 1..(Len(order) + 1)
  BY OrdersAssumption DEF TypeOK
<1>3. CASE SkipEntry
  <2>1. /\ pc = "sweep" /\ pc' = pc /\ changed' = changed /\ witness' = witness
        /\ pos' = pos + 1 /\ Settled(order[pos])
    BY <1>3 DEF SkipEntry, Settled
  <2>2. ASSUME ~changed, NEW i \in 1..Len(order), i < pos + 1
        PROVE  Settled(order[i])
    <3>1. i < pos \/ i = pos
      BY <1>2, <2>2
    <3> QED
      BY <2>1, <2>2, <3>1 DEF PassedAreSettled
  <2> QED
    BY <1>1, <2>1, <2>2 DEF PassedAreSettled, Settled
<1>4. CASE TakeWitness
  BY <1>4 DEF TakeWitness, PassedAreSettled
<1>5. CASE NextSweep
  <2>1. pc' = "sweep" /\ pos' = 1
    BY <1>5 DEF NextSweep
  <2> QED
    BY <2>1 DEF PassedAreSettled
<1>6. CASE WitnessesDone
  <2>1. /\ pc = "sweep" /\ pc' = "walk" /\ ~changed /\ pos > Len(order)
        /\ witness' = witness
    BY <1>6 DEF WitnessesDone
  <2>2. ASSUME NEW m \in Entries PROVE Settled(m)
    <3>1. PICK i \in 1..Len(order) : order[i] = m
      BY OrdersAssumption DEF TypeOK
    <3>2. i < pos
      BY <1>2, <2>1
    <3> QED
      BY <2>1, <3>1, <3>2 DEF PassedAreSettled
  <2> QED
    BY <1>1, <2>1, <2>2 DEF PassedAreSettled, Settled
<1>7. CASE Walk
  <2>1. pc = "walk" /\ pc' \in {"walk", "done"} /\ witness' = witness
    BY <1>7 DEF Walk, KeepOp, RejectOp, RewriteOp, FixedPoint, NextRound, GiveUp
  <2> QED
    BY <1>1, <2>1 DEF PassedAreSettled, Settled
<1>8. CASE UNCHANGED vars
  BY <1>8 DEF vars, PassedAreSettled, Settled
<1> QED
  BY <1>3, <1>4, <1>5, <1>6, <1>7, <1>8 DEF Next, Sweep, Done

\* Once no entry can be given a witness any more, the resolved ones are closed.
LEMMA SettledIsClosed ==
  ASSUME \A m \in Entries : Settled(m)
  PROVE  IsClosed(native, {m \in Entries : Resolved(native, witness, m)})
BY DEF Settled, ResolvableRules, IsClosed, Resolved

LEMMA FixedPointIsLeast ==
  ASSUME StaysInClosedSets, PassedAreSettled
  PROVE  WitnessesAreComplete
<1> SUFFICES ASSUME pc # "sweep"
             PROVE  {m \in Entries : Resolved(native, witness, m)} = Legalizable(native)
  BY DEF WitnessesAreComplete
<1> DEFINE R == {m \in Entries : Resolved(native, witness, m)}
<1>1. IsClosed(native, R) /\ R \in SUBSET Entries
  BY SettledIsClosed DEF PassedAreSettled
<1>2. Legalizable(native) \subseteq R
  BY <1>1 DEF Legalizable
<1>3. R \subseteq Legalizable(native)
  BY DEF Legalizable, StaysInClosedSets
<1> QED
  BY <1>2, <1>3

\* The sweeps find exactly the mnemonics that can be legalized: the result does
\* not depend on the order in which the hash table is iterated.
THEOREM Complete == Spec => []WitnessesAreComplete
<1>1. Init => StaysInClosedSets
  BY DEF Init, StaysInClosedSets, Resolved, IsClosed
<1>2. Init => PassedAreSettled
  BY OrdersAssumption DEF Init, PassedAreSettled
<1>3. TypeOK /\ StaysInClosedSets /\ PassedAreSettled /\ [Next]_vars
        => (StaysInClosedSets /\ PassedAreSettled)'
  BY SoundStep, SettledStep
<1>4. StaysInClosedSets /\ PassedAreSettled => WitnessesAreComplete
  BY FixedPointIsLeast
<1> QED
  BY <1>1, <1>2, <1>3, <1>4, TypeCorrect, PTL DEF Spec

-----------------------------------------------------------------------------
(***************************************************************************)
(* The rounds of runOnOperation.  What they achieve rests on the rewrite   *)
(* functions, which are constants here: EmitsResolvable is the hypothesis. *)
(***************************************************************************)

\* The operations of a kernel.
Ops(s) == {s[i] : i \in 1..Len(s)}

LEMMA OpsAppend ==
  ASSUME NEW s \in Seq(Gate), NEW g \in Gate
  PROVE  Ops(Append(s, g)) = Ops(s) \cup {g}
<1>1. /\ Len(Append(s, g)) = Len(s) + 1 /\ Append(s, g)[Len(s) + 1] = g
      /\ \A i \in 1..Len(s) : Append(s, g)[i] = s[i]
  OBVIOUS
<1>2. Len(s) \in Nat
  OBVIOUS
<1> QED
  BY <1>1, <1>2 DEF Ops

LEMMA OpsConcat ==
  ASSUME NEW s \in Seq(Gate), NEW t \in Seq(Gate)
  PROVE  Ops(s \o t) = Ops(s) \cup Ops(t)
<1>1. /\ Len(s \o t) = Len(s) + Len(t)
      /\ \A i \in 1..Len(s) : (s \o t)[i] = s[i]
      /\ \A i \in 1..Len(t) : (s \o t)[Len(s) + i] = t[i]
  OBVIOUS
<1>2. Len(s) \in Nat /\ Len(t) \in Nat
  OBVIOUS
<1>3. Ops(s) \subseteq Ops(s \o t)
  BY <1>1, <1>2 DEF Ops
<1>4. Ops(t) \subseteq Ops(s \o t)
  BY <1>1, <1>2 DEF Ops
<1>5. ASSUME NEW i \in 1..Len(s \o t)
      PROVE  (s \o t)[i] \in Ops(s) \cup Ops(t)
  <2>1. CASE i \in 1..Len(s)
    BY <1>1, <2>1 DEF Ops
  <2>2. CASE i \notin 1..Len(s)
    <3>1. i - Len(s) \in 1..Len(t) /\ i = Len(s) + (i - Len(s))
      BY <1>1, <1>2, <2>2
    <3> QED
      BY <1>1, <3>1 DEF Ops
  <2> QED
    BY <2>1, <2>2
<1> QED
  BY <1>3, <1>4, <1>5 DEF Ops

LEMMA OpsTail ==
  ASSUME NEW s \in Seq(Gate), s # <<>>
  PROVE  Ops(s) = {Head(s)} \cup Ops(Tail(s)) /\ Head(s) \in Gate
<1>1. /\ Len(s) \in Nat \ {0} /\ Len(Tail(s)) = Len(s) - 1 /\ Head(s) = s[1]
      /\ \A i \in 1..(Len(s) - 1) : Tail(s)[i] = s[i + 1]
  OBVIOUS
<1>2. ASSUME NEW i \in 1..Len(s), i # 1
      PROVE  s[i] \in Ops(Tail(s))
  <2>1. i - 1 \in 1..(Len(s) - 1) /\ (i - 1) + 1 = i
    BY <1>1, <1>2
  <2> QED
    BY <1>1, <2>1 DEF Ops
<1>3. \A i \in 1..Len(Tail(s)) : Tail(s)[i] \in Ops(s)
  BY <1>1 DEF Ops
<1> QED
  BY <1>1, <1>2, <1>3 DEF Ops

LEMMA OpsEmpty == Ops(<<>>) = {}
BY DEF Ops

-----------------------------------------------------------------------------
\* Operations that will be left as they are, or make the pass fail.
IsDone(g) == IsForeign(g) \/ IsLegal(native, g)
Stuck(k)  == \E g \in Ops(k) : CannotLegalize(g)

\* A walking step keeps the inputs and the witnesses.
LEMMA WalkFrame ==
  ASSUME Walk
  PROVE  /\ UNCHANGED <<native, input, witness>>
         /\ \A g : CannotLegalize(g)' <=> CannotLegalize(g)
         /\ \A g : IsDone(g)' <=> IsDone(g)
         /\ pc = "walk" /\ pc' \in {"walk", "done"}
<1>1. UNCHANGED <<native, input, witness>> /\ pc = "walk" /\ pc' \in {"walk", "done"}
  BY DEF Walk, KeepOp, RejectOp, RewriteOp, FixedPoint, NextRound, GiveUp,
         inputVars, sweepVars, walkVars
<1> QED
  BY <1>1 DEF CannotLegalize, Resolved, IsDone, IsForeign, IsLegal

\* An operation is taken from pending, and new is left in its place.
Takes1(new) ==
  /\ Walk /\ pc = "walk" /\ pc' = "walk" /\ round' = round
  /\ pending # <<>> /\ pending' = Tail(pending) /\ This \in Gate
  /\ new \in Seq(Gate) /\ visited' = visited \o new

LEMMA TakesOps ==
  ASSUME TypeOK, NEW new, Takes1(new)
  PROVE  /\ Ops(pending) = {This} \cup Ops(pending)' /\ Ops(visited)' = Ops(visited) \cup Ops(new)
         /\ Ops(input)' = Ops(input)
<1>1. /\ Ops(pending) = {This} \cup Ops(pending') /\ Ops(visited') = Ops(visited) \cup Ops(new)
  BY OpsTail, OpsConcat DEF TypeOK, This, Takes1
<1> QED
  BY <1>1, WalkFrame DEF Takes1, Ops

LEMMA KeepTakes ==
  ASSUME TypeOK, KeepOp \/ RejectOp
  PROVE  Takes1(<<This>>) /\ Ops(<<This>>) = {This} /\ changed' = changed
<1>1. /\ Walk /\ pc = "walk" /\ pc' = "walk" /\ round' = round /\ changed' = changed
      /\ pending # <<>> /\ pending' = Tail(pending) /\ visited' = Append(visited, This)
  BY DEF KeepOp, RejectOp, Walk, walkVars
<1>2. This \in Gate /\ visited \in Seq(Gate)
  BY <1>1, OpsTail DEF TypeOK, This
<1>3. Append(visited, This) = visited \o <<This>> /\ <<This>> \in Seq(Gate)
  BY <1>2
<1>4. Ops(<<This>>) = {This}
  BY DEF Ops
<1> QED
  BY <1>1, <1>2, <1>3, <1>4 DEF Takes1

LEMMA RewriteTakes ==
  ASSUME TypeOK, RewriteOp
  PROVE  /\ Takes1(Replacement(This)) /\ Witnessed(This) /\ changed' /\ failed' = failed
         /\ ~CannotLegalize(This)
<1>1. /\ Walk /\ pc = "walk" /\ pc' = "walk" /\ round' = round /\ changed' /\ failed' = failed
      /\ pending # <<>> /\ pending' = Tail(pending) /\ visited' = visited \o Replacement(This)
      /\ Witnessed(This) /\ ~CannotLegalize(This)
  BY DEF RewriteOp, Walk, walkVars, Witnessed, Replacement, CannotLegalize, Resolved
<1>2. This \in Gate
  BY <1>1, OpsTail DEF TypeOK, This
<1>3. Replacement(This) \in Seq(Gate)
  <2>1. Len(Table[Classify(This)]) \in Nat
    BY <1>1, TableAssumption DEF Witnessed
  <2>2. witness[Classify(This)] \in 1..Len(Table[Classify(This)])
    BY <1>1, <2>1 DEF Witnessed, TypeOK
  <2> QED
    BY <1>1, <1>2, <2>2, EmitType DEF Witnessed, Replacement
<1> QED
  BY <1>1, <1>2, <1>3 DEF Takes1

\* What a rule says when the walk begins stays true while it runs.
LEMMA SaidAtTheStart ==
  ASSUME TypeOK, WalkNotBegun, [Next]_vars, pc' # "sweep"
  PROVE  \/ WalkBegins'
         \/ /\ pc # "sweep" /\ UNCHANGED <<native, witness>>
            /\ \A g : /\ Witnessed(g)' <=> Witnessed(g)
                      /\ Replacement(g)' = Replacement(g)
                      /\ Ops(Replacement(g))' = Ops(Replacement(g))
                      /\ CannotLegalize(g)' <=> CannotLegalize(g)
<1> USE DEF inputVars, sweepVars, walkVars
<1>1. CASE WitnessesDone
  BY <1>1 DEF WitnessesDone, WalkNotBegun, WalkBegins
<1>2. CASE Walk \/ UNCHANGED vars
  <2>1. UNCHANGED <<native, witness>> /\ (pc = "sweep" => pc' = "sweep")
    BY <1>2, WalkFrame DEF vars
  <2> QED
    BY <2>1 DEF Witnessed, Replacement, Ops, CannotLegalize, Resolved
<1>3. CASE SkipEntry \/ TakeWitness \/ NextSweep
  BY <1>3 DEF SkipEntry, TakeWitness, NextSweep
<1> QED
  BY <1>1, <1>2, <1>3 DEF Next, Sweep, Done

-----------------------------------------------------------------------------
\* Every operation a rule of a witness emits is recognised.
EmitsRecognised ==
  WalkBegins =>
    \A g \in Gate : Witnessed(g) => \A h \in Ops(Replacement(g)) : ~IsForeign(h)

EmissionsRecognised ==
  pc # "sweep" =>
    \A g \in Gate : Witnessed(g) => \A h \in Ops(Replacement(g)) : ~IsForeign(h)

\* What the round has passed without a change needs none.
NativeInv ==
  /\ pc # "sweep" =>
       \A g \in Ops(pending) \cup Ops(visited) : IsForeign(g) => g \in Ops(input)
  /\ pc = "walk" /\ ~changed /\ ~failed => \A g \in Ops(visited) : IsDone(g)
  /\ pc = "done" /\ ~gaveUp /\ ~failed => \A g \in Ops(visited) : IsDone(g)

LEMMA RecognisedStep ==
  ASSUME TypeOK, WalkNotBegun, EmissionsRecognised, EmitsRecognised', [Next]_vars
  PROVE  EmissionsRecognised'
BY SaidAtTheStart DEF EmitsRecognised, EmissionsRecognised, IsForeign

LEMMA NativeOne ==
  ASSUME TypeOK, NativeInv, NEW new, Takes1(new),
         \A g \in Ops(new) : IsForeign(g) => g = This,
         ~changed' /\ ~failed' => ~changed /\ ~failed /\ \A g \in Ops(new) : IsDone(g)
  PROVE  NativeInv'
<1>1. Walk /\ pc = "walk" /\ pc' = "walk"
  BY DEF Takes1
<1>2. \A g : (IsDone(g)' <=> IsDone(g)) /\ (IsForeign(g)' <=> IsForeign(g))
  BY <1>1, WalkFrame DEF IsForeign
<1> QED
  BY <1>1, <1>2, TakesOps DEF NativeInv

LEMMA NativeStep ==
  ASSUME TypeOK, WalkNotBegun, NativeInv, EmissionsRecognised, [Next]_vars
  PROVE  NativeInv'
<1> USE DEF inputVars, sweepVars, walkVars
<1>1. CASE KeepOp
  <2>1. IsDone(This) /\ failed' = failed
    BY <1>1 DEF KeepOp, IsDone, IsForeign, IsLegal
  <2> QED
    BY <1>1, <2>1, KeepTakes, NativeOne
<1>2. CASE RejectOp
  <2>1. failed'
    BY <1>2 DEF RejectOp
  <2> QED
    BY <1>2, <2>1, KeepTakes, NativeOne
<1>3. CASE RewriteOp
  <2>1. \A g \in Ops(Replacement(This)) : ~IsForeign(g)
    BY <1>3, RewriteTakes DEF EmissionsRecognised, Takes1
  <2> QED
    BY <1>3, <2>1, RewriteTakes, NativeOne
<1>4. CASE NextRound
  <2>1. /\ Walk /\ pc = "walk" /\ pc' = "walk" /\ pending' = visited /\ visited' = <<>>
    BY <1>4 DEF NextRound, Walk
  <2>2. Ops(pending)' = Ops(visited) /\ Ops(visited)' = {} /\ Ops(input)' = Ops(input)
    BY <2>1, OpsEmpty, WalkFrame DEF Ops
  <2> QED
    BY <2>1, <2>2 DEF NativeInv, IsForeign
<1>5. CASE FixedPoint
  <2>1. /\ Walk /\ pc = "walk" /\ pc' = "done" /\ ~changed /\ UNCHANGED <<pending, visited, failed>>
    BY <1>5 DEF FixedPoint, Walk
  <2>2. Ops(pending)' = Ops(pending) /\ Ops(visited)' = Ops(visited) /\ Ops(input)' = Ops(input)
    BY <2>1, WalkFrame DEF Ops
  <2> QED
    BY <2>1, <2>2, WalkFrame DEF NativeInv, IsForeign
<1>6. CASE GiveUp
  <2>1. Walk /\ pc = "walk" /\ pc' = "done" /\ gaveUp' /\ UNCHANGED <<pending, visited>>
    BY <1>6 DEF GiveUp, Walk
  <2>2. Ops(pending)' = Ops(pending) /\ Ops(visited)' = Ops(visited) /\ Ops(input)' = Ops(input)
    BY <2>1, WalkFrame DEF Ops
  <2> QED
    BY <2>1, <2>2 DEF NativeInv, IsForeign
<1>7. CASE WitnessesDone
  <2>1. /\ pending = input /\ visited = <<>> /\ pc' = "walk"
        /\ UNCHANGED <<input, pending, visited>>
    BY <1>7 DEF WitnessesDone, WalkNotBegun
  <2>2. Ops(pending)' = Ops(input)' /\ Ops(visited)' = {}
    BY <2>1, OpsEmpty DEF Ops
  <2> QED
    BY <2>1, <2>2 DEF NativeInv
<1>8. CASE SkipEntry \/ TakeWitness \/ NextSweep
  BY <1>8 DEF SkipEntry, TakeWitness, NextSweep, NativeInv
<1>9. CASE UNCHANGED vars
  BY <1>9 DEF vars, NativeInv, IsDone, IsForeign, IsLegal, Ops
<1> QED
  BY <1>1, <1>2, <1>3, <1>4, <1>5, <1>6, <1>7, <1>8, <1>9 DEF Next, Sweep, Walk, Done

\* If the operations that witnesses emit are recognised, a pass that succeeds
\* leaves native gates, next to unknown operations it was given.
LEMMA NativeInvariant == Spec /\ []EmitsRecognised => []NativeInv
<1>1. Init => EmissionsRecognised /\ NativeInv /\ WalkNotBegun
  BY TypeInit DEF Init, EmissionsRecognised, NativeInv
<1>2. /\ TypeOK /\ WalkNotBegun /\ [Next]_vars /\ EmitsRecognised'
      /\ EmissionsRecognised /\ NativeInv
      => (WalkNotBegun /\ EmissionsRecognised /\ NativeInv)'
  BY TypeStep, RecognisedStep, NativeStep
<1> QED
  BY <1>1, <1>2, TypeCorrect, PTL DEF Spec

THEOREM SuccessfulMeansNative == Spec /\ []EmitsRecognised => []SuccessIsNative
<1>1. NativeInv => SuccessIsNative
  BY DEF NativeInv, SuccessIsNative, Ops, IsDone, IsForeign, IsLegal
<1> QED
  BY <1>1, NativeInvariant, PTL

-----------------------------------------------------------------------------
EmissionsResolve ==
  pc # "sweep" =>
    \A g \in Gate : Witnessed(g) => \A h \in Ops(Replacement(g)) : ~CannotLegalize(h)

\* The pass has failed, or will, exactly if the kernel it was given is stuck.
StuckInv ==
  /\ pc = "walk" =>
       /\ failed => Stuck(input)
       /\ Stuck(input) => failed \/ Stuck(pending)
       /\ Stuck(pending) => Stuck(input)
       /\ Stuck(visited) => failed
  /\ pc = "done" /\ ~gaveUp => (failed <=> Stuck(input))

LEMMA ResolveStep ==
  ASSUME TypeOK, WalkNotBegun, EmissionsResolve, EmitsResolvable', [Next]_vars
  PROVE  EmissionsResolve'
<1>1. CASE WalkBegins'
  BY <1>1 DEF EmissionsResolve, EmitsResolvable, Ops, CannotLegalize
<1>2. CASE ~WalkBegins'
  BY <1>2, SaidAtTheStart DEF EmissionsResolve
<1> QED
  BY <1>1, <1>2

LEMMA StuckOne ==
  ASSUME TypeOK, StuckInv, NEW new, Takes1(new),
         failed' <=> (failed \/ CannotLegalize(This)),
         \A g \in Ops(new) : CannotLegalize(g) => CannotLegalize(This)
  PROVE  StuckInv'
<1>1. Walk /\ pc = "walk" /\ pc' = "walk"
  BY DEF Takes1
<1> QED
  BY <1>1, TakesOps, WalkFrame DEF StuckInv, Stuck

LEMMA StuckStep ==
  ASSUME TypeOK, WalkNotBegun, StuckInv, EmissionsResolve, [Next]_vars
  PROVE  StuckInv'
<1> USE DEF inputVars, sweepVars, walkVars
<1>1. CASE KeepOp
  <2>1. ~CannotLegalize(This) /\ failed' = failed
    BY <1>1 DEF KeepOp, CannotLegalize, Resolved
  <2> QED
    BY <1>1, <2>1, KeepTakes, StuckOne
<1>2. CASE RejectOp
  <2>1. CannotLegalize(This) /\ failed'
    BY <1>2 DEF RejectOp, CannotLegalize
  <2> QED
    BY <1>2, <2>1, KeepTakes, StuckOne
<1>3. CASE RewriteOp
  <2>1. \A g \in Ops(Replacement(This)) : ~CannotLegalize(g)
    BY <1>3, RewriteTakes DEF EmissionsResolve, Takes1
  <2> QED
    BY <1>3, <2>1, RewriteTakes, StuckOne
<1>4. CASE NextRound
  <2>1. /\ Walk /\ pc = "walk" /\ pc' = "walk" /\ pending = <<>> /\ pending' = visited
        /\ visited' = <<>> /\ failed' = failed
    BY <1>4 DEF NextRound, Walk
  <2>2. /\ Ops(pending) = {} /\ Ops(pending)' = Ops(visited) /\ Ops(visited)' = {}
        /\ Ops(input)' = Ops(input)
    BY <2>1, OpsEmpty, WalkFrame DEF Ops
  <2> QED
    BY <2>1, <2>2, WalkFrame DEF StuckInv, Stuck
<1>5. CASE FixedPoint
  <2>1. /\ Walk /\ pc = "walk" /\ pc' = "done" /\ pending = <<>> /\ failed' = failed
    BY <1>5 DEF FixedPoint, Walk
  <2>2. Ops(pending) = {} /\ Ops(input)' = Ops(input)
    BY <2>1, OpsEmpty, WalkFrame DEF Ops
  <2> QED
    BY <2>1, <2>2, WalkFrame DEF StuckInv, Stuck
<1>6. CASE GiveUp
  BY <1>6 DEF GiveUp, StuckInv
<1>7. CASE WitnessesDone
  <2>1. /\ pending = input /\ visited = <<>> /\ ~failed /\ pc' = "walk"
        /\ UNCHANGED <<native, input, witness, pending, visited, failed>>
    BY <1>7 DEF WitnessesDone, WalkNotBegun
  <2>2. Ops(pending)' = Ops(input)' /\ Ops(visited)' = {}
    BY <2>1, OpsEmpty DEF Ops
  <2> QED
    BY <2>1, <2>2 DEF StuckInv, Stuck
<1>8. CASE SkipEntry \/ TakeWitness \/ NextSweep
  BY <1>8 DEF SkipEntry, TakeWitness, NextSweep, StuckInv
<1>9. CASE UNCHANGED vars
  BY <1>9 DEF vars, StuckInv, Stuck, CannotLegalize, Resolved, Ops
<1> QED
  BY <1>1, <1>2, <1>3, <1>4, <1>5, <1>6, <1>7, <1>8, <1>9 DEF Next, Sweep, Walk, Done

LEMMA StuckInvariant == Spec /\ []EmitsResolvable => []StuckInv
<1>1. Init => EmissionsResolve /\ StuckInv /\ WalkNotBegun
  BY TypeInit DEF Init, EmissionsResolve, StuckInv
<1>2. /\ TypeOK /\ WalkNotBegun /\ [Next]_vars /\ EmitsResolvable'
      /\ EmissionsResolve /\ StuckInv
      => (WalkNotBegun /\ EmissionsResolve /\ StuckInv)'
  BY TypeStep, ResolveStep, StuckStep
<1> QED
  BY <1>1, <1>2, TypeCorrect, PTL DEF Spec

\* If what witnesses emit can be resolved, the pass fails on exactly the kernels
\* that hold a gate no chain of rules legalizes.
THEOREM FailsExactlyWhenStuck == Spec /\ []EmitsResolvable => []FailsOnlyIfItMust
<1>1. StuckInv => FailsOnlyIfItMust
  BY DEF StuckInv, FailsOnlyIfItMust, Stuck, Ops
<1> QED
  BY <1>1, StuckInvariant, PTL

LEMMA ResolvableIsRecognised == EmitsResolvable => EmitsRecognised
BY DEF EmitsResolvable, EmitsRecognised, Ops, IsForeign

-----------------------------------------------------------------------------
(***************************************************************************)
(* The number of rounds.  If the mnemonics with a witness can be given     *)
(* levels so that a rewrite replaces an operation by operations of lower   *)
(* level, the levels in a kernel sink by one from round to round.          *)
(***************************************************************************)
LevelOf(lv, g) == IF Classify(g) \in Entries THEN lv[Classify(g)] ELSE 0

IsLevel(lv) ==
  /\ lv \in [Entries -> Nat]
  /\ \A m \in Entries : lv[m] <= assigned /\ (lv[m] # 0 <=> witness[m] # 0)
  /\ \A g \in Gate : Witnessed(g) =>
       \A h \in Ops(Replacement(g)) : LevelOf(lv, h) + 1 <= LevelOf(lv, g)

\* There are such levels when the walk begins.
EmissionsSink == WalkBegins => \E lv \in [Entries -> Nat] : IsLevel(lv)

WitnessesAreCounted ==
  assigned = Cardinality({m \in Entries : witness[m] # 0})

LEMMA CountStep ==
  ASSUME TypeOK, WitnessesAreCounted, [Next]_vars
  PROVE  WitnessesAreCounted'
<1>1. CASE ~TakeWitness
  BY <1>1, OtherSteps DEF WitnessesAreCounted
<1>2. CASE TakeWitness
  <2>1. PICK r \in Nat \ {0} : Takes(order[pos], r)
    BY <1>2, TakeWitnessFacts
  <2> DEFINE W == {m \in Entries : witness[m] # 0}
             e == order[pos]
  <2>2. IsFiniteSet(W)
    BY EntriesAssumption, FS_Subset
  <2>3. e \notin W
    BY <2>1 DEF Takes, Resolved
  <2>4. {m \in Entries : witness'[m] # 0} = W \cup {e}
    BY <2>1 DEF Takes, TypeOK
  <2>5. Cardinality(W \cup {e}) = Cardinality(W) + 1
    BY <2>2, <2>3, FS_AddElement
  <2> QED
    BY <2>1, <2>4, <2>5 DEF Takes, WitnessesAreCounted
<1> QED
  BY <1>1, <1>2

LEMMA CountBound == WitnessesAreCounted => assigned <= Cardinality(Entries)
BY EntriesAssumption, FS_Subset DEF WitnessesAreCounted

Sunk(lv, k, n) == \A g \in Ops(k) : LevelOf(lv, g) = 0 \/ LevelOf(lv, g) + n <= assigned

RoundInv ==
  /\ round <= assigned
  /\ pc = "walk" => \E lv \in [Entries -> Nat] :
       /\ IsLevel(lv) /\ Sunk(lv, pending, round) /\ Sunk(lv, visited, round + 1)
       /\ changed => round + 1 <= assigned

\* A walking step leaves the levels what they are.
LEMMA LevelsStay ==
  ASSUME Walk, NEW lv
  PROVE  /\ UNCHANGED <<assigned, rank>>
         /\ IsLevel(lv) => IsLevel(lv)'
<1>1. UNCHANGED <<assigned, rank, witness>>
  BY DEF Walk, KeepOp, RejectOp, RewriteOp, FixedPoint, NextRound, GiveUp,
         inputVars, sweepVars, walkVars
<1>2. IsLevel(lv) => IsLevel(lv)'
  BY <1>1 DEF IsLevel, Witnessed, Replacement, LevelOf, Ops
<1> QED
  BY <1>1, <1>2

LEMMA RoundOne ==
  ASSUME TypeOK, RoundInv, NEW new, Takes1(new),
         \A lv \in [Entries -> Nat] : IsLevel(lv) =>
           /\ \A g \in Ops(new) : LevelOf(lv, g) = 0 \/ LevelOf(lv, g) + 1 <= LevelOf(lv, This)
           /\ changed' => changed \/ LevelOf(lv, This) # 0
  PROVE  RoundInv'
<1>0. Walk /\ pc = "walk" /\ pc' = "walk" /\ round' = round
  BY DEF Takes1
<1>1. PICK lv \in [Entries -> Nat] :
        /\ IsLevel(lv) /\ Sunk(lv, pending, round) /\ Sunk(lv, visited, round + 1)
        /\ changed => round + 1 <= assigned
  BY <1>0 DEF RoundInv
<1>2. assigned' = assigned /\ IsLevel(lv)'
  BY <1>0, <1>1, LevelsStay
<1>3. Ops(pending) = {This} \cup Ops(pending)' /\ Ops(visited)' = Ops(visited) \cup Ops(new)
  BY TakesOps
<1>4. \A g : LevelOf(lv, g) \in Nat
  BY DEF LevelOf
<1>5. assigned \in Nat /\ round \in Nat
  BY MaxRoundsAssumption DEF TypeOK
<1>6. LevelOf(lv, This) = 0 \/ LevelOf(lv, This) + round <= assigned
  BY <1>1, <1>3 DEF Sunk
<1>7. \A g \in Ops(new) : LevelOf(lv, g) = 0 \/ LevelOf(lv, g) + (round + 1) <= assigned
  BY <1>1, <1>4, <1>5, <1>6
<1>8. changed' => round + 1 <= assigned
  BY <1>1, <1>4, <1>5, <1>6
<1>9. Sunk(lv, pending, round)' /\ Sunk(lv, visited, round + 1)'
  BY <1>0, <1>1, <1>2, <1>3, <1>7 DEF Sunk, LevelOf
<1> QED
  BY <1>0, <1>2, <1>5, <1>8, <1>9 DEF RoundInv

LEMMA RoundStep ==
  ASSUME TypeOK, WalkNotBegun, WitnessesAreRanked, RoundInv, EmissionsSink', [Next]_vars
  PROVE  RoundInv'
<1> USE DEF inputVars, sweepVars, walkVars
<1>0. assigned \in Nat /\ round \in Nat
  BY MaxRoundsAssumption DEF TypeOK
<1>1. CASE KeepOp \/ RejectOp
  <2>1. Classify(This) \in Entries => witness[Classify(This)] = 0
    <3>1. CASE KeepOp
      BY <3>1, TableAssumption DEF KeepOp, WitnessesAreRanked
    <3>2. CASE RejectOp
      BY <3>2 DEF RejectOp, Resolved
    <3> QED
      BY <1>1, <3>1, <3>2
  <2>2. \A lv \in [Entries -> Nat] : IsLevel(lv) => LevelOf(lv, This) = 0
    BY <2>1 DEF IsLevel, LevelOf
  <2> QED
    BY <1>1, <2>2, KeepTakes, RoundOne
<1>2. CASE RewriteOp
  <2>1. Takes1(Replacement(This)) /\ Witnessed(This) /\ This \in Gate
    BY <1>2, RewriteTakes DEF Takes1
  <2>2. ASSUME NEW lv \in [Entries -> Nat], IsLevel(lv)
        PROVE  /\ \A h \in Ops(Replacement(This)) : LevelOf(lv, h) + 1 <= LevelOf(lv, This)
               /\ LevelOf(lv, This) # 0
    BY <2>1, <2>2 DEF IsLevel, LevelOf, Witnessed
  <2> QED
    BY <2>1, <2>2, RoundOne
<1>3. CASE NextRound
  <2>1. /\ Walk /\ pc = "walk" /\ changed /\ changed' = FALSE /\ pending' = visited
        /\ visited' = <<>> /\ round' = round + 1
    BY <1>3 DEF NextRound, Walk
  <2>2. PICK lv \in [Entries -> Nat] :
          IsLevel(lv) /\ Sunk(lv, visited, round + 1) /\ round + 1 <= assigned
    BY <2>1 DEF RoundInv
  <2>3. assigned' = assigned /\ IsLevel(lv)'
    BY <2>1, <2>2, LevelsStay
  <2>4. Ops(visited') = {}
    BY <2>1, OpsEmpty
  <2>5. Sunk(lv, pending, round)' /\ Sunk(lv, visited, round + 1)'
    BY <2>1, <2>2, <2>3, <2>4 DEF Sunk, Ops, LevelOf
  <2> QED
    BY <2>1, <2>2, <2>3, <2>5 DEF RoundInv
<1>4. CASE FixedPoint \/ GiveUp
  BY <1>4 DEF FixedPoint, GiveUp, RoundInv
<1>5. CASE WitnessesDone
  <2>1. /\ round = 0 /\ visited = <<>> /\ ~changed /\ WalkBegins'
        /\ UNCHANGED <<rank, assigned, round, pending, visited, changed>>
    BY <1>5 DEF WitnessesDone, WalkNotBegun, WalkBegins
  <2>2. PICK lv \in [Entries -> Nat] : IsLevel(lv)'
    BY <2>1 DEF EmissionsSink
  <2>3. \A g : LevelOf(lv, g) \in Nat /\ LevelOf(lv, g)' <= assigned
    BY <1>0, <2>1, <2>2 DEF LevelOf, IsLevel
  <2>4. Ops(visited') = {}
    BY <2>1, OpsEmpty
  <2>5. Sunk(lv, pending, round)' /\ Sunk(lv, visited, round + 1)'
    BY <1>0, <2>1, <2>3, <2>4 DEF Sunk, Ops, LevelOf
  <2> QED
    BY <1>0, <2>1, <2>2, <2>5 DEF RoundInv
<1>6. CASE SkipEntry \/ TakeWitness \/ NextSweep
  BY <1>0, <1>6 DEF SkipEntry, TakeWitness, NextSweep, RoundInv, WalkNotBegun
<1>7. CASE UNCHANGED vars
  BY <1>7 DEF vars, RoundInv, Sunk, Ops, LevelOf, IsLevel, Witnessed, Replacement
<1> QED
  BY <1>1, <1>2, <1>3, <1>4, <1>5, <1>6, <1>7 DEF Next, Sweep, Walk, Done

LEMMA Counted == Spec => []WitnessesAreCounted
<1>1. Init => WitnessesAreCounted
  <2> SUFFICES ASSUME Init PROVE WitnessesAreCounted
    OBVIOUS
  <2>1. {m \in Entries : witness[m] # 0} = {}
    BY DEF Init
  <2> QED
    BY <2>1, FS_EmptySet DEF Init, WitnessesAreCounted
<1>2. TypeOK /\ WitnessesAreCounted /\ [Next]_vars => WitnessesAreCounted'
  BY CountStep
<1> QED
  BY <1>1, <1>2, TypeCorrect, PTL DEF Spec

LEMMA RoundInvariant == Spec /\ []EmissionsSink => [](RoundInv /\ WitnessesAreCounted)
<1>1. Init => RoundInv /\ WalkNotBegun
  BY TypeInit DEF Init, RoundInv
<1>2. /\ TypeOK /\ WalkNotBegun /\ WitnessesAreRanked /\ RoundInv /\ [Next]_vars
      /\ EmissionsSink'
      => (WalkNotBegun /\ RoundInv)'
  BY TypeStep, RoundStep
<1> QED
  BY <1>1, <1>2, TypeCorrect, Ranked, Counted, PTL DEF Spec

LEMMA RoundInvGives == TypeOK /\ WitnessesAreCounted /\ RoundInv => RoundsAreBounded
<1> SUFFICES ASSUME TypeOK, WitnessesAreCounted, RoundInv PROVE RoundsAreBounded
  OBVIOUS
<1>1. assigned \in Nat /\ round \in Nat /\ Cardinality(Entries) \in Nat
  BY MaxRoundsAssumption, EntriesAssumption, FS_CardinalityType DEF TypeOK
<1>2. pc = "walk" /\ changed => round + 1 <= assigned
  BY DEF RoundInv
<1> QED
  BY <1>1, <1>2, CountBound DEF RoundInv, RoundsAreBounded

\* If what a rule emits is on a lower level than what it replaces, at most as
\* many rounds as the table has entries rewrite anything ...
THEOREM RoundsBounded == Spec /\ []EmissionsSink => []RoundsAreBounded
BY RoundInvariant, RoundInvGives, TypeCorrect, PTL

\* A cap above that number is not reached ...
LEMMA CapIsFar ==
  ASSUME MaxRounds > Cardinality(Entries)
  PROVE  TypeOK /\ RoundsAreBounded /\ ~gaveUp /\ [Next]_vars => ~gaveUp'
<1> SUFFICES ASSUME TypeOK, RoundsAreBounded, ~gaveUp, [Next]_vars PROVE ~gaveUp'
  OBVIOUS
<1> USE DEF inputVars, sweepVars, walkVars
<1>1. ~GiveUp
  <2>1. round \in Nat /\ Cardinality(Entries) \in Nat /\ MaxRounds \in Nat
    BY MaxRoundsAssumption, EntriesAssumption, FS_CardinalityType DEF TypeOK
  <2>2. GiveUp => round + 1 >= MaxRounds /\ round + 1 <= Cardinality(Entries)
    BY DEF GiveUp, RoundsAreBounded
  <2> QED
    BY <2>1, <2>2
<1>2. CASE Sweep
  BY <1>2 DEF Sweep, SkipEntry, TakeWitness, NextSweep, WitnessesDone
<1>3. CASE Walk
  BY <1>1, <1>3 DEF Walk, KeepOp, RejectOp, RewriteOp, FixedPoint, NextRound
<1>4. CASE UNCHANGED vars
  BY <1>4 DEF vars
<1> QED
  BY <1>2, <1>3, <1>4 DEF Next, Done

\* ... and never is what ends the pass.
THEOREM NeverGivesUp ==
  ASSUME MaxRounds > Cardinality(Entries)
  PROVE  Spec /\ []EmissionsSink => []~gaveUp
<1>1. Init => ~gaveUp
  BY DEF Init
<1>2. TypeOK /\ RoundsAreBounded /\ ~gaveUp /\ [Next]_vars => ~gaveUp'
  BY CapIsFar
<1> QED
  BY <1>1, <1>2, RoundsBounded, TypeCorrect, PTL DEF Spec

\* Rules that emit what they declare do so: the times at which witnesses were
\* taken are levels.
LEMMA DeclaredSinks ==
  ASSUME TypeOK, RanksAreTimes, WitnessesAreRanked, EmitsWhatItDeclares
  PROVE  EmissionsSink
<1> SUFFICES ASSUME WalkBegins PROVE IsLevel(rank)
  BY DEF EmissionsSink, TypeOK
<1>1. rank \in [Entries -> Nat] /\ \A m \in Entries : rank[m] <= assigned /\ (rank[m] # 0 <=> witness[m] # 0)
  BY DEF TypeOK, RanksAreTimes
<1>2. ASSUME NEW g \in Gate, Witnessed(g), NEW h \in Ops(Replacement(g))
      PROVE  LevelOf(rank, h) + 1 <= LevelOf(rank, g)
  <2>1. /\ Classify(g) \in Entries /\ LevelOf(rank, g) = rank[Classify(g)]
        /\ rank[Classify(g)] \in Nat \ {0}
    BY <1>1, <1>2 DEF Witnessed, LevelOf
  <2>2. \/ IsNative(native, Classify(h))
        \/ Classify(h) \in Table[Classify(g)][witness[Classify(g)]].produces
    BY <1>2 DEF EmitsWhatItDeclares, DeclaresFor, Ops
  <2>3. CASE IsNative(native, Classify(h))
    <3>1. LevelOf(rank, h) = 0
      BY <1>1, <2>3 DEF WitnessesAreRanked, LevelOf
    <3> QED
      BY <2>1, <3>1
  <2>4. CASE ~IsNative(native, Classify(h))
    <3>1. \A p \in Table[Classify(g)][witness[Classify(g)]].produces :
            IsNative(native, p) \/ (p \in Entries /\ rank[p] \in 1..(rank[Classify(g)] - 1))
      BY <1>2, <2>1 DEF WitnessesAreRanked, Witnessed
    <3>2. Classify(h) \in Entries /\ rank[Classify(h)] \in 1..(rank[Classify(g)] - 1)
      BY <2>2, <2>4, <3>1
    <3> QED
      BY <2>1, <3>2 DEF LevelOf
  <2> QED
    BY <2>3, <2>4
<1> QED
  BY <1>1, <1>2 DEF IsLevel

THEOREM DeclaringBoundsRounds == Spec /\ []EmitsWhatItDeclares => []RoundsAreBounded
<1>1. TypeOK /\ WitnessesAreRanked /\ RanksAreTimes /\ EmitsWhatItDeclares => EmissionsSink
  BY DeclaredSinks
<1> QED
  BY <1>1, RoundsBounded, TypeCorrect, RanksAreKept, PTL

-----------------------------------------------------------------------------
(***************************************************************************)
(* Refinement: the pass implements LegalizationContract as long as it is   *)
(* not cut off at the cap.                                                 *)
(***************************************************************************)
Abstract == INSTANCE LegalizationContract WITH verdict <- Verdict, output <- Output

\* After the sweeps, what cannot be legalized is what has no witness.
LEMMA StuckMeansIllegal ==
  ASSUME WitnessesAreComplete, pc # "sweep", NEW g
  PROVE  CanLegalize(native, g) <=> ~CannotLegalize(g)
BY DEF WitnessesAreComplete, CanLegalize, CannotLegalize, IsForeign, IsLegal, Resolved

LEMMA AbstractStep ==
  ASSUME TypeOK, WitnessesAreComplete, NativeInv', StuckInv', ~gaveUp', [Next]_vars
  PROVE  [Abstract!Next]_(Abstract!vars)
<1> USE DEF inputVars, sweepVars, walkVars
<1>1. CASE FixedPoint
  <2>1. /\ pc = "walk" /\ pc' = "done" /\ gaveUp' = gaveUp
        /\ UNCHANGED <<native, input, visited, failed, witness>>
    BY <1>1 DEF FixedPoint
  <2>2. /\ \A g : IsDone(g)' <=> IsDone(g)
        /\ Stuck(input)' <=> Stuck(input)
        /\ Ops(visited)' = Ops(visited) /\ Ops(input)' = Ops(input)
    BY <2>1 DEF IsDone, IsForeign, IsLegal, Stuck, CannotLegalize, Resolved, Ops
  <2>3. Stuck(input) <=> \E g \in Ops(input) : ~CanLegalize(native, g)
    BY <2>1, StuckMeansIllegal DEF Stuck
  <2>4. CASE failed
    <3>1. Verdict = "open" /\ Verdict' = "rejected" /\ Output = <<>> /\ Output' = <<>>
      BY <2>1, <2>4 DEF Verdict, Output
    <3>2. \E g \in Abstract!Members(input) : ~CanLegalize(native, g)
      BY <2>1, <2>2, <2>3, <2>4 DEF StuckInv, Abstract!Members, Ops
    <3> QED
      BY <2>1, <3>1, <3>2 DEF Abstract!Next, Abstract!Reject
  <2>5. CASE ~failed
    <3>1. Verdict = "open" /\ Verdict' = "legal" /\ Output' = visited
      BY <2>1, <2>5 DEF Verdict, Output
    <3>2. \A g \in Abstract!Members(input) : CanLegalize(native, g)
      BY <2>1, <2>2, <2>3, <2>5 DEF StuckInv, Abstract!Members, Ops
    <3>3. \A g \in Ops(visited) : IsDone(g) /\ (IsForeign(g) => g \in Ops(input))
      BY <2>1, <2>2, <2>5 DEF NativeInv, IsForeign
    <3>4. Abstract!IsLegalization(Output')
      BY <3>1, <3>3 DEF Abstract!IsLegalization, Abstract!Members, Ops, IsDone
    <3> QED
      BY <2>1, <3>1, <3>2, <3>4 DEF Abstract!Next, Abstract!Accept
  <2> QED
    BY <2>4, <2>5
<1>2. CASE GiveUp
  BY <1>2 DEF GiveUp
<1>3. CASE Sweep \/ KeepOp \/ RejectOp \/ RewriteOp \/ NextRound
  <2>1. UNCHANGED <<native, input>> /\ pc # "done" /\ pc' # "done"
    BY <1>3, InputsAreFixed DEF Sweep, SkipEntry, TakeWitness, NextSweep,
       WitnessesDone, KeepOp, RejectOp, RewriteOp, NextRound
  <2> QED
    BY <2>1 DEF Verdict, Output, Abstract!vars
<1>4. CASE UNCHANGED vars
  BY <1>4 DEF vars, Verdict, Output, Abstract!vars
<1> QED
  BY <1>1, <1>2, <1>3, <1>4 DEF Next, Walk, Done

\* The verdict of the pass depends on the kernel and the native set alone, and
\* is the one the decomposition rules allow.
THEOREM Implements == Spec /\ []EmitsResolvable /\ []~gaveUp => Abstract!Safety
<1>1. Init => Abstract!Init
  BY DEF Init, Abstract!Init, Verdict, Output
<1>2. TypeOK /\ WitnessesAreComplete /\ NativeInv' /\ StuckInv' /\ ~gaveUp' /\ [Next]_vars
        => [Abstract!Next]_(Abstract!vars)
  BY AbstractStep
<1>3. EmitsResolvable => EmitsRecognised
  BY ResolvableIsRecognised
<1> QED
  BY <1>1, <1>2, <1>3, TypeCorrect, Complete, NativeInvariant, StuckInvariant, PTL
     DEF Spec, Abstract!Safety

-----------------------------------------------------------------------------
(***************************************************************************)
(* The decomposition table of the repository.                              *)
(***************************************************************************)

\* The constants stand for the table, classifyOp and the rewrite functions.
RepositoryTable ==
  /\ None = NoMnemonic
  /\ Entries \subseteq DOMAIN DecompositionTable
  /\ \A m \in Entries : Table[m] = DecompositionTable[m]
  /\ Gate \subseteq Operations
  /\ \A g \in Gate : Classify(g) = ClassifyOp(g)
  /\ \A m \in Entries : \A r \in 1..Len(Table[m]) : \A g \in Gate :
       Classify(g) = m => Emit(Table[m][r], g) = ApplyRule(Table[m][r], g)

-----------------------------------------------------------------------------
(***************************************************************************)
(* Facts about the table.                                                  *)
(***************************************************************************)

\* The repository's rules map operations to operations, and create no controlled
\* rotation: the hypothesis EmitAssumption of BasisConversion can be met.
LEMMA RulesStayInside ==
  ASSUME NEW m \in DOMAIN DecompositionTable, NEW r \in 1..Len(DecompositionTable[m]),
         NEW g \in Operations, ClassifyOp(g) = m
  PROVE  /\ ApplyRule(DecompositionTable[m][r], g) \in Seq(Operations)
         /\ ApplyRule(DecompositionTable[m][r], g)
              \in Seq({h \in Operations : ClassifyOp(h) \notin LosesControl})
<1> DEFINE rule == DecompositionTable[m][r]
<1>1. ApplyRule(rule, g) \in Seq(Emissions(g, Yields(rule)))
  BY RulesEmit
<1>2. Emissions(g, Yields(rule)) \subseteq {h \in Operations : ClassifyOp(h) \notin LosesControl}
  BY YieldsOfARule DEF Emissions
<1> HIDE DEF rule
<1>3. ApplyRule(rule, g) \in Seq({h \in Operations : ClassifyOp(h) \notin LosesControl})
  BY <1>1, <1>2
<1>4. ApplyRule(rule, g) \in Seq(Operations)
  BY <1>3
<1> QED
  BY <1>3, <1>4 DEF rule

-----------------------------------------------------------------------------
(***************************************************************************)
(* What the witnesses emit.                                                *)
(***************************************************************************)

\* The rule that rewrites the operations of mnemonic m.
WitnessOf(m) == DecompositionTable[m][witness[m]]

LEMMA WitnessIsARule ==
  ASSUME RepositoryTable, TypeOK, NEW m \in Entries, witness[m] # 0
  PROVE  /\ m \in DOMAIN DecompositionTable /\ witness[m] \in 1..Len(DecompositionTable[m])
         /\ Table[m][witness[m]] = WitnessOf(m)
<1>1. Len(Table[m]) \in Nat /\ witness[m] \in 0..Len(Table[m])
  BY TableAssumption DEF TypeOK
<1> QED
  BY <1>1 DEF RepositoryTable, WitnessOf

\* What a witness emits, from what it declares.
LEMMA WitnessYields ==
  ASSUME RepositoryTable, TypeOK, NEW m \in Entries, witness[m] # 0
  PROVE  /\ m \notin LosesControl =>
              /\ WitnessOf(m).produces \cap LosesControl = {}
              /\ Yields(WitnessOf(m)) = WitnessOf(m).produces
                   \cup (IF "rx" \in WitnessOf(m).produces THEN {"sx"} ELSE {})
         /\ m = "crx" => "h" \in WitnessOf(m).produces /\ Yields(WitnessOf(m)) = {"h", "rz"}
         /\ m = "cry" => "rz" \in WitnessOf(m).produces
                         /\ Yields(WitnessOf(m)) = {"rz", "rx", "sx"}
         /\ m # "crz" => NoMnemonic \notin Yields(WitnessOf(m))
         /\ Yields(WitnessOf(m)) \cap LosesControl = {}
         /\ m = "sx" => WitnessOf(m).produces = {"prx"}
<1>1. /\ m \in DOMAIN DecompositionTable /\ witness[m] \in 1..Len(DecompositionTable[m])
      /\ WitnessOf(m) = DecompositionTable[m][witness[m]]
  BY WitnessIsARule DEF WitnessOf
<1> DEFINE r == witness[m]
           rule == WitnessOf(m)
<1>2. r \in 1..Len(DecompositionTable[m]) /\ rule = DecompositionTable[m][r]
  BY <1>1
<1> HIDE DEF r, rule
<1> QED
  BY <1>1, <1>2, YieldsOfARule DEF rule

LEMMA EmittedClass ==
  ASSUME RepositoryTable, TypeOK, NEW g \in Gate, Witnessed(g), NEW h \in Ops(Replacement(g))
  PROVE  h \in Gate /\ Classify(h) \in Yields(WitnessOf(Classify(g)))
<1> DEFINE m == Classify(g)
<1>1. m \in Entries /\ witness[m] # 0
  BY DEF Witnessed
<1>2. /\ m \in DOMAIN DecompositionTable /\ witness[m] \in 1..Len(DecompositionTable[m])
      /\ Table[m][witness[m]] = WitnessOf(m) /\ Len(Table[m]) = Len(DecompositionTable[m])
  BY <1>1, WitnessIsARule DEF RepositoryTable
<1>3. g \in Operations /\ ClassifyOp(g) = m
  BY DEF RepositoryTable
<1>4. Replacement(g) = ApplyRule(WitnessOf(m), g)
  BY <1>1, <1>2 DEF RepositoryTable, Replacement
<1>5. Replacement(g) \in Seq(Emissions(g, Yields(WitnessOf(m))))
  BY <1>2, <1>3, <1>4, RulesEmit DEF WitnessOf
<1>6. Replacement(g) \in Seq(Gate)
  BY <1>1, <1>2, EmitType DEF Replacement
<1>7. h \in Emissions(g, Yields(WitnessOf(m))) /\ h \in Gate
  BY <1>5, <1>6 DEF Ops
<1> QED
  BY <1>7 DEF Emissions, RepositoryTable

\* What a witness declares is native or has an earlier witness.
LEMMA DeclaredClass ==
  ASSUME RepositoryTable, TypeOK, WitnessesAreRanked, NEW m \in Entries, witness[m] # 0,
         NEW p \in WitnessOf(m).produces
  PROVE  IsNative(native, p) \/ (p \in Entries /\ rank[p] \in 1..(rank[m] - 1))
BY WitnessIsARule DEF WitnessesAreRanked

\* What m emits if its rule keeps the controls: what it declares, or an sx for an
\* rx it declares.
LEMMA EmittedIsDeclared ==
  ASSUME RepositoryTable, TypeOK, NEW g \in Gate, Witnessed(g), NEW h \in Ops(Replacement(g)),
         Classify(g) \notin LosesControl
  PROVE  \/ Classify(h) \in WitnessOf(Classify(g)).produces
         \/ Classify(h) = "sx" /\ "rx" \in WitnessOf(Classify(g)).produces
<1> DEFINE m == Classify(g)
<1>1. m \in Entries /\ witness[m] # 0
  BY DEF Witnessed
<1> HIDE DEF m
<1>2. Yields(WitnessOf(m)) = WitnessOf(m).produces
                   \cup (IF "rx" \in WitnessOf(m).produces THEN {"sx"} ELSE {})
  BY <1>1, WitnessYields DEF m
<1>3. Classify(h) \in Yields(WitnessOf(m))
  BY EmittedClass DEF m
<1>4. \/ Classify(h) \in WitnessOf(m).produces
      \/ Classify(h) = "sx" /\ "rx" \in WitnessOf(m).produces
  BY <1>2, <1>3
<1> QED
  BY <1>4 DEF m

-----------------------------------------------------------------------------
\* Where an sx that stands for an rx is native, or no rx can be made, the rules that
\* keep the controls emit what they declare, on every native set and kernel.
THEOREM DeclaresWhatItEmits ==
  ASSUME RepositoryTable
  PROVE  Spec => []DeclaresItsEmissions
<1>1. TypeOK /\ RanksAreTimes /\ WitnessesAreRanked => DeclaresItsEmissions
  <2> SUFFICES ASSUME TypeOK, RanksAreTimes, WitnessesAreRanked, WalkBegins,
                      IsNative(native, "sx") \/ ~Resolved(native, witness, "rx"),
                      NEW g \in Gate, Classify(g) \notin LosesControl, Witnessed(g),
                      NEW i \in 1..Len(Replacement(g))
               PROVE  \/ IsNative(native, Classify(Replacement(g)[i]))
                      \/ Classify(Replacement(g)[i])
                           \in Table[Classify(g)][witness[Classify(g)]].produces
    BY DEF DeclaresItsEmissions, DeclaresFor, LosesControl
  <2> DEFINE m == Classify(g)
             h == Replacement(g)[i]
  <2>1. m \in Entries /\ witness[m] # 0 /\ h \in Ops(Replacement(g))
    BY DEF Witnessed, Ops
  <2>2. Table[m][witness[m]] = WitnessOf(m)
    BY <2>1, WitnessIsARule
  <2>3. CASE Classify(h) = "sx" /\ "rx" \in WitnessOf(m).produces
    <3>1. IsNative(native, "rx") \/ ("rx" \in Entries /\ rank["rx"] \in 1..(rank[m] - 1))
      BY <2>1, <2>3, DeclaredClass
    <3>2. Resolved(native, witness, "rx")
      BY <3>1 DEF Resolved, RanksAreTimes
    <3>3. IsNative(native, "sx")
      BY <3>2
    <3> QED
      BY <2>3, <3>3
  <2>4. CASE Classify(h) \in WitnessOf(m).produces
    BY <2>2, <2>4
  <2> QED
    BY <2>1, <2>3, <2>4, EmittedIsDeclared
<1> QED
  BY <1>1, TypeCorrect, RanksAreKept, PTL

-----------------------------------------------------------------------------
(***************************************************************************)
(* The number of rounds.  An operation may become one its rule does not    *)
(* declare, so the times at which witnesses were taken are no levels.      *)
(* These are: controlled rotations are above everything else, sx is at the *)
(* bottom, and the others are ordered by those times.                      *)
(***************************************************************************)
WitnessedEntries == {m \in Entries : witness[m] # 0}

NotAbove(m) ==
  IF witness[m] = 0 THEN {}
  ELSE IF m \in LosesControl THEN WitnessedEntries
  ELSE IF m = "sx" THEN {"sx"}
  ELSE {n \in WitnessedEntries \ LosesControl : rank[n] <= rank[m]}

TableLevel == [m \in Entries |-> Cardinality(NotAbove(m))]

LEMMA NotAboveFacts ==
  ASSUME TypeOK, NEW m \in Entries
  PROVE  /\ NotAbove(m) \in SUBSET WitnessedEntries /\ IsFiniteSet(NotAbove(m))
         /\ IsFiniteSet(WitnessedEntries)
         /\ witness[m] # 0 => m \in NotAbove(m)
         /\ m \notin LosesControl => NotAbove(m) \cap LosesControl = {}
<1>1. IsFiniteSet(WitnessedEntries)
  BY EntriesAssumption, FS_Subset DEF WitnessedEntries
<1>2. \A n \in Entries : rank[n] \in Nat
  BY DEF TypeOK
<1>3. NotAbove(m) \in SUBSET WitnessedEntries
  BY DEF NotAbove, WitnessedEntries
<1>4. witness[m] # 0 => m \in NotAbove(m)
  BY <1>2 DEF NotAbove, WitnessedEntries
<1>5. m \notin LosesControl => NotAbove(m) \cap LosesControl = {}
  BY DEF NotAbove, LosesControl
<1> QED
  BY <1>1, <1>3, <1>4, <1>5, FS_Subset

\* The size of a set that lacks an element of a larger one.
LEMMA SmallerSet ==
  ASSUME NEW T, IsFiniteSet(T), NEW S \in SUBSET T, NEW x \in T, x \notin S
  PROVE  Cardinality(S) + 1 <= Cardinality(T)
<1>1. S \in SUBSET (T \ {x}) /\ IsFiniteSet(T \ {x}) /\ Cardinality(T \ {x}) = Cardinality(T) - 1
  BY FS_RemoveElement
<1>2. Cardinality(S) <= Cardinality(T \ {x})
  BY <1>1, FS_Subset
<1>3. IsFiniteSet(S)
  BY FS_Subset
<1>4. Cardinality(S) \in Nat /\ Cardinality(T) \in Nat
  BY <1>3, FS_CardinalityType
<1> QED
  BY <1>1, <1>2, <1>4

LEMMA TwoElements ==
  ASSUME NEW T, IsFiniteSet(T), NEW x \in T, NEW y \in T, x # y
  PROVE  Cardinality({y}) + 1 <= Cardinality(T)
BY SmallerSet

\* A rewrite goes down.
LEMMA TableSinks ==
  ASSUME RepositoryTable, TypeOK, RanksAreTimes, WitnessesAreRanked,
         NEW g \in Gate, Witnessed(g), NEW h \in Ops(Replacement(g))
  PROVE  LevelOf(TableLevel, h) + 1 <= LevelOf(TableLevel, g)
<1> DEFINE m == Classify(g)
           p == Classify(h)
<1>1. m \in Entries /\ witness[m] # 0
  BY DEF Witnessed
<1>2. LevelOf(TableLevel, g) = Cardinality(NotAbove(m))
  BY <1>1 DEF LevelOf, TableLevel
<1>3. m \in NotAbove(m) /\ IsFiniteSet(NotAbove(m))
  BY <1>1, NotAboveFacts
<1>4. Cardinality(NotAbove(m)) \in Nat \ {0}
  BY <1>3, FS_CardinalityType, FS_EmptySet
<1>5. CASE p \notin Entries \/ (p \in Entries /\ witness[p] = 0)
  <2>1. LevelOf(TableLevel, h) = 0
    BY <1>5, FS_EmptySet DEF LevelOf, TableLevel, NotAbove
  <2> QED
    BY <1>2, <1>4, <2>1
<1>6. CASE p \in Entries /\ witness[p] # 0
  <2>1. LevelOf(TableLevel, h) = Cardinality(NotAbove(p))
    BY <1>6 DEF LevelOf, TableLevel
  <2>2. p \notin LosesControl
    <3>1. Yields(WitnessOf(m)) \cap LosesControl = {}
      BY <1>1, WitnessYields
    <3> QED
      BY <3>1, EmittedClass
  <2>3. ~IsNative(native, p) /\ NotAbove(p) \in SUBSET WitnessedEntries
    BY <1>6, NotAboveFacts DEF WitnessesAreRanked
  <2>4. CASE m \in LosesControl
    <3>1. NotAbove(m) = WitnessedEntries
      BY <1>1, <2>4 DEF NotAbove
    <3>2. m \notin NotAbove(p)
      BY <1>6, <2>2, <2>4, NotAboveFacts
    <3> QED
      BY <1>2, <1>3, <2>1, <2>3, <3>1, <3>2, SmallerSet
  <2>5. CASE m \notin LosesControl
    <3>1. ASSUME NEW q \in WitnessOf(m).produces, q \in Entries, rank[q] \in 1..(rank[m] - 1),
                 m # "sx"
          PROVE  q \in NotAbove(m) /\ q # m
      <4>1. witness[q] # 0 /\ rank[q] <= rank[m] /\ q # m
        BY <1>1, <3>1 DEF RanksAreTimes, TypeOK
      <4>2. q \notin LosesControl
        BY <1>1, <2>5, <3>1, WitnessYields
      <4> QED
        BY <1>1, <2>5, <3>1, <4>1, <4>2 DEF NotAbove, WitnessedEntries
    <3>2. m # "sx"
      <4>1. CASE m = "sx"
        <5>1. WitnessOf(m).produces = {"prx"}
          BY <1>1, <4>1, WitnessYields
        <5>2. p = "prx"
          BY <2>5, <5>1, EmittedIsDeclared
        <5>3. "prx" \notin Entries
          BY DEF RepositoryTable, DecompositionTable
        <5> QED
          BY <1>6, <5>2, <5>3
      <4> QED
        BY <4>1
    <3>3. CASE p = "sx" /\ "rx" \in WitnessOf(m).produces
      <4>1. "rx" \in Entries /\ rank["rx"] \in 1..(rank[m] - 1)
        <5>1. ~IsNative(native, "rx")
          BY <2>3, <3>3 DEF IsNative
        <5> QED
          BY <1>1, <3>3, <5>1, DeclaredClass
      <4>2. "rx" \in NotAbove(m) /\ "rx" # m
        BY <3>1, <3>2, <3>3, <4>1
      <4>3. NotAbove(p) = {"sx"}
        BY <1>6, <3>3 DEF NotAbove, LosesControl
      <4>4. Cardinality({"sx"}) = Cardinality({m})
        BY FS_Singleton
      <4> QED
        BY <1>2, <1>3, <2>1, <4>2, <4>3, <4>4, TwoElements
    <3>4. CASE p \in WitnessOf(m).produces
      <4>1. rank[p] \in 1..(rank[m] - 1)
        BY <1>1, <2>3, <3>4, DeclaredClass
      <4>2. p \in NotAbove(m) /\ p # m
        BY <1>6, <3>1, <3>2, <3>4, <4>1
      <4>3. CASE p = "sx"
        <5>1. NotAbove(p) = {p}
          BY <1>6, <4>3 DEF NotAbove, LosesControl
        <5> QED
          BY <1>2, <1>3, <2>1, <4>2, <5>1, TwoElements
      <4>4. CASE p # "sx"
        <5>1. /\ NotAbove(p) = {n \in WitnessedEntries \ LosesControl : rank[n] <= rank[p]}
              /\ NotAbove(m) = {n \in WitnessedEntries \ LosesControl : rank[n] <= rank[m]}
          BY <1>1, <1>6, <2>2, <2>5, <3>2, <4>4 DEF NotAbove
        <5>2. \A n \in WitnessedEntries : rank[n] \in Nat
          BY DEF WitnessedEntries, TypeOK
        <5>3. rank[m] \in Nat
          BY <1>1 DEF TypeOK
        <5>4. NotAbove(p) \in SUBSET NotAbove(m) /\ m \notin NotAbove(p)
          BY <4>1, <5>1, <5>2, <5>3
        <5> QED
          BY <1>2, <1>3, <2>1, <5>4, SmallerSet
      <4> QED
        BY <4>3, <4>4
    <3> QED
      BY <2>5, <3>3, <3>4, EmittedIsDeclared
  <2> QED
    BY <2>4, <2>5
<1> QED
  BY <1>5, <1>6

LEMMA TableHasLevels ==
  ASSUME RepositoryTable, TypeOK, RanksAreTimes, WitnessesAreRanked, WitnessesAreCounted
  PROVE  EmissionsSink
<1>1. ASSUME NEW m \in Entries
      PROVE  /\ TableLevel[m] \in Nat /\ TableLevel[m] <= assigned
             /\ TableLevel[m] # 0 <=> witness[m] # 0
  <2>1. /\ NotAbove(m) \in SUBSET WitnessedEntries /\ IsFiniteSet(NotAbove(m))
        /\ IsFiniteSet(WitnessedEntries) /\ TableLevel[m] = Cardinality(NotAbove(m))
        /\ assigned = Cardinality(WitnessedEntries)
    BY NotAboveFacts DEF TableLevel, WitnessesAreCounted, WitnessedEntries
  <2>2. NotAbove(m) = {} <=> witness[m] = 0
    BY NotAboveFacts DEF NotAbove
  <2> QED
    BY <2>1, <2>2, FS_Subset, FS_EmptySet, FS_CardinalityType
<1>2. TableLevel \in [Entries -> Nat]
  BY <1>1 DEF TableLevel
<1>3. IsLevel(TableLevel)
  BY <1>1, <1>2, TableSinks DEF IsLevel
<1> QED
  BY <1>2, <1>3 DEF EmissionsSink

LEMMA TableSinksAlways ==
  ASSUME RepositoryTable
  PROVE  Spec => []EmissionsSink
<1>1. TypeOK /\ RanksAreTimes /\ WitnessesAreRanked /\ WitnessesAreCounted => EmissionsSink
  BY TableHasLevels
<1> QED
  BY <1>1, TypeCorrect, RanksAreKept, Counted, PTL

\* With the repository's table, whatever the native set, the kernel and the order of
\* the sweeps, at most as many rounds as the table has entries rewrite anything, ...
THEOREM TableBoundsRounds ==
  ASSUME RepositoryTable
  PROVE  Spec => []RoundsAreBounded
BY TableSinksAlways, RoundsBounded, PTL

\* ... and a cap above that number, as the pass has, never ends the pass.
THEOREM TableNeverGivesUp ==
  ASSUME RepositoryTable, MaxRounds > Cardinality(Entries)
  PROVE  Spec => []~gaveUp
BY TableSinksAlways, NeverGivesUp, PTL

-----------------------------------------------------------------------------
(***************************************************************************)
(* The verdict.  A crz is left out: CrzToRzCu3 turns it into two operations   *)
(* the pass does not recognise.                                            *)
(***************************************************************************)
NoCrz == \A g \in Gate : Classify(g) # "crz"

\* Some chain of rules brings the mnemonic m into N.
Reaches(N, m) == IsNative(N, m) \/ (m \in Entries /\ m \in Legalizable(N))

\* A native set for which what the rules emit beyond what they declare is no trap: if
\* an rx can be made, so can an sx; if a crx can, so can the rz it turns into,
\* and if a cry can, so can the rx.
IsCoherent(N) ==
  /\ Reaches(N, "rx") => Reaches(N, "sx")
  /\ "crx" \in Entries \cap Legalizable(N) /\ ~IsNative(N, "crx") => Reaches(N, "rz")
  /\ "cry" \in Entries \cap Legalizable(N) /\ ~IsNative(N, "cry") => Reaches(N, "rx")

\* The documented device sets are of this kind.
LEMMA RotatingSetsAreCoherent ==
  ASSUME RepositoryTable, Entries = DOMAIN DecompositionTable, NEW N,
         "prx" \in N \/ ("rz" \in N /\ ("rx" \in N \/ "sx" \in N))
  PROVE  IsCoherent(N)
<1>1. /\ {"h", "rx", "sx", "rz"} \subseteq Entries
      /\ Table["h"] = DecompositionTable["h"] /\ Table["rx"] = DecompositionTable["rx"]
      /\ Table["sx"] = DecompositionTable["sx"] /\ Table["rz"] = DecompositionTable["rz"]
  BY DEF RepositoryTable, DecompositionTable
<1>2. ASSUME NEW S \in SUBSET Entries, IsClosed(N, S), NEW m \in Entries,
             NEW r \in 1..Len(Table[m]),
             \A p \in Table[m][r].produces : IsNative(N, p) \/ p \in S
      PROVE  m \in S
  BY <1>2 DEF IsClosed
<1>3. /\ 1 \in 1..Len(Table["h"]) /\ Table["h"][1].produces = {"rz", "sx"}
      /\ 1 \in 1..Len(Table["rx"]) /\ Table["rx"][1].produces = {"h", "rz"}
      /\ 2 \in 1..Len(Table["rx"]) /\ Table["rx"][2].produces = {"prx"}
      /\ 1 \in 1..Len(Table["sx"]) /\ Table["sx"][1].produces = {"prx"}
      /\ 3 \in 1..Len(Table["rz"]) /\ Table["rz"][3].produces = {"prx"}
  BY <1>1 DEF DecompositionTable, Rule
<1>4. ASSUME NEW S \in SUBSET Entries, IsClosed(N, S)
      PROVE  "rx" \in S /\ "rz" \in S /\ "sx" \in S
  <2>1. CASE "prx" \in N
    BY <1>1, <1>2, <1>3, <1>4, <2>1 DEF IsNative
  <2>2. CASE "rz" \in N /\ ("rx" \in N \/ "sx" \in N)
    <3>1. "rz" \in S /\ "sx" \in S
      BY <1>1, <1>4, <2>2 DEF IsClosed, IsNative
    <3>2. "h" \in S
      BY <1>1, <1>2, <1>3, <1>4, <3>1
    <3> QED
      BY <1>1, <1>2, <1>3, <1>4, <3>1, <3>2
  <2> QED
    BY <2>1, <2>2
<1> QED
  BY <1>1, <1>4 DEF IsCoherent, Reaches, Legalizable

\* After the sweeps a mnemonic is resolved if it can be reached.
LEMMA ResolvedIfReached ==
  ASSUME WitnessesAreComplete, pc # "sweep", NEW m
  PROVE  Resolved(native, witness, m) <=> Reaches(native, m)
BY DEF WitnessesAreComplete, Resolved, Reaches

\* On such native sets, what the rules emit has a rule itself or is native.
THEOREM TableEmitsResolvable ==
  ASSUME RepositoryTable, NoCrz, \A N \in NativeSets : IsCoherent(N)
  PROVE  Spec => []EmitsResolvable
<1>1. TypeOK /\ RanksAreTimes /\ WitnessesAreRanked /\ WitnessesAreComplete => EmitsResolvable
  <2> SUFFICES ASSUME TypeOK, RanksAreTimes, WitnessesAreRanked, WitnessesAreComplete,
                      WalkBegins, NEW g \in Gate, Witnessed(g), NEW h \in Ops(Replacement(g))
               PROVE  Classify(h) # None /\ Resolved(native, witness, Classify(h))
    BY DEF EmitsResolvable, Ops
  <2> DEFINE m == Classify(g)
             p == Classify(h)
             Res(q) == Resolved(native, witness, q)
  <2>1. m \in Entries /\ witness[m] # 0 /\ ~IsNative(native, m)
    BY DEF Witnessed, WitnessesAreRanked
  <2>2. m # "crz" /\ p \in Yields(WitnessOf(m))
    BY EmittedClass DEF NoCrz
  <2>3. p # None
    BY <2>1, <2>2, WitnessYields DEF RepositoryTable
  <2>4. \A q \in WitnessOf(m).produces : Res(q)
    BY <2>1, DeclaredClass DEF Resolved, RanksAreTimes
  <2>5. /\ Res("rx") => Res("sx")
        /\ m = "crx" => Res("rz")
        /\ m = "cry" => Res("rx")
    <3>1. \A q : Res(q) <=> Reaches(native, q)
      BY ResolvedIfReached DEF WalkBegins
    <3>2. m \in Legalizable(native)
      BY <2>1 DEF WitnessesAreComplete, Resolved, WalkBegins
    <3>3. IsCoherent(native)
      BY DEF TypeOK
    <3> HIDE DEF Res, m
    <3> QED
      BY <2>1, <3>1, <3>2, <3>3 DEF IsCoherent
  <2>6. CASE m \notin LosesControl
    <3>1. p \in WitnessOf(m).produces \/ (p = "sx" /\ "rx" \in WitnessOf(m).produces)
      BY <2>6, EmittedIsDeclared
    <3> QED
      BY <2>3, <2>4, <2>5, <3>1
  <2>7. CASE m = "crx"
    <3>1. "h" \in WitnessOf(m).produces /\ p \in {"h", "rz"}
      BY <2>1, <2>2, <2>7, WitnessYields
    <3> QED
      BY <2>3, <2>4, <2>5, <2>7, <3>1
  <2>8. CASE m = "cry"
    <3>1. "rz" \in WitnessOf(m).produces /\ p \in {"rz", "rx", "sx"}
      BY <2>1, <2>2, <2>8, WitnessYields
    <3> QED
      BY <2>3, <2>4, <2>5, <2>8, <3>1
  <2> QED
    BY <2>2, <2>6, <2>7, <2>8 DEF LosesControl
<1> QED
  BY <1>1, TypeCorrect, RanksAreKept, Complete, PTL

\* So the pass fails on exactly the kernels that hold a gate no chain of rules
\* legalizes, ...
THEOREM TableFailsOnlyIfItMust ==
  ASSUME RepositoryTable, NoCrz, \A N \in NativeSets : IsCoherent(N)
  PROVE  Spec => []FailsOnlyIfItMust
BY TableEmitsResolvable, FailsExactlyWhenStuck, PTL

\* ... and implements its contract.
THEOREM TableImplements ==
  ASSUME RepositoryTable, NoCrz, \A N \in NativeSets : IsCoherent(N),
         MaxRounds > Cardinality(Entries)
  PROVE  Spec => Abstract!Safety
BY TableEmitsResolvable, TableNeverGivesUp, Implements, PTL

\* What witnesses emit is recognised.
LEMMA TableRecognised ==
  ASSUME RepositoryTable, NoCrz
  PROVE  TypeOK => EmitsRecognised
<1> SUFFICES ASSUME TypeOK, NEW g \in Gate, Witnessed(g), NEW h \in Ops(Replacement(g))
             PROVE  Classify(h) # None
  BY DEF EmitsRecognised, IsForeign
<1> DEFINE m == Classify(g)
<1>1. m \in Entries /\ witness[m] # 0
  BY DEF Witnessed
<1>2. m # "crz" /\ Classify(h) \in Yields(WitnessOf(m))
  BY EmittedClass DEF NoCrz
<1> QED
  BY <1>1, <1>2, WitnessYields DEF RepositoryTable

\* Whatever the native set, a pass that succeeds leaves native gates only, next to
\* operations it does not recognise and was given.
THEOREM TableSucceedsNative ==
  ASSUME RepositoryTable, NoCrz
  PROVE  Spec => []SuccessIsNative
<1>1. TypeOK => EmitsRecognised
  BY TableRecognised
<1> QED
  BY <1>1, TypeCorrect, SuccessfulMeansNative, PTL

-----------------------------------------------------------------------------
(***************************************************************************)
(* All of this as one inductive invariant, for a program that runs the     *)
(* pass among others.                                                      *)
(***************************************************************************)
TableInv ==
  /\ TypeOK /\ WalkNotBegun
  /\ RanksAreTimes /\ WitnessesAreRanked /\ WitnessesAreCounted
  /\ EmissionsRecognised /\ NativeInv /\ RoundInv
  /\ ~gaveUp

LEMMA TableInvInit == Init => TableInv
<1>1. Init => TypeOK /\ WalkNotBegun
  BY TypeInit
<1>2. Init => RanksAreTimes /\ WitnessesAreRanked /\ EmissionsRecognised /\ NativeInv
              /\ RoundInv /\ ~gaveUp
  <2> SUFFICES ASSUME Init PROVE RanksAreTimes /\ WitnessesAreRanked /\ EmissionsRecognised
                                 /\ NativeInv /\ RoundInv /\ ~gaveUp
    OBVIOUS
  <2> QED
    BY DEF Init, RanksAreTimes, WitnessesAreRanked, EmissionsRecognised, NativeInv, RoundInv
<1>3. Init => WitnessesAreCounted
  <2> SUFFICES ASSUME Init PROVE WitnessesAreCounted
    OBVIOUS
  <2>1. {m \in Entries : witness[m] # 0} = {}
    BY DEF Init
  <2> QED
    BY <2>1, FS_EmptySet DEF Init, WitnessesAreCounted
<1> QED
  BY <1>1, <1>2, <1>3 DEF TableInv

LEMMA TableInvStep ==
  ASSUME RepositoryTable, NoCrz, MaxRounds > Cardinality(Entries)
  PROVE  TableInv /\ [Next]_vars => TableInv'
<1>1. TypeOK /\ WalkNotBegun /\ [Next]_vars => TypeOK' /\ WalkNotBegun'
  BY TypeStep
<1>2. TypeOK /\ RanksAreTimes /\ WitnessesAreRanked /\ WitnessesAreCounted /\ [Next]_vars
        => RanksAreTimes' /\ WitnessesAreRanked' /\ WitnessesAreCounted'
  BY RankStep, CountStep
<1>3. TypeOK => EmitsRecognised
  BY TableRecognised
<1>4. TypeOK /\ RanksAreTimes /\ WitnessesAreRanked /\ WitnessesAreCounted => EmissionsSink
  BY TableHasLevels
<1>5. TypeOK' => EmitsRecognised'
  BY <1>3, PTL
<1>6. TypeOK' /\ RanksAreTimes' /\ WitnessesAreRanked' /\ WitnessesAreCounted' => EmissionsSink'
  BY <1>4, PTL
<1>7. /\ TypeOK /\ WalkNotBegun /\ EmissionsRecognised /\ EmitsRecognised' /\ [Next]_vars
      => EmissionsRecognised'
  BY RecognisedStep
<1>8. TypeOK /\ WalkNotBegun /\ NativeInv /\ EmissionsRecognised /\ [Next]_vars => NativeInv'
  BY NativeStep
<1>9. /\ TypeOK /\ WalkNotBegun /\ WitnessesAreRanked /\ RoundInv /\ EmissionsSink'
      /\ [Next]_vars
      => RoundInv'
  BY RoundStep
<1>10. TypeOK /\ WitnessesAreCounted /\ RoundInv => RoundsAreBounded
  BY RoundInvGives
<1>11. TypeOK /\ RoundsAreBounded /\ ~gaveUp /\ [Next]_vars => ~gaveUp'
  BY CapIsFar
<1> QED
  BY <1>1, <1>2, <1>5, <1>6, <1>7, <1>8, <1>9, <1>10, <1>11 DEF TableInv

LEMMA TableInvGives == TableInv => TypeOK /\ SuccessIsNative /\ ~gaveUp
BY DEF TableInv, NativeInv, SuccessIsNative, Ops, IsDone, IsForeign, IsLegal
=============================================================================
