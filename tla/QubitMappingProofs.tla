------------------------- MODULE QubitMappingProofs -------------------------
(***************************************************************************)
(* Theorems about QubitMapping, for any device, any kernels, any number of *)
(* swaps and whatever the mapper chooses.                                  *)
(***************************************************************************)
EXTENDS QubitMapping, SequenceProofs

\* A sequence of operations on coupled qubits.
CoupledSeq(s) ==
  /\ \E S : s \in Seq(S)
  /\ \A i \in DOMAIN s : Coupled(s[i])

BeforeMapping == phase \in {"load", "skipped"}
Mapping == phase \in {"map", "rebuild", "resolve", "erase", "done", "aborted"}

\* What the mapper was given and has made so far.
MapperInv ==
  /\ BeforeMapping => emitted = {}
  /\ Mapping => layout \in Injection(Program, Physical)
  /\ CoupledSeq(mapped)

\* What has become of the kernel.
BodyInv ==
  /\ phase \in {"load", "skipped", "map", "rebuild", "resolve"} => reads = <<>>
  /\ phase \in {"resolve", "erase", "done"} =>
       DOMAIN new \subseteq Nat /\ \A i \in DOMAIN new : Coupled(new[i])
  /\ phase \in {"erase", "done"} => \A i \in old : ~IsMeasurement(ops[i])
  /\ phase = "done" => \A i \in old : GateTy(ops[i]) = "UNKNOWN"

IInv == TypeOK /\ MapperInv /\ BodyInv

-----------------------------------------------------------------------------
\* Operations with no control and one target, and swaps of coupled qubits.
LEMMA CoupledMz ==
  ASSUME NEW q
  PROVE  Coupled(Mz(q))
BY DEF Coupled, Mz, Qubits, ToSet

LEMMA CoupledSwap ==
  ASSUME NEW e \in Coupling
  PROVE  Coupled(SwapOf(e[1], e[2]))
<1>1. <<e[1], e[2]>> \in Coupling /\ <<e[2], e[1]>> \in Coupling
  BY CouplingAssumption
<1>2. Qubits(SwapOf(e[1], e[2])) = {e[1], e[2]}
  BY DEF SwapOf, Qubits, ToSet
<1> QED
  BY <1>1, <1>2 DEF Coupled

\* What is created for an operation acts on no other qubits.
LEMMA CoupledRebuilt ==
  ASSUME NEW g, Coupled(g)
  PROVE  Coupled(Rebuilt(g))
<1>1. Qubits(Rebuilt(g)) \subseteq Qubits(g)
  BY DEF Rebuilt, createQuakeGate, Qubits, ToSet
<1> QED
  BY <1>1 DEF Coupled

LEMMA AppendCoupled ==
  ASSUME NEW s, CoupledSeq(s), NEW g, Coupled(g)
  PROVE  CoupledSeq(Append(s, g))
<1>1. PICK S : s \in Seq(S)
  BY DEF CoupledSeq
<1>2. s \in Seq(S \cup {g})
  BY <1>1
<1>3. Append(s, g) \in Seq(S \cup {g})
  BY <1>2
<1>4. \A i \in DOMAIN Append(s, g) : Coupled(Append(s, g)[i])
  BY <1>2 DEF CoupledSeq
<1> QED
  BY <1>3, <1>4 DEF CoupledSeq

LEMMA ConcatCoupled ==
  ASSUME NEW s, CoupledSeq(s), NEW t, CoupledSeq(t)
  PROVE  CoupledSeq(s \o t)
<1>1. PICK S : s \in Seq(S)
  BY DEF CoupledSeq
<1>2. PICK T : t \in Seq(T)
  BY DEF CoupledSeq
<1>3. s \in Seq(S \cup T) /\ t \in Seq(S \cup T)
  BY <1>1, <1>2
<1>4. s \o t \in Seq(S \cup T)
  BY <1>3
<1>5. \A i \in DOMAIN (s \o t) : Coupled((s \o t)[i])
  BY <1>3 DEF CoupledSeq
<1> QED
  BY <1>4, <1>5 DEF CoupledSeq

\* The measurements at the end are a sequence, each of one qubit.
LEMMA MeasurementsCoupled ==
  ASSUME layout \in Injection(Program, Physical), NEW qubits \in MeasuredSets
  PROVE  CoupledSeq(FinalMeasurements(qubits))
<1>1. Cardinality(qubits) \in Nat
  <2>1. qubits \subseteq Physical
    BY DEF MeasuredSets, Held, HeldAndMeasured, Injection
  <2>2. IsFiniteSet(Physical)
    BY FS_Interval, NumQubitsAssumption DEF Physical
  <2> QED
    BY <2>1, <2>2, FS_Subset, FS_CardinalityType
<1> DEFINE T == {Mz(Nth(qubits, i)) : i \in 1 .. Cardinality(qubits)}
<1>2. FinalMeasurements(qubits) \in Seq(T)
  BY <1>1 DEF FinalMeasurements
<1>3. \A i \in DOMAIN FinalMeasurements(qubits) : Coupled(FinalMeasurements(qubits)[i])
  BY <1>1, CoupledMz DEF FinalMeasurements
<1> QED
  BY <1>2, <1>3 DEF CoupledSeq

-----------------------------------------------------------------------------
\* Initially nothing is mapped and the kernel is whole.
LEMMA IInvInit == Init => IInv
<1> SUFFICES ASSUME Init PROVE IInv
  OBVIOUS
<1>1. TypeOK
  BY DEF Init, TypeOK, Phases
<1>2. CoupledSeq(mapped)
  <2>1. mapped \in Seq({}) /\ DOMAIN mapped = {}
    BY DEF Init
  <2> QED
    BY <2>1 DEF CoupledSeq
<1>3. MapperInv /\ BodyInv
  BY <1>2 DEF Init, MapperInv, BodyInv, BeforeMapping, Mapping
<1> QED
  BY <1>1, <1>3 DEF IInv

\* The mapper's steps: a swap keeps the layout injective, and only operations on
\* coupled qubits are emitted.
LEMMA MapSwapStep ==
  ASSUME IInv, MapSwap
  PROVE  IInv'
<1> USE DEF IInv
<1>1. PICK e \in Coupling :
        /\ layout' = [a \in Program |->
             IF layout[a] = e[1] THEN e[2]
             ELSE IF layout[a] = e[2] THEN e[1] ELSE layout[a]]
        /\ mapped' = Append(mapped, SwapOf(e[1], e[2]))
  BY DEF MapSwap
<1>2. /\ phase = "map" /\ phase' = phase /\ kernel' = kernel /\ circuit' = circuit
      /\ emitted' = emitted /\ new' = new /\ old' = old /\ reads' = reads
  BY DEF MapSwap, body
<1>3. layout' \in Injection(Program, Physical)
  <2>1. layout \in Injection(Program, Physical)
    BY <1>2 DEF MapperInv, Mapping
  <2>2. e[1] \in Physical /\ e[2] \in Physical
    BY CouplingAssumption
  <2> QED
    BY <1>1, <2>1, <2>2 DEF Injection, IsInjective
<1>4. CoupledSeq(mapped')
  BY <1>1, CoupledSwap, AppendCoupled DEF MapperInv
<1>5. TypeOK'
  BY <1>2, <1>3 DEF TypeOK, Program, NewMeasurements, ops
<1>6. MapperInv'
  BY <1>2, <1>3, <1>4 DEF MapperInv, BeforeMapping, Program, CoupledSeq, Coupled
<1>7. BodyInv'
  BY <1>2 DEF BodyInv
<1> QED
  BY <1>5, <1>6, <1>7

LEMMA MapGateStep ==
  ASSUME IInv, MapGate
  PROVE  IInv'
<1> USE DEF IInv
<1>1. PICK i \in Gates \ emitted :
        /\ Coupled(Placed(circuit[i]))
        /\ emitted' = emitted \cup {i}
        /\ mapped' = Append(mapped, Placed(circuit[i]))
  BY DEF MapGate
<1>2. /\ phase = "map" /\ phase' = phase /\ kernel' = kernel /\ circuit' = circuit
      /\ layout' = layout /\ new' = new /\ old' = old /\ reads' = reads
  BY DEF MapGate, body
<1>3. CoupledSeq(mapped')
  BY <1>1, AppendCoupled DEF MapperInv
<1>4. TypeOK'
  BY <1>1, <1>2 DEF TypeOK, Gates, Program, NewMeasurements, ops
<1>5. MapperInv'
  BY <1>2, <1>3 DEF MapperInv, BeforeMapping, Mapping, Program, CoupledSeq, Coupled
<1>6. BodyInv'
  BY <1>2 DEF BodyInv
<1> QED
  BY <1>4, <1>5, <1>6

LEMMA MapEndsStep ==
  ASSUME IInv, MapEnds
  PROVE  IInv'
<1> USE DEF IInv
<1>1. /\ phase = "map" /\ phase' \in {"failed", "rebuild"} /\ kernel' = kernel
      /\ circuit' = circuit /\ emitted' = emitted /\ layout' = layout
      /\ new' = new /\ old' = old /\ reads' = reads
  BY DEF MapEnds, body
<1>2. layout \in Injection(Program, Physical)
  BY <1>1 DEF MapperInv, Mapping
<1>3. CoupledSeq(mapped')
  BY <1>2, MeasurementsCoupled, ConcatCoupled DEF MapEnds, MapperInv
<1>4. TypeOK'
  BY <1>1, <1>2 DEF TypeOK, Phases, Program, NewMeasurements, ops
<1>5. MapperInv'
  BY <1>1, <1>2, <1>3 DEF MapperInv, BeforeMapping, Mapping, Program, CoupledSeq, Coupled
<1>6. BodyInv'
  BY <1>1 DEF BodyInv
<1> QED
  BY <1>4, <1>5, <1>6

\* What is created acts on the qubits of the mapped circuit's operations.
LEMMA RebuildStep ==
  ASSUME IInv, Rebuild
  PROVE  IInv'
<1> USE DEF IInv
<1>1. /\ phase = "rebuild" /\ phase' \in {"resolve", "failed"} /\ kernel' = kernel
      /\ circuit' = circuit /\ emitted' = emitted /\ layout' = layout
      /\ mapped' = mapped /\ old' = old /\ reads' = reads
  BY DEF Rebuild, mapper
<1>2. TypeOK'
  BY <1>1 DEF TypeOK, Phases, BodyInv, Program, ops
<1>3. MapperInv'
  BY <1>1 DEF MapperInv, BeforeMapping, Mapping, Program, CoupledSeq, Coupled
<1>4. ASSUME phase' = "resolve", NEW i \in DOMAIN new'
      PROVE  Coupled(new'[i])
  <2>1. new' = [j \in 1 .. Len(mapped) |-> Rebuilt(mapped[j])]
    BY <1>4 DEF Rebuild, Created
  <2>2. i \in DOMAIN mapped
    BY <1>4, <2>1 DEF MapperInv, CoupledSeq
  <2> QED
    BY <2>1, <2>2, CoupledRebuilt DEF MapperInv, CoupledSeq
<1>5. ASSUME phase' = "resolve" PROVE DOMAIN new' \subseteq Nat
  <2>1. Len(mapped) \in Nat /\ DOMAIN new' = 1 .. Len(mapped)
    BY <1>5 DEF Rebuild, Created, MapperInv, CoupledSeq
  <2> QED
    BY <2>1
<1>6. BodyInv'
  BY <1>1, <1>4, <1>5 DEF BodyInv, Coupled
<1> QED
  BY <1>2, <1>3, <1>6

\* Old measurements are redirected to a new one and erased.
LEMMA ResolveStep ==
  ASSUME IInv, Resolve
  PROVE  IInv'
<1> USE DEF IInv
<1>1. /\ phase = "resolve" /\ phase' = "erase" /\ kernel' = kernel
      /\ circuit' = circuit /\ emitted' = emitted /\ layout' = layout
      /\ mapped' = mapped /\ new' = new /\ old' = old \ OldMeasurements
      /\ reads' = [i \in OldMeasurements |-> NewMeasureOps0]
  BY DEF Resolve, mapper
<1>2. ASSUME NEW i \in DOMAIN reads' PROVE reads'[i] \in NewMeasurements
  <2>1. NewMeasurements # {}
    BY <1>1, <1>2 DEF Resolve
  <2>2. NewMeasurements \subseteq Nat
    BY <1>1 DEF NewMeasurements, BodyInv
  <2> QED
    BY <1>1, <1>2, <2>1, <2>2, MinOfNats DEF NewMeasureOps0
<1>3. TypeOK'
  BY <1>1, <1>2 DEF TypeOK, Phases, Program, ops, NewMeasurements, MapperInv, Mapping
<1>4. MapperInv'
  BY <1>1 DEF MapperInv, BeforeMapping, Mapping, Program, CoupledSeq, Coupled
<1>5. BodyInv'
  BY <1>1 DEF BodyInv, OldMeasurements, ops, Coupled
<1> QED
  BY <1>3, <1>4, <1>5

\* The old gates of known types are erased.
LEMMA EraseStep ==
  ASSUME IInv, Erase
  PROVE  IInv'
<1> USE DEF IInv
<1>1. /\ phase = "erase" /\ phase' = "done" /\ kernel' = kernel
      /\ circuit' = circuit /\ emitted' = emitted /\ layout' = layout
      /\ mapped' = mapped /\ new' = new /\ reads' = reads /\ old' = old \ ToErase
  BY DEF Erase, mapper
<1>2. TypeOK'
  BY <1>1 DEF TypeOK, Phases, Program, ops, NewMeasurements
<1>3. MapperInv'
  BY <1>1 DEF MapperInv, BeforeMapping, Mapping, Program, CoupledSeq, Coupled
<1>4. BodyInv'
  BY <1>1 DEF BodyInv, ToErase, ops, Coupled
<1> QED
  BY <1>2, <1>3, <1>4

\* The kernel is loaded, the mapper takes some layout.
LEMMA LoadStep ==
  ASSUME IInv, Load
  PROVE  IInv'
<1> USE DEF IInv
<1>1. /\ phase = "load" /\ phase' = "map" /\ kernel' = kernel /\ emitted' = emitted
      /\ layout' \in Injection(Program, Physical)
      /\ mapped' = mapped /\ new' = new /\ old' = old /\ reads' = reads
  BY DEF Load, body
<1>2. TypeOK'
  BY <1>1 DEF TypeOK, Phases, Program, ops, NewMeasurements, MapperInv, BeforeMapping
<1>3. MapperInv'
  BY <1>1 DEF MapperInv, BeforeMapping, Mapping, Program, CoupledSeq, Coupled
<1>4. BodyInv'
  BY <1>1 DEF BodyInv
<1> QED
  BY <1>2, <1>3, <1>4

\* The pass gives the kernel up.
LEMMA StopStep ==
  ASSUME IInv, UNCHANGED <<kernel, mapper, body>>,
         \/ phase = "load" /\ phase' = "skipped"
         \/ phase' = "failed"
         \/ phase \in {"resolve", "erase"} /\ phase' = "aborted"
  PROVE  IInv'
<1> USE DEF IInv
<1>1. TypeOK'
  BY DEF TypeOK, Phases, Program, ops, NewMeasurements, mapper, body
<1>2. MapperInv'
  BY DEF MapperInv, BeforeMapping, Mapping, Program, CoupledSeq, Coupled, mapper
<1>3. BodyInv'
  BY DEF BodyInv, body
<1> QED
  BY <1>1, <1>2, <1>3

\* Every step keeps the invariant.
LEMMA IInvStep ==
  ASSUME IInv, [Next]_vars
  PROVE  IInv'
<1>1. CASE Skip \/ LoadFails \/ MapFails \/ ResolveAborts \/ EraseAborts
  BY <1>1, StopStep DEF Skip, LoadFails, MapFails, ResolveAborts, EraseAborts
<1>2. CASE Load
  BY <1>2, LoadStep
<1>3. CASE MapSwap
  BY <1>3, MapSwapStep
<1>4. CASE MapGate
  BY <1>4, MapGateStep
<1>5. CASE MapEnds
  BY <1>5, MapEndsStep
<1>6. CASE Rebuild
  BY <1>6, RebuildStep
<1>7. CASE Resolve
  BY <1>7, ResolveStep
<1>8. CASE Erase
  BY <1>8, EraseStep
<1>9. CASE UNCHANGED vars
  BY <1>9 DEF vars, mapper, body, IInv, TypeOK, MapperInv, BodyInv, BeforeMapping, Mapping,
              Program, ops, NewMeasurements, CoupledSeq, Coupled
<1> QED
  BY <1>1, <1>2, <1>3, <1>4, <1>5, <1>6, <1>7, <1>8, <1>9 DEF Next

\* The invariant holds in every reachable state.
THEOREM Invariant == Spec => []IInv
<1>1. IInv /\ [Next]_vars => IInv'
  BY IInvStep
<1> QED
  BY IInvInit, <1>1, PTL DEF Spec

\* The variables have their types in every reachable state; no two qubits of the
\* kernel are ever on one physical qubit.
THEOREM TypeCorrect == Spec => []TypeOK
<1>1. IInv => TypeOK
  BY DEF IInv
<1> QED
  BY Invariant, <1>1, PTL

\* A mapped kernel of operations that are all loaded respects the coupling map,
\* whatever layout and swaps the mapper chose.
THEOREM Connects == Spec => []ConnectsWhatIsLoaded
<1>1. ASSUME IInv PROVE ConnectsWhatIsLoaded
  <2> SUFFICES ASSUME \A i \in DOMAIN ops : InCircuit(ops[i]), phase = "done"
               PROVE  /\ \A i \in DOMAIN new : Coupled(new[i])
                      /\ \A i \in old : Coupled(ops[i])
    BY DEF ConnectsWhatIsLoaded, RespectsConnectivity
  <2>1. old = {}
    BY <1>1 DEF IInv, TypeOK, BodyInv, InCircuit
  <2> QED
    BY <1>1, <2>1 DEF IInv, BodyInv
<1> QED
  BY Invariant, <1>1, PTL
-----------------------------------------------------------------------------
(***************************************************************************)
(* The gates the pass creates.                                             *)
(***************************************************************************)
Rotations == {"rx", "ry", "rz"}

\* What loadGates makes of the operations it has a case for: the number of
\* operands and angles of each, and where there is an adjoint.
IsSimple(g) ==
  /\ g.op \in Rotations \cup {"mz", "h", "x", "y", "z", "s", "t", "swap", "phased_rx"}
  /\ g.adj => g.op \in {"s", "t"}
  /\ Len(g.ctl) = 0 \/ (Len(g.ctl) = 1 /\ g.op \in {"x", "z"})
  /\ Len(g.tgt) = IF g.op = "swap" THEN 2 ELSE 1
  /\ Len(g.par) = IF g.op \in Rotations THEN 1 ELSE IF g.op = "phased_rx" THEN 2 ELSE 0

SimpleOps == {g \in Operations : IsSimple(g)}

\* The types of operations that can be loaded.
LEMMA LoadableOps ==
  ASSUME NEW g, GateTy(g) \in LoadableTypes
  PROVE  /\ g.op \in Rotations \cup {"h", "x", "y", "z", "s", "t", "swap", "phased_rx"}
         /\ GateTy(g) \in {"CNOT", "CZ"} => g.op \in {"x", "z"} /\ g.ctl # <<>>
         /\ GateTy(g) \in {"RX", "RY", "RZ"} <=> g.op \in Rotations
         /\ GateTy(g) = "PhasedRx" <=> g.op = "phased_rx"
         /\ GateTy(g) = "SWAP" <=> g.op = "swap"
         /\ GateTy(g) \in {"SAdj", "TAdj"} => g.op \in {"s", "t"}
BY DEF GateTy, parseGateTy, isQuakeQuantumGate, LoadableTypes, Rotations

LEMMA LoadedIsSimple ==
  ASSUME NEW g \in Operations, ~IsMeasurement(g), CanLoadOp(g)
  PROVE  LoadOp(g) \in SimpleOps /\ Qubits(LoadOp(g)) \subseteq Qubits(g)
<1> DEFINE ctl == IF GateTy(g) \in {"CNOT", "CZ"} THEN g.ctl ELSE <<>>
           tgt == IF GateTy(g) = "SWAP" THEN <<g.tgt[1], g.tgt[1]>> ELSE <<g.tgt[1]>>
           par == IF GateTy(g) \in {"RX", "RY", "RZ", "PhasedRx"} THEN g.par ELSE <<>>
           adj == g.adj /\ GateTy(g) \in {"SAdj", "TAdj"}
           l == LoadOp(g)
<1>1. l.op = g.op /\ l.adj = adj /\ l.ctl = ctl /\ l.tgt = tgt /\ l.par = par
      /\ l = [op |-> g.op, adj |-> adj, ctl |-> ctl, tgt |-> tgt, par |-> par]
  BY DEF LoadOp, Operations
<1>2. GateTy(g) \in LoadableTypes /\ Len(g.ctl) <= 1 /\ Len(g.tgt) \in {1, 2}
  BY DEF CanLoadOp
<1>3. g.tgt[1] \in Nat /\ g.tgt[1] \in ToSet(g.tgt)
  <2>1. g.tgt \in Seq(Nat)
    BY DEF Operations
  <2>2. 1 \in DOMAIN g.tgt
    BY <1>2, <2>1
  <2> QED
    BY <2>1, <2>2 DEF ToSet
<1>4. ctl \in Seq(Nat) /\ (Len(ctl) = 0 \/ (Len(ctl) = 1 /\ g.op \in {"x", "z"}))
  <2>1. g.ctl \in Seq(Nat)
    BY DEF Operations
  <2>2. CASE GateTy(g) \in {"CNOT", "CZ"}
    <3>1. g.op \in {"x", "z"} /\ g.ctl # <<>>
      BY <1>2, <2>2, LoadableOps
    <3>2. Len(g.ctl) # 0
      BY <2>1, <3>1
    <3>3. Len(g.ctl) = 1
      <4>1. Len(g.ctl) \in Nat
        BY <2>1
      <4>2. \A n \in Nat : n # 0 /\ n <= 1 => n = 1
        OBVIOUS
      <4> QED
        BY <1>2, <3>2, <4>1, <4>2, Zenon
    <3> QED
      BY <2>1, <2>2, <3>1, <3>3
  <2>3. CASE GateTy(g) \notin {"CNOT", "CZ"}
    BY <2>3
  <2> QED
    BY <2>2, <2>3
<1>5. tgt \in Seq(Nat) /\ Len(tgt) = IF g.op = "swap" THEN 2 ELSE 1
  BY <1>2, <1>3, LoadableOps
<1>6. /\ par \in Seq(Int)
      /\ Len(par) = IF g.op \in Rotations THEN 1 ELSE IF g.op = "phased_rx" THEN 2 ELSE 0
  <2>1. g.par \in Seq(Int)
    BY DEF Operations
  <2>2. /\ GateTy(g) \in {"RX", "RY", "RZ"} => Len(g.par) = 1
        /\ GateTy(g) = "PhasedRx" => Len(g.par) = 2
    BY DEF CanLoadOp, ParametersFit
  <2>3. CASE GateTy(g) \in {"RX", "RY", "RZ"}
    <3>1. g.op \in Rotations
      BY <1>2, <2>3, LoadableOps
    <3> QED
      BY <2>1, <2>2, <2>3, <3>1
  <2>4. CASE GateTy(g) = "PhasedRx"
    <3>1. g.op = "phased_rx"
      BY <1>2, <2>4, LoadableOps
    <3> QED
      BY <2>1, <2>2, <2>4, <3>1 DEF Rotations
  <2>5. CASE GateTy(g) \notin {"RX", "RY", "RZ", "PhasedRx"}
    <3>1. g.op \notin Rotations /\ g.op # "phased_rx"
      BY <1>2, <2>5, LoadableOps
    <3> QED
      BY <2>5, <3>1
  <2> QED
    BY <2>3, <2>4, <2>5
<1>7. adj \in BOOLEAN /\ (adj => g.op \in {"s", "t"})
  BY <1>2, LoadableOps DEF Operations
<1>8. ToSet(ctl) \subseteq Qubits(g) /\ ToSet(tgt) \subseteq Qubits(g)
  <2>1. ToSet(ctl) \subseteq ToSet(g.ctl)
    BY DEF ToSet
  <2>2. ToSet(tgt) = {g.tgt[1]}
    BY DEF ToSet
  <2> QED
    BY <1>3, <2>1, <2>2 DEF Qubits
<1>9. g.op \in Rotations \cup {"h", "x", "y", "z", "s", "t", "swap", "phased_rx"}
      /\ g.op \in QuakeOps
  BY <1>2, LoadableOps DEF Operations
<1> HIDE DEF ctl, tgt, par, adj, l
<1>10. l \in Operations
  BY <1>1, <1>4, <1>5, <1>6, <1>7, <1>9 DEF Operations
<1>11. IsSimple(l)
  BY <1>1, <1>4, <1>5, <1>6, <1>7, <1>9 DEF IsSimple
<1>12. Qubits(l) \subseteq Qubits(g)
  BY <1>1, <1>8 DEF Qubits
<1> QED
  BY <1>10, <1>11, <1>12 DEF SimpleOps, l

\* The operands of a gate are renamed.
LEMMA PlacedIsSimple ==
  ASSUME layout \in Injection(Program, Physical),
         NEW g \in SimpleOps, Qubits(g) \subseteq Program
  PROVE  Placed(g) \in SimpleOps
<1> DEFINE ctl == [i \in DOMAIN g.ctl |-> layout[g.ctl[i]]]
           tgt == [i \in DOMAIN g.tgt |-> layout[g.tgt[i]]]
           l == Placed(g)
<1>1. g \in Operations /\ IsSimple(g)
  BY DEF SimpleOps
<1>2. l.op = g.op /\ l.adj = g.adj /\ l.ctl = ctl /\ l.tgt = tgt /\ l.par = g.par
      /\ l = [op |-> g.op, adj |-> g.adj, ctl |-> ctl, tgt |-> tgt, par |-> g.par]
  <2>1. g = [op |-> g.op, adj |-> g.adj, ctl |-> g.ctl, tgt |-> g.tgt, par |-> g.par]
    BY <1>1 DEF Operations
  <2>2. l = [[g EXCEPT !.ctl = ctl] EXCEPT !.tgt = tgt]
    BY <2>1 DEF Placed
  <2> HIDE DEF l, ctl, tgt
  <2> QED
    BY <2>1, <2>2
<1>3. \A a \in Program : layout[a] \in Nat
  BY NumQubitsAssumption DEF Injection, Physical
<1>4. ctl \in Seq(Nat) /\ Len(ctl) = Len(g.ctl)
  <2>1. g.ctl \in Seq(Nat) /\ \A i \in DOMAIN g.ctl : g.ctl[i] \in Program
    BY <1>1 DEF Operations, Qubits, ToSet
  <2>2. Len(g.ctl) \in Nat /\ DOMAIN g.ctl = 1 .. Len(g.ctl)
    BY <2>1
  <2>3. ctl = [i \in 1 .. Len(g.ctl) |-> layout[g.ctl[i]]]
    BY <2>2
  <2>4. \A i \in 1 .. Len(g.ctl) : layout[g.ctl[i]] \in Nat
    BY <1>3, <2>1, <2>2
  <2> HIDE DEF ctl
  <2> QED
    BY <2>2, <2>3, <2>4
<1>5. tgt \in Seq(Nat) /\ Len(tgt) = Len(g.tgt)
  <2>1. g.tgt \in Seq(Nat) /\ \A i \in DOMAIN g.tgt : g.tgt[i] \in Program
    BY <1>1 DEF Operations, Qubits, ToSet
  <2>2. Len(g.tgt) \in Nat /\ DOMAIN g.tgt = 1 .. Len(g.tgt)
    BY <2>1
  <2>3. tgt = [i \in 1 .. Len(g.tgt) |-> layout[g.tgt[i]]]
    BY <2>2
  <2>4. \A i \in 1 .. Len(g.tgt) : layout[g.tgt[i]] \in Nat
    BY <1>3, <2>1, <2>2
  <2> HIDE DEF tgt
  <2> QED
    BY <2>2, <2>3, <2>4
<1> HIDE DEF ctl, tgt, l
<1>6. l \in Operations
  BY <1>1, <1>2, <1>4, <1>5 DEF Operations
<1>7. IsSimple(l)
  BY <1>1, <1>2, <1>4, <1>5 DEF IsSimple
<1> QED
  BY <1>6, <1>7 DEF SimpleOps, l

LEMMA SwapIsSimple ==
  ASSUME NEW e \in Coupling
  PROVE  SwapOf(e[1], e[2]) \in SimpleOps
<1>1. e[1] \in Nat /\ e[2] \in Nat
  BY CouplingAssumption, NumQubitsAssumption DEF Physical
<1>2. <<e[1], e[2]>> \in Seq(Nat) /\ Len(<<e[1], e[2]>>) = 2
  BY <1>1
<1> DEFINE tgt == <<e[1], e[2]>>
<1> HIDE DEF tgt
<1>3. SwapOf(e[1], e[2]) = [op |-> "swap", adj |-> FALSE, ctl |-> <<>>, tgt |-> tgt, par |-> <<>>]
  BY DEF SwapOf, tgt
<1>4. tgt \in Seq(Nat) /\ Len(tgt) = 2
  BY <1>2 DEF tgt
<1> QED
  BY <1>3, <1>4 DEF SimpleOps, Operations, QuakeOps, IsSimple, Rotations

LEMMA MzIsSimple ==
  ASSUME NEW q \in Nat
  PROVE  Mz(q) \in SimpleOps
<1> DEFINE tgt == <<q>>
<1>1. tgt \in Seq(Nat) /\ Len(tgt) = 1
  OBVIOUS
<1>2. Mz(q) = [op |-> "mz", adj |-> FALSE, ctl |-> <<>>, tgt |-> tgt, par |-> <<>>]
  BY DEF Mz
<1> HIDE DEF tgt
<1>3. Mz(q) \in Operations
  BY <1>1, <1>2 DEF Operations, QuakeOps
<1>4. IsSimple(Mz(q))
  BY <1>1, <1>2 DEF IsSimple, Rotations
<1> QED
  BY <1>3, <1>4 DEF SimpleOps

\* What createQuakeGate makes of the types that have a case.
LEMMA BuilderOfTypes ==
  ASSUME NEW g, GateTy(g) \in RebuildableTypes
  PROVE  LET b == Builder(GateTy(g))
         IN /\ b.op = g.op /\ b.op # "phased_rx"
            /\ b.adj \in BOOLEAN /\ (b.adj => g.op \in {"s", "t"})
            /\ b.ctl \in BOOLEAN
            /\ b.par \in BOOLEAN /\ (g.op \in Rotations => b.par)
<1>1. /\ GateTy(g) = "PauliX" \/ GateTy(g) = "CNOT" => g.op = "x"
      /\ GateTy(g) = "PauliY" => g.op = "y"
      /\ GateTy(g) = "PauliZ" \/ GateTy(g) = "CZ" => g.op = "z"
      /\ GateTy(g) = "H" => g.op = "h"
      /\ GateTy(g) = "S" \/ GateTy(g) = "SAdj" => g.op = "s"
      /\ GateTy(g) = "T" \/ GateTy(g) = "TAdj" => g.op = "t"
      /\ GateTy(g) = "SWAP" => g.op = "swap"
      /\ GateTy(g) = "RX" => g.op = "rx"
      /\ GateTy(g) = "RY" => g.op = "ry"
      /\ GateTy(g) = "RZ" => g.op = "rz"
  BY ZenonT(30) DEF GateTy, parseGateTy, isQuakeQuantumGate
<1>2. CASE GateTy(g) = "PauliX"
  BY <1>1, <1>2 DEF Builder, Rotations
<1>3. CASE GateTy(g) = "CNOT"
  BY <1>1, <1>3 DEF Builder, Rotations
<1>4. CASE GateTy(g) = "PauliY"
  BY <1>1, <1>4 DEF Builder, Rotations
<1>5. CASE GateTy(g) = "PauliZ"
  BY <1>1, <1>5 DEF Builder, Rotations
<1>6. CASE GateTy(g) = "CZ"
  BY <1>1, <1>6 DEF Builder, Rotations
<1>7. CASE GateTy(g) = "H"
  BY <1>1, <1>7 DEF Builder, Rotations
<1>8. CASE GateTy(g) = "S"
  BY <1>1, <1>8 DEF Builder, Rotations
<1>9. CASE GateTy(g) = "SAdj"
  BY <1>1, <1>9 DEF Builder, Rotations
<1>10. CASE GateTy(g) = "T"
  BY <1>1, <1>10 DEF Builder, Rotations
<1>11. CASE GateTy(g) = "TAdj"
  BY <1>1, <1>11 DEF Builder, Rotations
<1>12. CASE GateTy(g) = "SWAP"
  BY <1>1, <1>12 DEF Builder, Rotations
<1>13. CASE GateTy(g) = "RX"
  BY <1>1, <1>13 DEF Builder, Rotations
<1>14. CASE GateTy(g) = "RY"
  BY <1>1, <1>14 DEF Builder, Rotations
<1>15. CASE GateTy(g) = "RZ"
  BY <1>1, <1>15 DEF Builder, Rotations
<1> QED
  BY <1>2, <1>3, <1>4, <1>5, <1>6, <1>7, <1>8, <1>9, <1>10, <1>11, <1>12, <1>13,
     <1>14, <1>15 DEF RebuildableTypes

\* The angles and the controls it drops are none.
LEMMA RebuiltIsSimple ==
  ASSUME NEW g \in SimpleOps, CanRebuild(g)
  PROVE  Rebuilt(g) \in SimpleOps
<1>1. g \in Operations /\ IsSimple(g)
  BY DEF SimpleOps
<1>2. CASE IsMeasurement(g)
  BY <1>2 DEF Rebuilt
<1>3. CASE ~IsMeasurement(g)
  <2> DEFINE b == Builder(GateTy(g))
             l == Rebuilt(g)
             adj == IF GateTy(g) \in Rotation THEN FALSE ELSE b.adj
             ctl == IF b.ctl THEN g.ctl ELSE <<>>
             par == IF b.par THEN g.par ELSE <<>>
  <2>1. l = [op |-> b.op, adj |-> adj, ctl |-> ctl, tgt |-> g.tgt, par |-> par]
    BY <1>3 DEF Rebuilt, createQuakeGate
  <2>2. GateTy(g) \in RebuildableTypes
    BY <1>3 DEF CanRebuild
  <2>3. /\ b.op = g.op
        /\ b.adj \in BOOLEAN /\ (adj => g.op \in {"s", "t"})
        /\ b.par \in BOOLEAN /\ (g.op \in Rotations => b.par)
        /\ b.ctl \in BOOLEAN
        /\ g.op # "phased_rx"
    BY <2>2, BuilderOfTypes
  <2>4. adj \in BOOLEAN
    BY <2>3
  <2>5. ctl \in Seq(Nat) /\ (Len(ctl) = 0 \/ (Len(ctl) = 1 /\ g.op \in {"x", "z"}))
    BY <1>1, <2>3 DEF Operations, IsSimple
  <2>6. par \in Seq(Int) /\ Len(par) = IF g.op \in Rotations THEN 1 ELSE 0
    <3>1. g.par \in Seq(Int) /\ Len(g.par) = IF g.op \in Rotations THEN 1 ELSE 0
      BY <1>1, <2>3 DEF Operations, IsSimple
    <3> HIDE DEF b
    <3>2. CASE b.par
      BY <3>1, <3>2
    <3>3. CASE ~b.par
      BY <2>3, <3>3
    <3> QED
      BY <3>2, <3>3
  <2>7. /\ g.tgt \in Seq(Nat) /\ Len(g.tgt) = IF g.op = "swap" THEN 2 ELSE 1
        /\ g.op \in QuakeOps
        /\ g.op \in Rotations \cup {"mz", "h", "x", "y", "z", "s", "t", "swap", "phased_rx"}
    BY <1>1 DEF Operations, IsSimple
  <2> HIDE DEF adj, ctl, par, l, b
  <2>8. l \in Operations
    BY <2>1, <2>3, <2>4, <2>5, <2>6, <2>7 DEF Operations
  <2>9. IsSimple(l)
    BY <2>1, <2>3, <2>5, <2>6, <2>7 DEF IsSimple
  <2> QED
    BY <2>8, <2>9 DEF SimpleOps, l
<1> QED
  BY <1>2, <1>3

\* The gates of the circuit, of the mapped circuit and of the new kernel.
GatesInv ==
  /\ Mapping => \A i \in Gates : circuit[i] \in SimpleOps /\ Qubits(circuit[i]) \subseteq Program
  /\ mapped \in Seq(SimpleOps)
  /\ phase \in {"resolve", "erase", "done"} => new \in Seq(SimpleOps)

LEMMA GatesInit == Init => GatesInv
  BY DEF Init, GatesInv, Mapping

\* The operations are loaded in the order of the kernel.
LEMMA LoadedGates ==
  ASSUME IInv, Load
  PROVE  \A i \in DOMAIN circuit' : ~IsMeasurement(circuit'[i]) =>
           circuit'[i] \in SimpleOps /\ Qubits(circuit'[i]) \subseteq Program
<1>1. /\ ops \in Seq(Operations)
      /\ \A i \in DOMAIN ops : Qubits(ops[i]) \subseteq Program
  BY KernelsAssumption DEF IInv, TypeOK, Load, IsSkipped, ops, Program
<1> DEFINE in == {i \in DOMAIN ops : InCircuit(ops[i])}
<1>2. circuit' = [i \in 1 .. Cardinality(in) |-> LoadOp(ops[Nth(in, i)])]
  BY DEF Load, CircuitOf
<1>3. TAKE i \in DOMAIN circuit'
<1>4. HAVE ~IsMeasurement(circuit'[i])
<1>5. Nth(in, i) \in in
  <2>1. Len(ops) \in Nat /\ in \subseteq 0 .. Len(ops)
    BY <1>1
  <2>2. i \in 1 .. Cardinality(in)
    BY <1>2
  <2> HIDE DEF in
  <2> QED
    BY <2>1, <2>2, NthIsIn
<1>a. \A j \in in : ops[j] \in Operations /\ InCircuit(ops[j]) /\ Qubits(ops[j]) \subseteq Program
  BY <1>1
<1> DEFINE g == ops[Nth(in, i)]
<1>6. circuit'[i] = LoadOp(g)
  BY <1>2
<1>7. g \in Operations /\ InCircuit(g) /\ Qubits(g) \subseteq Program
  <2> HIDE DEF in
  <2> QED
    BY <1>5, <1>a
<1>8. CanLoadOp(g)
  BY <1>5 DEF Load, CanLoad
<1> HIDE DEF in, g
<1>9. ~IsMeasurement(g)
  BY <1>4, <1>6 DEF LoadOp
<1> QED
  BY <1>6, <1>7, <1>8, <1>9, LoadedIsSimple

LEMMA GatesStep ==
  ASSUME IInv, GatesInv, [Next]_vars
  PROVE  GatesInv'
<1>1. CASE Load
  <2>1. /\ phase' = "map" /\ kernel' = kernel /\ mapped' = mapped
    BY <1>1 DEF Load
  <2>2. \A i \in Gates' : circuit'[i] \in SimpleOps /\ Qubits(circuit'[i]) \subseteq Program
    BY <1>1, LoadedGates DEF Gates
  <2> QED
    BY <2>1, <2>2 DEF GatesInv, Program
<1>2. CASE MapSwap
  <2>1. PICK e \in Coupling : mapped' = Append(mapped, SwapOf(e[1], e[2]))
    BY <1>2 DEF MapSwap
  <2>2. mapped' \in Seq(SimpleOps)
    BY <2>1, SwapIsSimple DEF GatesInv
  <2>3. phase' = "map" /\ UNCHANGED <<phase, circuit, kernel>>
    BY <1>2 DEF MapSwap
  <2> QED
    BY <2>2, <2>3 DEF GatesInv, Gates, Program, Mapping
<1>3. CASE MapGate
  <2>1. PICK i \in Gates : mapped' = Append(mapped, Placed(circuit[i]))
    BY <1>3 DEF MapGate
  <2>2. phase = "map" /\ UNCHANGED <<phase, circuit, kernel>>
    BY <1>3 DEF MapGate
  <2>3. Placed(circuit[i]) \in SimpleOps
    BY <2>2, PlacedIsSimple DEF GatesInv, Mapping, IInv, MapperInv
  <2>4. mapped' \in Seq(SimpleOps)
    BY <2>1, <2>3 DEF GatesInv
  <2> QED
    BY <2>2, <2>4 DEF GatesInv, Gates, Program, Mapping
<1>4. CASE MapEnds
  <2>1. PICK qubits \in MeasuredSets : mapped' = mapped \o FinalMeasurements(qubits)
    BY <1>4 DEF MapEnds
  <2>2. phase = "map" /\ phase' \in {"failed", "rebuild"} /\ UNCHANGED <<circuit, kernel>>
    BY <1>4 DEF MapEnds
  <2>3. qubits \in SUBSET (0 .. NumQubits)
    <3>1. layout \in Injection(Program, Physical)
      BY <2>2 DEF IInv, MapperInv, Mapping
    <3>2. qubits \subseteq Physical
      BY <3>1 DEF MeasuredSets, Held, HeldAndMeasured, Injection
    <3> QED
      BY <3>2, NumQubitsAssumption DEF Physical
  <2>4. FinalMeasurements(qubits) \in Seq(SimpleOps)
    <3>1. Cardinality(qubits) \in Nat
      <4>1. IsFiniteSet(0 .. NumQubits)
        BY FS_Interval, NumQubitsAssumption
      <4> QED
        BY <2>3, <4>1, FS_Subset, FS_CardinalityType
    <3>2. \A i \in 1 .. Cardinality(qubits) : Mz(Nth(qubits, i)) \in SimpleOps
      <4>1. ASSUME NEW i \in 1 .. Cardinality(qubits) PROVE Nth(qubits, i) \in qubits
        BY <2>3, NthIsIn, NumQubitsAssumption
      <4>2. \A q \in qubits : q \in Nat
        BY <2>3
      <4> QED
        BY <4>1, <4>2, MzIsSimple
    <3> QED
      BY <3>1, <3>2 DEF FinalMeasurements
  <2>5. mapped' \in Seq(SimpleOps)
    BY <2>1, <2>4 DEF GatesInv
  <2> QED
    BY <2>2, <2>5 DEF GatesInv, Gates, Program, Mapping
<1>5. CASE Rebuild
  <2>1. /\ phase = "rebuild" /\ phase' \in {"resolve", "failed"}
        /\ UNCHANGED <<circuit, mapped, kernel>>
    BY <1>5 DEF Rebuild, mapper
  <2>2. ASSUME phase' = "resolve" PROVE new' \in Seq(SimpleOps)
    <3>1. mapped \in Seq(SimpleOps) /\ Unsupported = {}
      BY <1>5, <2>2 DEF Rebuild, GatesInv
    <3>2. new' = [i \in 1 .. Len(mapped) |-> Rebuilt(mapped[i])]
      BY <1>5, <3>1 DEF Rebuild, Created
    <3>3. \A i \in 1 .. Len(mapped) : Rebuilt(mapped[i]) \in SimpleOps
      BY <3>1, RebuiltIsSimple DEF Unsupported
    <3> QED
      BY <3>1, <3>2, <3>3
  <2> QED
    BY <2>1, <2>2 DEF GatesInv, Gates, Program, Mapping
<1>6. CASE Skip \/ LoadFails \/ MapFails \/ ResolveAborts \/ EraseAborts \/ Resolve \/ Erase
  <2>1. /\ UNCHANGED <<circuit, mapped, kernel, new>>
        /\ Mapping' => Mapping
        /\ phase' \in {"resolve", "erase", "done"} => phase \in {"resolve", "erase"}
    BY <1>6 DEF Skip, LoadFails, MapFails, ResolveAborts, EraseAborts, Resolve, Erase,
                mapper, body, Mapping
  <2> QED
    BY <2>1 DEF GatesInv, Gates, Program
<1>7. CASE UNCHANGED vars
  BY <1>7 DEF vars, mapper, body, GatesInv, Gates, Program, Mapping
<1> QED
  BY <1>1, <1>2, <1>3, <1>4, <1>5, <1>6, <1>7 DEF Next

\* Every gate in a kernel the pass has mapped has the operands and angles its kind
\* calls for, whatever was loaded: none of the kinds r1, u2 and u3, no control but
\* one of an x or a z, an adjoint only of s and t.
THEOREM CreatesSimpleGates == Spec => [](phase = "done" => new \in Seq(SimpleOps))
<1>1. IInv /\ GatesInv /\ [Next]_vars => GatesInv'
  BY GatesStep
<1>2. GatesInv => (phase = "done" => new \in Seq(SimpleOps))
  BY DEF GatesInv
<1> QED
  BY <1>1, <1>2, GatesInit, Invariant, PTL DEF Spec

-----------------------------------------------------------------------------
(***************************************************************************)
(* What the mapped circuit computes.  HeldAfter and the gates read in the  *)
(* qubits of the kernel change by one operation as the circuit does.       *)
(***************************************************************************)
\* Operations on the device, and what its qubits may hold.
PhysicalOps == {g \in SimpleOps : Qubits(g) \subseteq Physical}
Wheres == [Physical -> Program \cup {Nobody}]

LEMMA OriginStays == Origin \in Wheres
<1>1. ASSUME NEW p \in Physical, \E a \in Program : start[a] = p
      PROVE  (CHOOSE a \in Program : start[a] = p) \in Program
  BY <1>1
<1> QED
  BY <1>1 DEF Origin, Wheres

\* The targets of a swap.
LEMMA SwapTargets ==
  ASSUME NEW g \in PhysicalOps, g.op = "swap"
  PROVE  g.tgt[1] \in Physical /\ g.tgt[2] \in Physical
<1>1. g.tgt \in Seq(Nat) /\ Len(g.tgt) = 2 /\ ToSet(g.tgt) \subseteq Physical
  BY DEF PhysicalOps, SimpleOps, IsSimple, Operations, Qubits
<1>2. \A i \in DOMAIN g.tgt : g.tgt[i] \in Physical
  BY <1>1 DEF ToSet
<1>3. 1 \in DOMAIN g.tgt /\ 2 \in DOMAIN g.tgt
  BY <1>1
<1> QED
  BY <1>2, <1>3

LEMMA MovedStays ==
  ASSUME NEW where \in Wheres, NEW g \in PhysicalOps
  PROVE  Moved(where, g) \in Wheres
<1>1. CASE g.op = "swap"
  BY <1>1, SwapTargets DEF Moved, Wheres
<1>2. CASE g.op # "swap"
  BY <1>2 DEF Moved
<1> QED
  BY <1>1, <1>2

\* What the qubits hold, operation by operation.
AreHeld(c, s) ==
  /\ c \in [0 .. Len(s) -> Wheres]
  /\ c[0] = Origin
  /\ \A m \in 1 .. Len(s) : c[m] = Moved(c[m - 1], s[m])
  /\ c[Len(s)] = HeldAfter(s)

LEMMA HeldStates ==
  ASSUME NEW k \in Seq(PhysicalOps)
  PROVE  \E c : AreHeld(c, k)
<1> DEFINE n == Len(k)
           V == Wheres
           step == [x \in (1 .. n) \X V |-> Moved(x[2], k[x[1]])]
           Eq(f) == f = [s \in SUBSET DOMAIN k |->
                           IF s = {} THEN Origin ELSE Moved(f[s \ {Max(s)}], k[Max(s)])]
           F == CHOOSE f : Eq(f)
<1>1. n \in Nat /\ DOMAIN k = 1 .. n /\ Origin \in V
  BY OriginStays
<1>2. ASSUME NEW e \in V, NEW i \in 1 .. n PROVE Moved(e, k[i]) \in V
  BY <1>1, MovedStays
<1> HIDE DEF V
<1>3. step \in [(1 .. n) \X V -> V]
  BY <1>2
<1> HIDE DEF n
<1>4. PICK g \in [SUBSET (1 .. n) -> V] : IsFold(g, n, Origin, step)
  <2> HIDE DEF step
  <2> QED
    BY <1>1, <1>3, Recursion
<1>5. Eq(g)
  <2>1. ASSUME NEW s \in SUBSET (1 .. n), s # {}
        PROVE  g[s] = Moved(g[s \ {Max(s)}], k[Max(s)])
    <3>1. Max(s) \in 1 .. n
      BY <1>1, <2>1, MaxIsIn
    <3>2. g[s] = step[<<Max(s), g[s \ {Max(s)}]>>]
      BY <2>1, <1>4 DEF IsFold
    <3> QED
      BY <3>1, <3>2
  <2>2. g[{}] = Origin
    BY <1>4 DEF IsFold
  <2> QED
    BY <1>1, <2>1, <2>2
<1>6. Eq(F)
  <2> HIDE DEF Eq
  <2> QED
    BY <1>5, Zenon
<1>7. HeldAfter(k) = F[1 .. n]
  BY <1>1, Zenon DEF HeldAfter, FoldLeft, MapThenFoldSet
<1> HIDE DEF F
<1>8. Follows(F, n, V, Origin, step)
  <2>1. ASSUME NEW s \in SUBSET (1 .. n), s # {}, F[s \ {Max(s)}] \in V
        PROVE  F[s] = step[<<Max(s), F[s \ {Max(s)}]>>]
    <3>1. Max(s) \in 1 .. n
      BY <1>1, <2>1, MaxIsIn
    <3>2. F[s] = Moved(F[s \ {Max(s)}], k[Max(s)])
      BY <1>1, <1>6, <2>1
    <3> QED
      BY <2>1, <3>1, <3>2
  <2>2. F[{}] = Origin
    BY <1>1, <1>6
  <2> QED
    BY <2>1, <2>2 DEF Follows
<1> HIDE DEF Eq
<1>9. PICK c : AreStates(c, n, V, Origin, step, F[1 .. n])
  <2> HIDE DEF step
  <2> QED
    BY <1>1, <1>3, <1>8, FoldStates
<1>10. c \in [0 .. n -> V] /\ c[0] = Origin /\ c[n] = HeldAfter(k)
  <2> HIDE DEF step
  <2> QED
    BY <1>7, <1>9 DEF AreStates
<1>11. ASSUME NEW m \in 1 .. n PROVE c[m] = Moved(c[m - 1], k[m])
  <2>1. c[m] = step[<<m, c[m - 1]>>]
    <3> HIDE DEF step
    <3> QED
      BY <1>9 DEF AreStates
  <2>2. m - 1 \in 0 .. n
    BY <1>1
  <2>3. c[m - 1] \in V
    BY <1>10, <2>2
  <2> QED
    BY <2>1, <2>3
<1>12. AreHeld(c, k)
  BY <1>10, <1>11 DEF AreHeld, n, V
<1> QED
  BY <1>12

LEMMA HeldStays ==
  ASSUME NEW s \in Seq(PhysicalOps)
  PROVE  HeldAfter(s) \in Wheres
<1>1. PICK c : AreHeld(c, s)
  BY HeldStates
<1>2. Len(s) \in 0 .. Len(s)
  OBVIOUS
<1> QED
  BY <1>1, <1>2 DEF AreHeld

LEMMA NothingMoved ==
  ASSUME NEW where
  PROVE  FoldLeft(Moved, where, <<>>) = where
<1> DEFINE Eq(f) == f = [s \in SUBSET DOMAIN <<>> |->
                           IF s = {} THEN where
                           ELSE Moved(f[s \ {Max(s)}], <<>>[Max(s)])]
           F == CHOOSE f : Eq(f)
<1>1. DOMAIN <<>> = {} /\ SUBSET {} = {{}}
  OBVIOUS
<1>2. Eq([s \in SUBSET DOMAIN <<>> |-> where])
  BY <1>1
<1>3. Eq(F)
  <2> HIDE DEF Eq
  <2> QED
    BY <1>2, Zenon
<1>4. FoldLeft(Moved, where, <<>>) = F[DOMAIN <<>>]
  BY Zenon DEF FoldLeft, MapThenFoldSet
<1> HIDE DEF F
<1> QED
  BY <1>1, <1>3, <1>4

\* One more operation moves what the qubits held.
LEMMA HeldAppend ==
  ASSUME NEW s \in Seq(PhysicalOps), NEW g \in PhysicalOps
  PROVE  HeldAfter(Append(s, g)) = Moved(HeldAfter(s), g)
<1> DEFINE n == Len(s)
           t == Append(s, g)
<1>1. /\ t \in Seq(PhysicalOps) /\ n \in Nat /\ Len(t) = n + 1
      /\ t[n + 1] = g /\ \A m \in 1 .. n : t[m] = s[m]
  OBVIOUS
<1>2. PICK c : AreHeld(c, s)
  BY HeldStates
<1>3. PICK d : AreHeld(d, t)
  BY <1>1, HeldStates
<1> HIDE DEF t
<1>d. /\ d[0] = Origin
      /\ \A m \in 1 .. n + 1 : d[m] = Moved(d[m - 1], t[m])
      /\ d[n + 1] = HeldAfter(t)
  BY <1>1, <1>3 DEF AreHeld
<1>c. /\ c[0] = Origin
      /\ \A m \in 1 .. n : c[m] = Moved(c[m - 1], s[m])
      /\ c[n] = HeldAfter(s)
  BY <1>2 DEF AreHeld
<1> HIDE DEF n
<1> DEFINE S == {m \in 0 .. n : c[m] = d[m]}
<1>4. 0 \in S
  BY <1>1, <1>c, <1>d
<1>5. ASSUME NEW m \in 0 .. n - 1, m \in S PROVE m + 1 \in S
  <2>0. n \in Nat
    BY <1>1
  <2>1. m + 1 \in 1 .. n /\ m + 1 \in 1 .. n + 1 /\ m + 1 \in 0 .. n /\ (m + 1) - 1 = m
    BY <2>0
  <2>2. d[m + 1] = Moved(d[m], s[m + 1]) /\ c[m + 1] = Moved(c[m], s[m + 1])
    BY <1>1, <1>c, <1>d, <2>1
  <2> QED
    BY <1>5, <2>1, <2>2
<1>6. \A m \in 0 .. n : m \in S
  <2> HIDE DEF S
  <2> QED
    BY <1>1, <1>4, <1>5, Induction
<1>7. c[n] = d[n]
  BY <1>1, <1>6
<1>8. n + 1 \in 1 .. n + 1 /\ (n + 1) - 1 = n
  BY <1>1
<1>9. d[n + 1] = Moved(d[n], g)
  BY <1>1, <1>d, <1>8
<1> QED
  BY <1>7, <1>9, <1>c, <1>d DEF t

\* The places of the gates on a qubit.
PlacesOn(a, s) == {i \in DOMAIN s : s[i].op \notin {"swap", "mz"} /\ a \in Qubits(s[i])}

\* What comes later does not change how an operation is read.
LEMMA UnroutedPrefix ==
  ASSUME NEW T, NEW s \in Seq(T), NEW r \in Seq(T), Len(s) =< Len(r),
         \A i \in 1 .. Len(s) : r[i] = s[i]
  PROVE  /\ DOMAIN Unrouted(s) = 1 .. Len(s) /\ DOMAIN Unrouted(r) = 1 .. Len(r)
         /\ \A i \in 1 .. Len(s) : Unrouted(r)[i] = Unrouted(s)[i]
<1>1. DOMAIN s = 1 .. Len(s) /\ DOMAIN r = 1 .. Len(r)
  OBVIOUS
<1>2. ASSUME NEW i \in 1 .. Len(s)
      PROVE  Unrouted(r)[i] = Unrouted(s)[i]
  <2>1. i \in 1 .. Len(r)
    OBVIOUS
  <2>2. SubSeq(r, 1, i - 1) = SubSeq(s, 1, i - 1)
    OBVIOUS
  <2>3. Unrouted(r)[i] = Unplaced(r[i], HeldAfter(SubSeq(r, 1, i - 1)))
    BY <1>1, <2>1, Zenon DEF Unrouted
  <2>4. Unrouted(s)[i] = Unplaced(s[i], HeldAfter(SubSeq(s, 1, i - 1)))
    BY <1>1, Zenon DEF Unrouted
  <2> QED
    BY <2>2, <2>3, <2>4, Zenon
<1> QED
  BY <1>1, <1>2 DEF Unrouted

\* Swaps and measurements are no gates.
LEMMA GatesOfMore ==
  ASSUME NEW s \in Seq(PhysicalOps), NEW r \in Seq(PhysicalOps), Len(s) =< Len(r),
         \A i \in 1 .. Len(s) : r[i] = s[i],
         \A i \in 1 .. Len(r) : i > Len(s) => r[i].op \in {"swap", "mz"},
         NEW a
  PROVE  GatesOn(a, Unrouted(r)) = GatesOn(a, Unrouted(s))
<1> DEFINE n == Len(r)
           P == PlacesOn(a, Unrouted(s))
<1>1. /\ DOMAIN Unrouted(s) = 1 .. Len(s) /\ DOMAIN Unrouted(r) = 1 .. Len(r)
      /\ \A i \in 1 .. Len(s) : Unrouted(r)[i] = Unrouted(s)[i]
  BY UnroutedPrefix
<1>2. \A i \in 1 .. Len(r) : Unrouted(r)[i].op = r[i].op
  <2>1. ASSUME NEW i \in 1 .. Len(r)
        PROVE  Unrouted(r)[i].op = r[i].op
    <3>1. DOMAIN r = 1 .. Len(r) /\ r[i] \in Operations
      BY DEF PhysicalOps, SimpleOps
    <3>2. Unrouted(r)[i] = Unplaced(r[i], HeldAfter(SubSeq(r, 1, i - 1)))
      BY <3>1, Zenon DEF Unrouted
    <3> QED
      BY <3>1, <3>2 DEF Unplaced, Operations
  <2> QED
    BY <2>1
<1>3. PlacesOn(a, Unrouted(r)) = P
  <2>1. ASSUME NEW i \in PlacesOn(a, Unrouted(r)) PROVE i \in P
    <3>1. i \in 1 .. Len(r) /\ r[i].op \notin {"swap", "mz"}
      BY <1>1, <1>2, <2>1 DEF PlacesOn
    <3>2. i \in 1 .. Len(s)
      BY <3>1
    <3> QED
      BY <1>1, <2>1, <3>2 DEF PlacesOn
  <2>2. ASSUME NEW i \in P PROVE i \in PlacesOn(a, Unrouted(r))
    <3>1. i \in 1 .. Len(s)
      BY <1>1, <2>2 DEF PlacesOn
    <3>2. i \in 1 .. Len(r)
      BY <3>1
    <3> QED
      BY <1>1, <2>2, <3>1, <3>2 DEF PlacesOn
  <2> QED
    BY <2>1, <2>2
<1>4. n \in Nat /\ P \in SUBSET (0 .. n) /\ \A i \in P : Unrouted(r)[i] = Unrouted(s)[i]
  BY <1>1 DEF PlacesOn
<1> HIDE DEF P, n
<1>5. Picked(Unrouted(r), P) = Picked(Unrouted(s), P)
  BY <1>4, PickedSame
<1> QED
  BY <1>3, <1>5, Zenon DEF GatesOn, PlacesOn, P

\* A gate comes last on its qubits.
LEMMA GatesOfGate ==
  ASSUME NEW s \in Seq(PhysicalOps), NEW g \in PhysicalOps, g.op \notin {"swap", "mz"},
         NEW h, h = Unplaced(g, HeldAfter(s)), NEW a
  PROVE  GatesOn(a, Unrouted(Append(s, g))) =
           IF a \in Qubits(h) THEN Append(GatesOn(a, Unrouted(s)), h) ELSE GatesOn(a, Unrouted(s))
<1> DEFINE r == Append(s, g)
           n == Len(s)
           P == PlacesOn(a, Unrouted(s))
<1>0. /\ n \in Nat /\ r \in Seq(PhysicalOps) /\ Len(r) = n + 1 /\ n + 1 \in 1 .. n + 1
      /\ r[n + 1] = g /\ \A i \in 1 .. n : r[i] = s[i]
      /\ SubSeq(r, 1, (n + 1) - 1) = s
  OBVIOUS
<1> HIDE DEF r
<1>1. /\ DOMAIN Unrouted(s) = 1 .. n /\ DOMAIN Unrouted(r) = 1 .. n + 1
      /\ \A i \in 1 .. n : Unrouted(r)[i] = Unrouted(s)[i]
  <2>1. Len(s) =< Len(r)
    BY <1>0
  <2> QED
    BY <1>0, <2>1, UnroutedPrefix
<1> HIDE DEF n
<1>2. Unrouted(r)[n + 1] = h
  <2>1. DOMAIN r = 1 .. n + 1
    BY <1>0
  <2>2. Unrouted(r)[n + 1] = Unplaced(r[n + 1], HeldAfter(SubSeq(r, 1, (n + 1) - 1)))
    BY <1>0, <2>1, Zenon DEF Unrouted
  <2> QED
    BY <1>0, <2>2, Zenon
<1>3. h.op = g.op
  BY DEF Unplaced, PhysicalOps, SimpleOps, Operations
<1>4. PlacesOn(a, Unrouted(r)) = IF a \in Qubits(h) THEN P \cup {n + 1} ELSE P
  <2>1. \A i \in 1 .. n : i \in PlacesOn(a, Unrouted(r)) <=> i \in P
    BY <1>0, <1>1 DEF PlacesOn
  <2>2. n + 1 \in PlacesOn(a, Unrouted(r)) <=> a \in Qubits(h)
    BY <1>0, <1>1, <1>2, <1>3 DEF PlacesOn
  <2>3. PlacesOn(a, Unrouted(r)) \subseteq 1 .. n + 1 /\ P \subseteq 1 .. n
    BY <1>1 DEF PlacesOn
  <2>4. 1 .. n + 1 = (1 .. n) \cup {n + 1} /\ n + 1 \notin 1 .. n
    BY <1>0
  <2> DEFINE Q == PlacesOn(a, Unrouted(r))
  <2> HIDE DEF P, Q
  <2>5. Q \subseteq (1 .. n) \cup {n + 1}
    BY <2>3, <2>4, Zenon DEF Q
  <2>6. \A i : i \in Q <=> i \in P \/ (i = n + 1 /\ a \in Qubits(h))
    BY <2>1, <2>2, <2>3, <2>4, <2>5, Zenon DEF Q
  <2> QED
    BY <2>6, Zenon DEF Q
<1>5. /\ P \in SUBSET (0 .. n + 1) /\ n + 1 \in Nat /\ n + 1 \in 0 .. n + 1
      /\ \A i \in P : i < n + 1 /\ Unrouted(r)[i] = Unrouted(s)[i]
  BY <1>0, <1>1 DEF PlacesOn
<1>6. GatesOn(a, Unrouted(s)) = Picked(Unrouted(s), P)
      /\ GatesOn(a, Unrouted(r)) = Picked(Unrouted(r), PlacesOn(a, Unrouted(r)))
  BY Zenon DEF GatesOn, PlacesOn
<1> HIDE DEF P
<1>7. Picked(Unrouted(r), P) = Picked(Unrouted(s), P)
  BY <1>5, PickedSame
<1>8. Picked(Unrouted(r), P \cup {n + 1}) = Append(Picked(Unrouted(r), P), Unrouted(r)[n + 1])
  BY <1>5, PickedMore
<1>9. CASE a \in Qubits(h)
  BY <1>2, <1>4, <1>6, <1>7, <1>8, <1>9, Zenon DEF r
<1>10. CASE a \notin Qubits(h)
  BY <1>4, <1>6, <1>7, <1>10, Zenon DEF r
<1> QED
  BY <1>9, <1>10

\* The gates of the mapped circuit are made again as they are.
LEMMA RebuiltIsSame ==
  ASSUME NEW g \in SimpleOps, CanRebuild(g)
  PROVE  Rebuilt(g) = g
<1>1. CASE IsMeasurement(g)
  BY <1>1 DEF Rebuilt
<1>2. CASE ~IsMeasurement(g)
  <2> DEFINE b == Builder(GateTy(g))
             adj == IF GateTy(g) \in Rotation THEN FALSE ELSE b.adj
             ctl == IF b.ctl THEN g.ctl ELSE <<>>
             par == IF b.par THEN g.par ELSE <<>>
  <2>1. GateTy(g) \in RebuildableTypes
    BY <1>2 DEF CanRebuild
  <2>2. /\ b.op = g.op /\ b.op # "phased_rx"
        /\ b.ctl \in BOOLEAN
        /\ b.par \in BOOLEAN /\ (g.op \in Rotations => b.par)
    BY <2>1, BuilderOfTypes
  <2>3. g \in Operations /\ IsSimple(g)
    BY DEF SimpleOps
  <2>4. g = [op |-> g.op, adj |-> g.adj, ctl |-> g.ctl, tgt |-> g.tgt, par |-> g.par]
    BY <2>3 DEF Operations
  <2>5. Rebuilt(g) = [op |-> b.op, adj |-> adj, ctl |-> ctl, tgt |-> g.tgt, par |-> par]
    BY <1>2 DEF Rebuilt, createQuakeGate
  <2>6. par = g.par
    <3>1. g.par \in Seq(Int) /\ (g.op \notin Rotations => Len(g.par) = 0)
      BY <2>2, <2>3 DEF Operations, IsSimple
    <3> QED
      BY <2>2, <3>1
  <2>7. ctl = g.ctl
    <3>1. g.ctl \in Seq(Nat) /\ (Len(g.ctl) = 0 \/ g.op \in {"x", "z"})
      BY <2>3 DEF Operations, IsSimple
    <3>2. CASE g.op \in {"x", "z"} /\ g.ctl # <<>>
      <4>1. GateTy(g) \in {"CNOT", "CZ"}
        BY <3>2 DEF GateTy, parseGateTy, isQuakeQuantumGate
      <4>2. b.ctl
        BY <4>1 DEF Builder
      <4> QED
        BY <4>2
    <3>3. CASE ~(g.op \in {"x", "z"} /\ g.ctl # <<>>)
      BY <3>1, <3>3
    <3> QED
      BY <3>2, <3>3
  <2>8. adj = g.adj
    <3>1. g.adj \in BOOLEAN /\ (g.adj => g.op \in {"s", "t"})
      BY <2>3 DEF Operations, IsSimple
    <3>2. CASE g.op \in {"s", "t"}
      <4>1. GateTy(g) = IF g.op = "s" THEN (IF g.adj THEN "SAdj" ELSE "S")
                        ELSE IF g.adj THEN "TAdj" ELSE "T"
        BY <3>2 DEF GateTy, parseGateTy, isQuakeQuantumGate
      <4>2. CASE g.adj
        <5>1. GateTy(g) \in {"SAdj", "TAdj"}
          BY <4>1, <4>2
        <5> QED
          BY <4>2, <5>1, <3>1 DEF Builder, Rotation
      <4>3. CASE ~g.adj
        <5>1. GateTy(g) \in {"S", "T"}
          BY <4>1, <4>3
        <5> QED
          BY <4>3, <5>1, <3>1 DEF Builder, Rotation
      <4> QED
        BY <4>2, <4>3
    <3>3. CASE g.op \notin {"s", "t"}
      <4>1. b.adj = FALSE
        <5>1. b.adj \in BOOLEAN /\ (b.adj => g.op \in {"s", "t"})
          BY <2>1, BuilderOfTypes
        <5> QED
          BY <3>3, <5>1
      <4> HIDE DEF b
      <4> QED
        BY <3>1, <3>3, <4>1
    <3> QED
      BY <3>2, <3>3
  <2> HIDE DEF b, adj, ctl, par
  <2> QED
    BY <2>2, <2>4, <2>5, <2>6, <2>7, <2>8
<1> QED
  BY <1>1, <1>2

-----------------------------------------------------------------------------
(***************************************************************************)
(* The steps of the mapper.                                                *)
(***************************************************************************)
\* The gates of the circuit on a qubit that have been emitted.
EmittedOn(a) == {i \in emitted : circuit[i].op # "swap" /\ a \in Qubits(circuit[i])}

\* How what was mapped relates to the circuit: its gates, on the qubits of the
\* kernel, are the ones emitted so far, in the order of the circuit on each qubit.
RoutedInv ==
  /\ phase = "load" => mapped = <<>>
  /\ mapped \in Seq(PhysicalOps)
  /\ Mapping =>
       /\ circuit = CircuitOf(ops)
       /\ \A i \in Gates : circuit[i].op = "swap" => circuit[i].tgt[1] = circuit[i].tgt[2]
       /\ emitted \subseteq Gates
       /\ \A i \in emitted, j \in Gates \ emitted :
            j < i => Qubits(circuit[j]) \cap Qubits(circuit[i]) = {}
       /\ \A a \in Program : GatesOn(a, Unrouted(mapped)) = Picked(circuit, EmittedOn(a))
       /\ phase # "map" => emitted = Gates
  /\ phase = "map" => \A a \in Program : HeldAfter(mapped)[layout[a]] = a
  /\ phase \in {"resolve", "erase", "done"} => new = mapped

LEMMA RoutedInit == Init => RoutedInv
<1>1. Init => mapped \in Seq(PhysicalOps)
  BY DEF Init
<1> QED
  BY <1>1 DEF Init, RoutedInv, Mapping

\* No gate of an empty sequence, none picked from no place.
LEMMA NothingPicked ==
  ASSUME NEW s
  PROVE  Picked(s, {}) = <<>>
<1>1. Cardinality({}) = 0
  BY FS_EmptySet
<1> QED
  BY <1>1 DEF Picked

LEMMA RoutedLoad ==
  ASSUME IInv, RoutedInv, Load
  PROVE  RoutedInv'
<1>1. /\ phase = "load" /\ phase' = "map" /\ kernel' = kernel /\ mapped' = mapped
      /\ emitted' = emitted /\ circuit' = CircuitOf(ops) /\ start' = layout'
      /\ layout' \in Injection(Program, Physical)
  BY DEF Load
<1>2. mapped = <<>> /\ emitted = {}
  BY <1>1 DEF RoutedInv, IInv, MapperInv, BeforeMapping
<1>3. ops' = ops /\ Program' = Program
  BY <1>1 DEF ops, Program
<1>4. ASSUME NEW i \in Gates', circuit'[i].op = "swap"
      PROVE  circuit'[i].tgt[1] = circuit'[i].tgt[2]
  <2> DEFINE in == {j \in DOMAIN ops : InCircuit(ops[j])}
             g == ops[Nth(in, i)]
  <2>0. ops \in Seq(Operations)
    BY KernelsAssumption DEF IInv, TypeOK, ops
  <2>1. circuit' = [j \in 1 .. Cardinality(in) |-> LoadOp(ops[Nth(in, j)])]
    BY <1>1 DEF CircuitOf
  <2>2. i \in 1 .. Cardinality(in) /\ ~IsMeasurement(circuit'[i])
    BY <2>1 DEF Gates
  <2>3. circuit'[i] = LoadOp(g)
    BY <2>1, <2>2
  <2>4. Nth(in, i) \in in
    <3>1. Len(ops) \in Nat /\ in \in SUBSET (0 .. Len(ops))
      BY <2>0
    <3> HIDE DEF in
    <3> QED
      BY <2>2, <3>1, NthIsIn
  <2>5. g \in Operations
    BY <2>0, <2>4
  <2> HIDE DEF in, g
  <2>6. ~IsMeasurement(g)
    BY <2>2, <2>3 DEF LoadOp
  <2>7. LoadOp(g).op = g.op
        /\ LoadOp(g).tgt = IF GateTy(g) = "SWAP" THEN <<g.tgt[1], g.tgt[1]>> ELSE <<g.tgt[1]>>
    BY <2>5, <2>6 DEF LoadOp, Operations
  <2>8. GateTy(g) = "SWAP"
    BY <1>4, <2>3, <2>7 DEF GateTy, parseGateTy, isQuakeQuantumGate
  <2> QED
    BY <2>3, <2>7, <2>8
<1>5. ASSUME NEW a \in Program'
      PROVE  GatesOn(a, Unrouted(mapped))' = Picked(circuit, EmittedOn(a))'
  <2>1. EmittedOn(a)' = {}
    BY <1>1, <1>2 DEF EmittedOn
  <2>2. mapped' = <<>>
    BY <1>1, <1>2
  <2>3. DOMAIN Unrouted(mapped)' = {}
    BY <2>2 DEF Unrouted
  <2>4. GatesOn(a, Unrouted(mapped))' = Picked(Unrouted(mapped)', {})
    <3>1. {i \in DOMAIN Unrouted(mapped)' :
             Unrouted(mapped)'[i].op \notin {"swap", "mz"} /\ a \in Qubits(Unrouted(mapped)'[i])} = {}
      BY <2>3
    <3> QED
      BY <3>1, Zenon DEF GatesOn
  <2> QED
    BY <2>1, <2>4, NothingPicked
<1>6. ASSUME NEW a \in Program' PROVE (HeldAfter(mapped)[layout[a]])' = a
  <2>1. HeldAfter(mapped)' = Origin'
    <3>1. HeldAfter(mapped)' = FoldLeft(Moved, Origin', <<>>)
      BY <1>1, <1>2, Zenon DEF HeldAfter
    <3> QED
      BY <3>1, NothingMoved, Zenon
  <2> QED
    BY <1>1, <1>3, <2>1 DEF Origin, Injection, IsInjective
<1>7. mapped' \in Seq(PhysicalOps)'
  BY <1>1, <1>2 DEF PhysicalOps
<1>8. RoutedInv'
  BY <1>1, <1>2, <1>3, <1>4, <1>5, <1>6, <1>7 DEF RoutedInv, Gates
<1> QED
  BY <1>8

\* What the mapper reads and writes: who holds what stays the same in the history.
SameOrigin == UNCHANGED <<kernel, start>>

LEMMA SameReading ==
  ASSUME SameOrigin
  PROVE  /\ Program' = Program /\ ops' = ops /\ PhysicalOps' = PhysicalOps
         /\ HeldAfter(mapped)' = HeldAfter(mapped')
         /\ \A a : GatesOn(a, Unrouted(mapped))' = GatesOn(a, Unrouted(mapped'))
<1>1. Program' = Program /\ ops' = ops
  BY DEF SameOrigin, Program, ops
<1>2. Origin' = Origin
  BY <1>1, Zenon DEF Origin, SameOrigin
<1>3. HeldAfter(mapped)' = HeldAfter(mapped')
  BY <1>2, Zenon DEF HeldAfter
<1>4. Unrouted(mapped)' = Unrouted(mapped')
  BY <1>2, Zenon DEF Unrouted, HeldAfter
<1>5. \A a : GatesOn(a, Unrouted(mapped))' = GatesOn(a, Unrouted(mapped'))
  BY <1>4, Zenon DEF GatesOn
<1> QED
  BY <1>1, <1>3, <1>5 DEF PhysicalOps

LEMMA RoutedSwap ==
  ASSUME IInv, GatesInv, RoutedInv, MapSwap
  PROVE  RoutedInv'
<1>1. PICK e \in Coupling :
        /\ layout' = [a \in Program |->
             IF layout[a] = e[1] THEN e[2]
             ELSE IF layout[a] = e[2] THEN e[1] ELSE layout[a]]
        /\ mapped' = Append(mapped, SwapOf(e[1], e[2]))
  BY DEF MapSwap
<1>2. /\ phase = "map" /\ phase' = phase /\ circuit' = circuit /\ emitted' = emitted
      /\ SameOrigin /\ layout \in Injection(Program, Physical)
  BY DEF MapSwap, SameOrigin, IInv, MapperInv, Mapping
<1>3. mapped \in Seq(PhysicalOps) /\ \A a \in Program : HeldAfter(mapped)[layout[a]] = a
  BY <1>2 DEF RoutedInv
<1> DEFINE g == SwapOf(e[1], e[2])
<1>4. g.op = "swap" /\ g.tgt[1] = e[1] /\ g.tgt[2] = e[2]
  BY DEF SwapOf
<1>5. e[1] \in Physical /\ e[2] \in Physical
  BY CouplingAssumption
<1>6. g \in PhysicalOps
  <2>1. Qubits(g) \subseteq Physical
    BY <1>5 DEF SwapOf, Qubits, ToSet
  <2> QED
    BY <2>1, SwapIsSimple DEF PhysicalOps
<1> HIDE DEF g
<1>7. mapped' = Append(mapped, g) /\ mapped' \in Seq(PhysicalOps)
  BY <1>1, <1>3, <1>6 DEF g
<1>8. HeldAfter(mapped') = Moved(HeldAfter(mapped), g)
  BY <1>3, <1>6, <1>7, HeldAppend
<1>9. ASSUME NEW a \in Program PROVE HeldAfter(mapped')[layout'[a]] = a
  <2> DEFINE H == HeldAfter(mapped)
  <2>1. HeldAfter(mapped') = [r \in Physical |-> IF r = e[1] THEN H[e[2]]
                                                ELSE IF r = e[2] THEN H[e[1]] ELSE H[r]]
    BY <1>4, <1>8 DEF Moved
  <2>2. layout[a] \in Physical /\ H[layout[a]] = a
    BY <1>2, <1>3 DEF Injection
  <2> HIDE DEF H
  <2>3. CASE layout[a] = e[1]
    BY <1>1, <1>5, <2>1, <2>2, <2>3
  <2>4. CASE layout[a] # e[1] /\ layout[a] = e[2]
    BY <1>1, <1>5, <2>1, <2>2, <2>4
  <2>5. CASE layout[a] # e[1] /\ layout[a] # e[2]
    BY <1>1, <1>5, <2>1, <2>2, <2>5
  <2> QED
    BY <2>3, <2>4, <2>5
<1>10. ASSUME NEW a \in Program
       PROVE  GatesOn(a, Unrouted(mapped')) = GatesOn(a, Unrouted(mapped))
  <2>1. /\ Len(mapped) =< Len(mapped')
        /\ \A i \in 1 .. Len(mapped) : mapped'[i] = mapped[i]
        /\ \A i \in 1 .. Len(mapped') : i > Len(mapped) => mapped'[i] = g
    BY <1>3, <1>6, <1>7
  <2>2. \A i \in 1 .. Len(mapped') : i > Len(mapped) => mapped'[i].op \in {"swap", "mz"}
    BY <1>4, <2>1
  <2> QED
    BY <1>3, <1>7, <2>1, <2>2, GatesOfMore
<1>11. /\ Program' = Program /\ ops' = ops /\ PhysicalOps' = PhysicalOps
       /\ HeldAfter(mapped)' = HeldAfter(mapped')
       /\ \A a : GatesOn(a, Unrouted(mapped))' = GatesOn(a, Unrouted(mapped'))
       /\ Gates' = Gates
  BY <1>2, SameReading DEF Gates
<1>12. \A a : Picked(circuit, EmittedOn(a))' = Picked(circuit, EmittedOn(a))
  BY <1>2, Zenon DEF EmittedOn, Picked
<1>13. ASSUME NEW a \in Program'
       PROVE  GatesOn(a, Unrouted(mapped))' = Picked(circuit, EmittedOn(a))'
  <2>1. GatesOn(a, Unrouted(mapped)) = Picked(circuit, EmittedOn(a))
    BY <1>2, <1>11 DEF RoutedInv, Mapping
  <2> QED
    BY <1>10, <1>11, <1>12, <2>1
<1>14. ASSUME NEW a \in Program' PROVE HeldAfter(mapped)'[layout'[a]] = a
  BY <1>9, <1>11
<1> QED
  BY <1>2, <1>7, <1>11, <1>13, <1>14 DEF RoutedInv, Mapping

\* A gate is read back as it was in the circuit.
LEMMA PlacedReadBack ==
  ASSUME layout \in Injection(Program, Physical),
         NEW g \in SimpleOps, Qubits(g) \subseteq Program,
         NEW where, \A a \in Program : where[layout[a]] = a
  PROVE  /\ Placed(g) \in PhysicalOps
         /\ Placed(g).op = g.op
         /\ g.op = "swap" /\ g.tgt[1] = g.tgt[2] => Placed(g).tgt[1] = Placed(g).tgt[2]
         /\ Unplaced(Placed(g), where) = g
<1> DEFINE ctl == [i \in DOMAIN g.ctl |-> layout[g.ctl[i]]]
           tgt == [i \in DOMAIN g.tgt |-> layout[g.tgt[i]]]
           p == [op |-> g.op, adj |-> g.adj, ctl |-> ctl, tgt |-> tgt, par |-> g.par]
<1>1. g \in Operations /\ IsSimple(g)
  BY DEF SimpleOps
<1>2. g = [op |-> g.op, adj |-> g.adj, ctl |-> g.ctl, tgt |-> g.tgt, par |-> g.par]
  BY <1>1 DEF Operations
<1>3. Placed(g) = p
  <2>1. Placed(g) = [[g EXCEPT !.ctl = ctl] EXCEPT !.tgt = tgt]
    BY <1>2 DEF Placed
  <2> HIDE DEF ctl, tgt
  <2> QED
    BY <1>2, <2>1
<1>4. /\ \A i \in DOMAIN g.ctl : g.ctl[i] \in Program
      /\ \A i \in DOMAIN g.tgt : g.tgt[i] \in Program
  BY DEF Qubits, ToSet
<1>5. DOMAIN ctl = DOMAIN g.ctl /\ DOMAIN tgt = DOMAIN g.tgt
  OBVIOUS
<1>6. /\ \A i \in DOMAIN g.ctl : ctl[i] \in Physical /\ where[ctl[i]] = g.ctl[i]
      /\ \A i \in DOMAIN g.tgt : tgt[i] \in Physical /\ where[tgt[i]] = g.tgt[i]
  BY <1>4 DEF Injection
<1>7. Placed(g) \in PhysicalOps
  <2>1. Placed(g) \in SimpleOps
    BY PlacedIsSimple
  <2>2. Qubits(p) \subseteq Physical
    <3>1. p.ctl = ctl /\ p.tgt = tgt
      OBVIOUS
    <3> HIDE DEF ctl, tgt, p
    <3> QED
      BY <1>5, <1>6, <3>1 DEF Qubits, ToSet
  <2> QED
    BY <1>3, <2>1, <2>2 DEF PhysicalOps
<1>8. g.op = "swap" /\ g.tgt[1] = g.tgt[2] => p.tgt[1] = p.tgt[2]
  <2>1. ASSUME g.op = "swap" PROVE 1 \in DOMAIN g.tgt /\ 2 \in DOMAIN g.tgt
    <3>1. g.tgt \in Seq(Nat) /\ Len(g.tgt) = 2
      BY <1>1, <2>1 DEF Operations, IsSimple
    <3> QED
      BY <3>1
  <2> QED
    BY <2>1
<1>9. /\ [i \in DOMAIN ctl |-> where[ctl[i]]] = g.ctl
      /\ [i \in DOMAIN tgt |-> where[tgt[i]]] = g.tgt
  <2>1. g.ctl \in Seq(Nat) /\ g.tgt \in Seq(Nat)
    BY <1>1 DEF Operations
  <2>2. g.ctl = [i \in DOMAIN g.ctl |-> g.ctl[i]] /\ g.tgt = [i \in DOMAIN g.tgt |-> g.tgt[i]]
    BY <2>1
  <2> HIDE DEF ctl, tgt
  <2> QED
    BY <1>5, <1>6, <2>2
<1>10. Unplaced(p, where) = g
  <2>1. Unplaced(p, where) = [[p EXCEPT !.ctl = g.ctl] EXCEPT !.tgt = g.tgt]
    BY <1>9 DEF Unplaced
  <2> HIDE DEF ctl, tgt
  <2> QED
    BY <1>2, <2>1
<1> HIDE DEF p
<1>11. p.op = g.op
  BY DEF p
<1> QED
  BY <1>3, <1>7, <1>8, <1>10, <1>11

\* A swap of a qubit with itself moves nothing.
LEMMA UnmovedBy ==
  ASSUME NEW where \in Wheres, NEW g, g.op = "swap" => g.tgt[1] = g.tgt[2]
  PROVE  Moved(where, g) = where
BY DEF Moved, Wheres

\* A circuit is a sequence.
LEMMA PlacesOfCircuit ==
  ASSUME IInv
  PROVE  \E n \in Nat : DOMAIN CircuitOf(ops) = 1 .. n
<1> DEFINE in == {j \in DOMAIN ops : InCircuit(ops[j])}
<1>1. ops \in Seq(Operations)
  BY KernelsAssumption DEF IInv, TypeOK, ops
<1>2. Len(ops) \in Nat /\ in \in SUBSET (0 .. Len(ops))
  BY <1>1
<1>3. Cardinality(in) \in Nat
  <2> HIDE DEF in
  <2> QED
    BY <1>2, FiniteNumbers
<1>4. DOMAIN CircuitOf(ops) = 1 .. Cardinality(in)
  BY DEF CircuitOf
<1> QED
  BY <1>3, <1>4

LEMMA RoutedGate ==
  ASSUME IInv, GatesInv, RoutedInv, MapGate
  PROVE  RoutedInv'
<1>1. PICK i \in Gates \ emitted :
        /\ Ready(i)
        /\ emitted' = emitted \cup {i}
        /\ mapped' = Append(mapped, Placed(circuit[i]))
  BY DEF MapGate
<1>2. /\ phase = "map" /\ phase' = phase /\ circuit' = circuit /\ layout' = layout
      /\ SameOrigin /\ layout \in Injection(Program, Physical)
  BY DEF MapGate, SameOrigin, IInv, MapperInv, Mapping
<1>3. /\ mapped \in Seq(PhysicalOps) /\ emitted \subseteq Gates
      /\ \A a \in Program : HeldAfter(mapped)[layout[a]] = a
      /\ circuit[i].op = "swap" => circuit[i].tgt[1] = circuit[i].tgt[2]
      /\ \A j \in emitted, l \in Gates \ emitted :
           l < j => Qubits(circuit[l]) \cap Qubits(circuit[j]) = {}
      /\ \A a \in Program : GatesOn(a, Unrouted(mapped)) = Picked(circuit, EmittedOn(a))
  BY <1>2 DEF RoutedInv, Mapping
<1>4. /\ circuit[i] \in SimpleOps /\ Qubits(circuit[i]) \subseteq Program
      /\ circuit[i].op # "mz" /\ i \in DOMAIN circuit
  BY <1>2 DEF GatesInv, Gates, IsMeasurement, Mapping
<1> DEFINE g == Placed(circuit[i])
<1>5. /\ g \in PhysicalOps /\ g.op = circuit[i].op
      /\ g.op = "swap" => g.tgt[1] = g.tgt[2]
      /\ Unplaced(g, HeldAfter(mapped)) = circuit[i]
  BY <1>2, <1>3, <1>4, PlacedReadBack
<1> HIDE DEF g
<1>6. mapped' = Append(mapped, g) /\ mapped' \in Seq(PhysicalOps)
  BY <1>1, <1>3, <1>5 DEF g
<1>7. HeldAfter(mapped') = HeldAfter(mapped)
  BY <1>3, <1>5, <1>6, HeldAppend, HeldStays, UnmovedBy
<1>8. ASSUME NEW a \in Program
      PROVE  GatesOn(a, Unrouted(mapped')) = Picked(circuit, EmittedOn(a)')
  <2>1. GatesOn(a, Unrouted(mapped)) = Picked(circuit, EmittedOn(a))
    BY <1>3
  <2>2. EmittedOn(a)' = IF circuit[i].op # "swap" /\ a \in Qubits(circuit[i])
                        THEN EmittedOn(a) \cup {i} ELSE EmittedOn(a)
    BY <1>1, <1>2 DEF EmittedOn
  <2>3. CASE circuit[i].op = "swap"
    <3>1. /\ Len(mapped) =< Len(mapped')
          /\ \A k \in 1 .. Len(mapped) : mapped'[k] = mapped[k]
          /\ \A k \in 1 .. Len(mapped') : k > Len(mapped) => mapped'[k] = g
      BY <1>3, <1>5, <1>6
    <3>2. \A k \in 1 .. Len(mapped') : k > Len(mapped) => mapped'[k].op \in {"swap", "mz"}
      BY <1>5, <2>3, <3>1
    <3>3. GatesOn(a, Unrouted(mapped')) = GatesOn(a, Unrouted(mapped))
      BY <1>3, <1>6, <3>1, <3>2, GatesOfMore
    <3> QED
      BY <2>1, <2>2, <2>3, <3>3
  <2>4. CASE circuit[i].op # "swap"
    <3>1. g.op \notin {"swap", "mz"}
      BY <1>4, <1>5, <2>4
    <3>2. GatesOn(a, Unrouted(mapped')) =
            IF a \in Qubits(circuit[i]) THEN Append(GatesOn(a, Unrouted(mapped)), circuit[i])
            ELSE GatesOn(a, Unrouted(mapped))
      BY <1>3, <1>5, <1>6, <3>1, GatesOfGate
    <3>3. CASE a \in Qubits(circuit[i])
      <4>1. PICK n \in Nat : DOMAIN circuit = 1 .. n
        BY <1>2, PlacesOfCircuit DEF RoutedInv, Mapping
      <4>2. EmittedOn(a) \in SUBSET (0 .. n) /\ i \in 0 .. n
        BY <1>3, <1>4, <4>1 DEF EmittedOn, Gates
      <4>3. ASSUME NEW j \in EmittedOn(a) PROVE j < i
        <5>1. j \in emitted /\ a \in Qubits(circuit[j]) /\ j \in 0 .. n /\ i \in 0 .. n
          BY <4>2 DEF EmittedOn
        <5>2. ~(i < j)
          BY <1>3, <3>3, <5>1
        <5>3. i # j
          BY <5>1
        <5> QED
          BY <5>1, <5>2, <5>3
      <4>4. Picked(circuit, EmittedOn(a) \cup {i}) = Append(Picked(circuit, EmittedOn(a)), circuit[i])
        BY <4>2, <4>3, PickedMore
      <4> QED
        BY <2>1, <2>2, <2>4, <3>2, <3>3, <4>4
    <3>4. CASE a \notin Qubits(circuit[i])
      BY <2>1, <2>2, <3>2, <3>4
    <3> QED
      BY <3>3, <3>4
  <2> QED
    BY <2>3, <2>4
<1>9. ASSUME NEW j \in emitted', NEW l \in Gates \ emitted', l < j
      PROVE  Qubits(circuit[l]) \cap Qubits(circuit[j]) = {}
  <2>1. l \in Gates \ emitted
    BY <1>1
  <2>2. CASE j \in emitted
    BY <1>3, <1>9, <2>1, <2>2
  <2>3. CASE j = i
    BY <1>1, <1>9, <2>1, <2>3 DEF Ready
  <2> QED
    BY <1>1, <2>2, <2>3
<1>10. /\ Program' = Program /\ ops' = ops /\ PhysicalOps' = PhysicalOps
       /\ HeldAfter(mapped)' = HeldAfter(mapped')
       /\ \A a : GatesOn(a, Unrouted(mapped))' = GatesOn(a, Unrouted(mapped'))
       /\ Gates' = Gates
  BY <1>2, SameReading DEF Gates
<1>11. ASSUME NEW a \in Program'
       PROVE  GatesOn(a, Unrouted(mapped))' = Picked(circuit, EmittedOn(a))'
  <2>1. Picked(circuit, EmittedOn(a))' = Picked(circuit, EmittedOn(a)')
    BY <1>2, Zenon DEF Picked
  <2> QED
    BY <1>8, <1>10, <2>1
<1>12. ASSUME NEW a \in Program' PROVE HeldAfter(mapped)'[layout'[a]] = a
  BY <1>2, <1>3, <1>7, <1>10
<1>13. emitted' \subseteq Gates'
  BY <1>1, <1>3, <1>10
<1>14. circuit' = CircuitOf(ops)'
       /\ \A j \in Gates' : circuit'[j].op = "swap" => circuit'[j].tgt[1] = circuit'[j].tgt[2]
  BY <1>2, <1>10 DEF RoutedInv, Mapping
<1>15. \A j \in emitted', l \in Gates' \ emitted' :
         l < j => Qubits(circuit'[l]) \cap Qubits(circuit'[j]) = {}
  BY <1>2, <1>9, <1>10
<1> QED
  BY <1>2, <1>6, <1>10, <1>11, <1>12, <1>13, <1>14, <1>15 DEF RoutedInv

\* The qubits that are measured at the end are qubits of the device.
LEMMA MeasuredOnDevice ==
  ASSUME layout \in Injection(Program, Physical), NEW qubits \in MeasuredSets
  PROVE  /\ Cardinality(qubits) \in Nat
         /\ FinalMeasurements(qubits) \in Seq(PhysicalOps)
         /\ \A i \in DOMAIN FinalMeasurements(qubits) : FinalMeasurements(qubits)[i].op = "mz"
<1>1. qubits \in SUBSET (0 .. NumQubits) /\ qubits \subseteq Physical
  <2>1. qubits \subseteq Physical
    BY DEF MeasuredSets, Held, HeldAndMeasured, Injection
  <2> QED
    BY <2>1, NumQubitsAssumption DEF Physical
<1>2. Cardinality(qubits) \in Nat
  BY <1>1, FiniteNumbers, NumQubitsAssumption
<1>3. \A i \in 1 .. Cardinality(qubits) : Nth(qubits, i) \in qubits
  BY <1>1, NthIsIn, NumQubitsAssumption
<1>4. \A q \in qubits : Mz(q) \in PhysicalOps /\ Mz(q).op = "mz"
  <2>1. ASSUME NEW q \in qubits PROVE Mz(q) \in PhysicalOps /\ Mz(q).op = "mz"
    <3>1. Mz(q) \in SimpleOps
      BY <1>1, MzIsSimple
    <3>2. Qubits(Mz(q)) = {q}
      BY DEF Mz, Qubits, ToSet
    <3> QED
      BY <1>1, <3>1, <3>2 DEF PhysicalOps, Mz
  <2> QED
    BY <2>1
<1>5. \A i \in 1 .. Cardinality(qubits) :
        Mz(Nth(qubits, i)) \in PhysicalOps /\ Mz(Nth(qubits, i)).op = "mz"
  BY <1>3, <1>4
<1> QED
  BY <1>2, <1>5 DEF FinalMeasurements

LEMMA RoutedEnds ==
  ASSUME IInv, GatesInv, RoutedInv, MapEnds
  PROVE  RoutedInv'
<1>1. PICK qubits \in MeasuredSets : mapped' = mapped \o FinalMeasurements(qubits)
  BY DEF MapEnds
<1>2. /\ phase = "map" /\ phase' \in {"failed", "rebuild"} /\ circuit' = circuit
      /\ emitted' = emitted /\ emitted = Gates
      /\ SameOrigin /\ layout \in Injection(Program, Physical)
  BY DEF MapEnds, SameOrigin, IInv, MapperInv, Mapping
<1> DEFINE r == FinalMeasurements(qubits)
<1>3. mapped \in Seq(PhysicalOps) /\ r \in Seq(PhysicalOps) /\ \A i \in DOMAIN r : r[i].op = "mz"
  BY <1>2, MeasuredOnDevice DEF RoutedInv
<1> HIDE DEF r
<1>4. mapped' = mapped \o r /\ mapped' \in Seq(PhysicalOps)
  BY <1>1, <1>3 DEF r
<1>5. ASSUME NEW a PROVE GatesOn(a, Unrouted(mapped')) = GatesOn(a, Unrouted(mapped))
  <2>1. /\ Len(mapped) =< Len(mapped')
        /\ \A i \in 1 .. Len(mapped) : mapped'[i] = mapped[i]
        /\ \A i \in 1 .. Len(mapped') :
             i > Len(mapped) => i - Len(mapped) \in DOMAIN r /\ mapped'[i] = r[i - Len(mapped)]
    BY <1>3, <1>4
  <2>2. \A i \in 1 .. Len(mapped') : i > Len(mapped) => mapped'[i].op \in {"swap", "mz"}
    BY <1>3, <2>1
  <2> QED
    BY <1>3, <1>4, <2>1, <2>2, GatesOfMore
<1>6. /\ Program' = Program /\ ops' = ops /\ PhysicalOps' = PhysicalOps
      /\ \A a : GatesOn(a, Unrouted(mapped))' = GatesOn(a, Unrouted(mapped'))
      /\ Gates' = Gates
  BY <1>2, SameReading DEF Gates
<1>7. ASSUME NEW a \in Program'
      PROVE  GatesOn(a, Unrouted(mapped))' = Picked(circuit, EmittedOn(a))'
  <2>1. GatesOn(a, Unrouted(mapped)) = Picked(circuit, EmittedOn(a))
    BY <1>2, <1>6 DEF RoutedInv, Mapping
  <2>2. Picked(circuit, EmittedOn(a))' = Picked(circuit, EmittedOn(a))
    BY <1>2, Zenon DEF Picked, EmittedOn
  <2> QED
    BY <1>5, <1>6, <2>1, <2>2
<1> QED
  BY <1>2, <1>4, <1>6, <1>7 DEF RoutedInv, Mapping

LEMMA RoutedRebuild ==
  ASSUME IInv, GatesInv, RoutedInv, Rebuild
  PROVE  RoutedInv'
<1>1. /\ phase = "rebuild" /\ phase' \in {"resolve", "failed"}
      /\ circuit' = circuit /\ emitted' = emitted /\ mapped' = mapped /\ layout' = layout
      /\ SameOrigin
  BY DEF Rebuild, mapper, SameOrigin
<1>2. ASSUME phase' = "resolve" PROVE new' = mapped
  <2>1. mapped \in Seq(SimpleOps) /\ Unsupported = {}
    BY <1>2 DEF Rebuild, GatesInv
  <2>2. new' = [i \in 1 .. Len(mapped) |-> Rebuilt(mapped[i])]
    BY <2>1 DEF Rebuild, Created
  <2>3. \A i \in 1 .. Len(mapped) : Rebuilt(mapped[i]) = mapped[i]
    BY <2>1, RebuiltIsSame DEF Unsupported
  <2>4. mapped = [i \in 1 .. Len(mapped) |-> mapped[i]]
    BY <2>1
  <2> QED
    BY <2>2, <2>3, <2>4
<1>3. /\ Program' = Program /\ ops' = ops /\ PhysicalOps' = PhysicalOps
      /\ \A a : GatesOn(a, Unrouted(mapped))' = GatesOn(a, Unrouted(mapped'))
      /\ Gates' = Gates
  BY <1>1, SameReading DEF Gates
<1>4. \A a : Picked(circuit, EmittedOn(a))' = Picked(circuit, EmittedOn(a))
  BY <1>1, Zenon DEF Picked, EmittedOn
<1> QED
  BY <1>1, <1>2, <1>3, <1>4 DEF RoutedInv, Mapping

LEMMA RoutedStays ==
  ASSUME RoutedInv, UNCHANGED <<kernel, circuit, emitted, layout, start, mapped, new>>,
         \/ phase' = phase
         \/ phase \in {"resolve", "erase"} /\ phase' \in {"erase", "done", "aborted"}
         \/ phase' \in {"skipped", "failed"}
  PROVE  RoutedInv'
<1>1. /\ Program' = Program /\ ops' = ops /\ PhysicalOps' = PhysicalOps
      /\ HeldAfter(mapped)' = HeldAfter(mapped)
      /\ \A a : GatesOn(a, Unrouted(mapped))' = GatesOn(a, Unrouted(mapped))
      /\ Gates' = Gates
  BY SameReading DEF SameOrigin, Gates
<1>2. \A a : Picked(circuit, EmittedOn(a))' = Picked(circuit, EmittedOn(a))
  BY Zenon DEF Picked, EmittedOn
<1> QED
  BY <1>1, <1>2 DEF RoutedInv, Mapping

LEMMA RoutedStep ==
  ASSUME IInv, GatesInv, RoutedInv, [Next]_vars
  PROVE  RoutedInv'
<1>1. CASE Load
  BY <1>1, RoutedLoad
<1>2. CASE MapSwap
  BY <1>2, RoutedSwap
<1>3. CASE MapGate
  BY <1>3, RoutedGate
<1>4. CASE MapEnds
  BY <1>4, RoutedEnds
<1>5. CASE Rebuild
  BY <1>5, RoutedRebuild
<1>6. CASE Skip \/ LoadFails \/ MapFails \/ ResolveAborts \/ EraseAborts \/ Resolve \/ Erase
  BY <1>6, RoutedStays DEF Skip, LoadFails, MapFails, ResolveAborts, EraseAborts, Resolve,
                           Erase, mapper, body
<1>7. CASE UNCHANGED vars
  BY <1>7, RoutedStays DEF vars, mapper, body
<1> QED
  BY <1>1, <1>2, <1>3, <1>4, <1>5, <1>6, <1>7 DEF Next

\* A kernel that is its own circuit is loaded as a whole.
LEMMA FaithfulIsLoaded ==
  ASSUME IInv, Faithful(ops)
  PROVE  \A i \in DOMAIN ops : InCircuit(ops[i])
<1> DEFINE in == {j \in DOMAIN ops : InCircuit(ops[j])}
           n == Len(ops)
<1>1. ops \in Seq(Operations)
  BY KernelsAssumption DEF IInv, TypeOK, ops
<1>2. n \in Nat /\ DOMAIN ops = 1 .. n /\ in \in SUBSET (0 .. n) /\ in \subseteq 1 .. n
  BY <1>1
<1>3. DOMAIN CircuitOf(ops) = 1 .. Cardinality(in)
  BY DEF CircuitOf
<1>4. CircuitOf(ops) = ops
  BY DEF Faithful
<1> HIDE DEF in, n
<1>5. Cardinality(in) \in Nat
  BY <1>2, FiniteNumbers
<1>6. Cardinality(in) = n
  BY <1>2, <1>3, <1>4, <1>5
<1>7. IsFiniteSet(1 .. n) /\ Cardinality(1 .. n) = n
  BY <1>2, FS_Interval
<1>8. in = 1 .. n
  BY <1>2, <1>6, <1>7, FS_Subset
<1> QED
  BY <1>2, <1>8 DEF in

\* Undoing the swaps gives back the kernel, whatever the device, the layout, the
\* swaps and the order in which the mapper emits the gates: on every qubit the
\* same gates in the same order, and nothing else is left.
THEOREM Keeps == Spec => []KeepsTheProgram
<1>1. ASSUME IInv, RoutedInv PROVE KeepsTheProgram
  <2> SUFFICES ASSUME phase = "done", Faithful(ops)
               PROVE  /\ \A a \in Program : GatesOn(a, Unrouted(new)) = GatesOn(a, ops)
                      /\ old = {}
    BY DEF KeepsTheProgram
  <2>1. old = {}
    BY <1>1, FaithfulIsLoaded DEF IInv, TypeOK, BodyInv, InCircuit
  <2>2. circuit = ops /\ emitted = Gates /\ new = mapped
    BY <1>1 DEF RoutedInv, Mapping, Faithful
  <2>3. ASSUME NEW a \in Program PROVE GatesOn(a, Unrouted(new)) = GatesOn(a, ops)
    <3>1. GatesOn(a, Unrouted(mapped)) = Picked(circuit, EmittedOn(a))
      BY <1>1 DEF RoutedInv, Mapping
    <3>2. EmittedOn(a) = {i \in DOMAIN ops : ops[i].op \notin {"swap", "mz"} /\ a \in Qubits(ops[i])}
      BY <2>2 DEF EmittedOn, Gates, IsMeasurement
    <3> QED
      BY <2>2, <3>1, <3>2, Zenon DEF GatesOn
  <2> QED
    BY <2>1, <2>3
<1>2. IInv /\ GatesInv /\ [Next]_vars => GatesInv'
  BY GatesStep
<1>3. IInv /\ GatesInv /\ RoutedInv /\ [Next]_vars => RoutedInv'
  BY RoutedStep
<1>4. IInv /\ RoutedInv => KeepsTheProgram
  BY <1>1
<1> QED
  BY <1>2, <1>3, <1>4, GatesInit, RoutedInit, Invariant, PTL DEF Spec
=============================================================================
