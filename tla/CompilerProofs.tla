--------------------------- MODULE CompilerProofs ---------------------------
(***************************************************************************)
(* Theorems about Compiler: for any device, whatever the mapper chooses and *)
(* the checker accepts.  The first part is for any table of rules; what    *)
(* follows RepositoryRules is for that of the repository.                  *)
(***************************************************************************)
EXTENDS Compiler, DecompositionRulesProofs, SequenceProofs, FiniteSetTheorems, TLAPS

OnlyKernel(qc1, qc2) == [n \in {"kernel"} |-> [qc1 |-> qc1, qc2 |-> qc2]]

\* What the hooks have seen of the kernel at each stage.
IInv ==
  /\ stage \in {"optimize", "map"} => snapshot = [n \in {} |-> {}]
  /\ stage = "convert" /\ request.verify => snapshot = OnlyKernel(Verification!CircuitOf(input), <<>>)
  /\ stage \in {"lower", "returned"} /\ request.verify =>
       /\ snapshot = OnlyKernel(Verification!CircuitOf(input), Verification!CircuitOf(visited))
       /\ Verification!AllAccepted(snapshot)

-----------------------------------------------------------------------------
\* The first hook of an empty cache, and the second one of what it left.
LEMMA HooksOfOneKernel ==
  ASSUME NEW ops, NEW first
  PROVE  /\ snapshot = [n \in {} |-> {}] =>
              Verification!SnapshotBefore(Module(ops)) = OnlyKernel(Verification!CircuitOf(ops), <<>>)
         /\ snapshot = OnlyKernel(first, <<>>) =>
              Verification!SnapshotAfter(Module(ops)) = OnlyKernel(first, Verification!CircuitOf(ops))
<1>1. Verification!Checked(Module(ops)) = {"kernel"}
  BY DEF Verification!Checked, Verification!Allocates, Module
<1>2. Verification!Circuit(Module(ops), "kernel") = Verification!CircuitOf(ops)
  BY DEF Verification!Circuit, Module
<1> QED
  BY <1>1, <1>2 DEF Verification!SnapshotBefore, Verification!SnapshotAfter, OnlyKernel

\* The conversion keeps its input.
LEMMA ConversionKeepsInput ==
  Conversion!Sweep \/ Conversion!Walk => UNCHANGED input
  BY DEF Conversion!Sweep, Conversion!Walk, Conversion!SkipEntry, Conversion!TakeWitness,
         Conversion!NextSweep, Conversion!WitnessesDone, Conversion!KeepOp,
         Conversion!RejectOp, Conversion!RewriteOp, Conversion!FixedPoint,
         Conversion!NextRound, Conversion!GiveUp, Conversion!inputVars

LEMMA IInvInit == Init => IInv
  BY DEF Init, IInv

LEMMA IInvStep == IInv /\ [Next]_vars => IInv'
<1> SUFFICES ASSUME IInv, [Next]_vars PROVE IInv'
  OBVIOUS
<1>1. CASE Optimize
  BY <1>1 DEF Optimize, IInv
<1>2. CASE RunMapping
  BY <1>2 DEF RunMapping, IInv
<1>3. CASE MappingFails \/ MappingAborts \/ NoNativeGates \/ SnapshotAborts
           \/ ConversionFails \/ VerifyAborts \/ LoweringFails
  <2>1. stage' \in {"nullopt", "aborted"}
    BY <1>3 DEF MappingFails, MappingAborts, NoNativeGates, SnapshotAborts,
                ConversionFails, VerifyAborts, LoweringFails, Refuse, Abort
  <2> QED
    BY <2>1 DEF IInv
<1>4. CASE BeginConversion
  <2>1. stage' = "convert" /\ request' = request /\ input' = MappedOps
    BY <1>4 DEF BeginConversion, call
  <2>2. ASSUME request.verify
        PROVE  snapshot' = OnlyKernel(Verification!CircuitOf(MappedOps), <<>>)
    <3>1. snapshot = [n \in {} |-> {}]
      BY <1>4 DEF BeginConversion, IsMapped, IInv
    <3>2. snapshot' = Verification!SnapshotBefore(Module(MappedOps))
      BY <1>4, <2>2 DEF BeginConversion
    <3> QED
      BY <3>1, <3>2, HooksOfOneKernel
  <2>3. Verification!CircuitOf(input)' = Verification!CircuitOf(input')
    OBVIOUS
  <2> QED
    BY <2>1, <2>2 DEF IInv
<1>5. CASE RunConversion
  <2>1. stage = "convert" /\ UNCHANGED <<stage, snapshot, request, input>>
    BY <1>5, ConversionKeepsInput DEF RunConversion, call
  <2> QED
    BY <2>1 DEF IInv
<1>6. CASE Verify
  <2>1. /\ stage = "convert" /\ stage' \in {"lower", "nullopt"}
        /\ UNCHANGED <<request, input, visited>>
    BY <1>6 DEF Verify, IsConverted, call, conversion
  <2>2. ASSUME request.verify
        PROVE  snapshot' = OnlyKernel(Verification!CircuitOf(input), Verification!CircuitOf(visited))
    <3>1. snapshot = OnlyKernel(Verification!CircuitOf(input), <<>>)
      BY <2>1, <2>2 DEF IInv
    <3>2. snapshot' = Verification!SnapshotAfter(Module(visited))
      BY <1>6, <2>2 DEF Verify, SnapshotOfBoth
    <3> QED
      BY <3>1, <3>2, HooksOfOneKernel
  <2>3. stage' = "lower" => Verification!AllAccepted(snapshot')
    BY <1>6 DEF Verify
  <2> QED
    BY <2>1, <2>2, <2>3 DEF IInv, Verification!AllAccepted, Verification!Accepts
<1>7. CASE Lower
  <2>1. stage = "lower" /\ stage' = "returned" /\ UNCHANGED <<request, snapshot, input, visited>>
    BY <1>7 DEF Lower, call, conversion
  <2> QED
    BY <2>1 DEF IInv, Verification!AllAccepted, Verification!Accepts
<1>8. CASE Ended \/ UNCHANGED vars
  <2>1. UNCHANGED <<stage, snapshot, request, input, visited>>
    BY <1>8 DEF Ended, vars, call, conversion
  <2> QED
    BY <2>1 DEF IInv, Verification!AllAccepted, Verification!Accepts
<1> QED
  BY <1>1, <1>2, <1>3, <1>4, <1>5, <1>6, <1>7, <1>8 DEF Next

\* What the hooks hold when a kernel is lowered are the circuits of the kernel
\* the conversion began and ended with, and the checker has accepted them.
THEOREM Invariant == Spec => []IInv
  BY IInvInit, IInvStep, PTL DEF Spec

\* With opts.verify, compileImpl returns only what the checker takes for the
\* kernel that was mapped, wherever that kernel was loaded as it is.
THEOREM ReturnsTheVerified == Spec => []VerifiedKeepsTheKernel
<1>1. IInv => VerifiedKeepsTheKernel
  <2> SUFFICES ASSUME IInv, stage \in {"lower", "returned"}, request.verify,
                      Verification!Faithful(input), Verification!Faithful(visited)
               PROVE  input = <<>> \/ visited = <<>> \/ ConsideredEquivalent(input, visited)
    BY DEF VerifiedKeepsTheKernel
  <2>1. snapshot = OnlyKernel(input, visited) /\ Verification!AllAccepted(snapshot)
    BY DEF IInv, Verification!Faithful
  <2>2. Verification!Accepts([qc1 |-> input, qc2 |-> visited])
    BY <2>1 DEF OnlyKernel, Verification!AllAccepted
  <2> QED
    BY <2>2 DEF Verification!Accepts
<1> QED
  BY <1>1, Invariant, PTL

-----------------------------------------------------------------------------
\* Every rule puts what it emits on coupled qubits, if the gate it replaces is.
EmitsInPlace ==
  \A m \in DOMAIN Table : \A r \in 1..Len(Table[m]) : \A g \in CoupledOperations :
    Classify(g) = m => Emit(Table[m][r], g) \in Seq(CoupledOperations)

Converting == stage \in {"convert", "lower", "returned"}

\* Witnesses are rules, and what the walk has before it and behind it is coupled.
CoupledInv ==
  /\ witness \in [DOMAIN Table -> Nat]
  /\ \A m \in DOMAIN Table : witness[m] = 0 \/ witness[m] \in 1..Len(Table[m])
  /\ stage \in {"optimize", "map"} => visited = <<>>
  /\ Converting /\ input \in Seq(CoupledOperations) =>
       pending \in Seq(CoupledOperations) /\ visited \in Seq(CoupledOperations)

\* What a step leaves alone where it changes neither witnesses nor kernels.
Kept == UNCHANGED <<witness, input, pending, visited>>

LEMMA CoupledInit == Init => CoupledInv
  BY DEF Init, CoupledInv, Converting

\* The sweeps of computeWitnesses.
LEMMA CoupledSweep ==
  ASSUME CoupledInv, stage = "convert", Conversion!Sweep, UNCHANGED stage
  PROVE  CoupledInv'
<1>1. UNCHANGED <<input, pending, visited>>
  BY DEF Conversion!Sweep, Conversion!SkipEntry, Conversion!TakeWitness,
         Conversion!NextSweep, Conversion!WitnessesDone, Conversion!inputVars,
         Conversion!walkVars
<1>2. CASE Conversion!TakeWitness
  <2>1. PICK r : /\ r \in 1..Len(Table[order[pos]])
                 /\ witness' = [witness EXCEPT ![order[pos]] = r]
    BY <1>2 DEF Conversion!TakeWitness, Conversion!ResolvableRules
  <2>2. witness' \in [DOMAIN Table -> Nat]
    <3>1. witness \in [DOMAIN Table -> Nat] /\ r \in Nat
      BY <2>1 DEF CoupledInv
    <3> QED
      BY <2>1, <3>1
  <2>3. ASSUME NEW m \in DOMAIN Table
        PROVE  witness'[m] = 0 \/ witness'[m] \in 1..Len(Table[m])
    <3>1. witness'[m] = IF m = order[pos] THEN r ELSE witness[m]
      BY <2>1 DEF CoupledInv
    <3>2. witness[m] = 0 \/ witness[m] \in 1..Len(Table[m])
      BY DEF CoupledInv
    <3> QED
      BY <2>1, <3>1, <3>2
  <2> QED
    BY <1>1, <2>2, <2>3 DEF CoupledInv, Converting
<1>3. CASE ~Conversion!TakeWitness
  <2>1. UNCHANGED witness
    BY <1>3 DEF Conversion!Sweep, Conversion!SkipEntry, Conversion!NextSweep,
                Conversion!WitnessesDone, Conversion!sweepVars
  <2> QED
    BY <1>1, <2>1 DEF CoupledInv, Converting
<1> QED
  BY <1>2, <1>3

\* The rounds of runOnOperation.
LEMMA CoupledWalk ==
  ASSUME EmitsInPlace, CoupledInv, stage = "convert", Conversion!Walk, UNCHANGED stage
  PROVE  CoupledInv'
<1>1. UNCHANGED <<input, witness>>
  BY DEF Conversion!Walk, Conversion!KeepOp, Conversion!RejectOp, Conversion!RewriteOp,
         Conversion!FixedPoint, Conversion!NextRound, Conversion!GiveUp,
         Conversion!inputVars, Conversion!sweepVars
<1>2. SUFFICES ASSUME input \in Seq(CoupledOperations)
               PROVE  /\ pending' \in Seq(CoupledOperations)
                      /\ visited' \in Seq(CoupledOperations)
  BY <1>1 DEF CoupledInv, Converting
<1>3. pending \in Seq(CoupledOperations) /\ visited \in Seq(CoupledOperations)
  BY <1>2 DEF CoupledInv, Converting
<1>4. CASE Conversion!KeepOp \/ Conversion!RejectOp
  <2>1. /\ pending # <<>> /\ pending' = Tail(pending)
        /\ visited' = Append(visited, Head(pending))
    BY <1>4 DEF Conversion!KeepOp, Conversion!RejectOp, Conversion!This
  <2> QED
    BY <1>3, <2>1
<1>5. CASE Conversion!RewriteOp
  <2> DEFINE g == Head(pending)
             m == Classify(g)
  <2>1. /\ pending # <<>> /\ pending' = Tail(pending)
        /\ m \in DOMAIN Table /\ witness[m] # 0
        /\ visited' = visited \o Emit(Table[m][witness[m]], g)
    BY <1>5 DEF Conversion!RewriteOp, Conversion!This, Conversion!Entries
  <2>2. g \in CoupledOperations
    BY <1>3, <2>1
  <2>3. witness[m] \in 1..Len(Table[m])
    BY <2>1 DEF CoupledInv
  <2>4. Emit(Table[m][witness[m]], g) \in Seq(CoupledOperations)
    BY <2>1, <2>2, <2>3 DEF EmitsInPlace
  <2>5. Tail(pending) \in Seq(CoupledOperations)
    BY <1>3, <2>1
  <2> HIDE DEF g, m
  <2>6. visited \o Emit(Table[m][witness[m]], g) \in Seq(CoupledOperations)
    BY <1>3, <2>4
  <2> QED
    BY <2>1, <2>5, <2>6
<1>6. CASE Conversion!NextRound
  <2>1. pending' = visited /\ visited' = <<>>
    BY <1>6 DEF Conversion!NextRound
  <2> QED
    BY <1>3, <2>1
<1>7. CASE Conversion!FixedPoint \/ Conversion!GiveUp
  <2>1. UNCHANGED <<pending, visited>>
    BY <1>7 DEF Conversion!FixedPoint, Conversion!GiveUp, Conversion!walkVars
  <2> QED
    BY <1>3, <2>1
<1> QED
  BY <1>4, <1>5, <1>6, <1>7 DEF Conversion!Walk

LEMMA CoupledStep == EmitsInPlace /\ CoupledInv /\ [Next]_vars => CoupledInv'
<1> SUFFICES ASSUME EmitsInPlace, CoupledInv, [Next]_vars PROVE CoupledInv'
  OBVIOUS
<1>1. CASE Optimize \/ RunMapping
  <2>1. stage \in {"optimize", "map"} /\ stage' = "map" /\ Kept
    BY <1>1 DEF Optimize, RunMapping, Kept, conversion
  <2> QED
    BY <2>1 DEF CoupledInv, Converting, Kept
<1>2. CASE MappingFails \/ MappingAborts \/ NoNativeGates \/ SnapshotAborts
           \/ ConversionFails \/ VerifyAborts \/ LoweringFails
  <2>1. stage' \in {"nullopt", "aborted"} /\ Kept
    BY <1>2 DEF MappingFails, MappingAborts, NoNativeGates, SnapshotAborts,
                ConversionFails, VerifyAborts, LoweringFails, Refuse, Abort, Kept, conversion
  <2> QED
    BY <2>1 DEF CoupledInv, Converting, Kept
<1>3. CASE BeginConversion
  <2>1. /\ stage = "map" /\ stage' = "convert"
        /\ input' = pending' /\ UNCHANGED <<witness, visited>>
    BY <1>3 DEF BeginConversion, IsMapped
  <2>2. visited' = <<>>
    BY <2>1 DEF CoupledInv
  <2> QED
    BY <2>1, <2>2 DEF CoupledInv, Converting
<1>4. CASE RunConversion
  BY <1>4, CoupledSweep, CoupledWalk DEF RunConversion
<1>5. CASE Verify \/ Lower
  <2>1. /\ stage \in {"convert", "lower"} /\ stage' \in {"lower", "returned", "nullopt"}
        /\ Kept
    BY <1>5 DEF Verify, IsConverted, Lower, Kept, conversion
  <2> QED
    BY <2>1 DEF CoupledInv, Converting, Kept
<1>6. CASE Ended \/ UNCHANGED vars
  <2>1. UNCHANGED stage /\ Kept
    BY <1>6 DEF Ended, vars, Kept, conversion
  <2> QED
    BY <2>1 DEF CoupledInv, Converting, Kept
<1> QED
  BY <1>1, <1>2, <1>3, <1>4, <1>5, <1>6 DEF Next

\* Decomposing after mapping keeps every operation on coupled qubits, if the rules
\* stay on the qubits of the gate they replace.
THEOREM StaysCoupled ==
  ASSUME EmitsInPlace
  PROVE  Spec => []ConversionStaysCoupled
<1>1. CoupledInv => ConversionStaysCoupled
  BY DEF CoupledInv, ConversionStaysCoupled, Converting
<1>2. CoupledInv /\ [Next]_vars => CoupledInv'
  BY CoupledStep
<1> QED
  BY <1>1, <1>2, CoupledInit, PTL DEF Spec

-----------------------------------------------------------------------------
(***************************************************************************)
(* The table of the repository.                                            *)
(***************************************************************************)

\* The constants stand for the table, classifyOp and the rewrite functions.
RepositoryRules ==
  /\ None = NoMnemonic
  /\ Table = DecompositionTable
  /\ \A g \in Operations : Classify(g) = ClassifyOp(g)
  /\ \A m \in DOMAIN Table : \A r \in 1..Len(Table[m]) : \A g \in Operations :
       Classify(g) = m => Emit(Table[m][r], g) = ApplyRule(Table[m][r], g)

\* What a rule emits for a gate on coupled qubits is on coupled qubits.
LEMMA EmissionsAreCoupled ==
  ASSUME NEW g \in CoupledOperations, NEW P
  PROVE  Emissions(g, P) \subseteq CoupledOperations
<1>1. \A e \in Operations :
        Mapping!Coupled(e) <=> \A p, q \in Qubits(e) : p = q \/ <<p, q>> \in Coupling
  BY Zenon DEF Mapping!Coupled, Mapping!Qubits, Qubits, ToSet, Mapping!ToSet
<1>2. \A e \in Emissions(g, P) : e \in Operations /\ Qubits(e) \subseteq Qubits(g)
  BY DEF Emissions
<1>3. \A p, q \in Qubits(g) : p = q \/ <<p, q>> \in Coupling
  <2>1. g \in Operations /\ Mapping!Coupled(g)
    BY Zenon DEF CoupledOperations
  <2> QED
    BY <1>1, <2>1, Zenon
<1>4. ASSUME NEW e \in Emissions(g, P) PROVE Mapping!Coupled(e)
  BY <1>1, <1>2, <1>3, Zenon
<1> QED
  BY <1>2, <1>4, Zenon DEF CoupledOperations

\* The rules of the repository satisfy the hypothesis of StaysCoupled.
LEMMA RulesStayInPlace == RepositoryRules => EmitsInPlace
<1> SUFFICES ASSUME RepositoryRules, NEW m \in DOMAIN Table, NEW r \in 1..Len(Table[m]),
                    NEW g \in CoupledOperations, Classify(g) = m
             PROVE  Emit(Table[m][r], g) \in Seq(CoupledOperations)
  BY DEF EmitsInPlace
<1>1. g \in Operations /\ ClassifyOp(g) = m /\ m \in DOMAIN DecompositionTable
      /\ r \in 1..Len(DecompositionTable[m])
  BY DEF RepositoryRules, CoupledOperations
<1>2. PICK P : ApplyRule(DecompositionTable[m][r], g) \in Seq(Emissions(g, P))
  BY <1>1, RulesEmit
<1>3. Emissions(g, P) \subseteq CoupledOperations
  BY EmissionsAreCoupled
<1>4. Emit(Table[m][r], g) = ApplyRule(DecompositionTable[m][r], g)
  BY <1>1 DEF RepositoryRules
<1> QED
  BY <1>2, <1>3, <1>4

\* Decomposing after mapping is sound with the repository's rules: a rewrite function
\* puts what it emits on the qubits of the operation it replaces.
THEOREM RepositoryStaysCoupled ==
  ASSUME RepositoryRules
  PROVE  Spec => []ConversionStaysCoupled
BY RulesStayInPlace, StaysCoupled

-----------------------------------------------------------------------------
(***************************************************************************)
(* The conversion of the compiler is the one BasisConversionProofs is      *)
(* about, on operations it leaves nothing undone of: on coupled qubits, and *)
(* either measurements or of a class whose rules keep the control.         *)
(***************************************************************************)
DeviceOps ==
  {g \in CoupledOperations : IsMeasurement(g) \/ Classify(g) \notin LosesControl \cup {None}}

\* the native sets of the calls
Requested == {{resolveMnemonicAlias(g) : g \in ToSet(c[1].native)} : c \in Calls}

Basis == INSTANCE BasisConversionProofs WITH
  Gate <- DeviceOps, Kernels <- Seq(DeviceOps), NativeSets <- Requested

\* No row of Shapes is for a measurement.
LEMMA MeasurementsAreUnclassified ==
  ASSUME RepositoryRules, NEW g \in Operations, IsMeasurement(g)
  PROVE  Classify(g) = None
<1>1. \A s \in Shapes : ~HasShape(g, s)
  BY DEF Shapes, Shape, HasShape, IsMeasurement
<1>2. ClassifyOp(g) = NoMnemonic
  BY <1>1, ClassifiedHasShape
<1> QED
  BY <1>2 DEF RepositoryRules

\* The rules turn such operations into such operations.
LEMMA DeviceEmits ==
  ASSUME RepositoryRules, NEW m \in DOMAIN Table, NEW r \in 1..Len(Table[m]),
         NEW g \in DeviceOps, Classify(g) = m
  PROVE  Emit(Table[m][r], g) \in Seq(DeviceOps)
<1>1. g \in CoupledOperations /\ g \in Operations /\ ClassifyOp(g) = m
      /\ m \in DOMAIN DecompositionTable /\ r \in 1..Len(DecompositionTable[m])
  BY DEF RepositoryRules, CoupledOperations, DeviceOps
<1> DEFINE rule == DecompositionTable[m][r]
<1>2. ApplyRule(rule, g) \in Seq(Emissions(g, Yields(rule)))
  BY <1>1, RulesEmit
<1>3. m # "crz"
  <2>1. m # NoMnemonic
    BY <1>1 DEF DecompositionTable, NoMnemonic
  <2> QED
    BY <2>1, MeasurementsAreUnclassified, <1>1 DEF DeviceOps, LosesControl, RepositoryRules
<1>4. NoMnemonic \notin Yields(rule) /\ Yields(rule) \cap LosesControl = {}
  BY <1>1, <1>3, YieldsOfARule
<1>5. Emissions(g, Yields(rule)) \subseteq DeviceOps
  <2> SUFFICES ASSUME NEW e \in Emissions(g, Yields(rule)) PROVE e \in DeviceOps
    OBVIOUS
  <2> HIDE DEF rule
  <2>1. e \in CoupledOperations /\ e \in Operations /\ ClassifyOp(e) \in Yields(rule)
    BY <1>1, EmissionsAreCoupled DEF Emissions
  <2> QED
    BY <2>1, <1>4 DEF DeviceOps, RepositoryRules
<1>6. Emit(Table[m][r], g) = ApplyRule(rule, g)
  BY <1>1 DEF RepositoryRules
<1> HIDE DEF rule
<1> QED
  BY <1>2, <1>5, <1>6

\* An instance has every definition under a name of its own: the lemmas Same... say
\* that two names have one meaning.
LEMMA SameTable == Basis!DecompositionTable = DecompositionTable
BY DEF Basis!DecompositionTable, DecompositionTable, Basis!Rule, Rule

LEMMA SameClasses ==
  ASSUME NEW g
  PROVE  Basis!ClassifyOp(g) = ClassifyOp(g)
BY DEF Basis!ClassifyOp, ClassifyOp, Basis!Shapes, Shapes, Basis!Shape, Shape,
       Basis!HasShape, HasShape, Basis!Either, Either, Basis!Plain, Plain,
       Basis!Adjoint, Adjoint, Basis!NoMnemonic, NoMnemonic, Basis!HalfPi, HalfPi

\* The rewrite functions, a dozen at a time.
LEMMA SameRewrites ==
  ASSUME NEW rule, NEW g
  PROVE  Basis!ApplyRule(rule, g) = ApplyRule(rule, g)
<1>1. /\ Basis!rewriteHToRzRxRz(g) = rewriteHToRzRxRz(g)
      /\ Basis!rewriteHToU3(g) = rewriteHToU3(g)
      /\ Basis!rewriteHToPhasedRx(g) = rewriteHToPhasedRx(g)
      /\ Basis!rewriteXToHZH(g) = rewriteXToHZH(g)
      /\ Basis!rewriteXToRx(g) = rewriteXToRx(g)
      /\ Basis!rewriteXToPhasedRx(g) = rewriteXToPhasedRx(g)
      /\ Basis!rewriteYToRy(g) = rewriteYToRy(g)
      /\ Basis!rewriteYToPhasedRx(g) = rewriteYToPhasedRx(g)
      /\ Basis!rewriteZToHXH(g) = rewriteZToHXH(g)
      /\ Basis!rewriteZToRz(g) = rewriteZToRz(g)
      /\ Basis!rewriteSToRz(g) = rewriteSToRz(g)
      /\ Basis!rewriteSToSdgSdgSdg(g) = rewriteSToSdgSdgSdg(g)
  BY DEF Basis!rewriteHToRzRxRz, rewriteHToRzRxRz, Basis!rewriteHToU3, rewriteHToU3,
       Basis!rewriteHToPhasedRx, rewriteHToPhasedRx, Basis!rewriteXToHZH, rewriteXToHZH,
       Basis!rewriteXToRx, rewriteXToRx, Basis!rewriteXToPhasedRx, rewriteXToPhasedRx,
       Basis!rewriteYToRy, rewriteYToRy, Basis!rewriteYToPhasedRx, rewriteYToPhasedRx,
       Basis!rewriteZToHXH, rewriteZToHXH, Basis!rewriteZToRz, rewriteZToRz,
       Basis!rewriteSToRz, rewriteSToRz, Basis!rewriteSToSdgSdgSdg, rewriteSToSdgSdgSdg,
       Basis!On, On, Basis!Prx, Prx, Basis!Detached, Detached, Basis!HalfPi, HalfPi,
       Basis!Pi, Pi, Basis!createQuakeGate, createQuakeGate, Basis!Builder, Builder,
       Basis!Rotation, Rotation
<1>2. /\ Basis!rewriteSToTT(g) = rewriteSToTT(g)
      /\ Basis!rewriteSToPhasedRx(g) = rewriteSToPhasedRx(g)
      /\ Basis!rewriteSdgToRz(g) = rewriteSdgToRz(g)
      /\ Basis!rewriteSdgToSSS(g) = rewriteSdgToSSS(g)
      /\ Basis!rewriteTToRz(g) = rewriteTToRz(g)
      /\ Basis!rewriteTToPhasedRx(g) = rewriteTToPhasedRx(g)
      /\ Basis!rewriteTdgToRz(g) = rewriteTdgToRz(g)
      /\ Basis!rewriteR1ToRz(g) = rewriteR1ToRz(g)
      /\ Basis!rewriteR1ToPhasedRx(g) = rewriteR1ToPhasedRx(g)
      /\ Basis!rewriteRxToHRzH(g) = rewriteRxToHRzH(g)
      /\ Basis!rewriteRxToPhasedRx(g) = rewriteRxToPhasedRx(g)
      /\ Basis!rewriteRyToRzRxRz(g) = rewriteRyToRzRxRz(g)
  BY DEF Basis!rewriteSToTT, rewriteSToTT, Basis!rewriteSToPhasedRx, rewriteSToPhasedRx,
       Basis!rewriteSdgToRz, rewriteSdgToRz, Basis!rewriteSdgToSSS, rewriteSdgToSSS,
       Basis!rewriteTToRz, rewriteTToRz, Basis!rewriteTToPhasedRx, rewriteTToPhasedRx,
       Basis!rewriteTdgToRz, rewriteTdgToRz, Basis!rewriteR1ToRz, rewriteR1ToRz,
       Basis!rewriteR1ToPhasedRx, rewriteR1ToPhasedRx, Basis!rewriteRxToHRzH,
       rewriteRxToHRzH, Basis!rewriteRxToPhasedRx, rewriteRxToPhasedRx,
       Basis!rewriteRyToRzRxRz, rewriteRyToRzRxRz, Basis!On, On, Basis!Prx, Prx,
       Basis!Detached, Detached, Basis!HalfPi, HalfPi, Basis!createQuakeGate,
       createQuakeGate, Basis!Builder, Builder, Basis!Rotation, Rotation
<1>3. /\ Basis!rewriteRzToHRxH(g) = rewriteRzToHRxH(g)
      /\ Basis!rewriteRzToU3(g) = rewriteRzToU3(g)
      /\ Basis!rewriteRzToPhasedRx(g) = rewriteRzToPhasedRx(g)
      /\ Basis!rewriteU2ToRzRyRz(g) = rewriteU2ToRzRyRz(g)
      /\ Basis!rewriteU2ToU3(g) = rewriteU2ToU3(g)
      /\ Basis!rewriteU3ToRzRyRz(g) = rewriteU3ToRzRyRz(g)
      /\ Basis!rewriteSwapToUpperCxCxCx(g) = rewriteSwapToUpperCxCxCx(g)
      /\ Basis!rewriteCxToUpperHCzH(g) = rewriteCxToUpperHCzH(g)
      /\ Basis!rewriteCzToUpperHCxH(g) = rewriteCzToUpperHCxH(g)
      /\ Basis!rewriteCyToSCxSdg(g) = rewriteCyToSCxSdg(g)
      /\ Basis!rewriteCrxToHCrzH(g) = rewriteCrxToHCrzH(g)
      /\ Basis!rewriteCrzToHCrxH(g) = rewriteCrzToHCrxH(g)
  BY DEF Basis!rewriteRzToHRxH, rewriteRzToHRxH, Basis!rewriteRzToU3, rewriteRzToU3,
       Basis!rewriteRzToPhasedRx, rewriteRzToPhasedRx, Basis!rewriteU2ToRzRyRz,
       rewriteU2ToRzRyRz, Basis!rewriteU2ToU3, rewriteU2ToU3, Basis!rewriteU3ToRzRyRz,
       rewriteU3ToRzRyRz, Basis!rewriteSwapToUpperCxCxCx, rewriteSwapToUpperCxCxCx,
       Basis!rewriteCxToUpperHCzH, rewriteCxToUpperHCzH, Basis!rewriteCzToUpperHCxH,
       rewriteCzToUpperHCxH, Basis!rewriteCyToSCxSdg, rewriteCyToSCxSdg,
       Basis!rewriteCrxToHCrzH, rewriteCrxToHCrzH, Basis!rewriteCrzToHCrxH,
       rewriteCrzToHCrxH, Basis!On, On, Basis!OnCtl, OnCtl, Basis!CX, CX, Basis!Prx,
       Prx, Basis!HalfPi, HalfPi, Basis!createQuakeGate, createQuakeGate, Basis!Builder,
       Builder, Basis!Rotation, Rotation
<1>4. /\ Basis!rewriteCrzToRzCu3(g) = rewriteCrzToRzCu3(g)
      /\ Basis!rewriteCrzToRzCxRzCx(g) = rewriteCrzToRzCxRzCx(g)
      /\ Basis!rewriteCryToRzCrxRz(g) = rewriteCryToRzCrxRz(g)
  BY DEF Basis!rewriteCrzToRzCu3, rewriteCrzToRzCu3, Basis!rewriteCrzToRzCxRzCx,
       rewriteCrzToRzCxRzCx, Basis!rewriteCryToRzCrxRz, rewriteCryToRzCrxRz, Basis!On,
       On, Basis!OnCtl, OnCtl, Basis!CX, CX, Basis!Half, Half, Basis!HalfPi, HalfPi,
       Basis!createQuakeGate, createQuakeGate, Basis!Builder, Builder, Basis!Rotation,
       Rotation
<1> QED
  BY <1>1, <1>2, <1>3, <1>4 DEF Basis!ApplyRule, ApplyRule

\* RepositoryTable of Basis.
LEMMA SameTables ==
  ASSUME RepositoryRules
  PROVE  Basis!RepositoryTable
<1>1. Basis!DecompositionTable = DecompositionTable
  BY SameTable
<1>2. Basis!Entries = DOMAIN DecompositionTable
  BY DEF RepositoryRules, Basis!Entries
<1>3. DeviceOps \subseteq Basis!Operations
  BY DEF DeviceOps, CoupledOperations, Basis!Operations, Operations, Basis!QuakeOps, QuakeOps
<1>4. \A g \in DeviceOps : g \in Operations /\ Classify(g) = Basis!ClassifyOp(g)
  BY SameClasses DEF RepositoryRules, DeviceOps, CoupledOperations
<1>5. \A rule, g : Basis!ApplyRule(rule, g) = ApplyRule(rule, g)
  BY SameRewrites
<1>6. Basis!NoMnemonic = NoMnemonic
  BY DEF Basis!NoMnemonic, NoMnemonic
<1> QED
  BY <1>1, <1>2, <1>3, <1>4, <1>5, <1>6 DEF RepositoryRules, Basis!RepositoryTable

LEMMA SameFinite ==
  ASSUME NEW S
  PROVE  Basis!IsFiniteSet(S) = IsFiniteSet(S)
BY DEF Basis!IsFiniteSet, IsFiniteSet

LEMMA SameCardinality ==
  ASSUME NEW S
  PROVE  Basis!Cardinality(S) = Cardinality(S)
BY Zenon DEF Basis!Cardinality, Cardinality

-----------------------------------------------------------------------------
(***************************************************************************)
(* The passes of the compiler are those GatePassesProofs is about, on      *)
(* kernels that allocate their qubits.                                     *)
(***************************************************************************)
PassFacts == INSTANCE GatePassesProofs WITH
  Kernels <- {}, Allocated <- TRUE, ReductionModes <- {}, MaxGates <- 0,
  kernel <- kernel.ops

\* Editing a block.
LEMMA SameEdits ==
  /\ \A k : Passes!Open(k) = PassFacts!Open(k)
  /\ \A b : Passes!Close(b) = PassFacts!Close(b)
  /\ \A b, os : Passes!Erase(b, os) = PassFacts!Erase(b, os)
BY Zenon DEF Passes!Open, PassFacts!Open, Passes!Close, PassFacts!Close, Passes!Erase,
   PassFacts!Erase, Passes!Picked, PassFacts!Picked, Passes!Nth, PassFacts!Nth,
   Passes!Cardinality, PassFacts!Cardinality, Passes!IsFiniteSet, PassFacts!IsFiniteSet

\* The type of an operation.
LEMMA SameTypes == \A g : Passes!GateTy(g) = PassFacts!GateTy(g)
BY Zenon DEF Passes!GateTy, PassFacts!GateTy, Passes!parseGateTy, PassFacts!parseGateTy,
   Passes!isQuakeQuantumGate, PassFacts!isQuakeQuantumGate

\* The passes of O2.
LEMMA SameReversal == \A k : Passes!performCNOTReversal(k) = PassFacts!performCNOTReversal(k)
<1>1. \A name, ctl, tgt, par, adj :
        Passes!createQuakeGate(name, ctl, tgt, par, adj)
          = PassFacts!createQuakeGate(name, ctl, tgt, par, adj)
  <2>1. \A name : Passes!Builder(name) = PassFacts!Builder(name)
    BY Zenon DEF Passes!Builder, PassFacts!Builder
  <2>2. Passes!Rotation = PassFacts!Rotation
    BY Zenon DEF Passes!Rotation, PassFacts!Rotation
  <2> QED
    BY <2>1, <2>2 DEF Passes!createQuakeGate, PassFacts!createQuakeGate
<1>2. \A g : Passes!ReversedForm(g) = PassFacts!ReversedForm(g)
  BY <1>1, Zenon DEF Passes!ReversedForm, PassFacts!ReversedForm
<1>3. \A s : Passes!FlattenSeq(s) = PassFacts!FlattenSeq(s)
  BY Zenon DEF Passes!FlattenSeq, PassFacts!FlattenSeq
<1> TAKE k
<1> DEFINE first == [i \in DOMAIN k |-> IF Passes!GateTy(k[i]) = "CNOT"
                                         THEN <<k[i]>> \o Passes!ReversedForm(k[i]) ELSE <<k[i]>>]
           second == [i \in DOMAIN k |-> IF PassFacts!GateTy(k[i]) = "CNOT"
                                          THEN <<k[i]>> \o PassFacts!ReversedForm(k[i]) ELSE <<k[i]>>]
<1>4. first = second
  BY <1>2, SameTypes, Zenon
<1>5. Passes!performCNOTReversal(k) = Passes!FlattenSeq(first)
  BY Zenon DEF Passes!performCNOTReversal
<1>6. PassFacts!performCNOTReversal(k) = PassFacts!FlattenSeq(second)
  BY Zenon DEF PassFacts!performCNOTReversal
<1> QED
  BY <1>3, <1>4, <1>5, <1>6, Zenon

\* The pairs to commute.
LEMMA SameCandidates == \A k, info : Passes!Candidates(k, info) = PassFacts!Candidates(k, info)
<1>1. \A f, g : Passes!TouchesAny(f, g) <=> PassFacts!TouchesAny(f, g)
  BY Zenon DEF Passes!TouchesAny, PassFacts!TouchesAny, Passes!Qubits, PassFacts!Qubits,
     Passes!ToSet, PassFacts!ToSet
<1>2. \A f, g, key : Passes!SameQubits(f, g, key) <=> PassFacts!SameQubits(f, g, key)
  <2>1. \A a, b : Passes!EquivalenceCheck(a, b) <=> PassFacts!EquivalenceCheck(a, b)
    BY Zenon DEF Passes!EquivalenceCheck, PassFacts!EquivalenceCheck
  <2>2. \A q : Passes!Ids(q) = PassFacts!Ids(q)
    BY Zenon DEF Passes!Ids, PassFacts!Ids, Passes!NoId, PassFacts!NoId
  <2>3. /\ Passes!TargetTarget = PassFacts!TargetTarget
        /\ Passes!ControlTarget = PassFacts!ControlTarget
        /\ Passes!TargetControl = PassFacts!TargetControl
    BY Zenon DEF Passes!TargetTarget, PassFacts!TargetTarget, Passes!ControlTarget,
       PassFacts!ControlTarget, Passes!TargetControl, PassFacts!TargetControl
  <2>4. \A a, b, c, d, key : Passes!Agree(a, b, c, d, key) <=> PassFacts!Agree(a, b, c, d, key)
    BY <2>1, <2>3 DEF Passes!Agree, PassFacts!Agree
  <2> QED
    BY <2>2, <2>4, Zenon DEF Passes!SameQubits, PassFacts!SameQubits
<1>3. \A cs, o : Passes!IsScheduled(cs, o) <=> PassFacts!IsScheduled(cs, o)
  BY Zenon DEF Passes!IsScheduled, PassFacts!IsScheduled, Passes!ToSet, PassFacts!ToSet
<1>4. \A k, i, info : Passes!CommuteStop(k, i, info) = PassFacts!CommuteStop(k, i, info)
  <2> TAKE k, i, info
  <2> DEFINE Ends1(j) == Passes!GateTy(k[j]) \in info.second \/ Passes!TouchesAny(k[j], k[i])
             Ends2(j) == PassFacts!GateTy(k[j]) \in info.second \/ PassFacts!TouchesAny(k[j], k[i])
             rest == (i + 1) .. Len(k)
             first == {j \in rest : Ends1(j)}
             second == {j \in rest : Ends2(j)}
  <2>1. first = second
    <3>1. \A j : Ends1(j) <=> Ends2(j)
      BY <1>1, SameTypes, Zenon
    <3> HIDE DEF Ends1, Ends2, rest
    <3> QED
      BY <3>1, Zenon
  <2>2. \A S : Passes!Min(S) = PassFacts!Min(S)
    BY Zenon DEF Passes!Min, PassFacts!Min
  <2>3. Passes!CommuteStop(k, i, info) = IF first # {} THEN Passes!Min(first) ELSE 0
    BY Zenon DEF Passes!CommuteStop, Passes!SelectInSubSeq
  <2>4. PassFacts!CommuteStop(k, i, info) = IF second # {} THEN PassFacts!Min(second) ELSE 0
    BY Zenon DEF PassFacts!CommuteStop, PassFacts!SelectInSubSeq
  <2> HIDE DEF first, second
  <2> QED
    BY <2>1, <2>2, <2>3, <2>4
<1>5. \A k, i, info : Passes!IsCandidate(k, i, info) <=> PassFacts!IsCandidate(k, i, info)
  BY <1>2, <1>4, SameTypes, Zenon DEF Passes!IsCandidate, PassFacts!IsCandidate
<1> TAKE k, info
<1> DEFINE op1(cs, i) == IF Passes!IsCandidate(k, i, info) /\ ~Passes!IsScheduled(cs, i)
                         THEN Append(cs, <<i, Passes!CommuteStop(k, i, info)>>) ELSE cs
           op2(cs, i) == IF PassFacts!IsCandidate(k, i, info) /\ ~PassFacts!IsScheduled(cs, i)
                         THEN Append(cs, <<i, PassFacts!CommuteStop(k, i, info)>>) ELSE cs
           dom == [i \in DOMAIN k |-> i]
           Fold1(f) == [s \in SUBSET DOMAIN dom |->
                          IF s = {} THEN <<>> ELSE op1(f[s \ {Passes!Max(s)}], dom[Passes!Max(s)])]
           Fold2(f) == [s \in SUBSET DOMAIN dom |->
                          IF s = {} THEN <<>> ELSE op2(f[s \ {PassFacts!Max(s)}], dom[PassFacts!Max(s)])]
<1>6. \A cs, i : op1(cs, i) = op2(cs, i)
  BY <1>3, <1>4, <1>5, Zenon
<1>7. \A s : Passes!Max(s) = PassFacts!Max(s)
  BY Zenon DEF Passes!Max, PassFacts!Max
<1>8. Passes!Candidates(k, info) = (CHOOSE f : f = Fold1(f))[DOMAIN dom]
  BY Zenon DEF Passes!Candidates, Passes!FoldLeft, Passes!MapThenFoldSet
<1>9. PassFacts!Candidates(k, info) = (CHOOSE f : f = Fold2(f))[DOMAIN dom]
  BY Zenon DEF PassFacts!Candidates, PassFacts!FoldLeft, PassFacts!MapThenFoldSet
<1> HIDE DEF op1, op2, dom
<1>10. \A f : Fold1(f) = Fold2(f)
  BY <1>6, <1>7, Zenon
<1> HIDE DEF Fold1, Fold2
<1>11. (CHOOSE f : f = Fold1(f)) = (CHOOSE f : f = Fold2(f))
  BY <1>10, Zenon
<1> QED
  BY <1>8, <1>9, <1>11, Zenon

LEMMA SameCommutation ==
  \A k, info : Passes!performCommutation(k, info) = PassFacts!performCommutation(k, info)
<1>1. \A b, pairs : Passes!Commute(b, pairs) = PassFacts!Commute(b, pairs)
  BY Zenon DEF Passes!Commute, PassFacts!Commute, Passes!FoldLeft, PassFacts!FoldLeft,
     Passes!MapThenFoldSet, PassFacts!MapThenFoldSet, Passes!Max, PassFacts!Max,
     Passes!MoveAfter, PassFacts!MoveAfter, Passes!InsertAt, PassFacts!InsertAt,
     Passes!PlaceOf, PassFacts!PlaceOf, Passes!SelectInSeq, PassFacts!SelectInSeq,
     Passes!Min, PassFacts!Min, Passes!Erase, PassFacts!Erase,
     Passes!Picked, PassFacts!Picked, Passes!Nth, PassFacts!Nth,
     Passes!Cardinality, PassFacts!Cardinality, Passes!IsFiniteSet, PassFacts!IsFiniteSet
<1> QED
  BY <1>1, SameCandidates, SameEdits, Zenon DEF Passes!performCommutation, PassFacts!performCommutation

\* What stands for a CNOT: operations on its qubits, of known types.
LEMMA ReversedOps ==
  ASSUME NEW g \in Operations
  PROVE  PassFacts!ReversedForm(g) \in
           Seq({h \in Operations : Qubits(h) \subseteq Qubits(g) /\ InCircuit(h)})
<1> DEFINE S == {h \in Operations : Qubits(h) \subseteq Qubits(g) /\ InCircuit(h)}
           h1 == [op |-> "h", adj |-> FALSE, ctl |-> <<>>, tgt |-> g.tgt, par |-> <<>>]
           h2 == [op |-> "h", adj |-> FALSE, ctl |-> <<>>, tgt |-> g.ctl, par |-> <<>>]
           cx == [op |-> "x", adj |-> FALSE, ctl |-> g.tgt, tgt |-> g.ctl, par |-> <<>>]
<1>1. g.ctl \in Seq(Nat) /\ g.tgt \in Seq(Nat) /\ <<>> \in Seq(Nat) /\ <<>> \in Seq(Int)
      /\ "h" \in QuakeOps /\ "x" \in QuakeOps
  BY DEF Operations, QuakeOps
<1>2. h1 \in Operations /\ h2 \in Operations /\ cx \in Operations
  BY <1>1 DEF Operations
<1>3. Qubits(h1) \subseteq Qubits(g) /\ Qubits(h2) \subseteq Qubits(g) /\ Qubits(cx) \subseteq Qubits(g)
  BY DEF Qubits, ToSet
<1>4. InCircuit(h1) /\ InCircuit(h2) /\ InCircuit(cx)
  BY DEF InCircuit, GateTy, parseGateTy, isQuakeQuantumGate
<1>5. PassFacts!ReversedForm(g) = <<h1, h2, cx, h1, h2>>
  <2>1. /\ PassFacts!createQuakeGate("H", <<>>, g.tgt, g.par, FALSE) = h1
        /\ PassFacts!createQuakeGate("H", <<>>, g.ctl, g.par, FALSE) = h2
        /\ PassFacts!createQuakeGate("CNOT", g.tgt, g.ctl, g.par, FALSE) = cx
    BY DEF PassFacts!createQuakeGate, PassFacts!Builder, PassFacts!Rotation
  <2> HIDE DEF h1, h2, cx
  <2> QED
    BY <2>1 DEF PassFacts!ReversedForm
<1>6. h1 \in S /\ h2 \in S /\ cx \in S
  BY <1>2, <1>3, <1>4
<1> HIDE DEF S, h1, h2, cx
<1>7. <<h1, h2, cx, h1, h2>> \in Seq(S)
  BY <1>6
<1> QED
  BY <1>5, <1>7 DEF S

\* The pipeline O2 on kernels of operations of K.
LEMMA O2Stays ==
  ASSUME NEW K, NEW k \in Seq(K), NEW key, NEW info,
         \A g \in K : PassFacts!ReversedForm(g) \in Seq(K)
  PROVE  Passes!performCommutation(Passes!performCNOTReversal(Passes!performCancellation(k, key)), info)
           \in Seq(K)
<1> DEFINE cancelled == Passes!performCancellation(k, key)
           reversed == Passes!performCNOTReversal(cancelled)
<1>1. cancelled \in Seq(K)
  <2>1. PassFacts!Open(k) \in PassFacts!Edits(K, k)
    BY PassFacts!OpenEdits
  <2>2. PassFacts!Erase(PassFacts!Open(k), Passes!ToCancel(k, key)) \in PassFacts!Edits(K, k)
    BY <2>1, PassFacts!EraseEdits
  <2>3. PassFacts!Close(PassFacts!Erase(PassFacts!Open(k), Passes!ToCancel(k, key))) \in Seq(K)
    BY <2>2, PassFacts!CloseEdits
  <2> QED
    BY <2>3, SameEdits, Zenon DEF Passes!performCancellation
<1> HIDE DEF cancelled
<1>2. reversed \in Seq(K)
  BY <1>1, SameReversal, PassFacts!ReversalStays
<1> HIDE DEF reversed
<1>3. Passes!performCommutation(reversed, info) \in Seq(K)
  BY <1>2, SameCommutation, PassFacts!CommutationStays
<1> QED
  BY <1>3 DEF cancelled, reversed

\* The preset pipelines leave operations on the qubits of the kernel, and none the
\* mapper does not know where there was none.
THEOREM PipelineKept == PipelineKeeps
<1> SUFFICES ASSUME NEW c \in Calls, NEW ops \in Pipeline(c[1].level, c[2].ops)
             PROVE  /\ ops \in Seq(Operations)
                    /\ \A i \in DOMAIN ops : Qubits(ops[i]) \subseteq 0 .. c[2].alloc - 1
                    /\ (\A i \in DOMAIN c[2].ops : InCircuit(c[2].ops[i])) =>
                         \A i \in DOMAIN ops : InCircuit(ops[i])
  BY Zenon DEF PipelineKeeps
<1> DEFINE Given == {g \in Operations : Qubits(g) \subseteq 0 .. c[2].alloc - 1}
           Known == {g \in Given : InCircuit(g)}
<1>1. c[2].ops \in Seq(Given)
  BY CallsAssumption
<1>2. (\A i \in DOMAIN c[2].ops : InCircuit(c[2].ops[i])) => c[2].ops \in Seq(Known)
  BY <1>1
<1>3. \A K \in {Given, Known} : c[2].ops \in Seq(K) => ops \in Seq(K)
  <2> SUFFICES ASSUME NEW K \in {Given, Known}, c[2].ops \in Seq(K) PROVE ops \in Seq(K)
    BY Zenon
  <2>1. CASE c[1].level # "O2"
    BY <2>1 DEF Pipeline
  <2>2. CASE c[1].level = "O2"
    <3>1. PICK key \in CompareKeys :
            ops = Passes!performCommutation(
                    Passes!performCNOTReversal(Passes!performCancellation(c[2].ops, key)),
                    CommuteInfo("CX-RX"))
      BY <2>2, Zenon DEF Pipeline
    <3>2. ASSUME NEW g \in K PROVE PassFacts!ReversedForm(g) \in Seq(K)
      <4>1. {h \in Operations : Qubits(h) \subseteq Qubits(g) /\ InCircuit(h)} \subseteq K
            /\ g \in Operations
        OBVIOUS
      <4> QED
        BY <4>1, ReversedOps, PassFacts!SeqOfMore
    <3> HIDE DEF Given, Known
    <3> QED
      BY <3>1, <3>2, O2Stays
  <2> QED
    BY <2>1, <2>2
<1>4. ops \in Seq(Given)
  <2> HIDE DEF Given, Known
  <2> QED
    BY <1>1, <1>3
<1>5. (\A i \in DOMAIN c[2].ops : InCircuit(c[2].ops[i])) => ops \in Seq(Known)
  <2> HIDE DEF Given, Known
  <2> QED
    BY <1>2, <1>3
<1> QED
  BY <1>4, <1>5

-----------------------------------------------------------------------------
(***************************************************************************)
(* The mapping of the compiler is the one QubitMappingProofs is about, on  *)
(* the kernels the pipelines make.                                         *)
(***************************************************************************)
QM == INSTANCE QubitMappingProofs WITH
  Kernels <- OptimizedKernels, AddMeasurements <- {TRUE}

\* The assumption of QubitMapping on its kernels.
LEMMA MapperAssumptions ==
  \A k \in OptimizedKernels :
    /\ k.alloc \in Nat
    /\ k.ops \in Seq(Operations)
    /\ \A i \in DOMAIN k.ops : Qubits(k.ops[i]) \subseteq 0 .. k.alloc - 1
<1> SUFFICES ASSUME NEW k \in OptimizedKernels
             PROVE  /\ k.alloc \in Nat
                    /\ k.ops \in Seq(Operations)
                    /\ \A i \in DOMAIN k.ops : Qubits(k.ops[i]) \subseteq 0 .. k.alloc - 1
  OBVIOUS
<1>a. PICK c \in Calls :
        \E kops \in Pipeline(c[1].level, c[2].ops) : k = [alloc |-> c[2].alloc, ops |-> kops]
  BY Zenon DEF OptimizedKernels
<1>1. PICK kops \in Pipeline(c[1].level, c[2].ops) : k = [alloc |-> c[2].alloc, ops |-> kops]
  BY <1>a
<1>2. k.alloc = c[2].alloc /\ k.ops = kops /\ c[2].alloc \in Nat
  BY <1>1, CallsAssumption
<1>3. /\ kops \in Seq(Operations)
      /\ \A i \in DOMAIN kops : Qubits(kops[i]) \subseteq 0 .. c[2].alloc - 1
  BY <1>1, PipelineKept DEF PipelineKeeps
<1> QED
  BY <1>2, <1>3

LEMMA SameQubits == \A e \in Operations : QM!Qubits(e) = Qubits(e)
BY Zenon DEF QM!Qubits, Qubits, QM!ToSet, ToSet

LEMMA SameOps == QM!Operations = Operations
BY DEF QM!Operations, Operations, QM!QuakeOps, QuakeOps

\* Its inductive invariant.
LEMMA Mapper ==
  /\ QM!Init' => QM!IInv' /\ QM!GatesInv'
  /\ QM!IInv /\ QM!GatesInv /\ [QM!Next]_(QM!vars) => QM!IInv' /\ QM!GatesInv'
<1>1. NumQubits \in Nat
  BY DeviceAssumption
<1>2. /\ Coupling \subseteq QM!Physical \X QM!Physical
      /\ \A e \in Coupling : <<e[2], e[1]>> \in Coupling
  BY DeviceAssumption DEF QM!Physical
<1>3. \A k \in OptimizedKernels :
           /\ k.alloc \in Nat
           /\ k.ops \in Seq(QM!Operations)
           /\ k.alloc # 0 => \A i \in DOMAIN k.ops : QM!Qubits(k.ops[i]) \subseteq 0 .. k.alloc - 1
  BY MapperAssumptions, SameQubits, SameOps
<1>4. {TRUE} \subseteq BOOLEAN
  OBVIOUS
<1>5. SharedRefs \in BOOLEAN /\ MaxSwaps \in Nat
  BY MappingAssumption
<1>6. QM!Init => QM!IInv
  BY <1>1, <1>2, <1>3, <1>4, <1>5, QM!IInvInit
<1>7. QM!Init => QM!GatesInv
  BY <1>1, <1>2, <1>3, <1>4, <1>5, QM!GatesInit
<1>8. QM!IInv /\ [QM!Next]_(QM!vars) => QM!IInv'
  BY <1>1, <1>2, <1>3, <1>4, <1>5, QM!IInvStep
<1>9. QM!IInv /\ QM!GatesInv /\ [QM!Next]_(QM!vars) => QM!GatesInv'
  BY <1>1, <1>2, <1>3, <1>4, <1>5, QM!GatesStep
<1>10. QM!Init' => QM!IInv' /\ QM!GatesInv'
  BY <1>6, <1>7, PTL
<1> QED
  BY <1>8, <1>9, <1>10

\* The steps of the mapping are steps of QM.
LEMMA SameMapping == Mapping!Next => QM!Next
<1>a. Mapping!CanLoad(Mapping!ops) = QM!CanLoad(QM!ops)
  BY Zenon DEF Mapping!CanLoad, QM!CanLoad, Mapping!CanLoadMeasureOp, QM!CanLoadMeasureOp,
       Mapping!CanLoadOp, QM!CanLoadOp, Mapping!GateTy, QM!GateTy, Mapping!InCircuit,
       QM!InCircuit, Mapping!IsMeasurement, QM!IsMeasurement, Mapping!LoadableTypes,
       QM!LoadableTypes, Mapping!ParametersFit, QM!ParametersFit,
       Mapping!isQuakeQuantumGate, QM!isQuakeQuantumGate, Mapping!ops, QM!ops,
       Mapping!parseGateTy, QM!parseGateTy
<1>b. Mapping!CircuitOf(Mapping!ops) = QM!CircuitOf(QM!ops)
  <2>1. ASSUME NEW g PROVE Mapping!GateTy(g) = QM!GateTy(g)
    BY Zenon DEF Mapping!GateTy, QM!GateTy, Mapping!parseGateTy, QM!parseGateTy,
         Mapping!isQuakeQuantumGate, QM!isQuakeQuantumGate
  <2>2. ASSUME NEW g PROVE Mapping!InCircuit(g) = QM!InCircuit(g)
    BY <2>1, Zenon DEF Mapping!InCircuit, QM!InCircuit, Mapping!IsMeasurement, QM!IsMeasurement
  <2>3. ASSUME NEW g PROVE Mapping!LoadOp(g) = QM!LoadOp(g)
    BY <2>1, Zenon DEF Mapping!LoadOp, QM!LoadOp, Mapping!IsMeasurement, QM!IsMeasurement
  <2>4. ASSUME NEW S, NEW i PROVE Mapping!Nth(S, i) = QM!Nth(S, i)
    BY Zenon DEF Mapping!Nth, QM!Nth, Mapping!Cardinality, QM!Cardinality
  <2>5. ASSUME NEW S PROVE Mapping!Cardinality(S) = QM!Cardinality(S)
    BY Zenon DEF Mapping!Cardinality, QM!Cardinality
  <2> DEFINE in == {i \in DOMAIN kernel.ops : QM!InCircuit(kernel.ops[i])}
  <2>6. {i \in DOMAIN kernel.ops : Mapping!InCircuit(kernel.ops[i])} = in
    BY <2>2, Zenon
  <2>7. Mapping!CircuitOf(kernel.ops)
          = [i \in 1 .. Mapping!Cardinality(in) |-> Mapping!LoadOp(kernel.ops[Mapping!Nth(in, i)])]
    BY <2>6, Zenon DEF Mapping!CircuitOf
  <2>8. @ = [i \in 1 .. QM!Cardinality(in) |-> QM!LoadOp(kernel.ops[QM!Nth(in, i)])]
    BY <2>3, <2>4, <2>5, Zenon
  <2> QED
    BY <2>7, <2>8, Zenon DEF QM!CircuitOf, Mapping!ops, QM!ops
<1>c. Mapping!Injection(Mapping!Program, Mapping!Physical) = QM!Injection(QM!Program, QM!Physical)
  BY Zenon DEF Mapping!Injection, QM!Injection, Mapping!IsInjective, QM!IsInjective,
       Mapping!Program, QM!Program, Mapping!Physical, QM!Physical
<1>1. Mapping!Skip => QM!Skip
  BY Zenon DEF Mapping!Skip, QM!Skip, Mapping!IsSkipped, QM!IsSkipped, Mapping!mapper,
       QM!mapper, Mapping!body, QM!body
<1>2. Mapping!LoadFails => QM!LoadFails
  BY <1>a, Zenon DEF Mapping!LoadFails, QM!LoadFails, Mapping!IsSkipped, QM!IsSkipped,
       Mapping!mapper, QM!mapper, Mapping!body, QM!body
<1>3. Mapping!Load => QM!Load
  BY <1>a, <1>b, <1>c, Zenon DEF Mapping!Load, QM!Load, Mapping!IsSkipped, QM!IsSkipped, Mapping!body, QM!body
<1>4. Mapping!MapSwap => QM!MapSwap
  BY Zenon DEF Mapping!MapSwap, QM!MapSwap, Mapping!Cardinality, QM!Cardinality,
       Mapping!Program, QM!Program, Mapping!SwapOf, QM!SwapOf, Mapping!body, QM!body
<1>5. Mapping!MapGate => QM!MapGate
  BY Zenon DEF Mapping!MapGate, QM!MapGate, Mapping!Coupled, QM!Coupled, Mapping!Gates,
       QM!Gates, Mapping!IsMeasurement, QM!IsMeasurement, Mapping!Placed, QM!Placed,
       Mapping!Qubits, QM!Qubits, Mapping!Ready, QM!Ready, Mapping!ToSet, QM!ToSet,
       Mapping!body, QM!body
<1>6. Mapping!MapEnds => QM!MapEnds
  BY Zenon DEF Mapping!MapEnds, QM!MapEnds, Mapping!Cardinality, QM!Cardinality,
       Mapping!FinalMeasurements, QM!FinalMeasurements, Mapping!Gates, QM!Gates,
       Mapping!Held, QM!Held, Mapping!HeldAndMeasured, QM!HeldAndMeasured,
       Mapping!IsMeasurement, QM!IsMeasurement, Mapping!MeasuredSets, QM!MeasuredSets,
       Mapping!Mz, QM!Mz, Mapping!Nth, QM!Nth, Mapping!Program, QM!Program,
       Mapping!body, QM!body
<1>7. Mapping!MapFails => QM!MapFails
  BY Zenon DEF Mapping!MapFails, QM!MapFails, Mapping!body, QM!body, Mapping!mapper,
       QM!mapper
<1>8. Mapping!Rebuild => QM!Rebuild
  BY Zenon DEF Mapping!Rebuild, QM!Rebuild, Mapping!Builder, QM!Builder, Mapping!CanRebuild,
       QM!CanRebuild, Mapping!Created, QM!Created, Mapping!GateTy, QM!GateTy,
       Mapping!IsMeasurement, QM!IsMeasurement, Mapping!Min, QM!Min,
       Mapping!RebuildableTypes, QM!RebuildableTypes, Mapping!Rebuilt, QM!Rebuilt,
       Mapping!Rotation, QM!Rotation, Mapping!Unsupported, QM!Unsupported,
       Mapping!createQuakeGate, QM!createQuakeGate, Mapping!isQuakeQuantumGate,
       QM!isQuakeQuantumGate, Mapping!mapper, QM!mapper, Mapping!parseGateTy,
       QM!parseGateTy
<1>9. Mapping!Resolve => QM!Resolve
  BY Zenon DEF Mapping!Resolve, QM!Resolve, Mapping!IsMeasurement, QM!IsMeasurement,
       Mapping!Min, QM!Min, Mapping!NewMeasureOps0, QM!NewMeasureOps0,
       Mapping!NewMeasurements, QM!NewMeasurements, Mapping!OldMeasurements,
       QM!OldMeasurements, Mapping!mapper, QM!mapper, Mapping!ops, QM!ops
<1>10. Mapping!ResolveAborts => QM!ResolveAborts
  BY Zenon DEF Mapping!ResolveAborts, QM!ResolveAborts, Mapping!IsMeasurement,
       QM!IsMeasurement, Mapping!NewMeasurements, QM!NewMeasurements,
       Mapping!OldMeasurements, QM!OldMeasurements, Mapping!body, QM!body,
       Mapping!mapper, QM!mapper, Mapping!ops, QM!ops
<1>11. Mapping!Erase => QM!Erase
  BY Zenon DEF Mapping!Erase, QM!Erase, Mapping!BreaksReferences, QM!BreaksReferences,
       Mapping!GateTy, QM!GateTy, Mapping!Qubits, QM!Qubits, Mapping!ToErase,
       QM!ToErase, Mapping!ToSet, QM!ToSet, Mapping!isQuakeQuantumGate,
       QM!isQuakeQuantumGate, Mapping!mapper, QM!mapper, Mapping!ops, QM!ops,
       Mapping!parseGateTy, QM!parseGateTy
<1>12. Mapping!EraseAborts => QM!EraseAborts
  BY Zenon DEF Mapping!EraseAborts, QM!EraseAborts, Mapping!BreaksReferences,
       QM!BreaksReferences, Mapping!GateTy, QM!GateTy, Mapping!Qubits, QM!Qubits,
       Mapping!ToErase, QM!ToErase, Mapping!ToSet, QM!ToSet, Mapping!body, QM!body,
       Mapping!isQuakeQuantumGate, QM!isQuakeQuantumGate, Mapping!mapper, QM!mapper,
       Mapping!ops, QM!ops, Mapping!parseGateTy, QM!parseGateTy
<1> QED
  BY <1>1, <1>2, <1>3, <1>4, <1>5, <1>6, <1>7, <1>8, <1>9, <1>10, <1>11, <1>12 DEF Mapping!Next, QM!Next

\* What the mapping creates for a kernel is for the device.
LEMMA SimpleIsForDevice ==
  ASSUME RepositoryRules, NEW g \in QM!SimpleOps, QM!Coupled(g)
  PROVE  g \in DeviceOps
<1>1. g \in Operations /\ QM!IsSimple(g)
  BY SameOps, Zenon DEF QM!SimpleOps
<1>2. Mapping!Coupled(g)
  BY Zenon DEF QM!Coupled, Mapping!Coupled, QM!Qubits, Mapping!Qubits, QM!ToSet, Mapping!ToSet
<1>3. ASSUME ~IsMeasurement(g)
      PROVE  \E s \in Shapes : HasShape(g, s) /\ s.mn \notin LosesControl \cup {NoMnemonic}
  <2>1. /\ g.op \in {"rx", "ry", "rz", "h", "x", "y", "z", "s", "t", "swap", "phased_rx"}
        /\ g.adj \in BOOLEAN /\ (g.adj => g.op \in {"s", "t"})
        /\ Len(g.ctl) = 0 \/ (Len(g.ctl) = 1 /\ g.op \in {"x", "z"})
        /\ Len(g.tgt) = IF g.op = "swap" THEN 2 ELSE 1
        /\ Len(g.par) = IF g.op \in {"rx", "ry", "rz"} THEN 1
                        ELSE IF g.op = "phased_rx" THEN 2 ELSE 0
    BY <1>1, <1>3 DEF QM!IsSimple, QM!Rotations, IsMeasurement, Operations
  <2> DEFINE Fits(mn, flags, nctl, ntgt, npar) ==
               /\ Shape(mn, g.op, flags, nctl, ntgt, npar) \in Shapes
               /\ g.adj \in flags /\ Len(g.ctl) = nctl /\ Len(g.tgt) = ntgt /\ Len(g.par) \in npar
               /\ mn \notin LosesControl \cup {NoMnemonic}
  <2>2. \/ Fits("rx", Plain, 0, 1, 1..1) \/ Fits("ry", Plain, 0, 1, 1..1)
        \/ Fits("rz", Plain, 0, 1, 1..1) \/ Fits("h", Either, 0, 1, 0..3)
        \/ Fits("x", Either, 0, 1, 0..3) \/ Fits("cx", Either, 1, 1, 0..3)
        \/ Fits("y", Plain, 0, 1, 0..3)
        \/ Fits("z", Either, 0, 1, 0..3) \/ Fits("cz", Either, 1, 1, 0..3)
        \/ Fits("s", Plain, 0, 1, 0..3) \/ Fits("sdg", Adjoint, 0, 1, 0..3)
        \/ Fits("t", Plain, 0, 1, 0..3) \/ Fits("tdg", Adjoint, 0, 1, 0..3)
        \/ Fits("swap", Either, 0, 2, 0..3) \/ Fits("prx", Plain, 0, 1, 2..2)
    <3>1. /\ Shape("rx", "rx", Plain, 0, 1, 1..1) \in Shapes
          /\ Shape("ry", "ry", Plain, 0, 1, 1..1) \in Shapes
          /\ Shape("rz", "rz", Plain, 0, 1, 1..1) \in Shapes
          /\ Shape("h", "h", Either, 0, 1, 0..3) \in Shapes
          /\ Shape("x", "x", Either, 0, 1, 0..3) \in Shapes
          /\ Shape("cx", "x", Either, 1, 1, 0..3) \in Shapes
          /\ Shape("y", "y", Plain, 0, 1, 0..3) \in Shapes
          /\ Shape("z", "z", Either, 0, 1, 0..3) \in Shapes
          /\ Shape("cz", "z", Either, 1, 1, 0..3) \in Shapes
          /\ Shape("s", "s", Plain, 0, 1, 0..3) \in Shapes
          /\ Shape("sdg", "s", Adjoint, 0, 1, 0..3) \in Shapes
          /\ Shape("t", "t", Plain, 0, 1, 0..3) \in Shapes
          /\ Shape("tdg", "t", Adjoint, 0, 1, 0..3) \in Shapes
          /\ Shape("swap", "swap", Either, 0, 2, 0..3) \in Shapes
          /\ Shape("prx", "phased_rx", Plain, 0, 1, 2..2) \in Shapes
      BY Zenon DEF Shapes
    <3>2. /\ Either = BOOLEAN
          /\ g.adj => g.adj \in Adjoint
          /\ ~g.adj => g.adj \in Plain
      BY <2>1 DEF Either, Plain, Adjoint
    <3>3. \A mn \in {"rx", "ry", "rz", "h", "x", "cx", "y", "z", "cz", "s", "sdg", "t", "tdg",
                     "swap", "prx"} : mn \notin LosesControl \cup {NoMnemonic}
      BY DEF LosesControl, NoMnemonic
    <3> HIDE DEF Fits
    <3>4. CASE g.op \in {"rx", "ry", "rz"}
      BY <2>1, <3>1, <3>2, <3>3, <3>4 DEF Fits
    <3>5. CASE g.op \in {"x", "z"} /\ Len(g.ctl) = 1
      BY <2>1, <3>1, <3>2, <3>3, <3>5 DEF Fits
    <3>6. CASE g.op \in {"h", "x", "y", "z"} /\ Len(g.ctl) = 0
      BY <2>1, <3>1, <3>2, <3>3, <3>6 DEF Fits
    <3>7. CASE g.op \in {"s", "t"}
      BY <2>1, <3>1, <3>2, <3>3, <3>7 DEF Fits
    <3>8. CASE g.op \in {"swap", "phased_rx"}
      BY <2>1, <3>1, <3>2, <3>3, <3>8 DEF Fits
    <3> QED
      BY <2>1, <3>4, <3>5, <3>6, <3>7, <3>8
  <2>3. ASSUME NEW mn, NEW flags, NEW nctl, NEW ntgt, NEW npar, Fits(mn, flags, nctl, ntgt, npar)
        PROVE  \E s \in Shapes : HasShape(g, s) /\ s.mn \notin LosesControl \cup {NoMnemonic}
    <3> DEFINE s == Shape(mn, g.op, flags, nctl, ntgt, npar)
    <3>1. s.mn = mn /\ HasShape(g, s) /\ s \in Shapes
      BY <2>3 DEF Shape, HasShape
    <3> QED
      BY <3>1, <2>3
  <2> HIDE DEF Fits
  <2> QED
    BY <2>2, <2>3
<1>4. ASSUME ~IsMeasurement(g) PROVE ClassifyOp(g) \notin LosesControl \cup {NoMnemonic}
  <2>1. PICK s \in Shapes : HasShape(g, s) /\ s.mn \notin LosesControl \cup {NoMnemonic}
    BY <1>3, <1>4
  <2>2. ClassifyOp(g) = s.mn \/ ClassifyOp(g) = "sx"
    BY <2>1, ClassifyByShape
  <2>3. "sx" \notin LosesControl \cup {NoMnemonic}
    BY DEF LosesControl, NoMnemonic
  <2> QED
    BY <2>1, <2>2, <2>3
<1> QED
  BY <1>1, <1>2, <1>4 DEF DeviceOps, CoupledOperations, RepositoryRules


\* If all of the kernel was loaded, what the mapping leaves is for the device.
LEMMA MappedForDevice ==
  ASSUME RepositoryRules, stage = "map", AllLoaded,
         \E c \in Calls : request = c[1] /\ source = c[2],
         kernel.ops \in Pipeline(request.level, source.ops), QM!IInv, QM!GatesInv
  PROVE  MappedOps \in Seq(DeviceOps)
<1>1. \A i \in DOMAIN kernel.ops : InCircuit(kernel.ops[i])
  <2>1. PICK c \in Calls : request = c[1] /\ source = c[2]
    OBVIOUS
  <2>2. /\ kernel.ops \in Pipeline(c[1].level, c[2].ops)
        /\ \A i \in DOMAIN c[2].ops : InCircuit(c[2].ops[i])
    BY <2>1 DEF AllLoaded
  <2> QED
    BY <2>2, PipelineKept DEF PipelineKeeps
<1>2. old = {}
  <2>1. /\ old \subseteq DOMAIN kernel.ops
        /\ \A i \in old : ~QM!IsMeasurement(kernel.ops[i])
        /\ \A i \in old : QM!GateTy(kernel.ops[i]) = "UNKNOWN"
    BY DEF QM!IInv, QM!TypeOK, QM!BodyInv, QM!ops, AllLoaded
  <2>2. \A g : ~QM!IsMeasurement(g) /\ QM!GateTy(g) = "UNKNOWN" => ~InCircuit(g)
    BY Zenon DEF InCircuit, IsMeasurement, QM!IsMeasurement, GateTy, QM!GateTy, parseGateTy,
       QM!parseGateTy, isQuakeQuantumGate, QM!isQuakeQuantumGate
  <2> QED
    BY <1>1, <2>1, <2>2
<1>3. new \in Seq(DeviceOps)
  <2>1. new \in Seq(QM!SimpleOps) /\ \A i \in DOMAIN new : QM!Coupled(new[i])
    BY DEF AllLoaded, QM!GatesInv, QM!IInv, QM!BodyInv
  <2>2. \A i \in DOMAIN new : new[i] \in DeviceOps
    BY <2>1, SimpleIsForDevice
  <2> QED
    BY <2>1, <2>2
<1>4. MappedOps = new
  <2>1. Cardinality(old) = 0
    BY <1>2, FS_EmptySet
  <2>2. MappedOps = new \o [i \in 1 .. 0 |-> kernel.ops[Nth(old, i)]]
    BY <2>1 DEF MappedOps
  <2> HIDE DEF MappedOps
  <2> QED
    BY <1>3, <2>2
<1> QED
  BY <1>3, <1>4

\* The steps of the conversion are steps of Basis.
LEMMA SameConversion ==
  Conversion!Sweep \/ Conversion!Walk => Basis!Next
<1>1. Conversion!SkipEntry => Basis!SkipEntry
  BY Zenon DEF Conversion!SkipEntry, Basis!SkipEntry, Conversion!Resolved, Basis!Resolved,
       Conversion!ResolvableRules, Basis!ResolvableRules, Conversion!inputVars,
       Basis!inputVars, Conversion!walkVars, Basis!walkVars, Conversion!IsNative,
       Basis!IsNative, Conversion!Entries, Basis!Entries
<1>2. Conversion!TakeWitness => Basis!TakeWitness
  BY Zenon DEF Conversion!TakeWitness, Basis!TakeWitness, Conversion!Resolved,
       Basis!Resolved, Conversion!ResolvableRules, Basis!ResolvableRules,
       Conversion!IsFirstResolvable, Basis!IsFirstResolvable,
       Conversion!inputVars, Basis!inputVars, Conversion!walkVars, Basis!walkVars,
       Conversion!IsNative, Basis!IsNative, Conversion!Entries, Basis!Entries
<1>3. Conversion!NextSweep => Basis!NextSweep
  BY Zenon DEF Conversion!NextSweep, Basis!NextSweep, Conversion!inputVars,
       Basis!inputVars, Conversion!walkVars, Basis!walkVars
<1>4. Conversion!WitnessesDone => Basis!WitnessesDone
  BY Zenon DEF Conversion!WitnessesDone, Basis!WitnessesDone, Conversion!inputVars,
       Basis!inputVars, Conversion!sweepVars, Basis!sweepVars,
       Conversion!walkVars, Basis!walkVars
<1>5. Conversion!KeepOp => Basis!KeepOp
  BY Zenon DEF Conversion!KeepOp, Basis!KeepOp, Conversion!IsNative, Basis!IsNative,
       Conversion!This, Basis!This, Conversion!inputVars, Basis!inputVars,
       Conversion!sweepVars, Basis!sweepVars
<1>6. Conversion!RejectOp => Basis!RejectOp
  BY Zenon DEF Conversion!RejectOp, Basis!RejectOp, Conversion!Resolved, Basis!Resolved,
       Conversion!This, Basis!This, Conversion!inputVars, Basis!inputVars,
       Conversion!sweepVars, Basis!sweepVars, Conversion!IsNative, Basis!IsNative,
       Conversion!Entries, Basis!Entries
<1>7. Conversion!RewriteOp => Basis!RewriteOp
  BY Zenon DEF Conversion!RewriteOp, Basis!RewriteOp, Conversion!IsNative, Basis!IsNative,
       Conversion!Entries, Basis!Entries, Conversion!This, Basis!This,
       Conversion!inputVars, Basis!inputVars, Conversion!sweepVars,
       Basis!sweepVars
<1>8. Conversion!FixedPoint => Basis!FixedPoint
  BY Zenon DEF Conversion!FixedPoint, Basis!FixedPoint, Conversion!inputVars,
       Basis!inputVars, Conversion!sweepVars, Basis!sweepVars,
       Conversion!walkVars, Basis!walkVars
<1>9. Conversion!NextRound => Basis!NextRound
  BY Zenon DEF Conversion!NextRound, Basis!NextRound, Conversion!inputVars,
       Basis!inputVars, Conversion!sweepVars, Basis!sweepVars
<1>10. Conversion!GiveUp => Basis!GiveUp
  BY Zenon DEF Conversion!GiveUp, Basis!GiveUp, Conversion!inputVars, Basis!inputVars,
       Conversion!sweepVars, Basis!sweepVars
<1> QED
  BY <1>1, <1>2, <1>3, <1>4, <1>5, <1>6, <1>7, <1>8, <1>9, <1>10
     DEF Conversion!Sweep, Conversion!Walk, Basis!Next, Basis!Sweep, Basis!Walk

\* The conversion of operations for the device, with the repository's rules.
LEMMA ConversionOnDevice ==
  ASSUME RepositoryRules, MaxRounds > Cardinality(DOMAIN Table)
  PROVE  /\ Basis!Init' => Basis!TableInv'
         /\ Basis!TableInv /\ (Conversion!Sweep \/ Conversion!Walk) => Basis!TableInv'
         /\ Basis!TableInv /\ UNCHANGED Basis!vars => Basis!TableInv'
         /\ Basis!TableInv => Basis!TypeOK /\ Basis!SuccessIsNative /\ ~gaveUp
<1>1. MaxRounds > Basis!Cardinality(Basis!Entries)
  BY SameCardinality DEF Basis!Entries
<1>2. Orders \subseteq {o \in Seq(Basis!Entries) : \A m \in Basis!Entries : \E i \in 1..Len(o) : o[i] = m}
  BY ConversionAssumption DEF Basis!Entries
<1>3. \A k \in Seq(DeviceOps) : k \in Seq(DeviceOps)
  OBVIOUS
<1>4. \A m \in Basis!Entries : \A r \in 1..Len(Table[m]) : \A g \in DeviceOps :
        Classify(g) = m => Emit(Table[m][r], g) \in Seq(DeviceOps)
  BY DeviceEmits DEF Basis!Entries
<1>5. /\ None \notin Basis!Entries
      /\ \A m \in Basis!Entries : Len(Table[m]) \in Nat /\ DOMAIN Table[m] = 1..Len(Table[m])
  <2>1. None \notin DOMAIN Table
    BY DEF RepositoryRules, DecompositionTable, NoMnemonic
  <2> QED
    BY <2>1, ConversionAssumption DEF Basis!Entries
<1>6. Basis!IsFiniteSet(Basis!Entries)
  BY SameFinite, ConversionAssumption DEF Basis!Entries
<1>7. MaxRounds \in Nat \ {0}
  BY ConversionAssumption
<1>8. Basis!RepositoryTable
  BY SameTables
<1>9. Basis!NoCrz
  <2>1. "crz" # NoMnemonic /\ "crz" \in LosesControl
    BY DEF NoMnemonic, LosesControl
  <2>2. \A g \in DeviceOps : g \in Operations /\ (IsMeasurement(g) \/ Classify(g) \notin LosesControl)
    BY DEF DeviceOps, CoupledOperations
  <2>3. \A g \in DeviceOps : Classify(g) # "crz"
    BY <2>1, <2>2, MeasurementsAreUnclassified DEF RepositoryRules
  <2> QED
    BY <2>3 DEF Basis!NoCrz
<1>10. Basis!Init => Basis!TableInv
  BY <1>2, <1>3, <1>4, <1>5, <1>6, <1>7, Basis!TableInvInit
<1>11. Basis!TableInv /\ [Basis!Next]_(Basis!vars) => Basis!TableInv'
  BY <1>1, <1>2, <1>3, <1>4, <1>5, <1>6, <1>7, <1>8, <1>9, Basis!TableInvStep
<1>12. Basis!TableInv => Basis!TypeOK /\ Basis!SuccessIsNative /\ ~gaveUp
  BY <1>2, <1>3, <1>4, <1>5, <1>6, <1>7, Basis!TableInvGives
<1>13. Basis!Init' => Basis!TableInv'
  BY <1>10, PTL
<1> QED
  BY <1>11, <1>12, <1>13, SameConversion


-----------------------------------------------------------------------------
(***************************************************************************)
(* The invariant of a call.                                                *)
(***************************************************************************)

\* The mapping and the conversion before they begin.
FreshMapping ==
  /\ phase = "load"
  /\ circuit = <<>> /\ emitted = {} /\ mapped = <<>>
  /\ layout = <<>> /\ start = <<>>
  /\ new = <<>> /\ reads = <<>>

FreshConversion ==
  /\ order \in Orders
  /\ pc = "sweep" /\ pos = 1
  /\ witness = [m \in DOMAIN Table |-> 0] /\ rank = [m \in DOMAIN Table |-> 0]
  /\ assigned = 0 /\ changed = FALSE /\ round = 0 /\ visited = <<>>
  /\ failed = FALSE /\ gaveUp = FALSE

\* Each pass works on what the one before it has left: the invariants of the mapping
\* and, where all of the kernel was loaded, those of the conversion.
DeviceInv ==
  /\ \E c \in Calls : request = c[1] /\ source = c[2]
  /\ stage = "optimize" => kernel = source /\ FreshMapping
  /\ stage = "map" =>
       kernel.ops \in Pipeline(request.level, source.ops) /\ QM!IInv /\ QM!GatesInv
  /\ stage \in {"optimize", "map"} => FreshConversion
  /\ Converting /\ AllLoaded => Basis!TableInv
  /\ stage \in {"lower", "returned"} => pc = "done" /\ ~failed

LEMMA DeviceInit == Init => DeviceInv
<1> SUFFICES ASSUME Init PROVE DeviceInv
  OBVIOUS
<1>1. stage = "optimize" /\ \E c \in Calls : request = c[1] /\ source = c[2]
  BY DEF Init
<1>2. kernel = source /\ FreshMapping
  BY DEF Init, FreshMapping
<1>3. FreshConversion
  BY DEF Init, FreshConversion
<1> QED
  BY <1>1, <1>2, <1>3 DEF DeviceInv, Converting

\* The mapping begins with what the pipeline makes of the kernel.
LEMMA DeviceOptimize ==
  ASSUME DeviceInv, Optimize
  PROVE  DeviceInv'
<1>1. PICK c \in Calls : request = c[1] /\ source = c[2]
  BY DEF DeviceInv
<1>2. PICK kops \in Pipeline(request.level, kernel.ops) :
        kernel' = [kernel EXCEPT !.ops = kops] /\ old' = DOMAIN kops
  BY DEF Optimize
<1>3. /\ stage = "optimize" /\ stage' = "map" /\ kernel = source
      /\ UNCHANGED <<call, conversion, phase, circuit, emitted, layout, start, mapped, new, reads>>
  BY DEF Optimize, DeviceInv
<1>4. kernel' = [alloc |-> c[2].alloc, ops |-> kops] /\ kernel'.ops = kops
  <2>1. c[2] \in [alloc : Nat \ {0}, ops : Seq(Operations)]
    BY CallsAssumption
  <2> QED
    BY <1>1, <1>2, <1>3, <2>1
<1>5. kernel' \in OptimizedKernels
  <2>1. kops \in Pipeline(c[1].level, c[2].ops)
    BY <1>1, <1>2, <1>3
  <2> QED
    BY <1>4, <2>1 DEF OptimizedKernels
<1>6. QM!Init'
  BY <1>2, <1>3, <1>4, <1>5 DEF QM!Init, QM!ops, DeviceInv, FreshMapping
<1>7. QM!IInv' /\ QM!GatesInv'
  BY <1>6, Mapper
<1>8. FreshConversion'
  BY <1>3 DEF DeviceInv, FreshConversion, conversion
<1>9. request' = request /\ source' = source
  BY <1>3 DEF call
<1>10. kernel'.ops \in Pipeline(request.level, source.ops)
  BY <1>2, <1>3, <1>4
<1>12. Pipeline(request.level, source.ops)' = Pipeline(request.level, source.ops)
  BY <1>9
<1> QED
  BY <1>1, <1>3, <1>7, <1>8, <1>9, <1>10, <1>12 DEF DeviceInv, Converting


\* The mapping keeps its own invariant.
LEMMA DeviceMapping ==
  ASSUME DeviceInv, RunMapping
  PROVE  DeviceInv'
<1>1. /\ stage = "map" /\ stage' = "map" /\ Mapping!Next
      /\ UNCHANGED <<call, conversion>>
  BY DEF RunMapping
<1>2. UNCHANGED kernel
  BY <1>1 DEF Mapping!Next, Mapping!Skip, Mapping!LoadFails, Mapping!Load, Mapping!MapSwap,
     Mapping!MapGate, Mapping!MapEnds, Mapping!MapFails, Mapping!Rebuild, Mapping!Resolve,
     Mapping!ResolveAborts, Mapping!Erase, Mapping!EraseAborts
<1>3. QM!Next /\ QM!IInv /\ QM!GatesInv
  BY <1>1, SameMapping DEF DeviceInv
<1>4. QM!IInv' /\ QM!GatesInv'
  BY <1>3, Mapper
<1>5. UNCHANGED <<request, source>> /\ FreshConversion'
  BY <1>1 DEF call, DeviceInv, FreshConversion, conversion
<1>6. Pipeline(request.level, source.ops)' = Pipeline(request.level, source.ops)
  BY <1>5
<1> QED
  BY <1>1, <1>2, <1>4, <1>5, <1>6 DEF DeviceInv, Converting

\* The conversion begins with what the mapping has left.
LEMMA DeviceBegins ==
  ASSUME RepositoryRules, MaxRounds > Cardinality(DOMAIN Table),
         DeviceInv, BeginConversion
  PROVE  DeviceInv'
<1>1. /\ stage = "map" /\ stage' = "convert"
      /\ UNCHANGED <<request, source, phase, order, pc, pos, witness, rank, assigned, changed,
                     round, visited, failed, gaveUp>>
  BY DEF BeginConversion, IsMapped, call, mapping
<1>2. ASSUME AllLoaded' PROVE Basis!TableInv'
  <2>1. AllLoaded
    BY <1>1, <1>2 DEF AllLoaded
  <2>2. MappedOps \in Seq(DeviceOps)
    BY <1>1, <2>1, MappedForDevice DEF DeviceInv
  <2>3. input' = MappedOps /\ pending' = MappedOps
    BY DEF BeginConversion
  <2>4. native' \in Requested
    <3>1. PICK c \in Calls : request = c[1]
      BY DEF DeviceInv
    <3>2. native' = {resolveMnemonicAlias(g) : g \in ToSet(c[1].native)}
      BY <3>1 DEF BeginConversion
    <3> QED
      BY <3>2, Zenon DEF Requested
  <2>5. FreshConversion
    BY <1>1 DEF DeviceInv
  <2>6. Basis!Init'
    BY <1>1, <2>2, <2>3, <2>4, <2>5 DEF FreshConversion, Basis!Init, Basis!Entries
  <2> QED
    BY <2>6, ConversionOnDevice
<1>3. \E c \in Calls : request' = c[1] /\ source' = c[2]
  BY <1>1 DEF DeviceInv
<1> QED
  BY <1>1, <1>2, <1>3 DEF DeviceInv, Converting

\* The conversion keeps its own invariant.
LEMMA DeviceConverts ==
  ASSUME RepositoryRules, MaxRounds > Cardinality(DOMAIN Table), DeviceInv, RunConversion
  PROVE  DeviceInv'
<1>1. /\ stage = "convert" /\ stage' = "convert" /\ (Conversion!Sweep \/ Conversion!Walk)
      /\ UNCHANGED <<request, source, phase>>
  BY DEF RunConversion, call, mapping
<1>2. ASSUME AllLoaded' PROVE Basis!TableInv'
  <2>1. AllLoaded
    BY <1>1, <1>2 DEF AllLoaded
  <2> QED
    BY <1>1, <2>1, ConversionOnDevice DEF DeviceInv, Converting
<1>3. \E c \in Calls : request' = c[1] /\ source' = c[2]
  BY <1>1 DEF DeviceInv
<1> QED
  BY <1>1, <1>2, <1>3 DEF DeviceInv, Converting

\* A stage that changes neither the kernel nor the conversion.
LEMMA DeviceKept ==
  ASSUME RepositoryRules, MaxRounds > Cardinality(DOMAIN Table), DeviceInv,
          UNCHANGED <<call, mapping, conversion>>,
         \/ stage' = stage
         \/ stage' \in {"nullopt", "aborted"}
         \/ stage = "convert" /\ stage' \in {"lower", "nullopt"} /\ pc = "done" /\ ~failed
         \/ stage = "lower" /\ stage' = "returned"
  PROVE  DeviceInv'
<1>1. UNCHANGED <<request, source, kernel, phase>>
  BY DEF call, mapping
<1>2. UNCHANGED <<order, pc, pos, witness, rank, assigned, changed, round, visited, failed, gaveUp>>
  BY DEF conversion
<1>3. FreshConversion => FreshConversion'
  BY <1>2 DEF FreshConversion
<1>4. FreshMapping => FreshMapping'
  BY DEF FreshMapping, mapping
<1>5. QM!IInv /\ QM!GatesInv => QM!IInv' /\ QM!GatesInv'
  BY DEF mapping, QM!IInv, QM!GatesInv, QM!TypeOK, QM!MapperInv, QM!BodyInv, QM!CoupledSeq,
     QM!BeforeMapping, QM!Mapping, QM!Gates, QM!Program, QM!ops, QM!NewMeasurements
<1>6. AllLoaded' => AllLoaded
  BY <1>1 DEF AllLoaded
<1>7. Basis!TableInv => Basis!TableInv'
  <2>1. UNCHANGED Basis!vars
    BY DEF conversion, Basis!vars
  <2> QED
    BY <2>1, ConversionOnDevice
<1>8. Pipeline(request.level, source.ops)' = Pipeline(request.level, source.ops)
  BY <1>1
<1>9. \E c \in Calls : request' = c[1] /\ source' = c[2]
  BY <1>1 DEF DeviceInv
<1>10. FreshConversion => visited = <<>>
  BY DEF FreshConversion
<1> QED
  BY <1>1, <1>2, <1>3, <1>4, <1>5, <1>6, <1>7, <1>8, <1>9 DEF DeviceInv, Converting


LEMMA DeviceStep ==
  ASSUME RepositoryRules, MaxRounds > Cardinality(DOMAIN Table)
  PROVE  DeviceInv /\ [Next]_vars => DeviceInv'
<1> SUFFICES ASSUME DeviceInv, [Next]_vars PROVE DeviceInv'
  OBVIOUS
<1>1. CASE Optimize
  BY <1>1, DeviceOptimize
<1>2. CASE RunMapping
  BY <1>2, DeviceMapping
<1>3. CASE BeginConversion
  BY <1>3, DeviceBegins
<1>4. CASE RunConversion
  BY <1>4, DeviceConverts
<1>5. CASE MappingFails \/ MappingAborts \/ NoNativeGates \/ SnapshotAborts
           \/ ConversionFails \/ VerifyAborts \/ LoweringFails
  <2>1. stage' \in {"nullopt", "aborted"} /\ UNCHANGED <<call, mapping, conversion>>
    BY <1>5 DEF MappingFails, MappingAborts, NoNativeGates, SnapshotAborts,
                ConversionFails, VerifyAborts, LoweringFails, Refuse, Abort
  <2> QED
    BY <2>1, DeviceKept
<1>6. CASE Verify
  <2>1. /\ stage = "convert" /\ stage' \in {"lower", "nullopt"} /\ pc = "done" /\ ~failed
        /\ UNCHANGED <<call, mapping, conversion>>
    BY <1>6 DEF Verify, IsConverted
  <2> QED
    BY <2>1, DeviceKept
<1>7. CASE Lower
  <2>1. stage = "lower" /\ stage' = "returned" /\ UNCHANGED <<call, mapping, conversion>>
    BY <1>7 DEF Lower
  <2> QED
    BY <2>1, DeviceKept
<1>8. CASE Ended \/ UNCHANGED vars
  <2>1. stage' = stage /\ UNCHANGED <<call, mapping, conversion>>
    BY <1>8 DEF Ended, vars
  <2> QED
    BY <2>1, DeviceKept
<1> QED
  BY <1>1, <1>2, <1>3, <1>4, <1>5, <1>6, <1>7, <1>8 DEF Next

\* With the repository's rules, whatever the mapper chooses and in whatever order the
\* witnesses are found, a call that returns has made a kernel the device can run, if
\* the mapper was given all of it: native gates on coupled qubits, and measurements.
THEOREM RunsOnTheDevice ==
  ASSUME RepositoryRules, MaxRounds > Cardinality(DOMAIN Table)
  PROVE  Spec => []CompiledRunsOnTheDevice
<1>1. DeviceInv => CompiledRunsOnTheDevice
  <2> SUFFICES ASSUME DeviceInv, stage = "returned", AllLoaded, NEW i \in DOMAIN visited
               PROVE  \/ IsMeasurement(visited[i])
                      \/ Conversion!IsNative(native, Classify(visited[i])) /\ Mapping!Coupled(visited[i])
    BY DEF CompiledRunsOnTheDevice
  <2>1. Basis!TypeOK /\ Basis!SuccessIsNative /\ ~gaveUp /\ pc = "done" /\ ~failed
    BY ConversionOnDevice DEF DeviceInv, Converting
  <2>2. input \in Seq(DeviceOps) /\ visited \in Seq(DeviceOps)
    BY <2>1 DEF Basis!TypeOK
  <2>3. CASE Classify(visited[i]) = None
    <3>1. visited[i] \in DeviceOps
      BY <2>2
    <3> QED
      BY <2>3, <3>1 DEF DeviceOps
  <2>4. CASE Classify(visited[i]) # None
    <3>1. i \in 1..Len(visited) /\ visited[i] \in DeviceOps
      BY <2>2
    <3>2. Basis!IsNative(native, Classify(visited[i]))
      BY <2>1, <2>4, <3>1 DEF Basis!SuccessIsNative
    <3>3. Conversion!IsNative(native, Classify(visited[i]))
      BY <3>2 DEF Basis!IsNative, Conversion!IsNative
    <3>4. Mapping!Coupled(visited[i])
      BY <3>1, Zenon DEF DeviceOps, CoupledOperations
    <3> QED
      BY <3>3, <3>4
  <2> QED
    BY <2>3, <2>4
<1>2. DeviceInv /\ [Next]_vars => DeviceInv'
  BY DeviceStep
<1> QED
  BY <1>1, <1>2, DeviceInit, PTL DEF Spec

-----------------------------------------------------------------------------
\* The caller's spelling of the gate, and the name the exporter prints.
Alias == <<"r", "phased_rx">>
Printed == [name |-> "phased_rx", ctl |-> 0]

\* The aliases are the caller's spellings of prx, as often as they are listed.
LEMMA AliasesOfCaller ==
  ASSUME request.native \in Seq(STRING), request.backend = "LRZ", "r" \in ToSet(request.native)
  PROVE  appliedAliases \in Seq({Alias}) /\ Len(appliedAliases) # 0
<1> DEFINE gates == request.native
           S == {i \in DOMAIN gates : resolveMnemonicAlias(gates[i]) # gates[i]}
           aliased == Picked(gates, S)
<1>1. Len(gates) \in Nat /\ DOMAIN gates = 1 .. Len(gates) /\ S \in SUBSET (1 .. Len(gates))
  OBVIOUS
<1>2. \A i \in S : gates[i] = "r"
  BY DEF resolveMnemonicAlias
<1>3. PICK x \in S : TRUE
  <2>1. PICK x \in DOMAIN gates : gates[x] = "r"
    BY DEF ToSet
  <2> QED
    BY <2>1 DEF resolveMnemonicAlias
<1> HIDE DEF S
<1>4. /\ Cardinality(S) \in Nat /\ aliased \in Seq(STRING) /\ Len(aliased) = Cardinality(S)
      /\ \A i \in 1 .. Cardinality(S) : Nth(S, i) \in S /\ aliased[i] = gates[Nth(S, i)]
      /\ \A y \in S : \E i \in 1 .. Cardinality(S) : Nth(S, i) = y
  BY <1>1, PickedFacts
<1> HIDE DEF gates, aliased
<1>5. Cardinality(S) # 0
  <2>1. PICK i \in 1 .. Cardinality(S) : Nth(S, i) = x
    BY <1>3, <1>4
  <2> QED
    BY <1>4, <2>1
<1>6. \A i \in 1 .. Cardinality(S) : aliased[i] = "r"
  BY <1>2, <1>4
<1>7. DOMAIN aliased = 1 .. Cardinality(S)
  BY <1>4
<1>8. appliedAliases =
        [i \in DOMAIN aliased |->
           <<aliased[i], mnemonicToQasmGateName(resolveMnemonicAlias(aliased[i]))>>]
  BY Zenon DEF appliedAliases, aliased, S, gates
<1>9. appliedAliases = [i \in 1 .. Cardinality(S) |-> Alias]
  <2>1. mnemonicToQasmGateName(resolveMnemonicAlias("r")) = "phased_rx"
    BY DEF mnemonicToQasmGateName, resolveMnemonicAlias
  <2> QED
    BY <1>6, <1>7, <1>8, <2>1 DEF Alias
<1> QED
  BY <1>4, <1>5, <1>9

\* Each alias is written over the printed name: after the first none is left.
LEMMA NoneIsLeft ==
  ASSUME NEW D, NEW W, NEW calls \in [D -> W], NEW aliases \in Seq({Alias}), Len(aliases) # 0
  PROVE  /\ DOMAIN restoreCallerGateNames(calls, aliases) = D
         /\ \A i \in D : restoreCallerGateNames(calls, aliases)[i] # Printed
<1> DEFINE n == Len(aliases)
           V == [D -> W \cup {[name |-> "r", ctl |-> 0]}]
           op(text, a) == [i \in DOMAIN text |->
                             IF text[i] = [name |-> a[2], ctl |-> 0] THEN [text[i] EXCEPT !.name = a[1]]
                             ELSE text[i]]
           step == [x \in (1 .. n) \X V |-> op(x[2], aliases[x[1]])]
           Eq(f) == f = [s \in SUBSET DOMAIN aliases |->
                           IF s = {} THEN calls ELSE op(f[s \ {Max(s)}], aliases[Max(s)])]
           F == CHOOSE f : Eq(f)
<1>1. /\ n \in Nat /\ n # 0 /\ DOMAIN aliases = 1 .. n /\ \A i \in 1 .. n : aliases[i] = Alias
      /\ calls \in V
  OBVIOUS
<1>2. ASSUME NEW e \in V
      PROVE  op(e, Alias) \in V /\ \A i \in D : op(e, Alias)[i] # Printed
  <2>1. op(e, Alias) = [i \in D |-> IF e[i] = Printed THEN [name |-> "r", ctl |-> 0] ELSE e[i]]
    <3>1. \A i \in D : e[i] = Printed => [e[i] EXCEPT !.name = "r"] = [name |-> "r", ctl |-> 0]
      BY DEF Printed
    <3> QED
      BY <3>1 DEF Alias, Printed
  <2>2. [name |-> "r", ctl |-> 0] # Printed
    BY DEF Printed
  <2> QED
    BY <2>1, <2>2
<1> HIDE DEF n, V, op
<1>3. step \in [(1 .. n) \X V -> V]
  BY <1>1, <1>2
<1>4. PICK g \in [SUBSET (1 .. n) -> V] : IsFold(g, n, calls, step)
  <2> HIDE DEF step
  <2> QED
    BY <1>1, <1>3, Recursion
<1>5. Eq(g)
  <2>1. ASSUME NEW s \in SUBSET (1 .. n), s # {}
        PROVE  g[s] = op(g[s \ {Max(s)}], aliases[Max(s)])
    <3>1. Max(s) \in 1 .. n
      BY <1>1, <2>1, MaxIsIn
    <3>2. g[s] = step[<<Max(s), g[s \ {Max(s)}]>>]
      BY <2>1, <1>4 DEF IsFold
    <3> QED
      BY <3>1, <3>2
  <2>2. g[{}] = calls
    BY <1>4 DEF IsFold
  <2> QED
    BY <1>1, <2>1, <2>2
<1>6. Eq(F)
  <2> HIDE DEF Eq
  <2> QED
    BY <1>5, Zenon
<1>7. restoreCallerGateNames(calls, aliases) = F[1 .. n]
  <2>1. restoreCallerGateNames(calls, aliases) = FoldLeft(op, calls, aliases)
    BY Zenon DEF restoreCallerGateNames, op
  <2>2. FoldLeft(op, calls, aliases) = F[DOMAIN aliases]
    BY Zenon DEF FoldLeft, MapThenFoldSet, F
  <2> QED
    BY <1>1, <2>1, <2>2, Zenon
<1> HIDE DEF F
<1>8. Follows(F, n, V, calls, step)
  <2>1. ASSUME NEW s \in SUBSET (1 .. n), s # {}, F[s \ {Max(s)}] \in V
        PROVE  F[s] = step[<<Max(s), F[s \ {Max(s)}]>>]
    <3>1. Max(s) \in 1 .. n
      BY <1>1, <2>1, MaxIsIn
    <3>2. F[s] = op(F[s \ {Max(s)}], aliases[Max(s)])
      BY <1>1, <1>6, <2>1
    <3> QED
      BY <2>1, <3>1, <3>2
  <2>2. F[{}] = calls
    BY <1>1, <1>6
  <2> QED
    BY <2>1, <2>2 DEF Follows
<1> HIDE DEF Eq
<1>9. PICK c : AreStates(c, n, V, calls, step, F[1 .. n])
  <2> HIDE DEF step
  <2> QED
    BY <1>1, <1>3, <1>8, FoldStates
<1>10. c[n - 1] \in V /\ F[1 .. n] = op(c[n - 1], Alias)
  <2>1. n - 1 \in 0 .. n /\ n \in 1 .. n
    BY <1>1
  <2>2. c[n - 1] \in V /\ c[n] = F[1 .. n] /\ c[n] = step[<<n, c[n - 1]>>]
    <3> HIDE DEF step
    <3> QED
      BY <1>9, <2>1 DEF AreStates
  <2> QED
    BY <1>1, <2>1, <2>2
<1> QED
  BY <1>2, <1>7, <1>10 DEF V

\* The first alias declares the spelling, the others find it declared.
LEMMA OneIsDeclared ==
  ASSUME NEW aliases \in Seq({Alias}), Len(aliases) # 0
  PROVE  insertCallerGateDefinitions(<<>>, aliases) = <<"r">>
<1> DEFINE n == Len(aliases)
           V == {<<>>, <<"r">>}
           op(listed, a) == IF ~HasGateDefinitionBody(a[2]) \/ a[1] \in ToSet(listed) THEN listed
                            ELSE Append(listed, a[1])
           step == [x \in (1 .. n) \X V |-> op(x[2], aliases[x[1]])]
           Eq(f) == f = [s \in SUBSET DOMAIN aliases |->
                           IF s = {} THEN <<>> ELSE op(f[s \ {Max(s)}], aliases[Max(s)])]
           F == CHOOSE f : Eq(f)
<1>1. /\ n \in Nat /\ n # 0 /\ DOMAIN aliases = 1 .. n /\ \A i \in 1 .. n : aliases[i] = Alias
      /\ <<>> \in V
  OBVIOUS
<1>2. ASSUME NEW e \in V
      PROVE  op(e, Alias) = <<"r">>
  <2>1. HasGateDefinitionBody(Alias[2]) /\ Alias[1] = "r"
    BY DEF HasGateDefinitionBody, Alias
  <2>2. CASE e = <<>>
    <3>1. "r" \notin ToSet(e) /\ Append(e, "r") = <<"r">>
      BY <2>2 DEF ToSet
    <3> QED
      BY <2>1, <3>1
  <2>3. CASE e = <<"r">>
    <3>1. "r" \in ToSet(e)
      BY <2>3 DEF ToSet
    <3> QED
      BY <2>1, <2>3, <3>1
  <2> QED
    BY <2>2, <2>3
<1>r. <<"r">> \in V
  OBVIOUS
<1> HIDE DEF n, V, op
<1>3. step \in [(1 .. n) \X V -> V]
  BY <1>1, <1>2, <1>r
<1>4. PICK g \in [SUBSET (1 .. n) -> V] : IsFold(g, n, <<>>, step)
  <2> HIDE DEF step
  <2> QED
    BY <1>1, <1>3, Recursion
<1>5. Eq(g)
  <2>1. ASSUME NEW s \in SUBSET (1 .. n), s # {}
        PROVE  g[s] = op(g[s \ {Max(s)}], aliases[Max(s)])
    <3>1. Max(s) \in 1 .. n
      BY <1>1, <2>1, MaxIsIn
    <3>2. g[s] = step[<<Max(s), g[s \ {Max(s)}]>>]
      BY <2>1, <1>4 DEF IsFold
    <3> QED
      BY <3>1, <3>2
  <2>2. g[{}] = <<>>
    BY <1>4 DEF IsFold
  <2> QED
    BY <1>1, <2>1, <2>2
<1>6. Eq(F)
  <2> HIDE DEF Eq
  <2> QED
    BY <1>5, Zenon
<1>7. insertCallerGateDefinitions(<<>>, aliases) = F[1 .. n] \o <<>>
  <2>1. insertCallerGateDefinitions(<<>>, aliases) = FoldLeft(op, <<>>, aliases) \o <<>>
    BY Zenon DEF insertCallerGateDefinitions, op
  <2>2. FoldLeft(op, <<>>, aliases) = F[DOMAIN aliases]
    BY Zenon DEF FoldLeft, MapThenFoldSet, F
  <2> QED
    BY <1>1, <2>1, <2>2, Zenon
<1> HIDE DEF F
<1>8. Follows(F, n, V, <<>>, step)
  <2>1. ASSUME NEW s \in SUBSET (1 .. n), s # {}, F[s \ {Max(s)}] \in V
        PROVE  F[s] = step[<<Max(s), F[s \ {Max(s)}]>>]
    <3>1. Max(s) \in 1 .. n
      BY <1>1, <2>1, MaxIsIn
    <3>2. F[s] = op(F[s \ {Max(s)}], aliases[Max(s)])
      BY <1>1, <1>6, <2>1
    <3> QED
      BY <2>1, <3>1, <3>2
  <2>2. F[{}] = <<>>
    BY <1>1, <1>6
  <2> QED
    BY <2>1, <2>2 DEF Follows
<1> HIDE DEF Eq
<1>9. PICK c : AreStates(c, n, V, <<>>, step, F[1 .. n])
  <2> HIDE DEF step
  <2> QED
    BY <1>1, <1>3, <1>8, FoldStates
<1>10. c[n - 1] \in V /\ F[1 .. n] = op(c[n - 1], Alias)
  <2>1. n - 1 \in 0 .. n /\ n \in 1 .. n
    BY <1>1
  <2>2. c[n - 1] \in V /\ c[n] = F[1 .. n] /\ c[n] = step[<<n, c[n - 1]>>]
    <3> HIDE DEF step
    <3> QED
      BY <1>9, <2>1 DEF AreStates
  <2> QED
    BY <1>1, <2>1, <2>2
<1>11. F[1 .. n] = <<"r">>
  BY <1>2, <1>10
<1>12. <<"r">> \o <<>> = <<"r">>
  OBVIOUS
<1> QED
  BY <1>7, <1>11, <1>12

\* The result is a text of the kernel that was lowered.
LoweredInv ==
  /\ request.native \in Seq(STRING)
  /\ stage = "returned" => result = Text(visited)

LEMMA LoweredInit == Init => LoweredInv
<1> SUFFICES ASSUME Init PROVE LoweredInv
  OBVIOUS
<1>1. PICK c \in Calls : request = c[1]
  BY DEF Init
<1>2. request.native \in Seq(STRING)
  BY <1>1, CallsAssumption, Zenon
<1>3. stage # "returned"
  BY DEF Init
<1> QED
  BY <1>2, <1>3 DEF LoweredInv

LEMMA LoweredStep == LoweredInv /\ [Next]_vars => LoweredInv'
<1> SUFFICES ASSUME LoweredInv, [Next]_vars PROVE LoweredInv'
  OBVIOUS
<1>1. CASE Lower
  <2>1. result' = Text(visited) /\ UNCHANGED <<request, visited>>
    BY <1>1 DEF Lower, call, conversion
  <2>2. Text(visited)' = Text(visited)
    BY <2>1 DEF Text, appliedAliases, PrintedCalls
  <2> QED
    BY <2>1, <2>2 DEF LoweredInv
<1>2. CASE Optimize \/ RunMapping \/ BeginConversion \/ RunConversion \/ Verify
  <2>1. stage' # "returned" /\ request' = request
    BY <1>2 DEF Optimize, RunMapping, BeginConversion, RunConversion, Verify, IsConverted, call
  <2> QED
    BY <2>1 DEF LoweredInv
<1>3. CASE MappingFails \/ MappingAborts \/ NoNativeGates \/ SnapshotAborts
           \/ ConversionFails \/ VerifyAborts \/ LoweringFails
  <2>1. stage' \in {"nullopt", "aborted"} /\ request' = request
    BY <1>3 DEF MappingFails, MappingAborts, NoNativeGates, SnapshotAborts,
                ConversionFails, VerifyAborts, LoweringFails, Refuse, Abort, call
  <2> QED
    BY <2>1 DEF LoweredInv
<1>4. CASE UNCHANGED vars
  <2>1. UNCHANGED <<stage, request, result, visited>>
    BY <1>4 DEF vars, call, conversion
  <2>2. Text(visited)' = Text(visited)
    BY <2>1 DEF Text, appliedAliases, PrintedCalls
  <2> QED
    BY <2>1, <2>2 DEF LoweredInv
<1> QED
  BY <1>1, <1>2, <1>3, <1>4 DEF Next, Ended

LEMMA LoweredDeclares == LoweredInv => AliasesAreDeclared
<1> SUFFICES ASSUME LoweredInv, stage = "returned", request.format = "OPENQASM2",
                    request.backend = "LRZ", "r" \in ToSet(request.native)
             PROVE  /\ \A i \in DOMAIN result.calls :
                         result.calls[i] # [name |-> "phased_rx", ctl |-> 0]
                    /\ Cardinality({i \in DOMAIN result.defs : result.defs[i] = "r"}) = 1
  BY DEF AliasesAreDeclared
<1> DEFINE gates == Picked(visited, {i \in DOMAIN visited : ~IsMeasurement(visited[i])})
           D == DOMAIN gates
           call1 == [i \in D |-> [name |-> gates[i].op, ctl |-> Len(gates[i].ctl)]]
           W == {call1[i] : i \in D}
<1>1. appliedAliases \in Seq({Alias}) /\ Len(appliedAliases) # 0
  BY AliasesOfCaller DEF LoweredInv
<1>2. PrintedCalls(visited) = call1
  BY DEF PrintedCalls
<1>3. call1 \in [D -> W]
  OBVIOUS
<1> HIDE DEF call1, W, D, gates
<1>4. /\ result.calls = restoreCallerGateNames(call1, appliedAliases)
      /\ result.defs = insertCallerGateDefinitions(<<>>, appliedAliases)
  <2> DEFINE calls == restoreCallerGateNames(call1, appliedAliases)
             defs == insertCallerGateDefinitions(<<>>, appliedAliases)
  <2>1. Text(visited) = [calls |-> calls, defs |-> defs]
    BY <1>2, Zenon DEF Text
  <2> HIDE DEF calls, defs
  <2>2. result = [calls |-> calls, defs |-> defs]
    BY <2>1, Zenon DEF LoweredInv
  <2>3. result.calls = calls /\ result.defs = defs
    BY <2>2
  <2> QED
    BY <2>3, Zenon DEF calls, defs
<1>5. \A i \in DOMAIN result.calls : result.calls[i] # Printed
  <2>1. /\ DOMAIN restoreCallerGateNames(call1, appliedAliases) = D
        /\ \A i \in D : restoreCallerGateNames(call1, appliedAliases)[i] # Printed
    BY <1>1, <1>3, NoneIsLeft
  <2> QED
    BY <1>4, <2>1, Zenon
<1>6. result.defs = <<"r">>
  BY <1>1, <1>4, OneIsDeclared
<1>7. {i \in DOMAIN result.defs : result.defs[i] = "r"} = {1}
  BY <1>6
<1> QED
  BY <1>5, <1>7, FS_Singleton DEF Printed

\* Whatever the kernel, and as often as the caller spells the gate his way: a
\* text for LRZ calls it by that spelling only and declares the spelling once.
THEOREM DeclaresAliases == Spec => []AliasesAreDeclared
<1>1. Init => LoweredInv
  BY LoweredInit
<1>2. LoweredInv /\ [Next]_vars => LoweredInv'
  BY LoweredStep
<1>3. LoweredInv => AliasesAreDeclared
  BY LoweredDeclares
<1> QED
  BY <1>1, <1>2, <1>3, PTL DEF Spec
=============================================================================
