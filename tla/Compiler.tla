------------------------------ MODULE Compiler ------------------------------
(***************************************************************************)
(* MQSSCompiler::compileImpl (lib/MQSSCIInterfaces/MQSSCompiler.cpp): one  *)
(* call of the compiler on one kernel that allocates its qubits.           *)
(*                                                                         *)
(*   "optimize"  the preset pipeline O1, O2 or O3                          *)
(*   "map"       CommonMappingPass (QubitMapping)                          *)
(*   "convert"   BasisConversionPass (BasisConversion), CSE and the        *)
(*               canonicalizer, with the verification hooks around them if *)
(*               the caller asks for them (CircuitVerification)            *)
(*   "lower"     to the result format; for OpenQASM 2 gates are renamed to *)
(*               the caller's spelling                                     *)
(*                                                                         *)
(* The call returns the circuit or nullopt.  "aborted" stands for the ends *)
(* at which the code goes on with a null pointer, an unchecked error or an *)
(* operation that is gone.                                                 *)
(*                                                                         *)
(* External: CSE and canonicalizer keep the gates of a kernel, which have  *)
(* side effects in Quake; the exporters print every gate they are given,   *)
(* or fail.                                                                *)
(***************************************************************************)
EXTENDS MQTCircuits, PassLogic

CONSTANTS
  Calls,            \* pairs of a request [level, native, backend, verify, format]
                    \* and the kernel [alloc, ops] it is made for
  NumQubits, Coupling, MaxSwaps,  \* the device (QubitMapping)
  SharedRefs,       \* operations on a qubit use the same quake.extract_ref
  CompareKeys,      \* what the cancellation's CompareKey is (GatePasses)
  ConsideredEquivalent(_, _),     \* the checker (CircuitVerification)
  Table, Classify(_), Emit(_, _), None, Orders, MaxRounds  \* (BasisConversion)

ASSUME CallsAssumption ==
  \A c \in Calls :
    /\ c[1].level \in {"O1", "O2", "O3"}
    /\ c[1].native \in Seq(STRING)
    /\ c[2] \in [alloc : Nat \ {0}, ops : Seq(Operations)]
    /\ \A i \in DOMAIN c[2].ops : Qubits(c[2].ops[i]) \subseteq 0 .. c[2].alloc - 1
ASSUME DeviceAssumption ==
  /\ NumQubits \in Nat
  /\ Coupling \subseteq (0 .. NumQubits - 1) \X (0 .. NumQubits - 1)
  /\ \A e \in Coupling : <<e[2], e[1]>> \in Coupling
ASSUME MappingAssumption == MaxSwaps \in Nat /\ SharedRefs \in BOOLEAN
ASSUME ConversionAssumption ==
  /\ IsFiniteSet(DOMAIN Table)
  /\ \A m \in DOMAIN Table : Len(Table[m]) \in Nat /\ DOMAIN Table[m] = 1..Len(Table[m])
  /\ Orders \subseteq {o \in Seq(DOMAIN Table) :
                         \A m \in DOMAIN Table : \E i \in 1..Len(o) : o[i] = m}
  /\ MaxRounds \in Nat \ {0}

VARIABLES
  request,    \* the arguments of the call
  source,     \* the kernel it was given
  stage,      \* how far compileImpl is, or how it ended
  snapshot,   \* cached_module_snapshot of the hooks
  result,     \* the text returned: calls and gate definitions
  \* QubitMapping
  kernel, phase, circuit, emitted, layout, start, mapped, new, old, reads,
  \* BasisConversion
  native, order, input, pc, pos, witness, rank, assigned, changed, round,
  pending, visited, failed, gaveUp

call == <<request, source>>
mapping == <<kernel, phase, circuit, emitted, layout, start, mapped, new, old, reads>>
conversion == <<native, order, input, pc, pos, witness, rank, assigned, changed,
                round, pending, visited, failed, gaveUp>>
vars == <<call, stage, snapshot, result, mapping, conversion>>

\* (Only the operators of GatePasses are used.)
Passes == INSTANCE GatePasses WITH
  Kernels <- {}, Allocated <- TRUE, ReductionModes <- {}, MaxGates <- 0,
  kernel <- kernel.ops

\* Mutant: the pipelines O1 and O2 change places.
PipelineSwapped(level, ops) ==
  IF level # "O1" THEN {ops}
  ELSE {Passes!performCommutation(
          Passes!performCNOTReversal(Passes!performCancellation(ops, key)),
          CommuteInfo("CX-RX")) : key \in CompareKeys}

\* What a preset pipeline makes of a kernel: O1 and O3 only run the standard
\* passes.
Pipeline(level, ops) ==
  IF level # "O2" THEN {ops}
  ELSE {Passes!performCommutation(
          Passes!performCNOTReversal(Passes!performCancellation(ops, key)),
          CommuteInfo("CX-RX")) : key \in CompareKeys}

\* the kernels the mapping is given
OptimizedKernels ==
  UNION {{[alloc |-> c[2].alloc, ops |-> ops] : ops \in Pipeline(c[1].level, c[2].ops)} :
           c \in Calls}

\* the default settings of the mapper add measurements
Mapping == INSTANCE QubitMapping WITH
  Kernels <- OptimizedKernels, AddMeasurements <- {TRUE}

Conversion == INSTANCE BasisConversion WITH
  Gate <- Operations, NativeSets <- SUBSET STRING, Kernels <- Seq(Operations)

Verification == INSTANCE CircuitVerification WITH
  Names <- {"kernel"}, Kernels <- {}, AssertsEnabled <- FALSE,
  module <- <<>>, phase <- stage, before <- <<>>, original <- <<>>, exposed <- {}

-----------------------------------------------------------------------------
(***************************************************************************)
(* The tables of Utils/CodegenUtils.h.                                     *)
(***************************************************************************)
resolveMnemonicAlias(gate) == IF gate = "r" THEN "prx" ELSE gate

mnemonicToQasmGateName(mnemonic) ==
  IF mnemonic = "prx" THEN "phased_rx" ELSE mnemonic

\* the gates qasmGateDefinitionBody has a body for
HasGateDefinitionBody(qasmName) == qasmName = "phased_rx"

-----------------------------------------------------------------------------
Init ==
  /\ \E c \in Calls : request = c[1] /\ source = c[2]
  /\ stage = "optimize"
  /\ snapshot = [n \in {} |-> {}]
  /\ result = [calls |-> <<>>, defs |-> <<>>]
  /\ kernel = source
  /\ phase = "load"
  /\ circuit = <<>> /\ emitted = {} /\ mapped = <<>>
  /\ layout = <<>> /\ start = <<>>
  /\ new = <<>> /\ old = {} /\ reads = <<>>
  /\ native = {} /\ order \in Orders /\ input = <<>>
  /\ pc = "sweep" /\ pos = 1
  /\ witness = [m \in DOMAIN Table |-> 0] /\ rank = witness /\ assigned = 0
  /\ changed = FALSE /\ round = 0 /\ pending = <<>> /\ visited = <<>>
  /\ failed = FALSE /\ gaveUp = FALSE

Optimize ==
  /\ stage = "optimize"
  /\ \E ops \in Pipeline(request.level, kernel.ops) :
       /\ kernel' = [kernel EXCEPT !.ops = ops]
       /\ old' = DOMAIN ops
  /\ stage' = "map"
  /\ UNCHANGED <<call, snapshot, result, phase, circuit, emitted, layout, start,
                 mapped, new, reads, conversion>>

-----------------------------------------------------------------------------
RunMapping ==
  /\ stage = "map"
  /\ Mapping!Next
  /\ UNCHANGED <<call, stage, snapshot, result, conversion>>

\* `return std::nullopt' after an error
Refuse == stage' = "nullopt" /\ UNCHANGED <<call, snapshot, result, mapping, conversion>>
Abort == stage' = "aborted" /\ UNCHANGED <<call, snapshot, result, mapping, conversion>>

MappingFails == stage = "map" /\ phase = "failed" /\ Refuse
MappingAborts == stage = "map" /\ phase = "aborted" /\ Abort

IsMapped == stage = "map" /\ phase \in {"done", "skipped"}

\* Mutant: the conversion is given the kernel as it was before the mapping.
UnmappedOps == kernel.ops

\* the operations of the kernel after the mapping, in the order of the block
MappedOps == new \o [i \in 1 .. Cardinality(old) |-> kernel.ops[Nth(old, i)]]

\* The check that there is a native gate set at all comes here, when the
\* kernel has been optimized and mapped.
NoNativeGates == IsMapped /\ request.native = <<>> /\ Refuse

-----------------------------------------------------------------------------
(***************************************************************************)
(* Conversion and verification.  The hooks see a module with one kernel.   *)
(***************************************************************************)
Module(ops) == [n \in {"kernel"} |-> [alloc |-> "static", ops |-> ops]]

\* the state before the conversion is worth a snapshot, and one can be taken
CanTakeSnapshot(ops) == request.verify => Verification!CanCreate(Module(ops))

\* Mutant: the pass is run on the kernel as it was before the mapping.
BeginConversionOfTheOld ==
  /\ IsMapped /\ request.native # <<>>
  /\ CanTakeSnapshot(MappedOps)
  /\ native' = {resolveMnemonicAlias(g) : g \in ToSet(request.native)}
  /\ input' = MappedOps
  /\ pending' = kernel.ops
  /\ snapshot' = IF request.verify THEN Verification!SnapshotBefore(Module(MappedOps))
                 ELSE snapshot
  /\ stage' = "convert"
  /\ UNCHANGED <<call, result, mapping, order, pc, pos, witness, rank, assigned,
                 changed, round, visited, failed, gaveUp>>

BeginConversion ==
  /\ IsMapped /\ request.native # <<>>
  /\ CanTakeSnapshot(MappedOps)
  /\ native' = {resolveMnemonicAlias(g) : g \in ToSet(request.native)}
  /\ input' = MappedOps
  /\ pending' = MappedOps
  /\ snapshot' = IF request.verify THEN Verification!SnapshotBefore(Module(MappedOps))
                 ELSE snapshot
  /\ stage' = "convert"
  /\ UNCHANGED <<call, result, mapping, order, pc, pos, witness, rank, assigned,
                 changed, round, visited, failed, gaveUp>>

SnapshotAborts ==
  /\ IsMapped /\ request.native # <<>>
  /\ ~CanTakeSnapshot(MappedOps)
  /\ Abort

RunConversion ==
  /\ stage = "convert"
  /\ Conversion!Sweep \/ Conversion!Walk
  /\ UNCHANGED <<call, stage, snapshot, result, mapping>>

IsConverted == stage = "convert" /\ pc = "done" /\ ~failed

ConversionFails == stage = "convert" /\ pc = "done" /\ failed /\ Refuse

\* Mutant: the first circuit is replaced too.
RetakenSnapshot ==
  LET circuit2 == Verification!Circuit(Module(visited), "kernel")
  IN [n \in {"kernel"} |-> [qc1 |-> circuit2, qc2 |-> circuit2]]

SnapshotOfBoth == Verification!SnapshotAfter(Module(visited))

\* The hook after the conversion.  CSE and canonicalizer follow, and are verified
\* too: they leave the gates as they are, and a circuit is equivalent to itself.
Verify ==
  /\ IsConverted
  /\ CanTakeSnapshot(visited)
  /\ snapshot' = IF request.verify THEN SnapshotOfBoth ELSE snapshot
  /\ stage' = IF Verification!AllAccepted(snapshot') THEN "lower" ELSE "nullopt"
  /\ UNCHANGED <<call, result, mapping, conversion>>

VerifyAborts == IsConverted /\ ~CanTakeSnapshot(visited) /\ Abort

-----------------------------------------------------------------------------
(***************************************************************************)
(* Lowering.  A text is the calls of gates and the gate definitions in it; *)
(* a call is the name written and the number of controls it is prefixed    *)
(* with.                                                                   *)
(***************************************************************************)
PrintedCalls(ops) ==
  LET gates == Picked(ops, {i \in DOMAIN ops : ~IsMeasurement(ops[i])})
  IN [i \in DOMAIN gates |-> [name |-> gates[i].op, ctl |-> Len(gates[i].ctl)]]

\* appliedAliases: (caller spelling, QASM 2 gate name), for one backend only
appliedAliases ==
  LET gates == request.native
      aliased == Picked(gates, {i \in DOMAIN gates : resolveMnemonicAlias(gates[i]) # gates[i]})
  IN IF request.backend # "LRZ" THEN <<>>
     ELSE [i \in DOMAIN aliased |->
             <<aliased[i], mnemonicToQasmGateName(resolveMnemonicAlias(aliased[i]))>>]

\* a name that only ends in the one looked for is left alone
restoreCallerGateNames(calls, aliases) ==
  FoldLeft(LAMBDA text, a :
             [i \in DOMAIN text |->
                IF text[i] = [name |-> a[2], ctl |-> 0] THEN [text[i] EXCEPT !.name = a[1]]
                ELSE text[i]],
           calls, aliases)

\* Mutant: a spelling that is listed twice is declared twice.
InsertAllDefinitions(defs, aliases) ==
  LET bodied == Picked(aliases, {i \in DOMAIN aliases : HasGateDefinitionBody(aliases[i][2])})
  IN [i \in DOMAIN bodied |-> bodied[i][1]] \o defs

\* each spelling is declared once
insertCallerGateDefinitions(defs, aliases) ==
  FoldLeft(LAMBDA listed, a :
             IF ~HasGateDefinitionBody(a[2]) \/ a[1] \in ToSet(listed) THEN listed
             ELSE Append(listed, a[1]),
           <<>>, aliases) \o defs

\* stripSpuriousGateDefs removes the definitions the exporter printed
Text(ops) ==
  IF request.format = "OPENQASM2"
  THEN [calls |-> restoreCallerGateNames(PrintedCalls(ops), appliedAliases),
        defs |-> insertCallerGateDefinitions(<<>>, appliedAliases)]
  ELSE [calls |-> PrintedCalls(ops), defs |-> <<>>]

Lower ==
  /\ stage = "lower"
  /\ result' = Text(visited)
  /\ stage' = "returned"
  /\ UNCHANGED <<call, snapshot, mapping, conversion>>

LoweringFails == stage = "lower" /\ Refuse

\* Only a call that has ended may stop: TLC checks that no stage, whatever it
\* makes of the kernel, is without a next one.
Ended == stage \in {"returned", "nullopt", "aborted"} /\ UNCHANGED vars

Next ==
  \/ Optimize
  \/ RunMapping \/ MappingFails \/ MappingAborts \/ NoNativeGates
  \/ BeginConversion \/ SnapshotAborts \/ RunConversion \/ ConversionFails
  \/ Verify \/ VerifyAborts
  \/ Lower \/ LoweringFails
  \/ Ended

Spec == Init /\ [][Next]_vars

-----------------------------------------------------------------------------
\* Verification is a gate: the conversion it lets pass is one the checker accepts,
\* of the very kernel the conversion was given and the very kernel that is lowered
\* - if both were loaded as they are and neither is empty.
VerifiedKeepsTheKernel ==
  stage \in {"lower", "returned"} /\ request.verify
  /\ Verification!Faithful(input) /\ Verification!Faithful(visited) =>
    input = <<>> \/ visited = <<>> \/ ConsideredEquivalent(input, visited)

CoupledOperations == {g \in Operations : Mapping!Coupled(g)}

\* Mapping before decomposing is sound: whatever chain of rules and however many
\* rounds it takes, a kernel that respects the coupling map still does when it is
\* lowered.  (What the mapper makes does: ConnectsWhatIsLoaded.)
ConversionStaysCoupled ==
  stage \in {"convert", "lower", "returned"} /\ input \in Seq(CoupledOperations) =>
    visited \in Seq(CoupledOperations)

\* The standard passes leave operations on the qubits of the kernel, and none the
\* mapper does not know where there was none.
PipelineKeeps ==
  \A c \in Calls : \A ops \in Pipeline(c[1].level, c[2].ops) :
    /\ ops \in Seq(Operations)
    /\ \A i \in DOMAIN ops : Qubits(ops[i]) \subseteq 0 .. c[2].alloc - 1
    /\ (\A i \in DOMAIN c[2].ops : InCircuit(c[2].ops[i])) =>
         \A i \in DOMAIN ops : InCircuit(ops[i])

\* All gates of the kernel were translated for the mapper.
AllLoaded == phase = "done" /\ \A i \in DOMAIN source.ops : InCircuit(source.ops[i])

\* What the compiler returns can run on the device: every gate is in the
\* native set the caller gave, and acts on coupled qubits.
CompiledRunsOnTheDevice ==
  stage = "returned" /\ AllLoaded =>
    \A i \in DOMAIN visited :
      LET g == visited[i]
      IN \/ IsMeasurement(g)
         \/ Conversion!IsNative(native, Classify(g)) /\ Mapping!Coupled(g)

\* A text for LRZ calls the gate by the caller's spelling only (a controlled one
\* has another name), and declares that spelling exactly once.
AliasesAreDeclared ==
  stage = "returned" /\ request.format = "OPENQASM2" /\ request.backend = "LRZ"
  /\ "r" \in ToSet(request.native) =>
    /\ \A i \in DOMAIN result.calls : result.calls[i] # [name |-> "phased_rx", ctl |-> 0]
    /\ Cardinality({i \in DOMAIN result.defs : result.defs[i] = "r"}) = 1
=============================================================================
