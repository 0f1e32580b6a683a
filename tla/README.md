# Verification of the MQSS quantum compilation suite

TLA+ specifications of the compilation suite (MLIR passes that optimise, map,
decompose, verify and lower quantum kernels), TLC configurations that check them on
small instances, and theorems about them checked by TLAPS. Paths below are relative to
the repository.

## 1. Inventory of the system

| Component | Source | State it keeps | Operations | Modelled |
|---|---|---|---|---|
| Basis conversion | `lib/Passes/CodeGen/BasisConversionPass.cpp`, `include/Passes/CodeGen/BasisConversionPatterns.h` | witness map, native set, kernel, `changed`, round counter, pass failure | `computeWitnesses`, `classifyOp`, the rounds of `runOnOperation`, 39 rewrite functions | yes (Quake) |
| Standard optimisation passes | `include/Passes/Transforms/PassLogic.h`, `lib/Passes/Transforms/Common*.cpp` | the kernel; candidate lists per pass | cancellation, null rotations, commutation, commute-and-switch, reduction, angle normalisation, CNOT reversal | yes (Quake, straight-line) |
| Qubit mapping | `lib/Passes/Transforms/CommonMappingPass.cpp` | circuit, mapped circuit, lists of measurements and operations to erase, kernel | `performMapping`, `createMappedCircuit`, `controlledDCE` | yes (one Quake kernel, the mapper abstract) |
| Circuit-equivalence verification | `lib/Passes/Verification/EquivalenceVerification.cpp`, `include/Passes/Verification/Instrumentation.h` | `cached_module_snapshot` over the life of a pass manager | `runBeforePass`, `runAfterPass`, `runAfterPassFailed` | yes |
| MQT Core translation | `include/Utils/MQTCoreUtils.h` | circuit | loading gates and measurements | yes |
| Quake analysis | `include/Passes/Analysis/QuakeExtractor.h`, `Extractor.h`, `include/Utils/DialectUtils.h` | views of the operations of each kernel | `gatherOpInfo`, `createQuantumView`, `getAllocatedQubits`, editing operations | reading side |
| Dialect selection | `include/Passes/Analysis/DialectAnalysisSelector.h` | none | choice of the analysis | partly |
| Compiler driver | `lib/MQSSCIInterfaces/MQSSCompiler.cpp`, `include/Utils/CodegenUtils.h` | the module, spellings of native gates | optimise, map, convert (verified), lower, rename gates | yes, but for reading input and options |
| Pipelines O1, O2, O3 | `lib/Passes/Transforms/Pipeline.cpp` | none | sequences of passes | yes |
| OpenQASM 2 import | `lib/Translation/QASM2ToQuake.cpp` | registers, offsets, lazy allocation | declarations, gates, measurements | yes |
| Value semantics (Catalyst) | `include/Passes/Analysis/CatalystExtractor.h`, branches of `PassLogic.h` | SSA chains of qubits, the analysis' own record of them | the same passes | yes (straight-line) |
| QDMI queries | `include/Utils/TranspilationPassUtils.h` | a device session | size-then-fill queries | no: external interface |
| Lowering to QIR / LLVM IR | `lib/Passes/CodeGen/ConversionPatterns.cpp` and others | the slots of an array-backed register | one pattern per operation | Catalyst's extract, insert and gates; the other patterns are local rewrites |
| Exporters, measurement expansion, tools, scripts | `lib/Passes/CodeGen/*`, `mqss-cc.cpp`, ... | none | text, files, command lines | no: I/O |

How they interact. `compileImpl` runs four pass managers over one module: optimisation
(O1, O2 or O3), mapping, conversion (basis conversion, CSE, canonicalisation; here the
verification hooks are attached if asked for) and lowering. Passes communicate only
through the module, and each builds its own analysis of it. The hooks are called by
MLIR around every pass of their manager and keep a cache between the calls. The command
line tools run any of the passes in any order, which is what `GatePasses` models.

What is hard here. Nothing runs concurrently. What tests hardly reach are *sequences*: passes
in any combination, rounds of rewriting that feed themselves, a cache that outlives the
kernels it describes, an iteration order (`unordered_map`) that differs between
builds, an external mapper that may choose any layout, and operations for which a part
of a multi-step rewrite silently does not happen. PROJECT.json lists these hazards at
their lines.

What makes the components correct:

* basis conversion: terminates, fails exactly when it must, leaves native gates, does
  not depend on hash order, keeps the circuit's unitary;
* optimisation passes: keep the circuit's unitary, in any order; on values, every qubit
  is still used once and no pass goes on with what it erased;
* mapping: every gate acts on coupled qubits, undoing the swaps gives back the program;
* verification: a changed circuit is rejected, an unchanged one is not, however long the
  cache has lived;
* import: registers tile one allocation, and an operation ends up on the qubits it names;
* compiler: what it returns runs on the device and computes the program, whatever the
  parts do to one another.

## 2. Modules

```
LegalizationContract       abstract: the verdict of basis conversion
  ^ refined by
BasisConversion            sweeps and rounds, for any table        <- BasisConversionProofs (1)
  ^ instantiated by
MCBasisConversion          EXTENDS BasisConversion, DecompositionRules
MCDecompositionRules       adds the unitaries (GateAlgebra)
DecompositionRules         classifyOp, the table, the rewrites     <- DecompositionRulesProofs
BasisConversion with that table                             <- BasisConversionProofs (2)

QuakeGates                 operations and building them (createQuakeGate)
  DecompositionRules
  QuakeAnalysis            what the analysis tells of an operation
    GatePasses             the optimisation passes (and PassLogic) MCGatePasses
                                                                <- GatePassesProofs
    MQTCircuits            loading into a qc::QuantumComputation
      CircuitVerification  the hooks and their cache               MCCircuitVerification
                                                                <- CircuitVerificationProofs
      QubitMapping         the mapping pass                        MCQubitMapping
                                                                <- QubitMappingProofs
      Compiler             one call of the compiler: instances of  MCCompiler
                           GatePasses, QubitMapping,            <- CompilerProofs
                           BasisConversion, CircuitVerification
PassLogic                  what the passes share in both dialects
  ValueKernels             Catalyst kernels and their analysis
    ValuePasses            the passes and the lowering on values   MCValuePasses

QASMProgram                abstract: what an OpenQASM 2 program means
  ^ refined by
QASM2ToQuake               the translator                          MCQASM2ToQuake
                                                                <- QASM2ToQuakeProofs
GateAlgebra                exact unitaries of two or three qubits over Z[exp(i pi/8)]
Selection                  part of a sequence, in its order (Nth, Picked)
                                                                <- SequenceProofs
```

An operation is a record `[op, adj, ctl, tgt, par]` in all modules about Quake kernels
(`Operations` of `QuakeGates`); angles are integers in
units of pi/4; a kernel is the sequence of its operations in block order.

### BasisConversion (BasisConversionPass.cpp)

`Table`, `Classify` and `Emit` are constants, so that the theorems of `BasisConversionProofs` hold
for any table; `DecompositionRules` is the table the code has, and the second part of that module
is about that one. `SkipEntry`, `TakeWitness`, `NextSweep`
and `WitnessesDone` are the loop of `computeWitnesses` (280-300), one step per
entry; `order` is the unknown, but fixed, iteration order of the `unordered_map`.
`KeepOp`, `RejectOp`, `RewriteOp` are the three ways the walk of `runOnOperation` treats
an operation, `FixedPoint`, `NextRound`, `GiveUp` the three ways a round ends.
`rank` and `assigned` are auxiliary: they record when a witness was found and no guard reads
them.

### DecompositionRules, GateAlgebra (BasisConversionPatterns.h)

Every rewrite function is an operator from an operation to the operations it
leaves, including what `createQuakeGate` drops (controls of rotations) and what
a missing insertion point loses (the operation disappears). `GateAlgebra` gives a
circuit its unitary in exact arithmetic, so "the same up to a global phase" is decided,
not approximated. A rule may emit something else than it declares, which its `produces` does
not tell and `DeclaresItsEmissions` is about: an rx by pi/2 is classified "sx", and the rules of the
controlled rotations emit rotations without a control (on WMI's set a `cry` by pi/4 becomes an rx
that is neither native nor declared, and finds a witness of its own).

### PassLogic, GatePasses (PassLogic.h and the Common*Pass.cpp files)

One variable, the kernel; one action per pass, which is the whole of
`runOnOperation` in one of its modes. The intermediate steps of a pass (collect
candidates, check, move or erase, in the code's order) are operators named after
the functions; those that both dialects share (which gates a mode looks for, what a
comparison key compares, editing a block) are in `PassLogic`. The uninitialised `CompareKey` of the cancellation is the constant
`CompareKeys`.

### MQTCircuits, CircuitVerification

`LoadOp` and `CanLoadOp` say what a gate becomes in MQT Core: the model keeps that
controls of other gates than x and z are dropped and that a swap is loaded with one target
twice. `CircuitOf` orders the translated operations with `Nth`, which picks them
by their place in the kernel. `CircuitVerification` is the life of one instrumentation: `RunBeforePass`, any pass
(`RunPass`), `RunAfterPass`, again and again, over several kernels. `before`, `original` and `exposed`
are history variables. Both hooks go on with an unusable analysis; those
ends are the `...Aborts` actions.

### QubitMapping (CommonMappingPass.cpp)

`performMapping` on one kernel, phase by phase: `Load`, the mapper (`MapSwap`, `MapGate`,
`MapEnds`, `MapFails`), `Rebuild` (`createMappedCircuit`), `Resolve` (measurements), `Erase`
(`controlledDCE`), and the ends in between (`Skip`, `LoadFails`, `ResolveAborts`, `EraseAborts`).
`new` are the operations created in front, `old` the indices of the kernel's own
operations that are still there.

### ValueKernels, ValuePasses (CatalystExtractor.h, PassLogic.h, ConversionPatterns.cpp)

In a Catalyst kernel a gate takes qubits as values and returns new ones, and the order
of the block is not what decides: a pass that moves or replaces a gate has to redirect
values. While a pass edits, operations keep their names and `view` is what the
analysis believes each of them takes, which only `UpdateOperands` brings up to date:
switches and normalisations build their gates on it. `Close` makes a kernel of it again. An action is a whole pass, with the module
verifier behind it (`EndPass`): `outcome` tells whether the pipeline goes on, the verifier
rejected the kernel, the pass used an operation it had erased, or the kernel was lowered.
`GiveUp` is a module that is not analysed, `Refuse` a new operation at the address of an
erased one, which the analysis takes for known.
`Canonicalize` is MLIR's, which the test pipelines run behind the passes: it drops
gates whose results nobody takes. `Lower` is the conversion to QIR in both its forms,
with array-backed registers (an insert stores) and without (an insert is dropped).

### QASMProgram, QASM2ToQuake (QASM2ToQuake.cpp)

`QASM2ToQuake` is the loop over the statements, one action per kind of statement; a
statement is what `splitStatements` and the parsers of operands leave of its text. Numbers
are unsigned and wrap at `Word`. The first statement that uses a qubit makes the
allocation (`EnsureAllocated`). `QASMProgram` has neither numbers nor an
allocation: its operations are on named qubits. The refinement maps a reference to the
qubit in whose register it lies; once the number of qubits has wrapped nothing is promised
(`TooManyQubits`, with the auxiliary variable `wrapped`).

### Compiler (MQSSCompiler.cpp, CodegenUtils.h, Pipeline.cpp)

`compileImpl` on one kernel that allocates its qubits. `stage` is how far the call is;
`Optimize` runs a preset pipeline, `RunMapping` and `RunConversion` are the steps of
`QubitMapping` and `BasisConversion`, whose variables it shares by name, and `BeginConversion`
and `Verify` do what the hooks of `CircuitVerification` do around the conversion, on a module of one kernel.
The ends of `compileImpl` are the actions `...Fails` and `NoNativeGates` (nullopt),
`...Aborts` (where the code goes on with what it does not have) and `Lower`, which returns a text:
calls and gate definitions, renamed for the backend that wants it.

### What is external

* MQT QMAP (the mapper): any injective layout, any swaps of coupled qubits, gates in any
  order that keeps the gates of one qubit in order, final measurements of all mapped
  qubits, of the measured ones or (as set) of none, or a failure. The coupling map is symmetric.
* MQT QCEC (the checker): `ConsideredEquivalent`, a reflexive and transitive relation on circuits;
  for TLC the exact equality of unitaries and measurements.
* MLIR: the pass manager calls the hooks in pairs; a walk meets the operations that were
  there when it began; passes that are not ours may do anything to a kernel except
  make a static register dynamic.
* MLIR's CSE and canonicalizer keep the operations of a Quake kernel, which have side effects;
  the exporters print every gate they are given, or fail.
* the meaning of Quake's and Catalyst's gates.

## 3. What the runs check

| Run | Properties | What it shows | Bounds |
|---|---|---|---|
| `basis_order` | WitnessesAreRanked, WitnessesAreComplete | witnesses bottom out and are those of the least fixed point, for every order | all 720 orders of the six entries around the rotations, where rules form cycles; 7 native sets |
| `basis_devices` | TypeOK, SuccessIsNative, RoundsAreBounded, EmitsResolvable, DeclaresItsEmissions, KeepsContract | the pass ends, with the verdict of the contract, in few rounds | whole table, three very different orders, the four documented native sets and two poor ones, kernels of up to two operations, every recognised gate but crz |
| `basis_rules` | RewritesKeepMeaning | every rewrite outside a stated list keeps the unitary | one native set per rule, round cap 2 (rewrites are what is checked, not termination) |
| `gate_passes` | TypeOK, MeaningIsKeptElsewhere | no pass changes the unitary, but for the CNOT reversal, which leaves each CNOT in front of its reversed form and does nothing else wrong, and reductions of patterns that were only partly checked | kernels of up to three of fifteen gates and four of five, two qubits, any number of passes; CNOT reversal only up to length 2 (`MaxGates`: it makes kernels longer) |
| `verify_passes` | TypeOK, Sound, NoFalseAlarm | a kernel the checker was shown every time keeps its meaning; stale entries never decide | two kernels, eight values, unbounded number of passes, symmetric names |
| `map_line` | TypeOK, ConnectsWhatIsLoaded, KeepsTheProgram | loaded kernels end up on coupled qubits and still are the program | three qubits in a line, kernels up to three operations, up to two swaps (`MaxSwaps`) |
| `value_passes` | TypeOK, ValuesAreKept, ExecutionIsKept, StaysLinear, NothingErasedIsUsed, OnlyNullRotationsAreRejected, LoweringRunsTheKernel | on values, each pass keeps the program both as values and as a list of gates, every qubit stays used once, and the lowering runs the kernel. Where a pass is wrong the properties say how: a commutation loses the gates it moves and copies what it moves them past, a reversal exchanges the results of every CNOT, a reduction adds its gate to the pattern - and nothing else | kernels of up to two of twelve gates and three of five, the kernel H X H X, some that put qubits back and take them out again; reversals and reductions up to seven operations (`MaxOps`) |
| `import_qasm` | TypeOK, RegistersTile, StaysInsideAllocation, ImplementsProgram | one allocation holds all registers; the kernel does to each qubit what the program says of its name; every program gets its verdict | six groups of declarations (one wraps, `Word` = 8) before up to two of 24 statements (`BodyLength`) |
| `compile` | CompiledRunsOnTheDevice, CompiledKeepsTheProgram, VerifiedKeepsTheKernel, AliasesAreDeclared, ConversionStaysCoupled | what a call returns is native, coupled, and the program it was given; a verified conversion kept the kernel | 15 calls over all levels, formats and documented native sets, with and without verification; three qubits in a line, every layout and order of the mapper, one swap (`MaxSwaps`) |
| `gate_reduce` | MeaningIsKept | violated: see below | |
| `verify_gate` | Gate | violated | |
| `map_connectivity` | RespectsConnectivity | violated | |

Why the bounds are enough. A pass over a sequence looks at pairs, triples and what lies
between them: kernels of three or four gates on two qubits contain every pattern
with something in between, on the same and on other qubits. A rewrite rule's products are
looked at one by one, so two operations show that rounds do not interfere, and the
theorems cover all lengths. The three-qubit line is the smallest device where a gate needs a
swap; two swaps let the layout wander and come back. The cache of the verification
depends on a kernel's previous value only, so eight values give every combination of
allocated or not, faithful or not, equivalent or not, empty or not. In the import a
statement depends on the registers declared before and on whether qubits have been used:
the groups of declarations give every relation of two registers (before or behind, of equal size or
not, alone or not, wrapped), two statements behind them the order of first use and
declaration; the theorems cover the rest. The calls of `compile` are chosen so that every way a call can end is
taken, with one order of the decomposition table (`basis_order` has all of them).

Deadlock. `BasisConversion` has an explicit step `Done`, `QASM2ToQuake` a step for programs
that have their verdict, `Compiler` the step `Ended` of calls that have returned, and
`GatePasses` always has a pass to run: there deadlock is checked, and no stage of the compiler
is without a next one. In `verify_*`, `map_*` and `value_passes` a pipeline that failed or was lowered really stops,
and it is not checked.

Fairness. Basis conversion and the import have a liveness property, that a verdict is reached (part
of `KeepsContract` and of `ImplementsProgram`). Their `Spec` assumes weak fairness of "take the next step":
both are loops in one thread that wait for nothing. Nothing is assumed of the choices.

### Disagreements between the code and its documentation

* `gate_reduce`: patterns are checked up to the first pair that fits; H q0, X q0, H q1 becomes Z q0.
* `verify_gate`: a pass that deletes all gates of a kernel leaves an empty circuit, which the hook
  takes for a missing snapshot.
* `map_connectivity`: gates without a type (a controlled y) are neither mapped nor erased.

Others that were met and have no run of their own (an ASSUME of the module named, where there
is one, states the fact and TLC checks it). In basis conversion:

* Under the default native set an `ry` by pi/2 is rewritten to an `rx` by pi/2, which is then
  classified `sx` and cannot be legalized: the pass fails on a gate it made itself
  (`MCBasisConversion!UndeclaredEmissionAssumption`).
* `SToPhasedRx` and the other `...ToPhasedRx` functions of fixed gates set no insertion point; the gate
  vanishes (among the rules of `UnfaithfulRules`).
* `CrzToRzCu3` leaves a controlled u3 and an rz without a target, which nothing recognises, and the pass
  reports success (`SuccessIsNative` fails as soon as a crz is among the kernels of `basis_devices`).
* Thirteen rules are not faithful; `UnfaithfulRules` and `UnfaithfulToAdjoints` in `MCDecompositionRules` list
  them; an ASSUME there says that each of them is listed rightly, and `basis_rules` that no other rule is
  unfaithful.
* passes.md:260-262 and transpiler.md:95-97 say basis conversion warns about a gate it cannot decompose and leaves it;
  the code emits an error and fails the pass.

In the optimisation passes:

* The Quake CNOT reversal keeps the CNOT that it reverses (`ReversesBesideCNOTs` in `MCGatePasses`).
* The normalisation builds a controlled rotation anew without its control (`MCGatePasses!NormalizingDropsTheControl`).
* Cancellation takes all qubits that are arguments for one qubit (`GatePasses` with `Allocated = FALSE`).
* On values, a commutation leaves the users of the second gate's result where they are, so the
  canonicalizer drops the first gate (`MCValuePasses!CommutingLosesAGate`); passes.md:44-46 says
  passes can be combined in any order.
* The Catalyst CNOT reversal ends with the two qubits exchanged (`ReversalSwapsTheQubits`), and for several CNOTs
  depends on the order of an `unordered_map` (`ReversesCrosswise`, `ReversesTooLate`).
* A cancelled null rotation is replaced by its angle instead of its qubit, which the verifier rejects.
* `HXYZtoXYZH` on H X H X uses a gate it has erased (`SwitchUsesAnErasedGate`), the normalisation of two rotations in a
  row does so too (`NormalizingUsesAnErasedGate`; NormalizeArgAngle.mlir has one rotation only), and a reduction whose last gate nobody
  uses erases gates that are in use.
* The analysis adds entries to a map (`operator[]`) while it iterates over it (PassLogic.h:152).

In mapping, verification and import:

* All old measurements are wired to the first new one (CommonMappingPass.cpp:448). The TODO above that line knows
  of it for kernels with several measurements; since the mapper measures in the order of the device
  a single one is affected too. `reads` in `QubitMapping` records it.
* verification.md in docs/develop-guide describes a check per pass (`performCheck`, `canHandle`) that the code no longer has.
* A swap the mapper inserts is loaded for verification with one target twice, so the comparison takes it for nothing.
* The offsets of classical registers are never read and the classical bit of a measurement is forgotten; `cx q[0],q[0]`
  is accepted.

In the compiler driver:

* library.md:104-109 says that without native gates decomposition is skipped; the code returns nullopt, after it has
  optimised and mapped (MQSSCompiler.cpp, `NoNativeGates`).
* library.md:75-78 says a failed compile never crashes; with verification the hooks go on with a snapshot
  they could not take (`SnapshotAborts`, `VerifyAborts`: a u3 is enough).
* A `phased_rx` in the input always makes the mapping fail.
* The comment at MQSSCompiler.cpp:378-382, that a caller that calls the gate prx is never touched, does not hold for a native set with
  both `r` and `prx`; and an output that spells the gate `prx`, or is for another backend than LRZ, calls `phased_rx` without a definition.
* Without array-backed registers the lowering drops inserts, so a kernel whose qubits changed places is lowered to another
  program (the second case of `LoweringRunsTheKernel`).

## 4. What is proved

All theorems hold for every value of the constants that satisfies the named assumptions.

**BasisConversionProofs** (assumptions: a finite table of rules, each order visits every entry, `Emit`
returns operations for the gates its rule is for, a positive round cap).

* `TypeCorrect`, `Ranked`. A witness's rule was resolvable when it was taken, so what it
  produces is native or has a smaller `rank`; ranks never change, which makes the property inductive.
* `Complete`. One direction is the rank argument (the set of resolved mnemonics lies in every closed
  set). The other needs what the last sweep knows: while `changed` is false, every entry the sweep
  has passed is resolved or has no resolvable rule. At the end of an unchanged sweep all entries are
  passed, so the resolved set is closed.
* `SuccessfulMeansNative`, `FailsExactlyWhenStuck`: under the hypotheses that what witnesses emit is
  recognised (`EmitsRecognised`), or resolvable (`EmitsResolvable`). The invariants speak of the operations
  visited and pending: none of them is foreign, or stuck, unless the input held such a one.
* `RoundsBounded`: if the mnemonics that have a witness can be put on levels so that what their rules
  emit is native or lower (`EmissionsSink`), each round lowers the highest level in the kernel, and
  levels are at most the number of entries. `NeverGivesUp`: a cap above that number is not reached.
  `DeclaringBoundsRounds` is the comment's own argument, with ranks as levels, for rules that emit only
  what they declare.
* `Implements`: the safety part of the refinement of `LegalizationContract`.

**DecompositionRulesProofs** (no assumptions). `RulesEmit` says what each of the 39 rewrite functions leaves
behind for all operands and angles: operations of the mnemonics `Yields` gives, on qubits of the gate
replaced. `Yields` is not always `produces`: a rule that declares "rx" may leave an "sx", two rules of
controlled rotations leave an rx or rz, and `CrzToRzCu3` leaves operations no mnemonic fits.

**BasisConversionProofs, second part,** discharges the hypotheses above for the repository's table
(`RepositoryTable`: the constants of `BasisConversion` stand for entries of `DecompositionTable`, `ClassifyOp`
and `ApplyRule`; `MCBasisConversion` gives them these values).

* `TableBoundsRounds`, `TableNeverGivesUp`: on every native set, kernel and order. Since rules emit what they do not
  declare, ranks alone are no levels: controlled rotations are put above everything else, sx at the bottom, and the
  others ordered by when they got their witness. The table has 22 entries and the cap is 64.
* `DeclaresWhatItEmits`: the property as the run checks it.
* `TableSucceedsNative`: on every native set and every kernel without a `crz` (`NoCrz`; with a crz it is false, see
  section 3).
* `TableEmitsResolvable`, `TableFailsOnlyIfItMust`, `TableImplements`: on kernels without a crz and native sets on
  which making an rx makes an sx possible, and on which the rotation a controlled one decays into can be
  legalized (`IsCoherent`). `RotatingSetsAreCoherent` proves it of every set with `prx`, or with
  `rz` and one of `rx` and `sx`: the documented device sets are of this kind. The option's default set
  {h, cx, rz} is not, and there the theorem's conclusion fails (section 3, `UndeclaredEmissionAssumption`).

**SequenceProofs** (no assumptions) is what the others need to reason about folds and selections. The library's induction
theorems take an operator as a parameter, which the provers cannot instantiate, so `Induction` is stated of a *set* of numbers and
rests on the least element of a set of naturals. `Recursion` gives the function by which the community modules' `FoldLeft` is
defined, for a step that is a function on a set of values; `FoldStates` turns a fold into the sequence of its intermediate values,
so that an invariant of the fold is a set they stay in. `NthIncreases`, `NthOfAll`, `PickedFacts`, `PickedSame` and `PickedMore` say that `Picked` is the
part of a sequence at the chosen places, in order, and what one more place adds.

**GatePassesProofs** (assumptions: kernels of well-formed operations, the modes the passes have). `TypeCorrect`: after
any passes, in any order, each operation has the operands and angles of its kind. While a pass edits the kernel k, the
block lists operations the analysis knows, which are those of k and new ones (`Edits(K, k)`); each edit keeps that for any set K its
new operations are in, so that the lemmas serve more than one K: the type here, the qubits and the mapper's gates in `CompilerProofs`.

**CircuitVerificationProofs** (assumptions: the checker's relation is reflexive and transitive on kernels).
The invariant `IInv` adds to the properties what makes them inductive: `Fresh` (while a pass
runs, the entries of its kernels hold the circuits it was given and no second one), `Settled` (whatever is left
in the cache would be accepted again), `NeverDynamic` (a kernel with an entry cannot lose its static size but by
losing its register), `PassEffect` and `SoundSoFar`. `StaysSound` follows by transitivity over the passes,
`NeverAlarmsFalsely` because an entry that is not of a current kernel is `Settled`.

**QubitMappingProofs** (assumptions: a symmetric coupling map, a finite device, kernels of operations on the qubits
they allocate). `IInv` follows the phases:
the layout is injective from `Load` on, the mapped circuit is a sequence of operations on coupled qubits, the
operations created are on no other qubits, after `Resolve` no old measurement is left and after `Erase` only
operations without a type. `Connects` concludes that a kernel whose operations are all loaded respects the
coupling map, for every device, layout and number of swaps. `CreatesSimpleGates` says which gates come out:
loading drops what MQT Core has no place for and `createQuakeGate` drops more, so the operations created are
of the shapes `SimpleOps` lists, each of which `classifyOp` recognises; the invariant for it follows an operation through
`LoadOp`, the mapper's circuit and the rebuilding.

`Keeps` is the other half: undoing swaps and layout gives back the gates of the program (`KeepsTheProgram`). Its invariant
`RoutedInv` says why, while the mapper still runs: the gates emitted so far include, of each qubit, every earlier
one; read back, the mapped circuit has on each qubit exactly the gates of the circuit that were emitted, in their order; and
the qubit each physical one holds is the one the current layout puts there. A swap changes the last and adds nothing to the
second; a gate adds itself at the end on each of its qubits. At the end all gates are emitted, the rebuilding
changes nothing in what the mapper made of a faithfully translated kernel (`RebuiltIsSame`), and the gates of the circuit are those of the
kernel.

**QASM2ToQuakeProofs** (assumptions: a word of at least two values, tokens that are no numbers, statements of
the shape the parser yields). `IInv` says where each register lies: offsets and sizes add up, no two
registers overlap and together they cover what was declared (`Layout`); what is allocated is all of it (`Allocation`:
this is why a qreg behind the first use must be refused); references are in range. `LaidOut` and
`StaysInside` follow. `Implements` is the safety part of the refinement of `QASMProgram`: since the
registers tile the allocation, a reference lies in exactly one of them (`NamesQubit`), and each action maps to the one of the
abstract program, or to a stutter once the count has wrapped. All programs, words and names.

**CompilerProofs** (assumptions: those of the instances). Three invariants over the whole call.

* What the hooks hold when a kernel is lowered are the circuits of the kernel the conversion was given and of
  the one it left (`Invariant`), so that `ReturnsTheVerified` needs nothing of the checker.
* `StaysCoupled`: if a rule emits operations on coupled qubits whenever the gate it replaces was on such (`EmitsInPlace`),
  then what the walk has behind it and before it is coupled in every round. `RepositoryStaysCoupled` proves that
  hypothesis of the repository's rules (`RepositoryRules`), from `RulesEmit`.
* `RunsOnTheDevice` puts the components together. `DeviceInv` says, per stage, why the kernel will
  be fit for the device: at first it is the source; while mapping, it is what the pipeline made of that, and the
  invariants of `QubitMappingProofs` hold of the shared variables (its theorems are used at each step through an
  instance whose kernels are `OptimizedKernels`); when the conversion begins, what `MappedOps` hands it are simple
  gates on coupled qubits and measurements (`DeviceOps`), none of them a crz; while it runs, the invariants of
  `BasisConversionProofs` hold of an instance whose gates are `DeviceOps`, a set the rules do not leave. At the
  end the pass has succeeded with native gates on coupled qubits.
  The hypotheses: `RepositoryRules` and a cap above the number of entries (64 and 22).
* `PipelineKept`, which that theorem uses: a preset pipeline introduces no qubits and no operations the mapper does
  not know (`PipelineKeeps`). O1 and O3 leave the kernel as it is; for O2, `O2Stays` applies the lemmas of `GatePassesProofs`
  to its three passes with K the operations on the kernel's qubits, then those the mapper knows.
* `DeclaresAliases`: the aliases are the caller's spelling, once or several times (`AliasesOfCaller`); the first of them
  takes every printed `phased_rx` out of the calls, the others find none (`NoneIsLeft`), and the first declares the spelling, which the others
  find declared (`OneIsDeclared`). `LoweredInv`, that what was returned is the text of the kernel that was lowered, is the invariant.

Only model-checked, and why:

* liveness, that a verdict is reached (in `KeepsContract` and `ImplementsProgram`): fairness and ENABLED are out of the prover's
  reach;
* everything that compares unitaries (`RewritesKeepMeaning`, `MeaningIsKeptElsewhere`, `CompiledKeepsTheProgram`,
  the `...Kept` properties of `ValuePasses`): products of matrices are computed by recursion;
* `ValuePasses`, which has no proofs; its `TypeOK` is checked by the run.

## 5. Not modelled

* Kernels with control flow, calls, measurements between gates or registers of unknown size; several kernels in one
  call of the compiler: the passes treat them one by one, the hooks are modelled with several.
* Floating-point rounding of angles: multiples of pi/4 are exact here, so what a comparison with 2 pi does to an angle that
  is almost one is not covered.
* Where native sets and architectures come from: options, files, QDMI devices. QDMI is a size-then-fill query of an
  external interface; what the device answers is a constant of the models.
* The other patterns of the lowering to QIR, which emit one runtime call for one operation and keep no state, and the passes
  taken over from CUDA-Q (static allocas, array values).
* Measurement expansion (one local rewrite), measurements of several qubits at once in the mapping, Catalyst measurements.
* The exporters, which hand the module to translators of CUDA-Q, the command-line tools, scripts and build files: text
  and registration of passes.
* Splitting OpenQASM text into statements and evaluating expressions: statements are given.
