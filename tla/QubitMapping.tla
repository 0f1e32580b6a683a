---------------------------- MODULE QubitMapping ----------------------------
(***************************************************************************)
(* CommonMappingPass on one kernel: performMapping, createMappedCircuit    *)
(* and controlledDCE (CommonMappingPass.cpp).  The kernel is loaded into a *)
(* circuit, MQT QMAP maps it to the architecture, operations for the       *)
(* mapped circuit are created in front of the kernel's own, the results of *)
(* the old measurements are redirected, and the old operations erased.     *)
(*                                                                         *)
(* The mapper is external.  It is modelled by all it may do: choose any    *)
(* initial layout, insert swaps on coupled qubits, emit gates in any order *)
(* that keeps the gates of one qubit in order, measure at the end, or      *)
(* fail.  The coupling map is symmetric.                                   *)
(***************************************************************************)
EXTENDS MQTCircuits

CONSTANTS
  NumQubits,        \* physical qubits of the architecture
  Coupling,         \* the pairs of its coupling map
  Kernels,          \* records [alloc, ops]: qubits allocated (0 if that is not
                    \* known), operations
  AddMeasurements,  \* the values of the setting add_measurements_to_mapped_circuit
  SharedRefs,       \* operations on a qubit use the same quake.extract_ref
  MaxSwaps          \* bound: the swaps the mapper inserts

Physical == 0 .. NumQubits - 1

ASSUME NumQubitsAssumption == NumQubits \in Nat
ASSUME CouplingAssumption ==
  /\ Coupling \subseteq Physical \X Physical
  /\ \A e \in Coupling : <<e[2], e[1]>> \in Coupling
ASSUME KernelsAssumption ==
  \A k \in Kernels :
    /\ k.alloc \in Nat
    /\ k.ops \in Seq(Operations)
    /\ k.alloc # 0 => \A i \in DOMAIN k.ops : Qubits(k.ops[i]) \subseteq 0 .. k.alloc - 1
ASSUME AddMeasurementsAssumption == AddMeasurements \subseteq BOOLEAN
ASSUME SharedRefsAssumption == SharedRefs \in BOOLEAN
ASSUME MaxSwapsAssumption == MaxSwaps \in Nat

VARIABLES
  kernel,   \* the kernel as the pass was given it
  phase,    \* how far performMapping is, or how it ended
  circuit,  \* qc: the circuit the kernel was loaded into
  emitted,  \* the operations of the circuit the mapper has emitted
  layout,   \* where the qubits of the kernel are now
  start,    \* history: where they were when the mapper began
  mapped,   \* qcMapped
  new,      \* the operations created at the front of the kernel
  old,      \* the operations of the kernel that are still there, by index
  reads     \* by old measurement, the new one its users read now

mapper == <<circuit, emitted, layout, start, mapped>>
body == <<new, old, reads>>
vars == <<kernel, phase, mapper, body>>

ops == kernel.ops
Program == 0 .. kernel.alloc - 1

-----------------------------------------------------------------------------
Init ==
  /\ kernel \in Kernels
  /\ phase = "load"
  /\ circuit = <<>> /\ emitted = {} /\ mapped = <<>>
  /\ layout = <<>> /\ start = <<>>
  /\ new = <<>> /\ old = DOMAIN ops /\ reads = <<>>

\* no register of a known size, or one that is larger than the device
IsSkipped == kernel.alloc = 0 \/ kernel.alloc > NumQubits

Skip ==
  /\ phase = "load" /\ IsSkipped
  /\ phase' = "skipped"
  /\ UNCHANGED <<kernel, mapper, body>>

LoadFails ==
  /\ phase = "load" /\ ~IsSkipped /\ ~CanLoad(ops)
  /\ phase' = "failed"
  /\ UNCHANGED <<kernel, mapper, body>>

Load ==
  /\ phase = "load" /\ ~IsSkipped /\ CanLoad(ops)
  /\ circuit' = CircuitOf(ops)
  /\ layout' \in Injection(Program, Physical)
  /\ start' = layout'
  /\ phase' = "map"
  /\ UNCHANGED <<kernel, emitted, mapped, body>>

-----------------------------------------------------------------------------
SwapOf(p, q) == [op |-> "swap", adj |-> FALSE, ctl |-> <<>>, tgt |-> <<p, q>>, par |-> <<>>]

Coupled(g) == \A p, q \in Qubits(g) : p = q \/ <<p, q>> \in Coupling

Placed(g) ==
  [g EXCEPT !.ctl = [i \in DOMAIN g.ctl |-> layout[g.ctl[i]]],
            !.tgt = [i \in DOMAIN g.tgt |-> layout[g.tgt[i]]]]

Gates == {i \in DOMAIN circuit : ~IsMeasurement(circuit[i])}

Ready(i) ==
  \A j \in Gates \ emitted :
    j < i => Qubits(circuit[j]) \cap Qubits(circuit[i]) = {}

MapSwap ==
  /\ phase = "map"
  /\ Len(mapped) - Cardinality(emitted) < MaxSwaps
  /\ \E e \in Coupling :
       /\ layout' = [a \in Program |->
            IF layout[a] = e[1] THEN e[2]
            ELSE IF layout[a] = e[2] THEN e[1] ELSE layout[a]]
       /\ mapped' = Append(mapped, SwapOf(e[1], e[2]))
  /\ UNCHANGED <<kernel, phase, circuit, emitted, start, body>>

MapGate ==
  /\ phase = "map"
  /\ \E i \in Gates \ emitted :
       /\ Ready(i)
       /\ Coupled(Placed(circuit[i]))
       /\ emitted' = emitted \cup {i}
       /\ mapped' = Append(mapped, Placed(circuit[i]))
  /\ UNCHANGED <<kernel, phase, circuit, layout, start, body>>

Mz(q) == [op |-> "mz", adj |-> FALSE, ctl |-> <<>>, tgt |-> <<q>>, par |-> <<>>]

Held == {layout[a] : a \in Program}

HeldAndMeasured ==
  {q \in Held : \E i \in DOMAIN circuit \ Gates : q = layout[circuit[i].tgt[1]]}

\* the qubits that are measured at the end, in the order of the device: all the
\* kernel has or those it measures, or none if so set
MeasuredSets ==
  UNION {IF add THEN {Held, HeldAndMeasured} ELSE {{}} : add \in AddMeasurements}

FinalMeasurements(qubits) == [i \in 1 .. Cardinality(qubits) |-> Mz(Nth(qubits, i))]

\* an empty mapped circuit is an error
MapEnds ==
  /\ phase = "map" /\ emitted = Gates
  /\ \E qubits \in MeasuredSets : mapped' = mapped \o FinalMeasurements(qubits)
  /\ phase' = IF mapped' = <<>> THEN "failed" ELSE "rebuild"
  /\ UNCHANGED <<kernel, circuit, emitted, layout, start, body>>

MapFails ==
  /\ phase = "map"
  /\ phase' = "failed"
  /\ UNCHANGED <<kernel, mapper, body>>

-----------------------------------------------------------------------------
\* createMappedCircuit: the gates it has a case for.  (A controlled Y gets a
\* type that has no name; r, the phased rx, has no case.)
RebuildableTypes ==
  {"PauliX", "CNOT", "PauliY", "PauliZ", "CZ", "H", "S", "T", "SWAP", "RX", "RY",
   "RZ", "SAdj", "TAdj"}

CanRebuild(g) == IsMeasurement(g) \/ GateTy(g) \in RebuildableTypes

\* Mutant: the adjoint types get the names of the others.
RebuiltPlain(g) ==
  IF IsMeasurement(g) THEN g
  ELSE createQuakeGate(CASE GateTy(g) = "SAdj" -> "S" [] GateTy(g) = "TAdj" -> "T"
                         [] OTHER -> GateTy(g), g.ctl, g.tgt, g.par, FALSE)

Rebuilt(g) ==
  IF IsMeasurement(g) THEN g
  ELSE createQuakeGate(GateTy(g), g.ctl, g.tgt, g.par, FALSE)

Unsupported == {i \in DOMAIN mapped : ~CanRebuild(mapped[i])}

\* how many operations are created: all, or those before one without a case
Created == IF Unsupported = {} THEN Len(mapped) ELSE Min(Unsupported) - 1

Rebuild ==
  /\ phase = "rebuild"
  /\ new' = [i \in 1 .. Created |-> Rebuilt(mapped[i])]
  /\ phase' = IF Unsupported = {} THEN "resolve" ELSE "failed"
  /\ UNCHANGED <<kernel, mapper, old, reads>>

OldMeasurements == {i \in old : IsMeasurement(ops[i])}
NewMeasurements == {i \in DOMAIN new : IsMeasurement(new[i])}

\* Mutant: the index counts all new operations.
FirstOp == 1

NewMeasureOps0 == Min(NewMeasurements)

\* every old measurement is resolved against the first new one
Resolve ==
  /\ phase = "resolve"
  /\ OldMeasurements = {} \/ NewMeasurements # {}
  /\ reads' = [i \in OldMeasurements |-> NewMeasureOps0]
  /\ old' = old \ OldMeasurements
  /\ phase' = "erase"
  /\ UNCHANGED <<kernel, mapper, new>>

\* the first element of an empty vector is used
ResolveAborts ==
  /\ phase = "resolve"
  /\ OldMeasurements # {} /\ NewMeasurements = {}
  /\ phase' = "aborted"
  /\ UNCHANGED <<kernel, mapper, body>>

-----------------------------------------------------------------------------
\* Mutant: an operation is inserted where its type is not known.
NotLoaded == {i \in old : GateTy(ops[i]) = "UNKNOWN"}

\* OpsToErase: the gates that were loaded.
ToErase == {i \in old : GateTy(ops[i]) # "UNKNOWN"}

\* controlledDCE also erases the references to qubits the erased gates use; it
\* does not look for other operations that use them.
BreaksReferences ==
  /\ SharedRefs
  /\ \E i \in ToErase, j \in old \ ToErase : Qubits(ops[i]) \cap Qubits(ops[j]) # {}

\* What is left of the kernel's own operations comes after the new ones, and its
\* qubits have the same numbers in the new register as in the old one.
Erase ==
  /\ phase = "erase" /\ ~BreaksReferences
  /\ old' = old \ ToErase
  /\ phase' = "done"
  /\ UNCHANGED <<kernel, mapper, new, reads>>

EraseAborts ==
  /\ phase = "erase" /\ BreaksReferences
  /\ phase' = "aborted"
  /\ UNCHANGED <<kernel, mapper, body>>

Next ==
  \/ Skip \/ LoadFails \/ Load
  \/ MapSwap \/ MapGate \/ MapEnds \/ MapFails
  \/ Rebuild \/ Resolve \/ ResolveAborts \/ Erase \/ EraseAborts

Spec == Init /\ [][Next]_vars
-----------------------------------------------------------------------------
Phases == {"load", "map", "rebuild", "resolve", "erase", "done", "skipped", "failed", "aborted"}

\* Every variable has its type: qubits are on different physical qubits, and
\* what an old measurement's users read is a measurement.
TypeOK ==
  /\ kernel \in Kernels
  /\ phase \in Phases
  /\ emitted \subseteq DOMAIN circuit
  /\ phase \notin {"load", "skipped", "failed"} => layout \in Injection(Program, Physical)
  /\ old \subseteq DOMAIN ops
  /\ \A i \in DOMAIN reads : reads[i] \in NewMeasurements

\* After the pass every gate of the kernel, created by the pass or left by it,
\* acts on one physical qubit or on coupled ones.
RespectsConnectivity ==
  phase = "done" =>
    /\ \A i \in DOMAIN new : Coupled(new[i])
    /\ \A i \in old : Coupled(ops[i])

\* So it is if every operation of the kernel was loaded.
ConnectsWhatIsLoaded ==
  (\A i \in DOMAIN ops : InCircuit(ops[i])) => RespectsConnectivity

-----------------------------------------------------------------------------
\* The gates of a mapped kernel in the kernel's own qubits: a swap moves the
\* qubits and is no gate, another operation acts on the qubits that are there.
Nobody == -1

Origin ==
  [p \in Physical |-> IF \E a \in Program : start[a] = p
                      THEN CHOOSE a \in Program : start[a] = p ELSE Nobody]

Moved(where, g) ==
  IF g.op # "swap" THEN where
  ELSE [r \in Physical |-> IF r = g.tgt[1] THEN where[g.tgt[2]]
                           ELSE IF r = g.tgt[2] THEN where[g.tgt[1]] ELSE where[r]]

\* the qubit of the kernel that each physical one holds after s
HeldAfter(s) == FoldLeft(Moved, Origin, s)

Unplaced(g, where) ==
  [g EXCEPT !.ctl = [i \in DOMAIN g.ctl |-> where[g.ctl[i]]],
            !.tgt = [i \in DOMAIN g.tgt |-> where[g.tgt[i]]]]

Unrouted(s) == [i \in DOMAIN s |-> Unplaced(s[i], HeldAfter(SubSeq(s, 1, i - 1)))]

GatesOn(a, s) ==
  Picked(s, {i \in DOMAIN s : s[i].op \notin {"swap", "mz"} /\ a \in Qubits(s[i])})

\* Undoing the swaps gives back the kernel: on every qubit the same gates in the
\* same order, and nothing else is left, if the kernel is translated faithfully
\* (a swap is not, unless its targets are the same).
KeepsTheProgram ==
  phase = "done" /\ Faithful(ops) =>
    /\ \A a \in Program : GatesOn(a, Unrouted(new)) = GatesOn(a, ops)
    /\ old = {}
=============================================================================
