---------------------------- MODULE MQTCircuits ----------------------------
(***************************************************************************)
(* How a kernel is translated to a qc::QuantumComputation of MQT Core, for *)
(* the mapper and for the equivalence checker (Utils/MQTCoreUtils.h and    *)
(* the loop over the operations in createMQTQuantumComputation and         *)
(* performMapping).                                                        *)
(*                                                                         *)
(* An operation is a record of QuakeGates, or a measurement, with op "mz"  *)
(* and its operands in tgt.  The translation of an operation is written as *)
(* a record of the same kind, so that a circuit is a sequence of           *)
(* operations too, and a kernel whose circuit is the kernel itself is      *)
(* translated faithfully.                                                  *)
(***************************************************************************)
EXTENDS QuakeAnalysis, Selection

IsMeasurement(g) == g.op = "mz"

\* an operation that is neither a gate of a known type nor a measurement is
\* left out without a word
InCircuit(g) == GateTy(g) # "UNKNOWN" \/ IsMeasurement(g)

-----------------------------------------------------------------------------
\* loadGates: the types that have a case, and the parameters a case asks for
LoadableTypes ==
  {"H", "CNOT", "CZ", "PauliX", "PauliY", "PauliZ", "S", "SAdj", "T", "TAdj",
   "RX", "RY", "RZ", "SWAP", "PhasedRx"}

ParametersFit(g) ==
  CASE GateTy(g) \in {"RX", "RY", "RZ"} -> Len(g.par) = 1
    [] GateTy(g) = "PhasedRx" -> Len(g.par) = 2
    [] OTHER -> TRUE

\* loadMeasureOpIntoQC, for qubits whose index is known
CanLoadMeasureOp(g) == Len(g.tgt) = 1

\* loadGateOpsIntoQC: is the operation translated at all?
CanLoadOp(g) ==
  IF IsMeasurement(g) THEN CanLoadMeasureOp(g)
  ELSE /\ Len(g.ctl) <= 1
       /\ Len(g.tgt) \in {1, 2}
       /\ GateTy(g) \in LoadableTypes
       /\ ParametersFit(g)

\* Only the CNOT and the CZ are loaded with their control, only S and T with
\* their adjoint, only rotations with their angles; the swap is loaded with its
\* first target for both.
LoadOp(g) ==
  IF IsMeasurement(g) THEN g
  ELSE [g EXCEPT !.ctl = IF GateTy(g) \in {"CNOT", "CZ"} THEN g.ctl ELSE <<>>,
                 !.adj = g.adj /\ GateTy(g) \in {"SAdj", "TAdj"},
                 !.par = IF GateTy(g) \in {"RX", "RY", "RZ", "PhasedRx"} THEN g.par ELSE <<>>,
                 !.tgt = IF GateTy(g) = "SWAP" THEN <<g.tgt[1], g.tgt[1]>>
                         ELSE <<g.tgt[1]>>]

-----------------------------------------------------------------------------
\* all that is translated is translated without an error
CanLoad(ops) == \A i \in DOMAIN ops : InCircuit(ops[i]) => CanLoadOp(ops[i])

\* the operations that are translated, in the order of the kernel
CircuitOf(ops) ==
  LET in == {i \in DOMAIN ops : InCircuit(ops[i])}
  IN [i \in 1 .. Cardinality(in) |-> LoadOp(ops[Nth(in, i)])]

Faithful(ops) == CircuitOf(ops) = ops
=============================================================================
