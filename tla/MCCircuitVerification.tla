----------------------- MODULE MCCircuitVerification -----------------------
(***************************************************************************)
(* CircuitVerification with the exact meaning of the gates, on two qubits. *)
(***************************************************************************)
EXTENDS CircuitVerification, TLC

CONSTANT KernelLabels  \* the kernels of this run, by label

Quake == INSTANCE GateAlgebra

\* Gates of the circuit.  The swap of a qubit with itself does nothing.
IsGate(g) == ~IsMeasurement(g) /\ (g.op = "swap" => g.tgt[1] # g.tgt[2])

G(op, ctl, q, par, adj) ==
  [op |-> op, adj |-> adj, ctl |-> ctl, tgt |-> <<q>>, par |-> par]
One(op, q) == G(op, <<>>, q, <<>>, FALSE)
K(alloc, ops) == [alloc |-> alloc, ops |-> ops]

Kernel(label) ==
  CASE label = "flip"      -> K("static", <<One("x", 0)>>)
    [] label = "flip HZH"  -> K("static", <<One("h", 0), One("z", 0), One("h", 0)>>)
    [] label = "flip flip" -> K("static", <<One("x", 0), One("x", 0)>>)
    [] label = "phase"     -> K("static", <<One("z", 0), One("mz", 0)>>)
    [] label = "empty"     -> K("static", <<>>)
    [] label = "cy"        -> K("static", <<G("y", <<0>>, 1, <<>>, FALSE)>>)
    [] label = "u3"        -> K("static", <<G("u3", <<>>, 1, <<4, 0, 4>>, FALSE)>>)
    [] label = "dynamic"   -> K("dynamic", <<One("y", 0)>>)
    [] label = "gone"      -> K("none", <<>>)

MCKernels == {Kernel(label) : label \in KernelLabels}

\* Two circuits do the same: the same unitary up to a global phase, the same
\* measurements.  (A set, so that TLC computes it once.)
Circuits == UNION {{k.ops, CircuitOf(k.ops)} : k \in MCKernels}

SameCircuits ==
  {p \in Circuits \X Circuits :
     /\ SelectSeq(p[1], IsMeasurement) = SelectSeq(p[2], IsMeasurement)
     /\ Quake!Equivalent(SelectSeq(p[1], IsGate), SelectSeq(p[2], IsGate))}

\* (The LET keeps TLC's coverage statistics from unfolding the set at each use.)
SameCircuit(a, b) == LET same == SameCircuits IN <<a, b>> \in same

Symmetry == Permutations(Names)
=============================================================================
