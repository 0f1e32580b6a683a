---------------------------- MODULE MCGatePasses ----------------------------
(***************************************************************************)
(* GatePasses with the exact meaning of the gates, on two qubits.          *)
(***************************************************************************)
EXTENDS GatePasses

CONSTANTS
  Alphabet,       \* the gates kernels are made of
  MaxLength       \* bound: the length of the kernels given

Quake == INSTANCE GateAlgebra

-----------------------------------------------------------------------------
\* A pass does not change what the kernel computes: its circuit has the same
\* unitary before and after, up to a global phase.
SameMeaning == UNCHANGED kernel \/ Quake!Equivalent(kernel, kernel')
MeaningIsKept == [][SameMeaning]_kernel

\* The same of every step but two: the reversal of a kernel's CNOTs, which leaves
\* each CNOT in front of its reversed form and does nothing else wrong, and a
\* reduction of a pattern that has neighbours the check did not come to and would
\* have rejected.
WithoutCNOTs == Picked(kernel, {i \in DOMAIN kernel : GateTy(kernel[i]) # "CNOT"})

ReversesBesideCNOTs ==
  /\ kernel' = performCNOTReversal(kernel)
  /\ Quake!Equivalent(WithoutCNOTs, kernel')

GoodPair(i, j) ==
  /\ SameQubits(kernel[i], kernel[j], TargetTarget)
  /\ ~Intervening(kernel, i, j)

ReducesUncheckedPairs ==
  \E mode \in ReductionModes :
    /\ kernel' = performReduction(kernel, mode)
    /\ \E pipeline \in ToSet(Reduced(kernel, ReductionInfo(mode).pattern)) :
         \E n \in 1..(Len(pipeline) - 1) : ~GoodPair(pipeline[n], pipeline[n + 1])

\* No other step changes what the kernel computes, whatever passes ran before.
MeaningIsKeptElsewhere ==
  [][SameMeaning \/ ReversesBesideCNOTs \/ ReducesUncheckedPairs]_kernel

-----------------------------------------------------------------------------
G(op, ctl, q, par, adj) ==
  [op |-> op, adj |-> adj, ctl |-> ctl, tgt |-> <<q>>, par |-> par]

On1(op) == {G(op, <<>>, q, <<>>, FALSE) : q \in {0, 1}}
CX01 == G("x", <<0>>, 1, <<>>, FALSE)
CX10 == G("x", <<1>>, 0, <<>>, FALSE)
CZ01 == G("z", <<0>>, 1, <<>>, FALSE)
Rx(q, a) == G("rx", <<>>, q, <<a>>, FALSE)

\* what the passes look for: CNOTs, the gates that commute with them on one
\* side, Paulis around Hadamards, S before Z, angles to drop and to normalise
PassGates ==
  On1("x") \cup On1("z") \cup On1("h")
  \cup {CX01, CX10, CZ01, Rx(0, 3), Rx(1, 11),
        G("rz", <<>>, 0, <<-8>>, TRUE),
        G("y", <<>>, 1, <<>>, FALSE), G("s", <<>>, 0, <<>>, FALSE),
        G("s", <<>>, 1, <<>>, TRUE)}

CliffordGates == On1("x") \cup On1("h") \cup {CX01}

OnlyBoth == {Both}

MCKernels == BoundedSeq(Alphabet, MaxLength)
\* with longer ones, so that other operations come between those of a pattern
LongerKernels == MCKernels \cup BoundedSeq(CliffordGates, MaxLength + 1)

-----------------------------------------------------------------------------
\* An operation built anew for a controlled rotation loses the control: no kernel
\* above has one.
ASSUME NormalizingDropsTheControl ==
  LET crz == G("rz", <<0>>, 1, <<11>>, FALSE)
  IN performArgAngelNormalization(<<crz>>)[1].ctl = <<>>
=============================================================================
