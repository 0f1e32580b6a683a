--------------------------- MODULE MCQubitMapping ---------------------------
(***************************************************************************)
(* QubitMapping on devices of three qubits.                                *)
(***************************************************************************)
EXTENDS QubitMapping

CONSTANTS
  Alphabet,   \* the labels of the operations kernels are made of
  MaxLength   \* bound: the length of the kernels

G(op, ctl, tgt, par, adj) == [op |-> op, adj |-> adj, ctl |-> ctl, tgt |-> tgt, par |-> par]

Operation(label) ==
  CASE label = "h 0"     -> G("h", <<>>, <<0>>, <<>>, FALSE)
    [] label = "sdg 1"   -> G("s", <<>>, <<1>>, <<>>, TRUE)
    [] label = "tdg 1"   -> G("t", <<>>, <<1>>, <<>>, TRUE)
    [] label = "cx 0 1"  -> G("x", <<0>>, <<1>>, <<>>, FALSE)
    [] label = "cx 0 2"  -> G("x", <<0>>, <<2>>, <<>>, FALSE)
    [] label = "cz 2 1"  -> G("z", <<2>>, <<1>>, <<>>, FALSE)
    [] label = "cy 0 2"  -> G("y", <<0>>, <<2>>, <<>>, FALSE)
    [] label = "ch 0 2"  -> G("h", <<0>>, <<2>>, <<>>, FALSE)
    [] label = "prx 0"   -> G("phased_rx", <<>>, <<0>>, <<1, 2>>, FALSE)
    [] label = "mz 0"    -> G("mz", <<>>, <<0>>, <<>>, FALSE)
    [] label = "mz 2"    -> G("mz", <<>>, <<2>>, <<>>, FALSE)

Circuits == SeqOf({Operation(l) : l \in Alphabet}, MaxLength)

\* kernels on three qubits, and kernels the pass does not get to map
SomeKernels ==
  {[alloc |-> 3, ops |-> c] : c \in Circuits}
  \cup {[alloc |-> 3, ops |-> <<Operation("cx 0 2"), Operation(l)>>] : l \in {"ch 0 2", "prx 0", "tdg 1"}}
  \cup {[alloc |-> a, ops |-> <<Operation("h 0")>>] : a \in {0, 4}}

Line == {<<0, 1>>, <<1, 0>>, <<1, 2>>, <<2, 1>>}

=============================================================================
