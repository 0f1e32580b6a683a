---------------------------- MODULE ValueKernels ----------------------------
(***************************************************************************)
(* A Catalyst kernel: gates that take qubits as values and return new      *)
(* ones, between the operations that take a qubit out of the register and  *)
(* put it back; and what the analysis (CatalystExtractor.h) tells every    *)
(* pass of an operation.                                                   *)
(*                                                                         *)
(* A kernel is the sequence of its operations in block order, each a       *)
(* record [ty, adj, par, in, idx]: its name, the adjoint flag, its angles, *)
(* the values it takes and, for "extract" and "insert", the index in the   *)
(* register.  A value <<o, i>> is the i-th qubit the operation in place o  *)
(* returns.                                                                *)
(***************************************************************************)
EXTENDS PassLogic

RegisterOps == {"extract", "insert"}
IsGate(g) == g.ty \notin RegisterOps

\* how many qubits an operation returns
NumResults(g) == IF g.ty = "extract" THEN 1 ELSE IF g.ty = "insert" THEN 0 ELSE Len(g.in)

-----------------------------------------------------------------------------
\* The type of a gate.  No type has the name "CX" or "CY".
GateTy(g) ==
  CASE g.ty \in RegisterOps -> "UNKNOWN"
    [] g.ty = "S" /\ g.adj -> "SAdj"
    [] g.ty \in {"H", "Hadamard"} -> IF Len(g.in) = 2 THEN "CH" ELSE "H"
    [] g.ty \in {"CX", "CY"} -> "UNKNOWN"
    [] OTHER -> g.ty

\* The roles of a gate's qubits, by its name.
ControlledNames == {"CNOT", "CX", "CY", "CZ", "CH", "U3"}
SingleNames == {"PauliX", "PauliY", "PauliZ", "H", "Hadamard", "S", "SAdj", "T", "TAdj",
                "RX", "RY", "RZ", "PhasedRx"}
OperandRoles(name) ==
  CASE name \in ControlledNames -> <<"control", "target">>
    [] name \in SingleNames -> <<"target">>
    [] name = "SWAP" -> <<"target", "target">>
    [] OTHER -> <<>>

Roles(g) == OperandRoles(IF GateTy(g) = "CH" THEN "CH" ELSE g.ty)

\* a module with a gate whose roles are not known is not analysed at all
IsAnalysable(k) ==
  \A o \in DOMAIN k : IsGate(k[o]) =>
    Roles(k[o]) # <<>> /\ Len(Roles(k[o])) = Len(k[o].in)

\* The places of an operation's qubits in a role; an extract or an insert has
\* none, and a measurement would have none that matters.
Places(g, role) ==
  IF ~IsGate(g) THEN <<>>
  ELSE Listed({i \in DOMAIN g.in : Roles(g)[i] = role})

In(k, o, role)  == LET p == Places(k[o], role) IN [i \in DOMAIN p |-> k[o].in[p[i]]]
Out(k, o, role) == LET p == Places(k[o], role) IN [i \in DOMAIN p |-> <<o, p[i]>>]

-----------------------------------------------------------------------------
(***************************************************************************)
(* Operations in reach of one another.  The id of a qubit is the value     *)
(* the operation takes it as.                                              *)
(***************************************************************************)
SameQubits(k, f, g, key) ==
  Agree(In(k, f, "control"), In(k, f, "target"), In(k, g, "control"), In(k, g, "target"), key)

SameQubitValues(k, f, g, key) ==
  Agree(Out(k, f, "control"), Out(k, f, "target"), In(k, g, "control"), In(k, g, "target"), key)

\* touchesAny: g takes a value f takes, or the result of a gate that takes one
TouchesIds(k, g, f) ==
  \E v \in ToSet(k[g].in), u \in ToSet(k[f].in) :
    v = u \/ (IsGate(k[v[1]]) /\ u \in ToSet(k[v[1]].in))

TouchesOut(k, g, f) == ToSet(k[g].in) \cap ToSet(Out(k, f, "target")) # {}

TouchesAny(k, g, f) == TouchesIds(k, g, f) \/ TouchesOut(k, g, f)

-----------------------------------------------------------------------------
(***************************************************************************)
(* createCatalystGate.  With a control it takes the first control and the  *)
(* first target, and no angles.                                            *)
(***************************************************************************)
createCatalystGate(name, ctl, tgt, par, isAdj) ==
  IF ctl = <<>>
  THEN [ty |-> IF name = "SAdj" THEN "S" ELSE IF name = "TAdj" THEN "T" ELSE name,
        adj |-> isAdj \/ name \in {"SAdj", "TAdj"}, par |-> par, in |-> tgt, idx |-> 0]
  ELSE [ty |-> name, adj |-> isAdj, par |-> <<>>, in |-> <<ctl[1], tgt[1]>>, idx |-> 0]

-----------------------------------------------------------------------------
\* What the verifier of MLIR asks: an operand is a qubit, and is defined by an
\* operation that stands before the one that takes it.
Parameter == <<0, 1>>        \* an angle where a qubit should be

Verifies(k) ==
  \A o \in DOMAIN k : \A v \in ToSet(k[o].in) :
    v[1] \in 1..(o - 1) /\ v[2] \in 1..NumResults(k[v[1]])

Uses(k, v) == {o \in DOMAIN k : v \in ToSet(k[o].in)}

\* every qubit is taken by at most one operation, and once
IsLinear(k) ==
  /\ \A o \in DOMAIN k : \A i \in 1..NumResults(k[o]) : Cardinality(Uses(k, <<o, i>>)) <= 1
  /\ \A o \in DOMAIN k : IsInjective(k[o].in)

\* The operations whose results reach the register: MLIR's canonicalizer drops
\* the gates that are not among them.
LiveOps(k) ==
  FoldLeft(LAMBDA live, o :
             IF k[o].ty = "insert" \/ \E u \in live : o \in {v[1] : v \in ToSet(k[u].in)}
             THEN live \cup {o} ELSE live,
           {}, Reverse([o \in DOMAIN k |-> o]))
=============================================================================
