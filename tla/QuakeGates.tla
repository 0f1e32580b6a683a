----------------------------- MODULE QuakeGates -----------------------------
(***************************************************************************)
(* How the passes build a Quake operation: createQuakeGate, reached        *)
(* through createNewGate with a gate's name.                               *)
(*                                                                         *)
(* An operation is a record [op, adj, ctl, tgt, par]: the Quake operation, *)
(* its adjoint flag, its control and target qubits, its angles, which are  *)
(* constants in units of pi/4.                                             *)
(***************************************************************************)
EXTENDS Integers, Sequences

QuakeOps ==
  {"h", "x", "y", "z", "s", "t", "r1", "rx", "ry", "rz", "u2", "u3", "swap",
   "phased_rx", "mz"}

Operations ==
  [op : QuakeOps, adj : BOOLEAN, ctl : Seq(Nat), tgt : Seq(Nat), par : Seq(Int)]

(***************************************************************************)
(* What createQuakeGate makes of a name: the operation, the adjoint flag   *)
(* (the rotations take the caller's), and whether the controls and         *)
(* parameters it is handed are used.  The rotations are built with an      *)
(* empty control range.                                                    *)
(***************************************************************************)
Rotation == {"RX", "RY", "RZ"}

Builder(name) ==
  CASE name = "RX"     -> [op |-> "rx", adj |-> FALSE, ctl |-> FALSE, par |-> TRUE]
    [] name = "RY"     -> [op |-> "ry", adj |-> FALSE, ctl |-> FALSE, par |-> TRUE]
    [] name = "RZ"     -> [op |-> "rz", adj |-> FALSE, ctl |-> FALSE, par |-> TRUE]
    [] name = "S"      -> [op |-> "s",  adj |-> FALSE, ctl |-> FALSE, par |-> FALSE]
    [] name = "SAdj"   -> [op |-> "s",  adj |-> TRUE,  ctl |-> FALSE, par |-> FALSE]
    [] name = "T"      -> [op |-> "t",  adj |-> FALSE, ctl |-> TRUE,  par |-> TRUE]
    [] name = "TAdj"   -> [op |-> "t",  adj |-> TRUE,  ctl |-> TRUE,  par |-> TRUE]
    [] name = "PauliX" -> [op |-> "x",  adj |-> FALSE, ctl |-> FALSE, par |-> FALSE]
    [] name = "PauliY" -> [op |-> "y",  adj |-> FALSE, ctl |-> FALSE, par |-> FALSE]
    [] name = "PauliZ" -> [op |-> "z",  adj |-> FALSE, ctl |-> FALSE, par |-> FALSE]
    [] name = "H"      -> [op |-> "h",  adj |-> FALSE, ctl |-> FALSE, par |-> FALSE]
    [] name \in {"CX", "CNOT"} ->
         [op |-> "x",  adj |-> FALSE, ctl |-> TRUE,  par |-> FALSE]
    [] name = "CY"     -> [op |-> "y",  adj |-> FALSE, ctl |-> TRUE,  par |-> FALSE]
    [] name = "CZ"     -> [op |-> "z",  adj |-> FALSE, ctl |-> TRUE,  par |-> FALSE]
    [] name = "SWAP"   -> [op |-> "swap", adj |-> FALSE, ctl |-> TRUE, par |-> TRUE]
    [] name = "U3"     -> [op |-> "u3", adj |-> FALSE, ctl |-> TRUE,  par |-> TRUE]
    [] name = "PhasedRx" ->
         [op |-> "phased_rx", adj |-> FALSE, ctl |-> TRUE, par |-> TRUE]

createQuakeGate(name, ctl, tgt, par, isAdj) ==
  LET b == Builder(name)
  IN [op |-> b.op, adj |-> IF name \in Rotation THEN isAdj ELSE b.adj,
      ctl |-> IF b.ctl THEN ctl ELSE <<>>,
      tgt |-> tgt, par |-> IF b.par THEN par ELSE <<>>]
=============================================================================
