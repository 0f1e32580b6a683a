----------------------------- MODULE PassLogic -----------------------------
(***************************************************************************)
(* What the optimization passes have in common, whatever the dialect:      *)
(* which gates each mode looks for, how two operations are compared, and   *)
(* how the block of a kernel is edited                                     *)
(* (include/Passes/Transforms/PassLogic.h, include/Utils/TransformUtils.h  *)
(* and the tables of the passes in lib/Passes/Transforms).                 *)
(***************************************************************************)
EXTENDS Selection, SequencesExt

(***************************************************************************)
(* Do two operations agree on the qubits a comparison key names?  A key is *)
(* the pair of roles to compare; any other value compares both roles.      *)
(***************************************************************************)
Both == <<"both">>
TargetTarget  == <<"target", "target">>
ControlTarget == <<"control", "target">>
TargetControl == <<"target", "control">>

EquivalenceCheck(a, b) ==
  /\ Len(a) = Len(b)
  /\ \A i \in DOMAIN a : \E j \in DOMAIN b : a[i] = b[j]

Agree(ctl1, tgt1, ctl2, tgt2, key) ==
  CASE key = ControlTarget -> EquivalenceCheck(ctl1, tgt2)
    [] key = TargetControl -> EquivalenceCheck(tgt1, ctl2)
    [] key = TargetTarget  -> EquivalenceCheck(tgt1, tgt2)
    [] OTHER -> EquivalenceCheck(ctl1, ctl2) /\ EquivalenceCheck(tgt1, tgt2)

-----------------------------------------------------------------------------
(***************************************************************************)
(* A kernel while a pass edits it: ops names every operation by a number,  *)
(* block is the order they stand in.                                       *)
(***************************************************************************)
PlaceOf(b, o) == SelectInSeq(b.block, LAMBDA x : x = o)

Erase(b, os) == [b EXCEPT !.block = Picked(@, {i \in DOMAIN @ : @[i] \notin os})]

MoveAfter(b, o, other) ==
  LET rest == Erase(b, {o})
  IN [b EXCEPT !.block = InsertAt(rest.block, PlaceOf(rest, other) + 1, o)]

\* Mutant: in front of o.
InsertBefore(b, o, gs) ==
  LET new == [i \in DOMAIN gs |-> Len(b.ops) + i]
      p == PlaceOf(b, o) - 1
  IN [b EXCEPT !.block = SubSeq(@, 1, p) \o new \o SubSeq(@, p + 1, Len(@)),
               !.ops = @ \o gs]

\* the operations gs, in this order, right after o
InsertAfter(b, o, gs) ==
  LET new == [i \in DOMAIN gs |-> Len(b.ops) + i]
      p == PlaceOf(b, o)
  IN [b EXCEPT !.block = SubSeq(@, 1, p) \o new \o SubSeq(@, p + 1, Len(@)),
               !.ops = @ \o gs]

-----------------------------------------------------------------------------
(***************************************************************************)
(* What the passes look for.                                               *)
(***************************************************************************)
GatesToCancel == {"CNOT", "PauliX", "PauliZ", "PauliY", "H", "Hadamard"}

\* 2 pi, in the unit of the angles
TwoPi == 8
Rotations == {"RX", "RY", "RZ"}

PassInfo(first, second, key) == [first |-> first, second |-> second, key |-> key]

CommuteModes == {"CX-RX", "RX-CX", "CX-X", "X-CX", "CX-Z", "Z-CX"}
CommuteInfo(mode) ==
  CASE mode = "CX-RX" -> PassInfo({"CNOT"}, {"RX"}, TargetTarget)
    [] mode = "RX-CX" -> PassInfo({"RX"}, {"CNOT"}, TargetTarget)
    [] mode = "CX-X"  -> PassInfo({"CNOT"}, {"PauliX"}, TargetTarget)
    [] mode = "X-CX"  -> PassInfo({"PauliX"}, {"CNOT"}, TargetTarget)
    [] mode = "CX-Z"  -> PassInfo({"CNOT"}, {"PauliZ"}, ControlTarget)
    [] mode = "Z-CX"  -> PassInfo({"PauliZ"}, {"CNOT"}, TargetControl)

Paulis == {"PauliX", "PauliY", "PauliZ"}
SwitchModes == {"XYZHtoHXYZ", "HXYZtoXYZH"}
SwitchInfo(mode) ==
  IF mode = "XYZHtoHXYZ" THEN PassInfo(Paulis, {"H"}, TargetTarget)
                         ELSE PassInfo({"H"}, Paulis, TargetTarget)

\* Mutant: an H passes every Pauli and leaves it what it is.
PauliStays(ty) == ty

ReplacementMap(ty) ==
  CASE ty = "PauliX" -> "PauliZ" [] ty = "PauliY" -> "PauliY" [] ty = "PauliZ" -> "PauliX"

Reductions == {"HXHToZ", "HZHToX", "SAdjZToS", "SZToSAdj"}
ReductionInfo(mode) ==
  CASE mode = "HXHToZ"   -> [pattern |-> <<"H", "PauliX", "H">>, new |-> "PauliZ"]
    [] mode = "HZHToX"   -> [pattern |-> <<"H", "PauliZ", "H">>, new |-> "PauliX"]
    [] mode = "SAdjZToS" -> [pattern |-> <<"SAdj", "PauliZ">>, new |-> "S"]
    [] mode = "SZToSAdj" -> [pattern |-> <<"S", "PauliZ">>, new |-> "SAdj"]
=============================================================================
