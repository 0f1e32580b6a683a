--------------------------- MODULE QuakeAnalysis ---------------------------
(***************************************************************************)
(* What the analysis of a Quake module (QuakeExtractor.h, DialectUtils.h)  *)
(* tells every pass of an operation.                                       *)
(***************************************************************************)
EXTENDS QuakeGates, SequencesExt

\* The name of a gate: it ignores the number of controls beyond none and some,
\* and the rotations ignore them altogether.
isQuakeQuantumGate(g) ==
  CASE g.op = "x"  -> IF g.ctl = <<>> THEN "PauliX" ELSE "CNOT"
    [] g.op = "y"  -> IF g.ctl = <<>> THEN "PauliY" ELSE "CY"
    [] g.op = "z"  -> IF g.ctl = <<>> THEN "PauliZ" ELSE "CZ"
    [] g.op = "h"  -> IF g.ctl = <<>> THEN "H" ELSE "CH"
    [] g.op = "s"  -> IF g.adj THEN "SAdj" ELSE "S"
    [] g.op = "t"  -> IF g.adj THEN "TAdj" ELSE "T"
    [] g.op = "rx" -> "RX"
    [] g.op = "ry" -> "RY"
    [] g.op = "rz" -> "RZ"
    [] g.op = "u3" -> "U3"
    [] g.op = "swap" -> "SWAP"
    [] g.op = "phased_rx" -> "PhasedRx"
    [] OTHER -> ""

\* The type of a name: no type has the name "CY".
parseGateTy(name) == IF name \in {"", "CY"} THEN "UNKNOWN" ELSE name

GateTy(g) == parseGateTy(isQuakeQuantumGate(g))

\* the origins of the operands, by register and index
Qubits(g) == ToSet(g.ctl) \cup ToSet(g.tgt)
=============================================================================
