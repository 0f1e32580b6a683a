------------------------- MODULE DecompositionRules -------------------------
(***************************************************************************)
(* The decomposition table of BasisConversionPass and what its rewrite     *)
(* functions put into the kernel: every function of                        *)
(* include/Passes/CodeGen/BasisConversionPatterns.h is an operator of the  *)
(* same name that returns the operations standing where the rewritten one  *)
(* stood, in program order.                                                *)
(*                                                                         *)
(* A Quake operation is a record [op, adj, ctl, tgt, par]: the operation,  *)
(* its adjoint flag, its control and target qubits, its angles.  Angles    *)
(* are constants in units of pi/4.  Foldable angle expressions (negf,      *)
(* divf) are written as the value the pass folds them to before the next   *)
(* round reads them.                                                       *)
(***************************************************************************)
EXTENDS QuakeGates

HalfPi == 2
Pi == 4
Half(k) == k \div 2       \* exact: halved angles are even multiples here

NoMnemonic == "none"      \* std::nullopt

-----------------------------------------------------------------------------
(***************************************************************************)
(* classifyOp: the mnemonic of an operation, NoMnemonic for a shape it    *)
(* does not recognise.  A row gives the operation, the adjoint flags, and  *)
(* the numbers of controls, targets and (where the code looks) parameters. *)
(***************************************************************************)
Either == {TRUE, FALSE}
Plain == {FALSE}
Adjoint == {TRUE}

Shape(mn, op, adj, nctl, ntgt, npar) ==
  [mn |-> mn, op |-> op, adj |-> adj, nctl |-> nctl, ntgt |-> ntgt, npar |-> npar]

Shapes == {
  Shape("h",   "h",  Either,   0, 1, 0..3),
  Shape("x",   "x",  Either,   0, 1, 0..3), Shape("cx", "x", Either,   1, 1, 0..3),
  Shape("y",   "y",  Plain, 0, 1, 0..3), Shape("cy", "y", Plain, 1, 1, 0..3),
  Shape("z",   "z",  Either,   0, 1, 0..3), Shape("cz", "z", Either,   1, 1, 0..3),
  Shape("s",   "s",  Plain, 0, 1, 0..3), Shape("sdg", "s", Adjoint, 0, 1, 0..3),
  Shape("t",   "t",  Plain, 0, 1, 0..3), Shape("tdg", "t", Adjoint, 0, 1, 0..3),
  Shape("r1",  "r1", Plain, 0, 1, 1..1),
  Shape("rx",  "rx", Plain, 0, 1, 1..1),  Shape("crx", "rx", Plain, 1, 1, 1..1),
  Shape("ry",  "ry", Plain, 0, 1, 1..1),  Shape("cry", "ry", Plain, 1, 1, 1..1),
  Shape("rz",  "rz", Plain, 0, 1, 1..1),  Shape("crz", "rz", Plain, 1, 1, 1..1),
  Shape("u2",  "u2", Either,   0, 1, 2..2),  Shape("u3", "u3", Either, 0, 1, 3..3),
  Shape("swap", "swap", Either, 0, 2, 0..3),
  Shape("prx", "phased_rx", Plain, 0, 1, 2..2) }

HasShape(g, s) ==
  /\ g.op = s.op
  /\ g.adj \in s.adj
  /\ Len(g.ctl) = s.nctl
  /\ Len(g.tgt) = s.ntgt
  /\ Len(g.par) \in s.npar

\* an uncontrolled rx by the constant pi/2 is "sx", by any other angle "rx"
ClassifyOp(g) ==
  LET fits == {s \in Shapes : HasShape(g, s)}
  IN IF fits = {} THEN NoMnemonic
     ELSE LET s == CHOOSE s \in fits : TRUE
          IN IF s.mn = "rx" /\ g.par = <<HalfPi>> THEN "sx" ELSE s.mn

-----------------------------------------------------------------------------
\* createNewGate on the target of g, without and with the control of g
On(name, g, par)     == createQuakeGate(name, <<>>, <<g.tgt[1]>>, par, FALSE)
OnCtl(name, g, par)  == createQuakeGate(name, <<g.ctl[1]>>, <<g.tgt[1]>>, par, FALSE)
CX(c, t)             == createQuakeGate("CX", <<c>>, <<t>>, <<>>, FALSE)
Prx(g, theta, phi)   == On("PhasedRx", g, <<theta, phi>>)

\* A rewriter that was given no insertion point creates its operations in no
\* block: the kernel receives none of them.
Detached(ops) == <<>>

-----------------------------------------------------------------------------
(***************************************************************************)
(* The rewrite functions.                                                  *)
(***************************************************************************)
rewriteHToRzRxRz(g) ==
  <<On("RZ", g, <<HalfPi>>), On("RX", g, <<HalfPi>>), On("RZ", g, <<HalfPi>>)>>
rewriteHToU3(g) == <<On("U3", g, <<HalfPi, 0, Pi>>)>>
rewriteHToPhasedRx(g) == <<Prx(g, HalfPi, HalfPi), Prx(g, Pi, 0)>>
rewriteXToHZH(g) == <<On("H", g, <<>>), On("PauliZ", g, <<>>), On("H", g, <<>>)>>
\* Mutant: a rotation about the wrong axis.
rewriteXToRy(g) == <<On("RY", g, <<Pi>>)>>
rewriteXToRx(g) == <<On("RX", g, <<Pi>>)>>
rewriteXToPhasedRx(g) == <<Prx(g, Pi, 0)>>
rewriteYToRy(g) == <<On("RY", g, <<-Pi>>)>>
rewriteYToPhasedRx(g) == Detached(<<Prx(g, HalfPi, -HalfPi)>>)
rewriteZToHXH(g) == <<On("H", g, <<>>), On("PauliX", g, <<>>), On("H", g, <<>>)>>
rewriteZToRz(g) == <<On("RZ", g, <<Pi>>)>>
rewriteSToRz(g) == <<On("RZ", g, <<HalfPi>>)>>
rewriteSToSdgSdgSdg(g) ==
  <<On("SAdj", g, <<>>), On("SAdj", g, <<>>), On("SAdj", g, <<>>)>>
rewriteSToTT(g) == <<On("T", g, <<>>), On("T", g, <<>>)>>
rewriteSToPhasedRx(g) ==
  Detached(<<Prx(g, HalfPi, 0), Prx(g, IF g.adj THEN HalfPi ELSE -HalfPi, HalfPi),
             Prx(g, -HalfPi, 0)>>)
rewriteSdgToRz(g) == <<On("RZ", g, <<-HalfPi>>)>>
rewriteSdgToSSS(g) == <<On("S", g, <<>>), On("S", g, <<>>), On("S", g, <<>>)>>
rewriteTToRz(g) == <<On("RZ", g, <<1>>)>>
rewriteTToPhasedRx(g) ==
  Detached(<<Prx(g, HalfPi, 0), Prx(g, IF g.adj THEN 1 ELSE -1, HalfPi),
             Prx(g, -HalfPi, 0)>>)
rewriteTdgToRz(g) == <<On("RZ", g, <<-1>>)>>
rewriteR1ToRz(g) == <<On("RZ", g, g.par)>>
rewriteR1ToPhasedRx(g) ==
  Detached(<<Prx(g, HalfPi, 0), Prx(g, -g.par[1], HalfPi), Prx(g, -HalfPi, 0)>>)
rewriteRxToHRzH(g) == <<On("H", g, <<>>), On("RZ", g, g.par), On("H", g, <<>>)>>
rewriteRxToPhasedRx(g) == <<Prx(g, g.par[1], 0)>>
rewriteRyToRzRxRz(g) ==
  <<On("RZ", g, <<HalfPi>>), On("RX", g, g.par), On("RZ", g, <<HalfPi>>)>>
rewriteRzToHRxH(g) == <<On("H", g, <<>>), On("RX", g, g.par), On("H", g, <<>>)>>
rewriteRzToU3(g) == <<On("U3", g, <<0, 0, g.par[1]>>)>>
rewriteRzToPhasedRx(g) ==
  <<Prx(g, HalfPi, 0), Prx(g, -g.par[1], HalfPi), Prx(g, -HalfPi, 0)>>
rewriteU2ToRzRyRz(g) ==
  <<On("RZ", g, <<g.par[1]>>), On("RY", g, <<HalfPi>>), On("RZ", g, <<g.par[2]>>)>>
rewriteU2ToU3(g) == <<On("U3", g, <<HalfPi, g.par[1], g.par[2]>>)>>
rewriteU3ToRzRyRz(g) ==
  <<On("RZ", g, <<g.par[3]>>), On("RY", g, <<g.par[1]>>), On("RZ", g, <<g.par[2]>>)>>
\* Mutant: all three cx in the same direction.
rewriteSwapToSameCxCxCx(g) ==
  <<CX(g.tgt[1], g.tgt[2]), CX(g.tgt[1], g.tgt[2]), CX(g.tgt[1], g.tgt[2])>>
rewriteSwapToUpperCxCxCx(g) ==
  <<CX(g.tgt[1], g.tgt[2]), CX(g.tgt[2], g.tgt[1]), CX(g.tgt[1], g.tgt[2])>>
rewriteCxToUpperHCzH(g) ==
  <<On("H", g, <<>>), OnCtl("CZ", g, <<>>), On("H", g, <<>>)>>
rewriteCzToUpperHCxH(g) ==
  <<On("H", g, <<>>), OnCtl("CX", g, <<>>), On("H", g, <<>>)>>
rewriteCyToSCxSdg(g) ==
  <<On("S", g, <<>>), OnCtl("CX", g, <<>>), On("SAdj", g, <<>>)>>
rewriteCrxToHCrzH(g) ==
  <<On("H", g, <<>>), OnCtl("RZ", g, g.par), On("H", g, <<>>)>>
rewriteCrzToHCrxH(g) ==
  <<On("H", g, <<>>), OnCtl("RX", g, g.par), On("H", g, <<>>)>>
\* the rz is given the control but no target
rewriteCrzToRzCu3(g) ==
  <<createQuakeGate("RZ", g.ctl, <<>>, <<-Half(g.par[1])>>, FALSE),
    OnCtl("U3", g, <<0, 0, g.par[1]>>)>>
rewriteCrzToRzCxRzCx(g) ==
  <<On("RZ", g, <<Half(g.par[1])>>), OnCtl("CX", g, <<>>),
    On("RZ", g, <<-Half(g.par[1])>>), OnCtl("CX", g, <<>>)>>
rewriteCryToRzCrxRz(g) ==
  <<On("RZ", g, <<-HalfPi>>), OnCtl("RX", g, g.par), On("RZ", g, <<HalfPi>>)>>

-----------------------------------------------------------------------------
(***************************************************************************)
(* getDecompositionTable: for each mnemonic its rules, in the order in     *)
(* which they are tried, with the mnemonics each says it produces.         *)
(***************************************************************************)
Rule(name, produces) == [name |-> name, produces |-> produces]

DecompositionTable == [
  h    |-> <<Rule("HToRzSxRz", {"rz", "sx"}), Rule("HToU3", {"u3"}),
             Rule("HToPhasedRx", {"prx"})>>,
  x    |-> <<Rule("XToHZH", {"h", "z"}), Rule("XToRx", {"rx"}),
             Rule("XToPhasedRx", {"prx"})>>,
  y    |-> <<Rule("YToRy", {"ry"}), Rule("YToPhasedRx", {"prx"})>>,
  z    |-> <<Rule("ZToHXH", {"h", "x"}), Rule("ZToRz", {"rz"})>>,
  s    |-> <<Rule("SToRz", {"rz"}), Rule("SToSdgSdgSdg", {"sdg"}),
             Rule("SToTT", {"t"}), Rule("SToPhasedRx", {"prx"})>>,
  sdg  |-> <<Rule("SdgToRz", {"rz"}), Rule("SdgToSSS", {"s"})>>,
  t    |-> <<Rule("TToRz", {"rz"}), Rule("TToPhasedRx", {"prx"})>>,
  tdg  |-> <<Rule("TdgToRz", {"rz"})>>,
  r1   |-> <<Rule("R1ToRz", {"rz"}), Rule("R1ToPhasedRx", {"prx"})>>,
  rx   |-> <<Rule("RxToHRzH", {"h", "rz"}), Rule("RxToPhasedRx", {"prx"})>>,
  sx   |-> <<Rule("SxToPhasedRx", {"prx"})>>,
  ry   |-> <<Rule("RyToRzRxRz", {"rz", "rx"})>>,
  rz   |-> <<Rule("RzToHRxH", {"h", "rx"}), Rule("RzToU3", {"u3"}),
             Rule("RzToPhasedRx", {"prx"})>>,
  u2   |-> <<Rule("U2ToRzRyRz", {"rz", "ry"}), Rule("U2ToU3", {"u3"})>>,
  u3   |-> <<Rule("U3ToRzRyRz", {"rz", "ry"})>>,
  swap |-> <<Rule("SwapToUpperCxCxCx", {"cx"})>>,
  cx   |-> <<Rule("CxToUpperHCzH", {"h", "cz"})>>,
  cz   |-> <<Rule("CzToUpperHCxH", {"h", "cx"})>>,
  cy   |-> <<Rule("CyToSCxSdg", {"s", "cx", "sdg"})>>,
  crx  |-> <<Rule("CrxToHCrzH", {"h", "crz"})>>,
  crz  |-> <<Rule("CrzToHCrxH", {"h", "crx"}), Rule("CrzToRzCu3", {"rz", "u3"}),
             Rule("CrzToRzCxRzCx", {"rz", "cx"})>>,
  cry  |-> <<Rule("CryToRzCrxRz", {"rz", "crx"})>> ]

\* DecompositionRule::apply, bound by makeRule
ApplyRule(rule, g) ==
  CASE rule.name = "HToRzSxRz"     -> rewriteHToRzRxRz(g)
    [] rule.name = "HToU3"         -> rewriteHToU3(g)
    [] rule.name = "HToPhasedRx"   -> rewriteHToPhasedRx(g)
    [] rule.name = "XToHZH"        -> rewriteXToHZH(g)
    [] rule.name = "XToRx"         -> rewriteXToRx(g)
    [] rule.name = "XToPhasedRx"   -> rewriteXToPhasedRx(g)
    [] rule.name = "YToRy"         -> rewriteYToRy(g)
    [] rule.name = "YToPhasedRx"   -> rewriteYToPhasedRx(g)
    [] rule.name = "ZToHXH"        -> rewriteZToHXH(g)
    [] rule.name = "ZToRz"         -> rewriteZToRz(g)
    [] rule.name = "SToRz"         -> rewriteSToRz(g)
    [] rule.name = "SToSdgSdgSdg"  -> rewriteSToSdgSdgSdg(g)
    [] rule.name = "SToTT"         -> rewriteSToTT(g)
    [] rule.name = "SToPhasedRx"   -> rewriteSToPhasedRx(g)
    [] rule.name = "SdgToRz"       -> rewriteSdgToRz(g)
    [] rule.name = "SdgToSSS"      -> rewriteSdgToSSS(g)
    [] rule.name = "TToRz"         -> rewriteTToRz(g)
    [] rule.name = "TToPhasedRx"   -> rewriteTToPhasedRx(g)
    [] rule.name = "TdgToRz"       -> rewriteTdgToRz(g)
    [] rule.name = "R1ToRz"        -> rewriteR1ToRz(g)
    [] rule.name = "R1ToPhasedRx"  -> rewriteR1ToPhasedRx(g)
    [] rule.name = "RxToHRzH"      -> rewriteRxToHRzH(g)
    [] rule.name \in {"RxToPhasedRx", "SxToPhasedRx"} -> rewriteRxToPhasedRx(g)
    [] rule.name = "RyToRzRxRz"    -> rewriteRyToRzRxRz(g)
    [] rule.name = "RzToHRxH"      -> rewriteRzToHRxH(g)
    [] rule.name = "RzToU3"        -> rewriteRzToU3(g)
    [] rule.name = "RzToPhasedRx"  -> rewriteRzToPhasedRx(g)
    [] rule.name = "U2ToRzRyRz"    -> rewriteU2ToRzRyRz(g)
    [] rule.name = "U2ToU3"        -> rewriteU2ToU3(g)
    [] rule.name = "U3ToRzRyRz"    -> rewriteU3ToRzRyRz(g)
    [] rule.name = "SwapToUpperCxCxCx" -> rewriteSwapToUpperCxCxCx(g)
    [] rule.name = "CxToUpperHCzH" -> rewriteCxToUpperHCzH(g)
    [] rule.name = "CzToUpperHCxH" -> rewriteCzToUpperHCxH(g)
    [] rule.name = "CyToSCxSdg"    -> rewriteCyToSCxSdg(g)
    [] rule.name = "CrxToHCrzH"    -> rewriteCrxToHCrzH(g)
    [] rule.name = "CrzToHCrxH"    -> rewriteCrzToHCrxH(g)
    [] rule.name = "CrzToRzCu3"    -> rewriteCrzToRzCu3(g)
    [] rule.name = "CrzToRzCxRzCx" -> rewriteCrzToRzCxRzCx(g)
    [] rule.name = "CryToRzCrxRz"  -> rewriteCryToRzCrxRz(g)
=============================================================================
