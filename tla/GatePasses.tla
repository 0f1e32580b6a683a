----------------------------- MODULE GatePasses -----------------------------
(***************************************************************************)
(* The standard optimization passes on one Quake kernel: cancellation,     *)
(* null rotations, commutation, commute-and-switch, reduction, angle       *)
(* normalisation and CNOT reversal (include/Passes/Transforms/PassLogic.h  *)
(* and the passes of lib/Passes/Transforms that call it), in any order and *)
(* any number, as the user guide allows.                                   *)
(*                                                                         *)
(* A kernel is the sequence of its gate operations in block order, each a  *)
(* record of QuakeGates.  In Quake an operation changes qubits it refers   *)
(* to and has no results, so every out list of a QuantumOpView is empty    *)
(* and no operation has users: the branches of the code for SSA values     *)
(* are never taken.  An action is one run of one pass.                     *)
(***************************************************************************)
EXTENDS QuakeAnalysis, PassLogic

CONSTANTS
  Kernels,        \* the kernels the passes may be given
  Allocated,      \* the kernel allocates its qubits; else they are arguments
  CompareKeys,    \* what the uninitialised CompareKey of the cancellation is
  ReductionModes, \* the modes the reduction pass is run in
  MaxGates        \* bound: CNOT reversal is not run beyond this length

\* the angles an operation takes
Arity(op) == CASE op \in {"r1", "rx", "ry", "rz"} -> 1
               [] op \in {"u2", "phased_rx"} -> 2
               [] op = "u3" -> 3
               [] OTHER -> 0

\* The operations kernels are made of: there is a target, no qubit is named twice,
\* and there are as many angles as the operation takes.
WellFormed ==
  {g \in Operations :
     /\ g.tgt # <<>>
     /\ IsInjective(g.ctl) /\ IsInjective(g.tgt)
     /\ ToSet(g.ctl) \cap ToSet(g.tgt) = {}
     /\ Len(g.par) = Arity(g.op)}

ASSUME KernelsAssumption == Kernels \subseteq Seq(WellFormed)
ASSUME AllocatedAssumption == Allocated \in BOOLEAN
ASSUME ReductionModesAssumption == ReductionModes \subseteq Reductions
ASSUME MaxGatesAssumption == MaxGates \in Nat

VARIABLE kernel

-----------------------------------------------------------------------------
(***************************************************************************)
(* Qubits and operations in reach of one another.                          *)
(***************************************************************************)
\* extractQubits: a qubit is known by the register and index it is extracted
\* from; a qubit that is an argument of the kernel has the empty id.
NoId == "no id"
Ids(qubits) == [i \in DOMAIN qubits |-> IF Allocated THEN qubits[i] ELSE NoId]

\* touchesAny: an operand of g comes from the extraction of a qubit of f; an
\* empty id is never found
TouchesAny(g, f) == Allocated /\ Qubits(g) \cap Qubits(f) # {}

-----------------------------------------------------------------------------
(***************************************************************************)
(* Do two operations agree on the qubits a comparison key names?           *)
(***************************************************************************)
SameQubits(f, g, key) == Agree(Ids(f.ctl), Ids(f.tgt), Ids(g.ctl), Ids(g.tgt), key)

\* the results of f, none in Quake, against the operands of g
SameQubitValues(f, g, key) == Agree(<<>>, <<>>, g.ctl, g.tgt, key)

-----------------------------------------------------------------------------
\* The block of a kernel: an operation is named by its number in it.
Open(k) == [block |-> [i \in DOMAIN k |-> i], ops |-> k]
Close(b) == [i \in DOMAIN b.block |-> b.ops[b.block[i]]]

-----------------------------------------------------------------------------
(***************************************************************************)
(* CancelGate: pairs of equal self-inverse gates.                          *)
(***************************************************************************)
\* The scan from operation i ends at the first operation of the same type, or
\* at one of another type that touches its qubits.
CancelStop(k, i) ==
  SelectInSubSeq(k, i + 1, Len(k),
    LAMBDA g : GateTy(g) = GateTy(k[i]) \/ TouchesAny(g, k[i]))

Cancels(k, i, key) ==
  LET j == CancelStop(k, i)
  IN /\ j # 0
     /\ GateTy(k[j]) = GateTy(k[i])
     /\ SameQubits(k[i], k[j], key) \/ SameQubitValues(k[i], k[j], key)

ToCancel(k, key) ==
  FoldLeft(LAMBDA erased, i :
             IF GateTy(k[i]) \in GatesToCancel /\ i \notin erased /\ Cancels(k, i, key)
             THEN erased \cup {i, CancelStop(k, i)} ELSE erased,
           {}, [i \in DOMAIN k |-> i])

performCancellation(k, key) == Close(Erase(Open(k), ToCancel(k, key)))

(***************************************************************************)
(* CancelNullRotation: rotations by a multiple of 2 pi.                    *)
(***************************************************************************)
IsNullRotation(g) ==
  GateTy(g) \in Rotations /\ \A i \in DOMAIN g.par : g.par[i] % TwoPi = 0

performNullRotationCancellation(k) ==
  Picked(k, {i \in DOMAIN k : ~IsNullRotation(k[i])})

(***************************************************************************)
(* Commutation.  A candidate <<i, j>> is an operation of a first type and  *)
(* the next one of a second type; the scan ends early at an operation of   *)
(* another type that touches the qubits of i.                              *)
(***************************************************************************)
\* Mutant: an operation that only touches the controls does not end the scan.
CommuteStopAtTargets(k, i, info) ==
  SelectInSubSeq(k, i + 1, Len(k),
    LAMBDA g : GateTy(g) \in info.second
                 \/ (Allocated /\ Qubits(g) \cap ToSet(k[i].tgt) # {}))

CommuteStop(k, i, info) ==
  SelectInSubSeq(k, i + 1, Len(k),
    LAMBDA g : GateTy(g) \in info.second \/ TouchesAny(g, k[i]))

IsCandidate(k, i, info) ==
  LET j == CommuteStop(k, i, info)
  IN /\ GateTy(k[i]) \in info.first
     /\ j # 0
     /\ GateTy(k[j]) \in info.second
     /\ SameQubits(k[i], k[j], info.key)

IsScheduled(candidates, o) ==
  \E n \in DOMAIN candidates : o \in ToSet(candidates[n])

\* kernels that allocate no qubits are skipped
Candidates(k, info) ==
  IF ~Allocated THEN <<>>
  ELSE FoldLeft(LAMBDA cs, i :
                  IF IsCandidate(k, i, info) /\ ~IsScheduled(cs, i)
                  THEN Append(cs, <<i, CommuteStop(k, i, info)>>) ELSE cs,
                <<>>, [i \in DOMAIN k |-> i])

Commute(b, candidates) ==
  FoldLeft(LAMBDA c, p : MoveAfter(c, p[1], p[2]), b, candidates)

performCommutation(k, info) == Close(Commute(Open(k), Candidates(k, info)))

(***************************************************************************)
(* Commute and switch: after all the moves, the Pauli of every pair is     *)
(* replaced, in the place right after the second operation of the pair, by *)
(* the Pauli it is conjugated to.                                          *)
(***************************************************************************)
SwitchOut(b, pair) ==
  LET out == IF GateTy(b.ops[pair[1]]) \in Paulis THEN pair[1] ELSE pair[2]
      new == createQuakeGate(ReplacementMap(GateTy(b.ops[out])), <<>>,
                             b.ops[out].tgt, <<>>, FALSE)
  IN Erase(InsertAfter(b, pair[2], <<new>>), {out})

performCommuteAndSwitch(k, info) ==
  LET pairs == Candidates(k, info)
  IN Close(FoldLeft(SwitchOut, Commute(Open(k), pairs), pairs))

(***************************************************************************)
(* Reduction.  The operations whose type occurs in the pattern are         *)
(* collected, whatever their qubits, until there are as many as the        *)
(* pattern has; if their types are the pattern's, neighbours are compared  *)
(* until one pair is on the same qubits or has another operation between.  *)
(***************************************************************************)
Intervening(k, i, j) == \E m \in (i + 1)..(j - 1) : TouchesAny(k[m], k[i])

ChecksSatisfied(k, pipeline) ==
  \E n \in 1..(Len(pipeline) - 1) :
    /\ SameQubits(k[pipeline[n]], k[pipeline[n + 1]], TargetTarget)
    /\ \A m \in 1..n : ~Intervening(k, pipeline[m], pipeline[m + 1])

Collect(k, pattern, found, i) ==
  LET pipeline == IF GateTy(k[i]) \in ToSet(pattern)
                  THEN Append(found.pipeline, i) ELSE found.pipeline
      matches == \A n \in DOMAIN pattern : GateTy(k[pipeline[n]]) = pattern[n]
  IN IF Len(pipeline) < Len(pattern) THEN [found EXCEPT !.pipeline = pipeline]
     ELSE [pipeline |-> <<>>,
           reduced |-> IF matches /\ ChecksSatisfied(k, pipeline)
                       THEN Append(found.reduced, pipeline) ELSE found.reduced]

Reduced(k, pattern) ==
  FoldLeft(LAMBDA found, i : Collect(k, pattern, found, i),
           [pipeline |-> <<>>, reduced |-> <<>>], [i \in DOMAIN k |-> i]).reduced

performReduction(k, mode) ==
  LET info == ReductionInfo(mode)
      Replace(b, pipeline) ==
        LET g == k[pipeline[1]]
            new == createQuakeGate(info.new, g.ctl, g.tgt, g.par, FALSE)
        IN Erase(InsertAfter(b, pipeline[1], <<new>>), ToSet(pipeline))
  IN IF ~Allocated THEN k
     ELSE Close(FoldLeft(Replace, Open(k), Reduced(k, info.pattern)))

(***************************************************************************)
(* Angle normalisation: a rotation one of whose angles is not in [0, 2 pi) *)
(* is built anew with the angles that changed.                             *)
(***************************************************************************)
\* Mutant: the new rotation is built without its parameters.
NormalizeGateBare(g) ==
  IF GateTy(g) \notin Rotations \/ \A i \in DOMAIN g.par : g.par[i] = g.par[i] % TwoPi
  THEN g ELSE createQuakeGate(GateTy(g), g.ctl, g.tgt, <<>>, g.adj)

NormalizeGate(g) ==
  LET changed == Picked(g.par, {i \in DOMAIN g.par : g.par[i] # g.par[i] % TwoPi})
  IN IF GateTy(g) \notin Rotations \/ changed = <<>> THEN g
     ELSE createQuakeGate(GateTy(g), g.ctl, g.tgt,
                          [i \in DOMAIN changed |-> changed[i] % TwoPi], g.adj)

performArgAngelNormalization(k) == [i \in DOMAIN k |-> NormalizeGate(k[i])]

(***************************************************************************)
(* CNOT reversal.  Every CNOT is followed by its reversed form.  The code  *)
(* that erases the CNOT comes after a "continue" that is taken whenever    *)
(* the CNOT has no results.                                                *)
(***************************************************************************)
ReversedForm(g) ==
  LET H(q) == createQuakeGate("H", <<>>, q, g.par, FALSE)
  IN <<H(g.tgt), H(g.ctl), createQuakeGate("CNOT", g.tgt, g.ctl, g.par, FALSE),
       H(g.tgt), H(g.ctl)>>

performCNOTReversal(k) ==
  IF ~Allocated THEN k
  ELSE FlattenSeq([i \in DOMAIN k |->
         IF GateTy(k[i]) = "CNOT" THEN <<k[i]>> \o ReversedForm(k[i]) ELSE <<k[i]>>])

-----------------------------------------------------------------------------
Init == kernel \in Kernels

\* A pass that fails ends the pipeline and is no step: a switch whose second gate
\* has several targets, a rotation to be built anew on a qubit that is an argument,
\* of which the analysis has no value.
CancelGate ==
  \E key \in CompareKeys : kernel' = performCancellation(kernel, key)
CancelNullRotation == kernel' = performNullRotationCancellation(kernel)
CommonCommute ==
  \E mode \in CommuteModes : kernel' = performCommutation(kernel, CommuteInfo(mode))
CommonSwitch ==
  \E mode \in SwitchModes :
    /\ \A p \in ToSet(Candidates(kernel, SwitchInfo(mode))) : Len(kernel[p[2]].tgt) = 1
    /\ kernel' = performCommuteAndSwitch(kernel, SwitchInfo(mode))
CommonReduction ==
  \E mode \in ReductionModes : kernel' = performReduction(kernel, mode)
CommonNormalizeArgAngle ==
  /\ Allocated \/ performArgAngelNormalization(kernel) = kernel
  /\ kernel' = performArgAngelNormalization(kernel)
CommonCNOTReverse ==
  /\ Len(kernel) <= MaxGates
  /\ kernel' = performCNOTReversal(kernel)

Next == \/ CancelGate \/ CancelNullRotation \/ CommonCommute \/ CommonSwitch
        \/ CommonReduction \/ CommonNormalizeArgAngle \/ CommonCNOTReverse

Spec == Init /\ [][Next]_kernel

-----------------------------------------------------------------------------
\* Whatever passes have run, in whatever order, the kernel is made of such
\* operations: a pass that builds an operation anew, or reads the operands of one
\* it has not looked at, keeps targets and angles.
TypeOK == kernel \in Seq(WellFormed)
=============================================================================
