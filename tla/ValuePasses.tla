---------------------------- MODULE ValuePasses ----------------------------
(***************************************************************************)
(* The standard optimization passes on a Catalyst kernel: the branches of  *)
(* include/Passes/Transforms/PassLogic.h for value semantics, where a pass *)
(* that moves or replaces an operation must redirect the values it takes   *)
(* and returns.  GatePasses has the branches for Quake.                    *)
(*                                                                         *)
(* An action is one run of one pass, of MLIR's canonicalizer, which the    *)
(* tests run behind the passes, or of the lowering to QIR, which ends the  *)
(* pipeline.  A pass ends by verifying the module: a kernel the verifier   *)
(* rejects fails it, and the pipeline ends.                                *)
(***************************************************************************)
EXTENDS ValueKernels

CONSTANTS
  Kernels,        \* the kernels the passes may be given
  ReductionModes, \* the modes the reduction pass is run in
  MaxOps          \* bound: no reversal or reduction beyond this many operations

ASSUME MaxOpsAssumption == MaxOps \in Nat

VARIABLES
  kernel,         \* the kernel
  outcome,        \* "running", or how the pipeline ended
  calls           \* the runtime calls the kernel was lowered to
vars == <<kernel, outcome, calls>>

-----------------------------------------------------------------------------
(***************************************************************************)
(* A kernel while a pass edits it (see PassLogic).  Its values are named   *)
(* by the operation, not by its place; view[o] is what the analysis        *)
(* believes operation o takes, which only UpdateOperands changes.          *)
(***************************************************************************)
Open(k) == [block |-> [o \in DOMAIN k |-> o], ops |-> k, view |-> [o \in DOMAIN k |-> k[o].in]]

Close(b) ==
  LET place(v) == IF v = Parameter THEN v ELSE <<PlaceOf(b, v[1]), v[2]>>
      op(o) == [b.ops[o] EXCEPT !.in = [i \in DOMAIN @ |-> place(@[i])]]
  IN [i \in DOMAIN b.block |-> op(b.block[i])]

\* an operation in the block takes a value of one that was erased
Dangles(b) ==
  \E o \in ToSet(b.block) :
    \E v \in ToSet(b.ops[o].in) \ {Parameter} : v[1] \notin ToSet(b.block)

Substitute(values, from, to) == [i \in DOMAIN values |-> IF values[i] = from THEN to ELSE values[i]]

replaceUsesOfWith(b, o, from, to) == [b EXCEPT !.ops[o].in = Substitute(@, from, to)]
UpdateOperands(b, o, from, to) == [b EXCEPT !.view[o] = Substitute(@, from, to)]
replaceAllUsesWith(b, from, to) ==
  [b EXCEPT !.ops = [o \in DOMAIN @ |-> [@[o] EXCEPT !.in = Substitute(@, from, to)]]]

Create(b, o, gs) ==
  [InsertAfter(b, o, gs) EXCEPT !.view = @ \o [i \in DOMAIN gs |-> gs[i].in]]
Newest(b) == Len(b.ops)

\* Mutant: the results are left to whoever takes them.
SpliceAway(b, o) == Erase(b, {o})

\* every result of o is replaced by the operand in its place, and o is erased
SpliceOut(b, o) ==
  Erase(FoldLeft(LAMBDA c, i : replaceAllUsesWith(c, <<o, i>>, c.ops[o].in[i]),
                 b, [i \in DOMAIN b.ops[o].in |-> i]), {o})

-----------------------------------------------------------------------------
(***************************************************************************)
(* CancelGate: pairs of equal self-inverse gates.                          *)
(***************************************************************************)
CancelStop(k, i) ==
  SelectInSubSeq([o \in DOMAIN k |-> o], i + 1, Len(k),
    LAMBDA j : GateTy(k[j]) = GateTy(k[i]) \/ TouchesAny(k, j, i))

Cancels(k, i) ==
  LET j == CancelStop(k, i)
  IN /\ j # 0
     /\ GateTy(k[j]) = GateTy(k[i])
     /\ SameQubits(k, i, j, Both) \/ SameQubitValues(k, i, j, Both)

ToCancel(k) ==
  FoldLeft(LAMBDA erased, i :
             IF GateTy(k[i]) \in GatesToCancel /\ i \notin ToSet(erased) /\ Cancels(k, i)
             THEN erased \o <<i, CancelStop(k, i)>> ELSE erased,
           <<>>, [i \in DOMAIN k |-> i])

performCancellation(k) == FoldLeft(SpliceOut, Open(k), ToCancel(k))

(***************************************************************************)
(* CancelNullRotation: the result of the rotation is replaced by its first *)
(* operand, which is the angle.                                            *)
(***************************************************************************)
IsNullRotation(g) ==
  GateTy(g) \in Rotations /\ \A i \in DOMAIN g.par : g.par[i] % TwoPi = 0

performNullRotationCancellation(k) ==
  FoldLeft(LAMBDA b, o : Erase(replaceAllUsesWith(b, <<o, 1>>, Parameter), {o}),
           Open(k), Listed({o \in DOMAIN k : IsNullRotation(k[o])}))

-----------------------------------------------------------------------------
(***************************************************************************)
(* Commutation.  Candidates are gathered in two lists: operations that     *)
(* take the same values, and operations one of which takes what the other  *)
(* returns.  The second list is used only when the first one is empty.     *)
(***************************************************************************)
CommuteStop(k, i, info) ==
  SelectInSubSeq([o \in DOMAIN k |-> o], i + 1, Len(k),
    LAMBDA j : GateTy(k[j]) \in info.second \/ TouchesAny(k, j, i))

IsPair(k, i, info) ==
  /\ GateTy(k[i]) \in info.first
  /\ CommuteStop(k, i, info) # 0
  /\ GateTy(k[CommuteStop(k, i, info)]) \in info.second

Gathered(k, info) ==
  LET Same(i) == SameQubits(k, i, CommuteStop(k, i, info), info.key)
      Chained(i) == SameQubitValues(k, i, CommuteStop(k, i, info), info.key)
      Gather(lists, i) ==
        LET pair == <<i, CommuteStop(k, i, info)>>
            scheduled == \E p \in ToSet(lists.same) : i \in ToSet(p)
        IN IF ~IsPair(k, i, info) \/ scheduled THEN lists
           ELSE IF Same(i) THEN [lists EXCEPT !.same = Append(@, pair)]
           ELSE IF Chained(i) THEN [lists EXCEPT !.chained = Append(@, pair)]
           ELSE lists
  IN FoldLeft(Gather, [same |-> <<>>, chained |-> <<>>], [i \in DOMAIN k |-> i])

\* Mutant: Op1 goes on taking what it took.
CommuteSecondOnly(k, key, b, pair) ==
  LET taken1 == In(k, pair[1], key[1])[1]
      taken2 == In(k, pair[2], key[2])[1]
  IN UpdateOperands(replaceUsesOfWith(MoveAfter(b, pair[1], pair[2]), pair[2], taken2, taken1),
                    pair[2], taken2, taken1)

\* Op2 takes what Op1 took, and Op1 what Op2 returns; whoever took the result
\* of Op2 still does.
CommuteValues(k, key, b, pair) ==
  LET op1 == pair[1]
      op2 == pair[2]
      taken1 == In(k, op1, key[1])[1]
      taken2 == In(k, op2, key[2])[1]
      result2 == Out(k, op2, key[2])[1]
      moved == replaceUsesOfWith(replaceUsesOfWith(MoveAfter(b, op1, op2), op2, taken2, taken1),
                                 op1, taken1, result2)
  IN UpdateOperands(UpdateOperands(moved, op2, taken2, taken1), op1, taken1, result2)

performCommutation(k, info) ==
  LET lists == Gathered(k, info)
      Move(b, pair) == MoveAfter(b, pair[1], pair[2])
      MoveValues(b, pair) == CommuteValues(k, info.key, b, pair)
  IN IF lists.same # <<>> THEN FoldLeft(Move, Open(k), lists.same)
     ELSE FoldLeft(MoveValues, Open(k), lists.chained)

(***************************************************************************)
(* Commute and switch.  The new gate takes what the analysis believes the  *)
(* old one takes.                                                          *)
(***************************************************************************)
SwitchOut(b, pair) ==
  LET out == IF GateTy(b.ops[pair[1]]) \in Paulis THEN pair[1] ELSE pair[2]
      new == createCatalystGate(ReplacementMap(GateTy(b.ops[out])), <<>>, b.view[out], <<>>, FALSE)
      created == Create(b, pair[2], <<new>>)
  IN Erase(replaceAllUsesWith(created, <<out, 1>>, <<Newest(created), 1>>), {out})

Pairs(k, info) ==
  LET lists == Gathered(k, info)
  IN IF lists.same # <<>> THEN lists.same ELSE lists.chained

performCommuteAndSwitch(k, info) ==
  FoldLeft(SwitchOut, performCommutation(k, info), Pairs(k, info))

-----------------------------------------------------------------------------
(***************************************************************************)
(* Reduction (see GatePasses for how a pattern is collected).  The new     *)
(* gate takes what the first one took and the users of the last one get    *)
(* its result; the pattern stays, unless its last gate has no users.       *)
(***************************************************************************)
Intervening(k, i, j) == \E m \in (i + 1)..(j - 1) : TouchesAny(k, m, i)

GoodPair(k, i, j) ==
  /\ ~Intervening(k, i, j)
  /\ SameQubits(k, i, j, TargetTarget) \/ SameQubitValues(k, i, j, TargetTarget)

ChecksSatisfied(k, pipeline) ==
  \E n \in 1..(Len(pipeline) - 1) :
    /\ GoodPair(k, pipeline[n], pipeline[n + 1])
    /\ \A m \in 1..n : ~Intervening(k, pipeline[m], pipeline[m + 1])

Collect(k, pattern, found, i) ==
  LET pipeline == IF GateTy(k[i]) \in ToSet(pattern)
                  THEN Append(found.pipeline, i) ELSE found.pipeline
      matches == \A n \in DOMAIN pattern : GateTy(k[pipeline[n]]) = pattern[n]
  IN IF Len(pipeline) < Len(pattern) THEN [found EXCEPT !.pipeline = pipeline]
     ELSE [pipeline |-> <<>>,
           reduced |-> IF matches /\ ChecksSatisfied(k, pipeline)
                       THEN Append(found.reduced, pipeline) ELSE found.reduced]

Reduced(k, pattern) ==
  FoldLeft(LAMBDA found, i : Collect(k, pattern, found, i),
           [pipeline |-> <<>>, reduced |-> <<>>], [i \in DOMAIN k |-> i]).reduced

HasUsers(b, o) == \E u \in ToSet(b.block) : \E v \in ToSet(b.ops[u].in) : v[1] = o

ReplacePattern(k, new, b, pipeline) ==
  LET first == pipeline[1]
      last == pipeline[Len(pipeline)]
      gate == createCatalystGate(new, In(k, first, "control"), In(k, first, "target"),
                                 k[first].par, FALSE)
      created == Create(b, first, <<gate>>)
  IN IF HasUsers(created, last)
     THEN replaceAllUsesWith(created, <<last, 1>>, <<Newest(created), 1>>)
     ELSE Erase(created, ToSet(pipeline))

\* An operation is erased while a later one of its pattern still takes its
\* result.
ErasesInUse(k, new, b, pipeline) ==
  LET first == pipeline[1]
      last == pipeline[Len(pipeline)]
  IN ~HasUsers(b, last) /\ \E o \in ToSet(pipeline) : HasUsers(b, o)

performReduction(k, mode) ==
  LET info == ReductionInfo(mode)
      Replace(r, pipeline) ==
        [open |-> ReplacePattern(k, info.new, r.open, pipeline),
         safe |-> r.safe /\ ~ErasesInUse(k, info.new, r.open, pipeline)]
  IN FoldLeft(Replace, [open |-> Open(k), safe |-> TRUE], Reduced(k, info.pattern))

(***************************************************************************)
(* addOperation refuses an operation the analysis knows already, and it    *)
(* knows operations by their address and forgets none that is erased.  A   *)
(* new operation may get the address of one the pass has erased before:    *)
(* the allocator decides.                                                  *)
(***************************************************************************)
Erased(b) == Len(b.block) < Len(b.ops)

AddsAfterErasing(k) ==
  \/ \E mode \in SwitchModes : Len(Pairs(k, SwitchInfo(mode))) > 1
  \/ \E mode \in ReductionModes :
       LET info == ReductionInfo(mode)
           patterns == Reduced(k, info.pattern)
           Replace(b, pipeline) == ReplacePattern(k, info.new, b, pipeline)
       IN patterns # <<>> /\ Erased(FoldLeft(Replace, Open(k), Front(patterns)))

(***************************************************************************)
(* Angle normalisation: a rotation one of whose angles is not in [0, 2 pi) *)
(* is built anew behind itself with the angles that changed.  The new one  *)
(* takes what the analysis says the old one takes, which no step of this   *)
(* pass corrects, and the old one is erased before the next is looked at.  *)
(***************************************************************************)
NormalizeGate(b, o) ==
  LET g == b.ops[o]
      changed == Picked(g.par, {i \in DOMAIN g.par : g.par[i] # g.par[i] % TwoPi})
      new == createCatalystGate(GateTy(g), <<>>, b.view[o],
                                [i \in DOMAIN changed |-> changed[i] % TwoPi], g.adj)
      created == Create(b, o, <<new>>)
  IN IF GateTy(g) \notin Rotations \/ changed = <<>> THEN b
     ELSE Erase(replaceAllUsesWith(created, <<o, 1>>, <<Newest(created), 1>>), {o})

performArgAngelNormalization(k) ==
  FoldLeft(NormalizeGate, Open(k), [o \in DOMAIN k |-> o])

(***************************************************************************)
(* CNOT reversal.  First every CNOT gets its reversed form behind it: five *)
(* gates that all take what the CNOT takes.  Then, in the order of an      *)
(* unordered_map, the values are threaded through the form of each CNOT.   *)
(***************************************************************************)
CNots(k) == Listed({o \in DOMAIN k : GateTy(k[o]) = "CNOT"})

ReversedForm(g) ==
  LET H(v) == createCatalystGate("H", <<>>, <<v>>, <<>>, FALSE)
      ctl == g.in[1]
      tgt == g.in[2]
  IN <<H(tgt), H(ctl), createCatalystGate("CNOT", <<tgt>>, <<ctl>>, <<>>, FALSE), H(tgt), H(ctl)>>

\* the five gates of the n-th CNOT of the kernel
NewGates(k, n) == [i \in 1..5 |-> Len(k) + 5 * (n - 1) + i]

WithReversedForms(k) ==
  FoldLeft(LAMBDA b, o : Create(b, o, ReversedForm(k[o])), Open(k), CNots(k))

\* Mutant: the reversed CNOT takes the target before its Hadamard.
ThreadPastAHadamard(k, b, n) ==
  LET o == CNots(k)[n]
      g == NewGates(k, n)
      third == replaceUsesOfWith(b, g[3], k[o].in[1], <<g[2], 1>>)
      outer == replaceUsesOfWith(replaceUsesOfWith(third, g[4], k[o].in[2], <<g[3], 1>>),
                                 g[5], k[o].in[1], <<g[3], 2>>)
  IN replaceAllUsesWith(replaceAllUsesWith(outer, <<o, 1>>, <<g[4], 1>>), <<o, 2>>, <<g[5], 1>>)

\* The code gives the users of the control the result of the fourth gate,
\* which is on the line of the target, and the other way round.
Thread(k, b, n) ==
  LET o == CNots(k)[n]
      ctl == k[o].in[1]
      tgt == k[o].in[2]
      g == NewGates(k, n)
      third == replaceUsesOfWith(replaceUsesOfWith(b, g[3], tgt, <<g[1], 1>>),
                                 g[3], ctl, <<g[2], 1>>)
      outer == replaceUsesOfWith(replaceUsesOfWith(third, g[4], tgt, <<g[3], 1>>),
                                 g[5], ctl, <<g[3], 2>>)
  IN replaceAllUsesWith(replaceAllUsesWith(outer, <<o, 1>>, <<g[4], 1>>), <<o, 2>>, <<g[5], 1>>)

performCNOTReversal(k, order) ==
  Erase(FoldLeft(LAMBDA b, n : Thread(k, b, n), WithReversedForms(k), order), ToSet(CNots(k)))

IterationOrders(k) ==
  LET n == Len(CNots(k)) IN {p \in [1..n -> 1..n] : IsInjective(p)}

-----------------------------------------------------------------------------
(***************************************************************************)
(* Lowering to QIR (lib/Passes/CodeGen/ConversionPatterns.cpp): a qubit is *)
(* the pointer an extract loads from the register's array, the results of  *)
(* a gate are the pointers it is called with, and an insert is dropped or, *)
(* with array-backed registers, stores the pointer.                        *)
(***************************************************************************)
NumQubits == 2

\* Mutant: an insert never stores.
LowerOpStoreless(arrayBacked, low, g) ==
  LET pointer(v) == low.pointers[v[1]][v[2]]
      args == [i \in DOMAIN g.in |-> pointer(g.in[i])]
  IN CASE g.ty = "extract" -> [low EXCEPT !.pointers = Append(@, <<low.array[g.idx]>>)]
       [] g.ty = "insert" -> [low EXCEPT !.pointers = Append(@, <<>>)]
       [] OTHER -> [low EXCEPT !.pointers = Append(@, args),
                               !.calls = Append(@, [ty |-> g.ty, adj |-> g.adj, par |-> g.par,
                                                    qubits |-> args])]

LowerOp(arrayBacked, low, g) ==
  LET pointer(v) == low.pointers[v[1]][v[2]]
      args == [i \in DOMAIN g.in |-> pointer(g.in[i])]
  IN CASE g.ty = "extract" ->
            [low EXCEPT !.pointers = Append(@, <<low.array[g.idx]>>)]
       [] g.ty = "insert" ->
            [low EXCEPT !.pointers = Append(@, <<>>),
                        !.array = IF arrayBacked THEN [@ EXCEPT ![g.idx] = args[1]] ELSE @]
       [] OTHER ->
            [low EXCEPT !.pointers = Append(@, args),
                        !.calls = Append(@, [ty |-> g.ty, adj |-> g.adj, par |-> g.par,
                                             qubits |-> args])]

Lower(k, arrayBacked) ==
  FoldLeft(LAMBDA low, g : LowerOp(arrayBacked, low, g),
           [array |-> [q \in 0..(NumQubits - 1) |-> q], pointers |-> <<>>, calls |-> <<>>], k)

-----------------------------------------------------------------------------
Init ==
  /\ kernel \in Kernels
  /\ outcome = "running"
  /\ calls = <<>>

\* every pass gives up on a module that is not analysed
Analysed == outcome = "running" /\ IsAnalysable(kernel)

GiveUp ==
  /\ outcome = "running"
  /\ ~IsAnalysable(kernel)
  /\ outcome' = "failed"
  /\ UNCHANGED <<kernel, calls>>

\* A pass that erases operations before it adds one fails at the refusal; nobody
\* reads the kernel it leaves.
Refuse ==
  /\ Analysed
  /\ AddsAfterErasing(kernel)
  /\ outcome' = "failed"
  /\ UNCHANGED <<kernel, calls>>

\* Mutant: the module is not verified.
EndUnverified(b) ==
  /\ kernel' = IF Dangles(b) THEN kernel ELSE Close(b)
  /\ outcome' = IF Dangles(b) THEN "undefined" ELSE "running"
  /\ UNCHANGED calls

\* The end of a pass that leaves b.  What it does with a value whose operation
\* is gone is undefined; the verifier rejects what is not well-formed.
EndPass(b) ==
  /\ kernel' = IF Dangles(b) THEN kernel ELSE Close(b)
  /\ outcome' = IF Dangles(b) THEN "undefined"
                ELSE IF Verifies(Close(b)) THEN "running" ELSE "rejected"
  /\ UNCHANGED calls

CancelGate == Analysed /\ EndPass(performCancellation(kernel))
CancelNullRotation == Analysed /\ EndPass(performNullRotationCancellation(kernel))
CommonCommute ==
  /\ Analysed
  /\ \E mode \in CommuteModes : EndPass(performCommutation(kernel, CommuteInfo(mode)))
CommonSwitch ==
  /\ Analysed
  /\ \E mode \in SwitchModes : EndPass(performCommuteAndSwitch(kernel, SwitchInfo(mode)))
CommonReduction ==
  /\ Analysed
  /\ Len(kernel) <= MaxOps
  /\ \E mode \in ReductionModes :
       LET r == performReduction(kernel, mode)
       IN IF r.safe THEN EndPass(r.open)
          ELSE outcome' = "undefined" /\ UNCHANGED <<kernel, calls>>
CommonNormalizeArgAngle == Analysed /\ EndPass(performArgAngelNormalization(kernel))
CommonCNOTReverse ==
  /\ Analysed
  /\ Len(kernel) <= MaxOps
  /\ \E order \in IterationOrders(kernel) : EndPass(performCNOTReversal(kernel, order))

\* MLIR's canonicalizer: gates have no effect but their results.
Canonicalize ==
  /\ outcome = "running"
  /\ EndPass(Erase(Open(kernel), DOMAIN kernel \ LiveOps(kernel)))

LowerToQIR ==
  /\ outcome = "running"
  /\ \E arrayBacked \in BOOLEAN :
       /\ calls' = Lower(kernel, arrayBacked).calls
       /\ outcome' = IF arrayBacked THEN "lowered array-backed" ELSE "lowered"
  /\ UNCHANGED kernel

Next == \/ CancelGate \/ CancelNullRotation \/ CommonCommute \/ CommonSwitch
        \/ CommonReduction \/ CommonNormalizeArgAngle \/ CommonCNOTReverse
        \/ Refuse \/ Canonicalize \/ GiveUp \/ LowerToQIR

Spec == Init /\ [][Next]_vars

-----------------------------------------------------------------------------
Lowered == {"lowered", "lowered array-backed"}
Outcomes == {"running", "failed", "rejected", "undefined"} \cup Lowered

\* A running kernel is one the verifier accepts, with one angle in
\* every rotation; calls are made by the lowering only.
TypeOK ==
  /\ outcome \in Outcomes
  /\ outcome \in {"running"} \cup Lowered => Verifies(kernel)
  /\ \A o \in DOMAIN kernel : kernel[o].ty \in Rotations => Len(kernel[o].par) = 1
  /\ outcome \notin Lowered => calls = <<>>
=============================================================================
