--------------------------- MODULE MCValuePasses ---------------------------
(***************************************************************************)
(* ValuePasses with the exact meaning of the gates, on two qubits.         *)
(***************************************************************************)
EXTENDS ValuePasses

CONSTANTS
  Alphabet,       \* the gates kernels are made of
  MaxLength       \* bound: the gates of the kernels given

Quantum == INSTANCE GateAlgebra

-----------------------------------------------------------------------------
(***************************************************************************)
(* What a gate means on the lines of the qubits it takes.                  *)
(***************************************************************************)
Meaning(g, lines) ==
  LET op == CASE g.ty \in {"CNOT", "PauliX"} -> "x"
              [] g.ty \in {"CZ", "PauliZ"} -> "z"
              [] g.ty = "PauliY" -> "y"
              [] g.ty \in {"H", "Hadamard"} -> "h"
              [] g.ty = "RX" -> "rx"
              [] g.ty = "RZ" -> "rz"
              [] g.ty = "S" -> "s"
              [] g.ty = "PhaseShift" -> "r1"
      controls == IF g.ty \in {"CNOT", "CZ"} THEN 1 ELSE 0
  IN [op |-> op, adj |-> g.adj, par |-> g.par, ctl |-> SubSeq(lines, 1, controls),
      tgt |-> SubSeq(lines, controls + 1, Len(lines))]

\* The lines of the values: an extract takes the line that was put back at its
\* index last, or the qubit that was there from the start.
LinesOf(k) ==
  FoldLeft(LAMBDA s, g :
    LET line(v) == s.line[v[1]][v[2]]
    IN CASE g.ty = "extract" -> [s EXCEPT !.line = Append(@, <<s.reg[g.idx]>>)]
         [] g.ty = "insert" -> [s EXCEPT !.line = Append(@, <<>>), !.reg[g.idx] = line(g.in[1])]
         [] OTHER -> [s EXCEPT !.line = Append(@, [i \in DOMAIN g.in |-> line(g.in[i])])],
    [line |-> <<>>, reg |-> [q \in 0..1 |-> q]], k)

GatesOf(k, os) ==
  LET line == LinesOf(k).line
      those == SelectSeq([o \in DOMAIN k |-> o], LAMBDA o : IsGate(k[o]) /\ o \in os)
  IN [n \in DOMAIN those |-> Meaning(k[those[n]], line[those[n]])]

Swap == [op |-> "swap", adj |-> FALSE, par |-> <<>>, ctl |-> <<>>, tgt |-> <<0, 1>>]

\* What the register holds in the end: the gates whose results reach it, and a
\* swap when the qubits were put back crosswise.
ValuesWithout(k, lost) ==
  GatesOf(k, LiveOps(k) \ lost)
  \o IF LinesOf(k).reg = [q \in 0..1 |-> q] THEN <<>> ELSE <<Swap>>
Values(k) == ValuesWithout(k, {})

\* what happens to the qubits when every gate is carried out, in block order
Execution(k) == GatesOf(k, DOMAIN k)

Executed(cs) == [i \in DOMAIN cs |-> Meaning(cs[i], cs[i].qubits)]

Same(c1, c2) == c1 = c2 \/ Quantum!Equivalent(c1, c2)
SameValues == Same(Values(kernel), Values(kernel'))
SameExecution == Same(Execution(kernel), Execution(kernel'))

-----------------------------------------------------------------------------
(***************************************************************************)
(* What the passes get wrong, each stated as exactly as it goes wrong: the *)
(* properties make exceptions of these steps and of no others.             *)
(***************************************************************************)
\* the gates of one qubit that are moved behind another gate
Moved(k, info) == {p[1] : p \in {q \in ToSet(Pairs(k, info)) : Len(k[q[1]].in) = 1}}

\* Paulis that had an H moved behind them, as what they are switched to
Switched(k, info) ==
  [o \in DOMAIN k |->
    IF \E p \in ToSet(Pairs(k, info)) : p[2] = o /\ GateTy(k[o]) \in Paulis
    THEN [k[o] EXCEPT !.ty = ReplacementMap(@), !.adj = FALSE] ELSE k[o]]

\* Nobody takes what a moved gate returns: the register is without it.
CommutesAndLoses ==
  \/ \E mode \in CommuteModes :
       LET info == CommuteInfo(mode)
       IN /\ EndPass(performCommutation(kernel, info))
          /\ Same(ValuesWithout(kernel, Moved(kernel, info)), Values(kernel'))
  \/ \E mode \in SwitchModes :
       LET info == SwitchInfo(mode)
       IN /\ EndPass(performCommuteAndSwitch(kernel, info))
          /\ Same(ValuesWithout(Switched(kernel, info), Moved(kernel, info)), Values(kernel'))

\* the values more than one operation takes, or one operation twice
TakenTwice(b) ==
  LET takers == {<<o, i>> : o \in ToSet(b.block), i \in 1..2}
      taken == {t \in takers : t[2] <= Len(b.ops[t[1]].in)}
      value(t) == b.ops[t[1]].in[t[2]]
  IN {value(t) : t \in {u \in taken : \E w \in taken \ {u} : value(u) = value(w)}}

\* What the second gate of a pair returns, or the one built for it, is taken by
\* the first gate and by whoever took it before: no other value is taken twice.
CopiesWhatItMovesPast ==
  \/ \E mode \in CommuteModes :
       LET b == performCommutation(kernel, CommuteInfo(mode))
       IN /\ EndPass(b)
          /\ \A v \in TakenTwice(b) : \E p \in ToSet(Pairs(kernel, CommuteInfo(mode))) : v[1] = p[2]
  \/ \E mode \in SwitchModes :
       LET b == performCommuteAndSwitch(kernel, SwitchInfo(mode))
       IN /\ EndPass(b)
          /\ \A v \in TakenTwice(b) :
               \/ v[1] > Len(kernel)
               \/ \E p \in ToSet(Pairs(kernel, SwitchInfo(mode))) : v[1] = p[2]

\* The pattern stays beside the gate built for it: both take the same qubit.
CopiesWhatItReduces ==
  \E mode \in ReductionModes :
    LET b == performReduction(kernel, mode).open
    IN /\ EndPass(b)
       /\ \A v \in TakenTwice(b) :
            \E pipeline \in ToSet(Reduced(kernel, ReductionInfo(mode).pattern)) :
              v \in ToSet(In(kernel, pipeline[1], "target"))

\* ... and when every gate is carried out, so is the pattern.
AddsReducedGates ==
  \E mode \in ReductionModes :
    LET b == performReduction(kernel, mode).open
        others == {i \in DOMAIN b.block : b.block[i] \in DOMAIN kernel}
    IN /\ b # Open(kernel)
       /\ EndPass(b)
       /\ Same(Execution(kernel), GatesOf(kernel', others))

ReducesUncheckedPairs ==
  \E mode \in ReductionModes :
    /\ EndPass(performReduction(kernel, mode).open)
    /\ \E pipeline \in ToSet(Reduced(kernel, ReductionInfo(mode).pattern)) :
         \E n \in 1..(Len(pipeline) - 1) : ~GoodPair(kernel, pipeline[n], pipeline[n + 1])

\* the kernel in which the users of a CNOT's results have exchanged them
Crossed(k) ==
  LET cross(v) == IF GateTy(k[v[1]]) = "CNOT" THEN <<v[1], 3 - v[2]>> ELSE v
  IN [o \in DOMAIN k |-> [k[o] EXCEPT !.in = [i \in DOMAIN @ |-> cross(@[i])]]]

\* a CNOT is threaded after one whose result it takes
TooLate(k, order) ==
  \E m, n \in DOMAIN order :
    m < n /\ \E v \in ToSet(k[CNots(k)[order[n]]].in) : v[1] = CNots(k)[order[m]]

ReversesTooLate ==
  \E order \in IterationOrders(kernel) :
    TooLate(kernel, order) /\ EndPass(performCNOTReversal(kernel, order))

\* A reversal that is not too late is right but for exchanging the results.
ReversesCrosswise(meaning(_)) ==
  \/ ReversesTooLate
  \/ /\ \E order \in IterationOrders(kernel) : EndPass(performCNOTReversal(kernel, order))
     /\ Same(meaning(Crossed(kernel)), meaning(kernel'))

-----------------------------------------------------------------------------
\* A pass keeps what the register holds in the end, but for this: a commutation
\* loses the gates it moves and nothing else, a reversal exchanges the results of
\* every CNOT and changes nothing else unless it comes too late for one, and a
\* reduction whose pattern was not checked to the end is free.
ValuesAreKept ==
  [][outcome' = "running" /\ IsLinear(kernel)
       => SameValues \/ CommutesAndLoses \/ ReversesCrosswise(Values) \/ ReducesUncheckedPairs]_kernel

\* A pass keeps what running every gate in the order of the block does, but for
\* this: a reduction adds its gate to the pattern, a reversal is as above, and the
\* canonicalizer drops gates nobody uses.
ExecutionIsKept ==
  [][outcome' = "running" /\ IsLinear(kernel)
       => \/ SameExecution \/ AddsReducedGates \/ ReducesUncheckedPairs
          \/ ReversesCrosswise(Execution) \/ Canonicalize]_kernel

\* A kernel in which every qubit is used once stays such a kernel: an edit that
\* forgets to redirect a use either copies a qubit or loses one.  Commutations and
\* reductions copy the qubits named above and no others, and one CNOT is reversed
\* without a copy.
StaysLinear ==
  [][outcome' = "running" /\ IsLinear(kernel)
       => \/ IsLinear(kernel')
          \/ CopiesWhatItMovesPast \/ CopiesWhatItReduces \/ ReversesTooLate]_kernel

\* The verifier never has to reject what a pass made of a kernel in which every
\* qubit is used once, but for rotations by nothing, which are spliced out wrongly.
OnlyNullRotationsAreRejected ==
  [][outcome' = "rejected" /\ IsLinear(kernel)
       => \E o \in DOMAIN kernel : IsNullRotation(kernel[o])]_outcome

\* every qubit goes back to where it was taken from
PutsBackInPlace(k) ==
  \A o \in DOMAIN k : k[o].ty = "insert" => LinesOf(SubSeq(k, 1, o)).reg[k[o].idx] = k[o].idx

\* The runtime calls do to the qubits what the kernel says, with array-backed
\* registers always, without them if no qubit has changed places.
LoweringRunsTheKernel ==
  [][outcome' = "lowered array-backed" \/ (outcome' = "lowered" /\ PutsBackInPlace(kernel))
       => Same(Executed(calls'), Execution(kernel))]_outcome

\* two pairs of a switch in a row: one starts with what the other returns
SwitchesInARow ==
  \E mode \in SwitchModes :
    \E p, q \in ToSet(Gathered(kernel, SwitchInfo(mode)).chained) :
      <<p[2], 1>> \in ToSet(kernel[q[1]].in)

\* two rotations to normalise in a row
NormalizesInARow ==
  LET out == {o \in DOMAIN kernel :
                GateTy(kernel[o]) \in Rotations /\ kernel[o].par[1] # kernel[o].par[1] % TwoPi}
  IN \E o, p \in out : <<o, 1>> \in ToSet(kernel[p].in)

\* No pass goes on with an operation that it has erased, but for switches of
\* pairs in a row, normalisations of rotations in a row and reductions that erase
\* what is still in use.
NothingErasedIsUsed ==
  [][outcome' = "undefined" /\ IsLinear(kernel)
       => \/ SwitchesInARow
          \/ NormalizesInARow
          \/ \E mode \in ReductionModes : ~performReduction(kernel, mode).safe]_outcome

-----------------------------------------------------------------------------
\* The kernel of a list of gates: both qubits are taken out of the register
\* first and put back last.
G(ty, qs, par, adj) == [ty |-> ty, adj |-> adj, par |-> par, qs |-> qs]
RegisterOp(ty, in, q) == [ty |-> ty, adj |-> FALSE, par |-> <<>>, in |-> in, idx |-> q]

KernelOf(gates) ==
  LET start == [ops |-> <<RegisterOp("extract", <<>>, 0), RegisterOp("extract", <<>>, 1)>>,
                at |-> [q \in 0..1 |-> <<q + 1, 1>>]]
      Add(s, g) ==
        LET o == Len(s.ops) + 1
            place(q) == CHOOSE i \in DOMAIN g.qs : g.qs[i] = q
        IN [ops |-> Append(s.ops, [ty |-> g.ty, adj |-> g.adj, par |-> g.par,
                                   in |-> [i \in DOMAIN g.qs |-> s.at[g.qs[i]]], idx |-> 0]),
            at |-> [q \in 0..1 |-> IF q \in ToSet(g.qs) THEN <<o, place(q)>> ELSE s.at[q]]]
      end == FoldLeft(Add, start, gates)
  IN end.ops \o <<RegisterOp("insert", <<end.at[0]>>, 0), RegisterOp("insert", <<end.at[1]>>, 1)>>

On1(ty) == {G(ty, <<q>>, <<>>, FALSE) : q \in {0, 1}}
CX01 == G("CNOT", <<0, 1>>, <<>>, FALSE)
CX10 == G("CNOT", <<1, 0>>, <<>>, FALSE)

PassGates ==
  On1("PauliX") \cup On1("Hadamard") \cup {CX01, CX10}
  \cup {G("PauliZ", <<0>>, <<>>, FALSE), G("RX", <<1>>, <<11>>, FALSE),
        G("RZ", <<0>>, <<-8>>, TRUE), G("S", <<0>>, <<>>, FALSE), G("S", <<0>>, <<>>, TRUE)}

\* with longer kernels, so that other operations come between those of a pattern
CliffordGates ==
  On1("Hadamard") \cup On1("PauliX") \cup {CX01}

\* a gate whose roles are not known; a kernel that drops its qubits
Unanalysed == KernelOf(<<G("PhaseShift", <<0>>, <<1>>, FALSE)>>)
Dropped == LET k == KernelOf(<<G("S", <<0>>, <<>>, FALSE), G("PauliZ", <<0>>, <<>>, FALSE)>>)
           IN SubSeq(k, 1, 4)

\* qubits that are put back, straight or crosswise, and taken out again
Again(gates, crosswise) ==
  LET k == KernelOf(gates)
      n == Len(k)
      back(i) == [k[i] EXCEPT !.idx = IF crosswise THEN 1 - @ ELSE @]
      out == Len(k) + 1
  IN SubSeq(k, 1, n - 2) \o <<back(n - 1), back(n), RegisterOp("extract", <<>>, 0),
       [ty |-> "PauliX", adj |-> FALSE, par |-> <<>>, in |-> <<<<out, 1>>>>, idx |-> 0],
       RegisterOp("insert", <<<<out + 1, 1>>>>, 0)>>
H0 == G("Hadamard", <<0>>, <<>>, FALSE)
X0 == G("PauliX", <<0>>, <<>>, FALSE)
TakenAgain == {Again(gates, crosswise) : gates \in BoundedSeq({CX01, H0}, 1),
                                         crosswise \in BOOLEAN}
HXHX == <<H0, X0, H0, X0>>

MCKernels ==
  {KernelOf(gates) : gates \in BoundedSeq(Alphabet, MaxLength)
                              \cup BoundedSeq(CliffordGates, MaxLength + 1) \cup {HXHX}}
  \cup {Unanalysed, Dropped} \cup TakenAgain

-----------------------------------------------------------------------------
(***************************************************************************)
(* What the exceptions above are about, on the smallest kernels.           *)
(***************************************************************************)
\* After an X has been commuted behind a CNOT nobody takes what the X returns,
\* the insert still has the CNOT's result: the qubit is taken twice, and what
\* reaches the register has had only the CNOT.
ASSUME CommutingLosesAGate ==
  LET x == G("PauliX", <<1>>, <<>>, FALSE)
      commuted == Close(performCommutation(KernelOf(<<x, CX01>>), CommuteInfo("X-CX")))
  IN /\ ~IsLinear(commuted)
     /\ Same(Execution(commuted), Execution(KernelOf(<<x, CX01>>)))
     /\ Same(Values(commuted), Execution(KernelOf(<<CX01>>)))

\* The reversed form of a CNOT ends on exchanged qubits (ReversesCrosswise says
\* what is kept).
ASSUME ReversalSwapsTheQubits ==
  LET k == KernelOf(<<CX01>>)
  IN ~Same(Values(k), Values(Close(performCNOTReversal(k, <<1>>))))

\* H, X, H, X in a row are two pairs for HXYZtoXYZH: when the second one is
\* switched, the analysis still has it take the result of the X that the first
\* one erased.
ASSUME SwitchUsesAnErasedGate ==
  Dangles(performCommuteAndSwitch(KernelOf(HXHX), SwitchInfo("HXYZtoXYZH")))

\* Of two rotations in a row that are out of range, the second one is built anew
\* on the result of the first one, which has been erased; one alone, or one within
\* the range between them, is no problem.
ASSUME NormalizingUsesAnErasedGate ==
  LET rx(a) == G("RX", <<1>>, <<a>>, FALSE)
      normalized(gates) == performArgAngelNormalization(KernelOf(gates))
  IN /\ Dangles(normalized(<<rx(11), rx(11)>>))
     /\ ~Dangles(normalized(<<rx(11)>>))
     /\ ~Dangles(normalized(<<rx(11), rx(3), rx(11)>>))
=============================================================================
