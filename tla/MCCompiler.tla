----------------------------- MODULE MCCompiler -----------------------------
(***************************************************************************)
(* Compiler on a line of three qubits, with the decomposition table of the *)
(* repository and the exact meaning of the gates.                          *)
(***************************************************************************)
EXTENDS Compiler, DecompositionRules

Quake == INSTANCE GateAlgebra

-----------------------------------------------------------------------------
\* Two circuits do the same: the same unitary up to a global phase, the same
\* measurements.  A swap of a qubit with itself does nothing.
Gates(ops) ==
  SelectSeq(ops, LAMBDA g : ~IsMeasurement(g) /\ (g.op = "swap" => g.tgt[1] # g.tgt[2]))

SameUnitary(a, b) == a = b \/ Quake!Equivalent3(a, b)

SameCircuit(a, b) ==
  /\ SelectSeq(a, IsMeasurement) = SelectSeq(b, IsMeasurement)
  /\ SameUnitary(Gates(a), Gates(b))

-----------------------------------------------------------------------------
Line == {<<0, 1>>, <<1, 0>>, <<1, 2>>, <<2, 1>>}

G(op, ctl, tgt, par, adj) == [op |-> op, adj |-> adj, ctl |-> ctl, tgt |-> tgt, par |-> par]
Gate1(op, q) == G(op, <<>>, <<q>>, <<>>, FALSE)
Gate2(op, c, t) == G(op, <<c>>, <<t>>, <<>>, FALSE)

Bell   == <<Gate1("h", 0), Gate2("x", 0, 1)>>
Phases == <<Gate1("s", 0), Gate2("z", 0, 1)>>
Far    == <<Gate1("h", 0), Gate2("x", 0, 2)>>
HalfRy == <<G("ry", <<>>, <<0>>, <<HalfPi>>, FALSE)>>
Flips  == <<Gate1("x", 0), Gate1("x", 0), Gate1("z", 1)>>
Jz     == <<Gate2("x", 0, 1), Gate2("y", 0, 1)>>
Lone   == <<Gate1("s", 0)>>
Prx1   == <<G("phased_rx", <<>>, <<0>>, <<1, 2>>, FALSE)>>
Wide   == <<G("u3", <<>>, <<0>>, <<1, 2, 3>>, FALSE)>>

Planqc == <<"rx", "cz", "rz">>
Iqm    == <<"prx", "cz">>
Lrz    == <<"r", "cz", "r">>

Request(level, gates, backend, verify, format) ==
  [level |-> level, native |-> gates, backend |-> backend, verify |-> verify,
   format |-> format]

K(n, ops) == [alloc |-> n, ops |-> ops]

MCCalls == {
  <<Request("O1", Planqc, "", TRUE, "QIR"), K(2, Bell)>>,
  <<Request("O3", Lrz, "LRZ", FALSE, "OPENQASM2"), K(2, Bell)>>,
  <<Request("O2", Lrz, "iqm", FALSE, "OPENQASM2"), K(2, Bell)>>,
  <<Request("O1", Iqm, "", TRUE, "IQMJSON"), K(2, Phases)>>,
  <<Request("O1", Planqc, "LRZ", FALSE, "OPENQASM2"), K(3, Far)>>,
  <<Request("O1", Planqc, "", TRUE, "OPENQASM2"), K(1, HalfRy)>>,
  <<Request("O1", <<"h", "cx", "rz">>, "", FALSE, "QIR"), K(1, HalfRy)>>,
  <<Request("O2", Planqc, "", FALSE, "QIR"), K(2, Flips)>>,
  <<Request("O1", Iqm, "", FALSE, "QIR"), K(2, Jz)>>,
  <<Request("O1", Iqm, "", TRUE, "QIR"), K(1, Lone)>>,
  <<Request("O1", <<>>, "", FALSE, "QIR"), K(1, Lone)>>,
  <<Request("O1", Iqm, "", FALSE, "QIR"), K(1, Prx1)>>,
  <<Request("O1", <<"rz", "u3">>, "", TRUE, "QIR"), K(1, <<Gate1("h", 0)>>)>>,
  <<Request("O1", Planqc, "", FALSE, "QIR"), K(4, Wide)>>,
  <<Request("O1", Planqc, "", TRUE, "QIR"), K(4, Wide)>> }

MCTable == LET table == DecompositionTable IN table

MCOrders ==
  {<<"h", "x", "y", "z", "s", "sdg", "t", "tdg", "r1", "rx", "sx", "ry", "rz",
     "u2", "u3", "swap", "cx", "cz", "cy", "crx", "crz", "cry">>}

OnlyBoth == {Both}

ASSUME PipelineAssumption == PipelineKeeps

\* The rules emit operations on coupled qubits only, if the gate was on such
\* (EmitsInPlace of CompilerProofs, on one gate of each kind).
PlacedGates ==
  {Gate1(op, 1) : op \in {"h", "x", "y", "z", "s", "t"}}
  \cup {Gate2(op, 1, 2) : op \in {"x", "y", "z"}}
  \cup {G("swap", <<>>, <<0, 1>>, <<>>, FALSE)}
  \cup {G(op, ctl, <<1>>, <<1>>, FALSE) : op \in {"rx", "ry", "rz", "r1"}, ctl \in {<<>>, <<0>>}}
  \cup {G("u2", <<>>, <<1>>, <<1, 2>>, FALSE), G("u3", <<>>, <<1>>, <<1, 2, 3>>, FALSE)}

ASSUME EmitsInPlaceAssumption ==
  \A g \in {x \in PlacedGates : ClassifyOp(x) \in DOMAIN DecompositionTable} :
    \A r \in DOMAIN DecompositionTable[ClassifyOp(g)] :
      \A h \in ToSet(ApplyRule(DecompositionTable[ClassifyOp(g)][r], g)) :
        Qubits(h) \subseteq Qubits(g)

-----------------------------------------------------------------------------
\* (ConsideredEquivalent is SameCircuit here.)
SameGates(a, b) == ConsideredEquivalent(Gates(a), Gates(b))

\* Gates with a decomposition that changes the unitary (MCDecompositionRules)
Suspect == {"y", "s", "t", "r1", "ry", "u2", "u3", "cy", "crx", "crz", "cry"}

ConversionIsSound ==
  \/ request.verify /\ visited # <<>> /\ Faithful(input) /\ Faithful(visited)
  \/ \A i \in DOMAIN input : ClassifyOp(input[i]) \notin Suspect

\* O2 reverses CNOTs and keeps them
NothingIsReversed ==
  request.level = "O2" => \A i \in DOMAIN kernel.ops : GateTy(kernel.ops[i]) # "CNOT"

At(place, ops) ==
  [i \in DOMAIN ops |->
     [ops[i] EXCEPT !.ctl = [j \in DOMAIN @ |-> place[@[j]]],
                    !.tgt = [j \in DOMAIN @ |-> place[@[j]]]]]

\* No swap, or one that takes every qubit of the program from where the mapper
\* put it to where it left it.  (One is all the mapper inserts here.)
Moved(p, route) ==
  IF route = <<>> THEN p
  ELSE CASE p = route[1].tgt[1] -> route[1].tgt[2]
         [] p = route[1].tgt[2] -> route[1].tgt[1]
         [] OTHER -> p

Routes ==
  {route \in {<<>>} \cup {<<Mapping!SwapOf(e[1], e[2])>> : e \in Coupling} :
     \A a \in DOMAIN start : Moved(start[a], route) = layout[a]}

\* What the compiler returns computes what the source did, from where the mapper
\* put the qubits to where it left them - whatever the order of optimization,
\* mapping and conversion does to one another, and verification lets nothing
\* else through.
CompiledKeepsTheProgram ==
  stage = "returned" /\ AllLoaded /\ Faithful(source.ops)
  /\ ConversionIsSound /\ NothingIsReversed =>
    \E route \in Routes : SameGates(At(start, source.ops) \o route, visited)
=============================================================================
