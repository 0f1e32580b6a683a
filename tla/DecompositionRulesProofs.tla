---------------------- MODULE DecompositionRulesProofs ----------------------
(***************************************************************************)
(* Facts about the decomposition table, for operations on any qubits and   *)
(* with any angles: how an operation is classified, and what each rule     *)
(* emits.                                                                  *)
(***************************************************************************)
EXTENDS DecompositionRules, QuakeAnalysis, TLAPS

-----------------------------------------------------------------------------
(***************************************************************************)
(* classifyOp.                                                             *)
(***************************************************************************)

\* The rows of Shapes do not overlap.
LEMMA OneShape ==
  ASSUME NEW g, NEW s \in Shapes, NEW t \in Shapes, HasShape(g, s), HasShape(g, t)
  PROVE  s = t
<1>1. ~(g.adj \in Plain /\ g.adj \in Adjoint)
  BY DEF Plain, Adjoint
<1>2. s.op = t.op /\ s.nctl = t.nctl /\ ~(s.adj = Plain /\ t.adj = Adjoint)
      /\ ~(t.adj = Plain /\ s.adj = Adjoint)
  BY <1>1 DEF HasShape
<1>3. s.mn = t.mn
  BY <1>2 DEF Shapes, Shape
<1> QED
  BY <1>3 DEF Shapes, Shape

\* An operation that has the shape of a row has its mnemonic ...
LEMMA ClassifyByShape ==
  ASSUME NEW g, NEW s \in Shapes, HasShape(g, s)
  PROVE  ClassifyOp(g) = IF s.mn = "rx" /\ g.par = <<HalfPi>> THEN "sx" ELSE s.mn
<1>1. \A t \in {u \in Shapes : HasShape(g, u)} : t = s
  BY OneShape
<1>2. (CHOOSE t \in {u \in Shapes : HasShape(g, u)} : TRUE) = s
  BY <1>1
<1> QED
  BY <1>2 DEF ClassifyOp

\* ... and only such an operation has one.
LEMMA ClassifiedHasShape ==
  ASSUME NEW g, ClassifyOp(g) # NoMnemonic
  PROVE  \E s \in Shapes :
           /\ HasShape(g, s)
           /\ ClassifyOp(g) = IF s.mn = "rx" /\ g.par = <<HalfPi>> THEN "sx" ELSE s.mn
<1>1. PICK s \in Shapes : HasShape(g, s)
  BY DEF ClassifyOp
<1> QED
  BY <1>1, ClassifyByShape
-----------------------------------------------------------------------------
(***************************************************************************)
(* What the rewriters create, one operation at a time.                     *)
(***************************************************************************)

\* The operations of one of the classes P on qubits of g.
Emissions(g, P) == {e \in Operations : Qubits(e) \subseteq Qubits(g) /\ ClassifyOp(e) \in P}

Record(op, adj, ctl, tgt, par) ==
  [op |-> op, adj |-> adj, ctl |-> ctl, tgt |-> tgt, par |-> par]

\* An operation without a control, and the row it fits.
LEMMA OnOneQubit ==
  ASSUME NEW g, NEW q \in Nat, q \in Qubits(g),
         NEW op \in QuakeOps, NEW adj \in BOOLEAN, NEW par \in Seq(Int),
         NEW mn, NEW flags, NEW npar,
         Shape(mn, op, flags, 0, 1, npar) \in Shapes, adj \in flags, Len(par) \in npar
  PROVE  /\ ~(mn = "rx" /\ par = <<HalfPi>>) =>
              Record(op, adj, <<>>, <<q>>, par) \in Emissions(g, {mn})
         /\ mn = "rx" /\ par = <<HalfPi>> =>
              Record(op, adj, <<>>, <<q>>, par) \in Emissions(g, {"sx"})
<1> DEFINE e == Record(op, adj, <<>>, <<q>>, par)
           s == Shape(mn, op, flags, 0, 1, npar)
<1>1. e \in Operations /\ Qubits(e) = {q}
  BY DEF Record, Operations, Qubits, ToSet
<1>2. HasShape(e, s)
  BY DEF Record, Shape, HasShape
<1>3. e.par = par /\ s.mn = mn
  BY DEF Record, Shape
<1> HIDE DEF e, s
<1>4. s \in Shapes
  BY DEF s
<1>5. ClassifyOp(e) = IF mn = "rx" /\ par = <<HalfPi>> THEN "sx" ELSE mn
  BY <1>2, <1>3, <1>4, ClassifyByShape
<1>6. /\ ~(mn = "rx" /\ par = <<HalfPi>>) => e \in Emissions(g, {mn})
      /\ mn = "rx" /\ par = <<HalfPi>> => e \in Emissions(g, {"sx"})
  BY <1>1, <1>5 DEF Emissions
<1> QED
  BY <1>6 DEF e

\* An operation with one control, and the row it fits.
LEMMA OnTwoQubits ==
  ASSUME NEW g, NEW c \in Nat, NEW q \in Nat, c \in Qubits(g), q \in Qubits(g),
         NEW op \in QuakeOps, NEW mn, NEW flags,
         Shape(mn, op, flags, 1, 1, 0..3) \in Shapes, FALSE \in flags
  PROVE  Record(op, FALSE, <<c>>, <<q>>, <<>>) \in Emissions(g, {mn})
<1> DEFINE e == Record(op, FALSE, <<c>>, <<q>>, <<>>)
           s == Shape(mn, op, flags, 1, 1, 0..3)
<1>1. e \in Operations /\ Qubits(e) = {c, q}
  BY DEF Record, Operations, Qubits, ToSet
<1>2. HasShape(e, s)
  <2>1. Len(<<c>>) = 1 /\ Len(<<q>>) = 1 /\ Len(<<>>) \in 0..3
    OBVIOUS
  <2> QED
    BY <2>1 DEF Record, Shape, HasShape
<1>3. e.par # <<HalfPi>> /\ s.mn = mn
  BY DEF Record, Shape
<1> HIDE DEF e, s
<1>4. s \in Shapes
  BY DEF s
<1>5. ClassifyOp(e) = mn
  BY <1>2, <1>3, <1>4, ClassifyByShape
<1>6. e \in Emissions(g, {mn})
  BY <1>1, <1>5 DEF Emissions
<1> QED
  BY <1>6 DEF e

\* The rows of what the rewriters create.
LEMMA Rows ==
  /\ Shape("h", "h", Either, 0, 1, 0..3) \in Shapes
  /\ Shape("x", "x", Either, 0, 1, 0..3) \in Shapes
  /\ Shape("z", "z", Either, 0, 1, 0..3) \in Shapes
  /\ Shape("s", "s", Plain, 0, 1, 0..3) \in Shapes
  /\ Shape("sdg", "s", Adjoint, 0, 1, 0..3) \in Shapes
  /\ Shape("t", "t", Plain, 0, 1, 0..3) \in Shapes
  /\ Shape("rx", "rx", Plain, 0, 1, 1..1) \in Shapes
  /\ Shape("ry", "ry", Plain, 0, 1, 1..1) \in Shapes
  /\ Shape("rz", "rz", Plain, 0, 1, 1..1) \in Shapes
  /\ Shape("u3", "u3", Either, 0, 1, 3..3) \in Shapes
  /\ Shape("prx", "phased_rx", Plain, 0, 1, 2..2) \in Shapes
  /\ Shape("cx", "x", Either, 1, 1, 0..3) \in Shapes
  /\ Shape("cz", "z", Either, 1, 1, 0..3) \in Shapes
BY Zenon DEF Shapes

LEMMA Flags ==
  /\ FALSE \in Either /\ FALSE \in Plain /\ TRUE \in Adjoint
  /\ FALSE \in BOOLEAN /\ TRUE \in BOOLEAN
BY DEF Either, Plain, Adjoint

LEMMA Names ==
  {"h", "x", "z", "s", "t", "rx", "ry", "rz", "u3", "phased_rx"} \subseteq QuakeOps
BY DEF QuakeOps

\* The plain gates.
LEMMA CreatesPlain ==
  ASSUME NEW g \in Operations, Len(g.tgt) \in {1, 2}
  PROVE  /\ On("H", g, <<>>) \in Emissions(g, {"h"})
         /\ On("PauliX", g, <<>>) \in Emissions(g, {"x"})
         /\ On("PauliZ", g, <<>>) \in Emissions(g, {"z"})
         /\ On("S", g, <<>>) \in Emissions(g, {"s"})
         /\ On("SAdj", g, <<>>) \in Emissions(g, {"sdg"})
         /\ On("T", g, <<>>) \in Emissions(g, {"t"})
<1> DEFINE q == g.tgt[1]
<1>1. q \in Nat /\ q \in Qubits(g)
  BY DEF Operations, Qubits, ToSet
<1>2. <<>> \in Seq(Int) /\ Len(<<>>) \in 0..3 /\ <<>> # <<HalfPi>>
  OBVIOUS
<1>3. ASSUME NEW op \in QuakeOps, NEW adj \in BOOLEAN, NEW mn, NEW flags,
             Shape(mn, op, flags, 0, 1, 0..3) \in Shapes, adj \in flags
      PROVE  Record(op, adj, <<>>, <<q>>, <<>>) \in Emissions(g, {mn})
  BY <1>1, <1>2, <1>3, OnOneQubit
<1>4. /\ On("H", g, <<>>) = Record("h", FALSE, <<>>, <<q>>, <<>>)
      /\ On("PauliX", g, <<>>) = Record("x", FALSE, <<>>, <<q>>, <<>>)
      /\ On("PauliZ", g, <<>>) = Record("z", FALSE, <<>>, <<q>>, <<>>)
      /\ On("S", g, <<>>) = Record("s", FALSE, <<>>, <<q>>, <<>>)
      /\ On("SAdj", g, <<>>) = Record("s", TRUE, <<>>, <<q>>, <<>>)
      /\ On("T", g, <<>>) = Record("t", FALSE, <<>>, <<q>>, <<>>)
  BY DEF On, createQuakeGate, Builder, Rotation, Record
<1> HIDE DEF q
<1>5. /\ On("H", g, <<>>) \in Emissions(g, {"h"})
      /\ On("PauliX", g, <<>>) \in Emissions(g, {"x"})
      /\ On("PauliZ", g, <<>>) \in Emissions(g, {"z"})
  BY <1>3, <1>4, Rows, Flags, Names
<1>6. /\ On("S", g, <<>>) \in Emissions(g, {"s"})
      /\ On("SAdj", g, <<>>) \in Emissions(g, {"sdg"})
      /\ On("T", g, <<>>) \in Emissions(g, {"t"})
  BY <1>3, <1>4, Rows, Flags, Names
<1> QED
  BY <1>5, <1>6

\* The rotations, with or without a control: createQuakeGate drops it.
LEMMA CreatesRotation ==
  ASSUME NEW g \in Operations, Len(g.tgt) \in {1, 2}, NEW par \in Seq(Int), Len(par) = 1
  PROVE  /\ par # <<HalfPi>> => On("RX", g, par) \in Emissions(g, {"rx"})
         /\ par = <<HalfPi>> => On("RX", g, par) \in Emissions(g, {"sx"})
         /\ On("RY", g, par) \in Emissions(g, {"ry"})
         /\ On("RZ", g, par) \in Emissions(g, {"rz"})
         /\ OnCtl("RX", g, par) = On("RX", g, par)
         /\ OnCtl("RZ", g, par) = On("RZ", g, par)
<1> DEFINE q == g.tgt[1]
<1>1. q \in Nat /\ q \in Qubits(g)
  BY DEF Operations, Qubits, ToSet
<1>2. ASSUME NEW op \in QuakeOps, NEW mn, Shape(mn, op, Plain, 0, 1, 1..1) \in Shapes
      PROVE  /\ ~(mn = "rx" /\ par = <<HalfPi>>) =>
                  Record(op, FALSE, <<>>, <<q>>, par) \in Emissions(g, {mn})
             /\ mn = "rx" /\ par = <<HalfPi>> =>
                  Record(op, FALSE, <<>>, <<q>>, par) \in Emissions(g, {"sx"})
  <2>1. Len(par) \in 1..1
    OBVIOUS
  <2> QED
    BY <1>1, <1>2, <2>1, OnOneQubit, Flags
<1>3. /\ On("RX", g, par) = Record("rx", FALSE, <<>>, <<q>>, par)
      /\ On("RY", g, par) = Record("ry", FALSE, <<>>, <<q>>, par)
      /\ On("RZ", g, par) = Record("rz", FALSE, <<>>, <<q>>, par)
      /\ OnCtl("RX", g, par) = Record("rx", FALSE, <<>>, <<q>>, par)
      /\ OnCtl("RZ", g, par) = Record("rz", FALSE, <<>>, <<q>>, par)
  BY DEF On, OnCtl, createQuakeGate, Builder, Rotation, Record
<1> HIDE DEF q
<1>4. /\ par # <<HalfPi>> => On("RX", g, par) \in Emissions(g, {"rx"})
      /\ par = <<HalfPi>> => On("RX", g, par) \in Emissions(g, {"sx"})
  BY <1>2, <1>3, Rows, Names
<1>5. On("RY", g, par) \in Emissions(g, {"ry"})
  BY <1>2, <1>3, Rows, Names
<1>6. On("RZ", g, par) \in Emissions(g, {"rz"})
  BY <1>2, <1>3, Rows, Names
<1> QED
  BY <1>3, <1>4, <1>5, <1>6

\* u3 and phased_rx.
LEMMA CreatesU3AndPrx ==
  ASSUME NEW g \in Operations, Len(g.tgt) \in {1, 2},
         NEW a \in Int, NEW b \in Int, NEW c \in Int
  PROVE  /\ On("U3", g, <<a, b, c>>) \in Emissions(g, {"u3"})
         /\ Prx(g, a, b) \in Emissions(g, {"prx"})
<1> DEFINE q == g.tgt[1]
           u == <<a, b, c>>
           v == <<a, b>>
<1>1. q \in Nat /\ q \in Qubits(g)
  BY DEF Operations, Qubits, ToSet
<1>2. /\ u \in Seq(Int) /\ Len(u) \in 3..3
      /\ v \in Seq(Int) /\ Len(v) \in 2..2
  OBVIOUS
<1>3. /\ On("U3", g, u) = Record("u3", FALSE, <<>>, <<q>>, u)
      /\ Prx(g, a, b) = Record("phased_rx", FALSE, <<>>, <<q>>, v)
  BY DEF On, Prx, createQuakeGate, Builder, Rotation, Record
<1> HIDE DEF q, u, v
<1>4. ASSUME NEW op \in QuakeOps, NEW mn, NEW flags, NEW npar, NEW par \in Seq(Int),
             Shape(mn, op, flags, 0, 1, npar) \in Shapes, FALSE \in flags,
             Len(par) \in npar, mn # "rx"
      PROVE  Record(op, FALSE, <<>>, <<q>>, par) \in Emissions(g, {mn})
  BY <1>1, <1>4, OnOneQubit, Flags
<1>5. On("U3", g, u) \in Emissions(g, {"u3"})
  BY <1>2, <1>3, <1>4, Rows, Flags, Names
<1>6. Prx(g, a, b) \in Emissions(g, {"prx"})
  BY <1>2, <1>3, <1>4, Rows, Flags, Names
<1> QED
  BY <1>5, <1>6 DEF u

\* The controlled gates.
LEMMA CreatesControlled ==
  ASSUME NEW g \in Operations, Len(g.tgt) = 1, Len(g.ctl) = 1
  PROVE  /\ OnCtl("CX", g, <<>>) \in Emissions(g, {"cx"})
         /\ OnCtl("CZ", g, <<>>) \in Emissions(g, {"cz"})
<1> DEFINE q == g.tgt[1]
           c == g.ctl[1]
<1>1. q \in Nat /\ q \in Qubits(g) /\ c \in Nat /\ c \in Qubits(g)
  BY DEF Operations, Qubits, ToSet
<1>2. /\ OnCtl("CX", g, <<>>) = Record("x", FALSE, <<c>>, <<q>>, <<>>)
      /\ OnCtl("CZ", g, <<>>) = Record("z", FALSE, <<c>>, <<q>>, <<>>)
  BY DEF OnCtl, createQuakeGate, Builder, Rotation, Record
<1> HIDE DEF q, c
<1>3. ASSUME NEW op \in QuakeOps, NEW mn, NEW flags,
             Shape(mn, op, flags, 1, 1, 0..3) \in Shapes, FALSE \in flags
      PROVE  Record(op, FALSE, <<c>>, <<q>>, <<>>) \in Emissions(g, {mn})
  BY <1>1, <1>3, OnTwoQubits
<1> QED
  BY <1>2, <1>3, Rows, Flags, Names

\* The halves of a swap.
LEMMA CreatesSwapHalves ==
  ASSUME NEW g \in Operations, Len(g.tgt) = 2
  PROVE  /\ CX(g.tgt[1], g.tgt[2]) \in Emissions(g, {"cx"})
         /\ CX(g.tgt[2], g.tgt[1]) \in Emissions(g, {"cx"})
<1> DEFINE p == g.tgt[1]
           q == g.tgt[2]
<1>1. p \in Nat /\ p \in Qubits(g) /\ q \in Nat /\ q \in Qubits(g)
  <2>1. g.tgt \in Seq(Nat) /\ 1 \in DOMAIN g.tgt /\ 2 \in DOMAIN g.tgt
    BY DEF Operations
  <2> QED
    BY <2>1 DEF Qubits, ToSet
<1>2. /\ CX(p, q) = Record("x", FALSE, <<p>>, <<q>>, <<>>)
      /\ CX(q, p) = Record("x", FALSE, <<q>>, <<p>>, <<>>)
  BY DEF CX, createQuakeGate, Builder, Rotation, Record
<1> HIDE DEF p, q
<1>3. ASSUME NEW c \in Nat, NEW t \in Nat, c \in Qubits(g), t \in Qubits(g)
      PROVE  Record("x", FALSE, <<c>>, <<t>>, <<>>) \in Emissions(g, {"cx"})
  BY <1>3, OnTwoQubits, Rows, Flags, Names
<1>4. CX(p, q) \in Emissions(g, {"cx"}) /\ CX(q, p) \in Emissions(g, {"cx"})
  BY <1>1, <1>2, <1>3
<1> QED
  BY <1>4 DEF p, q

-----------------------------------------------------------------------------
(***************************************************************************)
(* What the rewriters emit.                                                *)
(***************************************************************************)

LEMMA EmissionsGrow ==
  ASSUME NEW g, NEW P, NEW Q, P \subseteq Q
  PROVE  Emissions(g, P) \subseteq Emissions(g, Q)
BY DEF Emissions

LEMMA ThreeOf ==
  ASSUME NEW S, NEW a \in S, NEW b \in S, NEW c \in S
  PROVE  <<>> \in Seq(S) /\ <<a>> \in Seq(S) /\ <<a, b>> \in Seq(S) /\ <<a, b, c>> \in Seq(S)
OBVIOUS

\* The operations without a control, by class.
LEMMA Creates ==
  ASSUME NEW g \in Operations, Len(g.tgt) \in {1, 2}, NEW P
  PROVE  /\ "h" \in P => On("H", g, <<>>) \in Emissions(g, P)
         /\ "x" \in P => On("PauliX", g, <<>>) \in Emissions(g, P)
         /\ "z" \in P => On("PauliZ", g, <<>>) \in Emissions(g, P)
         /\ "s" \in P => On("S", g, <<>>) \in Emissions(g, P)
         /\ "sdg" \in P => On("SAdj", g, <<>>) \in Emissions(g, P)
         /\ "t" \in P => On("T", g, <<>>) \in Emissions(g, P)
         /\ \A a \in Int, b \in Int :
              /\ "prx" \in P => Prx(g, a, b) \in Emissions(g, P)
              /\ \A c \in Int : "u3" \in P => On("U3", g, <<a, b, c>>) \in Emissions(g, P)
<1>1. \A p : \A e \in Emissions(g, {p}) : p \in P => e \in Emissions(g, P)
  BY DEF Emissions
<1>2. /\ "h" \in P => On("H", g, <<>>) \in Emissions(g, P)
      /\ "x" \in P => On("PauliX", g, <<>>) \in Emissions(g, P)
      /\ "z" \in P => On("PauliZ", g, <<>>) \in Emissions(g, P)
      /\ "s" \in P => On("S", g, <<>>) \in Emissions(g, P)
      /\ "sdg" \in P => On("SAdj", g, <<>>) \in Emissions(g, P)
      /\ "t" \in P => On("T", g, <<>>) \in Emissions(g, P)
  BY <1>1, CreatesPlain
<1>3. ASSUME NEW a \in Int, NEW b \in Int
      PROVE  /\ "prx" \in P => Prx(g, a, b) \in Emissions(g, P)
             /\ \A c \in Int : "u3" \in P => On("U3", g, <<a, b, c>>) \in Emissions(g, P)
  BY <1>1, CreatesU3AndPrx
<1> QED
  BY <1>2, <1>3

LEMMA CreatesRotations ==
  ASSUME NEW g \in Operations, Len(g.tgt) \in {1, 2}, NEW P,
         NEW par \in Seq(Int), Len(par) = 1
  PROVE  /\ "rx" \in P /\ "sx" \in P => On("RX", g, par) \in Emissions(g, P)
         /\ "sx" \in P /\ par = <<HalfPi>> => On("RX", g, par) \in Emissions(g, P)
         /\ "ry" \in P => On("RY", g, par) \in Emissions(g, P)
         /\ "rz" \in P => On("RZ", g, par) \in Emissions(g, P)
<1>1. \A p : \A e \in Emissions(g, {p}) : p \in P => e \in Emissions(g, P)
  BY DEF Emissions
<1> QED
  BY <1>1, CreatesRotation

\* An angle, as the parameter of a rotation.
LEMMA AngleType ==
  ASSUME NEW a \in Int
  PROVE  <<a>> \in Seq(Int) /\ Len(<<a>>) = 1
OBVIOUS

LEMMA Angles == HalfPi \in Int /\ Pi \in Int /\ -HalfPi \in Int /\ -Pi \in Int /\ 0 \in Int /\ 1 \in Int /\ -1 \in Int
BY DEF HalfPi, Pi

\* Rules for gates without an angle.
LEMMA FixedRewrites ==
  ASSUME NEW g \in Operations, Len(g.tgt) = 1
  PROVE  /\ rewriteHToRzRxRz(g) \in Seq(Emissions(g, {"rz", "sx"}))
         /\ rewriteHToU3(g) \in Seq(Emissions(g, {"u3"}))
         /\ rewriteHToPhasedRx(g) \in Seq(Emissions(g, {"prx"}))
         /\ rewriteXToHZH(g) \in Seq(Emissions(g, {"h", "z"}))
         /\ rewriteXToRx(g) \in Seq(Emissions(g, {"rx", "sx"}))
         /\ rewriteXToPhasedRx(g) \in Seq(Emissions(g, {"prx"}))
         /\ rewriteYToRy(g) \in Seq(Emissions(g, {"ry"}))
         /\ rewriteZToHXH(g) \in Seq(Emissions(g, {"h", "x"}))
         /\ rewriteZToRz(g) \in Seq(Emissions(g, {"rz"}))
         /\ rewriteSToRz(g) \in Seq(Emissions(g, {"rz"}))
         /\ rewriteSToSdgSdgSdg(g) \in Seq(Emissions(g, {"sdg"}))
         /\ rewriteSToTT(g) \in Seq(Emissions(g, {"t"}))
         /\ rewriteSdgToRz(g) \in Seq(Emissions(g, {"rz"}))
         /\ rewriteSdgToSSS(g) \in Seq(Emissions(g, {"s"}))
         /\ rewriteTToRz(g) \in Seq(Emissions(g, {"rz"}))
         /\ rewriteTdgToRz(g) \in Seq(Emissions(g, {"rz"}))
<1>1. rewriteHToRzRxRz(g) \in Seq(Emissions(g, {"rz", "sx"}))
  <2>1. /\ On("RZ", g, <<HalfPi>>) \in Emissions(g, {"rz", "sx"})
        /\ On("RX", g, <<HalfPi>>) \in Emissions(g, {"rz", "sx"})
    BY CreatesRotations, AngleType, Angles
  <2> QED
    BY <2>1, ThreeOf DEF rewriteHToRzRxRz
<1>2. rewriteHToU3(g) \in Seq(Emissions(g, {"u3"}))
  <2>1. On("U3", g, <<HalfPi, 0, Pi>>) \in Emissions(g, {"u3"})
    BY Creates, Angles
  <2> QED
    BY <2>1, ThreeOf DEF rewriteHToU3
<1>3. rewriteHToPhasedRx(g) \in Seq(Emissions(g, {"prx"}))
  <2>1. /\ Prx(g, HalfPi, HalfPi) \in Emissions(g, {"prx"})
        /\ Prx(g, Pi, 0) \in Emissions(g, {"prx"})
    BY Creates, Angles
  <2> QED
    BY <2>1, ThreeOf DEF rewriteHToPhasedRx
<1>4. rewriteXToHZH(g) \in Seq(Emissions(g, {"h", "z"}))
  <2>1. /\ On("H", g, <<>>) \in Emissions(g, {"h", "z"})
        /\ On("PauliZ", g, <<>>) \in Emissions(g, {"h", "z"})
    BY Creates
  <2> QED
    BY <2>1, ThreeOf DEF rewriteXToHZH
<1>5. rewriteXToRx(g) \in Seq(Emissions(g, {"rx", "sx"}))
  <2>1. On("RX", g, <<Pi>>) \in Emissions(g, {"rx", "sx"})
    BY CreatesRotations, AngleType, Angles
  <2> QED
    BY <2>1, ThreeOf DEF rewriteXToRx
<1>6. rewriteXToPhasedRx(g) \in Seq(Emissions(g, {"prx"}))
  <2>1. Prx(g, Pi, 0) \in Emissions(g, {"prx"})
    BY Creates, Angles
  <2> QED
    BY <2>1, ThreeOf DEF rewriteXToPhasedRx
<1>7. rewriteYToRy(g) \in Seq(Emissions(g, {"ry"}))
  <2>1. On("RY", g, <<-Pi>>) \in Emissions(g, {"ry"})
    BY CreatesRotations, AngleType, Angles
  <2> QED
    BY <2>1, ThreeOf DEF rewriteYToRy
<1>8. rewriteZToHXH(g) \in Seq(Emissions(g, {"h", "x"}))
  <2>1. /\ On("H", g, <<>>) \in Emissions(g, {"h", "x"})
        /\ On("PauliX", g, <<>>) \in Emissions(g, {"h", "x"})
    BY Creates
  <2> QED
    BY <2>1, ThreeOf DEF rewriteZToHXH
<1>9. rewriteZToRz(g) \in Seq(Emissions(g, {"rz"}))
  <2>1. On("RZ", g, <<Pi>>) \in Emissions(g, {"rz"})
    BY CreatesRotations, AngleType, Angles
  <2> QED
    BY <2>1, ThreeOf DEF rewriteZToRz
<1>10. rewriteSToRz(g) \in Seq(Emissions(g, {"rz"}))
  <2>1. On("RZ", g, <<HalfPi>>) \in Emissions(g, {"rz"})
    BY CreatesRotations, AngleType, Angles
  <2> QED
    BY <2>1, ThreeOf DEF rewriteSToRz
<1>11. rewriteSToSdgSdgSdg(g) \in Seq(Emissions(g, {"sdg"}))
  <2>1. On("SAdj", g, <<>>) \in Emissions(g, {"sdg"})
    BY Creates
  <2> QED
    BY <2>1, ThreeOf DEF rewriteSToSdgSdgSdg
<1>12. rewriteSToTT(g) \in Seq(Emissions(g, {"t"}))
  <2>1. On("T", g, <<>>) \in Emissions(g, {"t"})
    BY Creates
  <2> QED
    BY <2>1, ThreeOf DEF rewriteSToTT
<1>13. rewriteSdgToRz(g) \in Seq(Emissions(g, {"rz"}))
  <2>1. On("RZ", g, <<-HalfPi>>) \in Emissions(g, {"rz"})
    BY CreatesRotations, AngleType, Angles
  <2> QED
    BY <2>1, ThreeOf DEF rewriteSdgToRz
<1>14. rewriteSdgToSSS(g) \in Seq(Emissions(g, {"s"}))
  <2>1. On("S", g, <<>>) \in Emissions(g, {"s"})
    BY Creates
  <2> QED
    BY <2>1, ThreeOf DEF rewriteSdgToSSS
<1>15. rewriteTToRz(g) \in Seq(Emissions(g, {"rz"}))
  <2>1. On("RZ", g, <<1>>) \in Emissions(g, {"rz"})
    BY CreatesRotations, AngleType, Angles
  <2> QED
    BY <2>1, ThreeOf DEF rewriteTToRz
<1>16. rewriteTdgToRz(g) \in Seq(Emissions(g, {"rz"}))
  <2>1. On("RZ", g, <<-1>>) \in Emissions(g, {"rz"})
    BY CreatesRotations, AngleType, Angles
  <2> QED
    BY <2>1, ThreeOf DEF rewriteTdgToRz
<1> QED
  BY <1>1, <1>2, <1>3, <1>4, <1>5, <1>6, <1>7, <1>8, <1>9, <1>10, <1>11, <1>12, <1>13, <1>14, <1>15, <1>16

\* Rules for gates with one angle.
LEMMA AngleRewrites ==
  ASSUME NEW g \in Operations, Len(g.tgt) = 1, Len(g.par) = 1
  PROVE  /\ rewriteR1ToRz(g) \in Seq(Emissions(g, {"rz"}))
         /\ rewriteRxToHRzH(g) \in Seq(Emissions(g, {"h", "rz"}))
         /\ rewriteRxToPhasedRx(g) \in Seq(Emissions(g, {"prx"}))
         /\ rewriteRyToRzRxRz(g) \in Seq(Emissions(g, {"rz", "rx", "sx"}))
         /\ rewriteRzToHRxH(g) \in Seq(Emissions(g, {"h", "rx", "sx"}))
         /\ rewriteRzToU3(g) \in Seq(Emissions(g, {"u3"}))
         /\ rewriteRzToPhasedRx(g) \in Seq(Emissions(g, {"prx"}))
<1>1. g.par \in Seq(Int) /\ g.par[1] \in Int /\ -g.par[1] \in Int
  BY DEF Operations
<1>2. rewriteR1ToRz(g) \in Seq(Emissions(g, {"rz"}))
  <2>1. On("RZ", g, g.par) \in Emissions(g, {"rz"})
    BY <1>1, CreatesRotations, AngleType, Angles
  <2> QED
    BY <2>1, ThreeOf DEF rewriteR1ToRz
<1>3. rewriteRxToHRzH(g) \in Seq(Emissions(g, {"h", "rz"}))
  <2>1. /\ On("H", g, <<>>) \in Emissions(g, {"h", "rz"})
        /\ On("RZ", g, g.par) \in Emissions(g, {"h", "rz"})
    BY <1>1, CreatesRotations, AngleType, Angles, Creates
  <2> QED
    BY <2>1, ThreeOf DEF rewriteRxToHRzH
<1>4. rewriteRxToPhasedRx(g) \in Seq(Emissions(g, {"prx"}))
  <2>1. Prx(g, g.par[1], 0) \in Emissions(g, {"prx"})
    BY <1>1, Creates, Angles
  <2> QED
    BY <2>1, ThreeOf DEF rewriteRxToPhasedRx
<1>5. rewriteRyToRzRxRz(g) \in Seq(Emissions(g, {"rz", "rx", "sx"}))
  <2>1. /\ On("RZ", g, <<HalfPi>>) \in Emissions(g, {"rz", "rx", "sx"})
        /\ On("RX", g, g.par) \in Emissions(g, {"rz", "rx", "sx"})
    BY <1>1, CreatesRotations, AngleType, Angles
  <2> QED
    BY <2>1, ThreeOf DEF rewriteRyToRzRxRz
<1>6. rewriteRzToHRxH(g) \in Seq(Emissions(g, {"h", "rx", "sx"}))
  <2>1. /\ On("H", g, <<>>) \in Emissions(g, {"h", "rx", "sx"})
        /\ On("RX", g, g.par) \in Emissions(g, {"h", "rx", "sx"})
    BY <1>1, CreatesRotations, AngleType, Angles, Creates
  <2> QED
    BY <2>1, ThreeOf DEF rewriteRzToHRxH
<1>7. rewriteRzToU3(g) \in Seq(Emissions(g, {"u3"}))
  <2>1. On("U3", g, <<0, 0, g.par[1]>>) \in Emissions(g, {"u3"})
    BY <1>1, Creates, Angles
  <2> QED
    BY <2>1, ThreeOf DEF rewriteRzToU3
<1>8. rewriteRzToPhasedRx(g) \in Seq(Emissions(g, {"prx"}))
  <2>1. /\ Prx(g, HalfPi, 0) \in Emissions(g, {"prx"})
        /\ Prx(g, -g.par[1], HalfPi) \in Emissions(g, {"prx"})
        /\ Prx(g, -HalfPi, 0) \in Emissions(g, {"prx"})
    BY <1>1, Creates, Angles
  <2> QED
    BY <2>1, ThreeOf DEF rewriteRzToPhasedRx
<1> QED
  BY <1>2, <1>3, <1>4, <1>5, <1>6, <1>7, <1>8

\* Rules for u2 and u3.
LEMMA URewrites ==
  ASSUME NEW g \in Operations, Len(g.tgt) = 1
  PROVE  /\ Len(g.par) = 2 => rewriteU2ToRzRyRz(g) \in Seq(Emissions(g, {"rz", "ry"}))
         /\ Len(g.par) = 2 => rewriteU2ToU3(g) \in Seq(Emissions(g, {"u3"}))
         /\ Len(g.par) = 3 => rewriteU3ToRzRyRz(g) \in Seq(Emissions(g, {"rz", "ry"}))
<1>1. ASSUME Len(g.par) = 2
      PROVE  rewriteU2ToRzRyRz(g) \in Seq(Emissions(g, {"rz", "ry"}))
  <2>1. g.par[1] \in Int /\ g.par[2] \in Int
    BY <1>1 DEF Operations
  <2>2. /\ On("RZ", g, <<g.par[1]>>) \in Emissions(g, {"rz", "ry"})
        /\ On("RY", g, <<HalfPi>>) \in Emissions(g, {"rz", "ry"})
        /\ On("RZ", g, <<g.par[2]>>) \in Emissions(g, {"rz", "ry"})
    BY <2>1, CreatesRotations, AngleType, Angles
  <2> QED
    BY <2>2, ThreeOf DEF rewriteU2ToRzRyRz
<1>2. ASSUME Len(g.par) = 2
      PROVE  rewriteU2ToU3(g) \in Seq(Emissions(g, {"u3"}))
  <2>1. g.par[1] \in Int /\ g.par[2] \in Int
    BY <1>2 DEF Operations
  <2>2. On("U3", g, <<HalfPi, g.par[1], g.par[2]>>) \in Emissions(g, {"u3"})
    BY <2>1, Creates, Angles
  <2> QED
    BY <2>2, ThreeOf DEF rewriteU2ToU3
<1>3. ASSUME Len(g.par) = 3
      PROVE  rewriteU3ToRzRyRz(g) \in Seq(Emissions(g, {"rz", "ry"}))
  <2>1. g.par[1] \in Int /\ g.par[2] \in Int /\ g.par[3] \in Int
    BY <1>3 DEF Operations
  <2>2. /\ On("RZ", g, <<g.par[3]>>) \in Emissions(g, {"rz", "ry"})
        /\ On("RY", g, <<g.par[1]>>) \in Emissions(g, {"rz", "ry"})
        /\ On("RZ", g, <<g.par[2]>>) \in Emissions(g, {"rz", "ry"})
    BY <2>1, CreatesRotations, AngleType, Angles
  <2> QED
    BY <2>2, ThreeOf DEF rewriteU3ToRzRyRz
<1> QED
  BY <1>1, <1>2, <1>3

\* Rules for swap and the controlled Pauli gates.
LEMMA ControlledRewrites ==
  ASSUME NEW g \in Operations
  PROVE  /\ Len(g.tgt) = 2 => rewriteSwapToUpperCxCxCx(g) \in Seq(Emissions(g, {"cx"}))
         /\ Len(g.tgt) = 1 /\ Len(g.ctl) = 1 =>
              /\ rewriteCxToUpperHCzH(g) \in Seq(Emissions(g, {"h", "cz"}))
              /\ rewriteCzToUpperHCxH(g) \in Seq(Emissions(g, {"h", "cx"}))
              /\ rewriteCyToSCxSdg(g) \in Seq(Emissions(g, {"s", "cx", "sdg"}))
<1>1. ASSUME Len(g.tgt) = 2
      PROVE  rewriteSwapToUpperCxCxCx(g) \in Seq(Emissions(g, {"cx"}))
  BY <1>1, CreatesSwapHalves, ThreeOf DEF rewriteSwapToUpperCxCxCx
<1>2. SUFFICES ASSUME Len(g.tgt) = 1, Len(g.ctl) = 1
               PROVE  /\ rewriteCxToUpperHCzH(g) \in Seq(Emissions(g, {"h", "cz"}))
                      /\ rewriteCzToUpperHCxH(g) \in Seq(Emissions(g, {"h", "cx"}))
                      /\ rewriteCyToSCxSdg(g) \in Seq(Emissions(g, {"s", "cx", "sdg"}))
  BY <1>1
<1>3. ASSUME NEW P
      PROVE  /\ "cx" \in P => OnCtl("CX", g, <<>>) \in Emissions(g, P)
             /\ "cz" \in P => OnCtl("CZ", g, <<>>) \in Emissions(g, P)
  BY <1>2, CreatesControlled DEF Emissions
<1>4. rewriteCxToUpperHCzH(g) \in Seq(Emissions(g, {"h", "cz"}))
  <2>1. /\ On("H", g, <<>>) \in Emissions(g, {"h", "cz"})
        /\ OnCtl("CZ", g, <<>>) \in Emissions(g, {"h", "cz"})
    BY <1>2, <1>3, Creates
  <2> QED
    BY <2>1, ThreeOf DEF rewriteCxToUpperHCzH
<1>5. rewriteCzToUpperHCxH(g) \in Seq(Emissions(g, {"h", "cx"}))
  <2>1. /\ On("H", g, <<>>) \in Emissions(g, {"h", "cx"})
        /\ OnCtl("CX", g, <<>>) \in Emissions(g, {"h", "cx"})
    BY <1>2, <1>3, Creates
  <2> QED
    BY <2>1, ThreeOf DEF rewriteCzToUpperHCxH
<1>6. rewriteCyToSCxSdg(g) \in Seq(Emissions(g, {"s", "cx", "sdg"}))
  <2>1. /\ On("S", g, <<>>) \in Emissions(g, {"s", "cx", "sdg"})
        /\ OnCtl("CX", g, <<>>) \in Emissions(g, {"s", "cx", "sdg"})
        /\ On("SAdj", g, <<>>) \in Emissions(g, {"s", "cx", "sdg"})
    BY <1>2, <1>3, Creates
  <2> QED
    BY <2>1, ThreeOf DEF rewriteCyToSCxSdg
<1> QED
  BY <1>4, <1>5, <1>6

\* A rotation without a target, and a controlled u3, are not recognised.
LEMMA UnrecognisedRz ==
  ASSUME NEW g, NEW par \in Seq(Int)
  PROVE  Record("rz", FALSE, <<>>, <<>>, par) \in Emissions(g, {NoMnemonic})
<1> DEFINE e == Record("rz", FALSE, <<>>, <<>>, par)
<1>1. "rz" \in QuakeOps /\ <<>> \in Seq(Nat)
  BY Names
<1>2. e \in Operations /\ Qubits(e) = {}
  BY <1>1 DEF Record, Operations, Qubits, ToSet
<1>3. Len(e.tgt) = 0
  BY DEF Record
<1> HIDE DEF e
<1>4. \A s \in Shapes : ~HasShape(e, s)
  BY <1>3 DEF Shapes, Shape, HasShape
<1> QED
  BY <1>2, <1>4 DEF ClassifyOp, Emissions, e

LEMMA UnrecognisedU3 ==
  ASSUME NEW g, NEW c \in Nat, NEW q \in Nat, c \in Qubits(g), q \in Qubits(g),
         NEW par \in Seq(Int)
  PROVE  Record("u3", FALSE, <<c>>, <<q>>, par) \in Emissions(g, {NoMnemonic})
<1> DEFINE e == Record("u3", FALSE, <<c>>, <<q>>, par)
<1>1. "u3" \in QuakeOps /\ <<c>> \in Seq(Nat) /\ <<q>> \in Seq(Nat)
  BY Names
<1>2. e \in Operations /\ Qubits(e) = {c, q}
  BY <1>1 DEF Record, Operations, Qubits, ToSet
<1>3. e.op = "u3" /\ Len(e.ctl) = 1
  BY DEF Record
<1> HIDE DEF e
<1>4. \A s \in Shapes : ~HasShape(e, s)
  BY <1>3 DEF Shapes, Shape, HasShape
<1>5. e \in Emissions(g, {NoMnemonic})
  BY <1>2, <1>4 DEF ClassifyOp, Emissions
<1> QED
  BY <1>5 DEF e

\* What the rules for controlled rotations emit has lost the control, or the
\* target, or is a controlled u3.
LEMMA ControlledRotationRewrites ==
  ASSUME NEW g \in Operations, Len(g.tgt) = 1, Len(g.ctl) = 1, Len(g.par) = 1
  PROVE  /\ rewriteCrxToHCrzH(g) \in Seq(Emissions(g, {"h", "rz"}))
         /\ rewriteCrzToHCrxH(g) \in Seq(Emissions(g, {"h", "rx", "sx"}))
         /\ rewriteCrzToRzCu3(g) \in Seq(Emissions(g, {NoMnemonic}))
         /\ rewriteCrzToRzCxRzCx(g) \in Seq(Emissions(g, {"rz", "cx"}))
         /\ rewriteCryToRzCrxRz(g) \in Seq(Emissions(g, {"rz", "rx", "sx"}))
<1>1. /\ g.par \in Seq(Int) /\ g.par[1] \in Int /\ Half(g.par[1]) \in Int /\ -Half(g.par[1]) \in Int
      /\ OnCtl("RX", g, g.par) = On("RX", g, g.par) /\ OnCtl("RZ", g, g.par) = On("RZ", g, g.par)
  <2>1. g.par \in Seq(Int) /\ g.par[1] \in Int
    BY DEF Operations
  <2>2. Half(g.par[1]) \in Int /\ -Half(g.par[1]) \in Int
    BY <2>1 DEF Half
  <2> QED
    BY <2>1, <2>2, CreatesRotation
<1>2. rewriteCrxToHCrzH(g) \in Seq(Emissions(g, {"h", "rz"}))
  <2>1. On("H", g, <<>>) \in Emissions(g, {"h", "rz"}) /\ On("RZ", g, g.par) \in Emissions(g, {"h", "rz"})
    BY <1>1, Creates, CreatesRotations
  <2> QED
    BY <1>1, <2>1, ThreeOf DEF rewriteCrxToHCrzH
<1>3. rewriteCrzToHCrxH(g) \in Seq(Emissions(g, {"h", "rx", "sx"}))
  <2>1. /\ On("H", g, <<>>) \in Emissions(g, {"h", "rx", "sx"})
        /\ On("RX", g, g.par) \in Emissions(g, {"h", "rx", "sx"})
    BY <1>1, Creates, CreatesRotations
  <2> QED
    BY <1>1, <2>1, ThreeOf DEF rewriteCrzToHCrxH
<1>4. rewriteCryToRzCrxRz(g) \in Seq(Emissions(g, {"rz", "rx", "sx"}))
  <2>1. /\ On("RZ", g, <<-HalfPi>>) \in Emissions(g, {"rz", "rx", "sx"})
        /\ On("RZ", g, <<HalfPi>>) \in Emissions(g, {"rz", "rx", "sx"})
        /\ On("RX", g, g.par) \in Emissions(g, {"rz", "rx", "sx"})
    BY <1>1, CreatesRotations, AngleType, Angles
  <2> QED
    BY <1>1, <2>1, ThreeOf DEF rewriteCryToRzCrxRz
<1>5. rewriteCrzToRzCxRzCx(g) \in Seq(Emissions(g, {"rz", "cx"}))
  <2>1. /\ On("RZ", g, <<Half(g.par[1])>>) \in Emissions(g, {"rz", "cx"})
        /\ On("RZ", g, <<-Half(g.par[1])>>) \in Emissions(g, {"rz", "cx"})
    BY <1>1, CreatesRotations, AngleType
  <2>2. OnCtl("CX", g, <<>>) \in Emissions(g, {"rz", "cx"})
    BY CreatesControlled DEF Emissions
  <2> QED
    BY <2>1, <2>2 DEF rewriteCrzToRzCxRzCx
<1>6. rewriteCrzToRzCu3(g) \in Seq(Emissions(g, {NoMnemonic}))
  <2> DEFINE a == createQuakeGate("RZ", g.ctl, <<>>, <<-Half(g.par[1])>>, FALSE)
             u == OnCtl("U3", g, <<0, 0, g.par[1]>>)
  <2>1. /\ a = Record("rz", FALSE, <<>>, <<>>, <<-Half(g.par[1])>>)
        /\ u = Record("u3", FALSE, <<g.ctl[1]>>, <<g.tgt[1]>>, <<0, 0, g.par[1]>>)
    BY DEF OnCtl, createQuakeGate, Builder, Rotation, Record
  <2>2. g.ctl[1] \in Nat /\ g.tgt[1] \in Nat /\ g.ctl[1] \in Qubits(g) /\ g.tgt[1] \in Qubits(g)
    BY DEF Operations, Qubits, ToSet
  <2>3. <<-Half(g.par[1])>> \in Seq(Int) /\ <<0, 0, g.par[1]>> \in Seq(Int)
    BY <1>1
  <2>4. a \in Emissions(g, {NoMnemonic}) /\ u \in Emissions(g, {NoMnemonic})
    BY <2>1, <2>2, <2>3, UnrecognisedRz, UnrecognisedU3
  <2> QED
    BY <2>4, ThreeOf DEF rewriteCrzToRzCu3
<1> QED
  BY <1>2, <1>3, <1>4, <1>5, <1>6

-----------------------------------------------------------------------------
(***************************************************************************)
(* The table.                                                              *)
(***************************************************************************)

\* What the class of an operation says of its operands and parameters.
LEMMA ClassShape ==
  ASSUME NEW g, NEW m, ClassifyOp(g) = m, m # NoMnemonic
  PROVE  /\ Len(g.tgt) = IF m = "swap" THEN 2 ELSE 1
         /\ Len(g.ctl) = IF m \in {"cx", "cy", "cz", "crx", "cry", "crz"} THEN 1 ELSE 0
         /\ m \in {"r1", "rx", "sx", "ry", "rz", "crx", "cry", "crz"} => Len(g.par) = 1
         /\ m = "u2" => Len(g.par) = 2
         /\ m = "u3" => Len(g.par) = 3
<1>1. PICK s \in Shapes : /\ HasShape(g, s)
                          /\ m = IF s.mn = "rx" /\ g.par = <<HalfPi>> THEN "sx" ELSE s.mn
  BY ClassifiedHasShape
<1>2. /\ s.ntgt = IF s.mn = "swap" THEN 2 ELSE 1
      /\ s.nctl = IF s.mn \in {"cx", "cy", "cz", "crx", "cry", "crz"} THEN 1 ELSE 0
      /\ s.mn \in {"r1", "rx", "ry", "rz", "crx", "cry", "crz"} => s.npar = 1..1
      /\ s.mn = "u2" => s.npar = 2..2
      /\ s.mn = "u3" => s.npar = 3..3
      /\ s.mn # "sx"
  BY DEF Shapes, Shape
<1>3. /\ m = "swap" <=> s.mn = "swap"
      /\ m \in {"cx", "cy", "cz", "crx", "cry", "crz"} <=> s.mn \in {"cx", "cy", "cz", "crx", "cry", "crz"}
      /\ m \in {"r1", "rx", "sx", "ry", "rz", "crx", "cry", "crz"} =>
           s.mn \in {"r1", "rx", "ry", "rz", "crx", "cry", "crz"}
      /\ m = "u2" => s.mn = "u2"
      /\ m = "u3" => s.mn = "u3"
  BY <1>1, <1>2
<1>4. /\ Len(g.tgt) = s.ntgt /\ Len(g.ctl) = s.nctl
      /\ \A n \in Nat : s.npar = n..n => Len(g.par) = n
  BY <1>1 DEF HasShape
<1> QED
  BY <1>2, <1>3, <1>4

\* What a rule emits: mnemonics of its field `produces', an rx being an sx for one
\* angle; but the rules for controlled rotations emit other things.
Yields(rule) ==
  CASE rule.name = "CrxToHCrzH"   -> {"h", "rz"}
    [] rule.name = "CrzToHCrxH"   -> {"h", "rx", "sx"}
    [] rule.name = "CrzToRzCu3"   -> {NoMnemonic}
    [] rule.name = "CryToRzCrxRz" -> {"rz", "rx", "sx"}
    [] OTHER -> IF "rx" \in rule.produces THEN rule.produces \cup {"sx"} ELSE rule.produces

\* Every rule of the table puts into the kernel what Yields says, on qubits of the
\* operation it replaces, whatever that operation's operands and angles.
THEOREM RulesEmit ==
  ASSUME NEW g \in Operations, NEW m \in DOMAIN DecompositionTable, ClassifyOp(g) = m,
         NEW r \in 1..Len(DecompositionTable[m])
  PROVE  ApplyRule(DecompositionTable[m][r], g)
           \in Seq(Emissions(g, Yields(DecompositionTable[m][r])))
<1> DEFINE rule == DecompositionTable[m][r]
           Right == ApplyRule(rule, g) \in Seq(Emissions(g, Yields(rule)))
<1>0. m # NoMnemonic
  BY DEF DecompositionTable, NoMnemonic
<1>s. /\ Len(g.tgt) = IF m = "swap" THEN 2 ELSE 1
      /\ Len(g.ctl) = IF m \in {"cx", "cy", "cz", "crx", "cry", "crz"} THEN 1 ELSE 0
      /\ m \in {"r1", "rx", "sx", "ry", "rz", "crx", "cry", "crz"} => Len(g.par) = 1
      /\ m = "u2" => Len(g.par) = 2
      /\ m = "u3" => Len(g.par) = 3
  BY <1>0, ClassShape
<1>1. CASE m = "h"
  <2>0. DecompositionTable["h"] = <<Rule("HToRzSxRz", {"rz", "sx"}),
          Rule("HToU3", {"u3"}),
          Rule("HToPhasedRx", {"prx"})>>
    BY DEF DecompositionTable
  <2>1. ASSUME r = 1 PROVE Right
    <3>1. rule = Rule("HToRzSxRz", {"rz", "sx"})
      BY <1>1, <2>0, <2>1
    <3>2. ApplyRule(rule, g) = rewriteHToRzRxRz(g)
      BY <3>1 DEF Rule, ApplyRule
    <3>3. Yields(rule) = {"rz", "sx"}
      BY <3>1 DEF Rule, Yields
    <3>4. rewriteHToRzRxRz(g) \in Seq(Emissions(g, {"rz", "sx"}))
      BY <1>1, <1>s, FixedRewrites
    <3> QED
      BY <3>2, <3>3, <3>4
  <2>2. ASSUME r = 2 PROVE Right
    <3>1. rule = Rule("HToU3", {"u3"})
      BY <1>1, <2>0, <2>2
    <3>2. ApplyRule(rule, g) = rewriteHToU3(g)
      BY <3>1 DEF Rule, ApplyRule
    <3>3. Yields(rule) = {"u3"}
      BY <3>1 DEF Rule, Yields
    <3>4. rewriteHToU3(g) \in Seq(Emissions(g, {"u3"}))
      BY <1>1, <1>s, FixedRewrites
    <3> QED
      BY <3>2, <3>3, <3>4
  <2>3. ASSUME r = 3 PROVE Right
    <3>1. rule = Rule("HToPhasedRx", {"prx"})
      BY <1>1, <2>0, <2>3
    <3>2. ApplyRule(rule, g) = rewriteHToPhasedRx(g)
      BY <3>1 DEF Rule, ApplyRule
    <3>3. Yields(rule) = {"prx"}
      BY <3>1 DEF Rule, Yields
    <3>4. rewriteHToPhasedRx(g) \in Seq(Emissions(g, {"prx"}))
      BY <1>1, <1>s, FixedRewrites
    <3> QED
      BY <3>2, <3>3, <3>4
  <2> QED
    BY <1>1, <2>0, <2>1, <2>2, <2>3
<1>2. CASE m = "x"
  <2>0. DecompositionTable["x"] = <<Rule("XToHZH", {"h", "z"}),
          Rule("XToRx", {"rx"}),
          Rule("XToPhasedRx", {"prx"})>>
    BY DEF DecompositionTable
  <2>1. ASSUME r = 1 PROVE Right
    <3>1. rule = Rule("XToHZH", {"h", "z"})
      BY <1>2, <2>0, <2>1
    <3>2. ApplyRule(rule, g) = rewriteXToHZH(g)
      BY <3>1 DEF Rule, ApplyRule
    <3>3. Yields(rule) = {"h", "z"}
      BY <3>1 DEF Rule, Yields
    <3>4. rewriteXToHZH(g) \in Seq(Emissions(g, {"h", "z"}))
      BY <1>2, <1>s, FixedRewrites
    <3> QED
      BY <3>2, <3>3, <3>4
  <2>2. ASSUME r = 2 PROVE Right
    <3>1. rule = Rule("XToRx", {"rx"})
      BY <1>2, <2>0, <2>2
    <3>2. ApplyRule(rule, g) = rewriteXToRx(g)
      BY <3>1 DEF Rule, ApplyRule
    <3>3. Yields(rule) = {"rx", "sx"}
      BY <3>1 DEF Rule, Yields
    <3>4. rewriteXToRx(g) \in Seq(Emissions(g, {"rx", "sx"}))
      BY <1>2, <1>s, FixedRewrites
    <3> QED
      BY <3>2, <3>3, <3>4
  <2>3. ASSUME r = 3 PROVE Right
    <3>1. rule = Rule("XToPhasedRx", {"prx"})
      BY <1>2, <2>0, <2>3
    <3>2. ApplyRule(rule, g) = rewriteXToPhasedRx(g)
      BY <3>1 DEF Rule, ApplyRule
    <3>3. Yields(rule) = {"prx"}
      BY <3>1 DEF Rule, Yields
    <3>4. rewriteXToPhasedRx(g) \in Seq(Emissions(g, {"prx"}))
      BY <1>2, <1>s, FixedRewrites
    <3> QED
      BY <3>2, <3>3, <3>4
  <2> QED
    BY <1>2, <2>0, <2>1, <2>2, <2>3
<1>3. CASE m = "y"
  <2>0. DecompositionTable["y"] = <<Rule("YToRy", {"ry"}),
          Rule("YToPhasedRx", {"prx"})>>
    BY DEF DecompositionTable
  <2>1. ASSUME r = 1 PROVE Right
    <3>1. rule = Rule("YToRy", {"ry"})
      BY <1>3, <2>0, <2>1
    <3>2. ApplyRule(rule, g) = rewriteYToRy(g)
      BY <3>1 DEF Rule, ApplyRule
    <3>3. Yields(rule) = {"ry"}
      BY <3>1 DEF Rule, Yields
    <3>4. rewriteYToRy(g) \in Seq(Emissions(g, {"ry"}))
      BY <1>3, <1>s, FixedRewrites
    <3> QED
      BY <3>2, <3>3, <3>4
  <2>2. ASSUME r = 2 PROVE Right
    <3>1. rule = Rule("YToPhasedRx", {"prx"})
      BY <1>3, <2>0, <2>2
    <3>2. ApplyRule(rule, g) = <<>>
      BY <3>1 DEF Rule, ApplyRule, rewriteYToPhasedRx, Detached
    <3> QED
      BY <3>2
  <2> QED
    BY <1>3, <2>0, <2>1, <2>2
<1>4. CASE m = "z"
  <2>0. DecompositionTable["z"] = <<Rule("ZToHXH", {"h", "x"}),
          Rule("ZToRz", {"rz"})>>
    BY DEF DecompositionTable
  <2>1. ASSUME r = 1 PROVE Right
    <3>1. rule = Rule("ZToHXH", {"h", "x"})
      BY <1>4, <2>0, <2>1
    <3>2. ApplyRule(rule, g) = rewriteZToHXH(g)
      BY <3>1 DEF Rule, ApplyRule
    <3>3. Yields(rule) = {"h", "x"}
      BY <3>1 DEF Rule, Yields
    <3>4. rewriteZToHXH(g) \in Seq(Emissions(g, {"h", "x"}))
      BY <1>4, <1>s, FixedRewrites
    <3> QED
      BY <3>2, <3>3, <3>4
  <2>2. ASSUME r = 2 PROVE Right
    <3>1. rule = Rule("ZToRz", {"rz"})
      BY <1>4, <2>0, <2>2
    <3>2. ApplyRule(rule, g) = rewriteZToRz(g)
      BY <3>1 DEF Rule, ApplyRule
    <3>3. Yields(rule) = {"rz"}
      BY <3>1 DEF Rule, Yields
    <3>4. rewriteZToRz(g) \in Seq(Emissions(g, {"rz"}))
      BY <1>4, <1>s, FixedRewrites
    <3> QED
      BY <3>2, <3>3, <3>4
  <2> QED
    BY <1>4, <2>0, <2>1, <2>2
<1>5. CASE m = "s"
  <2>0. DecompositionTable["s"] = <<Rule("SToRz", {"rz"}),
          Rule("SToSdgSdgSdg", {"sdg"}),
          Rule("SToTT", {"t"}),
          Rule("SToPhasedRx", {"prx"})>>
    BY DEF DecompositionTable
  <2>1. ASSUME r = 1 PROVE Right
    <3>1. rule = Rule("SToRz", {"rz"})
      BY <1>5, <2>0, <2>1
    <3>2. ApplyRule(rule, g) = rewriteSToRz(g)
      BY <3>1 DEF Rule, ApplyRule
    <3>3. Yields(rule) = {"rz"}
      BY <3>1 DEF Rule, Yields
    <3>4. rewriteSToRz(g) \in Seq(Emissions(g, {"rz"}))
      BY <1>5, <1>s, FixedRewrites
    <3> QED
      BY <3>2, <3>3, <3>4
  <2>2. ASSUME r = 2 PROVE Right
    <3>1. rule = Rule("SToSdgSdgSdg", {"sdg"})
      BY <1>5, <2>0, <2>2
    <3>2. ApplyRule(rule, g) = rewriteSToSdgSdgSdg(g)
      BY <3>1 DEF Rule, ApplyRule
    <3>3. Yields(rule) = {"sdg"}
      BY <3>1 DEF Rule, Yields
    <3>4. rewriteSToSdgSdgSdg(g) \in Seq(Emissions(g, {"sdg"}))
      BY <1>5, <1>s, FixedRewrites
    <3> QED
      BY <3>2, <3>3, <3>4
  <2>3. ASSUME r = 3 PROVE Right
    <3>1. rule = Rule("SToTT", {"t"})
      BY <1>5, <2>0, <2>3
    <3>2. ApplyRule(rule, g) = rewriteSToTT(g)
      BY <3>1 DEF Rule, ApplyRule
    <3>3. Yields(rule) = {"t"}
      BY <3>1 DEF Rule, Yields
    <3>4. rewriteSToTT(g) \in Seq(Emissions(g, {"t"}))
      BY <1>5, <1>s, FixedRewrites
    <3> QED
      BY <3>2, <3>3, <3>4
  <2>4. ASSUME r = 4 PROVE Right
    <3>1. rule = Rule("SToPhasedRx", {"prx"})
      BY <1>5, <2>0, <2>4
    <3>2. ApplyRule(rule, g) = <<>>
      BY <3>1 DEF Rule, ApplyRule, rewriteSToPhasedRx, Detached
    <3> QED
      BY <3>2
  <2> QED
    BY <1>5, <2>0, <2>1, <2>2, <2>3, <2>4
<1>6. CASE m = "sdg"
  <2>0. DecompositionTable["sdg"] = <<Rule("SdgToRz", {"rz"}),
          Rule("SdgToSSS", {"s"})>>
    BY DEF DecompositionTable
  <2>1. ASSUME r = 1 PROVE Right
    <3>1. rule = Rule("SdgToRz", {"rz"})
      BY <1>6, <2>0, <2>1
    <3>2. ApplyRule(rule, g) = rewriteSdgToRz(g)
      BY <3>1 DEF Rule, ApplyRule
    <3>3. Yields(rule) = {"rz"}
      BY <3>1 DEF Rule, Yields
    <3>4. rewriteSdgToRz(g) \in Seq(Emissions(g, {"rz"}))
      BY <1>6, <1>s, FixedRewrites
    <3> QED
      BY <3>2, <3>3, <3>4
  <2>2. ASSUME r = 2 PROVE Right
    <3>1. rule = Rule("SdgToSSS", {"s"})
      BY <1>6, <2>0, <2>2
    <3>2. ApplyRule(rule, g) = rewriteSdgToSSS(g)
      BY <3>1 DEF Rule, ApplyRule
    <3>3. Yields(rule) = {"s"}
      BY <3>1 DEF Rule, Yields
    <3>4. rewriteSdgToSSS(g) \in Seq(Emissions(g, {"s"}))
      BY <1>6, <1>s, FixedRewrites
    <3> QED
      BY <3>2, <3>3, <3>4
  <2> QED
    BY <1>6, <2>0, <2>1, <2>2
<1>7. CASE m = "t"
  <2>0. DecompositionTable["t"] = <<Rule("TToRz", {"rz"}),
          Rule("TToPhasedRx", {"prx"})>>
    BY DEF DecompositionTable
  <2>1. ASSUME r = 1 PROVE Right
    <3>1. rule = Rule("TToRz", {"rz"})
      BY <1>7, <2>0, <2>1
    <3>2. ApplyRule(rule, g) = rewriteTToRz(g)
      BY <3>1 DEF Rule, ApplyRule
    <3>3. Yields(rule) = {"rz"}
      BY <3>1 DEF Rule, Yields
    <3>4. rewriteTToRz(g) \in Seq(Emissions(g, {"rz"}))
      BY <1>7, <1>s, FixedRewrites
    <3> QED
      BY <3>2, <3>3, <3>4
  <2>2. ASSUME r = 2 PROVE Right
    <3>1. rule = Rule("TToPhasedRx", {"prx"})
      BY <1>7, <2>0, <2>2
    <3>2. ApplyRule(rule, g) = <<>>
      BY <3>1 DEF Rule, ApplyRule, rewriteTToPhasedRx, Detached
    <3> QED
      BY <3>2
  <2> QED
    BY <1>7, <2>0, <2>1, <2>2
<1>8. CASE m = "tdg"
  <2>0. DecompositionTable["tdg"] = <<Rule("TdgToRz", {"rz"})>>
    BY DEF DecompositionTable
  <2>1. ASSUME r = 1 PROVE Right
    <3>1. rule = Rule("TdgToRz", {"rz"})
      BY <1>8, <2>0, <2>1
    <3>2. ApplyRule(rule, g) = rewriteTdgToRz(g)
      BY <3>1 DEF Rule, ApplyRule
    <3>3. Yields(rule) = {"rz"}
      BY <3>1 DEF Rule, Yields
    <3>4. rewriteTdgToRz(g) \in Seq(Emissions(g, {"rz"}))
      BY <1>8, <1>s, FixedRewrites
    <3> QED
      BY <3>2, <3>3, <3>4
  <2> QED
    BY <1>8, <2>0, <2>1
<1>9. CASE m = "r1"
  <2>0. DecompositionTable["r1"] = <<Rule("R1ToRz", {"rz"}),
          Rule("R1ToPhasedRx", {"prx"})>>
    BY DEF DecompositionTable
  <2>1. ASSUME r = 1 PROVE Right
    <3>1. rule = Rule("R1ToRz", {"rz"})
      BY <1>9, <2>0, <2>1
    <3>2. ApplyRule(rule, g) = rewriteR1ToRz(g)
      BY <3>1 DEF Rule, ApplyRule
    <3>3. Yields(rule) = {"rz"}
      BY <3>1 DEF Rule, Yields
    <3>4. rewriteR1ToRz(g) \in Seq(Emissions(g, {"rz"}))
      BY <1>9, <1>s, AngleRewrites
    <3> QED
      BY <3>2, <3>3, <3>4
  <2>2. ASSUME r = 2 PROVE Right
    <3>1. rule = Rule("R1ToPhasedRx", {"prx"})
      BY <1>9, <2>0, <2>2
    <3>2. ApplyRule(rule, g) = <<>>
      BY <3>1 DEF Rule, ApplyRule, rewriteR1ToPhasedRx, Detached
    <3> QED
      BY <3>2
  <2> QED
    BY <1>9, <2>0, <2>1, <2>2
<1>10. CASE m = "rx"
  <2>0. DecompositionTable["rx"] = <<Rule("RxToHRzH", {"h", "rz"}),
          Rule("RxToPhasedRx", {"prx"})>>
    BY DEF DecompositionTable
  <2>1. ASSUME r = 1 PROVE Right
    <3>1. rule = Rule("RxToHRzH", {"h", "rz"})
      BY <1>10, <2>0, <2>1
    <3>2. ApplyRule(rule, g) = rewriteRxToHRzH(g)
      BY <3>1 DEF Rule, ApplyRule
    <3>3. Yields(rule) = {"h", "rz"}
      BY <3>1 DEF Rule, Yields
    <3>4. rewriteRxToHRzH(g) \in Seq(Emissions(g, {"h", "rz"}))
      BY <1>10, <1>s, AngleRewrites
    <3> QED
      BY <3>2, <3>3, <3>4
  <2>2. ASSUME r = 2 PROVE Right
    <3>1. rule = Rule("RxToPhasedRx", {"prx"})
      BY <1>10, <2>0, <2>2
    <3>2. ApplyRule(rule, g) = rewriteRxToPhasedRx(g)
      BY <3>1 DEF Rule, ApplyRule
    <3>3. Yields(rule) = {"prx"}
      BY <3>1 DEF Rule, Yields
    <3>4. rewriteRxToPhasedRx(g) \in Seq(Emissions(g, {"prx"}))
      BY <1>10, <1>s, AngleRewrites
    <3> QED
      BY <3>2, <3>3, <3>4
  <2> QED
    BY <1>10, <2>0, <2>1, <2>2
<1>11. CASE m = "sx"
  <2>0. DecompositionTable["sx"] = <<Rule("SxToPhasedRx", {"prx"})>>
    BY DEF DecompositionTable
  <2>1. ASSUME r = 1 PROVE Right
    <3>1. rule = Rule("SxToPhasedRx", {"prx"})
      BY <1>11, <2>0, <2>1
    <3>2. ApplyRule(rule, g) = rewriteRxToPhasedRx(g)
      BY <3>1 DEF Rule, ApplyRule
    <3>3. Yields(rule) = {"prx"}
      BY <3>1 DEF Rule, Yields
    <3>4. rewriteRxToPhasedRx(g) \in Seq(Emissions(g, {"prx"}))
      BY <1>11, <1>s, AngleRewrites
    <3> QED
      BY <3>2, <3>3, <3>4
  <2> QED
    BY <1>11, <2>0, <2>1
<1>12. CASE m = "ry"
  <2>0. DecompositionTable["ry"] = <<Rule("RyToRzRxRz", {"rz", "rx"})>>
    BY DEF DecompositionTable
  <2>1. ASSUME r = 1 PROVE Right
    <3>1. rule = Rule("RyToRzRxRz", {"rz", "rx"})
      BY <1>12, <2>0, <2>1
    <3>2. ApplyRule(rule, g) = rewriteRyToRzRxRz(g)
      BY <3>1 DEF Rule, ApplyRule
    <3>3. Yields(rule) = {"rz", "rx", "sx"}
      BY <3>1 DEF Rule, Yields
    <3>4. rewriteRyToRzRxRz(g) \in Seq(Emissions(g, {"rz", "rx", "sx"}))
      BY <1>12, <1>s, AngleRewrites
    <3> QED
      BY <3>2, <3>3, <3>4
  <2> QED
    BY <1>12, <2>0, <2>1
<1>13. CASE m = "rz"
  <2>0. DecompositionTable["rz"] = <<Rule("RzToHRxH", {"h", "rx"}),
          Rule("RzToU3", {"u3"}),
          Rule("RzToPhasedRx", {"prx"})>>
    BY DEF DecompositionTable
  <2>1. ASSUME r = 1 PROVE Right
    <3>1. rule = Rule("RzToHRxH", {"h", "rx"})
      BY <1>13, <2>0, <2>1
    <3>2. ApplyRule(rule, g) = rewriteRzToHRxH(g)
      BY <3>1 DEF Rule, ApplyRule
    <3>3. Yields(rule) = {"h", "rx", "sx"}
      BY <3>1 DEF Rule, Yields
    <3>4. rewriteRzToHRxH(g) \in Seq(Emissions(g, {"h", "rx", "sx"}))
      BY <1>13, <1>s, AngleRewrites
    <3> QED
      BY <3>2, <3>3, <3>4
  <2>2. ASSUME r = 2 PROVE Right
    <3>1. rule = Rule("RzToU3", {"u3"})
      BY <1>13, <2>0, <2>2
    <3>2. ApplyRule(rule, g) = rewriteRzToU3(g)
      BY <3>1 DEF Rule, ApplyRule
    <3>3. Yields(rule) = {"u3"}
      BY <3>1 DEF Rule, Yields
    <3>4. rewriteRzToU3(g) \in Seq(Emissions(g, {"u3"}))
      BY <1>13, <1>s, AngleRewrites
    <3> QED
      BY <3>2, <3>3, <3>4
  <2>3. ASSUME r = 3 PROVE Right
    <3>1. rule = Rule("RzToPhasedRx", {"prx"})
      BY <1>13, <2>0, <2>3
    <3>2. ApplyRule(rule, g) = rewriteRzToPhasedRx(g)
      BY <3>1 DEF Rule, ApplyRule
    <3>3. Yields(rule) = {"prx"}
      BY <3>1 DEF Rule, Yields
    <3>4. rewriteRzToPhasedRx(g) \in Seq(Emissions(g, {"prx"}))
      BY <1>13, <1>s, AngleRewrites
    <3> QED
      BY <3>2, <3>3, <3>4
  <2> QED
    BY <1>13, <2>0, <2>1, <2>2, <2>3
<1>14. CASE m = "u2"
  <2>0. DecompositionTable["u2"] = <<Rule("U2ToRzRyRz", {"rz", "ry"}),
          Rule("U2ToU3", {"u3"})>>
    BY DEF DecompositionTable
  <2>1. ASSUME r = 1 PROVE Right
    <3>1. rule = Rule("U2ToRzRyRz", {"rz", "ry"})
      BY <1>14, <2>0, <2>1
    <3>2. ApplyRule(rule, g) = rewriteU2ToRzRyRz(g)
      BY <3>1 DEF Rule, ApplyRule
    <3>3. Yields(rule) = {"rz", "ry"}
      BY <3>1 DEF Rule, Yields
    <3>4. rewriteU2ToRzRyRz(g) \in Seq(Emissions(g, {"rz", "ry"}))
      BY <1>14, <1>s, URewrites
    <3> QED
      BY <3>2, <3>3, <3>4
  <2>2. ASSUME r = 2 PROVE Right
    <3>1. rule = Rule("U2ToU3", {"u3"})
      BY <1>14, <2>0, <2>2
    <3>2. ApplyRule(rule, g) = rewriteU2ToU3(g)
      BY <3>1 DEF Rule, ApplyRule
    <3>3. Yields(rule) = {"u3"}
      BY <3>1 DEF Rule, Yields
    <3>4. rewriteU2ToU3(g) \in Seq(Emissions(g, {"u3"}))
      BY <1>14, <1>s, URewrites
    <3> QED
      BY <3>2, <3>3, <3>4
  <2> QED
    BY <1>14, <2>0, <2>1, <2>2
<1>15. CASE m = "u3"
  <2>0. DecompositionTable["u3"] = <<Rule("U3ToRzRyRz", {"rz", "ry"})>>
    BY DEF DecompositionTable
  <2>1. ASSUME r = 1 PROVE Right
    <3>1. rule = Rule("U3ToRzRyRz", {"rz", "ry"})
      BY <1>15, <2>0, <2>1
    <3>2. ApplyRule(rule, g) = rewriteU3ToRzRyRz(g)
      BY <3>1 DEF Rule, ApplyRule
    <3>3. Yields(rule) = {"rz", "ry"}
      BY <3>1 DEF Rule, Yields
    <3>4. rewriteU3ToRzRyRz(g) \in Seq(Emissions(g, {"rz", "ry"}))
      BY <1>15, <1>s, URewrites
    <3> QED
      BY <3>2, <3>3, <3>4
  <2> QED
    BY <1>15, <2>0, <2>1
<1>16. CASE m = "swap"
  <2>0. DecompositionTable["swap"] = <<Rule("SwapToUpperCxCxCx", {"cx"})>>
    BY DEF DecompositionTable
  <2>1. ASSUME r = 1 PROVE Right
    <3>1. rule = Rule("SwapToUpperCxCxCx", {"cx"})
      BY <1>16, <2>0, <2>1
    <3>2. ApplyRule(rule, g) = rewriteSwapToUpperCxCxCx(g)
      BY <3>1 DEF Rule, ApplyRule
    <3>3. Yields(rule) = {"cx"}
      BY <3>1 DEF Rule, Yields
    <3>4. rewriteSwapToUpperCxCxCx(g) \in Seq(Emissions(g, {"cx"}))
      BY <1>16, <1>s, ControlledRewrites
    <3> QED
      BY <3>2, <3>3, <3>4
  <2> QED
    BY <1>16, <2>0, <2>1
<1>17. CASE m = "cx"
  <2>0. DecompositionTable["cx"] = <<Rule("CxToUpperHCzH", {"h", "cz"})>>
    BY DEF DecompositionTable
  <2>1. ASSUME r = 1 PROVE Right
    <3>1. rule = Rule("CxToUpperHCzH", {"h", "cz"})
      BY <1>17, <2>0, <2>1
    <3>2. ApplyRule(rule, g) = rewriteCxToUpperHCzH(g)
      BY <3>1 DEF Rule, ApplyRule
    <3>3. Yields(rule) = {"h", "cz"}
      BY <3>1 DEF Rule, Yields
    <3>4. rewriteCxToUpperHCzH(g) \in Seq(Emissions(g, {"h", "cz"}))
      BY <1>17, <1>s, ControlledRewrites
    <3> QED
      BY <3>2, <3>3, <3>4
  <2> QED
    BY <1>17, <2>0, <2>1
<1>18. CASE m = "cz"
  <2>0. DecompositionTable["cz"] = <<Rule("CzToUpperHCxH", {"h", "cx"})>>
    BY DEF DecompositionTable
  <2>1. ASSUME r = 1 PROVE Right
    <3>1. rule = Rule("CzToUpperHCxH", {"h", "cx"})
      BY <1>18, <2>0, <2>1
    <3>2. ApplyRule(rule, g) = rewriteCzToUpperHCxH(g)
      BY <3>1 DEF Rule, ApplyRule
    <3>3. Yields(rule) = {"h", "cx"}
      BY <3>1 DEF Rule, Yields
    <3>4. rewriteCzToUpperHCxH(g) \in Seq(Emissions(g, {"h", "cx"}))
      BY <1>18, <1>s, ControlledRewrites
    <3> QED
      BY <3>2, <3>3, <3>4
  <2> QED
    BY <1>18, <2>0, <2>1
<1>19. CASE m = "cy"
  <2>0. DecompositionTable["cy"] = <<Rule("CyToSCxSdg", {"s", "cx", "sdg"})>>
    BY DEF DecompositionTable
  <2>1. ASSUME r = 1 PROVE Right
    <3>1. rule = Rule("CyToSCxSdg", {"s", "cx", "sdg"})
      BY <1>19, <2>0, <2>1
    <3>2. ApplyRule(rule, g) = rewriteCyToSCxSdg(g)
      BY <3>1 DEF Rule, ApplyRule
    <3>3. Yields(rule) = {"s", "cx", "sdg"}
      BY <3>1 DEF Rule, Yields
    <3>4. rewriteCyToSCxSdg(g) \in Seq(Emissions(g, {"s", "cx", "sdg"}))
      BY <1>19, <1>s, ControlledRewrites
    <3> QED
      BY <3>2, <3>3, <3>4
  <2> QED
    BY <1>19, <2>0, <2>1
<1>20. CASE m = "crx"
  <2>0. DecompositionTable["crx"] = <<Rule("CrxToHCrzH", {"h", "crz"})>>
    BY DEF DecompositionTable
  <2>1. ASSUME r = 1 PROVE Right
    <3>1. rule = Rule("CrxToHCrzH", {"h", "crz"})
      BY <1>20, <2>0, <2>1
    <3>2. ApplyRule(rule, g) = rewriteCrxToHCrzH(g)
      BY <3>1 DEF Rule, ApplyRule
    <3>3. Yields(rule) = {"h", "rz"}
      BY <3>1 DEF Rule, Yields
    <3>4. rewriteCrxToHCrzH(g) \in Seq(Emissions(g, {"h", "rz"}))
      BY <1>20, <1>s, ControlledRotationRewrites
    <3> QED
      BY <3>2, <3>3, <3>4
  <2> QED
    BY <1>20, <2>0, <2>1
<1>21. CASE m = "crz"
  <2>0. DecompositionTable["crz"] = <<Rule("CrzToHCrxH", {"h", "crx"}),
          Rule("CrzToRzCu3", {"rz", "u3"}),
          Rule("CrzToRzCxRzCx", {"rz", "cx"})>>
    BY DEF DecompositionTable
  <2>1. ASSUME r = 1 PROVE Right
    <3>1. rule = Rule("CrzToHCrxH", {"h", "crx"})
      BY <1>21, <2>0, <2>1
    <3>2. ApplyRule(rule, g) = rewriteCrzToHCrxH(g)
      BY <3>1 DEF Rule, ApplyRule
    <3>3. Yields(rule) = {"h", "rx", "sx"}
      BY <3>1 DEF Rule, Yields
    <3>4. rewriteCrzToHCrxH(g) \in Seq(Emissions(g, {"h", "rx", "sx"}))
      BY <1>21, <1>s, ControlledRotationRewrites
    <3> QED
      BY <3>2, <3>3, <3>4
  <2>2. ASSUME r = 2 PROVE Right
    <3>1. rule = Rule("CrzToRzCu3", {"rz", "u3"})
      BY <1>21, <2>0, <2>2
    <3>2. ApplyRule(rule, g) = rewriteCrzToRzCu3(g)
      BY <3>1 DEF Rule, ApplyRule
    <3>3. Yields(rule) = {NoMnemonic}
      BY <3>1 DEF Rule, Yields
    <3>4. rewriteCrzToRzCu3(g) \in Seq(Emissions(g, {NoMnemonic}))
      BY <1>21, <1>s, ControlledRotationRewrites
    <3> QED
      BY <3>2, <3>3, <3>4
  <2>3. ASSUME r = 3 PROVE Right
    <3>1. rule = Rule("CrzToRzCxRzCx", {"rz", "cx"})
      BY <1>21, <2>0, <2>3
    <3>2. ApplyRule(rule, g) = rewriteCrzToRzCxRzCx(g)
      BY <3>1 DEF Rule, ApplyRule
    <3>3. Yields(rule) = {"rz", "cx"}
      BY <3>1 DEF Rule, Yields
    <3>4. rewriteCrzToRzCxRzCx(g) \in Seq(Emissions(g, {"rz", "cx"}))
      BY <1>21, <1>s, ControlledRotationRewrites
    <3> QED
      BY <3>2, <3>3, <3>4
  <2> QED
    BY <1>21, <2>0, <2>1, <2>2, <2>3
<1>22. CASE m = "cry"
  <2>0. DecompositionTable["cry"] = <<Rule("CryToRzCrxRz", {"rz", "crx"})>>
    BY DEF DecompositionTable
  <2>1. ASSUME r = 1 PROVE Right
    <3>1. rule = Rule("CryToRzCrxRz", {"rz", "crx"})
      BY <1>22, <2>0, <2>1
    <3>2. ApplyRule(rule, g) = rewriteCryToRzCrxRz(g)
      BY <3>1 DEF Rule, ApplyRule
    <3>3. Yields(rule) = {"rz", "rx", "sx"}
      BY <3>1 DEF Rule, Yields
    <3>4. rewriteCryToRzCrxRz(g) \in Seq(Emissions(g, {"rz", "rx", "sx"}))
      BY <1>22, <1>s, ControlledRotationRewrites
    <3> QED
      BY <3>2, <3>3, <3>4
  <2> QED
    BY <1>22, <2>0, <2>1
<1>23. m \in {"h", "x", "y", "z", "s", "sdg", "t", "tdg", "r1", "rx", "sx", "ry", "rz", "u2", "u3", "swap", "cx", "cz", "cy", "crx", "crz", "cry"}
  BY DEF DecompositionTable
<1> QED
  BY <1>1, <1>2, <1>3, <1>4, <1>5, <1>6, <1>7, <1>8, <1>9, <1>10, <1>11, <1>12, <1>13, <1>14, <1>15, <1>16, <1>17, <1>18, <1>19, <1>20, <1>21, <1>22, <1>23

-----------------------------------------------------------------------------
\* The mnemonics whose rules emit something else than they declare: the control
\* of what they create is lost.
LosesControl == {"crx", "cry", "crz"}

\* What the rules of a mnemonic emit.
LEMMA YieldsOfARule ==
  ASSUME NEW m \in DOMAIN DecompositionTable, NEW r \in 1..Len(DecompositionTable[m]),
         NEW rule, rule = DecompositionTable[m][r]
  PROVE  /\ m \notin LosesControl =>
              /\ rule.produces \cap LosesControl = {}
              /\ Yields(rule) = rule.produces
                   \cup (IF "rx" \in rule.produces THEN {"sx"} ELSE {})
         /\ m = "crx" => "h" \in rule.produces /\ Yields(rule) = {"h", "rz"}
         /\ m = "cry" => "rz" \in rule.produces /\ Yields(rule) = {"rz", "rx", "sx"}
         /\ m # "crz" => NoMnemonic \notin Yields(rule)
         /\ Yields(rule) \cap LosesControl = {}
         /\ m = "sx" => rule.produces = {"prx"}
<1>1. CASE m = "h"
  <2>1. rule \in {Rule("HToRzSxRz", {"rz", "sx"}), Rule("HToU3", {"u3"}),
                  Rule("HToPhasedRx", {"prx"})}
    BY <1>1 DEF DecompositionTable
  <2> QED
    BY <1>1, <2>1 DEF Rule, Yields, LosesControl, NoMnemonic
<1>2. CASE m = "x"
  <2>1. rule \in {Rule("XToHZH", {"h", "z"}), Rule("XToRx", {"rx"}),
                  Rule("XToPhasedRx", {"prx"})}
    BY <1>2 DEF DecompositionTable
  <2> QED
    BY <1>2, <2>1 DEF Rule, Yields, LosesControl, NoMnemonic
<1>3. CASE m = "y"
  <2>1. rule \in {Rule("YToRy", {"ry"}), Rule("YToPhasedRx", {"prx"})}
    BY <1>3 DEF DecompositionTable
  <2> QED
    BY <1>3, <2>1 DEF Rule, Yields, LosesControl, NoMnemonic
<1>4. CASE m = "z"
  <2>1. rule \in {Rule("ZToHXH", {"h", "x"}), Rule("ZToRz", {"rz"})}
    BY <1>4 DEF DecompositionTable
  <2> QED
    BY <1>4, <2>1 DEF Rule, Yields, LosesControl, NoMnemonic
<1>5. CASE m = "s"
  <2>1. rule \in {Rule("SToRz", {"rz"}), Rule("SToSdgSdgSdg", {"sdg"}),
                  Rule("SToTT", {"t"}), Rule("SToPhasedRx", {"prx"})}
    BY <1>5 DEF DecompositionTable
  <2> QED
    BY <1>5, <2>1 DEF Rule, Yields, LosesControl, NoMnemonic
<1>6. CASE m = "sdg"
  <2>1. rule \in {Rule("SdgToRz", {"rz"}), Rule("SdgToSSS", {"s"})}
    BY <1>6 DEF DecompositionTable
  <2> QED
    BY <1>6, <2>1 DEF Rule, Yields, LosesControl, NoMnemonic
<1>7. CASE m = "t"
  <2>1. rule \in {Rule("TToRz", {"rz"}), Rule("TToPhasedRx", {"prx"})}
    BY <1>7 DEF DecompositionTable
  <2> QED
    BY <1>7, <2>1 DEF Rule, Yields, LosesControl, NoMnemonic
<1>8. CASE m = "tdg"
  <2>1. rule \in {Rule("TdgToRz", {"rz"})}
    BY <1>8 DEF DecompositionTable
  <2> QED
    BY <1>8, <2>1 DEF Rule, Yields, LosesControl, NoMnemonic
<1>9. CASE m = "r1"
  <2>1. rule \in {Rule("R1ToRz", {"rz"}), Rule("R1ToPhasedRx", {"prx"})}
    BY <1>9 DEF DecompositionTable
  <2> QED
    BY <1>9, <2>1 DEF Rule, Yields, LosesControl, NoMnemonic
<1>10. CASE m = "rx"
  <2>1. rule \in {Rule("RxToHRzH", {"h", "rz"}), Rule("RxToPhasedRx", {"prx"})}
    BY <1>10 DEF DecompositionTable
  <2> QED
    BY <1>10, <2>1 DEF Rule, Yields, LosesControl, NoMnemonic
<1>11. CASE m = "sx"
  <2>1. rule \in {Rule("SxToPhasedRx", {"prx"})}
    BY <1>11 DEF DecompositionTable
  <2> QED
    BY <1>11, <2>1 DEF Rule, Yields, LosesControl, NoMnemonic
<1>12. CASE m = "ry"
  <2>1. rule \in {Rule("RyToRzRxRz", {"rz", "rx"})}
    BY <1>12 DEF DecompositionTable
  <2> QED
    BY <1>12, <2>1 DEF Rule, Yields, LosesControl, NoMnemonic
<1>13. CASE m = "rz"
  <2>1. rule \in {Rule("RzToHRxH", {"h", "rx"}), Rule("RzToU3", {"u3"}),
                  Rule("RzToPhasedRx", {"prx"})}
    BY <1>13 DEF DecompositionTable
  <2> QED
    BY <1>13, <2>1 DEF Rule, Yields, LosesControl, NoMnemonic
<1>14. CASE m = "u2"
  <2>1. rule \in {Rule("U2ToRzRyRz", {"rz", "ry"}), Rule("U2ToU3", {"u3"})}
    BY <1>14 DEF DecompositionTable
  <2> QED
    BY <1>14, <2>1 DEF Rule, Yields, LosesControl, NoMnemonic
<1>15. CASE m = "u3"
  <2>1. rule \in {Rule("U3ToRzRyRz", {"rz", "ry"})}
    BY <1>15 DEF DecompositionTable
  <2> QED
    BY <1>15, <2>1 DEF Rule, Yields, LosesControl, NoMnemonic
<1>16. CASE m = "swap"
  <2>1. rule \in {Rule("SwapToUpperCxCxCx", {"cx"})}
    BY <1>16 DEF DecompositionTable
  <2> QED
    BY <1>16, <2>1 DEF Rule, Yields, LosesControl, NoMnemonic
<1>17. CASE m = "cx"
  <2>1. rule \in {Rule("CxToUpperHCzH", {"h", "cz"})}
    BY <1>17 DEF DecompositionTable
  <2> QED
    BY <1>17, <2>1 DEF Rule, Yields, LosesControl, NoMnemonic
<1>18. CASE m = "cz"
  <2>1. rule \in {Rule("CzToUpperHCxH", {"h", "cx"})}
    BY <1>18 DEF DecompositionTable
  <2> QED
    BY <1>18, <2>1 DEF Rule, Yields, LosesControl, NoMnemonic
<1>19. CASE m = "cy"
  <2>1. rule \in {Rule("CyToSCxSdg", {"s", "cx", "sdg"})}
    BY <1>19 DEF DecompositionTable
  <2> QED
    BY <1>19, <2>1 DEF Rule, Yields, LosesControl, NoMnemonic
<1>20. CASE m = "crx"
  <2>1. rule \in {Rule("CrxToHCrzH", {"h", "crz"})}
    BY <1>20 DEF DecompositionTable
  <2> QED
    BY <1>20, <2>1 DEF Rule, Yields, LosesControl, NoMnemonic
<1>21. CASE m = "crz"
  <2>1. rule \in {Rule("CrzToHCrxH", {"h", "crx"}), Rule("CrzToRzCu3", {"rz", "u3"}),
                  Rule("CrzToRzCxRzCx", {"rz", "cx"})}
    BY <1>21 DEF DecompositionTable
  <2> QED
    BY <1>21, <2>1 DEF Rule, Yields, LosesControl, NoMnemonic
<1>22. CASE m = "cry"
  <2>1. rule \in {Rule("CryToRzCrxRz", {"rz", "crx"})}
    BY <1>22 DEF DecompositionTable
  <2> QED
    BY <1>22, <2>1 DEF Rule, Yields, LosesControl, NoMnemonic
<1>23. m \in {"h", "x", "y", "z", "s", "sdg", "t", "tdg", "r1", "rx", "sx", "ry", "rz", "u2", "u3", "swap", "cx", "cz", "cy", "crx", "crz", "cry"}
  BY DEF DecompositionTable
<1> QED
  BY <1>1, <1>2, <1>3, <1>4, <1>5, <1>6, <1>7, <1>8, <1>9, <1>10, <1>11, <1>12, <1>13, <1>14, <1>15, <1>16, <1>17, <1>18, <1>19, <1>20, <1>21, <1>22, <1>23
=============================================================================
