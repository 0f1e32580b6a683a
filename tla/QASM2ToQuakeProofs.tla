------------------------- MODULE QASM2ToQuakeProofs -------------------------
(***************************************************************************)
(* Theorems about QASM2ToQuake, for any programs, any names and any width  *)
(* of the numbers.                                                         *)
(***************************************************************************)
EXTENDS QASM2ToQuake, TLAPS

\* Every register lies inside the allocation and behind or before each other
\* one, and what is not in one is not allocated.
Layout ==
  ~wrapped =>
    /\ \A r \in DOMAIN qregs : qregs[r].offset + qregs[r].size <= numQubits
    /\ \A r, s \in DOMAIN qregs : r # s =>
         \/ qregs[r].offset + qregs[r].size <= qregs[s].offset
         \/ qregs[s].offset + qregs[s].size <= qregs[r].offset
    /\ \A i \in 0..(numQubits - 1) : \E r \in DOMAIN qregs :
         qregs[r].offset <= i /\ i < qregs[r].offset + qregs[r].size

\* The extract_refs exist as soon as there are operations, and number all qubits.
Allocation ==
  /\ ~allocated => kernel = <<>>
  /\ allocated /\ status # "rejected" => kernel # <<>>
  /\ allocated => qubits = [i \in 0..(numQubits - 1) |-> i]

InRange(o) == RefsOf(o) \subseteq 0..(numQubits - 1)
References == ~wrapped => \A i \in 1..Len(kernel) : InRange(kernel[i])

IInv ==
  /\ TypeOK
  /\ DOMAIN qregs \cap DOMAIN cregs = {}
  /\ Layout
  /\ Allocation
  /\ References

-----------------------------------------------------------------------------
\* What the statement that is translated looks like.
LEMMA StatementShape ==
  ASSUME TypeOK, Translating
  PROVE  /\ Stmt \in Statement
         /\ Stmt.keyword \in {"qreg", "creg"} => Arg(1) \in Operand \cup {Malformed}
         /\ Stmt.keyword = "measure" =>
              Arg(1) \in Operand \cup {Malformed} /\ Arg(2) \in Operand \cup {Malformed}
         /\ \A i \in 1..Len(Stmt.args) : Arg(i) \in Operand \cup {Malformed}
<1>1. source \in [stmts : Seq(Statement), closed : BOOLEAN]
  BY ProgramsAssumption DEF TypeOK
<1>2. pos \in 1..Len(source.stmts)
  BY <1>1 DEF TypeOK, Translating
<1>3. Stmt \in Statement
  BY <1>1, <1>2 DEF Stmt
<1>4. WellShaped(Stmt)
  BY <1>2, ProgramsAssumption DEF TypeOK, Stmt
<1>5. \A i \in 1..Len(Stmt.args) : Arg(i) \in Operand \cup {Malformed}
  BY <1>3 DEF Statement, Arg
<1>6. Stmt.keyword \in {"qreg", "creg"} => Arg(1) \in Operand \cup {Malformed}
  <2>1. Stmt.keyword \in {"qreg", "creg"} => 1 \in 1..Len(Stmt.args)
    BY <1>4 DEF WellShaped
  <2> QED
    BY <1>5, <2>1
<1>7. Stmt.keyword = "measure" => 1 \in 1..Len(Stmt.args) /\ 2 \in 1..Len(Stmt.args)
  BY <1>4 DEF WellShaped
<1> QED
  BY <1>3, <1>5, <1>6, <1>7

\* A register that can be declared has a name and a size.
LEMMA DeclaredShape ==
  ASSUME NEW o \in Operand \cup {Malformed}, Declares(o)
  PROVE  /\ o.name \in Name /\ o.index \in 1..(Word - 1)
         /\ o.name \notin DOMAIN qregs \cup DOMAIN cregs
BY WordAssumption DEF Operand, Declares

\* The reference an operand gets is in range, and is the qubit it names.
LEMMA Resolves ==
  ASSUME IInv, NEW r \in DOMAIN qregs, NEW k \in 0..(qregs[r].size - 1)
  PROVE  /\ QubitOf(r, k) \in Ref
         /\ ~wrapped => QubitOf(r, k) = qregs[r].offset + k
         /\ ~wrapped => qregs[r].offset + k \in 0..(numQubits - 1)
<1>1. qregs[r].offset \in 0..(Word - 1) /\ qregs[r].size \in 1..(Word - 1)
  BY DEF IInv, TypeOK, Register
<1>2. numQubits \in 0..(Word - 1) /\ Word \in Nat
  BY WordAssumption DEF IInv, TypeOK
<1>3. Qubits = [i \in 0..(numQubits - 1) |-> i]
  BY DEF IInv, Allocation, Qubits
<1>4. \A i : At(i) \in Ref
  BY <1>2, <1>3 DEF At, Ref
<1>5. ASSUME ~wrapped
      PROVE  qregs[r].offset + k \in 0..(numQubits - 1)
  BY <1>1, <1>2, <1>5 DEF IInv, Layout
<1>6. ASSUME ~wrapped
      PROVE  Plus(qregs[r].offset, k) = qregs[r].offset + k
  <2>1. qregs[r].offset + k \in 0..(Word - 1)
    BY <1>2, <1>5, <1>6
  <2> QED
    BY <2>1, <1>2 DEF Plus
<1> QED
  BY <1>3, <1>4, <1>5, <1>6 DEF QubitOf, At

-----------------------------------------------------------------------------
\* The empty sequence is the function that is defined nowhere.
LEMMA Nowhere == DOMAIN <<>> = {} /\ \A S : <<>> \in [DOMAIN <<>> -> S]
<1>1. <<>> \in Seq({})
  OBVIOUS
<1>2. DOMAIN <<>> = 1..0
  BY <1>1
<1>3. <<>> = [i \in {} |-> i]
  BY <1>1, <1>2
<1> QED
  BY <1>2, <1>3

LEMMA IInvInit == Init => IInv
<1> SUFFICES ASSUME Init PROVE IInv
  OBVIOUS
<1>1. source \in Programs /\ source.stmts \in Seq(Statement)
  BY ProgramsAssumption DEF Init
<1>2. pos \in 1..(Len(source.stmts) + 1)
  BY <1>1 DEF Init
<1>3. qregs = <<>> /\ cregs = <<>> /\ qubits = <<>> /\ kernel = <<>>
  BY DEF Init
<1>4. /\ DOMAIN qregs \subseteq Name /\ qregs \in [DOMAIN qregs -> Register]
      /\ DOMAIN cregs \subseteq Name /\ cregs \in [DOMAIN cregs -> 1..(Word - 1)]
      /\ qubits \in [DOMAIN qubits -> 0..(Word - 1)]
  BY <1>3, Nowhere, Zenon
<1>5. numQubits \in 0..(Word - 1) /\ kernel \in Seq(Op)
  BY <1>3, WordAssumption DEF Init
<1>6. TypeOK
  BY <1>1, <1>2, <1>4, <1>5, Zenon DEF Init, TypeOK
<1> QED
  BY <1>3, <1>6, Nowhere, WordAssumption DEF Init, IInv, Layout, Allocation, References

-----------------------------------------------------------------------------
\* What every statement that is translated does to the position.
LEMMA AdvanceType ==
  ASSUME TypeOK, Translating, Advance
  PROVE  /\ source' \in Programs /\ pos' \in 1..(Len(source'.stmts) + 1)
         /\ status' \in {"reading", "accepted", "rejected"}
<1>1. source.stmts \in Seq(Statement)
  BY ProgramsAssumption DEF TypeOK
<1> QED
  BY <1>1 DEF TypeOK, Translating, Advance

\* A statement that uses qubits appends operations on qubits of the allocation.
LEMMA UseStep ==
  ASSUME IInv, Translating, Advance, EnsureAllocated,
         UNCHANGED <<qregs, cregs, numQubits, wrapped>>,
         NEW ops \in Seq(Op), ops # <<>>,
         ~wrapped => \A i \in 1..Len(ops) : InRange(ops[i]),
         kernel' = kernel \o ops
  PROVE  IInv'
<1> USE DEF IInv
<1>1. kernel \in Seq(Op)
  BY DEF TypeOK
<1>2. kernel' \in Seq(Op) /\ kernel' # <<>>
  BY <1>1
<1>3. qubits' = [i \in 0..(numQubits - 1) |-> i]
  BY DEF EnsureAllocated, Qubits, Allocation
<1>4. numQubits \in 0..(Word - 1) /\ Word \in Nat
  BY WordAssumption DEF TypeOK
<1>5. qubits' \in [DOMAIN qubits' -> 0..(Word - 1)]
  BY <1>3, <1>4
<1>6. /\ DOMAIN qregs' \subseteq Name /\ qregs' \in [DOMAIN qregs' -> Register]
      /\ DOMAIN cregs' \subseteq Name /\ cregs' \in [DOMAIN cregs' -> 1..(Word - 1)]
      /\ numQubits' \in 0..(Word - 1) /\ allocated' \in BOOLEAN /\ wrapped' \in BOOLEAN
  BY Zenon DEF TypeOK, EnsureAllocated
<1>7. TypeOK'
  BY <1>2, <1>5, <1>6, AdvanceType, Zenon DEF TypeOK
<1>8. DOMAIN qregs' \cap DOMAIN cregs' = {}
  OBVIOUS
<1>9. Layout'
  BY DEF Layout
<1>10. Allocation'
  BY <1>2, <1>3 DEF Allocation, EnsureAllocated
<1>11. References'
  <2> SUFFICES ASSUME ~wrapped, NEW i \in 1..Len(kernel')
               PROVE  RefsOf(kernel'[i]) \subseteq 0..(numQubits - 1)
    BY DEF References, InRange
  <2>1. CASE i <= Len(kernel)
    <3>1. kernel'[i] = kernel[i] /\ i \in 1..Len(kernel)
      BY <1>1, <2>1
    <3> QED
      BY <3>1 DEF References, InRange
  <2>2. CASE i > Len(kernel)
    <3>1. kernel'[i] = ops[i - Len(kernel)] /\ i - Len(kernel) \in 1..Len(ops)
      BY <1>1, <2>2
    <3> QED
      BY <3>1 DEF InRange
  <2> QED
    BY <1>1, <2>1, <2>2
<1> QED
  BY <1>7, <1>8, <1>9, <1>10, <1>11

\* An operand that names a qubit is resolved to it.
LEMMA OperandFacts ==
  ASSUME IInv, NEW o \in Operand \cup {Malformed}, IsQubit(o)
  PROVE  /\ o.name \in DOMAIN qregs /\ o.index \in 0..(qregs[o.name].size - 1)
         /\ OperandQubit(o) \in Ref
         /\ ~wrapped => OperandQubit(o) \in 0..(numQubits - 1)
<1>1. o.name \in DOMAIN qregs /\ o.index \in 0..(qregs[o.name].size - 1)
  BY DEF IsQubit, IsIndexed, Operand, IInv, TypeOK, Register
<1> QED
  BY <1>1, Resolves DEF OperandQubit

LEMMA MzType ==
  ASSUME NEW q \in Ref
  PROVE  Mz(q) \in Op /\ RefsOf(Mz(q)) = {q}
<1>1. <<>> \in Seq(Ref) /\ <<q>> \in Seq(Ref) /\ Len(<<>>) = 0 /\ Len(<<q>>) = 1
  OBVIOUS
<1>2. Mz(q) \in Op
  <2>1. "mz" \in OpName /\ FALSE \in BOOLEAN
    BY DEF OpName
  <2> QED
    BY <1>1, <2>1, Zenon DEF Mz, QuakeOp, Op
<1>3. RefsOf(Mz(q)) = {<<>>[i] : i \in 1..0} \cup {<<q>>[i] : i \in 1..1}
  BY <1>1 DEF Mz, QuakeOp, RefsOf
<1> QED
  BY <1>2, <1>3

\* The table of gates: one control at most.
LEMMA GateTable ==
  ASSUME NEW k \in GateNames
  PROVE  /\ SupportedGates[k].ctls \in {0, 1}
         /\ SupportedGates[k].adj \in BOOLEAN
         /\ SupportedGates[k].op \in OpName
<1>1. SupportedGates[k] =
        [op   |-> CASE k = "sdg" -> "s" [] k = "tdg" -> "t"
                    [] k = "cx"  -> "x" [] k = "cz"  -> "z" [] OTHER -> k,
         adj  |-> k = "sdg" \/ k = "tdg",
         ctls |-> IF k \in {"cx", "cz"} THEN 1 ELSE 0]
  BY DEF SupportedGates
<1>2. SupportedGates[k].ctls \in {0, 1}
  BY <1>1
<1>3. SupportedGates[k].adj \in BOOLEAN
  <2>1. SupportedGates[k].adj = (k = "sdg" \/ k = "tdg")
    BY <1>1
  <2> QED
    BY <2>1, Zenon
<1>4. SupportedGates[k].op \in OpName
  BY <1>1 DEF OpName, GateNames
<1> QED
  BY <1>2, <1>3, <1>4

LEMMA TranslateGateStep == IInv /\ TranslateGate => IInv'
<1> SUFFICES ASSUME IInv, TranslateGate PROVE IInv'
  OBVIOUS
<1> DEFINE g == SupportedGates[Stmt.keyword]
           ctl == [i \in 1..g.ctls |-> OperandQubit(Arg(i))]
           tgt == <<OperandQubit(Arg(g.ctls + 1))>>
           o == QuakeOp(g.op, g.adj, ctl, tgt)
<1>1. TypeOK /\ Translating
  BY DEF IInv, TranslateGate
<1>2. IsGate
  BY DEF TranslateGate, CanTranslate, GateNames
<1>3. g.ctls \in {0, 1} /\ g.adj \in BOOLEAN /\ g.op \in OpName
  BY <1>2, GateTable DEF IsGate
<1>4. \A i \in 1..(g.ctls + 1) : Arg(i) \in Operand \cup {Malformed} /\ IsQubit(Arg(i))
  BY <1>1, <1>2, StatementShape DEF IsGate
<1>5. \A i \in 1..(g.ctls + 1) :
        /\ OperandQubit(Arg(i)) \in Ref
        /\ ~wrapped => OperandQubit(Arg(i)) \in 0..(numQubits - 1)
  BY <1>4, OperandFacts
<1>6. ctl \in Seq(Ref) /\ tgt \in Seq(Ref) /\ Len(ctl) = g.ctls /\ Len(tgt) = 1
  BY <1>3, <1>5
<1>7. o \in Op
  BY <1>3, <1>6 DEF Op, QuakeOp
<1>8. ~wrapped => InRange(o)
  BY <1>3, <1>5, <1>6 DEF InRange, RefsOf, QuakeOp
<1>9. kernel' = kernel \o <<o>>
  <2>1. kernel' = Append(kernel, o)
    BY Zenon DEF TranslateGate
  <2> HIDE DEF o
  <2> QED
    BY <1>7, <2>1 DEF IInv, TypeOK
<1> HIDE DEF o
<1>10. <<o>> \in Seq(Op) /\ <<o>> # <<>> /\ (~wrapped => \A i \in 1..Len(<<o>>) : InRange(<<o>>[i]))
  BY <1>7, <1>8
<1> QED
  BY <1>1, <1>9, <1>10, UseStep DEF TranslateGate

LEMMA MeasurementFacts ==
  ASSUME IInv, Translating, CanTranslate, Stmt.keyword = "measure"
  PROVE  /\ Arg(1) \in Operand /\ Arg(2) \in Operand
         /\ Arg(1).name \in DOMAIN qregs
         /\ Arg(1).index # Whole => IsQubit(Arg(1))
<1>1. Arg(1) \in Operand \cup {Malformed} /\ Arg(2) \in Operand \cup {Malformed}
  BY StatementShape DEF IInv
<1>2. IsMeasurement
  BY DEF CanTranslate
<1> QED
  BY <1>1, <1>2 DEF IsMeasurement, IsQubit, IsIndexed

LEMMA MeasureQubitStep == IInv /\ MeasureQubit => IInv'
<1> SUFFICES ASSUME IInv, MeasureQubit PROVE IInv'
  OBVIOUS
<1> DEFINE q == OperandQubit(Arg(1))
<1>1. Translating /\ Arg(1) \in Operand /\ IsQubit(Arg(1))
  BY MeasurementFacts DEF MeasureQubit
<1>2. q \in Ref /\ (~wrapped => q \in 0..(numQubits - 1))
  BY <1>1, OperandFacts
<1>3. Mz(q) \in Op /\ (~wrapped => InRange(Mz(q)))
  BY <1>2, MzType DEF InRange
<1>4. kernel' = kernel \o <<Mz(q)>>
  BY <1>3 DEF MeasureQubit, IInv, TypeOK
<1>5. <<Mz(q)>> \in Seq(Op) /\ <<Mz(q)>> # <<>>
      /\ (~wrapped => \A i \in 1..Len(<<Mz(q)>>) : InRange(<<Mz(q)>>[i]))
  BY <1>3
<1> QED
  BY <1>1, <1>4, <1>5, UseStep DEF MeasureQubit

\* The two ways to measure a register.
WholeMz == QuakeOp("mz_veq", FALSE, <<>>, [i \in 1..numQubits |-> i - 1])
EachMz(name) == [i \in 1..qregs[name].size |-> Mz(QubitOf(name, i - 1))]

LEMMA WholeMzType ==
  ASSUME IInv
  PROVE  WholeMz \in Op /\ InRange(WholeMz)
<1> DEFINE all == [i \in 1..numQubits |-> i - 1]
<1>1. numQubits \in 0..(Word - 1) /\ Word \in Nat
  BY WordAssumption DEF IInv, TypeOK
<1>2. all \in Seq(Ref) /\ Len(all) = numQubits /\ <<>> \in Seq(Ref)
  BY <1>1 DEF Ref
<1>3. "mz_veq" \in OpName /\ FALSE \in BOOLEAN
  BY DEF OpName
<1>4. WholeMz \in Op
  BY <1>2, <1>3, Zenon DEF WholeMz, QuakeOp, Op
<1>5. \A i \in 1..numQubits : all[i] \in 0..(numQubits - 1)
  BY <1>1
<1>6. WholeMz.ctl = <<>> /\ WholeMz.tgt = all
  BY DEF WholeMz, QuakeOp
<1> HIDE DEF all
<1> QED
  BY <1>2, <1>4, <1>5, <1>6 DEF InRange, RefsOf

LEMMA EachMzType ==
  ASSUME IInv, NEW name \in DOMAIN qregs
  PROVE  /\ EachMz(name) \in Seq(Op) /\ EachMz(name) # <<>>
         /\ Len(EachMz(name)) = qregs[name].size
         /\ ~wrapped => \A i \in 1..Len(EachMz(name)) : InRange(EachMz(name)[i])
<1>1. qregs[name].size \in 1..(Word - 1)
  BY DEF IInv, TypeOK, Register
<1>2. \A i \in 1..qregs[name].size :
        /\ QubitOf(name, i - 1) \in Ref
        /\ ~wrapped => QubitOf(name, i - 1) \in 0..(numQubits - 1)
  <2> TAKE i \in 1..qregs[name].size
  <2>1. i - 1 \in 0..(qregs[name].size - 1)
    BY <1>1
  <2> QED
    BY <2>1, Resolves
<1>3. \A i \in 1..qregs[name].size :
        /\ Mz(QubitOf(name, i - 1)) \in Op
        /\ ~wrapped => InRange(Mz(QubitOf(name, i - 1)))
  BY <1>2, MzType DEF InRange
<1> QED
  BY <1>1, <1>3 DEF EachMz

LEMMA MeasureRegisterStep == IInv /\ MeasureRegister => IInv'
<1> SUFFICES ASSUME IInv, MeasureRegister PROVE IInv'
  OBVIOUS
<1> DEFINE name == Arg(1).name
           ops == IF IsWholeAllocation(qregs[name]) THEN <<WholeMz>> ELSE EachMz(name)
<1>1. Translating /\ name \in DOMAIN qregs
  BY MeasurementFacts DEF MeasureRegister
<1>2. kernel' = kernel \o ops
  BY Zenon DEF MeasureRegister, WholeMz, EachMz
<1>3. ops \in Seq(Op) /\ ops # <<>> /\ (~wrapped => \A i \in 1..Len(ops) : InRange(ops[i]))
  <2>1. CASE IsWholeAllocation(qregs[name])
    <3>1. <<WholeMz>> \in Seq(Op) /\ <<WholeMz>> # <<>> /\ \A i \in 1..Len(<<WholeMz>>) : InRange(<<WholeMz>>[i])
      BY WholeMzType
    <3> QED
      BY <2>1, <3>1
  <2>2. CASE ~IsWholeAllocation(qregs[name])
    BY <1>1, <2>2, EachMzType
  <2> QED
    BY <2>1, <2>2
<1> HIDE DEF ops
<1> QED
  BY <1>1, <1>2, <1>3, UseStep DEF MeasureRegister

-----------------------------------------------------------------------------
LEMMA DeclareQregStep == IInv /\ DeclareQreg => IInv'
<1> SUFFICES ASSUME IInv, DeclareQreg PROVE IInv'
  OBVIOUS
<1> DEFINE name == Arg(1).name
           size == Arg(1).index
<1>1. TypeOK /\ Translating /\ ~allocated /\ Declares(Arg(1))
  BY DEF IInv, DeclareQreg, CanTranslate
<1>2. name \in Name /\ size \in 1..(Word - 1) /\ name \notin DOMAIN qregs \cup DOMAIN cregs
  BY <1>1, StatementShape, DeclaredShape DEF DeclareQreg
<1>3. numQubits \in 0..(Word - 1) /\ Word \in Nat \ {0, 1}
  BY <1>1, WordAssumption DEF TypeOK
<1>4. /\ DOMAIN qregs' = DOMAIN qregs \cup {name}
      /\ qregs'[name] = [offset |-> numQubits, size |-> size]
      /\ \A r \in DOMAIN qregs : r # name /\ qregs'[r] = qregs[r]
  BY <1>2 DEF DeclareQreg, With
<1>5. [offset |-> numQubits, size |-> size] \in Register
  BY <1>2, <1>3 DEF Register
<1>6. qregs' \in [DOMAIN qregs' -> Register] /\ DOMAIN qregs' \subseteq Name
  <2>1. qregs' = [n \in DOMAIN qregs' |-> qregs'[n]]
    BY <1>4 DEF DeclareQreg, With
  <2>2. \A n \in DOMAIN qregs' : qregs'[n] \in Register
    BY <1>1, <1>4, <1>5 DEF TypeOK
  <2> QED
    BY <1>1, <1>2, <1>4, <2>1, <2>2 DEF TypeOK
<1>7. numQubits' \in 0..(Word - 1) /\ wrapped' \in BOOLEAN
  <2>1. numQubits' \in 0..(Word - 1)
    BY <1>2, <1>3 DEF DeclareQreg, Plus
  <2>2. wrapped' \in BOOLEAN
    BY Zenon DEF DeclareQreg
  <2> QED
    BY <2>1, <2>2
<1>8. UNCHANGED <<cregs, qubits, allocated, kernel>> /\ Advance
  BY DEF DeclareQreg
<1>9. TypeOK'
  BY <1>1, <1>6, <1>7, <1>8, AdvanceType, Zenon DEF TypeOK
<1>10. DOMAIN qregs' \cap DOMAIN cregs' = {}
  BY <1>2, <1>4, <1>8 DEF IInv
<1>11. Layout'
  <2> SUFFICES ASSUME ~wrapped' PROVE Layout'
    BY DEF Layout
  <2>0. ~wrapped /\ ~(numQubits + size >= Word)
    BY Zenon DEF DeclareQreg
  <2>1. ~wrapped /\ numQubits' = numQubits + size
    BY <1>2, <1>3, <2>0 DEF DeclareQreg, Plus
  <2>2. \A r \in DOMAIN qregs : qregs[r].offset + qregs[r].size <= numQubits
                                /\ qregs[r].offset \in Nat /\ qregs[r].size \in Nat
    BY <1>1, <2>1 DEF IInv, Layout, TypeOK, Register
  <2>3. qregs'[name].offset = numQubits /\ qregs'[name].size = size
    BY <1>4
  <2>4. \A r \in DOMAIN qregs' : qregs'[r].offset + qregs'[r].size <= numQubits'
    BY <1>2, <1>3, <1>4, <2>1, <2>2, <2>3
  <2>5. \A r, s \in DOMAIN qregs' : r # s =>
          \/ qregs'[r].offset + qregs'[r].size <= qregs'[s].offset
          \/ qregs'[s].offset + qregs'[s].size <= qregs'[r].offset
    BY <1>4, <2>1, <2>2, <2>3 DEF IInv, Layout
  <2>6. \A i \in 0..(numQubits' - 1) : \E r \in DOMAIN qregs' :
          qregs'[r].offset <= i /\ i < qregs'[r].offset + qregs'[r].size
    <3> TAKE i \in 0..(numQubits' - 1)
    <3>1. CASE i < numQubits
      BY <1>3, <1>4, <2>1, <3>1 DEF IInv, Layout
    <3>2. CASE i >= numQubits
      BY <1>2, <1>3, <1>4, <2>1, <2>3, <3>2
    <3> QED
      BY <1>3, <3>1, <3>2
  <2> QED
    BY <2>4, <2>5, <2>6 DEF Layout
<1>12. Allocation' /\ References'
  BY <1>1, <1>8 DEF IInv, Allocation, References
<1> QED
  BY <1>9, <1>10, <1>11, <1>12 DEF IInv

LEMMA DeclareCregStep == IInv /\ DeclareCreg => IInv'
<1> SUFFICES ASSUME IInv, DeclareCreg PROVE IInv'
  OBVIOUS
<1> DEFINE name == Arg(1).name
           size == Arg(1).index
<1>1. TypeOK /\ Translating /\ Declares(Arg(1))
  BY DEF IInv, DeclareCreg, CanTranslate
<1>2. name \in Name /\ size \in 1..(Word - 1) /\ name \notin DOMAIN qregs \cup DOMAIN cregs
  BY <1>1, StatementShape, DeclaredShape DEF DeclareCreg
<1>3. cregs' = [n \in DOMAIN cregs \cup {name} |-> IF n = name THEN size ELSE cregs[n]]
  BY DEF DeclareCreg, With
<1>4. DOMAIN cregs' = DOMAIN cregs \cup {name} /\ cregs' \in [DOMAIN cregs' -> 1..(Word - 1)]
      /\ DOMAIN cregs' \subseteq Name
  BY <1>1, <1>2, <1>3 DEF TypeOK
<1>5. UNCHANGED <<qregs, numQubits, qubits, allocated, kernel, wrapped>> /\ Advance
  BY DEF DeclareCreg
<1>6. TypeOK'
  BY <1>1, <1>4, <1>5, AdvanceType, Zenon DEF TypeOK
<1>7. DOMAIN qregs' \cap DOMAIN cregs' = {}
  BY <1>2, <1>4, <1>5 DEF IInv
<1>8. Layout' /\ Allocation'
  BY <1>5 DEF IInv, Layout, Allocation, Advance
<1>9. References'
  BY <1>5 DEF IInv, References, InRange, RefsOf
<1> QED
  BY <1>6, <1>7, <1>8, <1>9 DEF IInv

\* The steps that leave registers, qubits and operations alone.
LEMMA OtherSteps == IInv /\ (SkipHeader \/ Fail \/ Finish \/ UNCHANGED vars) => IInv'
<1>1. CASE IInv /\ SkipHeader
  <2>1. UNCHANGED <<qregs, cregs, numQubits, qubits, allocated, kernel, status, wrapped>>
    BY <1>1 DEF SkipHeader, Advance
  <2>2. TypeOK'
    BY <1>1, <2>1, AdvanceType, Zenon DEF IInv, TypeOK, SkipHeader
  <2> QED
    BY <1>1, <2>1, <2>2 DEF IInv, Layout, Allocation, References, InRange, RefsOf
<1>2. CASE IInv /\ Fail
  <2>1. UNCHANGED <<source, pos, qregs, cregs, numQubits, qubits, allocated, wrapped>>
        /\ kernel' = <<>> /\ status' = "rejected"
    BY <1>2 DEF Fail
  <2>2. kernel' \in Seq(Op)
    BY <2>1
  <2>3. TypeOK'
    BY <1>2, <2>1, <2>2, Zenon DEF IInv, TypeOK
  <2> QED
    BY <1>2, <2>1, <2>3 DEF IInv, Layout, Allocation, References
<1>3. CASE IInv /\ (Finish \/ UNCHANGED vars)
  <2>1. /\ UNCHANGED <<source, pos, qregs, cregs, numQubits, qubits, allocated, kernel, wrapped>>
        /\ status' \in {status, "accepted"}
        /\ status' = "rejected" <=> status = "rejected"
    BY <1>3 DEF Finish, vars
  <2>2. TypeOK'
    BY <1>3, <2>1 DEF IInv, TypeOK
  <2> QED
    BY <1>3, <2>1, <2>2 DEF IInv, Layout, Allocation, References, InRange, RefsOf
<1> QED
  BY <1>1, <1>2, <1>3

LEMMA IInvStep == IInv /\ [Next]_vars => IInv'
BY OtherSteps, DeclareQregStep, DeclareCregStep, TranslateGateStep, MeasureQubitStep,
   MeasureRegisterStep, Zenon DEF Next, Step

\* The inductive invariant holds of every translation.
THEOREM Invariant == Spec => []IInv
<1>1. Init => IInv
  BY IInvInit
<1>2. IInv /\ [Next]_vars => IInv'
  BY IInvStep
<1> QED
  BY <1>1, <1>2, PTL DEF Spec

-----------------------------------------------------------------------------
\* The variables of the translator keep their types, whatever it reads.
THEOREM TypeCorrect == Spec => []TypeOK
<1>1. IInv => TypeOK
  BY DEF IInv
<1> QED
  BY <1>1, Invariant, PTL

\* Registers tile the allocation until there are more qubits than an unsigned
\* number can count.
THEOREM LaidOut == Spec => []RegistersTile
<1>1. IInv => RegistersTile
  <2> SUFFICES ASSUME IInv PROVE RegistersTile
    OBVIOUS
  <2>1. \A r \in DOMAIN qregs : qregs[r].offset \in Nat /\ qregs[r].size \in Nat
    BY DEF IInv, TypeOK, Register
  <2>2. numQubits \in Nat
    BY DEF IInv, TypeOK
  <2> QED
    BY <2>1, <2>2 DEF IInv, Layout, RegistersTile, Span
<1> QED
  BY <1>1, Invariant, PTL

\* The allocation has all the qubits declared, and no operation refers to one
\* outside it.
THEOREM StaysInside == Spec => []StaysInsideAllocation
<1>1. IInv => StaysInsideAllocation
  BY DEF IInv, Allocation, References, InRange, StaysInsideAllocation
<1> QED
  BY <1>1, Invariant, PTL

-----------------------------------------------------------------------------
(***************************************************************************)
(* The translation implements QASMProgram.                                 *)
(***************************************************************************)
\* A reference stands for the one qubit that is laid out there.
LEMMA NamesQubit ==
  ASSUME IInv, ~wrapped, NEW r \in DOMAIN qregs, NEW k \in 0..(qregs[r].size - 1)
  PROVE  QubitNamed(qregs[r].offset + k) = <<r, k>>
<1> DEFINE i == qregs[r].offset + k
<1>1. \A s \in DOMAIN qregs : qregs[s].offset \in Nat /\ qregs[s].size \in Nat
  BY DEF IInv, TypeOK, Register
<1>2. <<r, k>> \in NamedQubits /\ NamedBy(i, <<r, k>>)
  BY DEF NamedQubits, NamedBy
<1>3. ASSUME NEW q \in NamedQubits, NamedBy(i, q)
      PROVE  q = <<r, k>>
  <2>1. PICK s \in DOMAIN qregs : q \in {<<s, n>> : n \in 0..(qregs[s].size - 1)}
    BY DEF NamedQubits
  <2>2. PICK n \in 0..(qregs[s].size - 1) : q = <<s, n>>
    BY <2>1
  <2>3. qregs[s].offset + n = qregs[r].offset + k
    BY <1>3, <2>2 DEF NamedBy
  <2>4. s = r
    BY <1>1, <2>3 DEF IInv, Layout
  <2>5. n = k
    BY <1>1, <2>3, <2>4
  <2> QED
    BY <2>2, <2>4, <2>5
<1> HIDE DEF i
<1>4. QubitNamed(i) = <<r, k>>
  BY <1>2, <1>3 DEF QubitNamed
<1> QED
  BY <1>4 DEF i

LEMMA NamesOperand ==
  ASSUME IInv, ~wrapped, NEW o \in Operand \cup {Malformed}, IsQubit(o)
  PROVE  QubitNamed(OperandQubit(o)) = <<o.name, o.index>>
<1>1. o.name \in DOMAIN qregs /\ o.index \in 0..(qregs[o.name].size - 1)
  BY OperandFacts
<1>2. OperandQubit(o) = qregs[o.name].offset + o.index
  BY <1>1, Resolves DEF OperandQubit
<1> QED
  BY <1>1, <1>2, NamesQubit

\* What is appended to the kernel is appended to the circuit.
LEMMA NamedConcat ==
  ASSUME kernel \in Seq(Op), NEW ops \in Seq(Op), kernel' = kernel \o ops, qregs' = qregs
  PROVE  NamedCircuit' = NamedCircuit \o [i \in 1..Len(ops) |-> NamedOp(ops[i])]
<1>1. \A o : NamedOp(o)' = NamedOp(o)
  BY DEF NamedOp, Named, QubitNamed, NamedQubits, NamedBy
<1> QED
  BY <1>1 DEF NamedCircuit

\* While nothing has wrapped, program and translator look at the same statement.
Sizes == [r \in DOMAIN qregs |-> qregs[r].size]

LEMMA SameView ==
  ASSUME IInv, ~wrapped
  PROVE  /\ Translating <=> Program!Reading
         /\ Program!This = Stmt
         /\ \A i : Program!Arg(i) = Arg(i)
         /\ \A o \in Operand \cup {Malformed} : Program!Declares(o) <=> Declares(o)
         /\ \A o \in Operand \cup {Malformed} : Program!IsQubit(o) <=> IsQubit(o)
<1>1. Translating <=> Program!Reading
  BY DEF Translating, Program!Reading
<1>2. Program!This = Stmt
  BY DEF Program!This, Stmt
<1>3. \A i : Program!Arg(i) = Arg(i)
  BY <1>2 DEF Program!Arg, Arg
<1>4. DOMAIN Sizes = DOMAIN qregs /\ \A r \in DOMAIN qregs : Sizes[r] = qregs[r].size
  BY DEF Sizes
<1>5. ASSUME NEW o \in Operand \cup {Malformed}
      PROVE  Program!Declares(o) <=> Declares(o)
  BY <1>4, <1>5, TokensAssumption, WordAssumption
     DEF Program!Declares, Program!Fresh, Declares, Operand, Sizes
<1>6. ASSUME NEW o \in Operand \cup {Malformed}
      PROVE  Program!IsQubit(o) <=> IsQubit(o)
  BY <1>4, <1>6 DEF Program!IsQubit, IsQubit, IsIndexed, Sizes
<1> QED
  BY <1>1, <1>2, <1>3, <1>5, <1>6

\* While nothing has wrapped, the position moves as the program's does, and what
\* an action leaves alone stays.
LEMMA SameConsume ==
  ASSUME ~wrapped, ~wrapped', Advance
  PROVE  Program!Consume
BY DEF Advance, Program!Consume

LEMMA SameRegisters ==
  ASSUME ~wrapped, ~wrapped', UNCHANGED <<qregs, cregs, numQubits>>
  PROVE  UNCHANGED <<IF wrapped THEN <<>> ELSE [r \in DOMAIN qregs |-> qregs[r].size],
                     IF wrapped THEN <<>> ELSE cregs,
                     IF wrapped THEN 0 ELSE numQubits>>
OBVIOUS

LEMMA SameGates == Program!Qelib = SupportedGates /\ Program!KnownGates = GateNames
BY DEF Program!Qelib, SupportedGates, Program!KnownGates, GateNames

LEMMA GateImplements ==
  ASSUME IInv, ~wrapped, ~wrapped', TranslateGate
  PROVE  Program!Gate
<1> DEFINE g == SupportedGates[Stmt.keyword]
           ctl == [i \in 1..g.ctls |-> OperandQubit(Arg(i))]
           tgt == <<OperandQubit(Arg(g.ctls + 1))>>
           o == QuakeOp(g.op, g.adj, ctl, tgt)
           named == Program!Operation(g.op, g.adj,
                      [i \in 1..g.ctls |-> Program!Qubit(Arg(i))],
                      <<Program!Qubit(Arg(g.ctls + 1))>>)
<1>1. TypeOK /\ Translating /\ Advance /\ UNCHANGED <<qregs, cregs, numQubits>>
  BY DEF IInv, TranslateGate
<1>2. IsGate
  BY DEF TranslateGate, CanTranslate, GateNames
<1>3. g.ctls \in {0, 1} /\ g.adj \in BOOLEAN /\ g.op \in OpName
  BY <1>2, GateTable DEF IsGate
<1>4. \A i \in 1..(g.ctls + 1) : Arg(i) \in Operand \cup {Malformed} /\ IsQubit(Arg(i))
  BY <1>1, <1>2, StatementShape DEF IsGate
<1>5. \A i \in 1..(g.ctls + 1) :
        /\ OperandQubit(Arg(i)) \in Ref
        /\ QubitNamed(OperandQubit(Arg(i))) = Program!Qubit(Arg(i))
  BY <1>4, OperandFacts, NamesOperand DEF Program!Qubit
<1>6. ctl \in Seq(Ref) /\ tgt \in Seq(Ref) /\ Len(ctl) = g.ctls /\ Len(tgt) = 1
  BY <1>3, <1>5
<1>7. o \in Op
  BY <1>3, <1>6 DEF Op, QuakeOp
<1>8. NamedOp(o) = named
  <2>1. Named(ctl) = [i \in 1..g.ctls |-> Program!Qubit(Arg(i))]
    BY <1>3, <1>5, <1>6 DEF Named
  <2>2. Named(tgt) = <<Program!Qubit(Arg(g.ctls + 1))>>
    BY <1>3, <1>5, <1>6 DEF Named
  <2>3. o.op = g.op /\ o.adj = g.adj /\ o.ctl = ctl /\ o.tgt = tgt
    BY DEF QuakeOp
  <2> HIDE DEF o, ctl, tgt, g
  <2> QED
    BY <2>1, <2>2, <2>3, Zenon DEF NamedOp, Program!Operation, named
<1>9. kernel' = Append(kernel, o)
  BY Zenon DEF TranslateGate
<1> HIDE DEF o, named
<1>10. kernel \in Seq(Op) /\ <<o>> \in Seq(Op) /\ kernel' = kernel \o <<o>>
  BY <1>1, <1>7, <1>9 DEF TypeOK
<1>11. NamedCircuit' = Append(NamedCircuit, named)
  <2>1. NamedCircuit' = NamedCircuit \o [i \in 1..1 |-> NamedOp(<<o>>[i])]
    BY <1>1, <1>10, NamedConcat
  <2>2. [i \in 1..1 |-> NamedOp(<<o>>[i])] = <<named>>
    BY <1>8
  <2>3. NamedCircuit \in Seq({NamedOp(kernel[i]) : i \in 1..Len(kernel)})
    BY <1>10 DEF NamedCircuit
  <2> QED
    BY <2>1, <2>2, <2>3
<1>12. Program!Reading /\ Program!Consume
  BY <1>1, SameView, SameConsume
<1>13. Program!IsGateStatement
  BY <1>2, <1>4, SameView, SameGates, StatementShape, <1>1 DEF Program!IsGateStatement, IsGate
<1>14. Program!Qelib[Program!This.keyword] = g /\ \A i : Program!Arg(i) = Arg(i)
  BY SameGates, SameView
<1> HIDE DEF g
<1>15. (IF wrapped THEN <<>> ELSE NamedCircuit)' =
         Append(IF wrapped THEN <<>> ELSE NamedCircuit, named)
  BY <1>11
<1>16. UNCHANGED <<IF wrapped THEN <<>> ELSE [r \in DOMAIN qregs |-> qregs[r].size],
                   IF wrapped THEN <<>> ELSE cregs,
                   IF wrapped THEN 0 ELSE numQubits>>
  BY <1>1, SameRegisters
<1> QED
  BY <1>12, <1>13, <1>14, <1>15, <1>16, Zenon DEF Program!Gate, named

LEMMA MeasureQubitImplements ==
  ASSUME IInv, ~wrapped, ~wrapped', MeasureQubit
  PROVE  Program!Measure
<1> DEFINE q == OperandQubit(Arg(1))
           named == Program!Mz(Program!Qubit(Arg(1)))
<1>1. TypeOK /\ Translating /\ Advance /\ UNCHANGED <<qregs, cregs, numQubits>>
      /\ Stmt.keyword = "measure" /\ CanTranslate
  BY DEF IInv, MeasureQubit
<1>2. IsMeasurement /\ Arg(1) \in Operand /\ Arg(2) \in Operand /\ IsQubit(Arg(1))
  BY <1>1, MeasurementFacts DEF CanTranslate, MeasureQubit
<1>3. q \in Ref /\ QubitNamed(q) = Program!Qubit(Arg(1))
  BY <1>2, OperandFacts, NamesOperand DEF Program!Qubit
<1>4. Mz(q) \in Op
  BY <1>3, MzType
<1>5. NamedOp(Mz(q)) = named
  <2>1. Named(<<>>) = <<>> /\ Named(<<q>>) = <<Program!Qubit(Arg(1))>>
    BY <1>3 DEF Named
  <2> HIDE DEF q
  <2> QED
    BY <2>1 DEF NamedOp, Mz, QuakeOp, Program!Mz, Program!Operation
<1>6. kernel \in Seq(Op) /\ <<Mz(q)>> \in Seq(Op) /\ kernel' = kernel \o <<Mz(q)>>
  BY <1>1, <1>4 DEF TypeOK, MeasureQubit
<1> HIDE DEF named, q
<1>7. NamedCircuit' = Append(NamedCircuit, named)
  <2>1. NamedCircuit' = NamedCircuit \o [i \in 1..1 |-> NamedOp(<<Mz(q)>>[i])]
    BY <1>1, <1>6, NamedConcat
  <2>2. [i \in 1..1 |-> NamedOp(<<Mz(q)>>[i])] = <<named>>
    BY <1>5
  <2>3. NamedCircuit \in Seq({NamedOp(kernel[i]) : i \in 1..Len(kernel)})
    BY <1>6 DEF NamedCircuit
  <2> QED
    BY <2>1, <2>2, <2>3
<1>8. Program!Reading /\ Program!Consume /\ Program!This.keyword = "measure"
      /\ Program!Arg(1) = Arg(1) /\ Program!Arg(2) = Arg(2)
  BY <1>1, SameView, SameConsume
<1>9. Program!MeasuresBit
  BY <1>2, <1>8, SameView, TokensAssumption
     DEF Program!MeasuresBit, IsMeasurement, IsIndexed, MeasureQubit
<1>10. (IF wrapped THEN <<>> ELSE NamedCircuit)' =
         Append(IF wrapped THEN <<>> ELSE NamedCircuit, named)
  BY <1>7
<1>11. UNCHANGED <<IF wrapped THEN <<>> ELSE [r \in DOMAIN qregs |-> qregs[r].size],
                   IF wrapped THEN <<>> ELSE cregs,
                   IF wrapped THEN 0 ELSE numQubits>>
  BY <1>1, SameRegisters
<1> QED
  BY <1>8, <1>9, <1>10, <1>11, Zenon DEF Program!Measure, named

\* A register is the whole allocation exactly if there is no other one.
LEMMA OnlyRegister ==
  ASSUME IInv, ~wrapped, NEW r \in DOMAIN qregs
  PROVE  IsWholeAllocation(qregs[r]) <=> DOMAIN qregs = {r}
<1>1. \A s \in DOMAIN qregs : qregs[s].offset \in Nat /\ qregs[s].size \in Nat \ {0}
  BY DEF IInv, TypeOK, Register
<1>2. numQubits \in Nat
  BY DEF IInv, TypeOK
<1>3. ASSUME IsWholeAllocation(qregs[r]), NEW s \in DOMAIN qregs, s # r PROVE FALSE
  BY <1>1, <1>2, <1>3 DEF IInv, Layout, IsWholeAllocation
<1>4. ASSUME DOMAIN qregs = {r} PROVE IsWholeAllocation(qregs[r])
  <2>1. qregs[r].offset + qregs[r].size <= numQubits
    BY DEF IInv, Layout
  <2>2. 0 \in 0..(numQubits - 1) /\ numQubits - 1 \in 0..(numQubits - 1)
    BY <1>1, <1>2, <2>1
  <2>3. qregs[r].offset <= 0 /\ numQubits - 1 < qregs[r].offset + qregs[r].size
    BY <1>4, <2>2 DEF IInv, Layout
  <2> QED
    BY <1>1, <1>2, <2>1, <2>3 DEF IsWholeAllocation
<1> QED
  BY <1>3, <1>4

LEMMA NamedWhole ==
  ASSUME IInv, ~wrapped, NEW r, DOMAIN qregs = {r}
  PROVE  NamedOp(WholeMz) =
           Program!Operation("mz_veq", FALSE, <<>>, Program!QubitsOf(r))
<1> DEFINE all == [i \in 1..numQubits |-> i - 1]
<1>1. qregs[r].offset = 0 /\ qregs[r].size = numQubits /\ numQubits \in Nat
  BY OnlyRegister DEF IInv, TypeOK, IsWholeAllocation
<1>2. all \in Seq(Nat) /\ Len(all) = numQubits
  BY <1>1
<1>3. \A i \in 1..numQubits : QubitNamed(i - 1) = <<r, i - 1>>
  <2> TAKE i \in 1..numQubits
  <2>1. i - 1 \in 0..(qregs[r].size - 1) /\ qregs[r].offset + (i - 1) = i - 1
    BY <1>1
  <2> QED
    BY <2>1, NamesQubit
<1>4. Named(all) = [i \in 1..numQubits |-> <<r, i - 1>>]
  BY <1>1, <1>2, <1>3 DEF Named
<1>5. Program!QubitsOf(r) = [i \in 1..numQubits |-> <<r, i - 1>>]
  BY <1>1 DEF Program!QubitsOf
<1>6. Named(<<>>) = <<>>
  BY DEF Named
<1>7. WholeMz.op = "mz_veq" /\ WholeMz.adj = FALSE /\ WholeMz.ctl = <<>> /\ WholeMz.tgt = all
  BY DEF WholeMz, QuakeOp
<1> HIDE DEF all
<1> QED
  BY <1>4, <1>5, <1>6, <1>7, Zenon DEF NamedOp, Program!Operation

LEMMA NamedEach ==
  ASSUME IInv, ~wrapped, NEW r \in DOMAIN qregs, NEW i \in 1..qregs[r].size
  PROVE  NamedOp(Mz(QubitOf(r, i - 1))) = Program!Mz(<<r, i - 1>>)
<1> DEFINE q == QubitOf(r, i - 1)
<1>1. i - 1 \in 0..(qregs[r].size - 1)
  BY DEF IInv, TypeOK, Register
<1>2. QubitNamed(q) = <<r, i - 1>>
  BY <1>1, Resolves, NamesQubit
<1> HIDE DEF q
<1>3. Named(<<>>) = <<>> /\ Named(<<q>>) = <<<<r, i - 1>>>>
  BY <1>2 DEF Named
<1>4. NamedOp(Mz(q)) = Program!Mz(<<r, i - 1>>)
  BY <1>3 DEF NamedOp, Mz, QuakeOp, Program!Mz, Program!Operation
<1> QED
  BY <1>4 DEF q

LEMMA MeasureRegisterImplements ==
  ASSUME IInv, ~wrapped, ~wrapped', MeasureRegister
  PROVE  Program!Measure
<1> DEFINE name == Arg(1).name
           ops == IF IsWholeAllocation(qregs[name]) THEN <<WholeMz>> ELSE EachMz(name)
           named == Program!MeasuredRegister(name)
<1>1. TypeOK /\ Translating /\ Advance /\ UNCHANGED <<qregs, cregs, numQubits>>
      /\ Stmt.keyword = "measure" /\ CanTranslate /\ Arg(1).index = Whole
  BY DEF IInv, MeasureRegister
<1>2. IsMeasurement /\ Arg(1) \in Operand /\ Arg(2) \in Operand /\ name \in DOMAIN qregs
  BY <1>1, MeasurementFacts DEF CanTranslate
<1>3. kernel' = kernel \o ops
  BY Zenon DEF MeasureRegister, WholeMz, EachMz
<1>4. ops \in Seq(Op) /\ [i \in 1..Len(ops) |-> NamedOp(ops[i])] = named
  <2>1. CASE IsWholeAllocation(qregs[name])
    <3>1. DOMAIN qregs = {name} /\ NamedOp(WholeMz) =
            Program!Operation("mz_veq", FALSE, <<>>, Program!QubitsOf(name))
      BY <1>2, <2>1, OnlyRegister, NamedWhole
    <3>2. named = <<Program!Operation("mz_veq", FALSE, <<>>, Program!QubitsOf(name))>>
      BY <3>1 DEF Program!MeasuredRegister
    <3>3. ops = <<WholeMz>> /\ WholeMz \in Op
      BY <2>1, WholeMzType
    <3> HIDE DEF ops, named
    <3>4. [i \in 1..1 |-> NamedOp(<<WholeMz>>[i])] = <<NamedOp(WholeMz)>>
      OBVIOUS
    <3> QED
      BY <3>1, <3>2, <3>3, <3>4
  <2>2. CASE ~IsWholeAllocation(qregs[name])
    <3>1. DOMAIN qregs # {name}
      BY <1>2, <2>2, OnlyRegister
    <3>2. named = [i \in 1..qregs[name].size |-> Program!Mz(<<name, i - 1>>)]
      BY <1>2, <3>1 DEF Program!MeasuredRegister
    <3>3. ops = EachMz(name) /\ ops \in Seq(Op) /\ Len(ops) = qregs[name].size
      BY <1>2, <2>2, EachMzType
    <3>4. \A i \in 1..qregs[name].size : NamedOp(ops[i]) = Program!Mz(<<name, i - 1>>)
      BY <1>2, <3>3, NamedEach DEF EachMz
    <3> HIDE DEF ops, named
    <3> QED
      BY <3>2, <3>3, <3>4
  <2> QED
    BY <2>1, <2>2
<1> HIDE DEF ops
<1>5. NamedCircuit' = NamedCircuit \o named
  BY <1>1, <1>3, <1>4, NamedConcat DEF TypeOK
<1> HIDE DEF named
<1>6. Program!Reading /\ Program!Consume /\ Program!This.keyword = "measure"
      /\ Program!Arg(1) = Arg(1) /\ Program!Arg(2) = Arg(2)
  BY <1>1, SameView, SameConsume
<1>7. Program!MeasuresRegister
  BY <1>1, <1>2, <1>6, TokensAssumption DEF Program!MeasuresRegister, IsMeasurement
<1>8. (IF wrapped THEN <<>> ELSE NamedCircuit)' =
         (IF wrapped THEN <<>> ELSE NamedCircuit) \o named
  BY <1>5
<1>9. UNCHANGED <<IF wrapped THEN <<>> ELSE [r \in DOMAIN qregs |-> qregs[r].size],
                   IF wrapped THEN <<>> ELSE cregs,
                   IF wrapped THEN 0 ELSE numQubits>>
  BY <1>1, SameRegisters
<1> QED
  BY <1>6, <1>7, <1>8, <1>9, Zenon DEF Program!Measure, named

LEMMA NamedEmpty ==
  ASSUME kernel \in Seq(Op)
  PROVE  NamedCircuit = <<>> <=> kernel = <<>>
<1>1. NamedCircuit \in Seq({NamedOp(kernel[i]) : i \in 1..Len(kernel)})
      /\ Len(NamedCircuit) = Len(kernel)
  BY DEF NamedCircuit
<1> HIDE DEF NamedCircuit
<1> QED
  BY <1>1

\* Program and translator accept the same statements.
LEMMA SameVerdict ==
  ASSUME IInv, ~wrapped, Translating
  PROVE  Program!Meaningful <=> CanTranslate
<1>1. Stmt \in Statement /\ Program!This = Stmt /\ \A i : Program!Arg(i) = Arg(i)
      /\ TypeOK
  BY SameView, StatementShape DEF IInv
<1>2. ASSUME Stmt.keyword \in {"qreg", "creg"}
      PROVE  Program!Declares(Arg(1)) <=> Declares(Arg(1))
  BY <1>1, <1>2, SameView, StatementShape
<1>3. (IF wrapped THEN <<>> ELSE NamedCircuit) = <<>> <=> ~allocated
  BY <1>1, NamedEmpty DEF IInv, Allocation, Translating, TypeOK
<1>4. ASSUME Stmt.keyword = "measure"
      PROVE  Program!MeasuresBit \/ Program!MeasuresRegister <=> IsMeasurement
  <2>1. Arg(1) \in Operand \cup {Malformed} /\ Arg(2) \in Operand \cup {Malformed}
    BY <1>1, <1>4, StatementShape
  <2>2. Program!IsQubit(Arg(1)) <=> IsQubit(Arg(1))
    BY <2>1, SameView
  <2>3. Program!MeasuresBit <=>
          IsQubit(Arg(1)) /\ Arg(2) # Malformed /\ Arg(2).name \in DOMAIN cregs
          /\ IsIndexed(Arg(2), cregs[Arg(2).name])
    BY <1>1, <2>2 DEF Program!MeasuresBit, IsIndexed
  <2>4. Program!MeasuresRegister <=>
          /\ Arg(1) # Malformed /\ Arg(2) # Malformed
          /\ Arg(1).name \in DOMAIN qregs /\ Arg(2).name \in DOMAIN cregs
          /\ Arg(1).index = Whole /\ Arg(2).index = Whole
          /\ qregs[Arg(1).name].size = cregs[Arg(2).name]
    BY <1>1 DEF Program!MeasuresRegister
  <2> QED
    BY <2>1, <2>3, <2>4 DEF IsMeasurement, IsQubit, IsIndexed
<1>5. Program!IsGateStatement <=> IsGate
  <2>1. \A i \in 1..Len(Stmt.args) : Program!IsQubit(Arg(i)) <=> IsQubit(Arg(i))
    BY <1>1, SameView, StatementShape
  <2> QED
    BY <1>1, <2>1, SameGates DEF Program!IsGateStatement, IsGate
<1> QED
  BY <1>1, <1>2, <1>3, <1>4, <1>5, Zenon DEF Program!Meaningful, CanTranslate

LEMMA FailImplements ==
  ASSUME IInv, ~wrapped, ~wrapped', Fail
  PROVE  Program!Reject
<1>1. UNCHANGED <<source, pos, qregs, cregs, numQubits>> /\ status = "reading"
      /\ status' = "rejected" /\ kernel' = <<>>
  BY DEF Fail
<1>2. (IF wrapped THEN <<>> ELSE NamedCircuit)' = <<>>
  BY <1>1 DEF NamedCircuit
<1>3. ~source.closed \/ (Program!Reading /\ ~Program!Meaningful)
  BY SameView, SameVerdict DEF Fail
<1>4. UNCHANGED <<IF wrapped THEN <<>> ELSE [r \in DOMAIN qregs |-> qregs[r].size],
                  IF wrapped THEN <<>> ELSE cregs,
                  IF wrapped THEN 0 ELSE numQubits>>
  BY <1>1, SameRegisters
<1>5. (IF wrapped THEN "too_many" ELSE status) = "reading"
      /\ (IF wrapped THEN "too_many" ELSE status)' = "rejected"
      /\ UNCHANGED <<source, IF wrapped THEN 0 ELSE pos>>
  BY <1>1
<1> QED
  BY <1>2, <1>3, <1>4, <1>5, Zenon DEF Program!Reject

LEMMA FinishImplements ==
  ASSUME IInv, ~wrapped, ~wrapped', Finish
  PROVE  Program!Accept
<1>1. UNCHANGED <<source, pos, qregs, cregs, numQubits, kernel>>
  BY DEF Finish
<1>2. UNCHANGED NamedCircuit
  BY <1>1 DEF NamedCircuit, NamedOp, Named, QubitNamed, NamedQubits, NamedBy
<1>3. UNCHANGED <<IF wrapped THEN <<>> ELSE [r \in DOMAIN qregs |-> qregs[r].size],
                  IF wrapped THEN <<>> ELSE cregs,
                  IF wrapped THEN 0 ELSE numQubits>>
  BY <1>1, SameRegisters
<1>4. UNCHANGED <<source, IF wrapped THEN 0 ELSE pos, IF wrapped THEN <<>> ELSE NamedCircuit>>
  BY <1>1, <1>2
<1>5. (IF wrapped THEN "too_many" ELSE status) = "reading" /\ source.closed
      /\ (IF wrapped THEN 0 ELSE pos) > Len(source.stmts)
      /\ (IF wrapped THEN "too_many" ELSE status)' = "accepted"
  BY DEF Finish
<1> QED
  BY <1>3, <1>4, <1>5, Zenon DEF Program!Accept

LEMMA HeaderImplements ==
  ASSUME IInv, ~wrapped, ~wrapped', SkipHeader
  PROVE  Program!Header
<1>1. UNCHANGED <<qregs, cregs, numQubits, kernel>> /\ Translating /\ Advance
  BY DEF SkipHeader
<1>2. UNCHANGED NamedCircuit
  BY <1>1 DEF NamedCircuit, NamedOp, Named, QubitNamed, NamedQubits, NamedBy
<1>3. UNCHANGED <<IF wrapped THEN <<>> ELSE [r \in DOMAIN qregs |-> qregs[r].size],
                  IF wrapped THEN <<>> ELSE cregs,
                  IF wrapped THEN 0 ELSE numQubits>>
  BY <1>1, SameRegisters
<1>4. UNCHANGED (IF wrapped THEN <<>> ELSE NamedCircuit)
  BY <1>2
<1>5. Program!Reading /\ Program!Consume /\ Program!This = Stmt /\ Program!Arg(1) = Arg(1)
  BY <1>1, SameView, SameConsume
<1>6. Stmt.keyword = "include" \/ (Stmt.keyword = "OPENQASM" /\ Arg(1).name \in Versions2)
  BY DEF SkipHeader, CanTranslate
<1> QED
  BY <1>3, <1>4, <1>5, <1>6, Zenon DEF Program!Header

LEMMA DeclareBitsImplements ==
  ASSUME IInv, ~wrapped, ~wrapped', DeclareCreg
  PROVE  Program!DeclareBits
<1>1. UNCHANGED <<qregs, numQubits, kernel>> /\ Translating /\ Advance
      /\ Stmt.keyword = "creg" /\ Declares(Arg(1))
  BY DEF DeclareCreg, CanTranslate
<1>2. UNCHANGED NamedCircuit
  BY <1>1 DEF NamedCircuit, NamedOp, Named, QubitNamed, NamedQubits, NamedBy
<1>3. UNCHANGED <<IF wrapped THEN <<>> ELSE [r \in DOMAIN qregs |-> qregs[r].size],
                  IF wrapped THEN 0 ELSE numQubits, IF wrapped THEN <<>> ELSE NamedCircuit>>
  BY <1>1, <1>2
<1>4. Program!Reading /\ Program!Consume /\ Program!This = Stmt /\ Program!Arg(1) = Arg(1)
      /\ Program!Declares(Arg(1))
  BY <1>1, SameView, SameConsume, StatementShape DEF IInv
<1>5. (IF wrapped THEN <<>> ELSE cregs)' =
        Program!Extended(IF wrapped THEN <<>> ELSE cregs, Arg(1).name, Arg(1).index)
  BY DEF DeclareCreg, With, Program!Extended
<1> QED
  BY <1>1, <1>3, <1>4, <1>5, Zenon DEF Program!DeclareBits

LEMMA DeclareQubitsImplements ==
  ASSUME IInv, ~wrapped, DeclareQreg
  PROVE  Program!DeclareQubits \/ Program!TooManyQubits
<1> DEFINE name == Arg(1).name
           size == Arg(1).index
<1>1. UNCHANGED <<cregs, kernel>> /\ Translating /\ Advance /\ TypeOK
      /\ Stmt.keyword = "qreg" /\ Declares(Arg(1)) /\ ~allocated
  BY DEF DeclareQreg, CanTranslate, IInv
<1>2. size \in 1..(Word - 1) /\ name \notin DOMAIN qregs /\ numQubits \in 0..(Word - 1)
      /\ Word \in Nat
  BY <1>1, StatementShape, DeclaredShape, WordAssumption DEF TypeOK
<1>3. kernel = <<>> /\ NamedCircuit = <<>> /\ NamedCircuit' = <<>>
  BY <1>1 DEF IInv, Allocation, NamedCircuit
<1>4. Program!Reading /\ Program!This = Stmt /\ Program!Arg(1) = Arg(1)
      /\ Program!Declares(Arg(1))
  BY <1>1, SameView, StatementShape
<1>5. CASE numQubits + size < Word
  <2>0. ~(numQubits + size >= Word)
    BY <1>5, <1>2
  <2>1. ~wrapped'
    BY <2>0, Zenon DEF DeclareQreg
  <2>2. numQubits' = numQubits + size
    BY <1>2, <1>5 DEF DeclareQreg, Plus
  <2>3. [r \in DOMAIN qregs' |-> qregs'[r].size] =
          Program!Extended([r \in DOMAIN qregs |-> qregs[r].size], name, size)
    BY <1>2 DEF DeclareQreg, With, Program!Extended
  <2>4. Program!DeclareQubits
    <3>1. Program!Consume
      BY <1>1, <2>1, SameConsume
    <3>2. (IF wrapped THEN <<>> ELSE [r \in DOMAIN qregs |-> qregs[r].size])' =
            Program!Extended(IF wrapped THEN <<>> ELSE [r \in DOMAIN qregs |-> qregs[r].size],
                             name, size)
      BY <2>1, <2>3
    <3>3. /\ (IF wrapped THEN 0 ELSE numQubits) + size < Word
          /\ (IF wrapped THEN 0 ELSE numQubits)' = (IF wrapped THEN 0 ELSE numQubits) + size
      BY <1>5, <2>1, <2>2
    <3>4. /\ (IF wrapped THEN <<>> ELSE NamedCircuit) = <<>>
          /\ UNCHANGED <<IF wrapped THEN <<>> ELSE cregs, IF wrapped THEN <<>> ELSE NamedCircuit>>
      BY <1>1, <1>3, <2>1
    <3> QED
      BY <1>1, <1>4, <3>1, <3>2, <3>3, <3>4, Zenon DEF Program!DeclareQubits
  <2> QED
    BY <2>4
<1>6. CASE ~(numQubits + size < Word)
  <2>0. numQubits + size >= Word
    BY <1>6, <1>2
  <2>1. wrapped'
    BY <2>0, Zenon DEF DeclareQreg
  <2>2. (IF wrapped THEN <<>> ELSE NamedCircuit) = <<>>
        /\ (IF wrapped THEN 0 ELSE numQubits) + size >= Word
    BY <1>2, <1>3, <1>6
  <2>3. /\ (IF wrapped THEN "too_many" ELSE status)' = "too_many"
        /\ (IF wrapped THEN 0 ELSE pos)' = 0
        /\ (IF wrapped THEN <<>> ELSE [r \in DOMAIN qregs |-> qregs[r].size])' = <<>>
        /\ (IF wrapped THEN <<>> ELSE cregs)' = <<>>
        /\ (IF wrapped THEN 0 ELSE numQubits)' = 0
        /\ (IF wrapped THEN <<>> ELSE NamedCircuit)' = <<>>
    BY <2>1
  <2>4. UNCHANGED source
    BY <1>1 DEF Advance
  <2>5. Program!TooManyQubits
    BY <1>1, <1>4, <2>2, <2>3, <2>4, Zenon DEF Program!TooManyQubits
  <2> QED
    BY <2>5
<1> QED
  BY <1>5, <1>6

\* Nothing is promised once the number of qubits has wrapped.
LEMMA WrappedStutters == wrapped /\ [Next]_vars => UNCHANGED Program!vars
<1> SUFFICES ASSUME wrapped, [Next]_vars PROVE UNCHANGED Program!vars
  OBVIOUS
<1>1. wrapped' /\ UNCHANGED source
  <2>1. CASE DeclareQreg
    <3>1. wrapped'
      BY <2>1, Zenon DEF DeclareQreg
    <3> QED
      BY <2>1, <3>1 DEF DeclareQreg, Advance
  <2>2. CASE ~DeclareQreg
    BY <2>2 DEF Next, Step, vars, SkipHeader, DeclareCreg, TranslateGate, MeasureQubit,
                MeasureRegister, Fail, Finish, Advance
  <2> QED
    BY <2>1, <2>2
<1> QED
  BY <1>1 DEF Program!vars

LEMMA StepImplements == IInv /\ IInv' /\ [Next]_vars => [Program!Next]_(Program!vars)
<1> SUFFICES ASSUME IInv, [Next]_vars, ~wrapped PROVE [Program!Next]_(Program!vars)
  BY WrappedStutters
<1>1. CASE DeclareQreg
  BY <1>1, DeclareQubitsImplements DEF Program!Next
<1>2. ASSUME ~DeclareQreg PROVE ~wrapped'
  BY <1>2 DEF Next, Step, vars, SkipHeader, DeclareCreg, TranslateGate, MeasureQubit,
              MeasureRegister, Fail, Finish
<1>3. CASE ~DeclareQreg /\ Step
  BY <1>2, <1>3, HeaderImplements, DeclareBitsImplements, GateImplements,
     MeasureQubitImplements, MeasureRegisterImplements, FailImplements, FinishImplements
     DEF Step, Program!Next
<1>4. CASE UNCHANGED vars
  BY <1>4 DEF vars, Program!vars, NamedCircuit, NamedOp, Named, QubitNamed, NamedQubits, NamedBy
<1> QED
  BY <1>1, <1>3, <1>4, Zenon DEF Next

\* The kernel does to every qubit what the program says of the one it names, and
\* a program is rejected exactly if one of its statements means nothing: the
\* translation implements QASMProgram (but for liveness), for every program.
THEOREM Implements == Spec => Program!Safety
<1>1. Init => Program!Init
  <2> SUFFICES ASSUME Init PROVE Program!Init
    OBVIOUS
  <2>1. qregs = <<>> /\ cregs = <<>> /\ kernel = <<>> /\ ~wrapped
    BY DEF Init
  <2>2. [r \in DOMAIN qregs |-> qregs[r].size] = <<>>
    BY <2>1, Nowhere
  <2>3. NamedCircuit = <<>>
    BY <2>1 DEF NamedCircuit
  <2> QED
    BY <2>1, <2>2, <2>3 DEF Init, Program!Init
<1>2. IInv /\ IInv' /\ [Next]_vars => [Program!Next]_(Program!vars)
  BY StepImplements
<1> QED
  BY <1>1, <1>2, Invariant, PTL DEF Spec, Program!Safety
=============================================================================
