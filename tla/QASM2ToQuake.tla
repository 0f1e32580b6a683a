---------------------------- MODULE QASM2ToQuake ----------------------------
(***************************************************************************)
(* QASM2ToQuakeTranslator (lib/Translation/QASM2ToQuake.cpp): one pass     *)
(* over the statements of an OpenQASM 2 program that builds one kernel.    *)
(* Registers are laid out one behind the other in a single allocation,     *)
(* which is made when the first statement uses a qubit; from then on a     *)
(* qubit is the number of an extract_ref.                                  *)
(*                                                                         *)
(* Statements, operands and programs are those of QASMProgram.  Numbers    *)
(* are unsigned: they wrap at Word.  A read beyond the end of the vector   *)
(* of qubits is undefined; Wild stands for whatever it returns.            *)
(***************************************************************************)
EXTENDS Integers, Sequences, FiniteSets

CONSTANTS Programs, Versions2, Whole, Malformed, Word, Name,
  Keyword,      \* the first words of statements
  Wild          \* not a qubit

Operand == [name : Name, index : (0..(Word - 1)) \cup {Whole}]
Statement == [keyword : Keyword, args : Seq(Operand \cup {Malformed})]
WellShaped(s) ==
  /\ s.keyword = "OPENQASM" => Len(s.args) = 1 /\ s.args[1] \in Operand
  /\ s.keyword \in {"qreg", "creg"} => Len(s.args) = 1
  /\ s.keyword = "measure" => Len(s.args) = 2

ASSUME WordAssumption == Word \in Nat \ {0, 1}
ASSUME TokensAssumption == Whole \notin Nat /\ Malformed \notin Operand
ASSUME WildAssumption == Wild \notin Nat
ASSUME ProgramsAssumption ==
  \A p \in Programs :
    /\ p \in [stmts : Seq(Statement), closed : BOOLEAN]
    /\ \A i \in 1..Len(p.stmts) : WellShaped(p.stmts[i])

\* supportedGates; every gate has one target behind its controls
GateNames == {"h", "x", "y", "z", "s", "sdg", "t", "tdg", "cx", "cz"}
SupportedGates ==
  [g \in GateNames |->
     [op   |-> CASE g = "sdg" -> "s" [] g = "tdg" -> "t"
                 [] g = "cx"  -> "x" [] g = "cz"  -> "z" [] OTHER -> g,
      adj  |-> g = "sdg" \/ g = "tdg",
      ctls |-> IF g \in {"cx", "cz"} THEN 1 ELSE 0]]

VARIABLES
  source,      \* the program
  pos,         \* the statement that is translated next
  qregs,       \* name -> [offset, size]
  cregs,       \* name -> size (the offset of a creg is never read)
  numQubits,
  qubits,      \* the extract_refs: 0..(n - 1) -> index in the allocation
  allocated,
  kernel,      \* operations behind the extract_refs; <<>> once it is dropped
  status,      \* "reading", "accepted" or "rejected" (nullptr)
  wrapped      \* auxiliary: numQubits has wrapped

vars == <<source, pos, qregs, cregs, numQubits, qubits, allocated, kernel, status,
          wrapped>>

-----------------------------------------------------------------------------
Stmt == source.stmts[pos]
Arg(i) == Stmt.args[i]

Plus(a, b) == (a + b) % Word
With(regs, name, reg) ==
  [n \in DOMAIN regs \cup {name} |-> IF n = name THEN reg ELSE regs[n]]

\* ensureAllocated: the extract_refs, made now if there are none yet
Qubits == IF allocated THEN qubits ELSE [i \in 0..(numQubits - 1) |-> i]
EnsureAllocated == allocated' = TRUE /\ qubits' = Qubits

\* qubits[i]
At(i) == IF i \in DOMAIN Qubits THEN Qubits[i] ELSE Wild
QubitOf(name, index) == At(Plus(qregs[name].offset, index))
OperandQubit(o) == QubitOf(o.name, o.index)

\* Mutant: a register may be empty.
DeclaresAny(o) ==
  /\ o # Malformed /\ o.index # Whole
  /\ o.name \notin DOMAIN qregs \cup DOMAIN cregs

\* What goes through declareRegister, lookupQubit, translateGate and
\* translateMeasure without an error.
Declares(o) ==
  /\ o # Malformed /\ o.index \notin {Whole, 0}
  /\ o.name \notin DOMAIN qregs \cup DOMAIN cregs

IsIndexed(o, size) == o.index # Whole /\ o.index < size

IsQubit(o) ==
  o # Malformed /\ o.name \in DOMAIN qregs /\ IsIndexed(o, qregs[o.name].size)

IsGate ==
  /\ Stmt.keyword \in GateNames
  /\ Len(Stmt.args) = SupportedGates[Stmt.keyword].ctls + 1
  /\ \A i \in 1..Len(Stmt.args) : IsQubit(Arg(i))

\* two registers, and a bit of each or the whole of both
IsMeasurement ==
  /\ Arg(1) # Malformed /\ Arg(2) # Malformed
  /\ Arg(1).name \in DOMAIN qregs /\ Arg(2).name \in DOMAIN cregs
  /\ IF Arg(1).index = Whole
     THEN Arg(2).index = Whole /\ qregs[Arg(1).name].size = cregs[Arg(2).name]
     ELSE /\ IsIndexed(Arg(1), qregs[Arg(1).name].size)
          /\ IsIndexed(Arg(2), cregs[Arg(2).name])

\* Mutant: a qreg may follow the operations.
CanTranslateLateQregs ==
  CASE Stmt.keyword = "OPENQASM" -> Arg(1).name \in Versions2
    [] Stmt.keyword = "include"  -> TRUE
    [] Stmt.keyword = "qreg"     -> Declares(Arg(1))
    [] Stmt.keyword = "creg"     -> Declares(Arg(1))
    [] Stmt.keyword = "measure"  -> IsMeasurement
    [] OTHER                     -> IsGate

CanTranslate ==
  CASE Stmt.keyword = "OPENQASM" -> Arg(1).name \in Versions2
    [] Stmt.keyword = "include"  -> TRUE
    [] Stmt.keyword = "qreg"     -> Declares(Arg(1)) /\ ~allocated
    [] Stmt.keyword = "creg"     -> Declares(Arg(1))
    [] Stmt.keyword = "measure"  -> IsMeasurement
    [] OTHER                     -> IsGate

QuakeOp(op, adj, ctl, tgt) == [op |-> op, adj |-> adj, ctl |-> ctl, tgt |-> tgt]
Mz(q) == QuakeOp("mz", FALSE, <<>>, <<q>>)

-----------------------------------------------------------------------------
Init ==
  /\ source \in Programs
  /\ pos = 1
  /\ qregs = <<>> /\ cregs = <<>>
  /\ numQubits = 0
  /\ qubits = <<>>
  /\ allocated = FALSE
  /\ kernel = <<>>
  /\ status = "reading"
  /\ wrapped = FALSE

Translating == status = "reading" /\ source.closed /\ pos <= Len(source.stmts)
Advance == pos' = pos + 1 /\ UNCHANGED <<source, status>>

SkipHeader ==
  /\ Translating
  /\ Stmt.keyword \in {"OPENQASM", "include"}
  /\ CanTranslate
  /\ Advance
  /\ UNCHANGED <<qregs, cregs, numQubits, qubits, allocated, kernel, wrapped>>

\* Mutant: the offset is taken after the register was added.
DeclareQregBehindItself ==
  /\ Translating
  /\ Stmt.keyword = "qreg"
  /\ CanTranslate
  /\ numQubits' = Plus(numQubits, Arg(1).index)
  /\ qregs' = With(qregs, Arg(1).name, [offset |-> numQubits', size |-> Arg(1).index])
  /\ wrapped' = (wrapped \/ numQubits + Arg(1).index >= Word)
  /\ Advance
  /\ UNCHANGED <<cregs, qubits, allocated, kernel>>

\* The offset is the sum of the sizes of the registers declared before, the
\* number that numQubits holds.
DeclareQreg ==
  /\ Translating
  /\ Stmt.keyword = "qreg"
  /\ CanTranslate
  /\ qregs' = With(qregs, Arg(1).name, [offset |-> numQubits, size |-> Arg(1).index])
  /\ numQubits' = Plus(numQubits, Arg(1).index)
  /\ wrapped' = (wrapped \/ numQubits + Arg(1).index >= Word)
  /\ Advance
  /\ UNCHANGED <<cregs, qubits, allocated, kernel>>

DeclareCreg ==
  /\ Translating
  /\ Stmt.keyword = "creg"
  /\ CanTranslate
  /\ cregs' = With(cregs, Arg(1).name, Arg(1).index)
  /\ Advance
  /\ UNCHANGED <<qregs, numQubits, qubits, allocated, kernel, wrapped>>

\* Mutant: the target is taken for the control.
TranslateGateReversed ==
  /\ Translating
  /\ Stmt.keyword \in GateNames
  /\ CanTranslate
  /\ EnsureAllocated
  /\ LET g == SupportedGates[Stmt.keyword]
     IN kernel' = Append(kernel,
          QuakeOp(g.op, g.adj, [i \in 1..g.ctls |-> OperandQubit(Arg(g.ctls + 1))],
                  <<OperandQubit(Arg(1))>>))
  /\ Advance
  /\ UNCHANGED <<qregs, cregs, numQubits, wrapped>>

\* the leading operands are controls, the last one is the target
TranslateGate ==
  /\ Translating
  /\ Stmt.keyword \in GateNames
  /\ CanTranslate
  /\ EnsureAllocated
  /\ LET g == SupportedGates[Stmt.keyword]
     IN kernel' = Append(kernel,
          QuakeOp(g.op, g.adj, [i \in 1..g.ctls |-> OperandQubit(Arg(i))],
                  <<OperandQubit(Arg(g.ctls + 1))>>))
  /\ Advance
  /\ UNCHANGED <<qregs, cregs, numQubits, wrapped>>

MeasureQubit ==
  /\ Translating
  /\ Stmt.keyword = "measure"
  /\ CanTranslate
  /\ Arg(1).index # Whole
  /\ EnsureAllocated
  /\ kernel' = Append(kernel, Mz(OperandQubit(Arg(1))))
  /\ Advance
  /\ UNCHANGED <<qregs, cregs, numQubits, wrapped>>

IsWholeAllocation(reg) == reg.offset = 0 /\ reg.size = numQubits

\* one mz of the veq, or one of every qubit of the register
MeasureRegister ==
  /\ Translating
  /\ Stmt.keyword = "measure"
  /\ CanTranslate
  /\ Arg(1).index = Whole
  /\ EnsureAllocated
  /\ LET name == Arg(1).name
         reg  == qregs[name]
     IN kernel' = kernel \o
          IF IsWholeAllocation(reg)
          THEN <<QuakeOp("mz_veq", FALSE, <<>>, [i \in 1..numQubits |-> i - 1])>>
          ELSE [i \in 1..reg.size |-> Mz(QubitOf(name, i - 1))]
  /\ Advance
  /\ UNCHANGED <<qregs, cregs, numQubits, wrapped>>

\* splitStatements found text behind the last `;', or a statement failed
Fail ==
  /\ status = "reading"
  /\ \/ ~source.closed
     \/ Translating /\ ~CanTranslate
  /\ status' = "rejected"
  /\ kernel' = <<>>
  /\ UNCHANGED <<source, pos, qregs, cregs, numQubits, qubits, allocated, wrapped>>

Finish ==
  /\ status = "reading" /\ source.closed /\ pos > Len(source.stmts)
  /\ status' = "accepted"
  /\ UNCHANGED <<source, pos, qregs, cregs, numQubits, qubits, allocated, kernel,
                 wrapped>>

Step ==
  \/ SkipHeader \/ DeclareQreg \/ DeclareCreg
  \/ TranslateGate \/ MeasureQubit \/ MeasureRegister
  \/ Fail \/ Finish

Next == Step \/ (status # "reading" /\ UNCHANGED vars)

\* the translator is one loop over the statements that waits for nothing
Spec == Init /\ [][Next]_vars /\ WF_vars(Step)

-----------------------------------------------------------------------------
(***************************************************************************)
(* Properties.                                                             *)
(***************************************************************************)
Span(reg) == reg.offset..(reg.offset + reg.size - 1)

Register == [offset : 0..(Word - 1), size : 1..(Word - 1)]
Ref == (0..(Word - 1)) \cup {Wild}
OpName == {"h", "x", "y", "z", "s", "t", "mz", "mz_veq"}
Op == [op : OpName, adj : BOOLEAN, ctl : Seq(Ref), tgt : Seq(Ref)]

\* Every variable has its type: no register is empty, and what is emitted refers to
\* numbers of extract_refs.
TypeOK ==
  /\ source \in Programs
  /\ pos \in 1..(Len(source.stmts) + 1)
  /\ DOMAIN qregs \subseteq Name /\ qregs \in [DOMAIN qregs -> Register]
  /\ DOMAIN cregs \subseteq Name /\ cregs \in [DOMAIN cregs -> 1..(Word - 1)]
  /\ numQubits \in 0..(Word - 1)
  /\ qubits \in [DOMAIN qubits -> 0..(Word - 1)]
  /\ allocated \in BOOLEAN
  /\ kernel \in Seq(Op)
  /\ status \in {"reading", "accepted", "rejected"}
  /\ wrapped \in BOOLEAN

\* "All qregs share a single quake.alloca, laid out in declaration order": as
\* long as the number of qubits has not wrapped, every qubit of the allocation
\* belongs to exactly one register, and no name is one of both kinds.
RegistersTile ==
  /\ DOMAIN qregs \cap DOMAIN cregs = {}
  /\ ~wrapped =>
       /\ \A r, s \in DOMAIN qregs :
            r # s => Span(qregs[r]) \cap Span(qregs[s]) = {}
       /\ \A i \in 0..(numQubits - 1) : \E r \in DOMAIN qregs : i \in Span(qregs[r])
       /\ \A r \in DOMAIN qregs : Span(qregs[r]) \subseteq 0..(numQubits - 1)

RefsOf(o) == {o.ctl[i] : i \in 1..Len(o.ctl)} \cup {o.tgt[i] : i \in 1..Len(o.tgt)}

\* There is a single allocation, of all the qubits that are ever declared, and no
\* operation refers to a qubit outside it, however registers, gates and
\* measurements follow each other.
StaysInsideAllocation ==
  ~wrapped /\ allocated =>
    /\ DOMAIN qubits = 0..(numQubits - 1)
    /\ \A i \in 1..Len(kernel) : RefsOf(kernel[i]) \subseteq DOMAIN qubits

-----------------------------------------------------------------------------
(***************************************************************************)
(* The translation implements QASMProgram: a reference stands for the      *)
(* qubit whose register it lies in.  Once numQubits has wrapped nothing    *)
(* is promised.                                                            *)
(***************************************************************************)
NamedQubits == UNION {{<<r, k>> : k \in 0..(qregs[r].size - 1)} : r \in DOMAIN qregs}

NamedBy(i, q) == qregs[q[1]].offset + q[2] = i
QubitNamed(i) == CHOOSE q \in NamedQubits : NamedBy(i, q)

Named(refs) == [i \in 1..Len(refs) |-> QubitNamed(refs[i])]
NamedOp(o) == [op |-> o.op, adj |-> o.adj, ctl |-> Named(o.ctl), tgt |-> Named(o.tgt)]
NamedCircuit == [i \in 1..Len(kernel) |-> NamedOp(kernel[i])]

Program == INSTANCE QASMProgram WITH
  program <- source,
  at      <- IF wrapped THEN 0 ELSE pos,
  qsize   <- IF wrapped THEN <<>> ELSE [r \in DOMAIN qregs |-> qregs[r].size],
  csize   <- IF wrapped THEN <<>> ELSE cregs,
  total   <- IF wrapped THEN 0 ELSE numQubits,
  circuit <- IF wrapped THEN <<>> ELSE NamedCircuit,
  verdict <- IF wrapped THEN "too_many" ELSE status

\* The kernel does to every qubit what the program says, in the order of the
\* program: whatever the registers, an operation ends up on the qubits that its
\* operands name, a program is rejected exactly if some statement means nothing,
\* and the translator always ends.
ImplementsProgram == Program!Spec
=============================================================================
