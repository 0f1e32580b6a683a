----------------------------- MODULE QASMProgram -----------------------------
(***************************************************************************)
(* What an OpenQASM 2 program means: a sequence of operations on named     *)
(* qubits.  The names never become numbers here, and there is neither an   *)
(* allocation nor a layout; it is what the translation to Quake has to     *)
(* agree with (docs/user_guide/qasm2-input.md).                            *)
(*                                                                         *)
(* A program is a record: its statements, and whether the last one is      *)
(* terminated.  A statement is a keyword and the operands behind it; an    *)
(* operand is a name with an index, a name without one (Whole), or a text  *)
(* that is neither (Malformed).                                            *)
(***************************************************************************)
EXTENDS Integers, Sequences

CONSTANTS
  Programs,     \* the programs that may be read
  Versions2,    \* the names a header may carry: the texts that begin with a 2
  Whole,        \* the index of an operand that has none
  Malformed,    \* an operand that cannot be parsed
  Word          \* unsigned numbers are below Word

\* qelib1.inc, as far as it is known: the operation a gate stands for, whether
\* it is the adjoint one, and how many operands in front of the target control it
KnownGates == {"h", "x", "y", "z", "s", "sdg", "t", "tdg", "cx", "cz"}
Qelib ==
  [g \in KnownGates |->
     [op   |-> CASE g = "sdg" -> "s" [] g = "tdg" -> "t"
                 [] g = "cx"  -> "x" [] g = "cz"  -> "z" [] OTHER -> g,
      adj  |-> g = "sdg" \/ g = "tdg",
      ctls |-> IF g \in {"cx", "cz"} THEN 1 ELSE 0]]

VARIABLES
  program,   \* what is read
  at,        \* the statement that is read next
  qsize,     \* name of a quantum register -> its size
  csize,     \* name of a classical register -> its size
  total,     \* the number of qubits
  circuit,   \* the operations, in the order of the statements
  verdict    \* "reading", "accepted", "rejected", or "too_many" qubits

vars == <<program, at, qsize, csize, total, circuit, verdict>>

-----------------------------------------------------------------------------
This == program.stmts[at]
Arg(i) == This.args[i]
Extended(f, name, size) ==
  [n \in DOMAIN f \cup {name} |-> IF n = name THEN size ELSE f[n]]

Fresh(o) == o.name \notin DOMAIN qsize \cup DOMAIN csize
Declares(o) == o # Malformed /\ o.index # Whole /\ o.index > 0 /\ Fresh(o)
IsQubit(o) ==
  /\ o # Malformed
  /\ o.name \in DOMAIN qsize
  /\ o.index # Whole
  /\ o.index < qsize[o.name]

Qubit(o) == <<o.name, o.index>>
QubitsOf(r) == [i \in 1..qsize[r] |-> <<r, i - 1>>]
Operation(op, adj, ctl, tgt) == [op |-> op, adj |-> adj, ctl |-> ctl, tgt |-> tgt]
Mz(q) == Operation("mz", FALSE, <<>>, <<q>>)

\* all qubits in one operation if the register is all there is, else one by one
MeasuredRegister(r) ==
  IF DOMAIN qsize = {r} THEN <<Operation("mz_veq", FALSE, <<>>, QubitsOf(r))>>
  ELSE [i \in 1..qsize[r] |-> Mz(<<r, i - 1>>)]

-----------------------------------------------------------------------------
Init ==
  /\ program \in Programs
  /\ at = 1
  /\ qsize = <<>> /\ csize = <<>> /\ total = 0
  /\ circuit = <<>>
  /\ verdict = "reading"

Reading ==
  verdict = "reading" /\ program.closed /\ at <= Len(program.stmts)

Consume == at' = at + 1 /\ UNCHANGED <<program, verdict>>

Header ==
  /\ Reading
  /\ \/ This.keyword = "OPENQASM" /\ Arg(1).name \in Versions2
     \/ This.keyword = "include"
  /\ Consume
  /\ UNCHANGED <<qsize, csize, total, circuit>>

\* qubits are declared before they are used
DeclareQubits ==
  /\ Reading
  /\ This.keyword = "qreg"
  /\ Declares(Arg(1)) /\ circuit = <<>>
  /\ total + Arg(1).index < Word
  /\ qsize' = Extended(qsize, Arg(1).name, Arg(1).index)
  /\ total' = total + Arg(1).index
  /\ Consume
  /\ UNCHANGED <<csize, circuit>>

\* nothing is promised for more qubits than an unsigned number can count
TooManyQubits ==
  /\ Reading
  /\ This.keyword = "qreg"
  /\ Declares(Arg(1)) /\ circuit = <<>>
  /\ total + Arg(1).index >= Word
  /\ verdict' = "too_many"
  /\ at' = 0 /\ qsize' = <<>> /\ csize' = <<>> /\ total' = 0 /\ circuit' = <<>>
  /\ UNCHANGED program

DeclareBits ==
  /\ Reading
  /\ This.keyword = "creg"
  /\ Declares(Arg(1))
  /\ csize' = Extended(csize, Arg(1).name, Arg(1).index)
  /\ Consume
  /\ UNCHANGED <<qsize, total, circuit>>

IsGateStatement ==
  /\ This.keyword \in KnownGates
  /\ Len(This.args) = Qelib[This.keyword].ctls + 1
  /\ \A i \in 1..Len(This.args) : IsQubit(Arg(i))

Gate ==
  /\ Reading
  /\ IsGateStatement
  /\ LET g == Qelib[This.keyword]
     IN circuit' = Append(circuit,
          Operation(g.op, g.adj, [i \in 1..g.ctls |-> Qubit(Arg(i))],
                    <<Qubit(Arg(g.ctls + 1))>>))
  /\ Consume
  /\ UNCHANGED <<qsize, csize, total>>

\* the classical bit has to exist, and is then forgotten
MeasuresBit ==
  /\ IsQubit(Arg(1))
  /\ Arg(2) # Malformed
  /\ Arg(2).name \in DOMAIN csize
  /\ Arg(2).index # Whole
  /\ Arg(2).index < csize[Arg(2).name]

MeasuresRegister ==
  /\ Arg(1) # Malformed /\ Arg(2) # Malformed
  /\ Arg(1).name \in DOMAIN qsize /\ Arg(2).name \in DOMAIN csize
  /\ Arg(1).index = Whole /\ Arg(2).index = Whole
  /\ qsize[Arg(1).name] = csize[Arg(2).name]

Measure ==
  /\ Reading
  /\ This.keyword = "measure"
  /\ \/ MeasuresBit /\ circuit' = Append(circuit, Mz(Qubit(Arg(1))))
     \/ MeasuresRegister /\ circuit' = circuit \o MeasuredRegister(Arg(1).name)
  /\ Consume
  /\ UNCHANGED <<qsize, csize, total>>

\* A statement with a meaning.  What stands behind a statement without one is
\* never read, so `circuit' tells whether qubits have been used.
Meaningful ==
  CASE This.keyword = "OPENQASM" -> Arg(1).name \in Versions2
    [] This.keyword = "include"  -> TRUE
    [] This.keyword = "qreg"     -> Declares(Arg(1)) /\ circuit = <<>>
    [] This.keyword = "creg"     -> Declares(Arg(1))
    [] This.keyword = "measure"  -> MeasuresBit \/ MeasuresRegister
    [] OTHER                     -> IsGateStatement

Reject ==
  /\ verdict = "reading"
  /\ \/ ~program.closed
     \/ Reading /\ ~Meaningful
  /\ verdict' = "rejected"
  /\ circuit' = <<>>
  /\ UNCHANGED <<program, at, qsize, csize, total>>

Accept ==
  /\ verdict = "reading" /\ program.closed /\ at > Len(program.stmts)
  /\ verdict' = "accepted"
  /\ UNCHANGED <<program, at, qsize, csize, total, circuit>>

Next ==
  \/ Header \/ DeclareQubits \/ TooManyQubits \/ DeclareBits \/ Gate \/ Measure
  \/ Reject \/ Accept

Safety == Init /\ [][Next]_vars

\* every program gets a verdict
Spec == Safety /\ WF_vars(Next)
=============================================================================
