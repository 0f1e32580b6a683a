--------------------------- MODULE MCQASM2ToQuake ---------------------------
(***************************************************************************)
(* QASM2ToQuake on every program of some declarations and a short body.    *)
(***************************************************************************)
EXTENDS QASM2ToQuake

CONSTANT BodyLength

S(keyword, args) == [keyword |-> keyword, args |-> args]
O(name, index) == [name |-> name, index |-> index]
W(name) == O(name, Whole)

Qreg(name, size) == S("qreg", <<O(name, size)>>)
Creg(name, size) == S("creg", <<O(name, size)>>)

\* One register; two of different or of equal size, measured whole or not; three,
\* which wrap: behind the second one numQubits is 0, behind the third 2; none.
Declarations ==
  {<<Qreg("q", 2), Creg("c", 2)>>,
   <<S("OPENQASM", <<W("2.0")>>), S("include", <<>>), Creg("c", 2), Qreg("p", 1), Qreg("q", 2)>>,
   <<Qreg("q", 2), Creg("c", 2), Qreg("p", 2)>>,
   <<Qreg("p", 1), Creg("c", 2), Qreg("r", 7), Qreg("q", 2)>>,
   <<S("OPENQASM", <<W("3.0")>>)>>, <<>>}

Body ==
  {Qreg("p", 1), Qreg("c", 1), Qreg("q", 0), Creg("d", 1), S("qreg", <<W("s")>>),
   S("creg", <<Malformed>>),
   S("h", <<O("q", 0)>>), S("sdg", <<O("p", 1)>>), S("tdg", <<W("q")>>), S("x", <<Malformed>>),
   S("cx", <<O("q", 1), O("p", 0)>>), S("cx", <<O("p", 0), O("q", 1)>>), S("cz", <<O("q", 1)>>),
   S("cx", <<O("c", 0), O("q", 0)>>), S("rx", <<O("q", 0)>>), S("barrier", <<W("q")>>),
   S("measure", <<W("q"), W("c")>>), S("measure", <<W("p"), W("d")>>),
   S("measure", <<W("p"), W("c")>>), S("measure", <<O("p", 0), O("c", 1)>>),
   S("measure", <<O("q", 1), O("d", 1)>>), S("measure", <<O("q", 0), W("c")>>),
   S("measure", <<W("q"), Malformed>>), S("measure", <<W("c"), W("q")>>)}

Bodies == UNION {[1..n -> Body] : n \in 0..BodyLength}

\* a text behind the last `;' is looked for before anything is translated
MCPrograms ==
  {[stmts |-> d \o b, closed |-> TRUE] : d \in Declarations, b \in Bodies}
  \cup {[stmts |-> d, closed |-> FALSE] : d \in Declarations}

MCName == {"q", "p", "r", "c", "d", "s", "2.0", "3.0"}
MCVersions2 == {"2.0"}
MCKeyword == {s.keyword : s \in Body} \cup {"OPENQASM", "include"}
=============================================================================
