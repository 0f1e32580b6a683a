------------------------- MODULE MCBasisConversion -------------------------
(***************************************************************************)
(* BasisConversion on the decomposition table of the repository.           *)
(***************************************************************************)
EXTENDS BasisConversion, DecompositionRules, TLC

CONSTANTS
  TableEntries,     \* the mnemonics whose rules the run keeps
  InputGates,       \* every one-gate kernel over these is an input
  PairGates,        \* and every two-gate kernel over these
  OneKernel,        \* or instead: the one kernel that holds all InputGates
  AllOrders         \* every order of the table, or three of them

ASSUME SwitchAssumption == AllOrders \in BOOLEAN /\ OneKernel \in BOOLEAN

RestrictedTable == [m \in TableEntries |-> DecompositionTable[m]]

(***************************************************************************)
(* Gates.  One placement of controls and targets is enough: nothing in the *)
(* pass depends on which qubits an operation touches.                      *)
(***************************************************************************)
G(op, adj, nctl, par) ==
  [op |-> op, adj |-> adj, ctl |-> IF nctl = 1 THEN <<1>> ELSE <<>>,
   tgt |-> IF op = "swap" THEN <<0, 1>> ELSE <<0>>, par |-> par]

FixedGates ==
  {G(op, FALSE, 0, <<>>) : op \in {"h", "x", "y", "z", "s", "t", "swap"}}
  \cup {G(op, TRUE, 0, <<>>) : op \in {"s", "t"}}
  \cup {G(op, FALSE, 1, <<>>) : op \in {"x", "y", "z"}}

Rotations(angles) ==
  {G(op, FALSE, 0, <<k>>) : op \in {"r1", "rx", "ry", "rz"}, k \in angles}

UGates(adj) == {G("u2", adj, 0, <<1, 2>>), G("u3", adj, 0, <<2, 1, 4>>)}

ControlledRotations(angles) ==
  {G(op, FALSE, 1, <<k>>) : op \in {"rx", "ry", "rz"}, k \in angles}

\* operations the pass does not recognise: a controlled h, an adjoint rz
ForeignGates == {G("h", FALSE, 1, <<>>), G("rz", TRUE, 0, <<1>>)}

\* S and what the rules emit for it; a chain of rules is at most seven long.
Grow(S) ==
  S \cup UNION {
    LET m == ClassifyOp(g)
    IN IF m \notin TableEntries THEN {}
       ELSE UNION {LET ops == ApplyRule(DecompositionTable[m][r], g)
                   IN {ops[i] : i \in DOMAIN ops}
                   : r \in DOMAIN DecompositionTable[m]}
    : g \in S}

AllEmitted == Grow(Grow(Grow(Grow(Grow(Grow(Grow(InputGates)))))))

RECURSIVE InSomeOrder(_)
InSomeOrder(S) ==
  IF S = {} THEN <<>>
  ELSE LET x == CHOOSE x \in S : TRUE IN <<x>> \o InSomeOrder(S \ {x})

SmallKernels ==
  IF OneKernel THEN {InSomeOrder(InputGates)}
  ELSE {<<>>} \cup {<<g>> : g \in InputGates}
         \cup {<<g, h>> : g \in PairGates, h \in PairGates}

-----------------------------------------------------------------------------
\* Orders of the table: every permutation of a small one; for the whole table
\* three that take the mnemonics in quite different orders.
Permuted(S) == {p \in [1..Cardinality(S) -> S] :
                  \A i, j \in DOMAIN p : i # j => p[i] # p[j]}

WholeOrders == {
  <<"h", "x", "y", "z", "s", "sdg", "t", "tdg", "r1", "rx", "sx", "ry", "rz",
    "u2", "u3", "swap", "cx", "cz", "cy", "crx", "crz", "cry">>,
  <<"cry", "crz", "crx", "cy", "cz", "cx", "swap", "u3", "u2", "rz", "ry",
    "sx", "rx", "r1", "tdg", "t", "sdg", "s", "z", "y", "x", "h">>,
  <<"u3", "rx", "cz", "s", "h", "crz", "rz", "t", "swap", "cy", "ry", "x",
    "sdg", "u2", "cx", "sx", "r1", "crx", "z", "tdg", "cry", "y">> }

SweepOrders == IF AllOrders THEN Permuted(TableEntries) ELSE WholeOrders

-----------------------------------------------------------------------------
\* Native gate sets of the documentation: the three devices and the mock QDMI
\* device.
IQM    == {"prx", "cz"}
PLANQC == {"rx", "cz", "rz"}
WMI    == {"cz", "x", "y", "rz", "sx"}
CXX    == {"rx", "ry", "rz", "cx"}

AllEntries == DOMAIN DecompositionTable
Devices == {IQM, PLANQC, WMI, CXX}

\* and two that leave most of the table without a chain
DevicesAndPoor == Devices \cup {{"rx"}, {"cz", "rz"}}

\* mnemonics around the rotations, where the rules form cycles
RotationEntries == {"h", "rx", "rz", "sx", "crx", "crz"}
RotationNatives ==
  {{"h", "rx", "cx"}, {"h", "crz"}, {"prx"}, {"rz", "sx"}, {"h"}, {"rx", "u3"},
   {"crx", "rx"}}

DeviceGates ==
  FixedGates \cup Rotations({1, 2, -1}) \cup UGates(FALSE) \cup ForeignGates
  \cup {G(op, FALSE, 1, <<k>>) : op \in {"rx", "ry"}, k \in {1, 2}}
DevicePairs == {G("swap", FALSE, 0, <<>>), G("h", FALSE, 1, <<>>),
                G("ry", FALSE, 0, <<1>>), G("h", FALSE, 0, <<>>)}

\* RyToRzRxRz declares rz and rx.  Of an ry by pi/2 it makes an rx by pi/2, which
\* is classified as sx.  With the option's default set {h, cx, rz} there is a witness
\* for rx and none for sx, so the pass fails on a gate it created; no documented
\* device has such a set.
ASSUME UndeclaredEmissionAssumption ==
  \E r \in DOMAIN DecompositionTable["ry"] :
    LET rule == DecompositionTable["ry"][r]
        emitted == ApplyRule(rule, G("ry", FALSE, 0, <<HalfPi>>))
    IN /\ rule.name = "RyToRzRxRz" /\ "sx" \notin rule.produces
       /\ \E i \in DOMAIN emitted : ClassifyOp(emitted[i]) = "sx"

-----------------------------------------------------------------------------
\* What the constants of BasisConversion stand for.  TLC evaluates a definition
\* without parameters once, the definition a constant is replaced by each time.
\* (The LET keeps its coverage statistics from unfolding the table at each use.)
MCTable   == LET table == RestrictedTable IN table
MCGate    == LET gates == AllEmitted IN gates
MCKernels == SmallKernels
MCOrders  == SweepOrders

-----------------------------------------------------------------------------
(***************************************************************************)
(* The contract.  Which mnemonics can be legalized is computed here in     *)
(* stages - a second definition, which also suits the whole table.         *)
(***************************************************************************)
NextStage(N, S) ==
  S \cup {m \in Entries : \E r \in DOMAIN Table[m] :
             \A p \in Table[m][r].produces : IsNative(N, p) \/ p \in S}

Stages == [N \in NativeSets |->
  LET stage[n \in 0..Cardinality(Entries)] ==
        IF n = 0 THEN {m \in Entries : IsNative(N, m)}
        ELSE NextStage(N, stage[n - 1])
  IN stage[Cardinality(Entries)]]

StagedCanLegalize(N, g) ==
  IsForeign(g) \/ IsLegal(N, g) \/ Classify(g) \in Stages[N]

Contract == INSTANCE LegalizationContract WITH
  CanLegalize <- StagedCanLegalize, verdict <- Verdict, output <- Output

\* The pass keeps its contract, whatever order the hash table is iterated in.
KeepsContract == Contract!Spec
=============================================================================
