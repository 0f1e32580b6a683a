------------------------ MODULE MCDecompositionRules ------------------------
(***************************************************************************)
(* BasisConversion with the meaning of the gates: does the kernel still    *)
(* compute what it did?                                                    *)
(***************************************************************************)
EXTENDS MCBasisConversion

CONSTANT ExemptRules     \* rules the property says nothing about

Quake == INSTANCE GateAlgebra

\* ops is a circuit and has the unitary of g, up to a global phase
SameMeaning(g, ops) ==
  /\ \A i \in DOMAIN ops : ops[i].tgt # <<>>
  /\ Quake!Equivalent(<<g>>, ops)

AllGates ==
  FixedGates \cup Rotations({1, 2, -1}) \cup UGates(FALSE) \cup UGates(TRUE)
  \cup ControlledRotations({2, -2, 4})

\* The rules that change the unitary of a gate they are applied to ...
UnfaithfulRules ==
  {"RyToRzRxRz",                                     \* wrong angles
   "U2ToRzRyRz", "CyToSCxSdg",                       \* wrong order
   "CrxToHCrzH", "CrzToHCrxH", "CryToRzCrxRz",       \* the control is dropped
   "CrzToRzCu3",                                     \* an rz without a target
   "YToPhasedRx", "SToPhasedRx", "TToPhasedRx", "R1ToPhasedRx"}   \* no insertion point

\* ... and those that do so only to an adjoint gate, whose flag they ignore
UnfaithfulToAdjoints == {"U2ToU3", "U3ToRzRyRz"}

KnownUnfaithful(rule, g) ==
  rule.name \in UnfaithfulRules \/ (g.adj /\ rule.name \in UnfaithfulToAdjoints)

\* Every rule on the two lists is there rightly: on each gate it is listed for
\* it changes the unitary.  (That no other rule does is what the run shows.)
ASSUME UnfaithfulRulesAssumption ==
  \A g \in {x \in AllGates : ClassifyOp(x) \in AllEntries} :
    \A r \in DOMAIN DecompositionTable[ClassifyOp(g)] :
      LET rule == DecompositionTable[ClassifyOp(g)][r]
      IN KnownUnfaithful(rule, g) => ~SameMeaning(g, ApplyRule(rule, g))

\* No rewrite of the pass changes what the kernel computes: the operations a
\* rule leaves in the place of a gate have the gate's unitary.
RewritesKeepMeaning ==
  [][RewriteOp =>
       LET rule == Table[Classify(This)][witness[Classify(This)]]
       IN \/ rule.name \in ExemptRules
          \/ SameMeaning(This, Emit(rule, This))]_vars

-----------------------------------------------------------------------------
\* one native set per rule: what the rule produces
RuleNatives ==
  UNION {{DecompositionTable[m][r].produces : r \in DOMAIN DecompositionTable[m]}
         : m \in AllEntries}

PlainGates == AllGates \ UGates(TRUE)
=============================================================================
