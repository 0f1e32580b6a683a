--------------------------- MODULE BasisConversion ---------------------------
(***************************************************************************)
(* BasisConversionPass (lib/Passes/CodeGen/BasisConversionPass.cpp): turns *)
(* the gates of a kernel into gates of a native set, in two stages.        *)
(*                                                                         *)
(* 1. computeWitnesses sweeps over the decomposition table until a sweep   *)
(*    changes nothing and gives each mnemonic it can a witness: a rule     *)
(*    whose products are native or have a witness already.  The table is   *)
(*    an unordered_map, so the order of a sweep is unknown; it is the same *)
(*    in every sweep.                                                      *)
(* 2. runOnOperation walks over the kernel in rounds.  A round rewrites    *)
(*    every operation that is not native by the witness of its mnemonic;   *)
(*    what it creates is looked at in the next round.  A round without a   *)
(*    rewrite ends the pass, and so does the cap on the rounds.            *)
(*                                                                         *)
(* The module is about any table and any operations: they are constants.   *)
(* A rule is a record with at least a field `produces'.                    *)
(***************************************************************************)
EXTENDS Integers, Sequences, FiniteSets

CONSTANTS
  Gate,           \* the operations of kernels
  Table,          \* mnemonic -> sequence of rules (getDecompositionTable)
  Classify(_),    \* classifyOp: the mnemonic of an operation, or None
  Emit(_, _),     \* Emit(rule, g): the operations that replace g
  None,           \* what Classify returns for a shape it does not recognise
  NativeSets,     \* the native gate sets the pass may be asked for
  Orders,         \* the orders in which a sweep may visit the table
  Kernels,        \* the kernels it may be run on
  MaxRounds       \* maxRounds

Entries == DOMAIN Table

ASSUME OrdersAssumption ==
  Orders \subseteq {o \in Seq(Entries) : \A m \in Entries : \E i \in 1..Len(o) : o[i] = m}
ASSUME KernelsAssumption ==
  \A k \in Kernels : k \in Seq(Gate)
ASSUME EmitAssumption ==
  \A m \in Entries : \A r \in 1..Len(Table[m]) : \A g \in Gate :
     Classify(g) = m => Emit(Table[m][r], g) \in Seq(Gate)
ASSUME TableAssumption ==
  /\ None \notin Entries
  /\ \A m \in Entries : Len(Table[m]) \in Nat /\ DOMAIN Table[m] = 1..Len(Table[m])
ASSUME EntriesAssumption == IsFiniteSet(Entries)
ASSUME MaxRoundsAssumption == MaxRounds \in Nat \ {0}

VARIABLES
  native,      \* the native gate set
  order,       \* the iteration order of the table
  input,       \* the kernel the pass was given
  pc,          \* "sweep", "walk" or "done"
  pos,         \* position of the sweep in order
  witness,     \* mnemonic -> index of its witness rule, 0 while it has none
  rank,        \* auxiliary: mnemonic -> when it got its witness, 0 before
  assigned,    \* auxiliary: number of witnesses
  changed,     \* the local `changed' of both loops
  round,       \* number of rounds finished with a change
  pending,     \* operations of the kernel this round has not reached
  visited,     \* the kernel this round leaves behind
  failed,      \* signalPassFailure was called
  gaveUp       \* the loop ended at the cap

sweepVars == <<pos, witness, rank, assigned>>
walkVars  == <<round, pending, visited, failed, gaveUp>>
inputVars == <<native, order, input>>
vars == <<native, order, input, pc, pos, witness, rank, assigned, changed,
          round, pending, visited, failed, gaveUp>>

-----------------------------------------------------------------------------
\* isNative: a generic rx also performs its pi/2 special case
IsNative(N, m) == m \in N \/ (m = "sx" /\ "rx" \in N)

\* native, or with a witness in w
Resolved(N, w, m) == IsNative(N, m) \/ (m \in Entries /\ w[m] # 0)

\* Mutant: one resolved product is taken for enough.
ResolvableBySome(N, w, m) ==
  {r \in 1..Len(Table[m]) : \E p \in Table[m][r].produces : Resolved(N, w, p)}

\* the rules of m all of whose products are resolved
ResolvableRules(N, w, m) ==
  {r \in 1..Len(Table[m]) : \A p \in Table[m][r].produces : Resolved(N, w, p)}

\* the first of them: the rule computeWitnesses settles for
IsFirstResolvable(N, w, m, r) ==
  /\ r \in ResolvableRules(N, w, m)
  /\ \A s \in ResolvableRules(N, w, m) : r <= s

-----------------------------------------------------------------------------
Init ==
  /\ native \in NativeSets
  /\ order \in Orders
  /\ input \in Kernels
  /\ pc = "sweep"
  /\ pos = 1
  /\ witness = [m \in Entries |-> 0]
  /\ rank = [m \in Entries |-> 0]
  /\ assigned = 0
  /\ changed = FALSE
  /\ round = 0
  /\ pending = input
  /\ visited = <<>>
  /\ failed = FALSE
  /\ gaveUp = FALSE

(***************************************************************************)
(* computeWitnesses.                                                       *)
(***************************************************************************)

\* `continue', or the inner loop ran out of rules
SkipEntry ==
  /\ pc = "sweep"
  /\ pos <= Len(order)
  /\ \/ Resolved(native, witness, order[pos])
     \/ ResolvableRules(native, witness, order[pos]) = {}
  /\ pos' = pos + 1
  /\ UNCHANGED <<inputVars, pc, witness, rank, assigned, changed, walkVars>>

TakeWitness ==
  /\ pc = "sweep"
  /\ pos <= Len(order)
  /\ ~Resolved(native, witness, order[pos])
  /\ \E r \in ResolvableRules(native, witness, order[pos]) :
       /\ IsFirstResolvable(native, witness, order[pos], r)
       /\ witness' = [witness EXCEPT ![order[pos]] = r]
  /\ assigned' = assigned + 1
  /\ rank' = [rank EXCEPT ![order[pos]] = assigned + 1]
  /\ changed' = TRUE
  /\ pos' = pos + 1
  /\ UNCHANGED <<inputVars, pc, walkVars>>

\* Mutant: the next sweep starts one entry too early.
NextSweepFromZero ==
  /\ pc = "sweep"
  /\ pos > Len(order)
  /\ changed
  /\ pos' = 0
  /\ changed' = FALSE
  /\ UNCHANGED <<inputVars, pc, witness, rank, assigned, walkVars>>

NextSweep ==
  /\ pc = "sweep"
  /\ pos > Len(order)
  /\ changed
  /\ pos' = 1
  /\ changed' = FALSE
  /\ UNCHANGED <<inputVars, pc, witness, rank, assigned, walkVars>>

\* Mutant: the sweeps may stop although the last one changed something.
WitnessesCutShort ==
  /\ pc = "sweep"
  /\ pos > Len(order)
  /\ pc' = "walk"
  /\ changed' = FALSE
  /\ UNCHANGED <<inputVars, sweepVars, walkVars>>

WitnessesDone ==
  /\ pc = "sweep"
  /\ pos > Len(order)
  /\ ~changed
  /\ pc' = "walk"
  /\ UNCHANGED <<inputVars, sweepVars, changed, walkVars>>

(***************************************************************************)
(* One round of runOnOperation.  walk() advances its iterator before it    *)
(* calls back, and rewrites insert after the operation they erase: a round *)
(* meets exactly the operations the kernel had when it began.              *)
(***************************************************************************)
This == Head(pending)

\* Mutant: an operation that is kept counts as a change.
KeepOpAsChange ==
  /\ pc = "walk"
  /\ pending # <<>>
  /\ Classify(This) = None \/ IsNative(native, Classify(This))
  /\ visited' = Append(visited, This)
  /\ pending' = Tail(pending)
  /\ changed' = TRUE
  /\ UNCHANGED <<inputVars, sweepVars, pc, round, failed, gaveUp>>

KeepOp ==
  /\ pc = "walk"
  /\ pending # <<>>
  /\ Classify(This) = None \/ IsNative(native, Classify(This))
  /\ visited' = Append(visited, This)
  /\ pending' = Tail(pending)
  /\ UNCHANGED <<inputVars, sweepVars, pc, changed, round, failed, gaveUp>>

\* Mutant: a warning only, the pass does not fail.
RejectWithAWarning ==
  /\ pc = "walk"
  /\ pending # <<>>
  /\ Classify(This) # None
  /\ ~Resolved(native, witness, Classify(This))
  /\ visited' = Append(visited, This)
  /\ pending' = Tail(pending)
  /\ UNCHANGED <<inputVars, sweepVars, pc, changed, round, failed, gaveUp>>

\* the operation is left as it is; the walk goes on
RejectOp ==
  /\ pc = "walk"
  /\ pending # <<>>
  /\ Classify(This) # None
  /\ ~Resolved(native, witness, Classify(This))
  /\ failed' = TRUE
  /\ visited' = Append(visited, This)
  /\ pending' = Tail(pending)
  /\ UNCHANGED <<inputVars, sweepVars, pc, changed, round, gaveUp>>

RewriteOp ==
  /\ pc = "walk"
  /\ pending # <<>>
  /\ LET m == Classify(This) IN
       /\ m # None
       /\ ~IsNative(native, m)
       /\ m \in Entries /\ witness[m] # 0
       /\ visited' = visited \o Emit(Table[m][witness[m]], This)
  /\ pending' = Tail(pending)
  /\ changed' = TRUE
  /\ UNCHANGED <<inputVars, sweepVars, pc, round, failed, gaveUp>>

\* `if (!changed) return;'
FixedPoint ==
  /\ pc = "walk"
  /\ pending = <<>>
  /\ ~changed
  /\ pc' = "done"
  /\ UNCHANGED <<inputVars, sweepVars, changed, walkVars>>

NextRound ==
  /\ pc = "walk"
  /\ pending = <<>>
  /\ changed
  /\ round + 1 < MaxRounds
  /\ round' = round + 1
  /\ pending' = visited
  /\ visited' = <<>>
  /\ changed' = FALSE
  /\ UNCHANGED <<inputVars, sweepVars, pc, failed, gaveUp>>

\* the last round changed something: a warning, and the loop is left.  Only
\* here is the module verified, which may fail the pass.
GiveUp ==
  /\ pc = "walk"
  /\ pending = <<>>
  /\ changed
  /\ round + 1 >= MaxRounds
  /\ gaveUp' = TRUE
  /\ failed' \in {failed, TRUE}
  /\ pc' = "done"
  /\ UNCHANGED <<inputVars, sweepVars, changed, round, pending, visited>>

Done == pc = "done" /\ UNCHANGED vars

Sweep == SkipEntry \/ TakeWitness \/ NextSweep \/ WitnessesDone
Walk  == KeepOp \/ RejectOp \/ RewriteOp \/ FixedPoint \/ NextRound \/ GiveUp
Next  == Sweep \/ Walk \/ Done

\* the pass runs in one thread until it returns
Spec == Init /\ [][Next]_vars /\ WF_vars(Sweep \/ Walk)

-----------------------------------------------------------------------------
(***************************************************************************)
(* Properties.                                                             *)
(***************************************************************************)

\* Every variable has its type, a witness is one of its mnemonic's rules, and the
\* sweep never looks beyond the last entry of the table.
TypeOK ==
  /\ native \in NativeSets
  /\ order \in Orders
  /\ input \in Kernels
  /\ pc \in {"sweep", "walk", "done"}
  /\ pos \in 1..(Len(order) + 1)
  /\ witness \in [Entries -> Nat]
  /\ \A m \in Entries : witness[m] \in 0..Len(Table[m])
  /\ rank \in [Entries -> Nat]
  /\ assigned \in Nat
  /\ changed \in BOOLEAN
  /\ round \in 0..(MaxRounds - 1)
  /\ pending \in Seq(Gate)
  /\ visited \in Seq(Gate)
  /\ failed \in BOOLEAN
  /\ gaveUp \in BOOLEAN

\* A witness is "transitively guaranteed to bottom out in native gates": what
\* its rule produces is native or got its own witness earlier, so following
\* witnesses can never come back to a mnemonic (the crx/crz pair the comment
\* on computeWitnesses tells of).
WitnessesAreRanked ==
  \A m \in Entries : witness[m] # 0 =>
    /\ ~IsNative(native, m)
    /\ \A p \in Table[m][witness[m]].produces :
         IsNative(native, p) \/ (p \in Entries /\ rank[p] \in 1..(rank[m] - 1))

\* The mnemonics with some chain of rules that bottoms out in native gates:
\* the least set that contains the native ones and every mnemonic with a rule
\* that stays inside it.
IsClosed(N, S) ==
  \A m \in Entries :
    \/ m \in S
    \/ /\ ~IsNative(N, m)
       /\ \A r \in 1..Len(Table[m]) :
            \E p \in Table[m][r].produces : ~IsNative(N, p) /\ p \notin S

Legalizable(N) ==
  {m \in Entries : \A S \in SUBSET Entries : IsClosed(N, S) => m \in S}

\* The sweeps find every mnemonic that can be legalized and no other one,
\* whatever order the hash table is iterated in.
WitnessesAreComplete ==
  pc # "sweep" =>
    {m \in Entries : Resolved(native, witness, m)} = Legalizable(native)

\* A recognised gate that is neither native nor has a witness.
CannotLegalize(g) == Classify(g) # None /\ ~Resolved(native, witness, Classify(g))

\* A pass that succeeds (and was not cut off at the cap) leaves native gates
\* only, next to operations it was given and does not recognise.
SuccessIsNative ==
  pc = "done" /\ ~failed /\ ~gaveUp =>
    \A i \in 1..Len(visited) :
      IF Classify(visited[i]) = None
      THEN \E j \in 1..Len(input) : input[j] = visited[i]
      ELSE IsNative(native, Classify(visited[i]))

\* The pass fails exactly on kernels that hold a gate without a witness:
\* rewriting never creates such a gate, and never hides one.
FailsOnlyIfItMust ==
  pc = "done" /\ ~gaveUp =>
    (failed <=> \E i \in 1..Len(input) : CannotLegalize(input[i]))

\* What the table is silent about and the walk relies on, said at the moment the
\* walk begins: the operations a witness emits are recognised, and are native
\* or have a witness themselves.
WalkBegins == pc = "walk" /\ round = 0 /\ pending = input

Witnessed(g) == Classify(g) \in Entries /\ witness[Classify(g)] # 0
Replacement(g) == Emit(Table[Classify(g)][witness[Classify(g)]], g)

\* Every operation a rule of a witness emits is recognised and can be legalized:
\* the walk never gets stuck on what it made itself.
EmitsResolvable ==
  WalkBegins =>
    \A g \in Gate : Witnessed(g) =>
      \A i \in 1..Len(Replacement(g)) :
        LET p == Classify(Replacement(g)[i])
        IN p # None /\ Resolved(native, witness, p)

\* The stronger reading of the field `produces': what a witness emits for the
\* operations G is native or one of the mnemonics its rule declares.
DeclaresFor(G) ==
  WalkBegins =>
    \A g \in G : Witnessed(g) =>
      \A i \in 1..Len(Replacement(g)) :
        LET p == Classify(Replacement(g)[i])
        IN \/ IsNative(native, p)
           \/ p \in Table[Classify(g)][witness[Classify(g)]].produces

EmitsWhatItDeclares == DeclaresFor(Gate)

\* The rules of the repository keep to what they declare, but for two cases.
\* Those of the controlled rotations lose the control of what they create.  And
\* where rx has a witness and sx is not native, a rule that declares "rx" may emit
\* an "sx" (RzToHRxH of an rz by pi/2, on IQM's set).
DeclaresItsEmissions ==
  IsNative(native, "sx") \/ ~Resolved(native, witness, "rx") =>
    DeclaresFor({g \in Gate : Classify(g) \notin {"crx", "cry", "crz"}})

\* "it always reaches a fixed point in at most table.size() rounds": no more
\* rounds than that rewrite something.
RoundsAreBounded ==
  round + (IF pc = "walk" /\ changed THEN 1 ELSE 0) <= Cardinality(Entries)

-----------------------------------------------------------------------------
(***************************************************************************)
(* What of the pass the contract (LegalizationContract) sees.              *)
(***************************************************************************)
Verdict == IF pc # "done" THEN "open" ELSE IF failed THEN "rejected" ELSE "legal"
Output  == IF Verdict = "legal" THEN visited ELSE <<>>

IsForeign(g) == Classify(g) = None
IsLegal(N, g) == IsNative(N, Classify(g))

\* some chain of rules brings g into N; a foreign operation needs none
CanLegalize(N, g) ==
  \/ IsForeign(g)
  \/ IsLegal(N, g)
  \/ Classify(g) \in Entries /\ Classify(g) \in Legalizable(N)
=============================================================================
