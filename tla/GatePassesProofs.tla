-------------------------- MODULE GatePassesProofs --------------------------
(***************************************************************************)
(* Theorems about GatePasses, for kernels of any length on any qubits, any *)
(* order of the passes and any number of runs.                             *)
(***************************************************************************)
EXTENDS GatePasses, SequenceProofs

-----------------------------------------------------------------------------
(***************************************************************************)
(* Editing a block.  K is any set of operations: while a pass edits the    *)
(* kernel k, the operations it knows are those of k and then new ones of   *)
(* K, and the block lists operations it knows.                             *)
(***************************************************************************)
Edits(K, k) ==
  {b \in [block : Seq(Nat), ops : Seq(K)] :
     /\ Len(k) <= Len(b.ops)
     /\ \A i \in DOMAIN k : b.ops[i] = k[i]
     /\ \A i \in DOMAIN b.block : b.block[i] \in DOMAIN b.ops}

LEMMA EditsFields ==
  ASSUME NEW K, NEW k \in Seq(K), NEW b \in Edits(K, k)
  PROVE  /\ b = [block |-> b.block, ops |-> b.ops]
         /\ b.ops \in Seq(K) /\ b.block \in Seq(DOMAIN b.ops)
         /\ Len(b.block) \in Nat /\ Len(b.ops) \in Nat
         /\ DOMAIN b.block = 1 .. Len(b.block) /\ DOMAIN b.ops = 1 .. Len(b.ops)
         /\ Len(k) <= Len(b.ops)
         /\ \A i \in DOMAIN k : b.ops[i] = k[i]
<1>1. /\ b \in [block : Seq(Nat), ops : Seq(K)]
      /\ Len(k) <= Len(b.ops)
      /\ \A i \in DOMAIN k : b.ops[i] = k[i]
      /\ \A i \in DOMAIN b.block : b.block[i] \in DOMAIN b.ops
  BY DEF Edits
<1>2. b.block \in Seq(DOMAIN b.ops)
  BY <1>1
<1> QED
  BY <1>1, <1>2

LEMMA IsEdits ==
  ASSUME NEW K, NEW k \in Seq(K), NEW ops \in Seq(K), NEW block \in Seq(DOMAIN ops),
         Len(k) <= Len(ops), \A i \in DOMAIN k : ops[i] = k[i]
  PROVE  [block |-> block, ops |-> ops] \in Edits(K, k)
<1>1. block \in Seq(Nat) /\ \A i \in DOMAIN block : block[i] \in DOMAIN ops
  OBVIOUS
<1> QED
  BY <1>1 DEF Edits

LEMMA OpenEdits ==
  ASSUME NEW K, NEW k \in Seq(K)
  PROVE  Open(k) \in Edits(K, k)
<1>1. [i \in DOMAIN k |-> i] \in Seq(DOMAIN k)
  OBVIOUS
<1> QED
  BY <1>1, IsEdits DEF Open

LEMMA CloseEdits ==
  ASSUME NEW K, NEW k \in Seq(K), NEW b \in Edits(K, k)
  PROVE  Close(b) \in Seq(K)
<1>1. b.ops \in Seq(K) /\ b.block \in Seq(DOMAIN b.ops)
  BY EditsFields
<1>2. \A i \in DOMAIN b.block : b.ops[b.block[i]] \in K
  BY <1>1
<1> HIDE DEF Edits
<1> QED
  BY <1>1, <1>2, MappedSeq DEF Close

LEMMA EraseEdits ==
  ASSUME NEW K, NEW k \in Seq(K), NEW b \in Edits(K, k), NEW os
  PROVE  Erase(b, os) \in Edits(K, k) /\ Erase(b, os).ops = b.ops
<1> DEFINE S == {i \in DOMAIN b.block : b.block[i] \notin os}
<1>1. b.block \in Seq(DOMAIN b.ops) /\ S \in SUBSET (1 .. Len(b.block))
  BY EditsFields
<1>2. Picked(b.block, S) \in Seq(DOMAIN b.ops)
  <2> HIDE DEF S
  <2> QED
    BY <1>1, PickedFacts
<1>3. Erase(b, os) = [block |-> Picked(b.block, S), ops |-> b.ops]
  BY EditsFields DEF Erase
<1> HIDE DEF S
<1> QED
  BY <1>2, <1>3, EditsFields, IsEdits

LEMMA PlaceInBlock ==
  ASSUME NEW K, NEW k \in Seq(K), NEW b \in Edits(K, k), NEW o
  PROVE  PlaceOf(b, o) \in 0 .. Len(b.block)
<1> DEFINE I == {i \in 1 .. Len(b.block) : b.block[i] = o}
<1>1. Len(b.block) \in Nat
  BY EditsFields
<1>2. PlaceOf(b, o) = IF I # {} THEN Min(I) ELSE 0
  BY Zenon DEF PlaceOf, SelectInSeq
<1>3. I # {} => Min(I) \in I
  <2>1. I \in SUBSET Nat
    BY <1>1
  <2> HIDE DEF I
  <2> QED
    BY <2>1, MinOfNats
<1> QED
  BY <1>1, <1>2, <1>3

LEMMA MoveEdits ==
  ASSUME NEW K, NEW k \in Seq(K), NEW b \in Edits(K, k), NEW o \in DOMAIN b.ops, NEW other
  PROVE  MoveAfter(b, o, other) \in Edits(K, k) /\ MoveAfter(b, o, other).ops = b.ops
<1> DEFINE rest == Erase(b, {o})
           p == PlaceOf(rest, other) + 1
<1>1. rest \in Edits(K, k) /\ rest.ops = b.ops
  BY EraseEdits
<1>2. rest.block \in Seq(DOMAIN b.ops) /\ p \in 1 .. Len(rest.block) + 1 /\ Len(rest.block) \in Nat
  BY <1>1, EditsFields, PlaceInBlock
<1> HIDE DEF rest, p
<1>3. InsertAt(rest.block, p, o) \in Seq(DOMAIN b.ops)
  BY <1>2, InsertedSeq
<1>4. MoveAfter(b, o, other) = [block |-> InsertAt(rest.block, p, o), ops |-> b.ops]
  BY EditsFields DEF MoveAfter, rest, p
<1> QED
  BY <1>3, <1>4, EditsFields, IsEdits

LEMMA InsertEdits ==
  ASSUME NEW K, NEW k \in Seq(K), NEW b \in Edits(K, k), NEW o, NEW g \in K
  PROVE  InsertAfter(b, o, <<g>>) \in Edits(K, k)
<1> DEFINE p == PlaceOf(b, o)
           ops == b.ops \o <<g>>
           new == [i \in DOMAIN <<g>> |-> Len(b.ops) + i]
           block == SubSeq(b.block, 1, p) \o new \o SubSeq(b.block, p + 1, Len(b.block))
<1>1. p \in 0 .. Len(b.block) /\ Len(b.block) \in Nat /\ b.block \in Seq(DOMAIN b.ops)
      /\ b.ops \in Seq(K) /\ Len(b.ops) \in Nat /\ DOMAIN b.ops = 1 .. Len(b.ops)
  BY PlaceInBlock, EditsFields
<1> HIDE DEF p
<1>2. ops \in Seq(K) /\ DOMAIN ops = 1 .. Len(b.ops) + 1 /\ Len(ops) = Len(b.ops) + 1
      /\ \A i \in DOMAIN b.ops : ops[i] = b.ops[i]
  BY <1>1
<1> HIDE DEF ops
<1>3. new \in Seq(DOMAIN ops)
  <2>1. DOMAIN <<g>> = 1 .. 1
    OBVIOUS
  <2> QED
    BY <1>1, <1>2, <2>1
<1> HIDE DEF new
<1>4. block \in Seq(DOMAIN ops)
  <2>1. b.block \in Seq(DOMAIN ops)
    BY <1>1, <1>2, SeqOfMore
  <2> QED
    BY <1>1, <1>3, <2>1, SplicedSeq
<1> HIDE DEF block
<1>5. InsertAfter(b, o, <<g>>) = [block |-> block, ops |-> ops]
  <2>1. [b EXCEPT !.block = block] = [block |-> block, ops |-> b.ops]
    BY EditsFields
  <2>2. [[block |-> block, ops |-> b.ops] EXCEPT !.ops = ops] = [block |-> block, ops |-> ops]
    OBVIOUS
  <2>3. [b EXCEPT !.block = block, !.ops = ops] = [[b EXCEPT !.block = block] EXCEPT !.ops = ops]
    OBVIOUS
  <2> QED
    BY <2>1, <2>2, <2>3, Zenon DEF InsertAfter, p, ops, new, block
<1>6. Len(k) <= Len(ops) /\ \A i \in DOMAIN k : ops[i] = k[i]
  <2>1. Len(k) <= Len(b.ops) /\ (\A i \in DOMAIN k : b.ops[i] = k[i]) /\ Len(k) \in Nat
        /\ DOMAIN k = 1 .. Len(k)
    BY EditsFields
  <2>2. \A i \in DOMAIN k : i \in DOMAIN b.ops
    BY <1>1, <2>1
  <2>3. \A i \in DOMAIN k : ops[i] = k[i]
    BY <1>2, <2>1, <2>2, Zenon
  <2>4. Len(k) <= Len(ops)
    BY <1>1, <1>2, <2>1
  <2> QED
    BY <2>3, <2>4
<1> QED
  BY <1>2, <1>4, <1>5, <1>6, IsEdits

-----------------------------------------------------------------------------
(***************************************************************************)
(* What each pass makes of a kernel of operations of K.                    *)
(***************************************************************************)
LEMMA CancellationStays ==
  ASSUME NEW K, NEW k \in Seq(K), NEW key
  PROVE  performCancellation(k, key) \in Seq(K)
BY OpenEdits, EraseEdits, CloseEdits DEF performCancellation

LEMMA NullRotationsStay ==
  ASSUME NEW K, NEW k \in Seq(K)
  PROVE  performNullRotationCancellation(k) \in Seq(K)
<1> DEFINE S == {i \in DOMAIN k : ~IsNullRotation(k[i])}
<1>1. S \in SUBSET (1 .. Len(k))
  OBVIOUS
<1> HIDE DEF S
<1>2. Picked(k, S) \in Seq(K)
  BY <1>1, PickedFacts
<1> QED
  BY <1>2, Zenon DEF performNullRotationCancellation, S

\* The pairs a mode may list: an operation of the first types and one of the second.
Pairs(k, info) ==
  {p \in (DOMAIN k) \X (DOMAIN k) :
     GateTy(k[p[1]]) \in info.first /\ GateTy(k[p[2]]) \in info.second}

\* The scan ends at an operation of the kernel, or finds none.
LEMMA CommuteStopIsIn ==
  ASSUME NEW K, NEW k \in Seq(K), NEW info, NEW i \in DOMAIN k, CommuteStop(k, i, info) # 0
  PROVE  CommuteStop(k, i, info) \in DOMAIN k
<1> DEFINE I == {j \in (i + 1) .. Len(k) : GateTy(k[j]) \in info.second \/ TouchesAny(k[j], k[i])}
<1>1. CommuteStop(k, i, info) = IF I # {} THEN Min(I) ELSE 0
  BY Zenon DEF CommuteStop, SelectInSubSeq
<1>2. I \in SUBSET (DOMAIN k) /\ I \in SUBSET Nat
  OBVIOUS
<1> HIDE DEF I
<1>3. I # {} => Min(I) \in I
  BY <1>2, MinOfNats
<1> QED
  BY <1>1, <1>2, <1>3

LEMMA CandidatePairs ==
  ASSUME NEW K, NEW k \in Seq(K), NEW info
  PROVE  Candidates(k, info) \in Seq(Pairs(k, info))
<1> DEFINE n == Len(k)
           V == Seq(Pairs(k, info))
           dom == [i \in DOMAIN k |-> i]
           op(cs, i) == IF IsCandidate(k, i, info) /\ ~IsScheduled(cs, i)
                        THEN Append(cs, <<i, CommuteStop(k, i, info)>>) ELSE cs
           step == [x \in (1 .. n) \X V |-> op(x[2], x[1])]
           Eq(f) == f = [s \in SUBSET DOMAIN dom |->
                           IF s = {} THEN <<>> ELSE op(f[s \ {Max(s)}], dom[Max(s)])]
           F == CHOOSE f : Eq(f)
<1>1. n \in Nat /\ DOMAIN dom = 1 .. n /\ (\A i \in 1 .. n : dom[i] = i) /\ DOMAIN k = 1 .. n
  OBVIOUS
<1>2. ASSUME NEW cs \in V, NEW i \in 1 .. n PROVE op(cs, i) \in V
  <2>1. IsCandidate(k, i, info) => <<i, CommuteStop(k, i, info)>> \in Pairs(k, info)
    BY <1>1, CommuteStopIsIn DEF IsCandidate, Pairs
  <2> HIDE DEF n
  <2> QED
    BY <2>1
<1>3. step \in [(1 .. n) \X V -> V]
  <2> HIDE DEF op, V
  <2> QED
    BY <1>2
<1>4. <<>> \in V
  OBVIOUS
<1> HIDE DEF n, V, dom, op
<1>5. PICK g \in [SUBSET (1 .. n) -> V] : IsFold(g, n, <<>>, step)
  <2> HIDE DEF step
  <2> QED
    BY <1>1, <1>3, <1>4, Recursion
<1>6. Eq(g)
  <2>1. ASSUME NEW s \in SUBSET (1 .. n), s # {}
        PROVE  g[s] = op(g[s \ {Max(s)}], dom[Max(s)])
    <3>1. Max(s) \in 1 .. n /\ dom[Max(s)] = Max(s)
      BY <1>1, <2>1, MaxIsIn
    <3>2. g[s] = step[<<Max(s), g[s \ {Max(s)}]>>]
      BY <2>1, <1>5 DEF IsFold
    <3>3. <<Max(s), g[s \ {Max(s)}]>> \in (1 .. n) \X V
      BY <3>1
    <3> QED
      BY <3>1, <3>2, <3>3
  <2>2. g[{}] = <<>>
    BY <1>5 DEF IsFold
  <2> QED
    BY <1>1, <2>1, <2>2
<1>7. Eq(F)
  <2> HIDE DEF Eq
  <2> QED
    BY <1>6, Zenon
<1> HIDE DEF F
<1>8. Follows(F, n, V, <<>>, step)
  <2>1. ASSUME NEW s \in SUBSET (1 .. n), s # {}, F[s \ {Max(s)}] \in V
        PROVE  F[s] = step[<<Max(s), F[s \ {Max(s)}]>>]
    <3>1. Max(s) \in 1 .. n /\ dom[Max(s)] = Max(s)
      BY <1>1, <2>1, MaxIsIn
    <3>2. F[s] = op(F[s \ {Max(s)}], dom[Max(s)])
      BY <1>1, <1>7, <2>1
    <3> QED
      BY <2>1, <3>1, <3>2
  <2>2. F[{}] = <<>>
    BY <1>1, <1>7
  <2> QED
    BY <2>1, <2>2 DEF Follows
<1>9. F[1 .. n] \in V
  <2> HIDE DEF step, Eq
  <2>1. PICK c : AreStates(c, n, V, <<>>, step, F[1 .. n])
    BY <1>1, <1>3, <1>4, <1>8, FoldStates
  <2> QED
    BY <1>1, <2>1 DEF AreStates
<1>10. CASE Allocated
  <2>1. FoldLeft(op, <<>>, dom) = F[DOMAIN dom]
    BY Zenon DEF FoldLeft, MapThenFoldSet, F
  <2>2. Candidates(k, info) = FoldLeft(op, <<>>, dom)
    BY <1>10, Zenon DEF Candidates, op, dom
  <2> QED
    BY <1>1, <1>9, <2>1, <2>2 DEF V
<1> QED
  BY <1>4, <1>10, Zenon DEF V, Candidates

\* The moves, one after the other, and where they start and end.
LEMMA CommuteStates ==
  ASSUME NEW K, NEW k \in Seq(K), NEW b \in Edits(K, k), NEW pairs \in Seq((DOMAIN k) \X (DOMAIN k))
  PROVE  \E c \in [0 .. Len(pairs) -> Edits(K, k)] :
           /\ c[0] = b
           /\ \A m \in 1 .. Len(pairs) : c[m] = MoveAfter(c[m - 1], pairs[m][1], pairs[m][2])
           /\ c[Len(pairs)] = Commute(b, pairs)
<1> DEFINE n == Len(pairs)
           V == Edits(K, k)
           step == [x \in (1 .. n) \X V |-> MoveAfter(x[2], pairs[x[1]][1], pairs[x[1]][2])]
           Eq(f) == f = [s \in SUBSET DOMAIN pairs |->
                           IF s = {} THEN b
                           ELSE MoveAfter(f[s \ {Max(s)}], pairs[Max(s)][1], pairs[Max(s)][2])]
           F == CHOOSE f : Eq(f)
<1>1. n \in Nat /\ DOMAIN pairs = 1 .. n
  OBVIOUS
<1>2. ASSUME NEW e \in V, NEW i \in 1 .. n PROVE MoveAfter(e, pairs[i][1], pairs[i][2]) \in V
  <2>1. pairs[i] \in (DOMAIN k) \X (DOMAIN k)
    BY <1>1
  <2>2. pairs[i][1] \in DOMAIN e.ops
    <3>1. DOMAIN e.ops = 1 .. Len(e.ops) /\ Len(k) <= Len(e.ops) /\ DOMAIN k = 1 .. Len(k)
          /\ Len(e.ops) \in Nat /\ Len(k) \in Nat
      BY EditsFields
    <3>2. pairs[i][1] \in DOMAIN k
      BY <2>1
    <3> QED
      BY <3>1, <3>2
  <2> QED
    BY <2>2, MoveEdits
<1> HIDE DEF n, V
<1>3. step \in [(1 .. n) \X V -> V]
  BY <1>2
<1>4. b \in V
  BY DEF V
<1>5. PICK g \in [SUBSET (1 .. n) -> V] : IsFold(g, n, b, step)
  <2> HIDE DEF step
  <2> QED
    BY <1>1, <1>3, <1>4, Recursion
<1>6. Eq(g)
  <2>1. ASSUME NEW s \in SUBSET (1 .. n), s # {}
        PROVE  g[s] = MoveAfter(g[s \ {Max(s)}], pairs[Max(s)][1], pairs[Max(s)][2])
    <3>1. Max(s) \in 1 .. n
      BY <1>1, <2>1, MaxIsIn
    <3>2. g[s] = step[<<Max(s), g[s \ {Max(s)}]>>]
      BY <2>1, <1>5 DEF IsFold
    <3> QED
      BY <3>1, <3>2
  <2>2. g[{}] = b
    BY <1>5 DEF IsFold
  <2> QED
    BY <1>1, <2>1, <2>2
<1>7. Eq(F)
  <2> HIDE DEF Eq
  <2> QED
    BY <1>6, Zenon
<1>8. Commute(b, pairs) = F[1 .. n]
  BY <1>1, Zenon DEF Commute, FoldLeft, MapThenFoldSet
<1> HIDE DEF F
<1>9. Follows(F, n, V, b, step)
  <2>1. ASSUME NEW s \in SUBSET (1 .. n), s # {}, F[s \ {Max(s)}] \in V
        PROVE  F[s] = step[<<Max(s), F[s \ {Max(s)}]>>]
    <3>1. Max(s) \in 1 .. n
      BY <1>1, <2>1, MaxIsIn
    <3>2. F[s] = MoveAfter(F[s \ {Max(s)}], pairs[Max(s)][1], pairs[Max(s)][2])
      BY <1>1, <1>7, <2>1
    <3> QED
      BY <2>1, <3>1, <3>2
  <2>2. F[{}] = b
    BY <1>1, <1>7
  <2> QED
    BY <2>1, <2>2 DEF Follows
<1>10. PICK c : AreStates(c, n, V, b, step, F[1 .. n])
  <2> HIDE DEF step, Eq
  <2> QED
    BY <1>1, <1>3, <1>4, <1>9, FoldStates
<1>11. c \in [0 .. n -> V] /\ c[0] = b /\ c[n] = Commute(b, pairs)
  <2> HIDE DEF step, Eq
  <2> QED
    BY <1>8, <1>10 DEF AreStates
<1>12. ASSUME NEW m \in 1 .. n PROVE c[m] = MoveAfter(c[m - 1], pairs[m][1], pairs[m][2])
  <2>1. c[m] = step[<<m, c[m - 1]>>]
    <3> HIDE DEF step, Eq
    <3> QED
      BY <1>10 DEF AreStates
  <2>2. m - 1 \in 0 .. n
    BY <1>1
  <2>3. c[m - 1] \in V
    BY <1>11, <2>2
  <2> QED
    BY <2>1, <2>3
<1> HIDE DEF step, Eq
<1> QED
  BY <1>11, <1>12 DEF n, V

LEMMA CommutationStays ==
  ASSUME NEW K, NEW k \in Seq(K), NEW info
  PROVE  performCommutation(k, info) \in Seq(K)
<1> DEFINE pairs == Candidates(k, info)
<1>1. pairs \in Seq((DOMAIN k) \X (DOMAIN k)) /\ Len(pairs) \in Nat
  <2>1. pairs \in Seq(Pairs(k, info)) /\ Pairs(k, info) \subseteq (DOMAIN k) \X (DOMAIN k)
    BY CandidatePairs DEF Pairs
  <2> QED
    BY <2>1, SeqOfMore
<1>2. Open(k) \in Edits(K, k)
  BY OpenEdits
<1> HIDE DEF pairs
<1>3. Commute(Open(k), pairs) \in Edits(K, k)
  <2>1. PICK c \in [0 .. Len(pairs) -> Edits(K, k)] : c[Len(pairs)] = Commute(Open(k), pairs)
    BY <1>1, <1>2, CommuteStates
  <2> QED
    BY <1>1, <2>1
<1> QED
  BY <1>3, CloseEdits DEF performCommutation, pairs

LEMMA ReversalStays ==
  ASSUME NEW K, NEW k \in Seq(K),
         \A g \in K : GateTy(g) = "CNOT" => ReversedForm(g) \in Seq(K)
  PROVE  performCNOTReversal(k) \in Seq(K)
<1> DEFINE parts == [i \in DOMAIN k |->
                       IF GateTy(k[i]) = "CNOT" THEN <<k[i]>> \o ReversedForm(k[i]) ELSE <<k[i]>>]
<1>1. ASSUME NEW i \in DOMAIN k PROVE parts[i] \in Seq(K)
  <2>1. k[i] \in K /\ <<k[i]>> \in Seq(K)
    OBVIOUS
  <2>2. GateTy(k[i]) = "CNOT" => ReversedForm(k[i]) \in Seq(K)
    BY <2>1
  <2>3. \A s \in Seq(K) : <<k[i]>> \o s \in Seq(K)
    BY <2>1
  <2> QED
    BY <2>1, <2>2, <2>3, Zenon
<1>2. parts \in [DOMAIN k -> Seq(K)]
  BY <1>1
<1>3. parts \in Seq(Seq(K))
  <2> HIDE DEF parts
  <2> QED
    BY <1>2, MappedSeq
<1>4. FlattenSeq(parts) \in Seq(K)
  <2> HIDE DEF parts
  <2> QED
    BY <1>3, FlattenedSeq
<1> QED
  BY <1>4, Zenon DEF performCNOTReversal

-----------------------------------------------------------------------------
(***************************************************************************)
(* What they build.                                                        *)
(***************************************************************************)
LEMMA MadeWellFormed ==
  ASSUME NEW op \in QuakeOps, NEW adj \in BOOLEAN, NEW ctl \in Seq(Nat), NEW tgt \in Seq(Nat),
         NEW par \in Seq(Int), tgt # <<>>, IsInjective(ctl), IsInjective(tgt),
         ToSet(ctl) \cap ToSet(tgt) = {}, Len(par) = Arity(op)
  PROVE  [op |-> op, adj |-> adj, ctl |-> ctl, tgt |-> tgt, par |-> par] \in WellFormed
<1>1. [op |-> op, adj |-> adj, ctl |-> ctl, tgt |-> tgt, par |-> par] \in Operations
  BY DEF Operations
<1> QED
  BY <1>1 DEF WellFormed

LEMMA WellFormedFields ==
  ASSUME NEW g \in WellFormed
  PROVE  /\ g.op \in QuakeOps /\ g.adj \in BOOLEAN
         /\ g.ctl \in Seq(Nat) /\ g.tgt \in Seq(Nat) /\ g.par \in Seq(Int)
         /\ g.tgt # <<>> /\ IsInjective(g.ctl) /\ IsInjective(g.tgt)
         /\ ToSet(g.ctl) \cap ToSet(g.tgt) = {} /\ Len(g.par) = Arity(g.op)
BY DEF WellFormed, Operations

LEMMA NoQubits ==
  <<>> \in Seq(Nat) /\ <<>> \in Seq(Int) /\ ToSet(<<>>) = {} /\ IsInjective(<<>>) /\ Len(<<>>) = 0
BY DEF ToSet, IsInjective

LEMMA Arities ==
  /\ \A op \in {"x", "y", "z", "h", "s"} : op \in QuakeOps /\ Arity(op) = 0
  /\ \A op \in {"rx", "ry", "rz"} : op \in QuakeOps /\ Arity(op) = 1
BY DEF Arity, QuakeOps

\* A gate without angles and controls, on the targets or the controls of another.
LEMMA BuiltGate ==
  ASSUME NEW name \in {"PauliX", "PauliY", "PauliZ", "H", "S", "SAdj"},
         NEW q \in Seq(Nat), q # <<>>, IsInjective(q), NEW ctl, NEW par
  PROVE  createQuakeGate(name, ctl, q, par, FALSE) \in WellFormed
<1>1. PICK op \in {"x", "y", "z", "h", "s"}, adj \in BOOLEAN :
        createQuakeGate(name, ctl, q, par, FALSE) =
          [op |-> op, adj |-> adj, ctl |-> <<>>, tgt |-> q, par |-> <<>>]
  BY DEF createQuakeGate, Builder, Rotation
<1>2. [op |-> op, adj |-> adj, ctl |-> <<>>, tgt |-> q, par |-> <<>>] \in WellFormed
  BY NoQubits, Arities, MadeWellFormed
<1> QED
  BY <1>1, <1>2

\* The reversed form of a CNOT.
LEMMA ReversedWellFormed ==
  ASSUME NEW g \in WellFormed, GateTy(g) = "CNOT"
  PROVE  ReversedForm(g) \in Seq(WellFormed)
<1> DEFINE h1 == createQuakeGate("H", <<>>, g.tgt, g.par, FALSE)
           h2 == createQuakeGate("H", <<>>, g.ctl, g.par, FALSE)
           cx == createQuakeGate("CNOT", g.tgt, g.ctl, g.par, FALSE)
<1>1. g.ctl # <<>>
  BY Zenon DEF GateTy, parseGateTy, isQuakeQuantumGate
<1>2. h1 \in WellFormed /\ h2 \in WellFormed
  <2>1. g.tgt \in Seq(Nat) /\ g.tgt # <<>> /\ IsInjective(g.tgt)
        /\ g.ctl \in Seq(Nat) /\ IsInjective(g.ctl)
    BY WellFormedFields
  <2> QED
    BY <1>1, <2>1, BuiltGate
<1>3. cx \in WellFormed
  <2>1. cx = [op |-> "x", adj |-> FALSE, ctl |-> g.tgt, tgt |-> g.ctl, par |-> <<>>]
    BY DEF createQuakeGate, Builder, Rotation
  <2>2. ToSet(g.tgt) \cap ToSet(g.ctl) = {}
    BY WellFormedFields
  <2>3. [op |-> "x", adj |-> FALSE, ctl |-> g.tgt, tgt |-> g.ctl, par |-> <<>>] \in WellFormed
    BY <1>1, <2>2, WellFormedFields, NoQubits, Arities, MadeWellFormed
  <2> QED
    BY <2>1, <2>3
<1>4. ReversedForm(g) = <<h1, h2, cx, h1, h2>>
  BY Zenon DEF ReversedForm
<1> HIDE DEF h1, h2, cx
<1> QED
  BY <1>2, <1>3, <1>4

\* A rotation built anew has one angle.
LEMMA RotationBuilt ==
  ASSUME NEW g \in WellFormed, GateTy(g) \in Rotations, NEW par \in Seq(Int), Len(par) = 1
  PROVE  /\ Len(g.par) = 1
         /\ createQuakeGate(GateTy(g), g.ctl, g.tgt, par, g.adj) \in WellFormed
<1>1. PICK op \in {"rx", "ry", "rz"} : g.op = op
  <2>1. g.op \in QuakeOps
    BY WellFormedFields
  <2> QED
    BY <2>1 DEF GateTy, parseGateTy, isQuakeQuantumGate, Rotations, QuakeOps
<1>2. createQuakeGate(GateTy(g), g.ctl, g.tgt, par, g.adj) =
        [op |-> op, adj |-> g.adj, ctl |-> <<>>, tgt |-> g.tgt, par |-> par]
  BY <1>1 DEF GateTy, parseGateTy, isQuakeQuantumGate, createQuakeGate, Builder, Rotation
<1>3. Arity(op) = 1 /\ op \in QuakeOps
  BY Arities
<1>4. ToSet(<<>>) \cap ToSet(g.tgt) = {}
  BY NoQubits
<1>5. [op |-> op, adj |-> g.adj, ctl |-> <<>>, tgt |-> g.tgt, par |-> par] \in WellFormed
  BY <1>3, <1>4, WellFormedFields, NoQubits, MadeWellFormed
<1> QED
  BY <1>1, <1>2, <1>3, <1>5, WellFormedFields

LEMMA NormalizedWellFormed ==
  ASSUME NEW g \in WellFormed
  PROVE  NormalizeGate(g) \in WellFormed
<1> DEFINE S == {i \in DOMAIN g.par : g.par[i] # g.par[i] % TwoPi}
           par == Picked(g.par, S)
           angles == [i \in DOMAIN par |-> par[i] % TwoPi]
<1>1. CASE GateTy(g) \notin Rotations \/ par = <<>>
  BY <1>1, Zenon DEF NormalizeGate
<1>2. CASE GateTy(g) \in Rotations /\ par # <<>>
  <2>1. g.par \in Seq(Int)
    BY WellFormedFields
  <2>2. Len(g.par) = 1
    <3>1. <<0>> \in Seq(Int) /\ Len(<<0>>) = 1
      OBVIOUS
    <3> QED
      BY <1>2, <3>1, RotationBuilt
  <2>3. S \in SUBSET (1 .. Len(g.par)) /\ S \subseteq {1}
    BY <2>1, <2>2
  <2>4. par \in Seq(Int) /\ Len(par) = Cardinality(S) /\ Cardinality(S) \in Nat
    <3> HIDE DEF S
    <3> QED
      BY <2>1, <2>3, PickedFacts
  <2>5. Cardinality(S) <= 1
    <3>1. IsFiniteSet({1}) /\ Cardinality({1}) = 1
      BY FS_Singleton
    <3> HIDE DEF S, par
    <3> QED
      BY <2>3, <3>1, FS_Subset
  <2> HIDE DEF S, par
  <2>6. Len(par) = 1
    BY <1>2, <2>4, <2>5
  <2>7. \A x \in Int : x % TwoPi \in Int
    BY DEF TwoPi
  <2>8. angles \in [DOMAIN par -> Int]
    BY <2>4, <2>7
  <2>9. angles \in Seq(Int) /\ Len(angles) = 1
    <3> HIDE DEF angles
    <3> QED
      BY <2>4, <2>6, <2>8, MappedSeq
  <2>10. NormalizeGate(g) = createQuakeGate(GateTy(g), g.ctl, g.tgt, angles, g.adj)
    BY <1>2, Zenon DEF NormalizeGate, par, S
  <2> HIDE DEF angles
  <2> QED
    BY <1>2, <2>9, <2>10, RotationBuilt
<1> QED
  BY <1>1, <1>2

-----------------------------------------------------------------------------
(***************************************************************************)
(* Commute and switch.                                                     *)
(***************************************************************************)
\* The pairs listed have one Pauli: the operation switched out, of which the new
\* one takes the targets.
LEMMA SwitchOutStays ==
  ASSUME NEW k \in Seq(WellFormed), NEW mode \in SwitchModes, NEW b \in Edits(WellFormed, k),
         NEW p \in Pairs(k, SwitchInfo(mode))
  PROVE  SwitchOut(b, p) \in Edits(WellFormed, k)
<1> DEFINE out == IF GateTy(b.ops[p[1]]) \in Paulis THEN p[1] ELSE p[2]
           new == createQuakeGate(ReplacementMap(GateTy(b.ops[out])), <<>>,
                                  b.ops[out].tgt, <<>>, FALSE)
<1>1. /\ p[1] \in DOMAIN k /\ p[2] \in DOMAIN k
      /\ GateTy(k[p[1]]) \in SwitchInfo(mode).first /\ GateTy(k[p[2]]) \in SwitchInfo(mode).second
  BY DEF Pairs
<1>2. \A i \in DOMAIN k : b.ops[i] = k[i]
  BY EditsFields
<1>3. SwitchInfo(mode).first \subseteq Paulis \/ SwitchInfo(mode).second \subseteq Paulis
  BY DEF SwitchInfo, PassInfo
<1>4. out \in DOMAIN k /\ GateTy(b.ops[out]) \in Paulis
  BY <1>1, <1>2, <1>3
<1> HIDE DEF out
<1>5. b.ops[out] \in WellFormed
  BY <1>2, <1>4
<1>6. ReplacementMap(GateTy(b.ops[out])) \in {"PauliX", "PauliY", "PauliZ"}
  BY <1>4 DEF ReplacementMap, Paulis
<1>7. new \in WellFormed
  <2>1. b.ops[out].tgt \in Seq(Nat) /\ b.ops[out].tgt # <<>> /\ IsInjective(b.ops[out].tgt)
    BY <1>5, WellFormedFields
  <2> QED
    BY <1>6, <2>1, BuiltGate
<1> HIDE DEF new
<1>8. Erase(InsertAfter(b, p[2], <<new>>), {out}) \in Edits(WellFormed, k)
  BY <1>7, InsertEdits, EraseEdits
<1>9. SwitchOut(b, p) = Erase(InsertAfter(b, p[2], <<new>>), {out})
  BY Zenon DEF SwitchOut, new, out
<1> QED
  BY <1>8, <1>9

LEMMA SwitchesStay ==
  ASSUME NEW k \in Seq(WellFormed), NEW mode \in SwitchModes, NEW b \in Edits(WellFormed, k),
         NEW pairs \in Seq(Pairs(k, SwitchInfo(mode)))
  PROVE  FoldLeft(SwitchOut, b, pairs) \in Edits(WellFormed, k)
<1> DEFINE n == Len(pairs)
           V == Edits(WellFormed, k)
           step == [x \in (1 .. n) \X V |-> SwitchOut(x[2], pairs[x[1]])]
           Eq(f) == f = [s \in SUBSET DOMAIN pairs |->
                           IF s = {} THEN b ELSE SwitchOut(f[s \ {Max(s)}], pairs[Max(s)])]
           F == CHOOSE f : Eq(f)
<1>1. n \in Nat /\ DOMAIN pairs = 1 .. n /\ b \in V
  OBVIOUS
<1>2. ASSUME NEW e \in V, NEW i \in 1 .. n PROVE SwitchOut(e, pairs[i]) \in V
  BY <1>1, SwitchOutStays
<1> HIDE DEF n, V
<1>3. step \in [(1 .. n) \X V -> V]
  BY <1>2
<1>4. PICK g \in [SUBSET (1 .. n) -> V] : IsFold(g, n, b, step)
  <2> HIDE DEF step
  <2> QED
    BY <1>1, <1>3, Recursion
<1>5. Eq(g)
  <2>1. ASSUME NEW s \in SUBSET (1 .. n), s # {}
        PROVE  g[s] = SwitchOut(g[s \ {Max(s)}], pairs[Max(s)])
    <3>1. Max(s) \in 1 .. n
      BY <1>1, <2>1, MaxIsIn
    <3>2. g[s] = step[<<Max(s), g[s \ {Max(s)}]>>]
      BY <2>1, <1>4 DEF IsFold
    <3> QED
      BY <3>1, <3>2
  <2>2. g[{}] = b
    BY <1>4 DEF IsFold
  <2> QED
    BY <1>1, <2>1, <2>2
<1>6. Eq(F)
  <2> HIDE DEF Eq
  <2> QED
    BY <1>5, Zenon
<1>7. FoldLeft(SwitchOut, b, pairs) = F[1 .. n]
  BY <1>1, Zenon DEF FoldLeft, MapThenFoldSet
<1> HIDE DEF F
<1>8. Follows(F, n, V, b, step)
  <2>1. ASSUME NEW s \in SUBSET (1 .. n), s # {}, F[s \ {Max(s)}] \in V
        PROVE  F[s] = step[<<Max(s), F[s \ {Max(s)}]>>]
    <3>1. Max(s) \in 1 .. n
      BY <1>1, <2>1, MaxIsIn
    <3>2. F[s] = SwitchOut(F[s \ {Max(s)}], pairs[Max(s)])
      BY <1>1, <1>6, <2>1
    <3> QED
      BY <2>1, <3>1, <3>2
  <2>2. F[{}] = b
    BY <1>1, <1>6
  <2> QED
    BY <2>1, <2>2 DEF Follows
<1> HIDE DEF step, Eq
<1>9. PICK c : AreStates(c, n, V, b, step, F[1 .. n])
  BY <1>1, <1>3, <1>8, FoldStates
<1> QED
  BY <1>1, <1>7, <1>9 DEF AreStates, V

LEMMA SwitchingStays ==
  ASSUME NEW k \in Seq(WellFormed), NEW mode \in SwitchModes
  PROVE  performCommuteAndSwitch(k, SwitchInfo(mode)) \in Seq(WellFormed)
<1> DEFINE pairs == Candidates(k, SwitchInfo(mode))
<1>1. pairs \in Seq(Pairs(k, SwitchInfo(mode)))
  BY CandidatePairs
<1> HIDE DEF pairs
<1>2. pairs \in Seq((DOMAIN k) \X (DOMAIN k)) /\ Len(pairs) \in Nat
  <2>1. Pairs(k, SwitchInfo(mode)) \subseteq (DOMAIN k) \X (DOMAIN k)
    BY DEF Pairs
  <2> QED
    BY <1>1, <2>1, SeqOfMore
<1>3. Commute(Open(k), pairs) \in Edits(WellFormed, k)
  <2>1. PICK c \in [0 .. Len(pairs) -> Edits(WellFormed, k)] :
          c[Len(pairs)] = Commute(Open(k), pairs)
    BY <1>2, OpenEdits, CommuteStates
  <2> QED
    BY <1>2, <2>1
<1>4. FoldLeft(SwitchOut, Commute(Open(k), pairs), pairs) \in Edits(WellFormed, k)
  BY <1>1, <1>3, SwitchesStay
<1>5. performCommuteAndSwitch(k, SwitchInfo(mode)) =
        Close(FoldLeft(SwitchOut, Commute(Open(k), pairs), pairs))
  BY Zenon DEF performCommuteAndSwitch, pairs
<1> QED
  BY <1>4, <1>5, CloseEdits

-----------------------------------------------------------------------------
(***************************************************************************)
(* Reduction.                                                              *)
(***************************************************************************)
\* What is collected: numbers of operations, and matches that are not empty.
Founds(k) ==
  [pipeline : Seq(DOMAIN k), reduced : Seq(Seq(DOMAIN k) \ {<<>>})]

LEMMA CollectStays ==
  ASSUME NEW K, NEW k \in Seq(K), NEW pattern, Len(pattern) \in Nat, Len(pattern) > 0,
         NEW found \in Founds(k), NEW i \in DOMAIN k
  PROVE  Collect(k, pattern, found, i) \in Founds(k)
<1> DEFINE pipeline == IF GateTy(k[i]) \in ToSet(pattern)
                       THEN Append(found.pipeline, i) ELSE found.pipeline
           matches == \A n \in DOMAIN pattern : GateTy(k[pipeline[n]]) = pattern[n]
           reduced == IF matches /\ ChecksSatisfied(k, pipeline)
                      THEN Append(found.reduced, pipeline) ELSE found.reduced
<1>1. found.pipeline \in Seq(DOMAIN k) /\ found.reduced \in Seq(Seq(DOMAIN k) \ {<<>>})
      /\ found = [pipeline |-> found.pipeline, reduced |-> found.reduced]
  BY DEF Founds
<1>2. pipeline \in Seq(DOMAIN k)
  <2>1. \A s \in Seq(DOMAIN k) : Append(s, i) \in Seq(DOMAIN k)
    OBVIOUS
  <2> QED
    BY <1>1, <2>1, Zenon
<1> HIDE DEF matches
<1>3. Collect(k, pattern, found, i) =
        IF Len(pipeline) < Len(pattern) THEN [found EXCEPT !.pipeline = pipeline]
        ELSE [pipeline |-> <<>>, reduced |-> reduced]
  BY Zenon DEF Collect, pipeline, matches, reduced
<1> HIDE DEF pipeline
<1>4. CASE Len(pipeline) < Len(pattern)
  <2>1. \A r : [[pipeline |-> found.pipeline, reduced |-> r] EXCEPT !.pipeline = pipeline]
                = [pipeline |-> pipeline, reduced |-> r]
    OBVIOUS
  <2>2. [found EXCEPT !.pipeline = pipeline] = [pipeline |-> pipeline, reduced |-> found.reduced]
    BY <1>1, <2>1, Zenon
  <2> QED
    BY <1>1, <1>2, <1>3, <1>4, <2>2 DEF Founds
<1>5. CASE ~(Len(pipeline) < Len(pattern))
  <2>1. pipeline # <<>>
    BY <1>5
  <2>2. reduced \in Seq(Seq(DOMAIN k) \ {<<>>})
    BY <1>1, <1>2, <2>1
  <2> HIDE DEF reduced
  <2>3. <<>> \in Seq(DOMAIN k)
    OBVIOUS
  <2> QED
    BY <1>3, <1>5, <2>2, <2>3 DEF Founds
<1> QED
  BY <1>4, <1>5

LEMMA ReducedMatches ==
  ASSUME NEW K, NEW k \in Seq(K), NEW pattern, Len(pattern) \in Nat, Len(pattern) > 0
  PROVE  Reduced(k, pattern) \in Seq(Seq(DOMAIN k) \ {<<>>})
<1> DEFINE n == Len(k)
           V == Founds(k)
           dom == [i \in DOMAIN k |-> i]
           base == [pipeline |-> <<>>, reduced |-> <<>>]
           op(found, i) == Collect(k, pattern, found, i)
           step == [x \in (1 .. n) \X V |-> op(x[2], x[1])]
           Eq(f) == f = [s \in SUBSET DOMAIN dom |->
                           IF s = {} THEN base ELSE op(f[s \ {Max(s)}], dom[Max(s)])]
           F == CHOOSE f : Eq(f)
<1>1. n \in Nat /\ DOMAIN dom = 1 .. n /\ (\A i \in 1 .. n : dom[i] = i) /\ DOMAIN k = 1 .. n
  OBVIOUS
<1>2. ASSUME NEW found \in V, NEW i \in 1 .. n PROVE op(found, i) \in V
  BY <1>1, CollectStays
<1>3. base \in V
  <2>1. <<>> \in Seq(DOMAIN k) /\ <<>> \in Seq(Seq(DOMAIN k) \ {<<>>})
    OBVIOUS
  <2> QED
    BY <2>1 DEF Founds
<1> HIDE DEF n, V, dom, op, base
<1>4. step \in [(1 .. n) \X V -> V]
  BY <1>2
<1>5. PICK g \in [SUBSET (1 .. n) -> V] : IsFold(g, n, base, step)
  <2> HIDE DEF step
  <2> QED
    BY <1>1, <1>3, <1>4, Recursion
<1>6. Eq(g)
  <2>1. ASSUME NEW s \in SUBSET (1 .. n), s # {}
        PROVE  g[s] = op(g[s \ {Max(s)}], dom[Max(s)])
    <3>1. Max(s) \in 1 .. n /\ dom[Max(s)] = Max(s)
      BY <1>1, <2>1, MaxIsIn
    <3>2. g[s] = step[<<Max(s), g[s \ {Max(s)}]>>]
      BY <2>1, <1>5 DEF IsFold
    <3> QED
      BY <3>1, <3>2
  <2>2. g[{}] = base
    BY <1>5 DEF IsFold
  <2> QED
    BY <1>1, <2>1, <2>2
<1>7. Eq(F)
  <2> HIDE DEF Eq
  <2> QED
    BY <1>6, Zenon
<1>8. Reduced(k, pattern) = F[1 .. n].reduced
  <2>1. FoldLeft(op, base, dom) = F[DOMAIN dom]
    BY Zenon DEF FoldLeft, MapThenFoldSet, F
  <2>2. Reduced(k, pattern) = FoldLeft(op, base, dom).reduced
    BY Zenon DEF Reduced, op, dom, base
  <2> QED
    BY <1>1, <2>1, <2>2, Zenon
<1> HIDE DEF F
<1>9. Follows(F, n, V, base, step)
  <2>1. ASSUME NEW s \in SUBSET (1 .. n), s # {}, F[s \ {Max(s)}] \in V
        PROVE  F[s] = step[<<Max(s), F[s \ {Max(s)}]>>]
    <3>1. Max(s) \in 1 .. n /\ dom[Max(s)] = Max(s)
      BY <1>1, <2>1, MaxIsIn
    <3>2. F[s] = op(F[s \ {Max(s)}], dom[Max(s)])
      BY <1>1, <1>7, <2>1
    <3> QED
      BY <2>1, <3>1, <3>2
  <2>2. F[{}] = base
    BY <1>1, <1>7
  <2> QED
    BY <2>1, <2>2 DEF Follows
<1> HIDE DEF step, Eq
<1>10. PICK c : AreStates(c, n, V, base, step, F[1 .. n])
  BY <1>1, <1>3, <1>4, <1>9, FoldStates
<1>11. F[1 .. n] \in V
  BY <1>1, <1>10 DEF AreStates
<1> QED
  BY <1>8, <1>11 DEF V, Founds

\* The operations of a match are replaced by one on the qubits of the first.
LEMMA ReductionStays ==
  ASSUME NEW k \in Seq(WellFormed), NEW mode \in Reductions
  PROVE  performReduction(k, mode) \in Seq(WellFormed)
<1> DEFINE info == ReductionInfo(mode)
           matches == Reduced(k, info.pattern)
           n == Len(matches)
           V == Edits(WellFormed, k)
           new(pipeline) == createQuakeGate(info.new, k[pipeline[1]].ctl, k[pipeline[1]].tgt,
                                            k[pipeline[1]].par, FALSE)
           op(b, pipeline) == Erase(InsertAfter(b, pipeline[1], <<new(pipeline)>>), ToSet(pipeline))
           step == [x \in (1 .. n) \X V |-> op(x[2], matches[x[1]])]
           Eq(f) == f = [s \in SUBSET DOMAIN matches |->
                           IF s = {} THEN Open(k) ELSE op(f[s \ {Max(s)}], matches[Max(s)])]
           F == CHOOSE f : Eq(f)
<1>1. info.new \in {"PauliX", "PauliZ", "S", "SAdj"}
      /\ Len(info.pattern) \in Nat /\ Len(info.pattern) > 0
  BY DEF Reductions, ReductionInfo
<1>2. matches \in Seq(Seq(DOMAIN k) \ {<<>>})
  <2> HIDE DEF info
  <2> QED
    BY <1>1, ReducedMatches
<1> HIDE DEF info, matches
<1>3. n \in Nat /\ DOMAIN matches = 1 .. n
  BY <1>2
<1>4. Open(k) \in V
  BY OpenEdits
<1>5. ASSUME NEW b \in V, NEW i \in 1 .. n PROVE op(b, matches[i]) \in V
  <2>1. matches[i] \in Seq(DOMAIN k) \ {<<>>}
    BY <1>2
  <2>2. matches[i][1] \in DOMAIN k
    BY <2>1
  <2>3. k[matches[i][1]] \in WellFormed
    BY <2>2
  <2>4. new(matches[i]) \in WellFormed
    BY <1>1, <2>3, WellFormedFields, BuiltGate
  <2> HIDE DEF new
  <2> QED
    BY <2>4, InsertEdits, EraseEdits
<1> HIDE DEF n, V, op
<1>6. step \in [(1 .. n) \X V -> V]
  BY <1>5
<1>7. PICK g \in [SUBSET (1 .. n) -> V] : IsFold(g, n, Open(k), step)
  <2> HIDE DEF step
  <2> QED
    BY <1>3, <1>4, <1>6, Recursion
<1>8. Eq(g)
  <2>1. ASSUME NEW s \in SUBSET (1 .. n), s # {}
        PROVE  g[s] = op(g[s \ {Max(s)}], matches[Max(s)])
    <3>1. Max(s) \in 1 .. n
      BY <1>3, <2>1, MaxIsIn
    <3>2. g[s] = step[<<Max(s), g[s \ {Max(s)}]>>]
      BY <2>1, <1>7 DEF IsFold
    <3> QED
      BY <3>1, <3>2
  <2>2. g[{}] = Open(k)
    BY <1>7 DEF IsFold
  <2> QED
    BY <1>3, <2>1, <2>2
<1>9. Eq(F)
  <2> HIDE DEF Eq
  <2> QED
    BY <1>8, Zenon
<1>10. FoldLeft(op, Open(k), matches) = F[1 .. n]
  BY <1>3, Zenon DEF FoldLeft, MapThenFoldSet
<1>11. performReduction(k, mode) = IF ~Allocated THEN k ELSE Close(F[1 .. n])
  <2>1. performReduction(k, mode) = IF ~Allocated THEN k ELSE Close(FoldLeft(op, Open(k), matches))
    BY Zenon DEF performReduction, op, matches, info
  <2> QED
    BY <1>10, <2>1, Zenon
<1> HIDE DEF F
<1>12. Follows(F, n, V, Open(k), step)
  <2>1. ASSUME NEW s \in SUBSET (1 .. n), s # {}, F[s \ {Max(s)}] \in V
        PROVE  F[s] = step[<<Max(s), F[s \ {Max(s)}]>>]
    <3>1. Max(s) \in 1 .. n
      BY <1>3, <2>1, MaxIsIn
    <3>2. F[s] = op(F[s \ {Max(s)}], matches[Max(s)])
      BY <1>3, <1>9, <2>1
    <3> QED
      BY <2>1, <3>1, <3>2
  <2>2. F[{}] = Open(k)
    BY <1>3, <1>9
  <2> QED
    BY <2>1, <2>2 DEF Follows
<1> HIDE DEF step, Eq
<1>13. PICK c : AreStates(c, n, V, Open(k), step, F[1 .. n])
  BY <1>3, <1>4, <1>6, <1>12, FoldStates
<1>14. F[1 .. n] \in Edits(WellFormed, k)
  BY <1>3, <1>13 DEF AreStates, V
<1> QED
  BY <1>11, <1>14, CloseEdits

-----------------------------------------------------------------------------
\* A kernel is made of operations with a target, distinct qubits and the angles the
\* operation takes, whatever passes have run, in whatever order.
THEOREM TypeCorrect == Spec => []TypeOK
<1>1. Init => TypeOK
  BY KernelsAssumption DEF Init, TypeOK
<1>2. TypeOK /\ [Next]_kernel => TypeOK'
  <2> SUFFICES ASSUME TypeOK, [Next]_kernel PROVE TypeOK'
    OBVIOUS
  <2> USE DEF TypeOK
  <2>1. CASE CancelGate
    BY <2>1, CancellationStays DEF CancelGate
  <2>2. CASE CancelNullRotation
    BY <2>2, NullRotationsStay DEF CancelNullRotation
  <2>3. CASE CommonCommute
    BY <2>3, CommutationStays DEF CommonCommute
  <2>4. CASE CommonSwitch
    BY <2>4, SwitchingStays DEF CommonSwitch
  <2>5. CASE CommonReduction
    BY <2>5, ReductionStays, ReductionModesAssumption DEF CommonReduction
  <2>6. CASE CommonNormalizeArgAngle
    <3>1. \A i \in DOMAIN kernel : NormalizeGate(kernel[i]) \in WellFormed
      BY NormalizedWellFormed
    <3>2. performArgAngelNormalization(kernel) \in [DOMAIN kernel -> WellFormed]
      BY <3>1 DEF performArgAngelNormalization
    <3> QED
      BY <2>6, <3>2, MappedSeq DEF CommonNormalizeArgAngle
  <2>7. CASE CommonCNOTReverse
    BY <2>7, ReversalStays, ReversedWellFormed DEF CommonCNOTReverse
  <2>8. CASE UNCHANGED kernel
    BY <2>8
  <2> QED
    BY <2>1, <2>2, <2>3, <2>4, <2>5, <2>6, <2>7, <2>8 DEF Next
<1> QED
  BY <1>1, <1>2, PTL DEF Spec
=============================================================================
