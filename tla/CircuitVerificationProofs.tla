--------------------- MODULE CircuitVerificationProofs ---------------------
(***************************************************************************)
(* Theorems about CircuitVerification, for any set of kernel names, any    *)
(* kernels, any passes, any build and any checker whose criterion is       *)
(* reflexive and transitive on the kernels' operations.                    *)
(***************************************************************************)
EXTENDS CircuitVerification, TLAPS

Pending == phase \in {"running", "ran"}
Active == phase \in {"between", "running", "ran"}

\* Between the hooks, an entry of a kernel that allocates its qubits holds the
\* kernel the pass was given, and no second circuit.
Fresh ==
  Pending =>
    \A n \in Checked(before) :
      /\ n \in DOMAIN snapshot
      /\ snapshot[n].qc1 = Circuit(before, n)
      /\ snapshot[n].qc2 = <<>>

\* What earlier passes left in the cache would be accepted again.
Settled == Active => AllAccepted(snapshot)

\* A kernel in the cache had a static register once, so it has no dynamic one.
NeverDynamic ==
  /\ phase = "between" => \A n \in DOMAIN snapshot : module[n].alloc # "dynamic"
  /\ Pending => \A n \in DOMAIN snapshot : before[n].alloc # "dynamic"

\* What the pass was given, and what it may do to registers.
PassEffect ==
  /\ phase = "running" => module = before
  /\ phase = "ran" => \A n \in Names : AllocMayBecome(before[n], module[n])

\* The passes before this one kept the meaning of the exposed kernels.
SoundSoFar == Pending => \A n \in exposed : SameMeaning(original[n], before[n])

IInv ==
  /\ TypeOK /\ Fresh /\ Settled /\ NeverDynamic /\ PassEffect /\ SoundSoFar
  /\ Sound /\ NoFalseAlarm

-----------------------------------------------------------------------------
\* Every initial state satisfies the invariant: the cache is empty, and a kernel
\* has the meaning it has.
LEMMA IInvInit == Init => IInv
<1> SUFFICES ASSUME Init PROVE IInv
  OBVIOUS
<1>1. TypeOK
  BY DEF Init, TypeOK, Phases
<1>2. Sound
  BY EquivalentAssumption DEF Init, Sound, SameMeaning
<1>3. Settled /\ NeverDynamic
  BY DEF Init, Settled, NeverDynamic, AllAccepted, Pending
<1>4. Fresh /\ PassEffect /\ SoundSoFar /\ NoFalseAlarm
  BY DEF Init, Fresh, PassEffect, SoundSoFar, NoFalseAlarm, Pending
<1> QED
  BY <1>1, <1>2, <1>3, <1>4 DEF IInv

\* The variables keep their types.
LEMMA TypeStep ==
  ASSUME TypeOK, [Next]_vars
  PROVE  TypeOK'
<1> USE DEF TypeOK, Phases
<1>0. \A n \in Checked(module) : Circuit(module, n) \in Cachable
  BY DEF Checked, Circuit, Cachable
<1>1. CASE RunBeforePass
  <2>1. DOMAIN snapshot' \subseteq Names
    BY <1>1 DEF RunBeforePass, SnapshotBefore, Checked
  <2>2. ASSUME NEW n \in DOMAIN snapshot'
        PROVE  snapshot'[n].qc1 \in Cachable /\ snapshot'[n].qc2 \in Cachable
    BY <1>0, <1>1 DEF RunBeforePass, SnapshotBefore, Cachable
  <2>3. Cachable' = Cachable
    BY DEF Cachable, Allocates
  <2> QED
    BY <1>1, <2>1, <2>2, <2>3 DEF RunBeforePass
<1>2. CASE RunBeforePassAborts
  BY <1>2 DEF RunBeforePassAborts
<1>3. CASE RunPass
  BY <1>3 DEF RunPass
<1>4. CASE RunAfterPassFailed
  BY <1>4 DEF RunAfterPassFailed
<1>5. CASE RunAfterPass
  <2>1. DOMAIN snapshot' \subseteq Names
    BY <1>5 DEF RunAfterPass, SnapshotAfter, Checked
  <2>2. ASSUME NEW n \in DOMAIN snapshot'
        PROVE  snapshot'[n].qc1 \in Cachable /\ snapshot'[n].qc2 \in Cachable
    BY <1>0, <1>5 DEF RunAfterPass, SnapshotAfter, Cachable
  <2>3. Cachable' = Cachable
    BY DEF Cachable, Allocates
  <2> QED
    BY <1>5, <2>1, <2>2, <2>3 DEF RunAfterPass
<1>6. CASE RunAfterPassAborts
  BY <1>6 DEF RunAfterPassAborts
<1>7. CASE UNCHANGED vars
  BY <1>7 DEF vars
<1> QED
  BY <1>1, <1>2, <1>3, <1>4, <1>5, <1>6, <1>7 DEF Next

\* The hook before a pass replaces the entries of the kernels it is about, and
\* leaves the others as they were accepted.
LEMMA BeforeStep ==
  ASSUME IInv, RunBeforePass
  PROVE  IInv'
<1> USE DEF IInv
<1>1. TypeOK'
  BY TypeStep DEF Next
<1>2. /\ phase = "between" /\ phase' = "running"
      /\ module' = module /\ before' = module
      /\ original' = original /\ exposed' = exposed
      /\ DOMAIN snapshot' = DOMAIN snapshot \cup Checked(module)
      /\ \A n \in DOMAIN snapshot \ Checked(module) : snapshot'[n] = snapshot[n]
  BY DEF RunBeforePass, SnapshotBefore
<1>3. ASSUME NEW n \in Checked(module)
      PROVE  snapshot'[n].qc1 = Circuit(module, n) /\ snapshot'[n].qc2 = <<>>
  BY DEF RunBeforePass, SnapshotBefore
<1>4. Fresh'
  BY <1>2, <1>3 DEF Fresh, Pending, Checked, Circuit
<1>5. Settled'
  <2> SUFFICES ASSUME NEW n \in DOMAIN snapshot' PROVE Accepts(snapshot'[n])
    BY DEF Settled, AllAccepted
  <2>1. CASE n \in Checked(module)
    <3>1. snapshot'[n].qc2 = <<>>
      BY <1>3, <2>1
    <3> QED
      BY <3>1 DEF Accepts
  <2>2. CASE n \notin Checked(module)
    <3>1. n \in DOMAIN snapshot /\ snapshot'[n] = snapshot[n]
      BY <1>2, <2>2
    <3>2. Accepts(snapshot[n])
      BY <1>2, <3>1 DEF Settled, Active, AllAccepted
    <3> QED
      BY <3>1, <3>2
  <2> QED
    BY <2>1, <2>2
<1>6. NeverDynamic'
  BY <1>2 DEF NeverDynamic, Pending, Checked, Allocates
<1>7. PassEffect'
  BY <1>2 DEF PassEffect
<1>8. SoundSoFar'
  BY <1>2 DEF SoundSoFar, Pending, Sound, SameMeaning
<1>9. Sound' /\ NoFalseAlarm'
  BY <1>2 DEF Sound, NoFalseAlarm
<1> QED
  BY <1>1, <1>4, <1>5, <1>6, <1>7, <1>8, <1>9

\* A pass changes the module only.
LEMMA PassStep ==
  ASSUME IInv, RunPass
  PROVE  IInv'
<1> USE DEF IInv
<1>1. TypeOK'
  BY TypeStep DEF Next
<1>2. Fresh'
  BY DEF RunPass, Fresh, Pending, Checked, Circuit
<1>3. Settled'
  BY DEF RunPass, Settled, Active
<1>4. NeverDynamic' /\ PassEffect'
  BY DEF RunPass, NeverDynamic, PassEffect, Pending
<1>5. SoundSoFar' /\ Sound' /\ NoFalseAlarm'
  BY DEF RunPass, SoundSoFar, Sound, NoFalseAlarm, Pending
<1> QED
  BY <1>1, <1>2, <1>3, <1>4, <1>5

\* What the hook after a pass makes of the cache, entry by entry.
LEMMA AfterSnapshot ==
  ASSUME IInv, RunAfterPass
  PROVE  /\ DOMAIN snapshot' = DOMAIN snapshot \cup Checked(module)
         /\ \A n \in DOMAIN snapshot' :
              snapshot'[n] =
                [qc1 |-> IF n \in DOMAIN snapshot THEN snapshot[n].qc1 ELSE <<>>,
                 qc2 |-> IF n \in Checked(module) THEN Circuit(module, n)
                         ELSE snapshot[n].qc2]
BY DEF RunAfterPass, SnapshotAfter

\* An entry that is not accepted is that of a kernel that allocates its qubits
\* before and after this pass, and it holds both its circuits.
LEMMA RejectedEntry ==
  ASSUME IInv, RunAfterPass, NEW n \in DOMAIN snapshot', ~Accepts(snapshot'[n])
  PROVE  /\ n \in Checked(before) \cap Checked(module)
         /\ ~ConsideredEquivalent(Circuit(before, n), Circuit(module, n))
<1> USE DEF IInv
<1>1. phase = "ran"
  BY DEF RunAfterPass
<1>2. n \in Names
  BY AfterSnapshot DEF TypeOK, Checked
<1>3. n \in Checked(module)
  <2> SUFFICES ASSUME n \notin Checked(module) PROVE FALSE
    OBVIOUS
  <2>1. n \in DOMAIN snapshot
    BY AfterSnapshot
  <2>2. snapshot'[n].qc1 = snapshot[n].qc1 /\ snapshot'[n].qc2 = snapshot[n].qc2
    BY <2>1, AfterSnapshot
  <2>3. Accepts(snapshot[n])
    BY <1>1, <2>1 DEF Settled, Active, AllAccepted
  <2> QED
    BY <2>2, <2>3 DEF Accepts
<1>4. n \in DOMAIN snapshot
  BY <1>3, AfterSnapshot DEF Accepts
<1>5. n \in Checked(before)
  <2>1. before[n].alloc # "dynamic"
    BY <1>1, <1>4 DEF NeverDynamic, Pending
  <2>2. AllocMayBecome(before[n], module[n]) /\ module[n].alloc = "static"
    BY <1>1, <1>2, <1>3 DEF PassEffect, Checked, Allocates
  <2> QED
    BY <1>2, <2>1, <2>2 DEF AllocMayBecome, Checked, Allocates
<1>6. snapshot[n].qc1 = Circuit(before, n)
  BY <1>1, <1>5 DEF Fresh, Pending
<1>7. snapshot'[n] = [qc1 |-> Circuit(before, n), qc2 |-> Circuit(module, n)]
  BY <1>3, <1>4, <1>6, AfterSnapshot
<1> QED
  BY <1>3, <1>5, <1>7 DEF Accepts

\* If a kernel the checker was shown is accepted, its meaning is the same.
LEMMA AcceptedKernel ==
  ASSUME IInv, RunAfterPass, AllAccepted(snapshot'),
         NEW n \in exposed, Exposed(n)
  PROVE  SameMeaning(before[n], module[n])
<1> USE DEF IInv
<1>1. phase = "ran" /\ n \in Names
  BY DEF RunAfterPass, TypeOK
<1>2. n \in Checked(before) /\ n \in Checked(module)
  BY <1>1 DEF Exposed, Checked
<1>3. n \in DOMAIN snapshot /\ snapshot[n].qc1 = Circuit(before, n)
  BY <1>1, <1>2 DEF Fresh, Pending
<1>4. n \in DOMAIN snapshot'
      /\ snapshot'[n] = [qc1 |-> Circuit(before, n), qc2 |-> Circuit(module, n)]
  BY <1>2, <1>3, AfterSnapshot
<1>5. /\ Circuit(before, n) = before[n].ops /\ before[n].ops # <<>>
      /\ Circuit(module, n) = module[n].ops /\ module[n].ops # <<>>
  BY DEF Exposed, Faithful, Circuit
<1>6. Accepts(snapshot'[n])
  BY <1>4 DEF AllAccepted
<1> QED
  BY <1>4, <1>5, <1>6 DEF Accepts, SameMeaning

LEMMA AfterStep ==
  ASSUME IInv, RunAfterPass
  PROVE  IInv'
<1> USE DEF IInv
<1>1. TypeOK'
  BY TypeStep DEF Next
<1>2. /\ phase = "ran" /\ phase' = IF AllAccepted(snapshot') THEN "between" ELSE "rejected"
      /\ module' = module /\ before' = before /\ original' = original
      /\ exposed' = {n \in exposed : Exposed(n)}
  BY DEF RunAfterPass
<1>3. Fresh' /\ PassEffect' /\ SoundSoFar'
  BY <1>2 DEF Fresh, PassEffect, SoundSoFar, Pending
<1>4. Settled'
  BY <1>2 DEF Settled, Active
<1>5. NeverDynamic'
  <2>1. \A n \in DOMAIN snapshot' : module[n].alloc # "dynamic"
    <3> SUFFICES ASSUME NEW n \in DOMAIN snapshot', n \notin Checked(module)
                 PROVE module[n].alloc # "dynamic"
      BY DEF Checked, Allocates
    <3>1. n \in DOMAIN snapshot /\ n \in Names
      BY AfterSnapshot DEF TypeOK
    <3>2. before[n].alloc # "dynamic" /\ AllocMayBecome(before[n], module[n])
      BY <1>2, <3>1 DEF NeverDynamic, PassEffect, Pending
    <3> QED
      BY <3>2 DEF AllocMayBecome
  <2> QED
    BY <1>2, <2>1 DEF NeverDynamic, Pending
<1>6. Sound'
  <2> SUFFICES ASSUME AllAccepted(snapshot'), NEW n \in exposed, Exposed(n)
               PROVE SameMeaning(original[n], module[n])
    BY <1>2 DEF Sound, SameMeaning
  <2>1. SameMeaning(original[n], before[n])
    BY <1>2 DEF SoundSoFar, Pending
  <2>2. SameMeaning(before[n], module[n])
    BY AcceptedKernel
  <2>3. original[n] \in Kernels /\ before[n] \in Kernels /\ module[n] \in Kernels
    BY DEF TypeOK
  <2> QED
    BY <2>1, <2>2, <2>3, EquivalentAssumption DEF SameMeaning
<1>7. NoFalseAlarm'
  <2> SUFFICES ASSUME ~AllAccepted(snapshot')
               PROVE \E n \in Checked(before) \cap Checked(module) :
                       \/ ~SameMeaning(before[n], module[n])
                       \/ ~Faithful(before[n].ops) \/ ~Faithful(module[n].ops)
    BY <1>2 DEF NoFalseAlarm, Checked, SameMeaning
  <2>1. PICK n \in DOMAIN snapshot' : ~Accepts(snapshot'[n])
    BY DEF AllAccepted
  <2> QED
    BY <2>1, RejectedEntry DEF Faithful, Circuit, SameMeaning
<1> QED
  BY <1>1, <1>3, <1>4, <1>5, <1>6, <1>7

\* Every step keeps the invariant.
LEMMA IInvStep ==
  ASSUME IInv, [Next]_vars
  PROVE  IInv'
<1>1. CASE RunBeforePass
  BY <1>1, BeforeStep
<1>2. CASE RunPass
  BY <1>2, PassStep
<1>3. CASE RunAfterPass
  BY <1>3, AfterStep
<1>4. ASSUME phase' \in {"aborted", "failed"} PROVE IInv'
  <2>1. TypeOK'
    BY TypeStep DEF IInv
  <2> QED
    BY <1>4, <2>1 DEF IInv, Fresh, Settled, NeverDynamic, PassEffect, SoundSoFar,
                      Sound, NoFalseAlarm, Pending, Active
<1>5. CASE RunBeforePassAborts
  BY <1>4, <1>5 DEF RunBeforePassAborts
<1>6. CASE RunAfterPassFailed
  BY <1>4, <1>6 DEF RunAfterPassFailed
<1>7. CASE RunAfterPassAborts
  BY <1>4, <1>7 DEF RunAfterPassAborts
<1>8. CASE UNCHANGED vars
  BY <1>8 DEF vars, IInv, TypeOK, Fresh, Settled, NeverDynamic, PassEffect, SoundSoFar,
              Sound, NoFalseAlarm, Pending, Active, AllAccepted, Accepts, Checked, Circuit,
              SameMeaning, AllocMayBecome
<1> QED
  BY <1>1, <1>2, <1>3, <1>5, <1>6, <1>7, <1>8 DEF Next

\* The invariant holds in every reachable state.
THEOREM Invariant == Spec => []IInv
<1>1. IInv /\ [Next]_vars => IInv'
  BY IInvStep
<1> QED
  BY IInvInit, <1>1, PTL DEF Spec

\* The variables have their types in every reachable state.
THEOREM TypeCorrect == Spec => []TypeOK
<1>1. IInv => TypeOK
  BY DEF IInv
<1> QED
  BY Invariant, <1>1, PTL

\* However many passes were verified, a kernel the checker was shown every time
\* computes what it computed before the first of them.
THEOREM StaysSound == Spec => []Sound
<1>1. IInv => Sound
  BY DEF IInv
<1> QED
  BY Invariant, <1>1, PTL

\* A pass is rejected only for what it did itself, or for a kernel that is not
\* translated faithfully.
THEOREM NeverAlarmsFalsely == Spec => []NoFalseAlarm
<1>1. IInv => NoFalseAlarm
  BY DEF IInv
<1> QED
  BY Invariant, <1>1, PTL
=============================================================================
