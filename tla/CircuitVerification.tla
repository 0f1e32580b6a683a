------------------------ MODULE CircuitVerification ------------------------
(***************************************************************************)
(* Circuit-equivalence verification: VerifyPassInstrumentation             *)
(* (EquivalenceVerification.cpp), attached to a pass manager that runs any *)
(* number of passes over a module.  The hook before a pass caches the      *)
(* circuit of every kernel under its name, the hook after it compares.     *)
(*                                                                         *)
(* The passes are the environment: a pass may leave anything in a kernel,  *)
(* or fail.  The checker (MQT QCEC) is external and idealised:             *)
(* ConsideredEquivalent is an exact relation on circuits.                  *)
(***************************************************************************)
EXTENDS MQTCircuits

CONSTANTS
  Names,           \* the symbol names of the kernels
  Kernels,         \* records [alloc, ops] a kernel may be
  ConsideredEquivalent(_, _),  \* the criteria runAfterPass accepts
  AssertsEnabled   \* the build has assertions

ASSUME KernelsAssumption ==
  \A k \in Kernels : k.alloc \in {"static", "dynamic", "none"}
ASSUME EquivalentAssumption ==
  /\ \A k \in Kernels : ConsideredEquivalent(k.ops, k.ops)
  /\ \A k, l, m \in Kernels :
       ConsideredEquivalent(k.ops, l.ops) /\ ConsideredEquivalent(l.ops, m.ops)
         => ConsideredEquivalent(k.ops, m.ops)
ASSUME AssertsEnabledAssumption == AssertsEnabled \in BOOLEAN

VARIABLES
  module,    \* the kernels as they are
  snapshot,  \* cached_module_snapshot: the circuits before and after, by name
  phase,     \* where the pass manager is, or how it ended
  before,    \* history: the kernels the current pass was given
  original,  \* history: the kernels the first pass was given
  exposed    \* history: kernels every pass so far was comparable on

vars == <<module, snapshot, phase, before, original, exposed>>
-----------------------------------------------------------------------------
\* AllocatedQubits # 0: the register a kernel allocates has a static size.
\* ("none": the kernel allocates nothing, its qubits are arguments.)
Allocates(k) == k.alloc = "static"

\* Mutant: kernels whose qubits are not known are not left out.
EveryKernel(mod) == Names

Checked(mod) == {n \in Names : Allocates(mod[n])}

\* DialectAnalysisSelector: without an operation of a quantum dialect there is
\* no analysis, and the hooks dereference a null pointer
HasAnalysis(mod) == \E n \in Names : mod[n].alloc # "none" \/ mod[n].ops # <<>>

\* every circuit can be created; the hooks use the error object as if it were
\* a circuit otherwise
CanCreate(mod) == \A n \in Checked(mod) : CanLoad(mod[n].ops)

Circuit(mod, n) == CircuitOf(mod[n].ops)

-----------------------------------------------------------------------------
Init ==
  /\ module \in [Names -> Kernels]
  /\ snapshot = [n \in {} |-> {}]
  /\ phase = "between"
  /\ before = module
  /\ original = module
  /\ exposed = Names

\* Mutant: an entry that is there already is not replaced (insert for []).
SnapshotInserted(mod) ==
  [n \in DOMAIN snapshot \cup Checked(mod) |->
     IF n \in DOMAIN snapshot THEN snapshot[n]
     ELSE [qc1 |-> Circuit(mod, n), qc2 |-> <<>>]]

SnapshotBefore(mod) ==
  [n \in DOMAIN snapshot \cup Checked(mod) |->
     IF n \in Checked(mod) THEN [qc1 |-> Circuit(mod, n), qc2 |-> <<>>]
     ELSE snapshot[n]]

RunBeforePass ==
  /\ phase = "between"
  /\ HasAnalysis(module) /\ CanCreate(module)
  /\ snapshot' = SnapshotBefore(module)
  /\ phase' = "running"
  /\ before' = module
  /\ UNCHANGED <<module, original, exposed>>

RunBeforePassAborts ==
  /\ phase = "between"
  /\ ~(HasAnalysis(module) /\ CanCreate(module))
  /\ phase' = "aborted"
  /\ before' = module
  /\ UNCHANGED <<module, snapshot, original, exposed>>

\* A pass may fold the size of a register to a constant and drop a register
\* that no operation uses; it does not make a register dynamic.
AllocMayBecome(k, l) ==
  \/ k.alloc = l.alloc
  \/ k.alloc = "dynamic" /\ l.alloc = "static"
  \/ l.alloc = "none" /\ l.ops = <<>>

RunPass ==
  /\ phase = "running"
  /\ module' \in [Names -> Kernels]
  /\ \A n \in Names : AllocMayBecome(module[n], module'[n])
  /\ phase' = "ran"
  /\ UNCHANGED <<snapshot, before, original, exposed>>

\* runAfterPassFailed only prints
RunAfterPassFailed ==
  /\ phase = "running"
  /\ phase' = "failed"
  /\ UNCHANGED <<module, snapshot, before, original, exposed>>

\* an entry that is not there is made with an empty first circuit
SnapshotAfter(mod) ==
  [n \in DOMAIN snapshot \cup Checked(mod) |->
     [qc1 |-> IF n \in DOMAIN snapshot THEN snapshot[n].qc1 ELSE <<>>,
      qc2 |-> IF n \in Checked(mod) THEN Circuit(mod, n) ELSE snapshot[n].qc2]]

\* an entry with an empty circuit is skipped
Accepts(entry) ==
  entry.qc1 = <<>> \/ entry.qc2 = <<>> \/ ConsideredEquivalent(entry.qc1, entry.qc2)

\* Mutant: the result is that of the entry that was compared last.
LastIsAccepted(snap) ==
  \/ DOMAIN snap = {}
  \/ Accepts(snap[CHOOSE n \in DOMAIN snap : TRUE])

AllAccepted(snap) == \A n \in DOMAIN snap : Accepts(snap[n])

CanCompare ==
  /\ HasAnalysis(module) /\ CanCreate(module)
  /\ AssertsEnabled => Checked(module) \subseteq DOMAIN snapshot

\* The checker is shown what a pass did to kernel n: both circuits are there,
\* not empty, and the kernel's own.
Exposed(n) ==
  \A k \in {before[n], module[n]} :
    Allocates(k) /\ k.ops # <<>> /\ Faithful(k.ops)

RunAfterPass ==
  /\ phase = "ran"
  /\ CanCompare
  /\ snapshot' = SnapshotAfter(module)
  /\ phase' = IF AllAccepted(snapshot') THEN "between" ELSE "rejected"
  /\ exposed' = {n \in exposed : Exposed(n)}
  /\ UNCHANGED <<module, before, original>>

RunAfterPassAborts ==
  /\ phase = "ran"
  /\ ~CanCompare
  /\ phase' = "aborted"
  /\ UNCHANGED <<module, snapshot, before, original, exposed>>

Next ==
  \/ RunBeforePass \/ RunBeforePassAborts
  \/ RunPass \/ RunAfterPassFailed
  \/ RunAfterPass \/ RunAfterPassAborts

Spec == Init /\ [][Next]_vars
-----------------------------------------------------------------------------
Phases == {"between", "running", "ran", "rejected", "failed", "aborted"}

SameMeaning(k, l) == ConsideredEquivalent(k.ops, l.ops)

\* The circuits the cache may hold: of kernels that allocate their qubits, or none.
Cachable == {<<>>} \cup {CircuitOf(k.ops) : k \in {k \in Kernels : Allocates(k)}}

\* Every variable has its type, and the cache holds circuits of kernels that
\* allocate their qubits only.
TypeOK ==
  /\ module \in [Names -> Kernels]
  /\ before \in [Names -> Kernels]
  /\ original \in [Names -> Kernels]
  /\ exposed \subseteq Names
  /\ phase \in Phases
  /\ DOMAIN snapshot \subseteq Names
  /\ \A n \in DOMAIN snapshot : {snapshot[n].qc1, snapshot[n].qc2} \subseteq Cachable

\* However many passes were verified, a kernel whose circuits the checker was
\* shown every time computes what it computed before the first of them.
Sound ==
  phase = "between" => \A n \in exposed : SameMeaning(original[n], module[n])

\* A pass is rejected only over a kernel that this very pass changed the meaning
\* of, or that is not translated faithfully: what earlier passes left in the
\* cache never decides.
NoFalseAlarm ==
  phase = "rejected" =>
    \E n \in Checked(before) \cap Checked(module) :
      \/ ~SameMeaning(before[n], module[n])
      \/ ~Faithful(before[n].ops) \/ ~Faithful(module[n].ops)

\* What the user guide promises: no verified pass changed the meaning of a
\* kernel that allocates its qubits and had operations.
Gate ==
  phase = "between" =>
    \A n \in Checked(before) :
      before[n].ops # <<>> => SameMeaning(before[n], module[n])
=============================================================================
