---------------------------- MODULE GateAlgebra ----------------------------
(***************************************************************************)
(* Exact meaning of the Quake gates the passes rewrite, on a register of   *)
(* two qubits, or three.                                                   *)
(*                                                                         *)
(* A matrix entry is an element of the ring Z[zeta], zeta = e^(i*pi/8), a  *)
(* root of zeta^8 = -1: the 8-tuple of the integer coefficients of         *)
(* zeta^0 .. zeta^7.  No rounding takes place, so two circuits that the    *)
(* module calls equivalent have the same unitary up to a global phase.     *)
(* Tuples, rather than functions, because TLC evaluates them once.         *)
(*                                                                         *)
(* Angles are integers, in units of pi/4: 2 is pi/2 and 4 is pi.           *)
(* A gate is a record [op, adj, ctl, tgt, par]: the Quake operation, its   *)
(* adjoint flag, its control and target qubits and its angles.             *)
(***************************************************************************)
EXTENDS Integers, Sequences, SequencesExt

(***************************************************************************)
(* Arithmetic in Z[zeta].                                                  *)
(***************************************************************************)
ZeroR == <<0, 0, 0, 0, 0, 0, 0, 0>>

\* n * zeta^e, for every integer e (zeta^8 = -1)
Monomial(n, e) ==
  [ZeroR EXCEPT ![(e % 8) + 1] = IF (e % 16) < 8 THEN n ELSE -n]

AddR(a, b) == <<a[1] + b[1], a[2] + b[2], a[3] + b[3], a[4] + b[4],
                a[5] + b[5], a[6] + b[6], a[7] + b[7], a[8] + b[8]>>
NegR(a) == <<-a[1], -a[2], -a[3], -a[4], -a[5], -a[6], -a[7], -a[8]>>

\* coefficient of zeta^k in a * (b_i * zeta^i)
Term(a, b, i, k) ==
  IF i <= k THEN b[i + 1] * a[k - i + 1] ELSE -(b[i + 1] * a[9 + k - i])

Coefficient(a, b, k) ==
  Term(a, b, 0, k) + Term(a, b, 1, k) + Term(a, b, 2, k) + Term(a, b, 3, k)
  + Term(a, b, 4, k) + Term(a, b, 5, k) + Term(a, b, 6, k) + Term(a, b, 7, k)

MulR(a, b) ==
  IF a = ZeroR \/ b = ZeroR THEN ZeroR
  ELSE <<Coefficient(a, b, 0), Coefficient(a, b, 1), Coefficient(a, b, 2),
         Coefficient(a, b, 3), Coefficient(a, b, 4), Coefficient(a, b, 5),
         Coefficient(a, b, 6), Coefficient(a, b, 7)>>

Phase(e)   == Monomial(1, e)                       \* e^(i * e * pi/8)
TwoCos(k)  == AddR(Phase(k), Phase(-k))            \* 2 cos(theta/2)
TwoISin(k) == AddR(Phase(k), NegR(Phase(-k)))      \* 2 i sin(theta/2)
TwoSin(k)  == MulR(Phase(-4), TwoISin(k))          \* 2 sin(theta/2)

(***************************************************************************)
(* One-qubit matrices <<row 0, row 1>>, each multiplied by the positive    *)
(* number Scale(g) that keeps its entries in the ring.                     *)
(***************************************************************************)
M(a, b, c, d) == <<<<a, b>>, <<c, d>>>>

U3Matrix(theta, phi, lambda) ==
  M(TwoCos(theta), NegR(MulR(Phase(2 * lambda), TwoSin(theta))),
    MulR(Phase(2 * phi), TwoSin(theta)),
    MulR(Phase(2 * (phi + lambda)), TwoCos(theta)))

PhasedRxMatrix(theta, phi) ==
  M(TwoCos(theta), NegR(MulR(Phase(-2 * phi), TwoISin(theta))),
    NegR(MulR(Phase(2 * phi), TwoISin(theta))), TwoCos(theta))

\* diag(1, e^(i*k*pi/4)): the gates S, T and R1
PhaseMatrix(k) == M(Phase(0), ZeroR, ZeroR, Phase(2 * k))

Sign(g) == IF g.adj THEN -1 ELSE 1

\* the adjoint of U3(theta, phi, lambda) is U3(-theta, -lambda, -phi)
U3Of(g, theta, phi, lambda) ==
  IF g.adj THEN U3Matrix(-theta, -lambda, -phi) ELSE U3Matrix(theta, phi, lambda)

GateMatrix(g) ==
  LET one == Phase(0)
      a(i) == Sign(g) * g.par[i]
  IN CASE g.op = "h"  -> M(one, one, one, NegR(one))
       [] g.op = "x"  -> M(ZeroR, one, one, ZeroR)
       [] g.op = "y"  -> M(ZeroR, Phase(-4), Phase(4), ZeroR)
       [] g.op = "z"  -> M(one, ZeroR, ZeroR, NegR(one))
       [] g.op = "s"  -> PhaseMatrix(2 * Sign(g))
       [] g.op = "t"  -> PhaseMatrix(Sign(g))
       [] g.op = "r1" -> PhaseMatrix(a(1))
       [] g.op = "rx" -> M(TwoCos(a(1)), NegR(TwoISin(a(1))),
                           NegR(TwoISin(a(1))), TwoCos(a(1)))
       [] g.op = "ry" -> M(TwoCos(a(1)), NegR(TwoSin(a(1))),
                           TwoSin(a(1)), TwoCos(a(1)))
       [] g.op = "rz" -> M(Phase(-a(1)), ZeroR, ZeroR, Phase(a(1)))
       [] g.op = "u2" -> U3Of(g, 2, g.par[1], g.par[2])
       [] g.op = "u3" -> U3Of(g, g.par[1], g.par[2], g.par[3])
       [] g.op = "phased_rx" -> PhasedRxMatrix(a(1), g.par[2])

\* what GateMatrix multiplied the unitary by: 2, sqrt(2) or 1
Scale(g) ==
  CASE g.op \in {"rx", "ry", "u2", "u3", "phased_rx"} -> Monomial(2, 0)
    [] g.op = "h" -> TwoCos(2)
    [] OTHER -> Phase(0)

(***************************************************************************)
(* Applying a gate to a state vector, a tuple of 4 or 8: entry x + 1 is    *)
(* the amplitude of the basis state whose qubits 0, 1, 2 are the bits of x *)
(***************************************************************************)
Pow2(q) == CASE q = 0 -> 1 [] q = 1 -> 2 [] q = 2 -> 4
Bit(x, q) == (x \div Pow2(q)) % 2
SetBit(x, q, b) == x + (b - Bit(x, q)) * Pow2(q)

SwapBits(x, p, q) == SetBit(SetBit(x, p, Bit(x, q)), q, Bit(x, p))

Amplitude(v, g, u, x) ==
  IF g.op = "swap" THEN v[SwapBits(x, g.tgt[1], g.tgt[2]) + 1]
  ELSE IF \A i \in DOMAIN g.ctl : Bit(x, g.ctl[i]) = 1
  THEN LET q == g.tgt[1]
           row == u[Bit(x, q) + 1]
       IN AddR(MulR(row[1], v[SetBit(x, q, 0) + 1]),
               MulR(row[2], v[SetBit(x, q, 1) + 1]))
  ELSE MulR(Scale(g), v[x + 1])

\* A long circuit collects powers of two: entries that are all even are halved.
Halved(v) ==
  IF \A x \in DOMAIN v : \A k \in 1..8 : v[x][k] % 2 = 0
  THEN [x \in DOMAIN v |-> [k \in 1..8 |-> v[x][k] \div 2]]
  ELSE v

ApplyGate(v, g) ==
  LET u == IF g.op = "swap" THEN <<>> ELSE GateMatrix(g)
  IN Halved(<<>> \o [x \in DOMAIN v |-> Amplitude(v, g, u, x - 1)])

(***************************************************************************)
(* The matrix of a circuit (a sequence of gates, first gate first): the    *)
(* images of the basis states, one after the other.                        *)
(***************************************************************************)
BasisState(states, x) == [y \in 1..states |-> IF y = x THEN Phase(0) ELSE ZeroR]

Image(states, circuit, x) == FoldLeft(ApplyGate, BasisState(states, x), circuit)

MatrixOn(states, circuit) ==
  FoldLeft(LAMBDA m, x : m \o Image(states, circuit, x), <<>>,
           [x \in 1..states |-> x])

Unitary(circuit)  == MatrixOn(4, circuit)   \* two qubits
Unitary3(circuit) == MatrixOn(8, circuit)   \* three qubits

(***************************************************************************)
(* A and B are proportional.  Both are unitary up to a positive factor, so *)
(* they are then the same unitary up to a global phase.                    *)
(***************************************************************************)
SameUpToPhase(A, B) ==
  LET p == CHOOSE i \in DOMAIN A : A[i] # ZeroR
  IN /\ B[p] # ZeroR
     /\ \A i \in DOMAIN A : MulR(A[p], B[i]) = MulR(B[p], A[i])

Equivalent(c1, c2) == SameUpToPhase(Unitary(c1), Unitary(c2))
Equivalent3(c1, c2) == SameUpToPhase(Unitary3(c1), Unitary3(c2))
=============================================================================
