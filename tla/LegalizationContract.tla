------------------------ MODULE LegalizationContract ------------------------
(***************************************************************************)
(* What BasisConversionPass promises to the pipeline, with none of how it  *)
(* does it: it looks at the kernel it is given and ends with one of two    *)
(* verdicts.                                                               *)
(*                                                                         *)
(*   "rejected"  the pass fails, because the kernel holds a gate that no   *)
(*               chain of decompositions can bring into the native set;    *)
(*   "legal"     the kernel now consists of native gates, next to          *)
(*               operations of the given kernel the pass does not know.    *)
(*                                                                         *)
(* The verdict is a function of the kernel and the native set alone.       *)
(***************************************************************************)
EXTENDS Integers, Sequences

CONSTANTS
  Kernels,            \* the kernels the pass may be given
  NativeSets,         \* the native gate sets it may be asked for
  CanLegalize(_, _),  \* CanLegalize(N, g): some chain brings g into N
  IsLegal(_, _),      \* IsLegal(N, g): g needs no rewriting
  IsForeign(_)        \* the pass does not recognise g

VARIABLES native, input, verdict, output

vars == <<native, input, verdict, output>>

Members(s) == {s[i] : i \in 1..Len(s)}

Init ==
  /\ native \in NativeSets
  /\ input \in Kernels
  /\ verdict = "open"
  /\ output = <<>>

\* every gate of out is legal, or one of the given foreign operations
IsLegalization(out) ==
  \A g \in Members(out) :
    \/ IsForeign(g) /\ g \in Members(input)
    \/ ~IsForeign(g) /\ IsLegal(native, g)

Accept ==
  /\ verdict = "open"
  /\ \A g \in Members(input) : CanLegalize(native, g)
  /\ IsLegalization(output')
  /\ verdict' = "legal"
  /\ UNCHANGED <<native, input>>

Reject ==
  /\ verdict = "open"
  /\ \E g \in Members(input) : ~CanLegalize(native, g)
  /\ verdict' = "rejected"
  /\ UNCHANGED <<native, input, output>>

Next == Accept \/ Reject

\* Safety, and the promise that a verdict is reached.
Safety == Init /\ [][Next]_vars
Spec   == Safety /\ <>(verdict # "open")
=============================================================================
