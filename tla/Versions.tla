------------------------------ MODULE Versions ------------------------------
(***************************************************************************)
(* Tags as versions (internal/app/registry.go): parseSemanticTag and       *)
(* compareSemanticVersion. A tag is known by its parts: what is left of it *)
(* between the dots, without spaces around it and without a leading v.     *)
(***************************************************************************)
EXTENDS Integers, Sequences

CONSTANTS
    Tags,
    Parts      \* the parts of each tag as numbers, NaN for what Atoi refuses

NaN == -1

ASSUME PartsAssumption == Parts \in [Tags -> Seq(Nat \union {NaN})]

Version == [1..3 -> Nat]

(* Two or three numbers; a missing patch level is 0.                       *)
IsSemantic(tag) ==
    /\ Len(Parts[tag]) \in 2..3
    /\ \A i \in 1..Len(Parts[tag]) : Parts[tag][i] # NaN

parseSemanticTag(tag) ==
    [i \in 1..3 |-> IF i <= Len(Parts[tag]) THEN Parts[tag][i] ELSE 0]

(* compareSemanticVersion(left, right) > 0: the first difference decides.  *)
Newer(left, right) ==
    \E i \in 1..3 : left[i] > right[i] /\ \A j \in 1..i-1 : left[j] = right[j]

=============================================================================
