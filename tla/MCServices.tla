----------------------------- MODULE MCServices -----------------------------
(* The TLC instance of services, templates and callers. *)
EXTENDS Services, TLC

CONSTANTS c1, c2

\* No definition singles out a caller, and the properties are invariants.
CallerSymmetry == Permutations(Caller)

GoingOn == {k \in 1..MaxTask : running[k] # 0}

Looking == {c \in Caller : looked[c] # 0}

\* Bound of the model: once a request took a pair apart or was left half done,
\* states with more than one task or look are checked but not gone on from.
OneOnceTorn == torn # {} => Cardinality(GoingOn) + Cardinality(Looking) <= 1
=============================================================================
