--------------------------- MODULE MCReplyPipeline ---------------------------
(* Buyers who ask the same question, and operators at the same console.      *)
EXTENDS ReplyPipeline, TLC

CONSTANTS m1, m2, m3, o1, o2, price

(* Operators are interchangeable; no run with symmetry checks liveness.      *)
Symmetry == Permutations(Operators)

OneQuestion == [m \in Messages |-> price]
=============================================================================
