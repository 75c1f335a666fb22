------------------------------- MODULE MCContent -------------------------------
(* Small instances of ContentSources: see the MCContent*.cfg files. *)
EXTENDS ContentSources

CONSTANTS a, b, e

ThreeFrames == {a, b, e}
Lengths == [f \in ThreeFrames |-> CASE f = a -> 3 [] f = b -> 1 [] f = e -> 0]
===============================================================================
