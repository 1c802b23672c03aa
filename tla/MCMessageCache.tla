---------------------------- MODULE MCMessageCache ----------------------------
(***************************************************************************)
(* MessageCache for TLC: three messages of two types, of three, two and    *)
(* one fragments, so that a repeated fragment can stand for a missing one  *)
(* and two messages of one type can be stored together.                    *)
(***************************************************************************)
EXTENDS MessageCache

CONSTANTS m1, m2, m3, text, json

Three == {m1, m2, m3}
BothTypes == {text, json}
MixedTypes == [m \in Messages |-> IF m = m2 THEN json ELSE text]
Sizes == [m \in Messages |-> CASE m = m1 -> 3 [] m = m2 -> 2 [] m = m3 -> 1]
=============================================================================
