------------------------------ MODULE Lexicon -------------------------------
(***************************************************************************)
(* The texts of src/memory.rs and src/knowledge.rs, which score them       *)
(* alike: a text is a member of Text, and Overlap is overlap_score of the  *)
(* tokens of a query and a text.  Time is counted in days.                 *)
(***************************************************************************)
EXTENDS Integers, FiniteSets

CONSTANTS
    Text, NoText,       \* texts that are not empty when trimmed
    Overlap             \* query -> text -> tokens of the query in the text

ASSUME LexiconAssumption ==
    /\ NoText \notin Text
    /\ Overlap \in [Text -> [Text -> Nat]]
=============================================================================
