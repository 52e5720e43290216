--------------------------- MODULE MCSchemaFields ---------------------------
(* An instance of SchemaFields for TLC. *)
EXTENDS SchemaFields, TLC

FieldSymmetry == Permutations(Names) \cup Permutations(Types) \cup Permutations(Keys)
=============================================================================
