--------------------------- MODULE MCSchemaCache ---------------------------
(***************************************************************************)
(* SchemaCache with two sessions, for databases with and without schemas.  *)
(***************************************************************************)
EXTENDS SchemaCache, TLC

\* Sessions are interchangeable, and so are entries.
CatalogSymmetry == Permutations(Session) \cup Permutations(Entry)
=============================================================================
