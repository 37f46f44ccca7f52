-------------------------- MODULE MCSchemaUpgrade --------------------------
(* The upgrade of small databases.  No symmetry: the run checks liveness.  *)
EXTENDS SchemaUpgrade
=============================================================================
