------------------------------ MODULE MCFabric ------------------------------
(***************************************************************************)
(* The fabric over the cache of MCSemanticCache.                           *)
(***************************************************************************)
EXTENDS MCSemanticCache, Fabric
=============================================================================
