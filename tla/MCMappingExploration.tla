----------------------- MODULE MCMappingExploration -------------------------
(* An instance of MappingExploration: two matchings (explore_full_match)     *)
(* with a mapping key in common.                                             *)
EXTENDS MappingExploration

CONSTANTS k1, k2, k3

TwoMatchings == <<<<k1, k2>>, <<k2, k3>>>>
=============================================================================
