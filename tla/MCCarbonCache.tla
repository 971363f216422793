---------------------------- MODULE MCCarbonCache ----------------------------
(* Small instances of CarbonCache: one region, or two that share a folder. *)
EXTENDS CarbonCache, TLC

MCOneRegion == <<"us_east">>
MCTwoRegions == <<"US_EAST", "us_east">>

\* Both spellings become the same path component.
MCFolder == [r \in Regions |-> "us_east"]

MCSymmetry == Permutations(Captures)

=============================================================================
