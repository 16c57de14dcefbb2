------------------------------ MODULE MCBootstrap ------------------------------
(* Small instances of Bootstrap for TLC, on the demo seed.                 *)
EXTENDS Bootstrap, DemoSeed, FiniteSets, TLC

CONSTANTS p1, p2, MaxMissing

(* What the program came to store after its first release, by feature.     *)
Features ==
    {{"prices"}, {"lot_vti_2"}, {"alex", "morgan"}, {"gains"}, {"workflows"}, {"workflows_new"},
     {"custodian_fidelity", "acct_fidelity", "lot_fidelity_vti", "lot_fidelity_bnd",
      "alt_pe_smith"}}

(* An empty database, or one of a release before up to MaxMissing of them. *)
MCDatabases ==
    {{}} \cup {DemoRows \ UNION lacks :
                  lacks \in {f \in SUBSET Features : Cardinality(f) <= MaxMissing}}

Symmetry == Permutations(Procs)
=============================================================================
