------------------------------- MODULE DemoSeed -------------------------------
(***************************************************************************)
(* What the demo seed stores: its rows by group, its relationships, and    *)
(* the checks by which it tops up an older database.                       *)
(***************************************************************************)
EXTENDS Sequences

(* A group of rows with natural keys that are always added together.  The  *)
(* household stands for the entities, securities and lots it began with,   *)
(* workflows for the definitions of the catalog as it was first stored,    *)
(* and workflows_new for those added to it since: the seed adds whichever  *)
(* name it does not find.                                                  *)
DemoRows == {"household", "prices", "lot_vti_2", "alex", "morgan",
             "custodian_fidelity", "acct_fidelity", "lot_fidelity_vti",
             "lot_fidelity_bnd", "alt_pe_smith", "gains", "workflows",
             "workflows_new"}

(* Relationships have no key but a running number.                         *)
DemoEdges == {"first_edges", "alex_ira", "morgan_trust", "smith_alex",
              "smith_morgan", "fidelity_edges"}

(* The rows a relationship came with.                                      *)
DemoGuard ==
    [e \in DemoEdges |->
        CASE e = "first_edges" -> "household"
          [] e \in {"alex_ira", "smith_alex"} -> "alex"
          [] e \in {"morgan_trust", "smith_morgan"} -> "morgan"
          [] e = "fidelity_edges" -> "acct_fidelity"]

Row(r) == [probe |-> r, edges |-> {}]
Edge(e) == [probe |-> e, edges |-> {e}]

(* In the order the code looks: whatever the probe does not find is added, *)
(* with the edges. The names of all workflows are read at once; here the   *)
(* two groups one after the other, which allows more.                      *)
DemoChecks ==
    <<Row("prices"), Row("lot_vti_2"),
      Row("alex"), Row("morgan"),
      Edge("alex_ira"), Edge("morgan_trust"), Edge("smith_alex"), Edge("smith_morgan"),
      Row("custodian_fidelity"),
      [probe |-> "acct_fidelity", edges |-> {"fidelity_edges"}],
      Row("lot_fidelity_vti"), Row("lot_fidelity_bnd"), Row("alt_pe_smith"),
      Row("gains"), Row("workflows"), Row("workflows_new")>>
=============================================================================
