------------------------------ MODULE MCPanel ------------------------------
(***************************************************************************)
(* Panel with two ports a side.                                            *)
(***************************************************************************)
EXTENDS PanelClaims, TLC

CONSTANTS p1, p2

MCPorts == {p1, p2}

(* Both ingress ports are wanted on egress p1.                             *)
MCChoices == {<<p1, p1>>, <<p2, p1>>}

(* Nothing, either of the two, p1 somewhere else, or that and p2 on p1, so *)
(* that connecting p1 to p1 takes two away.                                *)
MCElsewhere ==
    {f \in Patch : OneToOne(f) /\ f[p2] # p2}

=============================================================================
