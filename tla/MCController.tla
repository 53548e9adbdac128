---------------------------- MODULE MCController ----------------------------
(***************************************************************************)
(* Controller on two panel ports p1, p2 mapped to d1, d2, and a device     *)
(* port dx outside the port map.                                           *)
(***************************************************************************)
EXTENDS ControllerClaims, TLC

CONSTANTS p1, p2, d1, d2, dx, l1

MCPorts == {p1, p2}
MCDevPorts == {d1, d2, dx}
MCToDev == p1 :> d1 @@ p2 :> d2
MCLabels == {NoLabels, l1}

(* A connection pointed elsewhere (two ingress ports may come to share an  *)
(* egress), one removed, and an entry of somebody else's.                  *)
MCEdits == {<<d1, d2>>, <<d2, NoPort>>, <<dx, d1>>}

(* For the liveness runs: no labels; an entry made out of band, on ports   *)
(* of the map or with one end outside, or the former only.                 *)
MCOneLabel == {NoLabels}
MCFewEdits == {<<d1, d2>>, <<dx, d1>>}
MCOneEdit == {<<d1, d2>>}

=============================================================================
