------------------------------ MODULE PortMap ------------------------------
(***************************************************************************)
(* The vocabulary the controller works in: panel ports (what the operator  *)
(* sees), device ports (what the switch sees), the injective map between   *)
(* them that app/port_map.py accepts, patches (desired state, ingress to   *)
(* egress panel port) and tables (live state, ingress to egress device     *)
(* port), and the comparison of a patch with a table that the drift check  *)
(* makes.                                                                  *)
(*                                                                         *)
(* A port map that fails to load never becomes a PortMap object; that case *)
(* is the boot branch `badPortMap' of Controller.                          *)
(***************************************************************************)

EXTENDS Patches

CONSTANTS
    DevPorts,   \* device ports of the switch, those outside the port map too
    ToDev       \* _ui_to_dev: panel port -> device port

ASSUME PortMapAssumption ==
    /\ NoPort \notin Ports
    /\ NoPort \notin DevPorts
    /\ ToDev \in [Ports -> DevPorts]
    /\ \A p, q \in Ports : ToDev[p] = ToDev[q] => p = q

-----------------------------------------------------------------------------
(* The device ports the map covers, and PortMap.to_ui on them.             *)
Mapped == {ToDev[p] : p \in Ports}
ToUi(d) == CHOOSE p \in Ports : ToDev[p] = d

(* Live state: the switch's match table, one entry per ingress at most.    *)
Table == [DevPorts -> DevPorts \cup {NoPort}]
EmptyTable == [d \in DevPorts |-> NoPort]

(* Both ends of every entry have a panel port: _to_ui raises on none.      *)
Translatable(table) ==
    \A d \in DevPorts :
        table[d] # NoPort => d \in Mapped /\ table[d] \in Mapped

(* The panel ports whose device entry has both ends in the map, and the    *)
(* dict `device' that check_drift and refresh build from such entries.     *)
Seen(table) == {p \in Ports : table[ToDev[p]] \in Mapped}
PatchOf(table) ==
    [p \in Ports |-> IF p \in Seen(table) THEN ToUi(table[ToDev[p]]) ELSE NoPort]

-----------------------------------------------------------------------------
(* The four parts of the drift delta.                                      *)
Missing(patch, table) ==
    {p \in Ports : patch[p] # NoPort /\ p \notin Seen(table)}
Mismatched(patch, table) ==
    {p \in Ports : /\ patch[p] # NoPort
                   /\ p \in Seen(table)
                   /\ PatchOf(table)[p] # patch[p]}
Extra(patch, table) ==
    {p \in Ports : patch[p] = NoPort /\ p \in Seen(table)}
Unmapped(table) ==
    {d \in DevPorts : /\ table[d] # NoPort
                      /\ ~(d \in Mapped /\ table[d] \in Mapped)}

DiffersBlindToExtra(patch, table) == \* mutant
    Missing(patch, table) \cup Mismatched(patch, table) \cup Unmapped(table) # {}
Differs(patch, table) ==
    \/ Missing(patch, table) # {}
    \/ Mismatched(patch, table) # {}
    \/ Extra(patch, table) # {}
    \/ Unmapped(table) # {}

-----------------------------------------------------------------------------
(* What the delta is meant to decide, said without it: the table is the    *)
(* image of the patch and holds nothing else.                              *)
DevOf(port) == IF port \in Ports THEN ToDev[port] ELSE NoPort

Agrees(patch, table) ==
    /\ \A p \in Ports : table[ToDev[p]] = DevOf(patch[p])
    /\ \A d \in DevPorts \ Mapped : table[d] = NoPort

(* Every entry of the table is one the patch asks for.                     *)
Within(patch, table) ==
    /\ \A p \in Ports : table[ToDev[p]] \in {NoPort, DevOf(patch[p])}
    /\ \A d \in DevPorts \ Mapped : table[d] = NoPort

=============================================================================
