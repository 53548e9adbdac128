------------------------------ MODULE Patches ------------------------------
(***************************************************************************)
(* Patches, desired state as everything above the switch speaks of it: the *)
(* dict `mappings' of the controller, the state file and the page. And     *)
(* what one connection does to a patch, whoever asks for it.               *)
(***************************************************************************)

CONSTANTS
    Ports,      \* panel ports 1..port_count
    NoPort      \* "no entry", Python's None / an absent dict key

ASSUME NoPortAssumption == NoPort \notin Ports

Patch == [Ports -> Ports \cup {NoPort}]
NoPatch == [p \in Ports |-> NoPort]

(* The ingress ports that have a connection.                               *)
Patched(patch) == {p \in Ports : patch[p] # NoPort}

(* No two ingress ports share an egress port; the other direction, one     *)
(* egress per ingress, is what a function already is.                      *)
OneToOne(f) ==
    \A a, b \in DOMAIN f : f[a] = f[b] /\ f[a] # NoPort => a = b

(* The connections of a patch, and those that one patch has lost against   *)
(* an earlier one.                                                         *)
Pairs(patch) == {<<p, patch[p]>> : p \in Patched(patch)}
Lost(before, after) == Pairs(before) \ Pairs(after)

-----------------------------------------------------------------------------
(* Connecting ingress to egress: the other ingress ports that hold the     *)
(* egress, one of whom (if any) has to give way; what is named for removal *)
(* when that one is `other'; and the patch without it, and connected.      *)
RivalsIn(patch, ingress, egress) == {p \in Ports \ {ingress} : patch[p] = egress}
GivesWay(patch, ingress, egress) ==
    IF RivalsIn(patch, ingress, egress) = {} THEN {NoPort}
    ELSE RivalsIn(patch, ingress, egress)

PreviewIn(patch, ingress, other) ==
    {p \in {ingress, other} \ {NoPort} : patch[p] # NoPort}

Without(patch, other) ==
    IF other = NoPort THEN patch ELSE [patch EXCEPT ![other] = NoPort]
Connected(patch, ingress, egress, other) ==
    [Without(patch, other) EXCEPT ![ingress] = egress]

=============================================================================
