------------------------------ MODULE Patchbay ------------------------------
(***************************************************************************)
(* The controller as its clients see it: one patch, one request at a time, *)
(* each of which takes effect on the patch at one instant, if at all. What *)
(* a request is checked against and what it changes are the same patch:    *)
(* no request acts on what another one has changed meanwhile.              *)
(*                                                                         *)
(* The switch, the file, health and sync are invisible here. Controller    *)
(* implements this under the refinement mapping given there.               *)
(***************************************************************************)
EXTENDS Patches

VARIABLES
    patch,      \* desired state
    serving     \* the request being served, and whether it took effect

bay == <<patch, serving>>

Request(name, ingress, egress, force) ==
    [name |-> name, ingress |-> ingress, egress |-> egress, force |-> force]
Plain(name) == Request(name, NoPort, NoPort, FALSE)

Free == Plain("free")
Settled == Plain("settled")     \* nothing more will happen to the patch

IsRequest(r) ==
    \/ \E i, e \in Ports, force \in BOOLEAN : r = Request("connect", i, e, force)
    \/ \E i \in Ports : r = Request("disconnect", i, NoPort, FALSE)
    \/ r \in {Plain("clear"), Plain("adopt"), Settled}

-----------------------------------------------------------------------------
Init == patch = NoPatch /\ serving = Free

(* A request that never concerns the patch (a label, a push, a drift       *)
(* check) is settled from the start.                                       *)
Accept ==
    /\ serving = Free
    /\ IsRequest(serving')
    /\ UNCHANGED patch

(* Check and effect of a connection, in one step: nothing is lost that was *)
(* not to be forced.                                                       *)
Connect ==
    /\ serving.name = "connect"
    /\ \E other \in GivesWay(patch, serving.ingress, serving.egress) :
          /\ PreviewIn(patch, serving.ingress, other) = {} \/ serving.force
          /\ patch' = Connected(patch, serving.ingress, serving.egress, other)
    /\ serving' = Settled

(* A forced connection may break after its rival has gone.                 *)
ConnectHalf ==
    /\ serving.name = "connect"
    /\ serving.force
    /\ \E other \in RivalsIn(patch, serving.ingress, serving.egress) :
          patch' = Without(patch, other)
    /\ serving' = Settled

Disconnect ==
    /\ serving.name = "disconnect"
    /\ patch' = Without(patch, serving.ingress)
    /\ serving' = Settled

Clear ==
    /\ serving.name = "clear"
    /\ patch' = NoPatch
    /\ serving' = Settled

(* A pull or a start takes over whatever it reads.                         *)
Adopt ==
    /\ serving.name = "adopt"
    /\ patch' \in Patch
    /\ serving' = Settled

(* The reply, of a request that took effect or of one that did not.        *)
Reply ==
    /\ serving # Free
    /\ serving' = Free
    /\ UNCHANGED patch

(* The process ends.                                                       *)
Vanish == patch' = NoPatch /\ serving' = Free

Next ==
    \/ Accept
    \/ Connect \/ ConnectHalf \/ Disconnect \/ Clear \/ Adopt
    \/ Reply
    \/ Vanish

Spec == Init /\ [][Next]_bay

=============================================================================
