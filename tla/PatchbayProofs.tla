--------------------------- MODULE PatchbayProofs ---------------------------
(***************************************************************************)
(* The controller implements the patch bay its clients see. The steps that *)
(* change the patch are those behind the last device call of connect,      *)
(* disconnect, clear and refresh, and the adoption of the state file; what *)
(* HandlerInv knows of connect between its calls makes check and effect    *)
(* fall into one abstract step.                                            *)
(***************************************************************************)
EXTENDS ControllerStepProofs

(* The requests Serving can show.                                          *)
LEMMA ServingKinds ==
    /\ Bare("free") = Bay!Free
    /\ Bare("settled") = Bay!Settled
    /\ Bare("clear") = Bay!Plain("clear")
    /\ Bare("adopt") = Bay!Plain("adopt")
    /\ Bay!Settled # Bay!Free
    /\ \A r \in {Bare("settled"), Bare("clear"), Bare("adopt")} : Bay!IsRequest(r)
  <1>1. /\ Bare("free") = Bay!Free
        /\ Bare("settled") = Bay!Settled
        /\ Bare("clear") = Bay!Plain("clear")
        /\ Bare("adopt") = Bay!Plain("adopt")
    BY DEF Bare, Bay!Free, Bay!Settled, Bay!Plain, Bay!Request
  <1>2. Bay!Settled.name = "settled" /\ Bay!Free.name = "free"
    BY DEF Bay!Free, Bay!Settled, Bay!Plain, Bay!Request
  <1>3. \A r \in {Bay!Settled, Bay!Plain("clear"), Bay!Plain("adopt")} : Bay!IsRequest(r)
    BY DEF Bay!IsRequest
  <1> QED
    BY <1>1, <1>2, <1>3

(* A step that leaves the patch alone and takes the request from free to   *)
(* any, from any to settled or free, or nowhere, is one of the bay's.      *)
LEMMA QuietBay ==
    ASSUME mappings' = mappings,
           \/ Serving' = Serving
           \/ Serving = Bay!Free /\ Bay!IsRequest(Serving')
           \/ Serving # Bay!Free /\ Serving' = Bay!Free
    PROVE  [Bay!Next]_<<mappings, Serving>>
  BY DEF Bay!Next, Bay!Accept, Bay!Reply

LEMMA BayInit == Init => Bay!Init
  BY ServingKinds DEF Init, NoOp, Serving, Bay!Init, Bay!NoPatch, NoPatch

LEMMA BayStep ==
    HandlerInv /\ TypeOK' /\ [Next]_vars => [Bay!Next]_<<mappings, Serving>>
  <1> SUFFICES ASSUME HandlerInv, TypeOK', [Next]_vars
               PROVE  [Bay!Next]_<<mappings, Serving>>
    OBVIOUS
  <1>1. /\ TypeOK /\ Steady /\ op \in OpType /\ op' \in OpType
        /\ mappings \in Patch /\ mappings' \in Patch
    BY DEF HandlerInv, DeviceInv, TypeOK
  <1>2. CASE Stop
    <2>1. mappings' = NoPatch /\ Serving' = Bay!Free
      BY <1>2, ServingKinds DEF Stop, Return, NoOp, Serving
    <2> QED
      BY <2>1 DEF Bay!Next, Bay!Vanish, Bay!NoPatch, NoPatch
  <1>3. CASE Boot
    <2>1. op = NoOp
      BY <1>1, <1>3 DEF Boot, Steady
    <2>2. mappings' = mappings /\ Serving = Bay!Free /\ Serving' = Bare("adopt")
      BY <1>3, <2>1, ServingKinds DEF Boot, volatile, Begin, NoOp, Serving
    <2> QED
      BY <2>2, ServingKinds, QuietBay
  <1>4. CASE \E i, e \in Ports, force \in BOOLEAN : Connect(i, e, force)
    <2>1. PICK i \in Ports, e \in Ports, force \in BOOLEAN : Connect(i, e, force)
      BY <1>4
    <2>2. /\ op = NoOp /\ mappings' = mappings
          /\ op'.name = "connect" /\ op'.at \in {"delete", "write"}
          /\ op'.ingress = i /\ op'.egress = e /\ op'.force = force
      BY <2>1 DEF Connect, Ready, Idle, FirstCall, volatile
    <2>3. Serving = Bay!Free
      BY <2>2, ServingKinds DEF NoOp, Serving
    <2>4. Serving' = Bay!Request("connect", i, e, force)
      BY <2>2 DEF Serving, Bound, Bay!Request
    <2>5. Bay!IsRequest(Serving')
      BY <2>1, <2>4 DEF Bay!IsRequest
    <2> QED
      BY <2>2, <2>3, <2>5, QuietBay
  <1>5. CASE \E i \in Ports : Disconnect(i)
    <2>1. PICK i \in Ports : Disconnect(i)
      BY <1>5
    <2>2. /\ op = NoOp /\ mappings' = mappings
          /\ op'.name = "disconnect" /\ op'.at = "delete"
          /\ op'.ingress = i /\ op'.egress = NoPort /\ op'.force = FALSE
      BY <2>1 DEF Disconnect, Ready, Idle, NoOp, volatile
    <2>3. Serving = Bay!Free
      BY <2>2, ServingKinds DEF NoOp, Serving
    <2>4. Serving' = Bay!Request("disconnect", i, NoPort, FALSE)
      BY <2>2 DEF Serving, Bound, Bay!Request
    <2>5. Bay!IsRequest(Serving')
      BY <2>1, <2>4 DEF Bay!IsRequest
    <2> QED
      BY <2>2, <2>3, <2>5, QuietBay
  <1>6. CASE \/ Refresh \/ Push \/ Clear \/ CheckDrift
             \/ \E new \in Labels : SetLabel(new)
    <2>1. op = NoOp /\ mappings' = mappings
      BY <1>6 DEF Refresh, Push, Clear, CheckDrift, SetLabel, Ready, Idle, volatile
    <2>2. Serving = Bay!Free
      BY <2>1, ServingKinds DEF NoOp, Serving
    <2>3. Serving' \in {Bare("settled"), Bare("clear"), Bare("adopt")}
      BY <1>6 DEF Refresh, Push, Clear, CheckDrift, SetLabel, Begin, NoOp, Serving, Bare
    <2> QED
      BY <2>1, <2>2, <2>3, ServingKinds, QuietBay
  <1>7. CASE ConnectDelete
    <2>1. mappings' = mappings
      BY <1>7 DEF ConnectDelete, volatile
    <2>2. Serving.name = "connect" /\ Serving # Bay!Free
      BY <1>7 DEF ConnectDelete, At, Serving, Bound, Bay!Free, Bay!Plain, Bay!Request
    <2>3. Serving' = Serving \/ Serving' = Bay!Free
      BY <1>1, <1>7, ServingKinds
      DEF ConnectDelete, At, Return, NoOp, Serving, Bound, OpType
    <2> QED
      BY <2>1, <2>2, <2>3, QuietBay
  <1>8. CASE ConnectWrite
    <2>1. /\ op.name = "connect" /\ op.at = "write"
          /\ op.ingress \in Ports /\ op.egress \in Ports
          /\ op.other # NoPort => op.other \in Rivals(op.ingress, op.egress)
          /\ op.other = NoPort => Rivals(op.ingress, op.egress) = {}
          /\ ~op.force => op.other = NoPort /\ mappings[op.ingress] = NoPort
      BY <1>1, <1>8 DEF HandlerInv, ConnectWrite, TypeOK, OpReady, At
    <2>2. /\ Serving.name = "connect" /\ Serving.force = op.force
          /\ Serving.ingress = op.ingress /\ Serving.egress = op.egress
          /\ Serving # Bay!Free
      BY <2>1 DEF Serving, Bound, Bay!Free, Bay!Plain, Bay!Request
    <2>3. Rivals(op.ingress, op.egress) = Bay!RivalsIn(mappings, op.ingress, op.egress)
      BY DEF Rivals, Bay!RivalsIn
    <2>4. WithoutOther = Bay!Without(mappings, op.other)
      BY DEF WithoutOther, Bay!Without
    <2>5. CASE /\ mappings' = [WithoutOther EXCEPT ![op.ingress] = op.egress]
               /\ Await("save")
      <3>1. op.other \in Bay!GivesWay(mappings, op.ingress, op.egress)
        BY <2>1, <2>3, PortMapAssumption DEF Bay!GivesWay, Rivals
      <3>2. Bay!PreviewIn(mappings, op.ingress, op.other) = {} \/ op.force
        BY <2>1, PortMapAssumption DEF Bay!PreviewIn
      <3>3. mappings' = Bay!Connected(mappings, op.ingress, op.egress, op.other)
        BY <2>4, <2>5 DEF Bay!Connected
      <3>4. Serving' = Bay!Settled
        BY <2>1, <2>5, ServingKinds DEF Await, NoOp, Serving
      <3>5. Bay!Connect
        BY <2>2, <3>1, <3>2, <3>3, <3>4 DEF Bay!Connect
      <3> QED
        BY <3>5 DEF Bay!Next
    <2>6. CASE mappings' = WithoutOther /\ AfterFailedWrite /\ op.other # NoPort
      <3>1. op.force /\ op.other \in Bay!RivalsIn(mappings, op.ingress, op.egress)
        BY <2>1, <2>3, <2>6
      <3>2. Serving' = Bay!Settled
        BY <2>1, <2>6, ServingKinds DEF AfterFailedWrite, Await, NoOp, Serving
      <3>3. Bay!ConnectHalf
        BY <2>2, <2>4, <2>6, <3>1, <3>2 DEF Bay!ConnectHalf
      <3> QED
        BY <3>3 DEF Bay!Next
    <2>7. CASE mappings' = WithoutOther /\ AfterFailedWrite /\ op.other = NoPort
      <3>1. mappings' = mappings /\ Serving' = Bay!Free
        BY <2>7, ServingKinds DEF AfterFailedWrite, WithoutOther, Return, NoOp, Serving
      <3> QED
        BY <2>2, <3>1, QuietBay
    <2> QED
      BY <1>8, <2>5, <2>6, <2>7 DEF ConnectWrite
  <1>9. CASE DisconnectDelete
    <2>1. op.name = "disconnect" /\ op.at = "delete" /\ op.ingress \in Ports
      BY <1>1, <1>9 DEF DisconnectDelete, TypeOK, OpReady, At
    <2>2. /\ Serving.name = "disconnect" /\ Serving.ingress = op.ingress
          /\ Serving # Bay!Free
      BY <2>1 DEF Serving, Bound, Bay!Free, Bay!Plain, Bay!Request
    <2>3. CASE /\ mappings' = [mappings EXCEPT ![op.ingress] = NoPort]
               /\ Await("save")
      <3>1. mappings' = Bay!Without(mappings, op.ingress)
        BY <2>1, <2>3, PortMapAssumption DEF Bay!Without
      <3>2. Serving' = Bay!Settled
        BY <2>1, <2>3, ServingKinds DEF Await, NoOp, Serving
      <3> QED
        BY <2>2, <3>1, <3>2 DEF Bay!Next, Bay!Disconnect
    <2>4. CASE mappings' = mappings /\ Return
      <3>1. Serving' = Bay!Free
        BY <2>4, ServingKinds DEF Return, NoOp, Serving
      <3> QED
        BY <2>2, <2>4, <3>1, QuietBay
    <2> QED
      BY <1>9, <2>3, <2>4 DEF DisconnectDelete
  <1>10. CASE RefreshRead \/ ReconcileAdopt
    <2>1. Serving = Bay!Plain("adopt") /\ Serving.name = "adopt"
      BY <1>10, ServingKinds DEF RefreshRead, ReconcileAdopt, At, Serving, Bare
    <2>2. Serving' = Bay!Settled
      BY <1>10, ServingKinds
      DEF RefreshRead, ReconcileAdopt, At, Await, Begin, NoOp, Serving
    <2>3. mappings' \in Bay!Patch
      BY <1>1 DEF Patch, Bay!Patch
    <2> QED
      BY <2>1, <2>2, <2>3 DEF Bay!Next, Bay!Adopt
  <1>11. CASE ClearTable
    <2>1. Serving.name = "clear" /\ Serving # Bay!Free
      BY <1>11 DEF ClearTable, At, Serving, Bare, Bay!Free, Bay!Plain, Bay!Request
    <2>2. CASE mappings' = NoPatch /\ Await("save")
      <3>1. Serving' = Bay!Settled
        BY <1>11, <2>2, ServingKinds DEF ClearTable, At, Await, NoOp, Serving
      <3> QED
        BY <2>1, <2>2, <3>1 DEF Bay!Next, Bay!Clear, NoPatch, Bay!NoPatch
    <2>3. CASE mappings' = mappings /\ Return
      <3>1. Serving' = Bay!Free
        BY <2>3, ServingKinds DEF Return, NoOp, Serving
      <3> QED
        BY <2>1, <2>3, <3>1, QuietBay
    <2> QED
      BY <1>11, <2>2, <2>3 DEF ClearTable
  <1>12. CASE RefreshFail \/ ReconcileRefuse
    <2>1. Serving.name = "adopt" /\ Serving # Bay!Free
      BY <1>12 DEF RefreshFail, ReconcileRefuse, At, Serving, Bare, Bay!Free, Bay!Plain,
                   Bay!Request
    <2>2. mappings' = mappings /\ op' = NoOp
      BY <1>12 DEF RefreshFail, ReconcileRefuse, Return, volatile
    <2>3. Serving' = Bay!Free
      BY <2>2, ServingKinds DEF Serving, NoOp
    <2> QED
      BY <2>1, <2>2, <2>3, QuietBay
  <1>13. CASE \/ PushStatus \/ PushClear \/ PushClearFail \/ PushWrite
              \/ PushWriteFail \/ PushProbe
              \/ DriftReadFail \/ DriftNone \/ DriftFound \/ Save
    <2>1. mappings' = mappings
      BY <1>13 DEF PushStatus, PushClear, PushClearFail, PushWrite, PushWriteFail,
                   PushProbe, DriftReadFail, DriftNone, DriftFound, Save
    <2>2. \/ op.name \in {"push", "check_drift"}
          \/ op.at = "save" /\ op' = NoOp
      BY <1>13
      DEF PushStatus, PushClear, PushClearFail, PushWrite, PushWriteFail, PushProbe,
          DriftReadFail, DriftNone, DriftFound, Save, At, Return
    <2>3. Serving = Bay!Settled \/ (Serving = Bay!Free /\ op' = NoOp)
      BY <2>2, ServingKinds DEF Serving
    <2>4. op' = NoOp \/ op'.name = "push"
      BY <1>13, ReplayFields
      DEF PushStatus, PushClear, PushClearFail, PushWrite, PushWriteFail, PushProbe,
          DriftReadFail, DriftNone, DriftFound, Save, At, Replay, Return, Await, NoOp
    <2>5. Serving' \in {Bay!Settled, Bay!Free}
      BY <2>4, ServingKinds DEF Serving, NoOp
    <2> QED
      BY <2>1, <2>3, <2>5, ServingKinds, QuietBay
  <1>14. CASE BootBadPortMap \/ OutOfBand \/ UNCHANGED vars
    <2>1. UNCHANGED <<mappings, op>>
      BY <1>14 DEF BootBadPortMap, OutOfBand, vars, volatile
    <2> QED
      BY <2>1, QuietBay DEF Serving, Bound, Bare
  <1> QED
    BY <1>2, <1>3, <1>4, <1>5, <1>6, <1>7, <1>8, <1>9, <1>10, <1>11, <1>12, <1>13,
       <1>14 DEF Next, Request, Resume

(* Whatever happens between the calls of a handler, every request acts on  *)
(* the patch at one instant and on what it was checked against.            *)
THEOREM ControllerIsPatchbay == Spec => ImplementsPatchbay
  <1>1. HandlerInv => TypeOK
    BY DEF HandlerInv, DeviceInv
  <1> QED
    BY <1>1, BayInit, BayStep, HandlerInvariant, PTL
    DEF Spec, ImplementsPatchbay, Bay!Spec, Bay!bay

=============================================================================
