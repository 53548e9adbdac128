------------------------ MODULE ControllerStepProofs ------------------------
(***************************************************************************)
(* What a step of the controller may never do: the action properties of    *)
(* Controller, proved from the invariants of ControllerProofs.             *)
(***************************************************************************)
EXTENDS ControllerProofs, FiniteSetTheorems

-----------------------------------------------------------------------------
(* A refused start.                                                        *)

(* A start that was refused stays refused until the process is restarted,  *)
(* and no operation touches the switch.                                    *)
THEOREM RefusalKept == Spec => RefusedStaysRefused
  <1>1. SavedInv /\ [Next]_vars => [KeepsRefusal]_vars
    <2> SUFFICES ASSUME SavedInv, [Next]_vars, running, running', ~recoverable
                 PROVE  ~recoverable' /\ (op' # op => table' = table)
      BY DEF KeepsRefusal
    <2>1. Steady /\ Refused /\ health = "unhealthy"
      BY DEF SavedInv, Refused
    <2>2. op.name \in {"none", "set_label"} /\ op.at \in {"none", "save"}
      BY <2>1 DEF Refused, Idle, NoOp, At
    <2> USE <2>1, <2>2 DEF At
    <2>3. CASE Request \/ CheckDrift
      BY <2>3 DEF Request, CheckDrift, Connect, Disconnect, Refresh, Push, MayPush,
                  Clear, SetLabel, RequireHealthy, volatile
    <2>4. CASE Resume
      <3>1. CASE Save
        BY <3>1 DEF Save
      <3> QED
        BY <2>4, <3>1
        DEF Resume, ReconcileAdopt, ReconcileRefuse, ConnectDelete, ConnectWrite,
            DisconnectDelete, RefreshRead, RefreshFail, PushStatus, PushClear,
            PushClearFail, PushWrite, PushWriteFail, PushProbe, ClearTable,
            DriftReadFail, DriftNone, DriftFound
    <2>5. CASE Boot \/ BootBadPortMap \/ Stop
      BY <2>5 DEF Boot, BootBadPortMap, Stop
    <2>6. CASE OutOfBand
      BY <2>6 DEF OutOfBand, volatile
    <2>7. CASE UNCHANGED vars
      BY <2>7 DEF vars, volatile
    <2> QED
      BY <2>3, <2>4, <2>5, <2>6, <2>7 DEF Next
  <1> QED
    BY <1>1, SavedInvariant, PTL DEF Spec, RefusedStaysRefused

-----------------------------------------------------------------------------
(* What handlers know between their calls.                                 *)

LEMMA HandlerInit == Init => HandlerInv
  BY DeviceInit DEF Init, HandlerInv, NoOp, At

LEMMA HandlerStep == HandlerInv /\ [Next]_vars => HandlerInv'
  <1> SUFFICES ASSUME HandlerInv, [Next]_vars
               PROVE  /\ op'.name = "connect" /\ op'.at # "save" =>
                           /\ op'.other # NoPort => op'.other \in Rivals(op.ingress, op.egress)'
                           /\ op'.other = NoPort => Rivals(op.ingress, op.egress)' = {}
                           /\ ~op'.force => op'.other = NoPort /\ mappings'[op'.ingress] = NoPort
                      /\ At("push", "write")' \/ At("refresh", "save")' \/ At("clear", "save")'
                           => ~partial'
    BY DeviceStep DEF HandlerInv
  <1>1. DeviceInv /\ TypeOK /\ op \in OpType /\ partial \in BOOLEAN
    BY DEF HandlerInv, DeviceInv, TypeOK
  <1> USE <1>1, ControlFields DEF At, HandlerInv
  <1>2. CASE Boot \/ BootBadPortMap \/ Stop
    <2>1. ~running => op = NoOp
      BY DEF DeviceInv, Steady
    <2> QED
      BY <1>2, <2>1 DEF Boot, BootBadPortMap, Stop, Begin, Return, NoOp
  <1>3. CASE \E i, e \in Ports, force \in BOOLEAN : Connect(i, e, force)
    <2>1. PICK i \in Ports, e \in Ports, force \in BOOLEAN : Connect(i, e, force)
      BY <1>3
    <2>2. PICK other \in IF Rivals(i, e) = {} THEN {NoPort} ELSE Rivals(i, e) :
             /\ RemovalPreview(i, other) = {} \/ force
             /\ op' = [name |-> "connect", at |-> FirstCall(other),
                       ingress |-> i, egress |-> e, other |-> other,
                       left |-> {}, force |-> force]
      BY <2>1 DEF Connect
    <2>3. UNCHANGED mappings
      BY <2>1 DEF Connect, volatile
    <2>4. /\ op'.name = "connect" /\ op'.ingress = i /\ op'.egress = e
          /\ op'.other = other /\ op'.force = force
      BY <2>2
    <2>5. other # NoPort => other \in Rivals(i, e)
      BY <2>2
    <2>6. other = NoPort => Rivals(i, e) = {}
      BY <2>2, PortMapAssumption DEF Rivals
    <2>7. ~force => other = NoPort /\ mappings[i] = NoPort
      <3>1. other # NoPort => mappings[other] # NoPort
        BY <2>5, PortMapAssumption DEF Rivals
      <3> QED
        BY <2>2, <3>1, PortMapAssumption DEF RemovalPreview
    <2> QED
      BY <2>3, <2>4, <2>5, <2>6, <2>7 DEF Rivals
  <1>4. CASE \E i \in Ports : Disconnect(i)
    BY <1>4 DEF Disconnect, NoOp
  <1>5. CASE \/ Refresh \/ Push \/ Clear \/ CheckDrift
             \/ \E new \in Labels : SetLabel(new)
    BY <1>5 DEF Refresh, Push, Clear, SetLabel, CheckDrift
  <1>6. CASE ConnectDelete
    BY <1>6 DEF ConnectDelete, Return, Rivals, OpType, volatile
  <1>7. CASE ConnectWrite \/ DisconnectDelete
    BY <1>7 DEF ConnectWrite, DisconnectDelete, AfterFailedWrite, Return
  <1>8. CASE RefreshRead \/ RefreshFail \/ ClearTable
    BY <1>8 DEF RefreshRead, RefreshFail, ClearTable, Return
  <1>9. CASE PushClear
    BY <1>9, ReplayFields DEF PushClear
  <1>10. CASE PushWrite
    BY <1>10, ReplayFields DEF PushWrite, history
  <1>11. CASE ReconcileAdopt \/ ReconcileRefuse
    BY <1>11 DEF ReconcileAdopt, ReconcileRefuse, Begin, Return, NoOp
  <1>12. CASE PushStatus \/ PushClearFail \/ PushWriteFail \/ PushProbe
    BY <1>12 DEF PushStatus, PushClearFail, PushWriteFail, PushProbe, Await, Return,
                 NoOp
  <1>13. CASE DriftReadFail \/ DriftNone \/ DriftFound \/ Save
    BY <1>13 DEF DriftReadFail, DriftNone, DriftFound, Save, Return
  <1>14. CASE OutOfBand \/ UNCHANGED vars
    BY <1>14 DEF OutOfBand, vars, volatile, history, Rivals
  <1> QED
    BY <1>2, <1>3, <1>4, <1>5, <1>6, <1>7, <1>8, <1>9, <1>10, <1>11, <1>12, <1>13,
       <1>14 DEF Next, Request, Resume

LEMMA HandlerInvariant == Spec => []HandlerInv
  BY HandlerInit, HandlerStep, PTL DEF Spec

-----------------------------------------------------------------------------
(* One to one.                                                             *)

(* Desired state stops being one to one only by adopting a table or a file *)
(* that is not: no connect, failed or not, brings it about.                *)
THEOREM OneToOneKept == Spec => OneToOneLostByAdoption
  <1>1. HandlerInv /\ [Next]_vars => [AdoptsIfLosesOneToOne]_vars
    <2> SUFFICES ASSUME HandlerInv, [Next]_vars, OneToOne(mappings),
                        ~OneToOne(mappings'), op.name \notin {"refresh", "reconcile"}
                 PROVE  FALSE
      BY DEF AdoptsIfLosesOneToOne
    <2>1. mappings \in Patch /\ TypeOK /\ TypeOK'
      BY TypeStep DEF HandlerInv, DeviceInv, TypeOK
    <2>2. mappings' # mappings
      OBVIOUS
    <2>3. CASE ConnectWrite
      <3>1. /\ op.ingress \in Ports /\ op.egress \in Ports
            /\ op.other # NoPort => op.other \in Rivals(op.ingress, op.egress)
            /\ op.other = NoPort => Rivals(op.ingress, op.egress) = {}
        BY <2>1, <2>3 DEF HandlerInv, ConnectWrite, TypeOK, OpReady, At
      <3>2. /\ WithoutOther \in Patch
            /\ \A p \in Ports : WithoutOther[p] \in {NoPort, mappings[p]}
        BY <2>1, <3>1, PortMapAssumption DEF WithoutOther, Patch, Rivals
      <3>3. OneToOne(WithoutOther)
        BY <2>1, <3>2 DEF OneToOne, Patch
      <3>4. \A p \in Ports \ {op.ingress} : WithoutOther[p] # op.egress
        <4> SUFFICES ASSUME NEW p \in Ports \ {op.ingress},
                            WithoutOther[p] = op.egress
                     PROVE  FALSE
          OBVIOUS
        <4>1. mappings[p] = op.egress /\ p \in Rivals(op.ingress, op.egress)
          BY <3>1, <3>2, PortMapAssumption DEF Rivals
        <4>2. op.other \in Ports /\ mappings[op.other] = op.egress
          BY <3>1, <4>1 DEF Rivals
        <4>3. p = op.other
          BY <2>1, <3>1, <4>1, <4>2, PortMapAssumption DEF OneToOne, Patch
        <4> QED
          BY <2>1, <3>1, <4>2, <4>3, PortMapAssumption DEF WithoutOther, Patch
      <3>5. OneToOne([WithoutOther EXCEPT ![op.ingress] = op.egress])
        BY <3>1, <3>2, <3>3, <3>4 DEF OneToOne, Patch
      <3> QED
        BY <2>3, <3>3, <3>5 DEF ConnectWrite
    <2>4. CASE DisconnectDelete
      <3>1. mappings' = [mappings EXCEPT ![op.ingress] = NoPort]
        BY <2>2, <2>4 DEF DisconnectDelete
      <3> QED
        BY <2>1, <3>1 DEF OneToOne, Patch
    <2>5. CASE ClearTable \/ Stop
      <3>1. mappings' = NoPatch
        BY <2>2, <2>5 DEF ClearTable, Stop
      <3> QED
        BY <3>1 DEF OneToOne, NoPatch
    <2>6. CASE Request \/ CheckDrift \/ Boot \/ BootBadPortMap \/ OutOfBand
      BY <2>2, <2>6 DEF Request, CheckDrift, Connect, Disconnect, Refresh, Push, Clear,
                  SetLabel, Boot, BootBadPortMap, OutOfBand, volatile
    <2>7. CASE Resume /\ ~ConnectWrite /\ ~DisconnectDelete /\ ~ClearTable
      BY <2>2, <2>7
      DEF Resume, ReconcileAdopt, ReconcileRefuse, ConnectDelete, RefreshRead,
          RefreshFail, PushStatus, PushClear, PushClearFail, PushWrite, PushWriteFail,
          PushProbe, DriftReadFail, DriftNone, DriftFound, Save, At, volatile
    <2>8. CASE UNCHANGED vars
      BY <2>2, <2>8 DEF vars, volatile
    <2> QED
      BY <2>3, <2>4, <2>5, <2>6, <2>7, <2>8 DEF Next
  <1> QED
    BY <1>1, HandlerInvariant, PTL DEF Spec, OneToOneLostByAdoption

(* A connect that was not forced takes away no connection, neither from    *)
(* desired state nor, if the table did not change unseen, from the switch. *)
THEOREM UnforcedIsHarmless == Spec => UnforcedRemovesNothing
  <1>1. HandlerInv /\ [Next]_vars => [RemovesNothingUnforced]_vars
    <2> SUFFICES ASSUME HandlerInv, [Next]_vars,
                        op.name = "connect", ~op.force, op' # op, running'
                 PROVE  /\ \A p \in Patched(mappings) : mappings'[p] = mappings[p]
                        /\ \/ outside
                           \/ \A d \in DevPorts : table[d] # NoPort => table'[d] = table[d]
      BY DEF RemovesNothingUnforced
    <2>1. /\ TypeOK /\ Steady /\ NothingUnasked
          /\ mappings \in Patch /\ table \in Table
      BY DEF HandlerInv, DeviceInv, TypeOK
    <2>2. ConnectDelete \/ ConnectWrite \/ Save
      <3>1. op # NoOp /\ running
        BY <2>1 DEF Steady, NoOp
      <3>2. ~(Boot \/ BootBadPortMap \/ Stop \/ Request \/ CheckDrift \/ OutOfBand)
        BY <3>1 DEF Boot, BootBadPortMap, Stop, Request, CheckDrift, OutOfBand, Connect,
                    Disconnect, Refresh, Push, Clear, SetLabel, Ready, Idle
      <3>3. Resume
        BY <3>2 DEF Next, vars
      <3> QED
        BY <3>3
        DEF Resume, ReconcileAdopt, ReconcileRefuse, DisconnectDelete, RefreshRead,
            RefreshFail, PushStatus, PushClear, PushClearFail, PushWrite,
            PushWriteFail, PushProbe, ClearTable, DriftReadFail, DriftNone,
            DriftFound, At
    <2>3. CASE op.at = "save"
      BY <2>2, <2>3 DEF ConnectDelete, ConnectWrite, Save, At
    <2>4. CASE op.at # "save"
      <3>1. op.other = NoPort /\ mappings[op.ingress] = NoPort
        BY <2>4 DEF HandlerInv
      <3>2. ConnectWrite
        BY <2>1, <2>2, <2>4, <3>1, PortMapAssumption
        DEF ConnectDelete, Save, TypeOK, OpReady
      <3>3. op.ingress \in Ports /\ op.egress \in Ports /\ op.left = {}
        BY <2>1, <2>4, <3>2 DEF TypeOK, OpReady, Steady, ConnectWrite, At
      <3>4. /\ mappings' \in {mappings, [mappings EXCEPT ![op.ingress] = op.egress]}
            /\ table' \in {table, [table EXCEPT ![ToDev[op.ingress]] = ToDev[op.egress]]}
        BY <3>1, <3>2 DEF ConnectWrite, WithoutOther, Set, FailedSet
      <3>5. \A p \in Patched(mappings) : mappings'[p] = mappings[p]
        BY <2>1, <3>1, <3>4 DEF Patched, Patch
      <3>6. ASSUME ~outside
            PROVE  table[ToDev[op.ingress]] = NoPort
        <4>1. Within(mappings, table)
          BY <2>1, <3>1, <3>3, <3>6, ExpectedAtRest DEF NothingUnasked
        <4> QED
          BY <3>1, <3>3, <4>1, PortMapAssumption DEF Within, DevOf
      <3> QED
        BY <2>1, <3>4, <3>5, <3>6 DEF Table
    <2> QED
      BY <2>3, <2>4
  <1> QED
    BY <1>1, HandlerInvariant, PTL DEF Spec, UnforcedRemovesNothing

-----------------------------------------------------------------------------
(* The sync state.                                                         *)

(* partial_sync and drifted give way to in_sync only when the switch holds *)
(* what desired state says, as far as the controller can see.              *)
THEOREM PromotionIsEarned == Spec => DegradedNotPromoted
  <1>1. HandlerInv /\ [Next]_vars => [PromotesOnAgreement]_vars
    <2> SUFFICES ASSUME HandlerInv, [Next]_vars,
                        sync \in Degraded, sync' = "in_sync", running', ~outside'
                 PROVE  Agrees(mappings', table')
      BY DEF PromotesOnAgreement
    <2>1. TypeOK /\ TypeOK' /\ Steady /\ DeviceTracksMemory /\ DeviceTracksMemory'
      BY DeviceStep DEF HandlerInv, DeviceInv
    <2>2. sync # "out_of_sync" /\ sync # "in_sync" /\ sync' # sync
      BY DEF Degraded
    <2>3. CASE Save
      <3>1. At("refresh", "save") \/ At("clear", "save")
        BY <2>2, <2>3 DEF Save, SyncAfterSave, Persisted, At
      <3>2. ~partial /\ ~outside /\ UNCHANGED <<mappings, table>>
        BY <2>3, <3>1 DEF HandlerInv, Save
      <3>3. Expected = mappings
        BY <2>1, <3>1, ExpectedAtRest DEF Steady, At
      <3> QED
        BY <2>1, <3>2, <3>3 DEF DeviceTracksMemory
    <2>4. CASE DriftNone
      BY <2>1, <2>4, DriftDeltaExact DEF DriftNone, TypeOK
    <2>5. CASE PushClear
      <3>1. Replay(Patched(mappings)) /\ mappings' = mappings /\ table' = EmptyTable
        BY <2>5 DEF PushClear
      <3>2. Patched(mappings) = {}
        BY <2>2, <3>1 DEF Replay
      <3> QED
        BY <2>1, <3>1, <3>2, EmptyAgrees DEF TypeOK
    <2>6. CASE PushWrite
      <3>1. PICK p \in op.left : Replay(LeftAfter(p))
        BY <2>6 DEF PushWrite
      <3>2. op' = NoOp
        BY <2>2, <3>1 DEF Replay, Return
      <3>3. Expected' = mappings'
        BY <2>1, <3>2, ControlFields DEF Expected, Absent, TypeOK, Patch, At
      <3>4. ~partial'
        BY <2>6 DEF HandlerInv, PushWrite, history
      <3> QED
        BY <2>1, <3>3, <3>4 DEF DeviceTracksMemory
    <2>7. CASE Request \/ CheckDrift \/ Boot \/ BootBadPortMap \/ Stop \/ OutOfBand
      BY <2>2, <2>7 DEF Request, CheckDrift, Connect, Disconnect, Refresh, Push, Clear,
                  SetLabel, Boot, BootBadPortMap, Stop, OutOfBand, volatile
    <2>8. CASE Resume /\ ~Save /\ ~DriftNone /\ ~PushClear /\ ~PushWrite
      BY <2>2, <2>8
      DEF Resume, ReconcileAdopt, ReconcileRefuse, ConnectDelete, ConnectWrite,
          DisconnectDelete, RefreshRead, RefreshFail, PushStatus, PushClearFail,
          PushWriteFail, PushProbe, PushTells, ClearTable, DriftReadFail, DriftFound,
          volatile
    <2>9. CASE UNCHANGED vars
      BY <2>2, <2>9 DEF vars, volatile
    <2> QED
      BY <2>3, <2>4, <2>5, <2>6, <2>7, <2>8, <2>9 DEF Next
  <1> QED
    BY <1>1, HandlerInvariant, PTL DEF Spec, DegradedNotPromoted

LEMMA ToldStep == HandlerInv /\ Told /\ [Next]_vars => Told'
  <1> SUFFICES ASSUME HandlerInv, Told, [Next]_vars PROVE Told'
    OBVIOUS
  <1>1. /\ Steady
        /\ At("push", "write") \/ At("refresh", "save") \/ At("clear", "save")
              => ~partial
        /\ sync \in Syncs /\ health \in {"healthy", "unhealthy"}
        /\ drift \in BOOLEAN /\ partial \in BOOLEAN /\ unsaved \in BOOLEAN
        /\ hidden \subseteq {"switch", "file"}
    BY DEF HandlerInv, DeviceInv, TypeOK
  <1> USE <1>1, ControlFields DEF At, Told, Degraded
  <1>2. CASE Boot \/ BootBadPortMap \/ Stop
    BY <1>2 DEF Boot, BootBadPortMap, Stop, MarkUnhealthy, MarkHealthy, Return, Steady,
                volatile, history
  <1>3. CASE Request \/ CheckDrift
    <2>1. /\ op = NoOp /\ UNCHANGED <<health, sync, drift, history>>
          /\ op'.name = "refresh" => op'.at = "read"
      <3>1. CASE \E i, e \in Ports, force \in BOOLEAN : Connect(i, e, force)
        BY <3>1 DEF Connect, Ready, Idle, volatile
      <3>2. CASE \E i \in Ports : Disconnect(i)
        BY <3>2 DEF Disconnect, Ready, Idle, NoOp, volatile
      <3>3. CASE \/ Refresh \/ Push \/ Clear \/ CheckDrift
                 \/ \E new \in Labels : SetLabel(new)
        BY <3>3 DEF Refresh, Push, Clear, CheckDrift, SetLabel, Ready, Idle, volatile
      <3> QED
        BY <1>3, <3>1, <3>2, <3>3 DEF Request
    <2> QED
      BY <2>1 DEF history
  <1>4. CASE ReconcileAdopt \/ ReconcileRefuse \/ RefreshFail
    BY <1>4 DEF ReconcileAdopt, ReconcileRefuse, RefreshFail, MarkUnhealthy, Return,
                volatile, history
  <1>5. CASE ConnectDelete \/ ConnectWrite \/ DisconnectDelete
    <2>1. /\ op.name \in {"connect", "disconnect"} /\ op'.name # "refresh"
          /\ UNCHANGED <<health, sync, drift, partial, unsaved, hidden>>
      <3>1. CASE ConnectDelete
        BY <3>1 DEF ConnectDelete, Return, HandlerInv, DeviceInv, TypeOK, OpType, volatile
      <3> QED
        BY <1>5, <3>1 DEF ConnectWrite, DisconnectDelete, AfterFailedWrite, Return,
                          volatile
    <2> QED
      BY <2>1
  <1>6. CASE RefreshRead \/ ClearTable
    BY <1>6 DEF RefreshRead, ClearTable, Return
  <1>7. CASE PushStatus \/ PushClearFail \/ PushWriteFail
    BY <1>7 DEF PushStatus, PushClearFail, PushWriteFail, MarkUnhealthy, KeepHealth,
                Return, history
  <1>8. ASSUME NEW left, Replay(left), ~partial', unsaved' = unsaved,
               op.name = "push", op.at # "probe"
        PROVE  Told'
    BY <1>8, ReplayFields DEF Replay, PushTells
  <1>9. CASE PushClear
    BY <1>8, <1>9 DEF PushClear
  <1>10. CASE PushWrite
    BY <1>8, <1>10 DEF PushWrite
  <1>11. CASE PushProbe
    BY <1>11 DEF PushProbe, PushTells, MarkUnhealthy, KeepHealth, Return
  <1>12. CASE DriftReadFail \/ DriftNone \/ DriftFound
    BY <1>12 DEF DriftReadFail, DriftNone, DriftFound, MarkUnhealthy, Return, Syncs,
                 history
  <1>13. CASE Save
    <2>1. PICK saved \in BOOLEAN :
             /\ sync' = SyncAfterSave(saved)
             /\ unsaved' = ~saved
             /\ hidden' = HiddenAfterSave(saved)
      BY <1>13 DEF Save
    <2>2. op.at = "save" /\ op' = NoOp /\ drift' = DriftKept /\ UNCHANGED <<health, partial>>
      BY <1>13 DEF Save, Return
    <2>3. CASE saved
      BY <2>1, <2>2, <2>3 DEF SyncAfterSave, Persisted, HiddenAfterSave, DriftKept
    <2>4. CASE ~saved
      BY <2>1, <2>2, <2>4 DEF SyncAfterSave, Persisted, HiddenAfterSave, DriftKept
    <2> QED
      BY <2>3, <2>4
  <1>14. CASE OutOfBand \/ UNCHANGED vars
    BY <1>14 DEF OutOfBand, vars, volatile, history
  <1> QED
    BY <1>2, <1>3, <1>4, <1>5, <1>6, <1>7, <1>9, <1>10, <1>11, <1>12, <1>13, <1>14
    DEF Next, Resume

(* in_sync is true of a healthy controller at rest, of the state file and  *)
(* of the switch, save for the two ways in which the one sync state speaks *)
(* of the one and says nothing of the other any more.                      *)
THEOREM SyncIsEarned == Spec => []InSyncIsTrue
  <1>1. Init => Told
    BY DEF Init, Told, NoOp, At
  <1>2. HandlerInv /\ SavedInv /\ Told => InSyncIsTrue
    <2> SUFFICES ASSUME HandlerInv, SavedInv, Told,
                        Ready, health = "healthy", sync = "in_sync"
                 PROVE  /\ "file" \notin hidden => file = Saved
                        /\ "switch" \notin hidden
                              => ~drift /\ (outside \/ Agrees(mappings, table))
      BY DEF InSyncIsTrue
    <2>1. running /\ op = NoOp /\ recoverable
      BY DEF Ready, Idle, SavedInv, Refused
    <2>2. "file" \notin hidden => file = Saved
      BY <2>1, ControlFields DEF Told, SavedInv, MemoryIsSaved
    <2>3. "switch" \notin hidden => ~drift /\ ~partial
      BY <2>1, ControlFields DEF Told, Degraded, At
    <2>4. Expected = mappings
      BY <2>1, ControlFields, ExpectedAtRest DEF HandlerInv, DeviceInv, At
    <2> QED
      BY <2>2, <2>3, <2>4 DEF HandlerInv, DeviceInv, DeviceTracksMemory
  <1> QED
    BY <1>1, <1>2, ToldStep, HandlerInvariant, SavedInvariant, PTL DEF Spec

-----------------------------------------------------------------------------
(* What a connect takes away.                                              *)

(* A connect, forced or not, also one whose write failed, takes away no    *)
(* connection that a one-to-one patch with the new one in it could keep.   *)
THEOREM ConnectIsSparing == Spec => ConnectTakesTheLeast
  <1>1. HandlerInv /\ [Next]_vars => [TakesTheLeast]_vars
    <2> SUFFICES ASSUME HandlerInv, [Next]_vars,
                        op.name = "connect", mappings' # mappings, running',
                        NEW other \in Patch, OneToOne(other),
                        other[op.ingress] = op.egress
                 PROVE  Lost(mappings, mappings') \subseteq Lost(mappings, other)
      BY DEF TakesTheLeast
    <2>1. TypeOK /\ Steady /\ mappings \in Patch
      BY DEF HandlerInv, DeviceInv, TypeOK
    <2>2. ConnectWrite
      <3>1. op # NoOp /\ running
        BY <2>1 DEF Steady, NoOp
      <3>2. ~(Boot \/ BootBadPortMap \/ Stop \/ Request \/ CheckDrift \/ OutOfBand)
        BY <3>1 DEF Boot, BootBadPortMap, Stop, Request, CheckDrift, OutOfBand, Connect,
                    Disconnect, Refresh, Push, Clear, SetLabel, Ready, Idle, volatile
      <3>3. Resume
        BY <3>2 DEF Next, vars, volatile
      <3> QED
        BY <3>3
        DEF Resume, ReconcileAdopt, ReconcileRefuse, ConnectDelete, DisconnectDelete,
            RefreshRead, RefreshFail, PushStatus, PushClear, PushClearFail, PushWrite,
            PushWriteFail, PushProbe, ClearTable, DriftReadFail, DriftNone, DriftFound,
            Save, At, volatile
    <2>3. /\ op.ingress \in Ports /\ op.egress \in Ports
          /\ op.other # NoPort => op.other \in Rivals(op.ingress, op.egress)
      BY <2>1, <2>2 DEF HandlerInv, ConnectWrite, TypeOK, OpReady, At
    <2>4. \/ mappings' = WithoutOther
          \/ mappings' = [WithoutOther EXCEPT ![op.ingress] = op.egress]
      BY <2>2 DEF ConnectWrite
    <2>5. ASSUME NEW p \in Ports, mappings'[p] # mappings[p]
          PROVE  \/ p = op.ingress /\ mappings[p] # op.egress
                 \/ p # op.ingress /\ mappings[p] = op.egress
      <3>1. ASSUME WithoutOther[p] # mappings[p]
            PROVE  p # op.ingress /\ mappings[p] = op.egress
        BY <2>1, <2>3, <3>1 DEF WithoutOther, Rivals, Patch
      <3>2. CASE p = op.ingress
        <4>1. WithoutOther[p] = mappings[p] /\ p \in DOMAIN WithoutOther
          BY <2>1, <3>1, <3>2 DEF WithoutOther, Patch
        <4>2. mappings'[p] = op.egress
          BY <2>4, <2>5, <3>2, <4>1
        <4> QED
          BY <2>5, <3>2, <4>2
      <3>3. CASE p # op.ingress
        <4>1. mappings'[p] = WithoutOther[p]
          BY <2>1, <2>4, <3>3 DEF WithoutOther, Patch
        <4> QED
          BY <2>5, <3>1, <4>1
      <3> QED
        BY <3>2, <3>3
    <2>6. ASSUME NEW p \in Ports, mappings'[p] # mappings[p]
          PROVE  other[p] # mappings[p]
      BY <2>3, <2>5, <2>6, PortMapAssumption DEF OneToOne, Patch
    <2>7. mappings' \in Patch
      BY <2>1, <2>3, <2>4 DEF WithoutOther, Patch
    <2>8. ASSUME NEW pair \in Lost(mappings, mappings')
          PROVE  pair \in Lost(mappings, other)
      <3>1. PICK p \in Patched(mappings) : pair = <<p, mappings[p]>>
        BY DEF Lost, Pairs
      <3>2. mappings'[p] # mappings[p]
        BY <2>8, <3>1 DEF Lost, Pairs, Patched
      <3>3. other[p] # mappings[p]
        BY <2>6, <3>1, <3>2 DEF Patched
      <3> QED
        BY <3>1, <3>3 DEF Lost, Pairs
    <2> QED
      BY <2>8
  <1> QED
    BY <1>1, HandlerInvariant, PTL DEF Spec, ConnectTakesTheLeast

-----------------------------------------------------------------------------
(* How long a handler holds the lock.                                      *)

(* CallsAhead, place by place.                                             *)
LEMMA AheadAt ==
    ASSUME NEW o \in OpType
    PROVE  /\ o.at = "none" => CallsAhead(o) = 0
           /\ o.at \in {"save", "probe"} => CallsAhead(o) = 1
           /\ o.at \in {"read", "clear"} /\ o.name # "push" => CallsAhead(o) = 2
           /\ o.at = "write" /\ o.name # "push" => CallsAhead(o) = 2
           /\ o.at = "delete" => CallsAhead(o) = 3
           /\ o.at = "write" /\ o.name = "push" => CallsAhead(o) = Cardinality(o.left) + 1
           /\ o.at = "clear" /\ o.name = "push" => CallsAhead(o) = Cardinality(Ports) + 2
           /\ o.at = "status" => CallsAhead(o) = Cardinality(Ports) + 3
           /\ o.at = "load" => CallsAhead(o) = Cardinality(Ports) + 4
  BY DEF CallsAhead

LEMMA AheadAfterReplay ==
    ASSUME IsFiniteSet(Ports), NEW left \in SUBSET Ports, Replay(left), op' \in OpType
    PROVE  CallsAhead(op') \in 0 .. Cardinality(left) + 1
  <1>1. IsFiniteSet(left) /\ Cardinality(left) \in Nat
    BY FS_Subset, FS_CardinalityType
  <1>2. CASE left # {}
    <2>1. At("push", "write")' /\ op'.left = left
      BY <1>2, ReplayFields
    <2> QED
      BY <1>1, <2>1, AheadAt DEF At
  <1>3. CASE left = {}
    <2>1. op'.at = "none"
      BY <1>3, ControlFields DEF Replay, Return
    <2> QED
      BY <1>1, <2>1, AheadAt
  <1> QED
    BY <1>2, <1>3

(* Whatever fails, every call that returns leaves its handler fewer calls  *)
(* to make, for any number of ports: each gives the lock back after so     *)
(* many of them, if they return.                                           *)
THEOREM HandlersRunOut ==
    ASSUME IsFiniteSet(Ports)
    PROVE  Spec => CallsRunOut
  <1>1. TypeOK /\ [Next]_vars => [Resume => CallsAhead(op') < CallsAhead(op)]_vars
    <2> SUFFICES ASSUME TypeOK, TypeOK', Resume
                 PROVE  CallsAhead(op') < CallsAhead(op)
      BY TypeStep
    <2>1. op \in OpType /\ op' \in OpType /\ op.left \subseteq Ports
      BY DEF TypeOK, OpType
    <2>2. Cardinality(Ports) \in Nat
      BY FS_CardinalityType
    <2> USE <2>1, <2>2, AheadAt, ControlFields DEF At
    <2>3. CASE ReconcileAdopt \/ ReconcileRefuse
      <3>1. op.at = "load" /\ op'.at \in {"status", "none"}
        BY <2>3 DEF ReconcileAdopt, ReconcileRefuse, Return
      <3> QED
        BY <3>1
    <2>4. CASE ConnectDelete
      BY <2>4 DEF ConnectDelete, Return, OpType
    <2>5. CASE ConnectWrite \/ DisconnectDelete
      BY <2>5 DEF ConnectWrite, DisconnectDelete, AfterFailedWrite, Return
    <2>6. CASE RefreshRead \/ RefreshFail \/ ClearTable
      BY <2>6 DEF RefreshRead, RefreshFail, ClearTable, Return
    <2>7. CASE PushStatus \/ PushClearFail
      <3>1. CASE PushStatus
        <4>1. op.at = "status" /\ (op'.at = "none" \/ At("push", "clear")')
          BY <3>1 DEF PushStatus, Return
        <4>2. CallsAhead(op') \in {0, Cardinality(Ports) + 2}
          BY <4>1
        <4> QED
          BY <4>1, <4>2
      <3>2. CASE PushClearFail
        <4>1. At("push", "clear") /\ op'.at = "none"
          BY <3>2 DEF PushClearFail, Return
        <4> QED
          BY <4>1
      <3> QED
        BY <2>7, <3>1, <3>2
    <2>8. CASE PushClear
      <3>1. Replay(Patched(mappings)) /\ Patched(mappings) \in SUBSET Ports
        BY <2>8 DEF PushClear, Patched
      <3>2. /\ Cardinality(Patched(mappings)) \in Nat
            /\ Cardinality(Patched(mappings)) <= Cardinality(Ports)
        BY <3>1, FS_Subset, FS_CardinalityType
      <3>3. CallsAhead(op') \in 0 .. Cardinality(Patched(mappings)) + 1
        BY <3>1, AheadAfterReplay
      <3>4. CallsAhead(op) = Cardinality(Ports) + 2
        BY <2>8 DEF PushClear
      <3> QED
        BY <3>2, <3>3, <3>4
    <2>9. CASE PushWrite
      <3>1. PICK p \in op.left : Replay(op.left \ {p})
        BY <2>9 DEF PushWrite, LeftAfter
      <3>2. /\ IsFiniteSet(op.left) /\ Cardinality(op.left) \in Nat
            /\ Cardinality(op.left \ {p}) = Cardinality(op.left) - 1
        BY <3>1, FS_Subset, FS_CardinalityType, FS_RemoveElement
      <3>3. CallsAhead(op') \in 0 .. Cardinality(op.left \ {p}) + 1
        BY <3>1, AheadAfterReplay
      <3>4. CallsAhead(op) = Cardinality(op.left) + 1
        BY <2>9 DEF PushWrite
      <3> QED
        BY <3>2, <3>3, <3>4
    <2>10. CASE PushWriteFail
      <3>1. op.left # {} /\ CallsAhead(op) = Cardinality(op.left) + 1
        BY <2>10 DEF PushWriteFail
      <3>2. Cardinality(op.left) \in Nat /\ Cardinality(op.left) # 0
        BY <3>1, FS_Subset, FS_CardinalityType, FS_EmptySet
      <3>3. CallsAhead(op') \in {0, 1}
        BY <2>10 DEF PushWriteFail, Return
      <3> QED
        BY <3>1, <3>2, <3>3
    <2>11. CASE PushProbe \/ Save
      <3>1. op.at \in {"probe", "save"} /\ op'.at = "none"
        BY <2>11 DEF PushProbe, Save, Return
      <3> QED
        BY <3>1
    <2>12. CASE DriftReadFail \/ DriftNone \/ DriftFound
      <3>1. op.at = "read" /\ op.name = "check_drift" /\ op'.at = "none"
        BY <2>12 DEF DriftReadFail, DriftNone, DriftFound, Return
      <3> QED
        BY <3>1
    <2> QED
      BY <2>3, <2>4, <2>5, <2>6, <2>7, <2>8, <2>9, <2>10, <2>11, <2>12 DEF Resume
  <1> QED
    BY <1>1, Typing, PTL DEF Spec, CallsRunOut

=============================================================================
