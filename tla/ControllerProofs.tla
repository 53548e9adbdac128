-------------------------- MODULE ControllerProofs --------------------------
(***************************************************************************)
(* Theorems about Controller for every set of ports, every port map that   *)
(* PortMap accepts, every set of labels and every set of edits.            *)
(***************************************************************************)
EXTENDS Controller, TLAPS

-----------------------------------------------------------------------------
(* The port map.                                                           *)

(* The translation of a mapped device port is the panel port it came from. *)
LEMMA ToUiInverts ==
    ASSUME NEW p \in Ports
    PROVE  ToUi(ToDev[p]) = p
  BY PortMapAssumption DEF ToUi

LEMMA PatchOfType ==
    ASSUME NEW t \in Table
    PROVE  PatchOf(t) \in Patch
  <1> SUFFICES ASSUME NEW p \in Seen(t)
               PROVE  ToUi(t[ToDev[p]]) \in Ports
    BY DEF PatchOf, Patch
  <1>1. PICK q \in Ports : t[ToDev[p]] = ToDev[q]
    BY DEF Seen, Mapped
  <1> QED
    BY <1>1, ToUiInverts

-----------------------------------------------------------------------------
(* Types.                                                                  *)

LEMMA NoOpType == NoOp \in OpType
  BY DEF NoOp, OpType

LEMMA TypeInit == Init => TypeOK
  <1> SUFFICES ASSUME Init PROVE TypeOK
    OBVIOUS
  <1>1. mappings \in Patch /\ table \in Table
    BY DEF Init, Patch, NoPatch, Table, EmptyTable
  <1>2. file \in [patch : Patch, labels : Labels] \cup {Unfit}
    BY DEF Init
  <1>3. op \in OpType /\ OpReady
    BY NoOpType DEF Init, OpReady, NoOp, At
  <1> QED
    BY <1>1, <1>2, <1>3, ControllerAssumption DEF Init, TypeOK, Syncs

LEMMA SetType ==
    ASSUME NEW t \in Table, NEW d \in DevPorts, NEW v \in DevPorts \cup {NoPort}
    PROVE  [t EXCEPT ![d] = v] \in Table
  BY DEF Table

(* Calls on the device leave a table.                                      *)
LEMMA CallType ==
    ASSUME table \in Table, outside \in BOOLEAN,
           NEW d \in DevPorts, NEW v \in DevPorts \cup {NoPort}
    PROVE  /\ Set(d, v) => table' \in Table
           /\ FailedSet(d, v) => table' \in Table /\ outside' \in BOOLEAN
  BY SetType DEF Set, FailedSet, Unseen

LEMMA WipeType ==
    ASSUME table \in Table, outside \in BOOLEAN
    PROVE  /\ EmptyTable \in Table
           /\ FailedWipe => table' \in Table /\ outside' \in BOOLEAN
  BY DEF FailedWipe, Unseen, Table, EmptyTable

LEMMA DevType == ASSUME NEW p \in Ports PROVE ToDev[p] \in DevPorts
  BY PortMapAssumption

LEMMA NoPatchType == NoPatch \in Patch
  BY DEF NoPatch, Patch

(* The ways a handler returns, begins or waits leave a well-formed `op'.   *)
LEMMA ControlType ==
    ASSUME TypeOK
    PROVE  /\ Return => op' \in OpType /\ OpReady'
           /\ Await("save") => op' \in OpType /\ OpReady'
           /\ At("push", op.at) /\ (Await("clear") \/ Await("probe"))
                 => op' \in OpType /\ OpReady'
           /\ \A name \in {"reconcile", "refresh", "push", "clear", "set_label",
                            "check_drift"},
                 at \in {"load", "status", "read", "clear", "save"} :
                    Begin(name, at) => op' \in OpType /\ OpReady'
  <1>1. Return => op' \in OpType /\ OpReady'
    BY NoOpType DEF Return, NoOp, OpReady, At
  <1>2. Await("save") => op' \in OpType /\ OpReady'
    BY DEF TypeOK, Await, NoOp, OpReady, At, OpType
  <1>3. At("push", op.at) /\ (Await("clear") \/ Await("probe"))
           => op' \in OpType /\ OpReady'
    BY DEF TypeOK, Await, NoOp, OpReady, At, OpType
  <1>4. ASSUME NEW name \in {"reconcile", "refresh", "push", "clear", "set_label",
                             "check_drift"},
               NEW at \in {"load", "status", "read", "clear", "save"},
               Begin(name, at)
        PROVE  op' \in OpType /\ OpReady'
    BY <1>4 DEF Begin, NoOp, OpReady, At, OpType
  <1> QED
    BY <1>1, <1>2, <1>3, <1>4

(* What Replay leaves, whatever is left to write.                          *)
LEMMA ReplayType ==
    ASSUME TypeOK, NEW left \in SUBSET Patched(mappings), Replay(left),
           mappings' = mappings
    PROVE  /\ health' \in {"healthy", "unhealthy"}
           /\ recoverable' \in BOOLEAN
           /\ sync' \in Syncs
           /\ drift' \in BOOLEAN
           /\ hidden' \subseteq {"switch", "file"}
           /\ op' \in OpType
           /\ OpReady'
  <1>1. left \in SUBSET Ports
    BY DEF Patched
  <1>2. CASE left # {}
    BY <1>1, <1>2 DEF Replay, TypeOK, OpReady, OpType, NoOp, At, Patched
  <1>3. CASE left = {}
    <2>1. /\ MarkHealthy /\ sync' = "in_sync" /\ drift' = FALSE /\ Return
          /\ hidden' \subseteq {"switch", "file"}
      BY <1>3 DEF Replay, PushTells
    <2> QED
      BY <2>1, ControlType DEF MarkHealthy, Syncs
  <1> QED
    BY <1>2, <1>3

LEMMA TypeStep == TypeOK /\ [Next]_vars => TypeOK'
  <1> SUFFICES ASSUME TypeOK, [Next]_vars PROVE TypeOK'
    OBVIOUS
  <1> USE NoOpType DEF TypeOK, OpReady, At
  <1>1. CASE Boot
    BY <1>1 DEF Boot, Begin, NoOp, OpType, volatile, history
  <1>2. CASE BootBadPortMap
    BY <1>2 DEF BootBadPortMap, MarkUnhealthy, Patched, history
  <1>3. CASE Stop
    BY <1>3, ControllerAssumption, NoPatchType DEF Stop, MarkHealthy, Return, NoOp, Syncs
  <1>4. CASE ReconcileAdopt
    BY <1>4 DEF ReconcileAdopt, Begin, NoOp, OpType, history
  <1>5. CASE ReconcileRefuse
    BY <1>5 DEF ReconcileRefuse, MarkUnhealthy, Return, NoOp, history
  <1>6. CASE \E i, e \in Ports, force \in BOOLEAN : Connect(i, e, force)
    BY <1>6 DEF Connect, FirstCall, Rivals, OpType, volatile, history, Patched
  <1>7. CASE ConnectDelete
    <2>1. ToDev[op.other] \in DevPorts
      BY <1>7, DevType DEF ConnectDelete
    <2>2. table' \in Table /\ outside' \in BOOLEAN
      BY <1>7, <2>1, CallType DEF ConnectDelete, Delete
    <2>3. op' \in OpType /\ OpReady'
      BY <1>7, ControlType DEF ConnectDelete, OpType, Patched, volatile
    <2> QED
      BY <1>7, <2>2, <2>3 DEF ConnectDelete, volatile
  <1>8. CASE ConnectWrite
    <2>1. op.ingress \in Ports /\ op.egress \in Ports
      BY <1>8 DEF ConnectWrite
    <2>2. table' \in Table /\ outside' \in BOOLEAN
      BY <1>8, <2>1, DevType, CallType DEF ConnectWrite
    <2>3. WithoutOther \in Patch /\ mappings' \in Patch
      BY <1>8, <2>1 DEF ConnectWrite, WithoutOther, Patch
    <2>4. op' \in OpType /\ OpReady'
      BY <1>8, ControlType DEF ConnectWrite, AfterFailedWrite
    <2> QED
      BY <1>8, <2>2, <2>3, <2>4 DEF ConnectWrite
  <1>9. CASE DisconnectDelete
    <2>1. op.ingress \in Ports
      BY <1>9 DEF DisconnectDelete
    <2>2. table' \in Table /\ outside' \in BOOLEAN
      BY <1>9, <2>1, DevType, CallType DEF DisconnectDelete, Delete
    <2>3. mappings' \in Patch
      BY <1>9, <2>1 DEF DisconnectDelete, Patch
    <2>4. op' \in OpType /\ OpReady'
      BY <1>9, ControlType DEF DisconnectDelete
    <2> QED
      BY <1>9, <2>2, <2>3, <2>4 DEF DisconnectDelete
  <1>10. CASE \E i \in Ports : Disconnect(i)
    <2>1. PICK i \in Ports : Disconnect(i)
      BY <1>10
    <2>2. op' \in OpType /\ op'.name = "disconnect" /\ op'.ingress = i /\ op'.left = {}
      BY <2>1 DEF Disconnect, NoOp, OpType
    <2>3. OpReady'
      BY <2>2
    <2> QED
      BY <2>1, <2>2, <2>3 DEF Disconnect, volatile, history
  <1>11. CASE Refresh \/ Push \/ Clear \/ CheckDrift
    <2>1. op' \in OpType /\ OpReady'
      BY <1>11, ControlType DEF Refresh, Push, Clear, CheckDrift
    <2> QED
      BY <1>11, <2>1 DEF Refresh, Push, Clear, CheckDrift, volatile, history
  <1>12. CASE RefreshRead
    BY <1>12, PatchOfType DEF RefreshRead, Await, NoOp, OpType
  <1>13. CASE RefreshFail
    BY <1>13 DEF RefreshFail, Return, NoOp, volatile, history
  <1>14. CASE PushStatus
    <2>1. op' \in OpType /\ OpReady'
      BY <1>14, ControlType DEF PushStatus
    <2> QED
      BY <1>14, <2>1 DEF PushStatus, MarkUnhealthy, KeepHealth, history
  <1>15. CASE PushClear
    BY <1>15, WipeType, ReplayType DEF PushClear
  <1>16. CASE PushClearFail
    BY <1>16, WipeType, ControlType DEF PushClearFail, MarkUnhealthy
  <1>17. CASE PushWrite
    <2>1. PICK p \in op.left : Set(ToDev[p], ToDev[mappings[p]]) /\ Replay(LeftAfter(p))
      BY <1>17 DEF PushWrite
    <2>2. p \in Ports /\ mappings[p] \in Ports
      BY DEF Patched, Patch
    <2>3. table' \in Table
      BY <2>1, <2>2, DevType, CallType
    <2> QED
      BY <1>17, <2>1, <2>3, ReplayType DEF PushWrite, LeftAfter, history
  <1>18. CASE PushWriteFail
    <2>1. PICK p \in op.left : FailedSet(ToDev[p], ToDev[mappings[p]])
      BY <1>18 DEF PushWriteFail
    <2>2. p \in Ports /\ mappings[p] \in Ports
      BY DEF Patched, Patch
    <2>3. table' \in Table /\ outside' \in BOOLEAN
      BY <2>1, <2>2, DevType, CallType
    <2>4. op' \in OpType /\ OpReady'
      BY <1>18, ControlType DEF PushWriteFail
    <2> QED
      BY <1>18, <2>3, <2>4 DEF PushWriteFail, MarkUnhealthy, KeepHealth
  <1>19. CASE PushProbe
    BY <1>19 DEF PushProbe, PushTells, MarkUnhealthy, KeepHealth, Return, NoOp, Syncs
  <1>20. CASE ClearTable
    <2>1. table' \in Table /\ outside' \in BOOLEAN
      BY <1>20, DevType, CallType, WipeType DEF ClearTable
    <2>2. op' \in OpType /\ OpReady'
      BY <1>20, ControlType DEF ClearTable
    <2> QED
      BY <1>20, <2>1, <2>2, NoPatchType DEF ClearTable
  <1>21. CASE \E new \in Labels : SetLabel(new)
    BY <1>21, ControlType DEF SetLabel, history
  <1>22. CASE DriftReadFail
    BY <1>22 DEF DriftReadFail, MarkUnhealthy, Return, NoOp, history
  <1>23. CASE DriftNone
    BY <1>23 DEF DriftNone, Return, NoOp, Syncs
  <1>24. CASE DriftFound
    BY <1>24 DEF DriftFound, Return, NoOp, Syncs, history
  <1>25. CASE Save
    BY <1>25 DEF Save, SyncAfterSave, Persisted, Syncs, Saved, HiddenAfterSave,
              DriftKept, Return, NoOp
  <1>26. CASE OutOfBand
    BY <1>26, ControllerAssumption DEF OutOfBand, Set, Table, EmptyTable, volatile, Patched
  <1>27. CASE UNCHANGED vars
    BY <1>27 DEF vars, volatile, history, Patched
  <1> QED
    BY <1>1, <1>2, <1>3, <1>4, <1>5, <1>6, <1>7, <1>8, <1>9, <1>10, <1>11, <1>12,
       <1>13, <1>14, <1>15, <1>16, <1>17, <1>18, <1>19, <1>20, <1>21, <1>22, <1>23,
       <1>24, <1>25, <1>26, <1>27 DEF Next, Request, Resume

(* Every variable holds a value the code can put there, and the call that  *)
(* a handler waits on has its ports.                                       *)
THEOREM Typing == Spec => []TypeOK
  BY TypeInit, TypeStep, PTL DEF Spec

-----------------------------------------------------------------------------
(* Patches and tables.                                                     *)

LEMMA DevOfType ==
    ASSUME NEW q \in Ports \cup {NoPort}
    PROVE  DevOf(q) \in DevPorts \cup {NoPort}
  BY DevType DEF DevOf

(* The four parts of the drift delta are empty exactly when the table is   *)
(* the image of the patch: check_drift neither misses a difference nor     *)
(* makes one up, whatever the ports, the map, the patch and the table.     *)
THEOREM DriftDeltaExact ==
    ASSUME NEW patch \in Patch, NEW t \in Table
    PROVE  Differs(patch, t) <=> ~Agrees(patch, t)
  <1>1. ASSUME ~Differs(patch, t), NEW p \in Ports
        PROVE  t[ToDev[p]] = DevOf(patch[p])
    <2>1. /\ p \notin Missing(patch, t)
          /\ p \notin Mismatched(patch, t)
          /\ p \notin Extra(patch, t)
          /\ ToDev[p] \notin Unmapped(t)
      BY <1>1 DEF Differs
    <2>2. ToDev[p] \in Mapped /\ ToDev[p] \in DevPorts
      BY DevType DEF Mapped
    <2>3. CASE patch[p] = NoPort
      <3>1. p \notin Seen(t)
        BY <2>1, <2>3 DEF Extra
      <3>2. t[ToDev[p]] = NoPort
        BY <2>1, <2>2, <3>1 DEF Unmapped, Seen
      <3> QED
        BY <2>3, <3>2, PortMapAssumption DEF DevOf
    <2>4. CASE patch[p] # NoPort
      <3>1. p \in Seen(t) /\ patch[p] \in Ports
        BY <2>1, <2>4 DEF Missing, Patch
      <3>2. ToUi(t[ToDev[p]]) = patch[p]
        BY <2>1, <2>4, <3>1 DEF Mismatched, PatchOf
      <3>3. PICK q \in Ports : t[ToDev[p]] = ToDev[q]
        BY <3>1 DEF Seen, Mapped
      <3> QED
        BY <3>1, <3>2, <3>3, ToUiInverts DEF DevOf
    <2> QED
      BY <2>3, <2>4
  <1>2. ASSUME ~Differs(patch, t), NEW d \in DevPorts \ Mapped
        PROVE  t[d] = NoPort
    BY <1>2 DEF Differs, Unmapped
  <1>3. ASSUME Agrees(patch, t), NEW p \in Ports, patch[p] # NoPort
        PROVE  p \in Seen(t) /\ PatchOf(t)[p] = patch[p]
    <2>1. patch[p] \in Ports /\ t[ToDev[p]] = ToDev[patch[p]]
      BY <1>3 DEF Agrees, DevOf, Patch
    <2>2. p \in Seen(t)
      BY <2>1 DEF Seen, Mapped
    <2> QED
      BY <2>1, <2>2, ToUiInverts DEF PatchOf
  <1>4. ASSUME Agrees(patch, t), NEW p \in Ports, patch[p] = NoPort
        PROVE  p \notin Seen(t)
    <2>1. t[ToDev[p]] = NoPort
      BY <1>4, PortMapAssumption DEF Agrees, DevOf
    <2> QED
      BY <2>1, PortMapAssumption DEF Seen, Mapped
  <1>5. ASSUME Agrees(patch, t), NEW d \in DevPorts, t[d] # NoPort
        PROVE  d \in Mapped /\ t[d] \in Mapped
    <2>1. PICK p \in Ports : d = ToDev[p]
      BY <1>5 DEF Agrees, Mapped
    <2>2. patch[p] \in Ports /\ t[d] = ToDev[patch[p]]
      BY <1>5, <2>1 DEF Agrees, DevOf
    <2> QED
      BY <2>1, <2>2 DEF Mapped
  <1>6. ~Differs(patch, t) => Agrees(patch, t)
    BY <1>1, <1>2 DEF Agrees
  <1>7. Agrees(patch, t) => ~Differs(patch, t)
    BY <1>3, <1>4, <1>5 DEF Differs, Missing, Mismatched, Extra, Unmapped
  <1> QED
    BY <1>6, <1>7

(* A table that pull can translate is the image of the patch it yields.    *)
LEMMA PullAgrees ==
    ASSUME NEW t \in Table, Translatable(t)
    PROVE  Agrees(PatchOf(t), t)
  <1>1. ASSUME NEW p \in Ports
        PROVE  t[ToDev[p]] = DevOf(PatchOf(t)[p])
    <2>1. CASE p \in Seen(t)
      <3>1. PICK q \in Ports : t[ToDev[p]] = ToDev[q]
        BY <2>1 DEF Seen, Mapped
      <3> QED
        BY <2>1, <3>1, ToUiInverts DEF PatchOf, DevOf
    <2>2. CASE p \notin Seen(t)
      <3>1. t[ToDev[p]] = NoPort
        BY <2>2, DevType DEF Translatable, Seen
      <3> QED
        BY <2>2, <3>1, PortMapAssumption DEF PatchOf, DevOf
    <2> QED
      BY <2>1, <2>2
  <1>2. \A d \in DevPorts \ Mapped : t[d] = NoPort
    BY DEF Translatable
  <1> QED
    BY <1>1, <1>2 DEF Agrees

(* Pull undoes push: a table that is the image of a patch is one that pull *)
(* can translate, and what it yields is that patch again; no two patches   *)
(* look the same on the switch.                                            *)
THEOREM PullUndoesPush ==
    ASSUME NEW patch \in Patch, NEW t \in Table, Agrees(patch, t)
    PROVE  Translatable(t) /\ PatchOf(t) = patch
  <1>1. ASSUME NEW d \in DevPorts, t[d] # NoPort
        PROVE  d \in Mapped /\ t[d] \in Mapped
    <2>1. PICK p \in Ports : d = ToDev[p]
      BY <1>1 DEF Agrees, Mapped
    <2>2. patch[p] \in Ports /\ t[d] = ToDev[patch[p]]
      BY <1>1, <2>1 DEF Agrees, DevOf
    <2> QED
      BY <2>1, <2>2 DEF Mapped
  <1>2. ASSUME NEW p \in Ports
        PROVE  PatchOf(t)[p] = patch[p]
    <2>1. CASE patch[p] \in Ports
      <3>1. t[ToDev[p]] = ToDev[patch[p]]
        BY <2>1 DEF Agrees, DevOf
      <3> QED
        BY <2>1, <3>1, ToUiInverts DEF PatchOf, Seen, Mapped
    <2>2. CASE patch[p] = NoPort
      <3>1. t[ToDev[p]] = NoPort
        BY <2>2, PortMapAssumption DEF Agrees, DevOf
      <3> QED
        BY <2>2, <3>1, PortMapAssumption DEF PatchOf, Seen, Mapped
    <2> QED
      BY <2>1, <2>2 DEF Patch
  <1> QED
    BY <1>1, <1>2 DEF Translatable, Patch, PatchOf

(* One entry changed on both sides keeps the two in step.                  *)
LEMMA SetTogether ==
    ASSUME NEW patch \in Patch, NEW t \in Table,
           NEW p \in Ports, NEW q \in Ports \cup {NoPort}
    PROVE  LET newPatch == [patch EXCEPT ![p] = q]
               newTable == [t EXCEPT ![ToDev[p]] = DevOf(q)]
           IN  /\ Agrees(patch, t) => Agrees(newPatch, newTable)
               /\ Within(patch, t) => Within(newPatch, newTable)
  <1> DEFINE newPatch == [patch EXCEPT ![p] = q]
             newTable == [t EXCEPT ![ToDev[p]] = DevOf(q)]
  <1>1. newPatch[p] = q /\ newTable[ToDev[p]] = DevOf(q)
    BY DevType DEF Patch, Table
  <1>2. ASSUME NEW r \in Ports, r # p
        PROVE  newPatch[r] = patch[r] /\ newTable[ToDev[r]] = t[ToDev[r]]
    BY <1>2, PortMapAssumption DEF Patch, Table
  <1>3. ASSUME NEW d \in DevPorts \ Mapped
        PROVE  newTable[d] = t[d]
    BY <1>3 DEF Mapped, Table
  <1> HIDE DEF newPatch, newTable
  <1>4. Agrees(patch, t) => Agrees(newPatch, newTable)
    BY <1>1, <1>2, <1>3 DEF Agrees
  <1>5. Within(patch, t) => Within(newPatch, newTable)
    BY <1>1, <1>2, <1>3 DEF Within
  <1> QED
    BY <1>4, <1>5 DEF newPatch, newTable

LEMMA AgreesIsWithin ==
    ASSUME NEW patch, NEW t, Agrees(patch, t)
    PROVE  Within(patch, t)
  BY DEF Agrees, Within

LEMMA EmptyAgrees ==
    ASSUME NEW patch \in Patch, Patched(patch) = {}
    PROVE  Agrees(patch, EmptyTable)
  BY DevType, PortMapAssumption DEF Patched, Agrees, EmptyTable, DevOf

-----------------------------------------------------------------------------
(* The device and desired state.                                           *)

LEMMA ExpectedType == TypeOK => Expected \in Patch
  BY DEF TypeOK, Expected, Patch

(* With no replay under way and nothing deleted ahead of a write, the      *)
(* device should hold what memory says.                                    *)
LEMMA ExpectedAtRest ==
    ASSUME TypeOK, op.left = {}, At("connect", "write") => op.other = NoPort
    PROVE  Expected = mappings
  BY PortMapAssumption DEF TypeOK, Expected, Absent, Patch

(* A step that leaves the table, and what it should hold, alone.           *)
LEMMA QuietStep ==
    ASSUME DeviceTracksMemory, NothingUnasked, Expected' = Expected,
           UNCHANGED <<table, outside, partial>>
    PROVE  DeviceTracksMemory' /\ NothingUnasked'
  BY DEF DeviceTracksMemory, NothingUnasked

(* A call that raised: the table is as it was, or changed unseen.          *)
LEMMA FailedCall ==
    ASSUME DeviceTracksMemory, NothingUnasked, Expected' = Expected,
           outside' = (outside \/ table' # table),
           partial' = partial \/ partial' = TRUE,
           outside \in BOOLEAN, partial \in BOOLEAN
    PROVE  DeviceTracksMemory' /\ NothingUnasked'
  BY DEF DeviceTracksMemory, NothingUnasked

(* A step after which the two are known to agree.                          *)
LEMMA AgreeingStep ==
    ASSUME Agrees(Expected, table)'
    PROVE  DeviceTracksMemory' /\ NothingUnasked'
  BY AgreesIsWithin DEF DeviceTracksMemory, NothingUnasked

(* A call that returned, and a change of the same entry in what the device *)
(* should hold.                                                            *)
LEMMA JointStep ==
    ASSUME TypeOK, DeviceTracksMemory, NothingUnasked,
           NEW p \in Ports, NEW q \in Ports \cup {NoPort},
           Expected' = [Expected EXCEPT ![p] = q],
           table' = [table EXCEPT ![ToDev[p]] = DevOf(q)],
           UNCHANGED <<outside, partial>>
    PROVE  DeviceTracksMemory' /\ NothingUnasked'
  <1>1. Expected \in Patch /\ table \in Table
    BY ExpectedType DEF TypeOK
  <1>2. /\ Agrees(Expected, table) => Agrees(Expected', table')
        /\ Within(Expected, table) => Within(Expected', table')
    BY <1>1, SetTogether
  <1> QED
    BY <1>2 DEF DeviceTracksMemory, NothingUnasked

LEMMA DeviceInit == Init => DeviceInv
  BY TypeInit DEF Init, DeviceInv, Steady, DeviceTracksMemory, NothingUnasked, NoOp, At

LEMMA ControlFields ==
    /\ NoOp.name = "none" /\ NoOp.at = "none" /\ NoOp.left = {}
    /\ \A name, at : Begin(name, at) =>
          op'.name = name /\ op'.at = at /\ op'.left = {} /\ op'.other = NoPort
    /\ \A at : Await(at) =>
          op'.name = op.name /\ op'.at = at /\ op'.left = {} /\ op'.other = NoPort
  BY DEF NoOp, Begin, Await

LEMMA ReplayFields ==
    ASSUME NEW left, Replay(left)
    PROVE  /\ op'.left = left
           /\ op'.name # "reconcile" /\ op'.name # "connect"
           /\ left # {} => At("push", "write")'
  <1>1. CASE left # {}
    BY <1>1 DEF Replay, NoOp, At
  <1>2. CASE left = {}
    BY <1>2, ControlFields DEF Replay, Return
  <1> QED
    BY <1>1, <1>2

LEMMA SteadyStep == TypeOK /\ Steady /\ [Next]_vars => Steady'
  <1> SUFFICES ASSUME TypeOK, Steady, [Next]_vars PROVE Steady'
    OBVIOUS
  <1>0. running \in BOOLEAN /\ outside \in BOOLEAN
    BY DEF TypeOK
  <1> USE <1>0, ControlFields DEF Steady, At
  <1>1. CASE Boot \/ BootBadPortMap \/ Stop
    BY <1>1 DEF Boot, BootBadPortMap, Stop, Return, history
  <1>2. CASE Request \/ CheckDrift
    <2>1. CASE \E i, e \in Ports, force \in BOOLEAN : Connect(i, e, force)
      BY <2>1 DEF Connect, Ready, history
    <2>2. CASE \E i \in Ports : Disconnect(i)
      BY <2>2 DEF Disconnect, Ready, NoOp, history
    <2>3. CASE Refresh \/ Push \/ Clear \/ CheckDrift
               \/ \E new \in Labels : SetLabel(new)
      BY <2>3 DEF CheckDrift, Refresh, Push, Clear, SetLabel, Ready, history
    <2> QED
      BY <1>2, <2>1, <2>2, <2>3 DEF Request
  <1>3. CASE ReconcileAdopt \/ ReconcileRefuse
    BY <1>3 DEF ReconcileAdopt, ReconcileRefuse, Return, history
  <1>4. CASE ConnectDelete \/ ConnectWrite \/ DisconnectDelete
    <2>1. CASE ConnectDelete
      BY <2>1 DEF ConnectDelete, Return, TypeOK, OpType
    <2>2. CASE ConnectWrite \/ DisconnectDelete
      BY <2>2 DEF ConnectWrite, DisconnectDelete, AfterFailedWrite, Return
    <2> QED
      BY <1>4, <2>1, <2>2
  <1>5. CASE RefreshRead \/ RefreshFail \/ ClearTable
    BY <1>5 DEF RefreshRead, RefreshFail, ClearTable, Return
  <1>6. CASE PushStatus \/ PushClear \/ PushClearFail
    BY <1>6, ReplayFields DEF PushStatus, PushClear, PushClearFail, Return
  <1>7. CASE PushWrite \/ PushWriteFail \/ PushProbe
    BY <1>7, ReplayFields DEF PushWrite, PushWriteFail, PushProbe, Return, history
  <1>8. CASE DriftReadFail \/ DriftNone \/ DriftFound \/ Save
    BY <1>8 DEF DriftReadFail, DriftNone, DriftFound, Save, Return
  <1>9. CASE OutOfBand
    BY <1>9 DEF OutOfBand
  <1>10. CASE UNCHANGED vars
    BY <1>10 DEF vars, history
  <1> QED
    BY <1>1, <1>2, <1>3, <1>4, <1>5, <1>6, <1>7, <1>8, <1>9, <1>10 DEF Next, Resume

LEMMA DeviceStep == DeviceInv /\ [Next]_vars => DeviceInv'
  <1> SUFFICES ASSUME DeviceInv, [Next]_vars
               PROVE  DeviceTracksMemory' /\ NothingUnasked'
    BY TypeStep, SteadyStep DEF DeviceInv
  <1>1. TypeOK /\ Steady /\ DeviceTracksMemory /\ NothingUnasked /\ TypeOK'
    BY TypeStep DEF DeviceInv
  <1>2. CASE \/ Boot \/ BootBadPortMap \/ ReconcileRefuse \/ Refresh \/ Push \/ Clear
             \/ CheckDrift \/ RefreshFail \/ PushStatus \/ PushProbe \/ DriftReadFail
             \/ DriftFound \/ Save
             \/ \E i \in Ports : Disconnect(i)
             \/ \E new \in Labels : SetLabel(new)
    <2>1. UNCHANGED <<mappings, table, outside, partial>>
      BY <1>2
      DEF Boot, BootBadPortMap, ReconcileRefuse, Refresh, Push, Clear, CheckDrift,
          RefreshFail, PushStatus, PushProbe, DriftReadFail, DriftFound, Save,
          Disconnect, SetLabel, volatile, history
    <2>2. op.left = {} /\ ~At("connect", "write")
      BY <1>1, <1>2, ControlFields
      DEF Boot, BootBadPortMap, ReconcileRefuse, Refresh, Push, Clear, CheckDrift,
          RefreshFail, PushStatus, PushProbe, DriftReadFail, DriftFound, Save,
          Disconnect, SetLabel, Steady, At, Ready, Idle
    <2>3. op'.left = {} /\ ~At("connect", "write")'
      <3>1. CASE BootBadPortMap
        BY <2>2, <3>1 DEF BootBadPortMap, At
      <3>2. CASE \E i \in Ports : Disconnect(i)
        BY <3>2 DEF Disconnect, NoOp, At
      <3> QED
        BY <1>2, <3>1, <3>2, ControlFields
        DEF Boot, ReconcileRefuse, Refresh, Push, Clear, CheckDrift, RefreshFail,
            PushStatus, PushProbe, DriftReadFail, DriftFound, Save, SetLabel, At,
            Return
    <2>4. Expected' = Expected
      BY <1>1, <2>1, <2>2, <2>3 DEF Expected, Absent
    <2> QED
      BY <1>1, <2>1, <2>4, QuietStep
  <1>3. CASE UNCHANGED vars
    <2>1. Expected' = Expected /\ UNCHANGED <<table, outside, partial>>
      BY <1>3 DEF vars, volatile, history, Expected, Absent, At
    <2> QED
      BY <1>1, <2>1, QuietStep
  <1>4. CASE Stop \/ OutOfBand \/ ReconcileAdopt
    <2>1. outside' = TRUE
      BY <1>1, <1>4 DEF Stop, OutOfBand, ReconcileAdopt, Steady, history
    <2> QED
      BY <2>1 DEF DeviceTracksMemory, NothingUnasked
  <1>5. CASE \E i, e \in Ports, force \in BOOLEAN : Connect(i, e, force)
    <2>1. /\ UNCHANGED <<mappings, table, outside, partial>>
          /\ op.left = {} /\ ~At("connect", "write")
          /\ op'.left = {} /\ (op'.at = "write" => op'.other = NoPort)
      BY <1>5 DEF Connect, FirstCall, Ready, Idle, NoOp, At, volatile, history
    <2>2. Expected' = Expected
      BY <1>1, <2>1, PortMapAssumption DEF Expected, Absent, At
    <2> QED
      BY <1>1, <2>1, <2>2, QuietStep
  <1>6. CASE ConnectDelete
    <2>1. /\ At("connect", "delete") /\ op.other \in Ports /\ op.left = {}
          /\ op \in OpType
          /\ UNCHANGED <<mappings, partial>>
      BY <1>1, <1>6 DEF ConnectDelete, TypeOK, OpReady, Steady, At, volatile
    <2>2. Expected = mappings
      BY <1>1, <2>1, ExpectedAtRest DEF At
    <2>3. CASE Set(ToDev[op.other], NoPort) /\ op' = [op EXCEPT !.at = "write"]
                 /\ UNCHANGED outside
      <3>1. op'.left = {} /\ op'.other = op.other /\ At("connect", "write")'
        BY <2>1, <2>3 DEF OpType, At
      <3>2. Expected' = [Expected EXCEPT ![op.other] = NoPort]
        BY <1>1, <2>1, <2>2, <3>1 DEF Expected, Absent, TypeOK, Patch
      <3>3. table' = [table EXCEPT ![ToDev[op.other]] = DevOf(NoPort)]
        BY <2>3, PortMapAssumption DEF Set, DevOf
      <3> QED
        BY <1>1, <2>1, <2>3, <3>2, <3>3, JointStep
    <2>4. CASE FailedSet(ToDev[op.other], NoPort) /\ Return
      <3>1. Expected' = Expected
        BY <1>1, <2>1, <2>2, <2>4, ExpectedAtRest DEF Return, NoOp, Expected, Absent,
           TypeOK, Patch, At
      <3> QED
        BY <1>1, <2>1, <2>4, <3>1, FailedCall DEF FailedSet, Unseen, TypeOK
    <2> QED
      BY <1>6, <2>3, <2>4 DEF ConnectDelete, Delete
  <1>7. CASE ConnectWrite
    <2>1. /\ At("connect", "write") /\ op.left = {} /\ UNCHANGED partial
          /\ op.ingress \in Ports /\ op.egress \in Ports
      BY <1>1, <1>7 DEF ConnectWrite, TypeOK, OpReady, Steady, At
    <2>2. Expected = WithoutOther
      <3>1. Absent = {op.other} /\ mappings \in Patch
        BY <1>1, <2>1 DEF Absent, TypeOK
      <3> QED
        BY <3>1, PortMapAssumption DEF Expected, WithoutOther, Patch
    <2>3. op'.left = {} /\ ~At("connect", "write")'
      BY <1>7, ControlFields DEF ConnectWrite, AfterFailedWrite, Return, At
    <2>4. Expected' = mappings'
      BY <1>1, <2>3 DEF Expected, Absent, TypeOK, Patch
    <2>5. CASE Set(ToDev[op.ingress], ToDev[op.egress])
                 /\ mappings' = [WithoutOther EXCEPT ![op.ingress] = op.egress]
                 /\ UNCHANGED outside
      <3>1. table' = [table EXCEPT ![ToDev[op.ingress]] = DevOf(op.egress)]
        BY <2>1, <2>5 DEF Set, DevOf
      <3> QED
        BY <1>1, <2>1, <2>2, <2>4, <2>5, <3>1, JointStep
    <2>6. CASE FailedSet(ToDev[op.ingress], ToDev[op.egress])
                 /\ mappings' = WithoutOther
      BY <1>1, <2>1, <2>2, <2>4, <2>6, FailedCall DEF FailedSet, Unseen, TypeOK
    <2> QED
      BY <1>7, <2>5, <2>6 DEF ConnectWrite
  <1>8. CASE DisconnectDelete
    <2>1. /\ At("disconnect", "delete") /\ op.left = {} /\ UNCHANGED partial
          /\ op.ingress \in Ports
      BY <1>1, <1>8 DEF DisconnectDelete, TypeOK, OpReady, Steady, At
    <2>2. Expected = mappings
      BY <1>1, <2>1, ExpectedAtRest DEF At
    <2>3. op'.left = {} /\ ~At("connect", "write")'
      BY <1>8, ControlFields DEF DisconnectDelete, Return, At
    <2>4. Expected' = mappings'
      BY <1>1, <2>3 DEF Expected, Absent, TypeOK, Patch
    <2>5. CASE Set(ToDev[op.ingress], NoPort)
                 /\ mappings' = [mappings EXCEPT ![op.ingress] = NoPort]
                 /\ UNCHANGED outside
      <3>1. table' = [table EXCEPT ![ToDev[op.ingress]] = DevOf(NoPort)]
        BY <2>5, PortMapAssumption DEF Set, DevOf
      <3> QED
        BY <1>1, <2>1, <2>2, <2>4, <2>5, <3>1, JointStep
    <2>6. CASE FailedSet(ToDev[op.ingress], NoPort) /\ UNCHANGED mappings
      BY <1>1, <2>1, <2>2, <2>4, <2>6, FailedCall DEF FailedSet, Unseen, TypeOK
    <2> QED
      BY <1>8, <2>5, <2>6 DEF DisconnectDelete, Delete
  <1>9. CASE RefreshRead \/ DriftNone
    <2>1. op'.left = {} /\ ~At("connect", "write")' /\ UNCHANGED table
      BY <1>9, ControlFields DEF RefreshRead, DriftNone, Return, At
    <2>2. Expected' = mappings'
      BY <1>1, <2>1 DEF Expected, Absent, TypeOK, Patch
    <2>3. Agrees(mappings', table)
      BY <1>1, <1>9, PullAgrees, DriftDeltaExact DEF RefreshRead, DriftNone, TypeOK
    <2> QED
      BY <2>1, <2>2, <2>3, AgreeingStep
  <1>10. CASE PushClear
    <2>1. op'.left = Patched(mappings) /\ ~At("connect", "write")'
          /\ mappings' = mappings /\ table' = EmptyTable
      BY <1>10, ReplayFields DEF PushClear, At
    <2>2. Patched(Expected') = {} /\ Expected' \in Patch
      BY <1>1, <2>1, ExpectedType DEF Expected, Absent, TypeOK, Patch, Patched
    <2> QED
      BY <2>1, <2>2, EmptyAgrees, AgreeingStep
  <1>11. CASE PushClearFail
    <2>1. op.left = {} /\ ~At("connect", "write") /\ op'.left = {}
          /\ ~At("connect", "write")' /\ UNCHANGED <<mappings, partial>>
      BY <1>1, <1>11, ControlFields DEF PushClearFail, Return, Steady, At
    <2>2. Expected' = Expected
      BY <1>1, <2>1 DEF Expected, Absent
    <2> QED
      BY <1>1, <1>11, <2>1, <2>2, FailedCall DEF PushClearFail, FailedWipe, Unseen, TypeOK
  <1>12. CASE PushWrite
    <2>1. PICK p \in op.left : Set(ToDev[p], ToDev[mappings[p]]) /\ Replay(LeftAfter(p))
      BY <1>12 DEF PushWrite
    <2>2. /\ p \in Ports /\ mappings[p] \in Ports
          /\ ~At("connect", "write")
          /\ UNCHANGED <<mappings, outside, partial>>
      BY <1>1, <1>12 DEF PushWrite, TypeOK, OpReady, Patched, Patch, At, history
    <2>3. op'.left = op.left \ {p} /\ ~At("connect", "write")'
      BY <2>1, ReplayFields DEF LeftAfter, At
    <2>4. Expected' = [Expected EXCEPT ![p] = mappings[p]]
      BY <1>1, <2>2, <2>3 DEF Expected, Absent, TypeOK, Patch
    <2>5. table' = [table EXCEPT ![ToDev[p]] = DevOf(mappings[p])]
      BY <2>1, <2>2 DEF Set, DevOf
    <2> QED
      BY <1>1, <2>2, <2>4, <2>5, JointStep
  <1>13. CASE PushWriteFail
    <2>1. PICK p \in op.left : FailedSet(ToDev[p], ToDev[mappings[p]])
      BY <1>13 DEF PushWriteFail
    <2>2. op'.left = {} /\ ~At("connect", "write") /\ ~At("connect", "write")'
          /\ UNCHANGED mappings /\ partial' = TRUE
      BY <1>13, ControlFields DEF PushWriteFail, Return, At
    <2>3. ASSUME Within(Expected, table)
          PROVE  Within(Expected', table)
      <3>1. Expected' = mappings
        BY <1>1, <2>2 DEF Expected, Absent, TypeOK, Patch
      <3>2. ASSUME NEW r \in Ports
            PROVE  table[ToDev[r]] \in {NoPort, DevOf(mappings[r])}
        <4>1. Expected[r] \in {NoPort, mappings[r]}
          BY DEF Expected
        <4>2. DevOf(NoPort) = NoPort
          BY PortMapAssumption DEF DevOf
        <4> QED
          BY <2>3, <4>1, <4>2 DEF Within
      <3> QED
        BY <2>3, <3>1, <3>2 DEF Within
    <2> QED
      BY <1>1, <2>1, <2>2, <2>3
      DEF FailedSet, Unseen, DeviceTracksMemory, NothingUnasked, TypeOK
  <1>14. CASE ClearTable
    <2>1. op.left = {} /\ ~At("connect", "write") /\ op'.left = {}
          /\ ~At("connect", "write")'
      BY <1>1, <1>14, ControlFields DEF ClearTable, Return, Steady, At
    <2>2. Expected = mappings /\ Expected' = mappings'
      BY <1>1, <2>1 DEF Expected, Absent, TypeOK, Patch
    <2>3. CASE table' = EmptyTable /\ mappings' = NoPatch
      <3>1. Patched(NoPatch) = {}
        BY DEF Patched, NoPatch
      <3> QED
        BY <2>2, <2>3, <3>1, NoPatchType, EmptyAgrees, AgreeingStep
    <2>4. CASE FailedWipe /\ UNCHANGED <<mappings, partial>>
      BY <1>1, <2>2, <2>4, FailedCall DEF FailedWipe, Unseen, TypeOK
    <2> QED
      BY <1>14, <2>3, <2>4 DEF ClearTable
  <1> QED
    BY <1>2, <1>3, <1>4, <1>5, <1>6, <1>7, <1>8, <1>9, <1>10, <1>11, <1>12, <1>13,
       <1>14 DEF Next, Request, Resume

LEMMA DeviceInvariant == Spec => []DeviceInv
  BY DeviceInit, DeviceStep, PTL DEF Spec

(* Unless the table changed unseen or a replay stopped half way, the       *)
(* switch holds exactly the connections in memory, up to what the handler  *)
(* under way has still to do.                                              *)
THEOREM DeviceTracking == Spec => []DeviceTracksMemory
  BY DeviceInvariant, PTL DEF DeviceInv

(* Unless the table changed unseen, the switch holds no entry that desired *)
(* state does not ask for, after a broken replay too.                      *)
THEOREM NothingUnaskedHolds == Spec => []NothingUnasked
  BY DeviceInvariant, PTL DEF DeviceInv

(* Hence a one-to-one desired state is never behind a switch that sends    *)
(* two ingress ports to one egress, not even in the middle of a handler.   *)
THEOREM OneToOneOnDevice == Spec => []DeviceOneToOne
  <1>1. DeviceInv => DeviceOneToOne
    <2> SUFFICES ASSUME DeviceInv, ~outside, OneToOne(mappings),
                        NEW a \in DevPorts, NEW b \in DevPorts,
                        table[a] = table[b], table[a] # NoPort
                 PROVE  a = b
      BY DEF DeviceOneToOne, OneToOne, DeviceInv, TypeOK, Table
    <2>1. Within(Expected, table)
      BY DEF DeviceInv, NothingUnasked
    <2>2. PICK p \in Ports, q \in Ports : a = ToDev[p] /\ b = ToDev[q]
      BY <2>1 DEF Within, Mapped
    <2>3. table[a] = DevOf(Expected[p]) /\ table[b] = DevOf(Expected[q])
      BY <2>1, <2>2 DEF Within
    <2>4. Expected[p] \in Ports /\ Expected[q] \in Ports
      BY <2>3 DEF DevOf
    <2>5. Expected[p] = Expected[q]
      BY <2>3, <2>4, PortMapAssumption DEF DevOf
    <2>6. mappings[p] = Expected[p] /\ mappings[q] = Expected[q]
      BY <2>4, PortMapAssumption DEF Expected
    <2> QED
      BY <2>2, <2>4, <2>5, <2>6, PortMapAssumption DEF OneToOne, DeviceInv, TypeOK, Patch
  <1> QED
    BY <1>1, DeviceInvariant, PTL

-----------------------------------------------------------------------------
(* The state file and refused starts.                                      *)

LEMMA SavedInit == Init => SavedInv
  BY TypeInit DEF Init, SavedInv, Steady, Refused, MemoryIsSaved, NoOp, At

LEMMA RefusedStep == TypeOK /\ Steady /\ Refused /\ [Next]_vars => Refused'
  <1> SUFFICES ASSUME TypeOK, Steady, Refused, [Next]_vars, ~recoverable'
               PROVE  running' /\ health' = "unhealthy"
                      /\ (Idle' \/ At("set_label", "save")')
    BY DEF Refused
  <1>0. running \in BOOLEAN /\ recoverable \in BOOLEAN
    BY DEF TypeOK
  <1> USE <1>0, ControlFields DEF At, Idle, Steady, Refused
  <1>1. CASE Boot \/ BootBadPortMap \/ Stop
    BY <1>1 DEF Boot, BootBadPortMap, Stop, MarkUnhealthy, MarkHealthy, volatile
  <1>2. CASE Request \/ CheckDrift
    <2>1. CASE \E new \in Labels : SetLabel(new)
      BY <2>1 DEF SetLabel, Ready
    <2> QED
      BY <1>2, <2>1 DEF Request, CheckDrift, Connect, Disconnect, Refresh, Push,
                        MayPush, Clear, RequireHealthy, volatile
  <1>3. CASE ReconcileAdopt \/ ReconcileRefuse
    BY <1>3 DEF ReconcileAdopt, ReconcileRefuse, MarkUnhealthy, Return
  <1>4. CASE Save
    BY <1>4 DEF Save, Return
  <1>5. CASE Resume /\ ~ReconcileAdopt /\ ~ReconcileRefuse /\ ~Save
    <2>1. op.at # "none" /\ op.name # "set_label"
      BY <1>5 DEF Resume, ConnectDelete, ConnectWrite, DisconnectDelete, RefreshRead,
                  RefreshFail, PushStatus, PushClear, PushClearFail, PushWrite,
                  PushWriteFail, PushProbe, ClearTable, DriftReadFail, DriftNone,
                  DriftFound
    <2>2. recoverable = TRUE
      BY <2>1
    <2>3. recoverable' = TRUE
      BY <1>5, <2>2
      DEF Resume, ConnectDelete, ConnectWrite, DisconnectDelete, RefreshRead,
          RefreshFail, PushStatus, PushClear, PushClearFail, PushWrite, PushWriteFail,
          PushProbe, ClearTable, DriftReadFail, DriftNone, DriftFound, Replay,
          MarkHealthy, MarkUnhealthy, KeepHealth, volatile
    <2> QED
      BY <2>3
  <1>6. CASE OutOfBand
    BY <1>6 DEF OutOfBand, volatile
  <1>7. CASE UNCHANGED vars
    BY <1>7 DEF vars, volatile
  <1> QED
    BY <1>1, <1>2, <1>3, <1>4, <1>5, <1>6, <1>7 DEF Next

LEMMA FileStep == SavedInv /\ [Next]_vars => MemoryIsSaved'
  <1> SUFFICES ASSUME SavedInv, [Next]_vars,
                      running', recoverable', ~unsaved', op'.at \notin {"load", "save"}
               PROVE  file' = Saved'
    BY DEF MemoryIsSaved
  <1>0. /\ running \in BOOLEAN /\ recoverable \in BOOLEAN /\ unsaved \in BOOLEAN
        /\ Steady /\ Refused /\ MemoryIsSaved
    BY DEF SavedInv, TypeOK
  <1> USE <1>0, ControlFields DEF At, Idle, Steady, Refused, MemoryIsSaved, Saved
  <1>1. CASE Boot \/ BootBadPortMap \/ Stop
    BY <1>1 DEF Boot, BootBadPortMap, Stop, MarkUnhealthy
  <1>2. CASE Request \/ CheckDrift
    BY <1>2 DEF Request, CheckDrift, Connect, Disconnect, Refresh, Push, Clear,
                SetLabel, Ready, volatile, history
  <1>3. CASE ReconcileAdopt
    BY <1>3 DEF ReconcileAdopt, SavedInv, TypeOK, history
  <1>4. CASE ReconcileRefuse
    BY <1>4 DEF ReconcileRefuse, MarkUnhealthy
  <1>5. CASE ConnectWrite
    BY <1>5 DEF ConnectWrite, AfterFailedWrite, WithoutOther
  <1>6. CASE DisconnectDelete \/ ClearTable \/ RefreshRead
    BY <1>6 DEF DisconnectDelete, ClearTable, RefreshRead
  <1>7. CASE Save
    BY <1>7 DEF Save
  <1>8. CASE \/ ConnectDelete \/ RefreshFail \/ PushStatus \/ PushClear
             \/ PushClearFail \/ PushWrite \/ PushWriteFail \/ PushProbe
             \/ DriftReadFail \/ DriftNone \/ DriftFound
    <2>1. op.at \notin {"none", "load", "save"} /\ op.name # "set_label"
      BY <1>8 DEF ConnectDelete, RefreshFail, PushStatus, PushClear, PushClearFail,
                  PushWrite, PushWriteFail, PushProbe, DriftReadFail, DriftNone,
                  DriftFound
    <2>2. running /\ recoverable
      BY <2>1
    <2>3. UNCHANGED <<mappings, labels, file, unsaved>>
      BY <1>8 DEF ConnectDelete, RefreshFail, PushStatus, PushClear, PushClearFail,
                  PushWrite, PushWriteFail, PushProbe, DriftReadFail, DriftNone,
                  DriftFound, volatile, history
    <2> QED
      BY <2>1, <2>2, <2>3
  <1>9. CASE OutOfBand
    BY <1>9 DEF OutOfBand, volatile
  <1>10. CASE UNCHANGED vars
    BY <1>10 DEF vars, volatile, history
  <1> QED
    BY <1>1, <1>2, <1>3, <1>4, <1>5, <1>6, <1>7, <1>8, <1>9, <1>10 DEF Next, Resume

LEMMA SavedInvariant == Spec => []SavedInv
  <1>1. SavedInv /\ [Next]_vars => SavedInv'
    BY TypeStep, SteadyStep, RefusedStep, FileStep DEF SavedInv
  <1> QED
    BY <1>1, SavedInit, PTL DEF Spec

(* Without a failed save, file and memory differ while a handler saves and *)
(* at no other time.                                                       *)
THEOREM SavedMemory == Spec => []MemoryIsSaved
  <1>1. SavedInv => MemoryIsSaved
    BY DEF SavedInv
  <1> QED
    BY <1>1, SavedInvariant, PTL

=============================================================================
