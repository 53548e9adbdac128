----------------------------- MODULE Controller -----------------------------
(***************************************************************************)
(* app/controller.py with the state file and the switch table it drives.   *)
(*                                                                         *)
(* Every operation holds the controller's asyncio.Lock from its first line *)
(* to its return, so at most one handler is under way: `op'. Each await on *)
(* a device or file call (asyncio.to_thread) is a point where the process  *)
(* may die, the table may be edited from outside, or the call may fail. A  *)
(* step of a handler is one such call together with the code that runs     *)
(* when it returns; the code before the first call is a step of its own.   *)
(* A call that returns a table read leaves nothing for another actor to    *)
(* disturb before the handler resumes: the result is private to it.        *)
(*                                                                         *)
(* Covered: start and restart, connect, disconnect, refresh (pull), push,  *)
(* clear, set_label, check_drift, out-of-band edits, failed calls that did *)
(* or did not take effect, failed saves. Requests that change nothing (a   *)
(* refused, conflicting or repeated request) are steps that stutter and    *)
(* are left out. Reason texts and reply bodies are left out.               *)
(***************************************************************************)
EXTENDS PortMap, FiniteSets, Naturals

CONSTANTS
    Labels,     \* values of the label dictionary as a whole
    NoLabels,   \* the empty dictionary
    Unfit,      \* a state file that load_state or _validate_mappings rejects
    Edits       \* out-of-band edits: pairs <<ingress, new egress or NoPort>>

ASSUME ControllerAssumption ==
    /\ NoLabels \in Labels
    /\ Unfit \notin [patch : Patch, labels : Labels]
    /\ Edits \subseteq DevPorts \X (DevPorts \cup {NoPort})

VARIABLES
    running,        \* the process is up
    mappings,       \* desired state in memory
    labels,         \* panel labels in memory
    health,         \* "healthy" or "unhealthy"
    recoverable,    \* health_recoverable
    sync,           \* the sync state shown by the LED
    drift,          \* a drift delta is outstanding: self.drift is not None
    op,             \* the handler that holds the lock, and how far it got
    file,           \* desired state on disk
    table,          \* the switch's match table
    outside,        \* history: the table may have changed unseen
    partial,        \* history: a replay stopped half way
    unsaved,        \* history: the last save raised
    hidden          \* history: of "switch" and "file", the one whose trouble
                    \* the sync state was told and does not show any more

volatile == <<mappings, labels, health, recoverable, sync, drift>>
history == <<outside, partial, unsaved, hidden>>
vars == <<running, volatile, op, file, table, history>>

Syncs == {"in_sync", "out_of_sync", "partial_sync", "drifted"}
Degraded == {"partial_sync", "drifted"}

NoOp == [name |-> "none", at |-> "none", ingress |-> NoPort, egress |-> NoPort,
         other |-> NoPort, left |-> {}, force |-> FALSE]
Idle == op = NoOp
Ready == running /\ Idle
At(name, at) == op.name = name /\ op.at = at

(* Handler control: begin, wait for a later call of the handler, return.   *)
Begin(name, at) == op' = [NoOp EXCEPT !.name = name, !.at = at]
Await(at) == op' = [NoOp EXCEPT !.name = op.name, !.at = at]
Return == op' = NoOp

Saved == [patch |-> mappings, labels |-> labels]

-----------------------------------------------------------------------------
(* Calls on the device.                                                    *)

(* A call that succeeds sets one entry; deleting one that is not there     *)
(* raises.                                                                 *)
Set(d, value) == table' = [table EXCEPT ![d] = value]
Delete(d) == table[d] # NoPort /\ Set(d, NoPort)

(* A call that raises may still have taken effect (the reply was lost).    *)
Unseen == outside' = (outside \/ table' # table)
FailedSet(d, value) ==
    /\ table' \in {table, [table EXCEPT ![d] = value]}
    /\ Unseen
FailedWipe ==
    /\ \E gone \in SUBSET DevPorts :
          table' = [d \in DevPorts |-> IF d \in gone THEN NoPort ELSE table[d]]
    /\ Unseen

MarkUnhealthy(canRecover) ==
    /\ health' = "unhealthy"
    /\ recoverable' = canRecover
MarkHealthy ==
    /\ health' = "healthy"
    /\ recoverable' = TRUE
RequireHealthy == health # "unhealthy"
KeepHealth == UNCHANGED <<health, recoverable>>

-----------------------------------------------------------------------------
(* Start: lifespan in main.py. A port map that does not load leaves a      *)
(* controller that may not recover; otherwise reconcile() runs first.      *)
Init ==
    /\ running = FALSE
    /\ mappings = NoPatch
    /\ labels = NoLabels
    /\ health = "healthy"
    /\ recoverable = TRUE
    /\ sync = "in_sync"
    /\ drift = FALSE
    /\ op = NoOp
    /\ file \in {f \in [patch : Patch, labels : Labels] : OneToOne(f.patch)}
                  \cup {Unfit}
    /\ table = EmptyTable
    /\ outside = TRUE
    /\ partial = FALSE
    /\ unsaved = FALSE
    /\ hidden = {}

Boot ==
    /\ ~running
    /\ running' = TRUE
    /\ Begin("reconcile", "load")
    /\ UNCHANGED <<volatile, file, table, history>>

BootBadPortMap ==
    /\ ~running
    /\ running' = TRUE
    /\ MarkUnhealthy(FALSE)
    /\ UNCHANGED <<mappings, labels, sync, drift, op, file, table, history>>

(* reconcile: adopt the file, then replay it; _push_locked is shared with  *)
(* push, so the handler goes on under that name.                           *)
ReconcileAdopt ==
    /\ At("reconcile", "load")
    /\ file # Unfit
    /\ mappings' = file.patch
    /\ labels' = file.labels
    /\ Begin("push", "status")
    /\ UNCHANGED <<running, health, recoverable, sync, drift, file, table, history>>

(* The file is unfit, or reading it failed this time.                      *)
ReconcileRefuse ==
    /\ At("reconcile", "load")
    /\ MarkUnhealthy(FALSE)
    /\ Return
    /\ UNCHANGED <<running, mappings, labels, sync, drift, file, table, history>>

(* The process ends, by a crash or an orderly stop: memory is gone, and a  *)
(* call under way may or may not have reached the switch.                  *)
Stop ==
    /\ running
    /\ running' = FALSE
    /\ mappings' = NoPatch
    /\ labels' = NoLabels
    /\ MarkHealthy
    /\ sync' = "in_sync"
    /\ drift' = FALSE
    /\ Return
    /\ outside' = TRUE
    /\ partial' = FALSE
    /\ unsaved' = FALSE
    /\ hidden' = {}
    /\ UNCHANGED <<file, table>>

-----------------------------------------------------------------------------
(* _persist: the tail of every handler that changes desired state.         *)

(* The sync state after a save that succeeded or raised.                   *)
PersistPromotesAll(saved) == IF saved THEN "in_sync" ELSE "out_of_sync" \* mutant
Persisted(saved) ==
    IF ~saved THEN "out_of_sync"
    ELSE IF sync = "out_of_sync" THEN "in_sync" ELSE sync

(* refresh and clear go on to settle the sync state themselves.            *)
ClearSettlesAll(saved) == \* mutant
    IF op.name \in {"refresh", "clear"} THEN "in_sync" ELSE Persisted(saved)
SyncAfterSave(saved) ==
    IF \/ op.name = "refresh" /\ saved
       \/ op.name = "clear" /\ Persisted(saved) = "partial_sync"
    THEN "in_sync" ELSE Persisted(saved)

(* A save that raises covers up a switch known to differ, one that         *)
(* succeeds leaves nothing of the file to show.                            *)
DriftKept == drift /\ op.name # "clear"

HiddenAfterSave(saved) ==
    IF saved THEN hidden \ {"file"}
    ELSE IF partial \/ DriftKept THEN hidden \cup {"switch"} ELSE hidden

Save ==
    /\ op.at = "save"
    /\ \E saved \in BOOLEAN :
          /\ sync' = SyncAfterSave(saved)
          /\ unsaved' = ~saved
          /\ hidden' = HiddenAfterSave(saved)
          \* os.replace may have happened before the call raised
          /\ file' \in IF saved THEN {Saved} ELSE {file, Saved}
    /\ drift' = DriftKept
    /\ Return
    /\ UNCHANGED <<running, mappings, labels, health, recoverable, table,
                   outside, partial>>

-----------------------------------------------------------------------------
(* connect                                                                 *)

(* _ingress_for_egress: the ingress ports it may return.                   *)
NoRivals(ingress, egress) == {} \* mutant
Rivals(ingress, egress) ==
    {p \in Ports \ {ingress} : mappings[p] = egress}

(* _removal_preview: what the connection would take away.                  *)
PreviewOwnOnly(ingress, other) == {p \in {ingress} : mappings[p] # NoPort} \* mutant
RemovalPreview(ingress, other) ==
    {p \in {ingress, other} \ {NoPort} : mappings[p] # NoPort}

(* Where connect first waits on the device.                                *)
AlwaysDelete(other) == "delete" \* mutant
NeverDelete(other) == "write"   \* mutant
FirstCall(other) == IF other # NoPort THEN "delete" ELSE "write"

Connect(ingress, egress, force) ==
    /\ Ready
    /\ RequireHealthy
    /\ \E other \in IF Rivals(ingress, egress) = {} THEN {NoPort}
                    ELSE Rivals(ingress, egress) :
          /\ ~(mappings[ingress] = egress /\ other = NoPort)
          /\ RemovalPreview(ingress, other) = {} \/ force
          /\ op' = [name |-> "connect", at |-> FirstCall(other),
                    ingress |-> ingress, egress |-> egress, other |-> other,
                    left |-> {}, force |-> force]
    /\ UNCHANGED <<running, volatile, file, table, history>>

ConnectDelete ==
    /\ At("connect", "delete")
    /\ \/ /\ Delete(ToDev[op.other])
          /\ op' = [op EXCEPT !.at = "write"]
          /\ UNCHANGED outside
       \/ /\ FailedSet(ToDev[op.other], NoPort)
          /\ Return
    /\ UNCHANGED <<running, volatile, file, partial, unsaved, hidden>>

(* mappings.pop(other, None) *)
KeepOther == mappings \* mutant
ReversedToo == \* mutant
    [p \in Ports |-> IF p \in {op.other, op.egress} THEN NoPort ELSE mappings[p]]
WithoutOther ==
    IF op.other = NoPort THEN mappings ELSE [mappings EXCEPT ![op.other] = NoPort]

(* What connect still does when its write raised: the entry of `other' is  *)
(* already gone, so desired state is made to say so before the error.      *)
DropOtherOnly == Return \* mutant
RetryWrite == UNCHANGED op \* mutant
AfterFailedWrite == IF op.other = NoPort THEN Return ELSE Await("save")

ConnectWrite ==
    /\ At("connect", "write")
    /\ \/ /\ Set(ToDev[op.ingress], ToDev[op.egress])
          /\ mappings' = [WithoutOther EXCEPT ![op.ingress] = op.egress]
          /\ Await("save")
          /\ UNCHANGED outside
       \/ /\ FailedSet(ToDev[op.ingress], ToDev[op.egress])
          /\ mappings' = WithoutOther
          /\ AfterFailedWrite
    /\ UNCHANGED <<running, labels, health, recoverable, sync, drift, file,
                   partial, unsaved, hidden>>

-----------------------------------------------------------------------------
(* disconnect                                                              *)
Disconnect(ingress) ==
    /\ Ready
    /\ RequireHealthy
    /\ mappings[ingress] # NoPort
    /\ op' = [NoOp EXCEPT !.name = "disconnect", !.at = "delete",
                          !.ingress = ingress]
    /\ UNCHANGED <<running, volatile, file, table, history>>

DisconnectDelete ==
    /\ At("disconnect", "delete")
    /\ \/ /\ Delete(ToDev[op.ingress])
          /\ mappings' = [mappings EXCEPT ![op.ingress] = NoPort]
          /\ Await("save")
          /\ UNCHANGED outside
       \/ /\ FailedSet(ToDev[op.ingress], NoPort)
          /\ Return
          /\ UNCHANGED mappings
    /\ UNCHANGED <<running, labels, health, recoverable, sync, drift, file,
                   partial, unsaved, hidden>>

-----------------------------------------------------------------------------
(* refresh: adopt the live table as desired state (pull).                  *)
Refresh ==
    /\ Ready
    /\ RequireHealthy
    /\ Begin("refresh", "read")
    /\ UNCHANGED <<running, volatile, file, table, history>>

RefreshRead ==
    /\ At("refresh", "read")
    /\ Translatable(table)
    /\ mappings' = PatchOf(table)
    /\ drift' = FALSE
    /\ outside' = FALSE
    /\ partial' = FALSE
    /\ Await("save")
    /\ hidden' = hidden \ {"switch"}
    /\ UNCHANGED <<running, labels, health, recoverable, sync, file, table, unsaved>>

(* The read raised, or an entry has an end outside the port map.           *)
RefreshFail ==
    /\ At("refresh", "read")
    /\ Return
    /\ UNCHANGED <<running, volatile, file, table, history>>

-----------------------------------------------------------------------------
(* push: replay desired state onto the device.                             *)

AnyoneMayPush == TRUE \* mutant
MayPush == ~(health = "unhealthy" /\ ~recoverable)

Push ==
    /\ Ready
    /\ MayPush
    /\ Begin("push", "status")
    /\ UNCHANGED <<running, volatile, file, table, history>>

(* _backend_reachable: three attempts, one outcome.                        *)
PushStatus ==
    /\ At("push", "status")
    /\ \/ Await("clear") /\ KeepHealth
       \/ Return /\ MarkUnhealthy(TRUE)
    /\ UNCHANGED <<running, mappings, labels, sync, drift, file, table, history>>

(* What a push tells of the switch covers up a file that was not saved.    *)
PushTells(state) ==
    /\ sync' = state
    /\ hidden' = IF unsaved THEN {"file"} ELSE {}

(* The rest of the replay: go on while entries are left, else settle.      *)
Replay(left) ==
    IF left # {}
    THEN /\ op' = [NoOp EXCEPT !.name = "push", !.at = "write", !.left = left]
         /\ UNCHANGED <<health, recoverable, sync, drift, hidden>>
    ELSE /\ MarkHealthy
         /\ PushTells("in_sync")
         /\ drift' = FALSE
         /\ Return

PushClear ==
    /\ At("push", "clear")
    /\ table' = EmptyTable
    /\ outside' = FALSE
    /\ partial' = FALSE
    /\ Replay(Patched(mappings))
    /\ UNCHANGED <<running, mappings, labels, file, unsaved>>

PushClearFail ==
    /\ At("push", "clear")
    /\ FailedWipe
    /\ MarkUnhealthy(TRUE)
    /\ Return
    /\ UNCHANGED <<running, mappings, labels, sync, drift, file, partial, unsaved, hidden>>

ReplaySame(p) == op.left \* mutant
LeftAfter(p) == op.left \ {p}

PushWrite ==
    /\ At("push", "write")
    /\ \E p \in op.left :
          /\ Set(ToDev[p], ToDev[mappings[p]])
          /\ Replay(LeftAfter(p))
    /\ UNCHANGED <<running, mappings, labels, file, outside, partial, unsaved>>

(* A ValueError marks the controller unhealthy at once; anything else asks *)
(* whether the device still answers.                                       *)
PushWriteFail ==
    /\ At("push", "write")
    /\ \E p \in op.left : FailedSet(ToDev[p], ToDev[mappings[p]])
    /\ partial' = TRUE
    /\ \/ Return /\ MarkUnhealthy(TRUE)
       \/ Await("probe") /\ KeepHealth
    /\ UNCHANGED <<running, mappings, labels, sync, drift, file, unsaved, hidden>>

PushProbe ==
    /\ At("push", "probe")
    /\ \/ PushTells("partial_sync") /\ KeepHealth
       \/ MarkUnhealthy(TRUE) /\ UNCHANGED <<sync, hidden>>
    /\ Return
    /\ UNCHANGED <<running, mappings, labels, drift, file, table, outside, partial,
                   unsaved>>

-----------------------------------------------------------------------------
(* clear: remove every connection, on the device and in desired state.     *)
Clear ==
    /\ Ready
    /\ RequireHealthy
    /\ Begin("clear", "clear")
    /\ UNCHANGED <<running, volatile, file, table, history>>

ClearTable ==
    /\ At("clear", "clear")
    /\ \/ /\ table' = EmptyTable
          /\ mappings' = NoPatch
          /\ outside' = FALSE
          /\ partial' = FALSE
          /\ hidden' = hidden \ {"switch"}
          /\ Await("save")
       \/ /\ FailedWipe
          /\ Return
          /\ UNCHANGED <<mappings, partial, hidden>>
    /\ UNCHANGED <<running, labels, health, recoverable, sync, drift, file, unsaved>>

-----------------------------------------------------------------------------
(* set_label: the one operation that asks nothing of health.               *)
SetLabel(new) ==
    /\ Ready
    /\ labels' = new
    /\ Begin("set_label", "save")
    /\ UNCHANGED <<running, mappings, health, recoverable, sync, drift, file,
                   table, history>>

-----------------------------------------------------------------------------
(* check_drift: compare the live table with desired state, report only.    *)
CheckDrift ==
    /\ Ready
    /\ health # "unhealthy"
    /\ Begin("check_drift", "read")
    /\ UNCHANGED <<running, volatile, file, table, history>>

DriftReadFail ==
    /\ At("check_drift", "read")
    /\ MarkUnhealthy(TRUE)
    /\ Return
    /\ UNCHANGED <<running, mappings, labels, sync, drift, file, table, history>>

DriftNone ==
    /\ At("check_drift", "read")
    /\ ~Differs(mappings, table)
    /\ drift' = FALSE
    /\ sync' = IF sync \in Degraded THEN "in_sync" ELSE sync
    /\ outside' = FALSE
    /\ partial' = FALSE
    /\ hidden' = hidden \ {"switch"}
    /\ Return
    /\ UNCHANGED <<running, mappings, labels, health, recoverable, file, table,
                   unsaved>>

DriftFound ==
    /\ At("check_drift", "read")
    /\ Differs(mappings, table)
    /\ drift' = TRUE
    /\ sync' = IF sync = "out_of_sync" THEN sync ELSE "drifted"
    /\ hidden' = IF sync = "out_of_sync" THEN hidden \cup {"switch"}
                 ELSE hidden \ {"switch"}
    /\ Return
    /\ UNCHANGED <<running, mappings, labels, health, recoverable, file, table,
                   outside, partial, unsaved>>

-----------------------------------------------------------------------------
(* The switch seen from outside: somebody edits the table, or switchd      *)
(* restarts and comes back with an empty one.                              *)
OutOfBand ==
    /\ \/ \E edit \in Edits : Set(edit[1], edit[2])
       \/ table' = EmptyTable
    /\ outside' = TRUE
    /\ UNCHANGED <<running, volatile, op, file, partial, unsaved, hidden>>

-----------------------------------------------------------------------------
Request ==
    \/ \E i, e \in Ports, force \in BOOLEAN : Connect(i, e, force)
    \/ \E i \in Ports : Disconnect(i)
    \/ Refresh
    \/ Push
    \/ Clear
    \/ \E new \in Labels : SetLabel(new)

Resume ==
    \/ ReconcileAdopt \/ ReconcileRefuse
    \/ ConnectDelete \/ ConnectWrite
    \/ DisconnectDelete
    \/ RefreshRead \/ RefreshFail
    \/ PushStatus \/ PushClear \/ PushClearFail
    \/ PushWrite \/ PushWriteFail \/ PushProbe
    \/ ClearTable
    \/ DriftReadFail \/ DriftNone \/ DriftFound
    \/ Save

Next ==
    \/ Boot \/ BootBadPortMap \/ Stop
    \/ Request
    \/ CheckDrift
    \/ Resume
    \/ OutOfBand

Spec == Init /\ [][Next]_vars

(* Device and file calls return, so a handler under way goes on; and the   *)
(* drift loop keeps coming back to a lock that asyncio hands out first     *)
(* come, first served.                                                     *)
Fairness == WF_vars(Resume) /\ SF_vars(CheckDrift)
FairSpec == Spec /\ Fairness

-----------------------------------------------------------------------------
(* Types, with the shape of a handler under way.                           *)

OpType ==
    [name : {"none", "reconcile", "connect", "disconnect", "refresh", "push",
             "clear", "set_label", "check_drift"},
     at : {"none", "load", "status", "delete", "write", "read", "clear",
           "probe", "save"},
     ingress : Ports \cup {NoPort}, egress : Ports \cup {NoPort},
     other : Ports \cup {NoPort}, left : SUBSET Ports, force : BOOLEAN]

(* A handler about to call the device has the ports of that call at hand.  *)
OpReady ==
    /\ At("connect", "delete") => op.other \in Ports
    /\ op.name = "connect" /\ op.at # "save" =>
          op.ingress \in Ports /\ op.egress \in Ports
    /\ op.name = "disconnect" /\ op.at # "save" => op.ingress \in Ports
    /\ op.left \subseteq Patched(mappings)

(* Every variable holds a value the code can put there.                    *)
TypeOK ==
    /\ running \in BOOLEAN
    /\ mappings \in Patch
    /\ labels \in Labels
    /\ health \in {"healthy", "unhealthy"}
    /\ recoverable \in BOOLEAN
    /\ sync \in Syncs
    /\ drift \in BOOLEAN
    /\ file \in [patch : Patch, labels : Labels] \cup {Unfit}
    /\ table \in Table
    /\ outside \in BOOLEAN
    /\ partial \in BOOLEAN
    /\ unsaved \in BOOLEAN
    /\ hidden \subseteq {"switch", "file"}
    /\ op \in OpType
    /\ OpReady

-----------------------------------------------------------------------------
(* Safety.                                                                 *)

(* What the device should hold at this point of the handler under way:     *)
(* entries a replay has still to write are not there, the entry a forced   *)
(* connect has deleted is not there any more.                              *)
Absent == op.left \cup (IF At("connect", "write") THEN {op.other} ELSE {})
Expected == [p \in Ports |-> IF p \in Absent THEN NoPort ELSE mappings[p]]

(* Unless the table changed unseen or a replay stopped half way, the       *)
(* switch holds exactly the connections in memory, at rest and, up to what *)
(* the handler under way has still to do, between its calls: no error path *)
(* of connect, disconnect, push, clear or refresh lets them part.          *)
DeviceTracksMemory ==
    ~outside /\ ~partial => Agrees(Expected, table)

(* Unless the table changed unseen, the switch holds nothing that desired  *)
(* state does not ask for, also after a replay that stopped half way and   *)
(* whatever was connected and disconnected since.                          *)
NothingUnasked ==
    ~outside => Within(Expected, table)

(* A controller that adopted its state file and whose last save did not    *)
(* raise has on disk what it has in memory, but while it saves: no         *)
(* operation, failed ones included, changes desired state and returns, or  *)
(* goes back to the device, without saving it. A crash thus takes the      *)
(* request that was being saved and nothing else.                          *)
MemoryIsSaved ==
    running /\ recoverable /\ ~unsaved /\ op.at \notin {"load", "save"}
        => file = Saved

(* in_sync is true of a healthy controller at rest: file and memory agree, *)
(* no drift delta is outstanding, and the switch, unless it changed        *)
(* unseen, agrees as well. It may be untrue of the file only after a push  *)
(* wrote over the out_of_sync of a failed save, and of the switch only     *)
(* after an out_of_sync stood in the place of partial_sync or drifted.     *)
InSyncIsTrue ==
    Ready /\ health = "healthy" /\ sync = "in_sync" =>
        /\ "file" \notin hidden => file = Saved
        /\ "switch" \notin hidden => ~drift /\ (outside \/ Agrees(mappings, table))

(* If desired state is one to one, no two entries of the switch send to    *)
(* one egress port, in the middle of a forced connect or of a replay too,  *)
(* unless the table changed unseen.                                        *)
DeviceOneToOne ==
    ~outside /\ OneToOne(mappings) => OneToOne(table)

(* What makes the device properties inductive: entries are left to write   *)
(* in a replay only, and a process that is down, or has not adopted its    *)
(* state file yet, takes the table for changed.                            *)
Steady ==
    /\ op.left # {} => At("push", "write")
    /\ ~running => op = NoOp
    /\ ~running \/ At("reconcile", "load") => outside

DeviceInv == TypeOK /\ Steady /\ DeviceTracksMemory /\ NothingUnasked

(* What makes MemoryIsSaved inductive: a refused start only ever saves     *)
(* labels, so it never comes to act on the mappings it did not load.       *)
Refused ==
    ~recoverable =>
        /\ running
        /\ health = "unhealthy"
        /\ Idle \/ At("set_label", "save")

SavedInv == TypeOK /\ Steady /\ Refused /\ MemoryIsSaved

(* What the action properties need of the handlers: what connect found     *)
(* before its first call still holds at the next, and a replay that is     *)
(* under way, or a pull or a clear about to be saved, is not a broken one. *)
HandlerInv ==
    /\ DeviceInv
    /\ op.name = "connect" /\ op.at # "save" =>
          /\ op.other # NoPort => op.other \in Rivals(op.ingress, op.egress)
          /\ op.other = NoPort => Rivals(op.ingress, op.egress) = {}
          /\ ~op.force => op.other = NoPort /\ mappings[op.ingress] = NoPort
    /\ At("push", "write") \/ At("refresh", "save") \/ At("clear", "save")
          => ~partial

(* What makes InSyncIsTrue inductive: a trouble that is not hidden shows,   *)
(* of the switch while healthy and not in the middle of a handler that is  *)
(* about to say or to settle it; and a pull about to be saved has none.    *)
Told ==
    /\ unsaved /\ "file" \notin hidden => sync = "out_of_sync"
    /\ health = "healthy" /\ (partial \/ drift) /\ "switch" \notin hidden
          => \/ sync \in Degraded
             \/ At("push", "probe") \/ At("clear", "save")
    /\ At("refresh", "save") => ~drift

(* Action properties.                                                      *)

AdoptsIfLosesOneToOne ==
    OneToOne(mappings) /\ ~OneToOne(mappings') => op.name \in {"refresh", "reconcile"}

(* Desired state stops being one to one only by adopting a table or a file *)
(* that is not: no connect, failed or not, brings it about.                *)
OneToOneLostByAdoption == [][AdoptsIfLosesOneToOne]_vars

RemovesNothingUnforced ==
    op.name = "connect" /\ ~op.force /\ op' # op /\ running'
        => /\ \A p \in Patched(mappings) : mappings'[p] = mappings[p]
           /\ \/ outside
              \/ \A d \in DevPorts : table[d] # NoPort => table'[d] = table[d]

(* A connect that was not forced takes away no connection: not from        *)
(* desired state, nor, if the table did not change unseen, from the        *)
(* switch.                                                                 *)
UnforcedRemovesNothing == [][RemovesNothingUnforced]_vars

TakesTheLeast ==
    op.name = "connect" /\ mappings' # mappings /\ running'
        => \A other \in Patch :
              OneToOne(other) /\ other[op.ingress] = op.egress
                  => Lost(mappings, mappings') \subseteq Lost(mappings, other)

(* A connect, forced or not, also one whose write failed, takes away no    *)
(* connection that any one-to-one patch with the new connection in it      *)
(* could keep.                                                             *)
ConnectTakesTheLeast == [][TakesTheLeast]_vars

PromotesOnAgreement ==
    sync \in Degraded /\ sync' = "in_sync" /\ running'
        => outside' \/ Agrees(mappings', table')

(* partial_sync and drifted give way to in_sync only when the switch holds *)
(* what desired state says, as far as the controller can see.              *)
DegradedNotPromoted == [][PromotesOnAgreement]_vars

KeepsRefusal ==
    running /\ running' /\ ~recoverable
        => ~recoverable' /\ (op' # op => table' = table)

(* A start that was refused (bad port map, unfit state file) stays refused *)
(* until the process is restarted, and no operation touches the switch.    *)
RefusedStaysRefused == [][KeepsRefusal]_vars

(* The device and file calls a handler may still make, the one it waits on *)
(* included; a question whether the device answers counts as one call.     *)
CallsAhead(o) ==
    CASE o.at = "none" -> 0
      [] o.at \in {"save", "probe"} -> 1
      [] o.at \in {"read", "clear"} /\ o.name # "push" -> 2
      [] o.at = "write" /\ o.name # "push" -> 2
      [] o.at = "delete" -> 3
      [] o.at = "write" /\ o.name = "push" -> Cardinality(o.left) + 1
      [] o.at = "clear" /\ o.name = "push" -> Cardinality(Ports) + 2
      [] o.at = "status" -> Cardinality(Ports) + 3
      [] o.at = "load" -> Cardinality(Ports) + 4

(* Whatever fails, every call that returns leaves its handler fewer calls  *)
(* to make: nobody holds the lock for more than one call per port and four *)
(* others.                                                                 *)
CallsRunOut == [][Resume => CallsAhead(op') < CallsAhead(op)]_vars

-----------------------------------------------------------------------------
(* What clients see: the request that holds the lock, until it has had its *)
(* effect on the patch and nothing but the reply (and a save) is left.     *)
Bound(name) ==
    [name |-> name, ingress |-> op.ingress, egress |-> op.egress,
     force |-> op.force]
Bare(name) ==
    [name |-> name, ingress |-> NoPort, egress |-> NoPort, force |-> FALSE]

Serving ==
    IF op.name = "none" THEN Bare("free")
    ELSE IF op.at = "save" THEN Bare("settled")
    ELSE IF op.name \in {"connect", "disconnect"} THEN Bound(op.name)
    ELSE IF op.name = "clear" THEN Bare("clear")
    ELSE IF op.name \in {"refresh", "reconcile"} THEN Bare("adopt")
    ELSE Bare("settled")

Bay == INSTANCE Patchbay WITH patch <- mappings, serving <- Serving

(* Whatever happens between the calls of a handler, every request acts on  *)
(* the patch at one instant and on what it was checked against: the        *)
(* controller implements Patchbay.                                         *)
ImplementsPatchbay == Bay!Spec

-----------------------------------------------------------------------------
(* Liveness, under FairSpec.                                               *)

(* Every handler gives the lock back, or the process ends.                 *)
HandlersFinish == ~Idle ~> Idle

(* A switch that disagrees with desired state does not stay unnoticed: the *)
(* drift check reports it, or finds the device unreadable and says so,     *)
(* unless the two come to agree or the process ends first.                 *)
DriftNoticed ==
    running /\ ~Agrees(mappings, table)
        ~> \/ drift /\ sync \in {"drifted", "out_of_sync"}
           \/ health = "unhealthy"
           \/ Agrees(mappings, table)
           \/ ~running

=============================================================================
