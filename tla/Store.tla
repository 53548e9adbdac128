------------------------------- MODULE Store -------------------------------
(***************************************************************************)
(* Store.save_state of app/store.py, call by call, on a file system that   *)
(* keeps in memory what was not synced: a process crash keeps all of it, a *)
(* power cut may lose it. One save at a time: the controller's lock is     *)
(* held around it. Any call may raise, and the `finally' that removes the  *)
(* temp file may itself fail.                                              *)
(***************************************************************************)
EXTENDS Naturals

CONSTANTS
    Values,     \* states that a save writes
    Absent,     \* no file under this name
    Torn,       \* a file cut short, which json.load rejects
    Nothing     \* no save is under way

ASSUME StoreAssumption ==
    /\ Torn \notin Values \cup {Absent}
    /\ Nothing \notin Values \cup {Absent}
    /\ Absent \notin Values

VARIABLES
    at,         \* the next call of save_state
    value,      \* the state being saved, or Nothing
    told,       \* what the caller knows of its last save
    temp,       \* content of the temp file of this save
    data,       \* where the temp file's content is: "cached" or "synced"
    litter,     \* how many temp files of earlier saves lie about
    path,       \* content of the state file as processes see it
    survives    \* contents it may have after a power cut

dir == <<temp, data, litter, path, survives>>
vars == <<at, value, told, dir>>

(* What the name may hold by the repository's own doing, and what a file    *)
(* may hold.                                                               *)
Contents == Values \cup {Absent}
OnDisk == Contents \cup {Torn}

Init ==
    /\ at = "idle"
    /\ value = Nothing
    /\ told = "saved"
    /\ temp = Absent
    /\ data = "cached"
    /\ litter \in 0..1
    /\ path \in Contents
    /\ survives = {path}

Begin(v) ==
    /\ at = "idle"
    /\ at' = "sweep"
    /\ value' = v
    /\ told' = "unknown"
    /\ UNCHANGED dir

LeaveLitter == litter \* mutant
AfterSweep == 0

Sweep ==
    /\ at = "sweep"
    /\ at' = "create"
    /\ litter' = AfterSweep
    /\ UNCHANGED <<value, told, temp, data, path, survives>>

(* An empty file is no JSON text either.                                   *)
Create ==
    /\ at = "create"
    /\ at' = "write"
    /\ temp' = Torn
    /\ data' = "cached"
    /\ UNCHANGED <<value, told, litter, path, survives>>

ReplaceUnsynced == "replace" \* mutant
AfterWrite == "sync"

Write ==
    /\ at = "write"
    /\ at' = AfterWrite
    /\ temp' = value
    /\ UNCHANGED <<value, told, data, litter, path, survives>>

Sync ==
    /\ at = "sync"
    /\ at' = "replace"
    /\ data' = "synced"
    /\ UNCHANGED <<value, told, temp, litter, path, survives>>

(* os.replace is atomic for every process; on disk it may come before the  *)
(* data of a file that was not synced.                                     *)
Reached == {temp} \cup (IF data = "synced" THEN {} ELSE {Torn})

Replace ==
    /\ at = "replace"
    /\ at' = "syncdir"
    /\ path' = temp
    /\ survives' = survives \cup Reached
    /\ temp' = Absent
    /\ UNCHANGED <<value, told, data, litter>>

ForgetDirectory == survives \* mutant
DirectorySynced == {path}

SyncDir ==
    /\ at = "syncdir"
    /\ at' = "idle"
    /\ survives' = DirectorySynced
    /\ value' = Nothing
    /\ told' = "saved"
    /\ UNCHANGED <<temp, data, litter, path>>

(* The temp file of this save, if it is there and stays.                   *)
Left == IF temp # Absent THEN 1 ELSE 0

(* A call raised. The sweep may have come some way; `finally' unlinks the  *)
(* temp file, or fails to.                                                 *)
Raise ==
    /\ at # "idle"
    /\ at' = "idle"
    /\ value' = Nothing
    /\ temp' = Absent
    /\ litter' \in IF at = "sweep" THEN 0..litter ELSE litter..(litter + Left)
    /\ UNCHANGED <<told, data, path, survives>>

(* The process dies: the kernel keeps what it was given.                   *)
Crash ==
    /\ at # "idle"
    /\ at' = "idle"
    /\ value' = Nothing
    /\ temp' = Absent
    /\ litter' = litter + Left
    /\ UNCHANGED <<told, data, path, survives>>

(* A name that was removed does not come back; one just made may be lost.  *)
PowerCut ==
    /\ at' = "idle"
    /\ value' = Nothing
    /\ temp' = Absent
    /\ litter' \in 0..(litter + Left)
    /\ path' \in survives
    /\ survives' = {path'}
    /\ UNCHANGED <<told, data>>

Next ==
    \/ \E v \in Values : Begin(v)
    \/ Sweep \/ Create \/ Write \/ Sync \/ Replace \/ SyncDir
    \/ Raise
    \/ Crash
    \/ PowerCut

Spec == Init /\ [][Next]_vars

-----------------------------------------------------------------------------
TypeOK ==
    /\ at \in {"idle", "sweep", "create", "write", "sync", "replace", "syncdir"}
    /\ value \in Values \cup {Nothing}
    /\ told \in {"saved", "unknown"}
    /\ temp \in OnDisk
    /\ data \in {"cached", "synced"}
    /\ litter \in Nat
    /\ path \in OnDisk
    /\ survives \subseteq OnDisk
    /\ path \in survives

(* Neither a crash nor a power cut, at any call of any save, leaves a file *)
(* that the next start cannot read.                                        *)
NeverTorn == Torn \notin survives

(* A save that was acknowledged stays saved: between saves, a power cut    *)
(* cannot bring back an older state.                                       *)
AcknowledgedIsDurable == told = "saved" => survives = {path}

(* Temp files that crashes leave behind do not pile up: at most the last   *)
(* one lies about.                                                         *)
LeftoversSwept == litter <= 1

(* What a save has at hand between its calls; makes the rest inductive.    *)
Progress ==
    /\ at = "idle" <=> value = Nothing
    /\ at \in {"idle", "sweep", "create", "syncdir"} => temp = Absent
    /\ at \in {"sync", "replace"} => temp = value
    /\ at = "replace" => data = "synced"
    /\ at = "syncdir" => path = value
    /\ at \notin {"idle", "sweep"} => litter = 0
    /\ at # "idle" => told = "unknown"

StoreInv ==
    TypeOK /\ Progress /\ NeverTorn /\ AcknowledgedIsDurable /\ LeftoversSwept

(* save_state is what the controller takes it for: a register with atomic, *)
(* and once acknowledged durable, writes.                                  *)
File == INSTANCE DurableFile
            WITH now <- path, may <- survives, saving <- value
FileSpec == File!Spec

=============================================================================
