---------------------------- MODULE DurableFile ----------------------------
(***************************************************************************)
(* What the controller counts on when it saves its state: a register whose *)
(* writes take effect as a whole or not at all, are durable once they are  *)
(* acknowledged, and may or may not have taken effect if they raised. Only *)
(* a power cut shows the difference between written and durable.           *)
(***************************************************************************)
CONSTANTS
    Contents,   \* what the file may hold, its absence included
    Nothing     \* no save is under way

VARIABLES
    now,        \* what a process that opens the file reads
    may,        \* what it may read after a power cut
    saving,     \* the content being saved, or Nothing
    told        \* what the caller knows of its last save: "saved" or "unknown"

file == <<now, may, saving, told>>

Init ==
    /\ now \in Contents
    /\ may = {now}
    /\ saving = Nothing
    /\ told = "saved"

Begin ==
    /\ saving = Nothing
    /\ saving' \in Contents
    /\ told' = "unknown"
    /\ UNCHANGED <<now, may>>

TakeEffect ==
    /\ saving # Nothing
    /\ now' = saving
    /\ may' = may \cup {saving}
    /\ UNCHANGED <<saving, told>>

Acknowledge ==
    /\ saving # Nothing
    /\ now = saving
    /\ may' = {saving}
    /\ saving' = Nothing
    /\ told' = "saved"
    /\ UNCHANGED now

(* The save raised, or the process died in it.                             *)
GiveUp ==
    /\ saving # Nothing
    /\ saving' = Nothing
    /\ UNCHANGED <<now, may, told>>

PowerCut ==
    /\ now' \in may
    /\ may' = {now'}
    /\ saving' = Nothing
    /\ UNCHANGED told

Next == Begin \/ TakeEffect \/ Acknowledge \/ GiveUp \/ PowerCut

Spec == Init /\ [][Next]_file

=============================================================================
