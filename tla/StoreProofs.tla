---------------------------- MODULE StoreProofs ----------------------------
(***************************************************************************)
(* save_state never leaves a file the next start cannot read, keeps what   *)
(* it acknowledged, sweeps up after crashes, and implements DurableFile.   *)
(***************************************************************************)
EXTENDS Store, TLAPS

LEMMA Kinds ==
    /\ Values \subseteq Contents
    /\ Contents \subseteq OnDisk
    /\ Absent \in Contents \ Values
    /\ Torn \in OnDisk \ Contents
    /\ Nothing \notin Contents
  BY StoreAssumption DEF Contents, OnDisk

LEMMA Start == Init => StoreInv
  BY Kinds
  DEF Init, StoreInv, TypeOK, Progress, NeverTorn, AcknowledgedIsDurable,
      LeftoversSwept

(* The call under way succeeds.                                            *)
LEMMA CallKeepsInv ==
    ASSUME StoreInv,
           (\E v \in Values : Begin(v)) \/ Sweep \/ Create \/ Write \/ Sync
    PROVE  StoreInv'
  <1> USE Kinds
      DEF StoreInv, TypeOK, Progress, NeverTorn, AcknowledgedIsDurable,
          LeftoversSwept, dir
  <1>1. CASE \E v \in Values : Begin(v)
    BY <1>1 DEF Begin
  <1>2. CASE Sweep
    BY <1>2 DEF Sweep, AfterSweep
  <1>3. CASE Create
    BY <1>3 DEF Create
  <1>4. CASE Write
    BY <1>4 DEF Write, AfterWrite
  <1>5. CASE Sync
    BY <1>5 DEF Sync
  <1> QED
    BY <1>1, <1>2, <1>3, <1>4, <1>5

(* The temp file takes the state file's place; the directory is synced.    *)
LEMMA CommitKeepsInv ==
    ASSUME StoreInv, Replace \/ SyncDir
    PROVE  StoreInv'
  <1> USE Kinds
      DEF StoreInv, TypeOK, Progress, NeverTorn, AcknowledgedIsDurable,
          LeftoversSwept
  <1>1. CASE Replace
    <2>1. temp = value /\ value \in Values /\ Reached = {value} /\ told = "unknown"
      BY <1>1 DEF Replace, Reached
    <2> QED
      BY <1>1, <2>1 DEF Replace
  <1>2. CASE SyncDir
    BY <1>2 DEF SyncDir, DirectorySynced
  <1> QED
    BY <1>1, <1>2

(* The save is cut off: by an exception, a crash or a power cut.           *)
LEMMA CutOffKeepsInv ==
    ASSUME StoreInv, Raise \/ Crash \/ PowerCut
    PROVE  StoreInv'
  <1> USE Kinds
      DEF StoreInv, TypeOK, Progress, NeverTorn, AcknowledgedIsDurable,
          LeftoversSwept
  <1>1. litter \in Nat /\ litter + Left <= 1 /\ Left \in {0, 1}
    BY DEF Left
  <1>2. CASE Raise
    <2>1. litter' \in Nat /\ litter' <= 1
      BY <1>1, <1>2 DEF Raise
    <2> QED
      BY <1>2, <2>1 DEF Raise
  <1>3. CASE Crash
    BY <1>1, <1>3 DEF Crash
  <1>4. CASE PowerCut
    <2>1. litter' \in Nat /\ litter' <= 1
      BY <1>1, <1>4 DEF PowerCut
    <2> QED
      BY <1>4, <2>1 DEF PowerCut
  <1> QED
    BY <1>2, <1>3, <1>4

THEOREM StoreInvariant == Spec => []StoreInv
  <1>1. StoreInv /\ [Next]_vars => StoreInv'
    <2> SUFFICES ASSUME StoreInv, [Next]_vars PROVE StoreInv'
      OBVIOUS
    <2>1. CASE UNCHANGED vars
      BY <2>1
      DEF StoreInv, TypeOK, Progress, NeverTorn, AcknowledgedIsDurable,
          LeftoversSwept, vars, dir
    <2> QED
      BY <2>1, CallKeepsInv, CommitKeepsInv, CutOffKeepsInv DEF Next
  <1> QED
    BY Start, <1>1, PTL DEF Spec

(* No crash and no power cut leaves a state file that the next start       *)
(* cannot read.                                                            *)
THEOREM NeverTornHolds == Spec => []NeverTorn
  <1>1. StoreInv => NeverTorn
    BY DEF StoreInv
  <1> QED
    BY <1>1, StoreInvariant, PTL

(* What save_state returned from is what a power cut leaves.               *)
THEOREM Durability == Spec => []AcknowledgedIsDurable
  <1>1. StoreInv => AcknowledgedIsDurable
    BY DEF StoreInv
  <1> QED
    BY <1>1, StoreInvariant, PTL

(* Temp files of crashed saves do not pile up.                             *)
THEOREM Sweeping == Spec => []LeftoversSwept
  <1>1. StoreInv => LeftoversSwept
    BY DEF StoreInv
  <1> QED
    BY <1>1, StoreInvariant, PTL

(* save_state implements the register the controller counts on.            *)
THEOREM SaveIsAtomic == Spec => FileSpec
  <1>1. Init => File!Init
    BY DEF Init, File!Init
  <1>2. StoreInv /\ [Next]_vars => [File!Next]_(File!file)
    <2> SUFFICES ASSUME StoreInv, [Next]_vars PROVE [File!Next]_(File!file)
      OBVIOUS
    <2> USE DEF StoreInv, TypeOK, Progress
    <2>1. ASSUME NEW v \in Values, Begin(v) PROVE File!Begin
      BY <2>1, Kinds DEF Begin, File!Begin, dir
    <2>2. CASE Sweep \/ Create \/ Write \/ Sync \/ UNCHANGED vars
      BY <2>2 DEF Sweep, Create, Write, Sync, vars, dir, File!file
    <2>3. ASSUME Replace PROVE File!TakeEffect
      BY <2>3, Kinds DEF Replace, Reached, File!TakeEffect
    <2>4. ASSUME SyncDir PROVE File!Acknowledge
      BY <2>4, Kinds DEF SyncDir, DirectorySynced, File!Acknowledge
    <2>5. ASSUME Raise \/ Crash PROVE File!GiveUp
      BY <2>5 DEF Raise, Crash, File!GiveUp
    <2>6. ASSUME PowerCut PROVE File!PowerCut
      BY <2>6 DEF PowerCut, File!PowerCut
    <2> QED
      BY <2>1, <2>2, <2>3, <2>4, <2>5, <2>6 DEF Next, File!Next
  <1> QED
    BY <1>1, <1>2, StoreInvariant, PTL DEF Spec, FileSpec, File!Spec

=============================================================================
