-------------------------- MODULE ControllerClaims --------------------------
(***************************************************************************)
(* What the repository's README, hand-off note, comments and tests say of  *)
(* the controller and the code does not do. Each statement is checked by a *)
(* run of its own that is expected to find it violated; the README of this *)
(* project tells each counterexample as a story.                           *)
(***************************************************************************)
EXTENDS Controller

(* README.md:25, "Strict 1:1 semantics. One ingress maps to at most one    *)
(* egress and vice versa." refresh adopts a table in which two ingress     *)
(* ports share an egress without looking.                                  *)
MappingsOneToOne == OneToOne(mappings)

(* polista-handoff.md:292, "`in_sync` -- Tofino and JSON aligned." Of the  *)
(* file half, what hurts most: under in_sync every connection is one that  *)
(* the file has and the next start brings back. A push ends in in_sync     *)
(* without a save, and so takes back the out_of_sync that an earlier       *)
(* failed save had raised.                                                 *)
InSyncMeansSaved ==
    Ready /\ recoverable /\ sync = "in_sync" =>
        file # Unfit /\ Lost(mappings, file.patch) = {}

(* tests/test_checkpoint6.py:166, "a successful set_label persist must not *)
(* clear partial_sync", and the Tofino half of polista-handoff.md:292. A   *)
(* save that fails turns partial_sync or drifted into out_of_sync, and the *)
(* next one that succeeds turns that into in_sync.                         *)
InSyncMeansOnDevice ==
    Ready /\ health = "healthy" /\ sync = "in_sync" /\ ~outside
        => Agrees(mappings, table)

(* polista-handoff.md:277, "load mappings JSON. Any parse/validate failure *)
(* -> `unhealthy`, stop.", and README.md:156-157, which keeps such a start *)
(* refused. set_label asks nothing of health: it saves the empty mappings  *)
(* of the refused start over the file it could not adopt, and the next     *)
(* start clears the switch in good health.                                 *)
RefusedStartKeepsFile ==
    [][running /\ ~recoverable => file' = file]_vars

(* The drift loop on its own, with nobody at the panel; edits of the table *)
(* come to an end.                                                         *)
Unattended == Boot \/ CheckDrift \/ Resume \/ OutOfBand
UnattendedSpec ==
    Init /\ [][Unattended]_vars /\ Fairness /\ <>[][~OutOfBand]_vars

(* README.md:34-36, "an out-of-band `bfshell` edit or a `bf_switchd`       *)
(* restart turns the status LED amber and names the delta". One read that  *)
(* fails marks the controller unhealthy, and an unhealthy controller never *)
(* compares again, though the device answers.                              *)
DriftNamed ==
    Ready /\ health = "healthy" /\ sync = "in_sync" /\ ~Agrees(mappings, table)
        ~> drift \/ Agrees(mappings, table) \/ ~running

=============================================================================
