---------------------------- MODULE PanelClaims -----------------------------
(***************************************************************************)
(* What the README says of the panel and the code does not keep, checked   *)
(* by a run of its own that is expected to find it violated.               *)
(***************************************************************************)
EXTENDS Panel

(* README.md:127-128, "a dialog tells you exactly which mappings would be  *)
(* removed before anything changes", and README.md:26. Of that, that none  *)
(* goes but those the dialog told of. The confirmation carries the two     *)
(* ports and force=true, not the list that was shown: what it removes is   *)
(* decided anew, on a patch that may have changed since.                   *)
DialogExact ==
    [][\A s \in Sources :
         Served(s) /\ wire[s].name = "force" /\ wire'[s].at = "ports"
             => Lost(patch, patch') \subseteq wire[s].names]_vars

=============================================================================
