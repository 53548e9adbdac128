------------------------------- MODULE Panel -------------------------------
(***************************************************************************)
(* One browser at the panel: app/routes/ui.py, app/static/lines.js and the *)
(* templates, over a controller that serves one request at a time.         *)
(*                                                                         *)
(* A click means connect or disconnect by the page it is made on; the      *)
(* server decides by its patch at the time it serves the request; the      *)
(* reply is swapped into a page that may have moved on. A dialog lists     *)
(* what a confirmation would remove, and is confirmed later. Other         *)
(* browsers, scripts, pulls and starts change the patch in between.        *)
(*                                                                         *)
(* A request is one step of the server: Patchbay, which the controller     *)
(* implements, is why. What the browser does with replies is htmx 1.9 as   *)
(* the templates use it: a source has one request out; of the gestures     *)
(* made meanwhile the last one waits; an error reply changes nothing; a    *)
(* reply whose target was replaced meanwhile shows nothing, though what it *)
(* carries for the dialog is applied.                                      *)
(***************************************************************************)
EXTENDS Patches, FiniteSets, Naturals

CONSTANTS
    Choices,    \* bound: the pairs of ports the operator clicks
    Elsewhere,  \* bound: the patches others, and pulls, leave behind
    MaxOut      \* bound: requests and replies under way at a time

ASSUME PanelAssumption ==
    /\ IsFiniteSet(Ports)
    /\ Choices \subseteq Ports \X Ports
    /\ Elsewhere \subseteq Patch

VARIABLES
    patch,      \* desired state at the server
    page,       \* data-mapped-egress of the ports on the page
    dialog,     \* the reply that #dialog shows, Quiet if empty
    wire,       \* what each source of requests has under way, Quiet if nothing
    queued,     \* the gesture that waits for the one under way
    disturbed   \* history: why the page may be out of date, since it was loaded

vars == <<patch, page, dialog, wire, queued, disturbed>>

(* A gesture is a completed pair of clicks; a dialog has its one button;   *)
(* `other' is the menu or a label.                                         *)
Sources == {"gesture", "dialog", "other"}

(* A request (at = "request") or a reply (at = what it renders). `names'   *)
(* and `count' are what a dialog tells, `base' is the patch it was         *)
(* rendered from; `live': the element it targets is still on the page.     *)
Message(at, name, ingress, egress) ==
    [at |-> at, name |-> name, ingress |-> ingress, egress |-> egress,
     names |-> {}, count |-> 0, base |-> NoPatch, live |-> TRUE]
Quiet == Message("quiet", "none", NoPort, NoPort)

OnPorts == {"connect", "force", "disconnect", "label"}
OnPanel == {"push", "pull", "clear"}

Under == {s \in Sources : wire[s] # Quiet}
Silent == Under = {} /\ queued = Quiet

-----------------------------------------------------------------------------
Init ==
    /\ patch \in Elsewhere
    /\ page = patch
    /\ dialog = Quiet
    /\ wire = [s \in Sources |-> Quiet]
    /\ queued = Quiet
    /\ disturbed = FALSE

-----------------------------------------------------------------------------
(* The operator.                                                           *)

Send(s, message) ==
    /\ wire[s] = Quiet
    /\ Cardinality(Under) < MaxOut
    /\ wire' = [wire EXCEPT ![s] = message]
    /\ disturbed' = (disturbed \/ ~Silent)

(* The second click of a pair: disconnect the pair the page shows, else    *)
(* connect. Behind a gesture under way it takes the place of one waiting.  *)
Meaning(ingress, egress) ==
    Message("request", IF page[ingress] = egress THEN "disconnect" ELSE "connect",
            ingress, egress)

Gesture(ingress, egress) ==
    /\ \/ /\ Send("gesture", Meaning(ingress, egress))
          /\ UNCHANGED queued
       \/ /\ wire["gesture"] # Quiet
          /\ queued' = Meaning(ingress, egress)
          /\ disturbed' = TRUE
          /\ UNCHANGED wire
    /\ UNCHANGED <<patch, page, dialog>>

(* The button of a dialog: force the connection, or clear.                 *)
Confirm ==
    /\ dialog # Quiet
    /\ Send("dialog",
            [dialog EXCEPT !.at = "request",
                           !.name = IF dialog.at = "conflict" THEN "force" ELSE "clear"])
    /\ UNCHANGED <<patch, page, dialog, queued>>

Cancel ==
    /\ dialog # Quiet
    /\ dialog' = Quiet
    /\ UNCHANGED <<patch, page, wire, queued, disturbed>>

(* Push, pull and "clear all" of the menu, and an edited label.            *)
Choose(name) ==
    /\ Send("other", Message("request", name, NoPort, NoPort))
    /\ UNCHANGED <<patch, page, dialog, queued>>

(* A new page. Requests given up are served all the same: as if by others. *)
Reload ==
    /\ page' = patch
    /\ dialog' = Quiet
    /\ wire' = [s \in Sources |-> Quiet]
    /\ queued' = Quiet
    /\ disturbed' = FALSE
    /\ UNCHANGED patch

-----------------------------------------------------------------------------
(* The server. A reply keeps of its request where it goes, and is rendered *)
(* from the patch as the request left it.                                  *)
RenderedBefore(s, at, after) == \* mutant
    [Message(at, wire[s].name, NoPort, NoPort) EXCEPT !.base = patch, !.live = wire[s].live]
Rendered(s, at, after) ==
    [Message(at, wire[s].name, NoPort, NoPort) EXCEPT !.base = after, !.live = wire[s].live]

Answer(s, at) == wire' = [wire EXCEPT ![s] = Rendered(s, at, patch')]

(* 400, 401, 503: nothing was done, or nothing but a rival's removal.      *)
Fail(s) ==
    /\ wire' = [wire EXCEPT ![s] = Message("error", wire[s].name, NoPort, NoPort)]
    /\ disturbed' = TRUE

Asks(s, names) == wire[s].at = "request" /\ wire[s].name \in names

Refuse(s) ==
    /\ wire[s].at = "request"
    /\ Fail(s)
    /\ UNCHANGED <<patch, page, dialog, queued>>

PairsAt(ports) == {<<p, patch[p]>> : p \in ports}
NamesOwnOnly(ingress, other) == PairsAt(PreviewIn(patch, ingress, NoPort)) \* mutant
Names(ingress, other) == PairsAt(PreviewIn(patch, ingress, other))

Conflict(s, other) ==
    wire' = [wire EXCEPT ![s] =
                [Message("conflict", "ask", @.ingress, @.egress) EXCEPT
                    !.names = Names(wire[s].ingress, other), !.base = patch]]

NeverAsk(s, other) == FALSE \* mutant
AskAlways(s, other) == wire[s].name = "connect" \* mutant
MustAsk(s, other) ==
    PreviewIn(patch, wire[s].ingress, other) # {} /\ wire[s].name = "connect"

ServeConnect(s) ==
    /\ Asks(s, {"connect", "force"})
    /\ \E other \in GivesWay(patch, wire[s].ingress, wire[s].egress) :
          IF patch[wire[s].ingress] = wire[s].egress /\ other = NoPort
          THEN UNCHANGED <<patch, disturbed>> /\ Answer(s, "ports")
          ELSE IF MustAsk(s, other)
          THEN Conflict(s, other) /\ UNCHANGED <<patch, disturbed>>
          ELSE \/ /\ patch' = Connected(patch, wire[s].ingress, wire[s].egress, other)
                  /\ Answer(s, "ports")
                  /\ UNCHANGED disturbed
               \/ /\ patch' \in {patch, Without(patch, other)}
                  /\ Fail(s)
    /\ UNCHANGED <<page, dialog, queued>>

AnyEgress(s) == patch[wire[s].ingress] # NoPort \* mutant
Exists(s) == patch[wire[s].ingress] = wire[s].egress

ServeDisconnect(s) ==
    /\ Asks(s, {"disconnect"})
    /\ Exists(s)
    /\ patch' = Without(patch, wire[s].ingress)
    /\ Answer(s, "ports")
    /\ UNCHANGED <<page, dialog, queued, disturbed>>

ServeOther(s) ==
    /\ \/ Asks(s, {"label"}) /\ patch' = patch /\ Answer(s, "ports")
       \/ Asks(s, {"push"}) /\ patch' = patch /\ Answer(s, "panel")
       \/ Asks(s, {"pull"}) /\ patch' \in Elsewhere /\ Answer(s, "panel")
       \/ Asks(s, {"clear"}) /\ patch' = NoPatch /\ Answer(s, "panel")
    /\ UNCHANGED <<page, dialog, queued, disturbed>>

(* "Clear all" first asks how many there are.                              *)
ServeAsk(s) ==
    /\ Asks(s, {"ask"})
    /\ wire' = [wire EXCEPT ![s] =
                   [Message("clear", "ask", NoPort, NoPort) EXCEPT
                       !.count = Cardinality(Patched(patch)), !.base = patch]]
    /\ UNCHANGED <<patch, page, dialog, queued, disturbed>>

Serve(s) ==
    Refuse(s) \/ ServeConnect(s) \/ ServeDisconnect(s) \/ ServeOther(s) \/ ServeAsk(s)

Others ==
    /\ patch' \in Elsewhere \ {patch}
    /\ disturbed' = TRUE
    /\ UNCHANGED <<page, dialog, wire, queued>>

-----------------------------------------------------------------------------
(* Replies arrive. A gesture that waits goes out behind the reply to the   *)
(* one before it; what targeted a replaced element is dead.                *)
Dead(message, names) ==
    IF message.name \in names THEN [message EXCEPT !.live = FALSE] ELSE message

Arrive(s, names) ==
    LET next == IF s = "gesture" THEN queued ELSE Quiet
    IN  /\ wire' = [t \in Sources |->
                       IF t = s THEN Dead(next, names) ELSE Dead(wire[t], names)]
        /\ queued' = IF s = "gesture" THEN Quiet ELSE Dead(queued, names)
        /\ UNCHANGED <<patch, disturbed>>

(* Replies that swap #ports empty the dialog as well, those that swap      *)
(* #panel leave it as it is.                                               *)
ArrivePorts(s) ==
    /\ wire[s].at = "ports"
    /\ dialog' = Quiet
    /\ page' = IF wire[s].live THEN wire[s].base ELSE page
    /\ Arrive(s, IF wire[s].live THEN OnPorts ELSE {})

ArrivePanel(s) ==
    /\ wire[s].at = "panel"
    /\ page' = IF wire[s].live THEN wire[s].base ELSE page
    /\ Arrive(s, IF wire[s].live THEN OnPorts \cup OnPanel ELSE {})
    /\ UNCHANGED dialog

ArriveDialog(s) ==
    /\ wire[s].at \in {"conflict", "clear"}
    /\ dialog' = wire[s]
    /\ Arrive(s, {})
    /\ UNCHANGED page

ArriveError(s) ==
    /\ wire[s].at = "error"
    /\ Arrive(s, {})
    /\ UNCHANGED <<page, dialog>>

-----------------------------------------------------------------------------
Next ==
    \/ \E choice \in Choices : Gesture(choice[1], choice[2])
    \/ Confirm \/ Cancel \/ Reload
    \/ \E name \in {"push", "pull", "label", "ask"} : Choose(name)
    \/ \E s \in Sources : Serve(s)
    \/ \E s \in Sources :
          ArrivePorts(s) \/ ArrivePanel(s) \/ ArriveDialog(s) \/ ArriveError(s)
    \/ Others

Spec == Init /\ [][Next]_vars

-----------------------------------------------------------------------------
(* Types, with what the parts of a message go with.                        *)
Messages ==
    [at : {"quiet", "request", "ports", "panel", "conflict", "clear", "error"},
     name : {"none", "connect", "force", "disconnect", "label", "push", "pull",
             "clear", "ask"},
     ingress : Ports \cup {NoPort}, egress : Ports \cup {NoPort},
     names : SUBSET (Ports \X Ports), count : Nat, base : Patch, live : BOOLEAN]

OnTwoPorts(m) == m.ingress \in Ports /\ m.egress \in Ports

WellFormed(m) ==
    /\ m.at = "request" /\ m.name \in {"connect", "force", "disconnect"} => OnTwoPorts(m)
    /\ m.at = "conflict" => OnTwoPorts(m) /\ m.names # {}

(* Every variable holds a value the code can put there; a conflict dialog  *)
(* names something; only behind a gesture under way does one wait.         *)
TypeOK ==
    /\ patch \in Patch
    /\ page \in Patch
    /\ dialog \in Messages /\ WellFormed(dialog)
    /\ dialog.at \in {"quiet", "conflict", "clear"}
    /\ wire \in [Sources -> Messages]
    /\ \A s \in Sources : WellFormed(wire[s])
    /\ queued \in Messages /\ WellFormed(queued)
    /\ queued.at \in {"quiet", "request"}
    /\ queued # Quiet => wire["gesture"] # Quiet
    /\ disturbed \in BOOLEAN

-----------------------------------------------------------------------------
(* Safety.                                                                 *)

(* The page shows desired state whenever nothing is under way, unless the  *)
(* operator acted again before the last reply, an error came back, or      *)
(* somebody else changed it since the page was loaded.                     *)
PageCurrent == Silent /\ ~disturbed => page = patch

(* A step that serves the request of s.                                    *)
Served(s) == wire[s].at = "request" /\ wire'[s] # wire[s] /\ wire'[s] # Quiet

MayLose(m) ==
    IF m.name \in {"pull", "clear"} THEN Ports \X Ports
    ELSE IF m.name = "disconnect" THEN {<<m.ingress, m.egress>>}
    ELSE IF m.name = "force"
    THEN {pair \in Ports \X Ports : pair[1] = m.ingress \/ pair[2] = m.egress}
    ELSE {}

LosesWithin == \A s \in Sources : Served(s) => Lost(patch, patch') \subseteq MayLose(wire[s])

(* However old the page or the dialog it was made on, a request takes away *)
(* nothing it was not about: a connecting click nothing, a disconnecting   *)
(* one the pair that was clicked, a confirmed connection only connections  *)
(* of its two ports; a label, a push and a question nothing.               *)
LosesOnlyAskedFor == [][LosesWithin]_vars

Keeps(s) ==
    Served(s) /\ patch = wire[s].base =>
        /\ wire[s].name = "force" /\ wire'[s].at = "ports" /\ OneToOne(patch)
              => Lost(patch, patch') = wire[s].names
        /\ wire[s].name = "clear" /\ wire'[s].at = "panel"
              => Cardinality(Lost(patch, patch')) = wire[s].count

(* A confirmed dialog does what it said if the patch is still, or again,   *)
(* the one it was rendered from: a connection removes exactly the ones     *)
(* listed, clear as many as counted.                                       *)
DialogsKept == [][\A s \in Sources : Keeps(s)]_vars

-----------------------------------------------------------------------------
(* The server is the controller: what the controller promises of a request *)
(* (Patchbay), for the request that source s has under way.                *)
Serving(s) ==
    LET request(name, ingress, egress, force) ==
            [name |-> name, ingress |-> ingress, egress |-> egress, force |-> force]
        bare(name) == request(name, NoPort, NoPort, FALSE)
    IN  CASE wire[s].at = "quiet" -> bare("free")
          [] Asks(s, {"connect", "force"}) ->
                request("connect", wire[s].ingress, wire[s].egress, wire[s].name = "force")
          [] Asks(s, {"disconnect"}) -> request("disconnect", wire[s].ingress, NoPort, FALSE)
          [] Asks(s, {"clear"}) -> bare("clear")
          [] Asks(s, {"pull"}) -> bare("adopt")
          [] OTHER -> bare("settled")

Bay(s) == INSTANCE Patchbay WITH serving <- Serving(s)

TakesEffect(s) ==
    Bay(s)!Connect \/ Bay(s)!ConnectHalf \/ Bay(s)!Disconnect \/ Bay(s)!Clear \/ Bay(s)!Adopt

Answered(s) == wire[s].at = "request" /\ wire'[s].at \notin {"quiet", "request"}

ServedRight(s) ==
    /\ TakesEffect(s) \/ UNCHANGED patch
    /\ wire'[s].at = "ports" =>
          /\ wire[s].name \in {"connect", "force"}
                => wire'[s].base[wire[s].ingress] = wire[s].egress
          /\ wire[s].name = "disconnect"
                => wire'[s].base[wire[s].ingress] = NoPort

(* A request is served as the controller serves it: it has at one instant  *)
(* an effect that Patchbay allows it on the patch of that instant, or none *)
(* at all, and the page that a connect or disconnect brings back shows it  *)
(* done.                                                                   *)
ServesAsPatchbay == [][\A s \in Sources : Answered(s) => ServedRight(s)]_vars

=============================================================================
