---------------------------- MODULE PanelProofs ----------------------------
(***************************************************************************)
(* Panel's properties for any ports, any clicks and any number of requests *)
(* under way.                                                              *)
(***************************************************************************)
EXTENDS Panel, FiniteSetTheorems, TLAPS

-----------------------------------------------------------------------------
(* What connecting, giving way and clearing take from a patch.             *)

LEMMA PatchTypes ==
    ASSUME NEW f \in Patch, NEW i \in Ports, NEW e \in Ports, NEW o \in Ports \cup {NoPort}
    PROVE  Without(f, o) \in Patch /\ Connected(f, i, e, o) \in Patch /\ NoPatch \in Patch
  BY DEF Patch, Without, Connected, NoPatch

LEMMA GivesWayType ==
    ASSUME NEW f, NEW i, NEW e, NEW o \in GivesWay(f, i, e)
    PROVE  o \in Ports \cup {NoPort}
  BY DEF GivesWay, RivalsIn

(* A pair lost is one that the patch had and the other one has not.        *)
LEMMA LostPair ==
    ASSUME NEW f \in Patch, NEW g \in Patch, NEW pair
    PROVE  pair \in Lost(f, g) <=>
              \E p \in Ports : pair = <<p, f[p]>> /\ f[p] # NoPort /\ g[p] # f[p]
  BY DEF Lost, Pairs, Patched, Patch

(* Connecting takes away the pairs of the two that it names, except one    *)
(* that is there already.                                                  *)
LEMMA LostByConnecting ==
    ASSUME NEW f \in Patch, NEW i \in Ports, NEW e \in Ports, NEW o \in GivesWay(f, i, e)
    PROVE  /\ \A pair : pair \in Lost(f, Connected(f, i, e, o)) <=>
                 \E p \in PreviewIn(f, i, o) : pair = <<p, f[p]>> /\ <<p, f[p]>> # <<i, e>>
           /\ \A pair : pair \in Lost(f, Without(f, o)) =>
                 \E p \in PreviewIn(f, i, o) : pair = <<p, f[p]>> /\ p = o /\ f[p] = e
  <1>1. o \in Ports \cup {NoPort} /\ Connected(f, i, e, o) \in Patch /\ Without(f, o) \in Patch
    BY PatchTypes, GivesWayType
  <1>2. o # NoPort => o \in Ports /\ o # i /\ f[o] = e
    BY DEF GivesWay, RivalsIn
  <1>3. ASSUME NEW p \in Ports
        PROVE  /\ Connected(f, i, e, o)[p] = IF p = i THEN e ELSE IF p = o THEN NoPort ELSE f[p]
               /\ Without(f, o)[p] = IF p = o THEN NoPort ELSE f[p]
    BY <1>1, <1>2, NoPortAssumption DEF Connected, Without, Patch
  <1>4. \A p : p \in PreviewIn(f, i, o) <=> p \in Ports /\ p \in {i, o} /\ f[p] # NoPort
    BY <1>1, NoPortAssumption DEF PreviewIn
  <1>5. ASSUME NEW pair
        PROVE  pair \in Lost(f, Connected(f, i, e, o)) <=>
                  \E p \in PreviewIn(f, i, o) : pair = <<p, f[p]>> /\ <<p, f[p]>> # <<i, e>>
    <2>1. pair \in Lost(f, Connected(f, i, e, o)) <=>
             \E p \in Ports : /\ pair = <<p, f[p]>> /\ f[p] # NoPort
                              /\ Connected(f, i, e, o)[p] # f[p]
      BY <1>1, LostPair
    <2>2. ASSUME NEW p \in Ports, f[p] # NoPort
          PROVE  Connected(f, i, e, o)[p] # f[p] <=> p \in {i, o} /\ <<p, f[p]>> # <<i, e>>
      BY <1>2, <1>3, <2>2
    <2>3. ASSUME pair \in Lost(f, Connected(f, i, e, o))
          PROVE  \E p \in PreviewIn(f, i, o) : pair = <<p, f[p]>> /\ <<p, f[p]>> # <<i, e>>
      <3>1. PICK p \in Ports : /\ pair = <<p, f[p]>> /\ f[p] # NoPort
                              /\ Connected(f, i, e, o)[p] # f[p]
        BY <2>1, <2>3
      <3>2. p \in {i, o} /\ <<p, f[p]>> # <<i, e>>
        BY <2>2, <3>1
      <3> QED
        BY <3>1, <3>2, <1>4
    <2>4. ASSUME \E p \in PreviewIn(f, i, o) : pair = <<p, f[p]>> /\ <<p, f[p]>> # <<i, e>>
          PROVE  pair \in Lost(f, Connected(f, i, e, o))
      <3>1. PICK p \in PreviewIn(f, i, o) : pair = <<p, f[p]>> /\ <<p, f[p]>> # <<i, e>>
        BY <2>4
      <3>2. p \in Ports /\ p \in {i, o} /\ f[p] # NoPort
        BY <1>4
      <3>3. Connected(f, i, e, o)[p] # f[p]
        BY <2>2, <3>1, <3>2
      <3> QED
        BY <2>1, <3>1, <3>2, <3>3
    <2> QED
      BY <2>3, <2>4
  <1>6. ASSUME NEW pair, pair \in Lost(f, Without(f, o))
        PROVE  \E p \in PreviewIn(f, i, o) : pair = <<p, f[p]>> /\ p = o /\ f[p] = e
    <2>1. PICK p \in Ports : pair = <<p, f[p]>> /\ f[p] # NoPort /\ Without(f, o)[p] # f[p]
      BY <1>1, <1>6, LostPair
    <2>2. p = o /\ f[p] = e
      BY <2>1, <1>2, <1>3, NoPortAssumption
    <2> QED
      BY <2>1, <2>2, <1>4
  <1> QED
    BY <1>5, <1>6

LEMMA NothingLostBySame ==
    ASSUME NEW f
    PROVE  Lost(f, f) = {}
  BY DEF Lost

(* In a one-to-one patch at most one has to give way.                      *)
LEMMA OneGivesWay ==
    ASSUME NEW f \in Patch, OneToOne(f), NEW i, NEW e \in Ports,
           NEW a \in GivesWay(f, i, e), NEW b \in GivesWay(f, i, e)
    PROVE  a = b
  BY NoPortAssumption DEF GivesWay, RivalsIn, OneToOne, Patch

(* Clearing takes one pair of every ingress port that is connected.        *)
LEMMA LostByClearing ==
    ASSUME NEW f \in Patch
    PROVE  /\ Cardinality(Patched(f)) \in Nat
           /\ Cardinality(Lost(f, NoPatch)) = Cardinality(Patched(f))
  <1>1. IsFiniteSet(Patched(f))
    <2>1. Patched(f) \subseteq Ports
      BY DEF Patched
    <2> QED
      BY <2>1, PanelAssumption, FS_Subset
  <1>2. Lost(f, NoPatch) = Pairs(f)
    BY DEF Lost, Pairs, Patched, NoPatch
  <1>3. ExistsBijection(Patched(f), Pairs(f))
    <2> DEFINE pairOf == [p \in Patched(f) |-> <<p, f[p]>>]
    <2>1. pairOf \in [Patched(f) -> Pairs(f)]
      BY DEF Pairs
    <2>2. \A a, b \in Patched(f) : pairOf[a] = pairOf[b] => a = b
      OBVIOUS
    <2>3. \A t \in Pairs(f) : \E s \in Patched(f) : pairOf[s] = t
      BY DEF Pairs
    <2> HIDE DEF pairOf
    <2>4. pairOf \in Bijection(Patched(f), Pairs(f))
      BY <2>1, <2>2, <2>3 DEF Bijection, Injection, Surjection, IsInjective
    <2> QED
      BY <2>4 DEF ExistsBijection
  <1> QED
    BY <1>1, <1>2, <1>3, FS_CardinalityType, FS_Bijection

-----------------------------------------------------------------------------
(* What a message says is so whatever happens afterwards: a dialog, and    *)
(* the request that confirms it, name what connecting (or clearing) the    *)
(* patch they were rendered from takes away; a reply meant for the dialog  *)
(* always has its place on the page; nothing but Quiet is quiet.           *)
Listing(m) ==
    m.at = "conflict" \/ (m.at = "request" /\ m.name = "force") =>
        \E other \in GivesWay(m.base, m.ingress, m.egress) :
            /\ m.names = {<<p, m.base[p]>> : p \in PreviewIn(m.base, m.ingress, other)}
            /\ ~(m.base[m.ingress] = m.egress /\ other = NoPort)
Counting(m) ==
    m.at = "clear" \/ (m.at = "request" /\ m.name = "clear") =>
        m.count = Cardinality(Patched(m.base))
Placed(m) ==
    /\ m.at \in {"conflict", "clear"} => m.name = "ask"
    /\ m.name = "ask" => m.live
    /\ m.at = "quiet" => m = Quiet

Sound(m) == m \in Messages /\ WellFormed(m) /\ Listing(m) /\ Counting(m) /\ Placed(m)

(* TypeOK, of sound messages.                                              *)
Shape ==
    /\ patch \in Patch /\ page \in Patch /\ disturbed \in BOOLEAN
    /\ Sound(dialog) /\ dialog.at \in {"quiet", "conflict", "clear"}
    /\ wire \in [Sources -> Messages] /\ \A s \in Sources : Sound(wire[s])
    /\ Sound(queued) /\ queued.at \in {"quiet", "request"}
    /\ queued # Quiet => wire["gesture"] # Quiet

(* Undisturbed there is one request or reply at a time; a reply that will  *)
(* be shown was rendered from the patch, all else leaves a current page.   *)
OnCourse(m) ==
    /\ m.live
    /\ \/ m.at \in {"ports", "panel"} /\ m.base = patch
       \/ m.at \in {"request", "conflict", "clear"} /\ page = patch

Course ==
    ~disturbed =>
        /\ queued = Quiet
        /\ \A s, t \in Sources : wire[s] # Quiet /\ wire[t] # Quiet => s = t
        /\ (\A s \in Sources : wire[s] = Quiet) => page = patch
        /\ \A s \in Sources : wire[s] # Quiet => OnCourse(wire[s])

IInv == Shape /\ Course

-----------------------------------------------------------------------------
(* The messages the code makes are sound.                                  *)

LEMMA QuietSound == Sound(Quiet) /\ Quiet.at = "quiet" /\ Quiet.live
  BY DEF Quiet, Message, Messages, Sound, WellFormed, Listing, Counting, Placed,
         NoPatch, Patch

LEMMA RequestSound ==
    ASSUME NEW name \in {"connect", "disconnect", "label", "push", "pull", "ask"},
           NEW i \in Ports \cup {NoPort}, NEW e \in Ports \cup {NoPort},
           name \in {"connect", "disconnect"} => i \in Ports /\ e \in Ports
    PROVE  LET m == Message("request", name, i, e)
           IN  Sound(m) /\ m.at = "request" /\ m.live
  BY DEF Message, Messages, Sound, WellFormed, OnTwoPorts, Listing, Counting,
         Placed,
         NoPatch, Patch

LEMMA ErrorSound ==
    ASSUME NEW m, Sound(m)
    PROVE  LET n == Message("error", m.name, NoPort, NoPort)
           IN  Sound(n) /\ n.at = "error"
  BY DEF Message, Messages, Sound, WellFormed, Listing, Counting, Placed, NoPatch,
         Patch

LEMMA RenderedSound ==
    ASSUME NEW s, Sound(wire[s]), NEW at \in {"ports", "panel"}, NEW after \in Patch
    PROVE  LET m == Rendered(s, at, after)
           IN  Sound(m) /\ m.at = at /\ m.base = after /\ m.live = wire[s].live
  BY DEF Rendered, Message, Messages, Sound, WellFormed, Listing, Counting, Placed,
         NoPatch, Patch

LEMMA ConfirmSound ==
    ASSUME NEW d, Sound(d), d.at \in {"conflict", "clear"}
    PROVE  LET m == [d EXCEPT !.at = "request",
                              !.name = IF d.at = "conflict" THEN "force" ELSE "clear"]
           IN  Sound(m) /\ m.at = "request" /\ m.live
  <1> DEFINE m == [d EXCEPT !.at = "request",
                            !.name = IF d.at = "conflict" THEN "force" ELSE "clear"]
  <1>1. /\ m \in Messages /\ m.at = "request"
        /\ m.name = IF d.at = "conflict" THEN "force" ELSE "clear"
        /\ m.ingress = d.ingress /\ m.egress = d.egress /\ m.names = d.names
        /\ m.count = d.count /\ m.base = d.base /\ m.live = d.live
    BY DEF Sound, Messages
  <1> HIDE DEF m
  <1>2. WellFormed(m) /\ Placed(m) /\ m.live
    BY <1>1 DEF Sound, WellFormed, OnTwoPorts, Placed
  <1>3. Listing(m)
    BY <1>1 DEF Sound, Listing
  <1>4. Counting(m)
    BY <1>1 DEF Sound, Counting
  <1> QED
    BY <1>1, <1>2, <1>3, <1>4 DEF Sound, m

LEMMA DeadSound ==
    ASSUME NEW m, Sound(m), NEW names, names \subseteq OnPorts \cup OnPanel
    PROVE  /\ Sound(Dead(m, names)) /\ Dead(m, names).at = m.at
           /\ Dead(m, names) = Quiet <=> m = Quiet
  <1>1. Sound(Dead(m, names)) /\ Dead(m, names).at = m.at
    <2> DEFINE d == Dead(m, names)
    <2>1. /\ d \in Messages /\ d.at = m.at /\ d.name = m.name /\ d.names = m.names
          /\ d.ingress = m.ingress /\ d.egress = m.egress
          /\ d.count = m.count /\ d.base = m.base
          /\ m.name \in {"ask", "none"} => d = m
      BY DEF Dead, Sound, Messages, OnPorts, OnPanel
    <2> HIDE DEF d
    <2>2. WellFormed(d) /\ Placed(d)
      BY <2>1 DEF Sound, WellFormed, OnTwoPorts, Placed, Quiet, Message
    <2>3. Listing(d)
      BY <2>1 DEF Sound, Listing
    <2>4. Counting(d)
      BY <2>1 DEF Sound, Counting
    <2> QED
      BY <2>1, <2>2, <2>3, <2>4 DEF Sound, d
  <1>2. Dead(m, names) = Quiet => m = Quiet
    BY QuietSound DEF Dead, Sound, Messages
  <1>3. m = Quiet => Dead(m, names) = Quiet
    BY DEF Dead, Quiet, Message, OnPorts, OnPanel
  <1> QED
    BY <1>1, <1>2, <1>3

(* The remaining two, as ServeConnect and ServeAsk make them.               *)
LEMMA ConflictSound ==
    ASSUME NEW s, Sound(wire[s]), patch \in Patch,
           wire[s].at = "request", wire[s].name = "connect",
           NEW other \in GivesWay(patch, wire[s].ingress, wire[s].egress),
           ~(patch[wire[s].ingress] = wire[s].egress /\ other = NoPort), MustAsk(s, other)
    PROVE  LET m == [Message("conflict", "ask", wire[s].ingress, wire[s].egress) EXCEPT
                        !.names = Names(wire[s].ingress, other), !.base = patch]
           IN  Sound(m) /\ m.at = "conflict" /\ m.live
  <1> DEFINE i == wire[s].ingress
             e == wire[s].egress
             m == [Message("conflict", "ask", i, e) EXCEPT
                      !.names = Names(i, other), !.base = patch]
  <1>1. i \in Ports /\ e \in Ports
    BY DEF Sound, WellFormed, OnTwoPorts
  <1>2. PreviewIn(patch, i, other) \subseteq Ports /\ PreviewIn(patch, i, other) # {}
    BY <1>1, GivesWayType DEF MustAsk, PreviewIn
  <1>3. /\ Names(i, other) = {<<p, patch[p]>> : p \in PreviewIn(patch, i, other)}
        /\ Names(i, other) \in SUBSET (Ports \X Ports) /\ Names(i, other) # {}
    <2>1. \A p \in PreviewIn(patch, i, other) : p \in Ports /\ patch[p] \in Ports
      BY <1>2 DEF PreviewIn, Patch
    <2>2. Names(i, other) = {<<p, patch[p]>> : p \in PreviewIn(patch, i, other)}
      BY Zenon DEF Names, PairsAt
    <2>3. ASSUME NEW t \in Names(i, other)
          PROVE  t \in Ports \X Ports
      BY <1>2, <2>1, <2>2
    <2>4. PICK p \in PreviewIn(patch, i, other) : TRUE
      BY <1>2
    <2>5. <<p, patch[p]>> \in Names(i, other)
      BY <2>2, <2>4
    <2> QED
      BY <2>2, <2>3, <2>5
  <1> HIDE DEF i, e
  <1>4. /\ m \in Messages /\ m.at = "conflict" /\ m.name = "ask" /\ m.live
        /\ m.ingress = i /\ m.egress = e /\ m.names = Names(i, other) /\ m.base = patch
    BY <1>1, <1>3 DEF Message, Messages
  <1> HIDE DEF m
  <1>5. WellFormed(m) /\ Placed(m) /\ Counting(m)
    BY <1>1, <1>3, <1>4 DEF WellFormed, OnTwoPorts, Placed, Counting
  <1>6. Listing(m)
    BY <1>3, <1>4 DEF Listing, i, e
  <1> QED
    BY <1>4, <1>5, <1>6 DEF Sound, m, i, e

LEMMA CountSound ==
    ASSUME patch \in Patch
    PROVE  LET m == [Message("clear", "ask", NoPort, NoPort) EXCEPT
                        !.count = Cardinality(Patched(patch)), !.base = patch]
           IN  Sound(m) /\ m.at = "clear" /\ m.live
  <1>1. Cardinality(Patched(patch)) \in Nat
    BY LostByClearing
  <1> QED
    BY <1>1 DEF Message, Messages, Sound, WellFormed, Listing, Counting, Placed

-----------------------------------------------------------------------------
(* Shape is inductive: by what a step writes to the wire.                  *)

(* A source sends, or gets its answer.                                     *)
LEMMA WireWritten ==
    ASSUME Shape, NEW s \in Sources, NEW m, Sound(m), wire' = [wire EXCEPT ![s] = m]
    PROVE  /\ wire' \in [Sources -> Messages] /\ \A t \in Sources : Sound(wire'[t])
           /\ wire'[s] = m /\ \A t \in Sources \ {s} : wire'[t] = wire[t]
           /\ m.at # "quiet" /\ queued # Quiet => wire'["gesture"] # Quiet
  BY QuietSound DEF Shape, Sound, Sources

(* A reply arrives.                                                        *)
LEMMA WireRead ==
    ASSUME Shape, NEW s \in Sources, NEW names, names \subseteq OnPorts \cup OnPanel,
           Arrive(s, names)
    PROVE  /\ wire' \in [Sources -> Messages] /\ \A t \in Sources : Sound(wire'[t])
           /\ Sound(queued') /\ queued'.at \in {"quiet", "request"}
           /\ queued' # Quiet => wire'["gesture"] # Quiet
           /\ queued = Quiet => queued' = Quiet
           /\ \A t \in Sources : wire[t] = Quiet \/ (t = s /\ queued = Quiet) => wire'[t] = Quiet
  <1> DEFINE next == IF s = "gesture" THEN queued ELSE Quiet
  <1>1. /\ wire' = [t \in Sources |->
                       IF t = s THEN Dead(next, names) ELSE Dead(wire[t], names)]
        /\ queued' = IF s = "gesture" THEN Quiet ELSE Dead(queued, names)
    BY DEF Arrive
  <1>2. Sound(next) /\ Sound(queued) /\ \A t \in Sources : Sound(wire[t])
    BY QuietSound DEF Shape
  <1>3. Sound(Dead(next, names)) /\ (Dead(next, names) = Quiet <=> next = Quiet)
    BY <1>2, DeadSound
  <1>4. Sound(Dead(queued, names)) /\ Dead(queued, names).at = queued.at
        /\ (Dead(queued, names) = Quiet <=> queued = Quiet)
    BY <1>2, DeadSound
  <1>5. \A t \in Sources : Sound(Dead(wire[t], names))
            /\ (Dead(wire[t], names) = Quiet <=> wire[t] = Quiet)
    BY <1>2, DeadSound
  <1>6. "gesture" \in Sources
    BY DEF Sources
  <1>7. \A t \in Sources : wire'[t] = IF t = s THEN Dead(next, names) ELSE Dead(wire[t], names)
    BY <1>1
  <1>8. \A t \in Sources : Sound(wire'[t])
    BY <1>3, <1>5, <1>7
  <1>9. wire' \in [Sources -> Messages]
    BY <1>1, <1>3, <1>5 DEF Sound
  <1>10. Sound(queued') /\ queued'.at \in {"quiet", "request"}
    BY <1>1, <1>4, QuietSound DEF Shape
  <1>11. queued = Quiet => queued' = Quiet
    BY <1>1, <1>4
  <1>12. queued' # Quiet => wire'["gesture"] # Quiet
    BY <1>1, <1>4, <1>5, <1>6, <1>7 DEF Shape
  <1>13. ASSUME NEW t \in Sources, wire[t] = Quiet \/ (t = s /\ queued = Quiet),
                ~(t = s /\ queued # Quiet /\ s = "gesture")
         PROVE  wire'[t] = Quiet
    BY <1>3, <1>5, <1>7, <1>13
  <1>14. ASSUME NEW t \in Sources, wire[t] = Quiet, queued # Quiet, s = "gesture"
         PROVE  t # s
    BY <1>14 DEF Shape
  <1> QED
    BY <1>8, <1>9, <1>10, <1>11, <1>12, <1>13, <1>14

LEMMA SendKeeps ==
    ASSUME IInv, NEW s \in Sources, NEW m, Sound(m), m.at = "request", m.live,
           Send(s, m), UNCHANGED <<patch, page, dialog, queued>>
    PROVE  IInv'
  <1>1. /\ wire[s] = Quiet /\ wire' = [wire EXCEPT ![s] = m]
        /\ disturbed' = (disturbed \/ ~Silent)
    BY DEF Send
  <1>2. /\ wire' \in [Sources -> Messages] /\ \A t \in Sources : Sound(wire'[t])
        /\ wire'[s] = m /\ \A t \in Sources \ {s} : wire'[t] = wire[t]
        /\ queued # Quiet => wire'["gesture"] # Quiet
    BY <1>1, WireWritten DEF IInv
  <1>3. Shape'
    BY <1>1, <1>2 DEF IInv, Shape
  <1>4. Course'
    <2> SUFFICES ASSUME ~disturbed' PROVE Course'
      BY DEF Course
    <2>1. Silent /\ ~disturbed
      BY <1>1
    <2>2. page = patch /\ queued = Quiet /\ \A t \in Sources : wire[t] = Quiet
      BY <2>1 DEF Silent, Under, IInv, Course
    <2>3. m # Quiet
      BY QuietSound
    <2> QED
      BY <1>2, <2>2, <2>3 DEF Course, OnCourse
  <1> QED
    BY <1>3, <1>4 DEF IInv

LEMMA GestureKeeps ==
    ASSUME IInv, NEW choice \in Choices, Gesture(choice[1], choice[2])
    PROVE  IInv'
  <1> DEFINE m == Meaning(choice[1], choice[2])
  <1>1. Sound(m) /\ m.at = "request" /\ m.live
    BY PanelAssumption, RequestSound DEF Meaning
  <1>2. UNCHANGED <<patch, page, dialog>>
    BY DEF Gesture
  <1>3. CASE Send("gesture", m) /\ UNCHANGED queued
    <2> HIDE DEF m
    <2> QED
      BY <1>1, <1>2, <1>3, SendKeeps DEF Sources
  <1>4. CASE wire["gesture"] # Quiet /\ queued' = m /\ disturbed' = TRUE /\ UNCHANGED wire
    <2> HIDE DEF m
    <2> QED
      BY <1>1, <1>2, <1>4 DEF IInv, Shape, Course
  <1> QED
    BY <1>3, <1>4 DEF Gesture

LEMMA ConfirmKeeps ==
    ASSUME IInv, Confirm
    PROVE  IInv'
  <1> DEFINE m == [dialog EXCEPT !.at = "request",
                       !.name = IF dialog.at = "conflict" THEN "force" ELSE "clear"]
  <1>1. Sound(m) /\ m.at = "request" /\ m.live
    BY ConfirmSound DEF Confirm, IInv, Shape, Sound, Placed
  <1>2. Send("dialog", m) /\ UNCHANGED <<patch, page, dialog, queued>>
    BY DEF Confirm
  <1> HIDE DEF m
  <1> QED
    BY <1>1, <1>2, SendKeeps DEF Sources

LEMMA ChooseKeeps ==
    ASSUME IInv, NEW name \in {"push", "pull", "label", "ask"}, Choose(name)
    PROVE  IInv'
  <1> DEFINE m == Message("request", name, NoPort, NoPort)
  <1>1. Sound(m) /\ m.at = "request" /\ m.live
    BY RequestSound
  <1>2. Send("other", m) /\ UNCHANGED <<patch, page, dialog, queued>>
    BY DEF Choose
  <1> HIDE DEF m
  <1> QED
    BY <1>1, <1>2, SendKeeps DEF Sources

LEMMA CancelKeeps ==
    ASSUME IInv, Cancel
    PROVE  IInv'
  BY QuietSound DEF Cancel, IInv, Shape, Course, OnCourse

LEMMA ReloadKeeps ==
    ASSUME IInv, Reload
    PROVE  IInv'
  <1>1. Shape'
    BY QuietSound DEF Reload, IInv, Shape, Sound, Sources
  <1>2. Course'
    BY DEF Reload, Course, Sources
  <1> QED
    BY <1>1, <1>2 DEF IInv

LEMMA OthersKeep ==
    ASSUME IInv, Others
    PROVE  IInv'
  BY PanelAssumption DEF Others, IInv, Shape, Course

-----------------------------------------------------------------------------
(* The server: what it answers a request with is on course if the request  *)
(* was.                                                                    *)
LEMMA AnswerKeeps ==
    ASSUME IInv, NEW s \in Sources, wire[s].at = "request",
           NEW m, Sound(m), m.at # "quiet", wire' = [wire EXCEPT ![s] = m],
           patch' \in Patch, UNCHANGED <<page, dialog, queued>>,
           \/ disturbed' = TRUE
           \/ /\ UNCHANGED disturbed
              /\ wire[s].live => m.live
              /\ \/ m.at \in {"ports", "panel"} /\ m.base = patch'
                 \/ m.at \in {"conflict", "clear"} /\ patch' = patch
    PROVE  IInv'
  <1>1. /\ wire' \in [Sources -> Messages] /\ \A t \in Sources : Sound(wire'[t])
        /\ wire'[s] = m /\ \A t \in Sources \ {s} : wire'[t] = wire[t]
        /\ queued # Quiet => wire'["gesture"] # Quiet
    BY WireWritten DEF IInv
  <1>2. Shape'
    BY <1>1 DEF IInv, Shape
  <1>3. Course'
    <2> SUFFICES ASSUME ~disturbed' PROVE Course'
      BY DEF Course
    <2>1. wire[s] # Quiet /\ m # Quiet
      BY QuietSound
    <2>2. /\ queued = Quiet /\ \A t \in Sources \ {s} : wire[t] = Quiet
          /\ OnCourse(wire[s])
      BY <2>1 DEF IInv, Course
    <2>3. OnCourse(m)'
      BY <2>2 DEF OnCourse
    <2> QED
      BY <1>1, <2>1, <2>2, <2>3 DEF Course
  <1> QED
    BY <1>2, <1>3 DEF IInv

LEMMA RefuseKeeps ==
    ASSUME IInv, NEW s \in Sources, Refuse(s)
    PROVE  IInv'
  <1> DEFINE m == Message("error", wire[s].name, NoPort, NoPort)
  <1>1. Sound(m) /\ m.at = "error"
    BY ErrorSound DEF IInv, Shape
  <1>2. wire' = [wire EXCEPT ![s] = m] /\ disturbed' = TRUE /\ wire[s].at = "request"
    BY DEF Refuse, Fail
  <1> HIDE DEF m
  <1>3. UNCHANGED <<page, dialog, queued>> /\ patch' \in Patch
    BY DEF Refuse, IInv, Shape
  <1> QED
    BY <1>1, <1>2, <1>3, AnswerKeeps

(* A request served, with the new ports or panel.                          *)
LEMMA DoneKeeps ==
    ASSUME IInv, NEW s \in Sources, wire[s].at = "request", NEW at \in {"ports", "panel"},
           Answer(s, at), patch' \in Patch, UNCHANGED <<page, dialog, queued, disturbed>>
    PROVE  IInv'
  <1> DEFINE m == Rendered(s, at, patch')
  <1>1. Sound(wire[s])
    BY DEF IInv, Shape
  <1>2. Sound(m) /\ m.at = at /\ m.base = patch' /\ m.live = wire[s].live
    BY <1>1, RenderedSound
  <1>3. wire' = [wire EXCEPT ![s] = m]
    BY DEF Answer
  <1> HIDE DEF m
  <1> QED
    BY <1>2, <1>3, AnswerKeeps

LEMMA ConnectKeeps ==
    ASSUME IInv, NEW s \in Sources, ServeConnect(s)
    PROVE  IInv'
  <1>1. /\ wire[s].at = "request" /\ wire[s].name \in {"connect", "force"}
        /\ patch \in Patch /\ Sound(wire[s]) /\ UNCHANGED <<page, dialog, queued>>
    BY DEF ServeConnect, Asks, IInv, Shape
  <1>2. wire[s].ingress \in Ports /\ wire[s].egress \in Ports
    BY <1>1 DEF Sound, WellFormed, OnTwoPorts
  <1>3. PICK other \in GivesWay(patch, wire[s].ingress, wire[s].egress) :
          IF patch[wire[s].ingress] = wire[s].egress /\ other = NoPort
          THEN UNCHANGED <<patch, disturbed>> /\ Answer(s, "ports")
          ELSE IF MustAsk(s, other)
          THEN Conflict(s, other) /\ UNCHANGED <<patch, disturbed>>
          ELSE \/ /\ patch' = Connected(patch, wire[s].ingress, wire[s].egress, other)
                  /\ Answer(s, "ports")
                  /\ UNCHANGED disturbed
               \/ /\ patch' \in {patch, Without(patch, other)}
                  /\ Fail(s)
    BY DEF ServeConnect
  <1>4. /\ Connected(patch, wire[s].ingress, wire[s].egress, other) \in Patch
        /\ Without(patch, other) \in Patch
    BY <1>1, <1>2, GivesWayType, PatchTypes
  <1>5. CASE patch' \in Patch /\ UNCHANGED disturbed /\ Answer(s, "ports")
    BY <1>1, <1>5, DoneKeeps
  <1>6. CASE /\ MustAsk(s, other) /\ Conflict(s, other) /\ UNCHANGED <<patch, disturbed>>
             /\ ~(patch[wire[s].ingress] = wire[s].egress /\ other = NoPort)
    <2> DEFINE m == [Message("conflict", "ask", wire[s].ingress, wire[s].egress) EXCEPT
                        !.names = Names(wire[s].ingress, other), !.base = patch]
    <2>1. wire[s].name = "connect"
      BY <1>6 DEF MustAsk
    <2>2. Sound(m) /\ m.at = "conflict" /\ m.live
      BY <1>1, <1>6, <2>1, ConflictSound
    <2>3. wire' = [wire EXCEPT ![s] = m]
      BY <1>6 DEF Conflict
    <2> HIDE DEF m
    <2> QED
      BY <1>1, <1>6, <2>2, <2>3, AnswerKeeps
  <1>7. CASE patch' \in {patch, Without(patch, other)} /\ Fail(s)
    <2> DEFINE m == Message("error", wire[s].name, NoPort, NoPort)
    <2>1. Sound(m) /\ m.at = "error"
      BY <1>1, ErrorSound
    <2>2. wire' = [wire EXCEPT ![s] = m] /\ disturbed' = TRUE /\ patch' \in Patch
      BY <1>1, <1>4, <1>7 DEF Fail
    <2> HIDE DEF m
    <2> QED
      BY <1>1, <2>1, <2>2, AnswerKeeps
  <1> QED
    BY <1>1, <1>3, <1>4, <1>5, <1>6, <1>7

LEMMA DisconnectKeeps ==
    ASSUME IInv, NEW s \in Sources, ServeDisconnect(s)
    PROVE  IInv'
  <1>1. wire[s].at = "request" /\ wire[s].name = "disconnect" /\ Sound(wire[s])
    BY DEF ServeDisconnect, Asks, IInv, Shape
  <1>2. wire[s].ingress \in Ports
    BY <1>1 DEF Sound, WellFormed, OnTwoPorts
  <1>3. patch' \in Patch
    BY <1>2, NoPortAssumption DEF ServeDisconnect, Without, IInv, Shape, Patch
  <1> QED
    BY <1>1, <1>3, DoneKeeps DEF ServeDisconnect

LEMMA OtherKeeps ==
    ASSUME IInv, NEW s \in Sources, ServeOther(s)
    PROVE  IInv'
  <1>1. /\ wire[s].at = "request" /\ patch' \in Patch
        /\ Answer(s, "ports") \/ Answer(s, "panel")
    BY PanelAssumption DEF ServeOther, Asks, IInv, Shape, NoPatch, Patch
  <1> QED
    BY <1>1, DoneKeeps DEF ServeOther

LEMMA AskKeeps ==
    ASSUME IInv, NEW s \in Sources, ServeAsk(s)
    PROVE  IInv'
  <1> DEFINE m == [Message("clear", "ask", NoPort, NoPort) EXCEPT
                      !.count = Cardinality(Patched(patch)), !.base = patch]
  <1>1. patch \in Patch /\ wire[s].at = "request"
    BY DEF ServeAsk, Asks, IInv, Shape
  <1>2. Sound(m) /\ m.at = "clear" /\ m.live
    BY <1>1, CountSound
  <1>3. wire' = [wire EXCEPT ![s] = m] /\ UNCHANGED <<patch, page, dialog, queued, disturbed>>
    BY DEF ServeAsk
  <1> HIDE DEF m
  <1> QED
    BY <1>1, <1>2, <1>3, AnswerKeeps

-----------------------------------------------------------------------------
(* Replies arrive. Undisturbed, the page is then current.                  *)
LEMMA ArriveKeeps ==
    ASSUME IInv, NEW s \in Sources, wire[s] # Quiet,
           NEW names, names \subseteq OnPorts \cup OnPanel, Arrive(s, names),
           page' \in Patch, Sound(dialog'), dialog'.at \in {"quiet", "conflict", "clear"},
           ~disturbed => page' = patch
    PROVE  IInv'
  <1>1. UNCHANGED <<patch, disturbed>>
    BY DEF Arrive
  <1>2. /\ wire' \in [Sources -> Messages] /\ \A t \in Sources : Sound(wire'[t])
        /\ Sound(queued') /\ queued'.at \in {"quiet", "request"}
        /\ queued' # Quiet => wire'["gesture"] # Quiet
        /\ queued = Quiet => queued' = Quiet
        /\ \A t \in Sources : wire[t] = Quiet \/ (t = s /\ queued = Quiet) => wire'[t] = Quiet
    BY WireRead DEF IInv
  <1>3. Shape'
    BY <1>1, <1>2 DEF IInv, Shape
  <1>4. Course'
    <2> SUFFICES ASSUME ~disturbed' PROVE Course'
      BY DEF Course
    <2>1. queued = Quiet /\ \A t \in Sources \ {s} : wire[t] = Quiet
      BY <1>1 DEF IInv, Course
    <2>2. queued' = Quiet /\ \A t \in Sources : wire'[t] = Quiet
      BY <1>2, <2>1
    <2> QED
      BY <1>1, <2>2 DEF Course
  <1> QED
    BY <1>3, <1>4 DEF IInv

(* What is known of a reply that arrives.                                  *)
LEMMA Arriving ==
    ASSUME IInv, NEW s \in Sources, wire[s].at # "quiet"
    PROVE  /\ wire[s] # Quiet /\ Sound(wire[s]) /\ wire[s].base \in Patch
           /\ page \in Patch /\ Sound(dialog)
           /\ dialog.at \in {"quiet", "conflict", "clear"}
           /\ ~disturbed => OnCourse(wire[s])
  BY QuietSound DEF IInv, Shape, Course, Sound, Messages

LEMMA RepliesKeep ==
    ASSUME IInv, NEW s \in Sources,
           ArrivePorts(s) \/ ArrivePanel(s) \/ ArriveDialog(s) \/ ArriveError(s)
    PROVE  IInv'
  <1>1. CASE ArrivePorts(s)
    <2>1. /\ wire[s].at = "ports" /\ dialog' = Quiet
          /\ page' = IF wire[s].live THEN wire[s].base ELSE page
          /\ \E names : names \subseteq OnPorts \cup OnPanel /\ Arrive(s, names)
      BY <1>1 DEF ArrivePorts
    <2> QED
      BY <2>1, Arriving, ArriveKeeps, QuietSound DEF OnCourse
  <1>2. CASE ArrivePanel(s)
    <2>1. /\ wire[s].at = "panel" /\ UNCHANGED dialog
          /\ page' = IF wire[s].live THEN wire[s].base ELSE page
          /\ \E names : names \subseteq OnPorts \cup OnPanel /\ Arrive(s, names)
      BY <1>2 DEF ArrivePanel
    <2> QED
      BY <2>1, Arriving, ArriveKeeps DEF OnCourse
  <1>3. CASE ArriveDialog(s)
    <2>1. /\ wire[s].at \in {"conflict", "clear"} /\ dialog' = wire[s] /\ UNCHANGED page
          /\ Arrive(s, {})
      BY <1>3 DEF ArriveDialog
    <2> QED
      BY <2>1, Arriving, ArriveKeeps DEF OnCourse
  <1>4. CASE ArriveError(s)
    <2>1. wire[s].at = "error" /\ UNCHANGED <<page, dialog>> /\ Arrive(s, {})
      BY <1>4 DEF ArriveError
    <2> QED
      BY <2>1, Arriving, ArriveKeeps DEF OnCourse
  <1> QED
    BY <1>1, <1>2, <1>3, <1>4

-----------------------------------------------------------------------------
LEMMA Initially ==
    ASSUME Init
    PROVE  IInv
  <1>1. Shape
    BY QuietSound, PanelAssumption DEF Init, Shape, Sound
  <1>2. Course
    BY DEF Init, Course
  <1> QED
    BY <1>1, <1>2 DEF IInv

LEMMA Step ==
    ASSUME IInv, [Next]_vars
    PROVE  IInv'
  <1>1. ASSUME NEW s \in Sources, Serve(s)
        PROVE  IInv'
    BY <1>1, RefuseKeeps, ConnectKeeps, DisconnectKeeps, OtherKeeps, AskKeeps
       DEF Serve
  <1>2. ASSUME UNCHANGED vars
        PROVE  IInv'
    BY <1>2 DEF vars, IInv, Shape, Course, OnCourse
  <1> QED
    BY <1>1, <1>2, GestureKeeps, ConfirmKeeps, CancelKeeps, ReloadKeeps, ChooseKeeps,
       RepliesKeep, OthersKeep DEF Next

LEMMA Invariance == Spec => []IInv
  BY Initially, Step, PTL DEF Spec

(* Typing, for every parameter: whatever is sent, waits, is shown or comes *)
(* back is well formed.                                                    *)
THEOREM Typing == Spec => []TypeOK
  <1>1. IInv => TypeOK
    BY DEF IInv, Shape, Sound, TypeOK
  <1> QED
    BY <1>1, Invariance, PTL

(* The page is current when nothing is under way and nothing disturbed it, *)
(* whatever was clicked, chosen, confirmed and answered.                   *)
THEOREM PagesAreCurrent == Spec => []PageCurrent
  <1>1. IInv => PageCurrent
    BY DEF IInv, Course, PageCurrent, Silent, Under
  <1> QED
    BY <1>1, Invariance, PTL

-----------------------------------------------------------------------------
(* A request that is answered, or that is out when the patch changes       *)
(* without anybody else at work, is the one that is being served.          *)
LEMMA ByServing ==
    ASSUME IInv, [Next]_vars, NEW s \in Sources, Served(s),
           patch' # patch \/ wire'[s].at \in {"ports", "panel"}
    PROVE  Serve(s)
  <1>1. /\ wire[s].at = "request" /\ wire'[s] # wire[s] /\ wire'[s] # Quiet
        /\ wire \in [Sources -> Messages] /\ wire[s] # Quiet
    BY QuietSound DEF Served, IInv, Shape
  <1>2. ASSUME NEW t \in Sources, NEW m, Send(t, m)
        PROVE  FALSE
    BY <1>1, <1>2 DEF Send
  <1>3. ASSUME NEW t \in Sources, NEW names, names \subseteq OnPorts \cup OnPanel,
               wire[t].at # "request", Arrive(t, names)
        PROVE  FALSE
    <2>1. wire'[s] = Dead(wire[s], names) /\ patch' = patch
      BY <1>1, <1>3 DEF Arrive
    <2>2. wire'[s].at = "request"
      BY <1>1, <2>1, DeadSound, <1>3 DEF IInv, Shape
    <2> QED
      BY <2>1, <2>2
  <1>4. ASSUME NEW t \in Sources,
               ArrivePorts(t) \/ ArrivePanel(t) \/ ArriveDialog(t) \/ ArriveError(t)
        PROVE  FALSE
    <2>1. /\ wire[t].at # "request"
          /\ \E names : names \subseteq OnPorts \cup OnPanel /\ Arrive(t, names)
      BY <1>4 DEF ArrivePorts, ArrivePanel, ArriveDialog, ArriveError
    <2> QED
      BY <1>3, <2>1
  <1>5. ASSUME NEW t \in Sources, Serve(t), t # s
        PROVE  FALSE
    <2>1. \E m : wire' = [wire EXCEPT ![t] = m]
      BY <1>5
         DEF Serve, Refuse, ServeConnect, ServeDisconnect, ServeOther, ServeAsk,
                  Answer, Conflict, Fail
    <2> QED
      BY <1>1, <1>5, <2>1
  <1>6. ASSUME NEW choice, Gesture(choice[1], choice[2])
        PROVE  FALSE
    BY <1>1, <1>2, <1>6 DEF Gesture, Sources
  <1>7. Confirm \/ Cancel \/ Reload \/ (\E name : Choose(name)) \/ Others \/ UNCHANGED vars
           => FALSE
    BY <1>1, <1>2 DEF Confirm, Cancel, Reload, Choose, Others, vars, Sources
  <1> QED
    BY <1>4, <1>5, <1>6, <1>7 DEF Next

(* What each request takes away.                                           *)
LEMMA ConnectLoses ==
    ASSUME IInv, NEW s \in Sources, ServeConnect(s)
    PROVE  Lost(patch, patch') \subseteq MayLose(wire[s])
  <1> DEFINE i == wire[s].ingress
             e == wire[s].egress
  <1>1. /\ wire[s].at = "request" /\ wire[s].name \in {"connect", "force"}
        /\ patch \in Patch /\ Sound(wire[s])
    BY DEF ServeConnect, Asks, IInv, Shape
  <1>2. i \in Ports /\ e \in Ports
    BY <1>1 DEF Sound, WellFormed, OnTwoPorts
  <1>3. PICK other \in GivesWay(patch, i, e) :
           \/ patch' = patch
           \/ /\ patch' = Connected(patch, i, e, other) \/ patch' = Without(patch, other)
              /\ ~MustAsk(s, other)
    BY DEF ServeConnect
  <1>4. CASE patch' = patch
    BY <1>4, NothingLostBySame
  <1>5. CASE /\ patch' = Connected(patch, i, e, other) \/ patch' = Without(patch, other)
             /\ ~MustAsk(s, other)
    <2>1. ASSUME NEW pair \in Lost(patch, patch')
          PROVE  pair \in MayLose(wire[s])
      <3>1. PICK p \in PreviewIn(patch, i, other) : pair = <<p, patch[p]>>
        BY <1>1, <1>2, <1>5, <2>1, LostByConnecting
      <3>2. wire[s].name = "force"
        BY <1>1, <1>5, <3>1 DEF MustAsk
      <3>3. p = i \/ patch[p] = e
        BY <3>1 DEF PreviewIn, GivesWay, RivalsIn
      <3>4. pair \in Ports \X Ports
        BY <1>1, <1>2, <3>1, GivesWayType DEF PreviewIn, Patch
      <3> QED
        BY <3>1, <3>2, <3>3, <3>4 DEF MayLose
    <2> QED
      BY <2>1
  <1> QED
    BY <1>3, <1>4, <1>5

LEMMA DisconnectLoses ==
    ASSUME IInv, NEW s \in Sources, ServeDisconnect(s)
    PROVE  Lost(patch, patch') \subseteq MayLose(wire[s])
  <1>1. /\ wire[s].at = "request" /\ wire[s].name = "disconnect"
        /\ patch \in Patch /\ Sound(wire[s])
    BY DEF ServeDisconnect, Asks, IInv, Shape
  <1>2. wire[s].ingress \in Ports /\ patch[wire[s].ingress] = wire[s].egress
    BY <1>1 DEF Sound, WellFormed, OnTwoPorts, ServeDisconnect, Exists
  <1>3. patch' \in Patch /\ \A p \in Ports \ {wire[s].ingress} : patch'[p] = patch[p]
    BY <1>1, <1>2, NoPortAssumption DEF ServeDisconnect, Without, Patch
  <1>4. ASSUME NEW pair \in Lost(patch, patch')
        PROVE  pair = <<wire[s].ingress, wire[s].egress>>
    <2>1. PICK p \in Ports : pair = <<p, patch[p]>> /\ patch'[p] # patch[p]
      BY <1>1, <1>3, <1>4, LostPair
    <2> QED
      BY <1>2, <1>3, <2>1
  <1> QED
    BY <1>1, <1>4 DEF MayLose

LEMMA OtherLoses ==
    ASSUME IInv, NEW s \in Sources, ServeOther(s)
    PROVE  Lost(patch, patch') \subseteq MayLose(wire[s])
  <1>1. CASE patch' = patch
    BY <1>1, NothingLostBySame
  <1>2. CASE wire[s].name \in {"pull", "clear"}
    <2>1. Lost(patch, patch') \subseteq Ports \X Ports
      BY DEF Lost, Pairs, Patched, IInv, Shape, Patch
    <2> QED
      BY <1>2, <2>1 DEF MayLose
  <1> QED
    BY <1>1, <1>2 DEF ServeOther, Asks

(* However old the page or the dialog it was made on, a request takes away *)
(* nothing it was not about (README.md:127), for every set of ports, every *)
(* clicking and any number of requests under way.                          *)
THEOREM NothingElseIsLost == Spec => LosesOnlyAskedFor
  <1>1. ASSUME IInv, [Next]_vars
        PROVE  LosesWithin
    <2> SUFFICES ASSUME NEW s \in Sources, Served(s)
                 PROVE  Lost(patch, patch') \subseteq MayLose(wire[s])
      BY DEF LosesWithin
    <2>1. CASE patch' = patch
      BY <2>1, NothingLostBySame
    <2>2. CASE patch' # patch
      <3>1. Serve(s)
        BY <1>1, <2>2, ByServing
      <3>2. ~Refuse(s) /\ ~ServeAsk(s)
        BY <2>2 DEF Refuse, ServeAsk
      <3> QED
        BY <1>1, <3>1, <3>2, ConnectLoses, DisconnectLoses, OtherLoses DEF Serve
    <2> QED
      BY <2>1, <2>2
  <1> QED
    BY <1>1, Invariance, PTL DEF Spec, LosesOnlyAskedFor

(* A forced connection, on the patch its dialog was rendered from.         *)
LEMMA ForceKeepsWord ==
    ASSUME IInv, NEW s \in Sources, ServeConnect(s), wire[s].name = "force",
           wire'[s].at = "ports", patch = wire[s].base, OneToOne(patch)
    PROVE  Lost(patch, patch') = wire[s].names
  <1> DEFINE i == wire[s].ingress
             e == wire[s].egress
  <1>1. wire[s].at = "request" /\ patch \in Patch /\ Sound(wire[s])
    BY DEF ServeConnect, Asks, IInv, Shape
  <1>2. i \in Ports /\ e \in Ports
    BY <1>1 DEF Sound, WellFormed, OnTwoPorts
  <1>3. PICK told \in GivesWay(patch, i, e) :
           /\ wire[s].names = {<<p, patch[p]>> : p \in PreviewIn(patch, i, told)}
           /\ ~(patch[i] = e /\ told = NoPort)
    BY <1>1 DEF Sound, Listing
  <1>4. patch' = Connected(patch, i, e, told)
    <2>1. ~Fail(s)
      BY DEF Fail, Message, IInv, Shape
    <2>2. \A other \in GivesWay(patch, i, e) : other = told
      BY <1>1, <1>2, OneGivesWay
    <2> QED
      BY <1>3, <2>1, <2>2 DEF ServeConnect, MustAsk
  <1>5. \A p \in PreviewIn(patch, i, told) : <<p, patch[p]>> # <<i, e>>
    <2>1. told # NoPort => told \in Ports /\ told # i /\ patch[told] = e
      BY DEF GivesWay, RivalsIn
    <2> QED
      BY <1>1, <1>2, <1>3, <2>1, NoPortAssumption DEF PreviewIn, OneToOne, Patch
  <1>6. \A pair : pair \in Lost(patch, patch') <=>
           \E p \in PreviewIn(patch, i, told) : pair = <<p, patch[p]>>
    BY <1>1, <1>2, <1>4, <1>5, LostByConnecting
  <1> QED
    BY <1>3, <1>6

(* A confirmed dialog does exactly what it said on the patch it was        *)
(* rendered from, for every set of ports and however late.                 *)
THEOREM DialogsKeepTheirWord == Spec => DialogsKept
  <1>1. ASSUME IInv, [Next]_vars, NEW s \in Sources
        PROVE  Keeps(s)
    <2> SUFFICES ASSUME Served(s), patch = wire[s].base
                 PROVE  /\ wire[s].name = "force" /\ wire'[s].at = "ports" /\ OneToOne(patch)
                              => Lost(patch, patch') = wire[s].names
                        /\ wire[s].name = "clear" /\ wire'[s].at = "panel"
                              => Cardinality(Lost(patch, patch')) = wire[s].count
      BY DEF Keeps
    <2>1. ASSUME wire'[s].at \in {"ports", "panel"}
          PROVE  Serve(s) /\ ~Refuse(s)
      BY <1>1, <2>1, ByServing DEF Refuse, Fail, Message, IInv, Shape
    <2>2. ASSUME wire[s].name = "force", wire'[s].at = "ports", OneToOne(patch)
          PROVE  Lost(patch, patch') = wire[s].names
      BY <1>1, <2>1, <2>2, ForceKeepsWord
         DEF Serve, ServeDisconnect, ServeOther, ServeAsk, Asks
    <2>3. ASSUME wire[s].name = "clear", wire'[s].at = "panel"
          PROVE  Cardinality(Lost(patch, patch')) = wire[s].count
      <3>1. patch' = NoPatch /\ wire[s].at = "request"
        BY <2>1, <2>3
           DEF Serve, ServeConnect, ServeDisconnect, ServeOther, ServeAsk, Asks
      <3>2. patch \in Patch /\ wire[s].count = Cardinality(Patched(patch))
        BY <1>1, <2>3, <3>1 DEF IInv, Shape, Sound, Counting
      <3> QED
        BY <3>1, <3>2, LostByClearing
    <2> QED
      BY <2>2, <2>3
  <1>2. IInv /\ [Next]_vars => \A s \in Sources : Keeps(s)
    BY <1>1
  <1> QED
    BY <1>2, Invariance, PTL DEF Spec, DialogsKept

-----------------------------------------------------------------------------
(* The panel's server and Patchbay, which Controller implements.           *)

LEMMA SettledAfter ==
    ASSUME NEW s, wire'[s].at \notin {"quiet", "request"}
    PROVE  Serving(s)' = Bay(s)!Settled
  BY DEF Serving, Asks, Bay!Settled, Bay!Plain, Bay!Request

LEMMA ServingNow ==
    ASSUME NEW s, wire[s].at = "request"
    PROVE  /\ wire[s].name \in {"connect", "force"} =>
                 /\ Serving(s).name = "connect"
                 /\ Serving(s).ingress = wire[s].ingress
                 /\ Serving(s).egress = wire[s].egress
           /\ wire[s].name = "force" => Serving(s).force = TRUE
           /\ wire[s].name = "connect" => Serving(s).force = FALSE
           /\ wire[s].name = "disconnect" =>
                 Serving(s).name = "disconnect" /\ Serving(s).ingress = wire[s].ingress
           /\ wire[s].name = "clear" => Serving(s).name = "clear"
           /\ wire[s].name = "pull" => Serving(s).name = "adopt"
           /\ wire[s].name \notin {"connect", "force", "disconnect", "clear", "pull"}
                 => Serving(s).name = "settled"
  BY DEF Serving, Asks

(* The effects of Patchbay, in the vocabulary of the panel.                *)
LEMMA BayEffects ==
    ASSUME NEW s
    PROVE  LET r == Serving(s)
               settles == Serving(s)' = Bay(s)!Settled
           IN  /\ Bay(s)!Connect <=>
                     /\ r.name = "connect" /\ settles
                     /\ \E other \in GivesWay(patch, r.ingress, r.egress) :
                           /\ PreviewIn(patch, r.ingress, other) = {} \/ r.force
                           /\ patch' = Connected(patch, r.ingress, r.egress, other)
               /\ Bay(s)!ConnectHalf <=>
                     /\ r.name = "connect" /\ r.force /\ settles
                     /\ \E other \in RivalsIn(patch, r.ingress, r.egress) :
                           patch' = Without(patch, other)
               /\ Bay(s)!Disconnect <=>
                     r.name = "disconnect" /\ settles /\ patch' = Without(patch, r.ingress)
               /\ Bay(s)!Clear <=> r.name = "clear" /\ settles /\ patch' = NoPatch
               /\ Bay(s)!Adopt <=> r.name = "adopt" /\ settles /\ patch' \in Patch
  BY DEF Bay!Connect, Bay!ConnectHalf, Bay!Disconnect, Bay!Clear, Bay!Adopt,
         Bay!GivesWay, Bay!RivalsIn, Bay!PreviewIn, Bay!Without, Bay!Connected,
         Bay!NoPatch, Bay!Patch, GivesWay, RivalsIn, PreviewIn, Without, Connected,
         NoPatch, Patch

LEMMA ConnectServedRight ==
    ASSUME IInv, NEW s \in Sources, Answered(s), ServeConnect(s)
    PROVE  ServedRight(s)
  <1> DEFINE i == wire[s].ingress
             e == wire[s].egress
  <1>1. /\ wire[s].at = "request" /\ wire[s].name \in {"connect", "force"}
        /\ patch \in Patch /\ Sound(wire[s]) /\ wire \in [Sources -> Messages]
    BY DEF ServeConnect, Asks, IInv, Shape
  <1>2. i \in Ports /\ e \in Ports
    BY <1>1 DEF Sound, WellFormed, OnTwoPorts
  <1>3. PICK other \in GivesWay(patch, i, e) :
           \/ patch[i] = e /\ UNCHANGED patch /\ Answer(s, "ports")
           \/ UNCHANGED patch /\ Conflict(s, other)
           \/ /\ ~MustAsk(s, other)
              /\ patch' = Connected(patch, i, e, other) /\ Answer(s, "ports")
           \/ ~MustAsk(s, other) /\ patch' \in {patch, Without(patch, other)} /\ Fail(s)
    BY DEF ServeConnect
  <1>4. /\ Serving(s).name = "connect"
        /\ Serving(s).ingress = i /\ Serving(s).egress = e
        /\ wire[s].name = "force" => Serving(s).force = TRUE
        /\ Serving(s)' = Bay(s)!Settled
    BY <1>1, ServingNow, SettledAfter DEF Answered
  <1>5. ~MustAsk(s, other) => PreviewIn(patch, i, other) = {} \/ wire[s].name = "force"
    BY <1>1 DEF MustAsk
  <1>6. CASE patch[i] = e /\ UNCHANGED patch /\ Answer(s, "ports")
    <2>1. wire'[s].base = patch'
      BY <1>1, <1>6 DEF Answer, Rendered, Message
    <2> QED
      BY <1>1, <1>6, <2>1 DEF ServedRight
  <1>7. CASE UNCHANGED patch /\ Conflict(s, other)
    <2>1. wire'[s].at = "conflict"
      BY <1>1, <1>7 DEF Conflict, Message
    <2> QED
      BY <1>7, <2>1 DEF ServedRight
  <1>8. CASE /\ ~MustAsk(s, other)
             /\ patch' = Connected(patch, i, e, other) /\ Answer(s, "ports")
    <2>1. Bay(s)!Connect
      BY <1>4, <1>5, <1>8, BayEffects
    <2>2. wire'[s].base = patch' /\ patch'[i] = e
      BY <1>1, <1>2, <1>8 DEF Answer, Rendered, Message, Connected, Without, Patch
    <2> QED
      BY <1>1, <2>1, <2>2 DEF ServedRight, TakesEffect
  <1>9. CASE ~MustAsk(s, other) /\ patch' \in {patch, Without(patch, other)} /\ Fail(s)
    <2>1. wire'[s].at = "error"
      BY <1>1, <1>9 DEF Fail, Message
    <2>2. ASSUME patch' # patch
          PROVE  Bay(s)!ConnectHalf
      <3>1. patch' = Without(patch, other) /\ other # NoPort
        BY <1>9, <2>2 DEF Without
      <3>2. other \in RivalsIn(patch, i, e)
        BY <3>1 DEF GivesWay
      <3>3. other \in PreviewIn(patch, i, other)
        BY <1>2, <3>1, <3>2, NoPortAssumption DEF PreviewIn, RivalsIn
      <3> QED
        BY <1>4, <1>5, <1>9, <3>1, <3>2, <3>3, BayEffects
    <2> QED
      BY <2>1, <2>2 DEF ServedRight, TakesEffect
  <1> QED
    BY <1>3, <1>6, <1>7, <1>8, <1>9

LEMMA OtherServedRight ==
    ASSUME IInv, NEW s \in Sources, Answered(s),
           ServeDisconnect(s) \/ ServeOther(s) \/ ServeAsk(s) \/ Refuse(s)
    PROVE  ServedRight(s)
  <1>1. /\ wire[s].at = "request" /\ patch \in Patch /\ Sound(wire[s])
        /\ wire \in [Sources -> Messages] /\ Serving(s)' = Bay(s)!Settled
    BY SettledAfter DEF Answered, IInv, Shape
  <1>2. CASE ServeDisconnect(s)
    <2>1. wire[s].name = "disconnect" /\ wire[s].ingress \in Ports
      BY <1>1, <1>2 DEF ServeDisconnect, Asks, Sound, WellFormed, OnTwoPorts
    <2>2. Bay(s)!Disconnect
      <3>1. Serving(s).name = "disconnect" /\ Serving(s).ingress = wire[s].ingress
        BY <1>1, <2>1, ServingNow
      <3>2. patch' = Bay(s)!Without(patch, Serving(s).ingress)
        BY <1>2, <3>1 DEF ServeDisconnect, Bay!Without, Without
      <3>3. Serving(s)' = Bay(s)!Settled
        BY <1>1
      <3> QED
        BY <3>1, <3>2, <3>3 DEF Bay!Disconnect
    <2>3. wire'[s].base = patch' /\ patch'[wire[s].ingress] = NoPort
      <3>1. wire'[s].base = patch'
        BY <1>1, <1>2 DEF ServeDisconnect, Answer, Rendered, Message
      <3>2. patch' = [patch EXCEPT ![wire[s].ingress] = NoPort]
        BY <1>2, <2>1, NoPortAssumption DEF ServeDisconnect, Without
      <3> QED
        BY <1>1, <2>1, <3>1, <3>2 DEF Patch
    <2> QED
      BY <2>1, <2>2, <2>3 DEF ServedRight, TakesEffect
  <1>3. CASE ServeOther(s)
    <2>1. wire[s].name \in {"label", "push", "pull", "clear"}
      BY <1>3 DEF ServeOther, Asks
    <2>2. ASSUME patch' # patch
          PROVE  TakesEffect(s)
      <3>1. \/ wire[s].name = "pull" /\ patch' \in Elsewhere
            \/ wire[s].name = "clear" /\ patch' = NoPatch
        BY <1>3, <2>2 DEF ServeOther, Asks
      <3> QED
        BY <1>1, <3>1, ServingNow, BayEffects, PanelAssumption DEF TakesEffect
    <2> QED
      BY <2>1, <2>2 DEF ServedRight
  <1>4. CASE ServeAsk(s) \/ Refuse(s)
    <2>1. wire'[s].at \in {"clear", "error"} /\ UNCHANGED patch
      <3>1. CASE ServeAsk(s)
        BY <1>1, <3>1 DEF ServeAsk, Message
      <3>2. CASE Refuse(s)
        BY <1>1, <3>2 DEF Refuse, Fail, Message
      <3> QED
        BY <1>4, <3>1, <3>2
    <2> QED
      BY <2>1 DEF ServedRight
  <1> QED
    BY <1>2, <1>3, <1>4

(* The server does with a request what Patchbay allows, on the patch of    *)
(* that instant, and what it then shows is true, for every set of ports    *)
(* and however many requests are under way.                                *)
THEOREM PanelServesPatchbay == Spec => ServesAsPatchbay
  <1>1. ASSUME IInv, [Next]_vars, NEW s \in Sources, Answered(s)
        PROVE  ServedRight(s)
    <2>1. CASE patch' = patch /\ wire'[s].at \notin {"ports", "panel"}
      BY <2>1 DEF ServedRight
    <2>2. CASE patch' # patch \/ wire'[s].at \in {"ports", "panel"}
      <3>1. Served(s)
        BY <1>1, QuietSound DEF Answered, Served
      <3>2. Serve(s)
        BY <1>1, <2>2, <3>1, ByServing
      <3> QED
        BY <1>1, <3>2, ConnectServedRight, OtherServedRight DEF Serve
    <2> QED
      BY <2>1, <2>2
  <1>2. IInv /\ [Next]_vars => [\A s \in Sources : Answered(s) => ServedRight(s)]_vars
    BY <1>1
  <1> QED
    BY <1>2, Invariance, PTL DEF Spec, ServesAsPatchbay

(* And it leaves nothing out: whatever Patchbay may do with a request that *)
(* source s has under way, half a connection included, the server does,    *)
(* answering or failing. A disconnect has to find the pair it is about, a  *)
(* pull one of the patches that the instance has.                          *)
THEOREM PatchbayIsServed ==
    ASSUME TypeOK, NEW s \in Sources, wire[s].at = "request",
           UNCHANGED <<page, dialog, queued>>
    PROVE  /\ Bay(s)!Connect /\ Answer(s, "ports") /\ UNCHANGED disturbed => Serve(s)
           /\ Bay(s)!ConnectHalf /\ Fail(s) => Serve(s)
           /\ Bay(s)!Disconnect /\ Exists(s) /\ Answer(s, "ports") /\ UNCHANGED disturbed
                 => Serve(s)
           /\ Bay(s)!Clear /\ Answer(s, "panel") /\ UNCHANGED disturbed => Serve(s)
           /\ Bay(s)!Adopt /\ patch' \in Elsewhere /\ Answer(s, "panel") /\ UNCHANGED disturbed
                 => Serve(s)
           /\ Fail(s) /\ UNCHANGED patch => Serve(s)
  <1> DEFINE i == wire[s].ingress
             e == wire[s].egress
  <1>1. /\ Serving(s).name = "connect" => wire[s].name \in {"connect", "force"}
        /\ Serving(s).name = "disconnect" => wire[s].name = "disconnect"
        /\ Serving(s).name = "clear" => wire[s].name = "clear"
        /\ Serving(s).name = "adopt" => wire[s].name = "pull"
    BY ServingNow
  <1>2. ASSUME Serving(s).name = "connect"
        PROVE  /\ Serving(s).ingress = i /\ Serving(s).egress = e
               /\ Serving(s).force => wire[s].name = "force"
               /\ i \in Ports /\ e \in Ports /\ patch \in Patch
    <2>1. wire[s].name \in {"connect", "force"}
      BY <1>1, <1>2
    <2>2. i \in Ports /\ e \in Ports /\ patch \in Patch
      BY <2>1 DEF TypeOK, WellFormed, OnTwoPorts
    <2>3. /\ Serving(s).ingress = i /\ Serving(s).egress = e
          /\ wire[s].name = "connect" => Serving(s).force = FALSE
      BY <2>1, ServingNow
    <2> QED
      BY <2>1, <2>2, <2>3
  <1>3. ASSUME Bay(s)!Connect, Answer(s, "ports"), UNCHANGED disturbed
        PROVE  Serve(s)
    <2>1. Serving(s).name = "connect"
      BY <1>3, BayEffects
    <2>2. PICK other \in GivesWay(patch, i, e) :
             /\ PreviewIn(patch, i, other) = {} \/ wire[s].name = "force"
             /\ patch' = Connected(patch, i, e, other)
      BY <1>2, <1>3, <2>1, BayEffects
    <2>3. ~MustAsk(s, other)
      BY <2>2 DEF MustAsk
    <2>4. patch[i] = e /\ other = NoPort => patch' = patch
      BY <1>2, <2>1, <2>2 DEF Connected, Without, Patch
    <2> QED
      BY <1>1, <1>3, <2>1, <2>2, <2>3, <2>4 DEF Serve, ServeConnect, Asks
  <1>4. ASSUME Bay(s)!ConnectHalf, Fail(s)
        PROVE  Serve(s)
    <2>1. Serving(s).name = "connect" /\ Serving(s).force
      BY <1>4, BayEffects
    <2>2. PICK other \in RivalsIn(patch, i, e) : patch' = Without(patch, other)
      BY <1>2, <1>4, <2>1, BayEffects
    <2>3. other \in GivesWay(patch, i, e) /\ other # NoPort
      BY <2>2, NoPortAssumption DEF GivesWay, RivalsIn
    <2>4. ~MustAsk(s, other) /\ wire[s].name = "force"
      BY <1>2, <2>1 DEF MustAsk
    <2> QED
      BY <1>4, <2>2, <2>3, <2>4 DEF Serve, ServeConnect, Asks
  <1>5. ASSUME Bay(s)!Disconnect, Exists(s), Answer(s, "ports"), UNCHANGED disturbed
        PROVE  Serve(s)
    <2>1. Serving(s).name = "disconnect"
      BY <1>5, BayEffects
    <2>2. wire[s].name = "disconnect" /\ Serving(s).ingress = i
      BY <1>1, <2>1, ServingNow
    <2>3. patch' = Without(patch, i)
      BY <1>5, <2>2, BayEffects
    <2> QED
      BY <1>5, <2>2, <2>3 DEF Serve, ServeDisconnect, Asks
  <1>6. ASSUME \/ Bay(s)!Clear
               \/ Bay(s)!Adopt /\ patch' \in Elsewhere,
               Answer(s, "panel"), UNCHANGED disturbed
        PROVE  Serve(s)
    BY <1>1, <1>6, BayEffects DEF Serve, ServeOther, Asks
  <1>7. ASSUME Fail(s), UNCHANGED patch
        PROVE  Serve(s)
    BY <1>7 DEF Serve, Refuse
  <1> QED
    BY <1>3, <1>4, <1>5, <1>6, <1>7

=============================================================================
