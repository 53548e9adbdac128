--------------------------- MODULE BackendProofs ---------------------------
(***************************************************************************)
(* Backend's safety properties for every number of client ids.             *)
(*                                                                         *)
(* What is inductive says where the one connection is at each place of the *)
(* worker (Placed) and, once the process closes, what the closer has left  *)
(* of it: without a drift check under way (Orderly), and with one, which   *)
(* may make one more connection behind the closer's back (Overlapping).    *)
(***************************************************************************)
EXTENDS Backend, TLAPS

Mine == hand["worker"]
Its == hand["closer"]

(* The hands of the threads that have nothing in them.                     *)
EmptyHands ==
    /\ pc["worker"] \in {"idle", "check", "walk", "fetch", "read"} => Mine = NoId
    /\ pc["closer"] \in {"idle", "read"} => Its = NoId

(* No closer before close; nothing at all when the process is down.        *)
Lives ==
    /\ life = "up" => pc["closer"] = "idle" /\ ~overlap
    /\ life = "down" =>
          /\ Held = {} /\ cached = NoId
          /\ pc["worker"] = "idle" /\ pc["closer"] = "idle"

Placed ==
    life = "up" =>
        /\ pc["worker"] \in {"walk", "bind", "publish", "tear"} => cached = NoId
        /\ pc["worker"] \in {"rpc", "forget"} => Mine = cached

Orderly ==
    life = "closing" /\ ~overlap =>
        /\ pc["worker"] = "idle"
        /\ pc["closer"] = "read" => \A id \in Held : id = cached
        /\ pc["closer"] # "read" => \A id \in Held : id = Its

Overlapping ==
    life = "closing" /\ overlap =>
        /\ \E one \in Ids \cup {NoId} : \A id \in Held : id \in {one, Its}
        /\ pc["worker"] = "check" =>
              /\ \A id \in Held : id \in {cached, Its}
              /\ pc["closer"] = "forget" => cached \in {NoId, Its}
        /\ pc["worker"] = "walk" =>
              /\ cached = NoId
              /\ \A id \in Held : id = Its

(* A call that failed has dropped the connection, or is about to.          *)
Suspicion ==
    suspect =>
        /\ pc["worker"] \notin {"fetch", "rpc"}
        /\ pc["worker"] \notin {"read", "forget"} => cached = NoId

IInv ==
    /\ TypeOK /\ EmptyHands /\ Lives /\ Placed
    /\ LeaseOwned /\ Orderly /\ Overlapping /\ Suspicion

-----------------------------------------------------------------------------
(* Types. The walk stays in the range of ids because it ends at the last.  *)
LEMMA TypeStep ==
    ASSUME TypeOK, [Next]_vars
    PROVE  TypeOK'
<1> USE BackendAssumption DEF TypeOK, Ids, Threads, Goto, Take, Connecting,
        Invalidating
<1>1. CASE \E what \in {"status", "rpc"} : Call(what)
    BY <1>1 DEF Call
<1>2. CASE Check
    BY <1>2 DEF Check, AfterCheck, Connected
<1>3. CASE SubscribeOk
    BY <1>3 DEF SubscribeOk
<1>4. CASE SubscribeFail
    <2>1. lease' \in [Ids -> {"free", "held", "stale"}]
        BY <1>4 DEF SubscribeFail
    <2>2. trying' \in Ids
        <3>1. CASE trying = CLIENT_IDS - 1
            BY <1>4, <3>1 DEF SubscribeFail, NextId, LastId, Raise
        <3>2. CASE trying # CLIENT_IDS - 1
            <4>1. trying' = trying + 1
                BY <1>4, <3>2 DEF SubscribeFail, NextId, LastId
            <4> QED
                BY <3>2, <4>1
        <3> QED
            BY <3>1, <3>2
    <2>4. suspect' \in BOOLEAN
        BY <1>4 DEF SubscribeFail, NextId, Raise
    <2>3. pc' \in [Threads -> {"idle", "check", "walk", "fetch", "rpc"}
                                   \cup Connecting \cup Invalidating]
          /\ pc'["closer"] \in {"idle"} \cup Invalidating
        BY <1>4 DEF SubscribeFail, NextId, Raise
    <2> QED
        BY <1>4, <2>1, <2>2, <2>3, <2>4 DEF SubscribeFail
<1>5. CASE BindOk
    BY <1>5 DEF BindOk, Works
<1>6. CASE BindFail
    BY <1>6 DEF BindFail, TornDown, Raise
<1>7. CASE Publish
    BY <1>7 DEF Publish, Connected
<1>8. CASE Fetch
    BY <1>8 DEF Fetch, Raise
<1>9. CASE RpcOk
    BY <1>9 DEF RpcOk, Works
<1>10. CASE RpcFail
    BY <1>10 DEF RpcFail, Raise
<1>11. CASE \E t \in Threads : InvalidateRead(t)
    BY <1>11 DEF InvalidateRead
<1>12. CASE \E t \in Threads : InvalidateForget(t)
    BY <1>12 DEF InvalidateForget, Forgotten
<1>13. CASE \E t \in Threads : InvalidateTear(t)
    BY <1>13 DEF InvalidateTear, TornDown
<1>14. CASE BeginClose
    BY <1>14 DEF BeginClose, CloseBegins
<1>15. CASE Die
    BY <1>15 DEF Die
<1>16. CASE Start
    <2>1. 0 \in Ids
        OBVIOUS
    <2> QED
        BY <1>16, <2>1 DEF Start, Fresh
<1>17. CASE SwitchdDown
    BY <1>17 DEF SwitchdDown
<1>18. CASE SwitchdUp
    BY <1>18 DEF SwitchdUp
<1>19. CASE \E id \in Ids : Expire(id)
    BY <1>19 DEF Expire
<1>20. CASE UNCHANGED vars
    BY <1>20 DEF vars
<1> QED
    BY <1>1, <1>2, <1>3, <1>4, <1>5, <1>6, <1>7, <1>8, <1>9, <1>10, <1>11,
        <1>12, <1>13, <1>14, <1>15, <1>16, <1>17, <1>18, <1>19,
        <1>20 DEF Next

(* A thread has a connection in its hand only while it makes, uses or      *)
(* tears down one.                                                         *)
LEMMA HandsStep ==
    ASSUME TypeOK, EmptyHands, Lives, [Next]_vars
    PROVE  EmptyHands'
<1> USE BackendAssumption DEF TypeOK, EmptyHands, Mine, Its, Ids, Threads,
        Goto, Take, Connecting, Invalidating
<1>1. CASE \E what \in {"status", "rpc"} : Call(what)
    BY <1>1 DEF Call
<1>2. CASE Check
    BY <1>2 DEF Check, AfterCheck, Connected
<1>3. CASE SubscribeOk
    BY <1>3 DEF SubscribeOk
<1>4. CASE SubscribeFail
    BY <1>4 DEF SubscribeFail, NextId, LastId, Raise
<1>5. CASE BindOk
    BY <1>5 DEF BindOk, Works
<1>6. CASE BindFail
    BY <1>6 DEF BindFail, TornDown, Raise
<1>7. CASE Publish
    BY <1>7 DEF Publish, Connected
<1>8. CASE Fetch
    BY <1>8 DEF Fetch, Raise
<1>9. CASE RpcOk
    BY <1>9 DEF RpcOk, Works
<1>10. CASE RpcFail
    BY <1>10 DEF RpcFail, Raise
<1>11. CASE \E t \in Threads : InvalidateRead(t)
    BY <1>11 DEF InvalidateRead
<1>12. CASE \E t \in Threads : InvalidateForget(t)
    BY <1>12 DEF InvalidateForget, Forgotten
<1>13. CASE \E t \in Threads : InvalidateTear(t)
    BY <1>13 DEF InvalidateTear, TornDown
<1>14. CASE BeginClose
    BY <1>14 DEF BeginClose, CloseBegins, Lives
<1>15. CASE Die
    BY <1>15 DEF Die
<1>16. CASE Start
    BY <1>16 DEF Start, Fresh
<1>17. CASE SwitchdDown
    BY <1>17 DEF SwitchdDown
<1>18. CASE SwitchdUp
    BY <1>18 DEF SwitchdUp
<1>19. CASE \E id \in Ids : Expire(id)
    BY <1>19 DEF Expire
<1>20. CASE UNCHANGED vars
    BY <1>20 DEF vars
<1> QED
    BY <1>1, <1>2, <1>3, <1>4, <1>5, <1>6, <1>7, <1>8, <1>9, <1>10, <1>11,
        <1>12, <1>13, <1>14, <1>15, <1>16, <1>17, <1>18, <1>19,
        <1>20 DEF Next

(* The closer starts with close, and death leaves nothing.                 *)
LEMMA LivesStep ==
    ASSUME TypeOK, Lives, [Next]_vars
    PROVE  Lives'
<1> USE BackendAssumption DEF TypeOK, Lives, Held, Ids, Threads, Goto, Take,
        Connecting, Invalidating
<1>1. CASE \E what \in {"status", "rpc"} : Call(what)
    BY <1>1 DEF Call
<1>2. CASE Check
    BY <1>2 DEF Check, AfterCheck, Connected
<1>3. CASE SubscribeOk
    BY <1>3 DEF SubscribeOk
<1>4. CASE SubscribeFail
    BY <1>4 DEF SubscribeFail, NextId, LastId, Raise
<1>5. CASE BindOk
    BY <1>5 DEF BindOk, Works
<1>6. CASE BindFail
    BY <1>6 DEF BindFail, TornDown, Raise
<1>7. CASE Publish
    BY <1>7 DEF Publish, Connected
<1>8. CASE Fetch
    BY <1>8 DEF Fetch, Raise
<1>9. CASE RpcOk
    BY <1>9 DEF RpcOk, Works
<1>10. CASE RpcFail
    BY <1>10 DEF RpcFail, Raise
<1>11. CASE \E t \in Threads : InvalidateRead(t)
    BY <1>11 DEF InvalidateRead
<1>12. CASE \E t \in Threads : InvalidateForget(t)
    BY <1>12 DEF InvalidateForget, Forgotten
<1>13. CASE \E t \in Threads : InvalidateTear(t)
    BY <1>13 DEF InvalidateTear, TornDown
<1>14. CASE BeginClose
    BY <1>14 DEF BeginClose, CloseBegins
<1>15. CASE Die
    BY <1>15 DEF Die
<1>16. CASE Start
    BY <1>16 DEF Start, Fresh
<1>17. CASE SwitchdDown
    BY <1>17 DEF SwitchdDown
<1>18. CASE SwitchdUp
    BY <1>18 DEF SwitchdUp
<1>19. CASE \E id \in Ids : Expire(id)
    BY <1>19 DEF Expire
<1>20. CASE UNCHANGED vars
    BY <1>20 DEF vars
<1> QED
    BY <1>1, <1>2, <1>3, <1>4, <1>5, <1>6, <1>7, <1>8, <1>9, <1>10, <1>11,
        <1>12, <1>13, <1>14, <1>15, <1>16, <1>17, <1>18, <1>19,
        <1>20 DEF Next

(* One call at a time: while the worker connects, or has forgotten what it *)
(* tears down, nothing is cached; what it uses is what is cached.          *)
LEMMA PlacedStep ==
    ASSUME TypeOK, EmptyHands, Lives, Placed, [Next]_vars
    PROVE  Placed'
<1> USE BackendAssumption DEF TypeOK, EmptyHands, Lives, Placed, Mine, Its,
        Ids, Threads, Goto, Take, Connecting, Invalidating
<1>1. CASE \E what \in {"status", "rpc"} : Call(what)
    BY <1>1 DEF Call
<1>2. CASE Check
    BY <1>2 DEF Check, AfterCheck, Connected
<1>3. CASE SubscribeOk
    BY <1>3 DEF SubscribeOk
<1>4. CASE SubscribeFail
    BY <1>4 DEF SubscribeFail, NextId, LastId, Raise
<1>5. CASE BindOk
    BY <1>5 DEF BindOk, Works
<1>6. CASE BindFail
    BY <1>6 DEF BindFail, TornDown, Raise
<1>7. CASE Publish
    BY <1>7 DEF Publish, Connected
<1>8. CASE Fetch
    BY <1>8 DEF Fetch, Raise
<1>9. CASE RpcOk
    BY <1>9 DEF RpcOk, Works
<1>10. CASE RpcFail
    BY <1>10 DEF RpcFail, Raise
<1>11. CASE \E t \in Threads : InvalidateRead(t)
    BY <1>11 DEF InvalidateRead
<1>12. CASE \E t \in Threads : InvalidateForget(t)
    BY <1>12 DEF InvalidateForget, Forgotten
<1>13. CASE \E t \in Threads : InvalidateTear(t)
    BY <1>13 DEF InvalidateTear, TornDown
<1>14. CASE BeginClose
    BY <1>14 DEF BeginClose, CloseBegins
<1>15. CASE Die
    BY <1>15 DEF Die
<1>16. CASE Start
    BY <1>16 DEF Start, Fresh
<1>17. CASE SwitchdDown
    BY <1>17 DEF SwitchdDown
<1>18. CASE SwitchdUp
    BY <1>18 DEF SwitchdUp
<1>19. CASE \E id \in Ids : Expire(id)
    BY <1>19 DEF Expire
<1>20. CASE UNCHANGED vars
    BY <1>20 DEF vars
<1> QED
    BY <1>1, <1>2, <1>3, <1>4, <1>5, <1>6, <1>7, <1>8, <1>9, <1>10, <1>11,
        <1>12, <1>13, <1>14, <1>15, <1>16, <1>17, <1>18, <1>19,
        <1>20 DEF Next

(* At the walk nothing is cached and nothing in hand, so nothing is held.  *)
LEMMA LeaseStep ==
    ASSUME TypeOK, EmptyHands, Lives, Placed, LeaseOwned, [Next]_vars
    PROVE  LeaseOwned'
<1> USE BackendAssumption DEF TypeOK, EmptyHands, Lives, Placed, LeaseOwned,
        Held, Mine, Its, Ids, Threads, Goto, Take, Connecting, Invalidating
<1>1. CASE \E what \in {"status", "rpc"} : Call(what)
    BY <1>1 DEF Call
<1>2. CASE Check
    BY <1>2 DEF Check, AfterCheck, Connected
<1>3. CASE SubscribeOk
    BY <1>3 DEF SubscribeOk
<1>4. CASE SubscribeFail
    BY <1>4 DEF SubscribeFail, NextId, LastId, Raise
<1>5. CASE BindOk
    BY <1>5 DEF BindOk, Works
<1>6. CASE BindFail
    BY <1>6 DEF BindFail, TornDown, Raise
<1>7. CASE Publish
    BY <1>7 DEF Publish, Connected
<1>8. CASE Fetch
    BY <1>8 DEF Fetch, Raise
<1>9. CASE RpcOk
    BY <1>9 DEF RpcOk, Works
<1>10. CASE RpcFail
    BY <1>10 DEF RpcFail, Raise
<1>11. CASE \E t \in Threads : InvalidateRead(t)
    BY <1>11 DEF InvalidateRead
<1>12. CASE \E t \in Threads : InvalidateForget(t)
    BY <1>12 DEF InvalidateForget, Forgotten
<1>13. CASE \E t \in Threads : InvalidateTear(t)
    BY <1>13 DEF InvalidateTear, TornDown
<1>14. CASE BeginClose
    BY <1>14 DEF BeginClose, CloseBegins
<1>15. CASE Die
    BY <1>15 DEF Die
<1>16. CASE Start
    BY <1>16 DEF Start, Fresh
<1>17. CASE SwitchdDown
    BY <1>17 DEF SwitchdDown
<1>18. CASE SwitchdUp
    BY <1>18 DEF SwitchdUp
<1>19. CASE \E id \in Ids : Expire(id)
    BY <1>19 DEF Expire
<1>20. CASE UNCHANGED vars
    BY <1>20 DEF vars
<1> QED
    BY <1>1, <1>2, <1>3, <1>4, <1>5, <1>6, <1>7, <1>8, <1>9, <1>10, <1>11,
        <1>12, <1>13, <1>14, <1>15, <1>16, <1>17, <1>18, <1>19,
        <1>20 DEF Next

(* No worker: the closer alone takes the cached connection apart.          *)
LEMMA OrderlyStep ==
    ASSUME TypeOK, EmptyHands, Lives, LeaseOwned, Orderly, [Next]_vars
    PROVE  Orderly'
<1> USE BackendAssumption DEF TypeOK, EmptyHands, Lives, LeaseOwned, Orderly,
        Held, Mine, Its, Ids, Threads, Goto, Take, Connecting, Invalidating
<1>1. CASE \E what \in {"status", "rpc"} : Call(what)
    BY <1>1 DEF Call
<1>2. CASE Check
    BY <1>2 DEF Check, AfterCheck, Connected
<1>3. CASE SubscribeOk
    BY <1>3 DEF SubscribeOk
<1>4. CASE SubscribeFail
    BY <1>4 DEF SubscribeFail, NextId, LastId, Raise
<1>5. CASE BindOk
    BY <1>5 DEF BindOk, Works
<1>6. CASE BindFail
    BY <1>6 DEF BindFail, TornDown, Raise
<1>7. CASE Publish
    BY <1>7 DEF Publish, Connected
<1>8. CASE Fetch
    BY <1>8 DEF Fetch, Raise
<1>9. CASE RpcOk
    BY <1>9 DEF RpcOk, Works
<1>10. CASE RpcFail
    BY <1>10 DEF RpcFail, Raise
<1>11. CASE \E t \in Threads : InvalidateRead(t)
    BY <1>11 DEF InvalidateRead
<1>12. CASE \E t \in Threads : InvalidateForget(t)
    BY <1>12 DEF InvalidateForget, Forgotten
<1>13. CASE \E t \in Threads : InvalidateTear(t)
    BY <1>13 DEF InvalidateTear, TornDown
<1>14. CASE BeginClose
    <2>1. overlap' = (pc["worker"] # "idle")
        BY <1>14 DEF BeginClose
    <2>2. CASE pc["worker"] = "idle"
        <3>1. Mine = NoId /\ UNCHANGED <<Held, cached>>
            BY <1>14, <2>2 DEF BeginClose
        <3>2. \A id \in Held : id = cached
            BY <1>14, <3>1 DEF BeginClose
        <3>3. pc'["worker"] = "idle" /\ pc'["closer"] = "read"
            BY <1>14, <2>2 DEF BeginClose, CloseBegins
        <3> QED
            BY <3>1, <3>2, <3>3
    <2>3. CASE pc["worker"] # "idle"
        BY <2>1, <2>3
    <2> QED
        BY <2>2, <2>3
<1>15. CASE Die
    BY <1>15 DEF Die
<1>16. CASE Start
    BY <1>16 DEF Start, Fresh
<1>17. CASE SwitchdDown
    BY <1>17 DEF SwitchdDown
<1>18. CASE SwitchdUp
    BY <1>18 DEF SwitchdUp
<1>19. CASE \E id \in Ids : Expire(id)
    BY <1>19 DEF Expire
<1>20. CASE UNCHANGED vars
    BY <1>20 DEF vars
<1> QED
    BY <1>1, <1>2, <1>3, <1>4, <1>5, <1>6, <1>7, <1>8, <1>9, <1>10, <1>11,
        <1>12, <1>13, <1>14, <1>15, <1>16, <1>17, <1>18, <1>19,
        <1>20 DEF Next

(* The worker subscribes once more at most, when all that is still held is *)
(* in the closer's hand.                                                   *)
LEMMA OverlapStep ==
    ASSUME TypeOK, EmptyHands, Lives, LeaseOwned, Placed, Overlapping, [Next]_vars
    PROVE  Overlapping'
<1> USE BackendAssumption DEF TypeOK, EmptyHands, Lives, LeaseOwned, Placed,
        Overlapping, Held, Mine, Its, Ids, Threads, Goto, Take, Connecting,
        Invalidating
<1>1. CASE \E what \in {"status", "rpc"} : Call(what)
    BY <1>1 DEF Call
<1>2. CASE Check
    BY <1>2 DEF Check, AfterCheck, Connected
<1>3. CASE SubscribeOk
    BY <1>3 DEF SubscribeOk
<1>4. CASE SubscribeFail
    BY <1>4 DEF SubscribeFail, NextId, LastId, Raise
<1>5. CASE BindOk
    BY <1>5 DEF BindOk, Works
<1>6. CASE BindFail
    BY <1>6 DEF BindFail, TornDown, Raise
<1>7. CASE Publish
    BY <1>7 DEF Publish, Connected
<1>8. CASE Fetch
    BY <1>8 DEF Fetch, Raise
<1>9. CASE RpcOk
    BY <1>9 DEF RpcOk, Works
<1>10. CASE RpcFail
    BY <1>10 DEF RpcFail, Raise
<1>11. CASE \E t \in Threads : InvalidateRead(t)
    BY <1>11 DEF InvalidateRead
<1>12. CASE \E t \in Threads : InvalidateForget(t)
    BY <1>12 DEF InvalidateForget, Forgotten
<1>13. CASE \E t \in Threads : InvalidateTear(t)
    BY <1>13 DEF InvalidateTear, TornDown
<1>14. CASE BeginClose
    <2>1. Its = NoId /\ UNCHANGED <<Held, hand, cached>> /\ pc'["worker"] = pc["worker"]
        BY <1>14 DEF BeginClose, CloseBegins
    <2>2. \A id \in Held : id \in {cached, Mine} /\ \A other \in Held : other = id
        BY <1>14 DEF BeginClose
    <2>3. \E one \in Ids \cup {NoId} : \A id \in Held : id \in {one, Its}
        <3>1. CASE Held = {}
            BY <3>1
        <3>2. CASE Held # {}
            BY <2>2, <3>2
        <3> QED
            BY <3>1, <3>2
    <2>4. pc'["closer"] = "read"
        BY <1>14 DEF BeginClose, CloseBegins
    <2>5. (pc["worker"] = "check" => \A id \in Held : id = cached)
          /\ (pc["worker"] = "walk" => cached = NoId /\ Held = {})
        BY <1>14, <2>2 DEF BeginClose
    <2> QED
        BY <2>1, <2>3, <2>4, <2>5
<1>15. CASE Die
    BY <1>15 DEF Die
<1>16. CASE Start
    BY <1>16 DEF Start, Fresh
<1>17. CASE SwitchdDown
    BY <1>17 DEF SwitchdDown
<1>18. CASE SwitchdUp
    BY <1>18 DEF SwitchdUp
<1>19. CASE \E id \in Ids : Expire(id)
    BY <1>19 DEF Expire
<1>20. CASE UNCHANGED vars
    BY <1>20 DEF vars
<1> QED
    BY <1>1, <1>2, <1>3, <1>4, <1>5, <1>6, <1>7, <1>8, <1>9, <1>10, <1>11,
        <1>12, <1>13, <1>14, <1>15, <1>16, <1>17, <1>18, <1>19,
        <1>20 DEF Next

(* A call that fails reads and forgets before anything else can happen.   *)
LEMMA SuspicionStep ==
    ASSUME TypeOK, Suspicion, [Next]_vars
    PROVE  Suspicion'
<1> USE BackendAssumption DEF TypeOK, Suspicion, Ids, Threads, Goto, Take,
        Connecting, Invalidating
<1>1. CASE \E what \in {"status", "rpc"} : Call(what)
    BY <1>1 DEF Call
<1>2. CASE Check
    BY <1>2 DEF Check, AfterCheck, Connected
<1>3. CASE SubscribeOk
    BY <1>3 DEF SubscribeOk
<1>4. CASE SubscribeFail
    BY <1>4 DEF SubscribeFail, NextId, LastId, Raise
<1>5. CASE BindOk
    BY <1>5 DEF BindOk, Works
<1>6. CASE BindFail
    BY <1>6 DEF BindFail, TornDown, Raise
<1>7. CASE Publish
    BY <1>7 DEF Publish, Connected
<1>8. CASE Fetch
    BY <1>8 DEF Fetch, Raise
<1>9. CASE RpcOk
    BY <1>9 DEF RpcOk, Works
<1>10. CASE RpcFail
    BY <1>10 DEF RpcFail, Raise
<1>11. CASE \E t \in Threads : InvalidateRead(t)
    BY <1>11 DEF InvalidateRead
<1>12. CASE \E t \in Threads : InvalidateForget(t)
    BY <1>12 DEF InvalidateForget, Forgotten
<1>13. CASE \E t \in Threads : InvalidateTear(t)
    BY <1>13 DEF InvalidateTear, TornDown
<1>14. CASE BeginClose
    BY <1>14 DEF BeginClose, CloseBegins
<1>15. CASE Die
    BY <1>15 DEF Die
<1>16. CASE Start
    BY <1>16 DEF Start, Fresh
<1>17. CASE SwitchdDown
    BY <1>17 DEF SwitchdDown
<1>18. CASE SwitchdUp
    BY <1>18 DEF SwitchdUp
<1>19. CASE \E id \in Ids : Expire(id)
    BY <1>19 DEF Expire
<1>20. CASE UNCHANGED vars
    BY <1>20 DEF vars
<1> QED
    BY <1>1, <1>2, <1>3, <1>4, <1>5, <1>6, <1>7, <1>8, <1>9, <1>10, <1>11,
        <1>12, <1>13, <1>14, <1>15, <1>16, <1>17, <1>18, <1>19,
        <1>20 DEF Next

-----------------------------------------------------------------------------
(* The initial states.                                                     *)
LEMMA InitIInv == Init => IInv
<1> SUFFICES ASSUME Init PROVE IInv
    OBVIOUS
<1> USE BackendAssumption DEF Init, Ids, Threads, Held, Connecting, Invalidating
<1>1. 0 \in Ids
    OBVIOUS
<1>2. TypeOK
    BY <1>1 DEF TypeOK
<1>3. Held = {}
    OBVIOUS
<1> QED
    BY <1>2, <1>3 DEF IInv, EmptyHands, Lives, Placed, LeaseOwned, Orderly,
        Overlapping, Suspicion, Mine, Its

LEMMA NextIInv == IInv /\ [Next]_vars => IInv'
<1> SUFFICES ASSUME IInv, [Next]_vars PROVE IInv'
    OBVIOUS
<1> QED
    BY TypeStep, HandsStep, LivesStep, PlacedStep, LeaseStep, OrderlyStep,
        OverlapStep, SuspicionStep DEF IInv

LEMMA Inductive == Spec => []IInv
    BY InitIInv, NextIInv, PTL DEF Spec

-----------------------------------------------------------------------------
(* Types hold, the walk over the client ids included.                      *)
THEOREM Typing == Spec => []TypeOK
<1>1. IInv => TypeOK
    BY DEF IInv
<1> QED
    BY Inductive, <1>1, PTL

(* While it runs the process holds one id at most, and has the connection  *)
(* at hand that it holds it for.                                           *)
THEOREM LeasesAreOwned == Spec => []LeaseOwned
<1>1. IInv => LeaseOwned
    BY DEF IInv
<1> QED
    BY Inductive, <1>1, PTL

(* An orderly end gives the id back; with a drift check under way one id   *)
(* may be left, never two.                                                 *)
THEOREM StopsAreClean == Spec => []CleanStop
<1>1. IInv => CleanStop
    <2> SUFFICES ASSUME IInv, life = "closing", \A t \in Threads : pc[t] = "idle",
                        NEW id \in Held
                 PROVE  overlap /\ \A other \in Held : other = id
        BY DEF CleanStop
    <2>1. Its = NoId /\ id # NoId
        BY BackendAssumption DEF IInv, EmptyHands, Threads, Held, Ids
    <2>2. overlap
        BY <2>1 DEF IInv, Orderly, Threads
    <2>3. PICK one \in Ids \cup {NoId} : \A i \in Held : i \in {one, Its}
        BY <2>2 DEF IInv, Overlapping
    <2>4. \A other \in Held : other # NoId
        BY BackendAssumption DEF Held, Ids
    <2> QED
        BY <2>1, <2>2, <2>3, <2>4
<1> QED
    BY Inductive, <1>1, PTL

(* After a call that failed nothing is cached that status would answer for.*)
THEOREM FailuresForget == Spec => []FailureForgets
<1>1. IInv => FailureForgets
    BY DEF IInv, Suspicion, FailureForgets
<1> QED
    BY Inductive, <1>1, PTL

-----------------------------------------------------------------------------
(* Calls come to an end.                                                   *)

(* StepsAhead, place by place.                                             *)
LEMMA Distances ==
    /\ pc["worker"] = "idle" => StepsAhead = 0
    /\ pc["worker"] = "tear" => StepsAhead = 1
    /\ pc["worker"] = "forget" => StepsAhead = 2
    /\ pc["worker"] = "read" => StepsAhead = 3
    /\ pc["worker"] = "rpc" => StepsAhead = 4
    /\ pc["worker"] = "fetch" => StepsAhead = 5
    /\ pc["worker"] = "publish" => StepsAhead = 6
    /\ pc["worker"] = "bind" => StepsAhead = 7
    /\ pc["worker"] = "walk" => StepsAhead = 7 + (CLIENT_IDS - trying)
    /\ pc["worker"] = "check" => StepsAhead = 8 + CLIENT_IDS
    BY DEF StepsAhead

LEMMA DistancesAfter ==
    /\ pc["worker"]' = "idle" => StepsAhead' = 0
    /\ pc["worker"]' = "tear" => StepsAhead' = 1
    /\ pc["worker"]' = "forget" => StepsAhead' = 2
    /\ pc["worker"]' = "read" => StepsAhead' = 3
    /\ pc["worker"]' = "rpc" => StepsAhead' = 4
    /\ pc["worker"]' = "fetch" => StepsAhead' = 5
    /\ pc["worker"]' = "publish" => StepsAhead' = 6
    /\ pc["worker"]' = "bind" => StepsAhead' = 7
    /\ pc["worker"]' = "walk" => StepsAhead' = 7 + (CLIENT_IDS - trying')
    /\ pc["worker"]' = "check" => StepsAhead' = 8 + CLIENT_IDS
    BY DEF StepsAhead

LEMMA Countdown ==
    TypeOK => StepsAhead \in Nat
<1> USE BackendAssumption, Distances DEF TypeOK, Ids, Threads, Connecting, Invalidating
<1> QED
    OBVIOUS

LEMMA WorkerNearer ==
    ASSUME TypeOK, WorkerStep
    PROVE  StepsAhead' < StepsAhead
<1> USE BackendAssumption, Distances, DistancesAfter DEF TypeOK, Ids, Threads, Goto
<1>1. trying \in Int /\ 0 <= trying /\ trying < CLIENT_IDS
    OBVIOUS
<1>2. CASE Check
    <2>1. pc["worker"] = "check" /\ UNCHANGED trying
          /\ pc["worker"]' \in {"walk", "idle", "fetch"}
        BY <1>2 DEF Check, AfterCheck, Connected
    <2> QED
        BY <1>1, <2>1
<1>3. CASE SubscribeOk
    <2>1. pc["worker"] = "walk" /\ pc["worker"]' = "bind"
        BY <1>3 DEF SubscribeOk
    <2> QED
        BY <1>1, <2>1
<1>4. CASE SubscribeFail
    <2>1. pc["worker"] = "walk"
          /\ \/ pc["worker"]' = "read"
             \/ pc["worker"]' = "walk" /\ trying' = trying + 1
        BY <1>4 DEF SubscribeFail, NextId, Raise
    <2> QED
        BY <1>1, <2>1
<1>5. CASE BindOk \/ BindFail
    <2>1. pc["worker"] = "bind" /\ pc["worker"]' \in {"publish", "read"}
        BY <1>5 DEF BindOk, BindFail, Raise
    <2> QED
        BY <2>1
<1>6. CASE Publish
    <2>1. pc["worker"] = "publish" /\ pc["worker"]' \in {"idle", "fetch"}
        BY <1>6 DEF Publish, Connected
    <2> QED
        BY <2>1
<1>7. CASE Fetch
    <2>1. pc["worker"] = "fetch" /\ pc["worker"]' \in {"rpc", "read"}
        BY <1>7 DEF Fetch, Raise
    <2> QED
        BY <2>1
<1>8. CASE RpcOk \/ RpcFail
    <2>1. pc["worker"] = "rpc" /\ pc["worker"]' \in {"idle", "read"}
        BY <1>8 DEF RpcOk, RpcFail, Raise
    <2> QED
        BY <2>1
<1>9. CASE InvalidateRead("worker") \/ InvalidateForget("worker") \/ InvalidateTear("worker")
    <2>1. \/ pc["worker"] = "read" /\ pc["worker"]' = "forget"
          \/ pc["worker"] = "forget" /\ pc["worker"]' = "tear"
          \/ pc["worker"] = "tear" /\ pc["worker"]' = "idle"
        BY <1>9 DEF InvalidateRead, InvalidateForget, InvalidateTear
    <2> QED
        BY <2>1
<1> QED
    BY <1>2, <1>3, <1>4, <1>5, <1>6, <1>7, <1>8, <1>9 DEF WorkerStep

(* A call tries each id once at most and comes to an end: every step of    *)
(* the worker brings it nearer, and no step of another sends it back.      *)
THEOREM CallsComeToAnEnd == Spec => CallsEnd
<1>1. TypeOK /\ [Next]_vars => [Nearer]_vars
    <2> SUFFICES ASSUME TypeOK, Next PROVE Nearer
        OBVIOUS
    <2>1. StepsAhead \in Nat /\ (WorkerStep => StepsAhead' < StepsAhead)
        BY Countdown, WorkerNearer
    <2>2. StepsAhead' \in Int
        <3>1. TypeOK'
            BY TypeStep
        <3>2. StepsAhead' \in Nat
            BY <3>1, DistancesAfter, BackendAssumption
            DEF TypeOK, Ids, Threads, Connecting, Invalidating
        <3> QED
            BY <3>2
    <2>3. ASSUME \A what \in {"status", "rpc"} : ~Call(what), ~WorkerStep
          PROVE  StepsAhead' <= StepsAhead
        <3>1. CASE Die \/ Start
            <4>1. pc["worker"]' = "idle"
                BY <3>1 DEF Die, Start, Fresh, Threads
            <4> QED
                BY <2>1, <4>1, DistancesAfter
        <3>2. CASE \/ BeginClose \/ SwitchdDown \/ SwitchdUp
                   \/ \E id \in Ids : Expire(id)
                   \/ InvalidateRead("closer") \/ InvalidateForget("closer")
                   \/ InvalidateTear("closer")
            <4>1. pc["worker"]' = pc["worker"] /\ trying' = trying
                BY <3>2 DEF BeginClose, SwitchdDown, SwitchdUp, Expire, InvalidateRead,
                    InvalidateForget, InvalidateTear, Goto, TypeOK, Threads
            <4>2. StepsAhead' = StepsAhead
                BY <4>1 DEF StepsAhead
            <4> QED
                BY <2>1, <4>2
        <3> QED
            BY <2>3, <3>1, <3>2 DEF Next, WorkerStep, Threads
    <2> QED
        BY <2>1, <2>2, <2>3 DEF Nearer
<1> QED
    BY <1>1, Typing, PTL DEF Spec, CallsEnd

=============================================================================
