------------------------------ MODULE Backend ------------------------------
(***************************************************************************)
(* The bfrt backend's connection to bf_switchd (app/tofino/bfrt.py) and    *)
(* its end in main.py's lifespan.                                          *)
(*                                                                         *)
(* bf_switchd leases a client id to a stream. A call of the backend uses   *)
(* the cached connection or makes one, walking the ids until one is        *)
(* granted; a call that raises drops the connection. Calls run one at a    *)
(* time, on a thread of their own: the controller's lock is why. Only the  *)
(* thread of a cancelled drift check is still at work while backend.close  *)
(* runs on another.                                                        *)
(*                                                                         *)
(* A connection is the id it was granted; it works while bf_switchd still  *)
(* holds the lease for it.                                                 *)
(***************************************************************************)
EXTENDS Integers, FiniteSets

CONSTANTS CLIENT_IDS, NoId

Ids == 0 .. CLIENT_IDS - 1

ASSUME BackendAssumption ==
    /\ CLIENT_IDS \in Nat \ {0}
    /\ NoId \notin Int

VARIABLES
    up,       \* bf_switchd is serving
    lease,    \* of each id: free, held for this process, or stale: taken by
              \* a stream that nobody here will tear down
    life,     \* of the process: up, closing (backend.close was called), down
    cached,   \* _interface, and _gc, _table, _target with it
    pc,       \* where each thread is
    hand,     \* the connection in a local variable of each thread
    trying,   \* client_id of the walk
    kind,     \* what the worker was called for: status, or a table operation
    overlap,  \* history: the worker was busy when the process began to close
    suspect   \* history: a call raised, and nothing was connected since

vars == <<up, lease, life, cached, pc, hand, trying, kind, overlap, suspect>>

Threads == {"worker", "closer"}
Held == {id \in Ids : lease[id] = "held"}
Works(id) == up /\ id # NoId /\ lease[id] = "held"

-----------------------------------------------------------------------------
(* A process that just started.                                            *)
Fresh ==
    /\ life' = "up"
    /\ cached' = NoId
    /\ pc' = [t \in Threads |-> "idle"]
    /\ hand' = [t \in Threads |-> NoId]
    /\ trying' = 0
    /\ kind' = "status"
    /\ overlap' = FALSE
    /\ suspect' = FALSE

Init ==
    /\ up \in BOOLEAN
    /\ lease \in [Ids -> {"free", "stale"}]
    /\ life = "up"
    /\ cached = NoId
    /\ pc = [t \in Threads |-> "idle"]
    /\ hand = [t \in Threads |-> NoId]
    /\ trying = 0
    /\ kind = "status"
    /\ overlap = FALSE
    /\ suspect = FALSE

-----------------------------------------------------------------------------
(* A call, and _connect. With a connection cached, status is True at once: *)
(* the device is not asked.                                                *)
Goto(t, place) == pc' = [pc EXCEPT ![t] = place]
Take(t, id) == hand' = [hand EXCEPT ![t] = id]

Call(what) ==
    /\ life = "up"
    /\ pc["worker"] = "idle"
    /\ kind' = what
    /\ trying' = 0
    /\ Goto("worker", "check")
    /\ UNCHANGED <<up, lease, life, cached, hand, overlap, suspect>>

Connected == IF kind = "status" THEN "idle" ELSE "fetch"
AlwaysWalk == "walk" \* mutant
AfterCheck == IF cached = NoId THEN "walk" ELSE Connected

Check ==
    /\ pc["worker"] = "check"
    /\ Goto("worker", AfterCheck)
    /\ UNCHANGED <<up, lease, life, cached, hand, trying, kind, overlap, suspect>>

(* An exception: _invalidate comes next.                                   *)
Raise ==
    /\ Goto("worker", "read")
    /\ suspect' = TRUE

(* A subscription that is refused or not answered in time: the next id.    *)
PastTheEnd == CLIENT_IDS \* mutant
LastId == CLIENT_IDS - 1

SameIdAgain == UNCHANGED <<pc, suspect, trying>> \* mutant
NextId ==
    IF trying = LastId
    THEN Raise /\ UNCHANGED trying
    ELSE trying' = trying + 1 /\ UNCHANGED <<pc, suspect>>

SubscribeOk ==
    /\ pc["worker"] = "walk"
    /\ up
    /\ lease[trying] = "free"
    /\ lease' = [lease EXCEPT ![trying] = "held"]
    /\ Take("worker", trying)
    /\ Goto("worker", "bind")
    /\ UNCHANGED <<up, life, cached, trying, kind, overlap, suspect>>

(* The grant may come after the client gave up; the stream is left open.   *)
SubscribeFail ==
    /\ pc["worker"] = "walk"
    /\ \/ UNCHANGED lease
       \/ up /\ lease[trying] = "free" /\ lease' = [lease EXCEPT ![trying] = "stale"]
    /\ NextId
    /\ UNCHANGED <<up, life, cached, hand, kind, overlap>>

BindOk ==
    /\ pc["worker"] = "bind"
    /\ Works(hand["worker"])
    /\ Goto("worker", "publish")
    /\ UNCHANGED <<up, lease, life, cached, hand, trying, kind, overlap, suspect>>

TornDown(id) == [i \in Ids |-> IF i = id /\ lease[i] = "held" THEN "free" ELSE lease[i]]

BindFail ==
    /\ pc["worker"] = "bind"
    /\ lease' = TornDown(hand["worker"])
    /\ Take("worker", NoId)
    /\ Raise
    /\ UNCHANGED <<up, life, cached, trying, kind, overlap>>

Publish ==
    /\ pc["worker"] = "publish"
    /\ cached' = hand["worker"]
    /\ Take("worker", NoId)
    /\ Goto("worker", Connected)
    /\ suspect' = FALSE
    /\ UNCHANGED <<up, lease, life, trying, kind, overlap>>

(* _connection: another thread may have dropped it meanwhile.              *)
Fetch ==
    /\ pc["worker"] = "fetch"
    /\ IF cached = NoId
       THEN Raise /\ UNCHANGED hand
       ELSE Take("worker", cached) /\ Goto("worker", "rpc") /\ UNCHANGED suspect
    /\ UNCHANGED <<up, lease, life, cached, trying, kind, overlap>>

RpcOk ==
    /\ pc["worker"] = "rpc"
    /\ Works(hand["worker"])
    /\ Take("worker", NoId)
    /\ Goto("worker", "idle")
    /\ UNCHANGED <<up, lease, life, cached, trying, kind, overlap, suspect>>

RpcFail ==
    /\ pc["worker"] = "rpc"
    /\ Take("worker", NoId)
    /\ Raise
    /\ UNCHANGED <<up, lease, life, cached, trying, kind, overlap>>

-----------------------------------------------------------------------------
(* _invalidate, on either thread: read, forget, tear down.                 *)
InvalidateRead(t) ==
    /\ pc[t] = "read"
    /\ Take(t, cached)
    /\ Goto(t, "forget")
    /\ UNCHANGED <<up, lease, life, cached, trying, kind, overlap, suspect>>

KeepIt == cached \* mutant
Forgotten == NoId

InvalidateForget(t) ==
    /\ pc[t] = "forget"
    /\ cached' = Forgotten
    /\ Goto(t, "tear")
    /\ UNCHANGED <<up, lease, life, hand, trying, kind, overlap, suspect>>

InvalidateTear(t) ==
    /\ pc[t] = "tear"
    /\ lease' = TornDown(hand[t])
    /\ Take(t, NoId)
    /\ Goto(t, "idle")
    /\ UNCHANGED <<up, life, cached, trying, kind, overlap, suspect>>

-----------------------------------------------------------------------------
(* The process: when requests are done the lifespan cancels the drift      *)
(* task, which does not stop a thread that reads the table, and calls      *)
(* close. It may die at any time; exit ends what is left. Streams that     *)
(* were open leave their ids leased.                                       *)
NotClosed == "idle" \* mutant
CloseBegins == "read"

BeginClose ==
    /\ life = "up"
    /\ pc["worker"] = "idle" \/ kind = "rpc"
    /\ life' = "closing"
    /\ Goto("closer", CloseBegins)
    /\ overlap' = (pc["worker"] # "idle")
    /\ UNCHANGED <<up, lease, cached, hand, trying, kind, suspect>>

Die ==
    /\ life # "down"
    /\ life' = "down"
    /\ lease' = [id \in Ids |-> IF lease[id] = "held" THEN "stale" ELSE lease[id]]
    /\ cached' = NoId
    /\ pc' = [t \in Threads |-> "idle"]
    /\ hand' = [t \in Threads |-> NoId]
    /\ UNCHANGED <<up, trying, kind, overlap, suspect>>

Start ==
    /\ life = "down"
    /\ Fresh
    /\ UNCHANGED <<up, lease>>

(* bf_switchd: a restart frees every id; a stale stream may close.         *)
SwitchdDown ==
    /\ up
    /\ up' = FALSE
    /\ lease' = [id \in Ids |-> "free"]
    /\ UNCHANGED <<life, cached, pc, hand, trying, kind, overlap, suspect>>

SwitchdUp ==
    /\ ~up
    /\ up' = TRUE
    /\ UNCHANGED <<lease, life, cached, pc, hand, trying, kind, overlap, suspect>>

Expire(id) ==
    /\ lease[id] = "stale"
    /\ lease' = [lease EXCEPT ![id] = "free"]
    /\ UNCHANGED <<up, life, cached, pc, hand, trying, kind, overlap, suspect>>

-----------------------------------------------------------------------------
Next ==
    \/ \E what \in {"status", "rpc"} : Call(what)
    \/ Check \/ SubscribeOk \/ SubscribeFail \/ BindOk \/ BindFail \/ Publish
    \/ Fetch \/ RpcOk \/ RpcFail
    \/ \E t \in Threads : InvalidateRead(t) \/ InvalidateForget(t) \/ InvalidateTear(t)
    \/ BeginClose \/ Die \/ Start
    \/ SwitchdDown \/ SwitchdUp
    \/ \E id \in Ids : Expire(id)

Spec == Init /\ [][Next]_vars

(* Threads run, and every call to the device returns in the end. Somebody  *)
(* goes on asking; what may succeed again and again at last succeeds.      *)
Fairness ==
    /\ WF_vars(Check) /\ WF_vars(SubscribeFail) /\ WF_vars(BindFail)
    /\ WF_vars(Publish) /\ WF_vars(Fetch) /\ WF_vars(RpcFail)
    /\ \A t \in Threads :
          WF_vars(InvalidateRead(t) \/ InvalidateForget(t) \/ InvalidateTear(t))
    /\ SF_vars(Call("rpc")) /\ SF_vars(SubscribeOk) /\ SF_vars(BindOk) /\ SF_vars(RpcOk)

FairSpec == Spec /\ Fairness

-----------------------------------------------------------------------------
Connecting == {"bind", "publish"}
Invalidating == {"read", "forget", "tear"}

(* Every variable holds a value the code can put there; the walk stays in  *)
(* the range of ids; only an uncached connection is in the hand that       *)
(* connects, and the closer only invalidates.                              *)
TypeOK ==
    /\ up \in BOOLEAN
    /\ lease \in [Ids -> {"free", "held", "stale"}]
    /\ life \in {"up", "closing", "down"}
    /\ cached \in Ids \cup {NoId}
    /\ pc \in [Threads -> {"idle", "check", "walk", "fetch", "rpc"} \cup Connecting \cup Invalidating]
    /\ pc["closer"] \in {"idle"} \cup Invalidating
    /\ hand \in [Threads -> Ids \cup {NoId}]
    /\ trying \in Ids
    /\ kind \in {"status", "rpc"}
    /\ overlap \in BOOLEAN
    /\ suspect \in BOOLEAN

(* While the process runs it holds at most one id, and knows the           *)
(* connection it holds it for: the cached one, or the one its only call    *)
(* is making or tearing down. bfrt.py:83: an id nobody tears down is taken *)
(* for good. An id granted after the walk gave up on it is not among them: *)
(* the process does not know of it and will not tear it down (stale).      *)
LeaseOwned ==
    life = "up" =>
        \A id \in Held :
            /\ id \in {cached, hand["worker"]}
            /\ \A other \in Held : other = id

(* When an orderly end (main.py:94) is over, the id was given back; a      *)
(* drift check under way may have connected anew behind close, but even    *)
(* then no more than one id is left.                                       *)
CleanStop ==
    life = "closing" /\ (\A t \in Threads : pc[t] = "idle") =>
        \A id \in Held : overlap /\ \A other \in Held : other = id

(* After a call that failed no connection is left that status would answer *)
(* for without asking: the next call is made on a new one.                 *)
FailureForgets == suspect /\ pc["worker"] = "idle" => cached = NoId

(* How far the worker is from the end of its call: the ids it has left to  *)
(* try, and the places behind the walk.                                    *)
StepsAhead ==
    CASE pc["worker"] = "idle" -> 0
      [] pc["worker"] = "tear" -> 1
      [] pc["worker"] = "forget" -> 2
      [] pc["worker"] = "read" -> 3
      [] pc["worker"] = "rpc" -> 4
      [] pc["worker"] = "fetch" -> 5
      [] pc["worker"] = "publish" -> 6
      [] pc["worker"] = "bind" -> 7
      [] pc["worker"] = "walk" -> 7 + (CLIENT_IDS - trying)
      [] pc["worker"] = "check" -> 8 + CLIENT_IDS

WorkerStep ==
    \/ Check \/ SubscribeOk \/ SubscribeFail \/ BindOk \/ BindFail \/ Publish
    \/ Fetch \/ RpcOk \/ RpcFail
    \/ InvalidateRead("worker") \/ InvalidateForget("worker") \/ InvalidateTear("worker")

Nearer ==
    /\ WorkerStep => StepsAhead' < StepsAhead
    /\ (\A what \in {"status", "rpc"} : ~Call(what)) => StepsAhead' <= StepsAhead

(* A call tries each id once at most and comes to an end, in steps whose   *)
(* number the ids bound: nothing that bf_switchd, the closer or a failure  *)
(* does sends it back.                                                     *)
CallsEnd == [][Nearer]_vars


=============================================================================
