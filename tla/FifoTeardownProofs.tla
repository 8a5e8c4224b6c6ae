------------------------- MODULE FifoTeardownProofs -------------------------
(***************************************************************************)
(* Proofs about closing links and taking services offline in FifoService,  *)
(* for every set of threads, services and calls and every size of the      *)
(* tables, and an application that leaves the links that a service closes  *)
(* to that service (~ClosesAll).  Both ends of a link may be closed at     *)
(* once, and services go offline at once.                                  *)
(*                                                                         *)
(* The argument: at every moment an open link is in the custody of one     *)
(* party, which alone may close it: the thread that works on it, the       *)
(* application, the service that lists it, or the thread that closes it    *)
(* (CustodyInv).  Whoever is in custody of an open link finds it in the    *)
(* slot of its ID (MemInv), so that an ID in a list is never another       *)
(* link's.  A daemon and its service are online while anybody works for    *)
(* them, so that what is accepted is listed before the lists are emptied   *)
(* (ServiceInv).  A closer clears its own pointer while it holds the       *)
(* link's Mutex; when the closers of both ends hold theirs, each finds the *)
(* other's taken and both pointers are clear already (PeersInv).           *)
(***************************************************************************)
EXTENDS FifoServiceProofs, FiniteSetTheorems

WorkLabels == {"findService", "lockConn", "waitAccepted", "poll", "waitNewConn", "track"}
CloseLabels == {"close", "lockLink", "clearPeer", "freeLink", "aborted"}
ClosingLabels == {"closeAccepted", "lockLink", "clearPeer", "freeLink", "countFree", "aborted"}
AcceptLabels == {"poll", "waitNewConn", "track"}
Open(o) == link[o].mem = "open"

(* Who uses a link object: the thread that connects or accepts with it, and the one that closes it. *)
Works(t) == pc[t] \in WorkLabels
Closes(t) == pc[t] \in CloseLabels
Worked(o) == \E t \in Threads : Works(t) /\ op[t].obj = o
Closing(o) == \E t \in Users : Closes(t) /\ op[t].obj = o

-----------------------------------------------------------------------------
(* Nobody connects to, accepts for or takes offline a service that goes offline, and a thread is where *)
(* its call takes it.                                                                                 *)
Teardown == {"close", "offline"}
Excludes == \A t, u \in Users :
    /\ InCall(t, {"offline"}) /\ InCall(u, {"connect", "accept"}) => op[t].srv # op[u].srv
    /\ InCall(t, {"offline"}) /\ InCall(u, {"offline"}) /\ op[t].srv = op[u].srv => t = u
LabelOK(t) ==
    /\ pc[t] = "close" => InCall(t, {"close"})
    /\ pc[t] \in {"lockLink", "clearPeer", "freeLink", "aborted"} => InCall(t, Teardown)
    /\ pc[t] = "countFree" => InCall(t, {"accept", "close", "offline"})
    /\ pc[t] \in {"offline", "joinDaemon", "closeAccepted"} => InCall(t, {"offline"})
    /\ pc[t] \in {"accept", "poll", "waitNewConn", "track"} => InCall(t, {"accept"})
    /\ pc[t] \in {"connect", "findService", "lockConn", "waitAccepted"} => InCall(t, {"connect"})
IdleOK(t) == pc[t] = "idle" => op[t] = NoOp
CallsInv == Excludes /\ \A t \in Users : LabelOK(t) /\ IdleOK(t)

(* A step of a thread leaves it in its call, or ends the call. *)
StaysInCall(u) == \/ op'[u].api = op[u].api /\ op'[u].srv = op[u].srv
                  \/ op'[u] = NoOp
KeepsCall(u) == StaysInCall(u) /\ LabelOK(u)'

(* A step of a user that ends its call leaves no call behind. *)
LEMMA UserActionEndsCall ==
    ASSUME TypeInv, NEW t \in Users, UserAction(t) \/ AcceptAction(t) \/ onlineService(t), ~CallApi(t)
    PROVE  IdleOK(t)'
<1>0. CtlType /\ OpOK /\ t \in Threads /\ t \notin Services
  BY ConstantsOK DEF TypeInv, TypeOK, CtlType, Threads
<1> USE DEF IdleOK, Goto, Return, CtlType
<1>1. CASE onlineService(t)
  <2>1. op[t].srv \in Services
    BY <1>0, <1>1 DEF onlineService, OpOK, ThreadOK, Threads
  <2> QED
    BY <1>0, <1>1, <2>1 DEF onlineService
<1>2. CASE allocConnecting(t)
  BY <1>0, <1>2 DEF allocConnecting
<1>3. CASE findService(t)
  BY <1>0, <1>3 DEF findService, failConnect
<1>4. CASE offerConnection(t)
  BY <1>0, <1>4 DEF offerConnection
<1>5. CASE finishConnect(t)
  BY <1>0, <1>5 DEF finishConnect, failConnect
<1>6. CASE refuseAccept(t)
  BY <1>0, <1>6 DEF refuseAccept
<1>7. CASE allocAccepting(t)
  BY <1>0, <1>7 DEF allocAccepting
<1>8. CASE noOffer(t) \/ rejectOffer(t) \/ wakeAcceptor(t)
  BY <1>0, <1>8 DEF noOffer, rejectOffer, wakeAcceptor
<1>9. CASE acceptOffer(t)
  BY <1>0, <1>9 DEF acceptOffer
<1>10. CASE trackManual(t)
  BY <1>0, <1>10 DEF trackManual
<1>11. CASE closeLink(t)
  BY <1>0, <1>11 DEF closeLink, beginClose
<1>12. CASE lockLink(t)
  BY <1>0, <1>12 DEF lockLink
<1>13. CASE clearPeer(t)
  BY <1>0, <1>13 DEF clearPeer
<1>14. CASE freeLink(t)
  BY <1>0, <1>14 DEF freeLink
<1>15. CASE offlineService(t)
  BY <1>0, <1>15 DEF offlineService
<1>16. CASE joinDaemon(t)
  BY <1>0, <1>16 DEF joinDaemon
<1>17. CASE closeDaemonLink(t)
  BY <1>0, <1>17 DEF closeDaemonLink
<1>18. CASE closeManualLink(t)
  BY <1>0, <1>18 DEF closeManualLink, beginClose
<1>19. CASE finishOffline(t)
  BY <1>0, <1>19 DEF finishOffline
<1>20. CASE acceptTimedOut(t)
  BY <1>0, <1>20 DEF acceptTimedOut
<1>21. CASE countFreed(t)
  BY <1>0, <1>21 DEF countFreed
<1> QED
  BY <1>1, <1>2, <1>3, <1>4, <1>5, <1>6, <1>7, <1>8, <1>9, <1>10, <1>11, <1>12, <1>13, <1>14, <1>15, <1>16,
     <1>17, <1>18, <1>19, <1>20, <1>21 DEF UserAction, AcceptAction

(* A step of a user leaves it in its call, at a label of that call. *)
LEMMA UserActionKeepsCall ==
    ASSUME TypeInv, NEW t \in Users, LabelOK(t),
           UserAction(t) \/ AcceptAction(t) \/ onlineService(t), ~CallApi(t)
    PROVE  KeepsCall(t)
<1>0. CtlType /\ OpOK /\ t \in Threads /\ t \notin Services
  BY ConstantsOK DEF TypeInv, TypeOK, CtlType, Threads
<1> USE DEF StaysInCall, KeepsCall, LabelOK, InCall, Goto, Return, NoOp, Teardown, CtlType, OpRecords
<1>1. CASE onlineService(t)
  <2>1. op[t].srv \in Services
    BY <1>0, <1>1 DEF onlineService, OpOK, ThreadOK, Threads
  <2>2. pc'[t] = "idle" /\ op'[t] = NoOp
    BY <1>0, <1>1, <2>1 DEF onlineService
  <2> QED
    BY <2>2
<1>2. CASE allocConnecting(t)
  <2>1. pc[t] = "connect"
    BY <1>2 DEF allocConnecting
  <2>2. (pc'[t] = "findService" /\ op' = op) \/ (pc'[t] = "idle" /\ op'[t] = NoOp)
    BY <1>0, <1>2 DEF allocConnecting
  <2> QED
    BY <2>1, <2>2
<1>3. CASE findService(t)
  <2>1. pc[t] = "findService"
    BY <1>3 DEF findService
  <2>2. (pc'[t] = "lockConn" /\ op' = op) \/ (pc'[t] = "idle" /\ op'[t] = NoOp)
    BY <1>0, <1>3 DEF findService, failConnect
  <2> QED
    BY <2>1, <2>2
<1>4. CASE offerConnection(t)
  <2>1. pc[t] = "lockConn"
    BY <1>4 DEF offerConnection
  <2>2. pc'[t] = "waitAccepted" /\ op' = op
    BY <1>0, <1>4 DEF offerConnection
  <2> QED
    BY <2>1, <2>2
<1>5. CASE finishConnect(t)
  <2>1. pc[t] = "waitAccepted"
    BY <1>5 DEF finishConnect
  <2>2. pc'[t] = "idle" /\ op'[t] = NoOp
    BY <1>0, <1>5 DEF finishConnect, failConnect
  <2> QED
    BY <2>1, <2>2
<1>6. CASE refuseAccept(t)
  BY <1>0, <1>6 DEF refuseAccept
<1>7. CASE allocAccepting(t)
  BY <1>0, <1>7 DEF allocAccepting
<1>8. CASE noOffer(t) \/ rejectOffer(t) \/ wakeAcceptor(t)
  BY <1>0, <1>8 DEF noOffer, rejectOffer, wakeAcceptor
<1>9. CASE acceptOffer(t)
  <2>1. pc[t] = "poll"
    BY <1>9 DEF acceptOffer
  <2>2. pc'[t] = "track" /\ op' = op
    BY <1>0, <1>9 DEF acceptOffer
  <2> QED
    BY <2>1, <2>2
<1>10. CASE trackManual(t)
  BY <1>0, <1>10 DEF trackManual
<1>11. CASE closeLink(t)
  <2>1. (pc'[t] = "idle" /\ op'[t] = NoOp) \/ (pc'[t] \in {"lockLink", "aborted"} /\ op' = [op EXCEPT ![t].obj = getLinkObj(op[t].obj)])
    BY <1>0, <1>11 DEF closeLink, beginClose
  <2>2. pc[t] = "close"
    BY <1>11 DEF closeLink
  <2> QED
    BY <1>0, <2>1, <2>2
<1>12. CASE lockLink(t)
  BY <1>0, <1>12 DEF lockLink
<1>13. CASE clearPeer(t)
  BY <1>0, <1>13 DEF clearPeer
<1>14. CASE freeLink(t)
  <2>1. /\ pc[t] = "freeLink" /\ op' = op
        /\ pc'[t] = "countFree" \/ (pc'[t] = "closeAccepted" /\ InCall(t, {"offline"}))
    BY <1>0, <1>14 DEF freeLink, ProtocolOnly
  <2> QED
    BY <2>1
<1>15. CASE offlineService(t)
  BY <1>0, <1>15 DEF offlineService
<1>16. CASE joinDaemon(t)
  BY <1>0, <1>16 DEF joinDaemon
<1>17. CASE closeDaemonLink(t)
  BY <1>0, <1>17 DEF closeDaemonLink
<1>18. CASE closeManualLink(t)
  <2>1. pc'[t] \in {"closeAccepted", "lockLink", "aborted"} /\ (op' = op \/ op' = [op EXCEPT ![t].obj = ManualLink(t)])
    <3>1. CASE ManualLink(t) = Null
      BY <1>0, <1>18, <3>1 DEF closeManualLink, ManualLink, ManualId, ManualEntry
    <3>2. CASE ManualLink(t) # Null
      BY <1>0, <1>18, <3>2 DEF closeManualLink, beginClose, ManualLink, ManualId, ManualEntry
    <3> QED
      BY <3>1, <3>2
  <2>2. pc[t] = "closeAccepted"
    BY <1>18 DEF closeManualLink
  <2> QED
    BY <1>0, <2>1, <2>2
<1>19. CASE finishOffline(t)
  BY <1>0, <1>19 DEF finishOffline
<1>20. CASE acceptTimedOut(t)
  <2>1. pc[t] = "waitNewConn" /\ pc'[t] = "countFree" /\ op' = op
    BY <1>0, <1>20 DEF acceptTimedOut
  <2> QED
    BY <2>1
<1>21. CASE countFreed(t)
  <2>1. \/ pc'[t] = "idle" /\ op'[t] = NoOp
        \/ pc'[t] = "closeAccepted" /\ op' = op /\ InCall(t, {"offline"})
    BY <1>0, <1>21 DEF countFreed
  <2> QED
    BY <2>1
<1> QED
  BY <1>1, <1>2, <1>3, <1>4, <1>5, <1>6, <1>7, <1>8, <1>9, <1>10, <1>11, <1>12, <1>13, <1>14, <1>15, <1>16,
     <1>17, <1>18, <1>19, <1>20, <1>21 DEF UserAction, AcceptAction

(* What CallApi does. *)
Calls(t, c, o) ==
    /\ c \in UserOps /\ c \in Ops /\ MayCall(t, c) /\ o \in Objs
    /\ pc[t] = "idle" /\ calls[t] < MaxCalls
    /\ pc'[t] = c.api /\ op'[t].api = c.api /\ op'[t].srv = c.srv /\ op'[t].obj = o
    /\ calls'[t] = calls[t] + 1
    /\ \/ c.api = "close" /\ MayClose(o) /\ owned' = owned \ {o}
       \/ c.api # "close" /\ o = <<t, calls[t] + 1>> /\ owned' = owned
    /\ UNCHANGED <<tbl, link, srv, accepted>>

(* A call begins like this, and the other threads wait. *)
LEMMA CallEffects ==
    ASSUME TypeInv, NEW t \in Users, CallApi(t)
    PROVE  OthersWait(t) /\ \E c \in UserOps, o \in Objs : Calls(t, c, o)
<1>0. CtlType /\ AppType /\ OpOK /\ t \in Threads
  BY DEF TypeInv, TypeOK, CtlType, AppType, Threads
<1>1. OthersWait(t)
  BY <1>0, ActsAlone DEF UserAction
<1>a. PICK c \in UserOps :
        /\ MayCall(t, c)
        /\ \E o \in IF c.api = "close" THEN {p \in Objs : MayClose(p)} ELSE {<<t, calls[t] + 1>>} :
            /\ op' = [op EXCEPT ![t] = [api |-> c.api, srv |-> c.srv, usage |-> c.usage, timed |-> c.timed,
                                        obj |-> o, peer |-> Null]]
            /\ pc' = [pc EXCEPT ![t] = c.api]
            /\ owned' = IF c.api = "close" THEN owned \ {o} ELSE owned
  BY DEF CallApi, Goto
<1>2. PICK o \in (IF c.api = "close" THEN {p \in Objs : MayClose(p)} ELSE {<<t, calls[t] + 1>>}) :
         /\ op' = [op EXCEPT ![t] = [api |-> c.api, srv |-> c.srv, usage |-> c.usage, timed |-> c.timed,
                                     obj |-> o, peer |-> Null]]
         /\ pc' = [pc EXCEPT ![t] = c.api]
         /\ owned' = IF c.api = "close" THEN owned \ {o} ELSE owned
  BY <1>a
<1>3. /\ calls' = [calls EXCEPT ![t] = @ + 1] /\ pc[t] = "idle" /\ calls[t] < MaxCalls
      /\ UNCHANGED <<tbl, link, srv, accepted>>
  BY DEF CallApi, tblVars
<1>4. c \in Ops /\ calls[t] \in Nat /\ calls[t] < MaxObjs
  BY <1>0, <1>3, ConstantsOK DEF AppType
<1>5. o \in Objs
  BY <1>0, <1>2, <1>4, NextObj DEF AppType
<1>6. pc'[t] = c.api /\ op'[t].api = c.api /\ op'[t].srv = c.srv /\ op'[t].obj = o /\ calls'[t] = calls[t] + 1
  BY <1>0, <1>2, <1>3 DEF CtlType, AppType
<1>7. Calls(t, c, o)
  BY <1>a, <1>2, <1>3, <1>4, <1>5, <1>6 DEF Calls
<1> QED
  BY <1>1, <1>5, <1>7

(* The discipline of the calls, and the labels of each, hold after every step. *)
LEMMA NextCallsInv == ASSUME TypeInv, CallsInv, Next PROVE CallsInv'
<1>0. CtlType /\ AppType /\ OpOK
  BY DEF TypeInv, TypeOK, CtlType, AppType
<1>1. ASSUME NEW t \in Users, CallApi(t) PROVE CallsInv'
  <2>1. PICK c \in UserOps, o \in Objs : Calls(t, c, o)
    BY <1>1, CallEffects
  <2>2. \A u \in Users : u # t => pc'[u] = pc[u] /\ op'[u] = op[u]
    BY <1>1, CallEffects DEF OthersWait, Threads
  <2>3. MayCall(t, c) /\ op'[t].api = c.api /\ op'[t].srv = c.srv /\ pc'[t] = c.api /\ c.api \in {"online", "offline", "connect", "accept", "close"}
    BY <2>1 DEF Calls, Ops
  <2>4. \A u \in Users \ {t} : op'[u].srv = c.srv =>
           /\ c.api = "offline" => ~InCall(u, {"connect", "accept", "offline"})'
           /\ c.api \in {"connect", "accept"} => ~InCall(u, {"offline"})'
    BY <2>2, <2>3 DEF MayCall, InCall
  <2>5. Excludes'
    BY <2>1, <2>2, <2>3, <2>4 DEF Calls, CallsInv, Excludes, InCall
  <2>6. \A u \in Users : LabelOK(u)' /\ IdleOK(u)'
    BY <2>2, <2>3 DEF CallsInv, LabelOK, IdleOK, InCall, Teardown
  <2> QED
    BY <2>5, <2>6 DEF CallsInv
<1>2. ASSUME NEW t \in Threads,
             \A u \in Users : (u # t => pc'[u] = pc[u] /\ op'[u] = op[u]) /\ (u = t => KeepsCall(t) /\ IdleOK(t)')
      PROVE  CallsInv'
  <2>1. \A u \in Users : KeepsCall(u) /\ IdleOK(u)'
    BY <1>2 DEF KeepsCall, StaysInCall, CallsInv, LabelOK, IdleOK, InCall
  <2>2. \A u \in Users : \A apis \in {{"offline"}, {"connect", "accept"}} :
           InCall(u, apis)' => InCall(u, apis) /\ op'[u].srv = op[u].srv
    BY <2>1 DEF KeepsCall, StaysInCall, InCall, NoOp
  <2>4. Excludes'
    BY <2>2 DEF CallsInv, Excludes
  <2> QED
    BY <2>1, <2>4 DEF CallsInv, KeepsCall
<1>3. ASSUME NEW t \in Users, onlineService(t) PROVE CallsInv'
  <2>1. op[t].srv \in Services /\ KeepsCall(t) /\ IdleOK(t)'
    <3>1. pc[t] = "online" /\ ~CallApi(t)
      BY <1>3 DEF onlineService, CallApi
    <3>2. KeepsCall(t) /\ IdleOK(t)'
      BY <1>3, <3>1, UserActionKeepsCall, UserActionEndsCall DEF CallsInv
    <3> QED
      BY <1>0, <3>1, <3>2 DEF OpOK, ThreadOK, Threads
  <2>2. \A u \in Users : u # t => pc'[u] = pc[u] /\ op'[u] = op[u]
    BY <1>0, <1>3, <2>1, ConstantsOK DEF onlineService, Return, CtlType, Threads
  <2> QED
    BY <1>2, <2>1, <2>2 DEF Threads
<1>4. ASSUME NEW t \in Threads, ~CallApi(t),
             (t \in Users /\ UserAction(t)) \/ (t \in Services /\ DaemonAction(t)) \/ AcceptAction(t)
      PROVE  CallsInv'
  <2>1. \A u \in Users : u # t => pc'[u] = pc[u] /\ op'[u] = op[u]
    BY <1>0, <1>4, ActsAlone DEF OthersWait, Threads
  <2>2. t \in Users => KeepsCall(t) /\ IdleOK(t)'
    BY <1>4, UserActionKeepsCall, UserActionEndsCall, ConstantsOK DEF CallsInv
  <2> QED
    BY <1>2, <2>1, <2>2
<1>5. \A t \in Threads : CallApi(t) => t \in Users
  BY DEF CallApi
<1>6. CASE \E t \in Threads : CallApi(t)
  BY <1>1, <1>5, <1>6
<1>7. PICK t \in Threads : \/ t \in Users /\ (onlineService(t) \/ UserAction(t))
                           \/ t \in Services /\ DaemonAction(t)
                           \/ AcceptAction(t)
  BY NextIsAction
<1> QED
  BY <1>3, <1>4, <1>6, <1>7

-----------------------------------------------------------------------------
(* What a step does to the link objects and their table: nothing, or one of the following. *)
SameLink(o) == /\ link'[o].mem = link[o].mem /\ link'[o].id = link[o].id
               /\ link'[o].pPeer = link[o].pPeer /\ link'[o].locked = link[o].locked
SameTable == tbl' = tbl /\ \A o \in Objs : SameLink(o)
OtherLinks(o) == \A p \in Objs \ {o} : SameLink(p)
Allocates(t, o) ==
    /\ o \in Objs /\ o = <<t, calls'[t]>> /\ ~Works(t) /\ Works(t)' /\ op'[t].obj = o
    /\ \/ t \in Users /\ pc[t] \in {"connect", "accept"} /\ op[t].obj = o
       \/ t \in Services /\ calls'[t] = calls[t] + 1
    /\ \E i \in Slots : tbl[i] = Null /\ tbl' = [tbl EXCEPT ![i] = o] /\ link'[o].id = i
    /\ LinkCount' = LinkCount + 1
    /\ Open(o)' /\ link'[o].pPeer = Null /\ link'[o].locked = FALSE /\ OtherLinks(o)
Ends(o, mem) == /\ link'[o].mem = mem /\ link'[o].id = link[o].id
                /\ link'[o].pPeer = link[o].pPeer /\ link'[o].locked = link[o].locked /\ OtherLinks(o)
Leaks(t, o, mem) == tbl' = tbl /\ Ends(o, mem)
Frees(o) == /\ tbl' = [tbl EXCEPT ![link[o].id] = Null]
            /\ Ends(o, "freed")
(* A connector whose connection failed, and an acceptor that timed out. *)
GivesUp(t, o) ==
    /\ t \in Users /\ o \in Objs /\ o = op[t].obj /\ Works(t) /\ pc'[t] \in {"idle", "countFree"} /\ link[o].pPeer = Null
    /\ Leaks(t, o, "freed") \/ Frees(o)
Closed(t, o) ==
    /\ t \in Users /\ o \in Objs /\ o = op[t].obj /\ pc[t] = "freeLink" /\ ~Closes(t)'
    /\ Frees(o) \/ Leaks(t, o, "closed")
SameMemory(o) == link'[o].mem = link[o].mem /\ link'[o].id = link[o].id
SameMemories == tbl' = tbl /\ \A o \in Objs : SameMemory(o)
Pairs(t, o, c) ==
    /\ SameMemories /\ o \in Objs /\ c \in Objs /\ o = op[t].obj /\ pc[t] = "poll"
    /\ \E w \in Users : pc[w] = "waitAccepted" /\ op[w].obj = c
    /\ o # c /\ link[o].pPeer = Null /\ link[c].pPeer = Null /\ link'[o].pPeer = c /\ link'[c].pPeer = o
    /\ \A p \in Objs : link'[p].locked = link[p].locked
    /\ \A p \in Objs \ {o, c} : link'[p].pPeer = link[p].pPeer
Locks(t) ==
    /\ SameMemories /\ t \in Users /\ op[t].obj \in Objs /\ pc[t] = "lockLink" /\ pc'[t] = "clearPeer" /\ op'[t].obj = op[t].obj
    /\ link[op[t].obj].pPeer # Null /\ op'[t].peer = link[op[t].obj].pPeer
    /\ link'[op[t].obj].pPeer = Null /\ link'[op[t].obj].locked /\ OtherLinks(op[t].obj)
Unpeers(t) ==
    /\ SameMemories /\ t \in Users /\ op[t].obj \in Objs /\ op[t].peer \in Objs
    /\ pc[t] = "clearPeer" /\ pc'[t] = "freeLink" /\ op'[t].obj = op[t].obj
    /\ \A p \in Objs : link'[p].locked = (link[p].locked /\ p # op[t].obj)
    /\ \A p \in Objs \ {op[t].peer} : link'[p].pPeer = link[p].pPeer
    /\ link'[op[t].peer].pPeer = IF link[op[t].peer].locked THEN link[op[t].peer].pPeer ELSE Null
TableStep ==
    \/ SameTable
    \/ \E t \in Threads, o \in Objs : Allocates(t, o) \/ GivesUp(t, o) \/ Closed(t, o)
    \/ \E t \in Threads, o, c \in Objs : acceptOffer(t) /\ Pairs(t, o, c)
    \/ \E t \in Users : lockLink(t) /\ Locks(t)
    \/ \E t \in Users : clearPeer(t) /\ Unpeers(t)

(* Changing a ConnState leaves the rest of every link as it is, *)
LEMMA ConnStateSame ==
    ASSUME LinkType, NEW x, NEW state, link' = [link EXCEPT ![x].ConnState = state]
    PROVE  \A o \in Objs : SameLink(o)
BY DEF LinkType, LinkRecords, SameLink

(* so does marking a link as accepted or connected, *)
LEMMA MarkSame ==
    ASSUME LinkType, NEW x, NEW methods, NEW state,
           \/ link' = [link EXCEPT ![x].pMethods = methods]
           \/ link' = [link EXCEPT ![x].pMethods = methods, ![x].ConnState = state]
    PROVE  \A o \in Objs : SameLink(o)
<1>1. CASE link' = [link EXCEPT ![x].pMethods = methods]
  BY <1>1 DEF LinkType, LinkRecords, SameLink
<1>2. CASE link' = [link EXCEPT ![x].pMethods = methods, ![x].ConnState = state]
  <2>1. \A o \in Objs : o # x => link'[o] = link[o]
    BY <1>2 DEF LinkType
  <2>2. x \in Objs => link'[x] = [[link[x] EXCEPT !.pMethods = methods] EXCEPT !.ConnState = state]
    BY <1>2 DEF LinkType
  <2>3. x \in Objs => SameLink(x)
    BY <2>2 DEF LinkType, LinkRecords, SameLink
  <2> QED
    BY <2>1, <2>3 DEF SameLink
<1> QED
  BY <1>1, <1>2

(* and changing the memory of a link ends that link. *)
LEMMA MemEnds ==
    ASSUME LinkType, NEW o \in Objs, NEW mem, link' = [link EXCEPT ![o].mem = mem]
    PROVE  Ends(o, mem)
BY DEF LinkType, LinkRecords, SameLink, Ends, OtherLinks

(* Allocating takes a free slot and opens the link. *)
LEMMA AllocStep ==
    ASSUME LinkType, TblType, NEW o \in Objs, NEW usage, NEW state, NEW methods,
           allocLinkObj(o, usage, state, methods)
    PROVE  /\ \E i \in Slots : tbl[i] = Null /\ tbl' = [tbl EXCEPT ![i] = o] /\ link'[o].id = i
           /\ LinkCount' = LinkCount + 1
           /\ Open(o)' /\ link'[o].pPeer = Null /\ link'[o].locked = FALSE /\ OtherLinks(o)
<1>1. FreeSlots # {} /\ tbl' = [tbl EXCEPT ![FirstFree] = o] /\ LinkCount' = LinkCount + 1
  BY DEF allocLinkObj
<1>2. FirstFree \in Slots /\ tbl[FirstFree] = Null
  BY <1>1, FirstFreeIsFree
<1>3. link' = [link EXCEPT ![o] = [Unused EXCEPT !.mem = "open", !.id = FirstFree, !.pMethods = methods,
                                                !.usage = usage, !.ConnState = state]]
  BY DEF allocLinkObj
<1> DEFINE new == [Unused EXCEPT !.mem = "open", !.id = FirstFree, !.pMethods = methods,
                                 !.usage = usage, !.ConnState = state]
<1>4. new.mem = "open" /\ new.id = FirstFree /\ new.pPeer = Null /\ new.locked = FALSE
  BY DEF Unused
<1>5. link'[o] = new /\ \A p \in Objs \ {o} : link'[p] = link[p]
  BY <1>3 DEF LinkType
<1> HIDE DEF new
<1>6. OtherLinks(o)
  BY <1>5 DEF OtherLinks, SameLink
<1> QED
  BY <1>1, <1>2, <1>4, <1>5, <1>6 DEF Open

(* What allocating does, for a caller and for a daemon. *)
LEMMA AllocEffects ==
    ASSUME IInv, NEW t \in Users, allocConnecting(t) \/ allocAccepting(t)
    PROVE  \/ link' = link /\ UNCHANGED tblVars /\ pc'[t] = "idle"
           \/ \E o \in Objs : Allocates(t, o)
<1>0. LinkType /\ TblType /\ OpOK /\ AppType /\ CtlType
  BY DEF IInv, TypeInv, TypeOK, LinkType, TblType, AppType, CtlType
<1>1. /\ pc[t] \in {"connect", "accept"} /\ pc[t] \in OwnObjLabels /\ t \in Threads
      /\ calls' = calls
      /\ \/ link' = link /\ UNCHANGED tblVars /\ pc' = [pc EXCEPT ![t] = "idle"]
         \/ /\ \E usage, state, methods : allocLinkObj(op[t].obj, usage, state, methods)
            /\ pc' = [pc EXCEPT ![t] = "findService"] \/ pc' = [pc EXCEPT ![t] = "poll"]
            /\ op' = op
  BY DEF allocConnecting, allocAccepting, Goto, Return, appVars, Threads, OwnObjLabels, UninvolvedLabels
<1>2. PICK o \in Objs : o = op[t].obj /\ o = <<t, calls[t]>>
  BY <1>0, <1>1, OwnObj
<1>3. CASE link' = link /\ UNCHANGED tblVars /\ pc' = [pc EXCEPT ![t] = "idle"]
  BY <1>0, <1>1, <1>3 DEF CtlType
<1>4. ASSUME NEW usage, NEW state, NEW methods, allocLinkObj(o, usage, state, methods), op' = op,
             pc' = [pc EXCEPT ![t] = "findService"] \/ pc' = [pc EXCEPT ![t] = "poll"]
      PROVE  Allocates(t, o)
  <2>1. /\ \E i \in Slots : tbl[i] = Null /\ tbl' = [tbl EXCEPT ![i] = o] /\ link'[o].id = i
        /\ LinkCount' = LinkCount + 1
        /\ Open(o)' /\ link'[o].pPeer = Null /\ link'[o].locked = FALSE /\ OtherLinks(o)
    BY <1>0, <1>4, AllocStep
  <2>2. ~Works(t) /\ Works(t)' /\ op'[t].obj = o
    BY <1>0, <1>1, <1>2, <1>4 DEF Works, WorkLabels, CtlType
  <2> QED
    BY <1>1, <1>2, <2>1, <2>2 DEF Allocates
<1> QED
  BY <1>1, <1>2, <1>3, <1>4

(* A daemon allocates the next object of its own. *)
LEMMA DaemonAllocEffects == ASSUME IInv, NEW t \in Services, daemonAlloc(t) PROVE \E o \in Objs : Allocates(t, o)
<1>0. LinkType /\ TblType /\ AppType /\ CtlType
  BY DEF IInv, TypeInv, TypeOK, LinkType, TblType, AppType, CtlType
<1>o. PICK o \in Objs : o = <<t, calls[t] + 1>>
  BY <1>0, NextObj DEF daemonAlloc, AppType, Threads
<1>1. /\ t \in Threads /\ pc[t] = "daemon" /\ calls' = [calls EXCEPT ![t] = @ + 1] /\ calls[t] < MaxObjs
      /\ \E usage, state, methods : allocLinkObj(o, usage, state, methods)
      /\ op' = [op EXCEPT ![t].obj = o] /\ pc' = [pc EXCEPT ![t] = "poll"]
  BY <1>o DEF daemonAlloc, Goto, Threads
<1>2. o \in Objs /\ calls'[t] = calls[t] + 1
  BY <1>0, <1>1 DEF AppType
<1>a. ASSUME NEW usage, NEW state, NEW methods, allocLinkObj(o, usage, state, methods)
      PROVE  /\ \E i \in Slots : tbl[i] = Null /\ tbl' = [tbl EXCEPT ![i] = o] /\ link'[o].id = i
             /\ LinkCount' = LinkCount + 1
             /\ Open(o)' /\ link'[o].pPeer = Null /\ link'[o].locked = FALSE /\ OtherLinks(o)
  BY <1>0, <1>2, <1>a, AllocStep
<1>3. /\ \E i \in Slots : tbl[i] = Null /\ tbl' = [tbl EXCEPT ![i] = o] /\ link'[o].id = i
      /\ LinkCount' = LinkCount + 1
      /\ Open(o)' /\ link'[o].pPeer = Null /\ link'[o].locked = FALSE /\ OtherLinks(o)
  BY <1>1, <1>a
<1>4. ~Works(t) /\ Works(t)' /\ op'[t].obj = o
  BY <1>0, <1>1 DEF Works, WorkLabels, CtlType, OpRecords
<1>5. Allocates(t, o)
  BY <1>o, <1>1, <1>2, <1>3, <1>4 DEF Allocates
<1> QED
  BY <1>5

(* A connector is done: its connection was refused, or it has a link. *)
LEMMA ConnectEffects ==
    ASSUME IInv, NEW t \in Users, findService(t) \/ finishConnect(t)
    PROVE  /\ tbl' = tbl
           /\ \/ link' = link /\ Works(t)' /\ op'[t].obj = op[t].obj
              \/ (\A x \in Objs : SameLink(x)) /\ op[t].obj \in owned' /\ pc[t] = "waitAccepted"
              \/ GivesUp(t, op[t].obj)
<1>0. LinkType /\ OpOK /\ AppType /\ CtlType /\ t \in Threads
  BY DEF IInv, TypeInv, TypeOK, LinkType, AppType, CtlType, Threads
<1> DEFINE o == op[t].obj
<1>1. /\ pc[t] \in OwnObjLabels /\ Works(t) /\ tbl' = tbl
      /\ \/ link' = link /\ pc' = [pc EXCEPT ![t] = "lockConn"] /\ op' = op
         \/ /\ \E methods, state : link' = [link EXCEPT ![o].pMethods = methods, ![o].ConnState = state]
            /\ owned' = owned \cup {o} /\ pc[t] = "waitAccepted"
         \/ link' = [link EXCEPT ![o].mem = "freed"] /\ pc' = [pc EXCEPT ![t] = "idle"]
            /\ (pc[t] = "findService" \/ link[o].pPeer = Null)
  BY DEF findService, finishConnect, failConnect, Return, Goto, tblVars, OwnObjLabels, UninvolvedLabels, Works, WorkLabels
<1>2. o \in Objs
  BY <1>0, <1>1, OwnObj
<1>3. CASE link' = link /\ pc' = [pc EXCEPT ![t] = "lockConn"] /\ op' = op
  BY <1>0, <1>1, <1>3 DEF Works, WorkLabels, CtlType
<1>4. CASE link' = [link EXCEPT ![o].mem = "freed"] /\ pc' = [pc EXCEPT ![t] = "idle"]
           /\ (pc[t] = "findService" \/ link[o].pPeer = Null)
  <2>1. Ends(o, "freed")
    BY <1>0, <1>2, <1>4, MemEnds
  <2>2. link[o].pPeer = Null /\ pc'[t] = "idle"
    BY <1>0, <1>2, <1>4 DEF IInv, FreshOK, UninvolvedLabels, CtlType
  <2>3. GivesUp(t, o)
    BY <1>1, <1>2, <2>1, <2>2 DEF GivesUp, Leaks
  <2> QED
    BY <1>1, <2>3
<1>5. ASSUME NEW methods, NEW state, link' = [link EXCEPT ![o].pMethods = methods, ![o].ConnState = state]
      PROVE  \A x \in Objs : SameLink(x)
  BY <1>0, <1>5, MarkSame
<1> QED
  BY <1>1, <1>3, <1>4, <1>5

(* An acceptor that waited long enough gives up. *)
LEMMA TimedOutGivesUp == ASSUME IInv, NEW t \in Users, acceptTimedOut(t) PROVE GivesUp(t, op[t].obj)
<1>0. LinkType /\ OpOK /\ AppType /\ CtlType /\ t \in Threads
  BY DEF IInv, TypeInv, TypeOK, LinkType, AppType, CtlType, Threads
<1>1. /\ pc[t] = "waitNewConn" /\ pc[t] \in OwnObjLabels /\ Works(t)
      /\ freeLinkObj(op[t].obj) /\ pc' = [pc EXCEPT ![t] = "countFree"]
  BY DEF acceptTimedOut, Goto, OwnObjLabels, UninvolvedLabels, Works, WorkLabels
<1>2. op[t].obj \in Objs
  BY <1>0, <1>1, OwnObj
<1>3. Ends(op[t].obj, "freed")
  BY <1>0, <1>1, <1>2, MemEnds DEF freeLinkObj
<1>4. Frees(op[t].obj)
  BY <1>1, <1>3 DEF Frees, freeLinkObj
<1>5. link[op[t].obj].pPeer = Null /\ pc'[t] = "countFree"
  BY <1>0, <1>1, <1>2 DEF IInv, FreshOK, UninvolvedLabels, CtlType
<1> QED
  BY <1>1, <1>2, <1>4, <1>5 DEF GivesUp

(* Closing locks the link, unless it has no peer; then it clears the peer's pointer. *)
LEMMA LockEffects ==
    ASSUME IInv, NEW t \in Users, lockLink(t)
    PROVE  \/ /\ link' = link /\ tbl' = tbl /\ link[op[t].obj].pPeer = Null
              /\ pc'[t] = "freeLink" /\ op' = op
           \/ Locks(t)
<1>0. LinkType /\ OpOK /\ AppType /\ CtlType
  BY DEF IInv, TypeInv, TypeOK, LinkType, AppType, CtlType
<1> DEFINE o == op[t].obj
<1>1. t \in Threads /\ pc[t] = "lockLink" /\ o \in Objs /\ tbl' = tbl
  BY <1>0 DEF lockLink, OpOK, ThreadOK, Threads, tblVars
<1>2. CASE link[o].pPeer = Null
  BY <1>0, <1>1, <1>2 DEF lockLink, Goto, CtlType
<1>3. CASE link[o].pPeer # Null
  <2>1. /\ link' = [link EXCEPT ![o].pPeer = Null, ![o].locked = TRUE] /\ op' = [op EXCEPT ![t].peer = link[o].pPeer]
        /\ pc' = [pc EXCEPT ![t] = "clearPeer"]
    BY <1>3 DEF lockLink, Goto
  <2>2. /\ \A p \in Objs : SameMemory(p)
        /\ OtherLinks(o) /\ link'[o].pPeer = Null /\ link'[o].locked
    <3>1. \A p \in Objs \ {o} : link'[p] = link[p]
      BY <1>0, <1>1, <2>1 DEF LinkType
    <3>2. link'[o].pPeer = Null /\ link'[o].locked /\ link'[o].mem = link[o].mem /\ link'[o].id = link[o].id
      BY <1>0, <1>1, <2>1 DEF LinkType, LinkRecords
    <3> QED
      BY <3>1, <3>2 DEF SameMemory, OtherLinks, SameLink
  <2>3. pc'[t] = "clearPeer" /\ op'[t].obj = o /\ op'[t].peer = link[o].pPeer
    BY <1>0, <1>1, <2>1 DEF CtlType, OpRecords
  <2> QED
    BY <1>1, <1>3, <2>2, <2>3 DEF Locks, SameMemories
<1> QED
  BY <1>2, <1>3

(* clearPeer unlocks the link, and clears the pointer of a peer that is not locked. *)
LEMMA UnpeerEffects == ASSUME IInv, NEW t \in Users, clearPeer(t) PROVE Unpeers(t)
<1>0. LinkType /\ OpOK /\ AppType /\ CtlType
  BY DEF IInv, TypeInv, TypeOK, LinkType, AppType, CtlType
<1> DEFINE o == op[t].obj
           p == op[t].peer
<1>1. t \in Threads /\ pc[t] = "clearPeer" /\ o \in Objs /\ p \in Objs /\ tbl' = tbl
  BY <1>0 DEF clearPeer, OpOK, ThreadOK, Threads, tblVars
<1>2. link' = unpeer(o, p) /\ pc' = [pc EXCEPT ![t] = "freeLink"] /\ op' = [op EXCEPT ![t].peer = Null]
  BY DEF clearPeer, Goto
<1>3. \A x \in Objs : SameMemory(x) /\ link'[x].locked = (link[x].locked /\ x # o)
  <2>1. PICK b \in BOOLEAN : b = FALSE
    OBVIOUS
  <2> DEFINE l == [link EXCEPT ![o].locked = b]
             Unlocked(x) == l[x].mem = link[x].mem /\ l[x].id = link[x].id /\ l[x].locked = (link[x].locked /\ x # o)
  <2>2. \A x \in Objs : link[x] \in LinkRecords
    BY <1>0 DEF LinkType
  <2>3. [link[o] EXCEPT !.locked = b] \in LinkRecords
    BY <1>1, <2>2 DEF LinkRecords
  <2>4. l[o] = [link[o] EXCEPT !.locked = b] /\ (\A x \in Objs \ {o} : l[x] = link[x]) /\ l \in [Objs -> LinkRecords]
    BY <1>0, <1>1, <2>3 DEF LinkType
  <2>5. Unlocked(o)
    <3>1. l[o].mem = link[o].mem /\ l[o].id = link[o].id /\ l[o].locked = b
      BY <1>1, <2>2, <2>4 DEF LinkRecords
    <3> QED
      BY <2>1, <3>1
  <2>6. ASSUME NEW x \in Objs, x # o PROVE Unlocked(x)
    <3>1. l[x] = link[x] /\ link[x].locked \in BOOLEAN
      BY <2>2, <2>4, <2>6 DEF LinkRecords
    <3> QED
      BY <2>6, <3>1
  <2>7. link' = l \/ link' = [l EXCEPT ![p].pPeer = Null]
    BY <1>2, <2>1 DEF unpeer
  <2> HIDE DEF l
  <2>8. \A x \in Objs : link'[x].mem = l[x].mem /\ link'[x].id = l[x].id /\ link'[x].locked = l[x].locked
    BY <1>1, <2>4, <2>7 DEF LinkRecords
  <2> QED
    BY <2>5, <2>6, <2>8 DEF SameMemory
<1>4. /\ \A x \in Objs \ {p} : link'[x].pPeer = link[x].pPeer
      /\ link'[p].pPeer = IF link[p].locked THEN link[p].pPeer ELSE Null
  BY <1>0, <1>1, <1>2 DEF LinkType, LinkRecords, unpeer
<1>5. pc'[t] = "freeLink" /\ op'[t].obj = o
  BY <1>0, <1>1, <1>2 DEF CtlType, OpRecords
<1> QED
  BY <1>1, <1>3, <1>4, <1>5 DEF Unpeers, SameMemories

(* At last the memory is freed, but not that of a broadcast link whose service goes offline. *)
LEMMA FreeEffects == ASSUME IInv, NEW t \in Users, freeLink(t) PROVE Closed(t, op[t].obj)
<1>0. LinkType /\ OpOK /\ AppType /\ CtlType
  BY DEF IInv, TypeInv, TypeOK, LinkType, AppType, CtlType
<1> DEFINE o == op[t].obj
<1>1. t \in Threads /\ pc[t] = "freeLink" /\ o \in Objs /\ op[t].srv \in Services
  BY <1>0 DEF freeLink, OpOK, ThreadOK, Threads
<1>2. ~Closes(t)'
  BY <1>0, <1>1 DEF freeLink, Goto, Closes, CloseLabels, CtlType
<1>3. CASE ProtocolOnly(t)
  <2>1. link' = [link EXCEPT ![o].mem = "closed"] /\ tbl' = tbl
    BY <1>3 DEF freeLink, tblVars
  <2>2. Ends(o, "closed")
    BY <1>0, <1>1, <2>1, MemEnds
  <2> QED
    BY <1>1, <1>2, <2>1, <2>2 DEF Closed, Leaks
<1>4. CASE ~ProtocolOnly(t)
  <2>1. freeLinkObj(o)
    BY <1>4 DEF freeLink
  <2>2. Frees(o)
    BY <1>0, <1>1, <2>1, MemEnds DEF freeLinkObj, Frees
  <2> QED
    BY <1>1, <1>2, <2>2 DEF Closed
<1> QED
  BY <1>3, <1>4

(* Every step is one of these. *)
LEMMA NextTableStep == ASSUME IInv, Next PROVE TableStep
<1>0. LinkType /\ TblType /\ OpOK /\ AppType /\ SrvType /\ CtlType
  BY DEF IInv, TypeInv, TypeOK, LinkType, TblType, AppType, SrvType, CtlType
<1>s. link' = link /\ tbl' = tbl => TableStep
  BY DEF SameTable, SameLink, TableStep
<1>c. ASSUME NEW x, NEW state, link' = [link EXCEPT ![x].ConnState = state], tbl' = tbl
      PROVE  TableStep
  BY <1>0, <1>c, ConnStateSame DEF SameTable, TableStep
<1>m. (\A x \in Objs : SameLink(x)) /\ tbl' = tbl => TableStep
  BY DEF SameTable, TableStep
<1>1. ASSUME NEW t \in Users, allocConnecting(t) \/ allocAccepting(t) PROVE TableStep
  BY <1>1, <1>s, AllocEffects DEF TableStep, Threads, tblVars
<1>2. ASSUME NEW t \in Users, findService(t) \/ finishConnect(t) PROVE TableStep
  BY <1>2, <1>s, <1>m, ConnectEffects DEF TableStep, Threads, GivesUp
<1>3. ASSUME NEW t \in Users, acceptTimedOut(t) PROVE TableStep
  BY <1>3, TimedOutGivesUp DEF TableStep, Threads, GivesUp
<1>4. ASSUME NEW t \in Services, daemonAlloc(t) PROVE TableStep
  BY <1>4, DaemonAllocEffects DEF TableStep, Threads
<1>5. ASSUME NEW t \in Threads, acceptOffer(t) PROVE TableStep
  <2> DEFINE o == op[t].obj
             c == srv[op[t].srv].pConnLinkObj
  <2>1. pc[t] = "poll" /\ pc[t] \in OwnObjLabels /\ c # Null
    BY <1>5 DEF acceptOffer, OwnObjLabels, UninvolvedLabels
  <2>2. o \in Objs /\ op[t].srv \in Services /\ o = <<t, calls[t]>>
    BY <1>0, <2>1, OwnObj
  <2>3. c \in Objs
    BY <1>0, <2>1, <2>2 DEF SrvType, SrvRecords
  <2>4. PICK w \in Users : pc[w] = "waitAccepted" /\ op[w].obj = c
    <3>1. srv[op[t].srv].ConnMutex \in Users \cup {Null}
      BY <1>0, <2>2 DEF SrvType, SrvRecords
    <3> QED
      BY <2>1, <2>2, <3>1 DEF IInv, Rendezvous
  <2>5. o # c
    <3>1. w # t /\ w \in Threads /\ pc[w] \in OwnObjLabels
      BY <2>1, <2>4 DEF Threads, OwnObjLabels
    <3>2. c = <<w, calls[w]>>
      BY <1>0, <2>4, <3>1, OwnObj
    <3> QED
      BY <2>2, <3>1, <3>2
  <2>6. /\ \E r, m : link' = [link EXCEPT ![o].pPeer = c, ![o].usage = r, ![o].pMethods = m, ![c].pPeer = o]
        /\ tbl' = tbl
    <3>1. /\ \E copied \in BOOLEAN :
                link' = [link EXCEPT ![o].pPeer = c, ![o].usage = Role(op[t].srv), ![o].pMethods = @ \/ copied, ![c].pPeer = o]
          /\ tbl' = tbl
      BY <1>5 DEF acceptOffer, tblVars
    <3>2. ASSUME NEW copied \in BOOLEAN,
                 link' = [link EXCEPT ![o].pPeer = c, ![o].usage = Role(op[t].srv), ![o].pMethods = @ \/ copied, ![c].pPeer = o]
          PROVE  \E r, m : link' = [link EXCEPT ![o].pPeer = c, ![o].usage = r, ![o].pMethods = m, ![c].pPeer = o]
      <4>1. PICK m : m = (link[o].pMethods \/ copied)
        OBVIOUS
      <4> QED
        BY <3>2, <4>1
    <3> QED
      BY <3>1, <3>2
  <2>7. /\ \A p \in Objs : SameMemory(p) /\ link'[p].locked = link[p].locked
        /\ \A p \in Objs \ {o, c} : link'[p].pPeer = link[p].pPeer
        /\ link'[o].pPeer = c /\ link'[c].pPeer = o
    <3>1. PICK r, m : link' = [link EXCEPT ![o].pPeer = c, ![o].usage = r, ![o].pMethods = m, ![c].pPeer = o]
      BY <2>6
    <3>2. o \in Objs /\ c \in Objs /\ o # c /\ link \in [Objs -> LinkRecords]
      BY <1>0, <2>2, <2>3, <2>5 DEF LinkType
    <3> HIDE DEF o, c
    <3>3. /\ \A p \in Objs \ {o, c} : link'[p] = link[p]
          /\ link'[o] = [[[link[o] EXCEPT !.pPeer = c] EXCEPT !.usage = r] EXCEPT !.pMethods = m]
          /\ link'[c] = [link[c] EXCEPT !.pPeer = o]
      BY ONLY <3>1, <3>2
    <3>4. /\ link'[o].pPeer = c /\ SameMemory(o) /\ link'[o].locked = link[o].locked
          /\ link'[c].pPeer = o /\ SameMemory(c) /\ link'[c].locked = link[c].locked
      BY ONLY <3>2, <3>3 DEF LinkRecords, SameMemory
    <3> QED
      BY ONLY <3>3, <3>4 DEF SameMemory
  <2>8. link[o].pPeer = Null /\ link[c].pPeer = Null
    BY <2>1, <2>2, <2>3 DEF IInv, FreshOK, UninvolvedLabels
  <2>9. Pairs(t, o, c)
    BY <2>1, <2>2, <2>3, <2>4, <2>5, <2>6, <2>7, <2>8 DEF Pairs, SameMemories
  <2> QED
    BY <1>5, <2>2, <2>3, <2>9 DEF TableStep
<1>6. ASSUME NEW t \in Users, lockLink(t) PROVE TableStep
  BY <1>6, <1>s, LockEffects DEF TableStep
<1>7. ASSUME NEW t \in Users, clearPeer(t) PROVE TableStep
  BY <1>7, UnpeerEffects DEF TableStep
<1>8. ASSUME NEW t \in Users, freeLink(t) PROVE TableStep
  BY <1>8, FreeEffects DEF TableStep, Threads, Closed
<1>9. ASSUME NEW t \in Users, closeLink(t) PROVE TableStep
  <2>1. /\ tbl' = tbl
        /\ link' = link \/ link' = [link EXCEPT ![getLinkObj(op[t].obj)].ConnState = "Disconnecting"]
    BY <1>9 DEF closeLink, beginClose, tblVars
  <2> QED
    BY <1>s, <1>c, <2>1
<1>10. ASSUME NEW t \in Users, closeManualLink(t) PROVE TableStep
  <2>1. /\ tbl' = tbl
        /\ link' = link \/ link' = [link EXCEPT ![ManualLink(t)].ConnState = "Disconnecting"]
    BY <1>10 DEF closeManualLink, beginClose, tblVars, ManualLink, ManualId, ManualEntry
  <2> QED
    BY <1>s, <1>c, <2>1
<1>11. ASSUME NEW t \in Services, trackDaemon(t) PROVE TableStep
  <2>1. /\ tbl' = tbl
        /\ \E methods, state : \/ link' = [link EXCEPT ![op[t].obj].pMethods = methods]
                               \/ link' = [link EXCEPT ![op[t].obj].pMethods = methods, ![op[t].obj].ConnState = state]
    BY <1>11 DEF trackDaemon, tblVars
  <2> QED
    BY <1>0, <1>m, <2>1, MarkSame
<1>12. ASSUME NEW t \in Threads, CallApi(t) \/ onlineService(t) \/ offerConnection(t) \/
              refuseAccept(t) \/ noOffer(t) \/ rejectOffer(t) \/ wakeAcceptor(t) \/ trackManual(t) \/
              offlineService(t) \/ joinDaemon(t) \/ closeDaemonLink(t) \/ finishOffline(t) \/
              daemonExit(t) \/ countFreed(t) PROVE TableStep
  <2>1. link' = link /\ tbl' = tbl
    BY <1>12 DEF CallApi, onlineService, offerConnection, refuseAccept, noOffer, rejectOffer,
         wakeAcceptor, trackManual, offlineService, joinDaemon, closeDaemonLink, finishOffline,
         daemonExit, countFreed, tblVars
  <2> QED
    BY <1>s, <2>1
<1> QED BY NextIsAction, <1>1, <1>2, <1>3, <1>4, <1>5, <1>6, <1>7, <1>8, <1>9, <1>10, <1>11, <1>12
     DEF UserAction, DaemonAction, AcceptAction, Threads

-----------------------------------------------------------------------------
(* What a step does to a thread: it goes on with what it had, or one of a few actions gave it something new. *)
UserMoves(u) ==
    /\ pc'[u] \in AcceptLabels =>
          op'[u] = op[u] /\ (pc[u] \in AcceptLabels \/ (pc[u] = "accept" /\ srv[op[u].srv].online))
    /\ Closes(u)' => \/ /\ Closes(u) /\ op'[u].api = op[u].api /\ op'[u].srv = op[u].srv
                        /\ op'[u].obj = op[u].obj \/ (closeLink(u) /\ op'[u].obj = getLinkObj(op[u].obj))
                     \/ CallApi(u)
                     \/ closeDaemonLink(u) \/ closeManualLink(u)
    /\ pc'[u] \in ClosingLabels =>
          \/ pc[u] \in ClosingLabels \cup {"close", "waitNewConn"}
          \/ pc[u] = "offline" /\ Daemon[op[u].srv] = "none"
          \/ pc[u] = "joinDaemon" /\ pc[op[u].srv] = "exited"
    /\ pc[u] = "offline" /\ pc'[u] \notin {"offline", "idle"} => srv[op[u].srv].online
Moves(u) ==
    /\ Works(u)' => (Works(u) /\ op'[u].obj = op[u].obj) \/ \E o \in Objs : Allocates(u, o)
    /\ pc'[u] = "track" => (pc[u] = "track" /\ op'[u] = op[u]) \/ acceptOffer(u)
    /\ u \in Users => UserMoves(u)

(* A step moves every thread this way. *)
LEMMA NextMoves == ASSUME IInv, Next PROVE \A u \in Threads : Moves(u)
<1> SUFFICES ASSUME NEW u \in Threads PROVE Moves(u)
  OBVIOUS
<1>0. CtlType /\ AppType /\ OpOK
  BY DEF IInv, TypeInv, TypeOK, CtlType, AppType
<1> USE DEF Moves, UserMoves, Works, WorkLabels, Closes, CloseLabels, ClosingLabels, AcceptLabels, Goto, Return, CtlType
<1>1. ASSUME pc'[u] = pc[u], op'[u] = op[u] PROVE Moves(u)
  BY <1>1
<1>2. ASSUME NEW t \in Threads, UserAction(t) \/ DaemonAction(t) \/ AcceptAction(t), u # t PROVE Moves(u)
  BY <1>0, <1>1, <1>2, ActsAlone DEF OthersWait
<1>3. ASSUME NEW t \in Users, onlineService(t) PROVE Moves(u)
  <2>1. (pc'[u] = pc[u] /\ op'[u] = op[u]) \/ (pc'[u] \in {"idle", "daemon"} /\ pc[u] # "offline")
    <3>1. t \in Threads /\ pc[t] = "online" /\ op[t].srv \in Services
      BY <1>0, <1>3 DEF onlineService, OpOK, ThreadOK, Threads
    <3>2. \A s \in Services : pc[s] # "offline"
      BY <1>0 DEF OpOK, ThreadOK, Threads, DaemonLabels
    <3> QED
      BY <1>0, <1>3, <3>1, <3>2 DEF onlineService
  <2> QED
    BY <1>1, <2>1
<1>4. ASSUME CallApi(u) PROVE Moves(u)
  <2>1. u \in Users /\ pc[u] = "idle"
    BY <1>4 DEF CallApi
  <2>2. \E c \in UserOps, o \in Objs : Calls(u, c, o)
    BY <1>4, <2>1, CallEffects DEF IInv
  <2>3. pc'[u] \in {"online", "offline", "connect", "accept", "close"}
    BY <2>2 DEF Calls, Ops
  <2> QED
    BY <1>4, <2>1, <2>3
<1>5. ASSUME u \in Users, allocConnecting(u) PROVE Moves(u)
  <2>1. /\ pc'[u] \in {"idle", "findService"} /\ (pc'[u] = "idle" \/ op' = op)
        /\ pc[u] = "connect"
    BY <1>0, <1>5 DEF allocConnecting
  <2>2. Works(u)' => \E o \in Objs : Allocates(u, o)
    BY <1>5, AllocEffects
  <2> QED
    BY <2>1, <2>2
<1>6. ASSUME findService(u) PROVE Moves(u)
  BY <1>0, <1>6 DEF findService, failConnect
<1>7. ASSUME offerConnection(u) PROVE Moves(u)
  BY <1>0, <1>7 DEF offerConnection
<1>8. ASSUME finishConnect(u) PROVE Moves(u)
  BY <1>0, <1>8 DEF finishConnect, failConnect
<1>9. ASSUME refuseAccept(u) PROVE Moves(u)
  BY <1>0, <1>9 DEF refuseAccept
<1>10. ASSUME u \in Users, allocAccepting(u) PROVE Moves(u)
  <2>1. /\ pc'[u] \in {"idle", "poll"} /\ (pc'[u] = "idle" \/ op' = op)
        /\ pc[u] = "accept" /\ srv[op[u].srv].online
    BY <1>0, <1>10 DEF allocAccepting
  <2>2. Works(u)' => \E o \in Objs : Allocates(u, o)
    BY <1>10, AllocEffects
  <2> QED
    BY <2>1, <2>2
<1>11. ASSUME trackManual(u) PROVE Moves(u)
  BY <1>0, <1>11 DEF trackManual
<1>12. ASSUME closeLink(u) PROVE Moves(u)
  <2>1. /\ pc[u] = "close"
        /\ \/ pc'[u] = "idle"
           \/ pc'[u] \in {"lockLink", "aborted"} /\ op' = [op EXCEPT ![u].obj = getLinkObj(op[u].obj)]
    BY <1>0, <1>12 DEF closeLink, beginClose
  <2>2. op[u] \in OpRecords
    BY <1>0
  <2> QED
    BY <1>0, <1>12, <2>1, <2>2 DEF OpRecords
<1>13. ASSUME lockLink(u) PROVE Moves(u)
  <2>1. /\ pc[u] = "lockLink" /\ pc'[u] \in {"freeLink", "clearPeer"}
        /\ op' = op \/ op' = [op EXCEPT ![u].peer = link[op[u].obj].pPeer]
    BY <1>0, <1>13 DEF lockLink
  <2>2. op[u] \in OpRecords
    BY <1>0
  <2> QED
    BY <1>0, <2>1, <2>2 DEF OpRecords
<1>14. ASSUME clearPeer(u) PROVE Moves(u)
  BY <1>0, <1>14 DEF clearPeer
<1>15. ASSUME freeLink(u) PROVE Moves(u)
  BY <1>0, <1>15 DEF freeLink
<1>16. ASSUME offlineService(u) PROVE Moves(u)
  BY <1>0, <1>16 DEF offlineService
<1>17. ASSUME joinDaemon(u) PROVE Moves(u)
  BY <1>0, <1>17 DEF joinDaemon
<1>18. ASSUME closeDaemonLink(u) PROVE Moves(u)
  BY <1>0, <1>18 DEF closeDaemonLink
<1>19. ASSUME closeManualLink(u) PROVE Moves(u)
  BY <1>0, <1>19 DEF closeManualLink, beginClose
<1>20. ASSUME finishOffline(u) PROVE Moves(u)
  BY <1>0, <1>20 DEF finishOffline
<1>21. ASSUME acceptTimedOut(u) PROVE Moves(u)
  BY <1>0, <1>21 DEF acceptTimedOut
<1>22. ASSUME noOffer(u) PROVE Moves(u)
  BY <1>0, <1>22 DEF noOffer
<1>23. ASSUME rejectOffer(u) PROVE Moves(u)
  BY <1>0, <1>23 DEF rejectOffer
<1>24. ASSUME acceptOffer(u) PROVE Moves(u)
  BY <1>0, <1>24 DEF acceptOffer
<1>25. ASSUME wakeAcceptor(u) PROVE Moves(u)
  BY <1>0, <1>25 DEF wakeAcceptor
<1>26. ASSUME daemonExit(u) PROVE Moves(u)
  BY <1>0, <1>26 DEF daemonExit
<1>27. ASSUME trackDaemon(u) PROVE Moves(u)
  BY <1>0, <1>27 DEF trackDaemon
<1>28. ASSUME u \in Services, daemonAlloc(u) PROVE Moves(u)
  <2>1. pc'[u] = "poll" /\ u \notin Users
    BY <1>0, <1>28, ConstantsOK DEF daemonAlloc
  <2> QED
    BY <1>28, <2>1, DaemonAllocEffects
<1>29. PICK t \in Threads : \/ t \in Users /\ (onlineService(t) \/ UserAction(t))
                            \/ t \in Services /\ DaemonAction(t)
                            \/ AcceptAction(t)
  BY NextIsAction
<1>30. ASSUME countFreed(u) PROVE Moves(u)
  BY <1>0, <1>30 DEF countFreed
<1> HIDE DEF Moves
<1> QED
  BY <1>2, <1>3, <1>4, <1>5, <1>6, <1>7, <1>8, <1>9, <1>10, <1>11, <1>12, <1>13, <1>14, <1>15, <1>16, <1>17, <1>18, <1>19, <1>20, <1>21, <1>22, <1>23, <1>24, <1>25, <1>26, <1>27, <1>28, <1>29, <1>30
     DEF UserAction, DaemonAction, AcceptAction

-----------------------------------------------------------------------------
(* The links a service remembers, and how a step changes them. *)
Listed(s, o) ==
    \/ \E i \in 1 .. MaxDaemon : srv[s].DaemonAccept[i] = o
    \/ \E i \in 1 .. MaxManual : srv[s].ManualAccept[i] # Null /\ tbl[srv[s].ManualAccept[i]] = o
SameLists(s) == /\ srv'[s].DaemonAccept = srv[s].DaemonAccept /\ srv'[s].ManualAccept = srv[s].ManualAccept
                /\ srv'[s].online = srv[s].online
OtherLists(s) == \A r \in Services \ {s} : SameLists(r)
NoLists(s) == /\ \A i \in 1 .. MaxDaemon : srv'[s].DaemonAccept[i] = Null
              /\ \A i \in 1 .. MaxManual : srv'[s].ManualAccept[i] = Null
(* x is entered at i, or there is no room for it. *)
Entered(old, new, n, x) ==
    \/ new = old /\ \A i \in 1 .. n : old[i] # Null
    \/ \E i \in 1 .. n : old[i] = Null /\ new[i] = x /\ \A j \in 1 .. n : j # i => new[j] = old[j]
Removed(old, new, n, x) == \E i \in 1 .. n : old[i] = x /\ x # Null /\ new[i] = Null /\ \A j \in 1 .. n : j # i => new[j] = old[j]
ListAction(t) == \/ onlineService(t) \/ trackManual(t) \/ trackDaemon(t) \/ closeDaemonLink(t) \/ closeManualLink(t)
                 \/ finishOffline(t)

(* The other actions leave the lists of every service as they are. *)
LEMMA OtherActionsKeepLists == ASSUME IInv, Next, \A t \in Threads : ~ListAction(t) PROVE \A s \in Services : SameLists(s)
<1>0. SrvType /\ OpOK /\ AppType
  BY DEF IInv, TypeInv, TypeOK, SrvType, AppType
<1>1. ASSUME NEW t \in Threads,
             offerConnection(t) \/ finishConnect(t) \/ rejectOffer(t) \/ acceptOffer(t) \/ offlineService(t)
      PROVE  op[t].srv \in Services
  <2>1. pc[t] \in {"lockConn", "waitAccepted", "poll", "offline"}
    BY <1>1 DEF offerConnection, finishConnect, rejectOffer, acceptOffer, offlineService
  <2> QED
    BY <1>0, <2>1 DEF OpOK, ThreadOK, Threads
<1>2. ASSUME NEW t \in Threads,
             offerConnection(t) \/ finishConnect(t) \/ rejectOffer(t) \/ acceptOffer(t) \/ offlineService(t)
      PROVE  \A r \in Services : SameLists(r)
  <2>0. PICK s \in Services : s = op[t].srv
    BY <1>1, <1>2
  <2>1. CASE offerConnection(t)
    <3>1. srv' = [srv EXCEPT ![s].ConnMutex = t, ![s].pConnLinkObj = op[t].obj, ![s].signaled = FALSE]
      BY <2>0, <2>1 DEF offerConnection
    <3> QED
      BY <1>0, <3>1 DEF SrvType, SrvRecords, SameLists
  <2>2. CASE finishConnect(t)
    <3>1. srv' = [srv EXCEPT ![s].ConnMutex = Null, ![s].signaled = FALSE]
      BY <2>0, <2>2 DEF finishConnect
    <3> QED
      BY <1>0, <3>1 DEF SrvType, SrvRecords, SameLists
  <2>3. CASE rejectOffer(t) \/ acceptOffer(t)
    <3>1. srv' = [srv EXCEPT ![s].pConnLinkObj = Null, ![s].signaled = TRUE]
      BY <2>0, <2>3 DEF rejectOffer, acceptOffer, takeOffer
    <3> QED
      BY <1>0, <3>1 DEF SrvType, SrvRecords, SameLists
  <2>4. CASE offlineService(t)
    <3>1. srv' = srv \/ srv' = [srv EXCEPT ![s].cancelled = TRUE]
      BY <2>0, <2>4 DEF offlineService
    <3> QED
      BY <1>0, <3>1 DEF SrvType, SrvRecords, SameLists
  <2> QED
    BY <1>2, <2>1, <2>2, <2>3, <2>4
<1>3. ASSUME NEW t \in Threads,
             CallApi(t) \/ allocConnecting(t) \/ findService(t) \/ refuseAccept(t) \/ allocAccepting(t) \/ noOffer(t) \/
             wakeAcceptor(t) \/ closeLink(t) \/ lockLink(t) \/ clearPeer(t) \/ freeLink(t) \/ countFreed(t) \/
             joinDaemon(t) \/ acceptTimedOut(t) \/ daemonAlloc(t) \/ daemonExit(t)
      PROVE  \A r \in Services : SameLists(r)
  <2>1. srv' = srv
    BY <1>3 DEF CallApi, allocConnecting, findService, refuseAccept, allocAccepting, noOffer,
       wakeAcceptor, closeLink, lockLink, clearPeer, freeLink, countFreed, joinDaemon, acceptTimedOut,
       daemonAlloc, daemonExit
  <2> QED
    BY <2>1 DEF SameLists
<1>4. PICK t \in Threads : \/ t \in Users /\ (onlineService(t) \/ UserAction(t))
                           \/ t \in Services /\ DaemonAction(t)
                           \/ AcceptAction(t)
  BY NextIsAction
<1> QED
  BY <1>2, <1>3, <1>4 DEF UserAction, DaemonAction, AcceptAction, ListAction

(* A set of indices that is not empty has its least one. *)
LEMMA SmallestEntry ==
    ASSUME NEW n \in Nat, NEW array, NEW free \in SUBSET (1 .. n), free # {}
    PROVE  (CHOOSE i \in free : \A j \in free : i <= j) \in free
<1>1. free \in SUBSET Nat
  OBVIOUS
<1> QED
  BY <1>1, SmallestNat

(* Enter enters a link at a free place, if there is one. *)
LEMMA EnterStep ==
    ASSUME NEW n \in Nat, NEW X, NEW array \in [1 .. n -> X], NEW x \in X
    PROVE  Entered(array, Enter(array, x), n, x)
<1> DEFINE free == {i \in 1 .. n : array[i] = Null}
<1>1. DOMAIN array = 1 .. n
  OBVIOUS
<1>2. CASE free = {}
  BY <1>1, <1>2 DEF Enter, Entered
<1>3. CASE free # {}
  <2>1. PICK k \in free : k = CHOOSE i \in free : \A j \in free : i <= j
    BY <1>3, SmallestEntry
  <2>2. Enter(array, x) = [array EXCEPT ![k] = x]
    BY <1>1, <1>3, <2>1 DEF Enter
  <2> QED
    BY <2>2 DEF Entered
<1> QED
  BY <1>2, <1>3

(* The steps that change the lists. *)
Online(t, s) ==
    /\ s \in Services /\ s = op[t].srv /\ pc[t] = "online" /\ pc'[t] = "idle" /\ op'[t] = NoOp
    /\ \A u \in Threads : pc'[u] # pc[u] =>
          u = t \/ (u = s /\ Daemon[s] # "none" /\ pc'[s] = "daemon" /\ ~srv[s].online /\ srv'[s].online)
    /\ \A u \in Users \ {t} : op'[u] = op[u]
    /\ OtherLists(s)
    /\ SameLists(s) \/ (~srv[s].online /\ srv'[s].online /\ NoLists(s))
    /\ UNCHANGED <<tbl, link, owned, accepted>>
(* onlineService starts a service with empty lists, or finds it online. *)
LEMMA OnlineEffects == ASSUME IInv, NEW t \in Users, onlineService(t) PROVE \E s \in Services : Online(t, s)
<1>0. SrvType /\ OpOK /\ CtlType /\ t \in Threads /\ Users \cap Services = {}
  BY ConstantsOK DEF IInv, TypeInv, TypeOK, SrvType, CtlType, Threads
<1>1. PICK s \in Services : s = op[t].srv /\ s # t /\ s \in Threads
  BY <1>0 DEF onlineService, OpOK, ThreadOK, Threads
<1>2. UNCHANGED <<tbl, link, owned, accepted>> /\ pc[t] = "online"
  BY DEF onlineService, tblVars, appVars
<1>3. CASE srv[s].online
  <2>1. srv' = srv /\ pc' = [pc EXCEPT ![t] = "idle"] /\ op' = [op EXCEPT ![t] = NoOp]
    BY <1>1, <1>3 DEF onlineService, Return
  <2> QED
    BY <1>0, <1>1, <1>2, <2>1 DEF Online, CtlType, OtherLists, SameLists, Threads
<1>4. CASE ~srv[s].online
  <2>1. /\ srv' = [srv EXCEPT ![s] = [Offline EXCEPT !.online = TRUE]]
        /\ pc' = [pc EXCEPT ![t] = "idle", ![s] = IF Daemon[s] = "none" THEN @ ELSE "daemon"]
        /\ op' = [op EXCEPT ![t] = NoOp, ![s] = IF Daemon[s] = "none" THEN @ ELSE [NoOp EXCEPT !.api = "daemon", !.srv = s]]
    BY <1>1, <1>4 DEF onlineService
  <2>2. srv'[s].online /\ NoLists(s) /\ OtherLists(s)
    BY <1>0, <1>1, <2>1 DEF SrvType, SrvRecords, NoLists, OtherLists, SameLists, Offline
  <2>3. /\ pc'[t] = "idle" /\ op'[t] = NoOp
        /\ \A u \in Users \ {t} : op'[u] = op[u]
        /\ \A u \in Threads : pc'[u] # pc[u] => u = t \/ (u = s /\ Daemon[s] # "none" /\ pc'[s] = "daemon")
    BY <1>0, <1>1, <2>1 DEF CtlType, Threads
  <2> QED
    BY <1>1, <1>2, <1>4, <2>2, <2>3 DEF Online
<1> QED
  BY <1>3, <1>4

Finishes(t, s) ==
    /\ s \in Services /\ s = op[t].srv /\ pc[t] = "closeAccepted" /\ pc'[t] = "idle" /\ op'[t] = NoOp
    /\ \/ s \in KeepAccepted
       \/ /\ \A i \in 1 .. MaxDaemon : srv[s].DaemonAccept[i] = Null
          /\ \A i \in 1 .. MaxManual : srv[s].ManualAccept[i] = Null
    /\ ~srv'[s].online /\ NoLists(s) /\ OtherLists(s)
    /\ UNCHANGED <<tbl, link, owned, accepted>>
(* finishOffline ends a service whose lists are empty, or whose links are kept. *)
LEMMA FinishEffects == ASSUME IInv, NEW t \in Users, finishOffline(t) PROVE \E s \in Services : Finishes(t, s)
<1>0. SrvType /\ OpOK /\ CtlType /\ t \in Threads
  BY DEF IInv, TypeInv, TypeOK, SrvType, CtlType, Threads
<1>1. PICK s \in Services : s = op[t].srv
  BY <1>0 DEF finishOffline, OpOK, ThreadOK, Threads
<1>2. UNCHANGED <<tbl, link, owned, accepted>> /\ pc[t] = "closeAccepted" /\ srv' = [srv EXCEPT ![s] = Offline]
  BY <1>1 DEF finishOffline, tblVars, appVars
<1>3. ~srv'[s].online /\ NoLists(s) /\ OtherLists(s)
  BY <1>0, <1>2 DEF SrvType, SrvRecords, NoLists, OtherLists, SameLists, Offline
<1>4. pc'[t] = "idle" /\ op'[t] = NoOp
  BY <1>0 DEF finishOffline, Return, CtlType
<1>5. \/ s \in KeepAccepted
      \/ /\ \A i \in 1 .. MaxDaemon : srv[s].DaemonAccept[i] = Null
         /\ \A i \in 1 .. MaxManual : srv[s].ManualAccept[i] = Null
  <2>1. DOMAIN srv[s].DaemonAccept = 1 .. MaxDaemon /\ DOMAIN srv[s].ManualAccept = 1 .. MaxManual
    BY <1>0 DEF SrvType, SrvRecords
  <2>2. s \in KeepAccepted \/ Entries(srv[s].DaemonAccept) \cup Entries(srv[s].ManualAccept) = {}
    BY <1>1 DEF finishOffline, ClosesAccepted
  <2> QED
    BY <2>1, <2>2 DEF Entries
<1> QED
  BY <1>1, <1>2, <1>3, <1>4, <1>5 DEF Finishes

(* The acceptor's link is remembered, if there is room. *)
Tracks(t, s, o, full) ==
    /\ s \in Services /\ s = op[t].srv /\ o \in Objs /\ o = op[t].obj /\ pc[t] = "track" /\ Works(t) /\ ~Works(t)' /\ pc'[t] # "track"
    /\ srv'[s].online = srv[s].online /\ OtherLists(s)
    /\ owned' = owned \/ owned' = owned \cup {o}
    /\ accepted' = {[a EXCEPT !.remembered = @ \/ (a.server = o /\ ~full)] : a \in accepted}
    /\ tbl' = tbl /\ \A x \in Objs : SameLink(x)
ManualTracks(t, s, o) ==
    /\ t \in Users /\ srv'[s].DaemonAccept = srv[s].DaemonAccept /\ owned' = owned \cup {o}
    /\ Entered(srv[s].ManualAccept, srv'[s].ManualAccept, MaxManual, link[o].id)
    /\ Tracks(t, s, o, \A i \in 1 .. MaxManual : srv[s].ManualAccept[i] # Null)
DaemonTracks(t, s, o) ==
    /\ t = s /\ srv'[s].ManualAccept = srv[s].ManualAccept /\ (Daemon[s] = "auto" => owned' = owned \cup {o})
    /\ Entered(srv[s].DaemonAccept, srv'[s].DaemonAccept, MaxDaemon, o)
    /\ Tracks(t, s, o, \A i \in 1 .. MaxDaemon : srv[s].DaemonAccept[i] # Null)

(* trackManual enters the ID of the link in ManualAccept. *)
LEMMA ManualTrackEffects == ASSUME IInv, NEW t \in Users, trackManual(t) PROVE \E s \in Services, o \in Objs : ManualTracks(t, s, o)
<1>0. SrvType /\ OpOK /\ CtlType /\ AppType /\ LinkType /\ LinksOK /\ t \in Threads /\ MaxManual \in Nat
  BY ConstantsOK DEF IInv, TypeInv, TypeOK, SrvType, CtlType, AppType, LinkType, Threads
<1>1. PICK s \in Services, o \in Objs : s = op[t].srv /\ o = op[t].obj /\ pc[t] = "track"
  BY <1>0, OwnObj DEF trackManual, OwnObjLabels
<1>2. /\ srv' = [srv EXCEPT ![s].ManualAccept = Enter(@, link[o].id)]
      /\ owned' = owned \cup {o} /\ accepted' = Remember(o, srv[s].ManualAccept)
      /\ tbl' = tbl /\ link' = link
  BY <1>1 DEF trackManual, tblVars
<1>3. link[o].id \in Slots
  BY <1>0, <1>1 DEF LinksOK, WithLinkLabels
<1>4. /\ srv'[s].ManualAccept = Enter(srv[s].ManualAccept, link[o].id)
      /\ srv'[s].DaemonAccept = srv[s].DaemonAccept /\ srv'[s].online = srv[s].online /\ OtherLists(s)
  BY <1>0, <1>2 DEF SrvType, SrvRecords, OtherLists, SameLists
<1>5. srv[s].ManualAccept \in [1 .. MaxManual -> Slots \cup {Null}]
  BY <1>0 DEF SrvType, SrvRecords
<1>6. Entered(srv[s].ManualAccept, srv'[s].ManualAccept, MaxManual, link[o].id)
  BY <1>0, <1>3, <1>4, <1>5, EnterStep
<1>7. Works(t) /\ ~Works(t)' /\ pc'[t] # "track"
  BY <1>0, <1>1 DEF trackManual, Return, Works, WorkLabels, CtlType
<1>8. HasRoom(srv[s].ManualAccept) = ~\A i \in 1 .. MaxManual : srv[s].ManualAccept[i] # Null
  BY <1>5 DEF HasRoom
<1>9. accepted' = {[a EXCEPT !.remembered = @ \/ (a.server = o /\ ~\A i \in 1 .. MaxManual : srv[s].ManualAccept[i] # Null)] : a \in accepted}
  BY <1>2, <1>8 DEF Remember
<1> QED
  BY <1>1, <1>2, <1>4, <1>6, <1>7, <1>9 DEF ManualTracks, Tracks, SameLink

(* trackDaemon enters the link itself in DaemonAccept. *)
LEMMA DaemonTrackEffects == ASSUME IInv, NEW t \in Services, trackDaemon(t) PROVE \E s \in Services, o \in Objs : DaemonTracks(t, s, o)
<1>0. SrvType /\ OpOK /\ CtlType /\ AppType /\ LinkType /\ t \in Threads /\ MaxDaemon \in Nat
  BY ConstantsOK DEF IInv, TypeInv, TypeOK, SrvType, CtlType, AppType, LinkType, Threads
<1>1. PICK s \in Services, o \in Objs : s = t /\ s = op[t].srv /\ o = op[t].obj /\ pc[t] = "track"
  BY <1>0, OwnObj DEF trackDaemon, OwnObjLabels, OpOK, ThreadOK
<1>2. /\ srv' = [srv EXCEPT ![s].DaemonAccept = Enter(@, o)]
      /\ owned' = owned \/ owned' = owned \cup {o}
      /\ Daemon[s] = "auto" => owned' = owned \cup {o}
      /\ accepted' = Remember(o, srv[s].DaemonAccept)
      /\ tbl' = tbl
      /\ \E methods, state : \/ link' = [link EXCEPT ![o].pMethods = methods]
                             \/ link' = [link EXCEPT ![o].pMethods = methods, ![o].ConnState = state]
  BY <1>1 DEF trackDaemon, tblVars
<1>3. \A x \in Objs : SameLink(x)
  BY <1>0, <1>2, MarkSame
<1>4. /\ srv'[s].DaemonAccept = Enter(srv[s].DaemonAccept, o)
      /\ srv'[s].ManualAccept = srv[s].ManualAccept /\ srv'[s].online = srv[s].online /\ OtherLists(s)
  BY <1>0, <1>2 DEF SrvType, SrvRecords, OtherLists, SameLists
<1>5. srv[s].DaemonAccept \in [1 .. MaxDaemon -> Objs \cup {Null}]
  BY <1>0 DEF SrvType, SrvRecords
<1>6. Entered(srv[s].DaemonAccept, srv'[s].DaemonAccept, MaxDaemon, o)
  BY <1>0, <1>4, <1>5, EnterStep
<1>7. Works(t) /\ ~Works(t)' /\ pc'[t] # "track"
  BY <1>0, <1>1 DEF trackDaemon, Goto, Works, WorkLabels, CtlType
<1>8. HasRoom(srv[s].DaemonAccept) = ~\A i \in 1 .. MaxDaemon : srv[s].DaemonAccept[i] # Null
  BY <1>5 DEF HasRoom
<1>9. accepted' = {[a EXCEPT !.remembered = @ \/ (a.server = o /\ ~\A i \in 1 .. MaxDaemon : srv[s].DaemonAccept[i] # Null)] : a \in accepted}
  BY <1>2, <1>8 DEF Remember
<1> QED
  BY <1>1, <1>2, <1>3, <1>4, <1>6, <1>7, <1>9 DEF DaemonTracks, Tracks

(* offlineService takes a link from a list and closes it. *)
Unlists(t, s) ==
    /\ s \in Services \ KeepAccepted /\ s = op[t].srv /\ pc[t] = "closeAccepted"
    /\ srv'[s].online = srv[s].online /\ OtherLists(s)
    /\ UNCHANGED <<tbl, owned, accepted>> /\ \A x \in Objs : SameLink(x)
StartsClosing(t, o) == pc'[t] \in {"lockLink", "aborted"} /\ op'[t].obj = o /\ op'[t].api = op[t].api /\ op'[t].srv = op[t].srv
DaemonUnlists(t, s, o) ==
    /\ Unlists(t, s) /\ o \in Objs
    /\ Removed(srv[s].DaemonAccept, srv'[s].DaemonAccept, MaxDaemon, o) /\ srv'[s].ManualAccept = srv[s].ManualAccept
    /\ tbl[link[o].id] # Null => StartsClosing(t, o)
ManualUnlists(t, s, k) ==
    /\ Unlists(t, s) /\ k \in Slots
    /\ Removed(srv[s].ManualAccept, srv'[s].ManualAccept, MaxManual, k) /\ srv'[s].DaemonAccept = srv[s].DaemonAccept
    /\ tbl[k] # Null => StartsClosing(t, tbl[k])

(* closeDaemonLink takes a link out of DaemonAccept, and closes it if its slot is not empty. *)
LEMMA DaemonUnlistEffects ==
    ASSUME IInv, NEW t \in Users, closeDaemonLink(t)
    PROVE  \E s \in Services, o \in Objs : DaemonUnlists(t, s, o)
<1>0. SrvType /\ OpOK /\ CtlType /\ t \in Threads /\ MaxDaemon \in Nat
  BY ConstantsOK DEF IInv, TypeInv, TypeOK, SrvType, CtlType, Threads
<1>1. PICK s \in Services : s = op[t].srv
  BY <1>0 DEF closeDaemonLink, OpOK, ThreadOK, Threads
<1>2. srv[s].DaemonAccept \in [1 .. MaxDaemon -> Objs \cup {Null}]
  BY <1>0 DEF SrvType, SrvRecords
<1>3. PICK i \in 1 .. MaxDaemon : i = FirstEntry(srv[s].DaemonAccept) /\ srv[s].DaemonAccept[i] # Null
  BY <1>0, <1>1, <1>2, FirstEntryIsTaken DEF closeDaemonLink
<1>4. PICK o \in Objs : o = srv[s].DaemonAccept[i]
  BY <1>2, <1>3
<1>5. /\ pc[t] = "closeAccepted" /\ s \notin KeepAccepted
      /\ srv' = [srv EXCEPT ![s].DaemonAccept[i] = Null]
      /\ tbl[link[o].id] # Null => op' = [op EXCEPT ![t].obj = o] /\ pc' = [pc EXCEPT ![t] = "lockLink"]
      /\ UNCHANGED <<tbl, owned, accepted>> /\ link' = link
  BY <1>1, <1>3, <1>4 DEF closeDaemonLink, ClosesAccepted, getLinkObj, Goto, tblVars, appVars
<1>6. /\ srv'[s].ManualAccept = srv[s].ManualAccept /\ srv'[s].online = srv[s].online /\ OtherLists(s)
      /\ srv'[s].DaemonAccept = [srv[s].DaemonAccept EXCEPT ![i] = Null]
  BY <1>0, <1>5 DEF SrvType, SrvRecords, OtherLists, SameLists
<1>7. Removed(srv[s].DaemonAccept, srv'[s].DaemonAccept, MaxDaemon, o)
  BY <1>2, <1>3, <1>4, <1>6 DEF Removed
<1>8. tbl[link[o].id] # Null => StartsClosing(t, o)
  <2>1. op[t] \in OpRecords /\ pc \in [Threads -> Labels] /\ op \in [Threads -> OpRecords]
    BY <1>0 DEF CtlType
  <2> QED
    BY <1>0, <1>5, <2>1 DEF StartsClosing, OpRecords
<1> QED
  BY <1>1, <1>5, <1>6, <1>7, <1>8 DEF DaemonUnlists, Unlists, SameLink

(* closeManualLink takes an ID out of ManualAccept, and closes the link that has it now. *)
LEMMA ManualUnlistEffects ==
    ASSUME IInv, NEW t \in Users, closeManualLink(t)
    PROVE  \E s \in Services, k \in Slots : ManualUnlists(t, s, k)
<1>0. SrvType /\ LinkType /\ OpOK /\ CtlType /\ t \in Threads /\ MaxManual \in Nat
  BY ConstantsOK DEF IInv, TypeInv, TypeOK, SrvType, LinkType, CtlType, Threads
<1>1. PICK s \in Services : s = op[t].srv
  BY <1>0 DEF closeManualLink, OpOK, ThreadOK, Threads
<1>2. srv[s].ManualAccept \in [1 .. MaxManual -> Slots \cup {Null}]
  BY <1>0 DEF SrvType, SrvRecords
<1>3. PICK i \in 1 .. MaxManual : i = FirstEntry(srv[s].ManualAccept) /\ srv[s].ManualAccept[i] # Null
  BY <1>0, <1>1, <1>2, FirstEntryIsTaken DEF closeManualLink
<1>4. PICK k \in Slots : k = srv[s].ManualAccept[i]
  BY <1>2, <1>3
<1>5. /\ pc[t] = "closeAccepted" /\ s \notin KeepAccepted
      /\ srv' = [srv EXCEPT ![s].ManualAccept[i] = Null]
      /\ tbl[k] # Null => /\ op' = [op EXCEPT ![t].obj = tbl[k]]
                          /\ pc' = [pc EXCEPT ![t] = "lockLink"] \/ pc' = [pc EXCEPT ![t] = "aborted"]
      /\ link' = link \/ link' = [link EXCEPT ![tbl[k]].ConnState = "Disconnecting"]
      /\ UNCHANGED <<tbl, owned, accepted>>
  BY <1>1, <1>3, <1>4 DEF closeManualLink, ClosesAccepted, beginClose, Goto, tblVars, appVars
<1>6. /\ srv'[s].DaemonAccept = srv[s].DaemonAccept /\ srv'[s].online = srv[s].online /\ OtherLists(s)
      /\ srv'[s].ManualAccept = [srv[s].ManualAccept EXCEPT ![i] = Null]
  BY <1>0, <1>5 DEF SrvType, SrvRecords, OtherLists, SameLists
<1>7. Removed(srv[s].ManualAccept, srv'[s].ManualAccept, MaxManual, k)
  <2>1. k # Null
    BY ConstantsOK
  <2> QED
    BY <1>2, <1>3, <1>4, <1>6, <2>1 DEF Removed
<1>8. tbl[k] # Null => StartsClosing(t, tbl[k])
  <2>1. op[t] \in OpRecords /\ pc \in [Threads -> Labels] /\ op \in [Threads -> OpRecords]
    BY <1>0 DEF CtlType
  <2>2. tbl[k] # Null => pc'[t] \in {"lockLink", "aborted"}
    BY <1>0, <1>5, <2>1
  <2>3. ASSUME NEW x, x = tbl[k], op' = [op EXCEPT ![t].obj = x] PROVE op'[t] = [op[t] EXCEPT !.obj = x]
    BY <1>0, <2>1, <2>3
  <2>4. ASSUME NEW x, op'[t] = [op[t] EXCEPT !.obj = x]
        PROVE  op'[t].obj = x /\ op'[t].api = op[t].api /\ op'[t].srv = op[t].srv
    BY <2>1, <2>4 DEF OpRecords
  <2>5. ASSUME tbl[k] # Null, NEW x, x = tbl[k] PROVE op'[t].obj = x /\ op'[t].api = op[t].api /\ op'[t].srv = op[t].srv
    <3>1. op' = [op EXCEPT ![t].obj = x]
      BY <1>5, <2>5
    <3>2. op'[t] = [op[t] EXCEPT !.obj = x]
      BY <2>3, <2>5, <3>1
    <3> HIDE <2>3
    <3> QED
      BY <2>4, <3>2
  <2> QED
    BY <2>2, <2>5 DEF StartsClosing
<1>9. \A x \in Objs : SameLink(x)
  BY <1>0, <1>5, ConnStateSame DEF SameLink
<1> QED
  BY <1>1, <1>5, <1>6, <1>7, <1>8, <1>9 DEF ManualUnlists, Unlists

(* Links come into the application's hands when a connector or an acceptor is done, and leave them to be closed. *)
Leaves(t, o) == Works(t) /\ op[t].obj = o /\ ~Works(t)' /\ SameLink(o)
OwnedStep ==
    /\ \A o \in owned' : o \in owned \/ \E t \in Threads : Leaves(t, o)
    /\ \A o \in owned : o \in owned' \/ \E t \in Users : CallApi(t) /\ Closes(t)' /\ op'[t].obj = o
(* The application gets and gives up links by such steps only. *)
LEMMA NextOwnedStep == ASSUME IInv, Next PROVE OwnedStep
<1>0. CtlType /\ LinkType /\ OpOK /\ AppType
  BY DEF IInv, TypeInv, TypeOK, CtlType, LinkType, AppType
<1>1. ASSUME NEW t \in Users, CallApi(t) PROVE OwnedStep
  <2>1. PICK c \in UserOps, o \in Objs : Calls(t, c, o)
    BY <1>1, CallEffects DEF IInv
  <2> QED
    BY <1>1, <2>1 DEF Calls, OwnedStep, Closes, CloseLabels
<1>2. ASSUME NEW t \in Users, finishConnect(t) PROVE OwnedStep
  <2>1. /\ pc[t] = "waitAccepted" /\ t \in Threads /\ pc' = [pc EXCEPT ![t] = "idle"]
        /\ \/ owned' = owned
           \/ /\ owned' = owned \cup {op[t].obj}
              /\ \E methods, state : link' = [link EXCEPT ![op[t].obj].pMethods = methods, ![op[t].obj].ConnState = state]
    BY <1>2 DEF finishConnect, failConnect, Return, Threads
  <2>2. op[t].obj \in Objs
    BY <1>0, <2>1, OwnObj DEF OwnObjLabels
  <2>3. ASSUME owned' = owned \cup {op[t].obj}, NEW methods, NEW state,
               link' = [link EXCEPT ![op[t].obj].pMethods = methods, ![op[t].obj].ConnState = state]
        PROVE  OwnedStep
    <3>1. Leaves(t, op[t].obj)
      BY <1>0, <2>1, <2>2, <2>3, MarkSame DEF Leaves, Works, WorkLabels, CtlType
    <3> QED
      BY <2>1, <2>3, <3>1 DEF OwnedStep
  <2>4. CASE owned' = owned
    BY <2>4 DEF OwnedStep
  <2> QED
    BY <2>1, <2>3, <2>4
<1>3. ASSUME NEW t \in Threads, trackManual(t) \/ (t \in Services /\ trackDaemon(t)) PROVE OwnedStep
  <2>1. PICK s \in Services, o \in Objs, full \in BOOLEAN : Tracks(t, s, o, full)
    BY <1>3, ManualTrackEffects, DaemonTrackEffects DEF ManualTracks, DaemonTracks, trackManual
  <2> QED
    BY <2>1 DEF Tracks, OwnedStep, Leaves
<1>4. ASSUME NEW t \in Threads,
             allocConnecting(t) \/ findService(t) \/ offerConnection(t) \/ refuseAccept(t) \/ allocAccepting(t) \/
             closeLink(t) \/ lockLink(t) \/ clearPeer(t) \/ freeLink(t) \/ countFreed(t) \/ offlineService(t) \/
             joinDaemon(t) \/ closeDaemonLink(t) \/ closeManualLink(t) \/ finishOffline(t) \/ acceptTimedOut(t) \/ onlineService(t) \/
             daemonAlloc(t) \/ daemonExit(t) \/ AcceptAction(t)
      PROVE  OwnedStep
  <2>1. owned' = owned
    BY <1>4 DEF allocConnecting, findService, offerConnection, refuseAccept, allocAccepting, closeLink, lockLink, clearPeer,
       freeLink, countFreed, offlineService, joinDaemon, closeDaemonLink, closeManualLink, finishOffline, acceptTimedOut, onlineService,
       daemonAlloc, daemonExit, AcceptAction, noOffer, rejectOffer, acceptOffer, wakeAcceptor, appVars
  <2> QED
    BY <2>1 DEF OwnedStep
<1>5. PICK t \in Threads : \/ t \in Users /\ (onlineService(t) \/ UserAction(t))
                           \/ t \in Services /\ DaemonAction(t)
                           \/ AcceptAction(t)
  BY NextIsAction
<1> QED
  BY <1>1, <1>2, <1>3, <1>4, <1>5 DEF UserAction, DaemonAction

-----------------------------------------------------------------------------
(* Who acts in a step, and what a thread does where it is. *)
Acts(u) == \/ u \in Users /\ (onlineService(u) \/ UserAction(u))
           \/ u \in Services /\ DaemonAction(u)
           \/ AcceptAction(u)
Waits(u) == pc'[u] = pc[u] /\ op'[u] = op[u]
StartsDaemon(t, s) == Online(t, s) /\ ~srv[s].online /\ srv'[s].online /\ Daemon[s] # "none" /\ pc'[s] = "daemon"

(* A thread acts or waits, and a daemon may be started by a user. *)
LEMMA NextActor ==
    ASSUME IInv, Next
    PROVE  /\ \A u \in Users : Acts(u) \/ Waits(u)
           /\ \A s \in Services : Acts(s) \/ pc'[s] = pc[s] \/ \E t \in Users : StartsDaemon(t, s)
<1>0. CtlType /\ AppType /\ Users \cap Services = {}
  BY ConstantsOK DEF IInv, TypeInv, TypeOK, CtlType, AppType
<1>1. ASSUME NEW t \in Threads, UserAction(t) \/ DaemonAction(t) \/ AcceptAction(t), NEW u \in Threads, u # t
      PROVE  Waits(u)
  BY <1>0, <1>1, ActsAlone DEF OthersWait, Waits
<1>2. ASSUME NEW t \in Users, onlineService(t), NEW u \in Users, u # t PROVE Waits(u)
  <2>1. PICK s \in Services : Online(t, s)
    BY <1>2, OnlineEffects
  <2> QED
    BY <1>0, <1>2, <2>1 DEF Online, Waits, Threads
<1>3. ASSUME NEW t \in Users, onlineService(t), NEW u \in Services
      PROVE  pc'[u] = pc[u] \/ StartsDaemon(t, u)
  <2>1. PICK s \in Services : Online(t, s)
    BY <1>3, OnlineEffects
  <2>2. u # t /\ u \in Threads
    BY <1>0, <1>3 DEF Threads
  <2>3. pc'[u] # pc[u] => u = s /\ Daemon[s] # "none" /\ pc'[s] = "daemon" /\ ~srv[s].online /\ srv'[s].online
    BY <2>1, <2>2 DEF Online
  <2> QED
    BY <2>1, <2>3 DEF StartsDaemon
<1>4. PICK t \in Threads : Acts(t)
  BY NextIsAction DEF Acts
<1>5. \/ UserAction(t) \/ DaemonAction(t) \/ AcceptAction(t)
      \/ t \in Users /\ onlineService(t)
  BY <1>4 DEF Acts
<1>6. ASSUME NEW u \in Users PROVE Acts(u) \/ Waits(u)
  <2>1. u \in Threads
    BY DEF Threads
  <2> QED
    BY <1>1, <1>2, <1>4, <1>5, <2>1
<1>7. ASSUME NEW s \in Services PROVE Acts(s) \/ pc'[s] = pc[s] \/ \E u \in Users : StartsDaemon(u, s)
  <2>1. s \in Threads
    BY DEF Threads
  <2>2. Waits(s) => pc'[s] = pc[s]
    BY DEF Waits
  <2> QED
    BY <1>1, <1>3, <1>4, <1>5, <2>1, <2>2
<1> QED
  BY <1>6, <1>7

(* What a user does that acts, by its label. *)
LEMMA UserActs ==
    ASSUME NEW u \in Users, Acts(u)
    PROVE  /\ pc[u] = "idle" => CallApi(u)
           /\ pc[u] = "findService" => findService(u)
           /\ pc[u] = "lockConn" => offerConnection(u)
           /\ pc[u] = "waitAccepted" => finishConnect(u)
           /\ pc[u] = "poll" => noOffer(u) \/ rejectOffer(u) \/ acceptOffer(u)
           /\ pc[u] = "waitNewConn" => wakeAcceptor(u) \/ acceptTimedOut(u)
           /\ pc[u] = "track" => trackManual(u)
           /\ pc[u] = "close" => closeLink(u)
           /\ pc[u] = "lockLink" => lockLink(u)
           /\ pc[u] = "clearPeer" => clearPeer(u)
           /\ pc[u] = "freeLink" => freeLink(u)
           /\ pc[u] = "countFree" => countFreed(u)
           /\ pc[u] # "aborted"
           /\ pc[u] = "offline" => offlineService(u)
           /\ pc[u] = "joinDaemon" => joinDaemon(u)
           /\ pc[u] = "closeAccepted" => closeDaemonLink(u) \/ closeManualLink(u) \/ finishOffline(u)
<1>1. /\ CallApi(u) => pc[u] = "idle"
      /\ onlineService(u) => pc[u] = "online"
      /\ allocConnecting(u) => pc[u] = "connect"
      /\ findService(u) => pc[u] = "findService"
      /\ offerConnection(u) => pc[u] = "lockConn"
      /\ finishConnect(u) => pc[u] = "waitAccepted"
      /\ refuseAccept(u) \/ allocAccepting(u) => pc[u] = "accept"
  BY DEF CallApi, onlineService, allocConnecting, findService, offerConnection, finishConnect, refuseAccept, allocAccepting
<1>2. /\ noOffer(u) \/ rejectOffer(u) \/ acceptOffer(u) => pc[u] = "poll"
      /\ wakeAcceptor(u) \/ acceptTimedOut(u) => pc[u] = "waitNewConn"
      /\ trackManual(u) => pc[u] = "track"
  BY DEF noOffer, rejectOffer, acceptOffer, wakeAcceptor, acceptTimedOut, trackManual
<1>3. /\ closeLink(u) => pc[u] = "close"
      /\ lockLink(u) => pc[u] = "lockLink"
      /\ clearPeer(u) => pc[u] = "clearPeer"
      /\ freeLink(u) => pc[u] = "freeLink"
      /\ countFreed(u) => pc[u] = "countFree"
      /\ offlineService(u) => pc[u] = "offline"
      /\ joinDaemon(u) => pc[u] = "joinDaemon"
      /\ closeDaemonLink(u) \/ closeManualLink(u) \/ finishOffline(u) => pc[u] = "closeAccepted"
  BY DEF closeLink, lockLink, clearPeer, freeLink, countFreed, offlineService, joinDaemon, closeDaemonLink, closeManualLink,
         finishOffline
<1>4. u \notin Services
  BY ConstantsOK
<1> QED
  BY <1>1, <1>2, <1>3, <1>4 DEF Acts, UserAction, AcceptAction

(* What a daemon does that acts, by its label. *)
LEMMA DaemonActs ==
    ASSUME NEW s \in Services, Acts(s)
    PROVE  /\ pc[s] # "exited"
           /\ pc[s] = "poll" => noOffer(s) \/ rejectOffer(s) \/ acceptOffer(s)
           /\ pc[s] = "waitNewConn" => wakeAcceptor(s) \/ daemonExit(s)
           /\ pc[s] = "track" => trackDaemon(s) \/ daemonExit(s)
<1>1. s \notin Users
  BY ConstantsOK
<1> QED
  BY <1>1 DEF Acts, DaemonAction, AcceptAction, noOffer, rejectOffer, acceptOffer, wakeAcceptor, trackDaemon, daemonExit, daemonAlloc

-----------------------------------------------------------------------------
(* The link objects and their table: an object is allocated once, whatever is in a slot has its index as ID, *)
(* and an open one always is in its slot.                                                                    *)
FreshMem ==
    /\ \A t \in Threads, n \in 1 .. MaxObjs : Allocated(<<t, n>>) => n <= calls[t]
    /\ \A t \in Users : pc[t] \in {"connect", "accept"} => ~Allocated(op[t].obj)
SlotOK(i, o) == link[o].id = i
TableOK ==
    /\ \A o \in Objs : Open(o) => tbl[link[o].id] = o
    /\ \A i \in Slots : tbl[i] # Null => SlotOK(i, tbl[i])

(* Whose business a link is: the thread's that works on it, then the application's or the service's, *)
(* then the thread's that closes it, and never two of these at once.                                   *)
Kept(o) == o \in owned /\ ~ClosedByService(o)
WorkOK == \A o \in Objs : Worked(o) =>
    /\ Open(o) /\ o \notin owned /\ ~Closing(o) /\ \A s \in Services \ KeepAccepted : ~Listed(s, o)
KeptOK == \A o \in Objs : Kept(o) => Open(o)
ClosesRightly(t) ==
    /\ Open(op[t].obj)
    /\ InCall(t, {"close"}) => op[t].obj \notin owned /\ ~ClosedByService(op[t].obj)
    /\ InCall(t, {"offline"}) => /\ op[t].srv \in Services \ KeepAccepted
                                 /\ op[t].obj \in AcceptedBy(op[t].srv) /\ ~Listed(op[t].srv, op[t].obj)
OneCloser == \A t, u \in Users : Closes(t) /\ Closes(u) /\ op[t].obj = op[u].obj => t = u
CloseOK == OneCloser /\ \A t \in Users : Closes(t) => ClosesRightly(t)
Distinct(array, n) == \A i, j \in 1 .. n : array[i] # Null /\ array[i] = array[j] => i = j
ListsOK(s) ==
    /\ \A o \in Objs : Listed(s, o) => Open(o) /\ o \in AcceptedBy(s)
    /\ Distinct(srv[s].DaemonAccept, MaxDaemon) /\ Distinct(srv[s].ManualAccept, MaxManual)
    /\ \A i \in 1 .. MaxDaemon : srv[s].DaemonAccept[i] # Null => srv[s].DaemonAccept[i][1] \in Services
    /\ \A i \in 1 .. MaxManual : srv[s].ManualAccept[i] # Null =>
          tbl[srv[s].ManualAccept[i]] # Null /\ tbl[srv[s].ManualAccept[i]][1] \in Users
ListOK == \A s \in Services \ KeepAccepted : ListsOK(s)

(* What a service remembers of its acceptances, and while it is online. *)
TrackOK == \A t \in Threads : pc[t] = "track" =>
    \E a \in accepted : a.server = op[t].obj /\ a.srv = op[t].srv /\ ~a.remembered
ClosesFor(s, o) == \E t \in Users : Closes(t) /\ InCall(t, {"offline"}) /\ op[t].srv = s /\ op[t].obj = o
RememberedOK == \A a \in accepted :
    a.srv \notin KeepAccepted /\ a.remembered /\ Open(a.server) => Listed(a.srv, a.server) \/ ClosesFor(a.srv, a.server)
EmptyLists(s) == /\ \A i \in 1 .. MaxDaemon : srv[s].DaemonAccept[i] = Null
                 /\ \A i \in 1 .. MaxManual : srv[s].ManualAccept[i] = Null
DaemonRuns(s) ==
    /\ srv[s].online /\ Daemon[s] # "none"
    /\ \A t \in Users : InCall(t, {"offline"}) /\ op[t].srv = s => pc[t] \notin ClosingLabels
OnlineOK ==
    /\ \A s \in Services : pc[s] # "exited" => DaemonRuns(s)
    /\ \A t \in Users : pc[t] \in AcceptLabels => srv[op[t].srv].online
    /\ \A t \in Users : InCall(t, {"offline"}) /\ pc[t] # "offline" => srv[op[t].srv].online
    /\ \A s \in Services : ~srv[s].online => EmptyLists(s)

(* What the thread that closes a link knows of the two peer pointers: its link's is clear, the peer's points *)
(* back or was cleared by the peer's own closer, and nobody else points to its link.                         *)
LockedOK == \A o \in Objs : link[o].locked => \E t \in Users : pc[t] = "clearPeer" /\ op[t].obj = o
NoSelfPeer == \A o \in Objs : link[o].pPeer # o
PointsBack(o, p) ==
    /\ link[o].pPeer = Null /\ Allocated(p)
    /\ link[p].pPeer = o \/ (link[p].pPeer = Null /\ ~Worked(p))
    /\ \A x \in Objs : Open(x) /\ link[x].pPeer = o => x = p
ClearOK == \A t \in Users : pc[t] = "clearPeer" => PointsBack(op[t].obj, op[t].peer)
FreeOK == \A t \in Users : pc[t] = "freeLink" => link[op[t].obj].pPeer = Null

BaseInv == IInv /\ CallsInv
CountOK == IsFiniteSet(Counting) /\ CountTruthful
MemInv == FreshMem /\ TableOK /\ CountOK
CustodyInv == WorkOK /\ KeptOK /\ CloseOK /\ ListOK
ServiceInv == TrackOK /\ RememberedOK /\ OnlineOK
PeersInv == LockedOK /\ NoSelfPeer /\ ClearOK /\ FreeOK /\ PeersAgree
TeardownInv == BaseInv /\ MemInv /\ CustodyInv /\ ServiceInv /\ PeersInv

(* One thread works on a link, one thread closes it, one service accepted it. *)
LEMMA SoleWorker ==
    ASSUME IInv, NEW t \in Threads, NEW u \in Threads, Works(t), Works(u), op[t].obj = op[u].obj
    PROVE  t = u
<1>1. OpOK /\ AppType /\ pc[t] \in OwnObjLabels /\ pc[u] \in OwnObjLabels
  BY DEF IInv, TypeInv, TypeOK, AppType, Works, WorkLabels, OwnObjLabels, UninvolvedLabels
<1>2. op[t].obj = <<t, calls[t]>> /\ op[u].obj = <<u, calls[u]>>
  BY <1>1, OwnObj
<1>3. <<t, calls[t]>> = <<u, calls[u]>>
  BY <1>2
<1> QED
  BY ONLY <1>3

(* A link was accepted for one service. *)
LEMMA OneAcceptance ==
    ASSUME IInv, NEW o, NEW s, NEW r, o \in AcceptedBy(s), o \in AcceptedBy(r)
    PROVE  s = r
BY DEF IInv, AcceptedOK, AcceptedBy

(* The link in the hands of a thread at work is worked on. *)
LEMMA WorkedLink == ASSUME NEW t \in Threads, Works(t) PROVE Worked(op[t].obj)
BY DEF Worked

(* A link that is freed was open, in no list, and only the thread that frees it had it in hand. *)
LEMMA GoneLink ==
    ASSUME BaseInv, CustodyInv, NEW t \in Threads, NEW o \in Objs, GivesUp(t, o) \/ Closed(t, o)
    PROVE  /\ Open(o) /\ ~Kept(o) /\ \A s \in Services \ KeepAccepted : ~Listed(s, o)
           /\ \A u \in Threads : Works(u) /\ op[u].obj = o => u = t /\ ~Works(u)'
           /\ \A u \in Users : Closes(u) /\ op[u].obj = o => u = t /\ ~Closes(u)'
<1>1. CASE GivesUp(t, o)
  <2>1. Works(t) /\ o = op[t].obj /\ ~Works(t)'
    BY <1>1 DEF GivesUp, Works, WorkLabels
  <2>2. Open(o) /\ o \notin owned /\ ~Closing(o) /\ \A s \in Services \ KeepAccepted : ~Listed(s, o)
    BY <2>1 DEF CustodyInv, WorkOK, Worked
  <2> QED
    BY <2>1, <2>2, SoleWorker DEF BaseInv, Kept, Closing
<1>2. CASE Closed(t, o)
  <2>1. t \in Users /\ o = op[t].obj /\ Closes(t) /\ ~Closes(t)' /\ ClosesRightly(t) /\ InCall(t, Teardown)
    BY <1>2 DEF Closed, Closes, CloseLabels, CustodyInv, CloseOK, BaseInv, CallsInv, LabelOK
  <2>2. InCall(t, {"close"}) \/ InCall(t, {"offline"})
    BY <2>1 DEF InCall, Teardown
  <2>3. ~Worked(o)
    BY <2>1 DEF CustodyInv, WorkOK, Closing
  <2>4. ~Kept(o)
    BY <2>1, <2>2 DEF ClosesRightly, Kept, ClosedByService
  <2>5. ASSUME NEW s \in Services \ KeepAccepted, Listed(s, o) PROVE FALSE
    <3>1. o \in AcceptedBy(s)
      BY <2>5 DEF CustodyInv, ListOK, ListsOK
    <3>2. CASE InCall(t, {"close"})
      BY <2>1, <3>1, <3>2 DEF ClosesRightly, ClosedByService
    <3>3. CASE InCall(t, {"offline"})
      <4>1. o \in AcceptedBy(op[t].srv) /\ ~Listed(op[t].srv, o)
        BY <2>1, <3>3 DEF ClosesRightly
      <4>2. s = op[t].srv
        BY <3>1, <4>1, OneAcceptance DEF BaseInv
      <4> QED
        BY <2>5, <4>1, <4>2
    <3> QED
      BY <2>2, <3>2, <3>3
  <2>6. Open(o)
    BY <2>1 DEF ClosesRightly
  <2>7. \A u \in Threads : ~(Works(u) /\ op[u].obj = o)
    BY <2>3 DEF Worked
  <2>8. \A u \in Users : Closes(u) /\ op[u].obj = o => u = t
    BY <2>1 DEF CustodyInv, CloseOK, OneCloser
  <2> QED
    BY <2>1, <2>4, <2>5, <2>6, <2>7, <2>8
<1> QED
  BY <1>1, <1>2

(* An object is open from when it is allocated until somebody gives up or closes it. *)
OpenStep(o) ==
    /\ Open(o)' => Open(o) \/ \E t \in Threads : Allocates(t, o)
    /\ Allocated(o)' => Allocated(o) \/ \E t \in Threads : Allocates(t, o)
    /\ Open(o) => Open(o)' \/ \E t \in Threads : GivesUp(t, o) \/ Closed(t, o)
    /\ link'[o].id = link[o].id \/ \E t \in Threads : Allocates(t, o)
(* Every step treats every object this way. *)
LEMMA NextOpen == ASSUME IInv, Next PROVE \A o \in Objs : OpenStep(o)
<1> SUFFICES ASSUME NEW o \in Objs PROVE OpenStep(o)
  OBVIOUS
<1>1. TableStep
  BY NextTableStep
<1>2. ASSUME link'[o].mem = link[o].mem, link'[o].id = link[o].id PROVE OpenStep(o)
  BY <1>2 DEF Open, Allocated, OpenStep
<1>3. CASE SameTable \/ SameMemories
  BY <1>2, <1>3 DEF SameTable, SameLink, SameMemories, SameMemory
<1>4. ASSUME NEW t \in Threads, NEW p \in Objs, Allocates(t, p) PROVE OpenStep(o)
  <2>1. CASE o = p
    <3>1. Open(o)' /\ Allocates(t, o)
      BY <1>4, <2>1 DEF Allocates
    <3> QED
      BY <3>1 DEF OpenStep
  <2>2. CASE o # p
    BY <1>2, <1>4, <2>2 DEF Allocates, OtherLinks, SameLink
  <2> QED
    BY <2>1, <2>2
<1>5. ASSUME NEW t \in Threads, NEW p \in Objs, GivesUp(t, p) \/ Closed(t, p), o # p PROVE OpenStep(o)
  BY <1>2, <1>5 DEF GivesUp, Closed, Leaks, Frees, Ends, OtherLinks, SameLink
<1>6. ASSUME NEW t \in Threads, GivesUp(t, o) \/ Closed(t, o) PROVE OpenStep(o)
  <2>1. ~Open(o)' /\ link'[o].id = link[o].id
    BY <1>6 DEF GivesUp, Closed, Leaks, Frees, Ends, Open
  <2>2. o = op[t].obj /\ pc[t] \in WithLinkLabels
    BY <1>6 DEF GivesUp, Closed, Works, WorkLabels, WithLinkLabels
  <2>3. Allocated(o)
    BY <2>2 DEF IInv, TypeInv, LinksOK
  <2> QED
    BY <1>6, <2>1, <2>3 DEF OpenStep
<1> QED
  BY <1>1, <1>3, <1>4, <1>5, <1>6 DEF TableStep, Pairs, Locks, Unpeers

(* What is allocated was not allocated before, and no acceptance involves it; *)
LEMMA AllocatesNew ==
    ASSUME IInv, FreshMem, NEW t \in Threads, NEW o \in Objs, Allocates(t, o)
    PROVE  ~Allocated(o) /\ ~Involved(o)
<1>1. CASE t \in Users /\ pc[t] \in {"connect", "accept"} /\ op[t].obj = o
  BY <1>1 DEF FreshMem, IInv, FreshOK, UninvolvedLabels
<1>2. CASE t \in Services /\ calls'[t] = calls[t] + 1
  <2>1. PICK n \in 1 .. MaxObjs : o = <<t, n>> /\ n = calls[t] + 1
    BY <1>2 DEF Allocates, Objs
  <2>2. calls[t] \in Nat /\ n \in Nat
    BY ConstantsOK DEF IInv, TypeInv, TypeOK
  <2> QED
    BY <2>1, <2>2 DEF FreshMem, IInv, FreshOK
<1> QED
  BY <1>1, <1>2 DEF Allocates

(* so nobody has it, no service lists it and no slot holds it. *)
LEMMA AllocatesUnused ==
    ASSUME BaseInv, FreshMem, CustodyInv, NEW t \in Threads, NEW o \in Objs, Allocates(t, o)
    PROVE  /\ ~Open(o) /\ o \notin owned /\ ~Worked(o) /\ ~Closing(o) /\ \A s \in Services \ KeepAccepted : ~Listed(s, o)
           /\ \A i \in Slots : tbl[i] # o
<1>1. ~Allocated(o) /\ ~Open(o)
  BY AllocatesNew DEF BaseInv, Allocated, Open
<1>2. ~Worked(o) /\ ~Closing(o)
  BY <1>1 DEF CustodyInv, WorkOK, CloseOK, ClosesRightly, Closing
<1>3. o \notin owned /\ \A s \in Services \ KeepAccepted : ~Listed(s, o)
  BY <1>1 DEF BaseInv, IInv, TypeInv, LinksOK, CustodyInv, ListOK, ListsOK
<1>4. \A i \in Slots : tbl[i] # o
  <2>1. o # Null
    BY ConstantsOK
  <2> QED
    BY <1>1, <2>1 DEF BaseInv, IInv, TypeInv, LinksOK
<1> QED
  BY <1>1, <1>2, <1>3, <1>4

-----------------------------------------------------------------------------
(* What a step does to the acceptances: one more, or one that is remembered. *)
Accepts(t, s, o) ==
    /\ s \in Services /\ s = op[t].srv /\ o \in Objs /\ o = op[t].obj /\ pc[t] = "poll" /\ Works(t)
    /\ pc'[t] = "track" /\ op'[t] = op[t] /\ UNCHANGED <<tbl, owned>>
    /\ \E c \in Objs : accepted' = accepted \cup {[srv |-> s, server |-> o, client |-> c, remembered |-> FALSE]}
Enters(s, o) == \/ \E i \in 1 .. MaxDaemon : srv'[s].DaemonAccept[i] = o
                \/ \E i \in 1 .. MaxManual : srv'[s].ManualAccept[i] = link[o].id
AcceptedStep ==
    \/ accepted' = accepted
    \/ \E t \in Threads, s \in Services, o \in Objs : Accepts(t, s, o)
    \/ \E t \in Threads, s \in Services, o \in Objs, full \in BOOLEAN : Tracks(t, s, o, full) /\ (~full => Enters(s, o))

(* acceptOffer makes one acceptance that its service does not remember yet. *)
LEMMA AcceptEffects ==
    ASSUME IInv, NEW t \in Threads, acceptOffer(t)
    PROVE  \E s \in Services, o \in Objs : Accepts(t, s, o)
<1>0. SrvType /\ CtlType /\ OpOK /\ AppType
  BY DEF IInv, TypeInv, TypeOK, SrvType, CtlType, AppType
<1>1. pc[t] = "poll" /\ pc[t] \in OwnObjLabels /\ Works(t)
  BY DEF acceptOffer, OwnObjLabels, UninvolvedLabels, Works, WorkLabels
<1>2. PICK s \in Services, o \in Objs : s = op[t].srv /\ o = op[t].obj
  BY <1>0, <1>1, OwnObj
<1>3. PICK c \in Objs : c = srv[s].pConnLinkObj
  BY <1>0, <1>2 DEF acceptOffer, SrvType, SrvRecords
<1>4. accepted' = accepted \cup {[srv |-> s, server |-> o, client |-> c, remembered |-> FALSE]} /\ op' = op
      /\ UNCHANGED <<tbl, owned>>
  BY <1>2, <1>3 DEF acceptOffer, tblVars, appVars
<1>5. pc'[t] = "track"
  BY <1>0 DEF acceptOffer, Goto, CtlType
<1> QED
  BY <1>1, <1>2, <1>4, <1>5 DEF Accepts

(* Every step is one of these for the acceptances. *)
LEMMA NextAcceptedStep == ASSUME IInv, Next PROVE AcceptedStep
<1>1. ASSUME NEW t \in Threads, acceptOffer(t) PROVE AcceptedStep
  BY <1>1, AcceptEffects DEF AcceptedStep
<1>2. ASSUME NEW t \in Threads, trackManual(t) \/ (t \in Services /\ trackDaemon(t)) PROVE AcceptedStep
  <2>1. CASE trackManual(t)
    <3>1. PICK s \in Services, o \in Objs : ManualTracks(t, s, o)
      BY <2>1, ManualTrackEffects DEF trackManual
    <3>2. PICK full \in BOOLEAN : full = \A i \in 1 .. MaxManual : srv[s].ManualAccept[i] # Null
      OBVIOUS
    <3>3. Tracks(t, s, o, full) /\ (~full => Enters(s, o))
      BY <3>1, <3>2 DEF ManualTracks, Entered, Enters
    <3> QED
      BY <3>3 DEF AcceptedStep
  <2>2. CASE t \in Services /\ trackDaemon(t)
    <3>1. PICK s \in Services, o \in Objs : DaemonTracks(t, s, o)
      BY <2>2, DaemonTrackEffects
    <3>2. PICK full \in BOOLEAN : full = \A i \in 1 .. MaxDaemon : srv[s].DaemonAccept[i] # Null
      OBVIOUS
    <3>3. Tracks(t, s, o, full) /\ (~full => Enters(s, o))
      BY <3>1, <3>2 DEF DaemonTracks, Entered, Enters
    <3> QED
      BY <3>3 DEF AcceptedStep
  <2> QED
    BY <1>2, <2>1, <2>2
<1>3. ASSUME NEW t \in Threads,
             CallApi(t) \/ onlineService(t) \/ allocConnecting(t) \/
             findService(t) \/ offerConnection(t) \/ finishConnect(t) \/ refuseAccept(t) \/
             allocAccepting(t) \/ noOffer(t) \/ rejectOffer(t) \/ wakeAcceptor(t) \/ closeLink(t) \/
             lockLink(t) \/ clearPeer(t) \/ freeLink(t) \/ countFreed(t) \/ offlineService(t) \/
             joinDaemon(t) \/ closeDaemonLink(t) \/ closeManualLink(t) \/ finishOffline(t) \/
             acceptTimedOut(t) \/ daemonAlloc(t) \/ daemonExit(t)
      PROVE  accepted' = accepted
  BY <1>3 DEF CallApi, onlineService, allocConnecting, findService, offerConnection,
     finishConnect, refuseAccept, allocAccepting, noOffer, rejectOffer, wakeAcceptor, closeLink,
     lockLink, clearPeer, freeLink, countFreed, offlineService, joinDaemon, closeDaemonLink,
     closeManualLink, finishOffline, acceptTimedOut, daemonAlloc, daemonExit
<1> QED
  BY NextIsAction, <1>1, <1>2, <1>3 DEF UserAction, DaemonAction, AcceptAction, AcceptedStep

(* An acceptance that is remembered stays what it is otherwise. *)
LEMMA TrackedAcceptances ==
    ASSUME IInv, NEW t \in Threads, NEW s, NEW o, NEW full \in BOOLEAN, Tracks(t, s, o, full)
    PROVE  /\ \A b \in accepted' : \E a \in accepted : /\ b.srv = a.srv /\ b.server = a.server
                                                       /\ b.remembered => a.remembered \/ (a.server = o /\ ~full)
           /\ \A a \in accepted : \E b \in accepted' : b.srv = a.srv /\ b.server = a.server
           /\ \A a \in accepted : a.server # o => a \in accepted'
           /\ \A b \in accepted' : b.server # o => b \in accepted
<1>1. accepted \subseteq Acceptances
  BY DEF IInv, TypeInv, TypeOK, Acceptances
<1>2. ASSUME NEW a \in accepted, NEW r \in BOOLEAN
      PROVE  /\ [a EXCEPT !.remembered = r].srv = a.srv /\ [a EXCEPT !.remembered = r].server = a.server
             /\ [a EXCEPT !.remembered = r].remembered = r
             /\ r = a.remembered => [a EXCEPT !.remembered = r] = a
  BY <1>1 DEF Acceptances
<1>3. \A a \in accepted : a.remembered \in BOOLEAN
  BY <1>1 DEF Acceptances
<1>4. accepted' = {[a EXCEPT !.remembered = a.remembered \/ (a.server = o /\ ~full)] : a \in accepted}
  BY DEF Tracks
<1> DEFINE r(a) == a.remembered \/ (a.server = o /\ ~full)
           new(a) == [a EXCEPT !.remembered = r(a)]
<1>5. \A a \in accepted : r(a) \in BOOLEAN /\ (a.server # o => r(a) = a.remembered)
  BY <1>3
<1>6. accepted' = {new(a) : a \in accepted}
  BY <1>4
<1>7. ASSUME NEW a \in accepted
      PROVE  /\ new(a).srv = a.srv /\ new(a).server = a.server /\ new(a).remembered = r(a)
             /\ r(a) = a.remembered => new(a) = a
  <2>1. PICK b \in BOOLEAN : b = r(a)
    BY <1>5
  <2>2. new(a) = [a EXCEPT !.remembered = b]
    BY <2>1
  <2> HIDE DEF new, r
  <2> QED
    BY <1>2, <2>1, <2>2
<1>8. \A a \in accepted : r(a) => a.remembered \/ (a.server = o /\ ~full)
  OBVIOUS
<1> HIDE DEF new, r
<1> QED
  BY <1>5, <1>6, <1>7, <1>8

(* What was accepted stays accepted, and what is accepted anew was worked on. *)
LEMMA NextAcceptedBy ==
    ASSUME IInv, Next, NEW s \in Services
    PROVE  /\ \A o \in AcceptedBy(s) : o \in AcceptedBy(s)'
           /\ \A o \in AcceptedBy(s)' : o \in AcceptedBy(s) \/ Worked(o)
<1>1. AcceptedStep
  BY NextAcceptedStep
<1>2. CASE accepted' = accepted
  BY <1>2 DEF AcceptedBy
<1>3. ASSUME NEW t \in Threads, NEW r \in Services, NEW o \in Objs, Accepts(t, r, o)
      PROVE  /\ \A x \in AcceptedBy(s) : x \in AcceptedBy(s)'
             /\ \A x \in AcceptedBy(s)' : x \in AcceptedBy(s) \/ Worked(x)
  <2>1. Worked(o)
    BY <1>3, WorkedLink DEF Accepts
  <2> QED
    BY <1>3, <2>1 DEF Accepts, AcceptedBy
<1>4. ASSUME NEW t \in Threads, NEW r \in Services, NEW o \in Objs, NEW full \in BOOLEAN, Tracks(t, r, o, full)
      PROVE  /\ \A x \in AcceptedBy(s) : x \in AcceptedBy(s)'
             /\ \A x \in AcceptedBy(s)' : x \in AcceptedBy(s)
  <2>1. /\ \A b \in accepted' : \E a \in accepted : b.srv = a.srv /\ b.server = a.server
        /\ \A a \in accepted : \E b \in accepted' : b.srv = a.srv /\ b.server = a.server
    BY <1>4, TrackedAcceptances
  <2> QED
    BY <2>1 DEF AcceptedBy
<1> QED
  BY <1>1, <1>2, <1>3, <1>4 DEF AcceptedStep

(* What a service closes it goes on to close, and what it closes anew was worked on. *)
LEMMA NextClosedByService ==
    ASSUME IInv, Next, NEW o
    PROVE  /\ ClosedByService(o) => ClosedByService(o)'
           /\ ClosedByService(o)' => ClosedByService(o) \/ Worked(o)
BY NextAcceptedBy DEF ClosedByService

-----------------------------------------------------------------------------
(* What a step does to the lists: nothing, or one of six. *)
ListStep ==
    \/ \A s \in Services : SameLists(s)
    \/ \E t \in Users, s \in Services : Online(t, s) \/ Finishes(t, s)
    \/ \E t \in Threads, s \in Services, o \in Objs : ManualTracks(t, s, o) \/ DaemonTracks(t, s, o)
    \/ \E t \in Users, s \in Services, o \in Objs : DaemonUnlists(t, s, o)
    \/ \E t \in Users, s \in Services, k \in Slots : ManualUnlists(t, s, k)
(* Every step is one of these for the lists. *)
LEMMA NextListStep == ASSUME IInv, Next PROVE ListStep
<1>1. ASSUME NEW t \in Users, onlineService(t) \/ finishOffline(t) \/ trackManual(t) \/ closeDaemonLink(t) \/ closeManualLink(t)
      PROVE  ListStep
  BY <1>1, OnlineEffects, FinishEffects, ManualTrackEffects, DaemonUnlistEffects, ManualUnlistEffects DEF ListStep, Threads
<1>2. ASSUME NEW t \in Services, trackDaemon(t) PROVE ListStep
  BY <1>2, DaemonTrackEffects DEF ListStep, Threads
<1>3. PICK t \in Threads : \/ t \in Users /\ (onlineService(t) \/ UserAction(t))
                           \/ t \in Services /\ DaemonAction(t)
                           \/ AcceptAction(t)
  BY NextIsAction
<1>4. \A u \in Threads : /\ trackManual(u) => u \in Users
                         /\ trackDaemon(u) => u \in Services
  BY DEF trackManual, trackDaemon
<1>5. ASSUME NEW u \in Threads, onlineService(u) \/ finishOffline(u) \/ closeDaemonLink(u) \/ closeManualLink(u)
      PROVE  u \in Users
  <2>1. pc[u] \in {"online", "closeAccepted"}
    BY <1>5 DEF onlineService, finishOffline, closeDaemonLink, closeManualLink
  <2> QED
    BY <2>1 DEF IInv, TypeInv, OpOK, ThreadOK, DaemonLabels, Threads
<1>6. CASE \A u \in Threads : ~ListAction(u)
  BY <1>6, OtherActionsKeepLists DEF ListStep
<1>7. CASE \E u \in Threads : ListAction(u)
  BY <1>1, <1>2, <1>4, <1>5, <1>7 DEF ListAction
<1> QED
  BY <1>6, <1>7

(* The slot of an ID that a service remembers does not change. *)
LEMMA RememberedIds ==
    ASSUME BaseInv, NEW s \in Services, NEW i \in 1 .. MaxManual, srv[s].ManualAccept[i] # Null
    PROVE  srv[s].ManualAccept[i] \in Slots
<1>1. srv[s] \in SrvRecords
  BY DEF BaseInv, IInv, TypeInv, TypeOK
<1>2. srv[s].ManualAccept \in [1 .. MaxManual -> Slots \cup {Null}]
  BY <1>1 DEF SrvRecords
<1> QED
  BY <1>2
(* The link in such a slot is open and nobody but its service closes it, so the slot keeps it. *)
LEMMA RememberedSlots ==
    ASSUME BaseInv, MemInv, CustodyInv, Next, NEW s \in Services \ KeepAccepted, NEW i \in 1 .. MaxManual, srv[s].ManualAccept[i] # Null
    PROVE  tbl'[srv[s].ManualAccept[i]] = tbl[srv[s].ManualAccept[i]]
<1>0. tbl \in [Slots -> Objs \cup {Null}] /\ srv[s].ManualAccept[i] \in Slots
  BY RememberedIds DEF BaseInv, IInv, TypeInv, TypeOK
<1>1. tbl[srv[s].ManualAccept[i]] # Null
  BY DEF CustodyInv, ListOK, ListsOK
<1>2. TableStep
  BY NextTableStep DEF BaseInv
<1>3. ASSUME NEW t \in Threads, NEW o \in Objs, Allocates(t, o) PROVE tbl'[srv[s].ManualAccept[i]] = tbl[srv[s].ManualAccept[i]]
  BY <1>0, <1>1, <1>3 DEF Allocates
<1>4. ASSUME NEW t \in Threads, NEW o \in Objs, GivesUp(t, o) \/ Closed(t, o)
      PROVE  tbl'[srv[s].ManualAccept[i]] = tbl[srv[s].ManualAccept[i]]
  <2>1. Open(o) /\ ~Listed(s, o)
    BY <1>4, GoneLink
  <2>2. tbl[link[o].id] = o
    BY <2>1 DEF MemInv, TableOK
  <2>3. srv[s].ManualAccept[i] # link[o].id
    BY <2>1, <2>2 DEF Listed
  <2>4. tbl' = tbl \/ tbl' = [tbl EXCEPT ![link[o].id] = Null]
    BY <1>4 DEF GivesUp, Closed, Leaks, Frees
  <2> QED
    BY <1>0, <2>3, <2>4
<1>5. CASE tbl' = tbl
  BY <1>5
<1> QED
  BY <1>2, <1>3, <1>4, <1>5 DEF TableStep, SameTable, SameMemories, Pairs, Locks, Unpeers

(* A service comes to list a link when it is done with accepting it. *)
ListedStep(s) == \A o \in Objs : Listed(s, o)' => Listed(s, o) \/ \E t \in Threads : Leaves(t, o) /\ o \in AcceptedBy(s)
(* Every step lists links this way only. *)
LEMMA NextListed ==
    ASSUME BaseInv, MemInv, CustodyInv, TrackOK, Next, NEW s \in Services \ KeepAccepted
    PROVE  ListedStep(s)
<1>0. srv \in [Services -> SrvRecords] /\ MaxManual \in Nat /\ MaxDaemon \in Nat
  BY ConstantsOK DEF BaseInv, IInv, TypeInv, TypeOK
<1>1. ListStep
  BY NextListStep DEF BaseInv
<1>2. ASSUME SameLists(s) PROVE ListedStep(s)
  BY <1>2, RememberedSlots DEF SameLists, Listed, ListedStep
<1>3. ASSUME NoLists(s) PROVE ListedStep(s)
  <2>1. \A o \in Objs : o # Null
    BY ConstantsOK
  <2> QED
    BY <1>3, <2>1 DEF NoLists, Listed, ListedStep
<1>4. ASSUME NEW t \in Threads, NEW r \in Services, NEW o \in Objs, ManualTracks(t, r, o) \/ DaemonTracks(t, r, o)
      PROVE  ListedStep(s)
  <2>1. CASE r # s
    BY <1>2, <1>4, <2>1 DEF ManualTracks, DaemonTracks, Tracks, OtherLists
  <2>2. CASE r = s
    <3>1. Leaves(t, o) /\ o \in AcceptedBy(s) /\ Open(o) /\ tbl' = tbl
      <4>1. pc[t] = "track" /\ op[t].obj = o /\ op[t].srv = s /\ Works(t) /\ Leaves(t, o) /\ tbl' = tbl
        BY <1>4, <2>2 DEF ManualTracks, DaemonTracks, Tracks, Leaves
      <4>2. o \in AcceptedBy(s)
        BY <4>1 DEF TrackOK, AcceptedBy
      <4> QED
        BY <4>1, <4>2, WorkedLink DEF CustodyInv, WorkOK
    <3>2. tbl[link[o].id] = o
      BY <3>1 DEF MemInv, TableOK
    <3>3. CASE ManualTracks(t, r, o)
      <4>1. srv'[s].DaemonAccept = srv[s].DaemonAccept /\
            \A i \in 1 .. MaxManual : srv'[s].ManualAccept[i] = srv[s].ManualAccept[i] \/ srv'[s].ManualAccept[i] = link[o].id
        BY <2>2, <3>3 DEF ManualTracks, Entered
      <4> QED
        BY <3>1, <3>2, <4>1 DEF Listed, ListedStep
    <3>4. CASE DaemonTracks(t, r, o)
      <4>1. srv'[s].ManualAccept = srv[s].ManualAccept /\
            \A i \in 1 .. MaxDaemon : srv'[s].DaemonAccept[i] = srv[s].DaemonAccept[i] \/ srv'[s].DaemonAccept[i] = o
        BY <2>2, <3>4 DEF DaemonTracks, Entered
      <4> QED
        BY <3>1, <4>1 DEF Listed, ListedStep
    <3> QED
      BY <1>4, <3>3, <3>4
  <2> QED
    BY <2>1, <2>2
<1>5. ASSUME NEW t \in Users, NEW r \in Services, Online(t, r) \/ Finishes(t, r) PROVE ListedStep(s)
  BY <1>2, <1>3, <1>5 DEF Online, Finishes, OtherLists
<1>6. ASSUME NEW t \in Users, NEW r \in Services, NEW o \in Objs, DaemonUnlists(t, r, o) PROVE ListedStep(s)
  <2>1. CASE r # s
    BY <1>2, <1>6, <2>1 DEF DaemonUnlists, Unlists, OtherLists
  <2>2. CASE r = s
    <3>1. /\ srv'[s].ManualAccept = srv[s].ManualAccept /\ tbl' = tbl
          /\ \A i \in 1 .. MaxDaemon : srv'[s].DaemonAccept[i] = srv[s].DaemonAccept[i] \/ srv'[s].DaemonAccept[i] = Null
      BY <1>6, <2>2 DEF DaemonUnlists, Unlists, Removed
    <3>2. \A x \in Objs : x # Null
      BY ConstantsOK
    <3> QED
      BY <3>1, <3>2 DEF Listed, ListedStep
  <2> QED
    BY <2>1, <2>2
<1>7. ASSUME NEW t \in Users, NEW r \in Services, NEW k \in Slots, ManualUnlists(t, r, k) PROVE ListedStep(s)
  <2>1. CASE r # s
    BY <1>2, <1>7, <2>1 DEF ManualUnlists, Unlists, OtherLists
  <2>2. CASE r = s
    <3>1. /\ srv'[s].DaemonAccept = srv[s].DaemonAccept /\ tbl' = tbl
          /\ \A i \in 1 .. MaxManual : srv'[s].ManualAccept[i] = srv[s].ManualAccept[i] \/ srv'[s].ManualAccept[i] = Null
      BY <1>7, <2>2 DEF ManualUnlists, Unlists, Removed
    <3> QED
      BY <3>1 DEF Listed, ListedStep
  <2> QED
    BY <2>1, <2>2
<1> QED
  BY <1>1, <1>2, <1>4, <1>5, <1>6, <1>7 DEF ListStep

(* Who closes a link: whoever did, the application that had it, or the service that listed it and does no longer. *)
StillCloses(u, o) == Closes(u) /\ op[u].obj = o /\ op'[u].api = op[u].api /\ op'[u].srv = op[u].srv
ClosesKept(u, o) == Kept(o) /\ o \notin owned' /\ InCall(u, {"close"})' /\ accepted' = accepted /\ SameLink(o)
ClosesListed(u, s, o) == /\ op'[u].srv = s /\ InCall(u, {"offline"})' /\ Listed(s, o) /\ ~Listed(s, o)'
                         /\ UNCHANGED <<accepted, owned>> /\ SameLink(o)
Closers(u, o) == StillCloses(u, o) \/ ClosesKept(u, o) \/ \E s \in Services \ KeepAccepted : ClosesListed(u, s, o)

(* The application closes a link that it had and no service closes, *)
LEMMA CallCloses ==
    ASSUME BaseInv, ~ClosesAll, NEW u \in Users, CallApi(u), Closes(u)'
    PROVE  \E o \in Objs : o = op'[u].obj /\ ClosesKept(u, o)
<1>1. PICK c \in UserOps, o \in Objs : Calls(u, c, o)
  BY CallEffects DEF BaseInv, IInv
<1>2. c.api = "close"
  BY <1>1 DEF Calls, Ops, Closes, CloseLabels
<1>3. MayClose(o) /\ owned' = owned \ {o} /\ op'[u].obj = o /\ op'[u].api = "close" /\ UNCHANGED <<link, accepted>>
  BY <1>1, <1>2 DEF Calls
<1> QED
  BY <1>1, <1>3 DEF ClosesKept, Kept, MayClose, InCall, SameLink

(* the service one that it listed for its daemon, *)
LEMMA DaemonUnlisted ==
    ASSUME BaseInv, MemInv, CustodyInv, NEW u \in Users, NEW s \in Services, NEW o \in Objs, DaemonUnlists(u, s, o)
    PROVE  s \notin KeepAccepted /\ op'[u].obj = o /\ ClosesListed(u, s, o) /\ Closes(u)'
<1>1. s \in Services \ KeepAccepted /\ ListsOK(s) /\ InCall(u, {"offline"}) /\ s = op[u].srv
  BY DEF DaemonUnlists, Unlists, CustodyInv, ListOK, BaseInv, CallsInv, LabelOK
<1>2. PICK i \in 1 .. MaxDaemon : /\ srv[s].DaemonAccept[i] = o /\ o # Null /\ srv'[s].DaemonAccept[i] = Null
                                  /\ \A j \in 1 .. MaxDaemon : j # i => srv'[s].DaemonAccept[j] = srv[s].DaemonAccept[j]
  BY DEF DaemonUnlists, Removed
<1>3. Listed(s, o) /\ Open(o) /\ tbl[link[o].id] # Null
  BY <1>1, <1>2 DEF Listed, ListsOK, MemInv, TableOK
<1>4. StartsClosing(u, o) /\ UNCHANGED <<tbl, accepted, owned>> /\ SameLink(o) /\ srv'[s].ManualAccept = srv[s].ManualAccept
  BY <1>3 DEF DaemonUnlists, Unlists
<1>5. \A j \in 1 .. MaxDaemon : srv'[s].DaemonAccept[j] # o
  BY <1>1, <1>2 DEF ListsOK, Distinct
<1>6. o[1] \in Services /\ o[1] \notin Users
  BY <1>1, <1>2, ConstantsOK DEF ListsOK
<1>7. ~Listed(s, o)'
  BY <1>1, <1>4, <1>5, <1>6 DEF Listed, ListsOK
<1> QED
  BY <1>1, <1>3, <1>4, <1>7 DEF ClosesListed, StartsClosing, InCall, Closes, CloseLabels

(* or one that it listed by its ID; *)
LEMMA ManualUnlisted ==
    ASSUME BaseInv, MemInv, CustodyInv, NEW u \in Users, NEW s \in Services, NEW k \in Slots, ManualUnlists(u, s, k)
    PROVE  s \notin KeepAccepted /\ tbl[k] \in Objs /\ op'[u].obj = tbl[k] /\ ClosesListed(u, s, tbl[k]) /\ Closes(u)'
<1>1. s \in Services \ KeepAccepted /\ ListsOK(s) /\ InCall(u, {"offline"}) /\ s = op[u].srv
  BY DEF ManualUnlists, Unlists, CustodyInv, ListOK, BaseInv, CallsInv, LabelOK
<1>2. PICK i \in 1 .. MaxManual : /\ srv[s].ManualAccept[i] = k /\ k # Null /\ srv'[s].ManualAccept[i] = Null
                                  /\ \A j \in 1 .. MaxManual : j # i => srv'[s].ManualAccept[j] = srv[s].ManualAccept[j]
  BY DEF ManualUnlists, Removed
<1>3. PICK o \in Objs : o = tbl[k] /\ o[1] \in Users
  <2>1. tbl[k] # Null /\ tbl[k][1] \in Users
    BY <1>1, <1>2 DEF ListsOK
  <2>2. tbl[k] \in Objs \cup {Null}
    BY DEF BaseInv, IInv, TypeInv, TypeOK
  <2> QED
    BY <2>1, <2>2
<1>4. o # Null
  BY ConstantsOK
<1>5. Listed(s, o) /\ SlotOK(k, o)
  BY <1>2, <1>3, <1>4 DEF Listed, MemInv, TableOK
<1>6. StartsClosing(u, o) /\ UNCHANGED <<tbl, accepted, owned>> /\ SameLink(o) /\ srv'[s].DaemonAccept = srv[s].DaemonAccept
  BY <1>3, <1>4 DEF ManualUnlists, Unlists
<1>7. \A j \in 1 .. MaxDaemon : srv[s].DaemonAccept[j] # o
  BY <1>1, <1>3, <1>4, ConstantsOK DEF ListsOK
<1>8. ASSUME NEW j \in 1 .. MaxManual, srv'[s].ManualAccept[j] # Null, tbl[srv'[s].ManualAccept[j]] = o PROVE FALSE
  <2>1. j # i /\ srv'[s].ManualAccept[j] = srv[s].ManualAccept[j]
    BY <1>2, <1>8
  <2>2. srv[s].ManualAccept[j] \in Slots
    BY <1>8, <2>1, RememberedIds
  <2>3. link[o].id = srv[s].ManualAccept[j]
    BY <1>4, <1>8, <2>1, <2>2 DEF MemInv, TableOK, SlotOK
  <2>4. link[o].id = k
    BY <1>5 DEF SlotOK
  <2>5. Distinct(srv[s].ManualAccept, MaxManual)
    BY <1>1 DEF ListsOK
  <2> QED
    BY <1>2, <1>8, <2>1, <2>3, <2>4, <2>5 DEF Distinct
<1>9. ~Listed(s, o)'
  BY <1>6, <1>7, <1>8 DEF Listed
<1> QED
  BY <1>1, <1>3, <1>5, <1>6, <1>9 DEF ClosesListed, StartsClosing, InCall, Closes, CloseLabels

(* and nobody else begins to close a link. *)
LEMMA NextClosers ==
    ASSUME BaseInv, MemInv, CustodyInv, ~ClosesAll, Next, NEW u \in Users, Closes(u)'
    PROVE  \E o \in Objs : o = op'[u].obj /\ Closers(u, o)
<1>1. u \in Threads /\ UserMoves(u)
  BY NextMoves DEF BaseInv, Moves, Threads
<1>2. CASE CallApi(u)
  BY <1>2, CallCloses DEF Closers
<1>3. CASE closeDaemonLink(u)
  BY <1>3, DaemonUnlistEffects, DaemonUnlisted DEF Closers, BaseInv
<1>4. CASE closeManualLink(u)
  BY <1>4, ManualUnlistEffects, ManualUnlisted DEF Closers, BaseInv
<1>5. CASE /\ Closes(u) /\ op'[u].api = op[u].api /\ op'[u].srv = op[u].srv
           /\ op'[u].obj = op[u].obj \/ (closeLink(u) /\ op'[u].obj = getLinkObj(op[u].obj))
  <2>1. Open(op[u].obj) /\ op[u].obj \in Objs
    <3>1. pc[u] \in WithLinkLabels
      BY <1>5 DEF Closes, CloseLabels, WithLinkLabels
    <3>2. op[u].obj \in Objs
      BY <1>1, <3>1, LinkInHand DEF BaseInv, IInv, TypeInv, TypeOK, AppType
    <3> QED
      BY <1>5, <3>2 DEF CustodyInv, CloseOK, ClosesRightly
  <2>2. getLinkObj(op[u].obj) = op[u].obj
    BY <2>1 DEF getLinkObj, MemInv, TableOK
  <2> QED
    BY <1>5, <2>1, <2>2 DEF Closers, StillCloses
<1> QED
  BY <1>1, <1>2, <1>3, <1>4, <1>5 DEF UserMoves

-----------------------------------------------------------------------------
(* A link passes from one to the next, and stays open. *)
LEMMA LeavesLink ==
    ASSUME BaseInv, CustodyInv, NEW t \in Threads, NEW o \in Objs, Leaves(t, o)
    PROVE  /\ Worked(o) /\ Open(o) /\ Open(o)' /\ o \notin owned /\ ~Closing(o) /\ ~Allocates(t, o)
           /\ \A u \in Threads : Works(u) /\ op[u].obj = o => u = t /\ ~Works(u)'
<1>1. Worked(o) /\ ~Works(t)' /\ SameLink(o)
  BY DEF Leaves, Worked
<1>2. Open(o) /\ o \notin owned /\ ~Closing(o)
  BY <1>1 DEF CustodyInv, WorkOK
<1>3. Open(o)' /\ ~Allocates(t, o)
  BY <1>1, <1>2 DEF SameLink, Open, Allocates
<1>4. \A u \in Threads : Works(u) /\ op[u].obj = o => u = t
  BY SoleWorker DEF Leaves, BaseInv
<1> QED
  BY <1>1, <1>2, <1>3, <1>4

(* Three facts about each link, for the steps below. *)
OwnedAnew(o) == o \in owned' => o \in owned \/ \E t \in Threads : Leaves(t, o)
(* What the application comes to have was worked on. *)
LEMMA NextOwnedAnew == ASSUME IInv, Next, NEW o PROVE OwnedAnew(o)
BY NextOwnedStep DEF OwnedStep, OwnedAnew

(* The link of an acceptor or a connector. *)
LEMMA NextWorkOK ==
    ASSUME BaseInv, MemInv, CustodyInv, TrackOK, ~ClosesAll, Next
    PROVE  WorkOK'
<1> SUFFICES ASSUME NEW o \in Objs, NEW t \in Threads, Works(t)', op'[t].obj = o
             PROVE  Open(o)' /\ o \notin owned' /\ ~Closing(o)' /\ \A s \in Services \ KeepAccepted : ~Listed(s, o)'
  BY DEF WorkOK, Worked
<1>1. Moves(t) /\ OpenStep(o) /\ OwnedAnew(o) /\ \A s \in Services \ KeepAccepted : ListedStep(s)
  BY NextMoves, NextOpen, NextOwnedAnew, NextListed DEF BaseInv
<1>2. ASSUME NEW u \in Users, Closes(u)', op'[u].obj = o PROVE Closing(o) \/ o \in owned \/ \E s \in Services \ KeepAccepted : Listed(s, o)
  BY <1>2, NextClosers DEF Closers, StillCloses, ClosesKept, ClosesListed, Closing, Kept
<1>3. CASE \E p \in Objs : Allocates(t, p)
  <2>1. Allocates(t, o)
    BY <1>3 DEF Allocates
  <2>2. ~Open(o) /\ o \notin owned /\ ~Worked(o) /\ ~Closing(o) /\ \A s \in Services \ KeepAccepted : ~Listed(s, o)
    BY <2>1, AllocatesUnused DEF MemInv
  <2>3. \A u \in Threads : ~Leaves(u, o)
    BY <2>2, LeavesLink
  <2>4. Open(o)'
    BY <2>1 DEF Allocates
  <2> QED
    BY <1>1, <1>2, <2>2, <2>3, <2>4 DEF Closing, OwnedAnew, ListedStep
<1>4. CASE Works(t) /\ op[t].obj = o
  <2>1. Worked(o)
    BY <1>4 DEF Worked
  <2>2. Open(o) /\ o \notin owned /\ ~Closing(o) /\ \A s \in Services \ KeepAccepted : ~Listed(s, o)
    BY <2>1 DEF CustodyInv, WorkOK
  <2>3. \A u \in Threads : ~Leaves(u, o)
    BY <1>4, LeavesLink
  <2>4. \A u \in Threads : ~(GivesUp(u, o) \/ Closed(u, o))
    BY <1>4, GoneLink
  <2>5. Open(o)'
    BY <1>1, <2>2, <2>4 DEF OpenStep
  <2> QED
    BY <1>1, <1>2, <2>2, <2>3, <2>5 DEF Closing, OwnedAnew, ListedStep
<1> QED
  BY <1>1, <1>3, <1>4 DEF Moves

(* The link that the application holds and nobody else closes. *)
LEMMA NextKeptOK == ASSUME BaseInv, CustodyInv, Next PROVE KeptOK'
<1> SUFFICES ASSUME NEW o \in Objs, Kept(o)' PROVE Open(o)'
  BY DEF KeptOK
<1>1. OpenStep(o) /\ OwnedAnew(o)
  BY NextOpen, NextOwnedAnew DEF BaseInv
<1>2. o \in owned' /\ ~ClosedByService(o)
  BY NextClosedByService DEF Kept, BaseInv
<1>3. CASE o \in owned
  <2>1. Kept(o) /\ Open(o)
    BY <1>2, <1>3 DEF Kept, CustodyInv, KeptOK
  <2> QED
    BY <1>1, <2>1, GoneLink DEF OpenStep
<1>4. ASSUME NEW t \in Threads, Leaves(t, o) PROVE Open(o)'
  BY <1>4, LeavesLink
<1> QED
  BY <1>1, <1>2, <1>3, <1>4 DEF OwnedAnew

(* The link that is being closed. *)
LEMMA NextClosesRightly ==
    ASSUME BaseInv, MemInv, CustodyInv, TrackOK, ~ClosesAll, Next, NEW u \in Users, Closes(u)'
    PROVE  ClosesRightly(u)'
<1>0. PICK o \in Objs : o = op'[u].obj /\ Closers(u, o)
  BY NextClosers
<1>1. OpenStep(o) /\ OwnedAnew(o) /\ \A s \in Services \ KeepAccepted : ListedStep(s)
  BY NextOpen, NextOwnedAnew, NextListed DEF BaseInv
<1>2. CASE StillCloses(u, o)
  <2>1. Closes(u) /\ op[u].obj = o /\ ClosesRightly(u) /\ Closing(o)
    BY <1>2 DEF StillCloses, CustodyInv, CloseOK, Closing
  <2>2. Open(o) /\ ~Worked(o)
    BY <2>1 DEF ClosesRightly, CustodyInv, WorkOK
  <2>3. \A t \in Threads : ~Leaves(t, o)
    BY <2>2, LeavesLink
  <2>4. \A t \in Threads : ~(GivesUp(t, o) \/ Closed(t, o))
    BY <2>1, GoneLink
  <2>5. Open(o)'
    BY <1>1, <2>2, <2>4 DEF OpenStep
  <2>6. ASSUME InCall(u, {"close"})' PROVE o \notin owned' /\ ~ClosedByService(o)'
    <3>1. InCall(u, {"close"})
      BY <1>2, <2>6 DEF StillCloses, InCall
    <3>2. o \notin owned /\ ~ClosedByService(o)
      BY <2>1, <3>1 DEF ClosesRightly
    <3> QED
      BY <1>1, <2>2, <2>3, <3>2, NextClosedByService DEF OwnedAnew, BaseInv
  <2>7. ASSUME InCall(u, {"offline"})', NEW s, s = op'[u].srv
        PROVE  s \in Services \ KeepAccepted /\ o \in AcceptedBy(s)' /\ ~Listed(s, o)'
    <3>1. InCall(u, {"offline"}) /\ s = op[u].srv
      BY <1>2, <2>7 DEF StillCloses, InCall
    <3>2. s \in Services \ KeepAccepted /\ o \in AcceptedBy(s) /\ ~Listed(s, o)
      BY <2>1, <3>1 DEF ClosesRightly
    <3> QED
      BY <1>1, <2>3, <3>2, NextAcceptedBy DEF ListedStep, BaseInv
  <2> QED
    BY <1>0, <2>5, <2>6, <2>7 DEF ClosesRightly
<1>3. CASE ClosesKept(u, o)
  <2>1. Open(o) /\ ~ClosedByService(o) /\ o \notin owned' /\ InCall(u, {"close"})' /\ ~InCall(u, {"offline"})'
    BY <1>3 DEF ClosesKept, CustodyInv, KeptOK, Kept, InCall
  <2>2. Open(o)' /\ ~ClosedByService(o)'
    BY <1>3, <2>1 DEF ClosesKept, SameLink, Open, ClosedByService, AcceptedBy
  <2> QED
    BY <1>0, <2>1, <2>2 DEF ClosesRightly
<1>4. ASSUME NEW s \in Services \ KeepAccepted, ClosesListed(u, s, o) PROVE ClosesRightly(u)'
  <2>1. Open(o) /\ o \in AcceptedBy(s)
    BY <1>4 DEF ClosesListed, CustodyInv, ListOK, ListsOK
  <2>2. Open(o)' /\ o \in AcceptedBy(s)' /\ ~Listed(s, o)' /\ op'[u].srv = s /\ ~InCall(u, {"close"})'
    BY <1>4, <2>1 DEF ClosesListed, SameLink, Open, AcceptedBy, InCall
  <2> QED
    BY <1>0, <2>2 DEF ClosesRightly
<1> QED
  BY <1>0, <1>2, <1>3, <1>4 DEF Closers

(* One user acts in a step. *)
LEMMA SoleActor ==
    ASSUME IInv, Next, NEW t \in Users, NEW u \in Users, t # u
    PROVE  Waits(t) \/ Waits(u)
<1>0. CtlType /\ AppType /\ t \in Threads /\ u \in Threads
  BY DEF IInv, TypeInv, TypeOK, CtlType, AppType, Threads
<1>1. ASSUME NEW w \in Users, onlineService(w) PROVE Waits(t) \/ Waits(u)
  <2>1. PICK s \in Services : Online(w, s)
    BY <1>1, OnlineEffects
  <2>2. \A x \in Users : x # w => Waits(x)
    BY <2>1, ConstantsOK DEF Online, Waits, Threads
  <2> QED
    BY <2>2
<1>2. ASSUME NEW w \in Threads, UserAction(w) \/ DaemonAction(w) \/ AcceptAction(w) PROVE Waits(t) \/ Waits(u)
  BY <1>0, <1>2, ActsAlone DEF OthersWait, Waits
<1> QED
  BY <1>1, <1>2, NextIsAction

(* A link that somebody is closing is not for another to close: the application has given it up, *)
(* and its service does not list it any more.                                                    *)
LEMMA OtherCloser ==
    ASSUME BaseInv, MemInv, CustodyInv, ~ClosesAll, Next, NEW t \in Users, NEW u \in Users, NEW o \in Objs, t # u,
           Closes(t), op[t].obj = o, Closers(u, o)
    PROVE  FALSE
<1>1. ClosesRightly(t) /\ InCall(t, Teardown)
  BY DEF CustodyInv, CloseOK, BaseInv, CallsInv, LabelOK, Closes, CloseLabels, InCall, Teardown
<1>2. InCall(t, {"close"}) => o \notin owned /\ ~ClosedByService(o)
  BY <1>1 DEF ClosesRightly
<1>3. InCall(t, {"offline"}) => /\ op[t].srv \in Services \ KeepAccepted
                               /\ o \in AcceptedBy(op[t].srv) /\ ~Listed(op[t].srv, o)
  BY <1>1 DEF ClosesRightly
<1>4. InCall(t, {"close"}) \/ InCall(t, {"offline"})
  BY <1>1 DEF InCall, Teardown
<1>5. ~Kept(o)
  BY <1>2, <1>3, <1>4 DEF Kept, ClosedByService
<1>6. ~StillCloses(u, o)
  BY DEF StillCloses, CustodyInv, CloseOK, OneCloser
<1>7. ASSUME NEW s \in Services \ KeepAccepted, Listed(s, o) PROVE FALSE
  <2>1. o \in AcceptedBy(s)
    BY <1>7 DEF CustodyInv, ListOK, ListsOK
  <2>2. ~InCall(t, {"close"})
    BY <1>2, <2>1 DEF ClosedByService
  <2>3. s = op[t].srv
    BY <1>3, <1>4, <2>1, <2>2, OneAcceptance DEF BaseInv
  <2> QED
    BY <1>3, <1>4, <1>7, <2>2, <2>3
<1> QED
  BY <1>5, <1>6, <1>7 DEF Closers, ClosesKept, ClosesListed

(* One thread closes a link, *)
LEMMA NextOneCloser ==
    ASSUME BaseInv, MemInv, CustodyInv, ~ClosesAll, Next
    PROVE  OneCloser'
<1> SUFFICES ASSUME NEW t \in Users, NEW u \in Users, Closes(t)', Closes(u)', op'[t].obj = op'[u].obj, t # u
             PROVE  FALSE
  BY DEF OneCloser
<1>1. PICK o \in Objs : o = op'[t].obj /\ Closers(t, o)
  BY NextClosers
<1>2. Closers(u, o)
  BY <1>1, NextClosers
<1>3. \A w \in Users : Waits(w) /\ Closes(w)' => Closes(w) /\ op[w].obj = op'[w].obj
  BY DEF Waits, Closes
<1>4. Waits(t) \/ Waits(u)
  BY SoleActor DEF BaseInv
<1> QED
  BY <1>1, <1>2, <1>3, <1>4, OtherCloser

(* and may do so. *)
LEMMA NextCloseOK ==
    ASSUME BaseInv, MemInv, CustodyInv, TrackOK, ~ClosesAll, Next
    PROVE  CloseOK'
BY NextClosesRightly, NextOneCloser DEF CloseOK

(* The links that a service lists. *)
LEMMA EnteredDistinct ==
    ASSUME NEW n \in Nat, NEW old, NEW new, NEW x, Distinct(old, n), Entered(old, new, n, x),
           \A i \in 1 .. n : old[i] # x
    PROVE  Distinct(new, n) /\ \A i \in 1 .. n : new[i] = old[i] \/ new[i] = x
<1>1. CASE new = old
  BY <1>1
<1>2. ASSUME NEW i \in 1 .. n, new[i] = x, \A j \in 1 .. n : j # i => new[j] = old[j]
      PROVE  Distinct(new, n) /\ \A j \in 1 .. n : new[j] = old[j] \/ new[j] = x
  BY <1>2 DEF Distinct
<1> QED
  BY <1>1, <1>2 DEF Entered

(* Entries stay different when one is removed. *)
LEMMA RemovedDistinct ==
    ASSUME NEW n \in Nat, NEW old, NEW new, NEW x, Distinct(old, n), Removed(old, new, n, x)
    PROVE  Distinct(new, n) /\ \A i \in 1 .. n : new[i] = old[i] \/ new[i] = Null
BY DEF Distinct, Removed

ArraysOK(s) ==
    /\ Distinct(srv[s].DaemonAccept, MaxDaemon) /\ Distinct(srv[s].ManualAccept, MaxManual)
    /\ \A i \in 1 .. MaxDaemon : srv[s].DaemonAccept[i] # Null => srv[s].DaemonAccept[i][1] \in Services
    /\ \A i \in 1 .. MaxManual : srv[s].ManualAccept[i] # Null =>
          tbl[srv[s].ManualAccept[i]] # Null /\ tbl[srv[s].ManualAccept[i]][1] \in Users
(* The arrays stay in order when a link is entered by its ID, *)
LEMMA ManualTracksArrays ==
    ASSUME BaseInv, MemInv, CustodyInv, NEW t \in Threads, NEW s \in Services \ KeepAccepted, NEW o \in Objs, ManualTracks(t, s, o)
    PROVE  ArraysOK(s)'
<1>0. MaxManual \in Nat /\ ListsOK(s) /\ OpOK /\ AppType
  BY ConstantsOK DEF CustodyInv, ListOK, BaseInv, IInv, TypeInv, TypeOK, AppType
<1>1. /\ t \in Users /\ o = op[t].obj /\ pc[t] = "track" /\ Works(t) /\ UNCHANGED tbl
      /\ srv'[s].DaemonAccept = srv[s].DaemonAccept
      /\ Entered(srv[s].ManualAccept, srv'[s].ManualAccept, MaxManual, link[o].id)
  BY DEF ManualTracks, Tracks
<1>2. Open(o) /\ ~Listed(s, o)
  BY <1>1 DEF CustodyInv, WorkOK, Worked
<1>3. tbl[link[o].id] = o /\ o # Null
  BY <1>2, ConstantsOK DEF MemInv, TableOK
<1>4. \A i \in 1 .. MaxManual : srv[s].ManualAccept[i] # link[o].id
  <2>1. link[o].id \in Slots
    BY <1>2 DEF BaseInv, IInv, TypeInv, LinksOK, Allocated, Open
  <2>2. link[o].id # Null
    BY <2>1, ConstantsOK
  <2> QED
    BY <1>2, <1>3, <2>2 DEF Listed
<1>5. Distinct(srv'[s].ManualAccept, MaxManual)
      /\ \A i \in 1 .. MaxManual : srv'[s].ManualAccept[i] = srv[s].ManualAccept[i] \/ srv'[s].ManualAccept[i] = link[o].id
  BY <1>0, <1>1, <1>4, EnteredDistinct DEF ListsOK
<1>6. o[1] \in Users
  <2>1. o = <<t, calls[t]>>
    BY <1>0, <1>1, OwnObj DEF OwnObjLabels
  <2> QED
    BY <1>1, <2>1
<1> QED
  BY <1>0, <1>1, <1>3, <1>5, <1>6 DEF ListsOK, ArraysOK

(* when the daemon enters one, *)
LEMMA DaemonTracksArrays ==
    ASSUME BaseInv, MemInv, CustodyInv, NEW t \in Threads, NEW s \in Services \ KeepAccepted, NEW o \in Objs, DaemonTracks(t, s, o)
    PROVE  ArraysOK(s)'
<1>0. MaxDaemon \in Nat /\ ListsOK(s) /\ OpOK /\ AppType
  BY ConstantsOK DEF CustodyInv, ListOK, BaseInv, IInv, TypeInv, TypeOK, AppType
<1>1. /\ t = s /\ o = op[t].obj /\ pc[t] = "track" /\ Works(t) /\ UNCHANGED tbl
      /\ srv'[s].ManualAccept = srv[s].ManualAccept
      /\ Entered(srv[s].DaemonAccept, srv'[s].DaemonAccept, MaxDaemon, o)
  BY DEF DaemonTracks, Tracks
<1>2. ~Listed(s, o)
  BY <1>1 DEF CustodyInv, WorkOK, Worked
<1>3. \A i \in 1 .. MaxDaemon : srv[s].DaemonAccept[i] # o
  BY <1>2 DEF Listed
<1>4. Distinct(srv'[s].DaemonAccept, MaxDaemon)
      /\ \A i \in 1 .. MaxDaemon : srv'[s].DaemonAccept[i] = srv[s].DaemonAccept[i] \/ srv'[s].DaemonAccept[i] = o
  BY <1>0, <1>1, <1>3, EnteredDistinct DEF ListsOK
<1>5. o[1] \in Services
  <2>1. o = <<t, calls[t]>>
    BY <1>0, <1>1, OwnObj DEF OwnObjLabels
  <2> QED
    BY <1>1, <2>1
<1> QED
  BY <1>0, <1>1, <1>4, <1>5 DEF ListsOK, ArraysOK

(* and in every step. *)
LEMMA NextArrays ==
    ASSUME BaseInv, MemInv, CustodyInv, Next, NEW s \in Services \ KeepAccepted
    PROVE  ArraysOK(s)'
<1>0. MaxManual \in Nat /\ MaxDaemon \in Nat /\ ListsOK(s)
  BY ConstantsOK DEF CustodyInv, ListOK
<1>1. ListStep
  BY NextListStep DEF BaseInv
<1>2. ASSUME SameLists(s) PROVE ArraysOK(s)'
  BY <1>0, <1>2, RememberedSlots DEF SameLists, ListsOK, ArraysOK
<1>3. ASSUME NoLists(s) PROVE ArraysOK(s)'
  BY <1>3 DEF NoLists, ArraysOK, Distinct
<1>4. ASSUME NEW t \in Threads, NEW r \in Services, NEW o \in Objs, ManualTracks(t, r, o) \/ DaemonTracks(t, r, o)
      PROVE  ArraysOK(s)'
  <2>1. r # s => SameLists(s)
    BY <1>4 DEF ManualTracks, DaemonTracks, Tracks, OtherLists
  <2> QED
    BY <1>2, <1>4, <2>1, ManualTracksArrays, DaemonTracksArrays
<1>5. ASSUME NEW t \in Users, NEW r \in Services, Online(t, r) \/ Finishes(t, r) PROVE ArraysOK(s)'
  BY <1>2, <1>3, <1>5 DEF Online, Finishes, OtherLists
<1>6. ASSUME NEW t \in Users, NEW r \in Services, NEW o \in Objs, DaemonUnlists(t, r, o) PROVE ArraysOK(s)'
  <2>1. CASE r # s
    BY <1>2, <1>6, <2>1 DEF DaemonUnlists, Unlists, OtherLists
  <2>2. CASE r = s
    <3>1. /\ srv'[s].ManualAccept = srv[s].ManualAccept /\ tbl' = tbl
          /\ Removed(srv[s].DaemonAccept, srv'[s].DaemonAccept, MaxDaemon, o)
      BY <1>6, <2>2 DEF DaemonUnlists, Unlists
    <3>2. /\ Distinct(srv'[s].DaemonAccept, MaxDaemon)
          /\ \A i \in 1 .. MaxDaemon : srv'[s].DaemonAccept[i] = srv[s].DaemonAccept[i] \/ srv'[s].DaemonAccept[i] = Null
      BY <1>0, <3>1, RemovedDistinct DEF ListsOK
    <3> QED
      BY <1>0, <3>1, <3>2 DEF ListsOK, ArraysOK
  <2> QED
    BY <2>1, <2>2
<1>7. ASSUME NEW t \in Users, NEW r \in Services, NEW k \in Slots, ManualUnlists(t, r, k) PROVE ArraysOK(s)'
  <2>1. CASE r # s
    BY <1>2, <1>7, <2>1 DEF ManualUnlists, Unlists, OtherLists
  <2>2. CASE r = s
    <3>1. /\ srv'[s].DaemonAccept = srv[s].DaemonAccept /\ tbl' = tbl
          /\ Removed(srv[s].ManualAccept, srv'[s].ManualAccept, MaxManual, k)
      BY <1>7, <2>2 DEF ManualUnlists, Unlists
    <3>2. /\ Distinct(srv'[s].ManualAccept, MaxManual)
          /\ \A i \in 1 .. MaxManual : srv'[s].ManualAccept[i] = srv[s].ManualAccept[i] \/ srv'[s].ManualAccept[i] = Null
      BY <1>0, <3>1, RemovedDistinct DEF ListsOK
    <3> QED
      BY <1>0, <3>1, <3>2 DEF ListsOK, ArraysOK
  <2> QED
    BY <2>1, <2>2
<1> QED
  BY <1>1, <1>2, <1>4, <1>5, <1>6, <1>7 DEF ListStep

(* The links that a service lists are open links that it accepted. *)
LEMMA NextListOK ==
    ASSUME BaseInv, MemInv, CustodyInv, TrackOK, Next
    PROVE  ListOK'
<1> SUFFICES ASSUME NEW s \in Services \ KeepAccepted PROVE ListsOK(s)'
  BY DEF ListOK
<1>1. ASSUME NEW o \in Objs, Listed(s, o)' PROVE Open(o)' /\ o \in AcceptedBy(s)'
  <2>1. OpenStep(o) /\ ListedStep(s) /\ \A p \in AcceptedBy(s) : p \in AcceptedBy(s)'
    BY NextOpen, NextListed, NextAcceptedBy DEF BaseInv
  <2>2. CASE Listed(s, o)
    <3>1. Open(o) /\ o \in AcceptedBy(s)
      BY <2>2 DEF CustodyInv, ListOK, ListsOK
    <3> QED
      BY <2>1, <2>2, <3>1, GoneLink DEF OpenStep
  <2>3. ASSUME NEW t \in Threads, Leaves(t, o), o \in AcceptedBy(s) PROVE Open(o)' /\ o \in AcceptedBy(s)'
    BY <2>1, <2>3, LeavesLink
  <2> QED
    BY <1>1, <2>1, <2>2, <2>3 DEF ListedStep
<1>2. ArraysOK(s)'
  BY NextArrays
<1> QED
  BY <1>1, <1>2 DEF ListsOK, ArraysOK

(* No step gives a link to two at once. *)
LEMMA NextCustodyInv ==
    ASSUME BaseInv, MemInv, CustodyInv, TrackOK, ~ClosesAll, Next
    PROVE  CustodyInv'
BY NextWorkOK, NextKeptOK, NextCloseOK, NextListOK DEF CustodyInv

-----------------------------------------------------------------------------
(* A thread begins to connect or to accept by a call. *)
LEMMA NewCall ==
    ASSUME IInv, Next, NEW u \in Users, pc'[u] \in {"connect", "accept"}
    PROVE  Waits(u) \/ CallApi(u)
<1>0. CtlType /\ OpOK /\ u \in Threads /\ u \notin Services
  BY ConstantsOK DEF IInv, TypeInv, TypeOK, CtlType, Threads
<1> USE DEF Goto, Return, CtlType
<1>1. ~onlineService(u)
  <2>1. ASSUME onlineService(u) PROVE FALSE
    <3>1. op[u].srv \in Services /\ op[u].srv # u
      BY <1>0, <2>1 DEF onlineService, OpOK, ThreadOK
    <3> QED
      BY <1>0, <2>1, <3>1 DEF onlineService
  <2> QED
    BY <2>1
<1>2. ~(allocConnecting(u) \/ findService(u) \/ offerConnection(u) \/ finishConnect(u))
  BY <1>0 DEF allocConnecting, findService, offerConnection, finishConnect, failConnect
<1>3. ~(refuseAccept(u) \/ allocAccepting(u) \/ noOffer(u) \/ acceptOffer(u) \/ wakeAcceptor(u) \/ trackManual(u) \/ acceptTimedOut(u))
  BY <1>0 DEF refuseAccept, allocAccepting, noOffer, acceptOffer, wakeAcceptor, trackManual, acceptTimedOut
<1>4. ~rejectOffer(u)
  BY <1>0 DEF rejectOffer
<1>5. ~(closeLink(u) \/ lockLink(u) \/ clearPeer(u) \/ freeLink(u) \/ countFreed(u))
  BY <1>0 DEF closeLink, beginClose, lockLink, clearPeer, freeLink, countFreed
<1>6. ~(offlineService(u) \/ joinDaemon(u) \/ closeDaemonLink(u) \/ closeManualLink(u) \/ finishOffline(u))
  BY <1>0 DEF offlineService, joinDaemon, closeDaemonLink, closeManualLink, beginClose, finishOffline
<1>7. Acts(u) \/ Waits(u)
  BY NextActor
<1> QED
  BY <1>0, <1>1, <1>2, <1>3, <1>4, <1>5, <1>6, <1>7 DEF Acts, UserAction, AcceptAction

(* The objects that a thread has not counted yet are not allocated. *)
LEMMA NextFreshMem == ASSUME IInv, FreshMem, Next PROVE FreshMem'
<1>0. calls \in [Threads -> 0 .. MaxObjs] /\ calls' \in [Threads -> 0 .. MaxObjs] /\ MaxObjs \in Nat
  BY ConstantsOK, NextTypeInv DEF IInv, TypeInv, TypeOK
<1>1. ASSUME NEW t \in Threads, NEW n \in 1 .. MaxObjs, Allocated(<<t, n>>)' PROVE n <= calls'[t]
  <2>1. PICK o \in Objs : o = <<t, n>>
    BY DEF Objs
  <2>2. Allocated(o)'
    BY <1>1, <2>1 DEF Allocated
  <2>3. CASE Allocated(o)
    <3>1. n <= calls[t] /\ calls[t] <= calls'[t]
      BY <2>1, <2>3, NextThreadMoves DEF FreshMem, ThreadMoves, IInv
    <3> QED
      BY <1>0, <3>1
  <2>4. ASSUME NEW u \in Threads, Allocates(u, o) PROVE n <= calls'[t]
    <3>1. <<t, n>> = <<u, calls'[u]>>
      BY <2>1, <2>4 DEF Allocates
    <3>2. n = calls'[t]
      BY ONLY <3>1
    <3> QED
      BY <1>0, <3>2
  <2> QED
    BY <2>2, <2>3, <2>4, NextOpen DEF OpenStep
<1>2. ASSUME NEW t \in Users, pc'[t] \in {"connect", "accept"} PROVE ~Allocated(op[t].obj)'
  <2>0. t \in Threads
    BY DEF Threads
  <2>1. PICK o \in Objs : o = op'[t].obj /\ o[1] = t /\ ~Allocated(o)
    <3>1. CASE Waits(t)
      <4>1. pc[t] \in OwnObjLabels /\ ~Allocated(op[t].obj)
        BY <1>2, <3>1 DEF Waits, FreshMem, OwnObjLabels, UninvolvedLabels
      <4>2. op[t].obj = <<t, calls[t]>> /\ op[t].obj \in Objs
        BY <2>0, <4>1, OwnObj DEF IInv, TypeInv, TypeOK, AppType
      <4> QED
        BY <3>1, <4>1, <4>2 DEF Waits
    <3>2. CASE CallApi(t)
      <4>1. PICK c \in UserOps, p \in Objs : Calls(t, c, p)
        BY <3>2, CallEffects DEF IInv
      <4>2. p = <<t, calls[t] + 1>> /\ op'[t].obj = p
        BY <1>2, <4>1 DEF Calls
      <4>3. ~Allocated(p)
        <5>1. PICK n \in 1 .. MaxObjs : p = <<t, n>> /\ n = calls[t] + 1
          BY <4>2 DEF Objs
        <5>2. ~(n <= calls[t])
          BY <1>0, <2>0, <5>1
        <5> QED
          BY <2>0, <5>1, <5>2 DEF FreshMem
      <4> QED
        BY <4>2, <4>3
    <3> QED
      BY <1>2, <3>1, <3>2, NewCall
  <2>2. ASSUME NEW u \in Threads, Allocates(u, o) PROVE FALSE
    <3>1. o[1] = u /\ Works(u)'
      BY <2>2 DEF Allocates
    <3>2. u = t
      BY <2>1, <3>1
    <3> QED
      BY <1>2, <3>1, <3>2 DEF Works, WorkLabels
  <2>3. ~Allocated(o)'
    BY <2>1, <2>2, NextOpen DEF OpenStep
  <2> QED
    BY <2>1, <2>3 DEF Allocated
<1> QED
  BY <1>1, <1>2 DEF FreshMem

(* An object that is neither allocated nor gone in a step stays where it is. *)
LEMMA SameSlotOK ==
    ASSUME NEW i, NEW o, SlotOK(i, o), link'[o].mem = link[o].mem, link'[o].id = link[o].id
    PROVE  SlotOK(i, o)'
BY DEF SlotOK, Open

(* An open link is in the slot of its ID, and nothing unaccounted for is in any slot. *)
LEMMA NextTableOK == ASSUME BaseInv, MemInv, CustodyInv, Next PROVE TableOK'
<1>0. tbl \in [Slots -> Objs \cup {Null}] /\ tbl' \in [Slots -> Objs \cup {Null}] /\ TableStep
  BY NextTypeInv, NextTableStep DEF BaseInv, IInv, TypeInv, TypeOK
<1>n. Null \notin Objs /\ \A o \in Objs : Open(o) => link[o].id \in Slots
  BY ConstantsOK DEF BaseInv, IInv, TypeInv, LinksOK, Allocated, Open
<1>1. ASSUME tbl' = tbl, \A o \in Objs : link'[o].mem = link[o].mem /\ link'[o].id = link[o].id PROVE TableOK'
  <2>1. ASSUME NEW o \in Objs, Open(o)' PROVE tbl'[link'[o].id] = o
    BY <1>1, <2>1 DEF MemInv, TableOK, Open
  <2>2. ASSUME NEW i \in Slots, tbl'[i] # Null PROVE SlotOK(i, tbl[i])'
    BY <1>0, <1>1, <2>2, SameSlotOK DEF MemInv, TableOK
  <2> QED
    BY <1>1, <2>1, <2>2 DEF TableOK
<1>2. ASSUME NEW t \in Threads, NEW o \in Objs, Allocates(t, o) PROVE TableOK'
  <2>1. PICK k \in Slots : tbl[k] = Null /\ tbl' = [tbl EXCEPT ![k] = o] /\ link'[o].id = k
    BY <1>2 DEF Allocates
  <2>2. Open(o)' /\ ~Open(o) /\ \A p \in Objs \ {o} : link'[p].mem = link[p].mem /\ link'[p].id = link[p].id
    BY <1>2, AllocatesUnused DEF Allocates, OtherLinks, SameLink, MemInv
  <2>3. \A i \in Slots : tbl[i] # o
    BY <1>2, AllocatesUnused DEF MemInv
  <2>4. ASSUME NEW p \in Objs, Open(p)' PROVE tbl'[link'[p].id] = p
    <3>1. CASE p = o
      BY <1>0, <2>1, <3>1
    <3>2. CASE p # o
      <4>1. Open(p) /\ link'[p].id = link[p].id
        BY <2>2, <2>4, <3>2 DEF Open
      <4>2. tbl[link[p].id] = p /\ link[p].id \in Slots
        BY <1>n, <4>1 DEF MemInv, TableOK
      <4> QED
        BY <1>0, <1>n, <2>1, <4>1, <4>2
    <3> QED
      BY <3>1, <3>2
  <2>5. ASSUME NEW i \in Slots, NEW p \in Objs, tbl'[i] = p PROVE SlotOK(i, p)'
    <3>1. CASE i = k
      BY <1>0, <2>1, <2>2, <2>5, <3>1 DEF SlotOK
    <3>2. CASE i # k
      <4>1. tbl[i] = p /\ p # o
        BY <1>0, <2>1, <2>3, <2>5, <3>2
      <4> QED
        BY <1>n, <2>2, <4>1, SameSlotOK DEF MemInv, TableOK
    <3> QED
      BY <3>1, <3>2
  <2> QED
    BY <1>0, <2>4, <2>5 DEF TableOK
<1>3. ASSUME NEW t \in Threads, NEW o \in Objs, GivesUp(t, o) \/ Closed(t, o) PROVE TableOK'
  <2>1. Open(o) /\ link[o].id \in Slots /\ tbl[link[o].id] = o
    BY <1>n, <1>3, GoneLink DEF MemInv, TableOK
  <2>2. ~Open(o)' /\ \A p \in Objs \ {o} : link'[p].mem = link[p].mem /\ link'[p].id = link[p].id
    BY <1>3 DEF GivesUp, Closed, Leaks, Frees, Ends, OtherLinks, SameLink, Open
  <2>3. \A i \in Slots : tbl[i] = o => i = link[o].id
    BY <1>n DEF MemInv, TableOK, SlotOK
  <2>4. ASSUME NEW p \in Objs, Open(p)' PROVE p # o /\ link'[p].id = link[p].id /\ tbl[link[p].id] = p /\ link[p].id \in Slots
    <3>1. p # o /\ Open(p) /\ link'[p].id = link[p].id
      BY <2>2, <2>4 DEF Open
    <3> QED
      BY <1>n, <3>1 DEF MemInv, TableOK
  <2>5. ASSUME NEW i \in Slots, NEW p \in Objs, tbl[i] = p, p # o PROVE SlotOK(i, p)'
    BY <1>n, <2>2, <2>5, SameSlotOK DEF MemInv, TableOK
  <2>6. CASE Frees(o)
    <3>1. tbl' = [tbl EXCEPT ![link[o].id] = Null]
      BY <2>6 DEF Frees
    <3>2. ASSUME NEW p \in Objs, Open(p)' PROVE tbl'[link'[p].id] = p
      BY <1>0, <2>1, <2>4, <3>1, <3>2
    <3>3. ASSUME NEW i \in Slots, NEW p \in Objs, tbl'[i] = p PROVE SlotOK(i, p)'
      <4>1. tbl[i] = p /\ p # o
        BY <1>0, <1>n, <2>1, <2>3, <3>1, <3>3
      <4> QED
        BY <2>5, <4>1
    <3> QED
      BY <1>0, <3>2, <3>3 DEF TableOK
  <2>7. CASE \E mem \in {"freed", "closed"} : Leaks(t, o, mem)
    <3>1. tbl' = tbl /\ link'[o].id = link[o].id
      BY <2>7 DEF Leaks, Ends
    <3>2. ASSUME NEW i \in Slots, NEW p \in Objs, tbl'[i] = p PROVE SlotOK(i, p)'
      BY <2>3, <2>5, <3>1, <3>2 DEF SlotOK
    <3>3. ASSUME NEW p \in Objs, Open(p)' PROVE tbl'[link'[p].id] = p
      BY <2>4, <3>1, <3>3
    <3> QED
      BY <1>0, <3>2, <3>3 DEF TableOK
  <2> QED
    BY <1>3, <2>6, <2>7 DEF GivesUp, Closed
<1>4. CASE SameTable \/ SameMemories
  BY <1>1, <1>4 DEF SameTable, SameMemories, SameLink, SameMemory
<1> QED
  BY <1>0, <1>2, <1>3, <1>4 DEF TableStep, Pairs, Locks, Unpeers

(* What a step does to the count: nothing, or one of the following. *)
Uncounted(t) == pc[t] # "countFree" /\ pc'[t] # "countFree"
CountStep ==
    \/ UNCHANGED tblVars /\ Counting' = Counting
    \/ \E t \in Threads, o \in Objs : Allocates(t, o) /\ Counting' = Counting
    \/ \E t \in Users, o \in Objs : /\ GivesUp(t, o) \/ Closed(t, o)
                                   /\ Frees(o) /\ LinkCount' = LinkCount
                                   /\ t \notin Counting /\ Counting' = Counting \cup {t}
    \/ \E t \in Counting : /\ tbl' = tbl /\ Counting' = Counting \ {t}
                           /\ LinkCount' = IF LinkCount > 0 THEN LinkCount - 1 ELSE LinkCount

(* A thread that neither comes to countFree nor leaves it: *)
LEMMA UncountedSame == ASSUME NEW t \in Threads, OthersWait(t), Uncounted(t) PROVE Counting' = Counting
BY DEF OthersWait, Uncounted, Counting, Threads

(* a connector, an acceptor, a daemon, *)
LEMMA UncountedSteps ==
    ASSUME IInv, NEW t \in Threads,
           findService(t) \/ offerConnection(t) \/ finishConnect(t) \/ refuseAccept(t) \/ noOffer(t) \/ rejectOffer(t) \/
           acceptOffer(t) \/ wakeAcceptor(t) \/ trackManual(t) \/ daemonExit(t) \/ trackDaemon(t)
    PROVE  UNCHANGED tblVars /\ Uncounted(t)
<1>0. CtlType
  BY DEF IInv, TypeInv, TypeOK, CtlType
<1> USE DEF Goto, Return, CtlType, Uncounted
<1>1. CASE findService(t) \/ offerConnection(t) \/ finishConnect(t)
  BY <1>0, <1>1 DEF findService, offerConnection, finishConnect, failConnect
<1>2. CASE refuseAccept(t) \/ noOffer(t) \/ acceptOffer(t) \/ wakeAcceptor(t) \/ trackManual(t)
  BY <1>0, <1>2 DEF refuseAccept, noOffer, acceptOffer, wakeAcceptor, trackManual
<1>3. CASE rejectOffer(t)
  BY <1>0, <1>3 DEF rejectOffer
<1>4. CASE daemonExit(t) \/ trackDaemon(t)
  BY <1>0, <1>4 DEF daemonExit, trackDaemon
<1> QED
  BY <1>1, <1>2, <1>3, <1>4

(* a closer before it frees, and one who takes a service offline. *)
LEMMA UncountedClosing ==
    ASSUME IInv, NEW t \in Threads,
           closeLink(t) \/ lockLink(t) \/ clearPeer(t) \/ offlineService(t) \/ joinDaemon(t) \/ closeDaemonLink(t) \/
           closeManualLink(t) \/ finishOffline(t)
    PROVE  UNCHANGED tblVars /\ Uncounted(t)
<1>0. CtlType
  BY DEF IInv, TypeInv, TypeOK, CtlType
<1> USE DEF Goto, Return, CtlType, Uncounted
<1>1. CASE closeLink(t) \/ lockLink(t) \/ clearPeer(t)
  BY <1>0, <1>1 DEF closeLink, beginClose, lockLink, clearPeer
<1>2. CASE offlineService(t) \/ joinDaemon(t) \/ finishOffline(t)
  BY <1>0, <1>2 DEF offlineService, joinDaemon, finishOffline
<1>3. CASE closeDaemonLink(t) \/ closeManualLink(t)
  BY <1>0, <1>3 DEF closeDaemonLink, closeManualLink, beginClose
<1> QED
  BY <1>1, <1>2, <1>3

(* Freeing a link brings its thread to countFree. *)
LEMMA FreeingCounts ==
    ASSUME IInv, NEW t \in Users, acceptTimedOut(t) \/ freeLink(t)
    PROVE  CountStep
<1>0. CtlType /\ AppType /\ LinkType /\ OpOK /\ t \in Threads
  BY DEF IInv, TypeInv, TypeOK, CtlType, AppType, LinkType, Threads
<1>1. OthersWait(t) /\ pc[t] \in {"waitNewConn", "freeLink"}
  BY <1>0, ActsAlone DEF UserAction, acceptTimedOut, freeLink
<1>2. PICK o \in Objs : o = op[t].obj
  BY <1>0, <1>1 DEF OpOK, ThreadOK
<1>3. GivesUp(t, o) \/ Closed(t, o)
  BY <1>2, TimedOutGivesUp, FreeEffects
<1>4. CASE pc'[t] # "countFree"
  <2>1. UNCHANGED tblVars
    BY <1>0, <1>4 DEF acceptTimedOut, freeLink, Goto, CtlType
  <2> QED
    BY <1>0, <1>1, <1>4, <2>1, UncountedSame DEF CountStep, Uncounted
<1>5. CASE pc'[t] = "countFree"
  <2>1. freeLinkObj(o)
    BY <1>0, <1>2, <1>5 DEF acceptTimedOut, freeLink, Goto, CtlType
  <2>2. Frees(o) /\ LinkCount' = LinkCount
    BY <1>0, <2>1, MemEnds DEF freeLinkObj, Frees
  <2>3. t \notin Counting /\ Counting' = Counting \cup {t}
    BY <1>0, <1>1, <1>5 DEF OthersWait, Counting, Threads
  <2> QED
    BY <1>3, <2>2, <2>3 DEF CountStep
<1> QED
  BY <1>4, <1>5

(* Every step does one of these. *)
LEMMA NextCountStep == ASSUME IInv, Next PROVE CountStep
<1>0. CtlType /\ AppType /\ OpOK
  BY DEF IInv, TypeInv, TypeOK, CtlType, AppType
<1>1. ASSUME NEW t \in Threads, UserAction(t) \/ DaemonAction(t) \/ AcceptAction(t) PROVE OthersWait(t)
  BY <1>0, <1>1, ActsAlone
<1>2. ASSUME NEW t \in Threads, UserAction(t) \/ DaemonAction(t) \/ AcceptAction(t), UNCHANGED tblVars, Uncounted(t) PROVE CountStep
  BY <1>1, <1>2, UncountedSame DEF CountStep
<1>3. ASSUME NEW t \in Threads, NEW o \in Objs, UserAction(t) \/ DaemonAction(t) \/ AcceptAction(t), Allocates(t, o)
      PROVE  CountStep
  <2>1. Uncounted(t)
    BY <1>3, <1>0 DEF Uncounted, Allocates, Works, WorkLabels, OpOK, ThreadOK, DaemonLabels
  <2> QED
    BY <1>1, <1>3, <2>1, UncountedSame DEF CountStep
<1>4. ASSUME NEW t \in Users, onlineService(t) PROVE CountStep
  <2>1. PICK s \in Services : Online(t, s)
    BY <1>4, OnlineEffects
  <2>2. \A u \in Users : pc'[u] # pc[u] => u = t
    BY <2>1, ConstantsOK DEF Online, Threads
  <2>3. pc[t] = "online" /\ pc'[t] = "idle"
    BY <2>1 DEF Online
  <2>4. \A u \in Users : pc'[u] = "countFree" <=> pc[u] = "countFree"
    BY <2>2, <2>3
  <2>5. Counting' = Counting
    BY <2>4 DEF Counting
  <2> QED
    BY <1>4, <2>5 DEF CountStep, onlineService
<1>5. ASSUME NEW t \in Users, CallApi(t) PROVE CountStep
  <2>1. PICK c \in UserOps, o \in Objs : Calls(t, c, o)
    BY <1>5, CallEffects DEF IInv
  <2>2. UNCHANGED tblVars /\ pc[t] = "idle"
    BY <1>5 DEF CallApi
  <2>3. pc'[t] \in {"online", "offline", "connect", "accept", "close"}
    BY <2>1 DEF Calls, Ops
  <2>4. Uncounted(t)
    BY <2>2, <2>3 DEF Uncounted
  <2> QED
    BY <1>2, <1>5, <2>2, <2>4 DEF UserAction, Threads
<1>6. ASSUME NEW t \in Users, allocConnecting(t) \/ allocAccepting(t) PROVE CountStep
  <2>1. pc[t] \in {"connect", "accept"} /\ UserAction(t) /\ t \in Threads
    BY <1>6 DEF allocConnecting, allocAccepting, UserAction, Threads
  <2>2. CASE UNCHANGED tblVars /\ pc'[t] = "idle"
    BY <1>2, <2>1, <2>2 DEF Uncounted
  <2>3. CASE \E o \in Objs : Allocates(t, o)
    BY <1>3, <2>1, <2>3
  <2> QED
    BY <1>6, <2>2, <2>3, AllocEffects
<1>7. ASSUME NEW t \in Services, daemonAlloc(t) PROVE CountStep
  BY <1>3, <1>7, DaemonAllocEffects DEF DaemonAction, Threads
<1>8. ASSUME NEW t \in Users, countFreed(t) PROVE CountStep
  <2>1. t \in Counting /\ tbl' = tbl /\ LinkCount' = (IF LinkCount > 0 THEN LinkCount - 1 ELSE LinkCount)
    BY <1>8 DEF countFreed, Counting
  <2>2. pc'[t] # "countFree"
    BY <1>0, <1>8 DEF countFreed, Return, Goto, CtlType, Threads
  <2>3. Counting' = Counting \ {t}
    BY <1>1, <1>8, <2>2 DEF UserAction, OthersWait, Counting, Threads
  <2> QED
    BY <2>1, <2>3 DEF CountStep
<1>9. PICK t \in Threads : \/ t \in Users /\ (onlineService(t) \/ UserAction(t))
                           \/ t \in Services /\ DaemonAction(t)
                           \/ AcceptAction(t)
  BY NextIsAction
<1>10. CASE AcceptAction(t)
  BY <1>2, <1>10, UncountedSteps DEF AcceptAction
<1>11. CASE t \in Services /\ DaemonAction(t)
  BY <1>2, <1>7, <1>11, UncountedSteps DEF DaemonAction
<1>12. CASE t \in Users /\ UserAction(t)
  BY <1>2, <1>5, <1>6, <1>8, <1>12, UncountedSteps, UncountedClosing, FreeingCounts DEF UserAction
<1> QED
  BY <1>4, <1>9, <1>10, <1>11, <1>12

(* LinkCount counts the slots that are taken and the threads that have yet to count. *)
LEMMA NextCountOK == ASSUME BaseInv, MemInv, CustodyInv, Next PROVE CountOK'
<1> DEFINE taken == {i \in Slots : tbl[i] # Null}
<1>0. /\ tbl \in [Slots -> Objs \cup {Null}] /\ CountStep /\ Null \notin Objs
      /\ \A o \in Objs : Open(o) => link[o].id \in Slots
  BY ConstantsOK, NextCountStep DEF BaseInv, IInv, TypeInv, TypeOK, LinksOK, Allocated, Open
<1>1. /\ IsFiniteSet(taken) /\ Cardinality(taken) \in Nat
      /\ IsFiniteSet(Counting) /\ Cardinality(Counting) \in Nat
      /\ LinkCount = Cardinality(taken) + Cardinality(Counting)
  <2>1. IsFiniteSet(Slots)
    BY ConstantsOK, FS_Interval DEF Slots
  <2>2. IsFiniteSet(taken)
    BY <2>1, FS_Subset
  <2> QED
    BY <2>2, FS_CardinalityType DEF MemInv, CountOK, CountTruthful
<1>2. ASSUME NEW t \in Threads, NEW o \in Objs, Allocates(t, o), Counting' = Counting PROVE CountOK'
  <2>1. PICK k \in Slots : tbl[k] = Null /\ tbl' = [tbl EXCEPT ![k] = o]
    BY <1>2 DEF Allocates
  <2>2. taken' = taken \cup {k} /\ k \notin taken
    BY <1>0, <2>1
  <2>3. Cardinality(taken') = Cardinality(taken) + 1
    BY <1>1, <2>2, FS_AddElement
  <2>4. LinkCount' = LinkCount + 1
    BY <1>2 DEF Allocates
  <2> QED
    BY <1>1, <1>2, <2>3, <2>4 DEF CountOK, CountTruthful
<1>3. ASSUME NEW t \in Users, NEW o \in Objs, GivesUp(t, o) \/ Closed(t, o), Frees(o), LinkCount' = LinkCount,
             t \notin Counting, Counting' = Counting \cup {t}
      PROVE  CountOK'
  <2>1. Open(o) /\ link[o].id \in Slots /\ tbl[link[o].id] = o
    BY <1>0, <1>3, GoneLink DEF MemInv, TableOK, Threads
  <2>2. PICK k \in Slots : k = link[o].id /\ tbl' = [tbl EXCEPT ![k] = Null]
    BY <1>3, <2>1 DEF Frees
  <2>3. taken' = taken \ {k} /\ k \in taken
    BY <1>0, <2>1, <2>2
  <2>4. Cardinality(taken') = Cardinality(taken) - 1
    BY <1>1, <2>3, FS_RemoveElement
  <2>5. IsFiniteSet(Counting') /\ Cardinality(Counting') = Cardinality(Counting) + 1
    BY <1>1, <1>3, FS_AddElement
  <2> QED
    BY <1>1, <1>3, <2>4, <2>5 DEF CountOK, CountTruthful
<1>4. ASSUME NEW t \in Counting, tbl' = tbl, Counting' = Counting \ {t},
             LinkCount' = IF LinkCount > 0 THEN LinkCount - 1 ELSE LinkCount
      PROVE  CountOK'
  <2>1. IsFiniteSet(Counting') /\ Cardinality(Counting') = Cardinality(Counting) - 1
    BY <1>1, <1>4, FS_RemoveElement
  <2>2. Cardinality(Counting) # 0
    BY <1>1, <1>4, FS_EmptySet
  <2>3. taken' = taken
    BY <1>4
  <2> HIDE DEF taken
  <2>4. LinkCount > 0
    BY <1>1, <2>2
  <2>5. LinkCount' = LinkCount - 1
    BY <1>4, <2>4
  <2>6. LinkCount' = Cardinality(taken') + Cardinality(Counting')
    BY <1>1, <2>1, <2>3, <2>5
  <2> USE DEF taken
  <2> QED
    BY <2>1, <2>6 DEF CountOK, CountTruthful
<1>5. CASE UNCHANGED tblVars /\ Counting' = Counting
  BY <1>1, <1>5 DEF CountOK, CountTruthful, tblVars
<1> HIDE DEF taken
<1> QED
  BY <1>0, <1>2, <1>3, <1>4, <1>5 DEF CountStep

(* The objects and their table stay in order. *)
LEMMA NextMemInv == ASSUME BaseInv, MemInv, CustodyInv, Next PROVE MemInv'
BY NextFreshMem, NextTableOK, NextCountOK DEF MemInv, BaseInv

-----------------------------------------------------------------------------
(* An acceptance is not remembered before its acceptor tracks it. *)
LEMMA NextTrackOK == ASSUME IInv, TrackOK, Next PROVE TrackOK'
<1> SUFFICES ASSUME NEW t \in Threads, pc'[t] = "track"
             PROVE  \E a \in accepted' : a.server = op'[t].obj /\ a.srv = op'[t].srv /\ ~a.remembered
  BY DEF TrackOK
<1>1. AcceptedStep /\ Moves(t)
  BY NextAcceptedStep, NextMoves
<1>2. CASE acceptOffer(t)
  <2>1. PICK s \in Services, o \in Objs : Accepts(t, s, o)
    BY <1>2, AcceptEffects
  <2>2. PICK c \in Objs : accepted' = accepted \cup {[srv |-> s, server |-> o, client |-> c, remembered |-> FALSE]}
    BY <2>1 DEF Accepts
  <2> DEFINE a == [srv |-> s, server |-> o, client |-> c, remembered |-> FALSE]
  <2>3. a \in accepted' /\ a.server = op'[t].obj /\ a.srv = op'[t].srv /\ a.remembered = FALSE
    BY <2>1, <2>2 DEF Accepts
  <2> HIDE DEF a
  <2> QED
    BY <2>3
<1>3. CASE pc[t] = "track" /\ op'[t] = op[t]
  <2>1. PICK a \in accepted : a.server = op[t].obj /\ a.srv = op[t].srv /\ ~a.remembered
    BY <1>3 DEF TrackOK
  <2>2. ASSUME NEW u \in Threads, NEW r \in Services, NEW o \in Objs, NEW full \in BOOLEAN, Tracks(u, r, o, full)
        PROVE  a \in accepted'
    <3>1. Works(t)
      BY <1>3 DEF Works, WorkLabels
    <3>2. a.server # o
      BY <1>3, <2>1, <2>2, <3>1, SoleWorker DEF Tracks
    <3> QED
      BY <2>2, <3>2, TrackedAcceptances
  <2>3. a \in accepted'
    BY <1>1, <2>2 DEF AcceptedStep, Accepts
  <2> QED
    BY <1>3, <2>1, <2>3
<1> QED
  BY <1>1, <1>2, <1>3 DEF Moves

-----------------------------------------------------------------------------
(* A user who is in a call stays in it until it ends. *)
LEMMA NextStays ==
    ASSUME BaseInv, Next, NEW u \in Users
    PROVE  /\ pc[u] # "idle" => StaysInCall(u)
           /\ pc[u] = "idle" => Waits(u) \/ CallApi(u)
<1>1. Acts(u) \/ Waits(u)
  BY NextActor DEF BaseInv
<1>2. pc[u] # "idle" => ~CallApi(u)
  BY DEF CallApi
<1>3. Acts(u) => UserAction(u) \/ AcceptAction(u) \/ onlineService(u)
  BY ConstantsOK DEF Acts
<1>4. Acts(u) /\ pc[u] # "idle" => StaysInCall(u)
  BY <1>2, <1>3, UserActionKeepsCall DEF KeepsCall, BaseInv, IInv, CallsInv
<1>5. Waits(u) => StaysInCall(u)
  BY DEF Waits, StaysInCall
<1> QED
  BY <1>1, <1>4, <1>5, UserActs

(* Whoever is in offlineService after a step was in it before, or begins. *)
LEMMA OfflineCallStays ==
    ASSUME BaseInv, Next, NEW u \in Users, InCall(u, {"offline"})'
    PROVE  /\ pc'[u] # "idle"
           /\ \/ pc'[u] = "offline"
              \/ InCall(u, {"offline"}) /\ op'[u].srv = op[u].srv /\ op[u].srv \in Services
<1>1. CallsInv'
  BY NextCallsInv DEF BaseInv, IInv
<1>2. pc'[u] # "idle"
  BY <1>1 DEF CallsInv, IdleOK, InCall, NoOp
<1>3. CASE pc[u] # "idle"
  <2>1. InCall(u, {"offline"}) /\ op'[u].srv = op[u].srv
    BY <1>3, NextStays DEF StaysInCall, InCall, NoOp
  <2>2. op[u].srv \in Services
    BY <1>3 DEF BaseInv, IInv, TypeInv, OpOK, ThreadOK, Threads
  <2> QED
    BY <1>2, <2>1, <2>2
<1>4. CASE pc[u] = "idle"
  <2>1. CallApi(u)
    BY <1>2, <1>4, NextStays DEF Waits
  <2>2. PICK c \in UserOps, o \in Objs : Calls(u, c, o)
    BY <2>1, CallEffects DEF BaseInv, IInv
  <2> QED
    BY <1>2, <2>2 DEF Calls, InCall
<1> QED
  BY <1>3, <1>4

(* A service comes online and goes offline by these steps. *)
LEMMA NextOnline ==
    ASSUME IInv, Next, NEW s \in Services
    PROVE  \/ srv'[s].online = srv[s].online
           \/ \E t \in Users : Finishes(t, s)
           \/ \E t \in Users : Online(t, s) /\ ~srv[s].online /\ srv'[s].online
<1>1. CASE \A r \in Services : SameLists(r)
  BY <1>1 DEF SameLists
<1>2. ASSUME NEW t \in Users, NEW r \in Services, Online(t, r)
      PROVE  srv'[s].online = srv[s].online \/ (Online(t, s) /\ ~srv[s].online /\ srv'[s].online)
  BY <1>2 DEF Online, OtherLists, SameLists
<1>3. ASSUME NEW t \in Users, NEW r \in Services, Finishes(t, r)
      PROVE  srv'[s].online = srv[s].online \/ Finishes(t, s)
  BY <1>3 DEF Finishes, OtherLists, SameLists
<1>4. ASSUME NEW r \in Services, srv'[r].online = srv[r].online, OtherLists(r)
      PROVE  srv'[s].online = srv[s].online
  BY <1>4 DEF OtherLists, SameLists
<1>5. ASSUME NEW t \in Threads, NEW r \in Services, NEW o \in Objs, ManualTracks(t, r, o) \/ DaemonTracks(t, r, o)
      PROVE  srv'[s].online = srv[s].online
  BY <1>4, <1>5 DEF ManualTracks, DaemonTracks, Tracks
<1>6. ASSUME NEW t \in Users, NEW r \in Services, Unlists(t, r)
      PROVE  srv'[s].online = srv[s].online
  BY <1>4, <1>6 DEF Unlists
<1>7. ListStep
  BY NextListStep
<1> QED
  BY <1>1, <1>2, <1>3, <1>5, <1>6, <1>7 DEF ListStep, DaemonUnlists, ManualUnlists

(* finishOffline is the end of an offlineService. *)
LEMMA FinishesCall ==
    ASSUME BaseInv, NEW t \in Users, NEW s \in Services, Finishes(t, s)
    PROVE  InCall(t, {"offline"}) /\ op[t].srv = s /\ pc[t] = "closeAccepted" /\ op'[t] = NoOp
BY DEF Finishes, BaseInv, CallsInv, LabelOK

(* The daemon of a service runs while the service is online, and is stopped before anything is closed. *)
LEMMA NextDaemonRuns ==
    ASSUME BaseInv, OnlineOK, Next, NEW s \in Services, pc'[s] # "exited"
    PROVE  DaemonRuns(s)'
<1>0. \A u \in Users : UserMoves(u) /\ LabelOK(u)
  BY NextMoves DEF BaseInv, Moves, Threads, CallsInv
<1>1. CASE pc[s] # "exited"
  <2>1. DaemonRuns(s)
    BY <1>1 DEF OnlineOK
  <2>2. srv'[s].online
    <3>1. ASSUME NEW t \in Users, Finishes(t, s) PROVE FALSE
      BY <2>1, <3>1, FinishesCall DEF DaemonRuns, ClosingLabels
    <3> QED
      BY <2>1, <3>1, NextOnline DEF DaemonRuns, BaseInv
  <2>3. ASSUME NEW u \in Users, InCall(u, {"offline"})', op'[u].srv = s, pc'[u] \in ClosingLabels PROVE FALSE
    <3>1. InCall(u, {"offline"}) /\ op[u].srv = s
      BY <2>3, OfflineCallStays DEF ClosingLabels
    <3>2. pc[u] \notin ClosingLabels
      BY <2>1, <3>1 DEF DaemonRuns
    <3>3. pc[u] \notin {"close", "waitNewConn"}
      BY <1>0, <3>1 DEF LabelOK, InCall
    <3> QED
      BY <1>0, <1>1, <2>1, <2>3, <3>1, <3>2, <3>3 DEF UserMoves, DaemonRuns
  <2> QED
    BY <2>1, <2>2, <2>3 DEF DaemonRuns
<1>2. CASE pc[s] = "exited"
  <2>1. PICK t \in Users : StartsDaemon(t, s)
    BY <1>2, NextActor, DaemonActs DEF BaseInv
  <2>2. ASSUME NEW u \in Users, InCall(u, {"offline"})', op'[u].srv = s, pc'[u] \in ClosingLabels PROVE FALSE
    <3>1. InCall(u, {"offline"}) /\ op[u].srv = s
      BY <2>2, OfflineCallStays DEF ClosingLabels
    <3>2. pc[u] = "offline"
      BY <2>1, <3>1 DEF OnlineOK, StartsDaemon
    <3> QED
      BY <1>0, <2>1, <2>2, <3>1, <3>2 DEF UserMoves, StartsDaemon, ClosingLabels
  <2> QED
    BY <2>1, <2>2 DEF DaemonRuns, StartsDaemon
<1> QED
  BY <1>1, <1>2

(* A service that is offline lists nothing. *)
LEMMA NextEmptyLists ==
    ASSUME BaseInv, OnlineOK, Next, NEW s \in Services, ~srv'[s].online
    PROVE  EmptyLists(s)'
<1>0. ListStep /\ (\A u \in Users : pc[u] = "track" => srv[op[u].srv].online)
      /\ \A r \in Services : pc[r] = "track" => srv[r].online
  BY NextListStep DEF BaseInv, OnlineOK, AcceptLabels, DaemonRuns
<1>1. ASSUME SameLists(s) PROVE EmptyLists(s)'
  BY <1>1 DEF SameLists, OnlineOK, EmptyLists
<1>2. ASSUME NoLists(s) PROVE EmptyLists(s)'
  BY <1>2 DEF NoLists, EmptyLists
<1>3. ASSUME NEW t \in Threads, NEW r \in Services, NEW o \in Objs, ManualTracks(t, r, o) \/ DaemonTracks(t, r, o)
      PROVE  EmptyLists(s)'
  <2>1. r # s
    BY <1>0, <1>3 DEF ManualTracks, DaemonTracks, Tracks
  <2> QED
    BY <1>1, <1>3, <2>1 DEF ManualTracks, DaemonTracks, Tracks, OtherLists
<1>4. ASSUME NEW t \in Users, NEW r \in Services, Online(t, r) \/ Finishes(t, r) PROVE EmptyLists(s)'
  BY <1>1, <1>2, <1>4 DEF Online, Finishes, OtherLists
<1>5. ASSUME NEW t \in Users, NEW r \in Services, Unlists(t, r),
             (\E o \in Objs : DaemonUnlists(t, r, o)) \/ (\E k \in Slots : ManualUnlists(t, r, k))
      PROVE  EmptyLists(s)'
  <2>1. ~srv[s].online => EmptyLists(s)
    BY DEF OnlineOK
  <2>2. r # s
    BY <1>5, <2>1 DEF Unlists, DaemonUnlists, ManualUnlists, Removed, EmptyLists
  <2> QED
    BY <1>1, <1>5, <2>2 DEF Unlists, OtherLists
<1> QED
  BY <1>0, <1>1, <1>3, <1>4, <1>5 DEF ListStep, DaemonUnlists, ManualUnlists

(* Whoever works for a service, or is past the first step of its offlineService, finds it online. *)
LEMMA NextOnlineOK == ASSUME BaseInv, OnlineOK, Next PROVE OnlineOK'
<1>0. \A u \in Users : UserMoves(u) /\ LabelOK(u) /\ u \in Threads
  BY NextMoves DEF BaseInv, Moves, Threads, CallsInv
<1>1. ASSUME NEW t \in Users, pc'[t] \in AcceptLabels PROVE srv'[op'[t].srv].online
  <2>1. op'[t] = op[t] /\ srv[op[t].srv].online /\ pc[t] \in AcceptLabels \cup {"accept"}
    BY <1>0, <1>1 DEF UserMoves, OnlineOK
  <2>2. InCall(t, {"connect", "accept"}) /\ op[t].srv \in Services
    BY <1>0, <2>1 DEF AcceptLabels, LabelOK, InCall, BaseInv, IInv, TypeInv, OpOK, ThreadOK
  <2>3. \A u \in Users : ~Finishes(u, op[t].srv)
    BY <2>2, FinishesCall DEF BaseInv, CallsInv, Excludes
  <2> QED
    BY <2>1, <2>2, <2>3, NextOnline DEF BaseInv
<1>2. ASSUME NEW t \in Users, InCall(t, {"offline"})', pc'[t] # "offline" PROVE srv'[op'[t].srv].online
  <2>1. InCall(t, {"offline"}) /\ op'[t].srv = op[t].srv /\ op[t].srv \in Services /\ pc'[t] # "idle"
    BY <1>2, OfflineCallStays
  <2>2. srv[op[t].srv].online
    BY <1>0, <1>2, <2>1 DEF UserMoves, OnlineOK
  <2>3. ASSUME NEW u \in Users, Finishes(u, op[t].srv) PROVE FALSE
    <3>1. InCall(u, {"offline"}) /\ op[u].srv = op[t].srv /\ op'[u] = NoOp
      BY <2>1, <2>3, FinishesCall
    <3>2. u = t
      BY <2>1, <3>1 DEF BaseInv, CallsInv, Excludes
    <3> QED
      BY <1>2, <3>1, <3>2 DEF InCall, NoOp
  <2> QED
    BY <2>1, <2>2, <2>3, NextOnline DEF BaseInv
<1> QED
  BY <1>1, <1>2, NextDaemonRuns, NextEmptyLists DEF OnlineOK

-----------------------------------------------------------------------------
(* Whoever closes a link goes on with that link until it is closed. *)
ClosesOn(u) == Closes(u)' /\ op'[u].obj = op[u].obj /\ op'[u].api = op[u].api /\ op'[u].srv = op[u].srv
(* The closer of an open link goes on with it, and at last closes it. *)
LEMMA NextCloses ==
    ASSUME BaseInv, MemInv, CustodyInv, Next, NEW u \in Users, Closes(u)
    PROVE  ClosesOn(u) \/ Closed(u, op[u].obj)
<1>0. CtlType /\ u \in Threads /\ op[u].obj \in Objs /\ op[u].obj # Null /\ pc[u] # "idle"
  BY ConstantsOK DEF BaseInv, IInv, TypeInv, TypeOK, CtlType, Threads, OpOK, ThreadOK, Closes, CloseLabels
<1>1. CASE Waits(u)
  BY <1>1 DEF Waits, Closes, ClosesOn
<1>2. ASSUME Closes(u)', op'[u].obj = op[u].obj PROVE ClosesOn(u)
  BY <1>0, <1>2, NextStays DEF StaysInCall, ClosesOn, NoOp
<1>3. CASE Acts(u)
  <2>1. CASE pc[u] = "close"
    <3>1. closeLink(u)
      BY <1>3, <2>1, UserActs
    <3>2. getLinkObj(op[u].obj) = op[u].obj
      BY <1>0 DEF CustodyInv, CloseOK, ClosesRightly, MemInv, TableOK, getLinkObj
    <3>3. pc'[u] \in {"lockLink", "aborted"} /\ op' = [op EXCEPT ![u].obj = op[u].obj]
      BY <1>0, <3>1, <3>2 DEF closeLink, beginClose, Goto, CtlType
    <3>4. op'[u].obj = op[u].obj
      BY <1>0, <3>3 DEF CtlType, OpRecords
    <3> QED
      BY <1>2, <3>3, <3>4 DEF Closes, CloseLabels
  <2>2. CASE pc[u] = "lockLink"
    <3>1. lockLink(u)
      BY <1>3, <2>2, UserActs
    <3>2. pc'[u] \in {"freeLink", "clearPeer"} /\ op'[u].obj = op[u].obj
      BY <3>1, LockEffects DEF BaseInv, Locks
    <3> QED
      BY <1>2, <3>2 DEF Closes, CloseLabels
  <2>3. CASE pc[u] = "clearPeer"
    <3>1. Unpeers(u)
      BY <1>3, <2>3, UserActs, UnpeerEffects DEF BaseInv
    <3> QED
      BY <1>2, <3>1 DEF Closes, CloseLabels, Unpeers
  <2>4. CASE pc[u] = "freeLink"
    BY <1>3, <2>4, UserActs, FreeEffects DEF BaseInv
  <2> QED
    BY <1>3, <2>1, <2>2, <2>3, <2>4, UserActs DEF Closes, CloseLabels
<1> QED
  BY <1>1, <1>3, NextActor DEF BaseInv

(* A link that a service lists stays listed until it is closed. *)
BeginsToClose(s, o) == \E u \in Users : Closes(u)' /\ op'[u].obj = o /\ op'[u].srv = s /\ InCall(u, {"offline"})'
(* A listed link leaves the list only to be closed, because its slot still holds it. *)
LEMMA ListedStays ==
    ASSUME BaseInv, MemInv, CustodyInv, OnlineOK, Next, NEW s \in Services \ KeepAccepted, NEW o \in Objs, Listed(s, o)
    PROVE  Listed(s, o)' \/ BeginsToClose(s, o)
<1>0. ListStep /\ o # Null
  BY NextListStep, ConstantsOK DEF BaseInv
<1>1. ~EmptyLists(s)
  BY <1>0 DEF Listed, EmptyLists
<1>2. \A i \in 1 .. MaxManual : srv[s].ManualAccept[i] # Null => tbl'[srv[s].ManualAccept[i]] = tbl[srv[s].ManualAccept[i]]
  BY RememberedSlots
<1>3. ASSUME \A i \in 1 .. MaxDaemon : srv[s].DaemonAccept[i] = o => srv'[s].DaemonAccept[i] = o,
             \A i \in 1 .. MaxManual : srv[s].ManualAccept[i] # Null /\ tbl[srv[s].ManualAccept[i]] = o
                                       => srv'[s].ManualAccept[i] = srv[s].ManualAccept[i]
      PROVE  Listed(s, o)'
  BY <1>2, <1>3 DEF Listed
<1>4. SameLists(s) => Listed(s, o)'
  BY <1>3 DEF SameLists
<1>5. ASSUME NEW t \in Users, NEW r \in Services, Online(t, r) \/ Finishes(t, r) PROVE Listed(s, o)'
  BY <1>1, <1>4, <1>5 DEF Online, Finishes, OtherLists, OnlineOK, EmptyLists
<1>6. ASSUME NEW t \in Threads, NEW r \in Services, NEW x \in Objs, ManualTracks(t, r, x) PROVE Listed(s, o)'
  BY <1>3, <1>4, <1>6 DEF ManualTracks, Tracks, Entered, OtherLists
<1>7. ASSUME NEW t \in Threads, NEW r \in Services, NEW x \in Objs, DaemonTracks(t, r, x) PROVE Listed(s, o)'
  BY <1>0, <1>3, <1>4, <1>7 DEF DaemonTracks, Tracks, Entered, OtherLists
<1>8. ASSUME NEW t \in Users, NEW r \in Services, NEW x \in Objs, DaemonUnlists(t, r, x)
      PROVE  Listed(s, o)' \/ BeginsToClose(s, o)
  <2>1. CASE r = s /\ x = o
    BY <1>8, <2>1, DaemonUnlisted DEF BeginsToClose, ClosesListed
  <2>2. CASE r # s
    BY <1>4, <1>8, <2>2 DEF DaemonUnlists, Unlists, OtherLists
  <2>3. CASE r = s /\ x # o
    BY <1>3, <1>8, <2>3 DEF DaemonUnlists, Removed
  <2> QED
    BY <2>1, <2>2, <2>3
<1>9. ASSUME NEW t \in Users, NEW r \in Services, NEW k \in Slots, ManualUnlists(t, r, k)
      PROVE  Listed(s, o)' \/ BeginsToClose(s, o)
  <2>1. CASE r = s /\ tbl[k] = o
    BY <1>9, <2>1, ManualUnlisted DEF BeginsToClose, ClosesListed
  <2>2. CASE r # s
    BY <1>4, <1>9, <2>2 DEF ManualUnlists, Unlists, OtherLists
  <2>3. CASE r = s /\ tbl[k] # o
    BY <1>3, <1>9, <2>3 DEF ManualUnlists, Removed
  <2> QED
    BY <2>1, <2>2, <2>3
<1> QED
  BY <1>0, <1>4, <1>5, <1>6, <1>7, <1>8, <1>9 DEF ListStep

(* A link that a service remembers is listed or being closed, as long as it is open. *)
Minds(s, o) == Listed(s, o) \/ ClosesFor(s, o)
(* So a service that minds a link goes on to do so while the link is open. *)
LEMMA MindedStays ==
    ASSUME BaseInv, MemInv, CustodyInv, OnlineOK, Next,
           NEW s \in Services \ KeepAccepted, NEW o \in Objs, Minds(s, o), Open(o)'
    PROVE  Minds(s, o)'
<1>1. CASE Listed(s, o)
  <2>1. BeginsToClose(s, o) => ClosesFor(s, o)'
    BY DEF BeginsToClose, ClosesFor
  <2> QED
    BY <1>1, <2>1, ListedStays DEF Minds
<1>2. CASE ClosesFor(s, o)
  <2>1. PICK u \in Users : Closes(u) /\ InCall(u, {"offline"}) /\ op[u].srv = s /\ op[u].obj = o
    BY <1>2 DEF ClosesFor
  <2>2. ~Closed(u, o)
    BY DEF Closed, Frees, Leaks, Ends, Open
  <2>3. ClosesOn(u)
    BY <2>1, <2>2, NextCloses
  <2>4. ClosesFor(s, o)'
    BY <2>1, <2>3 DEF ClosesOn, ClosesFor, InCall
  <2> QED
    BY <2>4 DEF Minds
<1> QED
  BY <1>1, <1>2 DEF Minds

(* What a service remembers and is open, it lists or closes. *)
LEMMA NextRememberedOK ==
    ASSUME BaseInv, MemInv, CustodyInv, ServiceInv, Next
    PROVE  RememberedOK'
<1>0. IInv /\ IInv' /\ OnlineOK
  BY NextIInv DEF BaseInv, ServiceInv
<1> SUFFICES ASSUME NEW b \in accepted', b.srv \notin KeepAccepted, b.remembered, Open(b.server)'
             PROVE  Minds(b.srv, b.server)'
  BY DEF RememberedOK, Minds
<1>1. b.srv \in Services \ KeepAccepted /\ b.server \in Objs
  BY <1>0 DEF IInv, TypeInv, TypeOK
<1>2. ASSUME NEW a \in accepted, a.srv = b.srv, a.server = b.server, a.remembered PROVE Minds(b.srv, b.server)'
  <2>1. ASSUME NEW t \in Threads, Allocates(t, b.server) PROVE FALSE
    BY <1>0, <1>1, <1>2, <2>1, AllocatesNew DEF Involved, MemInv
  <2>2. Open(a.server)
    BY <1>0, <1>1, <1>2, <2>1, NextOpen DEF OpenStep
  <2>3. Minds(b.srv, b.server)
    BY <1>1, <1>2, <2>2 DEF ServiceInv, RememberedOK, Minds
  <2> QED
    BY <1>0, <1>1, <2>3, MindedStays
<1>3. ASSUME NEW t \in Threads, NEW s \in Services, NEW o \in Objs, Accepts(t, s, o) PROVE b \in accepted
  BY <1>3 DEF Accepts
<1>4. ASSUME NEW t \in Threads, NEW s \in Services, NEW o \in Objs, NEW full \in BOOLEAN,
             Tracks(t, s, o, full), ~full => Enters(s, o)
      PROVE  Minds(b.srv, b.server)'
  <2>1. PICK a \in accepted : a.srv = b.srv /\ a.server = b.server /\ (b.remembered => a.remembered \/ (a.server = o /\ ~full))
    BY <1>0, <1>4, TrackedAcceptances
  <2>2. CASE a.server = o /\ ~full
    <3>1. PICK c \in accepted : c.server = o /\ c.srv = s
      BY <1>4 DEF ServiceInv, TrackOK, Tracks
    <3>2. b.srv = s /\ b.server = o
      BY <1>0, <2>1, <2>2, <3>1 DEF IInv, AcceptedOK
    <3>3. tbl'[link[o].id] = o /\ link[o].id \in Slots
      BY <1>4, WorkedLink DEF Tracks, CustodyInv, WorkOK, MemInv, TableOK, BaseInv, IInv, TypeInv, LinksOK, Allocated, Open
    <3>4. Listed(s, o)'
      BY <1>4, <2>2, <3>3, ConstantsOK DEF Enters, Listed
    <3> QED
      BY <3>2, <3>4 DEF Minds
  <2> QED
    BY <1>2, <2>1, <2>2
<1>5. AcceptedStep
  BY <1>0, NextAcceptedStep
<1> QED
  BY <1>2, <1>3, <1>4, <1>5 DEF AcceptedStep

(* The services stay in order. *)
LEMMA NextServiceInv ==
    ASSUME BaseInv, MemInv, CustodyInv, ServiceInv, Next
    PROVE  ServiceInv'
<1>1. TrackOK'
  BY NextTrackOK DEF BaseInv, ServiceInv
<1>2. OnlineOK'
  BY NextOnlineOK DEF ServiceInv
<1> QED
  BY <1>1, <1>2, NextRememberedOK DEF ServiceInv

-----------------------------------------------------------------------------
(* The steps of a closer, from lockLink on. *)
LEMMA ClosingSteps ==
    ASSUME IInv, Next, NEW u \in Users, pc'[u] \in {"clearPeer", "freeLink"}
    PROVE  Waits(u) \/ lockLink(u) \/ clearPeer(u)
<1>0. CtlType /\ OpOK /\ u \in Threads /\ u \notin Services
  BY ConstantsOK DEF IInv, TypeInv, TypeOK, CtlType, Threads
<1> USE DEF Goto, Return, CtlType
<1>1. ~onlineService(u)
  <2>1. ASSUME onlineService(u) PROVE FALSE
    <3>1. op[u].srv \in Services /\ op[u].srv # u
      BY <1>0, <2>1 DEF onlineService, OpOK, ThreadOK
    <3> QED
      BY <1>0, <2>1, <3>1 DEF onlineService
  <2> QED
    BY <2>1
<1>2. ~(allocConnecting(u) \/ findService(u) \/ offerConnection(u) \/ finishConnect(u))
  BY <1>0 DEF allocConnecting, findService, offerConnection, finishConnect, failConnect
<1>3. ~(refuseAccept(u) \/ allocAccepting(u) \/ noOffer(u) \/ acceptOffer(u) \/ wakeAcceptor(u) \/ trackManual(u) \/ acceptTimedOut(u))
  BY <1>0 DEF refuseAccept, allocAccepting, noOffer, acceptOffer, wakeAcceptor, trackManual, acceptTimedOut
<1>4. ~rejectOffer(u)
  BY <1>0 DEF rejectOffer
<1>5. ~(closeLink(u) \/ freeLink(u) \/ countFreed(u))
  BY <1>0 DEF closeLink, beginClose, freeLink, countFreed
<1>6. ~(offlineService(u) \/ joinDaemon(u) \/ closeDaemonLink(u) \/ closeManualLink(u) \/ finishOffline(u))
  BY <1>0 DEF offlineService, joinDaemon, closeDaemonLink, closeManualLink, beginClose, finishOffline
<1>7. ~CallApi(u)
  <2>1. ASSUME CallApi(u) PROVE FALSE
    <3>1. PICK c \in UserOps, o \in Objs : Calls(u, c, o)
      BY <2>1, CallEffects DEF IInv
    <3> QED
      BY <3>1 DEF Calls, Ops
  <2> QED
    BY <2>1
<1>8. Acts(u) \/ Waits(u)
  BY NextActor
<1> QED
  BY <1>0, <1>1, <1>2, <1>3, <1>4, <1>5, <1>6, <1>7, <1>8 DEF Acts, UserAction, AcceptAction

(* A closer at clearPeer waits or takes that step. *)
LEMMA ClearSteps ==
    ASSUME IInv, Next, NEW u \in Users, pc[u] = "clearPeer"
    PROVE  Waits(u) \/ Unpeers(u)
BY NextActor, UserActs, UnpeerEffects

(* The thread that closes a locked link has locked it, and is about to clear the peer's pointer. *)
LEMMA LockedBy ==
    ASSUME CustodyInv, LockedOK, NEW u \in Users, Closes(u), NEW o \in Objs, op[u].obj = o, link[o].locked
    PROVE  pc[u] = "clearPeer"
<1>1. PICK v \in Users : pc[v] = "clearPeer" /\ op[v].obj = o
  BY DEF LockedOK
<1>2. Closes(v)
  BY <1>1 DEF Closes, CloseLabels
<1> QED
  BY <1>1, <1>2 DEF CustodyInv, CloseOK, OneCloser

(* A link that is worked on is not locked, because nobody closes it. *)
LEMMA WorkedUnlocked ==
    ASSUME CustodyInv, LockedOK, NEW o \in Objs, Worked(o)
    PROVE  ~link[o].locked
BY DEF CustodyInv, WorkOK, LockedOK, Closing, Closes, CloseLabels

(* The two links of a new connection are worked on. *)
LEMMA PairsWorked ==
    ASSUME NEW t \in Threads, NEW o \in Objs, NEW c \in Objs, Pairs(t, o, c)
    PROVE  Worked(o) /\ Worked(c)
BY DEF Pairs, Worked, Works, WorkLabels, Threads

(* A locked link is in the hands of a closer at clearPeer. *)
LEMMA NextLockedOK == ASSUME BaseInv, LockedOK, Next PROVE LockedOK'
<1> SUFFICES ASSUME NEW o \in Objs, link'[o].locked
             PROVE  \E u \in Users : pc'[u] = "clearPeer" /\ op'[u].obj = o
  BY DEF LockedOK
<1>1. TableStep
  BY NextTableStep DEF BaseInv
<1>2. ASSUME NEW t \in Users, Locks(t), op[t].obj = o PROVE pc'[t] = "clearPeer" /\ op'[t].obj = o
  BY <1>2 DEF Locks
<1>3. CASE link[o].locked
  <2>1. PICK u \in Users : pc[u] = "clearPeer" /\ op[u].obj = o
    BY <1>3 DEF LockedOK
  <2>2. ~Unpeers(u)
    BY <2>1 DEF Unpeers
  <2>3. Waits(u)
    BY <2>1, <2>2, ClearSteps DEF BaseInv
  <2> QED
    BY <2>1, <2>3 DEF Waits
<1>4. ASSUME NEW t \in Threads, NEW x \in Objs, Allocates(t, x) \/ GivesUp(t, x) \/ Closed(t, x)
      PROVE  link[o].locked
  BY <1>4 DEF Allocates, GivesUp, Closed, Leaks, Frees, Ends, OtherLinks, SameLink
<1>5. ASSUME NEW t \in Threads, NEW x \in Objs, NEW c \in Objs, Pairs(t, x, c) PROVE link[o].locked
  BY <1>5 DEF Pairs
<1>6. ASSUME NEW t \in Users, Unpeers(t) PROVE link[o].locked
  BY <1>6 DEF Unpeers
<1>7. ASSUME NEW t \in Users, Locks(t), op[t].obj # o PROVE link[o].locked
  BY <1>7 DEF Locks, OtherLinks, SameLink
<1> QED
  BY <1>1, <1>2, <1>3, <1>4, <1>5, <1>6, <1>7 DEF TableStep, SameTable, SameLink

(* No link is its own peer. *)
LEMMA NextNoSelfPeer == ASSUME IInv, NoSelfPeer, Next PROVE NoSelfPeer'
<1> SUFFICES ASSUME NEW o \in Objs PROVE link'[o].pPeer # o
  BY DEF NoSelfPeer
<1>0. o # Null /\ link[o].pPeer # o
  BY ConstantsOK DEF NoSelfPeer
<1>1. ASSUME NEW t \in Threads, NEW x \in Objs, Allocates(t, x) \/ GivesUp(t, x) \/ Closed(t, x)
      PROVE  link'[o].pPeer # o
  BY <1>0, <1>1 DEF Allocates, GivesUp, Closed, Leaks, Frees, Ends, OtherLinks, SameLink
<1>2. ASSUME NEW t \in Threads, NEW x \in Objs, NEW c \in Objs, Pairs(t, x, c) PROVE link'[o].pPeer # o
  BY <1>0, <1>2 DEF Pairs
<1>3. ASSUME NEW t \in Users, Unpeers(t) PROVE link'[o].pPeer # o
  BY <1>0, <1>3 DEF Unpeers
<1>4. ASSUME NEW t \in Users, Locks(t) PROVE link'[o].pPeer # o
  BY <1>0, <1>4 DEF Locks, OtherLinks, SameLink
<1> QED
  BY <1>0, <1>1, <1>2, <1>3, <1>4, NextTableStep DEF TableStep, SameTable, SameLink

(* A link has no peer any more when it is freed. *)
LEMMA NextFreeOK == ASSUME BaseInv, CustodyInv, ClearOK, FreeOK, Next PROVE FreeOK'
<1> SUFFICES ASSUME NEW u \in Users, pc'[u] = "freeLink" PROVE link'[op'[u].obj].pPeer = Null
  BY DEF FreeOK
<1>0. OpOK /\ u \in Threads
  BY DEF BaseInv, IInv, TypeInv, Threads
<1>1. CASE Waits(u)
  <2>1. PICK o \in Objs : o = op[u].obj
    BY <1>0, <1>1 DEF Waits, OpOK, ThreadOK
  <2>2. op'[u].obj = o /\ link[o].pPeer = Null /\ Closing(o)
    BY <1>1, <2>1 DEF Waits, FreeOK, Closing, Closes, CloseLabels
  <2>3. ASSUME NEW t \in Threads, NEW x \in Objs, Allocates(t, x) \/ GivesUp(t, x) \/ Closed(t, x)
        PROVE  link'[o].pPeer = Null
    BY <2>2, <2>3 DEF Allocates, GivesUp, Closed, Leaks, Frees, Ends, OtherLinks, SameLink
  <2>4. ASSUME NEW t \in Threads, NEW x \in Objs, NEW c \in Objs, Pairs(t, x, c) PROVE link'[o].pPeer = Null
    <3>1. o # x /\ o # c
      BY <2>2, <2>4, PairsWorked DEF CustodyInv, WorkOK
    <3> QED
      BY <2>2, <2>4, <3>1 DEF Pairs
  <2>5. ASSUME NEW t \in Users, Unpeers(t) PROVE link'[o].pPeer = Null
    BY <2>2, <2>5 DEF Unpeers
  <2>6. ASSUME NEW t \in Users, Locks(t) PROVE link'[o].pPeer = Null
    BY <2>2, <2>6 DEF Locks, OtherLinks, SameLink
  <2>7. TableStep
    BY NextTableStep DEF BaseInv
  <2>8. link'[o].pPeer = Null
    BY <2>2, <2>3, <2>4, <2>5, <2>6, <2>7 DEF TableStep, SameTable, SameLink
  <2> QED
    BY <2>2, <2>8
<1>2. CASE lockLink(u)
  BY <1>2, LockEffects DEF BaseInv, Locks
<1>3. CASE clearPeer(u)
  <2>1. Unpeers(u)
    BY <1>3, UnpeerEffects DEF BaseInv
  <2>2. link[op[u].obj].pPeer = Null
    BY <2>1 DEF ClearOK, PointsBack, Unpeers
  <2> QED
    BY <2>1, <2>2 DEF Unpeers
<1> QED
  BY <1>1, <1>2, <1>3, ClosingSteps DEF BaseInv

(* Nobody works on a link that was not worked on and is not allocated. *)
LEMMA NextWorked ==
    ASSUME IInv, Next, NEW o \in Objs, ~Worked(o), \A t \in Threads : ~Allocates(t, o)
    PROVE  ~Worked(o)'
<1> SUFFICES ASSUME NEW t \in Threads, Works(t)', op'[t].obj = o PROVE FALSE
  BY DEF Worked
<1>1. Moves(t)
  BY NextMoves
<1>2. ~(Works(t) /\ op'[t].obj = op[t].obj)
  BY DEF Worked
<1>3. ASSUME NEW x \in Objs, Allocates(t, x) PROVE FALSE
  BY <1>3 DEF Allocates
<1> QED
  BY <1>1, <1>2, <1>3 DEF Moves

(* When a closer locks its link, only the peer points to it, because the two agreed. *)
LEMMA LockedPoints ==
    ASSUME BaseInv, MemInv, CustodyInv, PeersInv, Next, NEW u \in Users, Locks(u)
    PROVE  \E o \in Objs, p \in Objs : op'[u].obj = o /\ op'[u].peer = p /\ PointsBack(o, p)'
<1>1. PICK o \in Objs : o = op[u].obj
  BY DEF Locks
<1>2. PICK p \in Objs : p = link[o].pPeer
  BY <1>1 DEF Locks, BaseInv, IInv, TypeInv, TypeOK, LinkRecords
<1>3. Closes(u) /\ pc[u] = "lockLink" /\ Open(o) /\ o # Null /\ p # Null /\ p # o
  BY <1>1, <1>2, ConstantsOK DEF Locks, Closes, CloseLabels, CustodyInv, CloseOK, ClosesRightly, PeersInv, NoSelfPeer
<1>4. ~link[o].locked
  BY <1>1, <1>3, LockedBy DEF PeersInv
<1>5. Open(p) /\ (link[p].pPeer = o \/ link[p].locked)
  BY <1>2, <1>3 DEF PeersInv, PeersAgree, Open
<1>6. link[p].pPeer = o \/ (link[p].pPeer = Null /\ ~Worked(p))
  <2>1. ASSUME link[p].locked PROVE link[p].pPeer = Null /\ ~Worked(p)
    <3>1. PICK v \in Users : pc[v] = "clearPeer" /\ op[v].obj = p
      BY <2>1 DEF PeersInv, LockedOK
    <3>2. link[p].pPeer = Null
      BY <3>1 DEF PeersInv, ClearOK, PointsBack
    <3>3. ~Worked(p)
      BY <2>1, WorkedUnlocked DEF PeersInv
    <3> QED
      BY <3>2, <3>3
  <2> QED
    BY <1>5, <2>1
<1>7. link'[o].pPeer = Null /\ \A x \in Objs \ {o} : SameLink(x)
  BY <1>1 DEF Locks, OtherLinks
<1>8. Allocated(p)' /\ link'[p].pPeer = link[p].pPeer
  BY <1>3, <1>5, <1>7 DEF SameLink, Allocated, Open
<1>9. ~Worked(p) => ~Worked(p)'
  <2>1. \A t \in Threads : ~Allocates(t, p)
    BY <1>5, AllocatesUnused DEF MemInv
  <2> QED
    BY <2>1, NextWorked DEF BaseInv
<1>10. ASSUME NEW x \in Objs, Open(x)', link'[x].pPeer = o PROVE x = p
  <2>1. x # o /\ SameLink(x)
    BY <1>3, <1>7, <1>10
  <2>2. Open(x) /\ link[x].pPeer = o
    BY <1>10, <2>1 DEF SameLink, Open
  <2> QED
    BY <1>2, <1>3, <1>4, <2>2 DEF PeersInv, PeersAgree, Open
<1>11. op'[u].obj = o /\ op'[u].peer = p
  BY <1>1, <1>2 DEF Locks
<1> QED
  BY <1>6, <1>7, <1>8, <1>9, <1>10, <1>11 DEF PointsBack

(* That stays so until the closer clears the pointer, *)
LEMMA PointsStay ==
    ASSUME BaseInv, MemInv, CustodyInv, PeersInv, Next, NEW u \in Users, pc[u] = "clearPeer", Waits(u),
           NEW o \in Objs, NEW p \in Objs, o = op[u].obj, PointsBack(o, p)
    PROVE  PointsBack(o, p)'
<1>0. IInv /\ o # Null /\ Closes(u) /\ ~Worked(o)
  BY ConstantsOK DEF BaseInv, Closes, CloseLabels, CustodyInv, WorkOK, Closing
<1>1. ASSUME NEW t \in Threads, Allocates(t, p) PROVE FALSE
  BY <1>0, <1>1, AllocatesNew DEF MemInv, PointsBack
<1>2. ~Worked(p) => ~Worked(p)'
  BY <1>0, <1>1, NextWorked
<1>3. ASSUME \A x \in Objs : link'[x].pPeer = link[x].pPeer, \A x \in Objs : Open(x)' => Open(x), Allocated(p)'
      PROVE  PointsBack(o, p)'
  BY <1>2, <1>3 DEF PointsBack
<1>4. CASE SameTable
  BY <1>3, <1>4 DEF SameTable, SameLink, Open, Allocated, PointsBack
<1>5. ASSUME NEW t \in Threads, NEW x \in Objs, Allocates(t, x) PROVE PointsBack(o, p)'
  <2>1. p # x
    BY <1>1, <1>5
  <2>2. link'[x].pPeer = Null /\ \A y \in Objs \ {x} : SameLink(y)
    BY <1>5 DEF Allocates, OtherLinks
  <2> QED
    BY <1>0, <1>2, <2>1, <2>2 DEF PointsBack, SameLink, Open, Allocated
<1>6. ASSUME NEW t \in Threads, NEW x \in Objs, GivesUp(t, x) \/ Closed(t, x) PROVE PointsBack(o, p)'
  <2>1. /\ link'[x].mem \in {"freed", "closed"} /\ link'[x].pPeer = link[x].pPeer
        /\ \A y \in Objs \ {x} : SameLink(y)
    BY <1>6 DEF GivesUp, Closed, Leaks, Frees, Ends, OtherLinks
  <2>2. \A y \in Objs : link'[y].pPeer = link[y].pPeer /\ (Open(y)' => Open(y))
    BY <2>1 DEF SameLink, Open
  <2>3. Allocated(p)'
    BY <2>1 DEF PointsBack, SameLink, Allocated
  <2> QED
    BY <1>3, <2>2, <2>3
<1>7. ASSUME NEW t \in Threads, NEW x \in Objs, NEW c \in Objs, Pairs(t, x, c) PROVE PointsBack(o, p)'
  <2>1. o \notin {x, c} /\ p \notin {x, c}
    BY <1>0, <1>7, PairsWorked DEF PointsBack, Pairs
  <2>2. /\ link'[x].pPeer = c /\ link'[c].pPeer = x
        /\ \A y \in Objs \ {x, c} : link'[y].pPeer = link[y].pPeer
        /\ \A y \in Objs : link'[y].mem = link[y].mem
    BY <1>7 DEF Pairs, SameMemories, SameMemory
  <2> QED
    BY <1>2, <2>1, <2>2 DEF PointsBack, Open, Allocated
<1>8. ASSUME NEW t \in Users, Locks(t) PROVE PointsBack(o, p)'
  <2>1. PICK x \in Objs : x = op[t].obj
    BY <1>8 DEF Locks
  <2>2. link'[x].pPeer = Null /\ (\A y \in Objs \ {x} : SameLink(y)) /\ \A y \in Objs : link'[y].mem = link[y].mem
    BY <1>8, <2>1 DEF Locks, OtherLinks, SameMemories, SameMemory
  <2>3. ~Worked(x)
    BY <1>8, <2>1 DEF Locks, CustodyInv, WorkOK, Closing, Closes, CloseLabels
  <2>4. /\ \A y \in Objs : link'[y].pPeer = link[y].pPeer \/ (y = x /\ link'[y].pPeer = Null)
        /\ \A y \in Objs : (Open(y)' <=> Open(y)) /\ (Allocated(y)' <=> Allocated(y))
    BY <2>2 DEF SameLink, Open, Allocated
  <2> QED
    BY <1>0, <1>2, <2>3, <2>4 DEF PointsBack
<1>9. ASSUME NEW t \in Users, Unpeers(t) PROVE PointsBack(o, p)'
  <2>1. PICK x \in Objs, q \in Objs : x = op[t].obj /\ q = op[t].peer /\ PointsBack(x, q)
    BY <1>9 DEF Unpeers, PeersInv, ClearOK
  <2>2. x # o
    <3>1. Closes(t) /\ t # u
      BY <1>9 DEF Unpeers, Closes, CloseLabels, Waits
    <3> QED
      BY <1>0, <2>1, <3>1 DEF CustodyInv, CloseOK, OneCloser
  <2>3. /\ \A y \in Objs \ {q} : link'[y].pPeer = link[y].pPeer
        /\ link'[q].pPeer \in {link[q].pPeer, Null}
        /\ \A y \in Objs : link'[y].mem = link[y].mem
    BY <1>9, <2>1 DEF Unpeers, SameMemories, SameMemory
  <2>4. link'[p].pPeer = o \/ (link'[p].pPeer = Null /\ ~Worked(p)')
    <3>1. CASE link[p].pPeer = Null /\ ~Worked(p)
      BY <1>2, <2>3, <3>1
    <3>2. CASE link[p].pPeer = o /\ p # q
      BY <2>3, <3>2
    <3>3. CASE link[p].pPeer = o /\ p = q
      BY <1>0, <2>1, <2>2, <3>3 DEF PointsBack
    <3> QED
      BY <3>1, <3>2, <3>3 DEF PointsBack
  <2>5. link'[o].pPeer = Null /\ \A y \in Objs : link'[y].pPeer = o => link[y].pPeer = o
    BY <1>0, <2>3 DEF PointsBack
  <2> QED
    BY <2>3, <2>4, <2>5 DEF PointsBack, Open, Allocated
<1> QED
  BY <1>0, <1>4, <1>5, <1>6, <1>7, <1>8, <1>9, NextTableStep DEF TableStep

(* for every closer. *)
LEMMA NextClearOK ==
    ASSUME BaseInv, MemInv, CustodyInv, PeersInv, Next
    PROVE  ClearOK'
<1> SUFFICES ASSUME NEW u \in Users, pc'[u] = "clearPeer"
             PROVE  \E o \in Objs, p \in Objs : op'[u].obj = o /\ op'[u].peer = p /\ PointsBack(o, p)'
  BY DEF ClearOK, PointsBack, Worked, Allocated, Open
<1>0. IInv /\ OpOK /\ u \in Threads
  BY DEF BaseInv, IInv, TypeInv, Threads
<1>1. CASE Waits(u)
  <2>1. PICK o \in Objs, p \in Objs : o = op[u].obj /\ p = op[u].peer
    BY <1>0, <1>1 DEF Waits, OpOK, ThreadOK
  <2>2. op'[u].obj = o /\ op'[u].peer = p /\ pc[u] = "clearPeer"
    BY <1>1, <2>1 DEF Waits
  <2>3. PointsBack(o, p)
    BY <2>1, <2>2 DEF PeersInv, ClearOK
  <2>4. PointsBack(o, p)'
    BY <1>1, <2>1, <2>2, <2>3, PointsStay
  <2> QED
    BY <2>2, <2>4
<1>2. CASE lockLink(u)
  <2>1. Locks(u)
    BY <1>0, <1>2, LockEffects DEF lockLink, Goto, CtlType, TypeOK, TypeInv, IInv
  <2> QED
    BY <2>1, LockedPoints
<1>3. CASE clearPeer(u)
  BY <1>0, <1>3, UnpeerEffects DEF Unpeers
<1> QED
  BY <1>0, <1>1, <1>2, <1>3, ClosingSteps

(* An open link and its peer agree. *)
Agrees(o, p) == Open(o) /\ link[o].pPeer = p => Open(p) /\ (link[p].pPeer = o \/ link[p].locked)
(* Clearing the pointer leaves every open link in agreement with its peer, *)
LEMMA UnpeersAgree ==
    ASSUME BaseInv, CustodyInv, PeersInv, NEW t \in Users, Unpeers(t), NEW o \in Objs, NEW p \in Objs,
           \A y \in Objs : Agrees(o, y)
    PROVE  Agrees(o, p)'
<1>1. PICK x \in Objs, q \in Objs : x = op[t].obj /\ q = op[t].peer
  BY DEF Unpeers
<1>2. pc[t] = "clearPeer" /\ Closes(t) /\ p # Null /\ o # Null /\ x # Null
  BY ConstantsOK DEF Unpeers, Closes, CloseLabels
<1>3. PointsBack(x, q)
  BY <1>1, <1>2 DEF PeersInv, ClearOK
<1>4. link[q].locked => link[q].pPeer = Null
  BY DEF PeersInv, LockedOK, ClearOK, PointsBack
<1>5. /\ \A y \in Objs : link'[y].locked = (link[y].locked /\ y # x) /\ link'[y].mem = link[y].mem
      /\ \A y \in Objs \ {q} : link'[y].pPeer = link[y].pPeer
      /\ link'[q].pPeer = Null
  BY <1>1, <1>4 DEF Unpeers, SameMemories, SameMemory
<1> SUFFICES ASSUME Open(o)', link'[o].pPeer = p PROVE Open(p)' /\ (link'[p].pPeer = o \/ link'[p].locked)
  BY DEF Agrees
<1>6. o # q /\ Open(o) /\ link[o].pPeer = p
  BY <1>2, <1>5 DEF Open
<1>7. Open(p) /\ (link[p].pPeer = o \/ link[p].locked)
  BY <1>6 DEF Agrees
<1>8. p # x
  BY <1>3, <1>6 DEF PointsBack
<1>9. link[p].pPeer = o => p # q
  <2>1. o # x
    BY <1>2, <1>3, <1>6 DEF PointsBack
  <2> QED
    BY <1>2, <1>3, <2>1 DEF PointsBack
<1> QED
  BY <1>5, <1>7, <1>8, <1>9 DEF Open

(* and so does every other step. *)
LEMMA NextPeersAgree ==
    ASSUME BaseInv, MemInv, CustodyInv, PeersInv, Next
    PROVE  PeersAgree'
<1>0. IInv /\ IInv'
  BY NextIInv DEF BaseInv
<1> SUFFICES ASSUME NEW o \in Objs, NEW p \in Objs PROVE Agrees(o, p)'
  <2>1. \A o \in Objs : link'[o].pPeer \in Objs \cup {Null}
    BY <1>0 DEF IInv, TypeInv, TypeOK, LinkRecords
  <2> QED
    BY <2>1 DEF PeersAgree, Agrees, Open
<1>1. p # Null /\ o # Null /\ \A y \in Objs : Agrees(o, y)
  BY ConstantsOK DEF PeersInv, PeersAgree, Agrees, Open
<1>2. ASSUME SameTable PROVE Agrees(o, p)'
  BY <1>1, <1>2 DEF SameTable, SameLink, Agrees, Open
<1>3. ASSUME NEW t \in Threads, NEW x \in Objs, Allocates(t, x) PROVE Agrees(o, p)'
  <2>1. ~Open(x)
    BY <1>3, AllocatesUnused DEF MemInv
  <2>2. link'[x].pPeer = Null /\ \A y \in Objs \ {x} : SameLink(y)
    BY <1>3 DEF Allocates, OtherLinks
  <2> QED
    BY <1>1, <2>1, <2>2 DEF SameLink, Agrees, Open
<1>4. ASSUME NEW t \in Threads, NEW x \in Objs, GivesUp(t, x) \/ Closed(t, x) PROVE Agrees(o, p)'
  <2>1. ~Open(x)' /\ \A y \in Objs \ {x} : SameLink(y)
    BY <1>4 DEF GivesUp, Closed, Leaks, Frees, Ends, OtherLinks, Open
  <2>2. link[x].pPeer = Null
    BY <1>4 DEF GivesUp, Closed, PeersInv, FreeOK
  <2>3. ~link[x].locked
    <3>1. CASE GivesUp(t, x)
      BY <1>4, <3>1, WorkedLink, WorkedUnlocked DEF GivesUp, PeersInv
    <3>2. CASE Closed(t, x)
      <4>1. t \in Users /\ x = op[t].obj /\ Closes(t) /\ pc[t] = "freeLink"
        BY <3>2 DEF Closed, Closes, CloseLabels
      <4> QED
        BY <4>1, LockedBy DEF PeersInv
    <3> QED
      BY <1>4, <3>1, <3>2
  <2> QED
    BY <1>1, <2>1, <2>2, <2>3 DEF SameLink, Agrees, Open
<1>5. ASSUME NEW t \in Threads, NEW x \in Objs, NEW c \in Objs, Pairs(t, x, c) PROVE Agrees(o, p)'
  <2>1. Worked(x) /\ Worked(c) /\ Open(x) /\ Open(c) /\ ~link[x].locked /\ ~link[c].locked
    BY <1>5, PairsWorked, WorkedUnlocked DEF CustodyInv, WorkOK, PeersInv
  <2>2. /\ link[x].pPeer = Null /\ link[c].pPeer = Null /\ link'[x].pPeer = c /\ link'[c].pPeer = x
        /\ \A y \in Objs \ {x, c} : link'[y].pPeer = link[y].pPeer
        /\ \A y \in Objs : link'[y].mem = link[y].mem /\ link'[y].locked = link[y].locked
    BY <1>5 DEF Pairs, SameMemories, SameMemory
  <2>3. CASE o = x \/ o = c
    BY <2>1, <2>2, <2>3 DEF Agrees, Open
  <2>4. CASE o # x /\ o # c
    BY <1>1, <2>1, <2>2, <2>4 DEF Agrees, Open
  <2> QED
    BY <2>3, <2>4
<1>6. ASSUME NEW t \in Users, Locks(t) PROVE Agrees(o, p)'
  <2>1. PICK x \in Objs : x = op[t].obj
    BY <1>6 DEF Locks
  <2>2. /\ link'[x].pPeer = Null /\ link'[x].locked /\ \A y \in Objs : link'[y].mem = link[y].mem
        /\ \A y \in Objs \ {x} : SameLink(y)
    BY <1>6, <2>1 DEF Locks, OtherLinks, SameMemories, SameMemory
  <2> QED
    BY <1>1, <2>2 DEF SameLink, Agrees, Open
<1>7. ASSUME NEW t \in Users, Unpeers(t) PROVE Agrees(o, p)'
  BY <1>1, <1>7, UnpeersAgree
<1> QED
  BY <1>0, <1>2, <1>3, <1>4, <1>5, <1>6, <1>7, NextTableStep DEF TableStep

(* The peer pointers stay in order. *)
LEMMA NextPeersInv == ASSUME BaseInv, MemInv, CustodyInv, PeersInv, Next PROVE PeersInv'
<1>1. LockedOK' /\ NoSelfPeer' /\ FreeOK'
  BY NextLockedOK, NextNoSelfPeer, NextFreeOK DEF BaseInv, PeersInv
<1> QED
  BY <1>1, NextClearOK, NextPeersAgree DEF PeersInv

-----------------------------------------------------------------------------
(* The invariant holds at first, when no link object is allocated and every thread is idle or has ended, *)
LEMMA InitTeardown == ASSUME Init PROVE TeardownInv
<1>0. IInv
  BY InitIInv
<1>1. /\ \A o \in Objs : ~Open(o) /\ ~Allocated(o) /\ link[o].pPeer = Null /\ ~link[o].locked
      /\ \A i \in Slots : tbl[i] = Null
  BY DEF Init, Unused, Open, Allocated
<1>2. /\ \A t \in Users : pc[t] = "idle" /\ op[t] = NoOp /\ op[t].api = "none"
      /\ \A t \in Services : pc[t] = "exited"
  BY ConstantsOK DEF Init, Threads, NoOp
<1>3. /\ \A s \in Services : ~srv[s].online /\ EmptyLists(s)
      /\ accepted = {} /\ owned = {}
  BY DEF Init, Offline, EmptyLists
<1>4. \A t \in Threads : ~Works(t) /\ pc[t] # "track"
  BY <1>2 DEF Works, WorkLabels, Threads
<1>5. \A t \in Users : ~Closes(t) /\ pc[t] \notin AcceptLabels /\ ~InCall(t, Teardown) /\ ~InCall(t, {"offline"})
  BY <1>2 DEF Closes, CloseLabels, AcceptLabels, InCall, Teardown
<1>6. CallsInv
  BY <1>2, <1>5 DEF CallsInv, Excludes, LabelOK, IdleOK
<1>7. MemInv
  <2>1. FreshMem
    BY <1>1, <1>2 DEF FreshMem, Objs
  <2>2. TableOK
    BY <1>1 DEF TableOK
  <2>3. CountOK
    <3>1. {i \in Slots : tbl[i] # Null} = {} /\ Counting = {}
      BY <1>1, <1>2 DEF Counting
    <3>2. IsFiniteSet({}) /\ Cardinality({}) = 0 /\ LinkCount = 0
      BY FS_EmptySet DEF Init
    <3> QED
      BY <3>1, <3>2 DEF CountOK, CountTruthful
  <2> QED
    BY <2>1, <2>2, <2>3 DEF MemInv
<1>8. CustodyInv
  <2>1. \A s \in Services : ListsOK(s)
    BY <1>3, ConstantsOK DEF ListsOK, Listed, Distinct, EmptyLists
  <2> QED
    BY <1>3, <1>4, <1>5, <2>1 DEF CustodyInv, WorkOK, Worked, KeptOK, Kept, CloseOK, OneCloser, ListOK
<1>9. ServiceInv
  BY <1>1, <1>2, <1>3, <1>4, <1>5 DEF ServiceInv, TrackOK, RememberedOK, OnlineOK
<1>10. PeersInv
  <2>1. \A t \in Users : pc[t] \notin {"clearPeer", "freeLink"}
    BY <1>2
  <2> QED
    BY <1>1, <2>1, ConstantsOK DEF PeersInv, LockedOK, NoSelfPeer, ClearOK, FreeOK, PeersAgree
<1> QED
  BY <1>0, <1>6, <1>7, <1>8, <1>9, <1>10 DEF TeardownInv, BaseInv

(* and every step keeps it. *)
LEMMA SameTeardown == ASSUME TeardownInv, UNCHANGED vars PROVE TeardownInv'
<1>1. IInv'
  BY NextIInv DEF TeardownInv, BaseInv
<1> USE DEF vars
<1>2. CallsInv'
  BY DEF TeardownInv, BaseInv, CallsInv, Excludes, LabelOK, IdleOK, InCall
<1>3. MemInv'
  BY DEF TeardownInv, MemInv, FreshMem, Allocated, TableOK, SlotOK, CountOK, CountTruthful, Counting, Open
<1>4. WorkOK' /\ KeptOK' /\ CloseOK'
  BY DEF TeardownInv, CustodyInv, WorkOK, Worked, Works, Closing, Closes, Listed, KeptOK, Kept, ClosedByService, AcceptedBy,
         CloseOK, OneCloser, ClosesRightly, InCall, Open
<1>5. ListOK'
  BY DEF TeardownInv, CustodyInv, ListOK, ListsOK, Listed, AcceptedBy, Distinct, Open
<1>6. TrackOK' /\ RememberedOK'
  BY DEF TeardownInv, ServiceInv, TrackOK, RememberedOK, Listed, ClosesFor, Closes, InCall, Open
<1>7. OnlineOK'
  BY DEF TeardownInv, ServiceInv, OnlineOK, DaemonRuns, EmptyLists, InCall
<1>8. PeersInv'
  BY DEF TeardownInv, PeersInv, LockedOK, NoSelfPeer, ClearOK, PointsBack, Worked, Works, Allocated, FreeOK, PeersAgree, Open
<1> QED
  BY <1>1, <1>2, <1>3, <1>4, <1>5, <1>6, <1>7, <1>8 DEF TeardownInv, BaseInv, CustodyInv, ServiceInv

(* A step of the program keeps all of it. *)
LEMMA NextTeardown ==
    ASSUME TeardownInv, ~ClosesAll, [Next]_vars
    PROVE  TeardownInv'
<1>1. CASE Next
  <2>1. BaseInv /\ MemInv /\ CustodyInv /\ ServiceInv /\ PeersInv /\ TrackOK
    BY DEF TeardownInv, ServiceInv
  <2>2. BaseInv'
    BY <1>1, <2>1, NextIInv, NextCallsInv DEF BaseInv, IInv
  <2>3. MemInv' /\ CustodyInv'
    BY <1>1, <2>1, NextMemInv, NextCustodyInv
  <2>4. ServiceInv' /\ PeersInv'
    BY <1>1, <2>1, NextServiceInv, NextPeersInv
  <2> QED
    BY <2>2, <2>3, <2>4 DEF TeardownInv
<1>2. CASE UNCHANGED vars
  BY <1>2, SameTeardown
<1> QED
  BY <1>1, <1>2

-----------------------------------------------------------------------------
(* An open link's peer is open and points back, but while one of the two is being closed: events, commands *)
(* and data that follow pPeer reach the other end, and no closer leaves a pointer to a link it has freed.    *)
THEOREM PeersAgreeHolds == ASSUME ~ClosesAll PROVE Spec => []PeersAgree
<1>1. Init => TeardownInv
  BY InitTeardown
<1>2. TeardownInv /\ [Next]_vars => TeardownInv'
  BY NextTeardown
<1>3. TeardownInv => PeersAgree
  BY DEF TeardownInv, PeersInv
<1> QED
  BY <1>1, <1>2, <1>3, PTL DEF Spec

(* When a service is offline, no link that it remembered is open: whatever its daemon and the callers of     *)
(* acceptClient entered in its arrays, offlineService found there and closed.                                *)
THEOREM OfflineClosesAcceptedHolds == ASSUME ~ClosesAll PROVE Spec => []OfflineClosesAccepted
<1>1. Init => TeardownInv
  BY InitTeardown
<1>2. TeardownInv /\ [Next]_vars => TeardownInv'
  BY NextTeardown
<1>3. TeardownInv => OfflineClosesAccepted
  <2> SUFFICES ASSUME TeardownInv, NEW s \in Services \ KeepAccepted, ~srv[s].online, NEW a \in accepted,
                      a.srv = s, a.remembered, Open(a.server)
               PROVE  FALSE
    BY DEF OfflineClosesAccepted, Open
  <2>1. a.server \in Objs /\ a.server # Null
    BY ConstantsOK DEF TeardownInv, BaseInv, IInv, TypeInv, TypeOK
  <2>2. EmptyLists(s)
    BY DEF TeardownInv, ServiceInv, OnlineOK
  <2>3. ~Listed(s, a.server)
    BY <2>1, <2>2 DEF EmptyLists, Listed
  <2>4. ~ClosesFor(s, a.server)
    BY DEF TeardownInv, ServiceInv, OnlineOK, ClosesFor, Closes, CloseLabels
  <2> QED
    BY <2>3, <2>4 DEF TeardownInv, ServiceInv, RememberedOK
<1> QED
  BY <1>1, <1>2, <1>3, PTL DEF Spec

(* What IOC_getLinkCount returns is the number of slots that are taken and of links that threads have freed *)
(* and not yet counted, however connects, accepts, closes and offlines interleave.                          *)
THEOREM CountTruthfulHolds == ASSUME ~ClosesAll PROVE Spec => []CountTruthful
<1>1. Init => TeardownInv
  BY InitTeardown
<1>2. TeardownInv /\ [Next]_vars => TeardownInv'
  BY NextTeardown
<1>3. TeardownInv => CountTruthful
  BY DEF TeardownInv, MemInv, CountOK
<1> QED
  BY <1>1, <1>2, <1>3, PTL DEF Spec

=============================================================================
