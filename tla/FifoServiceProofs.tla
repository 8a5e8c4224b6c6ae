
-------------------------- MODULE FifoServiceProofs --------------------------
(***************************************************************************)
(* Proofs about FifoService, for every set of threads, services, usages    *)
(* and calls, every size of the tables, and whether or not the application *)
(* closes links that their service would close.                            *)
(*                                                                         *)
(* The argument: a connector or acceptor works on a link object of its     *)
(* own, <<t, calls[t]>>, that no acceptance has involved yet; an offer is  *)
(* the object of the connector that waits for it, and ceases to be one in  *)
(* the step that involves it in an acceptance.  So each object is taken    *)
(* once, and a connector that is woken with a peer was accepted.           *)
(***************************************************************************)
EXTENDS FifoService, WellFoundedInduction, TLAPS

DaemonLabels == {"exited", "daemon", "poll", "waitNewConn", "track"}
UserLabels == Labels \ {"exited", "daemon"}
UninvolvedLabels == {"connect", "findService", "lockConn", "accept", "poll", "waitNewConn"}
OwnObjLabels == UninvolvedLabels \cup {"waitAccepted", "track"}
WithLinkLabels == {"findService", "lockConn", "waitAccepted", "poll", "waitNewConn", "track",
                   "close", "lockLink", "clearPeer", "freeLink", "aborted"}

(* A user is in a call with its arguments, a daemon accepts for its service; a connector and an *)
(* acceptor work on the object that the thread allocated last.                                   *)
ThreadOK(t) ==
    /\ t \in Users => /\ pc[t] \in UserLabels
                      /\ pc[t] # "idle" => op[t].srv \in Services /\ op[t].obj \in Objs
                      /\ pc[t] = "clearPeer" => op[t].peer \in Objs
    /\ t \in Services => pc[t] \in DaemonLabels /\ (pc[t] # "exited" => op[t].srv = t)
    /\ pc[t] \in OwnObjLabels => op[t].obj = <<t, calls[t]>> /\ calls[t] > 0
OpOK == \A t \in Threads : ThreadOK(t)

(* Whatever refers to a link object refers to one that was allocated, and so has an ID. *)
Allocated(o) == link[o].mem # "none"
LinksOK ==
    /\ \A o \in Objs : Allocated(o) => link[o].id \in Slots
    /\ \A o \in owned : Allocated(o)
    /\ \A i \in Slots : tbl[i] # Null => Allocated(tbl[i])
    /\ \A t \in Threads : pc[t] \in WithLinkLabels => Allocated(op[t].obj)
    /\ \A s \in Services : \A i \in 1 .. MaxDaemon :
          srv[s].DaemonAccept[i] # Null => Allocated(srv[s].DaemonAccept[i])

(* The link objects that an acceptance involved, and those that none did yet. *)
Involved(o) == \E a \in accepted : o = a.client \/ o = a.server
FreshOK ==
    /\ \A t \in Threads, n \in 1 .. MaxObjs : Involved(<<t, n>>) => n <= calls[t]
    /\ \A t \in Threads : pc[t] \in UninvolvedLabels => ~Involved(op[t].obj)
    /\ \A s \in Services : srv[s].pConnLinkObj # Null => ~Involved(srv[s].pConnLinkObj)
    /\ \A o \in Objs : link[o].pPeer # Null => Involved(o)
    /\ \A t \in Threads : pc[t] = "waitAccepted" => \A a \in accepted : a.server # op[t].obj

(* An acceptance involves one client and one server, in roles that answer each other. *)
Answers(a) == /\ link[a.server].usage # {}
              /\ \A r \in link[a.server].usage : Peer[r] \in link[a.client].usage
AcceptedOK ==
    /\ \A a, b \in accepted : a.server = b.server \/ a.client = b.client => a = b
    /\ \A a \in accepted : Answers(a)
    /\ \A o \in Users \X (1 .. MaxObjs) : link[o].ConnState = "Connected" => \E a \in accepted : a.client = o

(* TypeInv is inductive, Rendezvous is inductive given TypeInv, and the rest given both. *)
TypeInv == TypeOK /\ OpOK /\ LinksOK
IInv == TypeInv /\ Rendezvous /\ FreshOK /\ AcceptedOK

(* The link that IOC_offlineService closes next, from each array. *)
DaemonEntry(t) == FirstEntry(srv[op[t].srv].DaemonAccept)
DaemonLink(t) == srv[op[t].srv].DaemonAccept[DaemonEntry(t)]
ManualEntry(t) == FirstEntry(srv[op[t].srv].ManualAccept)
ManualId(t) == srv[op[t].srv].ManualAccept[ManualEntry(t)]
ManualLink(t) == tbl[ManualId(t)]

-----------------------------------------------------------------------------
(* The assumptions on the constants, under one name. *)
LEMMA ConstantsOK ==
    /\ Users \cap Services = {} /\ Null \notin Threads /\ Null \notin Objs /\ Null \notin Slots
    /\ UserOps \subseteq Ops /\ Capabilities \in [Services -> SUBSET Roles]
    /\ MaxLinks \in Nat \ {0} /\ MaxManual \in Nat /\ MaxDaemon \in Nat
    /\ MaxCalls \in Nat /\ MaxObjs \in Nat /\ MaxCalls <= MaxObjs
BY NamesAssumption, OpsAssumption, ServicesAssumption, BoundsAssumption

(* A set of naturals that is not empty has a least element. *)
LEMMA SmallestNat ==
    ASSUME NEW S \in SUBSET Nat, S # {}
    PROVE  \E k \in S : \A j \in S : k <= j
<1> DEFINE R == OpToRel(<, Nat)
<1>1. PICK k \in S : \A j \in S : <<j, k>> \notin R
  BY NatLessThanWellFounded, WFMin
<1>2. ASSUME NEW j \in S PROVE k <= j
  <2>1. <<j, k>> \notin {ss \in Nat \X Nat : ss[1] < ss[2]}
    BY <1>1 DEF OpToRel
  <2>2. ~(j < k)
    BY <2>1
  <2> QED BY <2>2
<1> QED BY <1>1, <1>2

(* The slot that allocLinkObj takes is a free one, and the entry that offline closes is taken. *)
LEMMA FirstFreeIsFree == FreeSlots # {} => FirstFree \in Slots /\ tbl[FirstFree] = Null
<1>1. FreeSlots \in SUBSET Nat
  BY ConstantsOK DEF FreeSlots, Slots
<1> QED BY <1>1, SmallestNat DEF FirstFree, FreeSlots

(* The entry that IOC_offlineService closes next holds a link. *)
LEMMA FirstEntryIsTaken ==
    ASSUME NEW n \in Nat, NEW X, NEW array \in [1 .. n -> X], Entries(array) # {}
    PROVE  FirstEntry(array) \in 1 .. n /\ array[FirstEntry(array)] # Null
<1>1. Entries(array) \in SUBSET Nat
  BY DEF Entries
<1>2. FirstEntry(array) \in Entries(array)
  BY <1>1, SmallestNat DEF FirstEntry
<1> QED BY <1>2 DEF Entries

(* Remembering a link changes at most one entry, from Null to that link. *)
LEMMA EnterType ==
    ASSUME NEW n \in Nat, NEW X, NEW array \in [1 .. n -> X], NEW x \in X
    PROVE  /\ Enter(array, x) \in [1 .. n -> X]
           /\ \A i \in 1 .. n : Enter(array, x)[i] \in {array[i], x}
BY DEF Enter

(* What a step can be. *)
UserAction(t) ==
    CallApi(t) \/ allocConnecting(t) \/ findService(t) \/ offerConnection(t) \/
    finishConnect(t) \/ refuseAccept(t) \/ allocAccepting(t) \/ trackManual(t) \/ closeLink(t) \/
    lockLink(t) \/ clearPeer(t) \/ freeLink(t) \/ countFreed(t) \/ offlineService(t) \/ joinDaemon(t) \/
    closeDaemonLink(t) \/ closeManualLink(t) \/ finishOffline(t) \/ acceptTimedOut(t)
DaemonAction(t) == daemonAlloc(t) \/ daemonExit(t) \/ trackDaemon(t)
AcceptAction(t) == noOffer(t) \/ rejectOffer(t) \/ acceptOffer(t) \/ wakeAcceptor(t)
(* Next, by the thread that acts. *)
LEMMA NextIsAction ==
    ASSUME Next
    PROVE  \E t \in Threads : \/ t \in Users /\ (onlineService(t) \/ UserAction(t))
                              \/ t \in Services /\ DaemonAction(t)
                              \/ AcceptAction(t)
BY DEF Next, UserStep, Connect, Accept, Close, GoOffline, DaemonStep, Threads, UserAction, DaemonAction,
       AcceptAction

-----------------------------------------------------------------------------
(* The next object of a thread that has one left. *)
LEMMA NextObj ==
    ASSUME calls \in [Threads -> 0 .. MaxObjs], NEW t \in Threads, calls[t] < MaxObjs
    PROVE  <<t, calls[t] + 1>> \in Objs /\ calls[t] + 1 \in 1 .. MaxObjs
BY ConstantsOK DEF Objs

TblType == tbl \in [Slots -> Objs \cup {Null}] /\ LinkCount \in Nat
LinkType == link \in [Objs -> LinkRecords]
SrvType == srv \in [Services -> SrvRecords]
CtlType == pc \in [Threads -> Labels] /\ op \in [Threads -> OpRecords] /\ result \in [Threads -> Results]
AppType == /\ calls \in [Threads -> 0 .. MaxObjs] /\ owned \subseteq Objs
           /\ accepted \subseteq [srv : Services, server : Objs, client : Objs, remembered : BOOLEAN]

(* A connector or an acceptor works on an object of its own, for a service. *)
LEMMA OwnObj ==
    ASSUME OpOK, AppType, NEW t \in Threads, pc[t] \in OwnObjLabels
    PROVE  op[t].obj = <<t, calls[t]>> /\ calls[t] \in 1 .. MaxObjs /\ op[t].obj \in Objs /\ op[t].srv \in Services
<1>1. op[t].obj = <<t, calls[t]>> /\ calls[t] \in 1 .. MaxObjs
  BY ConstantsOK DEF OpOK, ThreadOK, Threads, AppType
<1>2. op[t].obj \in Objs
  BY <1>1 DEF Objs
<1>3. op[t].srv \in Services
  BY DEF OpOK, ThreadOK, Threads, OwnObjLabels, UninvolvedLabels
<1> QED BY <1>1, <1>2, <1>3

(* Link objects stay what they are, and keep their IDs while they are allocated. *)
LinkStep ==
    /\ LinkType'
    /\ \A o \in Objs :
          /\ Allocated(o) => Allocated(o)'
          /\ link'[o].id = link[o].id \/ link'[o].id \in Slots
          /\ Allocated(o)' => Allocated(o) \/ link'[o].id \in Slots

(* A link object that does not change takes a step. *)
LEMMA SameLinkStep == ASSUME LinkType, link' = link PROVE LinkStep
BY DEF LinkType, LinkStep, Allocated

(* Freeing a link object empties its slot. *)
LEMMA FreeTblStep ==
    ASSUME TblType, NEW o, freeLinkObj(o)
    PROVE  TblType'
<1>1. tbl' \in [Slots -> Objs \cup {Null}]
  BY DEF freeLinkObj, TblType
<1>2. LinkCount' \in Nat
  BY DEF freeLinkObj, TblType
<1> QED BY <1>1, <1>2 DEF TblType

(* A link object whose fields change is a link object. *)
LEMMA NewLinkStep ==
    ASSUME LinkType, NEW o \in Objs, NEW id \in Slots, NEW u \in SUBSET Roles, NEW c \in {"Connecting", "Disconnected"},
           NEW b \in BOOLEAN,
           link' = [link EXCEPT ![o] = [Unused EXCEPT !.mem = "open", !.id = id, !.pMethods = b, !.usage = u,
                                                      !.ConnState = c]]
    PROVE  LinkStep
<1> DEFINE new == [Unused EXCEPT !.mem = "open", !.id = id, !.pMethods = b, !.usage = u, !.ConnState = c]
<1>1. Unused \in LinkRecords
  BY ConstantsOK DEF Unused, LinkRecords
<1>2. id \in 0 .. MaxLinks
  BY ConstantsOK DEF Slots
<1>3. new \in LinkRecords
  BY <1>1, <1>2 DEF LinkRecords
<1>4. new.mem = "open" /\ new.id = id
  BY DEF Unused
<1>5. link' = [link EXCEPT ![o] = new]
  OBVIOUS
<1> HIDE DEF new
<1> QED BY <1>3, <1>4, <1>5 DEF LinkType, LinkStep, Allocated

(* Closing or freeing a link object is a step of link objects. *)
LEMMA MemStep ==
    ASSUME LinkType, NEW o \in Objs, Allocated(o), NEW m \in {"open", "closed", "freed"},
           link' = [link EXCEPT ![o].mem = m]
    PROVE  LinkStep
<1>1. LinkType'
  BY DEF LinkType, LinkRecords
<1>2. \A q \in Objs : (link'[q].mem = "none" <=> link[q].mem = "none") /\ link'[q].id = link[q].id
  BY DEF LinkType, LinkRecords, Allocated
<1>3. \A q \in Objs : /\ Allocated(q) => Allocated(q)'
                      /\ link'[q].id = link[q].id \/ link'[q].id \in Slots
                      /\ Allocated(q)' => Allocated(q) \/ link'[q].id \in Slots
  BY <1>2 DEF Allocated
<1> QED BY <1>1, <1>3 DEF LinkStep

(* A link object that is allocated can become connected or begin to disconnect. *)
LEMMA ConnStateStep ==
    ASSUME LinkType, NEW o \in Objs, NEW c \in {"Connected", "Disconnecting"}, link' = [link EXCEPT ![o].ConnState = c]
    PROVE  LinkStep
<1>1. LinkType'
  BY DEF LinkType, LinkRecords
<1>2. \A q \in Objs : link'[q].mem = link[q].mem /\ link'[q].id = link[q].id
  BY DEF LinkType, LinkRecords
<1>3. \A q \in Objs : /\ Allocated(q) => Allocated(q)'
                      /\ link'[q].id = link[q].id \/ link'[q].id \in Slots
                      /\ Allocated(q)' => Allocated(q) \/ link'[q].id \in Slots
  BY <1>2 DEF Allocated
<1> QED BY <1>1, <1>3 DEF LinkStep

(* It gets its methods alone or in the same step. *)
LEMMA MethodsStep ==
    ASSUME LinkType, NEW o \in Objs,
           \/ link' = [link EXCEPT ![o].pMethods = TRUE]
           \/ link' = [link EXCEPT ![o].pMethods = TRUE, ![o].ConnState = "Connected"]
    PROVE  LinkStep
<1>a. ASSUME NEW b \in BOOLEAN PROVE [link EXCEPT ![o].pMethods = b] \in [Objs -> LinkRecords]
  BY DEF LinkType, LinkRecords
<1>0. [link EXCEPT ![o].pMethods = TRUE] \in [Objs -> LinkRecords]
  BY <1>a
<1>1. PICK l \in [Objs -> LinkRecords] : l = [link EXCEPT ![o].pMethods = TRUE]
  BY <1>0
<1>2. link' = l \/ link' = [l EXCEPT ![o].ConnState = "Connected"]
  BY <1>1
<1>3. [l EXCEPT ![o].ConnState = "Connected"] \in [Objs -> LinkRecords]
  BY DEF LinkRecords
<1>4. LinkType'
  BY <1>1, <1>2, <1>3 DEF LinkType
<1>5. \A q \in Objs : link'[q].mem = link[q].mem /\ link'[q].id = link[q].id
  BY DEF LinkType, LinkRecords
<1> QED BY <1>4, <1>5 DEF LinkStep, Allocated

(* Locking the Mutex of a link and dropping its peer is a step of link objects. *)
LEMMA LockStep ==
    ASSUME LinkType, NEW o \in Objs, link' = [link EXCEPT ![o].pPeer = Null, ![o].locked = TRUE]
    PROVE  LinkStep
<1>1. LinkType'
  <2>1. link \in [Objs -> LinkRecords]
    BY DEF LinkType
  <2>2. [[link[o] EXCEPT !.pPeer = Null] EXCEPT !.locked = TRUE] \in LinkRecords
    BY <2>1 DEF LinkRecords
  <2>3. link' = [link EXCEPT ![o] = [[link[o] EXCEPT !.pPeer = Null] EXCEPT !.locked = TRUE]]
    BY <2>1
  <2> QED
    BY <2>1, <2>2, <2>3 DEF LinkType
<1>2. \A q \in Objs : link'[q].mem = link[q].mem /\ link'[q].id = link[q].id
  BY DEF LinkType, LinkRecords
<1>3. \A q \in Objs : /\ Allocated(q) => Allocated(q)'
                      /\ link'[q].id = link[q].id \/ link'[q].id \in Slots
                      /\ Allocated(q)' => Allocated(q) \/ link'[q].id \in Slots
  BY <1>2 DEF Allocated
<1> QED BY <1>1, <1>3 DEF LinkStep

(* Unlocking it, and clearing the pointer of the peer, is one too. *)
LEMMA UnlockStep ==
    ASSUME LinkType, NEW o \in Objs, NEW p \in Objs,
           \/ link' = [link EXCEPT ![o].locked = FALSE]
           \/ link' = [link EXCEPT ![o].locked = FALSE, ![p].pPeer = Null]
    PROVE  LinkStep
<1>a. ASSUME NEW b \in BOOLEAN PROVE [link EXCEPT ![o].locked = b] \in [Objs -> LinkRecords]
  BY DEF LinkType, LinkRecords
<1>0. [link EXCEPT ![o].locked = FALSE] \in [Objs -> LinkRecords]
  BY <1>a
<1>1. PICK l \in [Objs -> LinkRecords] : l = [link EXCEPT ![o].locked = FALSE]
  BY <1>0
<1>2. link' = l \/ link' = [l EXCEPT ![p].pPeer = Null]
  BY <1>1
<1>3. [l EXCEPT ![p].pPeer = Null] \in [Objs -> LinkRecords]
  BY DEF LinkRecords
<1>4. LinkType'
  BY <1>1, <1>2, <1>3 DEF LinkType
<1>5. \A q \in Objs : link'[q].mem = link[q].mem /\ link'[q].id = link[q].id
  BY DEF LinkType, LinkRecords
<1> QED BY <1>4, <1>5 DEF LinkStep, Allocated

(* So is becoming the peers of each other. *)
LEMMA PeerStep ==
    ASSUME LinkType, NEW o \in Objs, NEW p \in Objs, NEW u \in SUBSET Roles, NEW copied \in BOOLEAN,
           link' = [link EXCEPT ![o].pPeer = p, ![o].usage = u, ![o].pMethods = @ \/ copied, ![p].pPeer = o]
    PROVE  LinkStep
<1>1. PICK b \in BOOLEAN : b = (link[o].pMethods \/ copied)
  OBVIOUS
<1>2. PICK l : l = [link EXCEPT ![o].pPeer = p, ![o].usage = u, ![o].pMethods = b]
  OBVIOUS
<1>3. [[[link[o] EXCEPT !.pPeer = p] EXCEPT !.usage = u] EXCEPT !.pMethods = b] \in LinkRecords
  BY DEF LinkType, LinkRecords
<1>4. l = [link EXCEPT ![o] = [[[link[o] EXCEPT !.pPeer = p] EXCEPT !.usage = u] EXCEPT !.pMethods = b]]
  BY <1>2 DEF LinkType
<1>5. l \in [Objs -> LinkRecords]
  BY <1>3, <1>4 DEF LinkType
<1>6. link' = [l EXCEPT ![p].pPeer = o]
  BY <1>1, <1>2 DEF LinkType, LinkRecords
<1>7. LinkType'
  BY <1>5, <1>6 DEF LinkType, LinkRecords
<1>8. \A q \in Objs : link'[q].mem = link[q].mem /\ link'[q].id = link[q].id
  BY DEF LinkType, LinkRecords
<1> QED BY <1>7, <1>8 DEF LinkStep, Allocated

(* The table holds link objects. *)
LEMMA NextTblType == ASSUME TypeInv, Next PROVE TblType'
<1>0. tbl \in [Slots -> Objs \cup {Null}] /\ LinkCount \in Nat /\ OpOK /\ AppType /\ TblType
  BY DEF TypeInv, TypeOK, AppType, TblType
<1>1. ASSUME NEW t \in Users, allocConnecting(t) PROVE TblType'
  BY <1>0, <1>1, FirstFreeIsFree DEF allocConnecting, Return, Goto, allocLinkObj, tblVars, OpOK,
       ThreadOK, Threads, TblType
<1>2. ASSUME NEW t \in Users, allocAccepting(t) PROVE TblType'
  BY <1>0, <1>2, FirstFreeIsFree DEF allocAccepting, allocLinkObj, Goto, tblVars, OpOK, ThreadOK,
       Threads, TblType
<1>3. ASSUME NEW t \in Users, freeLink(t) PROVE TblType'
  BY <1>0, <1>3 DEF freeLink, freeLinkObj, Goto, Return, tblVars, TblType
<1>4. ASSUME NEW t \in Users, acceptTimedOut(t) PROVE TblType'
  BY <1>0, <1>4, FreeTblStep DEF acceptTimedOut, tblVars, TblType
<1>7. ASSUME NEW t \in Users, countFreed(t) PROVE TblType'
  BY <1>0, <1>7 DEF countFreed, TblType
<1>5. ASSUME NEW t \in Services, daemonAlloc(t) PROVE TblType'
  BY <1>0, <1>5, FirstFreeIsFree, NextObj DEF daemonAlloc, allocLinkObj, Goto, tblVars, AppType,
       Threads, TblType
<1>6. ASSUME NEW t \in Threads, CallApi(t) \/ onlineService(t) \/ findService(t) \/
             offerConnection(t) \/ finishConnect(t) \/ refuseAccept(t) \/ noOffer(t) \/
             rejectOffer(t) \/ acceptOffer(t) \/ wakeAcceptor(t) \/ trackManual(t) \/ closeLink(t) \/
             lockLink(t) \/ clearPeer(t) \/ offlineService(t) \/ joinDaemon(t) \/ closeDaemonLink(t) \/
             closeManualLink(t) \/ finishOffline(t) \/ daemonExit(t) \/ trackDaemon(t) PROVE TblType'
  BY <1>0, <1>6 DEF CallApi, Goto, Ops, MayClose, onlineService, Return, findService, failConnect,
       offerConnection, finishConnect, refuseAccept, noOffer, rejectOffer, takeOffer, acceptOffer, Role,
       negotiateLinkRole, wakeAcceptor, trackManual, closeLink, beginClose, getLinkObj, lockLink,
       clearPeer, unpeer, offlineService, joinDaemon, closeDaemonLink, closeManualLink, finishOffline,
       daemonExit, trackDaemon, TblType, tblVars
<1> QED BY NextIsAction, <1>1, <1>2, <1>3, <1>4, <1>5, <1>6, <1>7 DEF UserAction, DaemonAction,
     AcceptAction, Threads

(* Link objects stay link objects. *)
LEMMA NextLink == ASSUME TypeInv, Next PROVE LinkStep
<1>0. TypeOK /\ LinkType /\ OpOK /\ AppType /\ SrvType /\ CtlType /\ TblType /\ LinksOK
  BY DEF TypeInv, TypeOK, LinkType, AppType, SrvType, CtlType, TblType
<1>1. ASSUME NEW t \in Users, allocConnecting(t) PROVE LinkStep
  <2>1. op[t].obj \in Objs
    BY <1>1, <1>0 DEF allocConnecting, Return, Goto, allocLinkObj, OpOK, ThreadOK, Threads
  <2>2. link' = link \/ (FreeSlots # {} /\ link' = [link EXCEPT ![op[t].obj] = [Unused EXCEPT !.mem = "open", !.id = FirstFree,
                                        !.pMethods = FALSE, !.usage = op[t].usage, !.ConnState = "Connecting"]])
    BY <1>1, <1>0 DEF allocConnecting, Return, Goto, allocLinkObj
  <2>3. op[t].usage \in SUBSET Roles
    BY <1>1, <1>0 DEF CtlType, OpRecords, Threads
  <2>4. CASE link' = link
    BY <1>0, <2>4, SameLinkStep
  <2>6. CASE FreeSlots # {} /\ link' # link
    <3>1. PICK o \in Objs, i \in Slots, u \in SUBSET Roles : o = op[t].obj /\ i = FirstFree /\ u = op[t].usage
      BY <2>1, <2>3, <2>6, FirstFreeIsFree
    <3>2. link' = [link EXCEPT ![o] = [Unused EXCEPT !.mem = "open", !.id = i, !.pMethods = FALSE, !.usage = u,
                                                     !.ConnState = "Connecting"]]
      BY <2>2, <2>6, <3>1
    <3> QED BY <1>0, <3>2, NewLinkStep
  <2> QED BY <2>2, <2>4, <2>6
<1>2. ASSUME NEW t \in Users, findService(t) PROVE LinkStep
  <2>1. op[t].obj \in Objs /\ Allocated(op[t].obj)
    BY <1>2, <1>0 DEF findService, Goto, failConnect, Return, OpOK, ThreadOK, Threads, LinksOK,
         WithLinkLabels
  <2>2. link' = link \/ link' = [link EXCEPT ![op[t].obj].mem = "freed"]
    BY <1>2, <1>0 DEF findService, Goto, failConnect, Return
  <2> QED BY <1>0, <2>1, <2>2, MemStep, SameLinkStep
<1>3. ASSUME NEW t \in Users, finishConnect(t) PROVE LinkStep
  <2>1. op[t].obj \in Objs /\ Allocated(op[t].obj)
    BY <1>3, <1>0 DEF finishConnect, failConnect, Return, OpOK, ThreadOK, Threads, LinksOK,
         WithLinkLabels
  <2>2. \/ link' = [link EXCEPT ![op[t].obj].mem = "freed"]
        \/ link' = [link EXCEPT ![op[t].obj].pMethods = TRUE, ![op[t].obj].ConnState = "Connected"]
    BY <1>3, <1>0 DEF finishConnect, failConnect, Return
  <2> QED BY <1>0, <2>1, <2>2, MemStep, MethodsStep
<1>4. ASSUME NEW t \in Users, allocAccepting(t) PROVE LinkStep
  <2>1. op[t].obj \in Objs
    BY <1>4, <1>0 DEF allocAccepting, allocLinkObj, Goto, OpOK, ThreadOK, Threads
  <2>2. (FreeSlots # {} /\ link' = [link EXCEPT ![op[t].obj] = [Unused EXCEPT !.mem = "open", !.id = FirstFree,
                                        !.pMethods = TRUE, !.usage = Capabilities[op[t].srv], !.ConnState = "Disconnected"]])
    BY <1>4, <1>0 DEF allocAccepting, allocLinkObj, Goto
  <2>3. Capabilities[op[t].srv] \in SUBSET Roles
    BY <1>4, <1>0, ConstantsOK DEF allocAccepting, allocLinkObj, Goto, OpOK, ThreadOK, Threads
  <2> QED BY <1>0, <2>1, <2>2, <2>3, FirstFreeIsFree, NewLinkStep, SameLinkStep
<1>5. ASSUME NEW t \in Threads, acceptOffer(t) PROVE LinkStep
  <2>1. op[t].obj \in Objs /\ op[t].srv \in Services
    BY <1>5, <1>0, OwnObj DEF acceptOffer, OwnObjLabels, UninvolvedLabels
  <2>2. srv[op[t].srv].pConnLinkObj \in Objs
    BY <1>5, <1>0, <2>1 DEF acceptOffer, takeOffer, Goto, Role, negotiateLinkRole, SrvType, SrvRecords
  <2>3. Role(op[t].srv) \in SUBSET Roles
    BY <1>5, <2>1, ConstantsOK DEF Role, negotiateLinkRole
  <2>4. PICK copied \in BOOLEAN :
            link' = [link EXCEPT ![op[t].obj].pPeer = srv[op[t].srv].pConnLinkObj, ![op[t].obj].usage = Role(op[t].srv),
                                 ![op[t].obj].pMethods = @ \/ copied, ![srv[op[t].srv].pConnLinkObj].pPeer = op[t].obj]
    BY <1>5 DEF acceptOffer
  <2> QED BY <1>0, <2>1, <2>2, <2>3, <2>4, PeerStep, SameLinkStep
<1>6. ASSUME NEW t \in Users, closeLink(t) PROVE LinkStep
  <2>1. op[t].obj \in Objs /\ Allocated(op[t].obj)
    BY <1>6, <1>0 DEF closeLink, OpOK, ThreadOK, Threads, LinksOK, WithLinkLabels
  <2>2. getLinkObj(op[t].obj) \in Objs \cup {Null}
    BY <1>6, <1>0, <2>1 DEF getLinkObj, LinksOK, TblType
  <2>3. link' = link \/ (getLinkObj(op[t].obj) # Null /\ link' = [link EXCEPT ![getLinkObj(op[t].obj)].ConnState = "Disconnecting"])
    BY <1>6, <1>0 DEF closeLink, beginClose
  <2> QED BY <1>0, <2>1, <2>2, <2>3, ConnStateStep, SameLinkStep
<1>7. ASSUME NEW t \in Users, lockLink(t) PROVE LinkStep
  <2>1. op[t].obj \in Objs
    BY <1>7, <1>0 DEF lockLink, Goto, OpOK, ThreadOK, Threads
  <2>2. link' = link \/ link' = [link EXCEPT ![op[t].obj].pPeer = Null, ![op[t].obj].locked = TRUE]
    BY <1>7, <1>0 DEF lockLink, Goto
  <2> QED BY <1>0, <2>1, <2>2, LockStep, SameLinkStep
<1>8. ASSUME NEW t \in Users, clearPeer(t) PROVE LinkStep
  <2>1. op[t].obj \in Objs /\ op[t].peer \in Objs
    BY <1>8, <1>0 DEF clearPeer, Goto, unpeer, OpOK, ThreadOK, Threads
  <2>2. link' = [link EXCEPT ![op[t].obj].locked = FALSE] \/ link' = [link EXCEPT ![op[t].obj].locked = FALSE, ![op[t].peer].pPeer = Null]
    BY <1>8 DEF clearPeer, Goto, unpeer
  <2> QED BY <1>0, <2>1, <2>2, UnlockStep, SameLinkStep
<1>9. ASSUME NEW t \in Users, freeLink(t) PROVE LinkStep
  <2>1. op[t].obj \in Objs /\ Allocated(op[t].obj)
    BY <1>9, <1>0 DEF freeLink, freeLinkObj, Goto, Return, OpOK, ThreadOK, Threads, LinksOK,
         WithLinkLabels
  <2>2. link' = [link EXCEPT ![op[t].obj].mem = "closed"] \/ link' = [link EXCEPT ![op[t].obj].mem = "freed"]
    BY <1>9, <1>0 DEF freeLink, freeLinkObj, Goto, Return
  <2> QED BY <1>0, <2>1, <2>2, MemStep, SameLinkStep
<1>10. ASSUME NEW t \in Users, closeManualLink(t) PROVE LinkStep
  <2>1. op[t].srv \in Services
    BY <1>10, <1>0 DEF closeManualLink, beginClose, Goto, OpOK, ThreadOK, Threads
  <2>2. srv[op[t].srv].ManualAccept \in [1 .. MaxManual -> Slots \cup {Null}] /\ Entries(srv[op[t].srv].ManualAccept) # {}
    BY <1>10, <1>0, <2>1 DEF closeManualLink, SrvType, SrvRecords
  <2>3. ManualEntry(t) \in 1 .. MaxManual /\ ManualId(t) \in Slots
    BY <1>10, <2>2, ConstantsOK, FirstEntryIsTaken DEF ManualLink, ManualId, ManualEntry
  <2>4. ManualLink(t) \in Objs \cup {Null}
    BY <1>10, <1>0, <2>3 DEF TblType, ManualLink, ManualId, ManualEntry
  <2>5. link' = link \/ (ManualLink(t) # Null /\ link' = [link EXCEPT ![ManualLink(t)].ConnState = "Disconnecting"])
    BY <1>10 DEF closeManualLink, beginClose, ManualLink, ManualId, ManualEntry
  <2> QED BY <1>0, <2>1, <2>2, <2>3, <2>4, <2>5, ConnStateStep, SameLinkStep DEF ManualLink, ManualId,
       ManualEntry
<1>11. ASSUME NEW t \in Users, acceptTimedOut(t) PROVE LinkStep
  <2>1. op[t].obj \in Objs /\ Allocated(op[t].obj)
    BY <1>11, <1>0 DEF acceptTimedOut, freeLinkObj, Return, OpOK, ThreadOK, Threads, LinksOK,
         WithLinkLabels
  <2>2. link' = [link EXCEPT ![op[t].obj].mem = "freed"]
    BY <1>11, <1>0 DEF acceptTimedOut, freeLinkObj, Return
  <2> QED BY <1>0, <2>1, <2>2, MemStep, SameLinkStep
<1>12. ASSUME NEW t \in Services, daemonAlloc(t) PROVE LinkStep
  <2>1. <<t, calls[t] + 1>> \in Objs
    BY <1>12, <1>0, NextObj DEF daemonAlloc, allocLinkObj, Goto, AppType, Threads
  <2>2. FreeSlots # {} /\ link' = [link EXCEPT ![<<t, calls[t] + 1>>] = [Unused EXCEPT !.mem = "open", !.id = FirstFree,
                                        !.pMethods = FALSE, !.usage = {}, !.ConnState = "Disconnected"]]
    BY <1>12 DEF daemonAlloc, allocLinkObj, Goto
  <2> QED BY <1>0, <2>1, <2>2, FirstFreeIsFree, NewLinkStep, SameLinkStep
<1>13. ASSUME NEW t \in Services, trackDaemon(t) PROVE LinkStep
  <2>1. op[t].obj \in Objs
    BY <1>13, <1>0, OwnObj DEF trackDaemon, OwnObjLabels, UninvolvedLabels, Threads
  <2>2. \/ link' = [link EXCEPT ![op[t].obj].pMethods = TRUE]
        \/ link' = [link EXCEPT ![op[t].obj].pMethods = TRUE, ![op[t].obj].ConnState = "Connected"]
    BY <1>13, <1>0 DEF trackDaemon, Goto
  <2> QED BY <1>0, <2>1, <2>2, MethodsStep
<1>14. ASSUME NEW t \in Threads, CallApi(t) \/ onlineService(t) \/ offerConnection(t) \/
              refuseAccept(t) \/ noOffer(t) \/ rejectOffer(t) \/ wakeAcceptor(t) \/ trackManual(t) \/
              offlineService(t) \/ joinDaemon(t) \/ closeDaemonLink(t) \/ finishOffline(t) \/
              daemonExit(t) \/ countFreed(t)
      PROVE LinkStep
  BY <1>0, <1>14 DEF CallApi, Goto, Ops, MayClose, onlineService, Return, offerConnection, refuseAccept,
       noOffer, rejectOffer, takeOffer, wakeAcceptor, trackManual, offlineService, joinDaemon,
       closeDaemonLink, finishOffline, daemonExit, countFreed, LinkType, LinkStep, Allocated
<1> QED BY NextIsAction, <1>1, <1>2, <1>3, <1>4, <1>5, <1>6, <1>7, <1>8, <1>9, <1>10, <1>11, <1>12,
     <1>13, <1>14 DEF UserAction, DaemonAction, AcceptAction, Threads

(* A service object whose fields change is a service object. *)
LEMMA NewSrvStep ==
    ASSUME SrvType, NEW s \in Services, NEW b \in BOOLEAN,
           srv' = [srv EXCEPT ![s] = Offline] \/ srv' = [srv EXCEPT ![s] = [Offline EXCEPT !.online = b]]
    PROVE  SrvType'
<1>1. Offline \in SrvRecords
  BY ConstantsOK DEF Offline, SrvRecords
<1>2. [Offline EXCEPT !.online = b] \in SrvRecords
  BY <1>1 DEF SrvRecords
<1> QED BY <1>1, <1>2 DEF SrvType

(* So is one with another value in one field. *)
LEMMA SrvFields ==
    ASSUME NEW r \in SrvRecords
    PROVE  /\ \A t \in Users \cup {Null} : [r EXCEPT !.ConnMutex = t] \in SrvRecords
           /\ \A o \in Objs \cup {Null} : [r EXCEPT !.pConnLinkObj = o] \in SrvRecords
           /\ \A b \in BOOLEAN : [r EXCEPT !.signaled = b] \in SrvRecords
           /\ \A b \in BOOLEAN : [r EXCEPT !.cancelled = b] \in SrvRecords
           /\ \A m \in [1 .. MaxManual -> Slots \cup {Null}] : [r EXCEPT !.ManualAccept = m] \in SrvRecords
           /\ \A d \in [1 .. MaxDaemon -> Objs \cup {Null}] : [r EXCEPT !.DaemonAccept = d] \in SrvRecords
<1> DEFINE M == [1 .. MaxManual -> Slots \cup {Null}]
           D == [1 .. MaxDaemon -> Objs \cup {Null}]
           O == Objs \cup {Null}
           U == Users \cup {Null}
<1>0. SrvRecords = [online : BOOLEAN, ConnMutex : U, pConnLinkObj : O, signaled : BOOLEAN, cancelled : BOOLEAN,
                    ManualAccept : M, DaemonAccept : D]
  BY DEF SrvRecords
<1> HIDE DEF M, D, O, U
<1>1. \A t \in U : [r EXCEPT !.ConnMutex = t] \in SrvRecords
  BY <1>0
<1>2. \A o \in O : [r EXCEPT !.pConnLinkObj = o] \in SrvRecords
  BY <1>0
<1>3. \A b \in BOOLEAN : [r EXCEPT !.signaled = b] \in SrvRecords
  BY <1>0
<1>4. \A b \in BOOLEAN : [r EXCEPT !.cancelled = b] \in SrvRecords
  BY <1>0
<1>5. \A m \in M : [r EXCEPT !.ManualAccept = m] \in SrvRecords
  BY <1>0
<1>6. \A d \in D : [r EXCEPT !.DaemonAccept = d] \in SrvRecords
  BY <1>0
<1> QED
  BY <1>1, <1>2, <1>3, <1>4, <1>5, <1>6 DEF M, D, O, U

LEMMA SrvWritten ==
    ASSUME SrvType, NEW s \in Services, NEW r \in SrvRecords, srv' = [srv EXCEPT ![s] = r]
    PROVE  SrvType'
BY DEF SrvType

(* A connector that offers its link changes a service object into a service object. *)
LEMMA OfferStep ==
    ASSUME SrvType, NEW s \in Services, NEW t \in Users, NEW o \in Objs,
           srv' = [srv EXCEPT ![s].ConnMutex = t, ![s].pConnLinkObj = o, ![s].signaled = FALSE]
    PROVE  SrvType'
<1> DEFINE r == [[[srv[s] EXCEPT !.ConnMutex = t] EXCEPT !.pConnLinkObj = o] EXCEPT !.signaled = FALSE]
<1>1. r \in SrvRecords
  BY SrvFields DEF SrvType
<1>2. srv' = [srv EXCEPT ![s] = r]
  BY DEF SrvType
<1> HIDE DEF r
<1> QED BY <1>1, <1>2, SrvWritten

(* So does one that finds its offer answered, *)
LEMMA FinishStep ==
    ASSUME SrvType, NEW s \in Services, srv' = [srv EXCEPT ![s].ConnMutex = Null, ![s].signaled = FALSE]
    PROVE  SrvType'
<1> DEFINE r == [[srv[s] EXCEPT !.ConnMutex = Null] EXCEPT !.signaled = FALSE]
<1>1. r \in SrvRecords
  BY SrvFields DEF SrvType
<1>2. srv' = [srv EXCEPT ![s] = r]
  BY DEF SrvType
<1> HIDE DEF r
<1> QED BY <1>1, <1>2, SrvWritten

(* an acceptor that answers it, *)
LEMMA TakeStep ==
    ASSUME SrvType, NEW s \in Services, takeOffer(s)
    PROVE  SrvType'
<1> DEFINE r == [[srv[s] EXCEPT !.pConnLinkObj = Null] EXCEPT !.signaled = TRUE]
<1>1. r \in SrvRecords
  BY SrvFields DEF SrvType
<1>2. srv' = [srv EXCEPT ![s] = r]
  BY DEF SrvType, takeOffer
<1> HIDE DEF r
<1> QED BY <1>1, <1>2, SrvWritten

(* an offline call that cancels the daemon, *)
LEMMA CancelStep ==
    ASSUME SrvType, NEW s \in Services, srv' = [srv EXCEPT ![s].cancelled = TRUE]
    PROVE  SrvType'
<1>1. [srv[s] EXCEPT !.cancelled = TRUE] \in SrvRecords
  BY SrvFields DEF SrvType
<1> QED BY <1>1, SrvWritten

(* whoever writes the array of manually accepted links, *)
LEMMA ManualStep ==
    ASSUME SrvType, NEW s \in Services, NEW a \in [1 .. MaxManual -> Slots \cup {Null}],
           srv' = [srv EXCEPT ![s].ManualAccept = a]
    PROVE  SrvType'
<1>1. [srv[s] EXCEPT !.ManualAccept = a] \in SrvRecords
  BY SrvFields DEF SrvType
<1> QED BY <1>1, SrvWritten

(* and whoever writes the array of the daemon. *)
LEMMA DaemonStepType ==
    ASSUME SrvType, NEW s \in Services, NEW a \in [1 .. MaxDaemon -> Objs \cup {Null}],
           srv' = [srv EXCEPT ![s].DaemonAccept = a]
    PROVE  SrvType'
<1>1. [srv[s] EXCEPT !.DaemonAccept = a] \in SrvRecords
  BY SrvFields DEF SrvType
<1> QED BY <1>1, SrvWritten

(* Service objects stay service objects. *)
LEMMA NextSrvType == ASSUME TypeInv, Next PROVE SrvType'
<1>0. OpOK /\ AppType /\ SrvType /\ CtlType /\ TblType /\ LinksOK
  BY DEF TypeInv, TypeOK, LinkType, AppType, SrvType, CtlType, TblType
<1>1. ASSUME NEW t \in Users, onlineService(t) PROVE SrvType'
  <2>1. op[t].srv \in Services
    BY <1>1, <1>0 DEF onlineService, Return, OpOK, ThreadOK, Threads
  <2>2. srv' = srv \/ srv' = [srv EXCEPT ![op[t].srv] = [Offline EXCEPT !.online = TRUE]]
    BY <1>1 DEF onlineService, Return
  <2> QED BY <1>0, <2>1, <2>2, NewSrvStep DEF SrvType
<1>2. ASSUME NEW t \in Users, offerConnection(t) PROVE SrvType'
  <2>1. op[t].srv \in Services
    BY <1>2, <1>0 DEF offerConnection, Goto, OpOK, ThreadOK, Threads
  <2>2. op[t].obj \in Objs
    BY <1>2, <1>0 DEF offerConnection, Goto, OpOK, ThreadOK, Threads
  <2>3. srv' = [srv EXCEPT ![op[t].srv].ConnMutex = t, ![op[t].srv].pConnLinkObj = op[t].obj,
                        ![op[t].srv].signaled = FALSE]
    BY <1>2 DEF offerConnection, Goto
  <2> QED BY <1>0, <2>1, <2>2, <2>3, OfferStep
<1>3. ASSUME NEW t \in Users, finishConnect(t) PROVE SrvType'
  <2>1. op[t].srv \in Services
    BY <1>3, <1>0 DEF finishConnect, failConnect, Return, OpOK, ThreadOK, Threads
  <2>2. srv' = [srv EXCEPT ![op[t].srv].ConnMutex = Null, ![op[t].srv].signaled = FALSE]
    BY <1>3 DEF finishConnect
  <2> QED BY <1>0, <2>1, <2>2, FinishStep
<1>4. ASSUME NEW t \in Threads, rejectOffer(t) PROVE SrvType'
  <2>1. op[t].srv \in Services
    BY <1>4, <1>0, OwnObj DEF rejectOffer, OwnObjLabels, UninvolvedLabels
  <2>2. takeOffer(op[t].srv)
    BY <1>4 DEF rejectOffer
  <2> QED BY <1>0, <2>1, <2>2, TakeStep
<1>5. ASSUME NEW t \in Threads, acceptOffer(t) PROVE SrvType'
  <2>1. op[t].srv \in Services
    BY <1>5, <1>0, OwnObj DEF acceptOffer, OwnObjLabels, UninvolvedLabels
  <2>2. takeOffer(op[t].srv)
    BY <1>5 DEF acceptOffer
  <2> QED BY <1>0, <2>1, <2>2, TakeStep
<1>6. ASSUME NEW t \in Users, trackManual(t) PROVE SrvType'
  <2>1. op[t].srv \in Services
    BY <1>6, <1>0 DEF trackManual, Return, OpOK, ThreadOK, Threads
  <2>2. op[t].obj \in Objs /\ link[op[t].obj].id \in Slots
    BY <1>6, <1>0 DEF trackManual, OpOK, ThreadOK, Threads, LinksOK, WithLinkLabels, Allocated
  <2>3. srv[op[t].srv].ManualAccept \in [1 .. MaxManual -> Slots \cup {Null}]
    BY <1>6, <1>0, <2>1 DEF SrvType, SrvRecords
  <2>4. Enter(srv[op[t].srv].ManualAccept, link[op[t].obj].id) \in [1 .. MaxManual -> Slots \cup {Null}]
    <3> DEFINE m == srv[op[t].srv].ManualAccept
               k == link[op[t].obj].id
               X == Slots \cup {Null}
    <3>1. MaxManual \in Nat /\ m \in [1 .. MaxManual -> X] /\ k \in X
      BY <2>2, <2>3, ConstantsOK
    <3> HIDE DEF m, k, X
    <3>2. Enter(m, k) \in [1 .. MaxManual -> X]
      BY <3>1, EnterType
    <3> QED BY <3>2 DEF m, k, X
  <2>5. srv' = [srv EXCEPT ![op[t].srv].ManualAccept = Enter(srv[op[t].srv].ManualAccept, link[op[t].obj].id)]
    BY <1>6, <1>0, <2>1 DEF trackManual, SrvType, SrvRecords
  <2> QED BY <1>0, <2>1, <2>2, <2>3, <2>4, <2>5, ManualStep
<1>7. ASSUME NEW t \in Users, offlineService(t) PROVE SrvType'
  <2>1. op[t].srv \in Services
    BY <1>7, <1>0 DEF offlineService, Return, Goto, OpOK, ThreadOK, Threads
  <2>2. srv' = srv \/ srv' = [srv EXCEPT ![op[t].srv].cancelled = TRUE]
    BY <1>7 DEF offlineService, Return, Goto
  <2> QED BY <1>0, <2>1, <2>2, CancelStep DEF SrvType
<1>8. ASSUME NEW t \in Users, closeDaemonLink(t) PROVE SrvType'
  <2>1. op[t].srv \in Services
    BY <1>8, <1>0 DEF closeDaemonLink, Goto, OpOK, ThreadOK, Threads
  <2>2. srv[op[t].srv].DaemonAccept \in [1 .. MaxDaemon -> Objs \cup {Null}]
    BY <1>8, <1>0, <2>1 DEF SrvType, SrvRecords
  <2>3. [srv[op[t].srv].DaemonAccept EXCEPT ![DaemonEntry(t)] = Null] \in [1 .. MaxDaemon -> Objs \cup {Null}]
    BY <1>8, <2>2 DEF DaemonLink, DaemonEntry
  <2>4. srv' = [srv EXCEPT ![op[t].srv].DaemonAccept = [srv[op[t].srv].DaemonAccept EXCEPT ![DaemonEntry(t)] = Null]]
    BY <1>8, <1>0, <2>1 DEF closeDaemonLink, SrvType, SrvRecords, DaemonLink, DaemonEntry
  <2> QED BY <1>0, <2>1, <2>2, <2>3, <2>4, DaemonStepType DEF DaemonLink, DaemonEntry
<1>9. ASSUME NEW t \in Users, closeManualLink(t) PROVE SrvType'
  <2>1. op[t].srv \in Services
    BY <1>9, <1>0 DEF closeManualLink, beginClose, Goto, OpOK, ThreadOK, Threads
  <2>2. srv[op[t].srv].ManualAccept \in [1 .. MaxManual -> Slots \cup {Null}]
    BY <1>9, <1>0, <2>1 DEF SrvType, SrvRecords
  <2>3. [srv[op[t].srv].ManualAccept EXCEPT ![ManualEntry(t)] = Null] \in [1 .. MaxManual -> Slots \cup {Null}]
    BY <1>9, <2>2 DEF ManualLink, ManualId, ManualEntry
  <2>4. srv' = [srv EXCEPT ![op[t].srv].ManualAccept = [srv[op[t].srv].ManualAccept EXCEPT ![ManualEntry(t)] = Null]]
    BY <1>9, <1>0, <2>1 DEF closeManualLink, SrvType, SrvRecords, ManualLink, ManualId, ManualEntry
  <2> QED BY <1>0, <2>1, <2>2, <2>3, <2>4, ManualStep DEF ManualLink, ManualId, ManualEntry
<1>10. ASSUME NEW t \in Users, finishOffline(t) PROVE SrvType'
  <2>1. op[t].srv \in Services
    BY <1>10, <1>0 DEF finishOffline, Return, OpOK, ThreadOK, Threads
  <2>2. srv' = [srv EXCEPT ![op[t].srv] = Offline]
    BY <1>10 DEF finishOffline
  <2> QED BY <1>0, <2>1, <2>2, NewSrvStep
<1>11. ASSUME NEW t \in Services, trackDaemon(t) PROVE SrvType'
  <2>1. op[t].obj \in Objs
    BY <1>11, <1>0, OwnObj DEF trackDaemon, OwnObjLabels, UninvolvedLabels, Threads
  <2>2. srv[t].DaemonAccept \in [1 .. MaxDaemon -> Objs \cup {Null}]
    BY <1>11, <1>0 DEF SrvType, SrvRecords
  <2>3. Enter(srv[t].DaemonAccept, op[t].obj) \in [1 .. MaxDaemon -> Objs \cup {Null}]
    BY <1>11, <2>1, <2>2, EnterType, ConstantsOK
  <2>4. srv' = [srv EXCEPT ![t].DaemonAccept = Enter(srv[t].DaemonAccept, op[t].obj)]
    BY <1>11, <1>0 DEF trackDaemon, SrvType, SrvRecords
  <2> QED BY <1>0, <2>1, <2>2, <2>3, <2>4, DaemonStepType
<1>12. ASSUME NEW t \in Threads, CallApi(t) \/ allocConnecting(t) \/ findService(t) \/
              refuseAccept(t) \/ allocAccepting(t) \/ noOffer(t) \/ wakeAcceptor(t) \/ closeLink(t) \/
              lockLink(t) \/ clearPeer(t) \/ freeLink(t) \/ joinDaemon(t) \/ acceptTimedOut(t) \/
              daemonAlloc(t) \/ daemonExit(t) \/ countFreed(t)
      PROVE SrvType'
  BY <1>0, <1>12 DEF CallApi, Goto, Ops, MayClose, allocConnecting, Return, allocLinkObj, findService,
       failConnect, refuseAccept, allocAccepting, noOffer, wakeAcceptor, closeLink, beginClose,
       getLinkObj, lockLink, clearPeer, unpeer, freeLink, freeLinkObj, joinDaemon, acceptTimedOut,
       daemonAlloc, daemonExit, countFreed, SrvType
<1> QED BY NextIsAction, <1>1, <1>2, <1>3, <1>4, <1>5, <1>6, <1>7, <1>8, <1>9, <1>10, <1>11, <1>12
     DEF UserAction, DaemonAction, AcceptAction, Threads

(* Threads are somewhere in a call. *)
LEMMA NextPcType == ASSUME TypeInv, Next PROVE pc' \in [Threads -> Labels]
<1>0. CtlType
  BY DEF TypeInv, TypeOK, CtlType
<1>1. ASSUME NEW t \in Users, CallApi(t) PROVE pc' \in [Threads -> Labels]
  BY <1>0, <1>1, ConstantsOK DEF CallApi, Goto, Ops, CtlType, Labels, Threads, allocLinkObj
<1>2. ASSUME NEW t \in Users, onlineService(t) PROVE pc' \in [Threads -> Labels]
  BY <1>0, <1>2, ConstantsOK DEF onlineService, Return, CtlType, Labels, Threads, allocLinkObj
<1>3. ASSUME NEW t \in Users, allocConnecting(t) PROVE pc' \in [Threads -> Labels]
  BY <1>0, <1>3, ConstantsOK DEF allocConnecting, Return, Goto, allocLinkObj, CtlType, Labels, Threads
<1>4. ASSUME NEW t \in Users, findService(t) PROVE pc' \in [Threads -> Labels]
  BY <1>0, <1>4, ConstantsOK DEF findService, Goto, failConnect, Return, CtlType, Labels, Threads,
       allocLinkObj
<1>5. ASSUME NEW t \in Users, offerConnection(t) PROVE pc' \in [Threads -> Labels]
  BY <1>0, <1>5, ConstantsOK DEF offerConnection, Goto, CtlType, Labels, Threads, allocLinkObj
<1>6. ASSUME NEW t \in Users, finishConnect(t) PROVE pc' \in [Threads -> Labels]
  BY <1>0, <1>6, ConstantsOK DEF finishConnect, failConnect, Return, CtlType, Labels, Threads,
       allocLinkObj
<1>7. ASSUME NEW t \in Users, refuseAccept(t) PROVE pc' \in [Threads -> Labels]
  BY <1>0, <1>7, ConstantsOK DEF refuseAccept, Return, CtlType, Labels, Threads, allocLinkObj
<1>8. ASSUME NEW t \in Users, allocAccepting(t) PROVE pc' \in [Threads -> Labels]
  BY <1>0, <1>8, ConstantsOK DEF allocAccepting, allocLinkObj, Goto, CtlType, Labels, Threads
<1>9. ASSUME NEW t \in Threads, noOffer(t) PROVE pc' \in [Threads -> Labels]
  BY <1>0, <1>9, ConstantsOK DEF noOffer, Goto, CtlType, Labels, Threads, allocLinkObj
<1>10. ASSUME NEW t \in Threads, rejectOffer(t) PROVE pc' \in [Threads -> Labels]
  BY <1>0, <1>10, ConstantsOK DEF rejectOffer, CtlType, Labels, Threads, allocLinkObj
<1>11. ASSUME NEW t \in Threads, acceptOffer(t) PROVE pc' \in [Threads -> Labels]
  BY <1>0, <1>11, ConstantsOK DEF acceptOffer, Goto, CtlType, Labels, Threads, allocLinkObj
<1>12. ASSUME NEW t \in Threads, wakeAcceptor(t) PROVE pc' \in [Threads -> Labels]
  BY <1>0, <1>12, ConstantsOK DEF wakeAcceptor, Goto, CtlType, Labels, Threads, allocLinkObj
<1>13. ASSUME NEW t \in Users, trackManual(t) PROVE pc' \in [Threads -> Labels]
  BY <1>0, <1>13, ConstantsOK DEF trackManual, Return, CtlType, Labels, Threads, allocLinkObj
<1>14. ASSUME NEW t \in Users, closeLink(t) PROVE pc' \in [Threads -> Labels]
  BY <1>0, <1>14, ConstantsOK DEF closeLink, Return, beginClose, Goto, CtlType, Labels, Threads,
       allocLinkObj
<1>15. ASSUME NEW t \in Users, lockLink(t) PROVE pc' \in [Threads -> Labels]
  BY <1>0, <1>15, ConstantsOK DEF lockLink, Goto, CtlType, Labels, Threads, allocLinkObj
<1>16. ASSUME NEW t \in Users, clearPeer(t) PROVE pc' \in [Threads -> Labels]
  BY <1>0, <1>16, ConstantsOK DEF clearPeer, Goto, CtlType, Labels, Threads, allocLinkObj
<1>17. ASSUME NEW t \in Users, freeLink(t) PROVE pc' \in [Threads -> Labels]
  BY <1>0, <1>17, ConstantsOK DEF freeLink, Goto, Return, CtlType, Labels, Threads, allocLinkObj
<1>18. ASSUME NEW t \in Users, offlineService(t) PROVE pc' \in [Threads -> Labels]
  BY <1>0, <1>18, ConstantsOK DEF offlineService, Return, Goto, CtlType, Labels, Threads, allocLinkObj
<1>19. ASSUME NEW t \in Users, joinDaemon(t) PROVE pc' \in [Threads -> Labels]
  BY <1>0, <1>19, ConstantsOK DEF joinDaemon, Goto, CtlType, Labels, Threads, allocLinkObj
<1>20. ASSUME NEW t \in Users, closeDaemonLink(t) PROVE pc' \in [Threads -> Labels]
  BY <1>0, <1>20, ConstantsOK DEF closeDaemonLink, Goto, CtlType, Labels, Threads, allocLinkObj
<1>21. ASSUME NEW t \in Users, closeManualLink(t) PROVE pc' \in [Threads -> Labels]
  BY <1>0, <1>21, ConstantsOK DEF closeManualLink, beginClose, Goto, CtlType, Labels, Threads,
       allocLinkObj
<1>22. ASSUME NEW t \in Users, finishOffline(t) PROVE pc' \in [Threads -> Labels]
  BY <1>0, <1>22, ConstantsOK DEF finishOffline, Return, CtlType, Labels, Threads, allocLinkObj
<1>23. ASSUME NEW t \in Users, acceptTimedOut(t) PROVE pc' \in [Threads -> Labels]
  BY <1>0, <1>23, ConstantsOK DEF acceptTimedOut, Goto, CtlType, Labels, Threads, allocLinkObj
<1>24. ASSUME NEW t \in Services, daemonAlloc(t) PROVE pc' \in [Threads -> Labels]
  BY <1>0, <1>24, ConstantsOK DEF daemonAlloc, allocLinkObj, Goto, CtlType, Labels, Threads
<1>25. ASSUME NEW t \in Services, daemonExit(t) PROVE pc' \in [Threads -> Labels]
  BY <1>0, <1>25, ConstantsOK DEF daemonExit, Goto, CtlType, Labels, Threads, allocLinkObj
<1>26. ASSUME NEW t \in Services, trackDaemon(t) PROVE pc' \in [Threads -> Labels]
  BY <1>0, <1>26, ConstantsOK DEF trackDaemon, Goto, CtlType, Labels, Threads, allocLinkObj
<1>27. ASSUME NEW t \in Users, countFreed(t) PROVE pc' \in [Threads -> Labels]
  BY <1>0, <1>27, ConstantsOK DEF countFreed, Goto, Return, CtlType, Labels, Threads
<1> QED BY NextIsAction, <1>1, <1>2, <1>3, <1>4, <1>5, <1>6, <1>7, <1>8, <1>9, <1>10, <1>11, <1>12,
     <1>13, <1>14, <1>15, <1>16, <1>17, <1>18, <1>19, <1>20, <1>21, <1>22, <1>23, <1>24, <1>25, <1>26, <1>27
     DEF UserAction, DaemonAction, AcceptAction, Threads

(* Calls return results. *)
LEMMA NextResultType == ASSUME TypeInv, Next PROVE result' \in [Threads -> Results]
<1>0. CtlType
  BY DEF TypeInv, TypeOK, CtlType
<1>1. ASSUME NEW t \in Users, CallApi(t) PROVE result' \in [Threads -> Results]
  BY <1>0, <1>1 DEF CallApi, Goto, Ops, CtlType, Results, Threads
<1>2. ASSUME NEW t \in Users, onlineService(t) PROVE result' \in [Threads -> Results]
  BY <1>0, <1>2 DEF onlineService, Return, CtlType, Results, Threads
<1>3. ASSUME NEW t \in Users, allocConnecting(t) PROVE result' \in [Threads -> Results]
  BY <1>0, <1>3 DEF allocConnecting, Return, Goto, CtlType, Results, Threads
<1>4. ASSUME NEW t \in Users, findService(t) PROVE result' \in [Threads -> Results]
  BY <1>0, <1>4 DEF findService, Goto, failConnect, Return, CtlType, Results, Threads
<1>5. ASSUME NEW t \in Users, offerConnection(t) PROVE result' \in [Threads -> Results]
  BY <1>0, <1>5 DEF offerConnection, Goto, CtlType, Results, Threads
<1>6. ASSUME NEW t \in Users, finishConnect(t) PROVE result' \in [Threads -> Results]
  BY <1>0, <1>6 DEF finishConnect, failConnect, Return, CtlType, Results, Threads
<1>7. ASSUME NEW t \in Users, refuseAccept(t) PROVE result' \in [Threads -> Results]
  BY <1>0, <1>7 DEF refuseAccept, Return, CtlType, Results, Threads
<1>8. ASSUME NEW t \in Users, allocAccepting(t) PROVE result' \in [Threads -> Results]
  BY <1>0, <1>8 DEF allocAccepting, Goto, CtlType, Results, Threads
<1>9. ASSUME NEW t \in Threads, noOffer(t) PROVE result' \in [Threads -> Results]
  BY <1>0, <1>9 DEF noOffer, Goto, CtlType, Results, Threads
<1>10. ASSUME NEW t \in Threads, rejectOffer(t) PROVE result' \in [Threads -> Results]
  BY <1>0, <1>10 DEF rejectOffer, CtlType, Results, Threads
<1>11. ASSUME NEW t \in Threads, acceptOffer(t) PROVE result' \in [Threads -> Results]
  BY <1>0, <1>11 DEF acceptOffer, Goto, CtlType, Results, Threads
<1>12. ASSUME NEW t \in Threads, wakeAcceptor(t) PROVE result' \in [Threads -> Results]
  BY <1>0, <1>12 DEF wakeAcceptor, Goto, CtlType, Results, Threads
<1>13. ASSUME NEW t \in Users, trackManual(t) PROVE result' \in [Threads -> Results]
  BY <1>0, <1>13 DEF trackManual, Return, CtlType, Results, Threads
<1>14. ASSUME NEW t \in Users, closeLink(t) PROVE result' \in [Threads -> Results]
  BY <1>0, <1>14 DEF closeLink, Return, beginClose, Goto, CtlType, Results, Threads
<1>15. ASSUME NEW t \in Users, lockLink(t) PROVE result' \in [Threads -> Results]
  BY <1>0, <1>15 DEF lockLink, Goto, CtlType, Results, Threads
<1>16. ASSUME NEW t \in Users, clearPeer(t) PROVE result' \in [Threads -> Results]
  BY <1>0, <1>16 DEF clearPeer, Goto, CtlType, Results, Threads
<1>17. ASSUME NEW t \in Users, freeLink(t) PROVE result' \in [Threads -> Results]
  BY <1>0, <1>17 DEF freeLink, Goto, Return, CtlType, Results, Threads
<1>18. ASSUME NEW t \in Users, offlineService(t) PROVE result' \in [Threads -> Results]
  BY <1>0, <1>18 DEF offlineService, Return, Goto, CtlType, Results, Threads
<1>19. ASSUME NEW t \in Users, joinDaemon(t) PROVE result' \in [Threads -> Results]
  BY <1>0, <1>19 DEF joinDaemon, Goto, CtlType, Results, Threads
<1>20. ASSUME NEW t \in Users, closeDaemonLink(t) PROVE result' \in [Threads -> Results]
  BY <1>0, <1>20 DEF closeDaemonLink, Goto, CtlType, Results, Threads
<1>21. ASSUME NEW t \in Users, closeManualLink(t) PROVE result' \in [Threads -> Results]
  BY <1>0, <1>21 DEF closeManualLink, beginClose, Goto, CtlType, Results, Threads
<1>22. ASSUME NEW t \in Users, finishOffline(t) PROVE result' \in [Threads -> Results]
  BY <1>0, <1>22 DEF finishOffline, Return, CtlType, Results, Threads
<1>23. ASSUME NEW t \in Users, acceptTimedOut(t) PROVE result' \in [Threads -> Results]
  BY <1>0, <1>23 DEF acceptTimedOut, Goto, CtlType, Results, Threads
<1>24. ASSUME NEW t \in Services, daemonAlloc(t) PROVE result' \in [Threads -> Results]
  BY <1>0, <1>24 DEF daemonAlloc, Goto, CtlType, Results, Threads
<1>25. ASSUME NEW t \in Services, daemonExit(t) PROVE result' \in [Threads -> Results]
  BY <1>0, <1>25 DEF daemonExit, Goto, CtlType, Results, Threads
<1>26. ASSUME NEW t \in Services, trackDaemon(t) PROVE result' \in [Threads -> Results]
  BY <1>0, <1>26 DEF trackDaemon, Goto, CtlType, Results, Threads
<1>27. ASSUME NEW t \in Users, countFreed(t) PROVE result' \in [Threads -> Results]
  BY <1>0, <1>27, ConstantsOK DEF countFreed, Goto, Return, CtlType, Results, Threads
<1> QED BY NextIsAction, <1>1, <1>2, <1>3, <1>4, <1>5, <1>6, <1>7, <1>8, <1>9, <1>10, <1>11, <1>12,
     <1>13, <1>14, <1>15, <1>16, <1>17, <1>18, <1>19, <1>20, <1>21, <1>22, <1>23, <1>24, <1>25, <1>26, <1>27
     DEF UserAction, DaemonAction, AcceptAction, Threads

(* A call whose arguments change is a call. *)
OpType == op \in [Threads -> OpRecords]
(* The arguments of an idle user and of a daemon are arguments of a call. *)
LEMMA NoOpIsOp == NoOp \in OpRecords /\ \A s \in Services : [NoOp EXCEPT !.api = "daemon", !.srv = s] \in OpRecords
<1>1. NoOp \in OpRecords
  BY DEF NoOp, OpRecords
<1>2. ASSUME NEW s \in Services PROVE [NoOp EXCEPT !.api = "daemon", !.srv = s] \in OpRecords
  BY <1>1 DEF OpRecords
<1> QED BY <1>1, <1>2

(* Taking a link object in hand leaves arguments of a call. *)
LEMMA ObjStep ==
    ASSUME OpType, NEW t \in Threads, NEW o \in Objs, op' = [op EXCEPT ![t].obj = o]
    PROVE  OpType'
BY DEF OpType, OpRecords

(* So does taking its peer in hand. *)
LEMMA PeerOpStep ==
    ASSUME OpType, NEW t \in Threads, NEW p \in Objs \cup {Null}, op' = [op EXCEPT ![t].peer = p]
    PROVE  OpType'
BY DEF OpType, OpRecords

(* Calls stay calls. *)
LEMMA NextOpType == ASSUME TypeInv, Next PROVE OpType'
<1>0. OpOK /\ OpType /\ TblType /\ AppType /\ LinkType /\ LinksOK /\ SrvType
  BY DEF TypeInv, TypeOK, OpType, TblType, AppType, LinkType, SrvType
<1>1. ASSUME NEW t \in Users, CallApi(t) PROVE OpType'
  <2>1. t \in Threads
    BY <1>1 DEF Threads
  <2>2. <<t, calls[t] + 1>> \in Objs
    BY <1>1, <1>0, <2>1, NextObj, ConstantsOK DEF CallApi, AppType
  <2>3. \A c \in UserOps : (IF c.api = "close" THEN {p \in Objs : MayClose(p)} ELSE {<<t, calls[t] + 1>>}) \subseteq Objs
    BY <1>1, <2>2
  <2>4. \E c \in UserOps : \E o \in Objs : op' = [op EXCEPT ![t] = [api |-> c.api, srv |-> c.srv, usage |-> c.usage,
                              timed |-> c.timed, obj |-> o, peer |-> Null]]
    BY <1>1, <2>3 DEF CallApi
  <2>5. \A c \in UserOps : \A o \in Objs : [api |-> c.api, srv |-> c.srv, usage |-> c.usage,
                              timed |-> c.timed, obj |-> o, peer |-> Null] \in OpRecords
    BY <1>1, ConstantsOK DEF Ops, OpRecords
  <2> QED BY <1>0, <2>1, <2>2, <2>3, <2>4, <2>5 DEF OpType
<1>2. ASSUME NEW t \in Users, onlineService(t) PROVE OpType'
  <2>1. t \in Threads
    BY <1>2 DEF Threads
  <2>2. op[t].srv \in Services
    BY <1>2, <1>0 DEF onlineService, Return, OpOK, ThreadOK, Threads
  <2>3. 
         \/ op' = op
         \/ op' = [op EXCEPT ![t] = NoOp]
         \/ op' = [op EXCEPT ![t] = NoOp, ![op[t].srv] = op[op[t].srv]]
         \/ op' = [op EXCEPT ![t] = NoOp, ![op[t].srv] = [NoOp EXCEPT !.api = "daemon", !.srv = op[t].srv]]
    BY <1>2, <2>1, <2>2, ConstantsOK, <1>0 DEF OpType, Threads, onlineService, Return
  <2> QED BY <1>0, <2>1, <2>2, <2>3, NoOpIsOp DEF OpType, Threads
<1>3. ASSUME NEW t \in Users, allocConnecting(t) PROVE OpType'
  <2>1. t \in Threads
    BY <1>3 DEF Threads
  <2>2. op' = op \/ op' = [op EXCEPT ![t] = NoOp]
    BY <1>3 DEF allocConnecting, Return, Goto, allocLinkObj
  <2> QED BY <1>0, <2>1, <2>2, NoOpIsOp DEF OpType
<1>4. ASSUME NEW t \in Users, findService(t) PROVE OpType'
  <2>1. t \in Threads
    BY <1>4 DEF Threads
  <2>2. op' = op \/ op' = [op EXCEPT ![t] = NoOp]
    BY <1>4 DEF findService, Goto, failConnect, Return
  <2> QED BY <1>0, <2>1, <2>2, NoOpIsOp DEF OpType
<1>5. ASSUME NEW t \in Users, finishConnect(t) PROVE OpType'
  <2>1. t \in Threads
    BY <1>5 DEF Threads
  <2>2. op' = op \/ op' = [op EXCEPT ![t] = NoOp]
    BY <1>5 DEF finishConnect, failConnect, Return
  <2> QED BY <1>0, <2>1, <2>2, NoOpIsOp DEF OpType
<1>6. ASSUME NEW t \in Users, refuseAccept(t) PROVE OpType'
  <2>1. t \in Threads
    BY <1>6 DEF Threads
  <2>2. op' = op \/ op' = [op EXCEPT ![t] = NoOp]
    BY <1>6 DEF refuseAccept, Return
  <2> QED BY <1>0, <2>1, <2>2, NoOpIsOp DEF OpType
<1>7. ASSUME NEW t \in Users, trackManual(t) PROVE OpType'
  <2>1. t \in Threads
    BY <1>7 DEF Threads
  <2>2. op' = op \/ op' = [op EXCEPT ![t] = NoOp]
    BY <1>7 DEF trackManual, Return
  <2> QED BY <1>0, <2>1, <2>2, NoOpIsOp DEF OpType
<1>8. ASSUME NEW t \in Users, closeLink(t) PROVE OpType'
  <2>1. t \in Threads
    BY <1>8 DEF Threads
  <2>2. op[t].obj \in Objs /\ Allocated(op[t].obj)
    BY <1>8, <1>0 DEF closeLink, OpOK, ThreadOK, Threads, LinksOK, WithLinkLabels
  <2>3. getLinkObj(op[t].obj) \in Objs \cup {Null}
    BY <1>8, <1>0, <2>2 DEF getLinkObj, LinksOK, TblType
  <2>4. \/ op' = op
        \/ op' = [op EXCEPT ![t] = NoOp]
        \/ getLinkObj(op[t].obj) # Null /\ op' = [op EXCEPT ![t].obj = getLinkObj(op[t].obj)]
    BY <1>8 DEF closeLink, beginClose, Return
  <2> QED BY <1>0, <2>1, <2>2, <2>3, <2>4, NoOpIsOp, ObjStep DEF OpType
<1>9. ASSUME NEW t \in Users, lockLink(t) PROVE OpType'
  <2>1. t \in Threads
    BY <1>9 DEF Threads
  <2>2. op[t].obj \in Objs
    BY <1>9, <1>0 DEF lockLink, OpOK, ThreadOK, Threads
  <2>3. link[op[t].obj].pPeer \in Objs \cup {Null}
    BY <1>9, <1>0, <2>2 DEF LinkType, LinkRecords
  <2>4. op' = op \/ op' = [op EXCEPT ![t].peer = link[op[t].obj].pPeer]
    BY <1>9 DEF lockLink
  <2> QED BY <1>0, <2>1, <2>2, <2>3, <2>4, PeerOpStep DEF OpType
<1>10. ASSUME NEW t \in Users, clearPeer(t) PROVE OpType'
  <2>1. t \in Threads
    BY <1>10 DEF Threads
  <2>2. op' = [op EXCEPT ![t].peer = Null]
    BY <1>10 DEF clearPeer
  <2> QED BY <1>0, <2>1, <2>2, PeerOpStep
<1>11. ASSUME NEW t \in Users, countFreed(t) PROVE OpType'
  <2>1. t \in Threads
    BY <1>11 DEF Threads
  <2>2. op' = op \/ op' = [op EXCEPT ![t] = NoOp]
    BY <1>11 DEF countFreed, Return
  <2> QED BY <1>0, <2>1, <2>2, NoOpIsOp DEF OpType
<1>12. ASSUME NEW t \in Users, offlineService(t) PROVE OpType'
  <2>1. t \in Threads
    BY <1>12 DEF Threads
  <2>2. op' = op \/ op' = [op EXCEPT ![t] = NoOp]
    BY <1>12 DEF offlineService, Return, Goto
  <2> QED BY <1>0, <2>1, <2>2, NoOpIsOp DEF OpType
<1>13. ASSUME NEW t \in Users, closeDaemonLink(t) PROVE OpType'
  <2>1. t \in Threads
    BY <1>13 DEF Threads
  <2>2. op[t].srv \in Services
    BY <1>13, <1>0 DEF closeDaemonLink, OpOK, ThreadOK, Threads
  <2>3. srv[op[t].srv].DaemonAccept \in [1 .. MaxDaemon -> Objs \cup {Null}] /\ Entries(srv[op[t].srv].DaemonAccept) # {}
    BY <1>13, <1>0, <2>2 DEF closeDaemonLink, SrvType, SrvRecords
  <2>4. DaemonLink(t) \in Objs
    BY <1>13, <2>3, FirstEntryIsTaken, ConstantsOK DEF DaemonLink, DaemonEntry
  <2>5. op' = op \/ op' = [op EXCEPT ![t].obj = DaemonLink(t)]
    BY <1>13 DEF closeDaemonLink, DaemonLink, DaemonEntry
  <2> QED BY <1>0, <2>1, <2>2, <2>3, <2>4, <2>5, ObjStep DEF OpType, DaemonLink, DaemonEntry
<1>14. ASSUME NEW t \in Users, closeManualLink(t) PROVE OpType'
  <2>1. t \in Threads
    BY <1>14 DEF Threads
  <2>2. op[t].srv \in Services
    BY <1>14, <1>0 DEF closeManualLink, OpOK, ThreadOK, Threads
  <2>3. srv[op[t].srv].ManualAccept \in [1 .. MaxManual -> Slots \cup {Null}] /\ Entries(srv[op[t].srv].ManualAccept) # {}
    BY <1>14, <1>0, <2>2 DEF closeManualLink, SrvType, SrvRecords
  <2>4. ManualId(t) \in Slots
    BY <1>14, <2>3, FirstEntryIsTaken, ConstantsOK DEF ManualLink, ManualId, ManualEntry
  <2>5. ManualLink(t) \in Objs \cup {Null}
    BY <1>14, <1>0, <2>4 DEF TblType, ManualLink, ManualId, ManualEntry
  <2>6. \/ op' = op
        \/ /\ ManualLink(t) # Null
           /\ op' = [op EXCEPT ![t].obj = ManualLink(t)]
    BY <1>14 DEF closeManualLink, beginClose, ManualLink, ManualId, ManualEntry
  <2> QED BY <1>0, <2>1, <2>2, <2>3, <2>4, <2>5, <2>6, ObjStep DEF OpType, ManualLink, ManualId,
       ManualEntry
<1>15. ASSUME NEW t \in Users, finishOffline(t) PROVE OpType'
  <2>1. t \in Threads
    BY <1>15 DEF Threads
  <2>2. op' = op \/ op' = [op EXCEPT ![t] = NoOp]
    BY <1>15 DEF finishOffline, Return
  <2> QED BY <1>0, <2>1, <2>2, NoOpIsOp DEF OpType
<1>16. ASSUME NEW t \in Services, daemonAlloc(t) PROVE OpType'
  <2>1. t \in Threads
    BY <1>16 DEF Threads
  <2>2. <<t, calls[t] + 1>> \in Objs
    BY <1>16, <1>0, <2>1, NextObj DEF daemonAlloc, AppType
  <2>3. op' = [op EXCEPT ![t].obj = <<t, calls[t] + 1>>]
    BY <1>16 DEF daemonAlloc
  <2> QED BY <1>0, <2>1, <2>2, <2>3, ObjStep
<1>17. ASSUME NEW t \in Threads, offerConnection(t) \/ allocAccepting(t) \/ noOffer(t) \/
              rejectOffer(t) \/ acceptOffer(t) \/ wakeAcceptor(t) \/ joinDaemon(t) \/ daemonExit(t) \/
              trackDaemon(t) \/ freeLink(t) \/ acceptTimedOut(t)
      PROVE OpType'
  BY <1>0, <1>17 DEF offerConnection, Goto, allocAccepting, allocLinkObj, noOffer, rejectOffer,
       takeOffer, acceptOffer, Role, negotiateLinkRole, wakeAcceptor, joinDaemon, daemonExit,
       trackDaemon, freeLink, acceptTimedOut, OpType
<1> QED BY NextIsAction, <1>1, <1>2, <1>3, <1>4, <1>5, <1>6, <1>7, <1>8, <1>9, <1>10, <1>11, <1>12,
     <1>13, <1>14, <1>15, <1>16, <1>17 DEF UserAction, DaemonAction, AcceptAction, Threads

(* Remembering changes nothing else of an acceptance. *)
Acceptances == [srv : Services, server : Objs, client : Objs, remembered : BOOLEAN]
(* What is remembered is still an acceptance. *)
LEMMA RememberType ==
    ASSUME accepted \subseteq Acceptances, NEW o, NEW array
    PROVE  /\ Remember(o, array) \subseteq Acceptances
           /\ \A b \in Remember(o, array) : \E a \in accepted : b.srv = a.srv /\ b.server = a.server /\ b.client = a.client
           /\ \A a \in accepted : \E b \in Remember(o, array) : b.srv = a.srv /\ b.server = a.server /\ b.client = a.client
           /\ (\A a, b \in accepted : a.server = b.server \/ a.client = b.client => a = b)
              => \A a, b \in Remember(o, array) : a.server = b.server \/ a.client = b.client => a = b
<1>1. ASSUME NEW a \in accepted, NEW r \in BOOLEAN
      PROVE  /\ [a EXCEPT !.remembered = r] \in Acceptances
             /\ [a EXCEPT !.remembered = r].srv = a.srv
             /\ [a EXCEPT !.remembered = r].server = a.server
             /\ [a EXCEPT !.remembered = r].client = a.client
  BY DEF Acceptances
<1>2. \A a \in accepted : (a.remembered \/ (a.server = o /\ HasRoom(array))) \in BOOLEAN
  BY DEF Acceptances, HasRoom
<1> DEFINE new(a) == [a EXCEPT !.remembered = a.remembered \/ (a.server = o /\ HasRoom(array))]
<1>a. Remember(o, array) = {new(a) : a \in accepted}
  BY DEF Remember
<1>b. \A a \in accepted : /\ new(a) \in Acceptances
                         /\ new(a).srv = a.srv /\ new(a).server = a.server /\ new(a).client = a.client
  BY <1>1, <1>2
<1> HIDE DEF new
<1>3. /\ Remember(o, array) \subseteq Acceptances
      /\ \A b \in Remember(o, array) : \E a \in accepted : b.srv = a.srv /\ b.server = a.server /\ b.client = a.client
      /\ \A a \in accepted : \E b \in Remember(o, array) : b.srv = a.srv /\ b.server = a.server /\ b.client = a.client
  BY <1>a, <1>b
<1>4. ASSUME \A a, b \in accepted : a.server = b.server \/ a.client = b.client => a = b,
             NEW c \in Remember(o, array), NEW d \in Remember(o, array), c.server = d.server \/ c.client = d.client
      PROVE  c = d
  <2>1. PICK a \in accepted : c = new(a)
    BY <1>a, <1>4
  <2>2. PICK b \in accepted : d = new(b)
    BY <1>a, <1>4
  <2>3. c.server = a.server /\ c.client = a.client /\ d.server = b.server /\ d.client = b.client
    BY <1>b, <2>1, <2>2
  <2>4. a = b
    BY <1>4, <2>3
  <2> QED BY <2>1, <2>2, <2>4
<1> QED BY <1>3, <1>4

(* What the application knows stays of its type. *)
LEMMA NextAppType == ASSUME TypeInv, Next PROVE AppType'
<1>0. OpOK /\ AppType /\ SrvType /\ LinkType /\ CtlType
  BY DEF TypeInv, TypeOK, AppType, SrvType, LinkType, CtlType
<1>1. ASSUME NEW t \in Users, CallApi(t) PROVE AppType'
  <2>1. calls[t] + 1 \in 0 .. MaxObjs
    BY <1>1, <1>0, ConstantsOK DEF CallApi, AppType, Threads
  <2>2. calls' = [calls EXCEPT ![t] = calls[t] + 1] /\ owned' \subseteq owned /\ accepted' = accepted
    BY <1>1 DEF CallApi
  <2> QED BY <1>0, <2>1, <2>2 DEF AppType
<1>2. ASSUME NEW t \in Users, finishConnect(t) PROVE AppType'
  <2>1. op[t].obj \in Objs
    BY <1>2, <1>0 DEF finishConnect, OpOK, ThreadOK, Threads
  <2>2. owned' \subseteq owned \cup {op[t].obj} /\ calls' = calls /\ accepted' = accepted
    BY <1>2 DEF finishConnect
  <2> QED BY <1>0, <2>1, <2>2 DEF AppType
<1>3. ASSUME NEW t \in Threads, acceptOffer(t) PROVE AppType'
  <2>1. op[t].obj \in Objs /\ op[t].srv \in Services
    BY <1>3, <1>0, OwnObj DEF acceptOffer, OwnObjLabels, UninvolvedLabels
  <2>2. srv[op[t].srv].pConnLinkObj \in Objs
    BY <1>3, <1>0, <2>1 DEF acceptOffer, SrvType, SrvRecords
  <2>3. accepted' = accepted \cup {[srv |-> op[t].srv, server |-> op[t].obj,
                                      client |-> srv[op[t].srv].pConnLinkObj, remembered |-> FALSE]}
    BY <1>3 DEF acceptOffer
  <2>4. owned' = owned /\ calls' = calls
    BY <1>3 DEF acceptOffer, appVars
  <2>5. [srv |-> op[t].srv, server |-> op[t].obj, client |-> srv[op[t].srv].pConnLinkObj,
         remembered |-> FALSE] \in Acceptances
    BY <1>3, <2>1, <2>2 DEF Acceptances
  <2> QED BY <1>0, <2>1, <2>2, <2>3, <2>4, <2>5 DEF AppType, Acceptances
<1>4. ASSUME NEW t \in Users, trackManual(t) PROVE AppType'
  <2>1. op[t].obj \in Objs
    BY <1>4, <1>0 DEF trackManual, OpOK, ThreadOK, Threads
  <2>2. \E array : accepted' = Remember(op[t].obj, array)
    BY <1>4 DEF trackManual
  <2>3. accepted' \subseteq Acceptances
    BY <1>4, <1>0, <2>2, RememberType DEF AppType, Acceptances
  <2>4. owned' = owned \cup {op[t].obj} /\ calls' = calls
    BY <1>4 DEF trackManual
  <2> QED BY <1>0, <2>1, <2>2, <2>3, <2>4 DEF AppType, Acceptances
<1>5. ASSUME NEW t \in Services, daemonAlloc(t) PROVE AppType'
  <2>1. calls[t] + 1 \in 0 .. MaxObjs
    BY <1>5, <1>0, ConstantsOK DEF daemonAlloc, AppType, Threads
  <2>2. calls' = [calls EXCEPT ![t] = calls[t] + 1] /\ owned' = owned /\ accepted' = accepted
    BY <1>5, <1>0 DEF daemonAlloc, AppType
  <2> QED BY <1>0, <2>1, <2>2 DEF AppType
<1>6. ASSUME NEW t \in Services, trackDaemon(t) PROVE AppType'
  <2>1. op[t].obj \in Objs
    BY <1>6, <1>0, OwnObj DEF trackDaemon, OwnObjLabels, UninvolvedLabels, Threads
  <2>2. \E array : accepted' = Remember(op[t].obj, array)
    BY <1>6 DEF trackDaemon
  <2>3. accepted' \subseteq Acceptances
    BY <1>6, <1>0, <2>2, RememberType DEF AppType, Acceptances
  <2>4. owned' \subseteq owned \cup {op[t].obj} /\ calls' = calls
    BY <1>6 DEF trackDaemon
  <2> QED BY <1>0, <2>1, <2>2, <2>3, <2>4 DEF AppType, Acceptances
<1>7. ASSUME NEW t \in Threads, onlineService(t) \/ allocConnecting(t) \/ findService(t) \/
             offerConnection(t) \/ refuseAccept(t) \/ allocAccepting(t) \/ noOffer(t) \/
             rejectOffer(t) \/ wakeAcceptor(t) \/ closeLink(t) \/ lockLink(t) \/ clearPeer(t) \/
             freeLink(t) \/ offlineService(t) \/ joinDaemon(t) \/ closeDaemonLink(t) \/
             closeManualLink(t) \/ finishOffline(t) \/ acceptTimedOut(t) \/ daemonExit(t) \/ countFreed(t)
      PROVE AppType'
  BY <1>0, <1>7 DEF onlineService, Return, allocConnecting, Goto, allocLinkObj, findService,
       failConnect, offerConnection, refuseAccept, allocAccepting, noOffer, rejectOffer, takeOffer,
       wakeAcceptor, closeLink, beginClose, getLinkObj, lockLink, clearPeer, unpeer, freeLink,
       freeLinkObj, offlineService, joinDaemon, closeDaemonLink, closeManualLink, finishOffline,
       acceptTimedOut, daemonExit, countFreed, AppType, appVars
<1> QED BY NextIsAction, <1>1, <1>2, <1>3, <1>4, <1>5, <1>6, <1>7 DEF UserAction, DaemonAction,
     AcceptAction, Threads

(* Every step keeps the types. *)
LEMMA NextTypeOK == ASSUME TypeInv, Next PROVE TypeOK'
BY NextTblType, NextLink, NextSrvType, NextPcType, NextOpType, NextResultType, NextAppType
   DEF TypeOK, TblType, LinkStep, LinkType, SrvType, OpType, AppType

(* A step that leaves the other threads alone keeps their arguments. *)
OthersWait(t) == \A u \in Threads \ {t} : pc'[u] = pc[u] /\ op'[u] = op[u] /\ calls'[u] = calls[u]

(* A step of one thread that keeps its own arguments right keeps those of all. *)
LEMMA OneThread ==
    ASSUME OpOK, NEW t \in Threads, OthersWait(t), ThreadOK(t)'
    PROVE  OpOK'
BY DEF OpOK, ThreadOK, OthersWait

(* Every step but onlineService, which starts the daemon, leaves the other threads alone. *)
LEMMA ActsAlone ==
    ASSUME CtlType, AppType, NEW t \in Threads, UserAction(t) \/ DaemonAction(t) \/ AcceptAction(t)
    PROVE  OthersWait(t)
<1>1. CallApi(t) => OthersWait(t)
  BY DEF CallApi, Goto, OthersWait, CtlType, AppType, appVars
<1>2. allocConnecting(t) => OthersWait(t)
  BY DEF allocConnecting, Return, Goto, OthersWait, CtlType, AppType, appVars
<1>3. findService(t) => OthersWait(t)
  BY DEF findService, Goto, failConnect, Return, OthersWait, CtlType, AppType, appVars
<1>4. offerConnection(t) => OthersWait(t)
  BY DEF offerConnection, Goto, OthersWait, CtlType, AppType, appVars
<1>5. finishConnect(t) => OthersWait(t)
  BY DEF finishConnect, failConnect, Return, OthersWait, CtlType, AppType, appVars
<1>6. refuseAccept(t) => OthersWait(t)
  BY DEF refuseAccept, Return, OthersWait, CtlType, AppType, appVars
<1>7. allocAccepting(t) => OthersWait(t)
  BY DEF allocAccepting, Goto, OthersWait, CtlType, AppType, appVars
<1>8. noOffer(t) => OthersWait(t)
  BY DEF noOffer, Goto, OthersWait, CtlType, AppType, appVars
<1>9. rejectOffer(t) => OthersWait(t)
  BY DEF rejectOffer, OthersWait, CtlType, AppType, appVars
<1>10. acceptOffer(t) => OthersWait(t)
  BY DEF acceptOffer, Goto, OthersWait, CtlType, AppType, appVars
<1>11. wakeAcceptor(t) => OthersWait(t)
  BY DEF wakeAcceptor, Goto, OthersWait, CtlType, AppType, appVars
<1>12. trackManual(t) => OthersWait(t)
  BY DEF trackManual, Return, OthersWait, CtlType, AppType, appVars
<1>13. closeLink(t) => OthersWait(t)
  BY DEF closeLink, Return, beginClose, Goto, OthersWait, CtlType, AppType, appVars
<1>14. lockLink(t) => OthersWait(t)
  BY DEF lockLink, Goto, OthersWait, CtlType, AppType, appVars
<1>15. clearPeer(t) => OthersWait(t)
  BY DEF clearPeer, Goto, OthersWait, CtlType, AppType, appVars
<1>16. freeLink(t) => OthersWait(t)
  BY DEF freeLink, Goto, Return, OthersWait, CtlType, AppType, appVars
<1>17. offlineService(t) => OthersWait(t)
  BY DEF offlineService, Return, Goto, OthersWait, CtlType, AppType, appVars
<1>18. joinDaemon(t) => OthersWait(t)
  BY DEF joinDaemon, Goto, OthersWait, CtlType, AppType, appVars
<1>19. closeDaemonLink(t) => OthersWait(t)
  BY DEF closeDaemonLink, Goto, OthersWait, CtlType, AppType, appVars
<1>20. closeManualLink(t) => OthersWait(t)
  BY DEF closeManualLink, beginClose, Goto, OthersWait, CtlType, AppType, appVars
<1>21. finishOffline(t) => OthersWait(t)
  BY DEF finishOffline, Return, OthersWait, CtlType, AppType, appVars
<1>22. acceptTimedOut(t) => OthersWait(t)
  BY DEF acceptTimedOut, Goto, OthersWait, CtlType, AppType, appVars
<1>23. daemonAlloc(t) => OthersWait(t)
  BY DEF daemonAlloc, Goto, OthersWait, CtlType, AppType, appVars
<1>24. daemonExit(t) => OthersWait(t)
  BY DEF daemonExit, Goto, OthersWait, CtlType, AppType, appVars
<1>25. trackDaemon(t) => OthersWait(t)
  BY DEF trackDaemon, Goto, OthersWait, CtlType, AppType, appVars
<1>26. countFreed(t) => OthersWait(t)
  BY DEF countFreed, Goto, Return, OthersWait, CtlType, AppType, appVars
<1> QED BY <1>1, <1>2, <1>3, <1>4, <1>5, <1>6, <1>7, <1>8, <1>9, <1>10, <1>11, <1>12, <1>13, <1>14,
     <1>15, <1>16, <1>17, <1>18, <1>19, <1>20, <1>21, <1>22, <1>23, <1>24, <1>25, <1>26
     DEF UserAction, DaemonAction, AcceptAction

(* Calls keep their arguments. *)
LEMMA NextOpOK == ASSUME TypeInv, Next PROVE OpOK'
<1>0. OpOK /\ CtlType /\ AppType 
  BY DEF TypeInv, TypeOK, CtlType, AppType
<1>b. SrvType
  BY DEF TypeInv, TypeOK, SrvType
<1>a. OpType' /\ CtlType'
  BY NextOpType, NextPcType, NextResultType DEF OpType, CtlType
<1>1. ASSUME NEW t \in Users, CallApi(t) PROVE OpOK'
  <2>1. t \in Threads /\ OthersWait(t)
    BY <1>0, <1>1, ActsAlone DEF UserAction, Threads
  <2>2. ThreadOK(t)
    BY <1>0, <2>1 DEF OpOK
  <2>3. PICK c \in UserOps, o \in Objs \cup {<<t, calls[t] + 1>>} :
           /\ op' = [op EXCEPT ![t] = [api |-> c.api, srv |-> c.srv, usage |-> c.usage,
                                      timed |-> c.timed, obj |-> o, peer |-> Null]]
           /\ pc' = [pc EXCEPT ![t] = c.api]
           /\ c.api # "close" => o = <<t, calls[t] + 1>>
    BY <1>1 DEF CallApi, Goto
  <2>4. /\ op'[t].srv = c.srv /\ op'[t].obj = o /\ pc'[t] = c.api /\ calls'[t] = calls[t] + 1
        /\ c.srv \in Services /\ c.api \in {"online", "offline", "connect", "accept", "close"}
    BY <1>0, <1>1, <2>1, <2>3, ConstantsOK DEF CallApi, CtlType, AppType, Ops
  <2>5. o \in Objs /\ calls[t] + 1 > 0
    BY <1>0, <1>1, <2>1, NextObj, ConstantsOK DEF CallApi, AppType
  <2>6. ThreadOK(t)'
    BY <2>1, <2>3, <2>4, <2>5, ConstantsOK DEF ThreadOK, UserLabels, Labels, OwnObjLabels,
         UninvolvedLabels
  <2> QED BY <1>0, <2>1, <2>6, OneThread
<1>2. ASSUME NEW t \in Users, onlineService(t) PROVE OpOK'
  <2>0. PICK s \in Services : s = op[t].srv
    BY <1>0, <1>2 DEF onlineService, OpOK, ThreadOK, Threads
  <2>1. t \in Threads /\ s # t /\ s \in Threads
    BY ConstantsOK DEF Threads
  <2>2. ASSUME NEW u \in Threads \ {t, s} PROVE ThreadOK(u)'
    <3>1. pc'[u] = pc[u] /\ op'[u] = op[u] /\ calls'[u] = calls[u]
      BY <1>0, <1>2, <2>0, <2>1 DEF onlineService, Return, CtlType, appVars
    <3> QED BY <1>0, <3>1 DEF OpOK, ThreadOK
  <2>3. ThreadOK(t)'
    <3>1. pc'[t] = "idle"
      BY <1>0, <1>2, <2>0, <2>1 DEF onlineService, Return, CtlType
    <3> QED BY <3>1, ConstantsOK DEF ThreadOK, UserLabels, Labels, OwnObjLabels, UninvolvedLabels
  <2>4. ThreadOK(s)'
    <3>2. CASE srv[s].online \/ Daemon[s] = "none"
      BY <1>0, <1>2, <2>0, <2>1, <3>2 DEF onlineService, Return, CtlType, appVars, OpOK, ThreadOK
    <3>3. CASE ~srv[s].online /\ Daemon[s] # "none"
      <4>1. pc'[s] = "daemon" /\ op'[s] = [NoOp EXCEPT !.api = "daemon", !.srv = s]
        BY <1>0, <1>2, <2>0, <2>1, <3>3 DEF onlineService, CtlType
      <4>2. op'[s].srv = s
        BY <4>1 DEF NoOp
      <4> QED BY <4>1, <4>2, ConstantsOK DEF ThreadOK, DaemonLabels, OwnObjLabels, UninvolvedLabels
    <3> QED BY <3>2, <3>3
  <2> QED BY <2>2, <2>3, <2>4 DEF OpOK
<1>3. ASSUME NEW t \in Users, allocConnecting(t) PROVE OpOK'
  <2>1. t \in Threads /\ OthersWait(t)
    BY <1>0, <1>3, ActsAlone DEF UserAction, DaemonAction, AcceptAction, Threads
  <2>2. ThreadOK(t)
    BY <1>0, <2>1 DEF OpOK
  <2>3. ThreadOK(t)'
    <3>1. /\ pc[t] = "connect" /\ calls' = calls
          /\ \/ pc' = [pc EXCEPT ![t] = "idle"] /\ op' = [op EXCEPT ![t] = NoOp]
             \/ pc' = [pc EXCEPT ![t] = "findService"] /\ op' = op
      BY <1>3 DEF allocConnecting, Return, Goto, appVars
    <3> QED BY <1>0, <1>3, <2>1, <2>2, <3>1, ConstantsOK DEF ThreadOK, CtlType, UserLabels, OwnObjLabels,
            UninvolvedLabels, Labels
  <2> QED BY <1>0, <2>1, <2>3, OneThread
<1>4. ASSUME NEW t \in Users, findService(t) PROVE OpOK'
  <2>1. t \in Threads /\ OthersWait(t)
    BY <1>0, <1>4, ActsAlone DEF UserAction, DaemonAction, AcceptAction, Threads
  <2>2. ThreadOK(t)
    BY <1>0, <2>1 DEF OpOK
  <2>3. ThreadOK(t)'
    BY <1>0, <1>a, <1>4, <2>1, <2>2, ConstantsOK DEF findService, Goto, failConnect, Return, ThreadOK,
         CtlType, AppType, appVars, UserLabels, DaemonLabels, OwnObjLabels, UninvolvedLabels, Labels,
         OpType, OpRecords
  <2> QED BY <1>0, <2>1, <2>3, OneThread
<1>5. ASSUME NEW t \in Users, offerConnection(t) PROVE OpOK'
  <2>1. t \in Threads /\ OthersWait(t)
    BY <1>0, <1>5, ActsAlone DEF UserAction, DaemonAction, AcceptAction, Threads
  <2>2. ThreadOK(t)
    BY <1>0, <2>1 DEF OpOK
  <2>3. ThreadOK(t)'
    BY <1>0, <1>a, <1>5, <2>1, <2>2, ConstantsOK DEF offerConnection, Goto, ThreadOK, CtlType, AppType,
         appVars, UserLabels, DaemonLabels, OwnObjLabels, UninvolvedLabels, Labels, OpType, OpRecords
  <2> QED BY <1>0, <2>1, <2>3, OneThread
<1>6. ASSUME NEW t \in Users, finishConnect(t) PROVE OpOK'
  <2>1. t \in Threads /\ OthersWait(t)
    BY <1>0, <1>6, ActsAlone DEF UserAction, DaemonAction, AcceptAction, Threads
  <2>2. ThreadOK(t)
    BY <1>0, <2>1 DEF OpOK
  <2>3. ThreadOK(t)'
    BY <1>0, <1>a, <1>6, <2>1, <2>2, ConstantsOK DEF finishConnect, failConnect, Return, ThreadOK,
         CtlType, AppType, appVars, UserLabels, DaemonLabels, OwnObjLabels, UninvolvedLabels, Labels,
         OpType, OpRecords
  <2> QED BY <1>0, <2>1, <2>3, OneThread
<1>7. ASSUME NEW t \in Users, refuseAccept(t) PROVE OpOK'
  <2>1. t \in Threads /\ OthersWait(t)
    BY <1>0, <1>7, ActsAlone DEF UserAction, DaemonAction, AcceptAction, Threads
  <2>2. ThreadOK(t)
    BY <1>0, <2>1 DEF OpOK
  <2>3. ThreadOK(t)'
    BY <1>0, <1>a, <1>7, <2>1, <2>2, ConstantsOK DEF refuseAccept, Return, ThreadOK, CtlType, AppType,
         appVars, UserLabels, DaemonLabels, OwnObjLabels, UninvolvedLabels, Labels, OpType, OpRecords
  <2> QED BY <1>0, <2>1, <2>3, OneThread
<1>8. ASSUME NEW t \in Users, allocAccepting(t) PROVE OpOK'
  <2>1. t \in Threads /\ OthersWait(t)
    BY <1>0, <1>8, ActsAlone DEF UserAction, DaemonAction, AcceptAction, Threads
  <2>2. ThreadOK(t)
    BY <1>0, <2>1 DEF OpOK
  <2>3. ThreadOK(t)'
    BY <1>0, <1>a, <1>8, <2>1, <2>2, ConstantsOK DEF allocAccepting, Goto, ThreadOK, CtlType, AppType,
         appVars, UserLabels, DaemonLabels, OwnObjLabels, UninvolvedLabels, Labels, OpType, OpRecords
  <2> QED BY <1>0, <2>1, <2>3, OneThread
<1>9. ASSUME NEW t \in Threads, noOffer(t) PROVE OpOK'
  <2>1. t \in Threads /\ OthersWait(t)
    BY <1>0, <1>9, ActsAlone DEF UserAction, DaemonAction, AcceptAction, Threads
  <2>2. ThreadOK(t)
    BY <1>0, <2>1 DEF OpOK
  <2>3. ThreadOK(t)'
    BY <1>0, <1>a, <1>9, <2>1, <2>2, ConstantsOK DEF noOffer, Goto, ThreadOK, CtlType, AppType, appVars,
         UserLabels, DaemonLabels, OwnObjLabels, UninvolvedLabels, Labels, OpType, OpRecords
  <2> QED BY <1>0, <2>1, <2>3, OneThread
<1>10. ASSUME NEW t \in Threads, rejectOffer(t) PROVE OpOK'
  <2>1. t \in Threads /\ OthersWait(t)
    BY <1>0, <1>10, ActsAlone DEF UserAction, DaemonAction, AcceptAction, Threads
  <2>2. ThreadOK(t)
    BY <1>0, <2>1 DEF OpOK
  <2>3. ThreadOK(t)'
    BY <1>0, <1>a, <1>10, <2>1, <2>2, ConstantsOK DEF rejectOffer, ThreadOK, CtlType, AppType, appVars,
         UserLabels, DaemonLabels, OwnObjLabels, UninvolvedLabels, Labels, OpType, OpRecords
  <2> QED BY <1>0, <2>1, <2>3, OneThread
<1>11. ASSUME NEW t \in Threads, acceptOffer(t) PROVE OpOK'
  <2>1. t \in Threads /\ OthersWait(t)
    BY <1>0, <1>11, ActsAlone DEF UserAction, DaemonAction, AcceptAction, Threads
  <2>2. ThreadOK(t)
    BY <1>0, <2>1 DEF OpOK
  <2>3. ThreadOK(t)'
    BY <1>0, <1>a, <1>11, <2>1, <2>2, ConstantsOK DEF acceptOffer, Goto, ThreadOK, CtlType, AppType,
         appVars, UserLabels, DaemonLabels, OwnObjLabels, UninvolvedLabels, Labels, OpType, OpRecords
  <2> QED BY <1>0, <2>1, <2>3, OneThread
<1>12. ASSUME NEW t \in Threads, wakeAcceptor(t) PROVE OpOK'
  <2>1. t \in Threads /\ OthersWait(t)
    BY <1>0, <1>12, ActsAlone DEF UserAction, DaemonAction, AcceptAction, Threads
  <2>2. ThreadOK(t)
    BY <1>0, <2>1 DEF OpOK
  <2>3. ThreadOK(t)'
    BY <1>0, <1>a, <1>12, <2>1, <2>2, ConstantsOK DEF wakeAcceptor, Goto, ThreadOK, CtlType, AppType,
         appVars, UserLabels, DaemonLabels, OwnObjLabels, UninvolvedLabels, Labels, OpType, OpRecords
  <2> QED BY <1>0, <2>1, <2>3, OneThread
<1>13. ASSUME NEW t \in Users, trackManual(t) PROVE OpOK'
  <2>1. t \in Threads /\ OthersWait(t)
    BY <1>0, <1>13, ActsAlone DEF UserAction, DaemonAction, AcceptAction, Threads
  <2>2. ThreadOK(t)
    BY <1>0, <2>1 DEF OpOK
  <2>3. ThreadOK(t)'
    BY <1>0, <1>a, <1>13, <2>1, <2>2, ConstantsOK DEF trackManual, Return, ThreadOK, CtlType, AppType,
         appVars, UserLabels, DaemonLabels, OwnObjLabels, UninvolvedLabels, Labels, OpType, OpRecords
  <2> QED BY <1>0, <2>1, <2>3, OneThread
<1>14. ASSUME NEW t \in Users, closeLink(t) PROVE OpOK'
  <2>1. t \in Threads /\ OthersWait(t)
    BY <1>0, <1>14, ActsAlone DEF UserAction, DaemonAction, AcceptAction, Threads
  <2>2. ThreadOK(t)
    BY <1>0, <2>1 DEF OpOK
  <2>3. pc[t] = "close" /\ t \in Users /\ t \notin Services
    BY <1>14, ConstantsOK DEF closeLink
  <2>4. ASSUME pc'[t] = "idle" PROVE ThreadOK(t)'
    BY <2>3, <2>4 DEF ThreadOK, UserLabels, Labels, OwnObjLabels, UninvolvedLabels
  <2>5. ASSUME pc'[t] # "idle" PROVE ThreadOK(t)'
    <3> DEFINE o == getLinkObj(op[t].obj)
    <3>1. /\ pc' = [pc EXCEPT ![t] = "lockLink"] \/ pc' = [pc EXCEPT ![t] = "aborted"]
          /\ op' = [op EXCEPT ![t].obj = o] /\ o # Null
      BY <1>0, <1>14, <2>1, <2>5 DEF closeLink, beginClose, Return, Goto, CtlType
    <3> HIDE DEF o
    <3>2. pc'[t] \in {"lockLink", "aborted"} /\ op'[t].obj = o /\ op'[t].srv = op[t].srv
      BY <1>0, <2>1, <3>1 DEF CtlType, OpRecords
    <3>3. op'[t].obj \in Objs \cup {Null}
      BY <1>a, <2>1 DEF OpType, OpRecords
    <3>4. op[t].srv \in Services
      BY <2>2, <2>3 DEF ThreadOK
    <3> QED
      BY <2>3, <3>1, <3>2, <3>3, <3>4 DEF ThreadOK, UserLabels, Labels, OwnObjLabels, UninvolvedLabels
  <2>6. ThreadOK(t)'
    BY <2>4, <2>5
  <2> QED BY <1>0, <2>1, <2>6, OneThread
<1>15. ASSUME NEW t \in Users, lockLink(t) PROVE OpOK'
  <2>1. t \in Threads /\ OthersWait(t)
    BY <1>0, <1>15, ActsAlone DEF UserAction, DaemonAction, AcceptAction, Threads
  <2>2. ThreadOK(t)
    BY <1>0, <2>1 DEF OpOK
  <2>3. /\ pc[t] = "lockLink" /\ t \in Users /\ t \notin Services
        /\ op[t].srv \in Services /\ op[t].obj \in Objs /\ op'[t] \in OpRecords
    BY <1>a, <1>15, <2>1, <2>2, ConstantsOK DEF lockLink, ThreadOK, OpType
  <2>4. ASSUME link[op[t].obj].pPeer = Null PROVE ThreadOK(t)'
    <3>1. pc'[t] = "freeLink" /\ op' = op
      BY <1>0, <1>15, <2>1, <2>4 DEF lockLink, Goto, CtlType
    <3> QED
      BY <2>3, <3>1 DEF ThreadOK, UserLabels, Labels, OwnObjLabels, UninvolvedLabels
  <2>5. ASSUME link[op[t].obj].pPeer # Null PROVE ThreadOK(t)'
    <3>1. PICK p : p = link[op[t].obj].pPeer /\ p # Null
      BY <2>5
    <3>2. pc'[t] = "clearPeer" /\ op' = [op EXCEPT ![t].peer = p]
      BY <1>0, <1>15, <2>1, <2>5, <3>1 DEF lockLink, Goto, CtlType
    <3>3. op'[t].peer = p /\ op'[t].obj = op[t].obj /\ op'[t].srv = op[t].srv
      BY <1>0, <2>1, <3>2 DEF CtlType, OpRecords
    <3>4. p \in Objs
      BY <2>3, <3>1, <3>3 DEF OpRecords
    <3> QED
      BY <2>3, <3>2, <3>3, <3>4 DEF ThreadOK, UserLabels, Labels, OwnObjLabels, UninvolvedLabels
  <2>6. ThreadOK(t)'
    BY <2>4, <2>5
  <2> QED BY <1>0, <2>1, <2>6, OneThread
<1>16. ASSUME NEW t \in Users, clearPeer(t) PROVE OpOK'
  <2>1. t \in Threads /\ OthersWait(t)
    BY <1>0, <1>16, ActsAlone DEF UserAction, DaemonAction, AcceptAction, Threads
  <2>2. ThreadOK(t)
    BY <1>0, <2>1 DEF OpOK
  <2>3. ThreadOK(t)'
    BY <1>0, <1>a, <1>16, <2>1, <2>2, ConstantsOK DEF clearPeer, Goto, ThreadOK, CtlType, AppType,
         appVars, UserLabels, DaemonLabels, OwnObjLabels, UninvolvedLabels, Labels, OpType, OpRecords
  <2> QED BY <1>0, <2>1, <2>3, OneThread
<1>17. ASSUME NEW t \in Users, freeLink(t) PROVE OpOK'
  <2>1. t \in Threads /\ OthersWait(t)
    BY <1>0, <1>17, ActsAlone DEF UserAction, DaemonAction, AcceptAction, Threads
  <2>2. ThreadOK(t)
    BY <1>0, <2>1 DEF OpOK
  <2>3. ThreadOK(t)'
    BY <1>0, <1>a, <1>17, <2>1, <2>2, ConstantsOK DEF freeLink, Goto, Return, ThreadOK, CtlType,
         AppType, appVars, UserLabels, DaemonLabels, OwnObjLabels, UninvolvedLabels, Labels, OpType,
         OpRecords
  <2> QED BY <1>0, <2>1, <2>3, OneThread
<1>18. ASSUME NEW t \in Users, offlineService(t) PROVE OpOK'
  <2>1. t \in Threads /\ OthersWait(t)
    BY <1>0, <1>18, ActsAlone DEF UserAction, DaemonAction, AcceptAction, Threads
  <2>2. ThreadOK(t)
    BY <1>0, <2>1 DEF OpOK
  <2>3. ThreadOK(t)'
    BY <1>0, <1>a, <1>18, <2>1, <2>2, ConstantsOK DEF offlineService, Return, Goto, ThreadOK, CtlType,
         AppType, appVars, UserLabels, DaemonLabels, OwnObjLabels, UninvolvedLabels, Labels, OpType,
         OpRecords
  <2> QED BY <1>0, <2>1, <2>3, OneThread
<1>19. ASSUME NEW t \in Users, joinDaemon(t) PROVE OpOK'
  <2>1. t \in Threads /\ OthersWait(t)
    BY <1>0, <1>19, ActsAlone DEF UserAction, DaemonAction, AcceptAction, Threads
  <2>2. ThreadOK(t)
    BY <1>0, <2>1 DEF OpOK
  <2>3. ThreadOK(t)'
    BY <1>0, <1>a, <1>19, <2>1, <2>2, ConstantsOK DEF joinDaemon, Goto, ThreadOK, CtlType, AppType,
         appVars, UserLabels, DaemonLabels, OwnObjLabels, UninvolvedLabels, Labels, OpType, OpRecords
  <2> QED BY <1>0, <2>1, <2>3, OneThread
<1>20. ASSUME NEW t \in Users, closeDaemonLink(t) PROVE OpOK'
  <2>1. t \in Threads /\ OthersWait(t)
    BY <1>0, <1>20, ActsAlone DEF UserAction, DaemonAction, AcceptAction, Threads
  <2>2. ThreadOK(t)
    BY <1>0, <2>1 DEF OpOK
  <2>a. /\ srv[op[t].srv].DaemonAccept \in [1 .. MaxDaemon -> Objs \cup {Null}]
        /\ Entries(srv[op[t].srv].DaemonAccept) # {}
    BY <1>b, <1>20, <2>1, <2>2 DEF closeDaemonLink, ThreadOK, SrvType, SrvRecords
  <2>b. DaemonLink(t) # Null
    BY <2>a, FirstEntryIsTaken, ConstantsOK DEF DaemonLink, DaemonEntry
  <2>3. /\ calls'[t] = calls[t]
        /\ \/ pc'[t] = "idle"
           \/ pc'[t] = pc[t] /\ op'[t] = op[t]
           \/ pc'[t] = "lockLink" /\ op'[t].obj = DaemonLink(t) /\ op'[t].srv = op[t].srv /\ DaemonLink(t) # Null
    BY <1>0, <1>20, <2>1, <2>b DEF closeDaemonLink, Goto, CtlType, OpRecords, appVars, DaemonLink,
         DaemonEntry
  <2>4. op'[t].obj \in Objs \cup {Null} /\ pc[t] \in {"close", "closeAccepted"}
    BY <1>a, <1>20, <2>1 DEF closeDaemonLink, OpType, OpRecords
  <2>5. ThreadOK(t)'
    BY <1>20, <2>1, <2>2, <2>3, <2>4, ConstantsOK DEF ThreadOK, UserLabels, Labels, OwnObjLabels,
         UninvolvedLabels, DaemonLink, DaemonEntry
  <2> QED BY <1>0, <2>1, <2>5, OneThread
<1>21. ASSUME NEW t \in Users, closeManualLink(t) PROVE OpOK'
  <2>1. t \in Threads /\ OthersWait(t)
    BY <1>0, <1>21, ActsAlone DEF UserAction, DaemonAction, AcceptAction, Threads
  <2>2. ThreadOK(t)
    BY <1>0, <2>1 DEF OpOK
  <2>3. /\ calls'[t] = calls[t]
        /\ \/ pc'[t] = "idle"
           \/ pc'[t] = pc[t] /\ op'[t] = op[t]
           \/ pc'[t] \in {"lockLink", "aborted"} /\ op'[t].obj = ManualLink(t) /\ op'[t].srv = op[t].srv /\ ManualLink(t) # Null
    <3>1. calls' = calls /\ op[t] \in OpRecords
      BY <1>21, <2>1 DEF closeManualLink, appVars, TypeInv, TypeOK
    <3>2. CASE ManualLink(t) = Null
      BY <1>21, <3>1, <3>2 DEF closeManualLink, ManualLink, ManualId, ManualEntry
    <3>3. CASE ManualLink(t) # Null
      <4>1. /\ op' = [op EXCEPT ![t].obj = ManualLink(t)]
            /\ pc' = [pc EXCEPT ![t] = "lockLink"] \/ pc' = [pc EXCEPT ![t] = "aborted"]
        BY <1>21, <3>3 DEF closeManualLink, beginClose, Goto, ManualLink, ManualId, ManualEntry
      <4> QED BY <1>0, <1>a, <2>1, <3>1, <3>3, <4>1 DEF CtlType, OpType, OpRecords
    <3> QED BY <3>2, <3>3
  <2>4. op'[t].obj \in Objs \cup {Null} /\ pc[t] \in {"close", "closeAccepted"}
    BY <1>a, <1>21, <2>1 DEF closeManualLink, OpType, OpRecords
  <2>5. ThreadOK(t)'
    BY <1>21, <2>1, <2>2, <2>3, <2>4, ConstantsOK DEF ThreadOK, UserLabels, Labels, OwnObjLabels,
         UninvolvedLabels, ManualLink, ManualId, ManualEntry
  <2> QED BY <1>0, <2>1, <2>5, OneThread
<1>22. ASSUME NEW t \in Users, finishOffline(t) PROVE OpOK'
  <2>1. t \in Threads /\ OthersWait(t)
    BY <1>0, <1>22, ActsAlone DEF UserAction, DaemonAction, AcceptAction, Threads
  <2>2. ThreadOK(t)
    BY <1>0, <2>1 DEF OpOK
  <2>3. ThreadOK(t)'
    BY <1>0, <1>a, <1>22, <2>1, <2>2, ConstantsOK DEF finishOffline, Return, ThreadOK, CtlType, AppType,
         appVars, UserLabels, DaemonLabels, OwnObjLabels, UninvolvedLabels, Labels, OpType, OpRecords
  <2> QED BY <1>0, <2>1, <2>3, OneThread
<1>23. ASSUME NEW t \in Users, acceptTimedOut(t) PROVE OpOK'
  <2>1. t \in Threads /\ OthersWait(t)
    BY <1>0, <1>23, ActsAlone DEF UserAction, DaemonAction, AcceptAction, Threads
  <2>2. ThreadOK(t)
    BY <1>0, <2>1 DEF OpOK
  <2>3. ThreadOK(t)'
    BY <1>0, <1>a, <1>23, <2>1, <2>2, ConstantsOK DEF acceptTimedOut, Goto, ThreadOK, CtlType,
         AppType, appVars, UserLabels, DaemonLabels, OwnObjLabels, UninvolvedLabels, Labels, OpType,
         OpRecords
  <2> QED BY <1>0, <2>1, <2>3, OneThread
<1>24. ASSUME NEW t \in Services, daemonAlloc(t) PROVE OpOK'
  <2>1. t \in Threads /\ OthersWait(t)
    BY <1>0, <1>24, ActsAlone DEF UserAction, DaemonAction, AcceptAction, Threads
  <2>2. ThreadOK(t)
    BY <1>0, <2>1 DEF OpOK
  <2>3. ThreadOK(t)'
    BY <1>0, <1>a, <1>24, <2>1, <2>2, ConstantsOK DEF daemonAlloc, Goto, ThreadOK, CtlType, AppType,
         appVars, UserLabels, DaemonLabels, OwnObjLabels, UninvolvedLabels, Labels, OpType, OpRecords
  <2> QED BY <1>0, <2>1, <2>3, OneThread
<1>25. ASSUME NEW t \in Services, daemonExit(t) PROVE OpOK'
  <2>1. t \in Threads /\ OthersWait(t)
    BY <1>0, <1>25, ActsAlone DEF UserAction, DaemonAction, AcceptAction, Threads
  <2>2. ThreadOK(t)
    BY <1>0, <2>1 DEF OpOK
  <2>3. ThreadOK(t)'
    BY <1>0, <1>a, <1>25, <2>1, <2>2, ConstantsOK DEF daemonExit, Goto, ThreadOK, CtlType, AppType,
         appVars, UserLabels, DaemonLabels, OwnObjLabels, UninvolvedLabels, Labels, OpType, OpRecords
  <2> QED BY <1>0, <2>1, <2>3, OneThread
<1>26. ASSUME NEW t \in Services, trackDaemon(t) PROVE OpOK'
  <2>1. t \in Threads /\ OthersWait(t)
    BY <1>0, <1>26, ActsAlone DEF UserAction, DaemonAction, AcceptAction, Threads
  <2>2. ThreadOK(t)
    BY <1>0, <2>1 DEF OpOK
  <2>3. ThreadOK(t)'
    BY <1>0, <1>a, <1>26, <2>1, <2>2, ConstantsOK DEF trackDaemon, Goto, ThreadOK, CtlType, AppType,
         appVars, UserLabels, DaemonLabels, OwnObjLabels, UninvolvedLabels, Labels, OpType, OpRecords
  <2> QED BY <1>0, <2>1, <2>3, OneThread
<1>27. ASSUME NEW t \in Users, countFreed(t) PROVE OpOK'
  <2>1. t \in Threads /\ OthersWait(t)
    BY <1>0, <1>27, ActsAlone DEF UserAction, DaemonAction, AcceptAction, Threads
  <2>2. ThreadOK(t)
    BY <1>0, <2>1 DEF OpOK
  <2>3. ThreadOK(t)'
    BY <1>0, <1>a, <1>27, <2>1, <2>2, ConstantsOK DEF countFreed, Goto, Return, ThreadOK, CtlType,
         AppType, appVars, UserLabels, DaemonLabels, OwnObjLabels, UninvolvedLabels, Labels, OpType,
         OpRecords
  <2> QED BY <1>0, <2>1, <2>3, OneThread
<1> QED BY NextIsAction, <1>1, <1>2, <1>3, <1>4, <1>5, <1>6, <1>7, <1>8, <1>9, <1>10, <1>11, <1>12,
     <1>13, <1>14, <1>15, <1>16, <1>17, <1>18, <1>19, <1>20, <1>21, <1>22, <1>23, <1>24, <1>25, <1>26, <1>27
     DEF UserAction, DaemonAction, AcceptAction, Threads

OwnedOK == \A o \in owned : Allocated(o)
TakenOK == \A i \in Slots : tbl[i] # Null => Allocated(tbl[i])
ThreadLinkOK(t) == pc[t] \in WithLinkLabels => Allocated(op[t].obj)
ListedOK == \A s \in Services : \A i \in 1 .. MaxDaemon :
                srv[s].DaemonAccept[i] # Null => Allocated(srv[s].DaemonAccept[i])

(* The application holds IDs of links that were allocated. *)
LEMMA NextOwnedOK == ASSUME TypeInv, Next PROVE OwnedOK'
<1>0. OpOK /\ AppType /\ SrvType /\ LinkType /\ CtlType /\ TblType /\ LinksOK /\ LinkStep
  BY NextLink DEF TypeInv, TypeOK, AppType, SrvType, LinkType, CtlType, TblType
<1>1. ASSUME NEW t \in Users, CallApi(t) PROVE OwnedOK'
  <2>1. owned' \subseteq owned
    BY <1>1 DEF CallApi
  <2> QED BY <1>0, <2>1 DEF OwnedOK, LinksOK, LinkStep, AppType
<1>2. ASSUME NEW t \in Users, finishConnect(t) PROVE OwnedOK'
  <2>1. op[t].obj \in Objs /\ Allocated(op[t].obj)
    BY <1>2, <1>0 DEF finishConnect, OpOK, ThreadOK, Threads, LinksOK, WithLinkLabels
  <2>2. owned' \subseteq owned \cup {op[t].obj}
    BY <1>2 DEF finishConnect
  <2> QED BY <1>0, <2>1, <2>2 DEF OwnedOK, LinksOK, LinkStep, AppType
<1>3. ASSUME NEW t \in Users, trackManual(t) PROVE OwnedOK'
  <2>1. op[t].obj \in Objs /\ Allocated(op[t].obj)
    BY <1>3, <1>0 DEF trackManual, OpOK, ThreadOK, Threads, LinksOK, WithLinkLabels
  <2>2. owned' \subseteq owned \cup {op[t].obj}
    BY <1>3 DEF trackManual
  <2> QED BY <1>0, <2>1, <2>2 DEF OwnedOK, LinksOK, LinkStep, AppType
<1>4. ASSUME NEW t \in Services, trackDaemon(t) PROVE OwnedOK'
  <2>1. op[t].obj \in Objs /\ Allocated(op[t].obj)
    BY <1>4, <1>0, OwnObj DEF trackDaemon, LinksOK, WithLinkLabels, OwnObjLabels, UninvolvedLabels,
         Threads
  <2>2. owned' \subseteq owned \cup {op[t].obj}
    BY <1>4 DEF trackDaemon
  <2> QED BY <1>0, <2>1, <2>2 DEF OwnedOK, LinksOK, LinkStep, AppType
<1>5. ASSUME NEW t \in Threads, onlineService(t) \/ allocConnecting(t) \/ findService(t) \/
             offerConnection(t) \/ refuseAccept(t) \/ allocAccepting(t) \/ noOffer(t) \/
             rejectOffer(t) \/ acceptOffer(t) \/ wakeAcceptor(t) \/ closeLink(t) \/ lockLink(t) \/
             clearPeer(t) \/ freeLink(t) \/ offlineService(t) \/ joinDaemon(t) \/ closeDaemonLink(t) \/
             closeManualLink(t) \/ finishOffline(t) \/ acceptTimedOut(t) \/ daemonAlloc(t) \/
             daemonExit(t) \/ countFreed(t)
      PROVE OwnedOK'
  BY <1>0, <1>5 DEF countFreed, onlineService, Return, allocConnecting, Goto, allocLinkObj, findService,
       failConnect, offerConnection, refuseAccept, allocAccepting, noOffer, rejectOffer, takeOffer,
       acceptOffer, Role, negotiateLinkRole, wakeAcceptor, closeLink, beginClose, getLinkObj, lockLink,
       clearPeer, unpeer, freeLink, freeLinkObj, offlineService, joinDaemon, closeDaemonLink,
       closeManualLink, finishOffline, acceptTimedOut, daemonAlloc, daemonExit, appVars, OwnedOK,
       LinksOK, LinkStep, AppType
<1> QED BY NextIsAction, <1>1, <1>2, <1>3, <1>4, <1>5 DEF UserAction, DaemonAction, AcceptAction,
     Threads

(* What allocLinkObj does to the object it allocates. *)
LEMMA NewAllocated ==
    ASSUME LinkType, NEW o \in Objs, NEW usage, NEW state, NEW methods, allocLinkObj(o, usage, state, methods)
    PROVE  /\ link'[o].mem = "open" /\ link'[o].usage = usage /\ link'[o].ConnState = state /\ link'[o].pPeer = Null
           /\ \A q \in Objs \ {o} : link'[q] = link[q]
           /\ tbl' = [tbl EXCEPT ![FirstFree] = o] /\ FreeSlots # {}
<1>1. link'[o] = [Unused EXCEPT !.mem = "open", !.id = FirstFree, !.pMethods = methods, !.usage = usage,
                                !.ConnState = state]
  BY DEF allocLinkObj, LinkType
<1>2. link'[o].mem = "open" /\ link'[o].usage = usage /\ link'[o].ConnState = state /\ link'[o].pPeer = Null
  BY <1>1 DEF Unused
<1> QED BY <1>2 DEF allocLinkObj, LinkType

(* The table holds links that were allocated. *)
LEMMA NextTakenOK == ASSUME TypeInv, Next PROVE TakenOK'
<1>0. OpOK /\ AppType /\ SrvType /\ LinkType /\ CtlType /\ TblType /\ LinksOK /\ LinkStep
  BY NextLink DEF TypeInv, TypeOK, AppType, SrvType, LinkType, CtlType, TblType
<1>1. ASSUME NEW t \in Users, allocConnecting(t) PROVE TakenOK'
  <2>1. op[t].obj \in Objs
    BY <1>1, <1>0 DEF allocConnecting, Return, Goto, allocLinkObj, OpOK, ThreadOK, Threads
  <2>2. tbl' = tbl \/ (FreeSlots # {} /\ tbl' = [tbl EXCEPT ![FirstFree] = op[t].obj] /\ link'[op[t].obj].mem # "none")
    BY <1>1, <1>0, <2>1, NewAllocated DEF allocConnecting, tblVars, Allocated
  <2> QED BY <1>0, <2>1, <2>2, FirstFreeIsFree DEF TakenOK, LinksOK, LinkStep, TblType, Allocated
<1>2. ASSUME NEW t \in Users, allocAccepting(t) PROVE TakenOK'
  <2>1. op[t].obj \in Objs
    BY <1>2, <1>0 DEF allocAccepting, allocLinkObj, Goto, OpOK, ThreadOK, Threads
  <2>2. tbl' = tbl \/ (FreeSlots # {} /\ tbl' = [tbl EXCEPT ![FirstFree] = op[t].obj] /\ link'[op[t].obj].mem # "none")
    BY <1>2, <1>0, <2>1, NewAllocated DEF allocAccepting, tblVars, Allocated
  <2> QED BY <1>0, <2>1, <2>2, FirstFreeIsFree DEF TakenOK, LinksOK, LinkStep, TblType, Allocated
<1>3. ASSUME NEW t \in Users, freeLink(t) PROVE TakenOK'
  <2>1. \A i \in Slots : tbl'[i] = tbl[i] \/ tbl'[i] = Null
    BY <1>3, <1>0 DEF freeLink, freeLinkObj, tblVars, TblType
  <2> QED BY <1>0, <2>1 DEF TakenOK, LinksOK, LinkStep, TblType
<1>4. ASSUME NEW t \in Users, acceptTimedOut(t) PROVE TakenOK'
  <2>1. \A i \in Slots : tbl'[i] = tbl[i] \/ tbl'[i] = Null
    BY <1>4, <1>0 DEF acceptTimedOut, freeLinkObj, tblVars, TblType
  <2> QED BY <1>0, <2>1 DEF TakenOK, LinksOK, LinkStep, TblType
<1>5. ASSUME NEW t \in Services, daemonAlloc(t) PROVE TakenOK'
  <2>1. <<t, calls[t] + 1>> \in Objs
    BY <1>5, <1>0, NextObj DEF daemonAlloc, AppType, Threads
  <2>2. FreeSlots # {} /\ tbl' = [tbl EXCEPT ![FirstFree] = <<t, calls[t] + 1>>] /\ link'[<<t, calls[t] + 1>>].mem # "none"
    BY <1>5, <1>0, <2>1, NewAllocated DEF daemonAlloc, Allocated
  <2> QED BY <1>0, <2>1, <2>2, FirstFreeIsFree DEF TakenOK, LinksOK, LinkStep, TblType, Allocated
<1>6. ASSUME NEW t \in Threads, CallApi(t) \/ onlineService(t) \/ findService(t) \/
             offerConnection(t) \/ finishConnect(t) \/ refuseAccept(t) \/ noOffer(t) \/
             rejectOffer(t) \/ acceptOffer(t) \/ wakeAcceptor(t) \/ trackManual(t) \/ closeLink(t) \/
             lockLink(t) \/ clearPeer(t) \/ offlineService(t) \/ joinDaemon(t) \/ closeDaemonLink(t) \/
             closeManualLink(t) \/ finishOffline(t) \/ daemonExit(t) \/ trackDaemon(t) \/ countFreed(t)
      PROVE TakenOK'
  BY <1>0, <1>6 DEF countFreed, CallApi, Goto, Ops, MayClose, onlineService, Return, findService, failConnect,
       offerConnection, finishConnect, refuseAccept, noOffer, rejectOffer, takeOffer, acceptOffer, Role,
       negotiateLinkRole, wakeAcceptor, trackManual, closeLink, beginClose, getLinkObj, lockLink,
       clearPeer, unpeer, offlineService, joinDaemon, closeDaemonLink, closeManualLink, finishOffline,
       daemonExit, trackDaemon, tblVars, TakenOK, LinksOK, LinkStep, TblType
<1> QED BY NextIsAction, <1>1, <1>2, <1>3, <1>4, <1>5, <1>6 DEF UserAction, DaemonAction, AcceptAction,
     Threads

(* A service that keeps its array of accepted links, or has it emptied, keeps what is in it allocated. *)
LEMMA SameListed ==
    ASSUME LinksOK, LinkStep, SrvType,
           \A s \in Services : \A i \in 1 .. MaxDaemon : srv'[s].DaemonAccept[i] \in {srv[s].DaemonAccept[i], Null}
    PROVE  ListedOK'
<1>1. \A s \in Services : \A i \in 1 .. MaxDaemon : srv[s].DaemonAccept[i] \in Objs \cup {Null}
  BY DEF SrvType, SrvRecords
<1> QED BY <1>1 DEF ListedOK, LinksOK, LinkStep

(* A service object that does not change keeps its array. *)
LEMMA SameSrv == ASSUME LinksOK, LinkStep, SrvType, srv' = srv PROVE ListedOK'
BY SameListed

(* A service that is offline has accepted nothing. *)
LEMMA OfflineListed == \A i \in 1 .. MaxDaemon : /\ Offline.DaemonAccept[i] = Null
                                                 /\ [Offline EXCEPT !.online = TRUE].DaemonAccept[i] = Null
BY DEF Offline

(* The links a service has to close were allocated. *)
LEMMA NextListedOK == ASSUME TypeInv, Next PROVE ListedOK'
<1>0. OpOK /\ AppType /\ SrvType /\ LinkType /\ CtlType /\ TblType /\ LinksOK /\ LinkStep
  BY NextLink DEF TypeInv, TypeOK, AppType, SrvType, LinkType, CtlType, TblType
<1>1. ASSUME NEW t \in Users, onlineService(t) PROVE ListedOK'
  <2>1. op[t].srv \in Services
    BY <1>1, <1>0, OwnObj DEF onlineService, Return, OpOK, ThreadOK, Threads, OwnObjLabels,
         UninvolvedLabels
  <2>2. \A s \in Services : \A i \in 1 .. MaxDaemon : srv'[s].DaemonAccept[i] \in {srv[s].DaemonAccept[i], Null}
    BY <1>1, <1>0, <2>1, OfflineListed DEF onlineService, Return, SrvType, SrvRecords 
  <2> QED BY <1>0, <2>1, <2>2, SameListed
<1>2. ASSUME NEW t \in Users, offerConnection(t) PROVE ListedOK'
  <2>1. op[t].srv \in Services
    BY <1>2, <1>0, OwnObj DEF offerConnection, Goto, OpOK, ThreadOK, Threads, OwnObjLabels,
         UninvolvedLabels
  <2>2. \A s \in Services : \A i \in 1 .. MaxDaemon : srv'[s].DaemonAccept[i] \in {srv[s].DaemonAccept[i], Null}
    BY <1>2, <1>0, <2>1 DEF offerConnection, Goto, SrvType, SrvRecords
  <2> QED BY <1>0, <2>1, <2>2, SameListed
<1>3. ASSUME NEW t \in Users, finishConnect(t) PROVE ListedOK'
  <2>1. op[t].srv \in Services
    BY <1>3, <1>0, OwnObj DEF finishConnect, failConnect, Return, OpOK, ThreadOK, Threads, OwnObjLabels,
         UninvolvedLabels
  <2>2. \A s \in Services : \A i \in 1 .. MaxDaemon : srv'[s].DaemonAccept[i] \in {srv[s].DaemonAccept[i], Null}
    BY <1>3, <1>0, <2>1 DEF finishConnect, failConnect, Return, SrvType, SrvRecords
  <2> QED BY <1>0, <2>1, <2>2, SameListed
<1>4. ASSUME NEW t \in Threads, rejectOffer(t) PROVE ListedOK'
  <2>1. op[t].srv \in Services
    BY <1>4, <1>0, OwnObj DEF rejectOffer, takeOffer, OpOK, ThreadOK, Threads, OwnObjLabels,
         UninvolvedLabels
  <2>2. \A s \in Services : \A i \in 1 .. MaxDaemon : srv'[s].DaemonAccept[i] \in {srv[s].DaemonAccept[i], Null}
    BY <1>4, <1>0, <2>1 DEF rejectOffer, takeOffer, SrvType, SrvRecords
  <2> QED BY <1>0, <2>1, <2>2, SameListed
<1>5. ASSUME NEW t \in Threads, acceptOffer(t) PROVE ListedOK'
  <2>1. op[t].srv \in Services
    BY <1>5, <1>0, OwnObj DEF acceptOffer, takeOffer, Goto, Role, negotiateLinkRole, OpOK, ThreadOK,
         Threads, OwnObjLabels, UninvolvedLabels
  <2>2. \A s \in Services : \A i \in 1 .. MaxDaemon : srv'[s].DaemonAccept[i] \in {srv[s].DaemonAccept[i], Null}
    <3>1. takeOffer(op[t].srv)
      BY <1>5 DEF acceptOffer
    <3> QED BY <1>0, <2>1, <3>1 DEF takeOffer, SrvType, SrvRecords
  <2> QED BY <1>0, <2>1, <2>2, SameListed
<1>6. ASSUME NEW t \in Users, trackManual(t) PROVE ListedOK'
  <2>1. op[t].srv \in Services
    BY <1>6, <1>0, OwnObj DEF trackManual, Return, OpOK, ThreadOK, Threads, OwnObjLabels,
         UninvolvedLabels
  <2>2. \A s \in Services : \A i \in 1 .. MaxDaemon : srv'[s].DaemonAccept[i] \in {srv[s].DaemonAccept[i], Null}
    BY <1>6, <1>0, <2>1 DEF trackManual, Return, SrvType, SrvRecords
  <2> QED BY <1>0, <2>1, <2>2, SameListed
<1>7. ASSUME NEW t \in Users, offlineService(t) PROVE ListedOK'
  <2>1. op[t].srv \in Services
    BY <1>7, <1>0, OwnObj DEF offlineService, Return, Goto, OpOK, ThreadOK, Threads, OwnObjLabels,
         UninvolvedLabels
  <2>2. \A s \in Services : \A i \in 1 .. MaxDaemon : srv'[s].DaemonAccept[i] \in {srv[s].DaemonAccept[i], Null}
    BY <1>7, <1>0, <2>1 DEF offlineService, Return, Goto, SrvType, SrvRecords
  <2> QED BY <1>0, <2>1, <2>2, SameListed
<1>8. ASSUME NEW t \in Users, closeDaemonLink(t) PROVE ListedOK'
  <2>1. op[t].srv \in Services
    BY <1>8, <1>0, OwnObj DEF closeDaemonLink, Goto, OpOK, ThreadOK, Threads, OwnObjLabels,
         UninvolvedLabels
  <2>2. \A s \in Services : \A i \in 1 .. MaxDaemon : srv'[s].DaemonAccept[i] \in {srv[s].DaemonAccept[i], Null}
    BY <1>8, <1>0, <2>1 DEF closeDaemonLink, Goto, SrvType, SrvRecords
  <2> QED BY <1>0, <2>1, <2>2, SameListed
<1>9. ASSUME NEW t \in Users, closeManualLink(t) PROVE ListedOK'
  <2>1. op[t].srv \in Services
    BY <1>9, <1>0, OwnObj DEF closeManualLink, beginClose, Goto, OpOK, ThreadOK, Threads, OwnObjLabels,
         UninvolvedLabels
  <2>2. \A s \in Services : \A i \in 1 .. MaxDaemon : srv'[s].DaemonAccept[i] \in {srv[s].DaemonAccept[i], Null}
    BY <1>9, <1>0, <2>1 DEF closeManualLink, beginClose, Goto, SrvType, SrvRecords
  <2> QED BY <1>0, <2>1, <2>2, SameListed
<1>10. ASSUME NEW t \in Users, finishOffline(t) PROVE ListedOK'
  <2>1. op[t].srv \in Services
    BY <1>10, <1>0, OwnObj DEF finishOffline, Return, OpOK, ThreadOK, Threads, OwnObjLabels,
         UninvolvedLabels
  <2>2. \A s \in Services : \A i \in 1 .. MaxDaemon : srv'[s].DaemonAccept[i] \in {srv[s].DaemonAccept[i], Null}
    BY <1>10, <1>0, <2>1, OfflineListed DEF finishOffline, Return, SrvType, SrvRecords 
  <2> QED BY <1>0, <2>1, <2>2, SameListed
<1>11. ASSUME NEW t \in Services, trackDaemon(t) PROVE ListedOK'
  <2>1. op[t].obj \in Objs /\ Allocated(op[t].obj)
    BY <1>11, <1>0, OwnObj DEF trackDaemon, LinksOK, WithLinkLabels, OwnObjLabels, UninvolvedLabels,
         Threads
  <2>2. srv[t].DaemonAccept \in [1 .. MaxDaemon -> Objs \cup {Null}]
    BY <1>11, <1>0 DEF SrvType, SrvRecords
  <2>3. \A i \in 1 .. MaxDaemon : Enter(srv[t].DaemonAccept, op[t].obj)[i] \in {srv[t].DaemonAccept[i], op[t].obj}
    BY <1>11, <2>1, <2>2, EnterType, ConstantsOK
  <2>4. /\ srv'[t].DaemonAccept = Enter(srv[t].DaemonAccept, op[t].obj)
        /\ \A s \in Services \ {t} : srv'[s] = srv[s]
    BY <1>11, <1>0 DEF trackDaemon, SrvType, SrvRecords
  <2>5. \A s \in Services : \A i \in 1 .. MaxDaemon : srv'[s].DaemonAccept[i] \in {srv[s].DaemonAccept[i], op[t].obj}
    BY <1>11, <2>3, <2>4
  <2>6. \A s \in Services : \A i \in 1 .. MaxDaemon : srv[s].DaemonAccept[i] \in Objs \cup {Null}
    BY <1>11, <1>0 DEF SrvType, SrvRecords
  <2> QED BY <1>0, <2>1, <2>2, <2>3, <2>4, <2>5, <2>6 DEF ListedOK, LinksOK, LinkStep
<1>12. ASSUME NEW t \in Threads, CallApi(t) \/ allocConnecting(t) \/ findService(t) \/
              refuseAccept(t) \/ allocAccepting(t) \/ noOffer(t) \/ wakeAcceptor(t) \/ closeLink(t) \/
              lockLink(t) \/ clearPeer(t) \/ freeLink(t) \/ joinDaemon(t) \/ acceptTimedOut(t) \/
              daemonAlloc(t) \/ daemonExit(t) \/ countFreed(t)
      PROVE ListedOK'
  BY <1>0, <1>12, SameSrv DEF countFreed, CallApi, Goto, Ops, MayClose, allocConnecting, Return, allocLinkObj,
       findService, failConnect, refuseAccept, allocAccepting, noOffer, wakeAcceptor, closeLink,
       beginClose, getLinkObj, lockLink, clearPeer, unpeer, freeLink, freeLinkObj, joinDaemon,
       acceptTimedOut, daemonAlloc, daemonExit, SrvType
<1> QED BY NextIsAction, <1>1, <1>2, <1>3, <1>4, <1>5, <1>6, <1>7, <1>8, <1>9, <1>10, <1>11, <1>12
     DEF UserAction, DaemonAction, AcceptAction, Threads

(* A thread at work on a link has its object in hand. *)
LEMMA LinkInHand ==
    ASSUME OpOK, AppType, NEW t \in Threads, pc[t] \in WithLinkLabels
    PROVE  op[t].obj \in Objs
<1>1. CASE t \in Users
  BY <1>1 DEF OpOK, ThreadOK, WithLinkLabels
<1>2. CASE t \in Services
  BY <1>2, OwnObj DEF OpOK, ThreadOK, WithLinkLabels, DaemonLabels, OwnObjLabels, UninvolvedLabels
<1> QED BY <1>1, <1>2 DEF Threads

(* The threads that do not act keep the link object that they have in hand. *)
LEMMA OthersLink ==
    ASSUME OpOK, AppType, LinksOK, LinkStep, NEW t \in Threads, OthersWait(t), ThreadLinkOK(t)'
    PROVE  (\A u \in Threads : ThreadLinkOK(u))'
<1>1. ASSUME NEW u \in Threads \ {t} PROVE ThreadLinkOK(u)'
  BY LinkInHand DEF ThreadLinkOK, LinksOK, LinkStep, OthersWait
<1> QED BY <1>1

(* A thread at work on a link has one that was allocated. *)
LEMMA NextThreadLinkOK == ASSUME TypeInv, Next PROVE (\A u \in Threads : ThreadLinkOK(u))'
<1>0. OpOK /\ AppType /\ SrvType /\ LinkType /\ CtlType /\ TblType /\ LinksOK /\ LinkStep
  BY NextLink DEF TypeInv, TypeOK, AppType, SrvType, LinkType, CtlType, TblType
<1>1. ASSUME NEW t \in Users, CallApi(t) PROVE (\A u \in Threads : ThreadLinkOK(u))'
  <2>1. t \in Threads /\ OthersWait(t)
    BY <1>0, <1>1, ActsAlone DEF UserAction, DaemonAction, AcceptAction, Threads
  <2>2. pc'[t] \in {"online", "offline", "connect", "accept"} \/ op'[t].obj \in owned
    BY <1>0, <1>1, <2>1, ConstantsOK DEF CallApi, Goto, CtlType, Ops, MayClose
  <2>3. ThreadLinkOK(t)'
    BY <1>0, <2>2 DEF ThreadLinkOK, LinksOK, LinkStep, WithLinkLabels, AppType
  <2> QED BY <1>0, <2>1, <2>3, OthersLink
<1>2. ASSUME NEW t \in Users, onlineService(t) PROVE (\A u \in Threads : ThreadLinkOK(u))'
  <2>1. ASSUME NEW u \in Threads PROVE (pc'[u] = pc[u] /\ op'[u] = op[u]) \/
               pc'[u] \in {"idle", "daemon"}
    BY <1>0, <1>2 DEF onlineService, Return, CtlType
  <2>2. \A o \in Objs : Allocated(o)' <=> Allocated(o)
    BY <1>2 DEF onlineService, Allocated
  <2> QED BY <1>0, <2>1, <2>2, LinkInHand DEF ThreadLinkOK, LinksOK, LinkStep, WithLinkLabels
<1>3. ASSUME NEW t \in Users, allocConnecting(t) PROVE (\A u \in Threads : ThreadLinkOK(u))'
  <2>1. t \in Threads /\ OthersWait(t)
    BY <1>0, <1>3, ActsAlone DEF UserAction, DaemonAction, AcceptAction, Threads
  <2>2. op[t].obj \in Objs
    BY <1>0, <1>3, <2>1 DEF allocConnecting, OpOK, ThreadOK
  <2>3. pc'[t] = "idle" \/ (op'[t] = op[t] /\ link'[op[t].obj].mem = "open")
    BY <1>0, <1>3, <2>1, <2>2, NewAllocated DEF allocConnecting, Return, CtlType
  <2>4. ThreadLinkOK(t)'
    BY <2>3 DEF ThreadLinkOK, WithLinkLabels, Allocated
  <2> QED BY <1>0, <2>1, <2>4, OthersLink
<1>4. ASSUME NEW t \in Users, findService(t) PROVE (\A u \in Threads : ThreadLinkOK(u))'
  <2>1. t \in Threads /\ OthersWait(t)
    BY <1>0, <1>4, ActsAlone DEF UserAction, DaemonAction, AcceptAction, Threads
  <2>2. pc'[t] = "idle" \/ (op'[t].obj = op[t].obj /\ pc[t] \in WithLinkLabels)
    BY <1>0, <1>4, <2>1 DEF findService, Goto, failConnect, Return, CtlType, OpRecords, WithLinkLabels
  <2>3. ThreadLinkOK(t)'
    BY <1>0, <2>1, <2>2, LinkInHand DEF ThreadLinkOK, LinksOK, LinkStep, WithLinkLabels
  <2> QED BY <1>0, <2>1, <2>3, OthersLink
<1>5. ASSUME NEW t \in Users, offerConnection(t) PROVE (\A u \in Threads : ThreadLinkOK(u))'
  <2>1. t \in Threads /\ OthersWait(t)
    BY <1>0, <1>5, ActsAlone DEF UserAction, DaemonAction, AcceptAction, Threads
  <2>2. (op'[t].obj = op[t].obj /\ pc[t] \in WithLinkLabels)
    BY <1>0, <1>5, <2>1 DEF offerConnection, Goto, CtlType, OpRecords, WithLinkLabels
  <2>3. ThreadLinkOK(t)'
    BY <1>0, <2>1, <2>2, LinkInHand DEF ThreadLinkOK, LinksOK, LinkStep, WithLinkLabels
  <2> QED BY <1>0, <2>1, <2>3, OthersLink
<1>6. ASSUME NEW t \in Users, finishConnect(t) PROVE (\A u \in Threads : ThreadLinkOK(u))'
  <2>1. t \in Threads /\ OthersWait(t)
    BY <1>0, <1>6, ActsAlone DEF UserAction, DaemonAction, AcceptAction, Threads
  <2>2. pc'[t] \in {"idle"}
    BY <1>0, <1>6, <2>1 DEF finishConnect, failConnect, Return, CtlType
  <2>3. ThreadLinkOK(t)'
    BY <2>2 DEF ThreadLinkOK, WithLinkLabels
  <2> QED BY <1>0, <2>1, <2>3, OthersLink
<1>7. ASSUME NEW t \in Users, refuseAccept(t) PROVE (\A u \in Threads : ThreadLinkOK(u))'
  <2>1. t \in Threads /\ OthersWait(t)
    BY <1>0, <1>7, ActsAlone DEF UserAction, DaemonAction, AcceptAction, Threads
  <2>2. pc'[t] \in {"idle"}
    BY <1>0, <1>7, <2>1 DEF refuseAccept, Return, CtlType
  <2>3. ThreadLinkOK(t)'
    BY <2>2 DEF ThreadLinkOK, WithLinkLabels
  <2> QED BY <1>0, <2>1, <2>3, OthersLink
<1>8. ASSUME NEW t \in Users, allocAccepting(t) PROVE (\A u \in Threads : ThreadLinkOK(u))'
  <2>1. t \in Threads /\ OthersWait(t)
    BY <1>0, <1>8, ActsAlone DEF UserAction, DaemonAction, AcceptAction, Threads
  <2>2. op[t].obj \in Objs
    BY <1>0, <1>8, <2>1 DEF allocAccepting, OpOK, ThreadOK
  <2>3. pc'[t] = "idle" \/ (op'[t] = op[t] /\ link'[op[t].obj].mem = "open")
    BY <1>0, <1>8, <2>1, <2>2, NewAllocated DEF allocAccepting, Return, CtlType
  <2>4. ThreadLinkOK(t)'
    BY <2>3 DEF ThreadLinkOK, WithLinkLabels, Allocated
  <2> QED BY <1>0, <2>1, <2>4, OthersLink
<1>9. ASSUME NEW t \in Threads, noOffer(t) PROVE (\A u \in Threads : ThreadLinkOK(u))'
  <2>1. t \in Threads /\ OthersWait(t)
    BY <1>0, <1>9, ActsAlone DEF UserAction, DaemonAction, AcceptAction, Threads
  <2>2. (op'[t].obj = op[t].obj /\ pc[t] \in WithLinkLabels)
    BY <1>0, <1>9, <2>1 DEF noOffer, Goto, CtlType, OpRecords, WithLinkLabels
  <2>3. ThreadLinkOK(t)'
    BY <1>0, <2>1, <2>2, LinkInHand DEF ThreadLinkOK, LinksOK, LinkStep, WithLinkLabels
  <2> QED BY <1>0, <2>1, <2>3, OthersLink
<1>10. ASSUME NEW t \in Threads, rejectOffer(t) PROVE (\A u \in Threads : ThreadLinkOK(u))'
  <2>1. t \in Threads /\ OthersWait(t)
    BY <1>0, <1>10, ActsAlone DEF UserAction, DaemonAction, AcceptAction, Threads
  <2>2. (op'[t].obj = op[t].obj /\ pc[t] \in WithLinkLabels)
    BY <1>0, <1>10, <2>1 DEF rejectOffer, CtlType, OpRecords, WithLinkLabels
  <2>3. ThreadLinkOK(t)'
    BY <1>0, <2>1, <2>2, LinkInHand DEF ThreadLinkOK, LinksOK, LinkStep, WithLinkLabels
  <2> QED BY <1>0, <2>1, <2>3, OthersLink
<1>11. ASSUME NEW t \in Threads, acceptOffer(t) PROVE (\A u \in Threads : ThreadLinkOK(u))'
  <2>1. t \in Threads /\ OthersWait(t)
    BY <1>0, <1>11, ActsAlone DEF UserAction, DaemonAction, AcceptAction, Threads
  <2>2. (op'[t].obj = op[t].obj /\ pc[t] \in WithLinkLabels)
    BY <1>0, <1>11, <2>1 DEF acceptOffer, Goto, CtlType, OpRecords, WithLinkLabels
  <2>3. ThreadLinkOK(t)'
    BY <1>0, <2>1, <2>2, LinkInHand DEF ThreadLinkOK, LinksOK, LinkStep, WithLinkLabels
  <2> QED BY <1>0, <2>1, <2>3, OthersLink
<1>12. ASSUME NEW t \in Threads, wakeAcceptor(t) PROVE (\A u \in Threads : ThreadLinkOK(u))'
  <2>1. t \in Threads /\ OthersWait(t)
    BY <1>0, <1>12, ActsAlone DEF UserAction, DaemonAction, AcceptAction, Threads
  <2>2. (op'[t].obj = op[t].obj /\ pc[t] \in WithLinkLabels)
    BY <1>0, <1>12, <2>1 DEF wakeAcceptor, Goto, CtlType, OpRecords, WithLinkLabels
  <2>3. ThreadLinkOK(t)'
    BY <1>0, <2>1, <2>2, LinkInHand DEF ThreadLinkOK, LinksOK, LinkStep, WithLinkLabels
  <2> QED BY <1>0, <2>1, <2>3, OthersLink
<1>13. ASSUME NEW t \in Users, trackManual(t) PROVE (\A u \in Threads : ThreadLinkOK(u))'
  <2>1. t \in Threads /\ OthersWait(t)
    BY <1>0, <1>13, ActsAlone DEF UserAction, DaemonAction, AcceptAction, Threads
  <2>2. pc'[t] \in {"idle"}
    BY <1>0, <1>13, <2>1 DEF trackManual, Return, CtlType
  <2>3. ThreadLinkOK(t)'
    BY <2>2 DEF ThreadLinkOK, WithLinkLabels
  <2> QED BY <1>0, <2>1, <2>3, OthersLink
<1>14. ASSUME NEW t \in Users, closeLink(t) PROVE (\A u \in Threads : ThreadLinkOK(u))'
  <2>1. t \in Threads /\ OthersWait(t)
    BY <1>0, <1>14, ActsAlone DEF UserAction, DaemonAction, AcceptAction, Threads
  <2>2. op[t].obj \in Objs /\ Allocated(op[t].obj)
    BY <1>0, <1>14, <2>1 DEF closeLink, OpOK, ThreadOK, LinksOK, WithLinkLabels
  <2>3. getLinkObj(op[t].obj) \in Objs \cup {Null} /\ (getLinkObj(op[t].obj) # Null => Allocated(getLinkObj(op[t].obj)))
    BY <1>0, <2>2 DEF getLinkObj, LinksOK, TblType
  <2>4. pc'[t] = "idle" \/ (getLinkObj(op[t].obj) # Null /\ op'[t].obj = getLinkObj(op[t].obj))
    BY <1>0, <1>14, <2>1 DEF closeLink, beginClose, Return, Goto, CtlType, OpRecords
  <2>5. ThreadLinkOK(t)'
    BY <1>0, <2>3, <2>4 DEF ThreadLinkOK, LinkStep, WithLinkLabels
  <2> QED BY <1>0, <2>1, <2>5, OthersLink
<1>15. ASSUME NEW t \in Users, lockLink(t) PROVE (\A u \in Threads : ThreadLinkOK(u))'
  <2>1. t \in Threads /\ OthersWait(t)
    BY <1>0, <1>15, ActsAlone DEF UserAction, DaemonAction, AcceptAction, Threads
  <2>2. (op'[t].obj = op[t].obj /\ pc[t] \in WithLinkLabels)
    BY <1>0, <1>15, <2>1 DEF lockLink, Goto, CtlType, OpRecords, WithLinkLabels
  <2>3. ThreadLinkOK(t)'
    BY <1>0, <2>1, <2>2, LinkInHand DEF ThreadLinkOK, LinksOK, LinkStep, WithLinkLabels
  <2> QED BY <1>0, <2>1, <2>3, OthersLink
<1>16. ASSUME NEW t \in Users, clearPeer(t) PROVE (\A u \in Threads : ThreadLinkOK(u))'
  <2>1. t \in Threads /\ OthersWait(t)
    BY <1>0, <1>16, ActsAlone DEF UserAction, DaemonAction, AcceptAction, Threads
  <2>2. (op'[t].obj = op[t].obj /\ pc[t] \in WithLinkLabels)
    BY <1>0, <1>16, <2>1 DEF clearPeer, Goto, CtlType, OpRecords, WithLinkLabels
  <2>3. ThreadLinkOK(t)'
    BY <1>0, <2>1, <2>2, LinkInHand DEF ThreadLinkOK, LinksOK, LinkStep, WithLinkLabels
  <2> QED BY <1>0, <2>1, <2>3, OthersLink
<1>17. ASSUME NEW t \in Users, freeLink(t) PROVE (\A u \in Threads : ThreadLinkOK(u))'
  <2>1. t \in Threads /\ OthersWait(t)
    BY <1>0, <1>17, ActsAlone DEF UserAction, DaemonAction, AcceptAction, Threads
  <2>2. pc'[t] \in {"countFree", "closeAccepted"}
    BY <1>0, <1>17, <2>1 DEF freeLink, Goto, CtlType
  <2>3. ThreadLinkOK(t)'
    BY <2>2 DEF ThreadLinkOK, WithLinkLabels
  <2> QED BY <1>0, <2>1, <2>3, OthersLink
<1>18. ASSUME NEW t \in Users, offlineService(t) PROVE (\A u \in Threads : ThreadLinkOK(u))'
  <2>1. t \in Threads /\ OthersWait(t)
    BY <1>0, <1>18, ActsAlone DEF UserAction, DaemonAction, AcceptAction, Threads
  <2>2. pc'[t] \in {"idle", "closeAccepted", "joinDaemon"}
    BY <1>0, <1>18, <2>1 DEF offlineService, Return, Goto, CtlType
  <2>3. ThreadLinkOK(t)'
    BY <2>2 DEF ThreadLinkOK, WithLinkLabels
  <2> QED BY <1>0, <2>1, <2>3, OthersLink
<1>19. ASSUME NEW t \in Users, joinDaemon(t) PROVE (\A u \in Threads : ThreadLinkOK(u))'
  <2>1. t \in Threads /\ OthersWait(t)
    BY <1>0, <1>19, ActsAlone DEF UserAction, DaemonAction, AcceptAction, Threads
  <2>2. pc'[t] \in {"closeAccepted"}
    BY <1>0, <1>19, <2>1 DEF joinDaemon, Goto, CtlType
  <2>3. ThreadLinkOK(t)'
    BY <2>2 DEF ThreadLinkOK, WithLinkLabels
  <2> QED BY <1>0, <2>1, <2>3, OthersLink
<1>20. ASSUME NEW t \in Users, closeDaemonLink(t) PROVE (\A u \in Threads : ThreadLinkOK(u))'
  <2>1. t \in Threads /\ OthersWait(t)
    BY <1>0, <1>20, ActsAlone DEF UserAction, DaemonAction, AcceptAction, Threads
  <2>2. op[t].srv \in Services
    BY <1>0, <1>20, <2>1 DEF closeDaemonLink, OpOK, ThreadOK
  <2>3. srv[op[t].srv].DaemonAccept \in [1 .. MaxDaemon -> Objs \cup {Null}] /\ Entries(srv[op[t].srv].DaemonAccept) # {}
    BY <1>0, <1>20, <2>2 DEF closeDaemonLink, SrvType, SrvRecords
  <2>4. DaemonEntry(t) \in 1 .. MaxDaemon /\ DaemonLink(t) \in Objs /\ DaemonLink(t) # Null
    BY <2>3, FirstEntryIsTaken, ConstantsOK DEF DaemonLink, DaemonEntry
  <2>5. Allocated(DaemonLink(t))
    BY <1>0, <2>2, <2>4 DEF LinksOK, DaemonLink, DaemonEntry
  <2>6. (pc'[t] = "closeAccepted" /\ op'[t] = op[t]) \/ op'[t].obj = DaemonLink(t)
    BY <1>0, <1>20, <2>1 DEF closeDaemonLink, CtlType, OpRecords, DaemonLink, DaemonEntry
  <2>7. ThreadLinkOK(t)'
    BY <1>0, <2>4, <2>5, <2>6 DEF ThreadLinkOK, LinkStep, WithLinkLabels, DaemonLink, DaemonEntry
  <2> QED BY <1>0, <2>1, <2>7, OthersLink
<1>21. ASSUME NEW t \in Users, closeManualLink(t) PROVE (\A u \in Threads : ThreadLinkOK(u))'
  <2>1. t \in Threads /\ OthersWait(t)
    BY <1>0, <1>21, ActsAlone DEF UserAction, DaemonAction, AcceptAction, Threads
  <2>2. op[t].srv \in Services
    BY <1>0, <1>21, <2>1 DEF closeManualLink, OpOK, ThreadOK
  <2>3. srv[op[t].srv].ManualAccept \in [1 .. MaxManual -> Slots \cup {Null}] /\ Entries(srv[op[t].srv].ManualAccept) # {}
    BY <1>0, <1>21, <2>2 DEF closeManualLink, SrvType, SrvRecords
  <2>4. ManualId(t) \in Slots
    BY <2>3, FirstEntryIsTaken, ConstantsOK DEF ManualLink, ManualId, ManualEntry
  <2>5. ManualLink(t) \in Objs \cup {Null} /\ (ManualLink(t) # Null => Allocated(ManualLink(t)))
    BY <1>0, <2>4 DEF LinksOK, TblType, ManualLink, ManualId, ManualEntry
  <2>6. pc'[t] = "closeAccepted" \/ (ManualLink(t) # Null /\ op'[t].obj = ManualLink(t))
    <3>1. \/ pc' = pc
          \/ ManualLink(t) # Null /\ op' = [op EXCEPT ![t].obj = ManualLink(t)]
      BY <1>21 DEF closeManualLink, beginClose, Goto, ManualLink, ManualId, ManualEntry
    <3>2. pc[t] = "closeAccepted"
      BY <1>21 DEF closeManualLink
    <3> QED BY <1>0, <2>1, <3>1, <3>2 DEF CtlType, OpRecords
  <2>7. ThreadLinkOK(t)'
    BY <1>0, <2>5, <2>6 DEF ThreadLinkOK, LinkStep, WithLinkLabels, ManualLink, ManualId, ManualEntry
  <2> QED BY <1>0, <2>1, <2>7, OthersLink
<1>22. ASSUME NEW t \in Users, finishOffline(t) PROVE (\A u \in Threads : ThreadLinkOK(u))'
  <2>1. t \in Threads /\ OthersWait(t)
    BY <1>0, <1>22, ActsAlone DEF UserAction, DaemonAction, AcceptAction, Threads
  <2>2. pc'[t] \in {"idle"}
    BY <1>0, <1>22, <2>1 DEF finishOffline, Return, CtlType
  <2>3. ThreadLinkOK(t)'
    BY <2>2 DEF ThreadLinkOK, WithLinkLabels
  <2> QED BY <1>0, <2>1, <2>3, OthersLink
<1>23. ASSUME NEW t \in Users, acceptTimedOut(t) PROVE (\A u \in Threads : ThreadLinkOK(u))'
  <2>1. t \in Threads /\ OthersWait(t)
    BY <1>0, <1>23, ActsAlone DEF UserAction, DaemonAction, AcceptAction, Threads
  <2>2. pc'[t] \in {"countFree"}
    BY <1>0, <1>23, <2>1 DEF acceptTimedOut, Goto, CtlType
  <2>3. ThreadLinkOK(t)'
    BY <2>2 DEF ThreadLinkOK, WithLinkLabels
  <2> QED BY <1>0, <2>1, <2>3, OthersLink
<1>24. ASSUME NEW t \in Services, daemonAlloc(t) PROVE (\A u \in Threads : ThreadLinkOK(u))'
  <2>1. t \in Threads /\ OthersWait(t)
    BY <1>0, <1>24, ActsAlone DEF UserAction, DaemonAction, AcceptAction, Threads
  <2>2. <<t, calls[t] + 1>> \in Objs
    BY <1>0, <1>24, <2>1, NextObj DEF daemonAlloc, AppType
  <2>3. op'[t].obj = <<t, calls[t] + 1>> /\ link'[<<t, calls[t] + 1>>].mem = "open"
    <3>1. op'[t].obj = <<t, calls[t] + 1>>
      BY <1>0, <1>24, <2>1 DEF daemonAlloc, CtlType, OpRecords
    <3>2. allocLinkObj(<<t, calls[t] + 1>>, {}, "Disconnected", FALSE)
      BY <1>24 DEF daemonAlloc
    <3>3. link'[<<t, calls[t] + 1>>].mem = "open"
      BY <1>0, <2>2, <3>2, NewAllocated
    <3> QED BY <3>1, <3>3
  <2>4. ThreadLinkOK(t)'
    BY <2>3 DEF ThreadLinkOK, Allocated
  <2> QED BY <1>0, <2>1, <2>4, OthersLink
<1>25. ASSUME NEW t \in Services, daemonExit(t) PROVE (\A u \in Threads : ThreadLinkOK(u))'
  <2>1. t \in Threads /\ OthersWait(t)
    BY <1>0, <1>25, ActsAlone DEF UserAction, DaemonAction, AcceptAction, Threads
  <2>2. pc'[t] \in {"exited"}
    BY <1>0, <1>25, <2>1 DEF daemonExit, Goto, CtlType
  <2>3. ThreadLinkOK(t)'
    BY <2>2 DEF ThreadLinkOK, WithLinkLabels
  <2> QED BY <1>0, <2>1, <2>3, OthersLink
<1>26. ASSUME NEW t \in Services, trackDaemon(t) PROVE (\A u \in Threads : ThreadLinkOK(u))'
  <2>1. t \in Threads /\ OthersWait(t)
    BY <1>0, <1>26, ActsAlone DEF UserAction, DaemonAction, AcceptAction, Threads
  <2>2. pc'[t] \in {"daemon"}
    BY <1>0, <1>26, <2>1 DEF trackDaemon, Goto, CtlType
  <2>3. ThreadLinkOK(t)'
    BY <2>2 DEF ThreadLinkOK, WithLinkLabels
  <2> QED BY <1>0, <2>1, <2>3, OthersLink
<1>27. ASSUME NEW t \in Users, countFreed(t) PROVE (\A u \in Threads : ThreadLinkOK(u))'
  <2>1. t \in Threads /\ OthersWait(t)
    BY <1>0, <1>27, ActsAlone DEF UserAction, DaemonAction, AcceptAction, Threads
  <2>2. pc'[t] \in {"idle", "closeAccepted"}
    BY <1>0, <1>27, <2>1 DEF countFreed, Goto, Return, CtlType
  <2>3. ThreadLinkOK(t)'
    BY <2>2 DEF ThreadLinkOK, WithLinkLabels
  <2> QED BY <1>0, <2>1, <2>3, OthersLink
<1> QED BY NextIsAction, <1>1, <1>2, <1>3, <1>4, <1>5, <1>6, <1>7, <1>8, <1>9, <1>10, <1>11, <1>12,
     <1>13, <1>14, <1>15, <1>16, <1>17, <1>18, <1>19, <1>20, <1>21, <1>22, <1>23, <1>24, <1>25, <1>26, <1>27
     DEF UserAction, DaemonAction, AcceptAction, Threads

(* Every step keeps references to link objects references to allocated ones. *)
LEMMA NextLinksOK == ASSUME TypeInv, Next PROVE LinksOK'
<1>1. (\A o \in Objs : Allocated(o) => link[o].id \in Slots)'
  BY NextLink DEF LinkStep, TypeInv, LinksOK
<1> QED BY <1>1, NextOwnedOK, NextTakenOK, NextThreadLinkOK, NextListedOK
        DEF LinksOK, OwnedOK, TakenOK, ThreadLinkOK, ListedOK

-----------------------------------------------------------------------------
(* The first states, and every step: the types hold throughout. *)
LEMMA InitTypeInv == ASSUME Init PROVE TypeInv
<1>1. Unused \in LinkRecords /\ Unused.mem = "none"
  BY ConstantsOK DEF Unused, LinkRecords
<1>2. Offline \in SrvRecords /\ \A i \in 1 .. MaxDaemon : Offline.DaemonAccept[i] = Null
  BY ConstantsOK DEF Offline, SrvRecords
<1>3. TblType /\ LinkType /\ SrvType
  BY <1>1, <1>2 DEF Init, TblType, LinkType, SrvType
<1>4. CtlType
  BY NoOpIsOp DEF Init, CtlType, Labels, Results
<1>5. AppType
  BY ConstantsOK DEF Init, AppType
<1>6. TypeOK
  BY <1>3, <1>4, <1>5 DEF TypeOK, TblType, LinkType, SrvType, CtlType, AppType
<1>7. OpOK
  BY ConstantsOK DEF Init, OpOK, ThreadOK, Threads, UserLabels, DaemonLabels, Labels, OwnObjLabels,
       UninvolvedLabels
<1>8. \A t \in Threads : pc[t] \notin WithLinkLabels
  BY DEF Init, WithLinkLabels
<1>9. \A o \in Objs : ~Allocated(o)
  BY <1>1 DEF Init, Allocated
<1>10. LinksOK
  BY <1>2, <1>8, <1>9 DEF Init, LinksOK
<1> QED BY <1>6, <1>7, <1>10 DEF TypeInv

(* TypeInv is inductive. *)
LEMMA NextTypeInv == ASSUME TypeInv, [Next]_vars PROVE TypeInv'
<1>1. CASE Next
  BY <1>1, NextTypeOK, NextOpOK, NextLinksOK DEF TypeInv
<1>2. CASE UNCHANGED vars
  BY <1>2 DEF vars, TypeInv, TypeOK, OpOK, ThreadOK, LinksOK, Allocated
<1> QED BY <1>1, <1>2

(* Whatever the threads do, every variable has its type: no index and no pointer is one that does not *)
(* exist, no array of a service and no slot of the table holds anything but IDs and link objects.     *)
THEOREM TypeCorrect == Spec => []TypeOK
<1>1. Init => TypeInv
  BY InitTypeInv
<1>2. TypeInv /\ [Next]_vars => TypeInv'
  BY NextTypeInv
<1>3. TypeInv => TypeOK
  BY DEF TypeInv
<1> QED BY <1>1, <1>2, <1>3, PTL DEF Spec

-----------------------------------------------------------------------------
(* A connector that waits goes on waiting until it is signaled. *)
LEMMA WaitersStay ==
    ASSUME TypeInv, Next
    PROVE  \A u \in Users : pc[u] = "waitAccepted" =>
              (pc'[u] = pc[u] /\ op'[u] = op[u]) \/ srv[op[u].srv].signaled
<1> SUFFICES ASSUME NEW u \in Users, pc[u] = "waitAccepted"
             PROVE  (pc'[u] = pc[u] /\ op'[u] = op[u]) \/ srv[op[u].srv].signaled
  OBVIOUS
<1>0. CtlType /\ AppType /\ OpOK
  BY DEF TypeInv, TypeOK, CtlType, AppType
<1>1. ASSUME NEW t \in Threads, UserAction(t) \/ DaemonAction(t) \/ AcceptAction(t), u # t
      PROVE  pc'[u] = pc[u] /\ op'[u] = op[u]
  BY <1>0, <1>1, ActsAlone DEF OthersWait, Threads
<1>2. ASSUME CallApi(u) \/ allocConnecting(u) \/ findService(u) \/ offerConnection(u) \/
             finishConnect(u) \/ refuseAccept(u) \/ allocAccepting(u) \/ noOffer(u) \/
             rejectOffer(u) PROVE srv[op[u].srv].signaled
  BY <1>2 DEF CallApi, allocConnecting, findService, offerConnection, finishConnect, refuseAccept,
       allocAccepting, noOffer, rejectOffer
<1>3. ASSUME acceptOffer(u) \/ wakeAcceptor(u) \/ trackManual(u) \/ closeLink(u) \/ lockLink(u) \/
             clearPeer(u) \/ freeLink(u) \/ offlineService(u) PROVE srv[op[u].srv].signaled
  BY <1>3 DEF acceptOffer, wakeAcceptor, trackManual, closeLink, lockLink, clearPeer, freeLink,
       offlineService
<1>4. ASSUME joinDaemon(u) \/ closeDaemonLink(u) \/ closeManualLink(u) \/ finishOffline(u) \/
             acceptTimedOut(u) \/ countFreed(u) \/ daemonAlloc(u) \/ daemonExit(u) \/
             trackDaemon(u) PROVE srv[op[u].srv].signaled
  BY <1>4 DEF joinDaemon, closeDaemonLink, closeManualLink, finishOffline, acceptTimedOut, countFreed,
       daemonAlloc, daemonExit, trackDaemon
<1>5. ASSUME NEW t \in Users, onlineService(t) PROVE pc'[u] = pc[u] /\ op'[u] = op[u]
  <2>1. op[t].srv \in Services /\ u # t
    BY <1>0, <1>5 DEF onlineService, OpOK, ThreadOK, Threads
  <2> QED BY <1>0, <1>5, <2>1, ConstantsOK DEF onlineService, Return, CtlType, Threads
<1> QED BY NextIsAction, <1>1, <1>2, <1>3, <1>4, <1>5 DEF UserAction, DaemonAction, AcceptAction

(* A service that is offline, or has just come online, has no offer. *)
LEMMA OfflineOffer == Offline.pConnLinkObj = Null /\ [Offline EXCEPT !.online = TRUE].pConnLinkObj = Null
BY DEF Offline

(* Offers are made by offerConnection only. *)
OffersStay == \A s \in Services :
    \/ srv'[s].pConnLinkObj = Null
    \/ /\ srv'[s].ConnMutex = srv[s].ConnMutex
       /\ srv'[s].pConnLinkObj = srv[s].pConnLinkObj
       /\ srv'[s].signaled = srv[s].signaled
(* A step makes no offer but that of offerConnection. *)
LEMMA NextOffer ==
    ASSUME TypeInv, Rendezvous, Next
    PROVE  OffersStay \/ \E t \in Users : offerConnection(t)
<1>0. SrvType /\ OpOK /\ AppType
  BY DEF TypeInv, TypeOK, SrvType, AppType
<1>1. ASSUME NEW t \in Users, onlineService(t) PROVE OffersStay
  <2>1. op[t].srv \in Services
    BY <1>0, <1>1, OwnObj DEF onlineService, OpOK, ThreadOK, Threads, OwnObjLabels, UninvolvedLabels
  <2> QED BY <1>0, <1>1, <2>1, OfflineOffer DEF onlineService, OffersStay, SrvType, SrvRecords
<1>2. ASSUME NEW t \in Users, finishConnect(t) PROVE OffersStay
  <2>1. op[t].srv \in Services
    BY <1>0, <1>2, OwnObj DEF finishConnect, OpOK, ThreadOK, Threads, OwnObjLabels, UninvolvedLabels
  <2> QED BY <1>0, <1>2, <2>1 DEF finishConnect, OffersStay, SrvType, SrvRecords, Rendezvous
<1>3. ASSUME NEW t \in Threads, rejectOffer(t) PROVE OffersStay
  <2>1. op[t].srv \in Services
    BY <1>0, <1>3, OwnObj DEF rejectOffer, OpOK, ThreadOK, Threads, OwnObjLabels, UninvolvedLabels
  <2> QED BY <1>0, <1>3, <2>1 DEF rejectOffer, takeOffer, OffersStay, SrvType, SrvRecords
<1>4. ASSUME NEW t \in Threads, acceptOffer(t) PROVE OffersStay
  <2>1. op[t].srv \in Services
    BY <1>0, <1>4, OwnObj DEF acceptOffer, OpOK, ThreadOK, Threads, OwnObjLabels, UninvolvedLabels
  <2>2. takeOffer(op[t].srv)
    BY <1>4 DEF acceptOffer
  <2> QED BY <1>0, <2>1, <2>2 DEF takeOffer, OffersStay, SrvType, SrvRecords
<1>5. ASSUME NEW t \in Users, trackManual(t) PROVE OffersStay
  <2>1. op[t].srv \in Services
    BY <1>0, <1>5, OwnObj DEF trackManual, OpOK, ThreadOK, Threads, OwnObjLabels, UninvolvedLabels
  <2> QED BY <1>0, <1>5, <2>1 DEF trackManual, OffersStay, SrvType, SrvRecords
<1>6. ASSUME NEW t \in Users, offlineService(t) PROVE OffersStay
  <2>1. op[t].srv \in Services
    BY <1>0, <1>6, OwnObj DEF offlineService, OpOK, ThreadOK, Threads, OwnObjLabels, UninvolvedLabels
  <2> QED BY <1>0, <1>6, <2>1 DEF offlineService, OffersStay, SrvType, SrvRecords
<1>7. ASSUME NEW t \in Users, closeDaemonLink(t) PROVE OffersStay
  <2>1. op[t].srv \in Services
    BY <1>0, <1>7, OwnObj DEF closeDaemonLink, OpOK, ThreadOK, Threads, OwnObjLabels, UninvolvedLabels
  <2> QED BY <1>0, <1>7, <2>1 DEF closeDaemonLink, OffersStay, SrvType, SrvRecords
<1>8. ASSUME NEW t \in Users, closeManualLink(t) PROVE OffersStay
  <2>1. op[t].srv \in Services
    BY <1>0, <1>8, OwnObj DEF closeManualLink, OpOK, ThreadOK, Threads, OwnObjLabels, UninvolvedLabels
  <2> QED BY <1>0, <1>8, <2>1 DEF closeManualLink, OffersStay, SrvType, SrvRecords
<1>9. ASSUME NEW t \in Users, finishOffline(t) PROVE OffersStay
  <2>1. op[t].srv \in Services
    BY <1>0, <1>9, OwnObj DEF finishOffline, OpOK, ThreadOK, Threads, OwnObjLabels, UninvolvedLabels
  <2> QED BY <1>0, <1>9, <2>1, OfflineOffer DEF finishOffline, OffersStay, SrvType, SrvRecords
<1>10. ASSUME NEW t \in Services, trackDaemon(t) PROVE OffersStay
  <2>1. op[t].srv \in Services
    BY <1>0, <1>10, OwnObj DEF trackDaemon, OpOK, ThreadOK, Threads, OwnObjLabels, UninvolvedLabels
  <2> QED BY <1>0, <1>10, <2>1 DEF trackDaemon, OffersStay, SrvType, SrvRecords
<1>11. ASSUME NEW t \in Threads, CallApi(t) \/ allocConnecting(t) \/ findService(t) \/
              refuseAccept(t) \/ allocAccepting(t) \/ noOffer(t) \/ wakeAcceptor(t) \/ closeLink(t) \/
              lockLink(t) \/ clearPeer(t) \/ freeLink(t) \/ joinDaemon(t) \/ acceptTimedOut(t) \/
              daemonAlloc(t) \/ daemonExit(t) \/ countFreed(t) PROVE OffersStay
  BY <1>11 DEF OffersStay, countFreed, CallApi, allocConnecting, findService, refuseAccept, allocAccepting, noOffer,
       wakeAcceptor, closeLink, lockLink, clearPeer, freeLink, joinDaemon, acceptTimedOut, daemonAlloc,
       daemonExit
<1> QED BY NextIsAction, <1>1, <1>2, <1>3, <1>4, <1>5, <1>6, <1>7, <1>8, <1>9, <1>10, <1>11
     DEF UserAction, DaemonAction, AcceptAction, Threads

(* Rendezvous is inductive, given TypeInv. *)
LEMMA NextRendezvous == ASSUME TypeInv, Rendezvous, Next PROVE Rendezvous'
<1>0. SrvType /\ OpOK /\ AppType /\ CtlType
  BY DEF TypeInv, TypeOK, SrvType, AppType, CtlType
<1>1. CASE OffersStay
  <2>1. \A s \in Services : srv[s].ConnMutex \in Users \cup {Null}
    BY <1>0 DEF SrvType, SrvRecords
  <2> QED BY <1>1, <2>1, WaitersStay DEF Rendezvous, OffersStay
<1>2. ASSUME NEW t \in Users, offerConnection(t) PROVE Rendezvous'
  <2>1. PICK s \in Services : s = op[t].srv
    BY <1>0, <1>2 DEF offerConnection, OpOK, ThreadOK, Threads
  <2>2. /\ srv'[s].ConnMutex = t /\ srv'[s].pConnLinkObj = op[t].obj /\ srv'[s].signaled = FALSE
        /\ \A r \in Services \ {s} : srv'[r] = srv[r]
    BY <1>0, <1>2, <2>1 DEF offerConnection, SrvType, SrvRecords
  <2>3. pc'[t] = "waitAccepted" /\ op' = op /\ pc[t] = "lockConn" /\ \A u \in Threads \ {t} : pc'[u] = pc[u]
    BY <1>0, <1>2 DEF offerConnection, Goto, CtlType, Threads
  <2>4. \A r \in Services : srv[r].ConnMutex \in Users \cup {Null}
    BY <1>0 DEF SrvType, SrvRecords
  <2>5. t # Null
    BY ConstantsOK DEF Threads
  <2> QED BY <2>1, <2>2, <2>3, <2>4, <2>5 DEF Rendezvous, Threads
<1> QED BY <1>1, <1>2, NextOffer

(* The assertions of connectService hold, whatever services come and go in between. *)
THEOREM RendezvousHolds == Spec => []Rendezvous
<1>1. Init => TypeInv /\ Rendezvous
  BY InitTypeInv DEF Init, Rendezvous, Offline
<1>2. TypeInv /\ Rendezvous /\ [Next]_vars => (TypeInv /\ Rendezvous)'
  <2>1. ASSUME TypeInv, Rendezvous, Next PROVE Rendezvous'
    BY <2>1, NextRendezvous
  <2>2. ASSUME Rendezvous, UNCHANGED vars PROVE Rendezvous'
    BY <2>2 DEF Rendezvous, vars
  <2> QED BY <2>1, <2>2, NextTypeInv
<1> QED BY <1>1, <1>2, PTL DEF Spec

-----------------------------------------------------------------------------
(* Only acceptOffer involves link objects in an acceptance. *)
SameAccepted == accepted' = accepted \/ \E o, array : accepted' = Remember(o, array)
(* acceptOffer alone changes what was accepted, apart from what is remembered of it. *)
LEMMA NextAccepted == ASSUME Next PROVE SameAccepted \/ \E t \in Threads : acceptOffer(t)
<1>1. ASSUME NEW t \in Threads, trackManual(t) \/ trackDaemon(t) PROVE SameAccepted
  BY <1>1 DEF trackManual, trackDaemon, SameAccepted
<1>2. ASSUME NEW t \in Threads, CallApi(t) \/ onlineService(t) \/ allocConnecting(t) \/
             findService(t) \/ offerConnection(t) \/ finishConnect(t) \/ refuseAccept(t) \/
             allocAccepting(t) \/ noOffer(t) \/ rejectOffer(t) \/ wakeAcceptor(t) \/ closeLink(t) \/
             lockLink(t) \/ clearPeer(t) \/ freeLink(t) \/ offlineService(t) \/ joinDaemon(t) \/
             closeDaemonLink(t) \/ closeManualLink(t) \/ finishOffline(t) \/ acceptTimedOut(t) \/
             daemonAlloc(t) \/ daemonExit(t) \/ countFreed(t) PROVE SameAccepted
  BY <1>2 DEF SameAccepted, countFreed, CallApi, onlineService, allocConnecting, findService, offerConnection,
       finishConnect, refuseAccept, allocAccepting, noOffer, rejectOffer, wakeAcceptor, closeLink,
       lockLink, clearPeer, freeLink, offlineService, joinDaemon, closeDaemonLink, closeManualLink,
       finishOffline, acceptTimedOut, daemonAlloc, daemonExit
<1> QED BY NextIsAction, <1>1, <1>2 DEF UserAction, DaemonAction, AcceptAction, Threads

SameInvolved == /\ \A b \in accepted' : \E a \in accepted : b.server = a.server /\ b.client = a.client
                /\ \A a \in accepted : \E b \in accepted' : b.server = a.server /\ b.client = a.client
(* What is remembered of an acceptance does not change whom it involved. *)
LEMMA SameAcceptedInvolves == ASSUME TypeInv, SameAccepted PROVE SameInvolved
<1>1. accepted \subseteq Acceptances
  BY DEF TypeInv, TypeOK, Acceptances
<1> QED BY <1>1, RememberType DEF SameInvolved, SameAccepted

(* A thread gets an object that no acceptance involved by allocating it, and offers that object. *)
ThreadMoves(u) ==
    /\ pc'[u] \in UninvolvedLabels => \/ pc[u] \in UninvolvedLabels /\ op'[u].obj = op[u].obj
                                      \/ op'[u].obj = <<u, calls[u] + 1>> /\ calls[u] + 1 \in 1 .. MaxObjs
    /\ pc'[u] = "waitAccepted" => pc[u] \in {"waitAccepted", "lockConn"} /\ op'[u].obj = op[u].obj
    /\ calls[u] <= calls'[u]
(* Every step of a thread moves the objects of all threads this way. *)
LEMMA NextThreadMoves == ASSUME TypeInv, Next PROVE \A u \in Threads : ThreadMoves(u)
<1> SUFFICES ASSUME NEW u \in Threads PROVE ThreadMoves(u)
  OBVIOUS
<1>0. CtlType /\ AppType /\ OpOK
  BY DEF TypeInv, TypeOK, CtlType, AppType
<1>1. ASSUME NEW t \in Threads, UserAction(t) \/ DaemonAction(t) \/
             AcceptAction(t), u # t PROVE ThreadMoves(u)
  BY <1>0, <1>1, ActsAlone DEF OthersWait, ThreadMoves, AppType
<1>2. ASSUME NEW t \in Users, onlineService(t) PROVE ThreadMoves(u)
  <2>1. (pc'[u] = pc[u] /\ op'[u] = op[u]) \/ pc'[u] \in {"idle", "daemon"}
    BY <1>0, <1>2 DEF onlineService, Return, CtlType
  <2> QED BY <1>0, <1>2, <2>1 DEF ThreadMoves, onlineService, appVars, AppType, UninvolvedLabels
<1>3. ASSUME u \in Users, CallApi(u) PROVE ThreadMoves(u)
  <2>1. calls[u] + 1 \in 1 .. MaxObjs /\ calls'[u] = calls[u] + 1
    BY <1>0, <1>3, NextObj, ConstantsOK DEF CallApi, AppType
  <2>2. pc'[u] \in {"close", "online", "offline"} \/ op'[u].obj = <<u, calls[u] + 1>>
    BY <1>0, <1>3, ConstantsOK DEF CallApi, Goto, CtlType, Ops
  <2>3. pc'[u] # "waitAccepted"
    BY <1>0, <1>3, ConstantsOK DEF CallApi, Goto, CtlType, Ops
  <2> QED BY <1>0, <2>1, <2>2, <2>3 DEF ThreadMoves, UninvolvedLabels, AppType
<1>4. ASSUME allocConnecting(u) PROVE ThreadMoves(u)
  <2>1. /\ pc[u] = "connect" /\ calls' = calls
        /\ \/ pc' = [pc EXCEPT ![u] = "idle"]
           \/ pc' = [pc EXCEPT ![u] = "findService"] /\ op' = op
    BY <1>4 DEF allocConnecting, Return, Goto, appVars
  <2> QED BY <1>0, <2>1 DEF ThreadMoves, UninvolvedLabels, CtlType, AppType
<1>5. ASSUME findService(u) PROVE ThreadMoves(u)
  BY <1>0, <1>5 DEF findService, Goto, failConnect, Return, ThreadMoves, UninvolvedLabels, CtlType,
       AppType, appVars
<1>6. ASSUME offerConnection(u) PROVE ThreadMoves(u)
  BY <1>0, <1>6 DEF offerConnection, Goto, ThreadMoves, UninvolvedLabels, CtlType, AppType, appVars
<1>7. ASSUME finishConnect(u) PROVE ThreadMoves(u)
  BY <1>0, <1>7 DEF finishConnect, failConnect, Return, ThreadMoves, UninvolvedLabels, CtlType, AppType,
       appVars
<1>8. ASSUME refuseAccept(u) PROVE ThreadMoves(u)
  BY <1>0, <1>8 DEF refuseAccept, Return, ThreadMoves, UninvolvedLabels, CtlType, AppType, appVars
<1>9. ASSUME allocAccepting(u) PROVE ThreadMoves(u)
  BY <1>0, <1>9 DEF allocAccepting, Goto, ThreadMoves, UninvolvedLabels, CtlType, AppType, appVars
<1>10. ASSUME noOffer(u) PROVE ThreadMoves(u)
  BY <1>0, <1>10 DEF noOffer, Goto, ThreadMoves, UninvolvedLabels, CtlType, AppType, appVars
<1>11. ASSUME rejectOffer(u) PROVE ThreadMoves(u)
  BY <1>0, <1>11 DEF rejectOffer, ThreadMoves, UninvolvedLabels, CtlType, AppType, appVars
<1>12. ASSUME acceptOffer(u) PROVE ThreadMoves(u)
  <2>1. Goto(u, "track") /\ UNCHANGED appVars
    BY <1>12 DEF acceptOffer
  <2>2. pc'[u] = "track" /\ calls[u] <= calls'[u]
    BY <1>0, <2>1 DEF Goto, appVars, CtlType, AppType
  <2> QED BY <2>2 DEF ThreadMoves, UninvolvedLabels
<1>13. ASSUME wakeAcceptor(u) PROVE ThreadMoves(u)
  BY <1>0, <1>13 DEF wakeAcceptor, Goto, ThreadMoves, UninvolvedLabels, CtlType, AppType, appVars
<1>14. ASSUME trackManual(u) PROVE ThreadMoves(u)
  BY <1>0, <1>14 DEF trackManual, Return, ThreadMoves, UninvolvedLabels, CtlType, AppType, appVars
<1>15. ASSUME closeLink(u) PROVE ThreadMoves(u)
  BY <1>0, <1>15 DEF closeLink, Return, beginClose, Goto, ThreadMoves, UninvolvedLabels, CtlType,
       AppType, appVars
<1>16. ASSUME lockLink(u) PROVE ThreadMoves(u)
  BY <1>0, <1>16 DEF lockLink, Goto, ThreadMoves, UninvolvedLabels, CtlType, AppType, appVars
<1>17. ASSUME clearPeer(u) PROVE ThreadMoves(u)
  BY <1>0, <1>17 DEF clearPeer, Goto, ThreadMoves, UninvolvedLabels, CtlType, AppType, appVars
<1>18. ASSUME freeLink(u) PROVE ThreadMoves(u)
  BY <1>0, <1>18 DEF freeLink, Goto, Return, ThreadMoves, UninvolvedLabels, CtlType, AppType, appVars
<1>19. ASSUME offlineService(u) PROVE ThreadMoves(u)
  BY <1>0, <1>19 DEF offlineService, Return, Goto, ThreadMoves, UninvolvedLabels, CtlType, AppType,
       appVars
<1>20. ASSUME joinDaemon(u) PROVE ThreadMoves(u)
  BY <1>0, <1>20 DEF joinDaemon, Goto, ThreadMoves, UninvolvedLabels, CtlType, AppType, appVars
<1>21. ASSUME closeDaemonLink(u) PROVE ThreadMoves(u)
  BY <1>0, <1>21 DEF closeDaemonLink, Goto, ThreadMoves, UninvolvedLabels, CtlType, AppType, appVars
<1>22. ASSUME closeManualLink(u) PROVE ThreadMoves(u)
  <2>1. pc'[u] \in {"closeAccepted", "lockLink", "aborted"} /\ calls' = calls
    BY <1>0, <1>22 DEF closeManualLink, beginClose, Goto, CtlType, appVars
  <2> QED BY <1>0, <2>1 DEF ThreadMoves, UninvolvedLabels, AppType
<1>23. ASSUME finishOffline(u) PROVE ThreadMoves(u)
  BY <1>0, <1>23 DEF finishOffline, Return, ThreadMoves, UninvolvedLabels, CtlType, AppType, appVars
<1>24. ASSUME acceptTimedOut(u) PROVE ThreadMoves(u)
  BY <1>0, <1>24 DEF acceptTimedOut, Goto, ThreadMoves, UninvolvedLabels, CtlType, AppType, appVars
<1>25. ASSUME daemonAlloc(u) PROVE ThreadMoves(u)
  <2>1. calls[u] + 1 \in 1 .. MaxObjs /\ calls'[u] = calls[u] + 1
    BY <1>0, <1>25, NextObj, ConstantsOK DEF daemonAlloc, AppType
  <2>2. op'[u].obj = <<u, calls[u] + 1>>
    BY <1>0, <1>25 DEF daemonAlloc, CtlType, OpRecords
  <2>3. pc'[u] # "waitAccepted"
    BY <1>0, <1>25 DEF daemonAlloc, Goto, CtlType
  <2> QED BY <1>0, <2>1, <2>2, <2>3 DEF ThreadMoves, UninvolvedLabels, AppType
<1>26. ASSUME daemonExit(u) PROVE ThreadMoves(u)
  BY <1>0, <1>26 DEF daemonExit, Goto, ThreadMoves, UninvolvedLabels, CtlType, AppType, appVars
<1>27. ASSUME trackDaemon(u) PROVE ThreadMoves(u)
  BY <1>0, <1>27 DEF trackDaemon, Goto, ThreadMoves, UninvolvedLabels, CtlType, AppType, appVars
<1>28. ASSUME countFreed(u) PROVE ThreadMoves(u)
  BY <1>0, <1>28 DEF countFreed, Goto, Return, ThreadMoves, UninvolvedLabels, CtlType, AppType, appVars
<1> QED BY NextIsAction, <1>1, <1>2, <1>3, <1>4, <1>5, <1>6, <1>7, <1>8, <1>9, <1>10, <1>11, <1>12,
     <1>13, <1>14, <1>15, <1>16, <1>17, <1>18, <1>19, <1>20, <1>21, <1>22, <1>23, <1>24, <1>25, <1>26,
     <1>27, <1>28 DEF UserAction, DaemonAction, AcceptAction, Threads

(* What a step other than acceptOffer does to the link objects. *)
LinkEffects == \A o \in Objs :
    /\ link'[o].pPeer \in {link[o].pPeer, Null}
    /\ Involved(o) => link'[o].usage = link[o].usage
    /\ link'[o].ConnState = "Connected" =>
          \/ link[o].ConnState = "Connected"
          \/ o[1] \in Services
          \/ link[o].pPeer # Null /\ \E u \in Users : pc[u] = "waitAccepted" /\ op[u].obj = o

(* Allocating a link object that no acceptance involved is such an effect. *)
LEMMA FreshAlloc ==
    ASSUME LinkType, NEW o \in Objs, NEW usage, NEW state \in {"Connecting", "Disconnected"},
           NEW methods, allocLinkObj(o, usage, state, methods), ~Involved(o)
    PROVE  LinkEffects
BY NewAllocated DEF LinkEffects

(* Every step other than acceptOffer has these effects on the link objects. *)
LEMMA NextLinkEffects ==
    ASSUME IInv, Next
    PROVE  LinkEffects \/ \E t \in Threads : acceptOffer(t)
<1>0. LinkType /\ OpOK /\ AppType /\ SrvType
  BY DEF IInv, TypeInv, TypeOK, LinkType, AppType, SrvType
<1>1. ASSUME NEW t \in Users, allocConnecting(t) PROVE LinkEffects
  <2>1. op[t].obj \in Objs /\ ~Involved(op[t].obj)
    BY <1>0, <1>1 DEF allocConnecting, OpOK, ThreadOK, Threads, IInv, FreshOK, UninvolvedLabels
  <2>2. link' = link \/ \E usage : allocLinkObj(op[t].obj, usage, "Connecting", FALSE)
    BY <1>1 DEF allocConnecting
  <2>3. CASE link' = link
    BY <2>3 DEF LinkEffects
  <2> QED BY <1>0, <2>1, <2>2, <2>3, FreshAlloc
<1>2. ASSUME NEW t \in Users, findService(t) PROVE LinkEffects
  BY <1>0, <1>2 DEF findService, failConnect, LinkEffects, LinkType, LinkRecords
<1>3. ASSUME NEW t \in Users, finishConnect(t) PROVE LinkEffects
  <2>1. op[t].srv \in Services /\ op[t].obj \in Objs /\ pc[t] = "waitAccepted"
    BY <1>0, <1>3 DEF finishConnect, OpOK, ThreadOK, Threads
  <2>2. srv[op[t].srv].pConnLinkObj = Null
    BY <1>3, <2>1 DEF finishConnect, IInv, Rendezvous
  <2>3. CASE link' = [link EXCEPT ![op[t].obj].mem = "freed"]
    BY <1>0, <2>3 DEF LinkEffects, LinkType, LinkRecords
  <2>4. CASE /\ link[op[t].obj].pPeer # Null
             /\ link' = [link EXCEPT ![op[t].obj].pMethods = TRUE, ![op[t].obj].ConnState = "Connected"]
    <3>1. \A o \in Objs : link'[o].pPeer = link[o].pPeer /\ link'[o].usage = link[o].usage
      BY <1>0, <2>4 DEF LinkType, LinkRecords
    <3>2. \A o \in Objs \ {op[t].obj} : link'[o] = link[o]
      BY <1>0, <2>4 DEF LinkType
    <3> QED BY <2>1, <2>4, <3>1, <3>2 DEF LinkEffects
  <2> QED BY <1>3, <2>2, <2>3, <2>4 DEF finishConnect, failConnect
<1>4. ASSUME NEW t \in Users, allocAccepting(t) PROVE LinkEffects
  <2>1. op[t].obj \in Objs /\ ~Involved(op[t].obj)
    BY <1>0, <1>4 DEF allocAccepting, OpOK, ThreadOK, Threads, IInv, FreshOK, UninvolvedLabels
  <2>2. link' = link \/ \E usage : allocLinkObj(op[t].obj, usage, "Disconnected", TRUE)
    BY <1>4 DEF allocAccepting
  <2>3. CASE link' = link
    BY <2>3 DEF LinkEffects
  <2> QED BY <1>0, <2>1, <2>2, <2>3, FreshAlloc
<1>5. ASSUME NEW t \in Users, closeLink(t) PROVE LinkEffects
  <2>1. link' = link \/ \E o : link' = [link EXCEPT ![o].ConnState = "Disconnecting"]
    BY <1>5 DEF closeLink, beginClose
  <2> QED BY <1>0, <2>1 DEF LinkEffects, LinkType, LinkRecords
<1>6. ASSUME NEW t \in Users, lockLink(t) PROVE LinkEffects
  BY <1>0, <1>6 DEF lockLink, LinkEffects, LinkType, LinkRecords
<1>7. ASSUME NEW t \in Users, clearPeer(t) PROVE LinkEffects
  <2>1. \A o \in Objs : link'[o].pPeer \in {link[o].pPeer, Null}
    BY <1>0, <1>7 DEF clearPeer, unpeer, LinkType, LinkRecords
  <2>2. \A o \in Objs : link'[o].usage = link[o].usage /\ link'[o].ConnState = link[o].ConnState
    BY <1>0, <1>7 DEF clearPeer, unpeer, LinkType, LinkRecords
  <2>3. ASSUME NEW o \in Objs
        PROVE  /\ link'[o].pPeer \in {link[o].pPeer, Null}
               /\ link'[o].usage = link[o].usage
               /\ link'[o].ConnState = "Connected" => link[o].ConnState = "Connected"
    BY <2>1, <2>2
  <2> QED BY <2>3 DEF LinkEffects
<1>8. ASSUME NEW t \in Users, freeLink(t) PROVE LinkEffects
  BY <1>0, <1>8 DEF freeLink, freeLinkObj, LinkEffects, LinkType, LinkRecords
<1>9. ASSUME NEW t \in Users, closeManualLink(t) PROVE LinkEffects
  <2>1. link' = link \/ \E x : link' = [link EXCEPT ![x].ConnState = "Disconnecting"]
    BY <1>9 DEF closeManualLink, beginClose
  <2>2. ASSUME NEW x, link' = [link EXCEPT ![x].ConnState = "Disconnecting"] PROVE LinkEffects
    BY <1>0, <2>2 DEF LinkEffects, LinkType, LinkRecords
  <2>3. CASE link' = link
    BY <2>3 DEF LinkEffects
  <2> QED BY <2>1, <2>2, <2>3
<1>10. ASSUME NEW t \in Users, acceptTimedOut(t) PROVE LinkEffects
  BY <1>0, <1>10 DEF acceptTimedOut, freeLinkObj, LinkEffects, LinkType, LinkRecords
<1>11. ASSUME NEW t \in Services, daemonAlloc(t) PROVE LinkEffects
  <2>1. <<t, calls[t] + 1>> \in Objs /\ ~Involved(<<t, calls[t] + 1>>)
    BY <1>0, <1>11, NextObj DEF daemonAlloc, AppType, Threads, IInv, FreshOK
  <2>2. allocLinkObj(<<t, calls[t] + 1>>, {}, "Disconnected", FALSE)
    BY <1>11 DEF daemonAlloc
  <2> QED BY <1>0, <2>1, <2>2, FreshAlloc
<1>12. ASSUME NEW t \in Services, trackDaemon(t) PROVE LinkEffects
  <2>1. op[t].obj[1] \in Services
    BY <1>0, <1>12, OwnObj DEF trackDaemon, Threads, OwnObjLabels, UninvolvedLabels
  <2>2. CASE link' = [link EXCEPT ![op[t].obj].pMethods = TRUE]
    BY <1>0, <2>2 DEF LinkEffects, LinkType, LinkRecords
  <2>3. CASE link' = [link EXCEPT ![op[t].obj].pMethods = TRUE, ![op[t].obj].ConnState = "Connected"]
    <3>1. \A o \in Objs : link'[o].pPeer = link[o].pPeer /\ link'[o].usage = link[o].usage
      BY <1>0, <2>3 DEF LinkType, LinkRecords
    <3>2. \A o \in Objs \ {op[t].obj} : link'[o] = link[o]
      BY <1>0, <2>3 DEF LinkType
    <3> QED BY <2>1, <3>1, <3>2 DEF LinkEffects
  <2> QED BY <1>12, <2>2, <2>3 DEF trackDaemon
<1>13. ASSUME NEW t \in Threads, CallApi(t) \/ onlineService(t) \/ offerConnection(t) \/
              refuseAccept(t) \/ noOffer(t) \/ rejectOffer(t) \/ wakeAcceptor(t) \/ trackManual(t) \/
              offlineService(t) \/ joinDaemon(t) \/ closeDaemonLink(t) \/ finishOffline(t) \/
              daemonExit(t) \/ countFreed(t) PROVE LinkEffects
  <2>1. link' = link
    BY <1>13 DEF CallApi, onlineService, offerConnection, refuseAccept, noOffer, rejectOffer,
         wakeAcceptor, trackManual, offlineService, joinDaemon, closeDaemonLink, finishOffline,
         daemonExit, countFreed
  <2> QED BY <2>1 DEF LinkEffects
<1> QED BY NextIsAction, <1>1, <1>2, <1>3, <1>4, <1>5, <1>6, <1>7, <1>8, <1>9, <1>10, <1>11, <1>12,
     <1>13 DEF UserAction, DaemonAction, AcceptAction, Threads

(* A step that accepts nobody. *)
LEMMA NextFreshElse == ASSUME IInv, Next, SameInvolved, LinkEffects PROVE FreshOK'
<1>0. AppType /\ AppType' /\ OpOK /\ SrvType
  BY NextTypeInv DEF IInv, TypeInv, TypeOK, AppType, SrvType
<1>1. \A o : Involved(o)' <=> Involved(o)
  BY DEF SameInvolved, Involved
<1>2. \A t \in Threads : ThreadMoves(t)
  BY NextThreadMoves DEF IInv
<1>3. \A t \in Threads, n \in 1 .. MaxObjs : Involved(<<t, n>>)' => n <= calls'[t]
  <2> SUFFICES ASSUME NEW t \in Threads, NEW n \in 1 .. MaxObjs, Involved(<<t, n>>)'
               PROVE  n <= calls'[t]
    OBVIOUS
  <2>1. n <= calls[t]
    BY <1>1 DEF IInv, FreshOK
  <2>2. calls[t] <= calls'[t] /\ calls[t] \in Int /\ calls'[t] \in Int
    BY <1>0, <1>2 DEF ThreadMoves, AppType
  <2> QED BY <2>1, <2>2
<1>4. ASSUME NEW t \in Threads, pc'[t] \in UninvolvedLabels PROVE ~Involved(op'[t].obj)
  <2>1. CASE pc[t] \in UninvolvedLabels /\ op'[t].obj = op[t].obj
    BY <2>1 DEF IInv, FreshOK
  <2>2. CASE op'[t].obj = <<t, calls[t] + 1>> /\ calls[t] + 1 \in 1 .. MaxObjs
    <3>1. Involved(<<t, calls[t] + 1>>) => calls[t] + 1 <= calls[t]
      BY <2>2 DEF IInv, FreshOK
    <3>2. calls[t] \in Int
      BY <1>0 DEF AppType
    <3> QED BY <2>2, <3>1, <3>2
  <2> QED BY <1>2, <1>4, <2>1, <2>2 DEF ThreadMoves
<1>5. ASSUME NEW s \in Services, srv'[s].pConnLinkObj # Null PROVE ~Involved(srv'[s].pConnLinkObj)
  <2>1. CASE OffersStay
    BY <1>5, <2>1 DEF OffersStay, IInv, FreshOK
  <2>2. ASSUME NEW t \in Users, offerConnection(t) PROVE ~Involved(srv'[s].pConnLinkObj)
    <3>1. ~Involved(op[t].obj)
      BY <2>2 DEF offerConnection, IInv, FreshOK, UninvolvedLabels, Threads
    <3>2. srv'[s].pConnLinkObj = srv[s].pConnLinkObj \/ srv'[s].pConnLinkObj = op[t].obj
      BY <1>0, <2>2 DEF offerConnection, SrvType, SrvRecords
    <3> QED BY <1>5, <3>1, <3>2 DEF IInv, FreshOK
  <2> QED BY <2>1, <2>2, NextOffer DEF IInv
<1>6. \A o \in Objs : link'[o].pPeer # Null => Involved(o)
  BY DEF LinkEffects, IInv, FreshOK
<1>7. ASSUME NEW t \in Threads, pc'[t] = "waitAccepted", NEW a \in accepted' PROVE a.server # op'[t].obj
  <2>1. PICK b \in accepted : b.server = a.server
    BY DEF SameInvolved
  <2>2. op'[t].obj = op[t].obj /\ pc[t] \in {"waitAccepted", "lockConn"}
    BY <1>2, <1>7 DEF ThreadMoves
  <2>3. b.server # op[t].obj
    BY <2>2 DEF IInv, FreshOK, Involved, UninvolvedLabels
  <2> QED BY <2>1, <2>2, <2>3
<1> QED BY <1>1, <1>3, <1>4, <1>5, <1>6, <1>7 DEF FreshOK

(* It also leaves what was accepted right. *)
LEMMA NextAcceptedElse == ASSUME IInv, SameAccepted, LinkEffects PROVE AcceptedOK'
<1>0. SameInvolved
  BY SameAcceptedInvolves DEF IInv
<1>1. \A a, b \in accepted' : a.server = b.server \/ a.client = b.client => a = b
  <2>1. accepted \subseteq Acceptances
    BY DEF IInv, TypeInv, TypeOK, Acceptances
  <2>2. CASE accepted' = accepted
    BY <2>2 DEF IInv, AcceptedOK
  <2>3. CASE \E o, array : accepted' = Remember(o, array)
    BY <2>1, <2>3, RememberType DEF IInv, AcceptedOK
  <2> QED BY <2>2, <2>3 DEF SameAccepted
<1>2. ASSUME NEW a \in accepted' PROVE Answers(a)'
  <2>1. PICK b \in accepted : b.server = a.server /\ b.client = a.client
    BY <1>0 DEF SameInvolved
  <2>2. b.server \in Objs /\ b.client \in Objs /\ Answers(b)
    BY DEF IInv, TypeInv, TypeOK, AcceptedOK
  <2>3. link'[b.server].usage = link[b.server].usage /\ link'[b.client].usage = link[b.client].usage
    BY <2>2 DEF LinkEffects, Involved
  <2> QED BY <2>1, <2>2, <2>3 DEF Answers
<1>3. ASSUME NEW o \in Users \X (1 .. MaxObjs), link'[o].ConnState = "Connected"
      PROVE  \E a \in accepted' : a.client = o
  <2>1. o \in Objs /\ o[1] \notin Services
    BY ConstantsOK DEF Objs, Threads
  <2>2. \E a \in accepted : a.client = o
    <3>1. CASE link[o].ConnState = "Connected"
      BY <3>1 DEF IInv, AcceptedOK
    <3>2. ASSUME link[o].pPeer # Null, NEW u \in Users, pc[u] = "waitAccepted", op[u].obj = o
          PROVE  \E a \in accepted : a.client = o
      <4>1. Involved(o)
        BY <2>1, <3>2 DEF IInv, FreshOK
      <4>2. \A a \in accepted : a.server # o
        BY <3>2 DEF IInv, FreshOK, Threads
      <4> QED BY <4>1, <4>2 DEF Involved
    <3> QED BY <1>3, <2>1, <3>1, <3>2 DEF LinkEffects
  <2> QED BY <1>0, <2>2 DEF SameInvolved
<1> QED BY <1>1, <1>2, <1>3 DEF AcceptedOK

(* The two ends of a connection, paired: the peers, and the usage of the accepting end. *)
LEMMA PairedLinks ==
    ASSUME LinkType, NEW o \in Objs, NEW c \in Objs, c # o, NEW usage, NEW copied \in BOOLEAN,
           link' = [link EXCEPT ![o].pPeer = c, ![o].usage = usage, ![o].pMethods = @ \/ copied, ![c].pPeer = o]
    PROVE  /\ \A x \in Objs : link'[x].ConnState = link[x].ConnState
           /\ \A x \in Objs \ {o, c} : link'[x] = link[x]
           /\ link'[o].usage = usage /\ link'[c].usage = link[c].usage
<1> DEFINE paired == [link[o] EXCEPT !.pPeer = c, !.usage = usage, !.pMethods = @ \/ copied]
<1>1. /\ link'[o] = paired
      /\ link'[c] = [link[c] EXCEPT !.pPeer = o]
      /\ \A x \in Objs \ {o, c} : link'[x] = link[x]
  BY DEF LinkType
<1>2. paired.usage = usage /\ paired.ConnState = link[o].ConnState
  BY DEF LinkType, LinkRecords
<1>3. [link[c] EXCEPT !.pPeer = o].usage = link[c].usage /\ [link[c] EXCEPT !.pPeer = o].ConnState = link[c].ConnState
  BY DEF LinkType, LinkRecords
<1> HIDE DEF paired
<1> QED
  BY <1>1, <1>2, <1>3

(* The step that accepts: the acceptor's object o and the client's object c are new to it. *)
LEMMA NextAccept == ASSUME IInv, NEW t \in Threads, acceptOffer(t) PROVE FreshOK' /\ AcceptedOK'
<1>0. AppType /\ OpOK /\ SrvType /\ LinkType /\ CtlType
  BY DEF IInv, TypeInv, TypeOK, AppType, SrvType, LinkType, CtlType
<1>1. PICK s \in Services, o \in Objs :
         s = op[t].srv /\ o = op[t].obj /\ o = <<t, calls[t]>> /\ calls[t] \in 1 .. MaxObjs
  BY <1>0, OwnObj DEF acceptOffer, OwnObjLabels, UninvolvedLabels
<1>2. PICK c \in Objs, w \in Users : /\ c = srv[s].pConnLinkObj /\ c # Null
                                     /\ pc[w] = "waitAccepted" /\ op[w].srv = s /\ op[w].obj = c
  <2>1. srv[s].pConnLinkObj \in Objs /\ srv[s].pConnLinkObj # Null /\ srv[s].ConnMutex \in Users \cup {Null}
    BY <1>0, <1>1 DEF acceptOffer, SrvType, SrvRecords
  <2>2. srv[s].ConnMutex \in Users
    BY <2>1 DEF IInv, Rendezvous
  <2> QED BY <2>1, <2>2 DEF IInv, Rendezvous
<1>3. w # t /\ c = <<w, calls[w]>> /\ c # o /\ calls[w] \in 1 .. MaxObjs
  <2>1. w # t /\ w \in Threads /\ pc[w] \in OwnObjLabels
    BY <1>2 DEF acceptOffer, Threads, OwnObjLabels
  <2>2. c = <<w, calls[w]>> /\ calls[w] \in 1 .. MaxObjs
    BY <1>0, <1>2, <2>1, OwnObj
  <2> QED BY <1>1, <2>1, <2>2
<1>4. ~Involved(o) /\ ~Involved(c)
  BY <1>1, <1>2 DEF acceptOffer, IInv, FreshOK, UninvolvedLabels
<1>5. PICK new \in {[srv |-> s, server |-> o, client |-> c, remembered |-> FALSE]} :
         accepted' = accepted \cup {new} /\ new.server = o /\ new.client = c
  <2>1. accepted' = accepted \cup {[srv |-> s, server |-> o, client |-> c, remembered |-> FALSE]}
    BY <1>1, <1>2 DEF acceptOffer
  <2> QED BY <2>1
<1>6. \A x : Involved(x)' <=> Involved(x) \/ x = o \/ x = c
  BY <1>5 DEF Involved
<1>7. /\ calls' = calls /\ op' = op
      /\ pc'[t] = "track" /\ \A u \in Threads \ {t} : pc'[u] = pc[u]
  BY <1>0 DEF acceptOffer, Goto, appVars, CtlType
<1>8. srv'[s].pConnLinkObj = Null /\ \A r \in Services \ {s} : srv'[r] = srv[r]
  <2>1. srv' = [srv EXCEPT ![s] = [srv[s] EXCEPT !.pConnLinkObj = Null, !.signaled = TRUE]]
    BY <1>0, <1>1 DEF acceptOffer, takeOffer, SrvType
  <2>2. [srv[s] EXCEPT !.pConnLinkObj = Null, !.signaled = TRUE].pConnLinkObj = Null
    BY <1>0, <1>1 DEF SrvType, SrvRecords
  <2> QED BY <1>0, <1>1, <2>1, <2>2 DEF SrvType
<1>9. /\ \A x \in Objs : link'[x].ConnState = link[x].ConnState
      /\ \A x \in Objs \ {o, c} : link'[x] = link[x]
      /\ link'[o].usage = Role(s) /\ link'[c].usage = link[c].usage
  <2>1. PICK copied \in BOOLEAN :
            link' = [link EXCEPT ![o].pPeer = c, ![o].usage = Role(s), ![o].pMethods = @ \/ copied, ![c].pPeer = o]
    BY <1>1, <1>2 DEF acceptOffer
  <2> QED BY <1>0, <1>1, <1>2, <1>3, <2>1, PairedLinks
<1>10. FreshOK'
  <2>1. \A u \in Threads, n \in 1 .. MaxObjs : Involved(<<u, n>>)' => n <= calls'[u]
    BY <1>1, <1>3, <1>6, <1>7 DEF IInv, FreshOK
  <2>2. ASSUME NEW u \in Threads, pc'[u] \in UninvolvedLabels, NEW x, x = op'[u].obj PROVE ~Involved(x)'
    <3>1. u # t /\ u # w
      BY <1>2, <1>3, <1>7, <2>2 DEF UninvolvedLabels, Threads
    <3>2. pc[u] = pc'[u] /\ op'[u] = op[u] /\ op[u].obj = <<u, calls[u]>>
      BY <1>0, <1>7, <2>2, <3>1, OwnObj DEF OwnObjLabels
    <3>3. ~Involved(x) /\ x = <<u, calls[u]>>
      BY <2>2, <3>2 DEF IInv, FreshOK
    <3> QED BY <1>1, <1>3, <1>6, <3>1, <3>3
  <2>3. ASSUME NEW r \in Services, srv'[r].pConnLinkObj # Null, NEW x, x = srv'[r].pConnLinkObj
        PROVE  ~Involved(x)'
    <3>1. r # s /\ srv'[r] = srv[r]
      BY <1>8, <2>3
    <3>2. PICK v \in Users : pc[v] = "waitAccepted" /\ op[v].srv = r /\ op[v].obj = srv[r].pConnLinkObj
      BY <1>0, <2>3, <3>1 DEF IInv, Rendezvous, SrvType, SrvRecords
    <3>3. v # w /\ v # t /\ op[v].obj = <<v, calls[v]>>
      BY <1>0, <1>2, <3>1, <3>2, OwnObj DEF OwnObjLabels, Threads, acceptOffer
    <3>4. ~Involved(x) /\ x = <<v, calls[v]>>
      BY <2>3, <3>1, <3>2, <3>3 DEF IInv, FreshOK
    <3> QED BY <1>1, <1>3, <1>6, <3>3, <3>4
  <2>4. \A x \in Objs : link'[x].pPeer # Null => Involved(x)'
    BY <1>6, <1>9 DEF IInv, FreshOK
  <2>5. ASSUME NEW u \in Threads, pc'[u] = "waitAccepted", NEW a \in accepted' PROVE a.server # op'[u].obj
    <3>1. u # t /\ pc[u] = "waitAccepted" /\ op'[u].obj = op[u].obj /\ op[u].obj = <<u, calls[u]>>
      BY <1>0, <1>7, <2>5, OwnObj DEF OwnObjLabels
    <3> QED BY <1>1, <1>5, <2>5, <3>1 DEF IInv, FreshOK
  <2> QED BY <2>1, <2>2, <2>3, <2>4, <2>5 DEF FreshOK
<1>11. AcceptedOK'
  <2>1. \A a, b \in accepted' : a.server = b.server \/ a.client = b.client => a = b
    BY <1>4, <1>5 DEF IInv, AcceptedOK, Involved
  <2>2. ASSUME NEW a \in accepted PROVE Answers(a)'
    <3>1. a.server \in Objs /\ a.client \in Objs /\ Answers(a)
      BY DEF IInv, TypeInv, TypeOK, AcceptedOK
    <3>2. a.server \notin {o, c} /\ a.client \notin {o, c}
      BY <1>4 DEF Involved
    <3> QED BY <1>9, <3>1, <3>2 DEF Answers
  <2>3. Answers(new)'
    <3>1. Role(s) # {} /\ \A r \in Role(s) : Peer[r] \in link[c].usage
      BY <1>1, <1>2 DEF acceptOffer, Role, negotiateLinkRole
    <3> QED BY <1>5, <1>9, <3>1 DEF Answers
  <2>4. \A x \in Users \X (1 .. MaxObjs) : link'[x].ConnState = "Connected" => \E a \in accepted' : a.client = x
    BY <1>5, <1>9 DEF IInv, AcceptedOK, Objs, Threads
  <2> QED BY <1>5, <2>1, <2>2, <2>3, <2>4 DEF AcceptedOK
<1> QED BY <1>10, <1>11

(* IInv is inductive. *)
LEMMA NextIInv == ASSUME IInv, [Next]_vars PROVE IInv'
<1>1. CASE Next
  <2>1. TypeInv' /\ Rendezvous'
    BY <1>1, NextTypeInv, NextRendezvous DEF IInv
  <2>2. CASE \E t \in Threads : acceptOffer(t)
    BY <2>1, <2>2, NextAccept DEF IInv
  <2>3. CASE SameAccepted /\ LinkEffects
    BY <1>1, <2>1, <2>3, SameAcceptedInvolves, NextFreshElse, NextAcceptedElse DEF IInv
  <2> QED BY <1>1, <2>2, <2>3, NextAccepted, NextLinkEffects
<1>2. CASE UNCHANGED vars
  <2>1. TypeInv'
    BY NextTypeInv DEF IInv
  <2>2. Rendezvous' /\ FreshOK' /\ AcceptedOK'
    BY <1>2 DEF vars, IInv, Rendezvous, FreshOK, Involved, AcceptedOK, Answers
  <2> QED BY <2>1, <2>2 DEF IInv
<1> QED BY <1>1, <1>2

(* It holds at first, when nothing was accepted. *)
LEMMA InitIInv == ASSUME Init PROVE IInv
<1>1. Rendezvous
  BY DEF Init, Rendezvous, Offline
<1>2. accepted = {} /\ \A o : ~Involved(o)
  BY DEF Init, Involved
<1>3. \A o \in Objs : link[o].pPeer = Null /\ link[o].ConnState = "Disconnected"
  BY DEF Init, Unused
<1>4. \A t \in Threads : pc[t] # "waitAccepted"
  BY DEF Init
<1>5. FreshOK
  BY <1>2, <1>3, <1>4 DEF FreshOK
<1>6. AcceptedOK
  BY <1>2, <1>3 DEF AcceptedOK, Objs, Threads
<1> QED BY <1>1, <1>5, <1>6, InitTypeInv DEF IInv

(* A connection succeeds only for a link that one acceptor took, in a role that answers the client's, and *)
(* no acceptor took two: connectService never returns the ID of a link that nobody serves.                *)
THEOREM ConnectedHolds == Spec => []ConnectedWasAccepted
<1>1. Init => IInv
  BY InitIInv
<1>2. IInv /\ [Next]_vars => IInv'
  BY NextIInv
<1>3. IInv => ConnectedWasAccepted
  BY DEF IInv, AcceptedOK, Answers, ConnectedWasAccepted
<1> QED BY <1>1, <1>2, <1>3, PTL DEF Spec

=============================================================================
