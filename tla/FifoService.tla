----------------------------- MODULE FifoService -----------------------------
(***************************************************************************)
(* Source/IOC_Service.c over Source/_IOC_SrvProtoFifo.c: services, the     *)
(* links between them and their clients, and the threads that connect,     *)
(* accept, close and take services offline.                                *)
(*                                                                         *)
(* A connector leaves its link object in the service's pConnLinkObj and    *)
(* waits; an acceptor, a caller of acceptClient or the service's daemon,   *)
(* polls for it, makes the two link objects each other's peer and wakes    *)
(* the connector.  Link objects live in a table whose index is the link's  *)
(* ID, so that an ID is used again once its link is closed.                *)
(*                                                                         *)
(* A link object and its FIFO part are one object here.  The mutexes of    *)
(* the table, WaitAccptedMutex, WaitNewConnMutex and ManualAccept.Mutex    *)
(* protect one step each and are part of that step; ConnMutex and the      *)
(* Mutex of a link are held over several.                                  *)
(***************************************************************************)
EXTENDS Integers, FiniteSets

CONSTANTS Users,          \* application threads
          Services,       \* services, each with a URI of its own; s also names the daemon of s
          Null,
          Daemon,         \* Daemon[s]: "none", "auto" (AUTO_ACCEPT) or "broadcast" (BROADCAST_EVENT)
          KeepAccepted,   \* the services with IOC_SRVFLAG_KEEP_ACCEPTED_LINK
          Roles, Peer,    \* single usages, and Peer[r]: the usage at the other end
          Capabilities,   \* Capabilities[s]: the usages s offers
          UserOps,        \* the calls the application threads make
          MaxLinks,       \* _MAX_IOC_LINK_OBJ_NUM
          MaxManual,      \* _MAX_MANUAL_ACCEPT_ACCEPTED_LINK_NUM
          MaxDaemon,      \* _MAX_AUTO_ACCEPT_ACCEPTED_LINK_NUM, _MAX_BROADCAST_EVENT_ACCEPTED_LINK_NUM
          MaxCalls,       \* bound: calls a user makes
          MaxObjs,        \* bound: link objects a thread allocates
          ClosesAll       \* the application also closes accepted links that their service would close

Threads == Users \cup Services
Objs == Threads \X (1 .. MaxObjs)
Slots == 1 .. MaxLinks
Ops == [api : {"online", "offline", "connect", "accept", "close"}, srv : Services,
        usage : SUBSET Roles, timed : BOOLEAN]

ASSUME NamesAssumption == Users \cap Services = {} /\ Null \notin Threads \cup Objs \cup Slots
ASSUME ServicesAssumption ==
    /\ Daemon \in [Services -> {"none", "auto", "broadcast"}] /\ KeepAccepted \subseteq Services
    /\ Capabilities \in [Services -> SUBSET Roles]
ASSUME RolesAssumption == Peer \in [Roles -> Roles] /\ \A r \in Roles : Peer[Peer[r]] = r
ASSUME BoundsAssumption ==
    /\ MaxLinks \in Nat \ {0} /\ MaxManual \in Nat /\ MaxDaemon \in Nat
    /\ MaxCalls \in Nat /\ MaxObjs \in Nat /\ MaxCalls <= MaxObjs
ASSUME OpsAssumption == UserOps \subseteq Ops /\ ClosesAll \in BOOLEAN

VARIABLES
    tbl,        \* _mIOC_LinkObjTbl
    LinkCount,  \* _mIOC_LinkCount
    link,       \* link[o]: a link object and its FIFO part
    srv,        \* srv[s]: a service object and its FIFO part
    pc, op,     \* where each thread is, and in which call
    calls,      \* calls[t]: the calls t made; it names t's link objects
    result,     \* result[t]: what t's last call returned
    owned,      \* the links whose IDs the application holds
    accepted    \* history: who accepted whom for which service, and whether the service remembers it

vars == <<tbl, LinkCount, link, srv, pc, op, calls, result, owned, accepted>>
tblVars == <<tbl, LinkCount>>
appVars == <<calls, owned>>

Unused == [mem |-> "none", id |-> 0, pMethods |-> FALSE, usage |-> {}, ConnState |-> "Disconnected",
           pPeer |-> Null, locked |-> FALSE]
Offline == [online |-> FALSE, ConnMutex |-> Null, pConnLinkObj |-> Null, signaled |-> FALSE, cancelled |-> FALSE,
            ManualAccept |-> [i \in 1 .. MaxManual |-> Null], DaemonAccept |-> [i \in 1 .. MaxDaemon |-> Null]]
NoOp == [api |-> "none", srv |-> Null, usage |-> {}, timed |-> FALSE, obj |-> Null, peer |-> Null]

Goto(t, label) == pc' = [pc EXCEPT ![t] = label]
Return(t, code) ==
    /\ pc' = [pc EXCEPT ![t] = "idle"]
    /\ op' = [op EXCEPT ![t] = NoOp]
    /\ result' = [result EXCEPT ![t] = code]

(* _IOC_negotiateLinkRole: the service's end takes the usages that answer those of the client. *)
negotiateLinkRole(capabilities, requested) == {r \in capabilities : Peer[r] \in requested}

AcceptedBy(s) == {a.server : a \in {b \in accepted : b.srv = s}}
Init ==
    /\ tbl = [i \in Slots |-> Null] /\ LinkCount = 0
    /\ link = [o \in Objs |-> Unused]
    /\ srv = [s \in Services |-> Offline]
    /\ pc = [t \in Threads |-> IF t \in Users THEN "idle" ELSE "exited"]
    /\ op = [t \in Threads |-> NoOp]
    /\ calls = [t \in Threads |-> 0]
    /\ result = [t \in Threads |-> "none"]
    /\ owned = {} /\ accepted = {}

-----------------------------------------------------------------------------
(* The table of link objects. *)
FreeSlots == {i \in Slots : tbl[i] = Null}
FirstFree_AtCount == LinkCount + 1   \* mutant: as if the table had no holes
FirstFree == CHOOSE i \in FreeSlots : \A j \in FreeSlots : i <= j

allocLinkObj(o, usage, state, methods) ==
    /\ FreeSlots # {}
    /\ tbl' = [tbl EXCEPT ![FirstFree] = o]
    /\ LinkCount' = LinkCount + 1
    /\ link' = [link EXCEPT ![o] = [Unused EXCEPT !.mem = "open", !.id = FirstFree, !.pMethods = methods,
                                                  !.usage = usage, !.ConnState = state]]

freeLinkObj_KeepsSlot(o) ==   \* mutant: the memory is freed, the slot is not
    /\ link' = [link EXCEPT ![o].mem = "freed"]
    /\ UNCHANGED tblVars

(* The slot and the memory first; _mIOC_LinkCount in a critical section of its own (countFreed). *)
freeLinkObj(o) ==
    /\ tbl' = [tbl EXCEPT ![link[o].id] = Null]
    /\ link' = [link EXCEPT ![o].mem = "freed"]
    /\ UNCHANGED LinkCount

-----------------------------------------------------------------------------
(* What the application calls when. *)
InCall(t, apis) == op[t].api \in apis
(* Nobody connects to, accepts for or takes offline a service that goes offline. *)
MayCall(t, c) ==
    /\ c.api = "offline" => \A u \in Users : ~(InCall(u, {"connect", "accept", "offline"}) /\ op[u].srv = c.srv)
    /\ c.api \in {"connect", "accept"} => \A u \in Users : ~(InCall(u, {"offline"}) /\ op[u].srv = c.srv)

(* The service closes what it accepted; clients' links and accepted ones it keeps are the application's. *)
ClosedByService(o) == \E s \in Services \ KeepAccepted : o \in AcceptedBy(s)
MayClose(o) == o \in owned /\ (ClosesAll \/ ~ClosedByService(o))

CallApi(t) ==
    /\ t \in Users /\ pc[t] = "idle" /\ calls[t] < MaxCalls
    /\ calls' = [calls EXCEPT ![t] = @ + 1]
    /\ \E c \in UserOps :
        /\ MayCall(t, c)
        /\ \E o \in IF c.api = "close" THEN {p \in Objs : MayClose(p)} ELSE {<<t, calls[t] + 1>>} :
            /\ op' = [op EXCEPT ![t] = [api |-> c.api, srv |-> c.srv, usage |-> c.usage, timed |-> c.timed,
                                        obj |-> o, peer |-> Null]]
            /\ Goto(t, c.api)
            /\ owned' = IF c.api = "close" THEN owned \ {o} ELSE owned
    /\ UNCHANGED <<tblVars, link, srv, result, accepted>>

-----------------------------------------------------------------------------
(* IOC_onlineService: a new service object, published by its URI, and its daemon. *)
onlineService(t) ==
    LET s == op[t].srv
    IN  /\ pc[t] = "online"
        /\ IF srv[s].online
           THEN Return(t, "CONFLICT_SRVARGS") /\ UNCHANGED srv
           ELSE /\ srv' = [srv EXCEPT ![s] = [Offline EXCEPT !.online = TRUE]]
                /\ pc' = [pc EXCEPT ![t] = "idle", ![s] = IF Daemon[s] = "none" THEN @ ELSE "daemon"]
                /\ op' = [op EXCEPT ![t] = NoOp,
                                    ![s] = IF Daemon[s] = "none" THEN @
                                           ELSE [NoOp EXCEPT !.api = "daemon", !.srv = s]]
                /\ result' = [result EXCEPT ![t] = "SUCCESS"]
        /\ UNCHANGED <<tblVars, link, appVars, accepted>>

-----------------------------------------------------------------------------
(* IOC_connectService.  A failure frees the link object and leaves it in the table. *)
failConnect(t, code) ==
    /\ link' = [link EXCEPT ![op[t].obj].mem = "freed"]
    /\ Return(t, code)

allocConnecting(t) ==
    /\ pc[t] = "connect"
    /\ IF FreeSlots = {}
       THEN Return(t, "POSIX_ENOMEM") /\ UNCHANGED <<tblVars, link>>
       ELSE /\ allocLinkObj(op[t].obj, op[t].usage, "Connecting", FALSE)
            /\ Goto(t, "findService")
            /\ UNCHANGED <<op, result>>
    /\ UNCHANGED <<srv, appVars, accepted>>

findService(t) ==
    /\ pc[t] = "findService"
    /\ IF srv[op[t].srv].online
       THEN Goto(t, "lockConn") /\ UNCHANGED <<link, op, result>>
       ELSE failConnect(t, "NOT_EXIST_SERVICE")
    /\ UNCHANGED <<tblVars, srv, appVars, accepted>>

ConnMutexFree_Always(s) == TRUE   \* mutant: connectors do not exclude each other
ConnMutexFree(s) == srv[s].ConnMutex = Null

(* One connector at a time offers its link object, and waits with ConnMutex held. *)
offerConnection(t) ==
    LET s == op[t].srv
    IN  /\ pc[t] = "lockConn" /\ ConnMutexFree(s)
        /\ srv' = [srv EXCEPT ![s].ConnMutex = t, ![s].pConnLinkObj = op[t].obj, ![s].signaled = FALSE]
        /\ Goto(t, "waitAccepted")
        /\ UNCHANGED <<tblVars, link, op, appVars, result, accepted>>

(* Signaled: no offer and no peer means rejected. *)
finishConnect(t) ==
    LET s == op[t].srv  o == op[t].obj
    IN  /\ pc[t] = "waitAccepted" /\ srv[s].signaled
        /\ srv' = [srv EXCEPT ![s].ConnMutex = Null, ![s].signaled = FALSE]
        /\ IF srv[s].pConnLinkObj = Null /\ link[o].pPeer = Null
           THEN failConnect(t, "INCOMPATIBLE_USAGE") /\ UNCHANGED owned
           ELSE /\ link' = [link EXCEPT ![o].pMethods = TRUE, ![o].ConnState = "Connected"]
                /\ owned' = owned \cup {o}
                /\ Return(t, "SUCCESS")
        /\ UNCHANGED <<tblVars, calls, accepted>>

-----------------------------------------------------------------------------
(* IOC_acceptClient and the daemons.  Only the daemon accepts for an AUTO_ACCEPT service. *)
refuseAccept(t) ==
    LET s == op[t].srv
    IN  /\ pc[t] = "accept"
        /\ \/ ~srv[s].online /\ Return(t, "NOT_EXIST_SERVICE")
           \/ srv[s].online /\ Daemon[s] = "auto" /\ Return(t, "NOT_SUPPORT_MANUAL_ACCEPT")
           \/ srv[s].online /\ Daemon[s] # "auto" /\ FreeSlots = {} /\ Return(t, "POSIX_ENOMEM")
        /\ UNCHANGED <<tblVars, link, srv, appVars, accepted>>

allocAccepting(t) ==
    LET s == op[t].srv
    IN  /\ pc[t] = "accept" /\ srv[s].online /\ Daemon[s] # "auto"
        /\ allocLinkObj(op[t].obj, Capabilities[s], "Disconnected", TRUE)
        /\ Goto(t, "poll")
        /\ UNCHANGED <<srv, op, appVars, result, accepted>>

(* A daemon allocates the next link object before a client comes, and sleeps while it cannot. *)
daemonAlloc(s) ==
    /\ pc[s] = "daemon" /\ calls[s] < MaxObjs
    /\ allocLinkObj(<<s, calls[s] + 1>>, {}, "Disconnected", FALSE)
    /\ calls' = [calls EXCEPT ![s] = @ + 1]
    /\ op' = [op EXCEPT ![s].obj = <<s, calls[s] + 1>>]
    /\ Goto(s, "poll")
    /\ UNCHANGED <<srv, result, owned, accepted>>

(* A daemon that is cancelled ends where it waits, sleeps or logs: printf is a cancellation point. *)
daemonExit(s) ==
    /\ s \in Services /\ srv[s].cancelled
    /\ \/ pc[s] = "waitNewConn"
       \/ pc[s] = "daemon" /\ FreeSlots = {}
       \/ pc[s] = "daemon" /\ Daemon[s] = "auto" /\ op[s].obj = Null
       \/ pc[s] = "track"
    /\ Goto(s, "exited")
    /\ UNCHANGED <<tblVars, link, srv, op, appVars, result, accepted>>

takeOffer_LeavesOffer(s) == srv' = [srv EXCEPT ![s].signaled = TRUE]   \* mutant: pConnLinkObj stays set
takeOffer(s) == srv' = [srv EXCEPT ![s].pConnLinkObj = Null, ![s].signaled = TRUE]

(* One round of the protocol's accept loop: take the offer, reject it, or find none. *)
noOffer(t) ==
    /\ pc[t] = "poll" /\ srv[op[t].srv].pConnLinkObj = Null
    /\ Goto(t, "waitNewConn")
    /\ UNCHANGED <<tblVars, link, srv, op, appVars, result, accepted>>

Role(s) == negotiateLinkRole(Capabilities[s], link[srv[s].pConnLinkObj].usage)

rejectOffer(t) ==
    LET s == op[t].srv
    IN  /\ pc[t] = "poll" /\ srv[s].pConnLinkObj # Null /\ Role(s) = {}
        /\ takeOffer(s)
        /\ UNCHANGED <<tblVars, link, pc, op, appVars, result, accepted>>

(* A daemon copies pMethods to its link after this: whoever finds the link before "track" may see either. *)
acceptOffer(t) ==
    LET s == op[t].srv  o == op[t].obj  c == srv[s].pConnLinkObj
    IN  /\ pc[t] = "poll" /\ c # Null /\ Role(s) # {}
        /\ \E copied \in BOOLEAN :
              link' = [link EXCEPT ![o].pPeer = c, ![o].usage = Role(s), ![o].pMethods = @ \/ copied, ![c].pPeer = o]
        /\ takeOffer(s)
        /\ accepted' = accepted \cup {[srv |-> s, server |-> o, client |-> c, remembered |-> FALSE]}
        /\ Goto(t, "track")
        /\ UNCHANGED <<tblVars, op, appVars, result>>

(* The wait is a cancellation point: a daemon that is cancelled goes no further. *)
wakeAcceptor(t) ==
    /\ pc[t] = "waitNewConn" /\ (t \in Services => ~srv[t].cancelled)
    /\ Goto(t, "poll")
    /\ UNCHANGED <<tblVars, link, srv, op, appVars, result, accepted>>

acceptTimedOut(t) ==
    /\ pc[t] = "waitNewConn" /\ op[t].timed
    /\ freeLinkObj(op[t].obj)
    /\ Goto(t, "countFree")
    /\ UNCHANGED <<srv, op, appVars, result, accepted>>

(* The service remembers the links it accepted, as many as its arrays hold. *)
Enter(array, x) ==
    LET free == {i \in DOMAIN array : array[i] = Null}
    IN  IF free = {} THEN array ELSE [array EXCEPT ![CHOOSE i \in free : \A j \in free : i <= j] = x]

HasRoom(array) == \E i \in DOMAIN array : array[i] = Null
Remember(o, array) == {[a EXCEPT !.remembered = @ \/ (a.server = o /\ HasRoom(array))] : a \in accepted}

trackManual(t) ==
    /\ t \in Users /\ pc[t] = "track"
    /\ srv' = [srv EXCEPT ![op[t].srv].ManualAccept = Enter(@, link[op[t].obj].id)]
    /\ owned' = owned \cup {op[t].obj}
    /\ accepted' = Remember(op[t].obj, srv[op[t].srv].ManualAccept)
    /\ Return(t, "SUCCESS")
    /\ UNCHANGED <<tblVars, link, calls>>

(* An AUTO_ACCEPT daemon marks the link connected and tells the application its ID. *)
trackDaemon(s) ==
    LET o == op[s].obj
    IN  /\ s \in Services /\ pc[s] = "track"
        /\ srv' = [srv EXCEPT ![s].DaemonAccept = Enter(@, o)]
        /\ IF Daemon[s] = "auto"
           THEN /\ link' = [link EXCEPT ![o].pMethods = TRUE, ![o].ConnState = "Connected"]
                /\ owned' = owned \cup {o}
           ELSE /\ link' = [link EXCEPT ![o].pMethods = TRUE]
                /\ UNCHANGED owned
        /\ accepted' = Remember(o, srv[s].DaemonAccept)
        /\ Goto(s, "daemon")
        /\ UNCHANGED <<tblVars, op, calls, result>>

-----------------------------------------------------------------------------
(* IOC_closeLink: the link that has the ID now, its peer pointers, its memory. *)
getLinkObj(o) == tbl[link[o].id]

(* The assertions that the link has pMethods: a link that was never connected or accepted, or a freed *)
(* one that a failed connection left in the table, ends the program.                                  *)
beginClose(t, o) ==
    /\ op' = [op EXCEPT ![t].obj = o]
    /\ IF link[o].pMethods
       THEN link' = [link EXCEPT ![o].ConnState = "Disconnecting"] /\ Goto(t, "lockLink")
       ELSE Goto(t, "aborted") /\ UNCHANGED link

closeLink(t) ==
    LET o == getLinkObj(op[t].obj)
    IN  /\ pc[t] = "close"
        /\ IF o = Null
           THEN Return(t, "NOT_EXIST_LINK") /\ UNCHANGED link
           ELSE beginClose(t, o) /\ UNCHANGED result
        /\ UNCHANGED <<tblVars, srv, appVars, accepted>>

lockLink(t) ==
    LET o == op[t].obj
    IN  /\ pc[t] = "lockLink" /\ ~link[o].locked
        /\ IF link[o].pPeer = Null
           THEN Goto(t, "freeLink") /\ UNCHANGED <<link, op>>
           ELSE /\ link' = [link EXCEPT ![o].pPeer = Null, ![o].locked = TRUE]
                /\ op' = [op EXCEPT ![t].peer = link[o].pPeer]
                /\ Goto(t, "clearPeer")
        /\ UNCHANGED <<tblVars, srv, appVars, result, accepted>>

unpeer_OneSided(o, p) == [link EXCEPT ![o].locked = FALSE]   \* mutant: the peer keeps its pointer

(* The peer's Mutex is only tried. *)
unpeer(o, p) == IF link[p].locked
                THEN [link EXCEPT ![o].locked = FALSE]
                ELSE [link EXCEPT ![o].locked = FALSE, ![p].pPeer = Null]

clearPeer(t) ==
    /\ pc[t] = "clearPeer"
    /\ link' = unpeer(op[t].obj, op[t].peer)
    /\ op' = [op EXCEPT ![t].peer = Null]
    /\ Goto(t, "freeLink")
    /\ UNCHANGED <<tblVars, srv, appVars, result, accepted>>

(* A service going offline closes its broadcast links without freeing them. *)
ProtocolOnly(t) == InCall(t, {"offline"}) /\ op[t].obj[1] = op[t].srv /\ Daemon[op[t].srv] = "broadcast"

freeLink(t) ==
    /\ pc[t] = "freeLink"
    /\ \/ /\ ProtocolOnly(t)
          /\ link' = [link EXCEPT ![op[t].obj].mem = "closed"]
          /\ Goto(t, "closeAccepted")
          /\ UNCHANGED tblVars
       \/ /\ ~ProtocolOnly(t)
          /\ freeLinkObj(op[t].obj)
          /\ Goto(t, "countFree")
    /\ UNCHANGED <<srv, op, appVars, result, accepted>>

(* The end of freeLinkObj, and of the call it was for. *)
countFreed(t) ==
    /\ pc[t] = "countFree"
    /\ LinkCount' = IF LinkCount > 0 THEN LinkCount - 1 ELSE LinkCount
    /\ \/ InCall(t, {"accept"}) /\ Return(t, "TIMEOUT")
       \/ InCall(t, {"close"}) /\ Return(t, "SUCCESS")
       \/ InCall(t, {"offline"}) /\ Goto(t, "closeAccepted") /\ UNCHANGED <<op, result>>
    /\ UNCHANGED <<tbl, link, srv, appVars, accepted>>

-----------------------------------------------------------------------------
(* IOC_offlineService: stop the daemon, close what was accepted, destroy the service. *)
offlineService(t) ==
    LET s == op[t].srv
    IN  /\ pc[t] = "offline"
        /\ \/ ~srv[s].online /\ Return(t, "NOT_EXIST_SERVICE") /\ UNCHANGED srv
           \/ /\ srv[s].online /\ Daemon[s] = "none"
              /\ Goto(t, "closeAccepted") /\ UNCHANGED <<srv, op, result>>
           \/ /\ srv[s].online /\ Daemon[s] # "none"
              /\ srv' = [srv EXCEPT ![s].cancelled = TRUE]
              /\ Goto(t, "joinDaemon") /\ UNCHANGED <<op, result>>
        /\ UNCHANGED <<tblVars, link, appVars, accepted>>

joinDaemon_Detaches(t) ==   \* mutant: pthread_cancel without pthread_join
    /\ pc[t] = "joinDaemon"
    /\ Goto(t, "closeAccepted")
    /\ UNCHANGED <<tblVars, link, srv, op, appVars, result, accepted>>

joinDaemon(t) ==
    /\ pc[t] = "joinDaemon" /\ pc[op[t].srv] = "exited"
    /\ Goto(t, "closeAccepted")
    /\ UNCHANGED <<tblVars, link, srv, op, appVars, result, accepted>>

Entries(array) == {i \in DOMAIN array : array[i] # Null}
FirstEntry(array) == CHOOSE i \in Entries(array) : \A j \in Entries(array) : i <= j

ClosesAccepted_Always(s) == TRUE   \* mutant: KEEP_ACCEPTED_LINK is not looked at
ClosesAccepted(s) == s \notin KeepAccepted

closeDaemonLink(t) ==
    LET s == op[t].srv  i == FirstEntry(srv[s].DaemonAccept)  o == srv[s].DaemonAccept[i]
    IN  /\ pc[t] = "closeAccepted" /\ ClosesAccepted(s) /\ Entries(srv[s].DaemonAccept) # {}
        /\ srv' = [srv EXCEPT ![s].DaemonAccept[i] = Null]
        /\ IF Daemon[s] = "broadcast" \/ getLinkObj(o) # Null
           THEN op' = [op EXCEPT ![t].obj = o] /\ Goto(t, "lockLink")
           ELSE UNCHANGED <<op, pc>>
        /\ UNCHANGED <<tblVars, link, appVars, result, accepted>>

closeManualLink(t) ==
    LET s == op[t].srv  i == FirstEntry(srv[s].ManualAccept)  o == tbl[srv[s].ManualAccept[i]]
    IN  /\ pc[t] = "closeAccepted" /\ ClosesAccepted(s)
        /\ Entries(srv[s].DaemonAccept) = {} /\ Entries(srv[s].ManualAccept) # {}
        /\ srv' = [srv EXCEPT ![s].ManualAccept[i] = Null]
        /\ IF o # Null THEN beginClose(t, o) ELSE UNCHANGED <<link, op, pc>>
        /\ UNCHANGED <<tblVars, appVars, result, accepted>>

finishOffline(t) ==
    LET s == op[t].srv
    IN  /\ pc[t] = "closeAccepted"
        /\ ~ClosesAccepted(s) \/ Entries(srv[s].DaemonAccept) \cup Entries(srv[s].ManualAccept) = {}
        /\ srv' = [srv EXCEPT ![s] = Offline]
        /\ Return(t, "SUCCESS")
        /\ UNCHANGED <<tblVars, link, appVars, accepted>>

-----------------------------------------------------------------------------
Connect(t) == allocConnecting(t) \/ findService(t) \/ offerConnection(t) \/ finishConnect(t)
Accept(t) == refuseAccept(t) \/ allocAccepting(t) \/ noOffer(t) \/ rejectOffer(t) \/ acceptOffer(t)
             \/ wakeAcceptor(t) \/ trackManual(t)
Close(t) == closeLink(t) \/ lockLink(t) \/ clearPeer(t) \/ freeLink(t) \/ countFreed(t)
GoOffline(t) == offlineService(t) \/ joinDaemon(t) \/ closeDaemonLink(t) \/ closeManualLink(t) \/ finishOffline(t)
UserStep(t) == onlineService(t) \/ Connect(t) \/ Accept(t) \/ Close(t) \/ GoOffline(t)
DaemonStep(s) == daemonAlloc(s) \/ daemonExit(s) \/ noOffer(s) \/ rejectOffer(s) \/ acceptOffer(s)
                 \/ wakeAcceptor(s) \/ trackDaemon(s)

(* A failed assertion ends every thread. *)
Running == \A t \in Threads : pc[t] # "aborted"
Next == /\ Running
        /\ \/ \E t \in Users : CallApi(t) \/ UserStep(t) \/ acceptTimedOut(t)
           \/ \E s \in Services : DaemonStep(s)
Spec == Init /\ [][Next]_vars

(* Threads are scheduled, and time passes: the deadline of a timed accept comes. *)
FairSpec == Spec /\ (\A t \in Users : WF_vars(Running /\ UserStep(t)) /\ SF_vars(Running /\ acceptTimedOut(t)))
                 /\ (\A s \in Services : WF_vars(Running /\ DaemonStep(s)))

-----------------------------------------------------------------------------
LinkRecords == [mem : {"none", "open", "closed", "freed"}, id : 0 .. MaxLinks, pMethods : BOOLEAN,
                usage : SUBSET Roles,
                ConnState : {"Disconnected", "Connecting", "Connected", "Disconnecting"},
                pPeer : Objs \cup {Null}, locked : BOOLEAN]
SrvRecords == [online : BOOLEAN, ConnMutex : Users \cup {Null}, pConnLinkObj : Objs \cup {Null},
               signaled : BOOLEAN, cancelled : BOOLEAN,
               ManualAccept : [1 .. MaxManual -> Slots \cup {Null}],
               DaemonAccept : [1 .. MaxDaemon -> Objs \cup {Null}]]
OpRecords == [api : {"none", "online", "offline", "connect", "accept", "close", "daemon"},
              srv : Services \cup {Null}, usage : SUBSET Roles, timed : BOOLEAN,
              obj : Objs \cup {Null}, peer : Objs \cup {Null}]
Labels == {"idle", "exited", "online", "offline", "connect", "accept", "close", "findService", "lockConn",
           "waitAccepted", "daemon", "poll", "waitNewConn", "track", "lockLink", "clearPeer", "freeLink",
           "countFree", "joinDaemon", "closeAccepted", "aborted"}
Results == {"none", "SUCCESS", "CONFLICT_SRVARGS", "NOT_EXIST_SERVICE", "POSIX_ENOMEM", "INCOMPATIBLE_USAGE",
            "NOT_SUPPORT_MANUAL_ACCEPT", "TIMEOUT", "NOT_EXIST_LINK"}

(* Every variable has its type. *)
TypeOK ==
    /\ tbl \in [Slots -> Objs \cup {Null}] /\ LinkCount \in Nat
    /\ link \in [Objs -> LinkRecords] /\ srv \in [Services -> SrvRecords]
    /\ pc \in [Threads -> Labels] /\ op \in [Threads -> OpRecords]
    /\ calls \in [Threads -> 0 .. MaxObjs] /\ result \in [Threads -> Results]
    /\ owned \subseteq Objs
    /\ accepted \subseteq [srv : Services, server : Objs, client : Objs, remembered : BOOLEAN]

(* The assertions of connectService: whoever takes ConnMutex finds no offer left over, and whoever   *)
(* is woken finds its offer taken.  In between, the offer is the link of the one who waits.          *)
Rendezvous == \A s \in Services :
    /\ srv[s].ConnMutex = Null => srv[s].pConnLinkObj = Null
    /\ srv[s].signaled => srv[s].pConnLinkObj = Null
    /\ srv[s].pConnLinkObj # Null =>
          LET t == srv[s].ConnMutex
          IN  pc[t] = "waitAccepted" /\ op[t].srv = s /\ op[t].obj = srv[s].pConnLinkObj

(* An open link's peer is open and points back, but while one of the two is being closed: also when *)
(* both are closed at once and each finds the other's Mutex taken.  An event, a command or data sent *)
(* over the link follows that pointer.                                                               *)
PeersAgree == \A o \in Objs :
    LET p == link[o].pPeer
    IN  link[o].mem = "open" /\ p # Null => link[p].mem = "open" /\ (link[p].pPeer = o \/ link[p].locked)

(* connectService succeeds only for a link that one acceptor took, with a usage that answers the      *)
(* client's; an acceptor takes one client.                                                            *)
ConnectedWasAccepted ==
    /\ \A a, b \in accepted : a.server = b.server \/ a.client = b.client => a = b
    /\ \A o \in Users \X (1 .. MaxObjs) : link[o].ConnState = "Connected" =>
          \E a \in accepted : /\ a.client = o
                              /\ link[a.server].usage # {}
                              /\ \A r \in link[a.server].usage : Peer[r] \in link[o].usage

(* A link whose closing the application has to see to stays open until then, and closeLink finds it *)
(* under its ID, with the pMethods that it asserts: no service that closes by an ID it remembers,    *)
(* and no call that fails, takes it away.                                                            *)
OwnedStaysOpen == \A o \in owned :
    ~ClosedByService(o) => link[o].mem = "open" /\ getLinkObj(o) = o /\ link[o].pMethods

(* offlineService leaves no accepted link open, unless the service keeps its links or had no room  *)
(* or no time to remember this one.                                                                *)
OfflineClosesAccepted == \A s \in Services \ KeepAccepted :
    ~srv[s].online => \A a \in accepted : a.srv = s /\ a.remembered => link[a.server].mem # "open"

(* getLinkCount shows the slots that are taken, and those that threads have cleared and not yet counted: *)
(* no link is freed twice and no slot is cleared without its link, whatever the order of the threads.   *)
Counting == {t \in Users : pc[t] = "countFree"}
CountTruthful == LinkCount = Cardinality({i \in Slots : tbl[i] # Null}) + Cardinality(Counting)

(* The links that offlineService closes are links that its service accepted. *)
OfflineClosesOwn == \A t \in Users :
    InCall(t, {"offline"}) /\ pc[t] = "lockLink" => op[t].obj \in AcceptedBy(op[t].srv)

(* A connection to a manual service waits for an acceptor, and an acceptor without timeout for a client. *)
NeedsPeer(t) ==
    \/ InCall(t, {"connect"}) /\ Daemon[op[t].srv] = "none"
    \/ InCall(t, {"accept"}) /\ ~op[t].timed

(* Every other call returns. *)
CallsReturn == \A t \in Users : (pc[t] # "idle" /\ ~NeedsPeer(t)) ~> (pc[t] = "idle")
=============================================================================
