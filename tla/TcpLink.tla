------------------------------- MODULE TcpLink -------------------------------
(***************************************************************************)
(* Source/_IOC_SrvProtoTCP.c: the two ends of a connection once both have  *)
(* their receiver thread.  A call sends its message (for a command with a  *)
(* payload, two); the other end's receiver thread reads it, runs callbacks,*)
(* sends a callback's response, and leaves the rest for the calls that     *)
(* wait: one response, a queue of commands and a buffer of data, all under *)
(* the link's Mutex.                                                       *)
(*                                                                         *)
(* Each section under the Mutex is one step.  __TCP_sendAll and            *)
(* __TCP_recvAll of a header and its body are one step: TCP keeps the      *)
(* order of the bytes, and only an end that closes can cut a message in    *)
(* two.  A thread that waits for a condition is asleep until a signal      *)
(* picks it or it wakes up by itself.                                      *)
(***************************************************************************)
EXTENDS Integers, SequencesExt

CONSTANTS Threads,      \* the application's threads, and for each
          EndOf, May,   \*   the end that it uses, the calls that it makes
          Limits,       \*   and how long it lets them wait: "nonblock", "timed", "infinite"
          Setups,       \* how the ends may be set up: pairs of CmdCallback and DatMode
          CmdQueueLen,  \* 16: slots of IncomingCmdQueue
          BufferSize,   \* 64K: units of data that the polling buffer holds
          MaxChunk,     \* bound: units of data in one message, or asked for by one IOC_recvDAT
          MaxCalls,     \* bound: calls of all threads
          MaxClosed     \* bound: how many ends close

Ends == {"client", "server"}
Operations == {"execCmd", "waitCmd", "sendData", "recvData", "subEvt", "unsubEvt", "postEvt"}
Peer(e) == IF e = "client" THEN "server" ELSE "client"

ASSUME ThreadsAssumption ==
    Threads \cap Ends = {} /\ EndOf \in [Threads -> Ends] /\ May \in [Threads -> SUBSET Operations]
    /\ Limits \in [Threads -> SUBSET {"nonblock", "timed", "infinite"}]
ASSUME SetupsAssumption ==
    Setups \subseteq [CmdCallback : [Ends -> BOOLEAN], DatMode : [Ends -> {"callback", "polling", "none"}]]
ASSUME BoundsAssumption ==
    CmdQueueLen \in Nat \ {0} /\ BufferSize \in Nat \ {0} /\ MaxChunk \in Nat
    /\ MaxCalls \in Nat /\ MaxClosed \in 0 .. 2

VARIABLES
    CmdCallback,      \* CmdCallback[e]: CmdUsageArgs.CbExecCmd_F is set
    DatMode,          \* DatMode[e]: "callback", "polling" (IsPollingMode), or "none"
    link,             \* link[e]: "open", "closing" (closeLink joins), "closed"
    net,              \* net[e]: the messages on their way to e
    rx,               \* rx[e]: where the receiver thread is, and the message it holds
    CmdResponseReady, CmdResponse, RecvError,
    IncomingCmdQueue, \* the first IncomingCmdCount commands from IncomingCmdHead on
    PollingBuffer,    \* the AvailableData units from DataStart on
    PeerHasSubscription,
    subscribed,       \* subscribed[e]: SubEvtArgs has a callback
    pc, cmd, limit, ret,
    todo,             \* todo[a]: the messages that a thread, or the receiver of an end, is about to send
    calls,
    sent, got, dropped, \* history: units of data sent to, given to the application at, lost by an end
    mixed, unsure     \* history: see StartSend and execCmd

conf == <<CmdCallback, DatMode>>
response == <<CmdResponseReady, CmdResponse, RecvError>>
stored == <<IncomingCmdQueue, PollingBuffer, PeerHasSubscription, subscribed>>
local == <<cmd, limit, ret, calls>>
datHistory == <<sent, got, dropped>>
vars == <<conf, link, net, rx, response, stored, pc, local, todo, datHistory, mixed, unsure>>

(* Messages; of one that is cut, the header arrives and not all of the body. *)
Message(type, ids) == [type |-> type, ids |-> ids, status |-> "none", payload |-> FALSE, cut |-> FALSE]
Payload == Message("DATA", <<0>>)
CmdMessages_PayloadAlways(c) ==   \* mutant: the payload goes out although the command says that it has none
    <<[Message("COMMAND", <<c.id>>) EXCEPT !.status = c.status, !.payload = c.payload], Payload>>
CmdMessages(c) ==
    <<[Message("COMMAND", <<c.id>>) EXCEPT !.status = c.status, !.payload = c.payload]>>
        \o (IF c.payload THEN <<Payload>> ELSE <<>>)
CmdOf(msg) == [id |-> msg.ids[1], status |-> msg.status, payload |-> msg.payload]
IsRequest(c) == c.status = "PENDING"

NoCmd == [id |-> 0, status |-> "INITIALIZED", payload |-> FALSE]
Nothing == Message("NEGOTIATION", <<>>)

Init ==
    /\ \E setup \in Setups : CmdCallback = setup.CmdCallback /\ DatMode = setup.DatMode
    /\ link = [e \in Ends |-> "open"]
    /\ net = [e \in Ends |-> <<>>]
    /\ rx = [e \in Ends |-> [at |-> "header", msg |-> Nothing]]
    /\ CmdResponseReady = [e \in Ends |-> FALSE]
    /\ CmdResponse = [e \in Ends |-> NoCmd]
    /\ RecvError = [e \in Ends |-> "SUCCESS"]
    /\ IncomingCmdQueue = [e \in Ends |-> <<>>]
    /\ PollingBuffer = [e \in Ends |-> <<>>]
    /\ PeerHasSubscription = [e \in Ends |-> FALSE]
    /\ subscribed = [e \in Ends |-> FALSE]
    /\ pc = [t \in Threads |-> "idle"]
    /\ cmd = [t \in Threads |-> NoCmd]
    /\ limit = [t \in Threads |-> "infinite"]
    /\ ret = [t \in Threads |-> "none"]
    /\ todo = [a \in Threads \cup Ends |-> <<>>]
    /\ calls = 0
    /\ sent = [e \in Ends |-> 0] /\ got = [e \in Ends |-> <<>>] /\ dropped = [e \in Ends |-> {}]
    /\ mixed = [e \in Ends |-> FALSE] /\ unsure = [e \in Ends |-> FALSE]

-----------------------------------------------------------------------------
Of(e) == {t \in Threads : EndOf[t] = e}
Goto(t, label) == pc' = [pc EXCEPT ![t] = label]
(* The application keeps the result; the descriptor and the time limit were this call's. *)
Return(t, code) ==
    /\ ret' = [ret EXCEPT ![t] = code] /\ Goto(t, "idle")
    /\ cmd' = [cmd EXCEPT ![t] = NoCmd] /\ limit' = [limit EXCEPT ![t] = "infinite"]

(* pthread_cond_signal: one of e's threads that sleeps at the label wakes up, if there is one. *)
Signal(e, asleep, awake) ==
    LET sleepers == {t \in Of(e) : pc[t] = asleep}
    IN  IF sleepers = {} THEN UNCHANGED pc ELSE \E t \in sleepers : Goto(t, awake)

(* The sender a of end e gets messages to send.  Nothing keeps two senders of one end apart, two threads *)
(* or a thread and the receiver that answers a command: their bytes could then go out in any order, and  *)
(* the other end would split the stream at the wrong places.  The model ends for such a mixed end.      *)
Senders(e) == Of(e) \cup {e}
StartSend(a, e, messages) ==
    /\ todo' = [todo EXCEPT ![a] = messages]
    /\ mixed' = [mixed EXCEPT ![e] = @ \/ \E b \in Senders(e) \ {a} : todo[b] # <<>>]

(* __TCP_sendAll.  What is sent first to an end that has gone may seem sent. *)
Transmit(a, e) ==
    /\ link[e] = "open" /\ ~mixed[e]
    /\ net' = IF link[Peer(e)] = "open" THEN [net EXCEPT ![Peer(e)] = @ \o todo[a]] ELSE net
    /\ todo' = [todo EXCEPT ![a] = <<>>]
SendFails(a, e) ==
    /\ ~mixed[e] /\ (link[e] # "open" \/ link[Peer(e)] # "open")
    /\ todo' = [todo EXCEPT ![a] = <<>>]
    /\ UNCHANGED net

Begin(t, op) ==
    /\ pc[t] = "idle" /\ op \in May[t] /\ link[EndOf[t]] = "open" /\ ~mixed[EndOf[t]]
    /\ calls < MaxCalls /\ calls' = calls + 1

-----------------------------------------------------------------------------
(* execCmd.  unsure: another call is in progress or an earlier one has timed out.  A timeout option *)
(* below a millisecond waits without a limit.                                                       *)
Executing == {"exec", "await", "asleepResp"}
NewId == calls + 1

ClearResponse_KeepsReady(e) ==   \* mutant: the flag of the last response stays
    RecvError' = [RecvError EXCEPT ![e] = "SUCCESS"] /\ UNCHANGED CmdResponseReady
ClearResponse(e) ==
    /\ CmdResponseReady' = [CmdResponseReady EXCEPT ![e] = FALSE]
    /\ RecvError' = [RecvError EXCEPT ![e] = "SUCCESS"]

execCmd(t) ==
    LET e == EndOf[t] IN
    /\ Begin(t, "execCmd")
    /\ ClearResponse(e)
    /\ \E payload \in BOOLEAN :
          LET c == [id |-> NewId, status |-> "PENDING", payload |-> payload]
          IN  cmd' = [cmd EXCEPT ![t] = c] /\ StartSend(t, e, CmdMessages(c))
    /\ \E k \in Limits[t] \ {"nonblock"} : limit' = [limit EXCEPT ![t] = k]
    /\ unsure' = [unsure EXCEPT ![e] = @ \/ \E u \in Of(e) : pc[u] \in Executing]
    /\ Goto(t, "exec")
    /\ UNCHANGED <<conf, link, net, rx, CmdResponse, stored, ret, datHistory>>

takeResponse(t) ==
    LET e == EndOf[t] IN
    /\ pc[t] = "await" /\ CmdResponseReady[e]
    /\ Return(t, RecvError[e])   \* the response's status and payload go into the caller's descriptor
    /\ UNCHANGED <<conf, link, net, rx, response, stored, calls, todo, datHistory, mixed, unsure>>

sleepForResponse(t) ==
    /\ pc[t] = "await" /\ ~CmdResponseReady[EndOf[t]] /\ Goto(t, "asleepResp")
    /\ UNCHANGED <<conf, link, net, rx, response, stored, local, todo, datHistory, mixed, unsure>>

execTimeout(t) ==
    /\ pc[t] = "asleepResp" /\ limit[t] = "timed"
    /\ unsure' = [unsure EXCEPT ![EndOf[t]] = TRUE]
    /\ Return(t, "TIMEOUT")
    /\ UNCHANGED <<conf, link, net, rx, response, stored, calls, todo, datHistory, mixed>>

(* execCmd goes on to wait for the response, the other calls return. *)
send(t) ==
    /\ pc[t] \in {"exec", "send", "ack"} /\ Transmit(t, EndOf[t])
    /\ IF pc[t] = "exec" THEN Goto(t, "await") /\ UNCHANGED <<cmd, ret, limit>> ELSE Return(t, "SUCCESS")
    /\ UNCHANGED <<conf, link, rx, response, stored, calls, datHistory, mixed, unsure>>

(* ackCmd does not look at the result of sending the payload. *)
sendFails(t) ==
    /\ pc[t] \in {"exec", "send", "ack"} /\ SendFails(t, EndOf[t])
    /\ \/ Return(t, "LINK_BROKEN")
       \/ pc[t] = "ack" /\ cmd[t].payload /\ Return(t, "SUCCESS")
    /\ UNCHANGED <<conf, link, rx, response, stored, calls, datHistory, mixed, unsure>>

-----------------------------------------------------------------------------
(* waitCmd and ackCmd. *)
waitCmd(t) ==
    /\ Begin(t, "waitCmd")
    /\ \E k \in Limits[t] \ {"nonblock"} : limit' = [limit EXCEPT ![t] = k]
    /\ Goto(t, "poll")
    /\ UNCHANGED <<conf, link, net, rx, response, stored, cmd, ret, todo, datHistory, mixed, unsure>>

(* What a ring holds when the first n have been taken out. *)
Rest_OffByOne(s, n) == SubSeq(s, n, Len(s))   \* mutant: the read position stops one short
Rest(s, n) == SubSeq(s, n + 1, Len(s))

popCmd(t) ==
    LET e == EndOf[t] IN
    /\ pc[t] = "poll" /\ IncomingCmdQueue[e] # <<>>
    /\ cmd' = [cmd EXCEPT ![t] = Head(IncomingCmdQueue[e])]
    /\ IncomingCmdQueue' = [IncomingCmdQueue EXCEPT ![e] = Rest(@, 1)]
    /\ ret' = [ret EXCEPT ![t] = "SUCCESS"] /\ Goto(t, "holding")
    /\ UNCHANGED <<conf, link, net, rx, response, PollingBuffer, PeerHasSubscription, subscribed, limit, calls, todo,
                   datHistory, mixed, unsure>>

sleepForCmd(t) ==
    /\ pc[t] = "poll" /\ IncomingCmdQueue[EndOf[t]] = <<>> /\ Goto(t, "asleepCmd")
    /\ UNCHANGED <<conf, link, net, rx, response, stored, local, todo, datHistory, mixed, unsure>>

waitTimeout(t) ==
    /\ pc[t] \in {"asleepCmd", "asleepDat"} /\ limit[t] = "timed" /\ Return(t, "TIMEOUT")
    /\ UNCHANGED <<conf, link, net, rx, response, stored, calls, todo, datHistory, mixed, unsure>>

(* The application gives its result, and a payload when it has succeeded. *)
Answered(c, ok) == [c EXCEPT !.status = IF ok THEN "SUCCESS" ELSE "FAILED", !.payload = ok]

ackCmd(t) ==
    /\ pc[t] = "holding" /\ link[EndOf[t]] = "open"
    /\ \E ok \in BOOLEAN :
          /\ cmd' = [cmd EXCEPT ![t] = Answered(cmd[t], ok)]
          /\ StartSend(t, EndOf[t], CmdMessages(cmd'[t]))
    /\ Goto(t, "ack")
    /\ UNCHANGED <<conf, link, net, rx, response, stored, limit, ret, calls, datHistory, unsure>>

-----------------------------------------------------------------------------
(* sendData and recvData. *)
sendData(t) ==
    LET to == Peer(EndOf[t]) IN
    /\ Begin(t, "sendData")
    /\ \E n \in 1 .. MaxChunk :
          /\ StartSend(t, EndOf[t], <<Message("DATA", [i \in 1 .. n |-> sent[to] + i])>>)
          /\ sent' = [sent EXCEPT ![to] = @ + n]
    /\ Goto(t, "send")
    /\ UNCHANGED <<conf, link, net, rx, response, stored, cmd, limit, ret, got, dropped, unsure>>

recvData(t) ==
    LET e == EndOf[t] IN
    /\ Begin(t, "recvData")
    /\ CASE RecvError[e] # "SUCCESS" -> Return(t, RecvError[e])
         [] RecvError[e] = "SUCCESS" /\ DatMode[e] # "polling" -> Return(t, "NOT_SUPPORT")
         [] OTHER ->
               /\ \E k \in Limits[t] : limit' = [limit EXCEPT ![t] = k]
               /\ Goto(t, "read") /\ UNCHANGED <<cmd, ret>>
    /\ UNCHANGED <<conf, link, net, rx, response, stored, todo, datHistory, mixed, unsure>>

(* __IOC_readDataFromPollingBuffer, each time the thread has the Mutex. *)
readNothing(t) ==
    LET e == EndOf[t] IN
    /\ pc[t] = "read"
    /\ \/ PollingBuffer[e] = <<>> /\ limit[t] = "nonblock" /\ Return(t, "NO_DATA")
       \/ PollingBuffer[e] = <<>> /\ limit[t] # "nonblock" /\ RecvError[e] = "SUCCESS"
             /\ Goto(t, "asleepDat") /\ UNCHANGED <<cmd, ret, limit>>
       \/ (PollingBuffer[e] # <<>> \/ limit[t] # "nonblock") /\ RecvError[e] # "SUCCESS" /\ Return(t, RecvError[e])
    /\ UNCHANGED <<conf, link, net, rx, response, stored, calls, todo, datHistory, mixed, unsure>>

readData(t) ==
    LET e == EndOf[t] IN
    /\ pc[t] = "read" /\ PollingBuffer[e] # <<>> /\ RecvError[e] = "SUCCESS"
    /\ \E size \in 1 .. MaxChunk :
          LET n == IF Len(PollingBuffer[e]) < size THEN Len(PollingBuffer[e]) ELSE size
          IN  /\ got' = [got EXCEPT ![e] = @ \o SubSeq(PollingBuffer[e], 1, n)]
              /\ PollingBuffer' = [PollingBuffer EXCEPT ![e] = Rest(@, n)]
    /\ Return(t, "SUCCESS")
    /\ UNCHANGED <<conf, link, net, rx, response, IncomingCmdQueue, PeerHasSubscription, subscribed, calls, todo,
                   sent, dropped, mixed, unsure>>

-----------------------------------------------------------------------------
(* subEvt, unsubEvt and postEvt. *)
subEvt(t) ==
    /\ Begin(t, "subEvt")
    /\ subscribed' = [subscribed EXCEPT ![EndOf[t]] = TRUE]
    /\ StartSend(t, EndOf[t], <<Message("SUBSCRIBE", <<>>)>>)
    /\ Goto(t, "send")
    /\ UNCHANGED <<conf, link, net, rx, response, IncomingCmdQueue, PollingBuffer, PeerHasSubscription, cmd, limit,
                   ret, datHistory, unsure>>

unsubEvt(t) ==
    /\ Begin(t, "unsubEvt")
    /\ subscribed' = [subscribed EXCEPT ![EndOf[t]] = FALSE]
    /\ IF subscribed[EndOf[t]]
       THEN StartSend(t, EndOf[t], <<Message("UNSUBSCRIBE", <<>>)>>) /\ Goto(t, "send") /\ UNCHANGED <<cmd, ret,
                                     limit>>
       ELSE Return(t, "NOT_EXIST") /\ UNCHANGED <<todo, mixed>>
    /\ UNCHANGED <<conf, link, net, rx, response, IncomingCmdQueue, PollingBuffer, PeerHasSubscription, datHistory,
                   unsure>>

postEvt(t) ==
    /\ Begin(t, "postEvt")
    /\ IF PeerHasSubscription[EndOf[t]]
       THEN StartSend(t, EndOf[t], <<Message("EVENT", <<NewId>>)>>) /\ Goto(t, "send") /\ UNCHANGED <<cmd, ret,
                                     limit>>
       ELSE Return(t, "NO_EVENT_CONSUMER") /\ UNCHANGED <<todo, mixed>>
    /\ UNCHANGED <<conf, link, net, rx, response, stored, datHistory, unsure>>

-----------------------------------------------------------------------------
(* __TCP_recvThread: the receiver of end e is at a label with the message that it is about. *)
At(e, label, msg) == rx' = [rx EXCEPT ![e] = [at |-> label, msg |-> msg]]
(* A message that has arrived. *)
Arrives(e, type) ==
    /\ rx[e].at = "header" /\ link[e] = "open" /\ net[e] # <<>>
    /\ ~Head(net[e]).cut /\ Head(net[e]).type = type
    /\ net' = [net EXCEPT ![e] = Tail(@)]

receiveSubscribe(e) ==
    /\ \/ Arrives(e, "SUBSCRIBE") /\ PeerHasSubscription' = [PeerHasSubscription EXCEPT ![e] = TRUE]
       \/ Arrives(e, "UNSUBSCRIBE") /\ PeerHasSubscription' = [PeerHasSubscription EXCEPT ![e] = FALSE]
    /\ UNCHANGED <<conf, link, rx, response, IncomingCmdQueue, PollingBuffer, subscribed, pc, local, todo,
                   datHistory, mixed, unsure>>

(* The subscription is read first, the callback runs afterwards. *)
receiveEvent(e) ==
    /\ Arrives(e, "EVENT")
    /\ IF subscribed[e] THEN At(e, "callback", Head(net[e])) ELSE UNCHANGED rx
    /\ UNCHANGED <<conf, link, response, stored, pc, local, todo, datHistory, mixed, unsure>>

callbackEvent(e) ==
    /\ rx[e].at = "callback" /\ At(e, "header", Nothing)
    /\ UNCHANGED <<conf, link, net, response, stored, pc, local, todo, datHistory, mixed, unsure>>

(* The data go to the callback, or into the buffer if they fit (__IOC_writeDataToPollingBuffer), or are lost. *)
Fits_OffByOne(e, data) == Len(data) <= BufferSize - Len(PollingBuffer[e]) + 1   \* mutant: a unit too many
Fits(e, data) == Len(data) <= BufferSize - Len(PollingBuffer[e])

receiveData(e) ==
    LET data == Head(net[e]).ids IN
    /\ Arrives(e, "DATA")
    /\ CASE DatMode[e] = "callback" ->
               got' = [got EXCEPT ![e] = @ \o data] /\ UNCHANGED <<PollingBuffer, dropped, pc>>
         [] DatMode[e] = "polling" /\ Fits(e, data) ->
               /\ PollingBuffer' = [PollingBuffer EXCEPT ![e] = @ \o data]
               /\ Signal(e, "asleepDat", "read") /\ UNCHANGED <<got, dropped>>
         [] OTHER ->
               dropped' = [dropped EXCEPT ![e] = @ \cup ToSet(data)] /\ UNCHANGED <<PollingBuffer, got, pc>>
    /\ UNCHANGED <<conf, link, rx, response, IncomingCmdQueue, PeerHasSubscription, subscribed, local, todo, sent,
                   mixed, unsure>>

(* A command whose status is past PROCESSING is a response. *)
receiveCmd(e) ==
    LET msg == Head(net[e]) IN
    /\ Arrives(e, "COMMAND")
    /\ IF IsRequest(CmdOf(msg))
       THEN At(e, IF msg.payload THEN "inPayload" ELSE "request", msg) /\ UNCHANGED CmdResponse
       ELSE /\ At(e, IF msg.payload THEN "outPayload" ELSE "response", msg)
            /\ CmdResponse' = [CmdResponse EXCEPT ![e] = [CmdOf(msg) EXCEPT !.payload = FALSE]]
    /\ UNCHANGED <<conf, link, CmdResponseReady, RecvError, stored, pc, local, todo, datHistory, mixed,
                   unsure>>

receivePayload(e) ==
    /\ link[e] = "open" /\ net[e] # <<>> /\ ~Head(net[e]).cut
    /\ net' = [net EXCEPT ![e] = Tail(@)]
    /\ \/ rx[e].at = "inPayload" /\ At(e, "request", rx[e].msg) /\ UNCHANGED CmdResponse
       \/ /\ rx[e].at = "outPayload" /\ At(e, "response", rx[e].msg)
          /\ CmdResponse' = [CmdResponse EXCEPT ![e].payload = TRUE]
    /\ UNCHANGED <<conf, link, CmdResponseReady, RecvError, stored, pc, local, todo, datHistory, mixed,
                   unsure>>

(* The connection has ended: nothing more comes from a peer that closed, and this end's own close makes *)
(* recv fail.  Only a waiting execCmd is told, and not when it is the body of a command or of data that *)
(* is missing; a command's payload is simply left out.                                                  *)
Ended(e) == link[e] # "open" \/ (link[Peer(e)] # "open" /\ (net[e] # <<>> => Head(net[e]).cut))
Missing(e) == IF net[e] = <<>> THEN "header" ELSE Head(net[e]).type

receiveFails(e) ==
    /\ rx[e].at = "header" /\ Ended(e)
    /\ IF Missing(e) = "COMMAND" THEN UNCHANGED RecvError
       ELSE \E error \in {"LINK_BROKEN", "BUG"} :
               (error = "BUG" => link[e] # "open") /\ RecvError' = [RecvError EXCEPT ![e] = error]
    /\ IF Missing(e) \in {"header", "EVENT"}
       THEN CmdResponseReady' = [CmdResponseReady EXCEPT ![e] = TRUE] /\ Signal(e, "asleepResp", "await")
       ELSE UNCHANGED <<CmdResponseReady, pc>>
    /\ At(e, "exited", Nothing)
    /\ UNCHANGED <<conf, link, net, CmdResponse, stored, local, todo, datHistory, mixed, unsure>>

payloadFails(e) ==
    /\ rx[e].at \in {"inPayload", "outPayload"} /\ Ended(e)
    /\ At(e, IF rx[e].at = "inPayload" THEN "request" ELSE "response", [rx[e].msg EXCEPT !.payload = FALSE])
    /\ net' = [net EXCEPT ![e] = <<>>]
    /\ UNCHANGED <<conf, link, response, stored, pc, local, todo, datHistory, mixed, unsure>>

(* A request: the callback runs here and its response goes out, or the command is queued, or dropped. *)
callbackCmd(e) ==
    LET c == CmdOf(rx[e].msg) IN
    /\ rx[e].at = "request" /\ CmdCallback[e]
    /\ \E ok \in BOOLEAN : StartSend(e, e, CmdMessages(Answered(c, ok)))
    /\ At(e, "respond", Nothing)
    /\ UNCHANGED <<conf, link, net, response, stored, pc, local, datHistory, unsure>>

respond(e) ==
    /\ rx[e].at = "respond" /\ (Transmit(e, e) \/ SendFails(e, e))
    /\ At(e, "header", Nothing)
    /\ UNCHANGED <<conf, link, response, stored, pc, local, datHistory, mixed, unsure>>

queueCmd(e) ==
    /\ rx[e].at = "request" /\ ~CmdCallback[e]
    /\ IF Len(IncomingCmdQueue[e]) < CmdQueueLen
       THEN IncomingCmdQueue' = [IncomingCmdQueue EXCEPT ![e] = Append(@, CmdOf(rx[e].msg))]
            /\ Signal(e, "asleepCmd", "poll")
       ELSE UNCHANGED <<IncomingCmdQueue, pc>>
    /\ At(e, "header", Nothing)
    /\ UNCHANGED <<conf, link, net, response, PollingBuffer, PeerHasSubscription, subscribed, local, todo,
                   datHistory, mixed, unsure>>

reportResponse_NoSignal(e) ==   \* mutant: the waiting call is not signalled
    /\ rx[e].at = "response" /\ At(e, "header", Nothing)
    /\ CmdResponseReady' = [CmdResponseReady EXCEPT ![e] = TRUE]
    /\ UNCHANGED <<pc, conf, link, net, CmdResponse, RecvError, stored, local, todo, datHistory, mixed, unsure>>

reportResponse(e) ==
    /\ rx[e].at = "response" /\ At(e, "header", Nothing)
    /\ CmdResponseReady' = [CmdResponseReady EXCEPT ![e] = TRUE]
    /\ Signal(e, "asleepResp", "await")
    /\ UNCHANGED <<conf, link, net, CmdResponse, RecvError, stored, local, todo, datHistory, mixed, unsure>>

-----------------------------------------------------------------------------
(* closeLink, when no call of this end is in progress.  Its receiver may be in the middle of a response.  *)
(* The socket of an end that has not read everything is reset, and what it sent last may be lost as well. *)
Cut(s) == IF s = <<>> THEN s ELSE [s EXCEPT ![Len(s)].cut = TRUE]

closeLink(e) ==
    LET sending == net[Peer(e)] \o todo[e] IN
    /\ link[e] = "open" /\ ~mixed[e] /\ \A t \in Of(e) : pc[t] \in {"idle", "holding"}
    /\ Cardinality({f \in Ends : link[f] # "open"}) < MaxClosed
    /\ link' = [link EXCEPT ![e] = "closing"]
    /\ IF link[Peer(e)] # "open" THEN net' = [net EXCEPT ![e] = <<>>]
       ELSE \E arrives \in {sending, Cut(sending), net[Peer(e)], Cut(net[Peer(e)]), <<>>} :
               /\ net[e] = <<>> => IsPrefix(net[Peer(e)], arrives)
               /\ net' = [net EXCEPT ![e] = <<>>, ![Peer(e)] = arrives]
    /\ UNCHANGED <<conf, rx, response, stored, pc, local, todo, datHistory, mixed, unsure>>

joinReceiver(e) ==
    /\ link[e] = "closing" /\ rx[e].at = "exited"
    /\ link' = [link EXCEPT ![e] = "closed"]
    /\ UNCHANGED <<conf, net, rx, response, stored, pc, local, todo, datHistory, mixed, unsure>>

(* The receiver looks at RecvThreadRunning between two messages. *)
stopReceiver(e) ==
    /\ link[e] = "closing" /\ rx[e].at = "header" /\ At(e, "exited", Nothing)
    /\ UNCHANGED <<conf, link, net, response, stored, pc, local, todo, datHistory, mixed, unsure>>

SpuriousWakeup(t) ==
    /\ \/ pc[t] = "asleepResp" /\ Goto(t, "await")
       \/ pc[t] = "asleepCmd" /\ Goto(t, "poll")
       \/ pc[t] = "asleepDat" /\ Goto(t, "read")
    /\ UNCHANGED <<conf, link, net, rx, response, stored, local, todo, datHistory, mixed, unsure>>

Call(t) ==
    execCmd(t) \/ waitCmd(t) \/ sendData(t) \/ recvData(t) \/ subEvt(t) \/ unsubEvt(t) \/ postEvt(t)
Continue(t) ==
    \/ send(t) \/ sendFails(t)
    \/ takeResponse(t) \/ sleepForResponse(t) \/ execTimeout(t)
    \/ popCmd(t) \/ sleepForCmd(t) \/ waitTimeout(t) \/ ackCmd(t)
    \/ readNothing(t) \/ readData(t)
Receiver(e) ==
    \/ receiveSubscribe(e) \/ receiveEvent(e) \/ callbackEvent(e) \/ receiveData(e)
    \/ receiveCmd(e) \/ receivePayload(e) \/ receiveFails(e) \/ payloadFails(e)
    \/ callbackCmd(e) \/ respond(e) \/ queueCmd(e) \/ reportResponse(e) \/ stopReceiver(e)

Next ==
    \/ \E t \in Threads : Call(t) \/ Continue(t) \/ SpuriousWakeup(t)
    \/ \E e \in Ends : Receiver(e) \/ closeLink(e) \/ joinReceiver(e)

Spec == Init /\ [][Next]_vars

(* Threads are scheduled, callbacks return, and the deadline of an execCmd passes however often its thread *)
(* wakes up before.                                                                                        *)
Executes(t) == "execCmd" \in May[t]
FairSpec ==
    /\ Spec
    /\ \A t \in Threads : WF_vars(Continue(t))
    /\ \A t \in {u \in Threads : Executes(u)} : SF_vars(execTimeout(t))
    /\ \A e \in Ends : WF_vars(Receiver(e))

-----------------------------------------------------------------------------
(* Properties. *)
Messages == [type : {"COMMAND", "DATA", "EVENT", "SUBSCRIBE", "UNSUBSCRIBE", "NEGOTIATION"}, ids : Seq(Nat),
             status : {"none", "PENDING", "SUCCESS", "FAILED"}, payload : BOOLEAN, cut : BOOLEAN]
Cmds == [id : Nat, status : {"INITIALIZED", "PENDING", "SUCCESS", "FAILED"}, payload : BOOLEAN]
Results == {"none", "SUCCESS", "LINK_BROKEN", "BUG", "TIMEOUT", "NO_DATA", "NOT_SUPPORT", "NOT_EXIST", "NO_EVENT_CONSUMER"}

(* Types, and a queue and a buffer within their sizes. *)
TypeOK ==
    /\ link \in [Ends -> {"open", "closing", "closed"}]
    /\ net \in [Ends -> Seq(Messages)]
    /\ rx \in [Ends -> [at : {"header", "inPayload", "outPayload", "callback", "request", "respond", "response", "exited"},
                       msg : Messages]]
    /\ CmdResponseReady \in [Ends -> BOOLEAN] /\ CmdResponse \in [Ends -> Cmds]
    /\ RecvError \in [Ends -> {"SUCCESS", "LINK_BROKEN", "BUG"}]
    /\ IncomingCmdQueue \in [Ends -> Seq(Cmds)] /\ PollingBuffer \in [Ends -> Seq(Nat)]
    /\ \A e \in Ends : Len(IncomingCmdQueue[e]) <= CmdQueueLen /\ Len(PollingBuffer[e]) <= BufferSize
    /\ PeerHasSubscription \in [Ends -> BOOLEAN] /\ subscribed \in [Ends -> BOOLEAN]
    /\ pc \in [Threads -> Executing \cup {"idle", "send", "ack", "poll", "asleepCmd", "holding", "read", "asleepDat"}]
    /\ cmd \in [Threads -> Cmds] /\ limit \in [Threads -> {"nonblock", "timed", "infinite"}] /\ ret \in [Threads -> Results]
    /\ todo \in [Threads \cup Ends -> Seq(Messages)]

(* A receiver reads the stream in step with the sender: a payload comes where it asks for one and *)
(* nowhere else.                                                                                  *)
InStep ==
    \A e \in Ends : net[e] # <<>> =>
        /\ rx[e].at \in {"inPayload", "outPayload"} => Head(net[e]).type = "DATA" /\ Head(net[e]).ids = <<0>>
        /\ rx[e].at \notin {"inPayload", "outPayload"} => Head(net[e]).ids # <<0>>

(* Of what was sent to an end the application and its buffer have the first units, in order and *)
(* once, but for those of messages that did not fit into the buffer; the next ones are on their *)
(* way, in order, and while both ends are open the others are still with the thread that sends. *)
IsData(msg) == msg.type = "DATA" /\ msg.ids # <<0>> /\ ~msg.cut
DataIn(messages) == {i \in 1 .. Len(messages) : IsData(messages[i])}
Units(messages) == UNION {ToSet(messages[i].ids) : i \in DataIn(messages)}
Increasing(s) == \A i, j \in 1 .. Len(s) : i < j => s[i] < s[j]
InOrder(messages) ==
    \A i, j \in DataIn(messages) :
        IF i = j THEN Increasing(messages[i].ids)
        ELSE i < j => \A u \in ToSet(messages[i].ids), v \in ToSet(messages[j].ids) : u < v
Received(e) == got[e] \o PollingBuffer[e]
Unsent(e) == UNION {Units(todo[a]) : a \in Senders(Peer(e))}
DataStream ==
    \A e \in Ends : \E received \in 0 .. sent[e] : \E carried \in received .. sent[e] :
        /\ Increasing(Received(e)) /\ ToSet(Received(e)) = (1 .. received) \ dropped[e]
        /\ InOrder(net[e]) /\ Units(net[e]) = (received + 1) .. carried
        /\ link[e] = "open" /\ link[Peer(e)] = "open" /\ ~mixed[Peer(e)] => Unsent(e) = (carried + 1) .. sent[e]

(* An execCmd that returns SUCCESS has the response to its own command, unless calls overlap *)
(* or an earlier one timed out: the response does not say which command it answers.          *)
ResponseBelongs ==
    [][\A t \in Threads : (pc[t] = "await" /\ pc'[t] = "idle" /\ ret'[t] = "SUCCESS" /\ ~unsure[EndOf[t]])
           => CmdResponse[EndOf[t]].id = cmd[t].id]_vars

(* An execCmd with a timeout returns, whatever the other end does; one without a timeout whose *)
(* executor has a callback returns, with the response or with an error, as long as its receiver *)
(* can tell it: it is alive when the call begins, and fails between two messages.               *)
Told(e) == rx[e].at = "exited" => CmdResponseReady[e]
Excused(t) == unsure[EndOf[t]] \/ mixed[Peer(EndOf[t])] \/ ~Told(EndOf[t])
ExecReturns ==
    \A t \in {u \in Threads : Executes(u)} :
        (pc[t] = "exec" /\ (limit[t] = "timed" \/ CmdCallback[Peer(EndOf[t])]))
          ~> (pc[t] = "idle" \/ mixed[EndOf[t]] \/ (limit[t] = "infinite" /\ Excused(t)))
=============================================================================
