------------------------------- MODULE FifoCmd -------------------------------
(***************************************************************************)
(* Source/IOC_Command.c over Source/_IOC_SrvProtoFifo.c: commands over a   *)
(* connected pair of links.  Threads at one end execute commands; the      *)
(* other end either has a callback, which runs in a thread of its own      *)
(* while the caller waits with a timeout, or polls: the command goes into  *)
(* a ring of the executor's end, waitCMD takes it, ackCMD puts the         *)
(* response into a ring of the initiator's end, and the caller looks       *)
(* there for the sequence number it gave its command.                      *)
(*                                                                         *)
(* CmdPollingMutex, CmdState.SubStateMutex and completionMutex protect one *)
(* step each, which is atomic here.  A thread that waits for a condition   *)
(* is asleep until a signal picks it or it wakes up by itself.             *)
(***************************************************************************)
EXTENDS Integers, ConetLinkState

CONSTANTS Initiators,  \* the threads that call IOC_execCMD on the one end
          Executors,   \* the threads that call IOC_waitCMD and IOC_ackCMD on the other
          Modes,       \* how the executor's end may be set up: "callback", "polling", "none"
          QueueLen,    \* 64: how many commands, and how many responses, a link queues
          MaxCalls,    \* bound: how many commands the initiators execute in all
          NoDesc       \* what a slot holds that calloc cleared

ASSUME SizesAssumption == QueueLen \in Nat \ {0} /\ MaxCalls \in Nat
ASSUME ModesAssumption == Modes \subseteq {"callback", "polling", "none"}
ASSUME ThreadsAssumption == Initiators \cap Executors = {} /\ NoDesc \notin [seq : Nat, Status : STRING]

VARIABLES
    mode,             \* what the executor's usage arguments hold
    sequenceCounter,
    QueuedCmdNum, ProcedCmdNum, QueuedCmdDescs,      \* the executor's end: commands
    QueuedRespNum, ProcedRespNum, QueuedRespDescs,   \* the initiator's end: responses
    cmdState,         \* cmdState[e]: CmdState of the link at end e
    pc, desc,         \* where each thread is, and the descriptor it passed
    waitFor,          \* waitFor[x]: the timeout option of x's waitCMD
    ret,              \* ret[t]: what the call t is in, or its last one, returns
    callback,         \* callback[t]: the callback thread of t's call
    calls,
    overlapped        \* history: calls that another call on the link overlapped

cmdRing == <<QueuedCmdNum, ProcedCmdNum, QueuedCmdDescs>>
respRing == <<QueuedRespNum, ProcedRespNum, QueuedRespDescs>>
history == <<calls, overlapped>>
vars == <<mode, sequenceCounter, cmdRing, respRing, cmdState, pc, desc, waitFor, ret, callback, history>>

Slots == 0 .. QueueLen - 1
Blank == [seq |-> 0, Status |-> "INITIALIZED"]
NoCallback == [state |-> "none", cancelled |-> FALSE, isCompleted |-> FALSE, result |-> "BUG"]

Init ==
    /\ mode \in Modes
    /\ sequenceCounter = 1
    /\ QueuedCmdNum = 0 /\ ProcedCmdNum = 0 /\ QueuedCmdDescs = [i \in Slots |-> NoDesc]
    /\ QueuedRespNum = 0 /\ ProcedRespNum = 0 /\ QueuedRespDescs = [i \in Slots |-> NoDesc]
    /\ cmdState = [e \in {"initiator", "executor"} |-> CmdQuiet]
    /\ pc = [t \in Initiators \cup Executors |-> "idle"]
    /\ desc = [t \in Initiators \cup Executors |-> Blank]
    /\ waitFor = [x \in Executors |-> "infinite"]
    /\ ret = [t \in Initiators \cup Executors |-> "none"]
    /\ callback = [t \in Initiators |-> NoCallback]
    /\ calls = 0
    /\ overlapped = {}

Goto(t, label) == pc' = [pc EXCEPT ![t] = label]
Settle(t, code, label) == ret' = [ret EXCEPT ![t] = code] /\ Goto(t, label)
Flag(end, name, value) == cmdState' = [cmdState EXCEPT ![end][name] = value]

(* pthread_cond_signal for threads that sleep at a label: one of them wakes up, if there is one. *)
Signal(threads, here, pcs) ==
    LET asleep == {t \in threads : pc[t] = here}
    IN  IF asleep = {} THEN pc' = pcs ELSE \E t \in asleep : pc' = [pcs EXCEPT ![t] = "awake"]

-----------------------------------------------------------------------------
(* IOC_execCMD, up to OpExecCmd_F. *)
InCall == {t \in Initiators : pc[t] # "idle"}

execCMD(t) ==
    /\ pc[t] = "idle" /\ calls < MaxCalls
    /\ calls' = calls + 1
    /\ overlapped' = IF InCall = {} THEN {} ELSE InCall \cup {t}
    /\ Flag("initiator", "IsExecuting", TRUE)
    /\ desc' = [desc EXCEPT ![t] = Blank]
    /\ Settle(t, "none", "exec")
    /\ UNCHANGED <<mode, sequenceCounter, cmdRing, respRing, waitFor, callback>>

(* No executor at the other end, or a command its callback does not support. *)
execRefused(t) ==
    /\ pc[t] = "exec"
    /\ \/ mode = "none" /\ Settle(t, "NO_CMD_EXECUTOR", "leave")
       \/ mode = "callback" /\ Settle(t, "NOT_SUPPORT", "leave")
    /\ UNCHANGED <<mode, sequenceCounter, cmdRing, respRing, cmdState, desc, waitFor, callback, history>>

(* OpExecCmd_F has returned. *)
execLeave(t) ==
    /\ pc[t] = "leave"
    /\ Flag("initiator", "IsExecuting", FALSE)
    /\ Goto(t, "idle")
    /\ UNCHANGED <<mode, sequenceCounter, cmdRing, respRing, desc, waitFor, ret, callback, history>>

-----------------------------------------------------------------------------
(* execCmd of an executor that polls. *)
stampCmd(t) ==
    /\ pc[t] = "exec" /\ mode = "polling"
    /\ desc' = [desc EXCEPT ![t].seq = sequenceCounter]
    /\ sequenceCounter' = sequenceCounter + 1
    /\ Goto(t, "stamped")
    /\ UNCHANGED <<mode, cmdRing, respRing, cmdState, waitFor, ret, callback, history>>

CmdQueueFull_OffByOne == QueuedCmdNum - ProcedCmdNum > QueueLen   \* mutant: a full ring takes one more
CmdQueueFull == QueuedCmdNum - ProcedCmdNum >= QueueLen

refuseCmd(t) ==
    /\ pc[t] = "stamped" /\ CmdQueueFull
    /\ Settle(t, "TOO_MANY_QUEUING_EVTDESC", "leave")
    /\ UNCHANGED <<mode, sequenceCounter, cmdRing, respRing, cmdState, desc, waitFor, callback, history>>

queueCmd(t) ==
    /\ pc[t] = "stamped" /\ ~CmdQueueFull
    /\ QueuedCmdDescs' = [QueuedCmdDescs EXCEPT ![QueuedCmdNum % QueueLen] = [desc[t] EXCEPT !.Status = "PENDING"]]
    /\ QueuedCmdNum' = QueuedCmdNum + 1
    /\ Signal(Executors, "asleep", [pc EXCEPT ![t] = "await"])
    /\ UNCHANGED <<mode, sequenceCounter, ProcedCmdNum, respRing, cmdState, desc, waitFor, ret, callback, history>>

(* One pass of the loop over the queued responses, under the initiator's CmdPollingMutex. *)
Response(i) == QueuedRespDescs[i % QueueLen]
LiveResponses == ProcedRespNum .. QueuedRespNum - 1
OwnResponses_AnySeq(t) == LiveResponses   \* mutant: the first response is taken to be one's own
OwnResponses(t) == {i \in LiveResponses : Response(i).seq = desc[t].seq}

takeResponse(t) ==
    /\ pc[t] \in {"await", "awake"} /\ t \in Initiators
    /\ \E i \in OwnResponses(t) :
          /\ \A j \in OwnResponses(t) : i <= j
          /\ desc' = [desc EXCEPT ![t] = Response(i)]
          /\ ProcedRespNum' = i + 1
    /\ Settle(t, "SUCCESS", "leave")
    /\ UNCHANGED <<mode, sequenceCounter, cmdRing, QueuedRespNum, QueuedRespDescs, cmdState, waitFor, callback,
                   calls, overlapped>>

sleepForResponse(t) ==
    /\ pc[t] \in {"await", "awake"} /\ t \in Initiators
    /\ OwnResponses(t) = {}
    /\ Goto(t, "asleep")
    /\ UNCHANGED <<mode, sequenceCounter, cmdRing, respRing, cmdState, desc, waitFor, ret, callback, history>>

-----------------------------------------------------------------------------
(* execCmd of an executor with a callback: the caller waits for a thread that runs it. *)
startCallback(t) ==
    /\ pc[t] = "exec" /\ mode = "callback"
    /\ Flag("executor", "IsProcessing", TRUE)
    /\ desc' = [desc EXCEPT ![t].Status = "PROCESSING"]
    /\ \/ callback' = [callback EXCEPT ![t] = [NoCallback EXCEPT !.state = "running"]] /\ Goto(t, "watch")
          /\ UNCHANGED ret
       \/ Settle(t, "BUG", "cleanup") /\ UNCHANGED callback   \* pthread_create failed
    /\ UNCHANGED <<mode, sequenceCounter, cmdRing, respRing, waitFor, history>>

(* The executor's callback, in __IOC_timeoutCallbackWrapper. *)
callbackReturns(t) ==
    /\ callback[t].state = "running"
    /\ \E code \in {"SUCCESS", "CMD_EXEC_FAILED"} :
          callback' = [callback EXCEPT ![t].state = "returned", ![t].result = code]
    /\ UNCHANGED <<mode, sequenceCounter, cmdRing, respRing, cmdState, pc, desc, waitFor, ret, history>>

callbackReports(t) ==
    /\ callback[t].state = "returned"
    /\ callback' = [callback EXCEPT ![t].state = "ended", ![t].isCompleted = TRUE]
    /\ UNCHANGED <<mode, sequenceCounter, cmdRing, respRing, cmdState, pc, desc, waitFor, ret, history>>

(* pthread_cancel is deferred: it takes effect where the callback sleeps or logs, if it does. *)
callbackCancelled(t) ==
    /\ callback[t].state = "running" /\ callback[t].cancelled
    /\ callback' = [callback EXCEPT ![t].state = "ended"]
    /\ UNCHANGED <<mode, sequenceCounter, cmdRing, respRing, cmdState, pc, desc, waitFor, ret, history>>

(* The caller sees isCompleted, or its timeout passes first. *)
seeCompletion(t) ==
    /\ pc[t] = "watch" /\ callback[t].isCompleted
    /\ Settle(t, callback[t].result, "join")
    /\ UNCHANGED <<mode, sequenceCounter, cmdRing, respRing, cmdState, desc, waitFor, callback, history>>

execTimeout(t) ==
    /\ pc[t] = "watch" /\ ~callback[t].isCompleted
    /\ callback' = [callback EXCEPT ![t].cancelled = TRUE]
    /\ Settle(t, "TIMEOUT", "join")
    /\ UNCHANGED <<mode, sequenceCounter, cmdRing, respRing, cmdState, desc, waitFor, history>>

joinCallback_NoWait(t) ==   \* mutant: the cancelled thread is not joined
    /\ pc[t] = "join" /\ Goto(t, "cleanup")
    /\ UNCHANGED <<mode, sequenceCounter, cmdRing, respRing, cmdState, desc, waitFor, ret, callback, history>>
joinCallback(t) ==
    /\ pc[t] = "join" /\ callback[t].state = "ended" /\ Goto(t, "cleanup")
    /\ UNCHANGED <<mode, sequenceCounter, cmdRing, respRing, cmdState, desc, waitFor, ret, callback, history>>

StatusOf(code) == IF code \in {"TIMEOUT", "SUCCESS"} THEN code ELSE "FAILED"
finishCallback(t) ==
    /\ pc[t] = "cleanup"
    /\ Flag("executor", "IsProcessing", FALSE)
    /\ desc' = [desc EXCEPT ![t].Status = StatusOf(ret[t])]
    /\ Goto(t, "leave")
    /\ UNCHANGED <<mode, sequenceCounter, cmdRing, respRing, waitFor, ret, callback, history>>

-----------------------------------------------------------------------------
(* IOC_waitCMD. *)
waitCMD(x) ==
    /\ pc[x] = "idle" /\ mode = "polling"
    /\ \E k \in {"nonblock", "timed", "infinite"} : waitFor' = [waitFor EXCEPT ![x] = k]
    /\ Flag("executor", "IsWaiting", TRUE)
    /\ Settle(x, "none", "look")
    /\ UNCHANGED <<mode, sequenceCounter, cmdRing, respRing, desc, callback, history>>

takeCmd(x) ==
    /\ pc[x] \in {"look", "awake"} /\ x \in Executors
    /\ QueuedCmdNum # ProcedCmdNum
    /\ desc' = [desc EXCEPT ![x] = [QueuedCmdDescs[ProcedCmdNum % QueueLen] EXCEPT !.Status = "PROCESSING"]]
    /\ ProcedCmdNum' = ProcedCmdNum + 1
    /\ Settle(x, "SUCCESS", "waited")
    /\ UNCHANGED <<mode, sequenceCounter, QueuedCmdNum, QueuedCmdDescs, respRing, cmdState, waitFor, callback, history>>

noCmd(x) ==
    /\ pc[x] \in {"look", "awake"} /\ x \in Executors
    /\ QueuedCmdNum = ProcedCmdNum
    /\ IF waitFor[x] = "nonblock" THEN Settle(x, "NO_EVENT_PENDING", "waited")
       ELSE Goto(x, "asleep") /\ UNCHANGED ret
    /\ UNCHANGED <<mode, sequenceCounter, cmdRing, respRing, cmdState, desc, waitFor, callback, history>>

waitTimeout(x) ==
    /\ pc[x] = "asleep" /\ waitFor[x] = "timed"
    /\ Settle(x, "TIMEOUT", "waited")
    /\ UNCHANGED <<mode, sequenceCounter, cmdRing, respRing, cmdState, desc, waitFor, callback, history>>

StopWaiting_UnlessTaken(x) == Flag("executor", "IsWaiting", ret[x] = "SUCCESS")   \* mutant: the flag stays with a command
StopWaiting(x) == Flag("executor", "IsWaiting", FALSE)
waitLeave(x) ==
    /\ pc[x] = "waited"
    /\ StopWaiting(x)
    /\ waitFor' = [waitFor EXCEPT ![x] = "infinite"]
    /\ \/ ret[x] = "SUCCESS" /\ Goto(x, "holding") /\ UNCHANGED <<desc, ret>>
       \/ ret[x] # "SUCCESS" /\ Goto(x, "idle") /\ ret' = [ret EXCEPT ![x] = "none"] /\ UNCHANGED desc
    /\ UNCHANGED <<mode, sequenceCounter, cmdRing, respRing, callback, history>>

-----------------------------------------------------------------------------
(* IOC_ackCMD; an executor whose response is refused tries again.  The status and the result *)
(* of a response are the executor's.                                                        *)
forget(x) == desc' = [desc EXCEPT ![x] = Blank] /\ ret' = [ret EXCEPT ![x] = "none"] /\ UNCHANGED waitFor
RespQueueFull == QueuedRespNum - ProcedRespNum >= QueueLen

ackCMD_NoSignal(x) ==   \* mutant: the waiting caller is not signalled
    /\ pc[x] = "holding" /\ ~RespQueueFull
    /\ QueuedRespDescs' = [QueuedRespDescs EXCEPT ![QueuedRespNum % QueueLen] = desc[x]]
    /\ QueuedRespNum' = QueuedRespNum + 1
    /\ Goto(x, "idle")
    /\ forget(x)
    /\ UNCHANGED <<mode, sequenceCounter, cmdRing, ProcedRespNum, cmdState, callback, history>>

ackCMD(x) ==
    /\ pc[x] = "holding" /\ ~RespQueueFull
    /\ QueuedRespDescs' = [QueuedRespDescs EXCEPT ![QueuedRespNum % QueueLen] = desc[x]]
    /\ QueuedRespNum' = QueuedRespNum + 1
    /\ Signal(Initiators, "asleep", [pc EXCEPT ![x] = "idle"])
    /\ forget(x)
    /\ UNCHANGED <<mode, sequenceCounter, cmdRing, ProcedRespNum, cmdState, callback, history>>

ackRefused(x) ==
    /\ pc[x] = "holding" /\ RespQueueFull
    /\ ret' = [ret EXCEPT ![x] = "TOO_MANY_QUEUING_EVTDESC"]
    /\ UNCHANGED <<mode, sequenceCounter, cmdRing, respRing, cmdState, pc, desc, waitFor, callback, history>>

-----------------------------------------------------------------------------
SpuriousWakeup(t) ==
    /\ pc[t] = "asleep" /\ Goto(t, "awake")
    /\ UNCHANGED <<mode, sequenceCounter, cmdRing, respRing, cmdState, desc, waitFor, ret, callback, history>>

InitiatorStep(t) ==
    \/ execRefused(t) \/ execLeave(t)
    \/ stampCmd(t) \/ refuseCmd(t) \/ queueCmd(t) \/ takeResponse(t) \/ sleepForResponse(t)
    \/ startCallback(t) \/ seeCompletion(t) \/ execTimeout(t) \/ joinCallback(t) \/ finishCallback(t)
CallbackStep(t) == callbackReturns(t) \/ callbackReports(t) \/ callbackCancelled(t)
ExecutorStep(x) ==
    waitCMD(x) \/ takeCmd(x) \/ noCmd(x) \/ waitTimeout(x) \/ waitLeave(x) \/ ackCMD(x) \/ ackRefused(x)

Next ==
    \/ \E t \in Initiators : execCMD(t) \/ InitiatorStep(t) \/ CallbackStep(t)
    \/ \E x \in Executors : ExecutorStep(x)
    \/ \E t \in Initiators \cup Executors : SpuriousWakeup(t)

Spec == Init /\ [][Next]_vars

(* Threads are scheduled, callbacks return, and the executor's application keeps polling. *)
FairSpec ==
    /\ Spec
    /\ \A t \in Initiators : WF_vars(InitiatorStep(t)) /\ WF_vars(CallbackStep(t))
    /\ \A x \in Executors : WF_vars(ExecutorStep(x))

-----------------------------------------------------------------------------
(* Properties. *)
CallbackStates == {"none", "running", "returned", "ended"}
Refusals == {"NO_CMD_EXECUTOR", "NOT_SUPPORT", "TOO_MANY_QUEUING_EVTDESC", "BUG"}
Answers == {"SUCCESS", "CMD_EXEC_FAILED"}
Statuses == {"INITIALIZED", "PENDING", "PROCESSING", "SUCCESS", "FAILED", "TIMEOUT"}
CallbackType == [state : CallbackStates, cancelled : BOOLEAN, isCompleted : BOOLEAN, result : Answers \cup {"BUG"}]
Descs == [seq : Nat, Status : Statuses]

(* Types, and counters that are at most a ring apart. *)
TypeOK ==
    /\ mode \in Modes /\ sequenceCounter \in Nat
    /\ QueuedCmdNum \in Nat /\ ProcedCmdNum \in Nat /\ QueuedRespNum \in Nat /\ ProcedRespNum \in Nat
    /\ QueuedCmdNum - ProcedCmdNum \in 0 .. QueueLen /\ QueuedRespNum - ProcedRespNum \in 0 .. QueueLen
    /\ QueuedCmdDescs \in [Slots -> Descs \cup {NoDesc}] /\ QueuedRespDescs \in [Slots -> Descs \cup {NoDesc}]
    /\ cmdState \in [{"initiator", "executor"} -> CmdFlags]
    /\ pc \in [Initiators \cup Executors -> {"idle", "exec", "stamped", "await", "asleep", "awake", "watch", "join",
                                             "cleanup", "leave", "look", "waited", "holding"}]
    /\ desc \in [Initiators \cup Executors -> Descs]
    /\ waitFor \in [Executors -> {"nonblock", "timed", "infinite"}]
    /\ ret \in [Initiators \cup Executors -> {"none", "TIMEOUT", "NO_EVENT_PENDING"} \cup Refusals \cup Answers]
    /\ callback \in [Initiators -> CallbackType]
    /\ calls \in 0 .. MaxCalls
    /\ overlapped \subseteq Initiators

(* Where the command with a sequence number is. *)
LiveCmds == ProcedCmdNum .. QueuedCmdNum - 1
Cmd(i) == QueuedCmdDescs[i % QueueLen]
InHand(x) == pc[x] = "holding" \/ (pc[x] = "waited" /\ ret[x] = "SUCCESS")
QueuedSeqs == {Cmd(i).seq : i \in LiveCmds}
HeldSeqs == {desc[x].seq : x \in {y \in Executors : InHand(y)}}
AnsweredSeqs == {Response(i).seq : i \in LiveResponses}
Waiting(t) == pc[t] \in {"await", "asleep", "awake"}

(* The command of a call as CmdExchange sees it: a callback's thread takes and answers *)
(* one command, a polling executor those it finds in the ring.                         *)
CallbackPhase(c) ==
    IF c.isCompleted THEN "answered" ELSE IF c.state = "returned" THEN "taken" ELSE "sent"
PollingPhase(t) ==
    CASE Waiting(t) /\ desc[t].seq \in QueuedSeqs -> "sent"
      [] Waiting(t) /\ desc[t].seq \in HeldSeqs   -> "taken"
      [] OTHER                                      -> "answered"
Phase(t) ==
    IF pc[t] = "idle" THEN "idle"
    ELSE IF pc[t] \in {"exec", "stamped"} \/ ret[t] \in Refusals THEN "begun"
    ELSE IF mode = "callback" THEN CallbackPhase(callback[t])
    ELSE PollingPhase(t)
Outcome(t) ==
    IF pc[t] # "idle" \/ ret[t] = "none" THEN "none"
    ELSE IF ret[t] \in Refusals THEN "refused"
    ELSE IF ret[t] \in Answers THEN "answered"
    ELSE "timeout"

Exchange == INSTANCE CmdExchange WITH
    Callers <- Initiators, phase <- [t \in Initiators |-> Phase(t)], outcome <- [t \in Initiators |-> Outcome(t)]

(* A command that execCMD sends is taken once, answered once, and the call returns with     *)
(* success only when its own command was answered, with any number of callers and executors *)
(* on the two rings, and in callback mode.                                                  *)
ImplementsExchange == Exchange!Spec

(* The rings and the executors hold nothing but commands whose callers still wait for them: *)
(* no response is left behind that would fill the ring of 64 or be there for a later call.   *)
EveryCommandHasCaller ==
    QueuedSeqs \cup HeldSeqs \cup AnsweredSeqs \subseteq {desc[t].seq : t \in {u \in Initiators : Waiting(u)}}

(* getLinkState shows an initiator busy during a call that no other call overlaps, an       *)
(* executor busy while such a call's callback runs, and neither when nothing is going on.   *)
Shows(end, usage) == LinkSubState({usage}, DatQuiet, cmdState[end], FALSE, 0)
Lone(t) == t \in InCall \ overlapped
SubStateTruthful ==
    /\ InCall = {} => Shows("initiator", "CmdInitiator") = "CmdInitiatorReady"
    /\ \A t \in Initiators :
          Lone(t) => /\ Shows("initiator", "CmdInitiator") = "CmdInitiatorBusyExecCmd"
                     /\ callback[t].state = "running" => Shows("executor", "CmdExecutor") = "CmdExecutorBusyExecCmd"
    /\ (InCall = {} /\ \A x \in Executors : pc[x] \in {"idle", "holding"})
          => Shows("executor", "CmdExecutor") = "CmdExecutorReady"

(* When execCMD has returned, also with a timeout, no thread still runs the executor's *)
(* callback for it, which would write into the caller's descriptor.                    *)
NoCallbackAfterReturn == \A t \in Initiators : pc[t] \in {"idle", "cleanup", "leave"} => callback[t].state \in {"none", "ended"}

(* An execCMD that no other overlaps returns. *)
LoneExecReturns == \A t \in Initiators : pc[t] = "exec" ~> (pc[t] = "idle" \/ t \in overlapped)

(* Every execCMD returns. *)
EveryExecReturns == \A t \in Initiators : pc[t] = "exec" ~> pc[t] = "idle"
=============================================================================
