---------------------------- MODULE FifoCmdProofs ----------------------------
(***************************************************************************)
(* Commands over a FIFO link, for any number of callers and executors, any *)
(* length of the rings and any number of calls: the types, every queued,   *)
(* held and answered command has its caller, no callback outlives its      *)
(* call, the flags of an end say what its one call is doing, and all of it *)
(* implements the exchange that CmdExchange describes.                     *)
(***************************************************************************)
EXTENDS FifoCmd, TLAPS

USE SizesAssumption, ModesAssumption, ThreadsAssumption

(* Two counters less than a ring apart address different slots. *)
LEMMA SlotsDiffer ==
    ASSUME NEW n \in Nat \ {0}, NEW a \in Nat, NEW b \in Nat, a < b, b < a + n
    PROVE  a % n # b % n
<1> DEFINE q == a \div n
           r == b \div n
<1>1. a = n * q + (a % n) /\ b = n * r + (b % n) /\ q \in Int /\ r \in Int /\ a % n \in Nat /\ b % n \in Nat
  OBVIOUS
<1> HIDE DEF q, r
<1>2. ASSUME a % n = b % n PROVE FALSE
  <2> DEFINE k == r - q
  <2>1. k \in Int /\ n * k = n * r - n * q
    BY <1>1
  <2>2. n * k = b - a
    BY <1>1, <1>2, <2>1
  <2> HIDE DEF k
  <2>3. k >= 1 => n * k >= n
    BY <2>1
  <2>4. k <= 0 => n * k <= 0
    BY <2>1
  <2> QED
    BY <2>1, <2>2, <2>3, <2>4
<1> QED
  BY <1>2

(* In a ring that is not full, no live element has the slot behind the last one. *)
LEMMA FreeSlot ==
    ASSUME NEW lo \in Nat, NEW hi \in Nat, lo <= hi, hi - lo < QueueLen
    PROVE  hi % QueueLen \in Slots /\ \A i \in lo .. hi - 1 : i % QueueLen \in Slots /\ i % QueueLen # hi % QueueLen
<1>1. hi % QueueLen \in Slots
  BY DEF Slots
<1>2. ASSUME NEW i \in lo .. hi - 1 PROVE i % QueueLen \in Slots /\ i % QueueLen # hi % QueueLen
  <2>1. i \in Nat /\ i < hi /\ hi < i + QueueLen
    OBVIOUS
  <2>2. i % QueueLen # hi % QueueLen
    BY <2>1, SlotsDiffer
  <2> QED
    BY <2>1, <2>2 DEF Slots
<1> QED
  BY <1>1, <1>2

-----------------------------------------------------------------------------
IPc == {"idle", "exec", "stamped", "await", "asleep", "awake", "watch", "join", "cleanup", "leave"}
EPc == {"idle", "look", "asleep", "awake", "waited", "holding"}

(* The types, apart for the two kinds of threads; what is live in a ring is a descriptor. *)
TypeInv ==
    /\ TypeOK
    /\ \A t \in Initiators : pc[t] \in IPc
    /\ \A x \in Executors : pc[x] \in EPc
    /\ \A i \in LiveCmds : Cmd(i) \in Descs
    /\ \A i \in LiveResponses : Response(i) \in Descs

Threads == Initiators \cup Executors

(* Setting a flag of one end, and a field of one call's callback, keeps the types. *)
LEMMA FlagType ==
    ASSUME cmdState \in [{"initiator", "executor"} -> CmdFlags], NEW end \in {"initiator", "executor"},
           NEW name \in {"IsExecuting", "IsWaiting", "IsProcessing"}, NEW value \in BOOLEAN, Flag(end, name, value)
    PROVE  cmdState' \in [{"initiator", "executor"} -> CmdFlags]
  BY DEF Flag, CmdFlags

LEMMA CallbackFields ==
    ASSUME NEW r \in CallbackType
    PROVE  /\ \A state \in CallbackStates : [r EXCEPT !.state = state] \in CallbackType
           /\ \A b \in BOOLEAN : [r EXCEPT !.isCompleted = b] \in CallbackType
           /\ \A code \in Answers : [r EXCEPT !.result = code] \in CallbackType
<1>1. \A state \in CallbackStates : [r EXCEPT !.state = state] \in CallbackType
  BY DEF CallbackType
<1>2. \A b \in BOOLEAN : [r EXCEPT !.isCompleted = b] \in CallbackType
  BY DEF CallbackType
<1>3. \A code \in Answers : [r EXCEPT !.result = code] \in CallbackType
  BY DEF CallbackType
<1> QED
  BY <1>1, <1>2, <1>3

LEMMA CallbackWritten ==
    ASSUME callback \in [Initiators -> CallbackType], NEW t \in Initiators, NEW r \in CallbackType,
           callback' = [callback EXCEPT ![t] = r]
    PROVE  callback' \in [Initiators -> CallbackType]
  OBVIOUS

LEMMA CallbackStep1 ==
    ASSUME callback \in [Initiators -> CallbackType], NEW t \in Initiators, NEW state \in CallbackStates,
           NEW completed \in BOOLEAN,
           callback' = [callback EXCEPT ![t].state = state, ![t].isCompleted = completed]
    PROVE  callback' \in [Initiators -> CallbackType]
<1> DEFINE r == [[callback[t] EXCEPT !.state = state] EXCEPT !.isCompleted = completed]
<1>1. r \in CallbackType
  BY CallbackFields
<1>2. callback' = [callback EXCEPT ![t] = r]
  OBVIOUS
<1> HIDE DEF r
<1> QED
  BY <1>1, <1>2, CallbackWritten

LEMMA CallbackStep2 ==
    ASSUME callback \in [Initiators -> CallbackType], NEW t \in Initiators, NEW state \in CallbackStates,
           NEW code \in Answers,
           callback' = [callback EXCEPT ![t].state = state, ![t].result = code]
    PROVE  callback' \in [Initiators -> CallbackType]
<1> DEFINE r == [[callback[t] EXCEPT !.state = state] EXCEPT !.result = code]
<1>1. r \in CallbackType
  BY CallbackFields
<1>2. callback' = [callback EXCEPT ![t] = r]
  OBVIOUS
<1> HIDE DEF r
<1> QED
  BY <1>1, <1>2, CallbackWritten

LEMMA InitTypeInv == Init => TypeInv
<1> USE DEF Init, TypeInv, TypeOK, Slots
<1> SUFFICES ASSUME Init PROVE TypeInv
  OBVIOUS
<1>1. /\ cmdState \in [{"initiator", "executor"} -> CmdFlags]
      /\ callback \in [Initiators -> CallbackType]
      /\ desc \in [Threads -> Descs]
  BY DEF CallbackType, CmdFlags, CmdQuiet, Descs, Statuses, Blank, NoCallback, CallbackStates, Threads
<1> QED
  BY <1>1 DEF IPc, EPc, LiveCmds, LiveResponses, Threads

(* The steps that leave both rings alone. *)
LEMMA QuietRings ==
    ASSUME TypeInv, UNCHANGED <<cmdRing, respRing>>
    PROVE  (\A i \in LiveCmds : Cmd(i) \in Descs)' /\ (\A i \in LiveResponses : Response(i) \in Descs)'
  BY DEF TypeInv, cmdRing, respRing, LiveCmds, LiveResponses, Cmd, Response

LEMMA InitiatorType ==
    ASSUME TypeInv, NEW t \in Initiators,
           execCMD(t) \/ execRefused(t) \/ execLeave(t) \/ stampCmd(t) \/ refuseCmd(t) \/ sleepForResponse(t)
             \/ startCallback(t) \/ seeCompletion(t) \/ execTimeout(t) \/ joinCallback(t) \/ finishCallback(t)
    PROVE  TypeInv'
<1> USE DEF TypeOK, Goto, Settle, history, cmdRing, respRing, IPc, EPc
<1>1. UNCHANGED <<cmdRing, respRing>>
  BY DEF execCMD, execRefused, execLeave, stampCmd, refuseCmd, sleepForResponse, startCallback, seeCompletion,
         execTimeout, joinCallback, finishCallback
<1>2. (\A i \in LiveCmds : Cmd(i) \in Descs)' /\ (\A i \in LiveResponses : Response(i) \in Descs)'
  BY <1>1, QuietRings
<1> SUFFICES TypeOK' /\ (\A u \in Initiators : pc[u] \in IPc)' /\ (\A x \in Executors : pc[x] \in EPc)'
  BY <1>2 DEF TypeInv
<1>t. TypeOK /\ (\A u \in Initiators : pc[u] \in IPc) /\ (\A x \in Executors : pc[x] \in EPc)
  BY DEF TypeInv
<1>3. CASE execCMD(t)
  <2>1. cmdState' \in [{"initiator", "executor"} -> CmdFlags]
    BY <1>3, <1>t, FlagType DEF execCMD
  <2>2. desc' \in [Initiators \cup Executors -> Descs]
    BY <1>3, <1>t DEF execCMD, Descs, Blank, Statuses
  <2> QED
    BY <1>3, <1>t, <2>1, <2>2 DEF execCMD, InCall
<1>4. CASE execRefused(t)
  BY <1>4, <1>t DEF execRefused, Refusals
<1>5. CASE execLeave(t)
  <2>1. cmdState' \in [{"initiator", "executor"} -> CmdFlags]
    BY <1>5, <1>t, FlagType DEF execLeave
  <2> QED
    BY <1>5, <1>t, <2>1 DEF execLeave
<1>6. CASE stampCmd(t)
  BY <1>6, <1>t DEF stampCmd, Descs
<1>7. CASE refuseCmd(t)
  BY <1>7, <1>t DEF refuseCmd, Refusals
<1>8. CASE sleepForResponse(t)
  BY <1>8, <1>t DEF sleepForResponse
<1>9. CASE startCallback(t)
  <2>1. cmdState' \in [{"initiator", "executor"} -> CmdFlags]
    BY <1>9, <1>t, FlagType DEF startCallback
  <2>2. desc' \in [Initiators \cup Executors -> Descs]
    BY <1>9, <1>t DEF startCallback, Descs, Statuses
  <2>3. callback' \in [Initiators -> CallbackType]
    <3>1. [NoCallback EXCEPT !.state = "running"] \in CallbackType
      BY DEF NoCallback, CallbackType, CallbackStates
    <3> QED
      BY <1>9, <1>t, <3>1 DEF startCallback
  <2> QED
    BY <1>9, <1>t, <2>1, <2>2, <2>3 DEF startCallback, Refusals
<1>10. CASE seeCompletion(t)
  <2>1. callback[t].result \in Answers \cup Refusals
    BY <1>t DEF CallbackType, Refusals
  <2> QED
    BY <1>10, <1>t, <2>1 DEF seeCompletion
<1>11. CASE execTimeout(t)
  <2>1. callback' \in [Initiators -> CallbackType]
    <3>1. callback \in [Initiators -> CallbackType] /\ callback' = [callback EXCEPT ![t].cancelled = TRUE]
      BY <1>11, <1>t DEF execTimeout
    <3> QED
      BY <3>1 DEF CallbackType
  <2> QED
    BY <1>11, <1>t, <2>1 DEF execTimeout
<1>12. CASE joinCallback(t)
  BY <1>12, <1>t DEF joinCallback
<1>13. CASE finishCallback(t)
  <2>1. cmdState' \in [{"initiator", "executor"} -> CmdFlags]
    BY <1>13, <1>t, FlagType DEF finishCallback
  <2>2. desc' \in [Initiators \cup Executors -> Descs]
    BY <1>13, <1>t DEF finishCallback, StatusOf, Descs, Statuses
  <2> QED
    BY <1>13, <1>t, <2>1, <2>2 DEF finishCallback
<1> QED
  BY <1>3, <1>4, <1>5, <1>6, <1>7, <1>8, <1>9, <1>10, <1>11, <1>12, <1>13

(* The callback's thread. *)
LEMMA CallbackTypes == ASSUME TypeInv, NEW t \in Initiators, CallbackStep(t) PROVE TypeInv'
<1>1. callback' \in [Initiators -> CallbackType]
  <2> USE DEF TypeInv, TypeOK
  <2>1. CASE callbackReturns(t)
    <3>1. PICK code \in Answers : callback' = [callback EXCEPT ![t].state = "returned", ![t].result = code]
      BY <2>1 DEF callbackReturns, Answers
    <3>2. "returned" \in CallbackStates /\ callback \in [Initiators -> CallbackType]
      BY DEF CallbackStates
    <3> QED
      BY <3>1, <3>2, CallbackStep2
  <2>2. CASE callbackReports(t)
    <3>1. /\ callback' = [callback EXCEPT ![t].state = "ended", ![t].isCompleted = TRUE]
          /\ "ended" \in CallbackStates /\ TRUE \in BOOLEAN /\ callback \in [Initiators -> CallbackType]
      BY <2>2 DEF callbackReports, CallbackStates
    <3> QED
      BY <3>1, CallbackStep1
  <2>3. CASE callbackCancelled(t)
    <3>1. callback' = [callback EXCEPT ![t] = [callback[t] EXCEPT !.state = "ended"]]
      BY <2>3 DEF callbackCancelled
    <3>2. [callback[t] EXCEPT !.state = "ended"] \in CallbackType
      BY CallbackFields DEF CallbackStates
    <3> QED
      BY <3>1, <3>2, CallbackWritten
  <2> QED
    BY <2>1, <2>2, <2>3 DEF CallbackStep
<1>2. UNCHANGED <<mode, sequenceCounter, cmdRing, respRing, cmdState, pc, desc, waitFor, ret, history>>
  BY DEF CallbackStep, callbackReturns, callbackReports, callbackCancelled
<1>3. (\A i \in LiveCmds : Cmd(i) \in Descs)' /\ (\A i \in LiveResponses : Response(i) \in Descs)'
  BY <1>2, QuietRings
<1> QED
  BY <1>1, <1>2, <1>3 DEF TypeInv, TypeOK, cmdRing, respRing, history

(* The executor's steps that leave the rings alone, and a wakeup without a signal. *)
LEMMA ExecutorType ==
    ASSUME TypeInv, NEW x \in Executors, waitCMD(x) \/ noCmd(x) \/ waitTimeout(x) \/ waitLeave(x) \/ ackRefused(x)
    PROVE  TypeInv'
<1> USE DEF TypeOK, Goto, Settle, history, cmdRing, respRing, IPc, EPc
<1>1. UNCHANGED <<cmdRing, respRing>>
  BY DEF waitCMD, noCmd, waitTimeout, waitLeave, ackRefused
<1>2. (\A i \in LiveCmds : Cmd(i) \in Descs)' /\ (\A i \in LiveResponses : Response(i) \in Descs)'
  BY <1>1, QuietRings
<1> SUFFICES TypeOK' /\ (\A u \in Initiators : pc[u] \in IPc)' /\ (\A y \in Executors : pc[y] \in EPc)'
  BY <1>2 DEF TypeInv
<1>t. TypeOK /\ (\A u \in Initiators : pc[u] \in IPc) /\ (\A y \in Executors : pc[y] \in EPc)
  BY DEF TypeInv
<1>3. CASE waitCMD(x)
  <2>1. cmdState' \in [{"initiator", "executor"} -> CmdFlags]
    BY <1>3, <1>t, FlagType DEF waitCMD
  <2> QED
    BY <1>3, <1>t, <2>1 DEF waitCMD
<1>4. CASE noCmd(x)
  BY <1>4, <1>t DEF noCmd
<1>5. CASE waitTimeout(x)
  BY <1>5, <1>t DEF waitTimeout
<1>6. CASE waitLeave(x)
  <2>1. cmdState' \in [{"initiator", "executor"} -> CmdFlags]
    BY <1>6, <1>t, FlagType DEF waitLeave, StopWaiting
  <2> QED
    BY <1>6, <1>t, <2>1 DEF waitLeave
<1>7. CASE ackRefused(x)
  BY <1>7, <1>t DEF ackRefused, Refusals
<1> QED
  BY <1>3, <1>4, <1>5, <1>6, <1>7

LEMMA WakeupType == ASSUME TypeInv, NEW t \in Threads, SpuriousWakeup(t) PROVE TypeInv'
<1>1. UNCHANGED <<cmdRing, respRing>>
  BY DEF SpuriousWakeup
<1>2. (\A i \in LiveCmds : Cmd(i) \in Descs)' /\ (\A i \in LiveResponses : Response(i) \in Descs)'
  BY <1>1, QuietRings
<1> QED
  BY <1>2 DEF TypeInv, TypeOK, SpuriousWakeup, Goto, history, cmdRing, respRing, IPc, EPc, Threads

-----------------------------------------------------------------------------
(* What the four steps on the rings do to what is live in them. *)
LEMMA QueueCmdEffect ==
    ASSUME TypeInv, NEW t \in Initiators, queueCmd(t)
    PROVE  /\ QueuedCmdNum \in Nat /\ LiveCmds' = LiveCmds \cup {QueuedCmdNum} /\ QueuedCmdNum \notin LiveCmds
           /\ \A i \in LiveCmds : Cmd(i)' = Cmd(i)
           /\ QueuedCmdDescs'[QueuedCmdNum % QueueLen] = [desc[t] EXCEPT !.Status = "PENDING"]
           /\ (QueuedCmdNum - ProcedCmdNum)' \in 0 .. QueueLen
<1> USE DEF TypeInv, TypeOK
<1>1. ProcedCmdNum <= QueuedCmdNum /\ QueuedCmdNum - ProcedCmdNum < QueueLen /\ QueuedCmdNum' = QueuedCmdNum + 1
      /\ ProcedCmdNum' = ProcedCmdNum
  BY DEF queueCmd, CmdQueueFull
<1>2. /\ \A i \in ProcedCmdNum .. QueuedCmdNum - 1 :
             QueuedCmdDescs'[i % QueueLen] = QueuedCmdDescs[i % QueueLen]
      /\ QueuedCmdDescs'[QueuedCmdNum % QueueLen] = [desc[t] EXCEPT !.Status = "PENDING"]
  <2>1. QueuedCmdDescs \in [Slots -> Descs \cup {NoDesc}] /\ QueuedCmdNum \in Nat /\ ProcedCmdNum \in Nat
    OBVIOUS
  <2>2. QueuedCmdDescs' = [QueuedCmdDescs EXCEPT ![QueuedCmdNum % QueueLen] = [desc[t] EXCEPT !.Status = "PENDING"]]
    BY DEF queueCmd
  <2>3. ProcedCmdNum <= QueuedCmdNum /\ QueuedCmdNum - ProcedCmdNum < QueueLen
    BY <1>1
  <2> HIDE DEF TypeInv, TypeOK
  <2>4. /\ QueuedCmdNum % QueueLen \in Slots
        /\ \A i \in ProcedCmdNum .. QueuedCmdNum - 1 : i % QueueLen \in Slots /\ i % QueueLen # QueuedCmdNum % QueueLen
    BY <2>1, <2>3, FreeSlot
  <2> QED
    BY <2>1, <2>2, <2>4
<1>3. QueuedCmdNum \in Nat /\ ProcedCmdNum \in Nat /\ QueueLen \in Nat
  OBVIOUS
<1> HIDE DEF TypeInv, TypeOK
<1>4. LiveCmds' = LiveCmds \cup {QueuedCmdNum} /\ QueuedCmdNum \notin LiveCmds
  BY <1>1, <1>3 DEF LiveCmds
<1>5. (QueuedCmdNum - ProcedCmdNum)' \in 0 .. QueueLen
  BY <1>1, <1>3
<1>6. \A i \in LiveCmds : Cmd(i)' = Cmd(i)
  BY <1>2 DEF LiveCmds, Cmd
<1>7. QueuedCmdDescs'[QueuedCmdNum % QueueLen] = [desc[t] EXCEPT !.Status = "PENDING"]
  BY <1>2
<1> QED
  BY <1>3, <1>4, <1>5, <1>6, <1>7

LEMMA TakeCmdEffect ==
    ASSUME TypeInv, NEW x \in Executors, takeCmd(x)
    PROVE  /\ ProcedCmdNum \in LiveCmds /\ LiveCmds' = LiveCmds \ {ProcedCmdNum}
           /\ \A i \in LiveCmds : Cmd(i)' = Cmd(i)
           /\ desc' = [desc EXCEPT ![x] = [Cmd(ProcedCmdNum) EXCEPT !.Status = "PROCESSING"]]
           /\ (QueuedCmdNum - ProcedCmdNum)' \in 0 .. QueueLen /\ ProcedCmdNum' \in Nat
<1> USE DEF TypeInv, TypeOK
<1>1. ProcedCmdNum < QueuedCmdNum /\ ProcedCmdNum' = ProcedCmdNum + 1
      /\ QueuedCmdNum' = QueuedCmdNum /\ QueuedCmdDescs' = QueuedCmdDescs
  BY DEF takeCmd
<1> QED
  BY <1>1 DEF LiveCmds, Cmd, takeCmd

LEMMA AckEffect ==
    ASSUME TypeInv, NEW x \in Executors, ackCMD(x)
    PROVE  /\ QueuedRespNum \in Nat /\ LiveResponses' = LiveResponses \cup {QueuedRespNum}
           /\ QueuedRespNum \notin LiveResponses
           /\ \A i \in LiveResponses : Response(i)' = Response(i)
           /\ QueuedRespDescs'[QueuedRespNum % QueueLen] = desc[x]
           /\ (QueuedRespNum - ProcedRespNum)' \in 0 .. QueueLen
<1> USE DEF TypeInv, TypeOK
<1>1. ProcedRespNum <= QueuedRespNum /\ QueuedRespNum - ProcedRespNum < QueueLen /\ QueuedRespNum' = QueuedRespNum + 1
      /\ ProcedRespNum' = ProcedRespNum
  BY DEF ackCMD, RespQueueFull
<1>2. /\ \A i \in ProcedRespNum .. QueuedRespNum - 1 :
             QueuedRespDescs'[i % QueueLen] = QueuedRespDescs[i % QueueLen]
      /\ QueuedRespDescs'[QueuedRespNum % QueueLen] = desc[x]
  <2>1. QueuedRespDescs \in [Slots -> Descs \cup {NoDesc}] /\ QueuedRespNum \in Nat /\ ProcedRespNum \in Nat
    OBVIOUS
  <2>2. QueuedRespDescs' = [QueuedRespDescs EXCEPT ![QueuedRespNum % QueueLen] = desc[x]]
    BY DEF ackCMD
  <2>3. ProcedRespNum <= QueuedRespNum /\ QueuedRespNum - ProcedRespNum < QueueLen
    BY <1>1
  <2> HIDE DEF TypeInv, TypeOK
  <2>4. /\ QueuedRespNum % QueueLen \in Slots
        /\ \A i \in ProcedRespNum .. QueuedRespNum - 1 : i % QueueLen \in Slots /\ i % QueueLen # QueuedRespNum % QueueLen
    BY <2>1, <2>3, FreeSlot
  <2> QED
    BY <2>1, <2>2, <2>4
<1>3. QueuedRespNum \in Nat /\ ProcedRespNum \in Nat /\ QueueLen \in Nat
  OBVIOUS
<1> HIDE DEF TypeInv, TypeOK
<1>4. LiveResponses' = LiveResponses \cup {QueuedRespNum} /\ QueuedRespNum \notin LiveResponses
  BY <1>1, <1>3 DEF LiveResponses
<1>5. (QueuedRespNum - ProcedRespNum)' \in 0 .. QueueLen
  BY <1>1, <1>3
<1>6. \A i \in LiveResponses : Response(i)' = Response(i)
  BY <1>2 DEF LiveResponses, Response
<1>7. QueuedRespDescs'[QueuedRespNum % QueueLen] = desc[x]
  BY <1>2
<1> QED
  BY <1>3, <1>4, <1>5, <1>6, <1>7

LEMMA TakeResponseEffect ==
    ASSUME TypeInv, NEW t \in Initiators, takeResponse(t)
    PROVE  \E i \in LiveResponses :
              /\ Response(i).seq = desc[t].seq /\ desc' = [desc EXCEPT ![t] = Response(i)]
              /\ LiveResponses' = {j \in LiveResponses : j > i}
              /\ \A j \in LiveResponses : Response(j)' = Response(j)
              /\ (QueuedRespNum - ProcedRespNum)' \in 0 .. QueueLen /\ ProcedRespNum' \in Nat
<1> USE DEF TypeInv, TypeOK
<1>1. PICK i \in OwnResponses(t) : desc' = [desc EXCEPT ![t] = Response(i)] /\ ProcedRespNum' = i + 1
  BY DEF takeResponse
<1>2. i \in LiveResponses /\ Response(i).seq = desc[t].seq
  BY <1>1 DEF OwnResponses
<1>3. QueuedRespNum' = QueuedRespNum /\ QueuedRespDescs' = QueuedRespDescs
  BY DEF takeResponse
<1>4. LiveResponses' = {j \in LiveResponses : j > i}
  BY <1>1, <1>2, <1>3 DEF LiveResponses
<1>5. \A j \in LiveResponses : Response(j)' = Response(j)
  BY <1>3 DEF Response
<1>6. (QueuedRespNum - ProcedRespNum)' \in 0 .. QueueLen /\ ProcedRespNum' \in Nat
  BY <1>1, <1>2, <1>3 DEF LiveResponses
<1> QED
  BY <1>1, <1>2, <1>4, <1>5, <1>6
-----------------------------------------------------------------------------
(* Where the two signals leave the threads: at most one sleeper wakes up. *)
LEMMA QueueCmdWakes ==
    ASSUME pc \in [Threads -> IPc \cup EPc], NEW t \in Initiators, queueCmd(t)
    PROVE  /\ pc' \in [Threads -> IPc \cup EPc] /\ pc'[t] = "await" /\ pc[t] = "stamped"
           /\ \A u \in Threads \ {t} : pc'[u] = pc[u] \/ (u \in Executors /\ pc[u] = "asleep" /\ pc'[u] = "awake")
<1> DEFINE asleep == {x \in Executors : pc[x] = "asleep"}
           pcs == [pc EXCEPT ![t] = "await"]
<1>1. pcs \in [Threads -> IPc \cup EPc] /\ pcs[t] = "await" /\ \A u \in Threads \ {t} : pcs[u] = pc[u]
  BY DEF Threads, IPc, EPc
<1>2. pc[t] = "stamped"
  BY DEF queueCmd
<1>3. CASE asleep = {}
  <2>1. pc' = pcs
    BY <1>3 DEF queueCmd, Signal
  <2> QED
    BY <1>1, <1>2, <2>1
<1>4. CASE asleep # {}
  <2>1. PICK w \in asleep : pc' = [pcs EXCEPT ![w] = "awake"]
    BY <1>4 DEF queueCmd, Signal
  <2>2. w \in Executors /\ pc[w] = "asleep" /\ w # t /\ w \in Threads
    BY <2>1, <1>2 DEF Threads
  <2> HIDE DEF asleep, pcs
  <2> QED
    BY <1>1, <1>2, <2>1, <2>2 DEF IPc
<1> QED
  BY <1>3, <1>4

LEMMA AckWakes ==
    ASSUME pc \in [Threads -> IPc \cup EPc], NEW x \in Executors, ackCMD(x)
    PROVE  /\ pc' \in [Threads -> IPc \cup EPc] /\ pc'[x] = "idle" /\ pc[x] = "holding"
           /\ \A u \in Threads \ {x} : pc'[u] = pc[u] \/ (u \in Initiators /\ pc[u] = "asleep" /\ pc'[u] = "awake")
<1> DEFINE asleep == {t \in Initiators : pc[t] = "asleep"}
           pcs == [pc EXCEPT ![x] = "idle"]
<1>1. pcs \in [Threads -> IPc \cup EPc] /\ pcs[x] = "idle" /\ \A u \in Threads \ {x} : pcs[u] = pc[u]
  BY DEF Threads, IPc, EPc
<1>2. pc[x] = "holding"
  BY DEF ackCMD
<1>3. CASE asleep = {}
  <2>1. pc' = pcs
    BY <1>3 DEF ackCMD, Signal
  <2> QED
    BY <1>1, <1>2, <2>1
<1>4. CASE asleep # {}
  <2>1. PICK w \in asleep : pc' = [pcs EXCEPT ![w] = "awake"]
    BY <1>4 DEF ackCMD, Signal
  <2>2. w \in Initiators /\ pc[w] = "asleep" /\ w # x /\ w \in Threads
    BY <2>1, <1>2 DEF Threads
  <2> HIDE DEF asleep, pcs
  <2> QED
    BY <1>1, <1>2, <2>1, <2>2 DEF IPc
<1> QED
  BY <1>3, <1>4

LEMMA SlotWritten ==
    ASSUME NEW ring \in [Slots -> Descs \cup {NoDesc}], NEW k, NEW d \in Descs
    PROVE  [ring EXCEPT ![k] = d] \in [Slots -> Descs \cup {NoDesc}]
  OBVIOUS

LEMMA QueueCmdType == ASSUME TypeInv, NEW t \in Initiators, queueCmd(t) PROVE TypeInv'
<1>1. /\ QueuedCmdNum \in Nat /\ LiveCmds' = LiveCmds \cup {QueuedCmdNum}
      /\ \A i \in LiveCmds : Cmd(i)' = Cmd(i)
      /\ QueuedCmdDescs'[QueuedCmdNum % QueueLen] = [desc[t] EXCEPT !.Status = "PENDING"]
      /\ (QueuedCmdNum - ProcedCmdNum)' \in 0 .. QueueLen
  BY QueueCmdEffect
<1>2. [desc[t] EXCEPT !.Status = "PENDING"] \in Descs
  BY DEF TypeInv, TypeOK, Descs, Statuses
<1>3. QueuedCmdDescs' \in [Slots -> Descs \cup {NoDesc}] /\ QueuedCmdNum' \in Nat
  <2>1. /\ QueuedCmdDescs \in [Slots -> Descs \cup {NoDesc}] /\ QueuedCmdNum' = QueuedCmdNum + 1
        /\ QueuedCmdDescs' = [QueuedCmdDescs EXCEPT ![QueuedCmdNum % QueueLen] = [desc[t] EXCEPT !.Status = "PENDING"]]
    BY DEF TypeInv, TypeOK, queueCmd
  <2> QED
    BY <1>1, <1>2, <2>1, SlotWritten
<1>4. \A i \in LiveCmds' : Cmd(i)' \in Descs
  BY <1>1, <1>2 DEF TypeInv, Cmd
<1>5. /\ pc' \in [Threads -> IPc \cup EPc]
      /\ \A u \in Initiators : pc'[u] \in IPc
      /\ \A x \in Executors : pc'[x] \in EPc
  <2>1. pc \in [Threads -> IPc \cup EPc]
    BY DEF TypeInv, TypeOK, IPc, EPc, Threads
  <2> QED
    BY <2>1, QueueCmdWakes DEF TypeInv, IPc, EPc, Threads
<1>6. UNCHANGED <<mode, sequenceCounter, ProcedCmdNum, respRing, cmdState, desc, waitFor, ret, callback, history>>
  BY DEF queueCmd
<1>7. \A i \in LiveResponses' : Response(i)' \in Descs
  BY <1>6 DEF TypeInv, respRing, LiveResponses, Response
<1> QED
  BY <1>1, <1>3, <1>4, <1>5, <1>6, <1>7 DEF TypeInv, TypeOK, respRing, history, IPc, EPc, Threads

LEMMA AckType == ASSUME TypeInv, NEW x \in Executors, ackCMD(x) PROVE TypeInv'
<1>1. /\ QueuedRespNum \in Nat /\ LiveResponses' = LiveResponses \cup {QueuedRespNum}
      /\ \A i \in LiveResponses : Response(i)' = Response(i)
      /\ QueuedRespDescs'[QueuedRespNum % QueueLen] = desc[x]
      /\ (QueuedRespNum - ProcedRespNum)' \in 0 .. QueueLen
  BY AckEffect
<1>2. desc[x] \in Descs /\ Blank \in Descs
  BY DEF TypeInv, TypeOK, Descs, Statuses, Blank
<1>3. /\ QueuedRespDescs' \in [Slots -> Descs \cup {NoDesc}] /\ QueuedRespNum' \in Nat
      /\ desc' \in [Threads -> Descs]
      /\ ret' \in [Threads -> {"none", "TIMEOUT", "NO_EVENT_PENDING"} \cup Refusals \cup Answers]
  <2>1. /\ QueuedRespDescs \in [Slots -> Descs \cup {NoDesc}] /\ QueuedRespNum' = QueuedRespNum + 1
        /\ QueuedRespDescs' = [QueuedRespDescs EXCEPT ![QueuedRespNum % QueueLen] = desc[x]]
    BY DEF TypeInv, TypeOK, ackCMD
  <2>2. desc' = [desc EXCEPT ![x] = Blank] /\ ret' = [ret EXCEPT ![x] = "none"]
    BY DEF ackCMD, forget
  <2>3. desc \in [Threads -> Descs] /\ ret \in [Threads -> {"none", "TIMEOUT", "NO_EVENT_PENDING"} \cup Refusals \cup Answers]
    BY DEF TypeInv, TypeOK, Threads
  <2>4. QueuedRespDescs' \in [Slots -> Descs \cup {NoDesc}] /\ QueuedRespNum' \in Nat
    BY <1>1, <1>2, <2>1, SlotWritten
  <2> QED
    BY <1>2, <2>2, <2>3, <2>4
<1>4. \A i \in LiveResponses' : Response(i)' \in Descs
  BY <1>1, <1>2 DEF TypeInv, Response
<1>5. /\ pc' \in [Threads -> IPc \cup EPc]
      /\ \A u \in Initiators : pc'[u] \in IPc
      /\ \A y \in Executors : pc'[y] \in EPc
  <2>1. pc \in [Threads -> IPc \cup EPc]
    BY DEF TypeInv, TypeOK, IPc, EPc, Threads
  <2> QED
    BY <2>1, AckWakes DEF TypeInv, IPc, EPc, Threads
<1>6. UNCHANGED <<mode, sequenceCounter, cmdRing, ProcedRespNum, cmdState, waitFor, callback, history>>
  BY DEF ackCMD, forget
<1>7. \A i \in LiveCmds' : Cmd(i)' \in Descs
  BY <1>6 DEF TypeInv, cmdRing, LiveCmds, Cmd
<1> QED
  BY <1>1, <1>3, <1>4, <1>5, <1>6, <1>7 DEF TypeInv, TypeOK, cmdRing, history, IPc, EPc, Threads

LEMMA TakeCmdType == ASSUME TypeInv, NEW x \in Executors, takeCmd(x) PROVE TypeInv'
<1>1. /\ ProcedCmdNum \in LiveCmds /\ LiveCmds' = LiveCmds \ {ProcedCmdNum}
      /\ \A i \in LiveCmds : Cmd(i)' = Cmd(i)
      /\ desc' = [desc EXCEPT ![x] = [Cmd(ProcedCmdNum) EXCEPT !.Status = "PROCESSING"]]
      /\ (QueuedCmdNum - ProcedCmdNum)' \in 0 .. QueueLen /\ ProcedCmdNum' \in Nat
  BY TakeCmdEffect
<1>2. [Cmd(ProcedCmdNum) EXCEPT !.Status = "PROCESSING"] \in Descs
  BY <1>1 DEF TypeInv, Descs, Statuses
<1>3. desc' \in [Threads -> Descs]
  BY <1>1, <1>2 DEF TypeInv, TypeOK, Threads
<1>4. /\ UNCHANGED <<mode, sequenceCounter, QueuedCmdNum, QueuedCmdDescs, respRing, cmdState, waitFor, callback, history>>
      /\ pc' = [pc EXCEPT ![x] = "waited"] /\ ret' = [ret EXCEPT ![x] = "SUCCESS"]
  BY DEF takeCmd, Settle, Goto
<1>5. \A i \in LiveCmds' : Cmd(i)' \in Descs
  BY <1>1 DEF TypeInv
<1>6. \A i \in LiveResponses' : Response(i)' \in Descs
  BY <1>4 DEF TypeInv, respRing, LiveResponses, Response
<1> QED
  BY <1>1, <1>3, <1>4, <1>5, <1>6 DEF TypeInv, TypeOK, respRing, history, IPc, EPc, Threads, Answers

LEMMA TakeResponseType == ASSUME TypeInv, NEW t \in Initiators, takeResponse(t) PROVE TypeInv'
<1>1. PICK i \in LiveResponses :
              /\ desc' = [desc EXCEPT ![t] = Response(i)]
              /\ LiveResponses' = {j \in LiveResponses : j > i}
              /\ \A j \in LiveResponses : Response(j)' = Response(j)
              /\ (QueuedRespNum - ProcedRespNum)' \in 0 .. QueueLen /\ ProcedRespNum' \in Nat
  BY TakeResponseEffect
<1>2. Response(i) \in Descs
  BY DEF TypeInv
<1>3. desc' \in [Threads -> Descs]
  BY <1>1, <1>2 DEF TypeInv, TypeOK, Threads
<1>4. /\ UNCHANGED <<mode, sequenceCounter, cmdRing, QueuedRespNum, QueuedRespDescs, cmdState, waitFor, callback,
                     calls, overlapped>>
      /\ pc' = [pc EXCEPT ![t] = "leave"] /\ ret' = [ret EXCEPT ![t] = "SUCCESS"]
  BY DEF takeResponse, Settle, Goto
<1>5. \A j \in LiveResponses' : Response(j)' \in Descs
  BY <1>1 DEF TypeInv
<1>6. \A j \in LiveCmds' : Cmd(j)' \in Descs
  BY <1>4 DEF TypeInv, cmdRing, LiveCmds, Cmd
<1>7. /\ pc' \in [Threads -> IPc \cup EPc] /\ (\A u \in Initiators : pc'[u] \in IPc) /\ \A x \in Executors : pc'[x] \in EPc
      /\ ret' \in [Threads -> {"none", "TIMEOUT", "NO_EVENT_PENDING"} \cup Refusals \cup Answers]
  BY <1>4, ThreadsAssumption DEF TypeInv, TypeOK, IPc, EPc, Threads, Answers
<1>8. TypeOK'
  BY <1>1, <1>3, <1>4, <1>7 DEF TypeInv, TypeOK, cmdRing, history, IPc, EPc, Threads
<1> QED
  BY <1>5, <1>6, <1>7, <1>8 DEF TypeInv

LEMMA NextTypeInv == TypeInv /\ [Next]_vars => TypeInv'
<1> SUFFICES ASSUME TypeInv, [Next]_vars PROVE TypeInv'
  OBVIOUS
<1>1. ASSUME NEW t \in Initiators, execCMD(t) \/ InitiatorStep(t) \/ CallbackStep(t) PROVE TypeInv'
  BY <1>1, InitiatorType, CallbackTypes, QueueCmdType, TakeResponseType DEF InitiatorStep
<1>2. ASSUME NEW x \in Executors, ExecutorStep(x) PROVE TypeInv'
  BY <1>2, ExecutorType, TakeCmdType, AckType DEF ExecutorStep
<1>3. ASSUME NEW t \in Threads, SpuriousWakeup(t) PROVE TypeInv'
  BY <1>3, WakeupType
<1>4. CASE UNCHANGED vars
  BY <1>4 DEF TypeInv, TypeOK, vars, cmdRing, respRing, history, LiveCmds, LiveResponses, Cmd, Response
<1> QED
  BY <1>1, <1>2, <1>3, <1>4 DEF Next, Threads

(* Every variable keeps its type, and neither ring ever holds more than it has slots, whatever the callers and *)
(* executors of one link do at once (execCmd, waitCmd and ackCmd of _IOC_SrvProtoFifo.c).                      *)
THEOREM TypeCorrect == Spec => []TypeOK
<1>1. TypeInv => TypeOK
  BY DEF TypeInv
<1> QED
  BY <1>1, InitTypeInv, NextTypeInv, PTL DEF Spec

-----------------------------------------------------------------------------
(* Only a caller that watches its callback, or joins it, has one that runs. *)
CallbackInv == \A t \in Initiators : pc[t] \notin {"watch", "join"} => callback[t].state \in {"none", "ended"}

LEMMA NextCallbackInv == TypeInv /\ CallbackInv /\ [Next]_vars => CallbackInv'
<1> SUFFICES ASSUME TypeInv, CallbackInv, [Next]_vars PROVE CallbackInv'
  OBVIOUS
<1> USE DEF CallbackInv, Goto, Settle
<1>t. pc \in [Threads -> IPc \cup EPc] /\ callback \in [Initiators -> CallbackType]
  BY DEF TypeInv, TypeOK, IPc, EPc, Threads
<1>1. ASSUME NEW t \in Initiators, execCMD(t) \/ InitiatorStep(t) PROVE CallbackInv'
  <2>1. CASE queueCmd(t)
    <3>1. callback' = callback /\ pc[t] = "stamped"
      BY <2>1 DEF queueCmd
    <3>2. \A u \in Initiators : pc'[u] = pc[u] \/ (pc[u] = "stamped" /\ u = t)
      BY <2>1, <1>t, QueueCmdWakes DEF Threads
    <3> QED
      BY <3>1, <3>2
  <2>2. CASE ~queueCmd(t)
    BY <1>1, <2>2, <1>t DEF Threads, InitiatorStep, execCMD, execRefused, execLeave, stampCmd, refuseCmd, takeResponse,
       sleepForResponse, startCallback, seeCompletion, execTimeout, joinCallback, finishCallback, NoCallback, CallbackType
  <2> QED
    BY <2>1, <2>2
<1>2. ASSUME NEW t \in Initiators, CallbackStep(t) PROVE CallbackInv'
  BY <1>2, <1>t DEF CallbackStep, callbackReturns, callbackReports, callbackCancelled, CallbackType
<1>3. ASSUME NEW x \in Executors, ExecutorStep(x) PROVE CallbackInv'
  <2>1. callback' = callback
    BY <1>3 DEF ExecutorStep, waitCMD, takeCmd, noCmd, waitTimeout, waitLeave, ackCMD, ackRefused
  <2>2. \A u \in Initiators : pc'[u] = pc[u] \/ (pc[u] = "asleep" /\ pc'[u] = "awake")
    <3>1. CASE ackCMD(x)
      BY <3>1, <1>t, AckWakes DEF Threads
    <3>2. CASE ~ackCMD(x)
      BY <1>3, <3>2, <1>t DEF Threads, ExecutorStep, waitCMD, takeCmd, noCmd, waitTimeout, waitLeave, ackRefused
    <3> QED
      BY <3>1, <3>2
  <2> QED
    BY <2>1, <2>2
<1>4. ASSUME NEW t \in Threads, SpuriousWakeup(t) PROVE CallbackInv'
  BY <1>4, <1>t DEF Threads, SpuriousWakeup
<1>5. CASE UNCHANGED vars
  BY <1>5 DEF vars
<1> QED
  BY <1>1, <1>2, <1>3, <1>4, <1>5 DEF Next, Threads

(* When execCMD has returned, also with a timeout, no thread still runs the executor's callback for it and none *)
(* writes into the caller's descriptor (pthread_cancel and pthread_join in execCmd of _IOC_SrvProtoFifo.c).     *)
THEOREM CallbacksEnd == Spec => []NoCallbackAfterReturn
<1>1. Init => CallbackInv
  BY DEF Init, CallbackInv, NoCallback
<1>2. TypeInv /\ CallbackInv => NoCallbackAfterReturn
  BY DEF CallbackInv, NoCallbackAfterReturn
<1> QED
  BY <1>1, <1>2, InitTypeInv, NextTypeInv, NextCallbackInv, PTL DEF Spec

-----------------------------------------------------------------------------
(* Which call a sequence number belongs to, and in how many places its command is. *)
Owns(t) == pc[t] = "stamped" \/ Waiting(t)
HasCaller(s) == \E t \in Initiators : Waiting(t) /\ desc[t].seq = s

(* Calls have numbers of their own, already given. *)
NumbersOK ==
    /\ \A t \in Initiators : Owns(t) => desc[t].seq < sequenceCounter
    /\ \A t, u \in Initiators : Owns(t) /\ Owns(u) /\ t # u => desc[t].seq # desc[u].seq
CmdsOK ==
    /\ \A i \in LiveCmds : HasCaller(Cmd(i).seq)
    /\ \A i, j \in LiveCmds : i # j => Cmd(i).seq # Cmd(j).seq
HandsOK ==
    /\ \A x \in Executors : InHand(x) => HasCaller(desc[x].seq)
    /\ \A x, y \in Executors : InHand(x) /\ InHand(y) /\ x # y => desc[x].seq # desc[y].seq
ResponsesOK ==
    /\ \A i \in LiveResponses : HasCaller(Response(i).seq)
    /\ \A i, j \in LiveResponses : i # j => Response(i).seq # Response(j).seq
(* A command is in one place. *)
PlacesOK ==
    /\ \A i \in LiveCmds, x \in Executors : InHand(x) => Cmd(i).seq # desc[x].seq
    /\ \A i \in LiveCmds, j \in LiveResponses : Cmd(i).seq # Response(j).seq
    /\ \A j \in LiveResponses, x \in Executors : InHand(x) => Response(j).seq # desc[x].seq
SeqInv == NumbersOK /\ CmdsOK /\ HandsOK /\ ResponsesOK /\ PlacesOK

LEMMA InitSeqInv == Init => SeqInv
  BY DEF Init, SeqInv, NumbersOK, CmdsOK, HandsOK, ResponsesOK, PlacesOK, Owns, Waiting, InHand, LiveCmds, LiveResponses

(* Steps that leave the rings and whatever is in hand alone, and nobody who waits stops waiting. *)
LEMMA QuietSeq ==
    ASSUME TypeInv, SeqInv, UNCHANGED <<cmdRing, respRing, sequenceCounter>>,
           \A t \in Initiators : /\ Waiting(t)' = Waiting(t)
                                 /\ Owns(t)' => Owns(t) /\ desc'[t].seq = desc[t].seq,
           \A x \in Executors : /\ InHand(x)' => InHand(x)
                                /\ InHand(x)' => desc'[x].seq = desc[x].seq
    PROVE  SeqInv'
<1>1. /\ LiveCmds' = LiveCmds /\ \A i \in LiveCmds : Cmd(i)' = Cmd(i)
      /\ LiveResponses' = LiveResponses /\ \A i \in LiveResponses : Response(i)' = Response(i)
  BY DEF cmdRing, respRing, LiveCmds, Cmd, LiveResponses, Response
<1>2. \A s : HasCaller(s) => HasCaller(s)'
  BY DEF HasCaller, Owns
<1>3. NumbersOK'
  BY DEF SeqInv, NumbersOK
<1>4. CmdsOK' /\ ResponsesOK'
  BY <1>1, <1>2 DEF SeqInv, CmdsOK, ResponsesOK
<1>5. HandsOK'
  BY <1>2 DEF SeqInv, HandsOK
<1>6. PlacesOK'
  BY <1>1 DEF SeqInv, PlacesOK
<1> QED
  BY <1>3, <1>4, <1>5, <1>6 DEF SeqInv

LEMMA QuietStepsSeq ==
    ASSUME TypeInv, SeqInv, NEW t \in Threads,
           \/ /\ t \in Initiators
              /\ \/ execCMD(t) \/ execRefused(t) \/ execLeave(t) \/ refuseCmd(t) \/ sleepForResponse(t)
                 \/ startCallback(t) \/ seeCompletion(t) \/ execTimeout(t) \/ joinCallback(t) \/ finishCallback(t)
                 \/ CallbackStep(t)
           \/ /\ t \in Executors
              /\ waitCMD(t) \/ noCmd(t) \/ waitTimeout(t) \/ waitLeave(t) \/ ackRefused(t)
           \/ SpuriousWakeup(t)
    PROVE  SeqInv'
<1>t. /\ pc \in [Threads -> IPc \cup EPc] /\ desc \in [Threads -> Descs]
      /\ \A u \in Initiators : pc[u] \in IPc /\ u \in Threads
      /\ \A x \in Executors : pc[x] \in EPc /\ x \in Threads /\ x \notin Initiators
      /\ ret \in [Threads -> {"none", "TIMEOUT", "NO_EVENT_PENDING"} \cup Refusals \cup Answers]
  BY DEF TypeInv, TypeOK, IPc, EPc, Threads
<1>1. UNCHANGED <<cmdRing, respRing, sequenceCounter>>
  BY DEF execCMD, execRefused, execLeave, refuseCmd, sleepForResponse, startCallback, seeCompletion, execTimeout,
     joinCallback, finishCallback, CallbackStep, callbackReturns, callbackReports, callbackCancelled,
     waitCMD, noCmd, waitTimeout, waitLeave, ackRefused, SpuriousWakeup
<1>2. CASE t \in Initiators
  <2> DEFINE Others == \A u \in Threads \ {t} : pc'[u] = pc[u] /\ desc'[u] = desc[u] /\ ret'[u] = ret[u]
             Own == Waiting(t)' = Waiting(t) /\ (Owns(t)' => Owns(t) /\ desc'[t].seq = desc[t].seq)
  <2>1. Others /\ Own
    <3>1. CASE execCMD(t)
      BY <3>1, <1>2, <1>t DEF execCMD, Goto, Settle, Owns, Waiting
    <3>2. CASE execRefused(t)
      BY <3>2, <1>2, <1>t DEF execRefused, Goto, Settle, Owns, Waiting
    <3>3. CASE execLeave(t)
      BY <3>3, <1>2, <1>t DEF execLeave, Goto, Owns, Waiting
    <3>4. CASE refuseCmd(t)
      BY <3>4, <1>2, <1>t DEF refuseCmd, Goto, Settle, Owns, Waiting
    <3>5. CASE sleepForResponse(t)
      BY <3>5, <1>2, <1>t DEF sleepForResponse, Goto, Owns, Waiting
    <3>6. CASE startCallback(t)
      BY <3>6, <1>2, <1>t DEF startCallback, Goto, Settle, Owns, Waiting
    <3>7. CASE seeCompletion(t)
      BY <3>7, <1>2, <1>t DEF seeCompletion, Goto, Settle, Owns, Waiting
    <3>8. CASE execTimeout(t)
      BY <3>8, <1>2, <1>t DEF execTimeout, Goto, Settle, Owns, Waiting
    <3>9. CASE joinCallback(t)
      BY <3>9, <1>2, <1>t DEF joinCallback, Goto, Owns, Waiting
    <3>10. CASE finishCallback(t)
      BY <3>10, <1>2, <1>t DEF finishCallback, Goto, Owns, Waiting
    <3>11. CASE SpuriousWakeup(t)
      BY <3>11, <1>2, <1>t DEF SpuriousWakeup, Goto, Owns, Waiting
    <3>12. CASE CallbackStep(t)
      BY <3>12 DEF CallbackStep, callbackReturns, callbackReports, callbackCancelled, Owns, Waiting
    <3>13. ~(t \in Executors)
      BY <1>2
    <3> HIDE DEF Others, Own
    <3> QED
      BY <3>1, <3>2, <3>3, <3>4, <3>5, <3>6, <3>7, <3>8, <3>9, <3>10, <3>11, <3>12, <3>13
  <2>2. \A u \in Initiators : /\ Waiting(u)' = Waiting(u)
                              /\ Owns(u)' => Owns(u) /\ desc'[u].seq = desc[u].seq
    BY <2>1, <1>t DEF Owns, Waiting
  <2>3. \A x \in Executors : (InHand(x)' => InHand(x)) /\ (InHand(x)' => desc'[x].seq = desc[x].seq)
    BY <2>1, <1>2, <1>t DEF InHand
  <2> QED
    BY <1>1, <2>2, <2>3, QuietSeq
<1>3. CASE t \in Executors
  <2>1. /\ \A u \in Threads \ {t} : pc'[u] = pc[u] /\ desc'[u] = desc[u] /\ ret'[u] = ret[u]
        /\ InHand(t)' => InHand(t)
        /\ desc'[t] = desc[t]
    BY <1>3, <1>t DEF waitCMD, noCmd, waitTimeout, waitLeave, ackRefused, SpuriousWakeup, Goto, Settle, InHand, EPc
  <2>2. \A u \in Initiators : /\ Waiting(u)' = Waiting(u)
                              /\ Owns(u)' => Owns(u) /\ desc'[u].seq = desc[u].seq
    BY <2>1, <1>3, <1>t DEF Owns, Waiting
  <2>3. \A x \in Executors : (InHand(x)' => InHand(x)) /\ (InHand(x)' => desc'[x].seq = desc[x].seq)
    BY <2>1, <1>t DEF InHand
  <2> QED
    BY <1>1, <2>2, <2>3, QuietSeq
<1> QED
  BY <1>2, <1>3 DEF Threads

LEMMA StampSeq == ASSUME TypeInv, SeqInv, NEW t \in Initiators, stampCmd(t) PROVE SeqInv'
<1>t. /\ pc \in [Threads -> IPc \cup EPc] /\ desc \in [Threads -> Descs] /\ sequenceCounter \in Nat
      /\ \A u \in Initiators : u \in Threads
      /\ \A x \in Executors : x \in Threads /\ x # t
  BY DEF TypeInv, TypeOK, IPc, EPc, Threads
<1>1. /\ sequenceCounter' = sequenceCounter + 1 /\ desc'[t].seq = sequenceCounter
      /\ pc[t] = "exec" /\ pc'[t] = "stamped" /\ UNCHANGED <<cmdRing, respRing, ret>>
      /\ \A u \in Threads \ {t} : pc'[u] = pc[u] /\ desc'[u] = desc[u]
  BY <1>t DEF stampCmd, Goto, Descs
<1>2. \A u \in Initiators : desc[u].seq \in Nat
  BY <1>t DEF Descs
<1>3. NumbersOK'
  BY <1>t, <1>1, <1>2 DEF SeqInv, NumbersOK, Owns, Waiting
<1>4. \A s : HasCaller(s) => HasCaller(s)'
  BY <1>t, <1>1 DEF HasCaller, Waiting
<1>5. /\ LiveCmds' = LiveCmds /\ \A i \in LiveCmds : Cmd(i)' = Cmd(i)
      /\ LiveResponses' = LiveResponses /\ \A i \in LiveResponses : Response(i)' = Response(i)
  BY <1>1 DEF cmdRing, respRing, LiveCmds, Cmd, LiveResponses, Response
<1>6. \A x \in Executors : InHand(x)' = InHand(x) /\ desc'[x] = desc[x]
  BY <1>t, <1>1 DEF InHand
<1>7. CmdsOK' /\ ResponsesOK'
  BY <1>4, <1>5 DEF SeqInv, CmdsOK, ResponsesOK
<1>8. HandsOK'
  BY <1>4, <1>6 DEF SeqInv, HandsOK
<1>9. PlacesOK'
  BY <1>5, <1>6 DEF SeqInv, PlacesOK
<1> QED
  BY <1>3, <1>7, <1>8, <1>9 DEF SeqInv

(* The command that is queued is nowhere yet: what is somewhere has a caller that waits already. *)
LEMMA QueueSeq == ASSUME TypeInv, SeqInv, NEW t \in Initiators, queueCmd(t) PROVE SeqInv'
<1>t. /\ pc \in [Threads -> IPc \cup EPc] /\ desc \in [Threads -> Descs]
      /\ \A u \in Initiators : u \in Threads /\ pc[u] \in IPc
      /\ \A x \in Executors : x \in Threads /\ x # t /\ x \notin Initiators
  BY DEF TypeInv, TypeOK, IPc, EPc, Threads
<1>1. /\ pc'[t] = "await" /\ pc[t] = "stamped"
      /\ \A u \in Threads \ {t} : pc'[u] = pc[u] \/ (u \in Executors /\ pc[u] = "asleep" /\ pc'[u] = "awake")
  BY <1>t, QueueCmdWakes
<1>2. /\ LiveCmds' = LiveCmds \cup {QueuedCmdNum} /\ QueuedCmdNum \notin LiveCmds
      /\ \A i \in LiveCmds : Cmd(i)' = Cmd(i)
      /\ QueuedCmdDescs'[QueuedCmdNum % QueueLen] = [desc[t] EXCEPT !.Status = "PENDING"]
  BY QueueCmdEffect
<1>3. \A i : i = QueuedCmdNum => (Cmd(i).seq)' = desc[t].seq
  <2>1. QueuedCmdDescs'[QueuedCmdNum % QueueLen].seq = desc[t].seq
    BY <1>2, <1>t DEF Descs
  <2> QED
    BY <2>1 DEF Cmd
<1>4. UNCHANGED <<sequenceCounter, respRing, desc, ret>>
  BY DEF queueCmd
<1>5. LiveResponses' = LiveResponses /\ \A i \in LiveResponses : Response(i)' = Response(i)
  BY <1>4 DEF respRing, LiveResponses, Response
<1>6. \A u \in Initiators : Owns(u)' = Owns(u) /\ (Waiting(u) => Waiting(u)')
  BY <1>t, <1>1 DEF Owns, Waiting
<1>7. \A x \in Executors : InHand(x)' = InHand(x)
  BY <1>t, <1>1, <1>4 DEF InHand
<1>8. \A s : HasCaller(s) => HasCaller(s)' /\ s # desc[t].seq
  <2>1. \A u \in Initiators : Waiting(u) => u # t /\ desc[u].seq # desc[t].seq
    BY <1>1 DEF SeqInv, NumbersOK, Owns, Waiting
  <2> QED
    BY <2>1, <1>4, <1>6 DEF HasCaller
<1>9. HasCaller(desc[t].seq)'
  BY <1>1, <1>4 DEF HasCaller, Waiting
<1>10. NumbersOK'
  BY <1>4, <1>6 DEF SeqInv, NumbersOK
<1>11. CmdsOK'
  <2>1. \A i \in LiveCmds : (Cmd(i).seq)' = Cmd(i).seq /\ HasCaller(Cmd(i).seq) /\ Cmd(i).seq # desc[t].seq
    BY <1>2, <1>8 DEF SeqInv, CmdsOK
  <2>2. \A i \in LiveCmds' : i \in LiveCmds \/ (i \notin LiveCmds /\ (Cmd(i).seq)' = desc[t].seq)
    BY <1>2, <1>3
  <2>3. \A i \in LiveCmds' : HasCaller(Cmd(i).seq)'
    <3>1. \A n : (HasCaller(n) => HasCaller(n)') /\ (n = desc[t].seq => HasCaller(n)')
      BY <1>4, <1>8, <1>9 DEF HasCaller
    <3>2. ASSUME NEW i \in LiveCmds' PROVE HasCaller(Cmd(i).seq)'
      <4>1. PICK n : n = (Cmd(i).seq)'
        OBVIOUS
      <4>2. HasCaller(n) \/ n = desc[t].seq
        BY <2>1, <2>2, <4>1
      <4>3. HasCaller(n)'
        BY <3>1, <4>2
      <4> QED
        BY <4>1, <4>3 DEF HasCaller
    <3> QED
      BY <3>2
  <2>4. \A i, j \in LiveCmds' : i # j => (Cmd(i).seq)' # (Cmd(j).seq)'
    BY <1>2, <1>3, <2>1, <2>2 DEF SeqInv, CmdsOK
  <2> QED
    BY <2>3, <2>4 DEF CmdsOK
<1>12. HandsOK'
  BY <1>4, <1>7, <1>8 DEF SeqInv, HandsOK
<1>13. ResponsesOK'
  BY <1>5, <1>8 DEF SeqInv, ResponsesOK
<1>14. PlacesOK'
  BY <1>2, <1>3, <1>4, <1>5, <1>7, <1>8 DEF SeqInv, PlacesOK, HandsOK, ResponsesOK
<1> QED
  BY <1>10, <1>11, <1>12, <1>13, <1>14 DEF SeqInv

LEMMA TakeCmdSeq == ASSUME TypeInv, SeqInv, NEW x \in Executors, takeCmd(x) PROVE SeqInv'
<1>t. /\ pc \in [Threads -> IPc \cup EPc] /\ desc \in [Threads -> Descs]
      /\ ret \in [Threads -> {"none", "TIMEOUT", "NO_EVENT_PENDING"} \cup Refusals \cup Answers]
      /\ \A u \in Initiators : u \in Threads /\ u # x
      /\ \A y \in Executors : y \in Threads
  BY DEF TypeInv, TypeOK, IPc, EPc, Threads
<1>1. /\ ProcedCmdNum \in LiveCmds /\ LiveCmds' = LiveCmds \ {ProcedCmdNum}
      /\ \A i \in LiveCmds : Cmd(i)' = Cmd(i)
      /\ desc' = [desc EXCEPT ![x] = [Cmd(ProcedCmdNum) EXCEPT !.Status = "PROCESSING"]]
  BY TakeCmdEffect
<1>2. /\ UNCHANGED <<sequenceCounter, respRing>>
      /\ pc' = [pc EXCEPT ![x] = "waited"] /\ ret' = [ret EXCEPT ![x] = "SUCCESS"]
      /\ pc[x] \in {"look", "awake"}
  BY DEF takeCmd, Settle, Goto
<1>3. desc'[x].seq = Cmd(ProcedCmdNum).seq
  <2>1. Cmd(ProcedCmdNum) \in Descs
    BY <1>1 DEF TypeInv
  <2> QED
    BY <2>1, <1>1, <1>t DEF Descs
<1>4. LiveResponses' = LiveResponses /\ \A i \in LiveResponses : Response(i)' = Response(i)
  BY <1>2 DEF respRing, LiveResponses, Response
<1>5. \A u \in Initiators : Owns(u)' = Owns(u) /\ Waiting(u)' = Waiting(u) /\ desc'[u] = desc[u]
  BY <1>t, <1>1, <1>2 DEF Owns, Waiting
<1>6. /\ ~InHand(x) /\ InHand(x)'
      /\ \A y \in Executors \ {x} : InHand(y)' = InHand(y) /\ desc'[y] = desc[y]
  BY <1>t, <1>1, <1>2 DEF InHand
<1>7. \A s : HasCaller(s) => HasCaller(s)'
  BY <1>5 DEF HasCaller
<1>8. NumbersOK'
  BY <1>2, <1>5 DEF SeqInv, NumbersOK
<1>9. CmdsOK' /\ ResponsesOK'
  BY <1>1, <1>4, <1>7 DEF SeqInv, CmdsOK, ResponsesOK
<1>10. HandsOK'
  BY <1>1, <1>3, <1>6, <1>7 DEF SeqInv, HandsOK, CmdsOK, PlacesOK
<1>11. PlacesOK'
  BY <1>1, <1>3, <1>4, <1>6 DEF SeqInv, PlacesOK, CmdsOK
<1> QED
  BY <1>8, <1>9, <1>10, <1>11 DEF SeqInv

LEMMA AckSeq == ASSUME TypeInv, SeqInv, NEW x \in Executors, ackCMD(x) PROVE SeqInv'
<1>t. /\ pc \in [Threads -> IPc \cup EPc] /\ desc \in [Threads -> Descs]
      /\ ret \in [Threads -> {"none", "TIMEOUT", "NO_EVENT_PENDING"} \cup Refusals \cup Answers]
      /\ \A u \in Initiators : u \in Threads /\ u # x /\ u \notin Executors
      /\ \A y \in Executors : y \in Threads
  BY DEF TypeInv, TypeOK, IPc, EPc, Threads
<1>1. /\ pc'[x] = "idle" /\ pc[x] = "holding"
      /\ \A u \in Threads \ {x} : pc'[u] = pc[u] \/ (u \in Initiators /\ pc[u] = "asleep" /\ pc'[u] = "awake")
  BY <1>t, AckWakes
<1>2. /\ LiveResponses' = LiveResponses \cup {QueuedRespNum} /\ QueuedRespNum \notin LiveResponses
      /\ \A i \in LiveResponses : Response(i)' = Response(i)
      /\ QueuedRespDescs'[QueuedRespNum % QueueLen] = desc[x]
  BY AckEffect
<1>3. \A i : i = QueuedRespNum => Response(i)' = desc[x]
  BY <1>2 DEF Response
<1>4. /\ UNCHANGED <<sequenceCounter, cmdRing>>
      /\ desc' = [desc EXCEPT ![x] = Blank] /\ ret' = [ret EXCEPT ![x] = "none"]
  BY DEF ackCMD, forget
<1>5. LiveCmds' = LiveCmds /\ \A i \in LiveCmds : Cmd(i)' = Cmd(i)
  BY <1>4 DEF cmdRing, LiveCmds, Cmd
<1>6. \A u \in Initiators : Owns(u)' = Owns(u) /\ Waiting(u)' = Waiting(u) /\ desc'[u] = desc[u]
  BY <1>t, <1>1, <1>4 DEF Owns, Waiting
<1>7. /\ InHand(x) /\ ~InHand(x)'
      /\ \A y \in Executors \ {x} : InHand(y)' = InHand(y) /\ desc'[y] = desc[y]
  BY <1>t, <1>1, <1>4 DEF InHand
<1>8. \A s : HasCaller(s) => HasCaller(s)'
  BY <1>6 DEF HasCaller
<1>9. NumbersOK'
  BY <1>4, <1>6 DEF SeqInv, NumbersOK
<1>10. CmdsOK'
  BY <1>5, <1>8 DEF SeqInv, CmdsOK
<1>11. HandsOK'
  BY <1>7, <1>8 DEF SeqInv, HandsOK
<1>12. ResponsesOK'
  BY <1>2, <1>3, <1>7, <1>8 DEF SeqInv, ResponsesOK, HandsOK, PlacesOK
<1>13. PlacesOK'
  BY <1>2, <1>3, <1>5, <1>7 DEF SeqInv, PlacesOK, HandsOK
<1> QED
  BY <1>9, <1>10, <1>11, <1>12, <1>13 DEF SeqInv

(* The caller that stops waiting takes the only place of its command with it. *)
LEMMA TakeResponseSeq == ASSUME TypeInv, SeqInv, NEW t \in Initiators, takeResponse(t) PROVE SeqInv'
<1>t. /\ pc \in [Threads -> IPc \cup EPc] /\ desc \in [Threads -> Descs]
      /\ ret \in [Threads -> {"none", "TIMEOUT", "NO_EVENT_PENDING"} \cup Refusals \cup Answers]
      /\ \A u \in Initiators : u \in Threads
      /\ \A y \in Executors : y \in Threads /\ y # t
  BY DEF TypeInv, TypeOK, IPc, EPc, Threads
<1>1. PICK i \in LiveResponses :
              /\ Response(i).seq = desc[t].seq /\ desc' = [desc EXCEPT ![t] = Response(i)]
              /\ LiveResponses' = {j \in LiveResponses : j > i}
              /\ \A j \in LiveResponses : Response(j)' = Response(j)
  BY TakeResponseEffect
<1>2. /\ UNCHANGED <<sequenceCounter, cmdRing>> /\ Waiting(t)
      /\ pc' = [pc EXCEPT ![t] = "leave"] /\ ret' = [ret EXCEPT ![t] = "SUCCESS"]
  BY DEF takeResponse, Settle, Goto, Waiting
<1>3. LiveCmds' = LiveCmds /\ \A j \in LiveCmds : Cmd(j)' = Cmd(j)
  BY <1>2 DEF cmdRing, LiveCmds, Cmd
<1>4. \A x \in Executors : InHand(x)' = InHand(x) /\ desc'[x] = desc[x]
  BY <1>t, <1>1, <1>2 DEF InHand
<1>5. /\ ~Owns(t)' /\ \A u \in Initiators \ {t} : Owns(u)' = Owns(u) /\ Waiting(u)' = Waiting(u) /\ desc'[u] = desc[u]
  BY <1>t, <1>1, <1>2 DEF Owns, Waiting
<1>6. \A s : HasCaller(s) /\ s # desc[t].seq => HasCaller(s)'
  BY <1>5 DEF HasCaller
<1>7. NumbersOK'
  BY <1>2, <1>5 DEF SeqInv, NumbersOK
<1>8. CmdsOK'
  <2>1. \A j \in LiveCmds : Cmd(j).seq # desc[t].seq
    BY <1>1 DEF SeqInv, PlacesOK
  <2> QED
    BY <2>1, <1>3, <1>6 DEF SeqInv, CmdsOK
<1>9. HandsOK'
  <2>1. \A x \in Executors : InHand(x) => desc[x].seq # desc[t].seq
    BY <1>1 DEF SeqInv, PlacesOK
  <2> QED
    BY <2>1, <1>4, <1>6 DEF SeqInv, HandsOK
<1>10. ResponsesOK'
  <2>1. \A j \in LiveResponses' : j \in LiveResponses /\ j # i /\ Response(j).seq # desc[t].seq
    <3>1. \A j \in LiveResponses' : j \in LiveResponses /\ j # i
      BY <1>1 DEF LiveResponses
    <3> QED
      BY <3>1, <1>1 DEF SeqInv, ResponsesOK
  <2> QED
    BY <2>1, <1>1, <1>6 DEF SeqInv, ResponsesOK
<1>11. PlacesOK'
  BY <1>1, <1>3, <1>4 DEF SeqInv, PlacesOK
<1> QED
  BY <1>7, <1>8, <1>9, <1>10, <1>11 DEF SeqInv

LEMMA NextSeqInv == TypeInv /\ SeqInv /\ [Next]_vars => SeqInv'
<1> SUFFICES ASSUME TypeInv, SeqInv, [Next]_vars PROVE SeqInv'
  OBVIOUS
<1>1. ASSUME NEW t \in Initiators, execCMD(t) \/ InitiatorStep(t) \/ CallbackStep(t) PROVE SeqInv'
  BY <1>1, QuietStepsSeq, StampSeq, QueueSeq, TakeResponseSeq DEF InitiatorStep, Threads
<1>2. ASSUME NEW x \in Executors, ExecutorStep(x) PROVE SeqInv'
  BY <1>2, QuietStepsSeq, TakeCmdSeq, AckSeq DEF ExecutorStep, Threads
<1>3. ASSUME NEW t \in Threads, SpuriousWakeup(t) PROVE SeqInv'
  BY <1>3, QuietStepsSeq
<1>4. CASE UNCHANGED vars
  <2>1. /\ UNCHANGED <<cmdRing, respRing, sequenceCounter, pc, desc, ret>>
    BY <1>4 DEF vars
  <2> QED
    BY <2>1, QuietSeq DEF Owns, Waiting, InHand
<1> QED
  BY <1>1, <1>2, <1>3, <1>4 DEF Next, Threads

(* The rings and the executors hold nothing but commands whose callers still wait for them, whatever the order in *)
(* which any number of executors answer: no response stays behind for a later call (_IOC_SrvProtoFifo.c:2134).    *)
THEOREM NoOrphans == Spec => []EveryCommandHasCaller
<1>1. TypeInv /\ SeqInv => EveryCommandHasCaller
  BY DEF SeqInv, CmdsOK, HandsOK, ResponsesOK, HasCaller, EveryCommandHasCaller, QueuedSeqs, HeldSeqs, AnsweredSeqs
<1> QED
  BY <1>1, InitTypeInv, NextTypeInv, InitSeqInv, NextSeqInv, PTL DEF Spec

-----------------------------------------------------------------------------
(* What the flags of the two ends say: a call that nobody overlaps is alone, an end is shown busy for somebody, *)
(* and the executor's end is busy either with a callback or with waiting, never with both.                     *)
Processing(t) == pc[t] \in {"watch", "join", "cleanup"}
Polling(x) == pc[x] \notin {"idle", "holding"}
InitiatorFlags ==
    /\ \A t, u \in InCall : t # u => t \in overlapped
    /\ InCall = {} => ~cmdState["initiator"].IsExecuting
    /\ \A t \in Initiators : Lone(t) => cmdState["initiator"].IsExecuting
ExecutorFlags ==
    /\ \A t \in Initiators : Processing(t) => mode = "callback" /\ (Lone(t) => cmdState["executor"].IsProcessing)
    /\ cmdState["executor"].IsProcessing => \E t \in Initiators : Processing(t)
    /\ cmdState["executor"].IsWaiting => mode = "polling" /\ \E x \in Executors : Polling(x)
FlagsInv == InitiatorFlags /\ ExecutorFlags

(* The six steps that write a flag; all the others leave every thread in the same part of its call. *)
WritesFlag ==
    \/ \E t \in Initiators : execCMD(t) \/ execLeave(t) \/ startCallback(t) \/ finishCallback(t)
    \/ \E x \in Executors : waitCMD(x) \/ waitLeave(x)

LEMMA QuietFlags ==
    ASSUME TypeInv, [Next]_vars, ~WritesFlag
    PROVE  /\ cmdState' = cmdState /\ overlapped' = overlapped /\ mode' = mode
           /\ \A t \in Initiators : (pc'[t] = "idle" <=> pc[t] = "idle") /\ (Processing(t)' <=> Processing(t))
           /\ \A x \in Executors : Polling(x)' <=> Polling(x)
<1> USE DEF Processing, Polling, Goto, Settle
<1>t. pc \in [Threads -> IPc \cup EPc] /\ Initiators \cap Executors = {}
  BY DEF TypeInv, TypeOK, IPc, EPc, Threads
<1>1. ASSUME NEW t \in Initiators, queueCmd(t)
      PROVE  /\ \A u \in Initiators : (pc'[u] = "idle" <=> pc[u] = "idle") /\ (Processing(u)' <=> Processing(u))
             /\ \A x \in Executors : Polling(x)' <=> Polling(x)
  BY <1>1, <1>t, QueueCmdWakes DEF Threads
<1>2. ASSUME NEW x \in Executors, ackCMD(x)
      PROVE  /\ \A u \in Initiators : (pc'[u] = "idle" <=> pc[u] = "idle") /\ (Processing(u)' <=> Processing(u))
             /\ \A y \in Executors : Polling(y)' <=> Polling(y)
  BY <1>2, <1>t, AckWakes DEF Threads
<1>3. ASSUME NEW t \in Initiators, InitiatorStep(t) \/ CallbackStep(t)
      PROVE  /\ cmdState' = cmdState /\ overlapped' = overlapped /\ mode' = mode
             /\ queueCmd(t) \/ (\A u \in Initiators : (pc'[u] = "idle" <=> pc[u] = "idle") /\ (Processing(u)' <=> Processing(u)))
             /\ queueCmd(t) \/ (\A x \in Executors : Polling(x)' <=> Polling(x))
  <2>1. ~execLeave(t) /\ ~startCallback(t) /\ ~finishCallback(t)
    BY DEF WritesFlag
  <2>2. /\ cmdState' = cmdState /\ overlapped' = overlapped /\ mode' = mode
        /\ \/ queueCmd(t)
           \/ pc' = pc
           \/ pc[t] \in {"exec", "stamped", "await", "awake"}
              /\ \E l \in {"leave", "stamped", "asleep"} : pc' = [pc EXCEPT ![t] = l]
           \/ pc[t] \in {"watch", "join"} /\ \E l \in {"join", "cleanup"} : pc' = [pc EXCEPT ![t] = l]
    BY <1>3, <2>1 DEF InitiatorStep, CallbackStep, execRefused, stampCmd, refuseCmd, queueCmd, takeResponse, sleepForResponse,
       seeCompletion, execTimeout, joinCallback, callbackReturns, callbackReports, callbackCancelled, history
  <2>3. t \in Threads /\ \A u \in Initiators \cup Executors : u \in Threads
    BY DEF Threads
  <2> QED
    BY <1>t, <2>2, <2>3
<1>4. ASSUME NEW x \in Executors, ExecutorStep(x)
      PROVE  /\ cmdState' = cmdState /\ overlapped' = overlapped /\ mode' = mode
             /\ ackCMD(x) \/ (\A u \in Initiators : (pc'[u] = "idle" <=> pc[u] = "idle") /\ (Processing(u)' <=> Processing(u)))
             /\ ackCMD(x) \/ (\A y \in Executors : Polling(y)' <=> Polling(y))
  <2>1. ~waitCMD(x) /\ ~waitLeave(x)
    BY DEF WritesFlag
  <2>2. /\ cmdState' = cmdState /\ overlapped' = overlapped /\ mode' = mode
        /\ \/ ackCMD(x)
           \/ pc' = pc
           \/ pc[x] \in {"look", "asleep", "awake"} /\ \E l \in {"waited", "asleep"} : pc' = [pc EXCEPT ![x] = l]
    BY <1>4, <2>1 DEF ExecutorStep, takeCmd, noCmd, waitTimeout, ackCMD, ackRefused, history
  <2>3. x \in Threads /\ \A u \in Initiators \cup Executors : u \in Threads
    BY DEF Threads
  <2> QED
    BY <1>t, <2>2, <2>3
<1>5. ASSUME NEW t \in Initiators \cup Executors, SpuriousWakeup(t)
      PROVE  /\ cmdState' = cmdState /\ overlapped' = overlapped /\ mode' = mode
             /\ \A u \in Initiators : (pc'[u] = "idle" <=> pc[u] = "idle") /\ (Processing(u)' <=> Processing(u))
             /\ \A x \in Executors : Polling(x)' <=> Polling(x)
  BY <1>5, <1>t DEF SpuriousWakeup, history, Threads
<1>6. ASSUME UNCHANGED vars
      PROVE  /\ cmdState' = cmdState /\ overlapped' = overlapped /\ mode' = mode /\ pc' = pc
  BY <1>6 DEF vars, history
<1>7. CASE \E t \in Initiators : execCMD(t) \/ InitiatorStep(t) \/ CallbackStep(t)
  <2>1. PICK t \in Initiators : InitiatorStep(t) \/ CallbackStep(t)
    BY <1>7 DEF WritesFlag
  <2> QED
    BY <2>1, <1>1, <1>3
<1>8. CASE \E x \in Executors : ExecutorStep(x)
  BY <1>8, <1>2, <1>4
<1> QED
  BY <1>5, <1>6, <1>7, <1>8 DEF Next

LEMMA FlagSet ==
    ASSUME TypeInv, NEW end \in {"initiator", "executor"}, NEW name \in {"IsExecuting", "IsWaiting", "IsProcessing"},
           NEW value \in BOOLEAN, Flag(end, name, value)
    PROVE  /\ cmdState'[end][name] = value
           /\ \A n \in {"IsExecuting", "IsWaiting", "IsProcessing"} : n # name => cmdState'[end][n] = cmdState[end][n]
           /\ \A e \in {"initiator", "executor"} : e # end => cmdState'[e] = cmdState[e]
<1>1. cmdState \in [{"initiator", "executor"} -> [{"IsExecuting", "IsWaiting", "IsProcessing"} -> BOOLEAN]]
  BY DEF TypeInv, TypeOK, CmdFlags
<1>2. cmdState' = [cmdState EXCEPT ![end][name] = value]
  BY DEF Flag
<1> QED
  BY <1>1, <1>2

LEMMA NextFlagsInv == TypeInv /\ FlagsInv /\ [Next]_vars => FlagsInv'
<1> SUFFICES ASSUME TypeInv, FlagsInv, [Next]_vars PROVE FlagsInv'
  OBVIOUS
<1> USE DEF InitiatorFlags, ExecutorFlags, Processing, Polling, InCall, Lone, Goto, Settle
<1>t. /\ pc \in [Threads -> IPc \cup EPc] /\ Initiators \subseteq Threads /\ Executors \subseteq Threads
      /\ Initiators \cap Executors = {} /\ InitiatorFlags /\ ExecutorFlags
  BY DEF TypeInv, TypeOK, IPc, EPc, Threads, FlagsInv
<1>1. ASSUME NEW t \in Initiators, execCMD(t) PROVE FlagsInv'
  <2>1. /\ pc[t] = "idle" /\ pc' = [pc EXCEPT ![t] = "exec"] /\ mode' = mode
        /\ overlapped' = IF InCall = {} THEN {} ELSE InCall \cup {t}
    BY <1>1 DEF execCMD
  <2>2. cmdState'["initiator"].IsExecuting /\ cmdState'["executor"] = cmdState["executor"]
    BY <1>1, FlagSet DEF execCMD
  <2>3. InCall' = InCall \cup {t} /\ t \notin InCall /\ t \in Threads /\ InCall \subseteq Initiators
    BY <1>t, <2>1
  <2>4. InitiatorFlags'
    BY <2>1, <2>2, <2>3
  <2>5. \A u \in Initiators : Processing(u)' => Processing(u) /\ u # t
    BY <1>t, <2>1
  <2>6. \A u \in Initiators : Processing(u) => Processing(u)'
    BY <1>t, <2>1
  <2>7. \A u \in Initiators : Processing(u)' => ~Lone(u)'
    BY <2>1, <2>3, <2>5
  <2>8. \A x \in Executors : Polling(x) => Polling(x)'
    BY <1>t, <2>1
  <2>9. ExecutorFlags'
    BY <1>t, <2>1, <2>2, <2>5, <2>6, <2>7, <2>8
  <2> QED
    BY <2>4, <2>9 DEF FlagsInv
<1>2. ASSUME NEW t \in Initiators, execLeave(t) PROVE FlagsInv'
  <2>1. pc[t] = "leave" /\ pc' = [pc EXCEPT ![t] = "idle"] /\ mode' = mode /\ overlapped' = overlapped
    BY <1>2 DEF execLeave, history
  <2>2. ~cmdState'["initiator"].IsExecuting /\ cmdState'["executor"] = cmdState["executor"]
    BY <1>2, FlagSet DEF execLeave
  <2>3. InCall' = InCall \ {t} /\ t \in InCall
    BY <1>t, <2>1
  <2>4. \A u \in Initiators : ~Lone(u)'
    BY <1>t, <2>1, <2>3
  <2>5. InitiatorFlags'
    BY <1>t, <2>1, <2>2, <2>3, <2>4
  <2>6. \A u \in Initiators : Processing(u)' <=> Processing(u)
    BY <1>t, <2>1
  <2>7. \A x \in Executors : Polling(x)' <=> Polling(x)
    BY <1>t, <2>1
  <2>8. ExecutorFlags'
    BY <1>t, <2>1, <2>2, <2>4, <2>6, <2>7
  <2> QED
    BY <2>5, <2>8 DEF FlagsInv
<1>3. ASSUME NEW t \in Initiators, startCallback(t) PROVE FlagsInv'
  <2>1. /\ pc[t] = "exec" /\ mode = "callback" /\ mode' = mode /\ overlapped' = overlapped
        /\ \E l \in {"watch", "cleanup"} : pc' = [pc EXCEPT ![t] = l]
    BY <1>3 DEF startCallback, history
  <2>2. /\ cmdState'["executor"].IsProcessing /\ cmdState'["executor"].IsWaiting = cmdState["executor"].IsWaiting
        /\ cmdState'["initiator"] = cmdState["initiator"]
    BY <1>3, FlagSet DEF startCallback
  <2>3. InCall' = InCall /\ \A u \in Initiators : Lone(u)' <=> Lone(u)
    BY <1>t, <2>1
  <2>4. InitiatorFlags'
    BY <1>t, <2>1, <2>2, <2>3
  <2>5. /\ Processing(t)' /\ \A u \in Initiators : Processing(u)' => u = t \/ Processing(u)
        /\ \A x \in Executors : Polling(x)' <=> Polling(x)
    BY <1>t, <2>1
  <2>6. ExecutorFlags'
    BY <1>t, <2>1, <2>2, <2>3, <2>5
  <2> QED
    BY <2>4, <2>6 DEF FlagsInv
<1>4. ASSUME NEW t \in Initiators, finishCallback(t) PROVE FlagsInv'
  <2>1. pc[t] = "cleanup" /\ pc' = [pc EXCEPT ![t] = "leave"] /\ mode' = mode /\ overlapped' = overlapped
    BY <1>4 DEF finishCallback, history
  <2>2. /\ ~cmdState'["executor"].IsProcessing /\ cmdState'["executor"].IsWaiting = cmdState["executor"].IsWaiting
        /\ cmdState'["initiator"] = cmdState["initiator"]
    BY <1>4, FlagSet DEF finishCallback
  <2>3. InCall' = InCall /\ t \in InCall /\ \A u \in Initiators : Lone(u)' <=> Lone(u)
    BY <1>t, <2>1
  <2>4. InitiatorFlags'
    BY <1>t, <2>1, <2>2, <2>3
  <2>5. /\ \A u \in Initiators : Processing(u)' => u # t /\ Processing(u) /\ u \in InCall
        /\ \A x \in Executors : Polling(x)' <=> Polling(x)
    BY <1>t, <2>1
  <2>6. \A u \in Initiators : Processing(u)' => ~Lone(u)'
    BY <1>t, <2>3, <2>5
  <2>7. ExecutorFlags'
    BY <1>t, <2>1, <2>2, <2>5, <2>6
  <2> QED
    BY <2>4, <2>7 DEF FlagsInv
<1>5. ASSUME NEW x \in Executors, waitCMD(x) PROVE FlagsInv'
  <2>1. mode = "polling" /\ pc' = [pc EXCEPT ![x] = "look"] /\ mode' = mode /\ overlapped' = overlapped
    BY <1>5 DEF waitCMD, history
  <2>2. /\ cmdState'["executor"].IsProcessing = cmdState["executor"].IsProcessing
        /\ cmdState'["initiator"] = cmdState["initiator"]
    BY <1>5, FlagSet DEF waitCMD
  <2>3. /\ \A u \in Initiators : pc'[u] = pc[u]
        /\ Polling(x)'
    BY <1>t, <2>1
  <2>4. InCall' = InCall
    BY <2>3
  <2>5. InitiatorFlags'
    BY <1>t, <2>1, <2>2, <2>4
  <2>6. ExecutorFlags'
    BY <1>t, <2>1, <2>2, <2>3, <2>4
  <2> QED
    BY <2>5, <2>6 DEF FlagsInv
<1>6. ASSUME NEW x \in Executors, waitLeave(x) PROVE FlagsInv'
  <2>1. mode' = mode /\ overlapped' = overlapped /\ \E l : pc' = [pc EXCEPT ![x] = l]
    BY <1>6 DEF waitLeave, history
  <2>2. /\ cmdState'["executor"].IsProcessing = cmdState["executor"].IsProcessing
        /\ ~cmdState'["executor"].IsWaiting
        /\ cmdState'["initiator"] = cmdState["initiator"]
    BY <1>6, FlagSet DEF waitLeave, StopWaiting
  <2>3. \A u \in Initiators : pc'[u] = pc[u]
    BY <1>t, <2>1
  <2>4. InCall' = InCall
    BY <2>3
  <2>5. InitiatorFlags'
    BY <1>t, <2>1, <2>2, <2>4
  <2>6. ExecutorFlags'
    BY <1>t, <2>1, <2>2, <2>3, <2>4
  <2> QED
    BY <2>5, <2>6 DEF FlagsInv
<1>7. CASE ~WritesFlag
  <2>1. /\ cmdState' = cmdState /\ overlapped' = overlapped /\ mode' = mode
        /\ \A t \in Initiators : (pc'[t] = "idle" <=> pc[t] = "idle") /\ (Processing(t)' <=> Processing(t))
        /\ \A x \in Executors : Polling(x)' <=> Polling(x)
    <3> HIDE DEF Processing, Polling
    <3> QED
      BY <1>7, QuietFlags
  <2>2. InCall' = InCall
    BY <2>1
  <2>3. InitiatorFlags'
    BY <1>t, <2>1, <2>2
  <2>4. ExecutorFlags'
    BY <1>t, <2>1, <2>2
  <2> QED
    BY <2>3, <2>4 DEF FlagsInv
<1> QED
  BY <1>1, <1>2, <1>3, <1>4, <1>5, <1>6, <1>7 DEF WritesFlag

LEMMA InitFlagsInv == Init => FlagsInv
<1> SUFFICES ASSUME Init PROVE FlagsInv
  OBVIOUS
<1>1. \A t \in Initiators \cup Executors : pc[t] = "idle"
  BY DEF Init
<1>2. \A e \in {"initiator", "executor"} : ~cmdState[e].IsExecuting /\ ~cmdState[e].IsProcessing /\ ~cmdState[e].IsWaiting
  BY DEF Init, CmdQuiet
<1> QED
  BY <1>1, <1>2 DEF FlagsInv, InitiatorFlags, ExecutorFlags, InCall, Lone, Processing

(* What a link with one command usage shows depends on the flags of that usage only. *)
LEMMA ShownState ==
    /\ Shows("initiator", "CmdInitiator")
           = IF cmdState["initiator"].IsExecuting THEN "CmdInitiatorBusyExecCmd" ELSE "CmdInitiatorReady"
    /\ Shows("executor", "CmdExecutor")
           = IF cmdState["executor"].IsWaiting THEN "CmdExecutorBusyWaitCmd"
             ELSE IF cmdState["executor"].IsProcessing THEN "CmdExecutorBusyExecCmd"
             ELSE "CmdExecutorReady"
<1>1. /\ ~DatQuiet.IsSending /\ ~DatQuiet.IsReceiving /\ DatQuiet.CurrentSubState = "Default" /\ ~DatQuiet.Operated
  BY DEF DatQuiet
<1> QED
  BY <1>1 DEF Shows, LinkSubState, NormalReceiver, RoleReversed, BusySubState, ReadySubState

(* getLinkState shows a call that no other one overlaps, the callback that runs for it, and nothing when nothing *)
(* is going on: overlapping calls clear each other's flags, a lone one has them to itself, because every other   *)
(* call that could clear them overlaps it.                                                                       *)
THEOREM SubStateIsTruthful == Spec => []SubStateTruthful
<1>1. TypeInv /\ CallbackInv /\ FlagsInv => SubStateTruthful
  <2> SUFFICES ASSUME TypeInv, CallbackInv, FlagsInv PROVE SubStateTruthful
    OBVIOUS
  <2>1. InCall = {} => Shows("initiator", "CmdInitiator") = "CmdInitiatorReady"
    BY ShownState DEF FlagsInv, InitiatorFlags
  <2>2. ASSUME NEW t \in Initiators, Lone(t)
        PROVE  Shows("initiator", "CmdInitiator") = "CmdInitiatorBusyExecCmd"
    BY <2>2, ShownState DEF FlagsInv, InitiatorFlags
  <2>3. ASSUME NEW t \in Initiators, Lone(t), callback[t].state = "running"
        PROVE  Shows("executor", "CmdExecutor") = "CmdExecutorBusyExecCmd"
    <3>1. Processing(t)
      BY <2>3 DEF CallbackInv, Processing
    <3> QED
      BY <2>3, <3>1, ShownState DEF FlagsInv, ExecutorFlags
  <2>4. ASSUME InCall = {}, \A x \in Executors : pc[x] \in {"idle", "holding"}
        PROVE  Shows("executor", "CmdExecutor") = "CmdExecutorReady"
    BY <2>4, ShownState DEF FlagsInv, ExecutorFlags, InCall, Processing, Polling
  <2> QED
    BY <2>1, <2>2, <2>3, <2>4 DEF SubStateTruthful
<1>2. Init => CallbackInv
  BY DEF Init, CallbackInv, NoCallback
<1> QED
  BY <1>1, <1>2, InitTypeInv, NextTypeInv, NextCallbackInv, InitFlagsInv, NextFlagsInv, PTL DEF Spec

-----------------------------------------------------------------------------
(* Commands over a FIFO link implement the exchange that CmdExchange describes. *)
(* What a call is going to return at each point of it, and on which way it is. *)
ReturnOK(t) ==
    /\ pc[t] \in {"exec", "stamped", "await", "asleep", "awake", "watch"} => ret[t] = "none"
    /\ pc[t] = "join" => ret[t] \in Answers \cup {"TIMEOUT"}
    /\ pc[t] = "cleanup" => ret[t] \in Answers \cup {"TIMEOUT", "BUG"}
    /\ pc[t] = "leave" => ret[t] \in Answers \cup {"TIMEOUT"} \cup Refusals
ModeOK(t) ==
    /\ pc[t] \in {"stamped", "await", "asleep", "awake"} => mode = "polling"
    /\ pc[t] \in {"watch", "join", "cleanup"} => mode = "callback"
    /\ pc[t] = "leave" /\ mode # "callback" => ret[t] \in {"SUCCESS"} \cup Refusals
    /\ pc[t] = "leave" /\ mode = "none" => ret[t] \in Refusals
(* An answer in callback mode is the result of a callback that has ended. *)
CompletionOK(t) ==
    /\ callback[t].isCompleted => callback[t].state = "ended"
    /\ callback[t].state = "returned" \/ callback[t].isCompleted => callback[t].result \in Answers
    /\ pc[t] \in {"join", "cleanup", "leave"} /\ mode = "callback" /\ ret[t] \in Answers => callback[t].isCompleted
CallOK(t) == ReturnOK(t) /\ ModeOK(t) /\ CompletionOK(t)
CallInv == \A t \in Initiators : CallOK(t)

ThreadTypes ==
    /\ pc \in [Threads -> IPc \cup EPc] /\ desc \in [Threads -> Descs]
    /\ ret \in [Threads -> {"none", "TIMEOUT", "NO_EVENT_PENDING"} \cup Refusals \cup Answers]
    /\ callback \in [Initiators -> CallbackType]
    /\ \A u \in Initiators : u \in Threads /\ u \notin Executors /\ pc[u] \in IPc
    /\ \A x \in Executors : x \in Threads /\ x \notin Initiators /\ pc[x] \in EPc

LEMMA TypesOfThreads == TypeInv => ThreadTypes
  BY ThreadsAssumption DEF TypeInv, TypeOK, ThreadTypes, Threads, IPc, EPc

(* What a step of one thread leaves to the others: a signal may wake one of them up. *)
Undisturbed(u) == ret'[u] = ret[u] /\ desc'[u] = desc[u] /\ (pc'[u] = pc[u] \/ (pc[u] = "asleep" /\ pc'[u] = "awake"))
LeavesOthers(t) ==
    /\ mode' = mode
    /\ \A u \in Threads \ {t} : Undisturbed(u)
    /\ \A u \in Initiators \ {t} : callback'[u] = callback[u]

LEMMA InitiatorLeavesOthers ==
    ASSUME TypeInv, NEW t \in Initiators, execCMD(t) \/ InitiatorStep(t) \/ CallbackStep(t)
    PROVE  LeavesOthers(t)
<1>t. ThreadTypes
  BY TypesOfThreads
<1> USE DEF ThreadTypes, LeavesOthers, Undisturbed, Goto, Settle
<1>1. CASE queueCmd(t)
  BY <1>1, <1>t, QueueCmdWakes DEF queueCmd
<1>2. CASE takeResponse(t)
  <2>1. PICK i \in LiveResponses : desc' = [desc EXCEPT ![t] = Response(i)]
    BY <1>2, TakeResponseEffect
  <2> QED
    BY <1>2, <1>t, <2>1 DEF takeResponse
<1>3. CASE CallbackStep(t)
  BY <1>3, <1>t DEF CallbackStep, callbackReturns, callbackReports, callbackCancelled
<1>4. CASE execCMD(t) \/ execRefused(t) \/ execLeave(t) \/ stampCmd(t) \/ refuseCmd(t) \/ sleepForResponse(t)
  BY <1>4, <1>t DEF execCMD, execRefused, execLeave, stampCmd, refuseCmd, sleepForResponse
<1>5. CASE startCallback(t) \/ seeCompletion(t) \/ execTimeout(t) \/ joinCallback(t) \/ finishCallback(t)
  BY <1>5, <1>t DEF startCallback, seeCompletion, execTimeout, joinCallback, finishCallback
<1> QED
  BY <1>1, <1>2, <1>3, <1>4, <1>5 DEF InitiatorStep

LEMMA ExecutorLeavesOthers ==
    ASSUME TypeInv, NEW x \in Executors, ExecutorStep(x)
    PROVE  LeavesOthers(x) /\ callback' = callback
<1>t. ThreadTypes
  BY TypesOfThreads
<1> USE DEF ThreadTypes, LeavesOthers, Undisturbed, Goto, Settle
<1>1. CASE ackCMD(x)
  <2>1. \A u \in Threads \ {x} : pc'[u] = pc[u] \/ (pc[u] = "asleep" /\ pc'[u] = "awake")
    BY <1>1, <1>t, AckWakes
  <2>2. desc' = [desc EXCEPT ![x] = Blank] /\ ret' = [ret EXCEPT ![x] = "none"] /\ mode' = mode /\ callback' = callback
    BY <1>1 DEF ackCMD, forget
  <2> QED
    BY <1>t, <2>1, <2>2
<1>2. CASE takeCmd(x)
  BY <1>2, <1>t, TakeCmdEffect DEF takeCmd
<1>3. CASE waitCMD(x) \/ noCmd(x) \/ waitTimeout(x) \/ waitLeave(x) \/ ackRefused(x)
  BY <1>3, <1>t DEF waitCMD, noCmd, waitTimeout, waitLeave, ackRefused
<1> QED
  BY <1>1, <1>2, <1>3 DEF ExecutorStep

LEMMA WakeupLeavesAll ==
    ASSUME TypeInv, NEW t \in Threads, SpuriousWakeup(t)
    PROVE  \A u \in Threads : LeavesOthers(t) /\ Undisturbed(u) /\ callback' = callback
<1>t. ThreadTypes
  BY TypesOfThreads
<1> QED
  BY <1>t DEF ThreadTypes, LeavesOthers, Undisturbed, Goto, SpuriousWakeup

-----------------------------------------------------------------------------
LEMMA UndisturbedCall ==
    ASSUME NEW u \in Initiators, CallOK(u), Undisturbed(u), mode' = mode, callback'[u] = callback[u]
    PROVE  CallOK(u)'
  BY DEF CallOK, ReturnOK, ModeOK, CompletionOK, Undisturbed

LEMMA OwnCall ==
    ASSUME TypeInv, CallbackInv, NEW t \in Initiators, CallOK(t), execCMD(t) \/ InitiatorStep(t) \/ CallbackStep(t)
    PROVE  CallOK(t)'
<1>t. ThreadTypes
  BY TypesOfThreads
<1>c. pc[t] \notin {"watch", "join"} => callback[t].state \in {"none", "ended"}
  BY DEF CallbackInv
<1> USE DEF ThreadTypes, CallOK, ReturnOK, ModeOK, CompletionOK, Goto, Settle
<1>1. CASE execCMD(t)
  BY <1>1, <1>t DEF execCMD
<1>2. CASE execRefused(t)
  BY <1>2, <1>t DEF execRefused, Refusals, Answers
<1>3. CASE execLeave(t)
  BY <1>3, <1>t DEF execLeave
<1>4. CASE stampCmd(t)
  BY <1>4, <1>t DEF stampCmd
<1>5. CASE refuseCmd(t)
  BY <1>5, <1>t DEF refuseCmd, Refusals, Answers
<1>6. CASE queueCmd(t)
  BY <1>6, <1>t, QueueCmdWakes DEF queueCmd, Threads
<1>7. CASE takeResponse(t)
  <2>1. mode = "polling"
    BY <1>7, <1>t DEF takeResponse
  <2> QED
    BY <1>7, <1>t, <2>1 DEF takeResponse, Answers
<1>8. CASE sleepForResponse(t)
  BY <1>8, <1>t DEF sleepForResponse
<1>9. CASE startCallback(t)
  <2>1. CASE ret' = ret
    <3>1. callback' = [callback EXCEPT ![t] = [NoCallback EXCEPT !.state = "running"]] /\ pc' = [pc EXCEPT ![t] = "watch"]
      BY <1>9, <1>t, <2>1 DEF startCallback
    <3>2. callback'[t].state = "running" /\ callback'[t].isCompleted = FALSE /\ pc'[t] = "watch"
      BY <3>1, <1>t DEF NoCallback
    <3> QED
      BY <1>9, <1>t, <2>1, <3>2 DEF startCallback
  <2>2. CASE ret' # ret
    <3>1. callback' = callback /\ ret'[t] = "BUG" /\ pc'[t] = "cleanup" /\ mode' = "callback"
      BY <1>9, <1>t, <2>2 DEF startCallback
    <3> QED
      BY <1>t, <3>1 DEF Answers
  <2> QED
    BY <2>1, <2>2
<1>10. CASE seeCompletion(t)
  <2>1. callback[t].result \in Answers /\ callback[t].isCompleted
    BY <1>10 DEF seeCompletion
  <2> QED
    BY <1>10, <1>t, <2>1 DEF seeCompletion
<1>11. CASE execTimeout(t)
  <2>1. callback'[t] = [callback[t] EXCEPT !.cancelled = TRUE] /\ callback[t] \in CallbackType
    BY <1>11, <1>t DEF execTimeout
  <2>2. callback'[t].state = callback[t].state /\ callback'[t].isCompleted = callback[t].isCompleted
        /\ callback'[t].result = callback[t].result
    BY <2>1 DEF CallbackType
  <2> QED
    BY <1>11, <1>t, <2>2 DEF execTimeout, Answers
<1>12. CASE joinCallback(t)
  BY <1>12, <1>t DEF joinCallback
<1>13. CASE finishCallback(t)
  BY <1>13, <1>t DEF finishCallback, Refusals
<1>14. CASE CallbackStep(t)
  <2>1. UNCHANGED <<mode, pc, ret>> /\ callback[t] \in CallbackType
    BY <1>14, <1>t DEF CallbackStep, callbackReturns, callbackReports, callbackCancelled
  <2>2. pc[t] \in {"watch", "join"}
    BY <1>14, <1>c DEF CallbackStep, callbackReturns, callbackReports, callbackCancelled
  <2>3. CASE callbackReturns(t)
    <3>1. callback[t].state = "running" /\ callback'[t].state = "returned" /\ callback'[t].result \in Answers
          /\ callback'[t].isCompleted = callback[t].isCompleted
      BY <2>1, <2>3, <1>t DEF callbackReturns, CallbackType, Answers
    <3> QED
      BY <2>1, <3>1
  <2>4. CASE callbackReports(t)
    <3>1. callback[t].state = "returned" /\ callback'[t].state = "ended" /\ callback'[t].result = callback[t].result
          /\ callback'[t].isCompleted
      BY <2>1, <2>4, <1>t DEF callbackReports, CallbackType
    <3> QED
      BY <2>1, <3>1
  <2>5. CASE callbackCancelled(t)
    <3>1. callback[t].state = "running" /\ callback'[t].state = "ended" /\ callback'[t].result = callback[t].result
          /\ callback'[t].isCompleted = callback[t].isCompleted
      BY <2>1, <2>5, <1>t DEF callbackCancelled, CallbackType
    <3> QED
      BY <2>1, <3>1
  <2> QED
    BY <1>14, <2>3, <2>4, <2>5 DEF CallbackStep
<1> QED
  BY <1>1, <1>2, <1>3, <1>4, <1>5, <1>6, <1>7, <1>8, <1>9, <1>10, <1>11, <1>12, <1>13, <1>14 DEF InitiatorStep

LEMMA InitCallInv == Init => CallInv
  BY DEF Init, CallInv, CallOK, ReturnOK, ModeOK, CompletionOK, NoCallback

LEMMA NextCallInv == TypeInv /\ CallbackInv /\ CallInv /\ [Next]_vars => CallInv'
<1> SUFFICES ASSUME TypeInv, CallbackInv, CallInv, [Next]_vars, NEW u \in Initiators PROVE CallOK(u)'
  BY DEF CallInv
<1>0. CallOK(u) /\ u \in Threads
  BY DEF CallInv, Threads
<1>1. ASSUME NEW t \in Initiators, execCMD(t) \/ InitiatorStep(t) \/ CallbackStep(t) PROVE CallOK(u)'
  <2>1. CASE u = t
    BY <1>0, <1>1, <2>1, OwnCall
  <2>2. CASE u # t
    BY <1>0, <1>1, <2>2, InitiatorLeavesOthers, UndisturbedCall DEF LeavesOthers
  <2> QED
    BY <2>1, <2>2
<1>2. ASSUME NEW x \in Executors, ExecutorStep(x) PROVE CallOK(u)'
  <2>1. u # x
    BY ThreadsAssumption
  <2> QED
    BY <1>0, <1>2, <2>1, ExecutorLeavesOthers, UndisturbedCall DEF LeavesOthers
<1>3. ASSUME NEW t \in Threads, SpuriousWakeup(t) PROVE CallOK(u)'
  BY <1>0, <1>3, WakeupLeavesAll, UndisturbedCall DEF LeavesOthers
<1>4. CASE UNCHANGED vars
  BY <1>0, <1>4, UndisturbedCall DEF vars, Undisturbed
<1> QED
  BY <1>1, <1>2, <1>3, <1>4 DEF Next, Threads
-----------------------------------------------------------------------------
(* A caller whose command stays where it is. *)
SamePlace(u) ==
    /\ (desc[u].seq \in QueuedSeqs)' <=> desc[u].seq \in QueuedSeqs
    /\ (desc[u].seq \in HeldSeqs)' <=> desc[u].seq \in HeldSeqs

LEMMA UndisturbedPhase ==
    ASSUME NEW u \in Initiators, Undisturbed(u), mode' = mode, callback'[u] = callback[u], Waiting(u) => SamePlace(u)
    PROVE  Phase(u)' = Phase(u) /\ Outcome(u)' = Outcome(u)
<1>1. (Waiting(u)' <=> Waiting(u)) /\ (pc'[u] = "idle" <=> pc[u] = "idle")
  BY DEF Undisturbed, Waiting
<1>2. PollingPhase(u)' = PollingPhase(u)
  <2>1. CASE Waiting(u)
    BY <1>1, <2>1 DEF PollingPhase, SamePlace
  <2>2. CASE ~Waiting(u)
    BY <1>1, <2>2 DEF PollingPhase
  <2> QED
    BY <2>1, <2>2
<1>3. Phase(u)' = Phase(u)
  BY <1>2 DEF Phase, Undisturbed, CallbackPhase
<1>4. Outcome(u)' = Outcome(u)
  BY DEF Outcome, Undisturbed
<1> QED
  BY <1>3, <1>4

(* Which numbers are queued and held after a step. *)
LEMMA SameQueued == ASSUME UNCHANGED cmdRing PROVE QueuedSeqs' = QueuedSeqs
  BY DEF cmdRing, QueuedSeqs, LiveCmds, Cmd

LEMMA SameHeld ==
    ASSUME \A x \in Executors : InHand(x)' = InHand(x) /\ (InHand(x) => desc'[x] = desc[x])
    PROVE  HeldSeqs' = HeldSeqs
  BY DEF HeldSeqs

(* A step of t for which the phase and the outcome of the other callers stay. *)
Others(t) == \A u \in Initiators \ {t} : Phase(u)' = Phase(u) /\ Outcome(u)' = Outcome(u)

LEMMA QuietOthers ==
    ASSUME TypeInv, NEW t \in Initiators, LeavesOthers(t), UNCHANGED cmdRing
    PROVE  Others(t)
<1>t. ThreadTypes
  BY TypesOfThreads
<1>1. QueuedSeqs' = QueuedSeqs
  BY SameQueued
<1>2. \A x \in Executors : InHand(x)' = InHand(x) /\ desc'[x] = desc[x]
  BY <1>t DEF ThreadTypes, LeavesOthers, Undisturbed, InHand
<1>3. HeldSeqs' = HeldSeqs
  BY <1>2, SameHeld
<1>4. ASSUME NEW u \in Initiators \ {t} PROVE Phase(u)' = Phase(u) /\ Outcome(u)' = Outcome(u)
  <2>1. Undisturbed(u) /\ mode' = mode /\ callback'[u] = callback[u] /\ SamePlace(u)
    BY <1>t, <1>1, <1>3 DEF ThreadTypes, LeavesOthers, SamePlace, Undisturbed
  <2> QED
    BY <2>1, UndisturbedPhase
<1> QED
  BY <1>4 DEF Others

LEMMA QueueOthers ==
    ASSUME TypeInv, SeqInv, NEW t \in Initiators, queueCmd(t)
    PROVE  Others(t) /\ (desc[t].seq \in QueuedSeqs)'
<1>t. ThreadTypes
  BY TypesOfThreads
<1>0. LeavesOthers(t) /\ UNCHANGED <<desc, ret, callback>> /\ pc[t] = "stamped"
  BY InitiatorLeavesOthers DEF InitiatorStep, queueCmd
<1>1. /\ LiveCmds' = LiveCmds \cup {QueuedCmdNum} /\ \A i \in LiveCmds : Cmd(i)' = Cmd(i)
      /\ QueuedCmdDescs'[QueuedCmdNum % QueueLen] = [desc[t] EXCEPT !.Status = "PENDING"]
  BY QueueCmdEffect
<1>2. QueuedCmdDescs'[QueuedCmdNum % QueueLen].seq = desc[t].seq
  BY <1>t, <1>1 DEF ThreadTypes, Descs
<1>3. QueuedSeqs' = QueuedSeqs \cup {desc[t].seq}
  <2>1. PICK n : n = QueuedCmdNum
    OBVIOUS
  <2>2. Cmd(n)'.seq = desc[t].seq
    BY <1>2, <2>1 DEF Cmd
  <2>3. LiveCmds' = LiveCmds \cup {n} /\ \A i \in LiveCmds : Cmd(i)'.seq = Cmd(i).seq
    BY <1>1, <2>1
  <2> QED
    BY ONLY <2>2, <2>3 DEF QueuedSeqs
<1>4. \A x \in Executors : InHand(x)' = InHand(x) /\ desc'[x] = desc[x]
  BY <1>t, <1>0 DEF ThreadTypes, LeavesOthers, Undisturbed, InHand
<1>5. HeldSeqs' = HeldSeqs
  BY <1>4, SameHeld
<1>6. ASSUME NEW u \in Initiators \ {t} PROVE Phase(u)' = Phase(u) /\ Outcome(u)' = Outcome(u)
  <2>1. Undisturbed(u) /\ mode' = mode /\ callback'[u] = callback[u]
    BY <1>t, <1>0 DEF ThreadTypes, LeavesOthers
  <2>2. ASSUME Waiting(u) PROVE SamePlace(u)
    <3>1. desc[u].seq # desc[t].seq
      BY <1>0, <2>2 DEF SeqInv, NumbersOK, Owns
    <3> QED
      BY <1>0, <1>3, <1>5, <3>1 DEF SamePlace
  <2> QED
    BY <2>1, <2>2, UndisturbedPhase
<1> QED
  BY <1>0, <1>3, <1>6 DEF Others
-----------------------------------------------------------------------------
(* What the steps of a caller and of its callback mean for its own command. *)
Stays(t) == Phase(t)' = Phase(t) /\ Outcome(t)' = Outcome(t)
Moves(t, from, to) == Phase(t) = from /\ Phase(t)' = to /\ Outcome(t)' = Outcome(t)

LEMMA RefusedStays ==
    ASSUME TypeInv, NEW t \in Initiators, CallOK(t), execRefused(t) \/ stampCmd(t) \/ refuseCmd(t)
    PROVE  Stays(t)
<1>t. ThreadTypes
  BY TypesOfThreads
<1>1. pc[t] \in {"exec", "stamped"} /\ pc'[t] # "idle" /\ (pc'[t] = "stamped" \/ ret'[t] \in Refusals)
  BY <1>t DEF ThreadTypes, execRefused, stampCmd, refuseCmd, Goto, Settle, Refusals
<1> QED
  BY <1>1 DEF Stays, Phase, Outcome

(* Going to sleep changes nothing; taking the response of an answered command neither: no other place has it. *)
LEMMA PollingCallerStays ==
    ASSUME TypeInv, SeqInv, NEW t \in Initiators, CallOK(t), sleepForResponse(t) \/ takeResponse(t)
    PROVE  Stays(t)
<1>t. ThreadTypes
  BY TypesOfThreads
<1>1. CASE sleepForResponse(t)
  <2>1. Undisturbed(t) \/ (pc[t] \in {"await", "awake"} /\ pc'[t] = "asleep")
    BY <1>t, <1>1 DEF ThreadTypes, sleepForResponse, Goto
  <2>2. UNCHANGED <<mode, desc, ret, callback, cmdRing>> /\ LeavesOthers(t)
    BY <1>1, InitiatorLeavesOthers DEF sleepForResponse, InitiatorStep
  <2>3. QueuedSeqs' = QueuedSeqs
    BY <2>2, SameQueued
  <2>4. HeldSeqs' = HeldSeqs
    <3>1. \A x \in Executors : InHand(x)' = InHand(x) /\ desc'[x] = desc[x]
      BY <1>t, <2>2 DEF ThreadTypes, LeavesOthers, Undisturbed, InHand
    <3> QED
      BY <3>1, SameHeld
  <2>5. Waiting(t) /\ Waiting(t)' /\ pc[t] # "idle" /\ pc'[t] # "idle" /\ pc[t] \notin {"exec", "stamped"}
        /\ pc'[t] \notin {"exec", "stamped"}
    BY <1>t, <1>1 DEF ThreadTypes, sleepForResponse, Goto, Waiting
  <2>6. PollingPhase(t)' = PollingPhase(t)
    BY <2>2, <2>3, <2>4, <2>5 DEF PollingPhase
  <2> QED
    BY <2>2, <2>5, <2>6 DEF Stays, Phase, Outcome
<1>2. CASE takeResponse(t)
  <2>1. PICK i \in LiveResponses : Response(i).seq = desc[t].seq
    BY <1>2, TakeResponseEffect
  <2>2. desc[t].seq \notin QueuedSeqs /\ desc[t].seq \notin HeldSeqs
    BY <2>1 DEF SeqInv, PlacesOK, QueuedSeqs, HeldSeqs
  <2>3. pc'[t] = "leave" /\ ret'[t] = "SUCCESS" /\ pc[t] \in {"await", "awake"} /\ mode' = mode
    BY <1>t, <1>2 DEF ThreadTypes, takeResponse, Goto, Settle
  <2>4. mode = "polling" /\ ret[t] = "none"
    BY <2>3 DEF CallOK, ModeOK, ReturnOK
  <2>5. PollingPhase(t) = "answered" /\ PollingPhase(t)' = "answered"
    BY <2>2, <2>3 DEF PollingPhase, Waiting
  <2> QED
    BY <2>3, <2>4, <2>5 DEF Stays, Phase, Outcome, Refusals
<1> QED
  BY <1>1, <1>2

(* In callback mode the phase follows the callback's thread, whatever its caller does until it leaves. *)
LEMMA WatchingCallerStays ==
    ASSUME TypeInv, NEW t \in Initiators, CallOK(t), CallOK(t)',
           seeCompletion(t) \/ execTimeout(t) \/ joinCallback(t) \/ finishCallback(t)
    PROVE  Stays(t)
<1>t. ThreadTypes
  BY TypesOfThreads
<1>1. /\ pc[t] \in {"watch", "join", "cleanup"} /\ pc'[t] \in {"join", "cleanup", "leave"} /\ mode = "callback"
      /\ mode' = mode
  BY <1>t DEF ThreadTypes, seeCompletion, execTimeout, joinCallback, finishCallback, Goto, Settle, CallOK, ModeOK
<1>2. callback'[t].state = callback[t].state /\ callback'[t].isCompleted = callback[t].isCompleted
  <2>1. callback' = callback \/ callback' = [callback EXCEPT ![t].cancelled = TRUE]
    BY DEF seeCompletion, execTimeout, joinCallback, finishCallback
  <2> QED
    BY <1>t, <2>1 DEF ThreadTypes, CallbackType
<1>3. ret'[t] \in Refusals <=> ret[t] \in Refusals
  <2>1. CASE seeCompletion(t) \/ execTimeout(t)
    <3>1. pc[t] = "watch" /\ pc'[t] = "join"
      BY <1>t, <2>1 DEF ThreadTypes, seeCompletion, execTimeout, Goto, Settle
    <3> QED
      BY <3>1 DEF CallOK, ReturnOK, Refusals, Answers
  <2>2. CASE joinCallback(t) \/ finishCallback(t)
    BY <2>2 DEF joinCallback, finishCallback
  <2> QED
    BY <2>1, <2>2
<1> QED
  BY <1>1, <1>2, <1>3 DEF Stays, Phase, Outcome, CallbackPhase

LEMMA QueueSends ==
    ASSUME TypeInv, SeqInv, NEW t \in Initiators, CallOK(t), queueCmd(t)
    PROVE  Moves(t, "begun", "sent")
<1>t. ThreadTypes
  BY TypesOfThreads
<1>1. pc[t] = "stamped" /\ pc'[t] = "await" /\ mode' = mode /\ ret' = ret
  BY <1>t, QueueCmdWakes DEF ThreadTypes, queueCmd
<1>2. mode = "polling" /\ ret[t] = "none"
  BY <1>1 DEF CallOK, ModeOK, ReturnOK
<1>3. (desc[t].seq \in QueuedSeqs)'
  BY QueueOthers
<1>4. (desc[t].seq \notin HeldSeqs)'
  <2>1. /\ \A x \in Executors : InHand(x)' = InHand(x) /\ desc'[x] = desc[x]
        /\ desc' = desc
    BY <1>t, InitiatorLeavesOthers DEF ThreadTypes, LeavesOthers, Undisturbed, InHand, InitiatorStep, queueCmd
  <2>2. HeldSeqs' = HeldSeqs
    BY <2>1, SameHeld
  <2>3. \A u \in Initiators : Waiting(u) => desc[u].seq # desc[t].seq
    BY <1>1 DEF SeqInv, NumbersOK, Owns, Waiting
  <2>4. desc[t].seq \notin HeldSeqs
    BY <2>3 DEF SeqInv, HandsOK, HasCaller, HeldSeqs
  <2> QED
    BY <2>1, <2>2, <2>4
<1>5. PollingPhase(t)' = "sent"
  BY <1>1, <1>3, <1>4 DEF PollingPhase, Waiting
<1> QED
  BY <1>1, <1>2, <1>5 DEF Moves, Phase, Outcome, Refusals

LEMMA StartSends ==
    ASSUME TypeInv, NEW t \in Initiators, CallOK(t), startCallback(t)
    PROVE  Moves(t, "begun", "sent") \/ Stays(t)
<1>t. ThreadTypes
  BY TypesOfThreads
<1>1. pc[t] = "exec" /\ mode = "callback" /\ mode' = mode /\ ret[t] = "none"
  BY DEF startCallback, CallOK, ReturnOK
<1>2. CASE ret' = ret
  <2>1. callback' = [callback EXCEPT ![t] = [NoCallback EXCEPT !.state = "running"]] /\ pc'[t] = "watch"
    BY <1>t, <1>1, <1>2 DEF ThreadTypes, startCallback, Goto, Settle
  <2>2. callback'[t].state = "running" /\ callback'[t].isCompleted = FALSE
    BY <1>t, <2>1 DEF ThreadTypes, NoCallback
  <2> QED
    BY <1>1, <1>2, <2>1, <2>2 DEF Moves, Phase, Outcome, CallbackPhase, Refusals
<1>3. CASE ret' # ret
  <2>1. ret'[t] = "BUG" /\ pc'[t] = "cleanup"
    BY <1>t, <1>3 DEF ThreadTypes, startCallback, Goto, Settle
  <2> QED
    BY <1>1, <2>1 DEF Stays, Phase, Outcome, Refusals
<1> QED
  BY <1>2, <1>3

(* The callback runs for a call that still watches or joins it, and has no answer yet. *)
LEMMA CallbackMoves ==
    ASSUME TypeInv, CallbackInv, NEW t \in Initiators, CallOK(t), CallbackStep(t)
    PROVE  Moves(t, "sent", "taken") \/ Moves(t, "taken", "answered") \/ Stays(t)
<1>t. ThreadTypes
  BY TypesOfThreads
<1>1. UNCHANGED <<mode, pc, ret>> /\ callback[t] \in CallbackType /\ callback[t].state \in {"running", "returned"}
  BY <1>t DEF ThreadTypes, CallbackStep, callbackReturns, callbackReports, callbackCancelled
<1>2. pc[t] \in {"watch", "join"}
  BY <1>1 DEF CallbackInv
<1>3. mode = "callback" /\ ret[t] \notin Refusals /\ callback[t].isCompleted = FALSE
  BY <1>1, <1>2 DEF CallOK, ModeOK, ReturnOK, CompletionOK, Refusals, Answers, CallbackType
<1>4. /\ Phase(t) = CallbackPhase(callback[t]) /\ Phase(t)' = CallbackPhase(callback'[t])
      /\ Outcome(t)' = Outcome(t)
  BY <1>1, <1>2, <1>3 DEF Phase, Outcome
<1>5. CASE callbackReturns(t)
  <2>1. callback[t].state = "running" /\ callback'[t].state = "returned" /\ callback'[t].isCompleted = FALSE
    BY <1>t, <1>1, <1>3, <1>5 DEF ThreadTypes, callbackReturns, CallbackType
  <2> QED
    BY <1>3, <1>4, <2>1 DEF Moves, CallbackPhase
<1>6. CASE callbackReports(t)
  <2>1. callback[t].state = "returned" /\ callback'[t].isCompleted
    BY <1>t, <1>1, <1>6 DEF ThreadTypes, callbackReports, CallbackType
  <2> QED
    BY <1>3, <1>4, <2>1 DEF Moves, CallbackPhase
<1>7. CASE callbackCancelled(t)
  <2>1. callback[t].state = "running" /\ callback'[t].state = "ended" /\ callback'[t].isCompleted = FALSE
    BY <1>t, <1>1, <1>3, <1>7 DEF ThreadTypes, callbackCancelled, CallbackType
  <2> QED
    BY <1>3, <1>4, <2>1 DEF Stays, CallbackPhase
<1> QED
  BY <1>5, <1>6, <1>7 DEF CallbackStep
(* A call that returns says what has become of its command. *)
LEMMA LeaveEnds ==
    ASSUME TypeInv, NEW t \in Initiators, CallOK(t), execLeave(t)
    PROVE  /\ Phase(t)' = "idle"
           /\ \/ Phase(t) = "begun" /\ Outcome(t)' = "refused"
              \/ Phase(t) = "answered" /\ Outcome(t)' = "answered"
              \/ Phase(t) \in {"sent", "taken", "answered"} /\ Outcome(t)' = "timeout"
<1>t. ThreadTypes
  BY TypesOfThreads
<1>1. pc[t] = "leave" /\ pc'[t] = "idle" /\ ret' = ret
  BY <1>t DEF ThreadTypes, execLeave, Goto
<1>2. ret[t] \in Answers \cup {"TIMEOUT"} \cup Refusals
  BY <1>1 DEF CallOK, ReturnOK
<1>3. Phase(t)' = "idle"
  BY <1>1 DEF Phase
<1>4. CASE ret[t] \in Refusals
  BY <1>1, <1>3, <1>4 DEF Phase, Outcome, Refusals
<1>5. CASE ret[t] \in Answers
  <2>1. Phase(t) = "answered"
    <3>1. CASE mode = "callback"
      BY <1>1, <1>5, <3>1 DEF Phase, CallbackPhase, CallOK, CompletionOK, Answers, Refusals
    <3>2. CASE mode # "callback"
      BY <1>1, <1>5, <3>2 DEF Phase, PollingPhase, Waiting, Answers, Refusals
    <3> QED
      BY <3>1, <3>2
  <2> QED
    BY <1>1, <1>3, <1>5, <2>1 DEF Outcome, Answers, Refusals
<1>6. CASE ret[t] = "TIMEOUT"
  <2>1. mode = "callback"
    BY <1>1, <1>6 DEF CallOK, ModeOK, Refusals
  <2> QED
    BY <1>1, <1>3, <1>6, <2>1 DEF Phase, CallbackPhase, Outcome, Refusals, Answers
<1> QED
  BY <1>2, <1>4, <1>5, <1>6

-----------------------------------------------------------------------------
(* The executors' steps: only taking a command and acknowledging it move one, and then only one. *)
LEMMA QuietExecutorSteps ==
    ASSUME TypeInv, NEW x \in Executors,
           waitCMD(x) \/ noCmd(x) \/ waitTimeout(x) \/ waitLeave(x) \/ ackRefused(x)
    PROVE  \A u \in Initiators : Stays(u)
<1>t. ThreadTypes
  BY TypesOfThreads
<1>1. LeavesOthers(x) /\ callback' = callback
  BY ExecutorLeavesOthers DEF ExecutorStep
<1>2. cmdRing' = cmdRing
  BY DEF waitCMD, noCmd, waitTimeout, waitLeave, ackRefused, cmdRing
<1>3. QueuedSeqs' = QueuedSeqs
  BY <1>2, SameQueued DEF cmdRing
<1>4. InHand(x)' = InHand(x) /\ desc' = desc
  BY <1>t DEF ThreadTypes, waitCMD, noCmd, waitTimeout, waitLeave, ackRefused, Goto, Settle, InHand
<1>5. HeldSeqs' = HeldSeqs
  <2>1. \A y \in Executors : InHand(y)' = InHand(y) /\ desc'[y] = desc[y]
    BY <1>t, <1>1, <1>4 DEF ThreadTypes, LeavesOthers, Undisturbed, InHand
  <2> QED
    BY <2>1, SameHeld
<1>6. ASSUME NEW u \in Initiators PROVE Stays(u)
  <2>1. Undisturbed(u) /\ mode' = mode /\ callback'[u] = callback[u] /\ SamePlace(u)
    BY <1>t, <1>1, <1>3, <1>4, <1>5 DEF ThreadTypes, LeavesOthers, SamePlace
  <2> QED
    BY <2>1, UndisturbedPhase DEF Stays
<1> QED
  BY <1>6

LEMMA WakeupStays ==
    ASSUME TypeInv, NEW t \in Threads, SpuriousWakeup(t)
    PROVE  \A u \in Initiators : Stays(u)
<1>t. ThreadTypes
  BY TypesOfThreads
<1>1. /\ \A u \in Threads : Undisturbed(u)
      /\ UNCHANGED <<mode, desc, callback, cmdRing>>
  BY WakeupLeavesAll DEF SpuriousWakeup
<1>2. QueuedSeqs' = QueuedSeqs
  BY <1>1, SameQueued
<1>3. HeldSeqs' = HeldSeqs
  <2>1. \A y \in Executors : InHand(y)' = InHand(y) /\ desc'[y] = desc[y]
    BY <1>t, <1>1 DEF ThreadTypes, Undisturbed, InHand
  <2> QED
    BY <2>1, SameHeld
<1>4. ASSUME NEW u \in Initiators PROVE Stays(u)
  <2>1. Undisturbed(u) /\ SamePlace(u) /\ mode' = mode /\ callback'[u] = callback[u]
    BY <1>t, <1>1, <1>2, <1>3 DEF ThreadTypes, SamePlace
  <2> QED
    BY <2>1, UndisturbedPhase DEF Stays
<1> QED
  BY <1>4

(* A caller that waits for a command that is in the ring, or in an executor's hands. *)
LEMMA PhaseOfWaiting ==
    ASSUME TypeInv, NEW t \in Initiators, CallOK(t), Waiting(t)
    PROVE  Phase(t) = PollingPhase(t) /\ mode = "polling" /\ ret[t] = "none"
  BY DEF CallOK, ModeOK, ReturnOK, Waiting, Phase, Refusals

LEMMA TakeMoves ==
    ASSUME TypeInv, SeqInv, CallInv, NEW x \in Executors, takeCmd(x)
    PROVE  \E t \in Initiators : Moves(t, "sent", "taken") /\ Others(t)
<1>t. ThreadTypes
  BY TypesOfThreads
<1> DEFINE s == Cmd(ProcedCmdNum).seq
<1>1. /\ ProcedCmdNum \in LiveCmds /\ LiveCmds' = LiveCmds \ {ProcedCmdNum}
      /\ \A i \in LiveCmds : Cmd(i)' = Cmd(i)
      /\ desc' = [desc EXCEPT ![x] = [Cmd(ProcedCmdNum) EXCEPT !.Status = "PROCESSING"]]
  BY TakeCmdEffect
<1>2. desc'[x].seq = s
  <2>1. Cmd(ProcedCmdNum) \in Descs
    BY <1>1 DEF TypeInv
  <2> QED
    BY <1>t, <1>1, <2>1 DEF ThreadTypes, Descs
<1>3. LeavesOthers(x) /\ callback' = callback
  BY <1>t, ExecutorLeavesOthers DEF ExecutorStep
<1>4. /\ ~InHand(x) /\ InHand(x)'
      /\ \A y \in Executors \ {x} : InHand(y)' = InHand(y) /\ desc'[y] = desc[y]
  BY <1>t, <1>3 DEF ThreadTypes, LeavesOthers, Undisturbed, takeCmd, Goto, Settle, InHand
<1>5. QueuedSeqs' = QueuedSeqs \ {s} /\ s \in QueuedSeqs
  BY <1>1 DEF QueuedSeqs, SeqInv, CmdsOK
<1>6. HeldSeqs' = HeldSeqs \cup {s} /\ s \notin HeldSeqs
  <2>1. s \notin HeldSeqs
    BY <1>1 DEF HeldSeqs, SeqInv, PlacesOK
  <2>2. HeldSeqs' = HeldSeqs \cup {s}
    BY <1>2, <1>4 DEF HeldSeqs
  <2> QED
    BY <2>1, <2>2
<1>7. PICK t \in Initiators : Waiting(t) /\ desc[t].seq = s
  BY <1>1 DEF SeqInv, CmdsOK, HasCaller
<1> HIDE DEF s
<1>8. ASSUME NEW u \in Initiators
      PROVE  Undisturbed(u) /\ mode' = mode /\ callback'[u] = callback[u] /\ desc'[u] = desc[u]
  BY <1>t, <1>3 DEF ThreadTypes, LeavesOthers, Undisturbed
<1>9. Moves(t, "sent", "taken")
  <2>1. Phase(t) = PollingPhase(t) /\ mode = "polling" /\ ret[t] = "none"
    BY <1>7, PhaseOfWaiting DEF CallInv
  <2>2. Waiting(t)' /\ pc'[t] # "idle" /\ pc'[t] \notin {"exec", "stamped"} /\ ret'[t] = "none" /\ mode' = "polling"
    BY <1>7, <1>8, <2>1 DEF Undisturbed, Waiting
  <2>3. Phase(t)' = PollingPhase(t)'
    BY <2>2 DEF Phase, Refusals
  <2>4. PollingPhase(t) = "sent"
    BY <1>5, <1>6, <1>7 DEF PollingPhase
  <2>5. PollingPhase(t)' = "taken"
    BY <1>5, <1>6, <1>7, <1>8, <2>2 DEF PollingPhase
  <2>6. Outcome(t)' = Outcome(t)
    BY <2>1, <2>2 DEF Outcome
  <2> QED
    BY <2>1, <2>3, <2>4, <2>5, <2>6 DEF Moves
<1>10. Others(t)
  <2>1. ASSUME NEW u \in Initiators \ {t} PROVE Phase(u)' = Phase(u) /\ Outcome(u)' = Outcome(u)
    <3>1. ASSUME Waiting(u) PROVE SamePlace(u)
      <4>1. desc[u].seq # s
        BY <1>7, <3>1 DEF SeqInv, NumbersOK, Owns
      <4> QED
        BY <4>1, <1>5, <1>6, <1>8 DEF SamePlace
    <3> QED
      BY <1>8, <3>1, UndisturbedPhase
  <2> QED
    BY <2>1 DEF Others
<1> QED
  BY <1>9, <1>10
LEMMA AckMoves ==
    ASSUME TypeInv, SeqInv, CallInv, NEW x \in Executors, ackCMD(x)
    PROVE  \E t \in Initiators : Moves(t, "taken", "answered") /\ Others(t)
<1>t. ThreadTypes
  BY TypesOfThreads
<1> DEFINE s == desc[x].seq
<1>1. LeavesOthers(x) /\ callback' = callback
  BY ExecutorLeavesOthers DEF ExecutorStep
<1>2. pc'[x] = "idle" /\ pc[x] = "holding" /\ UNCHANGED cmdRing
  BY <1>t, AckWakes DEF ThreadTypes, ackCMD
<1>3. /\ InHand(x) /\ ~InHand(x)'
      /\ \A y \in Executors \ {x} : InHand(y)' = InHand(y) /\ desc'[y] = desc[y]
  BY <1>t, <1>1, <1>2 DEF ThreadTypes, LeavesOthers, Undisturbed, InHand
<1>4. QueuedSeqs' = QueuedSeqs /\ s \notin QueuedSeqs
  <2>1. QueuedSeqs' = QueuedSeqs
    BY <1>2, SameQueued
  <2>2. s \notin QueuedSeqs
    BY <1>3 DEF QueuedSeqs, SeqInv, PlacesOK
  <2> QED
    BY <2>1, <2>2
<1>5. HeldSeqs' = HeldSeqs \ {s} /\ s \in HeldSeqs
  BY <1>3 DEF HeldSeqs, SeqInv, HandsOK
<1>6. PICK t \in Initiators : Waiting(t) /\ desc[t].seq = s
  BY <1>3 DEF SeqInv, HandsOK, HasCaller
<1> HIDE DEF s
<1>7. ASSUME NEW u \in Initiators
      PROVE  Undisturbed(u) /\ mode' = mode /\ callback'[u] = callback[u] /\ desc'[u] = desc[u]
  BY <1>t, <1>1 DEF ThreadTypes, LeavesOthers, Undisturbed
<1>8. Moves(t, "taken", "answered")
  <2>1. Phase(t) = PollingPhase(t) /\ mode = "polling" /\ ret[t] = "none"
    BY <1>6, PhaseOfWaiting DEF CallInv
  <2>2. Waiting(t)' /\ pc'[t] # "idle" /\ pc'[t] \notin {"exec", "stamped"} /\ ret'[t] = "none" /\ mode' = "polling"
    BY <1>6, <1>7, <2>1 DEF Undisturbed, Waiting
  <2>3. Phase(t)' = PollingPhase(t)'
    BY <2>2 DEF Phase, Refusals
  <2>4. PollingPhase(t) = "taken"
    BY <1>4, <1>5, <1>6 DEF PollingPhase
  <2>5. PollingPhase(t)' = "answered"
    BY <1>4, <1>5, <1>6, <1>7, <2>2 DEF PollingPhase
  <2>6. Outcome(t)' = Outcome(t)
    BY <2>1, <2>2 DEF Outcome
  <2> QED
    BY <2>1, <2>3, <2>4, <2>5, <2>6 DEF Moves
<1>9. Others(t)
  <2>1. ASSUME NEW u \in Initiators \ {t} PROVE Phase(u)' = Phase(u) /\ Outcome(u)' = Outcome(u)
    <3>1. ASSUME Waiting(u) PROVE SamePlace(u)
      <4>1. desc[u].seq # s
        BY <1>6, <3>1 DEF SeqInv, NumbersOK, Owns
      <4> QED
        BY <4>1, <1>4, <1>5, <1>7 DEF SamePlace
    <3> QED
      BY <1>7, <3>1, UndisturbedPhase
  <2> QED
    BY <2>1 DEF Others
<1> QED
  BY <1>8, <1>9

-----------------------------------------------------------------------------
(* From the phases of the single callers to the steps of the exchange. *)
LEMMA AllStay ==
    ASSUME \A u \in Initiators : Stays(u)
    PROVE  UNCHANGED Exchange!xvars
  BY DEF Stays, Exchange!xvars

LEMMA OneMoves ==
    ASSUME NEW t \in Initiators, Others(t), NEW from, NEW to, Phase(t) = from, Phase(t)' = to
    PROVE  Exchange!Move(t, from, to) /\ Exchange!Ends(t, Outcome(t)')
  BY DEF Others, Exchange!Move, Exchange!Ends

LEMMA OutcomesStay ==
    ASSUME NEW t \in Initiators, Others(t), Outcome(t)' = Outcome(t)
    PROVE  [u \in Initiators |-> Outcome(u)]' = [u \in Initiators |-> Outcome(u)]
  BY DEF Others

LEMMA CommandMoves ==
    ASSUME NEW t \in Initiators, Others(t),
           Moves(t, "begun", "sent") \/ Moves(t, "sent", "taken") \/ Moves(t, "taken", "answered")
    PROVE  Exchange!Send(t) \/ Exchange!Take(t) \/ Exchange!Answer(t)
  BY OneMoves, OutcomesStay DEF Moves, Exchange!Send, Exchange!Take, Exchange!Answer

LEMMA StayWithOthers == ASSUME NEW t \in Initiators, Others(t), Stays(t) PROVE UNCHANGED Exchange!xvars
  BY AllStay DEF Others, Stays

(* What the refinement rests on. *)
RefInv == TypeInv /\ SeqInv /\ CallbackInv /\ CallInv

LEMMA InitRefines == Init => Exchange!Init
  BY DEF Init, Exchange!Init, Phase, Outcome

LEMMA InitiatorRefines ==
    ASSUME RefInv, CallInv', NEW t \in Initiators, execCMD(t) \/ InitiatorStep(t) \/ CallbackStep(t)
    PROVE  [Exchange!Next]_(Exchange!xvars)
<1> USE DEF RefInv
<1>t. ThreadTypes /\ CallOK(t) /\ CallOK(t)'
  BY TypesOfThreads DEF CallInv
<1>1. Others(t)
  <2>1. CASE queueCmd(t)
    BY <2>1, QueueOthers
  <2>2. CASE ~queueCmd(t)
    <3>1. UNCHANGED cmdRing
      BY <2>2 DEF InitiatorStep, CallbackStep, execCMD, execRefused, execLeave, stampCmd, refuseCmd, takeResponse,
         sleepForResponse, startCallback, seeCompletion, execTimeout, joinCallback, finishCallback,
         callbackReturns, callbackReports, callbackCancelled
    <3> QED
      BY <3>1, InitiatorLeavesOthers, QuietOthers
  <2> QED
    BY <2>1, <2>2
<1>2. CASE execCMD(t)
  <2>1. pc[t] = "idle" /\ pc'[t] = "exec"
    BY <1>t, <1>2 DEF ThreadTypes, execCMD, Goto, Settle
  <2>2. Phase(t) = "idle" /\ Phase(t)' = "begun" /\ Outcome(t)' = "none"
    BY <2>1 DEF Phase, Outcome
  <2>3. Exchange!Begin(t)
    BY <1>1, <2>2, OneMoves DEF Exchange!Begin
  <2> QED
    BY <2>3 DEF Exchange!Next
<1>3. CASE execLeave(t)
  <2>1. Exchange!Refuse(t) \/ Exchange!Return(t) \/ Exchange!GiveUp(t)
    BY <1>t, <1>1, <1>3, LeaveEnds, OneMoves DEF Exchange!Refuse, Exchange!Return, Exchange!GiveUp
  <2> QED
    BY <2>1 DEF Exchange!Next
<1>4. CASE queueCmd(t) \/ startCallback(t) \/ CallbackStep(t)
  <2>1. \/ Moves(t, "begun", "sent") \/ Moves(t, "sent", "taken") \/ Moves(t, "taken", "answered")
        \/ Stays(t)
    BY <1>t, <1>4, QueueSends, StartSends, CallbackMoves
  <2> QED
    BY <1>1, <2>1, CommandMoves, StayWithOthers DEF Exchange!Next
<1>5. CASE \/ execRefused(t) \/ stampCmd(t) \/ refuseCmd(t) \/ sleepForResponse(t) \/ takeResponse(t)
           \/ seeCompletion(t) \/ execTimeout(t) \/ joinCallback(t) \/ finishCallback(t)
  <2>1. Stays(t)
    BY <1>t, <1>5, RefusedStays, PollingCallerStays, WatchingCallerStays
  <2> QED
    BY <1>1, <2>1, StayWithOthers
<1> QED
  BY <1>2, <1>3, <1>4, <1>5 DEF InitiatorStep

LEMMA ExecutorRefines ==
    ASSUME RefInv, NEW x \in Executors, ExecutorStep(x)
    PROVE  [Exchange!Next]_(Exchange!xvars)
<1> USE DEF RefInv
<1>1. CASE takeCmd(x) \/ ackCMD(x)
  <2>1. PICK t \in Initiators : Others(t) /\ (Moves(t, "sent", "taken") \/ Moves(t, "taken", "answered"))
    BY <1>1, TakeMoves, AckMoves
  <2> QED
    BY <2>1, CommandMoves DEF Exchange!Next
<1>2. CASE waitCMD(x) \/ noCmd(x) \/ waitTimeout(x) \/ waitLeave(x) \/ ackRefused(x)
  BY <1>2, QuietExecutorSteps, AllStay
<1> QED
  BY <1>1, <1>2 DEF ExecutorStep

LEMMA StepRefines == RefInv /\ CallInv' /\ [Next]_vars => [Exchange!Next]_(Exchange!xvars)
<1> SUFFICES ASSUME RefInv, CallInv', [Next]_vars PROVE [Exchange!Next]_(Exchange!xvars)
  OBVIOUS
<1>1. ASSUME NEW t \in Threads, SpuriousWakeup(t) PROVE [Exchange!Next]_(Exchange!xvars)
  BY <1>1, WakeupStays, AllStay DEF RefInv
<1>2. CASE UNCHANGED vars
  <2>1. \A u \in Initiators : Undisturbed(u) /\ mode' = mode /\ callback'[u] = callback[u] /\ SamePlace(u)
    <3>1. UNCHANGED <<mode, cmdRing, desc, ret, pc, callback>>
      BY <1>2 DEF vars
    <3>2. QueuedSeqs' = QueuedSeqs
      BY <3>1, SameQueued
    <3>3. HeldSeqs' = HeldSeqs
      BY <3>1, SameHeld DEF InHand
    <3> QED
      BY <3>1, <3>2, <3>3 DEF Undisturbed, SamePlace
  <2> QED
    BY <2>1, UndisturbedPhase, AllStay DEF Stays
<1> QED
  BY <1>1, <1>2, InitiatorRefines, ExecutorRefines DEF Next, Threads

(* Commands over a FIFO link implement the exchange: each is taken once and answered once, and a call returns *)
(* success only for the answer to its own command, whatever the callers and executors of the link do at once  *)
(* (execCmd, waitCmd and ackCmd of _IOC_SrvProtoFifo.c).                                                      *)
THEOREM CommandsImplementExchange == Spec => ImplementsExchange
<1>1. Init => CallbackInv
  BY DEF Init, CallbackInv, NoCallback
<1>2. Init => RefInv
  BY <1>1, InitTypeInv, InitSeqInv, InitCallInv DEF RefInv
<1>3. RefInv /\ [Next]_vars => RefInv'
  BY NextTypeInv, NextSeqInv, NextCallbackInv, NextCallInv DEF RefInv
<1>4. RefInv /\ RefInv' /\ [Next]_vars => [Exchange!Next]_(Exchange!xvars)
  BY StepRefines DEF RefInv
<1> QED
  BY <1>2, <1>3, <1>4, InitRefines, PTL DEF Spec, ImplementsExchange, Exchange!Spec
=============================================================================
