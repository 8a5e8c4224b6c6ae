-------------------------------- MODULE FifoDat --------------------------------
(***************************************************************************)
(* Source/IOC_Data.c over Source/_IOC_SrvProtoFifo.c: a stream of data     *)
(* over a connected pair of links, from threads at the sending end to a    *)
(* receiver that registered a callback or polls.  With a callback a chunk  *)
(* is delivered by the sender itself (nonblocking), by a detached thread   *)
(* of its own (blocking), or joins a batch that whoever flushes delivers   *)
(* in one call: a sender that finds the batching window expired or the     *)
(* batch full, IOC_flushDAT, or the end of a callback.  Without one it     *)
(* goes into a ring of bytes that IOC_recvDAT reads.                       *)
(*                                                                         *)
(* A section under BatchMutex or under the receiving end's Mutex is one    *)
(* step, a callback another; the store of a receiver without a callback    *)
(* takes no mutex, so each of its reads and writes is a step.  Time is     *)
(* left open: a window may have expired, a callback may have been slow.    *)
(* The links stay open, malloc and pthread_create succeed, and the         *)
(* LastSentCache of the sending end is left out.                           *)
(***************************************************************************)
EXTENDS Integers, Sequences, FiniteSets

CONSTANTS Senders,          \* the threads that call IOC_sendDAT and IOC_flushDAT
          Receivers,        \* the threads that call IOC_recvDAT at the other end
          Setups,           \* how the receiver may be set up: "callback", "polling"
          Calls,            \* Calls[setup][s]: IOC_sendDAT's options "blocking", "nonblock", "zero", and "flush"
          Limits,           \* Limits[setup]: IOC_recvDAT's options "infinite", "timed", "zero"
          BatchBufferSize,  \* 16 KB
          BufferSize,       \* 64 KB
          SizeT,            \* 2^64: a size_t counts modulo this
          MaxChunk,         \* bound: how many bytes a chunk has
          MaxSends,         \* bound: how many chunks are sent
          Free              \* nobody holds the mutex

ASSUME SizesAssumption == /\ {BatchBufferSize, BufferSize, MaxChunk, MaxSends, SizeT} \subseteq Nat \ {0}
                          /\ MaxChunk <= BufferSize /\ MaxSends * MaxChunk + BufferSize < SizeT
                          /\ BatchBufferSize < SizeT
ASSUME OptionsAssumption == /\ Setups \subseteq {"callback", "polling"}
                            /\ \A u \in Setups, s \in Senders : Calls[u][s] \subseteq {"blocking", "nonblock", "zero", "flush"}
                            /\ \A u \in Setups : Limits[u] \subseteq {"infinite", "timed", "zero"}

Chunks == 1 .. MaxSends       \* a chunk is the number of its send, and each of its bytes is that number
Flushers == Senders \cup Chunks   \* the detached thread of a chunk has the chunk's number
Threads == Flushers \cup Receivers

ASSUME ThreadsAssumption == /\ Senders \cap Receivers = {} /\ Chunks \cap (Senders \cup Receivers) = {}
                            /\ Free \notin Threads

VARIABLES
    setup,
    IsBatchWindowOpen, AccumulatedDataSize, pBatchBuffer, IsInCallback,   \* CallbackBatch
    ended,                 \* LastCallbackEnd has been set
    BatchMutex,            \* the thread that locked it twice, or Free
    PendingDataCount,
    pDataBuffer, DataStart, DataEnd, AvailableData, IsPollingMode,        \* PollingBuffer
    Mutex,                 \* the receiver inside its section of the receiving end's Mutex, or Free
    IsSending,             \* DatState of the sending end
    pc, next,              \* where each thread is, and where it goes after a flush
    chunk, mode,           \* of each thread's call: the chunk, the option
    held,                  \* a local of each thread: BatchSize, DataEnd, AvailableData, or DataToRead
    sends, size, ret,      \* size[n], ret[n]: the length of chunk n, what its IOC_sendDAT returned
    delivered,             \* history: delivered[n], how many bytes of chunk n the callback was given
    stored, received,      \* history: the bytes the ring took, those IOC_recvDAT returned
    torn, raced,           \* history: a batch was overwritten while being delivered; the ring was accessed at once
    asked                  \* history: asked[s], the chunks accepted when s called IOC_flushDAT

batchVars == <<IsBatchWindowOpen, AccumulatedDataSize, pBatchBuffer, IsInCallback, ended, BatchMutex>>
ringVars == <<pDataBuffer, DataStart, DataEnd, AvailableData, IsPollingMode, Mutex>>
callVars == <<IsSending, chunk, mode, sends, size>>
history == <<delivered, stored, received, torn, raced, asked>>
vars == <<setup, batchVars, PendingDataCount, ringVars, callVars, pc, next, held, ret, history>>

Bytes(n) == [i \in 1 .. size[n] |-> n]
Goto(t, label) == pc' = [pc EXCEPT ![t] = label]
Return(s, code) == ret' = [ret EXCEPT ![chunk[s]] = code] /\ Goto(s, "leave")

Init ==
    /\ setup \in Setups
    /\ IsBatchWindowOpen = FALSE /\ AccumulatedDataSize = 0 /\ pBatchBuffer = [i \in 1 .. BatchBufferSize |-> 0]
    /\ IsInCallback = FALSE /\ ended = FALSE /\ BatchMutex = Free
    /\ PendingDataCount = 0
    /\ pDataBuffer = [i \in 0 .. BufferSize - 1 |-> 0] /\ DataStart = 0 /\ DataEnd = 0 /\ AvailableData = 0
    /\ IsPollingMode = (setup = "polling") /\ Mutex = Free
    /\ IsSending = FALSE
    /\ pc = [t \in Threads |-> "idle"] /\ next = [t \in Flushers |-> "idle"]
    /\ chunk = [s \in Senders |-> 0] /\ mode = [t \in Senders \cup Receivers |-> "none"]
    /\ held = [t \in Threads |-> 0]
    /\ sends = 0 /\ size = [n \in Chunks |-> 0] /\ ret = [n \in Chunks |-> "none"]
    /\ delivered = [n \in Chunks |-> 0] /\ stored = <<>> /\ received = <<>>
    /\ torn = FALSE /\ raced = FALSE /\ asked = [s \in Senders |-> {}]

-----------------------------------------------------------------------------
(* IOC_sendDAT around OpSendData_F, which begins with the Mutex of both ends, for a moment. *)
sendDAT(s) ==
    /\ pc[s] = "idle" /\ sends < MaxSends /\ Mutex = Free
    /\ sends' = sends + 1
    /\ \E k \in 1 .. MaxChunk : size' = [size EXCEPT ![sends + 1] = k]
    /\ \E m \in Calls[setup][s] \ {"flush"} : mode' = [mode EXCEPT ![s] = m]
    /\ chunk' = [chunk EXCEPT ![s] = sends + 1]
    /\ IsSending' = TRUE
    /\ Goto(s, "window")
    /\ UNCHANGED <<setup, batchVars, PendingDataCount, ringVars, next, held, ret, history>>

sendLeave(s) ==
    /\ pc[s] = "leave"
    /\ IsSending' = FALSE
    /\ chunk' = [chunk EXCEPT ![s] = 0] /\ mode' = [mode EXCEPT ![s] = "none"]
    /\ Goto(s, "idle")
    /\ UNCHANGED <<setup, batchVars, PendingDataCount, ringVars, sends, size, next, held, ret, history>>

(* The batching window, before anything else. *)
checkWindow(s) ==
    /\ pc[s] = "window" /\ BatchMutex = Free
    /\ IF IsBatchWindowOpen
       THEN \/ Goto(s, "close") /\ next' = [next EXCEPT ![s] = "deliver"]   \* expired
            \/ Goto(s, "add") /\ UNCHANGED next
       ELSE Goto(s, "deliver") /\ UNCHANGED next
    /\ UNCHANGED <<setup, batchVars, PendingDataCount, ringVars, callVars, held, ret, history>>

AddedBatch(bytes) ==
    [i \in 1 .. BatchBufferSize |-> IF i > AccumulatedDataSize /\ i <= AccumulatedDataSize + Len(bytes)
                                    THEN bytes[i - AccumulatedDataSize] ELSE pBatchBuffer[i]]
FitsBatch_OffByOne(n) == AccumulatedDataSize + size[n] <= BatchBufferSize + 1   \* mutant: one byte too many
FitsBatch(n) == AccumulatedDataSize + size[n] <= BatchBufferSize

addDataToBatch(s) ==
    /\ pc[s] = "add" /\ BatchMutex = Free
    /\ IsBatchWindowOpen /\ FitsBatch(chunk[s])
    /\ pBatchBuffer' = AddedBatch(Bytes(chunk[s]))
    /\ AccumulatedDataSize' = AccumulatedDataSize + size[chunk[s]]
    /\ torn' = (torn \/ \E t \in Flushers : pc[t] = "batched" /\ held[t] > AccumulatedDataSize)
    /\ Return(s, "SUCCESS")
    /\ UNCHANGED <<setup, IsBatchWindowOpen, IsInCallback, ended, BatchMutex, PendingDataCount, ringVars, callVars,
                   next, held, delivered, stored, received, raced, asked>>

(* The batch is full, or the window is closed or has expired by now. *)
AfterRefusal_Retry == "window"   \* mutant: the sender tries the batch again
AfterRefusal == "deliver"
batchRefuses(s) ==
    /\ pc[s] = "add" /\ BatchMutex = Free
    /\ \/ IsBatchWindowOpen /\ ~FitsBatch(chunk[s]) /\ Goto(s, "close") /\ next' = [next EXCEPT ![s] = "deliver"]
       \/ Goto(s, AfterRefusal) /\ UNCHANGED next
    /\ UNCHANGED <<setup, batchVars, PendingDataCount, ringVars, callVars, held, ret, history>>

closeBatchWindow(s) ==
    /\ pc[s] = "close" /\ BatchMutex = Free
    /\ IsBatchWindowOpen' = FALSE
    /\ Goto(s, "flush")
    /\ UNCHANGED <<setup, AccumulatedDataSize, pBatchBuffer, IsInCallback, ended, BatchMutex, PendingDataCount,
                   ringVars, callVars, next, held, ret, history>>

(* __IOC_flushCallbackBatch: what is in the batch is taken under the mutex, the callback reads it after. *)
GoOn(t) == Goto(t, next[t]) /\ next' = [next EXCEPT ![t] = "idle"]
LeftInBatch_AfterCallback(t) == AccumulatedDataSize   \* mutant: the batch is emptied by nobody
LeftInBatch(t) == 0
flushCallbackBatch(t) ==
    /\ pc[t] = "flush" /\ BatchMutex = Free
    /\ IF AccumulatedDataSize = 0
       THEN GoOn(t) /\ UNCHANGED <<AccumulatedDataSize, held>>
       ELSE /\ AccumulatedDataSize' = LeftInBatch(t)
            /\ held' = [held EXCEPT ![t] = AccumulatedDataSize]
            /\ Goto(t, "batched") /\ UNCHANGED next
    /\ UNCHANGED <<setup, IsBatchWindowOpen, pBatchBuffer, IsInCallback, ended, BatchMutex, PendingDataCount,
                   ringVars, callVars, ret, history>>

InBatch(k, n) == Cardinality({i \in 1 .. k : pBatchBuffer[i] = n})
batchCallback(t) ==
    /\ pc[t] = "batched"
    /\ delivered' = [n \in Chunks |-> delivered[n] + InBatch(held[t], n)]
    /\ held' = [held EXCEPT ![t] = 0]
    /\ GoOn(t)
    /\ UNCHANGED <<setup, batchVars, PendingDataCount, ringVars, callVars, ret, stored, received, torn, raced,
                   asked>>

-----------------------------------------------------------------------------
(* Nonblocking and zero timeout: one pending chunk is accepted; zero timeout never delivers it. *)
Pressing(s) == pc[s] = "deliver" /\ setup = "callback" /\ mode[s] # "blocking"
MaxPendingChunks == 1

refuseChunk(s) ==
    /\ Pressing(s) /\ PendingDataCount >= MaxPendingChunks
    /\ Return(s, IF mode[s] = "nonblock" THEN "BUFFER_FULL" ELSE "TIMEOUT")
    /\ UNCHANGED <<setup, batchVars, PendingDataCount, ringVars, callVars, next, held, history>>

acceptChunk(s) ==
    /\ Pressing(s) /\ PendingDataCount < MaxPendingChunks
    /\ PendingDataCount' = PendingDataCount + 1
    /\ IF mode[s] = "nonblock" THEN Goto(s, "direct") /\ UNCHANGED ret
       ELSE Goto(s, "drain") /\ ret' = [ret EXCEPT ![chunk[s]] = "TIMEOUT"]
    /\ UNCHANGED <<setup, batchVars, ringVars, callVars, next, held, history>>

directCallback(s) ==
    /\ pc[s] = "direct"
    /\ delivered' = [delivered EXCEPT ![chunk[s]] = @ + size[chunk[s]]]
    /\ ret' = [ret EXCEPT ![chunk[s]] = "SUCCESS"]
    /\ Goto(s, "measure")
    /\ UNCHANGED <<setup, batchVars, PendingDataCount, ringVars, callVars, next, held, stored, received, torn, raced,
                   asked>>

measureCallback(s) ==
    /\ pc[s] = "measure" /\ BatchMutex = Free
    /\ ended' = TRUE
    /\ \E slow \in BOOLEAN : IsBatchWindowOpen' = (IsBatchWindowOpen \/ slow)
    /\ Goto(s, "drain")
    /\ UNCHANGED <<setup, AccumulatedDataSize, pBatchBuffer, IsInCallback, BatchMutex, PendingDataCount, ringVars,
                   callVars, next, held, ret, history>>

(* drainCounter counts the calls of every link: this one may be the fifth. *)
drain(s) ==
    /\ pc[s] = "drain"
    /\ \E fifth \in BOOLEAN : PendingDataCount' = IF fifth /\ PendingDataCount > 0 THEN PendingDataCount - 1
                                                  ELSE PendingDataCount
    /\ Goto(s, "leave")
    /\ UNCHANGED <<setup, batchVars, ringVars, callVars, next, held, ret, history>>

-----------------------------------------------------------------------------
(* Blocking: the sender looks at the batch again, now holding BatchMutex. *)
expireWindow(s) ==
    /\ pc[s] = "deliver" /\ setup = "callback" /\ mode[s] = "blocking" /\ BatchMutex = Free
    /\ IsBatchWindowOpen /\ AccumulatedDataSize > 0
    /\ IsBatchWindowOpen' = FALSE
    /\ next' = [next EXCEPT ![s] = "choose"]
    /\ Goto(s, "flush")
    /\ UNCHANGED <<setup, AccumulatedDataSize, pBatchBuffer, IsInCallback, ended, BatchMutex, PendingDataCount,
                   ringVars, callVars, held, ret, history>>

Choosing(s) ==
    /\ \/ pc[s] = "choose"
       \/ pc[s] = "deliver" /\ setup = "callback" /\ mode[s] = "blocking"
    /\ BatchMutex = Free

(* __IOC_addDataToBatch locks the mutex again: a callback runs, a window is open, or a callback ended lately. *)
lockTwice(s) ==
    /\ Choosing(s)
    /\ IsInCallback \/ IsBatchWindowOpen \/ ended
    /\ BatchMutex' = s
    /\ Goto(s, "locked")
    /\ UNCHANGED <<setup, IsBatchWindowOpen, AccumulatedDataSize, pBatchBuffer, IsInCallback, ended,
                   PendingDataCount, ringVars, callVars, next, held, ret, history>>

(* A window that is open has expired, with an empty batch. *)
startCallback(s) ==
    /\ Choosing(s) /\ ~IsInCallback
    /\ IsBatchWindowOpen => pc[s] = "deliver" /\ AccumulatedDataSize = 0
    /\ IsBatchWindowOpen' = FALSE
    /\ IsInCallback' = TRUE
    /\ Goto(s, "dispatch")
    /\ UNCHANGED <<setup, AccumulatedDataSize, pBatchBuffer, ended, BatchMutex, PendingDataCount, ringVars, callVars,
                   next, held, ret, history>>

dispatchCallback(s) ==
    /\ pc[s] = "dispatch" /\ BatchMutex = Free
    /\ pc' = [pc EXCEPT ![s] = "after", ![chunk[s]] = "callback"]
    /\ UNCHANGED <<setup, batchVars, PendingDataCount, ringVars, callVars, next, held, ret, history>>

afterCallback(s) ==
    /\ pc[s] = "after" /\ BatchMutex = Free
    /\ ended' = TRUE /\ IsInCallback' = FALSE /\ IsBatchWindowOpen' = TRUE
    /\ IF AccumulatedDataSize > 0 THEN Goto(s, "flush") /\ next' = [next EXCEPT ![s] = "hybrid"]
       ELSE Goto(s, "hybrid") /\ UNCHANGED next
    /\ UNCHANGED <<setup, AccumulatedDataSize, pBatchBuffer, BatchMutex, PendingDataCount, ringVars, callVars, held,
                   ret, history>>

(* The thread of chunk n: __IOC_asyncCallbackThreadFunc. *)
asyncCallback(n) ==
    /\ pc[n] = "callback"
    /\ delivered' = [delivered EXCEPT ![n] = @ + size[n]]
    /\ Goto(n, "end")
    /\ UNCHANGED <<setup, batchVars, PendingDataCount, ringVars, callVars, next, held, ret, stored, received, torn,
                   raced, asked>>

asyncEnd(n) ==
    /\ pc[n] = "end" /\ BatchMutex = Free
    /\ ended' = TRUE /\ IsInCallback' = FALSE
    /\ \E slow \in BOOLEAN : IsBatchWindowOpen' = (IsBatchWindowOpen \/ slow)
    /\ Goto(n, "flush")
    /\ UNCHANGED <<setup, AccumulatedDataSize, pBatchBuffer, BatchMutex, PendingDataCount, ringVars, callVars, next,
                   held, ret, history>>

-----------------------------------------------------------------------------
(* The ring of bytes of the receiving end. *)
FreeSpace == (BufferSize - AvailableData) % SizeT
Ring(i) == i % BufferSize
RingWith_NoWrap(at, bytes) ==   \* mutant: what does not fit before the end of the buffer is dropped
    [i \in 0 .. BufferSize - 1 |-> IF i >= at /\ i - at < Len(bytes) THEN bytes[i - at + 1] ELSE pDataBuffer[i]]
RingWith(at, bytes) ==
    [i \in 0 .. BufferSize - 1 |-> IF Ring(i - at) < Len(bytes) THEN bytes[Ring(i - at) + 1] ELSE pDataBuffer[i]]
RingBytes(at, n) == [i \in 1 .. n |-> pDataBuffer[Ring(at + i - 1)]]

(* A signal wakes up one of the receivers that sleep, if there is one. *)
Signal(pcs) ==
    LET asleep == {r \in Receivers : pc[r] = "asleep"}
    IN  IF asleep = {} THEN pc' = pcs ELSE \E r \in asleep : pc' = [pcs EXCEPT ![r] = "awake"]

(* After a callback the chunk is stored for polling too, under the Mutex; a full ring is ignored. *)
storeHybrid(s) ==
    /\ pc[s] = "hybrid" /\ Mutex = Free
    /\ IsPollingMode' = TRUE
    /\ IF size[chunk[s]] <= FreeSpace
       THEN /\ pDataBuffer' = RingWith(DataEnd, Bytes(chunk[s]))
            /\ DataEnd' = Ring(DataEnd + size[chunk[s]])
            /\ AvailableData' = (AvailableData + size[chunk[s]]) % SizeT
            /\ stored' = stored \o Bytes(chunk[s])
            /\ Signal([pc EXCEPT ![s] = "leave"])
       ELSE Goto(s, "leave") /\ UNCHANGED <<pDataBuffer, DataEnd, AvailableData, stored>>
    /\ ret' = [ret EXCEPT ![chunk[s]] = "SUCCESS"]
    /\ UNCHANGED <<setup, batchVars, PendingDataCount, DataStart, Mutex, callVars, next, held, delivered, received,
                   torn, raced, asked>>

(* Without a callback no mutex is taken: the space is checked, the bytes copied, the counter changed. *)
Storing == {s \in Senders : pc[s] \in {"copy", "count", "add up"}}
Reading == {r \in Receivers : pc[r] \in {"read", "count", "take off"}}

ringFull(s) ==
    /\ pc[s] = "deliver" /\ setup = "polling"
    /\ size[chunk[s]] > FreeSpace
    /\ Return(s, IF mode[s] = "zero" THEN "TIMEOUT" ELSE "BUFFER_FULL")
    /\ UNCHANGED <<setup, batchVars, PendingDataCount, ringVars, callVars, next, held, history>>

storeBegin(s) ==
    /\ pc[s] = "deliver" /\ setup = "polling"
    /\ size[chunk[s]] <= FreeSpace
    /\ held' = [held EXCEPT ![s] = DataEnd]
    /\ raced' = (raced \/ Storing \cup Reading # {})
    /\ Goto(s, "copy")
    /\ UNCHANGED <<setup, batchVars, PendingDataCount, ringVars, callVars, next, ret, delivered, stored, received,
                   torn, asked>>

storeCopy(s) ==
    /\ pc[s] = "copy"
    /\ pDataBuffer' = RingWith(held[s], Bytes(chunk[s]))
    /\ DataEnd' = Ring(held[s] + size[chunk[s]])
    /\ stored' = stored \o Bytes(chunk[s])
    /\ Goto(s, "count")
    /\ UNCHANGED <<setup, batchVars, PendingDataCount, DataStart, AvailableData, IsPollingMode, Mutex, callVars, next,
                   held, ret, delivered, received, torn, raced, asked>>

(* AvailableData += DataSize: a read, and a write. *)
storeCount(s) ==
    /\ pc[s] = "count"
    /\ held' = [held EXCEPT ![s] = AvailableData]
    /\ Goto(s, "add up")
    /\ UNCHANGED <<setup, batchVars, PendingDataCount, ringVars, callVars, next, ret, history>>

storeAdd(s) ==
    /\ pc[s] = "add up"
    /\ AvailableData' = (held[s] + size[chunk[s]]) % SizeT
    /\ held' = [held EXCEPT ![s] = 0]
    /\ Goto(s, "signal")
    /\ UNCHANGED <<setup, batchVars, PendingDataCount, pDataBuffer, DataStart, DataEnd, IsPollingMode, Mutex, callVars,
                   next, ret, history>>

storeSignal(s) ==
    /\ pc[s] = "signal"
    /\ ret' = [ret EXCEPT ![chunk[s]] = "SUCCESS"]
    /\ Signal([pc EXCEPT ![s] = "leave"])
    /\ UNCHANGED <<setup, batchVars, PendingDataCount, ringVars, callVars, next, held, history>>

-----------------------------------------------------------------------------
(* IOC_recvDAT: without waiting it says NO_DATA whatever there is, and a link nobody sent to polls nothing. *)
recvDAT(r) ==
    /\ pc[r] = "idle"
    /\ \E m \in Limits[setup] : mode' = [mode EXCEPT ![r] = m]
    /\ Mutex = Free /\ IsPollingMode
    /\ Mutex' = r
    /\ Goto(r, "check")
    /\ UNCHANGED <<setup, batchVars, PendingDataCount, pDataBuffer, DataStart, DataEnd, AvailableData, IsPollingMode,
                   IsSending, chunk, sends, size, next, held, ret, history>>

(* The Mutex is held from here to the end of the call, but for the sleep. *)
recvWait(r) ==
    /\ pc[r] = "check" /\ AvailableData = 0
    /\ IF mode[r] = "zero" THEN Mutex' = Free /\ Goto(r, "idle") ELSE UNCHANGED Mutex /\ Goto(r, "wait")
    /\ UNCHANGED <<setup, batchVars, PendingDataCount, pDataBuffer, DataStart, DataEnd, AvailableData, IsPollingMode,
                   callVars, next, held, ret, history>>

recvSleep(r) ==
    /\ pc[r] = "wait"
    /\ Mutex' = Free
    /\ Goto(r, "asleep")
    /\ UNCHANGED <<setup, batchVars, PendingDataCount, pDataBuffer, DataStart, DataEnd, AvailableData, IsPollingMode,
                   callVars, next, held, ret, history>>

(* Woken up by a signal or by nothing; a call with a timeout gives up when there is still no data. *)
recvWake(r) ==
    /\ pc[r] \in {"asleep", "awake"} /\ Mutex = Free
    /\ IF mode[r] = "timed" /\ AvailableData = 0 THEN UNCHANGED Mutex /\ Goto(r, "idle")
       ELSE Mutex' = r /\ Goto(r, "check")
    /\ UNCHANGED <<setup, batchVars, PendingDataCount, pDataBuffer, DataStart, DataEnd, AvailableData, IsPollingMode,
                   callVars, next, held, ret, history>>

recvTimeout(r) ==
    /\ pc[r] = "asleep" /\ mode[r] = "timed" /\ Mutex = Free
    /\ Goto(r, "idle")
    /\ UNCHANGED <<setup, batchVars, PendingDataCount, ringVars, callVars, next, held, ret, history>>

recvBegin(r) ==
    /\ pc[r] = "check" /\ AvailableData > 0
    /\ \E want \in 1 .. MaxChunk :
          held' = [held EXCEPT ![r] = IF want < AvailableData THEN want ELSE AvailableData]
    /\ raced' = (raced \/ Storing # {})
    /\ Goto(r, "read")
    /\ UNCHANGED <<setup, batchVars, PendingDataCount, ringVars, callVars, next, ret, delivered, stored, received,
                   torn, asked>>

recvRead(r) ==
    /\ pc[r] = "read"
    /\ received' = received \o RingBytes(DataStart, held[r])
    /\ DataStart' = Ring(DataStart + held[r])
    /\ Goto(r, "count")
    /\ UNCHANGED <<setup, batchVars, PendingDataCount, pDataBuffer, DataEnd, AvailableData, IsPollingMode, Mutex,
                   callVars, next, held, ret, delivered, stored, torn, raced, asked>>

(* AvailableData -= DataToRead: a read, and a write. *)
recvCount(r) ==
    /\ pc[r] = "count"
    /\ held' = [held EXCEPT ![r] = (AvailableData - held[r]) % SizeT]
    /\ Goto(r, "take off")
    /\ UNCHANGED <<setup, batchVars, PendingDataCount, ringVars, callVars, next, ret, history>>

recvTakeOff(r) ==
    /\ pc[r] = "take off"
    /\ AvailableData' = held[r]
    /\ held' = [held EXCEPT ![r] = 0]
    /\ Mutex' = Free
    /\ Goto(r, "idle")
    /\ UNCHANGED <<setup, batchVars, PendingDataCount, pDataBuffer, DataStart, DataEnd, IsPollingMode, callVars, next,
                   ret, history>>

-----------------------------------------------------------------------------
(* IOC_flushDAT. *)
Accepted == {n \in Chunks : ret[n] = "SUCCESS"}
NeedsFlush_OpenWindowOnly == IsBatchWindowOpen   \* mutant: what a closed window left is forgotten
NeedsFlush == IsBatchWindowOpen \/ AccumulatedDataSize > 0

flushDAT(s) ==
    /\ pc[s] = "idle" /\ "flush" \in Calls[setup][s] /\ BatchMutex = Free
    /\ asked' = [asked EXCEPT ![s] = Accepted]
    /\ IF NeedsFlush THEN Goto(s, "close") /\ next' = [next EXCEPT ![s] = "flushed"]
       ELSE Goto(s, "flushed") /\ UNCHANGED next
    /\ UNCHANGED <<setup, batchVars, PendingDataCount, ringVars, callVars, held, ret, delivered, stored, received,
                   torn, raced>>

flushLeave(s) ==
    /\ pc[s] = "flushed"
    /\ asked' = [asked EXCEPT ![s] = {}]
    /\ Goto(s, "idle")
    /\ UNCHANGED <<setup, batchVars, PendingDataCount, ringVars, callVars, next, held, ret, delivered, stored,
                   received, torn, raced>>

-----------------------------------------------------------------------------
SendStep(s) ==
    \/ sendLeave(s) \/ checkWindow(s) \/ addDataToBatch(s) \/ batchRefuses(s) \/ closeBatchWindow(s)
    \/ refuseChunk(s) \/ acceptChunk(s) \/ directCallback(s) \/ measureCallback(s) \/ drain(s)
    \/ expireWindow(s) \/ lockTwice(s) \/ startCallback(s) \/ dispatchCallback(s) \/ afterCallback(s)
    \/ storeHybrid(s) \/ ringFull(s) \/ storeBegin(s) \/ storeCopy(s) \/ storeCount(s) \/ storeAdd(s)
    \/ storeSignal(s) \/ flushLeave(s)
FlushStep(t) == flushCallbackBatch(t) \/ batchCallback(t)
AsyncStep(n) == asyncCallback(n) \/ asyncEnd(n)
RecvStep(r) ==
    \/ recvWait(r) \/ recvSleep(r) \/ recvTimeout(r) \/ recvBegin(r) \/ recvRead(r) \/ recvCount(r)
    \/ recvTakeOff(r) \/ (pc[r] = "awake" /\ recvWake(r))

Next ==
    \/ \E s \in Senders : sendDAT(s) \/ flushDAT(s) \/ SendStep(s)
    \/ \E t \in Flushers : FlushStep(t)
    \/ \E n \in Chunks : AsyncStep(n)
    \/ \E r \in Receivers : recvDAT(r) \/ recvWake(r) \/ RecvStep(r)

Spec == Init /\ [][Next]_vars

(* A thread that can go on does; nobody has to call, and a sleeper need not wake up by itself. *)
FairSpec ==
    /\ Spec
    /\ \A s \in Senders : WF_vars(SendStep(s) \/ FlushStep(s))
    /\ \A n \in Chunks : WF_vars(AsyncStep(n) \/ FlushStep(n))
    /\ \A r \in Receivers : WF_vars(RecvStep(r))

-----------------------------------------------------------------------------
Labels == {"idle", "window", "add", "close", "flush", "batched", "deliver", "direct", "measure", "drain", "choose",
           "locked", "dispatch", "after", "hybrid", "copy", "count", "add up", "signal", "leave", "flushed",
           "callback", "end", "check", "wait", "asleep", "awake", "read", "take off"}

(* Every variable keeps its type: the batch and the ring stay inside their buffers however the window is
   opened and closed, at most one chunk is pending, and a section has one owner. *)
TypeOK ==
    /\ setup \in Setups
    /\ {IsBatchWindowOpen, IsInCallback, ended, IsPollingMode, IsSending, torn, raced} \subseteq BOOLEAN
    /\ AccumulatedDataSize \in 0 .. BatchBufferSize
    /\ pBatchBuffer \in [1 .. BatchBufferSize -> 0 .. MaxSends]
    /\ BatchMutex \in Senders \cup {Free} /\ Mutex \in Receivers \cup {Free}
    /\ PendingDataCount \in 0 .. MaxPendingChunks
    /\ pDataBuffer \in [0 .. BufferSize - 1 -> 0 .. MaxSends]
    /\ DataStart \in 0 .. BufferSize - 1 /\ DataEnd \in 0 .. BufferSize - 1 /\ AvailableData \in 0 .. SizeT - 1
    /\ pc \in [Threads -> Labels] /\ next \in [Flushers -> Labels]
    /\ chunk \in [Senders -> 0 .. MaxSends] /\ held \in [Threads -> 0 .. SizeT - 1]
    /\ mode \in [Senders \cup Receivers -> {"blocking", "nonblock", "zero", "infinite", "timed", "none"}]
    /\ sends \in 0 .. MaxSends /\ size \in [Chunks -> 0 .. MaxChunk]
    /\ ret \in [Chunks -> {"none", "SUCCESS", "BUFFER_FULL", "TIMEOUT"}]
    /\ delivered \in [Chunks -> Nat] /\ {stored, received} \subseteq Seq(0 .. MaxSends)
    /\ asked \in [Senders -> SUBSET Chunks]

Delivering == {t \in Flushers : pc[t] = "batched"}
TakenForCallback(n) == {x \in Delivering \X (1 .. BatchBufferSize) : x[2] <= held[x[1]] /\ pBatchBuffer[x[2]] = n}
BytesInHand(n) ==
    delivered[n] + InBatch(AccumulatedDataSize, n) + Cardinality(TakenForCallback(n))
    + (IF pc[n] = "callback" THEN size[n] ELSE 0)

(* A chunk whose IOC_sendDAT said SUCCESS is with the receiver, in the batch, or with a thread that delivers it,
   each of its bytes once; a refused one is nowhere: whoever else flushes, batches or calls back meanwhile.
   Unless a batch was overwritten while the callback read it. *)
OncePerChunk ==
    setup = "callback" /\ ~torn =>
        \A n \in Chunks : /\ ret[n] = "SUCCESS" => BytesInHand(n) = size[n]
                          /\ ret[n] \in {"BUFFER_FULL", "TIMEOUT"} => BytesInHand(n) = 0

(* When IOC_flushDAT returns, nothing accepted before the call is left in the batch, whatever window was open
   then and whoever flushed at the same time. *)
FlushEmpties ==
    \A s \in Senders : pc[s] = "flushed" =>
        \A i \in 1 .. AccumulatedDataSize : pBatchBuffer[i] \notin asked[s]

(* Between calls the ring holds exactly the bytes that were stored and not yet read, in their order, across the
   end of the buffer.  Unless a store without the mutex met another one or a read. *)
StreamIntact ==
    ~raced /\ Storing = {} /\ Reading = {} => stored = received \o RingBytes(DataStart, AvailableData)

(* A call ends, unless a sender has locked BatchMutex twice: nobody waits for the batch, the ring or the callback
   of somebody else. *)
CallsReturn == \A s \in Senders : pc[s] # "idle" ~> pc[s] = "idle" \/ BatchMutex # Free

-----------------------------------------------------------------------------
(* No accepted byte is lost or delivered twice. *)
NoDrop == setup = "callback" => \A n \in Accepted : BytesInHand(n) = size[n]
=============================================================================
