---------------------------- MODULE FifoDatProofs ----------------------------
(***************************************************************************)
(* A stream of data over a FIFO link, for any number of senders, receivers *)
(* and chunks, and buffers of any size: the types, the batch and the ring  *)
(* within their bounds, what a flush leaves, each accepted chunk once, and *)
(* the bytes of the ring in order.                                         *)
(***************************************************************************)
EXTENDS FifoDat, FiniteSetTheorems, FunctionTheorems, SequenceTheorems, TLAPS

Between(t) == pc[t] \in {"close", "flush", "batched"}
(* Inside IOC_flushDAT, and inside IOC_sendDAT. *)
FlushingDAT(s) == Between(s) /\ next[s] = "flushed"
InSend(s) == pc[s] \notin {"idle", "flushed"} /\ ~FlushingDAT(s)
(* The chunk has gone to its thread but IOC_sendDAT does not say so yet; it has its result. *)
HandedOver(s) == pc[s] \in {"after", "hybrid"} \/ (Between(s) /\ next[s] = "hybrid")
Decided(s) == pc[s] \in {"measure", "drain", "leave"}

SendLabels == {"idle", "window", "add", "close", "flush", "batched", "deliver", "direct", "measure", "drain", "choose",
               "locked", "dispatch", "after", "hybrid", "copy", "count", "add up", "signal", "leave", "flushed"}
AsyncLabels == {"idle", "callback", "end", "flush", "batched"}
SectionLabels == {"check", "wait", "read", "count", "take off"}
RecvLabels == {"idle", "asleep", "awake"} \cup SectionLabels

BatchTypes ==
    /\ IsBatchWindowOpen \in BOOLEAN /\ IsInCallback \in BOOLEAN /\ ended \in BOOLEAN
    /\ AccumulatedDataSize \in 0 .. BatchBufferSize
    /\ pBatchBuffer \in [1 .. BatchBufferSize -> 0 .. MaxSends]
    /\ BatchMutex \in Senders \cup {Free} /\ PendingDataCount \in 0 .. MaxPendingChunks
RingTypes ==
    /\ IsPollingMode \in BOOLEAN /\ Mutex \in Receivers \cup {Free}
    /\ pDataBuffer \in [0 .. BufferSize - 1 -> 0 .. MaxSends]
    /\ DataStart \in 0 .. BufferSize - 1 /\ DataEnd \in 0 .. BufferSize - 1 /\ AvailableData \in 0 .. SizeT - 1
CallTypes ==
    /\ setup \in Setups /\ IsSending \in BOOLEAN
    /\ chunk \in [Senders -> 0 .. MaxSends] /\ held \in [Threads -> 0 .. SizeT - 1]
    /\ mode \in [Senders \cup Receivers -> {"blocking", "nonblock", "zero", "infinite", "timed", "none"}]
    /\ sends \in 0 .. MaxSends /\ size \in [Chunks -> 0 .. MaxChunk]
    /\ ret \in [Chunks -> {"none", "SUCCESS", "BUFFER_FULL", "TIMEOUT"}]
    /\ pc \in [Threads -> Labels] /\ next \in [Flushers -> Labels]
HistoryTypes ==
    /\ delivered \in [Chunks -> Nat] /\ stored \in Seq(0 .. MaxSends) /\ received \in Seq(0 .. MaxSends)
    /\ asked \in [Senders -> SUBSET Chunks] /\ torn \in BOOLEAN /\ raced \in BOOLEAN
(* Where a thread can be, where it goes after a flush, and which chunk its call is about. *)
Places ==
    /\ \A s \in Senders : /\ pc[s] \in SendLabels
                          /\ Between(s) => next[s] \in {"deliver", "choose", "hybrid", "flushed"}
                          /\ pc[s] \in {"copy", "count", "add up", "signal"} => setup = "polling"
                          /\ pc[s] \in {"direct", "measure", "drain", "choose", "dispatch", "after", "hybrid"}
                                \/ (Between(s) /\ next[s] \in {"choose", "hybrid"}) => setup = "callback"
    /\ \A n \in Chunks : pc[n] \in AsyncLabels /\ next[n] = "idle"
    /\ \A r \in Receivers : pc[r] \in RecvLabels
ChunkOfCall == \A s \in Senders : IF InSend(s) THEN chunk[s] \in 1 .. sends ELSE chunk[s] = 0
TypeInv == BatchTypes /\ RingTypes /\ CallTypes /\ HistoryTypes /\ Places /\ ChunkOfCall

(* Every chunk has one call; until the call hands it over its thread does nothing, and until it ends *)
(* it has no result.                                                                                 *)
OwnChunks == \A s, u \in Senders : chunk[s] # 0 /\ chunk[s] = chunk[u] => s = u
Undecided == \A s \in Senders : InSend(s) /\ ~Decided(s) =>
                 /\ ret[chunk[s]] = "none"
                 /\ ~HandedOver(s) => pc[chunk[s]] = "idle"
Unsent == \A n \in Chunks : n > sends => ret[n] = "none" /\ pc[n] = "idle"
OwnersInv == OwnChunks /\ Undecided /\ Unsent

(* What a flush leaves: nothing that had been accepted when IOC_flushDAT began. *)
AskedAccepted == \A s \in Senders : asked[s] \subseteq Accepted
FlushedEmpties ==
    \A s \in Senders : pc[s] = "flushed" \/ (pc[s] = "batched" /\ next[s] = "flushed") =>
        \A i \in 1 .. AccumulatedDataSize : pBatchBuffer[i] \notin asked[s]
FlushInv == AskedAccepted /\ FlushedEmpties

(* While no batch was overwritten: one thread at most delivers one, and nothing joins it meanwhile. *)
OneDelivers ==
    ~torn => /\ \A t, u \in Delivering : t = u
             /\ \A t \in Delivering : AccumulatedDataSize = 0 /\ held[t] \in 1 .. BatchBufferSize
InHand(n) == ret[n] = "SUCCESS" \/ \E s \in Senders : chunk[s] = n /\ HandedOver(s)
BytesInv == setup = "callback" /\ ~torn => \A n \in Chunks : BytesInHand(n) = IF InHand(n) THEN size[n] ELSE 0
DeliveryInv == OneDelivers /\ BytesInv

(* The ring, by how many bytes were stored and received: a slot holds the byte whose number it is modulo the size. *)
MutexInv == \A r \in Receivers : pc[r] \in SectionLabels <=> Mutex = r
Positions ==
    /\ Len(received) <= Len(stored) /\ Len(stored) - Len(received) <= BufferSize
    /\ DataStart = Ring(Len(received)) /\ DataEnd = Ring(Len(stored))
Content ==
    /\ \A i \in 1 .. Len(received) : received[i] = stored[i]
    /\ \A i \in Len(received) + 1 .. Len(stored) : stored[i] = pDataBuffer[Ring(i - 1)]
Alone ==
    /\ \A s \in Storing : Reading = {} /\ \A u \in Storing : u = s
Counter ==
    LET waiting == Len(stored) - Len(received) IN
    /\ Storing = {} /\ Reading = {} => AvailableData = waiting
    /\ \A s \in Storing :
          /\ pc[s] = "copy" => AvailableData = waiting /\ held[s] = DataEnd /\ waiting + size[chunk[s]] <= BufferSize
          /\ pc[s] \in {"count", "add up"} => AvailableData + size[chunk[s]] = waiting
          /\ pc[s] = "add up" => held[s] = AvailableData
    /\ \A r \in Reading :
          /\ pc[r] = "read" => AvailableData = waiting /\ held[r] \in 1 .. waiting
          /\ pc[r] = "count" => AvailableData = waiting + held[r]
          /\ pc[r] = "take off" => held[r] = waiting
RingInv == ~raced => Positions /\ Content /\ Alone /\ Counter

-----------------------------------------------------------------------------
LEMMA Sizes ==
    /\ BatchBufferSize \in Nat \ {0} /\ BufferSize \in Nat \ {0} /\ SizeT \in Nat \ {0}
    /\ MaxChunk \in Nat \ {0} /\ MaxSends \in Nat \ {0}
    /\ BufferSize < SizeT /\ BatchBufferSize < SizeT /\ MaxChunk <= BufferSize
<1>1. /\ BatchBufferSize \in Nat \ {0} /\ BufferSize \in Nat \ {0} /\ SizeT \in Nat \ {0}
      /\ MaxChunk \in Nat \ {0} /\ MaxSends \in Nat \ {0}
      /\ MaxSends * MaxChunk + BufferSize < SizeT /\ BatchBufferSize < SizeT /\ MaxChunk <= BufferSize
  BY SizesAssumption
<1>2. MaxSends * MaxChunk \in Nat
  BY <1>1
<1>3. BufferSize < SizeT
  BY <1>1, <1>2
<1> QED
  BY <1>1, <1>3

LEMMA ThreadKinds ==
    /\ \A s \in Senders : s \in Threads /\ s \in Flushers /\ s \notin Chunks /\ s \notin Receivers /\ s # Free
    /\ \A n \in Chunks : n \in Threads /\ n \in Flushers /\ n \notin Senders /\ n \notin Receivers
    /\ \A r \in Receivers : r \in Threads /\ r \notin Senders /\ r \notin Chunks /\ r # Free
  BY ThreadsAssumption DEF Threads, Flushers

(* A number modulo the size of a ring is the remainder of dividing by it, and there is only one. *)
LEMMA RingIs ==
    ASSUME NEW x \in Int
    PROVE  Ring(x) \in 0 .. BufferSize - 1 /\ \E q \in Int : x = BufferSize * q + Ring(x)
<1>1. BufferSize \in Nat \ {0}
  BY Sizes
<1>2. x = BufferSize * (x \div BufferSize) + (x % BufferSize) /\ x % BufferSize \in 0 .. BufferSize - 1
      /\ (x \div BufferSize) \in Int
  BY <1>1
<1> QED
  BY <1>2 DEF Ring

LEMMA RingUnique ==
    ASSUME NEW q \in Int, NEW d \in 0 .. BufferSize - 1, NEW x \in Int, x = BufferSize * q + d
    PROVE  Ring(x) = d
<1>1. BufferSize \in Nat \ {0}
  BY Sizes
<1>2. PICK k \in Int : x = BufferSize * k + Ring(x)
  BY RingIs
<1>3. Ring(x) \in 0 .. BufferSize - 1
  BY RingIs
<1> DEFINE m == k - q
<1>4. m \in Int /\ BufferSize * k = BufferSize * q + BufferSize * m
  BY <1>1, <1>2
<1>5. BufferSize * m + Ring(x) = d
  BY <1>1, <1>2, <1>3, <1>4
<1> HIDE DEF m
<1>6. ASSUME m >= 1 PROVE FALSE
  <2>1. BufferSize * m >= BufferSize /\ BufferSize * m \in Int
    BY <1>1, <1>4, <1>6
  <2>2. Ring(x) >= 0 /\ d < BufferSize /\ Ring(x) \in Int /\ d \in Int
    BY <1>1, <1>3
  <2> QED
    BY <1>1, <1>5, <2>1, <2>2
<1>7. ASSUME m <= -1 PROVE FALSE
  <2>1. BufferSize * m <= -BufferSize /\ BufferSize * m \in Int
    BY <1>1, <1>4, <1>7
  <2>2. Ring(x) < BufferSize /\ d >= 0 /\ Ring(x) \in Int /\ d \in Int
    BY <1>1, <1>3
  <2> QED
    BY <1>1, <1>5, <2>1, <2>2
<1>8. m = 0
  BY <1>4, <1>6, <1>7
<1>9. BufferSize * m = 0
  BY <1>1, <1>8
<1> QED
  BY <1>3, <1>5, <1>9

LEMMA RingPlus ==
    ASSUME NEW a \in Int, NEW k \in Int
    PROVE  Ring(Ring(a) + k) = Ring(a + k)
<1>1. BufferSize \in Nat \ {0}
  BY Sizes
<1>2. PICK q \in Int : a = BufferSize * q + Ring(a)
  BY RingIs
<1>3. Ring(a) \in Int /\ Ring(a + k) \in 0 .. BufferSize - 1
  BY RingIs, <1>1
<1>4. PICK r \in Int : a + k = BufferSize * r + Ring(a + k)
  BY RingIs
<1>5. BufferSize * (r - q) = BufferSize * r - BufferSize * q
  BY <1>1
<1>6. Ring(a) + k = BufferSize * (r - q) + Ring(a + k) /\ r - q \in Int
  BY <1>1, <1>2, <1>3, <1>4, <1>5
<1> QED
  BY <1>3, <1>6, RingUnique

LEMMA RingDiffers ==
    ASSUME NEW a \in Int, NEW b \in Int, a < b, b < a + BufferSize
    PROVE  Ring(a) # Ring(b)
<1>1. BufferSize \in Nat \ {0}
  BY Sizes
<1>2. SUFFICES ASSUME Ring(a) = Ring(b) PROVE FALSE
  OBVIOUS
<1>3. PICK q \in Int : a = BufferSize * q + Ring(a)
  BY RingIs
<1>4. b = BufferSize * q + (b - a + Ring(a)) /\ Ring(a) \in 0 .. BufferSize - 1
  <2>1. Ring(a) \in 0 .. BufferSize - 1
    BY RingIs
  <2>2. BufferSize * q \in Int /\ Ring(a) \in Int
    BY <1>1, <2>1
  <2> QED
    BY <1>3, <2>1, <2>2
<1>5. CASE b - a + Ring(a) \in 0 .. BufferSize - 1
  <2>1. Ring(b) = b - a + Ring(a)
    BY <1>4, <1>5, RingUnique
  <2> QED
    BY <1>2, <1>4, <2>1
<1>6. CASE b - a + Ring(a) \notin 0 .. BufferSize - 1
  <2>1. b - a + Ring(a) - BufferSize \in 0 .. BufferSize - 1
    BY <1>1, <1>4, <1>6
  <2>2. BufferSize * (q + 1) = BufferSize * q + BufferSize
    BY <1>1
  <2>3. b = BufferSize * (q + 1) + (b - a + Ring(a) - BufferSize) /\ q + 1 \in Int
    BY <1>1, <1>4, <2>2
  <2>4. Ring(b) = b - a + Ring(a) - BufferSize
    BY <2>1, <2>3, RingUnique
  <2> QED
    BY <1>1, <1>2, <1>4, <2>4
<1> QED
  BY <1>5, <1>6

(* What a store of bytes at the end of the stream leaves in the slot of position i. *)
LEMMA RingWithAt ==
    ASSUME NEW b \in Nat, NEW bytes \in Seq(0 .. MaxSends), NEW i \in Int, Len(bytes) <= BufferSize,
           b + Len(bytes) - BufferSize <= i, i < b + Len(bytes)
    PROVE  RingWith(Ring(b), bytes)[Ring(i)] = IF i >= b THEN bytes[i - b + 1] ELSE pDataBuffer[Ring(i)]
<1>1. BufferSize \in Nat \ {0} /\ Len(bytes) \in Nat
  BY Sizes, LenProperties
<1>2. Ring(i) \in 0 .. BufferSize - 1 /\ Ring(b) \in 0 .. BufferSize - 1
  BY RingIs
<1>3. RingWith(Ring(b), bytes)[Ring(i)] = IF Ring(Ring(i) - Ring(b)) < Len(bytes)
                                          THEN bytes[Ring(Ring(i) - Ring(b)) + 1] ELSE pDataBuffer[Ring(i)]
  BY <1>2 DEF RingWith
<1> DEFINE d == i - b
<1>4. d \in Int /\ b + d = i
  OBVIOUS
<1> HIDE DEF d
<1>5. Ring(Ring(i) - Ring(b)) = Ring(d)
  <2>1. Ring(i) = Ring(Ring(b) + d)
    <3>1. b \in Int
      OBVIOUS
    <3>2. Ring(Ring(b) + d) = Ring(b + d)
      BY <1>4, <3>1, RingPlus
    <3> QED
      BY <1>4, <3>2
  <2> DEFINE e == -Ring(b)
             f == Ring(b) + d
  <2>2. e \in Int /\ f \in Int /\ f + e = d /\ Ring(i) - Ring(b) = Ring(i) + e
    BY <1>2, <1>4
  <2> HIDE DEF e
  <2>3. f \in Int /\ Ring(i) = Ring(f)
    BY <2>1, <2>2
  <2> HIDE DEF f
  <2>4. Ring(Ring(f) + e) = Ring(f + e)
    BY <2>2, <2>3, RingPlus
  <2> QED
    BY <2>2, <2>3, <2>4
<1>6. CASE i >= b
  <2>1. d \in 0 .. BufferSize - 1 /\ d = BufferSize * 0 + d /\ i - b = d
    BY <1>1, <1>4, <1>6
  <2>2. Ring(d) = d
    BY <1>4, <2>1, RingUnique
  <2> QED
    BY <1>1, <1>3, <1>4, <1>5, <1>6, <2>1, <2>2
<1>7. CASE i < b
  <2>1. d + BufferSize \in 0 .. BufferSize - 1 /\ d = BufferSize * (-1) + (d + BufferSize) /\ -1 \in Int
    BY <1>1, <1>4, <1>7
  <2>2. Ring(d) = d + BufferSize
    BY <1>4, <2>1, RingUnique
  <2>3. ~(Ring(d) < Len(bytes))
    BY <1>1, <1>4, <2>2
  <2> QED
    BY <1>3, <1>5, <1>7, <2>3
<1> QED
  BY <1>1, <1>6, <1>7

-----------------------------------------------------------------------------
(* A sender goes from one place to another, within its call or within the flush. *)
Inside(l, k) == l \notin {"idle", "flushed"} /\ ~(l \in {"close", "flush", "batched"} /\ k = "flushed")
Moves(s, l, k) ==
    /\ pc' = [pc EXCEPT ![s] = l] /\ next' = [next EXCEPT ![s] = k] /\ UNCHANGED <<setup, chunk, sends>>
    /\ l \in SendLabels
    /\ l \in {"close", "flush", "batched"} => k \in {"deliver", "choose", "hybrid", "flushed"}
    /\ l \in {"copy", "count", "add up", "signal"} => setup = "polling"
    /\ l \in {"direct", "measure", "drain", "choose", "dispatch", "after", "hybrid"}
          \/ (l \in {"close", "flush", "batched"} /\ k \in {"choose", "hybrid"}) => setup = "callback"
    /\ k \in Labels
    /\ InSend(s) <=> Inside(l, k)

LEMMA LabelSets == SendLabels \subseteq Labels /\ AsyncLabels \subseteq Labels /\ RecvLabels \subseteq Labels
  BY DEF SendLabels, AsyncLabels, RecvLabels, SectionLabels, Labels

LEMMA MovesKeep ==
    ASSUME TypeInv, NEW s \in Senders, NEW l, NEW k, Moves(s, l, k)
    PROVE  pc' \in [Threads -> Labels] /\ next' \in [Flushers -> Labels] /\ Places' /\ ChunkOfCall'
<1>1. pc \in [Threads -> Labels] /\ next \in [Flushers -> Labels] /\ pc' \in [Threads -> Labels] /\ next' \in [Flushers -> Labels]
  BY LabelSets DEF TypeInv, CallTypes, Moves
<1>2. pc'[s] = l /\ next'[s] = k
  BY <1>1, ThreadKinds DEF Moves
<1>3. /\ \A u \in Senders \ {s} : pc'[u] = pc[u] /\ next'[u] = next[u]
      /\ \A n \in Chunks : pc'[n] = pc[n] /\ next'[n] = next[n]
      /\ \A r \in Receivers : pc'[r] = pc[r]
  BY <1>1, ThreadKinds DEF Moves
<1>4. UNCHANGED <<setup, chunk, sends>>
  BY DEF Moves
<1>5. Places'
  <2>1. ASSUME NEW u \in Senders \ {s}
        PROVE  /\ pc'[u] \in SendLabels
               /\ Between(u)' => next'[u] \in {"deliver", "choose", "hybrid", "flushed"}
               /\ pc'[u] \in {"copy", "count", "add up", "signal"} => setup' = "polling"
               /\ pc'[u] \in {"direct", "measure", "drain", "choose", "dispatch", "after", "hybrid"}
                     \/ (Between(u)' /\ next'[u] \in {"choose", "hybrid"}) => setup' = "callback"
    BY <1>3, <1>4 DEF TypeInv, Places, Between
  <2>2. /\ pc'[s] \in SendLabels
        /\ Between(s)' => next'[s] \in {"deliver", "choose", "hybrid", "flushed"}
        /\ pc'[s] \in {"copy", "count", "add up", "signal"} => setup' = "polling"
        /\ pc'[s] \in {"direct", "measure", "drain", "choose", "dispatch", "after", "hybrid"}
              \/ (Between(s)' /\ next'[s] \in {"choose", "hybrid"}) => setup' = "callback"
    BY <1>2, <1>4 DEF Moves, Between
  <2>3. /\ \A n \in Chunks : pc'[n] \in AsyncLabels /\ next'[n] = "idle"
        /\ \A r \in Receivers : pc'[r] \in RecvLabels
    BY <1>3 DEF TypeInv, Places
  <2> QED
    BY <2>1, <2>2, <2>3 DEF Places
<1>6. ChunkOfCall'
  <2>1. ASSUME NEW u \in Senders PROVE InSend(u)' <=> InSend(u)
    <3>1. CASE u = s
      BY <1>2, <3>1 DEF Moves, Inside, InSend, FlushingDAT, Between
    <3>2. CASE u # s
      BY <1>3, <3>2 DEF InSend, FlushingDAT, Between
    <3> QED
      BY <3>1, <3>2
  <2> QED
    BY <1>4, <2>1 DEF TypeInv, ChunkOfCall
<1> QED
  BY <1>1, <1>5, <1>6

(* The steps of a sender that move nobody else and do not begin or end its call. *)
LEMMA SendMoves ==
    ASSUME TypeInv, NEW s \in Senders,
           \/ SendStep(s) /\ ~sendLeave(s) /\ ~dispatchCallback(s) /\ ~storeHybrid(s) /\ ~storeSignal(s)
           \/ flushDAT(s) \/ FlushStep(s)
    PROVE  \E l, k : Moves(s, l, k)
<1>1. /\ next \in [Flushers -> Labels] /\ s \in Flushers /\ next = [next EXCEPT ![s] = next[s]] /\ next[s] \in Labels
      /\ Between(s) => next[s] \in {"deliver", "choose", "hybrid", "flushed"}
      /\ (Between(s) /\ next[s] \in {"choose", "hybrid"}) => setup = "callback"
      /\ \A l : [next EXCEPT ![s] = l] = [next EXCEPT ![s] = l]
  BY ThreadKinds DEF TypeInv, CallTypes, Places
<1> USE DEF Goto, Return, Inside, InSend, FlushingDAT, Between, SendLabels, Labels, callVars, history, batchVars, ringVars
<1>2. CASE checkWindow(s)
  <2>1. Moves(s, "close", "deliver") \/ Moves(s, "add", next[s]) \/ Moves(s, "deliver", next[s])
    BY <1>1, <1>2 DEF Moves, checkWindow
  <2> QED
    BY <2>1
<1>3. CASE addDataToBatch(s)
  <2>1. Moves(s, "leave", next[s])
    BY <1>1, <1>3 DEF Moves, addDataToBatch
  <2> QED
    BY <2>1
<1>4. CASE batchRefuses(s)
  <2>1. Moves(s, "close", "deliver") \/ Moves(s, "deliver", next[s])
    BY <1>1, <1>4 DEF Moves, batchRefuses, AfterRefusal
  <2> QED
    BY <2>1
<1>5. CASE closeBatchWindow(s)
  <2>1. Moves(s, "flush", next[s])
    BY <1>1, <1>5 DEF Moves, closeBatchWindow
  <2> QED
    BY <2>1
<1>6. CASE flushCallbackBatch(s)
  <2>1. Moves(s, next[s], "idle") \/ Moves(s, "batched", next[s])
    BY <1>1, <1>6 DEF Moves, flushCallbackBatch, GoOn
  <2> QED
    BY <2>1
<1>7. CASE batchCallback(s)
  <2>1. Moves(s, next[s], "idle")
    BY <1>1, <1>7 DEF Moves, batchCallback, GoOn
  <2> QED
    BY <2>1
<1>8. CASE refuseChunk(s) \/ acceptChunk(s)
  <2>1. Moves(s, "leave", next[s]) \/ Moves(s, "direct", next[s]) \/ Moves(s, "drain", next[s])
    BY <1>1, <1>8 DEF Moves, refuseChunk, acceptChunk, Pressing
  <2> QED
    BY <2>1
<1>9. CASE directCallback(s) \/ measureCallback(s) \/ drain(s)
  <2>1. setup = "callback"
    BY <1>9 DEF directCallback, measureCallback, drain, TypeInv, Places
  <2>2. Moves(s, "measure", next[s]) \/ Moves(s, "drain", next[s]) \/ Moves(s, "leave", next[s])
    BY <1>1, <1>9, <2>1 DEF Moves, directCallback, measureCallback, drain
  <2> QED
    BY <2>2
<1>10. CASE expireWindow(s)
  <2>1. Moves(s, "flush", "choose")
    BY <1>1, <1>10 DEF Moves, expireWindow
  <2> QED
    BY <2>1
<1>11. CASE lockTwice(s) \/ startCallback(s)
  <2>1. setup = "callback"
    BY <1>11 DEF lockTwice, startCallback, Choosing, TypeInv, Places
  <2>2. Moves(s, "locked", next[s]) \/ Moves(s, "dispatch", next[s])
    BY <1>1, <1>11, <2>1 DEF Moves, lockTwice, startCallback, Choosing
  <2> QED
    BY <2>2
<1>12. CASE afterCallback(s)
  <2>1. setup = "callback"
    BY <1>12 DEF afterCallback, TypeInv, Places
  <2>2. Moves(s, "flush", "hybrid") \/ Moves(s, "hybrid", next[s])
    BY <1>1, <1>12, <2>1 DEF Moves, afterCallback
  <2> QED
    BY <2>2
<1>13. CASE ringFull(s) \/ storeBegin(s)
  <2>1. Moves(s, "leave", next[s]) \/ Moves(s, "copy", next[s])
    BY <1>1, <1>13 DEF Moves, ringFull, storeBegin
  <2> QED
    BY <2>1
<1>14. CASE storeCopy(s) \/ storeCount(s) \/ storeAdd(s)
  <2>1. setup = "polling"
    BY <1>14 DEF storeCopy, storeCount, storeAdd, TypeInv, Places
  <2>2. Moves(s, "count", next[s]) \/ Moves(s, "add up", next[s]) \/ Moves(s, "signal", next[s])
    BY <1>1, <1>14, <2>1 DEF Moves, storeCopy, storeCount, storeAdd
  <2> QED
    BY <2>2
<1>15. CASE flushDAT(s)
  <2>1. Moves(s, "close", "flushed") \/ Moves(s, "flushed", next[s])
    BY <1>1, <1>15 DEF Moves, flushDAT
  <2> QED
    BY <2>1
<1>16. CASE flushLeave(s)
  <2>1. Moves(s, "idle", next[s])
    BY <1>1, <1>16 DEF Moves, flushLeave
  <2> QED
    BY <2>1
<1> QED
  BY <1>2, <1>3, <1>4, <1>5, <1>6, <1>7, <1>8, <1>9, <1>10, <1>11, <1>12, <1>13, <1>14, <1>15, <1>16
  DEF SendStep, FlushStep

(* The steps of everybody else: no sender moves. *)
LEMMA OthersKeep ==
    ASSUME TypeInv, UNCHANGED <<setup, chunk, sends>>, pc' \in [Threads -> Labels], next' \in [Flushers -> Labels],
           \A u \in Senders : pc'[u] = pc[u] /\ next'[u] = next[u],
           \A n \in Chunks : pc'[n] \in AsyncLabels /\ next'[n] = "idle",
           \A r \in Receivers : pc'[r] \in RecvLabels
    PROVE  Places' /\ ChunkOfCall'
<1>1. \A u \in Senders : (Between(u)' <=> Between(u)) /\ (InSend(u)' <=> InSend(u))
  BY DEF Between, InSend, FlushingDAT
<1>2. ChunkOfCall'
  BY <1>1 DEF TypeInv, ChunkOfCall
<1>3. Places'
  BY <1>1 DEF TypeInv, Places
<1> QED
  BY <1>2, <1>3

LEMMA ChunkThreadMoves ==
    ASSUME TypeInv, NEW n \in Chunks, FlushStep(n) \/ AsyncStep(n)
    PROVE  pc' \in [Threads -> Labels] /\ next' \in [Flushers -> Labels] /\ Places' /\ ChunkOfCall'
<1>1. pc \in [Threads -> Labels] /\ next \in [Flushers -> Labels] /\ next[n] = "idle" /\ n \in Flushers /\ n \in Threads
  BY ThreadKinds DEF TypeInv, CallTypes, Places
<1>2. UNCHANGED <<setup, chunk, sends>> /\ next' = next
  BY <1>1 DEF FlushStep, AsyncStep, flushCallbackBatch, batchCallback, asyncCallback, asyncEnd, GoOn, callVars
<1>3. PICK l \in AsyncLabels : pc' = [pc EXCEPT ![n] = l]
  BY <1>1 DEF FlushStep, AsyncStep, flushCallbackBatch, batchCallback, asyncCallback, asyncEnd, GoOn, Goto, AsyncLabels
<1>4. pc' \in [Threads -> Labels] /\ next' \in [Flushers -> Labels]
  BY <1>1, <1>2, <1>3, LabelSets
<1>5. /\ \A u \in Senders : pc'[u] = pc[u] /\ next'[u] = next[u]
      /\ \A m \in Chunks : pc'[m] \in AsyncLabels /\ next'[m] = "idle"
      /\ \A r \in Receivers : pc'[r] \in RecvLabels
  BY <1>1, <1>2, <1>3, ThreadKinds DEF TypeInv, Places
<1> QED
  BY <1>2, <1>4, <1>5, OthersKeep

ReceiverStep(r) == recvDAT(r) \/ recvWake(r) \/ RecvStep(r)

LEMMA ReceiverMoves ==
    ASSUME TypeInv, NEW r \in Receivers, ReceiverStep(r)
    PROVE  /\ pc' \in [Threads -> Labels] /\ next' \in [Flushers -> Labels] /\ Places' /\ ChunkOfCall'
           /\ \E l \in RecvLabels : pc' = [pc EXCEPT ![r] = l]
<1>1. pc \in [Threads -> Labels] /\ next \in [Flushers -> Labels] /\ r \in Threads
  BY ThreadKinds DEF TypeInv, CallTypes
<1>2. UNCHANGED <<setup, chunk, sends>> /\ next' = next
  BY DEF ReceiverStep, recvDAT, RecvStep, recvWait, recvSleep, recvWake, recvTimeout, recvBegin, recvRead, recvCount,
         recvTakeOff, callVars
<1>3. PICK l \in RecvLabels : pc' = [pc EXCEPT ![r] = l]
  BY DEF ReceiverStep, recvDAT, RecvStep, recvWait, recvSleep, recvWake, recvTimeout, recvBegin, recvRead, recvCount,
         recvTakeOff, Goto, RecvLabels, SectionLabels
<1>4. pc' \in [Threads -> Labels] /\ next' \in [Flushers -> Labels]
  BY <1>1, <1>2, <1>3, LabelSets
<1>5. /\ \A u \in Senders : pc'[u] = pc[u] /\ next'[u] = next[u]
      /\ \A m \in Chunks : pc'[m] \in AsyncLabels /\ next'[m] = "idle"
      /\ \A q \in Receivers : pc'[q] \in RecvLabels
  BY <1>1, <1>2, <1>3, ThreadKinds DEF TypeInv, Places
<1> QED
  BY <1>2, <1>3, <1>4, <1>5, OthersKeep

(* The steps that signal: the sender leaves, and one of the receivers that sleep may wake up. *)
LEMMA SignalMoves ==
    ASSUME TypeInv, NEW s \in Senders, storeHybrid(s) \/ storeSignal(s)
    PROVE  /\ pc' \in [Threads -> Labels] /\ next' \in [Flushers -> Labels] /\ Places' /\ ChunkOfCall'
           /\ pc'[s] = "leave" /\ \A t \in Flushers \ {s} : pc'[t] = pc[t]
           /\ \A r \in Receivers : pc'[r] = pc[r] \/ (pc[r] = "asleep" /\ pc'[r] = "awake")
<1>1. pc \in [Threads -> Labels] /\ next \in [Flushers -> Labels] /\ s \in Threads
  BY ThreadKinds DEF TypeInv, CallTypes
<1>2. UNCHANGED <<setup, chunk, sends>> /\ next' = next
  BY DEF storeHybrid, storeSignal, callVars
<1>3. InSend(s)
  BY DEF InSend, FlushingDAT, Between, storeHybrid, storeSignal
<1>4. \/ pc' = [pc EXCEPT ![s] = "leave"]
      \/ \E r \in Receivers : pc[r] = "asleep" /\ pc' = [[pc EXCEPT ![s] = "leave"] EXCEPT ![r] = "awake"]
  BY DEF storeHybrid, storeSignal, Signal, Goto
<1>5. "leave" \in Labels /\ "awake" \in Labels /\ "leave" \in SendLabels /\ "awake" \in RecvLabels
  BY DEF Labels, SendLabels, RecvLabels
<1>6. pc' \in [Threads -> Labels] /\ next' \in [Flushers -> Labels]
  BY <1>1, <1>2, <1>4, <1>5
<1>7. /\ pc'[s] = "leave"
      /\ \A t \in Flushers \ {s} : pc'[t] = pc[t]
      /\ \A r \in Receivers : pc'[r] = pc[r] \/ (pc[r] = "asleep" /\ pc'[r] = "awake")
  <2>1. CASE pc' = [pc EXCEPT ![s] = "leave"]
    BY <1>1, <2>1, ThreadKinds DEF Threads
  <2>2. ASSUME NEW r \in Receivers, pc[r] = "asleep", pc' = [[pc EXCEPT ![s] = "leave"] EXCEPT ![r] = "awake"]
        PROVE  /\ pc'[s] = "leave"
               /\ \A t \in Flushers \ {s} : pc'[t] = pc[t]
               /\ \A q \in Receivers : pc'[q] = pc[q] \/ (pc[q] = "asleep" /\ pc'[q] = "awake")
    <3>1. r \notin Flushers /\ r # s
      BY ThreadKinds DEF Flushers
    <3> QED
      BY <1>1, <2>2, <3>1, ThreadKinds DEF Threads
  <2> QED
    BY <1>4, <2>1, <2>2
<1>8. \A u \in Senders \ {s} : pc'[u] = pc[u] /\ (InSend(u)' <=> InSend(u)) /\ (Between(u)' <=> Between(u))
  BY <1>2, <1>7 DEF InSend, FlushingDAT, Between, Flushers
<1>9. InSend(s)' /\ ~Between(s)'
  BY <1>7 DEF InSend, FlushingDAT, Between
<1>10. ChunkOfCall'
  BY <1>2, <1>3, <1>8, <1>9 DEF TypeInv, ChunkOfCall
<1>11. \A u \in Senders : /\ pc'[u] \in SendLabels
                          /\ Between(u)' => next'[u] \in {"deliver", "choose", "hybrid", "flushed"}
                          /\ pc'[u] \in {"copy", "count", "add up", "signal"} => setup' = "polling"
                          /\ pc'[u] \in {"direct", "measure", "drain", "choose", "dispatch", "after", "hybrid"}
                                \/ (Between(u)' /\ next'[u] \in {"choose", "hybrid"}) => setup' = "callback"
  BY <1>2, <1>5, <1>7, <1>8, <1>9 DEF TypeInv, Places
<1>12. \A n \in Chunks : pc'[n] \in AsyncLabels /\ next'[n] = "idle"
  BY <1>2, <1>7, ThreadKinds DEF TypeInv, Places
<1>13. \A r \in Receivers : pc'[r] \in RecvLabels
  BY <1>5, <1>7 DEF TypeInv, Places
<1> QED
  BY <1>6, <1>7, <1>10, <1>11, <1>12, <1>13 DEF Places

LEMMA DispatchMoves ==
    ASSUME TypeInv, NEW s \in Senders, dispatchCallback(s)
    PROVE  /\ pc' \in [Threads -> Labels] /\ next' = next /\ Places' /\ ChunkOfCall'
           /\ chunk[s] \in 1 .. sends /\ pc'[s] = "after" /\ pc'[chunk[s]] = "callback"
           /\ \A t \in Threads : t # s /\ t # chunk[s] => pc'[t] = pc[t]
<1>1. pc \in [Threads -> Labels] /\ s \in Threads /\ chunk[s] \in 1 .. sends /\ sends \in 0 .. MaxSends
  BY ThreadKinds DEF TypeInv, CallTypes, ChunkOfCall, InSend, FlushingDAT, Between, dispatchCallback
<1>2. chunk[s] \in Chunks /\ chunk[s] \in Threads /\ chunk[s] # s
  BY <1>1, Sizes, ThreadKinds DEF Chunks
<1>3. UNCHANGED <<setup, chunk, sends, next>> /\ pc' = [pc EXCEPT ![s] = "after", ![chunk[s]] = "callback"]
  BY DEF dispatchCallback, callVars
<1>4. pc' \in [Threads -> Labels] /\ pc'[s] = "after" /\ pc'[chunk[s]] = "callback"
      /\ \A t \in Threads : t # s /\ t # chunk[s] => pc'[t] = pc[t]
  BY <1>1, <1>2, <1>3 DEF Labels
<1>5. \A u \in Senders \ {s} : pc'[u] = pc[u] /\ (InSend(u)' <=> InSend(u)) /\ (Between(u)' <=> Between(u))
  BY <1>2, <1>3, <1>4, ThreadKinds DEF InSend, FlushingDAT, Between
<1>6. InSend(s) /\ InSend(s)' /\ ~Between(s)' /\ setup = "callback"
  BY <1>4 DEF InSend, FlushingDAT, Between, dispatchCallback, TypeInv, Places
<1>7. ChunkOfCall'
  BY <1>3, <1>5, <1>6 DEF TypeInv, ChunkOfCall
<1>8. \A u \in Senders : /\ pc'[u] \in SendLabels
                         /\ Between(u)' => next'[u] \in {"deliver", "choose", "hybrid", "flushed"}
                         /\ pc'[u] \in {"copy", "count", "add up", "signal"} => setup' = "polling"
                         /\ pc'[u] \in {"direct", "measure", "drain", "choose", "dispatch", "after", "hybrid"}
                               \/ (Between(u)' /\ next'[u] \in {"choose", "hybrid"}) => setup' = "callback"
  BY <1>3, <1>4, <1>5, <1>6 DEF TypeInv, Places, SendLabels
<1>9. /\ \A n \in Chunks : pc'[n] \in AsyncLabels /\ next'[n] = "idle"
      /\ \A r \in Receivers : pc'[r] \in RecvLabels
  <2>1. /\ \A n \in Chunks : pc[n] \in AsyncLabels /\ next[n] = "idle"
        /\ \A r \in Receivers : pc[r] \in RecvLabels
    BY DEF TypeInv, Places
  <2>2. \A n \in Chunks : n \in Threads /\ n # s
    BY ThreadKinds
  <2>3. \A r \in Receivers : r \in Threads /\ r # s /\ r # chunk[s]
    BY <1>2, ThreadKinds
  <2>4. "callback" \in AsyncLabels
    BY DEF AsyncLabels
  <2> QED
    BY <1>3, <1>4, <2>1, <2>2, <2>3, <2>4
<1> QED
  BY <1>1, <1>3, <1>4, <1>7, <1>8, <1>9 DEF Places

(* The beginning and the end of IOC_sendDAT. *)
LEMMA CallMoves ==
    ASSUME TypeInv, NEW s \in Senders, sendDAT(s) \/ sendLeave(s)
    PROVE  pc' \in [Threads -> Labels] /\ next' = next /\ Places' /\ ChunkOfCall'
<1>1. pc \in [Threads -> Labels] /\ s \in Threads /\ chunk \in [Senders -> 0 .. MaxSends] /\ sends \in 0 .. MaxSends
  BY ThreadKinds DEF TypeInv, CallTypes
<1>2. UNCHANGED <<setup, next>> /\ sends' \in Nat /\ sends' >= sends
  BY <1>1, Sizes DEF sendDAT, sendLeave
<1>3. /\ \/ pc' = [pc EXCEPT ![s] = "window"] /\ chunk'[s] \in 1 .. sends'
         \/ pc' = [pc EXCEPT ![s] = "idle"] /\ chunk'[s] = 0
      /\ \A u \in Senders \ {s} : chunk'[u] = chunk[u]
  BY <1>1, Sizes DEF sendDAT, sendLeave, Goto
<1>4. pc' \in [Threads -> Labels]
  BY <1>1, <1>3 DEF Labels
<1>5. \A t \in Threads : t # s => pc'[t] = pc[t]
  BY <1>1, <1>3
<1>6. \A u \in Senders \ {s} : pc'[u] = pc[u] /\ (InSend(u)' <=> InSend(u)) /\ (Between(u)' <=> Between(u))
  BY <1>2, <1>5, ThreadKinds DEF InSend, FlushingDAT, Between
<1>7. /\ pc'[s] \in {"window", "idle"} /\ ~Between(s)'
      /\ IF InSend(s)' THEN chunk'[s] \in 1 .. sends' ELSE chunk'[s] = 0
  BY <1>1, <1>3 DEF InSend, FlushingDAT, Between
<1>8. ChunkOfCall'
  <2>1. ASSUME NEW u \in Senders \ {s} PROVE IF InSend(u)' THEN chunk'[u] \in 1 .. sends' ELSE chunk'[u] = 0
    <3>1. chunk'[u] = chunk[u] /\ (InSend(u)' <=> InSend(u))
      BY <1>3, <1>6
    <3>2. IF InSend(u) THEN chunk[u] \in 1 .. sends ELSE chunk[u] = 0
      BY DEF TypeInv, ChunkOfCall
    <3> QED
      BY <1>1, <1>2, <3>1, <3>2
  <2> QED
    BY <1>7, <2>1 DEF ChunkOfCall
<1>9. \A u \in Senders : /\ pc'[u] \in SendLabels
                         /\ Between(u)' => next'[u] \in {"deliver", "choose", "hybrid", "flushed"}
                         /\ pc'[u] \in {"copy", "count", "add up", "signal"} => setup' = "polling"
                         /\ pc'[u] \in {"direct", "measure", "drain", "choose", "dispatch", "after", "hybrid"}
                               \/ (Between(u)' /\ next'[u] \in {"choose", "hybrid"}) => setup' = "callback"
  BY <1>2, <1>6, <1>7 DEF TypeInv, Places, SendLabels
<1>10. /\ \A n \in Chunks : pc'[n] \in AsyncLabels /\ next'[n] = "idle"
       /\ \A r \in Receivers : pc'[r] \in RecvLabels
  BY <1>2, <1>5, ThreadKinds DEF TypeInv, Places
<1> QED
  BY <1>2, <1>4, <1>8, <1>9, <1>10 DEF Places

LEMMA NextPlaces ==
    ASSUME TypeInv, [Next]_vars
    PROVE  pc' \in [Threads -> Labels] /\ next' \in [Flushers -> Labels] /\ Places' /\ ChunkOfCall'
<1>1. CASE UNCHANGED vars
  <2>1. UNCHANGED <<setup, chunk, sends, pc, next>>
    BY <1>1 DEF vars, callVars
  <2>2. pc' \in [Threads -> Labels] /\ next' \in [Flushers -> Labels]
    BY <2>1 DEF TypeInv, CallTypes
  <2>3. \A u \in Senders : (Between(u)' <=> Between(u)) /\ (InSend(u)' <=> InSend(u))
    BY <2>1 DEF InSend, FlushingDAT, Between
  <2>4. Places' /\ ChunkOfCall'
    BY <2>1, <2>2, OthersKeep DEF TypeInv, Places
  <2> QED
    BY <2>2, <2>4
<1>2. ASSUME NEW s \in Senders, sendDAT(s) \/ flushDAT(s) \/ SendStep(s) \/ FlushStep(s)
      PROVE  pc' \in [Threads -> Labels] /\ next' \in [Flushers -> Labels] /\ Places' /\ ChunkOfCall'
  <2>1. CASE sendDAT(s) \/ sendLeave(s)
    BY <2>1, CallMoves DEF TypeInv, CallTypes
  <2>2. CASE dispatchCallback(s)
    BY <2>2, DispatchMoves DEF TypeInv, CallTypes
  <2>3. CASE storeHybrid(s) \/ storeSignal(s)
    BY <2>3, SignalMoves
  <2>4. CASE ~sendDAT(s) /\ ~sendLeave(s) /\ ~dispatchCallback(s) /\ ~storeHybrid(s) /\ ~storeSignal(s)
    <3>1. PICK l, k : Moves(s, l, k)
      BY <1>2, <2>4, SendMoves
    <3> QED
      BY <3>1, MovesKeep
  <2> QED
    BY <2>1, <2>2, <2>3, <2>4
<1>3. ASSUME NEW n \in Chunks, FlushStep(n) \/ AsyncStep(n)
      PROVE  pc' \in [Threads -> Labels] /\ next' \in [Flushers -> Labels] /\ Places' /\ ChunkOfCall'
  BY <1>3, ChunkThreadMoves
<1>4. ASSUME NEW r \in Receivers, ReceiverStep(r)
      PROVE  pc' \in [Threads -> Labels] /\ next' \in [Flushers -> Labels] /\ Places' /\ ChunkOfCall'
  BY <1>4, ReceiverMoves
<1> QED
  BY <1>1, <1>2, <1>3, <1>4 DEF Next, Flushers, ReceiverStep

-----------------------------------------------------------------------------
LEMMA CallIs ==
    ASSUME TypeInv, NEW s \in Senders, InSend(s)
    PROVE  chunk[s] \in Chunks /\ chunk[s] \in 1 .. sends /\ chunk[s] \in 0 .. MaxSends /\ size[chunk[s]] \in 0 .. MaxChunk
<1>1. chunk[s] \in 1 .. sends /\ sends \in 0 .. MaxSends /\ size \in [Chunks -> 0 .. MaxChunk]
  BY DEF TypeInv, ChunkOfCall, CallTypes
<1>2. chunk[s] \in Chunks
  BY <1>1, Sizes DEF Chunks
<1> QED
  BY <1>1, <1>2, Sizes

LEMMA SeqOf ==
    ASSUME NEW S, NEW k \in Nat, NEW f \in [1 .. k -> S]
    PROVE  f \in Seq(S) /\ Len(f) = k
<1>1. f \in Seq(S)
  BY SeqDef
<1>2. Len(f) \in Nat /\ 1 .. k = 1 .. Len(f)
  BY <1>1, LenProperties
<1>3. Len(f) = k
  <2>1. k <= Len(f)
    BY <1>2
  <2>2. Len(f) <= k
    BY <1>2
  <2> QED
    BY <1>2, <2>1, <2>2
<1> QED
  BY <1>1, <1>3

LEMMA BytesAre ==
    ASSUME NEW n \in 0 .. MaxSends, size[n] \in Nat
    PROVE  Bytes(n) \in Seq(0 .. MaxSends) /\ Len(Bytes(n)) = size[n] /\ \A i \in 1 .. size[n] : Bytes(n)[i] = n
<1>1. Bytes(n) \in [1 .. size[n] -> 0 .. MaxSends]
  BY DEF Bytes
<1>2. Bytes(n) \in Seq(0 .. MaxSends) /\ Len(Bytes(n)) = size[n]
  BY <1>1, SeqOf
<1> QED
  BY <1>2 DEF Bytes

LEMMA NextBatchTypes ==
    ASSUME TypeInv, [Next]_vars
    PROVE  BatchTypes'
<1>1. BatchTypes
  BY DEF TypeInv
<1> USE DEF BatchTypes, MaxPendingChunks
<1>2. CASE UNCHANGED vars
  BY <1>1, <1>2 DEF vars, batchVars
<1>3. ASSUME NEW s \in Senders, sendDAT(s) \/ flushDAT(s)
      PROVE  BatchTypes'
  BY <1>1, <1>3 DEF sendDAT, flushDAT, batchVars
<1>4. ASSUME NEW s \in Senders, SendStep(s)
      PROVE  BatchTypes'
  <2>1. CASE addDataToBatch(s)
    <3>1. InSend(s)
      BY <2>1 DEF addDataToBatch, InSend, FlushingDAT, Between
    <3>2. chunk[s] \in 0 .. MaxSends /\ size[chunk[s]] \in 0 .. MaxChunk
      BY <3>1, CallIs
    <3>3. size[chunk[s]] \in Nat
      BY <3>2, Sizes
    <3>4. Len(Bytes(chunk[s])) = size[chunk[s]] /\ \A i \in 1 .. size[chunk[s]] : Bytes(chunk[s])[i] = chunk[s]
      BY <3>2, <3>3, BytesAre
    <3>5. AddedBatch(Bytes(chunk[s])) \in [1 .. BatchBufferSize -> 0 .. MaxSends]
      <4>1. ASSUME NEW i \in 1 .. BatchBufferSize
            PROVE  (IF i > AccumulatedDataSize /\ i <= AccumulatedDataSize + Len(Bytes(chunk[s]))
                    THEN Bytes(chunk[s])[i - AccumulatedDataSize] ELSE pBatchBuffer[i]) \in 0 .. MaxSends
        <5>1. CASE i > AccumulatedDataSize /\ i <= AccumulatedDataSize + Len(Bytes(chunk[s]))
          <6>1. i - AccumulatedDataSize \in 1 .. size[chunk[s]]
            BY <1>1, <3>3, <3>4, <5>1, Sizes
          <6> QED
            BY <3>2, <3>4, <5>1, <6>1
        <5> QED
          BY <1>1, <5>1
      <4> QED
        BY <4>1 DEF AddedBatch
    <3>6. AccumulatedDataSize + size[chunk[s]] \in 0 .. BatchBufferSize
      BY <1>1, <2>1, <3>3, Sizes DEF addDataToBatch, FitsBatch
    <3> QED
      BY <1>1, <2>1, <3>5, <3>6 DEF addDataToBatch
  <2>2. CASE \/ sendLeave(s) \/ checkWindow(s) \/ batchRefuses(s) \/ closeBatchWindow(s) \/ refuseChunk(s)
             \/ directCallback(s) \/ measureCallback(s) \/ expireWindow(s) \/ startCallback(s) \/ dispatchCallback(s)
             \/ afterCallback(s) \/ storeHybrid(s) \/ flushLeave(s)
    BY <1>1, <2>2 DEF sendLeave, checkWindow, batchRefuses, closeBatchWindow, refuseChunk, directCallback, measureCallback,
       expireWindow, startCallback, dispatchCallback, afterCallback, storeHybrid, flushLeave, batchVars
  <2>3. CASE acceptChunk(s) \/ drain(s)
    BY <1>1, <2>3 DEF acceptChunk, drain, batchVars
  <2>4. CASE lockTwice(s)
    BY <1>1, <2>4 DEF lockTwice
  <2>5. CASE ringFull(s) \/ storeBegin(s) \/ storeCopy(s) \/ storeCount(s) \/ storeAdd(s) \/ storeSignal(s)
    BY <1>1, <2>5 DEF ringFull, storeBegin, storeCopy, storeCount, storeAdd, storeSignal, batchVars
  <2> QED
    BY <1>4, <2>1, <2>2, <2>3, <2>4, <2>5 DEF SendStep
<1>5. ASSUME NEW t \in Flushers, FlushStep(t)
      PROVE  BatchTypes'
  BY <1>1, <1>5, Sizes DEF FlushStep, flushCallbackBatch, batchCallback, LeftInBatch, batchVars
<1>6. ASSUME NEW n \in Chunks, AsyncStep(n)
      PROVE  BatchTypes'
  BY <1>1, <1>6 DEF AsyncStep, asyncCallback, asyncEnd, batchVars
<1>7. ASSUME NEW r \in Receivers, ReceiverStep(r)
      PROVE  BatchTypes'
  <2>1. UNCHANGED <<batchVars, PendingDataCount>>
    BY <1>7 DEF ReceiverStep, recvDAT, RecvStep, recvWait, recvSleep, recvWake, recvTimeout, recvBegin, recvRead, recvCount,
       recvTakeOff
  <2> QED
    BY <1>1, <2>1 DEF batchVars
<1> QED
  BY <1>2, <1>3, <1>4, <1>5, <1>6, <1>7 DEF Next, ReceiverStep

LEMMA RingWithType ==
    ASSUME pDataBuffer \in [0 .. BufferSize - 1 -> 0 .. MaxSends], NEW at \in Int, NEW bytes \in Seq(0 .. MaxSends)
    PROVE  RingWith(at, bytes) \in [0 .. BufferSize - 1 -> 0 .. MaxSends]
<1>1. ASSUME NEW i \in 0 .. BufferSize - 1
      PROVE  (IF Ring(i - at) < Len(bytes) THEN bytes[Ring(i - at) + 1] ELSE pDataBuffer[i]) \in 0 .. MaxSends
  <2>1. i - at \in Int /\ BufferSize \in Nat
    BY Sizes
  <2>2. Ring(i - at) \in 0 .. BufferSize - 1
    BY <2>1, RingIs
  <2>3. CASE Ring(i - at) < Len(bytes)
    <3>1. Ring(i - at) + 1 \in 1 .. Len(bytes)
      BY <2>1, <2>2, <2>3
    <3>2. bytes[Ring(i - at) + 1] \in 0 .. MaxSends
      BY <3>1, ElementOfSeq
    <3> QED
      BY <2>3, <3>2
  <2> QED
    BY <2>3
<1> QED
  BY <1>1 DEF RingWith

LEMMA ModSizeT ==
    ASSUME NEW x \in Int
    PROVE  x % SizeT \in 0 .. SizeT - 1
  BY Sizes

LEMMA ModSmall ==
    ASSUME NEW x \in 0 .. SizeT - 1
    PROVE  x % SizeT = x
  BY Sizes

LEMMA NextRingTypes ==
    ASSUME TypeInv, [Next]_vars
    PROVE  RingTypes'
<1>1. RingTypes
  BY DEF TypeInv
<1> USE DEF RingTypes
<1>2. CASE UNCHANGED vars
  BY <1>1, <1>2 DEF vars, ringVars
<1>3. ASSUME NEW s \in Senders, sendDAT(s) \/ flushDAT(s)
      PROVE  RingTypes'
  BY <1>1, <1>3 DEF sendDAT, flushDAT, ringVars
<1>4. ASSUME NEW s \in Senders, SendStep(s)
      PROVE  RingTypes'
  <2>1. CASE storeHybrid(s) \/ storeCopy(s)
    <3>1. InSend(s)
      BY <2>1 DEF storeHybrid, storeCopy, InSend, FlushingDAT, Between
    <3>2. chunk[s] \in 0 .. MaxSends /\ size[chunk[s]] \in Nat /\ held[s] \in Nat
      <4>1. held \in [Threads -> 0 .. SizeT - 1] /\ s \in Threads
        BY ThreadKinds DEF TypeInv, CallTypes
      <4> QED
        BY <3>1, <4>1, CallIs, Sizes
    <3>3. Bytes(chunk[s]) \in Seq(0 .. MaxSends)
      BY <3>2, BytesAre
    <3>4. DataEnd \in Nat /\ AvailableData \in Nat /\ (AvailableData + size[chunk[s]]) % SizeT \in 0 .. SizeT - 1
      <4>1. DataEnd \in Nat /\ AvailableData \in Nat /\ AvailableData + size[chunk[s]] \in Int
        BY <1>1, <3>2, Sizes
      <4> QED
        BY <4>1, ModSizeT
    <3>5. /\ RingWith(DataEnd, Bytes(chunk[s])) \in [0 .. BufferSize - 1 -> 0 .. MaxSends]
          /\ RingWith(held[s], Bytes(chunk[s])) \in [0 .. BufferSize - 1 -> 0 .. MaxSends]
      BY <1>1, <3>2, <3>3, <3>4, RingWithType
    <3>6. Ring(DataEnd + size[chunk[s]]) \in 0 .. BufferSize - 1 /\ Ring(held[s] + size[chunk[s]]) \in 0 .. BufferSize - 1
      BY <3>2, <3>4, RingIs
    <3>7. CASE storeHybrid(s)
      <4>1. /\ IsPollingMode' \in BOOLEAN /\ UNCHANGED <<DataStart, Mutex>>
            /\ \/ UNCHANGED <<pDataBuffer, DataEnd, AvailableData>>
               \/ /\ pDataBuffer' = RingWith(DataEnd, Bytes(chunk[s])) /\ DataEnd' = Ring(DataEnd + size[chunk[s]])
                  /\ AvailableData' = (AvailableData + size[chunk[s]]) % SizeT
        BY <3>7 DEF storeHybrid
      <4> QED
        BY <1>1, <3>4, <3>5, <3>6, <4>1
    <3>8. CASE storeCopy(s)
      BY <1>1, <3>5, <3>6, <3>8 DEF storeCopy
    <3> QED
      BY <2>1, <3>7, <3>8
  <2>2. CASE storeAdd(s)
    <3>1. InSend(s)
      BY <2>2 DEF storeAdd, InSend, FlushingDAT, Between
    <3>2. size[chunk[s]] \in Nat /\ held[s] \in Nat
      <4>1. held \in [Threads -> 0 .. SizeT - 1] /\ s \in Threads
        BY ThreadKinds DEF TypeInv, CallTypes
      <4> QED
        BY <3>1, <4>1, CallIs, Sizes
    <3>3. (held[s] + size[chunk[s]]) % SizeT \in 0 .. SizeT - 1
      BY <3>2, ModSizeT
    <3> QED
      BY <1>1, <2>2, <3>3 DEF storeAdd
  <2>3. CASE \/ sendLeave(s) \/ checkWindow(s) \/ addDataToBatch(s) \/ batchRefuses(s) \/ closeBatchWindow(s)
             \/ refuseChunk(s) \/ acceptChunk(s) \/ directCallback(s) \/ measureCallback(s) \/ drain(s)
             \/ expireWindow(s) \/ lockTwice(s) \/ startCallback(s) \/ dispatchCallback(s) \/ afterCallback(s)
             \/ ringFull(s) \/ storeBegin(s) \/ storeCount(s) \/ storeSignal(s) \/ flushLeave(s)
    <3>1. UNCHANGED ringVars
      BY <2>3 DEF sendLeave, checkWindow, addDataToBatch, batchRefuses, closeBatchWindow, refuseChunk, acceptChunk,
         directCallback, measureCallback, drain, expireWindow, lockTwice, startCallback, dispatchCallback, afterCallback,
         ringFull, storeBegin, storeCount, storeSignal, flushLeave
    <3> QED
      BY <1>1, <3>1 DEF ringVars
  <2> QED
    BY <1>4, <2>1, <2>2, <2>3 DEF SendStep
<1>5. ASSUME NEW t \in Flushers, FlushStep(t)
      PROVE  RingTypes'
  BY <1>1, <1>5 DEF FlushStep, flushCallbackBatch, batchCallback, ringVars
<1>6. ASSUME NEW n \in Chunks, AsyncStep(n)
      PROVE  RingTypes'
  BY <1>1, <1>6 DEF AsyncStep, asyncCallback, asyncEnd, ringVars
<1>7. ASSUME NEW r \in Receivers, ReceiverStep(r)
      PROVE  RingTypes'
  <2>1. held[r] \in 0 .. SizeT - 1
    BY ThreadKinds DEF TypeInv, CallTypes
  <2>2. CASE recvRead(r)
    <3>1. DataStart + held[r] \in Int
      BY <1>1, <2>1, Sizes
    <3>2. Ring(DataStart + held[r]) \in 0 .. BufferSize - 1
      BY <3>1, RingIs
    <3> QED
      BY <1>1, <2>2, <3>2 DEF recvRead
  <2>3. CASE recvTakeOff(r)
    BY <1>1, <2>1, <2>3 DEF recvTakeOff
  <2>4. CASE recvDAT(r) \/ recvWake(r) \/ recvWait(r) \/ recvSleep(r) \/ recvTimeout(r) \/ recvBegin(r) \/ recvCount(r)
    BY <1>1, <2>4 DEF recvDAT, recvWake, recvWait, recvSleep, recvTimeout, recvBegin, recvCount, ringVars
  <2> QED
    BY <1>7, <2>2, <2>3, <2>4 DEF ReceiverStep, RecvStep
<1> QED
  BY <1>2, <1>3, <1>4, <1>5, <1>6, <1>7 DEF Next, ReceiverStep

LEMMA NextCallTypes ==
    ASSUME TypeInv, [Next]_vars
    PROVE  CallTypes'
<1>1. CallTypes /\ pc' \in [Threads -> Labels] /\ next' \in [Flushers -> Labels]
  BY NextPlaces DEF TypeInv
<1>2. AccumulatedDataSize \in 0 .. SizeT - 1 /\ DataEnd \in 0 .. SizeT - 1 /\ AvailableData \in 0 .. SizeT - 1
      /\ 0 \in 0 .. SizeT - 1
  BY Sizes DEF TypeInv, BatchTypes, RingTypes
<1> DEFINE Others == /\ setup' \in Setups /\ IsSending' \in BOOLEAN /\ chunk' \in [Senders -> 0 .. MaxSends]
                     /\ mode' \in [Senders \cup Receivers -> {"blocking", "nonblock", "zero", "infinite", "timed", "none"}]
                     /\ sends' \in 0 .. MaxSends /\ size' \in [Chunks -> 0 .. MaxChunk]
<1>3. UNCHANGED <<setup, callVars>> => Others
  BY <1>1 DEF callVars, CallTypes
<1>4. SUFFICES Others /\ held' \in [Threads -> 0 .. SizeT - 1]
               /\ ret' \in [Chunks -> {"none", "SUCCESS", "BUFFER_FULL", "TIMEOUT"}]
  BY <1>1 DEF CallTypes
<1>5. /\ held \in [Threads -> 0 .. SizeT - 1] /\ ret \in [Chunks -> {"none", "SUCCESS", "BUFFER_FULL", "TIMEOUT"}]
      /\ \A t \in Threads, k \in 0 .. SizeT - 1 : [held EXCEPT ![t] = k] \in [Threads -> 0 .. SizeT - 1]
      /\ \A n, c \in {"none", "SUCCESS", "BUFFER_FULL", "TIMEOUT"} :
            [ret EXCEPT ![n] = c] \in [Chunks -> {"none", "SUCCESS", "BUFFER_FULL", "TIMEOUT"}]
  BY <1>1 DEF CallTypes
<1> HIDE DEF Others
<1>6. CASE UNCHANGED vars
  BY <1>3, <1>5, <1>6 DEF vars
<1>7. ASSUME NEW s \in Senders, sendDAT(s)
      PROVE  Others /\ UNCHANGED <<held, ret>>
  <2>1. UNCHANGED <<setup, held, ret>> /\ IsSending' = TRUE /\ sends' = sends + 1 /\ chunk' = [chunk EXCEPT ![s] = sends + 1]
        /\ sends < MaxSends
    BY <1>7 DEF sendDAT
  <2>2. sends + 1 \in 0 .. MaxSends /\ sends + 1 \in Chunks
    BY <1>1, <2>1, Sizes DEF CallTypes, Chunks
  <2>3. PICK k \in 1 .. MaxChunk : size' = [size EXCEPT ![sends + 1] = k]
    BY <1>7 DEF sendDAT
  <2>4. size' \in [Chunks -> 0 .. MaxChunk]
    BY <1>1, <2>2, <2>3, Sizes DEF CallTypes
  <2>5. PICK m \in Calls[setup][s] \ {"flush"} : mode' = [mode EXCEPT ![s] = m]
    BY <1>7 DEF sendDAT
  <2>6. m \in {"blocking", "nonblock", "zero"}
    BY <1>1, <2>5, OptionsAssumption DEF CallTypes
  <2>7. mode' \in [Senders \cup Receivers -> {"blocking", "nonblock", "zero", "infinite", "timed", "none"}]
    BY <1>1, <2>5, <2>6 DEF CallTypes
  <2>8. chunk' \in [Senders -> 0 .. MaxSends]
    BY <1>1, <2>1, <2>2 DEF CallTypes
  <2> QED
    BY <1>1, <2>1, <2>2, <2>4, <2>7, <2>8 DEF Others, CallTypes
<1>8. ASSUME NEW s \in Senders, flushDAT(s)
      PROVE  Others /\ UNCHANGED <<held, ret>>
  BY <1>3, <1>8 DEF flushDAT
<1>9. ASSUME NEW s \in Senders, SendStep(s)
      PROVE  Others /\ held' \in [Threads -> 0 .. SizeT - 1]
             /\ ret' \in [Chunks -> {"none", "SUCCESS", "BUFFER_FULL", "TIMEOUT"}]
  <2>1. s \in Threads
    BY ThreadKinds
  <2>2. CASE sendLeave(s)
    <3>1. 0 \in 0 .. MaxSends
      BY Sizes
    <3> QED
      BY <1>1, <1>5, <2>2, <3>1 DEF sendLeave, Others, CallTypes
  <2>3. CASE addDataToBatch(s) \/ refuseChunk(s) \/ acceptChunk(s) \/ directCallback(s) \/ storeHybrid(s) \/ ringFull(s)
             \/ storeSignal(s)
    <3>1. UNCHANGED <<setup, callVars, held>>
      BY <2>3 DEF addDataToBatch, refuseChunk, acceptChunk, directCallback, storeHybrid, ringFull, storeSignal
    <3>2. ret' = ret \/ \E c \in {"none", "SUCCESS", "BUFFER_FULL", "TIMEOUT"} : ret' = [ret EXCEPT ![chunk[s]] = c]
      BY <2>3 DEF addDataToBatch, refuseChunk, acceptChunk, directCallback, storeHybrid, ringFull, storeSignal, Return
    <3> QED
      BY <1>3, <1>5, <3>1, <3>2
  <2>4. CASE storeBegin(s) \/ storeCount(s) \/ storeAdd(s)
    <3>1. UNCHANGED <<setup, callVars, ret>>
      BY <2>4 DEF storeBegin, storeCount, storeAdd
    <3>2. \E k \in 0 .. SizeT - 1 : held' = [held EXCEPT ![s] = k]
      BY <1>2, <2>4 DEF storeBegin, storeCount, storeAdd
    <3> QED
      BY <1>3, <1>5, <2>1, <3>1, <3>2
  <2>5. CASE \/ checkWindow(s) \/ batchRefuses(s) \/ closeBatchWindow(s) \/ measureCallback(s) \/ drain(s)
             \/ expireWindow(s) \/ lockTwice(s) \/ startCallback(s) \/ dispatchCallback(s) \/ afterCallback(s)
             \/ storeCopy(s) \/ flushLeave(s)
    <3>1. UNCHANGED <<setup, callVars, held, ret>>
      BY <2>5 DEF checkWindow, batchRefuses, closeBatchWindow, measureCallback, drain, expireWindow, lockTwice,
         startCallback, dispatchCallback, afterCallback, storeCopy, flushLeave
    <3> QED
      BY <1>3, <1>5, <3>1
  <2> QED
    BY <1>9, <2>2, <2>3, <2>4, <2>5 DEF SendStep
<1>10. ASSUME NEW t \in Flushers, FlushStep(t)
       PROVE  Others /\ held' \in [Threads -> 0 .. SizeT - 1] /\ ret' = ret
  <2>1. UNCHANGED <<setup, callVars, ret>> /\ t \in Threads
    BY <1>10 DEF FlushStep, flushCallbackBatch, batchCallback, Threads
  <2>2. held' = held \/ \E k \in 0 .. SizeT - 1 : held' = [held EXCEPT ![t] = k]
    BY <1>2, <1>10 DEF FlushStep, flushCallbackBatch, batchCallback
  <2> QED
    BY <1>3, <1>5, <2>1, <2>2
<1>11. ASSUME NEW n \in Chunks, AsyncStep(n)
       PROVE  Others /\ UNCHANGED <<held, ret>>
  BY <1>3, <1>11 DEF AsyncStep, asyncCallback, asyncEnd
<1>12. ASSUME NEW r \in Receivers, ReceiverStep(r)
       PROVE  Others /\ held' \in [Threads -> 0 .. SizeT - 1] /\ ret' = ret
  <2>1. r \in Threads /\ held[r] \in 0 .. SizeT - 1
    BY <1>5, ThreadKinds
  <2>2. CASE recvDAT(r)
    <3>1. PICK m \in Limits[setup] : mode' = [mode EXCEPT ![r] = m]
      BY <2>2 DEF recvDAT
    <3>2. m \in {"infinite", "timed", "zero"}
      BY <1>1, <3>1, OptionsAssumption DEF CallTypes
    <3>3. mode' \in [Senders \cup Receivers -> {"blocking", "nonblock", "zero", "infinite", "timed", "none"}]
      BY <1>1, <3>1, <3>2 DEF CallTypes
    <3> QED
      BY <1>1, <1>5, <2>2, <3>3 DEF recvDAT, Others, CallTypes
  <2>3. CASE recvBegin(r)
    <3>1. PICK want \in 1 .. MaxChunk : held' = [held EXCEPT ![r] = IF want < AvailableData THEN want ELSE AvailableData]
      BY <2>3 DEF recvBegin
    <3>2. (IF want < AvailableData THEN want ELSE AvailableData) \in 0 .. SizeT - 1
      BY <1>2, Sizes
    <3>3. UNCHANGED <<setup, callVars, ret>>
      BY <2>3 DEF recvBegin
    <3> QED
      BY <1>3, <1>5, <2>1, <3>1, <3>2, <3>3
  <2>4. CASE recvCount(r) \/ recvTakeOff(r)
    <3>1. AvailableData - held[r] \in Int
      BY <1>2, <2>1, Sizes
    <3>2. (AvailableData - held[r]) % SizeT \in 0 .. SizeT - 1
      BY <3>1, ModSizeT
    <3>3. UNCHANGED <<setup, callVars, ret>>
      BY <2>4 DEF recvCount, recvTakeOff
    <3>4. \E k \in 0 .. SizeT - 1 : held' = [held EXCEPT ![r] = k]
      BY <1>2, <2>4, <3>2 DEF recvCount, recvTakeOff
    <3> QED
      BY <1>3, <1>5, <2>1, <3>3, <3>4
  <2>5. CASE recvWake(r) \/ recvWait(r) \/ recvSleep(r) \/ recvTimeout(r) \/ recvRead(r)
    <3>1. UNCHANGED <<setup, callVars, held, ret>>
      BY <2>5 DEF recvWake, recvWait, recvSleep, recvTimeout, recvRead
    <3> QED
      BY <1>3, <1>5, <3>1
  <2> QED
    BY <1>12, <2>2, <2>3, <2>4, <2>5 DEF ReceiverStep, RecvStep
<1> QED
  BY <1>5, <1>6, <1>7, <1>8, <1>9, <1>10, <1>11, <1>12 DEF Next, ReceiverStep

(* Of a batch of k bytes, so many are of chunk n. *)
LEMMA InBatchNat ==
    ASSUME NEW k \in Nat, NEW n
    PROVE  InBatch(k, n) \in Nat
<1>1. IsFiniteSet(1 .. k)
  BY FS_Interval
<1>2. IsFiniteSet({i \in 1 .. k : pBatchBuffer[i] = n})
  BY <1>1, FS_Subset
<1> QED
  BY <1>2, FS_CardinalityType DEF InBatch

LEMMA RingBytesAre ==
    ASSUME pDataBuffer \in [0 .. BufferSize - 1 -> 0 .. MaxSends], NEW at \in Int, NEW k \in Nat
    PROVE  /\ RingBytes(at, k) \in Seq(0 .. MaxSends) /\ Len(RingBytes(at, k)) = k
           /\ \A i \in 1 .. k : RingBytes(at, k)[i] = pDataBuffer[Ring(at + i - 1)]
<1>1. \A i \in 1 .. k : pDataBuffer[Ring(at + i - 1)] \in 0 .. MaxSends
  <2>1. ASSUME NEW i \in 1 .. k PROVE Ring(at + i - 1) \in 0 .. BufferSize - 1
    <3>1. at + i - 1 \in Int
      OBVIOUS
    <3> QED
      BY <3>1, RingIs
  <2> QED
    BY <2>1
<1>2. RingBytes(at, k) \in [1 .. k -> 0 .. MaxSends]
  BY <1>1 DEF RingBytes
<1>3. RingBytes(at, k) \in Seq(0 .. MaxSends) /\ Len(RingBytes(at, k)) = k
  BY <1>2, SeqOf
<1> QED
  BY <1>3 DEF RingBytes

LEMMA NextHistoryTypes ==
    ASSUME TypeInv, [Next]_vars
    PROVE  HistoryTypes'
<1>1. HistoryTypes
  BY DEF TypeInv
<1>2. UNCHANGED history => HistoryTypes'
  BY <1>1 DEF HistoryTypes, history
<1>3. CASE UNCHANGED vars
  BY <1>2, <1>3 DEF vars
<1>4. ASSUME NEW s \in Senders, sendDAT(s) \/ flushDAT(s)
      PROVE  HistoryTypes'
  <2>1. CASE sendDAT(s)
    BY <1>2, <2>1 DEF sendDAT
  <2>2. CASE flushDAT(s)
    <3>1. Accepted \subseteq Chunks
      BY DEF Accepted
    <3> QED
      BY <1>1, <2>2, <3>1 DEF flushDAT, HistoryTypes
  <2> QED
    BY <1>4, <2>1, <2>2
<1>5. ASSUME NEW s \in Senders, SendStep(s)
      PROVE  HistoryTypes'
  <2>1. CASE addDataToBatch(s)
    BY <1>1, <2>1 DEF addDataToBatch, HistoryTypes
  <2>2. CASE directCallback(s)
    <3>1. InSend(s)
      BY <2>2 DEF directCallback, InSend, FlushingDAT, Between
    <3>2. chunk[s] \in Chunks /\ size[chunk[s]] \in Nat
      BY <3>1, CallIs, Sizes
    <3>3. delivered' \in [Chunks -> Nat]
      BY <1>1, <2>2, <3>2 DEF directCallback, HistoryTypes
    <3> QED
      BY <1>1, <2>2, <3>3 DEF directCallback, HistoryTypes
  <2>3. CASE storeHybrid(s) \/ storeCopy(s)
    <3>1. InSend(s)
      BY <2>3 DEF storeHybrid, storeCopy, InSend, FlushingDAT, Between
    <3>2. chunk[s] \in 0 .. MaxSends /\ size[chunk[s]] \in Nat
      BY <3>1, CallIs, Sizes
    <3>3. stored \o Bytes(chunk[s]) \in Seq(0 .. MaxSends)
      BY <1>1, <3>2, BytesAre, ConcatProperties DEF HistoryTypes
    <3>4. stored' \in Seq(0 .. MaxSends) /\ UNCHANGED <<delivered, received, torn, raced, asked>>
      BY <1>1, <2>3, <3>3 DEF storeHybrid, storeCopy, HistoryTypes
    <3> QED
      BY <1>1, <3>4 DEF HistoryTypes
  <2>4. CASE storeBegin(s)
    BY <1>1, <2>4 DEF storeBegin, HistoryTypes
  <2>5. CASE flushLeave(s)
    BY <1>1, <2>5 DEF flushLeave, HistoryTypes
  <2>6. CASE \/ sendLeave(s) \/ checkWindow(s) \/ batchRefuses(s) \/ closeBatchWindow(s) \/ refuseChunk(s)
             \/ acceptChunk(s) \/ measureCallback(s) \/ drain(s) \/ expireWindow(s) \/ lockTwice(s) \/ startCallback(s)
             \/ dispatchCallback(s) \/ afterCallback(s) \/ ringFull(s) \/ storeCount(s) \/ storeAdd(s) \/ storeSignal(s)
    <3>1. UNCHANGED history
      BY <2>6 DEF sendLeave, checkWindow, batchRefuses, closeBatchWindow, refuseChunk, acceptChunk, measureCallback,
         drain, expireWindow, lockTwice, startCallback, dispatchCallback, afterCallback, ringFull, storeCount, storeAdd,
         storeSignal, history
    <3> QED
      BY <1>2, <3>1
  <2> QED
    BY <1>5, <2>1, <2>2, <2>3, <2>4, <2>5, <2>6 DEF SendStep
<1>6. ASSUME NEW t \in Flushers, FlushStep(t)
      PROVE  HistoryTypes'
  <2>1. CASE flushCallbackBatch(t)
    BY <1>2, <2>1 DEF flushCallbackBatch
  <2>2. CASE batchCallback(t)
    <3>1. held[t] \in Nat
      BY Sizes DEF TypeInv, CallTypes, Threads
    <3>2. \A n \in Chunks : InBatch(held[t], n) \in Nat
      BY <3>1, InBatchNat
    <3>3. delivered' \in [Chunks -> Nat]
      BY <1>1, <2>2, <3>2 DEF batchCallback, HistoryTypes
    <3> QED
      BY <1>1, <2>2, <3>3 DEF batchCallback, HistoryTypes
  <2> QED
    BY <1>6, <2>1, <2>2 DEF FlushStep
<1>7. ASSUME NEW n \in Chunks, AsyncStep(n)
      PROVE  HistoryTypes'
  <2>1. size[n] \in Nat
    BY Sizes DEF TypeInv, CallTypes
  <2> QED
    BY <1>1, <1>2, <1>7, <2>1 DEF AsyncStep, asyncCallback, asyncEnd, HistoryTypes
<1>8. ASSUME NEW r \in Receivers, ReceiverStep(r)
      PROVE  HistoryTypes'
  <2>1. CASE recvRead(r)
    <3>1. held[r] \in Nat /\ DataStart \in Int /\ pDataBuffer \in [0 .. BufferSize - 1 -> 0 .. MaxSends]
      BY Sizes, ThreadKinds DEF TypeInv, CallTypes, RingTypes
    <3>2. RingBytes(DataStart, held[r]) \in Seq(0 .. MaxSends)
      BY <3>1, RingBytesAre
    <3>3. received \o RingBytes(DataStart, held[r]) \in Seq(0 .. MaxSends)
      BY <1>1, <3>2, ConcatProperties DEF HistoryTypes
    <3> QED
      BY <1>1, <2>1, <3>3 DEF recvRead, HistoryTypes
  <2>2. CASE recvBegin(r)
    BY <1>1, <2>2 DEF recvBegin, HistoryTypes
  <2>3. CASE recvDAT(r) \/ recvWake(r) \/ recvWait(r) \/ recvSleep(r) \/ recvTimeout(r) \/ recvCount(r) \/ recvTakeOff(r)
    <3>1. UNCHANGED history
      BY <2>3 DEF recvDAT, recvWake, recvWait, recvSleep, recvTimeout, recvCount, recvTakeOff, history
    <3> QED
      BY <1>2, <3>1
  <2> QED
    BY <1>8, <2>1, <2>2, <2>3 DEF ReceiverStep, RecvStep
<1> QED
  BY <1>3, <1>4, <1>5, <1>6, <1>7, <1>8 DEF Next, ReceiverStep

LEMMA InitTypeInv == Init => TypeInv
<1> SUFFICES ASSUME Init PROVE TypeInv
  OBVIOUS
<1> DEFINE zero == 0
<1>0. zero \in 0 .. MaxSends /\ zero \in 0 .. MaxChunk /\ zero \in 0 .. SizeT - 1
  BY Sizes
<1>1. BatchTypes
  <2>1. pBatchBuffer \in [1 .. BatchBufferSize -> 0 .. MaxSends]
    BY <1>0 DEF Init
  <2>2. AccumulatedDataSize \in 0 .. BatchBufferSize /\ PendingDataCount \in 0 .. 1
    BY Sizes DEF Init
  <2> QED
    BY <2>1, <2>2 DEF Init, BatchTypes, MaxPendingChunks
<1>2. RingTypes
  BY Sizes DEF Init, RingTypes
<1>3. CallTypes
  <2>1. chunk \in [Senders -> 0 .. MaxSends] /\ held \in [Threads -> 0 .. SizeT - 1] /\ size \in [Chunks -> 0 .. MaxChunk]
        /\ sends \in 0 .. MaxSends
    BY <1>0 DEF Init
  <2>2. pc \in [Threads -> Labels] /\ next \in [Flushers -> Labels]
    BY DEF Init, Labels
  <2> QED
    BY <2>1, <2>2 DEF Init, CallTypes
<1>4. HistoryTypes
  <2>1. delivered \in [Chunks -> Nat] /\ asked \in [Senders -> SUBSET Chunks]
    BY DEF Init
  <2>2. stored \in Seq(0 .. MaxSends) /\ received \in Seq(0 .. MaxSends)
    BY EmptySeq DEF Init
  <2> QED
    BY <2>1, <2>2 DEF Init, HistoryTypes
<1>5. Places
  BY ThreadKinds DEF Init, Places, Between, SendLabels, AsyncLabels, RecvLabels
<1>6. ChunkOfCall
  BY ThreadKinds DEF Init, ChunkOfCall, InSend, FlushingDAT, Between
<1> QED
  BY <1>1, <1>2, <1>3, <1>4, <1>5, <1>6 DEF TypeInv

LEMMA NextTypeInv == TypeInv /\ [Next]_vars => TypeInv'
  BY NextBatchTypes, NextRingTypes, NextCallTypes, NextHistoryTypes, NextPlaces DEF TypeInv

LEMMA Typed == Spec => []TypeInv
  BY InitTypeInv, NextTypeInv, PTL DEF Spec

(* Every variable keeps its type: the batch and the ring stay inside their buffers, at most one chunk is pending,
   and a section has one owner, whatever the sizes of the buffers and the calls. *)
THEOREM TypeCorrect == Spec => []TypeOK
<1>1. TypeInv => TypeOK
  BY DEF TypeInv, BatchTypes, RingTypes, CallTypes, HistoryTypes, TypeOK
<1> QED
  BY <1>1, Typed, PTL

-----------------------------------------------------------------------------
(* What a step of a sender leaves alone. *)
SenderStep(s) == flushDAT(s) \/ SendStep(s) \/ FlushStep(s)

LEMMA SenderFrame ==
    ASSUME TypeInv, NEW s \in Senders, SenderStep(s)
    PROVE  /\ \A t \in Flushers : t # s /\ t # chunk[s] => pc'[t] = pc[t]
           /\ ~dispatchCallback(s) => \A t \in Flushers : t # s => pc'[t] = pc[t]
           /\ \A t \in Flushers : t # s => next'[t] = next[t]
           /\ \A n \in Chunks : n # chunk[s] => ret'[n] = ret[n]
           /\ UNCHANGED <<setup, sends, size>> /\ \A u \in Senders : u # s => chunk'[u] = chunk[u]
           /\ ~sendLeave(s) => chunk' = chunk
<1>1. /\ pc \in [Threads -> Labels] /\ next \in [Flushers -> Labels] /\ chunk \in [Senders -> 0 .. MaxSends]
      /\ ret \in [Chunks -> {"none", "SUCCESS", "BUFFER_FULL", "TIMEOUT"}] /\ \A t \in Flushers : t \in Threads
  BY DEF TypeInv, CallTypes, Threads
<1>2. ret' = ret \/ \E c : ret' = [ret EXCEPT ![chunk[s]] = c]
  BY DEF SenderStep, SendStep, FlushStep, flushDAT, sendLeave, checkWindow, addDataToBatch, batchRefuses, closeBatchWindow,
     refuseChunk, acceptChunk, directCallback, measureCallback, drain, expireWindow, lockTwice, startCallback,
     dispatchCallback, afterCallback, storeHybrid, ringFull, storeBegin, storeCopy, storeCount, storeAdd, storeSignal,
     flushLeave, flushCallbackBatch, batchCallback, Return
<1>3. \A n \in Chunks : n # chunk[s] => ret'[n] = ret[n]
  BY <1>1, <1>2
<1>4. CASE sendLeave(s)
  <2>1. chunk' = [chunk EXCEPT ![s] = 0] /\ pc' = [pc EXCEPT ![s] = "idle"] /\ next' = next
        /\ UNCHANGED <<setup, sends, size>>
    BY <1>4 DEF sendLeave, Goto
  <2> QED
    BY <1>1, <1>3, <1>4, <2>1
<1>5. CASE dispatchCallback(s)
  <2>1. UNCHANGED <<setup, next, chunk, sends, size>>
    BY <1>5 DEF dispatchCallback, callVars
  <2> QED
    BY <1>1, <1>3, <1>5, <2>1, DispatchMoves
<1>6. CASE storeHybrid(s) \/ storeSignal(s)
  <2>1. UNCHANGED <<setup, next, chunk, sends, size>>
    BY <1>6 DEF storeHybrid, storeSignal, callVars
  <2> QED
    BY <1>1, <1>3, <1>6, <2>1, SignalMoves
<1>7. CASE ~sendLeave(s) /\ ~dispatchCallback(s) /\ ~storeHybrid(s) /\ ~storeSignal(s)
  <2>1. PICK l, k : Moves(s, l, k)
    BY <1>7, SendMoves DEF SenderStep
  <2>2. size' = size
    BY <1>7 DEF SenderStep, SendStep, FlushStep, flushDAT, checkWindow, addDataToBatch, batchRefuses, closeBatchWindow,
     refuseChunk, acceptChunk, directCallback, measureCallback, drain, expireWindow, lockTwice, startCallback,
     afterCallback, ringFull, storeBegin, storeCopy, storeCount, storeAdd,
     flushLeave, flushCallbackBatch, batchCallback, callVars
  <2> QED
    BY <1>1, <1>3, <1>7, <2>1, <2>2 DEF Moves
<1> QED
  BY <1>4, <1>5, <1>6, <1>7

(* A call that is still undecided after a step was so before, and nothing has been said of its chunk. *)
LEMMA StaysUndecided ==
    ASSUME TypeInv, NEW s \in Senders, SenderStep(s), InSend(s)', ~Decided(s)'
    PROVE  /\ InSend(s) /\ ~Decided(s) /\ ret' = ret
           /\ ~HandedOver(s)' => ~HandedOver(s) /\ ~dispatchCallback(s)
           /\ HandedOver(s) => HandedOver(s)'
           /\ HandedOver(s)' => HandedOver(s) \/ dispatchCallback(s)
<1>1. pc \in [Threads -> Labels] /\ next \in [Flushers -> Labels] /\ s \in Threads /\ s \in Flushers
      /\ (Between(s) => next[s] \in {"deliver", "choose", "hybrid", "flushed"})
      /\ pc[s] \in SendLabels
  BY ThreadKinds DEF TypeInv, CallTypes, Places
<1> DEFINE Goal == /\ InSend(s) /\ ~Decided(s) /\ ret' = ret
                   /\ ~HandedOver(s)' => ~HandedOver(s) /\ ~dispatchCallback(s)
                   /\ HandedOver(s) => HandedOver(s)'
                   /\ HandedOver(s)' => HandedOver(s) \/ dispatchCallback(s)
<1> USE DEF InSend, FlushingDAT, Between, Decided, HandedOver
<1>2. CASE sendLeave(s) \/ flushLeave(s) \/ measureCallback(s) \/ drain(s) \/ directCallback(s) \/ refuseChunk(s) \/ ringFull(s)
           \/ addDataToBatch(s)
  <2>1. pc'[s] \in {"idle", "drain", "leave", "measure"}
    BY <1>1, <1>2 DEF sendLeave, flushLeave, measureCallback, drain, directCallback, refuseChunk, ringFull, addDataToBatch,
       Goto, Return
  <2> QED
    BY <2>1
<1>3. CASE storeHybrid(s) \/ storeSignal(s)
  <2>1. pc'[s] = "leave"
    BY <1>3, SignalMoves
  <2> QED
    BY <2>1
<1>4. CASE dispatchCallback(s)
  <2>1. pc'[s] = "after" /\ pc[s] = "dispatch" /\ ret' = ret
    BY <1>4, DispatchMoves DEF dispatchCallback
  <2> QED
    BY <1>4, <2>1
<1>5. CASE flushDAT(s)
  <2>1. (pc'[s] = "close" /\ next'[s] = "flushed") \/ pc'[s] = "flushed"
    BY <1>1, <1>5 DEF flushDAT, Goto
  <2> QED
    BY <2>1
<1>6. CASE flushCallbackBatch(s) \/ batchCallback(s)
  <2>1. /\ pc[s] \in {"flush", "batched"} /\ ret' = ret
        /\ \/ pc'[s] = next[s] /\ next'[s] = "idle"
           \/ pc'[s] = "batched" /\ next'[s] = next[s]
    BY <1>1, <1>6 DEF flushCallbackBatch, batchCallback, GoOn, Goto
  <2>2. ~dispatchCallback(s)
    BY <2>1 DEF dispatchCallback
  <2> QED
    BY <1>1, <2>1, <2>2
<1>7. CASE checkWindow(s) \/ batchRefuses(s) \/ closeBatchWindow(s) \/ expireWindow(s)
  <2>1. /\ ret' = ret
        /\ \/ /\ pc[s] \in {"window", "add", "deliver"}
              /\ pc'[s] \in {"add", "deliver"} \/ (pc'[s] \in {"close", "flush"} /\ next'[s] \in {"deliver", "choose"})
           \/ pc[s] = "close" /\ pc'[s] = "flush" /\ next'[s] = next[s]
    BY <1>1, <1>7 DEF checkWindow, batchRefuses, closeBatchWindow, expireWindow, Goto, AfterRefusal
  <2>2. ~dispatchCallback(s)
    BY <2>1 DEF dispatchCallback
  <2> QED
    BY <1>1, <2>1, <2>2
<1>8. CASE acceptChunk(s) \/ lockTwice(s) \/ startCallback(s)
  <2>1. /\ pc[s] \in {"deliver", "choose"}
        /\ (pc'[s] \in {"direct", "locked", "dispatch"} /\ ret' = ret) \/ pc'[s] = "drain"
    BY <1>1, <1>8 DEF acceptChunk, lockTwice, startCallback, Choosing, Pressing, Goto
  <2>2. ~dispatchCallback(s)
    BY <2>1 DEF dispatchCallback
  <2> QED
    BY <2>1, <2>2
<1>9. CASE afterCallback(s)
  <2>1. /\ pc[s] = "after" /\ ret' = ret
        /\ (pc'[s] = "flush" /\ next'[s] = "hybrid") \/ pc'[s] = "hybrid"
    BY <1>1, <1>9 DEF afterCallback, Goto
  <2> QED
    BY <2>1
<1>10. CASE storeBegin(s) \/ storeCopy(s) \/ storeCount(s) \/ storeAdd(s)
  <2>1. /\ pc[s] \in {"deliver", "copy", "count", "add up"} /\ ret' = ret
        /\ pc'[s] \in {"copy", "count", "add up", "signal"}
    BY <1>1, <1>10 DEF storeBegin, storeCopy, storeCount, storeAdd, Goto
  <2>2. ~dispatchCallback(s)
    BY <2>1 DEF dispatchCallback
  <2> QED
    BY <2>1, <2>2
<1> QED
  BY <1>2, <1>3, <1>4, <1>5, <1>6, <1>7, <1>8, <1>9, <1>10 DEF SenderStep, SendStep, FlushStep

LEMMA InSendCall == ASSUME TypeInv, NEW s \in Senders PROVE InSend(s) <=> chunk[s] # 0
  BY DEF TypeInv, CallTypes, ChunkOfCall

LEMMA NextOwners ==
    ASSUME TypeInv, TypeInv', OwnersInv, [Next]_vars
    PROVE  OwnersInv'
<1>1. /\ OwnChunks /\ Undecided /\ Unsent /\ sends \in 0 .. MaxSends /\ chunk \in [Senders -> 0 .. MaxSends]
      /\ \A u \in Senders : u \in Flushers /\ u \notin Chunks
      /\ \A n \in Chunks : n \in Flushers /\ n \notin Senders /\ n \in Nat
  BY ThreadKinds, Sizes DEF OwnersInv, TypeInv, CallTypes, Chunks
<1>2. ASSUME UNCHANGED <<chunk, sends, ret>>, \A u \in Senders : pc'[u] = pc[u] /\ next'[u] = next[u],
             \A n \in Chunks : pc[n] = "idle" => pc'[n] = "idle"
      PROVE  OwnersInv'
  <2>1. \A u \in Senders : (InSend(u)' <=> InSend(u)) /\ (Decided(u)' <=> Decided(u)) /\ (HandedOver(u)' <=> HandedOver(u))
    BY <1>2 DEF InSend, FlushingDAT, Between, Decided, HandedOver
  <2>2. OwnChunks'
    BY <1>1, <1>2 DEF OwnChunks
  <2>3. Undecided'
    <3>1. ASSUME NEW u \in Senders, InSend(u)', ~Decided(u)'
          PROVE  ret'[chunk'[u]] = "none" /\ (~HandedOver(u)' => pc'[chunk'[u]] = "idle")
      BY <1>1, <1>2, <2>1, <3>1, CallIs DEF Undecided
    <3> QED
      BY <3>1 DEF Undecided
  <2>4. Unsent'
    BY <1>1, <1>2 DEF Unsent
  <2> QED
    BY <2>2, <2>3, <2>4 DEF OwnersInv
<1>3. CASE UNCHANGED vars
  BY <1>2, <1>3 DEF vars, callVars
<1>4. ASSUME NEW s \in Senders, sendDAT(s)
      PROVE  OwnersInv'
  <2>1. /\ sends' = sends + 1 /\ chunk' = [chunk EXCEPT ![s] = sends + 1] /\ ret' = ret /\ next' = next
        /\ pc' = [pc EXCEPT ![s] = "window"] /\ sends < MaxSends
    BY <1>4 DEF sendDAT, Goto
  <2>2. sends + 1 \in Chunks /\ ret[sends + 1] = "none" /\ pc[sends + 1] = "idle"
    BY <1>1, <2>1, Sizes DEF Chunks, Unsent
  <2>3. /\ \A t \in Flushers : t # s => pc'[t] = pc[t]
        /\ pc'[s] = "window" /\ chunk'[s] = sends + 1 /\ \A u \in Senders : u # s => chunk'[u] = chunk[u]
    BY <1>1, <2>1, ThreadKinds DEF TypeInv, CallTypes, Threads
  <2>4. \A u \in Senders : chunk[u] <= sends
    <3>1. ASSUME NEW u \in Senders PROVE chunk[u] <= sends
      <4>1. chunk[u] = 0 \/ chunk[u] \in 1 .. sends
        BY DEF TypeInv, ChunkOfCall
      <4> QED
        BY <1>1, <4>1
    <3> QED
      BY <3>1
  <2>5. OwnChunks'
    <3>1. ASSUME NEW u \in Senders, NEW v \in Senders, chunk'[u] # 0, chunk'[u] = chunk'[v]
          PROVE  u = v
      <4>1. CASE u # s /\ v # s
        BY <1>1, <2>3, <3>1, <4>1 DEF OwnChunks
      <4>2. CASE u = s \/ v = s
        <5>1. \A w \in Senders : w # s => chunk'[w] # sends + 1
          BY <1>1, <2>3, <2>4
        <5> QED
          BY <2>3, <3>1, <4>2, <5>1
      <4> QED
        BY <4>1, <4>2
    <3> QED
      BY <3>1 DEF OwnChunks
  <2>6. Undecided'
    <3>1. ASSUME NEW u \in Senders, InSend(u)', ~Decided(u)'
          PROVE  ret'[chunk'[u]] = "none" /\ (~HandedOver(u)' => pc'[chunk'[u]] = "idle")
      <4>1. CASE u = s
        BY <1>1, <2>1, <2>2, <2>3, <4>1
      <4>2. CASE u # s
        <5>1. (InSend(u)' <=> InSend(u)) /\ (Decided(u)' <=> Decided(u)) /\ (HandedOver(u)' <=> HandedOver(u))
          BY <1>1, <2>1, <2>3, <4>2 DEF InSend, FlushingDAT, Between, Decided, HandedOver
        <5>2. chunk[u] \in Chunks /\ chunk'[u] = chunk[u]
          BY <2>3, <3>1, <4>2, <5>1, CallIs
        <5>3. chunk[u] # s /\ pc'[chunk[u]] = pc[chunk[u]]
          BY <1>1, <2>3, <5>2
        <5>4. ret[chunk[u]] = "none" /\ (~HandedOver(u) => pc[chunk[u]] = "idle")
          BY <1>1, <3>1, <5>1 DEF Undecided
        <5> QED
          BY <2>1, <5>1, <5>2, <5>3, <5>4
      <4> QED
        BY <4>1, <4>2
    <3> QED
      BY <3>1 DEF Undecided
  <2>7. Unsent'
    <3>1. ASSUME NEW n \in Chunks, n > sends' PROVE ret'[n] = "none" /\ pc'[n] = "idle"
      <4>1. n > sends
        BY <1>1, <2>1, <3>1
      <4>2. n # s /\ n \in Flushers
        BY <1>1
      <4> QED
        BY <1>1, <2>1, <2>3, <4>1, <4>2 DEF Unsent
    <3> QED
      BY <3>1 DEF Unsent
  <2> QED
    BY <2>5, <2>6, <2>7 DEF OwnersInv
<1>5. ASSUME NEW s \in Senders, SenderStep(s)
      PROVE  OwnersInv'
  <2>1. /\ \A t \in Flushers : t # s /\ t # chunk[s] => pc'[t] = pc[t]
        /\ ~dispatchCallback(s) => \A t \in Flushers : t # s => pc'[t] = pc[t]
        /\ \A t \in Flushers : t # s => next'[t] = next[t]
        /\ \A n \in Chunks : n # chunk[s] => ret'[n] = ret[n]
        /\ sends' = sends /\ \A u \in Senders : u # s => chunk'[u] = chunk[u]
        /\ ~sendLeave(s) => chunk' = chunk
    BY <1>5, SenderFrame
  <2>2. \A u \in Senders : u # s /\ chunk[u] # 0 => chunk[u] # chunk[s]
    BY <1>1 DEF OwnChunks
  <2>3. \A u \in Senders : u # s => pc'[u] = pc[u]
    <3>1. ASSUME NEW u \in Senders, u # s PROVE pc'[u] = pc[u]
      <4>1. CASE dispatchCallback(s)
        <5>1. chunk[s] \in Nat
          BY <1>1
        <5>2. chunk[s] # u
          BY <1>1, <4>1, DispatchMoves, Sizes DEF Chunks
        <5> QED
          BY <1>1, <2>1, <3>1, <5>2
      <4>2. CASE ~dispatchCallback(s)
        BY <1>1, <2>1, <3>1, <4>2
      <4> QED
        BY <4>1, <4>2
    <3> QED
      BY <3>1
  <2>4. chunk'[s] \in {0, chunk[s]}
    BY <1>1, <2>1 DEF sendLeave
  <2>5. OwnChunks'
    <3>1. ASSUME NEW u \in Senders, NEW v \in Senders, chunk'[u] # 0, chunk'[u] = chunk'[v]
          PROVE  u = v
      <4>1. chunk'[u] = chunk[u] /\ chunk'[v] = chunk[v]
        BY <2>1, <2>4, <3>1
      <4> QED
        BY <1>1, <3>1, <4>1 DEF OwnChunks
    <3> QED
      BY <3>1 DEF OwnChunks
  <2>6. Undecided'
    <3>1. ASSUME NEW u \in Senders, u # s, InSend(u)', ~Decided(u)'
          PROVE  ret'[chunk'[u]] = "none" /\ (~HandedOver(u)' => pc'[chunk'[u]] = "idle")
      <4>1. (InSend(u)' <=> InSend(u)) /\ (Decided(u)' <=> Decided(u)) /\ (HandedOver(u)' <=> HandedOver(u))
        BY <1>1, <2>1, <2>3, <3>1 DEF InSend, FlushingDAT, Between, Decided, HandedOver
      <4>2. chunk[u] \in Chunks /\ chunk'[u] = chunk[u] /\ chunk[u] # 0
        BY <2>1, <3>1, <4>1, CallIs, InSendCall
      <4>3. chunk[u] # s /\ chunk[u] # chunk[s] /\ chunk[u] \in Flushers
        BY <1>1, <2>2, <3>1, <4>2
      <4>4. pc'[chunk[u]] = pc[chunk[u]] /\ ret'[chunk[u]] = ret[chunk[u]]
        BY <2>1, <4>2, <4>3
      <4>5. ret[chunk[u]] = "none" /\ (~HandedOver(u) => pc[chunk[u]] = "idle")
        BY <1>1, <3>1, <4>1 DEF Undecided
      <4> QED
        BY <4>1, <4>2, <4>4, <4>5
    <3>2. ASSUME InSend(s)', ~Decided(s)'
          PROVE  ret'[chunk'[s]] = "none" /\ (~HandedOver(s)' => pc'[chunk'[s]] = "idle")
      <4>1. InSend(s) /\ ~Decided(s) /\ ret' = ret /\ (~HandedOver(s)' => ~HandedOver(s) /\ ~dispatchCallback(s))
        BY <1>5, <3>2, StaysUndecided
      <4>2. chunk'[s] = chunk[s] /\ chunk[s] \in Chunks
        <5>1. ~sendLeave(s)
          BY <4>1 DEF sendLeave, Decided
        <5> QED
          BY <2>1, <4>1, <5>1, CallIs
      <4>3. ret[chunk[s]] = "none" /\ (~HandedOver(s) => pc[chunk[s]] = "idle")
        BY <1>1, <4>1 DEF Undecided
      <4>4. ~HandedOver(s)' => pc'[chunk[s]] = pc[chunk[s]]
        BY <1>1, <2>1, <4>1, <4>2
      <4> QED
        BY <4>1, <4>2, <4>3, <4>4
    <3> QED
      BY <3>1, <3>2 DEF Undecided
  <2>7. Unsent'
    <3>1. ASSUME NEW n \in Chunks, n > sends' PROVE ret'[n] = "none" /\ pc'[n] = "idle"
      <4>1. n > sends /\ n # s /\ n # 0 /\ n \in Flushers
        BY <1>1, <2>1, <3>1
      <4>2. n # chunk[s]
        <5>1. chunk[s] = 0 \/ chunk[s] \in 1 .. sends
          BY DEF TypeInv, ChunkOfCall
        <5> QED
          BY <1>1, <4>1, <5>1
      <4> QED
        BY <1>1, <2>1, <4>1, <4>2 DEF Unsent
    <3> QED
      BY <3>1 DEF Unsent
  <2> QED
    BY <2>5, <2>6, <2>7 DEF OwnersInv
<1>6. ASSUME NEW m \in Chunks, FlushStep(m) \/ AsyncStep(m)
      PROVE  OwnersInv'
  <2>1. next' = next /\ pc[m] # "idle" /\ UNCHANGED <<chunk, sends, ret>> /\ \E l \in AsyncLabels : pc' = [pc EXCEPT ![m] = l]
    <3>1. next[m] = "idle" /\ next \in [Flushers -> Labels]
      BY DEF TypeInv, Places, CallTypes
    <3> QED
      BY <1>6, <3>1 DEF FlushStep, AsyncStep, flushCallbackBatch, batchCallback, asyncCallback, asyncEnd, GoOn, Goto, AsyncLabels,
         callVars
  <2>2. \A t \in Flushers : t # m => pc'[t] = pc[t]
    BY <2>1 DEF TypeInv, CallTypes, Threads
  <2>3. \A u \in Senders : pc'[u] = pc[u] /\ next'[u] = next[u]
    BY <1>1, <2>1, <2>2
  <2>4. \A n \in Chunks : pc[n] = "idle" => pc'[n] = "idle"
    BY <1>1, <2>1, <2>2
  <2> QED
    BY <1>2, <2>1, <2>3, <2>4
<1>7. ASSUME NEW r \in Receivers, ReceiverStep(r)
      PROVE  OwnersInv'
  <2>1. UNCHANGED <<chunk, sends, ret, next>>
    BY <1>7 DEF ReceiverStep, recvDAT, RecvStep, recvWait, recvSleep, recvWake, recvTimeout, recvBegin, recvRead, recvCount,
       recvTakeOff, callVars
  <2>2. \A t \in Flushers : pc'[t] = pc[t]
    BY <1>7, ReceiverMoves, ThreadKinds DEF TypeInv, CallTypes, Threads, Flushers
  <2> QED
    BY <1>1, <1>2, <2>1, <2>2
<1> QED
  BY <1>3, <1>4, <1>5, <1>6, <1>7 DEF Next, Flushers, ReceiverStep, SenderStep

-----------------------------------------------------------------------------
(* What a step of another thread, or the beginning of another call, leaves alone. *)
LEMMA OthersFrame ==
    ASSUME TypeInv, NEW u \in Senders,
           \/ \E s \in Senders : s # u /\ (sendDAT(s) \/ SenderStep(s))
           \/ \E n \in Chunks : FlushStep(n) \/ AsyncStep(n)
           \/ \E r \in Receivers : ReceiverStep(r)
    PROVE  pc'[u] = pc[u] /\ next'[u] = next[u] /\ asked'[u] = asked[u] /\ chunk'[u] = chunk[u]
<1>1. pc \in [Threads -> Labels] /\ next \in [Flushers -> Labels] /\ chunk \in [Senders -> 0 .. MaxSends]
      /\ asked \in [Senders -> SUBSET Chunks] /\ u \in Threads /\ u \in Flushers /\ u \notin Chunks
  BY ThreadKinds DEF TypeInv, CallTypes, HistoryTypes
<1>2. ASSUME NEW s \in Senders, s # u, sendDAT(s) PROVE pc'[u] = pc[u] /\ next'[u] = next[u] /\ asked'[u] = asked[u] /\ chunk'[u] = chunk[u]
  BY <1>1, <1>2 DEF sendDAT, Goto, history
<1>3. ASSUME NEW s \in Senders, s # u, SenderStep(s)
      PROVE  pc'[u] = pc[u] /\ next'[u] = next[u] /\ asked'[u] = asked[u] /\ chunk'[u] = chunk[u]
  <2>1. asked' = asked \/ \E a : asked' = [asked EXCEPT ![s] = a]
    BY <1>3 DEF SenderStep, SendStep, FlushStep, flushDAT, sendLeave, checkWindow, addDataToBatch, batchRefuses, closeBatchWindow,
     refuseChunk, acceptChunk, directCallback, measureCallback, drain, expireWindow, lockTwice, startCallback,
     dispatchCallback, afterCallback, storeHybrid, ringFull, storeBegin, storeCopy, storeCount, storeAdd, storeSignal,
     flushLeave, flushCallbackBatch, batchCallback, history
  <2>2. asked'[u] = asked[u]
    BY <1>1, <1>3, <2>1
  <2>3. next'[u] = next[u] /\ chunk'[u] = chunk[u]
    BY <1>1, <1>3, SenderFrame
  <2>4. u # chunk[s] \/ ~dispatchCallback(s)
    BY <1>1, DispatchMoves, Sizes, <1>3 DEF Chunks, TypeInv, CallTypes
  <2>5. pc'[u] = pc[u]
    BY <1>1, <1>3, <2>4, SenderFrame
  <2> QED
    BY <2>2, <2>3, <2>5
<1>4. ASSUME NEW n \in Chunks, FlushStep(n) \/ AsyncStep(n)
      PROVE  pc'[u] = pc[u] /\ next'[u] = next[u] /\ asked'[u] = asked[u] /\ chunk'[u] = chunk[u]
  <2>1. n \in Flushers /\ n # u /\ next[n] = "idle"
    BY <1>1, ThreadKinds DEF TypeInv, Places
  <2> QED
    BY <1>1, <1>4, <2>1 DEF FlushStep, AsyncStep, flushCallbackBatch, batchCallback, asyncCallback, asyncEnd, GoOn, Goto, callVars, history
<1>5. ASSUME NEW r \in Receivers, ReceiverStep(r)
      PROVE  pc'[u] = pc[u] /\ next'[u] = next[u] /\ asked'[u] = asked[u] /\ chunk'[u] = chunk[u]
  <2>1. r # u
    BY ThreadKinds
  <2>2. pc'[u] = pc[u]
    BY <1>1, <1>5, <2>1, ReceiverMoves
  <2> QED
    BY <1>5, <2>2 DEF ReceiverStep, recvDAT, RecvStep, recvWait, recvSleep, recvWake, recvTimeout, recvBegin, recvRead, recvCount,
       recvTakeOff, callVars, history
<1> QED
  BY <1>2, <1>3, <1>4, <1>5

LEMMA NextCases ==
    ASSUME [Next]_vars
    PROVE  \/ UNCHANGED vars
           \/ \E s \in Senders : sendDAT(s) \/ SenderStep(s)
           \/ \E n \in Chunks : FlushStep(n) \/ AsyncStep(n)
           \/ \E r \in Receivers : ReceiverStep(r)
  BY DEF Next, Flushers, ReceiverStep, SenderStep

(* What has been said of a chunk is not taken back. *)
LEMMA RetKept ==
    ASSUME TypeInv, OwnersInv, [Next]_vars, NEW n \in Chunks, ret[n] # "none"
    PROVE  ret'[n] = ret[n]
<1>1. ASSUME NEW s \in Senders, SenderStep(s)
      PROVE  ret'[n] = ret[n]
  <2>1. CASE addDataToBatch(s) \/ refuseChunk(s) \/ acceptChunk(s) \/ directCallback(s) \/ storeHybrid(s) \/ ringFull(s)
             \/ storeSignal(s)
    <3>1. InSend(s) /\ ~Decided(s)
      BY <2>1 DEF addDataToBatch, refuseChunk, acceptChunk, directCallback, storeHybrid, ringFull, storeSignal, Pressing, InSend,
         FlushingDAT, Between, Decided
    <3>2. n # chunk[s]
      BY <3>1 DEF OwnersInv, Undecided
    <3> QED
      BY <1>1, <3>2, SenderFrame
  <2>2. CASE ~(addDataToBatch(s) \/ refuseChunk(s) \/ acceptChunk(s) \/ directCallback(s) \/ storeHybrid(s) \/ ringFull(s)
               \/ storeSignal(s))
    BY <1>1, <2>2 DEF SenderStep, SendStep, FlushStep, flushDAT, sendLeave, checkWindow, batchRefuses, closeBatchWindow,
       measureCallback, drain, expireWindow, lockTwice, startCallback, dispatchCallback, afterCallback, storeBegin, storeCopy,
       storeCount, storeAdd, flushLeave, flushCallbackBatch, batchCallback
  <2> QED
    BY <2>1, <2>2
<1>2. CASE UNCHANGED vars
  BY <1>2 DEF vars
<1>3. CASE \E s \in Senders : sendDAT(s)
  BY <1>3 DEF sendDAT
<1>4. CASE \E m \in Chunks : FlushStep(m) \/ AsyncStep(m)
  BY <1>4 DEF FlushStep, AsyncStep, flushCallbackBatch, batchCallback, asyncCallback, asyncEnd
<1>5. CASE \E r \in Receivers : ReceiverStep(r)
  BY <1>5 DEF ReceiverStep, recvDAT, RecvStep, recvWait, recvSleep, recvWake, recvTimeout, recvBegin, recvRead, recvCount,
     recvTakeOff
<1> QED
  BY <1>1, <1>2, <1>3, <1>4, <1>5, NextCases

(* The batch changes when a sender adds to it or somebody empties it. *)
LEMMA BatchFrame ==
    ASSUME [Next]_vars
    PROVE  \/ UNCHANGED <<AccumulatedDataSize, pBatchBuffer>>
           \/ AccumulatedDataSize' = 0
           \/ \E s \in Senders : addDataToBatch(s)
<1>1. ASSUME NEW s \in Senders, SenderStep(s)
      PROVE  UNCHANGED <<AccumulatedDataSize, pBatchBuffer>> \/ AccumulatedDataSize' = 0 \/ addDataToBatch(s)
  BY <1>1 DEF SenderStep, SendStep, FlushStep, flushDAT, sendLeave, checkWindow, batchRefuses, closeBatchWindow,
     refuseChunk, acceptChunk, directCallback, measureCallback, drain, expireWindow, lockTwice, startCallback,
     dispatchCallback, afterCallback, storeHybrid, ringFull, storeBegin, storeCopy, storeCount, storeAdd, storeSignal,
     flushLeave, flushCallbackBatch, batchCallback, batchVars, LeftInBatch
<1>2. CASE UNCHANGED vars
  BY <1>2 DEF vars, batchVars
<1>3. CASE \E s \in Senders : sendDAT(s)
  BY <1>3 DEF sendDAT, batchVars
<1>4. CASE \E m \in Chunks : FlushStep(m) \/ AsyncStep(m)
  BY <1>4 DEF FlushStep, AsyncStep, flushCallbackBatch, batchCallback, asyncCallback, asyncEnd, batchVars, LeftInBatch
<1>5. CASE \E r \in Receivers : ReceiverStep(r)
  BY <1>5 DEF ReceiverStep, recvDAT, RecvStep, recvWait, recvSleep, recvWake, recvTimeout, recvBegin, recvRead, recvCount,
     recvTakeOff, batchVars
<1> QED
  BY <1>1, <1>2, <1>3, <1>4, <1>5, NextCases

LEMMA AddedBatchIs ==
    ASSUME TypeInv, NEW s \in Senders, addDataToBatch(s), NEW i \in 1 .. BatchBufferSize
    PROVE  /\ chunk[s] \in Chunks /\ ret[chunk[s]] \in {"none", "SUCCESS", "BUFFER_FULL", "TIMEOUT"}
           /\ AccumulatedDataSize' = AccumulatedDataSize + size[chunk[s]]
           /\ pBatchBuffer'[i] = IF AccumulatedDataSize < i /\ i <= AccumulatedDataSize' THEN chunk[s] ELSE pBatchBuffer[i]
<1>1. InSend(s)
  BY DEF addDataToBatch, InSend, FlushingDAT, Between
<1>2. chunk[s] \in 0 .. MaxSends /\ size[chunk[s]] \in Nat /\ chunk[s] \in Chunks /\ AccumulatedDataSize \in Nat
  BY <1>1, CallIs, Sizes DEF TypeInv, BatchTypes
<1>3. Len(Bytes(chunk[s])) = size[chunk[s]] /\ \A k \in 1 .. size[chunk[s]] : Bytes(chunk[s])[k] = chunk[s]
  BY <1>2, BytesAre
<1>4. AccumulatedDataSize' = AccumulatedDataSize + size[chunk[s]] /\ pBatchBuffer' = AddedBatch(Bytes(chunk[s]))
  BY DEF addDataToBatch
<1>5. pBatchBuffer'[i] = IF i > AccumulatedDataSize /\ i <= AccumulatedDataSize + size[chunk[s]]
                         THEN Bytes(chunk[s])[i - AccumulatedDataSize] ELSE pBatchBuffer[i]
  BY <1>3, <1>4 DEF AddedBatch
<1>6. i > AccumulatedDataSize /\ i <= AccumulatedDataSize + size[chunk[s]] => i - AccumulatedDataSize \in 1 .. size[chunk[s]]
  BY <1>2
<1>7. i > AccumulatedDataSize /\ i <= AccumulatedDataSize + size[chunk[s]] => Bytes(chunk[s])[i - AccumulatedDataSize] = chunk[s]
  BY <1>3, <1>6
<1>8. ret[chunk[s]] \in {"none", "SUCCESS", "BUFFER_FULL", "TIMEOUT"}
  BY <1>2 DEF TypeInv, CallTypes
<1> QED
  BY <1>2, <1>4, <1>5, <1>7, <1>8

(* IOC_flushDAT has what it needs: the batch has been empty since it began. *)
Emptied(s) == pc[s] = "flushed" \/ (pc[s] = "batched" /\ next[s] = "flushed")

LEMMA EmptiedBefore ==
    ASSUME TypeInv, NEW u \in Senders, [Next]_vars, Emptied(u)'
    PROVE  (Emptied(u) /\ asked'[u] = asked[u]) \/ AccumulatedDataSize' = 0
<1>1. pc \in [Threads -> Labels] /\ next \in [Flushers -> Labels] /\ u \in Threads /\ u \in Flushers
      /\ (Between(u) => next[u] \in {"deliver", "choose", "hybrid", "flushed"}) /\ pc[u] \in SendLabels
  BY ThreadKinds DEF TypeInv, CallTypes, Places
<1>0. AccumulatedDataSize \in Nat
  BY Sizes DEF TypeInv, BatchTypes
<1> USE DEF Emptied
<1>2. CASE UNCHANGED vars
  BY <1>2 DEF vars, history
<1>3. CASE sendDAT(u)
  <2>1. pc'[u] = "window"
    BY <1>1, <1>3 DEF sendDAT, Goto
  <2> QED
    BY <2>1
<1>4. CASE flushDAT(u)
  <2>1. pc'[u] = "close" \/ (~NeedsFlush /\ UNCHANGED batchVars)
    BY <1>1, <1>4 DEF flushDAT, Goto
  <2> QED
    BY <1>0, <2>1 DEF NeedsFlush, batchVars
<1>5. CASE flushCallbackBatch(u)
  BY <1>5 DEF flushCallbackBatch, LeftInBatch
<1>6. CASE batchCallback(u)
  <2>1. pc[u] = "batched" /\ pc'[u] = next[u] /\ asked' = asked
    BY <1>1, <1>6 DEF batchCallback, GoOn, Goto
  <2>2. next[u] = "flushed"
    BY <1>1, <2>1 DEF Between
  <2> QED
    BY <2>1, <2>2
<1>7. CASE SendStep(u)
  <2>1. pc'[u] \notin {"flushed", "batched"}
    <3>1. CASE storeHybrid(u) \/ storeSignal(u)
      BY <3>1, SignalMoves
    <3>2. CASE dispatchCallback(u)
      BY <3>2, DispatchMoves
    <3>3. CASE ~storeHybrid(u) /\ ~storeSignal(u) /\ ~dispatchCallback(u)
      BY <1>1, <1>7, <3>3 DEF SendStep, sendLeave, checkWindow, addDataToBatch, batchRefuses, closeBatchWindow,
         refuseChunk, acceptChunk, directCallback, measureCallback, drain, expireWindow, lockTwice, startCallback,
         afterCallback, ringFull, storeBegin, storeCopy, storeCount, storeAdd, flushLeave, Goto, Return, AfterRefusal
    <3> QED
      BY <3>1, <3>2, <3>3
  <2> QED
    BY <2>1
<1>8. CASE \/ \E s \in Senders : s # u /\ (sendDAT(s) \/ SenderStep(s))
           \/ \E n \in Chunks : FlushStep(n) \/ AsyncStep(n)
           \/ \E r \in Receivers : ReceiverStep(r)
  BY <1>8, OthersFrame
<1> QED
  BY <1>2, <1>3, <1>4, <1>5, <1>6, <1>7, <1>8, NextCases DEF SenderStep, FlushStep

LEMMA NextFlush ==
    ASSUME TypeInv, TypeInv', OwnersInv, FlushInv, [Next]_vars
    PROVE  FlushInv'
<1>1. AskedAccepted /\ FlushedEmpties /\ AccumulatedDataSize \in 0 .. BatchBufferSize /\ AccumulatedDataSize' \in 0 .. BatchBufferSize
      /\ BatchBufferSize \in Nat
  BY Sizes DEF FlushInv, TypeInv, BatchTypes
<1>2. Accepted \subseteq Accepted'
  BY RetKept DEF Accepted
<1>3. ASSUME NEW u \in Senders
      PROVE  asked'[u] \subseteq Accepted'
  <2>1. asked[u] \subseteq Accepted /\ asked \in [Senders -> SUBSET Chunks]
    BY <1>1 DEF AskedAccepted, TypeInv, HistoryTypes
  <2>2. asked'[u] = asked[u] \/ asked'[u] = Accepted \/ asked'[u] = {}
    <3>1. CASE UNCHANGED vars
      BY <3>1 DEF vars, history
    <3>2. CASE \/ \E s \in Senders : s # u /\ (sendDAT(s) \/ SenderStep(s))
               \/ \E n \in Chunks : FlushStep(n) \/ AsyncStep(n)
               \/ \E r \in Receivers : ReceiverStep(r)
      BY <3>2, OthersFrame
    <3>3. CASE sendDAT(u) \/ SenderStep(u)
      <4>1. asked' = asked \/ asked' = [asked EXCEPT ![u] = Accepted] \/ asked' = [asked EXCEPT ![u] = {}]
        BY <3>3 DEF sendDAT, SenderStep, SendStep, FlushStep, flushDAT, sendLeave, checkWindow, addDataToBatch, batchRefuses,
           closeBatchWindow, refuseChunk, acceptChunk, directCallback, measureCallback, drain, expireWindow, lockTwice,
           startCallback, dispatchCallback, afterCallback, storeHybrid, ringFull, storeBegin, storeCopy, storeCount, storeAdd,
           storeSignal, flushLeave, flushCallbackBatch, batchCallback, history
      <4> QED
        BY <2>1, <4>1
    <3> QED
      BY <3>1, <3>2, <3>3, NextCases
  <2> QED
    BY <1>2, <2>1, <2>2
<1>4. ASSUME NEW u \in Senders, Emptied(u)', NEW i \in 1 .. AccumulatedDataSize'
      PROVE  pBatchBuffer'[i] \notin asked'[u]
  <2>1. Emptied(u) /\ asked'[u] = asked[u]
    <3>1. AccumulatedDataSize' # 0
      BY <1>1
    <3> QED
      BY <1>4, <3>1, EmptiedBefore
  <2>2. \A j \in 1 .. AccumulatedDataSize : pBatchBuffer[j] \notin asked[u]
    BY <1>1, <2>1 DEF FlushedEmpties, Emptied
  <2>3. CASE UNCHANGED <<AccumulatedDataSize, pBatchBuffer>>
    BY <2>1, <2>2, <2>3
  <2>4. ASSUME NEW s \in Senders, addDataToBatch(s)
        PROVE  pBatchBuffer'[i] \notin asked'[u]
    <3>1. i \in 1 .. BatchBufferSize
      BY <1>1
    <3>2. chunk[s] \in Chunks
          /\ pBatchBuffer'[i] = IF AccumulatedDataSize < i /\ i <= AccumulatedDataSize' THEN chunk[s] ELSE pBatchBuffer[i]
      BY <2>4, <3>1, AddedBatchIs
    <3>3. InSend(s) /\ ~Decided(s)
      BY <2>4 DEF addDataToBatch, InSend, FlushingDAT, Between, Decided
    <3>4. ret[chunk[s]] = "none"
      BY <3>3 DEF OwnersInv, Undecided
    <3>5. chunk[s] \notin asked[u]
      BY <1>1, <3>4 DEF AskedAccepted, Accepted
    <3>6. CASE AccumulatedDataSize < i
      BY <2>1, <3>2, <3>5, <3>6
    <3>7. CASE ~(AccumulatedDataSize < i)
      <4>1. i \in 1 .. AccumulatedDataSize
        BY <1>1, <3>1, <3>7
      <4> QED
        BY <2>1, <2>2, <3>2, <3>7, <4>1
    <3> QED
      BY <3>6, <3>7
  <2>5. AccumulatedDataSize' # 0
    BY <1>1
  <2> QED
    BY <2>3, <2>4, <2>5, BatchFrame
<1>5. FlushedEmpties'
  BY <1>4 DEF FlushedEmpties, Emptied
<1>6. AskedAccepted'
  BY <1>3 DEF AskedAccepted
<1> QED
  BY <1>5, <1>6 DEF FlushInv

LEMMA InitOwners == Init => OwnersInv /\ FlushInv
<1> SUFFICES ASSUME Init PROVE OwnersInv /\ FlushInv
  OBVIOUS
<1>1. OwnChunks
  BY DEF Init, OwnChunks
<1>2. Undecided
  BY ThreadKinds DEF Init, Undecided, InSend, FlushingDAT, Between
<1>3. Unsent
  BY ThreadKinds DEF Init, Unsent
<1>4. AskedAccepted
  BY DEF Init, AskedAccepted
<1>5. FlushedEmpties
  BY ThreadKinds DEF Init, FlushedEmpties
<1> QED
  BY <1>1, <1>2, <1>3, <1>4, <1>5 DEF OwnersInv, FlushInv

LEMMA Owned == Spec => []OwnersInv
<1>1. Init => OwnersInv
  BY InitOwners
<1>2. TypeInv /\ TypeInv' /\ OwnersInv /\ [Next]_vars => OwnersInv'
  BY NextOwners
<1> QED
  BY <1>1, <1>2, Typed, PTL DEF Spec

(* When IOC_flushDAT returns, nothing accepted before the call is left in the batch, whoever flushed, batched or
   called back at the same time. *)
THEOREM FlushLeavesNothing == Spec => []FlushEmpties
<1>1. Init => FlushInv
  BY InitOwners
<1>2. TypeInv /\ TypeInv' /\ OwnersInv /\ FlushInv /\ [Next]_vars => FlushInv'
  BY NextFlush
<1>3. FlushInv => FlushEmpties
  BY DEF FlushInv, FlushedEmpties, FlushEmpties
<1> QED
  BY <1>1, <1>2, <1>3, Typed, Owned, PTL DEF Spec

-----------------------------------------------------------------------------
(* The locals of the threads, and where the receivers are, when somebody else moves. *)
LEMMA HeldFrame ==
    ASSUME TypeInv, NEW t \in Flushers, SenderStep(t) \/ FlushStep(t) \/ AsyncStep(t) \/ sendDAT(t)
    PROVE  \A u \in Threads : u # t => held'[u] = held[u]
<1>1. held \in [Threads -> 0 .. SizeT - 1]
  BY DEF TypeInv, CallTypes
<1>2. held' = held \/ \E k : held' = [held EXCEPT ![t] = k]
  BY DEF SenderStep, SendStep, FlushStep, AsyncStep, flushDAT, sendDAT, sendLeave, checkWindow, addDataToBatch, batchRefuses,
     closeBatchWindow, refuseChunk, acceptChunk, directCallback, measureCallback, drain, expireWindow, lockTwice,
     startCallback, dispatchCallback, afterCallback, storeHybrid, ringFull, storeBegin, storeCopy, storeCount, storeAdd,
     storeSignal, flushLeave, flushCallbackBatch, batchCallback, asyncCallback, asyncEnd
<1> QED
  BY <1>1, <1>2

LEMMA ReceiverFrame ==
    ASSUME TypeInv, NEW q \in Receivers,
           \/ \E s \in Senders : sendDAT(s) \/ SenderStep(s)
           \/ \E n \in Chunks : FlushStep(n) \/ AsyncStep(n)
           \/ \E r \in Receivers : r # q /\ ReceiverStep(r)
    PROVE  held'[q] = held[q] /\ (pc'[q] = pc[q] \/ (pc[q] = "asleep" /\ pc'[q] = "awake"))
<1>1. pc \in [Threads -> Labels] /\ held \in [Threads -> 0 .. SizeT - 1] /\ q \in Threads /\ q \notin Senders /\ q \notin Chunks
  BY ThreadKinds DEF TypeInv, CallTypes
<1>2. ASSUME NEW s \in Senders, sendDAT(s) \/ SenderStep(s)
      PROVE  held'[q] = held[q] /\ (pc'[q] = pc[q] \/ (pc[q] = "asleep" /\ pc'[q] = "awake"))
  <2>1. held'[q] = held[q]
    BY <1>1, <1>2, HeldFrame, ThreadKinds
  <2>2. CASE sendDAT(s) \/ sendLeave(s)
    BY <1>1, <2>1, <2>2 DEF sendDAT, sendLeave, Goto
  <2>3. CASE dispatchCallback(s)
    <3>1. q # chunk[s]
      BY <1>1, <2>3, DispatchMoves, Sizes DEF Chunks, TypeInv, CallTypes
    <3> QED
      BY <1>1, <2>1, <2>3, <3>1, DispatchMoves
  <2>4. CASE storeHybrid(s) \/ storeSignal(s)
    BY <2>1, <2>4, SignalMoves
  <2>5. CASE ~sendDAT(s) /\ ~sendLeave(s) /\ ~dispatchCallback(s) /\ ~storeHybrid(s) /\ ~storeSignal(s)
    <3>1. PICK l, k : Moves(s, l, k)
      BY <1>2, <2>5, SendMoves DEF SenderStep
    <3> QED
      BY <1>1, <2>1, <3>1 DEF Moves
  <2> QED
    BY <2>2, <2>3, <2>4, <2>5
<1>3. ASSUME NEW n \in Chunks, FlushStep(n) \/ AsyncStep(n)
      PROVE  held'[q] = held[q] /\ pc'[q] = pc[q]
  <2>1. n \in Flushers /\ n # q
    BY <1>1, ThreadKinds
  <2> QED
    BY <1>1, <1>3, <2>1, HeldFrame DEF FlushStep, AsyncStep, flushCallbackBatch, batchCallback, asyncCallback, asyncEnd, GoOn, Goto
<1>4. ASSUME NEW r \in Receivers, r # q, ReceiverStep(r)
      PROVE  held'[q] = held[q] /\ pc'[q] = pc[q]
  <2>1. held' = held \/ \E k : held' = [held EXCEPT ![r] = k]
    BY <1>4 DEF ReceiverStep, recvDAT, RecvStep, recvWait, recvSleep, recvWake, recvTimeout, recvBegin, recvRead, recvCount,
       recvTakeOff
  <2> QED
    BY <1>1, <1>4, <2>1, ReceiverMoves
<1> QED
  BY <1>2, <1>3, <1>4

(* The receiver inside the section of the Mutex is the one that holds it. *)
LEMMA NextMutex ==
    ASSUME TypeInv, MutexInv, [Next]_vars
    PROVE  MutexInv'
<1>1. pc \in [Threads -> Labels] /\ \A r \in Receivers : r \in Threads /\ r # Free
  BY ThreadKinds DEF TypeInv, CallTypes
<1>2. CASE UNCHANGED vars
  BY <1>2 DEF MutexInv, vars, ringVars
<1>3. CASE \/ \E s \in Senders : sendDAT(s) \/ SenderStep(s)
           \/ \E n \in Chunks : FlushStep(n) \/ AsyncStep(n)
  <2>1. Mutex' = Mutex
    <3>1. ASSUME NEW s, sendDAT(s) \/ flushDAT(s) \/ FlushStep(s) \/ AsyncStep(s)
          PROVE  Mutex' = Mutex
      BY <3>1 DEF sendDAT, flushDAT, FlushStep, AsyncStep, flushCallbackBatch, batchCallback, asyncCallback, asyncEnd, ringVars
    <3>2. ASSUME NEW s, \/ sendLeave(s) \/ checkWindow(s) \/ addDataToBatch(s) \/ batchRefuses(s) \/ closeBatchWindow(s)
                        \/ refuseChunk(s) \/ acceptChunk(s) \/ directCallback(s) \/ measureCallback(s) \/ drain(s)
          PROVE  Mutex' = Mutex
      BY <3>2 DEF sendLeave, checkWindow, addDataToBatch, batchRefuses, closeBatchWindow, refuseChunk, acceptChunk,
         directCallback, measureCallback, drain, ringVars
    <3>3. ASSUME NEW s, \/ expireWindow(s) \/ lockTwice(s) \/ startCallback(s) \/ dispatchCallback(s) \/ afterCallback(s)
                        \/ storeHybrid(s) \/ ringFull(s)
          PROVE  Mutex' = Mutex
      BY <3>3 DEF expireWindow, lockTwice, startCallback, dispatchCallback, afterCallback, storeHybrid, ringFull, ringVars
    <3>4. ASSUME NEW s, storeBegin(s) \/ storeCopy(s) \/ storeCount(s) \/ storeAdd(s) \/ storeSignal(s) \/ flushLeave(s)
          PROVE  Mutex' = Mutex
      BY <3>4 DEF storeBegin, storeCopy, storeCount, storeAdd, storeSignal, flushLeave, ringVars
    <3> QED
      BY <1>3, <3>1, <3>2, <3>3, <3>4 DEF SenderStep, SendStep
  <2>2. \A q \in Receivers : pc'[q] = pc[q] \/ (pc[q] = "asleep" /\ pc'[q] = "awake")
    BY <1>3, ReceiverFrame
  <2> QED
    BY <2>1, <2>2 DEF MutexInv, SectionLabels
<1>4. ASSUME NEW r \in Receivers, ReceiverStep(r)
      PROVE  MutexInv'
  <2>1. \A q \in Receivers : q # r => pc'[q] = pc[q] \/ (pc[q] = "asleep" /\ pc'[q] = "awake")
    BY <1>4, ReceiverFrame
  <2>2. /\ Mutex \in {r, Free} /\ Mutex' \in {r, Free}
        /\ pc'[r] \in SectionLabels <=> Mutex' = r
    <3>1. pc[r] \in SectionLabels <=> Mutex = r
      BY DEF MutexInv
    <3>2. CASE recvDAT(r)
      BY <1>1, <3>2 DEF recvDAT, Goto, SectionLabels
    <3>3. CASE recvWait(r)
      BY <1>1, <3>1, <3>3 DEF recvWait, Goto, SectionLabels
    <3>4. CASE recvSleep(r) \/ recvTakeOff(r)
      BY <1>1, <3>1, <3>4 DEF recvSleep, recvTakeOff, Goto, SectionLabels
    <3>5. CASE recvWake(r)
      BY <1>1, <3>5 DEF recvWake, Goto, SectionLabels
    <3>6. CASE recvTimeout(r)
      BY <1>1, <3>6 DEF recvTimeout, Goto, SectionLabels, ringVars
    <3>7. CASE recvBegin(r) \/ recvRead(r) \/ recvCount(r)
      BY <1>1, <3>1, <3>7 DEF recvBegin, recvRead, recvCount, Goto, SectionLabels, ringVars
    <3> QED
      BY <1>4, <3>2, <3>3, <3>4, <3>5, <3>6, <3>7 DEF ReceiverStep, RecvStep
  <2>3. ASSUME NEW q \in Receivers, q # r PROVE pc'[q] \in SectionLabels <=> Mutex' = q
    <3>1. Mutex # q /\ Mutex' # q
      BY <1>1, <2>2, <2>3
    <3>2. pc[q] \notin SectionLabels
      BY <3>1 DEF MutexInv
    <3> QED
      BY <2>1, <2>3, <3>1, <3>2 DEF SectionLabels
  <2> QED
    BY <2>2, <2>3 DEF MutexInv
<1> QED
  BY <1>2, <1>3, <1>4, NextCases

LEMMA Mutexed == Spec => []MutexInv
<1>1. Init => MutexInv
  BY ThreadKinds DEF Init, MutexInv, SectionLabels
<1>2. TypeInv /\ MutexInv /\ [Next]_vars => MutexInv'
  BY NextMutex
<1> QED
  BY <1>1, <1>2, Typed, PTL DEF Spec

-----------------------------------------------------------------------------
StoringLabels == {"copy", "count", "add up"}
ReadingLabels == {"read", "count", "take off"}

LEMMA Streams ==
    ASSUME TypeInv
    PROVE  /\ Len(stored) \in Nat /\ Len(received) \in Nat /\ stored \in Seq(0 .. MaxSends) /\ received \in Seq(0 .. MaxSends)
           /\ AvailableData \in Nat /\ AvailableData < SizeT /\ BufferSize \in Nat /\ SizeT \in Nat /\ BufferSize < SizeT
           /\ \A t \in Threads : held[t] \in Nat
<1>1. Len(stored) \in Nat /\ Len(received) \in Nat /\ stored \in Seq(0 .. MaxSends) /\ received \in Seq(0 .. MaxSends)
  BY LenProperties DEF TypeInv, HistoryTypes
<1>2. AvailableData \in Nat /\ AvailableData < SizeT /\ BufferSize \in Nat /\ SizeT \in Nat /\ BufferSize < SizeT
  BY Sizes DEF TypeInv, RingTypes
<1>3. \A t \in Threads : held[t] \in Nat
  BY Sizes DEF TypeInv, CallTypes
<1> QED
  BY <1>1, <1>2, <1>3

(* A step that leaves the ring and those who use it alone. *)
LEMMA RingFrame ==
    ASSUME RingInv, raced' = raced, UNCHANGED <<pDataBuffer, DataStart, DataEnd, AvailableData, stored, received>>,
           \A u \in Senders : pc[u] \in StoringLabels \/ pc'[u] \in StoringLabels =>
               pc'[u] = pc[u] /\ held'[u] = held[u] /\ size'[chunk'[u]] = size[chunk[u]],
           \A q \in Receivers : pc[q] \in ReadingLabels \/ pc'[q] \in ReadingLabels => pc'[q] = pc[q] /\ held'[q] = held[q]
    PROVE  RingInv'
<1>1. SUFFICES ASSUME ~raced' PROVE Positions' /\ Content' /\ Alone' /\ Counter'
  BY DEF RingInv
<1>2. Positions /\ Content /\ Alone /\ Counter
  BY <1>1 DEF RingInv
<1>3. Storing' = Storing /\ Reading' = Reading
  BY DEF Storing, Reading, StoringLabels, ReadingLabels
<1>4. /\ \A s \in Storing : pc'[s] = pc[s] /\ held'[s] = held[s] /\ size'[chunk'[s]] = size[chunk[s]]
      /\ \A r \in Reading : pc'[r] = pc[r] /\ held'[r] = held[r]
  BY DEF Storing, Reading, StoringLabels, ReadingLabels
<1>5. Positions' /\ Content'
  BY <1>2 DEF Positions, Content
<1>6. Alone'
  BY <1>2, <1>3 DEF Alone
<1>7. Counter'
  <2>1. Storing' = {} /\ Reading' = {} => AvailableData' = Len(stored') - Len(received')
    BY <1>2, <1>3 DEF Counter
  <2>2. ASSUME NEW s \in Storing'
        PROVE  /\ pc'[s] = "copy" => /\ AvailableData' = Len(stored') - Len(received') /\ held'[s] = DataEnd'
                                     /\ Len(stored') - Len(received') + size'[chunk'[s]] <= BufferSize
               /\ pc'[s] \in {"count", "add up"} => AvailableData' + size'[chunk'[s]] = Len(stored') - Len(received')
               /\ pc'[s] = "add up" => held'[s] = AvailableData'
    BY <1>2, <1>3, <1>4 DEF Counter
  <2>3. ASSUME NEW r \in Reading'
        PROVE  /\ pc'[r] = "read" => AvailableData' = Len(stored') - Len(received') /\ held'[r] \in 1 .. Len(stored') - Len(received')
               /\ pc'[r] = "count" => AvailableData' = Len(stored') - Len(received') + held'[r]
               /\ pc'[r] = "take off" => held'[r] = Len(stored') - Len(received')
    BY <1>2, <1>3, <1>4 DEF Counter
  <2> QED
    BY <2>1, <2>2, <2>3 DEF Counter
<1> QED
  BY <1>5, <1>6, <1>7

(* The bytes of a chunk are appended: the slots of the bytes not yet read are left alone. *)
LEMMA StoreBytes ==
    ASSUME TypeInv, Positions, Content, NEW bytes \in Seq(0 .. MaxSends),
           Len(stored) - Len(received) + Len(bytes) <= BufferSize,
           stored' = stored \o bytes, pDataBuffer' = RingWith(DataEnd, bytes), DataEnd' = Ring(DataEnd + Len(bytes)),
           received' = received, DataStart' = DataStart
    PROVE  Positions' /\ Content' /\ Len(stored') = Len(stored) + Len(bytes)
<1>1. /\ Len(stored) \in Nat /\ Len(received) \in Nat /\ stored \in Seq(0 .. MaxSends) /\ BufferSize \in Nat /\ Len(bytes) \in Nat
      /\ Len(received) <= Len(stored) /\ Len(stored) - Len(received) <= BufferSize
      /\ DataStart = Ring(Len(received)) /\ DataEnd = Ring(Len(stored))
  BY Streams, LenProperties DEF Positions
<1>2. /\ Len(stored') = Len(stored) + Len(bytes)
      /\ \A i \in 1 .. Len(stored) + Len(bytes) : stored'[i] = IF i <= Len(stored) THEN stored[i] ELSE bytes[i - Len(stored)]
  BY <1>1, ConcatProperties
<1>3. Ring(DataEnd + Len(bytes)) = Ring(Len(stored) + Len(bytes))
  BY <1>1, RingPlus
<1>4. Positions'
  BY <1>1, <1>2, <1>3 DEF Positions
<1>5. ASSUME NEW i \in 1 .. Len(received) PROVE received'[i] = stored'[i]
  <2>1. i \in 1 .. Len(stored) + Len(bytes) /\ i <= Len(stored) /\ received[i] = stored[i]
    BY <1>1 DEF Content
  <2> QED
    BY <1>2, <2>1
<1>6. ASSUME NEW i \in Len(received) + 1 .. Len(stored) + Len(bytes) PROVE stored'[i] = pDataBuffer'[Ring(i - 1)]
  <2> DEFINE k == i - 1
             b == Len(stored)
  <2>1. k \in Int /\ b \in Nat /\ b + Len(bytes) - BufferSize <= k /\ k < b + Len(bytes) /\ Len(bytes) <= BufferSize /\ k + 1 = i
    BY <1>1
  <2>2. i \in 1 .. Len(stored) + Len(bytes)
    BY <1>1
  <2>3. k >= b => k - b + 1 = i - b
    BY <2>1
  <2>4. k >= b <=> ~(i <= b)
    BY <1>1, <2>1
  <2> HIDE DEF k
  <2>5. stored'[i] = IF i <= b THEN stored[i] ELSE bytes[i - b]
    BY <1>2, <2>2
  <2>6. DataEnd = Ring(b)
    BY <1>1
  <2>9. i <= b => stored[i] = pDataBuffer[Ring(i - 1)]
    BY <1>1 DEF Content
  <2> HIDE DEF b
  <2>7. RingWith(Ring(b), bytes)[Ring(k)] = IF k >= b THEN bytes[k - b + 1] ELSE pDataBuffer[Ring(k)]
    BY <2>1, RingWithAt
  <2>8. pDataBuffer'[Ring(k)] = IF i <= b THEN pDataBuffer[Ring(k)] ELSE bytes[i - b]
    BY <2>3, <2>4, <2>6, <2>7
  <2> QED
    BY <2>5, <2>8, <2>9 DEF k
<1>7. Content'
  BY <1>1, <1>2, <1>5, <1>6 DEF Content
<1>8. Len(stored') = Len(stored) + Len(bytes)
  BY <1>2
<1> QED
  BY <1>4, <1>7, <1>8

LEMMA RingUsers ==
    /\ \A s \in Senders : s \in Storing <=> pc[s] \in StoringLabels
    /\ \A r \in Receivers : r \in Reading <=> pc[r] \in ReadingLabels
    /\ Storing \subseteq Senders /\ Reading \subseteq Receivers
    /\ \A s \in Senders : pc[s] \in StoringLabels => InSend(s)
  BY DEF Storing, Reading, StoringLabels, ReadingLabels, InSend, FlushingDAT, Between

LEMMA OneReader ==
    ASSUME MutexInv, NEW r \in Reading
    PROVE  Mutex = r /\ Reading = {r}
<1>1. \A q \in Reading : Mutex = q
  BY DEF MutexInv, Reading, SectionLabels
<1> QED
  BY <1>1

(* The chunk of a call in progress keeps its length, and a sender that uses the ring stays where it is, when another thread moves. *)
LEMMA StoringFrame ==
    ASSUME TypeInv, NEW u \in Senders, pc[u] \in StoringLabels \/ pc'[u] \in StoringLabels,
           \/ \E s \in Senders : s # u /\ (sendDAT(s) \/ SenderStep(s))
           \/ \E n \in Chunks : FlushStep(n) \/ AsyncStep(n)
           \/ \E r \in Receivers : ReceiverStep(r)
    PROVE  pc'[u] = pc[u] /\ held'[u] = held[u] /\ size'[chunk'[u]] = size[chunk[u]]
<1>1. pc'[u] = pc[u] /\ chunk'[u] = chunk[u] /\ u \in Threads
  BY OthersFrame, ThreadKinds
<1>2. InSend(u)
  BY <1>1, RingUsers
<1>3. chunk[u] \in 1 .. sends /\ sends \in 0 .. MaxSends /\ chunk[u] \in Chunks
  BY <1>2, CallIs DEF TypeInv, CallTypes
<1>4. size'[chunk[u]] = size[chunk[u]]
  <2>1. ASSUME NEW s \in Senders, sendDAT(s) PROVE size'[chunk[u]] = size[chunk[u]]
    <3>1. PICK k \in 1 .. MaxChunk : size' = [size EXCEPT ![sends + 1] = k]
      BY <2>1 DEF sendDAT
    <3>2. chunk[u] # sends + 1
      BY <1>3
    <3> QED
      BY <1>3, <3>1, <3>2 DEF TypeInv, CallTypes
  <2>2. ASSUME NEW s \in Senders, SenderStep(s) PROVE size' = size
    BY <2>2, SenderFrame
  <2>3. CASE \/ \E n \in Chunks : FlushStep(n) \/ AsyncStep(n)
             \/ \E r \in Receivers : ReceiverStep(r)
    BY <2>3 DEF FlushStep, AsyncStep, flushCallbackBatch, batchCallback, asyncCallback, asyncEnd, ReceiverStep, recvDAT, RecvStep,
       recvWait, recvSleep, recvWake, recvTimeout, recvBegin, recvRead, recvCount, recvTakeOff, callVars
  <2> QED
    BY <2>1, <2>2, <2>3
<1>5. held'[u] = held[u]
  <2>1. ASSUME NEW s \in Senders, s # u, sendDAT(s) \/ SenderStep(s) PROVE held'[u] = held[u]
    BY <1>1, <2>1, HeldFrame, ThreadKinds
  <2>2. ASSUME NEW n \in Chunks, FlushStep(n) \/ AsyncStep(n) PROVE held'[u] = held[u]
    BY <1>1, <2>2, HeldFrame, ThreadKinds
  <2>3. ASSUME NEW r \in Receivers, ReceiverStep(r) PROVE held'[u] = held[u]
    <3>1. held' = held \/ \E k : held' = [held EXCEPT ![r] = k]
      BY <2>3 DEF ReceiverStep, recvDAT, RecvStep, recvWait, recvSleep, recvWake, recvTimeout, recvBegin, recvRead, recvCount,
         recvTakeOff
    <3> QED
      BY <1>1, <3>1, ThreadKinds DEF TypeInv, CallTypes
  <2> QED
    BY <2>1, <2>2, <2>3
<1> QED
  BY <1>1, <1>4, <1>5

(* The store of a chunk: what is checked, the copy, the counter. *)
StoreStep(s) == storeHybrid(s) \/ storeBegin(s) \/ storeCopy(s) \/ storeCount(s) \/ storeAdd(s)

LEMMA StoreFrame ==
    ASSUME TypeInv, NEW s \in Senders, StoreStep(s)
    PROVE  /\ \A u \in Senders : u # s => pc'[u] = pc[u] /\ held'[u] = held[u] /\ size'[chunk'[u]] = size[chunk[u]]
           /\ size' = size /\ chunk' = chunk /\ Reading' = Reading
           /\ \A q \in Receivers : q \in Reading => pc'[q] = pc[q] /\ held'[q] = held[q]
           /\ chunk[s] \in 0 .. MaxSends /\ size[chunk[s]] \in Nat /\ size[chunk[s]] <= BufferSize
           /\ Bytes(chunk[s]) \in Seq(0 .. MaxSends) /\ Len(Bytes(chunk[s])) = size[chunk[s]]
<1>1. SenderStep(s)
  BY DEF StoreStep, SenderStep, SendStep
<1>2. size' = size /\ chunk' = chunk
  BY DEF StoreStep, storeHybrid, storeBegin, storeCopy, storeCount, storeAdd, callVars
<1>3. \A u \in Senders : u # s => pc'[u] = pc[u] /\ held'[u] = held[u]
  BY <1>1, OthersFrame, HeldFrame, ThreadKinds
<1>4. \A q \in Receivers : held'[q] = held[q] /\ (pc'[q] = pc[q] \/ (pc[q] = "asleep" /\ pc'[q] = "awake"))
  BY <1>1, ReceiverFrame
<1>5. InSend(s)
  BY DEF StoreStep, storeHybrid, storeBegin, storeCopy, storeCount, storeAdd, InSend, FlushingDAT, Between
<1>6. chunk[s] \in 0 .. MaxSends /\ size[chunk[s]] \in Nat /\ size[chunk[s]] <= BufferSize
  BY <1>5, CallIs, Sizes
<1>7. Bytes(chunk[s]) \in Seq(0 .. MaxSends) /\ Len(Bytes(chunk[s])) = size[chunk[s]]
  BY <1>6, BytesAre
<1>8. Reading' = Reading
  BY <1>4 DEF Reading
<1>9. \A q \in Receivers : q \in Reading => pc'[q] = pc[q] /\ held'[q] = held[q]
  BY <1>4 DEF Reading
<1> QED
  BY <1>2, <1>3, <1>6, <1>7, <1>8, <1>9

(* With nobody using the ring it holds what is waiting: there is room for so much more. *)
LEMMA RoomLeft ==
    ASSUME TypeInv, Positions, Counter, Storing = {}, Reading = {}
    PROVE  AvailableData = Len(stored) - Len(received) /\ FreeSpace = BufferSize - AvailableData
<1>1. AvailableData = Len(stored) - Len(received) /\ Len(stored) - Len(received) <= BufferSize /\ Len(received) <= Len(stored)
  BY DEF Counter, Positions
<1>2. BufferSize - AvailableData \in 0 .. SizeT - 1 /\ SizeT \in Nat \ {0}
  BY <1>1, Streams, Sizes
<1>3. (BufferSize - AvailableData) % SizeT = BufferSize - AvailableData
  BY <1>2
<1> QED
  BY <1>1, <1>3 DEF FreeSpace

LEMMA StoreKeepsRing ==
    ASSUME TypeInv, MutexInv, RingInv, NEW s \in Senders, StoreStep(s)
    PROVE  RingInv'
<1>1. SUFFICES ASSUME ~raced' PROVE Positions' /\ Content' /\ Alone' /\ Counter'
  BY DEF RingInv
<1>2. ~raced
  BY <1>1 DEF StoreStep, storeHybrid, storeBegin, storeCopy, storeCount, storeAdd, history
<1>3. Positions /\ Content /\ Alone /\ Counter
  BY <1>2 DEF RingInv
<1>4. /\ \A u \in Senders : u # s => pc'[u] = pc[u] /\ held'[u] = held[u] /\ size'[chunk'[u]] = size[chunk[u]]
      /\ size' = size /\ chunk' = chunk /\ Reading' = Reading
      /\ chunk[s] \in 0 .. MaxSends /\ size[chunk[s]] \in Nat /\ size[chunk[s]] <= BufferSize
      /\ Bytes(chunk[s]) \in Seq(0 .. MaxSends) /\ Len(Bytes(chunk[s])) = size[chunk[s]]
  BY StoreFrame
<1>5. Storing' \subseteq Storing \cup {s} /\ s \in Threads /\ pc \in [Threads -> Labels] /\ held \in [Threads -> 0 .. SizeT - 1]
  BY <1>4, ThreadKinds DEF Storing, TypeInv, CallTypes
<1>a. ASSUME pc'[s] \in StoringLabels PROVE s \in Storing'
  BY <1>a DEF Storing, StoringLabels
<1>b. ASSUME pc'[s] \notin StoringLabels PROVE s \notin Storing'
  BY <1>b DEF Storing, StoringLabels
<1>6. /\ Len(stored) \in Nat /\ Len(received) \in Nat /\ AvailableData \in Nat /\ AvailableData < SizeT /\ BufferSize \in Nat
      /\ SizeT \in Nat /\ BufferSize < SizeT
      /\ Len(received) <= Len(stored) /\ Len(stored) - Len(received) <= BufferSize
  BY <1>3, Streams DEF Positions
<1> DEFINE k == size[chunk[s]]
<1>7. CASE storeHybrid(s)
  <2>1. Storing = {} /\ Reading = {}
    <3>1. setup = "callback"
      BY <1>7 DEF storeHybrid, TypeInv, Places
    <3>2. Storing = {}
      BY <3>1 DEF Storing, TypeInv, Places
    <3>3. Reading = {}
      BY <1>7, OneReader, ThreadKinds DEF storeHybrid, Reading
    <3> QED
      BY <3>2, <3>3
  <2>2. pc'[s] = "leave"
    BY <1>7, SignalMoves
  <2>3. Storing' = {} /\ Reading' = {}
    <3>1. Reading' = {}
      BY <1>4, <2>1
    <3>2. Storing' \subseteq {s}
      BY <1>5, <2>1
    <3>3. pc'[s] \notin StoringLabels
      BY <2>2 DEF StoringLabels
    <3>4. s \notin Storing'
      BY <1>b, <3>3
    <3> QED
      BY <3>1, <3>2, <3>4
  <2>4. AvailableData = Len(stored) - Len(received) /\ FreeSpace = BufferSize - AvailableData
    BY <1>3, <2>1, RoomLeft
  <2>5. CASE k <= FreeSpace
    <3>1. /\ pDataBuffer' = RingWith(DataEnd, Bytes(chunk[s])) /\ DataEnd' = Ring(DataEnd + k)
          /\ AvailableData' = (AvailableData + k) % SizeT /\ stored' = stored \o Bytes(chunk[s])
          /\ received' = received /\ DataStart' = DataStart
      BY <1>7, <2>5 DEF storeHybrid
    <3>2. Len(stored) - Len(received) + Len(Bytes(chunk[s])) <= BufferSize
      BY <1>4, <1>6, <2>4, <2>5
    <3>3. DataEnd' = Ring(DataEnd + Len(Bytes(chunk[s])))
      BY <1>4, <3>1
    <3>4. Positions' /\ Content' /\ Len(stored') = Len(stored) + Len(Bytes(chunk[s]))
      BY <1>3, <1>4, <3>1, <3>2, <3>3, StoreBytes
    <3> HIDE DEF k
    <3>5. Len(Bytes(chunk[s])) = k /\ k \in Nat
      BY <1>4 DEF k
    <3>6. AvailableData + k \in 0 .. SizeT - 1
      BY <1>6, <2>4, <3>2, <3>5
    <3>7. AvailableData' = AvailableData + k
      BY <3>1, <3>6, ModSmall
    <3>8. AvailableData' = Len(stored') - Len(received')
      <4>1. Len(stored') = Len(stored) + k
        BY <3>4, <3>5
      <4>2. Len(received') = Len(received)
        BY <3>1
      <4>3. AvailableData' = Len(stored) - Len(received) + k
        BY <2>4, <3>7
      <4> QED
        BY <1>6, <3>5, <4>1, <4>2, <4>3
    <3> QED
      BY <2>3, <3>4, <3>8 DEF Alone, Counter
  <2>6. CASE ~(k <= FreeSpace)
    <3>1. UNCHANGED <<pDataBuffer, DataStart, DataEnd, AvailableData, stored, received>>
      BY <1>7, <2>6 DEF storeHybrid
    <3> QED
      BY <1>3, <2>3, <2>4, <3>1 DEF Positions, Content, Alone, Counter
  <2> QED
    BY <2>5, <2>6
<1>8. CASE storeBegin(s)
  <2>1. Storing = {} /\ Reading = {}
    BY <1>1, <1>8 DEF storeBegin
  <2>2. /\ UNCHANGED <<pDataBuffer, DataStart, DataEnd, AvailableData, stored, received>>
        /\ held'[s] = DataEnd /\ pc'[s] = "copy" /\ k <= FreeSpace
    BY <1>5, <1>8 DEF storeBegin, Goto, ringVars
  <2>3. Storing' = {s} /\ Reading' = {}
    <3>1. Reading' = {}
      BY <1>4, <2>1
    <3>2. Storing' \subseteq {s}
      BY <1>5, <2>1
    <3>3. pc'[s] \in StoringLabels
      BY <2>2 DEF StoringLabels
    <3>4. s \in Storing'
      BY <1>a, <3>3
    <3> QED
      BY <3>1, <3>2, <3>4
  <2>4. AvailableData = Len(stored) - Len(received) /\ FreeSpace = BufferSize - AvailableData
    BY <1>3, <2>1, RoomLeft
  <2>5. Len(stored) - Len(received) + k <= BufferSize
    BY <1>4, <1>6, <2>2, <2>4
  <2>6. Positions' /\ Content' /\ Alone'
    BY <1>3, <2>2, <2>3 DEF Positions, Content, Alone
  <2>7. Counter'
    BY <1>4, <2>2, <2>3, <2>4, <2>5 DEF Counter
  <2> QED
    BY <2>6, <2>7
<1>9. CASE storeCopy(s)
  <2>1. s \in Storing /\ pc[s] = "copy"
    BY <1>9 DEF storeCopy, Storing
  <2>2. Storing = {s} /\ Reading = {}
    BY <1>3, <2>1 DEF Alone
  <2>3. /\ pDataBuffer' = RingWith(held[s], Bytes(chunk[s])) /\ DataEnd' = Ring(held[s] + k) /\ stored' = stored \o Bytes(chunk[s])
        /\ received' = received /\ DataStart' = DataStart /\ AvailableData' = AvailableData /\ pc'[s] = "count"
    BY <1>5, <1>9 DEF storeCopy, Goto
  <2>4. AvailableData = Len(stored) - Len(received) /\ held[s] = DataEnd /\ Len(stored) - Len(received) + k <= BufferSize
    BY <1>3, <2>1 DEF Counter
  <2>5. Positions' /\ Content' /\ Len(stored') = Len(stored) + k
    BY <1>3, <1>4, <2>3, <2>4, StoreBytes
  <2>6. Storing' = {s} /\ Reading' = {}
    <3>1. Reading' = {}
      BY <1>4, <2>2
    <3>2. Storing' \subseteq {s}
      BY <1>5, <2>2
    <3>3. pc'[s] \in StoringLabels
      BY <2>3 DEF StoringLabels
    <3>4. s \in Storing'
      BY <1>a, <3>3
    <3> QED
      BY <3>1, <3>2, <3>4
  <2>7. AvailableData' + k = Len(stored') - Len(received')
    <3>1. Len(stored') = Len(stored) + k /\ Len(received') = Len(received) /\ AvailableData' = AvailableData
      BY <2>3, <2>5
    <3>2. k \in Nat
      BY <1>4
    <3> HIDE DEF k
    <3> QED
      BY <1>6, <2>4, <3>1, <3>2
  <2>8. Alone'
    BY <2>6 DEF Alone
  <2>9. Counter'
    BY <1>4, <2>3, <2>6, <2>7 DEF Counter
  <2> QED
    BY <2>5, <2>8, <2>9
<1>10. CASE storeCount(s)
  <2>1. s \in Storing /\ pc[s] = "count"
    BY <1>10 DEF storeCount, Storing
  <2>2. Storing = {s} /\ Reading = {}
    BY <1>3, <2>1 DEF Alone
  <2>3. /\ UNCHANGED <<pDataBuffer, DataStart, DataEnd, AvailableData, stored, received>>
        /\ held'[s] = AvailableData /\ pc'[s] = "add up"
    BY <1>5, <1>10 DEF storeCount, Goto, ringVars, history
  <2>4. AvailableData + k = Len(stored) - Len(received)
    BY <1>3, <2>1 DEF Counter
  <2>5. Storing' = {s} /\ Reading' = {}
    <3>1. Reading' = {}
      BY <1>4, <2>2
    <3>2. Storing' \subseteq {s}
      BY <1>5, <2>2
    <3>3. pc'[s] \in StoringLabels
      BY <2>3 DEF StoringLabels
    <3>4. s \in Storing'
      BY <1>a, <3>3
    <3> QED
      BY <3>1, <3>2, <3>4
  <2>6. Positions' /\ Content' /\ Alone'
    BY <1>3, <2>3, <2>5 DEF Positions, Content, Alone
  <2>7. Counter'
    BY <1>4, <2>3, <2>4, <2>5 DEF Counter
  <2> QED
    BY <2>6, <2>7
<1>11. CASE storeAdd(s)
  <2>1. s \in Storing /\ pc[s] = "add up"
    BY <1>11 DEF storeAdd, Storing
  <2>2. Storing = {s} /\ Reading = {}
    BY <1>3, <2>1 DEF Alone
  <2>3. /\ UNCHANGED <<pDataBuffer, DataStart, DataEnd, stored, received>>
        /\ AvailableData' = (held[s] + k) % SizeT /\ pc'[s] = "signal"
    BY <1>5, <1>11 DEF storeAdd, Goto, history
  <2>4. AvailableData + k = Len(stored) - Len(received) /\ held[s] = AvailableData
    BY <1>3, <2>1 DEF Counter
  <2>5. held[s] + k \in 0 .. SizeT - 1
    BY <1>4, <1>6, <2>4
  <2>6. AvailableData' = Len(stored) - Len(received)
    BY <2>3, <2>4, <2>5, ModSmall
  <2>7. Storing' = {} /\ Reading' = {}
    <3>1. Reading' = {}
      BY <1>4, <2>2
    <3>2. Storing' \subseteq {s}
      BY <1>5, <2>2
    <3>3. pc'[s] \notin StoringLabels
      BY <2>3 DEF StoringLabels
    <3>4. s \notin Storing'
      BY <1>b, <3>3
    <3> QED
      BY <3>1, <3>2, <3>4
  <2>8. Positions' /\ Content' /\ Alone' /\ Counter'
    BY <1>3, <2>3, <2>6, <2>7 DEF Positions, Content, Alone, Counter
  <2> QED
    BY <2>8
<1> QED
  BY <1>7, <1>8, <1>9, <1>10, <1>11 DEF StoreStep

(* What a receiver takes from the ring is what was stored, in order. *)
LEMMA RecvKeepsRing ==
    ASSUME TypeInv, MutexInv, RingInv, NEW r \in Receivers, recvBegin(r) \/ recvRead(r) \/ recvCount(r) \/ recvTakeOff(r)
    PROVE  RingInv'
<1>1. SUFFICES ASSUME ~raced' PROVE Positions' /\ Content' /\ Alone' /\ Counter'
  BY DEF RingInv
<1>2. ~raced
  BY <1>1 DEF recvBegin, recvRead, recvCount, recvTakeOff, history
<1>3. Positions /\ Content /\ Alone /\ Counter
  BY <1>2 DEF RingInv
<1>4. ReceiverStep(r) /\ pc[r] \in SectionLabels /\ Mutex = r
  BY DEF ReceiverStep, RecvStep, recvBegin, recvRead, recvCount, recvTakeOff, SectionLabels, MutexInv
<1>5. Storing' = Storing
  BY <1>4, OthersFrame DEF Storing
<1>6. Reading \subseteq {r} /\ Reading' \subseteq {r}
  <2>1. Reading \subseteq {r}
    BY <1>4, OneReader
  <2>2. \A q \in Receivers : q # r => pc'[q] = pc[q] \/ (pc[q] = "asleep" /\ pc'[q] = "awake")
    BY <1>4, ReceiverFrame
  <2> QED
    BY <2>1, <2>2 DEF Reading
<1>7. /\ Len(stored) \in Nat /\ Len(received) \in Nat /\ AvailableData \in Nat /\ AvailableData < SizeT /\ BufferSize \in Nat
      /\ SizeT \in Nat /\ BufferSize < SizeT /\ held[r] \in Nat
      /\ Len(received) <= Len(stored) /\ Len(stored) - Len(received) <= BufferSize
      /\ r \in Threads /\ pc \in [Threads -> Labels] /\ held \in [Threads -> 0 .. SizeT - 1]
  <2>1. r \in Threads /\ pc \in [Threads -> Labels] /\ held \in [Threads -> 0 .. SizeT - 1]
    BY ThreadKinds DEF TypeInv, CallTypes
  <2> QED
    BY <1>3, <2>1, Streams DEF Positions
<1>8. CASE recvBegin(r)
  <2>1. Storing = {} /\ Reading = {}
    <3>1. Storing = {}
      BY <1>1, <1>8 DEF recvBegin
    <3>2. r \notin Reading
      BY <1>8 DEF recvBegin, Reading
    <3> QED
      BY <1>6, <3>1, <3>2
  <2>2. /\ UNCHANGED <<pDataBuffer, DataStart, DataEnd, AvailableData, stored, received>> /\ pc'[r] = "read" /\ AvailableData > 0
        /\ \E want \in 1 .. MaxChunk : held'[r] = IF want < AvailableData THEN want ELSE AvailableData
    BY <1>7, <1>8 DEF recvBegin, Goto, ringVars
  <2>3. held'[r] \in 1 .. AvailableData
    BY <1>7, <2>2, Sizes
  <2>4. AvailableData = Len(stored) - Len(received)
    BY <1>3, <2>1 DEF Counter
  <2>5. Storing' = {} /\ Reading' = {r}
    BY <1>5, <1>6, <2>1, <2>2 DEF Reading
  <2>6. Positions' /\ Content' /\ Alone'
    BY <1>3, <2>2, <2>5 DEF Positions, Content, Alone
  <2>7. Counter'
    BY <2>2, <2>3, <2>4, <2>5 DEF Counter
  <2> QED
    BY <2>6, <2>7
<1>9. CASE recvRead(r)
  <2>1. r \in Reading /\ pc[r] = "read"
    BY <1>9 DEF recvRead, Reading
  <2>2. Storing = {} /\ Reading = {r}
    BY <1>3, <1>6, <2>1 DEF Alone
  <2>3. /\ received' = received \o RingBytes(DataStart, held[r]) /\ DataStart' = Ring(DataStart + held[r])
        /\ UNCHANGED <<pDataBuffer, DataEnd, AvailableData, held, stored>> /\ pc'[r] = "count"
    BY <1>7, <1>9 DEF recvRead, Goto
  <2>4. AvailableData = Len(stored) - Len(received) /\ held[r] \in 1 .. Len(stored) - Len(received)
    BY <1>3, <2>1 DEF Counter
  <2>5. Storing' = {} /\ Reading' = {r}
    BY <1>5, <1>6, <2>2, <2>3 DEF Reading
  <2> DEFINE k == held[r]
             bytes == RingBytes(DataStart, held[r])
  <2>6. DataStart = Ring(Len(received)) /\ DataStart \in Int /\ pDataBuffer \in [0 .. BufferSize - 1 -> 0 .. MaxSends]
    BY <1>3, Sizes DEF Positions, TypeInv, RingTypes
  <2>7. /\ bytes \in Seq(0 .. MaxSends) /\ Len(bytes) = k
        /\ \A i \in 1 .. k : bytes[i] = pDataBuffer[Ring(DataStart + i - 1)]
    BY <1>7, <2>6, RingBytesAre
  <2>8. received \in Seq(0 .. MaxSends)
    BY Streams
  <2> HIDE DEF bytes
  <2>9. /\ Len(received') = Len(received) + k
        /\ \A i \in 1 .. Len(received) + k : received'[i] = IF i <= Len(received) THEN received[i] ELSE bytes[i - Len(received)]
    BY <2>3, <2>7, <2>8, ConcatProperties DEF bytes
  <2>10. Ring(DataStart + k) = Ring(Len(received) + k)
    BY <1>7, <2>6, RingPlus
  <2>11. Positions'
    BY <1>3, <1>7, <2>3, <2>4, <2>9, <2>10 DEF Positions
  <2>12. ASSUME NEW i \in 1 .. Len(received) + k PROVE received'[i] = stored[i]
    <3>1. CASE i <= Len(received)
      BY <1>3, <1>7, <2>9, <3>1 DEF Content
    <3>2. CASE ~(i <= Len(received))
      <4> DEFINE d == i - Len(received)
                 e == d - 1
                 b == Len(received)
      <4>1. d \in 1 .. k /\ e \in Int /\ b \in Int /\ b + e = i - 1 /\ i \in Len(received) + 1 .. Len(stored)
        BY <1>7, <2>4, <3>2
      <4>2. received'[i] = bytes[d]
        BY <2>9, <3>2
      <4>3. stored[i] = pDataBuffer[Ring(i - 1)]
        BY <1>3, <4>1 DEF Content
      <4>4. bytes[d] = pDataBuffer[Ring(DataStart + d - 1)] /\ DataStart + d - 1 = DataStart + e
        BY <2>6, <2>7, <4>1
      <4>5. DataStart = Ring(b)
        BY <2>6
      <4> HIDE DEF b, e, d
      <4>6. Ring(Ring(b) + e) = Ring(b + e)
        BY <4>1, RingPlus
      <4> QED
        BY <4>1, <4>2, <4>3, <4>4, <4>5, <4>6
    <3> QED
      BY <3>1, <3>2
  <2>13. Content'
    <3>1. \A i \in Len(received) + k + 1 .. Len(stored) : stored[i] = pDataBuffer[Ring(i - 1)]
      BY <1>3, <1>7 DEF Content
    <3> QED
      BY <2>3, <2>9, <2>12, <3>1 DEF Content
  <2>14. Alone'
    BY <2>5 DEF Alone
  <2>15. AvailableData' = Len(stored') - Len(received') + held'[r]
    <3>1. Len(stored') = Len(stored) /\ held'[r] = k /\ AvailableData' = Len(stored) - Len(received)
      BY <2>3, <2>4
    <3>2. k \in Nat /\ Len(received') = Len(received) + k
      BY <1>7, <2>9
    <3> HIDE DEF k
    <3>3. Len(stored) - (Len(received) + k) + k = Len(stored) - Len(received)
      BY <1>7, <3>2
    <3> QED
      BY <3>1, <3>2, <3>3
  <2>16. Counter'
    BY <2>3, <2>5, <2>15 DEF Counter
  <2> QED
    BY <2>11, <2>13, <2>14, <2>16
<1>10. CASE recvCount(r)
  <2>1. r \in Reading /\ pc[r] = "count"
    BY <1>10 DEF recvCount, Reading
  <2>2. Storing = {} /\ Reading = {r}
    BY <1>3, <1>6, <2>1 DEF Alone
  <2>3. /\ UNCHANGED <<pDataBuffer, DataStart, DataEnd, AvailableData, stored, received>> /\ pc'[r] = "take off"
        /\ held'[r] = (AvailableData - held[r]) % SizeT
    BY <1>7, <1>10 DEF recvCount, Goto, ringVars, history
  <2>4. AvailableData = Len(stored) - Len(received) + held[r]
    BY <1>3, <2>1 DEF Counter
  <2>5. AvailableData - held[r] \in 0 .. SizeT - 1 /\ AvailableData - held[r] = Len(stored) - Len(received)
    BY <1>7, <2>4
  <2>6. held'[r] = Len(stored) - Len(received)
    BY <2>3, <2>5, ModSmall
  <2>7. Storing' = {} /\ Reading' = {r}
    BY <1>5, <1>6, <2>2, <2>3 DEF Reading
  <2>8. Positions' /\ Content' /\ Alone'
    BY <1>3, <2>3, <2>7 DEF Positions, Content, Alone
  <2>9. Counter'
    BY <2>3, <2>6, <2>7 DEF Counter
  <2> QED
    BY <2>8, <2>9
<1>11. CASE recvTakeOff(r)
  <2>1. r \in Reading /\ pc[r] = "take off"
    BY <1>11 DEF recvTakeOff, Reading
  <2>2. Storing = {} /\ Reading = {r}
    BY <1>3, <1>6, <2>1 DEF Alone
  <2>3. /\ UNCHANGED <<pDataBuffer, DataStart, DataEnd, stored, received>> /\ pc'[r] = "idle" /\ AvailableData' = held[r]
    BY <1>7, <1>11 DEF recvTakeOff, Goto, history
  <2>4. held[r] = Len(stored) - Len(received)
    BY <1>3, <2>1 DEF Counter
  <2>5. Storing' = {} /\ Reading' = {}
    BY <1>5, <1>6, <2>2, <2>3 DEF Reading
  <2>6. Positions' /\ Content' /\ Alone' /\ Counter'
    BY <1>3, <2>3, <2>4, <2>5 DEF Positions, Content, Alone, Counter
  <2> QED
    BY <2>6
<1> QED
  BY <1>8, <1>9, <1>10, <1>11

LEMMA NextRing ==
    ASSUME TypeInv, MutexInv, RingInv, [Next]_vars
    PROVE  RingInv'
<1>1. CASE UNCHANGED vars
  BY <1>1, RingFrame DEF vars, ringVars, callVars, history
<1>2. ASSUME NEW s \in Senders, sendDAT(s) \/ SenderStep(s)
      PROVE  RingInv'
  <2>1. CASE StoreStep(s)
    BY <2>1, StoreKeepsRing
  <2>2. CASE ~StoreStep(s)
    <3>1. UNCHANGED <<pDataBuffer, DataStart, DataEnd, AvailableData, stored, received, raced>>
      BY <1>2, <2>2 DEF StoreStep, SenderStep, SendStep, FlushStep, flushDAT, sendDAT, sendLeave, checkWindow, addDataToBatch, batchRefuses,
         closeBatchWindow, refuseChunk, acceptChunk, directCallback, measureCallback, drain, expireWindow, lockTwice,
         startCallback, dispatchCallback, afterCallback, ringFull,
         storeSignal, flushLeave, flushCallbackBatch, batchCallback, ringVars, history
    <3>2. \A u \in Senders : u # s /\ (pc[u] \in StoringLabels \/ pc'[u] \in StoringLabels) =>
              pc'[u] = pc[u] /\ held'[u] = held[u] /\ size'[chunk'[u]] = size[chunk[u]]
      BY <1>2, StoringFrame
    <3>3. pc[s] \notin StoringLabels /\ pc'[s] \notin StoringLabels
      <4>1. pc \in [Threads -> Labels] /\ next \in [Flushers -> Labels] /\ s \in Threads
            /\ (Between(s) => next[s] \in {"deliver", "choose", "hybrid", "flushed"})
        BY ThreadKinds DEF TypeInv, CallTypes, Places
      <4>2. CASE storeSignal(s)
        BY <4>2, SignalMoves DEF StoringLabels, storeSignal
      <4>3. CASE dispatchCallback(s)
        BY <4>3, DispatchMoves DEF StoringLabels, dispatchCallback
      <4>4. CASE FlushStep(s)
        BY <4>1, <4>4 DEF FlushStep, flushCallbackBatch, batchCallback, GoOn, Goto, StoringLabels, Between
      <4>5. CASE flushDAT(s) \/ sendDAT(s) \/ sendLeave(s) \/ flushLeave(s) \/ checkWindow(s) \/ addDataToBatch(s)
                 \/ batchRefuses(s) \/ closeBatchWindow(s)
        BY <4>1, <4>5 DEF flushDAT, sendDAT, sendLeave, flushLeave, checkWindow, addDataToBatch, batchRefuses, closeBatchWindow, Goto,
           Return, AfterRefusal, StoringLabels
      <4>6. CASE refuseChunk(s) \/ acceptChunk(s) \/ directCallback(s) \/ measureCallback(s) \/ drain(s) \/ expireWindow(s)
                 \/ lockTwice(s) \/ startCallback(s) \/ afterCallback(s) \/ ringFull(s)
        BY <4>1, <4>6 DEF refuseChunk, acceptChunk, directCallback, measureCallback, drain, expireWindow, lockTwice, startCallback,
           afterCallback, ringFull, Goto, Return, Choosing, Pressing, StoringLabels
      <4> QED
        BY <1>2, <2>2, <4>2, <4>3, <4>4, <4>5, <4>6 DEF StoreStep, SenderStep, SendStep
    <3>4. \A q \in Receivers : pc[q] \in ReadingLabels \/ pc'[q] \in ReadingLabels => pc'[q] = pc[q] /\ held'[q] = held[q]
      BY <1>2, ReceiverFrame DEF ReadingLabels
    <3> QED
      BY <3>1, <3>2, <3>3, <3>4, RingFrame
  <2> QED
    BY <2>1, <2>2
<1>3. ASSUME NEW n \in Chunks, FlushStep(n) \/ AsyncStep(n)
      PROVE  RingInv'
  <2>1. UNCHANGED <<pDataBuffer, DataStart, DataEnd, AvailableData, stored, received, raced>>
    BY <1>3 DEF FlushStep, AsyncStep, flushCallbackBatch, batchCallback, asyncCallback, asyncEnd, ringVars, history
  <2>2. \A u \in Senders : pc[u] \in StoringLabels \/ pc'[u] \in StoringLabels =>
            pc'[u] = pc[u] /\ held'[u] = held[u] /\ size'[chunk'[u]] = size[chunk[u]]
    BY <1>3, StoringFrame
  <2>3. \A q \in Receivers : pc[q] \in ReadingLabels \/ pc'[q] \in ReadingLabels => pc'[q] = pc[q] /\ held'[q] = held[q]
    BY <1>3, ReceiverFrame DEF ReadingLabels
  <2> QED
    BY <2>1, <2>2, <2>3, RingFrame
<1>4. ASSUME NEW r \in Receivers, ReceiverStep(r)
      PROVE  RingInv'
  <2>1. CASE recvBegin(r) \/ recvRead(r) \/ recvCount(r) \/ recvTakeOff(r)
    BY <2>1, RecvKeepsRing
  <2>2. CASE ~(recvBegin(r) \/ recvRead(r) \/ recvCount(r) \/ recvTakeOff(r))
    <3>1. UNCHANGED <<pDataBuffer, DataStart, DataEnd, AvailableData, stored, received, raced>>
      BY <1>4, <2>2 DEF ReceiverStep, recvDAT, RecvStep, recvWait, recvSleep, recvWake, recvTimeout, ringVars, history
    <3>2. \A u \in Senders : pc[u] \in StoringLabels \/ pc'[u] \in StoringLabels =>
              pc'[u] = pc[u] /\ held'[u] = held[u] /\ size'[chunk'[u]] = size[chunk[u]]
      BY <1>4, StoringFrame
    <3>3. \A q \in Receivers : q # r /\ (pc[q] \in ReadingLabels \/ pc'[q] \in ReadingLabels) => pc'[q] = pc[q] /\ held'[q] = held[q]
      BY <1>4, ReceiverFrame DEF ReadingLabels
    <3>4. pc[r] \notin ReadingLabels /\ pc'[r] \notin ReadingLabels
      <4>1. pc \in [Threads -> Labels] /\ r \in Threads
        BY ThreadKinds DEF TypeInv, CallTypes
      <4> QED
        BY <1>4, <2>2, <4>1 DEF ReceiverStep, recvDAT, RecvStep, recvWait, recvSleep, recvWake, recvTimeout, Goto, ReadingLabels
    <3> QED
      BY <3>1, <3>2, <3>3, <3>4, RingFrame
  <2> QED
    BY <2>1, <2>2
<1> QED
  BY <1>1, <1>2, <1>3, <1>4, NextCases

LEMMA InitRing == Init => RingInv
<1> SUFFICES ASSUME Init PROVE RingInv
  OBVIOUS
<1>1. Ring(0) = 0
  <2>1. BufferSize \in Nat \ {0}
    BY Sizes
  <2>2. 0 \in 0 .. BufferSize - 1 /\ 0 = BufferSize * 0 + 0
    BY <2>1
  <2> QED
    BY <2>2, RingUnique
<1>2. stored = <<>> /\ received = <<>> /\ DataStart = 0 /\ DataEnd = 0 /\ AvailableData = 0
  BY DEF Init
<1>3. Len(stored) = 0 /\ Len(received) = 0
  BY <1>2, EmptySeq
<1>4. Storing = {} /\ Reading = {}
  BY ThreadKinds DEF Init, Storing, Reading
<1>5. Positions
  BY <1>1, <1>2, <1>3, Sizes DEF Positions
<1>6. Content
  BY <1>3 DEF Content
<1>7. Alone /\ Counter
  BY <1>2, <1>3, <1>4 DEF Alone, Counter
<1> QED
  BY <1>5, <1>6, <1>7 DEF RingInv

(* Between calls the ring holds exactly the bytes that were stored and not yet read, in their order, across the end
   of the buffer, whatever its size and however long the stream: unless a store without the mutex met another
   one or a read. *)
THEOREM RingHoldsStream == Spec => []StreamIntact
<1>1. TypeInv /\ MutexInv /\ RingInv /\ [Next]_vars => RingInv'
  BY NextRing
<1>2. TypeInv /\ RingInv => StreamIntact
  <2>1. SUFFICES ASSUME TypeInv, RingInv, ~raced, Storing = {}, Reading = {}
                 PROVE  stored = received \o RingBytes(DataStart, AvailableData)
    BY DEF StreamIntact
  <2>2. Positions /\ Content /\ Counter
    BY <2>1 DEF RingInv
  <2>3. /\ Len(stored) \in Nat /\ Len(received) \in Nat /\ stored \in Seq(0 .. MaxSends) /\ received \in Seq(0 .. MaxSends)
        /\ AvailableData = Len(stored) - Len(received) /\ AvailableData \in Nat /\ Len(received) <= Len(stored)
        /\ DataStart = Ring(Len(received))
    BY <2>1, <2>2, Streams DEF Positions, Counter
  <2>4. DataStart \in Int /\ pDataBuffer \in [0 .. BufferSize - 1 -> 0 .. MaxSends]
    BY <2>1, Sizes DEF TypeInv, RingTypes
  <2> DEFINE bytes == RingBytes(DataStart, AvailableData)
  <2>5. /\ bytes \in Seq(0 .. MaxSends) /\ Len(bytes) = AvailableData
        /\ \A i \in 1 .. AvailableData : bytes[i] = pDataBuffer[Ring(DataStart + i - 1)]
    BY <2>3, <2>4, RingBytesAre
  <2> HIDE DEF bytes
  <2>6. /\ received \o bytes \in Seq(0 .. MaxSends) /\ Len(received \o bytes) = Len(stored)
        /\ \A i \in 1 .. Len(stored) : (received \o bytes)[i] = IF i <= Len(received) THEN received[i] ELSE bytes[i - Len(received)]
    <3>1. Len(received) + Len(bytes) = Len(stored)
      BY <2>3, <2>5
    <3>2. /\ received \o bytes \in Seq(0 .. MaxSends) /\ Len(received \o bytes) = Len(received) + Len(bytes)
          /\ \A i \in 1 .. Len(received) + Len(bytes) :
                (received \o bytes)[i] = IF i <= Len(received) THEN received[i] ELSE bytes[i - Len(received)]
      BY <2>3, <2>5, ConcatProperties
    <3> QED
      BY <3>1, <3>2
  <2>7. ASSUME NEW i \in 1 .. Len(stored) PROVE stored[i] = (received \o bytes)[i]
    <3>1. CASE i <= Len(received)
      BY <2>2, <2>3, <2>6, <3>1 DEF Content
    <3>2. CASE ~(i <= Len(received))
      <4> DEFINE d == i - Len(received)
                 e == d - 1
                 b == Len(received)
      <4>1. d \in 1 .. AvailableData /\ e \in Int /\ b \in Int /\ b + e = i - 1 /\ i \in Len(received) + 1 .. Len(stored)
        BY <2>3, <3>2
      <4>2. (received \o bytes)[i] = bytes[d]
        BY <2>6, <3>2
      <4>3. stored[i] = pDataBuffer[Ring(i - 1)]
        BY <2>2, <4>1 DEF Content
      <4>4. bytes[d] = pDataBuffer[Ring(DataStart + d - 1)] /\ DataStart + d - 1 = DataStart + e
        BY <2>4, <2>5, <4>1
      <4>5. DataStart = Ring(b)
        BY <2>3
      <4> HIDE DEF b, e, d
      <4>6. Ring(Ring(b) + e) = Ring(b + e)
        BY <4>1, RingPlus
      <4> QED
        BY <4>1, <4>2, <4>3, <4>4, <4>5, <4>6
    <3> QED
      BY <3>1, <3>2
  <2>8. stored = received \o bytes
    BY <2>3, <2>6, <2>7, SeqEqual
  <2> QED
    BY <2>8 DEF bytes
<1> QED
  BY <1>1, <1>2, InitRing, Typed, Mutexed, PTL DEF Spec

-----------------------------------------------------------------------------
(* How many bytes of chunk n there are: in the first k of a buffer, and in what the delivering threads hold. *)
CountIn(buf, k, n) == Cardinality({i \in 1 .. k : buf[i] = n})
TakenBy(D, h, buf, n) == {x \in D \X (1 .. BatchBufferSize) : x[2] <= h[x[1]] /\ buf[x[2]] = n}

LEMMA CountNat ==
    ASSUME NEW buf, NEW k \in Nat, NEW n
    PROVE  CountIn(buf, k, n) \in Nat /\ IsFiniteSet({i \in 1 .. k : buf[i] = n})
<1>1. IsFiniteSet(1 .. k)
  BY FS_Interval
<1>2. IsFiniteSet({i \in 1 .. k : buf[i] = n})
  BY <1>1, FS_Subset
<1> QED
  BY <1>2, FS_CardinalityType DEF CountIn

LEMMA CountNone ==
    ASSUME NEW buf, NEW n
    PROVE  CountIn(buf, 0, n) = 0
<1>1. {i \in 1 .. 0 : buf[i] = n} = {}
  OBVIOUS
<1> QED
  BY <1>1, FS_EmptySet DEF CountIn

LEMMA CountSame ==
    ASSUME NEW buf, NEW new, NEW k \in Nat, NEW n, \A i \in 1 .. k : new[i] = buf[i]
    PROVE  CountIn(new, k, n) = CountIn(buf, k, n)
<1>1. {i \in 1 .. k : new[i] = n} = {i \in 1 .. k : buf[i] = n}
  OBVIOUS
<1> QED
  BY <1>1 DEF CountIn

(* A chunk of m bytes behind the first k. *)
Added(buf, new, k, end, c) == (\A i \in 1 .. k : new[i] = buf[i]) /\ (\A i \in k + 1 .. end : new[i] = c)

LEMMA CountAdded ==
    ASSUME NEW buf, NEW new, NEW k \in Nat, NEW m \in Nat, NEW end, end = k + m, NEW c, NEW n, Added(buf, new, k, end, c)
    PROVE  CountIn(new, end, n) = CountIn(buf, k, n) + (IF n = c THEN m ELSE 0)
<1>0. /\ \A i \in 1 .. k : new[i] = buf[i]
      /\ \A i \in k + 1 .. end : new[i] = c
  BY DEF Added
<1> DEFINE S == {i \in 1 .. k : buf[i] = n}
           T == {i \in k + 1 .. end : new[i] = n}
           U == {i \in 1 .. end : new[i] = n}
<1>1. IsFiniteSet(S) /\ Cardinality(S) \in Nat /\ Cardinality(S) = CountIn(buf, k, n)
  <2>1. Cardinality(S) = CountIn(buf, k, n)
    BY DEF CountIn
  <2>2. IsFiniteSet(S) /\ CountIn(buf, k, n) \in Nat
    BY CountNat
  <2> QED
    BY <2>1, <2>2
<1>2. IsFiniteSet(T) /\ Cardinality(T) = IF n = c THEN m ELSE 0
  <2>1. CASE n = c
    <3>1. T = k + 1 .. k + m
      BY <1>0, <2>1
    <3>2. IsFiniteSet(k + 1 .. k + m) /\ Cardinality(k + 1 .. k + m) = m
      <4>1. k + 1 \in Int /\ k + m \in Int
        OBVIOUS
      <4>2. IsFiniteSet(k + 1 .. k + m) /\ Cardinality(k + 1 .. k + m) = IF k + 1 > k + m THEN 0 ELSE (k + m) - (k + 1) + 1
        BY <4>1, FS_Interval
      <4>3. m = IF k + 1 > k + m THEN 0 ELSE (k + m) - (k + 1) + 1
        OBVIOUS
      <4> QED
        BY <4>2, <4>3
    <3> QED
      BY <2>1, <3>1, <3>2
  <2>2. CASE n # c
    <3>1. T = {}
      BY <1>0, <2>2
    <3> QED
      BY <2>2, <3>1, FS_EmptySet
  <2> QED
    BY <2>1, <2>2
<1>3. U = S \cup T /\ S \cap T = {}
  <2>1. \A i \in 1 .. end : i \in 1 .. k \/ i \in k + 1 .. k + m
    OBVIOUS
  <2>2. \A i \in 1 .. k : i \in 1 .. k + m /\ i \notin k + 1 .. k + m
    OBVIOUS
  <2>3. \A i \in k + 1 .. end : i \in 1 .. k + m
    OBVIOUS
  <2> QED
    BY <1>0, <2>1, <2>2, <2>3
<1>4. CountIn(new, end, n) = Cardinality(U)
  BY DEF CountIn
<1> HIDE DEF S, T, U
<1>5. Cardinality(S \cup T) = Cardinality(S) + Cardinality(T) - Cardinality(S \cap T)
  BY <1>1, <1>2, FS_Union
<1>6. Cardinality(S \cap T) = 0
  BY <1>3, FS_EmptySet
<1> QED
  BY <1>1, <1>2, <1>3, <1>4, <1>5, <1>6

LEMMA TakenNone ==
    ASSUME NEW h, NEW buf, NEW n
    PROVE  Cardinality(TakenBy({}, h, buf, n)) = 0
<1>1. TakenBy({}, h, buf, n) = {}
  BY DEF TakenBy
<1> QED
  BY <1>1, FS_EmptySet

LEMMA TakenOne ==
    ASSUME NEW t, NEW h, NEW buf, NEW n, h[t] \in 1 .. BatchBufferSize
    PROVE  Cardinality(TakenBy({t}, h, buf, n)) = CountIn(buf, h[t], n)
<1>0. BatchBufferSize \in Nat /\ h[t] \in Nat
  BY Sizes
<1> DEFINE S == {i \in 1 .. h[t] : buf[i] = n}
           T == TakenBy({t}, h, buf, n)
           f == [i \in S |-> <<t, i>>]
<1>1. \A i \in S : <<t, i>> \in T
  BY <1>0 DEF TakenBy
<1>2. \A x \in T : x[2] \in S /\ x = <<t, x[2]>>
  BY <1>0 DEF TakenBy
<1>3. IsFiniteSet(S)
  <2>1. IsFiniteSet(1 .. h[t])
    BY <1>0, FS_Interval
  <2> QED
    BY <2>1, FS_Subset
<1> HIDE DEF S, T
<1>4. f \in Bijection(S, T)
  <2>1. f \in [S -> T]
    BY <1>1
  <2>2. \A i, j \in S : f[i] = f[j] => i = j
    OBVIOUS
  <2>3. \A x \in T : \E i \in S : f[i] = x
    BY <1>2
  <2> QED
    BY <2>1, <2>2, <2>3, Fun_IsBij
<1>5. ExistsBijection(S, T)
  BY <1>4 DEF ExistsBijection
<1>6. Cardinality(T) = Cardinality(S)
  BY <1>3, <1>5, FS_Bijection
<1> QED
  BY <1>6 DEF S, T, CountIn

LEMMA BytesInHandIs ==
    ASSUME NEW n
    PROVE  BytesInHand(n) = delivered[n] + CountIn(pBatchBuffer, AccumulatedDataSize, n)
                            + Cardinality(TakenBy(Delivering, held, pBatchBuffer, n)) + (IF pc[n] = "callback" THEN size[n] ELSE 0)
  BY DEF BytesInHand, InBatch, CountIn, TakenForCallback, TakenBy

LEMMA BytesInHandNext ==
    ASSUME NEW n
    PROVE  BytesInHand(n)' = delivered'[n] + CountIn(pBatchBuffer', AccumulatedDataSize', n)
                             + Cardinality(TakenBy(Delivering', held', pBatchBuffer', n)) + (IF pc'[n] = "callback" THEN size'[n] ELSE 0)
  BY DEF BytesInHand, InBatch, CountIn, TakenForCallback, TakenBy

(* The same numbers are of chunk n, and its bytes are where they were. *)
LEMMA BytesFrame ==
    ASSUME NEW n, UNCHANGED <<AccumulatedDataSize, pBatchBuffer>>,
           Delivering' = Delivering, \A t \in Delivering : held'[t] = held[t]
    PROVE  /\ CountIn(pBatchBuffer', AccumulatedDataSize', n) = CountIn(pBatchBuffer, AccumulatedDataSize, n)
           /\ Cardinality(TakenBy(Delivering', held', pBatchBuffer', n)) = Cardinality(TakenBy(Delivering, held, pBatchBuffer, n))
<1>1. TakenBy(Delivering', held', pBatchBuffer', n) = TakenBy(Delivering, held, pBatchBuffer, n)
  BY DEF TakenBy
<1> QED
  BY <1>1

(* While no batch was overwritten these are numbers. *)
LEMMA BytesNat ==
    ASSUME TypeInv, OneDelivers, ~torn, NEW n \in Chunks
    PROVE  /\ delivered[n] \in Nat /\ CountIn(pBatchBuffer, AccumulatedDataSize, n) \in Nat /\ size[n] \in Nat
           /\ Cardinality(TakenBy(Delivering, held, pBatchBuffer, n)) \in Nat
<1>1. delivered[n] \in Nat /\ size[n] \in Nat /\ AccumulatedDataSize \in Nat
  BY Sizes DEF TypeInv, HistoryTypes, CallTypes, BatchTypes
<1>2. CountIn(pBatchBuffer, AccumulatedDataSize, n) \in Nat
  BY <1>1, CountNat
<1>3. Cardinality(TakenBy(Delivering, held, pBatchBuffer, n)) \in Nat
  <2>1. CASE Delivering = {}
    BY <2>1, TakenNone
  <2>2. ASSUME NEW t \in Delivering PROVE Cardinality(TakenBy(Delivering, held, pBatchBuffer, n)) \in Nat
    <3>1. Delivering = {t} /\ held[t] \in 1 .. BatchBufferSize /\ held[t] \in Nat
      BY <2>2, Sizes DEF OneDelivers
    <3>2. Cardinality(TakenBy({t}, held, pBatchBuffer, n)) = CountIn(pBatchBuffer, held[t], n)
      BY <3>1, TakenOne
    <3> QED
      BY <3>1, <3>2, CountNat
  <2> QED
    BY <2>1, <2>2
<1> QED
  BY <1>1, <1>2, <1>3

(* Who delivers a batch, when nobody takes or delivers one. *)
LEMMA DeliveringFrame ==
    ASSUME TypeInv, OwnersInv,
           \/ UNCHANGED vars
           \/ \E s \in Senders : sendDAT(s) \/ (SenderStep(s) /\ ~FlushStep(s))
           \/ \E n \in Chunks : AsyncStep(n) /\ ~FlushStep(n)
           \/ \E r \in Receivers : ReceiverStep(r)
    PROVE  Delivering' = Delivering /\ \A t \in Delivering : held'[t] = held[t]
<1>1. pc \in [Threads -> Labels] /\ next \in [Flushers -> Labels] /\ held \in [Threads -> 0 .. SizeT - 1]
      /\ \A t \in Flushers : t \in Threads /\ t \notin Receivers
  BY ThreadKinds DEF TypeInv, CallTypes, Threads, Flushers
<1>2. CASE UNCHANGED vars
  BY <1>2 DEF vars, Delivering
<1>3. ASSUME NEW s \in Senders, sendDAT(s) \/ (SenderStep(s) /\ ~FlushStep(s))
      PROVE  Delivering' = Delivering /\ \A t \in Delivering : held'[t] = held[t]
  <2>1. pc[s] # "batched" /\ pc'[s] # "batched" /\ s \in Threads /\ s \in Flushers
    <3>1. s \in Threads /\ s \in Flushers
      BY ThreadKinds
    <3>2. CASE storeHybrid(s) \/ storeSignal(s)
      BY <3>1, <3>2, SignalMoves DEF storeHybrid, storeSignal
    <3>3. CASE dispatchCallback(s)
      BY <3>1, <3>3, DispatchMoves DEF dispatchCallback
    <3>4. CASE sendDAT(s) \/ (SenderStep(s) /\ ~FlushStep(s) /\ ~storeHybrid(s) /\ ~storeSignal(s) /\ ~dispatchCallback(s))
      BY <1>1, <3>1, <3>4 DEF SenderStep, SendStep, flushDAT, sendDAT, sendLeave, checkWindow, addDataToBatch, batchRefuses,
         closeBatchWindow, refuseChunk, acceptChunk, directCallback, measureCallback, drain, expireWindow, lockTwice,
         startCallback, afterCallback, ringFull, storeBegin, storeCopy, storeCount, storeAdd, flushLeave, Choosing, Pressing,
         Goto, Return, AfterRefusal
    <3> QED
      BY <1>3, <3>1, <3>2, <3>3, <3>4
  <2>2. \A t \in Flushers : t # s => pc'[t] = pc[t] \/ (pc[t] = "idle" /\ pc'[t] = "callback")
    <3>1. CASE sendDAT(s)
      BY <1>1, <3>1 DEF sendDAT, Goto
    <3>2. CASE dispatchCallback(s)
      <4>1. InSend(s) /\ ~Decided(s) /\ ~HandedOver(s)
        BY <3>2 DEF dispatchCallback, InSend, FlushingDAT, Between, Decided, HandedOver
      <4>2. pc[chunk[s]] = "idle"
        BY <4>1 DEF OwnersInv, Undecided
      <4> QED
        BY <1>1, <3>2, <4>2, DispatchMoves
    <3>3. CASE SenderStep(s) /\ ~dispatchCallback(s)
      BY <3>3, SenderFrame
    <3> QED
      BY <1>3, <3>1, <3>2, <3>3
  <2>3. \A t \in Flushers : t # s => held'[t] = held[t]
    BY <1>1, <1>3, <2>1, HeldFrame
  <2> QED
    BY <2>1, <2>2, <2>3 DEF Delivering
<1>4. ASSUME NEW n \in Chunks, AsyncStep(n), ~FlushStep(n)
      PROVE  Delivering' = Delivering /\ \A t \in Delivering : held'[t] = held[t]
  <2>1. held' = held /\ n \in Threads /\ pc[n] # "batched" /\ \E l \in {"end", "flush"} : pc' = [pc EXCEPT ![n] = l]
    BY <1>4, ThreadKinds DEF AsyncStep, asyncCallback, asyncEnd, Goto
  <2> QED
    BY <1>1, <2>1 DEF Delivering
<1>5. ASSUME NEW r \in Receivers, ReceiverStep(r)
      PROVE  Delivering' = Delivering /\ \A t \in Delivering : held'[t] = held[t]
  <2>1. \E l : pc' = [pc EXCEPT ![r] = l]
    BY <1>5, ReceiverMoves
  <2>2. held' = held \/ \E k : held' = [held EXCEPT ![r] = k]
    BY <1>5 DEF ReceiverStep, recvDAT, RecvStep, recvWait, recvSleep, recvWake, recvTimeout, recvBegin, recvRead, recvCount,
       recvTakeOff
  <2>3. \A t \in Flushers : pc'[t] = pc[t] /\ held'[t] = held[t]
    BY <1>1, <1>5, <2>1, <2>2
  <2> QED
    BY <2>3 DEF Delivering
<1> QED
  BY <1>2, <1>3, <1>4, <1>5

LEMMA TornFrame ==
    ASSUME [Next]_vars
    PROVE  torn' = torn \/ \E s \in Senders : addDataToBatch(s)
<1>1. ASSUME NEW s \in Senders, SenderStep(s)
      PROVE  torn' = torn \/ addDataToBatch(s)
  BY <1>1 DEF SenderStep, SendStep, FlushStep, flushDAT, sendLeave, checkWindow, batchRefuses, closeBatchWindow,
     refuseChunk, acceptChunk, directCallback, measureCallback, drain, expireWindow, lockTwice, startCallback,
     dispatchCallback, afterCallback, storeHybrid, ringFull, storeBegin, storeCopy, storeCount, storeAdd, storeSignal,
     flushLeave, flushCallbackBatch, batchCallback, history
<1>2. CASE UNCHANGED vars
  BY <1>2 DEF vars, history
<1>3. CASE \E s \in Senders : sendDAT(s)
  BY <1>3 DEF sendDAT, history
<1>4. CASE \E m \in Chunks : FlushStep(m) \/ AsyncStep(m)
  BY <1>4 DEF FlushStep, AsyncStep, flushCallbackBatch, batchCallback, asyncCallback, asyncEnd, history
<1>5. CASE \E r \in Receivers : ReceiverStep(r)
  BY <1>5 DEF ReceiverStep, recvDAT, RecvStep, recvWait, recvSleep, recvWake, recvTimeout, recvBegin, recvRead, recvCount,
     recvTakeOff, history
<1> QED
  BY <1>1, <1>2, <1>3, <1>4, <1>5, NextCases

(* Whoever adds to the batch finds that nobody delivers one, or it is overwritten. *)
LEMMA AddAlone ==
    ASSUME TypeInv, OneDelivers, NEW s \in Senders, addDataToBatch(s), ~torn'
    PROVE  ~torn /\ Delivering = {}
<1>1. torn' = (torn \/ \E t \in Flushers : pc[t] = "batched" /\ held[t] > AccumulatedDataSize)
  BY DEF addDataToBatch
<1>2. ~torn /\ \A t \in Delivering : ~(held[t] > AccumulatedDataSize)
  BY <1>1 DEF Delivering
<1>3. \A t \in Delivering : held[t] > AccumulatedDataSize
  <2>1. ASSUME NEW t \in Delivering PROVE held[t] > AccumulatedDataSize
    <3>1. AccumulatedDataSize = 0 /\ held[t] \in 1 .. BatchBufferSize
      BY <1>2, <2>1 DEF OneDelivers
    <3> QED
      BY <3>1, Sizes
  <2> QED
    BY <2>1
<1> QED
  BY <1>2, <1>3

LEMMA FlushTakes ==
    ASSUME TypeInv, OneDelivers, ~torn, NEW t \in Flushers, flushCallbackBatch(t)
    PROVE  /\ AccumulatedDataSize = 0 => /\ Delivering' = Delivering /\ held' = held
                                         /\ UNCHANGED <<AccumulatedDataSize, pBatchBuffer>>
           /\ AccumulatedDataSize # 0 => /\ Delivering = {} /\ Delivering' = {t} /\ held'[t] = AccumulatedDataSize
                                         /\ AccumulatedDataSize' = 0 /\ pBatchBuffer' = pBatchBuffer
<1>1. pc \in [Threads -> Labels] /\ next \in [Flushers -> Labels] /\ held \in [Threads -> 0 .. SizeT - 1]
      /\ \A u \in Flushers : u \in Threads
  BY DEF TypeInv, CallTypes, Threads
<1>2. next[t] # "batched" /\ pc[t] = "flush"
  BY DEF TypeInv, Places, Flushers, Between, flushCallbackBatch
<1>3. CASE AccumulatedDataSize = 0
  <2>1. pc' = [pc EXCEPT ![t] = next[t]] /\ held' = held /\ UNCHANGED <<AccumulatedDataSize, pBatchBuffer>>
    BY <1>3 DEF flushCallbackBatch, GoOn, Goto
  <2>2. Delivering' = Delivering
    BY <1>1, <1>2, <2>1 DEF Delivering
  <2> QED
    BY <1>3, <2>1, <2>2
<1>4. CASE AccumulatedDataSize # 0
  <2>1. /\ pc' = [pc EXCEPT ![t] = "batched"] /\ held'[t] = AccumulatedDataSize
        /\ AccumulatedDataSize' = 0 /\ pBatchBuffer' = pBatchBuffer
    BY <1>1, <1>4 DEF flushCallbackBatch, Goto, LeftInBatch
  <2>2. Delivering = {}
    BY <1>4 DEF OneDelivers
  <2>3. Delivering' = {t}
    BY <1>1, <2>1, <2>2 DEF Delivering
  <2> QED
    BY <1>4, <2>1, <2>2, <2>3
<1> QED
  BY <1>3, <1>4

LEMMA CallbackGives ==
    ASSUME TypeInv, OneDelivers, ~torn, NEW t \in Flushers, batchCallback(t)
    PROVE  /\ Delivering = {t} /\ Delivering' = {} /\ UNCHANGED <<AccumulatedDataSize, pBatchBuffer>>
           /\ held[t] \in 1 .. BatchBufferSize
           /\ \A n \in Chunks : delivered'[n] = delivered[n] + CountIn(pBatchBuffer, held[t], n)
<1>1. pc \in [Threads -> Labels] /\ next \in [Flushers -> Labels] /\ \A u \in Flushers : u \in Threads
  BY DEF TypeInv, CallTypes, Threads
<1>2. next[t] # "batched" /\ pc[t] = "batched"
  BY DEF TypeInv, Places, Flushers, Between, batchCallback
<1>3. pc' = [pc EXCEPT ![t] = next[t]] /\ UNCHANGED <<AccumulatedDataSize, pBatchBuffer>>
      /\ \A n \in Chunks : delivered'[n] = delivered[n] + InBatch(held[t], n)
  BY DEF batchCallback, GoOn, Goto, batchVars
<1>4. t \in Delivering
  BY <1>2 DEF Delivering
<1>5. Delivering = {t} /\ held[t] \in 1 .. BatchBufferSize
  BY <1>4 DEF OneDelivers
<1>6. Delivering' = {}
  BY <1>1, <1>2, <1>3, <1>5 DEF Delivering
<1> QED
  BY <1>3, <1>5, <1>6 DEF InBatch, CountIn

LEMMA NextOneDelivers ==
    ASSUME TypeInv, TypeInv', OwnersInv, OneDelivers, [Next]_vars
    PROVE  OneDelivers'
<1>1. SUFFICES ASSUME ~torn'
               PROVE  /\ \A t, u \in Delivering' : t = u
                      /\ \A t \in Delivering' : AccumulatedDataSize' = 0 /\ held'[t] \in 1 .. BatchBufferSize
  BY DEF OneDelivers
<1>2. ~torn
  BY <1>1, TornFrame, AddAlone
<1>3. /\ \A t, u \in Delivering : t = u
      /\ \A t \in Delivering : AccumulatedDataSize = 0 /\ held[t] \in 1 .. BatchBufferSize
  BY <1>2 DEF OneDelivers
<1>4. ASSUME Delivering' = Delivering, \A t \in Delivering : held'[t] = held[t]
      PROVE  /\ \A t, u \in Delivering' : t = u
             /\ \A t \in Delivering' : AccumulatedDataSize' = 0 /\ held'[t] \in 1 .. BatchBufferSize
  <2>1. Delivering = {} \/ AccumulatedDataSize' = AccumulatedDataSize \/ AccumulatedDataSize' = 0
    BY <1>1, BatchFrame, AddAlone
  <2> QED
    BY <1>3, <1>4, <2>1
<1>5. ASSUME NEW t \in Flushers, flushCallbackBatch(t)
      PROVE  /\ \A v, u \in Delivering' : v = u
             /\ \A u \in Delivering' : AccumulatedDataSize' = 0 /\ held'[u] \in 1 .. BatchBufferSize
  <2>1. CASE AccumulatedDataSize = 0
    BY <1>2, <1>4, <1>5, <2>1, FlushTakes
  <2>2. CASE AccumulatedDataSize # 0
    <3>1. Delivering' = {t} /\ held'[t] = AccumulatedDataSize /\ AccumulatedDataSize' = 0
      BY <1>2, <1>5, <2>2, FlushTakes
    <3>2. AccumulatedDataSize \in 1 .. BatchBufferSize
      BY <2>2, Sizes DEF TypeInv, BatchTypes
    <3> QED
      BY <3>1, <3>2
  <2> QED
    BY <2>1, <2>2
<1>6. ASSUME NEW t \in Flushers, batchCallback(t)
      PROVE  Delivering' = {}
  BY <1>2, <1>6, CallbackGives
<1>7. CASE ~\E t \in Flushers : FlushStep(t)
  <2>1. Delivering' = Delivering /\ \A t \in Delivering : held'[t] = held[t]
    BY <1>7, NextCases, DeliveringFrame, ThreadKinds
  <2> QED
    BY <1>4, <2>1
<1> QED
  BY <1>5, <1>6, <1>7 DEF FlushStep

-----------------------------------------------------------------------------
(* Whether a chunk is in hand is the business of its own call. *)
LEMMA HandedGoesOn ==
    ASSUME TypeInv, NEW s \in Senders, SenderStep(s), HandedOver(s)
    PROVE  storeHybrid(s) \/ HandedOver(s)'
<1>1. pc \in [Threads -> Labels] /\ next \in [Flushers -> Labels] /\ s \in Threads /\ s \in Flushers
  BY ThreadKinds DEF TypeInv, CallTypes
<1>2. pc[s] \in {"after", "hybrid", "close", "flush", "batched"} /\ (pc[s] \in {"close", "flush", "batched"} => next[s] = "hybrid")
  BY DEF HandedOver, Between
<1>3. afterCallback(s) \/ storeHybrid(s) \/ closeBatchWindow(s) \/ flushCallbackBatch(s) \/ batchCallback(s)
  BY <1>2 DEF SenderStep, SendStep, FlushStep, flushDAT, sendLeave, checkWindow, addDataToBatch, batchRefuses,
     refuseChunk, acceptChunk, directCallback, measureCallback, drain, expireWindow, lockTwice, startCallback,
     dispatchCallback, ringFull, storeBegin, storeCopy, storeCount, storeAdd, storeSignal,
     flushLeave, Choosing, Pressing
<1>4. CASE afterCallback(s)
  <2>1. pc'[s] = "hybrid" \/ (pc'[s] = "flush" /\ next'[s] = "hybrid")
    BY <1>1, <1>4 DEF afterCallback, Goto
  <2> QED
    BY <2>1 DEF HandedOver, Between
<1>5. CASE closeBatchWindow(s) \/ flushCallbackBatch(s) \/ batchCallback(s)
  <2>1. pc'[s] = "hybrid" \/ (pc'[s] \in {"flush", "batched"} /\ next'[s] = "hybrid")
    BY <1>1, <1>2, <1>5 DEF closeBatchWindow, flushCallbackBatch, batchCallback, GoOn, Goto
  <2> QED
    BY <2>1 DEF HandedOver, Between
<1> QED
  BY <1>3, <1>4, <1>5

LEMMA HandOthers ==
    ASSUME NEW n, ret'[n] = ret[n], \A u \in Senders : chunk[u] = n \/ chunk'[u] = n =>
               pc'[u] = pc[u] /\ next'[u] = next[u] /\ chunk'[u] = chunk[u]
    PROVE  InHand(n)' <=> InHand(n)
<1>1. ASSUME NEW u \in Senders PROVE (chunk'[u] = n /\ HandedOver(u)') <=> (chunk[u] = n /\ HandedOver(u))
  <2>1. CASE chunk[u] = n \/ chunk'[u] = n
    BY <2>1 DEF HandedOver, Between
  <2>2. CASE ~(chunk[u] = n \/ chunk'[u] = n)
    BY <2>2
  <2> QED
    BY <2>1, <2>2
<1> QED
  BY <1>1 DEF InHand

LEMMA HandOwn ==
    ASSUME TypeInv, OwnersInv, NEW s \in Senders, SenderStep(s), NEW n \in Chunks, chunk[s] = n
    PROVE  /\ InHand(n) <=> ret[n] = "SUCCESS" \/ HandedOver(s)
           /\ InHand(n)' <=> ret'[n] = "SUCCESS" \/ (chunk'[s] = n /\ HandedOver(s)')
<1>1. n # 0
  BY Sizes DEF Chunks
<1>2. \A u \in Senders : u # s => chunk[u] # n /\ chunk'[u] = chunk[u]
  BY <1>1, SenderFrame DEF OwnersInv, OwnChunks
<1>3. InHand(n) <=> ret[n] = "SUCCESS" \/ HandedOver(s)
  BY <1>2 DEF InHand
<1>4. InHand(n)' <=> ret'[n] = "SUCCESS" \/ \E u \in Senders : chunk'[u] = n /\ HandedOver(u)'
  BY DEF InHand
<1>5. \A u \in Senders : chunk'[u] = n => u = s
  BY <1>2
<1> QED
  BY <1>3, <1>4, <1>5

(* A chunk comes in hand when it joins the batch, when its own sender delivers it, or when its thread starts. *)
LEMMA HandKept ==
    ASSUME TypeInv, OwnersInv, [Next]_vars, setup = "callback", NEW s \in Senders, SenderStep(s),
           ~addDataToBatch(s), ~directCallback(s), ~dispatchCallback(s), NEW n \in Chunks
    PROVE  InHand(n)' <=> InHand(n)
<1>1. n # 0 /\ \A u \in Senders : u # s => pc'[u] = pc[u] /\ next'[u] = next[u] /\ chunk'[u] = chunk[u]
  BY OthersFrame, Sizes DEF Chunks
<1>2. chunk'[s] \in {0, chunk[s]}
  <2>1. CASE sendLeave(s)
    BY <2>1 DEF sendLeave, TypeInv, CallTypes
  <2>2. CASE ~sendLeave(s)
    BY <2>2, SenderFrame
  <2> QED
    BY <2>1, <2>2
<1>3. CASE chunk[s] # n
  <2>1. ret'[n] = ret[n] /\ chunk'[s] # n
    BY <1>1, <1>2, <1>3, SenderFrame
  <2> QED
    BY <1>1, <1>3, <2>1, HandOthers
<1>4. CASE chunk[s] = n
  <2>1. /\ InHand(n) <=> ret[n] = "SUCCESS" \/ HandedOver(s)
        /\ InHand(n)' <=> ret'[n] = "SUCCESS" \/ (chunk'[s] = n /\ HandedOver(s)')
    BY <1>4, HandOwn
  <2>2. ret[n] = "SUCCESS" => ret'[n] = "SUCCESS"
    BY RetKept
  <2>3. HandedOver(s) => ret'[n] = "SUCCESS" \/ (chunk'[s] = n /\ HandedOver(s)')
    <3>1. CASE storeHybrid(s)
      BY <1>4, <3>1 DEF storeHybrid, TypeInv, CallTypes
    <3>2. ASSUME HandedOver(s), ~storeHybrid(s)
          PROVE  chunk'[s] = n /\ HandedOver(s)'
      <4>1. ~sendLeave(s)
        BY <3>2 DEF HandedOver, Between, sendLeave
      <4> QED
        BY <1>4, <3>2, <4>1, HandedGoesOn, SenderFrame
    <3> QED
      BY <3>1, <3>2
  <2>4. HandedOver(s)' => HandedOver(s)
    <3>1. HandedOver(s)' => InSend(s)' /\ ~Decided(s)'
      BY DEF HandedOver, InSend, FlushingDAT, Between, Decided
    <3> QED
      BY <3>1, StaysUndecided
  <2>5. ret'[n] = "SUCCESS" => ret[n] = "SUCCESS" \/ HandedOver(s)
    <3>1. CASE storeHybrid(s)
      BY <3>1 DEF storeHybrid, HandedOver
    <3>2. CASE storeSignal(s)
      BY <3>2 DEF storeSignal, TypeInv, Places
    <3>3. CASE ~storeHybrid(s) /\ ~storeSignal(s)
      <4>1. ret' = ret \/ \E c \in {"BUFFER_FULL", "TIMEOUT"} : ret' = [ret EXCEPT ![n] = c]
        BY <1>4, <3>3 DEF SenderStep, SendStep, FlushStep, flushDAT, sendLeave, checkWindow, batchRefuses, closeBatchWindow,
           refuseChunk, acceptChunk, measureCallback, drain, expireWindow, lockTwice, startCallback, afterCallback, ringFull,
           storeBegin, storeCopy, storeCount, storeAdd, flushLeave, flushCallbackBatch, batchCallback, Return
      <4> QED
        BY <4>1 DEF TypeInv, CallTypes
    <3> QED
      BY <3>1, <3>2, <3>3
  <2> QED
    BY <2>1, <2>2, <2>3, <2>4, <2>5
<1> QED
  BY <1>3, <1>4

LEMMA AddBytes ==
    ASSUME TypeInv, OwnersInv, OneDelivers, [Next]_vars, NEW s \in Senders, addDataToBatch(s), ~torn', NEW n \in Chunks,
           BytesInHand(n) = IF InHand(n) THEN size[n] ELSE 0
    PROVE  BytesInHand(n)' = IF InHand(n)' THEN size'[n] ELSE 0
<1>1. SenderStep(s) /\ InSend(s) /\ ~Decided(s) /\ ~HandedOver(s)
  BY DEF SenderStep, SendStep, addDataToBatch, InSend, FlushingDAT, Between, Decided, HandedOver
<1>2. ~torn /\ Delivering = {}
  BY AddAlone
<1>3. Delivering' = {}
  BY <1>1, <1>2, DeliveringFrame DEF FlushStep, flushCallbackBatch, batchCallback, addDataToBatch
<1>4. /\ delivered' = delivered /\ size' = size /\ pc'[n] = pc[n]
      /\ ret' = [ret EXCEPT ![chunk[s]] = "SUCCESS"] /\ AccumulatedDataSize' = AccumulatedDataSize + size[chunk[s]]
  <2>1. n # s /\ n \in Flushers /\ ~dispatchCallback(s)
    BY ThreadKinds DEF addDataToBatch, dispatchCallback
  <2> QED
    BY <1>1, <2>1, SenderFrame DEF addDataToBatch, Return
<1>5. chunk[s] \in Chunks /\ size[chunk[s]] \in Nat /\ AccumulatedDataSize \in Nat
  BY <1>1, CallIs, Sizes DEF TypeInv, BatchTypes
<1>6. CountIn(pBatchBuffer', AccumulatedDataSize', n)
      = CountIn(pBatchBuffer, AccumulatedDataSize, n) + (IF n = chunk[s] THEN size[chunk[s]] ELSE 0)
  <2>1. AccumulatedDataSize' <= BatchBufferSize /\ BatchBufferSize \in Nat
    BY <1>4, Sizes DEF addDataToBatch, FitsBatch
  <2>2. \A i \in 1 .. BatchBufferSize :
            pBatchBuffer'[i] = IF AccumulatedDataSize < i /\ i <= AccumulatedDataSize' THEN chunk[s] ELSE pBatchBuffer[i]
    BY AddedBatchIs
  <2>3. \A i \in 1 .. AccumulatedDataSize : pBatchBuffer'[i] = pBatchBuffer[i]
    <3>1. ASSUME NEW i \in 1 .. AccumulatedDataSize PROVE pBatchBuffer'[i] = pBatchBuffer[i]
      <4>1. i \in 1 .. BatchBufferSize /\ ~(AccumulatedDataSize < i)
        BY <1>4, <1>5, <2>1
      <4> QED
        BY <2>2, <4>1
    <3> QED
      BY <3>1
  <2>4. \A i \in AccumulatedDataSize + 1 .. AccumulatedDataSize + size[chunk[s]] : pBatchBuffer'[i] = chunk[s]
    <3>1. ASSUME NEW i \in AccumulatedDataSize + 1 .. AccumulatedDataSize + size[chunk[s]] PROVE pBatchBuffer'[i] = chunk[s]
      <4>1. i \in 1 .. BatchBufferSize /\ AccumulatedDataSize < i /\ i <= AccumulatedDataSize'
        BY <1>4, <1>5, <2>1
      <4> QED
        BY <2>2, <4>1
    <3> QED
      BY <3>1
  <2>5. CountIn(pBatchBuffer', AccumulatedDataSize + size[chunk[s]], n)
        = CountIn(pBatchBuffer, AccumulatedDataSize, n) + (IF n = chunk[s] THEN size[chunk[s]] ELSE 0)
    <3> DEFINE k == AccumulatedDataSize
               m == size[chunk[s]]
               c == chunk[s]
               end == AccumulatedDataSize + size[chunk[s]]
               new == pBatchBuffer'
    <3>1. k \in Nat /\ m \in Nat /\ end = k + m /\ Added(pBatchBuffer, new, k, end, c)
      BY <1>5, <2>3, <2>4 DEF Added
    <3> HIDE DEF k, m, c, new, end
    <3>2. CountIn(new, end, n) = CountIn(pBatchBuffer, k, n) + (IF n = c THEN m ELSE 0)
      BY <3>1, CountAdded
    <3> QED
      BY <3>2 DEF k, m, c, new, end
  <2> QED
    BY <1>4, <2>5
<1>7. Cardinality(TakenBy(Delivering, held, pBatchBuffer, n)) = 0
      /\ Cardinality(TakenBy(Delivering', held', pBatchBuffer', n)) = 0
  BY <1>2, <1>3, TakenNone
<1>8. /\ delivered[n] \in Nat /\ CountIn(pBatchBuffer, AccumulatedDataSize, n) \in Nat /\ size[n] \in Nat
  BY <1>2, BytesNat
<1>9. BytesInHand(n)' = BytesInHand(n) + (IF n = chunk[s] THEN size[n] ELSE 0)
  <2> DEFINE call == IF pc[n] = "callback" THEN size[n] ELSE 0
             in == CountIn(pBatchBuffer, AccumulatedDataSize, n)
             more == IF n = chunk[s] THEN size[n] ELSE 0
  <2>1. BytesInHand(n) = delivered[n] + in + 0 + call
    BY <1>7, BytesInHandIs
  <2>2. BytesInHand(n)' = delivered[n] + (in + more) + 0 + call
    BY <1>4, <1>6, <1>7, BytesInHandNext
  <2>3. call \in Nat /\ in \in Nat /\ more \in Nat /\ delivered[n] \in Nat
    BY <1>8
  <2> HIDE DEF call, in, more
  <2>4. BytesInHand(n)' = BytesInHand(n) + more
    BY <2>1, <2>2, <2>3
  <2> QED
    BY <2>4 DEF more
<1>10. CASE n = chunk[s]
  <2>1. ret[n] = "none"
    BY <1>1, <1>10 DEF OwnersInv, Undecided
  <2>2. ~InHand(n) /\ InHand(n)'
    <3>1. ret'[n] = "SUCCESS"
      BY <1>4, <1>10 DEF TypeInv, CallTypes
    <3> QED
      BY <1>1, <1>10, <2>1, <3>1, HandOwn
  <2> QED
    BY <1>4, <1>8, <1>9, <1>10, <2>2
<1>11. CASE n # chunk[s]
  <2>1. InHand(n)' <=> InHand(n)
    <3>1. \A u \in Senders : u # s => pc'[u] = pc[u] /\ next'[u] = next[u]
      BY <1>1, OthersFrame
    <3>2. ret'[n] = ret[n] /\ chunk' = chunk
      BY <1>11, <1>4 DEF addDataToBatch, callVars
    <3> QED
      BY <1>11, <3>1, <3>2, HandOthers
  <2> QED
    BY <1>4, <1>8, <1>9, <1>11, <2>1
<1> QED
  BY <1>10, <1>11

(* What the receiver has and a thread's callback is about to give. *)
LEMMA DeliveredFrame ==
    ASSUME [Next]_vars
    PROVE  /\ setup' = setup
           /\ delivered' = delivered \/ (\E s \in Senders : directCallback(s)) \/ (\E t \in Flushers : batchCallback(t))
              \/ (\E n \in Chunks : asyncCallback(n))
<1>1. ASSUME NEW s \in Senders, SenderStep(s)
      PROVE  setup' = setup /\ (delivered' = delivered \/ directCallback(s) \/ batchCallback(s))
  BY <1>1 DEF SenderStep, SendStep, FlushStep, flushDAT, sendLeave, checkWindow, addDataToBatch, batchRefuses, closeBatchWindow,
     refuseChunk, acceptChunk, directCallback, measureCallback, drain, expireWindow, lockTwice, startCallback,
     dispatchCallback, afterCallback, storeHybrid, ringFull, storeBegin, storeCopy, storeCount, storeAdd, storeSignal,
     flushLeave, flushCallbackBatch, batchCallback, history
<1>2. CASE UNCHANGED vars
  BY <1>2 DEF vars, history
<1>3. CASE \E s \in Senders : sendDAT(s)
  BY <1>3 DEF sendDAT, history
<1>4. ASSUME NEW n \in Chunks, FlushStep(n) \/ AsyncStep(n)
      PROVE  setup' = setup /\ (delivered' = delivered \/ batchCallback(n) \/ asyncCallback(n))
  BY <1>4 DEF FlushStep, AsyncStep, flushCallbackBatch, batchCallback, asyncCallback, asyncEnd, history
<1>5. CASE \E r \in Receivers : ReceiverStep(r)
  BY <1>5 DEF ReceiverStep, recvDAT, RecvStep, recvWait, recvSleep, recvWake, recvTimeout, recvBegin, recvRead, recvCount,
     recvTakeOff, history
<1> QED
  BY <1>1, <1>2, <1>3, <1>4, <1>5, NextCases DEF Flushers

(* Whoever adds or delivers a chunk, or gives it to its thread, has it in hand from then on. *)
LEMMA JoinsHand ==
    ASSUME TypeInv, OwnersInv, [Next]_vars, NEW s \in Senders, SenderStep(s), InSend(s), ~Decided(s), ~HandedOver(s),
           chunk' = chunk, ret'[chunk[s]] = "SUCCESS" \/ HandedOver(s)', NEW n \in Chunks
    PROVE  /\ n = chunk[s] => ~InHand(n) /\ InHand(n)'
           /\ n # chunk[s] => (InHand(n)' <=> InHand(n))
<1>1. CASE n = chunk[s]
  <2>1. ret[n] = "none"
    BY <1>1 DEF OwnersInv, Undecided
  <2> QED
    BY <1>1, <2>1, HandOwn
<1>2. CASE n # chunk[s]
  <2>1. \A u \in Senders : u # s => pc'[u] = pc[u] /\ next'[u] = next[u]
    BY OthersFrame
  <2>2. ret'[n] = ret[n]
    BY <1>2, SenderFrame
  <2> QED
    BY <1>2, <2>1, <2>2, HandOthers
<1> QED
  BY <1>1, <1>2

LEMMA DirectBytes ==
    ASSUME TypeInv, OwnersInv, OneDelivers, [Next]_vars, NEW s \in Senders, directCallback(s), ~torn, NEW n \in Chunks,
           BytesInHand(n) = IF InHand(n) THEN size[n] ELSE 0
    PROVE  BytesInHand(n)' = IF InHand(n)' THEN size'[n] ELSE 0
<1>1. SenderStep(s) /\ ~FlushStep(s) /\ InSend(s) /\ ~Decided(s) /\ ~HandedOver(s)
  BY DEF SenderStep, SendStep, FlushStep, flushCallbackBatch, batchCallback, directCallback, InSend, FlushingDAT, Between,
     Decided, HandedOver
<1>2. n # s /\ n \in Flushers /\ s \in Senders /\ chunk[s] \in Chunks
  BY <1>1, ThreadKinds, CallIs
<1>3. /\ UNCHANGED <<AccumulatedDataSize, pBatchBuffer, size, chunk>> /\ pc' = [pc EXCEPT ![s] = "measure"]
      /\ delivered' = [delivered EXCEPT ![chunk[s]] = @ + size[chunk[s]]] /\ ret' = [ret EXCEPT ![chunk[s]] = "SUCCESS"]
  BY DEF directCallback, Goto, batchVars, callVars
<1>4. pc'[n] = pc[n] /\ ret'[chunk[s]] = "SUCCESS" /\ delivered'[n] = delivered[n] + (IF n = chunk[s] THEN size[n] ELSE 0)
  <2>1. delivered[n] \in Nat
    BY BytesNat
  <2> QED
    BY <1>2, <1>3, <2>1 DEF TypeInv, CallTypes, HistoryTypes
<1>5. Delivering' = Delivering /\ \A t \in Delivering : held'[t] = held[t]
  BY <1>1, DeliveringFrame
<1>6. /\ n = chunk[s] => ~InHand(n) /\ InHand(n)'
      /\ n # chunk[s] => (InHand(n)' <=> InHand(n))
  BY <1>1, <1>3, <1>4, JoinsHand
<1> DEFINE in == CountIn(pBatchBuffer, AccumulatedDataSize, n)
           taken == Cardinality(TakenBy(Delivering, held, pBatchBuffer, n))
           call == IF pc[n] = "callback" THEN size[n] ELSE 0
           more == IF n = chunk[s] THEN size[n] ELSE 0
<1>7. BytesInHand(n) = delivered[n] + in + taken + call
  BY BytesInHandIs
<1>8. BytesInHand(n)' = delivered[n] + more + in + taken + call
  BY <1>3, <1>4, <1>5, BytesInHandNext, BytesFrame
<1>9. in \in Nat /\ taken \in Nat /\ call \in Nat /\ more \in Nat /\ delivered[n] \in Nat /\ size[n] \in Nat
  BY BytesNat
<1> HIDE DEF in, taken, call
<1>10. BytesInHand(n)' = BytesInHand(n) + more
  BY <1>7, <1>8, <1>9
<1>11. CASE n = chunk[s]
  BY <1>3, <1>6, <1>9, <1>10, <1>11
<1>12. CASE n # chunk[s]
  BY <1>3, <1>6, <1>9, <1>10, <1>12
<1> QED
  BY <1>11, <1>12

LEMMA DispatchBytes ==
    ASSUME TypeInv, OwnersInv, OneDelivers, [Next]_vars, NEW s \in Senders, dispatchCallback(s), ~torn, NEW n \in Chunks,
           BytesInHand(n) = IF InHand(n) THEN size[n] ELSE 0
    PROVE  BytesInHand(n)' = IF InHand(n)' THEN size'[n] ELSE 0
<1>1. SenderStep(s) /\ ~FlushStep(s) /\ InSend(s) /\ ~Decided(s) /\ ~HandedOver(s)
  BY DEF SenderStep, SendStep, FlushStep, flushCallbackBatch, batchCallback, dispatchCallback, InSend, FlushingDAT, Between,
     Decided, HandedOver
<1>2. n # s /\ n \in Threads /\ chunk[s] \in Chunks
  BY <1>1, ThreadKinds, CallIs
<1>3. UNCHANGED <<AccumulatedDataSize, pBatchBuffer, size, chunk, delivered, ret>>
  BY DEF dispatchCallback, batchVars, callVars, history
<1>4. /\ n = chunk[s] => pc'[n] = "callback" /\ pc[n] = "idle"
      /\ n # chunk[s] => pc'[n] = pc[n]
      /\ pc'[s] = "after"
  <2>1. pc[chunk[s]] = "idle"
    BY <1>1 DEF OwnersInv, Undecided
  <2> QED
    BY <1>2, <2>1, DispatchMoves
<1>5. Delivering' = Delivering /\ \A t \in Delivering : held'[t] = held[t]
  BY <1>1, DeliveringFrame
<1>6. /\ n = chunk[s] => ~InHand(n) /\ InHand(n)'
      /\ n # chunk[s] => (InHand(n)' <=> InHand(n))
  <2>1. HandedOver(s)'
    BY <1>4 DEF HandedOver
  <2> QED
    BY <1>1, <1>3, <2>1, JoinsHand
<1> DEFINE in == CountIn(pBatchBuffer, AccumulatedDataSize, n)
           taken == Cardinality(TakenBy(Delivering, held, pBatchBuffer, n))
           call == IF pc[n] = "callback" THEN size[n] ELSE 0
           calls == IF pc'[n] = "callback" THEN size[n] ELSE 0
<1>7. BytesInHand(n) = delivered[n] + in + taken + call
  BY BytesInHandIs
<1>8. BytesInHand(n)' = delivered[n] + in + taken + calls
  BY <1>3, <1>5, BytesInHandNext, BytesFrame
<1>9. in \in Nat /\ taken \in Nat /\ delivered[n] \in Nat /\ size[n] \in Nat
  BY BytesNat
<1>10. CASE n = chunk[s]
  <2>1. call = 0 /\ calls = size[n]
    BY <1>4, <1>10
  <2> HIDE DEF in, taken, call, calls
  <2>2. BytesInHand(n)' = BytesInHand(n) + size[n]
    BY <1>7, <1>8, <1>9, <2>1
  <2> QED
    BY <1>3, <1>6, <1>9, <1>10, <2>2
<1>11. CASE n # chunk[s]
  <2>1. call = calls
    BY <1>4, <1>11
  <2> HIDE DEF in, taken, call, calls
  <2>2. BytesInHand(n)' = BytesInHand(n)
    BY <1>7, <1>8, <2>1
  <2> QED
    BY <1>3, <1>6, <1>11, <2>2
<1> QED
  BY <1>10, <1>11

LEMMA QuietHand ==
    ASSUME TypeInv, OwnersInv, [Next]_vars, setup = "callback", NEW n \in Chunks,
           ~\E s \in Senders : addDataToBatch(s) \/ directCallback(s) \/ dispatchCallback(s)
    PROVE  InHand(n)' <=> InHand(n)
<1>1. CASE UNCHANGED vars
  BY <1>1 DEF vars, callVars, InHand, HandedOver, Between
<1>2. CASE \E s \in Senders : SenderStep(s)
  BY <1>2, HandKept
<1>3. ASSUME NEW s \in Senders, sendDAT(s)
      PROVE  InHand(n)' <=> InHand(n)
  <2>1. ret' = ret /\ \A u \in Senders : u # s => pc'[u] = pc[u] /\ next'[u] = next[u] /\ chunk'[u] = chunk[u]
    BY <1>3, OthersFrame DEF sendDAT
  <2>2. pc[s] = "idle" /\ pc'[s] = "window"
    BY <1>3, ThreadKinds DEF sendDAT, Goto, TypeInv, CallTypes
  <2>3. ~HandedOver(s) /\ ~HandedOver(s)' /\ \A u \in Senders : u # s => (HandedOver(u)' <=> HandedOver(u))
    BY <2>1, <2>2 DEF HandedOver, Between
  <2> QED
    BY <2>1, <2>3 DEF InHand
<1>4. CASE \/ \E m \in Chunks : FlushStep(m) \/ AsyncStep(m)
           \/ \E r \in Receivers : ReceiverStep(r)
  <2>1. ret' = ret
    BY <1>4 DEF FlushStep, AsyncStep, flushCallbackBatch, batchCallback, asyncCallback, asyncEnd, ReceiverStep, recvDAT, RecvStep,
       recvWait, recvSleep, recvWake, recvTimeout, recvBegin, recvRead, recvCount, recvTakeOff
  <2>2. \A u \in Senders : pc'[u] = pc[u] /\ next'[u] = next[u] /\ chunk'[u] = chunk[u]
    BY <1>4, OthersFrame
  <2> QED
    BY <2>1, <2>2, HandOthers
<1> QED
  BY <1>1, <1>2, <1>3, <1>4, NextCases

(* A chunk has the size it was sent with, and its thread is at its callback or not, as before. *)
LEMMA CallFrame ==
    ASSUME TypeInv, OwnersInv, [Next]_vars, NEW n \in Chunks,
           ~asyncCallback(n), ~\E s \in Senders : dispatchCallback(s)
    PROVE  /\ pc'[n] = "callback" <=> pc[n] = "callback"
           /\ size'[n] # size[n] => ret[n] = "none" /\ pc[n] = "idle" /\ ~InHand(n) /\ ret' = ret
<1>1. pc \in [Threads -> Labels] /\ next \in [Flushers -> Labels] /\ size \in [Chunks -> 0 .. MaxChunk]
      /\ n \in Threads /\ n \in Flushers /\ n \notin Senders /\ n \notin Receivers
  BY ThreadKinds DEF TypeInv, CallTypes
<1>2. CASE UNCHANGED vars
  BY <1>2 DEF vars, callVars
<1>3. ASSUME NEW s \in Senders, SenderStep(s)
      PROVE  pc'[n] = pc[n] /\ size' = size
  BY <1>1, <1>3, SenderFrame
<1>4. ASSUME NEW s \in Senders, sendDAT(s)
      PROVE  pc'[n] = pc[n] /\ (size'[n] # size[n] => ret[n] = "none" /\ pc[n] = "idle" /\ ~InHand(n) /\ ret' = ret)
  <2>1. pc'[n] = pc[n] /\ ret' = ret
    BY <1>1, <1>4 DEF sendDAT, Goto
  <2>2. ASSUME size'[n] # size[n] PROVE ret[n] = "none" /\ pc[n] = "idle" /\ ~InHand(n)
    <3>1. n = sends + 1 /\ sends \in Nat
      BY <1>1, <1>4, <2>2, Sizes DEF sendDAT, TypeInv, CallTypes
    <3>2. ret[n] = "none" /\ pc[n] = "idle"
      BY <3>1 DEF OwnersInv, Unsent
    <3>3. \A u \in Senders : chunk[u] # n
      <4>1. ASSUME NEW u \in Senders PROVE chunk[u] # n
        <5>1. CASE InSend(u)
          BY <3>1, <5>1, CallIs
        <5>2. CASE ~InSend(u)
          BY <3>1, <5>2 DEF TypeInv, ChunkOfCall
        <5> QED
          BY <5>1, <5>2
      <4> QED
        BY <4>1
    <3> QED
      BY <3>2, <3>3 DEF InHand
  <2> QED
    BY <2>1, <2>2
<1>5. ASSUME NEW m \in Chunks, FlushStep(m) \/ AsyncStep(m)
      PROVE  (pc'[n] = "callback" <=> pc[n] = "callback") /\ size' = size
  <2>1. m \in Threads /\ m \in Flushers /\ next[m] = "idle"
    BY <1>5, ThreadKinds DEF TypeInv, Places
  <2> QED
    BY <1>1, <1>5, <2>1 DEF FlushStep, AsyncStep, flushCallbackBatch, batchCallback, asyncCallback, asyncEnd, GoOn, Goto, callVars
<1>6. ASSUME NEW r \in Receivers, ReceiverStep(r)
      PROVE  pc'[n] = pc[n] /\ size' = size
  <2>1. pc'[n] = pc[n]
    BY <1>1, <1>6, ReceiverMoves
  <2> QED
    BY <1>6, <2>1 DEF ReceiverStep, recvDAT, RecvStep, recvWait, recvSleep, recvWake, recvTimeout, recvBegin, recvRead, recvCount,
       recvTakeOff, callVars
<1> QED
  BY <1>2, <1>3, <1>4, <1>5, <1>6, NextCases

LEMMA BatchKept ==
    ASSUME [Next]_vars, ~\E s \in Senders : addDataToBatch(s), ~\E t \in Flushers : FlushStep(t)
    PROVE  UNCHANGED <<AccumulatedDataSize, pBatchBuffer>>
<1>1. ASSUME NEW s \in Senders, SenderStep(s)
      PROVE  UNCHANGED <<AccumulatedDataSize, pBatchBuffer>>
  <2>1. ~FlushStep(s)
    BY DEF Flushers
  <2> QED
    BY <1>1, <2>1 DEF SenderStep, SendStep, flushDAT, sendLeave, checkWindow, batchRefuses, closeBatchWindow,
     refuseChunk, acceptChunk, directCallback, measureCallback, drain, expireWindow, lockTwice, startCallback,
     dispatchCallback, afterCallback, storeHybrid, ringFull, storeBegin, storeCopy, storeCount, storeAdd, storeSignal,
     flushLeave, batchVars
<1>2. CASE UNCHANGED vars
  BY <1>2 DEF vars, batchVars
<1>3. CASE \E s \in Senders : sendDAT(s)
  BY <1>3 DEF sendDAT, batchVars
<1>4. ASSUME NEW m \in Chunks, FlushStep(m) \/ AsyncStep(m)
      PROVE  UNCHANGED <<AccumulatedDataSize, pBatchBuffer>>
  <2>1. ~FlushStep(m)
    BY DEF Flushers
  <2> QED
    BY <1>4, <2>1 DEF AsyncStep, asyncCallback, asyncEnd, batchVars
<1>5. CASE \E r \in Receivers : ReceiverStep(r)
  BY <1>5 DEF ReceiverStep, recvDAT, RecvStep, recvWait, recvSleep, recvWake, recvTimeout, recvBegin, recvRead, recvCount,
     recvTakeOff, batchVars
<1> QED
  BY <1>1, <1>2, <1>3, <1>4, <1>5, NextCases

(* Any other step moves the bytes of a chunk at most: out of the batch, to a callback, to the receiver. *)
LEMMA QuietBytes ==
    ASSUME TypeInv, OwnersInv, OneDelivers, [Next]_vars, ~torn, NEW n \in Chunks,
           ~\E s \in Senders : addDataToBatch(s) \/ directCallback(s) \/ dispatchCallback(s)
    PROVE  BytesInHand(n)' = BytesInHand(n)
<1> DEFINE in == CountIn(pBatchBuffer, AccumulatedDataSize, n)
           inAfter == CountIn(pBatchBuffer', AccumulatedDataSize', n)
           taken == Cardinality(TakenBy(Delivering, held, pBatchBuffer, n))
           takenAfter == Cardinality(TakenBy(Delivering', held', pBatchBuffer', n))
           call == IF pc[n] = "callback" THEN size[n] ELSE 0
           callAfter == IF pc'[n] = "callback" THEN size'[n] ELSE 0
<1>1. BytesInHand(n) = delivered[n] + in + taken + call
  BY BytesInHandIs
<1>2. BytesInHand(n)' = delivered'[n] + inAfter + takenAfter + callAfter
  BY BytesInHandNext
<1>3. delivered[n] \in Nat /\ in \in Nat /\ taken \in Nat /\ size[n] \in Nat /\ call \in Nat
  BY BytesNat
<1>4. ~asyncCallback(n) => callAfter = call
  BY CallFrame
<1>5. CASE asyncCallback(n)
  <2>1. n \in Threads /\ pc \in [Threads -> Labels] /\ delivered \in [Chunks -> Nat]
    BY ThreadKinds DEF TypeInv, CallTypes, HistoryTypes
  <2>2. delivered'[n] = delivered[n] + size[n] /\ call = size[n] /\ callAfter = 0
    BY <1>5, <2>1 DEF asyncCallback, Goto, callVars
  <2>3. AsyncStep(n) /\ ~FlushStep(n) /\ UNCHANGED <<AccumulatedDataSize, pBatchBuffer>>
    BY <1>5 DEF AsyncStep, FlushStep, flushCallbackBatch, batchCallback, asyncCallback, batchVars
  <2>4. inAfter = in /\ takenAfter = taken
    BY <2>3, DeliveringFrame, BytesFrame
  <2> HIDE DEF in, inAfter, taken, takenAfter, call, callAfter
  <2> QED
    BY <1>1, <1>2, <1>3, <2>2, <2>4
<1>6. ASSUME NEW t \in Flushers, flushCallbackBatch(t)
      PROVE  BytesInHand(n)' = BytesInHand(n)
  <2>1. delivered' = delivered /\ ~asyncCallback(n)
    BY <1>6, ThreadKinds DEF flushCallbackBatch, history, asyncCallback, GoOn, Goto, TypeInv, CallTypes
  <2>2. CASE AccumulatedDataSize = 0
    <3>1. Delivering' = Delivering /\ held' = held /\ UNCHANGED <<AccumulatedDataSize, pBatchBuffer>>
      BY <1>6, <2>2, FlushTakes
    <3>2. inAfter = in /\ takenAfter = taken
      BY <3>1, BytesFrame
    <3> HIDE DEF in, inAfter, taken, takenAfter, call, callAfter
    <3> QED
      BY <1>1, <1>2, <1>4, <2>1, <3>2
  <2>3. CASE AccumulatedDataSize # 0
    <3>1. Delivering = {} /\ Delivering' = {t} /\ held'[t] = AccumulatedDataSize /\ AccumulatedDataSize' = 0
          /\ pBatchBuffer' = pBatchBuffer
      BY <1>6, <2>3, FlushTakes
    <3>2. held'[t] \in 1 .. BatchBufferSize
      BY <2>3, <3>1, Sizes DEF TypeInv, BatchTypes
    <3>3. taken = 0 /\ inAfter = 0 /\ takenAfter = CountIn(pBatchBuffer, held'[t], n)
      BY <3>1, <3>2, TakenNone, TakenOne, CountNone
    <3>4. takenAfter = in
      BY <3>1, <3>3
    <3> HIDE DEF in, inAfter, taken, takenAfter, call, callAfter
    <3> QED
      BY <1>1, <1>2, <1>3, <1>4, <2>1, <3>3, <3>4
  <2> QED
    BY <2>2, <2>3
<1>7. ASSUME NEW t \in Flushers, batchCallback(t)
      PROVE  BytesInHand(n)' = BytesInHand(n)
  <2>1. /\ Delivering = {t} /\ Delivering' = {} /\ UNCHANGED <<AccumulatedDataSize, pBatchBuffer>>
        /\ held[t] \in 1 .. BatchBufferSize
        /\ delivered'[n] = delivered[n] + CountIn(pBatchBuffer, held[t], n)
    BY <1>7, CallbackGives
  <2>2. inAfter = in /\ takenAfter = 0 /\ taken = CountIn(pBatchBuffer, held[t], n)
    BY <2>1, TakenNone, TakenOne
  <2>3. delivered'[n] = delivered[n] + taken
    BY <2>1, <2>2
  <2>4. callAfter = call
    <3>1. ~asyncCallback(n)
      BY <1>7, ThreadKinds DEF batchCallback, asyncCallback, GoOn, Goto, TypeInv, CallTypes
    <3> QED
      BY <1>4, <3>1
  <2> HIDE DEF in, inAfter, taken, takenAfter, call, callAfter
  <2> QED
    BY <1>1, <1>2, <1>3, <2>2, <2>3, <2>4
<1>8. CASE ~asyncCallback(n) /\ ~\E t \in Flushers : FlushStep(t)
  <2>1. UNCHANGED <<AccumulatedDataSize, pBatchBuffer>>
    BY <1>8, BatchKept
  <2>2. Delivering' = Delivering /\ \A t \in Delivering : held'[t] = held[t]
    BY <1>8, NextCases, DeliveringFrame, ThreadKinds
  <2>3. inAfter = in /\ takenAfter = taken
    BY <2>1, <2>2, BytesFrame
  <2>4. delivered'[n] = delivered[n]
    <3>1. CASE delivered' = delivered
      BY <3>1
    <3>2. ASSUME NEW m \in Chunks, asyncCallback(m), m # n PROVE delivered'[n] = delivered[n]
      BY <3>2 DEF asyncCallback, TypeInv, HistoryTypes
    <3> QED
      BY <1>8, <3>1, <3>2, DeliveredFrame DEF FlushStep
  <2> HIDE DEF in, inAfter, taken, takenAfter, call, callAfter
  <2> QED
    BY <1>1, <1>2, <1>4, <1>8, <2>3, <2>4
<1> QED
  BY <1>5, <1>6, <1>7, <1>8 DEF FlushStep

LEMMA NextBytes ==
    ASSUME TypeInv, OwnersInv, OneDelivers, BytesInv, [Next]_vars
    PROVE  BytesInv'
<1>1. SUFFICES ASSUME setup' = "callback", ~torn', NEW n \in Chunks
               PROVE  BytesInHand(n)' = IF InHand(n)' THEN size'[n] ELSE 0
  BY DEF BytesInv
<1>2. setup = "callback" /\ ~torn
  BY <1>1, DeliveredFrame, TornFrame, AddAlone
<1>3. BytesInHand(n) = IF InHand(n) THEN size[n] ELSE 0
  BY <1>2 DEF BytesInv
<1>4. ASSUME NEW s \in Senders, addDataToBatch(s) \/ directCallback(s) \/ dispatchCallback(s)
      PROVE  BytesInHand(n)' = IF InHand(n)' THEN size'[n] ELSE 0
  BY <1>1, <1>2, <1>3, <1>4, AddBytes, DirectBytes, DispatchBytes
<1>5. CASE ~\E s \in Senders : addDataToBatch(s) \/ directCallback(s) \/ dispatchCallback(s)
  <2>1. BytesInHand(n)' = BytesInHand(n)
    BY <1>2, <1>5, QuietBytes
  <2>2. InHand(n)' <=> InHand(n)
    BY <1>2, <1>5, QuietHand
  <2>3. InHand(n) => size'[n] = size[n]
    <3>1. ~asyncCallback(n) => (InHand(n) => size'[n] = size[n])
      BY <1>5, CallFrame
    <3>2. asyncCallback(n) => size' = size
      BY DEF asyncCallback, callVars
    <3> QED
      BY <3>1, <3>2
  <2> QED
    BY <1>3, <2>1, <2>2, <2>3
<1> QED
  BY <1>4, <1>5

LEMMA InitDelivery == Init => DeliveryInv
<1> SUFFICES ASSUME Init PROVE DeliveryInv
  OBVIOUS
<1>1. \A t \in Threads : pc[t] = "idle"
  BY DEF Init
<1>2. Delivering = {}
  BY <1>1 DEF Delivering, Threads
<1>3. OneDelivers
  BY <1>2 DEF OneDelivers
<1>4. ASSUME NEW n \in Chunks PROVE BytesInHand(n) = 0 /\ ~InHand(n)
  <2>1. n \in Threads /\ delivered[n] = 0 /\ AccumulatedDataSize = 0 /\ ret[n] = "none" /\ pc[n] = "idle"
    BY <1>1, ThreadKinds DEF Init
  <2>2. BytesInHand(n) = 0 + 0 + 0 + 0
    BY <1>2, <2>1, BytesInHandIs, TakenNone, CountNone
  <2>3. \A s \in Senders : ~HandedOver(s)
    BY <1>1, ThreadKinds DEF HandedOver, Between
  <2> QED
    BY <2>1, <2>2, <2>3 DEF InHand
<1>5. BytesInv
  BY <1>4 DEF BytesInv
<1> QED
  BY <1>3, <1>5 DEF DeliveryInv

(* With a callback, a chunk whose IOC_sendDAT said SUCCESS is with the receiver, in the batch, or with a thread that
   delivers it, each of its bytes once, and a refused one is nowhere, whoever else flushes, batches or calls back
   meanwhile: unless a batch was overwritten while the callback read it. *)
THEOREM EachChunkOnce == Spec => []OncePerChunk
<1>1. Init => DeliveryInv
  BY InitDelivery
<1>2. TypeInv /\ TypeInv' /\ OwnersInv /\ DeliveryInv /\ [Next]_vars => DeliveryInv'
  BY NextOneDelivers, NextBytes DEF DeliveryInv
<1>3. OwnersInv /\ DeliveryInv /\ TypeInv => OncePerChunk
  <2>1. SUFFICES ASSUME OwnersInv, DeliveryInv, TypeInv, setup = "callback", ~torn, NEW n \in Chunks
                 PROVE  /\ ret[n] = "SUCCESS" => BytesInHand(n) = size[n]
                        /\ ret[n] \in {"BUFFER_FULL", "TIMEOUT"} => BytesInHand(n) = 0
    BY DEF OncePerChunk
  <2>2. BytesInHand(n) = IF InHand(n) THEN size[n] ELSE 0
    BY <2>1 DEF DeliveryInv, BytesInv
  <2>3. ret[n] = "SUCCESS" => InHand(n)
    BY DEF InHand
  <2>4. ASSUME ret[n] \in {"BUFFER_FULL", "TIMEOUT"} PROVE ~InHand(n)
    <3>1. ASSUME NEW s \in Senders, chunk[s] = n, HandedOver(s) PROVE FALSE
      <4>1. InSend(s) /\ ~Decided(s)
        BY <3>1 DEF HandedOver, InSend, FlushingDAT, Between, Decided
      <4> QED
        BY <2>1, <2>4, <3>1, <4>1 DEF OwnersInv, Undecided
    <3> QED
      BY <2>4, <3>1 DEF InHand
  <2> QED
    BY <2>2, <2>3, <2>4
<1> QED
  BY <1>1, <1>2, <1>3, Typed, Owned, PTL DEF Spec

=============================================================================
