# Verification of IOC (Inter-Object Communication)

TLA+ models, TLC configurations and TLAPS proofs for the C library in this
repository: objects in one process, or in several, exchange events (EVT), data
(DAT) and commands (CMD), either without a connection (*Conles*) or over links
between a service and its clients (*Conet*).

Run from this directory: `tlc -workers 2 -config MCEvtDescQueue.cfg MCEvtDescQueue`
model-checks, `tlapm ConlesEventProofs.tla` proves (FifoServiceProofs, FifoTeardownProofs
and TcpLinkProofs take 5 to 8 minutes each).  `PROJECT.json` lists the runs, the lines of source that every definition stands for, the mutants that show that
each property can fail, the hazards of the code and the theorems.

## 1. Inventory

| Component | Source | State | Operations | Hard behaviour |
|---|---|---|---|---|
| EvtDescQueue | `_IOC_EvtDescQueue.c` | ring, `QueuedEvtNum`, `ProcedEvtNum`, mutex | enqueueElementLast, dequeueElementFirst, isEmpty | slots shared by two counters, full and empty ring address the same slot |
| ConlesEvent | `_IOC_ConlesEvent.c`, `IOC_Event.c` | link mutex, subscriber list and its mutex, queue, two event counters, state flags and `Main` | postEVT (async/sync x NonBlock/Timeout/MayBlock), subEVT, unsubEVT, forceProcEvt, wakeupProcEvt, EvtProcThread | synchronous posters against EvtProcThread, callbacks that call the API, lost wakeups, deadlines, counters read without a lock |
| Service and link tables | `IOC_Service.c` | two tables of 32 objects, per-service link tracking, daemon threads | onlineService, offlineService, connectService, acceptClient, closeLink, broadcastEVT, getServiceLinkIDs | object lifetime, reuse of IDs, failure after a slot was taken, daemons against calls |
| ConetEvent | `_IOC_ConetEvent.c` | none of its own | dispatch to the link's protocol, getLinkState | a getter that writes sub-states; a sub-state deduced from flags that several calls set and clear |
| FIFO protocol | `_IOC_SrvProtoFifo.c` | table of services, two connected conn objects, peer pointers, event/data/command queues | online/offline/connect/accept/close, subEvt/postEvt/pullEvt, sendData/recvData/flushData, execCmd/waitCmd/ackCmd | two connection mutexes, rendezvous over conditions, request/response matching over two rings, a timed callback in a thread of its own, byte ring, batches that five places flush |
| TCP protocol | `_IOC_SrvProtoTCP.c` | sockets, receiver thread per connection | the same interface | one stream for every kind of message, a peer lost in the middle of one, callers that wait for the receiver thread |
| Command, Data API | `IOC_Command.c`, `IOC_Data.c` | link sub-states | execCMD, waitCMD, ackCMD, sendDAT, recvDAT, flushDAT | state kept consistent on every return |
| Rest | `IOC_Capability.c`, `IOC_Result.c`, `IOC_Option.h`, `IOC_Helpers.h` | none | constants, strings, time arithmetic | - |

How they interact: `IOC_Event.c` sends a call on the AutoLink to ConlesEvent and a
call on any other link to ConetEvent, which looks the link up in the link table
and calls the function pointers of its protocol.  ConlesEvent owns one
EvtDescQueue, and its EvtProcThread is the only consumer.  The services'
daemons call connect/accept/close from threads of their own.  Subscribed
callbacks run inside the library's threads, or inside the poster's, and may call
the API again.

What makes them correct: the queue is a bounded FIFO for any interleaving of its
callers; an accepted event is processed once, in order, by one thread at a time,
and in the end; an error of a post means that nothing was accepted; the state
that getLinkState shows is what the threads do; every call returns; a link found
in the table is alive; a table slot taken is given back on every path; every
response reaches the command that asked for it; bytes leave a buffer in the order
they came.

## 2. Modules

`BoundedFifo` <- `EvtDescQueue` (refines it) <- `ConlesEvent` and `FifoEvt` (use its
operations as single steps, which the refinement justifies); ConlesEvent in turn refines
`EventChannel`.  `FifoService` connects
links; what a connected pair carries is in a module for each kind of traffic: `FifoEvt`,
`FifoDat`, `FifoCmd` (with `ConetLinkState`, and refining `CmdExchange`), and `TcpLink`
for all of it over a socket.  These take a connected pair as given, which `PeersAgree`
and `ConnectedWasAccepted` justify.

**BoundedFifo** is what a queue promises: each request takes effect in one step.

**EvtDescQueue** splits each operation of `_IOC_EvtDescQueue.c` the way the code
does it: lock and read both counters (`Lock`), refuse (`enqueueFull`,
`dequeueEmpty`), copy a descriptor in or out of slot `counter % Capacity`
(`enqueueCopy`, `dequeueCopy`), count (`enqueueCount`, `dequeueCount`), unlock
(`Unlock`).  Descriptors are opaque values.  The refinement maps the slots between
the two counters to the abstract sequence and lets a request take effect when its
outcome is settled.

**EventChannel** is what posting promises: an accepted event is handled once, after those
accepted before it and never beside another one; a synchronous post is accepted when nothing
is left to handle, and succeeds once its own event is handled; a post that fails never gets
its event in.

**ConlesEvent** has one action for every step between which another thread can
run.  `pc[t]` is where a thread is in an API call, `cb[t]` where it is in
`callbackProcEvtOverSuberList`, `loop` where EvtProcThread is.  They are separate
because a thread can be in all of them at once: EvtProcThread dispatches, and the
callback it runs posts.  The mutexes are sets of holders: none is recursive, so a
thread that locks twice waits for itself.  Events are told apart by the thread and
the number of its call; `due` and `pending` are history variables that only
properties read.  `pthread_cond_signal` is lost unless EvtProcThread is waiting,
and its `timedwait` may time out at any moment.  Deadlines may pass after any
round of a waiting loop.

The link's `State.Mutex` and `CondMutex` protect one step each and are part of that
step.  `State.Sub` is left out: the data part writes it and only getLinkState
copies it.

**FifoService** models `IOC_Service.c` over the FIFO protocol.  A thread is in one
call at a time (`op[t]`, `pc[t]`); the daemon of a service is the thread named like
it.  `link[o]` is a link object together with its FIFO part, which is allocated and
freed with it, and `tbl` the table whose index is the link's ID.  A link object is
named by the thread that allocates it and the number of its call, so that an object
and an ID stay apart: `getLinkObj(o)` is the object that has `o`'s ID *now*.  Reading
the table and using the object are different steps, as in the code.  `accepted` is a
history variable.

- Connect: `allocConnecting`, `findService`, `offerConnection` (ConnMutex taken,
  `pConnLinkObj` set, waiting), `finishConnect`.  Accept: `allocAccepting` or
  `daemonAlloc`, then rounds of `noOffer`, `rejectOffer` or `acceptOffer`, with
  `wakeAcceptor` for the 10 ms wait, then `trackManual` or `trackDaemon`.  Close:
  `closeLink`, `lockLink`, `clearPeer` (the trylock), `freeLink`, `countFreed`.  Offline:
  `offlineService`, `joinDaemon`, one link after the other, `finishOffline`.
- `__IOC_freeLinkObj` is two critical sections and two steps: `freeLinkObj` clears the slot
  and frees the object, `countFreed` decrements `_mIOC_LinkCount`.
- IOC_closeLink asserts that the link has `pMethods` (`IOC_Service.c:1043`).  A client's link
  gets them when its connect succeeds, a daemon's in the step after it accepted; whoever
  closes such a link by its ID before that ends the program (`aborted`, `Running`).
- The mutexes of the tables, WaitAccptedMutex, WaitNewConnMutex and
  ManualAccept.Mutex protect one step each.  ConnMutex is held while a connector
  waits, a link's Mutex while its peer is tried; both are state.
- `pthread_cancel` takes effect where the daemon waits, sleeps or logs.  Logging
  counts because `printf` may be a cancellation point (it is one when it writes): a
  daemon can end between accepting a client and remembering it.
- A service's URI is its own; a conflict is the same service again.
- The application's discipline is explicit.  `MayCall`: nobody connects to or accepts
  for a service, or takes it offline a second time, while it is taken offline (the code
  frees the mutexes they wait for).  `MayClose`: it closes the links whose IDs it holds,
  accepted ones that the service closes (`IOC_SrvTypes.h:286-287`) only with `ClosesAll`.
  Nothing else is excluded: the two ends of a connection may be closed at once, by two
  callers or by a caller and a service, and services go offline at once.
- A closer that tries the Mutex of a peer that the peer's own closer has freed meanwhile
  touches freed memory; the model looks at that Mutex as it was left.

**CmdExchange** is what executing commands promises the callers of one link: a command
that was sent is taken by one executor, answered once, and the call succeeds only when
its own command was answered.

**FifoCmd** models `IOC_Command.c` over `execCmd`, `waitCmd` and `ackCmd` of the FIFO
protocol.  `mode` is what the executor's end holds.  With a callback, a call goes
`startCallback`, then waits (`seeCompletion` or `execTimeout`), `joinCallback`,
`finishCallback`, against `callbackReturns`, `callbackReports` and `callbackCancelled` of
the thread it started; cancellation is deferred, so that a cancelled callback may still
return.  With a polling executor it goes `stampCmd`, `queueCmd` (or `refuseCmd`), then
passes over the queued responses: `takeResponse` when its sequence number is among them,
else `sleepForResponse`.  Executors run `waitCMD`, `takeCmd`, `noCmd`, `waitTimeout`,
`waitLeave`, `ackCMD` or `ackRefused`.  The rings keep the code's counters and slots
`counter % 64`.  A sleeping thread is woken by a signal, which picks one of the
sleepers, or by itself.  `cmdState` holds the flags of `IOC_Command.c`.

**ConetLinkState** is `_IOC_getLinkState_inConetMode` as a function of the usage and the
flags, branch for branch; FifoCmd's `SubStateTruthful` reads it.

**FifoEvt** models events over a link: `postEVT`, `stampEvt`, `lockLocal`, `lockPeer`, the
loop over the peer's EvtIDs (`loopSkips`, `loopCalls` and the callback's return, or
`loopQueues`), `unlockBoth`; `subEVT`, `subMalloc`, `subFill` and `unsubEVT`,
`unsubClear`, none of which takes a mutex; `pullEVT`, `pullNothing`, `pullTimeout`.
Memory that a subscription has allocated and not filled, or freed, is `unspecified`: the
loop finds any EvtID there.  A callback that posts on its own link is `stuck`: it waits
for the mutex its thread holds.

**FifoDat** models `sendData`, `recvData` and `flushData`.  A sender first looks at the
batching window (`checkWindow`, `addDataToBatch`, `batchRefuses`), then delivers: without
blocking itself (`acceptChunk`, `directCallback`, `drain`), blocking by a detached thread
(`dispatchCallback`, `asyncCallback`, `asyncEnd`) or by joining the batch.
`flushCallbackBatch` takes the batch under BatchMutex and `batchCallback` reads the buffer
after it: two steps, as in the code.  `lockTwice` is the blocking sender that locks
BatchMutex and calls `__IOC_addDataToBatch`, which locks it again.  The polling ring has
positions that wrap and a counter; the store of a receiver without a callback takes no
mutex, so that its copy, its read of the counter and its write are a step each.  A chunk
is its number, repeated for each byte.  Elapsed time is a choice.

**TcpLink** models the connection once both ends run `__TCP_recvThread`.  `net[e]` are the
messages on their way to end `e`; a command with a payload is two messages, and the
receiver's label `rx[e].at` says which it reads next.  Calls put messages into `todo` and
then send or fail.  `closeLink` loses an arbitrary part of what is under way, the last
message possibly cut, and a receiver whose read fails tells waiting calls exactly where
the code does.  Nothing keeps two senders of one end apart: when their sends overlap,
`mixed` is set and the model goes no further, because from there on the bytes of two
messages may alternate and the other end reads anything.

## 3. Runs

| Run | Bounds | Shows |
|---|---|---|
| `evt_desc_queue` | 2 threads, 2 descriptors, ring of 2, 6 calls | the ring refines `BoundedFifo`, and the code's assertions never fire. Six calls wrap both counters around the ring three times, and let it be full and empty at both offsets. |
| `conles_posting` | 2 threads with 2 calls each, queue of 1, 1 consumer | every mode of posting, force, wakeup and subscription, any two at once. A queue of one is full with one event, so that every waiting and refusing path is taken; the second call of a thread is the one that can overtake its first. |
| `conles_reentrant` | 2 threads with 2 calls each, 2 consumers, queue of 2, callbacks that subscribe, unsubscribe and post | re-entrance: the subscriber list and the link state. |
| `fifo_auto` | 2 threads with 2 calls each, an AUTO_ACCEPT service, clients with an answering and with an incompatible usage, table of 6 | rendezvous, rejection, restart, close against offline, and that calls return. The table does not fill up here: a connector whose daemon has no slot may wait for ever. |
| `fifo_manual` | 2 threads with 3 calls each, a manual service that keeps its links and a broadcast service that remembers one, table of 3 | a table that fills up and whose IDs are used again; both ends of a connection closed at once; accepts that time out; links the service forgets. A connection takes two slots, so that three are full with one connection and one waiting; the third call of a thread closes what the first two made. |
| `fifo_cmd` | 2 callers, 2 executors, rings of 1, 3 calls, every mode | two executors can answer out of order and two callers sleep for one signal; a ring of one is full with one command, and three calls wrap it. |
| `tcp_link` | a client with 2 threads, a server with 1, 3 calls, one end closes, a command queue of 1, a buffer of 2, up to 2 units a message | commands with and without payload, data and events on one stream, a buffer that overflows, a command that is dropped, and a close at every point of a message. |
| `fifo_dat` | 2 senders, 3 chunks of up to 2 bytes; batch of 2 with a callback, ring of 3 with a receiver | a batch that fills up while others flush it, callbacks that end between; a ring whose chunks cross its end. Three chunks are one in the callback, one in the batch and one that finds it full. |
| `fifo_evt` | a poster at each end, a thread that subscribes, 2 posts, 2 subscriptions, queue of 1 | a subscription with a repeated EvtID, one without a callback, posts in both directions, a full queue. |
| `fifo_reused_id`, `fifo_cmd_lost`, `fifo_dat_nodrop` | 2 threads with 4 calls each, one manual service; 2 callers and 1 executor; 2 senders | the code does not do what a doc or a comment says; see below. |

In ConlesEvent's runs deadlock checking is on: EvtProcThread never stops.  The other runs
turn it off because their callers make a bounded number of calls and stop.

Properties of ConlesEvent: `CallbackExclusion` (one thread calls back at a time),
`ErrorMeansNotAccepted` (a post that fails left nothing behind), `ImplementsChannel` (it
refines EventChannel: the event taken out for delivery and the queue after it are the
channel's queue, and a post is refused or accepted in one step of its own),
`LinkStateTruthful`, `SuberListOK`, `ForceProcDrains` (forceProcEvt returns after
every earlier event was processed, although it reads two counters without a lock),
and, under fairness, `AcceptedIsProcessed` and `CallsReturn`.

Properties of FifoService: `Rendezvous` (the assertions of connect, and whose offer
is the one on the table), `PeersAgree` (a peer pointer leads to an open link that
points back, but while one of the two is being closed; this includes two closers that each
find the other's Mutex taken, which is why each clears its own pointer before it tries),
`ConnectedWasAccepted` (one client, one acceptor, answering roles),
`OwnedStaysOpen` (nobody closes a link that the application still has to close, and closing
it will not run into the assertion), `OfflineClosesAccepted` (what a service remembers it
closes, also against its daemon; checked with an AUTO_ACCEPT service), `CountTruthful`
(IOC_getLinkCount is the slots taken and those cleared and not yet counted: none is freed
twice, and none is cleared for another link) and `CallsReturn`.

Properties of FifoCmd: `ImplementsExchange` (it refines CmdExchange),
`EveryCommandHasCaller` (the rings hold nothing whose caller is gone, so that no stale
response waits for a later call or fills the ring), `NoCallbackAfterReturn` (a callback,
which writes through pointers into its caller's frame, has ended when the call returns),
`SubStateTruthful` and `LoneExecReturns`.  The last two are about calls that no other
overlaps: the flags are single bits, which the first of two calls to return clears for
both, and a lost response is `fifo_cmd_lost`'s finding.

Properties of FifoEvt: `SeqFollowsReturn` (two posts may be given one number, but a post
that begins after another returned has a larger one), `OncePerSubscription` (a post that
no subscription overlapped calls back once for each match), `PulledOnce` (no event is pulled
twice, or at both ends, or pulled and still queued), `PostsReturn`.

Properties of FifoDat: `OncePerChunk` (each byte of an accepted chunk is delivered, or in
the batch, or in the hands of one thread; a refused chunk is nowhere), `FlushEmpties`
(nothing accepted before a flush is in the batch after it), `StreamIntact` (the ring holds
the bytes stored and not yet read, in order), `CallsReturn`.  `OncePerChunk` excepts a
batch that was overwritten while it was read (`torn`; see below), `StreamIntact` two accesses
of the ring that overlap without a mutex (`raced`).

Properties of TcpLink: `InStep` (a payload comes where the receiver asks for one and
nowhere else), `DataStream` (what was received and what is on its way is what was sent, in
order and once, but for messages that a full buffer lost, and a beginning of it after a
close; the rest is still with the thread that sends),
`ResponseBelongs` (a successful execCmd took the response to its own command, when no
other call overlapped and none timed out before: a response carries no request number
that is looked at), `ExecReturns` (an execCmd with a timeout returns; one without is told
when the connection is lost).

**Fairness.**  Each thread is scheduled (`WF` of its steps); that includes the
timeout of EvtProcThread's 10 ms wait.  Weak fairness of a step that locks a mutex
suffices where the calls are finitely many: nobody can compete for it for ever.
New calls and deadlines carry no fairness: an application need not call, and a
deadline need not pass, except that a callback returns in the end.
- FifoService: a timed accept's deadline is strongly fair, because time passes while its
  thread alternates between looking and waiting.  `CallsReturn` excepts what waits for
  another application thread by design: a connection to a manual service and an accept
  without timeout.
- FifoCmd: callers, callbacks and the executor's threads, which wait and acknowledge for
  as long as the application runs, are weakly fair.
- FifoEvt: a post's steps are strongly fair, as is a waiting pull: pulls take and release
  a mutex without end, and a mutex goes in the end to a thread that keeps asking for it.
- FifoDat: senders and callback threads are weakly fair.
- TcpLink: calls in progress and receivers are weakly fair; the deadline of an execCmd is
  strongly fair, because its thread may wake up spuriously before it.

**What does not hold**, each with the run that shows it:
- *An accepted link may already be closed, which is fine* (`IOC_Service.c:689`,
  `fifo_reused_id`).  The service closes by ID, and the ID may be another link's: in the run
  that of a connected client.  Were it that of a link without `pMethods`, the assertion of
  IOC_closeLink would end the program.
- *CMD will NEVER be pending in IOC indefinitely* (`README_ArchDesign.md:245`,
  `fifo_cmd_lost`).  A caller that finds its response sets `ProcedRespNum` past the
  responses before it, which belong to other callers; these sleep for ever.
- *Data chunks are never lost due to IOC internal issues* (`README_ArchDesign.md:376`,
  `fifo_dat_nodrop`).  A batch is read by the callback after its mutex was released,
  while the next chunk is written over it.

And what the modules show or leave out, without a run of its own:
- Two ends that post to each other over FIFO wait for each other's mutex for ever, and so
  does a callback that posts on the link it was called for (`Deadlocked` in FifoEvt, which
  `PostsReturn` excepts; `_IOC_SrvProtoFifo.c:811-815`).
- A blocking sendDAT that finds the batch in use locks BatchMutex twice
  (`_IOC_SrvProtoFifo.c:1188`; `lockTwice`, which `CallsReturn` excepts).
- A store into the polling ring takes no mutex (`_IOC_SrvProtoFifo.c:1352`): its signal is
  lost to a receiver that has looked and not yet slept, and its update of the counter to a
  receiver's.  `CallsReturn` of FifoDat is therefore about senders only.
- A synchronous post calls back with the link's mutex held; the callback's subEVT,
  unsubEVT or postEVT waits for its own thread, although `_IOC_ConlesEvent.md:34` says
  that callbacks may call the API.  The runs let callbacks call it only from
  EvtProcThread's dispatch, with user operations that never block on them
  (`ReentrantUserOps`).  A synchronous post is also refused as FORBIDDEN to a thread in no
  callback, whenever EvtProcThread is in one (`_IOC_ConlesEvent.c:779`).
- Queued events are not delivered to a consumer that has unsubscribed meanwhile
  (`_IOC_ConlesEvent.md:63` says they are).
- Going offline without KEEP_ACCEPTED_LINK "prevents resource leaks" (`IOC_SrvTypes.h:286-287`),
  but slots of the table of 32 are lost for good: those of a broadcast service's accepted
  links, which are closed at the protocol only (`IOC_Service.c:652`); that of the link that
  a daemon had allocated for its next client (`:428`, `:477`) and, when it is cancelled between
  accepting a client and remembering it, that of the accepted link, which also stays open
  (`:659`); and, in any service, the slot of a connect that failed, whose object is freed with
  `free` alone (`:1006`).  An accepted link for which the service's array had no room is not
  closed either.  FifoService models all of these, and `CountTruthful` holds with them: the
  count still shows what is lost.  No property asks for the slots back.
- Two threads that close the two ends of a connection at once: each reads its peer and then
  tries that one's Mutex, when the other may have freed it (`_IOC_SrvProtoFifo.c:697-700`),
  although the function's comment speaks of thread safety.
- A call in progress at the peer holds the peer's Mutex, so that the trylock of a close fails
  and the peer keeps a pointer to a freed end.  Calls over a link are in modules of their own,
  without close, and FifoService has closers only.

## 4. Proofs

`EvtDescQueueProofs`: for every ring size, set of threads, descriptors and bound,
the ring is type correct, its sanity checks hold and **it implements
`BoundedFifo`**.  The inductive invariant adds to the types: the mutex is held by
the one thread in its critical section; what that thread read still equals the
counters; the counters are 0..Capacity apart; after a copy the slot holds the
descriptor, and the copied-out descriptor is the one the slot holds.  The lemmas
`SlotsDiffer`, `CopyLeavesFifo`, `CountAppends`, `CountTakesHead` carry the modular
arithmetic: a slot outside the live part of the ring can be written without
changing the abstract queue.

`ConlesEventProofs`: for every set of threads, consumers, operations and sizes,
`TypeOK`, `CallbackExclusion`, `DeliveryOrder`, `LinkStateTruthful`,
`SuberListOK`, `ErrorMeansNotAccepted`, `ForceProcDrains` and `ImplementsChannel`.  The
counters are the crux: a synchronous poster dispatches because
`QueuedEvtNum = CallbacedEvtNum`, but an event is enqueued before it is counted and
called back before it is counted.  `CountersOK` says exactly by how much the two
counters differ: the queue's length, plus one while EvtProcThread has an event in
hand, minus one while a poster has enqueued and not yet counted; and the
latter holds the link's mutex, which the synchronous poster also needs.  So equal
counters, seen under the mutex, mean an empty queue and nobody calling back, and
`SyncOK` keeps it that way.  `DeliveryOrder`'s `due` is then the event in hand
followed by the queue.

`PostInv` adds the single events, for `ErrorMeansNotAccepted` and `ForceProcDrains`: an
event is known, to the queue, to a callback or to a forceProcEvt that waits for it, from its
acceptance on only (`FreshOK`); a post that is not counted yet has the last event of all
(`UncountedLast`), because it holds the mutex; and what forceProcEvt waits for is among the
first `n` events to be called back, `n` being the counter it read (`Within`, `DrainOK`).
Equal counters then mean that it is done.

`ImplementsChannel`: a new post is of an event the channel has not seen (`FreshOK` again); each
step of a thread moves its own post, or one event through the channel, or nothing
(`CallBegins`, `AcceptRefines`, `PostRefines`, `CallRefines`, `DispatchRefines`,
`EvtProcRefines`).  `ChanInv` adds what a synchronous post calls back for (`CallOK`), that
its event is out of the channel when it succeeds (`SyncDone`), and that it is in a nested call
only while a consumer is called (`NestedOK`): such a call waits for its own thread's mutex for
ever, so that the outer post stays accepted.

`FifoServiceProofs`: for every set of threads, services, usages and calls, every size
of the tables, and **whether or not the application keeps its teardown discipline**,
`TypeOK`, `Rendezvous` and `ConnectedWasAccepted`.  The invariant grows in layers:

- `TypeInv` adds to the types that a connector or an acceptor works on the object it
  allocated itself, `<<t, calls[t]>>` (`OpOK`), and that whatever is referred to was
  allocated, so it has an ID (`LinksOK`).  The type alone is not inductive: closing
  looks an ID up that must be one.
- `Rendezvous` is inductive given `TypeInv`: `WaitersStay` says that only the
  acceptor that took the offer lets a waiting connector go on, `NextOffer` that only
  `offerConnection` makes an offer.
- `FreshOK`: the object a thread is still setting up, and the object on offer, are in
  no acceptance yet; whoever has a peer is.  `AcceptedOK`: no two acceptances share a
  link, and each pairs usages that answer each other.  `acceptOffer` pairs two such
  fresh objects (`NextAccept`); every other step leaves usages alone, sets no peer, and
  makes a user's link `Connected` only for a woken connector that has a peer
  (`NextLinkEffects`).

Each of the 28 actions is one step of each of these lemmas.  `ActsAlone` and the lemmas
on single fields (`MemStep`, `ConnStateStep`, ...) say what most of them leave alone.

`FifoTeardownProofs`: for every set of threads, services, usages and calls and every size of
the tables, and an application without `ClosesAll`, `PeersAgree`, `OfflineClosesAccepted` and
`CountTruthful`.  Closers race freely.  The hypothesis is there because the code needs it: with
`ClosesAll` a service goes on to close an ID that another link has by then, or frees what the
application is freeing, and in the instance of `fifo_reused_id` TLC refutes `PeersAgree`,
`CountTruthful` and `OwnedStaysOpen` as well.  None of the three is inductive; `TeardownInv` adds
to the invariant above:

- `CallsInv`: nobody is in a connect or accept for a service that goes offline, which one call
  does at a time, and every thread is at a label of its call.
- `CustodyInv`, the heart of it: at every moment one party alone may close an open link, the
  thread that works on it (`WorkOK`), the application (`KeptOK`), the service that lists it
  (`ListOK`), or the thread that closes it (`CloseOK`, of which `OneCloser`: no two threads
  close one link).  `NextClosers` and `NextListed` say from whom a link can come to a closer and
  to a list.  A listed link being open, the slot of a listed ID is still its own
  (`RememberedSlots`): this is why closing by ID is safe.
- `MemInv`: objects are allocated once; an open one is in the slot of its ID (`TableOK`), so
  that each `freeLinkObj` clears the slot of the link it frees, and slot and count part for
  exactly as long as a thread is at `countFree` (`CountOK`).
- `ServiceInv`: who is about to remember a link has one to remember (`TrackOK`); an acceptance
  is listed in the step in which it is remembered (`RememberedOK`); and a daemon or acceptor
  finds its service online, so that nothing is listed once the lists are emptied (`OnlineOK`).
- `PeersInv`: a locked link is its closer's (`LockedOK`).  Between `lockLink` and `clearPeer` a
  closer's own pointer is clear, and its peer points back, or was cleared by the peer's own
  closer (`PointsBack`); nobody else points to the link.  So a trylock that fails leaves nothing
  to clear: the Mutex is held by the peer's closer, who has cleared its pointer before.  Whoever
  is freed has no peer any more (`FreeOK`).

`NextTableStep`, `NextListStep`, `NextAcceptedStep`, `NextOwnedStep` and `NextCountStep` first reduce
the 28 actions to the few things a step can do to the table, the lists, the acceptances, the
application's links and the count; the invariants are proved from these.

`FifoCmdProofs`: for every number of callers, executors and calls, and every length of
the rings, `TypeOK`, `NoCallbackAfterReturn`, `EveryCommandHasCaller`, `SubStateTruthful` and
`ImplementsExchange`.
- `TypeInv` splits the labels between callers and executors; the counters stay a ring
  apart because `takeResponse` only moves to a live response.
- `NoCallbackAfterReturn` follows from `CallbackInv`: outside `watch` and `join` no
  callback runs.
- `EveryCommandHasCaller` alone is not inductive: when a caller takes its response, no
  other place may hold the same number.  `SeqInv` says that the numbers in use are
  below `sequenceCounter` and different (`NumbersOK`), that each queued command, each in an
  executor's hands and each live response belongs to a waiting caller and appears once
  (`CmdsOK`, `HandsOK`, `ResponsesOK`), and that the three places are disjoint
  (`PlacesOK`).  `FreeSlot` and `SlotsDiffer` carry the arithmetic of the rings.
- `SubStateTruthful` needs the history of overlaps: `FlagsInv` says that of two calls in
  progress both are marked, that an end is idle once nobody is in a call, and that a raised
  flag of the executor's end has somebody behind it, in the one mode it belongs to.

- `ImplementsExchange`: every step of FifoCmd is a step of CmdExchange for one caller's
  command, or leaves every command where it is.  Besides the invariants above it needs
  `CallInv`, what a call is going to return at each point of it: a result only with a
  callback that has ended, a timeout only in callback mode, none while it waits.
  `QueueSends`, `TakeMoves` and `AckMoves` say that a step on a ring moves exactly one
  command, because by `SeqInv` its number is in no other place and no other call has it;
  `LeaveEnds` says that what a call returns agrees with where its command got.

`FifoEvtProofs`: for every number of threads, posts and subscriptions and every size of the
queues, `TypeOK`, `PulledOnce`, `SeqFollowsReturn` and `OncePerSubscription`.
- `PlacesInv`: every event is in one queue, one pulled sequence or `dropped`, once; a post
  that has not come to the queue is in none (`PendingFree`), and no two posts have the same
  event (`OwnEvents`).
- `SeqInv`: the number of an event is what the counter was at some moment between the
  increment and now (`Stamps`), and what returned earlier had its number before
  (`EarlierStamps`).
- `CountInv`: in the loop the count is the number of matching places passed so far, as long
  as no change of the subscription came between.  Memory is `unspecified` only in the middle
  of such a change (`UnspecifiedMid`).

`FifoDatProofs`: for every number of senders and receivers and every size, `TypeOK`,
`OncePerChunk`, `FlushEmpties` and `StreamIntact`.
- `OwnersInv`: a chunk belongs to one call, and has no result before the call decides.
- `FlushInv`: once a flush has taken the batch, what had been accepted before it is out of
  it; later chunks may be in it.
- `DeliveryInv`: unless a batch was torn, one thread at most delivers one, and the batch is
  empty while it does; then each step moves the bytes of a chunk, and `BytesInHand` counts
  them wherever they are.
- `RingInv`: `stored` and `received` only grow, and byte `i` of the stream is in slot
  `i % BufferSize` until it is received (`Content`); the positions are the two lengths
  modulo the size.  `Counter` says what `AvailableData` is at each label of a store or of a
  receive, unless two of them overlapped (`raced`).

`TcpLinkProofs`: for every number of threads, calls and closed ends and every size, `TypeOK`,
`InStep`, `ResponseBelongs` and `DataStream`.
- `StreamInv`: on a stream, payloads come right after the commands that have one and nowhere
  else, beginning with what the receiver asks for now (`Aligned`); while both ends are open
  none is missing at its end (`Whole`), so that the next message fits.  A close cuts a
  stream, and only what was cut off is missing.
- `ResponseBelongs` is hard because a response carries nothing that is compared: the
  receiver gives it to whoever waits.  `CommandInv` says that unless calls of an end
  overlapped or one timed out (`unsure`), its command is in one of nine places at most, from
  the call over the request, the peer's receiver, its queue, a thread that holds it and the
  answer to the report (`Places`, `OnePlace`), that the number in that place is that of the
  call, and that there is none without a call.  `Moves` and `Step` describe what a step may
  do with it; `StepKeeps` proves `CommandInv` from that once, and one lemma for each group of
  actions (`SendStep`, `PopStep`, `AckStep`, `ReceiveStep`, `ReportStep`, `CloseStep`, ...)
  shows that the actions are such steps.  `PreparedInv`: a call has one command to send at
  most.
- `DataStream`: `Flow` cuts the units sent to an end at two points, `r` and `n`: up to `r` they
  have been received or lost, up to `n` they are on their way, and the rest is what the
  peer's calls have prepared.  `StepCases` sorts the actions by what they do to this; a
  message taken moves `r` (`CarriesRest`), a message sent moves `n` (`CarriesMore`), a close
  moves `n` back (`CarriesCut`).  That a sender's message goes on exactly at `n` rests on
  `SenderInv`: while an end is not `mixed`, one of its senders has something to send.
  That data are not taken for a payload rests on `StreamInv`.  The definitions speak of the
  set of units in a sequence of messages and of their order, not of the sequence flattened,
  so that no induction is needed.

Assumptions: the named `ASSUME`s of the modules (sizes positive, `EvtProc` not an
application thread, senders, receivers and callback threads different, operations of the
stated form; a callback does not call forceProcEvt, which would wait for its own event).
FifoDat's sizes fit `size_t`, what is sent in total included: the buffers come from
`malloc`, so that no size exceeds it, and the total bounds the counter that unprotected
stores add to.

Only model-checked: liveness, which this prover cannot do, and `OwnedStaysOpen`.

## 5. Not modelled, and why

- Closing a link while a call on it is in progress, over FIFO: `getLinkObjByLinkID` returns
  a pointer and holds nothing, the call then uses freed memory, and there is no protection
  to check.  Over TCP an end closes while its own calls are idle, while the other end's are
  not.
- Commands over FIFO: the branch of execCmd that no caller reaches; a waitCMD whose end has
  a callback.
- Data over FIFO: two ends that send to each other; `LastSentCache`, which a zero-timeout
  recvDAT of a non-polling link reads; failing `malloc` and `pthread_create` of a callback's
  thread, after which it runs in the sender.  A synchronous nonblocking recvDAT returns
  NO_DATA without looking and changes nothing.
- getLinkState's own writes to the flags of a receiver that was used for sending.
- TCP: sockets, online, connect, accept and their negotiation; socket timeouts and a send
  that blocks on a full socket; what follows when two senders of one end overlap (`mixed`);
  a callback on the receiver thread that executes a command on the same link, and then
  waits for itself; the content of a payload.  waitCmd and recvData without a timeout sleep
  on after the connection is lost, if no command or data come; no property asks them to
  return.
- In the service: broadcastEVT, getServiceLinkIDs and other getters that only read;
  auto-subscription (it is a subEVT and, when that fails, a closeLink); the table of
  services and its limit; a service with both daemons; spurious wakeups of connect,
  which would run into its assertion; offline against a connect or accept in progress,
  which the code does not support; failing `calloc` and `pthread_create`.
- In ConlesEvent: `State.Sub`, deinit (never called), a callback that calls forceProcEvt.
- Constants, string conversion, logging, parameter validation: without state.
- Memory reuse by the allocator: an object that was freed stays "freed" here.

## 6. What could follow

1. `TcpConnect`: the negotiation over the socket and its failures.
2. The data flags of `IOC_Data.c` in `SubStateTruthful`.
