---------------------------- MODULE TcpLinkProofs ----------------------------
(***************************************************************************)
(* A connection over TCP, for any number of threads at each end, queues    *)
(* and buffers of any size, and any number of calls and closed ends: the   *)
(* types and the bounds; that a receiver reads the stream in step with the *)
(* sender; that an execCmd which succeeds took the response to its own     *)
(* command; and that the data sent to an end arrive in order and once, but *)
(* for what its full buffer lost.  A response carries nothing that says    *)
(* whose it is, so the third rests on the command being in one place at a  *)
(* time (OnePlace), however the threads of both ends, their receivers and  *)
(* a close interleave; the last on the stream being cut at one point into  *)
(* what was received, what is on its way and what is still to be sent      *)
(* (Flow), which only one sender at a time (SenderInv) keeps.              *)
(***************************************************************************)
EXTENDS TcpLink, SequenceTheorems, TLAPS

(* Messages as the calls make them: a command has its number, and only a command's payload is numbered 0. *)
Made == {m \in Messages : /\ m.type = "COMMAND" => Len(m.ids) = 1 /\ m.ids[1] # 0 /\ m.status # "none"
                          /\ m.ids = << 0 >> => m.type = "DATA"}
Given == {c \in Cmds : c.id # 0 /\ c.status # "INITIALIZED"}

(* In a stream whose reader asks for a payload, or does not, payloads come after the commands that have one *)
(* and nowhere else; it is whole when it does not end at such a command.                                    *)
Asks(m) == m.type = "COMMAND" /\ m.payload
Aligned(s, asks) == \A i \in 1 .. Len(s) : s[i].ids = << 0 >> <=> IF i = 1 THEN asks ELSE Asks(s[i - 1])
Whole(s, asks) == IF s = <<>> THEN ~asks ELSE ~Asks(s[Len(s)])

Commanding == {"inPayload", "outPayload", "request", "response"}
RxLabels == {"header", "inPayload", "outPayload", "callback", "request", "respond", "response", "exited"}
PcLabels == Executing \cup {"idle", "send", "ack", "poll", "asleepCmd", "holding", "read", "asleepDat"}
Asking(e) == rx[e].at \in {"inPayload", "outPayload"}

LinkTypes ==
    /\ link \in [Ends -> {"open", "closing", "closed"}]
    /\ net \in [Ends -> Seq(Made)]
    /\ DatMode \in [Ends -> {"callback", "polling", "none"}]
RxTypes ==
    /\ rx \in [Ends -> [at : RxLabels, msg : Made]]
    /\ \A e \in Ends : rx[e].at \in Commanding => rx[e].msg.type = "COMMAND"
ResponseTypes ==
    /\ CmdResponseReady \in [Ends -> BOOLEAN] /\ CmdResponse \in [Ends -> Cmds]
    /\ RecvError \in [Ends -> {"SUCCESS", "LINK_BROKEN", "BUG"}]
StoredTypes ==
    /\ IncomingCmdQueue \in [Ends -> Seq(Given)] /\ PollingBuffer \in [Ends -> Seq(Nat)]
    /\ \A e \in Ends : Len(IncomingCmdQueue[e]) <= CmdQueueLen /\ Len(PollingBuffer[e]) <= BufferSize
    /\ PeerHasSubscription \in [Ends -> BOOLEAN] /\ subscribed \in [Ends -> BOOLEAN]
CallTypes ==
    /\ pc \in [Threads -> PcLabels]
    /\ cmd \in [Threads -> Cmds] /\ limit \in [Threads -> {"nonblock", "timed", "infinite"}] /\ ret \in [Threads -> Results]
    /\ \A t \in Threads : pc[t] = "holding" => cmd[t].id # 0
    /\ calls \in Nat /\ sent \in [Ends -> Nat]
TodoTypes ==
    /\ todo \in [Threads \cup Ends -> Seq(Made)]
    /\ \A a \in Threads \cup Ends : Aligned(todo[a], FALSE) /\ Whole(todo[a], FALSE)
TypeInv == LinkTypes /\ RxTypes /\ ResponseTypes /\ StoredTypes /\ CallTypes /\ TodoTypes

(* What is on its way to an end fits where its receiver is; while both ends are open nothing is missing at its end. *)
StreamInv ==
    \A e \in Ends : /\ Aligned(net[e], Asking(e))
                    /\ link[e] = "open" /\ link[Peer(e)] = "open" => Whole(net[e], Asking(e))

(* The commands that a sequence of messages carries, requests or responses. *)
Carried(s, request) == {i \in 1 .. Len(s) : s[i].type = "COMMAND" /\ (s[i].status = "PENDING" <=> request)}
One(s, request) == \A i, j \in Carried(s, request) : i = j
Numbered(s, request, n) == \A i \in Carried(s, request) : s[i].ids[1] = n

(* What a call prepares to send: at most one command, and a request only while it executes that command. *)
PreparedInv ==
    \A a \in Threads \cup Ends : /\ One(todo[a], TRUE) /\ One(todo[a], FALSE)
                                 /\ Carried(todo[a], TRUE) # {} => a \in Threads /\ pc[a] = "exec"
                                 /\ a \in Threads => Numbered(todo[a], TRUE, cmd[a].id)

(* The places where the command of an execCmd of end e may be, from the call to the report of its response. *)
Busy(e) == \E t \in Of(e) : pc[t] \in Executing
Places(e) ==
    LET p == Peer(e) IN
         {<<"exec", t>> : t \in {u \in Of(e) : pc[u] = "exec"}}
    \cup {x \in {<<"request", p>>} : Carried(net[p], TRUE) # {}}
    \cup {x \in {<<"read", p>>} : rx[p].at \in {"inPayload", "request"}}
    \cup {x \in {<<"queue", p>>} : IncomingCmdQueue[p] # <<>>}
    \cup {<<"held", t>> : t \in {u \in Of(p) : pc[u] = "holding"}}
    \cup {<<"answer", a>> : a \in {b \in Senders(p) : link[p] = "open" /\ Carried(todo[b], FALSE) # {}}}
    \cup {x \in {<<"response", e>>} : Carried(net[e], FALSE) # {}}
    \cup {x \in {<<"report", e>>} : rx[e].at \in {"outPayload", "response"}}
    \cup {x \in {<<"ready", e>>} : CmdResponseReady[e] /\ Busy(e)}
AllNumbered(e, n) ==
    LET p == Peer(e) IN
    /\ Numbered(net[p], TRUE, n) /\ Numbered(net[e], FALSE, n)
    /\ rx[p].at \in {"inPayload", "request"} => rx[p].msg.ids[1] = n
    /\ IncomingCmdQueue[p] # <<>> => IncomingCmdQueue[p][1].id = n
    /\ \A u \in Of(p) : pc[u] = "holding" => cmd[u].id = n
    /\ link[p] = "open" => \A a \in Senders(p) : Numbered(todo[a], FALSE, n)
    /\ rx[e].at \in {"outPayload", "response"} => CmdResponse[e].id = n

(* Unless calls overlap or one timed out: an end has one command under way at most, it is in one place at most, *)
(* and it is nowhere when nobody executes it.  A response that has been reported is that of the call.           *)
OneCall(e) == \A t, u \in Of(e) : pc[t] \in Executing /\ pc[u] \in Executing => t = u
OnePlace(e) ==
    /\ \A x, y \in Places(e) : x = y
    /\ Places(e) # {} => Busy(e)
    /\ One(net[Peer(e)], TRUE) /\ One(net[e], FALSE) /\ Len(IncomingCmdQueue[Peer(e)]) <= 1
    /\ \A t \in Of(e) : pc[t] \in Executing => AllNumbered(e, cmd[t].id)
Reported(e) == CmdResponseReady[e] /\ RecvError[e] = "SUCCESS" =>
                   \A t \in Of(e) : pc[t] \in Executing => CmdResponse[e].id = cmd[t].id
CommandInv ==
    /\ unsure \in [Ends -> BOOLEAN]
    /\ \A e \in Ends : /\ rx[e].at # "exited" => RecvError[e] = "SUCCESS"
                       /\ ~unsure[e] => OneCall(e) /\ Reported(e) /\ (rx[e].at # "exited" => OnePlace(e))

-----------------------------------------------------------------------------
LEMMA EndsAre ==
    /\ \A t \in Threads : EndOf[t] \in Ends /\ t \notin Ends /\ t \in Threads \cup Ends
    /\ \A e \in Ends : Peer(e) \in Ends /\ Peer(e) # e /\ Peer(Peer(e)) = e /\ \A f \in Ends : f = e \/ f = Peer(e)
  BY ThreadsAssumption DEF Ends, Peer

LEMMA MadeIs ==
    ASSUME NEW m \in Made
    PROVE  /\ m \in Messages /\ m.ids \in Seq(Nat) /\ m.payload \in BOOLEAN /\ m.cut \in BOOLEAN
           /\ m.type = "COMMAND" => CmdOf(m) \in Given /\ m.ids # << 0 >>
           /\ m.ids = << 0 >> => m.type = "DATA" /\ ~Asks(m)
<1>1. m \in Messages /\ (m.type = "COMMAND" => Len(m.ids) = 1 /\ m.ids[1] # 0 /\ m.status # "none")
      /\ (m.ids = << 0 >> => m.type = "DATA")
  BY DEF Made
<1>2. m.ids \in Seq(Nat) /\ m.payload \in BOOLEAN /\ m.cut \in BOOLEAN
  BY <1>1 DEF Messages
<1>3. ASSUME m.type = "COMMAND" PROVE CmdOf(m) \in Given
  <2>1. m.ids[1] \in Nat /\ m.ids[1] # 0 /\ m.status \in {"PENDING", "SUCCESS", "FAILED"}
    BY <1>1, <1>2, <1>3, ElementOfSeq DEF Messages
  <2> QED
    BY <1>2, <2>1 DEF CmdOf, Given, Cmds
<1>4. m.type = "COMMAND" => m.ids # << 0 >>
  BY <1>1
<1> QED
  BY <1>1, <1>2, <1>3, <1>4 DEF Asks

LEMMA MessageMade ==
    ASSUME NEW type \in {"DATA", "EVENT", "SUBSCRIBE", "UNSUBSCRIBE", "NEGOTIATION"}, NEW ids \in Seq(Nat),
           ids = << 0 >> => type = "DATA"
    PROVE  /\ Message(type, ids) \in Made /\ Message(type, ids).ids = ids /\ ~Asks(Message(type, ids))
  BY DEF Message, Made, Messages, Asks

LEMMA NothingMade == Nothing \in Made /\ Payload \in Made /\ Payload.ids = << 0 >> /\ ~Asks(Payload)
<1>1. << 0 >> \in Seq(Nat) /\ <<>> \in Seq(Nat) /\ <<>> # << 0 >>
  OBVIOUS
<1>2. Message("NEGOTIATION", <<>>) \in Made
  BY <1>1, MessageMade
<1>3. Message("DATA", << 0 >>) \in Made /\ Message("DATA", << 0 >>).ids = << 0 >> /\ ~Asks(Message("DATA", << 0 >>))
  BY <1>1, MessageMade
<1> QED
  BY <1>2, <1>3 DEF Nothing, Payload

LEMMA GivenIs ==
    ASSUME NEW c \in Given
    PROVE  /\ c \in Cmds /\ c.id \in Nat \ {0} /\ c.payload \in BOOLEAN
           /\ \A ok \in BOOLEAN : Answered(c, ok) \in Given
  BY DEF Given, Cmds, Answered

(* The messages of a command. *)
LEMMA CmdMessagesAre ==
    ASSUME NEW c \in Given
    PROVE  /\ CmdMessages(c) \in Seq(Made) /\ Aligned(CmdMessages(c), FALSE) /\ Whole(CmdMessages(c), FALSE)
           /\ \A i \in 1 .. Len(CmdMessages(c)) : LET m == CmdMessages(c)[i] IN
                  m.type = "COMMAND" => i = 1 /\ m.status = c.status /\ m.ids[1] = c.id
<1> DEFINE m == [Message("COMMAND", <<c.id>>) EXCEPT !.status = c.status, !.payload = c.payload]
<1>1. m \in Made /\ (Asks(m) <=> c.payload) /\ m.ids # << 0 >> /\ m.status = c.status /\ m.ids[1] = c.id
  <2>1. c.id \in Nat \ {0} /\ c.status \in {"PENDING", "SUCCESS", "FAILED"} /\ c.payload \in BOOLEAN
    BY DEF Given, Cmds
  <2>2. <<c.id>> \in Seq(Nat) /\ Len(<<c.id>>) = 1 /\ <<c.id>>[1] = c.id /\ <<c.id>> # << 0 >>
    BY <2>1
  <2> DEFINE base == Message("COMMAND", <<c.id>>)
  <2>3. base \in Messages /\ base.type = "COMMAND" /\ base.ids = <<c.id>>
    BY <2>2 DEF Message, Messages
  <2> HIDE DEF base
  <2>4. [base EXCEPT !.status = c.status, !.payload = c.payload] \in Messages
    BY <2>1, <2>3 DEF Messages
  <2>5. /\ [base EXCEPT !.status = c.status, !.payload = c.payload].type = "COMMAND"
        /\ [base EXCEPT !.status = c.status, !.payload = c.payload].ids = <<c.id>>
        /\ [base EXCEPT !.status = c.status, !.payload = c.payload].status = c.status
        /\ [base EXCEPT !.status = c.status, !.payload = c.payload].payload = c.payload
    BY <2>3 DEF Messages
  <2>6. m \in Messages /\ m.type = "COMMAND" /\ m.ids = <<c.id>> /\ m.status = c.status /\ m.payload = c.payload
    BY <2>4, <2>5 DEF base
  <2> HIDE DEF m
  <2> QED
    BY <2>1, <2>2, <2>6 DEF Made, Asks
<1> HIDE DEF m
<1>2. CASE c.payload
  <2>1. CmdMessages(c) = <<m, Payload>>
    <3>1. CmdMessages(c) = <<m>> \o <<Payload>>
      BY <1>2 DEF CmdMessages, m
    <3>2. <<m>> \in Seq(Made) /\ <<Payload>> \in Seq(Made) /\ Len(<<m>>) = 1 /\ Len(<<Payload>>) = 1
          /\ <<m, Payload>> \in Seq(Made) /\ Len(<<m, Payload>>) = 2
      BY <1>1, NothingMade
    <3>3. Len(<<m>> \o <<Payload>>) = 2 /\ <<m>> \o <<Payload>> \in Seq(Made)
          /\ \A i \in 1 .. 2 : (<<m>> \o <<Payload>>)[i] = IF i <= 1 THEN <<m>>[i] ELSE <<Payload>>[i - 1]
      BY <3>2, ConcatProperties
    <3>4. \A i \in 1 .. 2 : (<<m>> \o <<Payload>>)[i] = <<m, Payload>>[i]
      <4>1. (<<m>> \o <<Payload>>)[1] = m /\ (<<m>> \o <<Payload>>)[2] = Payload
        BY <3>3
      <4>2. \A i \in 1 .. 2 : i = 1 \/ i = 2
        OBVIOUS
      <4> QED
        BY <4>1, <4>2
    <3> QED
      BY <3>1, <3>2, <3>3, <3>4, SeqEqual
  <2>2. <<m, Payload>> \in Seq(Made) /\ Len(<<m, Payload>>) = 2 /\ <<m, Payload>>[1] = m /\ <<m, Payload>>[2] = Payload
    BY <1>1, NothingMade
  <2>3. \A i \in 1 .. 2 : i = 1 \/ (i = 2 /\ i - 1 = 1)
    OBVIOUS
  <2>4. Aligned(<<m, Payload>>, FALSE)
    BY <1>1, <1>2, <2>2, <2>3, NothingMade DEF Aligned
  <2>5. Whole(<<m, Payload>>, FALSE)
    BY <2>2, NothingMade DEF Whole
  <2>6. <<m, Payload>>[2].type = "DATA"
    BY <2>2 DEF Payload, Message
  <2> QED
    BY <1>1, <2>1, <2>2, <2>3, <2>4, <2>5, <2>6
<1>3. CASE ~c.payload
  <2>1. CmdMessages(c) = <<m>>
    BY <1>1, <1>3 DEF CmdMessages, m
  <2>2. <<m>> \in Seq(Made) /\ Len(<<m>>) = 1 /\ <<m>>[1] = m
    BY <1>1
  <2>3. \A i \in 1 .. 1 : i = 1
    OBVIOUS
  <2> QED
    BY <1>1, <1>3, <2>1, <2>2, <2>3 DEF Aligned, Whole
<1> QED
  BY <1>2, <1>3

(* A message that is no command. *)
LEMMA OneMessage ==
    ASSUME NEW m \in Made, ~Asks(m), m.ids # << 0 >>
    PROVE  <<m>> \in Seq(Made) /\ Aligned(<<m>>, FALSE) /\ Whole(<<m>>, FALSE)
<1>1. <<m>> \in Seq(Made) /\ Len(<<m>>) = 1 /\ <<m>>[1] = m
  OBVIOUS
<1>2. \A i \in 1 .. 1 : i = 1
  OBVIOUS
<1> QED
  BY <1>1, <1>2 DEF Aligned, Whole

LEMMA NoMessage == <<>> \in Seq(Made) /\ Whole(<<>>, FALSE) /\ \A asks : Aligned(<<>>, asks)
  BY DEF Aligned, Whole

(* The rest of a stream, two streams one after the other, and a stream whose last message is cut. *)
LEMMA RestAligned ==
    ASSUME NEW s \in Seq(Made), s # <<>>, NEW asks, Aligned(s, asks)
    PROVE  /\ Head(s) \in Made /\ Tail(s) \in Seq(Made)
           /\ Head(s).ids = << 0 >> <=> asks
           /\ Aligned(Tail(s), Asks(Head(s)))
           /\ Whole(s, asks) => Whole(Tail(s), Asks(Head(s)))
<1>1. /\ Head(s) \in Made /\ Tail(s) \in Seq(Made) /\ Len(Tail(s)) = Len(s) - 1 /\ Len(s) \in Nat \ {0}
      /\ \A i \in 1 .. Len(Tail(s)) : Tail(s)[i] = s[i + 1]
      /\ Head(s) = s[1]
  BY HeadTailProperties, EmptySeq
<1>2. Head(s).ids = << 0 >> <=> asks
  <2>1. 1 \in 1 .. Len(s)
    BY <1>1
  <2> QED
    BY <1>1, <2>1 DEF Aligned
<1>3. Aligned(Tail(s), Asks(Head(s)))
  <2>1. SUFFICES ASSUME NEW i \in 1 .. Len(Tail(s))
                 PROVE  Tail(s)[i].ids = << 0 >> <=> IF i = 1 THEN Asks(Head(s)) ELSE Asks(Tail(s)[i - 1])
    BY DEF Aligned
  <2>2. i + 1 \in 1 .. Len(s) /\ i + 1 # 1 /\ (i + 1) - 1 = i /\ Tail(s)[i] = s[i + 1]
    BY <1>1
  <2>3. s[i + 1].ids = << 0 >> <=> Asks(s[i])
    BY <2>2 DEF Aligned
  <2>4. CASE i = 1
    BY <1>1, <2>2, <2>3, <2>4
  <2>5. CASE i # 1
    <3>1. i - 1 \in 1 .. Len(Tail(s)) /\ (i - 1) + 1 = i
      BY <1>1, <2>5
    <3>2. Tail(s)[i - 1] = s[i]
      BY <1>1, <3>1
    <3> QED
      BY <2>2, <2>3, <2>5, <3>2
  <2> QED
    BY <2>4, <2>5
<1>4. ASSUME Whole(s, asks) PROVE Whole(Tail(s), Asks(Head(s)))
  <2>1. ~Asks(s[Len(s)])
    BY <1>4 DEF Whole
  <2>2. CASE Tail(s) = <<>>
    <3>1. Len(s) = 1
      BY <1>1, <2>2
    <3> QED
      BY <1>1, <2>1, <2>2, <3>1 DEF Whole
  <2>3. CASE Tail(s) # <<>>
    <3>1. Len(Tail(s)) \in 1 .. Len(Tail(s)) /\ Len(Tail(s)) + 1 = Len(s)
      BY <1>1, <2>3, EmptySeq
    <3>2. Tail(s)[Len(Tail(s))] = s[Len(s)]
      BY <1>1, <3>1
    <3> QED
      BY <2>1, <2>3, <3>2 DEF Whole
  <2> QED
    BY <2>2, <2>3
<1> QED
  BY <1>1, <1>2, <1>3, <1>4

LEMMA ConcatAligned ==
    ASSUME NEW s \in Seq(Made), NEW u \in Seq(Made), NEW asks, Aligned(s, asks), Whole(s, asks), Aligned(u, FALSE)
    PROVE  /\ s \o u \in Seq(Made) /\ Aligned(s \o u, asks)
           /\ Whole(u, FALSE) => Whole(s \o u, asks)
<1>1. /\ s \o u \in Seq(Made) /\ Len(s \o u) = Len(s) + Len(u) /\ Len(s) \in Nat /\ Len(u) \in Nat
      /\ \A i \in 1 .. Len(s) + Len(u) : (s \o u)[i] = IF i <= Len(s) THEN s[i] ELSE u[i - Len(s)]
  BY ConcatProperties, LenProperties
<1>2. Aligned(s \o u, asks)
  <2>1. SUFFICES ASSUME NEW i \in 1 .. Len(s) + Len(u)
                 PROVE  (s \o u)[i].ids = << 0 >> <=> IF i = 1 THEN asks ELSE Asks((s \o u)[i - 1])
    BY <1>1 DEF Aligned
  <2>2. CASE i <= Len(s)
    <3>1. i \in 1 .. Len(s) /\ (s \o u)[i] = s[i]
      BY <1>1, <2>2
    <3>2. i # 1 => i - 1 \in 1 .. Len(s) + Len(u) /\ i - 1 <= Len(s)
      BY <1>1, <2>2
    <3>3. i # 1 => (s \o u)[i - 1] = s[i - 1]
      BY <1>1, <3>2
    <3> QED
      BY <3>1, <3>3 DEF Aligned
  <2>3. CASE i > Len(s)
    <3> DEFINE j == i - Len(s)
    <3>1. j \in 1 .. Len(u) /\ (s \o u)[i] = u[j]
      BY <1>1, <2>3
    <3>2. CASE j = 1
      <4>1. u[j].ids # << 0 >>
        BY <3>1, <3>2 DEF Aligned
      <4>2. CASE s = <<>>
        <5>1. i = 1
          BY <3>2, <4>2
        <5> QED
          BY <3>1, <4>1, <4>2, <5>1 DEF Whole
      <4>3. CASE s # <<>>
        <5>1. i # 1 /\ i - 1 = Len(s) /\ i - 1 \in 1 .. Len(s) + Len(u)
          BY <1>1, <3>2, <4>3, EmptySeq
        <5>2. (s \o u)[i - 1] = s[Len(s)]
          BY <1>1, <5>1
        <5> QED
          BY <3>1, <4>1, <4>3, <5>1, <5>2 DEF Whole
      <4> QED
        BY <4>2, <4>3
    <3>3. CASE j # 1
      <4>1. i # 1 /\ i - 1 \in 1 .. Len(s) + Len(u) /\ ~(i - 1 <= Len(s)) /\ (i - 1) - Len(s) = j - 1
        BY <1>1, <2>3, <3>1, <3>3
      <4>2. (s \o u)[i - 1] = u[j - 1]
        BY <1>1, <4>1
      <4> HIDE DEF j
      <4>3. u[j].ids = << 0 >> <=> Asks(u[j - 1])
        BY <3>1, <3>3 DEF Aligned
      <4> QED
        BY <3>1, <4>1, <4>2, <4>3
    <3> QED
      BY <3>2, <3>3
  <2> QED
    BY <1>1, <2>2, <2>3
<1>3. ASSUME Whole(u, FALSE) PROVE Whole(s \o u, asks)
  <2>1. CASE u = <<>>
    <3>1. s \o u = s
      BY <2>1, ConcatEmptySeq
    <3> QED
      BY <3>1
  <2>2. CASE u # <<>>
    <3>1. Len(u) \in Nat \ {0}
      BY <2>2, EmptySeq
    <3>2. Len(s) + Len(u) \in 1 .. Len(s) + Len(u) /\ ~(Len(s) + Len(u) <= Len(s)) /\ (Len(s) + Len(u)) - Len(s) = Len(u)
      BY <1>1, <3>1
    <3>3. (s \o u)[Len(s \o u)] = u[Len(u)]
      BY <1>1, <3>2
    <3>4. s \o u # <<>>
      BY <1>1, <3>1, EmptySeq
    <3> QED
      BY <1>3, <2>2, <3>3, <3>4 DEF Whole
  <2> QED
    BY <2>1, <2>2
<1> QED
  BY <1>1, <1>2, <1>3

LEMMA CutIs ==
    ASSUME NEW s \in Seq(Made)
    PROVE  /\ Cut(s) \in Seq(Made) /\ Len(Cut(s)) = Len(s)
           /\ \A i \in 1 .. Len(s) : /\ Cut(s)[i].type = s[i].type /\ Cut(s)[i].ids = s[i].ids
                                     /\ Cut(s)[i].status = s[i].status /\ Cut(s)[i].payload = s[i].payload
<1>1. CASE s = <<>>
  BY <1>1 DEF Cut
<1>2. CASE s # <<>>
  <2>1. Len(s) \in 1 .. Len(s) /\ Len(s) \in Nat
    BY <1>2, EmptySeq
  <2> DEFINE last == s[Len(s)]
             new == [last EXCEPT !.cut = TRUE]
  <2>2. last \in Made
    BY <2>1, ElementOfSeq
  <2>3. new \in Made /\ new.type = last.type /\ new.ids = last.ids /\ new.status = last.status /\ new.payload = last.payload
    BY <2>2 DEF Made, Messages
  <2>4. Cut(s) = [s EXCEPT ![Len(s)] = new]
    BY <1>2 DEF Cut
  <2> HIDE DEF last, new
  <2>5. Cut(s) \in Seq(Made) /\ Len(Cut(s)) = Len(s) /\ \A j \in 1 .. Len(s) : Cut(s)[j] = IF j = Len(s) THEN new ELSE s[j]
    BY <2>1, <2>3, <2>4, ExceptSeq
  <2> QED
    BY <2>3, <2>5 DEF last
<1> QED
  BY <1>1, <1>2

LEMMA CutAligned ==
    ASSUME NEW s \in Seq(Made), NEW asks, Aligned(s, asks)
    PROVE  Cut(s) \in Seq(Made) /\ Aligned(Cut(s), asks)
<1>1. Len(s) \in Nat /\ \A i \in 1 .. Len(s) : i # 1 => i - 1 \in 1 .. Len(s)
  BY LenProperties
<1>2. PICK c : c = Cut(s)
  OBVIOUS
<1>3. /\ c \in Seq(Made) /\ Len(c) = Len(s)
      /\ \A i \in 1 .. Len(s) : c[i].type = s[i].type /\ c[i].ids = s[i].ids /\ c[i].payload = s[i].payload
  BY <1>2, CutIs
<1>4. ASSUME NEW i \in 1 .. Len(s) PROVE c[i].ids = << 0 >> <=> IF i = 1 THEN asks ELSE Asks(c[i - 1])
  <2>1. s[i].ids = << 0 >> <=> IF i = 1 THEN asks ELSE Asks(s[i - 1])
    BY DEF Aligned
  <2>2. i # 1 => (Asks(c[i - 1]) <=> Asks(s[i - 1]))
    BY <1>1, <1>3 DEF Asks
  <2>3. c[i].ids = s[i].ids
    BY <1>3
  <2> QED
    BY ONLY <2>1, <2>2, <2>3
<1>5. Aligned(c, asks)
  BY <1>3, <1>4 DEF Aligned
<1> QED
  BY <1>2, <1>3, <1>5

-----------------------------------------------------------------------------
(* The commands of streams: of the rest of one, of two one after the other, of one that is cut, of a call's messages. *)
Less(s, u, request) ==
    /\ Carried(u, request) # {} => Carried(s, request) # {}
    /\ One(s, request) => One(u, request)
    /\ \A n \in Nat : Numbered(s, request, n) => Numbered(u, request, n)

LEMMA NothingCarried == \A request : Carried(<<>>, request) = {}
  BY DEF Carried

LEMMA NoneCarried ==
    ASSUME NEW s, NEW request, Carried(s, request) = {}
    PROVE  One(s, request) /\ \A n : Numbered(s, request, n)
  BY DEF One, Numbered

LEMMA RestCarried ==
    ASSUME NEW s \in Seq(Made), s # <<>>, NEW request \in BOOLEAN
    PROVE  /\ Less(s, Tail(s), request)
           /\ Head(s).type = "COMMAND" /\ (Head(s).status = "PENDING" <=> request) =>
                  /\ Carried(s, request) # {}
                  /\ One(s, request) => Carried(Tail(s), request) = {}
                  /\ \A n : Numbered(s, request, n) => Head(s).ids[1] = n
<1>1. /\ Tail(s) \in Seq(Made) /\ Len(Tail(s)) = Len(s) - 1 /\ Len(s) \in Nat \ {0} /\ Head(s) = s[1]
      /\ \A i \in 1 .. Len(Tail(s)) : Tail(s)[i] = s[i + 1]
  BY HeadTailProperties, EmptySeq
<1>2. ASSUME NEW i \in Carried(Tail(s), request)
      PROVE  i \in Nat /\ i # 0 /\ i + 1 \in Carried(s, request) /\ Tail(s)[i] = s[i + 1]
  BY <1>1 DEF Carried
<1>3. Less(s, Tail(s), request)
  <2>1. Carried(Tail(s), request) # {} => Carried(s, request) # {}
    BY <1>2
  <2>2. ASSUME One(s, request), NEW i \in Carried(Tail(s), request), NEW j \in Carried(Tail(s), request)
        PROVE  i = j
    <3>1. i + 1 = j + 1
      BY <1>2, <2>2 DEF One
    <3> QED
      BY <1>2, <3>1
  <2>3. ASSUME NEW n, Numbered(s, request, n), NEW i \in Carried(Tail(s), request)
        PROVE  Tail(s)[i].ids[1] = n
    BY <1>2, <2>3 DEF Numbered
  <2> QED
    BY <2>1, <2>2, <2>3 DEF Less, One, Numbered
<1>4. ASSUME Head(s).type = "COMMAND", Head(s).status = "PENDING" <=> request
      PROVE  /\ Carried(s, request) # {}
             /\ One(s, request) => Carried(Tail(s), request) = {}
             /\ \A n : Numbered(s, request, n) => Head(s).ids[1] = n
  <2>1. 1 \in Carried(s, request)
    BY <1>1, <1>4 DEF Carried
  <2>2. ASSUME One(s, request), NEW i \in Carried(Tail(s), request)
        PROVE  FALSE
    <3>1. i + 1 = 1
      BY <1>2, <2>1, <2>2 DEF One
    <3> QED
      BY <1>2, <3>1
  <2> QED
    BY <1>1, <2>1, <2>2 DEF Numbered
<1> QED
  BY <1>3, <1>4

LEMMA ConcatCarried ==
    ASSUME NEW s \in Seq(Made), NEW u \in Seq(Made), NEW request \in BOOLEAN
    PROVE  /\ Carried(u, request) = {} => Less(s, s \o u, request)
           /\ Carried(s, request) = {} => Less(u, s \o u, request)
<1>1. /\ Len(s) \in Nat /\ Len(u) \in Nat /\ s \o u \in Seq(Made) /\ Len(s \o u) = Len(s) + Len(u)
      /\ \A i \in 1 .. Len(s \o u) : (s \o u)[i] = IF i <= Len(s) THEN s[i] ELSE u[i - Len(s)]
  BY ConcatProperties, LenProperties
<1>2. ASSUME NEW i \in Carried(s \o u, request)
      PROVE  /\ i \in Nat
             /\ \/ i \in Carried(s, request) /\ (s \o u)[i] = s[i]
                \/ i - Len(s) \in Carried(u, request) /\ (s \o u)[i] = u[i - Len(s)]
  <2>1. i \in 1 .. Len(s \o u) /\ (s \o u)[i].type = "COMMAND" /\ ((s \o u)[i].status = "PENDING" <=> request)
    BY <1>2 DEF Carried
  <2>2. CASE i <= Len(s)
    <3>1. i \in 1 .. Len(s) /\ (s \o u)[i] = s[i]
      BY <1>1, <2>1, <2>2
    <3> QED
      BY <2>1, <3>1 DEF Carried
  <2>3. CASE ~(i <= Len(s))
    <3>1. i - Len(s) \in 1 .. Len(u) /\ (s \o u)[i] = u[i - Len(s)]
      BY <1>1, <2>1, <2>3
    <3> QED
      BY <2>1, <3>1 DEF Carried
  <2> QED
    BY <2>2, <2>3
<1>3. ASSUME Carried(u, request) = {}
      PROVE  Less(s, s \o u, request)
  <2>1. \A i \in Carried(s \o u, request) : i \in Carried(s, request) /\ (s \o u)[i] = s[i]
    BY <1>2, <1>3
  <2> QED
    BY <2>1 DEF Less, One, Numbered
<1>4. ASSUME Carried(s, request) = {}
      PROVE  Less(u, s \o u, request)
  <2>1. \A i \in Carried(s \o u, request) :
            i \in Nat /\ i - Len(s) \in Carried(u, request) /\ (s \o u)[i] = u[i - Len(s)]
    BY <1>2, <1>4
  <2>2. ASSUME One(u, request), NEW i \in Carried(s \o u, request), NEW j \in Carried(s \o u, request)
        PROVE  i = j
    <3>1. i - Len(s) = j - Len(s)
      BY <2>1, <2>2 DEF One
    <3> QED
      BY <1>1, <2>1, <3>1
  <2> QED
    BY <2>1, <2>2 DEF Less, One, Numbered
<1> QED
  BY <1>3, <1>4

LEMMA CutCarried ==
    ASSUME NEW s \in Seq(Made), NEW request \in BOOLEAN
    PROVE  Less(s, Cut(s), request)
  BY CutIs DEF Less, One, Numbered, Carried

LEMMA CmdCarried ==
    ASSUME NEW c \in Given, NEW request \in BOOLEAN
    PROVE  /\ One(CmdMessages(c), request) /\ Numbered(CmdMessages(c), request, c.id)
           /\ Carried(CmdMessages(c), request) # {} => (IsRequest(c) <=> request)
<1>1. \A i \in Carried(CmdMessages(c), request) :
          i = 1 /\ CmdMessages(c)[i].ids[1] = c.id /\ (c.status = "PENDING" <=> request)
  BY CmdMessagesAre DEF Carried
<1> QED
  BY <1>1 DEF One, Numbered, IsRequest

LEMMA OtherCarried ==
    ASSUME NEW m, m.type # "COMMAND", NEW request
    PROVE  Carried(<<m>>, request) = {}
<1>1. Len(<<m>>) = 1 /\ <<m>>[1] = m /\ \A i \in 1 .. 1 : i = 1
  OBVIOUS
<1> QED
  BY <1>1 DEF Carried

-----------------------------------------------------------------------------
LEMMA NextCases ==
    ASSUME [Next]_vars
    PROVE  \/ UNCHANGED vars
           \/ \E t \in Threads : Call(t) \/ Continue(t) \/ SpuriousWakeup(t)
           \/ \E e \in Ends : Receiver(e) \/ closeLink(e) \/ joinReceiver(e)
  BY DEF Next

(* Where a receiver goes. *)
LEMMA AtIs ==
    ASSUME RxTypes, NEW e \in Ends, NEW label \in RxLabels, NEW msg \in Made, At(e, label, msg),
           label \in Commanding => msg.type = "COMMAND"
    PROVE  /\ RxTypes' /\ rx'[e].at = label /\ rx'[e].msg = msg /\ rx'[Peer(e)] = rx[Peer(e)]
           /\ Asking(e)' <=> label \in {"inPayload", "outPayload"}
           /\ Asking(Peer(e))' <=> Asking(Peer(e))
<1> DEFINE new == [at |-> label, msg |-> msg]
<1>1. new \in [at : RxLabels, msg : Made] /\ new.at = label /\ new.msg = msg
  OBVIOUS
<1>2. rx' = [rx EXCEPT ![e] = new]
  BY DEF At
<1> HIDE DEF new
<1>3. rx'[e] = new /\ \A f \in Ends : f # e => rx'[f] = rx[f]
  BY <1>2, EndsAre DEF RxTypes
<1>4. RxTypes'
  BY <1>1, <1>2, <1>3 DEF RxTypes
<1> QED
  BY <1>1, <1>3, <1>4, EndsAre DEF Asking

LEMMA ReceiverLabels ==
    /\ {"header", "inPayload", "outPayload", "callback", "request", "respond", "response", "exited"} \subseteq RxLabels
    /\ Commanding = {"inPayload", "outPayload", "request", "response"}
  BY DEF RxLabels, Commanding

LEMMA NextRx ==
    ASSUME TypeInv, [Next]_vars
    PROVE  RxTypes'
<1>1. RxTypes /\ Nothing \in Made /\ net \in [Ends -> Seq(Made)]
  BY NothingMade DEF TypeInv, LinkTypes
<1>2. ASSUME NEW e \in Ends, Receiver(e)
      PROVE  RxTypes'
  <2>1. rx[e].at \in RxLabels /\ rx[e].msg \in Made /\ (rx[e].at \in Commanding => rx[e].msg.type = "COMMAND")
    BY <1>1 DEF RxTypes
  <2>2. net[e] # <<>> => Head(net[e]) \in Made
    BY <1>1, HeadTailProperties
  <2>3. CASE receiveEvent(e)
    <3>1. rx' = rx \/ At(e, "callback", Head(net[e]))
      BY <2>3 DEF receiveEvent
    <3>2. Head(net[e]) \in Made
      BY <2>2, <2>3 DEF receiveEvent, Arrives
    <3> QED
      BY <1>1, <3>1, <3>2, AtIs, ReceiverLabels DEF RxTypes
  <2>4. CASE receiveCmd(e)
    <3>1. \E label \in Commanding : At(e, label, Head(net[e]))
      BY <2>4, ReceiverLabels DEF receiveCmd
    <3>2. Head(net[e]) \in Made /\ Head(net[e]).type = "COMMAND"
      BY <2>2, <2>4 DEF receiveCmd, Arrives
    <3> QED
      BY <1>1, <3>1, <3>2, AtIs, ReceiverLabels
  <2>5. CASE receivePayload(e)
    <3>1. \E label \in Commanding : At(e, label, rx[e].msg) /\ rx[e].at \in Commanding
      BY <2>5, ReceiverLabels DEF receivePayload
    <3> QED
      BY <1>1, <2>1, <3>1, AtIs, ReceiverLabels
  <2>6. CASE payloadFails(e)
    <3>1. \E label \in Commanding : At(e, label, [rx[e].msg EXCEPT !.payload = FALSE]) /\ rx[e].at \in Commanding
      BY <2>6, ReceiverLabels DEF payloadFails
    <3>2. [rx[e].msg EXCEPT !.payload = FALSE] \in Made /\ [rx[e].msg EXCEPT !.payload = FALSE].type = "COMMAND"
      BY <2>1, <3>1 DEF Made, Messages
    <3> QED
      BY <1>1, <3>1, <3>2, AtIs, ReceiverLabels
  <2>7. CASE callbackEvent(e) \/ receiveFails(e) \/ callbackCmd(e) \/ respond(e) \/ queueCmd(e) \/ reportResponse(e) \/ stopReceiver(e)
    <3>1. \E label \in {"header", "exited", "respond"} : At(e, label, Nothing)
      BY <2>7 DEF callbackEvent, receiveFails, callbackCmd, respond, queueCmd, reportResponse, stopReceiver
    <3> QED
      BY <1>1, <3>1, AtIs, ReceiverLabels
  <2>8. CASE receiveSubscribe(e) \/ receiveData(e)
    BY <1>1, <2>8 DEF receiveSubscribe, receiveData, RxTypes
  <2> QED
    BY <1>2, <2>3, <2>4, <2>5, <2>6, <2>7, <2>8 DEF Receiver
<1>3. ASSUME NEW t \in Threads, Call(t) \/ Continue(t) \/ SpuriousWakeup(t)
      PROVE  rx' = rx
  BY <1>3 DEF Call, Continue, SpuriousWakeup, execCmd, waitCmd, sendData, recvData, subEvt, unsubEvt, postEvt, send, sendFails,
     takeResponse, sleepForResponse, execTimeout, popCmd, sleepForCmd, waitTimeout, ackCmd, readNothing, readData
<1>4. ASSUME NEW e \in Ends, closeLink(e) \/ joinReceiver(e)
      PROVE  rx' = rx
  BY <1>4 DEF closeLink, joinReceiver
<1>5. CASE rx' = rx
  BY <1>1, <1>5 DEF RxTypes
<1> QED
  BY <1>2, <1>3, <1>4, <1>5, NextCases DEF vars

-----------------------------------------------------------------------------
(* The four ways in which a stream changes. *)
NetOK == net \in [Ends -> Seq(Made)] /\ StreamInv

LEMMA NetSame ==
    ASSUME TypeInv, StreamInv, net' = net, \A e \in Ends : Asking(e)' <=> Asking(e),
           \A e \in Ends : link'[e] = "open" => link[e] = "open"
    PROVE  NetOK'
<1>1. net' \in [Ends -> Seq(Made)]
  BY DEF TypeInv, LinkTypes
<1>2. ASSUME NEW e \in Ends
      PROVE  /\ Aligned(net'[e], Asking(e)')
             /\ link'[e] = "open" /\ link'[Peer(e)] = "open" => Whole(net'[e], Asking(e)')
  <2>1. Asking(e)' = Asking(e)
    BY DEF Asking
  <2> QED
    BY <2>1, EndsAre DEF StreamInv
<1> QED
  BY <1>1, <1>2 DEF NetOK, StreamInv

(* The receiver takes a message, and asks for a payload next when this is a command that has one. *)
LEMMA NetTaken ==
    ASSUME TypeInv, StreamInv, NEW e \in Ends, net[e] # <<>>, net' = [net EXCEPT ![e] = Tail(@)], link' = link,
           Asking(e)' <=> Asks(Head(net[e])), Asking(Peer(e))' <=> Asking(Peer(e))
    PROVE  NetOK'
<1>1. net \in [Ends -> Seq(Made)] /\ Peer(e) \in Ends /\ Peer(e) # e
  BY EndsAre DEF TypeInv, LinkTypes
<1>2. net[e] \in Seq(Made) /\ net'[e] = Tail(net[e]) /\ net'[Peer(e)] = net[Peer(e)]
  BY <1>1
<1>3. /\ Tail(net[e]) \in Seq(Made) /\ Aligned(Tail(net[e]), Asks(Head(net[e])))
      /\ Whole(net[e], Asking(e)) => Whole(Tail(net[e]), Asks(Head(net[e])))
  BY <1>2, RestAligned DEF StreamInv
<1>4. net' \in [Ends -> Seq(Made)]
  BY <1>1, <1>3
<1>5. Asking(e)' = Asks(Head(net[e])) /\ Asking(Peer(e))' = Asking(Peer(e))
  BY DEF Asking, Asks
<1>6. /\ Aligned(net'[e], Asking(e)')
      /\ link'[e] = "open" /\ link'[Peer(e)] = "open" => Whole(net'[e], Asking(e)')
  BY <1>2, <1>3, <1>5 DEF StreamInv
<1>7. /\ Aligned(net'[Peer(e)], Asking(Peer(e))')
      /\ link'[Peer(e)] = "open" /\ link'[Peer(Peer(e))] = "open" => Whole(net'[Peer(e)], Asking(Peer(e))')
  BY <1>1, <1>2, <1>5 DEF StreamInv
<1> QED
  BY <1>4, <1>6, <1>7, EndsAre DEF NetOK, StreamInv

(* An end sends what it has prepared. *)
LEMMA NetSent ==
    ASSUME TypeInv, StreamInv, NEW e \in Ends, NEW a \in Threads \cup Ends, Transmit(a, e) \/ SendFails(a, e), link' = link,
           \A f \in Ends : Asking(f)' <=> Asking(f)
    PROVE  NetOK'
<1>1. CASE net' = net
  BY <1>1, NetSame
<1>2. CASE net' # net
  <2>1. /\ link[e] = "open" /\ link[Peer(e)] = "open" /\ net' = [net EXCEPT ![Peer(e)] = @ \o todo[a]]
    BY <1>2 DEF Transmit, SendFails
  <2>2. net \in [Ends -> Seq(Made)] /\ Peer(e) \in Ends /\ Peer(e) # e /\ Peer(Peer(e)) = e
        /\ todo[a] \in Seq(Made) /\ Aligned(todo[a], FALSE) /\ Whole(todo[a], FALSE)
    BY EndsAre DEF TypeInv, LinkTypes, TodoTypes
  <2>3. Aligned(net[Peer(e)], Asking(Peer(e))) /\ Whole(net[Peer(e)], Asking(Peer(e)))
    BY <2>1, <2>2 DEF StreamInv
  <2>4. net'[Peer(e)] = net[Peer(e)] \o todo[a] /\ net'[e] = net[e]
    BY <2>1, <2>2
  <2>5. net'[Peer(e)] \in Seq(Made) /\ Aligned(net'[Peer(e)], Asking(Peer(e))) /\ Whole(net'[Peer(e)], Asking(Peer(e)))
    <3> DEFINE s == net[Peer(e)]
               u == todo[a]
               asks == Asking(Peer(e))
    <3>1. s \in Seq(Made) /\ u \in Seq(Made) /\ Aligned(s, asks) /\ Whole(s, asks) /\ Aligned(u, FALSE) /\ Whole(u, FALSE)
      BY <2>2, <2>3
    <3> HIDE DEF s, u, asks
    <3>2. s \o u \in Seq(Made) /\ Aligned(s \o u, asks) /\ Whole(s \o u, asks)
      BY <3>1, ConcatAligned
    <3> QED
      BY <2>4, <3>2 DEF s, u, asks
  <2>6. net' \in [Ends -> Seq(Made)]
    BY <2>1, <2>2, <2>4, <2>5
  <2>7. Asking(e)' = Asking(e) /\ Asking(Peer(e))' = Asking(Peer(e))
    BY <2>2 DEF Asking
  <2>8. /\ Aligned(net'[e], Asking(e)')
        /\ link'[e] = "open" /\ link'[Peer(e)] = "open" => Whole(net'[e], Asking(e)')
    BY <2>4, <2>7 DEF StreamInv
  <2>9. Aligned(net'[Peer(e)], Asking(Peer(e))') /\ Whole(net'[Peer(e)], Asking(Peer(e))')
    BY <2>5, <2>7
  <2> QED
    BY <2>6, <2>8, <2>9, EndsAre DEF NetOK, StreamInv
<1> QED
  BY <1>1, <1>2

(* An end closes: what was on its way to it is gone, what it sent last may be cut or gone as well. *)
LEMMA NetClosed ==
    ASSUME TypeInv, StreamInv, NEW e \in Ends, closeLink(e)
    PROVE  NetOK'
<1>1. net \in [Ends -> Seq(Made)] /\ Peer(e) \in Ends /\ Peer(e) # e /\ Peer(Peer(e)) = e /\ e \in Threads \cup Ends
      /\ link \in [Ends -> {"open", "closing", "closed"}]
  BY EndsAre DEF TypeInv, LinkTypes
<1>2. link[e] = "open" /\ link' = [link EXCEPT ![e] = "closing"] /\ rx' = rx
  BY DEF closeLink
<1>3. link'[e] # "open" /\ Asking(e)' = Asking(e) /\ Asking(Peer(e))' = Asking(Peer(e))
  BY <1>1, <1>2 DEF Asking
<1>4. ASSUME NEW s \in Seq(Made), net' = [net EXCEPT ![e] = <<>>, ![Peer(e)] = s], Aligned(s, Asking(Peer(e)))
      PROVE  NetOK'
  <2>1. net'[e] = <<>> /\ net'[Peer(e)] = s /\ net' \in [Ends -> Seq(Made)]
    BY <1>1, <1>4, NoMessage
  <2>2. Aligned(net'[e], Asking(e)') /\ Aligned(net'[Peer(e)], Asking(Peer(e))')
    BY <1>3, <1>4, <2>1, NoMessage
  <2> QED
    BY <1>1, <1>3, <2>1, <2>2, EndsAre DEF NetOK, StreamInv
<1>5. CASE link[Peer(e)] # "open"
  <2>1. net' = [net EXCEPT ![e] = <<>>]
    BY <1>5 DEF closeLink
  <2>2. net' = [net EXCEPT ![e] = <<>>, ![Peer(e)] = net[Peer(e)]] /\ net[Peer(e)] \in Seq(Made)
    BY <1>1, <2>1
  <2> QED
    BY <1>1, <1>4, <2>2 DEF StreamInv
<1>6. CASE link[Peer(e)] = "open"
  <2> DEFINE old == net[Peer(e)]
             sending == old \o todo[e]
  <2>1. \E s \in {sending, Cut(sending), old, Cut(old), <<>>} : net' = [net EXCEPT ![e] = <<>>, ![Peer(e)] = s]
    BY <1>6 DEF closeLink
  <2>2. old \in Seq(Made) /\ Aligned(old, Asking(Peer(e))) /\ Whole(old, Asking(Peer(e)))
    BY <1>1, <1>2, <1>6 DEF StreamInv
  <2>3. todo[e] \in Seq(Made) /\ Aligned(todo[e], FALSE)
    BY <1>1 DEF TypeInv, TodoTypes
  <2>4. sending \in Seq(Made) /\ Aligned(sending, Asking(Peer(e)))
    BY <2>2, <2>3, ConcatAligned
  <2> HIDE DEF old, sending
  <2>5. \A s \in {sending, Cut(sending), old, Cut(old), <<>>} : s \in Seq(Made) /\ Aligned(s, Asking(Peer(e)))
    BY <2>2, <2>4, CutAligned, NoMessage
  <2> QED
    BY <1>4, <2>1, <2>5
<1> QED
  BY <1>5, <1>6

LEMMA NextNet ==
    ASSUME TypeInv, StreamInv, [Next]_vars
    PROVE  NetOK'
<1>1. RxTypes /\ Nothing \in Made /\ net \in [Ends -> Seq(Made)]
  BY NothingMade DEF TypeInv, LinkTypes
<1>2. ASSUME NEW e \in Ends, Receiver(e)
      PROVE  NetOK'
  <2>0. rx[e].at \in RxLabels /\ rx[e].msg \in Made /\ (rx[e].at \in Commanding => rx[e].msg.type = "COMMAND")
    BY <1>1 DEF RxTypes
  <2>1. CASE receiveSubscribe(e) \/ receiveEvent(e) \/ receiveData(e)
    <3>1. net[e] # <<>> /\ net' = [net EXCEPT ![e] = Tail(@)] /\ link' = link /\ rx[e].at = "header"
          /\ Head(net[e]).type # "COMMAND"
      BY <2>1 DEF receiveSubscribe, receiveEvent, receiveData, Arrives
    <3>2. Head(net[e]) \in Made
      BY <1>1, <3>1, HeadTailProperties
    <3>3. rx' = rx \/ At(e, "callback", Head(net[e]))
      BY <2>1 DEF receiveSubscribe, receiveEvent, receiveData
    <3>4. (Asking(e)' <=> FALSE) /\ (Asking(Peer(e))' <=> Asking(Peer(e)))
      BY <1>1, <3>1, <3>2, <3>3, AtIs, ReceiverLabels DEF Asking
    <3>5. Asking(e)' <=> Asks(Head(net[e]))
      BY <3>1, <3>4 DEF Asks
    <3> QED
      BY <3>1, <3>4, <3>5, NetTaken
  <2>2. CASE receiveCmd(e)
    <3>1. net[e] # <<>> /\ net' = [net EXCEPT ![e] = Tail(@)] /\ link' = link /\ Head(net[e]).type = "COMMAND"
      BY <2>2 DEF receiveCmd, Arrives
    <3>2. Head(net[e]) \in Made
      BY <1>1, <3>1, HeadTailProperties
    <3>3. \E label \in Commanding : /\ At(e, label, Head(net[e]))
                                    /\ label \in {"inPayload", "outPayload"} <=> Head(net[e]).payload
      BY <2>2, ReceiverLabels DEF receiveCmd
    <3>4. (Asking(e)' <=> Asks(Head(net[e]))) /\ (Asking(Peer(e))' <=> Asking(Peer(e)))
      BY <1>1, <3>1, <3>2, <3>3, AtIs, ReceiverLabels DEF Asks
    <3> QED
      BY <3>1, <3>4, NetTaken
  <2>3. CASE receivePayload(e)
    <3>1. net[e] # <<>> /\ net' = [net EXCEPT ![e] = Tail(@)] /\ link' = link /\ Asking(e)
      BY <2>3 DEF receivePayload, Asking
    <3>2. \E label \in {"request", "response"} : At(e, label, rx[e].msg) /\ rx[e].at \in Commanding
      BY <2>3, ReceiverLabels DEF receivePayload
    <3>3. (Asking(e)' <=> FALSE) /\ (Asking(Peer(e))' <=> Asking(Peer(e)))
      BY <1>1, <2>0, <3>2, AtIs, ReceiverLabels
    <3>4. ~Asks(Head(net[e]))
      <4>1. Head(net[e]).ids = << 0 >> /\ Head(net[e]) \in Made
        BY <1>1, <3>1, RestAligned DEF StreamInv
      <4> QED
        BY <4>1, MadeIs
    <3> QED
      BY <3>1, <3>3, <3>4, NetTaken
  <2>4. CASE payloadFails(e)
    <3>1. net' = [net EXCEPT ![e] = <<>>] /\ link' = link /\ ~(link[e] = "open" /\ link[Peer(e)] = "open")
      BY <2>4 DEF payloadFails, Ended
    <3>2. \E label \in {"request", "response"} : At(e, label, [rx[e].msg EXCEPT !.payload = FALSE]) /\ rx[e].at \in Commanding
      BY <2>4, ReceiverLabels DEF payloadFails
    <3>3. PICK new \in Made : new.type = "COMMAND" /\ \E label \in {"request", "response"} : At(e, label, new)
      <4>1. PICK m \in Made : m = rx[e].msg /\ m.type = "COMMAND"
        BY <2>0, <3>2
      <4>2. PICK b \in BOOLEAN : b = FALSE
        OBVIOUS
      <4> DEFINE read == [m EXCEPT !.payload = b]
      <4>3. m \in Messages
        BY DEF Made
      <4>4. read \in Messages /\ read.type = m.type /\ read.ids = m.ids /\ read.status = m.status
        BY <4>3 DEF Messages
      <4>5. \E label \in {"request", "response"} : At(e, label, read)
        BY <3>2, <4>1, <4>2
      <4> HIDE DEF read
      <4>6. read \in Made /\ read.type = "COMMAND"
        BY <4>1, <4>4 DEF Made
      <4> QED
        BY <4>5, <4>6
    <3>4. Asking(Peer(e))' <=> Asking(Peer(e))
      BY <1>1, <3>3, AtIs, ReceiverLabels
    <3>5. net'[e] = <<>> /\ net'[Peer(e)] = net[Peer(e)] /\ net' \in [Ends -> Seq(Made)]
          /\ Peer(e) \in Ends /\ Peer(Peer(e)) = e
      BY <1>1, <3>1, EndsAre, NoMessage
    <3>6. Asking(Peer(e))' = Asking(Peer(e))
      BY <3>4 DEF Asking
    <3>7. Aligned(net'[e], Asking(e)') /\ Aligned(net'[Peer(e)], Asking(Peer(e))')
      BY <3>5, <3>6, NoMessage DEF StreamInv
    <3> QED
      BY <3>1, <3>5, <3>7, EndsAre DEF NetOK, StreamInv
  <2>5. CASE respond(e)
    <3>1. (Transmit(e, e) \/ SendFails(e, e)) /\ link' = link /\ At(e, "header", Nothing) /\ rx[e].at = "respond"
      BY <2>5 DEF respond
    <3>2. (Asking(e)' <=> Asking(e)) /\ (Asking(Peer(e))' <=> Asking(Peer(e)))
      BY <1>1, <3>1, AtIs, ReceiverLabels DEF Asking
    <3> QED
      BY <3>1, <3>2, NetSent, EndsAre
  <2>6. CASE callbackEvent(e) \/ receiveFails(e) \/ callbackCmd(e) \/ queueCmd(e) \/ reportResponse(e) \/ stopReceiver(e)
    <3>1. net' = net /\ link' = link /\ ~Asking(e) /\ \E label \in {"header", "exited", "respond"} : At(e, label, Nothing)
      BY <2>6 DEF callbackEvent, receiveFails, callbackCmd, queueCmd, reportResponse, stopReceiver, Asking
    <3>2. (Asking(e)' <=> Asking(e)) /\ (Asking(Peer(e))' <=> Asking(Peer(e)))
      BY <1>1, <3>1, AtIs, ReceiverLabels
    <3>3. \A f \in Ends : Asking(f)' <=> Asking(f)
      BY <3>2, EndsAre
    <3> QED
      BY <3>1, <3>3, NetSame
  <2> QED
    BY <1>2, <2>1, <2>2, <2>3, <2>4, <2>5, <2>6 DEF Receiver
<1>3. ASSUME NEW t \in Threads, send(t) \/ sendFails(t)
      PROVE  NetOK'
  <2>1. (Transmit(t, EndOf[t]) \/ SendFails(t, EndOf[t])) /\ link' = link /\ rx' = rx
    BY <1>3 DEF send, sendFails
  <2>2. \A f \in Ends : Asking(f)' <=> Asking(f)
    BY <2>1 DEF Asking
  <2> QED
    BY <2>1, <2>2, NetSent, EndsAre
<1>4. ASSUME NEW t \in Threads, Call(t) \/ Continue(t) \/ SpuriousWakeup(t), ~send(t), ~sendFails(t)
      PROVE  net' = net /\ link' = link /\ rx' = rx
  BY <1>4 DEF Call, Continue, SpuriousWakeup, execCmd, waitCmd, sendData, recvData, subEvt, unsubEvt, postEvt,
     takeResponse, sleepForResponse, execTimeout, popCmd, sleepForCmd, waitTimeout, ackCmd, readNothing, readData
<1>5. ASSUME NEW e \in Ends, closeLink(e)
      PROVE  NetOK'
  BY <1>5, NetClosed
<1>6. ASSUME NEW e \in Ends, joinReceiver(e)
      PROVE  net' = net /\ rx' = rx /\ \A f \in Ends : link'[f] = "open" => link[f] = "open"
  BY <1>6 DEF joinReceiver, TypeInv, LinkTypes
<1>7. CASE net' = net /\ rx' = rx /\ \A f \in Ends : link'[f] = "open" => link[f] = "open"
  <2>1. \A f \in Ends : Asking(f)' <=> Asking(f)
    BY <1>7 DEF Asking
  <2> QED
    BY <1>7, <2>1, NetSame
<1> QED
  BY <1>2, <1>3, <1>4, <1>5, <1>6, <1>7, NextCases DEF vars

-----------------------------------------------------------------------------
LEMMA AnsweredGiven ==
    ASSUME NEW c \in Cmds, c.id # 0, NEW ok \in BOOLEAN
    PROVE  Answered(c, ok) \in Given /\ Answered(c, ok).id = c.id
  BY DEF Given, Cmds, Answered

LEMMA NewCmdGiven ==
    ASSUME calls \in Nat, NEW payload \in BOOLEAN
    PROVE  [id |-> NewId, status |-> "PENDING", payload |-> payload] \in Given
<1>1. calls + 1 \in Nat \ {0}
  OBVIOUS
<1> QED
  BY <1>1 DEF NewId, Given, Cmds

(* The data of a message, numbered from the first unit that has not been sent. *)
LEMMA DataMade ==
    ASSUME NEW k \in Nat, NEW n \in Nat \ {0}
    PROVE  /\ Message("DATA", [i \in 1 .. n |-> k + i]) \in Made
           /\ <<Message("DATA", [i \in 1 .. n |-> k + i])>> \in Seq(Made)
           /\ Aligned(<<Message("DATA", [i \in 1 .. n |-> k + i])>>, FALSE)
           /\ Whole(<<Message("DATA", [i \in 1 .. n |-> k + i])>>, FALSE)
<1> DEFINE ids == [i \in 1 .. n |-> k + i]
<1>1. ids \in Seq(Nat)
  <2>1. ids \in [1 .. n -> Nat]
    OBVIOUS
  <2> QED
    BY <2>1, SeqDef
<1>2. ids # << 0 >>
  <2>1. ids[1] = k + 1 /\ << 0 >>[1] = 0 /\ k + 1 # 0
    OBVIOUS
  <2> QED
    BY <2>1
<1> HIDE DEF ids
<1>3. Message("DATA", ids) \in Made /\ Message("DATA", ids).ids = ids /\ ~Asks(Message("DATA", ids))
  BY <1>1, <1>2, MessageMade
<1>4. <<Message("DATA", ids)>> \in Seq(Made) /\ Aligned(<<Message("DATA", ids)>>, FALSE) /\ Whole(<<Message("DATA", ids)>>, FALSE)
  BY <1>2, <1>3, OneMessage
<1> QED
  BY <1>3, <1>4 DEF ids

LEMMA PlainMade ==
    ASSUME NEW type \in {"EVENT", "SUBSCRIBE", "UNSUBSCRIBE"}, NEW ids \in Seq(Nat), ids # << 0 >>
    PROVE  /\ <<Message(type, ids)>> \in Seq(Made)
           /\ Aligned(<<Message(type, ids)>>, FALSE) /\ Whole(<<Message(type, ids)>>, FALSE)
<1>1. Message(type, ids) \in Made /\ Message(type, ids).ids = ids /\ ~Asks(Message(type, ids))
  BY MessageMade
<1> QED
  BY <1>1, OneMessage

LEMMA TodoKept ==
    ASSUME TodoTypes, NEW a \in Threads \cup Ends, NEW s \in Seq(Made), Aligned(s, FALSE), Whole(s, FALSE),
           todo' = [todo EXCEPT ![a] = s]
    PROVE  TodoTypes'
<1>1. todo' \in [Threads \cup Ends -> Seq(Made)] /\ todo'[a] = s /\ \A b \in Threads \cup Ends : b # a => todo'[b] = todo[b]
  BY DEF TodoTypes
<1> QED
  BY <1>1 DEF TodoTypes

LEMMA NextTodo ==
    ASSUME TypeInv, [Next]_vars
    PROVE  TodoTypes'
<1>1. TodoTypes /\ calls \in Nat /\ sent \in [Ends -> Nat] /\ cmd \in [Threads -> Cmds]
  BY DEF TypeInv, CallTypes
<1>2. ASSUME NEW a \in Threads \cup Ends, NEW s \in Seq(Made), Aligned(s, FALSE), Whole(s, FALSE),
             todo' = [todo EXCEPT ![a] = s]
      PROVE  TodoTypes'
  BY <1>1, <1>2, TodoKept
<1>3. ASSUME NEW a \in Threads \cup Ends, todo' = [todo EXCEPT ![a] = <<>>]
      PROVE  TodoTypes'
  BY <1>2, <1>3, NoMessage
<1>4. ASSUME NEW a \in Threads \cup Ends, NEW c \in Given, todo' = [todo EXCEPT ![a] = CmdMessages(c)]
      PROVE  TodoTypes'
  BY <1>2, <1>4, CmdMessagesAre
<1>5. ASSUME NEW t \in Threads, Call(t) \/ Continue(t) \/ SpuriousWakeup(t)
      PROVE  TodoTypes' \/ todo' = todo
  <2>0. t \in Threads \cup Ends /\ EndOf[t] \in Ends /\ Peer(EndOf[t]) \in Ends
    BY EndsAre
  <2>1. CASE execCmd(t)
    <3>1. \E payload \in BOOLEAN : todo' = [todo EXCEPT ![t] = CmdMessages([id |-> NewId, status |-> "PENDING", payload |-> payload])]
      BY <2>1 DEF execCmd, StartSend
    <3> QED
      BY <1>1, <1>4, <2>0, <3>1, NewCmdGiven
  <2>2. CASE ackCmd(t)
    <3>1. cmd[t] \in Cmds /\ cmd[t].id # 0
      BY <1>1, <2>2 DEF ackCmd, TypeInv, CallTypes
    <3>2. \E ok \in BOOLEAN : cmd' = [cmd EXCEPT ![t] = Answered(cmd[t], ok)] /\ todo' = [todo EXCEPT ![t] = CmdMessages(cmd'[t])]
      BY <2>2 DEF ackCmd, StartSend
    <3>3. \E ok \in BOOLEAN : todo' = [todo EXCEPT ![t] = CmdMessages(Answered(cmd[t], ok))]
      BY <1>1, <3>2
    <3> QED
      BY <1>4, <2>0, <3>1, <3>3, AnsweredGiven
  <2>3. CASE sendData(t)
    <3> DEFINE to == Peer(EndOf[t])
    <3>1. \E n \in 1 .. MaxChunk : todo' = [todo EXCEPT ![t] = <<Message("DATA", [i \in 1 .. n |-> sent[to] + i])>>]
      BY <2>3 DEF sendData, StartSend
    <3>2. sent[to] \in Nat /\ \A n \in 1 .. MaxChunk : n \in Nat \ {0}
      BY <1>1, <2>0, BoundsAssumption
    <3> HIDE DEF to
    <3> QED
      BY <1>2, <2>0, <3>1, <3>2, DataMade
  <2>4. CASE subEvt(t) \/ unsubEvt(t)
    <3>1. todo' = todo \/ \E type \in {"SUBSCRIBE", "UNSUBSCRIBE"} : todo' = [todo EXCEPT ![t] = <<Message(type, <<>>)>>]
      BY <2>4 DEF subEvt, unsubEvt, StartSend
    <3>2. <<>> \in Seq(Nat) /\ <<>> # << 0 >>
      OBVIOUS
    <3> QED
      BY <1>2, <2>0, <3>1, <3>2, PlainMade
  <2>5. CASE postEvt(t)
    <3>1. todo' = todo \/ todo' = [todo EXCEPT ![t] = <<Message("EVENT", <<NewId>>)>>]
      BY <2>5 DEF postEvt, StartSend
    <3>2. <<NewId>> \in Seq(Nat) /\ <<NewId>> # << 0 >>
      <4>1. NewId \in Nat /\ NewId # 0
        BY <1>1 DEF NewId
      <4> QED
        BY <4>1
    <3> QED
      BY <1>2, <2>0, <3>1, <3>2, PlainMade
  <2>6. CASE send(t) \/ sendFails(t)
    <3>1. todo' = [todo EXCEPT ![t] = <<>>]
      BY <2>6 DEF send, sendFails, Transmit, SendFails
    <3> QED
      BY <1>3, <2>0, <3>1
  <2>7. CASE waitCmd(t) \/ recvData(t) \/ takeResponse(t) \/ sleepForResponse(t) \/ execTimeout(t) \/ popCmd(t) \/ sleepForCmd(t)
             \/ waitTimeout(t) \/ readNothing(t) \/ readData(t) \/ SpuriousWakeup(t)
    BY <2>7 DEF waitCmd, recvData, takeResponse, sleepForResponse, execTimeout, popCmd, sleepForCmd, waitTimeout, readNothing,
       readData, SpuriousWakeup
  <2> QED
    BY <1>5, <2>1, <2>2, <2>3, <2>4, <2>5, <2>6, <2>7 DEF Call, Continue
<1>6. ASSUME NEW e \in Ends, Receiver(e)
      PROVE  TodoTypes' \/ todo' = todo
  <2>0. e \in Threads \cup Ends
    OBVIOUS
  <2>1. CASE callbackCmd(e)
    <3>1. \E ok \in BOOLEAN : todo' = [todo EXCEPT ![e] = CmdMessages(Answered(CmdOf(rx[e].msg), ok))]
      BY <2>1 DEF callbackCmd, StartSend
    <3>2. CmdOf(rx[e].msg) \in Given
      <4>1. rx[e].msg \in Made /\ rx[e].msg.type = "COMMAND"
        BY <2>1, ReceiverLabels DEF callbackCmd, TypeInv, RxTypes
      <4> QED
        BY <4>1, MadeIs
    <3> QED
      BY <1>4, <2>0, <3>1, <3>2, GivenIs
  <2>2. CASE respond(e)
    <3>1. todo' = [todo EXCEPT ![e] = <<>>]
      BY <2>2 DEF respond, Transmit, SendFails
    <3> QED
      BY <1>3, <2>0, <3>1
  <2>3. CASE ~callbackCmd(e) /\ ~respond(e)
    BY <1>6, <2>3 DEF Receiver, receiveSubscribe, receiveEvent, callbackEvent, receiveData, receiveCmd, receivePayload, receiveFails,
       payloadFails, queueCmd, reportResponse, stopReceiver
  <2> QED
    BY <2>1, <2>2, <2>3
<1>7. ASSUME NEW e \in Ends, closeLink(e) \/ joinReceiver(e)
      PROVE  todo' = todo
  BY <1>7 DEF closeLink, joinReceiver
<1>8. CASE todo' = todo
  BY <1>1, <1>8 DEF TodoTypes
<1> QED
  BY <1>5, <1>6, <1>7, <1>8, NextCases DEF vars

-----------------------------------------------------------------------------
LEMMA NextResponse ==
    ASSUME TypeInv, [Next]_vars
    PROVE  ResponseTypes'
<1>1. /\ CmdResponseReady \in [Ends -> BOOLEAN] /\ CmdResponse \in [Ends -> Cmds]
      /\ RecvError \in [Ends -> {"SUCCESS", "LINK_BROKEN", "BUG"}]
      /\ net \in [Ends -> Seq(Made)]
  BY DEF TypeInv, ResponseTypes, LinkTypes
<1>2. ASSUME NEW e \in Ends, Receiver(e)
      PROVE  ResponseTypes'
  <2>1. CASE receiveCmd(e)
    <3>1. net[e] # <<>> /\ Head(net[e]).type = "COMMAND"
      BY <2>1 DEF receiveCmd, Arrives
    <3>2. CmdOf(Head(net[e])) \in Cmds
      BY <1>1, <3>1, HeadTailProperties, MadeIs, GivenIs
    <3>3. [CmdOf(Head(net[e])) EXCEPT !.payload = FALSE] \in Cmds
      BY <3>2 DEF Cmds
    <3>4. /\ CmdResponse' = CmdResponse \/ CmdResponse' = [CmdResponse EXCEPT ![e] = [CmdOf(Head(net[e])) EXCEPT !.payload = FALSE]]
          /\ UNCHANGED <<CmdResponseReady, RecvError>>
      BY <2>1 DEF receiveCmd
    <3> QED
      BY <1>1, <3>3, <3>4 DEF ResponseTypes
  <2>2. CASE receivePayload(e)
    <3>1. /\ CmdResponse' = CmdResponse \/ CmdResponse' = [CmdResponse EXCEPT ![e].payload = TRUE]
          /\ UNCHANGED <<CmdResponseReady, RecvError>>
      BY <2>2 DEF receivePayload
    <3>2. [CmdResponse[e] EXCEPT !.payload = TRUE] \in Cmds
      BY <1>1 DEF Cmds
    <3>3. CmdResponse' \in [Ends -> Cmds]
      BY <1>1, <3>1, <3>2
    <3> QED
      BY <1>1, <3>1, <3>3 DEF ResponseTypes
  <2>3. CASE receiveFails(e)
    BY <1>1, <2>3 DEF receiveFails, ResponseTypes
  <2>4. CASE reportResponse(e)
    BY <1>1, <2>4 DEF reportResponse, ResponseTypes
  <2>5. CASE ~receiveCmd(e) /\ ~receivePayload(e) /\ ~receiveFails(e) /\ ~reportResponse(e)
    <3>1. UNCHANGED response
      BY <1>2, <2>5 DEF Receiver, receiveSubscribe, receiveEvent, callbackEvent, receiveData, payloadFails, callbackCmd, respond,
         queueCmd, stopReceiver
    <3> QED
      BY <1>1, <3>1 DEF response, ResponseTypes
  <2> QED
    BY <2>1, <2>2, <2>3, <2>4, <2>5
<1>3. ASSUME NEW t \in Threads, execCmd(t)
      PROVE  ResponseTypes'
  <2>1. CmdResponseReady' = [CmdResponseReady EXCEPT ![EndOf[t]] = FALSE] /\ RecvError' = [RecvError EXCEPT ![EndOf[t]] = "SUCCESS"]
        /\ CmdResponse' = CmdResponse
    BY <1>3 DEF execCmd, ClearResponse
  <2> QED
    BY <1>1, <2>1 DEF ResponseTypes
<1>4. ASSUME NEW t \in Threads, Call(t) \/ Continue(t) \/ SpuriousWakeup(t), ~execCmd(t)
      PROVE  UNCHANGED response
  BY <1>4 DEF Call, Continue, SpuriousWakeup, waitCmd, sendData, recvData, subEvt, unsubEvt, postEvt, send, sendFails,
     takeResponse, sleepForResponse, execTimeout, popCmd, sleepForCmd, waitTimeout, ackCmd, readNothing, readData
<1>5. ASSUME NEW e \in Ends, closeLink(e) \/ joinReceiver(e)
      PROVE  UNCHANGED response
  BY <1>5 DEF closeLink, joinReceiver
<1>6. CASE UNCHANGED response
  BY <1>1, <1>6 DEF response, ResponseTypes
<1> QED
  BY <1>2, <1>3, <1>4, <1>5, <1>6, NextCases DEF vars

LEMMA RestIs ==
    ASSUME NEW S, NEW s \in Seq(S), NEW n \in Nat
    PROVE  Rest(s, n) \in Seq(S) /\ Len(Rest(s, n)) <= Len(s)
<1>1. Len(s) \in Nat /\ n + 1 \in Int /\ Len(s) \in Int
  BY LenProperties
<1>2. \A i \in n + 1 .. Len(s) : s[i] \in S
  <2>1. \A i \in n + 1 .. Len(s) : i \in 1 .. Len(s)
    BY <1>1
  <2> QED
    BY <2>1, ElementOfSeq
<1>3. SubSeq(s, n + 1, Len(s)) \in Seq(S)
      /\ Len(SubSeq(s, n + 1, Len(s))) = IF n + 1 <= Len(s) THEN Len(s) - (n + 1) + 1 ELSE 0
  BY <1>1, <1>2, SubSeqProperties
<1> QED
  BY <1>1, <1>3 DEF Rest

LEMMA NextStored ==
    ASSUME TypeInv, [Next]_vars
    PROVE  StoredTypes'
<1>1. /\ IncomingCmdQueue \in [Ends -> Seq(Given)] /\ PollingBuffer \in [Ends -> Seq(Nat)]
      /\ \A e \in Ends : Len(IncomingCmdQueue[e]) <= CmdQueueLen /\ Len(PollingBuffer[e]) <= BufferSize
      /\ PeerHasSubscription \in [Ends -> BOOLEAN] /\ subscribed \in [Ends -> BOOLEAN]
      /\ net \in [Ends -> Seq(Made)]
      /\ CmdQueueLen \in Nat \ {0} /\ BufferSize \in Nat \ {0}
  BY BoundsAssumption DEF TypeInv, StoredTypes, LinkTypes
<1>2. ASSUME NEW e \in Ends, NEW q \in Seq(Given), Len(q) <= CmdQueueLen,
             IncomingCmdQueue' = [IncomingCmdQueue EXCEPT ![e] = q],
             UNCHANGED <<PollingBuffer, PeerHasSubscription, subscribed>>
      PROVE  StoredTypes'
  <2>1. IncomingCmdQueue' \in [Ends -> Seq(Given)] /\ \A f \in Ends : Len(IncomingCmdQueue'[f]) <= CmdQueueLen
    BY <1>1, <1>2
  <2> QED
    BY <1>1, <1>2, <2>1 DEF StoredTypes
<1>3. ASSUME NEW e \in Ends, NEW b \in Seq(Nat), Len(b) <= BufferSize, PollingBuffer' = [PollingBuffer EXCEPT ![e] = b],
             UNCHANGED <<IncomingCmdQueue, PeerHasSubscription, subscribed>>
      PROVE  StoredTypes'
  <2>1. PollingBuffer' \in [Ends -> Seq(Nat)] /\ \A f \in Ends : Len(PollingBuffer'[f]) <= BufferSize
    BY <1>1, <1>3
  <2> QED
    BY <1>1, <1>3, <2>1 DEF StoredTypes
<1>4. CASE UNCHANGED stored
  BY <1>1, <1>4 DEF stored, StoredTypes
<1>5. ASSUME NEW t \in Threads, Call(t) \/ Continue(t) \/ SpuriousWakeup(t)
      PROVE  StoredTypes'
  <2> DEFINE e == EndOf[t]
  <2>0. e \in Ends
    BY EndsAre
  <2>1. CASE popCmd(t)
    <3>1. /\ IncomingCmdQueue' = [IncomingCmdQueue EXCEPT ![e] = Rest(IncomingCmdQueue[e], 1)]
          /\ UNCHANGED <<PollingBuffer, PeerHasSubscription, subscribed>>
      BY <2>1 DEF popCmd
    <3>2. Rest(IncomingCmdQueue[e], 1) \in Seq(Given) /\ Len(Rest(IncomingCmdQueue[e], 1)) <= CmdQueueLen
      <4>1. Rest(IncomingCmdQueue[e], 1) \in Seq(Given) /\ Len(Rest(IncomingCmdQueue[e], 1)) <= Len(IncomingCmdQueue[e])
        BY <1>1, <2>0, RestIs
      <4>2. Len(Rest(IncomingCmdQueue[e], 1)) \in Nat /\ Len(IncomingCmdQueue[e]) \in Nat
        BY <1>1, <2>0, <4>1, LenProperties
      <4> HIDE DEF e
      <4> QED
        BY <1>1, <2>0, <4>1, <4>2
    <3> HIDE DEF e
    <3> QED
      BY <1>2, <2>0, <3>1, <3>2
  <2>2. CASE readData(t)
    <3>1. PICK size \in 1 .. MaxChunk :
             PollingBuffer' = [PollingBuffer EXCEPT ![e] = Rest(PollingBuffer[e], IF Len(PollingBuffer[e]) < size THEN Len(PollingBuffer[e]) ELSE size)]
      BY <2>2 DEF readData
    <3> DEFINE n == IF Len(PollingBuffer[e]) < size THEN Len(PollingBuffer[e]) ELSE size
               b == Rest(PollingBuffer[e], n)
    <3>2. UNCHANGED <<IncomingCmdQueue, PeerHasSubscription, subscribed>>
      BY <2>2 DEF readData
    <3>3. PollingBuffer[e] \in Seq(Nat) /\ Len(PollingBuffer[e]) \in Nat /\ Len(PollingBuffer[e]) <= BufferSize /\ n \in Nat
      BY <1>1, <2>0, LenProperties, BoundsAssumption
    <3>4. PollingBuffer' = [PollingBuffer EXCEPT ![e] = b]
      BY <3>1
    <3> HIDE DEF n, e
    <3>5. b \in Seq(Nat) /\ Len(b) <= Len(PollingBuffer[e])
      BY <3>3, RestIs
    <3> HIDE DEF b
    <3>6. Len(b) \in Nat
      BY <3>5, LenProperties
    <3>7. Len(b) <= BufferSize
      BY <1>1, <3>3, <3>5, <3>6
    <3> QED
      BY <1>3, <2>0, <3>2, <3>4, <3>5, <3>7
  <2>3. CASE subEvt(t) \/ unsubEvt(t)
    BY <1>1, <2>0, <2>3 DEF subEvt, unsubEvt, StoredTypes
  <2>4. CASE ~popCmd(t) /\ ~readData(t) /\ ~subEvt(t) /\ ~unsubEvt(t)
    <3>1. UNCHANGED stored
      BY <1>5, <2>4 DEF Call, Continue, SpuriousWakeup, execCmd, waitCmd, sendData, recvData, postEvt, send, sendFails,
         takeResponse, sleepForResponse, execTimeout, sleepForCmd, waitTimeout, ackCmd, readNothing
    <3> QED
      BY <1>4, <3>1
  <2> QED
    BY <2>1, <2>2, <2>3, <2>4
<1>6. ASSUME NEW e \in Ends, Receiver(e)
      PROVE  StoredTypes'
  <2>1. CASE receiveSubscribe(e)
    BY <1>1, <2>1 DEF receiveSubscribe, StoredTypes
  <2>2. CASE receiveData(e)
    <3> DEFINE data == Head(net[e]).ids
               b == PollingBuffer[e] \o data
    <3>1. /\ UNCHANGED <<IncomingCmdQueue, PeerHasSubscription, subscribed>>
          /\ UNCHANGED PollingBuffer \/ (PollingBuffer' = [PollingBuffer EXCEPT ![e] = b] /\ Len(data) <= BufferSize - Len(PollingBuffer[e]))
      BY <2>2 DEF receiveData, Fits
    <3>2. data \in Seq(Nat) /\ PollingBuffer[e] \in Seq(Nat)
      <4>1. net[e] # <<>>
        BY <2>2 DEF receiveData, Arrives
      <4>2. Head(net[e]) \in Made
        BY <1>1, <4>1, HeadTailProperties
      <4> QED
        BY <1>1, <4>2, MadeIs
    <3> HIDE DEF data
    <3>3. b \in Seq(Nat) /\ Len(b) = Len(PollingBuffer[e]) + Len(data) /\ Len(data) \in Nat /\ Len(PollingBuffer[e]) \in Nat
      BY <3>2, ConcatProperties, LenProperties
    <3> HIDE DEF b
    <3>4. UNCHANGED PollingBuffer \/ (PollingBuffer' = [PollingBuffer EXCEPT ![e] = b] /\ Len(b) <= BufferSize)
      BY <1>1, <3>1, <3>3
    <3> QED
      BY <1>3, <1>4, <3>1, <3>3, <3>4 DEF stored
  <2>3. CASE queueCmd(e)
    <3> DEFINE c == CmdOf(rx[e].msg)
               q == Append(IncomingCmdQueue[e], c)
    <3>1. /\ UNCHANGED <<PollingBuffer, PeerHasSubscription, subscribed>>
          /\ UNCHANGED IncomingCmdQueue \/ (IncomingCmdQueue' = [IncomingCmdQueue EXCEPT ![e] = q] /\ Len(IncomingCmdQueue[e]) < CmdQueueLen)
      BY <2>3 DEF queueCmd
    <3>2. c \in Given
      <4>1. rx[e].msg \in Made /\ rx[e].msg.type = "COMMAND"
        BY <2>3, ReceiverLabels DEF queueCmd, TypeInv, RxTypes
      <4> QED
        BY <4>1, MadeIs
    <3> HIDE DEF c
    <3>3. q \in Seq(Given) /\ Len(q) = Len(IncomingCmdQueue[e]) + 1 /\ Len(IncomingCmdQueue[e]) \in Nat
      BY <1>1, <3>2, AppendProperties, LenProperties
    <3> HIDE DEF q
    <3>4. UNCHANGED IncomingCmdQueue \/ (IncomingCmdQueue' = [IncomingCmdQueue EXCEPT ![e] = q] /\ Len(q) <= CmdQueueLen)
      BY <1>1, <3>1, <3>3
    <3> QED
      BY <1>2, <1>4, <3>1, <3>3, <3>4 DEF stored
  <2>4. CASE ~receiveSubscribe(e) /\ ~receiveData(e) /\ ~queueCmd(e)
    <3>1. UNCHANGED stored
      BY <1>6, <2>4 DEF Receiver, receiveEvent, callbackEvent, receiveCmd, receivePayload, receiveFails, payloadFails, callbackCmd,
         respond, reportResponse, stopReceiver
    <3> QED
      BY <1>4, <3>1
  <2> QED
    BY <2>1, <2>2, <2>3, <2>4
<1>7. ASSUME NEW e \in Ends, closeLink(e) \/ joinReceiver(e)
      PROVE  StoredTypes'
  <2>1. UNCHANGED stored
    BY <1>7 DEF closeLink, joinReceiver
  <2> QED
    BY <1>4, <2>1
<1> QED
  BY <1>4, <1>5, <1>6, <1>7, NextCases DEF vars

-----------------------------------------------------------------------------
LEMMA CallLabels ==
    /\ PcLabels = {"exec", "await", "asleepResp", "idle", "send", "ack", "poll", "asleepCmd", "holding", "read", "asleepDat"}
    /\ NoCmd \in Cmds
    /\ Results = {"none", "SUCCESS", "LINK_BROKEN", "BUG", "TIMEOUT", "NO_DATA", "NOT_SUPPORT", "NOT_EXIST", "NO_EVENT_CONSUMER"}
  BY DEF PcLabels, Executing, NoCmd, Cmds, Results

(* A thread goes to its next label, or returns; a signal wakes up somebody else. *)
LEMMA CallKept ==
    ASSUME CallTypes, NEW t \in Threads, NEW l \in PcLabels \ {"holding"}, pc' = [pc EXCEPT ![t] = l],
           cmd' = cmd \/ \E c \in Cmds : cmd' = [cmd EXCEPT ![t] = c],
           limit' = limit \/ \E k \in {"nonblock", "timed", "infinite"} : limit' = [limit EXCEPT ![t] = k],
           ret' = ret \/ \E r \in Results : ret' = [ret EXCEPT ![t] = r],
           calls' \in Nat, sent' \in [Ends -> Nat]
    PROVE  CallTypes'
<1>1. pc' \in [Threads -> PcLabels] /\ cmd' \in [Threads -> Cmds]
  BY DEF CallTypes
<1>2. limit' \in [Threads -> {"nonblock", "timed", "infinite"}]
  BY DEF CallTypes
<1>3. ret' \in [Threads -> Results]
  BY DEF CallTypes
<1>4. ASSUME NEW u \in Threads, pc'[u] = "holding" PROVE cmd'[u].id # 0
  <2>1. u # t /\ pc[u] = "holding"
    BY <1>4 DEF CallTypes
  <2>2. cmd'[u] = cmd[u]
    BY <2>1 DEF CallTypes
  <2> QED
    BY <2>1, <2>2 DEF CallTypes
<1> QED
  BY <1>1, <1>2, <1>3, <1>4 DEF CallTypes

LEMMA SignalKept ==
    ASSUME CallTypes, NEW e \in Ends, NEW asleep, NEW awake \in PcLabels \ {"holding"}, Signal(e, asleep, awake),
           UNCHANGED <<cmd, limit, ret, calls, sent>>
    PROVE  CallTypes'
<1>1. CASE pc' = pc
  BY <1>1 DEF CallTypes
<1>2. CASE pc' # pc
  <2>1. \E u \in Threads : pc' = [pc EXCEPT ![u] = awake]
    BY <1>2 DEF Signal, Goto, Of
  <2> QED
    BY <2>1, CallKept DEF CallTypes
<1> QED
  BY <1>1, <1>2

LEMMA NextCall ==
    ASSUME TypeInv, [Next]_vars
    PROVE  CallTypes'
<1>1. /\ CallTypes /\ calls \in Nat /\ sent \in [Ends -> Nat] /\ cmd \in [Threads -> Cmds]
      /\ RecvError \in [Ends -> {"SUCCESS", "LINK_BROKEN", "BUG"}]
      /\ limit \in [Threads -> {"nonblock", "timed", "infinite"}]
  BY DEF TypeInv, CallTypes, ResponseTypes
<1>2. ASSUME NEW t \in Threads, Call(t) \/ Continue(t) \/ SpuriousWakeup(t)
      PROVE  CallTypes'
  <2> DEFINE e == EndOf[t]
  <2>0. e \in Ends /\ Peer(e) \in Ends /\ RecvError[e] \in Results /\ calls + 1 \in Nat
        /\ \A k \in Limits[t] : k \in {"nonblock", "timed", "infinite"}
    BY <1>1, EndsAre, CallLabels, ThreadsAssumption
  <2>1. CASE execCmd(t)
    <3>1. /\ pc' = [pc EXCEPT ![t] = "exec"] /\ ret' = ret /\ calls' = calls + 1 /\ sent' = sent
          /\ \E k \in Limits[t] : limit' = [limit EXCEPT ![t] = k]
      BY <2>1 DEF execCmd, Goto, Begin, datHistory
    <3>2. \E c \in Cmds : cmd' = [cmd EXCEPT ![t] = c]
      <4>1. PICK payload \in BOOLEAN : cmd' = [cmd EXCEPT ![t] = [id |-> NewId, status |-> "PENDING", payload |-> payload]]
        BY <2>1 DEF execCmd
      <4>2. [id |-> NewId, status |-> "PENDING", payload |-> payload] \in Cmds
        BY <1>1, NewCmdGiven, GivenIs
      <4> QED
        BY <4>1, <4>2
    <3> QED
      BY <1>1, <2>0, <3>1, <3>2, CallKept, CallLabels
  <2>2. CASE waitCmd(t)
    <3>1. /\ pc' = [pc EXCEPT ![t] = "poll"] /\ ret' = ret /\ calls' = calls + 1 /\ sent' = sent /\ cmd' = cmd
          /\ \E k \in Limits[t] : limit' = [limit EXCEPT ![t] = k]
      BY <2>2 DEF waitCmd, Goto, Begin, datHistory
    <3> QED
      BY <1>1, <2>0, <3>1, CallKept, CallLabels
  <2>3. CASE sendData(t)
    <3>1. /\ pc' = [pc EXCEPT ![t] = "send"] /\ UNCHANGED <<cmd, limit, ret>> /\ calls' = calls + 1
          /\ \E n \in 1 .. MaxChunk : sent' = [sent EXCEPT ![Peer(e)] = @ + n]
      BY <2>3 DEF sendData, Goto, Begin
    <3>2. sent' \in [Ends -> Nat]
      BY <1>1, <2>0, <3>1, BoundsAssumption
    <3> QED
      BY <1>1, <2>0, <3>1, <3>2, CallKept, CallLabels
  <2>4. CASE recvData(t)
    <3>1. /\ calls' = calls + 1 /\ sent' = sent
          /\ \/ \E r \in Results : Return(t, r)
             \/ pc' = [pc EXCEPT ![t] = "read"] /\ UNCHANGED <<cmd, ret>> /\ \E k \in Limits[t] : limit' = [limit EXCEPT ![t] = k]
      BY <2>0, <2>4, CallLabels DEF recvData, Begin, Goto, datHistory
    <3> QED
      BY <1>1, <2>0, <3>1, CallKept, CallLabels DEF Return, Goto
  <2>5. CASE subEvt(t) \/ unsubEvt(t) \/ postEvt(t)
    <3>1. /\ calls' = calls + 1 /\ sent' = sent
          /\ \/ \E r \in Results : Return(t, r)
             \/ pc' = [pc EXCEPT ![t] = "send"] /\ UNCHANGED <<cmd, ret, limit>>
      BY <2>5, CallLabels DEF subEvt, unsubEvt, postEvt, Begin, Goto, datHistory
    <3> QED
      BY <1>1, <2>0, <3>1, CallKept, CallLabels DEF Return, Goto
  <2>6. CASE popCmd(t)
    <3>1. /\ pc' = [pc EXCEPT ![t] = "holding"] /\ ret' = [ret EXCEPT ![t] = "SUCCESS"] /\ UNCHANGED <<limit, calls, sent>>
          /\ cmd' = [cmd EXCEPT ![t] = Head(IncomingCmdQueue[e])] /\ IncomingCmdQueue[e] # <<>>
      BY <2>6 DEF popCmd, Goto, datHistory
    <3>2. Head(IncomingCmdQueue[e]) \in Cmds /\ Head(IncomingCmdQueue[e]).id # 0
      <4>1. Head(IncomingCmdQueue[e]) \in Given
        BY <2>0, <3>1, HeadTailProperties DEF TypeInv, StoredTypes
      <4> QED
        BY <4>1, GivenIs
    <3> HIDE DEF e
    <3>3. pc' \in [Threads -> PcLabels] /\ cmd' \in [Threads -> Cmds] /\ ret' \in [Threads -> Results]
      BY <1>1, <3>1, <3>2, CallLabels DEF CallTypes
    <3>4. ASSUME NEW u \in Threads, pc'[u] = "holding" PROVE cmd'[u].id # 0
      <4>1. u = t \/ (pc[u] = "holding" /\ cmd'[u] = cmd[u])
        BY <1>1, <3>1, <3>4 DEF CallTypes
      <4>2. u = t => cmd'[u] = Head(IncomingCmdQueue[e])
        BY <1>1, <3>1
      <4> QED
        BY <1>1, <3>2, <4>1, <4>2 DEF CallTypes
    <3> QED
      BY <1>1, <3>1, <3>3, <3>4 DEF CallTypes
  <2>7. CASE ackCmd(t)
    <3>1. /\ pc' = [pc EXCEPT ![t] = "ack"] /\ UNCHANGED <<limit, ret, calls, sent>> /\ cmd[t] \in Cmds /\ cmd[t].id # 0
          /\ \E ok \in BOOLEAN : cmd' = [cmd EXCEPT ![t] = Answered(cmd[t], ok)]
      BY <1>1, <2>7 DEF ackCmd, Goto, datHistory, CallTypes
    <3>2. \E c \in Cmds : cmd' = [cmd EXCEPT ![t] = c]
      BY <3>1, AnsweredGiven, GivenIs
    <3> QED
      BY <1>1, <3>1, <3>2, CallKept, CallLabels
  <2>8. CASE send(t) \/ sendFails(t) \/ takeResponse(t) \/ execTimeout(t) \/ waitTimeout(t) \/ readNothing(t) \/ readData(t)
    <3>1. /\ UNCHANGED <<calls, sent>>
          /\ \/ \E r \in Results : Return(t, r)
             \/ (\E l \in {"await", "asleepDat"} : pc' = [pc EXCEPT ![t] = l]) /\ UNCHANGED <<cmd, ret, limit>>
      BY <2>0, <2>8, CallLabels DEF send, sendFails, takeResponse, execTimeout, waitTimeout, readNothing, readData, Goto, datHistory
    <3> QED
      BY <1>1, <3>1, CallKept, CallLabels DEF Return, Goto
  <2>9. CASE sleepForResponse(t) \/ sleepForCmd(t) \/ SpuriousWakeup(t)
    <3>1. /\ UNCHANGED <<cmd, limit, ret, calls, sent>>
          /\ \E l \in {"asleepResp", "asleepCmd", "await", "poll", "read"} : pc' = [pc EXCEPT ![t] = l]
      BY <2>9 DEF sleepForResponse, sleepForCmd, SpuriousWakeup, Goto, local, datHistory
    <3> QED
      BY <1>1, <3>1, CallKept, CallLabels
  <2> QED
    BY <1>2, <2>1, <2>2, <2>3, <2>4, <2>5, <2>6, <2>7, <2>8, <2>9 DEF Call, Continue
<1>3. ASSUME NEW e \in Ends, Receiver(e)
      PROVE  CallTypes'
  <2>1. UNCHANGED <<cmd, limit, ret, calls, sent>>
    BY <1>3 DEF Receiver, receiveSubscribe, receiveEvent, callbackEvent, receiveData, receiveCmd, receivePayload, receiveFails,
       payloadFails, callbackCmd, respond, queueCmd, reportResponse, stopReceiver, local, datHistory
  <2>2. \/ UNCHANGED pc
        \/ Signal(e, "asleepDat", "read") \/ Signal(e, "asleepResp", "await") \/ Signal(e, "asleepCmd", "poll")
    BY <1>3 DEF Receiver, receiveSubscribe, receiveEvent, callbackEvent, receiveData, receiveCmd, receivePayload, receiveFails,
       payloadFails, callbackCmd, respond, queueCmd, reportResponse, stopReceiver
  <2>3. CASE UNCHANGED pc
    BY <1>1, <2>1, <2>3 DEF CallTypes
  <2> QED
    BY <1>1, <2>1, <2>2, <2>3, SignalKept, CallLabels
<1>4. ASSUME NEW e \in Ends, closeLink(e) \/ joinReceiver(e)
      PROVE  UNCHANGED <<pc, local, sent>>
  BY <1>4 DEF closeLink, joinReceiver, datHistory
<1>5. CASE UNCHANGED <<pc, local, sent>>
  BY <1>1, <1>5 DEF local, CallTypes
<1> QED
  BY <1>2, <1>3, <1>4, <1>5, NextCases DEF vars, datHistory

LEMMA NextLink ==
    ASSUME TypeInv, [Next]_vars
    PROVE  link' \in [Ends -> {"open", "closing", "closed"}] /\ DatMode' = DatMode
<1>1. ASSUME NEW t \in Threads, Call(t) \/ Continue(t) \/ SpuriousWakeup(t)
      PROVE  link' = link /\ DatMode' = DatMode
  BY <1>1 DEF Call, Continue, SpuriousWakeup, execCmd, waitCmd, sendData, recvData, subEvt, unsubEvt, postEvt, send, sendFails,
     takeResponse, sleepForResponse, execTimeout, popCmd, sleepForCmd, waitTimeout, ackCmd, readNothing, readData, conf
<1>2. ASSUME NEW e \in Ends, Receiver(e)
      PROVE  link' = link /\ DatMode' = DatMode
  BY <1>2 DEF Receiver, receiveSubscribe, receiveEvent, callbackEvent, receiveData, receiveCmd, receivePayload, receiveFails,
     payloadFails, callbackCmd, respond, queueCmd, reportResponse, stopReceiver, conf
<1>3. ASSUME NEW e \in Ends, closeLink(e) \/ joinReceiver(e)
      PROVE  (\E l \in {"closing", "closed"} : link' = [link EXCEPT ![e] = l]) /\ DatMode' = DatMode
  BY <1>3 DEF closeLink, joinReceiver, conf
<1> QED
  BY <1>1, <1>2, <1>3, NextCases DEF vars, conf, TypeInv, LinkTypes

LEMMA NextTypeInv ==
    ASSUME TypeInv, StreamInv, [Next]_vars
    PROVE  TypeInv' /\ StreamInv'
<1>1. NetOK'
  BY NextNet
<1>2. LinkTypes'
  BY <1>1, NextLink DEF NetOK, LinkTypes, TypeInv
<1> QED
  BY <1>1, <1>2, NextRx, NextResponse, NextStored, NextCall, NextTodo DEF NetOK, TypeInv

LEMMA InitTypeInv == Init => TypeInv /\ StreamInv
<1> SUFFICES ASSUME Init PROVE TypeInv /\ StreamInv
  OBVIOUS
<1> USE DEF Init
<1>1. LinkTypes /\ StreamInv
  <2>1. DatMode \in [Ends -> {"callback", "polling", "none"}]
    BY SetupsAssumption
  <2>2. \A e \in Ends : ~Asking(e) /\ net[e] = <<>>
    BY DEF Asking
  <2>3. \A e \in Ends : Aligned(net[e], Asking(e)) /\ Whole(net[e], Asking(e))
    BY <2>2, NoMessage DEF Whole
  <2> QED
    BY <2>1, <2>3, NoMessage DEF LinkTypes, StreamInv
<1>2. RxTypes
  BY NothingMade, ReceiverLabels DEF RxTypes
<1>3. ResponseTypes
  BY CallLabels DEF ResponseTypes
<1>4. StoredTypes
  BY BoundsAssumption, EmptySeq DEF StoredTypes
<1>5. CallTypes
  BY CallLabels DEF CallTypes
<1>6. TodoTypes
  BY NoMessage DEF TodoTypes
<1> QED
  BY <1>1, <1>2, <1>3, <1>4, <1>5, <1>6 DEF TypeInv

LEMMA Typed == Spec => [](TypeInv /\ StreamInv)
  BY InitTypeInv, NextTypeInv, PTL DEF Spec

(* Every variable of the two ends keeps its type, the queue of commands and the buffer of data stay within their
   sizes, however many threads call and whichever end closes when. *)
THEOREM TypeCorrect == Spec => []TypeOK
<1>1. TypeInv => TypeOK
  <2>1. SUFFICES ASSUME TypeInv PROVE TypeOK
    OBVIOUS
  <2>2. Made \subseteq Messages /\ Given \subseteq Cmds
    BY DEF Made, Given
  <2>3. net \in [Ends -> Seq(Messages)]
    BY <2>1, <2>2, SeqMonotonic DEF TypeInv, LinkTypes
  <2>4. todo \in [Threads \cup Ends -> Seq(Messages)]
    BY <2>1, <2>2, SeqMonotonic DEF TypeInv, TodoTypes
  <2>5. IncomingCmdQueue \in [Ends -> Seq(Cmds)]
    BY <2>1, <2>2, SeqMonotonic DEF TypeInv, StoredTypes
  <2>6. rx \in [Ends -> [at : RxLabels, msg : Messages]]
    BY <2>1, <2>2 DEF TypeInv, RxTypes
  <2> QED
    BY <2>1, <2>3, <2>4, <2>5, <2>6 DEF TypeInv, LinkTypes, ResponseTypes, StoredTypes, CallTypes, PcLabels, RxLabels, TypeOK
<1> QED
  BY <1>1, Typed, PTL

(* A payload is what comes first where a receiver asks for one, and nowhere else. *)
LEMMA HeadAsked ==
    ASSUME TypeInv, StreamInv, NEW e \in Ends, net[e] # <<>>
    PROVE  Head(net[e]) \in Made /\ (Head(net[e]).ids = << 0 >> <=> Asking(e))
<1> DEFINE s == net[e]
           asks == Asking(e)
<1>1. s \in Seq(Made) /\ s # <<>> /\ Aligned(s, asks)
  BY DEF TypeInv, LinkTypes, StreamInv
<1>2. asks \in BOOLEAN
  BY DEF Asking
<1> HIDE DEF s, asks
<1>3. Head(s) \in Made /\ (Head(s).ids = << 0 >> <=> asks)
  <2>1. CASE asks = TRUE
    BY <1>1, <2>1, RestAligned
  <2>2. CASE asks = FALSE
    BY <1>1, <2>2, RestAligned
  <2> QED
    BY <1>2, <2>1, <2>2
<1> QED
  BY <1>3 DEF s, asks

(* A receiver reads the stream in step with the sender: the message that comes where it asks for a command's payload
   is one, and no other message is, whoever sends and whichever end closes in between. *)
THEOREM ReadsInStep == Spec => []InStep
<1>1. TypeInv /\ StreamInv => InStep
  <2>1. SUFFICES ASSUME TypeInv, StreamInv, NEW e \in Ends, net[e] # <<>>
                 PROVE  /\ rx[e].at \in {"inPayload", "outPayload"} => Head(net[e]).type = "DATA" /\ Head(net[e]).ids = << 0 >>
                        /\ rx[e].at \notin {"inPayload", "outPayload"} => Head(net[e]).ids # << 0 >>
    BY DEF InStep
  <2>2. Head(net[e]) \in Made /\ (Head(net[e]).ids = << 0 >> <=> Asking(e))
    BY <2>1, HeadAsked
  <2> QED
    BY <2>2, MadeIs DEF Asking
<1> QED
  BY <1>1, Typed, PTL

-----------------------------------------------------------------------------
(* A call that does not execute a command leaves those that do as they are. *)
SameExec(u) == pc[u] = "exec" => pc'[u] = "exec" /\ cmd'[u] = cmd[u]

LEMMA PreparedSame ==
    ASSUME PreparedInv, todo' = todo, \A u \in Threads : SameExec(u)
    PROVE  PreparedInv'
<1>1. SUFFICES ASSUME NEW a \in Threads \cup Ends
               PROVE  /\ One(todo'[a], TRUE) /\ One(todo'[a], FALSE)
                      /\ Carried(todo'[a], TRUE) # {} => a \in Threads /\ pc'[a] = "exec"
                      /\ a \in Threads => Numbered(todo'[a], TRUE, cmd'[a].id)
  BY DEF PreparedInv
<1>2. /\ One(todo[a], TRUE) /\ One(todo[a], FALSE) /\ (Carried(todo[a], TRUE) # {} => a \in Threads /\ pc[a] = "exec")
      /\ a \in Threads => Numbered(todo[a], TRUE, cmd[a].id)
  BY DEF PreparedInv
<1>3. CASE Carried(todo[a], TRUE) = {}
  BY <1>2, <1>3, NoneCarried
<1>4. CASE Carried(todo[a], TRUE) # {}
  BY <1>2, <1>4 DEF SameExec
<1> QED
  BY <1>3, <1>4

LEMMA PreparedKept ==
    ASSUME TypeInv, PreparedInv, NEW a \in Threads \cup Ends, NEW s, todo' = [todo EXCEPT ![a] = s],
           One(s, TRUE), One(s, FALSE),
           Carried(s, TRUE) # {} => a \in Threads /\ pc'[a] = "exec" /\ Numbered(s, TRUE, cmd'[a].id),
           \A u \in Threads \ {a} : SameExec(u)
    PROVE  PreparedInv'
<1>1. todo'[a] = s /\ \A b \in Threads \cup Ends : b # a => todo'[b] = todo[b]
  BY DEF TypeInv, TodoTypes
<1>2. SUFFICES ASSUME NEW b \in Threads \cup Ends
               PROVE  /\ One(todo'[b], TRUE) /\ One(todo'[b], FALSE)
                      /\ Carried(todo'[b], TRUE) # {} => b \in Threads /\ pc'[b] = "exec"
                      /\ b \in Threads => Numbered(todo'[b], TRUE, cmd'[b].id)
  BY DEF PreparedInv
<1>3. CASE Carried(todo'[b], TRUE) = {}
  BY <1>1, <1>3, NoneCarried DEF PreparedInv
<1>4. CASE b = a /\ Carried(todo'[b], TRUE) # {}
  BY <1>1, <1>4
<1>5. CASE b # a /\ Carried(todo'[b], TRUE) # {}
  <2>1. todo'[b] = todo[b]
    BY <1>1, <1>5
  <2>2. /\ One(todo[b], TRUE) /\ One(todo[b], FALSE) /\ b \in Threads /\ pc[b] = "exec" /\ Numbered(todo[b], TRUE, cmd[b].id)
    BY <1>5, <2>1 DEF PreparedInv
  <2> QED
    BY <1>5, <2>1, <2>2 DEF SameExec
<1> QED
  BY <1>3, <1>4, <1>5

LEMMA NextPrepared ==
    ASSUME TypeInv, PreparedInv, [Next]_vars
    PROVE  PreparedInv'
<1>1. /\ pc \in [Threads -> PcLabels] /\ cmd \in [Threads -> Cmds] /\ calls \in Nat /\ sent \in [Ends -> Nat]
      /\ \A u \in Threads : pc[u] = "holding" => cmd[u].id # 0
  BY DEF TypeInv, CallTypes
<1>2. ASSUME NEW a \in Threads \cup Ends, NEW s, todo' = [todo EXCEPT ![a] = s], \A request \in BOOLEAN : Carried(s, request) = {},
             \A u \in Threads \ {a} : SameExec(u)
      PROVE  PreparedInv'
  BY <1>2, NoneCarried, PreparedKept
<1>3. ASSUME NEW t \in Threads, Call(t) \/ Continue(t) \/ SpuriousWakeup(t)
      PROVE  PreparedInv'
  <2>0. t \in Threads \cup Ends /\ EndOf[t] \in Ends /\ Peer(EndOf[t]) \in Ends
    BY EndsAre
  <2>1. ASSUME NEW l, Goto(t, l) \/ Return(t, l), cmd' = cmd \/ \E c : cmd' = [cmd EXCEPT ![t] = c]
        PROVE  \A u \in Threads \ {t} : SameExec(u)
    BY <1>1, <2>1 DEF Goto, Return, SameExec
  <2>2. CASE execCmd(t)
    <3>1. \E payload \in BOOLEAN : LET c == [id |-> NewId, status |-> "PENDING", payload |-> payload]
                                   IN  cmd' = [cmd EXCEPT ![t] = c] /\ todo' = [todo EXCEPT ![t] = CmdMessages(c)]
      BY <2>2 DEF execCmd, StartSend
    <3>2. PICK c \in Given : cmd' = [cmd EXCEPT ![t] = c] /\ todo' = [todo EXCEPT ![t] = CmdMessages(c)]
      BY <1>1, <3>1, NewCmdGiven
    <3>3. Goto(t, "exec")
      BY <2>2 DEF execCmd
    <3>4. pc'[t] = "exec" /\ cmd'[t] = c
      BY <1>1, <3>2, <3>3 DEF Goto
    <3>5. \A u \in Threads \ {t} : SameExec(u)
      BY <2>1, <3>2, <3>3
    <3>6. One(CmdMessages(c), TRUE) /\ One(CmdMessages(c), FALSE) /\ Numbered(CmdMessages(c), TRUE, c.id)
      BY CmdCarried
    <3> QED
      BY <2>0, <3>2, <3>4, <3>5, <3>6, PreparedKept
  <2>3. CASE ackCmd(t)
    <3>1. \E ok \in BOOLEAN : cmd' = [cmd EXCEPT ![t] = Answered(cmd[t], ok)] /\ todo' = [todo EXCEPT ![t] = CmdMessages(cmd'[t])]
      BY <2>3 DEF ackCmd, StartSend
    <3>2. cmd[t] \in Cmds /\ cmd[t].id # 0 /\ Goto(t, "ack")
      BY <1>1, <2>3 DEF ackCmd
    <3>3. PICK ok \in BOOLEAN : /\ cmd' = [cmd EXCEPT ![t] = Answered(cmd[t], ok)]
                                /\ todo' = [todo EXCEPT ![t] = CmdMessages(Answered(cmd[t], ok))]
      BY <1>1, <3>1
    <3>4. Answered(cmd[t], ok) \in Given /\ ~IsRequest(Answered(cmd[t], ok))
      BY <3>2, AnsweredGiven DEF Answered, IsRequest, Cmds
    <3> DEFINE c == Answered(cmd[t], ok)
    <3>5. c \in Given /\ ~IsRequest(c) /\ cmd' = [cmd EXCEPT ![t] = c] /\ todo' = [todo EXCEPT ![t] = CmdMessages(c)]
      BY <3>3, <3>4
    <3> HIDE DEF c
    <3>6. One(CmdMessages(c), TRUE) /\ One(CmdMessages(c), FALSE) /\ Carried(CmdMessages(c), TRUE) = {}
      BY <3>5, CmdCarried
    <3>7. \A u \in Threads \ {t} : SameExec(u)
      BY <2>1, <3>2, <3>5
    <3> QED
      BY <2>0, <3>5, <3>6, <3>7, PreparedKept
  <2>4. CASE sendData(t)
    <3>1. /\ \E n \in 1 .. MaxChunk : todo' = [todo EXCEPT ![t] = <<Message("DATA", [i \in 1 .. n |-> sent[Peer(EndOf[t])] + i])>>]
          /\ Goto(t, "send") /\ cmd' = cmd
      BY <2>4 DEF sendData, StartSend
    <3>2. \A ids : Message("DATA", ids).type # "COMMAND"
      BY DEF Message
    <3> QED
      BY <1>2, <2>0, <2>1, <3>1, <3>2, OtherCarried
  <2>5. CASE (subEvt(t) \/ unsubEvt(t) \/ postEvt(t)) /\ todo' # todo
    <3>1. /\ \E type \in {"SUBSCRIBE", "UNSUBSCRIBE", "EVENT"} : \E ids : todo' = [todo EXCEPT ![t] = <<Message(type, ids)>>]
          /\ Goto(t, "send") /\ cmd' = cmd
      BY <2>5 DEF subEvt, unsubEvt, postEvt, StartSend
    <3>2. \A type \in {"SUBSCRIBE", "UNSUBSCRIBE", "EVENT"} : \A ids : Message(type, ids).type # "COMMAND"
      BY DEF Message
    <3> QED
      BY <1>2, <2>0, <2>1, <3>1, <3>2, OtherCarried
  <2>6. CASE send(t) \/ sendFails(t)
    <3>1. todo' = [todo EXCEPT ![t] = <<>>]
      BY <2>6 DEF send, sendFails, Transmit, SendFails
    <3>2. \E l : (Goto(t, l) /\ cmd' = cmd) \/ Return(t, l)
      BY <2>6 DEF send, sendFails
    <3>3. \A u \in Threads \ {t} : SameExec(u)
      BY <2>1, <3>2 DEF Return
    <3> QED
      BY <1>2, <2>0, <3>1, <3>3, NothingCarried
  <2>7. CASE waitCmd(t) \/ recvData(t) \/ takeResponse(t) \/ sleepForResponse(t) \/ execTimeout(t) \/ popCmd(t) \/ sleepForCmd(t)
             \/ waitTimeout(t) \/ readNothing(t) \/ readData(t) \/ SpuriousWakeup(t)
             \/ ((subEvt(t) \/ unsubEvt(t) \/ postEvt(t)) /\ todo' = todo)
    <3>1. todo' = todo /\ pc[t] # "exec"
      BY <2>7 DEF waitCmd, recvData, takeResponse, sleepForResponse, execTimeout, popCmd, sleepForCmd, waitTimeout, readNothing,
         readData, SpuriousWakeup, subEvt, unsubEvt, postEvt, Begin
    <3>2. \E l : Return(t, l) \/ (Goto(t, l) /\ (cmd' = cmd \/ \E c : cmd' = [cmd EXCEPT ![t] = c]))
      BY <2>7 DEF waitCmd, recvData, takeResponse, sleepForResponse, execTimeout, popCmd, sleepForCmd, waitTimeout, readNothing,
         readData, SpuriousWakeup, subEvt, unsubEvt, postEvt, local
    <3>3. \A u \in Threads \ {t} : SameExec(u)
      BY <2>1, <3>2 DEF Return
    <3> QED
      BY <3>1, <3>3, PreparedSame DEF SameExec
  <2> QED
    BY <1>3, <2>2, <2>3, <2>4, <2>5, <2>6, <2>7 DEF Call, Continue
<1>4. ASSUME NEW e \in Ends, Receiver(e)
      PROVE  PreparedInv'
  <2>0. e \in Threads \cup Ends /\ e \notin Threads
    BY ThreadsAssumption
  <2>1. UNCHANGED cmd
    BY <1>4 DEF Receiver, receiveSubscribe, receiveEvent, callbackEvent, receiveData, receiveCmd, receivePayload, receiveFails,
       payloadFails, callbackCmd, respond, queueCmd, reportResponse, stopReceiver, local
  <2>2. \/ UNCHANGED pc
        \/ Signal(e, "asleepDat", "read") \/ Signal(e, "asleepResp", "await") \/ Signal(e, "asleepCmd", "poll")
    BY <1>4 DEF Receiver, receiveSubscribe, receiveEvent, callbackEvent, receiveData, receiveCmd, receivePayload, receiveFails,
       payloadFails, callbackCmd, respond, queueCmd, reportResponse, stopReceiver
  <2>3. \A u \in Threads : SameExec(u)
    <3>1. \/ pc' = pc
          \/ \E v \in Threads : \E awake : pc' = [pc EXCEPT ![v] = awake] /\ pc[v] \in {"asleepDat", "asleepResp", "asleepCmd"}
      BY <2>2 DEF Signal, Goto, Of
    <3> QED
      BY <1>1, <2>1, <3>1 DEF SameExec
  <2>4. CASE callbackCmd(e)
    <3>1. \E ok \in BOOLEAN : todo' = [todo EXCEPT ![e] = CmdMessages(Answered(CmdOf(rx[e].msg), ok))]
      BY <2>4 DEF callbackCmd, StartSend
    <3>2. CmdOf(rx[e].msg) \in Given
      <4>1. rx[e].msg \in Made /\ rx[e].msg.type = "COMMAND"
        BY <2>4, ReceiverLabels DEF callbackCmd, TypeInv, RxTypes
      <4> QED
        BY <4>1, MadeIs
    <3>3. \A c \in Given : \A ok \in BOOLEAN : Answered(c, ok) \in Given /\ ~IsRequest(Answered(c, ok))
      BY GivenIs DEF Answered, IsRequest, Given, Cmds
    <3>4. PICK c \in Given : ~IsRequest(c) /\ todo' = [todo EXCEPT ![e] = CmdMessages(c)]
      BY <3>1, <3>2, <3>3
    <3>5. One(CmdMessages(c), TRUE) /\ One(CmdMessages(c), FALSE) /\ Carried(CmdMessages(c), TRUE) = {}
      BY <3>4, CmdCarried
    <3> QED
      BY <2>0, <2>3, <3>4, <3>5, PreparedKept
  <2>5. CASE respond(e)
    <3>1. todo' = [todo EXCEPT ![e] = <<>>]
      BY <2>5 DEF respond, Transmit, SendFails
    <3> QED
      BY <1>2, <2>0, <2>3, <3>1, NothingCarried
  <2>6. CASE ~callbackCmd(e) /\ ~respond(e)
    <3>1. todo' = todo
      BY <1>4, <2>6 DEF Receiver, receiveSubscribe, receiveEvent, callbackEvent, receiveData, receiveCmd, receivePayload,
         receiveFails, payloadFails, queueCmd, reportResponse, stopReceiver
    <3> QED
      BY <2>3, <3>1, PreparedSame
  <2> QED
    BY <2>4, <2>5, <2>6
<1>5. ASSUME NEW e \in Ends, closeLink(e) \/ joinReceiver(e)
      PROVE  todo' = todo /\ pc' = pc /\ cmd' = cmd
  BY <1>5 DEF closeLink, joinReceiver, local
<1>6. CASE todo' = todo /\ pc' = pc /\ cmd' = cmd
  BY <1>6, PreparedSame DEF SameExec
<1> QED
  BY <1>3, <1>4, <1>5, <1>6, NextCases DEF vars, local

-----------------------------------------------------------------------------
(* A step of the command of end e, which has the number n, from the place x to the place y; nothing comes to any other *)
(* place.  Both are Nowhere when the command stays where it is, y alone when it ends there.                           *)
Nowhere == <<"nowhere", "nowhere">>
ExecMoves(e, x, y) == \A t \in Of(e) : pc'[t] = "exec" => y = <<"exec", t>> \/ (x # <<"exec", t>> /\ pc[t] = "exec")
NetMoves(place, f, request, x, y, n) ==
    \/ Carried(net'[f], request) = {}
    \/ x # <<place, f>> /\ Less(net[f], net'[f], request)
    \/ y = <<place, f>> /\ One(net'[f], request) /\ Numbered(net'[f], request, n)
ReadMoves(p, x, y, n) ==
    rx'[p].at \in {"inPayload", "request"} =>
        \/ x # <<"read", p>> /\ rx[p].at \in {"inPayload", "request"} /\ rx'[p].msg.ids[1] = rx[p].msg.ids[1]
        \/ y = <<"read", p>> /\ rx'[p].msg.ids[1] = n
QueueMoves(p, x, y, n) ==
    \/ IncomingCmdQueue'[p] = <<>>
    \/ x # <<"queue", p>> /\ IncomingCmdQueue'[p] = IncomingCmdQueue[p]
    \/ y = <<"queue", p>> /\ Len(IncomingCmdQueue'[p]) <= 1 /\ IncomingCmdQueue'[p][1].id = n
HeldMoves(p, x, y, n) ==
    \A u \in Of(p) : pc'[u] = "holding" =>
        \/ x # <<"held", u>> /\ pc[u] = "holding" /\ cmd'[u].id = cmd[u].id
        \/ y = <<"held", u>> /\ cmd'[u].id = n
AnswerMoves(p, x, y, n) ==
    link'[p] = "open" => link[p] = "open" /\ \A a \in Senders(p) :
        \/ Carried(todo'[a], FALSE) = {}
        \/ x # <<"answer", a>> /\ todo'[a] = todo[a]
        \/ y = <<"answer", a>> /\ Numbered(todo'[a], FALSE, n)
ReportMoves(e, x, y, n) ==
    rx'[e].at \in {"outPayload", "response"} =>
        \/ x # <<"report", e>> /\ rx[e].at \in {"outPayload", "response"} /\ CmdResponse'[e].id = CmdResponse[e].id
        \/ y = <<"report", e>> /\ CmdResponse'[e].id = n
ReadyMoves(e, x, y) ==
    CmdResponseReady'[e] => ~Busy(e)' \/ y = <<"ready", e>> \/ (x # <<"ready", e>> /\ CmdResponseReady[e])
Moves(e, x, y, n) ==
    /\ ExecMoves(e, x, y)
    /\ NetMoves("request", Peer(e), TRUE, x, y, n)
    /\ ReadMoves(Peer(e), x, y, n) /\ QueueMoves(Peer(e), x, y, n) /\ HeldMoves(Peer(e), x, y, n) /\ AnswerMoves(Peer(e), x, y, n)
    /\ NetMoves("response", e, FALSE, x, y, n)
    /\ ReportMoves(e, x, y, n) /\ ReadyMoves(e, x, y)

(* Who executes a command goes on with the same one. *)
SameCalls(e) == \A t \in Of(e) : pc'[t] \in Executing => pc[t] \in Executing /\ cmd'[t] = cmd[t]
NoneEnds(e) == \A t \in Of(e) : pc[t] \in Executing => pc'[t] \in Executing

(* What a step does to the command of end e: it moves it, or leaves it; only a move to nowhere may end the call. *)
Step(e) ==
    /\ SameCalls(e)
    /\ \E x, y : \E n \in Nat :
          /\ Moves(e, x, y, n)
          /\ x \in Places(e) \/ (x = Nowhere /\ y = Nowhere)
          /\ NoneEnds(e) \/ (x # Nowhere /\ y = Nowhere)
          /\ \A t \in Of(e) : pc[t] \in Executing => cmd[t].id = n

LEMMA PlacesAre ==
    ASSUME NEW e \in Ends, NEW z
    PROVE  /\ z \in Places(e) =>
                 \/ \E t \in Of(e) : pc[t] = "exec" /\ z = <<"exec", t>>
                 \/ z = <<"request", Peer(e)>> /\ Carried(net[Peer(e)], TRUE) # {}
                 \/ z = <<"read", Peer(e)>> /\ rx[Peer(e)].at \in {"inPayload", "request"}
                 \/ z = <<"queue", Peer(e)>> /\ IncomingCmdQueue[Peer(e)] # <<>>
                 \/ \E t \in Of(Peer(e)) : pc[t] = "holding" /\ z = <<"held", t>>
                 \/ \E a \in Senders(Peer(e)) : link[Peer(e)] = "open" /\ Carried(todo[a], FALSE) # {} /\ z = <<"answer", a>>
                 \/ z = <<"response", e>> /\ Carried(net[e], FALSE) # {}
                 \/ z = <<"report", e>> /\ rx[e].at \in {"outPayload", "response"}
                 \/ z = <<"ready", e>> /\ CmdResponseReady[e] /\ Busy(e)
           /\ \A t \in Of(e) : pc[t] = "exec" => <<"exec", t>> \in Places(e)
           /\ Carried(net[Peer(e)], TRUE) # {} => <<"request", Peer(e)>> \in Places(e)
           /\ rx[Peer(e)].at \in {"inPayload", "request"} => <<"read", Peer(e)>> \in Places(e)
           /\ IncomingCmdQueue[Peer(e)] # <<>> => <<"queue", Peer(e)>> \in Places(e)
           /\ \A t \in Of(Peer(e)) : pc[t] = "holding" => <<"held", t>> \in Places(e)
           /\ \A a \in Senders(Peer(e)) : link[Peer(e)] = "open" /\ Carried(todo[a], FALSE) # {} => <<"answer", a>> \in Places(e)
           /\ Carried(net[e], FALSE) # {} => <<"response", e>> \in Places(e)
           /\ rx[e].at \in {"outPayload", "response"} => <<"report", e>> \in Places(e)
           /\ CmdResponseReady[e] /\ Busy(e) => <<"ready", e>> \in Places(e)
  BY DEF Places

(* A place where the command is after a step is the one that it came to, or one where it was and that it did not leave. *)
LEMMA PlacesMove ==
    ASSUME NEW e \in Ends, NEW x, NEW y, NEW n, Moves(e, x, y, n), SameCalls(e), NEW z \in Places(e)'
    PROVE  z # Nowhere /\ (z = y \/ (z \in Places(e) /\ z # x))
<1> DEFINE p == Peer(e)
<1>1. CASE \E t \in Of(e) : pc'[t] = "exec" /\ z = <<"exec", t>>
  <2>1. PICK t \in Of(e) : pc'[t] = "exec" /\ z = <<"exec", t>>
    BY <1>1
  <2>2. z = y \/ (x # z /\ pc[t] = "exec")
    BY <2>1 DEF Moves, ExecMoves
  <2>3. pc[t] = "exec" => z \in Places(e)
    BY <2>1, PlacesAre
  <2> QED
    BY <2>1, <2>2, <2>3 DEF Nowhere
<1>2. CASE z = <<"request", p>> /\ Carried(net'[p], TRUE) # {}
  BY <1>2, PlacesAre DEF Moves, NetMoves, Nowhere, Less
<1>3. CASE z = <<"read", p>> /\ rx'[p].at \in {"inPayload", "request"}
  BY <1>3, PlacesAre DEF Moves, ReadMoves, Nowhere
<1>4. CASE z = <<"queue", p>> /\ IncomingCmdQueue'[p] # <<>>
  BY <1>4, PlacesAre DEF Moves, QueueMoves, Nowhere
<1>5. CASE \E t \in Of(p) : pc'[t] = "holding" /\ z = <<"held", t>>
  <2>1. PICK t \in Of(p) : pc'[t] = "holding" /\ z = <<"held", t>>
    BY <1>5
  <2>2. z = y \/ (x # z /\ pc[t] = "holding")
    BY <2>1 DEF Moves, HeldMoves
  <2>3. pc[t] = "holding" => z \in Places(e)
    BY <2>1, PlacesAre
  <2> QED
    BY <2>1, <2>2, <2>3 DEF Nowhere
<1>6. CASE \E a \in Senders(p) : link'[p] = "open" /\ Carried(todo'[a], FALSE) # {} /\ z = <<"answer", a>>
  <2>1. PICK a \in Senders(p) : link'[p] = "open" /\ Carried(todo'[a], FALSE) # {} /\ z = <<"answer", a>>
    BY <1>6
  <2>2. link[p] = "open" /\ (z = y \/ (x # z /\ todo'[a] = todo[a]))
    BY <2>1 DEF Moves, AnswerMoves
  <2>3. todo'[a] = todo[a] => z \in Places(e)
    BY <2>1, <2>2, PlacesAre
  <2> QED
    BY <2>1, <2>2, <2>3 DEF Nowhere
<1>7. CASE z = <<"response", e>> /\ Carried(net'[e], FALSE) # {}
  BY <1>7, PlacesAre DEF Moves, NetMoves, Nowhere, Less
<1>8. CASE z = <<"report", e>> /\ rx'[e].at \in {"outPayload", "response"}
  BY <1>8, PlacesAre DEF Moves, ReportMoves, Nowhere
<1>9. CASE z = <<"ready", e>> /\ CmdResponseReady'[e] /\ Busy(e)'
  <2>1. Busy(e)
    BY <1>9 DEF Busy, SameCalls
  <2> QED
    BY <1>9, <2>1, PlacesAre DEF Moves, ReadyMoves, Nowhere
<1> QED
  BY <1>1, <1>2, <1>3, <1>4, <1>5, <1>6, <1>7, <1>8, <1>9 DEF Places

(* A step keeps the command in one place. *)
LEMMA StepKeeps ==
    ASSUME TypeInv, NEW e \in Ends, Step(e), OneCall(e), OnePlace(e)
    PROVE  OneCall(e)' /\ OnePlace(e)'
<1> DEFINE p == Peer(e)
<1>1. SameCalls(e)
  BY DEF Step
<1>2. OneCall(e)'
  BY <1>1 DEF SameCalls, OneCall
<1>3. PICK x, y : \E n \in Nat :
          /\ Moves(e, x, y, n) /\ (x \in Places(e) \/ (x = Nowhere /\ y = Nowhere))
          /\ NoneEnds(e) \/ (x # Nowhere /\ y = Nowhere)
          /\ \A t \in Of(e) : pc[t] \in Executing => cmd[t].id = n
  BY DEF Step
<1>4. PICK n \in Nat :
          /\ Moves(e, x, y, n) /\ (x \in Places(e) \/ (x = Nowhere /\ y = Nowhere))
          /\ NoneEnds(e) \/ (x # Nowhere /\ y = Nowhere)
          /\ \A t \in Of(e) : pc[t] \in Executing => cmd[t].id = n
  BY <1>3
<1>5. \A z \in Places(e)' : z # Nowhere /\ (z = y \/ (z \in Places(e) /\ z # x))
  BY <1>1, <1>4, PlacesMove
<1>6. \A z, w \in Places(e) : z = w
  BY DEF OnePlace
<1>7. \A z, w \in Places(e)' : z = w
  BY <1>4, <1>5, <1>6
<1>8. Places(e)' # {} => Busy(e)'
  <2>1. ASSUME Places(e)' # {} PROVE Busy(e)'
    <3>1. Places(e) # {} /\ NoneEnds(e)
      BY <1>4, <1>5, <1>6, <2>1
    <3> QED
      BY <3>1 DEF OnePlace, Busy, NoneEnds
  <2> QED
    BY <2>1
<1>9. p \in Ends /\ Len(IncomingCmdQueue[p]) <= 1 /\ One(net[p], TRUE) /\ One(net[e], FALSE)
  BY EndsAre DEF OnePlace
<1>10. One(net'[p], TRUE) /\ One(net'[e], FALSE)
  BY <1>4, <1>9, NoneCarried DEF Moves, NetMoves, Less
<1>11. Len(IncomingCmdQueue'[p]) <= 1
  BY <1>4, <1>9 DEF Moves, QueueMoves
<1>12. ASSUME NEW t \in Of(e), pc'[t] \in Executing
       PROVE  AllNumbered(e, cmd[t].id)'
  <2>1. pc[t] \in Executing /\ cmd'[t] = cmd[t] /\ cmd[t].id = n /\ AllNumbered(e, n)
    BY <1>1, <1>4, <1>12 DEF SameCalls, OnePlace
  <2>2. Numbered(net'[p], TRUE, n) /\ Numbered(net'[e], FALSE, n)
    BY <1>4, <2>1, NoneCarried DEF Moves, NetMoves, Less, AllNumbered
  <2>3. rx'[p].at \in {"inPayload", "request"} => rx'[p].msg.ids[1] = n
    BY <1>4, <2>1 DEF Moves, ReadMoves, AllNumbered
  <2>4. IncomingCmdQueue'[p] # <<>> => IncomingCmdQueue'[p][1].id = n
    BY <1>4, <2>1 DEF Moves, QueueMoves, AllNumbered
  <2>5. \A u \in Of(p) : pc'[u] = "holding" => cmd'[u].id = n
    BY <1>4, <2>1 DEF Moves, HeldMoves, AllNumbered
  <2>6. link'[p] = "open" => \A a \in Senders(p) : Numbered(todo'[a], FALSE, n)
    BY <1>4, <2>1, NoneCarried DEF Moves, AnswerMoves, AllNumbered
  <2>7. rx'[e].at \in {"outPayload", "response"} => CmdResponse'[e].id = n
    BY <1>4, <2>1 DEF Moves, ReportMoves, AllNumbered
  <2> QED
    BY <2>1, <2>2, <2>3, <2>4, <2>5, <2>6, <2>7 DEF AllNumbered
<1> QED
  BY <1>2, <1>7, <1>8, <1>10, <1>11, <1>12 DEF OnePlace

LEMMA LessSame == \A s, request : Less(s, s, request)
  BY DEF Less

(* The command of an end that has one under way has the number that all places have. *)
LEMMA CallNumber ==
    ASSUME TypeInv, NEW e \in Ends, OneCall(e)
    PROVE  \E n \in Nat : \A t \in Of(e) : pc[t] \in Executing => cmd[t].id = n
<1>1. \A t \in Of(e) : cmd[t].id \in Nat
  BY DEF TypeInv, CallTypes, Cmds, Of
<1>2. CASE \E t \in Of(e) : pc[t] \in Executing
  BY <1>1, <1>2 DEF OneCall
<1>3. CASE ~\E t \in Of(e) : pc[t] \in Executing
  BY <1>3
<1> QED
  BY <1>2, <1>3

LEMMA PlaceNumber ==
    ASSUME TypeInv, NEW e \in Ends, OneCall(e), OnePlace(e), NEW x \in Places(e)
    PROVE  /\ \A z \in Places(e) : z = x
           /\ \E n \in Nat : AllNumbered(e, n) /\ \A t \in Of(e) : pc[t] \in Executing => cmd[t].id = n
<1>1. PICK t \in Of(e) : pc[t] \in Executing
  BY DEF OnePlace, Busy
<1>2. cmd[t].id \in Nat
  BY DEF TypeInv, CallTypes, Cmds, Of
<1>3. AllNumbered(e, cmd[t].id) /\ \A u \in Of(e) : pc[u] \in Executing => cmd[u].id = cmd[t].id
  BY <1>1 DEF OnePlace, OneCall
<1> QED
  BY <1>2, <1>3 DEF OnePlace

(* The command stays where it is. *)
LEMMA StayStep ==
    ASSUME TypeInv, NEW e \in Ends, OneCall(e), SameCalls(e), NoneEnds(e), \A n \in Nat : Moves(e, Nowhere, Nowhere, n)
    PROVE  Step(e)
<1>1. PICK n \in Nat : \A t \in Of(e) : pc[t] \in Executing => cmd[t].id = n
  BY CallNumber
<1> QED
  BY <1>1 DEF Step

(* What is in the streams, the receivers and the queue of commands stays there. *)
StreamMoves(e, x, y, n) ==
    /\ NetMoves("request", Peer(e), TRUE, x, y, n) /\ ReadMoves(Peer(e), x, y, n) /\ QueueMoves(Peer(e), x, y, n)
    /\ NetMoves("response", e, FALSE, x, y, n) /\ ReportMoves(e, x, y, n)
OfNoStream(x) == \A f \in Ends : x \notin {<<"request", f>>, <<"read", f>>, <<"queue", f>>, <<"response", f>>, <<"report", f>>}

LEMMA StreamsStay ==
    ASSUME NEW e \in Ends, NEW x, NEW y, NEW n, OfNoStream(x), UNCHANGED <<net, rx, CmdResponse>>,
           IncomingCmdQueue'[Peer(e)] = IncomingCmdQueue[Peer(e)]
    PROVE  StreamMoves(e, x, y, n)
<1>1. Peer(e) \in Ends
  BY EndsAre
<1>2. x # <<"request", Peer(e)>> /\ x # <<"read", Peer(e)>> /\ x # <<"queue", Peer(e)>> /\ x # <<"response", e>> /\ x # <<"report", e>>
  BY <1>1 DEF OfNoStream
<1> QED
  BY <1>2, LessSame DEF StreamMoves, NetMoves, ReadMoves, QueueMoves, ReportMoves

(* A thread's step that has nothing to do with the command of e. *)
LEMMA ThreadStays ==
    ASSUME TypeInv, NEW t \in Threads, NEW e \in Ends, OneCall(e), NEW l, pc' = [pc EXCEPT ![t] = l],
           EndOf[t] = e => l # "exec" /\ (l \in Executing <=> pc[t] \in Executing),
           EndOf[t] # e => l # "holding",
           cmd' = cmd \/ ((EndOf[t] = e => pc[t] \notin Executing) /\ \E c : cmd' = [cmd EXCEPT ![t] = c]),
           todo' = todo \/ \E s : todo' = [todo EXCEPT ![t] = s] /\ (EndOf[t] # e => Carried(s, FALSE) = {}),
           UNCHANGED <<link, net, rx, CmdResponse>>, IncomingCmdQueue'[Peer(e)] = IncomingCmdQueue[Peer(e)],
           CmdResponseReady'[e] => CmdResponseReady[e]
    PROVE  Step(e)
<1>1. /\ pc \in [Threads -> PcLabels] /\ cmd \in [Threads -> Cmds] /\ DOMAIN todo = Threads \cup Ends
      /\ Peer(e) \in Ends /\ Peer(e) # e
  BY EndsAre DEF TypeInv, CallTypes, TodoTypes
<1>2. pc'[t] = l /\ \A u \in Threads : u # t => pc'[u] = pc[u] /\ cmd'[u] = cmd[u]
  BY <1>1
<1>3. SameCalls(e) /\ NoneEnds(e)
  BY <1>1, <1>2 DEF SameCalls, NoneEnds, Of
<1>4. ASSUME NEW n \in Nat PROVE Moves(e, Nowhere, Nowhere, n)
  <2>1. ExecMoves(e, Nowhere, Nowhere)
    BY <1>2 DEF ExecMoves, Of, Nowhere
  <2>2. StreamMoves(e, Nowhere, Nowhere, n)
    BY StreamsStay DEF OfNoStream, Nowhere
  <2>3. HeldMoves(Peer(e), Nowhere, Nowhere, n)
    BY <1>1, <1>2 DEF HeldMoves, Of, Nowhere
  <2>4. AnswerMoves(Peer(e), Nowhere, Nowhere, n)
    <3>1. SUFFICES ASSUME NEW a \in Senders(Peer(e)) PROVE Carried(todo'[a], FALSE) = {} \/ todo'[a] = todo[a]
      BY DEF AnswerMoves, Nowhere
    <3>2. a \in Threads \cup Ends /\ (a = t => EndOf[t] # e)
      BY <1>1, ThreadsAssumption DEF Senders, Of
    <3> QED
      BY <1>1, <3>2
  <2>5. ReadyMoves(e, Nowhere, Nowhere)
    BY DEF ReadyMoves, Nowhere
  <2> QED
    BY <2>1, <2>2, <2>3, <2>4, <2>5 DEF Moves, StreamMoves
<1> QED
  BY <1>3, <1>4, StayStep

(* What a sender of end f has prepared goes out: the command of f to the other end, the answer to the other end's. *)
LEMMA SendStep ==
    ASSUME TypeInv, PreparedInv, NEW f \in Ends, NEW a \in Senders(f), Transmit(a, f) \/ SendFails(a, f),
           NEW e \in Ends, OneCall(e), OnePlace(e), SameCalls(e), NoneEnds(e),
           \A u \in Threads : /\ pc'[u] = "exec" => pc[u] = "exec" /\ u # a
                              /\ pc'[u] = "holding" => pc[u] = "holding" /\ cmd'[u] = cmd[u],
           \A g \in Ends : rx'[g].at \in Commanding => rx'[g] = rx[g],
           UNCHANGED <<link, CmdResponse, CmdResponseReady, IncomingCmdQueue>>
    PROVE  Step(e)
<1> DEFINE p == Peer(e)
<1>1. /\ p \in Ends /\ p # e /\ Peer(f) \in Ends /\ Peer(f) # f /\ (f = e \/ f = p) /\ Peer(p) = e
      /\ \A b \in Senders(e) : b \in Threads \cup Ends /\ b \notin Senders(p)
      /\ \A b \in Senders(p) : b \in Threads \cup Ends /\ b \notin Senders(e)
  BY EndsAre, ThreadsAssumption DEF Senders, Of
<1>2. /\ net \in [Ends -> Seq(Made)] /\ todo \in [Threads \cup Ends -> Seq(Made)]
      /\ a \in Threads \cup Ends /\ todo' = [todo EXCEPT ![a] = <<>>]
  BY <1>1 DEF TypeInv, LinkTypes, TodoTypes, Transmit, SendFails
<1>3. Carried(todo'[a], TRUE) = {} /\ Carried(todo'[a], FALSE) = {} /\ \A b \in Threads \cup Ends : b # a => todo'[b] = todo[b]
  BY <1>2, NothingCarried
<1>4. net'[f] = net[f] /\ (net'[Peer(f)] = net[Peer(f)] \/ net'[Peer(f)] = net[Peer(f)] \o todo[a])
  BY <1>1, <1>2 DEF Transmit, SendFails
<1>5. \A g \in Ends : net[g] \in Seq(Made) /\ todo[a] \in Seq(Made)
  BY <1>2
(* Where nothing is sent. *)
<1>6. ASSUME NEW x, NEW y, NEW n \in Nat, OfNoStream(x)
      PROVE  /\ ReadMoves(p, x, y, n) /\ QueueMoves(p, x, y, n) /\ ReportMoves(e, x, y, n)
             /\ f = e => NetMoves("response", e, FALSE, x, y, n)
             /\ f # e => NetMoves("request", p, TRUE, x, y, n)
  <2>1. x # <<"request", p>> /\ x # <<"read", p>> /\ x # <<"queue", p>> /\ x # <<"response", e>> /\ x # <<"report", e>>
    BY <1>1, <1>6 DEF OfNoStream
  <2> QED
    BY <1>1, <1>4, <2>1, LessSame DEF ReadMoves, QueueMoves, ReportMoves, NetMoves, Commanding
<1>7. ASSUME NEW x, NEW y, NEW n \in Nat, \A u : x # <<"held", u>>, x # <<"ready", e>>
      PROVE  HeldMoves(p, x, y, n) /\ ReadyMoves(e, x, y)
  BY <1>7 DEF HeldMoves, ReadyMoves, Of
<1>8. CASE f = e /\ Carried(todo[a], TRUE) # {}
  <2> DEFINE x == <<"exec", a>>
             y == <<"request", p>>
  <2>1. a \in Threads /\ pc[a] = "exec" /\ a \in Of(e) /\ Numbered(todo[a], TRUE, cmd[a].id) /\ One(todo[a], TRUE)
    BY <1>2, <1>8, ThreadsAssumption DEF PreparedInv, Senders, Of
  <2>2. x \in Places(e)
    BY <2>1, PlacesAre
  <2>3. PICK n \in Nat : AllNumbered(e, n) /\ \A t \in Of(e) : pc[t] \in Executing => cmd[t].id = n
    BY <2>2, PlaceNumber
  <2>4. \A z \in Places(e) : z = x
    BY <2>2, PlaceNumber
  <2>5. Carried(net[p], TRUE) = {} /\ y # x
    BY <2>4, PlacesAre
  <2>6. NetMoves("request", p, TRUE, x, y, n)
    <3>1. cmd[a].id = n
      BY <2>1, <2>3 DEF Executing
    <3>2. net'[p] = net[p] \/ Less(todo[a], net'[p], TRUE)
      BY <1>1, <1>4, <1>5, <1>8, <2>5, ConcatCarried
    <3>3. net'[p] = net[p] \/ (One(net'[p], TRUE) /\ Numbered(net'[p], TRUE, n))
      BY <2>1, <3>1, <3>2 DEF Less
    <3> QED
      BY <2>5, <3>3 DEF NetMoves
  <2>7. ExecMoves(e, x, y)
    BY DEF ExecMoves, Of
  <2>8. AnswerMoves(p, x, y, n)
    BY <1>1, <1>3, <1>8 DEF AnswerMoves
  <2>9. OfNoStream(x) /\ (\A u : x # <<"held", u>>) /\ x # <<"ready", e>> /\ y # Nowhere /\ x # Nowhere
    BY DEF OfNoStream, Nowhere
  <2> HIDE DEF x, y
  <2>10. Moves(e, x, y, n)
    BY <1>6, <1>7, <1>8, <2>6, <2>7, <2>8, <2>9 DEF Moves
  <2> QED
    BY <2>2, <2>3, <2>10 DEF Step
<1>9. CASE f # e /\ link[f] = "open" /\ Carried(todo[a], FALSE) # {}
  <2> DEFINE x == <<"answer", a>>
             y == <<"response", e>>
  <2>1. x \in Places(e) /\ f = p
    BY <1>1, <1>9, PlacesAre
  <2>3. PICK n \in Nat : AllNumbered(e, n) /\ \A t \in Of(e) : pc[t] \in Executing => cmd[t].id = n
    BY <2>1, PlaceNumber
  <2>4. \A z \in Places(e) : z = x
    BY <2>1, PlaceNumber
  <2>5. Carried(net[e], FALSE) = {} /\ y # x
    BY <2>4, PlacesAre
  <2>6. NetMoves("response", e, FALSE, x, y, n)
    <3>1. Numbered(todo[a], FALSE, n) /\ One(todo[a], FALSE)
      BY <1>2, <1>9, <2>1, <2>3 DEF AllNumbered, PreparedInv
    <3>2. net'[e] = net[e] \/ Less(todo[a], net'[e], FALSE)
      BY <1>1, <1>4, <1>5, <1>9, <2>5, ConcatCarried
    <3>3. net'[e] = net[e] \/ (One(net'[e], FALSE) /\ Numbered(net'[e], FALSE, n))
      BY <3>1, <3>2 DEF Less
    <3> QED
      BY <2>5, <3>3 DEF NetMoves
  <2>7. ExecMoves(e, x, y)
    BY DEF ExecMoves, Of
  <2>8. AnswerMoves(p, x, y, n)
    <3>1. ASSUME NEW b \in Senders(p)
          PROVE  Carried(todo'[b], FALSE) = {} \/ (x # <<"answer", b>> /\ todo'[b] = todo[b])
      BY <1>1, <1>3
    <3> QED
      BY <3>1 DEF AnswerMoves
  <2>9. OfNoStream(x) /\ (\A u : x # <<"held", u>>) /\ x # <<"ready", e>> /\ y # Nowhere /\ x # Nowhere
    BY DEF OfNoStream, Nowhere
  <2> HIDE DEF x, y
  <2>10. Moves(e, x, y, n)
    BY <1>6, <1>7, <1>9, <2>6, <2>7, <2>8, <2>9 DEF Moves
  <2> QED
    BY <2>1, <2>3, <2>10 DEF Step
<1>10. CASE (f = e /\ Carried(todo[a], TRUE) = {}) \/ (f # e /\ (link[f] # "open" \/ Carried(todo[a], FALSE) = {}))
  <2>1. ASSUME NEW n \in Nat PROVE Moves(e, Nowhere, Nowhere, n)
    <3>1. OfNoStream(Nowhere) /\ (\A u : Nowhere # <<"held", u>>) /\ Nowhere # <<"ready", e>>
      BY DEF OfNoStream, Nowhere
    <3>2. f = e => NetMoves("request", p, TRUE, Nowhere, Nowhere, n)
      BY <1>1, <1>4, <1>5, <1>10, ConcatCarried, LessSame DEF NetMoves, Nowhere
    <3>3. f # e => NetMoves("response", e, FALSE, Nowhere, Nowhere, n)
      <4>1. ASSUME f # e PROVE net'[e] = net[e] \/ (Less(net[e], net[e] \o todo[a], FALSE) /\ net'[e] = net[e] \o todo[a])
        <5>1. CASE link[f] = "open"
          BY <1>1, <1>4, <1>5, <1>10, <4>1, <5>1, ConcatCarried
        <5>2. CASE link[f] # "open"
          <6>1. net' = net
            BY <5>2 DEF Transmit, SendFails
          <6> QED
            BY <6>1
        <5> QED
          BY <5>1, <5>2
      <4> QED
        BY <4>1, LessSame DEF NetMoves, Nowhere
    <3>4. ExecMoves(e, Nowhere, Nowhere)
      BY DEF ExecMoves, Of, Nowhere
    <3>5. AnswerMoves(p, Nowhere, Nowhere, n)
      BY <1>1, <1>3 DEF AnswerMoves, Nowhere
    <3> QED
      BY <1>6, <1>7, <3>1, <3>2, <3>3, <3>4, <3>5 DEF Moves
  <2> QED
    BY <2>1, StayStep
<1> QED
  BY <1>8, <1>9, <1>10

(* A thread of the other end takes the command from the queue, or gives its answer. *)
LEMMA PopStep ==
    ASSUME TypeInv, NEW e \in Ends, OneCall(e), OnePlace(e), NEW t \in Of(Peer(e)), popCmd(t)
    PROVE  Step(e)
<1> DEFINE p == Peer(e)
           x == <<"queue", p>>
           y == <<"held", t>>
<1>1. /\ p \in Ends /\ p # e /\ t \in Threads /\ EndOf[t] = p /\ pc \in [Threads -> PcLabels] /\ cmd \in [Threads -> Cmds]
      /\ IncomingCmdQueue \in [Ends -> Seq(Given)]
  BY EndsAre DEF TypeInv, CallTypes, StoredTypes, Of
<1>2. /\ IncomingCmdQueue[p] # <<>> /\ IncomingCmdQueue'[p] = Rest(IncomingCmdQueue[p], 1)
      /\ pc' = [pc EXCEPT ![t] = "holding"] /\ cmd' = [cmd EXCEPT ![t] = Head(IncomingCmdQueue[p])] /\ pc[t] = "poll"
      /\ UNCHANGED <<link, net, rx, response, todo>>
  BY <1>1 DEF popCmd, Goto
<1>3. x \in Places(e)
  BY <1>2, PlacesAre
<1>4. PICK n \in Nat : AllNumbered(e, n) /\ \A u \in Of(e) : pc[u] \in Executing => cmd[u].id = n
  BY <1>3, PlaceNumber
<1>5. IncomingCmdQueue'[p] = <<>> /\ Head(IncomingCmdQueue[p]).id = n
  <2>1. Len(IncomingCmdQueue[p]) = 1 /\ Head(IncomingCmdQueue[p]) = IncomingCmdQueue[p][1]
    <3>1. IncomingCmdQueue[p] \in Seq(Given) /\ IncomingCmdQueue[p] # <<>> /\ Len(IncomingCmdQueue[p]) <= 1
      BY <1>1, <1>2 DEF OnePlace
    <3> DEFINE q == IncomingCmdQueue[p]
    <3> HIDE DEF q
    <3>2. Len(q) \in Nat /\ Len(q) # 0 /\ Head(q) = q[1] /\ Len(q) <= 1
      BY <3>1, EmptySeq, LenProperties, HeadTailProperties DEF q
    <3>3. \A k \in Nat : k # 0 /\ k <= 1 => k = 1
      OBVIOUS
    <3> QED
      BY <3>2, <3>3 DEF q
  <2>2. SubSeq(IncomingCmdQueue[p], 2, 1) = <<>>
    BY <1>1, SubSeqProperties
  <2> QED
    BY <1>2, <1>4, <2>1, <2>2 DEF Rest, AllNumbered
<1>6. /\ pc'[t] = "holding" /\ cmd'[t].id = n
      /\ \A u \in Threads : u # t => pc'[u] = pc[u] /\ cmd'[u] = cmd[u]
  BY <1>1, <1>2, <1>5
<1>7. SameCalls(e) /\ NoneEnds(e)
  BY <1>1, <1>6 DEF SameCalls, NoneEnds, Of
<1>8. \A u \in Of(e) : x # <<"exec", u>>
  OBVIOUS
<1>9. ExecMoves(e, x, y)
  BY <1>1, <1>6 DEF ExecMoves, Of
<1>10. NetMoves("request", p, TRUE, x, y, n) /\ NetMoves("response", e, FALSE, x, y, n)
  BY <1>2, LessSame DEF NetMoves
<1>11. ReadMoves(p, x, y, n) /\ ReportMoves(e, x, y, n) /\ ReadyMoves(e, x, y)
  BY <1>2 DEF ReadMoves, ReportMoves, ReadyMoves, response
<1>12. HeldMoves(p, x, y, n)
  BY <1>1, <1>6 DEF HeldMoves, Of
<1>13. AnswerMoves(p, x, y, n)
  BY <1>2 DEF AnswerMoves
<1>14. Moves(e, x, y, n)
  BY <1>5, <1>9, <1>10, <1>11, <1>12, <1>13 DEF Moves, QueueMoves
<1> QED
  BY <1>3, <1>4, <1>7, <1>14 DEF Step

LEMMA AckStep ==
    ASSUME TypeInv, NEW e \in Ends, OneCall(e), OnePlace(e), NEW t \in Of(Peer(e)), ackCmd(t)
    PROVE  Step(e)
<1> DEFINE p == Peer(e)
           x == <<"held", t>>
           y == <<"answer", t>>
<1>1. /\ p \in Ends /\ p # e /\ t \in Threads /\ EndOf[t] = p /\ pc \in [Threads -> PcLabels] /\ cmd \in [Threads -> Cmds]
      /\ DOMAIN todo = Threads \cup Ends /\ \A b \in Senders(p) : b \in Threads \cup Ends
  BY EndsAre DEF TypeInv, CallTypes, TodoTypes, Of, Senders
<1>2. /\ pc[t] = "holding" /\ link[p] = "open" /\ pc' = [pc EXCEPT ![t] = "ack"]
      /\ \E ok \in BOOLEAN : cmd' = [cmd EXCEPT ![t] = Answered(cmd[t], ok)] /\ todo' = [todo EXCEPT ![t] = CmdMessages(cmd'[t])]
      /\ UNCHANGED <<link, net, rx, response, IncomingCmdQueue>>
  BY <1>1 DEF ackCmd, Goto, StartSend, stored
<1>3. x \in Places(e)
  BY <1>2, PlacesAre
<1>4. PICK n \in Nat : AllNumbered(e, n) /\ \A u \in Of(e) : pc[u] \in Executing => cmd[u].id = n
  BY <1>3, PlaceNumber
<1>5. cmd[t] \in Cmds /\ cmd[t].id # 0 /\ cmd[t].id = n
  BY <1>1, <1>2, <1>4 DEF AllNumbered, TypeInv, CallTypes
<1>6. /\ pc'[t] = "ack" /\ \A u \in Threads : u # t => pc'[u] = pc[u] /\ cmd'[u] = cmd[u]
      /\ Numbered(todo'[t], FALSE, n) /\ \A b \in Threads \cup Ends : b # t => todo'[b] = todo[b]
  <2>1. PICK ok \in BOOLEAN : cmd' = [cmd EXCEPT ![t] = Answered(cmd[t], ok)] /\ todo' = [todo EXCEPT ![t] = CmdMessages(cmd'[t])]
    BY <1>2
  <2>2. Answered(cmd[t], ok) \in Given /\ Answered(cmd[t], ok).id = n
    BY <1>5, AnsweredGiven
  <2>3. cmd'[t] = Answered(cmd[t], ok) /\ todo'[t] = CmdMessages(cmd'[t])
    BY <1>1, <2>1
  <2> QED
    BY <1>1, <1>2, <2>1, <2>2, <2>3, CmdCarried
<1>7. SameCalls(e) /\ NoneEnds(e)
  BY <1>1, <1>6 DEF SameCalls, NoneEnds, Of
<1>8. StreamMoves(e, x, y, n)
  BY <1>2, StreamsStay DEF OfNoStream, response
<1>9. ExecMoves(e, x, y)
  BY <1>1, <1>6 DEF ExecMoves, Of
<1>10. HeldMoves(p, x, y, n)
  BY <1>6 DEF HeldMoves, Of
<1>11. AnswerMoves(p, x, y, n)
  BY <1>1, <1>2, <1>6 DEF AnswerMoves
<1>12. ReadyMoves(e, x, y)
  BY <1>2 DEF ReadyMoves, response
<1>13. Moves(e, x, y, n)
  BY <1>8, <1>9, <1>10, <1>11, <1>12 DEF Moves, StreamMoves
<1> QED
  BY <1>2, <1>3, <1>4, <1>7, <1>13 DEF Step, Nowhere

(* The call ends: it takes the response, or its command cannot be sent. *)
LEMMA EndStep ==
    ASSUME TypeInv, NEW e \in Ends, OneCall(e), OnePlace(e), NEW t \in Of(e), takeResponse(t) \/ (sendFails(t) /\ pc[t] = "exec")
    PROVE  Step(e)
<1> DEFINE p == Peer(e)
<1>1. /\ p \in Ends /\ p # e /\ t \in Threads /\ EndOf[t] = e /\ pc \in [Threads -> PcLabels] /\ cmd \in [Threads -> Cmds]
      /\ DOMAIN todo = Threads \cup Ends /\ \A b \in Senders(p) : b \in Threads \cup Ends /\ b # t
  BY EndsAre, ThreadsAssumption DEF TypeInv, CallTypes, TodoTypes, Of, Senders
<1>2. /\ pc[t] \in Executing /\ pc' = [pc EXCEPT ![t] = "idle"] /\ cmd' = [cmd EXCEPT ![t] = NoCmd]
      /\ todo' = todo \/ todo' = [todo EXCEPT ![t] = <<>>]
      /\ UNCHANGED <<link, net, rx, response, IncomingCmdQueue>>
  BY <1>1 DEF takeResponse, sendFails, SendFails, Return, Goto, Executing, stored
<1>3. pc'[t] = "idle" /\ \A u \in Threads : u # t => pc'[u] = pc[u] /\ cmd'[u] = cmd[u]
  BY <1>1, <1>2
<1>4. SameCalls(e) /\ ~Busy(e)'
  BY <1>1, <1>2, <1>3 DEF SameCalls, Busy, OneCall, Of, Executing
<1>5. PICK x \in Places(e) : x = <<"ready", e>> \/ x = <<"exec", t>>
  <2>1. CASE takeResponse(t)
    <3>1. CmdResponseReady[e] /\ Busy(e)
      BY <1>1, <1>2, <2>1 DEF takeResponse, Busy
    <3> QED
      BY <3>1, PlacesAre
  <2>2. CASE sendFails(t) /\ pc[t] = "exec"
    BY <2>2, PlacesAre
  <2> QED
    BY <2>1, <2>2
<1>6. PICK n \in Nat : AllNumbered(e, n) /\ \A u \in Of(e) : pc[u] \in Executing => cmd[u].id = n
  BY <1>5, PlaceNumber
<1>7. StreamMoves(e, x, Nowhere, n)
  BY <1>2, <1>5, StreamsStay DEF OfNoStream, response
<1>8. ExecMoves(e, x, Nowhere)
  <2>1. ASSUME NEW u \in Of(e), pc'[u] = "exec" PROVE FALSE
    BY <1>4, <2>1 DEF Busy, Executing
  <2> QED
    BY <2>1 DEF ExecMoves
<1>9. HeldMoves(p, x, Nowhere, n)
  BY <1>1, <1>3, <1>5 DEF HeldMoves, Of
<1>10. AnswerMoves(p, x, Nowhere, n)
  <2>1. \A b \in Senders(p) : x # <<"answer", b>> /\ todo'[b] = todo[b]
    BY <1>1, <1>2, <1>5
  <2> QED
    BY <1>2, <2>1 DEF AnswerMoves
<1>11. ReadyMoves(e, x, Nowhere)
  BY <1>4 DEF ReadyMoves
<1>12. Moves(e, x, Nowhere, n)
  BY <1>7, <1>8, <1>9, <1>10, <1>11 DEF Moves, StreamMoves
<1> QED
  BY <1>4, <1>5, <1>6, <1>12 DEF Step, Nowhere

(* Any step of a thread, but for the beginning and the timeout of a call of e itself. *)
LEMMA ThreadStep ==
    ASSUME TypeInv, PreparedInv, NEW t \in Threads, Call(t) \/ Continue(t) \/ SpuriousWakeup(t),
           NEW e \in Ends, OneCall(e), OnePlace(e), EndOf[t] = e => ~execCmd(t) /\ ~execTimeout(t)
    PROVE  Step(e)
<1>1. /\ pc \in [Threads -> PcLabels] /\ cmd \in [Threads -> Cmds] /\ calls \in Nat /\ Peer(e) \in Ends /\ Peer(e) # e
      /\ DOMAIN IncomingCmdQueue = Ends /\ DOMAIN CmdResponseReady = Ends /\ EndOf[t] \in Ends /\ (EndOf[t] = e \/ EndOf[t] = Peer(e))
  BY EndsAre DEF TypeInv, CallTypes, StoredTypes, ResponseTypes
<1>2. CASE waitCmd(t) \/ recvData(t) \/ sleepForResponse(t) \/ sleepForCmd(t) \/ waitTimeout(t) \/ readNothing(t) \/ readData(t)
            \/ SpuriousWakeup(t)
  <2>1. PICK l : /\ pc' = [pc EXCEPT ![t] = l] /\ l \notin {"exec", "holding"} /\ (l \in Executing <=> pc[t] \in Executing)
                 /\ cmd' = cmd \/ (pc[t] \notin Executing /\ \E c : cmd' = [cmd EXCEPT ![t] = c])
    <3> DEFINE Goes(l) == /\ pc' = [pc EXCEPT ![t] = l] /\ l \notin {"exec", "holding"} /\ (l \in Executing <=> pc[t] \in Executing)
                          /\ cmd' = cmd \/ (pc[t] \notin Executing /\ \E c : cmd' = [cmd EXCEPT ![t] = c])
    <3>1. CASE sleepForResponse(t) \/ sleepForCmd(t) \/ SpuriousWakeup(t)
      <4>1. \E l : Goes(l)
        BY <3>1 DEF sleepForResponse, sleepForCmd, SpuriousWakeup, Goto, Executing, local
      <4> QED
        BY <4>1
    <3>2. CASE waitCmd(t)
      <4>1. Goes("poll")
        BY <3>2 DEF waitCmd, Begin, Goto, Executing
      <4> QED
        BY <4>1
    <3>3. CASE recvData(t) \/ readNothing(t) \/ readData(t) \/ waitTimeout(t)
      <4>1. pc[t] \notin Executing
        BY <3>3 DEF recvData, readNothing, readData, waitTimeout, Begin, Executing
      <4>2. (\E code : Return(t, code)) \/ \E l \in {"read", "asleepDat"} : Goto(t, l) /\ cmd' = cmd
        BY <3>3 DEF recvData, readNothing, readData, waitTimeout
      <4>3. (\E code : Return(t, code)) => Goes("idle")
        BY <4>1 DEF Return, Goto, Executing
      <4>4. \A l \in {"read", "asleepDat"} : Goto(t, l) /\ cmd' = cmd => Goes(l)
        BY <4>1 DEF Goto, Executing
      <4> QED
        BY <4>2, <4>3, <4>4
    <3> QED
      BY <1>2, <3>1, <3>2, <3>3
  <2>2. UNCHANGED <<link, net, rx, CmdResponse, CmdResponseReady, IncomingCmdQueue, todo>>
    BY <1>2 DEF waitCmd, recvData, sleepForResponse, sleepForCmd, waitTimeout, readNothing, readData, SpuriousWakeup, response, stored
  <2> QED
    BY <2>1, <2>2, ThreadStays
<1>3. CASE sendData(t) \/ subEvt(t) \/ unsubEvt(t) \/ postEvt(t)
  <2>1. PICK l : /\ pc' = [pc EXCEPT ![t] = l] /\ l \in {"send", "idle"} /\ pc[t] = "idle"
                 /\ cmd' = cmd \/ \E c : cmd' = [cmd EXCEPT ![t] = c]
    BY <1>3 DEF sendData, subEvt, unsubEvt, postEvt, Begin, Return, Goto
  <2>2. todo' = todo \/ \E type \in {"DATA", "SUBSCRIBE", "UNSUBSCRIBE", "EVENT"} : \E ids : todo' = [todo EXCEPT ![t] = <<Message(type, ids)>>]
    BY <1>3 DEF sendData, subEvt, unsubEvt, postEvt, StartSend
  <2>3. \A type \in {"DATA", "SUBSCRIBE", "UNSUBSCRIBE", "EVENT"} : \A ids : Message(type, ids).type # "COMMAND"
    BY DEF Message
  <2>4. todo' = todo \/ \E s : todo' = [todo EXCEPT ![t] = s] /\ Carried(s, FALSE) = {}
    BY <2>2, <2>3, OtherCarried
  <2>5. UNCHANGED <<link, net, rx, CmdResponse, CmdResponseReady, IncomingCmdQueue>>
    BY <1>3 DEF sendData, subEvt, unsubEvt, postEvt, response, stored
  <2>6. l \notin Executing /\ pc[t] \notin Executing /\ l # "exec" /\ l # "holding"
    BY <2>1 DEF Executing
  <2> QED
    BY <2>1, <2>4, <2>5, <2>6, ThreadStays
<1>4. CASE execCmd(t)
  <2>1. EndOf[t] = Peer(e)
    BY <1>1, <1>4
  <2>2. \E payload \in BOOLEAN : LET c == [id |-> NewId, status |-> "PENDING", payload |-> payload]
                                 IN  cmd' = [cmd EXCEPT ![t] = c] /\ todo' = [todo EXCEPT ![t] = CmdMessages(c)]
    BY <1>4 DEF execCmd, StartSend
  <2>3. PICK payload \in BOOLEAN :
            LET c == [id |-> NewId, status |-> "PENDING", payload |-> payload]
            IN  cmd' = [cmd EXCEPT ![t] = c] /\ todo' = [todo EXCEPT ![t] = CmdMessages(c)]
    BY <2>2
  <2> DEFINE c == [id |-> NewId, status |-> "PENDING", payload |-> payload]
  <2>4. c \in Given /\ IsRequest(c) /\ cmd' = [cmd EXCEPT ![t] = c] /\ todo' = [todo EXCEPT ![t] = CmdMessages(c)]
    BY <1>1, <2>3, NewCmdGiven DEF IsRequest
  <2> HIDE DEF c
  <2>5. Carried(CmdMessages(c), FALSE) = {}
    BY <2>4, CmdCarried
  <2>6. UNCHANGED <<link, net, rx, CmdResponse, IncomingCmdQueue>> /\ pc' = [pc EXCEPT ![t] = "exec"]
        /\ CmdResponseReady' = [CmdResponseReady EXCEPT ![EndOf[t]] = FALSE]
    BY <1>4 DEF execCmd, ClearResponse, Goto, stored
  <2>7. CmdResponseReady'[e] = CmdResponseReady[e]
    BY <1>1, <2>1, <2>6
  <2> QED
    BY <1>1, <2>1, <2>4, <2>5, <2>6, <2>7, ThreadStays
<1>5. CASE takeResponse(t) \/ execTimeout(t) \/ sendFails(t)
  <2>1. CASE EndOf[t] = e /\ (takeResponse(t) \/ (sendFails(t) /\ pc[t] = "exec"))
    BY <2>1, EndStep DEF Of
  <2>2. CASE ~(EndOf[t] = e /\ (takeResponse(t) \/ (sendFails(t) /\ pc[t] = "exec")))
    <3>1. EndOf[t] = e => pc[t] \notin Executing
      BY <1>5, <2>2 DEF sendFails, Executing
    <3>2. pc' = [pc EXCEPT ![t] = "idle"] /\ cmd' = [cmd EXCEPT ![t] = NoCmd]
      BY <1>5 DEF takeResponse, execTimeout, sendFails, Return, Goto
    <3>3. todo' = todo \/ (todo' = [todo EXCEPT ![t] = <<>>] /\ Carried(<<>>, FALSE) = {})
      BY <1>5, NothingCarried DEF takeResponse, execTimeout, sendFails, SendFails
    <3>4. UNCHANGED <<link, net, rx, CmdResponse, CmdResponseReady, IncomingCmdQueue>>
      BY <1>5 DEF takeResponse, execTimeout, sendFails, SendFails, response, stored
    <3>5. "idle" \notin Executing /\ "idle" # "exec" /\ "idle" # "holding"
      BY DEF Executing
    <3> QED
      BY <3>1, <3>2, <3>3, <3>4, <3>5, ThreadStays
  <2> QED
    BY <2>1, <2>2
<1>6. CASE send(t)
  <2>1. /\ Transmit(t, EndOf[t]) /\ t \in Senders(EndOf[t]) /\ UNCHANGED <<link, rx, CmdResponse, CmdResponseReady, IncomingCmdQueue>>
    BY <1>6 DEF send, Senders, Of, response, stored
  <2>2. /\ pc[t] = "exec" => pc' = [pc EXCEPT ![t] = "await"] /\ cmd' = cmd
        /\ pc[t] # "exec" => pc[t] \notin Executing /\ pc' = [pc EXCEPT ![t] = "idle"] /\ cmd' = [cmd EXCEPT ![t] = NoCmd]
    BY <1>6 DEF send, Return, Goto, Executing
  <2>3. /\ \A u \in Threads : u # t => pc'[u] = pc[u] /\ cmd'[u] = cmd[u]
        /\ pc'[t] \in {"await", "idle"} /\ (pc'[t] \in Executing <=> pc[t] \in Executing) /\ (pc[t] \in Executing => cmd'[t] = cmd[t])
    BY <1>1, <2>2 DEF Executing
  <2>4. SameCalls(e) /\ NoneEnds(e)
    BY <2>3 DEF SameCalls, NoneEnds, Of
  <2>5. \A u \in Threads : /\ pc'[u] = "exec" => pc[u] = "exec" /\ u # t
                           /\ pc'[u] = "holding" => pc[u] = "holding" /\ cmd'[u] = cmd[u]
    BY <2>3
  <2> QED
    BY <1>1, <2>1, <2>4, <2>5, SendStep
<1>7. CASE popCmd(t)
  <2>1. CASE EndOf[t] = e
    <3>1. pc' = [pc EXCEPT ![t] = "holding"] /\ pc[t] = "poll" /\ (\E c : cmd' = [cmd EXCEPT ![t] = c])
          /\ UNCHANGED <<link, net, rx, CmdResponse, CmdResponseReady, todo>> /\ \E q : IncomingCmdQueue' = [IncomingCmdQueue EXCEPT ![e] = q]
      BY <1>7, <2>1 DEF popCmd, Goto, response
    <3>2. IncomingCmdQueue'[Peer(e)] = IncomingCmdQueue[Peer(e)]
      BY <1>1, <3>1
    <3>3. "holding" \notin Executing /\ "poll" \notin Executing /\ "holding" # "exec"
      BY DEF Executing
    <3> QED
      BY <1>1, <2>1, <3>1, <3>2, <3>3, ThreadStays
  <2>2. CASE EndOf[t] # e
    BY <1>1, <1>7, <2>2, PopStep DEF Of
  <2> QED
    BY <2>1, <2>2
<1>8. CASE ackCmd(t)
  <2>1. CASE EndOf[t] = e
    <3>1. pc' = [pc EXCEPT ![t] = "ack"] /\ pc[t] = "holding" /\ (\E c : cmd' = [cmd EXCEPT ![t] = c])
          /\ (\E s : todo' = [todo EXCEPT ![t] = s]) /\ UNCHANGED <<link, net, rx, CmdResponse, CmdResponseReady, IncomingCmdQueue>>
      BY <1>8 DEF ackCmd, Goto, StartSend, response, stored
    <3>2. "holding" \notin Executing /\ "ack" \notin Executing /\ "ack" # "exec" /\ "ack" # "holding"
      BY DEF Executing
    <3> QED
      BY <2>1, <3>1, <3>2, ThreadStays
  <2>2. CASE EndOf[t] # e
    BY <1>1, <1>8, <2>2, AckStep DEF Of
  <2> QED
    BY <2>1, <2>2
<1> QED
  BY <1>2, <1>3, <1>4, <1>5, <1>6, <1>7, <1>8 DEF Call, Continue

-----------------------------------------------------------------------------
(* The calls go on when a receiver takes a step or an end closes. *)
OfNoCall(x) == \A u \in Threads : x # <<"exec", u>> /\ x # <<"held", u>>

LEMMA CallsStay ==
    ASSUME TypeInv, NEW f \in Ends, Receiver(f) \/ closeLink(f) \/ joinReceiver(f), NEW e \in Ends
    PROVE  /\ SameCalls(e) /\ NoneEnds(e)
           /\ \A x, y, n : OfNoCall(x) => ExecMoves(e, x, y) /\ HeldMoves(Peer(e), x, y, n)
           /\ \A u \in Threads : /\ pc'[u] = "exec" => pc[u] = "exec"
                                 /\ pc'[u] = "holding" => pc[u] = "holding" /\ cmd'[u] = cmd[u]
<1>1. /\ UNCHANGED cmd
      /\ \/ UNCHANGED pc
         \/ Signal(f, "asleepDat", "read") \/ Signal(f, "asleepResp", "await") \/ Signal(f, "asleepCmd", "poll")
  BY DEF Receiver, receiveSubscribe, receiveEvent, callbackEvent, receiveData, receiveCmd, receivePayload, receiveFails,
     payloadFails, callbackCmd, respond, queueCmd, reportResponse, stopReceiver, closeLink, joinReceiver, local
<1>2. \/ pc' = pc
      \/ \E v \in Threads : \/ pc' = [pc EXCEPT ![v] = "read"] /\ pc[v] = "asleepDat"
                            \/ pc' = [pc EXCEPT ![v] = "await"] /\ pc[v] = "asleepResp"
                            \/ pc' = [pc EXCEPT ![v] = "poll"] /\ pc[v] = "asleepCmd"
  BY <1>1 DEF Signal, Goto, Of
<1>3. ASSUME NEW u \in Threads
      PROVE  /\ pc'[u] = "exec" => pc[u] = "exec"
             /\ pc'[u] = "holding" => pc[u] = "holding"
             /\ pc'[u] \in Executing <=> pc[u] \in Executing
  BY <1>2 DEF TypeInv, CallTypes, Executing
<1> QED
  BY <1>1, <1>3 DEF SameCalls, NoneEnds, ExecMoves, HeldMoves, OfNoCall, Of

(* A receiver's step that does not move the command. *)
ReadStays(p) ==
    rx'[p].at \in {"inPayload", "request"} => rx[p].at \in {"inPayload", "request"} /\ rx'[p].msg.ids = rx[p].msg.ids
ReportStays(e) ==
    rx'[e].at \in {"outPayload", "response"} => rx[e].at \in {"outPayload", "response"} /\ CmdResponse'[e].id = CmdResponse[e].id
LinkStays(p) == link'[p] = "open" => link[p] = "open" /\ \A a \in Senders(p) : todo'[a] = todo[a]

LEMMA ReceiverStays ==
    ASSUME TypeInv, NEW f \in Ends, Receiver(f) \/ closeLink(f) \/ joinReceiver(f), NEW e \in Ends, OneCall(e),
           Less(net[Peer(e)], net'[Peer(e)], TRUE), Less(net[e], net'[e], FALSE), ReadStays(Peer(e)), ReportStays(e),
           LinkStays(Peer(e)), IncomingCmdQueue'[Peer(e)] = IncomingCmdQueue[Peer(e)],
           CmdResponseReady'[e] => CmdResponseReady[e]
    PROVE  Step(e)
<1>1. ASSUME NEW n \in Nat PROVE Moves(e, Nowhere, Nowhere, n)
  <2>1. ExecMoves(e, Nowhere, Nowhere) /\ HeldMoves(Peer(e), Nowhere, Nowhere, n)
    BY CallsStay DEF OfNoCall, Nowhere
  <2>2. NetMoves("request", Peer(e), TRUE, Nowhere, Nowhere, n) /\ NetMoves("response", e, FALSE, Nowhere, Nowhere, n)
    BY DEF NetMoves, Nowhere
  <2>3. ReadMoves(Peer(e), Nowhere, Nowhere, n) /\ ReportMoves(e, Nowhere, Nowhere, n)
    BY DEF ReadMoves, ReportMoves, ReadStays, ReportStays, Nowhere
  <2>4. QueueMoves(Peer(e), Nowhere, Nowhere, n) /\ AnswerMoves(Peer(e), Nowhere, Nowhere, n) /\ ReadyMoves(e, Nowhere, Nowhere)
    BY DEF QueueMoves, AnswerMoves, ReadyMoves, LinkStays, Nowhere
  <2> QED
    BY <2>1, <2>2, <2>3, <2>4 DEF Moves
<1> QED
  BY <1>1, CallsStay, StayStep

(* The command moves. *)
LEMMA ReceiverMoves ==
    ASSUME TypeInv, NEW f \in Ends, Receiver(f) \/ closeLink(f) \/ joinReceiver(f), NEW e \in Ends, OneCall(e), OnePlace(e),
           NEW x \in Places(e), NEW y, NEW n \in Nat, \A t \in Of(e) : pc[t] \in Executing => cmd[t].id = n,
           OfNoCall(x),
           NetMoves("request", Peer(e), TRUE, x, y, n), ReadMoves(Peer(e), x, y, n), QueueMoves(Peer(e), x, y, n),
           AnswerMoves(Peer(e), x, y, n), NetMoves("response", e, FALSE, x, y, n), ReportMoves(e, x, y, n), ReadyMoves(e, x, y)
    PROVE  Step(e)
<1>1. SameCalls(e) /\ NoneEnds(e) /\ ExecMoves(e, x, y) /\ HeldMoves(Peer(e), x, y, n)
  BY CallsStay
<1>2. Moves(e, x, y, n)
  BY <1>1 DEF Moves
<1> QED
  BY <1>1, <1>2 DEF Step

(* Where the receivers are after the step of one. *)
LEMMA AtPoint ==
    ASSUME TypeInv, NEW f \in Ends, NEW label, NEW msg, At(f, label, msg)
    PROVE  rx'[f].at = label /\ rx'[f].msg = msg /\ \A g \in Ends : g # f => rx'[g] = rx[g]
  BY DEF At, TypeInv, RxTypes

(* A message is taken from a stream, or what is left of the stream is given up. *)
LEMMA NetLess ==
    ASSUME TypeInv, NEW f \in Ends,
           \/ net' = net
           \/ net[f] # <<>> /\ net' = [net EXCEPT ![f] = Tail(@)]
           \/ net' = [net EXCEPT ![f] = <<>>]
    PROVE  \A g \in Ends : \A request \in BOOLEAN : Less(net[g], net'[g], request)
<1>1. net \in [Ends -> Seq(Made)]
  BY DEF TypeInv, LinkTypes
<1>2. SUFFICES ASSUME NEW g \in Ends, NEW request \in BOOLEAN PROVE Less(net[g], net'[g], request)
  OBVIOUS
<1>3. CASE net'[g] = net[g]
  BY <1>3, LessSame
<1>4. CASE net[g] # <<>> /\ net'[g] = Tail(net[g])
  BY <1>1, <1>4, RestCarried
<1>5. CASE net'[g] = <<>>
  BY <1>5, NothingCarried, NoneCarried DEF Less
<1> QED
  BY <1>1, <1>3, <1>4, <1>5

(* The steps in which a receiver takes something that is no command, and what it does on its own. *)
LEMMA PlainStep ==
    ASSUME TypeInv, NEW f \in Ends, NEW e \in Ends, OneCall(e),
           \/ receiveSubscribe(f) \/ receiveEvent(f) \/ callbackEvent(f) \/ receiveData(f) \/ stopReceiver(f) \/ joinReceiver(f)
           \/ receivePayload(f) \/ payloadFails(f)
           \/ receiveFails(f) /\ f # e
    PROVE  Step(e)
<1>1. Receiver(f) \/ closeLink(f) \/ joinReceiver(f)
  BY DEF Receiver
<1>2. /\ net' = net \/ (net[f] # <<>> /\ net' = [net EXCEPT ![f] = Tail(@)]) \/ net' = [net EXCEPT ![f] = <<>>]
      /\ UNCHANGED <<IncomingCmdQueue, todo>>
  BY DEF receiveSubscribe, receiveEvent, callbackEvent, receiveData, stopReceiver, joinReceiver, receivePayload, payloadFails,
     receiveFails, Arrives, stored
<1>3. \A g \in Ends : \A request \in BOOLEAN : Less(net[g], net'[g], request)
  BY <1>2, NetLess
<1>4. \A g \in Ends : link'[g] = "open" => link[g] = "open"
  <2>1. link' = link \/ link' = [link EXCEPT ![f] = "closed"]
    BY DEF receiveSubscribe, receiveEvent, callbackEvent, receiveData, stopReceiver, joinReceiver, receivePayload, payloadFails, receiveFails
  <2> QED
    BY <2>1 DEF TypeInv, LinkTypes
<1>5. CmdResponseReady'[e] => CmdResponseReady[e]
  <2>1. CmdResponseReady' = CmdResponseReady \/ (f # e /\ CmdResponseReady' = [CmdResponseReady EXCEPT ![f] = TRUE])
    BY DEF receiveSubscribe, receiveEvent, callbackEvent, receiveData, stopReceiver, joinReceiver, receivePayload, payloadFails,
       receiveFails, response
  <2> QED
    BY <2>1 DEF TypeInv, ResponseTypes
<1>6. \A g \in Ends : CmdResponse'[g].id = CmdResponse[g].id
  <2>1. CmdResponse' = CmdResponse \/ CmdResponse' = [CmdResponse EXCEPT ![f].payload = TRUE]
    BY DEF receiveSubscribe, receiveEvent, callbackEvent, receiveData, stopReceiver, joinReceiver, receivePayload, payloadFails,
       receiveFails, response
  <2> QED
    BY <2>1 DEF TypeInv, ResponseTypes, Cmds
<1>7. ASSUME NEW g \in Ends PROVE ReadStays(g) /\ ReportStays(g)
  <2>1. rx' = rx \/ (\E label \in {"callback", "header", "exited"} : \E msg : At(f, label, msg))
        \/ \E label \in {"request", "response"} :
               /\ label = "request" => rx[f].at = "inPayload"
               /\ label = "response" => rx[f].at = "outPayload"
               /\ At(f, label, rx[f].msg) \/ At(f, label, [rx[f].msg EXCEPT !.payload = FALSE])
    BY DEF receiveSubscribe, receiveEvent, callbackEvent, receiveData, stopReceiver, joinReceiver, receivePayload, payloadFails, receiveFails
  <2>2. CASE rx' = rx \/ \E label \in {"callback", "header", "exited"} : \E msg : At(f, label, msg)
    <3>1. rx'[g] = rx[g] \/ rx'[g].at \in {"callback", "header", "exited"}
      BY <2>2, AtPoint
    <3> QED
      BY <1>6, <3>1 DEF ReadStays, ReportStays
  <2>3. CASE \E label \in {"request", "response"} :
               /\ label = "request" => rx[f].at = "inPayload"
               /\ label = "response" => rx[f].at = "outPayload"
               /\ At(f, label, rx[f].msg) \/ At(f, label, [rx[f].msg EXCEPT !.payload = FALSE])
    <3>1. PICK label \in {"request", "response"} :
               /\ label = "request" => rx[f].at = "inPayload"
               /\ label = "response" => rx[f].at = "outPayload"
               /\ At(f, label, rx[f].msg) \/ At(f, label, [rx[f].msg EXCEPT !.payload = FALSE])
      BY <2>3
    <3>2. rx[f].msg \in Messages
      BY DEF TypeInv, RxTypes, Made
    <3>3. [rx[f].msg EXCEPT !.payload = FALSE].ids = rx[f].msg.ids
      BY <3>2 DEF Messages
    <3>4. PICK msg : At(f, label, msg) /\ msg.ids = rx[f].msg.ids
      BY <3>1, <3>3
    <3>5. rx'[f].at = label /\ rx'[f].msg.ids = rx[f].msg.ids /\ \A h \in Ends : h # f => rx'[h] = rx[h]
      BY <3>4, AtPoint
    <3> QED
      BY <1>6, <3>1, <3>5 DEF ReadStays, ReportStays
  <2> QED
    BY <2>1, <2>2, <2>3
<1>8. Peer(e) \in Ends
  BY EndsAre
<1> QED
  BY <1>1, <1>2, <1>3, <1>4, <1>5, <1>7, <1>8, ReceiverStays DEF LinkStays

(* A command arrives: a request at the other end, or a response. *)
LEMMA ReceiveStep ==
    ASSUME TypeInv, NEW f \in Ends, NEW e \in Ends, OneCall(e), OnePlace(e), receiveCmd(f)
    PROVE  Step(e)
<1> DEFINE p == Peer(e)
           msg == Head(net[f])
<1>1. /\ p \in Ends /\ p # e /\ (f = e \/ f = p) /\ net \in [Ends -> Seq(Made)] /\ Receiver(f)
  BY EndsAre DEF TypeInv, LinkTypes, Receiver
<1>2. /\ net[f] # <<>> /\ net' = [net EXCEPT ![f] = Tail(@)] /\ rx[f].at = "header" /\ msg.type = "COMMAND"
      /\ UNCHANGED <<link, CmdResponseReady, IncomingCmdQueue, todo>>
  BY DEF receiveCmd, Arrives, stored
<1>3. net[f] \in Seq(Made) /\ net'[f] = Tail(net[f]) /\ \A g \in Ends : g # f => net'[g] = net[g]
  BY <1>1, <1>2
<1>4. \A g \in Ends : \A request \in BOOLEAN : Less(net[g], net'[g], request)
  BY <1>2, NetLess
<1>5. LinkStays(p)
  BY <1>2 DEF LinkStays
<1>6. CASE IsRequest(CmdOf(msg))
  <2>1. (\E label \in {"inPayload", "request"} : At(f, label, msg)) /\ CmdResponse' = CmdResponse /\ msg.status = "PENDING"
    BY <1>6 DEF receiveCmd, IsRequest, CmdOf
  <2>2. rx'[f].at \in {"inPayload", "request"} /\ rx'[f].msg = msg /\ \A g \in Ends : g # f => rx'[g] = rx[g]
    BY <2>1, AtPoint
  <2>3. ReportStays(e)
    BY <2>1, <2>2 DEF ReportStays
  <2>4. CASE f = e
    <3>1. ReadStays(p)
      BY <1>1, <2>2, <2>4 DEF ReadStays
    <3> QED
      BY <1>1, <1>2, <1>4, <1>5, <2>3, <3>1, ReceiverStays
  <2>5. CASE f = p
    <3> DEFINE x == <<"request", p>>
               y == <<"read", p>>
    <3>1. /\ Carried(net[p], TRUE) # {} /\ (One(net[p], TRUE) => Carried(net'[p], TRUE) = {})
          /\ \A n : Numbered(net[p], TRUE, n) => msg.ids[1] = n
      BY <1>2, <1>3, <2>1, <2>5, RestCarried
    <3>2. x \in Places(e)
      BY <3>1, PlacesAre
    <3>3. PICK n \in Nat : AllNumbered(e, n) /\ \A t \in Of(e) : pc[t] \in Executing => cmd[t].id = n
      BY <3>2, PlaceNumber
    <3>4. NetMoves("request", p, TRUE, x, y, n)
      BY <3>1 DEF OnePlace, NetMoves
    <3>5. ReadMoves(p, x, y, n)
      BY <2>2, <2>5, <3>1, <3>3 DEF ReadMoves, AllNumbered
    <3>6. QueueMoves(p, x, y, n) /\ AnswerMoves(p, x, y, n) /\ ReadyMoves(e, x, y)
      BY <1>2 DEF QueueMoves, AnswerMoves, ReadyMoves
    <3>7. NetMoves("response", e, FALSE, x, y, n)
      BY <1>4 DEF NetMoves
    <3>8. ReportMoves(e, x, y, n)
      BY <2>3 DEF ReportMoves, ReportStays
    <3>9. OfNoCall(x)
      BY DEF OfNoCall
    <3> HIDE DEF x, y
    <3> QED
      BY <1>1, <3>2, <3>3, <3>4, <3>5, <3>6, <3>7, <3>8, <3>9, ReceiverMoves
  <2> QED
    BY <1>1, <2>4, <2>5
<1>7. CASE ~IsRequest(CmdOf(msg))
  <2>1. (\E label \in {"outPayload", "response"} : At(f, label, msg)) /\ msg.status # "PENDING"
        /\ CmdResponse' = [CmdResponse EXCEPT ![f] = [CmdOf(msg) EXCEPT !.payload = FALSE]]
    BY <1>7 DEF receiveCmd, IsRequest, CmdOf
  <2>2. rx'[f].at \in {"outPayload", "response"} /\ rx'[f].msg = msg /\ \A g \in Ends : g # f => rx'[g] = rx[g]
    BY <2>1, AtPoint
  <2>3. CmdResponse'[f].id = msg.ids[1] /\ \A g \in Ends : g # f => CmdResponse'[g] = CmdResponse[g]
    BY <2>1 DEF CmdOf, TypeInv, ResponseTypes
  <2>4. ReadStays(p)
    BY <1>1, <2>2 DEF ReadStays
  <2>5. CASE f = p
    <3>1. ReportStays(e)
      BY <1>1, <2>2, <2>3, <2>5 DEF ReportStays
    <3> QED
      BY <1>1, <1>2, <1>4, <1>5, <2>4, <3>1, ReceiverStays
  <2>6. CASE f = e
    <3> DEFINE x == <<"response", e>>
               y == <<"report", e>>
    <3>1. /\ Carried(net[e], FALSE) # {} /\ (One(net[e], FALSE) => Carried(net'[e], FALSE) = {})
          /\ \A n : Numbered(net[e], FALSE, n) => msg.ids[1] = n
      BY <1>2, <1>3, <2>1, <2>6, RestCarried
    <3>2. x \in Places(e)
      BY <3>1, PlacesAre
    <3>3. PICK n \in Nat : AllNumbered(e, n) /\ \A t \in Of(e) : pc[t] \in Executing => cmd[t].id = n
      BY <3>2, PlaceNumber
    <3>4. NetMoves("response", e, FALSE, x, y, n)
      BY <3>1 DEF OnePlace, NetMoves
    <3>5. ReportMoves(e, x, y, n)
      BY <2>2, <2>3, <2>6, <3>1, <3>3 DEF ReportMoves, AllNumbered
    <3>6. QueueMoves(p, x, y, n) /\ AnswerMoves(p, x, y, n) /\ ReadyMoves(e, x, y)
      BY <1>2 DEF QueueMoves, AnswerMoves, ReadyMoves
    <3>7. NetMoves("request", p, TRUE, x, y, n)
      BY <1>1, <1>4 DEF NetMoves
    <3>8. ReadMoves(p, x, y, n)
      BY <2>4 DEF ReadMoves, ReadStays
    <3>9. OfNoCall(x)
      BY DEF OfNoCall
    <3> HIDE DEF x, y
    <3> QED
      BY <1>1, <3>2, <3>3, <3>4, <3>5, <3>6, <3>7, <3>8, <3>9, ReceiverMoves
  <2> QED
    BY <1>1, <2>5, <2>6
<1> QED
  BY <1>6, <1>7

(* The receiver has read a request: its callback answers, or it goes into the queue. *)
LEMMA RequestStep ==
    ASSUME TypeInv, NEW f \in Ends, NEW e \in Ends, OneCall(e), OnePlace(e), callbackCmd(f) \/ queueCmd(f)
    PROVE  Step(e)
<1> DEFINE p == Peer(e)
<1>1. /\ p \in Ends /\ p # e /\ (f = e \/ f = p) /\ Receiver(f) /\ e \notin Senders(p)
      /\ \A a \in Senders(p) : a \in Threads \cup Ends
      /\ DOMAIN todo = Threads \cup Ends /\ IncomingCmdQueue \in [Ends -> Seq(Given)]
  BY EndsAre DEF Receiver, Senders, Of, TypeInv, TodoTypes, StoredTypes
<1>2. /\ rx[f].at = "request" /\ (\E label \in {"respond", "header"} : At(f, label, Nothing))
      /\ UNCHANGED <<link, net, response>>
  BY DEF callbackCmd, queueCmd
<1>3. rx'[f].at \in {"respond", "header"} /\ \A g \in Ends : g # f => rx'[g] = rx[g]
  BY <1>2, AtPoint
<1>4. CmdOf(rx[f].msg) \in Given /\ CmdOf(rx[f].msg).id = rx[f].msg.ids[1]
  <2>1. rx[f].msg \in Made /\ rx[f].msg.type = "COMMAND"
    BY <1>2, ReceiverLabels DEF TypeInv, RxTypes
  <2> QED
    BY <2>1, MadeIs DEF CmdOf
<1>5. ReportStays(e)
  BY <1>2, <1>3 DEF ReportStays, response
<1>6. ReadStays(p)
  BY <1>1, <1>3 DEF ReadStays
<1>7. CASE f = e
  <2>1. LinkStays(p)
    <3>1. todo' = todo \/ \E s : todo' = [todo EXCEPT ![e] = s]
      BY <1>7 DEF callbackCmd, queueCmd, StartSend
    <3>2. \A a \in Senders(p) : todo'[a] = todo[a]
      BY <1>1, <3>1
    <3> QED
      BY <1>2, <3>2 DEF LinkStays
  <2>2. IncomingCmdQueue'[p] = IncomingCmdQueue[p]
    <3>1. IncomingCmdQueue' = IncomingCmdQueue \/ \E q : IncomingCmdQueue' = [IncomingCmdQueue EXCEPT ![e] = q]
      BY <1>7 DEF callbackCmd, queueCmd, stored
    <3> QED
      BY <1>1, <3>1
  <2> QED
    BY <1>1, <1>2, <1>5, <1>6, <2>1, <2>2, LessSame, ReceiverStays DEF response
<1>8. CASE f = p
  <2> DEFINE x == <<"read", p>>
  <2>1. x \in Places(e)
    BY <1>2, <1>8, PlacesAre
  <2>2. PICK n \in Nat : AllNumbered(e, n) /\ \A t \in Of(e) : pc[t] \in Executing => cmd[t].id = n
    BY <2>1, PlaceNumber
  <2>3. \A z \in Places(e) : z = x
    BY <2>1, PlaceNumber
  <2>4. CmdOf(rx[p].msg).id = n
    BY <1>2, <1>4, <1>8, <2>2 DEF AllNumbered
  <2>5. OfNoCall(x)
    BY DEF OfNoCall
  <2>6. ASSUME NEW y
        PROVE  /\ NetMoves("request", p, TRUE, x, y, n) /\ NetMoves("response", e, FALSE, x, y, n)
               /\ ReadMoves(p, x, y, n) /\ ReportMoves(e, x, y, n) /\ ReadyMoves(e, x, y)
    <3>1. NetMoves("request", p, TRUE, x, y, n) /\ NetMoves("response", e, FALSE, x, y, n)
      BY <1>2, LessSame DEF NetMoves
    <3>2. ReadMoves(p, x, y, n)
      BY <1>3, <1>8 DEF ReadMoves
    <3>3. ReportMoves(e, x, y, n) /\ ReadyMoves(e, x, y)
      BY <1>2, <1>5 DEF ReportMoves, ReportStays, ReadyMoves, response
    <3> QED
      BY <3>1, <3>2, <3>3
  <2>7. CASE callbackCmd(f)
    <3> DEFINE y == <<"answer", p>>
    <3>1. PICK ok \in BOOLEAN : todo' = [todo EXCEPT ![p] = CmdMessages(Answered(CmdOf(rx[p].msg), ok))]
      BY <1>8, <2>7 DEF callbackCmd, StartSend
    <3>2. Answered(CmdOf(rx[p].msg), ok) \in Given /\ Answered(CmdOf(rx[p].msg), ok).id = n
      BY <1>4, <1>8, <2>4, GivenIs DEF Answered, Given, Cmds
    <3>3. Numbered(todo'[p], FALSE, n) /\ \A a \in Threads \cup Ends : a # p => todo'[a] = todo[a]
      BY <1>1, <3>1, <3>2, CmdCarried
    <3>4. AnswerMoves(p, x, y, n)
      BY <1>1, <1>2, <3>3 DEF AnswerMoves
    <3>5. QueueMoves(p, x, y, n)
      BY <2>7 DEF callbackCmd, stored, QueueMoves
    <3> HIDE DEF x, y
    <3> QED
      BY <1>1, <2>1, <2>2, <2>5, <2>6, <3>4, <3>5, ReceiverMoves
  <2>8. CASE queueCmd(f)
    <3> DEFINE y == <<"queue", p>>
               c == CmdOf(rx[p].msg)
    <3>1. IncomingCmdQueue[p] = <<>>
      BY <2>3, PlacesAre
    <3>2. IncomingCmdQueue' = IncomingCmdQueue \/ IncomingCmdQueue' = [IncomingCmdQueue EXCEPT ![p] = Append(@, c)]
      BY <1>8, <2>8 DEF queueCmd
    <3>3. c \in Given /\ c.id = n
      BY <1>4, <1>8, <2>4
    <3> HIDE DEF c
    <3>4. IncomingCmdQueue'[p] = <<>> \/ IncomingCmdQueue'[p] = Append(<<>>, c)
      BY <1>1, <3>1, <3>2
    <3>5. Len(Append(<<>>, c)) = 1 /\ Append(<<>>, c)[1] = c
      BY <3>3, AppendProperties
    <3>6. QueueMoves(p, x, y, n)
      <4>1. IncomingCmdQueue'[p] = <<>> \/ (Len(IncomingCmdQueue'[p]) = 1 /\ IncomingCmdQueue'[p][1].id = n)
        BY <3>3, <3>4, <3>5
      <4> QED
        BY <4>1, 1 <= 1 DEF QueueMoves
    <3>7. AnswerMoves(p, x, y, n)
      BY <1>2, <2>8 DEF queueCmd, AnswerMoves
    <3> HIDE DEF x, y
    <3> QED
      BY <1>1, <2>1, <2>2, <2>5, <2>6, <3>6, <3>7, ReceiverMoves
  <2> QED
    BY <2>7, <2>8
<1> QED
  BY <1>1, <1>7, <1>8

(* The response is reported to the call. *)
LEMMA ReportStep ==
    ASSUME TypeInv, NEW f \in Ends, NEW e \in Ends, OneCall(e), OnePlace(e), reportResponse(f)
    PROVE  Step(e)
<1> DEFINE p == Peer(e)
<1>1. /\ p \in Ends /\ p # e /\ (f = e \/ f = p) /\ Receiver(f)
  BY EndsAre DEF Receiver
<1>2. /\ rx[f].at = "response" /\ At(f, "header", Nothing) /\ CmdResponseReady' = [CmdResponseReady EXCEPT ![f] = TRUE]
      /\ UNCHANGED <<link, net, CmdResponse, IncomingCmdQueue, todo>>
  BY DEF reportResponse, stored
<1>3. rx'[f].at = "header" /\ \A g \in Ends : g # f => rx'[g] = rx[g]
  BY <1>2, AtPoint
<1>4. ReadStays(p) /\ ReportStays(e)
  BY <1>1, <1>2, <1>3 DEF ReadStays, ReportStays
<1>5. CASE f = p
  <2>1. CmdResponseReady'[e] = CmdResponseReady[e]
    BY <1>1, <1>2, <1>5 DEF TypeInv, ResponseTypes
  <2> QED
    BY <1>1, <1>2, <1>4, <2>1, LessSame, ReceiverStays DEF LinkStays
<1>6. CASE f = e
  <2> DEFINE x == <<"report", e>>
             y == <<"ready", e>>
  <2>1. x \in Places(e)
    BY <1>2, <1>6, PlacesAre
  <2>2. PICK n \in Nat : AllNumbered(e, n) /\ \A t \in Of(e) : pc[t] \in Executing => cmd[t].id = n
    BY <2>1, PlaceNumber
  <2>3. NetMoves("request", p, TRUE, x, y, n) /\ NetMoves("response", e, FALSE, x, y, n)
    BY <1>2, LessSame DEF NetMoves
  <2>4. ReadMoves(p, x, y, n) /\ QueueMoves(p, x, y, n) /\ AnswerMoves(p, x, y, n)
    BY <1>2, <1>4 DEF ReadMoves, ReadStays, QueueMoves, AnswerMoves
  <2>5. ReportMoves(e, x, y, n) /\ ReadyMoves(e, x, y) /\ OfNoCall(x)
    BY <1>3, <1>6 DEF ReportMoves, ReadyMoves, OfNoCall
  <2> HIDE DEF x, y
  <2> QED
    BY <1>1, <2>1, <2>2, <2>3, <2>4, <2>5, ReceiverMoves
<1> QED
  BY <1>1, <1>5, <1>6

(* What an end that closes has sent last, and what its receiver was about to send, may arrive. *)
LEMMA LessMore == \A s, u, v, request : Less(s, u, request) /\ Less(u, v, request) => Less(s, v, request)
  BY DEF Less

LEMMA ClosedLess ==
    ASSUME TypeInv, NEW f \in Ends, closeLink(f), NEW request \in BOOLEAN
    PROVE  /\ Carried(todo[f], request) = {} => Less(net[Peer(f)], net'[Peer(f)], request)
           /\ Carried(net[Peer(f)], request) = {} => Less(todo[f], net'[Peer(f)], request)
<1> DEFINE old == net[Peer(f)]
           u == todo[f]
           sending == old \o u
<1>1. /\ Peer(f) \in Ends /\ Peer(f) # f /\ DOMAIN net = Ends /\ old \in Seq(Made) /\ u \in Seq(Made)
  BY EndsAre DEF TypeInv, LinkTypes, TodoTypes
<1>2. net'[Peer(f)] \in {sending, Cut(sending), old, Cut(old), <<>>}
  <2>1. CASE link[Peer(f)] # "open"
    <3>1. net' = [net EXCEPT ![f] = <<>>]
      BY <2>1 DEF closeLink
    <3> QED
      BY <1>1, <3>1
  <2>2. CASE link[Peer(f)] = "open"
    <3>1. \E s \in {sending, Cut(sending), old, Cut(old), <<>>} : net' = [net EXCEPT ![f] = <<>>, ![Peer(f)] = s]
      BY <2>2 DEF closeLink
    <3> QED
      BY <1>1, <3>1
  <2> QED
    BY <2>1, <2>2
<1>3. Less(sending, Cut(sending), request) /\ Less(old, Cut(old), request)
  <2>1. sending \in Seq(Made)
    BY <1>1, ConcatProperties
  <2> HIDE DEF sending, old
  <2> QED
    BY <1>1, <2>1, CutCarried
<1>4. \A s : Less(s, <<>>, request)
  BY NothingCarried, NoneCarried DEF Less
<1>5. ASSUME Carried(u, request) = {}
      PROVE  Less(old, net'[Peer(f)], request)
  <2>1. Less(old, sending, request) /\ Less(old, old, request)
    BY <1>1, <1>5, ConcatCarried, LessSame
  <2> HIDE DEF old, sending, u
  <2> QED
    BY <1>2, <1>3, <1>4, <2>1, LessMore
<1>6. ASSUME Carried(old, request) = {}
      PROVE  Less(u, net'[Peer(f)], request)
  <2>1. Less(u, sending, request) /\ Less(u, old, request)
    BY <1>1, <1>6, ConcatCarried, NoneCarried DEF Less
  <2> HIDE DEF old, sending, u
  <2> QED
    BY <1>2, <1>3, <1>4, <2>1, LessMore
<1> QED
  BY <1>5, <1>6

LEMMA CloseStep ==
    ASSUME TypeInv, PreparedInv, NEW f \in Ends, NEW e \in Ends, OneCall(e), OnePlace(e), closeLink(f)
    PROVE  Step(e)
<1> DEFINE p == Peer(e)
<1>1. /\ p \in Ends /\ p # e /\ (f = e \/ f = p) /\ Peer(p) = e /\ f \notin Threads /\ f \in Threads \cup Ends /\ f \in Senders(f)
  BY EndsAre, ThreadsAssumption DEF Senders
<1>2. /\ link[f] = "open" /\ link'[f] # "open" /\ \A g \in Ends : g # f => link'[g] = link[g]
      /\ net'[f] = <<>> /\ UNCHANGED <<rx, response, IncomingCmdQueue, todo>>
  <2>1. link' = [link EXCEPT ![f] = "closing"] /\ link[f] = "open" /\ UNCHANGED <<rx, response, IncomingCmdQueue, todo>>
    BY DEF closeLink, stored
  <2>2. net' = [net EXCEPT ![f] = <<>>] \/ \E s : net' = [net EXCEPT ![f] = <<>>, ![Peer(f)] = s]
    BY DEF closeLink
  <2>3. DOMAIN net = Ends /\ DOMAIN link = Ends /\ Peer(f) # f
    BY EndsAre DEF TypeInv, LinkTypes
  <2>4. net'[f] = <<>>
    BY <2>2, <2>3
  <2> QED
    BY <2>1, <2>3, <2>4
<1>3. ReadStays(p) /\ ReportStays(e)
  BY <1>2 DEF ReadStays, ReportStays, response
<1>4. \A s, request : Less(s, <<>>, request)
  BY NothingCarried, NoneCarried DEF Less
<1>5. LinkStays(p)
  BY <1>1, <1>2 DEF LinkStays
<1>6. CASE f = e
  <2>1. Carried(todo[e], TRUE) = {}
    BY <1>1, <1>6 DEF PreparedInv
  <2>2. Less(net[p], net'[p], TRUE) /\ Less(net[e], net'[e], FALSE)
    BY <1>2, <1>4, <1>6, <2>1, ClosedLess
  <2> QED
    BY <1>1, <1>2, <1>3, <1>5, <2>2, ReceiverStays DEF response
<1>7. CASE f = p /\ Carried(todo[p], FALSE) = {}
  <2>1. Less(net[p], net'[p], TRUE) /\ Less(net[e], net'[e], FALSE)
    BY <1>1, <1>2, <1>4, <1>7, ClosedLess
  <2> QED
    BY <1>1, <1>2, <1>3, <1>5, <2>1, ReceiverStays DEF response
<1>8. CASE f = p /\ Carried(todo[p], FALSE) # {}
  <2> DEFINE x == <<"answer", p>>
             y == <<"response", e>>
  <2>1. x \in Places(e)
    BY <1>1, <1>2, <1>8, PlacesAre
  <2>2. PICK n \in Nat : AllNumbered(e, n) /\ \A t \in Of(e) : pc[t] \in Executing => cmd[t].id = n
    BY <2>1, PlaceNumber
  <2>3. \A z \in Places(e) : z = x
    BY <2>1, PlaceNumber
  <2>4. Carried(net[e], FALSE) = {}
    BY <2>3, PlacesAre
  <2>5. NetMoves("response", e, FALSE, x, y, n)
    <3>1. Less(todo[p], net'[e], FALSE)
      BY <1>1, <1>8, <2>4, ClosedLess
    <3>2. One(todo[p], FALSE) /\ Numbered(todo[p], FALSE, n)
      BY <1>1, <1>2, <1>8, <2>2 DEF PreparedInv, AllNumbered
    <3> QED
      BY <3>1, <3>2 DEF NetMoves, Less
  <2>6. NetMoves("request", p, TRUE, x, y, n)
    BY <1>2, <1>8, NothingCarried DEF NetMoves
  <2>7. ReadMoves(p, x, y, n) /\ ReportMoves(e, x, y, n)
    BY <1>2 DEF ReadMoves, ReportMoves, response
  <2>8. QueueMoves(p, x, y, n) /\ AnswerMoves(p, x, y, n) /\ ReadyMoves(e, x, y)
    BY <1>2, <1>8 DEF QueueMoves, AnswerMoves, ReadyMoves, response
  <2>9. OfNoCall(x)
    BY DEF OfNoCall
  <2> HIDE DEF x, y
  <2> QED
    BY <1>1, <2>1, <2>2, <2>5, <2>6, <2>7, <2>8, <2>9, ReceiverMoves
<1> QED
  BY <1>1, <1>6, <1>7, <1>8

(* Any step of a receiver, but for its failure at e itself, and of an end that closes. *)
LEMMA EndsStep ==
    ASSUME TypeInv, PreparedInv, NEW f \in Ends, Receiver(f) \/ closeLink(f) \/ joinReceiver(f),
           NEW e \in Ends, OneCall(e), OnePlace(e), f = e => ~receiveFails(f)
    PROVE  Step(e)
<1>1. CASE respond(f)
  <2>1. /\ Transmit(f, f) \/ SendFails(f, f)
        /\ At(f, "header", Nothing) /\ UNCHANGED <<link, CmdResponse, CmdResponseReady, IncomingCmdQueue>>
    BY <1>1 DEF respond, response, stored
  <2>2. \A g \in Ends : rx'[g].at \in Commanding => rx'[g] = rx[g]
    BY <2>1, AtPoint DEF Commanding
  <2>3. f \in Senders(f) /\ f \notin Threads
    BY ThreadsAssumption DEF Senders
  <2>4. SameCalls(e) /\ NoneEnds(e) /\ \A u \in Threads : /\ pc'[u] = "exec" => pc[u] = "exec" /\ u # f
                                                          /\ pc'[u] = "holding" => pc[u] = "holding" /\ cmd'[u] = cmd[u]
    BY <2>3, CallsStay
  <2> QED
    BY <2>1, <2>2, <2>3, <2>4, SendStep
<1> QED
  BY <1>1, PlainStep, ReceiveStep, RequestStep, ReportStep, CloseStep DEF Receiver

-----------------------------------------------------------------------------
(* A call begins when no other one is in progress: its command is in one place, and nothing else is under way. *)
LEMMA BeginStep ==
    ASSUME TypeInv, NEW t \in Threads, NEW e \in Ends, EndOf[t] = e, execCmd(t), unsure \in [Ends -> BOOLEAN], ~unsure'[e],
           ~unsure[e] /\ rx[e].at # "exited" => OnePlace(e)
    PROVE  /\ ~unsure[e] /\ OneCall(e)' /\ Reported(e)' /\ RecvError'[e] = "SUCCESS"
           /\ rx'[e].at # "exited" => OnePlace(e)'
<1> DEFINE p == Peer(e)
<1>1. /\ p \in Ends /\ p # e /\ t \in Of(e) /\ pc \in [Threads -> PcLabels] /\ cmd \in [Threads -> Cmds]
      /\ DOMAIN todo = Threads \cup Ends /\ \A a \in Senders(p) : a \in Threads \cup Ends /\ a # t
      /\ CmdResponseReady \in [Ends -> BOOLEAN] /\ RecvError \in [Ends -> {"SUCCESS", "LINK_BROKEN", "BUG"}]
      /\ \A u \in Of(p) : u \in Threads /\ u # t
  BY EndsAre, ThreadsAssumption DEF TypeInv, CallTypes, TodoTypes, ResponseTypes, Of, Senders
<1>2. /\ pc' = [pc EXCEPT ![t] = "exec"] /\ (\E c : cmd' = [cmd EXCEPT ![t] = c]) /\ (\E s : todo' = [todo EXCEPT ![t] = s])
      /\ CmdResponseReady' = [CmdResponseReady EXCEPT ![e] = FALSE] /\ RecvError' = [RecvError EXCEPT ![e] = "SUCCESS"]
      /\ UNCHANGED <<link, net, rx, CmdResponse, IncomingCmdQueue>>
  BY DEF execCmd, StartSend, ClearResponse, Goto, stored
<1>3. ~unsure[e] /\ ~Busy(e)
  <2>1. unsure' = [unsure EXCEPT ![e] = @ \/ \E u \in Of(e) : pc[u] \in Executing]
    BY DEF execCmd
  <2> QED
    BY <2>1 DEF Busy
<1>4. pc'[t] = "exec" /\ \A u \in Threads : u # t => pc'[u] = pc[u] /\ cmd'[u] = cmd[u]
  BY <1>1, <1>2
<1>5. \A u \in Of(e) : pc'[u] \in Executing => u = t
  BY <1>3, <1>4 DEF Busy, Of
<1>6. OneCall(e)' /\ Reported(e)' /\ RecvError'[e] = "SUCCESS"
  BY <1>1, <1>2, <1>5 DEF OneCall, Reported
<1>7. ASSUME rx'[e].at # "exited"
      PROVE  OnePlace(e)'
  <2>1. OnePlace(e) /\ Places(e) = {}
    BY <1>2, <1>3, <1>7 DEF OnePlace
  <2>2. /\ Carried(net[p], TRUE) = {} /\ Carried(net[e], FALSE) = {} /\ rx[p].at \notin {"inPayload", "request"}
        /\ IncomingCmdQueue[p] = <<>> /\ rx[e].at \notin {"outPayload", "response"}
        /\ \A u \in Of(p) : pc[u] # "holding"
        /\ \A a \in Senders(p) : link[p] = "open" => Carried(todo[a], FALSE) = {}
    BY <2>1, PlacesAre
  <2>3. /\ \A u \in Of(p) : pc'[u] # "holding"
        /\ \A a \in Senders(p) : link'[p] = "open" => Carried(todo'[a], FALSE) = {}
    BY <1>1, <1>2, <1>4, <2>2
  <2>4. CmdResponseReady'[e] = FALSE
    BY <1>1, <1>2
  <2>5. \A z \in Places(e)' : z = <<"exec", t>>
    <3>1. /\ {x \in {<<"request", p>>} : Carried(net'[p], TRUE) # {}} = {}
          /\ {x \in {<<"read", p>>} : rx'[p].at \in {"inPayload", "request"}} = {}
          /\ {x \in {<<"queue", p>>} : IncomingCmdQueue'[p] # <<>>} = {}
          /\ {x \in {<<"response", e>>} : Carried(net'[e], FALSE) # {}} = {}
          /\ {x \in {<<"report", e>>} : rx'[e].at \in {"outPayload", "response"}} = {}
      BY <1>2, <2>2
    <3>2. /\ {u \in Of(p) : pc'[u] = "holding"} = {}
          /\ {b \in Senders(p) : link'[p] = "open" /\ Carried(todo'[b], FALSE) # {}} = {}
          /\ {x \in {<<"ready", e>>} : CmdResponseReady'[e] /\ Busy(e)'} = {}
      BY <2>3, <2>4
    <3>3. \A z \in Places(e)' : z \in {<<"exec", u>> : u \in {v \in Of(e) : pc'[v] = "exec"}}
      BY <3>1, <3>2 DEF Places
    <3>4. \A u \in Of(e) : pc'[u] = "exec" => u = t
      BY <1>5 DEF Executing
    <3> QED
      BY <3>3, <3>4
  <2>6. Busy(e)'
    BY <1>1, <1>4 DEF Busy, Executing
  <2>7. One(net'[p], TRUE) /\ One(net'[e], FALSE) /\ Len(IncomingCmdQueue'[p]) <= 1
    BY <1>2, <2>1 DEF OnePlace
  <2>8. \A n : AllNumbered(e, n)'
    BY <1>2, <2>2, <2>3, NoneCarried DEF AllNumbered
  <2> QED
    BY <2>5, <2>6, <2>7, <2>8 DEF OnePlace
<1> QED
  BY <1>3, <1>6, <1>7

(* What a step leaves as it is at e. *)
LEMMA NextFlags ==
    ASSUME TypeInv, [Next]_vars, unsure \in [Ends -> BOOLEAN], NEW e \in Ends
    PROVE  /\ unsure' \in [Ends -> BOOLEAN] /\ (unsure[e] => unsure'[e])
           /\ rx[e].at = "exited" => rx'[e].at = "exited"
           /\ \A t \in Threads : execTimeout(t) /\ EndOf[t] = e => unsure'[e]
           /\ RecvError'[e] = RecvError[e] \/ receiveFails(e) \/ \E t \in Threads : execCmd(t) /\ EndOf[t] = e
           /\ \/ (CmdResponseReady'[e] => CmdResponseReady[e]) /\ CmdResponse'[e].id = CmdResponse[e].id
              \/ receiveFails(e) \/ reportResponse(e) \/ receiveCmd(e)
<1>1. /\ RxTypes /\ DOMAIN CmdResponseReady = Ends /\ CmdResponse \in [Ends -> Cmds] /\ DOMAIN RecvError = Ends /\ DOMAIN rx = Ends
      /\ \A t \in Threads : EndOf[t] \in Ends
  BY EndsAre DEF TypeInv, ResponseTypes, RxTypes
<1>2. ASSUME NEW t \in Threads, execCmd(t)
      PROVE  /\ unsure' \in [Ends -> BOOLEAN] /\ (unsure[e] => unsure'[e])
             /\ CmdResponseReady'[e] => CmdResponseReady[e]
             /\ RecvError'[e] = RecvError[e] \/ EndOf[t] = e
             /\ UNCHANGED <<rx, CmdResponse>>
  <2>1. /\ unsure' = [unsure EXCEPT ![EndOf[t]] = @ \/ \E u \in Of(EndOf[t]) : pc[u] \in Executing]
        /\ CmdResponseReady' = [CmdResponseReady EXCEPT ![EndOf[t]] = FALSE]
        /\ RecvError' = [RecvError EXCEPT ![EndOf[t]] = "SUCCESS"] /\ UNCHANGED <<rx, CmdResponse>>
    BY <1>2 DEF execCmd, ClearResponse
  <2> QED
    BY <1>1, <2>1
<1>3. ASSUME NEW t \in Threads, execTimeout(t)
      PROVE  unsure' = [unsure EXCEPT ![EndOf[t]] = TRUE] /\ UNCHANGED <<rx, response>>
  BY <1>3 DEF execTimeout
<1>4. ASSUME NEW t \in Threads, Call(t) \/ Continue(t) \/ SpuriousWakeup(t), ~execCmd(t), ~execTimeout(t)
      PROVE  UNCHANGED <<unsure, rx, response>>
  BY <1>4 DEF Call, Continue, SpuriousWakeup, waitCmd, sendData, recvData, subEvt, unsubEvt, postEvt, send, sendFails,
     takeResponse, sleepForResponse, popCmd, sleepForCmd, waitTimeout, ackCmd, readNothing, readData
<1>5. ASSUME NEW f \in Ends, closeLink(f) \/ joinReceiver(f)
      PROVE  UNCHANGED <<unsure, rx, response>>
  BY <1>5 DEF closeLink, joinReceiver
<1>6. ASSUME NEW f \in Ends, Receiver(f)
      PROVE  /\ unsure' = unsure /\ (rx[e].at = "exited" => rx'[e].at = "exited")
             /\ RecvError'[e] = RecvError[e] \/ receiveFails(e)
             /\ \/ (CmdResponseReady'[e] => CmdResponseReady[e]) /\ CmdResponse'[e].id = CmdResponse[e].id
                \/ receiveFails(e) \/ reportResponse(e) \/ receiveCmd(e)
  <2>1. unsure' = unsure
    BY <1>6 DEF Receiver, receiveSubscribe, receiveEvent, callbackEvent, receiveData, receiveCmd, receivePayload, receiveFails,
       payloadFails, callbackCmd, respond, queueCmd, reportResponse, stopReceiver
  <2>2. rx' = rx \/ (rx[f].at # "exited" /\ \E label, msg : At(f, label, msg))
    BY <1>6 DEF Receiver, receiveSubscribe, receiveEvent, callbackEvent, receiveData, receiveCmd, receivePayload, receiveFails,
       payloadFails, callbackCmd, respond, queueCmd, reportResponse, stopReceiver, Arrives
  <2>3. rx[e].at = "exited" => rx'[e].at = "exited"
    BY <2>2, AtPoint
  <2>4. RecvError' = RecvError \/ (receiveFails(f) /\ \E error : RecvError' = [RecvError EXCEPT ![f] = error])
    BY <1>6 DEF Receiver, receiveSubscribe, receiveEvent, callbackEvent, receiveData, receiveCmd, receivePayload, receiveFails,
       payloadFails, callbackCmd, respond, queueCmd, reportResponse, stopReceiver, response
  <2>5. RecvError'[e] = RecvError[e] \/ receiveFails(e)
    BY <1>1, <2>4
  <2>6. \/ CmdResponseReady' = CmdResponseReady
        \/ (receiveFails(f) \/ reportResponse(f)) /\ CmdResponseReady' = [CmdResponseReady EXCEPT ![f] = TRUE]
    BY <1>6 DEF Receiver, receiveSubscribe, receiveEvent, callbackEvent, receiveData, receiveCmd, receivePayload, receiveFails,
       payloadFails, callbackCmd, respond, queueCmd, reportResponse, stopReceiver, response
  <2>7. \/ CmdResponse' = CmdResponse \/ CmdResponse' = [CmdResponse EXCEPT ![f].payload = TRUE]
        \/ receiveCmd(f) /\ \E c : CmdResponse' = [CmdResponse EXCEPT ![f] = c]
    BY <1>6 DEF Receiver, receiveSubscribe, receiveEvent, callbackEvent, receiveData, receiveCmd, receivePayload, receiveFails,
       payloadFails, callbackCmd, respond, queueCmd, reportResponse, stopReceiver, response
  <2>8. (CmdResponseReady'[e] => CmdResponseReady[e]) \/ receiveFails(e) \/ reportResponse(e)
    BY <1>1, <2>6
  <2>9. CmdResponse'[e].id = CmdResponse[e].id \/ receiveCmd(e)
    BY <1>1, <2>7 DEF Cmds
  <2> QED
    BY <2>1, <2>3, <2>5, <2>8, <2>9
<1>7. ASSUME NEW t \in Threads, execTimeout(t)
      PROVE  unsure' \in [Ends -> BOOLEAN] /\ (unsure[e] => unsure'[e]) /\ (EndOf[t] = e => unsure'[e])
  BY <1>1, <1>3, <1>7
<1>8. UNCHANGED vars => UNCHANGED <<unsure, rx, response>>
  BY DEF vars
<1>9. /\ unsure' \in [Ends -> BOOLEAN] /\ (unsure[e] => unsure'[e])
      /\ rx[e].at = "exited" => rx'[e].at = "exited"
      /\ RecvError'[e] = RecvError[e] \/ receiveFails(e) \/ \E t \in Threads : execCmd(t) /\ EndOf[t] = e
      /\ \/ (CmdResponseReady'[e] => CmdResponseReady[e]) /\ CmdResponse'[e].id = CmdResponse[e].id
         \/ receiveFails(e) \/ reportResponse(e) \/ receiveCmd(e)
  <2>1. CASE UNCHANGED <<unsure, rx, response>>
    BY <2>1 DEF response
  <2>2. CASE \E t \in Threads : execCmd(t)
    BY <1>2, <2>2
  <2>3. CASE \E t \in Threads : execTimeout(t)
    BY <1>3, <1>7, <2>3 DEF response
  <2>4. CASE \E f \in Ends : Receiver(f)
    BY <1>6, <2>4
  <2> QED
    BY <1>4, <1>5, <1>8, <2>1, <2>2, <2>3, <2>4, NextCases
<1>10. \A t \in Threads : execTimeout(t) /\ EndOf[t] = e => unsure'[e]
  BY <1>7
<1> QED
  BY <1>9, <1>10

(* Calls go on with their commands, unless one begins. *)
LEMMA NextSameCalls ==
    ASSUME TypeInv, [Next]_vars, NEW e \in Ends, \A t \in Threads : execCmd(t) => EndOf[t] # e
    PROVE  SameCalls(e)
<1>1. pc \in [Threads -> PcLabels] /\ cmd \in [Threads -> Cmds]
  BY DEF TypeInv, CallTypes
<1>2. CASE UNCHANGED vars
  BY <1>2 DEF vars, local, SameCalls
<1>3. ASSUME NEW t \in Threads, Call(t) \/ Continue(t) \/ SpuriousWakeup(t)
      PROVE  SameCalls(e)
  <2>1. CASE execCmd(t)
    <3>1. EndOf[t] # e /\ pc' = [pc EXCEPT ![t] = "exec"] /\ \E c : cmd' = [cmd EXCEPT ![t] = c]
      BY <2>1 DEF execCmd, Goto
    <3> QED
      BY <1>1, <3>1 DEF SameCalls, Of
  <2>2. CASE send(t) /\ pc[t] = "exec"
    <3>1. pc' = [pc EXCEPT ![t] = "await"] /\ cmd' = cmd
      BY <2>2 DEF send, Goto
    <3> QED
      BY <1>1, <2>2, <3>1 DEF SameCalls, Executing, Of
  <2>3. CASE ~execCmd(t) /\ ~(send(t) /\ pc[t] = "exec")
    <3>1. PICK l : /\ pc' = [pc EXCEPT ![t] = l] /\ (l \in Executing => pc[t] \in Executing /\ cmd' = cmd)
                   /\ cmd' = cmd \/ \E c : cmd' = [cmd EXCEPT ![t] = c]
      BY <1>3, <2>3 DEF Call, Continue, SpuriousWakeup, waitCmd, sendData, recvData, subEvt, unsubEvt, postEvt, send, sendFails,
         takeResponse, sleepForResponse, execTimeout, popCmd, sleepForCmd, waitTimeout, ackCmd, readNothing, readData, Goto, Return,
         Begin, Executing, local
    <3> QED
      BY <1>1, <3>1 DEF SameCalls, Of
  <2> QED
    BY <2>1, <2>2, <2>3
<1>4. ASSUME NEW f \in Ends, Receiver(f) \/ closeLink(f) \/ joinReceiver(f)
      PROVE  SameCalls(e)
  BY <1>4, CallsStay
<1> QED
  BY <1>2, <1>3, <1>4, NextCases

(* A response that is reported is the call's. *)
LEMMA ReportedKept ==
    ASSUME TypeInv, [Next]_vars, CommandInv, NEW e \in Ends, ~unsure'[e], \A t \in Threads : execCmd(t) => EndOf[t] # e
    PROVE  Reported(e)'
<1>1. /\ ~unsure[e] /\ OneCall(e) /\ Reported(e) /\ (rx[e].at # "exited" => OnePlace(e)) /\ SameCalls(e)
      /\ RecvError'[e] = RecvError[e] \/ receiveFails(e)
      /\ \/ (CmdResponseReady'[e] => CmdResponseReady[e]) /\ CmdResponse'[e].id = CmdResponse[e].id
         \/ receiveFails(e) \/ reportResponse(e) \/ receiveCmd(e)
  BY NextFlags, NextSameCalls DEF CommandInv
<1>2. SUFFICES ASSUME CmdResponseReady'[e], RecvError'[e] = "SUCCESS", NEW t \in Of(e), pc'[t] \in Executing
               PROVE  CmdResponse'[e].id = cmd[t].id /\ cmd'[t] = cmd[t]
  BY DEF Reported
<1>3. pc[t] \in Executing /\ cmd'[t] = cmd[t] /\ Busy(e)
  BY <1>1, <1>2 DEF SameCalls, Busy
<1>4. CASE receiveFails(e)
  <2>1. RecvError \in [Ends -> {"SUCCESS", "LINK_BROKEN", "BUG"}]
    BY DEF TypeInv, ResponseTypes
  <2>2. UNCHANGED <<RecvError, CmdResponseReady, CmdResponse>>
    <3>1. Missing(e) = "COMMAND"
      <4>1. ASSUME Missing(e) # "COMMAND" PROVE FALSE
        <5>1. \E error \in {"LINK_BROKEN", "BUG"} : RecvError' = [RecvError EXCEPT ![e] = error]
          BY <1>4, <4>1 DEF receiveFails
        <5> QED
          BY <1>2, <2>1, <5>1
      <4> QED
        BY <4>1
    <3> QED
      BY <1>4, <3>1 DEF receiveFails
  <2> QED
    BY <1>1, <1>2, <1>3, <2>2 DEF Reported
<1>5. CASE reportResponse(e)
  <2>1. rx[e].at = "response" /\ CmdResponse' = CmdResponse
    BY <1>5 DEF reportResponse
  <2>2. AllNumbered(e, cmd[t].id)
    BY <1>1, <1>3, <2>1 DEF OnePlace
  <2> QED
    BY <1>3, <2>1, <2>2 DEF AllNumbered
<1>6. CASE receiveCmd(e) /\ ~IsRequest(CmdOf(Head(net[e])))
  <2>1. net[e] # <<>> /\ Head(net[e]).type = "COMMAND" /\ rx[e].at = "header" /\ CmdResponseReady' = CmdResponseReady
    BY <1>6 DEF receiveCmd, Arrives
  <2>2. Head(net[e]).status # "PENDING" /\ net[e] \in Seq(Made)
    BY <1>6 DEF IsRequest, CmdOf, TypeInv, LinkTypes
  <2>3. Carried(net[e], FALSE) # {}
    BY <2>1, <2>2, RestCarried
  <2>4. <<"response", e>> \in Places(e) /\ <<"ready", e>> \in Places(e)
    BY <1>2, <1>3, <2>1, <2>3, PlacesAre
  <2>5. OnePlace(e) /\ <<"response", e>> # <<"ready", e>>
    BY <1>1, <2>1
  <2> QED
    BY <2>4, <2>5 DEF OnePlace
<1>7. CASE receiveCmd(e) /\ IsRequest(CmdOf(Head(net[e])))
  <2>1. UNCHANGED <<RecvError, CmdResponseReady, CmdResponse>>
    BY <1>7 DEF receiveCmd
  <2> QED
    BY <1>1, <1>2, <1>3, <2>1 DEF Reported
<1>8. CASE (CmdResponseReady'[e] => CmdResponseReady[e]) /\ CmdResponse'[e].id = CmdResponse[e].id /\ ~receiveFails(e)
  BY <1>1, <1>2, <1>3, <1>8 DEF Reported
<1> QED
  BY <1>1, <1>4, <1>5, <1>6, <1>7, <1>8

LEMMA NextCommand ==
    ASSUME TypeInv, PreparedInv, CommandInv, [Next]_vars
    PROVE  CommandInv'
<1>1. unsure \in [Ends -> BOOLEAN]
  BY DEF CommandInv
<1>2. unsure' \in [Ends -> BOOLEAN]
  BY <1>1, NextFlags, EndsAre DEF Ends
<1>3. ASSUME NEW e \in Ends
      PROVE  /\ rx'[e].at # "exited" => RecvError'[e] = "SUCCESS"
             /\ ~unsure'[e] => OneCall(e)' /\ Reported(e)' /\ (rx'[e].at # "exited" => OnePlace(e)')
  <2>1. /\ unsure[e] => unsure'[e]
        /\ rx[e].at = "exited" => rx'[e].at = "exited"
        /\ \A t \in Threads : execTimeout(t) /\ EndOf[t] = e => unsure'[e]
        /\ RecvError'[e] = RecvError[e] \/ receiveFails(e) \/ \E t \in Threads : execCmd(t) /\ EndOf[t] = e
    BY <1>1, NextFlags
  <2>2. /\ rx[e].at # "exited" => RecvError[e] = "SUCCESS"
        /\ ~unsure[e] => OneCall(e) /\ Reported(e) /\ (rx[e].at # "exited" => OnePlace(e))
    BY DEF CommandInv
  <2>3. receiveFails(e) => rx'[e].at = "exited"
    BY AtPoint DEF receiveFails
  <2>4. CASE \E t \in Threads : execCmd(t) /\ EndOf[t] = e
    <3>1. PICK t \in Threads : execCmd(t) /\ EndOf[t] = e
      BY <2>4
    <3>2. rx' = rx /\ RecvError' = [RecvError EXCEPT ![e] = "SUCCESS"] /\ DOMAIN RecvError = Ends
      BY <3>1 DEF execCmd, ClearResponse, TypeInv, ResponseTypes
    <3>3. RecvError'[e] = "SUCCESS"
      BY <3>2
    <3> QED
      BY <1>1, <2>2, <3>1, <3>3, BeginStep
  <2>5. CASE ~\E t \in Threads : execCmd(t) /\ EndOf[t] = e
    <3>1. SUFFICES ASSUME ~unsure'[e]
                   PROVE  OneCall(e)' /\ Reported(e)' /\ (rx'[e].at # "exited" => OnePlace(e)')
      BY <2>1, <2>2, <2>3, <2>5
    <3>2. \A t \in Threads : execCmd(t) => EndOf[t] # e
      BY <2>5
    <3>3. Reported(e)' /\ SameCalls(e)
      BY <3>1, <3>2, ReportedKept, NextSameCalls
    <3>4. OneCall(e)'
      BY <2>1, <2>2, <3>1, <3>3 DEF SameCalls, OneCall
    <3>5. ASSUME rx'[e].at # "exited"
          PROVE  OnePlace(e)'
      <4>1. OneCall(e) /\ OnePlace(e)
        BY <2>1, <2>2, <3>1, <3>5
      <4>2. CASE UNCHANGED vars
        <5>1. /\ Places(e)' = Places(e) /\ Busy(e)' = Busy(e)
          BY <4>2 DEF vars, local, stored, response, Places, Busy
        <5>2. UNCHANGED <<net, pc, cmd, IncomingCmdQueue>> /\ \A n : AllNumbered(e, n)' = AllNumbered(e, n)
          BY <4>2 DEF vars, local, stored, response, AllNumbered
        <5> QED
          BY <4>1, <5>1, <5>2 DEF OnePlace
      <4>3. ASSUME NEW t \in Threads, Call(t) \/ Continue(t) \/ SpuriousWakeup(t)
            PROVE  Step(e)
        BY <2>1, <2>5, <3>1, <4>1, <4>3, ThreadStep
      <4>4. ASSUME NEW f \in Ends, Receiver(f) \/ closeLink(f) \/ joinReceiver(f)
            PROVE  Step(e)
        BY <2>3, <3>5, <4>1, <4>4, EndsStep
      <4>5. Step(e) => OnePlace(e)'
        BY <4>1, StepKeeps
      <4> QED
        BY <4>2, <4>3, <4>4, <4>5, NextCases
    <3> QED
      BY <3>3, <3>4, <3>5
  <2> QED
    BY <2>4, <2>5
<1> QED
  BY <1>2, <1>3 DEF CommandInv

LEMMA InitCommand == Init => PreparedInv /\ CommandInv
<1> SUFFICES ASSUME Init PROVE PreparedInv /\ CommandInv
  OBVIOUS
<1>1. PreparedInv
  BY NothingCarried, NoneCarried DEF Init, PreparedInv
<1>2. CommandInv
  <2>1. /\ unsure \in [Ends -> BOOLEAN] /\ (\A t \in Threads : pc[t] = "idle") /\ \A e \in Ends : ~Busy(e)
        /\ \A e \in Ends : RecvError[e] = "SUCCESS" /\ CmdResponseReady[e] = FALSE
    BY DEF Init, Busy, Executing, Of
  <2>2. ASSUME NEW e \in Ends
        PROVE  OneCall(e) /\ Reported(e) /\ OnePlace(e)
    <3>1. /\ Peer(e) \in Ends /\ net[e] = <<>> /\ net[Peer(e)] = <<>> /\ rx[e].at = "header" /\ rx[Peer(e)].at = "header"
          /\ IncomingCmdQueue[Peer(e)] = <<>> /\ \A a \in Senders(Peer(e)) : todo[a] = <<>>
      BY EndsAre DEF Init, Senders, Of
    <3>2. ASSUME NEW z
          PROVE  z \notin Places(e)
      <4>1. ~Busy(e) /\ (\A t \in Threads : pc[t] = "idle") /\ Carried(<<>>, TRUE) = {} /\ Carried(<<>>, FALSE) = {}
        BY <2>1, NothingCarried
      <4> QED
        BY <2>1, <3>1, <4>1, PlacesAre DEF Of
    <3>3. \A t \in Of(e) : pc[t] \notin Executing
      BY <2>1 DEF Executing, Of
    <3>4. Len(IncomingCmdQueue[Peer(e)]) <= 1
      BY <3>1, EmptySeq, 0 <= 1
    <3> QED
      BY <2>1, <3>1, <3>2, <3>3, <3>4, NothingCarried, NoneCarried DEF OneCall, Reported, OnePlace
  <2> QED
    BY <2>1, <2>2 DEF CommandInv
<1> QED
  BY <1>1, <1>2

(* An execCmd that returns SUCCESS has the response to its own command, for any number of threads, slots and calls,
   as long as no two calls of its end overlapped and none of them timed out. *)
THEOREM ResponseIsOwn == Spec => ResponseBelongs
<1>1. TypeInv /\ CommandInv /\ [Next]_vars
          => [\A t \in Threads : (pc[t] = "await" /\ pc'[t] = "idle" /\ ret'[t] = "SUCCESS" /\ ~unsure[EndOf[t]])
                  => CmdResponse[EndOf[t]].id = cmd[t].id]_vars
  <2>1. SUFFICES ASSUME TypeInv, CommandInv, [Next]_vars, NEW t \in Threads,
                        pc[t] = "await", pc'[t] = "idle", ret'[t] = "SUCCESS", ~unsure[EndOf[t]]
                 PROVE  CmdResponse[EndOf[t]].id = cmd[t].id
    OBVIOUS
  <2>2. pc \in [Threads -> PcLabels] /\ ret \in [Threads -> Results] /\ EndOf[t] \in Ends
    BY <2>1, EndsAre DEF TypeInv, CallTypes
  <2>3. takeResponse(t)
    <3>1. ASSUME NEW u \in Threads, Call(u) \/ Continue(u) \/ SpuriousWakeup(u)
          PROVE  u = t
      <4>1. \E l : pc' = [pc EXCEPT ![u] = l]
        BY <3>1 DEF Call, Continue, SpuriousWakeup, execCmd, waitCmd, sendData, recvData, subEvt, unsubEvt, postEvt, send, sendFails,
           takeResponse, sleepForResponse, execTimeout, popCmd, sleepForCmd, waitTimeout, ackCmd, readNothing, readData, Goto, Return
      <4> QED
        BY <2>1, <2>2, <4>1
    <3>2. ASSUME NEW f \in Ends, Receiver(f) \/ closeLink(f) \/ joinReceiver(f)
          PROVE  FALSE
      <4>1. NoneEnds(EndOf[t]) /\ t \in Of(EndOf[t])
        BY <2>1, <2>2, <3>2, CallsStay DEF Of
      <4> QED
        BY <2>1, <4>1 DEF NoneEnds, Executing
    <3>3. ~UNCHANGED vars
      BY <2>1 DEF vars
    <3>4. Call(t) \/ Continue(t) \/ SpuriousWakeup(t)
      BY <2>1, <3>1, <3>2, <3>3, NextCases
    <3>5. ~sleepForResponse(t) /\ ~SpuriousWakeup(t)
      BY <2>1, <2>2 DEF sleepForResponse, SpuriousWakeup, Goto
    <3> QED
      BY <2>1, <3>4, <3>5 DEF Call, Continue, Begin, execCmd, waitCmd, sendData, recvData, subEvt, unsubEvt, postEvt, send, sendFails,
         execTimeout, popCmd, sleepForCmd, waitTimeout, ackCmd, readNothing, readData
  <2>4. CmdResponseReady[EndOf[t]] /\ RecvError[EndOf[t]] = "SUCCESS"
    <3>1. ret' = [ret EXCEPT ![t] = RecvError[EndOf[t]]] /\ CmdResponseReady[EndOf[t]]
      BY <2>3 DEF takeResponse, Return
    <3> QED
      BY <2>1, <2>2, <3>1
  <2>5. Reported(EndOf[t]) /\ t \in Of(EndOf[t]) /\ pc[t] \in Executing
    BY <2>1, <2>2 DEF CommandInv, Of, Executing
  <2> QED
    BY <2>4, <2>5 DEF Reported
<1>2. Spec => [](TypeInv /\ StreamInv /\ PreparedInv /\ CommandInv)
  BY InitTypeInv, NextTypeInv, InitCommand, NextPrepared, NextCommand, PTL DEF Spec
<1> QED
  BY <1>1, <1>2, PTL DEF Spec, ResponseBelongs

-----------------------------------------------------------------------------
(* A sequence of messages carries the units from r + 1 to n; what has been received is the first r without those dropped. *)
Carries(s, r, n) == InOrder(s) /\ Units(s) = (r + 1) .. n
Holds(b, d, r) == Increasing(b) /\ ToSet(b) = (1 .. r) \ d /\ d \subseteq 1 .. r

LEMMA ToSetIs ==
    ASSUME NEW S, NEW s \in Seq(S)
    PROVE  ToSet(s) = {s[i] : i \in 1 .. Len(s)} /\ ToSet(s) \subseteq S /\ Len(s) \in Nat
<1>1. DOMAIN s = 1 .. Len(s) /\ Len(s) \in Nat /\ \A i \in 1 .. Len(s) : s[i] \in S
  BY LenProperties, ElementOfSeq
<1> QED
  BY <1>1 DEF ToSet

LEMMA IdsAre ==
    ASSUME NEW s \in Seq(Made), NEW i \in 1 .. Len(s)
    PROVE  s[i] \in Made /\ s[i].ids \in Seq(Nat) /\ ToSet(s[i].ids) \subseteq Nat
<1>1. s[i] \in Made
  BY ElementOfSeq
<1>2. s[i].ids \in Seq(Nat)
  BY <1>1, MadeIs
<1> QED
  BY <1>1, <1>2, ToSetIs

(* The units of a stream are those of its first message and those of the rest. *)
LEMMA HeadUnits ==
    ASSUME NEW s \in Seq(Made), s # <<>>, InOrder(s)
    PROVE  /\ Tail(s) \in Seq(Made) /\ Head(s) \in Made /\ InOrder(Tail(s))
           /\ ~IsData(Head(s)) => Units(s) = Units(Tail(s))
           /\ IsData(Head(s)) => /\ Units(s) = ToSet(Head(s).ids) \cup Units(Tail(s))
                                 /\ Increasing(Head(s).ids)
                                 /\ \A u \in ToSet(Head(s).ids), v \in Units(Tail(s)) : u < v
<1>1. /\ Head(s) \in Made /\ Tail(s) \in Seq(Made) /\ Len(Tail(s)) = Len(s) - 1 /\ Len(s) \in Nat \ {0}
      /\ \A i \in 1 .. Len(Tail(s)) : Tail(s)[i] = s[i + 1]
      /\ Head(s) = s[1]
  BY HeadTailProperties, EmptySeq
<1> DEFINE t == Tail(s)
<1>2. \A i \in DataIn(t) : i + 1 \in DataIn(s) /\ t[i] = s[i + 1] /\ i \in Nat
  BY <1>1 DEF DataIn
<1>3. \A i \in DataIn(s) : i = 1 \/ (i - 1 \in DataIn(t) /\ s[i] = t[i - 1] /\ i \in Nat)
  <2>1. SUFFICES ASSUME NEW i \in DataIn(s), i # 1
                 PROVE  i - 1 \in DataIn(t) /\ s[i] = t[i - 1] /\ i \in Nat
    OBVIOUS
  <2>2. i \in 1 .. Len(s) /\ IsData(s[i]) /\ i - 1 \in 1 .. Len(t) /\ (i - 1) + 1 = i
    BY <1>1, <2>1 DEF DataIn
  <2>3. t[i - 1] = s[i]
    BY <1>1, <2>2
  <2> QED
    BY <2>2, <2>3 DEF DataIn
<1>4. IsData(Head(s)) <=> 1 \in DataIn(s)
  BY <1>1 DEF DataIn
<1> HIDE DEF t
<1>5. InOrder(t)
  <2>1. SUFFICES ASSUME NEW i \in DataIn(t), NEW j \in DataIn(t)
                 PROVE  IF i = j THEN Increasing(t[i].ids)
                        ELSE i < j => \A u \in ToSet(t[i].ids), v \in ToSet(t[j].ids) : u < v
    BY DEF InOrder
  <2>2. /\ i + 1 \in DataIn(s) /\ j + 1 \in DataIn(s) /\ t[i] = s[i + 1] /\ t[j] = s[j + 1]
        /\ (i = j <=> i + 1 = j + 1) /\ (i < j <=> i + 1 < j + 1)
    BY <1>2
  <2> QED
    BY <2>2 DEF InOrder
<1>6. \A i \in DataIn(t) : ToSet(t[i].ids) \subseteq Units(s)
  BY <1>2 DEF Units
<1>7. Units(t) \subseteq Units(s)
  BY <1>6 DEF Units
<1>8. ASSUME NEW u \in Units(s) PROVE u \in Units(t) \/ (1 \in DataIn(s) /\ u \in ToSet(s[1].ids))
  <2>1. PICK i \in DataIn(s) : u \in ToSet(s[i].ids)
    BY DEF Units
  <2> QED
    BY <1>3, <2>1 DEF Units
<1>9. ASSUME 1 \in DataIn(s)
      PROVE  /\ ToSet(s[1].ids) \subseteq Units(s) /\ Increasing(s[1].ids)
             /\ \A u \in ToSet(s[1].ids), v \in Units(t) : u < v
  <2>1. ToSet(s[1].ids) \subseteq Units(s) /\ Increasing(s[1].ids)
    BY <1>9 DEF Units, InOrder
  <2>2. ASSUME NEW u \in ToSet(s[1].ids), NEW v \in Units(t) PROVE u < v
    <3>1. PICK j \in DataIn(t) : v \in ToSet(t[j].ids)
      BY DEF Units
    <3>2. j + 1 \in DataIn(s) /\ t[j] = s[j + 1] /\ 1 < j + 1 /\ 1 # j + 1
      BY <1>2, <3>1 DEF DataIn
    <3> QED
      BY <1>9, <3>1, <3>2 DEF InOrder
  <2> QED
    BY <2>1, <2>2
<1>10. ~IsData(Head(s)) => Units(s) = Units(t)
  BY <1>4, <1>7, <1>8
<1>11. IsData(Head(s)) => Units(s) = ToSet(Head(s).ids) \cup Units(t)
  BY <1>1, <1>4, <1>7, <1>8, <1>9
<1> QED
  BY <1>1, <1>4, <1>5, <1>9, <1>10, <1>11 DEF t

(* An initial part of an interval, all of it below the others, is an interval, and so is what comes before the rest. *)
Splits(S, T, r, n) == S \cup T = (r + 1) .. n /\ \A u \in S : \A v \in T : u < v

LEMMA SplitInterval ==
    ASSUME NEW r \in Nat, NEW n \in Nat, r <= n, NEW x \in Seq(Nat), Increasing(x), NEW T, Splits(ToSet(x), T, r, n)
    PROVE  \E m \in r .. n : ToSet(x) = (r + 1) .. m /\ T = (m + 1) .. n
<1> ToSet(x) \cup T = (r + 1) .. n /\ \A u \in ToSet(x) : \A v \in T : u < v
  BY DEF Splits
<1>1. ToSet(x) = {x[i] : i \in 1 .. Len(x)} /\ Len(x) \in Nat /\ \A i \in 1 .. Len(x) : x[i] \in Nat
  BY ToSetIs, ElementOfSeq
<1>2. CASE Len(x) = 0
  <2>1. ToSet(x) = {}
    BY <1>1, <1>2
  <2>2. ToSet(x) = (r + 1) .. r /\ r \in r .. n
    BY <2>1
  <2> QED
    BY <2>1, <2>2
<1>3. CASE Len(x) # 0
  <2> DEFINE m == x[Len(x)]
  <2>1. Len(x) \in 1 .. Len(x) /\ m \in ToSet(x) /\ m \in Nat
    BY <1>1, <1>3
  <2>2. m \in (r + 1) .. n /\ m \in r .. n
    BY <2>1
  <2>3. \A u \in ToSet(x) : u <= m /\ u \in (r + 1) .. n
    <3>1. SUFFICES ASSUME NEW i \in 1 .. Len(x) PROVE x[i] <= m /\ x[i] \in (r + 1) .. n
      BY <1>1
    <3>2. x[i] \in ToSet(x) /\ x[i] \in Nat
      BY <1>1
    <3>3. i = Len(x) \/ i < Len(x)
      BY <1>1
    <3>4. x[i] <= m
      BY <1>1, <2>1, <3>2, <3>3 DEF Increasing
    <3> QED
      BY <3>2, <3>4
  <2>4. \A v \in T : m < v /\ v \in (r + 1) .. n
    BY <2>1
  <2> HIDE DEF m
  <2>5. ToSet(x) = (r + 1) .. m
    <3>1. ASSUME NEW u \in (r + 1) .. m PROVE u \in ToSet(x)
      <4>1. u \in (r + 1) .. n /\ ~(m < u)
        BY <2>2
      <4> QED
        BY <2>4, <4>1
    <3>2. ASSUME NEW u \in ToSet(x) PROVE u \in (r + 1) .. m
      BY <2>2, <2>3
    <3> QED
      BY <3>1, <3>2
  <2>6. T = (m + 1) .. n
    <3>1. ASSUME NEW v \in (m + 1) .. n PROVE v \in T
      <4>1. v \in (r + 1) .. n /\ ~(v <= m)
        BY <2>2
      <4> QED
        BY <2>3, <4>1
    <3>2. ASSUME NEW v \in T PROVE v \in (m + 1) .. n
      BY <2>2, <2>4
    <3> QED
      BY <3>1, <3>2
  <2> QED
    BY <2>2, <2>5, <2>6
<1> QED
  BY <1>1, <1>2, <1>3

LEMMA SplitBefore ==
    ASSUME NEW r \in Nat, NEW n \in Nat, r <= n, NEW x \in Seq(Nat), Increasing(x), NEW T, Splits(T, ToSet(x), r, n)
    PROVE  \E m \in r .. n : T = (r + 1) .. m
<1> T \cup ToSet(x) = (r + 1) .. n /\ \A u \in T : \A v \in ToSet(x) : u < v
  BY DEF Splits
<1>1. ToSet(x) = {x[i] : i \in 1 .. Len(x)} /\ Len(x) \in Nat /\ \A i \in 1 .. Len(x) : x[i] \in Nat
  BY ToSetIs, ElementOfSeq
<1>2. CASE Len(x) = 0
  <2>1. ToSet(x) = {}
    BY <1>1, <1>2
  <2>2. T = (r + 1) .. n /\ n \in r .. n
    BY <2>1
  <2> QED
    BY <2>2
<1>3. CASE Len(x) # 0
  <2> DEFINE m == x[1]
  <2>1. 1 \in 1 .. Len(x) /\ m \in ToSet(x) /\ m \in (r + 1) .. n
    BY <1>1, <1>3
  <2>2. \A v \in ToSet(x) : m <= v
    <3>1. SUFFICES ASSUME NEW i \in 1 .. Len(x) PROVE m <= x[i]
      BY <1>1
    <3>2. i = 1 \/ 1 < i
      OBVIOUS
    <3>3. x[i] \in Nat /\ m \in Nat
      BY <1>1, <2>1
    <3> QED
      BY <2>1, <3>2, <3>3 DEF Increasing
  <2>3. \A u \in T : u < m /\ u \in (r + 1) .. n
    BY <2>1
  <2> HIDE DEF m
  <2>4. ASSUME NEW u \in (r + 1) .. (m - 1) PROVE u \in T
    <3>1. u \in (r + 1) .. n /\ ~(m <= u)
      BY <2>1
    <3> QED
      BY <2>2, <3>1
  <2>5. ASSUME NEW u \in T PROVE u \in (r + 1) .. (m - 1)
    BY <2>1, <2>3
  <2>6. T = (r + 1) .. (m - 1)
    BY <2>4, <2>5
  <2>7. m - 1 \in r .. n
    BY <2>1
  <2> QED
    BY <2>6, <2>7
<1> QED
  BY <1>1, <1>2, <1>3

(* A receiver takes the first message. *)
LEMMA CarriesRest ==
    ASSUME NEW s \in Seq(Made), s # <<>>, NEW r \in Nat, NEW n \in Nat, r <= n, Carries(s, r, n)
    PROVE  /\ ~IsData(Head(s)) => Carries(Tail(s), r, n)
           /\ IsData(Head(s)) => \E m \in r .. n : /\ Increasing(Head(s).ids) /\ ToSet(Head(s).ids) = (r + 1) .. m
                                                   /\ Carries(Tail(s), m, n)
<1>1. InOrder(s) /\ Units(s) = (r + 1) .. n
  BY DEF Carries
<1>2. CASE ~IsData(Head(s))
  BY <1>1, <1>2, HeadUnits DEF Carries
<1>3. CASE IsData(Head(s))
  <2>1. Head(s) \in Made /\ InOrder(Tail(s)) /\ ToSet(Head(s).ids) \cup Units(Tail(s)) = (r + 1) .. n /\ Increasing(Head(s).ids)
        /\ \A u \in ToSet(Head(s).ids), v \in Units(Tail(s)) : u < v
    BY <1>1, <1>3, HeadUnits
  <2>2. Head(s).ids \in Seq(Nat)
    BY <2>1, MadeIs
  <2>3. \E m \in r .. n : ToSet(Head(s).ids) = (r + 1) .. m /\ Units(Tail(s)) = (m + 1) .. n
    <3>1. PICK x, T : x = Head(s).ids /\ T = Units(Tail(s))
      OBVIOUS
    <3>2. x \in Seq(Nat) /\ Increasing(x) /\ ToSet(x) \cup T = (r + 1) .. n /\ \A u \in ToSet(x) : \A v \in T : u < v
      BY <2>1, <2>2, <3>1
    <3>4. Splits(ToSet(x), T, r, n)
      BY <3>2 DEF Splits
    <3> HIDE <3>1
    <3>3. \E m \in r .. n : ToSet(x) = (r + 1) .. m /\ T = (m + 1) .. n
      BY <3>2, <3>4, SplitInterval
    <3> QED
      BY <3>1, <3>3
  <2> QED
    BY <1>3, <2>1, <2>3 DEF Carries
<1> QED
  BY <1>2, <1>3

(* A sender adds messages that go on where the stream ends. *)
LEMMA CarriesMore ==
    ASSUME NEW s \in Seq(Made), NEW u \in Seq(Made), NEW r \in Nat, NEW m \in Nat, NEW n \in Nat, r <= m, m <= n,
           Carries(s, r, m), Carries(u, m, n)
    PROVE  s \o u \in Seq(Made) /\ Carries(s \o u, r, n)
<1>1. /\ s \o u \in Seq(Made) /\ Len(s \o u) = Len(s) + Len(u) /\ Len(s) \in Nat /\ Len(u) \in Nat
      /\ \A i \in 1 .. Len(s) + Len(u) : (s \o u)[i] = IF i <= Len(s) THEN s[i] ELSE u[i - Len(s)]
  BY ConcatProperties, LenProperties
<1> DEFINE c == s \o u
<1>2. InOrder(s) /\ InOrder(u) /\ Units(s) = (r + 1) .. m /\ Units(u) = (m + 1) .. n
  BY DEF Carries
<1>3. ASSUME NEW i \in DataIn(c)
      PROVE  \/ i \in DataIn(s) /\ c[i] = s[i] /\ ToSet(c[i].ids) \subseteq (r + 1) .. m /\ i \in 1 .. Len(s)
             \/ i - Len(s) \in DataIn(u) /\ c[i] = u[i - Len(s)] /\ ToSet(c[i].ids) \subseteq (m + 1) .. n /\ i \in Nat /\ i > Len(s)
  <2>1. i \in 1 .. Len(s) + Len(u) /\ IsData(c[i])
    BY <1>1 DEF DataIn
  <2>2. CASE i <= Len(s)
    <3>1. i \in 1 .. Len(s) /\ c[i] = s[i]
      BY <1>1, <2>1, <2>2
    <3>2. i \in DataIn(s)
      BY <2>1, <3>1 DEF DataIn
    <3> QED
      BY <1>2, <3>1, <3>2 DEF Units
  <2>3. CASE ~(i <= Len(s))
    <3>1. i - Len(s) \in 1 .. Len(u) /\ c[i] = u[i - Len(s)] /\ i \in Nat /\ i > Len(s)
      BY <1>1, <2>1, <2>3
    <3>2. i - Len(s) \in DataIn(u)
      BY <2>1, <3>1 DEF DataIn
    <3> QED
      BY <1>2, <3>1, <3>2 DEF Units
  <2> QED
    BY <2>2, <2>3
<1>4. ASSUME NEW i \in DataIn(s) PROVE i \in DataIn(c) /\ c[i] = s[i]
  BY <1>1 DEF DataIn
<1>5. ASSUME NEW i \in DataIn(u) PROVE i + Len(s) \in DataIn(c) /\ c[i + Len(s)] = u[i]
  <2>1. i \in 1 .. Len(u) /\ IsData(u[i])
    BY DEF DataIn
  <2>2. i + Len(s) \in 1 .. Len(s) + Len(u) /\ ~(i + Len(s) <= Len(s)) /\ (i + Len(s)) - Len(s) = i
    BY <1>1, <2>1
  <2>3. c[i + Len(s)] = u[i]
    BY <1>1, <2>2
  <2> QED
    BY <1>1, <2>1, <2>2, <2>3 DEF DataIn
<1>6. Len(s) \in Nat
  BY <1>1
<1> HIDE DEF c
<1>7. Units(c) = (r + 1) .. n
  <2>1. ASSUME NEW v \in Units(c) PROVE v \in (r + 1) .. n
    <3>1. PICK i \in DataIn(c) : v \in ToSet(c[i].ids)
      BY DEF Units
    <3>2. v \in (r + 1) .. m \/ v \in (m + 1) .. n
      BY <1>3, <3>1
    <3> QED
      BY <3>2
  <2>2. ASSUME NEW v \in (r + 1) .. n PROVE v \in Units(c)
    <3>1. v \in Units(s) \/ v \in Units(u)
      BY <1>2
    <3>2. (\E i \in DataIn(s) : v \in ToSet(s[i].ids)) \/ (\E i \in DataIn(u) : v \in ToSet(u[i].ids))
      BY <3>1 DEF Units
    <3>3. \E i \in DataIn(c) : v \in ToSet(c[i].ids)
      BY <1>4, <1>5, <3>2
    <3> QED
      BY <3>3 DEF Units
  <2> QED
    BY <2>1, <2>2
<1>8. InOrder(c)
  <2>1. SUFFICES ASSUME NEW i \in DataIn(c), NEW j \in DataIn(c)
                 PROVE  IF i = j THEN Increasing(c[i].ids)
                        ELSE i < j => \A v \in ToSet(c[i].ids), w \in ToSet(c[j].ids) : v < w
    BY DEF InOrder
  <2>2. CASE i \in DataIn(s) /\ c[i] = s[i] /\ j \in DataIn(s) /\ c[j] = s[j]
    BY <1>2, <2>2 DEF InOrder
  <2>3. CASE /\ i - Len(s) \in DataIn(u) /\ c[i] = u[i - Len(s)] /\ j - Len(s) \in DataIn(u) /\ c[j] = u[j - Len(s)]
             /\ i \in Nat /\ j \in Nat
    <3>1. (i = j <=> i - Len(s) = j - Len(s)) /\ (i < j <=> i - Len(s) < j - Len(s))
      BY <1>6, <2>3
    <3> QED
      BY <1>2, <2>3, <3>1 DEF InOrder
  <2>4. CASE ToSet(c[i].ids) \subseteq (r + 1) .. m /\ ToSet(c[j].ids) \subseteq (m + 1) .. n /\ i \in 1 .. Len(s) /\ j > Len(s) /\ j \in Nat
    <3>1. i # j /\ \A v \in ToSet(c[i].ids), w \in ToSet(c[j].ids) : v < w
      <4>1. i # j
        BY <1>6, <2>4
      <4>2. ASSUME NEW v \in ToSet(c[i].ids), NEW w \in ToSet(c[j].ids) PROVE v < w
        <5>1. v \in (r + 1) .. m /\ w \in (m + 1) .. n
          BY <2>4
        <5> QED
          BY <5>1
      <4> QED
        BY <4>1, <4>2
    <3> QED
      BY <3>1
  <2>5. CASE i > Len(s) /\ i \in Nat /\ j \in 1 .. Len(s)
    <3>1. i # j /\ ~(i < j)
      BY <1>6, <2>5
    <3> QED
      BY <3>1
  <2> QED
    BY <1>3, <2>2, <2>3, <2>4, <2>5
<1> QED
  BY <1>1, <1>7, <1>8 DEF Carries, c

(* A close cuts the last message: what is left is carried from the same unit on. *)
LEMMA CarriesCut ==
    ASSUME NEW s \in Seq(Made), NEW r \in Nat, NEW n \in Nat, r <= n, Carries(s, r, n)
    PROVE  Cut(s) \in Seq(Made) /\ \E m \in r .. n : Carries(Cut(s), r, m)
<1>1. CASE s = <<>>
  <2>1. Cut(s) = s
    BY <1>1 DEF Cut
  <2> QED
    BY <2>1
<1>2. CASE s # <<>>
  <2>1. Len(s) \in 1 .. Len(s) /\ Len(s) \in Nat
    BY <1>2, EmptySeq
  <2> DEFINE last == Len(s)
             c == Cut(s)
  <2>2. /\ c \in Seq(Made) /\ Len(c) = last /\ c[last].cut
        /\ \A i \in 1 .. last : c[i].ids = s[i].ids /\ (i # last => c[i] = s[i])
    <3>1. s[last] \in Made
      BY <2>1, ElementOfSeq
    <3>2. [s[last] EXCEPT !.cut = TRUE].cut /\ [s[last] EXCEPT !.cut = TRUE].ids = s[last].ids /\ [s[last] EXCEPT !.cut = TRUE] \in Made
      BY <3>1 DEF Made, Messages
    <3> DEFINE new == [s[last] EXCEPT !.cut = TRUE]
    <3>3. c = [s EXCEPT ![last] = new]
      BY <1>2 DEF Cut
    <3> HIDE DEF new, c
    <3>4. c \in Seq(Made) /\ Len(c) = last /\ \A j \in 1 .. last : c[j] = IF j = last THEN new ELSE s[j]
      BY <2>1, <3>2, <3>3, ExceptSeq DEF new
    <3> QED
      BY <2>1, <3>2, <3>4 DEF new
  <2> HIDE DEF c
  <2>3. InOrder(s) /\ Units(s) = (r + 1) .. n
    BY DEF Carries
  <2>4. DataIn(c) = DataIn(s) \ {last} /\ \A i \in DataIn(c) : c[i] = s[i]
    <3>1. ASSUME NEW i \in DataIn(c) PROVE i \in DataIn(s) /\ i # last /\ c[i] = s[i]
      BY <2>2 DEF DataIn, IsData
    <3>2. ASSUME NEW i \in DataIn(s), i # last PROVE i \in DataIn(c)
      BY <2>2, <3>2 DEF DataIn
    <3> QED
      BY <3>1, <3>2
  <2>5. InOrder(c)
    BY <2>3, <2>4 DEF InOrder
  <2>6. CASE last \notin DataIn(s)
    <3>1. Units(c) = Units(s)
      BY <2>4, <2>6 DEF Units
    <3> QED
      BY <2>2, <2>3, <2>5, <3>1 DEF Carries, c
  <2>7. CASE last \in DataIn(s)
    <3>1. PICK x, T : x = s[last].ids /\ T = Units(c)
      OBVIOUS
    <3>2. x \in Seq(Nat) /\ Increasing(x)
      BY <2>1, <2>3, <2>7, <3>1, IdsAre DEF InOrder
    <3>3. T \cup ToSet(x) = (r + 1) .. n
      <4>1. T \cup ToSet(x) = Units(s)
        BY <2>4, <2>7, <3>1 DEF Units
      <4> QED
        BY <2>3, <4>1
    <3>4. \A u \in T : \A v \in ToSet(x) : u < v
      <4>1. SUFFICES ASSUME NEW u \in T, NEW v \in ToSet(x) PROVE u < v
        OBVIOUS
      <4>2. PICK i \in DataIn(c) : u \in ToSet(c[i].ids)
        BY <3>1, <4>1 DEF Units
      <4>3. i \in DataIn(s) /\ i # last /\ c[i] = s[i] /\ i < last
        BY <2>1, <2>4, <4>2 DEF DataIn
      <4> QED
        BY <2>3, <2>7, <3>1, <4>1, <4>2, <4>3 DEF InOrder
    <3>6. Splits(T, ToSet(x), r, n)
      BY <3>3, <3>4 DEF Splits
    <3>5. \E m \in r .. n : T = (r + 1) .. m
      BY <3>2, <3>6, SplitBefore
    <3> QED
      BY <2>2, <2>5, <3>1, <3>5 DEF Carries, c
  <2> QED
    BY <2>6, <2>7
<1> QED
  BY <1>1, <1>2

LEMMA NoDataCarries ==
    ASSUME NEW s, DataIn(s) = {}
    PROVE  Units(s) = {} /\ InOrder(s) /\ \A k \in Nat : Carries(s, k, k)
<1>1. Units(s) = {} /\ InOrder(s)
  BY DEF Units, InOrder
<1>2. \A k \in Nat : (k + 1) .. k = {}
  OBVIOUS
<1> QED
  BY <1>1, <1>2 DEF Carries

LEMMA NothingData == DataIn(<<>>) = {} /\ Units(<<>>) = {} /\ InOrder(<<>>)
<1>1. DataIn(<<>>) = {}
  BY DEF DataIn
<1> QED
  BY <1>1, NoDataCarries

LEMMA PlainNoData ==
    ASSUME NEW type \in {"EVENT", "SUBSCRIBE", "UNSUBSCRIBE"}, NEW ids
    PROVE  DataIn(<<Message(type, ids)>>) = {}
<1>1. ~IsData(Message(type, ids))
  BY DEF IsData, Message
<1>2. \A i \in 1 .. Len(<<Message(type, ids)>>) : <<Message(type, ids)>>[i] = Message(type, ids)
  OBVIOUS
<1> QED
  BY <1>1, <1>2 DEF DataIn

LEMMA CmdNoData ==
    ASSUME NEW c
    PROVE  DataIn(CmdMessages(c)) = {}
<1> DEFINE m == [Message("COMMAND", <<c.id>>) EXCEPT !.status = c.status, !.payload = c.payload]
           rest == IF c.payload THEN <<Payload>> ELSE <<>>
<1>1. ~IsData(m) /\ ~IsData(Payload)
  <2>1. m.type = "COMMAND"
    BY DEF Message
  <2>2. Payload.ids = << 0 >>
    BY DEF Payload, Message
  <2> QED
    BY <2>1, <2>2 DEF IsData
<1>2. CmdMessages(c) = <<m>> \o rest
  BY DEF CmdMessages
<1> HIDE DEF m
<1>3. <<m>> \in Seq({m, Payload}) /\ rest \in Seq({m, Payload})
  <2>1. <<m>> \in Seq({m, Payload}) /\ <<Payload>> \in Seq({m, Payload}) /\ <<>> \in Seq({m, Payload})
    OBVIOUS
  <2>2. rest = <<Payload>> \/ rest = <<>>
    OBVIOUS
  <2> QED
    BY <2>1, <2>2
<1> HIDE DEF rest
<1>4. CmdMessages(c) \in Seq({m, Payload})
  BY <1>2, <1>3, ConcatProperties
<1>5. \A i \in 1 .. Len(CmdMessages(c)) : CmdMessages(c)[i] \in {m, Payload}
  BY <1>4, ElementOfSeq
<1> QED
  BY <1>1, <1>5 DEF DataIn

(* The message of a sendData carries the next units. *)
LEMMA OneData ==
    ASSUME NEW k \in Nat, NEW n \in Nat \ {0}
    PROVE  Carries(<<Message("DATA", [i \in 1 .. n |-> k + i])>>, k, k + n)
<1> DEFINE x == [i \in 1 .. n |-> k + i]
           m == Message("DATA", x)
           s == <<m>>
<1>1. x \in Seq(Nat) /\ Len(x) = n /\ \A i \in 1 .. n : x[i] = k + i
  OBVIOUS
<1>2. x # << 0 >>
  <2>1. 1 \in 1 .. n /\ x[1] # 0
    BY <1>1
  <2>2. << 0 >>[1] = 0
    OBVIOUS
  <2> HIDE DEF x
  <2> QED
    BY <2>1, <2>2
<1> HIDE DEF x
<1>3. ToSet(x) = (k + 1) .. (k + n)
  <2>1. ToSet(x) = {x[i] : i \in 1 .. n}
    BY <1>1, ToSetIs
  <2>2. ASSUME NEW u \in (k + 1) .. (k + n) PROVE u \in ToSet(x)
    <3>1. u - k \in 1 .. n /\ k + (u - k) = u
      OBVIOUS
    <3>2. x[u - k] = u
      BY <1>1, <3>1
    <3> QED
      BY <2>1, <3>1, <3>2
  <2>3. ASSUME NEW u \in ToSet(x) PROVE u \in (k + 1) .. (k + n)
    <3>1. PICK i \in 1 .. n : u = x[i]
      BY <2>1
    <3> QED
      BY <1>1, <3>1
  <2> QED
    BY <2>2, <2>3
<1>4. Increasing(x)
  BY <1>1 DEF Increasing
<1>5. m.ids = x /\ IsData(m)
  BY <1>2 DEF Message, IsData
<1> HIDE DEF m
<1>6. Len(s) = 1 /\ s[1] = m /\ \A i \in 1 .. 1 : i = 1
  OBVIOUS
<1> HIDE DEF s
<1>7. DataIn(s) = {1}
  BY <1>5, <1>6 DEF DataIn
<1>8. Units(s) = (k + 1) .. (k + n)
  BY <1>3, <1>5, <1>6, <1>7 DEF Units
<1>9. InOrder(s)
  BY <1>4, <1>5, <1>6, <1>7 DEF InOrder
<1> QED
  BY <1>8, <1>9 DEF Carries, s, m, x

(* What is received goes on, in the buffer or at the application, or is lost. *)
LEMMA ToSetConcat ==
    ASSUME NEW b \in Seq(Nat), NEW x \in Seq(Nat)
    PROVE  b \o x \in Seq(Nat) /\ ToSet(b \o x) = ToSet(b) \cup ToSet(x)
<1>1. /\ b \o x \in Seq(Nat) /\ Len(b \o x) = Len(b) + Len(x) /\ Len(b) \in Nat /\ Len(x) \in Nat
      /\ \A i \in 1 .. Len(b) + Len(x) : (b \o x)[i] = IF i <= Len(b) THEN b[i] ELSE x[i - Len(b)]
  BY ConcatProperties, LenProperties
<1> DEFINE c == b \o x
<1>2. /\ ToSet(b) = {b[i] : i \in 1 .. Len(b)} /\ ToSet(x) = {x[i] : i \in 1 .. Len(x)} /\ ToSet(c) = {c[i] : i \in 1 .. Len(c)}
  BY <1>1, ToSetIs
<1>3. \A i \in 1 .. Len(b) : i \in 1 .. Len(c) /\ c[i] = b[i]
  BY <1>1
<1>4. \A i \in 1 .. Len(x) : i + Len(b) \in 1 .. Len(c) /\ c[i + Len(b)] = x[i]
  <2>1. ASSUME NEW i \in 1 .. Len(x) PROVE i + Len(b) \in 1 .. Len(c) /\ c[i + Len(b)] = x[i]
    <3>1. i + Len(b) \in 1 .. Len(b) + Len(x) /\ ~(i + Len(b) <= Len(b)) /\ (i + Len(b)) - Len(b) = i
      BY <1>1
    <3> QED
      BY <1>1, <3>1
  <2> QED
    BY <2>1
<1>5. \A i \in 1 .. Len(c) : (i \in 1 .. Len(b) /\ c[i] = b[i]) \/ (i - Len(b) \in 1 .. Len(x) /\ c[i] = x[i - Len(b)])
  BY <1>1
<1>6. c \in Seq(Nat)
  BY <1>1
<1> HIDE DEF c
<1>7. ToSet(c) = ToSet(b) \cup ToSet(x)
  BY <1>2, <1>3, <1>4, <1>5
<1> QED
  BY <1>6, <1>7 DEF c

LEMMA IncreasingConcat ==
    ASSUME NEW b \in Seq(Nat), NEW x \in Seq(Nat), Increasing(b), Increasing(x),
           \A u \in ToSet(b) : \A v \in ToSet(x) : u < v
    PROVE  Increasing(b \o x)
<1>1. /\ Len(b \o x) = Len(b) + Len(x) /\ Len(b) \in Nat /\ Len(x) \in Nat
      /\ \A i \in 1 .. Len(b) + Len(x) : (b \o x)[i] = IF i <= Len(b) THEN b[i] ELSE x[i - Len(b)]
  BY ConcatProperties, LenProperties
<1>2. ToSet(b) = {b[i] : i \in 1 .. Len(b)} /\ ToSet(x) = {x[i] : i \in 1 .. Len(x)}
  BY ToSetIs
<1>3. SUFFICES ASSUME NEW i \in 1 .. Len(b \o x), NEW j \in 1 .. Len(b \o x), i < j
               PROVE  (b \o x)[i] < (b \o x)[j]
  BY DEF Increasing
<1>4. i \in 1 .. Len(b) + Len(x) /\ j \in 1 .. Len(b) + Len(x)
  BY <1>1
<1>5. CASE j <= Len(b)
  <2>1. i \in 1 .. Len(b) /\ j \in 1 .. Len(b) /\ (b \o x)[i] = b[i] /\ (b \o x)[j] = b[j]
    BY <1>1, <1>3, <1>4, <1>5
  <2> QED
    BY <1>3, <2>1 DEF Increasing
<1>6. CASE i <= Len(b) /\ ~(j <= Len(b))
  <2>1. i \in 1 .. Len(b) /\ j - Len(b) \in 1 .. Len(x) /\ (b \o x)[i] = b[i] /\ (b \o x)[j] = x[j - Len(b)]
    BY <1>1, <1>4, <1>6
  <2>2. b[i] \in ToSet(b) /\ x[j - Len(b)] \in ToSet(x)
    BY <1>2, <2>1
  <2> QED
    BY <2>1, <2>2
<1>7. CASE ~(i <= Len(b))
  <2>1. /\ i - Len(b) \in 1 .. Len(x) /\ j - Len(b) \in 1 .. Len(x) /\ i - Len(b) < j - Len(b)
        /\ (b \o x)[i] = x[i - Len(b)] /\ (b \o x)[j] = x[j - Len(b)]
    BY <1>1, <1>3, <1>4, <1>7
  <2> QED
    BY <2>1 DEF Increasing
<1> QED
  BY <1>1, <1>4, <1>5, <1>6, <1>7

LEMMA HoldsMore ==
    ASSUME NEW b \in Seq(Nat), NEW d, NEW r \in Nat, Holds(b, d, r),
           NEW x \in Seq(Nat), Increasing(x), NEW m \in Nat, r <= m, ToSet(x) = (r + 1) .. m
    PROVE  Holds(b \o x, d, m) /\ Holds(b, d \cup ToSet(x), m)
<1>1. Increasing(b) /\ ToSet(b) = (1 .. r) \ d /\ d \subseteq 1 .. r
  BY DEF Holds
<1>2. \A u \in ToSet(b) : \A v \in ToSet(x) : u < v
  BY <1>1
<1>3. Increasing(b \o x) /\ ToSet(b \o x) = ToSet(b) \cup ToSet(x)
  BY <1>1, <1>2, IncreasingConcat, ToSetConcat
<1>4. ToSet(b) \cup ToSet(x) = (1 .. m) \ d /\ d \subseteq 1 .. m
  BY <1>1
<1>5. ToSet(b) = (1 .. m) \ (d \cup ToSet(x)) /\ d \cup ToSet(x) \subseteq 1 .. m
  BY <1>1
<1> QED
  BY <1>1, <1>3, <1>4, <1>5 DEF Holds

LEMMA Associative ==
    ASSUME NEW g \in Seq(Nat), NEW x \in Seq(Nat), NEW y \in Seq(Nat)
    PROVE  (g \o x) \o y = g \o (x \o y)
<1> DEFINE c(a, b) == a \o b
           IsConcat(a, b, s) == /\ s \in Seq(Nat) /\ Len(s) = Len(a) + Len(b)
                                /\ \A i \in 1 .. Len(a) + Len(b) : s[i] = IF i <= Len(a) THEN a[i] ELSE b[i - Len(a)]
<1>1. \A a, b \in Seq(Nat) : IsConcat(a, b, c(a, b))
  BY ConcatProperties
<1> HIDE DEF c
<1> DEFINE gx == c(g, x)
           xy == c(x, y)
           left == c(gx, y)
           right == c(g, xy)
<1>2. IsConcat(g, x, gx) /\ IsConcat(x, y, xy)
  BY <1>1
<1> HIDE DEF gx, xy
<1>3. IsConcat(gx, y, left) /\ IsConcat(g, xy, right)
  BY <1>1, <1>2
<1> HIDE DEF left, right
<1>4. Len(g) \in Nat /\ Len(x) \in Nat /\ Len(y) \in Nat
  BY LenProperties
<1>5. Len(left) = Len(right) /\ Len(left) = Len(g) + Len(x) + Len(y)
  BY <1>2, <1>3, <1>4
<1>6. ASSUME NEW i \in 1 .. Len(left) PROVE left[i] = right[i]
  <2>0. i \in 1 .. Len(gx) + Len(y) /\ i \in 1 .. Len(g) + Len(xy) /\ i \in Int
        /\ Len(gx) = Len(g) + Len(x) /\ Len(xy) = Len(x) + Len(y)
    BY <1>2, <1>4, <1>5
  <2>1. CASE i <= Len(g)
    <3>1. i <= Len(gx) /\ i \in 1 .. Len(g) + Len(x)
      BY <1>4, <2>0, <2>1
    <3>2. left[i] = gx[i] /\ gx[i] = g[i] /\ right[i] = g[i]
      BY <1>2, <1>3, <2>0, <2>1, <3>1
    <3> QED
      BY <3>2
  <2>2. CASE i > Len(g) /\ i <= Len(gx)
    <3>1. ~(i <= Len(g)) /\ i \in 1 .. Len(g) + Len(x) /\ i - Len(g) \in 1 .. Len(x) + Len(y) /\ i - Len(g) <= Len(x)
      BY <1>4, <2>0, <2>2
    <3>2. left[i] = gx[i] /\ gx[i] = x[i - Len(g)]
      BY <1>2, <1>3, <2>0, <2>2, <3>1
    <3>3. right[i] = xy[i - Len(g)] /\ xy[i - Len(g)] = x[i - Len(g)]
      BY <1>2, <1>3, <2>0, <3>1
    <3> QED
      BY <3>2, <3>3
  <2>3. CASE i > Len(gx)
    <3>1. ~(i <= Len(g)) /\ ~(i <= Len(gx)) /\ i - Len(g) \in 1 .. Len(x) + Len(y) /\ ~(i - Len(g) <= Len(x))
          /\ (i - Len(g)) - Len(x) = i - Len(gx)
      BY <1>4, <2>0, <2>3
    <3>2. left[i] = y[i - Len(gx)]
      BY <1>3, <2>0, <3>1
    <3>3. right[i] = xy[i - Len(g)] /\ xy[i - Len(g)] = y[(i - Len(g)) - Len(x)]
      BY <1>2, <1>3, <2>0, <3>1
    <3> QED
      BY <3>1, <3>2, <3>3
  <2> QED
    BY <1>4, <2>0, <2>1, <2>2, <2>3
<1>7. \A s, t \in Seq(Nat) : Len(s) = Len(t) /\ (\A i \in 1 .. Len(s) : s[i] = t[i]) => s = t
  BY SeqEqual
<1>8. left = right
  BY <1>3, <1>5, <1>6, <1>7
<1> QED
  BY <1>8 DEF left, right, gx, xy, c

(* What a reader takes out of the buffer is what comes next. *)
LEMMA TakenIs ==
    ASSUME NEW g \in Seq(Nat), NEW b \in Seq(Nat), NEW n \in 0 .. Len(b)
    PROVE  /\ SubSeq(b, 1, n) \in Seq(Nat) /\ Rest(b, n) \in Seq(Nat)
           /\ (g \o SubSeq(b, 1, n)) \o Rest(b, n) = g \o b
<1>1. Len(b) \in Nat /\ n \in Nat /\ n <= Len(b)
  BY LenProperties
<1> DEFINE x == SubSeq(b, 1, n)
           y == Rest(b, n)
<1>2. x \in Seq(Nat) /\ Len(x) = n /\ \A i \in 1 .. n : x[i] = b[i]
  <2>1. \A i \in 1 .. n : b[i] \in Nat
    BY <1>1, ElementOfSeq
  <2> QED
    BY <1>1, <2>1, SubSeqProperties
<1>3. y \in Seq(Nat) /\ Len(y) = Len(b) - n /\ \A i \in 1 .. Len(b) - n : y[i] = b[i + n]
  <2>1. \A i \in n + 1 .. Len(b) : b[i] \in Nat
    BY <1>1, ElementOfSeq
  <2>2. /\ SubSeq(b, n + 1, Len(b)) \in Seq(Nat)
        /\ Len(SubSeq(b, n + 1, Len(b))) = IF n + 1 <= Len(b) THEN Len(b) - (n + 1) + 1 ELSE 0
        /\ \A i \in 1 .. Len(b) - (n + 1) + 1 : SubSeq(b, n + 1, Len(b))[i] = b[(n + 1) + i - 1]
    BY <1>1, <2>1, SubSeqProperties
  <2>4. Len(b) - (n + 1) + 1 = Len(b) - n /\ \A i \in 1 .. Len(b) - n : (n + 1) + i - 1 = i + n
    BY <1>1
  <2>3. /\ SubSeq(b, n + 1, Len(b)) \in Seq(Nat)
        /\ Len(SubSeq(b, n + 1, Len(b))) = Len(b) - n
        /\ \A i \in 1 .. Len(b) - n : SubSeq(b, n + 1, Len(b))[i] = b[i + n]
    <3> DEFINE rest == SubSeq(b, n + 1, Len(b))
    <3> HIDE DEF rest
    <3>1. /\ rest \in Seq(Nat) /\ Len(rest) = IF n + 1 <= Len(b) THEN Len(b) - (n + 1) + 1 ELSE 0
          /\ \A i \in 1 .. Len(b) - (n + 1) + 1 : rest[i] = b[(n + 1) + i - 1]
      BY <2>2 DEF rest
    <3>2. Len(rest) = Len(b) - n
      BY <1>1, <3>1
    <3>3. \A i \in 1 .. Len(b) - n : rest[i] = b[i + n]
      BY <1>1, <2>4, <3>1
    <3> QED
      BY <3>1, <3>2, <3>3 DEF rest
  <2> QED
    BY <2>3 DEF Rest
<1> HIDE DEF x, y
<1>4. x \o y = b
  <2>1. /\ x \o y \in Seq(Nat) /\ Len(x \o y) = Len(b)
        /\ \A i \in 1 .. Len(b) : (x \o y)[i] = IF i <= n THEN x[i] ELSE y[i - n]
    BY <1>1, <1>2, <1>3, ConcatProperties
  <2>2. ASSUME NEW i \in 1 .. Len(b) PROVE (x \o y)[i] = b[i]
    <3>1. CASE i <= n
      <4>1. i \in 1 .. n
        BY <1>1, <3>1
      <4> QED
        BY <1>2, <2>1, <3>1, <4>1
    <3>2. CASE ~(i <= n)
      <4>1. i - n \in 1 .. Len(b) - n /\ (i - n) + n = i
        BY <1>1, <3>2
      <4> QED
        BY <1>3, <2>1, <3>2, <4>1
    <3> QED
      BY <3>1, <3>2
  <2> QED
    BY <2>1, <2>2, SeqEqual
<1>5. (g \o x) \o y = g \o (x \o y)
  BY <1>2, <1>3, Associative
<1> QED
  BY <1>2, <1>3, <1>4, <1>5 DEF x, y

(* Who sends: a call that has begun to, or the receiver that answers; data only a call, and while an end is not mixed *)
(* one of its senders at a time.                                                                                      *)
Sending == {"exec", "send", "ack"}
SenderInv ==
    /\ mixed \in [Ends -> BOOLEAN]
    /\ \A t \in Threads : pc[t] \notin Sending => todo[t] = <<>>
    /\ \A e \in Ends : DataIn(todo[e]) = {} /\ (rx[e].at # "respond" => todo[e] = <<>>)
    /\ \A a \in Threads \cup Ends : InOrder(todo[a])
    /\ \A e \in Ends : ~mixed[e] => \A a, b \in Senders(e) : todo[a] # <<>> /\ todo[b] # <<>> => a = b

(* The stream to an end: what it has received, what is on its way, and what its peer's calls have still to send. *)
Flowing(e) == link[e] = "open" /\ link[Peer(e)] = "open" /\ ~mixed[Peer(e)]
Flow(e, r, n) ==
    /\ Holds(Received(e), dropped[e], r) /\ Carries(net[e], r, n)
    /\ Flowing(e) => Unsent(e) = (n + 1) .. sent[e]
FlowInv(e) == \E r \in 0 .. sent[e] : \E n \in r .. sent[e] : Flow(e, r, n)
DataInv ==
    /\ got \in [Ends -> Seq(Nat)] /\ dropped \in [Ends -> SUBSET Nat]
    /\ \A e \in Ends : DatMode[e] = "callback" => PollingBuffer[e] = <<>>
    /\ \A e \in Ends : FlowInv(e)

(* What a step does to the streams: nothing; a receiver passes a message that is no data; a sender prepares messages *)
(* that are no data, or sends what it has prepared.                                                                  *)
Rests ==
    /\ UNCHANGED <<todo, mixed, sent, net, got, dropped, PollingBuffer>>
    /\ \A e \in Ends : link'[e] = "open" => link[e] = "open"
Passes(e) ==
    /\ UNCHANGED <<todo, mixed, sent, link, got, dropped, PollingBuffer>>
    /\ net[e] # <<>> /\ ~IsData(Head(net[e])) /\ net' = [net EXCEPT ![e] = Tail(@)]
Prepares(a, e) ==
    /\ UNCHANGED <<sent, link, net, got, dropped, PollingBuffer>>
    /\ todo[a] = <<>> /\ \E messages : DataIn(messages) = {} /\ StartSend(a, e, messages)
    /\ a \in Threads => pc'[a] \in Sending
    /\ a \in Ends => rx'[a].at = "respond"
Sends(a, e) ==
    /\ UNCHANGED <<mixed, sent, link, got, dropped, PollingBuffer>>
    /\ Transmit(a, e) \/ SendFails(a, e)

LEMMA SendersAre ==
    /\ \A t \in Threads : t \in Senders(EndOf[t]) /\ t \notin Ends
    /\ \A e \in Ends : e \in Senders(e) /\ e \notin Threads /\ Senders(e) \subseteq Threads \cup Ends
    /\ \A e \in Ends : \A a \in Senders(e) : a \notin Senders(Peer(e))
  BY EndsAre DEF Senders, Of

LEMMA ThreadCases ==
    ASSUME TypeInv, SenderInv, NEW t \in Threads, Call(t) \/ Continue(t) \/ SpuriousWakeup(t)
    PROVE  Rests \/ Prepares(t, EndOf[t]) \/ Sends(t, EndOf[t]) \/ sendData(t) \/ readData(t)
<1>1. pc \in [Threads -> PcLabels] /\ (pc[t] \notin Sending => todo[t] = <<>>) /\ t \notin Ends
  BY SendersAre DEF TypeInv, CallTypes, SenderInv
<1>2. CASE execCmd(t)
  <2>1. pc[t] = "idle" /\ pc' = [pc EXCEPT ![t] = "exec"] /\ \E messages : DataIn(messages) = {} /\ StartSend(t, EndOf[t], messages)
    BY <1>2, CmdNoData DEF execCmd, Begin, Goto
  <2> QED
    BY <1>1, <1>2, <2>1 DEF Prepares, execCmd, stored, datHistory, Sending
<1>3. CASE ackCmd(t)
  <2>1. pc[t] = "holding" /\ pc' = [pc EXCEPT ![t] = "ack"] /\ \E messages : DataIn(messages) = {} /\ StartSend(t, EndOf[t], messages)
    BY <1>3, CmdNoData DEF ackCmd, Goto
  <2> QED
    BY <1>1, <1>3, <2>1 DEF Prepares, ackCmd, stored, datHistory, Sending
<1>4. CASE (subEvt(t) \/ unsubEvt(t) \/ postEvt(t)) /\ ~Rests
  <2>1. pc[t] = "idle" /\ \E messages : DataIn(messages) = {} /\ StartSend(t, EndOf[t], messages)
    BY <1>4, PlainNoData DEF subEvt, unsubEvt, postEvt, Begin, Rests, stored, datHistory
  <2>2. pc' = [pc EXCEPT ![t] = "send"]
    BY <1>4 DEF subEvt, unsubEvt, postEvt, Goto, Rests, stored, datHistory
  <2>3. UNCHANGED <<sent, link, net, got, dropped, PollingBuffer>>
    BY <1>4 DEF subEvt, unsubEvt, postEvt, stored, datHistory
  <2> QED
    BY <1>1, <2>1, <2>2, <2>3 DEF Prepares, Sending
<1>5. CASE send(t) \/ sendFails(t)
  BY <1>5 DEF send, sendFails, Sends, stored, datHistory
<1>6. CASE waitCmd(t) \/ recvData(t) \/ takeResponse(t) \/ sleepForResponse(t) \/ execTimeout(t) \/ sleepForCmd(t) \/ waitTimeout(t)
  BY <1>6 DEF waitCmd, recvData, takeResponse, sleepForResponse, execTimeout, sleepForCmd, waitTimeout, Rests, stored, datHistory
<1>7. CASE popCmd(t) \/ readNothing(t) \/ SpuriousWakeup(t)
  BY <1>7 DEF popCmd, readNothing, SpuriousWakeup, Rests, stored, datHistory
<1> QED
  BY <1>2, <1>3, <1>4, <1>5, <1>6, <1>7 DEF Call, Continue

LEMMA EndCases ==
    ASSUME TypeInv, StreamInv, SenderInv, NEW e \in Ends, Receiver(e) \/ closeLink(e) \/ joinReceiver(e)
    PROVE  \/ Rests \/ Passes(e) \/ Prepares(e, e) \/ Sends(e, e)
           \/ receiveData(e) \/ payloadFails(e) \/ closeLink(e)
<1>1. /\ (rx[e].at # "respond" => todo[e] = <<>>) /\ e \notin Threads
      /\ Aligned(net[e], Asking(e)) /\ net[e] \in Seq(Made)
      /\ link \in [Ends -> {"open", "closing", "closed"}]
  BY SendersAre DEF TypeInv, LinkTypes, SenderInv, StreamInv
<1>2. CASE receiveSubscribe(e) \/ receiveEvent(e) \/ receiveCmd(e)
  BY <1>2 DEF receiveSubscribe, receiveEvent, receiveCmd, Arrives, Passes, IsData, stored, datHistory
<1>3. CASE receivePayload(e)
  <2>1. net[e] # <<>> /\ Asking(e) /\ net' = [net EXCEPT ![e] = Tail(@)]
    BY <1>3 DEF receivePayload, Asking
  <2>2. Head(net[e]).ids = << 0 >>
    BY <2>1, HeadAsked
  <2> QED
    BY <1>3, <2>1, <2>2 DEF receivePayload, Passes, IsData, stored, datHistory
<1>4. CASE callbackCmd(e)
  <2>1. rx[e].at = "request" /\ rx'[e].at = "respond" /\ \E messages : DataIn(messages) = {} /\ StartSend(e, e, messages)
    BY <1>4, CmdNoData, AtPoint DEF callbackCmd
  <2> QED
    BY <1>1, <1>4, <2>1 DEF callbackCmd, Prepares, stored, datHistory
<1>5. CASE respond(e)
  BY <1>5 DEF respond, Sends, stored, datHistory
<1>6. CASE callbackEvent(e) \/ receiveFails(e) \/ queueCmd(e) \/ reportResponse(e) \/ stopReceiver(e)
  BY <1>6 DEF callbackEvent, receiveFails, queueCmd, reportResponse, stopReceiver, Rests, stored, datHistory
<1>7. CASE joinReceiver(e)
  <2>1. \A f \in Ends : link'[f] = "open" => link[f] = "open"
    BY <1>1, <1>7 DEF joinReceiver
  <2> QED
    BY <1>7, <2>1 DEF joinReceiver, Rests, stored, datHistory
<1> QED
  BY <1>2, <1>3, <1>4, <1>5, <1>6, <1>7 DEF Receiver

LEMMA StepCases ==
    ASSUME TypeInv, StreamInv, SenderInv, [Next]_vars
    PROVE  \/ Rests
           \/ \E e \in Ends : Passes(e) \/ receiveData(e) \/ payloadFails(e) \/ closeLink(e)
           \/ \E t \in Threads : sendData(t) \/ readData(t)
           \/ \E e \in Ends : \E a \in Senders(e) : Prepares(a, e) \/ Sends(a, e)
<1>1. CASE UNCHANGED vars
  BY <1>1 DEF vars, stored, datHistory, Rests
<1>2. CASE \E t \in Threads : Call(t) \/ Continue(t) \/ SpuriousWakeup(t)
  BY <1>2, ThreadCases, SendersAre, EndsAre
<1>3. CASE \E e \in Ends : Receiver(e) \/ closeLink(e) \/ joinReceiver(e)
  BY <1>3, EndCases, SendersAre
<1> QED
  BY <1>1, <1>2, <1>3, NextCases

(* A sender begins: an end is mixed as soon as two of its senders have something to send. *)
LEMMA StartIs ==
    ASSUME TypeInv, SenderInv, NEW e \in Ends, NEW a \in Senders(e), NEW messages, StartSend(a, e, messages)
    PROVE  /\ mixed' \in [Ends -> BOOLEAN] /\ \A g \in Ends : mixed[g] => mixed'[g]
           /\ ~mixed'[e] => \A b \in Senders(e) : b # a => todo[b] = <<>>
           /\ \A b \in Threads \cup Ends : todo'[b] = IF b = a THEN messages ELSE todo[b]
<1>1. mixed \in [Ends -> BOOLEAN] /\ DOMAIN todo = Threads \cup Ends /\ a \in Threads \cup Ends
  BY SendersAre DEF SenderInv, TypeInv, TodoTypes
<1>2. PICK other \in BOOLEAN : other <=> \E b \in Senders(e) \ {a} : todo[b] # <<>>
  OBVIOUS
<1>3. mixed' = [mixed EXCEPT ![e] = mixed[e] \/ \E b \in Senders(e) \ {a} : todo[b] # <<>>]
  BY DEF StartSend
<1>4. \A g \in Ends : (mixed'[g] <=> mixed[g] \/ (g = e /\ \E b \in Senders(e) \ {a} : todo[b] # <<>>))
  BY <1>1, <1>3
<1>5. mixed' \in [Ends -> BOOLEAN]
  BY <1>1, <1>3
<1>6. \A b \in Threads \cup Ends : todo'[b] = IF b = a THEN messages ELSE todo[b]
  BY <1>1 DEF StartSend
<1> QED
  BY <1>4, <1>5, <1>6

LEMMA SentIs ==
    ASSUME TypeInv, NEW e \in Ends, NEW a \in Senders(e), Transmit(a, e) \/ SendFails(a, e)
    PROVE  /\ \A b \in Threads \cup Ends : todo'[b] = IF b = a THEN <<>> ELSE todo[b]
           /\ \A g \in Ends : g # Peer(e) => net'[g] = net[g]
           /\ \/ net'[Peer(e)] = net[Peer(e)] /\ ~Flowing(Peer(e))
              \/ net'[Peer(e)] = net[Peer(e)] \o todo[a]
<1>1. DOMAIN todo = Threads \cup Ends /\ DOMAIN net = Ends /\ a \in Threads \cup Ends /\ Peer(e) \in Ends /\ Peer(Peer(e)) = e
  BY SendersAre, EndsAre DEF TypeInv, TodoTypes, LinkTypes
<1>2. \A b \in Threads \cup Ends : todo'[b] = IF b = a THEN <<>> ELSE todo[b]
  BY <1>1 DEF Transmit, SendFails
<1>3. CASE Transmit(a, e)
  BY <1>1, <1>2, <1>3 DEF Transmit, Flowing
<1>4. CASE SendFails(a, e)
  BY <1>1, <1>2, <1>4 DEF SendFails, Flowing
<1> QED
  BY <1>3, <1>4

(* A sender that has something to send stays where it is until it has sent it. *)
LEMMA SenderStays ==
    ASSUME TypeInv, SenderInv, [Next]_vars
    PROVE  /\ \A t \in Threads : pc'[t] = pc[t] \/ pc[t] \notin Sending \/ todo'[t] = <<>>
           /\ \A e \in Ends : rx'[e].at = rx[e].at \/ rx[e].at # "respond" \/ todo'[e] = <<>>
<1>1. /\ pc \in [Threads -> PcLabels] /\ DOMAIN todo = Threads \cup Ends
      /\ \A t \in Threads : t \in Threads \cup Ends /\ \A e \in Ends : e \in Threads \cup Ends
  BY DEF TypeInv, CallTypes, TodoTypes
<1>2. ASSUME NEW u \in Threads, Call(u) \/ Continue(u) \/ SpuriousWakeup(u)
      PROVE  /\ \A t \in Threads : pc'[t] = pc[t] \/ pc[t] \notin Sending \/ todo'[t] = <<>>
             /\ rx' = rx
  <2>1. CASE send(u) \/ sendFails(u)
    <3>1. \A t \in Threads : t # u => pc'[t] = pc[t]
      BY <1>1, <2>1 DEF send, sendFails, Goto, Return
    <3>2. todo'[u] = <<>> /\ rx' = rx
      BY <1>1, <2>1 DEF send, sendFails, Transmit, SendFails
    <3> QED
      BY <3>1, <3>2
  <2>2. CASE ~(send(u) \/ sendFails(u))
    <3>1. rx' = rx /\ pc[u] \notin Sending /\ \E l : pc' = [pc EXCEPT ![u] = l]
      BY <1>2, <2>2 DEF Call, Continue, SpuriousWakeup, execCmd, waitCmd, sendData, recvData, subEvt, unsubEvt, postEvt,
         takeResponse, sleepForResponse, execTimeout, popCmd, sleepForCmd, waitTimeout, ackCmd, readNothing, readData, Goto, Return,
         Begin, Sending
    <3> QED
      BY <1>1, <3>1
  <2> QED
    BY <2>1, <2>2
<1>3. ASSUME NEW f \in Ends, Receiver(f) \/ closeLink(f) \/ joinReceiver(f)
      PROVE  /\ \A t \in Threads : pc'[t] = pc[t] \/ pc[t] \notin Sending
             /\ \A e \in Ends : rx'[e].at = rx[e].at \/ rx[e].at # "respond" \/ todo'[e] = <<>>
  <2>1. \/ pc' = pc \/ Signal(f, "asleepDat", "read") \/ Signal(f, "asleepResp", "await") \/ Signal(f, "asleepCmd", "poll")
    BY <1>3 DEF Receiver, receiveSubscribe, receiveEvent, callbackEvent, receiveData, receiveCmd, receivePayload, receiveFails,
       payloadFails, callbackCmd, respond, queueCmd, reportResponse, stopReceiver, closeLink, joinReceiver
  <2>2. \A t \in Threads : pc'[t] = pc[t] \/ pc[t] \notin Sending
    BY <1>1, <2>1 DEF Signal, Goto, Sending
  <2>3. CASE respond(f)
    <3>1. todo'[f] = <<>> /\ \A e \in Ends : e # f => rx'[e] = rx[e]
      BY <1>1, <2>3, AtPoint DEF respond, Transmit, SendFails
    <3> QED
      BY <2>2, <3>1
  <2>4. CASE ~respond(f)
    <3>1. rx' = rx \/ (rx[f].at # "respond" /\ \E label, msg : At(f, label, msg))
      BY <1>3, <2>4 DEF Receiver, receiveSubscribe, receiveEvent, callbackEvent, receiveData, receiveCmd, receivePayload, receiveFails,
         payloadFails, callbackCmd, respond, queueCmd, reportResponse, stopReceiver, Arrives, closeLink, joinReceiver
    <3> QED
      BY <2>2, <3>1, AtPoint
  <2> QED
    BY <2>3, <2>4, <2>2
<1>4. CASE UNCHANGED vars
  BY <1>4 DEF vars
<1> QED
  BY <1>2, <1>3, <1>4, NextCases

LEMMA NextSender ==
    ASSUME TypeInv, StreamInv, SenderInv, [Next]_vars
    PROVE  SenderInv'
<1>1. /\ mixed \in [Ends -> BOOLEAN]
      /\ \A t \in Threads : pc[t] \notin Sending => todo[t] = <<>>
      /\ \A e \in Ends : DataIn(todo[e]) = {} /\ (rx[e].at # "respond" => todo[e] = <<>>)
      /\ \A a \in Threads \cup Ends : InOrder(todo[a])
      /\ \A e \in Ends : ~mixed[e] => \A a, b \in Senders(e) : todo[a] # <<>> /\ todo[b] # <<>> => a = b
  BY DEF SenderInv
<1>2. /\ \A t \in Threads : pc'[t] = pc[t] \/ pc[t] \notin Sending \/ todo'[t] = <<>>
      /\ \A e \in Ends : rx'[e].at = rx[e].at \/ rx[e].at # "respond" \/ todo'[e] = <<>>
  BY SenderStays
<1>3. CASE UNCHANGED <<todo, mixed>>
  <2>1. \A t \in Threads : pc'[t] \notin Sending => todo'[t] = <<>>
    BY <1>1, <1>2, <1>3
  <2>2. \A e \in Ends : DataIn(todo'[e]) = {} /\ (rx'[e].at # "respond" => todo'[e] = <<>>)
    BY <1>1, <1>2, <1>3
  <2> QED
    BY <1>1, <1>3, <2>1, <2>2 DEF SenderInv
<1>4. ASSUME NEW e \in Ends, NEW a \in Senders(e), NEW messages, StartSend(a, e, messages), InOrder(messages),
             a \in Threads => pc'[a] \in Sending,
             a \in Ends => rx'[a].at = "respond" /\ DataIn(messages) = {}
      PROVE  SenderInv'
  <2>1. /\ mixed' \in [Ends -> BOOLEAN] /\ \A g \in Ends : mixed[g] => mixed'[g]
        /\ ~mixed'[e] => \A b \in Senders(e) : b # a => todo[b] = <<>>
        /\ \A b \in Threads \cup Ends : todo'[b] = IF b = a THEN messages ELSE todo[b]
    BY <1>4, StartIs
  <2>2. \A t \in Threads : pc'[t] \notin Sending => todo'[t] = <<>>
    BY <1>1, <1>2, <1>4, <2>1
  <2>3. \A f \in Ends : DataIn(todo'[f]) = {} /\ (rx'[f].at # "respond" => todo'[f] = <<>>)
    BY <1>1, <1>2, <1>4, <2>1
  <2>4. \A b \in Threads \cup Ends : InOrder(todo'[b])
    BY <1>1, <1>4, <2>1
  <2>5. ASSUME NEW f \in Ends, ~mixed'[f], NEW b \in Senders(f), NEW c \in Senders(f), todo'[b] # <<>>, todo'[c] # <<>>
        PROVE  b = c
    <3>1. b \in Threads \cup Ends /\ c \in Threads \cup Ends /\ ~mixed[f] /\ (f # e => a \notin Senders(f))
      BY <2>1, <2>5, SendersAre, EndsAre
    <3>2. CASE f = e
      BY <2>1, <2>5, <3>1, <3>2
    <3>3. CASE f # e
      BY <1>1, <2>1, <2>5, <3>1, <3>3
    <3> QED
      BY <3>2, <3>3
  <2> QED
    BY <2>1, <2>2, <2>3, <2>4, <2>5 DEF SenderInv
<1>5. ASSUME NEW e \in Ends, NEW a \in Senders(e), Prepares(a, e)
      PROVE  SenderInv'
  BY <1>4, <1>5, NoDataCarries DEF Prepares
<1>6. ASSUME NEW t \in Threads, sendData(t)
      PROVE  SenderInv'
  <2>1. /\ EndOf[t] \in Ends /\ t \in Senders(EndOf[t]) /\ t \notin Ends /\ Peer(EndOf[t]) \in Ends
        /\ pc \in [Threads -> PcLabels] /\ sent \in [Ends -> Nat] /\ MaxChunk \in Nat
    BY EndsAre, SendersAre, BoundsAssumption DEF TypeInv, CallTypes
  <2>2. PICK n \in 1 .. MaxChunk :
            StartSend(t, EndOf[t], <<Message("DATA", [i \in 1 .. n |-> sent[Peer(EndOf[t])] + i])>>)
    BY <1>6 DEF sendData
  <2>3. InOrder(<<Message("DATA", [i \in 1 .. n |-> sent[Peer(EndOf[t])] + i])>>)
    <3>1. n \in Nat \ {0} /\ sent[Peer(EndOf[t])] \in Nat
      BY <2>1
    <3>2. \A k \in Nat : InOrder(<<Message("DATA", [i \in 1 .. n |-> k + i])>>)
      BY <3>1, OneData DEF Carries
    <3> QED
      BY <3>1, <3>2
  <2>4. pc'[t] \in Sending
    BY <1>6, <2>1 DEF sendData, Goto, Sending
  <2> QED
    BY <1>4, <2>1, <2>2, <2>3, <2>4
<1>7. ASSUME NEW e \in Ends, NEW a \in Senders(e), Sends(a, e)
      PROVE  SenderInv'
  <2>1. (\A b \in Threads \cup Ends : todo'[b] = IF b = a THEN <<>> ELSE todo[b]) /\ mixed' = mixed
    BY <1>7, SentIs DEF Sends
  <2>2. \A t \in Threads : pc'[t] \notin Sending => todo'[t] = <<>>
    BY <1>1, <1>2, <2>1
  <2>3. \A f \in Ends : DataIn(todo'[f]) = {} /\ (rx'[f].at # "respond" => todo'[f] = <<>>)
    BY <1>1, <1>2, <2>1, NothingData
  <2>4. \A b \in Threads \cup Ends : InOrder(todo'[b])
    BY <1>1, <2>1, NothingData
  <2>5. ASSUME NEW f \in Ends, ~mixed'[f], NEW b \in Senders(f), NEW c \in Senders(f), todo'[b] # <<>>, todo'[c] # <<>>
        PROVE  b = c
    BY <1>1, <2>1, <2>5, SendersAre
  <2> QED
    BY <1>1, <2>1, <2>2, <2>3, <2>4, <2>5 DEF SenderInv
<1>8. ASSUME NEW e \in Ends, receiveData(e) \/ payloadFails(e) \/ closeLink(e) \/ Passes(e)
      PROVE  UNCHANGED <<todo, mixed>>
  BY <1>8 DEF receiveData, payloadFails, closeLink, Passes
<1>9. ASSUME NEW t \in Threads, readData(t)
      PROVE  UNCHANGED <<todo, mixed>>
  BY <1>9 DEF readData
<1> QED
  BY <1>3, <1>5, <1>6, <1>7, <1>8, <1>9, StepCases DEF Rests

(* The stream to an end after a step that leaves what the end has received, and of what is on its way a part that *)
(* begins where it began.                                                                                         *)
LEMMA FlowIs ==
    ASSUME TypeInv, DataInv, NEW e \in Ends
    PROVE  /\ sent[e] \in Nat /\ Received(e) \in Seq(Nat) /\ net[e] \in Seq(Made)
           /\ \E r, n \in Nat : r <= n /\ n <= sent[e] /\ Flow(e, r, n)
<1>1. sent[e] \in Nat /\ Received(e) \in Seq(Nat) /\ net[e] \in Seq(Made)
  BY ConcatProperties DEF TypeInv, CallTypes, StoredTypes, LinkTypes, DataInv, Received
<1>2. \E r \in 0 .. sent[e] : \E n \in r .. sent[e] : Flow(e, r, n)
  BY DEF DataInv, FlowInv
<1> QED
  BY <1>1, <1>2

LEMMA FlowGoesOn ==
    ASSUME TypeInv, DataInv, NEW e \in Ends, Received(e)' = Received(e), dropped'[e] = dropped[e], sent'[e] = sent[e],
           Flowing(e)' => Flowing(e) /\ Unsent(e)' = Unsent(e),
           \A r, n \in Nat : r <= n /\ Carries(net[e], r, n) => Carries(net'[e], r, n)
    PROVE  FlowInv(e)'
<1>1. PICK r \in Nat, n \in Nat : r <= n /\ n <= sent[e] /\ Flow(e, r, n) /\ sent[e] \in Nat
  BY FlowIs
<1>2. Flow(e, r, n)'
  BY <1>1 DEF Flow
<1>3. r \in 0 .. sent'[e] /\ n \in r .. sent'[e]
  BY <1>1
<1> QED
  BY <1>2, <1>3 DEF FlowInv

LEMMA FlowEnds ==
    ASSUME TypeInv, DataInv, NEW e \in Ends, Received(e)' = Received(e), dropped'[e] = dropped[e], sent'[e] = sent[e],
           ~Flowing(e)', \A r, n \in Nat : r <= n /\ Carries(net[e], r, n) => \E m \in r .. n : Carries(net'[e], r, m)
    PROVE  FlowInv(e)'
<1>1. PICK r \in Nat, n \in Nat : r <= n /\ n <= sent[e] /\ Flow(e, r, n) /\ sent[e] \in Nat
  BY FlowIs
<1>2. PICK m \in r .. n : Carries(net'[e], r, m)
  BY <1>1 DEF Flow
<1>3. Flow(e, r, m)'
  BY <1>1, <1>2 DEF Flow
<1>4. r \in 0 .. sent'[e] /\ m \in r .. sent'[e]
  BY <1>1, <1>2
<1> QED
  BY <1>3, <1>4 DEF FlowInv

LEMMA FlowPrepares ==
    ASSUME TypeInv, SenderInv, DataInv, NEW g \in Ends, NEW a \in Senders(g), Prepares(a, g), NEW e \in Ends
    PROVE  FlowInv(e)'
<1>1. PICK messages : DataIn(messages) = {} /\ StartSend(a, g, messages)
  BY DEF Prepares
<1>2. /\ \A h \in Ends : mixed[h] => mixed'[h]
      /\ \A b \in Threads \cup Ends : todo'[b] = IF b = a THEN messages ELSE todo[b]
      /\ todo[a] = <<>> /\ UNCHANGED <<sent, link, net, got, dropped, PollingBuffer>>
  BY <1>1, StartIs DEF Prepares
<1>3. Units(messages) = {} /\ Units(<<>>) = {}
  BY <1>1, NoDataCarries, NothingData
<1>4. \A b \in Senders(Peer(e)) : Units(todo'[b]) = Units(todo[b])
  BY <1>2, <1>3, SendersAre, EndsAre
<1>5. Unsent(e)' = Unsent(e)
  <2>1. ASSUME NEW u PROVE u \in Unsent(e)' <=> u \in Unsent(e)
    BY <1>4 DEF Unsent
  <2> QED
    BY <2>1 DEF Unsent
<1>6. Flowing(e)' => Flowing(e)
  BY <1>2, EndsAre DEF Flowing
<1>7. Received(e)' = Received(e) /\ dropped'[e] = dropped[e] /\ sent'[e] = sent[e] /\ net'[e] = net[e]
  BY <1>2 DEF Received
<1> QED
  BY <1>5, <1>6, <1>7, FlowGoesOn

LEMMA FlowSends ==
    ASSUME TypeInv, SenderInv, DataInv, NEW g \in Ends, NEW a \in Senders(g), Sends(a, g), NEW e \in Ends
    PROVE  FlowInv(e)'
<1>1. /\ \A b \in Threads \cup Ends : todo'[b] = IF b = a THEN <<>> ELSE todo[b]
      /\ \A h \in Ends : h # Peer(g) => net'[h] = net[h]
      /\ \/ net'[Peer(g)] = net[Peer(g)] /\ ~Flowing(Peer(g))
         \/ net'[Peer(g)] = net[Peer(g)] \o todo[a]
      /\ UNCHANGED <<mixed, sent, link, got, dropped, PollingBuffer>>
      /\ Peer(g) \in Ends /\ Peer(Peer(g)) = g
  <2>1. (Transmit(a, g) \/ SendFails(a, g)) /\ UNCHANGED <<mixed, sent, link, got, dropped, PollingBuffer>>
    BY DEF Sends
  <2>2. Peer(g) \in Ends /\ Peer(Peer(g)) = g
    BY EndsAre
  <2> QED
    BY <2>1, <2>2, SentIs
<1>2. Received(e)' = Received(e) /\ dropped'[e] = dropped[e] /\ sent'[e] = sent[e] /\ (Flowing(e)' <=> Flowing(e))
  BY <1>1 DEF Received, Flowing
<1>3. CASE e # Peer(g)
  <2>1. a \notin Senders(Peer(e)) /\ net'[e] = net[e]
    BY <1>1, <1>3, SendersAre, EndsAre
  <2>2. \A b \in Senders(Peer(e)) : todo'[b] = todo[b]
    BY <1>1, <2>1, SendersAre, EndsAre
  <2>3. Unsent(e)' = Unsent(e)
    BY <2>2 DEF Unsent
  <2> QED
    BY <1>2, <2>1, <2>3, FlowGoesOn
<1>4. CASE e = Peer(g) /\ ~Flowing(e) /\ net'[e] = net[e]
  <2>1. \A r, n \in Nat : r <= n /\ Carries(net[e], r, n) => \E m \in r .. n : Carries(net'[e], r, m)
    BY <1>4
  <2> QED
    BY <1>2, <1>4, <2>1, FlowEnds
<1>5. CASE e = Peer(g) /\ net'[e] = net[e] \o todo[a] /\ ~Flowing(e)
  <2>1. SendFails(a, g) \/ (Transmit(a, g) /\ net'[e] = net[e])
    BY <1>1, <1>5, EndsAre DEF Sends, Transmit, Flowing
  <2>2. net'[e] = net[e]
    BY <2>1 DEF SendFails
  <2> QED
    BY <1>4, <1>5, <2>2
<1>6. CASE e = Peer(g) /\ net'[e] = net[e] \o todo[a] /\ Flowing(e)
  <2>1. PICK r \in Nat, n \in Nat : r <= n /\ n <= sent[e] /\ Flow(e, r, n) /\ sent[e] \in Nat
    BY FlowIs
  <2>2. Unsent(e) = (n + 1) .. sent[e] /\ Carries(net[e], r, n) /\ Holds(Received(e), dropped[e], r)
    BY <1>6, <2>1 DEF Flow
  <2>3. a \in Threads \cup Ends /\ a \in Senders(Peer(e)) /\ Senders(Peer(e)) \subseteq Threads \cup Ends /\ Peer(e) \in Ends
    BY <1>1, <1>6, SendersAre
  <2>4. todo[a] \in Seq(Made) /\ net[e] \in Seq(Made) /\ InOrder(todo[a])
    BY <2>3 DEF TypeInv, TodoTypes, LinkTypes, SenderInv
  <2>5. CASE todo[a] = <<>>
    <3>1. net'[e] = net[e] /\ \A b \in Senders(Peer(e)) : todo'[b] = todo[b]
      BY <1>1, <1>6, <2>3, <2>4, <2>5, ConcatEmptySeq
    <3>2. Unsent(e)' = Unsent(e)
      BY <3>1 DEF Unsent
    <3> QED
      BY <1>2, <3>1, <3>2, FlowGoesOn
  <2>6. CASE todo[a] # <<>>
    <3>1. \A b \in Senders(Peer(e)) : b # a => todo[b] = <<>>
      BY <1>6, <2>3, <2>6 DEF SenderInv, Flowing
    <3>2. Units(<<>>) = {}
      BY NothingData
    <3>3. Unsent(e) = Units(todo[a])
      <4>1. ASSUME NEW u PROVE u \in Unsent(e) <=> u \in Units(todo[a])
        BY <2>3, <3>1, <3>2 DEF Unsent
      <4> QED
        BY <4>1
    <3>4. Unsent(e)' = {}
      <4>1. \A b \in Senders(Peer(e)) : Units(todo'[b]) = {}
        BY <1>1, <2>3, <3>1, <3>2
      <4> QED
        BY <4>1 DEF Unsent
    <3>5. PICK k \in Nat : k = sent[e] /\ sent'[e] = k /\ n <= k
      BY <1>2, <2>1
    <3>6. Carries(todo[a], n, k)
      BY <2>2, <2>4, <3>3, <3>5 DEF Carries
    <3>7. Carries(net'[e], r, k)
      BY <1>6, <2>1, <2>2, <2>4, <3>5, <3>6, CarriesMore
    <3>10. (k + 1) .. k = {}
      OBVIOUS
    <3>8. Flow(e, r, k)'
      BY <1>2, <2>2, <3>4, <3>5, <3>7, <3>10 DEF Flow
    <3>9. r \in 0 .. sent'[e] /\ k \in r .. sent'[e]
      BY <2>1, <3>5
    <3> QED
      BY <3>8, <3>9 DEF FlowInv
  <2> QED
    BY <2>5, <2>6
<1> QED
  BY <1>1, <1>3, <1>4, <1>5, <1>6

LEMMA FlowSendData ==
    ASSUME TypeInv, SenderInv, DataInv, NEW t \in Threads, sendData(t), NEW e \in Ends
    PROVE  FlowInv(e)'
<1> DEFINE g == EndOf[t]
           to == Peer(EndOf[t])
           data(n) == <<Message("DATA", [i \in 1 .. n |-> sent[to] + i])>>
<1>1. /\ g \in Ends /\ t \in Senders(g) /\ to \in Ends /\ Peer(to) = g /\ to # g /\ t \in Threads \cup Ends
      /\ sent \in [Ends -> Nat] /\ MaxChunk \in Nat
  BY EndsAre, SendersAre, BoundsAssumption DEF TypeInv, CallTypes
<1>2. PICK n \in 1 .. MaxChunk : StartSend(t, g, data(n)) /\ sent' = [sent EXCEPT ![to] = @ + n]
  BY DEF sendData
<1>3. pc[t] = "idle" /\ UNCHANGED <<link, net, got, dropped, PollingBuffer>>
  BY DEF sendData, Begin, stored
<1>4. todo[t] = <<>>
  BY <1>3 DEF SenderInv, Sending
<1>5. /\ \A h \in Ends : mixed[h] => mixed'[h]
      /\ ~mixed'[g] => \A b \in Senders(g) : b # t => todo[b] = <<>>
      /\ \A b \in Threads \cup Ends : todo'[b] = IF b = t THEN data(n) ELSE todo[b]
  <2> PICK messages : messages = data(n)
    OBVIOUS
  <2>1. StartSend(t, g, messages)
    BY <1>2
  <2> HIDE DEF data, g, to
  <2> QED
    BY <1>1, <2>1, StartIs
<1>6. n \in Nat \ {0} /\ sent[to] \in Nat
  BY <1>1, <1>2
<1>7. Carries(data(n), sent[to], sent[to] + n)
  BY <1>6, OneData
<1> HIDE DEF data
<1>8. Received(e)' = Received(e) /\ dropped'[e] = dropped[e] /\ net'[e] = net[e] /\ (Flowing(e)' => Flowing(e))
  BY <1>3, <1>5, EndsAre DEF Received, Flowing
<1>9. CASE e # to
  <2>1. t \notin Senders(Peer(e)) /\ sent'[e] = sent[e]
    BY <1>1, <1>2, <1>9, SendersAre, EndsAre
  <2>2. \A b \in Senders(Peer(e)) : todo'[b] = todo[b]
    BY <1>5, <2>1, SendersAre, EndsAre
  <2>3. Unsent(e)' = Unsent(e)
    BY <2>2 DEF Unsent
  <2> QED
    BY <1>8, <2>1, <2>3, FlowGoesOn
<1>10. CASE e = to
  <2>1. PICK r \in Nat, m \in Nat : r <= m /\ m <= sent[e] /\ Flow(e, r, m) /\ sent[e] \in Nat
    BY FlowIs
  <2>2. sent'[e] = sent[e] + n /\ Peer(e) = g /\ Senders(g) \subseteq Threads \cup Ends
    BY <1>1, <1>2, <1>10, SendersAre
  <2>3. Flowing(e)' => Unsent(e)' = (m + 1) .. sent'[e]
    <3>1. SUFFICES ASSUME Flowing(e)' PROVE Unsent(e)' = (m + 1) .. sent'[e]
      OBVIOUS
    <3>2. Unsent(e) = (m + 1) .. sent[e]
      BY <1>8, <2>1, <3>1 DEF Flow
    <3>3. \A b \in Senders(g) : b # t => todo[b] = <<>> /\ todo'[b] = <<>>
      BY <1>5, <2>2, <3>1 DEF Flowing
    <3>4. Units(<<>>) = {}
      BY NothingData
    <3>5. Unsent(e) = {}
      <4>1. \A b \in Senders(Peer(e)) : Units(todo[b]) = {}
        BY <1>4, <2>2, <3>3, <3>4
      <4> QED
        BY <4>1 DEF Unsent
    <3>6. m = sent[e]
      <4>1. ASSUME m # sent[e] PROVE FALSE
        <5>1. sent[e] \in (m + 1) .. sent[e]
          BY <2>1, <4>1
        <5> QED
          BY <3>2, <3>5, <5>1
      <4> QED
        BY <4>1
    <3>7. Unsent(e)' = Units(data(n))
      <4>1. todo'[t] = data(n) /\ t \in Senders(Peer(e))
        BY <1>1, <1>5, <2>2
      <4>2. ASSUME NEW u PROVE u \in Unsent(e)' <=> u \in Units(data(n))
        BY <2>2, <3>3, <3>4, <4>1 DEF Unsent
      <4> QED
        BY <4>2 DEF Unsent
    <3> QED
      BY <1>7, <1>10, <2>2, <3>6, <3>7 DEF Carries
  <2>4. Flow(e, r, m)'
    BY <1>8, <2>1, <2>3 DEF Flow
  <2>5. r \in 0 .. sent'[e] /\ m \in r .. sent'[e]
    BY <1>6, <2>1, <2>2
  <2> QED
    BY <2>4, <2>5 DEF FlowInv
<1> QED
  BY <1>9, <1>10

LEMMA NothingCarries == \A k \in Nat : Carries(<<>>, k, k)
  BY NothingData, NoDataCarries

LEMMA FlowPasses ==
    ASSUME TypeInv, DataInv, NEW f \in Ends, Passes(f), NEW e \in Ends
    PROVE  FlowInv(e)'
<1>1. /\ UNCHANGED <<todo, mixed, sent, link, got, dropped, PollingBuffer>> /\ DOMAIN net = Ends /\ net[f] \in Seq(Made)
      /\ net[f] # <<>> /\ ~IsData(Head(net[f])) /\ net' = [net EXCEPT ![f] = Tail(@)]
  BY DEF Passes, TypeInv, LinkTypes
<1>2. \A r, n \in Nat : r <= n /\ Carries(net[e], r, n) => Carries(net'[e], r, n)
  BY <1>1, CarriesRest
<1>3. Received(e)' = Received(e) /\ (Flowing(e)' <=> Flowing(e)) /\ Unsent(e)' = Unsent(e)
  BY <1>1 DEF Received, Flowing, Unsent
<1> QED
  BY <1>1, <1>2, <1>3, FlowGoesOn

LEMMA FlowRests ==
    ASSUME TypeInv, DataInv, Rests, NEW e \in Ends
    PROVE  FlowInv(e)'
<1>1. Received(e)' = Received(e) /\ (Flowing(e)' => Flowing(e)) /\ Unsent(e)' = Unsent(e)
  BY EndsAre DEF Rests, Received, Flowing, Unsent
<1>2. UNCHANGED <<net, dropped, sent>>
  BY DEF Rests
<1> QED
  BY <1>1, <1>2, FlowGoesOn

(* A reader takes out of the buffer what the application gets. *)
LEMMA FlowReads ==
    ASSUME TypeInv, DataInv, NEW t \in Threads, readData(t)
    PROVE  DataInv'
<1> DEFINE d == EndOf[t]
           b == PollingBuffer[d]
<1>1. /\ d \in Ends /\ got \in [Ends -> Seq(Nat)] /\ PollingBuffer \in [Ends -> Seq(Nat)] /\ got[d] \in Seq(Nat) /\ b \in Seq(Nat)
      /\ MaxChunk \in Nat /\ b # <<>>
      /\ \A e \in Ends : DatMode[e] = "callback" => PollingBuffer[e] = <<>>
  BY EndsAre, BoundsAssumption DEF readData, DataInv, TypeInv, StoredTypes
<1>2. PICK n \in 0 .. Len(b) : /\ got' = [got EXCEPT ![d] = @ \o SubSeq(b, 1, n)]
                               /\ PollingBuffer' = [PollingBuffer EXCEPT ![d] = Rest(@, n)]
  <2>1. PICK size \in 1 .. MaxChunk : LET n == IF Len(b) < size THEN Len(b) ELSE size IN
                                          /\ got' = [got EXCEPT ![d] = @ \o SubSeq(b, 1, n)]
                                          /\ PollingBuffer' = [PollingBuffer EXCEPT ![d] = Rest(@, n)]
    BY DEF readData
  <2>2. Len(b) \in Nat /\ (IF Len(b) < size THEN Len(b) ELSE size) \in 0 .. Len(b)
    BY <1>1, LenProperties
  <2> QED
    BY <2>1, <2>2
<1>3. UNCHANGED <<link, net, todo, sent, dropped, mixed, DatMode>>
  BY DEF readData, conf
<1>4. SubSeq(b, 1, n) \in Seq(Nat) /\ Rest(b, n) \in Seq(Nat) /\ (got[d] \o SubSeq(b, 1, n)) \o Rest(b, n) = got[d] \o b
  BY <1>1, TakenIs
<1>5. got[d] \o SubSeq(b, 1, n) \in Seq(Nat)
  BY <1>1, <1>4, ConcatProperties
<1>6. got' \in [Ends -> Seq(Nat)]
  BY <1>1, <1>2, <1>5
<1>7. got'[d] = got[d] \o SubSeq(b, 1, n) /\ PollingBuffer'[d] = Rest(b, n)
      /\ \A e \in Ends : e # d => got'[e] = got[e] /\ PollingBuffer'[e] = PollingBuffer[e]
  BY <1>1, <1>2
<1>8. ASSUME NEW e \in Ends PROVE Received(e)' = Received(e)
  BY <1>4, <1>7 DEF Received
<1>9. \A e \in Ends : DatMode'[e] = "callback" => PollingBuffer'[e] = <<>>
  BY <1>1, <1>3, <1>7
<1>10. ASSUME NEW e \in Ends PROVE FlowInv(e)'
  <2>1. (Flowing(e)' <=> Flowing(e)) /\ Unsent(e)' = Unsent(e)
    BY <1>3 DEF Flowing, Unsent
  <2> QED
    BY <1>3, <1>8, <2>1, FlowGoesOn
<1>11. dropped' \in [Ends -> SUBSET Nat]
  BY <1>3 DEF DataInv
<1> QED
  BY <1>6, <1>9, <1>10, <1>11 DEF DataInv

(* Data that arrive: the application gets them, or the buffer, or nobody. *)
LEMMA FlowReceives ==
    ASSUME TypeInv, StreamInv, DataInv, NEW f \in Ends, receiveData(f)
    PROVE  DataInv'
<1> DEFINE x == Head(net[f]).ids
<1>1. /\ got \in [Ends -> Seq(Nat)] /\ dropped \in [Ends -> SUBSET Nat] /\ PollingBuffer \in [Ends -> Seq(Nat)]
      /\ \A e \in Ends : DatMode[e] = "callback" => PollingBuffer[e] = <<>>
      /\ net[f] \in Seq(Made) /\ DOMAIN net = Ends /\ got[f] \in Seq(Nat) /\ PollingBuffer[f] \in Seq(Nat) /\ dropped[f] \subseteq Nat
  BY DEF DataInv, TypeInv, StoredTypes, LinkTypes
<1>2. /\ net[f] # <<>> /\ ~Head(net[f]).cut /\ Head(net[f]).type = "DATA" /\ net' = [net EXCEPT ![f] = Tail(@)]
      /\ rx[f].at = "header" /\ UNCHANGED <<link, todo, sent, mixed, DatMode>>
  BY DEF receiveData, Arrives, conf
<1>3. IsData(Head(net[f])) /\ x \in Seq(Nat)
  <2>1. ~Asking(f) /\ Aligned(net[f], Asking(f))
    BY <1>2 DEF Asking, StreamInv
  <2>2. Head(net[f]) \in Made /\ (Head(net[f]).ids = << 0 >> <=> Asking(f))
    BY <1>2, HeadAsked
  <2> QED
    BY <1>2, <2>1, <2>2, MadeIs DEF IsData
<1> HIDE DEF x
<1>4. /\ \A e \in Ends : e # f => got'[e] = got[e] /\ PollingBuffer'[e] = PollingBuffer[e] /\ dropped'[e] = dropped[e]
      /\ \/ DatMode[f] = "callback" /\ got'[f] = got[f] \o x /\ PollingBuffer'[f] = PollingBuffer[f] /\ dropped'[f] = dropped[f]
         \/ /\ DatMode[f] # "callback" /\ PollingBuffer'[f] = PollingBuffer[f] \o x
            /\ got'[f] = got[f] /\ dropped'[f] = dropped[f]
         \/ got'[f] = got[f] /\ PollingBuffer'[f] = PollingBuffer[f] /\ dropped'[f] = dropped[f] \cup ToSet(x)
      /\ got' \in [Ends -> Seq(Nat)] /\ dropped' \in [Ends -> SUBSET Nat]
  <2>1. ToSet(x) \subseteq Nat /\ got[f] \o x \in Seq(Nat)
    BY <1>1, <1>3, ToSetIs, ConcatProperties
  <2>2. CASE DatMode[f] = "callback"
    <3>1. got' = [got EXCEPT ![f] = @ \o x] /\ UNCHANGED <<PollingBuffer, dropped>>
      BY <2>2 DEF receiveData, x
    <3> QED
      BY <1>1, <2>1, <2>2, <3>1
  <2>3. CASE DatMode[f] = "polling" /\ Fits(f, x)
    <3>1. PollingBuffer' = [PollingBuffer EXCEPT ![f] = @ \o x] /\ UNCHANGED <<got, dropped>>
      BY <2>3 DEF receiveData, x
    <3> QED
      BY <1>1, <2>3, <3>1
  <2>4. CASE DatMode[f] # "callback" /\ ~(DatMode[f] = "polling" /\ Fits(f, x))
    <3>1. dropped' = [dropped EXCEPT ![f] = @ \cup ToSet(x)] /\ UNCHANGED <<got, PollingBuffer>>
      BY <2>4 DEF receiveData, x
    <3> QED
      BY <1>1, <2>1, <3>1
  <2> QED
    BY <2>2, <2>3, <2>4
<1>5. \A e \in Ends : DatMode'[e] = "callback" => PollingBuffer'[e] = <<>>
  BY <1>1, <1>2, <1>4
<1>6. FlowInv(f)'
  <2>1. PICK r \in Nat, n \in Nat : r <= n /\ n <= sent[f] /\ Flow(f, r, n) /\ sent[f] \in Nat /\ Received(f) \in Seq(Nat)
    BY FlowIs
  <2>2. Holds(Received(f), dropped[f], r) /\ Carries(net[f], r, n)
    BY <2>1 DEF Flow
  <2>3. PICK m \in r .. n : Increasing(x) /\ ToSet(x) = (r + 1) .. m /\ Carries(Tail(net[f]), m, n)
    BY <1>1, <1>2, <1>3, <2>1, <2>2, CarriesRest DEF x
  <2>4. m \in Nat /\ r <= m /\ m <= n
    BY <2>1, <2>3
  <2>5. Holds(Received(f) \o x, dropped[f], m) /\ Holds(Received(f), dropped[f] \cup ToSet(x), m)
    BY <1>3, <2>1, <2>2, <2>3, <2>4, HoldsMore
  <2>6. Holds(Received(f), dropped[f], m)'
    <3>1. CASE DatMode[f] = "callback" /\ got'[f] = got[f] \o x /\ PollingBuffer'[f] = PollingBuffer[f] /\ dropped'[f] = dropped[f]
      <4>1. Received(f) = got[f] /\ Received(f)' = got[f] \o x
        <5>1. PollingBuffer[f] = <<>> /\ got[f] \o x \in Seq(Nat)
          BY <1>1, <1>3, <3>1, ConcatProperties
        <5> QED
          BY <1>1, <3>1, <5>1, ConcatEmptySeq DEF Received
      <4> QED
        BY <2>5, <3>1, <4>1 DEF Holds
    <3>2. CASE PollingBuffer'[f] = PollingBuffer[f] \o x /\ got'[f] = got[f] /\ dropped'[f] = dropped[f]
      <4>1. (got[f] \o PollingBuffer[f]) \o x = got[f] \o (PollingBuffer[f] \o x)
        BY <1>1, <1>3, Associative
      <4>2. Received(f)' = Received(f) \o x
        BY <3>2, <4>1 DEF Received
      <4> QED
        BY <2>5, <3>2, <4>2 DEF Holds
    <3>3. CASE got'[f] = got[f] /\ PollingBuffer'[f] = PollingBuffer[f] /\ dropped'[f] = dropped[f] \cup ToSet(x)
      <4>1. Received(f)' = Received(f)
        BY <3>3 DEF Received
      <4> QED
        BY <2>5, <3>3, <4>1 DEF Holds
    <3> QED
      BY <1>4, <3>1, <3>2, <3>3
  <2>7. Carries(net[f], m, n)'
    BY <1>1, <1>2, <2>3 DEF Carries
  <2>8. (Flowing(f)' <=> Flowing(f)) /\ Unsent(f)' = Unsent(f) /\ sent'[f] = sent[f]
    BY <1>2 DEF Flowing, Unsent
  <2>9. Flow(f, m, n)'
    BY <2>1, <2>6, <2>7, <2>8 DEF Flow
  <2>10. m \in 0 .. sent'[f] /\ n \in m .. sent'[f]
    BY <2>1, <2>4, <2>8
  <2> QED
    BY <2>9, <2>10 DEF FlowInv
<1>7. ASSUME NEW e \in Ends, e # f PROVE FlowInv(e)'
  <2>1. Received(e)' = Received(e) /\ dropped'[e] = dropped[e] /\ sent'[e] = sent[e] /\ net'[e] = net[e]
    BY <1>1, <1>2, <1>4, <1>7 DEF Received
  <2>2. (Flowing(e)' <=> Flowing(e)) /\ Unsent(e)' = Unsent(e)
    BY <1>2 DEF Flowing, Unsent
  <2> QED
    BY <2>1, <2>2, FlowGoesOn
<1> QED
  BY <1>4, <1>5, <1>6, <1>7 DEF DataInv

(* An end that closes, or misses a payload, gives up what is on its way to it; its peer may still get the *)
(* beginning of what the end has sent.                                                                    *)
LEMMA FlowGivenUp ==
    ASSUME TypeInv, DataInv, NEW f \in Ends, net' = [net EXCEPT ![f] = <<>>], ~Flowing(f)',
           UNCHANGED <<todo, mixed, sent, got, dropped, PollingBuffer>>, \A g \in Ends : link'[g] = "open" => link[g] = "open",
           NEW e \in Ends
    PROVE  FlowInv(e)'
<1>1. Received(e)' = Received(e) /\ Unsent(e)' = Unsent(e) /\ (Flowing(e)' => Flowing(e)) /\ DOMAIN net = Ends
  BY EndsAre DEF Received, Unsent, Flowing, TypeInv, LinkTypes
<1>2. CASE e = f
  <2>1. \A r, n \in Nat : r <= n => r \in r .. n /\ Carries(net'[e], r, r)
    BY <1>1, <1>2, NothingCarries
  <2> QED
    BY <1>1, <1>2, <2>1, FlowEnds
<1>3. CASE e # f
  <2>1. net'[e] = net[e]
    BY <1>1, <1>3
  <2> QED
    BY <1>1, <2>1, FlowGoesOn
<1> QED
  BY <1>2, <1>3

LEMMA FlowCloses ==
    ASSUME TypeInv, SenderInv, DataInv, NEW f \in Ends, closeLink(f), NEW e \in Ends
    PROVE  FlowInv(e)'
<1> DEFINE p == Peer(f)
           sending == net[p] \o todo[f]
<1>1. /\ p \in Ends /\ p # f /\ Peer(p) = f /\ (e = f \/ e = p) /\ f \in Threads \cup Ends
      /\ net \in [Ends -> Seq(Made)] /\ link \in [Ends -> {"open", "closing", "closed"}]
      /\ net[p] \in Seq(Made) /\ todo[f] \in Seq(Made) /\ DataIn(todo[f]) = {}
  BY EndsAre DEF TypeInv, LinkTypes, TodoTypes, SenderInv
<1>2. /\ UNCHANGED <<todo, mixed, sent, got, dropped, PollingBuffer>> /\ link' = [link EXCEPT ![f] = "closing"]
      /\ IF link[p] # "open" THEN net' = [net EXCEPT ![f] = <<>>]
         ELSE \E arrives \in {sending, Cut(sending), net[p], Cut(net[p]), <<>>} : net' = [net EXCEPT ![f] = <<>>, ![p] = arrives]
  BY DEF closeLink, stored, datHistory
<1>3. ~Flowing(f)' /\ ~Flowing(p)' /\ \A g \in Ends : link'[g] = "open" => link[g] = "open"
  BY <1>1, <1>2 DEF Flowing
<1>4. CASE link[p] # "open"
  BY <1>2, <1>3, <1>4, FlowGivenUp
<1>5. CASE link[p] = "open"
  <2>1. PICK arrives \in {sending, Cut(sending), net[p], Cut(net[p]), <<>>} : net' = [net EXCEPT ![f] = <<>>, ![p] = arrives]
    BY <1>2, <1>5
  <2>2. net'[f] = <<>> /\ net'[p] = arrives
    BY <1>1, <2>1
  <2>3. ASSUME NEW r \in Nat, NEW n \in Nat, r <= n, Carries(net[p], r, n)
        PROVE  \E m \in r .. n : Carries(arrives, r, m)
    <3>1. Carries(todo[f], n, n)
      BY <1>1, NoDataCarries
    <3>2. n <= n
      OBVIOUS
    <3> HIDE DEF p
    <3>3. sending \in Seq(Made) /\ Carries(sending, r, n)
      BY <1>1, <2>3, <3>1, <3>2, CarriesMore
    <3> HIDE DEF sending
    <3>4. (\E m \in r .. n : Carries(Cut(sending), r, m)) /\ (\E m \in r .. n : Carries(Cut(net[p]), r, m))
      BY <1>1, <2>3, <3>3, CarriesCut
    <3>5. r \in r .. n /\ n \in r .. n /\ Carries(<<>>, r, r)
      BY <2>3, NothingCarries
    <3> QED
      BY <2>1, <2>3, <3>3, <3>4, <3>5
  <2>4. \A r, n \in Nat : r <= n => r \in r .. n /\ Carries(<<>>, r, r)
    BY NothingCarries
  <2>5. Received(e)' = Received(e) /\ dropped'[e] = dropped[e] /\ sent'[e] = sent[e] /\ ~Flowing(e)'
    BY <1>1, <1>2, <1>3 DEF Received
  <2>6. \A r, n \in Nat : r <= n /\ Carries(net[e], r, n) => \E m \in r .. n : Carries(net'[e], r, m)
    BY <1>1, <2>2, <2>3, <2>4
  <2> QED
    BY <2>5, <2>6, FlowEnds
<1> QED
  BY <1>4, <1>5

LEMMA NextData ==
    ASSUME TypeInv, StreamInv, SenderInv, DataInv, [Next]_vars
    PROVE  DataInv'
<1>1. DatMode' = DatMode
  BY NextLink
<1>2. /\ got \in [Ends -> Seq(Nat)] /\ dropped \in [Ends -> SUBSET Nat]
      /\ \A e \in Ends : DatMode[e] = "callback" => PollingBuffer[e] = <<>>
  BY DEF DataInv
<1>3. ASSUME UNCHANGED <<got, dropped, PollingBuffer>>, \A e \in Ends : FlowInv(e)' PROVE DataInv'
  BY <1>1, <1>2, <1>3 DEF DataInv
<1>4. CASE Rests
  <2>1. UNCHANGED <<got, dropped, PollingBuffer>>
    BY <1>4 DEF Rests
  <2> QED
    BY <1>3, <1>4, <2>1, FlowRests
<1>5. ASSUME NEW f \in Ends, Passes(f) PROVE DataInv'
  <2>1. UNCHANGED <<got, dropped, PollingBuffer>>
    BY <1>5 DEF Passes
  <2> QED
    BY <1>3, <1>5, <2>1, FlowPasses
<1>6. ASSUME NEW f \in Ends, payloadFails(f) PROVE DataInv'
  <2>1. UNCHANGED <<link, todo, mixed, sent, got, dropped, PollingBuffer>> /\ net' = [net EXCEPT ![f] = <<>>]
    BY <1>6 DEF payloadFails, stored, datHistory
  <2>2. ~Flowing(f)'
    BY <1>6, <2>1 DEF payloadFails, Ended, Flowing
  <2> QED
    BY <1>3, <2>1, <2>2, FlowGivenUp
<1>7. ASSUME NEW f \in Ends, closeLink(f) PROVE DataInv'
  <2>1. UNCHANGED <<got, dropped, PollingBuffer>>
    BY <1>7 DEF closeLink, stored, datHistory
  <2> QED
    BY <1>3, <1>7, <2>1, FlowCloses
<1>8. ASSUME NEW t \in Threads, sendData(t) PROVE DataInv'
  <2>1. UNCHANGED <<got, dropped, PollingBuffer>>
    BY <1>8 DEF sendData, stored
  <2> QED
    BY <1>3, <1>8, <2>1, FlowSendData
<1>9. ASSUME NEW g \in Ends, NEW a \in Senders(g), Prepares(a, g) PROVE DataInv'
  <2>1. UNCHANGED <<got, dropped, PollingBuffer>>
    BY <1>9 DEF Prepares
  <2> QED
    BY <1>3, <1>9, <2>1, FlowPrepares
<1>10. ASSUME NEW g \in Ends, NEW a \in Senders(g), Sends(a, g) PROVE DataInv'
  <2>1. UNCHANGED <<got, dropped, PollingBuffer>>
    BY <1>10 DEF Sends
  <2> QED
    BY <1>3, <1>10, <2>1, FlowSends
<1> QED
  BY <1>4, <1>5, <1>6, <1>7, <1>8, <1>9, <1>10, FlowReads, FlowReceives, StepCases

LEMMA InitData == Init => SenderInv /\ DataInv
<1> SUFFICES ASSUME Init PROVE SenderInv /\ DataInv
  OBVIOUS
<1>1. /\ todo = [a \in Threads \cup Ends |-> <<>>] /\ mixed = [e \in Ends |-> FALSE]
      /\ net = [e \in Ends |-> <<>>] /\ PollingBuffer = [e \in Ends |-> <<>>]
      /\ sent = [e \in Ends |-> 0] /\ got = [e \in Ends |-> <<>>] /\ dropped = [e \in Ends |-> {}]
  BY DEF Init
<1>2. SenderInv
  BY <1>1, NothingData, SendersAre DEF SenderInv
<1>3. ASSUME NEW e \in Ends PROVE FlowInv(e)
  <2>1. Received(e) = <<>> /\ dropped[e] = {} /\ net[e] = <<>> /\ sent[e] = 0
    <3>1. <<>> \o <<>> = <<>>
      OBVIOUS
    <3> QED
      BY <1>1, <3>1 DEF Received
  <2>2. Holds(<<>>, {}, 0)
    <3>1. ToSet(<<>>) = {} /\ Increasing(<<>>) /\ 1 .. 0 = {}
      BY DEF ToSet, Increasing
    <3> QED
      BY <3>1 DEF Holds
  <2>3. Unsent(e) = {} /\ (0 + 1) .. 0 = {}
    <3>1. \A a \in Senders(Peer(e)) : Units(todo[a]) = {}
      BY <1>1, NothingData, SendersAre, EndsAre
    <3> QED
      BY <3>1 DEF Unsent
  <2>4. Flow(e, 0, 0)
    BY <2>1, <2>2, <2>3, NothingCarries DEF Flow
  <2>5. 0 \in 0 .. 0
    OBVIOUS
  <2> QED
    BY <2>1, <2>4, <2>5 DEF FlowInv
<1>4. got \in [Ends -> Seq(Nat)] /\ dropped \in [Ends -> SUBSET Nat] /\ \A e \in Ends : DatMode[e] = "callback" => PollingBuffer[e] = <<>>
  BY <1>1
<1> QED
  BY <1>2, <1>3, <1>4 DEF DataInv

(* What an end has received and what is on its way to it is what its peer's calls have sent, in order and each unit
   once, but for the messages that the full buffer lost; while both ends are open and one thread at a time sends, the
   rest is still with that thread. *)
THEOREM DataInOrder == Spec => []DataStream
<1>1. DataInv => DataStream
  <2>1. SUFFICES ASSUME DataInv, NEW e \in Ends
                 PROVE  \E received \in 0 .. sent[e] : \E carried \in received .. sent[e] :
                            /\ Increasing(Received(e)) /\ ToSet(Received(e)) = (1 .. received) \ dropped[e]
                            /\ InOrder(net[e]) /\ Units(net[e]) = (received + 1) .. carried
                            /\ link[e] = "open" /\ link[Peer(e)] = "open" /\ ~mixed[Peer(e)] => Unsent(e) = (carried + 1) .. sent[e]
    BY DEF DataStream
  <2>2. PICK r \in 0 .. sent[e] : \E n \in r .. sent[e] : Flow(e, r, n)
    BY <2>1 DEF DataInv, FlowInv
  <2>3. PICK n \in r .. sent[e] : Flow(e, r, n)
    BY <2>2
  <2> QED
    BY <2>3 DEF Flow, Holds, Carries, Flowing
<1>2. Spec => [](TypeInv /\ StreamInv /\ SenderInv /\ DataInv)
  BY InitTypeInv, NextTypeInv, InitData, NextSender, NextData, PTL DEF Spec
<1> QED
  BY <1>1, <1>2, PTL

=============================================================================
