-------------------------- MODULE FfiSessionProofs --------------------------
(* Proofs about a session of nxfr-ffi, for any manifests, window and event *)
(* capacity: the types, that an answer reaches the connection, that what   *)
(* is stored is a verified prefix of the manifest, that the verdicts the   *)
(* hosts get are true, and that in_flight is exact.                        *)
EXTENDS FfiSession, TLAPS, FiniteSetTheorems

(* Zenon first: it is quick and takes most leaves; SMT is cited where a    *)
(* leaf needs arithmetic, sequences or extensionality.                     *)
USE ZenonT(30), SMTT(30)

(* The steps by who takes them, and what each of them leaves alone.        *)
HandStep   == Dial \/ AcceptCall \/ CloseListener \/ ListenerStep \/ AcceptStep
              \/ ConnectStep
SenderStep == SendCall \/ SendStep \/ SendTimeout
AnswerStep == ReaderStep \/ (\E a \in BOOLEAN : Confirm(a)) \/ Refuse
EventStep  == (\E t \in Tasks : Emit(t)) \/ (\E e \in Hosts : Pump(e))
ClosingStep == \E e \in Hosts : Close(e) \/ CloseLocked(e) \/ CloseTimeout(e)

LEMMA Families ==
  ASSUME [Next]_vars
  PROVE  \/ Cut \/ HandStep \/ SenderStep \/ AnswerStep \/ RecvStep \/ EventStep
         \/ ClosingStep \/ UNCHANGED vars
  BY DEF Next, HandStep, SenderStep, AnswerStep, EventStep, ClosingStep, CloseStep,
         CloseFinished, Cancel

LEMMA HandFrame ==
  ASSUME HandStep
  PROVE  /\ UNCHANGED <<lock, cut, closer, events, finished, asked, todo, verdicts>>
         /\ UNCHANGED sending
         /\ UNCHANGED <<offer, refuse, early>> /\ UNCHANGED receiving
  <1> USE DEF channel, sending, offering, receiving
  <1>1. CASE Dial \/ AcceptCall \/ CloseListener
    BY <1>1 DEF Dial, AcceptCall, CloseListener
  <1>2. CASE ListenerStep
    BY <1>2 DEF ListenerStep, Handshake, HandshakeFails
  <1>3. CASE AcceptStep
    BY <1>3 DEF AcceptStep, AcceptTakes, AcceptClosed, Accepted, AcceptFails
  <1>4. CASE ConnectStep
    BY <1>4 DEF ConnectStep, Connected, ConnectFails
  <1> QED
    BY <1>1, <1>2, <1>3, <1>4 DEF HandStep

LEMMA SenderFrame ==
  ASSUME SenderStep
  PROVE  /\ UNCHANGED handshake /\ UNCHANGED <<conn, cut, open, closer>>
         /\ UNCHANGED channel /\ UNCHANGED <<verdicts, files, stale>>
         /\ UNCHANGED offering /\ UNCHANGED receiving
  <1> USE DEF handshake, channel, offering, receiving
  <1>1. CASE SendCall \/ SendTimeout
    BY <1>1 DEF SendCall, SendTimeout
  <1>2. CASE SendLock \/ SendAnswered \/ SendTimedOut
    BY <1>2 DEF SendLock, SendAnswered, SendTimedOut
  <1>3. CASE SendMeta \/ SendMetaAck \/ SendChunk
    BY <1>3 DEF SendMeta, SendMetaAck, SendChunk
  <1>4. CASE SendAcked \/ SendNextFile \/ SendComplete
    BY <1>4 DEF SendAcked, SendNextFile, SendComplete
  <1>5. CASE SendVerdict \/ SendReturns \/ SendFails
    BY <1>5 DEF SendVerdict, SendReturns, SendFails
  <1> QED
    BY <1>1, <1>2, <1>3, <1>4, <1>5 DEF SenderStep, SendStep

LEMMA AnswerFrame ==
  ASSUME AnswerStep
  PROVE  /\ UNCHANGED handshake /\ UNCHANGED <<lock, cut, open, closer>>
         /\ UNCHANGED channel /\ UNCHANGED verdicts /\ UNCHANGED sending
         /\ UNCHANGED <<rf, got, tmp, stored>>
  <1> USE DEF handshake, channel, sending, receiving
  <1>1. CASE ReaderStep
    BY <1>1 DEF ReaderStep, ReaderTake, ReaderRecv, ReaderPut
  <1>2. CASE Refuse \/ \E a \in BOOLEAN : Confirm(a)
    BY <1>2 DEF Refuse, Confirm
  <1> QED
    BY <1>1, <1>2 DEF AnswerStep

LEMMA RecvFrame ==
  ASSUME RecvStep
  PROVE  /\ UNCHANGED handshake /\ UNCHANGED <<conn, cut, open, closer>>
         /\ UNCHANGED channel /\ UNCHANGED verdicts /\ UNCHANGED sending
         /\ UNCHANGED offering
  BY DEF RecvStep, RecvLock, RecvOuter, RecvInner, RecvCheck, RecvAck, RecvReturns,
         RecvFails

LEMMA EventFrame ==
  ASSUME EventStep
  PROVE  /\ UNCHANGED handshake /\ UNCHANGED <<conn, lock, net, cut, open, closer>>
         /\ UNCHANGED sending /\ UNCHANGED offering /\ UNCHANGED receiving
  BY DEF EventStep, Emit, Pump

LEMMA ClosingFrame ==
  ASSUME ClosingStep
  PROVE  /\ UNCHANGED handshake /\ UNCHANGED <<lock, cut>> /\ UNCHANGED channel
         /\ UNCHANGED <<todo, verdicts>> /\ UNCHANGED sending /\ UNCHANGED offering
         /\ UNCHANGED receiving
  BY DEF ClosingStep, Close, CloseLocked, CloseTimeout

-----------------------------------------------------------------------------
(* Frames and channels.                                                    *)

LEMMA CtlType ==
  ASSUME files \in Seq(Nat),
         NEW k \in {"hello", "helloack", "request", "accept", "reject", "metaack",
                    "chunkack", "ack", "complete", "close"}
  PROVE  Ctl(k) \in Frames /\ Ctl(k).kind = k
  <1>1. Len(files) \in Nat
    BY SMTT(30)
  <1>2. 0 \in 0..Len(files) /\ 0 \in Nat
    BY <1>1, SMTT(30)
  <1> QED
    BY <1>2 DEF Ctl, Frames
LEMMA MetaType ==
  ASSUME NEW f \in 0..Len(files)
  PROVE  Meta(f) \in Frames /\ Meta(f).kind = "meta" /\ Meta(f).file = f
  <1>1. 0 \in Nat
    BY SMTT(30)
  <1> QED
    BY <1>1 DEF Meta, Frames
LEMMA ChunkType ==
  ASSUME NEW f \in 0..Len(files), NEW o \in Nat, NEW l \in BOOLEAN
  PROVE  /\ Chunk(f, o, l) \in Frames /\ Chunk(f, o, l).kind = "chunk"
         /\ Chunk(f, o, l).off = o
  BY DEF Chunk, Frames

LEMMA Taken ==
  ASSUME net \in [Hosts -> Seq(Frames)], NEW e \in Hosts, net[e] # <<>>
  PROVE  /\ Take(e) \in [Hosts -> Seq(Frames)]
         /\ Take(e)[e] = Tail(net[e])
         /\ \A p \in Hosts : p # e => Take(e)[p] = net[p]
  <1>1. Tail(net[e]) \in Seq(Frames)
    BY SMTT(30)
  <1> QED
    BY <1>1 DEF Take

LEMMA PeerType == /\ Peer("S") = "R" /\ Peer("R") = "S" /\ "S" \in Hosts /\ "R" \in Hosts
                  /\ \A e \in Hosts : e = "S" \/ e = "R"
  BY DEF Peer, Hosts

LEMMA Delivered ==
  ASSUME NEW n \in [Hosts -> Seq(Frames)], NEW e \in Hosts, NEW m \in Frames
  PROVE  /\ Deliver(e, m, n) \in [Hosts -> Seq(Frames)]
         /\ Deliver(e, m, n)[e] = n[e]
         /\ Deliver(e, m, n)[Peer(e)] \in {n[Peer(e)], Append(n[Peer(e)], m)}
         /\ ~Broken(e) => Deliver(e, m, n)[Peer(e)] = Append(n[Peer(e)], m)
  <1>1. Peer(e) \in Hosts /\ Peer(e) # e
    BY DEF Hosts, Peer
  <1>2. Append(n[Peer(e)], m) \in Seq(Frames)
    BY <1>1, SMTT(30)
  <1> QED
    BY <1>1, <1>2 DEF Deliver

-----------------------------------------------------------------------------
(* Type correctness, family by family.                                     *)

LEMMA HandStays == HandTypeOK /\ UNCHANGED handshake => HandTypeOK'
  BY DEF HandTypeOK, handshake
LEMMA EventStays == EventTypeOK /\ UNCHANGED channel /\ UNCHANGED <<todo, verdicts>> => EventTypeOK'
  BY DEF EventTypeOK, channel, Events
LEMMA SendStays == SendTypeOK /\ UNCHANGED sending => SendTypeOK'
  BY DEF SendTypeOK, sending
LEMMA RecvStays ==
  RecvTypeOK /\ UNCHANGED offering /\ UNCHANGED receiving /\ files' = files => RecvTypeOK'
  BY DEF RecvTypeOK, offering, receiving
LEMMA LinkStays ==
  LinkTypeOK /\ UNCHANGED <<conn, lock, net, cut, open, closer, files>> => LinkTypeOK'
  BY DEF LinkTypeOK, Frames

LEMMA TypeInit == Init => TypeOK
  <1> SUFFICES ASSUME Init PROVE TypeOK
    OBVIOUS
  <1>1. files \in Seq(Nat)
    BY FfiConstants DEF Init
  <1>2. Len(files) \in Nat
    BY <1>1, SMTT(30)
  <1>3. /\ 0 \in 0..Window /\ 0 \in 0..Len(files) /\ 0 \in Nat /\ 1 \in 1..(Len(files) + 1)
        /\ Len(<<>>) <= EventCap
    BY <1>2, FfiConstants, SMTT(30)
  <1>4. \A S : <<>> \in Seq(S)
    BY SMTT(30)
  <1>5. stale \in 0..Len(files)
    BY DEF Init
  <1>6. HandTypeOK /\ LinkTypeOK
    BY <1>4 DEF Init, HandTypeOK, LinkTypeOK
  <1>7. EventTypeOK
    BY <1>3, <1>4 DEF Init, EventTypeOK
  <1>8. SendTypeOK
    BY <1>1, <1>3, <1>5 DEF Init, SendTypeOK
  <1>9. RecvTypeOK
    BY <1>3, <1>4 DEF Init, RecvTypeOK
  <1> QED
    BY <1>6, <1>7, <1>8, <1>9 DEF TypeOK

LEMMA HandType ==
  ASSUME TypeOK, HandStep
  PROVE  TypeOK'
  <1>1. Frames' = Frames
    BY HandFrame DEF Frames, sending
  <1>2. net \in [Hosts -> Seq(Frames)] /\ files \in Seq(Nat)
    BY DEF TypeOK, LinkTypeOK, SendTypeOK
  <1>3. EventTypeOK' /\ SendTypeOK'
    BY HandFrame DEF TypeOK, EventTypeOK, SendTypeOK, sending
  <1>4. RecvTypeOK' /\ HandTypeOK'
    <2>1. CASE Dial \/ AcceptCall \/ CloseListener
      BY <2>1, HandFrame DEF Dial, AcceptCall, CloseListener, TypeOK, RecvTypeOK, HandTypeOK,
           sending, receiving, offering
    <2>2. CASE ListenerStep
      BY <2>2, HandFrame DEF ListenerStep, Handshake, HandshakeFails, TypeOK, RecvTypeOK,
           HandTypeOK, sending, receiving, offering
    <2>3. CASE AcceptStep
      BY <2>3, HandFrame DEF AcceptStep, AcceptTakes, AcceptClosed, Accepted, AcceptFails,
           TypeOK, RecvTypeOK, HandTypeOK, sending, receiving, offering
    <2>4. CASE ConnectStep
      BY <2>4, HandFrame DEF ConnectStep, Connected, ConnectFails, TypeOK, RecvTypeOK,
           HandTypeOK, sending, receiving, offering
    <2> QED
      BY <2>1, <2>2, <2>3, <2>4 DEF HandStep
  <1>5. net' \in [Hosts -> Seq(Frames)]
    <2>1. CASE UNCHANGED net
      BY <1>2, <2>1
    <2>2. CASE Handshake
      <3>1. Append(net["R"], Ctl("hello")) \in Seq(Frames)
        BY <1>2, CtlType, PeerType, SMTT(30)
      <3> QED
        BY <1>2, <2>2, <3>1, PeerType DEF Handshake
    <2>3. CASE Connected
      BY <1>2, <2>3, Taken, PeerType DEF Connected, Arrived
    <2>4. CASE Accepted
      BY <1>2, <2>4, Taken, Delivered, CtlType, PeerType DEF Accepted, Arrived
    <2> QED
      BY <2>1, <2>2, <2>3, <2>4 DEF HandStep, Dial, AcceptCall, CloseListener, ListenerStep,
         HandshakeFails, AcceptStep, AcceptTakes, AcceptClosed, AcceptFails, ConnectStep,
         ConnectFails
  <1>6. conn' \in [Hosts -> {"none", "call", "slot", "reader", "gone"}] /\ open' \in [Hosts -> BOOLEAN]
    BY PeerType DEF HandStep, Dial, AcceptCall, CloseListener, ListenerStep, Handshake,
       HandshakeFails, AcceptStep, AcceptTakes, AcceptClosed, Accepted, AcceptFails, ConnectStep,
       Connected, ConnectFails, TypeOK, LinkTypeOK
  <1>7. LinkTypeOK'
    BY <1>1, <1>5, <1>6, HandFrame DEF TypeOK, LinkTypeOK
  <1> QED
    BY <1>3, <1>4, <1>7 DEF TypeOK

LEMMA EventType ==
  ASSUME TypeOK, EventStep
  PROVE  TypeOK'
  <1>1. HandTypeOK' /\ LinkTypeOK' /\ SendTypeOK' /\ RecvTypeOK'
    BY EventFrame, HandStays, LinkStays, SendStays, RecvStays DEF TypeOK, sending
  <1>2. EventTypeOK'
    <2>0. EventTypeOK
      BY DEF TypeOK
    <2>1. ASSUME NEW t \in Tasks, Emit(t) PROVE EventTypeOK'
      <3> DEFINE e == HostOf(t)
      <3>1. e \in Hosts
        BY DEF HostOf, Hosts
      <3>2. todo[t] \in Events /\ todo' \in [Tasks -> Events \cup {"none"}]
        BY <2>0, <2>1 DEF Emit, EventTypeOK
      <3>3. events[e] \in Seq(Events) /\ verdicts[e] \in Seq({"complete", "error"})
        BY <2>0, <3>1 DEF EventTypeOK
      <3> HIDE DEF e
      <3>4. /\ Append(events[e], todo[t]) \in Seq(Events)
            /\ Len(Append(events[e], todo[t])) = Len(events[e]) + 1
        BY <3>2, <3>3, SMTT(30)
      <3>5. IsVerdict(todo[t]) => Append(verdicts[e], todo[t]) \in Seq({"complete", "error"})
        BY <3>3, SMTT(30) DEF IsVerdict
      <3>6. Len(events[e]) < EventCap => Len(events[e]) + 1 <= EventCap
        BY <3>3, FfiConstants, SMTT(30)
      <3>7. verdicts' \in [Hosts -> Seq({"complete", "error"})]
        BY <2>0, <2>1, <3>1, <3>5 DEF Emit, EventTypeOK, e
      <3>8. events' \in [Hosts -> Seq(Events)] /\ \A h \in Hosts : Len(events'[h]) <= EventCap
        BY <2>0, <2>1, <3>1, <3>4, <3>6 DEF Emit, EventTypeOK, e
      <3> QED
        BY <2>0, <2>1, <3>2, <3>7, <3>8 DEF Emit, EventTypeOK, Events
    <2>2. ASSUME NEW e \in Hosts, Pump(e) PROVE EventTypeOK'
      <3>1. events[e] \in Seq(Events) /\ events[e] # <<>> /\ Len(events[e]) <= EventCap
        BY <2>0, <2>2 DEF EventTypeOK, Pump
      <3>2. Tail(events[e]) \in Seq(Events) /\ Len(Tail(events[e])) <= EventCap
        BY <3>1, FfiConstants, SMTT(30)
      <3>3. finished' \in [Hosts -> BOOLEAN] /\ asked' \in BOOLEAN
        BY <2>0, <2>2, SMTT(30) DEF EventTypeOK, Pump, IsVerdict
      <3> QED
        BY <2>0, <2>2, <3>2, <3>3 DEF EventTypeOK, Pump, Events
    <2> QED
      BY <2>1, <2>2 DEF EventStep
  <1> QED
    BY <1>1, <1>2 DEF TypeOK

LEMMA ClosingType ==
  ASSUME TypeOK, ClosingStep
  PROVE  TypeOK'
  <1>1. HandTypeOK' /\ EventTypeOK' /\ SendTypeOK' /\ RecvTypeOK' /\ Frames' = Frames
    BY ClosingFrame, HandStays, EventStays, SendStays, RecvStays DEF TypeOK, sending, Frames
  <1>2. LinkTypeOK'
    <2>0. LinkTypeOK /\ files \in Seq(Nat)
      BY DEF TypeOK, SendTypeOK
    <2>1. PICK e \in Hosts : Close(e) \/ CloseLocked(e) \/ CloseTimeout(e)
      BY DEF ClosingStep
    <2>2. net' \in [Hosts -> Seq(Frames)]
      <3>1. Ctl("close") \in Frames
        BY <2>0, CtlType
      <3>2. Deliver(e, Ctl("close"), net) \in [Hosts -> Seq(Frames)]
        BY <2>0, <3>1, Delivered DEF LinkTypeOK
      <3> QED
        BY <2>0, <2>1, <3>2 DEF LinkTypeOK, Close, CloseLocked, CloseTimeout
    <2>3. conn' \in [Hosts -> {"none", "call", "slot", "reader", "gone"}]
      BY <2>0, <2>1 DEF LinkTypeOK, Close, CloseLocked, CloseTimeout
    <2>4. /\ open' \in [Hosts -> BOOLEAN] /\ closer' \in [Hosts -> {"none", "wait", "done"}]
          /\ lock' = lock /\ cut' = cut
      BY <2>0, <2>1 DEF LinkTypeOK, Close, CloseLocked, CloseTimeout
    <2> QED
      BY <1>1, <2>0, <2>2, <2>3, <2>4 DEF LinkTypeOK
  <1> QED
    BY <1>1, <1>2 DEF TypeOK

LEMMA AnswerType ==
  ASSUME TypeOK, AnswerStep
  PROVE  TypeOK'
  <1>0. LinkTypeOK /\ files \in Seq(Nat) /\ net \in [Hosts -> Seq(Frames)]
    BY DEF TypeOK, SendTypeOK, LinkTypeOK
  <1>1. HandTypeOK' /\ SendTypeOK' /\ Frames' = Frames
    BY AnswerFrame, HandStays, SendStays DEF TypeOK, sending, Frames
  <1>2. EventTypeOK'
    <2>1. todo' \in [Tasks -> Events \cup {"none"}]
      BY DEF AnswerStep, ReaderStep, ReaderTake, ReaderRecv, ReaderPut, Confirm, Refuse,
         TypeOK, EventTypeOK, Events, Tasks
    <2> QED
      BY <2>1, AnswerFrame DEF TypeOK, EventTypeOK, channel, Events
  <1>3. RecvTypeOK'
    <2>1. CASE ReaderStep
      BY <2>1, AnswerFrame DEF ReaderStep, ReaderTake, ReaderRecv, ReaderPut, receiving, sending,
         TypeOK, RecvTypeOK
    <2>2. CASE Refuse \/ \E a \in BOOLEAN : Confirm(a)
      BY <2>2, AnswerFrame DEF Refuse, Confirm, receiving, sending, TypeOK, RecvTypeOK
    <2> QED
      BY <2>1, <2>2 DEF AnswerStep
  <1>4. LinkTypeOK'
    <2>1. conn' \in [Hosts -> {"none", "call", "slot", "reader", "gone"}]
      BY <1>0, PeerType DEF AnswerStep, ReaderStep, ReaderTake, ReaderRecv, ReaderPut, Confirm,
         Refuse, LinkTypeOK
    <2>2. net' \in [Hosts -> Seq(Frames)]
      <3>1. Ctl("reject") \in Frames
        BY <1>0, CtlType
      <3>2. Deliver("R", Ctl("reject"), net) \in [Hosts -> Seq(Frames)]
        BY <1>0, <3>1, Delivered, PeerType
      <3>3. net["R"] # <<>> => Take("R") \in [Hosts -> Seq(Frames)]
        BY <1>0, Taken, PeerType
      <3> QED
        BY <1>0, <3>2, <3>3 DEF AnswerStep, ReaderStep, ReaderTake, ReaderRecv, ReaderPut, Confirm,
           Refuse
    <2> QED
      BY <1>0, <1>1, <2>1, <2>2, AnswerFrame DEF LinkTypeOK
  <1> QED
    BY <1>1, <1>2, <1>3, <1>4 DEF TypeOK

LEMMA SenderType ==
  ASSUME TypeOK, SenderStep
  PROVE  TypeOK'
  <1>0. /\ LinkTypeOK /\ files \in Seq(Nat) /\ net \in [Hosts -> Seq(Frames)]
        /\ lock \in [Hosts -> {"free", "send", "recv"}]
        /\ todo \in [Tasks -> Events \cup {"none"}] /\ sf \in 1..(Len(files) + 1)
        /\ so \in Nat /\ inflight \in 0..Window /\ SendTypeOK
    BY DEF TypeOK, SendTypeOK, LinkTypeOK, EventTypeOK
  <1>1. HandTypeOK' /\ RecvTypeOK' /\ Frames' = Frames
    BY SenderFrame, HandStays, RecvStays DEF TypeOK, Frames
  <1>2. Len(files) \in Nat
    BY <1>0, SMTT(30)
  <1>3. CASE SendCall \/ SendTimeout \/ SendTimedOut \/ SendReturns \/ SendFails
    <2>1. net' = net /\ sf' = sf /\ so' = so /\ inflight' = inflight
      BY <1>3 DEF SendCall, SendTimeout, SendTimedOut, SendReturns, SendFails
    <2>2. lock' \in [Hosts -> {"free", "send", "recv"}] /\ todo' \in [Tasks -> Events \cup {"none"}]
      BY <1>0, <1>3, PeerType DEF SendCall, SendTimeout, SendTimedOut, SendReturns, SendFails,
         FailSend, Tasks, Events
    <2>3. send' \in {"lock", "timedout", "done"}
      BY <1>3 DEF SendCall, SendTimeout, SendTimedOut, SendReturns, SendFails, FailSend
    <2>4. LinkTypeOK' /\ EventTypeOK'
      BY <1>0, <1>1, <2>1, <2>2, SenderFrame DEF LinkTypeOK, EventTypeOK, TypeOK, channel, Events
    <2>5. SendTypeOK'
      BY <1>0, <2>1, <2>3, SenderFrame DEF SendTypeOK
    <2> QED
      BY <1>1, <2>4, <2>5 DEF TypeOK
  <1>4. CASE SendLock \/ SendAnswered \/ SendVerdict
    <2>1. sf' = sf /\ so' = so /\ inflight' = inflight
      BY <1>4 DEF SendLock, SendAnswered, SendVerdict
    <2>2. lock' \in [Hosts -> {"free", "send", "recv"}] /\ todo' \in [Tasks -> Events \cup {"none"}]
      BY <1>0, <1>4, PeerType DEF SendLock, SendAnswered, SendVerdict, FailSend, Tasks, Events
    <2>3. send' \in {"offer", "file", "verdict", "done"}
      BY <1>4 DEF SendLock, SendAnswered, SendVerdict, FailSend
    <2>4. net' \in [Hosts -> Seq(Frames)]
      <3>1. Ctl("request") \in Frames
        BY <1>0, CtlType
      <3>2. Deliver("S", Ctl("request"), net) \in [Hosts -> Seq(Frames)]
        BY <1>0, <3>1, Delivered, PeerType
      <3>3. net["S"] # <<>> => Take("S") \in [Hosts -> Seq(Frames)]
        BY <1>0, Taken, PeerType
      <3> QED
        BY <1>0, <1>4, <3>2, <3>3 DEF SendLock, SendAnswered, SendVerdict
    <2>5. LinkTypeOK' /\ EventTypeOK'
      BY <1>0, <1>1, <2>4, <2>2, SenderFrame DEF LinkTypeOK, EventTypeOK, TypeOK, channel, Events
    <2>6. SendTypeOK'
      BY <1>0, <2>1, <2>3, SenderFrame DEF SendTypeOK
    <2> QED
      BY <1>1, <2>5, <2>6 DEF TypeOK
  <1>5. CASE SendMeta \/ SendComplete \/ SendMetaAck
    <2>1. sf' = sf /\ so' \in Nat /\ inflight' \in 0..Window
      <3>1. 0 \in Nat /\ 0 \in 0..Window
        BY FfiConstants, SMTT(30)
      <3> QED
        BY <1>0, <1>5, <3>1 DEF SendMeta, SendComplete, SendMetaAck
    <2>2. lock' \in [Hosts -> {"free", "send", "recv"}] /\ todo' \in [Tasks -> Events \cup {"none"}]
      BY <1>0, <1>5, PeerType DEF SendMeta, SendComplete, SendMetaAck, FailSend, Tasks, Events
    <2>3. /\ send' \in {"metaack", "stream", "final", "done"}
          /\ send' \in {"metaack", "stream"} => sf \in 1..Len(files)
      <3>1. sf <= Len(files) => sf \in 1..Len(files)
        BY <1>0, <1>2, SMTT(30)
      <3> QED
        BY <1>0, <1>5, <3>1 DEF SendMeta, SendComplete, SendMetaAck, FailSend, SendTypeOK
    <2>4. net' \in [Hosts -> Seq(Frames)]
      <3>1. sf <= Len(files) => sf \in 0..Len(files)
        BY <1>0, <1>2, SMTT(30)
      <3>2. Ctl("complete") \in Frames /\ (sf <= Len(files) => Meta(sf) \in Frames)
        BY <1>0, <3>1, CtlType, MetaType
      <3>3. /\ Deliver("S", Ctl("complete"), net) \in [Hosts -> Seq(Frames)]
            /\ sf <= Len(files) => Deliver("S", Meta(sf), net) \in [Hosts -> Seq(Frames)]
        BY <1>0, <3>2, Delivered, PeerType
      <3>4. net["S"] # <<>> => Take("S") \in [Hosts -> Seq(Frames)]
        BY <1>0, Taken, PeerType
      <3> QED
        BY <1>5, <3>3, <3>4 DEF SendMeta, SendComplete, SendMetaAck
    <2>5. LinkTypeOK' /\ EventTypeOK'
      BY <1>0, <1>1, <2>4, <2>2, SenderFrame DEF LinkTypeOK, EventTypeOK, TypeOK, channel, Events
    <2>6. SendTypeOK'
      BY <1>0, <2>1, <2>3, SenderFrame DEF SendTypeOK
    <2> QED
      BY <1>1, <2>5, <2>6 DEF TypeOK
  <1>6. CASE SendChunk \/ SendAcked \/ SendNextFile
    <2>0. send = "stream" /\ sf \in 1..Len(files)
      BY <1>0, <1>6 DEF SendChunk, SendAcked, SendNextFile, SendTypeOK
    <2>1. sf' \in 1..(Len(files) + 1) /\ so' \in Nat /\ inflight' \in 0..Window
      BY <1>0, <1>2, <1>6, <2>0, FfiConstants, SMTT(30) DEF SendChunk, SendAcked, SendNextFile
    <2>2. lock' = lock /\ todo' \in [Tasks -> Events \cup {"none"}]
      BY <1>0, <1>6, PeerType DEF SendChunk, SendAcked, SendNextFile, Tasks, Events
    <2>3. send' \in {"file", "stream"} /\ (send' = "stream" => sf' = sf)
      BY <1>6, <2>0 DEF SendChunk, SendAcked, SendNextFile
    <2>4. net' \in [Hosts -> Seq(Frames)]
      <3>1. sf \in 0..Len(files)
        BY <2>0, <1>2, SMTT(30)
      <3>2. (so + 1 = files[sf]) \in BOOLEAN
        OBVIOUS
      <3>3. Chunk(sf, so, so + 1 = files[sf]) \in Frames
        BY <1>0, <3>1, <3>2, ChunkType
      <3>4. Deliver("S", Chunk(sf, so, so + 1 = files[sf]), net) \in [Hosts -> Seq(Frames)]
        BY <1>0, <3>3, Delivered, PeerType
      <3>5. net["S"] # <<>> => Take("S") \in [Hosts -> Seq(Frames)]
        BY <1>0, Taken, PeerType
      <3> QED
        BY <1>0, <1>6, <3>4, <3>5 DEF SendChunk, SendAcked, SendNextFile
    <2>5. LinkTypeOK' /\ EventTypeOK'
      BY <1>0, <1>1, <2>4, <2>2, SenderFrame DEF LinkTypeOK, EventTypeOK, TypeOK, channel, Events
    <2>6. SendTypeOK'
      BY <1>0, <2>0, <2>1, <2>3, SenderFrame DEF SendTypeOK
    <2> QED
      BY <1>1, <2>5, <2>6 DEF TypeOK
  <1> QED
    BY <1>3, <1>4, <1>5, <1>6 DEF SenderStep, SendStep

LEMMA FrameFields ==
  ASSUME files \in Seq(Nat), NEW s \in Seq(Frames), s # <<>>
  PROVE  /\ Head(s) \in Frames /\ Head(s).file \in 0..Len(files)
         /\ Head(s).off \in Nat /\ Head(s).last \in BOOLEAN
  <1>1. Head(s) \in Frames
    BY SMTT(30)
  <1> QED
    BY <1>1 DEF Frames

LEMMA RecvType ==
  ASSUME TypeOK, RecvStep
  PROVE  TypeOK'
  <1>0. /\ LinkTypeOK /\ files \in Seq(Nat) /\ net \in [Hosts -> Seq(Frames)]
        /\ lock \in [Hosts -> {"free", "send", "recv"}]
        /\ todo \in [Tasks -> Events \cup {"none"}] /\ RecvTypeOK
        /\ net["R"] \in Seq(Frames)
    BY DEF TypeOK, SendTypeOK, LinkTypeOK, EventTypeOK, Hosts
  <1>1. HandTypeOK' /\ SendTypeOK' /\ Frames' = Frames
    BY RecvFrame, HandStays, SendStays DEF TypeOK, sending, Frames
  <1>2. lock' \in [Hosts -> {"free", "send", "recv"}] /\ todo' \in [Tasks -> Events \cup {"none"}]
    BY <1>0, PeerType DEF RecvStep, RecvLock, RecvOuter, RecvInner, RecvChunk, RecvCheck, RecvAck,
       RecvReturns, RecvFails, FailRecv, Tasks, Events
  <1>3. net' \in [Hosts -> Seq(Frames)]
    <2>1. \A k \in {"accept", "metaack", "chunkack", "ack"} : Ctl(k) \in Frames
      BY <1>0, CtlType
    <2>2. net["R"] # <<>> => Take("R") \in [Hosts -> Seq(Frames)]
      BY <1>0, Taken, PeerType
    <2>3. CASE RecvLock \/ RecvAck
      <3>1. /\ Deliver("R", Ctl("accept"), net) \in [Hosts -> Seq(Frames)]
            /\ Deliver("R", Ctl("ack"), net) \in [Hosts -> Seq(Frames)]
        BY <1>0, <2>1, Delivered, PeerType
      <3> QED
        BY <1>0, <2>3, <3>1 DEF RecvLock, RecvAck
    <2>4. CASE RecvOuter \/ RecvInner
      <3>1. net["R"] # <<>>
        BY <2>4 DEF RecvOuter, RecvInner
      <3>2. /\ Deliver("R", Ctl("metaack"), Take("R")) \in [Hosts -> Seq(Frames)]
            /\ Deliver("R", Ctl("chunkack"), Take("R")) \in [Hosts -> Seq(Frames)]
        BY <2>1, <2>2, <3>1, Delivered, PeerType
      <3> QED
        BY <2>2, <2>4, <3>1, <3>2 DEF RecvOuter, RecvInner, RecvChunk
    <2>5. CASE RecvCheck \/ RecvReturns \/ RecvFails
      BY <1>0, <2>5 DEF RecvCheck, RecvReturns, RecvFails
    <2> QED
      BY <2>3, <2>4, <2>5 DEF RecvStep
  <1>4. LinkTypeOK' /\ EventTypeOK'
    BY <1>0, <1>1, <1>2, <1>3, RecvFrame DEF LinkTypeOK, EventTypeOK, TypeOK, channel, Events
  <1>5. RecvTypeOK'
    <2>1. CASE RecvLock \/ RecvAck \/ RecvReturns \/ RecvFails
      BY <1>0, <2>1, RecvFrame DEF RecvLock, RecvAck, RecvReturns, RecvFails, FailRecv, RecvTypeOK,
         sending, offering
    <2>2. CASE RecvOuter
      <3>1. net["R"] # <<>> /\ Head(net["R"]).file \in 0..Len(files)
        BY <1>0, <2>2, FrameFields DEF RecvOuter
      <3>2. <<>> \in Seq((0..Len(files)) \X Nat)
        BY SMTT(30)
      <3> QED
        BY <1>0, <2>2, <3>1, <3>2, RecvFrame DEF RecvOuter, FailRecv, RecvTypeOK, sending, offering
    <2>3. CASE RecvInner
      <3> DEFINE m == Head(net["R"])
      <3>1. net["R"] # <<>> /\ m.file \in 0..Len(files) /\ m.off \in Nat
        BY <1>0, <2>3, FrameFields DEF RecvInner
      <3> HIDE DEF m
      <3>2. Append(got, <<m.file, m.off>>) \in Seq((0..Len(files)) \X Nat)
        BY <1>0, <3>1, SMTT(30) DEF RecvTypeOK
      <3>3. got' \in Seq((0..Len(files)) \X Nat) /\ rf' = rf /\ stored' = stored
        BY <1>0, <2>3, <3>2 DEF RecvInner, RecvChunk, RecvTypeOK, m
      <3>4. recv' \in {"inner", "check", "done"} /\ tmp' \in BOOLEAN
        BY <1>0, <2>3 DEF RecvInner, RecvChunk, FailRecv, RecvTypeOK
      <3> QED
        BY <1>0, <3>3, <3>4, RecvFrame DEF RecvTypeOK, sending, offering
    <2>4. CASE RecvCheck
      <3> DEFINE T == [file : 0..Len(files), data : Seq((0..Len(files)) \X Nat), changed : BOOLEAN]
                 r == [file |-> rf, data |-> got, changed |-> rf = stale]
      <3>1. r \in T
        BY <1>0 DEF RecvTypeOK
      <3>2. stored \in Seq(T)
        BY <1>0 DEF RecvTypeOK
      <3> HIDE DEF T, r
      <3>3. Append(stored, r) \in Seq(T)
        BY <3>1, <3>2, SMTT(30)
      <3>4. stored' \in Seq(T) /\ got' = got /\ rf' = rf
        BY <2>4, <3>2, <3>3 DEF RecvCheck, r
      <3>5. recv' \in {"outer", "ack", "done"} /\ tmp' = FALSE
        BY <2>4 DEF RecvCheck, FailRecv
      <3> QED
        BY <1>0, <3>4, <3>5, RecvFrame DEF RecvTypeOK, sending, offering, T
    <2> QED
      BY <2>1, <2>2, <2>3, <2>4 DEF RecvStep
  <1> QED
    BY <1>1, <1>4, <1>5 DEF TypeOK

LEMMA TypeNext == TypeOK /\ [Next]_vars => TypeOK'
  <1> SUFFICES ASSUME TypeOK, [Next]_vars PROVE TypeOK'
    OBVIOUS
  <1>1. CASE Cut
    <2>1. <<>> \in Seq(Frames)
      BY SMTT(30)
    <2> QED
      BY <1>1, <2>1, HandStays, EventStays, SendStays, RecvStays
         DEF Cut, TypeOK, LinkTypeOK, sending, Frames
  <1>2. CASE UNCHANGED vars
    BY <1>2, HandStays, LinkStays, EventStays, SendStays, RecvStays DEF vars, TypeOK, sending
  <1> QED
    BY <1>1, <1>2, Families, HandType, EventType, ClosingType, AnswerType, SenderType, RecvType

(* The variables keep their types and the event channel its capacity.      *)
THEOREM TypeCorrect == Spec => []TypeOK
  BY TypeInit, TypeNext, PTL DEF Spec

(* Who has the connection.  The calls of the handshake hand it over before *)
(* the reader or a transfer starts; a transfer holds the mutex and the     *)
(* connection from its first message to its return.                        *)
Running == {"outer", "inner", "check", "ack", "verdict"}
Sending == {"offer", "timedout", "file", "metaack", "stream", "final", "verdict"}
HandInv ==
  /\ pending # "none" => acc \in {"idle", "wait"}
  /\ dial = "idle" => pending = "none" /\ acc # "hello" /\ reader = "none"
  /\ dial = "idle" /\ listener => acc \in {"idle", "wait"}
  /\ acc # "done" => reader = "none" /\ ~open["R"] /\ closer["R"] = "none"
  /\ dial # "done" => send = "idle" /\ ~open["S"]
HoldInv ==
  /\ recv \in Running => lock["R"] = "recv" /\ conn["R"] = "slot"
  /\ send \in Sending => lock["S"] = "send" /\ conn["S"] = "slot"

(* The reader has the connection exactly while it reads and puts it back,  *)
(* and an answer given after that finds it, unless the host closed.        *)
ReaderInv ==
  /\ conn["R"] = "reader" <=> reader \in {"recv", "put"}
  /\ open["R"] => closer["R"] = "none" /\ conn["R"] \in {"slot", "reader"}
  /\ offer => recv = "idle" /\ refuse = "none"
  /\ recv = "idle" \/ refuse = "none"
  /\ offer \/ recv # "idle" \/ refuse # "none" => reader \in {"put", "done"}
  /\ ~early /\ (recv # "idle" \/ refuse # "none") => reader = "done"
  /\ refuse = "lock" /\ ~early => conn["R"] = "slot" \/ closer["R"] # "none"
  /\ refuse = "silent" => early \/ closer["R"] # "none"
OwnInv == HandInv /\ HoldInv /\ ReaderInv

LEMMA OwnInit == Init => OwnInv
  BY DEF Init, OwnInv, HandInv, HoldInv, ReaderInv, Running, Sending, Hosts

LEMMA OwnHand ==
  ASSUME TypeOK, OwnInv, HandStep
  PROVE  OwnInv'
  <1>0. /\ conn \in [Hosts -> {"none", "call", "slot", "reader", "gone"}]
        /\ open \in [Hosts -> BOOLEAN] /\ "S" \in Hosts /\ "R" \in Hosts
    BY DEF TypeOK, LinkTypeOK, Hosts
  <1>1. HandInv /\ HoldInv /\ ReaderInv
    BY DEF OwnInv
  <1>2. /\ lock' = lock /\ closer' = closer /\ send' = send /\ recv' = recv
        /\ offer' = offer /\ refuse' = refuse /\ early' = early
    BY HandFrame DEF sending, receiving
  <1>3. CASE Dial
    <2>1. reader' = reader /\ open' = open /\ acc' = acc /\ listener' = listener
      BY <1>3 DEF Dial, offering
    <2>2. /\ reader = "none" /\ recv = "idle" /\ refuse = "none" /\ send = "idle" /\ ~offer
          /\ (listener => ~open["R"])
      BY <1>1, <1>3 DEF Dial, HandInv, ReaderInv
    <2> QED
      BY <1>0, <1>1, <1>2, <1>3, <2>1, <2>2 DEF Dial, OwnInv, HandInv, HoldInv, ReaderInv, Running,
         Sending
  <1>4. CASE AcceptCall \/ AcceptTakes \/ AcceptClosed
    <2>1. conn' = conn /\ reader' = reader /\ open' = open /\ dial' = dial /\ listener' = listener
      BY <1>4 DEF AcceptCall, AcceptTakes, AcceptClosed, offering
    <2>2. HandInv'
      BY <1>1, <1>2, <1>4, <2>1 DEF AcceptCall, AcceptTakes, AcceptClosed, HandInv
    <2> QED
      BY <1>1, <1>2, <2>1, <2>2 DEF OwnInv, HoldInv, ReaderInv
  <1>5. CASE CloseListener \/ ListenerStep \/ AcceptFails
    <2>1. reader' = reader /\ open' = open
      BY <1>5 DEF CloseListener, ListenerStep, Handshake, HandshakeFails, AcceptFails, offering
    <2>2. HandInv'
      BY <1>1, <1>2, <1>5, <2>1 DEF CloseListener, ListenerStep, Handshake, HandshakeFails,
         AcceptFails, HandInv
    <2>3. \/ conn' = conn
          \/ conn' = [conn EXCEPT !["R"] = "gone"] /\ reader = "none" /\ ~open["R"]
      BY <1>1, <1>5 DEF CloseListener, ListenerStep, Handshake, HandshakeFails, AcceptFails, HandInv
    <2> QED
      BY <1>0, <1>1, <1>2, <2>1, <2>2, <2>3 DEF OwnInv, HoldInv, ReaderInv, Running
  <1>6. CASE Accepted
    BY <1>0, <1>1, <1>2, <1>6, SMTT(30) DEF Accepted, OwnInv, HandInv, HoldInv, ReaderInv, Running
  <1>7. CASE ConnectStep
    <2>1. /\ reader' = reader /\ acc' = acc /\ listener' = listener /\ pending' = pending
          /\ open'["R"] = open["R"] /\ conn'["R"] = conn["R"] /\ dial' = "done" /\ send = "idle"
      BY <1>0, <1>1, <1>7 DEF ConnectStep, Connected, ConnectFails, HandInv, offering
    <2> QED
      BY <1>1, <1>2, <2>1 DEF OwnInv, HandInv, HoldInv, ReaderInv, Sending
  <1> QED
    BY <1>3, <1>4, <1>5, <1>6, <1>7 DEF HandStep, AcceptStep

LEMMA OwnSender ==
  ASSUME TypeOK, OwnInv, SenderStep
  PROVE  OwnInv'
  <1>0. lock \in [Hosts -> {"free", "send", "recv"}] /\ "S" \in Hosts /\ "R" \in Hosts
    BY DEF TypeOK, LinkTypeOK, Hosts
  <1>1. HandInv /\ HoldInv /\ ReaderInv
    BY DEF OwnInv
  <1>2. /\ ReaderInv' /\ dial' = dial /\ recv' = recv /\ conn' = conn
        /\ open' = open /\ closer' = closer /\ acc' = acc /\ pending' = pending
        /\ listener' = listener /\ reader' = reader
    BY <1>1, SenderFrame, SMTT(30) DEF ReaderInv, handshake, offering, receiving
  <1>3. dial # "done" => send = "idle" /\ ~open["S"]
    BY <1>1 DEF HandInv
  <1>4. dial = "done"
    <2>1. open["S"] \/ send # "idle"
      <3>1. CASE SendCall \/ SendTimeout \/ SendLock \/ SendAnswered \/ SendTimedOut
        BY <3>1 DEF SendCall, SendTimeout, SendLock, SendAnswered, SendTimedOut
      <3>2. CASE SendMeta \/ SendMetaAck \/ SendChunk \/ SendAcked \/ SendNextFile
        BY <3>2 DEF SendMeta, SendMetaAck, SendChunk, SendAcked, SendNextFile
      <3>3. CASE SendComplete \/ SendVerdict \/ SendReturns \/ SendFails
        BY <3>3 DEF SendComplete, SendVerdict, SendReturns, SendFails
      <3> QED
        BY <3>1, <3>2, <3>3 DEF SenderStep, SendStep
    <2> QED
      BY <1>3, <2>1
  <1>5. HandInv'
    BY <1>1, <1>2, <1>4 DEF HandInv
  <1>6. lock'["R"] = lock["R"]
    <2>1. CASE lock' = lock
      BY <2>1
    <2>2. CASE lock' = [lock EXCEPT !["S"] = "send"] \/ FailSend \/ SendReturns
      BY <1>0, <2>2 DEF FailSend, SendReturns
    <2> QED
      BY <2>1, <2>2 DEF SenderStep, SendCall, SendTimeout, SendStep, SendLock, SendAnswered,
         SendTimedOut, SendMeta, SendMetaAck, SendChunk, SendAcked, SendNextFile, SendComplete,
         SendVerdict, SendFails
  <1>7. send' \in Sending => lock'["S"] = "send" /\ conn["S"] = "slot"
    <2>1. CASE SendLock
      BY <1>0, <2>1 DEF SendLock, FailSend, Sending
    <2>2. CASE SendCall \/ SendTimedOut \/ SendReturns \/ SendFails
      BY <2>2 DEF SendCall, SendTimedOut, SendReturns, SendFails, FailSend, Sending
    <2>3. CASE SendTimeout \/ SendMeta \/ SendChunk \/ SendAcked \/ SendNextFile \/ SendComplete \/ SendVerdict
      <3>1. lock' = lock /\ send \in Sending
        BY <2>3 DEF SendTimeout, SendMeta, SendChunk, SendAcked, SendNextFile, SendComplete,
           SendVerdict, Sending
      <3> QED
        BY <1>1, <3>1 DEF HoldInv
    <2>4. CASE SendAnswered \/ SendMetaAck
      <3>1. send \in Sending /\ (lock' = lock \/ send' = "done")
        BY <2>4 DEF SendAnswered, SendMetaAck, Sending, FailSend
      <3> QED
        BY <1>1, <3>1 DEF HoldInv, Sending
    <2> QED
      BY <2>1, <2>2, <2>3, <2>4 DEF SenderStep, SendStep
  <1> QED
    BY <1>1, <1>2, <1>5, <1>6, <1>7 DEF OwnInv, HoldInv

LEMMA OwnAnswer ==
  ASSUME TypeOK, OwnInv, AnswerStep
  PROVE  OwnInv'
  <1>0. /\ conn \in [Hosts -> {"none", "call", "slot", "reader", "gone"}]
        /\ "S" \in Hosts /\ "R" \in Hosts
    BY DEF TypeOK, LinkTypeOK, Hosts
  <1>1. HandInv /\ HoldInv /\ ReaderInv
    BY DEF OwnInv
  <1>2. /\ dial' = dial /\ listener' = listener /\ acc' = acc /\ pending' = pending
        /\ lock' = lock /\ open' = open /\ closer' = closer /\ send' = send
    BY AnswerFrame DEF handshake, sending
  <1>3. CASE ReaderTake \/ ReaderPut
    <2>1. /\ recv' = recv /\ refuse' = refuse /\ offer' = offer /\ early' = early
          /\ conn'["S"] = conn["S"] /\ lock["R"] = "free"
      BY <1>0, <1>3 DEF ReaderTake, ReaderPut, receiving
    <2>2. HandInv' /\ HoldInv'
      BY <1>1, <1>2, <1>3, <2>1 DEF HandInv, HoldInv, ReaderTake, ReaderPut
    <2>3. ReaderInv'
      <3>1. CASE ReaderTake
        BY <1>0, <1>1, <1>2, <2>1, <3>1, SMTT(30) DEF ReaderInv, ReaderTake
      <3>2. CASE ReaderPut
        BY <1>0, <1>1, <1>2, <2>1, <3>2, SMTT(30) DEF ReaderInv, ReaderPut
      <3> QED
        BY <1>3, <3>1, <3>2
    <2> QED
      BY <2>2, <2>3 DEF OwnInv
  <1>4. CASE ReaderRecv
    BY <1>1, <1>2, <1>4 DEF ReaderRecv, OwnInv, HandInv, HoldInv, ReaderInv, receiving
  <1>5. ASSUME NEW a \in BOOLEAN, Confirm(a) PROVE OwnInv'
    BY <1>1, <1>2, <1>5 DEF Confirm, OwnInv, HandInv, HoldInv, ReaderInv, Running
  <1>6. CASE Refuse
    BY <1>1, <1>2, <1>6 DEF Refuse, OwnInv, HandInv, HoldInv, ReaderInv, receiving
  <1> QED
    BY <1>3, <1>4, <1>5, <1>6 DEF AnswerStep, ReaderStep

LEMMA OwnRecv ==
  ASSUME TypeOK, OwnInv, RecvStep
  PROVE  OwnInv'
  <1>0. lock \in [Hosts -> {"free", "send", "recv"}] /\ "S" \in Hosts /\ "R" \in Hosts
    BY DEF TypeOK, LinkTypeOK, Hosts
  <1>1. HandInv /\ HoldInv /\ ReaderInv
    BY DEF OwnInv
  <1>2. /\ UNCHANGED handshake /\ conn' = conn /\ open' = open /\ closer' = closer /\ send' = send
        /\ reader' = reader /\ offer' = offer /\ refuse' = refuse /\ early' = early
    BY RecvFrame DEF sending, offering
  <1>3. HandInv'
    BY <1>1, <1>2 DEF HandInv, handshake
  <1>4. recv # "idle" /\ recv' # "idle"
    BY DEF RecvStep, RecvLock, RecvOuter, RecvInner, RecvChunk, RecvCheck, RecvAck, RecvReturns,
       RecvFails, FailRecv
  <1>5. ReaderInv'
    BY <1>1, <1>2, <1>4 DEF ReaderInv
  <1>6. lock'["S"] = lock["S"]
    <2>1. CASE lock' = lock
      BY <2>1
    <2>2. CASE lock' = [lock EXCEPT !["R"] = "recv"] \/ FailRecv \/ RecvReturns
      BY <1>0, <2>2 DEF FailRecv, RecvReturns
    <2> QED
      BY <2>1, <2>2 DEF RecvStep, RecvLock, RecvOuter, RecvInner, RecvChunk, RecvCheck, RecvAck,
         RecvFails
  <1>7. recv' \in Running => lock'["R"] = "recv" /\ conn["R"] = "slot"
    <2>1. CASE RecvLock
      BY <1>0, <2>1 DEF RecvLock, FailRecv, Running
    <2>2. CASE RecvOuter \/ RecvInner \/ RecvCheck \/ RecvAck
      <3>1. recv \in Running /\ (lock' = lock \/ recv' = "done")
        BY <2>2 DEF RecvOuter, RecvInner, RecvChunk, RecvCheck, RecvAck, FailRecv, Running
      <3> QED
        BY <1>1, <3>1 DEF HoldInv, Running
    <2>3. CASE RecvReturns \/ RecvFails
      BY <2>3 DEF RecvReturns, RecvFails, FailRecv, Running
    <2> QED
      BY <2>1, <2>2, <2>3 DEF RecvStep
  <1> QED
    BY <1>1, <1>2, <1>3, <1>5, <1>6, <1>7 DEF OwnInv, HoldInv

LEMMA OwnClosing ==
  ASSUME TypeOK, OwnInv, ClosingStep
  PROVE  OwnInv'
  <1>0. /\ conn \in [Hosts -> {"none", "call", "slot", "reader", "gone"}]
        /\ open \in [Hosts -> BOOLEAN] /\ closer \in [Hosts -> {"none", "wait", "done"}]
        /\ "S" \in Hosts /\ "R" \in Hosts
    BY DEF TypeOK, LinkTypeOK, Hosts
  <1>1. HandInv /\ HoldInv /\ ReaderInv
    BY DEF OwnInv
  <1>2. /\ UNCHANGED handshake /\ lock' = lock /\ send' = send /\ reader' = reader
        /\ offer' = offer /\ refuse' = refuse /\ early' = early /\ recv' = recv
    BY ClosingFrame DEF sending, offering, receiving
  <1>3. PICK e \in Hosts : Close(e) \/ CloseLocked(e) \/ CloseTimeout(e)
    BY DEF ClosingStep
  <1>4. CASE Close(e)
    BY <1>0, <1>1, <1>2, <1>4, SMTT(30) DEF Close, OwnInv, HandInv, HoldInv, ReaderInv, handshake
  <1>5. CASE CloseTimeout(e)
    BY <1>0, <1>1, <1>2, <1>5, SMTT(30) DEF CloseTimeout, OwnInv, HandInv, HoldInv, ReaderInv, handshake
  <1>6. CASE CloseLocked(e)
    <2>1. open' = open /\ lock[e] = "free" /\ closer[e] = "wait"
      BY <1>6 DEF CloseLocked
    <2>2. /\ \A h \in Hosts : h # e => conn'[h] = conn[h] /\ closer'[h] = closer[h]
          /\ closer'[e] = "done" /\ conn'[e] \in {conn[e], "gone"}
          /\ conn'[e] = "gone" => conn[e] \in {"slot", "gone"}
      BY <1>0, <1>6 DEF CloseLocked
    <2>3. HandInv' /\ HoldInv'
      BY <1>0, <1>1, <1>2, <2>1, <2>2 DEF HandInv, HoldInv, handshake
    <2>4. ReaderInv'
      BY <1>0, <1>1, <1>2, <2>1, <2>2 DEF ReaderInv
    <2> QED
      BY <2>3, <2>4 DEF OwnInv
  <1> QED
    BY <1>3, <1>4, <1>5, <1>6

LEMMA OwnNext == TypeOK /\ OwnInv /\ [Next]_vars => OwnInv'
  <1> SUFFICES ASSUME TypeOK, OwnInv, [Next]_vars PROVE OwnInv'
    OBVIOUS
  <1>1. CASE Cut \/ EventStep \/ UNCHANGED vars
    <2>1. /\ UNCHANGED handshake /\ UNCHANGED <<conn, lock, open, closer>>
          /\ UNCHANGED sending /\ UNCHANGED offering /\ UNCHANGED receiving
      BY <1>1, EventFrame DEF Cut, vars
    <2> QED
      BY <2>1 DEF handshake, sending, offering, receiving, OwnInv, HandInv, HoldInv, ReaderInv
  <1> QED
    BY <1>1, Families, OwnHand, OwnSender, OwnAnswer, OwnRecv, OwnClosing

LEMMA OwnCorrect == Spec => [](TypeOK /\ OwnInv)
  BY TypeInit, TypeNext, OwnInit, OwnNext, PTL DEF Spec

(* An answer of the host is lost only if nxfr_confirm came before the      *)
(* reader of nxfr_accept had put the connection back, or after nxfr_close. *)
THEOREM AnswerReaches == Spec => []AnswerLostOnlyEarly
  <1>1. OwnInv => AnswerLostOnlyEarly
    BY DEF OwnInv, ReaderInv, AnswerLostOnlyEarly
  <1> QED
    BY <1>1, OwnCorrect, PTL

(* What a host has been told and is about to be told: the sender nothing   *)
(* but progress before its transfer ends or its offer times out, the       *)
(* receiver by the reader or by do_receive_file and not by both.           *)
SaidS ==
  /\ send \in {"idle", "lock", "offer", "file", "metaack", "final"} =>
       todo["send"] = "none" /\ verdicts["S"] = <<>>
  /\ send = "stream" => todo["send"] \in {"none", "progress"} /\ verdicts["S"] = <<>>
  /\ send = "timedout" => \/ todo["send"] = "error" /\ verdicts["S"] = <<>>
                          \/ todo["send"] = "none" /\ verdicts["S"] = <<"error">>
  /\ send = "verdict" =>
       \/ todo["send"] \in {"complete", "error"} /\ verdicts["S"] = <<>>
       \/ todo["send"] = "none" /\ verdicts["S"] \in {<<"complete">>, <<"error">>}
  /\ send = "done" =>
       \/ todo["send"] = "error" /\ verdicts["S"] \in {<<>>, <<"error">>}
       \/ todo["send"] = "none" /\ verdicts["S"] \in {<<"complete">>, <<"error">>,
                                                      <<"error", "error">>}
SaidR ==
  /\ recv \in {"idle", "lock", "outer", "ack"} => todo["recv"] = "none"
  /\ recv \in {"inner", "check"} => todo["recv"] \in {"none", "progress"}
  /\ todo["reader"] \in {"none", "offer", "error"}
  /\ todo["reader"] # "none" => reader = "put"
  /\ todo["reader"] = "error" => ~offer /\ recv = "idle"
  /\ verdicts["R"] # <<>> =>
       /\ verdicts["R"] \in {<<"complete">>, <<"error">>}
       /\ todo["reader"] # "error" /\ todo["recv"] \notin {"complete", "error"}
       /\ \/ recv \in {"verdict", "done"}
          \/ recv = "idle" /\ ~offer /\ reader \in {"put", "done"}

LEMMA Verdicts ==
  /\ \A v : Append(<<>>, v) = <<v>>
  /\ Append(<<"error">>, "error") = <<"error", "error">>
  /\ \A v : <<v>> # <<>>
  <1>1. ASSUME NEW v PROVE Append(<<>>, v) = <<v>> /\ <<v>> # <<>>
    <2>1. <<>> \in Seq({v})
      BY SMTT(30)
    <2> QED
      BY <2>1, SMTT(30)
  <1>2. Append(<<"error">>, "error") = <<"error", "error">>
    <2> DEFINE s == Append(<<"error">>, "error")
               t == <<"error", "error">>
    <2>1. <<"error">> \in Seq({"error"}) /\ t \in Seq({"error"})
      BY SMTT(30)
    <2>2. s \in Seq({"error"}) /\ Len(s) = 2 /\ Len(t) = 2 /\ s[1] = "error" /\ s[2] = "error"
      BY <2>1, SMTT(30)
    <2>3. t[1] = "error" /\ t[2] = "error" /\ 1..2 = {1, 2}
      BY SMTT(30)
    <2> HIDE DEF s, t
    <2>4. \A i \in 1..Len(s) : s[i] = t[i]
      BY <2>2, <2>3
    <2>5. s = t
      BY <2>1, <2>2, <2>4, SMTT(30)
    <2> QED
      BY <2>5 DEF s, t
  <1> QED
    BY <1>1, <1>2

LEMMA SaidInit == Init => SaidS /\ SaidR
  BY DEF Init, SaidS, SaidR, Hosts, Tasks

LEMMA SaidStays ==
  /\ SaidS /\ UNCHANGED <<send, todo, verdicts>> => SaidS'
  /\ SaidR /\ UNCHANGED <<recv, reader, offer, todo, verdicts>> => SaidR'
  <1>1. SaidS /\ UNCHANGED <<send, todo, verdicts>> => SaidS'
    BY DEF SaidS
  <1>2. SaidR /\ UNCHANGED <<recv, reader, offer, todo, verdicts>> => SaidR'
    BY SMTT(30) DEF SaidR
  <1> QED
    BY <1>1, <1>2

LEMMA EmitEffect ==
  ASSUME TypeOK, NEW t \in Tasks, Emit(t)
  PROVE  /\ todo'[t] = "none" /\ \A u \in Tasks : u # t => todo'[u] = todo[u]
         /\ \A e \in Hosts : verdicts'[e] = IF e = HostOf(t) /\ IsVerdict(todo[t])
                                            THEN Append(verdicts[e], todo[t]) ELSE verdicts[e]
         /\ todo[t] # "none"
  <1>1. HostOf(t) \in Hosts
    BY DEF HostOf, Hosts
  <1> QED
    BY <1>1 DEF TypeOK, EventTypeOK, Emit

LEMMA SaidEvent ==
  ASSUME TypeOK, OwnInv, SaidS, SaidR, EventStep
  PROVE  SaidS' /\ SaidR'
  <1>0. send' = send /\ recv' = recv /\ reader' = reader /\ offer' = offer
    BY EventFrame DEF sending, receiving, offering
  <1>1. ASSUME NEW e \in Hosts, Pump(e) PROVE SaidS' /\ SaidR'
    BY <1>0, <1>1, SaidStays DEF Pump
  <1>2. ASSUME NEW t \in Tasks, Emit(t) PROVE SaidS' /\ SaidR'
    <2>0. "S" \in Hosts /\ "R" \in Hosts /\ t \in {"send", "reader", "recv"} /\ "send" \in Tasks
          /\ "recv" \in Tasks /\ "reader" \in Tasks
      BY DEF Hosts, Tasks
    <2>1. CASE t = "send"
      <3>1. HostOf(t) = "S"
        BY <2>1 DEF HostOf
      <3>2. /\ todo'["send"] = "none" /\ todo["send"] # "none"
            /\ verdicts'["S"] = IF IsVerdict(todo["send"]) THEN Append(verdicts["S"], todo["send"])
                                                          ELSE verdicts["S"]
            /\ todo'["recv"] = todo["recv"] /\ todo'["reader"] = todo["reader"]
            /\ verdicts'["R"] = verdicts["R"]
        BY <1>2, <2>0, <2>1, <3>1, EmitEffect
      <3>3. SaidR'
        BY <1>0, <3>2 DEF SaidR
      <3>4. send \in {"idle", "lock", "offer", "timedout", "file", "metaack", "stream",
                      "final", "verdict", "done"}
        BY DEF TypeOK, SendTypeOK
      <3>5. SaidS'
        BY <1>0, <3>2, <3>4, Verdicts DEF SaidS, IsVerdict
      <3> QED
        BY <3>3, <3>5
    <2>2. CASE t # "send"
      <3>1. HostOf(t) = "R"
        BY <2>2 DEF HostOf
      <3>2. /\ todo'["send"] = todo["send"] /\ verdicts'["S"] = verdicts["S"]
            /\ todo'[t] = "none" /\ todo[t] # "none"
            /\ verdicts'["R"] = IF IsVerdict(todo[t]) THEN Append(verdicts["R"], todo[t])
                                                      ELSE verdicts["R"]
            /\ t = "recv" => todo'["reader"] = todo["reader"]
            /\ t = "reader" => todo'["recv"] = todo["recv"]
        BY <1>2, <2>0, <2>2, <3>1, EmitEffect
      <3>3. SaidS'
        BY <1>0, <3>2 DEF SaidS
      <3>4. recv \in {"idle", "lock", "outer", "inner", "check", "ack", "verdict", "done"}
        BY DEF TypeOK, RecvTypeOK
      <3>5. CASE t = "recv"
        <4>1. todo["reader"] # "error" \/ recv = "idle"
          BY DEF SaidR
        <4>2. SaidR'
          BY <1>0, <3>2, <3>4, <3>5, <4>1, Verdicts DEF SaidR, IsVerdict
        <4> QED
          BY <3>3, <4>2
      <3>6. CASE t = "reader"
        <4>1. SaidR'
          BY <1>0, <3>2, <3>4, <3>6, Verdicts DEF SaidR, IsVerdict
        <4> QED
          BY <3>3, <4>1
      <3> QED
        BY <2>0, <2>2, <3>5, <3>6
    <2> QED
      BY <2>1, <2>2
  <1> QED
    BY <1>1, <1>2 DEF EventStep

LEMMA SaidSender ==
  ASSUME TypeOK, SaidS, SaidR, SenderStep
  PROVE  SaidS' /\ SaidR'
  <1>0. todo \in [Tasks -> Events \cup {"none"}] /\ Tasks = {"send", "reader", "recv"}
    BY DEF TypeOK, EventTypeOK, Tasks
  <1>1. verdicts' = verdicts /\ recv' = recv /\ reader' = reader /\ offer' = offer
    BY SenderFrame DEF receiving, offering
  <1>2. CASE SendCall \/ SendMeta \/ SendChunk \/ SendNextFile \/ SendComplete \/ SendReturns
    <2>1. todo' = todo
      BY <1>2 DEF SendCall, SendMeta, SendChunk, SendNextFile, SendComplete, SendReturns
    <2>2. SaidS'
      BY <1>1, <1>2, <2>1 DEF SaidS, SendCall, SendMeta, SendChunk, SendNextFile, SendComplete,
         SendReturns
    <2> QED
      BY <1>1, <2>1, <2>2, SaidStays
  <1>3. ASSUME NEW v \in {"progress", "complete", "error"}, todo' = [todo EXCEPT !["send"] = v]
        PROVE  SaidR' /\ todo'["send"] = v
    <2>1. todo'["send"] = v /\ todo'["recv"] = todo["recv"] /\ todo'["reader"] = todo["reader"]
      BY <1>0, <1>3
    <2> QED
      BY <1>1, <2>1 DEF SaidR
  <1>4. CASE FailSend /\ send \in {"lock", "offer", "timedout", "file", "metaack", "stream", "final"}
             /\ (send \in {"timedout", "stream"} => todo["send"] = "none")
    <2>1. SaidR' /\ todo'["send"] = "error" /\ send' = "done"
      BY <1>3, <1>4 DEF FailSend
    <2>2. verdicts["S"] \in {<<>>, <<"error">>}
      BY <1>4 DEF SaidS
    <2> QED
      BY <1>1, <2>1, <2>2 DEF SaidS
  <1>5. CASE SendTimeout
    <2>1. SaidR' /\ todo'["send"] = "error" /\ send' = "timedout" /\ verdicts["S"] = <<>>
      BY <1>3, <1>5 DEF SendTimeout, SaidS
    <2> QED
      BY <1>1, <2>1 DEF SaidS
  <1>6. CASE SendVerdict
    <2>1. SaidR' /\ todo'["send"] \in {"complete", "error"} /\ send' = "verdict" /\ verdicts["S"] = <<>>
      BY <1>3, <1>6 DEF SendVerdict, SaidS
    <2> QED
      BY <1>1, <2>1 DEF SaidS
  <1>7. CASE SendAcked
    <2>1. send' = send /\ send = "stream" /\ verdicts["S"] = <<>>
      BY <1>7 DEF SendAcked, SaidS
    <2>2. CASE todo' = todo
      BY <1>1, <2>1, <2>2, SaidStays
    <2>3. CASE todo' = [todo EXCEPT !["send"] = "progress"]
      BY <1>1, <1>3, <2>1, <2>3 DEF SaidS
    <2> QED
      BY <1>7, <2>2, <2>3 DEF SendAcked
  <1>8. CASE SendLock \/ SendAnswered \/ SendMetaAck
    <2>1. CASE FailSend
      BY <1>4, <1>8, <2>1 DEF SendLock, SendAnswered, SendMetaAck
    <2>2. CASE todo' = todo /\ send' \in {"offer", "file", "stream"}
      <3>1. todo["send"] = "none" /\ verdicts["S"] = <<>>
        BY <1>8 DEF SaidS, SendLock, SendAnswered, SendMetaAck
      <3> QED
        BY <1>1, <2>2, <3>1, SaidStays DEF SaidS
    <2> QED
      BY <1>8, <2>1, <2>2 DEF SendLock, SendAnswered, SendMetaAck
  <1>9. CASE SendTimedOut \/ SendFails
    BY <1>4, <1>9 DEF SendTimedOut, SendFails
  <1> QED
    BY <1>2, <1>5, <1>6, <1>7, <1>8, <1>9 DEF SenderStep, SendStep

LEMMA SaidAnswer ==
  ASSUME TypeOK, OwnInv, SaidS, SaidR, AnswerStep
  PROVE  SaidS' /\ SaidR'
  <1>0. todo \in [Tasks -> Events \cup {"none"}] /\ Tasks = {"send", "reader", "recv"}
    BY DEF TypeOK, EventTypeOK, Tasks
  <1>1. verdicts' = verdicts /\ send' = send
    BY AnswerFrame DEF sending
  <1>2. ReaderInv
    BY DEF OwnInv
  <1>3. CASE ReaderTake \/ ReaderPut \/ Refuse
    <2>1. todo' = todo /\ offer' = offer /\ recv' = recv
      BY <1>3 DEF ReaderTake, ReaderPut, Refuse, receiving
    <2>2. SaidR'
      BY <1>1, <1>3, <2>1 DEF SaidR, ReaderTake, ReaderPut, Refuse
    <2> QED
      BY <1>1, <2>1, <2>2, SaidStays
  <1>4. ASSUME NEW a \in BOOLEAN, Confirm(a) PROVE SaidS' /\ SaidR'
    <2>1. todo' = todo /\ offer /\ recv = "idle" /\ reader' = reader /\ recv' \in {"idle", "lock"}
      BY <1>2, <1>4 DEF Confirm, ReaderInv
    <2>2. SaidR'
      BY <1>1, <2>1 DEF SaidR
    <2> QED
      BY <1>1, <2>1, <2>2, SaidStays
  <1>5. CASE ReaderRecv
    <2>1. /\ reader = "recv" /\ reader' = "put" /\ recv' = recv /\ recv = "idle" /\ ~offer
          /\ verdicts["R"] = <<>> /\ todo["recv"] = "none"
      BY <1>2, <1>5 DEF ReaderRecv, ReaderInv, SaidR, receiving
    <2>2. /\ todo'["send"] = todo["send"] /\ todo'["recv"] = todo["recv"]
          /\ todo'["reader"] \in {"none", "offer", "error"}
          /\ todo'["reader"] = "error" => offer' = offer
      BY <1>0, <1>5 DEF ReaderRecv, SaidR
    <2>3. SaidR'
      BY <1>1, <2>1, <2>2, SMTT(30) DEF SaidR
    <2> QED
      BY <1>1, <2>2, <2>3 DEF SaidS
  <1> QED
    BY <1>3, <1>4, <1>5 DEF AnswerStep, ReaderStep

LEMMA SaidRecv ==
  ASSUME TypeOK, OwnInv, SaidS, SaidR, RecvStep
  PROVE  SaidS' /\ SaidR'
  <1>0. todo \in [Tasks -> Events \cup {"none"}] /\ Tasks = {"send", "reader", "recv"}
    BY DEF TypeOK, EventTypeOK, Tasks
  <1>1. verdicts' = verdicts /\ send' = send /\ reader' = reader /\ offer' = offer
    BY RecvFrame DEF sending, offering
  <1>2. ~offer /\ todo["reader"] # "error"
    <2>1. recv # "idle"
      BY DEF RecvStep, RecvLock, RecvOuter, RecvInner, RecvCheck, RecvAck, RecvReturns, RecvFails
    <2> QED
      BY <2>1 DEF OwnInv, ReaderInv, SaidR
  <1>3. ASSUME NEW v \in {"progress", "complete", "error"}, todo' = [todo EXCEPT !["recv"] = v]
        PROVE  SaidS' /\ todo'["recv"] = v /\ todo'["reader"] = todo["reader"]
    <2>1. todo'["recv"] = v /\ todo'["send"] = todo["send"] /\ todo'["reader"] = todo["reader"]
      BY <1>0, <1>3
    <2> QED
      BY <1>1, <2>1 DEF SaidS
  <1>4. CASE FailRecv /\ recv \in {"lock", "outer", "inner", "check", "ack"}
    <2>1. SaidS' /\ todo'["recv"] = "error" /\ todo'["reader"] = todo["reader"] /\ recv' = "done"
      BY <1>3, <1>4 DEF FailRecv
    <2>2. verdicts["R"] = <<>>
      BY <1>4 DEF SaidR
    <2>3. SaidR'
      BY <1>1, <1>2, <2>1, <2>2 DEF SaidR
    <2> QED
      BY <2>1, <2>3
  <1>5. CASE todo' = todo /\ recv' \in {"outer", "inner", "check", "ack"} /\ todo["recv"] = "none"
             /\ recv \in {"lock", "outer", "inner", "check"}
    <2>1. SaidR'
      BY <1>1, <1>2, <1>5 DEF SaidR
    <2> QED
      BY <1>1, <1>5, <2>1, SaidStays
  <1>6. CASE RecvLock \/ RecvOuter \/ RecvCheck \/ RecvFails
    BY <1>4, <1>5, <1>6 DEF RecvLock, RecvOuter, RecvCheck, RecvFails, SaidR
  <1>7. CASE RecvInner
    <2>1. CASE FailRecv
      BY <1>4, <1>7, <2>1 DEF RecvInner
    <2>2. CASE todo' = [todo EXCEPT !["recv"] = "progress"] /\ recv' \in {"check", "inner"}
      <3>1. verdicts["R"] = <<>>
        BY <1>7 DEF SaidR, RecvInner
      <3>2. SaidR'
        BY <1>1, <1>2, <1>3, <2>2, <3>1 DEF SaidR
      <3> QED
        BY <1>3, <2>2, <3>2
    <2>3. CASE todo' = todo /\ recv' \in {"check", "inner"}
      BY <1>5, <1>7, <2>3 DEF RecvInner
    <2> QED
      BY <1>7, <2>1, <2>2, <2>3 DEF RecvInner, RecvChunk
  <1>8. CASE RecvAck
    <2>1. todo' = [todo EXCEPT !["recv"] = "complete"] /\ recv' = "verdict" /\ verdicts["R"] = <<>>
      BY <1>8 DEF RecvAck, SaidR
    <2>2. SaidR'
      BY <1>1, <1>2, <1>3, <2>1 DEF SaidR
    <2> QED
      BY <1>3, <2>1, <2>2
  <1>9. CASE RecvReturns
    <2>1. todo' = todo /\ recv = "verdict" /\ recv' = "done"
      BY <1>9 DEF RecvReturns
    <2>2. SaidR'
      BY <1>1, <1>2, <2>1 DEF SaidR
    <2> QED
      BY <1>1, <2>1, <2>2, SaidStays
  <1> QED
    BY <1>6, <1>7, <1>8, <1>9 DEF RecvStep

LEMMA SaidNext ==
  TypeOK /\ OwnInv /\ SaidS /\ SaidR /\ [Next]_vars => SaidS' /\ SaidR'
  <1> SUFFICES ASSUME TypeOK, OwnInv, SaidS, SaidR, [Next]_vars PROVE SaidS' /\ SaidR'
    OBVIOUS
  <1>1. CASE Cut \/ ClosingStep \/ UNCHANGED vars
    <2>1. UNCHANGED <<send, recv, reader, offer, todo, verdicts>>
      BY <1>1, ClosingFrame DEF Cut, vars, sending, receiving, offering
    <2> QED
      BY <2>1, SaidStays
  <1>2. CASE HandStep
    <2>1. UNCHANGED <<send, recv, offer, todo, verdicts>>
      BY <1>2, HandFrame DEF sending, receiving
    <2>2. reader' = reader \/ reader = "none"
      BY <1>2 DEF HandStep, Dial, AcceptCall, CloseListener, ListenerStep, Handshake,
         HandshakeFails, AcceptStep, AcceptTakes, AcceptClosed, Accepted, AcceptFails,
         ConnectStep, Connected, ConnectFails, offering, OwnInv, HandInv
    <2>3. reader = "none" => todo["reader"] = "none" /\ recv = "idle" /\ verdicts["R"] = <<>>
      BY DEF SaidR, OwnInv, ReaderInv
    <2>4. SaidR'
      BY <2>1, <2>2, <2>3 DEF SaidR
    <2> QED
      BY <2>1, <2>4, SaidStays
  <1> QED
    BY <1>1, <1>2, Families, SaidEvent, SaidSender, SaidAnswer, SaidRecv

-----------------------------------------------------------------------------
(* Frames of one kind in a channel: whether there is one, whether there is *)
(* at most one, and the file that FILE_METADATA announces.                 *)
In(s, k) == \E i \in DOMAIN s : s[i].kind = k
Once(s, k) == \A i, j \in DOMAIN s : s[i].kind = k /\ s[j].kind = k => i = j
MetaOf(s, f) == \A i \in DOMAIN s : s[i].kind = "meta" => s[i].file = f

(* Taking a frame, losing all, or adding one of another kind brings none   *)
(* of the frames of the kinds K.                                           *)
Calm(K, t, s) ==
  /\ \A k \in K : (In(t, k) => In(s, k)) /\ (Once(s, k) => Once(t, k))
  /\ \A f : MetaOf(s, f) => MetaOf(t, f)

(* The frames that steer a transfer from file to file, and all of its.     *)
Steering == {"accept", "meta", "metaack", "complete", "ack"}
Loud == Steering \cup {"chunk", "chunkack"}

LEMMA CalmSame == \A K, s : Calm(K, s, s)
  BY DEF Calm

LEMMA CalmEmpty == \A K, s : Calm(K, <<>>, s)
  <1>1. DOMAIN <<>> = {}
    BY SMTT(30)
  <1> QED
    BY <1>1 DEF Calm, In, Once, MetaOf

LEMMA TailFrames ==
  ASSUME NEW s \in Seq(Frames), s # <<>>
  PROVE  /\ 1 \in DOMAIN s /\ Head(s) = s[1]
         /\ \A i \in DOMAIN Tail(s) : i + 1 \in DOMAIN s /\ Tail(s)[i] = s[i + 1] /\ i + 1 # 1
         /\ \A i, j \in DOMAIN Tail(s) : i + 1 = j + 1 => i = j
  BY SMTT(30)

LEMMA AppendFrames ==
  ASSUME NEW s \in Seq(Frames), NEW m \in Frames
  PROVE  /\ DOMAIN Append(s, m) = DOMAIN s \cup {Len(s) + 1}
         /\ Len(s) + 1 \notin DOMAIN s
         /\ Append(s, m)[Len(s) + 1] = m
         /\ \A i \in DOMAIN s : Append(s, m)[i] = s[i]
  BY SMTT(30)

LEMMA CalmTail ==
  ASSUME NEW K, NEW s \in Seq(Frames), s # <<>>
  PROVE  Calm(K, Tail(s), s)
  BY TailFrames, SMTT(30) DEF Calm, In, Once, MetaOf

LEMMA CalmAppend ==
  ASSUME NEW K, NEW s \in Seq(Frames), NEW m \in Frames, m.kind \notin K, m.kind # "meta"
  PROVE  Calm(K, Append(s, m), s)
  <1> DEFINE t == Append(s, m)
  <1>1. /\ DOMAIN t = DOMAIN s \cup {Len(s) + 1} /\ t[Len(s) + 1] = m
        /\ \A i \in DOMAIN s : t[i] = s[i]
    BY AppendFrames
  <1> HIDE DEF t
  <1>3. \A f : MetaOf(s, f) => MetaOf(t, f)
    BY <1>1 DEF MetaOf
  <1>4. ASSUME NEW k \in K
        PROVE  (In(t, k) => In(s, k)) /\ (Once(s, k) => Once(t, k))
    BY <1>1, <1>4 DEF In, Once
  <1> QED
    BY <1>3, <1>4 DEF Calm, t

(* The frame at the head.                                                  *)
LEMMA HeadFrame ==
  ASSUME NEW s \in Seq(Frames), s # <<>>
  PROVE  /\ In(s, Head(s).kind)
         /\ \A k : Once(s, k) /\ Head(s).kind = k => ~In(Tail(s), k)
         /\ \A f : MetaOf(s, f) /\ Head(s).kind = "meta" => Head(s).file = f
  BY TailFrames, SMTT(30) DEF In, Once, MetaOf

(* A frame added.                                                          *)
LEMMA AddedFrame ==
  ASSUME NEW s \in Seq(Frames), NEW m \in Frames
  PROVE  /\ \A k : In(Append(s, m), k) <=> In(s, k) \/ m.kind = k
         /\ \A k : Once(s, k) /\ m.kind # k => Once(Append(s, m), k)
         /\ \A k : ~In(s, k) => Once(Append(s, m), k)
         /\ \A f : MetaOf(s, f) /\ (m.kind = "meta" => m.file = f) => MetaOf(Append(s, m), f)
         /\ \A f : ~In(s, "meta") /\ (m.kind = "meta" => m.file = f) => MetaOf(Append(s, m), f)
  <1> DEFINE t == Append(s, m)
  <1>1. /\ DOMAIN t = DOMAIN s \cup {Len(s) + 1} /\ t[Len(s) + 1] = m
        /\ \A i \in DOMAIN s : t[i] = s[i]
    BY AppendFrames
  <1> HIDE DEF t
  <1>2. \A k : In(t, k) <=> In(s, k) \/ m.kind = k
    BY <1>1 DEF In
  <1>3. /\ \A k : Once(s, k) /\ m.kind # k => Once(t, k)
        /\ \A k : ~In(s, k) => Once(t, k)
    BY <1>1 DEF In, Once
  <1>4. /\ \A f : MetaOf(s, f) /\ (m.kind = "meta" => m.file = f) => MetaOf(t, f)
        /\ \A f : ~In(s, "meta") /\ (m.kind = "meta" => m.file = f) => MetaOf(t, f)
    BY <1>1 DEF In, MetaOf
  <1> QED
    BY <1>2, <1>3, <1>4 DEF t

-----------------------------------------------------------------------------
(* The channels after the steps of the handshake, the reader and the       *)
(* closes.                                                                 *)
NetCalm(K) == Calm(K, net'["S"], net["S"]) /\ Calm(K, net'["R"], net["R"])

LEMMA Steers == NetCalm(Loud) => NetCalm(Steering)
  BY DEF NetCalm, Calm, Loud
LEMMA LoudKinds == /\ \A k \in {"hello", "helloack", "request", "reject", "close"} : k \notin Loud
                   /\ "meta" \in Loud
  BY DEF Loud, Steering

LEMMA TakeCalm ==
  ASSUME TypeOK, NEW e \in Hosts, net[e] # <<>>
  PROVE  Calm(Loud, Take(e)["S"], net["S"]) /\ Calm(Loud, Take(e)["R"], net["R"])
  <1>1. net \in [Hosts -> Seq(Frames)] /\ net[e] \in Seq(Frames)
    BY DEF TypeOK, LinkTypeOK
  <1>2. Take(e)[e] = Tail(net[e]) /\ \A p \in Hosts : p # e => Take(e)[p] = net[p]
    BY <1>1, Taken
  <1>3. \A p \in Hosts : Calm(Loud, Take(e)[p], net[p])
    BY <1>1, <1>2, CalmTail, CalmSame
  <1> QED
    BY <1>3, PeerType

LEMMA DeliverCalm ==
  ASSUME TypeOK, NEW e \in Hosts, NEW k \in {"helloack", "request", "reject", "close"},
         NEW n \in [Hosts -> Seq(Frames)], Calm(Loud, n["S"], net["S"]), Calm(Loud, n["R"], net["R"])
  PROVE  LET d == Deliver(e, Ctl(k), n)
         IN  Calm(Loud, d["S"], net["S"]) /\ Calm(Loud, d["R"], net["R"])
  <1> DEFINE d == Deliver(e, Ctl(k), n)
  <1>0. files \in Seq(Nat) /\ Hosts = {"S", "R"}
    BY DEF TypeOK, SendTypeOK, Hosts
  <1>1. Ctl(k) \in Frames /\ Ctl(k).kind = k /\ k \notin Loud
    BY <1>0, CtlType, LoudKinds
  <1>2. d[e] = n[e] /\ d[Peer(e)] \in {n[Peer(e)], Append(n[Peer(e)], Ctl(k))}
    BY <1>1, Delivered
  <1>3. \A p \in Hosts : Calm(Loud, Append(n[p], Ctl(k)), n[p])
    BY <1>1, CalmAppend, LoudKinds
  <1>4. \A r, s, t : Calm(Loud, r, s) /\ Calm(Loud, s, t) => Calm(Loud, r, t)
    BY DEF Calm
  <1> HIDE DEF d
  <1>5. Calm(Loud, d["S"], net["S"]) /\ Calm(Loud, d["R"], net["R"])
    <2>1. CASE e = "S"
      <3>1. d["S"] = n["S"] /\ d["R"] \in {n["R"], Append(n["R"], Ctl(k))}
        BY <1>2, <2>1, PeerType
      <3>2. d["R"] = n["R"] \/ Calm(Loud, d["R"], n["R"])
        BY <1>0, <1>3, <3>1
      <3> QED
        BY <1>4, <3>1, <3>2, SMTT(30)
    <2>2. CASE e = "R"
      <3>1. d["R"] = n["R"] /\ d["S"] \in {n["S"], Append(n["S"], Ctl(k))}
        BY <1>2, <2>2, PeerType
      <3>2. d["S"] = n["S"] \/ Calm(Loud, d["S"], n["S"])
        BY <1>0, <1>3, <3>1
      <3> QED
        BY <1>4, <3>1, <3>2, SMTT(30)
    <2> QED
      BY <1>0, <2>1, <2>2
  <1> QED
    BY <1>5 DEF d

LEMMA HandCalm ==
  ASSUME TypeOK, HandStep
  PROVE  NetCalm(Loud)
  <1>0. net \in [Hosts -> Seq(Frames)] /\ files \in Seq(Nat) /\ "S" \in Hosts /\ "R" \in Hosts
    BY DEF TypeOK, LinkTypeOK, SendTypeOK, Hosts
  <1>1. CASE UNCHANGED net
    BY <1>1, CalmSame DEF NetCalm
  <1>2. CASE Handshake
    <2>1. Ctl("hello") \in Frames /\ Ctl("hello").kind \notin Loud
      BY <1>0, CtlType, LoudKinds
    <2>2. net'["S"] = net["S"] /\ net'["R"] = Append(net["R"], Ctl("hello"))
      BY <1>0, <1>2 DEF Handshake
    <2> QED
      BY <1>0, <2>1, <2>2, CalmSame, CalmAppend, LoudKinds DEF NetCalm
  <1>3. CASE Connected
    BY <1>0, <1>3, TakeCalm DEF Connected, Arrived, NetCalm
  <1>4. CASE Accepted
    <2>1. net["R"] # <<>> /\ net' = Deliver("R", Ctl("helloack"), Take("R"))
      BY <1>4 DEF Accepted, Arrived
    <2>2. /\ Take("R") \in [Hosts -> Seq(Frames)] /\ Calm(Loud, Take("R")["S"], net["S"])
          /\ Calm(Loud, Take("R")["R"], net["R"])
      BY <1>0, <2>1, Taken, TakeCalm
    <2> QED
      BY <1>0, <2>1, <2>2, DeliverCalm DEF NetCalm
  <1> QED
    BY <1>1, <1>2, <1>3, <1>4 DEF HandStep, Dial, AcceptCall, CloseListener, ListenerStep,
       HandshakeFails, AcceptStep, AcceptTakes, AcceptClosed, AcceptFails, ConnectStep,
       ConnectFails

LEMMA AnswerCalm ==
  ASSUME TypeOK, AnswerStep
  PROVE  NetCalm(Loud)
  <1>0. net \in [Hosts -> Seq(Frames)] /\ "R" \in Hosts
    BY DEF TypeOK, LinkTypeOK, Hosts
  <1>1. CASE UNCHANGED net
    BY <1>1, CalmSame DEF NetCalm
  <1>2. CASE net["R"] # <<>> /\ net' = Take("R")
    BY <1>0, <1>2, TakeCalm DEF NetCalm
  <1>3. CASE net' = Deliver("R", Ctl("reject"), net)
    BY <1>0, <1>3, CalmSame, DeliverCalm DEF NetCalm
  <1> QED
    BY <1>1, <1>2, <1>3 DEF AnswerStep, ReaderStep, ReaderTake, ReaderRecv, ReaderPut, Confirm,
       Refuse

LEMMA ClosingCalm ==
  ASSUME TypeOK, ClosingStep
  PROVE  NetCalm(Loud)
  <1>0. net \in [Hosts -> Seq(Frames)]
    BY DEF TypeOK, LinkTypeOK
  <1>1. PICK e \in Hosts : Close(e) \/ CloseLocked(e) \/ CloseTimeout(e)
    BY DEF ClosingStep
  <1>2. CASE UNCHANGED net
    BY <1>2, CalmSame DEF NetCalm
  <1>3. CASE net' = Deliver(e, Ctl("close"), net)
    BY <1>0, <1>3, CalmSame, DeliverCalm DEF NetCalm
  <1> QED
    BY <1>1, <1>2, <1>3 DEF Close, CloseLocked, CloseTimeout

-----------------------------------------------------------------------------
(* The sender and the receiver are at the same file, or the receiver is    *)
(* still to learn of the sender's.  "Serving": the receiver has taken the  *)
(* FILE_METADATA of the sender's file; "Waiting": it has not.              *)
Serving == /\ recv = "outer" => sf = Len(stored)
           /\ recv \in {"inner", "check"} => sf = rf
Waiting == /\ recv = "outer" => sf = Len(stored) + 1
           /\ recv \in {"inner", "check"} => sf = rf + 1
Beginning == {"idle", "lock", "offer", "timedout"}
NothingYet == /\ sf = 1 /\ stored = <<>> /\ ~In(net["S"], "metaack")
              /\ ~In(net["R"], "meta") /\ ~In(net["R"], "complete")
Told == todo["send"] = "complete" \/ \E i \in DOMAIN verdicts["S"] : verdicts["S"][i] = "complete"

(* The frame on its way decides which of the two: a FILE_METADATA or a     *)
(* TRANSFER_COMPLETE can only meet a receiver that waits, its             *)
(* acknowledgement only comes from one that serves, and there is at most   *)
(* one of them at a time.                                                  *)
StartInv ==
  /\ recv \in {"idle", "lock"} => /\ send \in Beginning \cup {"done"} /\ NothingYet
                                  /\ ~In(net["S"], "accept")
  /\ send \in Beginning => recv \in {"idle", "lock", "outer", "done"} /\ NothingYet
MetaInv ==
  In(net["R"], "meta") =>
    /\ MetaOf(net["R"], sf) /\ Once(net["R"], "meta") /\ send \in {"metaack", "done"}
    /\ Waiting /\ ~In(net["R"], "complete") /\ ~In(net["S"], "metaack")
MetaAckInv ==
  In(net["S"], "metaack") =>
    Once(net["S"], "metaack") /\ send \in {"metaack", "done"} /\ Serving
CompleteInv ==
  In(net["R"], "complete") =>
    Waiting /\ sf = Len(files) + 1 /\ send \in {"final", "verdict", "done"}
PaceInv ==
  /\ send = "stream" => Serving
  /\ send \in {"file", "final", "verdict"} => Waiting
  /\ send \in {"final", "verdict"} => sf = Len(files) + 1
  /\ Serving \/ Waiting
  /\ recv \in {"inner", "check"} => rf = Len(stored) + 1
EndInv ==
  /\ recv \in {"ack", "verdict"} => Len(stored) = Len(files)
  /\ In(net["S"], "ack") \/ Told => Len(stored) = Len(files) /\ recv \in {"verdict", "done"}
FlowInv == StartInv /\ MetaInv /\ MetaAckInv /\ CompleteInv /\ PaceInv /\ EndInv

LEMMA FlowInit == Init => FlowInv
  <1> SUFFICES ASSUME Init PROVE FlowInv
    OBVIOUS
  <1>1. /\ send = "idle" /\ recv = "idle" /\ net["S"] = <<>> /\ net["R"] = <<>> /\ sf = 1
        /\ stored = <<>> /\ todo["send"] = "none" /\ verdicts["S"] = <<>> /\ DOMAIN <<>> = {}
    <2>1. DOMAIN <<>> = {}
      BY SMTT(30)
    <2> QED
      BY <2>1 DEF Init, Hosts, Tasks
  <1>2. \A k : ~In(net["S"], k) /\ ~In(net["R"], k)
    BY <1>1 DEF In
  <1>3. ~Told
    BY <1>1 DEF Told
  <1> QED
    BY <1>1, <1>2, <1>3 DEF FlowInv, StartInv, MetaInv, MetaAckInv, CompleteInv, PaceInv, EndInv,
       NothingYet, Beginning, Serving, Waiting

LEMMA SamePlace ==
  UNCHANGED <<recv, sf, rf, stored>> => (Serving' <=> Serving) /\ (Waiting' <=> Waiting)
  BY DEF Serving, Waiting

LEMMA CalmFacts ==
  ASSUME NetCalm(Steering)
  PROVE  /\ In(net'["R"], "meta") => In(net["R"], "meta")
         /\ In(net'["R"], "complete") => In(net["R"], "complete")
         /\ In(net'["S"], "metaack") => In(net["S"], "metaack")
         /\ In(net'["S"], "accept") => In(net["S"], "accept")
         /\ In(net'["S"], "ack") => In(net["S"], "ack")
         /\ Once(net["R"], "meta") => Once(net'["R"], "meta")
         /\ Once(net["S"], "metaack") => Once(net'["S"], "metaack")
         /\ \A f : MetaOf(net["R"], f) => MetaOf(net'["R"], f)
  BY DEF NetCalm, Calm, Steering

(* A step that brings no such frame and moves neither side, except that    *)
(* the sender may end.                                                     *)
LEMMA FlowKeeps ==
  ASSUME FlowInv, NetCalm(Steering), UNCHANGED <<sf, files, recv, rf, stored>>, Told' => Told,
         send' \in {send, "done"}
  PROVE  FlowInv'
  <1>1. (Serving' <=> Serving) /\ (Waiting' <=> Waiting)
    BY SamePlace
  <1>2. StartInv'
    <2>1. NothingYet => NothingYet'
      BY CalmFacts DEF NothingYet
    <2> QED
      BY <2>1, CalmFacts DEF FlowInv, StartInv, Beginning
  <1>3. MetaInv'
    BY <1>1, CalmFacts DEF FlowInv, MetaInv
  <1>4. MetaAckInv' /\ CompleteInv'
    BY <1>1, CalmFacts DEF FlowInv, MetaAckInv, CompleteInv
  <1>5. PaceInv'
    BY <1>1 DEF FlowInv, PaceInv
  <1>6. EndInv'
    BY CalmFacts DEF FlowInv, EndInv
  <1> QED
    BY <1>2, <1>3, <1>4, <1>5, <1>6 DEF FlowInv

(* The receiver ends.                                                      *)
LEMMA FlowRecvEnds ==
  ASSUME FlowInv, NetCalm(Steering), UNCHANGED <<send, sf, files, stored>>, Told' => Told,
         recv' = "done"
  PROVE  FlowInv'
  <1>1. Serving' /\ Waiting'
    BY DEF Serving, Waiting
  <1>2. StartInv'
    <2>1. NothingYet => NothingYet'
      BY CalmFacts DEF NothingYet
    <2> QED
      BY <2>1, CalmFacts DEF FlowInv, StartInv
  <1>3. MetaInv'
    BY <1>1, CalmFacts DEF FlowInv, MetaInv
  <1>4. MetaAckInv' /\ CompleteInv'
    BY <1>1, CalmFacts DEF FlowInv, MetaAckInv, CompleteInv
  <1>5. PaceInv'
    BY <1>1 DEF FlowInv, PaceInv
  <1>6. EndInv'
    BY CalmFacts DEF FlowInv, EndInv
  <1> QED
    BY <1>2, <1>3, <1>4, <1>5, <1>6 DEF FlowInv

(* The sender before TRANSFER_ACCEPT.                                      *)
LEMMA FlowBegins ==
  ASSUME FlowInv, NetCalm(Steering), UNCHANGED <<sf, files, recv, rf, stored>>, Told' => Told,
         send \in Beginning, send' \in Beginning
  PROVE  FlowInv'
  <1>1. (Serving' <=> Serving) /\ (Waiting' <=> Waiting)
    BY SamePlace
  <1>2. NothingYet' /\ StartInv'
    <2>1. NothingYet'
      BY CalmFacts DEF NothingYet, FlowInv, StartInv
    <2> QED
      BY <2>1, CalmFacts DEF FlowInv, StartInv
  <1>3. MetaInv' /\ MetaAckInv' /\ CompleteInv'
    BY <1>2 DEF NothingYet, MetaInv, MetaAckInv, CompleteInv
  <1>4. PaceInv'
    BY <1>1 DEF FlowInv, PaceInv, Beginning
  <1>5. EndInv'
    BY CalmFacts DEF FlowInv, EndInv
  <1> QED
    BY <1>2, <1>3, <1>4, <1>5 DEF FlowInv

LEMMA ToldSender ==
  ASSUME TypeOK, SenderStep, ~SendVerdict
  PROVE  Told' => Told
  <1>0. todo \in [Tasks -> Events \cup {"none"}] /\ "send" \in Tasks
    BY DEF TypeOK, EventTypeOK, Tasks
  <1>1. verdicts' = verdicts
    BY SenderFrame
  <1>2. CASE todo' = todo
    BY <1>1, <1>2 DEF Told
  <1>3. ASSUME NEW v \in {"error", "progress"}, todo' = [todo EXCEPT !["send"] = v]
        PROVE  Told' => Told
    BY <1>0, <1>1, <1>3 DEF Told
  <1> QED
    BY <1>2, <1>3 DEF SenderStep, SendCall, SendTimeout, SendStep, SendLock, SendAnswered, FailSend,
       SendTimedOut, SendMeta, SendMetaAck, SendChunk, SendAcked, SendNextFile, SendComplete,
       SendReturns, SendFails

LEMMA ToldOther ==
  ASSUME TypeOK, AnswerStep \/ RecvStep \/ HandStep \/ EventStep \/ ClosingStep
  PROVE  Told' => Told
  <1>0. /\ todo \in [Tasks -> Events \cup {"none"}] /\ Tasks = {"send", "reader", "recv"}
        /\ "S" \in Hosts /\ verdicts["S"] \in Seq({"complete", "error"})
    BY DEF TypeOK, EventTypeOK, Tasks, Hosts
  <1>1. CASE HandStep \/ ClosingStep
    BY <1>1, HandFrame, ClosingFrame DEF Told
  <1>2. CASE AnswerStep
    <2>1. todo'["send"] = todo["send"]
      BY <1>0, <1>2 DEF AnswerStep, ReaderStep, ReaderTake, ReaderRecv, ReaderPut, Confirm, Refuse
    <2> QED
      BY <1>2, <2>1, AnswerFrame DEF Told
  <1>3. CASE RecvStep
    <2>1. todo'["send"] = todo["send"]
      <3>1. CASE todo' = todo
        BY <3>1
      <3>2. ASSUME NEW v \in Events, todo' = [todo EXCEPT !["recv"] = v]
            PROVE  todo'["send"] = todo["send"]
        BY <1>0, <3>2
      <3> QED
        BY <1>3, <3>1, <3>2 DEF RecvStep, RecvLock, RecvOuter, RecvInner, RecvChunk, RecvCheck,
           RecvAck, RecvReturns, RecvFails, FailRecv, Events
    <2> QED
      BY <1>3, <2>1, RecvFrame DEF Told
  <1>4. ASSUME NEW e \in Hosts, Pump(e) PROVE Told' => Told
    BY <1>4 DEF Pump, Told
  <1>5. ASSUME NEW t \in Tasks, Emit(t) PROVE Told' => Told
    <2>1. CASE t = "send"
      <3>1. todo'["send"] = "none"
        BY <1>5, <2>1, EmitEffect
      <3>2. verdicts'["S"] \in {verdicts["S"], Append(verdicts["S"], todo["send"])}
        BY <1>0, <1>5, <2>1, EmitEffect
      <3>3. todo["send"] # "none"
        BY <1>5, <2>1, EmitEffect
      <3>4. ASSUME NEW i \in DOMAIN Append(verdicts["S"], todo["send"]),
                   Append(verdicts["S"], todo["send"])[i] = "complete"
            PROVE  Told
        <4>1. \/ i \in DOMAIN verdicts["S"] /\ verdicts["S"][i] = "complete"
              \/ todo["send"] = "complete"
          BY <1>0, <3>4, SMTT(30)
        <4> QED
          BY <4>1 DEF Told
      <3> QED
        BY <3>1, <3>2, <3>4 DEF Told
    <2>2. CASE t # "send"
      <3>1. todo'["send"] = todo["send"] /\ HostOf(t) = "R"
        BY <1>0, <1>5, <2>2, EmitEffect DEF HostOf
      <3>2. verdicts'["S"] = verdicts["S"]
        BY <1>0, <1>5, <3>1, EmitEffect
      <3> QED
        BY <3>1, <3>2 DEF Told
    <2> QED
      BY <2>1, <2>2
  <1> QED
    BY <1>1, <1>2, <1>3, <1>4, <1>5 DEF EventStep

LEMMA Lengths ==
  ASSUME TypeOK
  PROVE  /\ Len(files) \in Nat /\ Len(stored) \in Nat /\ sf \in Nat /\ rf \in Nat /\ so \in Nat
         /\ sf >= 1 /\ sf <= Len(files) + 1 /\ rf <= Len(files)
         /\ net \in [Hosts -> Seq(Frames)] /\ net["S"] \in Seq(Frames) /\ net["R"] \in Seq(Frames)
         /\ files \in Seq(Nat) /\ "S" \in Hosts /\ "R" \in Hosts
         /\ Len(<<>>) = 0
  <1>1. /\ net \in [Hosts -> Seq(Frames)] /\ net["S"] \in Seq(Frames) /\ net["R"] \in Seq(Frames)
        /\ files \in Seq(Nat) /\ "S" \in Hosts /\ "R" \in Hosts
        /\ rf \in 0..Len(files) /\ sf \in 1..(Len(files) + 1) /\ so \in Nat
        /\ stored \in Seq([file : 0..Len(files), data : Seq((0..Len(files)) \X Nat),
                           changed : BOOLEAN])
    BY DEF TypeOK, LinkTypeOK, SendTypeOK, RecvTypeOK, Hosts
  <1>2. Len(files) \in Nat /\ Len(stored) \in Nat /\ Len(<<>>) = 0
    BY <1>1, SMTT(30)
  <1> HIDE DEF Frames
  <1> QED
    BY <1>1, <1>2, SMTT(30)

LEMMA SentByS ==
  ASSUME TypeOK, NEW m \in Frames, net' = Deliver("S", m, net)
  PROVE  /\ net'["S"] = net["S"]
         /\ net'["R"] = net["R"] \/ net'["R"] = Append(net["R"], m)
         /\ ~Broken("S") => net'["R"] = Append(net["R"], m)
  <1>1. net \in [Hosts -> Seq(Frames)] /\ "S" \in Hosts /\ "R" \in Hosts /\ Peer("S") = "R"
    BY PeerType DEF TypeOK, LinkTypeOK
  <1> QED
    BY <1>1 DEF Deliver

LEMMA SentByR ==
  ASSUME NEW n \in [Hosts -> Seq(Frames)], NEW m \in Frames, net' = Deliver("R", m, n)
  PROVE  /\ net'["R"] = n["R"]
         /\ net'["S"] = n["S"] \/ net'["S"] = Append(n["S"], m)
         /\ ~Broken("R") => net'["S"] = Append(n["S"], m)
  <1>1. "S" \in Hosts /\ "R" \in Hosts /\ Peer("R") = "S"
    BY PeerType
  <1> QED
    BY <1>1 DEF Deliver

LEMMA FlowSender ==
  ASSUME TypeOK, OwnInv, FlowInv, SenderStep
  PROVE  FlowInv'
  <1>0. /\ files' = files /\ recv' = recv /\ rf' = rf /\ stored' = stored
        /\ StartInv /\ MetaInv /\ MetaAckInv /\ CompleteInv /\ PaceInv /\ EndInv
    BY SenderFrame DEF receiving, FlowInv
  <1>n. /\ net["S"] \in Seq(Frames) /\ net["R"] \in Seq(Frames) /\ net \in [Hosts -> Seq(Frames)]
        /\ files \in Seq(Nat) /\ "S" \in Hosts /\ "R" \in Hosts
    BY Lengths
  <1>t. SendVerdict \/ (Told' => Told)
    BY ToldSender
  <1>s. ASSUME net' = net PROVE NetCalm(Steering)
    BY <1>s, CalmSame DEF NetCalm
  <1>k. ASSUME net["S"] # <<>>, net' = Take("S") PROVE NetCalm(Steering)
    BY <1>n, <1>k, TakeCalm, Steers DEF NetCalm
  <1>1. CASE SendCall \/ SendTimeout
    <2>1. net' = net /\ sf' = sf /\ send \in Beginning /\ send' \in Beginning /\ ~SendVerdict
      BY <1>1 DEF SendCall, SendTimeout, SendVerdict, Beginning
    <2> QED
      BY <1>0, <1>s, <1>t, <2>1, FlowBegins
  <1>2. CASE SendLock
    <2>1. sf' = sf /\ send \in Beginning /\ ~SendVerdict
      BY <1>2 DEF SendLock, SendVerdict, Beginning
    <2>2. CASE net' = net /\ send' = "done"
      BY <1>0, <1>s, <1>t, <2>1, <2>2, FlowKeeps
    <2>3. CASE net' = Deliver("S", Ctl("request"), net) /\ send' = "offer"
      <3>1. NetCalm(Steering)
        BY <1>n, <2>3, CalmSame, DeliverCalm, Steers DEF NetCalm
      <3>2. send' \in Beginning
        BY <2>3 DEF Beginning
      <3> QED
        BY <1>0, <1>t, <2>1, <3>1, <3>2, FlowBegins
    <2> QED
      BY <1>2, <2>2, <2>3 DEF SendLock, FailSend
  <1>3. CASE SendTimedOut \/ SendReturns \/ SendFails
    <2>1. net' = net /\ sf' = sf /\ send' = "done" /\ ~SendVerdict
      BY <1>3 DEF SendTimedOut, SendReturns, SendFails, SendVerdict, FailSend
    <2> QED
      BY <1>0, <1>s, <1>t, <2>1, FlowKeeps
  <1>4. CASE SendAcked
    <2>1. net["S"] # <<>> /\ net' = Take("S") /\ sf' = sf /\ send' = send /\ ~SendVerdict
      BY <1>4 DEF SendAcked, SendVerdict
    <2> QED
      BY <1>0, <1>k, <1>t, <2>1, FlowKeeps
  <1>5. CASE SendChunk
    <2>1. sf' = sf /\ send' = send /\ ~SendVerdict /\ send = "stream"
      BY <1>5 DEF SendChunk, SendVerdict
    <2> DEFINE m == Chunk(sf, so, so + 1 = files[sf])
    <2>2. m \in Frames /\ m.kind = "chunk"
      <3>1. sf \in 0..Len(files) /\ so \in Nat
        <4>1. sf \in 1..Len(files)
          BY <2>1 DEF TypeOK, SendTypeOK
        <4> QED
          BY <4>1, Lengths, SMTT(30)
      <3>2. (so + 1 = files[sf]) \in BOOLEAN
        OBVIOUS
      <3> QED
        BY <3>1, <3>2, ChunkType
    <2>3. net' = Deliver("S", m, net)
      BY <1>5 DEF SendChunk
    <2> HIDE DEF m
    <2>4. net'["S"] = net["S"] /\ net'["R"] \in {net["R"], Append(net["R"], m)}
      BY <2>2, <2>3, SentByS
    <2>5. NetCalm(Steering)
      <3>1. "chunk" \notin Steering
        BY DEF Steering
      <3>2. Calm(Steering, Append(net["R"], m), net["R"])
        BY <1>n, <2>2, <3>1, CalmAppend
      <3> QED
        BY <2>4, <3>2, CalmSame DEF NetCalm
    <2> QED
      BY <1>0, <1>t, <2>1, <2>5, FlowKeeps
  <1>6. CASE SendAnswered
    <2>1. /\ net["S"] # <<>> /\ net' = Take("S") /\ send = "offer" /\ sf' = sf /\ ~SendVerdict
          /\ send' \in {"file", "done"} /\ (send' = "file" => Arrived("S", "accept"))
      BY <1>6 DEF SendAnswered, SendVerdict, FailSend
    <2>2. CASE send' = "done"
      BY <1>0, <1>k, <1>t, <2>1, <2>2, FlowKeeps
    <2>3. CASE send' = "file"
      <3>0. NetCalm(Steering)
        BY <1>k, <2>1
      <3>1. recv \notin {"idle", "lock"}
        <4>1. In(net["S"], "accept")
          BY <1>n, <2>1, <2>3, HeadFrame DEF Arrived
        <4> QED
          BY <1>0, <4>1 DEF StartInv
      <3>2. recv \in {"outer", "done"} /\ NothingYet
        BY <1>0, <2>1, <3>1 DEF StartInv, Beginning
      <3>3. Waiting'
        <4>1. sf = Len(stored) + 1
          BY <3>2, Lengths, SMTT(30) DEF NothingYet
        <4> QED
          BY <1>0, <2>1, <3>2, <4>1 DEF Waiting
      <3>4. NothingYet'
        BY <1>0, <2>1, <3>0, <3>2, CalmFacts DEF NothingYet
      <3>5. StartInv'
        BY <1>0, <2>3, <3>2 DEF StartInv, Beginning
      <3>6. MetaInv' /\ MetaAckInv' /\ CompleteInv'
        BY <3>4 DEF NothingYet, MetaInv, MetaAckInv, CompleteInv
      <3>7. PaceInv'
        BY <1>0, <2>3, <3>2, <3>3 DEF PaceInv
      <3>8. EndInv'
        BY <1>0, <1>t, <2>1, <3>0, CalmFacts DEF EndInv
      <3> QED
        BY <3>5, <3>6, <3>7, <3>8 DEF FlowInv
    <2> QED
      BY <2>1, <2>2, <2>3
  <1>7. CASE SendMeta
    <2>1. sf' = sf /\ send = "file" /\ send' = "metaack" /\ ~SendVerdict /\ sf <= Len(files)
      BY <1>7 DEF SendMeta, SendVerdict
    <2>2. Meta(sf) \in Frames /\ Meta(sf).kind = "meta" /\ Meta(sf).file = sf
      <3>1. sf \in 0..Len(files)
        BY <2>1, Lengths, SMTT(30)
      <3> QED
        BY <3>1, MetaType
    <2>3. net' = Deliver("S", Meta(sf), net)
      BY <1>7 DEF SendMeta
    <2>4. net'["S"] = net["S"] /\ net'["R"] \in {net["R"], Append(net["R"], Meta(sf))}
      BY <2>2, <2>3, SentByS
    <2>5. /\ ~In(net["R"], "meta") /\ ~In(net["R"], "complete") /\ ~In(net["S"], "metaack")
          /\ Waiting /\ recv \notin {"idle", "lock"}
      BY <1>0, <2>1 DEF MetaInv, CompleteInv, MetaAckInv, PaceInv, StartInv, Beginning
    <2>6. (Serving' <=> Serving) /\ (Waiting' <=> Waiting)
      BY <1>0, <2>1, SamePlace
    <2>7. /\ ~In(net'["R"], "complete") /\ ~In(net'["S"], "metaack")
          /\ MetaOf(net'["R"], sf) /\ Once(net'["R"], "meta")
      <3>1. \A f : ~In(net["R"], "meta") => MetaOf(net["R"], f) /\ Once(net["R"], "meta")
        BY DEF In, MetaOf, Once
      <3>2. LET t == Append(net["R"], Meta(sf))
            IN  ~In(t, "complete") /\ MetaOf(t, sf) /\ Once(t, "meta")
        BY <1>n, <2>2, <2>5, AddedFrame
      <3> QED
        BY <2>4, <2>5, <3>1, <3>2
    <2>8. StartInv' /\ MetaInv' /\ MetaAckInv' /\ CompleteInv'
      BY <1>0, <2>1, <2>5, <2>6, <2>7 DEF StartInv, MetaInv, MetaAckInv, CompleteInv, Beginning
    <2>9. PaceInv' /\ EndInv'
      BY <1>0, <1>t, <2>1, <2>4, <2>5, <2>6 DEF PaceInv, EndInv
    <2> QED
      BY <2>8, <2>9 DEF FlowInv
  <1>8. CASE SendMetaAck
    <2>1. /\ net["S"] # <<>> /\ net' = Take("S") /\ send = "metaack" /\ sf' = sf /\ ~SendVerdict
          /\ send' \in {"stream", "done"} /\ (send' = "stream" => Arrived("S", "metaack"))
      BY <1>8 DEF SendMetaAck, SendVerdict, FailSend
    <2>2. CASE send' = "done"
      BY <1>0, <1>k, <1>t, <2>1, <2>2, FlowKeeps
    <2>3. CASE send' = "stream"
      <3>0. NetCalm(Steering)
        BY <1>k, <2>1
      <3>1. In(net["S"], "metaack") /\ Head(net["S"]).kind = "metaack"
        BY <1>n, <2>1, <2>3, HeadFrame DEF Arrived
      <3>2. /\ Once(net["S"], "metaack") /\ Serving /\ ~In(net["R"], "meta")
            /\ ~In(net["R"], "complete") /\ recv \notin {"idle", "lock"}
        BY <1>0, <2>1, <3>1 DEF MetaAckInv, MetaInv, CompleteInv, StartInv, Beginning
      <3>3. ~In(net'["S"], "metaack")
        <4>1. net'["S"] = Tail(net["S"])
          BY <1>n, <2>1, Taken
        <4> QED
          BY <1>n, <2>1, <3>1, <3>2, <4>1, HeadFrame
      <3>4. ~In(net'["R"], "meta") /\ ~In(net'["R"], "complete")
        BY <3>0, <3>2, CalmFacts
      <3>5. Serving'
        BY <1>0, <2>1, <3>2, SamePlace
      <3>6. StartInv' /\ MetaInv' /\ MetaAckInv' /\ CompleteInv'
        BY <1>0, <2>3, <3>2, <3>3, <3>4 DEF StartInv, MetaInv, MetaAckInv, CompleteInv, Beginning
      <3>7. PaceInv' /\ EndInv'
        BY <1>0, <1>t, <2>1, <2>3, <3>0, <3>5, CalmFacts DEF PaceInv, EndInv
      <3> QED
        BY <3>6, <3>7 DEF FlowInv
    <2> QED
      BY <2>1, <2>2, <2>3
  <1>9. CASE SendNextFile
    <2>1. net' = net /\ sf' = sf + 1 /\ send = "stream" /\ send' = "file" /\ ~SendVerdict
      BY <1>9 DEF SendNextFile, SendVerdict
    <2>2. /\ ~In(net["R"], "meta") /\ ~In(net["R"], "complete") /\ ~In(net["S"], "metaack")
          /\ Serving /\ recv \notin {"idle", "lock"}
      BY <1>0, <2>1 DEF MetaInv, CompleteInv, MetaAckInv, PaceInv, StartInv, Beginning
    <2>3. Waiting'
      BY <1>0, <2>1, <2>2 DEF Serving, Waiting
    <2>4. StartInv' /\ MetaInv' /\ MetaAckInv' /\ CompleteInv'
      BY <1>0, <2>1, <2>2 DEF StartInv, MetaInv, MetaAckInv, CompleteInv, Beginning
    <2>5. PaceInv' /\ EndInv'
      BY <1>0, <1>t, <2>1, <2>3 DEF PaceInv, EndInv
    <2> QED
      BY <2>4, <2>5 DEF FlowInv
  <1>10. CASE SendComplete
    <2>1. sf' = sf /\ send = "file" /\ send' = "final" /\ ~SendVerdict /\ sf > Len(files)
      BY <1>10 DEF SendComplete, SendVerdict
    <2>2. Ctl("complete") \in Frames /\ Ctl("complete").kind = "complete" /\ sf = Len(files) + 1
      <3>1. sf = Len(files) + 1
        BY <2>1, Lengths, SMTT(30)
      <3> QED
        BY <1>n, <3>1, CtlType
    <2>3. net' = Deliver("S", Ctl("complete"), net)
      BY <1>10 DEF SendComplete
    <2>4. net'["S"] = net["S"] /\ net'["R"] \in {net["R"], Append(net["R"], Ctl("complete"))}
      BY <2>2, <2>3, SentByS
    <2>5. /\ ~In(net["R"], "meta") /\ ~In(net["S"], "metaack")
          /\ Waiting /\ recv \notin {"idle", "lock"}
      BY <1>0, <2>1 DEF MetaInv, CompleteInv, MetaAckInv, PaceInv, StartInv, Beginning
    <2>6. (Serving' <=> Serving) /\ (Waiting' <=> Waiting)
      BY <1>0, <2>1, SamePlace
    <2>7. ~In(net'["R"], "meta") /\ ~In(net'["S"], "metaack")
      <3>1. ~In(Append(net["R"], Ctl("complete")), "meta")
        BY <1>n, <2>2, <2>5, AddedFrame
      <3> QED
        BY <2>4, <2>5, <3>1
    <2>8. StartInv' /\ MetaInv' /\ MetaAckInv' /\ CompleteInv'
      BY <1>0, <2>1, <2>2, <2>5, <2>6, <2>7 DEF StartInv, MetaInv, MetaAckInv, CompleteInv, Beginning
    <2>9. PaceInv' /\ EndInv'
      BY <1>0, <1>t, <2>1, <2>2, <2>4, <2>5, <2>6 DEF PaceInv, EndInv
    <2> QED
      BY <2>8, <2>9 DEF FlowInv
  <1>11. CASE SendVerdict
    <2>1. /\ net["S"] # <<>> /\ net' = Take("S") /\ send = "final" /\ send' = "verdict" /\ sf' = sf
          /\ todo' = [todo EXCEPT !["send"] = IF Arrived("S", "ack") THEN "complete" ELSE "error"]
      BY <1>11 DEF SendVerdict
    <2>2. NetCalm(Steering)
      BY <1>k, <2>1
    <2>3. Told' => In(net["S"], "ack") \/ Told
      <3>1. todo'["send"] = IF Arrived("S", "ack") THEN "complete" ELSE "error"
        BY <2>1 DEF TypeOK, EventTypeOK, Tasks
      <3>2. Arrived("S", "ack") => In(net["S"], "ack")
        BY <1>n, <2>1, HeadFrame DEF Arrived
      <3>3. verdicts' = verdicts
        BY SenderFrame
      <3> QED
        BY <3>1, <3>2, <3>3 DEF Told
    <2>4. (Serving' <=> Serving) /\ (Waiting' <=> Waiting)
      BY <1>0, <2>1, SamePlace
    <2>5. /\ ~In(net["R"], "meta") /\ ~In(net["S"], "metaack") /\ recv \notin {"idle", "lock"}
      BY <1>0, <2>1 DEF MetaInv, MetaAckInv, StartInv, Beginning
    <2>6. StartInv' /\ MetaInv' /\ MetaAckInv' /\ CompleteInv'
      BY <1>0, <2>1, <2>2, <2>4, <2>5, CalmFacts
         DEF StartInv, MetaInv, MetaAckInv, CompleteInv, Beginning
    <2>7. PaceInv' /\ EndInv'
      BY <1>0, <2>1, <2>2, <2>3, <2>4, CalmFacts DEF PaceInv, EndInv
    <2> QED
      BY <2>6, <2>7 DEF FlowInv
  <1> QED
    BY <1>1, <1>2, <1>3, <1>4, <1>5, <1>6, <1>7, <1>8, <1>9, <1>10, <1>11 DEF SenderStep, SendStep

LEMMA MaybeAdded ==
  ASSUME NEW s \in Seq(Frames), NEW m \in Frames, NEW t, t = s \/ t = Append(s, m)
  PROVE  /\ \A k : k # m.kind => (In(t, k) => In(s, k)) /\ (Once(s, k) => Once(t, k))
         /\ ~In(s, m.kind) => Once(t, m.kind)
  <1>1. CASE t = s
    BY <1>1 DEF In, Once
  <1>2. CASE t = Append(s, m)
    BY <1>2, AddedFrame
  <1> QED
    BY <1>1, <1>2

LEMMA FlowRecv ==
  ASSUME TypeOK, OwnInv, FlowInv, RecvStep
  PROVE  FlowInv'
  <1>0. /\ files' = files /\ send' = send /\ sf' = sf
        /\ StartInv /\ MetaInv /\ MetaAckInv /\ CompleteInv /\ PaceInv /\ EndInv
    BY RecvFrame DEF sending, FlowInv
  <1>n. /\ net["S"] \in Seq(Frames) /\ net["R"] \in Seq(Frames) /\ net \in [Hosts -> Seq(Frames)]
        /\ files \in Seq(Nat) /\ "S" \in Hosts /\ "R" \in Hosts
    BY Lengths
  <1>t. Told' => Told
    BY ToldOther
  <1>s. ASSUME net' = net PROVE NetCalm(Steering)
    BY <1>s, CalmSame DEF NetCalm
  <1>k. ASSUME net["R"] # <<>>, net' = Take("R") PROVE NetCalm(Steering)
    BY <1>n, <1>k, TakeCalm, Steers DEF NetCalm
  <1>1. CASE RecvFails \/ RecvReturns
    <2>1. net' = net /\ recv' = "done" /\ stored' = stored
      BY <1>1 DEF RecvFails, RecvReturns, FailRecv
    <2> QED
      BY <1>0, <1>s, <1>t, <2>1, FlowRecvEnds
  <1>2. CASE RecvLock
    <2>1. recv = "lock" /\ stored' = stored /\ rf' = rf
      BY <1>2 DEF RecvLock
    <2>2. CASE net' = net /\ recv' = "done"
      BY <1>0, <1>s, <1>t, <2>1, <2>2, FlowRecvEnds
    <2>3. CASE net' = Deliver("R", Ctl("accept"), net) /\ recv' = "outer"
      <3>1. Ctl("accept") \in Frames /\ Ctl("accept").kind = "accept"
        BY <1>n, CtlType
      <3>2. net'["R"] = net["R"] /\ (net'["S"] = net["S"] \/ net'["S"] = Append(net["S"], Ctl("accept")))
        BY <1>n, <2>3, <3>1, SentByR
      <3>3. \A k : k # "accept" => (In(net'["S"], k) => In(net["S"], k))
        BY <1>n, <3>1, <3>2, MaybeAdded
      <3>4. send \in Beginning \cup {"done"} /\ NothingYet
        BY <1>0, <2>1 DEF StartInv
      <3>5. ~In(net["S"], "ack") /\ ~Told
        BY <1>0, <2>1 DEF EndInv
      <3>6. NothingYet'
        BY <1>0, <2>1, <3>2, <3>3, <3>4 DEF NothingYet
      <3>7. Waiting'
        <4>1. sf = Len(stored) + 1
          BY <3>4, Lengths, SMTT(30) DEF NothingYet
        <4> QED
          BY <1>0, <2>1, <2>3, <4>1 DEF Waiting
      <3>8. StartInv' /\ MetaInv' /\ MetaAckInv' /\ CompleteInv'
        BY <1>0, <2>3, <3>4, <3>6 DEF NothingYet, StartInv, MetaInv, MetaAckInv, CompleteInv
      <3>9. PaceInv' /\ EndInv'
        BY <1>0, <1>t, <2>3, <3>3, <3>4, <3>5, <3>7 DEF PaceInv, EndInv, Beginning
      <3> QED
        BY <3>8, <3>9 DEF FlowInv
    <2> QED
      BY <1>2, <2>2, <2>3 DEF RecvLock, FailRecv
  <1>3. CASE RecvOuter
    <2> DEFINE m == Head(net["R"])
    <2>1. recv = "outer" /\ net["R"] # <<>> /\ stored' = stored
      BY <1>3 DEF RecvOuter
    <2>2. In(net["R"], m.kind)
      BY <1>n, <2>1, HeadFrame
    <2>3. /\ Take("R")["S"] = net["S"] /\ Take("R")["R"] = Tail(net["R"])
          /\ Take("R") \in [Hosts -> Seq(Frames)]
      BY <1>n, <2>1, Taken
    <2>4. CASE m.kind = "meta"
      <3>1. /\ net' = Deliver("R", Ctl("metaack"), Take("R"))
            /\ recv' \in {"inner", "done"} /\ (recv' = "inner" => rf' = m.file)
        BY <1>3, <2>4 DEF RecvOuter, FailRecv
      <3>2. Ctl("metaack") \in Frames /\ Ctl("metaack").kind = "metaack"
        BY <1>n, CtlType
      <3>3. /\ net'["R"] = Tail(net["R"])
            /\ net'["S"] = net["S"] \/ net'["S"] = Append(net["S"], Ctl("metaack"))
        BY <2>3, <3>1, <3>2, SentByR
      <3>4. /\ m.file = sf /\ send \in {"metaack", "done"} /\ Waiting /\ Once(net["R"], "meta")
            /\ ~In(net["R"], "complete") /\ ~In(net["S"], "metaack")
        BY <1>0, <1>n, <2>1, <2>2, <2>4, HeadFrame DEF MetaInv
      <3>5. ~In(net'["R"], "meta") /\ ~In(net'["R"], "complete")
        <4>1. ~In(Tail(net["R"]), "meta")
          BY <1>n, <2>1, <2>4, <3>4, HeadFrame
        <4>2. Calm(Steering, Tail(net["R"]), net["R"]) /\ "complete" \in Steering
          BY <1>n, <2>1, CalmTail DEF Steering
        <4> QED
          BY <3>3, <3>4, <4>1, <4>2 DEF Calm
      <3>6. /\ \A k : k # "metaack" => (In(net'["S"], k) => In(net["S"], k))
            /\ Once(net'["S"], "metaack")
        <4>1. /\ \A k : k # Ctl("metaack").kind => (In(net'["S"], k) => In(net["S"], k))
              /\ ~In(net["S"], Ctl("metaack").kind) => Once(net'["S"], Ctl("metaack").kind)
          BY <1>n, <3>2, <3>3, MaybeAdded
        <4> QED
          BY <3>2, <3>4, <4>1
      <3>7. Serving' /\ (recv' \in {"inner", "check"} => rf' = Len(stored') + 1)
        <4>1. sf = Len(stored) + 1
          BY <2>1, <3>4 DEF Waiting
        <4> QED
          BY <1>0, <2>1, <3>1, <3>4, <4>1 DEF Serving
      <3>8. ~In(net["S"], "ack") /\ ~Told
        BY <1>0, <2>1 DEF EndInv
      <3>9. StartInv' /\ MetaInv' /\ CompleteInv'
        BY <1>0, <3>1, <3>4, <3>5 DEF StartInv, MetaInv, CompleteInv, Beginning
      <3>10. MetaAckInv' /\ PaceInv' /\ EndInv'
        BY <1>0, <1>t, <3>1, <3>4, <3>6, <3>7, <3>8 DEF MetaAckInv, PaceInv, EndInv
      <3> QED
        BY <3>9, <3>10 DEF FlowInv
    <2>5. CASE m.kind = "complete"
      <3>1. net' = Take("R") /\ recv' = "ack" /\ rf' = rf
        BY <1>3, <2>5 DEF RecvOuter
      <3>2. NetCalm(Steering)
        BY <1>k, <2>1, <3>1
      <3>3. /\ Waiting /\ sf = Len(files) + 1 /\ send \in {"final", "verdict", "done"}
            /\ ~In(net["R"], "meta")
        BY <1>0, <2>2, <2>5 DEF CompleteInv, MetaInv
      <3>4. Len(stored) = Len(files)
        <4>1. sf = Len(stored) + 1
          BY <2>1, <3>3 DEF Waiting
        <4> QED
          BY <3>3, <4>1, Lengths, SMTT(30)
      <3>5. Serving' /\ Waiting'
        BY <3>1 DEF Serving, Waiting
      <3>6. ~In(net["S"], "ack") /\ ~Told
        BY <1>0, <2>1 DEF EndInv
      <3>7. StartInv' /\ MetaInv' /\ MetaAckInv' /\ CompleteInv'
        BY <1>0, <3>1, <3>2, <3>3, <3>5, CalmFacts
           DEF StartInv, MetaInv, MetaAckInv, CompleteInv, Beginning
      <3>8. PaceInv' /\ EndInv'
        BY <1>0, <1>t, <2>1, <3>1, <3>2, <3>3, <3>4, <3>5, <3>6, CalmFacts DEF PaceInv, EndInv
      <3> QED
        BY <3>7, <3>8 DEF FlowInv
    <2>6. CASE m.kind \notin {"meta", "complete"}
      <3>1. net' = Take("R") /\ recv' = recv /\ rf' = rf
        BY <1>3, <2>6 DEF RecvOuter
      <3> QED
        BY <1>0, <1>k, <1>t, <2>1, <3>1, FlowKeeps
    <2> QED
      BY <2>4, <2>5, <2>6
  <1>4. CASE RecvInner
    <2>1. recv = "inner" /\ net["R"] # <<>> /\ stored' = stored /\ rf' = rf
      BY <1>4 DEF RecvInner
    <2>2. NetCalm(Steering)
      <3>1. CASE net' = Take("R")
        BY <1>k, <2>1, <3>1
      <3>2. CASE net' = Deliver("R", Ctl("chunkack"), Take("R"))
        <4>1. Ctl("chunkack") \in Frames /\ Ctl("chunkack").kind = "chunkack" /\ "chunkack" \notin Steering
          BY <1>n, CtlType DEF Steering
        <4>2. /\ Take("R")["S"] = net["S"] /\ Take("R")["R"] = Tail(net["R"])
              /\ Take("R") \in [Hosts -> Seq(Frames)]
          BY <1>n, <2>1, Taken
        <4>3. /\ net'["R"] = Tail(net["R"])
              /\ net'["S"] = net["S"] \/ net'["S"] = Append(net["S"], Ctl("chunkack"))
          BY <3>2, <4>1, <4>2, SentByR
        <4>4. Calm(Steering, Append(net["S"], Ctl("chunkack")), net["S"])
          BY <1>n, <4>1, CalmAppend
        <4>5. Calm(Steering, Tail(net["R"]), net["R"])
          BY <1>n, <2>1, CalmTail
        <4> QED
          BY <4>3, <4>4, <4>5, CalmSame DEF NetCalm
      <3> QED
        BY <1>4, <3>1, <3>2 DEF RecvInner, RecvChunk
    <2>3. CASE recv' = "done"
      BY <1>0, <1>t, <2>1, <2>2, <2>3, FlowRecvEnds
    <2>4. CASE recv' \in {"inner", "check"}
      <3>1. (Serving' <=> Serving) /\ (Waiting' <=> Waiting)
        BY <1>0, <2>1, <2>4 DEF Serving, Waiting
      <3>2. send \notin Beginning
        BY <1>0, <2>1 DEF StartInv
      <3>3. StartInv'
        BY <1>0, <2>4, <3>2 DEF StartInv
      <3>4. MetaInv'
        BY <1>0, <2>2, <3>1, CalmFacts DEF MetaInv
      <3>5. MetaAckInv' /\ CompleteInv'
        BY <1>0, <2>2, <3>1, CalmFacts DEF MetaAckInv, CompleteInv
      <3>6. PaceInv'
        BY <1>0, <2>1, <2>4, <3>1 DEF PaceInv
      <3>7. EndInv'
        BY <1>0, <1>t, <2>1, <2>2, <2>4, CalmFacts DEF EndInv
      <3> QED
        BY <3>3, <3>4, <3>5, <3>6, <3>7 DEF FlowInv
    <2> QED
      BY <1>4, <2>1, <2>3, <2>4 DEF RecvInner, RecvChunk, FailRecv
  <1>5. CASE RecvCheck
    <2>1. recv = "check" /\ net' = net /\ rf' = rf
      BY <1>5 DEF RecvCheck
    <2>2. CASE recv' = "done" /\ stored' = stored
      BY <1>0, <1>s, <1>t, <2>1, <2>2, FlowRecvEnds
    <2>3. CASE /\ stored' = Append(stored, [file |-> rf, data |-> got, changed |-> rf = stale])
               /\ recv' = IF Len(stored) + 1 < Expected THEN "outer" ELSE "ack"
      <3>1. Len(stored') = Len(stored) + 1 /\ rf = Len(stored) + 1
        <4>1. rf = Len(stored) + 1
          BY <1>0, <2>1 DEF PaceInv
        <4>2. Len(stored') = Len(stored) + 1
          BY <2>3, SMTT(30) DEF TypeOK, RecvTypeOK
        <4> QED
          BY <4>1, <4>2
      <3>2. recv' \in {"outer", "ack"} /\ (recv' = "ack" => Len(stored') = Len(files))
        <4>1. Len(stored) + 1 <= Len(files)
          BY <3>1, Lengths, SMTT(30)
        <4>2. files # <<>>
          BY <4>1, Lengths, SMTT(30)
        <4>3. Expected = Len(files)
          BY <4>2 DEF Expected
        <4>4. ~(Len(stored) + 1 < Len(files)) => Len(stored) + 1 = Len(files)
          BY <4>1, Lengths, SMTT(30)
        <4> QED
          BY <2>3, <3>1, <4>3, <4>4
      <3>3. (Serving => Serving') /\ (Waiting => Waiting')
        BY <1>0, <2>1, <3>1, <3>2 DEF Serving, Waiting
      <3>4. send \notin Beginning /\ ~In(net["S"], "ack") /\ ~Told
        BY <1>0, <2>1 DEF StartInv, EndInv
      <3>5. StartInv'
        BY <1>0, <3>2, <3>4 DEF StartInv
      <3>6. MetaInv' /\ MetaAckInv' /\ CompleteInv'
        BY <1>0, <2>1, <3>3 DEF MetaInv, MetaAckInv, CompleteInv
      <3>7. PaceInv' /\ EndInv'
        BY <1>0, <1>t, <2>1, <3>2, <3>3, <3>4 DEF PaceInv, EndInv
      <3> QED
        BY <3>5, <3>6, <3>7 DEF FlowInv
    <2> QED
      BY <1>5, <2>2, <2>3 DEF RecvCheck, FailRecv
  <1>6. CASE RecvAck
    <2>1. recv = "ack" /\ recv' = "verdict" /\ stored' = stored /\ rf' = rf
          /\ net' = Deliver("R", Ctl("ack"), net)
      BY <1>6 DEF RecvAck
    <2>2. Ctl("ack") \in Frames /\ Ctl("ack").kind = "ack"
      BY <1>n, CtlType
    <2>3. net'["R"] = net["R"] /\ (net'["S"] = net["S"] \/ net'["S"] = Append(net["S"], Ctl("ack")))
      BY <1>n, <2>1, <2>2, SentByR
    <2>4. /\ \A k : k # "ack" => (In(net'["S"], k) => In(net["S"], k))
          /\ Once(net["S"], "metaack") => Once(net'["S"], "metaack")
      BY <1>n, <2>2, <2>3, MaybeAdded
    <2>5. Len(stored) = Len(files) /\ send \notin Beginning
      BY <1>0, <2>1 DEF StartInv, EndInv
    <2>6. Serving' /\ Waiting'
      BY <2>1 DEF Serving, Waiting
    <2>7. StartInv' /\ MetaInv' /\ CompleteInv'
      BY <1>0, <2>1, <2>3, <2>4, <2>5, <2>6 DEF StartInv, MetaInv, CompleteInv
    <2>8. MetaAckInv' /\ PaceInv' /\ EndInv'
      BY <1>0, <2>1, <2>4, <2>5, <2>6 DEF MetaAckInv, PaceInv, EndInv
    <2> QED
      BY <2>7, <2>8 DEF FlowInv
  <1> QED
    BY <1>1, <1>2, <1>3, <1>4, <1>5, <1>6 DEF RecvStep

LEMMA FlowAnswer ==
  ASSUME TypeOK, OwnInv, FlowInv, AnswerStep
  PROVE  FlowInv'
  <1>0. /\ files' = files /\ send' = send /\ sf' = sf /\ rf' = rf /\ stored' = stored
        /\ NetCalm(Steering) /\ (Told' => Told)
    BY AnswerFrame, AnswerCalm, Steers, ToldOther DEF sending
  <1>1. CASE recv' = recv
    BY <1>0, <1>1, FlowKeeps
  <1>2. ASSUME NEW a \in BOOLEAN, Confirm(a), recv' # recv PROVE FlowInv'
    <2>1. recv = "idle" /\ recv' = "lock"
      BY <1>2 DEF Confirm, OwnInv, ReaderInv
    <2>2. /\ send \in Beginning \cup {"done"} /\ NothingYet /\ ~In(net["S"], "accept")
          /\ ~In(net["S"], "ack") /\ ~Told
      BY <2>1 DEF FlowInv, StartInv, EndInv
    <2>3. NothingYet' /\ ~In(net'["S"], "accept") /\ ~In(net'["S"], "ack") /\ ~Told'
      BY <1>0, <2>2, CalmFacts DEF NothingYet
    <2>4. Serving' /\ Waiting'
      BY <2>1 DEF Serving, Waiting
    <2>5. StartInv' /\ MetaInv' /\ MetaAckInv' /\ CompleteInv'
      BY <1>0, <2>1, <2>2, <2>3 DEF NothingYet, StartInv, MetaInv, MetaAckInv, CompleteInv
    <2>6. PaceInv' /\ EndInv'
      BY <1>0, <2>1, <2>3, <2>4 DEF FlowInv, PaceInv, EndInv
    <2> QED
      BY <2>5, <2>6 DEF FlowInv
  <1> QED
    BY <1>1, <1>2 DEF AnswerStep, ReaderStep, ReaderTake, ReaderRecv, ReaderPut, Refuse, receiving

LEMMA FlowNext == TypeOK /\ OwnInv /\ FlowInv /\ [Next]_vars => FlowInv'
  <1> SUFFICES ASSUME TypeOK, OwnInv, FlowInv, [Next]_vars PROVE FlowInv'
    OBVIOUS
  <1>1. CASE Cut
    <2>1. UNCHANGED <<sf, files, recv, rf, stored, send, todo, verdicts>>
      BY <1>1 DEF Cut, sending, receiving
    <2>2. NetCalm(Steering)
      BY <1>1, CalmEmpty DEF Cut, NetCalm, Hosts
    <2>3. Told' => Told
      BY <2>1 DEF Told
    <2> QED
      BY <2>1, <2>2, <2>3, FlowKeeps
  <1>2. CASE UNCHANGED vars
    <2>1. UNCHANGED <<sf, files, recv, rf, stored, send, todo, verdicts, net>>
      BY <1>2 DEF vars, sending, receiving
    <2>2. NetCalm(Steering) /\ (Told' => Told)
      BY <2>1, CalmSame DEF NetCalm, Told
    <2> QED
      BY <2>1, <2>2, FlowKeeps
  <1>3. CASE HandStep \/ ClosingStep
    <2>1. UNCHANGED <<sf, files, recv, rf, stored, send>>
      BY <1>3, HandFrame, ClosingFrame DEF sending, receiving
    <2>2. NetCalm(Steering) /\ (Told' => Told)
      BY <1>3, HandCalm, ClosingCalm, Steers, ToldOther
    <2> QED
      BY <2>1, <2>2, FlowKeeps
  <1>4. CASE EventStep
    <2>1. UNCHANGED <<sf, files, recv, rf, stored, send, net>>
      BY <1>4, EventFrame DEF sending, receiving
    <2>2. NetCalm(Steering) /\ (Told' => Told)
      BY <1>4, <2>1, CalmSame, ToldOther DEF NetCalm
    <2> QED
      BY <2>1, <2>2, FlowKeeps
  <1> QED
    BY <1>1, <1>2, <1>3, <1>4, Families, FlowSender, FlowRecv, FlowAnswer

-----------------------------------------------------------------------------
(* What is stored.                                                         *)

LEMMA StoredNext ==
  TypeOK /\ OwnInv /\ FlowInv /\ ReceiveAllOrNothing /\ [Next]_vars => ReceiveAllOrNothing'
  <1> SUFFICES ASSUME TypeOK, OwnInv, FlowInv, ReceiveAllOrNothing, [Next]_vars
               PROVE  ReceiveAllOrNothing'
    OBVIOUS
  <1>1. files' = files
    BY Families, HandFrame, SenderFrame, AnswerFrame, RecvFrame, EventFrame, ClosingFrame
       DEF Cut, vars, sending
  <1>2. CASE stored' = stored /\ (tmp' => recv' \in {"inner", "check"})
    BY <1>1, <1>2 DEF ReceiveAllOrNothing, Content
  <1>3. CASE RecvStep
    <2>1. CASE RecvCheck /\ stored' # stored
      <3> DEFINE r == [file |-> rf, data |-> got, changed |-> rf = stale]
      <3>1. /\ recv = "check" /\ got = Content(rf) /\ rf # stale /\ tmp' = FALSE
            /\ stored' = Append(stored, r)
        BY <2>1 DEF RecvCheck
      <3>2. rf = Len(stored) + 1
        BY <3>1 DEF FlowInv, PaceInv
      <3>3. r = [file |-> rf, data |-> Content(rf), changed |-> FALSE]
        BY <3>1
      <3>4. stored \in Seq([file : 0..Len(files), data : Seq((0..Len(files)) \X Nat),
                            changed : BOOLEAN])
        BY DEF TypeOK, RecvTypeOK
      <3> HIDE DEF r
      <3>5. /\ \A i \in 1..Len(stored') : i \in 1..Len(stored) \/ i = rf
            /\ \A i \in 1..Len(stored) : stored'[i] = stored[i]
            /\ stored'[rf] = r
        BY <3>1, <3>2, <3>4, SMTT(30)
      <3>6. \A i : Content(i)' = Content(i)
        BY <1>1 DEF Content
      <3>7. \A i \in 1..Len(stored') : stored'[i] = [file |-> i, data |-> Content(i)', changed |-> FALSE]
        BY <3>3, <3>5, <3>6 DEF ReceiveAllOrNothing
      <3> QED
        BY <3>1, <3>7 DEF ReceiveAllOrNothing
    <2>2. CASE stored' = stored
      <3>1. tmp' => recv' \in {"inner", "check"}
        BY <1>3 DEF RecvStep, RecvLock, RecvOuter, RecvInner, RecvChunk, RecvCheck, RecvAck,
           RecvReturns, RecvFails, FailRecv, ReceiveAllOrNothing
      <3> QED
        BY <1>2, <2>2, <3>1
    <2> QED
      BY <1>3, <2>1, <2>2 DEF RecvStep, RecvLock, RecvOuter, RecvInner, RecvAck, RecvReturns,
         RecvFails
  <1>4. CASE AnswerStep
    <2>1. stored' = stored /\ tmp' = tmp
      BY <1>4, AnswerFrame
    <2>2. recv' = recv \/ recv = "idle"
      BY <1>4 DEF OwnInv, ReaderInv, AnswerStep, ReaderStep, ReaderTake, ReaderRecv, ReaderPut,
         Refuse, Confirm, receiving
    <2> QED
      BY <1>2, <2>1, <2>2 DEF ReceiveAllOrNothing
  <1>5. CASE Cut \/ HandStep \/ SenderStep \/ EventStep \/ ClosingStep \/ UNCHANGED vars
    <2>1. UNCHANGED receiving
      BY <1>5, HandFrame, SenderFrame, EventFrame, ClosingFrame DEF Cut, vars
    <2> QED
      BY <1>2, <2>1 DEF receiving, ReceiveAllOrNothing
  <1> QED
    BY <1>3, <1>4, <1>5, Families

LEMMA StoredInit == Init => ReceiveAllOrNothing
  <1>1. 1..Len(<<>>) = {}
    BY SMTT(30)
  <1> QED
    BY <1>1 DEF Init, ReceiveAllOrNothing

FilesInv == TypeOK /\ OwnInv /\ SaidS /\ SaidR /\ FlowInv /\ ReceiveAllOrNothing

LEMMA FilesCorrect == Spec => []FilesInv
  <1>1. Init => FilesInv
    BY TypeInit, OwnInit, SaidInit, FlowInit, StoredInit DEF FilesInv
  <1>2. FilesInv /\ [Next]_vars => FilesInv'
    BY TypeNext, OwnNext, SaidNext, FlowNext, StoredNext DEF FilesInv
  <1> QED
    BY <1>1, <1>2, PTL DEF Spec

(* Whatever ends a transfer, what is under the final names is a prefix of  *)
(* the manifest with the scanned content, and no temporary file is left.   *)
THEOREM StoredIsPrefix == Spec => []ReceiveAllOrNothing
  <1>1. FilesInv => ReceiveAllOrNothing
    BY DEF FilesInv
  <1> QED
    BY <1>1, FilesCorrect, PTL

(* A Complete event of the sender means that every file is stored, and the *)
(* hosts get one verdict, or two Errors after an offer that timed out.     *)
THEOREM VerdictsTrue == Spec => []CompleteIsStored
  <1>1. FilesInv => CompleteIsStored
    <2> SUFFICES ASSUME FilesInv PROVE CompleteIsStored
      OBVIOUS
    <2>1. (\E i \in DOMAIN verdicts["S"] : verdicts["S"][i] = "complete")
            => Len(stored) = Len(files)
      BY DEF FilesInv, FlowInv, EndInv, Told
    <2>2. /\ Len(<<>>) = 0 /\ Len(<<"complete">>) = 1 /\ Len(<<"error">>) = 1
          /\ Len(<<"error", "error">>) = 2
      BY SMTT(30)
    <2>3. verdicts["R"] \in {<<>>, <<"complete">>, <<"error">>}
      BY DEF FilesInv, SaidR
    <2>4. verdicts["S"] \in {<<>>, <<"complete">>, <<"error">>, <<"error", "error">>}
      BY DEF FilesInv, SaidS, TypeOK, SendTypeOK
    <2>5. Len(verdicts["R"]) <= 1
      <3>1. 0 <= 1 /\ 1 <= 1
        BY SMTT(30)
      <3> QED
        BY <2>2, <2>3, <3>1
    <2>6. /\ Len(verdicts["S"]) \in {0, 1, 2}
          /\ (Len(verdicts["S"]) = 2 => verdicts["S"] = <<"error", "error">>)
      <3>1. 0 # 2 /\ 1 # 2
        BY SMTT(30)
      <3> QED
        BY <2>2, <2>4, <3>1
    <2>7. Len(verdicts["S"]) <= 2
      <3>1. 0 <= 2 /\ 1 <= 2 /\ 2 <= 2
        BY SMTT(30)
      <3> QED
        BY <2>6, <3>1
    <2> QED
      BY <2>1, <2>5, <2>6, <2>7 DEF CompleteIsStored
  <1> QED
    BY <1>1, FilesCorrect, PTL

-----------------------------------------------------------------------------
(* Counting the frames of a kind.                                          *)
Places(s, k) == {i \in DOMAIN s : s[i].kind = k}

LEMMA CountNat ==
  ASSUME NEW s \in Seq(Frames), NEW k
  PROVE  /\ IsFiniteSet(Places(s, k)) /\ CountOf(s, k) \in Nat
         /\ CountOf(s, k) = Cardinality(Places(s, k))
         /\ CountOf(s, k) = 0 <=> ~In(s, k)
  <1>1. Len(s) \in Nat /\ DOMAIN s = 1..Len(s) /\ 1 \in Int /\ Len(s) \in Int
    BY SMTT(30)
  <1>2. IsFiniteSet(1..Len(s))
    BY <1>1, FS_Interval
  <1>3. Places(s, k) \in SUBSET (1..Len(s))
    BY <1>1 DEF Places
  <1>4. IsFiniteSet(Places(s, k))
    BY <1>2, <1>3, FS_Subset
  <1>5. CountOf(s, k) = Cardinality(Places(s, k))
    BY DEF CountOf, Places
  <1>6. Places(s, k) = {} <=> ~In(s, k)
    BY DEF Places, In
  <1> QED
    BY <1>4, <1>5, <1>6, FS_CardinalityType, FS_EmptySet

LEMMA CountAppend ==
  ASSUME NEW s \in Seq(Frames), NEW m \in Frames, NEW k
  PROVE  CountOf(Append(s, m), k) = IF m.kind = k THEN CountOf(s, k) + 1 ELSE CountOf(s, k)
  <1> DEFINE t == Append(s, m)
  <1>1. /\ DOMAIN t = DOMAIN s \cup {Len(s) + 1} /\ t[Len(s) + 1] = m
        /\ \A i \in DOMAIN s : t[i] = s[i]
        /\ Len(s) + 1 \notin DOMAIN s
    BY AppendFrames
  <1>2. t \in Seq(Frames)
    BY SMTT(30)
  <1> HIDE DEF t
  <1>3. CASE m.kind = k
    <2>1. Places(t, k) = Places(s, k) \cup {Len(s) + 1} /\ Len(s) + 1 \notin Places(s, k)
      BY <1>1, <1>3 DEF Places
    <2>2. IsFiniteSet(Places(s, k)) /\ CountOf(s, k) = Cardinality(Places(s, k))
      BY CountNat
    <2>3. Cardinality(Places(s, k) \cup {Len(s) + 1}) = Cardinality(Places(s, k)) + 1
      BY <2>1, <2>2, FS_AddElement
    <2>4. CountOf(t, k) = Cardinality(Places(t, k))
      BY <1>2, CountNat
    <2> QED
      BY <1>3, <2>1, <2>2, <2>3, <2>4 DEF t
  <1>4. CASE m.kind # k
    <2>1. Places(t, k) = Places(s, k)
      BY <1>1, <1>4 DEF Places
    <2> QED
      BY <1>2, <1>4, <2>1, CountNat DEF t
  <1> QED
    BY <1>3, <1>4

LEMMA CountTail ==
  ASSUME NEW s \in Seq(Frames), s # <<>>, NEW k
  PROVE  CountOf(Tail(s), k) = IF Head(s).kind = k THEN CountOf(s, k) - 1 ELSE CountOf(s, k)
  <1> DEFINE t == Tail(s)
             T == Places(t, k)
             S == Places(s, k) \ {1}
             f == [i \in T |-> i + 1]
  <1>1. t \in Seq(Frames)
    BY SMTT(30)
  <1>2. 1 \in DOMAIN s /\ Head(s) = s[1]
    BY TailFrames
  <1>3. \A i \in T : i + 1 \in S
    BY TailFrames DEF Places
  <1>4. \A i, j \in T : i + 1 = j + 1 => i = j
    BY TailFrames DEF Places
  <1>5. ASSUME NEW j \in S PROVE \E i \in T : i + 1 = j
    <2>1. j \in DOMAIN s /\ j # 1 /\ s[j].kind = k
      BY <1>5 DEF Places
    <2>2. j - 1 \in DOMAIN t /\ t[j - 1] = s[j] /\ (j - 1) + 1 = j
      BY <2>1, SMTT(30)
    <2>3. j - 1 \in T
      BY <2>1, <2>2 DEF Places
    <2> QED
      BY <2>2, <2>3
  <1>6. IsFiniteSet(T) /\ IsFiniteSet(Places(s, k))
    BY <1>1, CountNat
  <1> HIDE DEF T, S
  <1>7. f \in Bijection(T, S)
    <2>1. f \in [T -> S]
      BY <1>3
    <2>2. \A i, j \in T : f[i] = f[j] => i = j
      BY <1>4
    <2>3. \A j \in S : \E i \in T : f[i] = j
      BY <1>5
    <2> HIDE DEF f
    <2>4. f \in Injection(T, S) /\ f \in Surjection(T, S)
      BY <2>1, <2>2, <2>3 DEF Injection, Surjection, IsInjective
    <2> QED
      BY <2>4 DEF Bijection
  <1>8. Cardinality(S) = Cardinality(T)
    <2>1. ExistsBijection(T, S)
      BY <1>7 DEF ExistsBijection
    <2> QED
      BY <1>6, <2>1, FS_Bijection
  <1>9. CountOf(t, k) = Cardinality(T) /\ CountOf(s, k) = Cardinality(Places(s, k))
    BY <1>1, CountNat DEF T
  <1>10. 1 \in Places(s, k) <=> Head(s).kind = k
    BY <1>2 DEF Places
  <1>11. Cardinality(S) = IF 1 \in Places(s, k) THEN Cardinality(Places(s, k)) - 1
                          ELSE Cardinality(Places(s, k))
    BY <1>6, FS_RemoveElement DEF S
  <1> QED
    BY <1>8, <1>9, <1>10, <1>11

-----------------------------------------------------------------------------
(* The chunks on their way to the receiver: their offsets rise, and they   *)
(* lie between what the receiver has and what the sender has sent.         *)
Rising(s) == \A i, j \in DOMAIN s :
               s[i].kind = "chunk" /\ s[j].kind = "chunk" /\ i < j => s[i].off < s[j].off
Above(s, n) == \A i \in DOMAIN s : s[i].kind = "chunk" => s[i].off >= n
Below(s, n) == \A i \in DOMAIN s : s[i].kind = "chunk" => s[i].off < n

LEMMA TailChunks ==
  ASSUME files \in Seq(Nat), NEW s \in Seq(Frames), s # <<>>
  PROVE  /\ Rising(s) => Rising(Tail(s))
         /\ \A n : (Above(s, n) => Above(Tail(s), n)) /\ (Below(s, n) => Below(Tail(s), n))
         /\ Rising(s) /\ Head(s).kind = "chunk" => Above(Tail(s), Head(s).off + 1)
         /\ \A n : Below(s, n) /\ Head(s).kind = "chunk" => Head(s).off < n
  <1>0. DOMAIN s \subseteq Nat /\ DOMAIN Tail(s) \subseteq Nat
    BY SMTT(30)
  <1>1. /\ 1 \in DOMAIN s /\ Head(s) = s[1]
        /\ \A i \in DOMAIN Tail(s) : i + 1 \in DOMAIN s /\ Tail(s)[i] = s[i + 1]
    BY TailFrames
  <1>2. \A i, j \in DOMAIN Tail(s) : i < j => i + 1 < j + 1
    BY <1>0, SMTT(30)
  <1>3. \A i \in DOMAIN Tail(s) : 1 < i + 1
    BY SMTT(30)
  <1>4. \A i \in DOMAIN s : s[i].off \in Nat
    <2>1. \A i \in DOMAIN s : s[i] \in Frames
      BY SMTT(30)
    <2> QED
      BY <2>1 DEF Frames
  <1>5. Rising(s) => Rising(Tail(s))
    BY <1>1, <1>2 DEF Rising
  <1>6. \A n : (Above(s, n) => Above(Tail(s), n)) /\ (Below(s, n) => Below(Tail(s), n))
    BY <1>1 DEF Above, Below
  <1>7. ASSUME Rising(s), Head(s).kind = "chunk", NEW i \in DOMAIN Tail(s), Tail(s)[i].kind = "chunk"
        PROVE  Tail(s)[i].off >= Head(s).off + 1
    <2>1. s[1].off < s[i + 1].off
      BY <1>1, <1>3, <1>7 DEF Rising
    <2>2. s[1].off \in Nat /\ s[i + 1].off \in Nat /\ Tail(s)[i] = s[i + 1] /\ Head(s) = s[1]
      BY <1>1, <1>4, <1>7
    <2>3. s[i + 1].off >= s[1].off + 1
      BY <2>1, <2>2, SMTT(30)
    <2> QED
      BY <2>2, <2>3
  <1>8. \A n : Below(s, n) /\ Head(s).kind = "chunk" => Head(s).off < n
    BY <1>1 DEF Below
  <1> QED
    BY <1>5, <1>6, <1>7, <1>8 DEF Above

LEMMA AppendChunks ==
  ASSUME files \in Seq(Nat), NEW s \in Seq(Frames), NEW m \in Frames, NEW o \in Nat,
         m.off = o, m.kind = "chunk", Rising(s), Below(s, o)
  PROVE  /\ Rising(Append(s, m)) /\ Below(Append(s, m), o + 1)
         /\ \A n \in Nat : n <= o /\ Above(s, n) => Above(Append(s, m), n)
  <1> DEFINE t == Append(s, m)
             e == Len(s) + 1
  <1>1. /\ DOMAIN t = DOMAIN s \cup {e} /\ t[e] = m
        /\ \A i \in DOMAIN s : t[i] = s[i] /\ i < e
    BY SMTT(30)
  <1>2. e \in Nat /\ \A i \in DOMAIN s : i \in Nat
    BY SMTT(30)
  <1>3. \A i \in DOMAIN s : s[i].off \in Nat
    <2>1. \A i \in DOMAIN s : s[i] \in Frames
      BY SMTT(30)
    <2> QED
      BY <2>1 DEF Frames
  <1> HIDE DEF t, e
  <1>4. ~(e < e) /\ \A i \in DOMAIN s : ~(e < i)
    BY <1>1, <1>2, SMTT(30)
  <1>5. Rising(t)
    BY <1>1, <1>4 DEF Rising, Below
  <1>6. o < o + 1 /\ \A i \in DOMAIN s : s[i].off < o => s[i].off < o + 1
    BY <1>3, SMTT(30)
  <1>7. Below(t, o + 1)
    BY <1>1, <1>6 DEF Below
  <1>8. \A n \in Nat : n <= o => o >= n
    BY SMTT(30)
  <1>9. \A n \in Nat : n <= o /\ Above(s, n) => Above(t, n)
    BY <1>1, <1>8 DEF Above
  <1> QED
    BY <1>5, <1>7, <1>9 DEF t

LEMMA NoneLeft ==
  ASSUME files \in Seq(Nat), NEW s \in Seq(Frames), NEW n \in Nat, Above(s, n), Below(s, n)
  PROVE  ~In(s, "chunk")
  <1>1. \A i \in DOMAIN s : s[i].off \in Nat
    <2>1. \A i \in DOMAIN s : s[i] \in Frames
      BY SMTT(30)
    <2> QED
      BY <2>1 DEF Frames
  <1>2. \A o \in Nat : ~(o >= n /\ o < n)
    BY SMTT(30)
  <1> QED
    BY <1>1, <1>2 DEF In, Above, Below

(* The chunks and their acknowledgements that are under way.  Between      *)
(* files there are none; while a file is streamed the sender's count is    *)
(* their number, and a receiver that has left the file has had all of its  *)
(* chunks.                                                                 *)
NoChunks == ~In(net["R"], "chunk") /\ ~In(net["S"], "chunkack")
StreamInv ==
  /\ inflight = CountOf(net["R"], "chunk") + CountOf(net["S"], "chunkack")
  /\ so <= files[sf] /\ Rising(net["R"]) /\ Below(net["R"], so)
  /\ recv \in {"inner", "check"} => Len(got) <= so /\ Above(net["R"], Len(got))
  /\ recv \notin {"inner", "check"} => so = files[sf] /\ ~In(net["R"], "chunk")
Live == ~cut /\ recv \in Running
WindowInv ==
  /\ send \in Beginning => NoChunks
  /\ Live => /\ send \in {"file", "metaack"} => NoChunks
             /\ send = "metaack" /\ In(net["S"], "metaack") => recv = "inner" /\ got = <<>>
             /\ send = "stream" => StreamInv

LEMMA WindowInit == Init => WindowInv
  <1> SUFFICES ASSUME Init PROVE WindowInv
    OBVIOUS
  <1>1. send = "idle" /\ net["S"] = <<>> /\ net["R"] = <<>>
    BY DEF Init, Hosts
  <1>2. DOMAIN <<>> = {}
    BY SMTT(30)
  <1> QED
    BY <1>1, <1>2 DEF WindowInv, NoChunks, In

(* While both transfers run, nothing that is sent is lost.                 *)
LEMMA LiveLink ==
  ASSUME OwnInv, Live, send \in Sending
  PROVE  ~Broken("S") /\ ~Broken("R")
  <1>1. conn["R"] = "slot" /\ conn["S"] = "slot" /\ ~cut
    BY DEF OwnInv, HoldInv, Live
  <1>2. Referred("R") /\ Referred("S")
    BY DEF Referred, Live, Running, Sending
  <1> QED
    BY <1>1, <1>2, PeerType DEF Broken, Gone

LEMMA QuietChunks == NetCalm(Loud) /\ NoChunks => NoChunks'
  BY DEF NetCalm, Calm, Loud, NoChunks

(* A step that leaves the frames and both transfers alone, or finds one of *)
(* them not streaming.                                                     *)
LEMMA WindowKeeps ==
  ASSUME WindowInv, NetCalm(Loud), UNCHANGED <<send, so, sf, inflight, files>>,
         \/ cut' = cut /\ UNCHANGED <<recv, got, net>>
         \/ cut'
         \/ recv' \notin Running
         \/ send \notin {"file", "metaack", "stream"}
  PROVE  WindowInv'
  <1>1. send' \in Beginning => NoChunks'
    BY QuietChunks DEF WindowInv
  <1>2. CASE cut' = cut /\ UNCHANGED <<recv, got, net>>
    BY <1>2 DEF WindowInv, NoChunks, Live, StreamInv
  <1>3. CASE cut' \/ recv' \notin Running
    BY <1>1, <1>3 DEF WindowInv, Live
  <1>4. CASE send \notin {"file", "metaack", "stream"}
    BY <1>1, <1>4 DEF WindowInv
  <1> QED
    BY <1>2, <1>3, <1>4

LEMMA WindowHand ==
  ASSUME TypeOK, OwnInv, WindowInv, HandStep
  PROVE  WindowInv'
  <1>1. UNCHANGED <<send, so, sf, inflight, files, recv, got, cut>>
    BY HandFrame DEF sending, receiving
  <1>2. net' = net \/ send = "idle" \/ recv = "idle"
    BY DEF OwnInv, HandInv, ReaderInv, HandStep, Dial, AcceptCall, CloseListener, ListenerStep,
       Handshake, HandshakeFails, AcceptStep, AcceptTakes, AcceptClosed, Accepted, AcceptFails,
       ConnectStep, Connected, ConnectFails
  <1> QED
    BY <1>1, <1>2, HandCalm, WindowKeeps DEF Running

LEMMA WindowAnswer ==
  ASSUME TypeOK, OwnInv, WindowInv, AnswerStep
  PROVE  WindowInv'
  <1>1. UNCHANGED <<send, so, sf, inflight, files, got, cut>>
    BY AnswerFrame DEF sending
  <1>2. (net' = net /\ recv' = recv) \/ recv' \in {"idle", "lock"}
    BY DEF OwnInv, ReaderInv, AnswerStep, ReaderStep, ReaderTake, ReaderRecv, ReaderPut, Refuse,
       Confirm, receiving
  <1> QED
    BY <1>1, <1>2, AnswerCalm, WindowKeeps DEF Running

LEMMA WindowClosing ==
  ASSUME TypeOK, OwnInv, WindowInv, ClosingStep
  PROVE  WindowInv'
  <1>1. UNCHANGED <<send, so, sf, inflight, files, recv, got, cut>>
    BY ClosingFrame DEF sending, receiving
  <1>2. net' = net \/ send \notin Sending \/ recv \notin Running
    BY PeerType DEF OwnInv, HoldInv, ClosingStep, Close, CloseLocked, CloseTimeout
  <1> QED
    BY <1>1, <1>2, ClosingCalm, WindowKeeps DEF Sending

LEMMA WindowSender ==
  ASSUME TypeOK, OwnInv, FlowInv, WindowInv, SenderStep
  PROVE  WindowInv'
  <1>0. /\ files' = files /\ recv' = recv /\ got' = got /\ cut' = cut /\ (Live' <=> Live)
    BY SenderFrame, SMTT(30) DEF receiving, Live
  <1>n. /\ net["S"] \in Seq(Frames) /\ net["R"] \in Seq(Frames) /\ net \in [Hosts -> Seq(Frames)]
        /\ files \in Seq(Nat) /\ "S" \in Hosts /\ "R" \in Hosts
    BY Lengths
  <1>k. ASSUME net["S"] # <<>>, net' = Take("S")
        PROVE  NetCalm(Loud) /\ net'["S"] = Tail(net["S"]) /\ net'["R"] = net["R"]
    BY <1>n, <1>k, TakeCalm, Taken DEF NetCalm
  <1>1. CASE send' \in {"done", "final", "verdict"}
    BY <1>1 DEF WindowInv, Beginning
  <1>2. CASE SendCall \/ SendTimeout
    <2>1. net' = net /\ send \in Beginning /\ send' \in {"lock", "timedout"}
      BY <1>2 DEF SendCall, SendTimeout, Beginning
    <2> QED
      BY <2>1 DEF WindowInv, NoChunks
  <1>3. CASE SendLock /\ send' = "offer"
    <2>1. send \in Beginning /\ net' = Deliver("S", Ctl("request"), net)
      BY <1>3 DEF SendLock, FailSend, Beginning
    <2>2. NetCalm(Loud)
      BY <1>n, <2>1, CalmSame, DeliverCalm DEF NetCalm
    <2> QED
      BY <1>3, <2>1, <2>2, QuietChunks DEF WindowInv
  <1>4. CASE SendAnswered /\ send' = "file"
    <2>1. net["S"] # <<>> /\ net' = Take("S") /\ send \in Beginning
      BY <1>4 DEF SendAnswered, Beginning
    <2> QED
      BY <1>4, <1>k, <2>1, QuietChunks DEF WindowInv, Beginning
  <1>5. CASE SendMeta
    <2>1. send = "file" /\ send' = "metaack" /\ net' = Deliver("S", Meta(sf), net) /\ sf <= Len(files)
      BY <1>5 DEF SendMeta
    <2>2. Meta(sf) \in Frames /\ Meta(sf).kind = "meta"
      <3>1. sf \in 0..Len(files)
        BY <2>1, Lengths, SMTT(30)
      <3> QED
        BY <3>1, MetaType
    <2>3. net'["S"] = net["S"] /\ (net'["R"] = net["R"] \/ net'["R"] = Append(net["R"], Meta(sf)))
      BY <2>1, <2>2, SentByS
    <2>4. In(net'["R"], "chunk") => In(net["R"], "chunk")
      BY <1>n, <2>2, <2>3, MaybeAdded
    <2>5. ~In(net["S"], "metaack")
      BY <2>1 DEF FlowInv, MetaAckInv
    <2> QED
      BY <1>0, <2>1, <2>3, <2>4, <2>5 DEF WindowInv, NoChunks, Beginning
  <1>6. CASE SendMetaAck /\ send' = "stream"
    <2>1. /\ net["S"] # <<>> /\ net' = Take("S") /\ send = "metaack" /\ so' = 0 /\ inflight' = 0
          /\ Head(net["S"]).kind = "metaack" /\ sf' = sf
      BY <1>6 DEF SendMetaAck, FailSend, Arrived
    <2>2. In(net["S"], "metaack")
      BY <1>n, <2>1, HeadFrame
    <2>3. SUFFICES ASSUME Live PROVE StreamInv'
      BY <1>0, <1>6 DEF WindowInv, Beginning
    <2>4. recv = "inner" /\ got = <<>> /\ NoChunks
      BY <2>1, <2>2, <2>3 DEF WindowInv
    <2>5. net'["R"] = net["R"] /\ ~In(net'["R"], "chunk") /\ ~In(net'["S"], "chunkack")
      BY <1>k, <2>1, <2>4, QuietChunks DEF NoChunks
    <2>6. net'["S"] \in Seq(Frames)
      BY <1>n, <2>1, Taken
    <2>7. CountOf(net'["R"], "chunk") = 0 /\ CountOf(net'["S"], "chunkack") = 0
      BY <1>n, <2>5, <2>6, CountNat
    <2>8. sf \in 1..Len(files)
      BY <2>1 DEF TypeOK, SendTypeOK
    <2>9. 0 <= files[sf] /\ 0 <= 0 /\ 0 = 0 + 0 /\ Len(<<>>) = 0
      BY <1>n, <2>8, SMTT(30)
    <2>10. /\ Rising(net'["R"]) /\ Below(net'["R"], 0) /\ Above(net'["R"], 0)
      BY <2>5 DEF Rising, Below, Above, In
    <2> QED
      BY <1>0, <2>1, <2>4, <2>7, <2>9, <2>10 DEF StreamInv
  <1>7. CASE SendChunk
    <2> DEFINE m == Chunk(sf, so, so + 1 = files[sf])
    <2>1. /\ send = "stream" /\ send' = "stream" /\ sf' = sf /\ so < files[sf]
          /\ so' = so + 1 /\ inflight' = inflight + 1 /\ net' = Deliver("S", m, net)
      BY <1>7 DEF SendChunk
    <2>2. sf \in 1..Len(files) /\ sf \in 0..Len(files) /\ so \in Nat /\ inflight \in Nat /\ Len(got) \in Nat
      <3>1. sf \in 1..Len(files) /\ inflight \in 0..Window /\ got \in Seq((0..Len(files)) \X Nat)
        BY <2>1 DEF TypeOK, SendTypeOK, RecvTypeOK
      <3>2. Len(got) \in Nat
        BY <3>1, SMTT(30)
      <3>3. inflight \in Nat /\ sf \in 0..Len(files)
        BY <3>1, Lengths, FfiConstants, SMTT(30)
      <3> QED
        BY <3>1, <3>2, <3>3, Lengths
    <2>3. m \in Frames /\ m.kind = "chunk" /\ m.off = so
      <3>1. (so + 1 = files[sf]) \in BOOLEAN
        OBVIOUS
      <3> QED
        BY <2>2, <3>1, ChunkType
    <2> HIDE DEF m
    <2>4. SUFFICES ASSUME Live PROVE StreamInv'
      BY <1>0, <2>1 DEF WindowInv, Beginning
    <2>5. StreamInv
      BY <2>1, <2>4 DEF WindowInv
    <2>6. net'["S"] = net["S"] /\ net'["R"] = Append(net["R"], m)
      BY <2>1, <2>3, <2>4, LiveLink, SentByS DEF Sending
    <2>7. CountOf(net'["R"], "chunk") = CountOf(net["R"], "chunk") + 1
      BY <1>n, <2>3, <2>6, CountAppend
    <2>8. CountOf(net["R"], "chunk") \in Nat /\ CountOf(net["S"], "chunkack") \in Nat
      BY <1>n, CountNat
    <2>9. inflight' = CountOf(net'["R"], "chunk") + CountOf(net'["S"], "chunkack")
      <3>1. \A a, b, c \in Nat : a = b + c => a + 1 = (b + 1) + c
        BY SMTT(30)
      <3> QED
        BY <2>1, <2>2, <2>5, <2>6, <2>7, <2>8, <3>1, SMTT(30) DEF StreamInv
    <2>10. so + 1 <= files[sf] /\ so # files[sf] /\ (Len(got) <= so => Len(got) <= so + 1)
      <3>1. files[sf] \in Nat
        BY <1>n, <2>2, SMTT(30)
      <3> QED
        BY <2>1, <2>2, <3>1, SMTT(30)
    <2>11. /\ Rising(net'["R"]) /\ Below(net'["R"], so + 1)
           /\ Len(got) <= so /\ Above(net["R"], Len(got)) => Above(net'["R"], Len(got))
      BY <1>n, <2>2, <2>3, <2>5, <2>6, AppendChunks DEF StreamInv
    <2> QED
      BY <1>0, <2>1, <2>5, <2>9, <2>10, <2>11 DEF StreamInv
  <1>8. CASE SendAcked
    <2>1. /\ send = "stream" /\ send' = "stream" /\ UNCHANGED <<sf, so>> /\ inflight > 0
          /\ net["S"] # <<>> /\ net' = Take("S")
          /\ inflight' = IF Head(net["S"]).kind = "chunkack" THEN inflight - 1 ELSE inflight
      BY <1>8 DEF SendAcked, Arrived
    <2>2. SUFFICES ASSUME Live PROVE StreamInv'
      BY <1>0, <2>1 DEF WindowInv, Beginning
    <2>3. StreamInv
      BY <2>1, <2>2 DEF WindowInv
    <2>4. net'["S"] = Tail(net["S"]) /\ net'["R"] = net["R"]
      BY <1>k, <2>1
    <2>5. CountOf(net'["S"], "chunkack") = IF Head(net["S"]).kind = "chunkack"
                                           THEN CountOf(net["S"], "chunkack") - 1
                                           ELSE CountOf(net["S"], "chunkack")
      BY <1>n, <2>1, <2>4, CountTail
    <2>6. CountOf(net["R"], "chunk") \in Nat /\ CountOf(net["S"], "chunkack") \in Nat
      BY <1>n, CountNat
    <2>7. inflight' = CountOf(net'["R"], "chunk") + CountOf(net'["S"], "chunkack")
      <3>1. \A a, b, c : b \in Nat /\ c \in Nat /\ a = b + c => a - 1 = b + (c - 1)
        BY SMTT(30)
      <3> QED
        BY <2>1, <2>3, <2>4, <2>5, <2>6, <3>1, SMTT(30) DEF StreamInv
    <2> QED
      BY <1>0, <2>1, <2>3, <2>4, <2>7 DEF StreamInv
  <1>9. CASE SendNextFile
    <2>1. send = "stream" /\ send' = "file" /\ net' = net /\ inflight = 0
      BY <1>9 DEF SendNextFile
    <2>2. SUFFICES ASSUME Live PROVE NoChunks
      BY <1>0, <2>1 DEF WindowInv, Beginning, NoChunks
    <2>3. 0 = CountOf(net["R"], "chunk") + CountOf(net["S"], "chunkack")
      BY <2>1, <2>2 DEF WindowInv, StreamInv
    <2>4. CountOf(net["R"], "chunk") \in Nat /\ CountOf(net["S"], "chunkack") \in Nat
      BY <1>n, CountNat
    <2>5. CountOf(net["R"], "chunk") = 0 /\ CountOf(net["S"], "chunkack") = 0
      <3>1. \A b, c \in Nat : 0 = b + c => b = 0 /\ c = 0
        BY SMTT(30)
      <3> QED
        BY <2>3, <2>4, <3>1
    <2> QED
      BY <1>n, <2>5, CountNat DEF NoChunks
  <1>10. \/ send' \in {"done", "final", "verdict"} \/ SendCall \/ SendTimeout
         \/ (SendLock /\ send' = "offer") \/ (SendAnswered /\ send' = "file") \/ SendMeta
         \/ (SendMetaAck /\ send' = "stream") \/ SendChunk \/ SendAcked \/ SendNextFile
    BY DEF SenderStep, SendStep, SendLock, SendAnswered, SendTimedOut, SendMetaAck, SendComplete,
       SendVerdict, SendReturns, SendFails, FailSend
  <1> QED
    BY <1>1, <1>2, <1>3, <1>4, <1>5, <1>6, <1>7, <1>8, <1>9, <1>10

LEMMA WindowRecv ==
  ASSUME TypeOK, OwnInv, FlowInv, WindowInv, RecvStep
  PROVE  WindowInv'
  <1>0. /\ UNCHANGED <<send, so, sf, inflight, files>> /\ cut' = cut
        /\ StartInv /\ MetaInv /\ MetaAckInv /\ CompleteInv /\ PaceInv /\ EndInv
    BY RecvFrame DEF sending, FlowInv
  <1>n. /\ net["S"] \in Seq(Frames) /\ net["R"] \in Seq(Frames) /\ net \in [Hosts -> Seq(Frames)]
        /\ files \in Seq(Nat) /\ "S" \in Hosts /\ "R" \in Hosts
    BY Lengths
  <1>g. Len(got) \in Nat /\ so \in Nat
    <2>1. got \in Seq((0..Len(files)) \X Nat)
      BY DEF TypeOK, RecvTypeOK
    <2>2. Len(got) \in Nat
      BY <2>1, SMTT(30)
    <2> QED
      BY <2>2, Lengths
  <1>k. ASSUME net["R"] # <<>>
        PROVE  /\ Take("R") \in [Hosts -> Seq(Frames)]
               /\ Take("R")["R"] = Tail(net["R"]) /\ Take("R")["S"] = net["S"]
               /\ (net' = Take("R") => NetCalm(Loud))
    BY <1>n, <1>k, TakeCalm, Taken DEF NetCalm
  <1>1. CASE recv' = "done"
    <2>1. send \in Beginning => NoChunks'
      <3>1. CASE net' = net
        BY <3>1 DEF WindowInv, NoChunks
      <3>2. CASE recv \in {"inner", "check"}
        BY <1>0, <3>2 DEF StartInv
      <3>3. CASE RecvOuter
        <4>1. Head(net["R"]).kind = "meta" /\ net["R"] # <<>>
          BY <1>1, <3>3 DEF RecvOuter
        <4>2. In(net["R"], "meta")
          BY <1>n, <4>1, HeadFrame
        <4> QED
          BY <1>0, <4>2 DEF MetaInv, Beginning
      <3> QED
        BY <1>1, <3>1, <3>2, <3>3 DEF RecvStep, RecvLock, RecvInner, RecvCheck, RecvAck, RecvReturns,
           RecvFails
    <2> QED
      BY <1>0, <1>1, <2>1 DEF WindowInv, Live, Running
  <1>2. CASE RecvLock /\ recv' # "done"
    <2>1. recv = "lock" /\ net' = Deliver("R", Ctl("accept"), net)
      BY <1>2 DEF RecvLock, FailRecv
    <2>2. Ctl("accept") \in Frames /\ Ctl("accept").kind = "accept"
      BY <1>n, CtlType
    <2>3. net'["R"] = net["R"] /\ (net'["S"] = net["S"] \/ net'["S"] = Append(net["S"], Ctl("accept")))
      BY <1>n, <2>1, <2>2, SentByR
    <2>4. In(net'["S"], "chunkack") => In(net["S"], "chunkack")
      BY <1>n, <2>2, <2>3, MaybeAdded
    <2>5. send \in Beginning \cup {"done"}
      BY <1>0, <2>1 DEF StartInv
    <2> QED
      BY <1>0, <2>3, <2>4, <2>5 DEF WindowInv, NoChunks, Beginning
  <1>3. CASE RecvOuter /\ recv' # "done"
    <2> DEFINE m == Head(net["R"])
    <2>1. recv = "outer" /\ net["R"] # <<>>
      BY <1>3 DEF RecvOuter
    <2>2. In(net["R"], m.kind)
      BY <1>n, <2>1, HeadFrame
    <2>3. CASE m.kind = "meta"
      <3>1. net' = Deliver("R", Ctl("metaack"), Take("R")) /\ recv' = "inner" /\ got' = <<>>
        BY <1>3, <2>3 DEF RecvOuter, FailRecv
      <3>2. Ctl("metaack") \in Frames /\ Ctl("metaack").kind = "metaack"
        BY <1>n, CtlType
      <3>3. /\ net'["R"] = Tail(net["R"])
            /\ net'["S"] = net["S"] \/ net'["S"] = Append(net["S"], Ctl("metaack"))
        BY <1>k, <2>1, <3>1, <3>2, SentByR
      <3>4. In(net'["S"], "chunkack") => In(net["S"], "chunkack")
        BY <1>n, <3>2, <3>3, MaybeAdded
      <3>5. In(net'["R"], "chunk") => In(net["R"], "chunk")
        BY <1>n, <2>1, <3>3, CalmTail DEF Calm, Loud
      <3>6. send \in {"metaack", "done"}
        BY <1>0, <2>2, <2>3 DEF MetaInv
      <3>7. Live' => Live
        BY <1>0, <2>1 DEF Live, Running
      <3> QED
        BY <1>0, <3>1, <3>4, <3>5, <3>6, <3>7 DEF WindowInv, NoChunks, Beginning
    <2>4. CASE m.kind = "complete"
      <3>1. send \in {"final", "verdict", "done"}
        BY <1>0, <2>2, <2>4 DEF CompleteInv
      <3> QED
        BY <1>0, <3>1 DEF WindowInv, Beginning
    <2>5. CASE m.kind \notin {"meta", "complete"}
      <3>1. net' = Take("R") /\ recv' = recv /\ got' = got
        BY <1>3, <2>5 DEF RecvOuter
      <3>2. NetCalm(Loud) /\ net'["R"] = Tail(net["R"]) /\ net'["S"] = net["S"] /\ (Live' <=> Live)
        BY <1>0, <1>k, <2>1, <3>1 DEF Live
      <3>3. NoChunks => NoChunks'
        BY <3>2, QuietChunks
      <3>4. ASSUME Live, send = "stream" PROVE StreamInv'
        <4>1. StreamInv /\ ~In(net["R"], "chunk")
          BY <2>1, <3>4 DEF WindowInv, StreamInv
        <4>2. m.kind # "chunk"
          BY <2>2, <4>1
        <4>3. CountOf(net'["R"], "chunk") = CountOf(net["R"], "chunk")
          BY <1>n, <2>1, <3>2, <4>2, CountTail
        <4>4. Rising(net'["R"]) /\ Below(net'["R"], so)
          BY <1>n, <2>1, <3>2, <4>1, TailChunks DEF StreamInv
        <4>5. ~In(net'["R"], "chunk")
          BY <3>2, <4>1 DEF NetCalm, Calm, Loud
        <4> QED
          BY <1>0, <2>1, <3>1, <3>2, <4>1, <4>3, <4>4, <4>5 DEF StreamInv
      <3> QED
        BY <1>0, <2>1, <3>1, <3>2, <3>3, <3>4 DEF WindowInv
    <2> QED
      BY <2>3, <2>4, <2>5
  <1>4. CASE RecvInner /\ recv' # "done"
    <2> DEFINE m == Head(net["R"])
    <2>1. recv = "inner" /\ net["R"] # <<>> /\ send \notin Beginning
      BY <1>0, <1>4 DEF RecvInner, StartInv
    <2>2. In(net["R"], m.kind)
      BY <1>n, <2>1, HeadFrame
    <2>3. Live' => Live
      BY <1>0, <2>1 DEF Live, Running
    <2>4. CASE m.kind = "chunk"
      <3>1. /\ m.off = Len(got) /\ got' = Append(got, <<m.file, m.off>>)
            /\ net' = Deliver("R", Ctl("chunkack"), Take("R")) /\ recv' \in {"inner", "check"}
        BY <1>4, <2>4 DEF RecvInner, RecvChunk, FailRecv
      <3>2. ASSUME Live, send = "stream" PROVE StreamInv'
        <4>1. StreamInv
          BY <3>2 DEF WindowInv
        <4>2. Ctl("chunkack") \in Frames /\ Ctl("chunkack").kind = "chunkack"
          BY <1>n, CtlType
        <4>3. net'["R"] = Tail(net["R"]) /\ net'["S"] = Append(net["S"], Ctl("chunkack"))
          BY <1>k, <2>1, <3>1, <3>2, <4>2, SentByR, LiveLink DEF Sending
        <4>4. CountOf(net'["S"], "chunkack") = CountOf(net["S"], "chunkack") + 1
          BY <1>n, <4>2, <4>3, CountAppend, SMTT(30)
        <4>5. CountOf(net'["R"], "chunk") = CountOf(net["R"], "chunk") - 1
          BY <1>n, <2>1, <2>4, <4>3, CountTail
        <4>6. CountOf(net["R"], "chunk") \in Nat /\ CountOf(net["S"], "chunkack") \in Nat
          BY <1>n, CountNat
        <4>7. inflight' = CountOf(net'["R"], "chunk") + CountOf(net'["S"], "chunkack")
          <5>1. \A b, c \in Nat : b + c = (b - 1) + (c + 1)
            BY SMTT(30)
          <5>2. inflight = CountOf(net["R"], "chunk") + CountOf(net["S"], "chunkack")
            BY <4>1 DEF StreamInv
          <5> QED
            BY <1>0, <4>4, <4>5, <4>6, <5>1, <5>2
        <4>8. Rising(net'["R"]) /\ Below(net'["R"], so) /\ Above(net'["R"], Len(got) + 1) /\ Len(got) < so
          <5>1. Rising(net["R"]) /\ Below(net["R"], so)
            BY <4>1 DEF StreamInv
          <5>2. Above(Tail(net["R"]), Head(net["R"]).off + 1) /\ Head(net["R"]).off < so
            BY <1>n, <2>1, <2>4, <5>1, TailChunks
          <5> QED
            BY <1>n, <2>1, <3>1, <4>3, <5>1, <5>2, TailChunks
        <4>9. Len(got') = Len(got) + 1
          <5>1. got \in Seq((0..Len(files)) \X Nat)
            BY DEF TypeOK, RecvTypeOK
          <5>2. got' \in Seq((0..Len(files)) \X Nat)
            <6>1. TypeOK'
              BY RecvType
            <6> QED
              BY <1>0, <6>1 DEF TypeOK, RecvTypeOK
          <5> QED
            BY <3>1, <5>1, <5>2, SMTT(30)
        <4>10. Len(got) + 1 <= so
          BY <1>g, <4>8, SMTT(30)
        <4> QED
          BY <1>0, <3>1, <4>1, <4>7, <4>8, <4>9, <4>10 DEF StreamInv
      <3>3. Live => send \notin {"file", "metaack"}
        BY <2>2, <2>4 DEF WindowInv, NoChunks
      <3> QED
        BY <1>0, <2>1, <2>3, <3>2, <3>3 DEF WindowInv
    <2>5. CASE m.kind = "complete"
      <3>1. send \in {"final", "verdict", "done"}
        BY <1>0, <2>2, <2>5 DEF CompleteInv
      <3> QED
        BY <1>0, <3>1 DEF WindowInv, Beginning
    <2>6. CASE m.kind \notin {"chunk", "complete"}
      <3>1. net' = Take("R") /\ recv' = recv /\ got' = got
        BY <1>4, <2>6 DEF RecvInner
      <3>2. NetCalm(Loud) /\ net'["R"] = Tail(net["R"]) /\ net'["S"] = net["S"]
        BY <1>k, <2>1, <3>1
      <3>3. NoChunks => NoChunks'
        BY <3>2, QuietChunks
      <3>4. ASSUME Live, send = "stream" PROVE StreamInv'
        <4>1. StreamInv
          BY <3>4 DEF WindowInv
        <4>2. CountOf(net'["R"], "chunk") = CountOf(net["R"], "chunk")
          BY <1>n, <2>1, <2>6, <3>2, CountTail
        <4>3. Rising(net'["R"]) /\ Below(net'["R"], so) /\ Above(net'["R"], Len(got))
          BY <1>n, <2>1, <3>2, <4>1, TailChunks DEF StreamInv
        <4> QED
          BY <1>0, <2>1, <3>1, <3>2, <4>1, <4>2, <4>3 DEF StreamInv
      <3> QED
        BY <1>0, <2>1, <2>3, <3>1, <3>2, <3>3, <3>4 DEF WindowInv
    <2> QED
      BY <2>4, <2>5, <2>6
  <1>5. CASE RecvCheck /\ recv' # "done"
    <2>1. /\ recv = "check" /\ net' = net /\ got' = got /\ got = Content(rf)
          /\ recv' \in {"outer", "ack"} /\ send \notin Beginning
      BY <1>0, <1>5 DEF RecvCheck, FailRecv, StartInv
    <2>2. Live' => Live
      BY <1>0, <2>1 DEF Live, Running
    <2>3. ASSUME Live, send = "stream" PROVE StreamInv'
      <3>1. StreamInv
        BY <2>3 DEF WindowInv
      <3>2. rf = sf /\ sf \in 1..Len(files)
        BY <1>0, <2>1, <2>3 DEF PaceInv, Serving, TypeOK, SendTypeOK
      <3>3. Len(got) = files[sf] /\ files[sf] \in Nat
        <4>1. files[sf] \in Nat
          BY <1>n, <3>2, SMTT(30)
        <4>2. DOMAIN got = 1..files[sf]
          BY <2>1, <3>2 DEF Content
        <4>3. got \in Seq((0..Len(files)) \X Nat)
          BY DEF TypeOK, RecvTypeOK
        <4> QED
          BY <4>1, <4>2, <4>3, SMTT(30)
      <3>4. /\ Len(got) <= so /\ so <= files[sf] /\ Above(net["R"], Len(got)) /\ Below(net["R"], so)
        BY <2>1, <3>1 DEF StreamInv
      <3>5. so = files[sf]
        BY <1>g, <3>3, <3>4, SMTT(30)
      <3>6. ~In(net["R"], "chunk")
        BY <1>n, <3>3, <3>4, <3>5, NoneLeft
      <3> QED
        BY <1>0, <2>1, <3>1, <3>5, <3>6 DEF StreamInv
    <2> QED
      BY <1>0, <2>1, <2>2, <2>3 DEF WindowInv, NoChunks
  <1>6. CASE RecvAck
    <2>1. /\ recv = "ack" /\ recv' = "verdict" /\ got' = got /\ net' = Deliver("R", Ctl("ack"), net)
          /\ send \notin Beginning
      BY <1>0, <1>6 DEF RecvAck, StartInv
    <2>2. Ctl("ack") \in Frames /\ Ctl("ack").kind = "ack"
      BY <1>n, CtlType
    <2>3. net'["R"] = net["R"] /\ (net'["S"] = net["S"] \/ net'["S"] = Append(net["S"], Ctl("ack")))
      BY <1>n, <2>1, <2>2, SentByR
    <2>4. \A k : k # "ack" => (In(net'["S"], k) => In(net["S"], k))
      BY <1>n, <2>2, <2>3, MaybeAdded
    <2>5. CountOf(net'["S"], "chunkack") = CountOf(net["S"], "chunkack")
      <3>1. CountOf(Append(net["S"], Ctl("ack")), "chunkack") = CountOf(net["S"], "chunkack")
        BY <1>n, <2>2, CountAppend
      <3> QED
        BY <2>3, <3>1
    <2>6. Live' => Live
      BY <1>0, <2>1 DEF Live, Running
    <2>7. ASSUME Live, send = "stream" PROVE StreamInv'
      BY <1>0, <2>1, <2>3, <2>5, <2>7 DEF WindowInv, StreamInv
    <2> QED
      BY <1>0, <2>1, <2>3, <2>4, <2>6, <2>7 DEF WindowInv, NoChunks
  <1> QED
    BY <1>1, <1>2, <1>3, <1>4, <1>5, <1>6 DEF RecvStep, RecvReturns, RecvFails, FailRecv

LEMMA WindowNext == TypeOK /\ OwnInv /\ FlowInv /\ WindowInv /\ [Next]_vars => WindowInv'
  <1> SUFFICES ASSUME TypeOK, OwnInv, FlowInv, WindowInv, [Next]_vars PROVE WindowInv'
    OBVIOUS
  <1>1. CASE Cut
    <2>1. UNCHANGED <<send, so, sf, inflight, files>> /\ cut' /\ NetCalm(Loud)
      BY <1>1, CalmEmpty DEF Cut, sending, NetCalm, Hosts
    <2> QED
      BY <2>1, WindowKeeps
  <1>2. CASE EventStep \/ UNCHANGED vars
    <2>1. UNCHANGED <<send, so, sf, inflight, files>> /\ cut' = cut /\ UNCHANGED <<recv, got, net>>
      BY <1>2, EventFrame DEF vars, sending, receiving
    <2>2. NetCalm(Loud)
      BY <2>1, CalmSame DEF NetCalm
    <2> QED
      BY <2>1, <2>2, WindowKeeps
  <1> QED
    BY <1>1, <1>2, Families, WindowHand, WindowAnswer, WindowClosing, WindowSender, WindowRecv

(* The in_flight of do_send_file counts the chunks and the CHUNK_ACKs that *)
(* are on their way, and nothing else, as long as both transfers run on an *)
(* unbroken connection: for any manifest, window and event capacity.       *)
THEOREM InFlightExact == Spec => []WindowExact
  <1> DEFINE Inv == TypeOK /\ OwnInv /\ FlowInv /\ WindowInv
  <1>1. Init => Inv
    BY TypeInit, OwnInit, FlowInit, WindowInit
  <1>2. Inv /\ [Next]_vars => Inv'
    BY TypeNext, OwnNext, FlowNext, WindowNext
  <1>3. Inv => WindowExact
    BY DEF WindowInv, WindowExact, StreamInv, Live, Running, Broken
  <1> QED
    BY <1>1, <1>2, <1>3, PTL DEF Spec
=============================================================================
