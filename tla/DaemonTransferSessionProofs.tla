-------------------- MODULE DaemonTransferSessionProofs ---------------------
(***************************************************************************)
(* Proofs about DaemonTransfer that rest on what the two tasks of a        *)
(* session know of each other: resume state is the peer's own, progress is *)
(* not taken back, the window bounds what is in flight, the daemons        *)
(* implement FileDelivery, and what is acknowledged is synced.             *)
(***************************************************************************)
EXTENDS DaemonTransferProofs

(* Zenon first: it is quick and takes most leaves; SMT is cited where a     *)
(* leaf needs arithmetic, sequences or extensionality.                      *)
USE ZenonT(30), SMTT(30)

-----------------------------------------------------------------------------
(* The session.  What each side may have on the wire, and where the other  *)
(* side may be, in each phase of the sender.  The invariant is about what  *)
(* the two tasks know of each other through the frames in flight, and      *)
(* every later one rests on it.                                            *)
Active == tx.pc \notin {"idle", "redial"}
Only(chan, types) == \A m \in Frames(chan) : m.type \in types

(* A connection that is up has a task at both ends; what is left on a dead *)
(* one is addressed to a task that is still there.                         *)
Ends ==
    /\ conn = "up" => Active /\ rx.pc # "idle"
    /\ rx.pc = "idle" => s2r = <<>>
    /\ ~Active => r2s = <<>>

(* The frames that open a phase travel alone, towards a handler that waits *)
(* for them.                                                               *)
Opening ==
    \A m \in Frames(s2r) :
        /\ m.type \in {"request", "query"} => rx.pc = "main" /\ Single(s2r)
        /\ m.type = "meta" => rx.pc = "transfer" /\ Single(s2r)

(* Waiting for the answer to TRANSFER_REQUEST: one frame each way at most, *)
(* and an acceptance comes from a handler that entered the transfer.       *)
PhaseAccept ==
    tx.pc = "accept" =>
      /\ Only(s2r, {"request"}) /\ Only(r2s, {"accept", "reject"})
      /\ Single(r2s) /\ (r2s # <<>> => s2r = <<>>)
      /\ rx.pc \in {"idle", "main", "consent", "transfer"}
      /\ rx.pc = "consent" => s2r = <<>> /\ r2s = <<>>
      /\ \A m \in Frames(r2s) : m.type = "accept" => rx.pc \in {"idle", "transfer"}

(* Waiting for RESUME_STATUS: the same, and a handler that said it can     *)
(* resume has entered the transfer.                                        *)
PhaseStatus ==
    tx.pc = "status" =>
      /\ Only(s2r, {"query"}) /\ Only(r2s, {"status"})
      /\ Single(r2s) /\ (r2s # <<>> => s2r = <<>>)
      /\ rx.pc \in {"idle", "main", "transfer"}
      /\ \A m \in Frames(r2s) : m.resumable => rx.pc \in {"idle", "transfer"}

(* Waiting for FILE_METADATA_ACK: an answer follows the metadata.          *)
PhaseMeta ==
    tx.pc = "meta_ack" =>
      /\ Only(s2r, {"meta"}) /\ (r2s # <<>> => s2r = <<>>)
      /\ rx.pc \in {"idle", "transfer", "file"}

(* Sending chunks: nothing else is on the way to the receiver, which is in *)
(* the transfer or in the file.                                            *)
PhaseStream ==
    tx.pc = "stream" =>
      Only(s2r, {"chunk"}) /\ (rx.pc \in {"idle", "transfer"} \/ Receiving)

(* Waiting for TRANSFER_ACK: chunks and TRANSFER_COMPLETE may be on the    *)
(* way; a handler back in its main loop has forgotten the transfer.        *)
PhaseAck ==
    tx.pc = "transfer_ack" =>
      /\ Only(s2r, {"chunk", "complete"})
      /\ rx.pc \in {"idle", "transfer"} \/ Receiving \/ (rx.pc = "main" /\ rx.tid = 0)

Session == Ends /\ Opening /\ PhaseAccept /\ PhaseStatus /\ PhaseMeta
             /\ PhaseStream /\ PhaseAck

(* The sender gives the connection up.                                     *)
TxGone ==
    /\ tx' = TxIdle \/ tx' = [tx EXCEPT !.pc = "redial"]
    /\ conn' = "down" /\ r2s' = <<>>
    /\ \A m \in Frames(s2r') : m \in Frames(s2r) \/ m.type \in {"cancel", "close"}
    /\ \A m \in Frames(s2r') :
         m.type \in {"request", "query", "meta"} => Single(s2r')
    /\ rx.pc = "idle" => s2r' = <<>>
    /\ Count(s2r', "chunk") \subseteq Count(s2r, "chunk")
    /\ s2r' \in Seq(SMsg)
    /\ UNCHANGED <<rx, disk, minted>>

TxLeaves ==
    \/ TxRejected \/ TxAcceptTimeout \/ TxNotResumable \/ TxMetaRefused
    \/ (TxTransferAck /\ tx'.pc = "idle")
    \/ TxClosed \/ TxReadError \/ TxCrash
    \/ \E type \in {"cancel", "close"} : TxAbort(type)

(* Every step with which the sender ends or drops its connection is of     *)
(* that kind.                                                              *)
LEMMA TxLeft ==
    ASSUME TypeOK, Session, TxLeaves
    PROVE  TxGone
  <1> USE DEF TypeOK, NetTypeOK
  <1>1. TxTransferAck /\ tx'.pc = "idle"
          => tx' = TxIdle /\ TxHangUp(s2r) /\ UNCHANGED <<rx, disk, minted>>
    BY DEF TxTransferAck, TxTypeOK, Tx, env
  <1>2. ASSUME NEW sent \in Seq(SMsg), TxHangUp(sent),
               \A m \in Frames(sent) :
                   m \in Frames(s2r) \/ m.type \in {"cancel", "close"},
               Count(sent, "chunk") = Count(s2r, "chunk"),
               sent = s2r \/ ~ \E m \in Frames(s2r) :
                                m.type \in {"request", "query", "meta"},
               rx.pc = "idle" => sent = <<>>,
               tx' = TxIdle \/ tx' = [tx EXCEPT !.pc = "redial"],
               UNCHANGED <<rx, disk, minted>>
        PROVE  TxGone
    <2>1. s2r' \in Prefixes(sent) /\ conn' = "down" /\ r2s' = <<>>
      BY <1>2 DEF TxHangUp
    <2>2. Frames(s2r') \subseteq Frames(sent) /\ (Single(sent) => Single(s2r'))
            /\ (sent = <<>> => s2r' = <<>>) /\ s2r' \in Seq(SMsg)
      BY <1>2, <2>1, PrefixRange, PrefixType
    <2>3. Count(s2r', "chunk") \subseteq Count(s2r, "chunk")
      BY <1>2, <2>1, CountPrefix
    <2>4. \A m \in Frames(s2r') :
            m.type \in {"request", "query", "meta"} => Single(s2r')
      BY <1>2, <2>2 DEF Session, Opening
    <2> QED
      BY <1>2, <2>1, <2>2, <2>3, <2>4 DEF TxGone
  <1>3. ASSUME TxHangUp(s2r),
               tx' = TxIdle \/ tx' = [tx EXCEPT !.pc = "redial"],
               UNCHANGED <<rx, disk, minted>>
        PROVE  TxGone
    BY <1>2, <1>3 DEF Session, Ends
  <1>4. ASSUME NEW bye \in {"cancel", "close"},
               TxHangUp(Deliver(s2r, [type |-> bye])),
               ~ \E m \in Frames(s2r) : m.type \in {"request", "query", "meta"},
               tx' = TxIdle \/ tx' = [tx EXCEPT !.pc = "redial"],
               UNCHANGED <<rx, disk, minted>>
        PROVE  TxGone
    <2> DEFINE m == [type |-> bye]
    <2>1. m \in SMsg /\ m.type = bye
      BY SMsgSent
    <2> HIDE DEF m
    <2>2. Deliver(s2r, m) \in Seq(SMsg)
            /\ Frames(Deliver(s2r, m)) \subseteq Frames(s2r) \cup {m}
            /\ (conn # "up" => Deliver(s2r, m) = s2r)
      BY <2>1, DeliverRange
    <2>3. Count(Deliver(s2r, m), "chunk") = Count(s2r, "chunk")
      BY <2>1, CountAppend DEF Deliver
    <2>4. rx.pc = "idle" => Deliver(s2r, m) = <<>>
      BY <2>2 DEF Session, Ends
    <2>5. TxHangUp(Deliver(s2r, m))
      BY <1>4 DEF m
    <2> QED
      BY <1>2, <1>4, <2>1, <2>2, <2>3, <2>4, <2>5
  <1>5. Frames(<<>>) = {}
    BY EmptyChannel
  <1>6. CASE TxRejected
    BY <1>4, <1>5, <1>6
    DEF TxRejected, TxReceives, Session, PhaseAccept, env
  <1>7. CASE TxMetaRefused
    <2>1. r2s # <<>> /\ s2r = <<>>
      BY <1>7 DEF TxMetaRefused, TxReceives, Session, PhaseMeta
    <2> QED
      BY <1>3, <1>4, <1>5, <1>7, <2>1 DEF TxMetaRefused, env
  <1>8. CASE \E type \in {"cancel", "close"} : TxAbort(type)
    <2>1. \A m \in Frames(s2r) : m.type = "chunk"
      BY <1>8 DEF TxAbort, Session, PhaseStream, Only
    <2> QED
      BY <1>4, <1>8, <2>1 DEF TxAbort, env
  <1>9. CASE TxAcceptTimeout \/ TxNotResumable \/ TxClosed \/ TxReadError
               \/ TxCrash
    BY <1>3, <1>9
    DEF TxAcceptTimeout, TxNotResumable, TxClosed, TxReadError, TxCrash, env
  <1> QED
    BY <1>1, <1>3, <1>6, <1>7, <1>8, <1>9 DEF TxLeaves

(* The receiver gives the connection up.  Its last frame, if it has one,   *)
(* answers the frame at hand.                                              *)
LastWord(r) ==
    \/ r \in Prefixes(r2s)
    \/ \E q \in Frames(s2r), m \in RMsg :
         /\ conn = "up" /\ r \in Prefixes(Append(r2s, m))
         /\ \/ q.type = "meta" /\ m.type = "meta_ack" /\ m.accepted
            \/ q.type = "chunk" /\ m.type = "error" /\ rx.pc = "file"
            \/ q.type = "close" /\ m.type = "close"

RxGone ==
    /\ rx' = RxIdle /\ conn' = "down" /\ s2r' = <<>>
    /\ LastWord(r2s')
    /\ r2s' \in Seq(RMsg)
    /\ Count(r2s', "chunk_ack") \subseteq Count(r2s, "chunk_ack")
    /\ DOMAIN journal' \subseteq DOMAIN journal
    /\ UNCHANGED <<tx, published, minted>>

RxLeaves ==
    \/ RxOpenFails \/ RxCompleteFails \/ RxSessionClose \/ RxBadChunk
    \/ RxMisplacedChunk \/ RxWriteFails \/ RxSaveFails \/ RxChunkAckFails
    \/ RxMismatch \/ RxCancelled \/ RxClosed \/ RxReadError \/ RxCrash

(* Every step with which the receiver ends its handler is of that kind.    *)
LEMMA RxLeft ==
    ASSUME TypeOK, RxLeaves
    PROVE  RxGone
  <1> USE DEF TypeOK, NetTypeOK
  <1> DEFINE Kept == /\ DOMAIN journal' \subseteq DOMAIN journal
                     /\ UNCHANGED <<tx, published, minted>>
  <1>1. ASSUME RxExit(r2s), Kept
        PROVE  RxGone
    <2>1. r2s' \in Prefixes(r2s)
      BY <1>1 DEF RxExit, RxHangUp
    <2> QED
      BY <1>1, <2>1, PrefixType, CountPrefix
      DEF RxGone, LastWord, RxExit, RxHangUp
  <1>2. ASSUME NEW m \in RMsg, NEW q \in Frames(s2r),
               RxExit(Deliver(r2s, m)), Kept,
               \/ q.type = "meta" /\ m.type = "meta_ack" /\ m.accepted
               \/ q.type = "chunk" /\ m.type = "error" /\ rx.pc = "file"
               \/ q.type = "close" /\ m.type = "close"
        PROVE  RxGone
    <2>1. CASE conn # "up"
      BY <1>1, <1>2, <2>1 DEF Deliver
    <2>2. CASE conn = "up"
      <3>1. Append(r2s, m) \in Seq(RMsg) /\ r2s' \in Prefixes(Append(r2s, m))
        BY <1>2, <2>2, SMTT(30) DEF RxExit, RxHangUp, Deliver
      <3>2. LastWord(r2s')
        BY <1>2, <2>2, <3>1 DEF LastWord
      <3>3. Count(r2s', "chunk_ack") \subseteq Count(Append(r2s, m), "chunk_ack")
        BY <3>1, CountPrefix
      <3>4. Count(Append(r2s, m), "chunk_ack") = Count(r2s, "chunk_ack")
        BY <1>2, CountAppend
      <3>5. r2s' \in Seq(RMsg)
        BY <3>1, PrefixType
      <3> QED
        BY <1>2, <3>2, <3>3, <3>4, <3>5 DEF RxGone, RxExit, RxHangUp
    <2> QED
      BY <2>1, <2>2
  <1>3. s2r # <<>> => Head(s2r) \in Frames(s2r)
    BY HeadInRange
  <1>4. CASE RxOpenFails
    <2>1. [type |-> "meta_ack", accepted |-> TRUE] \in RMsg
      BY RMsgSent
    <2> QED
      BY <1>2, <1>3, <1>4, <2>1 DEF RxOpenFails, RxReceives, disk, env
  <1>5. CASE RxSessionClose
    <2>1. [type |-> "close"] \in RMsg
      BY RMsgSent
    <2> QED
      BY <1>2, <1>3, <1>5, <2>1 DEF RxSessionClose, RxReceives, disk, env
  <1>6. CASE RxBadChunk \/ RxMisplacedChunk
    <2>1. [type |-> "error"] \in RMsg
      BY RMsgSent
    <2> QED
      BY <1>2, <1>3, <1>6, <2>1
      DEF RxBadChunk, RxMisplacedChunk, NextChunk, RxReceives, RxError, disk,
          env
  <1>7. CASE RxCompleteFails \/ RxWriteFails \/ RxSaveFails \/ RxChunkAckFails
               \/ RxMismatch \/ RxCancelled \/ RxClosed \/ RxReadError
    BY <1>1, <1>7
    DEF RxCompleteFails, RxWriteFails, RxSaveFails, RxChunkAckFails,
        RxMismatch, RxCancelled, RxClosed, RxReadError, disk, env
  <1>8. CASE RxCrash
    BY <1>1, <1>8 DEF RxCrash
  <1> QED
    BY <1>4, <1>5, <1>6, <1>7, <1>8 DEF RxLeaves

(* A new attempt: a connection with nothing on it but the first frame.     *)
Dialled ==
    /\ rx.pc = "idle" /\ conn' = "up" /\ r2s' = <<>> /\ tx.pc \in {"idle", "redial"}
    /\ rx'.pc = "main" /\ rx'.tid = 0 /\ rx'.mem = RxIdle.mem
    /\ tx'.off = 0 /\ tx'.inflight = 0 /\ tx'.acked = 0 /\ tx'.skip = 0
    /\ \E m \in SMsg :
         /\ s2r' = <<m>> /\ m.tid = tx'.tid
         /\ \/ /\ m.type = "request" /\ tx'.pc = "accept" /\ ~tx'.resume
               /\ m.tid = minted + 1 /\ minted' = minted + 1 /\ m.sha = tx'.ver
            \/ /\ m.type = "query" /\ tx'.pc = "status" /\ tx'.resume
               /\ m.tid \in 1..minted /\ minted' = minted
    /\ UNCHANGED disk

(* Starting, retrying and redialling are of that kind.                     *)
LEMMA Dials ==
    ASSUME TypeOK, UserStep \/ \E vs, v \in Versions : Redial(vs, v)
    PROVE  Dialled
  <1> USE DEF TypeOK
  <1>1. MaxAttempts \in Nat /\ minted \in Nat
    BY ConstantsAssumption, SMTT(30) DEF EnvTypeOK
  <1>2. \A p : LET r == [RxIdle EXCEPT !.pc = "main", !.peer = p]
               IN r.pc = "main" /\ r.tid = 0 /\ r.mem = RxIdle.mem
    BY DEF RxIdle
  <1>3. ASSUME NEW p \in Peers, NEW vs \in Versions, NEW v \in Versions,
               FreshSend(p, vs, v), tx.pc \in {"idle", "redial"}
        PROVE  Dialled
    <2> DEFINE m == [type |-> "request", tid |-> minted + 1, sha |-> v]
    <2>1. minted + 1 \in Tids
      BY <1>1, <1>3, SMTT(30) DEF FreshSend, Tids
    <2>2. m \in SMsg /\ m.type = "request" /\ m.tid = minted + 1 /\ m.sha = v
      BY <2>1, SMsgSent
    <2>3. /\ tx'.pc = "accept" /\ tx'.tid = minted + 1 /\ tx'.ver = v
          /\ ~tx'.resume /\ tx'.off = 0 /\ tx'.inflight = 0 /\ tx'.acked = 0
          /\ tx'.skip = 0
      BY <1>3 DEF FreshSend, TxIdle
    <2>4. minted' = minted + 1 /\ Dial(p, m)
      BY <1>3 DEF FreshSend
    <2> HIDE DEF m
    <2> QED
      BY <1>2, <1>3, <2>2, <2>3, <2>4 DEF Dialled, Dial
  <1>4. ASSUME NEW p \in Peers, NEW t \in Tids, NEW v \in Versions,
               StartResume(p, t, v)
        PROVE  Dialled
    <2> DEFINE m == [type |-> "query", tid |-> t]
    <2>2. m \in SMsg /\ m.type = "query" /\ m.tid = t
      BY SMsgSent
    <2>3. /\ tx'.pc = "status" /\ tx'.tid = t /\ tx'.ver = v
          /\ tx'.resume /\ tx'.off = 0 /\ tx'.inflight = 0 /\ tx'.acked = 0
          /\ tx'.skip = 0
      BY <1>4 DEF StartResume, TxIdle
    <2>4. minted' = minted /\ t \in 1..minted /\ Dial(p, m) /\ tx.pc = "idle"
      BY <1>4 DEF StartResume, StartAttempt
    <2> HIDE DEF m
    <2> QED
      BY <1>2, <1>4, <2>2, <2>3, <2>4 DEF Dialled, Dial
  <1>5. tx \in Tx
    BY DEF TxTypeOK
  <1> QED
    BY <1>3, <1>4, <1>5 DEF UserStep, Redial, StartSend, StartAttempt, Tx

(* A channel with one frame.                                               *)
LEMMA SingletonChannel ==
    ASSUME NEW S, NEW m \in S
    PROVE  /\ <<m>> \in Seq(S) /\ Frames(<<m>>) = {m} /\ Single(<<m>>)
  <1>1. <<m>> \in Seq(S) /\ Len(<<m>>) = 1 /\ <<m>>[1] = m /\ DOMAIN <<m>> = {1}
    BY SMTT(30)
  <1> QED
    BY <1>1, SMTT(30) DEF Frames, Single

(* The session invariant holds of the idle daemons.                        *)
LEMMA SessionInit == Init => Session
  BY EmptyChannel, IdleType
  DEF Init, Session, Ends, Opening, PhaseAccept, PhaseStatus, PhaseMeta,
      PhaseStream, PhaseAck, Active

(* The steps by which one side or both leave or enter a session.           *)
LEMMA SessionBounds ==
    ASSUME TypeOK, Session, TxGone \/ RxGone \/ Dialled \/ ConnectionLost
    PROVE  Session'
  <1> USE DEF TypeOK, NetTypeOK
  <1>0. Frames(<<>>) = {} /\ Single(<<>>)
    BY EmptyChannel
  <1>1. CASE TxGone
    <2>1. tx'.pc \in {"idle", "redial"} /\ rx' = rx
      BY <1>1, IdleType DEF TxGone, TxTypeOK, Tx
    <2>2. Opening'
      BY <1>1, <2>1 DEF TxGone, Session, Opening
    <2>3. Ends'
      BY <1>1, <2>1 DEF TxGone, Session, Ends, Active
    <2> QED
      BY <2>1, <2>2, <2>3
      DEF Session, PhaseAccept, PhaseStatus, PhaseMeta, PhaseStream, PhaseAck
  <1>2. CASE RxGone
    <2>1. rx'.pc = "idle" /\ tx' = tx /\ s2r' = <<>> /\ conn' = "down"
      BY <1>2, IdleType DEF RxGone
    <2>2. Opening' /\ PhaseMeta' /\ PhaseStream' /\ PhaseAck'
      BY <1>0, <2>1 DEF Opening, PhaseMeta, PhaseStream, PhaseAck, Only
    <2>3. ASSUME tx.pc \in {"accept", "status"}
          PROVE  r2s' \in Prefixes(r2s)
      BY <1>2, <2>3
      DEF RxGone, LastWord, Session, PhaseAccept, PhaseStatus, Only
    <2>4. ASSUME tx.pc \in {"accept", "status"}
          PROVE  Frames(r2s') \subseteq Frames(r2s) /\ Single(r2s')
      BY <2>3, <2>4, PrefixRange DEF Session, PhaseAccept, PhaseStatus
    <2>5. PhaseAccept' /\ PhaseStatus'
      BY <1>0, <2>1, <2>4 DEF Session, PhaseAccept, PhaseStatus, Only
    <2>6. ~Active => r2s' = <<>>
      <3>1. ~Active => conn # "up" /\ r2s = <<>>
        BY DEF Session, Ends
      <3> QED
        BY <1>2, <3>1, PrefixRange DEF RxGone, LastWord
    <2>7. Ends'
      BY <2>1, <2>6 DEF Ends, Active
    <2> QED
      BY <2>2, <2>5, <2>7 DEF Session
  <1>3. CASE Dialled
    <2>1. PICK m \in SMsg :
            /\ s2r' = <<m>>
            /\ \/ m.type = "request" /\ tx'.pc = "accept"
               \/ m.type = "query" /\ tx'.pc = "status"
      BY <1>3 DEF Dialled
    <2>2. Frames(s2r') = {m} /\ Single(s2r')
      BY <2>1, SingletonChannel
    <2>3. rx'.pc = "main" /\ r2s' = <<>> /\ conn' = "up"
      BY <1>3 DEF Dialled
    <2> QED
      BY <1>0, <2>1, <2>2, <2>3
      DEF Session, Ends, Active, Opening, PhaseAccept, PhaseStatus, PhaseMeta,
          PhaseStream, PhaseAck, Only
  <1>4. CASE ConnectionLost
    <2>1. tx' = tx /\ rx' = rx /\ conn' = "down"
      BY <1>4 DEF ConnectionLost
    <2>2. /\ Frames(s2r') \subseteq Frames(s2r) /\ (Single(s2r) => Single(s2r'))
          /\ (s2r = <<>> => s2r' = <<>>)
      BY <1>4, PrefixRange DEF ConnectionLost
    <2>3. /\ Frames(r2s') \subseteq Frames(r2s) /\ (Single(r2s) => Single(r2s'))
          /\ (r2s = <<>> => r2s' = <<>>)
      BY <1>4, PrefixRange DEF ConnectionLost
    <2>4. Ends' /\ Opening'
      BY <2>1, <2>2, <2>3 DEF Session, Ends, Active, Opening
    <2>5. PhaseAccept' /\ PhaseStatus' /\ PhaseMeta'
      BY <2>1, <2>2, <2>3 DEF Session, PhaseAccept, PhaseStatus, PhaseMeta, Only
    <2>6. PhaseStream' /\ PhaseAck'
      BY <2>1, <2>2 DEF Session, PhaseStream, PhaseAck, Only, Receiving
    <2> QED
      BY <2>4, <2>5, <2>6 DEF Session
  <1> QED
    BY <1>1, <1>2, <1>3, <1>4

(* The steps of a session under way, on the sender's side.                 *)
TxGoesOn ==
    \/ TxAccepted \/ TxResumable \/ TxMetaAccepted \/ TxSkipChunk
    \/ TxSendChunk \/ TxChunkAck \/ TxComplete
    \/ (TxTransferAck /\ tx'.pc = "closing")

(* A step of the sender inside the session keeps the invariant: it takes   *)
(* the frame it waits for, and sends what opens the next phase.            *)
LEMMA SessionTx ==
    ASSUME TypeOK, Session, TxGoesOn
    PROVE  Session'
  <1> USE DEF TypeOK, NetTypeOK
  <1>0. Frames(<<>>) = {} /\ Single(<<>>)
    BY EmptyChannel
  <1>1. r2s # <<>> => /\ Head(r2s) \in Frames(r2s)
                      /\ Frames(Tail(r2s)) \subseteq Frames(r2s)
                      /\ Single(r2s) => Tail(r2s) = <<>>
    BY HeadInRange
  <1>2. \A m \in SMsg : /\ Frames(Deliver(s2r, m)) \subseteq Frames(s2r) \cup {m}
                        /\ conn # "up" => Deliver(s2r, m) = s2r
                        /\ s2r = <<>> => Single(Deliver(s2r, m))
    BY DeliverRange
  <1>3. Metadata \in SMsg /\ Metadata.type = "meta"
    BY SMsgSent DEF Metadata, TxTypeOK, Tx
  <1>4. CASE TxAccepted \/ TxResumable
    <2>1. /\ tx.pc \in {"accept", "status"} /\ tx'.pc = "meta_ack" /\ rx' = rx
          /\ conn' = conn /\ s2r' = Deliver(s2r, Metadata) /\ r2s' = Tail(r2s)
          /\ r2s # <<>>
      BY <1>4
      DEF TxAccepted, TxResumable, TxTypeOK, Tx, SendToReceiver, TxReceives
    <2>2. rx.pc \in {"idle", "transfer"} /\ s2r = <<>> /\ r2s' = <<>>
      BY <1>1, <1>4, <2>1
      DEF TxAccepted, TxResumable, TxReceives, Session, PhaseAccept, PhaseStatus
    <2>3. /\ Frames(s2r') \subseteq {Metadata} /\ Single(s2r')
          /\ (conn # "up" => s2r' = <<>>)
      BY <1>0, <1>2, <1>3, <2>1, <2>2
    <2>4. Ends' /\ Opening'
      BY <1>0, <1>3, <2>1, <2>2, <2>3 DEF Session, Ends, Active, Opening
    <2> QED
      BY <1>3, <2>1, <2>2, <2>3, <2>4
      DEF Session, PhaseAccept, PhaseStatus, PhaseMeta, PhaseStream, PhaseAck,
          Only
  <1>5. CASE TxMetaAccepted
    <2>1. /\ tx.pc = "meta_ack" /\ tx'.pc = "stream" /\ rx' = rx /\ r2s # <<>>
          /\ conn' = conn /\ s2r' = s2r /\ r2s' = Tail(r2s)
      BY <1>5 DEF TxMetaAccepted, TxTypeOK, Tx, TxReceives
    <2>2. s2r = <<>> /\ rx.pc \in {"idle", "transfer", "file"}
      BY <2>1 DEF Session, PhaseMeta
    <2> QED
      BY <1>0, <2>1, <2>2
      DEF Session, Ends, Active, Opening, PhaseAccept, PhaseStatus, PhaseMeta,
          PhaseStream, PhaseAck, Only, Receiving
  <1>6. CASE TxSkipChunk \/ TxChunkAck
    <2>1. /\ tx.pc = "stream" /\ tx'.pc = "stream" /\ rx' = rx /\ s2r' = s2r
          /\ conn' = conn
      BY <1>6 DEF TxSkipChunk, TxChunkAck, Draining, TxTypeOK, Tx, net
    <2> QED
      BY <2>1
      DEF Session, Ends, Active, Opening, PhaseAccept, PhaseStatus, PhaseMeta,
          PhaseStream, PhaseAck, Receiving
  <1>7. CASE TxSendChunk
    <2>1. tx.pc = "stream" /\ tx'.pc = "stream" /\ rx' = rx /\ conn' = conn
      BY <1>7 DEF TxSendChunk, TxTypeOK, Tx
    <2>2. PICK m \in SMsg : s2r' = Deliver(s2r, m) /\ m.type = "chunk"
      <3>1. PICK ok \in BOOLEAN :
              SendToReceiver([type |-> "chunk", ver |-> tx.ver, off |-> tx.off,
                              len |-> ChunkEnd - tx.off,
                              last |-> ChunkEnd = Total, ok |-> ok])
        BY <1>7 DEF TxSendChunk
      <3>2. tx.off < Total
        BY <1>7 DEF TxSendChunk
      <3>3. [type |-> "chunk", ver |-> tx.ver, off |-> tx.off,
             len |-> ChunkEnd - tx.off, last |-> ChunkEnd = Total, ok |-> ok]
               \in SMsg
        <4>1. tx.off \in Nat /\ Total \in Nat /\ tx.ver \in Versions
          BY ConstantsAssumption DEF Total, TxTypeOK, Tx
        <4>2. ChunkEnd - tx.off \in Nat
          BY <3>2, <4>1, ConstantsAssumption, SMTT(30) DEF ChunkEnd
        <4>3. (ChunkEnd = Total) \in BOOLEAN
          OBVIOUS
        <4> QED
          BY <4>1, <4>2, <4>3, SMsgSent
      <3> QED
        BY <3>1, <3>3 DEF SendToReceiver
    <2>3. Only(s2r', {"chunk"})
      BY <1>2, <2>1, <2>2 DEF Session, PhaseStream, Only
    <2>4. rx.pc = "idle" => s2r' = <<>>
      BY <1>2, <2>2 DEF Session, Ends
    <2>5. r2s' = r2s
      BY <1>7 DEF TxSendChunk
    <2> QED
      BY <2>1, <2>3, <2>4, <2>5
      DEF Session, Ends, Active, Opening, PhaseAccept, PhaseStatus, PhaseMeta,
          PhaseStream, PhaseAck, Receiving, Only
  <1>8. CASE TxComplete
    <2> DEFINE m == [type |-> "complete"]
    <2>0. m \in SMsg /\ m.type = "complete"
      BY SMsgSent
    <2>1. /\ tx.pc = "stream" /\ tx'.pc = "transfer_ack" /\ rx' = rx
          /\ conn' = conn /\ s2r' = Deliver(s2r, m) /\ r2s' = r2s
      BY <1>8 DEF TxComplete, TxTypeOK, Tx, SendToReceiver
    <2> HIDE DEF m
    <2>2. Only(s2r', {"chunk", "complete"})
      BY <1>2, <2>0, <2>1 DEF Session, PhaseStream, Only
    <2>3. rx.pc = "idle" => s2r' = <<>>
      BY <1>2, <2>0, <2>1 DEF Session, Ends
    <2> QED
      BY <2>1, <2>2, <2>3
      DEF Session, Ends, Active, Opening, PhaseAccept, PhaseStatus, PhaseMeta,
          PhaseStream, PhaseAck, Only, Receiving
  <1>9. CASE TxTransferAck /\ tx'.pc = "closing"
    <2> DEFINE m == [type |-> "close"]
    <2>0. m \in SMsg /\ m.type = "close"
      BY SMsgSent
    <2>1. /\ tx.pc = "transfer_ack" /\ tx'.pc = "closing" /\ rx' = rx
          /\ conn' = conn /\ s2r' = Deliver(s2r, m)
      BY <1>9, Closing DEF TxTypeOK, Tx, SendToReceiver
    <2> HIDE DEF m
    <2>2. Only(s2r', {"chunk", "complete", "close"})
      BY <1>2, <2>0, <2>1 DEF Session, PhaseAck, Only
    <2>3. rx.pc = "idle" => s2r' = <<>>
      BY <1>2, <2>0, <2>1 DEF Session, Ends
    <2> QED
      BY <2>1, <2>2, <2>3
      DEF Session, Ends, Active, Opening, PhaseAccept, PhaseStatus, PhaseMeta,
          PhaseStream, PhaseAck, Only
  <1> QED
    BY <1>4, <1>5, <1>6, <1>7, <1>8, <1>9 DEF TxGoesOn

(* A receiver's step inside a session writes nothing to a sender that is   *)
(* gone.                                                                   *)
RxSpeaks ==
    /\ conn' = conn /\ tx' = tx
    /\ conn # "up" => r2s' = r2s

(* The steps of a session under way, on the receiver's side.               *)
RxGoesOn ==
    \/ RxRequest \/ RxReject \/ RxAccept \/ RxResumeQuery
    \/ RxPathRejected \/ RxModified \/ RxJailed \/ RxMetadata
    \/ RxComplete \/ RxStopped \/ RxIgnore \/ RxWriteChunk
    \/ RxDuplicate \/ RxSave \/ RxChunkAck \/ RxPublish

(* A step of the receiver inside the session keeps the invariant: it       *)
(* answers the frame at hand.                                              *)
LEMMA SessionRx ==
    ASSUME TypeOK, Session, RxGoesOn
    PROVE  Session'
  <1> USE DEF TypeOK, NetTypeOK
  <1>0. Frames(<<>>) = {} /\ Single(<<>>)
    BY EmptyChannel
  <1>1. s2r # <<>> => /\ Head(s2r) \in Frames(s2r)
                      /\ Frames(Tail(s2r)) \subseteq Frames(s2r)
                      /\ Single(s2r) => Tail(s2r) = <<>> /\ Frames(s2r) = {Head(s2r)}
    BY HeadInRange
  <1>2. \A m \in RMsg : /\ Frames(Deliver(r2s, m)) \subseteq Frames(r2s) \cup {m}
                        /\ conn # "up" => Deliver(r2s, m) = r2s
                        /\ r2s = <<>> => Single(Deliver(r2s, m))
    BY DeliverRange
  <1>3. RxSpeaks
    BY DEF RxGoesOn, RxRequest, RxReject, RxAccept, RxResumeQuery, RxPathRejected,
        RxModified, RxJailed, RxMetadata, RxComplete, RxStopped, RxIgnore,
        RxWriteChunk, RxDuplicate, RxSave, RxChunkAck, RxPublish, RxSpeaks,
        SendToSender, Deliver, net
  <1>4. ASSUME rx'.pc # "idle", rx.pc # "idle" PROVE Ends'
    BY <1>3, <1>4 DEF Session, Ends, Active, RxSpeaks
  <1>5. CASE RxRequest
    <2>1. /\ rx.pc = "main" /\ rx'.pc = "consent" /\ s2r # <<>>
          /\ Head(s2r).type = "request" /\ s2r' = Tail(s2r) /\ r2s' = r2s
      BY <1>5 DEF RxRequest, RxTypeOK, Rx, RxReceives
    <2>2. s2r' = <<>> /\ \A m \in Frames(s2r) : m.type = "request"
      BY <1>1, <2>1 DEF Session, Opening
    <2>3. tx.pc \notin {"status", "meta_ack", "stream", "transfer_ack"}
      BY <1>1, <2>1
      DEF Session, PhaseStatus, PhaseMeta, PhaseStream, PhaseAck, Only
    <2> QED
      BY <1>0, <1>3, <1>4, <2>1, <2>2, <2>3
      DEF Session, Opening, PhaseAccept, PhaseStatus, PhaseMeta, PhaseStream,
          PhaseAck, Only, RxSpeaks
  <1>6. CASE RxReject \/ RxAccept
    <2>1. /\ rx.pc = "consent" /\ s2r' = s2r
          /\ rx'.pc \in {"main", "transfer"}
      BY <1>6 DEF RxReject, RxAccept, EnterTransfer, RxTypeOK, Rx
    <2>2. PICK m \in RMsg :
             /\ r2s' = Deliver(r2s, m)
             /\ \/ m.type = "reject"
                \/ m.type = "accept" /\ rx'.pc = "transfer"
      BY <1>6, RMsgSent
      DEF RxReject, RxAccept, EnterTransfer, RxTypeOK, Rx, SendToSender
    <2>3. \A q \in Frames(s2r) : q.type \notin {"request", "query", "meta"}
      BY <2>1 DEF Session, Opening
    <2>4. tx.pc \notin {"status", "meta_ack", "stream", "transfer_ack"}
      BY <2>1
      DEF Session, PhaseStatus, PhaseMeta, PhaseStream, PhaseAck, Receiving
    <2>5. tx.pc = "accept" => /\ s2r = <<>> /\ Single(r2s')
                              /\ Frames(r2s') \subseteq {m}
      BY <1>0, <1>2, <2>1, <2>2 DEF Session, PhaseAccept
    <2> QED
      BY <1>0, <1>3, <1>4, <2>1, <2>2, <2>3, <2>4, <2>5
      DEF Session, Opening, PhaseAccept, PhaseStatus, PhaseMeta, PhaseStream,
          PhaseAck, Only, RxSpeaks
  <1>7. CASE RxResumeQuery
    <2>1. /\ rx.pc = "main" /\ s2r # <<>> /\ Head(s2r).type = "query"
          /\ s2r' = Tail(s2r) /\ rx'.pc \in {"main", "transfer"}
      BY <1>7 DEF RxResumeQuery, EnterTransfer, RxTypeOK, Rx, RxReceives
    <2>2. s2r' = <<>>
      BY <1>1, <2>1 DEF Session, Opening
    <2>3. tx.pc \notin {"accept", "meta_ack", "stream", "transfer_ack"}
      BY <1>1, <2>1
      DEF Session, PhaseAccept, PhaseMeta, PhaseStream, PhaseAck, Only
    <2>4. PICK m \in RMsg :
             /\ r2s' = Deliver(r2s, m) /\ m.type = "status"
             /\ m.resumable => rx'.pc = "transfer"
      <3>1. CASE Resumable(Head(s2r).tid)
        <4>1. (IF journal[Head(s2r).tid].has
               THEN journal[Head(s2r).tid].received ELSE 0) \in Nat
          BY <3>1 DEF Resumable, DiskTypeOK, Journal
        <4>2. rx'.pc = "transfer"
          BY <1>7, <3>1 DEF RxResumeQuery, EnterTransfer, RxTypeOK, Rx
        <4> QED
          BY <1>7, <3>1, <4>1, <4>2, RMsgSent DEF RxResumeQuery, SendToSender
      <3>2. CASE ~Resumable(Head(s2r).tid)
        <4>1. [type |-> "status", resumable |-> FALSE, received |-> 0] \in RMsg
          BY RMsgSent
        <4> QED
          BY <1>7, <3>2, <4>1 DEF RxResumeQuery, SendToSender
      <3> QED
        BY <3>1, <3>2
    <2>5. tx.pc = "status" => Single(r2s') /\ Frames(r2s') \subseteq {m}
      BY <1>0, <1>2, <2>1, <2>4 DEF Session, PhaseStatus
    <2> QED
      BY <1>0, <1>3, <1>4, <2>1, <2>2, <2>3, <2>4, <2>5
      DEF Session, Opening, PhaseAccept, PhaseStatus, PhaseMeta, PhaseStream,
          PhaseAck, Only, RxSpeaks
  <1>8. CASE RxPathRejected \/ RxModified \/ RxJailed \/ RxMetadata
    <2>1. /\ rx.pc = "transfer" /\ s2r # <<>> /\ Head(s2r).type = "meta"
          /\ s2r' = Tail(s2r) /\ rx'.pc \in {"transfer", "file"}
      BY <1>8
      DEF RxPathRejected, RxModified, RxJailed, RxMetadata, RxTypeOK, Rx,
          RxReceives
    <2>2. s2r' = <<>>
      BY <1>1, <2>1 DEF Session, Opening
    <2>3. tx.pc \notin {"accept", "status", "stream", "transfer_ack"}
      BY <1>1, <2>1
      DEF Session, PhaseAccept, PhaseStatus, PhaseStream, PhaseAck, Only
    <2> QED
      BY <1>0, <1>3, <1>4, <2>1, <2>2, <2>3
      DEF Session, Opening, PhaseAccept, PhaseStatus, PhaseMeta, PhaseStream,
          PhaseAck, Only, RxSpeaks
  <1>9. CASE RxComplete \/ RxStopped
    <2>1. /\ rx.pc = "transfer" /\ s2r # <<>>
          /\ Head(s2r).type \in {"complete", "cancel", "close"}
          /\ s2r' = Tail(s2r)
      BY <1>9 DEF RxComplete, RxStopped, RxReceives
    <2>2. rx'.pc = "main" /\ rx'.tid = 0
      BY <1>9 DEF RxComplete, RxStopped, RxIdle
    <2>3. tx.pc \notin {"accept", "status", "meta_ack", "stream"}
      BY <1>1, <2>1
      DEF Session, PhaseAccept, PhaseStatus, PhaseMeta, PhaseStream, Only
    <2>4. Opening'
      BY <1>1, <2>1 DEF Session, Opening
    <2> QED
      BY <1>1, <1>3, <1>4, <2>1, <2>2, <2>3, <2>4
      DEF Session, PhaseAccept, PhaseStatus, PhaseMeta, PhaseStream,
          PhaseAck, Only, RxSpeaks
  <1>10. CASE RxIgnore
    <2>1. /\ rx' = rx /\ rx.pc # "idle" /\ s2r # <<>> /\ s2r' = Tail(s2r)
          /\ r2s' = r2s
      BY <1>10 DEF RxIgnore
    <2>2. Opening'
      BY <1>0, <1>1, <2>1 DEF Session, Opening
    <2>3. PhaseAccept' /\ PhaseStatus'
      BY <1>0, <1>1, <1>3, <2>1
      DEF Session, PhaseAccept, PhaseStatus, Only, RxSpeaks
    <2>4. PhaseMeta' /\ PhaseStream' /\ PhaseAck'
      BY <1>0, <1>1, <1>3, <2>1
      DEF Session, PhaseMeta, PhaseStream, PhaseAck, Only, RxSpeaks, Receiving
    <2> QED
      BY <1>4, <2>1, <2>2, <2>3, <2>4 DEF Session
  <1>11. CASE RxWriteChunk \/ RxDuplicate \/ RxSave \/ RxChunkAck \/ RxPublish
    <2>1. Receiving
      BY <1>11
      DEF RxWriteChunk, RxDuplicate, RxSave, RxChunkAck, RxPublish, NextChunk,
          Receiving
    <2>2. rx'.pc = "transfer" \/ Receiving'
      BY <1>11
      DEF RxWriteChunk, RxDuplicate, RxSave, RxChunkAck, RxPublish, Receiving,
          RxTypeOK, Rx
    <2>3. s2r' = s2r \/ (s2r # <<>> /\ s2r' = Tail(s2r))
      BY <1>11
      DEF RxWriteChunk, RxDuplicate, RxSave, RxChunkAck, RxPublish, NextChunk,
          RxReceives, net
    <2>4. Frames(s2r') \subseteq Frames(s2r)
      BY <1>1, <2>3
    <2>5. tx.pc \notin {"accept", "status", "meta_ack"}
      <3>1. tx.pc \notin {"accept", "status"}
        BY <2>1 DEF Session, PhaseAccept, PhaseStatus, Receiving
      <3>2. tx.pc = "meta_ack" => NextChunk
        BY <1>11
        DEF Session, PhaseMeta, RxWriteChunk, RxDuplicate, RxSave, RxChunkAck,
            RxPublish
      <3>3. tx.pc = "meta_ack" => ~NextChunk
        BY <1>1 DEF Session, PhaseMeta, NextChunk, RxReceives, Only
      <3> QED
        BY <3>1, <3>2, <3>3
    <2>6. \A m \in Frames(s2r) : m.type \notin {"request", "query", "meta"}
      BY <2>1 DEF Session, Opening, Receiving
    <2>7. Ends'
      BY <1>4, <2>1, <2>2 DEF Receiving
    <2> QED
      BY <1>3, <2>1, <2>2, <2>4, <2>5, <2>6, <2>7
      DEF Session, Opening, PhaseAccept, PhaseStatus, PhaseMeta, PhaseStream,
          PhaseAck, Only, RxSpeaks, Receiving
  <1> QED
    BY <1>5, <1>6, <1>7, <1>8, <1>9, <1>10, <1>11 DEF RxGoesOn

(* Nothing of the session changes.                                         *)
Quiet == UNCHANGED <<tx, rx, net, part, journal, published, minted>>

(* Every step is of one of these kinds.                                    *)
StepKind ==
    \/ TxGone \/ RxGone \/ Dialled \/ ConnectionLost
    \/ TxGoesOn \/ RxGoesOn \/ Quiet

LEMMA StepKinds ==
    ASSUME TypeOK, Session, [Next]_vars
    PROVE  StepKind
  <1>1. CASE TxLeaves
    BY <1>1, TxLeft DEF StepKind
  <1>2. CASE RxLeaves
    BY <1>2, RxLeft DEF StepKind
  <1>3. CASE UserStep \/ \E vs, v \in Versions : Redial(vs, v)
    BY <1>3, Dials DEF StepKind
  <1>4. CASE (\E t \in Tids : Expire(t)) \/ UNCHANGED vars
    BY <1>4 DEF StepKind, Quiet, Expire, vars, env, disk
  <1>5. CASE TxTransferAck
    <2>1. tx'.pc \in {"idle", "closing"}
      BY <1>5, IdleType DEF TxTransferAck, TypeOK, TxTypeOK, Tx
    <2> QED
      BY <1>1, <1>5, <2>1 DEF TxLeaves, TxGoesOn, StepKind
  <1>6. CASE TxGoesOn \/ RxGoesOn \/ ConnectionLost
    BY <1>6 DEF StepKind
  <1> QED
    BY <1>1, <1>2, <1>3, <1>4, <1>5, <1>6
    DEF Next, TxStep, RxStep, EnvStep, TxLeaves, RxLeaves, TxGoesOn, RxGoesOn

(* The session invariant is inductive.                                     *)
LEMMA SessionNext ==
    ASSUME TypeOK, Session, StepKind
    PROVE  Session'
  <1>1. CASE Quiet
    BY <1>1
    DEF Quiet, net, Session, Ends, Active, Opening, PhaseAccept, PhaseStatus,
        PhaseMeta, PhaseStream, PhaseAck, Only, Receiving
  <1> QED
    BY <1>1, SessionBounds, SessionTx, SessionRx DEF StepKind

(* The sender's counters.                                                  *)
Counters ==
    /\ tx.pc \in {"accept", "status", "meta_ack"}
         => tx.off = 0 /\ tx.inflight = 0 /\ tx.acked = 0
    /\ tx.pc = "accept" => ~tx.resume
    /\ tx.pc = "status" => tx.resume
    /\ tx.inflight <= MaxInFlight
    /\ tx.pc = "transfer_ack" => tx.inflight = 0

(* The counters start at zero.                                             *)
LEMMA CountersInit == Init => Counters
  BY ConstantsAssumption, SMTT(30) DEF Init, Counters, TxIdle

(* The counters stay within the window.                                    *)
LEMMA CountersNext ==
    ASSUME TypeOK, Counters, StepKind
    PROVE  Counters'
  <1> USE DEF TypeOK
  <1>1. CASE RxGone \/ ConnectionLost \/ RxGoesOn \/ Quiet
    <2>1. tx' = tx
      BY <1>1
      DEF RxGone, ConnectionLost, RxGoesOn, Quiet, RxRequest, RxReject,
          RxAccept, RxResumeQuery, RxPathRejected, RxModified, RxJailed,
          RxMetadata, RxComplete, RxStopped, RxIgnore, RxWriteChunk,
          RxDuplicate, RxSave, RxChunkAck, RxPublish
    <2> QED
      BY <2>1 DEF Counters
  <1>2. CASE TxGone
    BY <1>2, ConstantsAssumption, SMTT(30) DEF TxGone, Counters, TxIdle, TxTypeOK, Tx
  <1>3. CASE Dialled
    BY <1>3, ConstantsAssumption, SMTT(30) DEF Dialled, Counters
  <1>4. CASE TxGoesOn
    <2>1. CASE TxAccepted
      BY <2>1 DEF TxAccepted, Counters, TxTypeOK, Tx
    <2>2. CASE TxResumable
      BY <2>2 DEF TxResumable, Counters, TxTypeOK, Tx
    <2>3. CASE TxMetaAccepted
      BY <2>3 DEF TxMetaAccepted, Counters, TxTypeOK, Tx
    <2>4. CASE TxSkipChunk
      BY <2>4 DEF TxSkipChunk, Counters, TxTypeOK, Tx
    <2>5. CASE TxSendChunk
      <3>1. tx'.pc = "stream" /\ tx'.inflight = tx.inflight + 1
              /\ tx.inflight < MaxInFlight
        BY <2>5, ConstantsAssumption, SMTT(30) DEF TxSendChunk, WindowFull, TxTypeOK, Tx
      <3>2. tx.inflight \in Nat /\ MaxInFlight \in Nat
        BY ConstantsAssumption DEF TxTypeOK, Tx
      <3> QED
        BY <3>1, <3>2, SMTT(30) DEF Counters
    <2>6. CASE TxChunkAck
      <3>1. tx'.pc = "stream" /\ tx'.inflight \in {tx.inflight, tx.inflight - 1}
        BY <2>6 DEF TxChunkAck, Draining, TxTypeOK, Tx
      <3>2. tx.inflight \in Nat /\ MaxInFlight \in Nat
        BY ConstantsAssumption DEF TxTypeOK, Tx
      <3> QED
        BY <3>1, <3>2, SMTT(30) DEF Counters
    <2>7. CASE TxComplete
      BY <2>7 DEF TxComplete, Counters, TxTypeOK, Tx
    <2>8. CASE TxTransferAck /\ tx'.pc = "closing"
      BY <2>8, IdleType DEF TxTransferAck, Counters, TxTypeOK, Tx
    <2> QED
      BY <1>4, <2>1, <2>2, <2>3, <2>4, <2>5, <2>6, <2>7, <2>8 DEF TxGoesOn
  <1> QED
    BY <1>1, <1>2, <1>3, <1>4 DEF StepKind

(* The session invariant holds throughout.                                 *)
LEMMA SessionHolds == Spec => []Session
  <1>1. TypeOK /\ Session /\ [Next]_vars => Session'
    BY SessionNext, StepKinds
  <1> QED
    BY <1>1, SessionInit, TypeCorrect, PTL DEF Spec

(* Both ends of a session are about the same transfer.                     *)
SameTransfer ==
    Active =>
      /\ rx.pc \notin {"idle", "main"} => rx.tid = tx.tid
      /\ Receiving => rx.sha = tx.ver
      /\ \A m \in Frames(s2r) :
           /\ m.type \in {"request", "query"} => m.tid = tx.tid
           /\ m.type = "meta" => m.sha = tx.ver

(* Writing a frame of any kind adds at most that frame.                    *)
LEMMA AnyDeliver ==
    ASSUME NEW S, NEW s \in Seq(S), NEW m
    PROVE  Frames(Deliver(s, m)) \subseteq Frames(s) \cup {m}
  <1>1. s \in Seq(S \cup {m}) /\ m \in S \cup {m}
    BY MoreFrames
  <1> QED
    BY <1>1, AppendRange, SMTT(30) DEF Deliver

(* What a step of the sender adds to its channel.                          *)
LEMMA TxFrames ==
    ASSUME s2r \in Seq(SMsg), tx \in Tx, TxGoesOn
    PROVE  \A q \in Frames(s2r') :
             \/ q \in Frames(s2r) \/ q = Metadata
             \/ q.type \in {"chunk", "complete", "close"}
  <1> SUFFICES ASSUME NEW q \in Frames(s2r')
               PROVE  \/ q \in Frames(s2r) \/ q = Metadata
                      \/ q.type \in {"chunk", "complete", "close"}
    OBVIOUS
  <1>1. CASE s2r' = s2r
    BY <1>1
  <1>2. ASSUME NEW m \in SMsg, s2r' = Deliver(s2r, m)
        PROVE  q \in Frames(s2r) \/ q = m
    BY <1>2, DeliverRange, SMTT(30)
  <1>3. Metadata \in SMsg
    BY SMsgSent DEF Metadata, Tx
  <1>4. CASE TxSendChunk
    <2>1. PICK m : s2r' = Deliver(s2r, m) /\ m.type = "chunk"
      BY <1>4, SMTT(30) DEF TxSendChunk, SendToReceiver
    <2>2. Frames(s2r') \subseteq Frames(s2r) \cup {m}
      BY <2>1, AnyDeliver
    <2> QED
      BY <2>1, <2>2
  <1>5. CASE TxComplete \/ (TxTransferAck /\ tx'.pc = "closing")
    <2>1. /\ [type |-> "complete"] \in SMsg /\ [type |-> "close"] \in SMsg
      BY SMsgSent
    <2>2. \/ s2r' = Deliver(s2r, [type |-> "complete"])
          \/ s2r' = Deliver(s2r, [type |-> "close"])
      BY <1>5, IdleType DEF TxComplete, TxTransferAck, SendToReceiver
    <2> QED
      BY <1>2, <2>1, <2>2, SMTT(30)
  <1> QED
    BY <1>1, <1>2, <1>3, <1>4, <1>5
    DEF TxGoesOn, TxAccepted, TxResumable, TxMetaAccepted, TxSkipChunk,
        TxChunkAck, SendToReceiver, net

(* There is no session at first.                                           *)
LEMMA SameInit == Init => SameTransfer
  BY IdleType DEF Init, SameTransfer, Active

(* The receiver learns the transfer from the first frame and the content   *)
(* from FILE_METADATA; neither changes within a session.                   *)
LEMMA SameNext ==
    ASSUME TypeOK, Session, SameTransfer, StepKind
    PROVE  SameTransfer'
  <1>0. /\ s2r \in Seq(SMsg) /\ r2s \in Seq(RMsg) /\ tx \in Tx /\ rx \in Rx
    BY DEF TypeOK, NetTypeOK, TxTypeOK, RxTypeOK
  <1>e. Frames(<<>>) = {}
    BY EmptyChannel
  <1>1. CASE TxGone
    BY <1>0, <1>1, IdleType DEF TxGone, SameTransfer, Active, Tx
  <1>2. CASE RxGone
    BY <1>e, <1>2, IdleType DEF RxGone, SameTransfer, Receiving
  <1>3. CASE Dialled
    <2>1. PICK m \in SMsg : s2r' = <<m>> /\ m.tid = tx'.tid /\ m.type # "meta"
      BY <1>3 DEF Dialled
    <2>2. Frames(s2r') = {m}
      BY <2>1, SingletonChannel
    <2> QED
      BY <1>3, <2>1, <2>2 DEF Dialled, SameTransfer, Receiving
  <1>4. CASE ConnectionLost
    <2>1. Frames(s2r') \subseteq Frames(s2r)
      BY <1>0, <1>4, PrefixRange DEF ConnectionLost
    <2> QED
      BY <1>4, <2>1 DEF ConnectionLost, SameTransfer, Active, Receiving
  <1>5. CASE Quiet
    BY <1>5 DEF Quiet, net, SameTransfer, Active, Receiving
  <1>6. CASE TxGoesOn
    <2>1. Active /\ rx' = rx /\ tx'.tid = tx.tid /\ tx'.ver = tx.ver
      BY <1>0, <1>6, IdleType
      DEF TxGoesOn, TxAccepted, TxResumable, TxMetaAccepted, TxSkipChunk,
          TxSendChunk, TxChunkAck, TxComplete, TxTransferAck, Draining, Active,
          Tx
    <2>2. \A q \in Frames(s2r') :
             \/ q \in Frames(s2r) \/ q = Metadata
             \/ q.type \in {"chunk", "complete", "close"}
      BY <1>0, <1>6, TxFrames
    <2>3. Metadata.type = "meta" /\ Metadata.sha = tx.ver
      BY DEF Metadata
    <2> QED
      BY <2>1, <2>2, <2>3 DEF SameTransfer, Receiving
  <1>7. CASE RxGoesOn
    <2>1. tx' = tx /\ Frames(s2r') \subseteq Frames(s2r)
      <3>1. tx' = tx /\ (s2r' = s2r \/ (s2r # <<>> /\ s2r' = Tail(s2r)))
        BY <1>7
        DEF RxGoesOn, RxRequest, RxReject,
            RxAccept, RxResumeQuery, RxPathRejected, RxModified, RxJailed,
            RxMetadata, RxComplete, RxStopped, RxIgnore, RxWriteChunk,
            RxDuplicate, RxSave, RxChunkAck, RxPublish, NextChunk, RxReceives,
            net
      <3> QED
        BY <1>0, <3>1, HeadInRange
    <2>2. s2r # <<>> => Head(s2r) \in Frames(s2r)
      BY <1>0, HeadInRange
    <2>g. ASSUME Active => /\ rx'.pc \notin {"idle", "main"} => rx'.tid = tx.tid
                           /\ Receiving' => rx'.sha = tx.ver
          PROVE  SameTransfer'
      BY <2>1, <2>g DEF SameTransfer, Active
    <2>3. CASE RxRequest
      <3>1. /\ rx'.pc = "consent" /\ rx'.tid = Head(s2r).tid
            /\ Head(s2r).type = "request" /\ s2r # <<>>
        BY <1>0, <2>3 DEF RxRequest, RxReceives, Rx
      <3> QED
        BY <2>2, <2>g, <3>1 DEF SameTransfer, Receiving
    <2>4. CASE RxReject \/ RxComplete \/ RxStopped
      <3>1. rx'.pc = "main"
        BY <1>0, <2>4 DEF RxReject, RxComplete, RxStopped, RxIdle, Rx
      <3> QED
        BY <2>g, <3>1 DEF Receiving
    <2>5. CASE RxAccept
      BY <1>0, <2>5, <2>g
      DEF RxAccept, EnterTransfer, SameTransfer, Receiving, Rx
    <2>6. CASE RxResumeQuery
      <3>1. /\ Head(s2r).type = "query" /\ s2r # <<>> /\ rx.pc = "main"
            /\ rx' = rx \/ (rx'.pc = "transfer" /\ rx'.tid = Head(s2r).tid)
        BY <1>0, <2>6 DEF RxResumeQuery, RxReceives, EnterTransfer, Rx
      <3> QED
        BY <2>2, <2>g, <3>1 DEF SameTransfer, Receiving
    <2>7. CASE RxModified \/ RxPathRejected \/ RxJailed \/ RxIgnore
      <3>1. rx'.pc = rx.pc /\ rx'.tid = rx.tid /\ rx'.sha = rx.sha
        BY <1>0, <2>7 DEF RxModified, RxPathRejected, RxJailed, RxIgnore, Rx
      <3> QED
        BY <2>g, <3>1 DEF SameTransfer, Receiving
    <2>8. CASE RxMetadata
      <3>1. /\ rx.pc = "transfer" /\ rx'.tid = rx.tid
            /\ rx'.sha = Head(s2r).sha /\ s2r # <<>> /\ Head(s2r).type = "meta"
        BY <1>0, <2>8 DEF RxMetadata, RxReceives, Rx
      <3> QED
        BY <2>2, <2>g, <3>1 DEF SameTransfer
    <2>9. CASE RxWriteChunk \/ RxDuplicate \/ RxSave \/ RxChunkAck \/ RxPublish
      <3>1. Receiving /\ rx'.tid = rx.tid /\ rx'.sha = rx.sha
        BY <1>0, <2>9
        DEF RxWriteChunk, RxDuplicate, RxSave, RxChunkAck, RxPublish, NextChunk,
            Receiving, Rx
      <3> QED
        BY <2>g, <3>1 DEF SameTransfer, Receiving
    <2> QED
      BY <1>7, <2>3, <2>4, <2>5, <2>6, <2>7, <2>8, <2>9 DEF RxGoesOn
  <1> QED
    BY <1>1, <1>2, <1>3, <1>4, <1>5, <1>6, <1>7 DEF StepKind

(* Both ends are about the same transfer throughout.                       *)
LEMMA SameHolds == Spec => []SameTransfer
  <1>1. TypeOK /\ Session /\ SameTransfer /\ [Next]_vars => SameTransfer'
    BY StepKinds, SameNext
  <1> QED
    BY <1>1, TypeCorrect, SessionHolds, SameInit, PTL DEF Spec

(* Transfer ids are fresh.                     *)
Fresh ==
    /\ DOMAIN journal \subseteq 1..minted /\ rx.tid \in 0..minted
    /\ rx.pc = "consent" => rx.tid \notin DOMAIN journal
    /\ \A m \in Frames(s2r) :
         /\ m.type \in {"request", "query"} => m.tid \in 1..minted
         /\ m.type = "request" => m.tid \notin DOMAIN journal

(* No id is generated at first.                                            *)
LEMMA FreshInit == Init => Fresh /\ StateIsPeersOwn
  <1> SUFFICES ASSUME Init PROVE Fresh /\ StateIsPeersOwn
    OBVIOUS
  <1>1. Frames(s2r) = {} /\ DOMAIN journal = {}
    BY EmptyChannel DEF Init
  <1> QED
    BY <1>1, IdleValues, SMTT(30) DEF Init, Fresh, StateIsPeersOwn

(* Transfer ids are new when a request is sent, and a journal is written   *)
(* only for a transfer that was entered: a fresh transfer starts from      *)
(* fresh state, and a resumed one from a journal whose peer was compared.  *)
LEMMA FreshNext ==
    ASSUME TypeOK, TypeOK', Session, Fresh, StateIsPeersOwn, StepKind
    PROVE  Fresh' /\ StateIsPeersOwn'
  <1>0. /\ s2r \in Seq(SMsg) /\ r2s \in Seq(RMsg) /\ tx \in Tx /\ rx \in Rx
        /\ minted \in Nat
    BY ConstantsAssumption, SMTT(30) DEF TypeOK, NetTypeOK, TxTypeOK, RxTypeOK, EnvTypeOK
  <1>e. Frames(<<>>) = {} /\ RxIdle.tid = 0 /\ RxIdle.pc = "idle"
    BY EmptyChannel DEF RxIdle
  <1>1. CASE TxGone
    BY <1>1 DEF TxGone, Fresh, StateIsPeersOwn, disk
  <1>2. CASE RxGone
    BY <1>0, <1>e, <1>2, SMTT(30) DEF RxGone, Fresh, StateIsPeersOwn
  <1>3. CASE Dialled
    <2>1. PICK m \in SMsg :
            /\ s2r' = <<m>>
            /\ \/ m.type = "request" /\ m.tid = minted + 1 /\ minted' = minted + 1
               \/ m.type = "query" /\ m.tid \in 1..minted /\ minted' = minted
      BY <1>3 DEF Dialled
    <2>2. Frames(s2r') = {m}
      BY <2>1, SingletonChannel
    <2>3. rx'.pc = "main" /\ rx'.tid = 0 /\ journal' = journal
      BY <1>3 DEF Dialled, disk
    <2>4. DOMAIN journal \subseteq 1..minted
      BY DEF Fresh
    <2>5. DOMAIN journal \subseteq 1..minted' /\ 0 \in 0..minted'
            /\ m.tid \in 1..minted'
      BY <1>0, <2>1, <2>4, SMTT(30)
    <2>6. m.type = "request" => m.tid \notin DOMAIN journal
      BY <1>0, <2>1, <2>4, SMTT(30)
    <2> QED
      BY <2>2, <2>3, <2>5, <2>6 DEF Fresh, StateIsPeersOwn
  <1>4. CASE ConnectionLost
    <2>1. Frames(s2r') \subseteq Frames(s2r)
      BY <1>0, <1>4, PrefixRange DEF ConnectionLost
    <2> QED
      BY <1>4, <2>1 DEF ConnectionLost, Fresh, StateIsPeersOwn, disk, env
  <1>5. CASE Quiet
    BY <1>5 DEF Quiet, net, Fresh, StateIsPeersOwn
  <1>6. CASE TxGoesOn
    <2>1. rx' = rx /\ journal' = journal /\ minted' = minted
      BY <1>6
      DEF TxGoesOn, TxAccepted, TxResumable, TxMetaAccepted, TxSkipChunk,
          TxSendChunk, TxChunkAck, TxComplete, TxTransferAck, disk, env
    <2>2. \A q \in Frames(s2r') :
            q \in Frames(s2r) \/ q.type \notin {"request", "query"}
      BY <1>0, <1>6, TxFrames, SMTT(30) DEF Metadata
    <2> QED
      BY <2>1, <2>2 DEF Fresh, StateIsPeersOwn
  <1>7. CASE RxGoesOn
    <2>1. minted' = minted /\ Frames(s2r') \subseteq Frames(s2r)
      <3>1. minted' = minted /\ (s2r' = s2r \/ (s2r # <<>> /\ s2r' = Tail(s2r)))
        BY <1>7
        DEF RxGoesOn, RxRequest, RxReject,
            RxAccept, RxResumeQuery, RxPathRejected, RxModified, RxJailed,
            RxMetadata, RxComplete, RxStopped, RxIgnore, RxWriteChunk,
            RxDuplicate, RxSave, RxChunkAck, RxPublish, NextChunk, RxReceives,
            net, env
      <3> QED
        BY <1>0, <3>1, HeadInRange
    <2>2. s2r # <<>> => Head(s2r) \in Frames(s2r)
      BY <1>0, HeadInRange
    <2>g. ASSUME journal' = journal \/ DOMAIN journal' \subseteq DOMAIN journal,
                 rx'.tid = rx.tid \/ rx'.tid = 0, rx'.pc # "consent" \/ rx' = rx
          PROVE  Fresh'
      BY <1>0, <2>1, <2>g, SMTT(30) DEF Fresh
    <2>h. ASSUME Receiving \/ rx.pc = "transfer",
                 rx'.pc # "consent", rx'.tid = rx.tid,
                 DOMAIN journal' = DOMAIN journal \cup {rx.tid}
          PROVE  Fresh'
      <3>1. rx.tid \in 1..minted
        BY <2>h, SMTT(30) DEF Fresh, TypeOK, RxTypeOK, Receiving, Tids
      <3>2. \A m \in Frames(s2r') :
              m.type = "request" => rx.pc = "main"
        BY <2>1 DEF Session, Opening
      <3> QED
        BY <2>1, <2>h, <3>1, <3>2 DEF Fresh, Receiving
    <2>3. CASE RxRequest
      <3>1. /\ rx'.pc = "consent" /\ rx'.tid = Head(s2r).tid
            /\ Head(s2r).type = "request" /\ s2r # <<>> /\ journal' = journal
        BY <1>0, <2>3 DEF RxRequest, RxReceives, Rx, disk
      <3>2. Head(s2r).tid \in 1..minted /\ Head(s2r).tid \notin DOMAIN journal
        BY <2>2, <3>1 DEF Fresh
      <3> QED
        BY <1>0, <2>1, <3>1, <3>2, SMTT(30) DEF Fresh, StateIsPeersOwn
    <2>4. CASE RxReject \/ RxComplete \/ RxStopped
      <3>1. /\ rx'.pc = "main" /\ rx'.tid \in {0, rx.tid}
            /\ DOMAIN journal' \subseteq DOMAIN journal
        BY <1>0, <2>4
        DEF RxReject, RxComplete, RxStopped, RxIdle, Rx, disk, DeleteJournal
      <3> QED
        BY <2>g, <3>1 DEF StateIsPeersOwn
    <2>5. CASE RxAccept
      <3>1. /\ rx.pc = "consent" /\ rx'.pc = "transfer" /\ rx'.tid = rx.tid
            /\ rx'.peer = rx.peer /\ rx'.mem = LoadedState(rx.tid, rx.sha)
            /\ journal' = journal
        BY <1>0, <2>5 DEF RxAccept, EnterTransfer, Rx
      <3>2. LoadedState(rx.tid, rx.sha).peer = rx.peer
        BY <3>1 DEF Fresh, LoadedState, Continues
      <3> QED
        BY <2>g, <3>1, <3>2 DEF StateIsPeersOwn
    <2>6. CASE RxResumeQuery
      <3>1. /\ Head(s2r).type = "query" /\ s2r # <<>> /\ rx.pc = "main"
            /\ journal' = journal
        BY <2>6 DEF RxResumeQuery, RxReceives
      <3>2. CASE rx' = rx
        BY <2>g, <3>1, <3>2 DEF StateIsPeersOwn
      <3>3. CASE Resumable(Head(s2r).tid)
        <4> DEFINE t == Head(s2r).tid
        <4>1. /\ rx'.pc = "transfer" /\ rx'.tid = t /\ rx'.peer = rx.peer
              /\ rx'.mem = LoadedState(t, journal[t].sha)
          BY <1>0, <2>6, <3>3 DEF RxResumeQuery, EnterTransfer, Rx
        <4>2. LoadedState(t, journal[t].sha).peer = rx.peer
          BY <3>3 DEF LoadedState, Resumable
        <4>3. t \in 1..minted
          BY <2>2, <3>1 DEF Fresh
        <4> QED
          BY <1>0, <2>1, <3>1, <4>1, <4>2, <4>3, SMTT(30) DEF Fresh, StateIsPeersOwn
      <3> QED
        BY <2>6, <3>2, <3>3 DEF RxResumeQuery
    <2>7. CASE RxPathRejected \/ RxJailed \/ RxIgnore
      <3>1. rx' = rx /\ journal' = journal
        BY <2>7 DEF RxPathRejected, RxJailed, RxIgnore, disk
      <3> QED
        BY <2>g, <3>1 DEF StateIsPeersOwn
    <2>8. CASE (RxModified /\ journal' # journal) \/ RxMetadata \/ RxSave
      <3>1. /\ rx.pc \in {"transfer", "save"} /\ rx'.tid = rx.tid
            /\ rx'.pc # "consent" /\ rx'.peer = rx.peer
            /\ DOMAIN journal' = DOMAIN journal \cup {rx.tid}
            /\ rx'.mem.peer = rx.mem.peer
        <4>1. rx.mem \in Journal
          BY <1>0 DEF Rx
        <4>2. CASE RxModified /\ journal' # journal
          BY <1>0, <4>1, <4>2 DEF RxModified, SaveJournal, Rx, Journal
        <4>3. CASE RxSave
          BY <1>0, <4>1, <4>3 DEF RxSave, SaveJournal, Rx, Journal
        <4>4. CASE RxMetadata
          <5> DEFINE state == IF HasPartial THEN rx.mem
                              ELSE [rx.mem EXCEPT !.has = TRUE, !.received = 0]
          <5>1. state.peer = rx.mem.peer
            BY <4>1 DEF Journal
          <5>2. /\ rx.pc = "transfer" /\ SaveJournal(rx.tid, state)
                /\ rx'.mem = state /\ rx'.tid = rx.tid /\ rx'.peer = rx.peer
                /\ rx'.pc \in {"transfer", "file"}
            <6> HIDE DEF state
            <6> QED
              BY <1>0, <4>4 DEF RxMetadata, Rx, state
          <5> HIDE DEF state
          <5> QED
            BY <5>1, <5>2 DEF SaveJournal
        <4> QED
          BY <2>8, <4>2, <4>3, <4>4
      <3> QED
        BY <2>h, <3>1 DEF StateIsPeersOwn, Receiving
    <2>9. CASE RxWriteChunk \/ RxDuplicate \/ RxChunkAck \/ RxPublish
      <3>1. /\ Receiving /\ rx'.tid = rx.tid /\ rx'.mem = rx.mem
            /\ rx'.peer = rx.peer /\ rx'.pc # "consent" /\ journal' = journal
        BY <1>0, <2>9
        DEF RxWriteChunk, RxDuplicate, RxChunkAck, RxPublish, NextChunk,
            Receiving, Rx, disk
      <3> QED
        BY <2>g, <3>1 DEF StateIsPeersOwn, Receiving
    <2>10. CASE RxModified /\ journal' = journal
      <3>1. /\ rx'.tid = rx.tid /\ rx'.pc = "transfer" /\ rx'.peer = rx.peer
            /\ rx'.mem.peer = rx.mem.peer /\ rx.pc = "transfer"
        BY <1>0, <2>10 DEF RxModified, Rx, Journal
      <3> QED
        BY <2>g, <2>10, <3>1 DEF StateIsPeersOwn, Receiving
    <2> QED
      BY <1>7, <2>3, <2>4, <2>5, <2>6, <2>7, <2>8, <2>9, <2>10 DEF RxGoesOn
  <1> QED
    BY <1>1, <1>2, <1>3, <1>4, <1>5, <1>6, <1>7 DEF StepKind

(* Freshness, and with it the ownership of resume state, holds throughout. *)
LEMMA FreshHolds == Spec => [](Fresh /\ StateIsPeersOwn)
  <1>1. TypeOK /\ TypeOK' /\ Session /\ Fresh /\ StateIsPeersOwn /\ [Next]_vars
          => Fresh' /\ StateIsPeersOwn'
    BY StepKinds, FreshNext
  <1> QED
    BY <1>1, TypeCorrect, SessionHolds, FreshInit, PTL DEF Spec

(* A handler works on resume state of the peer it talks to only            *)
(* (StateIsPeersOwn; handler.rs compares peer_device_id on RESUME_QUERY,   *)
(* and no request ever meets a journal of another transfer).               *)
THEOREM PeersOwn == Spec => []StateIsPeersOwn
  BY FreshHolds, PTL

-----------------------------------------------------------------------------
(* Progress.                                                               *)

(* n bytes, or what is in the .part, are past the progress on record.      *)
Ahead(n) == rx.mem.received <= n \/ rx.mem.received <= Received

(* The progress on record is never ahead of where the sender goes on: the  *)
(* sender's skip point comes from RESUME_STATUS, and every chunk on its    *)
(* way ends at or beyond it, unless the .part is past it already.          *)
Progress ==
    /\ rx.mem.has \/ rx.mem.received = 0
    /\ tx.pc = "accept" /\ rx.pc = "transfer" => rx.mem.received = 0
    /\ tx.pc = "status" /\ rx.pc = "transfer"
         => \A m \in Frames(r2s) : rx.mem.received <= m.received
    /\ tx.pc = "meta_ack" => rx.pc = "idle" \/ rx.mem.received <= tx.skip
    /\ tx.pc = "stream" /\ Receiving => Ahead(tx.skip)
    /\ Receiving =>
         \A m \in Frames(s2r) : m.type = "chunk" => Ahead(m.off + m.len)
    /\ rx.pc = "save" => rx.mem.received <= Received

(* There is no progress at first.                                          *)
LEMMA ProgressInit == Init => Progress
  BY IdleType, SMTT(30) DEF Init, Progress, RxIdle, Receiving

(* A step that keeps the sender's phase and the receiver, and adds no      *)
(* frame.                                                                  *)
LEMMA ProgressFrame ==
    ASSUME Progress, rx' = rx, Frames(s2r') \subseteq Frames(s2r),
           Frames(r2s') \subseteq Frames(r2s),
           tx' = tx
    PROVE  Progress'
  BY DEF Progress, Ahead, Received, Receiving

(* The sender's steps: it skips to the point the receiver named, and each  *)
(* chunk it sends ends beyond it.                                          *)
LEMMA ProgressTx ==
    ASSUME TypeOK, TypeOK', Session, Progress, TxGoesOn
    PROVE  Progress'
  <1>0. /\ s2r \in Seq(SMsg) /\ r2s \in Seq(RMsg) /\ tx \in Tx /\ rx \in Rx
        /\ rx.mem.received \in Nat /\ tx.skip \in Nat
        /\ rx' = rx
    <2>1. /\ s2r \in Seq(SMsg) /\ r2s \in Seq(RMsg) /\ tx \in Tx /\ rx \in Rx
      BY DEF TypeOK, NetTypeOK, TxTypeOK, RxTypeOK
    <2>2. rx.mem.received \in Nat /\ tx.skip \in Nat
      BY <2>1 DEF Tx, Rx, Journal
    <2>3. rx' = rx
      BY DEF TxGoesOn, TxAccepted, TxResumable, TxMetaAccepted, TxSkipChunk,
             TxSendChunk, TxChunkAck, TxComplete, TxTransferAck
    <2> QED
      BY <2>1, <2>2, <2>3
  <1>1. r2s # <<>> => Head(r2s) \in Frames(r2s)
    BY <1>0, HeadInRange
  <1>2. ASSUME tx'.pc \notin {"accept", "status"},
               tx'.pc = "meta_ack"
                 => rx.pc = "idle" \/ rx.mem.received <= tx'.skip,
               tx'.pc = "stream" /\ Receiving => Ahead(tx'.skip),
               Receiving => \A m \in Frames(s2r') :
                    m.type = "chunk" => m \in Frames(s2r) \/ Ahead(m.off + m.len)
        PROVE  Progress'
    BY <1>0, <1>2 DEF Progress, Receiving, Ahead, Received
  <1>3. \A q \in Frames(s2r') :
             \/ q \in Frames(s2r) \/ q = Metadata
             \/ q.type \in {"chunk", "complete", "close"}
    BY <1>0, TxFrames
  <1>4. CASE TxAccepted \/ TxResumable
    <2>1. /\ tx'.pc = "meta_ack" /\ r2s # <<>>
          /\ \/ tx.pc = "accept" /\ tx'.skip = tx.skip /\ Head(r2s).type = "accept"
             \/ tx.pc = "status" /\ tx'.skip = Head(r2s).received
                  /\ Head(r2s).resumable
      BY <1>0, <1>4 DEF TxAccepted, TxResumable, TxReceives, Tx
    <2>2. rx.pc \in {"idle", "transfer"}
      BY <1>1, <2>1 DEF Session, PhaseAccept, PhaseStatus
    <2>3. rx.pc = "idle" \/ rx.mem.received <= tx'.skip
      BY <1>0, <1>1, <2>1, <2>2, SMTT(30) DEF Progress
    <2> QED
      BY <1>2, <2>1, <2>2, <2>3 DEF Receiving
  <1>5. CASE TxMetaAccepted
    <2>1. /\ tx.pc = "meta_ack" /\ tx'.pc = "stream" /\ tx'.skip = tx.skip
          /\ s2r' = s2r
      BY <1>0, <1>5 DEF TxMetaAccepted, Tx
    <2> QED
      BY <1>2, <2>1 DEF Progress, Ahead, Receiving
  <1>6. CASE TxSkipChunk \/ TxChunkAck
    <2>1. tx.pc = "stream" /\ tx'.pc = "stream" /\ tx'.skip = tx.skip /\ s2r' = s2r
      BY <1>0, <1>6 DEF TxSkipChunk, TxChunkAck, Draining, Tx, net
    <2> QED
      BY <1>2, <2>1 DEF Progress
  <1>7. CASE TxSendChunk
    <2>1. /\ tx.pc = "stream" /\ tx'.pc = "stream" /\ tx'.skip = tx.skip
          /\ tx.off < Total /\ ~ShouldSkip
      BY <1>0, <1>7 DEF TxSendChunk, Tx
    <2>2. PICK m : /\ s2r' = Deliver(s2r, m) /\ m.off = tx.off
                   /\ m.len = ChunkEnd - tx.off
      BY <1>7, SMTT(30) DEF TxSendChunk, SendToReceiver
    <2>3. Frames(s2r') \subseteq Frames(s2r) \cup {m}
      BY <1>0, <2>2, AnyDeliver
    <2>4. ChunkEnd \in Nat /\ tx.off \in Nat
      BY <1>0, ConstantsAssumption, SMTT(30) DEF ChunkEnd, Total, Tx
    <2>5. m.off + m.len = ChunkEnd /\ tx.skip < ChunkEnd
      BY <1>0, <2>1, <2>2, <2>4, SMTT(30) DEF ShouldSkip
    <2>6. Receiving => Ahead(m.off + m.len)
      <3>1. Receiving => Ahead(tx.skip)
        BY <2>1 DEF Progress
      <3> QED
        BY <1>0, <2>4, <2>5, <3>1, SMTT(30) DEF Ahead
    <2> QED
      BY <1>2, <2>1, <2>3, <2>6 DEF Progress
  <1>8. CASE TxComplete
    <2>1. tx'.pc = "transfer_ack" /\ s2r' = Deliver(s2r, [type |-> "complete"])
      BY <1>0, <1>8 DEF TxComplete, SendToReceiver, Tx
    <2>2. \A m \in Frames(s2r') : m.type = "chunk" => m \in Frames(s2r)
      BY <1>0, <2>1, AnyDeliver, SMTT(30)
    <2> QED
      BY <1>2, <2>1, <2>2
  <1>9. CASE TxTransferAck /\ tx'.pc = "closing"
    <2>1. s2r' = Deliver(s2r, [type |-> "close"])
      BY <1>9, IdleType DEF TxTransferAck, SendToReceiver
    <2>2. \A m \in Frames(s2r') : m.type = "chunk" => m \in Frames(s2r)
      BY <1>0, <2>1, AnyDeliver, SMTT(30)
    <2> QED
      BY <1>2, <1>9, <2>2
  <1> QED
    BY <1>4, <1>5, <1>6, <1>7, <1>8, <1>9 DEF TxGoesOn

(* The receiver's steps: it names the progress of the state it loads, and  *)
(* records what it received only in RxSave.                                *)
LEMMA ProgressRx ==
    ASSUME TypeOK, TypeOK', Session, Fresh, MemIsJournaled, Progress, RxGoesOn
    PROVE  Progress'
  <1>0. /\ s2r \in Seq(SMsg) /\ r2s \in Seq(RMsg) /\ tx \in Tx /\ rx \in Rx
        /\ rx.mem.received \in Nat /\ tx.skip \in Nat /\ Received \in Nat
    <2>1. /\ s2r \in Seq(SMsg) /\ r2s \in Seq(RMsg) /\ tx \in Tx /\ rx \in Rx
      BY DEF TypeOK, NetTypeOK, TxTypeOK, RxTypeOK
    <2>2. rx.mem.received \in Nat /\ tx.skip \in Nat /\ Received \in Nat
      BY <2>1, SMTT(30) DEF Tx, Rx, Journal, Received
    <2> QED
      BY <2>1, <2>2
  <1>t. tx' = tx
    BY DEF RxGoesOn, RxRequest, RxReject,
           RxAccept, RxResumeQuery, RxPathRejected, RxModified, RxJailed,
           RxMetadata, RxComplete, RxStopped, RxIgnore, RxWriteChunk,
           RxDuplicate, RxSave, RxChunkAck, RxPublish
  <1>m. rx.mem \in Journal
    BY <1>0 DEF Rx
  <1>1. s2r # <<>> => /\ Head(s2r) \in Frames(s2r)
                      /\ Frames(Tail(s2r)) \subseteq Frames(s2r)
                      /\ Single(s2r) => Tail(s2r) = <<>>
    BY <1>0, HeadInRange
  <1>e. Frames(<<>>) = {}
    BY EmptyChannel
  <1>2. CASE RxRequest \/ RxReject \/ RxComplete \/ RxStopped
    <2>1. /\ rx'.pc \in {"consent", "main"} /\ rx.pc # "idle"
          /\ rx'.mem = rx.mem \/ rx'.mem = RxIdle.mem
      BY <1>0, <1>2 DEF RxRequest, RxReject, RxComplete, RxStopped, Rx, RxIdle
    <2>2. RxIdle.mem.received = 0
      BY DEF RxIdle
    <2>3. tx.pc = "meta_ack" => rx.mem.received <= tx.skip
      BY <2>1 DEF Progress
    <2> QED
      BY <1>0, <1>t, <2>1, <2>2, <2>3, SMTT(30) DEF Progress, Receiving
  <1>3. CASE RxAccept
    <2>1. /\ rx'.pc = "transfer" /\ rx'.mem = LoadedState(rx.tid, rx.sha)
          /\ rx.pc = "consent"
      BY <1>0, <1>3 DEF RxAccept, EnterTransfer, Rx
    <2>2. rx'.mem.received = 0
      BY <2>1, SMTT(30) DEF LoadedState, Continues, Fresh
    <2>3. tx.pc # "status"
      BY <2>1 DEF Session, PhaseStatus
    <2> QED
      BY <1>0, <1>t, <2>1, <2>2, <2>3, SMTT(30) DEF Progress, Receiving
  <1>4. CASE RxResumeQuery
    <2> DEFINE t == Head(s2r).tid
    <2>1. /\ rx.pc = "main" /\ s2r # <<>> /\ Head(s2r).type = "query"
      BY <1>4 DEF RxResumeQuery, RxReceives
    <2>2. tx.pc \notin {"accept", "meta_ack"}
      BY <1>1, <2>1 DEF Session, PhaseAccept, PhaseMeta, Only
    <2>3. CASE ~Resumable(t)
      <3>1. rx' = rx
        BY <1>4, <2>3 DEF RxResumeQuery
      <3> QED
        BY <1>t, <2>1, <2>2, <3>1 DEF Progress, Receiving
    <2>4. CASE Resumable(t)
      <3> DEFINE n == IF journal[t].has THEN journal[t].received ELSE 0
                 m == [type |-> "status", resumable |-> TRUE, received |-> n]
      <3>1. /\ rx'.pc = "transfer" /\ rx'.mem = LoadedState(t, journal[t].sha)
            /\ r2s' = Deliver(r2s, m)
        BY <1>0, <1>4, <2>4
        DEF RxResumeQuery, EnterTransfer, SendToSender, Rx
      <3>2. rx'.mem.received = n /\ (rx'.mem.has \/ rx'.mem.received = 0)
        BY <2>4, <3>1, SMTT(30) DEF LoadedState, Continues, Resumable
      <3>3. m.received = n
        OBVIOUS
      <3> HIDE DEF m
      <3>4. n \in Nat
        BY <2>4 DEF Resumable, TypeOK, DiskTypeOK, Journal
      <3>5. tx.pc = "status" => r2s = <<>>
        BY <1>1, <2>1, <1>e DEF Session, PhaseStatus
      <3>6. tx.pc = "status" => Frames(r2s') \subseteq {m}
        BY <1>0, <1>e, <3>1, <3>5, AnyDeliver
      <3> HIDE DEF n, t
      <3> QED
        BY <1>t, <2>2, <3>1, <3>2, <3>3, <3>4, <3>6, SMTT(30) DEF Progress, Receiving
    <2> QED
      BY <2>3, <2>4
  <1>5. CASE RxPathRejected \/ RxModified \/ RxJailed
    <2>1. /\ rx.pc = "transfer" /\ rx'.pc = "transfer" /\ s2r # <<>>
          /\ Head(s2r).type = "meta"
      BY <1>0, <1>5 DEF RxPathRejected, RxModified, RxJailed, RxReceives, Rx
    <2>2. \/ rx'.mem = rx.mem
          \/ rx'.mem = [rx.mem EXCEPT !.has = FALSE, !.received = 0]
      BY <1>0, <1>5 DEF RxPathRejected, RxModified, RxJailed, Rx
    <2>3. rx'.mem = rx.mem \/ rx'.mem.received = 0
      BY <1>m, <2>2 DEF Journal
    <2>4. tx.pc \notin {"accept", "status"}
      BY <1>1, <2>1 DEF Session, PhaseAccept, PhaseStatus, Only
    <2>5. tx.pc = "meta_ack" => rx.mem.received <= tx.skip
      BY <2>1 DEF Progress
    <2>6. rx'.mem.has \/ rx'.mem.received = 0
      BY <2>3 DEF Progress
    <2> QED
      BY <1>0, <1>t, <2>1, <2>3, <2>4, <2>5, <2>6, SMTT(30) DEF Progress, Receiving
  <1>6. CASE RxMetadata
    <2> DEFINE state == IF HasPartial THEN rx.mem
                        ELSE [rx.mem EXCEPT !.has = TRUE, !.received = 0]
    <2>1. /\ rx.pc = "transfer" /\ rx'.pc \in {"transfer", "file"}
          /\ s2r # <<>> /\ Head(s2r).type = "meta" /\ s2r' = Tail(s2r)
      BY <1>0, <1>6 DEF RxMetadata, RxReceives, Rx
    <2>2. rx'.mem = state
      BY <1>0, <1>6 DEF RxMetadata, Rx
    <2>3. state.has /\ (state.received = rx.mem.received \/ state.received = 0)
      BY <1>m DEF HasPartial, Journal
    <2>4. tx.pc \notin {"accept", "status", "stream"}
      BY <1>1, <2>1 DEF Session, PhaseAccept, PhaseStatus, PhaseStream, Only
    <2>5. tx.pc = "meta_ack" => rx.mem.received <= tx.skip
      BY <2>1 DEF Progress
    <2>6. s2r' = <<>>
      BY <1>1, <2>1 DEF Session, Opening
    <2> HIDE DEF state
    <2>7. rx'.mem.has \/ rx'.mem.received = 0
      BY <2>2, <2>3
    <2>8. tx.pc = "meta_ack" => rx'.mem.received <= tx.skip
      BY <1>0, <2>2, <2>3, <2>5, SMTT(30)
    <2> QED
      BY <1>e, <1>t, <2>1, <2>4, <2>6, <2>7, <2>8
      DEF Progress, Receiving
  <1>7. CASE RxIgnore
    <2>1. rx' = rx /\ r2s' = r2s /\ s2r # <<>> /\ s2r' = Tail(s2r)
      BY <1>7 DEF RxIgnore
    <2> QED
      BY <1>1, <1>t, <2>1, ProgressFrame
  <1>r. ASSUME Receiving, rx'.pc = "transfer" \/ Receiving'
        PROVE  tx.pc \notin {"accept", "status"}
    BY <1>r DEF Session, PhaseAccept, PhaseStatus, Receiving
  <1>8. CASE RxWriteChunk
    <2>1. /\ rx.pc = "file" /\ rx'.pc = "save" /\ rx'.mem = rx.mem
          /\ rx'.hashed = rx.hashed \o ChunkData
          /\ s2r # <<>> /\ s2r' = Tail(s2r) /\ Head(s2r).type = "chunk"
          /\ Head(s2r).off = Received
      BY <1>0, <1>8 DEF RxWriteChunk, NextChunk, RxReceives, InOrder, Rx
    <2>2. /\ Head(s2r).len \in Nat /\ Head(s2r).off \in Nat
          /\ Head(s2r).ver \in Versions
      BY <1>0, <2>1, TailType, SMsgFields
    <2>3. Received' = Received + Head(s2r).len
      <3>1. ChunkData \in Seq(Byte) /\ Len(ChunkData) = Head(s2r).len
        BY <2>2, BytesType DEF ChunkData
      <3>2. rx.hashed \in Seq(Byte)
        BY <1>0 DEF Rx
      <3> QED
        BY <2>1, <3>1, <3>2, SMTT(30) DEF Received
    <2>4. rx.mem.received <= Received + Head(s2r).len
      <3>1. Ahead(Received + Head(s2r).len)
        BY <1>1, <2>1 DEF Progress, Receiving
      <3> QED
        BY <1>0, <2>2, <3>1, SMTT(30) DEF Ahead
    <2>5. rx'.mem.received <= Received'
      BY <2>1, <2>3, <2>4
    <2>6. \A n : Ahead(n)'
      BY <2>5 DEF Ahead
    <2>7. tx.pc \notin {"accept", "status"}
      BY <1>r, <2>1 DEF Receiving
    <2>8. tx.pc = "meta_ack" => rx.mem.received <= tx.skip
      BY <2>1 DEF Progress
    <2> QED
      BY <1>t, <2>1, <2>5, <2>6, <2>7, <2>8 DEF Progress, Receiving
  <1>9. CASE RxSave
    <2> DEFINE state == [rx.mem EXCEPT !.received = Received]
    <2>1. /\ rx.pc = "save" /\ rx'.pc = "chunk_ack" /\ rx'.mem = state
          /\ rx'.hashed = rx.hashed /\ s2r' = s2r
      BY <1>0, <1>9 DEF RxSave, Rx, net
    <2>2. state.received = Received /\ state.has = rx.mem.has
      BY <1>m DEF Journal
    <2>3. rx.mem.has
      BY <2>1 DEF MemIsJournaled, Receiving
    <2>4. Received' = Received
      BY <2>1 DEF Received
    <2>5. \A n : Ahead(n)'
      BY <1>0, <2>1, <2>2, <2>4, SMTT(30) DEF Ahead
    <2>6. tx.pc \notin {"accept", "status", "meta_ack"}
      BY <2>1 DEF Session, PhaseAccept, PhaseStatus, PhaseMeta
    <2> HIDE DEF state
    <2> QED
      BY <1>t, <2>1, <2>2, <2>3, <2>5, <2>6 DEF Progress, Receiving
  <1>10. CASE RxDuplicate \/ RxChunkAck
    <2>1. /\ Receiving /\ rx'.mem = rx.mem /\ rx'.hashed = rx.hashed
          /\ rx'.pc \in {"chunk_ack", "verify", "file"}
          /\ s2r' = s2r \/ (s2r # <<>> /\ s2r' = Tail(s2r))
      BY <1>0, <1>10
      DEF RxDuplicate, RxChunkAck, Receiving, NextChunk, RxReceives, Rx
    <2>2. Frames(s2r') \subseteq Frames(s2r)
      BY <1>1, <2>1
    <2>3. \A n : Ahead(n) => Ahead(n)'
      BY <2>1 DEF Ahead, Received
    <2>4. tx.pc \notin {"accept", "status"}
      BY <1>r, <2>1 DEF Receiving
    <2>5. tx.pc = "meta_ack" => rx.mem.received <= tx.skip
      BY <2>1 DEF Progress, Receiving
    <2> QED
      BY <1>t, <2>1, <2>2, <2>3, <2>4, <2>5 DEF Progress, Receiving
  <1>11. CASE RxPublish
    <2>1. /\ rx.pc = "verify" /\ rx'.pc = "transfer" /\ rx'.mem = rx.mem
      BY <1>0, <1>11 DEF RxPublish, Rx
    <2>2. tx.pc \notin {"accept", "status", "meta_ack"}
      BY <2>1 DEF Session, PhaseAccept, PhaseStatus, PhaseMeta
    <2> QED
      BY <1>t, <2>1, <2>2 DEF Progress, Receiving
  <1> QED
    BY <1>2, <1>3, <1>4, <1>5, <1>6, <1>7, <1>8, <1>9, <1>10, <1>11 DEF RxGoesOn

(* The progress invariant is inductive.                                    *)
LEMMA ProgressNext ==
    ASSUME TypeOK, TypeOK', Session, Fresh, MemIsJournaled, Progress, StepKind
    PROVE  Progress'
  <1>0. /\ s2r \in Seq(SMsg) /\ r2s \in Seq(RMsg) /\ tx \in Tx /\ rx \in Rx
    BY DEF TypeOK, NetTypeOK, TxTypeOK, RxTypeOK
  <1>i. RxIdle.mem.received = 0 /\ RxIdle.pc = "idle" /\ TxIdle.pc = "idle"
    BY DEF RxIdle, TxIdle
  <1>1. CASE TxGone
    <2>1. rx' = rx /\ tx'.pc \in {"idle", "redial"}
      BY <1>0, <1>i, <1>1 DEF TxGone, Tx
    <2>2. \A m \in Frames(s2r') : m.type = "chunk" => m \in Frames(s2r)
      BY <1>1 DEF TxGone
    <2> QED
      BY <2>1, <2>2 DEF Progress, Ahead, Received, Receiving
  <1>2. CASE RxGone
    BY <1>i, <1>2 DEF RxGone, Progress, Receiving
  <1>3. CASE Dialled
    <2>1. /\ rx'.pc = "main" /\ rx'.mem = RxIdle.mem
          /\ tx'.pc \in {"accept", "status"}
      BY <1>3 DEF Dialled
    <2> QED
      BY <1>i, <2>1 DEF Progress, Receiving
  <1>4. CASE ConnectionLost
    <2>1. Frames(s2r') \subseteq Frames(s2r) /\ Frames(r2s') \subseteq Frames(r2s)
      BY <1>0, <1>4, PrefixRange DEF ConnectionLost
    <2> QED
      BY <1>4, <2>1, ProgressFrame DEF ConnectionLost
  <1>5. CASE Quiet
    BY <1>5, ProgressFrame DEF Quiet, net
  <1> QED
    BY <1>1, <1>2, <1>3, <1>4, <1>5, ProgressTx, ProgressRx DEF StepKind

(* No step lowers the progress of a journal that keeps its entry.          *)
LEMMA ProgressStep ==
    ASSUME TypeOK, MemIsJournaled, Progress, [Next]_vars,
           NEW t \in DOMAIN journal \cap DOMAIN journal'
    PROVE  \/ journal'[t].received >= journal[t].received
           \/ ~journal'[t].has
           \/ "io" \in Faults /\ t = rx.tid /\ ~rx.mem.has
  <1> USE DEF TypeOK
  <1>0. journal[t].received \in Nat
    BY DEF DiskTypeOK, Journal
  <1>1. ASSUME journal'[t] = journal[t]
        PROVE  journal'[t].received >= journal[t].received
    BY <1>0, <1>1, SMTT(30)
  <1>m. rx.mem \in Journal /\ Received \in Nat
    BY SMTT(30) DEF RxTypeOK, Rx, Received
  <1>2. CASE JournalIdleStep
    BY <1>1, <1>2, JournalIdle
  <1>3. CASE RxAccept \/ RxResumeQuery \/ RxWriteChunk \/ RxDuplicate
               \/ RxChunkAck \/ RxPublish
    BY <1>1, <1>3
    DEF RxAccept, RxResumeQuery, RxWriteChunk, RxDuplicate, RxChunkAck,
        RxPublish, disk
  <1>4. CASE RxModified
    <2>1. \/ SaveJournal(rx.tid, [rx.mem EXCEPT !.has = FALSE, !.received = 0])
          \/ journal' = journal
      BY <1>4 DEF RxModified
    <2>2. ~[rx.mem EXCEPT !.has = FALSE, !.received = 0].has
      BY <1>m DEF Journal
    <2> QED
      BY <1>1, <2>1, <2>2 DEF SaveJournal
  <1>5. CASE RxMetadata
    <2> DEFINE state == IF HasPartial THEN rx.mem
                        ELSE [rx.mem EXCEPT !.has = TRUE, !.received = 0]
    <2>1. state.received = rx.mem.received
      BY <1>m, SMTT(30) DEF Journal, HasPartial, Progress
    <2>2. SaveJournal(rx.tid, state) /\ rx.pc = "transfer"
      BY <1>5 DEF RxMetadata
    <2> HIDE DEF state
    <2>3. t = rx.tid => /\ journal'[t] = state
                        /\ \/ journal[t].received = rx.mem.received
                           \/ "io" \in Faults /\ ~rx.mem.has
      BY <2>2 DEF SaveJournal, MemIsJournaled
    <2>4. t # rx.tid => journal'[t] = journal[t]
      BY <2>2 DEF SaveJournal
    <2> QED
      BY <1>0, <1>1, <2>1, <2>3, <2>4, SMTT(30)
  <1>6. CASE RxSave
    <2> DEFINE state == [rx.mem EXCEPT !.received = Received]
    <2>1. state.received = Received
      BY <1>m DEF Journal
    <2>2. SaveJournal(rx.tid, state) /\ rx.pc = "save"
      BY <1>6 DEF RxSave
    <2>3. rx.mem.received <= Received /\ journal[rx.tid] = rx.mem
      BY <2>2 DEF Progress, MemIsJournaled, Receiving
    <2> HIDE DEF state
    <2>4. t = rx.tid => journal'[t] = state
      BY <2>2 DEF SaveJournal
    <2>5. t # rx.tid => journal'[t] = journal[t]
      BY <2>2 DEF SaveJournal
    <2> QED
      BY <1>0, <1>1, <1>m, <2>1, <2>3, <2>4, <2>5
  <1>7. CASE RxComplete
    BY <1>1, <1>7 DEF RxComplete, DeleteJournal
  <1>8. CASE RxCrash
    BY <1>1, <1>8 DEF RxCrash
  <1> QED
    BY <1>2, <1>3, <1>4, <1>5, <1>6, <1>7, <1>8
    DEF JournalIdleStep, Next, RxStep, EnvStep

(* The progress invariant holds throughout.                                *)
LEMMA ProgressHolds == Spec => []Progress
  <1>1. TypeOK /\ TypeOK' /\ Session /\ Fresh /\ MemIsJournaled /\ Progress
          /\ [Next]_vars => Progress'
    BY StepKinds, ProgressNext
  <1> QED
    BY <1>1, TypeCorrect, SessionHolds, FreshHolds, JournalIsMemory,
       ProgressInit, PTL DEF Spec

(* Resume progress is never taken back, unless the entry is dropped        *)
(* because the file was modified, or only forgotten because the save of    *)
(* that failed (ProgressKept; receiver.rs saves received_bytes after each  *)
(* chunk, starting from a .part that may be shorter than the journal says). *)
THEOREM ProgressTheorem == Spec => ProgressKept
  <1>1. TypeOK /\ MemIsJournaled /\ Progress /\ [Next]_vars
          => [\A t \in DOMAIN journal \cap DOMAIN journal' :
                \/ journal'[t].received >= journal[t].received
                \/ ~journal'[t].has
                \/ "io" \in Faults /\ t = rx.tid /\ ~rx.mem.has]_vars
    BY ProgressStep
  <1> QED
    BY <1>1, TypeCorrect, JournalIsMemory, ProgressHolds, PTL
    DEF Spec, ProgressKept

-----------------------------------------------------------------------------
(* The window.                                                             *)

(* What the sender counts as in flight are chunks on their way, the chunk  *)
(* being handled and acknowledgments on theirs.                            *)
Chunks == Count(s2r, "chunk")
Acks == Count(r2s, "chunk_ack")
(* The chunk between RxWriteChunk (or RxDuplicate) and its acknowledgment. *)
InHand == IF rx.pc \in {"save", "chunk_ack"} THEN 1 ELSE 0
(* The sender's count of chunks in flight covers all of them; a connection *)
(* the sender left carries at most a window.                               *)
InFlight == IF Active THEN tx.inflight ELSE MaxInFlight
Window ==
    \E c, a \in Nat :
      AtMost(Chunks, c) /\ AtMost(Acks, a) /\ c + InHand + a <= InFlight

(* Nothing is in flight at first.                                          *)
LEMMA WindowInit == Init => Window
  <1> SUFFICES ASSUME Init PROVE Window
    OBVIOUS
  <1>1. Chunks = {} /\ Acks = {} /\ InHand = 0 /\ ~Active
    BY CountEmpty, IdleType DEF Init, InHand, Active, Chunks, Acks
  <1>2. AtMost(Chunks, 0) /\ AtMost(Acks, 0)
    BY <1>1, AtMostNone
  <1>3. 0 + InHand + 0 <= InFlight
    BY <1>1, ConstantsAssumption, SMTT(30) DEF InFlight
  <1> QED
    BY <1>2, <1>3 DEF Window

(* The accounting is inductive: TxSendChunk adds one on both sides, a      *)
(* chunk that is taken becomes the one at hand and then an acknowledgment, *)
(* and every loss is of something that was counted.                        *)
LEMMA WindowNext ==
    ASSUME TypeOK, TypeOK', Session, Counters, Window, StepKind
    PROVE  Window'
  <1>0. /\ s2r \in Seq(SMsg) /\ s2r' \in Seq(SMsg)
        /\ r2s \in Seq(RMsg) /\ r2s' \in Seq(RMsg)
        /\ tx \in Tx /\ rx \in Rx
    BY DEF TypeOK, NetTypeOK, TxTypeOK, RxTypeOK
  <1>1. PICK c \in Nat, a \in Nat :
          AtMost(Chunks, c) /\ AtMost(Acks, a) /\ c + InHand + a <= InFlight
    BY DEF Window
  <1>2. /\ tx.inflight \in Nat /\ MaxInFlight \in Nat
        /\ tx.inflight <= MaxInFlight
    BY <1>0, ConstantsAssumption DEF Tx, Counters
  <1>3. InHand \in Nat /\ InHand' \in Nat /\ InHand <= 1 /\ InHand' <= 1
    BY SMTT(30) DEF InHand
  <1>a. Active \in BOOLEAN /\ Active' \in BOOLEAN
    BY DEF Active
  <1>4. AtMost(Count(<<>>, "chunk"), 0) /\ AtMost(Count(<<>>, "chunk_ack"), 0)
    BY CountEmpty, AtMostNone
  <1>5. ASSUME r2s # <<>>, r2s' = Tail(r2s)
        PROVE  /\ AtMost(Acks', a)
               /\ Head(r2s).type = "chunk_ack"
                    => a - 1 \in Nat /\ AtMost(Acks', a - 1)
    BY <1>0, <1>1, <1>5, AtMostTail DEF Acks
  <1>r. (r2s # <<>> /\ r2s' = Tail(r2s)) \/ r2s' = r2s => AtMost(Acks', a)
    BY <1>1, <1>5 DEF Acks
  <1>6. ASSUME s2r # <<>>, s2r' = Tail(s2r)
        PROVE  /\ AtMost(Chunks', c)
               /\ Head(s2r).type = "chunk"
                    => c - 1 \in Nat /\ AtMost(Chunks', c - 1)
    BY <1>0, <1>1, <1>6, AtMostTail DEF Chunks
  <1>s. (s2r # <<>> /\ s2r' = Tail(s2r)) \/ s2r' = s2r => AtMost(Chunks', c)
    BY <1>1, <1>6 DEF Chunks
  <1>7. \A m \in SMsg : s2r' = Deliver(s2r, m) =>
          /\ m.type # "chunk" => AtMost(Chunks', c)
          /\ AtMost(Chunks', c + 1)
    BY <1>0, <1>1, AtMostDeliver DEF Chunks
  <1>8. \A m \in RMsg : r2s' = Deliver(r2s, m) =>
          /\ m.type # "chunk_ack" => AtMost(Acks', a)
          /\ AtMost(Acks', a + 1)
    BY <1>0, <1>1, AtMostDeliver DEF Acks
  <1>g. ASSUME NEW d \in Nat, NEW b \in Nat, AtMost(Chunks', d), AtMost(Acks', b),
               d + InHand' + b <= c + InHand + a,
               Active' => Active /\ tx'.inflight = tx.inflight
        PROVE  Window'
    <2>1. d + InHand' + b <= InFlight'
      BY ONLY <1>1, <1>2, <1>g, <1>a, SMTT(30) DEF InFlight, InHand
    <2> QED
      BY <1>g, <2>1 DEF Window
  <1>9. CASE TxGone
    <2>1. ~Active'
      BY <1>0, <1>9, IdleType DEF TxGone, Active, Tx
    <2>2. rx' = rx /\ Chunks' \subseteq Chunks /\ r2s' = <<>>
      BY <1>9 DEF TxGone, Chunks
    <2>3. AtMost(Chunks', c) /\ AtMost(Acks', 0)
      BY <1>1, <1>4, <2>2, AtMostFewer DEF Acks
    <2>4. c + InHand' + 0 <= c + InHand + a
      BY <1>3, <2>2, SMTT(30) DEF InHand
    <2> QED
      BY <1>g, <2>1, <2>3, <2>4
  <1>10. CASE RxGone
    <2>1. tx' = tx /\ s2r' = <<>> /\ InHand' = 0 /\ Acks' \subseteq Acks
      BY <1>10, IdleType DEF RxGone, InHand, Acks
    <2>2. AtMost(Chunks', 0) /\ AtMost(Acks', a)
      BY <1>1, <1>4, <2>1, AtMostFewer DEF Chunks
    <2>3. 0 + InHand' + a <= c + InHand + a
      BY ONLY <1>1, <1>3, <2>1, SMTT(30)
    <2>4. Active' => Active /\ tx'.inflight = tx.inflight
      BY <2>1 DEF Active
    <2> QED
      BY <1>g, <2>2, <2>3, <2>4
  <1>11. CASE Dialled
    <2>1. PICK m \in SMsg : s2r' = <<m>> /\ m.type # "chunk"
      BY <1>11 DEF Dialled
    <2>2. Chunks' = {}
      BY <1>0, <2>1, SingletonChannel, CountNone DEF Chunks
    <2>3. AtMost(Chunks', 0) /\ AtMost(Acks', 0)
      BY <1>4, <1>11, <2>2, AtMostNone DEF Dialled, Acks
    <2>4. 0 + InHand' + 0 <= InFlight'
      BY <1>11, SMTT(30) DEF Dialled, InHand, Active, InFlight
    <2> QED
      BY <2>3, <2>4 DEF Window
  <1>12. CASE ConnectionLost
    <2>1. tx' = tx /\ rx' = rx /\ AtMost(Chunks', c) /\ AtMost(Acks', a)
      BY <1>0, <1>1, <1>12, AtMostPrefix DEF ConnectionLost, Chunks, Acks
    <2>2. InHand' = InHand /\ (Active' => Active /\ tx'.inflight = tx.inflight)
      BY <2>1 DEF InHand, Active
    <2> QED
      BY <1>3, <1>g, <2>1, <2>2, SMTT(30)
  <1>13. CASE Quiet
    <2>1. AtMost(Chunks', c) /\ AtMost(Acks', a)
      BY <1>1, <1>13 DEF Quiet, net, Chunks, Acks
    <2>2. InHand' = InHand /\ (Active' => Active /\ tx'.inflight = tx.inflight)
      BY <1>13 DEF Quiet, InHand, Active
    <2> QED
      BY <1>3, <1>g, <2>1, <2>2, SMTT(30)
  <1>14. CASE TxGoesOn
    <2>0. rx' = rx /\ InHand' = InHand
      BY <1>14
      DEF TxGoesOn, TxAccepted, TxResumable, TxMetaAccepted, TxSkipChunk,
          TxSendChunk, TxChunkAck, TxComplete, TxTransferAck, InHand
    <2>g. ASSUME AtMost(Chunks', c), AtMost(Acks', a), Active,
                 tx'.inflight = tx.inflight
          PROVE  Window'
      BY <1>3, <1>g, <2>0, <2>g, SMTT(30)
    <2>1. CASE TxAccepted \/ TxResumable
      <3>1. Metadata \in SMsg /\ Metadata.type = "meta"
        BY <1>0, SMsgSent DEF Metadata, Tx
      <3>2. AtMost(Chunks', c)
        BY <1>7, <2>1, <3>1 DEF TxAccepted, TxResumable, SendToReceiver
      <3>3. (r2s # <<>> /\ r2s' = Tail(r2s)) /\ Active /\ tx'.inflight = tx.inflight
        BY <1>0, <2>1
        DEF TxAccepted, TxResumable, TxReceives, Active, Tx
      <3> QED
        BY <1>r, <2>g, <3>2, <3>3
    <2>2. CASE TxMetaAccepted \/ TxSkipChunk
      <3>1. s2r' = s2r /\ Active /\ tx'.inflight = tx.inflight
        BY <1>0, <2>2 DEF TxMetaAccepted, TxSkipChunk, Active, Tx, net
      <3>2. (r2s # <<>> /\ r2s' = Tail(r2s)) \/ r2s' = r2s
        BY <2>2 DEF TxMetaAccepted, TxSkipChunk, TxReceives, net
      <3> QED
        BY <1>r, <1>s, <2>g, <3>1, <3>2
    <2>3. CASE TxSendChunk
      <3>1. PICK m \in SMsg : s2r' = Deliver(s2r, m)
        <4>1. PICK m : s2r' = Deliver(s2r, m)
          BY <2>3 DEF TxSendChunk, SendToReceiver
        <4>2. CASE conn = "up"
          <5>1. s2r' = Append(s2r, m) /\ s2r' \in Seq(SMsg)
            BY <1>0, <4>1, <4>2 DEF Deliver
          <5>2. m \in SMsg
            BY <1>0, <5>1, SMTT(30)
          <5> QED
            BY <4>1, <5>2
        <4>3. CASE conn # "up"
          BY <4>1, <4>3, SMsgSent DEF Deliver
        <4> QED
          BY <4>2, <4>3
      <3>2. AtMost(Chunks', c + 1) /\ c + 1 \in Nat
        BY <1>1, <1>7, <3>1, SMTT(30)
      <3>3. r2s' = r2s /\ tx'.inflight = tx.inflight + 1 /\ Active /\ Active'
        BY <1>0, <2>3 DEF TxSendChunk, Active, Tx
      <3>4. AtMost(Acks', a)
        BY <1>r, <3>3
      <3>5. (c + 1) + InHand' + a <= InFlight'
        BY ONLY <1>1, <1>2, <1>3, <2>0, <3>3, SMTT(30) DEF InFlight
      <3> QED
        BY <3>2, <3>4, <3>5 DEF Window
    <2>4. CASE TxChunkAck
      <3>1. /\ s2r' = s2r /\ r2s # <<>> /\ r2s' = Tail(r2s)
            /\ tx.pc = "stream" /\ tx'.pc = tx.pc
        BY <1>0, <2>4 DEF TxChunkAck, TxReceives, Draining, Tx
      <3>2. AtMost(Chunks', c) /\ Active /\ Active'
        BY <1>s, <3>1 DEF Active
      <3>3. CASE Head(r2s).type = "chunk_ack"
        <4>1. tx'.inflight = tx.inflight - 1
          BY <1>0, <2>4, <3>3 DEF TxChunkAck, TxReceives, Tx
        <4>2. a - 1 \in Nat /\ AtMost(Acks', a - 1)
          BY <1>5, <3>1, <3>3
        <4>3. c + InHand' + (a - 1) <= InFlight'
          BY ONLY <1>1, <1>2, <1>3, <2>0, <3>2, <4>1, <4>2, SMTT(30) DEF InFlight
        <4> QED
          BY <1>1, <3>2, <4>2, <4>3 DEF Window
      <3>4. CASE Head(r2s).type # "chunk_ack"
        <4>1. tx' = tx
          BY <2>4, <3>4 DEF TxChunkAck, TxReceives
        <4> QED
          BY <1>r, <2>g, <3>1, <3>2, <4>1
      <3> QED
        BY <3>3, <3>4
    <2>5. CASE TxComplete \/ (TxTransferAck /\ tx'.pc = "closing")
      <3>1. Active /\ tx'.inflight = tx.inflight
        <4>1. CASE TxComplete
          BY <1>0, <4>1 DEF TxComplete, Active, Tx
        <4>2. CASE TxTransferAck /\ tx'.pc = "closing"
          BY <1>0, <4>2, Closing DEF Active, Tx
        <4> QED
          BY <2>5, <4>1, <4>2
      <3>2. PICK m \in SMsg : s2r' = Deliver(s2r, m) /\ m.type # "chunk"
        <4>1. /\ [type |-> "complete"] \in SMsg /\ [type |-> "close"] \in SMsg
              /\ [type |-> "complete"].type # "chunk"
              /\ [type |-> "close"].type # "chunk"
          BY SMsgSent
        <4> QED
          BY <1>0, <2>5, <4>1, Closing DEF TxComplete, SendToReceiver
      <3>3. AtMost(Chunks', c)
        BY <1>7, <3>2
      <3>4. AtMost(Acks', a)
        <4>1. (r2s # <<>> /\ r2s' = Tail(r2s)) \/ r2s' = r2s
          BY <1>0, <2>5, Closing DEF TxComplete
        <4> QED
          BY <1>r, <4>1
      <3> QED
        BY <2>g, <3>1, <3>3, <3>4
    <2> QED
      BY <1>14, <2>1, <2>2, <2>3, <2>4, <2>5 DEF TxGoesOn
  <1>15. CASE RxGoesOn
    <2>0. tx' = tx
      BY <1>15
      DEF RxGoesOn, RxRequest, RxReject,
          RxAccept, RxResumeQuery, RxPathRejected, RxModified, RxJailed,
          RxMetadata, RxComplete, RxStopped, RxIgnore, RxWriteChunk,
          RxDuplicate, RxSave, RxChunkAck, RxPublish
    <2>g. ASSUME NEW d \in Nat, NEW b \in Nat,
                 AtMost(Chunks', d), AtMost(Acks', b),
                 d + InHand' + b <= c + InHand + a
          PROVE  Window'
      <3>1. Active' => Active /\ tx'.inflight = tx.inflight
        BY <2>0 DEF Active
      <3> QED
        BY <1>g, <2>g, <3>1
    <2>h. ASSUME AtMost(Chunks', c), AtMost(Acks', a), InHand' = 0 \/ InHand' = InHand
          PROVE  Window'
      <3>1. c + InHand' + a <= c + InHand + a
        BY ONLY <1>1, <2>h, SMTT(30) DEF InHand
      <3> QED
        BY <1>1, <2>g, <2>h, <3>1
    <2>1. CASE RxRequest \/ RxIgnore
      <3>1. /\ r2s' = r2s /\ InHand' = 0
            /\ (s2r # <<>> /\ s2r' = Tail(s2r)) \/ s2r' = s2r
        BY <1>0, <2>1 DEF RxRequest, RxIgnore, RxReceives, InHand, Rx
      <3> QED
        BY <1>r, <1>s, <2>h, <3>1
    <2>2. CASE RxReject \/ RxAccept \/ RxResumeQuery \/ RxModified
                 \/ RxMetadata \/ RxComplete \/ RxStopped
      <3>1. AtMost(Chunks', c)
        <4>1. (s2r # <<>> /\ s2r' = Tail(s2r)) \/ s2r' = s2r
          BY <2>2
          DEF RxReject, RxAccept, RxResumeQuery, RxModified, RxMetadata,
              RxComplete, RxStopped, RxReceives
        <4> QED
          BY <1>s, <4>1
      <3>2. InHand' = 0
        <4>1. [RxIdle EXCEPT !.pc = "main", !.peer = rx.peer].pc = "main"
          BY DEF RxIdle
        <4>2. rx'.pc \in {"main", "transfer", "file"}
          BY <1>0, <2>2, <4>1
          DEF RxReject, RxAccept, RxResumeQuery, RxModified, RxMetadata,
              RxComplete, RxStopped, EnterTransfer, Rx
        <4> QED
          BY <4>2 DEF InHand
      <3>3. AtMost(Acks', a)
        <4>1. ASSUME NEW m, r2s' = Deliver(r2s, m), m.type # "chunk_ack"
              PROVE  AtMost(Acks', a)
          <5>1. CASE conn = "up"
            <6>1. r2s' = Append(r2s, m) /\ r2s' \in Seq(RMsg)
              BY <1>0, <4>1, <5>1 DEF Deliver
            <6>2. m \in RMsg
              BY <1>0, <6>1, SMTT(30)
            <6> QED
              BY <1>8, <4>1, <6>2
          <5>2. CASE conn # "up"
            BY <1>r, <4>1, <5>2 DEF Deliver
          <5> QED
            BY <5>1, <5>2
        <4>2. (\E m : r2s' = Deliver(r2s, m) /\ m.type # "chunk_ack")
                \/ r2s' = r2s
          BY <2>2, SMTT(30)
          DEF RxReject, RxAccept, RxResumeQuery, RxModified, RxMetadata,
              RxComplete, RxStopped, SendToSender
        <4> QED
          BY <1>r, <4>1, <4>2
      <3> QED
        BY <2>h, <3>1, <3>2, <3>3
    <2>3. CASE RxPathRejected \/ RxJailed
      <3>1. rx' = rx /\ ((s2r # <<>> /\ s2r' = Tail(s2r)) \/ s2r' = s2r)
        BY <2>3 DEF RxPathRejected, RxJailed, RxReceives
      <3>2. Acks' = Acks
        <4> DEFINE e == [type |-> "error"]
                   n == [type |-> "meta_ack", accepted |-> FALSE]
                   y == [type |-> "meta_ack", accepted |-> TRUE]
        <4>1. /\ e \in RMsg /\ n \in RMsg /\ y \in RMsg
              /\ e.type # "chunk_ack" /\ n.type # "chunk_ack"
              /\ y.type # "chunk_ack"
          BY RMsgSent
        <4>3. r2s' \in {r2s, r2s \o <<e, n>>, r2s \o <<y, e>>}
          <5>1. CASE RxPathRejected
            BY <5>1 DEF RxPathRejected
          <5>2. CASE RxJailed
            BY <5>2 DEF RxJailed
          <5> QED
            BY <2>3, <5>1, <5>2
        <4> HIDE DEF e, n, y
        <4>2. \A p, q \in RMsg :
                p.type # "chunk_ack" /\ q.type # "chunk_ack"
                  => Count(r2s \o <<p, q>>, "chunk_ack") = Acks
          BY <1>0, TwoAppended, SMTT(30) DEF Acks
        <4>4. CASE r2s' = r2s
          BY <4>4 DEF Acks
        <4>5. CASE r2s' = r2s \o <<e, n>>
          BY <4>1, <4>2, <4>5 DEF Acks
        <4>6. CASE r2s' = r2s \o <<y, e>>
          BY <4>1, <4>2, <4>6 DEF Acks
        <4> QED
          BY <4>3, <4>4, <4>5, <4>6
      <3>3. InHand' = InHand
        BY <3>1 DEF InHand
      <3> QED
        BY <1>1, <1>s, <2>h, <3>1, <3>2, <3>3
    <2>4. CASE RxWriteChunk \/ RxDuplicate
      <3>1. /\ s2r # <<>> /\ s2r' = Tail(s2r) /\ Head(s2r).type = "chunk"
            /\ r2s' = r2s
        BY <2>4 DEF RxWriteChunk, RxDuplicate, NextChunk, RxReceives
      <3>2. c - 1 \in Nat /\ AtMost(Chunks', c - 1) /\ AtMost(Acks', a)
        BY <1>6, <1>r, <3>1
      <3>3. (c - 1) + InHand' + a <= c + InHand + a
        BY ONLY <1>1, <3>2, SMTT(30) DEF InHand
      <3> QED
        BY <1>1, <2>g, <3>2, <3>3
    <2>5. CASE RxSave \/ RxPublish
      <3>1. s2r' = s2r /\ r2s' = r2s /\ (InHand = 1 \/ InHand' = 0)
        BY <1>0, <2>5 DEF RxSave, RxPublish, net, InHand, Rx
      <3>2. InHand' = 0 \/ InHand' = InHand
        BY <1>3, <3>1, SMTT(30)
      <3> QED
        BY <1>r, <1>s, <2>h, <3>1, <3>2
    <2>6. CASE RxChunkAck
      <3>1. s2r' = s2r /\ rx.pc = "chunk_ack" /\ rx'.pc \in {"verify", "file"}
        BY <1>0, <2>6 DEF RxChunkAck, Rx
      <3>2. InHand = 1 /\ InHand' = 0
        BY <3>1 DEF InHand
      <3>3. [type |-> "chunk_ack", len |-> rx.chunk.len] \in RMsg
        BY <1>0, RMsgSent DEF Rx
      <3>4. AtMost(Acks', a + 1)
        BY <1>8, <2>6, <3>3 DEF RxChunkAck, SendToSender
      <3>5. a + 1 \in Nat /\ c + InHand' + (a + 1) <= c + InHand + a
        BY ONLY <1>1, <3>2, SMTT(30)
      <3> QED
        BY <1>1, <1>s, <2>g, <3>1, <3>4, <3>5
    <2> QED
      BY <1>15, <2>1, <2>2, <2>3, <2>4, <2>5, <2>6 DEF RxGoesOn
  <1> QED
    BY <1>9, <1>10, <1>11, <1>12, <1>13, <1>14, <1>15 DEF StepKind

(* The window accounting holds throughout.                                 *)
LEMMA WindowHolds == Spec => [](Counters /\ Window)
  <1>1. TypeOK /\ TypeOK' /\ Session /\ Counters /\ Window /\ [Next]_vars
          => Counters' /\ Window'
    <2> SUFFICES ASSUME TypeOK, TypeOK', Session, Counters, Window, [Next]_vars
                 PROVE  Counters' /\ Window'
      OBVIOUS
    <2>1. StepKind
      BY StepKinds
    <2> QED
      BY <2>1, CountersNext, WindowNext
  <1> QED
    BY <1>1, TypeCorrect, SessionHolds, CountersInit, WindowInit, PTL DEF Spec

(* The slots of the chunks, and behind them those of the acknowledgments.  *)
LEMMA AtMostBoth ==
    ASSUME NEW S, NEW Q, NEW c \in Nat, NEW a \in Nat, NEW n \in Nat,
           AtMost(S, c), AtMost(Q, a), c + a <= n
    PROVE  AtMost(({"chunk"} \X S) \cup ({"ack"} \X Q), n)
  <1>1. PICK f \in [S -> 1..c] : \A i, j \in S : f[i] = f[j] => i = j
    BY DEF AtMost
  <1>2. PICK g \in [Q -> 1..a] : \A i, j \in Q : g[i] = g[j] => i = j
    BY DEF AtMost
  <1> DEFINE U == ({"chunk"} \X S) \cup ({"ack"} \X Q)
             h == [p \in U |-> IF p[1] = "chunk" THEN f[p[2]] ELSE c + g[p[2]]]
  <1>3. \A p \in U : \/ p = <<"chunk", p[2]>> /\ p[1] = "chunk" /\ p[2] \in S
                     \/ p = <<"ack", p[2]>> /\ p[1] = "ack" /\ p[2] \in Q
    BY SMTT(30)
  <1> HIDE DEF U
  <1>4. \A p \in U : h[p] \in 1..n /\ (p[1] = "chunk" <=> h[p] <= c)
    BY <1>1, <1>2, <1>3, SMTT(30)
  <1>5. \A p, q \in U : h[p] = h[q] => p = q
    <2> SUFFICES ASSUME NEW p \in U, NEW q \in U, h[p] = h[q] PROVE p = q
      OBVIOUS
    <2>1. p[1] = q[1] /\ p[2] = q[2]
      BY <1>1, <1>2, <1>3, <1>4, SMTT(30)
    <2> QED
      BY <1>3, <2>1
  <1>6. h \in [U -> 1..n]
    BY <1>4
  <1> HIDE DEF h
  <1>7. AtMost(U, n)
    BY <1>5, <1>6 DEF AtMost
  <1> QED
    BY <1>7 DEF U

(* MAX_IN_FLIGHT bounds what the receiver may have to buffer, whatever is  *)
(* lost, duplicated by a resume, or left on a connection the sender gave   *)
(* up (WindowRespected; sender.rs stops sending when the count of          *)
(* unacknowledged chunks reaches the window).                              *)
THEOREM WindowTheorem == Spec => []WindowRespected
  <1>1. TypeOK /\ Counters /\ Window => WindowRespected
    <2> SUFFICES ASSUME TypeOK, Counters, Window PROVE WindowRespected
      OBVIOUS
    <2>1. PICK c \in Nat, a \in Nat :
            AtMost(Chunks, c) /\ AtMost(Acks, a) /\ c + InHand + a <= InFlight
      BY DEF Window
    <2>2. /\ tx.inflight \in Nat /\ MaxInFlight \in Nat
          /\ tx.inflight <= MaxInFlight
      BY ConstantsAssumption DEF TypeOK, TxTypeOK, Tx, Counters
    <2>3. InHand \in Nat
      BY DEF InHand
    <2>4. c + a <= MaxInFlight
      BY ONLY <2>1, <2>2, <2>3, SMTT(30) DEF InFlight
    <2> QED
      BY <2>1, <2>2, <2>4, AtMostBoth DEF WindowRespected, Chunks, Acks
  <1> QED
    BY <1>1, TypeCorrect, WindowHolds, PTL

-----------------------------------------------------------------------------
(* The file of the sender's attempt is at its final path.                  *)
Landed == \E f \in published : f.tid = tx.tid /\ f.sha = tx.ver

(* Not every chunk in flight has an acknowledgment on its way.             *)
FewAcks == \E a \in Nat : a < tx.inflight /\ AtMost(Acks, a)

(* Phases in which success depends on what the receiver did. *)
Delivered ==
    /\ tx.pc = "meta_ack" =>
         /\ Only(r2s, {"meta_ack", "error"})
         /\ \A m \in Frames(r2s) : m.type = "meta_ack" /\ m.accepted =>
              Single(r2s) /\ (rx.pc = "transfer" => Landed)
    /\ tx.pc \in {"stream", "transfer_ack"} /\ rx.pc = "transfer" => Landed
    /\ tx.pc = "stream" =>
         /\ Only(r2s, {"chunk_ack", "error"})
         /\ (\E m \in Frames(r2s) : m.type = "error")
              => rx.pc = "idle" /\ FewAcks
    /\ tx.pc = "transfer_ack" => r2s = <<>> \/ Landed
    /\ tx.pc = "closing" => Landed

(* No attempt is under way at first.                                       *)
LEMMA DeliveredInit == Init => Delivered
  BY IdleType DEF Init, Delivered

(* Files stay at their final path.                                         *)
LEMMA LandedStays ==
    ASSUME Landed, published \subseteq published', tx'.tid = tx.tid,
           tx'.ver = tx.ver
    PROVE  Landed'
  BY DEF Landed

(* When the sender counts nothing as in flight, nothing is.                *)
LEMMA NoneInFlight ==
    ASSUME TypeOK, Window, Active, tx.inflight = 0
    PROVE  Chunks = {} /\ Acks = {} /\ InHand = 0
  <1>1. PICK c \in Nat, a \in Nat :
          AtMost(Chunks, c) /\ AtMost(Acks, a) /\ c + InHand + a <= InFlight
    BY DEF Window
  <1>2. InFlight = 0 /\ InHand \in Nat
    BY DEF InFlight, InHand
  <1>3. c = 0 /\ a = 0 /\ InHand = 0
    BY ONLY <1>1, <1>2, SMTT(30)
  <1> QED
    BY <1>1, <1>3, AtMostNone

(* Once TRANSFER_COMPLETE is on its way no chunk is.                       *)
LEMMA NothingInFlight ==
    ASSUME TypeOK, Counters, Window, tx.pc = "transfer_ack"
    PROVE  /\ \A m \in Frames(s2r) : m.type # "chunk"
           /\ rx.pc \notin {"save", "chunk_ack"}
  <1>1. Chunks = {} /\ InHand = 0
    BY NoneInFlight DEF Active, Counters
  <1> QED
    BY <1>1, CountNone, SMTT(30) DEF TypeOK, NetTypeOK, InHand, Chunks

(* The sender's steps.  With nothing in flight no frame is left that could *)
(* be taken for TRANSFER_ACK: an ERROR stands for a chunk that was never   *)
(* acknowledged.                                                           *)
LEMMA DeliveredTx ==
    ASSUME TypeOK, TypeOK', Session, Window, Delivered, TxGoesOn
    PROVE  Delivered'
  <1>0. /\ s2r \in Seq(SMsg) /\ r2s \in Seq(RMsg) /\ r2s' \in Seq(RMsg)
        /\ tx \in Tx /\ rx \in Rx
    BY DEF TypeOK, NetTypeOK, TxTypeOK, RxTypeOK
  <1>1. /\ tx'.tid = tx.tid /\ tx'.ver = tx.ver /\ rx' = rx
        /\ published' = published
    BY <1>0, IdleType
    DEF TxGoesOn, TxAccepted, TxResumable, TxMetaAccepted, TxSkipChunk,
        TxSendChunk, TxChunkAck, TxComplete, TxTransferAck, Draining, Tx, disk
  <1>2. Landed' <=> Landed
    BY <1>1 DEF Landed
  <1>3. r2s # <<>> => /\ Head(r2s) \in Frames(r2s)
                      /\ Frames(Tail(r2s)) \subseteq Frames(r2s)
                      /\ Single(r2s) => Tail(r2s) = <<>>
    BY <1>0, HeadInRange
  <1>4. Frames(<<>>) = {}
    BY EmptyChannel
  <1>n. tx.inflight \in Nat
    BY <1>0 DEF Tx
  <1>5. CASE TxAccepted \/ TxResumable
    <2>1. /\ tx.pc \in {"accept", "status"} /\ tx'.pc = "meta_ack"
          /\ r2s # <<>> /\ r2s' = Tail(r2s)
      BY <1>0, <1>5 DEF TxAccepted, TxResumable, TxReceives, Tx
    <2>2. r2s' = <<>>
      BY <1>3, <2>1 DEF Session, PhaseAccept, PhaseStatus
    <2> QED
      BY <1>4, <2>1, <2>2 DEF Delivered, Only
  <1>6. CASE TxMetaAccepted
    <2>1. /\ tx.pc = "meta_ack" /\ tx'.pc = "stream" /\ r2s # <<>>
          /\ r2s' = Tail(r2s) /\ Head(r2s).type = "meta_ack" /\ Head(r2s).accepted
      BY <1>0, <1>6 DEF TxMetaAccepted, TxReceives, Tx
    <2>2. r2s' = <<>> /\ (rx.pc = "transfer" => Landed)
      BY <1>3, <2>1 DEF Delivered
    <2> QED
      BY <1>1, <1>2, <1>4, <2>1, <2>2 DEF Delivered, Only
  <1>7. CASE TxSkipChunk \/ TxSendChunk
    <2>1. /\ tx.pc = "stream" /\ tx'.pc = "stream" /\ r2s' = r2s
          /\ tx'.inflight \in {tx.inflight, tx.inflight + 1}
      BY <1>0, <1>7 DEF TxSkipChunk, TxSendChunk, Tx, net
    <2>2. FewAcks => FewAcks'
      BY <1>n, <2>1, SMTT(30) DEF FewAcks, Acks
    <2> QED
      BY <1>1, <1>2, <2>1, <2>2 DEF Delivered, Only
  <1>8. CASE TxChunkAck
    <2>1. tx.pc = "stream" /\ tx'.pc = "stream" /\ r2s # <<>> /\ r2s' = Tail(r2s)
      BY <1>0, <1>8 DEF TxChunkAck, Draining, Tx
    <2>2. \/ Head(r2s).type = "chunk_ack" /\ tx'.inflight = tx.inflight - 1
          \/ Head(r2s).type # "chunk_ack" /\ tx'.inflight = tx.inflight
      BY <1>0, <1>8 DEF TxChunkAck, TxReceives, Tx
    <2>3. ASSUME FewAcks PROVE FewAcks'
      <3>1. PICK a \in Nat : a < tx.inflight /\ AtMost(Acks, a)
        BY <2>3 DEF FewAcks
      <3>2. /\ AtMost(Acks', a)
            /\ Head(r2s).type = "chunk_ack"
                 => a - 1 \in Nat /\ AtMost(Acks', a - 1)
        BY <1>0, <2>1, <3>1, AtMostTail DEF Acks
      <3>3. CASE Head(r2s).type = "chunk_ack"
        <4>1. a - 1 < tx'.inflight
          BY <1>n, <2>2, <3>1, <3>3, SMTT(30)
        <4> QED
          BY <3>2, <3>3, <4>1 DEF FewAcks
      <3>4. CASE Head(r2s).type # "chunk_ack"
        BY <2>2, <3>1, <3>2, <3>4 DEF FewAcks
      <3> QED
        BY <3>3, <3>4
    <2>4. Frames(r2s') \subseteq Frames(r2s)
      BY <1>3, <2>1
    <2> QED
      BY <1>1, <1>2, <2>1, <2>3, <2>4 DEF Delivered, Only
  <1>9. CASE TxComplete
    <2>1. /\ tx.pc = "stream" /\ tx'.pc = "transfer_ack" /\ r2s' = r2s
          /\ tx.inflight = 0
      BY <1>0, <1>9 DEF TxComplete, Tx
    <2>2. Acks = {}
      BY <2>1, NoneInFlight DEF Active
    <2>3. \A m \in Frames(r2s) : m.type \in {"chunk_ack", "error"}
      BY <2>1 DEF Delivered, Only
    <2>4. \A m \in Frames(r2s) : m.type # "chunk_ack"
      BY <1>0, <2>2, CountNone DEF Acks
    <2>5. ASSUME NEW m \in Frames(r2s), m.type = "error" PROVE FALSE
      <3>1. FewAcks
        BY <2>1, <2>5 DEF Delivered
      <3> QED
        BY <2>1, <3>1, SMTT(30) DEF FewAcks
    <2>6. r2s = <<>>
      BY <1>3, <2>3, <2>4, <2>5
    <2> QED
      BY <1>1, <1>2, <2>1, <2>6 DEF Delivered
  <1>10. CASE TxTransferAck /\ tx'.pc = "closing"
    <2>1. tx.pc = "transfer_ack" /\ r2s # <<>>
      BY <1>10 DEF TxTransferAck
    <2> QED
      BY <1>2, <1>10, <2>1 DEF Delivered
  <1> QED
    BY <1>5, <1>6, <1>7, <1>8, <1>9, <1>10 DEF TxGoesOn

(* The receiver's steps: it is back from the file only when the file is    *)
(* published, and acknowledges TRANSFER_COMPLETE only then.                *)
LEMMA DeliveredRx ==
    ASSUME "jail" \notin Faults, TypeOK, TypeOK', Session, Counters, Window,
           SameTransfer, Delivered, RxGoesOn
    PROVE  Delivered'
  <1>0. /\ s2r \in Seq(SMsg) /\ r2s \in Seq(RMsg) /\ tx \in Tx /\ rx \in Rx
    BY DEF TypeOK, NetTypeOK, TxTypeOK, RxTypeOK
  <1>1. s2r # <<>> => Head(s2r) \in Frames(s2r)
    BY <1>0, HeadInRange
  <1>2. tx' = tx /\ published \subseteq published'
    BY DEF RxGoesOn, RxRequest, RxReject,
           RxAccept, RxResumeQuery, RxPathRejected, RxModified, RxJailed,
           RxMetadata, RxComplete, RxStopped, RxIgnore, RxWriteChunk,
           RxDuplicate, RxSave, RxChunkAck, RxPublish, disk
  <1>3. Landed => Landed'
    BY <1>2, LandedStays
  <1>4. Frames(<<>>) = {}
    BY EmptyChannel
  <1>g. ASSUME tx.pc \notin {"meta_ack", "stream", "transfer_ack"}
        PROVE  Delivered'
    BY <1>2, <1>3, <1>g DEF Delivered
  <1>f. ASSUME r2s' = r2s, rx' = rx \/ rx'.pc \notin {"idle", "transfer"},
               rx.pc # "idle"
        PROVE  Delivered'
    BY <1>2, <1>3, <1>f DEF Delivered, Only
  <1>5. CASE RxRequest \/ RxResumeQuery \/ RxStopped
    <2>1. s2r # <<>> /\ Head(s2r).type \in {"request", "query", "cancel", "close"}
      BY <1>5 DEF RxRequest, RxResumeQuery, RxStopped, RxReceives
    <2> QED
      BY <1>1, <1>g, <2>1 DEF Session, PhaseMeta, PhaseStream, PhaseAck, Only
  <1>6. CASE RxReject \/ RxAccept
    <2>1. rx.pc = "consent"
      BY <1>6 DEF RxReject, RxAccept
    <2> QED
      BY <1>g, <2>1 DEF Session, PhaseMeta, PhaseStream, PhaseAck, Receiving
  <1>m. ASSUME s2r # <<>>, Head(s2r).type = "meta", tx.pc = "meta_ack" => Delivered'
        PROVE  Delivered'
    BY <1>1, <1>g, <1>m DEF Session, PhaseStream, PhaseAck, Only
  <1>7. CASE RxPathRejected
    <2> DEFINE a == [type |-> "error"]
               b == [type |-> "meta_ack", accepted |-> FALSE]
    <2>1. /\ s2r # <<>> /\ Head(s2r).type = "meta" /\ rx' = rx
          /\ r2s' = IF conn = "up" THEN r2s \o <<a, b>> ELSE r2s
      BY <1>7 DEF RxPathRejected, RxReceives
    <2>2. a.type = "error" /\ b.type = "meta_ack" /\ ~b.accepted
      OBVIOUS
    <2>3. a \in RMsg /\ b \in RMsg
      BY RMsgSent
    <2> HIDE DEF a, b
    <2>4. tx.pc = "meta_ack" => r2s = <<>>
      BY <2>1 DEF Session, PhaseMeta
    <2>5. Frames(r2s') \subseteq Frames(r2s) \cup {a, b}
      <3>1. r2s \o <<a, b>> = Append(Append(r2s, a), b) /\ Append(r2s, a) \in Seq(RMsg)
        BY <1>0, <2>3, TwoAppended, SMTT(30)
      <3>2. Frames(Append(Append(r2s, a), b)) = Frames(r2s) \cup {a} \cup {b}
        <4>1. \A s \in Seq(RMsg), m \in RMsg :
                Frames(Append(s, m)) = Frames(s) \cup {m}
          BY AppendRange, SMTT(30)
        <4>2. Frames(Append(Append(r2s, a), b)) = Frames(Append(r2s, a)) \cup {b}
          BY <2>3, <3>1, <4>1
        <4>3. Frames(Append(r2s, a)) = Frames(r2s) \cup {a}
          BY <1>0, <2>3, <4>1
        <4> QED
          BY <4>2, <4>3
      <3> QED
        BY <2>1, <3>1, <3>2
    <2>6. tx.pc = "meta_ack" => Frames(r2s') \subseteq {a, b}
      BY <1>4, <2>4, <2>5
    <2>7. tx.pc = "meta_ack" => Delivered'
      BY <1>2, <2>2, <2>6 DEF Delivered, Only
    <2> QED
      BY <1>m, <2>1, <2>7
  <1>8. CASE RxModified
    <2> DEFINE b == [type |-> "meta_ack", accepted |-> FALSE]
    <2>1. s2r # <<>> /\ Head(s2r).type = "meta" /\ r2s' = Deliver(r2s, b)
      BY <1>8 DEF RxModified, RxReceives, SendToSender
    <2>2. b.type = "meta_ack" /\ ~b.accepted
      OBVIOUS
    <2> HIDE DEF b
    <2>3. tx.pc = "meta_ack" => r2s = <<>>
      BY <2>1 DEF Session, PhaseMeta
    <2>4. tx.pc = "meta_ack" => Frames(r2s') \subseteq {b}
      BY <1>0, <1>4, <2>1, <2>3, AnyDeliver
    <2>5. tx.pc = "meta_ack" => Delivered'
      BY <1>2, <2>2, <2>4 DEF Delivered, Only
    <2> QED
      BY <1>m, <2>1, <2>5
  <1>9. CASE RxMetadata
    <2> DEFINE b == [type |-> "meta_ack", accepted |-> TRUE]
    <2>1. s2r # <<>> /\ Head(s2r).type = "meta" /\ r2s' = Deliver(r2s, b)
      BY <1>9 DEF RxMetadata, RxReceives, SendToSender
    <2>2. b.type = "meta_ack" /\ b \in RMsg
      BY RMsgSent
    <2> HIDE DEF b
    <2>3. tx.pc = "meta_ack" => r2s = <<>>
      BY <2>1 DEF Session, PhaseMeta
    <2>4. tx.pc = "meta_ack" => Frames(r2s') \subseteq {b} /\ Single(r2s')
      BY <1>0, <1>4, <2>1, <2>2, <2>3, DeliverRange
    <2>5. rx.pc = "transfer" /\ (tx.pc = "meta_ack" => rx.tid = tx.tid)
            /\ (tx.pc = "meta_ack" => Head(s2r).sha = tx.ver)
      BY <1>1, <1>9, <2>1 DEF RxMetadata, SameTransfer, Active
    <2>6. tx.pc = "meta_ack" /\ rx'.pc = "transfer" => Landed'
      <3>1. CASE AlreadyReceived
        <4>1. Publication(part.data) \in published'
          BY <1>9, <3>1 DEF RxMetadata
        <4>2. /\ Publication(part.data).tid = rx.tid
              /\ Publication(part.data).sha = Head(s2r).sha
          BY DEF Publication
        <4> QED
          BY <1>2, <2>5, <4>1, <4>2 DEF Landed
      <3>2. CASE ~AlreadyReceived
        <4>1. rx'.pc = "file"
          BY <1>0, <1>9, <3>2 DEF RxMetadata, Rx
        <4> QED
          BY <4>1
      <3> QED
        BY <3>1, <3>2
    <2>7. tx.pc = "meta_ack" => Delivered'
      BY <1>2, <2>2, <2>4, <2>6 DEF Delivered, Only
    <2> QED
      BY <1>m, <2>1, <2>7
  <1>10. CASE RxComplete
    <2>1. /\ rx.pc = "transfer" /\ s2r # <<>> /\ Head(s2r).type = "complete"
          /\ rx'.pc = "main"
      BY <1>10 DEF RxComplete, RxReceives, RxIdle
    <2>2. tx.pc \notin {"meta_ack", "stream"}
      BY <1>1, <2>1 DEF Session, PhaseMeta, PhaseStream, Only
    <2>3. tx.pc = "transfer_ack" => Landed
      BY <2>1 DEF Delivered
    <2> QED
      BY <1>2, <1>3, <2>2, <2>3 DEF Delivered
  <1>11. CASE RxIgnore \/ RxWriteChunk \/ RxDuplicate \/ RxSave
    <2>1. /\ r2s' = r2s /\ rx.pc # "idle"
          /\ rx' = rx \/ rx'.pc \in {"save", "chunk_ack"}
      BY <1>0, <1>11
      DEF RxIgnore, RxWriteChunk, RxDuplicate, RxSave, NextChunk, Rx, net
    <2> QED
      BY <1>f, <2>1
  <1>12. CASE RxChunkAck
    <2> DEFINE m == [type |-> "chunk_ack", len |-> rx.chunk.len]
    <2>1. /\ rx.pc = "chunk_ack" /\ rx'.pc \in {"verify", "file"}
          /\ r2s' = Deliver(r2s, m)
      BY <1>0, <1>12 DEF RxChunkAck, SendToSender, Rx
    <2>2. m.type = "chunk_ack"
      OBVIOUS
    <2> HIDE DEF m
    <2>3. tx.pc # "meta_ack" /\ tx.pc # "transfer_ack"
      BY <2>1, NothingInFlight DEF Session, PhaseMeta
    <2>4. Frames(r2s') \subseteq Frames(r2s) \cup {m}
      BY <1>0, <2>1, AnyDeliver
    <2>5. tx.pc = "stream" => /\ Only(r2s', {"chunk_ack", "error"})
                              /\ \A q \in Frames(r2s') : q.type # "error"
      BY <2>1, <2>2, <2>4 DEF Delivered, Only
    <2> QED
      BY <1>2, <1>3, <2>1, <2>3, <2>5 DEF Delivered
  <1>13. CASE RxPublish
    <2>1. rx.pc = "verify" /\ rx'.pc = "transfer" /\ r2s' = r2s
      BY <1>0, <1>13 DEF RxPublish, Rx, net
    <2>2. tx.pc # "meta_ack"
      BY <2>1 DEF Session, PhaseMeta
    <2>3. Active => Landed'
      <3>1. [tid |-> rx.tid, sha |-> rx.sha, size |-> rx.size,
             content |-> part.data] \in published'
        BY <1>13 DEF RxPublish
      <3>2. Active => rx.tid = tx.tid /\ rx.sha = tx.ver
        BY <2>1 DEF SameTransfer, Receiving
      <3> QED
        BY <1>2, <3>1, <3>2 DEF Landed
    <2>4. tx.pc = "stream" => /\ Only(r2s, {"chunk_ack", "error"})
                              /\ \A q \in Frames(r2s) : q.type # "error"
      BY <2>1 DEF Delivered
    <2> QED
      BY <1>2, <2>1, <2>2, <2>3, <2>4 DEF Delivered, Active
  <1>14. ~RxJailed
    BY DEF RxJailed
  <1> QED
    BY <1>5, <1>6, <1>7, <1>8, <1>9, <1>10, <1>11, <1>12, <1>13, <1>14
    DEF RxGoesOn

(* The invariant behind the report is inductive, as long as no path is     *)
(* refused after its metadata was accepted.                                *)
LEMMA DeliveredNext ==
    ASSUME "jail" \notin Faults, TypeOK, TypeOK', Session, Counters, Window,
           SameTransfer, Delivered, StepKind
    PROVE  Delivered'
  <1>0. /\ s2r \in Seq(SMsg) /\ r2s \in Seq(RMsg) /\ r2s' \in Seq(RMsg)
        /\ tx \in Tx /\ rx \in Rx
    BY DEF TypeOK, NetTypeOK, TxTypeOK, RxTypeOK
  <1>i. RxIdle.pc = "idle" /\ TxIdle.pc = "idle"
    BY DEF RxIdle, TxIdle
  <1>n. ASSUME tx' = tx, Acks' \subseteq Acks PROVE FewAcks => FewAcks'
    BY <1>n, AtMostFewer DEF FewAcks
  <1>p. ASSUME r2s' \in Prefixes(r2s)
        PROVE  /\ Frames(r2s') \subseteq Frames(r2s)
               /\ Single(r2s) => Single(r2s')
               /\ r2s = <<>> => r2s' = <<>>
               /\ Acks' \subseteq Acks
    BY <1>0, <1>p, PrefixRange, CountPrefix DEF Acks
  <1>f. ASSUME tx' = tx, published' = published, rx' = rx \/ rx'.pc = "idle",
               r2s' \in Prefixes(r2s)
        PROVE  Delivered'
    <2>1. Landed' <=> Landed
      BY <1>f DEF Landed
    <2>2. FewAcks => FewAcks'
      BY <1>f, <1>n, <1>p
    <2> QED
      BY <1>f, <1>p, <2>1, <2>2 DEF Delivered, Only
  <1>1. CASE TxGone
    <2>1. tx'.pc \in {"idle", "redial"}
      BY <1>0, <1>i, <1>1 DEF TxGone, Tx
    <2> QED
      BY <2>1 DEF Delivered
  <1>2. CASE RxGone
    <2>0. /\ tx' = tx /\ published' = published /\ rx'.pc = "idle"
          /\ LastWord(r2s') /\ Acks' \subseteq Acks
      BY <1>0, <1>2, <1>i DEF RxGone, Acks
    <2>l. Landed' <=> Landed
      BY <2>0 DEF Landed
    <2>1. CASE r2s' \in Prefixes(r2s)
      BY <1>f, <2>0, <2>1
    <2>2. CASE r2s' \notin Prefixes(r2s)
      <3>1. PICK q \in Frames(s2r), m \in RMsg :
              /\ r2s' \in Prefixes(Append(r2s, m))
              /\ \/ q.type = "meta" /\ m.type = "meta_ack" /\ m.accepted
                 \/ q.type = "chunk" /\ m.type = "error" /\ rx.pc = "file"
                 \/ q.type = "close" /\ m.type = "close"
        BY <2>0, <2>2 DEF LastWord
      <3>2. /\ Append(r2s, m) \in Seq(RMsg)
            /\ Frames(Append(r2s, m)) = Frames(r2s) \cup {m}
            /\ r2s = <<>> => Single(Append(r2s, m))
        BY <1>0, <3>1, AppendRange, SMTT(30)
      <3>3. /\ Frames(r2s') \subseteq Frames(r2s) \cup {m}
            /\ r2s = <<>> => Single(r2s')
        BY <3>1, <3>2, PrefixRange
      <3>4. s2r # <<>>
        BY <3>1, EmptyChannel
      <3>5. CASE tx.pc = "meta_ack"
        <4>1. r2s = <<>> /\ m.type = "meta_ack"
          BY <3>1, <3>4, <3>5 DEF Session, PhaseMeta, Only
        <4>2. Frames(r2s') \subseteq {m} /\ Single(r2s')
          BY <3>3, <4>1, EmptyChannel
        <4> QED
          BY <2>0, <3>5, <4>1, <4>2 DEF Delivered, Only
      <3>6. CASE tx.pc = "stream"
        <4>1. q.type = "chunk" /\ m.type = "error"
          BY <3>1, <3>6 DEF Session, PhaseStream, Only
        <4>2. Chunks # {}
          BY <1>0, <3>1, <4>1, CountNone DEF Chunks
        <4>3. PICK c \in Nat, a \in Nat :
                AtMost(Chunks, c) /\ AtMost(Acks, a) /\ c + InHand + a <= InFlight
          BY DEF Window
        <4>4. c # 0 /\ InHand \in Nat /\ InFlight = tx.inflight /\ tx.inflight \in Nat
          BY <1>0, <3>6, <4>2, <4>3, AtMostNone DEF InFlight, InHand, Active, Tx
        <4>5. a < tx.inflight
          BY ONLY <4>3, <4>4, SMTT(30)
        <4>6. FewAcks'
          BY <1>n, <2>0, <4>3, <4>5 DEF FewAcks
        <4>7. Only(r2s', {"chunk_ack", "error"})
          BY <3>3, <3>6, <4>1 DEF Delivered, Only
        <4> QED
          BY <2>0, <3>6, <4>6, <4>7 DEF Delivered
      <3>7. CASE tx.pc = "transfer_ack"
        <4>1. q.type = "complete"
          BY <3>1, <3>7, NothingInFlight DEF Session, PhaseAck, Only
        <4> QED
          BY <3>1, <4>1
      <3>8. CASE tx.pc \notin {"meta_ack", "stream", "transfer_ack"}
        BY <2>0, <2>l, <3>8 DEF Delivered
      <3> QED
        BY <3>5, <3>6, <3>7, <3>8
    <2> QED
      BY <2>1, <2>2
  <1>3. CASE Dialled
    <2>1. tx'.pc \in {"accept", "status"}
      BY <1>3 DEF Dialled
    <2> QED
      BY <2>1 DEF Delivered
  <1>4. CASE ConnectionLost
    BY <1>4, <1>f DEF ConnectionLost, disk
  <1>5. CASE Quiet
    <2>1. tx' = tx /\ published' = published /\ rx' = rx /\ r2s' = r2s
      BY <1>5 DEF Quiet, net
    <2>2. Landed' <=> Landed
      BY <2>1 DEF Landed
    <2>3. FewAcks => FewAcks'
      BY <1>n, <2>1 DEF Acks
    <2> QED
      BY <2>1, <2>2, <2>3 DEF Delivered, Only
  <1> QED
    BY <1>1, <1>2, <1>3, <1>4, <1>5, DeliveredTx, DeliveredRx DEF StepKind

-----------------------------------------------------------------------------
(* What a version's bytes are, to the abstract specification.              *)
LEMMA WholeFile ==
    ASSUME NEW v \in Versions
    PROVE  /\ Size[v] \in Nat /\ Len(FileOf(v)) = Size[v]
           /\ [w \in Versions |-> FileOf(w)][v] = FileOf(v)
  <1>1. Size[v] \in Nat
    BY ConstantsAssumption
  <1> QED
    BY <1>1, BytesType DEF FileOf

(* A step of the abstract specification, or none.                          *)
DeliveryStep == Delivery!Next \/ UNCHANGED <<published, completed>>

(* Publishing the whole content of a version is a delivery.                *)
LEMMA DeliverOne ==
    ASSUME NEW t \in Tids, NEW v \in Versions,
           published' = published \cup
             {[tid |-> t, sha |-> v, size |-> Size[v], content |-> FileOf(v)]},
           completed' = completed
    PROVE  DeliveryStep
  <1>1. Delivery!Deliver(t, v)
    BY WholeFile DEF Delivery!Deliver
  <1> QED
    BY <1>1 DEF DeliveryStep, Delivery!Next

(* Every step publishes a verified file, reports one that is published, or *)
(* does neither.                                                           *)
LEMMA RefinementStep ==
    ASSUME TypeOK, HashedIsOnDisk, Delivered, [Next]_vars
    PROVE  DeliveryStep
  <1> USE DEF TypeOK
  <1>1. CASE RxPublish
    <2>1. /\ rx.pc = "verify" /\ HashMatches /\ SizeMatches
          /\ completed' = completed
          /\ published' = published \cup
               {[tid |-> rx.tid, sha |-> rx.sha, size |-> rx.size,
                 content |-> part.data]}
      BY <1>1 DEF RxPublish
    <2>2. rx.tid \in Tids /\ rx.sha \in Versions
      BY <2>1 DEF RxTypeOK, Rx
    <2>3. part.data = FileOf(rx.sha) /\ rx.size = Size[rx.sha]
      BY <2>1, <2>2, WholeFile
      DEF HashMatches, SizeMatches, Received, HashedIsOnDisk, Receiving
    <2> QED
      BY <2>1, <2>2, <2>3, DeliverOne
  <1>2. CASE RxMetadata
    <2>1. completed' = completed /\ rx.pc = "transfer" /\ s2r # <<>>
            /\ Head(s2r).type = "meta"
      BY <1>2 DEF RxMetadata, RxReceives
    <2>2. CASE ~AlreadyReceived
      BY <1>2, <2>1, <2>2 DEF RxMetadata, DeliveryStep
    <2>3. CASE AlreadyReceived
      <3> DEFINE v == Head(s2r).sha
      <3>1. rx.tid \in Tids /\ v \in Versions
        BY <2>1, TailType, SMsgFields DEF RxTypeOK, NetTypeOK
      <3>2. published' = published \cup {Publication(part.data)}
        BY <1>2, <2>3 DEF RxMetadata
      <3>3. part.data = FileOf(v) /\ Head(s2r).size = Size[v]
        BY <2>3, <3>1, WholeFile DEF AlreadyReceived
      <3>4. Publication(part.data)
              = [tid |-> rx.tid, sha |-> v, size |-> Size[v],
                 content |-> FileOf(v)]
        BY <3>3 DEF Publication
      <3> HIDE DEF v
      <3> QED
        BY <2>1, <3>1, <3>2, <3>4, DeliverOne
    <2> QED
      BY <2>2, <2>3
  <1>3. CASE TxClosed
    <2>1. /\ tx.pc = "closing" /\ published' = published
          /\ completed' = completed \cup {[tid |-> tx.tid, ver |-> tx.ver]}
      BY <1>3 DEF TxClosed, disk
    <2>2. PICK f \in published : f.tid = tx.tid /\ f.sha = tx.ver
      BY <2>1 DEF Delivered, Landed
    <2>3. Delivery!Report(f)
      BY <2>1, <2>2 DEF Delivery!Report
    <2> QED
      BY <2>3 DEF DeliveryStep, Delivery!Next
  <1>4. CASE TxStep /\ ~TxClosed
    BY <1>4
    DEF TxStep, TxAccepted, TxRejected, TxAcceptTimeout, TxResumable,
        TxNotResumable, TxMetaAccepted, TxMetaRefused, TxSkipChunk, TxSendChunk,
        TxChunkAck, TxComplete, TxTransferAck, TxReadError, disk, DeliveryStep
  <1>5. CASE RxStep /\ ~RxPublish /\ ~RxMetadata
    BY <1>5
    DEF RxStep, RxRequest, RxReject, RxAccept, RxResumeQuery, RxPathRejected,
        RxModified, RxJailed, RxOpenFails, RxComplete, RxCompleteFails,
        RxStopped, RxSessionClose, RxIgnore, RxBadChunk, RxMisplacedChunk,
        RxWriteChunk, RxWriteFails, RxDuplicate, RxSave, RxSaveFails,
        RxChunkAck, RxChunkAckFails, RxMismatch, RxCancelled, RxClosed,
        RxReadError, disk, DeliveryStep
  <1>6. CASE UserStep \/ (\E vs, v \in Versions : Redial(vs, v)) \/ EnvStep
               \/ UNCHANGED vars
    BY <1>6
    DEF UserStep, StartSend, StartResume, Redial, FreshSend, Dial, EnvStep,
        TxAbort, ConnectionLost, Expire, RxCrash, TxCrash, vars, disk,
        DeliveryStep
  <1> QED
    BY <1>1, <1>2, <1>3, <1>4, <1>5, <1>6 DEF Next

(* The two daemons implement FileDelivery: files appear whole, stay, and   *)
(* success is reported only for a file that is there (RefinesDelivery).    *)
(* The path jail is left out: it refuses a path with an ERROR after the    *)
(* metadata is accepted, and the sender of an empty file takes that ERROR  *)
(* for its TRANSFER_ACK and reports success (handler.rs:1193).             *)
THEOREM DeliveryRefined ==
    ASSUME "jail" \notin Faults
    PROVE  Spec => RefinesDelivery
  <1>1. TypeOK /\ TypeOK' /\ Session /\ Counters /\ Window /\ SameTransfer
          /\ Delivered /\ [Next]_vars => Delivered'
    BY StepKinds, DeliveredNext
  <1>2. Spec => []Delivered
    BY <1>1, TypeCorrect, SessionHolds, WindowHolds, SameHolds, DeliveredInit,
       PTL DEF Spec
  <1>3. Init => Delivery!Init
    BY DEF Init, Delivery!Init
  <1>4. TypeOK /\ HashedIsOnDisk /\ Delivered /\ [Next]_vars
          => [Delivery!Next]_<<published, completed>>
    BY RefinementStep DEF DeliveryStep
  <1> QED
    BY <1>2, <1>3, <1>4, TypeCorrect, HashCoversDisk, PTL
    DEF Spec, RefinesDelivery, Delivery!Spec

-----------------------------------------------------------------------------
(* Durability of what is acknowledged, for a fresh send.                   *)
FilePublished == \E f \in published : f.tid = tx.tid
Saved == tx.acked <= part.synced \/ FilePublished
NoAcks == \A m \in Frames(r2s) : m.type # "chunk_ack"
Up == conn = "up"

(* What the sender has or will have counted is synced, and is what was     *)
(* received but for the chunk at hand.                                     *)
Accounted ==
    \E b \in Nat :
        /\ AckTrail(r2s, tx.acked, b, Up) /\ b <= part.synced
        /\ rx.pc \notin {"save", "chunk_ack"} => b = Received
        /\ rx.pc \in {"save", "chunk_ack"} => b + rx.chunk.len = Received
        /\ rx.pc = "chunk_ack" => Received <= part.synced

(* In a fresh send the chunks on their way continue the .part without a    *)
(* gap, and the acknowledgments, read and unread, add up to bytes that are *)
(* synced; from TRANSFER_COMPLETE on the count itself is what is synced,   *)
(* or the file is published.                                               *)
Durable ==
    /\ rx.pc = "idle" => rx.tid = 0
    /\ ~tx.resume =>
         /\ tx.skip = 0
         /\ tx.pc = "meta_ack" => NoAcks /\ (rx.pc = "file" => Received = 0)
         /\ tx.pc = "stream" /\ Receiving
              => ChunkTrail(s2r, Received, tx.off, Up) /\ Accounted
         /\ tx.pc = "stream" /\ rx.pc = "transfer"
              => FilePublished \/ (tx.acked = 0 /\ NoAcks)
         /\ tx.pc = "transfer_ack" => rx.pc \in {"idle", "main"} \/ Saved

(* No send is under way at first.                                          *)
LEMMA DurableInit == Init => Durable
  BY IdleValues DEF Init, Durable

(* The sender's steps: it sends the next chunk, or counts an               *)
(* acknowledgment.                                                         *)
LEMMA DurableTx ==
    ASSUME TypeOK, TypeOK', Session, Counters, Durable, TxGoesOn
    PROVE  Durable'
  <1>0. /\ s2r \in Seq(SMsg) /\ r2s \in Seq(RMsg) /\ tx \in Tx /\ rx \in Rx
    BY DEF TypeOK, NetTypeOK, TxTypeOK, RxTypeOK
  <1>n. /\ tx.acked \in Nat /\ tx.off \in Nat /\ Received \in Nat
        /\ part.synced \in Nat
    <2>1. tx.acked \in Nat /\ tx.off \in Nat /\ Received \in Nat
      BY <1>0, SMTT(30) DEF Tx, Rx, Received
    <2>2. part.synced \in Nat
      BY DEF TypeOK, DiskTypeOK
    <2> QED
      BY <2>1, <2>2
  <1>1. /\ rx' = rx /\ part' = part /\ published' = published /\ conn' = conn
        /\ tx'.tid = tx.tid /\ tx'.resume = tx.resume
    BY <1>0, IdleType
    DEF TxGoesOn, TxAccepted, TxResumable, TxMetaAccepted, TxSkipChunk,
        TxSendChunk, TxChunkAck, TxComplete, TxTransferAck, Draining, Tx, disk,
        net
  <1>2. r2s # <<>> => /\ Head(r2s) \in Frames(r2s)
                      /\ Frames(Tail(r2s)) \subseteq Frames(r2s)
                      /\ Single(r2s) => Tail(r2s) = <<>>
    BY <1>0, HeadInRange
  <1>e. Frames(<<>>) = {}
    BY EmptyChannel
  <1>3. /\ Received' = Received /\ (FilePublished' <=> FilePublished)
        /\ (Receiving' <=> Receiving) /\ Up' = Up
    BY <1>1 DEF Received, FilePublished, Receiving, Up
  <1>r. CASE tx.resume
    BY <1>1, <1>r DEF Durable
  <1> SUFFICES ASSUME ~tx.resume PROVE Durable'
    BY <1>r
  <1>4. CASE TxAccepted
    <2>1. /\ tx.pc = "accept" /\ tx'.pc = "meta_ack" /\ tx'.skip = tx.skip
          /\ r2s # <<>> /\ r2s' = Tail(r2s) /\ Head(r2s).type = "accept"
      BY <1>0, <1>4 DEF TxAccepted, TxReceives, Tx
    <2>2. r2s' = <<>> /\ rx.pc \in {"idle", "transfer"}
      BY <1>2, <2>1 DEF Session, PhaseAccept
    <2> QED
      BY <1>1, <1>e, <2>1, <2>2 DEF Durable, NoAcks
  <1>5. ~TxResumable
    BY DEF TxResumable, Counters
  <1>6. CASE TxMetaAccepted
    <2>1. /\ tx.pc = "meta_ack" /\ tx'.pc = "stream" /\ tx'.skip = tx.skip
          /\ tx'.acked = 0 /\ tx'.off = tx.off /\ r2s # <<>>
          /\ r2s' = Tail(r2s) /\ s2r' = s2r
      BY <1>0, <1>6 DEF TxMetaAccepted, TxReceives, Tx
    <2>2. NoAcks' /\ s2r = <<>> /\ tx.off = 0
      BY <1>2, <2>1 DEF Session, PhaseMeta, Durable, NoAcks, Counters
    <2>3. ASSUME rx.pc = "file"
          PROVE  ChunkTrail(s2r', Received', tx'.off, Up') /\ Accounted'
      <3>1. Received = 0
        BY <2>1, <2>3 DEF Durable
      <3>2. ChunkTrail(<<>>, 0, 0, Up)
        <4>1. Along(<<>>, 0, [i \in 0..Len(<<>>) |-> 0])
          BY <1>e, AlongNothing, SMTT(30)
        <4>2. Len(<<>>) = 0 /\ [i \in 0..Len(<<>>) |-> 0][Len(<<>>)] = 0
          BY SMTT(30)
        <4>3. \A i \in 1..Len(<<>>) :
                <<>>[i].off = [j \in 0..Len(<<>>) |-> 0][i - 1]
          BY SMTT(30)
        <4> QED
          BY <4>1, <4>2, <4>3 DEF ChunkTrail
      <3>3. AckTrail(Tail(r2s), 0, 0, Up)
        <4> DEFINE s == Tail(r2s)
                   f == [i \in 0..Len(s) |-> 0]
        <4>1. s \in Seq(RMsg) /\ \A m \in Frames(s) : m.type # "chunk_ack"
          BY <1>0, <2>1, <2>2, TailType DEF NoAcks
        <4>2. \A m \in RMsg : m.type # "chunk"
          BY DEF RMsg
        <4>3. \A m \in Frames(s) : Weight(m) = 0
          <5>1. Frames(s) \subseteq RMsg
            BY <4>1, SMTT(30) DEF Frames
          <5> QED
            BY <4>1, <4>2, <5>1 DEF Weight
        <4>4. Along(s, 0, f)
          BY <4>1, <4>3, AlongNothing
        <4>5. Len(s) \in Nat
          BY <4>1, SMTT(30)
        <4> HIDE DEF s
        <4>6. f[Len(s)] = 0 /\ \A i \in 0..Len(s) : f[i] <= 0
          BY <4>5, SMTT(30)
        <4> HIDE DEF f
        <4>7. AckTrail(s, 0, 0, Up)
          BY <4>4, <4>6 DEF AckTrail
        <4> QED
          BY <4>7 DEF s
      <3>4. AckTrail(r2s', tx'.acked, 0, Up')
        BY <1>3, <2>1, <3>3
      <3>5. 0 <= part'.synced /\ 0 = Received' /\ rx'.pc = "file"
        BY <1>1, <1>3, <1>n, <2>3, <3>1, SMTT(30)
      <3>6. Accounted'
        BY <3>4, <3>5, SMTT(30) DEF Accounted
      <3> QED
        BY <1>3, <2>1, <2>2, <3>1, <3>2, <3>6
    <2>4. rx.pc \in {"idle", "transfer", "file"}
      BY <2>1 DEF Session, PhaseMeta
    <2> QED
      BY <1>1, <1>3, <2>1, <2>2, <2>3, <2>4 DEF Durable, Receiving
  <1>c. tx.off < Total => tx.off < ChunkEnd /\ ChunkEnd \in Nat
    BY <1>0, <1>n, ConstantsAssumption, SMTT(30) DEF ChunkEnd, Total, Tx
  <1>7. ~TxSkipChunk
    <2>1. TxSkipChunk => ChunkEnd <= 0 /\ tx.off < Total
      BY DEF TxSkipChunk, ShouldSkip, Durable
    <2> QED
      BY <1>c, <1>n, <2>1, SMTT(30)
  <1>8. CASE TxSendChunk
    <2>1. /\ tx.pc = "stream" /\ tx'.pc = "stream" /\ tx'.skip = tx.skip
          /\ tx'.acked = tx.acked /\ tx'.off = ChunkEnd /\ r2s' = r2s
          /\ tx.off < Total
      BY <1>0, <1>8 DEF TxSendChunk, Tx
    <2>2. PICK m : /\ s2r' = Deliver(s2r, m) /\ m.type = "chunk"
                   /\ m.off = tx.off /\ m.len = ChunkEnd - tx.off
      BY <1>8, SMTT(30) DEF TxSendChunk, SendToReceiver
    <2>3. Weight(m) = ChunkEnd - tx.off /\ Weight(m) \in Nat
      BY <1>c, <1>n, <2>1, <2>2, SMTT(30) DEF Weight
    <2>4. s2r \in Seq(SMsg \cup {m}) /\ m \in SMsg \cup {m}
      BY <1>0, MoreFrames
    <2>5. ChunkTrail(s2r, Received, tx.off, Up)
            => ChunkTrail(s2r', Received', tx'.off, Up')
      <3>1. CASE conn = "up"
        <4>1. Up = TRUE /\ s2r' = Append(s2r, m)
          BY <2>2, <3>1 DEF Deliver, Up
        <4>2. ChunkTrail(s2r, Received, tx.off, TRUE)
                => ChunkTrail(Append(s2r, m), Received, tx.off + Weight(m), TRUE)
          BY <1>n, <2>2, <2>3, <2>4, ChunkTrailSend
        <4>3. tx.off + Weight(m) = tx'.off
          BY <1>c, <1>n, <2>1, <2>3, SMTT(30)
        <4>4. Up' = TRUE
          BY <1>1, <3>1 DEF Up
        <4> QED
          BY <1>3, <4>1, <4>2, <4>3, <4>4
      <3>2. CASE conn # "up"
        <4>1. Up = FALSE /\ s2r' = s2r /\ Up' = FALSE
          BY <1>1, <2>2, <3>2 DEF Deliver, Up
        <4>2. s2r \in Prefixes(s2r)
          BY <1>0, WholeIsPrefix
        <4>3. ChunkTrail(s2r, Received, tx.off, Up)
                => ChunkTrail(s2r, Received, tx'.off, FALSE)
          BY <1>0, <1>n, <4>2, ChunkTrailCut
        <4> QED
          BY <1>3, <4>1, <4>3
      <3> QED
        BY <3>1, <3>2
    <2>6. Accounted => Accounted'
      BY <1>1, <1>3, <2>1 DEF Accounted, Up
    <2>7. NoAcks => NoAcks'
      BY <2>1 DEF NoAcks
    <2> QED
      BY <1>1, <1>3, <2>1, <2>5, <2>6, <2>7 DEF Durable
  <1>9. CASE TxChunkAck
    <2>1. /\ tx.pc = "stream" /\ tx'.pc = "stream" /\ tx'.skip = tx.skip
          /\ tx'.off = tx.off /\ s2r' = s2r /\ r2s # <<>> /\ r2s' = Tail(r2s)
      BY <1>0, <1>9 DEF TxChunkAck, Draining, Tx
    <2>2. tx'.acked = tx.acked + Weight(Head(r2s))
      <3>1. Head(r2s) \in RMsg
        BY <1>0, <2>1, TailType
      <3>2. Head(r2s).type # "chunk"
        BY <3>1 DEF RMsg
      <3>3. CASE Head(r2s).type = "chunk_ack"
        BY <1>0, <1>9, <2>1, <3>3 DEF TxChunkAck, TxReceives, Tx, Weight
      <3>4. CASE Head(r2s).type # "chunk_ack"
        <4>1. tx' = tx /\ Weight(Head(r2s)) = 0
          BY <1>9, <3>2, <3>4 DEF TxChunkAck, TxReceives, Weight
        <4> QED
          BY <1>n, <4>1, SMTT(30)
      <3> QED
        BY <3>3, <3>4
    <2>3. Accounted => Accounted'
      <3> SUFFICES ASSUME Accounted PROVE Accounted'
        OBVIOUS
      <3>1. PICK b \in Nat :
              /\ AckTrail(r2s, tx.acked, b, Up) /\ b <= part.synced
              /\ rx.pc \notin {"save", "chunk_ack"} => b = Received
              /\ rx.pc \in {"save", "chunk_ack"} => b + rx.chunk.len = Received
              /\ rx.pc = "chunk_ack" => Received <= part.synced
        BY DEF Accounted
      <3>2. AckTrail(Tail(r2s), tx.acked + Weight(Head(r2s)), b, Up)
        BY <1>0, <1>n, <2>1, <3>1, AckTrailTail
      <3>3. AckTrail(r2s', tx'.acked, b, Up')
        BY <1>3, <2>1, <2>2, <3>2
      <3> QED
        BY <1>1, <1>3, <3>1, <3>3 DEF Accounted
    <2>4. ChunkTrail(s2r, Received, tx.off, Up)
            => ChunkTrail(s2r', Received', tx'.off, Up')
      BY <1>3, <2>1
    <2>5. tx.acked = 0 /\ NoAcks => tx'.acked = 0 /\ NoAcks'
      <3> SUFFICES ASSUME tx.acked = 0, NoAcks PROVE tx'.acked = 0 /\ NoAcks'
        OBVIOUS
      <3>1. Head(r2s).type # "chunk_ack"
        BY <1>2, <2>1 DEF NoAcks
      <3>2. tx' = tx
        BY <1>9, <3>1 DEF TxChunkAck, TxReceives
      <3>3. NoAcks'
        BY <1>2, <2>1 DEF NoAcks
      <3> QED
        BY <3>2, <3>3
    <2> QED
      BY <1>1, <1>3, <2>1, <2>3, <2>4, <2>5 DEF Durable
  <1>10. CASE TxComplete
    <2>1. /\ tx.pc = "stream" /\ tx'.pc = "transfer_ack" /\ tx'.skip = tx.skip
          /\ tx'.acked = tx.acked
      BY <1>0, <1>10 DEF TxComplete, Tx
    <2>2. Receiving => tx.acked <= part.synced
      <3> SUFFICES ASSUME Receiving PROVE tx.acked <= part.synced
        OBVIOUS
      <3>1. PICK b \in Nat : AckTrail(r2s, tx.acked, b, Up) /\ b <= part.synced
        BY <2>1 DEF Durable, Accounted
      <3>2. tx.acked <= b
        BY <1>0, <1>n, <3>1, AckTrailStart
      <3> QED
        BY <1>n, <3>1, <3>2, SMTT(30)
    <2>3. rx.pc = "transfer" => FilePublished \/ tx.acked <= part.synced
      BY <1>n, <2>1, SMTT(30) DEF Durable
    <2>4. rx.pc \in {"idle", "transfer"} \/ Receiving
      BY <2>1 DEF Session, PhaseStream
    <2>5. rx.pc = "idle" \/ Saved'
      BY <1>1, <1>3, <2>1, <2>2, <2>3, <2>4 DEF Saved
    <2> QED
      BY <1>1, <2>1, <2>5 DEF Durable
  <1>11. CASE TxTransferAck /\ tx'.pc = "closing"
    <2>1. tx'.skip = tx.skip
      BY <1>0, <1>11, Closing DEF Tx
    <2> QED
      BY <1>1, <1>11, <2>1 DEF Durable
  <1> QED
    BY <1>4, <1>5, <1>6, <1>7, <1>8, <1>9, <1>10, <1>11 DEF TxGoesOn

(* The receiver's steps: it takes a chunk, syncs it, and only then         *)
(* acknowledges it.  A chunk is never a duplicate in a fresh send.         *)
LEMMA DurableRx ==
    ASSUME TypeOK, TypeOK', Session, Counters, Window, SameTransfer, Progress,
           HashedIsOnDisk, Durable, RxGoesOn
    PROVE  Durable'
  <1>0. /\ s2r \in Seq(SMsg) /\ r2s \in Seq(RMsg) /\ tx \in Tx /\ rx \in Rx
    BY DEF TypeOK, NetTypeOK, TxTypeOK, RxTypeOK
  <1>n. /\ tx.acked \in Nat /\ Received \in Nat /\ rx.chunk.len \in Nat
        /\ part.synced \in Nat
    <2>1. tx.acked \in Nat /\ Received \in Nat /\ rx.chunk.len \in Nat
      BY <1>0, SMTT(30) DEF Tx, Rx, Received
    <2>2. part.synced \in Nat
      BY DEF TypeOK, DiskTypeOK
    <2> QED
      BY <2>1, <2>2
  <1>1. /\ tx' = tx /\ conn' = conn /\ published \subseteq published'
        /\ rx.pc # "idle"
    BY DEF RxGoesOn, RxRequest, RxReject,
           RxAccept, RxResumeQuery, RxPathRejected, RxModified, RxJailed,
           RxMetadata, RxComplete, RxStopped, RxIgnore, RxWriteChunk,
           RxDuplicate, RxSave, RxChunkAck, RxPublish, NextChunk, disk, net
  <1>2. s2r # <<>> => Head(s2r) \in Frames(s2r)
    BY <1>0, HeadInRange
  <1>3. (FilePublished => FilePublished') /\ Up' = Up
    BY <1>1 DEF FilePublished, Up
  <1>g. ASSUME rx'.pc # "idle",
               tx.pc \notin {"meta_ack", "stream", "transfer_ack"}
        PROVE  Durable'
    BY <1>1, <1>g DEF Durable
  <1>r. ASSUME rx'.pc # "idle", tx.resume
        PROVE  Durable'
    BY <1>1, <1>r DEF Durable
  <1>4. CASE RxRequest \/ RxResumeQuery \/ RxStopped
    <2>1. s2r # <<>> /\ Head(s2r).type \in {"request", "query", "cancel", "close"}
      BY <1>4 DEF RxRequest, RxResumeQuery, RxStopped, RxReceives
    <2>2. rx'.pc # "idle"
      BY <1>0, <1>1, <1>4
      DEF RxRequest, RxResumeQuery, RxStopped, EnterTransfer, Rx, RxIdle
    <2> QED
      BY <1>2, <1>g, <2>1, <2>2 DEF Session, PhaseMeta, PhaseStream, PhaseAck, Only
  <1>5. CASE RxReject \/ RxAccept
    <2>1. rx.pc = "consent" /\ rx'.pc # "idle"
      BY <1>0, <1>5 DEF RxReject, RxAccept, EnterTransfer, Rx
    <2> QED
      BY <1>g, <2>1 DEF Session, PhaseMeta, PhaseStream, PhaseAck, Receiving
  <1>m. ASSUME s2r # <<>>, Head(s2r).type = "meta", rx'.pc # "idle",
               tx.pc = "meta_ack" => NoAcks',
               tx.pc = "meta_ack" /\ ~tx.resume /\ rx'.pc = "file" => Received' = 0
        PROVE  Durable'
    <2>1. tx.pc \notin {"stream", "transfer_ack"}
      BY <1>2, <1>m DEF Session, PhaseStream, PhaseAck, Only
    <2> QED
      BY <1>1, <1>m, <2>1 DEF Durable
  <1>6. CASE RxPathRejected \/ RxJailed
    <2>1. /\ s2r # <<>> /\ Head(s2r).type = "meta" /\ rx' = rx /\ rx.pc = "transfer"
      BY <1>6 DEF RxPathRejected, RxJailed, RxReceives
    <2>2. PICK a \in RMsg, b \in RMsg :
            /\ r2s' = IF conn = "up" THEN r2s \o <<a, b>> ELSE r2s
            /\ a.type # "chunk_ack" /\ b.type # "chunk_ack"
      <3>1. CASE RxPathRejected
        BY <3>1, RMsgSent DEF RxPathRejected
      <3>2. CASE RxJailed
        BY <3>2, RMsgSent DEF RxJailed
      <3> QED
        BY <1>6, <3>1, <3>2
    <2>3. tx.pc = "meta_ack" => NoAcks'
      <3> SUFFICES ASSUME tx.pc = "meta_ack" PROVE NoAcks'
        OBVIOUS
      <3>1. r2s = <<>>
        BY <2>1 DEF Session, PhaseMeta
      <3>2. Count(r2s', "chunk_ack") = {}
        <4>1. Count(r2s, "chunk_ack") = {}
          BY <3>1, CountEmpty
        <4>2. Count(r2s \o <<a, b>>, "chunk_ack") = Count(r2s, "chunk_ack")
          BY <1>0, <2>2, TwoAppended, SMTT(30)
        <4> QED
          BY <2>2, <4>1, <4>2
      <3>3. r2s' \in Seq(RMsg)
        BY DEF TypeOK, NetTypeOK
      <3> QED
        BY <3>2, <3>3, CountNone DEF NoAcks
    <2> QED
      BY <1>1, <1>m, <2>1, <2>3
  <1>7. CASE RxModified \/ RxMetadata
    <2>1. /\ s2r # <<>> /\ Head(s2r).type = "meta" /\ rx.pc = "transfer"
          /\ rx'.pc \in {"transfer", "file"}
      BY <1>0, <1>7 DEF RxModified, RxMetadata, RxReceives, Rx
    <2>2. PICK m : r2s' = Deliver(r2s, m) /\ m.type = "meta_ack"
      BY <1>7, SMTT(30) DEF RxModified, RxMetadata, SendToSender
    <2>3. tx.pc = "meta_ack" => NoAcks'
      <3> SUFFICES ASSUME tx.pc = "meta_ack" PROVE NoAcks'
        OBVIOUS
      <3>1. r2s = <<>>
        BY <2>1 DEF Session, PhaseMeta
      <3>2. Frames(r2s') \subseteq {m}
        BY <1>0, <2>2, <3>1, AnyDeliver, EmptyChannel
      <3> QED
        BY <2>2, <3>2 DEF NoAcks
    <2>4. tx.pc = "meta_ack" /\ ~tx.resume /\ rx'.pc = "file" => Received' = 0
      <3> SUFFICES ASSUME tx.pc = "meta_ack", ~tx.resume, rx'.pc = "file"
                   PROVE  Received' = 0
        OBVIOUS
      <3>1. RxMetadata
        BY <1>0, <1>7, <2>1 DEF RxModified, Rx
      <3>2. rx.mem.received = 0
        <4>1. rx.mem.received <= tx.skip /\ tx.skip = 0
          BY <2>1 DEF Progress, Durable
        <4>2. rx.mem.received \in Nat
          BY <1>0 DEF Rx, Journal
        <4> QED
          BY <4>1, <4>2, SMTT(30)
      <3>3. ~AppendsToPart /\ ~AlreadyReceived
        BY <3>2, SMTT(30) DEF AppendsToPart, HasPartial, AlreadyReceived
      <3>4. part' = [NoPart EXCEPT !.exists = TRUE] /\ rx'.hashed = part'.data
        BY <1>0, <3>1, <3>3 DEF RxMetadata, SeedHasher, Rx
      <3>5. part'.data = <<>>
        BY <3>4 DEF NoPart
      <3> QED
        BY <3>4, <3>5, SMTT(30) DEF Received
    <2> QED
      BY <1>m, <2>1, <2>2, <2>3, <2>4
  <1>8. CASE RxComplete
    <2>1. /\ s2r # <<>> /\ Head(s2r).type = "complete" /\ rx'.pc = "main"
      BY <1>8 DEF RxComplete, RxReceives, RxIdle
    <2>2. tx.pc \notin {"meta_ack", "stream"}
      BY <1>2, <2>1 DEF Session, PhaseMeta, PhaseStream, Only
    <2> QED
      BY <1>1, <2>1, <2>2 DEF Durable
  <1>9. CASE RxIgnore
    <2>1. /\ rx' = rx /\ r2s' = r2s /\ s2r # <<>> /\ part' = part
          /\ rx.pc = "file" => Head(s2r).type # "chunk"
          /\ Receiving => rx.pc = "file"
      BY <1>9 DEF RxIgnore, disk, Receiving
    <2>2. tx.pc = "stream" => ~Receiving
      BY <1>2, <2>1 DEF Session, PhaseStream, Only
    <2>3. Received' = Received /\ (NoAcks => NoAcks') /\ (Receiving' <=> Receiving)
      BY <2>1 DEF Received, NoAcks, Receiving
    <2>4. Saved => Saved'
      BY <1>1, <1>3, <2>1 DEF Saved
    <2> QED
      BY <1>1, <1>3, <2>1, <2>2, <2>3, <2>4 DEF Durable
  <1>10. CASE RxWriteChunk \/ RxDuplicate
    <2>1. /\ rx.pc = "file" /\ rx'.pc \in {"save", "chunk_ack"}
          /\ s2r # <<>> /\ Head(s2r).type = "chunk"
          /\ s2r' = Tail(s2r) /\ r2s' = r2s
      BY <1>0, <1>10 DEF RxWriteChunk, RxDuplicate, NextChunk, RxReceives, Rx
    <2>2. tx.pc \notin {"meta_ack", "transfer_ack"}
      BY <1>2, <2>1, NothingInFlight DEF Session, PhaseMeta, Only
    <2>3. CASE tx.pc # "stream" \/ tx.resume
      BY <1>g, <1>r, <2>1, <2>2, <2>3
    <2>4. CASE tx.pc = "stream" /\ ~tx.resume
      <3>1. ChunkTrail(s2r, Received, tx.off, Up) /\ Accounted
        BY <2>1, <2>4 DEF Durable, Receiving
      <3>2. /\ Head(s2r).off = Received
            /\ ChunkTrail(Tail(s2r), Received + Weight(Head(s2r)), tx.off, Up)
        BY <1>0, <1>n, <2>1, <3>1, ChunkTrailTail
      <3>3. /\ Head(s2r).len \in Nat /\ Head(s2r).ver \in Versions
            /\ Head(s2r).off \in Nat
        BY <1>0, <2>1, TailType, SMsgFields
      <3>4. ~RxDuplicate
        BY <1>n, <3>2, SMTT(30) DEF RxDuplicate, Duplicate
      <3>5. /\ rx'.hashed = rx.hashed \o ChunkData /\ rx'.pc = "save"
            /\ rx'.chunk = Handling /\ part'.synced = part.synced
        BY <1>0, <1>10, <3>4 DEF RxWriteChunk, Rx, TypeOK, DiskTypeOK
      <3>6. Received' = Received + Head(s2r).len
        <4>1. ChunkData \in Seq(Byte) /\ Len(ChunkData) = Head(s2r).len
          BY <3>3, BytesType DEF ChunkData
        <4>2. rx.hashed \in Seq(Byte)
          BY <1>0 DEF Rx
        <4>3. rx'.hashed = rx.hashed \o ChunkData
          BY <3>5
        <4>4. Len(rx.hashed \o ChunkData) = Len(rx.hashed) + Len(ChunkData)
          BY ONLY <4>1, <4>2, SMTT(30)
        <4> QED
          BY <4>1, <4>3, <4>4 DEF Received
      <3>7. ChunkTrail(s2r', Received', tx'.off, Up')
        <4>1. Weight(Head(s2r)) = Head(s2r).len
          BY <2>1 DEF Weight
        <4> QED
          BY <1>1, <1>3, <2>1, <3>2, <3>6, <4>1
      <3>8. Accounted'
        <4>1. PICK b \in Nat : /\ AckTrail(r2s, tx.acked, b, Up)
                               /\ b <= part.synced /\ b = Received
          BY <2>1, <3>1 DEF Accounted
        <4>2. AckTrail(r2s', tx'.acked, b, Up')
          BY <1>1, <1>3, <2>1, <4>1
        <4>3. rx'.chunk.len = Head(s2r).len
          BY <3>5, SMTT(30) DEF Handling
        <4>4. b + rx'.chunk.len = Received' /\ b <= part'.synced
          BY <3>5, <3>6, <4>1, <4>3
        <4> QED
          BY <3>5, <4>2, <4>4 DEF Accounted
      <3> QED
        BY <1>1, <2>1, <2>4, <3>5, <3>7, <3>8 DEF Durable
    <2> QED
      BY <2>3, <2>4
  <1>11. CASE RxSave
    <2>1. /\ rx.pc = "save" /\ rx'.pc = "chunk_ack" /\ rx'.hashed = rx.hashed
          /\ rx'.chunk = rx.chunk /\ s2r' = s2r /\ r2s' = r2s
          /\ part'.synced = Len(part.data)
      BY <1>0, <1>11 DEF RxSave, Rx, net, TypeOK, DiskTypeOK
    <2>2. tx.pc \notin {"meta_ack", "transfer_ack"}
      BY <2>1, NothingInFlight DEF Session, PhaseMeta
    <2>3. CASE tx.pc # "stream" \/ tx.resume
      BY <1>g, <1>r, <2>1, <2>2, <2>3
    <2>4. CASE tx.pc = "stream" /\ ~tx.resume
      <3>1. ChunkTrail(s2r, Received, tx.off, Up) /\ Accounted
        BY <2>1, <2>4 DEF Durable, Receiving
      <3>2. Received' = Received /\ part'.synced = Received
        BY <2>1 DEF Received, HashedIsOnDisk, Receiving
      <3>3. ChunkTrail(s2r', Received', tx'.off, Up')
        BY <1>1, <1>3, <2>1, <3>1, <3>2
      <3>4. PICK b \in Nat : /\ AckTrail(r2s, tx.acked, b, Up)
                             /\ b + rx.chunk.len = Received
        BY <2>1, <3>1 DEF Accounted
      <3>5. AckTrail(r2s', tx'.acked, b, Up')
        BY <1>1, <1>3, <2>1, <3>4
      <3>6. /\ b <= part'.synced /\ b + rx'.chunk.len = Received'
            /\ Received' <= part'.synced
        BY <1>n, <2>1, <3>2, <3>4, SMTT(30)
      <3>7. Accounted'
        BY <2>1, <3>5, <3>6 DEF Accounted
      <3> QED
        BY <1>1, <2>1, <2>4, <3>3, <3>7 DEF Durable
    <2> QED
      BY <2>3, <2>4
  <1>12. CASE RxChunkAck
    <2> DEFINE m == [type |-> "chunk_ack", len |-> rx.chunk.len]
    <2>1. /\ rx.pc = "chunk_ack" /\ rx'.pc \in {"verify", "file"}
          /\ rx'.hashed = rx.hashed /\ s2r' = s2r /\ part' = part
          /\ r2s' = Deliver(r2s, m)
      BY <1>0, <1>12 DEF RxChunkAck, SendToSender, Rx, disk
    <2>m. m \in RMsg /\ Weight(m) = rx.chunk.len
      BY <1>n, RMsgSent DEF Weight
    <2> HIDE DEF m
    <2>2. tx.pc \notin {"meta_ack", "transfer_ack"}
      BY <2>1, NothingInFlight DEF Session, PhaseMeta
    <2>3. CASE tx.pc # "stream" \/ tx.resume
      BY <1>g, <1>r, <2>1, <2>2, <2>3
    <2>4. CASE tx.pc = "stream" /\ ~tx.resume
      <3>1. ChunkTrail(s2r, Received, tx.off, Up) /\ Accounted
        BY <2>1, <2>4 DEF Durable, Receiving
      <3>2. Received' = Received
        BY <2>1 DEF Received
      <3>3. ChunkTrail(s2r', Received', tx'.off, Up')
        BY <1>1, <1>3, <2>1, <3>1, <3>2
      <3>4. PICK b \in Nat : /\ AckTrail(r2s, tx.acked, b, Up)
                             /\ b + rx.chunk.len = Received
                             /\ Received <= part.synced
        BY <2>1, <3>1 DEF Accounted
      <3>5. AckTrail(r2s', tx'.acked, b + rx.chunk.len, Up')
        <4>1. CASE conn = "up"
          <5>1. Up = TRUE /\ r2s' = Append(r2s, m)
            BY <2>1, <4>1 DEF Up, Deliver
          <5>2. AckTrail(Append(r2s, m), tx.acked, b + Weight(m), TRUE)
            BY <1>0, <1>n, <2>m, <3>4, <5>1, AckTrailSend
          <5> QED
            BY <1>1, <1>3, <2>m, <5>1, <5>2
        <4>2. CASE conn # "up"
          <5>1. Up = FALSE /\ r2s' = r2s
            BY <2>1, <4>2 DEF Up, Deliver
          <5>2. r2s \in Prefixes(r2s) /\ b + rx.chunk.len \in Nat
                  /\ b <= b + rx.chunk.len
            BY <1>0, <1>n, WholeIsPrefix, SMTT(30)
          <5>3. AckTrail(r2s, tx.acked, b + rx.chunk.len, FALSE)
            BY <1>0, <1>n, <3>4, <5>2, AckTrailCut
          <5> QED
            BY <1>1, <1>3, <5>1, <5>3
        <4> QED
          BY <4>1, <4>2
      <3>6. Accounted'
        <4>1. /\ b + rx.chunk.len \in Nat /\ b + rx.chunk.len = Received'
              /\ b + rx.chunk.len <= part'.synced
          BY <1>n, <2>1, <3>2, <3>4
        <4> QED
          BY <2>1, <3>5, <4>1 DEF Accounted
      <3> QED
        BY <1>1, <2>1, <2>4, <3>3, <3>6 DEF Durable
    <2> QED
      BY <2>3, <2>4
  <1>13. CASE RxPublish
    <2>1. rx.pc = "verify" /\ rx'.pc = "transfer"
      BY <1>0, <1>13 DEF RxPublish, Rx
    <2>2. tx.pc # "meta_ack"
      BY <2>1 DEF Session, PhaseMeta
    <2>3. Active => FilePublished'
      <3>1. [tid |-> rx.tid, sha |-> rx.sha, size |-> rx.size,
             content |-> part.data] \in published'
        BY <1>13 DEF RxPublish
      <3>2. Active => rx.tid = tx.tid
        BY <2>1 DEF SameTransfer
      <3> QED
        BY <1>1, <3>1, <3>2 DEF FilePublished
    <2>4. Active => Saved'
      BY <2>3 DEF Saved
    <2> QED
      BY <1>1, <2>1, <2>2, <2>3, <2>4 DEF Durable, Active, Receiving
  <1> QED
    BY <1>4, <1>5, <1>6, <1>7, <1>8, <1>9, <1>10, <1>11, <1>12, <1>13
    DEF RxGoesOn

(* The durability invariant is inductive.                                  *)
LEMMA DurableNext ==
    ASSUME TypeOK, TypeOK', Session, Counters, Window, SameTransfer, Progress,
           HashedIsOnDisk, Durable, StepKind
    PROVE  Durable'
  <1>0. /\ s2r \in Seq(SMsg) /\ r2s \in Seq(RMsg) /\ r2s' \in Seq(RMsg)
        /\ tx \in Tx /\ rx \in Rx /\ tx.acked \in Nat /\ Received \in Nat
    <2>1. /\ s2r \in Seq(SMsg) /\ r2s \in Seq(RMsg) /\ r2s' \in Seq(RMsg)
          /\ tx \in Tx /\ rx \in Rx
      BY DEF TypeOK, NetTypeOK, TxTypeOK, RxTypeOK
    <2>2. tx.acked \in Nat /\ Received \in Nat
      BY <2>1, SMTT(30) DEF Tx, Rx, Received
    <2> QED
      BY <2>1, <2>2
  <1>i. /\ RxIdle.pc = "idle" /\ RxIdle.tid = 0
        /\ TxIdle.pc = "idle" /\ TxIdle.skip = 0
    BY DEF RxIdle, TxIdle
  <1>n. ASSUME NoAcks, Acks' \subseteq Acks
        PROVE  NoAcks'
    BY <1>0, <1>n, CountNone DEF NoAcks, Acks
  <1>1. CASE TxGone
    <2>1. /\ tx'.pc \in {"idle", "redial"} /\ rx' = rx
          /\ tx'.skip = 0 \/ (tx'.skip = tx.skip /\ tx'.resume = tx.resume)
      BY <1>0, <1>i, <1>1 DEF TxGone, Tx
    <2> QED
      BY <2>1 DEF Durable
  <1>2. CASE RxGone
    <2>1. tx' = tx /\ rx'.pc = "idle" /\ rx'.tid = 0 /\ Acks' \subseteq Acks
      BY <1>0, <1>2, <1>i DEF RxGone, Acks
    <2>2. NoAcks => NoAcks'
      BY <1>n, <2>1
    <2> QED
      BY <2>1, <2>2 DEF Durable, Receiving
  <1>3. CASE Dialled
    BY <1>3 DEF Dialled, Durable
  <1>4. CASE ConnectionLost
    <2>1. /\ tx' = tx /\ rx' = rx /\ part' = part /\ published' = published
          /\ s2r' \in Prefixes(s2r) /\ r2s' \in Prefixes(r2s)
          /\ Up' = FALSE
      BY <1>4 DEF ConnectionLost, disk, Up
    <2>2. Frames(r2s') \subseteq Frames(r2s)
      BY <1>0, <2>1, PrefixRange
    <2>3. (NoAcks => NoAcks') /\ Received' = Received
            /\ (Saved => Saved') /\ (FilePublished => FilePublished')
            /\ (Receiving' <=> Receiving)
      BY <2>1, <2>2 DEF NoAcks, Received, Saved, FilePublished, Receiving
    <2>4. ChunkTrail(s2r, Received, tx.off, Up)
            => ChunkTrail(s2r', Received', tx'.off, Up')
      BY <1>0, <2>1, <2>3, ChunkTrailCut
    <2>5. Accounted => Accounted'
      <3> SUFFICES ASSUME Accounted PROVE Accounted'
        OBVIOUS
      <3>1. PICK b \in Nat :
              /\ AckTrail(r2s, tx.acked, b, Up) /\ b <= part.synced
              /\ rx.pc \notin {"save", "chunk_ack"} => b = Received
              /\ rx.pc \in {"save", "chunk_ack"} => b + rx.chunk.len = Received
              /\ rx.pc = "chunk_ack" => Received <= part.synced
        BY DEF Accounted
      <3>2. b <= b
        BY SMTT(30)
      <3>3. AckTrail(r2s', tx.acked, b, FALSE)
        BY <1>0, <2>1, <3>1, <3>2, AckTrailCut
      <3> QED
        BY <2>1, <2>3, <3>1, <3>3 DEF Accounted
    <2> QED
      BY <2>1, <2>3, <2>4, <2>5 DEF Durable
  <1>5. CASE Quiet
    <2>1. /\ tx' = tx /\ rx' = rx /\ part' = part /\ published' = published
          /\ s2r' = s2r /\ r2s' = r2s /\ conn' = conn
      BY <1>5 DEF Quiet, net
    <2>2. /\ (NoAcks => NoAcks') /\ Received' = Received /\ Up' = Up
          /\ (Saved => Saved') /\ (FilePublished => FilePublished')
          /\ (Receiving' <=> Receiving)
      BY <2>1 DEF NoAcks, Received, Saved, FilePublished, Receiving, Up
    <2>3. Accounted => Accounted'
      BY <2>1, <2>2 DEF Accounted
    <2> QED
      BY <2>1, <2>2, <2>3 DEF Durable
  <1> QED
    BY <1>1, <1>2, <1>3, <1>4, <1>5, DurableTx, DurableRx DEF StepKind

(* The bytes that a fresh send counts as acknowledged are synced in the    *)
(* .part, or the file is published: CHUNK_ACK follows sync_all and save    *)
(* (AckedIsDurable).                                                       *)
THEOREM AckedDurable == Spec => []AckedIsDurable
  <1>1. TypeOK /\ TypeOK' /\ Session /\ Counters /\ Window /\ SameTransfer
          /\ Progress /\ HashedIsOnDisk /\ Durable /\ [Next]_vars => Durable'
    BY StepKinds, DurableNext
  <1>2. TypeOK /\ Session /\ Durable => AckedIsDurable
    <2> SUFFICES ASSUME TypeOK, Session, Durable, ~tx.resume,
                        tx.pc \in {"stream", "transfer_ack"}, rx.tid = tx.tid
                 PROVE  \/ tx.acked <= part.synced
                        \/ \E f \in published : f.tid = tx.tid
      BY DEF AckedIsDurable
    <2>1. /\ s2r \in Seq(SMsg) /\ r2s \in Seq(RMsg) /\ tx.acked \in Nat
          /\ part.synced \in Nat /\ tx.tid # 0
      <3>1. s2r \in Seq(SMsg) /\ r2s \in Seq(RMsg) /\ tx \in Tx
        BY DEF TypeOK, NetTypeOK, TxTypeOK
      <3>2. part.synced \in Nat
        BY DEF TypeOK, DiskTypeOK
      <3>3. tx.acked \in Nat
        BY <3>1 DEF Tx
      <3>4. tx.tid \in 1..MaxAttempts /\ MaxAttempts \in Nat
        BY ConstantsAssumption DEF TypeOK, TxTypeOK, Tids
      <3> QED
        BY <3>1, <3>2, <3>3, <3>4, SMTT(30)
    <2>2. rx.pc # "idle" /\ ~(rx.pc = "main" /\ rx.tid = 0)
      BY <2>1 DEF Durable
    <2>3. CASE tx.pc = "transfer_ack"
      BY <2>2, <2>3 DEF Durable, Session, PhaseAck, Saved, FilePublished, Receiving
    <2>4. CASE tx.pc = "stream" /\ rx.pc = "transfer"
      BY <2>1, <2>4, SMTT(30) DEF Durable, FilePublished
    <2>5. CASE tx.pc = "stream" /\ Receiving
      <3>1. PICK b \in Nat : AckTrail(r2s, tx.acked, b, Up) /\ b <= part.synced
        BY <2>5 DEF Durable, Accounted
      <3>2. tx.acked <= b
        BY <2>1, <3>1, AckTrailStart
      <3> QED
        BY <2>1, <3>1, <3>2, SMTT(30)
    <2> QED
      BY <2>2, <2>3, <2>4, <2>5 DEF Session, PhaseStream
  <1> QED
    BY <1>1, <1>2, TypeCorrect, SessionHolds, WindowHolds, SameHolds,
       ProgressHolds, HashCoversDisk, DurableInit, PTL DEF Spec

=============================================================================
