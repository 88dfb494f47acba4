------------------------ MODULE DaemonTransferProofs ------------------------
(***************************************************************************)
(* Proofs about DaemonTransfer, for every value of its constants: any      *)
(* number of peers, contents, attempts and crashes, any sizes, chunk       *)
(* length and window, and any of the faults.  First the state of the two   *)
(* daemons and the disk, then what the later proofs need to know about     *)
(* channels: the frames on them, running totals of bytes, and counts.      *)
(***************************************************************************)
EXTENDS DaemonTransfer, TLAPS

(* Zenon first: it is quick and takes most leaves; SMT is cited where a     *)
(* leaf needs arithmetic, sequences or extensionality.                      *)
USE ZenonT(30), SMTT(30)

(* Facts about the channels: what is delivered and what survives a hang-up *)
(* are messages of the channel's type.                                     *)
LEMMA PrefixType ==
    ASSUME NEW S, NEW s \in Seq(S), NEW q \in Prefixes(s)
    PROVE  q \in Seq(S)
  BY SMTT(30) DEF Prefixes

LEMMA DeliverType ==
    ASSUME NEW S, NEW s \in Seq(S), NEW m \in S
    PROVE  Deliver(s, m) \in Seq(S)
  BY SMTT(30) DEF Deliver

LEMMA TailType ==
    ASSUME NEW S, NEW s \in Seq(S), s # <<>>
    PROVE  Head(s) \in S /\ Tail(s) \in Seq(S)
  BY SMTT(30)

LEMMA ConcatType ==
    ASSUME NEW S, NEW s \in Seq(S), NEW t \in Seq(S)
    PROVE  s \o t \in Seq(S)
  BY SMTT(30)

LEMMA PairType ==
    ASSUME NEW S, NEW m \in S, NEW n \in S
    PROVE  <<m, n>> \in Seq(S)
  BY SMTT(30)

LEMMA BytesType ==
    ASSUME NEW v \in Versions, NEW off \in Nat, NEW len \in Nat
    PROVE  /\ Bytes(v, off, len) \in Seq(Byte)
           /\ Len(Bytes(v, off, len)) = len
  BY SMTT(30) DEF Bytes, Byte

LEMMA SMsgFields ==
    ASSUME NEW m \in SMsg
    PROVE  /\ m.type = "request" => m.tid \in Tids /\ m.sha \in Versions
           /\ m.type = "query" => m.tid \in Tids
           /\ m.type = "meta" => m.size \in Nat /\ m.sha \in Versions
           /\ m.type = "chunk" => /\ m.ver \in Versions
                                  /\ m.off \in Nat /\ m.len \in Nat
                                  /\ m.last \in BOOLEAN
  BY DEF SMsg

LEMMA RMsgFields ==
    ASSUME NEW m \in RMsg
    PROVE  /\ m.type = "status" => m.received \in Nat
           /\ m.type = "chunk_ack" => m.len \in Nat
  BY DEF RMsg

(* The messages each side sends are messages of its channel.               *)
LEMMA SMsgSent ==
    /\ \A t \in Tids, v \in Versions :
         [type |-> "request", tid |-> t, sha |-> v] \in SMsg
    /\ \A t \in Tids : [type |-> "query", tid |-> t] \in SMsg
    /\ \A n \in Nat, v \in Versions :
         [type |-> "meta", size |-> n, sha |-> v] \in SMsg
    /\ \A v \in Versions, o \in Nat, n \in Nat, l \in BOOLEAN, k \in BOOLEAN :
         [type |-> "chunk", ver |-> v, off |-> o, len |-> n, last |-> l,
          ok |-> k] \in SMsg
    /\ [type |-> "complete"] \in SMsg
    /\ [type |-> "cancel"] \in SMsg
    /\ [type |-> "close"] \in SMsg
  BY DEF SMsg

LEMMA RMsgSent ==
    /\ [type |-> "accept"] \in RMsg
    /\ [type |-> "reject"] \in RMsg
    /\ [type |-> "error"] \in RMsg
    /\ [type |-> "transfer_ack"] \in RMsg
    /\ [type |-> "close"] \in RMsg
    /\ \A b \in BOOLEAN, n \in Nat :
         [type |-> "status", resumable |-> b, received |-> n] \in RMsg
    /\ \A b \in BOOLEAN : [type |-> "meta_ack", accepted |-> b] \in RMsg
    /\ \A n \in Nat : [type |-> "chunk_ack", len |-> n] \in RMsg
  BY DEF RMsg

(* The values the tasks are reset to.                                      *)
LEMMA IdleType ==
    /\ AnyPeer \in Peers /\ AnyVersion \in Versions
    /\ TxIdle \in Tx /\ TxIdle.pc = "idle"
    /\ RxIdle \in Rx /\ RxIdle.pc = "idle"
    /\ RxIdle.chunk \in [len : Nat, last : BOOLEAN]
    /\ NoPart \in [exists : BOOLEAN, data : Seq(Byte), synced : Nat]
  <1>1. AnyPeer \in Peers /\ AnyVersion \in Versions
    BY ConstantsAssumption DEF AnyPeer, AnyVersion
  <1>2. MaxAttempts \in Nat
    BY ConstantsAssumption
  <1>3. TxIdle \in Tx /\ TxIdle.pc = "idle"
    BY <1>1, <1>2, SMTT(30) DEF TxIdle, Tx
  <1>4. /\ RxIdle \in Rx /\ RxIdle.pc = "idle"
        /\ RxIdle.chunk \in [len : Nat, last : BOOLEAN]
    BY <1>1, <1>2, SMTT(30) DEF RxIdle, Rx, Journal
  <1>5. NoPart \in [exists : BOOLEAN, data : Seq(Byte), synced : Nat]
    BY SMTT(30) DEF NoPart
  <1> QED
    BY <1>1, <1>3, <1>4, <1>5

(* What a task that is not there holds.                                    *)
LEMMA IdleValues ==
    /\ RxIdle.pc = "idle" /\ RxIdle.tid = 0
    /\ TxIdle.pc = "idle" /\ TxIdle.skip = 0
  BY DEF RxIdle, TxIdle

(* The sender that has its answer sends SESSION_CLOSE and waits once more. *)
LEMMA Closing ==
    ASSUME TxTransferAck, tx'.pc = "closing"
    PROVE  /\ tx.pc = "transfer_ack" /\ tx' = [tx EXCEPT !.pc = "closing"]
           /\ SendToReceiver([type |-> "close"]) /\ conn' = conn /\ rx' = rx
           /\ r2s # <<>> /\ r2s' = Tail(r2s)
  <1>1. tx' # TxIdle
    BY IdleType
  <1> QED
    BY <1>1 DEF TxTransferAck

LEMMA TypeInit == Init => TypeOK
  <1> SUFFICES ASSUME Init PROVE TypeOK
    OBVIOUS
  <1>1. MaxAttempts \in Nat
    BY ConstantsAssumption
  <1>2. /\ DOMAIN journal \subseteq Tids
        /\ \A t \in DOMAIN journal : journal[t] \in Journal
    BY DEF Init
  <1> QED
    BY <1>1, <1>2, IdleType, SMTT(30)
    DEF Init, TypeOK, TxTypeOK, RxTypeOK, NetTypeOK, DiskTypeOK, EnvTypeOK

(* A hang-up leaves messages of the right types in both channels.          *)
LEMMA TxHangUpType ==
    ASSUME NEW sent \in Seq(SMsg), TxHangUp(sent)
    PROVE  conn' \in {"up", "down"} /\ s2r' \in Seq(SMsg) /\ r2s' \in Seq(RMsg)
  BY SMTT(30) DEF TxHangUp, Prefixes

LEMMA RxHangUpType ==
    ASSUME NEW sent \in Seq(RMsg), RxHangUp(sent)
    PROVE  conn' \in {"up", "down"} /\ s2r' \in Seq(SMsg) /\ r2s' \in Seq(RMsg)
  BY SMTT(30) DEF RxHangUp, Prefixes

(* TypeOK is inductive by itself: one step per action, and under it one    *)
(* per group of variables that the action changes.                         *)
LEMMA TypeNext == TypeOK /\ [Next]_vars => TypeOK'
  <1> SUFFICES ASSUME TypeOK, [Next]_vars PROVE TypeOK'
    OBVIOUS
  <1> USE IdleType DEF TypeOK
  <1>n. MaxAttempts \in Nat /\ Size \in [Versions -> Nat] /\ ChunkLen \in Nat
    BY ConstantsAssumption
  <1>q. /\ s2r # <<>> => Head(s2r) \in SMsg /\ Tail(s2r) \in Seq(SMsg)
        /\ r2s # <<>> => Head(r2s) \in RMsg /\ Tail(r2s) \in Seq(RMsg)
    BY TailType DEF NetTypeOK
  <1>f. /\ RxReceives("request")
             => Head(s2r).tid \in Tids /\ Head(s2r).sha \in Versions
        /\ RxReceives("query") => Head(s2r).tid \in Tids
        /\ RxReceives("meta")
             => Head(s2r).size \in Nat /\ Head(s2r).sha \in Versions
        /\ TxReceives("status") => Head(r2s).received \in Nat
        /\ TxReceives("chunk_ack") => Head(r2s).len \in Nat
    BY <1>q, SMsgFields, RMsgFields DEF RxReceives, TxReceives
  <1>b. NextChunk => /\ ChunkData \in Seq(Byte)
                     /\ Head(s2r).len \in Nat /\ Head(s2r).last \in BOOLEAN
    BY <1>q, SMsgFields, BytesType DEF NextChunk, RxReceives, ChunkData
  <1>d. \A m \in SMsg : Deliver(s2r, m) \in Seq(SMsg)
    BY SMTT(30) DEF Deliver, NetTypeOK
  <1>e. \A m \in RMsg : Deliver(r2s, m) \in Seq(RMsg)
    BY SMTT(30) DEF Deliver, NetTypeOK
  <1>t. \A t \in Tids : t \in 0..MaxAttempts
    BY <1>n, SMTT(30) DEF Tids
  <1>m. Metadata \in SMsg
    BY SMsgSent DEF Metadata, TxTypeOK, Tx
  <1>c. tx.off < Total => ChunkEnd \in Nat /\ ChunkEnd - tx.off \in Nat
    <2>1. tx.off \in Nat /\ Total \in Nat
      BY <1>n DEF Total, TxTypeOK, Tx
    <2> QED
      BY <1>n, <2>1, SMTT(30) DEF ChunkEnd
  <1>k. \A ok \in BOOLEAN : tx.off < Total =>
          [type |-> "chunk", ver |-> tx.ver, off |-> tx.off,
           len |-> ChunkEnd - tx.off, last |-> ChunkEnd = Total, ok |-> ok]
            \in SMsg
    <2>1. tx.ver \in Versions /\ tx.off \in Nat
      BY DEF TxTypeOK, Tx
    <2>2. (ChunkEnd = Total) \in BOOLEAN
      OBVIOUS
    <2> QED
      BY <1>c, <2>1, <2>2, SMsgSent
  <1>r. [rx.mem EXCEPT !.received = Received] \in Journal
    <2>1. rx.mem \in Journal /\ rx.hashed \in Seq(Byte)
      BY DEF RxTypeOK, Rx
    <2>2. Received \in Nat
      BY <2>1, SMTT(30) DEF Received
    <2> QED
      BY <2>1, <2>2 DEF Journal
  <1>l. \A t \in Tids, v \in Versions : LoadedState(t, v) \in Journal
    BY DEF LoadedState, Continues, RxTypeOK, Rx, DiskTypeOK, Journal
  <1>1. CASE TxAccepted
    <2>1. TxTypeOK'
      BY <1>1, <1>n
      DEF TxAccepted, TxTypeOK, Tx
    <2>2. NetTypeOK'
      BY <1>1, <1>n, <1>m, <1>d, <1>q
      DEF TxAccepted, NetTypeOK, SendToReceiver, TxReceives
    <2>3. EnvTypeOK'
      BY <1>1, <1>n
      DEF TxAccepted, EnvTypeOK, TxTypeOK, env
    <2> QED
      BY <1>1, <2>1, <2>2, <2>3
      DEF TxAccepted, RxTypeOK, DiskTypeOK, disk
  <1>2. CASE TxRejected
    <2>1. TxTypeOK'
      BY <1>2, <1>n
      DEF TxRejected, TxTypeOK
    <2>2. NetTypeOK'
      BY <1>2, <1>n, <1>d, SMsgSent, TxHangUpType
      DEF TxRejected, NetTypeOK
    <2> QED
      BY <1>2, <2>1, <2>2
      DEF TxRejected, RxTypeOK, DiskTypeOK, EnvTypeOK, disk, env
  <1>3. CASE TxAcceptTimeout
    <2>1. TxTypeOK'
      BY <1>3, <1>n
      DEF TxAcceptTimeout, TxTypeOK
    <2>2. NetTypeOK'
      BY <1>3, <1>n, TxHangUpType
      DEF TxAcceptTimeout, NetTypeOK
    <2> QED
      BY <1>3, <2>1, <2>2
      DEF TxAcceptTimeout, RxTypeOK, DiskTypeOK, EnvTypeOK, disk, env
  <1>4. CASE TxResumable
    <2>1. TxTypeOK'
      BY <1>4, <1>n, <1>f
      DEF TxResumable, TxTypeOK, Tx
    <2>2. NetTypeOK'
      BY <1>4, <1>n, <1>m, <1>d, <1>q
      DEF TxResumable, NetTypeOK, SendToReceiver, TxReceives
    <2> QED
      BY <1>4, <2>1, <2>2
      DEF TxResumable, RxTypeOK, DiskTypeOK, EnvTypeOK, disk, env
  <1>5. CASE TxNotResumable
    <2>1. TxTypeOK'
      BY <1>5, <1>n
      DEF TxNotResumable, TxTypeOK, Tx
    <2>2. NetTypeOK'
      BY <1>5, <1>n, TxHangUpType
      DEF TxNotResumable, NetTypeOK
    <2> QED
      BY <1>5, <2>1, <2>2
      DEF TxNotResumable, RxTypeOK, DiskTypeOK, EnvTypeOK, disk, env
  <1>6. CASE TxMetaAccepted
    <2>1. TxTypeOK'
      BY <1>6, <1>n
      DEF TxMetaAccepted, TxTypeOK, Tx
    <2>2. NetTypeOK'
      BY <1>6, <1>n, <1>q
      DEF TxMetaAccepted, NetTypeOK, TxReceives
    <2> QED
      BY <1>6, <2>1, <2>2
      DEF TxMetaAccepted, RxTypeOK, DiskTypeOK, EnvTypeOK, disk, env
  <1>7. CASE TxMetaRefused
    <2>1. TxTypeOK'
      <3>1. CASE tx' = [tx EXCEPT !.pc = "redial"]
        BY <1>7, <1>n, <3>1 DEF TxMetaRefused, TxTypeOK, Tx
      <3>2. CASE tx' # [tx EXCEPT !.pc = "redial"]
        BY <1>7, <1>n, <3>2 DEF TxMetaRefused, TxTypeOK, Tx
      <3> QED
        BY <3>1, <3>2
    <2>2. NetTypeOK'
      BY <1>7, <1>n, <1>d, SMsgSent, TxHangUpType
      DEF TxMetaRefused, NetTypeOK
    <2> QED
      BY <1>7, <2>1, <2>2
      DEF TxMetaRefused, RxTypeOK, DiskTypeOK, EnvTypeOK, disk, env
  <1>8. CASE TxSkipChunk
    <2>1. TxTypeOK'
      BY <1>8, <1>n, <1>c
      DEF TxSkipChunk, TxTypeOK, Tx
    <2> QED
      BY <1>8, <2>1
      DEF TxSkipChunk, RxTypeOK, NetTypeOK, DiskTypeOK, EnvTypeOK, net, disk,
          env
  <1>9. CASE TxSendChunk
    <2>1. TxTypeOK'
      <3>1. ChunkEnd \in Nat
        BY <1>9, <1>c DEF TxSendChunk
      <3>2. tx.inflight \in Nat
        BY DEF TxTypeOK, Tx
      <3>3. /\ tx' = [tx EXCEPT !.off = ChunkEnd, !.inflight = tx.inflight + 1]
            /\ tx.pc = "stream"
        BY <1>9 DEF TxSendChunk
      <3> QED
        <4>1. tx.inflight + 1 \in Nat
          BY <3>2, SMTT(30)
        <4>2. tx' \in Tx
          BY <3>1, <3>3, <4>1 DEF TxTypeOK, Tx
        <4> QED
          BY <3>3, <4>2 DEF TxTypeOK, Tx
    <2>2. NetTypeOK'
      <3>1. PICK ok \in BOOLEAN :
              SendToReceiver([type |-> "chunk", ver |-> tx.ver, off |-> tx.off,
                              len |-> ChunkEnd - tx.off,
                              last |-> ChunkEnd = Total, ok |-> ok])
        BY <1>9 DEF TxSendChunk
      <3>2. tx.off < Total
        BY <1>9 DEF TxSendChunk
      <3>3. s2r' \in Seq(SMsg)
        BY <3>1, <3>2, <1>k, <1>d DEF SendToReceiver
      <3> QED
        BY <1>9, <3>3 DEF TxSendChunk, NetTypeOK
    <2> QED
      BY <1>9, <2>1, <2>2
      DEF TxSendChunk, RxTypeOK, DiskTypeOK, EnvTypeOK, disk, env
  <1>10. CASE TxChunkAck
    <2>1. TxTypeOK'
      <3>1. tx.inflight - 1 \in Nat
        <4>1. tx.inflight \in Nat
          BY DEF TxTypeOK, Tx
        <4>2. tx.inflight > 0
          BY <1>10 DEF TxChunkAck, Draining
        <4> QED
          BY ONLY <4>1, <4>2, SMTT(30)
      <3>2. TxReceives("chunk_ack") => tx.acked + Head(r2s).len \in Nat
        <4>1. tx.acked \in Nat
          BY DEF TxTypeOK, Tx
        <4> QED
          BY <1>f, <4>1, SMTT(30)
      <3> QED
        BY <1>10, <3>1, <3>2 DEF TxChunkAck, TxTypeOK, Tx
    <2>2. NetTypeOK'
      BY <1>10, <1>n, <1>q
      DEF TxChunkAck, NetTypeOK
    <2> QED
      BY <1>10, <2>1, <2>2
      DEF TxChunkAck, RxTypeOK, DiskTypeOK, EnvTypeOK, disk, env
  <1>11. CASE TxComplete
    <2>1. TxTypeOK'
      BY <1>11, <1>n
      DEF TxComplete, TxTypeOK, Tx
    <2>2. NetTypeOK'
      BY <1>11, <1>n, <1>d, SMsgSent
      DEF TxComplete, NetTypeOK, SendToReceiver
    <2> QED
      BY <1>11, <2>1, <2>2
      DEF TxComplete, RxTypeOK, DiskTypeOK, EnvTypeOK, disk, env
  <1>12. CASE TxTransferAck
    <2>1. TxTypeOK'
      BY <1>12, <1>n
      DEF TxTransferAck, TxTypeOK, Tx
    <2>2. NetTypeOK'
      BY <1>12, <1>n, <1>d, <1>q, SMsgSent, TxHangUpType
      DEF TxTransferAck, NetTypeOK, SendToReceiver
    <2>3. EnvTypeOK'
      BY <1>12, <1>n
      DEF TxTransferAck, EnvTypeOK, env
    <2> QED
      BY <1>12, <2>1, <2>2, <2>3
      DEF TxTransferAck, RxTypeOK, DiskTypeOK, disk
  <1>13. CASE TxClosed
    <2>1. TxTypeOK'
      BY <1>13, <1>n
      DEF TxClosed, TxTypeOK
    <2>2. NetTypeOK'
      BY <1>13, <1>n, TxHangUpType
      DEF TxClosed, NetTypeOK
    <2>3. EnvTypeOK'
      <3>1. tx.tid \in Tids /\ tx.ver \in Versions
        BY <1>13 DEF TxClosed, TxTypeOK, Tx
      <3>2. [tid |-> tx.tid, ver |-> tx.ver] \in [tid : Tids, ver : Versions]
        BY <3>1
      <3> QED
        BY <1>13, <3>2 DEF TxClosed, EnvTypeOK, env
    <2> QED
      BY <1>13, <2>1, <2>2, <2>3
      DEF TxClosed, RxTypeOK, DiskTypeOK, disk
  <1>14. CASE TxReadError
    <2>1. TxTypeOK'
      BY <1>14, <1>n
      DEF TxReadError, TxTypeOK
    <2>2. NetTypeOK'
      BY <1>14, <1>n, TxHangUpType
      DEF TxReadError, NetTypeOK
    <2> QED
      BY <1>14, <2>1, <2>2
      DEF TxReadError, RxTypeOK, DiskTypeOK, EnvTypeOK, disk, env
  <1>15. CASE RxRequest
    <2>1. RxTypeOK'
      BY <1>15, <1>n, <1>f, <1>t
      DEF RxRequest, RxTypeOK, Rx
    <2>2. NetTypeOK'
      BY <1>15, <1>n, <1>q
      DEF RxRequest, NetTypeOK, RxReceives
    <2> QED
      BY <1>15, <2>1, <2>2
      DEF RxRequest, TxTypeOK, DiskTypeOK, EnvTypeOK, disk, env
  <1>16. CASE RxReject
    <2>1. RxTypeOK'
      BY <1>16, <1>n
      DEF RxReject, RxTypeOK, Rx
    <2>2. NetTypeOK'
      BY <1>16, <1>n, <1>e, RMsgSent
      DEF RxReject, NetTypeOK, SendToSender
    <2> QED
      BY <1>16, <2>1, <2>2
      DEF RxReject, TxTypeOK, DiskTypeOK, EnvTypeOK, disk, env
  <1>17. CASE RxAccept
    <2>1. RxTypeOK'
      BY <1>17, <1>n, <1>l
      DEF RxAccept, RxTypeOK, Rx, EnterTransfer
    <2>2. NetTypeOK'
      BY <1>17, <1>n, <1>e, RMsgSent
      DEF RxAccept, NetTypeOK, SendToSender
    <2>3. DiskTypeOK'
      BY <1>17, <1>n
      DEF RxAccept, DiskTypeOK, EnterTransfer, disk
    <2> QED
      BY <1>17, <2>1, <2>2, <2>3
      DEF RxAccept, TxTypeOK, EnvTypeOK, env
  <1>18. CASE RxResumeQuery
    <2>1. RxTypeOK'
      <3>1. CASE Resumable(Head(s2r).tid)
        <4>1. /\ Head(s2r).tid \in Tids
              /\ journal[Head(s2r).tid].sha \in Versions
          BY <1>18, <1>f, <3>1
          DEF RxResumeQuery, Resumable, DiskTypeOK, Journal
        <4>2. LoadedState(Head(s2r).tid, journal[Head(s2r).tid].sha) \in Journal
          BY <4>1, <1>l
        <4>3. rx' = [rx EXCEPT !.pc = "transfer", !.tid = Head(s2r).tid,
                               !.mem = LoadedState(Head(s2r).tid,
                                                   journal[Head(s2r).tid].sha)]
          BY <1>18, <3>1 DEF RxResumeQuery, EnterTransfer
        <4> QED
          BY <1>t, <4>1, <4>2, <4>3 DEF RxTypeOK, Rx
      <3>2. CASE ~Resumable(Head(s2r).tid)
        BY <1>18, <3>2 DEF RxResumeQuery, RxTypeOK
      <3> QED
        BY <3>1, <3>2
    <2>2. NetTypeOK'
      <3>1. Resumable(Head(s2r).tid) =>
              (IF journal[Head(s2r).tid].has
               THEN journal[Head(s2r).tid].received ELSE 0) \in Nat
        BY DEF Resumable, DiskTypeOK, Journal
      <3>2. r2s' \in Seq(RMsg)
        BY <1>18, <3>1, <1>e, RMsgSent DEF RxResumeQuery, SendToSender
      <3> QED
        BY <1>18, <3>2, <1>q DEF RxResumeQuery, RxReceives, NetTypeOK
    <2>3. DiskTypeOK'
      BY <1>18, <1>n
      DEF RxResumeQuery, DiskTypeOK, EnterTransfer, disk
    <2> QED
      BY <1>18, <2>1, <2>2, <2>3
      DEF RxResumeQuery, TxTypeOK, EnvTypeOK, env
  <1>19. CASE RxPathRejected
    <2>1. NetTypeOK'
      <3>1. <<[type |-> "error"],
              [type |-> "meta_ack", accepted |-> FALSE]>> \in Seq(RMsg)
        BY RMsgSent, PairType
      <3>2. r2s' \in Seq(RMsg)
        BY <1>19, <3>1, ConcatType DEF RxPathRejected, NetTypeOK
      <3> QED
        BY <1>19, <3>2, <1>q DEF RxPathRejected, RxReceives, NetTypeOK
    <2> QED
      BY <1>19, <2>1
      DEF RxPathRejected, TxTypeOK, RxTypeOK, DiskTypeOK, EnvTypeOK, disk, env
  <1>20. CASE RxModified
    <2>1. RxTypeOK'
      BY <1>20, <1>n
      DEF RxModified, RxTypeOK, Rx, Journal
    <2>2. NetTypeOK'
      BY <1>20, <1>n, <1>e, <1>q, RMsgSent
      DEF RxModified, NetTypeOK, SendToSender, RxReceives
    <2>3. DiskTypeOK'
      <3> DEFINE state == [rx.mem EXCEPT !.has = FALSE, !.received = 0]
      <3>1. rx.tid \in Tids /\ state \in Journal
        BY <1>20, <1>n DEF RxModified, RxTypeOK, Rx, Journal
      <3>2. /\ SaveJournal(rx.tid, state) \/ journal' = journal
            /\ part' = NoPart /\ UNCHANGED <<expired, published>>
        BY <1>20 DEF RxModified
      <3> HIDE DEF state
      <3>3. DOMAIN journal' \subseteq Tids
              /\ \A t \in DOMAIN journal' : journal'[t] \in Journal
        BY <3>1, <3>2 DEF DiskTypeOK, SaveJournal
      <3> QED
        BY <3>2, <3>3, <1>e DEF DiskTypeOK, NoPart
    <2> QED
      BY <1>20, <2>1, <2>2, <2>3
      DEF RxModified, TxTypeOK, EnvTypeOK, env
  <1>21. CASE RxJailed
    <2>1. NetTypeOK'
      <3>1. <<[type |-> "meta_ack", accepted |-> TRUE],
              [type |-> "error"]>> \in Seq(RMsg)
        BY RMsgSent, PairType
      <3>2. r2s' \in Seq(RMsg)
        BY <1>21, <3>1, ConcatType DEF RxJailed, NetTypeOK
      <3> QED
        BY <1>21, <3>2, <1>q DEF RxJailed, RxReceives, NetTypeOK
    <2> QED
      BY <1>21, <2>1
      DEF RxJailed, TxTypeOK, RxTypeOK, DiskTypeOK, EnvTypeOK, disk, env
  <1>22. CASE RxOpenFails
    <2>1. RxTypeOK'
      BY <1>22, <1>n
      DEF RxOpenFails, RxTypeOK, RxExit
    <2>2. NetTypeOK'
      BY <1>22, <1>n, <1>e, RMsgSent, RxHangUpType
      DEF RxOpenFails, NetTypeOK, RxExit
    <2> QED
      BY <1>22, <2>1, <2>2
      DEF RxOpenFails, TxTypeOK, DiskTypeOK, EnvTypeOK, disk, env
  <1>23. CASE RxComplete
    <2>1. RxTypeOK'
      BY <1>23, <1>n
      DEF RxComplete, RxTypeOK, Rx
    <2>2. NetTypeOK'
      BY <1>23, <1>n, <1>e, <1>q, RMsgSent
      DEF RxComplete, NetTypeOK, SendToSender, RxReceives
    <2>3. DiskTypeOK'
      BY <1>23, <1>n
      DEF RxComplete, DiskTypeOK, DeleteJournal, disk
    <2> QED
      BY <1>23, <2>1, <2>2, <2>3
      DEF RxComplete, TxTypeOK, EnvTypeOK, env
  <1>24. CASE RxCompleteFails
    <2>1. RxTypeOK'
      BY <1>24, <1>n
      DEF RxCompleteFails, RxTypeOK, RxExit
    <2>2. NetTypeOK'
      BY <1>24, <1>n, RxHangUpType
      DEF RxCompleteFails, NetTypeOK, RxExit
    <2> QED
      BY <1>24, <2>1, <2>2
      DEF RxCompleteFails, TxTypeOK, DiskTypeOK, EnvTypeOK, disk, env
  <1>25. CASE RxStopped
    <2>1. RxTypeOK'
      BY <1>25, <1>n
      DEF RxStopped, RxTypeOK, Rx
    <2>2. NetTypeOK'
      BY <1>25, <1>n, <1>e, <1>q, RMsgSent
      DEF RxStopped, NetTypeOK, RxReceives
    <2> QED
      BY <1>25, <2>1, <2>2
      DEF RxStopped, TxTypeOK, DiskTypeOK, EnvTypeOK, disk, env
  <1>26. CASE RxSessionClose
    <2>1. RxTypeOK'
      BY <1>26, <1>n
      DEF RxSessionClose, RxTypeOK, RxExit
    <2>2. NetTypeOK'
      BY <1>26, <1>n, <1>e, RMsgSent, RxHangUpType
      DEF RxSessionClose, NetTypeOK, RxExit
    <2> QED
      BY <1>26, <2>1, <2>2
      DEF RxSessionClose, TxTypeOK, DiskTypeOK, EnvTypeOK, disk, env
  <1>27. CASE RxIgnore
    <2>1. NetTypeOK'
      BY <1>27, <1>n, <1>q
      DEF RxIgnore, NetTypeOK
    <2> QED
      BY <1>27, <2>1
      DEF RxIgnore, TxTypeOK, RxTypeOK, DiskTypeOK, EnvTypeOK, disk, env
  <1>28. CASE RxBadChunk
    <2>1. RxTypeOK'
      BY <1>28, <1>n
      DEF RxBadChunk, RxTypeOK, RxExit
    <2>2. NetTypeOK'
      BY <1>28, <1>n, <1>e, RMsgSent, RxHangUpType
      DEF RxBadChunk, NetTypeOK, RxExit, RxError
    <2>3. DiskTypeOK'
      BY <1>28, <1>n
      DEF RxBadChunk, DiskTypeOK, disk
    <2> QED
      BY <1>28, <2>1, <2>2, <2>3
      DEF RxBadChunk, TxTypeOK, EnvTypeOK, env
  <1>29. CASE RxMisplacedChunk
    <2>1. RxTypeOK'
      BY <1>29, <1>n
      DEF RxMisplacedChunk, RxTypeOK, RxExit
    <2>2. NetTypeOK'
      BY <1>29, <1>n, <1>e, RMsgSent, RxHangUpType
      DEF RxMisplacedChunk, NetTypeOK, RxExit, RxError
    <2> QED
      BY <1>29, <2>1, <2>2
      DEF RxMisplacedChunk, TxTypeOK, DiskTypeOK, EnvTypeOK, disk, env
  <1>30. CASE RxWriteChunk
    <2>1. RxTypeOK'
      <3>1. rx.hashed \o ChunkData \in Seq(Byte)
        BY <1>30, <1>b, ConcatType DEF RxWriteChunk, RxTypeOK, Rx
      <3>2. Handling \in [len : Nat, last : BOOLEAN]
        BY <1>30, <1>b DEF RxWriteChunk, Handling
      <3> QED
        BY <1>30, <3>1, <3>2 DEF RxWriteChunk, NextChunk, RxTypeOK, Rx
    <2>2. NetTypeOK'
      BY <1>30, <1>n, <1>q
      DEF RxWriteChunk, NetTypeOK, NextChunk, RxReceives
    <2>3. DiskTypeOK'
      <3>1. part.data \o ChunkData \in Seq(Byte)
        BY <1>30, <1>b, ConcatType DEF RxWriteChunk, DiskTypeOK
      <3> QED
        BY <1>30, <3>1 DEF RxWriteChunk, DiskTypeOK
    <2> QED
      BY <1>30, <2>1, <2>2, <2>3
      DEF RxWriteChunk, TxTypeOK, EnvTypeOK, env
  <1>31. CASE RxWriteFails
    <2>1. RxTypeOK'
      BY <1>31, <1>n
      DEF RxWriteFails, RxTypeOK, RxExit
    <2>2. NetTypeOK'
      BY <1>31, <1>n, RxHangUpType
      DEF RxWriteFails, NetTypeOK, RxExit
    <2>3. DiskTypeOK'
      <3>1. PICK written \in Prefixes(ChunkData) :
              part' = [part EXCEPT !.data = part.data \o written]
        BY <1>31 DEF RxWriteFails
      <3>2. written \in Seq(Byte)
        BY <1>31, <1>b, PrefixType DEF RxWriteFails
      <3>3. part.data \o written \in Seq(Byte)
        BY <3>2, ConcatType DEF DiskTypeOK
      <3> QED
        BY <1>31, <3>1, <3>3 DEF RxWriteFails, DiskTypeOK
    <2> QED
      BY <1>31, <2>1, <2>2, <2>3
      DEF RxWriteFails, TxTypeOK, EnvTypeOK, env
  <1>32. CASE RxDuplicate
    <2>1. RxTypeOK'
      <3>1. Handling \in [len : Nat, last : BOOLEAN]
        BY <1>32, <1>b DEF RxDuplicate, Handling
      <3> QED
        BY <1>32, <3>1 DEF RxDuplicate, NextChunk, RxTypeOK, Rx
    <2>2. NetTypeOK'
      BY <1>32, <1>n, <1>q
      DEF RxDuplicate, NetTypeOK, NextChunk, RxReceives
    <2> QED
      BY <1>32, <2>1, <2>2
      DEF RxDuplicate, TxTypeOK, DiskTypeOK, EnvTypeOK, disk, env
  <1>33. CASE RxSave
    <2>1. RxTypeOK'
      <3>1. [rx.mem EXCEPT !.received = Received] \in Journal
        BY <1>r
      <3> QED
        BY <1>33, <3>1 DEF RxSave, RxTypeOK, Rx
    <2>2. DiskTypeOK'
      <3>1. [rx.mem EXCEPT !.received = Received] \in Journal
        BY <1>r
      <3>2. Len(part.data) \in Nat /\ rx.tid \in Tids
        BY <1>33, SMTT(30) DEF RxSave, DiskTypeOK, RxTypeOK
      <3> QED
        BY <1>33, <3>1, <3>2 DEF RxSave, SaveJournal, DiskTypeOK
    <2> QED
      BY <1>33, <2>1, <2>2
      DEF RxSave, TxTypeOK, NetTypeOK, EnvTypeOK, net, env
  <1>34. CASE RxSaveFails
    <2>1. RxTypeOK'
      BY <1>34, <1>n
      DEF RxSaveFails, RxTypeOK, RxExit
    <2>2. NetTypeOK'
      BY <1>34, <1>n, RxHangUpType
      DEF RxSaveFails, NetTypeOK, RxExit
    <2>3. DiskTypeOK'
      <3>1. Len(part.data) \in Nat /\ part.synced \in Nat
        BY SMTT(30) DEF DiskTypeOK
      <3> QED
        BY <1>34, <3>1 DEF RxSaveFails, DiskTypeOK
    <2> QED
      BY <1>34, <2>1, <2>2, <2>3
      DEF RxSaveFails, TxTypeOK, EnvTypeOK, env
  <1>35. CASE RxChunkAck
    <2>1. RxTypeOK'
      BY <1>35, <1>n
      DEF RxChunkAck, RxTypeOK, Rx
    <2>2. NetTypeOK'
      BY <1>35, <1>n, <1>e, RMsgSent
      DEF RxChunkAck, NetTypeOK, SendToSender, RxTypeOK, Rx
    <2> QED
      BY <1>35, <2>1, <2>2
      DEF RxChunkAck, TxTypeOK, DiskTypeOK, EnvTypeOK, disk, env
  <1>36. CASE RxChunkAckFails
    <2>1. RxTypeOK'
      BY <1>36, <1>n
      DEF RxChunkAckFails, RxTypeOK, RxExit
    <2>2. NetTypeOK'
      BY <1>36, <1>n, RxHangUpType
      DEF RxChunkAckFails, NetTypeOK, RxExit
    <2> QED
      BY <1>36, <2>1, <2>2
      DEF RxChunkAckFails, TxTypeOK, DiskTypeOK, EnvTypeOK, disk, env
  <1>37. CASE RxPublish
    <2>1. RxTypeOK'
      <3>1. <<>> \in Seq(Byte)
        BY SMTT(30)
      <3> QED
        BY <1>37, <3>1 DEF RxPublish, RxTypeOK, Rx
    <2>2. DiskTypeOK'
      <3>1. /\ rx.tid \in Tids /\ rx.sha \in Versions /\ rx.size \in Nat
            /\ part.data \in Seq(Byte)
        BY <1>37 DEF RxPublish, RxTypeOK, Rx, DiskTypeOK
      <3>2. [tid |-> rx.tid, sha |-> rx.sha, size |-> rx.size,
             content |-> part.data]
              \in [tid : Tids, sha : Versions, size : Nat, content : Seq(Byte)]
        BY <3>1
      <3> QED
        BY <1>37, <3>2 DEF RxPublish, DiskTypeOK
    <2> QED
      BY <1>37, <2>1, <2>2
      DEF RxPublish, TxTypeOK, NetTypeOK, EnvTypeOK, net, env
  <1>38. CASE RxMismatch
    <2>1. RxTypeOK'
      BY <1>38, <1>n
      DEF RxMismatch, RxTypeOK, RxExit
    <2>2. NetTypeOK'
      BY <1>38, <1>n, RxHangUpType
      DEF RxMismatch, NetTypeOK, RxExit
    <2>3. DiskTypeOK'
      BY <1>38, <1>n
      DEF RxMismatch, DiskTypeOK, disk
    <2> QED
      BY <1>38, <2>1, <2>2, <2>3
      DEF RxMismatch, TxTypeOK, EnvTypeOK, env
  <1>39. CASE RxCancelled
    <2>1. RxTypeOK'
      BY <1>39, <1>n
      DEF RxCancelled, RxTypeOK, RxExit
    <2>2. NetTypeOK'
      BY <1>39, <1>n, RxHangUpType
      DEF RxCancelled, NetTypeOK, RxExit
    <2>3. DiskTypeOK'
      BY <1>39, <1>n
      DEF RxCancelled, DiskTypeOK, disk
    <2> QED
      BY <1>39, <2>1, <2>2, <2>3
      DEF RxCancelled, TxTypeOK, EnvTypeOK, env
  <1>40. CASE RxClosed
    <2>1. RxTypeOK'
      BY <1>40, <1>n
      DEF RxClosed, RxTypeOK, RxExit
    <2>2. NetTypeOK'
      BY <1>40, <1>n, RxHangUpType
      DEF RxClosed, NetTypeOK, RxExit
    <2> QED
      BY <1>40, <2>1, <2>2
      DEF RxClosed, TxTypeOK, DiskTypeOK, EnvTypeOK, disk, env
  <1>41. CASE RxReadError
    <2>1. RxTypeOK'
      BY <1>41, <1>n
      DEF RxReadError, RxTypeOK, RxExit
    <2>2. NetTypeOK'
      BY <1>41, <1>n, RxHangUpType
      DEF RxReadError, NetTypeOK, RxExit
    <2> QED
      BY <1>41, <2>1, <2>2
      DEF RxReadError, TxTypeOK, DiskTypeOK, EnvTypeOK, disk, env
  <1>42. CASE ConnectionLost
    <2>1. NetTypeOK'
      BY <1>42, <1>n, PrefixType
      DEF ConnectionLost, NetTypeOK
    <2> QED
      BY <1>42, <2>1
      DEF ConnectionLost, TxTypeOK, RxTypeOK, DiskTypeOK, EnvTypeOK, disk, env
  <1>43. CASE RxCrash
    <2>1. RxTypeOK'
      BY <1>43, <1>n
      DEF RxCrash, RxTypeOK, RxExit
    <2>2. NetTypeOK'
      BY <1>43, <1>n, RxHangUpType
      DEF RxCrash, NetTypeOK, RxExit
    <2>3. DiskTypeOK'
      <3>1. PICK n \in part.synced..Len(part.data) :
              part' = [part EXCEPT !.data = SubSeq(part.data, 1, n),
                                   !.synced = n]
        BY <1>43 DEF RxCrash
      <3>2. n \in 0..Len(part.data) /\ part.data \in Seq(Byte)
        BY SMTT(30) DEF DiskTypeOK
      <3>3. SubSeq(part.data, 1, n) \in Seq(Byte) /\ n \in Nat
        BY <3>2, SMTT(30)
      <3>4. part' \in [exists : BOOLEAN, data : Seq(Byte), synced : Nat]
        BY <3>1, <3>3 DEF DiskTypeOK
      <3> QED
        BY <1>43, <3>4 DEF RxCrash, DiskTypeOK
    <2>4. EnvTypeOK'
      BY <1>43, <1>n, SMTT(30)
      DEF RxCrash, EnvTypeOK, env
    <2> QED
      BY <1>43, <2>1, <2>2, <2>3, <2>4
      DEF RxCrash, TxTypeOK
  <1>44. CASE TxCrash
    <2>1. TxTypeOK'
      BY <1>44, <1>n
      DEF TxCrash, TxTypeOK
    <2>2. NetTypeOK'
      BY <1>44, <1>n, TxHangUpType
      DEF TxCrash, NetTypeOK
    <2>3. EnvTypeOK'
      BY <1>44, <1>n, SMTT(30)
      DEF TxCrash, EnvTypeOK, env
    <2> QED
      BY <1>44, <2>1, <2>2, <2>3
      DEF TxCrash, RxTypeOK, DiskTypeOK, disk
  <1>M. CASE RxMetadata
    <2> DEFINE state == IF HasPartial THEN rx.mem
                        ELSE [rx.mem EXCEPT !.has = TRUE, !.received = 0]
               opened == [rx EXCEPT !.mem = state, !.size = Head(s2r).size,
                                    !.sha = Head(s2r).sha]
    <2>1. /\ Head(s2r).size \in Nat /\ Head(s2r).sha \in Versions
          /\ rx.tid \in Tids
      BY <1>M, <1>f DEF RxMetadata, RxTypeOK
    <2>2. state \in Journal
      BY DEF RxTypeOK, Rx, Journal
    <2>3. opened \in Rx /\ opened.pc = rx.pc /\ opened.tid = rx.tid
      BY <2>1, <2>2 DEF RxTypeOK, Rx
    <2> HIDE DEF state, opened
    <2>4. SaveJournal(rx.tid, state)
      BY <1>M DEF RxMetadata, state
    <2>5. /\ DOMAIN journal' \subseteq Tids
          /\ \A t \in DOMAIN journal' : journal'[t] \in Journal
      BY <2>1, <2>2, <2>4 DEF SaveJournal, DiskTypeOK
    <2>6. /\ part' \in [exists : BOOLEAN, data : Seq(Byte), synced : Nat]
          /\ published' \subseteq
               [tid : Tids, sha : Versions, size : Nat, content : Seq(Byte)]
          /\ rx' = opened \/ rx' = [opened EXCEPT !.pc = "file",
                                                  !.hashed = part'.data]
      <3>1. CASE AlreadyReceived
        <4>1. /\ published' = published \cup {Publication(part.data)}
              /\ part' = NoPart /\ rx' = opened
          BY <1>M, <3>1 DEF RxMetadata, opened, state
        <4>2. Publication(part.data) \in
                [tid : Tids, sha : Versions, size : Nat, content : Seq(Byte)]
          BY <2>1 DEF Publication, DiskTypeOK
        <4> QED
          BY <4>1, <4>2 DEF DiskTypeOK
      <3>2. CASE ~AlreadyReceived
        <4>1. /\ part' = IF AppendsToPart THEN part
                         ELSE [NoPart EXCEPT !.exists = TRUE]
              /\ rx' = [opened EXCEPT !.pc = "file", !.hashed = part'.data]
              /\ published' = published
          BY <1>M, <3>2 DEF RxMetadata, SeedHasher, opened, state
        <4> QED
          BY <4>1 DEF DiskTypeOK
      <3> QED
        BY <3>1, <3>2
    <2>7. RxTypeOK'
      BY <1>M, <2>1, <2>3, <2>6 DEF RxMetadata, RxTypeOK, Rx
    <2>8. NetTypeOK'
      BY <1>M, <1>e, <1>q, RMsgSent
      DEF RxMetadata, SendToSender, RxReceives, NetTypeOK
    <2>9. DiskTypeOK'
      BY <1>M, <2>5, <2>6 DEF RxMetadata, DiskTypeOK
    <2> QED
      BY <1>M, <2>7, <2>8, <2>9 DEF RxMetadata, TxTypeOK, EnvTypeOK, env
  <1>F. ASSUME NEW p \in Peers, NEW vs \in Versions, NEW v \in Versions,
               FreshSend(p, vs, v), attempts' \in Nat
        PROVE  TypeOK'
    <2>1. minted + 1 \in Tids /\ minted' \in 0..MaxAttempts
      BY <1>F, <1>n, SMTT(30) DEF FreshSend, EnvTypeOK, Tids
    <2>2. Size[vs] \in Nat
      BY <1>n
    <2>3. TxTypeOK'
      BY <1>F, <1>t, <2>1, <2>2 DEF FreshSend, TxTypeOK, Tx
    <2>4. RxTypeOK'
      BY <1>F DEF FreshSend, Dial, RxTypeOK, Rx
    <2>5. [type |-> "request", tid |-> minted + 1, sha |-> v] \in SMsg
      BY <2>1, SMsgSent
    <2>6. NetTypeOK'
      BY <1>F, <2>5, SMTT(30) DEF FreshSend, Dial, NetTypeOK
    <2> QED
      BY <1>F, <2>1, <2>3, <2>4, <2>6
      DEF FreshSend, Dial, DiskTypeOK, EnvTypeOK, disk
  <1>S. ASSUME NEW p \in Peers, NEW vs \in Versions, NEW v \in Versions,
               StartSend(p, vs, v)
        PROVE  TypeOK'
    BY <1>S, <1>F, SMTT(30) DEF StartSend, StartAttempt, EnvTypeOK
  <1>R. ASSUME NEW vs \in Versions, NEW v \in Versions, Redial(vs, v)
        PROVE  TypeOK'
    <2>1. tx.peer \in Peers
      BY DEF TxTypeOK, Tx
    <2> QED
      BY <1>R, <1>F, <2>1 DEF Redial, EnvTypeOK
  <1>U. ASSUME NEW p \in Peers, NEW t \in Tids, NEW v \in Versions,
               StartResume(p, t, v)
        PROVE  TypeOK'
    <2>1. TxTypeOK'
      BY <1>U, <1>n, <1>t DEF StartResume, TxTypeOK, Tx
    <2>2. RxTypeOK'
      BY <1>U DEF StartResume, Dial, RxTypeOK, Rx
    <2>3. [type |-> "query", tid |-> t] \in SMsg
      BY SMsgSent
    <2>4. NetTypeOK'
      BY <1>U, <2>3, SMTT(30) DEF StartResume, Dial, NetTypeOK
    <2> QED
      BY <1>U, <2>1, <2>2, <2>4, SMTT(30)
      DEF StartResume, StartAttempt, Dial, DiskTypeOK, EnvTypeOK, disk
  <1>A. ASSUME NEW type \in {"cancel", "close"}, TxAbort(type)
        PROVE  TypeOK'
    <2>1. TxTypeOK'
      BY <1>A DEF TxAbort, TxTypeOK
    <2>2. Deliver(s2r, [type |-> type]) \in Seq(SMsg)
      BY <1>d, SMsgSent
    <2>3. NetTypeOK'
      BY <1>A, <2>2, TxHangUpType DEF TxAbort, NetTypeOK
    <2> QED
      BY <1>A, <2>1, <2>3
      DEF TxAbort, RxTypeOK, DiskTypeOK, EnvTypeOK, disk, env
  <1>X. ASSUME NEW t \in Tids, Expire(t)
        PROVE  TypeOK'
    BY <1>X DEF Expire, TxTypeOK, RxTypeOK, NetTypeOK, DiskTypeOK, EnvTypeOK,
                net, env
  <1>V. CASE UNCHANGED vars
    BY <1>V DEF vars, TxTypeOK, RxTypeOK, NetTypeOK, DiskTypeOK, EnvTypeOK,
                net, disk, env
  <1> QED
    BY <1>1, <1>2, <1>3, <1>4, <1>5, <1>6, <1>7, <1>8, <1>9, <1>10, <1>11,
       <1>12, <1>13, <1>14, <1>15, <1>16, <1>17, <1>18, <1>19, <1>20,
       <1>21, <1>22, <1>23, <1>24, <1>25, <1>26, <1>27, <1>28, <1>29,
       <1>30, <1>31, <1>32, <1>33, <1>34, <1>35, <1>36, <1>37, <1>38,
       <1>39, <1>40, <1>41, <1>42, <1>43, <1>44, <1>M, <1>S, <1>R, <1>U,
       <1>A, <1>X, <1>V
    DEF Next, TxStep, RxStep, UserStep, EnvStep

(* Whatever happens to the connection, the disk and the daemons, every     *)
(* variable keeps its type (TypeOK).                                       *)
THEOREM TypeCorrect == Spec => []TypeOK
  BY TypeInit, TypeNext, PTL DEF Spec

-----------------------------------------------------------------------------
(* Integrity: the bytes that were hashed are those in the .part, so the    *)
(* file that is renamed is the one that was verified.                      *)

LEMMA IntegrityInit == Init => HashedIsOnDisk /\ PublishedIsVerified
  BY SMTT(30) DEF Init, HashedIsOnDisk, Receiving, PublishedIsVerified, RxIdle

(* Steps that do not touch the file being received, and steps after which  *)
(* none is, keep the invariant.                                            *)
LEMMA IntegrityFrame ==
    ASSUME HashedIsOnDisk, PublishedIsVerified, published' = published,
           UNCHANGED <<rx, part>> \/ ~Receiving'
    PROVE  HashedIsOnDisk' /\ PublishedIsVerified'
  BY DEF HashedIsOnDisk, PublishedIsVerified, Receiving

LEMMA IdleNotReceiving ==
    /\ rx' = RxIdle => ~Receiving'
    /\ \A p : rx' = [RxIdle EXCEPT !.pc = "main", !.peer = p] => ~Receiving'
  <1>1. \A p : [RxIdle EXCEPT !.pc = "main", !.peer = p].pc = "main"
    BY DEF RxIdle
  <1> QED
    BY <1>1, IdleType DEF Receiving

LEMMA IntegrityNext ==
    ASSUME TypeOK, HashedIsOnDisk, PublishedIsVerified, [Next]_vars
    PROVE  HashedIsOnDisk' /\ PublishedIsVerified'
  <1>1. ASSUME TxStep \/ ConnectionLost \/ TxCrash \/ UNCHANGED vars
                 \/ (\E t \in Tids : Expire(t))
                 \/ (\E type \in {"cancel", "close"} : TxAbort(type))
        PROVE  UNCHANGED <<rx, part, published>>
    BY <1>1
    DEF TxStep, ConnectionLost, TxCrash, vars, Expire, TxAbort, TxAccepted,
        TxRejected, TxAcceptTimeout, TxResumable, TxNotResumable,
        TxMetaAccepted, TxMetaRefused, TxSkipChunk, TxSendChunk, TxChunkAck,
        TxComplete, TxTransferAck, TxClosed, TxReadError, disk
  <1>2. ASSUME UserStep \/ (\E vs, v \in Versions : Redial(vs, v))
        PROVE  published' = published /\ ~Receiving'
    BY <1>2, IdleNotReceiving
    DEF UserStep, StartSend, StartResume, Redial, FreshSend, Dial, disk
  <1>3. ASSUME RxOpenFails \/ RxCompleteFails \/ RxSessionClose \/ RxBadChunk
                 \/ RxMisplacedChunk \/ RxWriteFails \/ RxSaveFails
                 \/ RxChunkAckFails \/ RxMismatch \/ RxCancelled \/ RxClosed
                 \/ RxReadError \/ RxCrash \/ RxComplete \/ RxStopped
        PROVE  published' = published /\ ~Receiving'
    BY <1>3, IdleNotReceiving
    DEF RxOpenFails, RxCompleteFails, RxSessionClose, RxBadChunk,
        RxMisplacedChunk, RxWriteFails, RxSaveFails, RxChunkAckFails,
        RxMismatch, RxCancelled, RxClosed, RxReadError, RxCrash, RxComplete,
        RxStopped, RxExit, disk
  <1>4. ASSUME RxRequest \/ RxReject \/ RxAccept \/ RxResumeQuery
                 \/ RxModified
        PROVE  published' = published /\ ~Receiving'
    BY <1>4
    DEF TypeOK, RxTypeOK, Rx, RxRequest, RxReject, RxAccept, RxResumeQuery,
        RxModified, EnterTransfer, Receiving, disk
  <1>5. ASSUME RxPathRejected \/ RxJailed \/ RxIgnore
        PROVE  UNCHANGED <<rx, part, published>>
    BY <1>5 DEF RxPathRejected, RxJailed, RxIgnore, disk
  <1>6. CASE RxMetadata
    <2>1. CASE AlreadyReceived
      <3>1. /\ published' = published \cup {Publication(part.data)}
            /\ rx'.pc = "transfer"
        BY <1>6, <2>1 DEF RxMetadata, TypeOK, RxTypeOK, Rx
      <3> QED
        BY <2>1, <3>1, SMTT(30)
        DEF AlreadyReceived, Publication, PublishedIsVerified, HashedIsOnDisk,
            Receiving
    <2>2. CASE ~AlreadyReceived
      <3>1. /\ published' = published
            /\ part' = IF AppendsToPart THEN part
                       ELSE [NoPart EXCEPT !.exists = TRUE]
            /\ rx'.hashed = part'.data
        BY <1>6, <2>2 DEF RxMetadata, SeedHasher, TypeOK, RxTypeOK, Rx
      <3>2. part'.exists
        BY <3>1 DEF AppendsToPart, NoPart
      <3> QED
        BY <3>1, <3>2 DEF PublishedIsVerified, HashedIsOnDisk
    <2> QED
      BY <2>1, <2>2
  <1>7. CASE RxWriteChunk
    <2>1. part.exists /\ rx.hashed = part.data
      BY <1>7 DEF RxWriteChunk, NextChunk, HashedIsOnDisk, Receiving
    <2>2. /\ part'.data = part.data \o ChunkData /\ part'.exists = part.exists
          /\ rx'.hashed = rx.hashed \o ChunkData
          /\ published' = published
      BY <1>7
      DEF RxWriteChunk, TypeOK, RxTypeOK, Rx, DiskTypeOK
    <2> QED
      BY <2>1, <2>2 DEF HashedIsOnDisk, PublishedIsVerified
  <1>8. CASE RxDuplicate \/ RxSave \/ RxChunkAck
    <2>1. Receiving
      BY <1>8 DEF RxDuplicate, RxSave, RxChunkAck, NextChunk, Receiving
    <2>2. /\ part'.data = part.data /\ part'.exists = part.exists
          /\ rx'.hashed = rx.hashed
          /\ published' = published
      BY <1>8
      DEF RxDuplicate, RxSave, RxChunkAck, TypeOK, RxTypeOK, Rx, DiskTypeOK,
          disk
    <2> QED
      BY <2>1, <2>2 DEF HashedIsOnDisk, PublishedIsVerified
  <1>9. CASE RxPublish
    <2>1. /\ part.data = FileOf(rx.sha) /\ Len(part.data) = rx.size
      BY <1>9
      DEF RxPublish, HashMatches, SizeMatches, Received, HashedIsOnDisk,
          Receiving
    <2>2. /\ published' = published \cup
               {[tid |-> rx.tid, sha |-> rx.sha, size |-> rx.size,
                 content |-> part.data]}
          /\ rx'.pc = "transfer"
      BY <1>9 DEF RxPublish, TypeOK, RxTypeOK, Rx
    <2> QED
      BY <2>1, <2>2, SMTT(30) DEF PublishedIsVerified, HashedIsOnDisk, Receiving
  <1> QED
    BY <1>1, <1>2, <1>3, <1>4, <1>5, <1>6, <1>7, <1>8, <1>9, IntegrityFrame
    DEF Next, RxStep, EnvStep

(* Every file at its final path is complete and is the content that was    *)
(* declared, for any sizes, faults and number of attempts                  *)
(* (PublishedIsVerified).                                                  *)
THEOREM Integrity == Spec => []PublishedIsVerified
  <1>1. Init => TypeOK /\ HashedIsOnDisk /\ PublishedIsVerified
    BY TypeInit, IntegrityInit
  <1>2. TypeOK /\ HashedIsOnDisk /\ PublishedIsVerified /\ [Next]_vars
          => (TypeOK /\ HashedIsOnDisk /\ PublishedIsVerified)'
    BY TypeNext, IntegrityNext
  <1> QED
    BY <1>1, <1>2, PTL DEF Spec

(* What is hashed is what is on disk (HashedIsOnDisk).                     *)
THEOREM HashCoversDisk == Spec => []HashedIsOnDisk
  <1>1. Init => TypeOK /\ HashedIsOnDisk /\ PublishedIsVerified
    BY TypeInit, IntegrityInit
  <1>2. TypeOK /\ HashedIsOnDisk /\ PublishedIsVerified /\ [Next]_vars
          => (TypeOK /\ HashedIsOnDisk /\ PublishedIsVerified)'
    BY TypeNext, IntegrityNext
  <1> QED
    BY <1>1, <1>2, PTL DEF Spec

-----------------------------------------------------------------------------
(* The journal: what a handler holds in memory is what is on disk, and     *)
(* progress is recorded only for synced bytes.                             *)

LEMMA JournalInit == Init => MemIsJournaled
  BY SMTT(30) DEF Init, MemIsJournaled, Receiving, RxIdle

LEMMA JournalFrame ==
    ASSUME MemIsJournaled, journal' = journal,
           rx' = rx \/ rx'.pc \in {"idle", "main", "consent"}
    PROVE  MemIsJournaled'
  BY DEF MemIsJournaled, Receiving

LEMMA IdleFrame ==
    /\ rx' = RxIdle => rx'.pc \in {"idle", "main", "consent"}
    /\ \A p : rx' = [RxIdle EXCEPT !.pc = "main", !.peer = p]
                => rx'.pc \in {"idle", "main", "consent"}
  <1>1. \A p : [RxIdle EXCEPT !.pc = "main", !.peer = p].pc = "main"
    BY DEF RxIdle
  <1> QED
    BY <1>1, IdleType

(* The steps that leave every journal as it is, except those that enter a  *)
(* transfer or are inside a file.                                          *)
JournalIdleStep ==
    \/ TxStep \/ ConnectionLost \/ TxCrash \/ UNCHANGED vars
    \/ \E t \in Tids : Expire(t)
    \/ \E type \in {"cancel", "close"} : TxAbort(type)
    \/ UserStep
    \/ \E vs, v \in Versions : Redial(vs, v)
    \/ RxRequest \/ RxReject \/ RxPathRejected \/ RxJailed \/ RxIgnore
    \/ RxOpenFails \/ RxCompleteFails \/ RxSessionClose \/ RxStopped
    \/ RxBadChunk \/ RxMisplacedChunk \/ RxWriteFails \/ RxSaveFails
    \/ RxChunkAckFails \/ RxMismatch \/ RxCancelled \/ RxClosed
    \/ RxReadError

LEMMA JournalIdle ==
    ASSUME TypeOK, JournalIdleStep
    PROVE  /\ journal' = journal
           /\ rx' = rx \/ rx'.pc \in {"idle", "main", "consent"}
  <1>1. ASSUME TxStep \/ ConnectionLost \/ TxCrash \/ UNCHANGED vars
                 \/ (\E t \in Tids : Expire(t))
                 \/ (\E type \in {"cancel", "close"} : TxAbort(type))
        PROVE  journal' = journal /\ rx' = rx
    BY <1>1
    DEF TxStep, ConnectionLost, TxCrash, vars, Expire, TxAbort, TxAccepted,
        TxRejected, TxAcceptTimeout, TxResumable, TxNotResumable,
        TxMetaAccepted, TxMetaRefused, TxSkipChunk, TxSendChunk, TxChunkAck,
        TxComplete, TxTransferAck, TxClosed, TxReadError, disk
  <1>2. ASSUME UserStep \/ (\E vs, v \in Versions : Redial(vs, v))
        PROVE  /\ journal' = journal
               /\ rx'.pc \in {"idle", "main", "consent"}
    BY <1>2, IdleFrame
    DEF UserStep, StartSend, StartResume, Redial, FreshSend, Dial, disk
  <1>3. ASSUME RxOpenFails \/ RxCompleteFails \/ RxSessionClose \/ RxStopped
                 \/ RxBadChunk \/ RxMisplacedChunk \/ RxWriteFails
                 \/ RxSaveFails \/ RxChunkAckFails \/ RxMismatch
                 \/ RxCancelled \/ RxClosed \/ RxReadError
        PROVE  /\ journal' = journal
               /\ rx'.pc \in {"idle", "main", "consent"}
    BY <1>3, IdleFrame
    DEF RxOpenFails, RxCompleteFails, RxSessionClose, RxStopped, RxBadChunk,
        RxMisplacedChunk, RxWriteFails, RxSaveFails, RxChunkAckFails,
        RxMismatch, RxCancelled, RxClosed, RxReadError, RxExit, disk
  <1>4. ASSUME RxRequest \/ RxReject \/ RxPathRejected \/ RxJailed \/ RxIgnore
        PROVE  /\ journal' = journal
               /\ rx' = rx \/ rx'.pc \in {"idle", "main", "consent"}
    BY <1>4
    DEF RxRequest, RxReject, RxPathRejected, RxJailed, RxIgnore, TypeOK,
        RxTypeOK, Rx, disk
  <1> QED
    BY <1>1, <1>2, <1>3, <1>4 DEF JournalIdleStep

(* Entering a transfer takes over the progress of its journal, or none.    *)
LEMMA EnterKeepsProgress ==
    ASSUME TypeOK, MemIsJournaled, NEW t \in Tids, NEW v \in Versions,
           EnterTransfer(t, v), journal' = journal
    PROVE  MemIsJournaled'
  <1>1. /\ rx'.pc = "transfer" /\ rx'.tid = t
        /\ rx'.mem = LoadedState(t, v)
    BY DEF EnterTransfer, TypeOK, RxTypeOK, Rx
  <1>2. t \in DOMAIN journal
          => journal[t].received = LoadedState(t, v).received
    BY DEF LoadedState, Continues, MemIsJournaled
  <1> QED
    BY <1>1, <1>2 DEF MemIsJournaled, Receiving

LEMMA JournalNext ==
    ASSUME TypeOK, MemIsJournaled, [Next]_vars
    PROVE  MemIsJournaled'
  <1> USE DEF TypeOK
  <1>1. CASE JournalIdleStep
    BY <1>1, JournalIdle, JournalFrame
  <1>2. CASE RxAccept
    BY <1>2, EnterKeepsProgress DEF RxAccept, RxTypeOK, Rx
  <1>3. CASE RxResumeQuery
    <2>1. CASE Resumable(Head(s2r).tid)
      <3>1. Head(s2r).tid \in Tids
        BY <1>3, TailType, SMsgFields DEF RxResumeQuery, RxReceives, NetTypeOK
      <3>2. journal[Head(s2r).tid].sha \in Versions
        BY <2>1 DEF Resumable, DiskTypeOK, Journal
      <3> QED
        BY <1>3, <2>1, <3>1, <3>2, EnterKeepsProgress DEF RxResumeQuery
    <2>2. CASE ~Resumable(Head(s2r).tid)
      BY <1>3, <2>2, JournalFrame DEF RxResumeQuery
    <2> QED
      BY <2>1, <2>2
  <1>4. CASE RxModified
    <2> DEFINE state == [rx.mem EXCEPT !.has = FALSE, !.received = 0]
    <2>1. state.received = 0 /\ ~state.has
      BY DEF RxTypeOK, Rx, Journal
    <2>2. /\ rx'.pc = "transfer" /\ rx'.tid = rx.tid /\ rx'.mem = state
          /\ SaveJournal(rx.tid, state) \/ ("io" \in Faults /\ journal' = journal)
      BY <1>4 DEF RxModified, RxTypeOK, Rx
    <2> HIDE DEF state
    <2>3. CASE SaveJournal(rx.tid, state)
      BY <2>1, <2>2, <2>3 DEF MemIsJournaled, Receiving, SaveJournal
    <2>4. CASE "io" \in Faults /\ journal' = journal
      BY <2>1, <2>2, <2>4 DEF MemIsJournaled, Receiving
    <2> QED
      BY <2>2, <2>3, <2>4
  <1>5. CASE RxMetadata
    <2> DEFINE state == IF HasPartial THEN rx.mem
                        ELSE [rx.mem EXCEPT !.has = TRUE, !.received = 0]
    <2>1. state.has
      BY DEF HasPartial, RxTypeOK, Rx, Journal
    <2>2. /\ rx'.tid = rx.tid /\ rx'.mem = state
          /\ SaveJournal(rx.tid, state)
      BY <1>5 DEF RxMetadata, RxTypeOK, Rx
    <2> HIDE DEF state
    <2> QED
      BY <2>1, <2>2 DEF MemIsJournaled, Receiving, SaveJournal
  <1>6. CASE RxSave
    <2> DEFINE state == [rx.mem EXCEPT !.received = Received]
    <2>1. state.has = rx.mem.has /\ rx.mem.has
      BY <1>6 DEF RxSave, MemIsJournaled, Receiving, RxTypeOK, Rx, Journal
    <2>2. /\ rx'.tid = rx.tid /\ rx'.mem = state
          /\ SaveJournal(rx.tid, state)
      BY <1>6 DEF RxSave, RxTypeOK, Rx
    <2> HIDE DEF state
    <2> QED
      BY <2>1, <2>2 DEF MemIsJournaled, Receiving, SaveJournal
  <1>7. CASE RxWriteChunk \/ RxDuplicate \/ RxChunkAck \/ RxPublish
    <2>1. Receiving
      BY <1>7
      DEF RxWriteChunk, RxDuplicate, RxChunkAck, RxPublish, NextChunk, Receiving
    <2>2. rx'.tid = rx.tid /\ rx'.mem = rx.mem /\ journal' = journal
      BY <1>7
      DEF RxWriteChunk, RxDuplicate, RxChunkAck, RxPublish, RxTypeOK, Rx, disk
    <2> QED
      BY <2>1, <2>2 DEF MemIsJournaled
  <1>8. CASE RxComplete
    BY <1>8, IdleFrame
    DEF RxComplete, DeleteJournal, MemIsJournaled, Receiving
  <1>9. CASE RxCrash
    BY <1>9, IdleFrame DEF RxCrash, RxExit, MemIsJournaled, Receiving
  <1> QED
    BY <1>1, <1>2, <1>3, <1>4, <1>5, <1>6, <1>7, <1>8, <1>9
    DEF JournalIdleStep, Next, RxStep, EnvStep

(* A journal is advanced only by RxSave, to the length of the synced .part. *)
LEMMA AdvanceIsSynced ==
    ASSUME TypeOK, HashedIsOnDisk, MemIsJournaled, [Next]_vars,
           NEW t \in DOMAIN journal', t \in DOMAIN journal,
           journal'[t].received > journal[t].received
    PROVE  journal'[t].received <= part'.synced
  <1> USE DEF TypeOK
  <1>0. journal[t].received \in Nat
    BY DEF DiskTypeOK, Journal
  <1>1. ASSUME journal' = journal PROVE FALSE
    BY <1>0, <1>1, SMTT(30)
  <1>2. CASE JournalIdleStep
    BY <1>1, <1>2, JournalIdle
  <1>3. CASE RxAccept \/ RxResumeQuery \/ RxWriteChunk \/ RxDuplicate
               \/ RxChunkAck \/ RxPublish
    BY <1>1, <1>3
    DEF RxAccept, RxResumeQuery, RxWriteChunk, RxDuplicate, RxChunkAck,
        RxPublish, disk
  <1>4. CASE RxModified
    <2>1. SaveJournal(rx.tid, [rx.mem EXCEPT !.has = FALSE, !.received = 0])
      BY <1>1, <1>4 DEF RxModified
    <2>2. [rx.mem EXCEPT !.has = FALSE, !.received = 0].received = 0
      BY DEF RxTypeOK, Rx, Journal
    <2> QED
      BY <1>0, <2>1, <2>2, SMTT(30) DEF SaveJournal
  <1>5. CASE RxMetadata
    <2> DEFINE state == IF HasPartial THEN rx.mem
                        ELSE [rx.mem EXCEPT !.has = TRUE, !.received = 0]
    <2>1. state.received = rx.mem.received \/ state.received = 0
      BY DEF RxTypeOK, Rx, Journal
    <2>2. SaveJournal(rx.tid, state) /\ rx.pc = "transfer"
      BY <1>5 DEF RxMetadata
    <2> HIDE DEF state
    <2>3. t = rx.tid => \/ journal[t].received = rx.mem.received
                        \/ rx.mem.received = 0
      BY <2>2 DEF MemIsJournaled
    <2> QED
      BY <1>0, <2>1, <2>2, <2>3, SMTT(30) DEF SaveJournal
  <1>6. CASE RxSave
    <2> DEFINE state == [rx.mem EXCEPT !.received = Received]
    <2>1. state.received = Received
      BY DEF RxTypeOK, Rx, Journal
    <2>2. /\ SaveJournal(rx.tid, state)
          /\ part'.synced = Len(part.data)
          /\ rx.hashed = part.data
      BY <1>6 DEF RxSave, DiskTypeOK, HashedIsOnDisk, Receiving
    <2>3. Len(part.data) \in Nat
      BY SMTT(30) DEF DiskTypeOK
    <2> HIDE DEF state
    <2> QED
      BY <1>0, <2>1, <2>2, <2>3, SMTT(30) DEF SaveJournal, Received
  <1>7. CASE RxComplete
    BY <1>0, <1>7, SMTT(30) DEF RxComplete, DeleteJournal
  <1>8. CASE RxCrash
    BY <1>0, <1>8, SMTT(30) DEF RxCrash
  <1> QED
    BY <1>2, <1>3, <1>4, <1>5, <1>6, <1>7, <1>8
    DEF JournalIdleStep, Next, RxStep, EnvStep

(* The handler's resume state is the one on disk, but for the entry of a   *)
(* modified file whose removal was not saved (MemIsJournaled).             *)
THEOREM JournalIsMemory == Spec => []MemIsJournaled
  <1>1. TypeOK /\ MemIsJournaled /\ [Next]_vars => (TypeOK /\ MemIsJournaled)'
    BY TypeNext, JournalNext
  <1> QED
    BY <1>1, TypeInit, JournalInit, PTL DEF Spec

(* The resume journal never runs ahead of the data it describes            *)
(* (JournalNeverAhead).                                                    *)
THEOREM JournalSafe == Spec => JournalNeverAhead
  <1>1. TypeOK /\ HashedIsOnDisk /\ MemIsJournaled /\ [Next]_vars
          => [\A t \in DOMAIN journal' :
                (t \in DOMAIN journal
                   /\ journal'[t].received > journal[t].received)
                  => journal'[t].received <= part'.synced]_vars
    BY AdvanceIsSynced
  <1> QED
    BY <1>1, TypeCorrect, HashCoversDisk, JournalIsMemory, PTL
    DEF Spec, JournalNeverAhead

(* Facts about the frames of a channel: which there are, and whether there *)
(* is at most one.                                                         *)
Frames(chan) == {chan[i] : i \in DOMAIN chan}
Single(chan) == Len(chan) <= 1

(* An empty channel has no frames.                                         *)
LEMMA EmptyChannel == Frames(<<>>) = {} /\ Single(<<>>)
  BY SMTT(30) DEF Frames, Single

(* A channel without frames is empty.                                      *)
LEMMA NoFrames ==
    ASSUME NEW S, NEW s \in Seq(S), Len(s) = 0
    PROVE  s = <<>>
  BY SMTT(30)

(* The frames may be of a larger set.                                      *)
LEMMA MoreFrames ==
    ASSUME NEW S, NEW T, NEW s \in Seq(S), S \subseteq T
    PROVE  s \in Seq(T)
  BY SMTT(30)

(* Taking the first frame of a channel.                                    *)
LEMMA HeadInRange ==
    ASSUME NEW S, NEW s \in Seq(S), s # <<>>
    PROVE  /\ Head(s) \in Frames(s)
           /\ Frames(Tail(s)) \subseteq Frames(s)
           /\ Single(s) => Tail(s) = <<>> /\ Frames(s) = {Head(s)}
  <1>1. Head(s) = s[1] /\ 1 \in DOMAIN s
    BY SMTT(30)
  <1>2. \A i \in DOMAIN Tail(s) : Tail(s)[i] = s[i + 1] /\ i + 1 \in DOMAIN s
    BY SMTT(30)
  <1>3. Head(s) \in Frames(s)
    BY <1>1 DEF Frames
  <1>4. Frames(Tail(s)) \subseteq Frames(s)
    BY <1>2 DEF Frames
  <1>5. ASSUME Single(s) PROVE Tail(s) = <<>> /\ Frames(s) = {Head(s)}
    <2>1. Len(s) = 1
      <3>1. Len(s) \in Nat \ {0}
        BY NoFrames, SMTT(30)
      <3> QED
        BY <1>5, <3>1, SMTT(30) DEF Single
    <2>2. Tail(s) = <<>>
      <3>1. Tail(s) \in Seq(S) /\ Len(Tail(s)) = 0
        BY <2>1, SMTT(30)
      <3> QED
        BY <3>1, NoFrames
    <2>3. DOMAIN s = {1}
      BY <2>1, SMTT(30)
    <2> QED
      BY <1>1, <2>2, <2>3 DEF Frames
  <1> QED
    BY <1>3, <1>4, <1>5

(* What a hang-up leaves of a channel was on it.                           *)
LEMMA PrefixRange ==
    ASSUME NEW S, NEW s \in Seq(S), NEW q \in Prefixes(s)
    PROVE  /\ Frames(q) \subseteq Frames(s)
           /\ Single(s) => Single(q)
           /\ s = <<>> => q = <<>>
           /\ Single(s) => q = <<>> \/ q = s
  <1>1. PICK n \in 0..Len(s) : q = SubSeq(s, 1, n)
    BY DEF Prefixes
  <1>2. Len(q) = n /\ \A i \in 1..n : q[i] = s[i]
    BY <1>1, SMTT(30)
  <1>3. DOMAIN q = 1..n /\ DOMAIN s = 1..Len(s) /\ q \in Seq(S)
    BY <1>1, <1>2, SMTT(30)
  <1>4. Frames(q) \subseteq Frames(s)
    BY <1>2, <1>3, SMTT(30) DEF Frames
  <1>5. Single(s) => Single(q) /\ (n = 0 \/ n = Len(s))
    BY <1>2, SMTT(30) DEF Single
  <1>6. n = 0 => q = <<>>
    BY <1>2, <1>3, SMTT(30)
  <1>7. n = Len(s) => q = s
    BY <1>2, <1>3, SMTT(30)
  <1>8. s = <<>> => n = 0
    BY SMTT(30)
  <1> QED
    BY <1>4, <1>5, <1>6, <1>7, <1>8

(* Writing a frame.                                                        *)
LEMMA AppendRange ==
    ASSUME NEW S, NEW s \in Seq(S), NEW m \in S
    PROVE  /\ Frames(Append(s, m)) = Frames(s) \cup {m}
           /\ s = <<>> => Single(Append(s, m))
           /\ Append(s, m) # <<>>
  <1>1. DOMAIN Append(s, m) = DOMAIN s \cup {Len(s) + 1}
    BY SMTT(30)
  <1>2. /\ \A i \in DOMAIN s : Append(s, m)[i] = s[i]
        /\ Append(s, m)[Len(s) + 1] = m
    BY SMTT(30)
  <1>3. Frames(Append(s, m)) = Frames(s) \cup {m}
    BY <1>1, <1>2 DEF Frames
  <1> QED
    BY <1>3, SMTT(30) DEF Single

(* Writing a frame to a connection that may be down.                       *)
LEMMA DeliverRange ==
    ASSUME NEW S, NEW s \in Seq(S), NEW m \in S
    PROVE  /\ Deliver(s, m) \in Seq(S)
           /\ Frames(s) \subseteq Frames(Deliver(s, m))
           /\ Frames(Deliver(s, m)) \subseteq Frames(s) \cup {m}
           /\ conn = "up" => Frames(Deliver(s, m)) = Frames(s) \cup {m}
           /\ conn # "up" => Deliver(s, m) = s
           /\ s = <<>> => Single(Deliver(s, m))
  BY AppendRange, EmptyChannel, SMTT(30) DEF Deliver

(* A hang-up leaves no frame where there was none.                         *)
LEMMA CountPrefix ==
    ASSUME NEW S, NEW s \in Seq(S), NEW q \in Prefixes(s), NEW type
    PROVE  Count(q, type) \subseteq Count(s, type)
  <1>1. PICK n \in 0..Len(s) : q = SubSeq(s, 1, n)
    BY DEF Prefixes
  <1>2. DOMAIN q \subseteq DOMAIN s /\ \A i \in DOMAIN q : q[i] = s[i]
    BY <1>1, SMTT(30)
  <1> QED
    BY <1>2 DEF Count

(* A frame of another type does not count.                                 *)
LEMMA CountAppend ==
    ASSUME NEW S, NEW s \in Seq(S), NEW m \in S, NEW type, m.type # type
    PROVE  Count(Append(s, m), type) = Count(s, type)
  <1>1. /\ DOMAIN Append(s, m) = DOMAIN s \cup {Len(s) + 1}
        /\ Len(s) + 1 \notin DOMAIN s
    BY SMTT(30)
  <1>2. /\ \A i \in DOMAIN s : Append(s, m)[i] = s[i]
        /\ Append(s, m)[Len(s) + 1] = m
    BY SMTT(30)
  <1> QED
    BY <1>1, <1>2 DEF Count

-----------------------------------------------------------------------------
(* Bytes a frame moves, and running totals of them along a channel.        *)
Weight(m) == IF m.type \in {"chunk", "chunk_ack"} THEN m.len ELSE 0

Along(chan, start, f) ==
    /\ f \in [0..Len(chan) -> Nat] /\ f[0] = start
    /\ \A i \in 1..Len(chan) : f[i] = f[i - 1] + Weight(chan[i])

(* The totals over frames that carry nothing.                              *)
LEMMA AlongNothing ==
    ASSUME NEW S, NEW s \in Seq(S), NEW a \in Nat,
           \A m \in Frames(s) : Weight(m) = 0
    PROVE  Along(s, a, [i \in 0..Len(s) |-> a])
  <1>1. \A i \in 1..Len(s) : s[i] \in Frames(s)
    BY SMTT(30) DEF Frames
  <1> QED
    BY <1>1, SMTT(30) DEF Along

(* The totals along what is left after a hang-up.                          *)
LEMMA AlongPrefix ==
    ASSUME NEW S, NEW s \in Seq(S), NEW a \in Nat, NEW f, Along(s, a, f),
           NEW q \in Prefixes(s), NEW g, g = [i \in 0..Len(q) |-> f[i]]
    PROVE  /\ Len(q) \in 0..Len(s) /\ \A i \in 1..Len(q) : q[i] = s[i]
           /\ Along(q, a, g)
  <1>1. PICK n \in 0..Len(s) : q = SubSeq(s, 1, n)
    BY DEF Prefixes
  <1>2. Len(q) = n /\ \A i \in 1..n : q[i] = s[i]
    BY <1>1, SMTT(30)
  <1>3. \A i \in 1..n : /\ i - 1 \in 0..n /\ i \in 0..n /\ i \in 1..Len(s)
    BY SMTT(30)
  <1>4. f \in [0..Len(s) -> Nat] /\ 0..n \subseteq 0..Len(s)
    BY SMTT(30) DEF Along
  <1>5. g \in [0..Len(q) -> Nat] /\ g[0] = a
    BY <1>2, <1>4, SMTT(30) DEF Along
  <1>6. \A i \in 1..n : f[i] = f[i - 1] + Weight(s[i])
    BY <1>3 DEF Along
  <1>7. \A i \in 1..Len(q) : g[i] = g[i - 1] + Weight(q[i])
    BY <1>2, <1>3, <1>6
  <1> QED
    BY <1>2, <1>5, <1>7 DEF Along

(* The totals when the first frame is taken.                               *)
LEMMA AlongTail ==
    ASSUME NEW S, NEW s \in Seq(S), s # <<>>, NEW a \in Nat, NEW f,
           Along(s, a, f), NEW g, g = [i \in 0..(Len(s) - 1) |-> f[i + 1]]
    PROVE  /\ Len(Tail(s)) = Len(s) - 1 /\ Len(s) \in Nat \ {0}
           /\ \A i \in 1..Len(Tail(s)) : Tail(s)[i] = s[i + 1]
           /\ f[1] = a + Weight(Head(s))
           /\ Along(Tail(s), f[1], g)
  <1>1. Len(s) \in Nat \ {0}
    BY NoFrames, SMTT(30)
  <1>2. /\ Len(Tail(s)) = Len(s) - 1 /\ Head(s) = s[1]
        /\ \A i \in 1..Len(Tail(s)) : Tail(s)[i] = s[i + 1]
    BY <1>1, SMTT(30)
  <1>3. f[1] = a + Weight(Head(s))
    BY <1>1, <1>2, SMTT(30) DEF Along
  <1>4. g \in [0..Len(Tail(s)) -> Nat] /\ g[0] = f[1]
    BY <1>1, <1>2, SMTT(30) DEF Along
  <1>5. ASSUME NEW i \in 1..Len(Tail(s))
        PROVE  g[i] = g[i - 1] + Weight(Tail(s)[i])
    <2>1. i + 1 \in 1..Len(s) /\ i - 1 \in 0..(Len(s) - 1) /\ i \in 0..(Len(s) - 1)
      BY <1>1, <1>2, SMTT(30)
    <2>2. f[i + 1] = f[(i + 1) - 1] + Weight(s[i + 1])
      BY <2>1 DEF Along
    <2>3. g[i] = f[i + 1] /\ g[i - 1] = f[(i - 1) + 1]
      BY <2>1
    <2>4. (i - 1) + 1 = i /\ (i + 1) - 1 = i
      BY <2>1, SMTT(30)
    <2> QED
      BY <1>2, <2>2, <2>3, <2>4
  <1> QED
    BY <1>1, <1>2, <1>3, <1>4, <1>5 DEF Along

(* The totals when a frame is written.                                     *)
LEMMA AlongAppend ==
    ASSUME NEW S, NEW s \in Seq(S), NEW m \in S, NEW a \in Nat, NEW f,
           Along(s, a, f), Weight(m) \in Nat, NEW g,
           g = [i \in 0..(Len(s) + 1) |->
                  IF i <= Len(s) THEN f[i] ELSE f[Len(s)] + Weight(m)]
    PROVE  /\ Len(Append(s, m)) = Len(s) + 1 /\ Len(s) \in Nat
           /\ \A i \in 1..Len(s) : Append(s, m)[i] = s[i]
           /\ Append(s, m)[Len(s) + 1] = m
           /\ f[Len(s)] \in Nat
           /\ g[Len(s) + 1] = f[Len(s)] + Weight(m)
           /\ \A i \in 0..Len(s) : g[i] = f[i]
           /\ Along(Append(s, m), a, g)
  <1>1. /\ Len(Append(s, m)) = Len(s) + 1 /\ Len(s) \in Nat
        /\ \A i \in 1..Len(s) : Append(s, m)[i] = s[i]
        /\ Append(s, m)[Len(s) + 1] = m
    BY SMTT(30)
  <1>2. f[Len(s)] \in Nat
    BY <1>1, SMTT(30) DEF Along
  <1>3. g[Len(s) + 1] = f[Len(s)] + Weight(m)
    BY <1>1, SMTT(30)
  <1>4. \A i \in 0..Len(s) : g[i] = f[i]
    BY <1>1, SMTT(30)
  <1>5. g \in [0..Len(Append(s, m)) -> Nat]
    BY <1>1, <1>2, SMTT(30) DEF Along
  <1>6. ASSUME NEW i \in 1..Len(Append(s, m))
        PROVE  g[i] = g[i - 1] + Weight(Append(s, m)[i])
    <2>1. CASE i = Len(s) + 1
      <3>1. i - 1 = Len(s) /\ Len(s) \in 0..Len(s)
        BY <1>1, <2>1, SMTT(30)
      <3> QED
        BY <1>1, <1>3, <1>4, <2>1, <3>1
    <2>2. CASE i \in 1..Len(s)
      <3>1. i - 1 \in 0..Len(s) /\ i \in 0..Len(s)
        BY <1>1, <2>2, SMTT(30)
      <3>2. f[i] = f[i - 1] + Weight(s[i])
        BY <2>2 DEF Along
      <3> QED
        BY <1>1, <1>4, <2>2, <3>1, <3>2
    <2> QED
      BY <1>1, <2>1, <2>2, SMTT(30)
  <1>7. g[0] = a
    BY <1>1, <1>4, SMTT(30) DEF Along
  <1> QED
    BY <1>1, <1>2, <1>3, <1>4, <1>5, <1>6, <1>7 DEF Along
(* Chunks follow each other from byte start on, up to end if all arrived.  *)
ChunkTrail(chan, start, end, up) ==
    \E g : /\ Along(chan, start, g)
           /\ \A i \in 1..Len(chan) : chan[i].off = g[i - 1]
           /\ up => g[Len(chan)] = end

(* Acknowledgments add up to at most bound, and to bound if all arrived.   *)
AckTrail(chan, start, bound, up) ==
    \E f : /\ Along(chan, start, f)
           /\ \A i \in 0..Len(chan) : f[i] <= bound
           /\ up => f[Len(chan)] = bound

(* Taking a chunk: it starts at the first byte that is missing.            *)
LEMMA ChunkTrailTail ==
    ASSUME NEW S, NEW s \in Seq(S), s # <<>>, NEW a \in Nat, NEW e, NEW up,
           ChunkTrail(s, a, e, up)
    PROVE  /\ Head(s).off = a
           /\ ChunkTrail(Tail(s), a + Weight(Head(s)), e, up)
  <1>1. PICK f : /\ Along(s, a, f)
                 /\ \A i \in 1..Len(s) : s[i].off = f[i - 1]
                 /\ up => f[Len(s)] = e
    BY DEF ChunkTrail
  <1> DEFINE g == [i \in 0..(Len(s) - 1) |-> f[i + 1]]
  <1>2. /\ Len(Tail(s)) = Len(s) - 1 /\ Len(s) \in Nat \ {0}
        /\ \A i \in 1..Len(Tail(s)) : Tail(s)[i] = s[i + 1]
        /\ f[1] = a + Weight(Head(s))
        /\ Along(Tail(s), f[1], g)
    BY <1>1, AlongTail
  <1>3. Head(s).off = a
    <2>1. Head(s) = s[1] /\ 1 \in 1..Len(s) /\ f[1 - 1] = a
      BY <1>1, <1>2, SMTT(30) DEF Along
    <2> QED
      BY <1>1, <2>1
  <1>4. ASSUME NEW i \in 1..Len(Tail(s)) PROVE Tail(s)[i].off = g[i - 1]
    <2>1. /\ i + 1 \in 1..Len(s) /\ i - 1 \in 0..(Len(s) - 1)
          /\ (i + 1) - 1 = i /\ (i - 1) + 1 = i
      BY <1>2, SMTT(30)
    <2>2. s[i + 1].off = f[(i + 1) - 1]
      BY <1>1, <2>1
    <2>3. g[i - 1] = f[(i - 1) + 1]
      BY <2>1
    <2> QED
      BY <1>2, <2>1, <2>2, <2>3
  <1>5. g[Len(Tail(s))] = f[Len(s)]
    <2>1. Len(s) - 1 \in 0..(Len(s) - 1) /\ (Len(s) - 1) + 1 = Len(s)
      BY <1>2, SMTT(30)
    <2> QED
      BY <1>2, <2>1
  <1> HIDE DEF g
  <1> QED
    BY <1>1, <1>2, <1>3, <1>4, <1>5 DEF ChunkTrail

(* Sending the next chunk.                                                 *)
LEMMA ChunkTrailSend ==
    ASSUME NEW S, NEW s \in Seq(S), NEW m \in S, NEW a \in Nat, NEW e,
           ChunkTrail(s, a, e, TRUE), m.off = e, Weight(m) \in Nat
    PROVE  ChunkTrail(Append(s, m), a, e + Weight(m), TRUE)
  <1>1. PICK f : /\ Along(s, a, f)
                 /\ \A i \in 1..Len(s) : s[i].off = f[i - 1]
                 /\ f[Len(s)] = e
    BY DEF ChunkTrail
  <1> DEFINE g == [i \in 0..(Len(s) + 1) |->
                     IF i <= Len(s) THEN f[i] ELSE f[Len(s)] + Weight(m)]
  <1>2. /\ Len(Append(s, m)) = Len(s) + 1 /\ Len(s) \in Nat
        /\ \A i \in 1..Len(s) : Append(s, m)[i] = s[i]
        /\ Append(s, m)[Len(s) + 1] = m
        /\ g[Len(s) + 1] = f[Len(s)] + Weight(m)
        /\ \A i \in 0..Len(s) : g[i] = f[i]
        /\ Along(Append(s, m), a, g)
    BY <1>1, AlongAppend, SMTT(30)
  <1> HIDE DEF g
  <1>3. ASSUME NEW i \in 1..Len(Append(s, m))
        PROVE  Append(s, m)[i].off = g[i - 1]
    <2>1. CASE i = Len(s) + 1
      <3>1. i - 1 = Len(s) /\ Len(s) \in 0..Len(s)
        BY <1>2, <2>1, SMTT(30)
      <3> QED
        BY <1>1, <1>2, <2>1, <3>1
    <2>2. CASE i \in 1..Len(s)
      <3>1. i - 1 \in 0..Len(s)
        BY <1>2, <2>2, SMTT(30)
      <3> QED
        BY <1>1, <1>2, <2>2, <3>1
    <2> QED
      BY <1>2, <2>1, <2>2, SMTT(30)
  <1> QED
    BY <1>1, <1>2, <1>3 DEF ChunkTrail

(* Losing the connection, or writing to a dead one.                        *)
LEMMA ChunkTrailCut ==
    ASSUME NEW S, NEW s \in Seq(S), NEW a \in Nat, NEW e, NEW e2, NEW up,
           ChunkTrail(s, a, e, up), NEW q \in Prefixes(s)
    PROVE  ChunkTrail(q, a, e2, FALSE)
  <1>1. PICK f : /\ Along(s, a, f)
                 /\ \A i \in 1..Len(s) : s[i].off = f[i - 1]
    BY DEF ChunkTrail
  <1> DEFINE g == [i \in 0..Len(q) |-> f[i]]
  <1>2. /\ Len(q) \in 0..Len(s) /\ \A i \in 1..Len(q) : q[i] = s[i]
        /\ Along(q, a, g)
    BY <1>1, AlongPrefix
  <1>3. \A i \in 1..Len(q) : q[i].off = g[i - 1]
    <2>1. \A i \in 1..Len(q) : i \in 1..Len(s) /\ i - 1 \in 0..Len(q)
      BY <1>2, SMTT(30)
    <2> QED
      BY <1>1, <1>2, <2>1
  <1> HIDE DEF g
  <1> QED
    BY <1>2, <1>3 DEF ChunkTrail

(* What is counted already is within the bound.                            *)
LEMMA AckTrailStart ==
    ASSUME NEW S, NEW s \in Seq(S), NEW a \in Nat, NEW b, NEW up,
           AckTrail(s, a, b, up)
    PROVE  a <= b
  <1>1. Len(s) \in Nat
    BY SMTT(30)
  <1> QED
    BY <1>1, SMTT(30) DEF AckTrail, Along

(* Reading an acknowledgment moves its length to the count.                *)
LEMMA AckTrailTail ==
    ASSUME NEW S, NEW s \in Seq(S), s # <<>>, NEW a \in Nat, NEW b, NEW up,
           AckTrail(s, a, b, up)
    PROVE  AckTrail(Tail(s), a + Weight(Head(s)), b, up)
  <1>1. PICK f : /\ Along(s, a, f)
                 /\ \A i \in 0..Len(s) : f[i] <= b
                 /\ up => f[Len(s)] = b
    BY DEF AckTrail
  <1> DEFINE g == [i \in 0..(Len(s) - 1) |-> f[i + 1]]
  <1>2. /\ Len(Tail(s)) = Len(s) - 1 /\ Len(s) \in Nat \ {0}
        /\ f[1] = a + Weight(Head(s))
        /\ Along(Tail(s), f[1], g)
    BY <1>1, AlongTail
  <1>3. \A i \in 0..Len(Tail(s)) : g[i] <= b
    <2>1. \A i \in 0..(Len(s) - 1) : i + 1 \in 0..Len(s)
      BY <1>2, SMTT(30)
    <2> QED
      BY <1>1, <1>2, <2>1
  <1>4. g[Len(Tail(s))] = f[Len(s)]
    <2>1. Len(s) - 1 \in 0..(Len(s) - 1) /\ (Len(s) - 1) + 1 = Len(s)
      BY <1>2, SMTT(30)
    <2> QED
      BY <1>2, <2>1
  <1> HIDE DEF g
  <1> QED
    BY <1>1, <1>2, <1>3, <1>4 DEF AckTrail

(* Sending an acknowledgment moves the bound by its length.                *)
LEMMA AckTrailSend ==
    ASSUME NEW S, NEW s \in Seq(S), NEW m \in S, NEW a \in Nat, NEW b \in Nat,
           AckTrail(s, a, b, TRUE), Weight(m) \in Nat
    PROVE  AckTrail(Append(s, m), a, b + Weight(m), TRUE)
  <1>1. PICK f : /\ Along(s, a, f)
                 /\ \A i \in 0..Len(s) : f[i] <= b
                 /\ f[Len(s)] = b
    BY DEF AckTrail
  <1> DEFINE g == [i \in 0..(Len(s) + 1) |->
                     IF i <= Len(s) THEN f[i] ELSE f[Len(s)] + Weight(m)]
  <1>2. /\ Len(Append(s, m)) = Len(s) + 1 /\ Len(s) \in Nat
        /\ g[Len(s) + 1] = f[Len(s)] + Weight(m)
        /\ \A i \in 0..Len(s) : g[i] = f[i]
        /\ Along(Append(s, m), a, g)
    BY <1>1, AlongAppend, SMTT(30)
  <1> HIDE DEF g
  <1>3. \A i \in 0..Len(s) : f[i] \in Nat
    BY <1>1 DEF Along
  <1>4. \A i \in 0..Len(Append(s, m)) : g[i] <= b + Weight(m)
    <2> SUFFICES ASSUME NEW i \in 0..Len(Append(s, m))
                 PROVE  g[i] <= b + Weight(m)
      OBVIOUS
    <2>1. CASE i = Len(s) + 1
      BY <1>1, <1>2, <2>1, SMTT(30)
    <2>2. CASE i \in 0..Len(s)
      <3>1. g[i] = f[i] /\ f[i] \in Nat /\ f[i] <= b
        BY <1>1, <1>2, <1>3, <2>2
      <3> QED
        BY <3>1, SMTT(30)
    <2> QED
      BY <1>2, <2>1, <2>2, SMTT(30)
  <1> QED
    BY <1>1, <1>2, <1>4 DEF AckTrail

(* Losing acknowledgments, or writing one to a dead connection.            *)
LEMMA AckTrailCut ==
    ASSUME NEW S, NEW s \in Seq(S), NEW a \in Nat, NEW b \in Nat,
           NEW c \in Nat, b <= c, NEW up,
           AckTrail(s, a, b, up), NEW q \in Prefixes(s)
    PROVE  AckTrail(q, a, c, FALSE)
  <1>1. PICK f : /\ Along(s, a, f)
                 /\ \A i \in 0..Len(s) : f[i] <= b
    BY DEF AckTrail
  <1> DEFINE g == [i \in 0..Len(q) |-> f[i]]
  <1>2. Len(q) \in 0..Len(s) /\ Along(q, a, g)
    BY <1>1, AlongPrefix
  <1>3. \A i \in 0..Len(q) : g[i] <= c
    <2> SUFFICES ASSUME NEW i \in 0..Len(q) PROVE g[i] <= c
      OBVIOUS
    <2>1. i \in 0..Len(s) /\ g[i] = f[i]
      BY <1>2, SMTT(30)
    <2>2. f[i] \in Nat /\ f[i] <= b
      BY <1>1, <2>1 DEF Along
    <2> QED
      BY <2>1, <2>2, SMTT(30)
  <1> HIDE DEF g
  <1> QED
    BY <1>2, <1>3 DEF AckTrail

(* A channel is a prefix of itself.                                        *)
LEMMA WholeIsPrefix ==
    ASSUME NEW S, NEW s \in Seq(S)
    PROVE  s \in Prefixes(s)
  <1>1. Len(s) \in 0..Len(s) /\ SubSeq(s, 1, Len(s)) = s
    BY SMTT(30)
  <1> QED
    BY <1>1 DEF Prefixes

-----------------------------------------------------------------------------
(* Elements that have slots of their own: none, fewer, one more, one less. *)
LEMMA AtMostNone ==
    /\ \A n \in Nat : AtMost({}, n)
    /\ \A S : AtMost(S, 0) => S = {}
  <1>1. ASSUME NEW n \in Nat PROVE AtMost({}, n)
    <2>1. [i \in {} |-> i] \in [{} -> 1..n]
      OBVIOUS
    <2> QED
      BY <2>1 DEF AtMost
  <1>2. ASSUME NEW S, AtMost(S, 0) PROVE S = {}
    <2>1. PICK slot \in [S -> 1..0] : TRUE
      BY <1>2 DEF AtMost
    <2>2. \A i \in S : slot[i] \in 1..0
      BY <2>1
    <2> QED
      BY <2>2, SMTT(30)
  <1> QED
    BY <1>1, <1>2

LEMMA AtMostFewer ==
    ASSUME NEW S, NEW Q \in SUBSET S, NEW n \in Nat, AtMost(S, n)
    PROVE  AtMost(Q, n)
  <1>1. PICK slot \in [S -> 1..n] : \A i, j \in S : slot[i] = slot[j] => i = j
    BY DEF AtMost
  <1> DEFINE f == [i \in Q |-> slot[i]]
  <1>2. f \in [Q -> 1..n] /\ \A i, j \in Q : f[i] = f[j] => i = j
    BY <1>1
  <1> HIDE DEF f
  <1> QED
    BY <1>2 DEF AtMost

LEMMA AtMostOneMore ==
    ASSUME NEW S, NEW x, NEW n \in Nat, AtMost(S, n)
    PROVE  AtMost(S \cup {x}, n + 1)
  <1>1. PICK slot \in [S -> 1..n] : \A i, j \in S : slot[i] = slot[j] => i = j
    BY DEF AtMost
  <1> DEFINE f == [i \in S \cup {x} |-> IF i \in S THEN slot[i] ELSE n + 1]
  <1>2. f \in [S \cup {x} -> 1..(n + 1)]
    BY <1>1, SMTT(30)
  <1>3. \A i, j \in S \cup {x} : f[i] = f[j] => i = j
    BY <1>1, SMTT(30)
  <1> HIDE DEF f
  <1> QED
    BY <1>2, <1>3 DEF AtMost

(* The one that has the last slot takes the slot that became free.         *)
LEMMA AtMostOneLess ==
    ASSUME NEW S, NEW x \in S, NEW n \in Nat, AtMost(S, n)
    PROVE  n - 1 \in Nat /\ AtMost(S \ {x}, n - 1)
  <1>1. PICK slot \in [S -> 1..n] : \A i, j \in S : slot[i] = slot[j] => i = j
    BY DEF AtMost
  <1> DEFINE f == [i \in S \ {x} |-> IF slot[i] = n THEN slot[x] ELSE slot[i]]
  <1>2. n - 1 \in Nat
    BY <1>1, SMTT(30)
  <1>3. \A i \in S \ {x} : f[i] \in 1..(n - 1)
    BY <1>1, SMTT(30)
  <1>4. f \in [S \ {x} -> 1..(n - 1)]
    BY <1>3
  <1>5. \A i, j \in S \ {x} : f[i] = f[j] => i = j
    BY <1>1
  <1> HIDE DEF f
  <1>6. AtMost(S \ {x}, n - 1)
    BY <1>4, <1>5 DEF AtMost
  <1> QED
    BY <1>2, <1>6

(* Elements that can be told apart by elements of S are not more than S.   *)
LEMMA AtMostImage ==
    ASSUME NEW S, NEW Q, NEW g \in [Q -> S], NEW n \in Nat, AtMost(S, n),
           \A i, j \in Q : g[i] = g[j] => i = j
    PROVE  AtMost(Q, n)
  <1>1. PICK slot \in [S -> 1..n] : \A i, j \in S : slot[i] = slot[j] => i = j
    BY DEF AtMost
  <1> DEFINE f == [i \in Q |-> slot[g[i]]]
  <1>2. f \in [Q -> 1..n] /\ \A i, j \in Q : f[i] = f[j] => i = j
    BY <1>1
  <1> HIDE DEF f
  <1> QED
    BY <1>2 DEF AtMost

(* Writing a frame adds at most one of its type,                           *)
LEMMA AtMostAppend ==
    ASSUME NEW S, NEW s \in Seq(S), NEW m \in S, NEW type, NEW n \in Nat,
           AtMost(Count(s, type), n)
    PROVE  AtMost(Count(Append(s, m), type), n + 1)
  <1>1. Count(Append(s, m), type) \subseteq Count(s, type) \cup {Len(s) + 1}
    <2>1. /\ DOMAIN Append(s, m) = DOMAIN s \cup {Len(s) + 1}
          /\ \A i \in DOMAIN s : Append(s, m)[i] = s[i]
      BY SMTT(30)
    <2> QED
      BY <2>1 DEF Count
  <1>2. AtMost(Count(s, type) \cup {Len(s) + 1}, n + 1)
    BY AtMostOneMore
  <1>3. n + 1 \in Nat
    BY SMTT(30)
  <1> QED
    BY <1>1, <1>2, <1>3, AtMostFewer

(* and reading one leaves the others, one place further down.              *)
LEMMA AtMostTail ==
    ASSUME NEW S, NEW s \in Seq(S), s # <<>>, NEW type, NEW n \in Nat,
           AtMost(Count(s, type), n)
    PROVE  /\ AtMost(Count(Tail(s), type), n)
           /\ Head(s).type = type
                => n - 1 \in Nat /\ AtMost(Count(Tail(s), type), n - 1)
  <1> DEFINE Q == Count(Tail(s), type)
             g == [i \in Q |-> i + 1]
  <1>1. /\ Head(s) = s[1] /\ 1 \in DOMAIN s
        /\ \A i \in DOMAIN Tail(s) : Tail(s)[i] = s[i + 1] /\ i + 1 \in DOMAIN s
        /\ DOMAIN Tail(s) \subseteq Nat \ {0}
    BY SMTT(30)
  <1>2. /\ g \in [Q -> Count(s, type) \ {1}]
        /\ \A i, j \in Q : g[i] = g[j] => i = j
    BY <1>1, SMTT(30) DEF Count
  <1>3. Count(s, type) \ {1} \subseteq Count(s, type)
    OBVIOUS
  <1>4. AtMost(Count(s, type) \ {1}, n)
    BY <1>3, AtMostFewer
  <1> HIDE DEF Q, g
  <1>5. AtMost(Q, n)
    BY <1>2, <1>4, AtMostImage, SMTT(30)
  <1>6. ASSUME Head(s).type = type
        PROVE  n - 1 \in Nat /\ AtMost(Q, n - 1)
    <2>1. 1 \in Count(s, type)
      BY <1>1, <1>6 DEF Count
    <2>2. n - 1 \in Nat /\ AtMost(Count(s, type) \ {1}, n - 1)
      BY <2>1, AtMostOneLess
    <2> QED
      BY <1>2, <2>2, AtMostImage, SMTT(30)
  <1> QED
    BY <1>5, <1>6 DEF Q

(* A hang-up leaves no more frames of a type than there were.              *)
LEMMA AtMostPrefix ==
    ASSUME NEW S, NEW s \in Seq(S), NEW q \in Prefixes(s), NEW type,
           NEW n \in Nat, AtMost(Count(s, type), n)
    PROVE  AtMost(Count(q, type), n)
  <1>1. Count(q, type) \subseteq Count(s, type)
    BY CountPrefix
  <1> QED
    BY <1>1, AtMostFewer

(* No frame of a type is one that is counted for it.                       *)
LEMMA CountNone ==
    ASSUME NEW S, NEW s \in Seq(S), NEW type
    PROVE  Count(s, type) = {} <=> \A m \in Frames(s) : m.type # type
  BY DEF Count, Frames

LEMMA CountEmpty == \A type : Count(<<>>, type) = {}
  BY SMTT(30) DEF Count

(* Counting when a frame is sent.                                          *)
LEMMA AtMostDeliver ==
    ASSUME NEW S, NEW s \in Seq(S), NEW m \in S, NEW type, NEW n \in Nat,
           AtMost(Count(s, type), n)
    PROVE  /\ m.type # type => AtMost(Count(Deliver(s, m), type), n)
           /\ AtMost(Count(Deliver(s, m), type), n + 1)
  <1>1. Count(s, type) \subseteq Count(s, type) \cup {1}
    OBVIOUS
  <1>2. n + 1 \in Nat
    BY SMTT(30)
  <1>3. AtMost(Count(s, type), n + 1)
    <2>1. AtMost(Count(s, type) \cup {1}, n + 1)
      BY AtMostOneMore
    <2> QED
      BY <1>1, <1>2, <2>1, AtMostFewer
  <1>4. m.type # type => AtMost(Count(Append(s, m), type), n)
    BY CountAppend
  <1>5. AtMost(Count(Append(s, m), type), n + 1)
    BY AtMostAppend
  <1> QED
    BY <1>3, <1>4, <1>5 DEF Deliver

(* Two frames of other types written in a row.                             *)
LEMMA TwoAppended ==
    ASSUME NEW S, NEW s \in Seq(S), NEW a \in S, NEW b \in S
    PROVE  /\ s \o <<a, b>> = Append(Append(s, a), b)
           /\ Append(s, a) \in Seq(S)
           /\ \A type : a.type # type /\ b.type # type
                => Count(s \o <<a, b>>, type) = Count(s, type)
  <1>1. s \o <<a, b>> = Append(Append(s, a), b) /\ Append(s, a) \in Seq(S)
    BY SMTT(30)
  <1>2. ASSUME NEW type, a.type # type, b.type # type
        PROVE  Count(Append(Append(s, a), b), type) = Count(s, type)
    <2>1. Count(Append(s, a), type) = Count(s, type)
      BY <1>2, CountAppend
    <2>2. Count(Append(Append(s, a), b), type) = Count(Append(s, a), type)
      BY <1>1, <1>2, CountAppend
    <2> QED
      BY <2>1, <2>2
  <1> QED
    BY <1>1, <1>2

=============================================================================
