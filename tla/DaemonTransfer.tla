--------------------------- MODULE DaemonTransfer ---------------------------
(***************************************************************************)
(* One file sent by a daemon (nxfr-daemon/src/handler.rs, the outbound     *)
(* functions, and sender.rs) to another one (handler.rs, the incoming      *)
(* functions, and receiver.rs), with the resume journal of                 *)
(* nxfr-storage/src/resume.rs.  Every attempt dials a connection of its    *)
(* own; what survives between attempts is the receiver's disk: the .part   *)
(* file, the journals and the published files.                             *)
(*                                                                         *)
(* All attempts send to the same destination name, so they share one .part *)
(* path.  A content is a version: byte i of version v is <<v, i>>, and     *)
(* SHA-256 is taken as injective, so the hash of a content is the content. *)
(* A new attempt is dialled only after the receiver's handler of the       *)
(* previous one has ended: handlers that overlap are not modelled.         *)
(***************************************************************************)
EXTENDS Integers, Sequences

CONSTANTS
    Peers,         \* device ids that may connect
    Versions,      \* contents the sent path may have
    Size,          \* length of each version
    ChunkLen,      \* CHUNK_DATA_SIZE
    MaxInFlight,   \* MAX_IN_FLIGHT
    MaxAttempts,   \* bound: sends and retries a user starts
    MaxCrashes,    \* bound: daemon restarts, of either side
    Faults         \* what the environment may do, a subset of AllFaults

AllFaults ==
    {"loss", "io", "edit", "corrupt", "sanitize", "jail", "cancel", "close",
     "expiry"}

ASSUME ConstantsAssumption ==
    /\ Peers # {} /\ Versions # {}
    /\ Size \in [Versions -> Nat]
    /\ ChunkLen \in Nat \ {0} /\ MaxInFlight \in Nat \ {0}
    /\ MaxAttempts \in Nat /\ MaxCrashes \in Nat
    /\ Faults \subseteq AllFaults

VARIABLES
    tx,         \* the sender's outbound task
    rx,         \* the receiver's connection handler
    conn,       \* "up" | "down": the TCP/TLS connection between them
    s2r, r2s,   \* frames in flight, each way, in order
    part,       \* the receiver's .part file
    journal,    \* the receiver's <transfer_id>.json files
    expired,    \* transfers whose journal is past expires_at
    published,  \* files renamed to their final path
    outbound,   \* the sender's outbound-<transfer_id>.json files
    completed,  \* transfers the sender reported as complete
    minted,     \* transfer ids generated so far
    attempts, crashes   \* counters behind the bounds

net  == <<conn, s2r, r2s>>
disk == <<part, journal, expired, published>>
env  == <<minted, attempts, crashes>>
vars == <<tx, rx, net, disk, outbound, completed, env>>

(* An attempt generates at most one transfer id.                           *)
Tids == 1..MaxAttempts

(* Definitions named X_Fault are seeded faults: what X would be with a     *)
(* plausible bug.  No specification uses them.                             *)

-----------------------------------------------------------------------------
(* Contents, chunks and messages.                                          *)

Byte == Versions \X Nat
Bytes(v, off, len) == [i \in 1..len |-> <<v, off + i>>]
FileOf(v) == Bytes(v, 0, Size[v])

SMsg ==
    [type : {"request"}, tid : Tids, sha : Versions]
      \cup [type : {"query"}, tid : Tids]
      \cup [type : {"meta"}, size : Nat, sha : Versions]
      \cup [type : {"chunk"}, ver : Versions, off : Nat, len : Nat,
            last : BOOLEAN, ok : BOOLEAN]
      \cup [type : {"complete", "cancel", "close"}]

RMsg ==
    [type : {"accept", "reject", "error", "transfer_ack", "close"}]
      \cup [type : {"status"}, resumable : BOOLEAN, received : Nat]
      \cup [type : {"meta_ack"}, accepted : BOOLEAN]
      \cup [type : {"chunk_ack"}, len : Nat]

(* A ResumeState with at most one entry in its files map: has says whether *)
(* the entry is there.  received_ranges is always [(0, received_bytes)],   *)
(* or empty when received_bytes is 0.                                      *)
Journal == [peer : Peers, sha : Versions, has : BOOLEAN, received : Nat]

AnyPeer == CHOOSE p \in Peers : TRUE
AnyVersion == CHOOSE v \in Versions : TRUE

NoPart == [exists |-> FALSE, data |-> <<>>, synced |-> 0]

TxIdle ==
    [pc |-> "idle", peer |-> AnyPeer, tid |-> 0, size |-> 0,
     ver |-> AnyVersion, resume |-> FALSE, skip |-> 0, off |-> 0,
     inflight |-> 0, acked |-> 0]

RxIdle ==
    [pc |-> "idle", peer |-> AnyPeer, tid |-> 0,
     mem |-> [peer |-> AnyPeer, sha |-> AnyVersion, has |-> FALSE,
              received |-> 0],
     size |-> 0, sha |-> AnyVersion, hashed |-> <<>>,
     chunk |-> [len |-> 0, last |-> FALSE]]

Init ==
    /\ tx = TxIdle
    /\ rx = RxIdle
    /\ conn = "down" /\ s2r = <<>> /\ r2s = <<>>
    /\ part = NoPart
    /\ journal = [t \in {} |-> RxIdle.mem]
    /\ expired = {} /\ published = {}
    /\ outbound = {} /\ completed = {}
    /\ minted = 0 /\ attempts = 0 /\ crashes = 0

-----------------------------------------------------------------------------
(* The connection.  A frame written to a connection that is down is lost;  *)
(* the writer learns of it on its next read.  Closing or losing the        *)
(* connection keeps any prefix of what was in flight.                      *)

Prefixes(s) == {SubSeq(s, 1, n) : n \in 0..Len(s)}

Deliver(chan, m) == IF conn = "up" THEN Append(chan, m) ELSE chan

SendToReceiver(m) == s2r' = Deliver(s2r, m)
SendToSender(m) == r2s' = Deliver(r2s, m)

(* The task returns: its connection is dropped.                            *)
TxHangUp(sent) ==
    /\ conn' = "down"
    /\ s2r' \in Prefixes(sent)
    /\ r2s' = <<>>

RxHangUp(sent) ==
    /\ conn' = "down"
    /\ r2s' \in Prefixes(sent)
    /\ s2r' = <<>>

TxReceives(type) == r2s # <<>> /\ Head(r2s).type = type
RxReceives(type) == s2r # <<>> /\ Head(s2r).type = type

-----------------------------------------------------------------------------
(* The sender: handle_outbound_send, handle_outbound_resume.               *)

Dial(p, first) ==
    /\ rx.pc = "idle"
    /\ conn' = "up" /\ s2r' = <<first>> /\ r2s' = <<>>
    /\ rx' = [RxIdle EXCEPT !.pc = "main", !.peer = p]
    /\ UNCHANGED <<disk, outbound, completed, crashes>>

(* metadata() sees version vs, the read that follows sees version v: they  *)
(* differ when the file is edited in between.                              *)
FreshSend(p, vs, v) ==
    /\ minted < MaxAttempts
    /\ vs = v \/ "edit" \in Faults
    /\ minted' = minted + 1
    /\ tx' = [TxIdle EXCEPT !.pc = "accept", !.peer = p, !.tid = minted + 1,
                            !.size = Size[vs], !.ver = v]
    /\ Dial(p, [type |-> "request", tid |-> minted + 1, sha |-> v])

StartAttempt ==
    /\ tx.pc = "idle"
    /\ attempts < MaxAttempts
    /\ attempts' = attempts + 1

StartSend(p, vs, v) == StartAttempt /\ FreshSend(p, vs, v)

(* nxfr send --retry <transfer_id>, with any content under the path.       *)
StartResume(p, t, v) ==
    /\ StartAttempt
    /\ t \in 1..minted
    /\ tx' = [TxIdle EXCEPT !.pc = "status", !.peer = p, !.tid = t,
                            !.size = Size[v], !.ver = v, !.resume = TRUE]
    /\ Dial(p, [type |-> "query", tid |-> t])
    /\ UNCHANGED minted

(* The fresh send a resume falls back to, on a connection of its own.  The *)
(* code keeps the old connection open meanwhile, with nothing more to say  *)
(* on it: its handler waits in its main loop.  Here it is hung up before.  *)
Redial(vs, v) ==
    /\ tx.pc = "redial"
    /\ v = tx.ver \/ "edit" \in Faults
    /\ FreshSend(tx.peer, vs, v)
    /\ UNCHANGED attempts

Metadata == [type |-> "meta", size |-> tx.size, sha |-> tx.ver]

TxAccepted ==
    /\ tx.pc = "accept" /\ TxReceives("accept")
    /\ outbound' = outbound \cup {tx.tid}
    /\ tx' = [tx EXCEPT !.pc = "meta_ack"]
    /\ SendToReceiver(Metadata)
    /\ r2s' = Tail(r2s)
    /\ UNCHANGED <<rx, conn, disk, completed, env>>

TxRejected ==
    /\ tx.pc = "accept" /\ TxReceives("reject")
    /\ tx' = TxIdle
    /\ TxHangUp(Deliver(s2r, [type |-> "close"]))
    /\ UNCHANGED <<rx, disk, outbound, completed, env>>

TxAcceptTimeout ==
    /\ tx.pc = "accept"
    /\ tx' = TxIdle
    /\ TxHangUp(s2r)
    /\ UNCHANGED <<rx, disk, outbound, completed, env>>

TxResumable ==
    /\ tx.pc = "status" /\ TxReceives("status") /\ Head(r2s).resumable
    /\ tx' = [tx EXCEPT !.pc = "meta_ack", !.skip = Head(r2s).received]
    /\ SendToReceiver(Metadata)
    /\ r2s' = Tail(r2s)
    /\ UNCHANGED <<rx, conn, disk, outbound, completed, env>>

TxNotResumable ==
    /\ tx.pc = "status" /\ TxReceives("status") /\ ~Head(r2s).resumable
    /\ tx' = [tx EXCEPT !.pc = "redial"]
    /\ TxHangUp(s2r)
    /\ UNCHANGED <<rx, disk, outbound, completed, env>>

TxMetaAccepted ==
    /\ tx.pc = "meta_ack" /\ TxReceives("meta_ack") /\ Head(r2s).accepted
    /\ tx' = [tx EXCEPT !.pc = "stream",
                        !.acked = IF tx.resume THEN tx.skip ELSE 0]
    /\ r2s' = Tail(r2s)
    /\ UNCHANGED <<rx, conn, s2r, disk, outbound, completed, env>>

(* Only the resume treats a refusal of the metadata as a modified file.    *)
(* An ERROR that arrives first is not a FILE_METADATA_ACK: both fail.      *)
TxMetaRefused ==
    /\ tx.pc = "meta_ack"
    /\ \/ TxReceives("meta_ack") /\ ~Head(r2s).accepted
       \/ TxReceives("error")
    /\ IF tx.resume /\ TxReceives("meta_ack")
       THEN /\ tx' = [tx EXCEPT !.pc = "redial"]
            /\ TxHangUp(Deliver(s2r, [type |-> "close"]))
       ELSE /\ tx' = TxIdle
            /\ TxHangUp(s2r)
    /\ UNCHANGED <<rx, disk, outbound, completed, env>>

-----------------------------------------------------------------------------
(* The sender: send_file, send_file_resume.                                *)

Total == Size[tx.ver]
ChunkEnd == IF tx.off + ChunkLen < Total THEN tx.off + ChunkLen ELSE Total
ShouldSkip == ChunkEnd <= tx.skip
WindowFull_OffByOne == tx.inflight > MaxInFlight
WindowFull == tx.inflight >= MaxInFlight

TxSkipChunk ==
    /\ tx.pc = "stream" /\ tx.off < Total /\ ShouldSkip
    /\ tx' = [tx EXCEPT !.off = ChunkEnd]
    /\ UNCHANGED <<rx, net, disk, outbound, completed, env>>

TxSendChunk ==
    /\ tx.pc = "stream" /\ tx.off < Total /\ ~ShouldSkip /\ ~WindowFull
    /\ \E ok \in {TRUE} \cup {b \in BOOLEAN : "corrupt" \in Faults} :
         SendToReceiver([type |-> "chunk", ver |-> tx.ver, off |-> tx.off,
                         len |-> ChunkEnd - tx.off, last |-> ChunkEnd = Total,
                         ok |-> ok])
    /\ tx' = [tx EXCEPT !.off = ChunkEnd, !.inflight = tx.inflight + 1]
    /\ UNCHANGED <<rx, conn, r2s, disk, outbound, completed, env>>

(* Frames are read only when the window is full or everything is sent.     *)
Draining ==
    /\ tx.pc = "stream" /\ tx.inflight > 0
    /\ tx.off >= Total \/ (WindowFull /\ ~ShouldSkip)

TxChunkAck ==
    /\ Draining /\ r2s # <<>>
    /\ tx' = IF TxReceives("chunk_ack")
             THEN [tx EXCEPT !.inflight = tx.inflight - 1,
                             !.acked = tx.acked + Head(r2s).len]
             ELSE tx
    /\ r2s' = Tail(r2s)
    /\ UNCHANGED <<rx, conn, s2r, disk, outbound, completed, env>>

TxComplete ==
    /\ tx.pc = "stream" /\ tx.off >= Total /\ tx.inflight = 0
    /\ tx' = [tx EXCEPT !.pc = "transfer_ack"]
    /\ SendToReceiver([type |-> "complete"])
    /\ UNCHANGED <<rx, conn, r2s, disk, outbound, completed, env>>

(* Whatever the frame is, the outbound journal goes and the session is     *)
(* closed.  The write of SESSION_CLOSE may fail, and then the send does.   *)
TxTransferAck ==
    /\ tx.pc = "transfer_ack" /\ r2s # <<>>
    /\ outbound' = outbound \ {tx.tid}
    /\ \/ /\ tx' = [tx EXCEPT !.pc = "closing"]
          /\ SendToReceiver([type |-> "close"])
          /\ r2s' = Tail(r2s)
          /\ UNCHANGED conn
       \/ /\ conn = "down"
          /\ tx' = TxIdle
          /\ TxHangUp(s2r)
    /\ UNCHANGED <<rx, disk, completed, env>>

(* The last read's result is ignored.                                      *)
TxClosed ==
    /\ tx.pc = "closing" /\ (r2s # <<>> \/ conn = "down")
    /\ completed' = completed \cup {[tid |-> tx.tid, ver |-> tx.ver]}
    /\ tx' = TxIdle
    /\ TxHangUp(s2r)
    /\ UNCHANGED <<rx, disk, outbound, env>>

TxReadError ==
    /\ conn = "down" /\ r2s = <<>>
    /\ tx.pc \in {"accept", "status", "meta_ack", "transfer_ack"} \/ Draining
    /\ tx' = TxIdle
    /\ TxHangUp(s2r)
    /\ UNCHANGED <<rx, disk, outbound, completed, env>>

(* Another implementation of the protocol may stop in mid-stream with a    *)
(* TRANSFER_CANCEL or a SESSION_CLOSE; this sender never does.             *)
TxAbort(type) ==
    /\ tx.pc = "stream" /\ type \in Faults \cap {"cancel", "close"}
    /\ tx' = TxIdle
    /\ TxHangUp(Deliver(s2r, [type |-> type]))
    /\ UNCHANGED <<rx, disk, outbound, completed, env>>

-----------------------------------------------------------------------------
(* The receiver: handle_incoming's loop.                                   *)

RxExit(sent) == rx' = RxIdle /\ RxHangUp(sent)
RxError == Deliver(r2s, [type |-> "error"])

RxRequest ==
    /\ rx.pc = "main" /\ RxReceives("request")
    /\ rx' = [rx EXCEPT !.pc = "consent", !.tid = Head(s2r).tid,
                        !.sha = Head(s2r).sha]
    /\ s2r' = Tail(s2r)
    /\ UNCHANGED <<tx, conn, r2s, disk, outbound, completed, env>>

RxReject ==
    /\ rx.pc = "consent"
    /\ rx' = [rx EXCEPT !.pc = "main"]
    /\ SendToSender([type |-> "reject"])
    /\ UNCHANGED <<tx, conn, s2r, disk, outbound, completed, env>>

SaveJournal(t, state) ==
    journal' = [u \in DOMAIN journal \cup {t} |->
                  IF u = t THEN state ELSE journal[u]]
DeleteJournal(t) ==
    journal' = [u \in DOMAIN journal \ {t} |-> journal[u]]

(* The entry of handle_incoming_transfer: a journal with file entries is   *)
(* continued, anything else starts afresh with a new expiry.               *)
Continues(t) == t \in DOMAIN journal /\ journal[t].has
LoadedState(t, sha) ==
    IF Continues(t) THEN journal[t]
    ELSE [peer |-> rx.peer, sha |-> sha, has |-> FALSE, received |-> 0]
EnterTransfer(t, sha) ==
    /\ rx' = [rx EXCEPT !.pc = "transfer", !.tid = t,
                        !.mem = LoadedState(t, sha)]
    /\ expired' = IF Continues(t) THEN expired ELSE expired \ {t}

RxAccept ==
    /\ rx.pc = "consent"
    /\ SendToSender([type |-> "accept"])
    /\ EnterTransfer(rx.tid, rx.sha)
    /\ UNCHANGED <<tx, conn, s2r, part, journal, published, outbound,
                   completed, env>>

Resumable_AnyPeer(t) == t \in DOMAIN journal /\ t \notin expired

Resumable(t) ==
    /\ t \in DOMAIN journal
    /\ journal[t].peer = rx.peer
    /\ t \notin expired

RxResumeQuery ==
    /\ rx.pc = "main" /\ RxReceives("query")
    /\ LET t == Head(s2r).tid IN
         IF Resumable(t)
         THEN /\ SendToSender([type |-> "status", resumable |-> TRUE,
                               received |-> IF journal[t].has
                                            THEN journal[t].received ELSE 0])
              /\ EnterTransfer(t, journal[t].sha)
         ELSE /\ SendToSender([type |-> "status", resumable |-> FALSE,
                               received |-> 0])
              /\ UNCHANGED <<rx, expired>>
    /\ s2r' = Tail(s2r)
    /\ UNCHANGED <<tx, conn, part, journal, published, outbound, completed,
                   env>>

-----------------------------------------------------------------------------
(* The receiver: handle_incoming_transfer and the entry of receive_file.   *)

HasPartial == rx.mem.has /\ rx.mem.received > 0

RxPathRejected ==
    /\ rx.pc = "transfer" /\ RxReceives("meta") /\ "sanitize" \in Faults
    /\ r2s' = IF conn = "up"
              THEN r2s \o <<[type |-> "error"],
                            [type |-> "meta_ack", accepted |-> FALSE]>>
              ELSE r2s
    /\ s2r' = Tail(s2r)
    /\ UNCHANGED <<tx, rx, conn, disk, outbound, completed, env>>

Modified == HasPartial /\ rx.mem.sha # Head(s2r).sha

(* The file's entry is dropped.  Whether save wrote that is ignored.       *)
RxModified ==
    /\ rx.pc = "transfer" /\ RxReceives("meta") /\ Modified
    /\ part' = NoPart
    /\ LET state == [rx.mem EXCEPT !.has = FALSE, !.received = 0] IN
         /\ rx' = [rx EXCEPT !.mem = state]
         /\ \/ SaveJournal(rx.tid, state)
            \/ "io" \in Faults /\ UNCHANGED journal
    /\ SendToSender([type |-> "meta_ack", accepted |-> FALSE])
    /\ s2r' = Tail(s2r)
    /\ UNCHANGED <<tx, conn, expired, published, outbound, completed, env>>

(* The path is jailed only after the metadata is accepted.                 *)
RxJailed ==
    /\ rx.pc = "transfer" /\ RxReceives("meta") /\ ~Modified
    /\ "jail" \in Faults
    /\ r2s' = IF conn = "up"
              THEN r2s \o <<[type |-> "meta_ack", accepted |-> TRUE],
                            [type |-> "error"]>>
              ELSE r2s
    /\ s2r' = Tail(s2r)
    /\ UNCHANGED <<tx, rx, conn, disk, outbound, completed, env>>

Publication(content) ==
    [tid |-> rx.tid, sha |-> Head(s2r).sha, size |-> Head(s2r).size,
     content |-> content]

(* receive_file continues a .part only when the journal has progress, and  *)
(* then trusts the length of the file, not of the journal.                 *)
AppendsToPart == HasPartial /\ part.exists

(* The hasher is first fed with what the opened .part holds.               *)
SeedHasher(data) == data

AlreadyReceived ==
    /\ AppendsToPart
    /\ Len(part.data) = Head(s2r).size
    /\ part.data = FileOf(Head(s2r).sha)

RxMetadata ==
    /\ rx.pc = "transfer" /\ RxReceives("meta") /\ ~Modified
    /\ SendToSender([type |-> "meta_ack", accepted |-> TRUE])
    /\ LET state == IF HasPartial THEN rx.mem
                    ELSE [rx.mem EXCEPT !.has = TRUE, !.received = 0]
           opened == [rx EXCEPT !.mem = state, !.size = Head(s2r).size,
                                !.sha = Head(s2r).sha]
       IN /\ SaveJournal(rx.tid, state)
          /\ IF AlreadyReceived
             THEN /\ published' = published \cup {Publication(part.data)}
                  /\ part' = NoPart
                  /\ rx' = opened
             ELSE /\ part' = IF AppendsToPart THEN part
                             ELSE [NoPart EXCEPT !.exists = TRUE]
                  /\ rx' = [opened EXCEPT !.pc = "file",
                                          !.hashed = SeedHasher(part'.data)]
                  /\ UNCHANGED published
    /\ s2r' = Tail(s2r)
    /\ UNCHANGED <<tx, conn, expired, outbound, completed, env>>

(* Creating the directory, saving the journal or opening the .part fails.  *)
RxOpenFails ==
    /\ rx.pc = "transfer" /\ RxReceives("meta") /\ ~Modified
    /\ "io" \in Faults
    /\ RxExit(Deliver(r2s, [type |-> "meta_ack", accepted |-> TRUE]))
    /\ UNCHANGED <<tx, disk, outbound, completed, env>>

RxComplete ==
    /\ rx.pc = "transfer" /\ RxReceives("complete")
    /\ SendToSender([type |-> "transfer_ack"])
    /\ DeleteJournal(rx.tid)
    /\ rx' = [RxIdle EXCEPT !.pc = "main", !.peer = rx.peer]
    /\ s2r' = Tail(s2r)
    /\ UNCHANGED <<tx, conn, part, expired, published, outbound, completed,
                   env>>

(* The TRANSFER_ACK cannot be written: the journal stays.                  *)
RxCompleteFails ==
    /\ rx.pc = "transfer" /\ RxReceives("complete") /\ conn = "down"
    /\ RxExit(r2s)
    /\ UNCHANGED <<tx, disk, outbound, completed, env>>

(* TRANSFER_CANCEL and SESSION_CLOSE between two files.                    *)
RxStopped ==
    /\ rx.pc = "transfer" /\ (RxReceives("cancel") \/ RxReceives("close"))
    /\ rx' = [RxIdle EXCEPT !.pc = "main", !.peer = rx.peer]
    /\ r2s' = IF RxReceives("close") THEN Deliver(r2s, [type |-> "close"])
              ELSE r2s
    /\ s2r' = Tail(s2r)
    /\ UNCHANGED <<tx, conn, disk, outbound, completed, env>>

RxSessionClose ==
    /\ rx.pc = "main" /\ RxReceives("close")
    /\ RxExit(Deliver(r2s, [type |-> "close"]))
    /\ UNCHANGED <<tx, disk, outbound, completed, env>>

(* Frames no branch expects are logged and dropped: a CHUNK outside        *)
(* receive_file, and every control frame but two inside it.                *)
RxIgnore ==
    /\ s2r # <<>>
    /\ \/ rx.pc = "main" /\ Head(s2r).type \in {"meta", "chunk", "complete",
                                                "cancel"}
       \/ rx.pc = "transfer" /\ Head(s2r).type \in {"request", "query",
                                                    "chunk"}
       \/ rx.pc = "file" /\ Head(s2r).type \in {"request", "query", "meta",
                                                "complete"}
    /\ s2r' = Tail(s2r)
    /\ UNCHANGED <<tx, rx, conn, r2s, disk, outbound, completed, env>>

-----------------------------------------------------------------------------
(* The receiver: the loop of receive_file.                                 *)

Received == Len(rx.hashed)   \* received_bytes: the hasher has seen them all

NextChunk == rx.pc = "file" /\ RxReceives("chunk")
Intact == Head(s2r).ok
InOrder_Unchecked == TRUE
InOrder == Head(s2r).off = Received
Fits == Received + Head(s2r).len <= rx.size
Duplicate == Head(s2r).off < Received /\ Head(s2r).off + Head(s2r).len <= Received
ChunkData == Bytes(Head(s2r).ver, Head(s2r).off, Head(s2r).len)
Handling == [len |-> Head(s2r).len, last |-> Head(s2r).last]

(* A wrong chunk hash, or data past the declared size: the .part goes,     *)
(* unless the ERROR could not be written, and the journal stays.           *)
RxBadChunk ==
    /\ NextChunk /\ (~Intact \/ (InOrder /\ ~Fits))
    /\ part' = NoPart \/ (conn = "down" /\ part' = part)
    /\ RxExit(RxError)
    /\ UNCHANGED <<tx, journal, expired, published, outbound, completed, env>>

(* A gap or a partial overlap: both the .part and the journal stay.        *)
RxMisplacedChunk ==
    /\ NextChunk /\ Intact /\ ~InOrder /\ ~Duplicate
    /\ RxExit(RxError)
    /\ UNCHANGED <<tx, disk, outbound, completed, env>>

RxWriteChunk ==
    /\ NextChunk /\ Intact /\ InOrder /\ Fits
    /\ part' = [part EXCEPT !.data = part.data \o ChunkData]
    /\ rx' = [rx EXCEPT !.pc = "save", !.hashed = rx.hashed \o ChunkData,
                        !.chunk = Handling]
    /\ s2r' = Tail(s2r)
    /\ UNCHANGED <<tx, conn, r2s, journal, expired, published, outbound,
                   completed, env>>

(* write_all fails, any part of the chunk having reached the file: the     *)
(* handler returns the error.                                              *)
RxWriteFails ==
    /\ NextChunk /\ Intact /\ InOrder /\ Fits /\ "io" \in Faults
    /\ \E written \in Prefixes(ChunkData) :
         part' = [part EXCEPT !.data = part.data \o written]
    /\ RxExit(r2s)
    /\ UNCHANGED <<tx, journal, expired, published, outbound, completed, env>>

RxDuplicate ==
    /\ NextChunk /\ Intact /\ Duplicate
    /\ rx' = [rx EXCEPT !.pc = "chunk_ack", !.chunk = Handling]
    /\ s2r' = Tail(s2r)
    /\ UNCHANGED <<tx, conn, r2s, disk, outbound, completed, env>>

RxSave_NoSync ==
    /\ rx.pc = "save"
    /\ LET state == [rx.mem EXCEPT !.received = Received] IN
         /\ SaveJournal(rx.tid, state)
         /\ rx' = [rx EXCEPT !.pc = "chunk_ack", !.mem = state]
    /\ UNCHANGED <<tx, net, part, expired, published, outbound, completed,
                   env>>

(* sync_all of the data, then the journal's tmp-write, fsync and rename.   *)
RxSave ==
    /\ rx.pc = "save"
    /\ part' = [part EXCEPT !.synced = Len(part.data)]
    /\ LET state == [rx.mem EXCEPT !.received = Received] IN
         /\ SaveJournal(rx.tid, state)
         /\ rx' = [rx EXCEPT !.pc = "chunk_ack", !.mem = state]
    /\ UNCHANGED <<tx, net, expired, published, outbound, completed, env>>

(* sync_all or save fails: the journal stays behind the .part.             *)
RxSaveFails ==
    /\ rx.pc = "save" /\ "io" \in Faults
    /\ \E n \in {part.synced, Len(part.data)} :
         part' = [part EXCEPT !.synced = n]
    /\ RxExit(r2s)
    /\ UNCHANGED <<tx, journal, expired, published, outbound, completed, env>>

LastOne == rx.chunk.last \/ Received = rx.size

RxChunkAck_NotForLast ==
    /\ rx.pc = "chunk_ack"
    /\ r2s' = IF LastOne THEN r2s
              ELSE Deliver(r2s, [type |-> "chunk_ack", len |-> rx.chunk.len])
    /\ rx' = [rx EXCEPT !.pc = IF LastOne THEN "verify" ELSE "file",
                        !.chunk = RxIdle.chunk]
    /\ UNCHANGED <<tx, conn, s2r, disk, outbound, completed, env>>

RxChunkAck ==
    /\ rx.pc = "chunk_ack"
    /\ SendToSender([type |-> "chunk_ack", len |-> rx.chunk.len])
    /\ rx' = [rx EXCEPT !.pc = IF LastOne THEN "verify" ELSE "file",
                        !.chunk = RxIdle.chunk]
    /\ UNCHANGED <<tx, conn, s2r, disk, outbound, completed, env>>

RxChunkAckFails ==
    /\ rx.pc = "chunk_ack" /\ conn = "down"
    /\ RxExit(r2s)
    /\ UNCHANGED <<tx, disk, outbound, completed, env>>

HashMatches_Unchecked == TRUE
SizeMatches_Unchecked == TRUE
HashMatches == rx.hashed = FileOf(rx.sha)
SizeMatches == Received = rx.size

RxPublish ==
    /\ rx.pc = "verify" /\ HashMatches /\ SizeMatches
    /\ published' = published \cup
         {[tid |-> rx.tid, sha |-> rx.sha, size |-> rx.size,
           content |-> part.data]}
    /\ part' = NoPart
    /\ rx' = [rx EXCEPT !.pc = "transfer", !.hashed = <<>>]
    /\ UNCHANGED <<tx, net, journal, expired, outbound, completed, env>>

RxMismatch ==
    /\ rx.pc = "verify" /\ ~(HashMatches /\ SizeMatches)
    /\ part' = NoPart
    /\ RxExit(r2s)
    /\ UNCHANGED <<tx, journal, expired, published, outbound, completed, env>>

RxCancelled ==
    /\ rx.pc = "file" /\ RxReceives("cancel")
    /\ part' = NoPart
    /\ RxExit(r2s)
    /\ UNCHANGED <<tx, journal, expired, published, outbound, completed, env>>

RxClosed ==
    /\ rx.pc = "file" /\ RxReceives("close")
    /\ RxExit(r2s)
    /\ UNCHANGED <<tx, disk, outbound, completed, env>>

RxReadError ==
    /\ conn = "down" /\ s2r = <<>> /\ rx.pc \in {"main", "transfer", "file"}
    /\ RxExit(r2s)
    /\ UNCHANGED <<tx, disk, outbound, completed, env>>

-----------------------------------------------------------------------------
(* The environment.                                                        *)

ConnectionLost ==
    /\ conn = "up" /\ "loss" \in Faults
    /\ conn' = "down"
    /\ s2r' \in Prefixes(s2r) /\ r2s' \in Prefixes(r2s)
    /\ UNCHANGED <<tx, rx, disk, outbound, completed, env>>

(* 24 hours pass since a journal was created.                              *)
Expire(t) ==
    /\ "expiry" \in Faults /\ t \in DOMAIN journal \ expired
    /\ expired' = expired \cup {t}
    /\ UNCHANGED <<tx, rx, net, part, journal, published, outbound, completed,
                   env>>

(* The receiving daemon dies and starts again.  Bytes not yet synced may   *)
(* be lost from the end of the .part; gc_expired runs at startup and       *)
(* deletes journals only.                                                  *)
RxCrash ==
    /\ crashes < MaxCrashes
    /\ crashes' = crashes + 1
    /\ \E n \in part.synced..Len(part.data) :
         part' = [part EXCEPT !.data = SubSeq(part.data, 1, n), !.synced = n]
    /\ journal' = [u \in DOMAIN journal \ expired |-> journal[u]]
    /\ RxExit(r2s)
    /\ UNCHANGED <<tx, expired, published, outbound, completed, minted,
                   attempts>>

TxCrash ==
    /\ crashes < MaxCrashes /\ tx.pc # "idle"
    /\ crashes' = crashes + 1
    /\ tx' = TxIdle
    /\ TxHangUp(s2r)
    /\ UNCHANGED <<rx, disk, outbound, completed, minted, attempts>>

-----------------------------------------------------------------------------

TxStep ==
    \/ TxAccepted \/ TxRejected \/ TxAcceptTimeout
    \/ TxResumable \/ TxNotResumable
    \/ TxMetaAccepted \/ TxMetaRefused
    \/ TxSkipChunk \/ TxSendChunk \/ TxChunkAck
    \/ TxComplete \/ TxTransferAck \/ TxClosed \/ TxReadError

RxStep ==
    \/ RxRequest \/ RxReject \/ RxAccept \/ RxResumeQuery
    \/ RxPathRejected \/ RxModified \/ RxJailed \/ RxMetadata
    \/ RxOpenFails
    \/ RxComplete \/ RxCompleteFails \/ RxStopped \/ RxSessionClose \/ RxIgnore
    \/ RxBadChunk \/ RxMisplacedChunk \/ RxWriteChunk \/ RxWriteFails
    \/ RxDuplicate \/ RxSave \/ RxSaveFails \/ RxChunkAck \/ RxChunkAckFails
    \/ RxPublish \/ RxMismatch \/ RxCancelled \/ RxClosed \/ RxReadError

UserStep ==
    \/ \E p \in Peers, vs, v \in Versions : StartSend(p, vs, v)
    \/ \E p \in Peers, t \in Tids, v \in Versions : StartResume(p, t, v)

EnvStep ==
    \/ \E type \in {"cancel", "close"} : TxAbort(type)
    \/ ConnectionLost
    \/ \E t \in Tids : Expire(t)
    \/ RxCrash
    \/ TxCrash

Next ==
    \/ UserStep
    \/ TxStep
    \/ \E vs, v \in Versions : Redial(vs, v)
    \/ RxStep
    \/ EnvStep

Spec == Init /\ [][Next]_vars

(* Both tasks run on tokio and take every step that is ready; the consent  *)
(* wait and the wait for TRANSFER_ACCEPT have timers of 120 s.  A fallback *)
(* dials as soon as it can.                                                *)
FairSpec ==
    /\ Spec
    /\ WF_vars(TxStep) /\ WF_vars(RxStep)
    /\ WF_vars(\E vs, v \in Versions : Redial(vs, v))

-----------------------------------------------------------------------------
(* Properties.                                                             *)

Tx ==
    [pc : {"idle", "accept", "status", "redial", "meta_ack", "stream",
           "transfer_ack", "closing"},
     peer : Peers, tid : 0..MaxAttempts, size : Nat, ver : Versions,
     resume : BOOLEAN, skip : Nat, off : Nat, inflight : Nat, acked : Nat]

Rx ==
    [pc : {"idle", "main", "consent", "transfer", "file", "save", "chunk_ack",
           "verify"},
     peer : Peers, tid : 0..MaxAttempts, mem : Journal, size : Nat,
     sha : Versions, hashed : Seq(Byte),
     chunk : [len : Nat, last : BOOLEAN]]

TxTypeOK == tx \in Tx /\ (tx.pc # "idle" => tx.tid \in Tids)
RxTypeOK == rx \in Rx /\ (rx.pc \notin {"idle", "main"} => rx.tid \in Tids)
NetTypeOK ==
    /\ conn \in {"up", "down"}
    /\ s2r \in Seq(SMsg) /\ r2s \in Seq(RMsg)
DiskTypeOK ==
    /\ part \in [exists : BOOLEAN, data : Seq(Byte), synced : Nat]
    /\ DOMAIN journal \subseteq Tids
    /\ \A t \in DOMAIN journal : journal[t] \in Journal
    /\ expired \subseteq Tids
    /\ published \subseteq
         [tid : Tids, sha : Versions, size : Nat, content : Seq(Byte)]
EnvTypeOK ==
    /\ outbound \subseteq Tids
    /\ completed \subseteq [tid : Tids, ver : Versions]
    /\ minted \in 0..MaxAttempts /\ attempts \in Nat /\ crashes \in Nat

(* Every variable keeps its type; a task that is under way has a transfer  *)
(* id that was generated.                                                  *)
TypeOK == TxTypeOK /\ RxTypeOK /\ NetTypeOK /\ DiskTypeOK /\ EnvTypeOK

(* Whatever crashes, torn writes, edits, replays and resumes happened, a   *)
(* file at its final path has exactly the content and the size that its    *)
(* FILE_METADATA declared (receiver.rs: the rename follows the checks, and *)
(* the hash covers what is on disk, resumed bytes included).               *)
PublishedIsVerified ==
    \A f \in published :
        f.content = FileOf(f.sha) /\ Len(f.content) = f.size

(* While a file is being received, the bytes that went through the hasher  *)
(* are the bytes in the .part, resumed ones included; this is what makes   *)
(* the final comparison speak about the file that is renamed.              *)
Receiving == rx.pc \in {"file", "save", "chunk_ack", "verify"}
HashedIsOnDisk == Receiving => part.exists /\ rx.hashed = part.data

(* The resume state a handler works on is the one on disk: a restart at    *)
(* any point of a file goes on from exactly what the handler knew.         *)
(* Between files the two differ only when the entry of a modified file was *)
(* dropped and the save of that failed (handler.rs:798): the disk then     *)
(* still has the entry that the handler has forgotten.                     *)
MemIsJournaled ==
    /\ Receiving => /\ rx.tid \in DOMAIN journal /\ journal[rx.tid] = rx.mem
                    /\ rx.mem.has
    /\ (rx.pc = "transfer" /\ rx.tid \in DOMAIN journal)
         => \/ journal[rx.tid].received = rx.mem.received
            \/ "io" \in Faults /\ ~rx.mem.has /\ rx.mem.received = 0
    /\ \A t \in DOMAIN journal : journal[t].has \/ journal[t].received = 0

(* Every published file keeps its verified content for good, and success   *)
(* is reported only for one of them: the transfer implements FileDelivery. *)
Delivery ==
    INSTANCE FileDelivery
        WITH delivered <- published, reported <- completed,
             Contents <- [v \in Versions |-> FileOf(v)]
RefinesDelivery == Delivery!Spec

(* The bytes a fresh send counts as acknowledged are synced in the .part,  *)
(* or the file is published already: CHUNK_ACK follows sync_all and save.  *)
AckedIsDurable ==
    (~tx.resume /\ tx.pc \in {"stream", "transfer_ack"} /\ rx.tid = tx.tid)
      => \/ tx.acked <= part.synced
         \/ \E f \in published : f.tid = tx.tid

Count(chan, type) == {i \in DOMAIN chan : chan[i].type = type}

(* A set has at most n elements: each of them has a slot of its own.       *)
AtMost(S, n) ==
    \E slot \in [S -> 1..n] : \A i, j \in S : slot[i] = slot[j] => i = j

(* Chunks on their way, and acknowledgments on theirs, together stay       *)
(* within the window: the receiver never has more than MAX_IN_FLIGHT       *)
(* chunks to buffer.                                                       *)
WindowRespected ==
    AtMost(({"chunk"} \X Count(s2r, "chunk"))
             \cup ({"ack"} \X Count(r2s, "chunk_ack")), MaxInFlight)

(* A journal is only ever advanced to bytes that are already synced in the *)
(* .part (receiver.rs: sync_all comes before save).                        *)
JournalNeverAhead ==
    [][\A t \in DOMAIN journal' :
         (t \in DOMAIN journal /\ journal'[t].received > journal[t].received)
           => journal'[t].received <= part'.synced]_vars

(* Resume progress of a transfer is never taken back, unless the file's    *)
(* entry is dropped because the file was modified, on disk or, when the    *)
(* save of that failed, in the memory of the handler.                      *)
ProgressKept ==
    [][\A t \in DOMAIN journal \cap DOMAIN journal' :
         \/ journal'[t].received >= journal[t].received
         \/ ~journal'[t].has
         \/ "io" \in Faults /\ t = rx.tid /\ ~rx.mem.has]_vars

(* A handler only ever works on resume state of the peer it talks to       *)
(* (RESUME_QUERY is checked against the journal's peer_device_id).         *)
StateIsPeersOwn ==
    rx.pc \in {"transfer", "file", "save", "chunk_ack", "verify"}
      => rx.mem.peer = rx.peer

(* Every attempt to send comes to an end, with success or with an error.   *)
AttemptEnds == tx.pc # "idle" ~> tx.pc = "idle"

=============================================================================
