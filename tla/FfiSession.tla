----------------------------- MODULE FfiSession -----------------------------
(* A session of nxfr-ffi (lib.rs) between a host S that connects and sends  *)
(* and a host R that listens and receives: nxfr_listen, nxfr_connect,       *)
(* nxfr_accept with its reader task, nxfr_send_file, nxfr_confirm,          *)
(* nxfr_pump and nxfr_close, with the tasks they spawn on the runtime.      *)
(* The connection of a session is an Option behind an Arc and a mutex: the  *)
(* reader takes it out and puts it back, the transfers hold the mutex for   *)
(* their whole length, and a connection that nobody refers to is dropped.   *)
EXTENDS Integers, Sequences, FiniteSets

CONSTANTS
  Manifests,  \* the file lists that may be sent: the number of chunks of each file
  Window,     \* max_in_flight (8 in the code)
  EventCap    \* the capacity of the event channel of a session (256)

ASSUME FfiConstants == /\ Manifests \subseteq Seq(Nat)
                       /\ Window \in Nat \ {0}
                       /\ EventCap \in Nat \ {0}

VARIABLES
  listener,  \* the listener is open
  pending,   \* the connection in the listener: "none", "tls" or "queued"
  dial,      \* the call nxfr_connect of S
  acc,       \* the call nxfr_accept of R
  conn,      \* who has the connection: "none", "call", "slot", "reader", "gone"
  lock,      \* who holds the mutex of the session's connection
  net,       \* the frames on their way to a host
  cut,       \* the network lost the connection
  open,      \* the session is in the sessions map
  closer,    \* the task spawned by nxfr_close: "none", "wait" or "done"
  events,    \* the event channel of a session
  finished,  \* the host has pumped a Complete or an Error event
  asked,     \* the host R has pumped the Offer event
  todo,      \* the event a task is sending to the channel
  verdicts,  \* the Complete and Error events issued to a host, in order
  files,     \* send_entries: the chunks of each file
  stale,     \* a file that changed on disk after it was scanned, 0 for none
  send,      \* where do_send_file is
  sf,        \* the file being sent
  so,        \* offset, in chunks
  inflight,  \* in_flight
  reader,    \* where the reader task of nxfr_accept is
  offer,     \* pending_offer is set
  refuse,    \* the task spawned by a rejecting nxfr_confirm
  early,     \* nxfr_confirm was called before the reader put the connection back
  recv,      \* where do_receive_file is
  rf,        \* the file of the last FileMetadata
  got,       \* the chunks in the temporary file
  tmp,       \* the temporary file exists
  stored     \* the files renamed to their final paths, with their content

handshake == <<listener, pending, dial, acc>>
channel   == <<events, finished, asked>>
sending   == <<files, stale, send, sf, so, inflight>>
offering  == <<reader, offer, refuse, early>>
receiving == <<recv, rf, got, tmp, stored>>
vars == <<handshake, conn, lock, net, cut, open, closer, channel, todo,
          verdicts, sending, offering, receiving>>

Hosts == {"S", "R"}
Peer(e) == IF e = "S" THEN "R" ELSE "S"
Tasks == {"send", "reader", "recv"}
HostOf(t) == IF t = "send" THEN "S" ELSE "R"

(* Frames: a control message by its name, a FILE_METADATA with the file it  *)
(* announces, a chunk with its file, its offset and LAST_CHUNK.             *)
Ctl(k)            == [kind |-> k, file |-> 0, off |-> 0, last |-> FALSE]
Meta(f)           == [kind |-> "meta", file |-> f, off |-> 0, last |-> FALSE]
Chunk(f, o, last) == [kind |-> "chunk", file |-> f, off |-> o, last |-> last]

(* What the scanned hash of a file stands for, as the chunks of a file.     *)
Content(f) == [o \in 1..files[f] |-> <<f, o - 1>>]

Init ==
  /\ listener = TRUE /\ pending = "none" /\ dial = "idle" /\ acc = "idle"
  /\ conn = [e \in Hosts |-> "none"]
  /\ lock = [e \in Hosts |-> "free"]
  /\ net = [e \in Hosts |-> <<>>]
  /\ cut = FALSE
  /\ open = [e \in Hosts |-> FALSE]
  /\ closer = [e \in Hosts |-> "none"]
  /\ events = [e \in Hosts |-> <<>>]
  /\ finished = [e \in Hosts |-> FALSE]
  /\ asked = FALSE
  /\ todo = [t \in Tasks |-> "none"]
  /\ verdicts = [e \in Hosts |-> <<>>]
  /\ files \in Manifests
  /\ stale \in {f \in 0..Len(files) : f = 0 \/ files[f] > 0}
  /\ send = "idle" /\ sf = 1 /\ so = 0 /\ inflight = 0
  /\ reader = "none" /\ offer = FALSE /\ refuse = "none" /\ early = FALSE
  /\ recv = "idle" /\ rf = 0 /\ got = <<>> /\ tmp = FALSE /\ stored = <<>>

-----------------------------------------------------------------------------
(* The connection as seen by the hosts.                                    *)

(* Who keeps the Arc of a session's connection alive.                      *)
Referred(e) ==
  \/ open[e] \/ closer[e] = "wait"
  \/ e = "S" /\ send \notin {"idle", "done"}
  \/ e = "R" /\ (reader \notin {"none", "done"} \/ refuse = "lock"
                                                 \/ recv \notin {"idle", "done"})
Gone(e) == conn[e] = "gone" \/ (conn[e] = "slot" /\ ~Referred(e))
Broken(e) == cut \/ Gone(Peer(e))

(* A frame is appended unless the connection is broken; then it is lost.   *)
Deliver(e, m, from) ==
  IF Broken(e) THEN from ELSE [from EXCEPT ![Peer(e)] = Append(@, m)]
Take(e) == [net EXCEPT ![e] = Tail(@)]
Arrived(e, k) == net[e] # <<>> /\ Head(net[e]).kind = k
Ended(e) == net[e] = <<>> /\ Broken(e)

(* The network drops the connection: what was under way is lost.  The      *)
(* operating system tells both ends, at the next read or write: no timer   *)
(* of the library would notice a connection that died in silence.          *)
Cut ==
  /\ ~cut /\ dial # "idle" /\ cut' = TRUE
  /\ net' = [e \in Hosts |-> <<>>]
  /\ UNCHANGED <<handshake, conn, lock, open, closer, channel, todo, verdicts,
                 sending, offering, receiving>>

-----------------------------------------------------------------------------
(* nxfr_listen's accept loop, nxfr_connect and nxfr_accept.                *)

(* nxfr_connect begins; the accept loop spawns the handshake of the        *)
(* connection.  Without a listener the connect fails.                      *)
Dial ==
  /\ dial = "idle"
  /\ IF listener
     THEN dial' = "tls" /\ pending' = "tls" /\ conn' = [e \in Hosts |-> "call"]
     ELSE dial' = "done" /\ UNCHANGED <<pending, conn>>
  /\ UNCHANGED <<listener, acc, lock, net, cut, open, closer, channel, todo,
                 verdicts, sending, offering, receiving>>

(* The handshake is done: the connection is queued for nxfr_accept, unless *)
(* the listener and the receiving end of the queue are gone.  S sends      *)
(* HELLO.                                                                  *)
Handshake ==
  /\ pending = "tls" /\ dial = "tls" /\ ~cut
  /\ dial' = "hello"
  /\ net' = [net EXCEPT !["R"] = Append(@, Ctl("hello"))]
  /\ IF listener \/ acc = "wait"
     THEN pending' = "queued" /\ UNCHANGED conn
     ELSE pending' = "none" /\ conn' = [conn EXCEPT !["R"] = "gone"]
  /\ UNCHANGED <<listener, acc, lock, cut, open, closer, channel, todo,
                 verdicts, sending, offering, receiving>>

(* The handshake fails, takes 10 s, or finds no permit of the semaphore.   *)
HandshakeFails ==
  /\ pending = "tls"
  /\ pending' = "none" /\ conn' = [conn EXCEPT !["R"] = "gone"]
  /\ UNCHANGED <<listener, dial, acc, lock, net, cut, open, closer, channel,
                 todo, verdicts, sending, offering, receiving>>

(* HELLO_ACK arrives and the identity check passes: the session is made.   *)
Connected ==
  /\ dial = "hello" /\ Arrived("S", "helloack")
  /\ dial' = "done" /\ net' = Take("S")
  /\ open' = [open EXCEPT !["S"] = TRUE]
  /\ conn' = [conn EXCEPT !["S"] = "slot"]
  /\ UNCHANGED <<listener, pending, acc, lock, cut, closer, channel, todo,
                 verdicts, sending, offering, receiving>>

(* Any error of nxfr_connect: a refusal, 5 s passed, another identity.     *)
ConnectFails ==
  /\ dial \in {"tls", "hello"}
  /\ dial' = "done" /\ conn' = [conn EXCEPT !["S"] = "gone"]
  /\ UNCHANGED <<listener, pending, acc, lock, net, cut, open, closer, channel,
                 todo, verdicts, sending, offering, receiving>>

AcceptCall ==
  /\ acc = "idle" /\ listener /\ acc' = "wait"
  /\ UNCHANGED <<listener, pending, dial, conn, lock, net, cut, open, closer,
                 channel, todo, verdicts, sending, offering, receiving>>

AcceptTakes ==
  /\ acc = "wait" /\ pending = "queued"
  /\ acc' = "hello" /\ pending' = "none"
  /\ UNCHANGED <<listener, dial, conn, lock, net, cut, open, closer, channel,
                 todo, verdicts, sending, offering, receiving>>

(* All senders of the queue are gone: the accept loop's and a handshake's. *)
AcceptClosed ==
  /\ acc = "wait" /\ ~listener /\ pending = "none"
  /\ acc' = "done"
  /\ UNCHANGED <<listener, pending, dial, conn, lock, net, cut, open, closer,
                 channel, todo, verdicts, sending, offering, receiving>>

(* HELLO is answered, the reader task spawned and the session inserted.    *)
Accepted ==
  /\ acc = "hello" /\ Arrived("R", "hello")
  /\ acc' = "done"
  /\ net' = Deliver("R", Ctl("helloack"), Take("R"))
  /\ conn' = [conn EXCEPT !["R"] = "slot"]
  /\ open' = [open EXCEPT !["R"] = TRUE]
  /\ reader' = "take"
  /\ UNCHANGED <<listener, pending, dial, lock, cut, closer, channel, todo,
                 verdicts, sending, offer, refuse, early, receiving>>

(* No HELLO within 10 s, another frame, or the connection ended.           *)
AcceptFails ==
  /\ acc = "hello" /\ acc' = "done"
  /\ conn' = [conn EXCEPT !["R"] = "gone"]
  /\ UNCHANGED <<listener, pending, dial, lock, net, cut, open, closer, channel,
                 todo, verdicts, sending, offering, receiving>>

(* nxfr_close of the listener.  Without a call that keeps it, the queue is *)
(* dropped with what is in it.  The bound: one connection and one call of  *)
(* nxfr_accept, after which the listener touches nothing modelled here.    *)
CloseListener ==
  /\ listener /\ acc # "done" /\ listener' = FALSE
  /\ IF pending = "queued" /\ acc # "wait"
     THEN pending' = "none" /\ conn' = [conn EXCEPT !["R"] = "gone"]
     ELSE UNCHANGED <<pending, conn>>
  /\ UNCHANGED <<dial, acc, lock, net, cut, open, closer, channel, todo,
                 verdicts, sending, offering, receiving>>

-----------------------------------------------------------------------------
(* Events: a task waits for room in the channel; nxfr_pump takes an event. *)

IsVerdict(v) == v \in {"complete", "error"}

(* event_tx.send: it waits for room, or fails once the session is dropped. *)
Emit(t) ==
  LET e == HostOf(t) IN
  /\ todo[t] # "none"
  /\ closer[e] = "done" \/ Len(events[e]) < EventCap
  /\ events' = IF closer[e] = "done" THEN events
               ELSE [events EXCEPT ![e] = Append(@, todo[t])]
  /\ verdicts' = IF IsVerdict(todo[t])
                 THEN [verdicts EXCEPT ![e] = Append(@, todo[t])] ELSE verdicts
  /\ todo' = [todo EXCEPT ![t] = "none"]
  /\ UNCHANGED <<handshake, conn, lock, net, cut, open, closer, finished, asked,
                 sending, offering, receiving>>

(* The host pumps until it gets a Complete or an Error.                    *)
Pump(e) ==
  /\ open[e] /\ ~finished[e] /\ events[e] # <<>>
  /\ events' = [events EXCEPT ![e] = Tail(@)]
  /\ finished' = [finished EXCEPT ![e] = IsVerdict(Head(events[e]))]
  /\ asked' = (asked \/ Head(events[e]) = "offer")
  /\ UNCHANGED <<handshake, conn, lock, net, cut, open, closer, todo, verdicts,
                 sending, offering, receiving>>

-----------------------------------------------------------------------------
(* nxfr_close of a session.                                                *)

Close(e) ==
  /\ open[e]
  /\ open' = [open EXCEPT ![e] = FALSE]
  /\ closer' = [closer EXCEPT ![e] = "wait"]
  /\ UNCHANGED <<handshake, conn, lock, net, cut, channel, todo, verdicts,
                 sending, offering, receiving>>
(* The host calls it after a Complete or an Error, or when its user cancels. *)
CloseFinished(e) == finished[e] /\ Close(e)
Cancel(e) == ~finished[e] /\ Close(e)

(* The spawned task has the mutex: SESSION_CLOSE is sent and the           *)
(* connection dropped, if it is there.                                     *)
CloseLocked(e) ==
  /\ closer[e] = "wait" /\ lock[e] = "free"
  /\ closer' = [closer EXCEPT ![e] = "done"]
  /\ net' = IF conn[e] = "slot" THEN Deliver(e, Ctl("close"), net) ELSE net
  /\ conn' = [conn EXCEPT ![e] = IF @ = "slot" THEN "gone" ELSE @]
  /\ UNCHANGED <<handshake, lock, cut, open, channel, todo, verdicts, sending,
                 offering, receiving>>

(* 3 s passed without the mutex: the session is dropped, the task that     *)
(* holds the mutex keeps the connection.                                   *)
CloseTimeout(e) ==
  /\ closer[e] = "wait" /\ lock[e] # "free"
  /\ closer' = [closer EXCEPT ![e] = "done"]
  /\ UNCHANGED <<handshake, conn, lock, net, cut, open, channel, todo, verdicts,
                 sending, offering, receiving>>

-----------------------------------------------------------------------------
(* The reader task of nxfr_accept and nxfr_confirm.                        *)

ReaderTake ==
  /\ reader = "take" /\ lock["R"] = "free"
  /\ IF conn["R"] = "slot"
     THEN conn' = [conn EXCEPT !["R"] = "reader"] /\ reader' = "recv"
     ELSE reader' = "done" /\ UNCHANGED conn
  /\ UNCHANGED <<handshake, lock, net, cut, open, closer, channel, todo,
                 verdicts, sending, offer, refuse, early, receiving>>

(* One frame is read, without a timeout: a TRANSFER_REQUEST becomes the    *)
(* pending offer, any other message is ignored, an error is reported.      *)
ReaderRecv ==
  /\ reader = "recv" /\ reader' = "put"
  /\ \/ /\ net["R"] # <<>> /\ net' = Take("R")
        /\ IF Arrived("R", "request")
           THEN offer' = TRUE /\ todo' = [todo EXCEPT !["reader"] = "offer"]
           ELSE UNCHANGED <<offer, todo>>
     \/ /\ Broken("R") /\ UNCHANGED <<net, offer>>
        /\ todo' = [todo EXCEPT !["reader"] = "error"]
  /\ UNCHANGED <<handshake, conn, lock, cut, open, closer, channel, verdicts,
                 sending, refuse, early, receiving>>

(* The connection is put back; if nothing but this task refers to it, it   *)
(* is dropped.                                                             *)
ReaderPut_Drop ==
  /\ reader = "put" /\ todo["reader"] = "none" /\ lock["R"] = "free"
  /\ reader' = "done"
  /\ conn' = [conn EXCEPT !["R"] = "gone"]
  /\ UNCHANGED <<handshake, lock, net, cut, open, closer, channel, todo,
                 verdicts, sending, offer, refuse, early, receiving>>
ReaderPut_Leak ==
  /\ reader = "put" /\ todo["reader"] = "none" /\ lock["R"] = "free"
  /\ reader' = "done"
  /\ conn' = [conn EXCEPT !["R"] =
                IF open["R"] \/ closer["R"] = "wait" \/ refuse = "lock"
                   \/ recv \notin {"idle", "done"}
                THEN "slot" ELSE @]
  /\ UNCHANGED <<handshake, lock, net, cut, open, closer, channel, todo,
                 verdicts, sending, offer, refuse, early, receiving>>
ReaderPut ==
  /\ reader = "put" /\ todo["reader"] = "none" /\ lock["R"] = "free"
  /\ reader' = "done"
  /\ conn' = [conn EXCEPT !["R"] =
                IF open["R"] \/ closer["R"] = "wait" \/ refuse = "lock"
                   \/ recv \notin {"idle", "done"}
                THEN "slot" ELSE "gone"]
  /\ UNCHANGED <<handshake, lock, net, cut, open, closer, channel, todo,
                 verdicts, sending, offer, refuse, early, receiving>>

(* nxfr_confirm takes the offer and spawns the task that answers.          *)
Confirm(accept) ==
  /\ open["R"] /\ asked /\ ~finished["R"] /\ offer
  /\ offer' = FALSE
  /\ early' = (conn["R"] = "reader")
  /\ IF accept THEN recv' = "lock" /\ UNCHANGED refuse
               ELSE refuse' = "lock" /\ UNCHANGED recv
  /\ UNCHANGED <<handshake, conn, lock, net, cut, open, closer, channel, todo,
                 verdicts, sending, reader, rf, got, tmp, stored>>

(* The rejecting task sends TRANSFER_REJECT if the connection is there.    *)
Refuse ==
  /\ refuse = "lock" /\ lock["R"] = "free"
  /\ refuse' = IF conn["R"] = "slot" THEN "sent" ELSE "silent"
  /\ net' = IF conn["R"] = "slot" THEN Deliver("R", Ctl("reject"), net) ELSE net
  /\ UNCHANGED <<handshake, conn, lock, cut, open, closer, channel, todo,
                 verdicts, sending, reader, offer, early, receiving>>

-----------------------------------------------------------------------------
(* nxfr_send_file and do_send_file.                                        *)

SendCall ==
  /\ open["S"] /\ send = "idle" /\ send' = "lock"
  /\ UNCHANGED <<handshake, conn, lock, net, cut, open, closer, channel, todo,
                 verdicts, files, stale, sf, so, inflight, offering, receiving>>

(* An Err of do_send_file: the mutex is released, then the Error is sent.  *)
FailSend_Silent ==
  /\ send' = "done"
  /\ lock' = [lock EXCEPT !["S"] = IF @ = "send" THEN "free" ELSE @]
  /\ todo' = todo
FailSend ==
  /\ send' = "done"
  /\ lock' = [lock EXCEPT !["S"] = IF @ = "send" THEN "free" ELSE @]
  /\ todo' = [todo EXCEPT !["send"] = "error"]

(* The mutex is taken for the whole transfer and TRANSFER_REQUEST sent.    *)
SendLock ==
  /\ send = "lock" /\ lock["S"] = "free"
  /\ IF conn["S"] = "slot"
     THEN /\ send' = "offer" /\ lock' = [lock EXCEPT !["S"] = "send"]
          /\ net' = Deliver("S", Ctl("request"), net) /\ UNCHANGED todo
     ELSE FailSend /\ UNCHANGED net
  /\ UNCHANGED <<handshake, conn, cut, open, closer, channel, verdicts, files,
                 stale, sf, so, inflight, offering, receiving>>

(* The answer to the offer.                                                *)
SendAnswered ==
  /\ send = "offer" /\ net["S"] # <<>> /\ net' = Take("S")
  /\ IF Arrived("S", "accept") THEN send' = "file" /\ UNCHANGED <<lock, todo>>
                               ELSE FailSend
  /\ UNCHANGED <<handshake, conn, cut, open, closer, channel, verdicts, files,
                 stale, sf, so, inflight, offering, receiving>>

(* 120 s without an answer: an Error is sent here, and another one by the  *)
(* caller of do_send_file.                                                 *)
SendTimeout ==
  /\ send = "offer" /\ send' = "timedout"
  /\ todo' = [todo EXCEPT !["send"] = "error"]
  /\ UNCHANGED <<handshake, conn, lock, net, cut, open, closer, channel,
                 verdicts, files, stale, sf, so, inflight, offering, receiving>>
SendTimedOut ==
  /\ send = "timedout" /\ todo["send"] = "none" /\ FailSend
  /\ UNCHANGED <<handshake, conn, net, cut, open, closer, channel, verdicts,
                 files, stale, sf, so, inflight, offering, receiving>>

(* FILE_METADATA of the next file and its answer.                          *)
SendMeta ==
  /\ send = "file" /\ sf <= Len(files)
  /\ send' = "metaack" /\ net' = Deliver("S", Meta(sf), net)
  /\ UNCHANGED <<handshake, conn, lock, cut, open, closer, channel, todo,
                 verdicts, files, stale, sf, so, inflight, offering, receiving>>
SendMetaAck ==
  /\ send = "metaack" /\ net["S"] # <<>> /\ net' = Take("S")
  /\ IF Arrived("S", "metaack")
     THEN send' = "stream" /\ so' = 0 /\ inflight' = 0 /\ UNCHANGED <<lock, todo>>
     ELSE FailSend /\ UNCHANGED <<so, inflight>>
  /\ UNCHANGED <<handshake, conn, cut, open, closer, channel, verdicts, files,
                 stale, sf, offering, receiving>>

(* A chunk is read from the file and sent, with at most Window in flight.  *)
SendChunk_Unbounded ==
  /\ send = "stream" /\ todo["send"] = "none"
  /\ so < files[sf]
  /\ net' = Deliver("S", Chunk(sf, so, so + 1 = files[sf]), net)
  /\ so' = so + 1 /\ inflight' = inflight + 1
  /\ UNCHANGED <<handshake, conn, lock, cut, open, closer, channel, todo,
                 verdicts, files, stale, send, sf, offering, receiving>>
SendChunk ==
  /\ send = "stream" /\ todo["send"] = "none"
  /\ so < files[sf] /\ inflight < Window
  /\ net' = Deliver("S", Chunk(sf, so, so + 1 = files[sf]), net)
  /\ so' = so + 1 /\ inflight' = inflight + 1
  /\ UNCHANGED <<handshake, conn, lock, cut, open, closer, channel, todo,
                 verdicts, files, stale, send, sf, offering, receiving>>

(* With a full window, or after the last chunk, a frame is awaited; only a *)
(* CHUNK_ACK counts.                                                       *)
SendAcked_KeepCount ==
  /\ send = "stream" /\ todo["send"] = "none" /\ inflight > 0
  /\ inflight >= Window \/ so = files[sf]
  /\ net["S"] # <<>> /\ net' = Take("S")
  /\ IF Arrived("S", "chunkack")
     THEN todo' = [todo EXCEPT !["send"] = "progress"] ELSE UNCHANGED todo
  /\ UNCHANGED <<handshake, conn, lock, cut, open, closer, channel, verdicts,
                 files, stale, send, sf, so, inflight, offering, receiving>>
SendAcked ==
  /\ send = "stream" /\ todo["send"] = "none" /\ inflight > 0
  /\ inflight >= Window \/ so = files[sf]
  /\ net["S"] # <<>> /\ net' = Take("S")
  /\ IF Arrived("S", "chunkack")
     THEN inflight' = inflight - 1 /\ todo' = [todo EXCEPT !["send"] = "progress"]
     ELSE UNCHANGED <<inflight, todo>>
  /\ UNCHANGED <<handshake, conn, lock, cut, open, closer, channel, verdicts,
                 files, stale, send, sf, so, offering, receiving>>
SendNextFile ==
  /\ send = "stream" /\ todo["send"] = "none" /\ so = files[sf] /\ inflight = 0
  /\ send' = "file" /\ sf' = sf + 1
  /\ UNCHANGED <<handshake, conn, lock, net, cut, open, closer, channel, todo,
                 verdicts, files, stale, so, inflight, offering, receiving>>

(* TRANSFER_COMPLETE and the verdict of the receiver, passed on with the   *)
(* mutex held.                                                             *)
SendComplete ==
  /\ send = "file" /\ sf > Len(files)
  /\ send' = "final" /\ net' = Deliver("S", Ctl("complete"), net)
  /\ UNCHANGED <<handshake, conn, lock, cut, open, closer, channel, todo,
                 verdicts, files, stale, sf, so, inflight, offering, receiving>>
SendVerdict ==
  /\ send = "final" /\ net["S"] # <<>> /\ net' = Take("S")
  /\ send' = "verdict"
  /\ todo' = [todo EXCEPT !["send"] =
                IF Arrived("S", "ack") THEN "complete" ELSE "error"]
  /\ UNCHANGED <<handshake, conn, lock, cut, open, closer, channel, verdicts,
                 files, stale, sf, so, inflight, offering, receiving>>
SendReturns_Err ==
  /\ send = "verdict" /\ todo["send"] = "none" /\ FailSend
  /\ UNCHANGED <<handshake, conn, net, cut, open, closer, channel, verdicts,
                 files, stale, sf, so, inflight, offering, receiving>>
SendReturns ==
  /\ send = "verdict" /\ todo["send"] = "none"
  /\ send' = "done" /\ lock' = [lock EXCEPT !["S"] = "free"]
  /\ UNCHANGED <<handshake, conn, net, cut, open, closer, channel, todo,
                 verdicts, files, stale, sf, so, inflight, offering, receiving>>

(* scan_send_path fails, before the mutex is asked for, or a read or a     *)
(* write of the connection or of a file fails.                             *)
SendFails ==
  /\ send \in {"lock", "offer", "file", "metaack", "stream", "final"}
  /\ todo["send"] = "none"
  /\ Broken("S") \/ send \in {"lock", "file", "stream"}
  /\ FailSend
  /\ UNCHANGED <<handshake, conn, net, cut, open, closer, channel, verdicts,
                 files, stale, sf, so, inflight, offering, receiving>>

-----------------------------------------------------------------------------
(* do_receive_file.                                                        *)

Expected == IF files = <<>> THEN 1 ELSE Len(files)

(* An Err: TmpFileGuard removes the temporary file, the mutex is released, *)
(* nothing is sent to the peer, the Error goes to the host.                *)
FailRecv ==
  /\ recv' = "done" /\ tmp' = FALSE
  /\ lock' = [lock EXCEPT !["R"] = IF @ = "recv" THEN "free" ELSE @]
  /\ todo' = [todo EXCEPT !["recv"] = "error"]

(* The mutex is taken for the whole transfer and TRANSFER_ACCEPT sent.     *)
RecvLock ==
  /\ recv = "lock" /\ lock["R"] = "free"
  /\ IF conn["R"] = "slot"
     THEN /\ recv' = "outer" /\ lock' = [lock EXCEPT !["R"] = "recv"]
          /\ net' = Deliver("R", Ctl("accept"), net) /\ UNCHANGED <<todo, tmp>>
     ELSE FailRecv /\ UNCHANGED net
  /\ UNCHANGED <<handshake, conn, cut, open, closer, channel, verdicts, sending,
                 offering, rf, got, stored>>

(* Between files: FILE_METADATA is acknowledged and opens a temporary file *)
(* if its path is safe, TRANSFER_COMPLETE ends, the rest is ignored.       *)
RecvOuter ==
  /\ recv = "outer" /\ net["R"] # <<>>
  /\ LET m == Head(net["R"]) IN
     CASE m.kind = "meta" ->
            /\ net' = Deliver("R", Ctl("metaack"), Take("R"))
            /\ \/ /\ recv' = "inner" /\ tmp' = TRUE /\ got' = <<>> /\ rf' = m.file
                  /\ UNCHANGED <<lock, todo>>
               \/ FailRecv /\ UNCHANGED <<got, rf>>
       [] m.kind = "complete" ->
            /\ net' = Take("R") /\ recv' = "ack"
            /\ UNCHANGED <<lock, todo, tmp, got, rf>>
       [] OTHER -> net' = Take("R") /\ UNCHANGED <<recv, lock, todo, tmp, got, rf>>
  /\ UNCHANGED <<handshake, conn, cut, open, closer, channel, verdicts, sending,
                 offering, stored>>

(* Within a file: a chunk at the expected offset is written, acknowledged  *)
(* and reported; any control message but TRANSFER_COMPLETE is ignored.     *)
RecvChunk(m) ==
  IF m.off # Len(got)
  THEN FailRecv /\ net' = Take("R") /\ UNCHANGED got
  ELSE /\ got' = Append(got, <<m.file, m.off>>)
       /\ net' = Deliver("R", Ctl("chunkack"), Take("R"))
       /\ todo' = [todo EXCEPT !["recv"] = "progress"]
       /\ recv' = IF m.last \/ Len(got) + 1 >= files[rf] THEN "check" ELSE "inner"
       /\ UNCHANGED <<lock, tmp>>
RecvInner ==
  /\ recv = "inner" /\ todo["recv"] = "none" /\ net["R"] # <<>>
  /\ LET m == Head(net["R"]) IN
     IF m.kind = "chunk" THEN RecvChunk(m)
     ELSE /\ net' = Take("R")
          /\ recv' = IF m.kind = "complete" THEN "check" ELSE recv
          /\ UNCHANGED <<lock, todo, tmp, got>>
  /\ UNCHANGED <<handshake, conn, cut, open, closer, channel, verdicts, sending,
                 offering, rf, stored>>

(* The hash of the file is compared with the announced one and the file    *)
(* renamed to a free name.                                                 *)
RecvCheck_Unverified ==
  /\ recv = "check" /\ todo["recv"] = "none"
  /\ stored' = Append(stored, [file |-> rf, data |-> got, changed |-> rf = stale])
  /\ tmp' = FALSE
  /\ recv' = IF Len(stored) + 1 < Expected THEN "outer" ELSE "ack"
  /\ UNCHANGED <<lock, todo>>
  /\ UNCHANGED <<handshake, conn, net, cut, open, closer, channel, verdicts,
                 sending, offering, rf, got>>
RecvCheck ==
  /\ recv = "check" /\ todo["recv"] = "none"
  /\ IF got = Content(rf) /\ rf # stale
     THEN /\ stored' = Append(stored, [file |-> rf, data |-> got, changed |-> rf = stale])
          /\ tmp' = FALSE
          /\ recv' = IF Len(stored) + 1 < Expected THEN "outer" ELSE "ack"
          /\ UNCHANGED <<lock, todo>>
     ELSE FailRecv /\ UNCHANGED stored
  /\ UNCHANGED <<handshake, conn, net, cut, open, closer, channel, verdicts,
                 sending, offering, rf, got>>

(* TRANSFER_ACK and the Complete event, with the mutex held.               *)
RecvAck ==
  /\ recv = "ack" /\ recv' = "verdict"
  /\ net' = Deliver("R", Ctl("ack"), net)
  /\ todo' = [todo EXCEPT !["recv"] = "complete"]
  /\ UNCHANGED <<handshake, conn, lock, cut, open, closer, channel, verdicts,
                 sending, offering, rf, got, tmp, stored>>
RecvReturns ==
  /\ recv = "verdict" /\ todo["recv"] = "none"
  /\ recv' = "done" /\ lock' = [lock EXCEPT !["R"] = "free"]
  /\ UNCHANGED <<handshake, conn, net, cut, open, closer, channel, todo,
                 verdicts, sending, offering, rf, got, tmp, stored>>

(* Before the first file the receive directory cannot be made or a path of *)
(* the manifest is unsafe, or a read or a write of the connection or of    *)
(* the disk fails.                                                         *)
RecvFails ==
  /\ recv \in {"outer", "inner", "check", "ack"} /\ todo["recv"] = "none"
  /\ \/ Broken("R") \/ recv \in {"inner", "check"}
     \/ recv = "outer" /\ stored = <<>>
  /\ FailRecv
  /\ UNCHANGED <<handshake, conn, net, cut, open, closer, channel, verdicts,
                 sending, offering, rf, got, stored>>

-----------------------------------------------------------------------------
ListenerStep == Handshake \/ HandshakeFails
AcceptStep   == AcceptTakes \/ AcceptClosed \/ Accepted \/ AcceptFails
ConnectStep  == Connected \/ ConnectFails
ReaderStep   == ReaderTake \/ ReaderRecv \/ ReaderPut
SendStep     == SendLock \/ SendAnswered \/ SendTimedOut \/ SendMeta
                \/ SendMetaAck \/ SendChunk \/ SendAcked \/ SendNextFile
                \/ SendComplete \/ SendVerdict \/ SendReturns \/ SendFails
RecvStep     == RecvLock \/ RecvOuter \/ RecvInner \/ RecvCheck \/ RecvAck
                \/ RecvReturns \/ RecvFails
CloseStep(e) == CloseLocked(e) \/ CloseTimeout(e)

Next ==
  \/ Cut \/ Dial \/ AcceptCall \/ CloseListener
  \/ ListenerStep \/ AcceptStep \/ ConnectStep
  \/ SendCall \/ SendStep \/ SendTimeout
  \/ ReaderStep \/ (\E a \in BOOLEAN : Confirm(a)) \/ Refuse \/ RecvStep
  \/ \E t \in Tasks : Emit(t)
  \/ \E e \in Hosts : Pump(e) \/ CloseFinished(e) \/ Cancel(e) \/ CloseStep(e)

Spec == Init /\ [][Next]_vars

(* The tasks of the runtime run and the timeouts of the code fire; a host  *)
(* pumps its session until a Complete or an Error, as the pump loop of the *)
(* Android service does.  Nothing makes a user answer, nor a host close.   *)
Fairness ==
  /\ WF_vars(ListenerStep) /\ WF_vars(AcceptStep) /\ WF_vars(ConnectStep)
  /\ WF_vars(ReaderStep) /\ WF_vars(Refuse)
  /\ WF_vars(SendStep) /\ WF_vars(SendTimeout) /\ WF_vars(RecvStep)
  /\ \A t \in Tasks : WF_vars(Emit(t))
  /\ \A e \in Hosts : WF_vars(Pump(e)) /\ WF_vars(CloseStep(e))
FairSpec == Spec /\ Fairness

-----------------------------------------------------------------------------
(* Properties.                                                             *)

Events == {"offer", "progress", "complete", "error"}
Frames == [kind : {"hello", "helloack", "request", "accept", "reject", "metaack",
                   "chunkack", "ack", "complete", "close", "meta", "chunk"},
           file : 0..Len(files), off : Nat, last : BOOLEAN]

(* The values the variables take; the event channel never exceeds its      *)
(* capacity.                                                               *)
HandTypeOK ==
  /\ listener \in BOOLEAN /\ pending \in {"none", "tls", "queued"}
  /\ dial \in {"idle", "tls", "hello", "done"}
  /\ acc \in {"idle", "wait", "hello", "done"}
LinkTypeOK ==
  /\ conn \in [Hosts -> {"none", "call", "slot", "reader", "gone"}]
  /\ lock \in [Hosts -> {"free", "send", "recv"}]
  /\ net \in [Hosts -> Seq(Frames)] /\ cut \in BOOLEAN
  /\ open \in [Hosts -> BOOLEAN]
  /\ closer \in [Hosts -> {"none", "wait", "done"}]
EventTypeOK ==
  /\ events \in [Hosts -> Seq(Events)] /\ \A e \in Hosts : Len(events[e]) <= EventCap
  /\ finished \in [Hosts -> BOOLEAN] /\ asked \in BOOLEAN
  /\ todo \in [Tasks -> Events \cup {"none"}]
  /\ verdicts \in [Hosts -> Seq({"complete", "error"})]
SendTypeOK ==
  /\ files \in Seq(Nat) /\ stale \in 0..Len(files)
  /\ send \in {"idle", "lock", "offer", "timedout", "file", "metaack", "stream",
               "final", "verdict", "done"}
  /\ sf \in 1..(Len(files) + 1) /\ so \in Nat /\ inflight \in 0..Window
  /\ send \in {"metaack", "stream"} => sf \in 1..Len(files)
RecvTypeOK ==
  /\ reader \in {"none", "take", "recv", "put", "done"}
  /\ refuse \in {"none", "lock", "sent", "silent"}
  /\ offer \in BOOLEAN /\ early \in BOOLEAN
  /\ recv \in {"idle", "lock", "outer", "inner", "check", "ack", "verdict", "done"}
  /\ rf \in 0..Len(files) /\ tmp \in BOOLEAN /\ got \in Seq((0..Len(files)) \X Nat)
  /\ stored \in Seq([file : 0..Len(files), data : Seq((0..Len(files)) \X Nat),
                     changed : BOOLEAN])
TypeOK == HandTypeOK /\ LinkTypeOK /\ EventTypeOK /\ SendTypeOK /\ RecvTypeOK

(* What the hosts are told is true: do_send_file reports Complete only     *)
(* when the receiver has renamed every file of the manifest; a host gets   *)
(* one Complete or Error per transfer, the sender at most two when the     *)
(* offer timed out, and then no Complete, so that the pump loop may stop   *)
(* at the first.                                                           *)
CompleteIsStored ==
  /\ (\E i \in DOMAIN verdicts["S"] : verdicts["S"][i] = "complete") => Len(stored) = Len(files)
  /\ Len(verdicts["R"]) <= 1
  /\ Len(verdicts["S"]) <= 2
  /\ Len(verdicts["S"]) = 2 => verdicts["S"] = <<"error", "error">>

(* Whatever ends a transfer, the files under their final names are the     *)
(* first of the manifest, each with its scanned content, and a temporary   *)
(* file exists only while do_receive_file is within a file (TmpFileGuard). *)
ReceiveAllOrNothing ==
  /\ \A i \in 1..Len(stored) : stored[i] = [file |-> i, data |-> Content(i),
                                            changed |-> FALSE]
  /\ tmp => recv \in {"inner", "check"}

CountOf(s, k) == Cardinality({i \in DOMAIN s : s[i].kind = k})

(* The sender's in_flight is exact: while both transfers run on an         *)
(* unbroken connection, every chunk counted is on its way or its           *)
(* CHUNK_ACK is, so the window never drifts and no acknowledgement of one  *)
(* file is counted for the next.                                           *)
WindowExact ==
  send = "stream" /\ recv \in {"outer", "inner", "check", "ack", "verdict"}
    /\ ~Broken("S") /\ ~Broken("R")
  => inflight = CountOf(net["R"], "chunk") + CountOf(net["S"], "chunkack")

(* An answer of the host to an offer fails to reach the connection only if *)
(* nxfr_confirm was called before the reader had put the connection back,  *)
(* or the host closed the session: the Offer event is sent before the      *)
(* connection is put back.                                                 *)
AnswerLostOnlyEarly ==
  /\ refuse = "silent" => early \/ closer["R"] # "none"
  /\ (recv = "done" /\ conn["R"] = "reader") => early

(* A file without chunks before another one: the sender waits for the next *)
(* FILE_METADATA_ACK, the receiver for a chunk.                            *)
Stalls == \E i \in 1..(Len(files) - 1) : files[i] = 0

(* The hosts close a session after its Complete or Error.  The Android     *)
(* service does, but not after an Error when another session has become    *)
(* the active one or the active one has ended (NxfrService.kt:1049-1054).  *)
HostsClose == \A e \in Hosts : []<>(~finished[e] \/ ~open[e])

(* If the hosts close what is over, a call of nxfr_send_file and an        *)
(* accepted offer come to an end, though a task fails without a word to    *)
(* its peer and no read of a transfer has a timer: the close or the loss   *)
(* of the connection ends the other side.  An empty file before another    *)
(* one is the exception.                                                   *)
TransferEnds ==
  HostsClose => /\ (send # "idle") ~> (send = "done" \/ Stalls)
                /\ (recv # "idle") ~> (recv = "done" \/ Stalls)

(* When both hosts have closed their sessions, both ends of the connection *)
(* are dropped, though a close may time out, find the connection with the  *)
(* reader or race with its putting it back; with the same exception.  The  *)
(* close of a listener ends a blocked nxfr_accept.                         *)
CloseReleases ==
  /\ (\A e \in Hosts : closer[e] # "none") ~> ((\A e \in Hosts : Gone(e)) \/ Stalls)
  /\ (acc = "wait" /\ ~listener) ~> (acc # "wait")
=============================================================================
