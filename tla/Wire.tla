-------------------------------- MODULE Wire --------------------------------
(***************************************************************************)
(* One direction of a connection: NxfrConnection (connection.rs) frames    *)
(* control messages, chunks and keepalives (frame.rs, framing.rs), the     *)
(* network carries the bytes and cuts them where it likes, and the decoder *)
(* at the other end puts the frames together again and decodes the control *)
(* messages they carry (codec.rs).  The payload of a chunk stays as it is. *)
(*                                                                         *)
(* A byte is a pair <<frame, position>>: the decoder looks at positions    *)
(* only, so a header it takes from the wrong place has no magic.  Besides  *)
(* this program the peer may be a newer one, which adds keys it alone      *)
(* knows, or a deviant one, which leaves a key out or a frame too long.    *)
(***************************************************************************)
EXTENDS ControlCodec

CONSTANTS
  Menu,          \* the messages that may travel in each control frame
  HeaderSize,    \* FRAME_HEADER_SIZE
  ControlMax,    \* CONTROL_PAYLOAD_MAX, in units of MessageSize
  ChunkMin,      \* CHUNK_PAYLOAD_MIN: offset and hash, and a byte of data
  ChunkMax,      \* CHUNK_PAYLOAD_MAX
  KeepaliveMax   \* KEEPALIVE_PAYLOAD_MAX

ASSUME WireAssumption ==
  /\ HeaderSize \in Nat \ {0} /\ ControlMax \in Nat
  /\ ChunkMin \in Nat /\ ChunkMax \in Nat /\ KeepaliveMax \in Nat

VARIABLES
  sent,      \* the frames sent, with what they were made from
  flight,    \* bytes in the network
  open,      \* the sender's end is up
  next,      \* next_message_id of the sender
  buf,       \* the decoder's buffer
  got,       \* what the receiver was given
  state      \* of the receiver: "reading", "failed" or "closed"

vars == <<sent, flight, open, next, buf, got, state>>
sender == <<sent, open, next>>
MaxFrames == Len(Menu)

Init ==
  /\ sent = <<>> /\ flight = <<>> /\ open = TRUE /\ next = 1
  /\ buf = <<>> /\ got = <<>> /\ state = "reading"

-----------------------------------------------------------------------------
(* The sender.                                                             *)

(* NxfrCodec::encode: the header, then the payload.  The header is not     *)
(* validated on the way out.                                               *)
Bytestream(frame) == [i \in 1..(HeaderSize + frame.len) |-> <<frame.number, i>>]
Send(frame) ==
  /\ open /\ Len(sent) < MaxFrames
  /\ sent' = Append(sent, frame) /\ flight' = flight \o Bytestream(frame)
  /\ UNCHANGED <<open, buf, got, state>>
Number == Len(sent) + 1

(* The size of a message: what grows with the transfer is the manifest, of *)
(* which 500 entries may exceed the 64 KiB of a frame, and the files of a  *)
(* resume status.                                                          *)
MessageSize(m) ==
  1 + IF m.type = "TransferRequest" THEN Len(m.manifest)
      ELSE IF m.type = "ResumeStatus" /\ m.files # <<>> THEN Len(m.files[1]) ELSE 0

(* What becomes of the map on its way out.                                 *)
Edits(map) == {"none", "future"} \cup (DOMAIN map)
Edited(map, edit) ==
  CASE edit = "none" -> map
    [] edit = "future" -> map @@ "future_key" :> Text("future")
    [] OTHER -> [key \in DOMAIN map \ {edit} |-> map[key]]

(* send_control.  A message that encodes to too much is an error that      *)
(* sends nothing and uses up no message id.                                *)
Refused(m) ==
  \/ m.type = "TransferRequest" /\ Len(m.manifest) > MaxManifest
  \/ MessageSize(m) > ControlMax

SendControl_SkipId(m, edit) ==
  /\ ~Refused(m)
  /\ next' = next + 2
  /\ Send([number |-> Number, kind |-> "Control", id |-> next, len |-> MessageSize(m),
           msg |-> m, edit |-> edit, map |-> Edited(encode_to_map(m), edit)])

SendControl(m, edit) ==
  /\ ~Refused(m)
  /\ next' = next + 1
  /\ Send([number |-> Number, kind |-> "Control", id |-> next, len |-> MessageSize(m),
           msg |-> m, edit |-> edit, map |-> Edited(encode_to_map(m), edit)])

(* send_chunk, of a chunk with data.                                       *)
SendChunk(len) ==
  /\ next' = next + 1
  /\ Send([number |-> Number, kind |-> "Chunk", id |-> next, len |-> len])

(* send_raw, for keepalives; their message id is 0.                        *)
SendKeepalive(len) ==
  /\ UNCHANGED next
  /\ Send([number |-> Number, kind |-> "Keepalive", id |-> 0, len |-> len])

(* The connection goes down, with bytes of it lost from any point on.      *)
HangUp(n) ==
  /\ open /\ open' = FALSE
  /\ flight' = SubSeq(flight, 1, n)
  /\ UNCHANGED <<sent, next, buf, got, state>>

-----------------------------------------------------------------------------
(* The receiver.                                                           *)

(* One read of the socket takes the bytes that are there, or some of them. *)
(* A recv_frame that is given up meanwhile leaves the buffer as it is.     *)
Read(n) ==
  /\ state = "reading"
  /\ buf' = buf \o SubSeq(flight, 1, n) /\ flight' = SubSeq(flight, n + 1, Len(flight))
  /\ UNCHANGED <<sender, got, state>>

(* FrameHeader::validate_payload_len.                                      *)
validate_payload_len(kind, len) ==
  CASE kind = "Control" -> len <= ControlMax
    [] kind = "Chunk" -> len >= ChunkMin /\ len <= ChunkMax
    [] kind = "Keepalive" -> len \in {0, KeepaliveMax}

(* FrameHeader::parse: magic and version are right where a frame starts.   *)
Parses(header) ==
  LET frame == sent[header[1][1]] IN
  /\ \A i \in 1..HeaderSize : header[i] = <<frame.number, i>>
  /\ validate_payload_len(frame.kind, frame.len)

(* What a payload is decoded to, once the frame is complete.               *)
Payload(frame) ==
  IF frame.kind = "Control" THEN decode_control(Map(frame.map)) ELSE {}

(* NxfrCodec::decode, on a buffer with a header: an error, nothing yet, or *)
(* a frame.                                                                *)
Total_Payload(frame) == IF frame.len > HeaderSize THEN frame.len ELSE HeaderSize
Total(frame) == HeaderSize + frame.len
Header == SubSeq(buf, 1, HeaderSize)
Complete_More == Len(buf) > Total(sent[buf[1][1]])
Complete == Len(buf) >= Total(sent[buf[1][1]])
Decodable == Len(buf) >= HeaderSize /\ (Parses(Header) => Complete)

Decode ==
  LET frame == sent[buf[1][1]] IN
  /\ state = "reading" /\ Decodable
  /\ IF Parses(Header)
       THEN /\ buf' = SubSeq(buf, Total(frame) + 1, Len(buf)) /\ UNCHANGED state
            /\ got' = Append(got, [id |-> frame.id, msg |-> Payload(frame),
                                   payload |-> SubSeq(buf, HeaderSize + 1, Total(frame))])
       ELSE state' = "failed" /\ UNCHANGED <<buf, got>>
  /\ UNCHANGED <<sender, flight>>

(* The stream ends: recv_frame reports it, whatever is left in the buffer. *)
Eof ==
  /\ state = "reading" /\ ~open /\ flight = <<>> /\ ~Decodable
  /\ state' = "closed"
  /\ UNCHANGED <<sender, flight, buf, got>>

-----------------------------------------------------------------------------
Choices == IF Number > MaxFrames THEN {} ELSE Menu[Number]
ReadSome == \E n \in 1..Len(flight) : Read(n)
Next ==
  \/ \E m \in Choices : \E e \in Edits(encode_to_map(m)) : SendControl(m, e)
  \/ \E len \in ChunkMin..(ChunkMax + 1) : SendChunk(len)
  \/ \E len \in 0..KeepaliveMax : SendKeepalive(len)
  \/ \E n \in 0..Len(flight) : HangUp(n)
  \/ ReadSome \/ Decode \/ Eof

Spec == Init /\ [][Next]_vars
(* The network delivers, and the receiver's task runs.                     *)
FairSpec == Spec /\ WF_vars(ReadSome) /\ WF_vars(Decode) /\ WF_vars(Eof)

-----------------------------------------------------------------------------
(* Properties.                                                             *)

(* The values the variables take; a connection that has sent n frames has  *)
(* used at most n message ids.                                             *)
TypeOK ==
  /\ Len(sent) <= MaxFrames /\ open \in BOOLEAN /\ next \in 1..(Len(sent) + 1)
  /\ Len(got) <= Len(sent) /\ state \in {"reading", "failed", "closed"}

(* Whatever the network makes of the byte stream, the receiver is given    *)
(* the frames that were sent, in order, each with its own id and the whole *)
(* of its payload, and never a piece of a frame.                           *)
InOrder ==
  \A i \in DOMAIN got :
    /\ got[i].id = sent[i].id
    /\ got[i].payload = [k \in 1..sent[i].len |-> <<i, HeaderSize + k>>]

(* A manifest entry that has no encoding: decode_entry refuses it.         *)
Incomplete(e) == e.entry_type = "File" /\ (e.size = <<>> \/ e.sha256 = <<>>)
HasIncomplete(m) ==
  m.type = "TransferRequest" /\ \E i \in DOMAIN m.manifest : Incomplete(m.manifest[i])

(* A name under Other or Unknown that is one of the known ones.            *)
Recognised(value, open_name, table) ==
  IF value[1] = open_name /\ \E k \in DOMAIN table : table[k] = value[2]
    THEN <<CHOOSE k \in DOMAIN table : table[k] = value[2]>> ELSE value

(* What a message is taken for.  Four kinds of value share their encoding  *)
(* with another: the name of a known platform or of a known error code     *)
(* under Other or Unknown, the files of a status that is not resumable and *)
(* the details of an error, which PROTOCOL.md:691 has and encode_to_map    *)
(* leaves out.                                                             *)
Canonical(m) ==
  CASE m.type \in {"Hello", "HelloAck"} ->
         [m EXCEPT !.platform = Recognised(@, "Other", Platforms)]
    [] m.type = "Error" ->
         [m EXCEPT !.code = Recognised(@, "Unknown", WireStr), !.details = <<>>]
    [] m.type = "ResumeStatus" /\ ~m.resumable -> [m EXCEPT !.files = <<>>]
    [] OTHER -> m

(* The Option fields of messages.rs, and the one list with a default.      *)
OptionFields == {"reason", "message", "mime_type", "modified_time", "failed_files", "file_ids",
                 "files", "expiry", "capabilities"}

(* What a frame should decode to.                                          *)
Expected(m, edit) ==
  CASE HasIncomplete(m) -> {}
    [] ~HasIncomplete(m) /\ edit \in {"none", "future"} -> {Canonical(m)}
    [] ~HasIncomplete(m) /\ edit \in OptionFields -> {[Canonical(m) EXCEPT ![edit] = <<>>]}
    [] OTHER -> {}

(* A message decodes to itself at the other end, up to the four kinds of   *)
(* value of Canonical, also when the peer is a newer program that adds     *)
(* keys; one that lacks a key is refused, unless the key is that of an     *)
(* Option: then it decodes to the message without it.  encode_to_map and   *)
(* the decoders are written apart; a manifest with a file without size or  *)
(* hash is the only message that is sent and not understood.               *)
RoundTrip ==
  \A i \in DOMAIN got :
    sent[i].kind = "Control" => got[i].msg = Expected(sent[i].msg, sent[i].edit)

(* A frame no correct peer sends.                                          *)
Faulty(frame) ==
  \/ frame.kind = "Chunk" /\ frame.len > ChunkMax
  \/ frame.kind = "Keepalive" /\ frame.len \notin {0, KeepaliveMax}

(* While the connection holds, every frame sent is delivered; the receiver *)
(* gives up only on a frame no correct peer sends.                         *)
Delivered ==
  <>[]( \/ state = "closed" \/ Len(got) = Len(sent)
        \/ state = "failed" /\ Faulty(sent[Len(got) + 1]))
=============================================================================
