---------------------------- MODULE ControlCodec ----------------------------
(***************************************************************************)
(* The CBOR codec of the control messages (nxfr-core: codec.rs,            *)
(* messages.rs, error_code.rs; nxfr-common: types.rs), as operators.       *)
(*                                                                         *)
(* A CBOR value is a tuple that starts with its kind: <<"int", n>>,        *)
(* <<"text", s>>, <<"bytes", length, content>>, <<"bool", b>>,             *)
(* <<"array", sequence>>, <<"map", function>>, <<"tag">>.  A CborMap is a  *)
(* function from keys to values.  An Option is a sequence of at most one   *)
(* element.  The Result of a decoder is a set: the one value decoded, or   *)
(* nothing on an error.  Text is abstract, byte strings are a length and a *)
(* content that only equality tells apart.                                 *)
(***************************************************************************)
EXTENDS Integers, Sequences, TLC

CONSTANTS
  U32,           \* 2^32, the modulus of `as u32'
  U64,           \* 2^64, the modulus of `as u64'
  MaxManifest,   \* MAX_MANIFEST_ENTRIES
  MaxNesting     \* MAX_CBOR_NESTING

ASSUME CodecAssumption ==
  U32 \in Nat \ {0} /\ U64 \in Nat \ {0} /\ MaxManifest \in Nat /\ MaxNesting \in Nat

Num(n) == <<"int", n>>
Text(s) == <<"text", s>>
Bytes(len, b) == <<"bytes", len, b>>
Bool(b) == <<"bool", b>>
Array(seq) == <<"array", seq>>
Map(m) == <<"map", m>>
Each(seq, V(_)) == [i \in DOMAIN seq |-> V(seq[i])]

-----------------------------------------------------------------------------
(* The enumerations with a text form.                                      *)

Platforms == [Linux |-> "linux", Android |-> "android", Windows |-> "windows",
              MacOs |-> "macos", Ios |-> "ios"]

(* Platform::as_str and from_str_lossy; Other(s) is <<"Other", s>>.        *)
PlatformStr(p) == IF p[1] = "Other" THEN p[2] ELSE Platforms[p[1]]
PlatformOf(s) ==
  IF \E p \in DOMAIN Platforms : Platforms[p] = s
    THEN <<CHOOSE p \in DOMAIN Platforms : Platforms[p] = s>> ELSE <<"Other", s>>

(* ErrorCode::as_str; Unknown(s) is <<"Unknown", s>>.                      *)
WireStr ==
  [UnsupportedVersion |-> "unsupported_version", InvalidFrame |-> "invalid_frame",
   PayloadTooLarge |-> "payload_too_large", InvalidCbor |-> "invalid_cbor",
   UnknownMessageType |-> "unknown_message_type", SessionTimeout |-> "session_timeout",
   ChecksumMismatch |-> "checksum_mismatch", DiskFull |-> "disk_full",
   StorageError |-> "storage_error", PathRejected |-> "path_rejected",
   TransferNotFound |-> "transfer_not_found", StreamNotFound |-> "stream_not_found",
   IdentityChanged |-> "identity_changed", PairRequired |-> "pair_required",
   RateLimited |-> "rate_limited", InternalError |-> "internal_error",
   ManifestTooLarge |-> "manifest_too_large"]
CodeStr(c) == IF c[1] = "Unknown" THEN c[2] ELSE WireStr[c[1]]

(* ErrorCode::from_wire_str, a table of its own in the code.               *)
FromWireStr ==
  [unsupported_version |-> "UnsupportedVersion", invalid_frame |-> "InvalidFrame",
   payload_too_large |-> "PayloadTooLarge", invalid_cbor |-> "InvalidCbor",
   unknown_message_type |-> "UnknownMessageType", session_timeout |-> "SessionTimeout",
   checksum_mismatch |-> "ChecksumMismatch", disk_full |-> "DiskFull",
   storage_error |-> "StorageError", path_rejected |-> "PathRejected",
   transfer_not_found |-> "TransferNotFound", stream_not_found |-> "StreamNotFound",
   identity_changed |-> "IdentityChanged", pair_required |-> "PairRequired",
   rate_limited |-> "RateLimited", internal_error |-> "InternalError",
   manifest_too_large |-> "ManifestTooLarge"]
CodeOf(s) == IF s \in DOMAIN FromWireStr THEN <<FromWireStr[s]>> ELSE <<"Unknown", s>>

-----------------------------------------------------------------------------
(* The getters.                                                            *)

Has(map, key, kind) == key \in DOMAIN map /\ map[key][1] = kind
(* An optional field is absent, or it is decoded by the getter.            *)
Opt(map, key, result) == IF key \in DOMAIN map THEN {<<r>> : r \in result} ELSE {<<>>}
(* Every element decodes, or the array does not.                           *)
All(seq, D(_)) ==
  IF \A i \in DOMAIN seq : D(seq[i]) # {}
    THEN {[i \in DOMAIN seq |-> CHOOSE d \in D(seq[i]) : TRUE]} ELSE {}

get_uint(map, key) ==
  IF Has(map, key, "int") /\ map[key][2] >= 0 THEN {map[key][2]} ELSE {}
get_u32(map, key) == {n % U32 : n \in get_uint(map, key)}
get_text(map, key) == IF Has(map, key, "text") THEN {map[key][2]} ELSE {}
get_bool(map, key) == IF Has(map, key, "bool") THEN {map[key][2]} ELSE {}
get_bytes(map, key, len) ==
  IF Has(map, key, "bytes") /\ map[key][2] = len THEN {map[key][3]} ELSE {}
get_text_opt(map, key) == Opt(map, key, get_text(map, key))
get_uint_opt(map, key) == Opt(map, key, get_uint(map, key))
get_bytes_opt(map, key, len) == Opt(map, key, get_bytes(map, key, len))

text_of(v) == IF v[1] = "text" THEN {v[2]} ELSE {}
get_str_array(map, key) ==
  IF key \notin DOMAIN map THEN {<<>>}
  ELSE IF Has(map, key, "array") THEN All(map[key][2], text_of) ELSE {}

(* `val as u32': no test for a negative number here.                       *)
u32_of(v) == IF v[1] = "int" THEN {v[2] % U32} ELSE {}
get_uint_array_opt(map, key) ==
  Opt(map, key, IF Has(map, key, "array") THEN All(map[key][2], u32_of) ELSE {})

parse_version_array(map) ==
  IF Has(map, "protocol_version", "array") /\ Len(map["protocol_version"][2]) = 2
    THEN All(map["protocol_version"][2], u32_of) ELSE {}

transfer_id(map) == get_bytes(map, "transfer_id", 16)

-----------------------------------------------------------------------------
(* The decoders of the messages.                                           *)

decode_hello(map) ==
  {[type |-> "Hello", protocol_version |-> v, device_id |-> d, device_name |-> n,
    platform |-> PlatformOf(p), capabilities |-> c, is_paired |-> b] :
     v \in parse_version_array(map), d \in get_bytes(map, "device_id", 32),
     n \in get_text(map, "device_name"), p \in get_text(map, "platform"),
     c \in get_str_array(map, "capabilities"), b \in get_bool(map, "is_paired")}

decode_hello_ack(map) ==
  {[type |-> "HelloAck", protocol_version |-> v, device_id |-> d, device_name |-> n,
    platform |-> PlatformOf(p), capabilities |-> c, is_paired |-> b, session_id |-> s] :
     v \in parse_version_array(map), d \in get_bytes(map, "device_id", 32),
     n \in get_text(map, "device_name"), p \in get_text(map, "platform"),
     c \in get_str_array(map, "capabilities"), b \in get_bool(map, "is_paired"),
     s \in get_u32(map, "session_id")}

decode_pair_request(map) ==
  {[type |-> "PairRequest", sas_method |-> s] : s \in get_text(map, "sas_method")}

(* The details of an error are not read, nor written by encode_error.      *)
decode_error(map) ==
  {[type |-> "Error", code |-> CodeOf(c), message |-> m, fatal |-> f, details |-> <<>>] :
     c \in get_text(map, "code"), m \in get_text_opt(map, "message"),
     f \in get_bool(map, "fatal")}

TransferTypes == [files |-> "Files", directory |-> "Directory"]
EntryTypes == [file |-> "File", dir |-> "Dir"]
Statuses == [success |-> "Success", partial_failure |-> "PartialFailure"]
named(table, result) == {table[s] : s \in result \cap DOMAIN table}

(* An entry of a manifest: a file needs a size and a hash.                 *)
decode_entry(v) ==
  LET em == v[2]
      type == IF "type" \in DOMAIN em THEN named(EntryTypes, get_text(em, "type")) ELSE {"File"}
      needed(o, t) == t = "File" => o # <<>> IN
  IF v[1] # "map" THEN {} ELSE
  {e \in {[file_id |-> i, relative_path |-> p, size |-> s, sha256 |-> h, entry_type |-> t] :
            i \in get_u32(em, "file_id"), p \in get_text(em, "relative_path"),
            s \in get_uint_opt(em, "size"), h \in get_bytes_opt(em, "sha256", 32), t \in type} :
     needed(e.size, e.entry_type) /\ needed(e.sha256, e.entry_type)}

decode_transfer_request(map) ==
  LET manifest == IF Has(map, "manifest", "array") /\ Len(map["manifest"][2]) <= MaxManifest
                    THEN All(map["manifest"][2], decode_entry) ELSE {} IN
  {[type |-> "TransferRequest", transfer_id |-> i, transfer_type |-> t, display_name |-> n,
    total_files |-> f, total_size |-> s, manifest |-> m] :
     i \in transfer_id(map), t \in named(TransferTypes, get_text(map, "transfer_type")),
     n \in get_text(map, "display_name"), f \in get_u32(map, "total_files"),
     s \in get_uint(map, "total_size"), m \in manifest}

decode_file_metadata(map) ==
  {[type |-> "FileMetadata", transfer_id |-> i, file_id |-> f, stream_id |-> s,
    relative_path |-> p, size |-> n, sha256 |-> h, mime_type |-> m, modified_time |-> t] :
     i \in transfer_id(map), f \in get_u32(map, "file_id"), s \in get_u32(map, "stream_id"),
     p \in get_text(map, "relative_path"), n \in get_uint(map, "size"),
     h \in get_bytes(map, "sha256", 32), m \in get_text_opt(map, "mime_type"),
     t \in get_uint_opt(map, "modified_time")}

decode_file_metadata_ack(map) ==
  {[type |-> "FileMetadataAck", transfer_id |-> i, file_id |-> f, stream_id |-> s,
    accepted |-> a] :
     i \in transfer_id(map), f \in get_u32(map, "file_id"),
     s \in get_u32(map, "stream_id"), a \in get_bool(map, "accepted")}

decode_chunk_ack(map) ==
  {[type |-> "ChunkAck", stream_id |-> s, message_id |-> m, offset |-> o, length |-> l] :
     s \in get_u32(map, "stream_id"), m \in get_uint(map, "message_id"),
     o \in get_uint(map, "offset"), l \in get_uint(map, "length")}

decode_transfer_ack(map) ==
  {[type |-> "TransferAck", transfer_id |-> i, status |-> s, failed_files |-> f] :
     i \in transfer_id(map), s \in named(Statuses, get_text(map, "status")),
     f \in get_uint_array_opt(map, "failed_files")}

decode_resume_query(map) ==
  {[type |-> "ResumeQuery", transfer_id |-> i, file_ids |-> f] :
     i \in transfer_id(map), f \in get_uint_array_opt(map, "file_ids")}

(* A range is a pair of integers; nothing tests their sign before they are *)
(* cast `as u64'.                                                          *)
u64_of(v) == IF v[1] = "int" THEN {v[2] % U64} ELSE {}
decode_range(v) ==
  IF v[1] = "array" /\ Len(v[2]) = 2 THEN All(v[2], u64_of) ELSE {}
decode_file_status(v) ==
  LET fm == v[2]
      ranges == IF Has(fm, "received_ranges", "array")
                  THEN All(fm["received_ranges"][2], decode_range) ELSE {} IN
  IF v[1] # "map" THEN {} ELSE
  {[file_id |-> i, received_bytes |-> b, received_ranges |-> r, partial_sha256 |-> h] :
     i \in get_u32(fm, "file_id"), b \in get_uint(fm, "received_bytes"), r \in ranges,
     h \in get_bytes_opt(fm, "partial_sha256", 32)}

(* The files of a status count only if it is resumable; a value that is no *)
(* array is taken for no files.                                            *)
decode_resume_status(map) ==
  LET files(resumable) ==
        IF resumable /\ Has(map, "files", "array")
          THEN {<<fs>> : fs \in All(map["files"][2], decode_file_status)} ELSE {<<>>} IN
  UNION {{[type |-> "ResumeStatus", transfer_id |-> i, resumable |-> r, files |-> f,
           expiry |-> e] :
            i \in transfer_id(map), f \in files(r), e \in get_uint_opt(map, "expiry")} :
         r \in get_bool(map, "resumable")}

(* The messages that decode_control handles itself.                        *)
plain(type) == {[type |-> type]}
reasoned(type, map) == {[type |-> type, reason |-> r] : r \in get_text_opt(map, "reason")}
about(type, map) == {[type |-> type, transfer_id |-> i] : i \in transfer_id(map)}
about_reasoned(type, map) ==
  {[type |-> type, transfer_id |-> i, reason |-> r] :
     i \in transfer_id(map), r \in get_text_opt(map, "reason")}

decode_typed(code, map) ==
  CASE code = 1 -> decode_hello(map)
    [] code = 2 -> decode_hello_ack(map)
    [] code = 3 -> decode_pair_request(map)
    [] code = 4 -> plain("PairAccept")
    [] code = 5 -> reasoned("PairReject", map)
    [] code = 6 -> reasoned("SessionClose", map)
    [] code = 9 -> decode_error(map)
    [] code = 16 -> decode_transfer_request(map)
    [] code = 17 -> about("TransferAccept", map)
    [] code = 18 -> about_reasoned("TransferReject", map)
    [] code = 19 -> decode_file_metadata(map)
    [] code = 20 -> decode_file_metadata_ack(map)
    [] code = 21 -> decode_chunk_ack(map)
    [] code = 22 -> about("TransferPause", map)
    [] code = 23 -> about("TransferResume", map)
    [] code = 24 -> about_reasoned("TransferCancel", map)
    [] code = 25 -> about("TransferComplete", map)
    [] code = 26 -> decode_transfer_ack(map)
    [] code = 32 -> decode_resume_query(map)
    [] code = 33 -> decode_resume_status(map)
    [] OTHER -> {}

(* check_nesting_depth: the values n levels down, for every n.  A tag      *)
(* anywhere is refused.                                                    *)
Children(v) ==
  CASE v[1] = "array" -> {v[2][i] : i \in DOMAIN v[2]}
    [] v[1] = "map" -> {v[2][key] : key \in DOMAIN v[2]}
    [] OTHER -> {}
check_nesting_depth(v) ==
  LET Level[n \in 0..(MaxNesting + 1)] ==
        IF n = 0 THEN {v} ELSE UNION {Children(x) : x \in Level[n - 1]} IN
  /\ Level[MaxNesting + 1] = {}
  /\ \A n \in 0..MaxNesting : \A x \in Level[n] : x[1] # "tag"

decode_control(v) ==
  IF ~check_nesting_depth(v) \/ v[1] # "map" THEN {}
  ELSE UNION {decode_typed(code, v[2]) : code \in get_uint(v[2], "type")}

-----------------------------------------------------------------------------
(* The encoder.                                                            *)

(* `if let Some(x) = option { map.insert(key, V(x)) }'                     *)
IfSome(key, option, V(_)) == IF option = <<>> THEN <<>> ELSE key :> V(option[1])
Hash(h) == Bytes(32, h)
Ints(seq) == Array(Each(seq, Num))

encode_hello(m) ==
  "capabilities" :> Array(Each(m.capabilities, Text)) @@ "device_id" :> Bytes(32, m.device_id)
  @@ "device_name" :> Text(m.device_name) @@ "is_paired" :> Bool(m.is_paired)
  @@ "platform" :> Text(PlatformStr(m.platform))
  @@ "protocol_version" :> Ints(m.protocol_version)

encode_error(m) ==
  "code" :> Text(CodeStr(m.code)) @@ "fatal" :> Bool(m.fatal)
  @@ IfSome("message", m.message, Text)

(* The type of a file is written only beside directories.                  *)
encode_entry_Untyped(e, mixed) ==
  Map("file_id" :> Num(e.file_id) @@ "relative_path" :> Text(e.relative_path)
      @@ IfSome("sha256", e.sha256, Hash) @@ IfSome("size", e.size, Num)
      @@ IF mixed THEN "type" :> Text("file") ELSE <<>>)
encode_entry(e, mixed) ==
  Map("file_id" :> Num(e.file_id) @@ "relative_path" :> Text(e.relative_path)
      @@ IfSome("sha256", e.sha256, Hash) @@ IfSome("size", e.size, Num)
      @@ IF e.entry_type = "Dir" THEN "type" :> Text("dir")
         ELSE IF mixed THEN "type" :> Text("file") ELSE <<>>)

encode_transfer_request(m) ==
  LET mixed == \E i \in DOMAIN m.manifest : m.manifest[i].entry_type = "Dir"
      entry(e) == encode_entry(e, mixed) IN
  "display_name" :> Text(m.display_name) @@ "manifest" :> Array(Each(m.manifest, entry))
  @@ "total_files" :> Num(m.total_files) @@ "total_size" :> Num(m.total_size)
  @@ "transfer_type" :> Text(IF m.transfer_type = "Files" THEN "files" ELSE "directory")

encode_file_metadata(m) ==
  "file_id" :> Num(m.file_id) @@ IfSome("mime_type", m.mime_type, Text)
  @@ IfSome("modified_time", m.modified_time, Num) @@ "relative_path" :> Text(m.relative_path)
  @@ "sha256" :> Hash(m.sha256) @@ "size" :> Num(m.size) @@ "stream_id" :> Num(m.stream_id)

encode_file_metadata_ack(m) ==
  "accepted" :> Bool(m.accepted) @@ "file_id" :> Num(m.file_id)
  @@ "stream_id" :> Num(m.stream_id)

encode_chunk_ack(m) ==
  "length" :> Num(m.length) @@ "message_id" :> Num(m.message_id)
  @@ "offset" :> Num(m.offset) @@ "stream_id" :> Num(m.stream_id)

encode_transfer_ack(m) ==
  IfSome("failed_files", m.failed_files, Ints)
  @@ "status" :> Text(IF m.status = "Success" THEN "success" ELSE "partial_failure")

encode_file_status(f) ==
  Map("file_id" :> Num(f.file_id) @@ IfSome("partial_sha256", f.partial_sha256, Hash)
      @@ "received_bytes" :> Num(f.received_bytes)
      @@ "received_ranges" :> Array(Each(f.received_ranges, Ints)))

encode_resume_status(m) ==
  LET list(fs) == Array(Each(fs, encode_file_status)) IN
  IfSome("expiry", m.expiry, Num) @@ IfSome("files", m.files, list)
  @@ "resumable" :> Bool(m.resumable)

TypeCode ==
  [Hello |-> 1, HelloAck |-> 2, PairRequest |-> 3, PairAccept |-> 4, PairReject |-> 5,
   SessionClose |-> 6, Error |-> 9, TransferRequest |-> 16, TransferAccept |-> 17,
   TransferReject |-> 18, FileMetadata |-> 19, FileMetadataAck |-> 20, ChunkAck |-> 21,
   TransferPause |-> 22, TransferResume |-> 23, TransferCancel |-> 24,
   TransferComplete |-> 25, TransferAck |-> 26, ResumeQuery |-> 32, ResumeStatus |-> 33]

encode_to_map(m) ==
  "type" :> Num(TypeCode[m.type])
  @@ (IF "transfer_id" \in DOMAIN m THEN "transfer_id" :> Bytes(16, m.transfer_id) ELSE <<>>)
  @@ (IF "reason" \in DOMAIN m THEN IfSome("reason", m.reason, Text) ELSE <<>>)
  @@ CASE m.type = "Hello" -> encode_hello(m)
       [] m.type = "HelloAck" -> encode_hello(m) @@ "session_id" :> Num(m.session_id)
       [] m.type = "PairRequest" -> "sas_method" :> Text(m.sas_method)
       [] m.type = "Error" -> encode_error(m)
       [] m.type = "TransferRequest" -> encode_transfer_request(m)
       [] m.type = "FileMetadata" -> encode_file_metadata(m)
       [] m.type = "FileMetadataAck" -> encode_file_metadata_ack(m)
       [] m.type = "ChunkAck" -> encode_chunk_ack(m)
       [] m.type = "TransferAck" -> encode_transfer_ack(m)
       [] m.type = "ResumeQuery" -> IfSome("file_ids", m.file_ids, Ints)
       [] m.type = "ResumeStatus" -> encode_resume_status(m)
       [] OTHER -> <<>>
=============================================================================
