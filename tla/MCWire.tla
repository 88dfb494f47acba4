------------------------------- MODULE MCWire -------------------------------
(* Wire with two frames: a short one, and one of every kind of message,    *)
(* with its optional fields there and not there and numbers at the edge of *)
(* their width.                                                            *)
EXTENDS Wire

Options(S) == {<<>>} \cup {<<x>> : x \in S}
Short == U32 - 1        \* the largest u32
Long == U32 + 1         \* a u64 that is no u32

Hellos ==
  {[type |-> t, protocol_version |-> <<1, 0>>, device_id |-> "d", device_name |-> "n",
    platform |-> p, capabilities |-> c, is_paired |-> TRUE, session_id |-> Short] :
     t \in {"Hello", "HelloAck"}, c \in {<<>>, <<"resume">>},
     p \in {<<"Linux">>, <<"Ios">>, <<"Other", "plan9">>, <<"Other", "linux">>}}
HelloMessages ==
  {IF h.type = "Hello" THEN [k \in DOMAIN h \ {"session_id"} |-> h[k]] ELSE h : h \in Hellos}

Errors ==
  {[type |-> "Error", code |-> c, message |-> m, fatal |-> FALSE, details |-> d] :
     c \in {<<e>> : e \in DOMAIN WireStr} \cup {<<"Unknown", "new">>, <<"Unknown", "disk_full">>},
     m \in Options({"text"}), d \in Options({"more"})}

File(size) == [file_id |-> Short, relative_path |-> "p", size |-> size, sha256 |-> <<"h">>,
               entry_type |-> "File"]
Dir == [file_id |-> 0, relative_path |-> "p", size |-> <<>>, sha256 |-> <<>>, entry_type |-> "Dir"]
Requests ==
  {[type |-> "TransferRequest", transfer_id |-> "t", transfer_type |-> k, display_name |-> "n",
    total_files |-> Len(m), total_size |-> Long, manifest |-> m] :
     k \in {"Files", "Directory"},
     m \in {<<>>, <<File(<<Long>>)>>, <<Dir>>, <<Dir, File(<<0>>)>>, <<File(<<>>)>>,
            <<File(<<0>>), File(<<0>>), File(<<0>>)>>, <<Dir, Dir, Dir, Dir>>}}

Metadata ==
  {[type |-> "FileMetadata", transfer_id |-> "t", file_id |-> Short, stream_id |-> 1,
    relative_path |-> "p", size |-> Long, sha256 |-> "h", mime_type |-> m, modified_time |-> t] :
     m \in Options({"text"}), t \in Options({Long})}
  \cup [type : {"FileMetadataAck"}, transfer_id : {"t"}, file_id : {Short}, stream_id : {1},
        accepted : BOOLEAN]
  \cup [type : {"ChunkAck"}, stream_id : {1}, message_id : {Long}, offset : {0}, length : {Long}]
  \cup [type : {"TransferAck"}, transfer_id : {"t"}, status : {"Success", "PartialFailure"},
        failed_files : Options({<<>>, <<0, Short>>})]

Ranges(r) == [file_id |-> 1, received_bytes |-> Long, received_ranges |-> r,
              partial_sha256 |-> <<"h">>]
Resumes ==
  [type : {"ResumeQuery"}, transfer_id : {"t"}, file_ids : Options({<<Short>>})]
  \cup [type : {"ResumeStatus"}, transfer_id : {"t"}, resumable : BOOLEAN,
        files : Options({<<>>, <<Ranges(<<<<0, Long>>>>)>>}), expiry : Options({Long})]

Plain ==
  {[type |-> "PairRequest", sas_method |-> "numeric"], [type |-> "PairAccept"]}
  \cup [type : {"PairReject", "SessionClose"}, reason : Options({"text"})]
  \cup [type : {"TransferAccept", "TransferPause", "TransferResume", "TransferComplete"},
        transfer_id : {"t"}]
  \cup [type : {"TransferReject", "TransferCancel"}, transfer_id : {"t"},
        reason : Options({"text"})]

SmallMenu ==
  <<{[type |-> "PairAccept"]},
    HelloMessages \cup Errors \cup Requests \cup Metadata \cup Resumes \cup Plain>>
=============================================================================
