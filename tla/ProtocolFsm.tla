----------------------------- MODULE ProtocolFsm -----------------------------
(* The two pure state machines of nxfr-core: session_handle_event and      *)
(* transfer_handle_event.  Each arm of their matches is a rule: the state, *)
(* the event, the new state and the actions that the caller is to carry    *)
(* out.  The rules run here for a sender and a receiver, with a caller     *)
(* that starts and cancels timers, delivers what is sent in order, and     *)
(* ignores an event for which the machine returns InvalidTransition.  The  *)
(* events of a session come from its surroundings in any order.            *)
EXTENDS Integers, Sequences

CONSTANT MaxPauses   \* how often a transfer may be paused

ASSUME FsmConstants == MaxPauses \in Nat

VARIABLES
  session,   \* the state of the session at each peer
  stimers,   \* the session timers that are running
  released,  \* how often the session's resources were released
  transfer,  \* the state of the transfer at each peer
  timers,    \* the transfer timers that are running
  net,       \* the messages under way to each peer
  lastOut,   \* the sender has put its last chunk on the wire
  reached,   \* the transfer states each peer has been in
  why,       \* the event that brought the transfer to its state
  told,      \* whether the user was notified
  kept,      \* whether the resume state was preserved
  pauses     \* how often the transfer was paused

vars == <<session, stimers, released, transfer, timers, net, lastOut, reached,
          why, told, kept, pauses>>
sessionVars  == <<session, stimers, released>>
transferVars == <<transfer, timers, net, lastOut, reached, why, told, kept, pauses>>

Peers == {"sender", "receiver"}
Other(p) == IF p = "sender" THEN "receiver" ELSE "sender"

Rule(from, ev, to, stop, start, send, do) ==
  [from |-> from, ev |-> ev, to |-> to, stop |-> stop, start |-> start,
   send |-> send, do |-> do]

-----------------------------------------------------------------------------
(* session_handle_event.  A timer's event has the name of the timer.       *)

SessionStates == {"Disconnected", "Connecting", "HelloWait", "Established",
                  "Pairing", "Active", "Closing", "Closed"}
SessionTimers == {"TlsHandshake", "HelloExchange", "PairingSas", "CloseGrace",
                  "KeepaliveTimeout"}
SessionEvents == {"UserConnect", "TlsEstablished", "TlsFailed", "HelloReceived",
                  "HelloAckReceived", "IncompatibleVersion", "PairRequestSent",
                  "PairAcceptReceived", "PairRejectReceived",
                  "UnpairedSessionAccepted", "MutuallyPaired", "SessionCloseSent",
                  "SessionCloseReceived", "ConnectionLost", "FatalErrorReceived"}

ConnectRules ==
  { Rule("Disconnected", "UserConnect", "Connecting", {}, {"TlsHandshake"}, <<>>, {}),
    Rule("Connecting", "TlsEstablished", "HelloWait", {"TlsHandshake"},
         {"HelloExchange"}, <<"Hello">>, {}),
    Rule("Connecting", "TlsFailed", "Closed", {"TlsHandshake"}, {}, <<>>, {"Release"}),
    Rule("Connecting", "TlsHandshake", "Closed", {"TlsHandshake"}, {}, <<>>, {"Release"}) }

HelloRules ==
  { Rule("HelloWait", "HelloReceived", "Established", {"HelloExchange"}, {},
         <<"HelloAck">>, {}),
    Rule("HelloWait", "HelloAckReceived", "Established", {"HelloExchange"}, {},
         <<>>, {"RecordSessionId"}),
    Rule("HelloWait", "HelloExchange", "Closed", {}, {}, <<>>, {"Release"}),
    Rule("HelloWait", "IncompatibleVersion", "Closed", {}, {}, <<"Error">>, {"Release"}) }

SasTimeout_None == {}
SasTimeout == {Rule("Pairing", "PairingSas", "Closed", {}, {}, <<>>, {"Close", "Release"})}

PairRules == SasTimeout \cup
  { Rule("Established", "PairRequestSent", "Pairing", {}, {"PairingSas"}, <<>>,
         {"DisplaySas"}),
    Rule("Established", "MutuallyPaired", "Active", {}, {}, <<>>, {}),
    Rule("Established", "UnpairedSessionAccepted", "Active", {}, {}, <<>>, {}),
    Rule("Pairing", "PairAcceptReceived", "Active", {"PairingSas"}, {}, <<>>, {"Pin"}),
    Rule("Pairing", "PairRejectReceived", "Established", {"PairingSas"}, {}, <<>>, {}) }

CloseRules ==
  { Rule("Active", "SessionCloseSent", "Closing", {}, {"CloseGrace"},
         <<"SessionClose">>, {}),
    Rule("Closing", "SessionCloseReceived", "Closed", {"CloseGrace"}, {}, <<>>,
         {"Close", "Release"}),
    Rule("Closing", "CloseGrace", "Closed", {"CloseGrace"}, {}, <<>>,
         {"Close", "Release"}) }

KeepaliveRule ==
  {Rule("Active", "KeepaliveTimeout", "Closed", {}, {}, <<"Error">>, {"Close", "Release"})}

(* Active has an arm of its own for both events; the last two arms take    *)
(* every other state but Closed and Disconnected.                          *)
LostRules ==
  { Rule(s, "ConnectionLost", "Closed", {}, {}, <<>>, {"Release"}) :
      s \in SessionStates \ {"Active", "Closed", "Disconnected"} }
AbortRules == LostRules \cup
  { Rule("Active", ev, "Closed", {}, {}, <<>>, {"Release"}) :
      ev \in {"ConnectionLost", "FatalErrorReceived"} }
  \cup { Rule(s, "FatalErrorReceived", "Closed", {}, {}, <<"Error">>,
              {"Close", "Release"}) :
           s \in SessionStates \ {"Active", "Closed", "Disconnected"} }

SessionRules == ConnectRules \cup HelloRules \cup PairRules \cup CloseRules
                  \cup KeepaliveRule \cup AbortRules

-----------------------------------------------------------------------------
(* transfer_handle_event.                                                  *)

TransferStates == {"Idle", "Offered", "Pending", "Negotiating", "Streaming",
                   "Paused", "Completing", "Complete", "Cancelled", "Failed"}
TransferTimers == {"Consent", "Negotiation", "ChunkAck", "Pause", "Completion"}
TransferEvents == {"SendTransferRequest", "ReceiveTransferRequest", "UserAccept",
                   "UserReject", "ReceiveTransferAccept", "ReceiveTransferReject",
                   "AllMetadataAcked", "AllFilesRejected", "PauseReceived",
                   "ResumeReceived", "LastChunkSent", "AllChunksReceived",
                   "CancelReceived", "TransferCompleteSent", "AckSent",
                   "AckSuccess", "AckPartialFailure", "ChecksumMismatch",
                   "DiskFull", "ConnectionLost", "FatalError"}
IsTerminal(s) == s \in {"Complete", "Cancelled", "Failed"}
IsActive(s) == s \in {"Offered", "Pending", "Negotiating", "Streaming", "Paused",
                      "Completing"}

(* The two guards that come before the match.                              *)
GlobalRules ==
  { Rule(s, "CancelReceived", "Cancelled", {}, {}, <<"Cancel">>, {"Cleanup", "Notify"}) :
      s \in {t \in TransferStates : IsActive(t)} }
  \cup { Rule(s, ev, "Failed", {}, {}, <<>>, {"Preserve", "Notify"}) :
           s \in {t \in TransferStates : IsActive(t)},
           ev \in {"FatalError", "ConnectionLost"} }

OfferRules ==
  { Rule("Idle", "SendTransferRequest", "Offered", {}, {"Consent"}, <<"Request">>, {}),
    Rule("Idle", "ReceiveTransferRequest", "Pending", {}, {"Consent"}, <<>>, {"Ask"}) }

RejectRule ==
  {Rule("Pending", "UserReject", "Cancelled", {"Consent"}, {}, <<"Reject">>, {"Notify"})}

OfferTimeout_Proceeds ==
  {Rule("Offered", "Consent", "Negotiating", {}, {"Negotiation"}, <<>>, {})}
OfferTimeout == {Rule("Offered", "Consent", "Failed", {}, {}, <<>>, {"Notify"})}

ConsentRules == RejectRule \cup OfferTimeout \cup
  { Rule("Pending", "UserAccept", "Negotiating", {"Consent"}, {"Negotiation"},
         <<"Accept">>, {"BeginMetadata"}),
    Rule("Offered", "ReceiveTransferAccept", "Negotiating", {"Consent"},
         {"Negotiation"}, <<>>, {"BeginMetadata"}),
    Rule("Offered", "ReceiveTransferReject", "Cancelled", {"Consent"}, {}, <<>>,
         {"Notify"}),
    Rule("Pending", "Consent", "Failed", {}, {}, <<"Reject">>, {"Notify"}) }

NegotiationRules ==
  { Rule("Negotiating", "AllMetadataAcked", "Streaming", {"Negotiation"},
         {"ChunkAck"}, <<>>, {"BeginChunks"}),
    Rule("Negotiating", "AllFilesRejected", "Failed", {"Negotiation"}, {}, <<>>,
         {"Notify"}),
    Rule("Negotiating", "Negotiation", "Failed", {}, {}, <<>>, {"Notify"}) }

StreamingRules ==
  { Rule("Streaming", "PauseReceived", "Paused", {"ChunkAck"}, {"Pause"}, <<>>,
         {"StopChunks"}),
    Rule("Streaming", "LastChunkSent", "Completing", {"ChunkAck"}, {"Completion"},
         <<"Complete">>, {}),
    Rule("Streaming", "AllChunksReceived", "Completing", {"ChunkAck"},
         {"Completion"}, <<"Ack">>, {}),
    Rule("Streaming", "ChecksumMismatch", "Failed", {"ChunkAck"}, {}, <<"Error">>,
         {"Cleanup", "Preserve"}),
    Rule("Streaming", "DiskFull", "Failed", {"ChunkAck"}, {}, <<"Error">>, {"Preserve"}),
    Rule("Streaming", "ChunkAck", "Failed", {}, {}, <<>>, {"Preserve", "Notify"}) }

ResumeRule_KeepTimer ==
  {Rule("Paused", "ResumeReceived", "Streaming", {}, {"ChunkAck"}, <<>>, {"ResumeChunks"})}
ResumeRule ==
  {Rule("Paused", "ResumeReceived", "Streaming", {"Pause"}, {"ChunkAck"}, <<>>,
        {"ResumeChunks"})}

PauseTimeout_None == {}
PauseTimeout ==
  {Rule("Paused", "Pause", "Failed", {}, {}, <<"Cancel">>, {"Preserve", "Notify"})}

CompletionTimeout == {Rule("Completing", "Completion", "Failed", {}, {}, <<>>, {"Notify"})}

CompletingRules == CompletionTimeout \cup
  { Rule("Completing", "AckSuccess", "Complete", {"Completion"}, {}, <<>>, {"Notify"}),
    Rule("Completing", "AckSent", "Complete", {"Completion"}, {}, <<>>, {"Notify"}),
    Rule("Completing", "AckPartialFailure", "Failed", {"Completion"}, {}, <<>>,
         {"Notify"}),
    Rule("Completing", "ChecksumMismatch", "Failed", {"Completion"}, {}, <<"Error">>,
         {"Notify"}) }

TransferRules == GlobalRules \cup OfferRules \cup ConsentRules \cup NegotiationRules
                   \cup StreamingRules \cup ResumeRule \cup PauseTimeout \cup CompletingRules

-----------------------------------------------------------------------------
Init ==
  /\ session = [p \in Peers |-> "Disconnected"]
  /\ stimers = [p \in Peers |-> {}]
  /\ released = [p \in Peers |-> 0]
  /\ transfer = [p \in Peers |-> "Idle"]
  /\ timers = [p \in Peers |-> {}]
  /\ net = [p \in Peers |-> <<>>]
  /\ lastOut = FALSE
  /\ reached = [p \in Peers |-> {"Idle"}]
  /\ why = [p \in Peers |-> "none"]
  /\ told = [p \in Peers |-> FALSE]
  /\ kept = [p \in Peers |-> FALSE]
  /\ pauses = 0

(* The caller carries out the actions of a session rule.                   *)
SessionStep(p, r) ==
  /\ r.from = session[p]
  /\ session' = [session EXCEPT ![p] = r.to]
  /\ stimers' = [stimers EXCEPT ![p] = ((@ \ {r.ev}) \ r.stop) \cup r.start]
  /\ released' = [released EXCEPT ![p] = IF "Release" \in r.do THEN @ + 1 ELSE @]
  /\ UNCHANGED transferVars

SessionEvent(p) ==
  \E r \in SessionRules : r.ev \in SessionEvents /\ SessionStep(p, r)

SessionTimerFires(p) ==
  \E r \in SessionRules : r.ev \in stimers[p] /\ SessionStep(p, r)

(* The caller carries out the actions of a transfer rule.  in is what is   *)
(* left to deliver to p, also what it sends besides the actions' messages. *)
TransferStep(p, r, in, also) ==
  /\ r.from = transfer[p]
  /\ transfer' = [transfer EXCEPT ![p] = r.to]
  /\ timers' = [timers EXCEPT ![p] = ((@ \ {r.ev}) \ r.stop) \cup r.start]
  /\ net' = [q \in Peers |-> IF q = p THEN in ELSE net[q] \o r.send \o also]
  /\ reached' = [reached EXCEPT ![p] = @ \cup {r.to}]
  /\ why' = [why EXCEPT ![p] = r.ev]
  /\ told' = [told EXCEPT ![p] = @ \/ "Notify" \in r.do]
  /\ kept' = [kept EXCEPT ![p] = @ \/ "Preserve" \in r.do]
  /\ UNCHANGED <<sessionVars, lastOut>>

(* The chunks are the caller's; of them only the last, which has a flag,   *)
(* matters to the machines.                                                *)
SendLastChunk ==
  /\ session["sender"] = "Active" /\ transfer["sender"] = "Streaming" /\ ~lastOut
  /\ lastOut' = TRUE
  /\ net' = [net EXCEPT !["receiver"] = Append(@, "LastChunk")]
  /\ UNCHANGED <<sessionVars, transfer, timers, reached, why, told, kept, pauses>>

(* What happens at a peer itself; the receiver answers the metadata.       *)
LocalEvents(p) ==
  IF p = "sender"
  THEN {"SendTransferRequest", "LastChunkSent", "CancelReceived", "FatalError"}
  ELSE {"UserAccept", "UserReject", "AllMetadataAcked", "AllFilesRejected",
        "ChecksumMismatch", "DiskFull", "AckSent", "CancelReceived", "FatalError"}
Answer(ev) == CASE ev = "AllMetadataAcked" -> <<"MetadataAck">>
                [] ev = "AllFilesRejected" -> <<"MetadataRejected">>
                [] OTHER -> <<>>

LocalEvent(p) ==
  /\ session[p] = "Active"
  /\ \E r \in TransferRules : /\ r.ev \in LocalEvents(p)
                              /\ r.ev = "LastChunkSent" => lastOut
                              /\ TransferStep(p, r, net[p], Answer(r.ev))
  /\ UNCHANGED pauses

PauseOrResume(p) ==
  /\ session[p] = "Active"
  /\ \E r \in TransferRules :
       /\ r.ev \in {"PauseReceived", "ResumeReceived"}
       /\ r.ev = "PauseReceived" => pauses < MaxPauses
       /\ TransferStep(p, r, net[p], <<>>)
       /\ pauses' = IF r.ev = "PauseReceived" THEN pauses + 1 ELSE pauses

TransferTimerFires(p) ==
  /\ \E r \in TransferRules : /\ r.ev \in timers[p]
                              /\ TransferStep(p, r, net[p], <<>>)
  /\ UNCHANGED pauses

(* The events that a message is delivered as.  All chunks are received     *)
(* with the last chunk or with TRANSFER_COMPLETE (transfer.rs:97): the     *)
(* caller may take either as the event.                                    *)
EventsOf(m) ==
  CASE m = "Request" -> {"ReceiveTransferRequest"}
    [] m = "Accept" -> {"ReceiveTransferAccept"}
    [] m = "Reject" -> {"ReceiveTransferReject"}
    [] m = "MetadataAck" -> {"AllMetadataAcked"}
    [] m = "MetadataRejected" -> {"AllFilesRejected"}
    [] m \in {"LastChunk", "Complete"} -> {"AllChunksReceived"}
    [] m = "Ack" -> {"AckSuccess", "AckPartialFailure"}
    [] m = "Cancel" -> {"CancelReceived"}
    [] m = "Error" -> {"FatalError"}

Receive(p) ==
  /\ session[p] = "Active" /\ net[p] # <<>>
  /\ \E r \in TransferRules : /\ r.ev \in EventsOf(Head(net[p]))
                              /\ TransferStep(p, r, Tail(net[p]), <<>>)
  /\ UNCHANGED pauses

(* InvalidTransition, or a last chunk after which the caller waits for     *)
(* TRANSFER_COMPLETE: the message is consumed without effect.              *)
Ignore(p) ==
  /\ session[p] = "Active" /\ net[p] # <<>>
  /\ \/ Head(net[p]) = "LastChunk"
     \/ ~\E r \in TransferRules : /\ r.from = transfer[p]
                                  /\ r.ev \in EventsOf(Head(net[p]))
  /\ net' = [net EXCEPT ![p] = Tail(@)]
  /\ UNCHANGED <<sessionVars, transfer, timers, lastOut, reached, why, told, kept, pauses>>

(* The session of the transfer is gone.                                    *)
LostWithSession(p) ==
  /\ session[p] = "Closed"
  /\ \E r \in TransferRules : /\ r.ev = "ConnectionLost"
                              /\ TransferStep(p, r, net[p], <<>>)
  /\ UNCHANGED pauses

Next ==
  \/ SendLastChunk
  \/ \E p \in Peers :
       \/ SessionEvent(p) \/ SessionTimerFires(p)
       \/ LocalEvent(p) \/ PauseOrResume(p) \/ TransferTimerFires(p)
       \/ Receive(p) \/ Ignore(p) \/ LostWithSession(p)

Spec == Init /\ [][Next]_vars

(* A running timer fires; nothing else is bound to happen.                 *)
FairSpec == Spec /\ \A p \in Peers : /\ WF_vars(SessionTimerFires(p))
                                     /\ WF_vars(TransferTimerFires(p))

-----------------------------------------------------------------------------
Messages == {"Request", "Accept", "Reject", "MetadataAck", "MetadataRejected",
             "LastChunk", "Complete", "Ack", "Cancel", "Error"}

(* The type of every variable.                                             *)
TypeOK ==
  /\ session \in [Peers -> SessionStates]
  /\ stimers \in [Peers -> SUBSET SessionTimers]
  /\ released \in [Peers -> Nat]
  /\ transfer \in [Peers -> TransferStates]
  /\ timers \in [Peers -> SUBSET TransferTimers]
  /\ net \in [Peers -> Seq(Messages)] /\ lastOut \in BOOLEAN
  /\ reached \in [Peers -> SUBSET TransferStates]
  /\ why \in [Peers -> {"none"} \cup TransferEvents \cup TransferTimers]
  /\ told \in [Peers -> BOOLEAN] /\ kept \in [Peers -> BOOLEAN]
  /\ pauses \in 0..MaxPauses

SessionTimersOf(s) ==
  CASE s = "Connecting" -> {"TlsHandshake"}
    [] s = "HelloWait" -> {"HelloExchange"}
    [] s = "Pairing" -> {"PairingSas"}
    [] s = "Closing" -> {"CloseGrace"}
    [] OTHER -> {}
TransferTimersOf(s) ==
  CASE s \in {"Offered", "Pending"} -> {"Consent"}
    [] s = "Negotiating" -> {"Negotiation"}
    [] s = "Streaming" -> {"ChunkAck"}
    [] s = "Paused" -> {"Pause"}
    [] s = "Completing" -> {"Completion"}
    [] OTHER -> {}

(* However events and timers interleave, a machine that has not ended runs *)
(* exactly the timer of its state, so that no timer of an earlier state    *)
(* can fire in a later one.                                                *)
TimersMatch ==
  \A p \in Peers :
    /\ session[p] # "Closed" => stimers[p] = SessionTimersOf(session[p])
    /\ ~IsTerminal(transfer[p]) => timers[p] = TransferTimersOf(transfer[p])

(* A transfer that has ended still runs a timer only if it was cancelled,  *)
(* lost its connection or met a fatal error: those arms cancel no timer.   *)
LeftoverOnlyOnAbort ==
  \A p \in Peers : IsTerminal(transfer[p]) /\ timers[p] # {}
                     => why[p] \in {"CancelReceived", "FatalError", "ConnectionLost"}

(* No peer is ahead of what the other has agreed to: the sender negotiates *)
(* only after the receiver accepted, streams only after its files were     *)
(* acknowledged, and succeeds only if the receiver had every chunk; the    *)
(* receiver takes the chunks as complete, on the last one or on            *)
(* TRANSFER_COMPLETE, only if the last was sent.  It may then be ahead of  *)
(* the sender, which streams until it is told that its last chunk is out.  *)
LedByPeer ==
  /\ "Negotiating" \in reached["sender"] => "Negotiating" \in reached["receiver"]
  /\ "Streaming" \in reached["sender"] => "Streaming" \in reached["receiver"]
  /\ "Completing" \in reached["receiver"] => lastOut /\ "Streaming" \in reached["sender"]
  /\ "Complete" \in reached["sender"] => "Completing" \in reached["receiver"]

(* Every end of a transfer is reported to the user, except a checksum      *)
(* mismatch and a full disk while streaming, which only preserve the       *)
(* resume state.                                                           *)
EndIsTold ==
  \A p \in Peers : IsTerminal(transfer[p])
                     => told[p] \/ (why[p] \in {"ChecksumMismatch", "DiskFull"} /\ kept[p])

(* The resources of a session are released once, whichever of the many     *)
(* ways to the closed state it takes.                                      *)
ReleasedOnce ==
  \A p \in Peers : released[p] = IF session[p] = "Closed" THEN 1 ELSE 0

(* A transfer that has begun ends at both peers, without any help of the   *)
(* other peer, the user or the network.                                    *)
TransferEnds == \A p \in Peers : (transfer[p] # "Idle") ~> IsTerminal(transfer[p])

(* A handshake, a pairing and a closing end; only an established and an    *)
(* active session may last.                                                *)
SessionSettles ==
  \A p \in Peers : (session[p] \in {"Connecting", "HelloWait", "Pairing", "Closing"})
                     ~> (session[p] \in {"Established", "Active", "Closed"})
=============================================================================
