------------------------------- MODULE Pairing -------------------------------
(* Pairing of two devices A and B.  A starts it: a daemon by the command   *)
(* pair of an IPC client (ipc.rs, cmd_pair_streaming) or a host of the FFI *)
(* library by nxfr_pair_begin and nxfr_pair_confirm (nxfr-ffi, lib.rs).    *)
(* B answers: the session loop of a daemon (handler.rs, handle_incoming)   *)
(* or a host of the FFI library.  A may have several sessions with B at a  *)
(* time; a daemon B keeps their prompts under one key, "pair-<peer id>",   *)
(* in pending_offers.  The short codes that the users compare are equal    *)
(* whenever both ends belong to one TLS session and are not modelled.      *)
EXTENDS Integers, Sequences

CONSTANT N   \* the number of sessions A opens to B

ASSUME PairingConstants == N \in Nat

Sessions == 1..N   \* in the order in which A opens them; 0 stands for none

VARIABLES
  kind,     \* "daemon" or "ffi", for each side
  watched,  \* B has watchers
  net,      \* the messages on their way to a side of a session
  up,       \* the sides whose end of the session's connection is open
  cut,      \* the network dropped the session's connection
  ini,      \* where A is in a session
  resp,     \* where B is in a session
  said,     \* what a side's user or its daemon sent: "none", "yes" or "no"
  offer,    \* the session whose prompt is under the key, 0 if there is none
  rx,       \* consent_rx: "none", "open", "yes", "no", "dropped" or "late"
  prompt,   \* the session whose prompt the watching user saw last
  reply,    \* the session whose prompt the user is answering, until it arrives
  meant,    \* the session whose prompt the user had seen when they answered rx
  removing, \* transfer_confirm has answered and not yet removed the entry
  db,       \* A's paired.db has an entry for B
  pins,     \* the sessions that paired at a side: insert_or_update was called
  failed    \* those of them whose insert_or_update returned an error

link  == <<net, up, cut>>
users == <<watched, prompt, reply, meant>>
vars == <<kind, link, ini, resp, said, offer, rx, users, removing, db, pins, failed>>

Sides == {"A", "B"}
Other(x) == IF x = "A" THEN "B" ELSE "A"

Init ==
  /\ kind \in [Sides -> {"daemon", "ffi"}]
  /\ watched \in (IF kind["B"] = "daemon" THEN BOOLEAN ELSE {FALSE})
  /\ net = [s \in Sessions |-> [x \in Sides |-> <<>>]]
  /\ up = [s \in Sessions |-> {}]
  /\ cut = [s \in Sessions |-> FALSE]
  /\ ini = [s \in Sessions |-> "idle"]
  /\ resp = [s \in Sessions |-> "idle"]
  /\ said = [s \in Sessions |-> [x \in Sides |-> "none"]]
  /\ offer = 0
  /\ rx = [s \in Sessions |-> "none"]
  /\ prompt = 0 /\ reply = 0
  /\ meant = [s \in Sessions |-> 0]
  /\ removing = "none"
  /\ db = FALSE
  /\ pins = [x \in Sides |-> {}] /\ failed = [x \in Sides |-> {}]

-----------------------------------------------------------------------------
(* The connection of a session.                                            *)

Broken(s, x) == cut[s] \/ Other(x) \notin up[s]
Put(s, x, m, n) ==
  IF Broken(s, x) THEN n ELSE [n EXCEPT ![s][Other(x)] = Append(@, m)]
Take(s, x) == [net EXCEPT ![s][x] = Tail(@)]
Next1(s, x) == IF net[s][x] = <<>> THEN "nothing" ELSE Head(net[s][x])
Ended(s, x) == net[s][x] = <<>> /\ Broken(s, x)
Hangs(s, x) == [up EXCEPT ![s] = @ \ {x}]
Unread(s, x, n) == [n EXCEPT ![s][x] = <<>>]

(* The bound: one session is cut.                                          *)
Cut(s) ==
  /\ up[s] # {} /\ \A t \in Sessions : ~cut[t]
  /\ cut' = [cut EXCEPT ![s] = TRUE]
  /\ net' = [net EXCEPT ![s] = [x \in Sides |-> <<>>]]
  /\ UNCHANGED <<kind, up, ini, resp, said, offer, rx, users, removing, db, pins, failed>>

(* insert_or_update of the peer's entry.  An error is logged or ignored:   *)
(* the side goes on as if it were paired and reports that it is.  Of B's   *)
(* entries only the history is kept: no step of B depends on them.  The    *)
(* bound: one write fails.                                                 *)
Pin(s, x) ==
  /\ pins' = [pins EXCEPT ![x] = @ \cup {s}]
  /\ \/ db' = (db \/ x = "A") /\ UNCHANGED failed
     \/ (\A y \in Sides : failed[y] = {}) /\ failed' = [failed EXCEPT ![x] = @ \cup {s}] /\ UNCHANGED db

(* cmd_unpair, nxfr_unpair.                                                *)
Unpair ==
  /\ db /\ db' = FALSE
  /\ UNCHANGED <<kind, link, ini, resp, said, offer, rx, users, removing, pins, failed>>

-----------------------------------------------------------------------------
(* HELLO and HELLO_ACK are exchanged, PAIR_REQUEST is sent and A's user is *)
(* shown the code.                                                         *)
Requests(s) ==
  /\ ini[s] = "idle" /\ \A t \in 1..(s - 1) : ini[t] # "idle"
  /\ ini' = [ini EXCEPT ![s] = "confirm"]
  /\ resp' = [resp EXCEPT ![s] = "loop"]
  /\ up' = [up EXCEPT ![s] = Sides]
  /\ net' = [net EXCEPT ![s]["B"] = <<"request">>]
  /\ UNCHANGED <<kind, cut, said, offer, rx, users, removing, db, pins, failed>>

(* cmd_pair_streaming, for a device that is not paired yet.                *)
Connect(s) == kind["A"] = "daemon" /\ ~db /\ Requests(s)

(* nxfr_connect and nxfr_pair_begin.                                       *)
FfiBegin(s) == kind["A"] = "ffi" /\ Requests(s)

(* Already paired; or no connection, another identity, no HELLO_ACK within *)
(* 10 s, receiving disabled at B: no session comes about.                  *)
ConnectFails(s) ==
  /\ ini[s] = "idle" /\ \A t \in 1..(s - 1) : ini[t] # "idle"
  /\ ini' = [ini EXCEPT ![s] = "done"] /\ resp' = [resp EXCEPT ![s] = "done"]
  /\ UNCHANGED <<kind, link, said, offer, rx, users, removing, db, pins, failed>>

-----------------------------------------------------------------------------
(* A daemon as A: the rest of cmd_pair_streaming.                          *)

(* pair_confirm with "accepted": PAIR_ACCEPT is sent, then the peer's      *)
(* answer awaited.                                                         *)
IniAccept(s) ==
  /\ kind["A"] = "daemon" /\ ini[s] = "confirm"
  /\ ini' = [ini EXCEPT ![s] = "await"]
  /\ said' = [said EXCEPT ![s]["A"] = "yes"]
  /\ net' = Put(s, "A", "accept", net)
  /\ UNCHANGED <<kind, up, cut, resp, offer, rx, users, removing, db, pins, failed>>

(* The user rejects, the client is gone or 60 s have passed: PAIR_REJECT   *)
(* and SESSION_CLOSE.                                                      *)
IniReject(s) ==
  /\ kind["A"] = "daemon" /\ ini[s] = "confirm"
  /\ ini' = [ini EXCEPT ![s] = "done"]
  /\ said' = [said EXCEPT ![s]["A"] = "no"]
  /\ net' = Unread(s, "A", Put(s, "A", "close", Put(s, "A", "reject", net)))
  /\ up' = Hangs(s, "A")
  /\ UNCHANGED <<kind, cut, resp, offer, rx, users, removing, db, pins, failed>>

(* The client's socket fails while it is told of the code: no answer.      *)
IniAbandon(s) ==
  /\ kind["A"] = "daemon" /\ ini[s] = "confirm"
  /\ ini' = [ini EXCEPT ![s] = "done"]
  /\ up' = Hangs(s, "A") /\ net' = Unread(s, "A", net)
  /\ UNCHANGED <<kind, cut, resp, said, offer, rx, users, removing, db, pins, failed>>

(* The peer's PAIR_ACCEPT: the entry is written and SESSION_CLOSE sent.    *)
IniPinned_AnyAnswer(s) ==
  /\ kind["A"] = "daemon" /\ ini[s] = "await" /\ Next1(s, "A") # "nothing"
  /\ ini' = [ini EXCEPT ![s] = "done"]
  /\ Pin(s, "A")
  /\ net' = Put(s, "A", "close", Unread(s, "A", net)) /\ up' = Hangs(s, "A")
  /\ UNCHANGED <<kind, cut, resp, said, offer, rx, users, removing>>
IniPinned(s) ==
  /\ kind["A"] = "daemon" /\ ini[s] = "await" /\ Next1(s, "A") = "accept"
  /\ ini' = [ini EXCEPT ![s] = "done"]
  /\ Pin(s, "A")
  /\ net' = Put(s, "A", "close", Unread(s, "A", net)) /\ up' = Hangs(s, "A")
  /\ UNCHANGED <<kind, cut, resp, said, offer, rx, users, removing>>

(* PAIR_REJECT, another message or an error: no entry, no SESSION_CLOSE.   *)
IniFailed(s) ==
  /\ kind["A"] = "daemon" /\ ini[s] = "await"
  /\ Next1(s, "A") \notin {"nothing", "accept"} \/ Ended(s, "A")
  /\ ini' = [ini EXCEPT ![s] = "done"]
  /\ up' = Hangs(s, "A") /\ net' = Unread(s, "A", net)
  /\ UNCHANGED <<kind, cut, resp, said, offer, rx, users, removing, db, pins, failed>>

-----------------------------------------------------------------------------
(* A daemon as B: PAIR_REQUEST in the session loop.                        *)

(* The prompt is stored under the peer's key, where it replaces another    *)
(* session's prompt, and shown to the watchers.  Without watchers the      *)
(* request is accepted at once.                                            *)
RespRequest_KeepFirst(s) ==
  /\ kind["B"] = "daemon" /\ resp[s] = "loop" /\ Next1(s, "B") = "request"
  /\ IF watched
     THEN /\ resp' = [resp EXCEPT ![s] = "consent"]
          /\ rx' = [rx EXCEPT ![s] = "open"]
          /\ offer' = (IF offer = 0 THEN s ELSE offer) /\ prompt' = s
          /\ net' = Take(s, "B") /\ UNCHANGED said
     ELSE /\ resp' = [resp EXCEPT ![s] = "await"]
          /\ said' = [said EXCEPT ![s]["B"] = "yes"]
          /\ net' = Put(s, "B", "accept", Take(s, "B"))
          /\ UNCHANGED <<rx, offer, prompt>>
  /\ UNCHANGED <<kind, up, cut, ini, watched, reply, meant, removing, db, pins, failed>>
RespRequest(s) ==
  /\ kind["B"] = "daemon" /\ resp[s] = "loop" /\ Next1(s, "B") = "request"
  /\ IF watched
     THEN /\ resp' = [resp EXCEPT ![s] = "consent"]
          /\ rx' = [t \in Sessions |->
                      IF t = s THEN "open"
                      ELSE IF t = offer /\ rx[t] = "open" THEN "dropped" ELSE rx[t]]
          /\ offer' = s /\ prompt' = s
          /\ net' = Take(s, "B") /\ UNCHANGED said
     ELSE /\ resp' = [resp EXCEPT ![s] = "await"]
          /\ said' = [said EXCEPT ![s]["B"] = "yes"]
          /\ net' = Put(s, "B", "accept", Take(s, "B"))
          /\ UNCHANGED <<rx, offer, prompt>>
  /\ UNCHANGED <<kind, up, cut, ini, watched, reply, meant, removing, db, pins, failed>>

(* The watching user decides on the prompt they see, once.                 *)
Decide ==
  /\ prompt # 0 /\ reply = 0
  /\ reply' = prompt /\ prompt' = 0
  /\ UNCHANGED <<kind, link, ini, resp, said, offer, rx, watched, meant,
                 removing, db, pins, failed>>

(* transfer_confirm for the key: the responder is taken and used; the      *)
(* entry is removed under another acquisition of the mutex.                *)
Answer(yes) ==
  /\ reply # 0 /\ reply' = 0 /\ removing = "none"
  /\ offer # 0 /\ rx[offer] = "open"
  /\ rx' = [rx EXCEPT ![offer] = IF yes THEN "yes" ELSE "no"]
  /\ meant' = [meant EXCEPT ![offer] = reply]
  /\ removing' = "key"
  /\ UNCHANGED <<kind, link, ini, resp, said, offer, watched, prompt, db, pins, failed>>

(* "offer already resolved or not found".                                  *)
AnswerTooLate ==
  /\ reply # 0 /\ (offer # 0 => rx[offer] # "open") /\ reply' = 0
  /\ UNCHANGED <<kind, link, ini, resp, said, offer, rx, watched, prompt, meant,
                 removing, db, pins, failed>>

(* Whoever removes the key drops the responder that is under it.           *)
Unkeyed == [t \in Sessions |-> IF t = offer /\ rx[t] = "open" THEN "dropped" ELSE rx[t]]
AnswerRemoves ==
  /\ removing = "key" /\ removing' = "none"
  /\ rx' = Unkeyed /\ offer' = 0
  /\ UNCHANGED <<kind, link, ini, resp, said, users, db, pins, failed>>

(* The expiry task of main.rs, and the 60 s of the handler itself.         *)
Expire ==
  /\ offer # 0 /\ rx[offer] = "open"
  /\ rx' = [rx EXCEPT ![offer] = "late"] /\ offer' = 0
  /\ UNCHANGED <<kind, link, ini, resp, said, users, removing, db, pins, failed>>
ConsentTimeout(s) ==
  /\ resp[s] = "consent" /\ rx[s] = "open"
  /\ rx' = [rx EXCEPT ![s] = "late"]
  /\ UNCHANGED <<kind, link, ini, resp, said, offer, users, removing, db, pins, failed>>

(* The consent resolves: the key is removed, with whatever prompt is under *)
(* it, and the answer sent.                                                *)
Consented(s) ==
  /\ resp[s] = "consent" /\ rx[s] # "open"
  /\ offer' = 0
  /\ rx' = [Unkeyed EXCEPT ![s] = rx[s]]
  /\ LET yes == rx[s] = "yes" IN
     /\ resp' = [resp EXCEPT ![s] = IF yes THEN "await" ELSE "loop"]
     /\ said' = [said EXCEPT ![s]["B"] = IF yes THEN "yes" ELSE "no"]
     /\ net' = Put(s, "B", IF yes THEN "accept" ELSE "reject", net)
  /\ UNCHANGED <<kind, up, cut, ini, users, removing, db, pins, failed>>

(* After its own PAIR_ACCEPT the daemon waits, without a timer, for the    *)
(* peer's: only that writes the entry.  Any message ends the wait.         *)
RespAwaited_NoPin(s) ==
  /\ kind["B"] = "daemon" /\ resp[s] = "await" /\ Next1(s, "B") # "nothing"
  /\ resp' = [resp EXCEPT ![s] = "loop"] /\ net' = Take(s, "B")
  /\ UNCHANGED <<db, pins, failed>>
  /\ UNCHANGED <<kind, up, cut, ini, said, offer, rx, users, removing>>
RespAwaited(s) ==
  /\ kind["B"] = "daemon" /\ resp[s] = "await" /\ Next1(s, "B") # "nothing"
  /\ resp' = [resp EXCEPT ![s] = "loop"] /\ net' = Take(s, "B")
  /\ IF Next1(s, "B") = "accept" THEN Pin(s, "B") ELSE UNCHANGED <<db, pins, failed>>
  /\ UNCHANGED <<kind, up, cut, ini, said, offer, rx, users, removing>>

(* The rest of the loop: SESSION_CLOSE is answered and ends it, a stray    *)
(* message is ignored, an ended connection ends the handler wherever it    *)
(* reads.                                                                  *)
RespLoop(s) ==
  /\ kind["B"] = "daemon" /\ resp[s] = "loop"
  /\ Next1(s, "B") \notin {"nothing", "request"}
  /\ IF Next1(s, "B") = "close"
     THEN /\ resp' = [resp EXCEPT ![s] = "done"] /\ up' = Hangs(s, "B")
          /\ net' = Put(s, "B", "close", Unread(s, "B", net))
     ELSE net' = Take(s, "B") /\ UNCHANGED <<resp, up>>
  /\ UNCHANGED <<kind, cut, ini, said, offer, rx, users, removing, db, pins, failed>>
RespEnded_LoopOnly(s) ==
  /\ kind["B"] = "daemon" /\ resp[s] \in {"loop"} /\ Ended(s, "B")
  /\ resp' = [resp EXCEPT ![s] = "done"] /\ up' = Hangs(s, "B")
  /\ UNCHANGED <<kind, net, cut, ini, said, offer, rx, users, removing, db, pins, failed>>
RespEnded(s) ==
  /\ kind["B"] = "daemon" /\ resp[s] \in {"loop", "await"} /\ Ended(s, "B")
  /\ resp' = [resp EXCEPT ![s] = "done"] /\ up' = Hangs(s, "B")
  /\ UNCHANGED <<kind, net, cut, ini, said, offer, rx, users, removing, db, pins, failed>>

-----------------------------------------------------------------------------
(* A host of the FFI library.                                              *)

(* nxfr_pair_confirm: the answer is sent and, if it is an acceptance and   *)
(* the send did not fail, the entry written; the peer's answer is never    *)
(* read.  As B it is called after the PairRequest event of the reader.     *)
At(s, x) == IF x = "A" THEN ini[s] ELSE resp[s]
FfiConfirm(s, x, yes) ==
  /\ kind[x] = "ffi" /\ At(s, x) = "confirm"
  /\ said' = [said EXCEPT ![s][x] = IF yes THEN "yes" ELSE "no"]
  /\ net' = Put(s, x, IF yes THEN "accept" ELSE "reject", net)
  /\ IF yes THEN Pin(s, x) ELSE UNCHANGED <<db, pins, failed>>
  /\ IF x = "A" THEN ini' = [ini EXCEPT ![s] = "sent"] /\ UNCHANGED resp
                ELSE resp' = [resp EXCEPT ![s] = "sent"] /\ UNCHANGED ini
  /\ UNCHANGED <<kind, up, cut, offer, rx, users, removing>>

(* The reader of nxfr_accept reads one message.                            *)
FfiReader(s) ==
  /\ kind["B"] = "ffi" /\ resp[s] = "loop" /\ Next1(s, "B") # "nothing"
  /\ net' = Take(s, "B")
  /\ resp' = [resp EXCEPT ![s] = IF Next1(s, "B") = "request" THEN "confirm" ELSE "sent"]
  /\ UNCHANGED <<kind, up, cut, ini, said, offer, rx, users, removing, db, pins, failed>>

(* nxfr_close, whenever the host's user leaves.                            *)
FfiClose(s, x) ==
  /\ kind[x] = "ffi" /\ At(s, x) \in {"confirm", "sent", "loop"}
  /\ net' = Put(s, x, "close", Unread(s, x, net)) /\ up' = Hangs(s, x)
  /\ IF x = "A" THEN ini' = [ini EXCEPT ![s] = "done"] /\ UNCHANGED resp
                ELSE resp' = [resp EXCEPT ![s] = "done"] /\ UNCHANGED ini
  /\ UNCHANGED <<kind, cut, said, offer, rx, users, removing, db, pins, failed>>

-----------------------------------------------------------------------------
IniStep(s) == IniReject(s) \/ IniPinned(s) \/ IniFailed(s)
RespStep(s) == RespRequest(s) \/ Consented(s) \/ RespAwaited(s) \/ RespLoop(s)
               \/ RespEnded(s) \/ FfiReader(s)
Next ==
  \/ \E s \in Sessions :
       \/ Cut(s) \/ Connect(s) \/ FfiBegin(s) \/ ConnectFails(s)
       \/ IniStep(s) \/ IniAccept(s) \/ IniAbandon(s)
       \/ RespStep(s) \/ ConsentTimeout(s)
       \/ \E x \in Sides : FfiClose(s, x) \/ \E yes \in BOOLEAN : FfiConfirm(s, x, yes)
  \/ \E yes \in BOOLEAN : Answer(yes)
  \/ Unpair \/ Decide \/ AnswerTooLate \/ AnswerRemoves \/ Expire

Spec == Init /\ [][Next]_vars

(* Tasks run, timers fire.  No user is made to answer: IniReject is in     *)
(* IniStep for its timeout.                                                *)
Fairness ==
  /\ \A s \in Sessions : WF_vars(IniStep(s)) /\ WF_vars(RespStep(s))
                         /\ WF_vars(ConsentTimeout(s))
  /\ WF_vars(AnswerRemoves)
FairSpec == Spec /\ Fairness

-----------------------------------------------------------------------------
(* Properties.                                                             *)

Messages == {"request", "accept", "reject", "close"}

(* The values the variables take.                                          *)
TypeOK ==
  /\ kind \in [Sides -> {"daemon", "ffi"}]
  /\ watched \in BOOLEAN
  /\ net \in [Sessions -> [Sides -> Seq(Messages)]]
  /\ up \in [Sessions -> SUBSET Sides] /\ cut \in [Sessions -> BOOLEAN]
  /\ ini \in [Sessions -> {"idle", "confirm", "await", "sent", "done"}]
  /\ resp \in [Sessions -> {"idle", "loop", "consent", "confirm", "await",
                            "sent", "done"}]
  /\ said \in [Sessions -> [Sides -> {"none", "yes", "no"}]]
  /\ {offer, prompt, reply} \subseteq 0..N
  /\ rx \in [Sessions -> {"none", "open", "yes", "no", "dropped", "late"}]
  /\ meant \in [Sessions -> 0..N]
  /\ removing \in {"none", "key"}
  /\ db \in BOOLEAN
  /\ pins \in [Sides -> SUBSET Sessions] /\ failed \in [Sides -> SUBSET Sessions]

(* A side pairs in a session, writing an entry or trying to, only if this  *)
(* side accepted and, if this side is a daemon, the peer had sent its      *)
(* acceptance too.  A host of the FFI library pairs on its own word.       *)
PinMeansAgreed ==
  \A x \in Sides, s \in Sessions : s \in pins[x] =>
    /\ said[s][x] = "yes"
    /\ kind[x] = "daemon" => said[s][Other(x)] = "yes"

(* Whether a session wrote an entry at a side.                             *)
Written(s, x) == s \in pins[x] /\ s \notin failed[x]

(* Between two daemons, a session that both have ended and whose           *)
(* connection was not cut wrote an entry at both or at neither, except     *)
(* that a side's insert_or_update may have failed, which it reports to     *)
(* nobody (ipc.rs:989, handler.rs:581): an acceptance and a refusal that   *)
(* cross, a timeout on one side or a client that goes away leaves no       *)
(* device paired alone.                                                    *)
BothOrNeither ==
  \A s \in Sessions, x \in Sides :
    (\A y \in Sides : kind[y] = "daemon") /\ ini[s] = "done" /\ resp[s] = "done"
      /\ ~cut[s] /\ Written(s, x)
    => Written(s, Other(x)) \/ s \in failed[Other(x)]

(* Whether B heard of a session's request.                                 *)
Requested(s) == rx[s] # "none"

(* A watched daemon refuses a request that its user did not refuse only    *)
(* when it timed out or another session of the same peer was about: both   *)
(* use the key "pair-<peer id>".                                           *)
RefusedOnlyToRival ==
  \A s \in Sessions : rx[s] = "dropped" => \E t \in Sessions \ {s} : Requested(t)

(* The user's answer goes to the session whose code they compared, unless  *)
(* that one is over: replaced under the key of the same peer while they    *)
(* answered, timed out, or answered before.                                *)
AnswerMatchesPrompt ==
  \A s \in Sessions : rx[s] \in {"yes", "no"} =>
    meant[s] = s \/ (meant[s] \in Sessions /\ rx[meant[s]] \notin {"none", "open"})

(* A prompt is under the key only while its handler waits, or until the    *)
(* handler or the confirming client removes it.                            *)
NoStalePrompt ==
  offer # 0 /\ rx[offer] = "open" => resp[offer] = "consent"

(* Between daemons the command pair ends, and the handler that answers it  *)
(* comes back to its loop or ends, though each awaits the other's answer   *)
(* without a timer.  A host of the FFI library may never answer.           *)
PairingEnds ==
  \A s \in Sessions :
    /\ (kind["A"] = "daemon" /\ kind["B"] = "daemon" /\ ini[s] # "idle") ~> (ini[s] = "done")
    /\ (kind["A"] = "daemon" /\ resp[s] \in {"consent", "await"})
         ~> (resp[s] \notin {"consent", "await"})
=============================================================================
