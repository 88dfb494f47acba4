------------------------------- MODULE Consent -------------------------------
(***************************************************************************)
(* Asking the user (nxfr-daemon): connection handlers put offers into      *)
(* pending_offers and wait (handler.rs), IPC clients confirm them or watch *)
(* them (ipc.rs), and a background task expires them (main.rs).  All of    *)
(* them are tasks of their own; what is between two lock acquisitions is   *)
(* one action.                                                             *)
(*                                                                         *)
(* A handler makes one request.  The key of a transfer's offer is its      *)
(* transfer id; that of a pairing is "pair-" and the peer's id, so two     *)
(* pairings of one peer share it.                                          *)
(***************************************************************************)
EXTENDS Naturals, Sequences, FiniteSets

CONSTANTS
    Handlers,   \* connection handlers with a request each
    Pairings,   \* those whose request is a PAIR_REQUEST
    Key,        \* the key of each one's offer
    Watchers,   \* clients that run the watch command
    Confirms,   \* transfer_confirm commands
    QueueCap    \* capacity of a watcher's channel

ASSUME ConsentAssumption ==
    /\ Handlers # {} /\ Pairings \subseteq Handlers
    /\ DOMAIN Key = Handlers
    /\ QueueCap \in Nat \ {0}

VARIABLES
    pc,          \* where each handler is
    chan,        \* each handler's oneshot channel
    outcome,     \* what each handler decided
    offers,      \* pending_offers: key -> owner, and is respond_to there
    registered,  \* the watchers list
    client,      \* where each watch command is
    queue,       \* each watcher's mpsc channel
    seen,        \* the prompts written to each watcher
    confirm      \* the confirm commands

handlers == <<pc, outcome>>
watch == <<registered, client, queue, seen>>
vars == <<pc, chan, outcome, offers, registered, client, queue, seen, confirm>>

Keys == {Key[h] : h \in Handlers}

Unsent ==
    [pc |-> "new", owner |-> CHOOSE h \in Handlers : TRUE, accepted |-> FALSE]

Init ==
    /\ pc = [h \in Handlers |-> "idle"]
    /\ chan = [h \in Handlers |-> "none"]
    /\ outcome = [h \in Handlers |-> "none"]
    /\ offers = [k \in {} |-> <<>>]
    /\ registered = {}
    /\ client = [w \in Watchers |-> "off"]
    /\ queue = [w \in Watchers |-> <<>>]
    /\ seen = [w \in Watchers |-> {}]
    /\ confirm = [c \in Confirms |-> Unsent]

(* Definitions named X_Fault are seeded faults, as in DaemonTransfer.      *)

-----------------------------------------------------------------------------
(* Shared helpers.                                                         *)

(* Dropping offers drops the responders that are still in them.            *)
Dropped(ks) ==
    {offers[k].owner : k \in {j \in ks \cap DOMAIN offers : offers[j].open}}
DropResponders(ks) ==
    [h \in Handlers |-> IF h \in Dropped(ks) /\ chan[h] = "open" THEN "dropped"
                        ELSE chan[h]]
Without(ks) == [k \in DOMAIN offers \ ks |-> offers[k]]

RemoveOffer(k) == offers' = Without({k}) /\ chan' = DropResponders({k})

(* The lock of pending_offers is held across the writes of a replay.       *)
OffersFree == \A w \in Watchers : client[w] # "replaying"

(* What a watch command takes from its channel stays at the head of queue  *)
(* until it is written, and no longer counts against the capacity.         *)
Waiting(w) == IF client[w] = "writing" THEN Len(queue[w]) - 1 ELSE Len(queue[w])

(* broadcast_to_watchers: try_send to each, and prune those it fails for.  *)
Reached == {w \in registered : client[w] # "gone" /\ Waiting(w) < QueueCap}
Broadcast(event) ==
    /\ queue' = [w \in Watchers |->
                   IF w \in Reached THEN Append(queue[w], event) ELSE queue[w]]
    /\ registered' = Reached
    /\ UNCHANGED <<client, seen>>

Move(h, from, to) == pc[h] = from /\ pc' = [pc EXCEPT ![h] = to]
Decide(h, result) == outcome' = [outcome EXCEPT ![h] = result]

-----------------------------------------------------------------------------
(* A handler's request.                                                    *)

(* should_auto_accept, or a disk that is too full: nobody is asked.        *)
NotAsked(h) ==
    /\ h \notin Pairings
    /\ Move(h, "idle", "done")
    /\ \E result \in {"auto", "disk_full"} : Decide(h, result)
    /\ UNCHANGED <<chan, offers, watch, confirm>>

(* Without watchers a transfer is refused and a pairing accepted unasked.  *)
NobodyWatches(h) ==
    /\ registered = {}
    /\ Move(h, "idle", "done")
    /\ Decide(h, IF h \in Pairings THEN "unattended" ELSE "consent_required")
    /\ UNCHANGED <<chan, offers, watch, confirm>>

SomeoneWatches(h) ==
    /\ registered # {}
    /\ Move(h, "idle", "insert")
    /\ UNCHANGED <<chan, outcome, offers, watch, confirm>>

Insert(h) ==
    /\ Move(h, "insert", "announce") /\ OffersFree
    /\ offers' = [k \in DOMAIN offers \cup {Key[h]} |->
                    IF k = Key[h] THEN [owner |-> h, open |-> TRUE]
                    ELSE offers[k]]
    /\ chan' = [DropResponders({Key[h]}) EXCEPT ![h] = "open"]
    /\ UNCHANGED <<outcome, watch, confirm>>

Announce(h) ==
    /\ Move(h, "announce", "wait")
    /\ Broadcast(<<"offer", h>>)
    /\ UNCHANGED <<chan, outcome, offers, confirm>>

(* For a pairing, whatever is not an accept is a refusal.                  *)
Verdict_DropAccepts(answer) ==
    IF answer = "decline" THEN "user_declined" ELSE "accepted"
Verdict(answer) ==
    CASE answer = "accept"  -> "accepted"
      [] answer = "decline" -> "user_declined"
      [] answer = "dropped" -> "connection_lost"

Answered(h) ==
    /\ Move(h, "wait", "remove")
    /\ chan[h] \in {"accept", "decline", "dropped"}
    /\ Decide(h, Verdict(chan[h]))
    /\ chan' = [chan EXCEPT ![h] = "none"]
    /\ UNCHANGED <<offers, watch, confirm>>

(* The timer counts only while there is no answer.                         *)
TimedOut_Never(h) == FALSE /\ UNCHANGED vars
TimedOut(h) ==
    /\ Move(h, "wait", "remove")
    /\ chan[h] = "open"
    /\ Decide(h, "consent_timeout")
    /\ chan' = [chan EXCEPT ![h] = "none"]
    /\ UNCHANGED <<offers, watch, confirm>>

(* Whatever is under the key goes, also another handler's offer.           *)
Remove(h) ==
    /\ Move(h, "remove", "resolve") /\ OffersFree
    /\ RemoveOffer(Key[h])
    /\ UNCHANGED <<outcome, watch, confirm>>

(* TransferResolved for a transfer, PairFailed for a refused pairing.  An  *)
(* accepted pairing goes on to the exchange of PAIR_ACCEPT, not modelled   *)
(* here.                                                                   *)
Resolve(h) ==
    /\ Move(h, "resolve", "done")
    /\ IF h \in Pairings /\ outcome[h] = "accepted" THEN UNCHANGED watch
       ELSE Broadcast(<<"resolved", h>>)
    /\ UNCHANGED <<chan, outcome, offers, confirm>>

HandlerStep(h) ==
    \/ NotAsked(h) \/ NobodyWatches(h) \/ SomeoneWatches(h)
    \/ Insert(h) \/ Announce(h) \/ Answered(h) \/ TimedOut(h)
    \/ Remove(h) \/ Resolve(h)

-----------------------------------------------------------------------------
(* cmd_transfer_confirm: take the responder, use it, remove the offer.     *)

TakeResponder(c, k, accepted) ==
    /\ confirm[c].pc = "new" /\ OffersFree
    /\ k \in DOMAIN offers /\ offers[k].open
    /\ offers' = [offers EXCEPT ![k].open = FALSE]
    /\ confirm' = [confirm EXCEPT ![c] =
                     [pc |-> "send", owner |-> offers[k].owner,
                      accepted |-> accepted]]
    /\ UNCHANGED <<handlers, chan, watch>>

NothingToConfirm(c, k) ==
    /\ confirm[c].pc = "new" /\ OffersFree
    /\ ~(k \in DOMAIN offers /\ offers[k].open)
    /\ confirm' = [confirm EXCEPT ![c].pc = "refused"]
    /\ UNCHANGED <<handlers, chan, offers, watch>>

(* The result of send is ignored.                                          *)
SendAnswer(c) ==
    /\ confirm[c].pc = "send"
    /\ chan' = IF chan[confirm[c].owner] = "open"
               THEN [chan EXCEPT ![confirm[c].owner] =
                       IF confirm[c].accepted THEN "accept" ELSE "decline"]
               ELSE chan
    /\ confirm' = [confirm EXCEPT ![c].pc = "cleanup"]
    /\ UNCHANGED <<handlers, offers, watch>>

ConfirmDone(c) ==
    /\ confirm[c].pc = "cleanup" /\ OffersFree
    /\ RemoveOffer(Key[confirm[c].owner])
    /\ confirm' = [confirm EXCEPT ![c].pc = "ok"]
    /\ UNCHANGED <<handlers, watch>>

ConfirmStep(c) ==
    \/ \E k \in Keys, accepted \in BOOLEAN : TakeResponder(c, k, accepted)
    \/ \E k \in Keys : NothingToConfirm(c, k)
    \/ SendAnswer(c) \/ ConfirmDone(c)

(* The handler is declined even if a confirm holds its responder.          *)
Expire_OverTaken(ks) ==
    /\ ks # {} /\ ks \subseteq DOMAIN offers /\ OffersFree
    /\ offers' = Without(ks)
    /\ chan' = [h \in Handlers |->
                  IF chan[h] = "open" /\ \E k \in ks : offers[k].owner = h
                  THEN "decline" ELSE chan[h]]
    /\ UNCHANGED <<handlers, watch, confirm>>

(* The expiry task declines what is past its time, under one lock.         *)
Expire(ks) ==
    /\ ks # {} /\ ks \subseteq DOMAIN offers /\ OffersFree
    /\ offers' = Without(ks)
    /\ chan' = [h \in Handlers |-> IF h \in Dropped(ks) /\ chan[h] = "open"
                                   THEN "decline" ELSE chan[h]]
    /\ UNCHANGED <<handlers, watch, confirm>>

-----------------------------------------------------------------------------
(* cmd_watch: register, replay what is pending, then forward events.       *)

Register(w) ==
    /\ client[w] = "off"
    /\ client' = [client EXCEPT ![w] = "registered"]
    /\ registered' = registered \cup {w}
    /\ UNCHANGED <<handlers, chan, offers, queue, seen, confirm>>

Pending == {offers[k].owner : k \in {j \in DOMAIN offers : offers[j].open}}
Replayed_Nothing == {}
Replayed == Pending

(* The replay is written with pending_offers locked (none pending: nothing *)
(* to write), the answer to the command without.  write_event has no timer *)
(* and waits for a client that does not read.                              *)
Replay(w) ==
    /\ client[w] = "registered" /\ OffersFree
    /\ client' = [client EXCEPT ![w] =
                    IF Replayed = {} THEN "answering" ELSE "replaying"]
    /\ UNCHANGED <<handlers, chan, offers, registered, queue, seen, confirm>>

ReplayRead(w) ==
    /\ client[w] = "replaying"
    /\ client' = [client EXCEPT ![w] = "answering"]
    /\ seen' = [seen EXCEPT ![w] = @ \cup Replayed]
    /\ UNCHANGED <<handlers, chan, offers, registered, queue, confirm>>

(* The answer to watch, or to a command of a client that watches.          *)
AnswerRead(w) ==
    /\ client[w] = "answering"
    /\ client' = [client EXCEPT ![w] = "watching"]
    /\ UNCHANGED <<handlers, chan, offers, registered, queue, seen, confirm>>

(* A line on the watch connection: a confirm (one of Confirms), an unknown *)
(* command or no command at all; each is answered.                         *)
Command(w) ==
    /\ client[w] = "watching"
    /\ client' = [client EXCEPT ![w] = "answering"]
    /\ UNCHANGED <<handlers, chan, offers, registered, queue, seen, confirm>>

Forward(w) ==
    /\ client[w] = "watching" /\ queue[w] # <<>>
    /\ client' = [client EXCEPT ![w] = "writing"]
    /\ UNCHANGED <<handlers, chan, offers, registered, queue, seen, confirm>>

EventRead(w) ==
    /\ client[w] = "writing"
    /\ client' = [client EXCEPT ![w] = "watching"]
    /\ queue' = [queue EXCEPT ![w] = Tail(@)]
    /\ seen' = [seen EXCEPT ![w] = IF Head(queue[w])[1] = "offer"
                                   THEN @ \cup {Head(queue[w])[2]} ELSE @]
    /\ UNCHANGED <<handlers, chan, offers, registered, confirm>>

(* The channel of a pruned watcher is closed: once drained, the command    *)
(* ends and so does the client's connection.                               *)
ChannelClosed_Never(w) == FALSE
ChannelClosed(w) == w \notin registered /\ queue[w] = <<>>
WatchEnds(w) ==
    /\ client[w] = "watching" /\ ChannelClosed(w)
    /\ client' = [client EXCEPT ![w] = "gone"]
    /\ UNCHANGED <<handlers, chan, offers, registered, queue, seen, confirm>>

(* The client disconnects, which ends a write that waits for it too; its   *)
(* entry stays until the next broadcast.                                   *)
Leave(w) ==
    /\ client[w] \notin {"off", "gone"}
    /\ client' = [client EXCEPT ![w] = "gone"]
    /\ queue' = [queue EXCEPT ![w] = <<>>]
    /\ UNCHANGED <<handlers, chan, offers, registered, seen, confirm>>

WatchStep(w) == Replay(w) \/ Forward(w) \/ WatchEnds(w)
ClientStep(w) ==
    \/ Register(w) \/ ReplayRead(w) \/ AnswerRead(w) \/ Command(w)
    \/ EventRead(w) \/ Leave(w)

-----------------------------------------------------------------------------

Next ==
    \/ \E h \in Handlers : HandlerStep(h)
    \/ \E c \in Confirms : ConfirmStep(c)
    \/ \E ks \in SUBSET Keys : Expire(ks)
    \/ \E w \in Watchers : WatchStep(w) \/ ClientStep(w)

Spec == Init /\ [][Next]_vars

(* Every task that can go on does, and the timers of the handlers fire.    *)
(* Nobody has to confirm, watch, read or leave.  A watch command is        *)
(* strongly fair: select! polls its branches in random order, so a client  *)
(* that sends one line after another does not keep it from its channel.    *)
FairSpec ==
    /\ Spec
    /\ \A h \in Handlers : WF_vars(HandlerStep(h))
    /\ \A w \in Watchers : SF_vars(WatchStep(w))

-----------------------------------------------------------------------------
(* Properties.                                                             *)

Outcomes ==
    {"none", "auto", "unattended", "disk_full", "consent_required",
     "accepted", "user_declined", "connection_lost", "consent_timeout"}
Unasked == {"auto", "unattended", "disk_full", "consent_required"}

(* The type of the state that the handlers, confirms and watchers share.   *)
TypeOK ==
    /\ pc \in [Handlers -> {"idle", "insert", "announce", "wait", "remove",
                            "resolve", "done"}]
    /\ chan \in [Handlers -> {"none", "open", "accept", "decline", "dropped"}]
    /\ outcome \in [Handlers -> Outcomes]
    /\ DOMAIN offers \subseteq Keys
    /\ \A k \in DOMAIN offers :
         offers[k] \in [owner : Handlers, open : BOOLEAN]
    /\ registered \subseteq Watchers
    /\ client \in [Watchers -> {"off", "registered", "replaying", "answering",
                                "watching", "writing", "gone"}]
    /\ queue \in [Watchers -> Seq({"offer", "resolved"} \X Handlers)]
    /\ \A w \in Watchers : client[w] = "writing" => queue[w] # <<>>
    /\ seen \in [Watchers -> SUBSET Handlers]
    /\ confirm \in
         [Confirms -> [pc : {"new", "refused", "send", "cleanup", "ok"},
                       owner : Handlers, accepted : BOOLEAN]]

(* The confirm commands that got hold of a handler's responder.            *)
Winners(h) ==
    {c \in Confirms : confirm[c].pc \in {"send", "cleanup", "ok"}
                        /\ confirm[c].owner = h}

(* A request that was put to a user is accepted by a confirm that said so, *)
(* never by a timeout, an expiry, a replaced offer or a responder that was *)
(* dropped.  Nobody is asked about a transfer of a peer that is set to     *)
(* auto-accept, nor, against PROTOCOL.md:621-622 (the user confirms on     *)
(* both devices), about a pairing that comes while nobody watches.  Of the *)
(* two only a pairing may be accepted for want of a watcher, and no        *)
(* request is that once it has an offer that somebody could decline.       *)
ConsentGiven ==
    \A h \in Handlers :
        /\ outcome[h] = "accepted" => \E c \in Winners(h) : confirm[c].accepted
        /\ outcome[h] = "auto" => h \notin Pairings
        /\ outcome[h] = "unattended" => h \in Pairings
        /\ outcome[h] \in {"auto", "unattended"} => h \notin Pending

(* First confirm wins: however many clients confirm one offer, at most one *)
(* is told that it decided.                                                *)
OneWinner == \A h \in Handlers : Cardinality(Winners(h)) <= 1

(* Nothing is left in pending_offers of a request that has been decided.   *)
NoOfferLeft ==
    \A k \in DOMAIN offers : pc[offers[k].owner] \notin {"resolve", "done"}

(* A request ends as connection_lost only when another handler of the same *)
(* key put up an offer: timers, expiry, confirms and watchers that leave   *)
(* never drop a responder.                                                 *)
LostOnlyToRival ==
    \A h \in Handlers :
        outcome[h] = "connection_lost"
          => \E g \in Handlers \ {h} :
                /\ Key[g] = Key[h]
                /\ pc[g] \notin {"idle", "insert"}
                /\ outcome[g] \notin Unasked

(* A watcher knows of every offer that can be confirmed, whether it was    *)
(* registered before, during or after the announcement: it was told of it, *)
(* or the event is on its way to it.                                       *)
Subscribed(w) == client[w] \in {"answering", "watching", "writing"}
NoOfferMissed ==
    \A w \in registered, h \in Pending :
        (Subscribed(w) /\ pc[h] = "wait")
          => \/ h \in seen[w]
             \/ \E i \in DOMAIN queue[w] : queue[w][i] = <<"offer", h>>

(* A confirm that was told it decided is what the handler decided by,      *)
(* unless the handler's timer fired before the answer was sent (the result *)
(* of send is ignored).  Nothing else overrules it: no expiry, no rival    *)
(* offer under the same key, no second confirm.                            *)
WinnerDecides ==
    \A h \in Handlers, c \in Confirms :
        (c \in Winners(h) /\ confirm[c].pc = "ok" /\ pc[h] = "done")
          => outcome[h] \in {IF confirm[c].accepted THEN "accepted"
                             ELSE "user_declined", "consent_timeout"}

(* Every request is decided, also when all watchers have left or do not    *)
(* read their events: only a client that does not read its replay, for     *)
(* which pending_offers stays locked, can hold it up (ipc.rs:528-536).     *)
RequestEnds ==
    []<>OffersFree => \A h \in Handlers : pc[h] # "idle" ~> pc[h] = "done"

(* A watcher that was pruned because its channel was full is disconnected, *)
(* not left without events, as soon as the clients read again what is      *)
(* written to them; until then the watch command waits in write_event,     *)
(* which no timer ends (ipc.rs:558).                                       *)
Reading(w) == client[w] \notin {"replaying", "answering", "writing"}
PrunedWatcherEnds ==
    (\A w \in Watchers : []<>Reading(w))
      => \A w \in Watchers :
            (client[w] # "off" /\ w \notin registered) ~> client[w] = "gone"

=============================================================================
