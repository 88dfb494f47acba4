---------------------------- MODULE ConsentProofs ----------------------------
(***************************************************************************)
(* Proofs about Consent, for any number of handlers, keys, watchers and    *)
(* confirm commands and any capacity of the watchers' channels.            *)
(***************************************************************************)
EXTENDS Consent, FiniteSetTheorems, TLAPS

(* Zenon first: it is quick and takes most leaves; SMT is cited where a     *)
(* leaf needs arithmetic, sequences or extensionality.                      *)
USE ZenonT(30), SMTT(30)

-----------------------------------------------------------------------------
(* The inductive invariant.                                                *)

Verdicts == {"accepted", "user_declined", "connection_lost", "consent_timeout"}

(* A handler has a channel exactly while it announces and waits, and it    *)
(* has a verdict afterwards.                                               *)
HandlerState ==
    \A h \in Handlers :
        /\ pc[h] \in {"idle", "insert"} => chan[h] = "none" /\ outcome[h] = "none"
        /\ pc[h] \in {"announce", "wait"} => chan[h] # "none" /\ outcome[h] = "none"
        /\ pc[h] \in {"remove", "resolve"} => chan[h] = "none" /\ outcome[h] \in Verdicts
        /\ pc[h] = "done" => chan[h] = "none"
        /\ outcome[h] = "auto" => pc[h] = "done" /\ h \notin Pairings
        /\ outcome[h] = "unattended" => pc[h] = "done" /\ h \in Pairings

(* An offer is under the key of its owner, who has not removed it yet; a   *)
(* responder that is still in it is the one the owner waits for, unless    *)
(* the owner's timer has fired.                                            *)
OfferOK(k) ==
    LET h == offers[k].owner IN
    /\ Key[h] = k
    /\ pc[h] \in {"announce", "wait", "remove"}
    /\ offers[k].open =>
         \/ pc[h] \in {"announce", "wait"} /\ chan[h] = "open"
         \/ pc[h] = "remove" /\ outcome[h] = "consent_timeout"
OfferState == \A k \in DOMAIN offers : OfferOK(k)

Answer(c) == IF confirm[c].accepted THEN "accept" ELSE "decline"
Decision(c) == IF confirm[c].accepted THEN "accepted" ELSE "user_declined"

(* A confirm that took a responder took it for good, and what it answers   *)
(* is what the handler gets, unless the handler's timer fired first.       *)
ConfirmOK(h, c) ==
    /\ pc[h] \notin {"idle", "insert"}
    /\ \A k \in DOMAIN offers : offers[k].owner = h => ~offers[k].open
    /\ \/ /\ pc[h] \in {"announce", "wait"}
          /\ chan[h] = IF confirm[c].pc = "send" THEN "open" ELSE Answer(c)
       \/ /\ pc[h] \in {"remove", "resolve", "done"}
          /\ \/ outcome[h] = "consent_timeout"
             \/ confirm[c].pc # "send" /\ outcome[h] = Decision(c)
ConfirmState == \A h \in Handlers : \A c \in Winners(h) : ConfirmOK(h, c)

SoleWinner == \A h \in Handlers : \A c, d \in Winners(h) : c = d

(* An accept in a channel was sent by a confirm that said so.              *)
AcceptSent ==
    \A h \in Handlers : (chan[h] = "accept" \/ outcome[h] = "accepted")
                          => \E c \in Winners(h) : confirm[c].accepted

(* A handler whose request has been put to the user.                       *)
Asked(g) ==
    /\ pc[g] \notin {"idle", "insert"}
    /\ outcome[g] \notin Unasked
HasRival(h) == \E g \in Handlers \ {h} : Key[g] = Key[h] /\ Asked(g)
DroppedByRival ==
    \A h \in Handlers :
        (chan[h] = "dropped" \/ outcome[h] = "connection_lost") => HasRival(h)

IInv == /\ TypeOK /\ HandlerState /\ OfferState /\ ConfirmState /\ SoleWinner
        /\ AcceptSent /\ DroppedByRival

-----------------------------------------------------------------------------
(* What the helpers do.                                                    *)

LEMMA KeyOf == \A h \in Handlers : Key[h] \in Keys
  BY DEF Keys

LEMMA MoveType ==
    ASSUME TypeOK, NEW h \in Handlers, NEW from, NEW to, Move(h, from, to),
           to \in {"idle", "insert", "announce", "wait", "remove", "resolve", "done"}
    PROVE  /\ pc' \in [Handlers -> {"idle", "insert", "announce", "wait",
                                    "remove", "resolve", "done"}]
           /\ pc[h] = from /\ pc'[h] = to
           /\ \A g \in Handlers \ {h} : pc'[g] = pc[g]
  BY DEF Move, TypeOK

LEMMA DecideType ==
    ASSUME TypeOK, NEW h \in Handlers, NEW r \in Outcomes, Decide(h, r)
    PROVE  /\ outcome' \in [Handlers -> Outcomes]
           /\ outcome'[h] = r
           /\ \A g \in Handlers \ {h} : outcome'[g] = outcome[g]
  BY DEF Decide, TypeOK

(* Dropping offers changes only channels whose open responder was in one.  *)
LEMMA DropEffect ==
    ASSUME TypeOK, NEW ks, NEW h \in Handlers
    PROVE  \/ DropResponders(ks)[h] = chan[h]
           \/ /\ DropResponders(ks)[h] = "dropped" /\ chan[h] = "open"
              /\ \E k \in ks \cap DOMAIN offers : offers[k].open /\ offers[k].owner = h
  BY DEF DropResponders, Dropped

LEMMA DropType ==
    ASSUME TypeOK, NEW ks
    PROVE  DropResponders(ks) \in
             [Handlers -> {"none", "open", "accept", "decline", "dropped"}]
  BY DropEffect DEF DropResponders, TypeOK

LEMMA WithoutType ==
    ASSUME TypeOK, NEW ks
    PROVE  /\ DOMAIN Without(ks) = DOMAIN offers \ ks
           /\ \A k \in DOMAIN offers \ ks : Without(ks)[k] = offers[k]
           /\ DOMAIN Without(ks) \subseteq Keys
           /\ \A k \in DOMAIN Without(ks) :
                Without(ks)[k] \in [owner : Handlers, open : BOOLEAN]
  BY DEF Without, TypeOK

(* What is left of the offers is as it was.                                *)
LEMMA WithoutKeeps ==
    ASSUME TypeOK, NEW ks, offers' = Without(ks)
    PROVE  \A j \in DOMAIN offers' : j \in DOMAIN offers /\ offers'[j] = offers[j]
  <1>1. DOMAIN offers' = DOMAIN offers \ ks
    BY WithoutType
  <1>2. \A j \in DOMAIN offers \ ks : offers'[j] = offers[j]
    BY WithoutType
  <1> QED
    BY <1>1, <1>2

LEMMA NoneOpenKept ==
    ASSUME TypeOK, NEW ks, offers' = Without(ks), NEW g,
           \A j \in DOMAIN offers : offers[j].owner = g => ~offers[j].open
    PROVE  \A j \in DOMAIN offers' : offers'[j].owner = g => ~offers'[j].open
  BY WithoutKeeps

LEMMA PendingKept ==
    ASSUME TypeOK, NEW ks, offers' = Without(ks), NEW h \in Pending'
    PROVE  h \in Pending
  <1>1. PICK k \in DOMAIN offers' : offers'[k].open /\ offers'[k].owner = h
    BY DEF Pending
  <1>2. k \in DOMAIN offers /\ offers[k] = offers'[k]
    BY WithoutKeeps
  <1> QED
    BY <1>1, <1>2 DEF Pending

LEMMA BroadcastType ==
    ASSUME TypeOK, NEW h \in Handlers, NEW kind \in {"offer", "resolved"},
           Broadcast(<<kind, h>>)
    PROVE  /\ queue' \in [Watchers -> Seq({"offer", "resolved"} \X Handlers)]
           /\ registered' \subseteq registered
           /\ client' = client /\ seen' = seen
           /\ \A w \in registered' : queue'[w] = Append(queue[w], <<kind, h>>)
           /\ \A w \in Watchers : client'[w] = "writing" => queue'[w] # <<>>
  <1>1. /\ queue' \in [Watchers -> Seq({"offer", "resolved"} \X Handlers)]
        /\ registered' \subseteq registered
        /\ client' = client /\ seen' = seen
        /\ \A w \in registered' : queue'[w] = Append(queue[w], <<kind, h>>)
    BY SMTT(30) DEF Broadcast, Reached, TypeOK
  <1>2. ASSUME NEW w \in Watchers, client'[w] = "writing"
        PROVE  queue'[w] # <<>>
    <2>1. queue[w] # <<>> /\ (queue'[w] = queue[w] \/ queue'[w] = Append(queue[w], <<kind, h>>))
      BY <1>1, <1>2 DEF Broadcast, TypeOK
    <2>2. Append(queue[w], <<kind, h>>) # <<>>
      BY SMTT(30) DEF TypeOK
    <2> QED
      BY <2>1, <2>2
  <1> QED
    BY <1>1, <1>2

-----------------------------------------------------------------------------
(* Type correctness.                                                       *)

LEMMA TypeInit == Init => TypeOK
  BY ConsentAssumption, SMTT(30) DEF Init, Unsent, TypeOK, Outcomes

LEMMA TypeHandler ==
    ASSUME TypeOK, NEW h \in Handlers, HandlerStep(h)
    PROVE  TypeOK'
  <1> USE DEF watch, handlers
  <1>1. CASE NotAsked(h)
    BY <1>1, MoveType, DecideType, SMTT(30) DEF NotAsked, TypeOK, Outcomes
  <1>2. CASE NobodyWatches(h)
    BY <1>2, MoveType, DecideType DEF NobodyWatches, TypeOK, Outcomes
  <1>3. CASE SomeoneWatches(h)
    BY <1>3, MoveType DEF SomeoneWatches, TypeOK
  <1>4. CASE Insert(h)
    <2>1. chan' \in [Handlers -> {"none", "open", "accept", "decline", "dropped"}]
      BY <1>4, DropType DEF Insert
    <2>2. /\ DOMAIN offers' \subseteq Keys
          /\ \A k \in DOMAIN offers' : offers'[k] \in [owner : Handlers, open : BOOLEAN]
      BY <1>4, KeyOf DEF Insert, TypeOK
    <2> QED
      BY <1>4, <2>1, <2>2, MoveType DEF Insert, TypeOK
  <1>5. CASE Announce(h)
    BY <1>5, MoveType, BroadcastType DEF Announce, TypeOK
  <1>6. CASE Answered(h)
    <2>1. Verdict(chan[h]) \in Outcomes
      BY <1>6 DEF Answered, Verdict, Outcomes
    <2> QED
      BY <1>6, <2>1, MoveType, DecideType DEF Answered, TypeOK
  <1>7. CASE TimedOut(h)
    BY <1>7, MoveType, DecideType DEF TimedOut, TypeOK, Outcomes
  <1>8. CASE Remove(h)
    <2>1. offers' = Without({Key[h]}) /\ chan' = DropResponders({Key[h]})
      BY <1>8 DEF Remove, RemoveOffer
    <2>2. /\ DOMAIN offers' \subseteq Keys
          /\ \A k \in DOMAIN offers' : offers'[k] \in [owner : Handlers, open : BOOLEAN]
      BY <2>1, WithoutType
    <2>3. chan' \in [Handlers -> {"none", "open", "accept", "decline", "dropped"}]
      BY <2>1, DropType
    <2> QED
      BY <1>8, <2>2, <2>3, MoveType DEF Remove, TypeOK
  <1>9. CASE Resolve(h)
    BY <1>9, MoveType, BroadcastType DEF Resolve, TypeOK
  <1> QED
    BY <1>1, <1>2, <1>3, <1>4, <1>5, <1>6, <1>7, <1>8, <1>9 DEF HandlerStep

LEMMA TypeConfirm ==
    ASSUME TypeOK, NEW c \in Confirms, ConfirmStep(c)
    PROVE  TypeOK'
  <1> USE DEF watch, handlers
  <1>1. ASSUME NEW k \in Keys, NEW accepted \in BOOLEAN, TakeResponder(c, k, accepted)
        PROVE  TypeOK'
    <2>1. /\ DOMAIN offers' \subseteq Keys
          /\ \A j \in DOMAIN offers' : offers'[j] \in [owner : Handlers, open : BOOLEAN]
      BY <1>1 DEF TakeResponder, TypeOK
    <2> QED
      BY <1>1, <2>1 DEF TakeResponder, TypeOK
  <1>2. ASSUME NEW k \in Keys, NothingToConfirm(c, k)
        PROVE  TypeOK'
    BY <1>2 DEF NothingToConfirm, TypeOK
  <1>3. CASE SendAnswer(c)
    BY <1>3 DEF SendAnswer, TypeOK
  <1>4. CASE ConfirmDone(c)
    <2>1. offers' = Without({Key[confirm[c].owner]}) /\ chan' = DropResponders({Key[confirm[c].owner]})
      BY <1>4 DEF ConfirmDone, RemoveOffer
    <2>2. /\ DOMAIN offers' \subseteq Keys
          /\ \A k \in DOMAIN offers' : offers'[k] \in [owner : Handlers, open : BOOLEAN]
      BY <2>1, WithoutType
    <2>3. chan' \in [Handlers -> {"none", "open", "accept", "decline", "dropped"}]
      BY <2>1, DropType
    <2>4. confirm' \in [Confirms -> [pc : {"new", "refused", "send", "cleanup", "ok"},
                                     owner : Handlers, accepted : BOOLEAN]]
      BY <1>4 DEF ConfirmDone, TypeOK
    <2>5. UNCHANGED <<pc, outcome, registered, client, queue, seen>>
      BY <1>4 DEF ConfirmDone
    <2> QED
      BY <2>2, <2>3, <2>4, <2>5 DEF TypeOK
  <1> QED
    BY <1>1, <1>2, <1>3, <1>4 DEF ConfirmStep

LEMMA TypeWatch ==
    ASSUME TypeOK, NEW w \in Watchers, WatchStep(w) \/ ClientStep(w)
    PROVE  TypeOK'
  <1> USE DEF watch, handlers
  <1>1. CASE Register(w)
    BY <1>1 DEF Register, TypeOK
  <1>2. CASE Replay(w) \/ AnswerRead(w) \/ Command(w)
    BY <1>2 DEF Replay, AnswerRead, Command, TypeOK
  <1>3. CASE ReplayRead(w)
    <2>1. Pending \subseteq Handlers
      BY DEF Pending, TypeOK
    <2> QED
      BY <1>3, <2>1 DEF ReplayRead, Replayed, TypeOK
  <1>4. CASE Forward(w)
    BY <1>4 DEF Forward, TypeOK
  <1>5. CASE EventRead(w)
    <2>0. queue[w] # <<>>
      BY <1>5 DEF EventRead, TypeOK
    <2>1. /\ Head(queue[w]) \in {"offer", "resolved"} \X Handlers
          /\ Tail(queue[w]) \in Seq({"offer", "resolved"} \X Handlers)
      BY <2>0, SMTT(30) DEF TypeOK
    <2>2. Head(queue[w])[2] \in Handlers
      BY <2>1
    <2> QED
      BY <1>5, <2>1, <2>2 DEF EventRead, TypeOK
  <1>6. CASE WatchEnds(w)
    BY <1>6 DEF WatchEnds, TypeOK
  <1>7. CASE Leave(w)
    <2>1. queue' \in [Watchers -> Seq({"offer", "resolved"} \X Handlers)]
      BY <1>7, SMTT(30) DEF Leave, TypeOK
    <2> QED
      BY <1>7, <2>1 DEF Leave, TypeOK
  <1> QED
    BY <1>1, <1>2, <1>3, <1>4, <1>5, <1>6, <1>7 DEF WatchStep, ClientStep

LEMMA TypeNext == TypeOK /\ [Next]_vars => TypeOK'
  <1> SUFFICES ASSUME TypeOK, [Next]_vars PROVE TypeOK'
    OBVIOUS
  <1>1. ASSUME NEW ks \in SUBSET Keys, Expire(ks)
        PROVE  TypeOK'
    <2>1. /\ DOMAIN offers' \subseteq Keys
          /\ \A k \in DOMAIN offers' : offers'[k] \in [owner : Handlers, open : BOOLEAN]
      BY <1>1, WithoutType DEF Expire
    <2>2. chan' \in [Handlers -> {"none", "open", "accept", "decline", "dropped"}]
      BY <1>1 DEF Expire, TypeOK
    <2> QED
      BY <1>1, <2>1, <2>2 DEF Expire, watch, handlers, TypeOK
  <1>2. CASE UNCHANGED vars
    BY <1>2 DEF vars, TypeOK
  <1> QED
    BY <1>1, <1>2, TypeHandler, TypeConfirm, TypeWatch DEF Next

(* Every variable of the consent machinery keeps its type (TypeOK).        *)
THEOREM TypeCorrect == Spec => []TypeOK
  BY TypeInit, TypeNext, PTL DEF Spec

-----------------------------------------------------------------------------
(* The invariant is inductive.                                             *)

(* Steps of watchers, and stuttering, leave the rest alone.                *)
Quiet == UNCHANGED <<pc, outcome, chan, offers, confirm>>

LEMMA Cases ==
    ASSUME [Next]_vars
    PROVE  \/ \E h \in Handlers : HandlerStep(h)
           \/ \E c \in Confirms : ConfirmStep(c)
           \/ \E ks \in SUBSET Keys : Expire(ks)
           \/ Quiet
  <1> USE DEF handlers, Quiet
  <1>1. CASE UNCHANGED vars
    BY <1>1 DEF vars
  <1>2. ASSUME NEW w \in Watchers, WatchStep(w) \/ ClientStep(w)
        PROVE  Quiet
    BY <1>2 DEF WatchStep, ClientStep, Register, Replay, ReplayRead, AnswerRead,
                Command, Forward, EventRead, WatchEnds, Leave
  <1> QED
    BY <1>1, <1>2 DEF Next

LEMMA HandlerNext ==
    ASSUME TypeOK, TypeOK', HandlerState, OfferState, [Next]_vars
    PROVE  HandlerState'
  <1>1. ASSUME NEW h \in Handlers, NotAsked(h) PROVE HandlerState'
    BY <1>1, MoveType, DecideType, SMTT(30)
    DEF NotAsked, handlers, watch, TypeOK, Outcomes, HandlerState, Verdicts
  <1>2. ASSUME NEW h \in Handlers, NobodyWatches(h) PROVE HandlerState'
    BY <1>2, MoveType, DecideType, SMTT(30)
    DEF NobodyWatches, handlers, watch, TypeOK, Outcomes, HandlerState, Verdicts
  <1>3. ASSUME NEW h \in Handlers, SomeoneWatches(h) PROVE HandlerState'
    BY <1>3, MoveType, SMTT(30)
    DEF SomeoneWatches, handlers, watch, TypeOK, Outcomes, HandlerState, Verdicts
  <1>4. ASSUME NEW h \in Handlers, Insert(h) PROVE HandlerState'
    BY <1>4, MoveType, DropEffect, SMTT(30)
    DEF Insert, handlers, watch, TypeOK, Outcomes, HandlerState, Verdicts
  <1>5. ASSUME NEW h \in Handlers, Announce(h) PROVE HandlerState'
    BY <1>5, MoveType, SMTT(30)
    DEF Announce, handlers, watch, TypeOK, Outcomes, HandlerState, Verdicts
  <1>6. ASSUME NEW h \in Handlers, Answered(h) PROVE HandlerState'
    BY <1>6, MoveType, DecideType, SMTT(30)
    DEF Answered, Verdict, handlers, watch, TypeOK, Outcomes, HandlerState, Verdicts
  <1>7. ASSUME NEW h \in Handlers, TimedOut(h) PROVE HandlerState'
    BY <1>7, MoveType, DecideType, SMTT(30)
    DEF TimedOut, handlers, watch, TypeOK, Outcomes, HandlerState, Verdicts
  <1>8. ASSUME NEW h \in Handlers, Remove(h) PROVE HandlerState'
    BY <1>8, MoveType, DropEffect, WithoutType, SMTT(30)
    DEF Remove, RemoveOffer, handlers, watch, TypeOK, Outcomes, HandlerState, Verdicts
  <1>9. ASSUME NEW h \in Handlers, Resolve(h) PROVE HandlerState'
    BY <1>9, MoveType, SMTT(30)
    DEF Resolve, handlers, watch, TypeOK, Outcomes, HandlerState, Verdicts
  <1>10. ASSUME NEW c \in Confirms, NEW k \in Keys, NEW accepted \in BOOLEAN,
               TakeResponder(c, k, accepted)
        PROVE  HandlerState'
    BY <1>10
    DEF TakeResponder, handlers, watch, TypeOK, Outcomes, HandlerState, Verdicts
  <1>11. ASSUME NEW c \in Confirms, NEW k \in Keys, NothingToConfirm(c, k)
        PROVE  HandlerState'
    BY <1>11
    DEF NothingToConfirm, handlers, watch, TypeOK, Outcomes, HandlerState, Verdicts
  <1>12. ASSUME NEW c \in Confirms, SendAnswer(c) PROVE HandlerState'
    BY <1>12, SMTT(30)
    DEF SendAnswer, handlers, watch, TypeOK, Outcomes, HandlerState, Verdicts
  <1>13. ASSUME NEW c \in Confirms, ConfirmDone(c) PROVE HandlerState'
    BY <1>13, DropEffect, WithoutType, SMTT(30)
    DEF ConfirmDone, RemoveOffer, handlers, watch, TypeOK, Outcomes, HandlerState, Verdicts
  <1>14. ASSUME NEW ks \in SUBSET Keys, Expire(ks) PROVE HandlerState'
    BY <1>14, WithoutType
    DEF Expire, Dropped, handlers, watch, TypeOK, Outcomes, HandlerState, Verdicts
  <1>15. CASE Quiet
    BY <1>15
    DEF Quiet, handlers, watch, TypeOK, Outcomes, HandlerState, Verdicts
  <1> QED
    BY <1>1, <1>2, <1>3, <1>4, <1>5, <1>6, <1>7, <1>8,
       <1>9, <1>10, <1>11, <1>12, <1>13, <1>14, <1>15, Cases
    DEF HandlerStep, ConfirmStep

LEMMA OfferNext ==
    ASSUME TypeOK, TypeOK', HandlerState, OfferState, ConfirmState, [Next]_vars
    PROVE  OfferState'
  <1>1. ASSUME NEW h \in Handlers, NotAsked(h) PROVE OfferState'
    BY <1>1, MoveType, DecideType, SMTT(30)
    DEF NotAsked, handlers, watch, TypeOK, Outcomes, HandlerState, OfferState, OfferOK, Verdicts
  <1>2. ASSUME NEW h \in Handlers, NobodyWatches(h) PROVE OfferState'
    BY <1>2, MoveType, DecideType, SMTT(30)
    DEF NobodyWatches, handlers, watch, TypeOK, Outcomes, HandlerState, OfferState, OfferOK, Verdicts
  <1>3. ASSUME NEW h \in Handlers, SomeoneWatches(h) PROVE OfferState'
    BY <1>3, MoveType, SMTT(30)
    DEF SomeoneWatches, handlers, watch, TypeOK, Outcomes, HandlerState, OfferState, OfferOK, Verdicts
  <1>4. ASSUME NEW h \in Handlers, Insert(h) PROVE OfferState'
    BY <1>4, MoveType, DropEffect, SMTT(30)
    DEF Insert, handlers, watch, TypeOK, Outcomes, HandlerState, OfferState, OfferOK, Verdicts
  <1>5. ASSUME NEW h \in Handlers, Announce(h) PROVE OfferState'
    <2>1. /\ UNCHANGED <<chan, outcome, offers>> /\ pc[h] = "announce" /\ pc'[h] = "wait"
          /\ \A g \in Handlers \ {h} : pc'[g] = pc[g]
      BY <1>5, MoveType DEF Announce
    <2>2. \A k \in DOMAIN offers : offers[k].owner \in Handlers
      BY DEF TypeOK
    <2> QED
      BY <2>1, <2>2 DEF OfferState, OfferOK
  <1>6. ASSUME NEW h \in Handlers, Answered(h) PROVE OfferState'
    BY <1>6, MoveType, DecideType, SMTT(30)
    DEF Answered, Verdict, handlers, watch, TypeOK, Outcomes, HandlerState, OfferState, OfferOK, Verdicts
  <1>7. ASSUME NEW h \in Handlers, TimedOut(h) PROVE OfferState'
    BY <1>7, MoveType, DecideType, SMTT(30)
    DEF TimedOut, handlers, watch, TypeOK, Outcomes, HandlerState, OfferState, OfferOK, Verdicts
  <1>8. ASSUME NEW h \in Handlers, Remove(h) PROVE OfferState'
    <2> SUFFICES ASSUME NEW j \in DOMAIN offers' PROVE OfferOK(j)'
      BY DEF OfferState
    <2> DEFINE g == offers[j].owner
    <2>0. offers' = Without({Key[h]})
      BY <1>8 DEF Remove, RemoveOffer
    <2>1. /\ j \in DOMAIN offers /\ j \notin {Key[h]} /\ offers'[j] = offers[j]
      BY <2>0, WithoutType
    <2>2. g \in Handlers /\ Key[g] = j /\ OfferOK(j)
      BY <2>1 DEF TypeOK, OfferState, OfferOK
    <2>3. g # h /\ chan'[g] = chan[g]
      BY <1>8, <2>1, <2>2, DropEffect, MoveType, SMTT(30) DEF Remove, RemoveOffer, OfferState, OfferOK
    <2> QED
      BY <1>8, <2>1, <2>2, <2>3, MoveType, SMTT(30) DEF Remove, RemoveOffer, handlers, OfferOK
  <1>9. ASSUME NEW h \in Handlers, Resolve(h) PROVE OfferState'
    <2> SUFFICES ASSUME NEW j \in DOMAIN offers' PROVE OfferOK(j)'
      BY DEF OfferState
    <2>1. j \in DOMAIN offers /\ OfferOK(j) /\ offers[j].owner \in Handlers
      BY <1>9 DEF Resolve, TypeOK, OfferState
    <2> QED
      BY <1>9, <2>1, MoveType, SMTT(30) DEF Resolve, OfferOK
  <1>10. ASSUME NEW c \in Confirms, NEW k \in Keys, NEW accepted \in BOOLEAN,
               TakeResponder(c, k, accepted)
        PROVE  OfferState'
    BY <1>10, SMTT(30)
    DEF TakeResponder, handlers, watch, TypeOK, Outcomes, HandlerState, OfferState, OfferOK, Verdicts
  <1>11. ASSUME NEW c \in Confirms, NEW k \in Keys, NothingToConfirm(c, k)
        PROVE  OfferState'
    BY <1>11
    DEF NothingToConfirm, handlers, watch, TypeOK, Outcomes, HandlerState, OfferState, OfferOK, Verdicts
  <1>12. ASSUME NEW c \in Confirms, SendAnswer(c) PROVE OfferState'
    <2> SUFFICES ASSUME NEW j \in DOMAIN offers' PROVE OfferOK(j)'
      BY DEF OfferState
    <2> DEFINE g == offers[j].owner
    <2>1. j \in DOMAIN offers /\ OfferOK(j) /\ g \in Handlers
      BY <1>12 DEF SendAnswer, TypeOK, OfferState
    <2>2. offers[j].open => g # confirm[c].owner
      BY <1>12, <2>1 DEF SendAnswer, ConfirmState, ConfirmOK, Winners, TypeOK
    <2>3. offers[j].open => chan'[g] = chan[g]
      BY <1>12, <2>1, <2>2 DEF SendAnswer, TypeOK
    <2> QED
      BY <1>12, <2>1, <2>3 DEF SendAnswer, handlers, OfferOK
  <1>13. ASSUME NEW c \in Confirms, ConfirmDone(c) PROVE OfferState'
    <2> SUFFICES ASSUME NEW j \in DOMAIN offers' PROVE OfferOK(j)'
      BY DEF OfferState
    <2> DEFINE g == offers[j].owner
    <2>0. offers' = Without({Key[confirm[c].owner]})
      BY <1>13 DEF ConfirmDone, RemoveOffer
    <2>1. /\ j \in DOMAIN offers /\ j \notin {Key[confirm[c].owner]} /\ offers'[j] = offers[j]
      BY <2>0, WithoutType
    <2>2. g \in Handlers /\ Key[g] = j /\ OfferOK(j)
      BY <2>1 DEF TypeOK, OfferState, OfferOK
    <2>3. chan'[g] = chan[g]
      BY <1>13, <2>1, <2>2, DropEffect, SMTT(30) DEF ConfirmDone, RemoveOffer, OfferState, OfferOK
    <2> QED
      BY <1>13, <2>1, <2>2, <2>3 DEF ConfirmDone, RemoveOffer, handlers, OfferOK
  <1>14. ASSUME NEW ks \in SUBSET Keys, Expire(ks) PROVE OfferState'
    <2> SUFFICES ASSUME NEW j \in DOMAIN offers' PROVE OfferOK(j)'
      BY DEF OfferState
    <2> DEFINE g == offers[j].owner
    <2>0. offers' = Without(ks)
      BY <1>14 DEF Expire
    <2>1. /\ j \in DOMAIN offers /\ j \notin ks /\ offers'[j] = offers[j]
      BY <2>0, WithoutType
    <2>2. g \in Handlers /\ Key[g] = j /\ OfferOK(j)
      BY <2>1 DEF TypeOK, OfferState, OfferOK
    <2>3. chan'[g] = chan[g]
      BY <1>14, <2>1, <2>2, SMTT(30) DEF Expire, Dropped, OfferState, OfferOK
    <2> QED
      BY <1>14, <2>1, <2>2, <2>3 DEF Expire, handlers, OfferOK
  <1>15. CASE Quiet
    BY <1>15
    DEF Quiet, handlers, watch, TypeOK, Outcomes, HandlerState, OfferState, OfferOK, Verdicts
  <1> QED
    BY <1>1, <1>2, <1>3, <1>4, <1>5, <1>6, <1>7, <1>8,
       <1>9, <1>10, <1>11, <1>12, <1>13, <1>14, <1>15, Cases
    DEF HandlerStep, ConfirmStep

LEMMA ConfirmNext ==
    ASSUME TypeOK, TypeOK', HandlerState, OfferState, ConfirmState, SoleWinner, [Next]_vars
    PROVE  ConfirmState'
  <1>1. ASSUME NEW h \in Handlers, NotAsked(h) PROVE ConfirmState'
    <2> SUFFICES ASSUME NEW g \in Handlers, NEW d \in Winners(g)' PROVE ConfirmOK(g, d)'
      BY DEF ConfirmState
    <2>1. d \in Winners(g) /\ ConfirmOK(g, d) /\ confirm' = confirm
      BY <1>1 DEF NotAsked, Winners, ConfirmState
    <2>2. g # h /\ pc'[g] = pc[g]
      BY <1>1, <2>1, MoveType DEF NotAsked, ConfirmOK
    <2>3. outcome'[g] = outcome[g]
      BY <1>1, <2>2 DEF NotAsked, Decide, TypeOK
    <2> QED
      BY <1>1, <2>1, <2>2, <2>3 DEF NotAsked, ConfirmOK, Answer, Decision
  <1>2. ASSUME NEW h \in Handlers, NobodyWatches(h) PROVE ConfirmState'
    <2> SUFFICES ASSUME NEW g \in Handlers, NEW d \in Winners(g)' PROVE ConfirmOK(g, d)'
      BY DEF ConfirmState
    <2>1. d \in Winners(g) /\ ConfirmOK(g, d) /\ confirm' = confirm
      BY <1>2 DEF NobodyWatches, Winners, ConfirmState
    <2>2. g # h /\ pc'[g] = pc[g]
      BY <1>2, <2>1, MoveType DEF NobodyWatches, ConfirmOK
    <2>3. outcome'[g] = outcome[g]
      BY <1>2, <2>2 DEF NobodyWatches, Decide, TypeOK
    <2> QED
      BY <1>2, <2>1, <2>2, <2>3 DEF NobodyWatches, ConfirmOK, Answer, Decision
  <1>3. ASSUME NEW h \in Handlers, SomeoneWatches(h) PROVE ConfirmState'
    <2> SUFFICES ASSUME NEW g \in Handlers, NEW d \in Winners(g)' PROVE ConfirmOK(g, d)'
      BY DEF ConfirmState
    <2>1. d \in Winners(g) /\ ConfirmOK(g, d) /\ confirm' = confirm
      BY <1>3 DEF SomeoneWatches, Winners, ConfirmState
    <2> QED
      BY <1>3, <2>1, MoveType, SMTT(30) DEF SomeoneWatches, handlers, TypeOK, ConfirmOK, Answer, Decision
  <1>4. ASSUME NEW h \in Handlers, Insert(h) PROVE ConfirmState'
    <2> SUFFICES ASSUME NEW g \in Handlers, NEW d \in Winners(g)' PROVE ConfirmOK(g, d)'
      BY DEF ConfirmState
    <2>1. d \in Winners(g) /\ ConfirmOK(g, d) /\ confirm' = confirm
      BY <1>4 DEF Insert, Winners, ConfirmState
    <2>2. g # h /\ pc'[g] = pc[g]
      BY <1>4, <2>1, MoveType DEF Insert, ConfirmOK
    <2>3. chan'[g] = chan[g]
      BY <1>4, <2>1, <2>2, DropEffect, DropType, SMTT(30) DEF Insert, ConfirmOK
    <2>4. \A j \in DOMAIN offers' : offers'[j].owner = g => ~offers'[j].open
      BY <1>4, <2>1, <2>2 DEF Insert, ConfirmOK
    <2> QED
      BY <1>4, <2>1, <2>2, <2>3, <2>4 DEF Insert, ConfirmOK, Answer, Decision
  <1>5. ASSUME NEW h \in Handlers, Announce(h) PROVE ConfirmState'
    <2> SUFFICES ASSUME NEW g \in Handlers, NEW d \in Winners(g)' PROVE ConfirmOK(g, d)'
      BY DEF ConfirmState
    <2>1. d \in Winners(g) /\ ConfirmOK(g, d) /\ confirm' = confirm
      BY <1>5 DEF Announce, Winners, ConfirmState
    <2> QED
      BY <1>5, <2>1, MoveType, SMTT(30) DEF Announce, handlers, TypeOK, ConfirmOK, Answer, Decision
  <1>6. ASSUME NEW h \in Handlers, Answered(h) PROVE ConfirmState'
    <2> SUFFICES ASSUME NEW g \in Handlers, NEW d \in Winners(g)' PROVE ConfirmOK(g, d)'
      BY DEF ConfirmState
    <2>1. d \in Winners(g) /\ ConfirmOK(g, d) /\ confirm' = confirm
      BY <1>6 DEF Answered, Winners, ConfirmState
    <2> QED
      BY <1>6, <2>1, MoveType, DecideType, SMTT(30) DEF Answered, handlers, TypeOK, ConfirmOK, Answer, Decision, Verdict, Outcomes
  <1>7. ASSUME NEW h \in Handlers, TimedOut(h) PROVE ConfirmState'
    <2> SUFFICES ASSUME NEW g \in Handlers, NEW d \in Winners(g)' PROVE ConfirmOK(g, d)'
      BY DEF ConfirmState
    <2>1. d \in Winners(g) /\ ConfirmOK(g, d) /\ confirm' = confirm
      BY <1>7 DEF TimedOut, Winners, ConfirmState
    <2> QED
      BY <1>7, <2>1, MoveType, DecideType, SMTT(30) DEF TimedOut, handlers, TypeOK, ConfirmOK, Answer, Decision, Outcomes
  <1>8. ASSUME NEW h \in Handlers, Remove(h) PROVE ConfirmState'
    <2> SUFFICES ASSUME NEW g \in Handlers, NEW d \in Winners(g)' PROVE ConfirmOK(g, d)'
      BY DEF ConfirmState
    <2>0. offers' = Without({Key[h]})
      BY <1>8 DEF Remove, RemoveOffer
    <2>1. d \in Winners(g) /\ ConfirmOK(g, d)
      BY <1>8 DEF Remove, RemoveOffer, Winners, ConfirmState
    <2>2. \A j \in DOMAIN offers' : offers'[j].owner = g => ~offers'[j].open
      <3>1. \A j \in DOMAIN offers : offers[j].owner = g => ~offers[j].open
        BY <2>1 DEF ConfirmOK
      <3> QED
        BY <2>0, <3>1, NoneOpenKept
    <2>3. chan'[g] = chan[g]
      BY <1>8, <2>1, DropEffect, SMTT(30) DEF Remove, RemoveOffer, ConfirmOK
    <2>4. IF g = h THEN pc[g] = "remove" /\ pc'[g] = "resolve" ELSE pc'[g] = pc[g]
      BY <1>8, MoveType DEF Remove
    <2> QED
      BY <1>8, <2>1, <2>2, <2>3, <2>4 DEF Remove, ConfirmOK, Answer, Decision
  <1>9. ASSUME NEW h \in Handlers, Resolve(h) PROVE ConfirmState'
    <2> SUFFICES ASSUME NEW g \in Handlers, NEW d \in Winners(g)' PROVE ConfirmOK(g, d)'
      BY DEF ConfirmState
    <2>1. d \in Winners(g) /\ ConfirmOK(g, d) /\ confirm' = confirm
      BY <1>9 DEF Resolve, Winners, ConfirmState
    <2> QED
      BY <1>9, <2>1, MoveType, SMTT(30) DEF Resolve, handlers, TypeOK, ConfirmOK, Answer, Decision
  <1>10. ASSUME NEW c \in Confirms, NEW k \in Keys, NEW accepted \in BOOLEAN,
               TakeResponder(c, k, accepted)
        PROVE  ConfirmState'
    <2> SUFFICES ASSUME NEW g \in Handlers, NEW d \in Winners(g)' PROVE ConfirmOK(g, d)'
      BY DEF ConfirmState
    <2>1. \A j \in DOMAIN offers' :
            /\ j \in DOMAIN offers /\ offers'[j].owner = offers[j].owner
            /\ offers'[j].open => offers[j].open /\ j # k
      BY <1>10, SMTT(30) DEF TakeResponder, TypeOK
    <2>2. CASE d = c
      <3>1. g = offers[k].owner /\ confirm'[c].pc = "send" /\ OfferOK(k)
        BY <1>10, <2>2 DEF TakeResponder, Winners, TypeOK, OfferState
      <3>2. k \in DOMAIN offers /\ offers[k].open /\ UNCHANGED <<pc, outcome, chan>>
        BY <1>10 DEF TakeResponder, handlers
      <3>3. \A j \in DOMAIN offers : offers[j].owner = g => j = k
        BY <3>1, <3>2 DEF OfferState, OfferOK
      <3>4. \A j \in DOMAIN offers' : offers'[j].owner = g => ~offers'[j].open
        BY <2>1, <3>3
      <3>5. \/ pc[g] \in {"announce", "wait"} /\ chan[g] = "open"
            \/ pc[g] = "remove" /\ outcome[g] = "consent_timeout"
        BY <3>1, <3>2 DEF OfferOK
      <3> QED
        BY <2>2, <3>1, <3>2, <3>4, <3>5 DEF ConfirmOK
    <2>3. CASE d # c
      <3>1. d \in Winners(g) /\ confirm'[d] = confirm[d] /\ ConfirmOK(g, d)
        BY <1>10, <2>3, SMTT(30) DEF TakeResponder, Winners, TypeOK, ConfirmState
      <3> QED
        BY <1>10, <2>1, <3>1 DEF TakeResponder, handlers, ConfirmOK, Answer, Decision
    <2> QED
      BY <2>2, <2>3
  <1>11. ASSUME NEW c \in Confirms, NEW k \in Keys, NothingToConfirm(c, k)
        PROVE  ConfirmState'
    <2> SUFFICES ASSUME NEW g \in Handlers, NEW d \in Winners(g)' PROVE ConfirmOK(g, d)'
      BY DEF ConfirmState
    <2>1. d \in Winners(g) /\ confirm'[d] = confirm[d] /\ ConfirmOK(g, d)
      BY <1>11, SMTT(30) DEF NothingToConfirm, Winners, TypeOK, ConfirmState
    <2> QED
      BY <1>11, <2>1 DEF NothingToConfirm, handlers, ConfirmOK, Answer, Decision
  <1>12. ASSUME NEW c \in Confirms, SendAnswer(c) PROVE ConfirmState'
    <2> SUFFICES ASSUME NEW g \in Handlers, NEW d \in Winners(g)' PROVE ConfirmOK(g, d)'
      BY DEF ConfirmState
    <2>1. d \in Winners(g) /\ ConfirmOK(g, d)
      BY <1>12, SMTT(30) DEF SendAnswer, Winners, TypeOK, ConfirmState
    <2>2. CASE d = c
      <3>1. /\ g = confirm[c].owner
            /\ confirm[c].pc = "send" /\ confirm'[c].pc = "cleanup"
            /\ confirm'[c].accepted = confirm[c].accepted
        BY <1>12, <2>1, <2>2, SMTT(30) DEF SendAnswer, Winners, TypeOK
      <3>2. chan'[g] = IF chan[g] = "open" THEN Answer(c) ELSE chan[g]
        BY <1>12, <3>1 DEF SendAnswer, TypeOK, Answer
      <3> QED
        BY <1>12, <2>1, <2>2, <3>1, <3>2 DEF SendAnswer, handlers, ConfirmOK, Answer, Decision
    <2>3. CASE d # c
      <3>1. confirm[c].owner # g
        BY <1>12, <2>1, <2>3, SMTT(30) DEF SendAnswer, SoleWinner, Winners, TypeOK
      <3>2. chan'[g] = chan[g] /\ confirm'[d] = confirm[d]
        BY <1>12, <2>1, <2>3, <3>1, SMTT(30) DEF SendAnswer, TypeOK
      <3> QED
        BY <1>12, <2>1, <3>2 DEF SendAnswer, handlers, ConfirmOK, Answer, Decision
    <2> QED
      BY <2>2, <2>3
  <1>13. ASSUME NEW c \in Confirms, ConfirmDone(c) PROVE ConfirmState'
    <2> SUFFICES ASSUME NEW g \in Handlers, NEW d \in Winners(g)' PROVE ConfirmOK(g, d)'
      BY DEF ConfirmState
    <2>0. /\ offers' = Without({Key[confirm[c].owner]})
          /\ chan' = DropResponders({Key[confirm[c].owner]})
      BY <1>13 DEF ConfirmDone, RemoveOffer
    <2>1. d \in Winners(g) /\ ConfirmOK(g, d)
      BY <1>13, SMTT(30) DEF ConfirmDone, Winners, TypeOK, ConfirmState
    <2>2. \A j \in DOMAIN offers' : offers'[j].owner = g => ~offers'[j].open
      <3>1. \A j \in DOMAIN offers : offers[j].owner = g => ~offers[j].open
        BY <2>1 DEF ConfirmOK
      <3> QED
        BY <2>0, <3>1, NoneOpenKept
    <2>3. chan'[g] = chan[g]
      BY <2>0, <2>1, DropEffect, SMTT(30) DEF ConfirmOK
    <2>4. /\ (confirm'[d].pc = "send") <=> (confirm[d].pc = "send")
          /\ confirm'[d].accepted = confirm[d].accepted
      BY <1>13, <2>1, SMTT(30) DEF ConfirmDone, TypeOK, Winners
    <2> QED
      BY <1>13, <2>1, <2>2, <2>3, <2>4 DEF ConfirmDone, handlers, ConfirmOK, Answer, Decision
  <1>14. ASSUME NEW ks \in SUBSET Keys, Expire(ks) PROVE ConfirmState'
    <2> SUFFICES ASSUME NEW g \in Handlers, NEW d \in Winners(g)' PROVE ConfirmOK(g, d)'
      BY DEF ConfirmState
    <2>0. offers' = Without(ks)
      BY <1>14 DEF Expire
    <2>1. d \in Winners(g) /\ ConfirmOK(g, d)
      BY <1>14 DEF Expire, Winners, ConfirmState
    <2>2. \A j \in DOMAIN offers' : offers'[j].owner = g => ~offers'[j].open
      <3>1. \A j \in DOMAIN offers : offers[j].owner = g => ~offers[j].open
        BY <2>1 DEF ConfirmOK
      <3> QED
        BY <2>0, <3>1, NoneOpenKept
    <2>3. chan'[g] = chan[g]
      BY <1>14, <2>1 DEF Expire, Dropped, ConfirmOK
    <2> QED
      BY <1>14, <2>1, <2>2, <2>3 DEF Expire, handlers, TypeOK, ConfirmOK, Answer, Decision
  <1>15. CASE Quiet
    <2> SUFFICES ASSUME NEW g \in Handlers, NEW d \in Winners(g)' PROVE ConfirmOK(g, d)'
      BY DEF ConfirmState
    <2>1. d \in Winners(g) /\ ConfirmOK(g, d) /\ confirm' = confirm
      BY <1>15 DEF Quiet, Winners, ConfirmState
    <2> QED
      BY <1>15, <2>1 DEF Quiet, handlers, TypeOK, ConfirmOK, Answer, Decision
  <1> QED
    BY <1>1, <1>2, <1>3, <1>4, <1>5, <1>6, <1>7, <1>8,
       <1>9, <1>10, <1>11, <1>12, <1>13, <1>14, <1>15, Cases
    DEF HandlerStep, ConfirmStep

LEMMA SoleNext ==
    ASSUME TypeOK, TypeOK', ConfirmState, SoleWinner, [Next]_vars
    PROVE  SoleWinner'
  <1>1. ASSUME NEW h \in Handlers, NotAsked(h) PROVE SoleWinner'
    BY <1>1
    DEF NotAsked, SoleWinner, Winners
  <1>2. ASSUME NEW h \in Handlers, NobodyWatches(h) PROVE SoleWinner'
    BY <1>2
    DEF NobodyWatches, SoleWinner, Winners
  <1>3. ASSUME NEW h \in Handlers, SomeoneWatches(h) PROVE SoleWinner'
    BY <1>3
    DEF SomeoneWatches, SoleWinner, Winners
  <1>4. ASSUME NEW h \in Handlers, Insert(h) PROVE SoleWinner'
    BY <1>4
    DEF Insert, SoleWinner, Winners
  <1>5. ASSUME NEW h \in Handlers, Announce(h) PROVE SoleWinner'
    BY <1>5
    DEF Announce, SoleWinner, Winners
  <1>6. ASSUME NEW h \in Handlers, Answered(h) PROVE SoleWinner'
    BY <1>6, SMTT(30)
    DEF Answered, SoleWinner, Winners
  <1>7. ASSUME NEW h \in Handlers, TimedOut(h) PROVE SoleWinner'
    BY <1>7
    DEF TimedOut, SoleWinner, Winners
  <1>8. ASSUME NEW h \in Handlers, Remove(h) PROVE SoleWinner'
    BY <1>8
    DEF Remove, SoleWinner, Winners
  <1>9. ASSUME NEW h \in Handlers, Resolve(h) PROVE SoleWinner'
    BY <1>9
    DEF Resolve, SoleWinner, Winners
  <1>10. ASSUME NEW c \in Confirms, NEW k \in Keys, NEW accepted \in BOOLEAN,
               TakeResponder(c, k, accepted)
        PROVE  SoleWinner'
    <2> SUFFICES ASSUME NEW g \in Handlers, NEW d \in Winners(g)', NEW e \in Winners(g)',
                        d # e
                 PROVE  FALSE
      BY DEF SoleWinner
    <2>1. \A b \in Confirms \ {c} : confirm'[b] = confirm[b]
      BY <1>10, SMTT(30) DEF TakeResponder, TypeOK
    <2>2. /\ confirm'[c].owner = offers[k].owner
          /\ k \in DOMAIN offers /\ offers[k].open
      BY <1>10 DEF TakeResponder, TypeOK
    <2>3. d # c => d \in Winners(g)
      BY <2>1 DEF Winners
    <2>4. e # c => e \in Winners(g)
      BY <2>1 DEF Winners
    <2>5. d = c \/ e = c
      BY <2>3, <2>4 DEF SoleWinner
    <2>6. g = offers[k].owner
      BY <2>2, <2>5 DEF Winners
    <2>7. \A b \in Winners(g) : ~offers[k].open
      BY <2>2, <2>6 DEF ConfirmState, ConfirmOK
    <2> QED
      BY <2>2, <2>3, <2>4, <2>5, <2>7
  <1>11. ASSUME NEW c \in Confirms, NEW k \in Keys, NothingToConfirm(c, k)
        PROVE  SoleWinner'
    BY <1>11, SMTT(30)
    DEF NothingToConfirm, SoleWinner, Winners, TypeOK
  <1>12. ASSUME NEW c \in Confirms, SendAnswer(c) PROVE SoleWinner'
    BY <1>12, SMTT(30)
    DEF SendAnswer, SoleWinner, Winners, TypeOK
  <1>13. ASSUME NEW c \in Confirms, ConfirmDone(c) PROVE SoleWinner'
    BY <1>13, SMTT(30)
    DEF ConfirmDone, SoleWinner, Winners, TypeOK
  <1>14. ASSUME NEW ks \in SUBSET Keys, Expire(ks) PROVE SoleWinner'
    BY <1>14
    DEF Expire, SoleWinner, Winners
  <1>15. CASE Quiet
    BY <1>15
    DEF Quiet, SoleWinner, Winners
  <1> QED
    BY <1>1, <1>2, <1>3, <1>4, <1>5, <1>6, <1>7, <1>8,
       <1>9, <1>10, <1>11, <1>12, <1>13, <1>14, <1>15, Cases
    DEF HandlerStep, ConfirmStep

LEMMA AcceptNext ==
    ASSUME TypeOK, TypeOK', AcceptSent, [Next]_vars
    PROVE  AcceptSent'
  <1>1. ASSUME NEW h \in Handlers, NotAsked(h) PROVE AcceptSent'
    <2> SUFFICES ASSUME NEW g \in Handlers, chan'[g] = "accept" \/ outcome'[g] = "accepted"
                 PROVE  \E d \in Winners(g)' : confirm'[d].accepted
      BY DEF AcceptSent
    <2>1. (chan[g] = "accept" \/ outcome[g] = "accepted") /\ confirm' = confirm
      BY <1>1 DEF NotAsked, Decide, handlers, TypeOK
    <2> QED
      BY <2>1 DEF AcceptSent, Winners
  <1>2. ASSUME NEW h \in Handlers, NobodyWatches(h) PROVE AcceptSent'
    <2> SUFFICES ASSUME NEW g \in Handlers, chan'[g] = "accept" \/ outcome'[g] = "accepted"
                 PROVE  \E d \in Winners(g)' : confirm'[d].accepted
      BY DEF AcceptSent
    <2>1. (chan[g] = "accept" \/ outcome[g] = "accepted") /\ confirm' = confirm
      BY <1>2 DEF NobodyWatches, Decide, handlers, TypeOK
    <2> QED
      BY <2>1 DEF AcceptSent, Winners
  <1>3. ASSUME NEW h \in Handlers, SomeoneWatches(h) PROVE AcceptSent'
    <2> SUFFICES ASSUME NEW g \in Handlers, chan'[g] = "accept" \/ outcome'[g] = "accepted"
                 PROVE  \E d \in Winners(g)' : confirm'[d].accepted
      BY DEF AcceptSent
    <2>1. (chan[g] = "accept" \/ outcome[g] = "accepted") /\ confirm' = confirm
      BY <1>3 DEF SomeoneWatches, handlers, TypeOK
    <2> QED
      BY <2>1 DEF AcceptSent, Winners
  <1>4. ASSUME NEW h \in Handlers, Insert(h) PROVE AcceptSent'
    <2> SUFFICES ASSUME NEW g \in Handlers, chan'[g] = "accept" \/ outcome'[g] = "accepted"
                 PROVE  \E d \in Winners(g)' : confirm'[d].accepted
      BY DEF AcceptSent
    <2>1. (chan[g] = "accept" \/ outcome[g] = "accepted") /\ confirm' = confirm
      BY <1>4, DropEffect, DropType, SMTT(30) DEF Insert, handlers, TypeOK
    <2> QED
      BY <2>1 DEF AcceptSent, Winners
  <1>5. ASSUME NEW h \in Handlers, Announce(h) PROVE AcceptSent'
    <2> SUFFICES ASSUME NEW g \in Handlers, chan'[g] = "accept" \/ outcome'[g] = "accepted"
                 PROVE  \E d \in Winners(g)' : confirm'[d].accepted
      BY DEF AcceptSent
    <2>1. (chan[g] = "accept" \/ outcome[g] = "accepted") /\ confirm' = confirm
      BY <1>5 DEF Announce, handlers, TypeOK
    <2> QED
      BY <2>1 DEF AcceptSent, Winners
  <1>6. ASSUME NEW h \in Handlers, Answered(h) PROVE AcceptSent'
    <2> SUFFICES ASSUME NEW g \in Handlers, chan'[g] = "accept" \/ outcome'[g] = "accepted"
                 PROVE  \E d \in Winners(g)' : confirm'[d].accepted
      BY DEF AcceptSent
    <2>1. (chan[g] = "accept" \/ outcome[g] = "accepted") /\ confirm' = confirm
      BY <1>6 DEF Answered, Decide, Verdict, handlers, TypeOK
    <2> QED
      BY <2>1 DEF AcceptSent, Winners
  <1>7. ASSUME NEW h \in Handlers, TimedOut(h) PROVE AcceptSent'
    <2> SUFFICES ASSUME NEW g \in Handlers, chan'[g] = "accept" \/ outcome'[g] = "accepted"
                 PROVE  \E d \in Winners(g)' : confirm'[d].accepted
      BY DEF AcceptSent
    <2>1. (chan[g] = "accept" \/ outcome[g] = "accepted") /\ confirm' = confirm
      BY <1>7 DEF TimedOut, Decide, handlers, TypeOK
    <2> QED
      BY <2>1 DEF AcceptSent, Winners
  <1>8. ASSUME NEW h \in Handlers, Remove(h) PROVE AcceptSent'
    <2> SUFFICES ASSUME NEW g \in Handlers, chan'[g] = "accept" \/ outcome'[g] = "accepted"
                 PROVE  \E d \in Winners(g)' : confirm'[d].accepted
      BY DEF AcceptSent
    <2>1. (chan[g] = "accept" \/ outcome[g] = "accepted") /\ confirm' = confirm
      BY <1>8, DropEffect DEF Remove, RemoveOffer, handlers, TypeOK
    <2> QED
      BY <2>1 DEF AcceptSent, Winners
  <1>9. ASSUME NEW h \in Handlers, Resolve(h) PROVE AcceptSent'
    <2> SUFFICES ASSUME NEW g \in Handlers, chan'[g] = "accept" \/ outcome'[g] = "accepted"
                 PROVE  \E d \in Winners(g)' : confirm'[d].accepted
      BY DEF AcceptSent
    <2>1. (chan[g] = "accept" \/ outcome[g] = "accepted") /\ confirm' = confirm
      BY <1>9 DEF Resolve, handlers, TypeOK
    <2> QED
      BY <2>1 DEF AcceptSent, Winners
  <1>10. ASSUME NEW c \in Confirms, NEW k \in Keys, NEW accepted \in BOOLEAN,
               TakeResponder(c, k, accepted)
        PROVE  AcceptSent'
    <2> SUFFICES ASSUME NEW g \in Handlers, chan'[g] = "accept" \/ outcome'[g] = "accepted"
                 PROVE  \E d \in Winners(g)' : confirm'[d].accepted
      BY DEF AcceptSent
    <2>1. chan[g] = "accept" \/ outcome[g] = "accepted"
      BY <1>10 DEF TakeResponder, handlers
    <2>2. PICK d \in Winners(g) : confirm[d].accepted
      BY <2>1 DEF AcceptSent
    <2>3. confirm'[d] = confirm[d]
      BY <1>10 DEF TakeResponder, TypeOK, Winners
    <2> QED
      BY <2>2, <2>3 DEF Winners
  <1>11. ASSUME NEW c \in Confirms, NEW k \in Keys, NothingToConfirm(c, k)
        PROVE  AcceptSent'
    <2> SUFFICES ASSUME NEW g \in Handlers, chan'[g] = "accept" \/ outcome'[g] = "accepted"
                 PROVE  \E d \in Winners(g)' : confirm'[d].accepted
      BY DEF AcceptSent
    <2>1. chan[g] = "accept" \/ outcome[g] = "accepted"
      BY <1>11 DEF NothingToConfirm, handlers
    <2>2. PICK d \in Winners(g) : confirm[d].accepted
      BY <2>1 DEF AcceptSent
    <2>3. confirm'[d] = confirm[d]
      BY <1>11 DEF NothingToConfirm, TypeOK, Winners
    <2> QED
      BY <2>2, <2>3 DEF Winners
  <1>12. ASSUME NEW c \in Confirms, SendAnswer(c) PROVE AcceptSent'
    <2> SUFFICES ASSUME NEW g \in Handlers, chan'[g] = "accept" \/ outcome'[g] = "accepted"
                 PROVE  \E d \in Winners(g)' : confirm'[d].accepted
      BY DEF AcceptSent
    <2>1. \A d \in Winners(g) :
            d \in Winners(g)' /\ confirm'[d].accepted = confirm[d].accepted
      BY <1>12, SMTT(30) DEF SendAnswer, TypeOK, Winners
    <2>2. CASE chan[g] = "accept" \/ outcome[g] = "accepted"
      BY <2>1, <2>2 DEF AcceptSent
    <2>3. CASE ~(chan[g] = "accept" \/ outcome[g] = "accepted")
      <3>1. g = confirm[c].owner /\ confirm[c].accepted
        BY <1>12, <2>3 DEF SendAnswer, handlers, TypeOK
      <3>2. c \in Winners(g)
        BY <1>12, <3>1 DEF SendAnswer, Winners
      <3> QED
        BY <2>1, <3>1, <3>2
    <2> QED
      BY <2>2, <2>3
  <1>13. ASSUME NEW c \in Confirms, ConfirmDone(c) PROVE AcceptSent'
    <2> SUFFICES ASSUME NEW g \in Handlers, chan'[g] = "accept" \/ outcome'[g] = "accepted"
                 PROVE  \E d \in Winners(g)' : confirm'[d].accepted
      BY DEF AcceptSent
    <2>1. \A d \in Winners(g) :
            d \in Winners(g)' /\ confirm'[d].accepted = confirm[d].accepted
      BY <1>13, SMTT(30) DEF ConfirmDone, TypeOK, Winners
    <2>2. chan[g] = "accept" \/ outcome[g] = "accepted"
      BY <1>13, DropEffect DEF ConfirmDone, RemoveOffer, handlers
    <2> QED
      BY <2>1, <2>2 DEF AcceptSent
  <1>14. ASSUME NEW ks \in SUBSET Keys, Expire(ks) PROVE AcceptSent'
    <2> SUFFICES ASSUME NEW g \in Handlers, chan'[g] = "accept" \/ outcome'[g] = "accepted"
                 PROVE  \E d \in Winners(g)' : confirm'[d].accepted
      BY DEF AcceptSent
    <2>1. (chan[g] = "accept" \/ outcome[g] = "accepted") /\ confirm' = confirm
      BY <1>14 DEF Expire, handlers, TypeOK
    <2> QED
      BY <2>1 DEF AcceptSent, Winners
  <1>15. CASE Quiet
    <2> SUFFICES ASSUME NEW g \in Handlers, chan'[g] = "accept" \/ outcome'[g] = "accepted"
                 PROVE  \E d \in Winners(g)' : confirm'[d].accepted
      BY DEF AcceptSent
    <2>1. (chan[g] = "accept" \/ outcome[g] = "accepted") /\ confirm' = confirm
      BY <1>15 DEF Quiet, handlers, TypeOK
    <2> QED
      BY <2>1 DEF AcceptSent, Winners
  <1> QED
    BY <1>1, <1>2, <1>3, <1>4, <1>5, <1>6, <1>7, <1>8,
       <1>9, <1>10, <1>11, <1>12, <1>13, <1>14, <1>15, Cases
    DEF HandlerStep, ConfirmStep

(* Once put to the user, a request stays so.                               *)
LEMMA AskedStays ==
    ASSUME TypeOK, HandlerState, [Next]_vars, NEW g \in Handlers, Asked(g)
    PROVE  Asked(g)'
  <1> USE DEF Asked, handlers
  <1>1. ASSUME NEW h \in Handlers, HandlerStep(h) PROVE Asked(g)'
    <2>1. CASE NotAsked(h) \/ NobodyWatches(h)
      BY <2>1 DEF NotAsked, NobodyWatches, Move, Decide, TypeOK
    <2>2. CASE SomeoneWatches(h) \/ Insert(h) \/ Announce(h) \/ Remove(h) \/ Resolve(h)
      BY <2>2 DEF SomeoneWatches, Insert, Announce, Remove, Resolve, Move, TypeOK
    <2>3. CASE Answered(h) \/ TimedOut(h)
      BY <2>3, SMTT(30) DEF Answered, TimedOut, Move, Decide, Verdict, TypeOK, Unasked
    <2> QED
      BY <1>1, <2>1, <2>2, <2>3 DEF HandlerStep
  <1>2. ASSUME NEW c \in Confirms, ConfirmStep(c) PROVE Asked(g)'
    BY <1>2 DEF ConfirmStep, TakeResponder, NothingToConfirm, SendAnswer, ConfirmDone
  <1>3. ASSUME NEW ks \in SUBSET Keys, Expire(ks) PROVE Asked(g)'
    BY <1>3 DEF Expire
  <1>4. CASE Quiet
    BY <1>4 DEF Quiet
  <1> QED
    BY <1>1, <1>2, <1>3, <1>4, Cases

LEMMA RivalNext ==
    ASSUME TypeOK, TypeOK', HandlerState, OfferState, ConfirmState, DroppedByRival, [Next]_vars
    PROVE  DroppedByRival'
  <1>1. ASSUME NEW h \in Handlers, NotAsked(h) PROVE DroppedByRival'
    <2> SUFFICES ASSUME NEW g \in Handlers,
                        chan'[g] = "dropped" \/ outcome'[g] = "connection_lost"
                 PROVE  HasRival(g)'
      BY DEF DroppedByRival
    <2>1. chan[g] = "dropped" \/ outcome[g] = "connection_lost"
      BY <1>1 DEF NotAsked, Decide, handlers, TypeOK
    <2> QED
      BY <1>1, <2>1, AskedStays DEF DroppedByRival, HasRival
  <1>2. ASSUME NEW h \in Handlers, NobodyWatches(h) PROVE DroppedByRival'
    <2> SUFFICES ASSUME NEW g \in Handlers,
                        chan'[g] = "dropped" \/ outcome'[g] = "connection_lost"
                 PROVE  HasRival(g)'
      BY DEF DroppedByRival
    <2>1. chan[g] = "dropped" \/ outcome[g] = "connection_lost"
      BY <1>2 DEF NobodyWatches, Decide, handlers, TypeOK
    <2> QED
      BY <1>2, <2>1, AskedStays DEF DroppedByRival, HasRival
  <1>3. ASSUME NEW h \in Handlers, SomeoneWatches(h) PROVE DroppedByRival'
    <2> SUFFICES ASSUME NEW g \in Handlers,
                        chan'[g] = "dropped" \/ outcome'[g] = "connection_lost"
                 PROVE  HasRival(g)'
      BY DEF DroppedByRival
    <2>1. chan[g] = "dropped" \/ outcome[g] = "connection_lost"
      BY <1>3 DEF SomeoneWatches, handlers, TypeOK
    <2> QED
      BY <1>3, <2>1, AskedStays DEF DroppedByRival, HasRival
  <1>4. ASSUME NEW h \in Handlers, Insert(h) PROVE DroppedByRival'
    <2> SUFFICES ASSUME NEW g \in Handlers,
                        chan'[g] = "dropped" \/ outcome'[g] = "connection_lost"
                 PROVE  HasRival(g)'
      BY DEF DroppedByRival
    <2>1. CASE chan[g] = "dropped" \/ outcome[g] = "connection_lost"
      BY <2>1, AskedStays DEF DroppedByRival, HasRival
    <2>2. CASE ~(chan[g] = "dropped" \/ outcome[g] = "connection_lost")
      <3>1. g # h /\ chan[g] = "open"
        BY <1>4, <2>2, DropEffect, DropType DEF Insert
      <3>2. PICK k \in {Key[h]} \cap DOMAIN offers : offers[k].open /\ offers[k].owner = g
        BY <1>4, <2>2, <3>1, DropEffect, DropType DEF Insert
      <3>3. Key[g] = Key[h]
        BY <3>2 DEF OfferState, OfferOK
      <3>4. Asked(h)'
        BY <1>4, MoveType, SMTT(30) DEF Insert, Asked, HandlerState, Unasked
      <3> QED
        BY <3>1, <3>3, <3>4 DEF HasRival
    <2> QED
      BY <2>1, <2>2
  <1>5. ASSUME NEW h \in Handlers, Announce(h) PROVE DroppedByRival'
    <2> SUFFICES ASSUME NEW g \in Handlers,
                        chan'[g] = "dropped" \/ outcome'[g] = "connection_lost"
                 PROVE  HasRival(g)'
      BY DEF DroppedByRival
    <2>1. chan[g] = "dropped" \/ outcome[g] = "connection_lost"
      BY <1>5 DEF Announce, handlers, TypeOK
    <2> QED
      BY <1>5, <2>1, AskedStays DEF DroppedByRival, HasRival
  <1>6. ASSUME NEW h \in Handlers, Answered(h) PROVE DroppedByRival'
    <2> SUFFICES ASSUME NEW g \in Handlers,
                        chan'[g] = "dropped" \/ outcome'[g] = "connection_lost"
                 PROVE  HasRival(g)'
      BY DEF DroppedByRival
    <2>1. chan[g] = "dropped" \/ outcome[g] = "connection_lost"
      BY <1>6 DEF Answered, Decide, Verdict, handlers, TypeOK
    <2> QED
      BY <1>6, <2>1, AskedStays DEF DroppedByRival, HasRival
  <1>7. ASSUME NEW h \in Handlers, TimedOut(h) PROVE DroppedByRival'
    <2> SUFFICES ASSUME NEW g \in Handlers,
                        chan'[g] = "dropped" \/ outcome'[g] = "connection_lost"
                 PROVE  HasRival(g)'
      BY DEF DroppedByRival
    <2>1. chan[g] = "dropped" \/ outcome[g] = "connection_lost"
      BY <1>7 DEF TimedOut, Decide, handlers, TypeOK
    <2> QED
      BY <1>7, <2>1, AskedStays DEF DroppedByRival, HasRival
  <1>8. ASSUME NEW h \in Handlers, Remove(h) PROVE DroppedByRival'
    <2> SUFFICES ASSUME NEW g \in Handlers,
                        chan'[g] = "dropped" \/ outcome'[g] = "connection_lost"
                 PROVE  HasRival(g)'
      BY DEF DroppedByRival
    <2>1. CASE chan[g] = "dropped" \/ outcome[g] = "connection_lost"
      BY <2>1, AskedStays DEF DroppedByRival, HasRival
    <2>2. CASE ~(chan[g] = "dropped" \/ outcome[g] = "connection_lost")
      <3>1. PICK k \in {Key[h]} \cap DOMAIN offers : offers[k].open /\ offers[k].owner = g
        BY <1>8, <2>2, DropEffect DEF Remove, RemoveOffer
      <3>2. g # h
        BY <1>8, <2>2, MoveType, DropEffect, SMTT(30) DEF Remove, RemoveOffer, HandlerState
      <3>3. Key[g] = Key[h]
        BY <3>1 DEF OfferState, OfferOK
      <3>4. Asked(h)'
        BY <1>8, MoveType, SMTT(30) DEF Remove, Asked, HandlerState, Verdicts, Unasked
      <3> QED
        BY <3>2, <3>3, <3>4 DEF HasRival
    <2> QED
      BY <2>1, <2>2
  <1>9. ASSUME NEW h \in Handlers, Resolve(h) PROVE DroppedByRival'
    <2> SUFFICES ASSUME NEW g \in Handlers,
                        chan'[g] = "dropped" \/ outcome'[g] = "connection_lost"
                 PROVE  HasRival(g)'
      BY DEF DroppedByRival
    <2>1. chan[g] = "dropped" \/ outcome[g] = "connection_lost"
      BY <1>9 DEF Resolve, handlers, TypeOK
    <2> QED
      BY <1>9, <2>1, AskedStays DEF DroppedByRival, HasRival
  <1>10. ASSUME NEW c \in Confirms, NEW k \in Keys, NEW accepted \in BOOLEAN,
               TakeResponder(c, k, accepted)
        PROVE  DroppedByRival'
    <2> SUFFICES ASSUME NEW g \in Handlers,
                        chan'[g] = "dropped" \/ outcome'[g] = "connection_lost"
                 PROVE  HasRival(g)'
      BY DEF DroppedByRival
    <2>1. chan[g] = "dropped" \/ outcome[g] = "connection_lost"
      BY <1>10 DEF TakeResponder, handlers, TypeOK
    <2> QED
      BY <1>10, <2>1, AskedStays DEF DroppedByRival, HasRival
  <1>11. ASSUME NEW c \in Confirms, NEW k \in Keys, NothingToConfirm(c, k)
        PROVE  DroppedByRival'
    <2> SUFFICES ASSUME NEW g \in Handlers,
                        chan'[g] = "dropped" \/ outcome'[g] = "connection_lost"
                 PROVE  HasRival(g)'
      BY DEF DroppedByRival
    <2>1. chan[g] = "dropped" \/ outcome[g] = "connection_lost"
      BY <1>11 DEF NothingToConfirm, handlers, TypeOK
    <2> QED
      BY <1>11, <2>1, AskedStays DEF DroppedByRival, HasRival
  <1>12. ASSUME NEW c \in Confirms, SendAnswer(c) PROVE DroppedByRival'
    <2> SUFFICES ASSUME NEW g \in Handlers,
                        chan'[g] = "dropped" \/ outcome'[g] = "connection_lost"
                 PROVE  HasRival(g)'
      BY DEF DroppedByRival
    <2>1. chan[g] = "dropped" \/ outcome[g] = "connection_lost"
      BY <1>12 DEF SendAnswer, handlers, TypeOK
    <2> QED
      BY <1>12, <2>1, AskedStays DEF DroppedByRival, HasRival
  <1>13. ASSUME NEW c \in Confirms, ConfirmDone(c) PROVE DroppedByRival'
    <2> SUFFICES ASSUME NEW g \in Handlers,
                        chan'[g] = "dropped" \/ outcome'[g] = "connection_lost"
                 PROVE  HasRival(g)'
      BY DEF DroppedByRival
    <2>1. CASE chan[g] = "dropped" \/ outcome[g] = "connection_lost"
      BY <2>1, AskedStays DEF DroppedByRival, HasRival
    <2>2. CASE ~(chan[g] = "dropped" \/ outcome[g] = "connection_lost")
      <3> DEFINE h == confirm[c].owner
      <3>0. h \in Handlers /\ c \in Winners(h) /\ ConfirmOK(h, c)
        BY <1>13, SMTT(30) DEF ConfirmDone, TypeOK, Winners, ConfirmState
      <3>1. PICK k \in {Key[h]} \cap DOMAIN offers : offers[k].open /\ offers[k].owner = g
        BY <1>13, <2>2, DropEffect DEF ConfirmDone, RemoveOffer, handlers
      <3>2. g # h
        BY <3>0, <3>1 DEF ConfirmOK
      <3>3. Key[g] = Key[h]
        BY <3>1 DEF OfferState, OfferOK
      <3>4. Asked(h)
        BY <3>0 DEF ConfirmOK, Asked, HandlerState, Decision, Unasked
      <3> QED
        BY <3>0, <3>2, <3>3, <3>4, AskedStays DEF HasRival
    <2> QED
      BY <2>1, <2>2
  <1>14. ASSUME NEW ks \in SUBSET Keys, Expire(ks) PROVE DroppedByRival'
    <2> SUFFICES ASSUME NEW g \in Handlers,
                        chan'[g] = "dropped" \/ outcome'[g] = "connection_lost"
                 PROVE  HasRival(g)'
      BY DEF DroppedByRival
    <2>1. chan[g] = "dropped" \/ outcome[g] = "connection_lost"
      BY <1>14 DEF Expire, handlers, TypeOK
    <2> QED
      BY <1>14, <2>1, AskedStays DEF DroppedByRival, HasRival
  <1>15. CASE Quiet
    <2> SUFFICES ASSUME NEW g \in Handlers,
                        chan'[g] = "dropped" \/ outcome'[g] = "connection_lost"
                 PROVE  HasRival(g)'
      BY DEF DroppedByRival
    <2>1. chan[g] = "dropped" \/ outcome[g] = "connection_lost"
      BY <1>15 DEF Quiet, handlers, TypeOK
    <2> QED
      BY <1>15, <2>1, AskedStays DEF DroppedByRival, HasRival
  <1> QED
    BY <1>1, <1>2, <1>3, <1>4, <1>5, <1>6, <1>7, <1>8,
       <1>9, <1>10, <1>11, <1>12, <1>13, <1>14, <1>15, Cases
    DEF HandlerStep, ConfirmStep

LEMMA IInvInit == Init => IInv
  <1> SUFFICES ASSUME Init PROVE IInv
    OBVIOUS
  <1>1. \A h \in Handlers : Winners(h) = {}
    BY DEF Init, Winners, Unsent
  <1>2. HandlerState /\ OfferState /\ DroppedByRival
    BY DEF Init, HandlerState, OfferState, DroppedByRival
  <1>3. ConfirmState /\ SoleWinner
    BY <1>1 DEF ConfirmState, SoleWinner
  <1>4. AcceptSent
    BY DEF Init, AcceptSent
  <1> QED
    BY <1>2, <1>3, <1>4, TypeInit DEF IInv

LEMMA IInvNext == IInv /\ [Next]_vars => IInv'
  BY TypeNext, HandlerNext, OfferNext, ConfirmNext, SoleNext, AcceptNext, RivalNext
  DEF IInv

LEMMA IInvCorrect == Spec => []IInv
  BY IInvInit, IInvNext, PTL DEF Spec

-----------------------------------------------------------------------------
(* The properties.                                                         *)

(* A request that is put to a user is accepted only by a confirm that said *)
(* so; of those that are not, a transfer is accepted only by the peer's    *)
(* auto-accept policy, a pairing only for want of a watcher                *)
(* (ConsentGiven).                                                         *)
THEOREM OnlyAConfirmAccepts == Spec => []ConsentGiven
  <1>1. IInv => ConsentGiven
    <2> SUFFICES ASSUME IInv, NEW h \in Handlers,
                        outcome[h] \in {"auto", "unattended"}
                 PROVE  h \notin Pending
      BY DEF IInv, AcceptSent, HandlerState, ConsentGiven
    <2>1. pc[h] = "done"
      BY DEF IInv, HandlerState
    <2> QED
      BY <2>1 DEF IInv, OfferState, OfferOK, Pending
  <1> QED
    BY <1>1, IInvCorrect, PTL

(* At most one confirm is told that it decided a request (OneWinner).      *)
THEOREM FirstConfirmOnly == Spec => []OneWinner
  <1>1. IInv => OneWinner
    <2> SUFFICES ASSUME IInv, NEW h \in Handlers
                 PROVE  Cardinality(Winners(h)) <= 1
      BY DEF OneWinner
    <2>1. CASE Winners(h) = {}
      BY <2>1, FS_EmptySet, SMTT(30)
    <2>2. CASE Winners(h) # {}
      <3>1. PICK c : Winners(h) = {c}
        BY <2>2, SMTT(30) DEF IInv, SoleWinner
      <3> QED
        BY <3>1, FS_Singleton, SMTT(30)
    <2> QED
      BY <2>1, <2>2
  <1> QED
    BY <1>1, IInvCorrect, PTL

(* No offer outlives the decision of its request (NoOfferLeft).            *)
THEOREM OffersAreRemoved == Spec => []NoOfferLeft
  <1>1. IInv => NoOfferLeft
    BY DEF IInv, OfferState, OfferOK, NoOfferLeft
  <1> QED
    BY <1>1, IInvCorrect, PTL

(* Only a rival offer under the same key makes a request lose its          *)
(* responder (LostOnlyToRival).                                            *)
THEOREM OnlyARivalDrops == Spec => []LostOnlyToRival
  <1>1. IInv => LostOnlyToRival
    BY DEF IInv, DroppedByRival, HasRival, Asked, LostOnlyToRival
  <1> QED
    BY <1>1, IInvCorrect, PTL

(* Only the handler's timer overrules a confirm that was told it decided   *)
(* (WinnerDecides).                                                        *)
THEOREM OnlyTheTimerOverrules == Spec => []WinnerDecides
  <1>1. IInv => WinnerDecides
    BY DEF IInv, ConfirmState, ConfirmOK, Decision, WinnerDecides
  <1> QED
    BY <1>1, IInvCorrect, PTL

-----------------------------------------------------------------------------
(* What watchers know of.  NoOfferMissed is inductive with TypeOK: what is *)
(* pending at the replay is seen then, what is announced later is queued.  *)

Knows(w, h) ==
    h \in seen[w] \/ \E i \in DOMAIN queue[w] : queue[w][i] = <<"offer", h>>

LEMMA AppendKeeps ==
    ASSUME NEW S, NEW q \in Seq(S), NEW e \in S, NEW x
    PROVE  /\ (\E i \in DOMAIN q : q[i] = x) => \E i \in DOMAIN Append(q, e) : Append(q, e)[i] = x
           /\ \E i \in DOMAIN Append(q, e) : Append(q, e)[i] = e
  <1>1. /\ DOMAIN Append(q, e) = 1..(Len(q) + 1) /\ DOMAIN q = 1..Len(q)
        /\ Len(q) \in Nat
        /\ \A i \in 1..Len(q) : Append(q, e)[i] = q[i]
        /\ Append(q, e)[Len(q) + 1] = e
    BY SMTT(30)
  <1> QED
    BY <1>1, SMTT(30)

LEMMA TailKeeps ==
    ASSUME NEW S, NEW q \in Seq(S), q # <<>>, NEW x, NEW i \in DOMAIN q, q[i] = x
    PROVE  x = Head(q) \/ \E j \in DOMAIN Tail(q) : Tail(q)[j] = x
  <1>1. /\ Len(q) \in Nat /\ i \in 1..Len(q) /\ Len(Tail(q)) = Len(q) - 1
        /\ Head(q) = q[1] /\ DOMAIN Tail(q) = 1..(Len(q) - 1)
        /\ \A j \in 1..(Len(q) - 1) : Tail(q)[j] = q[j + 1]
    BY SMTT(30)
  <1>2. CASE i = 1
    BY <1>1, <1>2
  <1>3. CASE i # 1
    <2>1. i - 1 \in 1..(Len(q) - 1) /\ (i - 1) + 1 = i
      BY <1>1, <1>3, SMTT(30)
    <2> QED
      BY <1>1, <2>1
  <1> QED
    BY <1>2, <1>3

LEMMA NoOfferMissedNext ==
    ASSUME TypeOK, TypeOK', NoOfferMissed, [Next]_vars
    PROVE  NoOfferMissed'
  <1> SUFFICES ASSUME NEW w \in registered', NEW h \in Pending',
                      Subscribed(w)', pc'[h] = "wait"
               PROVE  Knows(w, h)'
    BY DEF NoOfferMissed, Knows
  <1>0. w \in Watchers /\ h \in Handlers
    BY SMTT(30) DEF TypeOK, Pending
  <1>a. ASSUME w \in registered, h \in Pending, Subscribed(w), pc[h] = "wait"
        PROVE  Knows(w, h)
    BY <1>a DEF NoOfferMissed, Knows
  <1> USE DEF handlers, watch, Subscribed
  <1> DEFINE Events == {"offer", "resolved"} \X Handlers
  <1>b. queue[w] \in Seq(Events)
    BY <1>0 DEF TypeOK
  <1>1. ASSUME NEW g \in Handlers, HandlerStep(g) PROVE Knows(w, h)'
    <2>1. CASE NotAsked(g) \/ NobodyWatches(g) \/ SomeoneWatches(g) \/ Answered(g) \/ TimedOut(g)
      <3>1. pc[h] = "wait"
        BY <1>0, <2>1, SMTT(30)
        DEF NotAsked, NobodyWatches, SomeoneWatches, Answered, TimedOut, Move, TypeOK
      <3>2. offers' = offers /\ UNCHANGED watch
        BY <2>1 DEF NotAsked, NobodyWatches, SomeoneWatches, Answered, TimedOut
      <3> QED
        BY <1>a, <3>1, <3>2 DEF Pending, Knows
    <2>2. CASE Insert(g)
      <3>1. h # g /\ pc[h] = "wait"
        BY <1>0, <2>2, MoveType DEF Insert
      <3>2. h \in Pending
        BY <2>2, <3>1 DEF Insert, Pending
      <3> QED
        BY <1>a, <2>2, <3>1, <3>2 DEF Insert, Knows
    <2>3. CASE Announce(g)
      <3>1. /\ w \in registered /\ client' = client /\ seen' = seen
            /\ queue'[w] = Append(queue[w], <<"offer", g>>)
        BY <2>3, BroadcastType DEF Announce
      <3> HIDE DEF Events
      <3>a. <<"offer", g>> \in Events
        BY DEF Events
      <3>2. CASE h = g
        BY <1>b, <3>a, <3>1, <3>2, AppendKeeps, SMTT(30) DEF Knows
      <3>3. CASE h # g
        <4>1. h \in Pending /\ pc[h] = "wait"
          BY <1>0, <2>3, <3>3, MoveType DEF Announce, Pending
        <4> QED
          BY <1>b, <3>a, <1>a, <3>1, <4>1, AppendKeeps, SMTT(30) DEF Knows
      <3> QED
        BY <3>2, <3>3
    <2>4. CASE Remove(g)
      <3>1. offers' = Without({Key[g]})
        BY <2>4 DEF Remove, RemoveOffer
      <3>2. h \in Pending
        BY <3>1, PendingKept
      <3>3. pc[h] = "wait"
        BY <1>0, <2>4, MoveType DEF Remove
      <3> QED
        BY <1>a, <2>4, <3>2, <3>3 DEF Remove, Knows
    <2>5. CASE Resolve(g)
      <3>1. h \in Pending /\ pc[h] = "wait"
        BY <1>0, <2>5, MoveType, SMTT(30) DEF Resolve, Pending
      <3>2. CASE UNCHANGED watch
        BY <1>a, <3>1, <3>2 DEF Knows
      <3>3. CASE Broadcast(<<"resolved", g>>)
        <4>1. /\ w \in registered /\ client' = client /\ seen' = seen
              /\ queue'[w] = Append(queue[w], <<"resolved", g>>)
          BY <3>3, BroadcastType
        <4> HIDE DEF Events
        <4>2. <<"resolved", g>> \in Events
          BY DEF Events
        <4> QED
          BY <1>b, <1>a, <3>1, <4>1, <4>2, AppendKeeps, SMTT(30) DEF Knows
      <3> QED
        BY <2>5, <3>2, <3>3 DEF Resolve
    <2> QED
      BY <1>1, <2>1, <2>2, <2>3, <2>4, <2>5 DEF HandlerStep
  <1>2. ASSUME NEW c \in Confirms, ConfirmStep(c) PROVE Knows(w, h)'
    <2>1. /\ UNCHANGED <<pc, registered, client, seen, queue>>
          /\ h \in Pending
      <3>1. ASSUME NEW k \in Keys, NEW accepted \in BOOLEAN, TakeResponder(c, k, accepted)
            PROVE  h \in Pending
        BY <3>1, SMTT(30) DEF TakeResponder, Pending, TypeOK
      <3>2. ASSUME SendAnswer(c) \/ \E k \in Keys : NothingToConfirm(c, k)
            PROVE  h \in Pending
        BY <3>2 DEF NothingToConfirm, SendAnswer, Pending
      <3>3. ASSUME ConfirmDone(c) PROVE h \in Pending
        <4>1. offers' = Without({Key[confirm[c].owner]})
          BY <3>3 DEF ConfirmDone, RemoveOffer
        <4> QED
          BY <4>1, PendingKept
      <3> QED
        BY <1>2, <3>1, <3>2, <3>3
        DEF ConfirmStep, TakeResponder, NothingToConfirm, SendAnswer, ConfirmDone
    <2> QED
      BY <1>a, <2>1 DEF Knows
  <1>3. ASSUME NEW ks \in SUBSET Keys, Expire(ks) PROVE Knows(w, h)'
    <2>0. offers' = Without(ks)
      BY <1>3 DEF Expire
    <2>1. h \in Pending
      BY <2>0, PendingKept
    <2> QED
      BY <1>a, <1>3, <2>1 DEF Expire, Knows
  <1>4. ASSUME NEW v \in Watchers, WatchStep(v) \/ ClientStep(v)
        PROVE  Knows(w, h)'
    <2>0. h \in Pending /\ pc[h] = "wait"
      BY <1>4 DEF WatchStep, ClientStep, Register, Replay, ReplayRead, AnswerRead,
                  Command, Forward, EventRead, WatchEnds, Leave, Pending
    <2>1. CASE Register(v) \/ WatchEnds(v) \/ Leave(v)
      <3>1. v # w /\ w \in registered /\ client[w] = client'[w]
        BY <1>0, <2>1, SMTT(30) DEF Register, WatchEnds, Leave, TypeOK
      <3>2. queue'[w] = queue[w] /\ seen' = seen
        BY <1>0, <2>1, <3>1 DEF Register, WatchEnds, Leave, TypeOK
      <3> QED
        BY <1>a, <2>0, <3>1, <3>2 DEF Knows
    <2>2. CASE Replay(v) \/ ReplayRead(v)
      <3>1. UNCHANGED <<registered, queue, pc, offers>>
        BY <2>2 DEF Replay, ReplayRead
      <3>2. CASE v = w
        <4>1. CASE Replay(v)
          BY <2>0, <3>2, <4>1 DEF Replay, Replayed, TypeOK
        <4>2. CASE ReplayRead(v)
          <5>1. h \in seen'[w]
            BY <2>0, <3>2, <4>2 DEF ReplayRead, Replayed, TypeOK
          <5> QED
            BY <5>1 DEF Knows
        <4> QED
          BY <2>2, <4>1, <4>2
      <3>3. CASE v # w
        <4>1. client'[w] = client[w] /\ seen'[w] = seen[w]
          BY <1>0, <2>2, <3>3 DEF Replay, ReplayRead, TypeOK
        <4> QED
          BY <1>0, <1>a, <2>0, <3>1, <4>1 DEF Knows
      <3> QED
        BY <3>2, <3>3
    <2>4. CASE AnswerRead(v) \/ Command(v) \/ Forward(v)
      <3>1. UNCHANGED <<registered, queue, seen>> /\ Subscribed(w)
        BY <1>0, <2>4 DEF AnswerRead, Command, Forward, TypeOK
      <3> QED
        BY <1>a, <2>0, <3>1 DEF Knows
    <2>3. CASE EventRead(v)
      <3>1. Knows(w, h) /\ (v # w => queue'[w] = queue[w] /\ seen'[w] = seen[w])
        BY <1>0, <1>a, <2>0, <2>3 DEF EventRead, TypeOK
      <3>2. CASE v # w
        BY <3>1, <3>2 DEF Knows
      <3>3. CASE v = w
        <4>1. /\ queue[w] # <<>> /\ queue'[w] = Tail(queue[w])
              /\ seen[w] \subseteq seen'[w]
              /\ Head(queue[w])[1] = "offer" => Head(queue[w])[2] \in seen'[w]
          BY <1>0, <2>3, <3>3, SMTT(30) DEF EventRead, TypeOK
        <4>2. CASE h \in seen[w]
          BY <4>1, <4>2 DEF Knows
        <4>3. ASSUME NEW i \in DOMAIN queue[w], queue[w][i] = <<"offer", h>>
              PROVE  Knows(w, h)'
          <5> DEFINE q == queue[w]
                     x == <<"offer", h>>
          <5>a. q \in Seq(Events) /\ q # <<>> /\ i \in DOMAIN q /\ q[i] = x
            BY <1>b, <4>1, <4>3
          <5>1. x = Head(q) \/ \E j \in DOMAIN Tail(q) : Tail(q)[j] = x
            <6> HIDE DEF Events, q, x
            <6> QED
              BY <5>a, TailKeeps, SMTT(30)
          <5>2. <<"offer", h>>[1] = "offer" /\ <<"offer", h>>[2] = h
            OBVIOUS
          <5> QED
            BY <4>1, <5>1, <5>2 DEF Knows
        <4> QED
          BY <3>1, <4>2, <4>3 DEF Knows
      <3> QED
        BY <3>2, <3>3
    <2> QED
      BY <1>4, <2>1, <2>2, <2>3, <2>4 DEF WatchStep, ClientStep
  <1>5. CASE UNCHANGED vars
    BY <1>a, <1>5 DEF vars, Pending, Knows
  <1> QED
    BY <1>1, <1>2, <1>3, <1>4, <1>5 DEF Next

(* A watcher knows of every offer that can be confirmed (NoOfferMissed).   *)
THEOREM WatchersKnow == Spec => []NoOfferMissed
  <1>1. Init => NoOfferMissed
    BY DEF Init, NoOfferMissed
  <1> QED
    BY <1>1, TypeCorrect, NoOfferMissedNext, PTL DEF Spec

=============================================================================
