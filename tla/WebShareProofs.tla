--------------------------- MODULE WebShareProofs ---------------------------
(***************************************************************************)
(* Proofs about WebShare, for any finite number of connections, any quota  *)
(* and any limit on failures.                                              *)
(***************************************************************************)
EXTENDS WebShare, FiniteSetTheorems, TLAPS

(* Zenon first: it is quick and takes most leaves; SMT is cited where a     *)
(* leaf needs arithmetic, sequences or extensionality.                      *)
USE ZenonT(30), SMTT(30)

-----------------------------------------------------------------------------
(* The inductive invariant.                                                *)

(* A handler whose body is complete has its whole body in the file.        *)
NamedIsWhole == \A c \in Conns : pc[c] \in {"named", "rename"} => c \in whole

(* An upload that was stored is over; whoever is about to rename to its    *)
(* name had chosen it before.                                              *)
StoredIsOver == \A c \in stored : pc[c] \in {"reply", "done"}
RacersKnown ==
  \A c \in stored, d \in Conns :
    pc[d] = "rename" /\ chosen[d] = chosen[c] => d \in rivals[c]

(* A request belongs to a connection that has been served.                 *)
RequestIsOver == \A c \in Conns : reqs[c] # "none" => pc[c] = "done"

UploadInv == UploadAllOrNothing /\ NamedIsWhole /\ StoredIsOver /\ LostOnlyToRace
               /\ RacersKnown

-----------------------------------------------------------------------------
(* What a step of a handler does to its position, the counter and the      *)
(* upload files.                                                           *)

Holds(at) == IF at \in Guarded THEN 1 ELSE 0
Files == <<whole, chosen, inbox, stored, rivals>>
Uploading == {"body", "named", "rename", "abort"}

Moves(c) ==
  \E to \in PCs :
    /\ pc' = [pc EXCEPT ![c] = to]
    /\ active' = active + Holds(to) - Holds(pc[c])
    /\ UNCHANGED <<tmp, Files>>
    /\ pc[c] \notin {"reply", "done"}
    /\ to = pc[c] \/ to = "abort" \/ (pc[c] \notin Uploading /\ to \notin Uploading)

LEMMA HandlerEffect ==
  ASSUME TypeOK, NEW c \in Conns, Handler(c)
  PROVE  \/ Leave(c) /\ UNCHANGED Files
         \/ Moves(c)
         \/ PartHeaders(c) \/ BodyEnd(c) \/ ChoosePath(c) \/ Rename(c)
  <1> USE DEF Files, uploads
  <1>0. active \in Nat /\ pc \in [Conns -> PCs]
    BY DEF TypeOK
  <1>1. CASE Drop(c) \/ BannedSent(c) \/ StatusSent(c) \/ GetPage(c) \/ QuotaCancel(c)
               \/ ReplySent(c)
    BY <1>1 DEF Drop, BannedSent, StatusSent, GetPage, QuotaCancel, ReplySent
  <1>2. ASSUME NEW t \in Tokens, EnterRequest(c, t) \/ GetAuth(c, t)
        PROVE  Leave(c) /\ UNCHANGED Files
    BY <1>2 DEF EnterRequest, GetAuth
  <1>3. CASE Accept(c) \/ PostRequest(c) \/ AskStatus(c)
    BY <1>0, <1>3, SMTT(30) DEF Accept, PostRequest, AskStatus, Moves, Holds, Guarded, PCs, Uploading
  <1>4. CASE StreamChunk(c) \/ BodyChunk(c)
    BY <1>0, <1>4, SMTT(30) DEF StreamChunk, BodyChunk, Moves, Holds, Guarded, PCs
  <1>5. CASE OpenFile(c) \/ StreamEnd(c) \/ Refuse(c)
    BY <1>0, <1>5, SMTT(30) DEF OpenFile, StreamEnd, Refuse, Moves, Holds, Guarded, PCs, Uploading
  <1>6. CASE Start(c)
    BY <1>0, <1>6, SMTT(30) DEF Start, Moves, Holds, Guarded, PCs, Uploading
  <1>7. CASE CountDownload(c)
    BY <1>0, <1>7, SMTT(30) DEF CountDownload, Moves, Holds, Guarded, PCs, Uploading
  <1>8. ASSUME NEW t \in Tokens, ListPending(c, t) \/ PostUpload(c, t)
        PROVE  (Leave(c) /\ UNCHANGED Files) \/ Moves(c)
    BY <1>0, <1>8, SMTT(30) DEF ListPending, PostUpload, Moves, Holds, Guarded, PCs, Uploading
  <1>9. ASSUME NEW t \in Tokens, NEW zip \in BOOLEAN, GetDownload(c, t, zip)
        PROVE  (Leave(c) /\ UNCHANGED Files) \/ Moves(c)
    BY <1>0, <1>9, SMTT(30) DEF GetDownload, Moves, Holds, Guarded, PCs, Uploading
  <1> QED
    BY <1>1, <1>2, <1>3, <1>4, <1>5, <1>6, <1>7, <1>8, <1>9 DEF Handler

(* The loop and the host leave the handlers and their files alone.         *)
LEMMA OthersEffect ==
  ASSUME Loop \/ Host \/ UNCHANGED vars
  PROVE  UNCHANGED <<pc, active, uploads>>
  <1> USE DEF uploads
  <1>1. CASE Loop
    BY <1>1 DEF Loop, LoopQuiet, LoopExpire, LoopCancel, Drained, DrainTimeout, TimePasses
  <1>2. CASE Host
    BY <1>2 DEF Host, HostStop, HostSetAuto, HostRespond, HostCall
  <1>3. CASE UNCHANGED vars
    BY <1>3 DEF vars
  <1> QED
    BY <1>1, <1>2, <1>3

(* Every step of a handler moves the counter with its guard.               *)
LEMMA CounterMoves ==
  ASSUME TypeOK, NEW c \in Conns, Handler(c)
  PROVE  \E to \in PCs : /\ pc' = [pc EXCEPT ![c] = to]
                         /\ active' = active + Holds(to) - Holds(pc[c])
  <1>0. active \in Nat /\ pc \in [Conns -> PCs]
    BY DEF TypeOK
  <1>1. CASE Leave(c)
    BY <1>0, <1>1, SMTT(30) DEF Leave, Holds, PCs, Guarded
  <1>2. CASE Moves(c)
    BY <1>2 DEF Moves
  <1>3. CASE PartHeaders(c) \/ BodyEnd(c) \/ ChoosePath(c) \/ Rename(c)
    BY <1>0, <1>3, SMTT(30) DEF PartHeaders, BodyEnd, ChoosePath, Rename, Holds, PCs, Guarded
  <1> QED
    BY <1>1, <1>2, <1>3, HandlerEffect

LEMMA ActiveNext ==
  ASSUME TypeOK, ActiveExact, [Next]_vars
  PROVE  active' \in Nat /\ ActiveExact' /\ pc' \in [Conns -> PCs]
  <1>0. IsFiniteSet(InTransfer)
    BY WebConstants, FS_Subset DEF InTransfer
  <1>n. Cardinality(InTransfer) \in Nat
    BY <1>0, FS_CardinalityType
  <1>1. CASE UNCHANGED <<pc, active>>
    BY <1>1 DEF ActiveExact, InTransfer, TypeOK
  <1>2. ASSUME NEW c \in Conns, Handler(c)
        PROVE  active' \in Nat /\ ActiveExact' /\ pc' \in [Conns -> PCs]
    <2>1. PICK to \in PCs : /\ pc' = [pc EXCEPT ![c] = to]
                            /\ active' = active + Holds(to) - Holds(pc[c])
      BY <1>2, CounterMoves
    <2>2. pc' \in [Conns -> PCs]
      BY <2>1 DEF TypeOK
    <2>3. CASE to \in Guarded /\ pc[c] \notin Guarded
      <3>1. InTransfer' = InTransfer \cup {c} /\ c \notin InTransfer
        BY <2>1, <2>3 DEF InTransfer, TypeOK
      <3>2. Cardinality(InTransfer') = Cardinality(InTransfer) + 1
        BY <1>0, <3>1, FS_AddElement
      <3> QED
        BY <1>n, <2>1, <2>2, <2>3, <3>2, SMTT(30) DEF Holds, ActiveExact
    <2>4. CASE to \notin Guarded /\ pc[c] \in Guarded
      <3>1. InTransfer' = InTransfer \ {c} /\ c \in InTransfer
        BY <2>1, <2>4 DEF InTransfer, TypeOK
      <3>2. Cardinality(InTransfer') = Cardinality(InTransfer) - 1
        BY <1>0, <3>1, FS_RemoveElement
      <3>3. IsFiniteSet(InTransfer')
        BY <1>0, <3>1, FS_Subset
      <3>4. Cardinality(InTransfer') \in Nat
        BY <3>3, FS_CardinalityType
      <3> QED
        BY <1>n, <2>1, <2>2, <2>4, <3>2, <3>4, SMTT(30) DEF Holds, ActiveExact
    <2>5. CASE (to \in Guarded) <=> (pc[c] \in Guarded)
      <3>1. InTransfer' = InTransfer
        BY <2>1, <2>5 DEF InTransfer, TypeOK
      <3> QED
        BY <1>n, <2>1, <2>2, <2>5, <3>1, SMTT(30) DEF Holds, ActiveExact
    <2> QED
      BY <2>3, <2>4, <2>5
  <1> QED
    BY <1>1, <1>2, OthersEffect DEF Next

-----------------------------------------------------------------------------
(* Type correctness.  The counter is a natural number because it is exact. *)

LoopTypeOK ==
  /\ mode \in {"share", "upload"} /\ pin \in BOOLEAN /\ auto \in BOOLEAN
  /\ loop \in {"accept", "expiring", "drain", "stopped"}
  /\ cancelled \in BOOLEAN /\ forced \in BOOLEAN /\ quiet \in BOOLEAN
  /\ count \in Nat
LimitTypeOK == failed \in Nat /\ failLock \in Conns \cup {"free"}
RequestTypeOK ==
  /\ reqLock \in Conns \cup {"free"}
  /\ reqs \in [Conns -> {"none", "pending", "accepted", "rejected"}]
  /\ host \in {NoCall} \cup (Conns \X BOOLEAN)
UploadTypeOK ==
  /\ tmp \subseteq Conns /\ whole \subseteq Conns /\ stored \subseteq Conns
  /\ chosen \in [Conns -> Slots]
  /\ inbox \in [Slots -> Conns \cup {"none"}]
  /\ rivals \in [Conns -> SUBSET Conns]

LEMMA TypeParts ==
  TypeOK <=> /\ LoopTypeOK /\ LimitTypeOK /\ RequestTypeOK /\ UploadTypeOK
             /\ active \in Nat /\ pc \in [Conns -> PCs]
  BY DEF TypeOK, LoopTypeOK, LimitTypeOK, RequestTypeOK, UploadTypeOK

LEMMA TypeInit == Init => TypeOK /\ ActiveExact
  <1> SUFFICES ASSUME Init PROVE TypeOK /\ ActiveExact
    OBVIOUS
  <1>1. 0 \in Slots
    BY WebConstants, FS_CardinalityType, SMTT(30) DEF Slots
  <1>2. LoopTypeOK
    BY DEF Init, LoopTypeOK
  <1>3. LimitTypeOK /\ RequestTypeOK
    BY DEF Init, LimitTypeOK, RequestTypeOK
  <1>4. UploadTypeOK
    BY <1>1 DEF Init, UploadTypeOK
  <1>5. active \in Nat /\ pc \in [Conns -> PCs]
    BY DEF Init, PCs
  <1>6. InTransfer = {}
    BY DEF Init, InTransfer, Guarded
  <1> QED
    BY <1>2, <1>3, <1>4, <1>5, <1>6, TypeParts, FS_EmptySet DEF Init, ActiveExact

LEMMA UploadTypeNext ==
  ASSUME TypeOK, [Next]_vars
  PROVE  UploadTypeOK'
  <1> USE DEF UploadTypeOK
  <1>0. UploadTypeOK
    BY TypeParts
  <1>1. CASE UNCHANGED uploads
    BY <1>0, <1>1 DEF uploads
  <1>2. ASSUME NEW c \in Conns, Handler(c) PROVE UploadTypeOK'
    <2>1. CASE Leave(c) /\ UNCHANGED Files
      BY <1>0, <2>1 DEF Leave, Files
    <2>2. CASE Moves(c)
      BY <1>0, <2>2 DEF Moves, Files
    <2>3. CASE PartHeaders(c) \/ BodyEnd(c) \/ ChoosePath(c)
      BY <1>0, <2>3, SMTT(30) DEF PartHeaders, BodyEnd, ChoosePath
    <2>4. CASE Rename(c)
      BY <1>0, <2>4 DEF Rename
    <2> QED
      BY <1>2, <2>1, <2>2, <2>3, <2>4, HandlerEffect
  <1> QED
    BY <1>1, <1>2, OthersEffect DEF Next

LEMMA HandlerTypeNext ==
  ASSUME TypeOK, NEW c \in Conns, Handler(c)
  PROVE  LoopTypeOK' /\ LimitTypeOK' /\ RequestTypeOK'
  <1> USE DEF LoopTypeOK, LimitTypeOK, RequestTypeOK, server, approval, limits
  <1>0. LoopTypeOK /\ LimitTypeOK /\ RequestTypeOK
    BY TypeParts
  <1>1. CASE Drop(c) \/ GetPage(c) \/ ReplySent(c) \/ Accept(c) \/ PostRequest(c)
    BY <1>0, <1>1 DEF Drop, GetPage, ReplySent, Accept, PostRequest
  <1>1a. CASE BannedSent(c)
    BY <1>0, <1>1a DEF BannedSent
  <1>1b. CASE Start(c)
    <2>1. failed' = failed \/ failed' = 0
      BY <1>1b DEF Start
    <2>2. failLock' = failLock \/ failLock' = c
      BY <1>1b DEF Start
    <2>3. quiet' = quiet \/ quiet' = FALSE
      BY <1>1b DEF Start
    <2>4. UNCHANGED <<server, approval, cancelled, count>>
      BY <1>1b DEF Start
    <2>5. quiet' \in BOOLEAN
      BY <1>0, <2>3
    <2>6. LoopTypeOK'
      BY <1>0, <2>4, <2>5
    <2>7. LimitTypeOK'
      BY <1>0, <2>1, <2>2, SMTT(30)
    <2>8. RequestTypeOK'
      BY <1>0, <2>4
    <2> QED
      BY <2>6, <2>7, <2>8
  <1>1c. CASE QuotaCancel(c)
    BY <1>0, <1>1c DEF QuotaCancel
  <1>2. CASE AskStatus(c) \/ StatusSent(c)
    BY <1>0, <1>2 DEF AskStatus, StatusSent
  <1>3. CASE OpenFile(c) \/ StreamEnd(c)
    BY <1>0, <1>3 DEF OpenFile, StreamEnd
  <1>3a. CASE StreamChunk(c)
    BY <1>0, <1>3a DEF StreamChunk
  <1>3b. CASE CountDownload(c)
    BY <1>0, <1>3b, SMTT(30) DEF CountDownload
  <1>4. CASE PartHeaders(c) \/ BodyChunk(c) \/ BodyEnd(c) \/ Refuse(c) \/ ChoosePath(c)
               \/ Rename(c)
    BY <1>0, <1>4 DEF PartHeaders, BodyChunk, BodyEnd, Refuse, ChoosePath, Rename
  <1>5. ASSUME NEW t \in Tokens, EnterRequest(c, t)
        PROVE  LoopTypeOK' /\ LimitTypeOK' /\ RequestTypeOK'
    BY <1>0, <1>5, SMTT(30) DEF EnterRequest
  <1>6. ASSUME NEW t \in Tokens, ListPending(c, t)
        PROVE  LoopTypeOK' /\ LimitTypeOK' /\ RequestTypeOK'
    BY <1>0, <1>6 DEF ListPending
  <1>7. ASSUME NEW t \in Tokens, GetAuth(c, t) \/ PostUpload(c, t)
        PROVE  LoopTypeOK' /\ LimitTypeOK' /\ RequestTypeOK'
    BY <1>0, <1>7, SMTT(30) DEF GetAuth, PostUpload, RecordFailure
  <1>8. ASSUME NEW t \in Tokens, NEW zip \in BOOLEAN, GetDownload(c, t, zip)
        PROVE  LoopTypeOK' /\ LimitTypeOK' /\ RequestTypeOK'
    BY <1>0, <1>8 DEF GetDownload
  <1> QED
    BY <1>1, <1>1a, <1>1b, <1>1c, <1>2, <1>3, <1>3a, <1>3b, <1>4, <1>5, <1>6, <1>7, <1>8
    DEF Handler

LEMMA OthersTypeNext ==
  ASSUME TypeOK, Loop \/ Host \/ UNCHANGED vars
  PROVE  LoopTypeOK' /\ LimitTypeOK' /\ RequestTypeOK'
  <1> USE DEF LoopTypeOK, LimitTypeOK, RequestTypeOK, server, approval, limits
  <1>0. LoopTypeOK /\ LimitTypeOK /\ RequestTypeOK
    BY TypeParts
  <1>1. CASE Loop
    BY <1>0, <1>1 DEF Loop, LoopQuiet, LoopExpire, LoopCancel, Drained, DrainTimeout, TimePasses
  <1>2. CASE HostStop \/ HostSetAuto
    BY <1>0, <1>2 DEF HostStop, HostSetAuto
  <1>3. CASE HostRespond
    <2>1. host[1] \in Conns
      BY <1>0, <1>3 DEF HostRespond
    <2> QED
      BY <1>0, <1>3, <2>1 DEF HostRespond
  <1>4. ASSUME NEW c \in Conns, NEW b \in BOOLEAN, HostCall(c, b)
        PROVE  LoopTypeOK' /\ LimitTypeOK' /\ RequestTypeOK'
    BY <1>0, <1>4 DEF HostCall
  <1>5. CASE UNCHANGED vars
    BY <1>0, <1>5 DEF vars
  <1> QED
    BY <1>1, <1>2, <1>3, <1>4, <1>5 DEF Host

LEMMA TypeNext == TypeOK /\ ActiveExact /\ [Next]_vars => (TypeOK /\ ActiveExact)'
  <1> SUFFICES ASSUME TypeOK, ActiveExact, [Next]_vars PROVE TypeOK' /\ ActiveExact'
    OBVIOUS
  <1>1. LoopTypeOK' /\ LimitTypeOK' /\ RequestTypeOK'
    BY HandlerTypeNext, OthersTypeNext DEF Next
  <1>2. UploadTypeOK' /\ active' \in Nat /\ pc' \in [Conns -> PCs] /\ ActiveExact'
    BY UploadTypeNext, ActiveNext
  <1> QED
    BY <1>1, <1>2
    DEF TypeOK, LoopTypeOK, LimitTypeOK, RequestTypeOK, UploadTypeOK

(* Every variable keeps its type (TypeOK).                                 *)
THEOREM TypeCorrect == Spec => []TypeOK
  BY TypeInit, TypeNext, PTL DEF Spec

(* active_transfers is the number of handlers in a transfer (ActiveExact). *)
THEOREM CounterIsExact == Spec => []ActiveExact
  BY TypeInit, TypeNext, PTL DEF Spec

(* Inactivity and a drain that did not time out end the server only when   *)
(* no handler is in a transfer (ShutdownSparesTransfers).                  *)
THEOREM ShutdownSafe == Spec => ShutdownSparesTransfers
  <1>1. TypeOK /\ ActiveExact /\ [Next]_vars
          => [ \/ loop = "expiring" /\ loop' = "drain"
               \/ loop = "drain" /\ loop' = "stopped" /\ ~forced'
               => InTransfer = {} ]_vars
    <2> SUFFICES ASSUME TypeOK, ActiveExact, [Next]_vars,
                        \/ loop = "expiring" /\ loop' = "drain"
                        \/ loop = "drain" /\ loop' = "stopped" /\ ~forced'
                 PROVE  InTransfer = {}
      OBVIOUS
    <2>0. IsFiniteSet(InTransfer)
      BY WebConstants, FS_Subset DEF InTransfer
    <2>1. ASSUME NEW c \in Conns, Handler(c) PROVE loop' = loop
      BY <2>1
      DEF Handler, server, Accept, Drop, Start, BannedSent, PostRequest, AskStatus,
          StatusSent, GetPage, OpenFile, StreamChunk, StreamEnd, CountDownload,
          QuotaCancel, PartHeaders, BodyChunk, BodyEnd, Refuse, ChoosePath, Rename,
          ReplySent, EnterRequest, ListPending, GetAuth, PostUpload, GetDownload
    <2>2. CASE Host \/ UNCHANGED vars
      BY <2>2 DEF Host, HostStop, HostSetAuto, HostRespond, HostCall, server, vars
    <2>3. CASE Loop
      <3>1. active = 0
        BY <2>3 DEF Loop, LoopQuiet, LoopExpire, LoopCancel, Drained, DrainTimeout, TimePasses, server
      <3> QED
        BY <2>0, <3>1, FS_EmptySet DEF ActiveExact
    <2> QED
      BY <2>1, <2>2, <2>3 DEF Next
  <1> QED
    BY <1>1, TypeCorrect, CounterIsExact, PTL DEF Spec, ShutdownSparesTransfers

-----------------------------------------------------------------------------
(* Uploads.                                                                *)

LEMMA UploadNext == TypeOK /\ UploadInv /\ [Next]_vars => UploadInv'
  <1> SUFFICES ASSUME TypeOK, UploadInv, [Next]_vars PROVE UploadInv'
    OBVIOUS
  <1> USE DEF UploadInv
  <1>0. UploadTypeOK /\ pc \in [Conns -> PCs]
    BY TypeParts
  <1>1. CASE UNCHANGED <<pc, uploads>>
    BY <1>1
    DEF uploads, UploadAllOrNothing, NamedIsWhole, StoredIsOver, LostOnlyToRace, RacersKnown
  <1>2. ASSUME NEW c \in Conns, pc' = [pc EXCEPT ![c] = pc'[c]], UNCHANGED Files,
               pc'[c] \in {"named", "rename"} => pc'[c] = pc[c],
               pc[c] \in {"reply", "done"} => pc'[c] \in {"reply", "done"},
               tmp' \subseteq tmp, c \in tmp' => pc'[c] \in Uploading
        PROVE  UploadInv'
    <2>1. \A d \in Conns \ {c} : pc'[d] = pc[d]
      BY <1>0, <1>2
    <2>2. UploadAllOrNothing' /\ NamedIsWhole'
      BY <1>0, <1>2, <2>1 DEF Files, UploadAllOrNothing, NamedIsWhole, Uploading, UploadTypeOK
    <2>3. StoredIsOver' /\ LostOnlyToRace' /\ RacersKnown'
      BY <1>0, <1>2, <2>1, SMTT(30) DEF Files, StoredIsOver, LostOnlyToRace, RacersKnown, UploadTypeOK
    <2> QED
      BY <2>2, <2>3
  <1>3. ASSUME NEW c \in Conns, Leave(c), UNCHANGED Files PROVE UploadInv'
    BY <1>0, <1>2, <1>3 DEF Leave, UploadTypeOK
  <1>4. ASSUME NEW c \in Conns, Moves(c) PROVE UploadInv'
    <2>1. c \in tmp => pc[c] \in Uploading
      BY DEF UploadAllOrNothing, Uploading
    <2> QED
      BY <1>0, <1>2, <1>4, <2>1 DEF Moves, Uploading
  <1>5. ASSUME NEW c \in Conns, PartHeaders(c) PROVE UploadInv'
    BY <1>0, <1>5
    DEF PartHeaders, UploadAllOrNothing, NamedIsWhole, StoredIsOver, LostOnlyToRace,
        RacersKnown, UploadTypeOK
  <1>6. ASSUME NEW c \in Conns, BodyEnd(c) PROVE UploadInv'
    BY <1>0, <1>6
    DEF BodyEnd, UploadAllOrNothing, NamedIsWhole, StoredIsOver, LostOnlyToRace,
        RacersKnown, UploadTypeOK
  <1>7. ASSUME NEW c \in Conns, ChoosePath(c) PROVE UploadInv'
    <2>1. PICK s \in Slots : inbox[s] = "none" /\ chosen' = [chosen EXCEPT ![c] = s]
      BY <1>7 DEF ChoosePath
    <2>2. /\ pc[c] = "named" /\ pc'[c] = "rename" /\ c \notin stored
          /\ \A d \in Conns \ {c} : pc'[d] = pc[d] /\ chosen'[d] = chosen[d]
          /\ chosen'[c] = s /\ UNCHANGED <<tmp, whole, inbox, stored, rivals>>
      BY <1>0, <1>7, <2>1 DEF ChoosePath, StoredIsOver, UploadTypeOK
    <2>3. \A d \in stored : chosen[d] # s
      <3>1. ASSUME NEW d \in stored PROVE inbox[chosen[d]] # "none"
        BY <1>0, WebConstants DEF LostOnlyToRace, UploadTypeOK
      <3> QED
        BY <2>1, <3>1
    <2>4. UploadAllOrNothing' /\ NamedIsWhole' /\ StoredIsOver'
      BY <1>0, <2>2 DEF UploadAllOrNothing, NamedIsWhole, StoredIsOver, UploadTypeOK
    <2>5. LostOnlyToRace'
      BY <1>0, <2>2 DEF LostOnlyToRace, UploadTypeOK
    <2>6. RacersKnown'
      BY <1>0, <2>2, <2>3 DEF RacersKnown, UploadTypeOK
    <2> QED
      BY <2>4, <2>5, <2>6
  <1>8. ASSUME NEW c \in Conns, Rename(c) PROVE UploadInv'
    <2>1. /\ pc[c] = "rename" /\ pc'[c] = "reply" /\ c \notin stored /\ c \in whole
          /\ \A d \in Conns \ {c} : pc'[d] = pc[d] /\ rivals'[d] = rivals[d]
          /\ rivals'[c] = {d \in Conns \ {c} : pc[d] = "rename" /\ chosen[d] = chosen[c]}
          /\ stored' = stored \cup {c} /\ tmp' = tmp \ {c}
          /\ UNCHANGED <<whole, chosen>>
      BY <1>0, <1>8 DEF Rename, StoredIsOver, NamedIsWhole, UploadTypeOK
    <2>2. /\ inbox'[chosen[c]] = c
          /\ \A s \in Slots : s # chosen[c] => inbox'[s] = inbox[s]
      BY <1>0, <1>8 DEF Rename, UploadTypeOK
    <2>3. \A d \in Conns : chosen[d] \in Slots
      BY <1>0 DEF UploadTypeOK
    <2>4. UploadAllOrNothing' /\ NamedIsWhole' /\ StoredIsOver'
      BY <1>0, <2>1, <2>2, SMTT(30) DEF UploadAllOrNothing, NamedIsWhole, StoredIsOver, UploadTypeOK
    <2>5. ASSUME NEW d \in stored' PROVE inbox'[chosen'[d]] \in {d} \cup rivals'[d]
      <3>1. CASE d = c
        BY <2>1, <2>2, <3>1
      <3>2. CASE d # c /\ chosen[d] = chosen[c]
        BY <1>0, <2>1, <2>2, <3>2, SMTT(30) DEF RacersKnown, UploadTypeOK
      <3>3. CASE d # c /\ chosen[d] # chosen[c]
        BY <1>0, <2>1, <2>2, <2>3, <3>3 DEF LostOnlyToRace, UploadTypeOK
      <3> QED
        BY <3>1, <3>2, <3>3
    <2>6. RacersKnown'
      BY <1>0, <2>1 DEF RacersKnown, UploadTypeOK
    <2> QED
      BY <2>4, <2>5, <2>6 DEF LostOnlyToRace
  <1> QED
    BY <1>1, <1>3, <1>4, <1>5, <1>6, <1>7, <1>8, HandlerEffect, OthersEffect
    DEF Next

LEMMA UploadCorrect == Spec => []UploadInv
  <1>1. Init => UploadInv
    BY DEF Init, UploadInv, UploadAllOrNothing, NamedIsWhole, StoredIsOver, LostOnlyToRace,
           RacersKnown
  <1> QED
    BY <1>1, TypeCorrect, UploadNext, PTL DEF Spec

(* What is under a final name is a whole body, and no temporary file       *)
(* outlives its handler (UploadAllOrNothing).                              *)
THEOREM UploadsAreWhole == Spec => []UploadAllOrNothing
  <1>1. UploadInv => UploadAllOrNothing
    BY DEF UploadInv
  <1> QED
    BY <1>1, UploadCorrect, PTL

(* A stored upload is replaced only by one that had already chosen its     *)
(* name (LostOnlyToRace).                                                  *)
THEOREM OnlyARaceReplaces == Spec => []LostOnlyToRace
  <1>1. UploadInv => LostOnlyToRace
    BY DEF UploadInv
  <1> QED
    BY <1>1, UploadCorrect, PTL

-----------------------------------------------------------------------------
(* Decisions.                                                              *)

(* Who changes the requests.                                               *)
LEMMA RequestsEffect ==
  ASSUME TypeOK, [Next]_vars
  PROVE  \/ reqs' = reqs
         \/ \E c \in Conns, t \in Tokens : EnterRequest(c, t)
         \/ HostRespond
  <1>1. ASSUME NEW c \in Conns, Handler(c), \A t \in Tokens : ~EnterRequest(c, t)
        PROVE  reqs' = reqs
    BY <1>1
    DEF Handler, approval, Accept, Drop, Start, BannedSent, PostRequest, AskStatus,
        StatusSent, GetPage, OpenFile, StreamChunk, StreamEnd, CountDownload,
        QuotaCancel, PartHeaders, BodyChunk, BodyEnd, Refuse, ChoosePath, Rename,
        ReplySent, ListPending, GetAuth, PostUpload, GetDownload
  <1>2. CASE Loop
    BY <1>2 DEF Loop, LoopQuiet, LoopExpire, LoopCancel, Drained, DrainTimeout, TimePasses, approval
  <1>3. CASE Host
    BY <1>3 DEF Host, HostStop, HostSetAuto, HostCall, approval
  <1>4. CASE UNCHANGED vars
    BY <1>4 DEF vars
  <1> QED
    BY <1>1, <1>2, <1>3, <1>4 DEF Next

LEMMA RequestNext == TypeOK /\ RequestIsOver /\ [Next]_vars => RequestIsOver'
  <1> SUFFICES ASSUME TypeOK, RequestIsOver, [Next]_vars PROVE RequestIsOver'
    OBVIOUS
  <1>0. RequestTypeOK /\ pc \in [Conns -> PCs]
    BY TypeParts
  <1>1. \A c \in Conns : pc[c] = "done" => pc'[c] = "done"
    <2>1. ASSUME NEW c \in Conns, Handler(c), pc[c] = "done" PROVE FALSE
      BY <2>1
      DEF Handler, Accept, Drop, Start, BannedSent, PostRequest, AskStatus,
          StatusSent, GetPage, OpenFile, StreamChunk, StreamEnd, CountDownload,
          QuotaCancel, PartHeaders, BodyChunk, BodyEnd, Refuse, ChoosePath, Rename,
          ReplySent, EnterRequest, ListPending, GetAuth, PostUpload, GetDownload
    <2>2. ASSUME NEW c \in Conns, Handler(c)
          PROVE  \A d \in Conns \ {c} : pc'[d] = pc[d]
      BY <1>0, <2>2, CounterMoves
    <2> QED
      BY <2>1, <2>2, OthersEffect DEF Next
  <1>2. CASE reqs' = reqs
    BY <1>1, <1>2 DEF RequestIsOver
  <1>3. ASSUME NEW c \in Conns, NEW t \in Tokens, EnterRequest(c, t) PROVE RequestIsOver'
    <2>1. pc'[c] = "done" /\ \A d \in Conns \ {c} : reqs'[d] = reqs[d]
      BY <1>0, <1>3 DEF EnterRequest, Leave, RequestTypeOK
    <2> QED
      BY <1>1, <2>1 DEF RequestIsOver
  <1>4. CASE HostRespond
    <2>1. \A d \in Conns : reqs'[d] # "none" => reqs[d] # "none"
      BY <1>0, <1>4 DEF HostRespond, RequestTypeOK
    <2> QED
      BY <1>1, <2>1 DEF RequestIsOver
  <1> QED
    BY <1>2, <1>3, <1>4, RequestsEffect

(* A request that was decided keeps its decision (DecisionFinal).          *)
THEOREM DecisionsAreFinal == Spec => DecisionFinal
  <1>1. Init => RequestIsOver
    BY DEF Init, RequestIsOver
  <1>2. TypeOK /\ RequestIsOver /\ [Next]_vars
          => [\A c \in Conns : reqs[c] \in {"accepted", "rejected"}
                                 => reqs'[c] = reqs[c]]_vars
    <2> SUFFICES ASSUME TypeOK, RequestIsOver, [Next]_vars, NEW c \in Conns,
                        reqs[c] \in {"accepted", "rejected"}
                 PROVE  reqs'[c] = reqs[c]
      OBVIOUS
    <2>0. RequestTypeOK
      BY TypeParts
    <2>1. ASSUME NEW d \in Conns, NEW t \in Tokens, EnterRequest(d, t)
          PROVE  reqs'[c] = reqs[c]
      BY <2>0, <2>1 DEF EnterRequest, RequestIsOver, RequestTypeOK
    <2>2. CASE HostRespond
      BY <2>0, <2>2 DEF HostRespond, RequestTypeOK
    <2> QED
      BY <2>1, <2>2, RequestsEffect
  <1>3. Spec => []RequestIsOver
    BY <1>1, TypeCorrect, RequestNext, PTL DEF Spec
  <1> QED
    BY <1>2, <1>3, TypeCorrect, PTL DEF Spec, DecisionFinal

=============================================================================
