------------------------------ MODULE WebShare ------------------------------
(* The web server of nxfr-web (lib.rs): its accept loop with expiry, quota *)
(* and drain, the handler task of every browser connection with its routes *)
(* (approval, download, upload), and the calls of the host application.    *)
(* Every connection is served once and closed, as the code does            *)
(* (Connection: close).  All clients share one address and all uploads one *)
(* file name: the worst case for the failure count and for collisions.     *)
EXTENDS Integers, FiniteSets

CONSTANTS
  Conns,          \* the connections that browsers may open
  MaxDownloads,   \* max_downloads: the quota of a share, 0 for None (as the
                  \* FFI maps it; no caller passes Some(0))
  MaxFailed       \* MAX_FAILED_ATTEMPTS, after which an address is blocked

ASSUME WebConstants == /\ IsFiniteSet(Conns)
                       /\ MaxDownloads \in Nat
                       /\ MaxFailed \in Nat \ {0}
                       /\ "free" \notin Conns
                       /\ Conns \cap {"none", "bad", "master", "pin"} = {}

VARIABLES
  mode,       \* "share" (a manifest is offered) or "upload"
  pin,        \* whether the server was given a PIN
  auto,       \* auto_accept
  loop,       \* the accept loop: "accept", "expiring", "drain" or "stopped"
  cancelled,  \* the cancellation token
  forced,     \* the drain gave up after 300 s
  quiet,      \* expiry_duration has passed since last_activity
  active,     \* active_transfers
  count,      \* download_count
  failed,     \* the failure count of the address, 0 for no entry
  failLock,   \* who holds the mutex of failed_attempts
  reqs,       \* pending_requests: the status of the request a connection made
  reqLock,    \* who holds the mutex of pending_requests
  host,       \* the respond_to_request call of the host that is under way
  pc,         \* where the handler of a connection is
  tmp,        \* the connections whose temporary upload file exists
  whole,      \* the connections whose temporary file holds the whole body
  chosen,     \* final_path of an upload: 0 for the name itself, n for " (n)"
  inbox,      \* which connection's file is under a final path
  stored,     \* the uploads that were renamed and answered with success
  rivals      \* the uploads that had chosen the same path when one was renamed

vars == <<mode, pin, auto, loop, cancelled, forced, quiet, active, count,
          failed, failLock, reqs, reqLock, host, pc, tmp, whole, chosen,
          inbox, stored, rivals>>

(* The parts of the state that most actions leave alone together.          *)
server   == <<mode, pin, loop, forced>>
approval == <<auto, reqs, reqLock, host>>
uploads  == <<tmp, whole, chosen, inbox, stored, rivals>>
limits   == <<failed, failLock>>

Slots == 0..Cardinality(Conns)
NoCall == <<"none", FALSE>>

(* The points at which a handler owns an ActiveTransferGuard.              *)
Guarded == {"stream", "count", "quota", "body", "named", "rename",
            "reply", "abort"}

Init ==
  /\ mode \in {"share", "upload"}
  /\ pin \in BOOLEAN
  /\ auto = FALSE
  /\ loop = "accept"
  /\ cancelled = FALSE
  /\ forced = FALSE
  /\ quiet = FALSE
  /\ active = 0
  /\ count = 0
  /\ failed = 0
  /\ failLock = "free"
  /\ reqs = [c \in Conns |-> "none"]
  /\ reqLock = "free"
  /\ host = NoCall
  /\ pc = [c \in Conns |-> "idle"]
  /\ tmp = {}
  /\ whole = {}
  /\ chosen = [c \in Conns |-> 0]
  /\ inbox = [s \in Slots |-> "none"]
  /\ stored = {}
  /\ rivals = [c \in Conns |-> {}]

-----------------------------------------------------------------------------
(* The accept loop.                                                        *)

(* accept() and the spawn of a handler, which begins with the handshake.   *)
Accept(c) ==
  /\ loop = "accept"
  /\ pc[c] = "idle"
  /\ pc' = [pc EXCEPT ![c] = "tls"]
  /\ UNCHANGED <<server, approval, uploads, limits, cancelled, quiet, active, count>>

(* The top of the loop reads last_activity and then active_transfers: it   *)
(* leaves when the expiry has passed and there is no transfer.             *)
LoopQuiet ==
  /\ loop = "accept" /\ quiet
  /\ loop' = "expiring"
  /\ UNCHANGED <<mode, pin, forced, approval, uploads, limits, cancelled, quiet,
                 active, count, pc>>

LoopExpire_NoDefer ==
  /\ loop = "expiring"
  /\ loop' = "drain"
  /\ UNCHANGED <<mode, pin, forced, approval, uploads, limits, cancelled, quiet,
                 active, count, pc>>
LoopExpire ==
  /\ loop = "expiring"
  /\ loop' = IF active = 0 THEN "drain" ELSE "accept"
  /\ UNCHANGED <<mode, pin, forced, approval, uploads, limits, cancelled, quiet,
                 active, count, pc>>

(* The select of the loop sees the cancellation token.                     *)
LoopCancel ==
  /\ loop = "accept" /\ cancelled
  /\ loop' = "drain"
  /\ UNCHANGED <<mode, pin, forced, approval, uploads, limits, cancelled, quiet,
                 active, count, pc>>

(* The drain ends when no guard is left, or after 300 s; either way the    *)
(* token is cancelled.                                                     *)
Drained ==
  /\ loop = "drain" /\ active = 0
  /\ loop' = "stopped" /\ cancelled' = TRUE
  /\ UNCHANGED <<mode, pin, forced, approval, uploads, limits, quiet, active, count, pc>>

DrainTimeout_None == FALSE /\ UNCHANGED vars
DrainTimeout ==
  /\ loop = "drain" /\ active > 0
  /\ loop' = "stopped" /\ cancelled' = TRUE /\ forced' = TRUE
  /\ UNCHANGED <<mode, pin, approval, uploads, limits, quiet, active, count, pc>>

(* Time: the expiry passes without a bump_activity.                        *)
TimePasses ==
  /\ ~quiet /\ quiet' = TRUE
  /\ UNCHANGED <<server, approval, uploads, limits, cancelled, active, count, pc>>

-----------------------------------------------------------------------------
(* The host application's WebServerHandle.  In upload mode the handle has  *)
(* request and auto_accept cells of its own, so its calls reach no request *)
(* of the server.                                                          *)

HostStop ==
  /\ ~cancelled /\ cancelled' = TRUE
  /\ UNCHANGED <<server, approval, uploads, limits, quiet, active, count, pc>>

HostSetAuto ==
  /\ mode = "share" /\ auto' = ~auto
  /\ UNCHANGED <<server, reqs, reqLock, host, uploads, limits, cancelled, quiet,
                 active, count, pc>>

HostCall(c, accepted) ==
  /\ mode = "share" /\ host = NoCall /\ reqs[c] # "none"
  /\ host' = <<c, accepted>>
  /\ UNCHANGED <<server, auto, reqs, reqLock, uploads, limits, cancelled, quiet,
                 active, count, pc>>

(* respond_to_request, once it has the mutex: only a pending request is    *)
(* decided.                                                                *)
HostRespond ==
  /\ host # NoCall /\ reqLock = "free"
  /\ reqs' = IF reqs[host[1]] = "pending"
             THEN [reqs EXCEPT ![host[1]] = IF host[2] THEN "accepted" ELSE "rejected"]
             ELSE reqs
  /\ host' = NoCall
  /\ UNCHANGED <<server, auto, reqLock, uploads, limits, cancelled, quiet,
                 active, count, pc>>

-----------------------------------------------------------------------------
(* handle_connection, up to the route.                                     *)

(* The handler returns: its guards are dropped, so the counter goes down   *)
(* and a temporary file that was not renamed is removed.                   *)
Leave(c) ==
  /\ pc' = [pc EXCEPT ![c] = "done"]
  /\ active' = IF pc[c] \in Guarded THEN active - 1 ELSE active
  /\ tmp' = tmp \ {c}

(* The handshake fails, the client hangs up, a read or a write fails, a    *)
(* timeout of a read or of a write fires.                                  *)
Drop(c) ==
  /\ pc[c] \in {"tls", "head", "open", "stream", "parthead", "body", "named", "rename"}
  /\ Leave(c)
  /\ UNCHANGED <<server, approval, limits, cancelled, quiet, count,
                 whole, chosen, inbox, stored, rivals>>

(* The cancel check, bump_activity and the check of the address, which     *)
(* answers a blocked client with the mutex held, or forgets an old block.  *)
Start(c) ==
  /\ pc[c] = "tls"
  /\ \/ /\ cancelled
        /\ Leave(c)
        /\ UNCHANGED <<quiet, failed, failLock>>
     \/ /\ ~cancelled /\ failLock = "free"
        /\ quiet' = FALSE
        /\ UNCHANGED <<active, tmp>>
        /\ \/ /\ failed >= MaxFailed
              /\ failLock' = c /\ failed' = failed
              /\ pc' = [pc EXCEPT ![c] = "banned"]
           \/ /\ failed' = IF failed >= MaxFailed THEN 0 ELSE failed
              /\ failLock' = failLock
              /\ pc' = [pc EXCEPT ![c] = "head"]
  /\ UNCHANGED <<server, approval, cancelled, count, whole, chosen, inbox, stored, rivals>>

(* The 403 is written and the mutex released.                              *)
BannedSent(c) ==
  /\ pc[c] = "banned"
  /\ failLock' = "free"
  /\ Leave(c)
  /\ UNCHANGED <<server, approval, failed, cancelled, quiet, count,
                 whole, chosen, inbox, stored, rivals>>

(* is_valid_token: the token of the server, the PIN, or the session token  *)
(* of an accepted request, for which the mutex is needed.                  *)
Tokens == {"none", "bad", "master", "pin"} \cup Conns
IsValidToken(t) ==
  \/ t = "master"
  \/ t = "pin" /\ pin
  \/ t \in Conns /\ reqs[t] = "accepted"
CanCheck(t) == t \in {"none", "master"} \/ (t = "pin" /\ pin) \/ reqLock = "free"

(* failed_attempts after another wrong token: the count starts again when  *)
(* the last failure is older than the window.                              *)
RecordFailure ==
  /\ failLock = "free" /\ failLock' = failLock
  /\ failed' \in {1, failed + 1}

-----------------------------------------------------------------------------
(* The approval routes.                                                    *)

(* POST /api/request reads auto_accept before it waits for the mutex.      *)
PostRequest(c) ==
  /\ pc[c] = "head"
  /\ pc' = [pc EXCEPT ![c] = IF ~auto /\ ~pin THEN "ask" ELSE "prove"]
  /\ UNCHANGED <<server, approval, uploads, limits, cancelled, quiet, active, count>>

(* A valid credential is answered with a session token; without one the    *)
(* request waits for the host, or is refused where a credential is needed. *)
EnterRequest(c, t) ==
  /\ pc[c] \in {"ask", "prove"}
  /\ reqLock = "free" \/ (pc[c] = "prove" /\ ~IsValidToken(t) /\ CanCheck(t))
  /\ reqs' = [reqs EXCEPT ![c] = IF IsValidToken(t) THEN "accepted"
                                 ELSE IF pc[c] = "ask" THEN "pending" ELSE "none"]
  /\ Leave(c)
  /\ UNCHANGED <<server, auto, reqLock, host, limits, cancelled, quiet, count,
                 whole, chosen, inbox, stored, rivals>>

(* GET /api/request-status, and GET /api/pending with a valid token: the   *)
(* reply is written with the mutex of the requests held.                   *)
AskStatus(c) ==
  /\ pc[c] = "head" /\ reqLock = "free"
  /\ pc' = [pc EXCEPT ![c] = "status"]
  /\ reqLock' = c
  /\ UNCHANGED <<server, auto, reqs, host, uploads, limits, cancelled, quiet, active, count>>

(* The fault locks the requests before it checks the token, which then     *)
(* waits for the mutex that its own handler holds.                         *)
ListPending_LocksFirst(c, t) ==
  /\ pc[c] = "head" /\ reqLock = "free"
  /\ reqLock' = c
  /\ pc' = [pc EXCEPT ![c] = IF t = "master" THEN "status" ELSE "ask"]
  /\ UNCHANGED <<server, auto, reqs, host, uploads, limits, cancelled, quiet, active, count>>
ListPending(c, t) ==
  /\ pc[c] = "head" /\ reqLock = "free"
  /\ IF IsValidToken(t)
     THEN /\ pc' = [pc EXCEPT ![c] = "status"]
          /\ reqLock' = c
          /\ UNCHANGED <<active, tmp>>
     ELSE Leave(c) /\ reqLock' = reqLock
  /\ UNCHANGED <<server, auto, reqs, host, limits, cancelled, quiet, count,
                 whole, chosen, inbox, stored, rivals>>

(* send_response has no timer: only the client's reading, or its leaving,  *)
(* ends it.                                                                *)
StatusSent(c) ==
  /\ pc[c] = "status"
  /\ reqLock' = "free"
  /\ Leave(c)
  /\ UNCHANGED <<server, auto, reqs, host, limits, cancelled, quiet, count,
                 whole, chosen, inbox, stored, rivals>>

(* GET /: the waiting page, the download page or the upload page; and any  *)
(* route that does not exist.  Nothing is changed; that the page of a      *)
(* session waits for the mutex of the requests only delays it.             *)
GetPage(c) ==
  /\ pc[c] = "head"
  /\ Leave(c)
  /\ UNCHANGED <<server, approval, limits, cancelled, quiet, count,
                 whole, chosen, inbox, stored, rivals>>

(* GET /auth: a wrong token is recorded.                                   *)
GetAuth(c, t) ==
  /\ pc[c] = "head" /\ CanCheck(t)
  /\ IF IsValidToken(t) THEN UNCHANGED limits ELSE RecordFailure
  /\ Leave(c)
  /\ UNCHANGED <<server, approval, cancelled, quiet, count,
                 whole, chosen, inbox, stored, rivals>>

-----------------------------------------------------------------------------
(* GET /dl/: the whole share as a ZIP, a file, or a range of one.          *)

(* An invalid token and a share that is not active end in an error; the    *)
(* ZIP takes its guard before the header of the reply, a file after it.    *)
GetDownload(c, t, zip) ==
  /\ pc[c] = "head" /\ CanCheck(t)
  /\ IF IsValidToken(t) /\ mode = "share"
     THEN /\ pc' = [pc EXCEPT ![c] = IF zip THEN "stream" ELSE "open"]
          /\ active' = IF zip THEN active + 1 ELSE active
          /\ tmp' = tmp
     ELSE Leave(c)
  /\ UNCHANGED <<server, approval, limits, cancelled, quiet, count,
                 whole, chosen, inbox, stored, rivals>>

(* The file is found, opened, the range is satisfiable and the header is   *)
(* written; otherwise the handler leaves (Drop).                           *)
OpenFile(c) ==
  /\ pc[c] = "open"
  /\ pc' = [pc EXCEPT ![c] = "stream"]
  /\ active' = active + 1
  /\ UNCHANGED <<server, approval, uploads, limits, cancelled, quiet, count>>

StreamChunk(c) ==
  /\ pc[c] = "stream" /\ quiet
  /\ quiet' = FALSE
  /\ UNCHANGED <<server, approval, uploads, limits, cancelled, active, count, pc>>

StreamEnd(c) ==
  /\ pc[c] = "stream"
  /\ pc' = [pc EXCEPT ![c] = "count"]
  /\ UNCHANGED <<server, approval, uploads, limits, cancelled, quiet, active, count>>

(* fetch_add of download_count, and the comparison of its result.          *)
CountDownload(c) ==
  /\ pc[c] = "count"
  /\ count' = count + 1
  /\ IF MaxDownloads > 0 /\ count + 1 >= MaxDownloads
     THEN pc' = [pc EXCEPT ![c] = "quota"] /\ UNCHANGED <<active, tmp>>
     ELSE Leave(c)
  /\ UNCHANGED <<server, approval, limits, cancelled, quiet,
                 whole, chosen, inbox, stored, rivals>>

(* The quota is reached: cancel().                                         *)
QuotaCancel(c) ==
  /\ pc[c] = "quota"
  /\ cancelled' = TRUE
  /\ Leave(c)
  /\ UNCHANGED <<server, approval, limits, quiet, count,
                 whole, chosen, inbox, stored, rivals>>

-----------------------------------------------------------------------------
(* POST /upload.                                                           *)

(* A wrong token is recorded; without a multipart boundary, or with a      *)
(* Content-Length above the limit, the handler answers and is done.        *)
PostUpload(c, t) ==
  /\ pc[c] = "head" /\ CanCheck(t)
  /\ \/ /\ ~IsValidToken(t)
        /\ RecordFailure
        /\ Leave(c)
     \/ /\ IsValidToken(t)
        /\ Leave(c)
        /\ UNCHANGED limits
     \/ /\ IsValidToken(t)
        /\ pc' = [pc EXCEPT ![c] = "parthead"]
        /\ UNCHANGED <<limits, active, tmp>>
  /\ UNCHANGED <<server, approval, cancelled, quiet, count,
                 whole, chosen, inbox, stored, rivals>>

(* The headers of the part are complete: the temporary file is created and *)
(* the two guards are taken.                                               *)
PartHeaders(c) ==
  /\ pc[c] = "parthead"
  /\ pc' = [pc EXCEPT ![c] = "body"]
  /\ tmp' = tmp \cup {c}
  /\ active' = active + 1
  /\ UNCHANGED <<server, approval, limits, cancelled, quiet, count,
                 whole, chosen, inbox, stored, rivals>>

BodyChunk(c) ==
  /\ pc[c] = "body" /\ quiet
  /\ quiet' = FALSE
  /\ UNCHANGED <<server, approval, uploads, limits, cancelled, active, count, pc>>

(* The closing boundary is found and what precedes it is written.          *)
BodyEnd(c) ==
  /\ pc[c] = "body"
  /\ pc' = [pc EXCEPT ![c] = "named"]
  /\ whole' = whole \cup {c}
  /\ UNCHANGED <<server, approval, limits, cancelled, quiet, active, count,
                 tmp, chosen, inbox, stored, rivals>>

(* A body above the limit, or a path of more than ten levels, is answered  *)
(* before the guards are dropped.                                          *)
Refuse(c) ==
  /\ pc[c] \in {"body", "named"}
  /\ pc' = [pc EXCEPT ![c] = "abort"]
  /\ UNCHANGED <<server, approval, uploads, limits, cancelled, quiet, active, count>>

(* The collision check: the name itself if no file has it, else the first  *)
(* free " (n)".                                                            *)
ChoosePath_Same(c) ==
  /\ pc[c] = "named"
  /\ chosen' = [chosen EXCEPT ![c] = 0]
  /\ pc' = [pc EXCEPT ![c] = "rename"]
  /\ UNCHANGED <<server, approval, limits, cancelled, quiet, active, count,
                 tmp, whole, inbox, stored, rivals>>
ChoosePath(c) ==
  /\ pc[c] = "named"
  /\ \E s \in Slots :
       /\ inbox[s] = "none" /\ \A r \in 0..(s - 1) : inbox[r] # "none"
       /\ chosen' = [chosen EXCEPT ![c] = s]
  /\ pc' = [pc EXCEPT ![c] = "rename"]
  /\ UNCHANGED <<server, approval, limits, cancelled, quiet, active, count,
                 tmp, whole, inbox, stored, rivals>>

(* rename() replaces a file that is there; then commit().                  *)
Rename(c) ==
  /\ pc[c] = "rename"
  /\ inbox' = [inbox EXCEPT ![chosen[c]] = c]
  /\ tmp' = tmp \ {c}
  /\ stored' = stored \cup {c}
  /\ rivals' = [rivals EXCEPT ![c] = {d \in Conns \ {c} : /\ pc[d] = "rename"
                                                          /\ chosen[d] = chosen[c]}]
  /\ pc' = [pc EXCEPT ![c] = "reply"]
  /\ UNCHANGED <<server, approval, limits, cancelled, quiet, active, count, whole, chosen>>

ReplySent(c) ==
  /\ pc[c] \in {"reply", "abort"}
  /\ Leave(c)
  /\ UNCHANGED <<server, approval, limits, cancelled, quiet, count,
                 whole, chosen, inbox, stored, rivals>>

-----------------------------------------------------------------------------
Loop == LoopQuiet \/ LoopExpire \/ LoopCancel \/ Drained \/ DrainTimeout \/ TimePasses

Host == \/ HostStop \/ HostSetAuto \/ HostRespond
        \/ \E c \in Conns, b \in BOOLEAN : HostCall(c, b)

Handler(c) ==
  \/ Accept(c) \/ Drop(c) \/ Start(c) \/ BannedSent(c)
  \/ PostRequest(c) \/ AskStatus(c) \/ StatusSent(c) \/ GetPage(c)
  \/ OpenFile(c) \/ StreamChunk(c) \/ StreamEnd(c) \/ CountDownload(c) \/ QuotaCancel(c)
  \/ PartHeaders(c) \/ BodyChunk(c) \/ BodyEnd(c) \/ Refuse(c)
  \/ ChoosePath(c) \/ Rename(c) \/ ReplySent(c)
  \/ \E t \in Tokens : \/ EnterRequest(c, t) \/ ListPending(c, t)
                       \/ GetAuth(c, t) \/ PostUpload(c, t)
                       \/ \E zip \in BOOLEAN : GetDownload(c, t, zip)

Next == Loop \/ Host \/ \E c \in Conns : Handler(c)

Spec == Init /\ [][Next]_vars

(* Only the server's own steps are fair, that of the cancellation strongly *)
(* since select! picks among what is ready at random.  No client is        *)
(* assumed to send, to read or to leave.                                   *)
Fairness ==
  /\ SF_vars(LoopCancel) /\ WF_vars(LoopExpire)
  /\ WF_vars(Drained \/ DrainTimeout)
  /\ WF_vars(HostRespond)
  /\ \A c \in Conns : WF_vars(CountDownload(c) \/ QuotaCancel(c))

FairSpec == Spec /\ Fairness

-----------------------------------------------------------------------------
PCs == {"idle", "tls", "banned", "head", "ask", "prove", "status", "open",
        "parthead", "done"} \cup Guarded

(* The type of every variable.                                             *)
TypeOK ==
  /\ mode \in {"share", "upload"} /\ pin \in BOOLEAN /\ auto \in BOOLEAN
  /\ loop \in {"accept", "expiring", "drain", "stopped"}
  /\ cancelled \in BOOLEAN /\ forced \in BOOLEAN /\ quiet \in BOOLEAN
  /\ active \in Nat /\ count \in Nat /\ failed \in Nat
  /\ failLock \in Conns \cup {"free"} /\ reqLock \in Conns \cup {"free"}
  /\ reqs \in [Conns -> {"none", "pending", "accepted", "rejected"}]
  /\ host \in {NoCall} \cup (Conns \X BOOLEAN)
  /\ pc \in [Conns -> PCs]
  /\ tmp \subseteq Conns /\ whole \subseteq Conns /\ stored \subseteq Conns
  /\ chosen \in [Conns -> Slots]
  /\ inbox \in [Slots -> Conns \cup {"none"}]
  /\ rivals \in [Conns -> SUBSET Conns]

InTransfer == {c \in Conns : pc[c] \in Guarded}

(* The counter that defers expiry and ends the drain is the number of      *)
(* handlers that are in a transfer, on every path by which one can end.    *)
ActiveExact == active = Cardinality(InTransfer)

(* The server leaves its loop for inactivity, and reports the end of a     *)
(* drain that did not time out, only when no handler is in the middle of a *)
(* download or an upload.                                                  *)
ShutdownSparesTransfers ==
  [][ \/ loop = "expiring" /\ loop' = "drain"
      \/ loop = "drain" /\ loop' = "stopped" /\ ~forced'
      => InTransfer = {} ]_vars

(* Whatever ends an upload, what is under a final name is a whole body and *)
(* no temporary file outlives its handler.                                 *)
UploadAllOrNothing ==
  /\ \A s \in Slots : inbox[s] # "none" => inbox[s] \in whole
  /\ \A c \in tmp : pc[c] \in {"body", "named", "rename", "abort"}

(* An upload that was stored is still under the name it was given, unless  *)
(* another had already chosen the same name when it was renamed: the check *)
(* and the rename are two steps, and that is the only way to lose a file.  *)
LostOnlyToRace ==
  \A c \in stored : inbox[chosen[c]] \in {c} \cup rivals[c]

(* Once the host or a credential has decided a request, no later call and  *)
(* no setting changes the decision.                                        *)
DecisionFinal ==
  [][\A c \in Conns : reqs[c] \in {"accepted", "rejected"} => reqs'[c] = reqs[c]]_vars

(* A server that was cancelled, or has served its quota of downloads, also *)
(* by several that ended together, stops although clients may stall in     *)
(* every state.                                                            *)
StopEnds ==
  (cancelled \/ (MaxDownloads > 0 /\ count >= MaxDownloads)) ~> (loop = "stopped")

(* The host's answer to a request is applied, whatever else clients do,    *)
(* provided they read the replies that are written with the mutex of the   *)
(* requests held (lib.rs:1883-1903, 1941-1953) or leave: no timer guards   *)
(* those writes, and the list of pending requests is of any length.        *)
RespondEnds ==
  (\A c \in Conns : []<>(pc[c] # "status"))
    => ((host # NoCall) ~> (host = NoCall))
=============================================================================
