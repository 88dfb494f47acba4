------------------------------ MODULE Receiving ------------------------------
(***************************************************************************)
(* The life of the daemon around its receiving switch: the start with its  *)
(* single-instance check (main.rs), the commands `status' and              *)
(* `set_receiving' of concurrent IPC clients (ipc.rs), the advertisement   *)
(* of the discovery manager (manager.rs), the saved configuration          *)
(* (config.rs), and the listener that admits connections (listener.rs,     *)
(* handler.rs).  A process starts once; a restart is another process.      *)
(*                                                                         *)
(* What the code does between two awaits is one step.  std::fs::write      *)
(* truncates the file and then fills it: two steps, between which the file *)
(* is "torn" and does not parse.  Nothing syncs it: `file' is what a       *)
(* process reads, `disk' what a power cut would leave.                     *)
(***************************************************************************)
EXTENDS Naturals, FiniteSets

CONSTANTS
  NProcs,    \* processes of the daemon, in one user session
  NClients,  \* IPC requests and incoming connections, together
  MaxLoad,   \* bound on both: a process counts for two clients
  Permits    \* MAX_CONCURRENT_CONNECTIONS

ASSUME ReceivingAssumption ==
  NProcs \in Nat \ {0} /\ NClients \in Nat /\ MaxLoad \in Nat /\ Permits \in Nat \ {0}

Procs == 1..NProcs
Cmds == 1..NClients
None == 0      \* no process

VARIABLES
  sock,      \* the process that bound the socket path that exists, or None
  port,      \* the process that listens on the TCP port, or None
  file,      \* config.toml: "absent", "on", "off" or "torn"
  disk,      \* the part of it that the kernel has written to the disk
  pc,        \* where each process is
  served,    \* has the process started its IPC server and its listener?
  on,        \* config.receiving_enabled of each process
  mgr,       \* its DiscoveryManager: "none", "idle" or "adv" (registered)
  cmd,       \* the clients, IPC requests and connections, by arrival
  \* History.
  raced,     \* a start went on beside a process that was not to be reached
  mute,      \* processes whose advertisement failed at the start
  burst,     \* switching requests since the process last had none, up to 3
  word,      \* the setting last answered
  lost       \* the last setting did not reach the file

vars == <<sock, port, file, disk, pc, served, on, mgr, cmd, raced, mute, burst, word, lost>>
procVars == <<sock, port, pc, served>>
history == <<raced, mute, burst, word, lost>>

Init ==
  /\ sock = None /\ port = None /\ file \in {"absent", "on", "off"} /\ disk = file
  /\ pc = [p \in Procs |-> "new"] /\ served = [p \in Procs |-> FALSE]
  /\ on = [p \in Procs |-> FALSE] /\ mgr = [p \in Procs |-> "none"]
  /\ cmd = [c \in Cmds |-> [at |-> "new"]]
  /\ raced = FALSE /\ mute = {} /\ burst = [p \in Procs |-> 0] /\ word = (file = "on") /\ lost = FALSE

Running == {"up", "closing", "stopped", "ending"}
Alive(p) == pc[p] \in Running
InHand == {"read", "status", "counted", "replay", "lock", "advertising", "write", "saving"}
Open == {"queued", "tls", "session"}

Load == 2 * Cardinality({p \in Procs : pc[p] # "new"})
        + Cardinality({c \in Cmds : cmd[c].at # "new"})
Fresh(c) ==
  cmd[c].at = "new" /\ (\A b \in 1..(c - 1) : cmd[b].at # "new") /\ Load < MaxLoad
Startable(p) ==
  pc[p] = "new" /\ (\A q \in 1..(p - 1) : pc[q] # "new") /\ Load + 2 <= MaxLoad

Of(p) == {c \in Cmds : cmd[c].at \in InHand \cup Open /\ cmd[c].to = p}
At(p, steps) == {c \in Of(p) : cmd[c].at \in steps}

(* The steps of a request that hold the lock of the manager, the read lock *)
(* and the write lock of the configuration, and that of pending_offers.    *)
HoldsDiscovery_ToTheEnd == {"advertising", "write", "saving"}
HoldsDiscovery == {"advertising"}
DiscoveryFree(p) == At(p, HoldsDiscovery) = {}
Readable(p) == At(p, {"saving"}) = {}
Writable(p) == At(p, {"saving", "status", "counted"}) = {}
OffersFree(p) == At(p, {"replay"}) = {}

(* What start_advertising and stop_advertising make of a manager: a start  *)
(* that finds a registration does nothing, another one may fail; a stop    *)
(* clears the registration even if the backend refuses.                    *)
StartAdvertising(m) == {m, "adv"}
StopAdvertising(m) == IF m = "adv" THEN "idle" ELSE m

-----------------------------------------------------------------------------
(* The start and the end of a process.                                     *)

(* The processes that a status request cannot reach: the socket path is    *)
(* not theirs yet, or no longer.                                           *)
Unreachable ==
  {q \in Procs : pc[q] \in {"pinged", "loaded", "ending"} \/ (Alive(q) /\ ~served[q])}

(* check_existing_instance: a status request on the socket that is there.  *)
(* A live process answers, or is slower than the two seconds it is given.  *)
Ping_NoGuard(p) ==
  /\ Startable(p)
  /\ pc' = [pc EXCEPT ![p] = "pinged"] /\ raced' = (raced \/ Unreachable # {})
  /\ UNCHANGED <<sock, port, served, file, disk, on, mgr, cmd, mute, burst, word, lost>>

Ping(p) ==
  LET answered == sock # None /\ Alive(sock) IN
  /\ Startable(p)
  /\ \/ answered /\ pc' = [pc EXCEPT ![p] = "gone"] /\ UNCHANGED raced
     \/ answered /\ pc' = [pc EXCEPT ![p] = "pinged"] /\ raced' = TRUE
     \/ /\ ~answered /\ pc' = [pc EXCEPT ![p] = "pinged"]
        /\ raced' = (raced \/ Unreachable # {})
  /\ UNCHANGED <<sock, port, served, file, disk, on, mgr, cmd, mute, burst, word, lost>>

(* NxfrConfig::load: a missing file is created with the default, a file    *)
(* that does not parse is replaced by the default in memory only.          *)
LoadConfig(p) ==
  /\ pc[p] = "pinged"
  /\ pc' = [pc EXCEPT ![p] = "loaded"]
  /\ on' = [on EXCEPT ![p] = (file = "on")]
  /\ \/ file = "absent" /\ file' = "off"
     \/ UNCHANGED file
  /\ UNCHANGED <<sock, port, served, disk, mgr, cmd, history>>

(* The discovery manager is made, and advertises if the switch is on.      *)
(* Neither failure stops the start.                                        *)
Boot(p) ==
  /\ pc[p] = "loaded"
  /\ pc' = [pc EXCEPT ![p] = "up"]
  /\ \E m \in {"none", "idle"} \cup (IF on[p] THEN StartAdvertising("idle") ELSE {}) :
       /\ mgr' = [mgr EXCEPT ![p] = m]
       /\ mute' = IF on[p] /\ m # "adv" THEN mute \cup {p} ELSE mute
  /\ UNCHANGED <<sock, port, served, file, disk, on, cmd, raced, burst, word, lost>>

(* The tasks main has spawned: run_ipc_server removes the path and binds   *)
(* it again, run_listener tries to bind the port, once.  Where the port is *)
(* taken the process runs on without it.                                   *)
Bound(p) == IF port = None THEN p ELSE port
Serve(p) ==
  /\ Alive(p) /\ ~served[p]
  /\ served' = [served EXCEPT ![p] = TRUE]
  /\ sock' = p /\ port' = Bound(p)
  /\ UNCHANGED <<pc, file, disk, on, mgr, cmd, history>>

(* SIGINT: main leaves its select.  Nothing notifies state.shutdown.       *)
Signal(p) ==
  /\ pc[p] = "up"
  /\ pc' = [pc EXCEPT ![p] = "closing"]
  /\ UNCHANGED <<sock, port, served, file, disk, on, mgr, cmd, history>>

Stop(p) ==
  /\ pc[p] = "closing" /\ DiscoveryFree(p)
  /\ mgr' = [mgr EXCEPT ![p] = "none"] /\ pc' = [pc EXCEPT ![p] = "stopped"]
  /\ UNCHANGED <<sock, port, served, file, disk, on, cmd, history>>

(* The last lines of main remove the socket path, whoever bound it.        *)
Unlink(p) ==
  /\ pc[p] = "stopped" /\ pc' = [pc EXCEPT ![p] = "ending"] /\ sock' = None
  /\ UNCHANGED <<port, served, file, disk, on, mgr, cmd, history>>

(* What the end of a process takes with it.  A save it was in the middle   *)
(* of leaves the file torn.                                                *)
Ends(p) ==
  /\ pc' = [pc EXCEPT ![p] = "gone"]
  /\ port' = IF port = p THEN None ELSE port
  /\ on' = [on EXCEPT ![p] = FALSE] /\ mgr' = [mgr EXCEPT ![p] = "none"]
  /\ served' = [served EXCEPT ![p] = FALSE]
  /\ cmd' = [c \in Cmds |-> IF c \in Of(p) THEN [at |-> "done"] ELSE cmd[c]]
  /\ lost' = (lost \/ At(p, {"saving"}) # {})
  /\ mute' = mute \ {p} /\ burst' = [burst EXCEPT ![p] = 0]
  /\ UNCHANGED <<sock, file, disk, raced, word>>

Exit(p) == pc[p] = "ending" /\ Ends(p)

(* A crash or a kill of the process: the socket path stays, and so does    *)
(* what the process wrote, which the kernel has.                           *)
Crash(p) == Alive(p) /\ Ends(p)

(* The kernel writes the file to the disk, some time.                      *)
Writeback ==
  /\ disk # file /\ disk' = file
  /\ UNCHANGED <<procVars, file, on, mgr, cmd, history>>

(* The power fails.  A file that was not written back is then what it was  *)
(* before, or has lost its contents.                                       *)
PowerCut ==
  /\ \E p \in Procs : pc[p] \notin {"new", "gone"}
  /\ file' \in IF disk = file THEN {file} ELSE {disk, "torn"}
  /\ disk' = file'
  /\ lost' = (lost \/ file' # file \/ \E c \in Cmds : cmd[c].at = "saving")
  /\ pc' = [p \in Procs |-> IF pc[p] = "new" THEN "new" ELSE "gone"]
  /\ port' = None /\ served' = [p \in Procs |-> FALSE]
  /\ on' = [p \in Procs |-> FALSE] /\ mgr' = [p \in Procs |-> "none"]
  /\ cmd' = [c \in Cmds |-> IF cmd[c].at = "new" THEN cmd[c] ELSE [at |-> "done"]]
  /\ mute' = {} /\ burst' = [p \in Procs |-> 0]
  /\ UNCHANGED <<sock, raced, word>>

-----------------------------------------------------------------------------
(* The requests.                                                           *)

Switching(p) == At(p, {"lock", "advertising", "write", "saving"})
Kinds == {"on", "off", "status", "watch"}

Request(c, k) ==
  /\ Fresh(c) /\ sock # None /\ Alive(sock)
  /\ cmd' = [cmd EXCEPT ![c] = [at |-> "read", to |-> sock, kind |-> k]]
  /\ UNCHANGED <<procVars, file, disk, on, mgr, history>>

To(c, step) == cmd' = [cmd EXCEPT ![c].at = step]

(* cmd_status holds the read lock of the configuration while it waits for  *)
(* the lock of pending_offers and then for that of the manager.  No step   *)
(* that holds the locks of the database or of the transfers waits.         *)
StatusRead(c) ==
  /\ cmd[c].at = "read" /\ cmd[c].kind = "status" /\ Readable(cmd[c].to)
  /\ To(c, "status")
  /\ UNCHANGED <<procVars, file, disk, on, mgr, history>>

StatusCount(c) ==
  /\ cmd[c].at = "status" /\ OffersFree(cmd[c].to)
  /\ To(c, "counted")
  /\ UNCHANGED <<procVars, file, disk, on, mgr, history>>

StatusAnswer(c) ==
  /\ cmd[c].at = "counted" /\ DiscoveryFree(cmd[c].to)
  /\ cmd' = [cmd EXCEPT ![c] = [at |-> "done"]]
  /\ UNCHANGED <<procVars, file, disk, on, mgr, history>>

(* cmd_watch writes its replay to the client with pending_offers locked;   *)
(* the step that ends it is the client's, which has to read.               *)
WatchLock(c) ==
  /\ cmd[c].at = "read" /\ cmd[c].kind = "watch" /\ OffersFree(cmd[c].to)
  /\ To(c, "replay")
  /\ UNCHANGED <<procVars, file, disk, on, mgr, history>>

WatchReplayed(c) ==
  /\ cmd[c].at = "replay"
  /\ cmd' = [cmd EXCEPT ![c] = [at |-> "done"]]
  /\ UNCHANGED <<procVars, file, disk, on, mgr, history>>

(* cmd_set_receiving reads the switch, and is done if it stands already.   *)
SetRead(c) ==
  LET p == cmd[c].to  want == (cmd[c].kind = "on") IN
  /\ cmd[c].at = "read" /\ cmd[c].kind \in {"on", "off"} /\ Readable(p)
  /\ IF on[p] = want
       THEN cmd' = [cmd EXCEPT ![c] = [at |-> "done"]] /\ word' = want /\ UNCHANGED burst
       ELSE /\ To(c, "lock") /\ UNCHANGED word
            /\ burst' = [burst EXCEPT ![p] = IF @ = 3 THEN 3
                                              ELSE IF Switching(p) = {} THEN 1 ELSE @ + 1]
  /\ UNCHANGED <<procVars, file, disk, on, mgr, raced, mute, lost>>

SetLock(c) ==
  /\ cmd[c].at = "lock" /\ DiscoveryFree(cmd[c].to)
  /\ To(c, "advertising")
  /\ UNCHANGED <<procVars, file, disk, on, mgr, history>>

(* The advertisement changes under the lock, which the step releases.  A   *)
(* start that fails, or that finds no manager, ends the request with an    *)
(* error and leaves the switch alone.                                      *)
SetAdvertise_WithoutStop(c) ==
  LET p == cmd[c].to IN
  /\ cmd[c].at = "advertising"
  /\ IF cmd[c].kind = "on" /\ mgr[p] # "none"
       THEN mgr' = [mgr EXCEPT ![p] = "adv"] ELSE UNCHANGED mgr
  /\ To(c, "write")
  /\ UNCHANGED <<procVars, file, disk, on, history>>

SetAdvertise(c) ==
  LET p == cmd[c].to
      Becomes(m) == mgr' = [mgr EXCEPT ![p] = m]
      Refused == cmd' = [cmd EXCEPT ![c] = [at |-> "done"]] IN
  /\ cmd[c].at = "advertising"
  /\ \/ cmd[c].kind = "on" /\ mgr[p] = "none" /\ Refused /\ UNCHANGED mgr
     \/ cmd[c].kind = "on" /\ mgr[p] # "none"
        /\ \E m \in StartAdvertising(mgr[p]) :
             Becomes(m) /\ IF m = "adv" THEN To(c, "write") ELSE Refused
     \/ cmd[c].kind = "off" /\ Becomes(StopAdvertising(mgr[p])) /\ To(c, "write")
  /\ UNCHANGED <<procVars, file, disk, on, history>>

(* The switch is set under the write lock, which is kept for the save.     *)
(* Where the file cannot be opened it keeps what it holds.                 *)
SetWrite(c) ==
  LET p == cmd[c].to IN
  /\ cmd[c].at = "write" /\ Writable(p)
  /\ on' = [on EXCEPT ![p] = (cmd[c].kind = "on")] /\ mute' = mute \ {p}
  /\ file' \in {"torn", file} /\ To(c, "saving")
  /\ UNCHANGED <<procVars, disk, mgr, raced, burst, word, lost>>

(* The answer is the same whether the save succeeds or not.                *)
SetSaved_Unsaved(c) ==
  /\ cmd[c].at = "saving"
  /\ UNCHANGED file
  /\ cmd' = [cmd EXCEPT ![c] = [at |-> "done"]]
  /\ word' = (cmd[c].kind = "on") /\ lost' = FALSE
  /\ UNCHANGED <<procVars, disk, on, mgr, raced, mute, burst>>

SetSaved(c) ==
  /\ cmd[c].at = "saving"
  /\ file' = cmd[c].kind
  /\ cmd' = [cmd EXCEPT ![c] = [at |-> "done"]]
  /\ word' = (cmd[c].kind = "on") /\ lost' = FALSE
  /\ UNCHANGED <<procVars, disk, on, mgr, raced, mute, burst>>

SetSaveFails(c) ==
  /\ cmd[c].at = "saving"
  /\ cmd' = [cmd EXCEPT ![c] = [at |-> "done"]]
  /\ word' = (cmd[c].kind = "on") /\ lost' = TRUE
  /\ UNCHANGED <<procVars, file, disk, on, mgr, raced, mute, burst>>

-----------------------------------------------------------------------------
(* The connections.                                                        *)

Permitted(p) == At(p, {"tls", "session"})

(* run_listener_inner accepts at once; the task it spawns waits for the    *)
(* permit, which it keeps until the handler returns.                       *)
Accept(c) ==
  /\ Fresh(c) /\ port # None
  /\ cmd' = [cmd EXCEPT ![c] = [at |-> "queued", to |-> port, kind |-> "connection"]]
  /\ UNCHANGED <<procVars, file, disk, on, mgr, history>>

Acquire(c) ==
  /\ cmd[c].at = "queued" /\ Cardinality(Permitted(cmd[c].to)) < Permits
  /\ cmd' = [cmd EXCEPT ![c].at = "tls"]
  /\ UNCHANGED <<procVars, file, disk, on, mgr, history>>

(* After the handshake handle_incoming reads the switch, once.             *)
Admit(c) ==
  LET p == cmd[c].to IN
  /\ cmd[c].at = "tls" /\ Readable(p)
  /\ cmd' = [cmd EXCEPT ![c] = IF on[p] THEN [cmd[c] EXCEPT !.at = "session"]
                                          ELSE [at |-> "done"]]
  /\ UNCHANGED <<procVars, file, disk, on, mgr, history>>

(* The handshake fails, or its ten seconds are over.                       *)
TlsFails(c) ==
  /\ cmd[c].at = "tls"
  /\ cmd' = [cmd EXCEPT ![c] = [at |-> "done"]]
  /\ UNCHANGED <<procVars, file, disk, on, mgr, history>>

SessionEnds(c) ==
  /\ cmd[c].at = "session"
  /\ cmd' = [cmd EXCEPT ![c] = [at |-> "done"]]
  /\ UNCHANGED <<procVars, file, disk, on, mgr, history>>

-----------------------------------------------------------------------------
TaskStep(c) == StatusRead(c) \/ StatusCount(c) \/ StatusAnswer(c) \/ WatchLock(c)
               \/ SetRead(c) \/ SetLock(c) \/ SetAdvertise(c) \/ SetWrite(c)
               \/ SetSaved(c) \/ SetSaveFails(c) \/ Acquire(c) \/ TlsFails(c)
MainStep(p) == LoadConfig(p) \/ Boot(p) \/ Stop(p) \/ Unlink(p) \/ Exit(p)

Next ==
  \/ \E p \in Procs : Ping(p) \/ MainStep(p) \/ Serve(p) \/ Signal(p) \/ Crash(p)
  \/ \E c \in Cmds :
       \/ TaskStep(c) \/ \E k \in Kinds : Request(c, k)
       \/ WatchReplayed(c) \/ Accept(c) \/ Admit(c) \/ SessionEnds(c)
  \/ Writeback \/ PowerCut

Spec == Init /\ [][Next]_vars

(* The tasks of the requests run and the handshake timer fires.  Nobody    *)
(* has to start or stop a process, to send a request, to read a replay, or *)
(* to end a session.                                                       *)
FairSpec == Spec /\ \A c \in Cmds : WF_vars(TaskStep(c))

-----------------------------------------------------------------------------
(* Properties.                                                             *)

RequestType ==
  [at : {"new", "done"}] \cup [at : InHand, to : Procs, kind : Kinds]
  \cup [at : Open, to : Procs, kind : {"connection"}]

(* The values the variables take.                                          *)
TypeOK ==
  /\ sock \in Procs \cup {None} /\ port \in Procs \cup {None}
  /\ file \in {"absent", "on", "off", "torn"} /\ disk \in {"absent", "on", "off", "torn"}
  /\ pc \in [Procs -> {"new", "pinged", "loaded", "gone"} \cup Running]
  /\ served \in [Procs -> BOOLEAN]
  /\ on \in [Procs -> BOOLEAN] /\ mgr \in [Procs -> {"none", "idle", "adv"}]
  /\ cmd \in [Cmds -> RequestType]
  /\ raced \in BOOLEAN /\ mute \subseteq Procs /\ burst \in [Procs -> 0..3]
  /\ word \in BOOLEAN /\ lost \in BOOLEAN

(* A process with no switching request in flight advertises exactly when   *)
(* its switch is on.  cmd_set_receiving reads the switch, changes the      *)
(* advertisement and writes the switch under three separate locks, so this *)
(* is not plain: it holds unless three requests overlapped in a chain, or  *)
(* the advertisement failed at the start and no request has changed the    *)
(* switch since.                                                           *)
AdvertisesAsSet ==
  \A p \in Procs :
    pc[p] = "up" /\ Switching(p) = {} /\ p \notin mute /\ burst[p] < 3
      => (mgr[p] = "adv") = on[p]

(* The setting last answered is the one in force, across restarts, crashes *)
(* and power cuts: unless its save failed or was cut, the power failed     *)
(* before the kernel had written it (the code does not sync), or two       *)
(* processes shared the file.                                              *)
SwitchSurvives ==
  ~raced /\ ~lost =>
    \A p \in Procs : Alive(p) /\ At(p, {"saving"}) = {} => on[p] = word

(* The single-instance check works: where no start went past a process     *)
(* that had not bound the socket path yet, had removed it already or was   *)
(* slower than two seconds, one process runs, and once bound it is the one *)
(* clients and peers reach, until it removes the path itself.  No process  *)
(* takes or removes the path of another, so that the next start would pass *)
(* beside it.                                                              *)
OneDaemon ==
  ~raced => \A p \in Procs : Alive(p) =>
              /\ \A q \in Procs \ {p} : pc[q] \in {"new", "gone"}
              /\ served[p] => port = p /\ (pc[p] # "ending" => sock = p)

(* Where clients read the replay they ask for, every request is answered,  *)
(* or cut by the end of its process: requests that hold one lock and wait  *)
(* for another never wait for each other.  A connection waits for a permit *)
(* for ever only behind open sessions, never behind peers that do not      *)
(* complete their handshake.                                               *)
NoneStarves ==
  []<>(\A c \in Cmds : cmd[c].at # "replay") =>
    \A c \in Cmds :
      /\ cmd[c].at \in InHand ~> cmd[c].at = "done"
      /\ cmd[c].at = "queued" ~>
           \/ cmd[c].at # "queued"
           \/ Cardinality(At(cmd[c].to, {"session"})) = Permits
=============================================================================
