--------------------------- MODULE ReceivingProofs ---------------------------
(* Proofs that one daemon runs, that the receiving switch survives and     *)
(* that the advertisement follows it, for any number of processes,         *)
(* requests, connections and permits.                                      *)
EXTENDS Receiving, TLAPS

(* Zenon first: it is quick and takes most leaves; SMT is cited where a     *)
(* leaf needs arithmetic, sequences or extensionality.                      *)
USE ZenonT(30), SMTT(30)

Busy == [at : InHand, to : Procs, kind : Kinds]
Connected == [at : Open, to : Procs, kind : {"connection"}]
Idle == [at : {"new", "done"}]

LEMMA Steps ==
  /\ \A r \in Idle : r.at \notin InHand /\ r.at \notin Open
  /\ \A r \in Busy : r.at \notin Open /\ r.at \notin {"new", "done"}
  /\ \A r \in Connected : r.at \notin InHand /\ r.at \notin {"new", "done"}
  /\ RequestType = Idle \cup Busy \cup Connected
  BY DEF Idle, Busy, Connected, InHand, Open, RequestType

LEMMA KindOf ==
  ASSUME NEW r \in RequestType
  PROVE  /\ r.at \in InHand => r \in Busy
         /\ r.at \in Open => r \in Connected
         /\ r.at \in {"new", "done"} => r \in Idle
         /\ r.at \in InHand \cup Open \cup {"new", "done"}
  BY Steps DEF Idle, Busy, Connected

(* What a client's step does to its own record; the others stay.           *)
Ended(c) == cmd' = [cmd EXCEPT ![c] = [at |-> "done"]]
Moved(c, step) == cmd' = [cmd EXCEPT ![c].at = step]

LEMMA EndedEffect ==
  ASSUME cmd \in [Cmds -> RequestType], NEW c \in Cmds, Ended(c)
  PROVE  /\ cmd' \in [Cmds -> RequestType] /\ cmd'[c].at = "done"
         /\ \A d \in Cmds \ {c} : cmd'[d] = cmd[d]
  <1>1. [at |-> "done"] \in RequestType
    BY DEF RequestType
  <1> QED
    BY <1>1 DEF Ended

LEMMA BusyEffect ==
  ASSUME cmd \in [Cmds -> RequestType], NEW c \in Cmds, cmd[c].at \in InHand,
         NEW step \in InHand, Moved(c, step)
  PROVE  /\ cmd' \in [Cmds -> RequestType]
         /\ cmd'[c].at = step /\ cmd'[c].to = cmd[c].to /\ cmd'[c].kind = cmd[c].kind
         /\ \A d \in Cmds \ {c} : cmd'[d] = cmd[d]
  <1> DEFINE r == [cmd[c] EXCEPT !.at = step]
  <1>1. cmd[c] \in Busy
    BY KindOf
  <1>2. r \in Busy /\ r.at = step /\ r.to = cmd[c].to /\ r.kind = cmd[c].kind
    BY <1>1 DEF Busy
  <1>3. cmd' = [cmd EXCEPT ![c] = r]
    BY DEF Moved
  <1> HIDE DEF r
  <1>4. r \in RequestType
    BY <1>2, Steps
  <1> QED
    BY <1>2, <1>3, <1>4

LEMMA ConnectedEffect ==
  ASSUME cmd \in [Cmds -> RequestType], NEW c \in Cmds, cmd[c].at \in Open,
         NEW step \in Open, Moved(c, step)
  PROVE  /\ cmd' \in [Cmds -> RequestType]
         /\ cmd'[c].at = step /\ cmd'[c].to = cmd[c].to /\ cmd'[c].kind = cmd[c].kind
         /\ \A d \in Cmds \ {c} : cmd'[d] = cmd[d]
  <1> DEFINE r == [cmd[c] EXCEPT !.at = step]
  <1>1. cmd[c] \in Connected
    BY KindOf
  <1>2. r \in Connected /\ r.at = step /\ r.to = cmd[c].to /\ r.kind = cmd[c].kind
    BY <1>1 DEF Connected
  <1>3. cmd' = [cmd EXCEPT ![c] = r]
    BY DEF Moved
  <1> HIDE DEF r
  <1>4. r \in RequestType
    BY <1>2, Steps
  <1> QED
    BY <1>2, <1>3, <1>4

-----------------------------------------------------------------------------
(* The inductive invariants.                                               *)

(* One process at a time is past its single-instance check, and whoever    *)
(* serves is alive, holds the port and is reached by the socket, until it  *)
(* removes the path.                                                       *)
Active(p) == pc[p] \notin {"new", "gone"}
Apart == ~raced => \A p, q \in Procs : Active(p) /\ Active(q) => p = q
ServedUp == \A p \in Procs : served[p] => Alive(p)
PortServed == port # None => served[port]
Reached ==
  ~raced => \A p \in Procs : served[p] => port = p /\ (pc[p] # "ending" => sock = p)
DaemonInv == Apart /\ ServedUp /\ PortServed /\ Reached

(* A request or a connection is at a process that is alive.                *)
ToAlive == \A c \in Cmds : cmd[c].at \in InHand \cup Open => Alive(cmd[c].to)

(* While a request saves it has the write lock to itself, and the switch   *)
(* is what it set.                                                         *)
Saves(c, p) == cmd[c].at = "saving" /\ cmd[c].to = p
OneSaver == \A p \in Procs : \A c, d \in Cmds : Saves(c, p) /\ Saves(d, p) => c = d
SavingOn == \A p \in Procs : \A c \in Cmds : Saves(c, p) => on[p] = (cmd[c].kind = "on")

(* Between saves the file says what was last answered, and so does every   *)
(* process that has read it.                                               *)
Clean == ~raced /\ ~lost
FileIsWord ==
  Clean /\ (\A c \in Cmds : cmd[c].at # "saving") => ((file = "on") = word)
LoadedIsWord ==
  Clean => \A p \in Procs :
    pc[p] \in {"loaded"} \cup Running /\ (\A c \in Cmds : ~Saves(c, p)) => on[p] = word
SwitchInv == ToAlive /\ OneSaver /\ SavingOn /\ FileIsWord /\ LoadedIsWord

-----------------------------------------------------------------------------
(* What the steps do to the requests.                                      *)

Client(c) == TaskStep(c) \/ WatchReplayed(c) \/ Admit(c) \/ SessionEnds(c)
Arrives(c) == Accept(c) \/ \E k \in Kinds : Request(c, k)
Process(p) == Ping(p) \/ MainStep(p) \/ Serve(p) \/ Signal(p) \/ Crash(p)
CmdType == [Cmds -> RequestType]

LEMMA NextIs ==
  Next <=> \/ \E p \in Procs : Process(p)
           \/ \E c \in Cmds : Client(c) \/ Arrives(c)
           \/ Writeback \/ PowerCut
  BY DEF Next, Process, Client, Arrives

(* A request's step ends it, or moves it and leaves the rest of it alone.  *)
LEMMA ClientEffect ==
  ASSUME cmd \in CmdType, NEW c \in Cmds, Client(c)
  PROVE  /\ cmd' \in CmdType
         /\ \A d \in Cmds \ {c} : cmd'[d] = cmd[d]
         /\ cmd[c].at \in InHand \cup Open
         /\ \/ cmd'[c].at = "done"
            \/ /\ cmd'[c].at \in InHand \cup Open
               /\ cmd'[c].to = cmd[c].to /\ cmd'[c].kind = cmd[c].kind
         /\ cmd'[c].at = "saving" => SetWrite(c)
         /\ cmd[c].at = "saving" => SetSaved(c) \/ SetSaveFails(c)
  <1> USE DEF CmdType
  <1>1. CASE StatusRead(c) \/ StatusCount(c) \/ WatchLock(c)
    <2>1. PICK step \in {"status", "counted", "replay"} :
            cmd[c].at \in InHand /\ cmd[c].at # "saving" /\ Moved(c, step)
      BY <1>1 DEF StatusRead, StatusCount, WatchLock, To, Moved, InHand
    <2>2. step \in InHand /\ step # "saving"
      BY DEF InHand
    <2> QED
      BY <2>1, <2>2, BusyEffect
  <1>2. CASE StatusAnswer(c) \/ WatchReplayed(c)
    <2>1. cmd[c].at \in InHand /\ cmd[c].at # "saving" /\ Ended(c)
      BY <1>2 DEF StatusAnswer, WatchReplayed, Ended, InHand
    <2> QED
      BY <2>1, EndedEffect
  <1>3. CASE SetRead(c)
    <2>1. /\ cmd[c].at \in InHand /\ cmd[c].at # "saving"
          /\ Ended(c) \/ (Moved(c, "lock") /\ "lock" \in InHand)
      BY <1>3 DEF SetRead, To, Ended, Moved, InHand
    <2> QED
      BY <2>1, BusyEffect, EndedEffect
  <1>4. CASE SetLock(c)
    <2>1. /\ cmd[c].at \in InHand /\ cmd[c].at # "saving"
          /\ Moved(c, "advertising") /\ "advertising" \in InHand
      BY <1>4 DEF SetLock, To, Moved, InHand
    <2> QED
      BY <2>1, BusyEffect
  <1>5. CASE SetAdvertise(c)
    <2>1. /\ cmd[c].at \in InHand /\ cmd[c].at # "saving"
          /\ Ended(c) \/ (Moved(c, "write") /\ "write" \in InHand)
      BY <1>5 DEF SetAdvertise, To, Ended, Moved, InHand
    <2> QED
      BY <2>1, BusyEffect, EndedEffect
  <1>6. CASE SetWrite(c)
    <2>1. /\ cmd[c].at \in InHand /\ cmd[c].at # "saving"
          /\ Moved(c, "saving") /\ "saving" \in InHand
      BY <1>6 DEF SetWrite, To, Moved, InHand
    <2> QED
      BY <1>6, <2>1, BusyEffect
  <1>7. CASE SetSaved(c) \/ SetSaveFails(c)
    <2>1. cmd[c].at \in InHand /\ Ended(c)
      BY <1>7 DEF SetSaved, SetSaveFails, Ended, InHand
    <2> QED
      BY <1>7, <2>1, EndedEffect
  <1>8. CASE Acquire(c)
    <2>1. cmd[c].at \in Open /\ cmd[c].at # "saving" /\ Moved(c, "tls") /\ "tls" \in Open
      BY <1>8 DEF Acquire, Moved, Open
    <2> QED
      BY <2>1, ConnectedEffect
  <1>9. CASE Admit(c)
    <2>1. /\ cmd[c].at \in Open /\ cmd[c].at # "saving" /\ "session" \in Open
          /\ Ended(c) \/ Moved(c, "session")
      BY <1>9 DEF Admit, Ended, Moved, Open
    <2> QED
      BY <2>1, ConnectedEffect, EndedEffect
  <1>10. CASE TlsFails(c) \/ SessionEnds(c)
    <2>1. cmd[c].at \in Open /\ cmd[c].at # "saving" /\ Ended(c)
      BY <1>10 DEF TlsFails, SessionEnds, Ended, Open
    <2> QED
      BY <2>1, EndedEffect
  <1> QED
    BY <1>1, <1>2, <1>3, <1>4, <1>5, <1>6, <1>7, <1>8, <1>9, <1>10 DEF Client, TaskStep

LEMMA ArrivesEffect ==
  ASSUME TypeOK, ServedUp, PortServed, NEW c \in Cmds, Arrives(c)
  PROVE  /\ cmd' \in CmdType
         /\ \A d \in Cmds \ {c} : cmd'[d] = cmd[d]
         /\ cmd[c].at = "new" /\ cmd'[c].at \in {"read", "queued"}
         /\ Alive(cmd'[c].to)
         /\ UNCHANGED <<procVars, file, disk, on, mgr, history>>
  <1>0. cmd \in CmdType /\ sock \in Procs \cup {None} /\ port \in Procs \cup {None}
    BY DEF TypeOK, CmdType
  <1>1. CASE Accept(c)
    <2> DEFINE r == [at |-> "queued", to |-> port, kind |-> "connection"]
    <2>1. /\ cmd' = [cmd EXCEPT ![c] = r] /\ port # None /\ cmd[c].at = "new"
          /\ UNCHANGED <<procVars, file, disk, on, mgr, history>>
      BY <1>1 DEF Accept, Fresh
    <2>2. r \in RequestType /\ r.at = "queued" /\ r.to = port
      BY <1>0, <2>1 DEF RequestType, Open
    <2>3. Alive(port)
      BY <1>0, <2>1 DEF PortServed, ServedUp
    <2> HIDE DEF r
    <2> QED
      BY <1>0, <2>1, <2>2, <2>3 DEF CmdType
  <1>2. ASSUME NEW k \in Kinds, Request(c, k)
        PROVE  /\ cmd' \in CmdType
               /\ \A d \in Cmds \ {c} : cmd'[d] = cmd[d]
               /\ cmd[c].at = "new" /\ cmd'[c].at \in {"read", "queued"}
               /\ Alive(cmd'[c].to)
               /\ UNCHANGED <<procVars, file, disk, on, mgr, history>>
    <2> DEFINE r == [at |-> "read", to |-> sock, kind |-> k]
    <2>1. /\ cmd' = [cmd EXCEPT ![c] = r] /\ sock # None /\ cmd[c].at = "new" /\ Alive(sock)
          /\ UNCHANGED <<procVars, file, disk, on, mgr, history>>
      BY <1>2 DEF Request, Fresh
    <2>2. r \in RequestType /\ r.at = "read" /\ r.to = sock
      BY <1>0, <2>1 DEF RequestType, InHand
    <2> HIDE DEF r
    <2> QED
      BY <1>0, <2>1, <2>2 DEF CmdType
  <1> QED
    BY <1>1, <1>2 DEF Arrives

LEMMA ProcessEffect ==
  ASSUME cmd \in CmdType, NEW p \in Procs, Process(p)
  PROVE  \/ cmd' = cmd
         \/ /\ Ends(p) /\ Alive(p)
            /\ cmd' \in CmdType
            /\ \A c \in Cmds : \/ cmd'[c].at = "done" /\ cmd[c].to = p
                               \/ cmd'[c] = cmd[c] /\ ~(cmd[c].at \in InHand \cup Open /\ cmd[c].to = p)
  <1>1. CASE Ends(p) /\ Alive(p)
    <2>1. [at |-> "done"] \in RequestType /\ [at |-> "done"].at = "done"
      BY DEF RequestType
    <2> DEFINE r == [at |-> "done"]
    <2>2. cmd' = [c \in Cmds |-> IF c \in Of(p) THEN r ELSE cmd[c]]
      BY <1>1 DEF Ends
    <2> HIDE DEF r
    <2> QED
      BY <1>1, <2>1, <2>2 DEF CmdType, Of, r
  <1>2. CASE Exit(p) \/ Crash(p)
    BY <1>1, <1>2 DEF Exit, Crash, Alive, Running
  <1>3. CASE ~(Exit(p) \/ Crash(p))
    BY <1>3 DEF Process, MainStep, Ping, LoadConfig, Boot, Stop, Unlink, Serve, Signal
  <1> QED
    BY <1>2, <1>3

-----------------------------------------------------------------------------
(* Type correctness.                                                       *)

ProcType ==
  /\ sock \in Procs \cup {None} /\ port \in Procs \cup {None}
  /\ pc \in [Procs -> {"new", "pinged", "loaded", "gone"} \cup Running]
  /\ mgr \in [Procs -> {"none", "idle", "adv"}]
  /\ file \in {"absent", "on", "off", "torn"} /\ disk \in {"absent", "on", "off", "torn"}
  /\ mute \subseteq Procs /\ burst \in [Procs -> 0..3]
ServedType == served \in [Procs -> BOOLEAN]
OnType == on \in [Procs -> BOOLEAN]
FlagType == raced \in BOOLEAN /\ word \in BOOLEAN /\ lost \in BOOLEAN

LEMMA TypeParts ==
  TypeOK <=> ProcType /\ ServedType /\ OnType /\ FlagType /\ cmd \in CmdType
  BY DEF TypeOK, ProcType, ServedType, OnType, FlagType, CmdType

LEMMA ClientFrame ==
  ASSUME NEW c \in Cmds, Client(c)
  PROVE  UNCHANGED <<procVars, disk, raced>>
  BY DEF Client, TaskStep, StatusRead, StatusCount, StatusAnswer, WatchLock, WatchReplayed, SetRead, SetLock, SetAdvertise,
         SetWrite, SetSaved, SetSaveFails, Acquire, TlsFails, Admit, SessionEnds, history

LEMMA ClientTo ==
  ASSUME cmd \in CmdType, NEW c \in Cmds, cmd[c].at \in InHand \cup Open
  PROVE  /\ cmd[c].to \in Procs
         /\ cmd[c].at \in InHand => cmd[c].kind \in Kinds
  <1>1. cmd[c] \in RequestType
    BY DEF CmdType
  <1>2. cmd[c] \in Busy \/ cmd[c] \in Connected
    BY <1>1, KindOf
  <1>3. cmd[c].at \in InHand => cmd[c] \in Busy
    BY <1>1, KindOf
  <1> QED
    BY <1>2, <1>3 DEF Busy, Connected

(* A request past its read is one of set_receiving.                        *)
Switches == {"lock", "advertising", "write", "saving"}
SwitchKind == \A c \in Cmds : cmd[c].at \in Switches => cmd[c].kind \in {"on", "off"}

LEMMA ClientKind ==
  ASSUME TypeOK, SwitchKind, NEW c \in Cmds, Client(c)
  PROVE  SwitchKind'
  <1>0. cmd \in CmdType
    BY TypeParts
  <1>1. /\ \A d \in Cmds \ {c} : cmd'[d] = cmd[d]
        /\ cmd'[c].at \in Switches => cmd'[c].kind = cmd[c].kind
    BY <1>0, ClientEffect DEF Switches
  <1>2. cmd[c].at \in Switches \/ cmd'[c].at \notin Switches \/ SetRead(c)
    <2>1. CASE StatusRead(c) \/ StatusCount(c) \/ WatchLock(c)
      <3>1. PICK step \in {"status", "counted", "replay"} :
              cmd[c].at \in InHand /\ Moved(c, step)
        BY <2>1 DEF StatusRead, StatusCount, WatchLock, To, Moved, InHand
      <3>2. step \in InHand /\ step \notin Switches
        BY DEF InHand, Switches
      <3> QED
        BY <1>0, <3>1, <3>2, BusyEffect DEF CmdType
    <2>2. CASE Acquire(c) \/ Admit(c)
      <3>1. cmd[c].at \in Open
        BY <2>2 DEF Acquire, Admit, Open
      <3>2. Ended(c) \/ Moved(c, "tls") \/ Moved(c, "session")
        BY <2>2 DEF Acquire, Admit, Ended, Moved
      <3>3. "tls" \in Open /\ "session" \in Open
        BY DEF Open
      <3>4. cmd'[c].at \in {"done", "tls", "session"}
        BY <1>0, <3>1, <3>2, <3>3, ConnectedEffect, EndedEffect DEF CmdType
      <3> QED
        BY <3>4 DEF Switches
    <2>3. CASE StatusAnswer(c) \/ WatchReplayed(c) \/ TlsFails(c) \/ SessionEnds(c)
      <3>1. Ended(c)
        BY <2>3 DEF StatusAnswer, WatchReplayed, TlsFails, SessionEnds, Ended
      <3> QED
        BY <1>0, <3>1, EndedEffect DEF Switches, CmdType
    <2>4. CASE SetLock(c) \/ SetAdvertise(c) \/ SetWrite(c) \/ SetSaved(c) \/ SetSaveFails(c)
      BY <2>4 DEF SetLock, SetAdvertise, SetWrite, SetSaved, SetSaveFails, Switches
    <2> QED
      BY <2>1, <2>2, <2>3, <2>4 DEF Client, TaskStep
  <1>3. SetRead(c) => cmd[c].kind \in {"on", "off"}
    BY DEF SetRead
  <1> QED
    BY <1>1, <1>2, <1>3 DEF SwitchKind

LEMMA ClientType ==
  ASSUME TypeOK, SwitchKind, NEW c \in Cmds, Client(c)
  PROVE  TypeOK'
  <1>0. ProcType /\ ServedType /\ OnType /\ FlagType /\ cmd \in CmdType
    BY TypeParts
  <1>1. /\ cmd' \in CmdType /\ cmd[c].at \in InHand \cup Open /\ cmd[c].to \in Procs
        /\ UNCHANGED <<procVars, disk, raced>>
    BY <1>0, ClientEffect, ClientTo, ClientFrame
  <1>2. mgr' \in [Procs -> {"none", "idle", "adv"}]
    BY <1>0, <1>1
    DEF Client, TaskStep, StatusRead, StatusCount, StatusAnswer, WatchLock, WatchReplayed, SetRead, SetLock, SetAdvertise,
        SetWrite, SetSaved, SetSaveFails, Acquire, TlsFails, Admit, SessionEnds, ProcType,
        StartAdvertising, StopAdvertising
  <1>3. mute' \subseteq Procs
    BY <1>0, <1>1
    DEF Client, TaskStep, StatusRead, StatusCount, StatusAnswer, WatchLock, WatchReplayed, SetRead, SetLock, SetAdvertise,
        SetWrite, SetSaved, SetSaveFails, Acquire, TlsFails, Admit, SessionEnds, ProcType,
        history
  <1>4. burst' \in [Procs -> 0..3]
    <2>1. CASE SetRead(c)
      <3>1. \/ burst' = burst
            \/ \E b \in 0..3 : burst' = [burst EXCEPT ![cmd[c].to] = b]
        <4>1. burst[cmd[c].to] \in 0..3
          BY <1>0, <1>1 DEF ProcType
        <4>2. burst[cmd[c].to] # 3 => burst[cmd[c].to] + 1 \in 0..3
          BY <4>1, SMTT(30)
        <4> QED
          BY <2>1, <4>1, <4>2, SMTT(30) DEF SetRead
      <3> QED
        BY <1>0, <1>1, <3>1 DEF ProcType
    <2>2. CASE ~SetRead(c)
      BY <1>0, <2>2
      DEF Client, TaskStep, StatusRead, StatusCount, StatusAnswer, WatchLock, WatchReplayed, SetLock, SetAdvertise,
          SetWrite, SetSaved, SetSaveFails, Acquire, TlsFails, Admit, SessionEnds, ProcType,
          history
    <2> QED
      BY <2>1, <2>2
  <1>5. file' \in {"absent", "on", "off", "torn"}
    <2>1. CASE SetSaved(c)
      <3>1. cmd[c].kind \in {"on", "off"} /\ file' = cmd[c].kind
        BY <2>1 DEF SetSaved, SwitchKind, Switches
      <3> QED
        BY <3>1
    <2>2. CASE ~SetSaved(c)
      BY <1>0, <2>2
      DEF Client, TaskStep, StatusRead, StatusCount, StatusAnswer, WatchLock, WatchReplayed, SetRead, SetLock, SetAdvertise,
          SetWrite, SetSaveFails, Acquire, TlsFails, Admit, SessionEnds, ProcType
    <2> QED
      BY <2>1, <2>2
  <1>6. OnType'
    <2>1. CASE SetWrite(c)
      <3>1. PICK b \in BOOLEAN : on' = [on EXCEPT ![cmd[c].to] = b]
        BY <2>1 DEF SetWrite
      <3> QED
        BY <1>0, <1>1, <3>1 DEF OnType
    <2>2. CASE ~SetWrite(c)
      BY <1>0, <2>2
      DEF Client, TaskStep, StatusRead, StatusCount, StatusAnswer, WatchLock, WatchReplayed, SetRead, SetLock, SetAdvertise,
          SetSaved, SetSaveFails, Acquire, TlsFails, Admit, SessionEnds, OnType
    <2> QED
      BY <2>1, <2>2
  <1>7. FlagType'
    <2>1. lost' \in BOOLEAN
      BY <1>0
      DEF Client, TaskStep, StatusRead, StatusCount, StatusAnswer, WatchLock, WatchReplayed, SetRead, SetLock, SetAdvertise,
          SetWrite, SetSaved, SetSaveFails, Acquire, TlsFails, Admit, SessionEnds, FlagType,
          history
    <2>2. word' \in BOOLEAN
      BY <1>0
      DEF Client, TaskStep, StatusRead, StatusCount, StatusAnswer, WatchLock, WatchReplayed, SetRead, SetLock, SetAdvertise,
          SetWrite, SetSaved, SetSaveFails, Acquire, TlsFails, Admit, SessionEnds, FlagType,
          history
    <2> QED
      BY <1>0, <1>1, <2>1, <2>2 DEF FlagType
  <1>8. ServedType' /\ ProcType'
    BY <1>0, <1>1, <1>2, <1>3, <1>4, <1>5 DEF procVars, ServedType, ProcType
  <1> QED
    BY <1>1, <1>6, <1>7, <1>8
    DEF TypeOK, ProcType, ServedType, OnType, FlagType, CmdType

LEMMA ProcessType ==
  ASSUME TypeOK, NEW p \in Procs, Process(p)
  PROVE  TypeOK'
  <1>0. ProcType /\ ServedType /\ OnType /\ FlagType /\ cmd \in CmdType
    BY TypeParts
  <1>1. cmd' \in CmdType
    BY <1>0, ProcessEffect
  <1>2. /\ sock' \in Procs \cup {None} /\ port' \in Procs \cup {None}
        /\ file' \in {"absent", "on", "off", "torn"} /\ mute' \subseteq Procs
        /\ disk' = disk
    BY <1>0, SMTT(30)
    DEF Process, MainStep, Ping, LoadConfig, Boot, Stop, Unlink, Exit, Serve, Signal, Crash, Ends,
        Bound, ProcType, history
  <1>3. pc' \in [Procs -> {"new", "pinged", "loaded", "gone"} \cup Running]
    BY <1>0
    DEF Process, MainStep, Ping, LoadConfig, Boot, Stop, Unlink, Exit, Serve, Signal, Crash, Ends,
        ProcType, Running
  <1>4. mgr' \in [Procs -> {"none", "idle", "adv"}] /\ burst' \in [Procs -> 0..3]
    <2>1. CASE Boot(p)
      <3>1. PICK m \in {"none", "idle", "adv"} : mgr' = [mgr EXCEPT ![p] = m]
        BY <2>1 DEF Boot, StartAdvertising
      <3> QED
        BY <1>0, <2>1, <3>1 DEF Boot, ProcType
    <2>2. CASE ~Boot(p)
      BY <1>0, <2>2, SMTT(30)
      DEF Process, MainStep, Ping, LoadConfig, Stop, Unlink, Exit, Serve, Signal, Crash, Ends,
          ProcType, history
    <2> QED
      BY <2>1, <2>2
  <1>5. ServedType'
    BY <1>0
    DEF Process, MainStep, Ping, LoadConfig, Boot, Stop, Unlink, Exit, Serve, Signal, Crash, Ends,
        ServedType
  <1>6. OnType'
    <2>1. on' = on \/ \E b \in BOOLEAN : on' = [on EXCEPT ![p] = b]
      BY DEF Process, MainStep, Ping, LoadConfig, Boot, Stop, Unlink, Exit, Serve, Signal, Crash, Ends
    <2> QED
      BY <1>0, <2>1 DEF OnType
  <1>7. FlagType'
    <2>1. word' = word
      BY DEF Process, MainStep, Ping, LoadConfig, Boot, Stop, Unlink, Exit, Serve, Signal, Crash, Ends,
             history
    <2>2. raced' \in BOOLEAN
      BY <1>0
      DEF Process, MainStep, Ping, LoadConfig, Boot, Stop, Unlink, Exit, Serve, Signal, Crash, Ends,
          history, FlagType
    <2>3. lost' \in BOOLEAN
      BY <1>0
      DEF Process, MainStep, Ping, LoadConfig, Boot, Stop, Unlink, Exit, Serve, Signal, Crash, Ends,
          history, FlagType
    <2> QED
      BY <1>0, <2>1, <2>2, <2>3 DEF FlagType
  <1> QED
    BY <1>1, <1>2, <1>3, <1>4, <1>5, <1>6, <1>7
    DEF TypeOK, ProcType, ServedType, OnType, FlagType, CmdType

-----------------------------------------------------------------------------
(* One daemon.                                                             *)

LEMMA DaemonNext ==
  ASSUME TypeOK, DaemonInv, NEW p \in Procs, Process(p)
  PROVE  DaemonInv'
  <1>0. ProcType /\ ServedType /\ None \notin Procs
    BY TypeParts, ReceivingAssumption, SMTT(30) DEF None, Procs
  <1> USE DEF DaemonInv
  <1>1. CASE Ping(p)
    <2>1. /\ pc[p] = "new" /\ pc'[p] \in {"pinged", "gone"}
          /\ \A q \in Procs \ {p} : pc'[q] = pc[q]
          /\ UNCHANGED <<sock, port, served>>
      BY <1>0, <1>1 DEF Ping, Startable, ProcType
    <2>1a. /\ raced => raced'
           /\ ~raced' => pc'[p] = "gone" \/ (Unreachable = {} /\ ~(sock # None /\ Alive(sock)))
      <3>1. CASE pc' = [pc EXCEPT ![p] = "gone"] /\ raced' = raced
        BY <1>0, <3>1 DEF ProcType
      <3>2. CASE raced' = TRUE
        BY <3>2
      <3>3. CASE raced' = (raced \/ Unreachable # {}) /\ ~(sock # None /\ Alive(sock))
        BY <3>3
      <3> QED
        BY <1>1, <3>1, <3>2, <3>3 DEF Ping
    <2>2. Apart'
      <3> SUFFICES ASSUME ~raced', NEW q \in Procs, NEW r \in Procs, Active(q)', Active(r)'
                   PROVE  q = r
        BY DEF Apart
      <3>1. CASE pc'[p] = "gone"
        BY <2>1, <2>1a, <3>1 DEF Apart, Active
      <3>2. CASE Unreachable = {} /\ ~(sock # None /\ Alive(sock))
        (* Whoever else is active has served and is not about to end, so   *)
        (* the socket leads to it and it would have answered.              *)
        <4>1. ASSUME NEW t \in Procs, Active(t) PROVE FALSE
          <5>1. Alive(t) /\ served[t] /\ pc[t] # "ending"
            <6>1. pc[t] \in {"new", "pinged", "loaded", "gone"} \cup Running
              BY <1>0 DEF ProcType
            <6>2. pc[t] \notin {"pinged", "loaded", "ending"} /\ (Alive(t) => served[t])
              BY <3>2 DEF Unreachable
            <6> QED
              BY <4>1, <6>1, <6>2 DEF Active, Alive
          <5>2. sock = t
            BY <2>1a, <5>1 DEF Reached
          <5> QED
            BY <1>0, <3>2, <5>1, <5>2
        <4> QED
          BY <2>1, <4>1 DEF Active
      <3> QED
        BY <2>1a, <3>1, <3>2
    <2>3. ServedUp' /\ PortServed'
      BY <1>0, <2>1 DEF ServedUp, PortServed, Alive, Running
    <2>4. Reached'
      <3>1. ~served[p]
        BY <2>1 DEF ServedUp, Alive, Running
      <3> QED
        BY <2>1, <2>1a, <3>1 DEF Reached
    <2> QED
      BY <2>2, <2>3, <2>4
  <1>2. CASE LoadConfig(p) \/ Boot(p) \/ Signal(p) \/ Stop(p)
    <2>1. /\ Active(p) /\ Active(p)'
          /\ Alive(p) => Alive(p)' /\ pc[p] # "ending"
          /\ \A q \in Procs \ {p} : pc'[q] = pc[q]
          /\ UNCHANGED <<sock, port, served, raced>>
      BY <1>0, <1>2 DEF LoadConfig, Boot, Signal, Stop, Active, Alive, Running, ProcType, history
    <2>2. Apart'
      BY <2>1 DEF Apart, Active
    <2>3. ServedUp' /\ PortServed' /\ Reached'
      BY <2>1 DEF ServedUp, PortServed, Reached, Alive
    <2> QED
      BY <2>2, <2>3
  <1>3. CASE Serve(p)
    <2>1. /\ Alive(p) /\ ~served[p] /\ served'[p]
          /\ \A q \in Procs \ {p} : served'[q] = served[q]
          /\ sock' = p /\ port' = IF port = None THEN p ELSE port
          /\ UNCHANGED <<pc, raced>>
      BY <1>0, <1>3 DEF Serve, Bound, ServedType, history
    <2>2. Apart' /\ ServedUp' /\ PortServed'
      BY <1>0, <2>1 DEF Apart, Active, ServedUp, PortServed, Alive, ProcType
    <2>3. Reached'
      <3> SUFFICES ASSUME ~raced PROVE \A q \in Procs : served'[q] => port' = q /\ sock' = q
        BY <2>1 DEF Reached
      <3>1. \A q \in Procs \ {p} : ~served[q]
        BY <2>1 DEF ServedUp, Apart, Active, Alive, Running
      <3>2. port = None
        BY <1>0, <2>1, <3>1 DEF PortServed, ProcType
      <3> QED
        BY <2>1, <3>1, <3>2
    <2> QED
      BY <2>2, <2>3
  <1>3a. CASE Unlink(p)
    <2>1. /\ Alive(p) /\ pc'[p] = "ending"
          /\ \A q \in Procs \ {p} : pc'[q] = pc[q]
          /\ UNCHANGED <<port, served, raced>>
      BY <1>0, <1>3a DEF Unlink, Alive, Running, ProcType, history
    <2>2. Apart'
      BY <2>1 DEF Apart, Active, Alive, Running
    <2>3. ServedUp' /\ PortServed'
      BY <2>1 DEF ServedUp, PortServed, Alive, Running
    <2>4. Reached'
      <3>1. ~raced => \A q \in Procs \ {p} : ~served[q]
        BY <2>1 DEF ServedUp, Apart, Active, Alive, Running
      <3> QED
        BY <2>1, <3>1 DEF Reached
    <2> QED
      BY <2>2, <2>3, <2>4
  <1>4. CASE Exit(p) \/ Crash(p)
    <2>1. /\ Alive(p) /\ pc'[p] = "gone" /\ ~served'[p]
          /\ \A q \in Procs \ {p} : pc'[q] = pc[q] /\ served'[q] = served[q]
          /\ port' = IF port = p THEN None ELSE port
          /\ raced' = raced
      BY <1>0, <1>4 DEF Exit, Crash, Ends, Alive, Running, ProcType, ServedType
    <2>2. Apart'
      BY <2>1 DEF Apart, Active
    <2>3. ServedUp'
      BY <2>1 DEF ServedUp, Alive
    <2>4. PortServed'
      BY <1>0, <2>1 DEF PortServed, ProcType
    <2>5. Reached'
      <3>1. ~raced => \A q \in Procs \ {p} : ~served[q]
        BY <2>1 DEF ServedUp, Apart, Active, Alive, Running
      <3> QED
        BY <2>1, <3>1 DEF Reached
    <2> QED
      BY <2>2, <2>3, <2>4, <2>5
  <1> QED
    BY <1>1, <1>2, <1>3, <1>3a, <1>4 DEF Process, MainStep

(* A power cut ends every process and every request.                       *)
LEMMA PowerEffect ==
  ASSUME TypeOK, PowerCut
  PROVE  /\ \A p \in Procs : pc'[p] \in {"new", "gone"} /\ ~served'[p]
         /\ \A c \in Cmds : cmd'[c].at \in {"new", "done"}
         /\ cmd' \in CmdType /\ port' = None
  <1>0. cmd \in CmdType
    BY TypeParts
  <1>1. \A p \in Procs : pc'[p] \in {"new", "gone"} /\ ~served'[p]
    BY DEF PowerCut
  <1> DEFINE r == [at |-> "done"]
  <1>2. cmd' = [c \in Cmds |-> IF cmd[c].at = "new" THEN cmd[c] ELSE r]
    BY DEF PowerCut
  <1>3. r \in RequestType /\ r.at = "done"
    BY DEF RequestType
  <1> HIDE DEF r
  <1> QED
    BY <1>0, <1>1, <1>2, <1>3 DEF CmdType, PowerCut

(* What everything rests on.                                               *)
BaseInv == TypeOK /\ SwitchKind /\ DaemonInv

LEMMA BaseNext == BaseInv /\ [Next]_vars => BaseInv'
  <1> SUFFICES ASSUME BaseInv, [Next]_vars PROVE BaseInv'
    OBVIOUS
  <1> USE DEF BaseInv
  <1>0. ProcType /\ ServedType /\ OnType /\ FlagType /\ cmd \in CmdType
    BY TypeParts
  <1>2. ASSUME NEW c \in Cmds, Client(c) PROVE BaseInv'
    <2>1. DaemonInv'
      BY <1>2, ClientFrame DEF procVars, DaemonInv, Apart, Active, ServedUp, PortServed,
                               Reached, Alive
    <2> QED
      BY <1>2, <2>1, ClientType, ClientKind
  <1>3. ASSUME NEW c \in Cmds, Arrives(c) PROVE BaseInv'
    <2>1. /\ cmd' \in CmdType /\ UNCHANGED <<procVars, file, disk, on, mgr, history>>
          /\ \A d \in Cmds \ {c} : cmd'[d] = cmd[d]
      BY <1>3, ArrivesEffect DEF DaemonInv
    <2>2. cmd'[c].at \notin Switches
      <3>1. cmd'[c].at \in {"read", "queued"}
        BY <1>0, <1>3, SMTT(30) DEF Arrives, Accept, Request, CmdType
      <3> QED
        BY <3>1 DEF Switches
    <2>3. SwitchKind'
      BY <2>1, <2>2 DEF SwitchKind
    <2>4. DaemonInv'
      BY <2>1 DEF procVars, history, DaemonInv, Apart, Active, ServedUp, PortServed,
                  Reached, Alive
    <2>5. TypeOK'
      BY <1>0, <2>1 DEF procVars, history, TypeOK, CmdType
    <2> QED
      BY <2>3, <2>4, <2>5
  <1>4. ASSUME NEW p \in Procs, Process(p) PROVE BaseInv'
    <2>1. SwitchKind'
      BY <1>0, <1>4, ProcessEffect DEF SwitchKind, Switches
    <2> QED
      BY <1>4, <2>1, ProcessType, DaemonNext
  <1>6. CASE Writeback
    BY <1>6
    DEF Writeback, procVars, history, TypeOK, SwitchKind, DaemonInv, Apart, Active, ServedUp,
        PortServed, Reached, Alive
  <1>7. CASE PowerCut
    <2>1. SwitchKind'
      BY <1>7, PowerEffect DEF SwitchKind, Switches
    <2>2. DaemonInv'
      BY <1>7, PowerEffect DEF DaemonInv, Apart, Active, ServedUp, PortServed, Reached
    <2>3. ProcType'
      <3>1. pc' \in [Procs -> {"new", "pinged", "loaded", "gone"} \cup Running]
        BY <1>7 DEF PowerCut
      <3>2. /\ sock' = sock /\ port' = None /\ mute' = {}
            /\ file' \in {"absent", "on", "off", "torn"} /\ disk' = file'
        BY <1>0, <1>7 DEF PowerCut, ProcType
      <3>3. mgr' \in [Procs -> {"none", "idle", "adv"}]
        BY <1>7 DEF PowerCut
      <3>4. burst' \in [Procs -> 0..3]
        BY <1>7, SMTT(30) DEF PowerCut
      <3> QED
        BY <1>0, <3>1, <3>2, <3>3, <3>4 DEF ProcType
    <2>4. ServedType' /\ OnType'
      BY <1>7 DEF PowerCut, ServedType, OnType
    <2>5. FlagType'
      BY <1>0, <1>7 DEF PowerCut, FlagType
    <2>6. cmd' \in CmdType
      BY <1>7, PowerEffect
    <2>7. TypeOK'
      BY <2>3, <2>4, <2>5, <2>6 DEF TypeOK, ProcType, ServedType, OnType, FlagType, CmdType
    <2> QED
      BY <2>1, <2>2, <2>7
  <1>5. CASE UNCHANGED vars
    BY <1>5
    DEF vars, TypeOK, SwitchKind, DaemonInv, Apart, Active, ServedUp, PortServed, Reached,
        Alive
  <1> QED
    BY <1>2, <1>3, <1>4, <1>5, <1>6, <1>7, NextIs

LEMMA BaseInit == Init => BaseInv
  <1> SUFFICES ASSUME Init PROVE BaseInv
    OBVIOUS
  <1>1. ProcType /\ ServedType /\ OnType
    BY ReceivingAssumption, SMTT(30) DEF Init, ProcType, ServedType, OnType
  <1>2. FlagType
    BY DEF Init, FlagType
  <1>3. cmd \in CmdType
    BY DEF Init, CmdType, RequestType
  <1>4. SwitchKind
    BY DEF Init, SwitchKind, Switches
  <1>5. DaemonInv
    BY DEF Init, DaemonInv, Apart, Active, ServedUp, PortServed, Reached
  <1> QED
    BY <1>1, <1>2, <1>3, <1>4, <1>5, TypeParts DEF BaseInv

(* The variables stay in their types (TypeOK), and a request past its read *)
(* is one of set_receiving.                                                *)
THEOREM TypeCorrect == Spec => []TypeOK
  <1>1. BaseInv => TypeOK
    BY DEF BaseInv
  <1> QED
    BY <1>1, BaseInit, BaseNext, PTL DEF Spec

(* Unless a start went past a process it could not reach, one process      *)
(* runs, and it is the one the socket and the port lead to, until it       *)
(* removes the path itself (OneDaemon).                                    *)
THEOREM OneDaemonRuns == Spec => []OneDaemon
  <1>1. BaseInv => OneDaemon
    BY DEF BaseInv, DaemonInv, Apart, Active, Reached, OneDaemon, Alive, Running
  <1> QED
    BY <1>1, BaseInit, BaseNext, PTL DEF Spec

-----------------------------------------------------------------------------
(* The switch.                                                             *)

Loaded(p) == pc[p] \in {"loaded"} \cup Running

(* A step that saves nothing, loads nothing and changes no switch.         *)
LEMMA SwitchFrame ==
  ASSUME SwitchInv, UNCHANGED <<file, on, word, lost>>, raced => raced', ToAlive',
         \A c \in Cmds : (cmd'[c].at = "saving") <=> (cmd[c].at = "saving"),
         \A c \in Cmds : cmd[c].at = "saving" => cmd'[c].to = cmd[c].to /\ cmd'[c].kind = cmd[c].kind,
         \A p \in Procs : Loaded(p)' => Loaded(p)
  PROVE  SwitchInv'
  <1>1. \A p \in Procs, c \in Cmds : Saves(c, p)' <=> Saves(c, p)
    BY DEF Saves
  <1>2. OneSaver'
    BY <1>1 DEF SwitchInv, OneSaver
  <1>3. SavingOn'
    BY <1>1, SMTT(30) DEF SwitchInv, SavingOn, Saves
  <1>4. FileIsWord'
    BY DEF SwitchInv, FileIsWord, Clean
  <1>5. LoadedIsWord'
    BY <1>1 DEF SwitchInv, LoadedIsWord, Clean, Loaded
  <1> QED
    BY <1>2, <1>3, <1>4, <1>5 DEF SwitchInv

LEMMA ClientSwitch ==
  ASSUME BaseInv, SwitchInv, NEW c \in Cmds, Client(c)
  PROVE  SwitchInv'
  <1> DEFINE p == cmd[c].to
  <1>0. /\ ProcType /\ ServedType /\ OnType /\ FlagType /\ cmd \in CmdType
        /\ TypeOK /\ Apart
    BY TypeParts DEF BaseInv, DaemonInv
  <1>1. /\ \A d \in Cmds \ {c} : cmd'[d] = cmd[d]
        /\ cmd[c].at \in InHand \cup Open
        /\ \/ cmd'[c].at = "done"
           \/ /\ cmd'[c].at \in InHand \cup Open
              /\ cmd'[c].to = cmd[c].to /\ cmd'[c].kind = cmd[c].kind
        /\ cmd'[c].at = "saving" => SetWrite(c)
        /\ cmd[c].at = "saving" => SetSaved(c) \/ SetSaveFails(c)
    BY <1>0, ClientEffect
  <1>2. p \in Procs /\ Alive(p) /\ UNCHANGED <<pc, raced>>
    BY <1>0, <1>1, ClientTo, ClientFrame DEF SwitchInv, ToAlive, procVars
  <1>3. ToAlive'
    <2> SUFFICES ASSUME NEW d \in Cmds, cmd'[d].at \in InHand \cup Open
                 PROVE  pc'[cmd'[d].to] \in Running
      BY DEF ToAlive, Alive
    <2>1. CASE d = c
      <3>1. cmd'[c].to = p
        BY <1>1, <2>1 DEF InHand, Open
      <3> QED
        BY <1>2, <2>1, <3>1 DEF Alive
    <2>2. CASE d # c
      BY <1>1, <1>2, <2>2 DEF SwitchInv, ToAlive, Alive
    <2> QED
      BY <2>1, <2>2
  <1>4. ~raced => \A q \in Procs : Loaded(q) => q = p
    BY <1>0, <1>2 DEF Apart, Active, Loaded, Alive, Running
  <1>5. CASE SetWrite(c)
    <2>1. /\ cmd[c].at = "write" /\ cmd'[c].at = "saving" /\ cmd'[c].to = p
          /\ cmd'[c].kind = cmd[c].kind /\ UNCHANGED <<word, lost>>
      <3>1. cmd[c].at \in InHand /\ Moved(c, "saving") /\ "saving" \in InHand
        BY <1>5 DEF SetWrite, To, Moved, InHand
      <3> QED
        BY <1>0, <1>5, <3>1, BusyEffect DEF SetWrite, CmdType
    <2>2. \A d \in Cmds : ~Saves(d, p)
      BY <1>5 DEF SetWrite, Writable, At, Of, InHand, Saves
    <2>3. on'[p] = (cmd[c].kind = "on") /\ \A q \in Procs \ {p} : on'[q] = on[q]
      BY <1>0, <1>2, <1>5 DEF SetWrite, OnType
    <2>4. /\ \A q \in Procs, d \in Cmds : d # c => (Saves(d, q)' <=> Saves(d, q))
          /\ \A q \in Procs : Saves(c, q)' <=> q = p
      BY <1>1, <2>1 DEF Saves
    <2>5. OneSaver'
      BY <2>2, <2>4, SMTT(30) DEF SwitchInv, OneSaver
    <2>6. SavingOn'
      <3> SUFFICES ASSUME NEW q \in Procs, NEW d \in Cmds, Saves(d, q)'
                   PROVE  on'[q] = (cmd'[d].kind = "on")
        BY DEF SavingOn
      <3>1. CASE d = c
        BY <2>1, <2>3, <2>4, <3>1
      <3>2. CASE d # c
        <4>1. Saves(d, q) /\ q # p /\ cmd'[d] = cmd[d]
          BY <1>1, <2>2, <2>4, <3>2
        <4>2. on[q] = (cmd[d].kind = "on")
          BY <4>1 DEF SwitchInv, SavingOn
        <4> QED
          BY <2>3, <4>1, <4>2
      <3> QED
        BY <3>1, <3>2
    <2>7. FileIsWord'
      BY <2>1 DEF FileIsWord
    <2>8. LoadedIsWord'
      <3> SUFFICES ASSUME Clean', NEW q \in Procs, Loaded(q)', \A d \in Cmds : ~Saves(d, q)'
                   PROVE  on'[q] = word'
        BY DEF LoadedIsWord, Loaded
      <3>1. q = p
        BY <1>2, <1>4 DEF Clean, Loaded
      <3> QED
        BY <2>4, <3>1
    <2> QED
      BY <1>3, <2>5, <2>6, <2>7, <2>8 DEF SwitchInv
  <1>6. CASE SetSaved(c)
    <2>1. /\ cmd[c].at = "saving" /\ cmd'[c].at = "done" /\ file' = cmd[c].kind
          /\ word' = (cmd[c].kind = "on") /\ on' = on
      <3>1. Ended(c)
        BY <1>6 DEF SetSaved, Ended
      <3> QED
        BY <1>0, <1>6, <3>1, EndedEffect DEF SetSaved, CmdType
    <2>2. on[p] = (cmd[c].kind = "on")
      BY <1>2, <2>1 DEF SwitchInv, SavingOn, Saves
    <2>3. \A q \in Procs, d \in Cmds : Saves(d, q)' => Saves(d, q) /\ cmd'[d] = cmd[d]
      BY <1>1, <2>1 DEF Saves
    <2>4. OneSaver' /\ SavingOn'
      BY <2>1, <2>3, SMTT(30) DEF SwitchInv, OneSaver, SavingOn
    <2>5. FileIsWord'
      BY <2>1 DEF FileIsWord
    <2>6. LoadedIsWord'
      BY <1>2, <1>4, <2>1, <2>2 DEF LoadedIsWord, Clean, Loaded
    <2> QED
      BY <1>3, <2>4, <2>5, <2>6 DEF SwitchInv
  <1>7. CASE SetSaveFails(c)
    <2>1. /\ cmd'[c].at = "done" /\ lost' /\ on' = on
      <3>1. Ended(c)
        BY <1>7 DEF SetSaveFails, Ended
      <3> QED
        BY <1>0, <1>7, <3>1, EndedEffect DEF SetSaveFails, CmdType
    <2>2. \A q \in Procs, d \in Cmds : Saves(d, q)' => Saves(d, q) /\ cmd'[d] = cmd[d]
      BY <1>1, <2>1 DEF Saves
    <2>3. OneSaver' /\ SavingOn'
      BY <2>1, <2>2, SMTT(30) DEF SwitchInv, OneSaver, SavingOn
    <2>4. FileIsWord' /\ LoadedIsWord'
      BY <2>1 DEF FileIsWord, LoadedIsWord, Clean
    <2> QED
      BY <1>3, <2>3, <2>4 DEF SwitchInv
  <1>8. CASE ~SetWrite(c) /\ ~SetSaved(c) /\ ~SetSaveFails(c)
    <2>1. cmd[c].at # "saving" /\ cmd'[c].at # "saving"
      BY <1>1, <1>8
    <2>2. /\ \A d \in Cmds : (cmd'[d].at = "saving") <=> (cmd[d].at = "saving")
          /\ \A d \in Cmds : cmd[d].at = "saving" => cmd'[d] = cmd[d]
      BY <1>1, <2>1
    <2>3. UNCHANGED <<file, on, lost>>
      BY <1>8
      DEF Client, TaskStep, StatusRead, StatusCount, StatusAnswer, WatchLock, WatchReplayed, SetRead, SetLock, SetAdvertise,
          Acquire, TlsFails, Admit, SessionEnds, history
    <2>4. CASE word' = word
      BY <1>2, <1>3, <2>2, <2>3, <2>4, SwitchFrame DEF Loaded
    <2>5. CASE word' # word
      <3>1. /\ word' = (cmd[c].kind = "on") /\ on[p] = (cmd[c].kind = "on")
            /\ \A d \in Cmds : ~Saves(d, p)
        <4>1. SetRead(c)
          BY <1>8, <2>5
          DEF Client, TaskStep, StatusRead, StatusCount, StatusAnswer, WatchLock, WatchReplayed, SetLock, SetAdvertise,
              Acquire, TlsFails, Admit, SessionEnds, history
        <4>2. word' = (cmd[c].kind = "on") /\ on[p] = (cmd[c].kind = "on") /\ Readable(p)
          BY <2>5, <4>1 DEF SetRead
        <4> QED
          BY <4>2 DEF Readable, At, Of, InHand, Saves
      <3>2. ~Clean
        BY <1>2, <2>5, <3>1 DEF SwitchInv, LoadedIsWord, Alive
      <3>3. ~Clean'
        BY <1>2, <2>3, <3>2 DEF Clean
      <3>4. \A q \in Procs, d \in Cmds : Saves(d, q)' => Saves(d, q) /\ cmd'[d] = cmd[d]
        BY <2>2 DEF Saves
      <3>5. OneSaver' /\ SavingOn'
        BY <2>3, <3>4, SMTT(30) DEF SwitchInv, OneSaver, SavingOn
      <3> QED
        BY <1>3, <3>3, <3>5 DEF SwitchInv, FileIsWord, LoadedIsWord
    <2> QED
      BY <2>4, <2>5
  <1> QED
    BY <1>5, <1>6, <1>7, <1>8

LEMMA ProcessSwitch ==
  ASSUME BaseInv, SwitchInv, NEW p \in Procs, Process(p)
  PROVE  SwitchInv'
  <1>0. /\ ProcType /\ ServedType /\ OnType /\ FlagType /\ cmd \in CmdType
        /\ TypeOK /\ Apart
    BY TypeParts DEF BaseInv, DaemonInv
  <1>1. CASE Ping(p)
    <2>1. /\ UNCHANGED <<file, on, word, lost, cmd>> /\ pc[p] = "new"
          /\ pc'[p] \in {"pinged", "gone"} /\ \A q \in Procs \ {p} : pc'[q] = pc[q]
      BY <1>0, <1>1 DEF Ping, Startable, ProcType
    <2>2. raced => raced'
      BY <1>1 DEF Ping
    <2>3. ToAlive'
      BY <1>0, <2>1, ClientTo DEF SwitchInv, ToAlive, Alive, Running
    <2>4. \A q \in Procs : Loaded(q)' => Loaded(q)
      BY <2>1 DEF Loaded, Running
    <2> QED
      BY <2>1, <2>2, <2>3, <2>4, SwitchFrame
  <1>2. CASE Boot(p) \/ Serve(p) \/ Signal(p) \/ Stop(p) \/ Unlink(p)
    <2>1. /\ UNCHANGED <<file, on, word, lost, cmd, raced>>
          /\ Loaded(p) /\ (Alive(p) => pc'[p] \in Running)
          /\ \A q \in Procs \ {p} : pc'[q] = pc[q]
      BY <1>0, <1>2 DEF Boot, Serve, Signal, Stop, Unlink, Loaded, Alive, Running, ProcType, history
    <2>2. ToAlive'
      BY <1>0, <2>1, ClientTo DEF SwitchInv, ToAlive, Alive
    <2>3. \A q \in Procs : Loaded(q)' => Loaded(q)
      BY <2>1 DEF Loaded
    <2> QED
      BY <2>1, <2>2, <2>3, SwitchFrame
  <1>3. CASE LoadConfig(p)
    <2>1. /\ UNCHANGED <<word, lost, cmd, raced>> /\ pc[p] = "pinged"
          /\ \A q \in Procs \ {p} : pc'[q] = pc[q] /\ on'[q] = on[q]
          /\ on'[p] = (file = "on")
      BY <1>0, <1>3 DEF LoadConfig, ProcType, OnType, history
    <2>2. file' = "on" <=> file = "on"
      BY <1>3 DEF LoadConfig
    <2>3. ToAlive'
      BY <1>0, <2>1, ClientTo DEF SwitchInv, ToAlive, Alive, Running
    <2>4. \A c \in Cmds : ~Saves(c, p)
      BY <1>0, <2>1 DEF SwitchInv, ToAlive, Saves, Alive, Running, InHand
    <2>5. OneSaver'
      BY <2>1 DEF SwitchInv, OneSaver, Saves
    <2>6. SavingOn'
      BY <2>1, <2>4 DEF SwitchInv, SavingOn, Saves
    <2>7. FileIsWord'
      BY <2>1, <2>2 DEF SwitchInv, FileIsWord, Clean
    <2>8. LoadedIsWord'
      <3> SUFFICES ASSUME Clean', NEW q \in Procs, Loaded(q)', \A d \in Cmds : ~Saves(d, q)'
                   PROVE  on'[q] = word'
        BY DEF LoadedIsWord, Loaded
      <3>1. Clean
        BY <2>1 DEF Clean
      <3>2. \A r \in Procs : Active(r) => r = p
        BY <1>0, <2>1, <3>1 DEF Apart, Active, Clean
      <3>3. q = p
        BY <2>1, <3>2 DEF Loaded, Active, Running
      <3>4. \A c \in Cmds : cmd[c].at # "saving"
        <4> SUFFICES ASSUME NEW c \in Cmds, cmd[c].at = "saving" PROVE FALSE
          OBVIOUS
        <4>1. cmd[c].at \in InHand
          BY DEF InHand
        <4>2. cmd[c].to \in Procs /\ Alive(cmd[c].to)
          BY <1>0, <4>1, ClientTo DEF SwitchInv, ToAlive
        <4>3. cmd[c].to = p
          BY <3>2, <4>2 DEF Active, Alive, Running
        <4> QED
          BY <2>4, <4>3 DEF Saves
      <3>5. (file = "on") = word
        BY <3>1, <3>4 DEF SwitchInv, FileIsWord
      <3> QED
        BY <2>1, <3>3, <3>5
    <2> QED
      BY <2>3, <2>5, <2>6, <2>7, <2>8 DEF SwitchInv
  <1>4. CASE Exit(p) \/ Crash(p)
    <2>1. /\ UNCHANGED <<file, word, raced>> /\ Alive(p) /\ pc'[p] = "gone"
          /\ \A q \in Procs \ {p} : pc'[q] = pc[q] /\ on'[q] = on[q]
      BY <1>0, <1>4 DEF Exit, Crash, Ends, Alive, Running, ProcType, OnType
    <2>2. /\ \A c \in Cmds : \/ cmd'[c].at = "done" /\ cmd[c].to = p
                             \/ /\ cmd'[c] = cmd[c]
                                /\ ~(cmd[c].at \in InHand \cup Open /\ cmd[c].to = p)
      <3> DEFINE r == [at |-> "done"]
      <3>1. cmd' = [c \in Cmds |-> IF c \in Of(p) THEN r ELSE cmd[c]] /\ r.at = "done"
        BY <1>4 DEF Exit, Crash, Ends
      <3> HIDE DEF r
      <3> QED
        BY <3>1 DEF Of
    <2>3. ~lost' => ~lost /\ \A c \in Cmds : ~Saves(c, p)
      <3>1. lost' = (lost \/ At(p, {"saving"}) # {})
        BY <1>4 DEF Exit, Crash, Ends
      <3>2. At(p, {"saving"}) = {} => \A c \in Cmds : ~Saves(c, p)
        BY DEF At, Of, InHand, Saves
      <3> QED
        BY <3>1, <3>2
    <2>4. ToAlive'
      <3> SUFFICES ASSUME NEW d \in Cmds, cmd'[d].at \in InHand \cup Open
                   PROVE  pc'[cmd'[d].to] \in Running
        BY DEF ToAlive, Alive
      <3>1. cmd'[d] = cmd[d] /\ cmd[d].to # p
        BY <2>2 DEF InHand, Open
      <3>2. cmd[d].to \in Procs /\ Alive(cmd[d].to)
        BY <1>0, <3>1, ClientTo DEF SwitchInv, ToAlive
      <3> QED
        BY <2>1, <3>1, <3>2 DEF Alive
    <2>5. \A q \in Procs, c \in Cmds :
            Saves(c, q)' => Saves(c, q) /\ cmd'[c] = cmd[c] /\ q # p
      BY <2>2 DEF Saves, InHand
    <2>6. OneSaver' /\ SavingOn'
      BY <2>1, <2>5, SMTT(30) DEF SwitchInv, OneSaver, SavingOn
    <2>7. FileIsWord'
      <3> SUFFICES ASSUME Clean', \A c \in Cmds : cmd'[c].at # "saving"
                   PROVE  (file' = "on") = word'
        BY DEF FileIsWord
      <3>1. Clean /\ \A c \in Cmds : ~Saves(c, p)
        BY <2>1, <2>3 DEF Clean
      <3>2. \A c \in Cmds : cmd[c].at # "saving"
        BY <2>2, <3>1 DEF Saves
      <3> QED
        BY <2>1, <3>1, <3>2 DEF SwitchInv, FileIsWord
    <2>8. LoadedIsWord'
      <3> SUFFICES ASSUME Clean', NEW q \in Procs, Loaded(q)', \A d \in Cmds : ~Saves(d, q)'
                   PROVE  on'[q] = word'
        BY DEF LoadedIsWord, Loaded
      <3>1. q # p /\ Loaded(q)
        BY <2>1 DEF Loaded, Running
      <3>2. ~raced
        BY <2>1 DEF Clean
      <3> QED
        BY <1>0, <2>1, <3>1, <3>2 DEF Apart, Active, Alive, Loaded, Running
    <2> QED
      BY <2>4, <2>6, <2>7, <2>8 DEF SwitchInv
  <1> QED
    BY <1>1, <1>2, <1>3, <1>4 DEF Process, MainStep

LEMMA SwitchNext == BaseInv /\ SwitchInv /\ [Next]_vars => SwitchInv'
  <1> SUFFICES ASSUME BaseInv, SwitchInv, [Next]_vars PROVE SwitchInv'
    OBVIOUS
  <1>1. ASSUME NEW c \in Cmds, Arrives(c) PROVE SwitchInv'
    <2>1. /\ \A d \in Cmds \ {c} : cmd'[d] = cmd[d]
          /\ cmd[c].at = "new" /\ cmd'[c].at # "saving" /\ Alive(cmd'[c].to)
          /\ UNCHANGED <<file, on, word, lost, raced, pc>>
      BY <1>1, ArrivesEffect DEF BaseInv, DaemonInv, procVars, history
    <2>2. ToAlive'
      BY <2>1 DEF SwitchInv, ToAlive, Alive
    <2>3. /\ \A d \in Cmds : (cmd'[d].at = "saving") <=> (cmd[d].at = "saving")
          /\ \A d \in Cmds : cmd[d].at = "saving" => cmd'[d] = cmd[d]
      BY <2>1
    <2> QED
      BY <2>1, <2>2, <2>3, SwitchFrame DEF Loaded
  <1>2. CASE UNCHANGED vars
    <2>1. ToAlive'
      BY <1>2 DEF vars, SwitchInv, ToAlive, Alive
    <2> QED
      BY <1>2, <2>1, SwitchFrame DEF vars, Loaded
  <1>3. CASE Writeback
    <2>1. UNCHANGED <<file, on, word, lost, raced, cmd, pc>>
      BY <1>3 DEF Writeback, procVars, history
    <2>2. ToAlive'
      BY <2>1 DEF SwitchInv, ToAlive, Alive
    <2> QED
      BY <2>1, <2>2, SwitchFrame DEF Loaded
  <1>4. CASE PowerCut
    <2>1. /\ \A p \in Procs : pc'[p] \in {"new", "gone"}
          /\ \A c \in Cmds : cmd'[c].at \in {"new", "done"}
      BY <1>4, PowerEffect DEF BaseInv
    <2>2. ToAlive' /\ OneSaver' /\ SavingOn'
      BY <2>1 DEF ToAlive, OneSaver, SavingOn, Saves, InHand, Open
    <2>3. FileIsWord'
      <3>1. Clean' => Clean /\ file' = file /\ \A c \in Cmds : cmd[c].at # "saving"
        BY <1>4 DEF PowerCut, Clean
      <3>2. word' = word
        BY <1>4 DEF PowerCut
      <3> QED
        BY <3>1, <3>2 DEF SwitchInv, FileIsWord
    <2>4. LoadedIsWord'
      BY <2>1 DEF LoadedIsWord, Running
    <2> QED
      BY <2>2, <2>3, <2>4 DEF SwitchInv
  <1> QED
    BY <1>1, <1>2, <1>3, <1>4, ClientSwitch, ProcessSwitch, NextIs

LEMMA SwitchInit == Init => SwitchInv
  <1> SUFFICES ASSUME Init PROVE SwitchInv
    OBVIOUS
  <1>1. \A c \in Cmds : cmd[c].at = "new"
    BY DEF Init
  <1>2. ToAlive /\ OneSaver /\ SavingOn
    BY <1>1 DEF ToAlive, OneSaver, SavingOn, Saves, InHand, Open
  <1>3. FileIsWord
    BY DEF Init, FileIsWord
  <1>4. LoadedIsWord
    BY DEF Init, LoadedIsWord, Running
  <1> QED
    BY <1>2, <1>3, <1>4 DEF SwitchInv

(* The setting last answered is in force, across restarts, crashes and     *)
(* power cuts, unless its save failed or was cut, the power failed before  *)
(* the kernel had written it, or two processes shared the file             *)
(* (SwitchSurvives).                                                       *)
THEOREM TheSwitchSurvives == Spec => []SwitchSurvives
  <1>1. SwitchInv => SwitchSurvives
    BY DEF SwitchInv, LoadedIsWord, Clean, SwitchSurvives, Alive, At, Of, InHand, Saves
  <1> QED
    BY <1>1, BaseInit, BaseNext, SwitchInit, SwitchNext, PTL DEF Spec

-----------------------------------------------------------------------------
(* The advertisement.                                                      *)

(* A request that is switching at p, and one that has changed the          *)
(* advertisement of p already.                                             *)
In(c, p) == cmd[c].at \in Switches /\ cmd[c].to = p
Past(c, p) == cmd[c].at \in {"write", "saving"} /\ cmd[c].to = p
ToOn(c) == cmd[c].kind = "on"
IsOn(p) == on[p] = TRUE
Shown(p) == mgr[p] = "adv"

(* Of two requests that overlap, the second read the switch before the     *)
(* first wrote it: they want the same.  Whoever has changed the            *)
(* advertisement of p has made it what all of them want; before the first  *)
(* has, and after the last has written, it agrees with the switch.         *)
Counted(p) == \A c \in Cmds : In(c, p) => burst[p] # 0
SameKind(p) == \A c, d \in Cmds : In(c, p) /\ In(d, p) => (ToOn(c) <=> ToOn(d))
Alone(p) == burst[p] = 1 => \A c, d \in Cmds : In(c, p) /\ In(d, p) => c = d
Unset(p) ==
  burst[p] = 1 =>
    \A c \in Cmds : In(c, p) /\ cmd[c].at # "saving" => ~(IsOn(p) <=> ToOn(c))
ShownPast(p) == pc[p] = "up" => \A c \in Cmds : Past(c, p) => (Shown(p) <=> ToOn(c))
ShownElse(p) ==
  pc[p] = "up" /\ p \notin mute /\ (\A c \in Cmds : ~Past(c, p)) => (Shown(p) <=> IsOn(p))
Follows(p) ==
  burst[p] < 3 =>
    Counted(p) /\ SameKind(p) /\ Alone(p) /\ Unset(p) /\ ShownPast(p) /\ ShownElse(p)
AdvertInv == \A p \in Procs : Follows(p)

(* A step that changes nothing of p but takes requests from it.            *)
LEMMA FollowsFrame ==
  ASSUME NEW p \in Procs, Follows(p), burst'[p] = burst[p], on'[p] = on[p],
         pc'[p] = "up" => pc[p] = "up" /\ mgr'[p] = mgr[p], p \in mute => p \in mute',
         \A c \in Cmds : In(c, p)' => In(c, p) /\ cmd'[c].kind = cmd[c].kind,
         \A c \in Cmds : Past(c, p)' <=> Past(c, p),
         \A c \in Cmds : In(c, p)' /\ cmd'[c].at # "saving" => cmd[c].at # "saving"
  PROVE  Follows(p)'
  <1> SUFFICES ASSUME burst'[p] < 3
               PROVE  (Counted(p) /\ SameKind(p) /\ Alone(p) /\ Unset(p)
                        /\ ShownPast(p) /\ ShownElse(p))'
    BY DEF Follows
  <1>0. Counted(p) /\ SameKind(p) /\ Alone(p) /\ Unset(p) /\ ShownPast(p) /\ ShownElse(p)
    BY DEF Follows
  <1>1. (IsOn(p))' <=> IsOn(p)
    BY DEF IsOn
  <1>2. \A c \in Cmds : In(c, p)' => (ToOn(c)' <=> ToOn(c))
    BY DEF ToOn
  <1>3. \A c \in Cmds : Past(c, p)' => In(c, p)'
    BY DEF In, Past, Switches
  <1>4. Counted(p)' /\ SameKind(p)' /\ Alone(p)'
    BY <1>0, <1>2 DEF Counted, SameKind, Alone
  <1>5. Unset(p)'
    BY <1>0, <1>1, <1>2 DEF Unset
  <1>6. ShownPast(p)'
    BY <1>0, <1>2, <1>3 DEF ShownPast, Shown
  <1>7. ShownElse(p)'
    BY <1>0, <1>1 DEF ShownElse, Shown
  <1> QED
    BY <1>4, <1>5, <1>6, <1>7

(* A process that has no switching request, and is not up.                 *)
LEMMA FollowsAway ==
  ASSUME NEW p \in Procs, \A c \in Cmds : ~In(c, p)',
         (pc'[p] = "up" /\ p \notin mute') => (Shown(p)' <=> IsOn(p)')
  PROVE  Follows(p)'
  <1>1. \A c \in Cmds : ~Past(c, p)'
    BY DEF In, Past, Switches
  <1> QED
    BY <1>1 DEF Follows, Counted, SameKind, Alone, Unset, ShownPast, ShownElse

(* What a client's step is to the advertisement: one of the five that      *)
(* matter, or one that leaves it alone.                                    *)
Quiet(c) ==
  /\ UNCHANGED <<on, mgr, mute, burst>>
  /\ cmd[c].at \notin {"advertising", "write", "saving"}
  /\ cmd'[c].at \in Switches => cmd[c].at = "lock" /\ cmd'[c].at = "advertising"

LEMMA ClientAdvert ==
  ASSUME cmd \in CmdType, NEW c \in Cmds, Client(c)
  PROVE  \/ Quiet(c)
         \/ SetRead(c) /\ Moved(c, "lock")
         \/ SetAdvertise(c) \/ SetWrite(c) \/ SetSaved(c) \/ SetSaveFails(c)
  <1> USE DEF CmdType
  <1>1. CASE StatusRead(c) \/ StatusCount(c) \/ WatchLock(c)
    <2>1. PICK step \in {"status", "counted", "replay"} :
            cmd[c].at \in InHand /\ Moved(c, step)
      BY <1>1 DEF StatusRead, StatusCount, WatchLock, To, Moved, InHand
    <2>2. step \in InHand /\ step \notin Switches
      BY DEF InHand, Switches
    <2>3. cmd'[c].at \notin Switches
      BY <2>1, <2>2, BusyEffect
    <2> QED
      BY <1>1, <2>3 DEF StatusRead, StatusCount, WatchLock, Quiet, history
  <1>2. CASE StatusAnswer(c) \/ WatchReplayed(c) \/ TlsFails(c) \/ SessionEnds(c)
    <2>1. Ended(c)
      BY <1>2 DEF StatusAnswer, WatchReplayed, TlsFails, SessionEnds, Ended
    <2>2. cmd'[c].at = "done"
      BY <2>1, EndedEffect
    <2> QED
      BY <1>2, <2>2 DEF StatusAnswer, WatchReplayed, TlsFails, SessionEnds, Quiet, Switches, history
  <1>3. CASE SetRead(c)
    <2>1. Moved(c, "lock") \/ (Ended(c) /\ UNCHANGED <<on, mgr, mute, burst>>)
      BY <1>3 DEF SetRead, To, Moved, Ended
    <2>2. Ended(c) => cmd'[c].at = "done"
      BY EndedEffect
    <2> QED
      BY <1>3, <2>1, <2>2 DEF SetRead, Quiet, Switches
  <1>4. CASE SetLock(c)
    <2>1. cmd[c].at \in InHand /\ Moved(c, "advertising") /\ "advertising" \in InHand
      BY <1>4 DEF SetLock, To, Moved, InHand
    <2>2. cmd'[c].at = "advertising"
      BY <2>1, BusyEffect
    <2> QED
      BY <1>4, <2>2 DEF SetLock, Quiet, history
  <1>5. CASE Acquire(c) \/ Admit(c)
    <2>1. cmd[c].at \in Open
      BY <1>5 DEF Acquire, Admit, Open
    <2>2. Ended(c) \/ Moved(c, "tls") \/ Moved(c, "session")
      BY <1>5 DEF Acquire, Admit, Ended, Moved
    <2>3. "tls" \in Open /\ "session" \in Open
      BY DEF Open
    <2>4. cmd'[c].at \in {"done", "tls", "session"}
      BY <2>1, <2>2, <2>3, ConnectedEffect, EndedEffect
    <2> QED
      BY <1>5, <2>4 DEF Acquire, Admit, Quiet, Switches, history
  <1> QED
    BY <1>1, <1>2, <1>3, <1>4, <1>5 DEF Client, TaskStep

LEMMA ClientFollows ==
  ASSUME BaseInv, SwitchInv, AdvertInv, NEW c \in Cmds, Client(c), NEW p \in Procs
  PROVE  Follows(p)'
  <1> DEFINE to == cmd[c].to
  <1>0. /\ ProcType /\ OnType /\ cmd \in CmdType /\ Follows(p)
    BY TypeParts DEF BaseInv, AdvertInv
  <1>1. /\ \A d \in Cmds \ {c} : cmd'[d] = cmd[d]
        /\ cmd[c].at \in InHand \cup Open
        /\ \/ cmd'[c].at = "done"
           \/ cmd'[c].to = to /\ cmd'[c].kind = cmd[c].kind
    BY <1>0, ClientEffect
  <1>2. to \in Procs /\ UNCHANGED pc
    BY <1>0, <1>1, ClientTo, ClientFrame DEF procVars
  <1>3. \A d \in Cmds \ {c} : /\ In(d, p)' <=> In(d, p)
                              /\ Past(d, p)' <=> Past(d, p)
    BY <1>1 DEF In, Past
  <1>4. \A d \in Cmds \ {c} : ToOn(d)' <=> ToOn(d)
    BY <1>1 DEF ToOn
  <1>5. /\ In(c, p)' => p = to /\ (ToOn(c)' <=> ToOn(c)) /\ cmd'[c].kind = cmd[c].kind
        /\ Past(c, p)' => p = to
        /\ Past(c, p) => In(c, p)
        /\ In(c, p) => p = to
    BY <1>1 DEF In, Past, ToOn, Switches
  <1>6. CASE Quiet(c)
    <2>1. In(c, p)' => In(c, p)
      BY <1>1, <1>5, <1>6 DEF Quiet, In, Switches
    <2>2. ~Past(c, p) /\ ~Past(c, p)'
      BY <1>6 DEF Quiet, Past, Switches
    <2>3. In(c, p)' => cmd[c].at # "saving"
      BY <1>6 DEF Quiet
    <2>4. \A d \in Cmds : In(d, p)' => In(d, p) /\ cmd'[d].kind = cmd[d].kind
      BY <1>1, <1>3, <1>5, <2>1
    <2>5. \A d \in Cmds : Past(d, p)' <=> Past(d, p)
      BY <1>3, <2>2
    <2>6. \A d \in Cmds : In(d, p)' /\ cmd'[d].at # "saving" => cmd[d].at # "saving"
      BY <1>1, <2>3
    <2>7. UNCHANGED <<on, mgr, mute, burst>>
      BY <1>6 DEF Quiet
    <2> QED
      BY <1>0, <1>2, <2>4, <2>5, <2>6, <2>7, FollowsFrame
  <1>7. CASE SetRead(c) /\ Moved(c, "lock") /\ p = to
    <2>1. /\ cmd'[c].at = "lock" /\ cmd'[c].to = p /\ cmd'[c].kind = cmd[c].kind
      <3>1. cmd[c].at \in InHand /\ "lock" \in InHand
        BY <1>7 DEF SetRead, InHand
      <3> QED
        BY <1>0, <1>7, <3>1, BusyEffect DEF CmdType
    <2>2. /\ cmd[c].at = "read" /\ Readable(p) /\ UNCHANGED <<on, mgr, mute>>
      BY <1>7 DEF SetRead
    <2>3. ~(IsOn(p) <=> ToOn(c))
      <3>1. on[p] # (cmd[c].kind = "on")
        <4>1. CASE on[p] = (cmd[c].kind = "on")
          <5>1. Ended(c)
            BY <1>7, <4>1 DEF SetRead, Ended
          <5> QED
            BY <1>0, <2>1, <5>1, EndedEffect DEF CmdType
        <4> QED
          BY <4>1
      <3>2. on[p] \in BOOLEAN
        BY <1>0 DEF OnType
      <3> QED
        BY <3>1, <3>2 DEF IsOn, ToOn
    <2>4. burst'[p] = IF burst[p] = 3 THEN 3
                      ELSE IF Switching(p) = {} THEN 1 ELSE burst[p] + 1
      <3>1. burst \in [Procs -> 0..3]
        BY <1>0 DEF ProcType
      <3>2. on[p] # (cmd[c].kind = "on")
        BY <2>3 DEF IsOn, ToOn
      <3> QED
        BY <1>7, <3>1, <3>2 DEF SetRead
    <2>5. Switching(p) = {} <=> \A d \in Cmds : ~In(d, p)
      BY DEF Switching, At, Of, InHand, In, Switches
    <2>6. \A d \in Cmds : In(d, p) => cmd[d].at # "saving"
      BY <2>2 DEF Readable, At, Of, InHand, In
    <2>7. In(c, p)' /\ ~In(c, p) /\ ~Past(c, p)' /\ ~Past(c, p)
      BY <2>1, <2>2 DEF In, Past, Switches
    <2>8. IsOn(p)' <=> IsOn(p)
      BY <2>2 DEF IsOn
    <2> SUFFICES ASSUME burst'[p] < 3
                 PROVE  (Counted(p) /\ SameKind(p) /\ Alone(p) /\ Unset(p)
                          /\ ShownPast(p) /\ ShownElse(p))'
      BY DEF Follows
    <2>9. burst[p] \in 0..3 /\ burst[p] # 3
      BY <1>0, <2>4, SMTT(30) DEF ProcType
    <2>10. Counted(p) /\ SameKind(p) /\ Alone(p) /\ Unset(p) /\ ShownPast(p) /\ ShownElse(p)
      BY <1>0, <2>9, SMTT(30) DEF Follows
    <2>11. ShownPast(p)'
      BY <1>2, <1>3, <1>4, <2>2, <2>7, <2>10 DEF ShownPast, Shown
    <2>12. ShownElse(p)'
      BY <1>2, <1>3, <2>2, <2>7, <2>8, <2>10 DEF ShownElse, Shown
    <2>13. CASE Switching(p) = {}
      <3>1. \A d \in Cmds : In(d, p)' => d = c
        BY <1>3, <2>5, <2>13
      <3>2. burst'[p] = 1
        BY <2>4, <2>9, <2>13
      <3>3. Counted(p)' /\ SameKind(p)' /\ Alone(p)'
        BY <3>1, <3>2, SMTT(30) DEF Counted, SameKind, Alone
      <3>4. Unset(p)'
        BY <1>5, <2>3, <2>7, <2>8, <3>1 DEF Unset
      <3> QED
        BY <2>11, <2>12, <3>3, <3>4
    <2>14. CASE Switching(p) # {}
      <3>1. PICK d \in Cmds : In(d, p)
        BY <2>5, <2>14
      <3>2. burst[p] = 1 /\ burst'[p] = 2
        BY <2>4, <2>9, <2>10, <2>14, <3>1, SMTT(30) DEF Counted
      <3>3. ToOn(d) <=> ToOn(c)
        BY <2>3, <2>6, <2>10, <3>1, <3>2 DEF Unset
      <3>4. \A e \in Cmds : In(e, p)' => (ToOn(e)' <=> ToOn(c))
        <4> SUFFICES ASSUME NEW e \in Cmds, In(e, p)' PROVE ToOn(e)' <=> ToOn(c)
          OBVIOUS
        <4>1. CASE e = c
          BY <1>5, <2>7, <4>1
        <4>2. CASE e # c
          BY <1>3, <1>4, <2>10, <3>1, <3>3, <4>2 DEF SameKind
        <4> QED
          BY <4>1, <4>2
      <3>5. SameKind(p)'
        BY <3>4 DEF SameKind
      <3>6. Counted(p)' /\ Alone(p)' /\ Unset(p)'
        BY <3>2, SMTT(30) DEF Counted, Alone, Unset
      <3> QED
        BY <2>11, <2>12, <3>5, <3>6
    <2> QED
      BY <2>13, <2>14
  <1>8. CASE p # to /\ ~Quiet(c)
    <2>1. ~In(c, p) /\ ~In(c, p)' /\ ~Past(c, p) /\ ~Past(c, p)'
      BY <1>5, <1>8
    <2>2. /\ \A d \in Cmds : In(d, p)' => In(d, p) /\ cmd'[d].kind = cmd[d].kind
          /\ \A d \in Cmds : Past(d, p)' <=> Past(d, p)
          /\ \A d \in Cmds : In(d, p)' /\ cmd'[d].at # "saving" => cmd[d].at # "saving"
      BY <1>1, <1>3, <2>1
    <2>3. SetRead(c) \/ SetAdvertise(c) \/ SetWrite(c) \/ SetSaved(c) \/ SetSaveFails(c)
      BY <1>0, <1>8, ClientAdvert
    <2>4. burst'[p] = burst[p]
      BY <1>0, <1>2, <1>8, <2>3
      DEF SetRead, SetAdvertise, SetWrite, SetSaved, SetSaveFails, ProcType, history
    <2>5. on'[p] = on[p]
      BY <1>0, <1>2, <1>8, <2>3
      DEF SetRead, SetAdvertise, SetWrite, SetSaved, SetSaveFails, OnType
    <2>6. mgr'[p] = mgr[p]
      BY <1>0, <1>2, <1>8, <2>3
      DEF SetRead, SetAdvertise, SetWrite, SetSaved, SetSaveFails, ProcType
    <2>7. p \in mute => p \in mute'
      BY <1>8, <2>3
      DEF SetRead, SetAdvertise, SetWrite, SetSaved, SetSaveFails, history
    <2> QED
      BY <1>0, <1>2, <2>2, <2>4, <2>5, <2>6, <2>7, FollowsFrame
  <1>9. CASE SetAdvertise(c) /\ p = to
    <2>1. cmd[c].at = "advertising" /\ UNCHANGED <<on, mute, burst>>
      BY <1>9 DEF SetAdvertise, history
    <2>2. In(c, p) /\ ~Past(c, p)
      BY <1>9, <2>1 DEF In, Past, Switches
    <2>3. \/ Ended(c) /\ mgr'[p] = mgr[p]
          \/ Moved(c, "write") /\ (Shown(p)' <=> ToOn(c))
      <3>1. mgr \in [Procs -> {"none", "idle", "adv"}]
        BY <1>0 DEF ProcType
      <3>2. CASE cmd[c].kind = "on" /\ mgr[p] = "none" /\ Ended(c) /\ UNCHANGED mgr
        BY <3>2
      <3>3. ASSUME NEW m \in StartAdvertising(mgr[p]), cmd[c].kind = "on",
                   mgr' = [mgr EXCEPT ![p] = m], IF m = "adv" THEN Moved(c, "write") ELSE Ended(c)
            PROVE  \/ Ended(c) /\ mgr'[p] = mgr[p]
                   \/ Moved(c, "write") /\ (Shown(p)' <=> ToOn(c))
        BY <3>1, <3>3 DEF StartAdvertising, Shown, ToOn
      <3>4. CASE /\ cmd[c].kind = "off" /\ Moved(c, "write")
                 /\ mgr' = [mgr EXCEPT ![p] = StopAdvertising(mgr[p])]
        BY <3>1, <3>4 DEF StopAdvertising, Shown, ToOn
      <3> QED
        BY <1>9, <3>2, <3>3, <3>4 DEF SetAdvertise, To, Moved, Ended
    <2>4. CASE Ended(c) /\ mgr'[p] = mgr[p]
      <3>1. cmd'[c].at = "done"
        BY <1>0, <2>4, EndedEffect DEF CmdType
      <3>2. ~In(c, p)' /\ ~Past(c, p)'
        BY <3>1 DEF In, Past, Switches
      <3>3. /\ \A d \in Cmds : In(d, p)' => In(d, p) /\ cmd'[d].kind = cmd[d].kind
            /\ \A d \in Cmds : Past(d, p)' <=> Past(d, p)
            /\ \A d \in Cmds : In(d, p)' /\ cmd'[d].at # "saving" => cmd[d].at # "saving"
        BY <1>1, <1>3, <2>2, <3>2
      <3> QED
        BY <1>0, <1>2, <2>1, <2>4, <3>3, FollowsFrame
    <2>5. CASE Moved(c, "write") /\ (Shown(p)' <=> ToOn(c))
      <3>1. cmd'[c].at = "write" /\ cmd'[c].to = p /\ cmd'[c].kind = cmd[c].kind
        <4>1. cmd[c].at \in InHand /\ "write" \in InHand
          BY <2>1 DEF InHand
        <4> QED
          BY <1>0, <1>9, <2>5, <4>1, BusyEffect DEF CmdType
      <3>2. In(c, p)' /\ Past(c, p)' /\ (ToOn(c)' <=> ToOn(c))
        BY <3>1 DEF In, Past, Switches, ToOn
      <3>3. \A d \in Cmds : (In(d, p)' <=> In(d, p)) /\ (ToOn(d)' <=> ToOn(d))
        BY <1>3, <1>4, <2>2, <3>2
      <3>4. \A d \in Cmds : cmd'[d].at # "saving" => cmd[d].at # "saving"
        BY <1>1, <2>1
      <3> SUFFICES ASSUME burst'[p] < 3
                   PROVE  (Counted(p) /\ SameKind(p) /\ Alone(p) /\ Unset(p)
                            /\ ShownPast(p) /\ ShownElse(p))'
        BY DEF Follows
      <3>5. Counted(p) /\ SameKind(p) /\ Alone(p) /\ Unset(p)
        BY <1>0, <2>1 DEF Follows
      <3>6. Counted(p)' /\ SameKind(p)' /\ Alone(p)'
        BY <2>1, <3>3, <3>5 DEF Counted, SameKind, Alone
      <3>7. Unset(p)'
        BY <2>1, <3>3, <3>4, <3>5 DEF Unset, IsOn
      <3>8. \A d \in Cmds : Past(d, p)' => In(d, p)
        BY <3>3 DEF In, Past, Switches
      <3>9. ShownPast(p)'
        BY <2>2, <2>5, <3>3, <3>5, <3>8 DEF ShownPast, SameKind
      <3>10. ShownElse(p)'
        BY <3>2 DEF ShownElse
      <3> QED
        BY <3>6, <3>7, <3>9, <3>10
    <2> QED
      BY <2>3, <2>4, <2>5
  <1>10. CASE SetWrite(c) /\ p = to
    <2>1. /\ cmd[c].at = "write" /\ UNCHANGED <<mgr, burst>>
      BY <1>10 DEF SetWrite
    <2>2. cmd'[c].at = "saving" /\ cmd'[c].to = p /\ cmd'[c].kind = cmd[c].kind
      <3>1. cmd[c].at \in InHand /\ Moved(c, "saving") /\ "saving" \in InHand
        BY <1>10 DEF SetWrite, To, Moved, InHand
      <3> QED
        BY <1>0, <1>10, <3>1, BusyEffect DEF CmdType
    <2>3. In(c, p) /\ In(c, p)' /\ Past(c, p) /\ Past(c, p)' /\ (ToOn(c)' <=> ToOn(c))
      BY <1>10, <2>1, <2>2 DEF In, Past, Switches, ToOn
    <2>4. \A d \in Cmds : /\ In(d, p)' <=> In(d, p)
                          /\ Past(d, p)' <=> Past(d, p)
                          /\ ToOn(d)' <=> ToOn(d)
      BY <1>3, <1>4, <2>3
    <2> SUFFICES ASSUME burst'[p] < 3
                 PROVE  (Counted(p) /\ SameKind(p) /\ Alone(p) /\ Unset(p)
                          /\ ShownPast(p) /\ ShownElse(p))'
      BY DEF Follows
    <2>5. Counted(p) /\ SameKind(p) /\ Alone(p) /\ ShownPast(p)
      BY <1>0, <2>1 DEF Follows
    <2>6. Counted(p)' /\ SameKind(p)' /\ Alone(p)'
      BY <2>1, <2>4, <2>5 DEF Counted, SameKind, Alone
    <2>7. Unset(p)'
      BY <2>1, <2>2, <2>3, <2>4, <2>5 DEF Unset, Alone
    <2>8. ShownPast(p)'
      BY <1>2, <2>1, <2>4, <2>5 DEF ShownPast, Shown
    <2>9. ShownElse(p)'
      BY <2>3 DEF ShownElse
    <2> QED
      BY <2>6, <2>7, <2>8, <2>9
  <1>11. CASE (SetSaved(c) \/ SetSaveFails(c)) /\ p = to
    <2>1. /\ cmd[c].at = "saving" /\ UNCHANGED <<on, mgr, mute, burst>> /\ Ended(c)
      BY <1>11 DEF SetSaved, SetSaveFails, Ended
    <2>2. cmd'[c].at = "done"
      BY <1>0, <2>1, EndedEffect DEF CmdType
    <2>3. Past(c, p) /\ ~In(c, p)' /\ ~Past(c, p)'
      BY <1>11, <2>1, <2>2 DEF In, Past, Switches
    <2>4. IsOn(p) <=> ToOn(c)
      <3>1. on[p] = (cmd[c].kind = "on")
        BY <1>11, <2>1 DEF SwitchInv, SavingOn, Saves
      <3> QED
        BY <3>1 DEF IsOn, ToOn
    <2>5. \A d \in Cmds : /\ In(d, p)' => In(d, p) /\ (ToOn(d)' <=> ToOn(d))
                          /\ Past(d, p)' => Past(d, p) /\ (ToOn(d)' <=> ToOn(d))
                          /\ In(d, p)' /\ cmd'[d].at # "saving" => cmd[d].at # "saving"
      BY <1>1, <1>3, <1>4, <2>3
    <2> SUFFICES ASSUME burst'[p] < 3
                 PROVE  (Counted(p) /\ SameKind(p) /\ Alone(p) /\ Unset(p)
                          /\ ShownPast(p) /\ ShownElse(p))'
      BY DEF Follows
    <2>6. Counted(p) /\ SameKind(p) /\ Alone(p) /\ Unset(p) /\ ShownPast(p)
      BY <1>0, <2>1 DEF Follows
    <2>7. Counted(p)' /\ SameKind(p)' /\ Alone(p)'
      BY <2>1, <2>5, <2>6 DEF Counted, SameKind, Alone
    <2>8. Unset(p)'
      BY <2>1, <2>5, <2>6 DEF Unset, IsOn
    <2>9. ShownPast(p)'
      BY <1>2, <2>1, <2>5, <2>6 DEF ShownPast, Shown
    <2>10. ShownElse(p)'
      BY <1>2, <2>1, <2>3, <2>4, <2>6 DEF ShownElse, ShownPast, Shown, IsOn
    <2> QED
      BY <2>7, <2>8, <2>9, <2>10
  <1> QED
    BY <1>0, <1>6, <1>7, <1>8, <1>9, <1>10, <1>11, ClientAdvert

LEMMA ProcessFollows ==
  ASSUME BaseInv, SwitchInv, AdvertInv, NEW q \in Procs, Process(q), NEW p \in Procs
  PROVE  Follows(p)'
  <1>0. /\ ProcType /\ OnType /\ cmd \in CmdType /\ Follows(p) /\ ToAlive
    BY TypeParts DEF BaseInv, SwitchInv, AdvertInv
  <1>1. ~Alive(p) => \A c \in Cmds : ~In(c, p)
    BY <1>0 DEF ToAlive, In, Switches, InHand
  <1>2. CASE Exit(q) \/ Crash(q)
    <2>1. /\ pc'[q] = "gone"
          /\ p # q => /\ pc'[p] = pc[p] /\ mgr'[p] = mgr[p] /\ burst'[p] = burst[p]
                      /\ on'[p] = on[p] /\ (p \in mute => p \in mute')
      BY <1>0, <1>2 DEF Exit, Crash, Ends, ProcType, OnType
    <2>2. \A c \in Cmds : \/ cmd'[c].at = "done" /\ cmd[c].to = q
                          \/ cmd'[c] = cmd[c] /\ ~(cmd[c].at \in InHand \cup Open /\ cmd[c].to = q)
      <3> DEFINE r == [at |-> "done"]
      <3>1. cmd' = [c \in Cmds |-> IF c \in Of(q) THEN r ELSE cmd[c]] /\ r.at = "done"
        BY <1>2 DEF Exit, Crash, Ends
      <3> HIDE DEF r
      <3> QED
        BY <3>1 DEF Of
    <2>3. CASE p = q
      <3>1. \A c \in Cmds : ~In(c, p)'
        BY <2>2, <2>3 DEF In, Switches, InHand
      <3> QED
        BY <2>1, <2>3, <3>1, FollowsAway
    <2>4. CASE p # q
      <3>1. /\ \A c \in Cmds : In(c, p)' => In(c, p) /\ cmd'[c] = cmd[c]
            /\ \A c \in Cmds : Past(c, p)' <=> Past(c, p)
        BY <2>2, <2>4 DEF In, Past, Switches
      <3> QED
        BY <1>0, <2>1, <2>4, <3>1, FollowsFrame
    <2> QED
      BY <2>3, <2>4
  <1>3. CASE (LoadConfig(q) \/ Boot(q)) /\ p = q
    <2>1. ~Alive(p) /\ cmd' = cmd
      BY <1>3 DEF LoadConfig, Boot, Alive, Running
    <2>2. \A c \in Cmds : ~In(c, p)'
      BY <1>1, <2>1 DEF In
    <2>3. (pc'[p] = "up" /\ p \notin mute') => (Shown(p)' <=> IsOn(p)')
      <3>1. CASE LoadConfig(q)
        BY <1>0, <1>3, <3>1 DEF LoadConfig, ProcType
      <3>2. CASE Boot(q)
        <4>1. PICK m \in {"none", "idle"} \cup (IF on[p] THEN StartAdvertising("idle") ELSE {}) :
                /\ mgr' = [mgr EXCEPT ![p] = m]
                /\ mute' = IF on[p] /\ m # "adv" THEN mute \cup {p} ELSE mute
          BY <1>3, <3>2 DEF Boot
        <4>2. on[p] \in BOOLEAN /\ on' = on /\ mgr'[p] = m
          BY <1>0, <1>3, <3>2, <4>1 DEF Boot, OnType, ProcType
        <4>3. CASE on[p] = TRUE
          BY <4>1, <4>2, <4>3 DEF Shown, IsOn
        <4>4. CASE on[p] = FALSE
          BY <4>1, <4>2, <4>4 DEF Shown, IsOn
        <4> QED
          BY <4>2, <4>3, <4>4
      <3> QED
        BY <1>3, <3>1, <3>2
    <2> QED
      BY <2>2, <2>3, FollowsAway
  <1>4. CASE (LoadConfig(q) \/ Boot(q)) /\ p # q
    <2>1. /\ cmd' = cmd /\ burst' = burst /\ on'[p] = on[p] /\ pc'[p] = pc[p]
          /\ mgr'[p] = mgr[p] /\ (p \in mute => p \in mute')
      BY <1>0, <1>4 DEF LoadConfig, Boot, ProcType, OnType, history
    <2> QED
      BY <1>0, <2>1, FollowsFrame DEF In, Past
  <1>5. CASE Ping(q) \/ Stop(q) \/ Unlink(q) \/ Serve(q) \/ Signal(q)
    <2>1. /\ cmd' = cmd /\ burst' = burst /\ on' = on /\ mute' = mute
          /\ pc'[p] = "up" => pc[p] = "up" /\ mgr'[p] = mgr[p]
      BY <1>0, <1>5 DEF Ping, Stop, Unlink, Serve, Signal, ProcType, history
    <2> QED
      BY <1>0, <2>1, FollowsFrame DEF In, Past
  <1> QED
    BY <1>2, <1>3, <1>4, <1>5 DEF Process, MainStep

LEMMA AdvertNext == BaseInv /\ SwitchInv /\ AdvertInv /\ [Next]_vars => AdvertInv'
  <1> SUFFICES ASSUME BaseInv, SwitchInv, AdvertInv, [Next]_vars, NEW p \in Procs
               PROVE  Follows(p)'
    BY DEF AdvertInv
  <1>0. Follows(p)
    BY DEF AdvertInv
  <1>1. ASSUME NEW c \in Cmds, Arrives(c) PROVE Follows(p)'
    <2>1. /\ \A d \in Cmds \ {c} : cmd'[d] = cmd[d]
          /\ cmd[c].at = "new" /\ cmd'[c].at \in {"read", "queued"}
          /\ UNCHANGED <<on, mgr, pc, mute, burst>>
      BY <1>1, ArrivesEffect DEF BaseInv, DaemonInv, procVars, history
    <2>2. /\ \A d \in Cmds : In(d, p)' => In(d, p) /\ cmd'[d] = cmd[d]
          /\ \A d \in Cmds : Past(d, p)' <=> Past(d, p)
      BY <2>1 DEF In, Past, Switches
    <2> QED
      BY <1>0, <2>1, <2>2, FollowsFrame
  <1>2. CASE UNCHANGED vars
    BY <1>0, <1>2, FollowsFrame DEF vars, In, Past
  <1>3. CASE Writeback
    BY <1>0, <1>3, FollowsFrame DEF Writeback, procVars, history, In, Past
  <1>4. CASE PowerCut
    <2>1. pc'[p] # "up" /\ \A c \in Cmds : cmd'[c].at \in {"new", "done"}
      BY <1>4, PowerEffect DEF BaseInv
    <2>2. \A c \in Cmds : ~In(c, p)'
      BY <2>1 DEF In, Switches
    <2> QED
      BY <2>1, <2>2, FollowsAway
  <1> QED
    BY <1>1, <1>2, <1>3, <1>4, ClientFollows, ProcessFollows, NextIs

LEMMA AdvertInit == Init => AdvertInv
  <1> SUFFICES ASSUME Init PROVE AdvertInv
    OBVIOUS
  <1>1. \A c \in Cmds : cmd[c].at = "new"
    BY DEF Init
  <1>2. \A p \in Procs : pc[p] = "new"
    BY DEF Init
  <1> QED
    BY <1>1, <1>2 DEF AdvertInv, Follows, Counted, SameKind, Alone, Unset, ShownPast,
                      ShownElse, In, Past, Switches

(* With no switching request in flight a process advertises exactly when   *)
(* its switch is on, unless three requests overlapped in a chain or the    *)
(* advertisement failed at the start (AdvertisesAsSet).                    *)
THEOREM TheAdvertisementFollows == Spec => []AdvertisesAsSet
  <1>1. TypeOK /\ AdvertInv => AdvertisesAsSet
    <2> SUFFICES ASSUME TypeOK, AdvertInv, NEW p \in Procs, pc[p] = "up",
                        Switching(p) = {}, p \notin mute, burst[p] < 3
                 PROVE  (mgr[p] = "adv") = on[p]
      BY DEF AdvertisesAsSet
    <2>1. \A c \in Cmds : ~Past(c, p)
      BY DEF Switching, At, Of, InHand, Past
    <2>2. Shown(p) <=> IsOn(p)
      BY <2>1 DEF AdvertInv, Follows, ShownElse
    <2>3. on[p] \in BOOLEAN
      BY DEF TypeOK
    <2> QED
      BY <2>2, <2>3 DEF Shown, IsOn
  <1>2. BaseInv => TypeOK
    BY DEF BaseInv
  <1> QED
    BY <1>1, <1>2, BaseInit, BaseNext, SwitchInit, SwitchNext, AdvertInit, AdvertNext, PTL
    DEF Spec

=============================================================================
