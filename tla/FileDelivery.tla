---------------------------- MODULE FileDelivery ----------------------------
(***************************************************************************)
(* What the two daemons promise about a file transfer, whatever fails in   *)
(* between: files appear at their final path complete, one of the contents *)
(* that was sent, and stay as they are; and a transfer is reported as      *)
(* complete only when its file is there.  A transfer may also never be     *)
(* delivered, or be delivered and not reported.                            *)
(***************************************************************************)
CONSTANTS
    Tids,      \* transfer ids
    Versions,  \* contents that may be sent
    Size,      \* the length of each
    Contents   \* the bytes of each

VARIABLES
    delivered,  \* files at their final path, with the transfer they are of
    reported    \* transfers reported to the sending user as complete

Init == delivered = {} /\ reported = {}

Deliver(t, v) ==
    /\ delivered' = delivered \cup
         {[tid |-> t, sha |-> v, size |-> Size[v], content |-> Contents[v]]}
    /\ UNCHANGED reported

Report(f) ==
    /\ reported' = reported \cup {[tid |-> f.tid, ver |-> f.sha]}
    /\ UNCHANGED delivered

Next ==
    \/ \E t \in Tids, v \in Versions : Deliver(t, v)
    \/ \E f \in delivered : Report(f)

Spec == Init /\ [][Next]_<<delivered, reported>>
=============================================================================
