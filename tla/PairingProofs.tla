--------------------------- MODULE PairingProofs ---------------------------
(* Proofs of the safety properties of Pairing, for any number of sessions. *)
EXTENDS Pairing, TLAPS

(* Zenon first: it is quick and takes most leaves; SMT is cited where a     *)
(* leaf needs arithmetic, sequences or extensionality.                      *)
USE ZenonT(30), SMTT(30)

(* Channels.                                                               *)

NetType == [Sessions -> [Sides -> Seq(Messages)]]
Holds(n, s, x, m) == \E i \in 1..Len(n[s][x]) : n[s][x][i] = m

(* PAIR_REQUEST opens a session and nothing is before it.                  *)
Front(n) ==
  \A s \in Sessions : \A i \in 1..Len(n[s]["B"]) : n[s]["B"][i] = "request" => i = 1

(* The channels n1 carry what n0 did and, in session s, the messages ms    *)
(* that x sent.                                                            *)
Grows(n1, n0, s, x, ms) ==
  /\ n1 \in NetType /\ Front(n1)
  /\ \A t \in Sessions, y \in Sides, k \in Messages :
       Holds(n1, t, y, k) => Holds(n0, t, y, k) \/ (t = s /\ y = Other(x) /\ k \in ms)

LEMMA OtherSide == \A x \in Sides : Other(x) \in Sides /\ Other(x) # x /\ Other(Other(x)) = x
  BY DEF Sides, Other

LEMMA GrowsRefl ==
  ASSUME NEW n \in NetType, Front(n), NEW s, NEW x
  PROVE  Grows(n, n, s, x, {})
  BY DEF Grows

LEMMA GrowsPut ==
  ASSUME NEW n0, NEW n1, NEW s \in Sessions, NEW x \in Sides, NEW ms,
         Grows(n1, n0, s, x, ms), NEW m \in Messages \ {"request"}
  PROVE  Grows(Put(s, x, m, n1), n0, s, x, ms \cup {m})
  <1>1. CASE Broken(s, x)
    BY <1>1 DEF Put, Grows
  <1>2. CASE ~Broken(s, x)
    <2> DEFINE o == Other(x)
               q == n1[s][o]
               p == [n1 EXCEPT ![s][o] = Append(@, m)]
    <2>0. Put(s, x, m, n1) = p
      BY <1>2 DEF Put
    <2>1. o \in Sides /\ n1 \in NetType /\ Front(n1)
      BY OtherSide DEF Grows
    <2>2. q \in Seq(Messages) /\ p \in NetType
      BY <2>1, SMTT(30) DEF NetType
    <2>3. p[s][o] = Append(q, m)
      BY <2>1 DEF NetType
    <2>4. \A t \in Sessions, y \in Sides : (t # s \/ y # o) => p[t][y] = n1[t][y]
      BY <2>1 DEF NetType
    <2>5. /\ Len(Append(q, m)) = Len(q) + 1 /\ Len(q) \in Nat
          /\ \A i \in 1..Len(q) : Append(q, m)[i] = q[i]
          /\ Append(q, m)[Len(q) + 1] = m
      BY <2>2, SMTT(30)
    <2> HIDE DEF o, p, q
    <2>6. ASSUME NEW t \in Sessions, NEW y \in Sides, NEW k \in Messages, Holds(p, t, y, k)
          PROVE  Holds(n1, t, y, k) \/ (t = s /\ y = o /\ k = m)
      <3>1. CASE t # s \/ y # o
        BY <2>4, <2>6, <3>1 DEF Holds
      <3>2. CASE t = s /\ y = o
        <4>1. PICK i \in 1..(Len(q) + 1) : Append(q, m)[i] = k
          BY <2>3, <2>5, <2>6, <3>2 DEF Holds
        <4>2. CASE i = Len(q) + 1
          BY <2>5, <3>2, <4>1, <4>2
        <4>3. CASE i \in 1..Len(q)
          BY <2>5, <3>2, <4>1, <4>3 DEF Holds, q
        <4> QED
          BY <2>5, <4>1, <4>2, <4>3, SMTT(30)
      <3> QED
        BY <3>1, <3>2
    <2>7. Front(p)
      <3> SUFFICES ASSUME NEW t \in Sessions, NEW i \in 1..Len(p[t]["B"]),
                          p[t]["B"][i] = "request"
                   PROVE  i = 1
        BY DEF Front
      <3>0. "B" \in Sides
        BY DEF Sides
      <3>1. CASE t # s \/ "B" # o
        BY <2>1, <2>4, <3>0, <3>1, SMTT(30) DEF Front
      <3>2. CASE t = s /\ "B" = o
        <4>1. p[t]["B"] = Append(q, m)
          BY <2>3, <3>2
        <4>2. i \in 1..Len(q)
          BY <2>5, <4>1, SMTT(30)
        <4>3. n1[t]["B"] = q /\ q[i] = "request"
          BY <2>5, <3>2, <4>1, <4>2 DEF q
        <4> QED
          BY <2>1, <4>2, <4>3 DEF Front
      <3> QED
        BY <3>1, <3>2
    <2> QED
      BY <2>0, <2>2, <2>6, <2>7 DEF Grows, o
  <1> QED
    BY <1>1, <1>2

LEMMA GrowsUnread ==
  ASSUME NEW n0, NEW n1, NEW s \in Sessions, NEW x, NEW ms,
         Grows(n1, n0, s, x, ms), NEW y \in Sides
  PROVE  /\ Grows(Unread(s, y, n1), n0, s, x, ms)
         /\ Unread(s, y, n1)[s][y] = <<>>
  <1> DEFINE p == [n1 EXCEPT ![s][y] = <<>>]
  <1>1. p \in NetType /\ p[s][y] = <<>>
    BY SMTT(30) DEF NetType, Grows
  <1>2. \A t \in Sessions, z \in Sides : (t # s \/ z # y) => p[t][z] = n1[t][z]
    BY DEF NetType, Grows
  <1>3. Unread(s, y, n1) = p /\ "B" \in Sides
    BY DEF Unread, Sides
  <1> HIDE DEF p
  <1>4. \A t \in Sessions, z \in Sides : p[t][z] = n1[t][z] \/ Len(p[t][z]) = 0
    BY <1>1, <1>2, SMTT(30)
  <1>5. \A t \in Sessions, z \in Sides, k \in Messages : Holds(p, t, z, k) => Holds(n1, t, z, k)
    BY <1>4, SMTT(30) DEF Holds
  <1>6. Front(p)
    BY <1>3, <1>4, SMTT(30) DEF Front, Grows
  <1> QED
    BY <1>1, <1>3, <1>5, <1>6 DEF Grows

LEMMA GrowsTake ==
  ASSUME net \in NetType, Front(net), NEW s \in Sessions, NEW y \in Sides, NEW x,
         Next1(s, y) # "nothing"
  PROVE  /\ Grows(Take(s, y), net, s, x, {})
         /\ y = "B" => ~Holds(Take(s, y), s, "B", "request")
         /\ Next1(s, y) \in Messages /\ Holds(net, s, y, Next1(s, y))
  <1> DEFINE p == [net EXCEPT ![s][y] = Tail(@)]
             q == net[s][y]
  <1>0. Take(s, y) = p /\ "B" \in Sides
    BY DEF Take, Sides
  <1>1. q \in Seq(Messages) /\ q # <<>> /\ Next1(s, y) = Head(q)
    BY DEF NetType, Next1
  <1>2. p \in NetType /\ p[s][y] = Tail(q)
    BY <1>1, SMTT(30) DEF NetType
  <1>3. \A t \in Sessions, z \in Sides : (t # s \/ z # y) => p[t][z] = net[t][z]
    BY DEF NetType
  <1>4. /\ Len(q) \in Nat /\ Len(q) >= 1 /\ Len(Tail(q)) = Len(q) - 1
        /\ \A i \in 1..Len(Tail(q)) : i + 1 \in 1..Len(q) /\ Tail(q)[i] = q[i + 1]
        /\ Head(q) = q[1] /\ Head(q) \in Messages
    BY <1>1, SMTT(30)
  <1>5. Holds(net, s, y, Head(q))
    BY <1>4, SMTT(30) DEF Holds
  <1> HIDE DEF p
  <1>6. \A t \in Sessions, z \in Sides, k \in Messages : Holds(p, t, z, k) => Holds(net, t, z, k)
    <2> SUFFICES ASSUME NEW t \in Sessions, NEW z \in Sides, NEW k \in Messages,
                        Holds(p, t, z, k)
                 PROVE  Holds(net, t, z, k)
      OBVIOUS
    <2>1. CASE t # s \/ z # y
      BY <1>3, <2>1 DEF Holds
    <2>2. CASE t = s /\ z = y
      <3>1. PICK i \in 1..Len(Tail(q)) : Tail(q)[i] = k
        BY <1>2, <2>2 DEF Holds
      <3>2. i + 1 \in 1..Len(q) /\ q[i + 1] = k
        BY <1>4, <3>1
      <3> QED
        BY <2>2, <3>2 DEF Holds
    <2> QED
      BY <2>1, <2>2
  <1>7. y = "B" => ~Holds(p, s, "B", "request")
    <2> SUFFICES ASSUME y = "B", NEW i \in 1..Len(Tail(q)), Tail(q)[i] = "request"
                 PROVE  FALSE
      BY <1>2 DEF Holds
    <2>1. i + 1 \in 1..Len(net[s]["B"]) /\ net[s]["B"][i + 1] = "request"
      BY <1>4
    <2>2. i + 1 = 1
      BY <2>1 DEF Front
    <2> QED
      BY <1>4, <2>2, SMTT(30)
  <1>8. Front(p)
    <2> SUFFICES ASSUME NEW t \in Sessions, NEW i \in 1..Len(p[t]["B"]),
                        p[t]["B"][i] = "request"
                 PROVE  i = 1
      BY DEF Front
    <2>1. CASE t # s \/ "B" # y
      BY <1>0, <1>3, <2>1, SMTT(30) DEF Front
    <2>2. CASE t = s /\ "B" = y
      BY <1>7, <2>2 DEF Holds
    <2> QED
      BY <2>1, <2>2
  <1> QED
    BY <1>0, <1>1, <1>2, <1>4, <1>5, <1>6, <1>7, <1>8 DEF Grows

-----------------------------------------------------------------------------
(* The inductive invariants.                                               *)

(* A request is answered once: while it is on its way or being decided     *)
(* nothing was said.                                                       *)
Asks ==
  \A s \in Sessions : Holds(net, s, "B", "request") =>
    resp[s] = "loop" /\ said[s]["B"] = "none" /\ rx[s] = "none"
Silent ==
  \A s \in Sessions :
    /\ ini[s] \in {"idle", "confirm"} => said[s]["A"] = "none"
    /\ resp[s] \in {"idle", "consent", "confirm"} => said[s]["B"] = "none"
    /\ ini[s] = "idle" => resp[s] = "idle"
    /\ resp[s] = "idle" => rx[s] = "none"
(* Whoever awaits the other's answer has accepted, and PAIR_ACCEPT is on   *)
(* its way only if its sender accepted.                                    *)
Spoken ==
  \A s \in Sessions :
    /\ ini[s] = "await" => said[s]["A"] = "yes"
    /\ resp[s] = "await" => said[s]["B"] = "yes"
    /\ \A x \in Sides : Holds(net, s, x, "accept") => said[s][Other(x)] = "yes"
PinInv == Front(net) /\ Asks /\ Silent /\ Spoken /\ PinMeansAgreed

(* Only the prompt under the key can still be answered, and its handler    *)
(* waits for it.                                                           *)
Keyed ==
  \A s \in Sessions :
    /\ rx[s] = "open" => resp[s] = "consent" /\ offer = s
    /\ resp[s] = "consent" => rx[s] # "none"
Shown == \A t \in Sessions : t \in {prompt, reply} => rx[t] # "none"
Removing == removing = "key" => \E s \in Sessions : rx[s] \in {"yes", "no"}
PromptInv == Keyed /\ Shown /\ Removing /\ RefusedOnlyToRival /\ AnswerMatchesPrompt

-----------------------------------------------------------------------------
(* What the actions send.                                                  *)

LEMMA RequestsSends ==
  ASSUME net \in NetType, Front(net), NEW s \in Sessions, Requests(s)
  PROVE  /\ net' \in NetType /\ Front(net')
         /\ \A t \in Sessions, y \in Sides, k \in Messages :
              Holds(net', t, y, k)
                => Holds(net, t, y, k) \/ (t = s /\ y = "B" /\ k = "request")
  <1>0. "B" \in Sides /\ "request" \in Messages
    BY DEF Sides, Messages
  <1>1. net' \in NetType /\ net'[s]["B"] = <<"request">>
    BY <1>0, SMTT(30) DEF Requests, NetType
  <1>2. \A t \in Sessions, y \in Sides : (t # s \/ y # "B") => net'[t][y] = net[t][y]
    BY <1>0 DEF Requests, NetType
  <1>3. Front(net')
    BY <1>0, <1>1, <1>2, SMTT(30) DEF Front
  <1>4. ASSUME NEW t \in Sessions, NEW y \in Sides, NEW k \in Messages, Holds(net', t, y, k)
        PROVE  Holds(net, t, y, k) \/ (t = s /\ y = "B" /\ k = "request")
    BY <1>1, <1>2, <1>4, SMTT(30) DEF Holds
  <1> QED
    BY <1>1, <1>3, <1>4

LEMMA PutNet ==
  ASSUME net \in NetType, Front(net), NEW s \in Sessions, NEW x \in Sides,
         NEW m \in Messages \ {"request"}
  PROVE  Grows(Put(s, x, m, net), net, s, x, {m})
  <1>1. Grows(net, net, s, x, {})
    BY GrowsRefl
  <1> QED
    BY <1>1, GrowsPut, {} \cup {m} = {m}, SMTT(30)

LEMMA UnreadNet ==
  ASSUME net \in NetType, Front(net), NEW s \in Sessions, NEW y \in Sides, NEW x
  PROVE  Grows(Unread(s, y, net), net, s, x, {}) /\ Unread(s, y, net)[s][y] = <<>>
  <1>1. Grows(net, net, s, x, {})
    BY GrowsRefl
  <1> QED
    BY <1>1, GrowsUnread

(* x takes a message, or drops what is left, and sends m.                  *)
LEMMA TakePut ==
  ASSUME net \in NetType, Front(net), NEW s \in Sessions, NEW x \in Sides,
         Next1(s, x) # "nothing", NEW m \in Messages \ {"request"}
  PROVE  Grows(Put(s, x, m, Take(s, x)), net, s, x, {m})
  <1> DEFINE n == Take(s, x)
  <1>1. Grows(n, net, s, x, {})
    BY GrowsTake
  <1> HIDE DEF n
  <1>2. Grows(Put(s, x, m, n), net, s, x, {m})
    BY <1>1, GrowsPut, {} \cup {m} = {m}, SMTT(30)
  <1> QED
    BY <1>2 DEF n

LEMMA UnreadPut ==
  ASSUME net \in NetType, Front(net), NEW s \in Sessions, NEW x \in Sides,
         NEW m \in Messages \ {"request"}
  PROVE  /\ Grows(Put(s, x, m, Unread(s, x, net)), net, s, x, {m})
         /\ Put(s, x, m, Unread(s, x, net))[s][x] = <<>>
  <1> DEFINE n == Unread(s, x, net)
  <1>1. Grows(n, net, s, x, {}) /\ n[s][x] = <<>>
    BY UnreadNet
  <1> HIDE DEF n
  <1>2. Grows(Put(s, x, m, n), net, s, x, {m})
    BY <1>1, GrowsPut, {} \cup {m} = {m}, SMTT(30)
  <1>3. Put(s, x, m, n)[s][x] = n[s][x]
    BY <1>1, OtherSide DEF Put, Grows, NetType
  <1> QED
    BY <1>1, <1>2, <1>3 DEF n

LEMMA RejectClose ==
  ASSUME net \in NetType, Front(net), NEW s \in Sessions, IniReject(s)
  PROVE  Grows(net', net, s, "A", {"reject", "close"})
  <1> DEFINE n1 == Put(s, "A", "reject", net)
             n2 == Put(s, "A", "close", n1)
  <1>0. "A" \in Sides /\ "reject" \in Messages \ {"request"} /\ "close" \in Messages \ {"request"}
    BY DEF Sides, Messages
  <1>1. Grows(n1, net, s, "A", {"reject"})
    BY <1>0, PutNet
  <1>2. net' = Unread(s, "A", n2)
    BY DEF IniReject
  <1> HIDE DEF n1
  <1>3. Grows(n2, net, s, "A", {"reject"} \cup {"close"})
    BY <1>0, <1>1, GrowsPut
  <1> HIDE DEF n2
  <1>4. Grows(Unread(s, "A", n2), net, s, "A", {"reject"} \cup {"close"})
    BY <1>0, <1>3, GrowsUnread
  <1> QED
    BY <1>2, <1>4, {"reject"} \cup {"close"} = {"reject", "close"}

(* What each action that changes the channels sends; an action that takes  *)
(* a message from B's channel leaves no request there.                     *)
LEMMA Sends ==
  ASSUME net \in NetType, Front(net), NEW s \in Sessions,
         said \in [Sessions -> [Sides -> {"none", "yes", "no"}]]
  PROVE  /\ Cut(s) \/ IniAbandon(s) \/ IniFailed(s) => Grows(net', net, s, "A", {})
         /\ IniAccept(s) => Grows(net', net, s, "A", {"accept"})
         /\ IniPinned(s) => Grows(net', net, s, "A", {"close"})
         /\ RespRequest(s) => \E ms \in {{}, {"accept"}} :
                                 /\ Grows(net', net, s, "B", ms)
                                 /\ ms = {} \/ said'[s]["B"] = "yes"
         /\ Consented(s) => Grows(net', net, s, "B", {IF rx[s] = "yes" THEN "accept" ELSE "reject"})
         /\ RespAwaited(s) \/ FfiReader(s) => Grows(net', net, s, "B", {})
         /\ RespLoop(s) => Grows(net', net, s, "B", {"close"})
         /\ \A x \in Sides :
              /\ FfiClose(s, x) => Grows(net', net, s, x, {"close"})
              /\ \A yes \in BOOLEAN : FfiConfirm(s, x, yes) =>
                   Grows(net', net, s, x, {IF yes THEN "accept" ELSE "reject"})
  <1>0. /\ "A" \in Sides /\ "B" \in Sides
        /\ {"accept", "reject", "close"} \subseteq Messages \ {"request"}
    BY DEF Sides, Messages
  <1>1. Cut(s) => Grows(net', net, s, "A", {})
    <2> SUFFICES ASSUME Cut(s) PROVE Grows(net', net, s, "A", {})
      OBVIOUS
    <2>1. net' \in NetType
      BY SMTT(30) DEF Cut, NetType
    <2>2. \A t \in Sessions, y \in Sides : net'[t][y] = net[t][y] \/ Len(net'[t][y]) = 0
      BY DEF Cut, NetType
    <2>3. Front(net')
      BY <1>0, <2>2, SMTT(30) DEF Front
    <2>4. \A t \in Sessions, y \in Sides, k \in Messages : Holds(net', t, y, k) => Holds(net, t, y, k)
      BY <2>2, SMTT(30) DEF Holds
    <2> QED
      BY <2>1, <2>3, <2>4 DEF Grows
  <1>2. IniAbandon(s) \/ IniFailed(s) => Grows(net', net, s, "A", {})
    BY <1>0, UnreadNet DEF IniAbandon, IniFailed
  <1>3. IniAccept(s) => Grows(net', net, s, "A", {"accept"})
    BY <1>0, PutNet, SMTT(30) DEF IniAccept
  <1>4. IniPinned(s) => Grows(net', net, s, "A", {"close"})
    BY <1>0, UnreadPut DEF IniPinned
  <1>5. ASSUME RespRequest(s)
        PROVE  \E ms \in {{}, {"accept"}} : /\ Grows(net', net, s, "B", ms)
                                            /\ ms = {} \/ said'[s]["B"] = "yes"
    <2>1. Next1(s, "B") # "nothing"
      BY <1>5 DEF RespRequest
    <2>2. CASE watched
      BY <1>0, <1>5, <2>1, <2>2, GrowsTake, SMTT(30) DEF RespRequest
    <2>3. CASE ~watched
      <3>1. Grows(net', net, s, "B", {"accept"})
        BY <1>0, <1>5, <2>1, <2>3, TakePut, SMTT(30) DEF RespRequest
      <3>2. said'[s]["B"] = "yes"
        BY <1>0, <1>5, <2>3 DEF RespRequest
      <3> QED
        BY <3>1, <3>2
    <2> QED
      BY <2>2, <2>3
  <1>6. Consented(s) => Grows(net', net, s, "B", {IF rx[s] = "yes" THEN "accept" ELSE "reject"})
    <2>1. CASE rx[s] = "yes"
      BY <1>0, <2>1, PutNet, SMTT(30) DEF Consented
    <2>2. CASE rx[s] # "yes"
      BY <1>0, <2>2, PutNet, SMTT(30) DEF Consented
    <2> QED
      BY <2>1, <2>2
  <1>7. RespAwaited(s) \/ FfiReader(s) => Grows(net', net, s, "B", {})
    BY <1>0, GrowsTake, SMTT(30) DEF RespAwaited, FfiReader
  <1>8. RespLoop(s) => Grows(net', net, s, "B", {"close"})
    <2> SUFFICES ASSUME RespLoop(s) PROVE Grows(net', net, s, "B", {"close"})
      OBVIOUS
    <2>1. CASE Next1(s, "B") = "close"
      BY <1>0, <2>1, UnreadPut DEF RespLoop
    <2>2. CASE Next1(s, "B") # "close"
      <3>1. Grows(net', net, s, "B", {})
        BY <1>0, <2>2, GrowsTake DEF RespLoop
      <3> QED
        BY <3>1 DEF Grows
    <2> QED
      BY <2>1, <2>2
  <1>9. ASSUME NEW x \in Sides PROVE FfiClose(s, x) => Grows(net', net, s, x, {"close"})
    BY <1>0, UnreadPut DEF FfiClose
  <1>10. ASSUME NEW x \in Sides, NEW yes \in BOOLEAN, FfiConfirm(s, x, yes)
         PROVE  Grows(net', net, s, x, {IF yes THEN "accept" ELSE "reject"})
    <2>1. CASE yes
      BY <1>0, <1>10, <2>1, PutNet DEF FfiConfirm
    <2>2. CASE ~yes
      BY <1>0, <1>10, <2>2, PutNet DEF FfiConfirm
    <2> QED
      BY <2>1, <2>2
  <1> QED
    BY <1>1, <1>2, <1>3, <1>4, <1>5, <1>6, <1>7, <1>8, <1>9, <1>10

-----------------------------------------------------------------------------
(* Type correctness.                                                       *)

LinkTypeOK == up \in [Sessions -> SUBSET Sides] /\ cut \in [Sessions -> BOOLEAN]
StepTypeOK ==
  /\ ini \in [Sessions -> {"idle", "confirm", "await", "sent", "done"}]
  /\ resp \in [Sessions -> {"idle", "loop", "consent", "confirm", "await",
                            "sent", "done"}]
  /\ said \in [Sessions -> [Sides -> {"none", "yes", "no"}]]
KindTypeOK == kind \in [Sides -> {"daemon", "ffi"}] /\ watched \in BOOLEAN
PromptTypeOK ==
  /\ offer \in 0..N /\ prompt \in 0..N /\ reply \in 0..N
  /\ rx \in [Sessions -> {"none", "open", "yes", "no", "dropped", "late"}]
  /\ meant \in [Sessions -> 0..N]
  /\ removing \in {"none", "key"}
PinTypeOK == /\ db \in BOOLEAN /\ pins \in [Sides -> SUBSET Sessions]
             /\ failed \in [Sides -> SUBSET Sessions]

LEMMA TypeParts ==
  TypeOK <=> /\ net \in NetType
             /\ LinkTypeOK /\ StepTypeOK /\ KindTypeOK /\ PromptTypeOK /\ PinTypeOK
  BY DEF TypeOK, NetType, LinkTypeOK, StepTypeOK, KindTypeOK, PromptTypeOK, PinTypeOK

Words == {"none", "yes", "no"}
LEMMA SaidType ==
  ASSUME said \in [Sessions -> [Sides -> Words]], NEW s \in Sessions, NEW x \in Sides,
         NEW v \in Words
  PROVE  /\ [said EXCEPT ![s][x] = v] \in [Sessions -> [Sides -> Words]]
         /\ [said EXCEPT ![s][x] = v][s][x] = v
         /\ \A t \in Sessions, y \in Sides :
              (t # s \/ y # x) => [said EXCEPT ![s][x] = v][t][y] = said[t][y]
  <1> DEFINE f == [said[s] EXCEPT ![x] = v]
  <1>1. f \in [Sides -> Words] /\ f[x] = v /\ \A y \in Sides \ {x} : f[y] = said[s][y]
    OBVIOUS
  <1>2. [said EXCEPT ![s][x] = v] = [said EXCEPT ![s] = f]
    OBVIOUS
  <1> HIDE DEF f
  <1> QED
    BY <1>1, <1>2

LEMMA SaidNext ==
  ASSUME StepTypeOK, NEW s \in Sessions, NEW x \in Sides, NEW v \in Words,
         said' = [said EXCEPT ![s][x] = v]
  PROVE  /\ said' \in [Sessions -> [Sides -> {"none", "yes", "no"}]]
         /\ said'[s][x] = v
         /\ \A y \in Sides : y # x => said'[s][y] = said[s][y]
  <1>1. said \in [Sessions -> [Sides -> Words]]
    BY DEF StepTypeOK, Words
  <1> QED
    BY <1>1, SaidType, Words = {"none", "yes", "no"}, SMTT(30) DEF Words

(* The steps of a session, one by one.                                     *)
Session(s) ==
  \/ Cut(s) \/ Connect(s) \/ FfiBegin(s) \/ ConnectFails(s)
  \/ IniReject(s) \/ IniPinned(s) \/ IniFailed(s) \/ IniAccept(s) \/ IniAbandon(s)
  \/ RespRequest(s) \/ Consented(s) \/ RespAwaited(s) \/ RespLoop(s)
  \/ RespEnded(s) \/ FfiReader(s) \/ ConsentTimeout(s)
  \/ \E x \in Sides : FfiClose(s, x) \/ \E yes \in BOOLEAN : FfiConfirm(s, x, yes)

(* The steps of the watching user, of transfer_confirm and of expiry leave *)
(* the sessions alone.                                                     *)
Prompts ==
  \/ \E yes \in BOOLEAN : Answer(yes)
  \/ Unpair \/ Decide \/ AnswerTooLate \/ AnswerRemoves \/ Expire

LEMMA NextIs == Next <=> (\E s \in Sessions : Session(s)) \/ Prompts
  BY DEF Next, Session, Prompts, IniStep, RespStep

LEMMA NetNext ==
  ASSUME TypeOK, Front(net), [Next]_vars
  PROVE  net' \in NetType /\ Front(net')
  <1>0. net \in NetType /\ StepTypeOK
    BY TypeParts
  <1>1. CASE UNCHANGED net
    BY <1>0, <1>1
  <1>2. ASSUME NEW s \in Sessions, Session(s) PROVE net' \in NetType /\ Front(net')
    <2>1. CASE Requests(s)
      BY <1>0, <2>1, RequestsSends
    <2>2. CASE ConnectFails(s) \/ RespEnded(s) \/ ConsentTimeout(s)
      BY <1>1, <2>2 DEF ConnectFails, RespEnded, ConsentTimeout, link
    <2>3. CASE IniReject(s)
      BY <1>0, <2>3, RejectClose DEF Grows
    <2>4. CASE \/ Cut(s) \/ IniPinned(s) \/ IniFailed(s) \/ IniAccept(s) \/ IniAbandon(s)
               \/ RespRequest(s) \/ Consented(s) \/ RespAwaited(s) \/ RespLoop(s)
               \/ FfiReader(s)
               \/ \E x \in Sides : FfiClose(s, x) \/ \E yes \in BOOLEAN : FfiConfirm(s, x, yes)
      BY <1>0, <2>4, Sends DEF StepTypeOK, Grows
    <2> QED
      BY <1>2, <2>1, <2>2, <2>3, <2>4 DEF Session, Connect, FfiBegin
  <1>3. CASE Prompts
    BY <1>1, <1>3 DEF Prompts, Answer, Unpair, Decide, AnswerTooLate, AnswerRemoves, Expire, link
  <1>4. CASE UNCHANGED vars
    BY <1>1, <1>4 DEF vars, link
  <1> QED
    BY <1>2, <1>3, <1>4, NextIs

LEMMA StepTypeNext ==
  ASSUME TypeOK, [Next]_vars
  PROVE  LinkTypeOK' /\ StepTypeOK'
  <1>0. /\ LinkTypeOK /\ StepTypeOK
        /\ "A" \in Sides /\ "B" \in Sides
    BY TypeParts DEF Sides
  <1> USE DEF LinkTypeOK, StepTypeOK, Hangs
  <1>1. ASSUME NEW s \in Sessions, Session(s) PROVE LinkTypeOK' /\ StepTypeOK'
    <2>1. CASE Cut(s)
      BY <1>0, <2>1 DEF Cut
    <2>2. CASE Requests(s)
      BY <1>0, <2>2 DEF Requests
    <2>3. CASE ConnectFails(s) \/ ConsentTimeout(s)
      BY <1>0, <2>3 DEF ConnectFails, ConsentTimeout, link
    <2>4. CASE IniAccept(s) \/ IniReject(s)
      <3>1. LinkTypeOK'
        BY <1>0, <2>4, SMTT(30) DEF IniAccept, IniReject
      <3>2. ini' \in [Sessions -> {"idle", "confirm", "await", "sent", "done"}]
            /\ resp' = resp
        BY <1>0, <2>4 DEF IniAccept, IniReject
      <3>3. said' \in [Sessions -> [Sides -> {"none", "yes", "no"}]]
        <4>1. CASE IniAccept(s)
          BY <1>0, <4>1, SaidNext, "yes" \in Words DEF IniAccept, Words
        <4>2. CASE IniReject(s)
          BY <1>0, <4>2, SaidNext, "no" \in Words DEF IniReject, Words
        <4> QED
          BY <2>4, <4>1, <4>2
      <3> QED
        BY <1>0, <3>1, <3>2, <3>3
    <2>4a. CASE IniAbandon(s)
      BY <1>0, <2>4a DEF IniAbandon
    <2>5. CASE IniPinned(s) \/ IniFailed(s)
      BY <1>0, <2>5 DEF IniPinned, IniFailed
    <2>6. CASE RespRequest(s) \/ Consented(s)
      <3>1. LinkTypeOK' /\ ini' = ini
        BY <1>0, <2>6 DEF RespRequest, Consented
      <3>2. resp' \in [Sessions -> {"idle", "loop", "consent", "confirm", "await",
                                    "sent", "done"}]
        BY <1>0, <2>6 DEF RespRequest, Consented
      <3>3. said' = said \/ said' = [said EXCEPT ![s]["B"] = "yes"]
                         \/ said' = [said EXCEPT ![s]["B"] = "no"]
        BY <2>6 DEF RespRequest, Consented
      <3>4. said' \in [Sessions -> [Sides -> {"none", "yes", "no"}]]
        BY <1>0, <3>3, SaidNext DEF Words
      <3> QED
        BY <1>0, <3>1, <3>2, <3>4
    <2>7. CASE RespAwaited(s) \/ RespLoop(s) \/ RespEnded(s) \/ FfiReader(s)
      BY <1>0, <2>7 DEF RespAwaited, RespLoop, RespEnded, FfiReader
    <2>8. ASSUME NEW x \in Sides, FfiClose(s, x) PROVE LinkTypeOK' /\ StepTypeOK'
      BY <1>0, <2>8 DEF FfiClose
    <2>9. ASSUME NEW x \in Sides, NEW yes \in BOOLEAN, FfiConfirm(s, x, yes)
          PROVE  LinkTypeOK' /\ StepTypeOK'
      BY <1>0, <2>9 DEF FfiConfirm
    <2> QED
      BY <1>1, <2>1, <2>2, <2>3, <2>4, <2>4a, <2>5, <2>6, <2>7, <2>8, <2>9
      DEF Session, Connect, FfiBegin
  <1>2. CASE Prompts
    BY <1>0, <1>2
    DEF Prompts, Answer, Unpair, Decide, AnswerTooLate, AnswerRemoves, Expire, link
  <1>3. CASE UNCHANGED vars
    BY <1>0, <1>3 DEF vars, link
  <1> QED
    BY <1>1, <1>2, <1>3, NextIs

LEMMA PromptTypeNext ==
  ASSUME TypeOK, [Next]_vars
  PROVE  KindTypeOK' /\ PromptTypeOK'
  <1>0. /\ KindTypeOK /\ PromptTypeOK /\ Sessions \subseteq 0..N /\ 0 \in 0..N
    BY TypeParts, PairingConstants, SMTT(30) DEF Sessions
  <1> USE DEF KindTypeOK, PromptTypeOK, users
  <1>1. ASSUME NEW s \in Sessions, Session(s) PROVE KindTypeOK' /\ PromptTypeOK'
    <2>1. CASE UNCHANGED <<kind, offer, rx, users, removing>>
      BY <1>0, <2>1
    <2>2. CASE RespRequest(s)
      BY <1>0, <2>2 DEF RespRequest
    <2>3. CASE Consented(s)
      BY <1>0, <2>3 DEF Consented, Unkeyed
    <2>4. CASE ConsentTimeout(s)
      BY <1>0, <2>4 DEF ConsentTimeout
    <2>5. CASE Cut(s) \/ Requests(s) \/ ConnectFails(s)
      BY <2>1, <2>5 DEF Cut, Requests, ConnectFails
    <2>6. CASE IniAccept(s) \/ IniReject(s) \/ IniAbandon(s) \/ IniPinned(s) \/ IniFailed(s)
      BY <2>1, <2>6 DEF IniAccept, IniReject, IniAbandon, IniPinned, IniFailed
    <2>7. CASE RespAwaited(s) \/ RespLoop(s) \/ RespEnded(s) \/ FfiReader(s)
      BY <2>1, <2>7 DEF RespAwaited, RespLoop, RespEnded, FfiReader
    <2>8. CASE \E x \in Sides : FfiClose(s, x) \/ \E yes \in BOOLEAN : FfiConfirm(s, x, yes)
      BY <2>1, <2>8 DEF FfiClose, FfiConfirm
    <2> QED
      BY <1>1, <2>2, <2>3, <2>4, <2>5, <2>6, <2>7, <2>8 DEF Session, Connect, FfiBegin
  <1>2. CASE \E yes \in BOOLEAN : Answer(yes)
    BY <1>0, <1>2 DEF Answer
  <1>3. CASE Unpair \/ Decide \/ AnswerTooLate
    BY <1>0, <1>3 DEF Unpair, Decide, AnswerTooLate
  <1>4. CASE AnswerRemoves \/ Expire
    BY <1>0, <1>4 DEF AnswerRemoves, Expire, Unkeyed
  <1>5. CASE UNCHANGED vars
    BY <1>0, <1>5 DEF vars
  <1> QED
    BY <1>1, <1>2, <1>3, <1>4, <1>5, NextIs DEF Prompts

LEMMA PinTypeNext ==
  ASSUME TypeOK, [Next]_vars
  PROVE  PinTypeOK'
  <1>0. PinTypeOK /\ "A" \in Sides /\ "B" \in Sides
    BY TypeParts DEF Sides
  <1>1. CASE UNCHANGED <<db, pins, failed>>
    BY <1>0, <1>1 DEF PinTypeOK
  <1>2. ASSUME NEW s \in Sessions, NEW x \in Sides, Pin(s, x) PROVE PinTypeOK'
    <2>1. pins' \in [Sides -> SUBSET Sessions]
      BY <1>0, <1>2 DEF Pin, PinTypeOK
    <2>2. db' \in BOOLEAN
      BY <1>0, <1>2 DEF Pin, PinTypeOK
    <2>3. failed' \in [Sides -> SUBSET Sessions]
      BY <1>0, <1>2 DEF Pin, PinTypeOK
    <2> QED
      BY <2>1, <2>2, <2>3 DEF PinTypeOK
  <1>3. CASE Unpair
    BY <1>0, <1>3 DEF Unpair, PinTypeOK
  <1>4. ASSUME NEW s \in Sessions, Session(s) PROVE PinTypeOK'
    <2>1. CASE Cut(s) \/ Requests(s) \/ ConnectFails(s) \/ ConsentTimeout(s)
      BY <1>1, <2>1 DEF Cut, Requests, ConnectFails, ConsentTimeout
    <2>2. CASE IniAccept(s) \/ IniReject(s) \/ IniAbandon(s) \/ IniPinned(s) \/ IniFailed(s)
      BY <1>0, <1>1, <1>2, <2>2 DEF IniAccept, IniReject, IniAbandon, IniPinned, IniFailed
    <2>3. CASE RespRequest(s) \/ Consented(s) \/ RespLoop(s) \/ RespEnded(s) \/ FfiReader(s)
      BY <1>1, <2>3 DEF RespRequest, Consented, RespLoop, RespEnded, FfiReader
    <2>4. CASE RespAwaited(s)
      BY <1>0, <1>1, <1>2, <2>4 DEF RespAwaited
    <2>5. CASE \E x \in Sides : FfiClose(s, x) \/ \E yes \in BOOLEAN : FfiConfirm(s, x, yes)
      BY <1>1, <1>2, <2>5 DEF FfiClose, FfiConfirm
    <2> QED
      BY <1>4, <2>1, <2>2, <2>3, <2>4, <2>5 DEF Session, Connect, FfiBegin
  <1>5. CASE Prompts /\ ~Unpair
    BY <1>1, <1>5 DEF Prompts, Answer, Decide, AnswerTooLate, AnswerRemoves, Expire
  <1>6. CASE UNCHANGED vars
    BY <1>1, <1>6 DEF vars
  <1> QED
    BY <1>3, <1>4, <1>5, <1>6, NextIs

LEMMA InitType == Init => TypeOK /\ Front(net)
  <1> SUFFICES ASSUME Init PROVE TypeOK /\ Front(net)
    OBVIOUS
  <1>1. net \in NetType /\ Front(net)
    BY SMTT(30) DEF Init, NetType, Front, Sides
  <1>2. LinkTypeOK /\ StepTypeOK
    BY DEF Init, LinkTypeOK, StepTypeOK
  <1>3. KindTypeOK
    BY DEF Init, KindTypeOK
  <1>4. PromptTypeOK
    BY PairingConstants, SMTT(30) DEF Init, PromptTypeOK
  <1>5. PinTypeOK
    BY DEF Init, PinTypeOK
  <1> QED
    BY <1>1, <1>2, <1>3, <1>4, <1>5, TypeParts

LEMMA TypeNext == TypeOK /\ Front(net) /\ [Next]_vars => TypeOK' /\ Front(net)'
  <1> SUFFICES ASSUME TypeOK, Front(net), [Next]_vars PROVE TypeOK' /\ Front(net')
    OBVIOUS
  <1>1. net' \in NetType /\ Front(net')
    BY NetNext
  <1>2. LinkTypeOK' /\ StepTypeOK' /\ KindTypeOK' /\ PromptTypeOK' /\ PinTypeOK'
    BY StepTypeNext, PromptTypeNext, PinTypeNext
  <1>3. TypeOK'
    BY <1>1, <1>2
    DEF TypeOK, NetType, LinkTypeOK, StepTypeOK, KindTypeOK, PromptTypeOK, PinTypeOK
  <1> QED
    BY <1>1, <1>3

(* The variables stay in their types (TypeOK), and PAIR_REQUEST is the     *)
(* first message of its session that B reads.                              *)
THEOREM TypeCorrect == Spec => [](TypeOK /\ Front(net))
  BY InitType, TypeNext, PTL DEF Spec

-----------------------------------------------------------------------------
(* Entries.                                                                *)

(* PinInv session by session.                                              *)
LocalAsks(s) ==
  Holds(net, s, "B", "request") => resp[s] = "loop" /\ said[s]["B"] = "none" /\ rx[s] = "none"
LocalSilent(s) ==
  /\ ini[s] \in {"idle", "confirm"} => said[s]["A"] = "none"
  /\ resp[s] \in {"idle", "consent", "confirm"} => said[s]["B"] = "none"
  /\ ini[s] = "idle" => resp[s] = "idle"
  /\ resp[s] = "idle" => rx[s] = "none"
LocalSpoken(s) ==
  /\ ini[s] = "await" => said[s]["A"] = "yes"
  /\ resp[s] = "await" => said[s]["B"] = "yes"
  /\ \A x \in Sides : Holds(net, s, x, "accept") => said[s][Other(x)] = "yes"
LocalPins(s) ==
  \A x \in Sides : s \in pins[x] =>
    said[s][x] = "yes" /\ (kind[x] = "daemon" => said[s][Other(x)] = "yes")
Local(s) == LocalAsks(s) /\ LocalSilent(s) /\ LocalSpoken(s) /\ LocalPins(s)

LEMMA PinInvIs == PinInv <=> Front(net) /\ \A s \in Sessions : Local(s)
  BY SMTT(30) DEF PinInv, Asks, Silent, Spoken, PinMeansAgreed, Local, LocalAsks, LocalSilent,
         LocalSpoken, LocalPins

(* A step that says nothing new in session s.                              *)
LEMMA QuietStep ==
  ASSUME NEW s \in Sessions, Local(s), kind' = kind,
         said'[s] = said[s], \A x \in Sides : s \in pins'[x] => s \in pins[x],
         \A y \in Sides : Holds(net', s, y, "accept") => Holds(net, s, y, "accept"),
         Holds(net', s, "B", "request")
           => Holds(net, s, "B", "request") /\ resp'[s] = resp[s],
         rx[s] = "none" /\ resp'[s] \in {"idle", "loop"} => rx'[s] = "none",
         ini'[s] = ini[s] \/ ini'[s] \in {"done", "sent"},
         \/ resp'[s] = resp[s]
         \/ resp[s] # "idle" /\ resp'[s] \in {"loop", "done", "sent"}
         \/ ini'[s] = "done" /\ resp'[s] = "done"
  PROVE  Local(s)'
  <1>0. "A" \in Sides /\ "B" \in Sides
    BY DEF Sides
  <1>1. LocalAsks(s)'
    BY <1>0 DEF Local, LocalAsks
  <1>2. LocalSilent(s)'
    BY DEF Local, LocalSilent
  <1>3. LocalSpoken(s)'
    BY DEF Local, LocalSpoken
  <1>4. LocalPins(s)'
    BY DEF Local, LocalPins
  <1> QED
    BY <1>1, <1>2, <1>3, <1>4 DEF Local

(* A step of session s leaves the others alone; B's prompts never return   *)
(* to "none".                                                              *)
LEMMA OthersStay ==
  ASSUME TypeOK, Front(net), NEW s \in Sessions, Session(s)
  PROVE  /\ kind' = kind
         /\ \A t \in Sessions \ {s} :
              /\ ini'[t] = ini[t] /\ resp'[t] = resp[t] /\ said'[t] = said[t]
              /\ rx[t] = "none" => rx'[t] = "none"
              /\ \A x \in Sides : t \in pins'[x] => t \in pins[x]
              /\ \A y \in Sides, k \in Messages : Holds(net', t, y, k) => Holds(net, t, y, k)
  <1>0. /\ net \in NetType /\ StepTypeOK /\ PromptTypeOK /\ PinTypeOK
        /\ "A" \in Sides /\ "B" \in Sides
    BY TypeParts DEF Sides
  <1>1. kind' = kind
    BY DEF Session, Cut, Connect, FfiBegin, Requests, ConnectFails, IniReject, IniPinned,
           IniFailed, IniAccept, IniAbandon, RespRequest, Consented, RespAwaited, RespLoop,
           RespEnded, FfiReader, ConsentTimeout, FfiClose, FfiConfirm
  <1>2. \A t \in Sessions \ {s} : ini'[t] = ini[t]
    BY <1>0
    DEF Session, Cut, Connect, FfiBegin, Requests, ConnectFails, IniReject, IniPinned,
        IniFailed, IniAccept, IniAbandon, RespRequest, Consented, RespAwaited, RespLoop,
        RespEnded, FfiReader, ConsentTimeout, FfiClose, FfiConfirm, StepTypeOK
  <1>3. \A t \in Sessions \ {s} : resp'[t] = resp[t]
    BY <1>0
    DEF Session, Cut, Connect, FfiBegin, Requests, ConnectFails, IniReject, IniPinned,
        IniFailed, IniAccept, IniAbandon, RespRequest, Consented, RespAwaited, RespLoop,
        RespEnded, FfiReader, ConsentTimeout, FfiClose, FfiConfirm, StepTypeOK
  <1>4. \A t \in Sessions \ {s} : said'[t] = said[t]
    BY <1>0
    DEF Session, Cut, Connect, FfiBegin, Requests, ConnectFails, IniReject, IniPinned,
        IniFailed, IniAccept, IniAbandon, RespRequest, Consented, RespAwaited, RespLoop,
        RespEnded, FfiReader, ConsentTimeout, FfiClose, FfiConfirm, StepTypeOK
  <1>5. \A t \in Sessions \ {s} : rx[t] = "none" => rx'[t] = "none"
    <2>1. CASE RespRequest(s) \/ Consented(s) \/ ConsentTimeout(s)
      BY <1>0, <2>1 DEF RespRequest, Consented, ConsentTimeout, Unkeyed, PromptTypeOK
    <2>2. CASE ~(RespRequest(s) \/ Consented(s) \/ ConsentTimeout(s))
      BY <2>2
      DEF Session, Cut, Connect, FfiBegin, Requests, ConnectFails, IniReject, IniPinned,
          IniFailed, IniAccept, IniAbandon, RespAwaited, RespLoop, RespEnded, FfiReader,
          FfiClose, FfiConfirm
    <2> QED
      BY <2>1, <2>2
  <1>6. \A t \in Sessions \ {s}, x \in Sides : t \in pins'[x] => t \in pins[x]
    <2>1. ASSUME NEW x \in Sides, Pin(s, x)
          PROVE  \A t \in Sessions \ {s}, y \in Sides : t \in pins'[y] => t \in pins[y]
      BY <1>0, <2>1 DEF Pin, PinTypeOK
    <2>2. pins' = pins \/ \E x \in Sides : Pin(s, x)
      BY <1>0
      DEF Session, Cut, Connect, FfiBegin, Requests, ConnectFails, IniReject, IniPinned,
          IniFailed, IniAccept, IniAbandon, RespRequest, Consented, RespAwaited, RespLoop,
          RespEnded, FfiReader, ConsentTimeout, FfiClose, FfiConfirm
    <2> QED
      BY <2>1, <2>2
  <1>7. \A t \in Sessions \ {s}, y \in Sides, k \in Messages :
          Holds(net', t, y, k) => Holds(net, t, y, k)
    <2>1. CASE Requests(s)
      BY <1>0, <2>1, RequestsSends
    <2>2. CASE ConnectFails(s) \/ RespEnded(s) \/ ConsentTimeout(s)
      BY <2>2 DEF ConnectFails, RespEnded, ConsentTimeout, link
    <2>3. CASE IniReject(s)
      BY <1>0, <2>3, RejectClose DEF Grows
    <2>4. CASE \/ Cut(s) \/ IniPinned(s) \/ IniFailed(s) \/ IniAccept(s) \/ IniAbandon(s)
               \/ RespRequest(s) \/ Consented(s) \/ RespAwaited(s) \/ RespLoop(s)
               \/ FfiReader(s)
               \/ \E x \in Sides : FfiClose(s, x) \/ \E yes \in BOOLEAN : FfiConfirm(s, x, yes)
      <3>1. \E x, ms : Grows(net', net, s, x, ms)
        BY <1>0, <2>4, Sends DEF StepTypeOK
      <3> QED
        BY <3>1 DEF Grows
    <2> QED
      BY <2>1, <2>2, <2>3, <2>4 DEF Session, Connect, FfiBegin
  <1> QED
    BY <1>1, <1>2, <1>3, <1>4, <1>5, <1>6, <1>7

(* What a user or a daemon says, it says once.                             *)
LEMMA SaysOnce ==
  ASSUME StepTypeOK, NEW s \in Sessions, Local(s), NEW x \in Sides, NEW v \in Words,
         said[s][x] = "none", said' = [said EXCEPT ![s][x] = v], kind' = kind,
         NEW ms, Grows(net', net, s, x, ms), "accept" \in ms => v = "yes",
         \A y \in Sides : s \in pins'[y] => s \in pins[y] \/ (y = x /\ kind[x] = "ffi" /\ v = "yes")
  PROVE  /\ \A y \in Sides : Holds(net', s, y, "accept") => said'[s][Other(y)] = "yes"
         /\ LocalPins(s)'
  <1>1. /\ said'[s][x] = v
        /\ \A y \in Sides : y # x => said'[s][y] = said[s][y]
    BY SaidNext
  <1>2. \A y \in Sides : y # x => y = Other(x) /\ Other(y) = x
    BY DEF Sides, Other
  <1>3. ASSUME NEW y \in Sides, Holds(net', s, y, "accept") PROVE said'[s][Other(y)] = "yes"
    <2>1. Holds(net, s, y, "accept") \/ (y = Other(x) /\ v = "yes")
      BY <1>3 DEF Grows, Messages
    <2>2. CASE Holds(net, s, y, "accept")
      BY <1>1, <2>2, OtherSide DEF Local, LocalSpoken
    <2>3. CASE y = Other(x) /\ v = "yes"
      BY <1>1, <2>3, OtherSide
    <2> QED
      BY <2>1, <2>2, <2>3
  <1>4. ASSUME NEW y \in Sides, s \in pins'[y]
        PROVE  said'[s][y] = "yes" /\ (kind'[y] = "daemon" => said'[s][Other(y)] = "yes")
    <2>1. CASE s \in pins[y]
      <3>1. said[s][y] = "yes" /\ (kind[y] = "daemon" => said[s][Other(y)] = "yes")
        BY <2>1 DEF Local, LocalPins
      <3> QED
        BY <1>1, <1>2, <3>1
    <2>2. CASE y = x /\ kind[x] = "ffi" /\ v = "yes"
      BY <1>1, <2>2
    <2> QED
      BY <1>4, <2>1, <2>2
  <1> QED
    BY <1>3, <1>4 DEF LocalPins

LEMMA LocalIni ==
  ASSUME TypeOK, Front(net), NEW s \in Sessions, Local(s)
  PROVE  /\ Requests(s) => Local(s)'
         /\ IniAccept(s) \/ IniReject(s) => Local(s)'
         /\ IniPinned(s) => Local(s)'
         /\ IniAbandon(s) \/ IniFailed(s) \/ Cut(s) \/ ConnectFails(s) => Local(s)'
  <1>0. /\ net \in NetType /\ StepTypeOK /\ PromptTypeOK /\ PinTypeOK
        /\ "A" \in Sides /\ "B" \in Sides /\ "accept" \in Messages /\ "request" \in Messages
    BY TypeParts DEF Sides, Messages
  <1>1. ASSUME Requests(s) PROVE Local(s)'
    <2>1. /\ resp[s] = "idle" /\ said[s]["A"] = "none" /\ said[s]["B"] = "none"
          /\ rx[s] = "none"
      BY <1>1 DEF Requests, Local, LocalSilent
    <2>2. /\ ini'[s] = "confirm" /\ resp'[s] = "loop"
          /\ UNCHANGED <<kind, said, rx, pins>>
      BY <1>0, <1>1 DEF Requests, StepTypeOK
    <2>3. \A y \in Sides : Holds(net', s, y, "accept") => Holds(net, s, y, "accept")
      BY <1>0, <1>1, RequestsSends
    <2>4. LocalAsks(s)' /\ LocalSilent(s)'
      BY <2>1, <2>2 DEF LocalAsks, LocalSilent
    <2>5. LocalSpoken(s)'
      BY <2>2, <2>3 DEF Local, LocalSpoken
    <2>6. LocalPins(s)'
      BY <2>2 DEF Local, LocalPins
    <2> QED
      BY <2>4, <2>5, <2>6 DEF Local
  <1>2. ASSUME IniAccept(s) \/ IniReject(s) PROVE Local(s)'
    <2>1. /\ ini[s] = "confirm" /\ said[s]["A"] = "none"
          /\ UNCHANGED <<kind, resp, rx, pins>>
      BY <1>2 DEF IniAccept, IniReject, Local, LocalSilent
    <2>2. PICK v \in {"yes", "no"} :
            /\ said' = [said EXCEPT ![s]["A"] = v]
            /\ ini'[s] = IF v = "yes" THEN "await" ELSE "done"
            /\ Grows(net', net, s, "A", IF v = "yes" THEN {"accept"} ELSE {"reject", "close"})
      <3>1. CASE IniAccept(s)
        BY <1>0, <3>1, Sends DEF IniAccept, StepTypeOK
      <3>2. CASE IniReject(s)
        BY <1>0, <3>2, RejectClose DEF IniReject, StepTypeOK
      <3> QED
        BY <1>2, <3>1, <3>2
    <2>3. said'[s]["A"] = v /\ said'[s]["B"] = said[s]["B"]
      <3>1. v \in Words /\ "A" # "B"
        BY DEF Words
      <3>2. /\ said'[s]["A"] = v
            /\ \A y \in Sides : y # "A" => said'[s][y] = said[s][y]
        BY <1>0, <2>2, <3>1, SaidNext
      <3> QED
        BY <1>0, <3>1, <3>2
    <2> DEFINE ms == IF v = "yes" THEN {"accept"} ELSE {"reject", "close"}
    <2>4. Grows(net', net, s, "A", ms) /\ ("accept" \in ms => v = "yes") /\ "request" \notin ms
      BY <2>2
    <2> HIDE DEF ms
    <2>5. /\ \A y \in Sides : Holds(net', s, y, "accept") => said'[s][Other(y)] = "yes"
          /\ LocalPins(s)'
      BY <1>0, <2>1, <2>2, <2>4, SaysOnce DEF Words
    <2>6. Holds(net', s, "B", "request") => Holds(net, s, "B", "request")
      BY <1>0, <2>4 DEF Grows
    <2>7. LocalAsks(s)' /\ LocalSilent(s)'
      BY <2>1, <2>2, <2>3, <2>6 DEF Local, LocalAsks, LocalSilent
    <2>8. LocalSpoken(s)'
      BY <2>1, <2>2, <2>3, <2>5 DEF Local, LocalSpoken
    <2> QED
      BY <2>5, <2>7, <2>8 DEF Local
  <1>3. ASSUME IniPinned(s) PROVE Local(s)'
    <2>1. /\ kind["A"] = "daemon" /\ ini'[s] = "done" /\ pins' = [pins EXCEPT !["A"] = @ \cup {s}]
          /\ UNCHANGED <<kind, resp, said, rx>> /\ ini[s] = "await"
      BY <1>0, <1>3 DEF IniPinned, Pin, StepTypeOK
    <2>2. Grows(net', net, s, "A", {"close"})
      BY <1>0, <1>3, Sends DEF StepTypeOK
    <2>3. Next1(s, "A") = "accept"
      BY <1>3 DEF IniPinned
    <2>4. Holds(net, s, "A", "accept")
      BY <1>0, <2>3, GrowsTake
    <2>5. said[s]["A"] = "yes" /\ said[s]["B"] = "yes"
      BY <1>0, <2>1, <2>4 DEF Local, LocalSpoken, Other
    <2>6. \A y \in Sides, k \in {"request", "accept"} : Holds(net', s, y, k) => Holds(net, s, y, k)
      BY <1>0, <2>2 DEF Grows
    <2>7. LocalAsks(s)' /\ LocalSilent(s)' /\ LocalSpoken(s)'
      BY <1>0, <2>1, <2>6 DEF Local, LocalAsks, LocalSilent, LocalSpoken
    <2>8. LocalPins(s)'
      BY <2>1, <2>5 DEF LocalPins, Sides, Other
    <2> QED
      BY <2>7, <2>8 DEF Local
  <1>4. ASSUME IniAbandon(s) \/ IniFailed(s) \/ Cut(s) PROVE Local(s)'
    <2>1. Grows(net', net, s, "A", {})
      BY <1>0, <1>4, Sends DEF StepTypeOK
    <2>2. /\ \A y \in Sides : Holds(net', s, y, "accept") => Holds(net, s, y, "accept")
          /\ Holds(net', s, "B", "request") => Holds(net, s, "B", "request")
      BY <1>0, <2>1 DEF Grows
    <2>3. /\ UNCHANGED <<kind, said, pins, resp, rx>>
          /\ ini'[s] = ini[s] \/ ini'[s] = "done"
      BY <1>0, <1>4 DEF IniAbandon, IniFailed, Cut, StepTypeOK
    <2>4. /\ said'[s] = said[s] /\ \A x \in Sides : s \in pins'[x] => s \in pins[x]
          /\ resp'[s] = resp[s] /\ rx'[s] = rx[s] /\ kind' = kind
      BY <2>3
    <2>5. ini'[s] = ini[s] \/ ini'[s] \in {"done", "sent"}
      BY <2>3
    <2> QED
      BY <2>2, <2>4, <2>5, QuietStep
  <1>5. ASSUME ConnectFails(s) PROVE Local(s)'
    <2>1. /\ UNCHANGED <<kind, said, pins, net, rx>> /\ ini'[s] = "done" /\ resp'[s] = "done"
          /\ resp[s] = "idle"
      BY <1>0, <1>5 DEF ConnectFails, link, StepTypeOK, Local, LocalSilent
    <2>2. ~Holds(net', s, "B", "request")
      BY <2>1 DEF Local, LocalAsks
    <2> QED
      BY <2>1, <2>2, QuietStep
  <1> QED
    BY <1>1, <1>2, <1>3, <1>4, <1>5

LEMMA HeadRequest ==
  ASSUME net \in NetType, Front(net), NEW s \in Sessions, Holds(net, s, "B", "request")
  PROVE  Next1(s, "B") = "request"
  <1>0. net[s]["B"] \in Seq(Messages)
    BY DEF NetType, Sides
  <1>1. PICK i \in 1..Len(net[s]["B"]) : net[s]["B"][i] = "request"
    BY DEF Holds
  <1>2. i = 1
    BY <1>1 DEF Front
  <1> QED
    BY <1>0, <1>1, <1>2, SMTT(30) DEF Next1

LEMMA LocalResp ==
  ASSUME TypeOK, Front(net), NEW s \in Sessions, Local(s)
  PROVE  /\ RespRequest(s) => Local(s)'
         /\ Consented(s) => Local(s)'
         /\ RespAwaited(s) => Local(s)'
         /\ RespLoop(s) \/ RespEnded(s) \/ ConsentTimeout(s) => Local(s)'
  <1>0. /\ net \in NetType /\ StepTypeOK /\ PromptTypeOK /\ PinTypeOK
        /\ "A" \in Sides /\ "B" \in Sides /\ "accept" \in Messages /\ "request" \in Messages
    BY TypeParts DEF Sides, Messages
  <1>1. ASSUME RespRequest(s) PROVE Local(s)'
    <2>1. Next1(s, "B") = "request" /\ Next1(s, "B") # "nothing" /\ resp[s] = "loop"
      BY <1>1 DEF RespRequest
    <2>2. Holds(net, s, "B", "request") /\ ~Holds(Take(s, "B"), s, "B", "request")
      BY <1>0, <2>1, GrowsTake
    <2>3. said[s]["B"] = "none" /\ ini[s] # "idle"
      BY <2>1, <2>2 DEF Local, LocalAsks, LocalSilent
    <2>4. UNCHANGED <<kind, ini, pins>>
      BY <1>1 DEF RespRequest
    <2>5. CASE watched
      <3>1. said' = said /\ resp'[s] = "consent" /\ net' = Take(s, "B")
        BY <1>0, <1>1, <2>5 DEF RespRequest, StepTypeOK
      <3>2. \A y \in Sides : Holds(net', s, y, "accept") => Holds(net, s, y, "accept")
        BY <1>0, <2>1, <3>1, GrowsTake DEF Grows
      <3>3. LocalAsks(s)' /\ LocalSilent(s)' /\ LocalSpoken(s)' /\ LocalPins(s)'
        BY <2>2, <2>3, <2>4, <3>1, <3>2
        DEF Local, LocalAsks, LocalSilent, LocalSpoken, LocalPins
      <3> QED
        BY <3>3 DEF Local
    <2>6. CASE ~watched
      <3>1. /\ said' = [said EXCEPT ![s]["B"] = "yes"] /\ resp'[s] = "await"
            /\ net' = Put(s, "B", "accept", Take(s, "B"))
        BY <1>0, <1>1, <2>6 DEF RespRequest, StepTypeOK
      <3>2. Grows(net', net, s, "B", {"accept"})
        BY <1>0, <2>1, <3>1, TakePut DEF Messages
      <3>3. ~Holds(net', s, "B", "request")
        <4>1. Take(s, "B") \in NetType
          BY <1>0, <2>1, GrowsTake DEF Grows
        <4> DEFINE n == Take(s, "B")
        <4> HIDE DEF n
        <4>2. Put(s, "B", "accept", n)[s]["B"] = n[s]["B"]
          BY <1>0, <4>1 DEF Put, NetType, Other, n
        <4> QED
          BY <2>2, <3>1, <4>2 DEF Holds, n
      <3>4. "yes" \in Words /\ "A" # "B"
        BY DEF Words
      <3>5. /\ \A y \in Sides : Holds(net', s, y, "accept") => said'[s][Other(y)] = "yes"
            /\ LocalPins(s)'
        BY <1>0, <2>3, <2>4, <3>1, <3>2, <3>4, SaysOnce
      <3>6. /\ said'[s]["B"] = "yes"
            /\ \A y \in Sides : y # "B" => said'[s][y] = said[s][y]
        BY <1>0, <3>1, <3>4, SaidNext
      <3>7. said'[s]["A"] = said[s]["A"]
        BY <1>0, <3>4, <3>6
      <3>8. LocalAsks(s)' /\ LocalSilent(s)' /\ LocalSpoken(s)'
        BY <2>3, <2>4, <3>1, <3>3, <3>5, <3>6, <3>7
        DEF Local, LocalAsks, LocalSilent, LocalSpoken
      <3> QED
        BY <3>5, <3>8 DEF Local
    <2> QED
      BY <2>5, <2>6
  <1>2. ASSUME Consented(s) PROVE Local(s)'
    <2>1. resp[s] = "consent" /\ said[s]["B"] = "none" /\ UNCHANGED <<kind, ini, pins>>
          /\ ini[s] # "idle"
      BY <1>2 DEF Consented, Local, LocalSilent
    <2>2. PICK v \in {"yes", "no"} :
            /\ said' = [said EXCEPT ![s]["B"] = v]
            /\ resp'[s] = IF v = "yes" THEN "await" ELSE "loop"
            /\ Grows(net', net, s, "B", {IF v = "yes" THEN "accept" ELSE "reject"})
      <3>1. Grows(net', net, s, "B", {IF rx[s] = "yes" THEN "accept" ELSE "reject"})
        BY <1>0, <1>2, Sends DEF StepTypeOK
      <3>2. CASE rx[s] = "yes"
        BY <1>0, <1>2, <3>1, <3>2 DEF Consented, StepTypeOK
      <3>3. CASE rx[s] # "yes"
        BY <1>0, <1>2, <3>1, <3>3 DEF Consented, StepTypeOK
      <3> QED
        BY <3>2, <3>3
    <2> DEFINE ms == {IF v = "yes" THEN "accept" ELSE "reject"}
    <2>3. Grows(net', net, s, "B", ms) /\ ("accept" \in ms => v = "yes") /\ "request" \notin ms
      BY <2>2
    <2> HIDE DEF ms
    <2>4. v \in Words /\ "A" # "B"
      BY DEF Words
    <2>5. /\ \A y \in Sides : Holds(net', s, y, "accept") => said'[s][Other(y)] = "yes"
          /\ LocalPins(s)'
      BY <1>0, <2>1, <2>2, <2>3, <2>4, SaysOnce
    <2>6. /\ said'[s]["B"] = v
          /\ \A y \in Sides : y # "B" => said'[s][y] = said[s][y]
      BY <1>0, <2>2, <2>4, SaidNext
    <2>7. said'[s]["A"] = said[s]["A"]
      BY <1>0, <2>4, <2>6
    <2>8. ~Holds(net', s, "B", "request")
      BY <1>0, <2>1, <2>3 DEF Grows, Local, LocalAsks
    <2>9. LocalAsks(s)' /\ LocalSilent(s)' /\ LocalSpoken(s)'
      BY <2>1, <2>2, <2>5, <2>6, <2>7, <2>8
      DEF Local, LocalAsks, LocalSilent, LocalSpoken
    <2> QED
      BY <2>5, <2>9 DEF Local
  <1>3. ASSUME RespAwaited(s) PROVE Local(s)'
    <2>1. /\ kind["B"] = "daemon" /\ resp[s] = "await" /\ resp'[s] = "loop"
          /\ Next1(s, "B") # "nothing" /\ net' = Take(s, "B")
          /\ UNCHANGED <<kind, ini, said, rx>>
      BY <1>0, <1>3 DEF RespAwaited, StepTypeOK
    <2>2. /\ Grows(net', net, s, "B", {})
          /\ Holds(net, s, "B", Next1(s, "B"))
      BY <1>0, <2>1, GrowsTake
    <2>3. /\ \A y \in Sides : Holds(net', s, y, "accept") => Holds(net, s, y, "accept")
          /\ ~Holds(net', s, "B", "request")
      BY <1>0, <2>1, <2>2, GrowsTake DEF Grows
    <2>4. said[s]["B"] = "yes"
      BY <2>1 DEF Local, LocalSpoken
    <2>5. Next1(s, "B") = "accept" => said[s]["A"] = "yes"
      BY <1>0, <2>2 DEF Local, LocalSpoken, Other
    <2>6. pins' = pins \/ (Next1(s, "B") = "accept" /\ pins' = [pins EXCEPT !["B"] = @ \cup {s}])
      BY <1>3 DEF RespAwaited, Pin
    <2>7. LocalAsks(s)' /\ LocalSilent(s)' /\ LocalSpoken(s)'
      BY <2>1, <2>3 DEF Local, LocalAsks, LocalSilent, LocalSpoken
    <2>8. LocalPins(s)'
      <3>1. CASE pins' = pins
        BY <2>1, <3>1 DEF Local, LocalPins
      <3>2. CASE Next1(s, "B") = "accept" /\ pins' = [pins EXCEPT !["B"] = @ \cup {s}]
        BY <2>1, <2>4, <2>5, <3>2 DEF LocalPins, Sides, Other
      <3> QED
        BY <2>6, <3>1, <3>2
    <2> QED
      BY <2>7, <2>8 DEF Local
  <1>4. ASSUME RespLoop(s) PROVE Local(s)'
    <2>1. /\ UNCHANGED <<kind, said, pins, ini, rx>> /\ resp[s] = "loop"
          /\ resp'[s] \in {"loop", "done"} /\ Next1(s, "B") # "request"
      BY <1>0, <1>4 DEF RespLoop, StepTypeOK
    <2>2. Grows(net', net, s, "B", {"close"})
      BY <1>0, <1>4, Sends DEF StepTypeOK
    <2>3. /\ \A y \in Sides : Holds(net', s, y, "accept") => Holds(net, s, y, "accept")
          /\ Holds(net', s, "B", "request") => Holds(net, s, "B", "request")
      BY <1>0, <2>2 DEF Grows
    <2>4. ~Holds(net', s, "B", "request")
      BY <1>0, <2>1, <2>3, HeadRequest
    <2> QED
      BY <2>1, <2>3, <2>4, QuietStep
  <1>5. ASSUME RespEnded(s) PROVE Local(s)'
    <2>1. /\ UNCHANGED <<kind, said, pins, ini, rx, net>> /\ resp[s] \in {"loop", "await"}
          /\ resp'[s] = "done" /\ Next1(s, "B") = "nothing"
      BY <1>0, <1>5 DEF RespEnded, StepTypeOK, Ended, Next1
    <2>2. ~Holds(net', s, "B", "request")
      BY <1>0, <2>1, HeadRequest
    <2> QED
      BY <2>1, <2>2, QuietStep
  <1>6. ASSUME ConsentTimeout(s) PROVE Local(s)'
    <2>1. UNCHANGED <<kind, said, pins, ini, resp, net>> /\ rx[s] = "open"
      BY <1>6 DEF ConsentTimeout, link
    <2> QED
      BY <2>1, QuietStep
  <1> QED
    BY <1>1, <1>2, <1>3, <1>4, <1>5, <1>6

LEMMA LocalFfi ==
  ASSUME TypeOK, Front(net), NEW s \in Sessions, Local(s)
  PROVE  /\ FfiReader(s) => Local(s)'
         /\ \A x \in Sides : FfiClose(s, x) => Local(s)'
         /\ \A x \in Sides, yes \in BOOLEAN : FfiConfirm(s, x, yes) => Local(s)'
  <1>0. /\ net \in NetType /\ StepTypeOK /\ PromptTypeOK /\ PinTypeOK
        /\ "A" \in Sides /\ "B" \in Sides /\ "accept" \in Messages /\ "request" \in Messages
    BY TypeParts DEF Sides, Messages
  <1>1. ASSUME FfiReader(s) PROVE Local(s)'
    <2>1. /\ Next1(s, "B") # "nothing" /\ net' = Take(s, "B") /\ resp[s] = "loop"
          /\ resp'[s] = IF Next1(s, "B") = "request" THEN "confirm" ELSE "sent"
          /\ UNCHANGED <<kind, ini, said, rx, pins>>
      BY <1>0, <1>1 DEF FfiReader, StepTypeOK
    <2>2. /\ Grows(net', net, s, "B", {}) /\ ~Holds(net', s, "B", "request")
          /\ Holds(net, s, "B", Next1(s, "B"))
      BY <1>0, <2>1, GrowsTake
    <2>3. \A y \in Sides : Holds(net', s, y, "accept") => Holds(net, s, y, "accept")
      BY <1>0, <2>2 DEF Grows
    <2>4. LocalAsks(s)' /\ LocalSpoken(s)' /\ LocalPins(s)'
      BY <2>1, <2>2, <2>3 DEF Local, LocalAsks, LocalSpoken, LocalPins
    <2>5. LocalSilent(s)'
      BY <2>1, <2>2 DEF Local, LocalAsks, LocalSilent
    <2> QED
      BY <2>4, <2>5 DEF Local
  <1>2. ASSUME NEW x \in Sides, FfiClose(s, x) PROVE Local(s)'
    <2>1. /\ UNCHANGED <<kind, said, rx, pins>>
          /\ net' = Put(s, x, "close", Unread(s, x, net))
      BY <1>2 DEF FfiClose
    <2>2. "close" \in Messages \ {"request"}
      BY DEF Messages
    <2>3. Grows(net', net, s, x, {"close"}) /\ net'[s][x] = <<>>
      BY <1>0, <2>1, <2>2, UnreadPut
    <2>4. /\ \A y \in Sides : Holds(net', s, y, "accept") => Holds(net, s, y, "accept")
          /\ Holds(net', s, "B", "request") => Holds(net, s, "B", "request")
      BY <1>0, <2>3 DEF Grows
    <2>5. CASE x = "A"
      <3>1. ini'[s] = "done" /\ resp' = resp
        BY <1>0, <1>2, <2>5 DEF FfiClose, StepTypeOK
      <3> QED
        BY <2>1, <2>4, <3>1, QuietStep
    <2>6. CASE x = "B"
      <3>1. ini' = ini /\ resp[s] # "idle" /\ resp'[s] = "done"
        BY <1>0, <1>2, <2>6 DEF FfiClose, StepTypeOK, At
      <3>2. ~Holds(net', s, "B", "request")
        BY <2>3, <2>6, SMTT(30) DEF Holds
      <3> QED
        BY <2>1, <2>4, <3>1, <3>2, QuietStep
    <2> QED
      BY <2>5, <2>6 DEF Sides
  <1>3. ASSUME NEW x \in Sides, NEW yes \in BOOLEAN, FfiConfirm(s, x, yes) PROVE Local(s)'
    <2>1. /\ At(s, x) = "confirm" /\ kind[x] = "ffi" /\ UNCHANGED <<kind, rx>>
      BY <1>3 DEF FfiConfirm
    <2>2. said[s][x] = "none" /\ ini[s] # "idle"
      BY <2>1 DEF At, Sides, Local, LocalSilent
    <2>3. PICK v \in {"yes", "no"} :
            /\ said' = [said EXCEPT ![s][x] = v]
            /\ v = "yes" <=> yes
      BY <1>3 DEF FfiConfirm
    <2> DEFINE ms == {IF yes THEN "accept" ELSE "reject"}
    <2>4. Grows(net', net, s, x, ms)
      BY <1>0, <1>3, Sends DEF StepTypeOK
    <2>5. ("accept" \in ms => v = "yes") /\ "request" \notin ms
      BY <2>3
    <2> HIDE DEF ms
    <2>6. \A y \in Sides : s \in pins'[y] => s \in pins[y] \/ (y = x /\ kind[x] = "ffi" /\ v = "yes")
      <3>1. pins' = pins \/ (yes /\ pins' = [pins EXCEPT ![x] = @ \cup {s}])
        BY <1>3 DEF FfiConfirm, Pin
      <3> QED
        BY <1>0, <2>1, <2>3, <3>1 DEF PinTypeOK
    <2>7. v \in Words
      BY DEF Words
    <2>8. /\ \A y \in Sides : Holds(net', s, y, "accept") => said'[s][Other(y)] = "yes"
          /\ LocalPins(s)'
      BY <1>0, <2>1, <2>2, <2>3, <2>4, <2>5, <2>6, <2>7, SaysOnce
    <2>9. \A y \in Sides : y # x => said'[s][y] = said[s][y]
      BY <1>0, <2>3, <2>7, SaidNext
    <2>10. Holds(net', s, "B", "request") => Holds(net, s, "B", "request")
      BY <1>0, <2>4, <2>5 DEF Grows
    <2>11. CASE x = "A"
      <3>1. ini'[s] = "sent" /\ resp' = resp /\ said'[s]["B"] = said[s]["B"]
        BY <1>0, <1>3, <2>9, <2>11 DEF FfiConfirm, StepTypeOK
      <3>2. LocalAsks(s)' /\ LocalSilent(s)' /\ LocalSpoken(s)'
        BY <2>1, <2>8, <2>10, <3>1 DEF Local, LocalAsks, LocalSilent, LocalSpoken
      <3> QED
        BY <2>8, <3>2 DEF Local
    <2>12. CASE x = "B"
      <3>1. ini' = ini /\ resp[s] = "confirm" /\ resp'[s] = "sent" /\ said'[s]["A"] = said[s]["A"]
        BY <1>0, <1>3, <2>9, <2>12 DEF FfiConfirm, StepTypeOK, At
      <3>2. LocalAsks(s)' /\ LocalSilent(s)' /\ LocalSpoken(s)'
        BY <2>1, <2>2, <2>8, <2>10, <3>1 DEF Local, LocalAsks, LocalSilent, LocalSpoken
      <3> QED
        BY <2>8, <3>2 DEF Local
    <2> QED
      BY <2>11, <2>12 DEF Sides
  <1> QED
    BY <1>1, <1>2, <1>3

LEMMA PinNext == TypeOK /\ PinInv /\ [Next]_vars => PinInv'
  <1> SUFFICES ASSUME TypeOK, PinInv, [Next]_vars PROVE PinInv'
    OBVIOUS
  <1>0. /\ Front(net) /\ \A s \in Sessions : Local(s)
        /\ PromptTypeOK
    BY PinInvIs, TypeParts
  <1>1. Front(net')
    BY <1>0, NetNext
  <1>2. ASSUME NEW s \in Sessions, Session(s), NEW t \in Sessions PROVE Local(t)'
    <2>1. CASE t # s
      BY <1>0, <1>2, <2>1, OthersStay, QuietStep DEF Messages, Sides
    <2>2. CASE t = s
      BY <1>0, <1>2, <2>2, LocalIni, LocalResp, LocalFfi DEF Session, Connect, FfiBegin
    <2> QED
      BY <2>1, <2>2
  <1>3. ASSUME UNCHANGED <<kind, net, ini, resp, said, pins>>,
               \A t \in Sessions : rx[t] = "none" => rx'[t] = "none",
               NEW t \in Sessions
        PROVE  Local(t)'
    BY <1>0, <1>3, QuietStep
  <1>4. ASSUME Prompts, NEW t \in Sessions PROVE Local(t)'
    <2>1. UNCHANGED <<kind, net, ini, resp, said, pins>>
      BY <1>4 DEF Prompts, Answer, Unpair, Decide, AnswerTooLate, AnswerRemoves, Expire, link
    <2>2. \A u \in Sessions : rx[u] = "none" => rx'[u] = "none"
      BY <1>0, <1>4
      DEF Prompts, Answer, Unpair, Decide, AnswerTooLate, AnswerRemoves, Expire, Unkeyed,
          PromptTypeOK
    <2> QED
      BY <1>3, <2>1, <2>2
  <1>5. ASSUME UNCHANGED vars, NEW t \in Sessions PROVE Local(t)'
    BY <1>3, <1>5 DEF vars, link
  <1>6. \A t \in Sessions : Local(t)'
    BY <1>2, <1>4, <1>5, NextIs
  <1> QED
    BY <1>1, <1>6
    DEF PinInv, Asks, Silent, Spoken, PinMeansAgreed, Local, LocalAsks, LocalSilent,
        LocalSpoken, LocalPins

LEMMA PinInit == Init => PinInv
  <1> SUFFICES ASSUME Init PROVE PinInv
    OBVIOUS
  <1>1. Front(net) /\ "A" \in Sides /\ "B" \in Sides
    BY InitType DEF Sides
  <1>2. \A s \in Sessions, x \in Sides : net[s][x] = <<>> /\ said[s][x] = "none"
    BY DEF Init
  <1>3. \A s \in Sessions, x \in Sides, m \in Messages : ~Holds(net, s, x, m)
    BY <1>2, SMTT(30) DEF Holds
  <1>4. \A s \in Sessions : LocalAsks(s) /\ LocalSilent(s) /\ LocalSpoken(s) /\ LocalPins(s)
    BY <1>1, <1>2, <1>3
    DEF Init, LocalAsks, LocalSilent, LocalSpoken, LocalPins, Messages
  <1> QED
    BY <1>1, <1>4, PinInvIs DEF Local

(* An entry in paired.db is there on the word of both users, at a daemon,  *)
(* and of its own user, at a host of the FFI library (PinMeansAgreed).     *)
THEOREM EntriesAreAgreed == Spec => []PinMeansAgreed
  <1>1. PinInv => PinMeansAgreed
    BY DEF PinInv
  <1> QED
    BY <1>1, PinInit, PinNext, TypeCorrect, PTL DEF Spec

-----------------------------------------------------------------------------
(* Prompts.                                                                *)

(* A step that has nothing to do with prompts.                             *)
LEMMA PromptIdle ==
  ASSUME PromptInv, UNCHANGED <<offer, rx, prompt, reply, meant, removing>>,
         \A t \in Sessions : resp'[t] = resp[t] \/ (resp[t] # "consent" /\ resp'[t] # "consent")
  PROVE  PromptInv'
  BY DEF PromptInv, Keyed, Shown, Removing, RefusedOnlyToRival, Requested, AnswerMatchesPrompt

LEMMA PromptNext == TypeOK /\ PinInv /\ PromptInv /\ [Next]_vars => PromptInv'
  <1> SUFFICES ASSUME TypeOK, PinInv, PromptInv, [Next]_vars PROVE PromptInv'
    OBVIOUS
  <1>0. /\ net \in NetType /\ Front(net) /\ StepTypeOK /\ PromptTypeOK
        /\ "A" \in Sides /\ "B" \in Sides /\ 0 \notin Sessions
    BY TypeParts, PairingConstants, SMTT(30) DEF PinInv, Sides, Sessions
  <1>0a. offer # 0 => offer \in Sessions
    BY <1>0, PairingConstants, SMTT(30) DEF PromptTypeOK, Sessions
  <1>0b. prompt # 0 => prompt \in Sessions
    BY <1>0, PairingConstants, SMTT(30) DEF PromptTypeOK, Sessions
  <1>0c. reply # 0 => reply \in Sessions
    BY <1>0, PairingConstants, SMTT(30) DEF PromptTypeOK, Sessions
  <1>1. ASSUME NEW s \in Sessions, RespRequest(s) PROVE PromptInv'
    <2>1. Next1(s, "B") = "request" /\ Next1(s, "B") # "nothing" /\ resp[s] = "loop"
      BY <1>1 DEF RespRequest
    <2>2. rx[s] = "none"
      BY <1>0, <2>1, GrowsTake DEF PinInv, Asks
    <2>3. CASE watched
      <3>1. /\ resp'[s] = "consent" /\ rx'[s] = "open" /\ offer' = s /\ prompt' = s
            /\ \A t \in Sessions \ {s} :
                 /\ resp'[t] = resp[t]
                 /\ rx'[t] = IF t = offer /\ rx[t] = "open" THEN "dropped" ELSE rx[t]
            /\ UNCHANGED <<reply, meant, removing>>
        BY <1>0, <1>1, <2>3 DEF RespRequest, StepTypeOK
      <3>2. Keyed'
        BY <1>0, <3>1 DEF PromptInv, Keyed
      <3>3. Shown'
        BY <1>0, <3>1 DEF PromptInv, Shown
      <3>4. Removing'
        BY <1>0, <2>2, <3>1 DEF PromptInv, Removing
      <3>5. RefusedOnlyToRival'
        BY <1>0, <2>2, <3>1 DEF PromptInv, RefusedOnlyToRival, Requested
      <3>6. AnswerMatchesPrompt'
        BY <1>0, <2>2, <3>1 DEF PromptInv, AnswerMatchesPrompt
      <3> QED
        BY <3>2, <3>3, <3>4, <3>5, <3>6 DEF PromptInv
    <2>4. CASE ~watched
      <3>1. /\ UNCHANGED <<offer, rx, prompt, reply, meant, removing>>
            /\ resp' = [resp EXCEPT ![s] = "await"]
        BY <1>1, <2>4 DEF RespRequest
      <3>2. \A t \in Sessions : resp'[t] = resp[t] \/ (resp[t] # "consent" /\ resp'[t] # "consent")
        BY <1>0, <2>1, <3>1 DEF StepTypeOK
      <3> QED
        BY <3>1, <3>2, PromptIdle
    <2> QED
      BY <2>3, <2>4
  <1>2. ASSUME NEW s \in Sessions, Consented(s) PROVE PromptInv'
    <2>1. /\ resp[s] = "consent" /\ rx[s] # "open" /\ rx[s] # "none"
          /\ offer' = 0 /\ resp'[s] # "consent"
          /\ \A t \in Sessions \ {s} :
               /\ resp'[t] = resp[t]
               /\ rx'[t] = IF t = offer /\ rx[t] = "open" THEN "dropped" ELSE rx[t]
          /\ rx'[s] = rx[s]
          /\ UNCHANGED <<prompt, reply, meant, removing>>
      BY <1>0, <1>2 DEF Consented, StepTypeOK, PromptTypeOK, PromptInv, Keyed, Unkeyed, users
    <2>2. Keyed' /\ Shown'
      BY <1>0, <2>1 DEF PromptInv, Keyed, Shown
    <2>3. Removing'
      BY <1>0, <2>1 DEF PromptInv, Removing
    <2>4. RefusedOnlyToRival'
      BY <1>0, <2>1 DEF PromptInv, RefusedOnlyToRival, Requested
    <2>5. AnswerMatchesPrompt'
      BY <1>0, <2>1 DEF PromptInv, AnswerMatchesPrompt
    <2> QED
      BY <2>2, <2>3, <2>4, <2>5 DEF PromptInv
  <1>3. ASSUME NEW s \in Sessions, rx[s] = "open", rx' = [rx EXCEPT ![s] = "late"],
               offer' \in {0, offer}, UNCHANGED <<resp, prompt, reply, meant, removing>>
        PROVE  PromptInv'
    <2>1. rx'[s] = "late" /\ \A t \in Sessions \ {s} : rx'[t] = rx[t]
      BY <1>0, <1>3 DEF PromptTypeOK
    <2>2. Keyed' /\ Shown'
      BY <1>0, <1>3, <2>1 DEF PromptInv, Keyed, Shown
    <2>3. Removing'
      BY <1>0, <1>3, <2>1 DEF PromptInv, Removing
    <2>4. RefusedOnlyToRival' /\ AnswerMatchesPrompt'
      BY <1>0, <1>3, <2>1 DEF PromptInv, RefusedOnlyToRival, Requested, AnswerMatchesPrompt
    <2> QED
      BY <2>2, <2>3, <2>4 DEF PromptInv
  <1>4. CASE Expire
    BY <1>0a, <1>3, <1>4 DEF Expire, users
  <1>5. ASSUME NEW s \in Sessions, ConsentTimeout(s) PROVE PromptInv'
    BY <1>3, <1>5 DEF ConsentTimeout, users
  <1>6. ASSUME NEW yes \in BOOLEAN, Answer(yes) PROVE PromptInv'
    <2>1. /\ offer \in Sessions /\ rx[offer] = "open" /\ reply \in Sessions
          /\ rx'[offer] \in {"yes", "no"} /\ meant'[offer] = reply
          /\ \A t \in Sessions \ {offer} : rx'[t] = rx[t] /\ meant'[t] = meant[t]
          /\ reply' = 0 /\ removing' = "key" /\ UNCHANGED <<resp, offer, prompt>>
      BY <1>0, <1>0a, <1>0c, <1>6 DEF Answer, PromptTypeOK
    <2>2. Keyed' /\ Shown' /\ Removing'
      BY <1>0, <2>1 DEF PromptInv, Keyed, Shown, Removing
    <2>3. RefusedOnlyToRival'
      BY <1>0, <2>1 DEF PromptInv, RefusedOnlyToRival, Requested
    <2>4. reply = offer \/ rx[reply] \notin {"none", "open"}
      BY <2>1 DEF PromptInv, Keyed, Shown
    <2>5. AnswerMatchesPrompt'
      BY <1>0, <2>1, <2>4 DEF PromptInv, AnswerMatchesPrompt
    <2> QED
      BY <2>2, <2>3, <2>5 DEF PromptInv
  <1>7. CASE AnswerRemoves
    <2>1. /\ \A t \in Sessions :
               rx'[t] = IF t = offer /\ rx[t] = "open" THEN "dropped" ELSE rx[t]
          /\ removing = "key" /\ removing' = "none" /\ offer' = 0
          /\ UNCHANGED <<resp, prompt, reply, meant>>
      BY <1>7 DEF AnswerRemoves, Unkeyed, users
    <2>2. PICK u \in Sessions : rx[u] \in {"yes", "no"}
      BY <2>1 DEF PromptInv, Removing
    <2>3. Keyed' /\ Shown' /\ Removing'
      BY <1>0, <2>1 DEF PromptInv, Keyed, Shown, Removing
    <2>4. RefusedOnlyToRival'
      BY <1>0, <2>1, <2>2 DEF PromptInv, RefusedOnlyToRival, Requested
    <2>5. AnswerMatchesPrompt'
      BY <1>0, <2>1 DEF PromptInv, AnswerMatchesPrompt
    <2> QED
      BY <2>3, <2>4, <2>5 DEF PromptInv
  <1>8. CASE Decide \/ AnswerTooLate
    <2>1. /\ UNCHANGED <<resp, offer, rx, meant, removing>>
          /\ prompt' \in {0, prompt} /\ reply' \in {0, prompt}
      BY <1>8 DEF Decide, AnswerTooLate
    <2>2. Keyed' /\ Shown' /\ Removing'
      BY <1>0, <2>1 DEF PromptInv, Keyed, Shown, Removing
    <2>3. RefusedOnlyToRival' /\ AnswerMatchesPrompt'
      BY <2>1 DEF PromptInv, RefusedOnlyToRival, Requested, AnswerMatchesPrompt
    <2> QED
      BY <2>2, <2>3 DEF PromptInv
  <1>9. ASSUME NEW s \in Sessions, Session(s),
               ~(RespRequest(s) \/ Consented(s) \/ ConsentTimeout(s))
        PROVE  PromptInv'
    <2>1. UNCHANGED <<offer, rx, prompt, reply, meant, removing>>
      BY <1>9
      DEF Session, Cut, Connect, FfiBegin, Requests, ConnectFails, IniReject, IniPinned,
          IniFailed, IniAccept, IniAbandon, RespAwaited, RespLoop, RespEnded, FfiReader,
          FfiClose, FfiConfirm, users
    <2>2. ini[s] = "idle" => resp[s] = "idle"
      BY DEF PinInv, Silent
    <2>3. \A t \in Sessions : resp'[t] = resp[t] \/ (resp[t] # "consent" /\ resp'[t] # "consent")
      BY <1>0, <1>9, <2>2
      DEF Session, Cut, Connect, FfiBegin, Requests, ConnectFails, IniReject, IniPinned,
          IniFailed, IniAccept, IniAbandon, RespAwaited, RespLoop, RespEnded, FfiReader,
          FfiClose, FfiConfirm, StepTypeOK, At
    <2> QED
      BY <2>1, <2>3, PromptIdle
  <1>10. CASE Unpair \/ UNCHANGED vars
    BY <1>10, PromptIdle DEF Unpair, vars, users
  <1> QED
    BY <1>1, <1>2, <1>4, <1>5, <1>6, <1>7, <1>8, <1>9, <1>10, NextIs DEF Prompts

LEMMA PromptCorrect == Spec => []PromptInv
  <1>1. Init => PromptInv
    BY PairingConstants, SMTT(30)
    DEF Init, PromptInv, Keyed, Shown, Removing, RefusedOnlyToRival, Requested,
        AnswerMatchesPrompt, Sessions
  <1> QED
    BY <1>1, PinInit, PinNext, PromptNext, TypeCorrect, PTL DEF Spec

(* B refuses what its user did not refuse only after a timeout or because  *)
(* of another session of the same peer (RefusedOnlyToRival).               *)
THEOREM OnlyARivalRefuses == Spec => []RefusedOnlyToRival
  <1>1. PromptInv => RefusedOnlyToRival
    BY DEF PromptInv
  <1> QED
    BY <1>1, PromptCorrect, PTL

(* An answer goes astray only when the session it was meant for is over    *)
(* (AnswerMatchesPrompt).                                                  *)
THEOREM AnswersMatch == Spec => []AnswerMatchesPrompt
  <1>1. PromptInv => AnswerMatchesPrompt
    BY DEF PromptInv
  <1> QED
    BY <1>1, PromptCorrect, PTL

(* The prompt that can be answered is that of a handler that waits         *)
(* (NoStalePrompt).                                                        *)
THEOREM PromptsAreLive == Spec => []NoStalePrompt
  <1>1. TypeOK /\ PromptInv => NoStalePrompt
    BY TypeParts, PairingConstants, SMTT(30)
    DEF PromptInv, Keyed, NoStalePrompt, PromptTypeOK, Sessions
  <1> QED
    BY <1>1, PromptCorrect, TypeCorrect, PTL

-----------------------------------------------------------------------------
(* Both or neither.                                                        *)

(* What is on its way while A has not ended: B's single answer, and what A *)
(* has sent and B has not read, with where B is.                           *)
Accepted(s) == IF ini[s] = "await" THEN <<"accept">> ELSE <<>>
Asked(s) ==
  /\ resp[s] = "loop" /\ said[s]["B"] = "none" /\ net[s]["A"] = <<>>
  /\ Next1(s, "B") = "request" /\ Tail(net[s]["B"]) = Accepted(s)
Deciding(s) ==
  /\ resp[s] = "consent" /\ said[s]["B"] = "none" /\ net[s]["A"] = <<>>
  /\ net[s]["B"] = Accepted(s)
Agreeing(s) ==
  /\ resp[s] = "await" /\ said[s]["B"] = "yes" /\ net[s]["A"] = <<"accept">>
  /\ net[s]["B"] = Accepted(s)
Agreed(s) ==
  /\ resp[s] = "loop" /\ said[s]["B"] = "yes" /\ net[s]["A"] = <<"accept">>
  /\ net[s]["B"] = <<>> /\ ini[s] = "await" /\ s \in pins["B"]
Refused(s) ==
  /\ resp[s] = "loop" /\ said[s]["B"] = "no" /\ net[s]["A"] = <<"reject">>
  /\ net[s]["B"] \in {<<>>, Accepted(s)}
Phases(s) == Asked(s) \/ Deciding(s) \/ Agreeing(s) \/ Agreed(s) \/ Refused(s)

(* If A ended with an entry, B has one or is about to read A's acceptance; *)
(* if A accepted and ended without one, B refused.                         *)
EndsWell(s) ==
  /\ s \in pins["A"] /\ s \notin pins["B"] => resp[s] = "await" /\ Next1(s, "B") = "accept"
  /\ s \notin pins["A"] /\ said[s]["A"] = "yes" => said[s]["B"] = "no"
Going(s) == ini[s] \in {"confirm", "await"}
TalkOf(s) ==
  /\ ini[s] = "idle" => net[s]["A"] = <<>>
  /\ Going(s) => up[s] = Sides /\ Phases(s) /\ s \notin pins["A"]
  /\ ini[s] = "done" => EndsWell(s)
Daemons == \A x \in Sides : kind[x] = "daemon"
Talk(s) == Daemons /\ ~cut[s] => TalkOf(s)
TalkInv == \A s \in Sessions : Talk(s)

(* What the steps do to the channels of the sessions.                      *)
LEMMA PutAt ==
  ASSUME NEW n \in NetType, NEW s \in Sessions, NEW x \in Sides, NEW m \in Messages
  PROVE  /\ Put(s, x, m, n) \in NetType
         /\ \A t \in Sessions \ {s} : Put(s, x, m, n)[t] = n[t]
         /\ Put(s, x, m, n)[s][x] = n[s][x]
         /\ Put(s, x, m, n)[s][Other(x)]
              = IF Broken(s, x) THEN n[s][Other(x)] ELSE Append(n[s][Other(x)], m)
  <1>0. Other(x) \in Sides /\ Other(x) # x
    BY OtherSide
  <1> DEFINE a == Append(n[s][Other(x)], m)
             p == [n EXCEPT ![s][Other(x)] = a]
  <1>1. a \in Seq(Messages)
    BY <1>0, SMTT(30) DEF NetType
  <1>2. Put(s, x, m, n) = IF Broken(s, x) THEN n ELSE p
    BY DEF Put
  <1> HIDE DEF a
  <1>3. /\ p \in NetType /\ p[s][x] = n[s][x] /\ p[s][Other(x)] = a
        /\ \A t \in Sessions \ {s} : p[t] = n[t]
    BY <1>0, <1>1 DEF NetType
  <1> HIDE DEF p
  <1> QED
    BY <1>2, <1>3 DEF a

LEMMA PutFrom ==
  ASSUME NEW n \in NetType, NEW s \in Sessions, NEW m \in Messages
  PROVE  /\ Put(s, "A", m, n)[s]["A"] = n[s]["A"]
         /\ Put(s, "A", m, n)[s]["B"]
              = IF Broken(s, "A") THEN n[s]["B"] ELSE Append(n[s]["B"], m)
         /\ Put(s, "B", m, n)[s]["B"] = n[s]["B"]
         /\ Put(s, "B", m, n)[s]["A"]
              = IF Broken(s, "B") THEN n[s]["A"] ELSE Append(n[s]["A"], m)
  <1>1. "A" \in Sides /\ "B" \in Sides /\ Other("A") = "B" /\ Other("B") = "A"
    BY DEF Sides, Other
  <1>2. /\ Put(s, "A", m, n)[s]["A"] = n[s]["A"]
        /\ Put(s, "A", m, n)[s][Other("A")]
             = IF Broken(s, "A") THEN n[s][Other("A")] ELSE Append(n[s][Other("A")], m)
    BY <1>1, PutAt
  <1>3. /\ Put(s, "B", m, n)[s]["B"] = n[s]["B"]
        /\ Put(s, "B", m, n)[s][Other("B")]
             = IF Broken(s, "B") THEN n[s][Other("B")] ELSE Append(n[s][Other("B")], m)
    BY <1>1, PutAt
  <1> QED
    BY <1>1, <1>2, <1>3

LEMMA UnreadAt ==
  ASSUME NEW n \in NetType, NEW s \in Sessions, NEW x \in Sides
  PROVE  /\ Unread(s, x, n) \in NetType
         /\ \A t \in Sessions \ {s} : Unread(s, x, n)[t] = n[t]
         /\ Unread(s, x, n)[s][x] = <<>>
         /\ Unread(s, x, n)[s][Other(x)] = n[s][Other(x)]
  <1>0. Other(x) \in Sides /\ Other(x) # x /\ <<>> \in Seq(Messages)
    BY OtherSide, SMTT(30)
  <1> QED
    BY <1>0 DEF Unread, NetType

LEMMA TakeAt ==
  ASSUME net \in NetType, NEW s \in Sessions, NEW x \in Sides, Next1(s, x) # "nothing"
  PROVE  /\ Take(s, x) \in NetType
         /\ \A t \in Sessions \ {s} : Take(s, x)[t] = net[t]
         /\ Take(s, x)[s][x] = Tail(net[s][x])
         /\ Take(s, x)[s][Other(x)] = net[s][Other(x)]
  <1>0. Other(x) \in Sides /\ Other(x) # x /\ net[s][x] \in Seq(Messages) /\ net[s][x] # <<>>
    BY OtherSide DEF NetType, Next1
  <1> DEFINE a == Tail(net[s][x])
  <1>1. a \in Seq(Messages)
    BY <1>0, SMTT(30)
  <1> HIDE DEF a
  <1>2. Take(s, x) = [net EXCEPT ![s][x] = a]
    BY DEF Take, a
  <1> QED
    BY <1>0, <1>1, <1>2, SMTT(30) DEF NetType, a

LEMMA Shapes ==
  /\ Append(<<>>, "accept") = <<"accept">> /\ Append(<<>>, "reject") = <<"reject">>
  /\ Tail(<<"request">>) = <<>> /\ Tail(<<"accept">>) = <<>>
  /\ Head(<<"request">>) = "request" /\ Head(<<"accept">>) = "accept"
  /\ Head(<<"reject">>) = "reject"
  /\ <<"request">> # <<>> /\ <<"accept">> # <<>> /\ <<"reject">> # <<>>
  <1>1. Append(<<>>, "accept") = <<"accept">> /\ Append(<<>>, "reject") = <<"reject">>
    BY SMTT(30)
  <1>2. Tail(<<"request">>) = <<>> /\ Tail(<<"accept">>) = <<>>
    BY SMTT(30)
  <1>3. /\ Head(<<"request">>) = "request" /\ Head(<<"accept">>) = "accept"
        /\ Head(<<"reject">>) = "reject"
    BY SMTT(30)
  <1>4. <<"request">> # <<>> /\ <<"accept">> # <<>> /\ <<"reject">> # <<>>
    OBVIOUS
  <1> QED
    BY <1>1, <1>2, <1>3, <1>4

(* What is written goes behind what is there.                              *)
LEMMA Behind ==
  ASSUME NEW b \in Seq(Messages), b # <<>>, NEW m \in Messages
  PROVE  /\ Append(b, m) # <<>> /\ Head(Append(b, m)) = Head(b)
         /\ Tail(Append(b, m)) = Append(Tail(b), m)
  <1>1. Append(b, m) # <<>> /\ Head(Append(b, m)) = Head(b)
    BY SMTT(30)
  <1>2. Tail(Append(b, m)) \in Seq(Messages) /\ Append(Tail(b), m) \in Seq(Messages)
    BY SMTT(30)
  <1>3. Len(Tail(Append(b, m))) = Len(b) /\ Len(Append(Tail(b), m)) = Len(b)
    BY SMTT(30)
  <1>4. \A i \in 1..Len(b) : Tail(Append(b, m))[i] = Append(Tail(b), m)[i]
    BY SMTT(30)
  <1> DEFINE p == Tail(Append(b, m))
             q == Append(Tail(b), m)
  <1>5. /\ p \in Seq(Messages) /\ q \in Seq(Messages) /\ Len(p) = Len(q)
        /\ \A i \in 1..Len(p) : p[i] = q[i]
    BY <1>2, <1>3, <1>4
  <1> HIDE DEF p, q
  <1>6. p = q
    BY <1>5, SMTT(30)
  <1> QED
    BY <1>1, <1>6 DEF p, q

(* A session that a step leaves alone.                                     *)
LEMMA TalkSame ==
  ASSUME NEW s \in Sessions, Talk(s), kind' = kind, cut'[s] = cut[s], net'[s] = net[s],
         up'[s] = up[s], ini'[s] = ini[s], resp'[s] = resp[s], said'[s] = said[s],
         \A x \in Sides : s \in pins'[x] <=> s \in pins[x]
  PROVE  Talk(s)'
  <1>0. "A" \in Sides /\ "B" \in Sides
    BY DEF Sides
  <1>1. Daemons' <=> Daemons
    BY DEF Daemons
  <1>2. Phases(s)' <=> Phases(s)
    BY <1>0 DEF Phases, Asked, Deciding, Agreeing, Agreed, Refused, Accepted, Next1
  <1>3. EndsWell(s)' <=> EndsWell(s)
    BY <1>0 DEF EndsWell, Next1
  <1> QED
    BY <1>0, <1>1, <1>2, <1>3 DEF Talk, TalkOf, Going

LEMMA OthersExact ==
  ASSUME TypeOK, NEW s \in Sessions, Session(s), NEW t \in Sessions \ {s}
  PROVE  /\ net'[t] = net[t] /\ up'[t] = up[t] /\ cut'[t] = cut[t]
         /\ \A x \in Sides : t \in pins'[x] <=> t \in pins[x]
  <1>0. /\ net \in NetType /\ LinkTypeOK /\ PinTypeOK /\ "A" \in Sides /\ "B" \in Sides
        /\ Messages = {"request", "accept", "reject", "close"}
    BY TypeParts DEF Sides, Messages
  <1>1. up'[t] = up[t]
    BY <1>0
    DEF Session, Cut, Connect, FfiBegin, Requests, ConnectFails, IniReject, IniPinned,
        IniFailed, IniAccept, IniAbandon, RespRequest, Consented, RespAwaited, RespLoop,
        RespEnded, FfiReader, ConsentTimeout, FfiClose, FfiConfirm, Hangs, link, LinkTypeOK
  <1>2. cut'[t] = cut[t]
    BY <1>0
    DEF Session, Cut, Connect, FfiBegin, Requests, ConnectFails, IniReject, IniPinned,
        IniFailed, IniAccept, IniAbandon, RespRequest, Consented, RespAwaited, RespLoop,
        RespEnded, FfiReader, ConsentTimeout, FfiClose, FfiConfirm, link, LinkTypeOK
  <1>3. \A x \in Sides : t \in pins'[x] <=> t \in pins[x]
    <2>1. ASSUME NEW x \in Sides, Pin(s, x)
          PROVE  \A y \in Sides : t \in pins'[y] <=> t \in pins[y]
      BY <1>0, <2>1 DEF Pin, PinTypeOK
    <2>2. pins' = pins \/ \E x \in Sides : Pin(s, x)
      BY <1>0
      DEF Session, Cut, Connect, FfiBegin, Requests, ConnectFails, IniReject, IniPinned,
          IniFailed, IniAccept, IniAbandon, RespRequest, Consented, RespAwaited, RespLoop,
          RespEnded, FfiReader, ConsentTimeout, FfiClose, FfiConfirm
    <2> QED
      BY <2>1, <2>2
  <1>4. \A x \in Sides, m \in Messages, n \in NetType :
          Put(s, x, m, n) \in NetType /\ Put(s, x, m, n)[t] = n[t]
    BY PutAt, SMTT(30)
  <1>5. \A x \in Sides, n \in NetType :
          Unread(s, x, n) \in NetType /\ Unread(s, x, n)[t] = n[t]
    BY UnreadAt
  <1>6. \A x \in Sides : Next1(s, x) # "nothing" =>
          Take(s, x) \in NetType /\ Take(s, x)[t] = net[t]
    BY <1>0, TakeAt
  <1>7. net'[t] = net[t]
    <2>1. CASE Cut(s) \/ Requests(s)
      BY <1>0, <2>1 DEF Cut, Requests, NetType
    <2>2. CASE ConnectFails(s) \/ RespEnded(s) \/ ConsentTimeout(s)
      BY <2>2 DEF ConnectFails, RespEnded, ConsentTimeout, link
    <2>3. CASE IniReject(s)
      <3>1. net' = Unread(s, "A", Put(s, "A", "close", Put(s, "A", "reject", net)))
        BY <2>3 DEF IniReject
      <3> QED
        BY <1>0, <1>4, <1>5, <3>1, SMTT(30)
    <2>4. CASE IniAccept(s) \/ Consented(s)
      <3>1. \E x \in Sides, m \in Messages : net' = Put(s, x, m, net)
        BY <1>0, <2>4 DEF IniAccept, Consented
      <3> QED
        BY <1>0, <1>4, <3>1, SMTT(30)
    <2>5. CASE IniAbandon(s) \/ IniFailed(s)
      <3>1. net' = Unread(s, "A", net)
        BY <2>5 DEF IniAbandon, IniFailed
      <3> QED
        BY <1>0, <1>5, <3>1
    <2>6. CASE IniPinned(s)
      <3>1. net' = Put(s, "A", "close", Unread(s, "A", net))
        BY <2>6 DEF IniPinned
      <3> QED
        BY <1>0, <1>4, <1>5, <3>1, SMTT(30)
    <2>7. CASE RespRequest(s)
      <3>1. /\ net' = Take(s, "B") \/ net' = Put(s, "B", "accept", Take(s, "B"))
            /\ Next1(s, "B") # "nothing"
        BY <2>7 DEF RespRequest
      <3> QED
        BY <1>0, <1>4, <1>6, <3>1, SMTT(30)
    <2>8. CASE RespAwaited(s) \/ FfiReader(s)
      <3>1. net' = Take(s, "B") /\ Next1(s, "B") # "nothing"
        BY <2>8 DEF RespAwaited, FfiReader
      <3> QED
        BY <1>0, <1>6, <3>1
    <2>9. CASE RespLoop(s)
      <3>1. /\ net' = Take(s, "B") \/ net' = Put(s, "B", "close", Unread(s, "B", net))
            /\ Next1(s, "B") # "nothing"
        BY <2>9 DEF RespLoop
      <3> QED
        BY <1>0, <1>4, <1>5, <1>6, <3>1, SMTT(30)
    <2>10. ASSUME NEW x \in Sides, FfiClose(s, x) PROVE net'[t] = net[t]
      <3>1. net' = Put(s, x, "close", Unread(s, x, net))
        BY <2>10 DEF FfiClose
      <3> QED
        BY <1>0, <1>4, <1>5, <3>1, SMTT(30)
    <2>11. ASSUME NEW x \in Sides, NEW yes \in BOOLEAN, FfiConfirm(s, x, yes)
           PROVE  net'[t] = net[t]
      <3>1. \E m \in Messages : net' = Put(s, x, m, net)
        BY <1>0, <2>11 DEF FfiConfirm
      <3> QED
        BY <1>0, <1>4, <3>1, SMTT(30)
    <2> QED
      BY <2>1, <2>2, <2>3, <2>4, <2>5, <2>6, <2>7, <2>8, <2>9, <2>10, <2>11
      DEF Session, Connect, FfiBegin
  <1> QED
    BY <1>1, <1>2, <1>3, <1>7

(* A's steps.                                                              *)
LEMMA TalkIni ==
  ASSUME TypeOK, NEW s \in Sessions, Local(s), TalkOf(s), Daemons, ~cut[s]
  PROVE  /\ Requests(s) => TalkOf(s)'
         /\ ConnectFails(s) \/ IniReject(s) \/ IniAbandon(s) => TalkOf(s)'
         /\ IniAccept(s) => TalkOf(s)'
         /\ IniPinned(s) => TalkOf(s)'
         /\ IniFailed(s) => TalkOf(s)'
  <1>0. /\ net \in NetType /\ StepTypeOK /\ LinkTypeOK /\ PinTypeOK
        /\ "A" \in Sides /\ "B" \in Sides /\ Other("A") = "B" /\ Other("B") = "A" /\ "A" # "B"
        /\ {"request", "accept", "reject", "close"} \subseteq Messages
        /\ net[s]["A"] \in Seq(Messages) /\ net[s]["B"] \in Seq(Messages)
    BY TypeParts DEF Sides, Messages, Other, NetType
  <1>1. ASSUME said[s]["A"] = "none"
        PROVE  s \notin pins["A"] /\ s \notin pins["B"]
    BY <1>0, <1>1 DEF Local, LocalPins, Daemons
  <1>2. ASSUME Requests(s) PROVE TalkOf(s)'
    <2>1. ini[s] = "idle" /\ said[s]["A"] = "none" /\ said[s]["B"] = "none" /\ net[s]["A"] = <<>>
      BY <1>2 DEF Requests, Local, LocalSilent, TalkOf
    <2>2. /\ ini'[s] = "confirm" /\ resp'[s] = "loop" /\ up'[s] = Sides
          /\ said' = said /\ pins' = pins
      BY <1>0, <1>2 DEF Requests, StepTypeOK, LinkTypeOK
    <2>3. net'[s]["B"] = <<"request">> /\ net'[s]["A"] = <<>>
      BY <1>0, <1>2, <2>1 DEF Requests, NetType
    <2>4. Asked(s)'
      BY <2>1, <2>2, <2>3, Shapes DEF Asked, Next1, Accepted
    <2> QED
      BY <1>1, <2>1, <2>2, <2>4 DEF TalkOf, Going, Phases
  <1>3. ASSUME ConnectFails(s) \/ IniReject(s) \/ IniAbandon(s) PROVE TalkOf(s)'
    <2>1. said[s]["A"] = "none" /\ ini'[s] = "done" /\ pins' = pins
      BY <1>0, <1>3 DEF ConnectFails, IniReject, IniAbandon, Local, LocalSilent, StepTypeOK
    <2>2. said'[s]["A"] \in {"none", "no"}
      <3>1. CASE IniReject(s)
        BY <1>0, <3>1, SaidNext DEF IniReject, Words
      <3>2. CASE ConnectFails(s) \/ IniAbandon(s)
        BY <2>1, <3>2 DEF ConnectFails, IniAbandon
      <3> QED
        BY <1>3, <3>1, <3>2
    <2> QED
      BY <1>1, <2>1, <2>2 DEF TalkOf, EndsWell, Going
  <1>4. ASSUME IniAccept(s) PROVE TalkOf(s)'
    <2>1. /\ ini[s] = "confirm" /\ said[s]["A"] = "none" /\ up[s] = Sides /\ Phases(s)
      BY <1>4 DEF IniAccept, Local, LocalSilent, TalkOf, Going
    <2>2. ini'[s] = "await" /\ UNCHANGED <<up, resp, pins>>
      BY <1>0, <1>4 DEF IniAccept, StepTypeOK
    <2>3. ~Broken(s, "A")
      BY <1>0, <2>1 DEF Broken
    <2>4. net'[s]["A"] = net[s]["A"] /\ net'[s]["B"] = Append(net[s]["B"], "accept")
      <3>1. net' = Put(s, "A", "accept", net)
        BY <1>4 DEF IniAccept
      <3> QED
        BY <1>0, <2>3, <3>1, PutFrom
    <2>5. said'[s]["B"] = said[s]["B"]
      <3>1. said' = [said EXCEPT ![s]["A"] = "yes"] /\ "yes" \in Words
        BY <1>4 DEF IniAccept, Words
      <3> QED
        BY <1>0, <3>1, SaidNext, SMTT(30)
    <2>6. Accepted(s) = <<>> /\ Accepted(s)' = <<"accept">>
      BY <2>1, <2>2 DEF Accepted
    <2>7. Phases(s)'
      <3>1. CASE Asked(s)
        <4>1. net[s]["B"] # <<>> /\ Tail(net[s]["B"]) = <<>> /\ Head(net[s]["B"]) = "request"
          BY <2>6, <3>1 DEF Asked, Next1
        <4>2. /\ net'[s]["B"] # <<>> /\ Tail(net'[s]["B"]) = <<"accept">>
              /\ Head(net'[s]["B"]) = "request"
          BY <1>0, <2>4, <4>1, Behind, Shapes
        <4>3. Asked(s)'
          BY <2>2, <2>4, <2>5, <2>6, <3>1, <4>2 DEF Asked, Next1
        <4> QED
          BY <4>3 DEF Phases
      <3>2. CASE Deciding(s)
        BY <2>2, <2>4, <2>5, <2>6, <3>2, Shapes DEF Deciding, Phases
      <3>3. CASE Agreeing(s)
        BY <2>2, <2>4, <2>5, <2>6, <3>3, Shapes DEF Agreeing, Phases
      <3>4. CASE Agreed(s)
        BY <2>1, <3>4 DEF Agreed
      <3>5. CASE Refused(s)
        BY <2>2, <2>4, <2>5, <2>6, <3>5, Shapes DEF Refused, Phases
      <3> QED
        BY <2>1, <3>1, <3>2, <3>3, <3>4, <3>5 DEF Phases
    <2> QED
      BY <1>1, <2>1, <2>2, <2>7 DEF TalkOf, Going
  <1>5. ASSUME IniPinned(s) PROVE TalkOf(s)'
    <2>1. ini[s] = "await" /\ Next1(s, "A") = "accept" /\ Phases(s)
      BY <1>5 DEF IniPinned, TalkOf, Going
    <2>2. ini'[s] = "done" /\ resp' = resp /\ s \in pins'["A"] /\ pins'["B"] = pins["B"]
      BY <1>0, <1>5 DEF IniPinned, Pin, StepTypeOK, PinTypeOK
    <2>3. Agreeing(s) \/ Agreed(s)
      BY <2>1, Shapes DEF Phases, Asked, Deciding, Refused, Next1
    <2>4. CASE Agreeing(s)
      <3>1. net[s]["B"] = <<"accept">> /\ resp[s] = "await"
        BY <2>1, <2>4 DEF Agreeing, Accepted
      <3> DEFINE n == Unread(s, "A", net)
      <3>2. n \in NetType /\ n[s]["B"] = net[s]["B"] /\ net' = Put(s, "A", "close", n)
        BY <1>0, <1>5, UnreadAt, SMTT(30) DEF IniPinned
      <3> HIDE DEF n
      <3>3. net'[s]["B"] = net[s]["B"] \/ net'[s]["B"] = Append(net[s]["B"], "close")
        <4>1. "close" \in Messages
          BY <1>0
        <4>2. Put(s, "A", "close", n)[s]["B"]
                = IF Broken(s, "A") THEN n[s]["B"] ELSE Append(n[s]["B"], "close")
          BY <3>2, <4>1, PutFrom
        <4> QED
          BY <3>2, <4>2
      <3>4. Next1(s, "B")' = "accept"
        BY <1>0, <3>1, <3>3, Behind, Shapes, SMTT(30) DEF Next1
      <3> QED
        BY <2>2, <3>1, <3>4 DEF TalkOf, EndsWell, Going
    <2>5. CASE Agreed(s)
      BY <2>2, <2>5 DEF TalkOf, EndsWell, Going, Agreed
    <2> QED
      BY <2>3, <2>4, <2>5
  <1>6. ASSUME IniFailed(s) PROVE TalkOf(s)'
    <2>1. ini[s] = "await" /\ up[s] = Sides /\ Phases(s) /\ s \notin pins["A"]
      BY <1>6 DEF IniFailed, TalkOf, Going
    <2>2. ini'[s] = "done" /\ UNCHANGED <<said, pins>>
      BY <1>0, <1>6 DEF IniFailed, StepTypeOK
    <2>3. ~Ended(s, "A")
      BY <1>0, <2>1 DEF Ended, Broken
    <2>4. Next1(s, "A") \notin {"nothing", "accept"}
      BY <1>6, <2>3 DEF IniFailed
    <2>5. said[s]["B"] = "no"
      BY <2>1, <2>4, Shapes DEF Phases, Asked, Deciding, Agreeing, Agreed, Refused, Next1
    <2> QED
      BY <2>1, <2>2, <2>5 DEF TalkOf, EndsWell, Going
  <1> QED
    BY <1>2, <1>3, <1>4, <1>5, <1>6

(* B's steps.                                                              *)
LEMMA TalkResp ==
  ASSUME TypeOK, Front(net), NEW s \in Sessions, Local(s), TalkOf(s), Daemons, ~cut[s]
  PROVE  /\ RespRequest(s) => TalkOf(s)'
         /\ Consented(s) => TalkOf(s)'
         /\ RespAwaited(s) => TalkOf(s)'
         /\ RespLoop(s) => TalkOf(s)'
         /\ RespEnded(s) => TalkOf(s)'
  <1>0. /\ net \in NetType /\ StepTypeOK /\ LinkTypeOK /\ PinTypeOK
        /\ "A" \in Sides /\ "B" \in Sides /\ Other("A") = "B" /\ Other("B") = "A" /\ "A" # "B"
        /\ {"request", "accept", "reject", "close"} \subseteq Messages
        /\ net[s]["A"] \in Seq(Messages) /\ net[s]["B"] \in Seq(Messages)
    BY TypeParts DEF Sides, Messages, Other, NetType
  <1>1. ini[s] = "idle" => resp[s] = "idle"
    BY DEF Local, LocalSilent
  <1>2. ASSUME Going(s) PROVE ~Broken(s, "B")
    BY <1>0, <1>2, SMTT(30) DEF Broken, TalkOf
  (* B says v, and it has arrived if A has not ended.                      *)
  <1>3. ASSUME NEW v \in {"yes", "no"}, NEW n \in NetType, said[s]["B"] = "none",
               said' = [said EXCEPT ![s]["B"] = v],
               net' = Put(s, "B", IF v = "yes" THEN "accept" ELSE "reject", n),
               n[s]["A"] = net[s]["A"], Going(s) => n[s]["B"] = Accepted(s),
               Going(s) => net[s]["A"] = <<>>,
               resp'[s] = IF v = "yes" THEN "await" ELSE "loop", resp[s] \in {"loop", "consent"},
               UNCHANGED <<ini, up, pins>>
        PROVE  TalkOf(s)'
    <2>1. said'[s]["B"] = v /\ said'[s]["A"] = said[s]["A"]
      BY <1>0, <1>3, SaidNext DEF Words
    <2>2. CASE Going(s)
      <3>1. /\ net'[s]["B"] = Accepted(s)
            /\ net'[s]["A"] = Append(<<>>, IF v = "yes" THEN "accept" ELSE "reject")
        <4> DEFINE m == IF v = "yes" THEN "accept" ELSE "reject"
        <4>1. m \in Messages /\ net' = Put(s, "B", m, n) /\ ~Broken(s, "B")
          BY <1>0, <1>2, <1>3, <2>2
        <4>2. n[s]["B"] = Accepted(s) /\ n[s]["A"] = <<>>
          BY <1>3, <2>2
        <4> HIDE DEF m
        <4>3. net'[s]["B"] = Accepted(s) /\ net'[s]["A"] = Append(<<>>, m)
          BY <1>3, <4>1, <4>2, PutFrom
        <4> QED
          BY <4>3 DEF m
      <3>2. Accepted(s)' = Accepted(s) /\ Going(s)' /\ up'[s] = Sides /\ s \notin pins'["A"]
        BY <1>3, <2>2 DEF Accepted, Going, TalkOf
      <3>3. CASE v = "yes"
        BY <1>3, <2>1, <3>1, <3>2, <3>3, Shapes DEF TalkOf, Phases, Agreeing, Going
      <3>4. CASE v = "no"
        BY <1>3, <2>1, <3>1, <3>2, <3>4, Shapes DEF TalkOf, Phases, Refused, Going
      <3> QED
        BY <3>3, <3>4
    <2>3. CASE ini[s] = "done"
      <3>1. s \notin pins["A"]
        BY <1>0, <1>3 DEF Local, LocalPins, Daemons
      <3>2. said[s]["A"] # "yes"
        BY <1>3, <2>3, <3>1 DEF TalkOf, EndsWell
      <3> QED
        BY <1>3, <2>1, <2>3, <3>1, <3>2 DEF TalkOf, EndsWell, Going
    <2>4. CASE ~Going(s) /\ ini[s] # "done"
      BY <1>1, <1>3, <2>4 DEF TalkOf, Going
    <2> QED
      BY <2>2, <2>3, <2>4
  <1>4. ASSUME RespRequest(s) PROVE TalkOf(s)'
    <2>1. resp[s] = "loop" /\ Next1(s, "B") = "request" /\ UNCHANGED <<ini, up, pins>>
      BY <1>4 DEF RespRequest
    <2>2. said[s]["B"] = "none"
      <3>1. Holds(net, s, "B", "request")
        BY <1>0, <2>1, GrowsTake
      <3> QED
        BY <3>1 DEF Local, LocalAsks
    <2> DEFINE n == Take(s, "B")
    <2>3. n \in NetType /\ n[s]["B"] = Tail(net[s]["B"]) /\ n[s]["A"] = net[s]["A"]
      BY <1>0, <2>1, TakeAt
    <2>4. Going(s) => Asked(s)
      BY <2>1, <2>2, Shapes DEF TalkOf, Phases, Deciding, Agreeing, Agreed, Refused
    <2>5. CASE ~watched
      <3>1. /\ said' = [said EXCEPT ![s]["B"] = "yes"] /\ resp'[s] = "await"
            /\ net' = Put(s, "B", "accept", n)
        BY <1>0, <1>4, <2>5 DEF RespRequest, StepTypeOK
      <3> HIDE DEF n
      <3> QED
        BY <1>3, <2>1, <2>2, <2>3, <2>4, <3>1 DEF Asked
    <2>6. CASE watched
      <3>1. said' = said /\ resp'[s] = "consent" /\ net' = n
        BY <1>0, <1>4, <2>6 DEF RespRequest, StepTypeOK
      <3> HIDE DEF n
      <3>2. CASE Going(s)
        <4>1. Deciding(s)'
          BY <2>1, <2>3, <2>4, <3>1, <3>2 DEF Asked, Deciding, Accepted
        <4> QED
          BY <2>1, <3>2, <4>1 DEF TalkOf, Phases, Going
      <3>3. CASE ~Going(s)
        BY <1>1, <2>1, <3>1, <3>3 DEF TalkOf, EndsWell, Going
      <3> QED
        BY <3>2, <3>3
    <2> QED
      BY <2>5, <2>6
  <1>5. ASSUME Consented(s) PROVE TalkOf(s)'
    <2>1. /\ resp[s] = "consent" /\ said[s]["B"] = "none" /\ UNCHANGED <<ini, up, pins>>
      BY <1>5 DEF Consented, Local, LocalSilent
    <2>2. Going(s) => Deciding(s)
      BY <2>1 DEF TalkOf, Phases, Asked, Agreeing, Agreed, Refused
    <2>3. PICK v \in {"yes", "no"} :
            /\ said' = [said EXCEPT ![s]["B"] = v]
            /\ resp'[s] = IF v = "yes" THEN "await" ELSE "loop"
            /\ net' = Put(s, "B", IF v = "yes" THEN "accept" ELSE "reject", net)
      <3>1. CASE rx[s] = "yes"
        BY <1>0, <1>5, <3>1 DEF Consented, StepTypeOK
      <3>2. CASE rx[s] # "yes"
        BY <1>0, <1>5, <3>2 DEF Consented, StepTypeOK
      <3> QED
        BY <3>1, <3>2
    <2> QED
      BY <1>0, <1>3, <2>1, <2>2, <2>3 DEF Deciding
  <1>6. ASSUME RespAwaited(s) PROVE TalkOf(s)'
    <2>1. /\ resp[s] = "await" /\ Next1(s, "B") # "nothing" /\ resp'[s] = "loop"
          /\ net' = Take(s, "B") /\ UNCHANGED <<ini, up, said>>
      BY <1>0, <1>6 DEF RespAwaited, StepTypeOK
    <2>2. /\ pins'["A"] = pins["A"] /\ pins["B"] \subseteq pins'["B"]
          /\ Next1(s, "B") = "accept" => s \in pins'["B"]
      BY <1>0, <1>6 DEF RespAwaited, Pin, PinTypeOK
    <2>3. net'[s]["B"] = Tail(net[s]["B"]) /\ net'[s]["A"] = net[s]["A"]
      BY <1>0, <2>1, TakeAt
    <2>4. CASE Going(s)
      <3>1. Agreeing(s)
        BY <2>1, <2>4 DEF TalkOf, Phases, Asked, Deciding, Agreed, Refused
      <3>2. ini[s] = "await" /\ net[s]["B"] = <<"accept">>
        BY <2>1, <3>1, <2>4 DEF Agreeing, Accepted, Next1, Going
      <3>3. Next1(s, "B") = "accept" /\ net'[s]["B"] = <<>>
        BY <2>3, <3>2, Shapes DEF Next1
      <3>4. Agreed(s)'
        BY <2>1, <2>2, <2>3, <3>1, <3>2, <3>3 DEF Agreeing, Agreed
      <3> QED
        BY <2>1, <2>2, <2>4, <3>4 DEF TalkOf, Phases, Going
    <2>5. CASE ~Going(s)
      BY <1>1, <2>1, <2>2, <2>5 DEF TalkOf, EndsWell, Going
    <2> QED
      BY <2>4, <2>5
  <1>7. ASSUME RespLoop(s) PROVE TalkOf(s)'
    <2>1. /\ resp[s] = "loop" /\ Next1(s, "B") \notin {"nothing", "request"}
          /\ UNCHANGED <<ini, said, pins>>
      BY <1>7 DEF RespLoop
    <2>2. CASE Going(s)
      <3>1. Refused(s) /\ net[s]["B"] # <<>>
        BY <2>1, <2>2 DEF TalkOf, Phases, Asked, Deciding, Agreeing, Agreed, Next1
      <3>2. net[s]["B"] = <<"accept">>
        BY <3>1 DEF Refused, Accepted
      <3>3. Next1(s, "B") = "accept"
        BY <3>2, Shapes DEF Next1
      <3>4. net' = Take(s, "B") /\ UNCHANGED <<resp, up>>
        BY <1>7, <3>3 DEF RespLoop
      <3>5. net'[s]["B"] = <<>> /\ net'[s]["A"] = net[s]["A"]
        BY <1>0, <3>2, <3>3, <3>4, TakeAt, Shapes
      <3>6. Refused(s)'
        BY <2>1, <3>1, <3>4, <3>5 DEF Refused
      <3> QED
        BY <2>1, <2>2, <3>4, <3>6 DEF TalkOf, Phases, Going
    <2>3. CASE ~Going(s)
      BY <1>1, <2>1, <2>3 DEF TalkOf, EndsWell, Going
    <2> QED
      BY <2>2, <2>3
  <1>8. ASSUME RespEnded(s) PROVE TalkOf(s)'
    <2>1. /\ resp[s] \in {"loop", "await"} /\ net[s]["B"] = <<>> /\ Broken(s, "B")
          /\ UNCHANGED <<ini, said, pins, net>>
      BY <1>8 DEF RespEnded, Ended
    <2>2. ~Going(s)
      BY <1>2, <2>1
    <2>3. Next1(s, "B") = "nothing"
      BY <2>1 DEF Next1
    <2> QED
      BY <1>1, <2>1, <2>2, <2>3 DEF TalkOf, EndsWell, Going
  <1> QED
    BY <1>4, <1>5, <1>6, <1>7, <1>8

LEMMA TalkNext == TypeOK /\ PinInv /\ TalkInv /\ [Next]_vars => TalkInv'
  <1> SUFFICES ASSUME TypeOK, PinInv, TalkInv, [Next]_vars PROVE TalkInv'
    OBVIOUS
  <1>0. Front(net) /\ (\A s \in Sessions : Local(s)) /\ \A s \in Sessions : Talk(s)
    BY PinInvIs DEF TalkInv
  <1>1. ASSUME NEW s \in Sessions, Session(s), NEW t \in Sessions PROVE Talk(t)'
    <2>0. kind' = kind
      BY <1>0, <1>1, OthersStay
    <2>1. CASE t # s
      <3>1. /\ net'[t] = net[t] /\ up'[t] = up[t] /\ cut'[t] = cut[t]
            /\ \A x \in Sides : t \in pins'[x] <=> t \in pins[x]
        BY <1>1, <2>1, OthersExact
      <3>2. ini'[t] = ini[t] /\ resp'[t] = resp[t] /\ said'[t] = said[t]
        BY <1>0, <1>1, <2>1, OthersStay
      <3> QED
        BY <1>0, <2>0, <3>1, <3>2, TalkSame
    <2>2. CASE t = s
      <3> SUFFICES ASSUME Daemons, ~cut'[s] PROVE TalkOf(s)'
        BY <2>0, <2>2 DEF Talk, Daemons
      <3>1. ~Cut(s) /\ ~cut[s]
        <4>1. LinkTypeOK
          BY TypeParts
        <4>2. Cut(s) => cut'[s] = TRUE
          BY <4>1 DEF Cut, LinkTypeOK
        <4>3. Cut(s) \/ cut'[s] = cut[s]
          BY <1>1
          DEF Session, Connect, FfiBegin, Requests, ConnectFails, IniReject, IniPinned,
              IniFailed, IniAccept, IniAbandon, RespRequest, Consented, RespAwaited, RespLoop,
              RespEnded, FfiReader, ConsentTimeout, FfiClose, FfiConfirm, link
        <4> QED
          BY <4>2, <4>3
      <3>2. TalkOf(s) /\ Local(s)
        BY <1>0, <3>1 DEF Talk
      <3>3. CASE ConsentTimeout(s)
        <4>1. UNCHANGED <<kind, net, up, cut, ini, resp, said, pins>>
          BY <3>3 DEF ConsentTimeout, link
        <4>2. Talk(s)'
          BY <1>0, <4>1, TalkSame
        <4> QED
          BY <2>0, <4>2 DEF Talk, Daemons
      <3>4. ~FfiReader(s) /\ \A x \in Sides : ~FfiClose(s, x) /\ \A yes \in BOOLEAN : ~FfiConfirm(s, x, yes)
        BY DEF Daemons, FfiReader, FfiClose, FfiConfirm, Sides
      <3>5. CASE Connect(s) \/ FfiBegin(s) \/ ConnectFails(s) \/ IniReject(s) \/ IniPinned(s)
                 \/ IniFailed(s) \/ IniAccept(s) \/ IniAbandon(s)
        BY <3>1, <3>2, <3>5, TalkIni DEF Connect, FfiBegin
      <3>6. CASE RespRequest(s) \/ Consented(s) \/ RespAwaited(s) \/ RespLoop(s) \/ RespEnded(s)
        BY <1>0, <3>1, <3>2, <3>6, TalkResp
      <3> QED
        BY <1>1, <3>1, <3>3, <3>4, <3>5, <3>6 DEF Session
    <2> QED
      BY <2>1, <2>2
  <1>2. ASSUME UNCHANGED <<kind, net, up, cut, ini, resp, said, pins>>, NEW t \in Sessions
        PROVE  Talk(t)'
    BY <1>0, <1>2, TalkSame
  <1>3. ASSUME Prompts, NEW t \in Sessions PROVE Talk(t)'
    <2>1. UNCHANGED <<kind, net, up, cut, ini, resp, said, pins>>
      BY <1>3 DEF Prompts, Answer, Unpair, Decide, AnswerTooLate, AnswerRemoves, Expire, link
    <2> QED
      BY <1>2, <2>1
  <1>4. ASSUME UNCHANGED vars, NEW t \in Sessions PROVE Talk(t)'
    BY <1>2, <1>4 DEF vars, link
  <1> QED
    BY <1>1, <1>3, <1>4, NextIs DEF TalkInv

LEMMA TalkInit == Init => TalkInv
  <1> SUFFICES ASSUME Init, NEW s \in Sessions PROVE TalkOf(s)
    BY DEF TalkInv, Talk
  <1>1. ini[s] = "idle" /\ net[s]["A"] = <<>>
    BY DEF Init, Sides
  <1> QED
    BY <1>1 DEF TalkOf, Going

(* Between two daemons a session that both have ended and that was not cut *)
(* wrote an entry at both or at neither, unless insert_or_update failed at *)
(* one of them (BothOrNeither).                                            *)
THEOREM NobodyPairedAlone == Spec => []BothOrNeither
  <1>1. ASSUME PinInv, TalkInv, NEW s \in Sessions, Daemons, ini[s] = "done",
               resp[s] = "done", ~cut[s]
        PROVE  s \in pins["A"] <=> s \in pins["B"]
    <2>1. EndsWell(s)
      BY <1>1 DEF TalkInv, Talk, TalkOf
    <2>2. s \in pins["B"] => said[s]["A"] = "yes" /\ said[s]["B"] = "yes"
      BY <1>1 DEF PinInv, PinMeansAgreed, Daemons, Sides, Other
    <2> QED
      BY <1>1, <2>1, <2>2 DEF EndsWell
  <1>2. PinInv /\ TalkInv => BothOrNeither
    BY <1>1 DEF BothOrNeither, Written, Daemons, Sides, Other
  <1> QED
    BY <1>2, PinInit, PinNext, TalkInit, TalkNext, TypeCorrect, PTL DEF Spec

=============================================================================
