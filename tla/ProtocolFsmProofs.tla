-------------------------- MODULE ProtocolFsmProofs --------------------------
(***************************************************************************)
(* Proofs about ProtocolFsm.  What a machine may do is a fact about each   *)
(* of its rules (SessionRuleOK, TransferRuleOK); the theorems follow from  *)
(* these facts for any number of pauses and any order of events, timers    *)
(* and messages.                                                           *)
(***************************************************************************)
EXTENDS ProtocolFsm, TLAPS

(* Zenon first: it is quick and takes most leaves; SMT is cited where a     *)
(* leaf needs arithmetic, sequences or extensionality.                      *)
USE ZenonT(30), SMTT(30)

-----------------------------------------------------------------------------
(* The session machine.                                                    *)

(* The timers that run after a rule was carried out.                       *)
After(r, running) == ((running \ {r.ev}) \ r.stop) \cup r.start

SessionRuleOK(r) ==
  /\ r.from \in SessionStates \ {"Closed"} /\ r.to \in SessionStates
  /\ r.start \subseteq SessionTimers
  /\ r.to # "Closed" => After(r, SessionTimersOf(r.from)) = SessionTimersOf(r.to)
  /\ ("Release" \in r.do) <=> (r.to = "Closed")

LEMMA SessionRulesOK == \A r \in SessionRules : SessionRuleOK(r)
  <1> USE DEF SessionRuleOK, SessionStates, SessionTimers, SessionTimersOf, After, Rule
  <1>1. \A r \in ConnectRules : SessionRuleOK(r)
    BY SMTT(30) DEF ConnectRules
  <1>2. \A r \in HelloRules : SessionRuleOK(r)
    BY SMTT(30) DEF HelloRules
  <1>3. \A r \in PairRules : SessionRuleOK(r)
    BY SMTT(30) DEF PairRules, SasTimeout
  <1>4. \A r \in CloseRules : SessionRuleOK(r)
    BY SMTT(30) DEF CloseRules
  <1>5. \A r \in KeepaliveRule : SessionRuleOK(r)
    BY SMTT(30) DEF KeepaliveRule
  <1>6. \A r \in AbortRules : SessionRuleOK(r)
    BY SMTT(30) DEF AbortRules, LostRules
  <1> HIDE DEF SessionRuleOK
  <1> QED
    BY <1>1, <1>2, <1>3, <1>4, <1>5, <1>6 DEF SessionRules

-----------------------------------------------------------------------------
(* The transfer machine.                                                   *)

Aborts == {"CancelReceived", "FatalError", "ConnectionLost"}

TransferRuleOK(r) ==
  /\ r.from \in TransferStates /\ ~IsTerminal(r.from) /\ r.to \in TransferStates
  /\ r.start \subseteq TransferTimers /\ r.ev \in TransferEvents \cup TransferTimers
  /\ ~IsTerminal(r.to) => After(r, TransferTimersOf(r.from)) = TransferTimersOf(r.to)
  /\ IsTerminal(r.to) => \/ r.ev \in Aborts
                         \/ After(r, TransferTimersOf(r.from)) = {}
  /\ IsTerminal(r.to) => \/ "Notify" \in r.do
                         \/ r.ev \in {"ChecksumMismatch", "DiskFull"} /\ "Preserve" \in r.do

(* By which event a state is entered, and what a rule that sends one of    *)
(* the messages below has reached.                                         *)
TransferRuleLeads(r) ==
  /\ r.to = "Negotiating" => r.ev \in {"UserAccept", "ReceiveTransferAccept"}
  /\ r.to = "Streaming" => \/ r.ev = "AllMetadataAcked"
                           \/ r.ev = "ResumeReceived" /\ r.from = "Paused"
  /\ r.to = "Paused" => r.from = "Streaming"
  /\ r.to = "Completing" => r.ev \in {"LastChunkSent", "AllChunksReceived"}
  /\ r.to = "Complete" => r.ev \in {"AckSuccess", "AckSent"}
  /\ r.ev = "AllMetadataAcked" => r.to = "Streaming"
  /\ \/ r.send = <<>>
     \/ r.send = <<"Accept">> /\ r.to = "Negotiating"
     \/ r.send = <<"Complete">> /\ r.ev = "LastChunkSent"
     \/ r.send = <<"Ack">> /\ r.to = "Completing"
     \/ \E m \in {"Request", "Reject", "Cancel", "Error"} : r.send = <<m>>

LEMMA TransferRulesOK ==
  \A r \in TransferRules : TransferRuleOK(r) /\ TransferRuleLeads(r)
  <1> DEFINE OK(r) == TransferRuleOK(r) /\ TransferRuleLeads(r)
  <1> USE DEF TransferRuleOK, TransferRuleLeads, TransferStates, TransferTimers,
              TransferEvents,
              TransferTimersOf, IsTerminal, IsActive, After, Aborts, Rule
  <1>1. \A r \in GlobalRules : OK(r)
    BY SMTT(30) DEF GlobalRules
  <1>2. \A r \in OfferRules : OK(r)
    BY SMTT(30) DEF OfferRules
  <1>3. \A r \in ConsentRules : OK(r)
    BY SMTT(30) DEF ConsentRules, RejectRule, OfferTimeout
  <1>4. \A r \in NegotiationRules : OK(r)
    BY SMTT(30) DEF NegotiationRules
  <1>5. \A r \in StreamingRules : OK(r)
    BY SMTT(30) DEF StreamingRules
  <1>6. \A r \in ResumeRule : OK(r)
    BY SMTT(30) DEF ResumeRule
  <1>7. \A r \in PauseTimeout : OK(r)
    BY SMTT(30) DEF PauseTimeout
  <1>8. \A r \in CompletingRules : OK(r)
    BY SMTT(30) DEF CompletingRules, CompletionTimeout
  <1> HIDE DEF TransferRuleOK, TransferRuleLeads
  <1> QED
    BY <1>1, <1>2, <1>3, <1>4, <1>5, <1>6, <1>7, <1>8 DEF TransferRules

-----------------------------------------------------------------------------
(* Every step is one rule of one machine at one peer, or drops a message.  *)

TransferBy(p, r) ==
  /\ r.from = transfer[p]
  /\ transfer' = [transfer EXCEPT ![p] = r.to]
  /\ timers' = [timers EXCEPT ![p] = After(r, @)]
  /\ reached' = [reached EXCEPT ![p] = @ \cup {r.to}]
  /\ why' = [why EXCEPT ![p] = r.ev]
  /\ told' = [told EXCEPT ![p] = @ \/ "Notify" \in r.do]
  /\ kept' = [kept EXCEPT ![p] = @ \/ "Preserve" \in r.do]
  /\ UNCHANGED <<sessionVars, lastOut>>

LEMMA StepCases ==
  ASSUME [Next]_vars
  PROVE  \/ \E p \in Peers, r \in SessionRules : SessionStep(p, r)
         \/ \E p \in Peers, r \in TransferRules : TransferBy(p, r)
         \/ UNCHANGED <<sessionVars, transfer, timers, reached, why, told, kept>>
  <1>1. CASE UNCHANGED vars
    BY <1>1 DEF vars, sessionVars
  <1>2. ASSUME NEW p \in Peers, SessionEvent(p) \/ SessionTimerFires(p)
        PROVE  \E r \in SessionRules : SessionStep(p, r)
    BY <1>2 DEF SessionEvent, SessionTimerFires
  <1>3. ASSUME NEW p \in Peers,
               \/ LocalEvent(p) \/ PauseOrResume(p) \/ TransferTimerFires(p)
               \/ Receive(p) \/ LostWithSession(p)
        PROVE  \E r \in TransferRules : TransferBy(p, r)
    <2>1. \E r \in TransferRules : \E in, also : TransferStep(p, r, in, also)
      BY <1>3 DEF LocalEvent, PauseOrResume, TransferTimerFires, Receive, LostWithSession
    <2> QED
      BY <2>1 DEF TransferStep, TransferBy, After
  <1>4. ASSUME NEW p \in Peers, Ignore(p)
        PROVE  UNCHANGED <<sessionVars, transfer, timers, reached, why, told, kept>>
    BY <1>4 DEF Ignore
  <1>5. CASE SendLastChunk
    BY <1>5 DEF SendLastChunk
  <1> QED
    BY <1>1, <1>2, <1>3, <1>4, <1>5 DEF Next

-----------------------------------------------------------------------------
(* Type correctness.                                                       *)

LEMMA SentType ==
  ASSUME NEW r \in TransferRules
  PROVE  r.send \in Seq(Messages)
  <1>1. \A m \in Messages : <<m>> \in Seq(Messages)
    BY SMTT(30)
  <1>2. <<>> \in Seq(Messages)
    BY SMTT(30)
  <1>3. r.send = <<>> \/ \E m \in Messages : r.send = <<m>>
    BY TransferRulesOK DEF TransferRuleLeads, Messages
  <1> QED
    BY <1>1, <1>2, <1>3

LEMMA AnswerType == \A ev : Answer(ev) \in Seq(Messages)
  <1>1. \A m \in Messages : <<m>> \in Seq(Messages)
    BY SMTT(30)
  <1>2. <<>> \in Seq(Messages)
    BY SMTT(30)
  <1> QED
    BY <1>1, <1>2 DEF Answer, Messages

LEMMA NetType ==
  ASSUME TypeOK, NEW p \in Peers, NEW r \in TransferRules, NEW in \in Seq(Messages),
         NEW also \in Seq(Messages), TransferStep(p, r, in, also)
  PROVE  net' \in [Peers -> Seq(Messages)]
  <1>1. r.send \in Seq(Messages)
    BY SentType
  <1>2. \A q \in Peers : net[q] \o r.send \o also \in Seq(Messages)
    BY <1>1, SMTT(30) DEF TypeOK
  <1> QED
    BY <1>2 DEF TransferStep

LEMMA NetNext ==
  ASSUME TypeOK, [Next]_vars
  PROVE  net' \in [Peers -> Seq(Messages)]
  <1>0. \A p \in Peers : net[p] \in Seq(Messages)
    BY DEF TypeOK
  <1>e. <<>> \in Seq(Messages)
    BY SMTT(30)
  <1>1. CASE UNCHANGED vars
    BY <1>1 DEF vars, TypeOK
  <1>2. ASSUME NEW p \in Peers, SessionEvent(p) \/ SessionTimerFires(p)
        PROVE  net' \in [Peers -> Seq(Messages)]
    BY <1>2 DEF SessionEvent, SessionTimerFires, SessionStep, transferVars, TypeOK
  <1>3. ASSUME NEW p \in Peers, LocalEvent(p)
        PROVE  net' \in [Peers -> Seq(Messages)]
    BY <1>0, <1>3, AnswerType, NetType DEF LocalEvent
  <1>4. ASSUME NEW p \in Peers, PauseOrResume(p) \/ TransferTimerFires(p) \/ LostWithSession(p)
        PROVE  net' \in [Peers -> Seq(Messages)]
    BY <1>0, <1>e, <1>4, NetType DEF PauseOrResume, TransferTimerFires, LostWithSession
  <1>5. ASSUME NEW p \in Peers, Receive(p)
        PROVE  net' \in [Peers -> Seq(Messages)]
    <2>1. Tail(net[p]) \in Seq(Messages)
      BY <1>0, <1>5, SMTT(30) DEF Receive
    <2> QED
      BY <1>e, <1>5, <2>1, NetType DEF Receive
  <1>6. ASSUME NEW p \in Peers, Ignore(p)
        PROVE  net' \in [Peers -> Seq(Messages)]
    <2>1. Tail(net[p]) \in Seq(Messages)
      BY <1>0, <1>6, SMTT(30) DEF Ignore
    <2> QED
      BY <1>6, <2>1 DEF Ignore, TypeOK
  <1>7. ASSUME SendLastChunk
        PROVE  net' \in [Peers -> Seq(Messages)]
    <2>1. Append(net["receiver"], "LastChunk") \in Seq(Messages)
      BY <1>0, SMTT(30) DEF Peers, Messages
    <2> QED
      BY <1>7, <2>1 DEF SendLastChunk, TypeOK
  <1> QED
    BY <1>1, <1>2, <1>3, <1>4, <1>5, <1>6, <1>7 DEF Next

LEMMA LastOutType ==
  ASSUME TypeOK, [Next]_vars
  PROVE  lastOut' \in BOOLEAN
  <1>1. ASSUME NEW p \in Peers, NEW r \in TransferRules, NEW in, NEW also,
               TransferStep(p, r, in, also)
        PROVE  lastOut' = lastOut
    BY <1>1 DEF TransferStep
  <1>2. CASE SendLastChunk \/ UNCHANGED vars
    BY <1>2 DEF SendLastChunk, vars, TypeOK
  <1>3. ASSUME NEW p \in Peers,
               SessionEvent(p) \/ SessionTimerFires(p) \/ Ignore(p)
        PROVE  lastOut' = lastOut
    BY <1>3 DEF SessionEvent, SessionTimerFires, SessionStep, transferVars, Ignore
  <1>4. ASSUME NEW p \in Peers,
               \/ LocalEvent(p) \/ PauseOrResume(p) \/ TransferTimerFires(p)
               \/ Receive(p) \/ LostWithSession(p)
        PROVE  lastOut' = lastOut
    BY <1>1, <1>4 DEF LocalEvent, PauseOrResume, TransferTimerFires, Receive, LostWithSession
  <1> QED
    BY <1>2, <1>3, <1>4 DEF Next, TypeOK

LEMMA PausesNext ==
  ASSUME TypeOK, [Next]_vars
  PROVE  pauses' \in 0..MaxPauses
  <1>1. CASE pauses' = pauses
    BY <1>1 DEF TypeOK
  <1>2. ASSUME NEW p \in Peers, PauseOrResume(p) PROVE pauses' \in 0..MaxPauses
    BY <1>2, FsmConstants, SMTT(30) DEF PauseOrResume, TypeOK
  <1> QED
    BY <1>1, <1>2
    DEF Next, vars, SessionEvent, SessionTimerFires, SessionStep, transferVars, LocalEvent,
        TransferTimerFires, Receive, Ignore, LostWithSession, SendLastChunk

LEMMA TypeNext == TypeOK /\ [Next]_vars => TypeOK'
  <1> SUFFICES ASSUME TypeOK, [Next]_vars PROVE TypeOK'
    OBVIOUS
  <1>0. /\ net' \in [Peers -> Seq(Messages)] /\ pauses' \in 0..MaxPauses
        /\ lastOut' \in BOOLEAN
    BY NetNext, PausesNext, LastOutType
  <1>1. ASSUME NEW p \in Peers, NEW r \in SessionRules, SessionStep(p, r)
        PROVE  TypeOK'
    <2>1. r.to \in SessionStates /\ r.start \subseteq SessionTimers
      BY SessionRulesOK DEF SessionRuleOK
    <2>2. /\ session' \in [Peers -> SessionStates]
          /\ stimers' \in [Peers -> SUBSET SessionTimers]
          /\ released' \in [Peers -> Nat]
      BY <1>1, <2>1, SMTT(30) DEF SessionStep, TypeOK
    <2> QED
      BY <1>0, <1>1, <2>2 DEF SessionStep, transferVars, TypeOK
  <1>2. ASSUME NEW p \in Peers, NEW r \in TransferRules, TransferBy(p, r)
        PROVE  TypeOK'
    <2>1. /\ r.to \in TransferStates /\ r.start \subseteq TransferTimers
          /\ r.ev \in TransferEvents \cup TransferTimers
      BY TransferRulesOK DEF TransferRuleOK
    <2>2. /\ transfer' \in [Peers -> TransferStates]
          /\ timers' \in [Peers -> SUBSET TransferTimers]
          /\ reached' \in [Peers -> SUBSET TransferStates]
          /\ why' \in [Peers -> {"none"} \cup TransferEvents \cup TransferTimers]
      BY <1>2, <2>1 DEF TransferBy, After, TypeOK
    <2>3. told' \in [Peers -> BOOLEAN] /\ kept' \in [Peers -> BOOLEAN]
      BY <1>2 DEF TransferBy, TypeOK
    <2> QED
      BY <1>0, <1>2, <2>2, <2>3 DEF TransferBy, sessionVars, TypeOK
  <1>3. CASE UNCHANGED <<sessionVars, transfer, timers, reached, why, told, kept>>
    BY <1>0, <1>3 DEF sessionVars, TypeOK
  <1> QED
    BY <1>1, <1>2, <1>3, StepCases

LEMMA TypeInit == Init => TypeOK
  <1>1. <<>> \in Seq(Messages)
    BY SMTT(30)
  <1>2. 0 \in 0..MaxPauses
    BY FsmConstants, SMTT(30)
  <1>3. Init => lastOut \in BOOLEAN /\ told \in [Peers -> BOOLEAN] /\ kept \in [Peers -> BOOLEAN]
    BY Zenon DEF Init
  <1>4. Init => /\ released \in [Peers -> Nat] /\ pauses \in 0..MaxPauses
    BY <1>2, SMTT(30) DEF Init
  <1>5. Init => /\ session \in [Peers -> SessionStates]
                /\ stimers \in [Peers -> SUBSET SessionTimers]
                /\ transfer \in [Peers -> TransferStates]
                /\ timers \in [Peers -> SUBSET TransferTimers]
                /\ net \in [Peers -> Seq(Messages)]
                /\ reached \in [Peers -> SUBSET TransferStates]
                /\ why \in [Peers -> {"none"} \cup TransferEvents \cup TransferTimers]
    BY <1>1, SMTT(30) DEF Init, SessionStates, TransferStates
  <1> QED
    BY <1>3, <1>4, <1>5 DEF TypeOK

(* Every variable keeps its type (TypeOK).                                 *)
THEOREM TypeCorrect == Spec => []TypeOK
  BY TypeInit, TypeNext, PTL DEF Spec

-----------------------------------------------------------------------------
(* Timers, ends and resources, each from the facts about the rules.        *)

LEMMA TimersNext == TypeOK /\ TimersMatch /\ [Next]_vars => TimersMatch'
  <1> SUFFICES ASSUME TypeOK, TimersMatch, [Next]_vars PROVE TimersMatch'
    OBVIOUS
  <1>1. ASSUME NEW p \in Peers, NEW r \in SessionRules, SessionStep(p, r)
        PROVE  TimersMatch'
    <2>1. SessionRuleOK(r) /\ stimers' = [stimers EXCEPT ![p] = After(r, @)]
      BY <1>1, SessionRulesOK DEF SessionStep, After
    <2>2. session[p] # "Closed" /\ stimers[p] = SessionTimersOf(r.from)
      BY <1>1, <2>1 DEF SessionStep, SessionRuleOK, TimersMatch
    <2>3. session'[p] = r.to /\ stimers'[p] = After(r, SessionTimersOf(r.from))
      BY <1>1, <2>1, <2>2 DEF SessionStep, TypeOK
    <2>4. \A q \in Peers \ {p} : session'[q] = session[q] /\ stimers'[q] = stimers[q]
      BY <1>1 DEF SessionStep, TypeOK
    <2>5. transfer' = transfer /\ timers' = timers
      BY <1>1 DEF SessionStep, transferVars
    <2> QED
      BY <2>1, <2>3, <2>4, <2>5 DEF TimersMatch, SessionRuleOK
  <1>2. ASSUME NEW p \in Peers, NEW r \in TransferRules, TransferBy(p, r)
        PROVE  TimersMatch'
    <2>1. TransferRuleOK(r) /\ timers[p] = TransferTimersOf(r.from)
      BY <1>2, TransferRulesOK DEF TransferBy, TransferRuleOK, TimersMatch
    <2>2. transfer'[p] = r.to /\ timers'[p] = After(r, TransferTimersOf(r.from))
      BY <1>2, <2>1 DEF TransferBy, TypeOK
    <2>3. \A q \in Peers \ {p} : transfer'[q] = transfer[q] /\ timers'[q] = timers[q]
      BY <1>2 DEF TransferBy, TypeOK
    <2>4. session' = session /\ stimers' = stimers
      BY <1>2 DEF TransferBy, sessionVars
    <2> QED
      BY <2>1, <2>2, <2>3, <2>4 DEF TimersMatch, TransferRuleOK
  <1>3. CASE UNCHANGED <<sessionVars, transfer, timers, reached, why, told, kept>>
    BY <1>3 DEF sessionVars, TimersMatch
  <1> QED
    BY <1>1, <1>2, <1>3, StepCases

(* A machine that has not ended runs exactly the timer of its state        *)
(* (TimersMatch).                                                          *)
THEOREM TimersCorrect == Spec => []TimersMatch
  <1>1. Init => TimersMatch
    BY DEF Init, TimersMatch, SessionTimersOf, TransferTimersOf, IsTerminal
  <1> QED
    BY <1>1, TypeCorrect, TimersNext, PTL DEF Spec

LEMMA LeftoverNext ==
  TypeOK /\ TimersMatch /\ LeftoverOnlyOnAbort /\ [Next]_vars => LeftoverOnlyOnAbort'
  <1> SUFFICES ASSUME TypeOK, TimersMatch, LeftoverOnlyOnAbort, [Next]_vars
               PROVE  LeftoverOnlyOnAbort'
    OBVIOUS
  <1>1. ASSUME NEW p \in Peers, NEW r \in SessionRules, SessionStep(p, r)
        PROVE  LeftoverOnlyOnAbort'
    BY <1>1 DEF SessionStep, transferVars, LeftoverOnlyOnAbort
  <1>2. ASSUME NEW p \in Peers, NEW r \in TransferRules, TransferBy(p, r)
        PROVE  LeftoverOnlyOnAbort'
    <2>1. TransferRuleOK(r) /\ timers[p] = TransferTimersOf(r.from)
      BY <1>2, TransferRulesOK DEF TransferBy, TransferRuleOK, TimersMatch
    <2>2. /\ transfer'[p] = r.to /\ timers'[p] = After(r, TransferTimersOf(r.from))
          /\ why'[p] = r.ev
      BY <1>2, <2>1 DEF TransferBy, TypeOK
    <2>3. \A q \in Peers \ {p} : /\ transfer'[q] = transfer[q] /\ timers'[q] = timers[q]
                                 /\ why'[q] = why[q]
      BY <1>2 DEF TransferBy, TypeOK
    <2> QED
      BY <2>1, <2>2, <2>3 DEF LeftoverOnlyOnAbort, TransferRuleOK, Aborts
  <1>3. CASE UNCHANGED <<sessionVars, transfer, timers, reached, why, told, kept>>
    BY <1>3 DEF LeftoverOnlyOnAbort
  <1> QED
    BY <1>1, <1>2, <1>3, StepCases

(* Only a cancel, a fatal error or a lost connection leaves a timer behind *)
(* (LeftoverOnlyOnAbort).                                                  *)
THEOREM LeftoverCorrect == Spec => []LeftoverOnlyOnAbort
  <1>1. Init => LeftoverOnlyOnAbort
    BY DEF Init, LeftoverOnlyOnAbort, IsTerminal
  <1> QED
    BY <1>1, TypeCorrect, TimersCorrect, LeftoverNext, PTL DEF Spec

LEMMA ToldNext == TypeOK /\ EndIsTold /\ [Next]_vars => EndIsTold'
  <1> SUFFICES ASSUME TypeOK, EndIsTold, [Next]_vars PROVE EndIsTold'
    OBVIOUS
  <1>1. ASSUME NEW p \in Peers, NEW r \in SessionRules, SessionStep(p, r)
        PROVE  EndIsTold'
    BY <1>1 DEF SessionStep, transferVars, EndIsTold
  <1>2. ASSUME NEW p \in Peers, NEW r \in TransferRules, TransferBy(p, r)
        PROVE  EndIsTold'
    <2>1. TransferRuleOK(r)
      BY TransferRulesOK
    <2>2. /\ transfer'[p] = r.to /\ why'[p] = r.ev
          /\ "Notify" \in r.do => told'[p]
          /\ "Preserve" \in r.do => kept'[p]
      BY <1>2 DEF TransferBy, TypeOK
    <2>3. \A q \in Peers \ {p} : /\ transfer'[q] = transfer[q] /\ why'[q] = why[q]
                                 /\ told'[q] = told[q] /\ kept'[q] = kept[q]
      BY <1>2 DEF TransferBy, TypeOK
    <2> QED
      BY <2>1, <2>2, <2>3 DEF EndIsTold, TransferRuleOK
  <1>3. CASE UNCHANGED <<sessionVars, transfer, timers, reached, why, told, kept>>
    BY <1>3 DEF EndIsTold
  <1> QED
    BY <1>1, <1>2, <1>3, StepCases

(* Every end of a transfer is reported, but for two failures while         *)
(* streaming (EndIsTold).                                                  *)
THEOREM EndsAreTold == Spec => []EndIsTold
  <1>1. Init => EndIsTold
    BY DEF Init, EndIsTold, IsTerminal
  <1> QED
    BY <1>1, TypeCorrect, ToldNext, PTL DEF Spec

LEMMA ReleasedNext == TypeOK /\ ReleasedOnce /\ [Next]_vars => ReleasedOnce'
  <1> SUFFICES ASSUME TypeOK, ReleasedOnce, [Next]_vars PROVE ReleasedOnce'
    OBVIOUS
  <1>1. ASSUME NEW p \in Peers, NEW r \in SessionRules, SessionStep(p, r)
        PROVE  ReleasedOnce'
    <2>1. SessionRuleOK(r)
      BY SessionRulesOK
    <2>2. session[p] # "Closed" /\ released[p] = 0 /\ session'[p] = r.to
      BY <1>1, <2>1 DEF SessionStep, SessionRuleOK, ReleasedOnce, TypeOK
    <2>3. released'[p] = IF r.to = "Closed" THEN 1 ELSE 0
      BY <1>1, <2>1, <2>2, SMTT(30) DEF SessionStep, SessionRuleOK, TypeOK
    <2>4. \A q \in Peers \ {p} : session'[q] = session[q] /\ released'[q] = released[q]
      BY <1>1 DEF SessionStep, TypeOK
    <2> QED
      BY <2>2, <2>3, <2>4 DEF ReleasedOnce
  <1>2. ASSUME NEW p \in Peers, NEW r \in TransferRules, TransferBy(p, r)
        PROVE  ReleasedOnce'
    BY <1>2 DEF TransferBy, sessionVars, ReleasedOnce
  <1>3. CASE UNCHANGED <<sessionVars, transfer, timers, reached, why, told, kept>>
    BY <1>3 DEF sessionVars, ReleasedOnce
  <1> QED
    BY <1>1, <1>2, <1>3, StepCases

(* A session's resources are released exactly once (ReleasedOnce).         *)
THEOREM ReleasedCorrect == Spec => []ReleasedOnce
  <1>1. Init => ReleasedOnce
    BY DEF Init, ReleasedOnce
  <1> QED
    BY <1>1, TypeCorrect, ReleasedNext, PTL DEF Spec

-----------------------------------------------------------------------------
(* No peer is ahead of the other.  What a message under way says about its *)
(* sender is part of the invariant.                                        *)

In(m, s) == \E i \in DOMAIN s : s[i] = m

LEMMA InTail ==
  ASSUME NEW S, NEW s \in Seq(S), s # <<>>, NEW m, In(m, Tail(s))
  PROVE  In(m, s)
  <1>1. /\ Len(s) \in Nat /\ DOMAIN s = 1..Len(s) /\ DOMAIN Tail(s) = 1..(Len(s) - 1)
        /\ \A i \in 1..(Len(s) - 1) : Tail(s)[i] = s[i + 1]
    BY SMTT(30)
  <1>2. PICK i \in 1..(Len(s) - 1) : s[i + 1] = m
    BY <1>1 DEF In
  <1> QED
    BY <1>1, <1>2, SMTT(30) DEF In

LEMMA InHead ==
  ASSUME NEW S, NEW s \in Seq(S), s # <<>>
  PROVE  In(Head(s), s) /\ Head(s) \in S
  <1>1. Head(s) = s[1] /\ 1 \in DOMAIN s
    BY SMTT(30)
  <1> QED
    BY <1>1, SMTT(30) DEF In

LEMMA InConcat ==
  ASSUME NEW S, NEW s \in Seq(S), NEW t \in Seq(S), NEW m, In(m, s \o t)
  PROVE  In(m, s) \/ In(m, t)
  <1>1. /\ Len(s) \in Nat /\ Len(t) \in Nat /\ DOMAIN s = 1..Len(s) /\ DOMAIN t = 1..Len(t)
        /\ DOMAIN (s \o t) = 1..(Len(s) + Len(t))
        /\ \A i \in 1..(Len(s) + Len(t)) :
             (s \o t)[i] = IF i <= Len(s) THEN s[i] ELSE t[i - Len(s)]
    BY SMTT(30)
  <1>2. PICK i \in 1..(Len(s) + Len(t)) : (s \o t)[i] = m
    BY <1>1 DEF In
  <1>3. CASE i <= Len(s)
    BY <1>1, <1>2, <1>3, SMTT(30) DEF In
  <1>4. CASE ~(i <= Len(s))
    <2>1. i - Len(s) \in 1..Len(t)
      BY <1>1, <1>4, SMTT(30)
    <2> QED
      BY <1>1, <1>2, <1>4, <2>1 DEF In
  <1> QED
    BY <1>3, <1>4

LEMMA InOne == \A x, m : In(m, <<x>>) => m = x
  BY SMTT(30) DEF In

LEMMA InNone == \A m : ~In(m, <<>>)
  BY SMTT(30) DEF In

(* What an event at a peer comes from.                                     *)
EventFrom(p, ev) ==
  \/ ev \in LocalEvents(p) \cup {"PauseReceived", "ResumeReceived", "ConnectionLost"}
               \cup TransferTimers
  \/ \E m \in Messages : In(m, net[p]) /\ ev \in EventsOf(m)

(* The rule sends m, or the receiver answers the metadata with m.          *)
Sends(r, m) == In(m, r.send) \/ (m = "MetadataAck" /\ r.ev = "AllMetadataAcked")
                 \/ m = "MetadataRejected"

NetBy(p, r) ==
  /\ EventFrom(p, r.ev)
  /\ r.ev = "LastChunkSent" => lastOut
  /\ \A m \in Messages :
       /\ In(m, net'[p]) => In(m, net[p])
       /\ In(m, net'[Other(p)]) => In(m, net[Other(p)]) \/ Sends(r, m)

LEMMA NetEffect ==
  ASSUME TypeOK, NEW p \in Peers, NEW r \in TransferRules, NEW in \in Seq(Messages),
         NEW also \in Seq(Messages), TransferStep(p, r, in, also),
         \A m : In(m, in) => In(m, net[p]),
         \A m : In(m, also) => Sends(r, m),
         EventFrom(p, r.ev), r.ev = "LastChunkSent" => lastOut
  PROVE  NetBy(p, r)
  <1> DEFINE q == Other(p)
  <1>1. /\ q \in Peers /\ net[q] \in Seq(Messages) /\ r.send \in Seq(Messages)
        /\ net'[p] = in /\ net'[q] = net[q] \o r.send \o also
    BY SentType DEF TransferStep, Other, Peers, TypeOK
  <1>2. net[q] \o r.send \in Seq(Messages)
    BY <1>1, SMTT(30)
  <1>3. ASSUME NEW m, In(m, net'[q])
        PROVE  In(m, net[q]) \/ Sends(r, m)
    <2>1. In(m, net[q] \o r.send) \/ In(m, also)
      <3> DEFINE front == net[q] \o r.send
      <3>1. front \in Seq(Messages) /\ In(m, front \o also)
        BY <1>1, <1>2, <1>3
      <3>2. In(m, front) \/ In(m, also)
        <4> HIDE DEF front
        <4> QED
          BY <3>1, InConcat
      <3> QED
        BY <3>2
    <2>2. In(m, net[q] \o r.send) => In(m, net[q]) \/ In(m, r.send)
      BY <1>1, InConcat
    <2> QED
      BY <2>1, <2>2 DEF Sends
  <1> QED
    BY <1>1, <1>3 DEF NetBy

LEMMA LedCases ==
  ASSUME TypeOK, [Next]_vars
  PROVE  \/ \E p \in Peers, r \in TransferRules : TransferBy(p, r) /\ NetBy(p, r)
         \/ /\ UNCHANGED <<transfer, reached, lastOut>>
            /\ \A q \in Peers, m \in Messages : In(m, net'[q]) => In(m, net[q])
         \/ SendLastChunk
  <1> DEFINE Goal == \E p \in Peers, r \in TransferRules : TransferBy(p, r) /\ NetBy(p, r)
  <1>0. \A p \in Peers : net[p] \in Seq(Messages)
    BY DEF TypeOK
  <1>e. <<>> \in Seq(Messages)
    BY SMTT(30)
  <1>b. ASSUME NEW p \in Peers, NEW r \in TransferRules, NEW in, NEW also,
               TransferStep(p, r, in, also)
        PROVE  TransferBy(p, r)
    BY <1>b DEF TransferStep, TransferBy, After
  <1>1. CASE UNCHANGED vars
    BY <1>1 DEF vars
  <1>2. ASSUME NEW p \in Peers, SessionEvent(p) \/ SessionTimerFires(p)
        PROVE  UNCHANGED <<transfer, reached, net, lastOut>>
    BY <1>2 DEF SessionEvent, SessionTimerFires, SessionStep, transferVars
  <1>3. ASSUME NEW p \in Peers, LocalEvent(p)
        PROVE  Goal
    <2>1. PICK r \in TransferRules : /\ r.ev \in LocalEvents(p)
                                     /\ r.ev = "LastChunkSent" => lastOut
                                     /\ TransferStep(p, r, net[p], Answer(r.ev))
      BY <1>3 DEF LocalEvent
    <2>2. \A m : In(m, Answer(r.ev)) => Sends(r, m)
      BY InOne, InNone DEF Answer, Sends
    <2>3. EventFrom(p, r.ev)
      BY <2>1 DEF EventFrom
    <2>4. NetBy(p, r)
      BY <1>0, <2>1, <2>2, <2>3, AnswerType, NetEffect
    <2> QED
      BY <1>b, <2>1, <2>4
  <1>4. ASSUME NEW p \in Peers, PauseOrResume(p) \/ TransferTimerFires(p) \/ LostWithSession(p)
        PROVE  Goal
    <2>1. PICK r \in TransferRules :
            /\ r.ev \in {"PauseReceived", "ResumeReceived", "ConnectionLost"} \cup TransferTimers
            /\ TransferStep(p, r, net[p], <<>>)
      BY <1>4 DEF PauseOrResume, TransferTimerFires, LostWithSession, TypeOK
    <2>2. EventFrom(p, r.ev) /\ r.ev # "LastChunkSent"
      BY <2>1 DEF EventFrom, TransferTimers
    <2>3. NetBy(p, r)
      BY <1>0, <1>e, <2>1, <2>2, InNone, NetEffect
    <2> QED
      BY <1>b, <2>1, <2>3
  <1>5. ASSUME NEW p \in Peers, Receive(p)
        PROVE  Goal
    <2>1. PICK r \in TransferRules : /\ r.ev \in EventsOf(Head(net[p]))
                                     /\ TransferStep(p, r, Tail(net[p]), <<>>)
      BY <1>5 DEF Receive
    <2>2. /\ net[p] # <<>> /\ Tail(net[p]) \in Seq(Messages)
          /\ Head(net[p]) \in Messages /\ In(Head(net[p]), net[p])
      BY <1>0, <1>5, InHead, SMTT(30) DEF Receive
    <2>3. EventFrom(p, r.ev) /\ r.ev # "LastChunkSent"
      BY <2>1, <2>2 DEF EventFrom, EventsOf, Messages
    <2>4. \A m : In(m, Tail(net[p])) => In(m, net[p])
      BY <1>0, <2>2, InTail
    <2>5. NetBy(p, r)
      BY <1>e, <2>1, <2>2, <2>3, <2>4, InNone, NetEffect
    <2> QED
      BY <1>b, <2>1, <2>5
  <1>6. ASSUME NEW p \in Peers, Ignore(p)
        PROVE  /\ UNCHANGED <<transfer, reached, lastOut>>
               /\ \A q \in Peers, m \in Messages : In(m, net'[q]) => In(m, net[q])
    <2>1. net[p] # <<>> /\ net' = [net EXCEPT ![p] = Tail(@)]
      BY <1>6 DEF Ignore
    <2>2. \A m : In(m, Tail(net[p])) => In(m, net[p])
      BY <1>0, <2>1, InTail
    <2> QED
      BY <1>6, <2>1, <2>2 DEF Ignore, TypeOK
  <1> QED
    BY <1>1, <1>2, <1>3, <1>4, <1>5, <1>6 DEF Next

MessagesLead ==
  /\ In("Accept", net["sender"]) => "Negotiating" \in reached["receiver"]
  /\ In("MetadataAck", net["sender"]) => "Streaming" \in reached["receiver"]
  /\ In("LastChunk", net["receiver"]) \/ In("Complete", net["receiver"]) => lastOut
  /\ lastOut => "Streaming" \in reached["sender"]
  /\ In("Ack", net["sender"]) => "Completing" \in reached["receiver"]

LedInv ==
  /\ LedByPeer /\ MessagesLead
  /\ \A p \in Peers : /\ transfer[p] \in reached[p]
                      /\ transfer[p] = "Paused" => "Streaming" \in reached[p]

LEMMA LedNext == TypeOK /\ LedInv /\ [Next]_vars => LedInv'
  <1> SUFFICES ASSUME TypeOK, LedInv, [Next]_vars PROVE LedInv'
    OBVIOUS
  <1>1. CASE /\ UNCHANGED <<transfer, reached, lastOut>>
             /\ \A q \in Peers, m \in Messages : In(m, net'[q]) => In(m, net[q])
    BY <1>1 DEF LedInv, LedByPeer, MessagesLead, Peers, Messages
  <1>2. ASSUME NEW p \in Peers, NEW r \in TransferRules, TransferBy(p, r), NetBy(p, r)
        PROVE  LedInv'
    <2>1. TransferRuleLeads(r)
      BY TransferRulesOK
    <2>2. /\ transfer'[p] = r.to /\ reached'[p] = reached[p] \cup {r.to}
          /\ r.from = transfer[p]
          /\ \A q \in Peers \ {p} : transfer'[q] = transfer[q] /\ reached'[q] = reached[q]
          /\ lastOut' = lastOut
      BY <1>2 DEF TransferBy, TypeOK
    <2>3. /\ Sends(r, "Accept") => r.to = "Negotiating"
          /\ Sends(r, "MetadataAck") => r.to = "Streaming"
          /\ Sends(r, "Complete") => r.ev = "LastChunkSent"
          /\ ~Sends(r, "LastChunk")
          /\ Sends(r, "Ack") => r.to = "Completing"
      BY <2>1, InOne, InNone DEF TransferRuleLeads, Sends
    <2>4. \A q \in Peers : /\ transfer'[q] \in reached'[q]
                           /\ transfer'[q] = "Paused" => "Streaming" \in reached'[q]
      BY <2>1, <2>2 DEF LedInv, TransferRuleLeads
    <2>5. CASE p = "sender"
      <3>1. /\ r.to = "Negotiating" => "Negotiating" \in reached["receiver"]
            /\ r.to = "Streaming" => "Streaming" \in reached["receiver"]
            /\ r.to = "Complete" => "Completing" \in reached["receiver"]
        <4>1. /\ EventFrom(p, "ReceiveTransferAccept") => In("Accept", net[p])
              /\ EventFrom(p, "AllMetadataAcked") => In("MetadataAck", net[p])
              /\ EventFrom(p, "AckSuccess") => In("Ack", net[p])
              /\ ~EventFrom(p, "UserAccept") /\ ~EventFrom(p, "AckSent")
          BY <2>5 DEF EventFrom, LocalEvents, EventsOf, Messages, TransferTimers
        <4> QED
          BY <1>2, <2>1, <2>2, <2>5, <4>1
          DEF NetBy, TransferRuleLeads, LedInv, LedByPeer, MessagesLead
      <3>2. LedByPeer'
        BY <2>2, <2>5, <3>1 DEF LedInv, LedByPeer, Peers
      <3>3. MessagesLead'
        BY <1>2, <2>2, <2>3, <2>5 DEF NetBy, Other, LedInv, MessagesLead, Peers, Messages
      <3> QED
        BY <2>4, <3>2, <3>3 DEF LedInv
    <2>6. CASE p = "receiver"
      <3>1. r.to = "Completing" => lastOut /\ "Streaming" \in reached["sender"]
        <4>1. /\ EventFrom(p, "AllChunksReceived")
                   => In("LastChunk", net[p]) \/ In("Complete", net[p])
              /\ ~EventFrom(p, "LastChunkSent")
          BY <2>6 DEF EventFrom, LocalEvents, EventsOf, Messages, TransferTimers
        <4> QED
          BY <1>2, <2>1, <2>6, <4>1 DEF NetBy, TransferRuleLeads, LedInv, MessagesLead
      <3>2. LedByPeer'
        BY <2>2, <2>6, <3>1 DEF LedInv, LedByPeer, Peers
      <3>3. MessagesLead'
        BY <1>2, <2>2, <2>3, <2>6 DEF NetBy, Other, LedInv, MessagesLead, Peers, Messages
      <3> QED
        BY <2>4, <3>2, <3>3 DEF LedInv
    <2> QED
      BY <2>5, <2>6 DEF Peers
  <1>3. CASE SendLastChunk
    <2>1. /\ lastOut' /\ UNCHANGED <<transfer, reached>>
          /\ net'["sender"] = net["sender"]
          /\ "Streaming" \in reached["sender"]
      BY <1>3 DEF SendLastChunk, LedInv, Peers, TypeOK
    <2> QED
      BY <2>1 DEF LedInv, LedByPeer, MessagesLead
  <1> QED
    BY <1>1, <1>2, <1>3, LedCases

(* No peer is ahead of what the other has agreed to (LedByPeer).           *)
THEOREM PeersInStep == Spec => []LedByPeer
  <1>1. Init => LedInv
    BY InNone, SMTT(30) DEF Init, LedInv, LedByPeer, MessagesLead, Peers
  <1>2. LedInv => LedByPeer
    BY DEF LedInv
  <1> QED
    BY <1>1, <1>2, TypeCorrect, LedNext, PTL DEF Spec

=============================================================================
