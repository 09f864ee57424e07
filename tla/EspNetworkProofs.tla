--------------------------- MODULE EspNetworkProofs ---------------------------
(***************************************************************************)
(* Proofs about EspNetwork: with a certificate no request is sent under a  *)
(* clock that SetClock would wait for, for any number of retries and any   *)
(* time constants, the uptime being shorter or longer than Threshold.      *)
(***************************************************************************)
EXTENDS EspNetwork, TLAPS

USE EspAssumption

(* The clock is set whenever neither the facade nor the application has to *)
(* synchronise, and from there to the end of an exchange.                  *)
SyncedMeansSet ==
  /\ caCertAdded /\ ~timeSyncRequired /\ ~restartDue => clock >= Threshold
  /\ SentWithSetClock

(* The type invariant in three parts.                                      *)
Flags ==
  /\ caCertAdded \in BOOLEAN /\ timeSyncRequired \in BOOLEAN
  /\ httpBegun \in BOOLEAN /\ restartDue \in BOOLEAN
Positions ==
  /\ pc \in {"idle", "poll", "exchange"}
  /\ caller \in Schemes \cup {"Restart", "none"}
  /\ pc = "idle" <=> caller = "none"
Numbers ==
  /\ retryCount \in 0..Retries
  /\ clock \in 0..MaxUptime \cup {RealTime}

(* The loop ends without a time-out only on a time that counts as set.     *)
LEMMA LoopEndsOnSetClock ==
  ASSUME TypeOK, ~StaysInLoop, ~TimedOut
  PROVE  clock >= Threshold
  BY DEF TypeOK, StaysInLoop, TimedOut, Evaluated

(* Only a Restart that succeeded returns what the application waits for.   *)
LEMMA AnswersDoNotRelease ==
  ASSUME NEW scheme, NEW status, status # 0
  PROVE  Answer(scheme, status) # Restarted(TRUE)
  <1>1. Answer(scheme, status).status = status /\ Restarted(TRUE).status = 0
    BY DEF Answer, Restarted
  <1> QED
    BY <1>1

LEMMA FailureDoesNotRelease == Restarted(FALSE) # Restarted(TRUE)
  <1>1. Restarted(TRUE).ok = TRUE /\ Restarted(FALSE).ok = FALSE
    BY DEF Restarted
  <1> QED
    BY <1>1

LEMMA InitEsp == Init => TypeOK /\ SyncedMeansSet
  <1> SUFFICES ASSUME Init PROVE TypeOK /\ SyncedMeansSet
    OBVIOUS
  <1>1. caCertAdded \in BOOLEAN /\ timeSyncRequired \in BOOLEAN
    BY Zenon DEF Init
  <1>2. TypeOK
    <2>1. Flags
      BY <1>1, Zenon DEF Init, Flags
    <2>2. Positions /\ Numbers
      BY DEF Init, Positions, Numbers, Schemes
    <2> QED
      BY <2>1, <2>2 DEF TypeOK, Flags, Positions, Numbers
  <1>3. caCertAdded => timeSyncRequired
    BY Zenon DEF Init
  <1>4. pc # "exchange"
    BY DEF Init
  <1> QED
    BY <1>2, <1>3, <1>4 DEF SyncedMeansSet, SentWithSetClock

LEMMA StepTypes ==
  ASSUME TypeOK, [Next]_vars
  PROVE  TypeOK'
  <1> USE DEF TypeOK
  <1>1. CASE UNCHANGED vars
    BY <1>1 DEF vars
  <1>2. CASE PollAgain
    BY <1>2 DEF PollAgain, StaysInLoop, Evaluated
  <1>3. CASE ClockSet
    BY <1>3 DEF ClockSet, Return, Connect, Schemes
  <1>4. CASE ClockNotSet
    BY <1>4 DEF ClockNotSet, Return
  <1>5. CASE Exchange
    BY <1>5 DEF Exchange, Return, Codes, HTTP_CODE_OK, ServerError, ConnectionRefused, ReadTimeout
  <1>6. CASE Restart
    BY <1>6 DEF Restart
  <1>7. ASSUME NEW scheme \in Schemes, MakeRequest(scheme)
        PROVE  TypeOK'
    <2>1. Flags'
      BY <1>7 DEF MakeRequest, Connect, Return, Flags
    <2>2. Positions'
      BY <1>7 DEF MakeRequest, Connect, Return, Schemes, Positions
    <2>3. Numbers'
      BY <1>7 DEF MakeRequest, Numbers
    <2> QED
      BY <2>1, <2>2, <2>3 DEF Flags, Positions, Numbers
  <1>8. CASE Tick
    BY <1>8 DEF Tick
  <1>9. CASE NtpAnswers \/ Hibernate
    <2>1. Flags' /\ Positions'
      BY <1>9 DEF NtpAnswers, Hibernate, Flags, Positions
    <2>2. Numbers'
      BY <1>9 DEF NtpAnswers, Hibernate, Numbers
    <2> QED
      BY <2>1, <2>2 DEF Flags, Positions, Numbers
  <1> QED
    BY <1>1, <1>2, <1>3, <1>4, <1>5, <1>6, <1>7, <1>8, <1>9 DEF Next, Library, Application

LEMMA StepSynced ==
  ASSUME TypeOK, SyncedMeansSet, [Next]_vars
  PROVE  SyncedMeansSet'
  <1> USE DEF TypeOK, SyncedMeansSet, SentWithSetClock
  <1>1. CASE UNCHANGED vars
    BY <1>1 DEF vars
  <1>2. CASE PollAgain
    BY <1>2 DEF PollAgain
  <1>3. CASE ClockSet
    BY <1>3, LoopEndsOnSetClock DEF ClockSet
  <1>4. CASE ClockNotSet
    <2> DEFINE result == IF caller = "Restart" THEN Restarted(FALSE)
                         ELSE Answer(caller, NotSynchronized)
    <2>1. result # Restarted(TRUE)
      <3>1. NotSynchronized # 0
        BY DEF NotSynchronized
      <3> QED
        BY <3>1, AnswersDoNotRelease, FailureDoesNotRelease
    <2>2. restartDue' <=> restartDue
      BY <1>4, <2>1, Zenon DEF ClockNotSet, Return
    <2>3. pc' = "idle" /\ UNCHANGED <<caCertAdded, timeSyncRequired, clock>>
      BY <1>4 DEF ClockNotSet, Return
    <2> QED
      BY <2>2, <2>3
  <1>5. CASE Exchange
    <2>1. PICK code \in Codes : Return(Answer(caller, code))
      BY <1>5 DEF Exchange
    <2>2. Answer(caller, code) # Restarted(TRUE)
      <3>1. code # 0
        BY DEF Codes, HTTP_CODE_OK, ServerError, ConnectionRefused, ReadTimeout
      <3> QED
        BY <3>1, AnswersDoNotRelease
    <2>3. restartDue' <=> restartDue
      BY <2>1, <2>2, Zenon DEF Return
    <2>4. pc' = "idle" /\ UNCHANGED <<caCertAdded, timeSyncRequired, clock>>
      BY <1>5, <2>1 DEF Exchange, Return
    <2> QED
      BY <2>3, <2>4
  <1>6. CASE Restart
    BY <1>6 DEF Restart
  <1>7. ASSUME NEW scheme \in Schemes, MakeRequest(scheme)
        PROVE  SyncedMeansSet'
    <2>1. restartDue' = restartDue
      BY <1>7, AnswersDoNotRelease DEF MakeRequest, Connect, Return, NoCertificate
    <2> QED
      BY <1>7, <2>1 DEF MakeRequest, Connect, Return
  <1>8. CASE Tick
    BY <1>8 DEF Tick
  <1>9. CASE NtpAnswers
    BY <1>9 DEF NtpAnswers
  <1>10. CASE Hibernate
    BY <1>10 DEF Hibernate
  <1> QED
    BY <1>1, <1>2, <1>3, <1>4, <1>5, <1>6, <1>7, <1>8, <1>9, <1>10
       DEF Next, Library, Application

(* ESPNetwork.cpp: every variable keeps its type; in particular the count  *)
(* of retries never passes its limit.                                      *)
THEOREM EspTypes == Spec => []TypeOK
  BY InitEsp, StepTypes, PTL DEF Spec

(* ESPNetwork.cpp:79-98, 148: with a certificate no request is sent under  *)
(* a clock that SetClock would still wait for, whatever synchronising      *)
(* failed or hibernation lost.                                             *)
THEOREM RequestsAreTimely == Spec => []SentWithSetClock
  <1>1. SyncedMeansSet => SentWithSetClock
    BY DEF SyncedMeansSet
  <1>2. TypeOK /\ SyncedMeansSet /\ [Next]_vars => SyncedMeansSet'
    BY StepSynced
  <1> QED
    BY <1>1, <1>2, InitEsp, EspTypes, PTL DEF Spec

===============================================================================
