------------------------------ MODULE EspNetwork ------------------------------
(***************************************************************************)
(* The facade of the microcontrollers (Network/ESPNetwork.cpp): before the *)
(* first request with a certificate it waits for the clock to be set by    *)
(* NTP, because certificates are checked against the time of day.          *)
(*                                                                         *)
(* One device, whose application calls MakeRequest and Restart one at a    *)
(* time, while the clock ticks, NTP answers arrive at any moment and the   *)
(* clock may be lost in hibernation.  The application does what            *)
(* ESPNetwork.h:61 and 73 ask of it: after hibernation it makes no request *)
(* with a certificate before a call of Restart returned true.              *)
(***************************************************************************)
EXTENDS Integers

CONSTANTS
  Retries,        (* ESPNetwork_NTP_LOOP_RETRIES                            *)
  Threshold,      (* a clock below it counts as not set: 8 * 3600 * 2       *)
  RealTime,       (* the clock once NTP has set it                          *)
  MaxUptime,      (* bound on the clock of a device that NTP never reached; *)
                  (* it may lie on either side of Threshold                 *)
  MayHibernate    (* the device may lose its clock while idle               *)

ASSUME EspAssumption ==
  /\ MayHibernate \in BOOLEAN
  /\ Retries \in Nat \ {0}
  /\ Threshold \in Nat /\ RealTime \in Nat /\ MaxUptime \in Nat
  /\ Threshold < RealTime /\ MaxUptime < RealTime

HTTP_CODE_OK == 200
ServerError == 502
ConnectionRefused == -1
ReadTimeout == -11
NotSynchronized == -2       (* MakeRequest: NTP failed                      *)
NoCertificate == -3         (* MakeRequest: https without certificate       *)
Schemes == {"http", "https"}
Codes == {HTTP_CODE_OK, ServerError, ConnectionRefused, ReadTimeout}
None == [call |-> "none", ok |-> FALSE, status |-> 0]
Restarted(ok) == [call |-> "Restart", ok |-> ok, status |-> 0]
Answer(scheme, status) == [call |-> scheme, ok |-> status = HTTP_CODE_OK, status |-> status]

VARIABLES
  caCertAdded,    (* the constructor got a root certificate                 *)
  timeSyncRequired,
  httpBegun,      (* the HTTPClient was begun and not ended                 *)
  pc,             (* "idle", "poll" in SetClock's loop, or "exchange"       *)
  caller,         (* who waits: "Restart" or the scheme of a request        *)
  retryCount,
  returned,       (* what the last call returned                            *)
  clock,          (* time(nullptr): counts from boot until NTP sets it      *)
  restartDue      (* history: the application knows that it hibernated and  *)
                  (* has had no Restart that returned true since            *)

vars == <<caCertAdded, timeSyncRequired, httpBegun, pc, caller, retryCount, returned,
          clock, restartDue>>

Init ==
  /\ caCertAdded \in BOOLEAN
  /\ timeSyncRequired = caCertAdded
  /\ httpBegun = FALSE
  /\ pc = "idle"
  /\ caller = "none"
  /\ retryCount = 0
  /\ returned = None
  /\ clock = 0
  /\ restartDue = FALSE

(* The caller sees the result; of Restart it may have waited for true.     *)
Return(result) ==
  /\ pc' = "idle"
  /\ caller' = "none"
  /\ returned' = result
  /\ restartDue' = (restartDue /\ result # Restarted(TRUE))

-------------------------------------------------------------------------------
(* MakeRequest behind the time synchronisation.                            *)
Connect(scheme) ==
  \/ /\ scheme = "https" /\ ~caCertAdded
     /\ Return(Answer(scheme, NoCertificate))
     /\ UNCHANGED httpBegun
  \/ /\ ~(scheme = "https" /\ ~caCertAdded)
     /\ pc' = "exchange"
     /\ caller' = scheme
     /\ httpBegun' = TRUE
     /\ UNCHANGED <<returned, restartDue>>

\* A broken twin of the next definition.
MakeRequestKeepsCount(scheme) ==
  /\ pc = "idle" /\ ~restartDue
  /\ \/ /\ timeSyncRequired
        /\ pc' = "poll" /\ caller' = scheme
        /\ UNCHANGED <<httpBegun, returned, restartDue>>
     \/ /\ ~timeSyncRequired
        /\ Connect(scheme)
  /\ UNCHANGED <<caCertAdded, timeSyncRequired, retryCount, clock>>

(* Any request synchronises first as long as that is required.             *)
MakeRequest(scheme) ==
  /\ pc = "idle" /\ ~restartDue
  /\ \/ /\ timeSyncRequired
        /\ pc' = "poll" /\ caller' = scheme /\ retryCount' = 0
        /\ UNCHANGED <<httpBegun, returned, restartDue>>
     \/ /\ ~timeSyncRequired
        /\ Connect(scheme)
        /\ UNCHANGED retryCount
  /\ UNCHANGED <<caCertAdded, timeSyncRequired, clock>>

\* A broken twin of the next definition.
RestartIfRequired ==
  /\ pc = "idle"
  /\ \/ /\ timeSyncRequired
        /\ pc' = "poll" /\ caller' = "Restart" /\ retryCount' = 0
        /\ UNCHANGED <<returned, restartDue>>
     \/ /\ ~timeSyncRequired
        /\ Return(Restarted(TRUE))
        /\ UNCHANGED retryCount
  /\ UNCHANGED <<caCertAdded, timeSyncRequired, httpBegun, clock>>

(* Restart always waits for the clock, whatever timeSyncRequired says.     *)
Restart ==
  /\ pc = "idle"
  /\ pc' = "poll" /\ caller' = "Restart" /\ retryCount' = 0
  /\ UNCHANGED <<caCertAdded, timeSyncRequired, httpBegun, returned, clock, restartDue>>

(***************************************************************************)
(* One evaluation of the condition of SetClock's loop on the time just     *)
(* read; the right operand of && increments retryCount when it is reached. *)
(***************************************************************************)

\* A broken twin of the next definition.
Uncounted == retryCount
Evaluated == IF clock < Threshold THEN retryCount + 1 ELSE retryCount

\* A broken twin of the next definition.
OneMoreRound == clock < Threshold /\ retryCount <= Retries
StaysInLoop == clock < Threshold /\ retryCount < Retries

TimedOut == Evaluated >= Retries

PollAgain ==
  /\ pc = "poll"
  /\ StaysInLoop
  /\ retryCount' = Evaluated
  /\ UNCHANGED <<caCertAdded, timeSyncRequired, httpBegun, pc, caller, returned, clock,
                 restartDue>>

ClockSet ==
  /\ pc = "poll"
  /\ ~StaysInLoop /\ ~TimedOut
  /\ timeSyncRequired' = FALSE
  /\ \/ /\ caller = "Restart"
        /\ Return(Restarted(TRUE))
        /\ UNCHANGED httpBegun
     \/ /\ caller \in Schemes
        /\ Connect(caller)
  /\ UNCHANGED <<caCertAdded, retryCount, clock>>

ClockNotSet ==
  /\ pc = "poll"
  /\ ~StaysInLoop /\ TimedOut
  /\ Return(IF caller = "Restart" THEN Restarted(FALSE)
            ELSE Answer(caller, NotSynchronized))
  /\ UNCHANGED <<caCertAdded, timeSyncRequired, httpBegun, retryCount, clock>>

(* sendRequest returns.  A certificate is refused unless the clock is      *)
(* right.  An exchange that failed leaves without http.end().              *)
Exchange ==
  /\ pc = "exchange"
  /\ \E code \in Codes :
       /\ caller = "https" /\ clock # RealTime => code = ConnectionRefused
       /\ Return(Answer(caller, code))
       /\ httpBegun' = (code < 100)
  /\ UNCHANGED <<caCertAdded, timeSyncRequired, retryCount, clock>>

-------------------------------------------------------------------------------
(* The clock: it ticks, NTP sets it, hibernation resets it.                *)
Tick ==
  /\ clock < MaxUptime
  /\ clock' = clock + 1
  /\ UNCHANGED <<caCertAdded, timeSyncRequired, httpBegun, pc, caller, retryCount, returned,
                 restartDue>>

NtpAnswers ==
  /\ clock' = RealTime
  /\ UNCHANGED <<caCertAdded, timeSyncRequired, httpBegun, pc, caller, retryCount, returned,
                 restartDue>>

Hibernate ==
  /\ MayHibernate
  /\ pc = "idle"
  /\ clock' = 0
  /\ restartDue' = caCertAdded
  /\ UNCHANGED <<caCertAdded, timeSyncRequired, httpBegun, pc, caller, retryCount, returned>>

-------------------------------------------------------------------------------
Library == PollAgain \/ ClockSet \/ ClockNotSet \/ Exchange
Application == Restart \/ \E scheme \in Schemes : MakeRequest(scheme)

Next == Library \/ Application \/ Tick \/ NtpAnswers \/ Hibernate

Spec == Init /\ [][Next]_vars

(* SetClock's loop goes on by itself, sendRequest has a time-out, and the  *)
(* application's loop() makes requests over and over, or tries Restart     *)
(* again while it has to.                                                  *)
Fairness ==
  /\ WF_vars(Library)
  /\ WF_vars(restartDue /\ Restart)
  /\ SF_vars(MakeRequest("https"))
FairSpec == Spec /\ Fairness

-------------------------------------------------------------------------------
(* Properties                                                              *)

TypeOK ==
  /\ caCertAdded \in BOOLEAN /\ timeSyncRequired \in BOOLEAN
  /\ httpBegun \in BOOLEAN /\ restartDue \in BOOLEAN
  /\ pc \in {"idle", "poll", "exchange"}
  /\ caller \in Schemes \cup {"Restart", "none"}
  /\ pc = "idle" <=> caller = "none"
  /\ retryCount \in 0..Retries
  /\ clock \in 0..MaxUptime \cup {RealTime}

(* ESPNetwork.cpp:79-98, 148.  With a certificate no request is sent under *)
(* a clock that SetClock would still wait for: not before the first        *)
(* synchronisation, however often it failed, and not after hibernation,    *)
(* though MakeRequest itself never synchronises twice.                     *)
SentWithSetClock ==
  pc = "exchange" /\ caCertAdded => clock >= Threshold

(* Every call returns: the loop ends after its retries.                    *)
CallsReturn == pc # "idle" ~> pc = "idle"

(* ESPNetwork.cpp:79-87, 91-98.  Failing to synchronise is never final:    *)
(* once the clock is right and stays so, requests are sent again and       *)
(* again.                                                                  *)
SyncFailureHeals ==
  caCertAdded /\ <>[](clock = RealTime) => []<>(pc = "exchange")

(* ESPNetwork.h:74: Restart returns "true if NTP time was successfully     *)
(* fetched".  Then it never returns true with another time on the clock.   *)
TrueMeansFetched ==
  [][ClockSet /\ caller = "Restart" => clock = RealTime]_vars

(* The converse: it never returns false with the right time on the clock.  *)
FetchedMeansTrue ==
  [][ClockNotSet /\ caller = "Restart" => clock # RealTime]_vars

===============================================================================
