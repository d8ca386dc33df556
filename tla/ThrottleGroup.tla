--------------------------- MODULE ThrottleGroup ---------------------------
(***************************************************************************)
(* The throttles of one node at work: requests are admitted, answers come  *)
(* back later, and the maintenance loop turns the rings while seconds pass *)
(* (and sometimes misses one). Every step holds the node's mutex.          *)
(*                                                                         *)
(* What the limits promise is stated against a record of the admissions    *)
(* the program does not keep: `admitted` counts them by the window they    *)
(* were made in, and forgets a window only when it is out of reach of      *)
(* every limiter.                                                          *)
(***************************************************************************)
EXTENDS Throttle, SecondLoop

CONSTANTS
  Sizes,         \* bytes an answer may hold
  MaxInFlight    \* bound: requests waiting for their answer

ASSUME GroupAssumption ==
  /\ \A th \in Throttles : Cycle % (WindowCount[th] * WindowSeconds[th]) = 0
  /\ Sizes \subseteq Nat
  /\ MaxInFlight \in Nat \ {0}

VARIABLES
  group,       \* SOLClient.throttle
  in_flight,   \* requests counted whose answer has not been received
  admitted,    \* ghost: [Throttles -> windows back -> methods -> admissions]
  overdrawn    \* ghost: admissions since the data limit was seen exceeded

vars == <<group, in_flight, admitted, overdrawn, loopVars>>

(* How many windows the limiters of a throttle look back. *)
Horizon(th) == Max({1} \cup {l.in_time_windows : l \in Limiters[th]})

NothingAdmitted == [m \in Methods |-> 0]

Init ==
  /\ LoopInit
  /\ group = [th \in Throttles |-> MakeCustom(th, clock)]
  /\ in_flight = 0
  /\ admitted = [th \in Throttles |->
                  [age \in 0 .. Horizon(th) - 1 |-> NothingAdmitted]]
  /\ overdrawn = [th \in Throttles |-> 0]

-----------------------------------------------------------------------------

(* A data limiter of the throttle is exhausted, whatever status_throttled  *)
(* says.                                                                   *)
DataExhausted(th, T) ==
  \E l \in Limiters[th] :
    l.t = "L_DATA_RECEIVED" /\ AmountUsed(th, T, l) >= l.maximum

(* SOLClient.RequestForward and RequestBasic up to the unlock: a throttled *)
(* node answers R_THROTTLED and changes nothing.                           *)
Request(m) ==
  /\ ~ GroupThrottled(group)
  /\ in_flight < MaxInFlight
  /\ group' = GroupOnRequest(group, m)
  /\ in_flight' = in_flight + 1
  /\ admitted' = [th \in Throttles |-> [admitted[th] EXCEPT ![0][m] = @ + 1]]
  /\ overdrawn' = [th \in Throttles |->
                     IF DataExhausted(th, group[th])
                     THEN overdrawn[th] + 1 ELSE overdrawn[th]]
  /\ UNCHANGED loopVars

(* The end of _docall. *)
Receive(bytes) ==
  /\ in_flight > 0
  /\ in_flight' = in_flight - 1
  /\ group' = GroupOnReceive(group, bytes)
  /\ UNCHANGED <<admitted, overdrawn, loopVars>>

(* A failed request receives nothing. *)
Fail ==
  /\ in_flight > 0
  /\ in_flight' = in_flight - 1
  /\ UNCHANGED <<group, admitted, overdrawn, loopVars>>

(* Windows of th between the last maintenance and now. *)
WindowsPassed(th) ==
  LET windows == Cycle \div WindowSeconds[th]
  IN  ((clock \div WindowSeconds[th]) - (noticed \div WindowSeconds[th]))
        % windows

Maintain ==
  /\ Wake
  /\ group' = GroupOnMaintenance(group, clock)
  /\ admitted' = [th \in Throttles |->
                    [age \in 0 .. Horizon(th) - 1 |->
                      IF age >= WindowsPassed(th)
                      THEN admitted[th][age - WindowsPassed(th)]
                      ELSE NothingAdmitted]]
  /\ overdrawn' = [th \in Throttles |->
                     IF WindowsPassed(th) = 0 THEN overdrawn[th] ELSE 0]
  /\ UNCHANGED in_flight

OtherLoopStep ==
  /\ ReadNow \/ WakeIdle \/ Tick
  /\ UNCHANGED <<group, in_flight, admitted, overdrawn>>

Next ==
  \/ \E m \in Methods : Request(m)
  \/ \E b \in Sizes : Receive(b)
  \/ Fail
  \/ Maintain
  \/ OtherLoopStep

Spec == Init /\ [][Next]_vars

-----------------------------------------------------------------------------
(* Properties                                                              *)

(* Every ring is well formed: stats_pos is a window, counters are counts   *)
(* and a percentage is between 0 and 10000 (throttle.go:21-33).            *)
TypeOK ==
  /\ LoopTypeOK
  /\ in_flight \in 0 .. MaxInFlight
  /\ \A th \in Throttles :
       /\ group[th].stats_pos \in DOMAIN group[th].stats
       /\ group[th].throttled \in BOOLEAN
       /\ group[th].capacity_used \in 0 .. Full
       /\ group[th].score \in Int

(* Admissions a limiter should have charged: in its last in_time_windows.  *)
Admitted(th, l) ==
  SumFunction([age \in 0 .. l.in_time_windows - 1 |-> SumFunction(admitted[th][age])])
AdmittedFor(th, l, m) ==
  SumFunction([age \in 0 .. l.in_time_windows - 1 |-> admitted[th][age][m]])

(* README.md:11, "Keep requests below allocated limits": no more requests  *)
(* than the maximum are admitted in the windows a limiter looks at, in     *)
(* total or for one method, whichever second the loop misses and however   *)
(* many throttles the node has.                                            *)
RateLimit ==
  \A th \in Throttles : \A l \in Limiters[th] :
    /\ l.t = "L_REQUESTS" => Admitted(th, l) <= l.maximum
    /\ l.t = "L_REQUESTS_PER_FN" =>
         \A m \in Methods : AdmittedFor(th, l, m) <= l.maximum

(* Data is counted when it arrives and looked at when the next request is  *)
(* counted: once the data limit is exceeded at most one more request gets  *)
(* through before the node is throttled (stats.go:26-29).                  *)
OneRequestPastDataLimit == \A th \in Throttles : overdrawn[th] <= 1

(* The kept verdict (stats.go:20, 44) lags in one direction only: it is    *)
(* never stricter than the windows justify, and without a data limiter it  *)
(* is exactly what they justify.                                           *)
VerdictNeverTooStrict ==
  \A th \in Throttles :
    LET fresh == FreshScore(th, group[th])
    IN  /\ group[th].throttled => fresh.throttled
        /\ group[th].capacity_used <= fresh.capacity_used
        /\ (\A l \in Limiters[th] : l.t # "L_DATA_RECEIVED") =>
             group[th].throttled = fresh.throttled

(* A throttled node is used again: provided no second of the cycle is      *)
(* missed for ever, the node is not throttled for ever, though a missed    *)
(* second leaves an old window in the ring (stats.go:31-47).               *)
Recovers ==
  (\A s \in Seconds : []<>(noticed = s)) => []<>(~ GroupThrottled(group))
=============================================================================
