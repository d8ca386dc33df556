------------------------------ MODULE SOLClient ------------------------------
(***************************************************************************)
(* One Solana node behind the proxy: gosol/solana_proxy/client. Requests   *)
(* of many goroutines are admitted, counted, sent and accounted for, each  *)
(* in separate critical sections of the node's mutex; once a second the    *)
(* maintenance turns the ring of statistics, decides whether the node is   *)
(* dead and may launch a probe.                                            *)
(*                                                                         *)
(* One action is one critical section. What happens on the wire between    *)
(* two of them is the choice among the actions that end the call: the      *)
(* answer arrives, arrives without our serial number, breaks off, or never *)
(* arrives (the HTTP client gives up after 5 seconds).                     *)
(***************************************************************************)
EXTENDS Throttle, SecondLoop

CONSTANTS
  Users,         \* goroutines serving requests
  Probers,       \* goroutines that _maint_stat may launch
  Heart,         \* the goroutine of MakeClient, later the 500ms heartbeat loop
  ProbeTimes,    \* values of the node's probe_time
  Sizes,         \* bytes an answer may hold
  BootCalls,     \* requests MakeClient makes before the node is used (3)
  RingSeconds,   \* len(stat_last_60) (60)
  MinLookback,   \* shortest time the health looks back (30)
  DeadRatio,     \* a node is dead when 1/DeadRatio of its requests fail (5)
  MaxRequests,   \* bound: requests ever admitted
  MaxProbes      \* bound: probe goroutines launched that have not called yet

Callers == Users \cup Probers \cup {Heart}

ASSUME ClientAssumption ==
  /\ IsFiniteSet(Users) /\ IsFiniteSet(Probers)
  /\ Users \cap Probers = {} /\ Heart \notin Users \cup Probers
  /\ ProbeTimes \subseteq Nat
  /\ Sizes \subseteq Nat
  /\ BootCalls \in Nat
  /\ MaxRequests \in Nat
  /\ MaxProbes \in Nat \ {0}
  /\ RingSeconds \in Nat \ {0}
  /\ MinLookback \in 1 .. RingSeconds
  /\ DeadRatio \in Nat \ {0}

ASSUME RingAssumption ==
  /\ Cycle % RingSeconds = 0
  /\ \A th \in Throttles : Cycle % (WindowCount[th] * WindowSeconds[th]) = 0

VARIABLES
  throttle,      \* SOLClient.throttle, the group of throttles
  stat_running,  \* requests sent and not yet accounted for
  stat_total,    \* stat_total: counters since the node was made
  last_60,       \* stat_last_60: the same counters for each second
  last_60_pos,   \* stat_last_60_pos
  serial_no,
  last_error,    \* _last_error.counter
  is_disabled,
  probe_time,    \* _probe_time
  bad_url,       \* http.NewRequest refuses the endpoint
  pc,            \* callers: "idle", "docall" (sent), "check" (answer read)
  kind,          \* callers: "forward" (RequestForward) or "basic"
  serial,        \* callers: the serial number of their request
  boot_left,     \* startup requests still to make
  serving,       \* MakeClient has returned
  probes,        \* probe goroutines launched that have not called yet
  history,       \* ghost: [seconds back -> requests and failures counted]
  settled        \* ghost: the ring has turned past the startup's slot

statVars == <<stat_running, stat_total, last_60, serial_no, last_error>>
healthVars == <<last_60_pos, is_disabled, probe_time, bad_url>>
callVars == <<pc, kind, serial>>
lifeVars == <<boot_left, serving, probes>>
ghostVars == <<history, settled>>
vars == <<throttle, statVars, healthVars, callVars, lifeVars, ghostVars, loopVars>>

Slot == [done : Nat, error_req : Nat, error_resp : Nat, error_resp_read : Nat]
NoStat == [done |-> 0, error_req |-> 0, error_resp |-> 0, error_resp_read |-> 0]
Ring == 0 .. RingSeconds - 1

(* Every counter is a count: in particular stat_running never drops below  *)
(* zero, whichever of the ways to end a call are taken in whatever order.  *)
TypeOK ==
  /\ LoopTypeOK
  /\ stat_running \in Nat
  /\ stat_total \in Slot
  /\ last_60 \in [Ring -> Slot]
  /\ last_60_pos \in Ring
  /\ serial_no \in Nat
  /\ last_error \in Nat
  /\ is_disabled \in BOOLEAN
  /\ probe_time \in ProbeTimes
  /\ bad_url \in BOOLEAN
  /\ pc \in [Callers -> {"idle", "docall", "check"}]
  /\ kind \in [Callers -> {"forward", "basic"}]
  /\ serial \in [Callers -> Nat]
  /\ boot_left \in 0 .. BootCalls
  /\ serving \in BOOLEAN
  /\ probes \in Nat

NoHistory == [age \in Ring |-> [done |-> 0, failed |-> 0]]

Init ==
  /\ LoopInit
  /\ throttle = [th \in Throttles |-> MakeCustom(th, clock)]
  /\ stat_running = 0
  /\ stat_total = NoStat
  /\ last_60 = [s \in Ring |-> NoStat]
  /\ last_60_pos = 0
  /\ serial_no = 0
  /\ last_error = 0
  /\ is_disabled = FALSE
  /\ probe_time \in ProbeTimes
  /\ bad_url \in BOOLEAN
  /\ pc = [c \in Callers |-> "idle"]
  /\ kind = [c \in Callers |-> "basic"]
  /\ serial = [c \in Callers |-> 0]
  /\ boot_left = BootCalls
  /\ serving = FALSE
  /\ probes = 0
  /\ history = NoHistory
  /\ settled = FALSE

-----------------------------------------------------------------------------
(* Requests                                                                *)

(* A bug the properties must notice: only RequestForward moves serial_no.  *)
AdmitStaleSerial(c, k, m) ==
  /\ pc[c] = "idle"
  /\ ~ GroupThrottled(throttle)
  /\ stat_total.done < MaxRequests
  /\ throttle' = GroupOnRequest(throttle, m)
  /\ stat_total' = [stat_total EXCEPT !.done = @ + 1]
  /\ last_60' = [last_60 EXCEPT ![last_60_pos].done = @ + 1]
  /\ history' = [history EXCEPT ![0].done = @ + 1]
  /\ serial_no' = IF k = "forward" THEN serial_no + 1 ELSE serial_no
  /\ stat_running' = stat_running + 1
  /\ pc' = [pc EXCEPT ![c] = "docall"]
  /\ kind' = [kind EXCEPT ![c] = k]
  /\ serial' = [serial EXCEPT ![c] = serial_no']
  /\ UNCHANGED <<last_error, settled, healthVars, loopVars>>

(* The critical section RequestForward and RequestBasic begin with. A      *)
(* throttled node answers R_THROTTLED and leaves everything as it is.      *)
Admit(c, k, m) ==
  /\ pc[c] = "idle"
  /\ ~ GroupThrottled(throttle)
  /\ stat_total.done < MaxRequests
  /\ throttle' = GroupOnRequest(throttle, m)
  /\ stat_total' = [stat_total EXCEPT !.done = @ + 1]
  /\ last_60' = [last_60 EXCEPT ![last_60_pos].done = @ + 1]
  /\ history' = [history EXCEPT ![0].done = @ + 1]
  /\ serial_no' = serial_no + 1
  /\ stat_running' = stat_running + 1
  /\ pc' = [pc EXCEPT ![c] = "docall"]
  /\ kind' = [kind EXCEPT ![c] = k]
  /\ serial' = [serial EXCEPT ![c] = serial_no']
  /\ UNCHANGED <<last_error, settled, healthVars, loopVars>>

RequestForward(c, m) ==
  /\ serving
  /\ c \in Users
  /\ Admit(c, "forward", m)
  /\ UNCHANGED lifeVars

(* A user's call, or after startup one of the heartbeat loop.              *)
RequestBasic(c, m) ==
  /\ serving
  /\ c \in Users \/ (c = Heart /\ probe_time > 0)
  /\ Admit(c, "basic", m)
  /\ UNCHANGED lifeVars

(* The goroutine _maint_stat launched calls GetVersion, or is turned away. *)
Probe(c, m) ==
  /\ c \in Probers
  /\ probes > 0
  /\ probes' = probes - 1
  /\ \/ Admit(c, "basic", m)
     \/ /\ GroupThrottled(throttle)
        /\ UNCHANGED <<throttle, statVars, healthVars, callVars, ghostVars,
                       loopVars>>
  /\ UNCHANGED <<boot_left, serving>>

Failed(slot, field) ==
  CASE field = "error_req" -> [slot EXCEPT !.error_req = @ + 1]
    [] field = "error_resp" -> [slot EXCEPT !.error_resp = @ + 1]
    [] field = "error_resp_read" -> [slot EXCEPT !.error_resp_read = @ + 1]

(* Add one to a failure counter, in total and for the current second.      *)
CountError(field) ==
  /\ stat_total' = Failed(stat_total, field)
  /\ last_60' = [last_60 EXCEPT ![last_60_pos] = Failed(@, field)]
  /\ history' = [history EXCEPT ![0].failed =
                   IF field = "error_req" THEN @ ELSE @ + 1]

EndCall(c, next_pc) == pc' = [pc EXCEPT ![c] = next_pc]

(* http.NewRequest fails. (Nodes here have no header of their own: with    *)
(* one, request_basic.go:142 uses the request there is not before its      *)
(* error is looked at, and panics.)                                        *)
BadRequest(c) ==
  /\ pc[c] = "docall"
  /\ bad_url
  /\ EndCall(c, "idle")
  /\ CountError("error_req")
  /\ stat_running' = stat_running - 1
  /\ UNCHANGED <<throttle, serial_no, last_error, settled, kind, serial,
                 healthVars, lifeVars, loopVars>>

(* A bug the properties must notice: RequestBasic looks for its serial     *)
(* number though there is no answer, and counts a second failure.          *)
HTTPErrorChecked(c) ==
  /\ pc[c] = "docall"
  /\ ~ bad_url
  /\ EndCall(c, IF kind[c] = "basic" THEN "check" ELSE "idle")
  /\ CountError("error_resp")
  /\ last_error' = last_error + 1
  /\ stat_running' = stat_running - 1
  /\ UNCHANGED <<throttle, serial_no, settled, kind, serial, healthVars,
                 lifeVars, loopVars>>

(* No answer, or one that is not 200.                                      *)
HTTPError(c) ==
  /\ pc[c] = "docall"
  /\ ~ bad_url
  /\ EndCall(c, "idle")
  /\ CountError("error_resp")
  /\ last_error' = last_error + 1
  /\ stat_running' = stat_running - 1
  /\ UNCHANGED <<throttle, serial_no, settled, kind, serial, healthVars,
                 lifeVars, loopVars>>

(* A bug the properties must notice: an answer that breaks off leaves the  *)
(* request counted as running.                                             *)
ReadErrorLeaks(c) ==
  /\ pc[c] = "docall"
  /\ ~ bad_url
  /\ EndCall(c, "idle")
  /\ CountError("error_resp_read")
  /\ last_error' = last_error + 1
  /\ UNCHANGED <<throttle, stat_running, serial_no, settled, kind, serial,
                 healthVars, lifeVars, loopVars>>

(* The answer breaks off.                                                  *)
ReadError(c) ==
  /\ pc[c] = "docall"
  /\ ~ bad_url
  /\ EndCall(c, "idle")
  /\ CountError("error_resp_read")
  /\ last_error' = last_error + 1
  /\ stat_running' = stat_running - 1
  /\ UNCHANGED <<throttle, serial_no, settled, kind, serial, healthVars,
                 lifeVars, loopVars>>

(* The whole answer is here. RequestBasic has still to find its serial     *)
(* number in it, after the mutex is released.                              *)
Answer(c, bytes) ==
  /\ pc[c] = "docall"
  /\ ~ bad_url
  /\ EndCall(c, IF kind[c] = "basic" THEN "check" ELSE "idle")
  /\ stat_running' = stat_running - 1
  /\ throttle' = GroupOnReceive(throttle, bytes)
  /\ UNCHANGED <<stat_total, last_60, serial_no, last_error, kind, serial,
                 healthVars, lifeVars, ghostVars, loopVars>>

SerialFound(c) ==
  /\ pc[c] = "check"
  /\ EndCall(c, "idle")
  /\ UNCHANGED <<throttle, statVars, kind, serial, healthVars, lifeVars,
                 ghostVars, loopVars>>

(* A bug the properties must notice: the call is taken off stat_running a  *)
(* second time, as every other way to fail does.                           *)
SerialMissingReleases(c) ==
  /\ pc[c] = "check"
  /\ EndCall(c, "idle")
  /\ CountError("error_resp")
  /\ stat_running' = stat_running - 1
  /\ UNCHANGED <<throttle, serial_no, last_error, settled, kind, serial,
                 healthVars, lifeVars, loopVars>>

SerialMissing(c) ==
  /\ pc[c] = "check"
  /\ EndCall(c, "idle")
  /\ CountError("error_resp")
  /\ UNCHANGED <<throttle, stat_running, serial_no, last_error, settled, kind,
                 serial, healthVars, lifeVars, loopVars>>

-----------------------------------------------------------------------------
(* Health                                                                  *)

(* probe_isalive_seconds: twice the probe time, kept between the shortest  *)
(* lookback and the ring.                                                  *)
Lookback ==
  LET wanted == 2 * probe_time
  IN  CASE wanted < MinLookback -> MinLookback
        [] wanted > RingSeconds -> RingSeconds
        [] OTHER -> wanted

(* The slots _statsIsDead looks at, the current one and those before it.   *)
Recent(pos) == {(pos - i) % RingSeconds : i \in 0 .. Lookback - 1}

Requests(slots, pos) == MapThenSumSet(LAMBDA s : slots[s].done, Recent(pos))

(* _statsIsDead does not count error_req.                                  *)
Failures(slots, pos) ==
  MapThenSumSet(LAMBDA s : slots[s].error_resp + slots[s].error_resp_read,
                Recent(pos))

(* A node that is probed is dead when it made no request at all.           *)
Dead(requests, failures) ==
  \/ failures * DeadRatio > requests
  \/ probe_time > 0 /\ failures * DeadRatio >= requests

(* A bug the properties must notice: the slot is not cleared before it is  *)
(* used again.                                                             *)
MaintStatKeepsSlot(now) ==
  LET pos == now % RingSeconds
      requests == Requests(last_60, pos)
      failures == Failures(last_60, pos)
  IN  /\ throttle' = GroupOnMaintenance(throttle, now)
      /\ last_60_pos' = pos
      /\ last_60' = last_60
      /\ is_disabled' = Dead(requests, failures)
      /\ probes' = IF requests + failures < 1 /\ probe_time > 0
                      /\ probes < MaxProbes
                   THEN probes + 1 ELSE probes

(* _maint_stat: one critical section.                                      *)
MaintStat(now) ==
  LET pos == now % RingSeconds
      cleared == [last_60 EXCEPT ![pos] = NoStat]
      requests == Requests(cleared, pos)
      failures == Failures(cleared, pos)
  IN  /\ throttle' = GroupOnMaintenance(throttle, now)
      /\ last_60_pos' = pos
      /\ last_60' = cleared
      /\ is_disabled' = Dead(requests, failures)
      /\ probes' = IF requests + failures < 1 /\ probe_time > 0
                      /\ probes < MaxProbes
                   THEN probes + 1 ELSE probes

Maintain ==
  /\ serving
  /\ Wake
  /\ MaintStat(clock)
  /\ history' = [age \in Ring |-> IF age >= Lag THEN history[age - Lag]
                                 ELSE [done |-> 0, failed |-> 0]]
  /\ settled' = (settled \/ last_60_pos' = 0)
  /\ UNCHANGED <<stat_running, stat_total, serial_no, last_error, probe_time, bad_url, callVars, boot_left, serving>>

LoopStep ==
  /\ serving
  /\ ReadNow \/ WakeIdle \/ Tick
  /\ UNCHANGED <<throttle, statVars, healthVars, callVars, lifeVars, ghostVars>>

-----------------------------------------------------------------------------
(* Startup: MakeClient makes its requests one after another, counted in    *)
(* slot 0 whatever the time, and then calls _maint_stat for the first      *)
(* time. Only then is the node registered and used.                        *)

BootCall(m) ==
  /\ boot_left > 0
  /\ pc[Heart] = "idle"
  /\ boot_left' = boot_left - 1
  /\ \/ Admit(Heart, "basic", m)
     \/ /\ GroupThrottled(throttle)
        /\ UNCHANGED <<throttle, statVars, healthVars, callVars, ghostVars,
                       loopVars>>
  /\ UNCHANGED <<serving, probes>>

(* Time passes while they wait for their answers.                          *)
BootTick ==
  /\ ~ serving
  /\ clock' = (clock + 1) % Cycle
  /\ UNCHANGED <<noticed, loop_now, loop_pc, throttle, statVars, healthVars,
                 callVars, lifeVars, ghostVars>>

BootDone ==
  /\ ~ serving
  /\ boot_left = 0
  /\ pc[Heart] = "idle"
  /\ serving' = TRUE
  /\ MaintStat(clock)
  /\ noticed' = clock
  /\ loop_now' = clock
  /\ loop_pc' = "top"
  /\ history' = NoHistory
  /\ settled' = (last_60_pos' = 0)
  /\ UNCHANGED <<clock, stat_running, stat_total, serial_no, last_error,
                 probe_time, bad_url, callVars, boot_left>>

CallStep(c) ==
  \/ \E m \in Methods : RequestForward(c, m) \/ RequestBasic(c, m)
                          \/ Probe(c, m)
  \/ BadRequest(c) \/ HTTPError(c) \/ ReadError(c)
  \/ \E b \in Sizes : Answer(c, b)
  \/ SerialFound(c) \/ SerialMissing(c)

Next ==
  \/ \E c \in Callers : CallStep(c)
  \/ \E m \in Methods : BootCall(m)
  \/ BootTick
  \/ BootDone
  \/ Maintain
  \/ LoopStep

Spec == Init /\ [][Next]_vars

-----------------------------------------------------------------------------
(* Properties                                                              *)

Waiting == {c \in Callers : pc[c] = "docall"}
Checking == {c \in Callers : pc[c] = "check"}

(* stat_running, raised in one critical section and lowered in another on  *)
(* each of the ways a call can end (request_basic.go:53, 149, 186, 200,    *)
(* 217), is the number of calls on the wire: no path forgets it and none   *)
(* lowers it twice.                                                        *)
RunningExact == stat_running = Cardinality(Waiting)

(* Answers are matched to requests by serial number (request_basic.go:128):*)
(* no two calls of a node that are in progress share one.                  *)
SerialsUnique ==
  \A c, d \in Waiting \cup Checking : c # d => serial[c] # serial[d]

TotalErrors ==
  stat_total.error_req + stat_total.error_resp + stat_total.error_resp_read

(* A request fails at most once, though a failure may be counted in _docall*)
(* or after it ("error already accounted", request_basic.go:125): failures *)
(* and calls that may still fail never exceed the requests made, and every *)
(* failure _last_error has numbered is among the failures.                 *)
FailsAtMostOnce ==
  /\ TotalErrors + Cardinality(Waiting) + Cardinality(Checking)
       <= stat_total.done
  /\ last_error <= stat_total.error_resp + stat_total.error_resp_read

Ages == 0 .. Lookback - 1

(* The verdict on a node rests on what really happened in the seconds it   *)
(* looks back on: the ring is indexed, cleared and summed so that nothing  *)
(* older is counted and nothing recent is lost (stats.go:52-85,            *)
(* maintenance.go:16-31), once the ring has turned past the slot of the    *)
(* startup requests and provided no second is missed.                      *)
VerdictOnRecentSeconds ==
  [][Maintain /\ settled' =>
       is_disabled' = Dead(MapThenSumSet(LAMBDA a : history'[a].done, Ages),
                           MapThenSumSet(LAMBDA a : history'[a].failed, Ages))
    ]_vars
=============================================================================
