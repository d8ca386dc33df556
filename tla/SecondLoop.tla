----------------------------- MODULE SecondLoop -----------------------------
(***************************************************************************)
(* The goroutine every node runs to notice that a second has passed        *)
(* (client/maintenance.go):                                                *)
(*                                                                         *)
(*     for { now := time.Now().Unix()          -- ReadNow                  *)
(*           time.Sleep(200 * time.Millisecond)                            *)
(*           _t := time.Now().Unix()           -- Wake or WakeIdle         *)
(*           if now >= _t { continue }                                     *)
(*           now = _t                                                      *)
(*           _maint_stat(now) }                                            *)
(*                                                                         *)
(* `now` is read again at the top of the loop, so a second that begins     *)
(* between the reading of _t and the top of the loop goes unnoticed.       *)
(*                                                                         *)
(* The clock counts seconds modulo Cycle, a common multiple of the turns   *)
(* of every ring that is indexed by the time, so that the state space is   *)
(* finite and time never stops.                                            *)
(***************************************************************************)
EXTENDS Integers

CONSTANTS
  Cycle,      \* the clock's period in seconds
  MaxMissed   \* how many seconds in a row the loop may miss

ASSUME CycleAssumption == Cycle \in Nat \ {0}
ASSUME MissedAssumption == MaxMissed \in 0 .. Cycle - 2

VARIABLES
  clock,      \* time.Now().Unix()
  noticed,    \* the second _maint_stat was last called with
  loop_now,   \* the loop's local variable now
  loop_pc     \* "top": about to read now;  "sleep": in time.Sleep

loopVars == <<clock, noticed, loop_now, loop_pc>>

Seconds == 0 .. Cycle - 1

LoopTypeOK ==
  /\ clock \in Seconds
  /\ noticed \in Seconds
  /\ loop_now \in Seconds
  /\ loop_pc \in {"top", "sleep"}

(* MakeClient calls _maint_stat(time.Now().Unix()) and starts the loop. *)
LoopInit ==
  /\ clock \in Seconds
  /\ noticed = clock
  /\ loop_now = clock
  /\ loop_pc = "top"

-----------------------------------------------------------------------------

(* Seconds that passed since the last maintenance. *)
Lag == (clock - noticed) % Cycle

(* The loop is asleep and will see a second that begins now. *)
WillNotice == loop_pc = "sleep" /\ loop_now = clock

(* A second begins. It is missed unless WillNotice, and MaxMissed bounds   *)
(* how far the maintenance may fall behind.                                *)
Tick ==
  /\ WillNotice \/ Lag < MaxMissed
  /\ clock' = (clock + 1) % Cycle
  /\ UNCHANGED <<noticed, loop_now, loop_pc>>

ReadNow ==
  /\ loop_pc = "top"
  /\ loop_now' = clock
  /\ loop_pc' = "sleep"
  /\ UNCHANGED <<clock, noticed>>

(* if now >= _t { continue } *)
WakeIdle ==
  /\ loop_pc = "sleep"
  /\ loop_now = clock
  /\ loop_pc' = "top"
  /\ UNCHANGED <<clock, noticed, loop_now>>

(* A new second: _maint_stat(clock) runs with this step; what it does to   *)
(* the node is the conjunct the node's module adds.                        *)
Wake ==
  /\ loop_pc = "sleep"
  /\ loop_now # clock
  /\ noticed' = clock
  /\ loop_pc' = "top"
  /\ UNCHANGED <<clock, loop_now>>
=============================================================================
