------------------------------ MODULE Throttle ------------------------------
(***************************************************************************)
(* The throttle of a node and the group of throttles it belongs to         *)
(* (gosol/solana_proxy/client/throttle), as functions from a throttle to   *)
(* the throttle the method leaves behind.                                  *)
(*                                                                         *)
(* A throttle counts requests, requests per method and bytes received in   *)
(* a ring of time windows. A limiter sums the last in_time_windows of them *)
(* and is exhausted when the sum reaches its maximum. The verdict is kept  *)
(* in status_*: it is computed when a request is counted and when the ring *)
(* turns, not when data is received and not when it is read.               *)
(***************************************************************************)
EXTENDS Integers, FiniteSets, FiniteSetsExt

CONSTANTS
  Methods,         \* RPC method names
  Throttles,       \* the throttles of one node
  WindowCount,     \* [Throttles -> Nat]: len(stats)
  WindowSeconds,   \* [Throttles -> Nat]: stats_window_size_seconds
  Limiters,        \* [Throttles -> set of limiters]
  ScoreModifier,   \* the score_modifier of the node's configuration
  ScoreWindows,    \* windows in the score of a throttle without limiters (10)
  BytesPerPoint    \* bytes worth one point of such a score (10000)

LimiterTypes == {"L_REQUESTS", "L_REQUESTS_PER_FN", "L_DATA_RECEIVED"}

ASSUME ThrottleAssumption ==
  /\ WindowCount \in [Throttles -> Nat \ {0}]
  /\ WindowSeconds \in [Throttles -> Nat \ {0}]
  /\ IsFiniteSet(Methods) /\ \A th \in Throttles : IsFiniteSet(Limiters[th])
  /\ \A th \in Throttles : \A l \in Limiters[th] :
       /\ l.t \in LimiterTypes
       /\ l.maximum \in Nat \ {0}
       /\ l.in_time_windows \in Nat
  /\ ScoreModifier \in Int
  /\ ScoreWindows \in Nat
  /\ BytesPerPoint \in Nat \ {0}

-----------------------------------------------------------------------------
(* One throttle                                                            *)

EmptyWindow ==
  [requests |-> 0, by_fn |-> [m \in Methods |-> 0], data |-> 0]

WindowAt(th, ts) == (ts \div WindowSeconds[th]) % WindowCount[th]

MakeCustom(th, now) ==
  [stats_pos |-> WindowAt(th, now),
   stats |-> [p \in 0 .. WindowCount[th] - 1 |-> EmptyWindow],
   score |-> 0, throttled |-> FALSE, capacity_used |-> 0]

(* The sum of Of(window) over the last n windows. The position wraps, so a *)
(* limiter longer than the ring counts some windows twice.                 *)
OverWindows(th, T, n, Of(_)) ==
  SumFunction([i \in 0 .. n - 1 |->
                 Of(T.stats[(T.stats_pos - i) % WindowCount[th]])])

AmountUsed(th, T, l) ==
  CASE l.t = "L_REQUESTS" ->
         OverWindows(th, T, l.in_time_windows, LAMBDA w : w.requests)
    [] l.t = "L_DATA_RECEIVED" ->
         OverWindows(th, T, l.in_time_windows, LAMBDA w : w.data)
    [] l.t = "L_REQUESTS_PER_FN" ->
         Max({0} \cup {OverWindows(th, T, l.in_time_windows,
                                   LAMBDA w : w.by_fn[m]) : m \in Methods})

(* The whole of a limit. *)
Full == 10000

(* A bug the properties must notice: the part is not capped.               *)
PercentageUncapped(th, T, l) ==
  (AmountUsed(th, T, l) * Full) \div l.maximum

(* _getThrottleStatus: the part of the limit used, 0 to Full. *)
Percentage(th, T, l) ==
  LET amt == AmountUsed(th, T, l)
  IN  IF amt >= l.maximum THEN Full ELSE (amt * Full) \div l.maximum

FreshScore(th, T) ==
  IF Limiters[th] = {}
  THEN [score |-> ScoreModifier
                  + OverWindows(th, T, ScoreWindows,
                      LAMBDA w : w.requests + (w.data \div BytesPerPoint)),
        throttled |-> FALSE, capacity_used |-> 0]
  ELSE LET used == Max({0} \cup {Percentage(th, T, l) : l \in Limiters[th]})
       IN  [score |-> used + ScoreModifier,
            throttled |-> used >= Full, capacity_used |-> used]

UpdateStatus(th, T) ==
  LET s == FreshScore(th, T)
  IN  [T EXCEPT !.score = s.score, !.throttled = s.throttled,
                !.capacity_used = s.capacity_used]

Count(T, m) ==
  [T EXCEPT !.stats[T.stats_pos].requests = @ + 1,
            !.stats[T.stats_pos].by_fn[m] = @ + 1]

(* A bug the properties must notice: the verdict is taken before the       *)
(* request is counted.                                                     *)
OnRequestUpdatesFirst(th, T, m) ==
  IF T.throttled THEN T ELSE Count(UpdateStatus(th, T), m)

(* A bug the properties must notice: requests are counted and judged only  *)
(* when the ring turns.                                                    *)
OnRequestNoUpdate(th, T, m) ==
  IF T.throttled THEN T ELSE Count(T, m)

OnRequest(th, T, m) ==
  IF T.throttled THEN T ELSE UpdateStatus(th, Count(T, m))

OnReceive(T, bytes) ==
  [T EXCEPT !.stats[T.stats_pos].data = @ + bytes]

(* A bug the properties must notice: the ring turns but the verdict of the *)
(* windows it leaves is kept.                                              *)
OnMaintenanceNoUpdate(th, T, ts) ==
  LET new_pos == WindowAt(th, ts)
  IN  IF new_pos = T.stats_pos THEN T
      ELSE [T EXCEPT !.stats_pos = new_pos, !.stats[new_pos] = EmptyWindow]

(* Only the window the ring turns to is cleared: when seconds were missed, *)
(* the windows in between keep what they held one turn earlier.            *)
OnMaintenance(th, T, ts) ==
  LET new_pos == WindowAt(th, ts)
  IN  IF new_pos = T.stats_pos THEN T
      ELSE UpdateStatus(th, [T EXCEPT !.stats_pos = new_pos,
                                      !.stats[new_pos] = EmptyWindow])

-----------------------------------------------------------------------------
(* A group: one function from the throttles to their states                *)

GroupThrottled(g) == \E th \in Throttles : g[th].throttled

(* The first loop of the code asks every throttle before the second counts *)
(* in any, so a request is counted in all of them or in none.              *)
GroupOnRequest(g, m) ==
  IF GroupThrottled(g) THEN g
  ELSE [th \in Throttles |-> OnRequest(th, g[th], m)]

GroupOnReceive(g, bytes) == [th \in Throttles |-> OnReceive(g[th], bytes)]

GroupOnMaintenance(g, ts) ==
  [th \in Throttles |-> OnMaintenance(th, g[th], ts)]
=============================================================================
