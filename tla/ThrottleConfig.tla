--------------------------- MODULE ThrottleConfig ---------------------------
(***************************************************************************)
(* How the configuration of a node becomes its throttles                   *)
(* (client/throttle/read_config.go, sol_config_reader.go): limits over     *)
(* times that are cut into the same windows share a throttle.              *)
(*                                                                         *)
(* A configuration is a sequence of pieces [fields, type, limit, time]; a  *)
(* node has one, none (None), or one that is no text (Unreadable).         *)
(***************************************************************************)
EXTENDS Integers, Sequences, FiniteSetsExt

CONSTANTS
  Ring,        \* windows of a ring, and seconds one of 1s windows holds (120)
  Step,        \* seconds of a longer window (10)
  Longest,     \* the longest time cut into such windows (1200)
  SpareRing,   \* windows of any other ring (125)
  Unreadable,
  NoThrottle

ASSUME ConfigAssumption ==
  /\ {Ring, Step, SpareRing} \subseteq Nat \ {0}
  /\ Longest \in Nat /\ Longest >= Ring

-----------------------------------------------------------------------------
(* One limit                                                               *)

(* The sizes looked for between a hundredth and two hundredths of the time;*)
(* the bounds are the wrong way round, there are none.                     *)
Slices(time) == {i \in (time \div 100) .. (time \div 200) - 1 : time % i = 0}

(* _get_timewindow_len                                                     *)
TimeWindow(time) ==
  IF time <= Ring THEN [size |-> 1, count |-> Ring]
  ELSE IF time <= Longest /\ time % Step = 0 THEN [size |-> Step, count |-> Ring]
  ELSE IF Slices(time) # {}
  THEN [size |-> Min(Slices(time)), count |-> time \div Min(Slices(time))]
  ELSE [size |-> time \div Ring, count |-> SpareRing]

(* AddLimiter: how many windows make up the time.                          *)
InTimeWindows(size, time) == time \div size

AddLimiter(size, type, limit, time) ==
  [t |-> type, maximum |-> limit, in_time_windows |-> InTimeWindows(size, time)]

LimiterType(type) ==
  CASE type = "r" -> "L_REQUESTS"
    [] type = "f" -> "L_REQUESTS_PER_FN"
    [] type = "d" -> "L_DATA_RECEIVED"

-----------------------------------------------------------------------------
(* A node: from the windows of its throttles to their limiters             *)

Usable(p) ==
  p.fields >= 3 /\ p.type \in {"r", "f", "d"} /\ p.limit > 0 /\ p.time > 0

(* One piece that is no good, and there is no throttle at all.             *)
MakeFromConfig(config) ==
  IF \E i \in DOMAIN config : ~Usable(config[i]) THEN NoThrottle
  ELSE [w \in {TimeWindow(config[i].time) : i \in DOMAIN config} |->
          {AddLimiter(w.size, LimiterType(config[i].type), config[i].limit, config[i].time) :
             i \in {j \in DOMAIN config : TimeWindow(config[j].time) = w}}]

Make == [size |-> 1, count |-> Ring]

MakeForPublic ==
  [w \in {Make} |->
     {AddLimiter(1, "L_REQUESTS", 70, 10),
      AddLimiter(1, "L_REQUESTS_PER_FN", 20, 10),
      AddLimiter(1, "L_DATA_RECEIVED", 75 * 1000 * 1000, 30)}]

(* NodeRegisterFromConfig: without throttles a node gets one that has no   *)
(* limiters.                                                               *)
NodeThrottles(node) ==
  LET read == IF node.throttle = Unreadable THEN NoThrottle
              ELSE IF node.throttle # NoThrottle THEN MakeFromConfig(node.throttle)
              ELSE IF node.public THEN MakeForPublic ELSE NoThrottle
  IN IF read = NoThrottle THEN [w \in {Make} |-> {}] ELSE read

-----------------------------------------------------------------------------
(* What limits rely on                                                     *)

(* The windows a limit looks at are windows of its ring, each once.        *)
Fits(time) ==
  LET w == TimeWindow(time) IN InTimeWindows(w.size, time) <= w.count

(* They are no longer than the time, and shorter by less than one.         *)
Covers(time) ==
  LET w == TimeWindow(time)
      covered == InTimeWindows(w.size, time) * w.size
  IN covered <= time /\ time < covered + w.size
=============================================================================
