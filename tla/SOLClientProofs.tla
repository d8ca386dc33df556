--------------------------- MODULE SOLClientProofs ---------------------------
(***************************************************************************)
(* The accounting of a node is right for any number of callers, requests,  *)
(* throttles and ring sizes; and if no second is missed, its verdict rests *)
(* on what happened in the seconds it looks back on.                       *)
(***************************************************************************)
EXTENDS SOLClient, DataProofs

(* Serial numbers of calls in progress have been handed out, and stat_total *)
(* and stat_running agree with the calls in progress.                       *)
IInv ==
  /\ TypeOK
  /\ RunningExact
  /\ SerialsUnique
  /\ \A c \in Waiting \cup Checking : serial[c] <= serial_no
  /\ FailsAtMostOnce

(* There are finitely many callers.                                        *)
LEMMA CallersFinite == IsFiniteSet(Callers)
  <1>1. IsFiniteSet(Users \cup Probers)
    BY ClientAssumption, FS_Union
  <1>2. IsFiniteSet((Users \cup Probers) \cup {Heart})
    BY <1>1, FS_AddElement
  <1> QED
    BY <1>2 DEF Callers

(* The calls in progress are finitely many, so they can be counted.        *)
LEMMA InProgressFinite ==
  /\ IsFiniteSet(Waiting) /\ Cardinality(Waiting) \in Nat
  /\ IsFiniteSet(Checking) /\ Cardinality(Checking) \in Nat
  <1>1. Waiting \subseteq Callers /\ Checking \subseteq Callers
    BY DEF Waiting, Checking
  <1>2. IsFiniteSet(Waiting) /\ IsFiniteSet(Checking)
    BY <1>1, CallersFinite, FS_Subset
  <1> QED
    BY <1>2, FS_CardinalityType

(* A call that begins is one more on the wire and none less to check.      *)
LEMMA CallBegins ==
  ASSUME NEW c \in Callers, TypeOK, pc[c] = "idle",
         pc' = [pc EXCEPT ![c] = "docall"]
  PROVE  /\ Waiting' = Waiting \cup {c} /\ Checking' = Checking
         /\ Cardinality(Waiting') = Cardinality(Waiting) + 1
         /\ Cardinality(Checking') = Cardinality(Checking)
  <1>1. Waiting' = Waiting \cup {c} /\ Checking' = Checking /\ c \notin Waiting
    BY DEF Waiting, Checking, TypeOK
  <1> QED
    BY <1>1, InProgressFinite, FS_AddElement

(* A call that is over leaves the wire.                                    *)
LEMMA CallEnds ==
  ASSUME NEW c \in Callers, TypeOK, pc[c] = "docall",
         pc' = [pc EXCEPT ![c] = "idle"]
  PROVE  /\ Waiting' = Waiting \ {c} /\ Checking' = Checking
         /\ Cardinality(Waiting') = Cardinality(Waiting) - 1
         /\ Cardinality(Checking') = Cardinality(Checking)
  <1>1. Waiting' = Waiting \ {c} /\ Checking' = Checking /\ c \in Waiting
    BY DEF Waiting, Checking, TypeOK
  <1> QED
    BY <1>1, InProgressFinite, FS_RemoveElement

(* A call whose answer is read leaves the wire and waits to be checked.    *)
LEMMA CallAnswered ==
  ASSUME NEW c \in Callers, TypeOK, pc[c] = "docall",
         pc' = [pc EXCEPT ![c] = "check"]
  PROVE  /\ Waiting' = Waiting \ {c} /\ Checking' = Checking \cup {c}
         /\ Cardinality(Waiting') = Cardinality(Waiting) - 1
         /\ Cardinality(Checking') = Cardinality(Checking) + 1
  <1>1. /\ Waiting' = Waiting \ {c} /\ c \in Waiting
        /\ Checking' = Checking \cup {c} /\ c \notin Checking
    BY DEF Waiting, Checking, TypeOK
  <1> QED
    BY <1>1, InProgressFinite, FS_RemoveElement, FS_AddElement

(* A call whose answer has been checked is over.                           *)
LEMMA CallChecked ==
  ASSUME NEW c \in Callers, TypeOK, pc[c] = "check",
         pc' = [pc EXCEPT ![c] = "idle"]
  PROVE  /\ Waiting' = Waiting /\ Checking' = Checking \ {c}
         /\ Cardinality(Waiting') = Cardinality(Waiting)
         /\ Cardinality(Checking') = Cardinality(Checking) - 1
  <1>1. Waiting' = Waiting /\ Checking' = Checking \ {c} /\ c \in Checking
    BY DEF Waiting, Checking, TypeOK
  <1> QED
    BY <1>1, InProgressFinite, FS_RemoveElement

-----------------------------------------------------------------------------
(* One of the failure counters of a slot is one more.                      *)
LEMMA FailedSlot ==
  ASSUME NEW slot \in Slot,
         NEW field \in {"error_req", "error_resp", "error_resp_read"}
  PROVE  /\ Failed(slot, field) \in Slot
         /\ Failed(slot, field).done = slot.done
         /\ Failed(slot, field).error_req =
              slot.error_req + (IF field = "error_req" THEN 1 ELSE 0)
         /\ Failed(slot, field).error_resp + Failed(slot, field).error_resp_read =
              slot.error_resp + slot.error_resp_read
              + (IF field = "error_req" THEN 0 ELSE 1)
  <1>1. CASE field = "error_req"
    <2>1. Failed(slot, field) = [slot EXCEPT !.error_req = @ + 1]
      BY <1>1 DEF Failed
    <2> QED
      BY <1>1, <2>1 DEF Slot
  <1>2. CASE field = "error_resp"
    <2>1. Failed(slot, field) = [slot EXCEPT !.error_resp = @ + 1]
      BY <1>2 DEF Failed
    <2> QED
      BY <1>2, <2>1 DEF Slot
  <1>3. CASE field = "error_resp_read"
    <2>1. Failed(slot, field) = [slot EXCEPT !.error_resp_read = @ + 1]
      BY <1>3 DEF Failed
    <2> QED
      BY <1>3, <2>1 DEF Slot
  <1> QED
    BY <1>1, <1>2, <1>3

(* The counters a failure touches keep their type, and the failure is one  *)
(* more in total.                                                          *)
LEMMA CountErrorType ==
  ASSUME TypeOK,
         NEW field \in {"error_req", "error_resp", "error_resp_read"},
         CountError(field)
  PROVE  /\ stat_total' \in Slot
         /\ last_60' \in [Ring -> Slot]
         /\ TotalErrors' = TotalErrors + 1
         /\ stat_total'.done = stat_total.done
         /\ stat_total'.error_resp + stat_total'.error_resp_read =
              stat_total.error_resp + stat_total.error_resp_read
              + (IF field = "error_req" THEN 0 ELSE 1)
  <1>1. /\ stat_total \in Slot /\ stat_total' = Failed(stat_total, field)
        /\ last_60 \in [Ring -> Slot] /\ last_60_pos \in Ring
        /\ last_60' = [last_60 EXCEPT ![last_60_pos] =
                         Failed(last_60[last_60_pos], field)]
    BY DEF TypeOK, CountError
  <1>2. last_60[last_60_pos] \in Slot
    BY <1>1
  <1>3. Failed(last_60[last_60_pos], field) \in Slot
    BY <1>2, FailedSlot
  <1>4. last_60' \in [Ring -> Slot]
    BY <1>1, <1>3
  <1>5. /\ stat_total' \in Slot
        /\ stat_total'.done = stat_total.done
        /\ stat_total'.error_req =
              stat_total.error_req + (IF field = "error_req" THEN 1 ELSE 0)
        /\ stat_total'.error_resp + stat_total'.error_resp_read =
              stat_total.error_resp + stat_total.error_resp_read
              + (IF field = "error_req" THEN 0 ELSE 1)
    BY <1>1, FailedSlot
  <1>6. TotalErrors' = TotalErrors + 1
    BY <1>1, <1>5 DEF TotalErrors, Slot
  <1> QED
    BY <1>4, <1>5, <1>6

(* What an admitted request changes preserves the invariant.               *)
LEMMA AdmitInv ==
  ASSUME IInv, NEW c \in Callers, NEW k \in {"forward", "basic"},
         NEW m \in Methods, Admit(c, k, m),
         boot_left' \in 0 .. BootCalls, serving' \in BOOLEAN, probes' \in Nat
  PROVE  IInv'
  <1> USE DEF IInv
  <1>1. TypeOK'
    BY DEF Admit, TypeOK, LoopTypeOK, loopVars, healthVars, Slot
  <1>2. /\ Waiting' = Waiting \cup {c} /\ Checking' = Checking
        /\ Cardinality(Waiting') = Cardinality(Waiting) + 1
        /\ Cardinality(Checking') = Cardinality(Checking)
    BY CallBegins DEF Admit
  <1>3. RunningExact'
    BY <1>2 DEF RunningExact, Admit
  <1>4. c \notin Waiting \cup Checking
    BY DEF Admit, Waiting, Checking
  <1>5. /\ serial' = [serial EXCEPT ![c] = serial_no + 1]
        /\ serial_no' = serial_no + 1
    BY DEF Admit
  <1>6. \A d \in Waiting' \cup Checking' : serial'[d] <= serial_no'
    BY <1>2, <1>5 DEF TypeOK, Waiting, Checking
  <1>7. SerialsUnique'
    BY <1>2, <1>4, <1>5 DEF SerialsUnique, TypeOK, Waiting, Checking
  <1>8. FailsAtMostOnce'
    BY <1>2, InProgressFinite
    DEF FailsAtMostOnce, TotalErrors, Admit, TypeOK, Slot
  <1> QED
    BY <1>1, <1>3, <1>6, <1>7, <1>8

(* What a call that leaves the wire and fails changes.                     *)
LEMMA FailureInv ==
  ASSUME IInv, NEW c \in Callers, pc[c] = "docall", EndCall(c, "idle"),
         NEW field \in {"error_req", "error_resp", "error_resp_read"},
         CountError(field), stat_running' = stat_running - 1,
         last_error' = IF field = "error_req" THEN last_error
                                              ELSE last_error + 1,
         UNCHANGED <<serial_no, kind, serial, healthVars, lifeVars, loopVars>>
  PROVE  IInv'
  <1> USE DEF IInv
  <1>1. /\ Waiting' = Waiting \ {c} /\ Checking' = Checking
        /\ Cardinality(Waiting') = Cardinality(Waiting) - 1
        /\ Cardinality(Checking') = Cardinality(Checking)
    BY CallEnds DEF EndCall
  <1>2. /\ stat_total' \in Slot /\ last_60' \in [Ring -> Slot]
        /\ TotalErrors' = TotalErrors + 1
        /\ stat_total'.done = stat_total.done
        /\ stat_total'.error_resp + stat_total'.error_resp_read =
              stat_total.error_resp + stat_total.error_resp_read
              + (IF field = "error_req" THEN 0 ELSE 1)
    BY CountErrorType
  <1>3. stat_running' \in Nat /\ RunningExact'
    BY <1>1, InProgressFinite, FS_CardinalityType, FS_Subset
    DEF RunningExact, TypeOK
  <1>4. TypeOK'
    BY <1>2, <1>3
    DEF TypeOK, LoopTypeOK, EndCall, loopVars, healthVars, lifeVars
  <1>5. SerialsUnique' /\ \A d \in Waiting' \cup Checking' : serial'[d] <= serial_no'
    BY <1>1 DEF SerialsUnique
  <1>6. FailsAtMostOnce'
    BY <1>1, <1>2, InProgressFinite
    DEF FailsAtMostOnce, TypeOK, Slot, TotalErrors
  <1> QED
    BY <1>3, <1>4, <1>5, <1>6

(* A step that leaves the calls and their counters alone.                  *)
LEMMA CallsUntouchedInv ==
  ASSUME IInv, TypeOK',
         UNCHANGED <<stat_running, stat_total, serial_no, last_error, callVars>>
  PROVE  IInv'
  <1>1. /\ Waiting' = Waiting /\ Checking' = Checking
        /\ TotalErrors' = TotalErrors
    BY DEF Waiting, Checking, TotalErrors, callVars
  <1> QED
    BY <1>1
    DEF IInv, RunningExact, SerialsUnique, FailsAtMostOnce, callVars

(* What an answer changes preserves the invariant.                         *)
LEMMA AnswerInv ==
  ASSUME IInv, NEW c \in Callers, NEW b \in Sizes, Answer(c, b)
  PROVE  IInv'
  <1> USE DEF IInv
  <1>0. UNCHANGED <<stat_total, last_60, serial_no, last_error, kind, serial,
                    healthVars, lifeVars, loopVars>>
    BY DEF Answer
  <1>1. CASE kind[c] = "basic"
    <2>1. /\ Waiting' = Waiting \ {c} /\ Checking' = Checking \cup {c}
          /\ Cardinality(Waiting') = Cardinality(Waiting) - 1
          /\ Cardinality(Checking') = Cardinality(Checking) + 1
      BY <1>1, CallAnswered DEF Answer, EndCall
    <2>2. c \in Waiting
      BY DEF Answer, Waiting
    <2>3. stat_running' \in Nat /\ RunningExact'
      BY <2>1, InProgressFinite, FS_CardinalityType, FS_Subset
      DEF RunningExact, TypeOK, Answer
    <2>4. TypeOK'
      BY <1>0, <1>1, <2>3
      DEF TypeOK, LoopTypeOK, Answer, EndCall, loopVars, healthVars, lifeVars
    <2>5. /\ SerialsUnique'
          /\ \A d \in Waiting' \cup Checking' : serial'[d] <= serial_no'
      BY <1>0, <2>1, <2>2 DEF SerialsUnique
    <2>6. FailsAtMostOnce'
      BY <1>0, <2>1, InProgressFinite
      DEF FailsAtMostOnce, TypeOK, Slot, TotalErrors
    <2> QED
      BY <2>3, <2>4, <2>5, <2>6
  <1>2. CASE kind[c] # "basic"
    <2>1. /\ Waiting' = Waiting \ {c} /\ Checking' = Checking
          /\ Cardinality(Waiting') = Cardinality(Waiting) - 1
          /\ Cardinality(Checking') = Cardinality(Checking)
      BY <1>2, CallEnds DEF Answer, EndCall
    <2>3. stat_running' \in Nat /\ RunningExact'
      BY <2>1, InProgressFinite, FS_CardinalityType, FS_Subset
      DEF RunningExact, TypeOK, Answer
    <2>4. TypeOK'
      BY <1>0, <1>2, <2>3
      DEF TypeOK, LoopTypeOK, Answer, EndCall, loopVars, healthVars, lifeVars
    <2>5. /\ SerialsUnique'
          /\ \A d \in Waiting' \cup Checking' : serial'[d] <= serial_no'
      BY <1>0, <2>1 DEF SerialsUnique
    <2>6. FailsAtMostOnce'
      BY <1>0, <2>1, InProgressFinite
      DEF FailsAtMostOnce, TypeOK, Slot, TotalErrors
    <2> QED
      BY <2>3, <2>4, <2>5, <2>6
  <1> QED
    BY <1>1, <1>2

(* Looking for the serial number in the answer preserves the invariant.    *)
LEMMA CheckInv ==
  ASSUME IInv, NEW c \in Callers, SerialFound(c) \/ SerialMissing(c)
  PROVE  IInv'
  <1> USE DEF IInv
  <1>1. pc[c] = "check" /\ pc' = [pc EXCEPT ![c] = "idle"]
    BY DEF SerialFound, SerialMissing, EndCall
  <1>2. /\ Waiting' = Waiting /\ Checking' = Checking \ {c}
        /\ Cardinality(Waiting') = Cardinality(Waiting)
        /\ Cardinality(Checking') = Cardinality(Checking) - 1
    BY <1>1, CallChecked
  <1>3. UNCHANGED <<stat_running, serial_no, last_error, kind, serial,
                    healthVars, lifeVars, loopVars>>
    BY DEF SerialFound, SerialMissing, statVars
  <1>4. RunningExact'
    BY <1>2, <1>3 DEF RunningExact
  <1>5. /\ SerialsUnique'
        /\ \A d \in Waiting' \cup Checking' : serial'[d] <= serial_no'
    BY <1>2, <1>3 DEF SerialsUnique
  <1>6. CASE SerialFound(c)
    <2>1. UNCHANGED <<stat_total, last_60>>
      BY <1>6 DEF SerialFound, statVars
    <2>2. TypeOK'
      BY <1>1, <1>3, <2>1
      DEF TypeOK, LoopTypeOK, loopVars, healthVars, lifeVars
    <2>3. FailsAtMostOnce'
      BY <1>2, <1>3, <2>1, InProgressFinite
      DEF FailsAtMostOnce, TypeOK, Slot, TotalErrors
    <2> QED
      BY <1>4, <1>5, <2>2, <2>3
  <1>7. CASE SerialMissing(c)
    <2>1. /\ stat_total' \in Slot /\ last_60' \in [Ring -> Slot]
          /\ TotalErrors' = TotalErrors + 1
          /\ stat_total'.done = stat_total.done
          /\ stat_total'.error_resp + stat_total'.error_resp_read =
                stat_total.error_resp + stat_total.error_resp_read + 1
      BY <1>7, CountErrorType DEF SerialMissing
    <2>2. TypeOK'
      BY <1>1, <1>3, <2>1
      DEF TypeOK, LoopTypeOK, loopVars, healthVars, lifeVars
    <2>3. FailsAtMostOnce'
      BY <1>2, <1>3, <2>1, InProgressFinite
      DEF FailsAtMostOnce, TypeOK, Slot, TotalErrors
    <2> QED
      BY <1>4, <1>5, <2>2, <2>3
  <1> QED
    BY <1>6, <1>7

(* The maintenance keeps the ring a ring.                                  *)
LEMMA MaintStatType ==
  ASSUME TypeOK, MaintStat(clock)
  PROVE  /\ last_60' \in [Ring -> Slot]
         /\ last_60_pos' \in Ring
         /\ is_disabled' \in BOOLEAN
         /\ probes' \in Nat
  <1>1. clock \in Nat /\ RingSeconds \in Nat \ {0}
    BY ClientAssumption, CycleAssumption DEF TypeOK, LoopTypeOK, Seconds
  <1>2. clock % RingSeconds \in Ring
    BY <1>1 DEF Ring
  <1>3. NoStat \in Slot
    BY DEF NoStat, Slot
  <1>4. /\ last_60_pos' = clock % RingSeconds
        /\ last_60' = [last_60 EXCEPT ![clock % RingSeconds] = NoStat]
    BY DEF MaintStat
  <1>5. is_disabled' \in BOOLEAN
    <2>1. \A r, f : Dead(r, f) \in BOOLEAN
      BY Zenon DEF Dead
    <2>2. \E r, f : is_disabled' = Dead(r, f)
      BY Zenon DEF MaintStat
    <2> QED
      BY <2>1, <2>2
  <1>6. probes' \in Nat
    BY DEF MaintStat, TypeOK
  <1> QED
    BY <1>2, <1>3, <1>4, <1>5, <1>6 DEF TypeOK

-----------------------------------------------------------------------------
(* A node that has just been made satisfies the invariant.                 *)
LEMMA InitInv == Init => IInv
  <1> SUFFICES ASSUME Init PROVE IInv
    OBVIOUS
  <1>1. Waiting = {} /\ Checking = {}
    BY DEF Init, Waiting, Checking
  <1>2. Cardinality({}) = 0
    BY FS_EmptySet
  <1>3. NoStat \in Slot /\ 0 \in Ring
    BY ClientAssumption DEF NoStat, Slot, Ring
  <1>4. TypeOK
    <2>1. LoopTypeOK
      BY DEF Init, LoopInit, LoopTypeOK
    <2>2. /\ stat_total \in Slot /\ last_60 \in [Ring -> Slot]
          /\ last_60_pos \in Ring
      BY <1>3 DEF Init
    <2>3. is_disabled \in BOOLEAN /\ serving \in BOOLEAN /\ bad_url \in BOOLEAN
      BY Zenon DEF Init
    <2>4. /\ pc \in [Callers -> {"idle", "docall", "check"}]
          /\ kind \in [Callers -> {"forward", "basic"}]
          /\ serial \in [Callers -> Nat]
      BY DEF Init
    <2> QED
      BY <2>1, <2>2, <2>3, <2>4, ClientAssumption DEF Init, TypeOK
  <1>5. FailsAtMostOnce
    BY <1>1, <1>2 DEF Init, FailsAtMostOnce, TotalErrors, NoStat
  <1> QED
    BY <1>1, <1>2, <1>4, <1>5 DEF Init, IInv, RunningExact, SerialsUnique

(* Every way a call begins or ends preserves the invariant.                *)
LEMMA CallStepInv ==
  ASSUME IInv, NEW c \in Callers, CallStep(c)
  PROVE  IInv'
  <1> USE DEF IInv
  <1>1. ASSUME NEW m \in Methods, RequestForward(c, m) PROVE IInv'
    BY <1>1, AdmitInv DEF RequestForward, TypeOK, lifeVars
  <1>2. ASSUME NEW m \in Methods, RequestBasic(c, m) PROVE IInv'
    BY <1>2, AdmitInv DEF RequestBasic, TypeOK, lifeVars
  <1>3. ASSUME NEW m \in Methods, Probe(c, m) PROVE IInv'
    <2>1. /\ boot_left' \in 0 .. BootCalls /\ serving' \in BOOLEAN
          /\ probes' \in Nat
      BY <1>3 DEF Probe, TypeOK
    <2>2. CASE Admit(c, "basic", m)
      BY <2>1, <2>2, AdmitInv
    <2>3. CASE UNCHANGED <<throttle, statVars, healthVars, callVars, ghostVars,
                           loopVars>>
      <3>1. TypeOK'
        BY <2>1, <2>3 DEF TypeOK, LoopTypeOK, statVars, healthVars, callVars,
                          loopVars
      <3> QED
        BY <2>3, <3>1, CallsUntouchedInv DEF statVars
    <2> QED
      BY <1>3, <2>2, <2>3 DEF Probe
  <1>4. CASE BadRequest(c)
    BY <1>4, FailureInv DEF BadRequest
  <1>5. CASE HTTPError(c)
    BY <1>5, FailureInv DEF HTTPError
  <1>6. CASE ReadError(c)
    BY <1>6, FailureInv DEF ReadError
  <1>7. CASE \E b \in Sizes : Answer(c, b)
    BY <1>7, AnswerInv
  <1>8. CASE SerialFound(c) \/ SerialMissing(c)
    BY <1>8, CheckInv
  <1> QED
    BY <1>1, <1>2, <1>3, <1>4, <1>5, <1>6, <1>7, <1>8 DEF CallStep

(* The startup's requests preserve the invariant.                          *)
LEMMA BootCallInv ==
  ASSUME IInv, NEW m \in Methods, BootCall(m)
  PROVE  IInv'
  <1> USE DEF IInv
  <1>1. /\ boot_left' \in 0 .. BootCalls /\ serving' \in BOOLEAN
        /\ probes' \in Nat
    BY ClientAssumption DEF BootCall, TypeOK
  <1>2. CASE Admit(Heart, "basic", m)
    <2>1. Heart \in Callers
      BY DEF Callers
    <2> QED
      BY <1>1, <1>2, <2>1, AdmitInv
  <1>3. CASE UNCHANGED <<throttle, statVars, healthVars, callVars, ghostVars,
                         loopVars>>
    <2>1. TypeOK'
      BY <1>1, <1>3 DEF TypeOK, LoopTypeOK, statVars, healthVars, callVars,
                        loopVars
    <2> QED
      BY <1>3, <2>1, CallsUntouchedInv DEF statVars
  <1> QED
    BY <1>2, <1>3 DEF BootCall

(* The clock and the loop preserve the type of their variables.            *)
LEMMA LoopInv ==
  ASSUME LoopTypeOK,
         \/ ReadNow \/ WakeIdle \/ Wake \/ Tick
         \/ clock' = (clock + 1) % Cycle /\ UNCHANGED <<noticed, loop_now, loop_pc>>
  PROVE  LoopTypeOK'
  BY CycleAssumption
  DEF LoopTypeOK, ReadNow, WakeIdle, Wake, Tick, Seconds

(* Every step of the node preserves the invariant.                         *)
LEMMA NextInv == IInv /\ [Next]_vars => IInv'
  <1> SUFFICES ASSUME IInv, [Next]_vars PROVE IInv'
    OBVIOUS
  <1> USE DEF IInv
  <1>1. CASE \E c \in Callers : CallStep(c)
    BY <1>1, CallStepInv
  <1>2. CASE \E m \in Methods : BootCall(m)
    BY <1>2, BootCallInv
  <1>3. CASE BootTick
    <2>1. TypeOK'
      BY <1>3, LoopInv
      DEF BootTick, TypeOK, statVars, healthVars, callVars, lifeVars
    <2> QED
      BY <1>3, <2>1, CallsUntouchedInv DEF BootTick, statVars
  <1>4. CASE BootDone
    <2>1. LoopTypeOK'
      BY <1>4 DEF BootDone, TypeOK, LoopTypeOK
    <2>2. TypeOK'
      BY <1>4, <2>1, MaintStatType DEF BootDone, TypeOK, callVars
    <2> QED
      BY <1>4, <2>2, CallsUntouchedInv DEF BootDone
  <1>5. CASE Maintain
    <2>1. LoopTypeOK'
      BY <1>5, LoopInv DEF Maintain, TypeOK
    <2>2. TypeOK'
      BY <1>5, <2>1, MaintStatType DEF Maintain, TypeOK, callVars
    <2> QED
      BY <1>5, <2>2, CallsUntouchedInv DEF Maintain
  <1>6. CASE LoopStep
    <2>1. TypeOK'
      BY <1>6, LoopInv
      DEF LoopStep, TypeOK, statVars, healthVars, callVars, lifeVars
    <2> QED
      BY <1>6, <2>1, CallsUntouchedInv DEF LoopStep, statVars
  <1>7. CASE UNCHANGED vars
    <2>1. TypeOK'
      BY <1>7 DEF vars, TypeOK, LoopTypeOK, statVars, healthVars, callVars,
                  lifeVars, loopVars
    <2> QED
      BY <1>7, <2>1, CallsUntouchedInv DEF vars, statVars
  <1> QED
    BY <1>1, <1>2, <1>3, <1>4, <1>5, <1>6, <1>7 DEF Next

(* The invariant holds in every reachable state.                           *)
THEOREM Invariant == Spec => []IInv
  BY InitInv, NextInv, PTL DEF Spec

(* Counters stay counts and ring positions stay in the ring, for any       *)
(* number of callers and any ring size.                                    *)
THEOREM TypeCorrect == Spec => []TypeOK
  <1>1. IInv => TypeOK
    BY DEF IInv
  <1> QED
    BY Invariant, <1>1, PTL

(* stat_running is the number of calls on the wire.                        *)
THEOREM RunningCounted == Spec => []RunningExact
  <1>1. IInv => RunningExact
    BY DEF IInv
  <1> QED
    BY Invariant, <1>1, PTL

(* No two calls in progress share a serial number.                         *)
THEOREM SerialsNeverShared == Spec => []SerialsUnique
  <1>1. IInv => SerialsUnique
    BY DEF IInv
  <1> QED
    BY Invariant, <1>1, PTL

(* A request is counted as failed at most once.                            *)
THEOREM FailuresCountedOnce == Spec => []FailsAtMostOnce
  <1>1. IInv => FailsAtMostOnce
    BY DEF IInv
  <1> QED
    BY Invariant, <1>1, PTL
-----------------------------------------------------------------------------
(* The verdict                                                             *)

(* What a table of sums says of the whole set is the sum over it.          *)
LEMMA TableIsSum ==
  ASSUME NEW f, NEW S, IsFiniteSet(S), NEW own, IsSums(f, S, own)
  PROVE  own[S] = SumFunctionOnSet(f, S)
<1>1. PICK sums : IsSums(f, S, sums) /\ \A s \in SUBSET S : SumFunctionOnSet(f, s) = sums[s]
  BY SumInTable
<1>2. own[S] = sums[S]
  BY <1>1, SumsAgree
<1> QED
  BY <1>1, <1>2

(* The three things that are added up over seconds or slots.               *)
LEMMA DoneIsSum ==
  ASSUME NEW t, NEW S, IsFiniteSet(S), NEW f, \A s \in S : f[s] = t[s].done
  PROVE  MapThenSumSet(LAMBDA s : t[s].done, S) = SumFunctionOnSet(f, S)
<1> DEFINE Terms(s, sums) ==
             IF s = {} THEN 0 ELSE t[Chosen(s)].done + sums[s \ {Chosen(s)}]
           Table(sums) == sums = [s \in SUBSET S |-> Terms(s, sums)]
<1>1. MapThenSumSet(LAMBDA s : t[s].done, S) = (CHOOSE sums : Table(sums))[S]
  BY Zenon DEF MapThenSumSet, MapThenFoldSet, Chosen
<1>2. \A sums : Table(sums) <=> IsSums(f, S, sums)
  <2>1. \A sums : \A s \in SUBSET S : SumOf(f, s, sums) = Terms(s, sums)
    BY ChosenIsIn DEF SumOf
  <2> HIDE DEF Terms
  <2>2. \A sums : [s \in SUBSET S |-> SumOf(f, s, sums)] = [s \in SUBSET S |-> Terms(s, sums)]
    BY <2>1
  <2> QED
    BY <2>2 DEF IsSums
<1> HIDE DEF Table
<1>3. PICK own : IsSums(f, S, own)
               /\ MapThenSumSet(LAMBDA s : t[s].done, S) = own[S]
  BY <1>1, <1>2, SumsExist
<1> QED
  BY <1>3, TableIsSum

(* Failures, by second.                                                    *)
LEMMA FailedIsSum ==
  ASSUME NEW t, NEW S, IsFiniteSet(S), NEW f, \A s \in S : f[s] = t[s].failed
  PROVE  MapThenSumSet(LAMBDA s : t[s].failed, S) = SumFunctionOnSet(f, S)
<1> DEFINE Terms(s, sums) ==
             IF s = {} THEN 0 ELSE t[Chosen(s)].failed + sums[s \ {Chosen(s)}]
           Table(sums) == sums = [s \in SUBSET S |-> Terms(s, sums)]
<1>1. MapThenSumSet(LAMBDA s : t[s].failed, S) = (CHOOSE sums : Table(sums))[S]
  BY Zenon DEF MapThenSumSet, MapThenFoldSet, Chosen
<1>2. \A sums : Table(sums) <=> IsSums(f, S, sums)
  <2>1. \A sums : \A s \in SUBSET S : SumOf(f, s, sums) = Terms(s, sums)
    BY ChosenIsIn DEF SumOf
  <2> HIDE DEF Terms
  <2>2. \A sums : [s \in SUBSET S |-> SumOf(f, s, sums)] = [s \in SUBSET S |-> Terms(s, sums)]
    BY <2>1
  <2> QED
    BY <2>2 DEF IsSums
<1> HIDE DEF Table
<1>3. PICK own : IsSums(f, S, own)
               /\ MapThenSumSet(LAMBDA s : t[s].failed, S) = own[S]
  BY <1>1, <1>2, SumsExist
<1> QED
  BY <1>3, TableIsSum

(* Failures, by slot.                                                      *)
LEMMA ErrorsAreSum ==
  ASSUME NEW t, NEW S, IsFiniteSet(S), NEW f, \A s \in S : f[s] = t[s].error_resp + t[s].error_resp_read
  PROVE  MapThenSumSet(LAMBDA s : t[s].error_resp + t[s].error_resp_read, S) = SumFunctionOnSet(f, S)
<1> DEFINE Terms(s, sums) ==
             IF s = {} THEN 0 ELSE (t[Chosen(s)].error_resp + t[Chosen(s)].error_resp_read) + sums[s \ {Chosen(s)}]
           Table(sums) == sums = [s \in SUBSET S |-> Terms(s, sums)]
<1>1. MapThenSumSet(LAMBDA s : t[s].error_resp + t[s].error_resp_read, S) = (CHOOSE sums : Table(sums))[S]
  BY Zenon DEF MapThenSumSet, MapThenFoldSet, Chosen
<1>2. \A sums : Table(sums) <=> IsSums(f, S, sums)
  <2>1. \A sums : \A s \in SUBSET S : SumOf(f, s, sums) = Terms(s, sums)
    BY ChosenIsIn DEF SumOf
  <2> HIDE DEF Terms
  <2>2. \A sums : [s \in SUBSET S |-> SumOf(f, s, sums)] = [s \in SUBSET S |-> Terms(s, sums)]
    BY <2>1
  <2> QED
    BY <2>2 DEF IsSums
<1> HIDE DEF Table
<1>3. PICK own : IsSums(f, S, own)
               /\ MapThenSumSet(LAMBDA s : t[s].error_resp + t[s].error_resp_read, S) = own[S]
  BY <1>1, <1>2, SumsExist
<1> QED
  BY <1>3, TableIsSum
(* The age of a second is how many slots lie between the current one and   *)
(* its own.                                                                *)
SlotOf(pos, age) == (pos - age) % RingSeconds

(* What the slots say is what happened in the seconds they stand for, slot *)
(* 0 excepted as long as it holds the startup's requests.                  *)
Remembers(pos, slots, past, all) ==
  \A a \in Ring :
    SlotOf(pos, a) # 0 \/ all =>
      /\ past[a].done = slots[SlotOf(pos, a)].done
      /\ past[a].failed = slots[SlotOf(pos, a)].error_resp
                          + slots[SlotOf(pos, a)].error_resp_read

Tally == [done : Nat, failed : Nat]

(* The loop has seen the current second, or sleeps and is about to.        *)
OnTime ==
  \/ clock = noticed /\ (loop_pc = "sleep" => loop_now = clock)
  \/ clock = (noticed + 1) % Cycle /\ loop_pc = "sleep" /\ loop_now # clock

(* The ring is where the time is, and remembers what happened.             *)
RingInv ==
  /\ history \in [Ring -> Tally]
  /\ ~ serving => last_60_pos = 0 /\ \A s \in Ring \ {0} : last_60[s] = NoStat
  /\ serving => /\ OnTime
                /\ last_60_pos = noticed % RingSeconds
                /\ Remembers(last_60_pos, last_60, history, settled)

LEMMA SlotInRing ==
  ASSUME NEW pos \in Ring
  PROVE  /\ SlotOf(pos, 0) = pos
         /\ \A a \in Ring : SlotOf(pos, a) \in Ring
         /\ \A a, b \in Ring : SlotOf(pos, a) = SlotOf(pos, b) => a = b
<1>1. RingSeconds \in Nat \ {0} /\ pos \in Int
  BY ClientAssumption DEF Ring
<1>2. SlotOf(pos, 0) = pos
  <2>1. pos - 0 = pos
    BY <1>1
  <2> QED
    BY <1>1, <2>1, PlaceItself DEF SlotOf, Ring
<1>3. \A a \in Ring : SlotOf(pos, a) \in Ring
  BY <1>1, PlaceExists DEF SlotOf, Ring
<1>4. \A a, b \in Ring : SlotOf(pos, a) = SlotOf(pos, b) => a = b
  BY <1>1, PlacesApart DEF SlotOf, Ring
<1> QED
  BY <1>2, <1>3, <1>4

(* A second later, what lay in a slot is a second older.                   *)
LEMMA SlotNextSecond ==
  ASSUME NEW pos \in Ring, NEW next \in Ring, next = (pos + 1) % RingSeconds,
         NEW a \in Ring, a # 0
  PROVE  a - 1 \in Ring /\ SlotOf(next, a) = SlotOf(pos, a - 1)
<1>1. RingSeconds \in Nat \ {0} /\ pos \in Int /\ a \in Int
  BY ClientAssumption DEF Ring
<1>2. (((pos + 1) % RingSeconds) + (-a)) % RingSeconds = ((pos + 1) + (-a)) % RingSeconds
  <2>1. pos + 1 \in Int /\ -a \in Int
    BY <1>1
  <2> QED
    BY <1>1, <2>1, PlaceSteps
<1>3. (pos + 1) + (-a) = pos - (a - 1) /\ next + (-a) = next - a
  BY <1>1 DEF Ring
<1>4. SlotOf(next, a) = SlotOf(pos, a - 1)
  BY <1>2, <1>3 DEF SlotOf
<1>5. a - 1 \in Ring
  BY <1>1 DEF Ring
<1> QED
  BY <1>4, <1>5

(* What is counted is counted for the current second, in both.             *)
LEMMA CountedInv ==
  ASSUME TypeOK, RingInv,
         NEW d \in Nat, NEW f \in Nat, NEW e \in Slot, NEW h \in Tally,
         last_60' = [last_60 EXCEPT ![last_60_pos] = e],
         history' = [history EXCEPT ![0] = h],
         e.done = last_60[last_60_pos].done + d,
         h.done = history[0].done + d,
         e.error_resp + e.error_resp_read =
           last_60[last_60_pos].error_resp + last_60[last_60_pos].error_resp_read + f,
         h.failed = history[0].failed + f,
         UNCHANGED <<last_60_pos, serving, settled, loopVars>>
  PROVE  RingInv'
<1>1. /\ last_60_pos \in Ring /\ last_60 \in [Ring -> Slot]
      /\ history \in [Ring -> Tally] /\ 0 \in Ring
  BY ClientAssumption DEF TypeOK, RingInv, Ring
<1>2. history' \in [Ring -> Tally]
  BY <1>1
<1>3. ~ serving => last_60_pos = 0 /\ \A s \in Ring \ {0} : last_60'[s] = NoStat
  BY <1>1 DEF RingInv
<1>4. OnTime' <=> OnTime
  BY DEF OnTime, loopVars
<1>5. ASSUME Remembers(last_60_pos, last_60, history, settled)
      PROVE  Remembers(last_60_pos, last_60', history', settled)
  <2> SUFFICES ASSUME NEW a \in Ring, SlotOf(last_60_pos, a) # 0 \/ settled
               PROVE  /\ history'[a].done = last_60'[SlotOf(last_60_pos, a)].done
                      /\ history'[a].failed = last_60'[SlotOf(last_60_pos, a)].error_resp
                                    + last_60'[SlotOf(last_60_pos, a)].error_resp_read
    BY DEF Remembers
  <2> DEFINE s == SlotOf(last_60_pos, a)
  <2>1. s \in Ring
    BY <1>1, SlotInRing
  <2>2. /\ history[a].done = last_60[s].done
        /\ history[a].failed = last_60[s].error_resp + last_60[s].error_resp_read
    BY <1>5 DEF Remembers
  <2>3. CASE a = 0
    <3>1. s = last_60_pos
      BY <1>1, <2>3, SlotInRing
    <3> HIDE DEF s
    <3>2. last_60'[s] = e /\ history'[a] = h
      BY <1>1, <2>3, <3>1
    <3>3. h.done = e.done /\ h.failed = e.error_resp + e.error_resp_read
      BY <2>2, <2>3, <3>1
    <3> QED
      BY <3>2, <3>3 DEF s
  <2>4. CASE a # 0
    <3>1. s # last_60_pos
      BY <1>1, <2>4, SlotInRing
    <3> HIDE DEF s
    <3>2. last_60'[s] = last_60[s] /\ history'[a] = history[a]
      BY <1>1, <2>1, <2>4, <3>1
    <3> QED
      BY <2>2, <3>2 DEF s
  <2> QED
    BY <2>3, <2>4
<1> QED
  BY <1>2, <1>3, <1>4, <1>5 DEF RingInv, loopVars

(* A step that leaves ring, history and loop alone.                        *)
LEMMA RingUntouched ==
  ASSUME RingInv,
         UNCHANGED <<last_60, last_60_pos, history, settled, serving, loopVars>>
  PROVE  RingInv'
BY DEF RingInv, Remembers, OnTime, loopVars

LEMMA AdmitCounted ==
  ASSUME TypeOK, RingInv, NEW c, NEW k, NEW m, Admit(c, k, m), UNCHANGED serving
  PROVE  RingInv'
<1>1. /\ last_60_pos \in Ring /\ last_60[last_60_pos] \in Slot
      /\ history \in [Ring -> Tally] /\ history[0] \in Tally
  BY ClientAssumption DEF TypeOK, RingInv, Ring
<1>2. PICK e : e = [last_60[last_60_pos] EXCEPT !.done = last_60[last_60_pos].done + 1]
  OBVIOUS
<1>3. PICK h : h = [history[0] EXCEPT !.done = history[0].done + 1]
  OBVIOUS
<1>4. /\ last_60' = [last_60 EXCEPT ![last_60_pos] = e]
      /\ history' = [history EXCEPT ![0] = h]
      /\ UNCHANGED <<last_60_pos, settled, loopVars>>
  BY <1>2, <1>3 DEF Admit, healthVars
<1>5. /\ e \in Slot
      /\ e.done = last_60[last_60_pos].done + 1
      /\ e.error_resp + e.error_resp_read =
           last_60[last_60_pos].error_resp + last_60[last_60_pos].error_resp_read + 0
  BY <1>1, <1>2 DEF Slot
<1>6. h \in Tally /\ h.done = history[0].done + 1 /\ h.failed = history[0].failed + 0
  BY <1>1, <1>3 DEF Tally
<1>7. 0 \in Nat /\ 1 \in Nat
  OBVIOUS
<1> QED
  BY <1>4, <1>5, <1>6, <1>7, CountedInv

LEMMA ErrorCounted ==
  ASSUME TypeOK, RingInv,
         NEW field \in {"error_req", "error_resp", "error_resp_read"},
         CountError(field), UNCHANGED <<last_60_pos, serving, settled, loopVars>>
  PROVE  RingInv'
<1>1. /\ last_60_pos \in Ring /\ last_60[last_60_pos] \in Slot
      /\ history \in [Ring -> Tally] /\ history[0] \in Tally
  BY ClientAssumption DEF TypeOK, RingInv, Ring
<1>2. PICK f \in Nat : f = IF field = "error_req" THEN 0 ELSE 1
  OBVIOUS
<1>3. PICK e : e = Failed(last_60[last_60_pos], field)
  OBVIOUS
<1>4. PICK h : h = [history[0] EXCEPT !.failed = history[0].failed + f]
  OBVIOUS
<1>5. last_60' = [last_60 EXCEPT ![last_60_pos] = e]
  BY <1>3 DEF CountError
<1>6. history' = [history EXCEPT ![0] = h]
  <2>1. history' = [history EXCEPT ![0].failed = history[0].failed + f]
    <3>1. CASE field = "error_req"
      <4>1. history' = [history EXCEPT ![0].failed = history[0].failed]
        BY <3>1 DEF CountError
      <4>2. f = 0 /\ history[0].failed + f = history[0].failed
        BY <1>1, <1>2, <3>1 DEF Tally
      <4> QED
        BY <4>1, <4>2
    <3>2. CASE field # "error_req"
      <4>1. history' = [history EXCEPT ![0].failed = history[0].failed + 1]
        BY <3>2 DEF CountError
      <4> QED
        BY <1>2, <3>2, <4>1
    <3> QED
      BY <3>1, <3>2
  <2> QED
    BY <1>4, <2>1
<1>7. /\ e \in Slot
      /\ e.done = last_60[last_60_pos].done + 0
      /\ e.error_resp + e.error_resp_read =
           last_60[last_60_pos].error_resp + last_60[last_60_pos].error_resp_read + f
  <2>1. last_60[last_60_pos].done + 0 = last_60[last_60_pos].done
    BY <1>1 DEF Slot
  <2> QED
    BY <1>1, <1>2, <1>3, <2>1, FailedSlot
<1>8. h \in Tally /\ h.done = history[0].done + 0 /\ h.failed = history[0].failed + f
  BY <1>1, <1>4 DEF Tally
<1>9. 0 \in Nat
  OBVIOUS
<1> QED
  BY <1>5, <1>6, <1>7, <1>8, <1>9, CountedInv

(* Nothing is missed: the maintenance runs in the second after the one it  *)
(* ran in before.                                                          *)
LEMMA NextSecond ==
  ASSUME LoopTypeOK, OnTime, Wake
  PROVE  Lag = 1 /\ clock % RingSeconds = ((noticed % RingSeconds) + 1) % RingSeconds
<1>1. /\ Cycle \in Nat \ {0} /\ RingSeconds \in Nat \ {0} /\ 1 \in 0 .. Cycle - 1
      /\ noticed \in Int /\ noticed \in 0 .. Cycle - 1 /\ -noticed \in Int
  BY CycleAssumption, MissedAssumption, ClientAssumption DEF LoopTypeOK, Seconds
<1>2. clock = (noticed + 1) % Cycle
  BY DEF OnTime, Wake
<1>3. Lag = 1
  <2>1. (((noticed + 1) % Cycle) + (-noticed)) % Cycle = ((noticed + 1) + (-noticed)) % Cycle
    <3>1. noticed + 1 \in Int
      BY <1>1
    <3> QED
      BY <1>1, <3>1, PlaceSteps
  <2>2. (noticed + 1) + (-noticed) = 1 /\ 1 % Cycle = 1
    BY <1>1, PlaceItself
  <2>3. clock \in Int
    BY DEF LoopTypeOK, Seconds
  <2>4. clock + (-noticed) = clock - noticed
    BY <1>1, <2>3
  <2> QED
    BY <1>2, <2>1, <2>2, <2>4 DEF Lag
<1>4. clock % RingSeconds = (noticed + 1) % RingSeconds
  <2>1. PICK z \in Int : noticed + 1 = z * Cycle + clock
    <3>1. noticed + 1 \in Int
      BY <1>1
    <3> QED
      BY <1>1, <1>2, <3>1, PlaceExists
  <2>2. PICK w \in Int : Cycle = w * RingSeconds
    <3>3. Cycle \in Int
      BY <1>1
    <3>1. PICK w \in Int : Cycle = w * RingSeconds + (Cycle % RingSeconds)
      BY <1>1, <3>3, PlaceExists
    <3>2. Cycle % RingSeconds = 0 /\ w * RingSeconds \in Int
      BY <1>1, RingAssumption
    <3> QED
      BY <3>1, <3>2
  <2>3. z * Cycle = (z * w) * RingSeconds /\ z * w \in Int
    BY <1>1, <2>2
  <2>4. clock \in Int /\ noticed + 1 \in Int
    BY <1>1 DEF LoopTypeOK, Seconds
  <2>5. (z * w) * RingSeconds \in Int
    BY <1>1, <2>3
  <2>6. noticed + 1 = clock + (z * w) * RingSeconds
    BY <2>1, <2>3, <2>4, <2>5
  <2> QED
    BY <1>1, <2>3, <2>4, <2>6, PlaceTurns
<1>5. ((noticed % RingSeconds) + 1) % RingSeconds = (noticed + 1) % RingSeconds
  <2>1. PICK one \in Int : one = 1
    OBVIOUS
  <2>2. ((noticed % RingSeconds) + one) % RingSeconds = (noticed + one) % RingSeconds
    BY <1>1, PlaceSteps
  <2> QED
    BY <2>1, <2>2
<1> QED
  BY <1>3, <1>4, <1>5

(* The maintenance clears the slot of the second that begins.              *)
LEMMA MaintainRemembers ==
  ASSUME TypeOK, RingInv, Maintain
  PROVE  RingInv'
<1>1. /\ serving /\ serving' /\ Wake /\ OnTime /\ LoopTypeOK
      /\ last_60_pos = noticed % RingSeconds
      /\ Remembers(last_60_pos, last_60, history, settled)
      /\ history \in [Ring -> Tally]
      /\ last_60 \in [Ring -> Slot] /\ last_60_pos \in Ring
  BY DEF Maintain, RingInv, TypeOK
<1>2. /\ last_60_pos' = clock % RingSeconds
      /\ last_60' = [last_60 EXCEPT ![last_60_pos'] = NoStat]
      /\ settled' = (settled \/ last_60_pos' = 0)
  BY DEF Maintain, MaintStat
<1>3. Lag = 1 /\ last_60_pos' = (last_60_pos + 1) % RingSeconds
  BY <1>1, <1>2, NextSecond
<1>4. last_60_pos' \in Ring /\ noticed' = clock
  BY <1>1, <1>2, MaintStatType DEF Maintain, Wake
<1>5. history' = [a \in Ring |-> IF a >= 1 THEN history[a - 1] ELSE [done |-> 0, failed |-> 0]]
  BY <1>3 DEF Maintain
<1>6. \A a \in Ring : a # 0 => /\ a - 1 \in Ring /\ a >= 1
                               /\ SlotOf(last_60_pos', a) = SlotOf(last_60_pos, a - 1)
  <2> SUFFICES ASSUME NEW a \in Ring, a # 0
               PROVE  /\ a - 1 \in Ring /\ a >= 1
                      /\ SlotOf(last_60_pos', a) = SlotOf(last_60_pos, a - 1)
    OBVIOUS
  <2>1. a >= 1
    BY DEF Ring
  <2> QED
    BY <1>1, <1>3, <1>4, <2>1, SlotNextSecond
<1>7. history' \in [Ring -> Tally]
  <2>1. [done |-> 0, failed |-> 0] \in Tally
    BY DEF Tally
  <2>2. \A a \in Ring : a >= 1 => a - 1 \in Ring
    BY ClientAssumption DEF Ring
  <2> QED
    BY <1>1, <1>5, <2>1, <2>2
<1>8. OnTime'
  BY <1>1 DEF Wake, OnTime
<1>9. Remembers(last_60_pos', last_60', history', settled')
  <2> SUFFICES ASSUME NEW a \in Ring, SlotOf(last_60_pos', a) # 0 \/ settled'
               PROVE  /\ history'[a].done = last_60'[SlotOf(last_60_pos', a)].done
                      /\ history'[a].failed = last_60'[SlotOf(last_60_pos', a)].error_resp
                                    + last_60'[SlotOf(last_60_pos', a)].error_resp_read
    BY DEF Remembers
  <2> DEFINE s == SlotOf(last_60_pos', a)
  <2>1. s \in Ring
    BY <1>4, SlotInRing
  <2>2. CASE a = 0
    <3>1. s = last_60_pos'
      BY <1>4, <2>2, SlotInRing
    <3> HIDE DEF s
    <3>2. last_60'[s] = NoStat
      BY <1>1, <1>2, <2>1, <3>1
    <3>3. history'[a] = [done |-> 0, failed |-> 0]
      BY <1>5, <2>2
    <3> QED
      BY <3>2, <3>3 DEF s, NoStat
  <2>3. CASE a # 0
    <3>1. s # last_60_pos'
      <4>1. 0 \in Ring
        BY ClientAssumption DEF Ring
      <4> QED
        BY <1>4, <2>3, <4>1, SlotInRing
    <3>2. s = SlotOf(last_60_pos, a - 1) /\ a - 1 \in Ring /\ a >= 1
      BY <1>6, <2>3
    <3>3. s # 0 \/ settled
      BY <1>2, <3>1
    <3> HIDE DEF s
    <3>4. /\ history[a - 1].done = last_60[s].done
          /\ history[a - 1].failed = last_60[s].error_resp + last_60[s].error_resp_read
      BY <1>1, <3>2, <3>3 DEF Remembers
    <3>5. last_60'[s] = last_60[s]
      BY <1>1, <1>2, <2>1, <3>1
    <3>6. history'[a] = history[a - 1]
      BY <1>5, <3>2
    <3> QED
      BY <3>4, <3>5, <3>6 DEF s
  <2> QED
    BY <2>2, <2>3
<1> QED
  BY <1>1, <1>2, <1>4, <1>7, <1>8, <1>9 DEF RingInv

(* The first maintenance leaves no slot but slot 0 with requests in it.    *)
LEMMA BootRemembers ==
  ASSUME TypeOK, RingInv, BootDone
  PROVE  RingInv'
<1>1. /\ last_60_pos = 0 /\ \A s \in Ring \ {0} : last_60[s] = NoStat
      /\ last_60 \in [Ring -> Slot]
  BY DEF BootDone, RingInv, TypeOK
<1>2. /\ serving' /\ history' = NoHistory /\ settled' = (last_60_pos' = 0)
      /\ last_60_pos' = clock % RingSeconds
      /\ last_60' = [last_60 EXCEPT ![last_60_pos'] = NoStat]
      /\ noticed' = clock /\ clock' = clock /\ loop_pc' = "top"
  BY DEF BootDone, MaintStat
<1>3. last_60_pos' \in Ring
  BY MaintStatType DEF BootDone
<1>4. history' \in [Ring -> Tally] /\ OnTime'
  BY <1>2 DEF NoHistory, Tally, OnTime
<1>5. Remembers(last_60_pos', last_60', history', settled')
  <2> SUFFICES ASSUME NEW a \in Ring, SlotOf(last_60_pos', a) # 0 \/ settled'
               PROVE  /\ history'[a].done = last_60'[SlotOf(last_60_pos', a)].done
                      /\ history'[a].failed = last_60'[SlotOf(last_60_pos', a)].error_resp
                                    + last_60'[SlotOf(last_60_pos', a)].error_resp_read
    BY DEF Remembers
  <2>1. PICK s \in Ring : s = SlotOf(last_60_pos', a)
    BY <1>3, SlotInRing
  <2>2. last_60'[s] = NoStat
    BY <1>1, <1>2, <2>1
  <2>3. history'[a].done = 0 /\ history'[a].failed = 0
    BY <1>2 DEF NoHistory
  <2> QED
    BY <2>1, <2>2, <2>3 DEF NoStat
<1> QED
  BY <1>2, <1>4, <1>5 DEF RingInv

LEMMA RingInit == Init => RingInv
BY DEF Init, RingInv, NoHistory, Tally

(* A second that begins is about to be noticed, because none is missed.    *)
LEMMA LoopOnTime ==
  ASSUME MaxMissed = 0, LoopTypeOK, OnTime, ReadNow \/ WakeIdle \/ Tick
  PROVE  OnTime' /\ noticed' = noticed
<1>1. Cycle \in Nat /\ 0 <= Cycle - 2 /\ clock \in 0 .. Cycle - 1 /\ noticed \in 0 .. Cycle - 1
  BY CycleAssumption, MissedAssumption DEF LoopTypeOK, Seconds
<1>2. CASE ReadNow
  BY <1>2 DEF ReadNow, OnTime
<1>3. CASE WakeIdle
  BY <1>3 DEF WakeIdle, OnTime
<1>4. CASE Tick
  <2>1. Lag \in Nat
    BY <1>1, CycleAssumption DEF Lag
  <2>2. loop_pc = "sleep" /\ loop_now = clock /\ UNCHANGED <<noticed, loop_now, loop_pc>>
        /\ clock' = (clock + 1) % Cycle
    BY <1>4, <2>1 DEF Tick, WillNotice
  <2>3. clock = noticed
    BY <2>2 DEF OnTime
  <2>4. (clock + 1) % Cycle # clock
    BY <1>1
  <2> QED
    BY <2>2, <2>3, <2>4 DEF OnTime
<1> QED
  BY <1>2, <1>3, <1>4

LEMMA RingNext ==
  ASSUME MaxMissed = 0, TypeOK, RingInv, [Next]_vars
  PROVE  RingInv'
<1>1. ASSUME NEW c \in Callers, CallStep(c) PROVE RingInv'
  <2>1. ASSUME NEW m \in Methods, RequestForward(c, m) PROVE RingInv'
    BY <2>1, AdmitCounted DEF RequestForward, lifeVars
  <2>2. ASSUME NEW m \in Methods, RequestBasic(c, m) PROVE RingInv'
    BY <2>2, AdmitCounted DEF RequestBasic, lifeVars
  <2>3. ASSUME NEW m \in Methods, Probe(c, m) PROVE RingInv'
    <3>1. CASE Admit(c, "basic", m)
      BY <2>3, <3>1, AdmitCounted DEF Probe
    <3>2. CASE UNCHANGED <<throttle, statVars, healthVars, callVars, ghostVars, loopVars>>
      BY <2>3, <3>2, RingUntouched DEF Probe, statVars, healthVars, ghostVars
    <3> QED
      BY <2>3, <3>1, <3>2 DEF Probe
  <2>4. CASE BadRequest(c)
    BY <2>4, ErrorCounted DEF BadRequest, healthVars, lifeVars
  <2>5. CASE HTTPError(c)
    BY <2>5, ErrorCounted DEF HTTPError, healthVars, lifeVars
  <2>6. CASE ReadError(c)
    BY <2>6, ErrorCounted DEF ReadError, healthVars, lifeVars
  <2>7. CASE \E b \in Sizes : Answer(c, b)
    BY <2>7, RingUntouched DEF Answer, healthVars, lifeVars, ghostVars
  <2>8. CASE SerialFound(c)
    BY <2>8, RingUntouched DEF SerialFound, statVars, healthVars, lifeVars, ghostVars
  <2>9. CASE SerialMissing(c)
    BY <2>9, ErrorCounted DEF SerialMissing, healthVars, lifeVars
  <2> QED
    BY <1>1, <2>1, <2>2, <2>3, <2>4, <2>5, <2>6, <2>7, <2>8, <2>9 DEF CallStep
<1>2. ASSUME NEW m \in Methods, BootCall(m) PROVE RingInv'
  <2>1. CASE Admit(Heart, "basic", m)
    BY <1>2, <2>1, AdmitCounted DEF BootCall
  <2>2. CASE UNCHANGED <<throttle, statVars, healthVars, callVars, ghostVars, loopVars>>
    BY <1>2, <2>2, RingUntouched DEF BootCall, statVars, healthVars, ghostVars
  <2> QED
    BY <1>2, <2>1, <2>2 DEF BootCall
<1>3. CASE BootTick
  <2>1. /\ ~ serving
        /\ UNCHANGED <<last_60, last_60_pos, history, settled, serving>>
    BY <1>3 DEF BootTick, statVars, healthVars, ghostVars, lifeVars
  <2> QED
    BY <2>1 DEF RingInv
<1>4. CASE BootDone
  BY <1>4, BootRemembers
<1>5. CASE Maintain
  BY <1>5, MaintainRemembers
<1>6. CASE LoopStep
  <2>1. /\ serving
        /\ UNCHANGED <<last_60, last_60_pos, history, settled, serving>>
    BY <1>6 DEF LoopStep, statVars, healthVars, ghostVars, lifeVars
  <2>2. OnTime' /\ noticed' = noticed
    BY <1>6, <2>1, LoopOnTime DEF LoopStep, RingInv, TypeOK
  <2> QED
    BY <2>1, <2>2 DEF RingInv
<1>7. CASE UNCHANGED vars
  BY <1>7, RingUntouched DEF vars, statVars, healthVars, ghostVars, lifeVars
<1> QED
  BY <1>1, <1>2, <1>3, <1>4, <1>5, <1>6, <1>7 DEF Next

(* What the maintenance adds up is what happened in the seconds it looks   *)
(* back on.                                                                *)
LEMMA LookbackSums ==
  ASSUME TypeOK, NEW pos \in Ring, NEW slots \in [Ring -> Slot],
         NEW past \in [Ring -> Tally], Remembers(pos, slots, past, TRUE)
  PROVE  /\ Requests(slots, pos) = MapThenSumSet(LAMBDA a : past[a].done, Ages)
         /\ Failures(slots, pos) = MapThenSumSet(LAMBDA a : past[a].failed, Ages)
<1>1. PICK n \in Nat : n = Lookback /\ Ages = 0 .. n - 1 /\ Ages \subseteq Ring
  <2>1. Lookback \in Nat /\ Lookback <= RingSeconds
    BY ClientAssumption DEF Lookback, TypeOK
  <2> QED
    BY <2>1, ClientAssumption DEF Ages, Ring
<1>2. IsFiniteSet(Ages)
  BY <1>1, FirstAreFinite
<1>3. PICK P : P = [a \in Ages |-> SlotOf(pos, a)]
  OBVIOUS
<1>4. Recent(pos) = {P[a] : a \in 0 .. n - 1}
  BY <1>1, <1>3 DEF Recent, SlotOf
<1>5. IsFiniteSet(Recent(pos)) /\ Recent(pos) \subseteq Ring
  <2>1. IsFiniteSet({P[a] : a \in 0 .. n - 1})
    BY <1>1, <1>2, ImageFinite
  <2>2. \A a \in Ages : P[a] \in Ring
    BY <1>1, <1>3, SlotInRing
  <2> QED
    BY <1>1, <1>4, <2>1, <2>2
<1>6. \A a, b \in 0 .. n - 1 : P[a] = P[b] => a = b
  BY <1>1, <1>3, SlotInRing
<1>7. \A a \in 0 .. n - 1 :
         /\ P[a] \in Recent(pos)
         /\ past[a].done = slots[P[a]].done
         /\ past[a].failed = slots[P[a]].error_resp + slots[P[a]].error_resp_read
  BY <1>1, <1>3, <1>4 DEF Remembers
<1>8. Requests(slots, pos) = MapThenSumSet(LAMBDA a : past[a].done, Ages)
  <2>1. PICK f : f = [s \in Recent(pos) |-> slots[s].done]
    OBVIOUS
  <2>2. PICK g : g = [a \in Ages |-> past[a].done]
    OBVIOUS
  <2>3. \A a \in 0 .. n - 1 : f[P[a]] \in Int /\ g[a] = f[P[a]]
    <3> SUFFICES ASSUME NEW a \in 0 .. n - 1 PROVE f[P[a]] \in Int /\ g[a] = f[P[a]]
      OBVIOUS
    <3>1. PICK p \in Recent(pos) : p = P[a] /\ past[a].done = slots[p].done
      BY <1>7
    <3>2. slots[p] \in Slot /\ a \in Ages
      BY <1>1, <1>5
    <3>3. f[p] \in Int /\ g[a] = f[p]
      BY <2>1, <2>2, <3>1, <3>2 DEF Slot
    <3> QED
      BY <3>1, <3>3
  <2>4. SumFunctionOnSet(f, Recent(pos)) = SumFunctionOnSet(g, Ages)
    <3>1. SumFunctionOnSet(f, {P[a] : a \in 0 .. n - 1}) = SumFunctionOnSet(g, 0 .. n - 1)
      BY <1>6, <2>3, SumOverPlaces, SMTT(30)
    <3> QED
      BY <1>1, <1>4, <3>1
  <2>5. MapThenSumSet(LAMBDA s : slots[s].done, Recent(pos)) = SumFunctionOnSet(f, Recent(pos))
    BY <1>5, <2>1, DoneIsSum
  <2>6. MapThenSumSet(LAMBDA a : past[a].done, Ages) = SumFunctionOnSet(g, Ages)
    BY <1>2, <2>2, DoneIsSum
  <2> QED
    BY <2>4, <2>5, <2>6 DEF Requests
<1>9. Failures(slots, pos) = MapThenSumSet(LAMBDA a : past[a].failed, Ages)
  <2>1. PICK f : f = [s \in Recent(pos) |-> slots[s].error_resp + slots[s].error_resp_read]
    OBVIOUS
  <2>2. PICK g : g = [a \in Ages |-> past[a].failed]
    OBVIOUS
  <2>3. \A a \in 0 .. n - 1 : f[P[a]] \in Int /\ g[a] = f[P[a]]
    <3> SUFFICES ASSUME NEW a \in 0 .. n - 1 PROVE f[P[a]] \in Int /\ g[a] = f[P[a]]
      OBVIOUS
    <3>1. PICK p \in Recent(pos) : p = P[a] /\ past[a].failed = slots[p].error_resp + slots[p].error_resp_read
      BY <1>7
    <3>2. slots[p] \in Slot /\ a \in Ages
      BY <1>1, <1>5
    <3>3. f[p] \in Int /\ g[a] = f[p]
      BY <2>1, <2>2, <3>1, <3>2 DEF Slot
    <3> QED
      BY <3>1, <3>3
  <2>4. SumFunctionOnSet(f, Recent(pos)) = SumFunctionOnSet(g, Ages)
    <3>1. SumFunctionOnSet(f, {P[a] : a \in 0 .. n - 1}) = SumFunctionOnSet(g, 0 .. n - 1)
      BY <1>6, <2>3, SumOverPlaces, SMTT(30)
    <3> QED
      BY <1>1, <1>4, <3>1
  <2>5. MapThenSumSet(LAMBDA s : slots[s].error_resp + slots[s].error_resp_read, Recent(pos))
          = SumFunctionOnSet(f, Recent(pos))
    BY <1>5, <2>1, ErrorsAreSum
  <2>6. MapThenSumSet(LAMBDA a : past[a].failed, Ages) = SumFunctionOnSet(g, Ages)
    BY <1>2, <2>2, FailedIsSum
  <2> QED
    BY <2>4, <2>5, <2>6 DEF Failures
<1> QED
  BY <1>8, <1>9

LEMMA VerdictStep ==
  ASSUME MaxMissed = 0, TypeOK, TypeOK', RingInv, Maintain, settled'
  PROVE  is_disabled' = Dead(MapThenSumSet(LAMBDA a : history'[a].done, Ages),
                             MapThenSumSet(LAMBDA a : history'[a].failed, Ages))
<1>1. RingInv'
  BY MaintainRemembers
<1>2. PICK pos, slots, past :
        pos = last_60_pos' /\ slots = last_60' /\ past = history'
  OBVIOUS
<1>3. /\ pos \in Ring /\ slots \in [Ring -> Slot] /\ past \in [Ring -> Tally]
      /\ Remembers(pos, slots, past, TRUE)
  BY <1>1, <1>2 DEF TypeOK, RingInv, Maintain, Remembers
<1>4. is_disabled' = Dead(Requests(slots, pos), Failures(slots, pos))
  BY <1>2 DEF Maintain, MaintStat
<1>5. /\ Requests(slots, pos) = MapThenSumSet(LAMBDA a : past[a].done, Ages)
      /\ Failures(slots, pos) = MapThenSumSet(LAMBDA a : past[a].failed, Ages)
  BY <1>3, LookbackSums
<1> QED
  BY <1>2, <1>4, <1>5

(* A node is disabled by what happened in the seconds looked back on,      *)
(* nothing older and nothing less, as long as the loop misses no second.   *)
THEOREM VerdictsRecent ==
  ASSUME MaxMissed = 0
  PROVE  Spec => VerdictOnRecentSeconds
<1>1. IInv /\ RingInv /\ [Next]_vars => IInv' /\ RingInv'
  BY NextInv, RingNext DEF IInv
<1>2. Init => IInv /\ RingInv
  BY InitInv, RingInit
<1>3. IInv /\ IInv' /\ RingInv /\ [Next]_vars =>
        [Maintain /\ settled' =>
          is_disabled' = Dead(MapThenSumSet(LAMBDA a : history'[a].done, Ages),
                              MapThenSumSet(LAMBDA a : history'[a].failed, Ages))]_vars
  BY VerdictStep DEF IInv
<1> QED
  BY <1>1, <1>2, <1>3, PTL DEF Spec, VerdictOnRecentSeconds
=============================================================================
