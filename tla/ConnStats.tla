------------------------------ MODULE ConnStats ------------------------------
(***************************************************************************)
(* What handler_socket2/stats keeps about a connection: its entry in the   *)
(* table of connections, which goroutines started by Close remove after    *)
(* two sleeps, the sums of its answers, and the history of the last        *)
(* seconds, a ring of rows marked with the second they count.              *)
(*                                                                         *)
(* Seconds are counted back from now: a stamp is its age, and ages beyond  *)
(* what the ring can tell apart are all Old. A row's fields are all        *)
(* counted alike, so a row is one number. TSNow notices a new second late  *)
(* (its goroutine looks ten times a second); a stamp taken from the clock  *)
(* may be a second old when the mutex is taken at last.                    *)
(***************************************************************************)
EXTENDS Integers

CONSTANTS
  Slots,     \* rows of the history (6)
  Sleep,     \* seconds Close's goroutine sleeps, twice (5)
  MaxLate    \* bound: seconds a sleeping goroutine may wake late

ASSUME StatsAssumption ==
  /\ Slots \in Nat /\ Slots > 2
  /\ Sleep \in Nat /\ MaxLate \in Nat
  /\ 2 * MaxLate < Sleep

Old == Slots + 1
Ages == 0 .. Old
Closers == {"failed", "final"}   \* Close after an error, Close at the end

VARIABLES
  status,    \* Connection.status
  listed,    \* the entry is in status_connections
  closers,   \* goroutines of Close: [stage, wait]
  sums,      \* the action's sums: size of answers, bytes sent, bytes skipped
  history,   \* uptime_history: [age of the stamp, number counted]
  slot,      \* the row of the current second: now % 6
  lag,       \* TSNow has not noticed the current second yet
  nilEntry,  \* a goroutine found no entry, and used it
  counted,   \* ghost: what was counted, by age of its second
  torn       \* ghost: ages of seconds uh_get cleared while they were going on

historyVars == <<history, slot, lag, counted, torn>>
entryVars == <<status, listed, closers, nilEntry>>
statsVars == <<historyVars, entryVars, sums>>

(* What the status page shows: what was not sent counts for nothing.       *)
AdjStats == [resp |-> sums.resp - sums.skipped, sent |-> sums.sent - sums.skipped]

(* No sum is less than what is subtracted from it (they are unsigned).     *)
StatsTypeOK ==
  /\ status \in {"-", "O", "Sr", "Ss1", "W", "K", "X"}
  /\ listed \in BOOLEAN
  /\ closers \in [Closers -> [stage : {"none", "shown", "removed", "done"},
                              wait : -MaxLate .. Sleep]]
  /\ sums \in [resp : Nat, sent : Nat, skipped : Nat]
  /\ AdjStats \in [resp : Nat, sent : Nat]
  /\ history \in [0 .. Slots - 1 -> [age : Ages, n : Nat]]
  /\ slot \in 0 .. Slots - 1
  /\ lag \in BOOLEAN
  /\ nilEntry \in BOOLEAN
  /\ counted \in [0 .. Slots - 1 -> Nat]
  /\ torn \subseteq Ages

StatsInit ==
  /\ status = "-"
  /\ listed = FALSE
  /\ closers = [k \in Closers |-> [stage |-> "none", wait |-> 0]]
  /\ sums = [resp |-> 0, sent |-> 0, skipped |-> 0]
  /\ history = [i \in 0 .. Slots - 1 |-> [age |-> Old, n |-> 0]]
  /\ slot = 0
  /\ lag = FALSE
  /\ nilEntry = FALSE
  /\ counted = [a \in 0 .. Slots - 1 |-> 0]
  /\ torn = {}

-----------------------------------------------------------------------------
(* The history                                                             *)

Row(age) == (slot - age) % Slots

(* A bug the properties must notice: rows are added to, never started anew. *)
CountKeepingRow(age) ==
  /\ history' = [history EXCEPT ![Row(age)] = [age |-> age, n |-> @.n + 1]]
  /\ counted' = [counted EXCEPT ![age] = @ + 1]
  /\ UNCHANGED <<slot, lag, torn>>

(* uh_add_unsafe, for a stamp so many seconds old.                         *)
Count(age) ==
  /\ history' = [history EXCEPT ![Row(age)] =
       [age |-> age, n |-> IF @.age = age THEN @.n + 1 ELSE 1]]
  /\ counted' = [counted EXCEPT ![age] = @ + 1]
  /\ UNCHANGED <<slot, lag, torn>>

(* The clock was read before the mutex was taken.                          *)
CountNow == \E late \in {0, 1} : Count(late)

(* Close counts an error in the second TSNow knows.                        *)
CountError == Count(IF lag THEN 1 ELSE 0)

(* uh_get visits the five seconds before TSNow. The row of the oldest one  *)
(* is the row of the current second if TSNow is behind.                    *)
HistoryGet ==
  LET first == IF lag THEN 2 ELSE 1
      visited == first .. first + Slots - 2
  IN /\ history' = [i \in 0 .. Slots - 1 |->
            LET stale == {a \in visited : Row(a) = i /\ history[i].age # a}
            IN IF stale = {} THEN history[i]
               ELSE [age |-> CHOOSE a \in stale : TRUE, n |-> 0]]
     /\ torn' = IF history[slot].age = 0 /\ lag THEN torn \cup {0} ELSE torn
     /\ UNCHANGED <<slot, lag, counted, entryVars, sums>>

-----------------------------------------------------------------------------
(* The entry                                                               *)

MakeConnection ==
  /\ status' = "O"
  /\ listed' = TRUE
  /\ CountNow
  /\ UNCHANGED <<closers, nilEntry, sums>>

State(s) ==
  /\ status' = s
  /\ UNCHANGED <<listed, closers, nilEntry>>

StateReading == State("Sr") /\ UNCHANGED <<historyVars, sums>>
StateServing == State("Ss1") /\ UNCHANGED <<historyVars, sums>>

StateWriting(response_size) ==
  /\ State("W")
  /\ sums' = [sums EXCEPT !.resp = @ + response_size]
  /\ UNCHANGED historyVars

StateKeepalive(response_size, sent, skip) ==
  /\ State("K")
  /\ sums' = [sums EXCEPT !.sent = @ + sent,
                          !.skipped = @ + IF skip THEN response_size ELSE 0]
  /\ CountNow

(* Close: an error is counted at once, the rest is left to a goroutine.    *)
Close(k) ==
  /\ closers' = [closers EXCEPT ![k] = [stage |-> "shown", wait |-> Sleep]]
  /\ IF k = "failed" THEN CountError ELSE UNCHANGED historyVars
  /\ UNCHANGED <<status, listed, nilEntry, sums>>

(* A bug the properties must notice: the entry goes after the first sleep. *)
CloserShowsAndRemoves(k) ==
  /\ closers[k].stage = "shown" /\ closers[k].wait <= 0
  /\ status' = "X"
  /\ listed' = FALSE
  /\ nilEntry' = (nilEntry \/ ~listed)
  /\ closers' = [closers EXCEPT ![k] = [stage |-> "removed", wait |-> Sleep]]
  /\ UNCHANGED <<historyVars, sums>>

(* After the first sleep the goroutine marks the entry closed; it takes    *)
(* for granted that there is one.                                          *)
CloserShows(k) ==
  /\ closers[k].stage = "shown" /\ closers[k].wait <= 0
  /\ status' = "X"
  /\ nilEntry' = (nilEntry \/ ~listed)
  /\ closers' = [closers EXCEPT ![k] = [stage |-> "removed", wait |-> Sleep]]
  /\ UNCHANGED <<listed, historyVars, sums>>

(* A bug the properties must notice: only failed connections are removed.  *)
CloserForgets(k) ==
  /\ closers[k].stage = "removed" /\ closers[k].wait <= 0
  /\ listed' = (listed /\ k = "final")
  /\ closers' = [closers EXCEPT ![k] = [stage |-> "done", wait |-> 0]]
  /\ UNCHANGED <<status, nilEntry, historyVars, sums>>

(* After the second the entry is removed.                                  *)
CloserRemoves(k) ==
  /\ closers[k].stage = "removed" /\ closers[k].wait <= 0
  /\ listed' = FALSE
  /\ closers' = [closers EXCEPT ![k] = [stage |-> "done", wait |-> 0]]
  /\ UNCHANGED <<status, nilEntry, historyVars, sums>>

-----------------------------------------------------------------------------
(* Time                                                                    *)

Older(a) == IF a = Old THEN Old ELSE a + 1
Sleeping(k) == closers[k].stage \in {"shown", "removed"}

(* A second begins. Goroutines that sleep are at most MaxLate behind.      *)
Second ==
  /\ ~lag
  /\ \A k \in Closers : Sleeping(k) => closers[k].wait > -MaxLate
  /\ lag' = TRUE
  /\ slot' = (slot + 1) % Slots
  /\ history' = [i \in DOMAIN history |-> [history[i] EXCEPT !.age = Older(@)]]
  /\ counted' = [a \in 0 .. Slots - 1 |-> IF a = 0 THEN 0 ELSE counted[a - 1]]
  /\ torn' = {Older(a) : a \in torn} \ {Old}
  /\ closers' = [k \in Closers |->
       IF Sleeping(k) THEN [closers[k] EXCEPT !.wait = @ - 1] ELSE closers[k]]
  /\ UNCHANGED <<status, listed, nilEntry, sums>>

(* The goroutine behind TSNow.                                             *)
NoticeSecond ==
  /\ lag
  /\ lag' = FALSE
  /\ UNCHANGED <<history, slot, counted, torn, entryVars, sums>>

-----------------------------------------------------------------------------
(* Properties                                                              *)

(* What the history tells of a complete second is what was counted in it,  *)
(* though rows are used again every six seconds and stamps come late       *)
(* (stats_history.go:28-69); a second uh_get cleared while it was going on *)
(* (stats_history.go:85-101) may tell less, never more.                    *)
HistoryExact ==
  \A a \in 1 .. Slots - 1 :
    LET row == history[Row(a)]
        told == IF row.age = a THEN row.n ELSE 0
    IN told <= counted[a] /\ (a \notin torn => told = counted[a])
=============================================================================
