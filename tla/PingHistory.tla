---------------------------- MODULE PingHistory ----------------------------
(***************************************************************************)
(* The ring buffer of ping results behind every controller                 *)
(* (internal/instances/controller.go, type PingHistory): a fixed array,    *)
(* a write position, and running totals that AddResult adjusts by taking   *)
(* out the result it overwrites and adding the new one.  The totals are    *)
(* what GetStats reports, so they have to stay the totals of what is in    *)
(* the array.                                                              *)
(*                                                                         *)
(* A slot that was never written has the zero Timestamp in the code and is *)
(* Empty here.  Both methods hold ph.mu throughout, so each is one step.   *)
(***************************************************************************)
EXTENDS Integers, FiniteSets, FiniteSetsExt, Sequences

CONSTANTS Size,        \* len(ph.history)
          Latencies,   \* the latencies a successful ping can have
          ConnTypes,   \* "direct", "relayed via ..."
          NoConn       \* the empty connection type

ASSUME SizeAssumption == Size \in Nat \ {0}
ASSUME LatencyAssumption == Latencies \subseteq Nat
ASSUME ConnAssumption == NoConn # "never written"

VARIABLES history,              \* the array of slots
          position,             \* the slot the next result goes to
          successCount,         \* running totals over the successful slots
          totalLatency,
          totalLatencySquared,
          everFailed            \* lastFailure is not the zero time

vars == <<history, position, successCount, totalLatency,
          totalLatencySquared, everFailed>>

Slots == 0 .. Size - 1

Failure == [success |-> FALSE, latency |-> 0, conn |-> NoConn]
Successful == [success : {TRUE}, latency : Latencies, conn : ConnTypes]
Results == Successful \cup {Failure}

(* A slot whose Timestamp is zero.  Its Success field is false, as in      *)
(* the zero PingResult.                                                    *)
Empty == [success |-> FALSE, latency |-> 0, conn |-> "never written"]

TypeOK ==
    /\ history \in [Slots -> Results \cup {Empty}]
    /\ position \in Slots
    /\ successCount \in Int
    /\ totalLatency \in Int
    /\ totalLatencySquared \in Int
    /\ everFailed \in BOOLEAN

-----------------------------------------------------------------------------

Init ==
    /\ history = [i \in Slots |-> Empty]
    /\ position = 0
    /\ successCount = 0
    /\ totalLatency = 0
    /\ totalLatencySquared = 0
    /\ everFailed = FALSE

(* What a slot contributes to the running totals.                          *)
Count(slot) == IF slot.success THEN 1 ELSE 0
Latency(slot) == IF slot.success THEN slot.latency ELSE 0
LatencySquared(slot) == IF slot.success THEN slot.latency * slot.latency ELSE 0

(* The write position moves round the array.                               *)
Advance_SticksAtEnd(p) == IF p + 1 < Size THEN p + 1 ELSE p    \* mutant
Advance_RunsOut(p) == p + 1                                    \* mutant
Advance(p) == (p + 1) % Size

(* The slot a new result overwrites; its contribution leaves the totals.   *)
Evicted_Following == history[(position + 1) % Size]            \* mutant
Evicted == history[position]

AddResult(r) ==
    /\ history' = [history EXCEPT ![position] = r]
    /\ successCount' = successCount - Count(Evicted) + Count(r)
    /\ totalLatency' = totalLatency - Latency(Evicted) + Latency(r)
    /\ totalLatencySquared' =
          totalLatencySquared - LatencySquared(Evicted) + LatencySquared(r)
    /\ everFailed' = (everFailed \/ ~r.success)
    /\ position' = Advance(position)

Next == \E r \in Results : AddResult(r)

Spec == Init /\ [][Next]_vars

-----------------------------------------------------------------------------
(* GetStats.  The floating-point divisions and the square root are left    *)
(* out: ScaledVariance is the code's variance times successCount squared.  *)

Written == {i \in Slots : history[i] # Empty}

Total == Cardinality(Written)

AvgLatency == IF successCount > 0 THEN totalLatency \div successCount ELSE 0

ScaledVariance ==
    successCount * totalLatencySquared - totalLatency * totalLatency

(* The loop that looks for a connection type: i runs from Size - 1 down to *)
(* 0, the slot looked at is position - 1 - i round the array, and the      *)
(* first successful slot ends the search.                                  *)
LookedAt_FromPosition(i) == history[(position - i + Size) % Size] \* mutant
LookedAt(i) == history[(position - 1 - i + Size) % Size]

ConnectionType ==
    LET Hits == {i \in Slots : LookedAt(i).success}
    IN  IF Hits = {} THEN NoConn ELSE LookedAt(Max(Hits)).conn

-----------------------------------------------------------------------------
(* Properties *)

(* The array from the oldest result to the newest: until the write         *)
(* position has gone round once, the slots before it; from then on all of  *)
(* them, starting with the one it is at.                                   *)
Chronological ==
    IF history[position] = Empty
    THEN [k \in 1 .. position |-> history[k - 1]]
    ELSE [k \in 1 .. Size |-> history[(position + k - 1) % Size]]

(* successCount, which AddResult only ever adjusts by one, is the number   *)
(* of successful slots now in the array, however often it has wrapped.     *)
SuccessSlots == {i \in Slots : history[i].success}
SuccessCountMatches == successCount = Cardinality(SuccessSlots)

(* The latency totals, maintained by adding the new result and taking out  *)
(* the overwritten one, are the totals of the slots now in the array.      *)
LatencyTotalsMatch ==
    /\ totalLatency = SumFunction([i \in Slots |-> Latency(history[i])])
    /\ totalLatencySquared =
          SumFunction([i \in Slots |-> LatencySquared(history[i])])

(* None of the running totals drifts from what the array holds, however    *)
(* often it has wrapped (AddResult, controller.go:52-84).                  *)
TotalsMatch == SuccessCountMatches /\ LatencyTotalsMatch

(* What GetStats divides and takes a root of is in range: the success rate *)
(* is at most one, the average latency is between the smallest and the     *)
(* largest latency remembered, and the variance is never negative and is   *)
(* zero when all remembered latencies agree.                               *)
StatsInRange ==
    LET L == {history[i].latency : i \in SuccessSlots}
    IN  /\ successCount <= Total
        /\ L # {} => Min(L) <= AvgLatency /\ AvgLatency <= Max(L)
        /\ ScaledVariance >= 0
        /\ Cardinality(L) = 1 => ScaledVariance = 0

(* The ring buffer implements the window of the last Size results.         *)
Window == INSTANCE PingWindow WITH window <- Chronological
ImplementsWindow == Window!WindowSpec

(* The connection type reported is the one of the oldest successful ping   *)
(* remembered, wherever the write position is: the loop of GetStats meets  *)
(* the slots in the order they were written.  (Its comment speaks of the   *)
(* most recent one, controller.go:122.)                                    *)
ConnectionOfOldest ==
    LET Good == {k \in DOMAIN Chronological : Chronological[k].success}
    IN  ConnectionType =
          IF Good = {} THEN NoConn ELSE Chronological[Min(Good)].conn

=============================================================================
