----------------------------- MODULE PingWindow -----------------------------
(***************************************************************************)
(* What a ping history promises, independently of how it is stored: it     *)
(* remembers the last Size ping results, oldest first, and nothing else.   *)
(* PingHistory (the ring buffer of controller.go) implements this module.  *)
(***************************************************************************)
EXTENDS Naturals, Sequences, SequencesExt

CONSTANTS Size,       \* how many results are remembered (historySize, 250)
          Results     \* the results a ping can have

VARIABLE window       \* the remembered results, oldest first

WindowTypeOK == window \in BoundedSeq(Results, Size)

WindowInit == window = <<>>

(* A new result enters at the end; when the window is full the oldest     *)
(* result leaves.                                                          *)
Record(r) ==
    window' = Append(IF Len(window) = Size THEN Tail(window) ELSE window, r)

WindowNext == \E r \in Results : Record(r)

WindowSpec == WindowInit /\ [][WindowNext]_window

=============================================================================
