----------------------------- MODULE ShareLife -----------------------------
(***************************************************************************)
(* What the way of a share from an FPGA to the pool promises: shares are   *)
(* numbered as they are found; the oldest pending one is sent once or      *)
(* discarded.  Until the way ends no other share is lost; with its end all *)
(* pending ones are, and so is each one found later.  The specification    *)
(* that ShareFlow is shown to implement.                                   *)
(***************************************************************************)
EXTENDS Naturals, Sequences

VARIABLES pending,   \* numbers of the shares under way
          passed,    \* numbers of the shares sent, in the order of sending
          dropped,   \* numbers of the shares discarded or lost
          last,      \* number of the last share found
          over       \* whether the way has ended

lifevars == <<pending, passed, dropped, last, over>>

LifeInit ==
    /\ pending = {} /\ passed = <<>>
    /\ dropped = {} /\ last = 0 /\ over = FALSE

Oldest(s) == s \in pending /\ \A r \in pending : s <= r

Find ==
    /\ last' = last + 1
    /\ pending' = IF over THEN pending ELSE pending \cup {last + 1}
    /\ dropped' = IF over THEN dropped \cup {last + 1} ELSE dropped
    /\ UNCHANGED <<passed, over>>

Pass(s) ==
    /\ Oldest(s)
    /\ pending' = pending \ {s}
    /\ passed' = Append(passed, s)
    /\ UNCHANGED <<dropped, last, over>>

Drop(s) ==
    /\ Oldest(s)
    /\ pending' = pending \ {s}
    /\ dropped' = dropped \cup {s}
    /\ UNCHANGED <<passed, last, over>>

End ==
    /\ over' = TRUE
    /\ pending' = {}
    /\ dropped' = dropped \cup pending
    /\ UNCHANGED <<passed, last>>

LifeNext == Find \/ (\E s \in pending : Pass(s) \/ Drop(s)) \/ End

LifeSpec == LifeInit /\ [][LifeNext]_lifevars
=============================================================================
