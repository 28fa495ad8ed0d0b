----------------------------- MODULE ByteStream -----------------------------
(***************************************************************************)
(* What one direction of the channel promises what is above it: bytes      *)
(* arrive as they were written, in their order, and only from a peer that  *)
(* is who it should be; and an end that reads as clean is either the whole *)
(* of what was written, or a peer of which nothing was ever heard.         *)
(***************************************************************************)
EXTENDS Naturals, Sequences

CONSTANT Bytes

VARIABLES
    written,   \* what the writer was told it had written
    received,  \* what the reader was given
    shut,      \* whether the writer closed its end
    outcome,   \* how the reader's end ended: "none", "end", "fault" or "refused"
    genuine    \* whether the writer is who the reader takes it for

Init ==
    /\ written = << >> /\ received = << >>
    /\ shut = FALSE /\ outcome = "none"
    /\ genuine \in BOOLEAN

Write ==
    /\ ~shut
    /\ \E b \in Bytes : written' = Append(written, b)
    /\ UNCHANGED <<received, shut, outcome, genuine>>

Shut == ~shut /\ shut' = TRUE /\ UNCHANGED <<written, received, outcome, genuine>>

Receive ==
    /\ outcome = "none" /\ genuine
    /\ \E n \in 1..Len(written) :
         /\ n > Len(received)
         /\ received' = SubSeq(written, 1, n)
    /\ UNCHANGED <<written, shut, outcome, genuine>>

End ==
    /\ outcome = "none"
    /\ \/ outcome' = "end" /\ (received = << >> \/ (shut /\ received = written))
       \/ outcome' \in {"fault", "refused"}
    /\ UNCHANGED <<written, received, shut, genuine>>

Next == Write \/ Shut \/ Receive \/ End
Spec == Init /\ [][Next]_<<written, received, shut, outcome, genuine>>
=============================================================================
