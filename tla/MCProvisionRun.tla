--------------------------- MODULE MCProvisionRun ---------------------------
(* Instances of ProvisionRun for TLC: two steps, the first undoing the     *)
(* second; the second asks ahead for the answer it needs, and the first    *)
(* may hold a notice open and ask for the same answer.                     *)
EXTENDS ProvisionRun, TLC

TwoUndoneBy == <<{}, {1}>>
TwoAsksAfter == <<0, 1>>
TwoAheadKeys == <<{}, {"key"}>>
TwoUses == <<{}, {"key"}>>
TwoNotices == <<{"user"}, {}>>
TwoChanging == {1, 2}

FrontEndSymmetry == Permutations(FrontEnds)

(* Bound: a behaviour meets a failing medium or a front end attaching, and *)
(* not both.                                                               *)
FaultOrAttach == faults + attaches <= 1
=============================================================================
