------------------------------- MODULE Pacing -------------------------------
(***************************************************************************)
(* The device's send rate: crates/bliti/src/device/pacing.rs, and the      *)
(* pumps of sessions.rs that share one Pacer.                              *)
(*                                                                         *)
(* Time is counted in the allowance of one byte. A pump takes a chunk,     *)
(* asks the pacer how long to hold it back, and sends it at that time or   *)
(* later: sleeping and sending both take what they take.                   *)
(***************************************************************************)
EXTENDS Naturals, FiniteSets

CONSTANTS
    Pumps,    \* one to a session
    MaxLen,   \* the most one notification carries
    Slack,    \* how far ahead of the schedule a send may run
    Window,   \* the time over which the rate is looked at
    MaxClock  \* bound: the time looked at

ASSUME PacingAssumption == {MaxLen, Slack, Window, MaxClock} \subseteq Nat \ {0} /\ IsFiniteSet(Pumps)

VARIABLES
    clock,
    nextSend,  \* Pacer::next_send
    holds,     \* the chunk each pump holds back: its length, and when it may go; 0 bytes where none
    since      \* history: the bytes sent over the last t times, for each t up to Window

pacingVars == <<clock, nextSend, holds, since>>

PacingInit ==
    /\ clock = 0 /\ nextSend = 0
    /\ holds = [p \in Pumps |-> [len |-> 0, due |-> 0]]
    /\ since = [t \in 1..Window |-> 0]

(* Mutant of Resumes: a quiet stretch is credit towards a later burst.     *)
ResumesWithCredit == nextSend

(* A quiet stretch is not credit towards a later burst.                    *)
Resumes == IF nextSend < clock THEN clock ELSE nextSend

(* wait_for: short of the slack, a send is not worth waiting for.          *)
Due == IF Resumes >= clock + Slack THEN Resumes ELSE clock

Takes(p, len) ==
    /\ holds[p].len = 0
    /\ holds' = [holds EXCEPT ![p] = [len |-> len, due |-> Due]]
    /\ nextSend' = Resumes + len
    /\ UNCHANGED <<clock, since>>

Sends(p) ==
    /\ holds[p].len > 0 /\ clock >= holds[p].due
    /\ since' = [t \in 1..Window |-> since[t] + holds[p].len]
    /\ holds' = [holds EXCEPT ![p] = [len |-> 0, due |-> 0]]
    /\ UNCHANGED <<clock, nextSend>>

Ticks ==
    /\ clock < MaxClock
    /\ clock' = clock + 1
    /\ since' = [t \in 1..Window |-> IF t = 1 THEN 0 ELSE since[t - 1]]
    /\ UNCHANGED <<nextSend, holds>>

PacingNext ==
    \/ \E p \in Pumps : Sends(p) \/ \E len \in 1..MaxLen : Takes(p, len)
    \/ Ticks

PacingSpec == PacingInit /\ [][PacingNext]_pacingVars

(* Over any window, all the sessions together put no more on the air than  *)
(* its allowance, the slack, and what each pump and the schedule may have  *)
(* had in hand as it began (pacing.rs, wait_for).                          *)
WithinRate ==
    \A t \in 1..Window : since[t] <= t + Slack + (Cardinality(Pumps) + 1) * MaxLen
=============================================================================
