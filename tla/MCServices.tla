----------------------------- MODULE MCServices -----------------------------
(***************************************************************************)
(* What the daemon does above its channels and beside its network, each    *)
(* part on its own: going away, the default feed, Tailscale, Tamanu, and   *)
(* the backup supply, whose watch over the battery and whose curves are    *)
(* two parts, and what its curves are refined by a part of its own.        *)
(***************************************************************************)
EXTENDS PowerControl, SessionFeed, TailscaleActs, TamanuActs, BatteryCurve, BackupSupply

VARIABLE part   \* the part this behaviour is of

MCSessionOf == [s \in {"a", "b"} |-> 1]

(* Curves a device holds, about the floor and with their top to either     *)
(* side of where a charge ends; runs that dip and rise again, and charges. *)
Cv(points, learnt) == [points |-> points, learnt |-> learnt]
MCOld == {Cv(<<<<6, 0>>, <<8, f>>, <<11, c>>, <<t, 60>>>>, l) : f \in {0, 6}, c \in {20, 40}, t \in {16, 17}, l \in {0, 3}}
MCCharging == {NoCurve} \cup {Cv(<<<<9, 10>>, <<12, 30>>, <<t, 55>>>>, l) : t \in {15, 18}, l \in {1, 3}}
Lesson(of, old, isFull, from, samples) == [of |-> of, old |-> old, full |-> isFull, from |-> from, samples |-> samples]
MCLessons ==
    {Lesson("run", old, isFull, 0, <<a, b, c, 7>>) :
        old \in MCOld, isFull \in BOOLEAN, a \in {7, 10, 16, 18}, b \in {7, 10, 16, 18}, c \in {7, 10, 16}}
    \cup {Lesson("charge", old, FALSE, from, <<a, b, c>>) :
        old \in MCCharging, from \in {0, 30, 59}, a \in {8, 11, 14, 15, 19}, b \in {8, 11, 14, 15, 19}, c \in {8, 11, 14, 15, 19}}
NoLesson == Lesson("none", NoCurve, FALSE, 0, <<>>)

vars == <<part, powerVars, feedVars, tailscaleVars, tamanuVars, lessonVars, supplyVars>>

Init ==
    /\ part \in {"power", "feed", "tailscale", "tamanu", "curve", "watch", "change"}
    /\ IF part = "curve" THEN CurveInit ELSE taught = NoLesson /\ volts = <<>> /\ plotted = {} /\ refined = {}
    /\ PowerInit /\ FeedInit /\ TailscaleInit /\ TamanuInit /\ SupplyInit
    /\ part # "tailscale" => ts.state = "running"
    /\ part # "tamanu" => up = {}

(* The battery is watched through any looks, and its curves changed beside *)
(* the few that learn one.                                                 *)
Learns == {[answer |-> "gauge", volts |-> 1, ext |-> "gone"], [answer |-> "gauge", volts |-> 10, ext |-> "there"]}
Changes ==
    \/ CurveNext
    \/ now < 4 /\ \E l \in Learns, how \in Outcomes, known, long \in BOOLEAN : Observe(l, how, known, long)
    \/ \E taken \in BOOLEAN, how \in Outcomes : PowersOff(taken, how)

Next ==
    /\ UNCHANGED part
    /\ \/ part = "power" /\ PowerNext /\ UNCHANGED <<feedVars, tailscaleVars, tamanuVars, lessonVars, supplyVars>>
       \/ part = "feed" /\ FeedNext /\ UNCHANGED <<powerVars, tailscaleVars, tamanuVars, lessonVars, supplyVars>>
       \/ part = "tailscale" /\ TailscaleNext /\ UNCHANGED <<powerVars, feedVars, tamanuVars, lessonVars, supplyVars>>
       \/ part = "tamanu" /\ TamanuNext /\ UNCHANGED <<powerVars, feedVars, tailscaleVars, lessonVars, supplyVars>>
       \/ part = "curve" /\ LessonsNext /\ UNCHANGED <<powerVars, feedVars, tailscaleVars, tamanuVars, supplyVars>>
       \/ /\ UNCHANGED <<powerVars, feedVars, tailscaleVars, tamanuVars, lessonVars>>
          /\ \/ part = "watch" /\ WatchNext /\ UNCHANGED changes
             \/ part = "change" /\ Changes

Spec == Init /\ [][Next]_vars
-----------------------------------------------------------------------------
(* Tailscale's acts and Tamanu's, whichever of two streams asked: one at a *)
(* time, from its acceptance to its end, and what is said once it has      *)
(* ended was seen after it did (tailscale.rs, tamanu/state.rs).            *)
ActsRunToTheirEnd == OneActToItsEnd /\ ActsAreSeenThrough
=============================================================================
