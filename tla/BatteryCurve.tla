---------------------------- MODULE BatteryCurve ----------------------------
(***************************************************************************)
(* What a device learns of its cell: crates/bliti/src/facts/power/curve.rs *)
(* and curve/parse.rs, what a curve is, and supply/learn.rs, how a run on  *)
(* battery and a charge refine one.                                        *)
(*                                                                         *)
(* Volts, charge and time are whole numbers of small units, and a quotient *)
(* is rounded down, as the code rounds to four places. The times between   *)
(* samples are alike. A curve's duration and error are left out.           *)
(***************************************************************************)
EXTENDS Integers, Sequences, FiniteSets, FiniteSetsExt

CONSTANTS
    Full,       \* a full cell's charge
    FloorV,     \* FLOOR_VOLTS
    StepV,      \* STEP_VOLTS: between one point of a refined curve and the next
    CrowdedV,   \* CROWDED_VOLTS: points closer than this are one
    NarrowV,    \* NARROWEST_VOLTS
    NarrowC,    \* NARROWEST_CHARGE
    Shortest,   \* SHORTEST, in the units of time
    Reach,      \* MEDIAN_REACH
    Every,      \* the time from one sample to the next
    MaxLearnt,  \* how many runs or charges a curve is refined by at the most
    Lessons     \* the curves and the runs and charges recorded that are tried

VARIABLES
    taught,     \* the lesson tried: a curve, and a run or a charge recorded
    volts,      \* the volts recorded, smoothed once it has ended
    plotted,      \* the charge it shows at each of the new curve's points
    refined     \* the curve that makes, if it teaches one

lessonVars == <<taught, volts, plotted, refined>>

Clamp(c) == Max({0, Min({Full, c})})

(***************************************************************************)
(* Curves: curve.rs and parse.rs. A point is a pair of volts and charge.   *)
(***************************************************************************)

V(curve, i) == curve.points[i][1]
C(curve, i) == curve.points[i][2]
First(curve) == V(curve, 1)
Last(curve) == V(curve, Len(curve.points))

Between(c0, c1, v0, v1, v) == c0 + ((c1 - c0) * (v - v0)) \div (v1 - v0)
ChargeAt(curve, v) ==
    CASE v <= First(curve) -> C(curve, 1)
      [] v >= Last(curve) -> C(curve, Len(curve.points))
      [] OTHER -> LET i == CHOOSE i \in 1..Len(curve.points) - 1 : V(curve, i) <= v /\ v < V(curve, i + 1)
                  IN Between(C(curve, i), C(curve, i + 1), V(curve, i), V(curve, i + 1), v)
Covers(curve, v) == First(curve) <= v /\ v <= Last(curve)

Validates(curve, direction) ==
    /\ Len(curve.points) >= 2
    /\ \A i \in 1..Len(curve.points) : C(curve, i) \in 0..Full
    /\ \A i \in 2..Len(curve.points) : V(curve, i - 1) < V(curve, i) /\ C(curve, i - 1) <= C(curve, i)
    /\ direction = "discharging" => /\ C(curve, 1) = 0 /\ First(curve) <= FloorV
                                    /\ C(curve, Len(curve.points)) = Full

(***************************************************************************)
(* What was recorded: learn.rs, smoothed and crossed.                      *)
(***************************************************************************)

(* The median of the samples about each, held from rising on a run and     *)
(* from falling on a charge.                                               *)
Window(samples, i) == Max({1, i - Reach})..Min({Len(samples), i + Reach})
Median(samples, W) ==
    CHOOSE v \in {samples[j] : j \in W} :
        /\ Cardinality({j \in W : samples[j] < v}) <= Cardinality(W) \div 2
        /\ Cardinality({j \in W : samples[j] <= v}) > Cardinality(W) \div 2
Medians(samples) == [i \in 1..Len(samples) |-> Median(samples, Window(samples, i))]
Held(falling, medians, i) ==
    CHOOSE v \in {medians[j] : j \in 1..i} :
        \A j \in 1..i : IF falling THEN v <= medians[j] ELSE v >= medians[j]
HeldAll(falling, medians) == [i \in 1..Len(medians) |-> Held(falling, medians, i)]
Smoothed(samples, falling) == HeldAll(falling, Medians(samples))

(* When the volts were first reached, and -1 where they never were.        *)
Time(i) == (i - 1) * Every
Reached(smooth, falling, v) == {i \in 1..Len(smooth) : IF falling THEN smooth[i] <= v ELSE smooth[i] >= v}
CrossedAt(smooth, i, v) ==
    CASE i = 1 -> Time(1)
      [] i > 1 /\ smooth[i - 1] > smooth[i] -> Time(i - 1) + (Every * (smooth[i - 1] - v)) \div (smooth[i - 1] - smooth[i])
      [] OTHER -> Time(i - 1) + (Every * (v - smooth[i - 1])) \div (smooth[i] - smooth[i - 1])
Crossed(smooth, falling, v) ==
    IF Reached(smooth, falling, v) = {} THEN -1 ELSE CrossedAt(smooth, Min(Reached(smooth, falling, v)), v)

(***************************************************************************)
(* The refined curve's points: grid, blend and monotone.                   *)
(***************************************************************************)

Grid(low, high) ==
    {low}
    \cup {v \in low + CrowdedV + 1..high - CrowdedV - 1 : v % StepV = 0}
    \cup IF high > low + CrowdedV THEN {high} ELSE {}

(* A new run weighs as much as all before it, and never less than RECENT.  *)
Blend(old, new, learnt) ==
    CASE learnt = 0 -> new [] learnt = 1 -> (old + new) \div 2 [] OTHER -> (3 * old + 2 * new) \div 5

Ordered(charge) ==
    LET at == DOMAIN charge IN
    [i \in 1..Cardinality(at) |->
        LET v == CHOOSE v \in at : Cardinality({u \in at : u < v}) = i - 1 IN <<v, charge[v]>>]
NotMonotone(points) == [i \in 1..Len(points) |-> <<points[i][1], Clamp(points[i][2])>>]
Monotone(points) == [i \in 1..Len(points) |-> <<points[i][1], Max({Clamp(points[j][2]) : j \in 1..i})>>]

(***************************************************************************)
(* From a run: from_run.                                                   *)
(***************************************************************************)

FloorC(curve) == ChargeAt(curve, FloorV)
Began(old, fromFull, smooth) == IF fromFull THEN Full ELSE ChargeAt(old, smooth[1])
RunTeaches(old, fromFull, smooth) ==
    /\ Len(smooth) > 0
    /\ Crossed(smooth, TRUE, FloorV) # -1
    /\ Crossed(smooth, TRUE, FloorV) - Time(1) >= Shortest
    /\ smooth[1] - FloorV >= NarrowV
    /\ Began(old, fromFull, smooth) - FloorC(old) >= NarrowC

(* The charge the run shows at some volts, its floor being the curve's.    *)
ShownAt(from, to, span, t) == from + ((to - from) * t) \div span
RunShows(old, fromFull, smooth, v) ==
    IF Crossed(smooth, TRUE, v) = -1 THEN Began(old, fromFull, smooth)
    ELSE ShownAt(FloorC(old), Began(old, fromFull, smooth), Crossed(smooth, TRUE, FloorV),
                 Crossed(smooth, TRUE, FloorV) - Crossed(smooth, TRUE, v))

RefinedTo(old, fromFull, smooth) == IF fromFull THEN Max({Last(old), smooth[1]}) ELSE smooth[1]
(* A point of the old curve above what the run refined, and not crowding   *)
(* it.                                                                     *)
Above(v, to) == v > to + CrowdedV
RunKeeps(old, to) == {v \in {V(old, i) : i \in 1..Len(old.points)} : v < FloorV \/ Above(v, to)}
PointsOfRun(old, fromFull, smooth) ==
    LET to == RefinedTo(old, fromFull, smooth)
        grid == Grid(FloorV, to)
    IN  [v \in RunKeeps(old, to) \cup grid |->
            IF v \in grid THEN Blend(ChargeAt(old, v), RunShows(old, fromFull, smooth, v), old.learnt)
            ELSE ChargeAt(old, v)]

(***************************************************************************)
(* From a charge: from_charge, with an old curve and without.              *)
(***************************************************************************)

ChargeTeaches(from, smooth) ==
    /\ Len(smooth) > 0
    /\ Time(Len(smooth)) >= Shortest
    /\ smooth[Len(smooth)] - smooth[1] >= NarrowV
    /\ Full - from >= NarrowC
ChargeShows(from, smooth, v) == ShownAt(from, Full, Time(Len(smooth)), Crossed(smooth, FALSE, v))

NoCurve == [points |-> <<>>, learnt |-> 0]
FirstCharge(from, smooth) == [v \in Grid(smooth[1], smooth[Len(smooth)]) |-> ChargeShows(from, smooth, v)]
ChargeCovers(smooth, v) == smooth[1] <= v /\ v <= smooth[Len(smooth)]
NextCharge(old, from, smooth) ==
    [v \in {v \in Grid(Min({First(old), smooth[1]}), Max({Last(old), smooth[Len(smooth)]})) :
                Covers(old, v) \/ ChargeCovers(smooth, v)} |->
        CASE ~Covers(old, v) -> ChargeShows(from, smooth, v)
          [] ~ChargeCovers(smooth, v) -> ChargeAt(old, v)
          [] OTHER -> Blend(ChargeAt(old, v), ChargeShows(from, smooth, v), old.learnt)]
PointsOfCharge(old, from, smooth) == IF old = NoCurve THEN FirstCharge(from, smooth) ELSE NextCharge(old, from, smooth)

CurveInit == taught \in Lessons /\ volts = <<>> /\ plotted = {} /\ refined = {}

(* A run or a charge ends, and what was recorded of it is smoothed; where  *)
(* it teaches anything, the new curve's points are plotted, and held   *)
(* from falling.                                                           *)
Smooths ==
    /\ volts = <<>>
    /\ volts' = Smoothed(taught.samples, taught.of = "run")
    /\ UNCHANGED <<taught, plotted, refined>>
DrawsRun ==
    /\ volts # <<>> /\ plotted = {}
    /\ taught.of = "run" /\ RunTeaches(taught.old, taught.full, volts)
    /\ plotted' = {PointsOfRun(taught.old, taught.full, volts)}
    /\ UNCHANGED <<taught, volts, refined>>
DrawsCharge ==
    /\ volts # <<>> /\ plotted = {}
    /\ taught.of = "charge" /\ ChargeTeaches(taught.from, volts)
    /\ plotted' = {PointsOfCharge(taught.old, taught.from, volts)}
    /\ UNCHANGED <<taught, volts, refined>>
Refines ==
    \E charge \in plotted :
        /\ refined = {}
        /\ refined' = {[points |-> Monotone(Ordered(charge)), learnt |-> taught.old.learnt + 1]}
        /\ UNCHANGED <<taught, volts, plotted>>

(* What it made, where the device takes it, the next run or charge of its  *)
(* kind refines.                                                           *)
Direction == IF taught.of = "run" THEN "discharging" ELSE "charging"
RecordsAnother ==
    \E curve \in refined :
        /\ curve.learnt < MaxLearnt /\ Validates(curve, Direction)
        /\ taught' = [taught EXCEPT !.old = curve] /\ volts' = <<>> /\ plotted' = {} /\ refined' = {}

LessonsNext == Smooths \/ DrawsRun \/ DrawsCharge \/ Refines \/ RecordsAnother

(***************************************************************************)
(* Properties.                                                             *)
(***************************************************************************)

(* A run that began just below the top of the curve, on a cell that had    *)
(* not finished charging.                                                  *)
NearTop == ~taught.full /\ volts[1] < Last(taught.old) /\ ~Above(Last(taught.old), volts[1])

(* charge.md:46. Every run that ends in a shutdown refines the curve: what *)
(* it teaches is a curve the device takes.                                 *)
RunIsLearnt == \A curve \in refined : taught.of = "run" => Validates(curve, Direction)

(* learn.rs:105. What a run or a charge teaches is a curve the device      *)
(* takes, but for a run that began just below the top of the curve; a run  *)
(* leaves the curve as it was above where it began and below the floor.    *)
KeepsAbove(old, new, to) ==
    \A v \in {V(old, i) : i \in 1..Len(old.points)} :
        v < FloorV \/ Above(v, to) => ChargeAt(new, v) = ChargeAt(old, v)
LearntIsValid ==
    \A curve \in refined :
        IF taught.of = "charge" THEN Validates(curve, "charging")
        ELSE ~NearTop => /\ Validates(curve, "discharging")
                         /\ KeepsAbove(taught.old, curve, RefinedTo(taught.old, taught.full, volts))
=============================================================================
