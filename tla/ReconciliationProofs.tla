------------------------- MODULE ReconciliationProofs -------------------------
(***************************************************************************)
(* The days the timer's sweep covers, and what the snapshots of any sweep  *)
(* tell, for any orders, calendar, connections, pages and depth of the     *)
(* sweep, whatever operators start and whatever throws.                    *)
(***************************************************************************)
EXTENDS Reconciliation, FiniteSetTheorems, TLAPS

Timer == sweep["timer"]

UnderWay == Timer.step # "idle"

Bounds == [{"sweeps", "failures", "amendments"} -> Nat]

IsSweep(at) ==
    DOMAIN at = {"step", "began", "daysBack", "connection", "back", "shopify", "ns"}

SweepTypeOK ==
    /\ today \in Nat \ {0} /\ fired \in Nat /\ fired <= today /\ today <= fired + 1
    /\ left \in Bounds /\ left.failures <= SweepFailures
    /\ snapshots \in [1..Connections -> [Days -> Verdicts]]
    /\ sweep = [s \in Sweepers |-> sweep[s]]
    /\ IsSweep(Timer)

(* The timer does not fire over a sweep of its own, which therefore began  *)
(* on the day it fired last, and is inside its window.                     *)
TimerInv ==
    /\ ~UnderWay => Timer = Idle
    /\ UnderWay => /\ Timer.step \in {"aggregate", "list", "upsert"}
                   /\ Timer.began = fired /\ Timer.daysBack = DaysBack
                   /\ Timer.connection \in 1..Connections
                   /\ Timer.back \in 1..DaysBack /\ Timer.back < fired

Failed == SweepFailures - left.failures

(* How many sweeps have had the day in their window.                       *)
Chances(d) == IF fired - d < DaysBack THEN fired - d ELSE DaysBack

(* The sweep under way has yet to write the snapshot of the pair.          *)
Ahead(c, d) ==
    /\ UnderWay
    /\ fired - d <= DaysBack
    /\ Timer.connection < c \/ (Timer.connection = c /\ Timer.back <= fired - d)

(***************************************************************************)
(* The inductive invariant: each of the sweeps that might have written a   *)
(* snapshot that is not there has failed, but for one that is still to.    *)
(***************************************************************************)
WindowInv ==
    \A c \in 1..Connections, d \in Days :
        snapshots[c][d] = "none" /\ d < fired
        => Chances(d) <= Failed + (IF Ahead(c, d) THEN 1 ELSE 0)

SweepInv == SweepTypeOK /\ TimerInv /\ WindowInv

LEMMA Numbers ==
    /\ Connections \in Nat \ {0} /\ DaysBack \in Nat \ {0} /\ LastDay \in Nat \ {0}
    /\ SweepFailures \in Nat /\ ManualSweeps \in Nat /\ Amendments \in Nat
  BY ReconciliationAssumption

LEMMA SweepInit == Init => SweepInv
  <1> SUFFICES ASSUME Init PROVE SweepInv OBVIOUS
  <1>1. today = 1 /\ fired = 0 BY DEF Init, NoDay
  <1>2. left \in Bounds /\ left.failures = SweepFailures BY Numbers DEF Init, Bounds
  <1>3. snapshots \in [1..Connections -> [Days -> Verdicts]] BY DEF Init, Verdicts
  <1>4. sweep = [s \in Sweepers |-> Idle] /\ Timer = Idle BY DEF Init, Timer, Sweepers
  <1>5. IsSweep(Idle) /\ Idle.step = "idle" BY DEF IsSweep, Idle
  <1>6. sweep = [s \in Sweepers |-> sweep[s]] BY <1>4
  <1>7. SweepTypeOK
    <2>1. IsSweep(Timer) BY <1>4, <1>5
    <2>2. QED BY <1>1, <1>2, <1>3, <1>6, <2>1, Numbers DEF SweepTypeOK
  <1>8. TimerInv BY <1>4, <1>5 DEF TimerInv, UnderWay
  <1>9. WindowInv BY <1>1 DEF WindowInv, Days
  <1>10. QED BY <1>7, <1>8, <1>9 DEF SweepInv

LEMMA Spending ==
    ASSUME SweepTypeOK, NEW what \in {"sweeps", "failures", "amendments"}, Spend(what)
    PROVE  /\ left' \in Bounds /\ left'.failures <= SweepFailures
           /\ Failed' \in Nat
           /\ Failed' = IF what = "failures" THEN Failed + 1 ELSE Failed
  <1>1. /\ left[what] > 0 /\ left' = [left EXCEPT ![what] = @ - 1]
        /\ left \in Bounds /\ left.failures <= SweepFailures
    BY DEF Spend, SweepTypeOK
  <1>2. /\ left' \in Bounds
        /\ left'.failures = IF what = "failures" THEN left.failures - 1 ELSE left.failures
    BY <1>1 DEF Bounds
  <1>3. left.failures \in Nat /\ left'.failures \in Nat BY <1>1, <1>2 DEF Bounds
  <1>4. QED BY <1>1, <1>2, <1>3, Numbers DEF Failed

(* Nothing of the timer's sweep has changed, but the snapshots may have    *)
(* been written and the rest of the world may have failed.                 *)
LEMMA OthersKeep ==
    ASSUME SweepInv,
           UNCHANGED fired, Timer' = Timer, sweep' = [s \in Sweepers |-> sweep'[s]],
           today' \in Nat \ {0}, fired <= today', today' <= fired + 1,
           left' \in Bounds, left'.failures <= SweepFailures, Failed <= Failed',
           snapshots' \in [1..Connections -> [Days -> Verdicts]],
           \A c \in 1..Connections, d \in Days : snapshots'[c][d] = "none" => snapshots[c][d] = "none"
    PROVE  SweepInv'
  <1>1. SweepTypeOK' BY DEF SweepInv, SweepTypeOK
  <1>2. TimerInv'
    <2>1. UnderWay' <=> UnderWay BY DEF UnderWay
    <2>2. QED BY <2>1 DEF SweepInv, TimerInv
  <1>3. WindowInv'
    <2>1. Failed \in Int /\ Failed' \in Int
      <3>1. left.failures \in Nat /\ left'.failures \in Nat BY DEF SweepInv, SweepTypeOK, Bounds
      <3>2. QED BY <3>1, Numbers DEF Failed
    <2> SUFFICES ASSUME NEW c \in 1..Connections, NEW d \in Days,
                        snapshots'[c][d] = "none", d < fired
                 PROVE  Chances(d)' <= Failed' + (IF Ahead(c, d)' THEN 1 ELSE 0)
      BY DEF WindowInv
    <2>2. Chances(d) <= Failed + (IF Ahead(c, d) THEN 1 ELSE 0) BY DEF SweepInv, WindowInv
    <2>3. Chances(d)' = Chances(d) /\ (Ahead(c, d)' <=> Ahead(c, d))
      BY DEF Chances, Ahead, UnderWay
    <2>4. Chances(d) \in Int
      <3>1. fired \in Nat /\ d \in Nat BY DEF SweepInv, SweepTypeOK, Days
      <3>2. QED BY <3>1, Numbers DEF Chances
    <2>5. CASE Ahead(c, d) BY <2>1, <2>2, <2>3, <2>4, <2>5
    <2>6. CASE ~Ahead(c, d) BY <2>1, <2>2, <2>3, <2>4, <2>6
    <2>7. QED BY <2>5, <2>6
  <1>4. QED BY <1>1, <1>2, <1>3 DEF SweepInv

(* The first sweep whose window has a day has it ahead, and so on for as   *)
(* long as the window has the day.                                         *)
LEMMA TimerCounts ==
    ASSUME SweepInv, TimerFires
    PROVE  SweepInv'
  <1>1. /\ fired \in Nat /\ today \in Nat \ {0} /\ today = fired + 1 /\ fired' = today
        /\ left \in Bounds /\ left.failures <= SweepFailures
        /\ snapshots \in [1..Connections -> [Days -> Verdicts]]
    BY DEF SweepInv, SweepTypeOK, TimerFires
  <1>2. Failed \in Nat
    <2>1. left.failures \in Nat BY <1>1 DEF Bounds
    <2>2. QED BY <1>1, <2>1, Numbers DEF Failed
  <1>3. CASE Begin("timer", DaysBack) /\ UNCHANGED left
    <2>1. /\ ~UnderWay /\ today > 1 /\ UNCHANGED <<today, orders, snapshots, left>>
          /\ sweep' = [sweep EXCEPT !["timer"].step = "aggregate", !["timer"].began = today,
                                    !["timer"].daysBack = DaysBack]
      BY <1>3 DEF Begin, UnderWay, Timer
    <2>2. Timer = Idle BY <2>1 DEF SweepInv, TimerInv
    <2>3. sweep = [s \in Sweepers |-> sweep[s]] BY DEF SweepInv, SweepTypeOK
    <2>4. Timer' = [step |-> "aggregate", began |-> today, daysBack |-> DaysBack, connection |-> 1,
                    back |-> 1, shopify |-> Nothing, ns |-> Nothing]
      <3>1. Timer' = [Timer EXCEPT !.step = "aggregate", !.began = today, !.daysBack = DaysBack]
        BY <2>1, <2>3 DEF Timer, Sweepers
      <3>2. QED BY <2>2, <3>1 DEF Idle
    <2>5. sweep' = [s \in Sweepers |-> sweep'[s]] BY <2>1, <2>3
    <2>6. SweepTypeOK'
      <3>1. IsSweep(Timer)' BY <2>4 DEF IsSweep
      <3>2. QED BY <1>1, <2>1, <2>5, <3>1 DEF SweepTypeOK
    <2>7. UnderWay' BY <2>4 DEF UnderWay
    <2>8. TimerInv' BY <1>1, <2>1, <2>4, <2>7, Numbers DEF TimerInv
    <2>9. WindowInv'
      <3> SUFFICES ASSUME NEW c \in 1..Connections, NEW d \in Days,
                          snapshots[c][d] = "none", d < fired'
                   PROVE  Chances(d)' <= Failed' + (IF Ahead(c, d)' THEN 1 ELSE 0)
        BY <2>1 DEF WindowInv
      <3>1. d \in Nat \ {0} /\ c \in Nat \ {0} BY Numbers DEF Days
      <3>2. Failed' = Failed BY <2>1 DEF Failed
      <3>3. Chances(d)' = IF today - d < DaysBack THEN today - d ELSE DaysBack
        BY <1>1 DEF Chances
      <3>4. d = fired \/ d < fired BY <1>1, <3>1
      <3>5. d < fired => Chances(d) <= Failed
        <4>1. ~Ahead(c, d) BY <2>1 DEF Ahead
        <4>2. d < fired => Chances(d) <= Failed + 0 BY <4>1 DEF SweepInv, WindowInv
        <4>3. QED BY <1>2, <4>2
      <3>6. CASE today - d <= DaysBack
        <4>1. Ahead(c, d)' BY <1>1, <2>4, <2>7, <3>1, <3>6 DEF Ahead
        <4>2. CASE d = fired BY <1>1, <1>2, <3>1, <3>2, <3>3, <4>1, <4>2, Numbers
        <4>3. CASE d < fired
          <5>1. Chances(d) = fired - d BY <1>1, <3>1, <3>6, Numbers DEF Chances
          <5>2. fired - d <= Failed BY <3>5, <4>3, <5>1
          <5>3. Chances(d)' = today - d BY <1>1, <3>1, <3>3, <3>6, Numbers
          <5>4. QED BY <1>1, <1>2, <3>1, <3>2, <4>1, <5>2, <5>3
        <4>4. QED BY <3>4, <4>2, <4>3
      <3>7. CASE ~(today - d <= DaysBack)
        <4>1. d < fired /\ Chances(d) = DaysBack /\ Chances(d)' = DaysBack
          BY <1>1, <3>1, <3>3, <3>7, Numbers DEF Chances
        <4>2. DaysBack <= Failed BY <3>5, <4>1
        <4>3. QED BY <1>2, <3>2, <4>1, <4>2, Numbers
      <3>8. QED BY <3>6, <3>7
    <2>10. QED BY <2>6, <2>8, <2>9 DEF SweepInv
  <1>4. CASE today = 1 /\ UNCHANGED <<today, orders, snapshots, sweep, left>>
    <2>1. fired = 0 /\ fired' = 1 BY <1>1, <1>4
    <2>2. ~UnderWay
      <3>1. ASSUME UnderWay PROVE FALSE
        <4>1. Timer.back \in 1..DaysBack /\ Timer.back < 0 BY <2>1, <3>1 DEF SweepInv, TimerInv
        <4>2. QED BY <4>1, Numbers
      <3>2. QED BY <3>1
    <2>3. Timer' = Timer /\ ~UnderWay' BY <1>4, <2>2 DEF Timer, UnderWay
    <2>4. SweepTypeOK' BY <1>1, <1>4, <2>3 DEF SweepInv, SweepTypeOK
    <2>5. TimerInv' BY <2>2, <2>3 DEF SweepInv, TimerInv
    <2>6. WindowInv' BY <2>1 DEF WindowInv, Days
    <2>7. QED BY <2>4, <2>5, <2>6 DEF SweepInv
  <1>5. QED BY <1>3, <1>4 DEF TimerFires

-----------------------------------------------------------------------------
(* The steps of the timer's own sweep.                                     *)
(* It is somewhere in its window, and has nothing of the window behind it  *)
(* but what it has written.                                                *)
LEMMA TimerPlace ==
    ASSUME SweepInv, UnderWay
    PROVE  /\ IsSweep(Timer) /\ Timer.began = fired /\ Timer.daysBack = DaysBack
           /\ Timer.connection \in 1..Connections
           /\ Timer.back \in 1..DaysBack /\ Timer.back < fired
           /\ fired \in Nat /\ Failed \in Nat
  <1>1. left.failures \in Nat BY DEF SweepInv, SweepTypeOK, Bounds
  <1>2. Failed \in Nat BY <1>1, Numbers DEF SweepInv, SweepTypeOK, Failed
  <1>3. QED BY <1>2 DEF SweepInv, SweepTypeOK, TimerInv

(* A reading is taken, and the sweep stays where it is.                    *)
LEMMA ReadingKeeps ==
    ASSUME SweepInv, UnderWay, NEW step \in {"list", "upsert"}, NEW reading,
           \/ Timer' = [Timer EXCEPT !.step = step, !.shopify = reading]
           \/ Timer' = [Timer EXCEPT !.step = step, !.ns = reading],
           sweep' = [s \in Sweepers |-> sweep'[s]],
           UNCHANGED <<today, orders, snapshots, fired, left>>
    PROVE  SweepInv'
  <1> DEFINE next == Timer'
  <1>1. /\ IsSweep(next) /\ next.step = step
        /\ next.began = Timer.began /\ next.daysBack = Timer.daysBack
        /\ next.connection = Timer.connection /\ next.back = Timer.back
    <2>1. IsSweep(Timer) BY TimerPlace
    <2>2. CASE Timer' = [Timer EXCEPT !.step = step, !.shopify = reading]
      BY <2>1, <2>2 DEF IsSweep
    <2>3. CASE Timer' = [Timer EXCEPT !.step = step, !.ns = reading]
      BY <2>1, <2>3 DEF IsSweep
    <2>4. QED BY <2>2, <2>3
  <1>2. UnderWay' BY <1>1 DEF UnderWay
  <1>3. SweepTypeOK'
    <2>1. IsSweep(Timer)' BY <1>1 DEF IsSweep
    <2>2. QED BY <2>1 DEF SweepInv, SweepTypeOK
  <1>4. TimerInv' BY <1>1, <1>2, TimerPlace DEF TimerInv
  <1>5. WindowInv'
    <2>1. \A c, d : Ahead(c, d)' <=> Ahead(c, d) BY <1>1, <1>2 DEF Ahead
    <2>2. \A d : Chances(d)' = Chances(d) BY DEF Chances
    <2>3. Failed' = Failed BY DEF Failed
    <2>4. QED BY <2>1, <2>2, <2>3 DEF SweepInv, WindowInv
  <1>6. QED BY <1>3, <1>4, <1>5 DEF SweepInv

(* A sweep that throws is one more that has failed.                        *)
LEMMA ThrowCounts ==
    ASSUME SweepInv, SweepThrows("timer")
    PROVE  SweepInv'
  <1>1. /\ UnderWay /\ Spend("failures") /\ sweep' = [sweep EXCEPT !["timer"] = Idle]
        /\ UNCHANGED <<today, orders, snapshots, fired>>
    BY DEF SweepThrows, UnderWay, Timer
  <1>2. sweep = [s \in Sweepers |-> sweep[s]] BY DEF SweepInv, SweepTypeOK
  <1>3. Timer' = Idle /\ sweep' = [s \in Sweepers |-> sweep'[s]] BY <1>1, <1>2 DEF Timer, Sweepers
  <1>4. ~UnderWay' BY <1>3 DEF UnderWay, Idle
  <1>5. left' \in Bounds /\ left'.failures <= SweepFailures /\ Failed' = Failed + 1
    BY <1>1, Spending DEF SweepInv
  <1>6. SweepTypeOK'
    <2>1. IsSweep(Timer)' BY <1>3 DEF IsSweep, Idle
    <2>2. QED BY <1>1, <1>3, <1>5, <2>1 DEF SweepInv, SweepTypeOK
  <1>7. TimerInv' BY <1>3, <1>4 DEF TimerInv
  <1>8. WindowInv'
    <2> SUFFICES ASSUME NEW c \in 1..Connections, NEW d \in Days,
                        snapshots[c][d] = "none", d < fired
                 PROVE  Chances(d)' <= Failed' + (IF Ahead(c, d)' THEN 1 ELSE 0)
      BY <1>1 DEF WindowInv
    <2>1. Chances(d) <= Failed + (IF Ahead(c, d) THEN 1 ELSE 0) BY DEF SweepInv, WindowInv
    <2>2. Chances(d)' = Chances(d) /\ ~Ahead(c, d)' BY <1>1, <1>4 DEF Chances, Ahead
    <2>3. Failed \in Nat BY <1>1, TimerPlace
    <2>4. Chances(d) \in Int
      <3>1. fired \in Nat /\ d \in Nat BY DEF SweepInv, SweepTypeOK, Days
      <3>2. QED BY <3>1, Numbers DEF Chances
    <2>5. Chances(d) <= Failed + 1 BY <2>1, <2>3, <2>4
    <2>6. QED BY <1>5, <2>2, <2>3, <2>4, <2>5
  <1>9. QED BY <1>6, <1>7, <1>8 DEF SweepInv

(* The snapshot is written, and the sweep goes on: what it has ahead is    *)
(* what it had, but for the pair just written.                             *)
LEMMA UpsertCounts ==
    ASSUME SweepInv, UpsertSnapshot("timer")
    PROVE  SweepInv'
  <1> DEFINE at == Timer
             day == fired - at.back
             next == Timer'
  <1>1. /\ Timer.step = "upsert" /\ UnderWay /\ UNCHANGED <<today, orders, fired, left>>
        /\ sweep' = [sweep EXCEPT !["timer"] =
                       IF After("timer") = Idle THEN Idle
                       ELSE [After("timer") EXCEPT !.step = "aggregate", !.shopify = Nothing,
                                                   !.ns = Nothing]]
    BY DEF UpsertSnapshot, Timer, UnderWay
  <1>2. /\ IsSweep(at) /\ at.step = "upsert" /\ at.began = fired /\ at.daysBack = DaysBack
        /\ at.connection \in 1..Connections
        /\ at.back \in 1..DaysBack /\ at.back < fired
        /\ fired \in Nat /\ Failed \in Nat
    BY <1>1, TimerPlace
  <1>3. sweep = [s \in Sweepers |-> sweep[s]] BY DEF SweepInv, SweepTypeOK
  <1>4. /\ next = IF After("timer") = Idle THEN Idle
                  ELSE [After("timer") EXCEPT !.step = "aggregate", !.shopify = Nothing, !.ns = Nothing]
        /\ sweep' = [s \in Sweepers |-> sweep'[s]]
    BY <1>1, <1>3 DEF Timer, Sweepers
  <1> DEFINE Place(c, b) == /\ IsSweep(next) /\ next.step = "aggregate"
                            /\ next.began = fired /\ next.daysBack = DaysBack
                            /\ next.connection = c /\ next.back = b
             Earlier == at.back < DaysBack /\ at.back + 1 < fired
             Another == ~Earlier /\ at.connection < Connections
  <1>5. ASSUME NEW c, NEW b, After("timer") = [at EXCEPT !.connection = c, !.back = b]
        PROVE  Place(c, b)
    <2> DEFINE after == After("timer")
    <2>1. /\ IsSweep(after) /\ after.step = "upsert"
          /\ after.began = fired /\ after.daysBack = DaysBack
          /\ after.connection = c /\ after.back = b
      BY <1>2, <1>5 DEF IsSweep
    <2>2. after # Idle BY <2>1 DEF Idle
    <2>3. next = [after EXCEPT !.step = "aggregate", !.shopify = Nothing, !.ns = Nothing]
      BY <1>4, <2>2
    <2> HIDE DEF after, next, at
    <2>4. QED BY <2>1, <2>3 DEF IsSweep
  <1>6. at.back + 1 = fired \/ at.back + 1 < fired BY <1>2
  <1>7. at.back = DaysBack \/ at.back < DaysBack BY <1>2, Numbers
  <1>8. Earlier => Place(at.connection, at.back + 1)
    <2> SUFFICES ASSUME Earlier PROVE Place(at.connection, at.back + 1) OBVIOUS
    <2>1. After("timer") = [at EXCEPT !.back = at.back + 1] BY <1>2 DEF After, Timer
    <2>2. After("timer") = [at EXCEPT !.connection = at.connection, !.back = at.back + 1]
      BY <1>2, <2>1
    <2> HIDE DEF next, at, Place
    <2>3. QED BY <1>5, <2>2
  <1>9. Another => Place(at.connection + 1, 1)
    <2> SUFFICES ASSUME Another PROVE Place(at.connection + 1, 1) OBVIOUS
    <2>1. After("timer") = [at EXCEPT !.connection = at.connection + 1, !.back = 1]
      BY <1>2, <1>6, <1>7 DEF After, Timer
    <2> HIDE DEF next, at, Place
    <2>2. QED BY <1>5, <2>1
  <1>10. ~Earlier /\ ~Another => next = Idle
    <2> SUFFICES ASSUME ~Earlier, ~Another PROVE next = Idle OBVIOUS
    <2>1. After("timer") = Idle BY <1>2, <1>6, <1>7 DEF After, Timer
    <2>2. QED BY <1>4, <2>1
  <1>11. /\ snapshots' \in [1..Connections -> [Days -> Verdicts]]
         /\ \A c \in 1..Connections, d \in Days :
               /\ c = at.connection /\ d = day => snapshots'[c][d] # "none"
               /\ ~(c = at.connection /\ d = day) => snapshots'[c][d] = snapshots[c][d]
    <2> DEFINE verdict == IF Drifts(sweep["timer"].shopify, sweep["timer"].ns) THEN "drift" ELSE "agrees"
    <2>1. snapshots' = [snapshots EXCEPT ![at.connection][day] = verdict]
      <3>1. day = BusinessDate("timer") BY <1>2 DEF BusinessDate, Timer
      <3>2. at = sweep["timer"] BY DEF Timer
      <3>3. UpsertSnapshot("timer") OBVIOUS
      <3> HIDE DEF verdict, at, day
      <3>4. snapshots' = [snapshots EXCEPT ![sweep["timer"].connection][BusinessDate("timer")] = verdict]
        BY <3>3 DEF UpsertSnapshot, verdict
      <3>5. QED BY <3>1, <3>2, <3>4
    <2>2. verdict \in Verdicts \ {"none"} BY DEF Verdicts
    <2>3. snapshots \in [1..Connections -> [Days -> Verdicts]] BY DEF SweepInv, SweepTypeOK
    <2> HIDE DEF verdict, at, day
    <2>4. QED BY <2>1, <2>2, <2>3
  <1>12. next = Idle \/ \E c \in 1..Connections, b \in 1..DaysBack : b < fired /\ Place(c, b)
    <2>1. CASE Earlier BY <1>2, <1>8, <2>1, Numbers
    <2>2. CASE Another
      <3>1. at.connection + 1 \in 1..Connections /\ 1 \in 1..DaysBack /\ 1 < fired
        BY <1>2, <2>2, Numbers
      <3>2. QED BY <1>9, <2>2, <3>1
    <2>3. CASE ~Earlier /\ ~Another BY <1>10, <2>3
    <2>4. QED BY <2>1, <2>2, <2>3
  <1>13. SweepTypeOK'
    <2>1. IsSweep(Idle) BY DEF IsSweep, Idle
    <2>2. IsSweep(Timer') BY <1>12, <2>1
    <2>3. IsSweep(Timer)' BY <2>2 DEF IsSweep
    <2>4. QED BY <1>1, <1>4, <1>11, <2>3 DEF SweepInv, SweepTypeOK
  <1>14. TimerInv'
    <2>1. CASE next = Idle BY <2>1 DEF TimerInv, UnderWay, Idle
    <2>2. CASE \E c \in 1..Connections, b \in 1..DaysBack : b < fired /\ Place(c, b)
      BY <1>1, <2>2 DEF TimerInv, UnderWay
    <2>3. QED BY <1>12, <2>1, <2>2
  <1>15. ASSUME NEW c \in 1..Connections, NEW d \in Days, d < fired, Ahead(c, d),
                ~(c = at.connection /\ d = day)
         PROVE  Ahead(c, d)'
    <2>1. /\ fired - d <= DaysBack /\ c \in Nat /\ d \in Nat \ {0}
          /\ at.connection < c \/ (at.connection = c /\ at.back <= fired - d)
      BY <1>15, Numbers DEF Ahead, Days
    <2>2. CASE at.connection = c
      <3>1. at.back < fired - d BY <1>2, <1>15, <2>1, <2>2
      <3>2. Earlier /\ at.back + 1 <= fired - d BY <1>2, <2>1, <3>1, Numbers
      <3>3. Place(at.connection, at.back + 1) BY <1>8, <3>2
      <3>4. QED BY <1>1, <2>1, <2>2, <3>2, <3>3 DEF Ahead, UnderWay
    <2>3. CASE at.connection # c
      <3>1. at.connection < c BY <2>1, <2>3
      <3>2. CASE Earlier
        <4>1. Place(at.connection, at.back + 1) BY <1>8, <3>2
        <4>2. QED BY <1>1, <2>1, <3>1, <4>1 DEF Ahead, UnderWay
      <3>3. CASE ~Earlier
        <4>1. Another BY <1>2, <3>1, <3>3, Numbers
        <4>2. Place(at.connection + 1, 1) BY <1>9, <4>1
        <4>3. at.connection + 1 < c \/ at.connection + 1 = c BY <1>2, <2>1, <3>1
        <4>4. 1 <= fired - d BY <1>2, <1>15, <2>1
        <4>5. QED BY <1>1, <2>1, <4>2, <4>3, <4>4 DEF Ahead, UnderWay
      <3>4. QED BY <3>2, <3>3
    <2>4. QED BY <2>2, <2>3
  <1>16. WindowInv'
    <2> SUFFICES ASSUME NEW c \in 1..Connections, NEW d \in Days,
                        snapshots'[c][d] = "none", d < fired
                 PROVE  Chances(d)' <= Failed' + (IF Ahead(c, d)' THEN 1 ELSE 0)
      BY <1>1 DEF WindowInv
    <2>1. ~(c = at.connection /\ d = day) /\ snapshots[c][d] = "none" BY <1>11
    <2>2. Chances(d) <= Failed + (IF Ahead(c, d) THEN 1 ELSE 0) BY <2>1 DEF SweepInv, WindowInv
    <2>3. Chances(d)' = Chances(d) /\ Failed' = Failed BY <1>1 DEF Chances, Failed
    <2>4. Chances(d) \in Int BY <1>2, Numbers DEF Chances, Days
    <2>5. CASE Ahead(c, d)
      <3>1. Ahead(c, d)' BY <1>15, <2>1, <2>5
      <3>2. QED BY <2>2, <2>3, <2>5, <3>1
    <2>6. CASE ~Ahead(c, d)
      <3>1. Chances(d) <= Failed BY <1>2, <2>2, <2>4, <2>6
      <3>2. QED BY <1>2, <2>3, <2>4, <3>1
    <2>7. QED BY <2>5, <2>6
  <1>17. QED BY <1>13, <1>14, <1>16 DEF SweepInv

-----------------------------------------------------------------------------
LEMMA SweepStep == SweepInv /\ [Next]_vars => SweepInv'
  <1> SUFFICES ASSUME SweepInv, [Next]_vars PROVE SweepInv' OBVIOUS
  <1>1. /\ sweep = [s \in Sweepers |-> sweep[s]]
        /\ snapshots \in [1..Connections -> [Days -> Verdicts]]
        /\ left \in Bounds /\ left.failures <= SweepFailures
        /\ today \in Nat \ {0} /\ fired \in Nat /\ fired <= today /\ today <= fired + 1
        /\ Failed \in Nat
    <2>1. left.failures \in Nat BY DEF SweepInv, SweepTypeOK, Bounds
    <2>2. QED BY <2>1, Numbers DEF SweepInv, SweepTypeOK, Failed
  (* Nothing of the sweeps changes, but that something may be spent. *)
  <1>2. ASSUME UNCHANGED <<fired, sweep, snapshots>>,
               today' = today \/ (fired = today /\ today' = today + 1),
               UNCHANGED left \/ \E what \in {"sweeps", "failures", "amendments"} : Spend(what)
        PROVE  SweepInv'
    <2>1. left' \in Bounds /\ left'.failures <= SweepFailures /\ Failed <= Failed'
      <3>1. CASE UNCHANGED left BY <1>1, <3>1 DEF Failed
      <3>2. CASE \E what \in {"sweeps", "failures", "amendments"} : Spend(what)
        <4>1. SweepTypeOK BY DEF SweepInv
        <4>2. PICK what \in {"sweeps", "failures", "amendments"} : Spend(what) BY <3>2
        <4>3. /\ left' \in Bounds /\ left'.failures <= SweepFailures
              /\ Failed' = IF what = "failures" THEN Failed + 1 ELSE Failed
          BY <4>1, <4>2, Spending
        <4>4. QED BY <1>1, <4>3
      <3>3. QED BY <1>2, <3>1, <3>2
    <2>2. Timer' = Timer BY <1>2 DEF Timer
    <2>3. today' \in Nat \ {0} /\ fired <= today' /\ today' <= fired + 1 BY <1>1, <1>2
    <2>4. QED BY <1>1, <1>2, <2>1, <2>2, <2>3, OthersKeep
  (* The sweep of an operator writes snapshots of its own, and may fail. *)
  <1>3. ASSUME NEW at, sweep' = [sweep EXCEPT !["operator"] = at], UNCHANGED <<today, fired>>,
               UNCHANGED left \/ \E what \in {"sweeps", "failures", "amendments"} : Spend(what),
               \/ UNCHANGED snapshots
               \/ \E c, d, verdict : /\ verdict \in Verdicts \ {"none"}
                                     /\ snapshots' = [snapshots EXCEPT ![c][d] = verdict]
        PROVE  SweepInv'
    <2>1. left' \in Bounds /\ left'.failures <= SweepFailures /\ Failed <= Failed'
      <3>1. CASE UNCHANGED left BY <1>1, <3>1 DEF Failed
      <3>2. CASE \E what \in {"sweeps", "failures", "amendments"} : Spend(what)
        <4>1. SweepTypeOK BY DEF SweepInv
        <4>2. PICK what \in {"sweeps", "failures", "amendments"} : Spend(what) BY <3>2
        <4>3. /\ left' \in Bounds /\ left'.failures <= SweepFailures
              /\ Failed' = IF what = "failures" THEN Failed + 1 ELSE Failed
          BY <4>1, <4>2, Spending
        <4>4. QED BY <1>1, <4>3
      <3>3. QED BY <1>3, <3>1, <3>2
    <2>2. Timer' = Timer /\ sweep' = [s \in Sweepers |-> sweep'[s]] BY <1>1, <1>3 DEF Timer, Sweepers
    <2>3. /\ snapshots' \in [1..Connections -> [Days -> Verdicts]]
          /\ \A c \in 1..Connections, d \in Days :
                snapshots'[c][d] = "none" => snapshots[c][d] = "none"
      <3>1. CASE UNCHANGED snapshots BY <1>1, <3>1
      <3>2. CASE \E c, d, verdict : /\ verdict \in Verdicts \ {"none"}
                                    /\ snapshots' = [snapshots EXCEPT ![c][d] = verdict]
        <4>1. PICK c, d, verdict : /\ verdict \in Verdicts \ {"none"}
                                   /\ snapshots' = [snapshots EXCEPT ![c][d] = verdict]
          BY <3>2
        <4>2. QED BY <1>1, <4>1
      <3>3. QED BY <1>3, <3>1, <3>2
    <2>4. QED BY <1>1, <1>3, <2>1, <2>2, <2>3, OthersKeep
  <1>4. CASE \E o \in Orders : Sell(o) \/ Amend(o) \/ Import(o) \/ Park(o)
    BY <1>2, <1>4 DEF Sell, Amend, Import, Park
  <1>5. CASE Midnight BY <1>2, <1>5 DEF Midnight
  <1>6. CASE TimerFires BY <1>6, TimerCounts
  <1>7. CASE \E asked \in ManualDaysBack : OperatorRuns(asked)
    <2>1. PICK asked \in ManualDaysBack : OperatorRuns(asked) BY <1>7
    <2> DEFINE daysBack == Max({1, Min({MaxDaysBack, asked})})
    <2>2. /\ Spend("sweeps") /\ UNCHANGED <<today, fired, snapshots>>
          /\ sweep' = [sweep EXCEPT !["operator"].step = "aggregate", !["operator"].began = today,
                                    !["operator"].daysBack = daysBack]
      BY <2>1 DEF OperatorRuns, Begin
    <2> HIDE DEF daysBack
    <2>3. sweep' = [sweep EXCEPT !["operator"] =
                       [sweep["operator"] EXCEPT !.step = "aggregate", !.began = today,
                                                 !.daysBack = daysBack]]
      BY <1>1, <2>2 DEF Sweepers
    <2>4. QED BY <1>3, <2>2, <2>3
  <1>8. CASE Sweep("timer")
    <2>1. ASSUME NEW step \in {"list", "upsert"}, NEW reading, UnderWay,
                 \/ sweep' = [sweep EXCEPT !["timer"].step = step, !["timer"].shopify = reading]
                 \/ sweep' = [sweep EXCEPT !["timer"].step = step, !["timer"].ns = reading],
                 UNCHANGED <<today, orders, snapshots, fired, left>>
          PROVE  SweepInv'
      <3>1. \/ Timer' = [Timer EXCEPT !.step = step, !.shopify = reading]
            \/ Timer' = [Timer EXCEPT !.step = step, !.ns = reading]
        BY <1>1, <2>1 DEF Timer, Sweepers
      <3>2. sweep' = [s \in Sweepers |-> sweep'[s]] BY <1>1, <2>1
      <3>3. QED BY <2>1, <3>1, <3>2, ReadingKeeps
    <2>2. CASE Aggregate("timer")
      <3>1. PICK reading : sweep' = [sweep EXCEPT !["timer"].step = "list", !["timer"].shopify = reading]
        BY <2>2 DEF Aggregate
      <3>2. UnderWay /\ UNCHANGED <<today, orders, snapshots, fired, left>>
        BY <2>2 DEF Aggregate, UnderWay, Timer
      <3>3. QED BY <2>1, <3>1, <3>2
    <2>3. CASE ListLedger("timer")
      <3>1. PICK reading : sweep' = [sweep EXCEPT !["timer"].step = "upsert", !["timer"].ns = reading]
        BY <2>3 DEF ListLedger
      <3>2. UnderWay /\ UNCHANGED <<today, orders, snapshots, fired, left>>
        BY <2>3 DEF ListLedger, UnderWay, Timer
      <3>3. QED BY <2>1, <3>1, <3>2
    <2>4. CASE UpsertSnapshot("timer") BY <2>4, UpsertCounts
    <2>5. CASE SweepThrows("timer") BY <2>5, ThrowCounts
    <2>6. QED BY <1>8, <2>2, <2>3, <2>4, <2>5 DEF Sweep
  <1>9. CASE Sweep("operator")
    <2>1. CASE Aggregate("operator")
      <3>1. PICK reading :
               sweep' = [sweep EXCEPT !["operator"].step = "list", !["operator"].shopify = reading]
        BY <2>1 DEF Aggregate
      <3>2. sweep' = [sweep EXCEPT !["operator"] =
                        [sweep["operator"] EXCEPT !.step = "list", !.shopify = reading]]
        BY <1>1, <3>1 DEF Sweepers
      <3>3. UNCHANGED <<today, fired, left, snapshots>> BY <2>1 DEF Aggregate
      <3>4. QED BY <1>3, <3>2, <3>3
    <2>2. CASE ListLedger("operator")
      <3>1. PICK reading :
               sweep' = [sweep EXCEPT !["operator"].step = "upsert", !["operator"].ns = reading]
        BY <2>2 DEF ListLedger
      <3>2. sweep' = [sweep EXCEPT !["operator"] =
                        [sweep["operator"] EXCEPT !.step = "upsert", !.ns = reading]]
        BY <1>1, <3>1 DEF Sweepers
      <3>3. UNCHANGED <<today, fired, left, snapshots>> BY <2>2 DEF ListLedger
      <3>4. QED BY <1>3, <3>2, <3>3
    <2>3. CASE UpsertSnapshot("operator")
      <3>1. PICK at : sweep' = [sweep EXCEPT !["operator"] = at] BY <2>3 DEF UpsertSnapshot
      <3> DEFINE c == sweep["operator"].connection
                 d == BusinessDate("operator")
                 verdict == IF Drifts(sweep["operator"].shopify, sweep["operator"].ns)
                            THEN "drift" ELSE "agrees"
      <3>2. snapshots' = [snapshots EXCEPT ![c][d] = verdict] /\ UNCHANGED <<today, fired, left>>
        BY <2>3 DEF UpsertSnapshot
      <3>3. verdict \in Verdicts \ {"none"} BY DEF Verdicts
      <3> HIDE DEF c, d, verdict
      <3>4. QED BY <1>3, <3>1, <3>2, <3>3
    <2>4. CASE SweepThrows("operator") BY <1>3, <2>4 DEF SweepThrows
    <2>5. QED BY <1>9, <2>1, <2>2, <2>3, <2>4 DEF Sweep
  <1>10. CASE UNCHANGED vars BY <1>2, <1>10 DEF vars
  <1>11. QED BY <1>4, <1>5, <1>6, <1>7, <1>8, <1>9, <1>10 DEF Next, Sweepers

(***************************************************************************)
(* Every day is swept while at most DaysBack - 1 sweeps have thrown: the   *)
(* windows of DaysBack sweeps cover it, for every connection, whatever     *)
(* operators run meanwhile (runReconciliation ends at an exception).       *)
(***************************************************************************)
THEOREM WindowsOverlapEnough == Spec => []EveryDayIsSwept
  <1>1. SweepInv => EveryDayIsSwept
    <2> SUFFICES ASSUME SweepInv, NEW c \in 1..Connections, NEW d \in Days,
                        fired >= d + DaysBack, sweep["timer"].step = "idle",
                        SweepFailures - left.failures < DaysBack
                 PROVE  snapshots[c][d] # "none"
      BY DEF EveryDayIsSwept
    <2>1. fired \in Nat /\ d \in Nat \ {0} /\ left.failures \in Nat
      BY DEF SweepInv, SweepTypeOK, Days, Bounds
    <2>2. d < fired /\ Chances(d) = DaysBack BY <2>1, Numbers DEF Chances
    <2>3. ~Ahead(c, d) BY DEF Ahead, UnderWay, Timer
    <2>4. Failed \in Int /\ Failed < DaysBack BY <2>1, Numbers DEF Failed
    <2>5. ~(DaysBack <= Failed + 0) BY <2>4, Numbers
    <2>6. QED BY <2>2, <2>3, <2>5 DEF SweepInv, WindowInv
  <1>2. QED BY <1>1, SweepInit, SweepStep, PTL DEF Spec

-----------------------------------------------------------------------------
(***************************************************************************)
(* What a snapshot says.  Once a day is over, neither what was sold on it  *)
(* nor what was ever imported on it changes, and a day that is complete    *)
(* has been complete, with the same totals, since it was over.  So what a  *)
(* sweep has read of it stays true until it is written, and after.         *)
(***************************************************************************)
Complete(c, d) ==
    /\ SyncedOn(c, d) = Sold(c, d)
    /\ \A o \in Sold(c, d) :
          o \in Imported(c) /\ ledger[o].synced = d /\ ledger[o].total = price[o]
    /\ PagesSuffice(c, d)

BooksTypeOK ==
    /\ today \in Nat \ {0}
    /\ processed \in [Orders -> Nat] /\ price \in [Orders -> Prices]
    /\ everSynced \in [Orders -> SUBSET Nat]
    /\ ledger \in [Orders -> [status : {"absent", "parked", "imported"}, synced : Nat, total : Nat]]
    /\ snapshots \in [1..Connections -> [Days -> Verdicts]]
    /\ sweep = [s \in Sweepers |-> sweep[s]]

(* Nothing is of a day to come, and no order has become cheaper.           *)
PastInv ==
    \A o \in Orders :
        /\ processed[o] <= today /\ ledger[o].synced <= today
        /\ \A d \in everSynced[o] : d <= today
        /\ ledger[o].status = "imported" =>
              ledger[o].synced \in everSynced[o] /\ ledger[o].total <= price[o]

(* What a sweep that is at `at' has read.                                  *)
Knows(at) ==
    LET c == at.connection
        d == at.began - at.back
    IN  /\ IsSweep(at) /\ at.step \in {"idle", "aggregate", "list", "upsert"}
        /\ at.step = "idle" => at = Idle
        /\ at.step # "idle" =>
              /\ c \in 1..Connections /\ at.began \in Nat /\ at.began <= today
              /\ at.back \in Nat \ {0} /\ at.back < at.began
        /\ at.step \in {"list", "upsert"} =>
              /\ Cardinality(Sold(c, d)) <= AggregatePage =>
                    at.shopify.count = Cardinality(Sold(c, d))
              /\ Complete(c, d) => at.shopify = Sum(Sold(c, d), price)
        /\ at.step = "upsert" =>
              /\ at.ns.count <= Cardinality(SyncedOn(c, d)) /\ at.ns.count \in Nat
              /\ Complete(c, d) => at.ns = Sum(Sold(c, d), price)

Tells(c, d, verdict) ==
    /\ d >= today => verdict = "none"
    /\ verdict = "agrees" /\ Cardinality(Sold(c, d)) <= AggregatePage =>
          Cardinality(Sold(c, d)) <= Cardinality(SyncedOn(c, d))
    /\ verdict = "drift" => ~Complete(c, d)

BooksInv ==
    /\ BooksTypeOK /\ PastInv
    /\ \A s \in Sweepers : Knows(sweep[s])
    /\ \A c \in 1..Connections, d \in Days : Tells(c, d, snapshots[c][d])

LEMMA BooksInit == Init => BooksInv
  <1> SUFFICES ASSUME Init PROVE BooksInv OBVIOUS
  <1>1. BooksTypeOK BY DEF BooksTypeOK, Init, Prices, Verdicts, NoDay
  <1>2. PastInv BY DEF PastInv, Init, NoDay
  <1>3. IsSweep(Idle) /\ Idle.step = "idle" BY DEF IsSweep, Idle
  <1>4. Knows(Idle) BY <1>3 DEF Knows
  <1>5. \A s \in Sweepers : sweep[s] = Idle BY DEF Init
  <1>6. \A s \in Sweepers : Knows(sweep[s]) BY <1>4, <1>5
  <1>7. ASSUME NEW c \in 1..Connections, NEW d \in Days PROVE Tells(c, d, snapshots[c][d])
    <2>1. snapshots[c][d] = "none" BY DEF Init
    <2>2. QED BY <2>1 DEF Tells
  <1>8. QED BY <1>1, <1>2, <1>6, <1>7 DEF BooksInv

LEMMA OrdersCount == \A S \in SUBSET Orders : IsFiniteSet(S) /\ Cardinality(S) \in Nat
  BY ReconciliationAssumption, FS_Subset, FS_CardinalityType

LEMMA MinOfTwo ==
    ASSUME NEW a \in Int, NEW b \in Int
    PROVE  Min({a, b}) = IF a <= b THEN a ELSE b
  <1>1. \E x \in {a, b} : \A y \in {a, b} : x =< y
    <2>1. a <= b \/ b <= a OBVIOUS
    <2>2. QED BY <2>1
  <1>2. /\ Min({a, b}) \in {a, b}
        /\ \A y \in {a, b} : Min({a, b}) =< y
    BY <1>1, Zenon DEF Min
  <1>3. QED BY <1>2

(***************************************************************************)
(* What a step does to an order: it is sold or imported today, an import   *)
(* has its price, and a price only rises.                                  *)
(***************************************************************************)
OrderMoves(o) ==
    /\ processed'[o] = processed[o] \/ (processed[o] = NoDay /\ processed'[o] = today)
    /\ everSynced'[o] = everSynced[o] \/ everSynced'[o] = everSynced[o] \cup {today}
    /\ everSynced[o] \subseteq everSynced'[o]
    /\ \/ ledger'[o] = ledger[o]
       \/ ledger'[o].status = "parked" /\ ledger'[o].synced = ledger[o].synced
       \/ /\ ledger'[o].status = "imported" /\ ledger'[o].synced = today
          /\ ledger'[o].total = price'[o] /\ today \in everSynced'[o]
    /\ \/ price'[o] = price[o]
       \/ price[o] = 1 /\ price'[o] = 2 /\ ledger'[o] = ledger[o]

OrdersTypeOK ==
    /\ processed \in [Orders -> Nat] /\ price \in [Orders -> Prices]
    /\ everSynced \in [Orders -> SUBSET Nat]
    /\ ledger \in [Orders -> [status : {"absent", "parked", "imported"}, synced : Nat, total : Nat]]

LEMMA OrdersMove ==
    ASSUME BooksInv, [Next]_vars
    PROVE  /\ today' = today \/ today' = today + 1
           /\ OrdersTypeOK' /\ \A o \in Orders : OrderMoves(o)
  <1>1. today \in Nat \ {0} /\ OrdersTypeOK BY DEF BooksInv, BooksTypeOK, OrdersTypeOK
  <1>2. ASSUME UNCHANGED orders, today' = today \/ today' = today + 1
        PROVE  OrdersTypeOK' /\ \A o \in Orders : OrderMoves(o)
    BY <1>1, <1>2 DEF orders, OrdersTypeOK, OrderMoves
  <1>3. ASSUME NEW o \in Orders, Sell(o)
        PROVE  UNCHANGED today /\ OrdersTypeOK' /\ \A p \in Orders : OrderMoves(p)
    BY <1>1, <1>3 DEF Sell, OrdersTypeOK, OrderMoves
  <1>4. ASSUME NEW o \in Orders, Amend(o)
        PROVE  UNCHANGED today /\ OrdersTypeOK' /\ \A p \in Orders : OrderMoves(p)
    BY <1>1, <1>4 DEF Amend, OrdersTypeOK, OrderMoves, Prices
  <1>5. ASSUME NEW o \in Orders, Import(o)
        PROVE  UNCHANGED today /\ OrdersTypeOK' /\ \A p \in Orders : OrderMoves(p)
    <2>1. ledger' = [ledger EXCEPT ![o] = [status |-> "imported", synced |-> today, total |-> price[o]]]
      BY <1>1, <1>5 DEF Import, LedgerUpsert, NoDay
    <2>2. /\ everSynced' = [everSynced EXCEPT ![o] = @ \cup {today}]
          /\ UNCHANGED <<today, processed, price>>
      BY <1>5 DEF Import
    <2>3. price[o] \in Nat BY <1>1 DEF OrdersTypeOK, Prices
    <2>4. OrdersTypeOK' BY <1>1, <2>1, <2>2, <2>3 DEF OrdersTypeOK
    <2>5. \A p \in Orders : OrderMoves(p) BY <1>1, <2>1, <2>2 DEF OrdersTypeOK, OrderMoves
    <2>6. QED BY <2>2, <2>4, <2>5
  <1>6. ASSUME NEW o \in Orders, Park(o)
        PROVE  UNCHANGED today /\ OrdersTypeOK' /\ \A p \in Orders : OrderMoves(p)
    <2>1. ledger' = [ledger EXCEPT ![o] = [status |-> "parked", synced |-> ledger[o].synced, total |-> 0]]
      BY <1>1, <1>6 DEF Park, LedgerUpsert, NoDay, OrdersTypeOK
    <2>2. UNCHANGED <<today, processed, price, everSynced>> BY <1>6 DEF Park
    <2>3. OrdersTypeOK' BY <1>1, <2>1, <2>2 DEF OrdersTypeOK
    <2>4. \A p \in Orders : OrderMoves(p) BY <1>1, <2>1, <2>2 DEF OrdersTypeOK, OrderMoves
    <2>5. QED BY <2>2, <2>3, <2>4
  <1>7. CASE \E o \in Orders : Sell(o) \/ Amend(o) \/ Import(o) \/ Park(o)
    BY <1>3, <1>4, <1>5, <1>6, <1>7
  <1>8. CASE Midnight BY <1>2, <1>8 DEF Midnight
  <1>9. CASE TimerFires BY <1>2, <1>9 DEF TimerFires, Begin
  <1>10. CASE \E asked \in ManualDaysBack : OperatorRuns(asked)
    BY <1>2, <1>10 DEF OperatorRuns, Begin
  <1>11. CASE \E s \in Sweepers : Sweep(s)
    BY <1>2, <1>11 DEF Sweep, Aggregate, ListLedger, UpsertSnapshot, SweepThrows
  <1>12. CASE UNCHANGED vars BY <1>2, <1>12 DEF vars
  <1>13. QED BY <1>7, <1>8, <1>9, <1>10, <1>11, <1>12 DEF Next

LEMMA PastStep ==
    ASSUME BooksInv, [Next]_vars
    PROVE  PastInv' /\ today' \in Nat \ {0} /\ today <= today'
  <1>1. /\ today \in Nat \ {0} /\ today' \in Nat \ {0} /\ today <= today'
        /\ OrdersTypeOK' /\ OrdersTypeOK
    BY OrdersMove DEF BooksInv, BooksTypeOK, OrdersTypeOK
  <1>2. ASSUME NEW o \in Orders
        PROVE  /\ processed'[o] <= today' /\ ledger'[o].synced <= today'
               /\ \A d \in everSynced'[o] : d <= today'
               /\ ledger'[o].status = "imported" =>
                     ledger'[o].synced \in everSynced'[o] /\ ledger'[o].total <= price'[o]
    <2>1. OrderMoves(o) BY OrdersMove
    <2>2. /\ processed[o] \in Nat /\ processed'[o] \in Nat
          /\ ledger[o].synced \in Nat /\ ledger'[o].synced \in Nat
          /\ everSynced[o] \subseteq Nat /\ everSynced'[o] \subseteq Nat
          /\ price[o] \in Nat /\ price'[o] \in Nat
          /\ ledger[o].total \in Nat /\ ledger'[o].total \in Nat
      BY <1>1 DEF OrdersTypeOK, Prices
    <2>3. /\ processed[o] <= today /\ ledger[o].synced <= today
          /\ \A d \in everSynced[o] : d <= today
          /\ ledger[o].status = "imported" =>
                ledger[o].synced \in everSynced[o] /\ ledger[o].total <= price[o]
      BY DEF BooksInv, PastInv
    <2>4. processed'[o] <= today' BY <1>1, <2>1, <2>2, <2>3 DEF OrderMoves
    <2>5. ledger'[o].synced <= today' BY <1>1, <2>1, <2>2, <2>3 DEF OrderMoves
    <2>6. \A d \in everSynced'[o] : d <= today' BY <1>1, <2>1, <2>2, <2>3 DEF OrderMoves
    <2>7. ASSUME ledger'[o].status = "imported"
          PROVE  ledger'[o].synced \in everSynced'[o] /\ ledger'[o].total <= price'[o]
      BY <1>1, <2>1, <2>2, <2>3, <2>7 DEF OrderMoves
    <2>8. QED BY <2>4, <2>5, <2>6, <2>7
  <1>3. QED BY <1>1, <1>2 DEF PastInv

(* A day that is over.                                                     *)
LEMMA PastStands ==
    ASSUME BooksInv, [Next]_vars, NEW c, NEW d \in Nat \ {0}, d < today
    PROVE  /\ Sold(c, d)' = Sold(c, d) /\ SyncedOn(c, d)' = SyncedOn(c, d)
           /\ Complete(c, d)' => Complete(c, d) /\ Sum(Sold(c, d), price)' = Sum(Sold(c, d), price)
  <1>1. /\ today \in Nat \ {0} /\ OrdersTypeOK /\ OrdersTypeOK' /\ PastInv
        /\ \A o \in Orders : OrderMoves(o)
    BY OrdersMove DEF BooksInv, BooksTypeOK, OrdersTypeOK
  <1>2. ASSUME NEW o \in Orders
        PROVE  /\ processed'[o] = d <=> processed[o] = d
               /\ d \in everSynced'[o] <=> d \in everSynced[o]
               /\ ledger[o].synced >= d => ledger'[o].synced >= d
               /\ ledger'[o].status = "imported" /\ ledger'[o].synced = d => ledger'[o] = ledger[o]
    <2>1. OrderMoves(o) BY <1>1
    <2>2. ledger[o].synced \in Nat /\ ledger'[o].synced \in Nat BY <1>1 DEF OrdersTypeOK
    <2>3. QED BY <1>1, <2>1, <2>2 DEF OrderMoves, NoDay
  <1>3. Sold(c, d)' = Sold(c, d) BY <1>2 DEF Sold
  <1>4. SyncedOn(c, d)' = SyncedOn(c, d) BY <1>2 DEF SyncedOn
  <1>5. ASSUME Complete(c, d)'
        PROVE  Complete(c, d) /\ Sum(Sold(c, d), price)' = Sum(Sold(c, d), price)
    <2>1. ASSUME NEW o \in Sold(c, d)
          PROVE  /\ o \in Imported(c) /\ ledger[o].synced = d /\ ledger[o].total = price[o]
                 /\ price'[o] = price[o]
      <3>1. /\ o \in Orders /\ ConnectionOf[o] = c /\ ledger'[o].status = "imported"
            /\ ledger'[o].synced = d /\ ledger'[o].total = price'[o]
        BY <1>3, <1>5, <2>1 DEF Complete, Imported, Sold
      <3>2. ledger'[o] = ledger[o] BY <1>2, <3>1
      <3>3. ledger[o].total <= price[o] BY <1>1, <3>1, <3>2 DEF PastInv
      <3>4. price'[o] = price[o] BY <1>1, <3>1, <3>2, <3>3 DEF OrderMoves
      <3>5. QED BY <3>1, <3>2, <3>4 DEF Imported
    <2>2. PagesSuffice(c, d)
      <3> DEFINE later == {o \in Orders : ConnectionOf[o] = c /\ ledger[o].synced >= d}
                 laterNow == {o \in Orders : ConnectionOf[o] = c /\ ledger'[o].synced >= d}
      <3>1. later \subseteq laterNow BY <1>2
      <3>2. Cardinality(later) <= Cardinality(laterNow)
        BY <3>1, OrdersCount, FS_Subset
      <3>3. Cardinality(later) \in Nat /\ Cardinality(laterNow) \in Nat BY OrdersCount
      <3>4. Cardinality(laterNow) <= LedgerPage /\ Cardinality(Sold(c, d)) <= AggregatePage
        BY <1>3, <1>5 DEF Complete, PagesSuffice
      <3>5. LedgerPage \in Nat BY ReconciliationAssumption
      <3>6. Cardinality(later) <= LedgerPage BY <3>2, <3>3, <3>4, <3>5
      <3>7. QED BY <3>4, <3>6 DEF PagesSuffice
    <2>3. Complete(c, d) BY <1>3, <1>4, <1>5, <2>1, <2>2 DEF Complete
    <2>4. [o \in Sold(c, d) |-> price'[o]] = [o \in Sold(c, d) |-> price[o]] BY <2>1
    <2>5. Sum(Sold(c, d), price)' = Sum(Sold(c, d), price) BY <1>3, <2>4 DEF Sum
    <2>6. QED BY <2>3, <2>5
  <1>6. QED BY <1>3, <1>4, <1>5

LEMMA KnowsStands ==
    ASSUME BooksInv, [Next]_vars, NEW at, Knows(at)
    PROVE  Knows(at)'
  <1> DEFINE c == at.connection
             d == at.began - at.back
  <1>1. today \in Nat \ {0} /\ today' \in Nat \ {0} /\ today <= today'
    BY PastStep DEF BooksInv, BooksTypeOK
  <1>2. CASE at.step = "idle" BY <1>2 DEF Knows
  <1>3. CASE at.step # "idle"
    <2>1. /\ IsSweep(at) /\ at.step \in {"aggregate", "list", "upsert"}
          /\ c \in 1..Connections /\ at.began \in Nat /\ at.began <= today
          /\ at.back \in Nat \ {0} /\ at.back < at.began
      BY <1>3 DEF Knows
    <2>2. d \in Nat \ {0} /\ d < today BY <1>1, <2>1
    <2> HIDE DEF c, d
    <2>3. /\ Sold(c, d)' = Sold(c, d) /\ SyncedOn(c, d)' = SyncedOn(c, d)
          /\ Complete(c, d)' => Complete(c, d) /\ Sum(Sold(c, d), price)' = Sum(Sold(c, d), price)
      BY <2>2, PastStands
    <2>4. at.began <= today' BY <1>1, <2>1
    <2>5. /\ at.step \in {"list", "upsert"} =>
                /\ Cardinality(Sold(c, d)) <= AggregatePage =>
                      at.shopify.count = Cardinality(Sold(c, d))
                /\ Complete(c, d) => at.shopify = Sum(Sold(c, d), price)
          /\ at.step = "upsert" =>
                /\ at.ns.count <= Cardinality(SyncedOn(c, d)) /\ at.ns.count \in Nat
                /\ Complete(c, d) => at.ns = Sum(Sold(c, d), price)
      BY DEF Knows, c, d
    <2>6. /\ at.step \in {"list", "upsert"} =>
                /\ Cardinality(Sold(c, d)') <= AggregatePage =>
                      at.shopify.count = Cardinality(Sold(c, d)')
                /\ Complete(c, d)' => at.shopify = Sum(Sold(c, d), price)'
          /\ at.step = "upsert" =>
                /\ at.ns.count <= Cardinality(SyncedOn(c, d)') /\ at.ns.count \in Nat
                /\ Complete(c, d)' => at.ns = Sum(Sold(c, d), price)'
      BY <2>3, <2>5
    <2>7. QED BY <2>1, <2>4, <2>6 DEF Knows, c, d
  <1>4. QED BY <1>2, <1>3

LEMMA TellsStands ==
    ASSUME BooksInv, [Next]_vars, NEW c, NEW d \in Days, NEW verdict, Tells(c, d, verdict)
    PROVE  Tells(c, d, verdict)'
  <1>1. /\ today \in Nat \ {0} /\ today' \in Nat \ {0} /\ today <= today' /\ d \in Nat \ {0}
    BY PastStep DEF BooksInv, BooksTypeOK, Days
  <1>2. CASE d >= today BY <1>1, <1>2 DEF Tells
  <1>3. CASE d < today
    <2>1. /\ Sold(c, d)' = Sold(c, d) /\ SyncedOn(c, d)' = SyncedOn(c, d)
          /\ Complete(c, d)' => Complete(c, d)
      BY <1>1, <1>3, PastStands
    <2>2. ~(d >= today') BY <1>1, <1>3
    <2>3. QED BY <2>1, <2>2 DEF Tells
  <1>4. QED BY <1>1, <1>2, <1>3

(* A sweep that begins, or goes on to the next pair, knows nothing yet.    *)
LEMMA KnowsNothing ==
    ASSUME BooksInv, NEW at, IsSweep(at), at.step = "aggregate", at.connection \in 1..Connections,
           at.began \in Nat, at.began <= today, at.back \in Nat \ {0}, at.back < at.began
    PROVE  Knows(at)
  BY DEF Knows

LEMMA IdleKnows == Knows(Idle)
  <1>1. IsSweep(Idle) /\ Idle.step = "idle" BY DEF IsSweep, Idle
  <1>2. QED BY <1>1 DEF Knows

(* What Shopify answers about a day whose orders are on the page.          *)
LEMMA ShopifyAnswers ==
    ASSUME NEW c, NEW d, NEW reading \in Aggregates(c, d),
           Cardinality(Sold(c, d)) <= AggregatePage
    PROVE  reading = Sum(Sold(c, d), price)
  <1> DEFINE n == Cardinality(Sold(c, d))
  <1>1. Sold(c, d) \in SUBSET Orders BY DEF Sold
  <1>2. n \in Nat /\ IsFiniteSet(Sold(c, d)) /\ AggregatePage \in Nat
    BY <1>1, OrdersCount, ReconciliationAssumption
  <1>3. Min({AggregatePage, n}) = n BY <1>2, MinOfTwo
  <1>4. PICK S \in kSubset(Min({AggregatePage, n}), Sold(c, d)) : reading = Sum(S, price)
    BY DEF Aggregates
  <1>5. S \in SUBSET Sold(c, d) /\ Cardinality(S) = n BY <1>3, <1>4 DEF kSubset
  <1>6. S = Sold(c, d) BY <1>2, <1>5, FS_Subset
  <1>7. QED BY <1>4, <1>6

(***************************************************************************)
(* The ledger's side counts no order that was not imported on the day.     *)
(* The rows of a complete day are on the page: the page begins with the    *)
(* newest rows, and they and what is newer fit.                            *)
(***************************************************************************)
LEMMA LedgerAnswers ==
    ASSUME BooksInv, NEW c, NEW d \in Nat, NEW reading \in LedgerTotals(c, d)
    PROVE  /\ reading.count \in Nat /\ reading.count <= Cardinality(SyncedOn(c, d))
           /\ Complete(c, d) => reading = Sum(Sold(c, d), price)
  <1> DEFINE rows == Imported(c)
             n == Cardinality(rows)
  <1>1. PICK S \in Newest(rows) :
           reading = Sum({o \in S : ledger[o].synced = d}, [o \in S |-> ledger[o].total])
    BY DEF LedgerTotals
  <1> DEFINE T == {o \in S : ledger[o].synced = d}
  <1>2. /\ S \in SUBSET rows /\ Cardinality(S) = Min({LedgerPage, n})
        /\ \A o \in S, cut \in rows \ S : ledger[o].synced >= ledger[cut].synced
    BY <1>1 DEF Newest, kSubset
  <1>3. /\ rows \in SUBSET Orders /\ S \in SUBSET Orders /\ T \in SUBSET Orders
        /\ SyncedOn(c, d) \in SUBSET Orders /\ Sold(c, d) \in SUBSET Orders
    BY <1>2 DEF Imported, SyncedOn, Sold
  <1>4. T \subseteq SyncedOn(c, d)
    BY <1>2, <1>3 DEF Imported, SyncedOn, BooksInv, PastInv
  <1>5. reading.count = Cardinality(T) BY <1>1 DEF Sum
  <1>6. Cardinality(T) \in Nat /\ Cardinality(T) <= Cardinality(SyncedOn(c, d))
    <2>1. IsFiniteSet(SyncedOn(c, d)) BY <1>3, OrdersCount
    <2>2. QED BY <1>3, <1>4, <2>1, OrdersCount, FS_Subset
  <1>7. ASSUME Complete(c, d) PROVE reading = Sum(Sold(c, d), price)
    <2>1. ASSUME NEW o \in Sold(c, d), o \notin S PROVE FALSE
      <3> DEFINE later == {p \in Orders : ConnectionOf[p] = c /\ ledger[p].synced >= d}
      <3>1. o \in rows \ S /\ ledger[o].synced = d BY <1>7, <2>1 DEF Complete
      <3>2. \A p \in S : ConnectionOf[p] = c /\ ledger[p].synced >= d
        BY <1>2, <3>1 DEF Imported
      <3>3. o \in later
        BY <3>1 DEF Imported
      <3>4. S \cup {o} \subseteq later BY <1>3, <3>2, <3>3
      <3>5. IsFiniteSet(S) /\ Cardinality(S) \in Nat /\ IsFiniteSet(rows) /\ n \in Nat
        BY <1>3, OrdersCount
      <3>6. Cardinality(S \cup {o}) = Cardinality(S) + 1 BY <3>1, <3>5, FS_AddElement
      <3>7. later \in SUBSET Orders /\ IsFiniteSet(later) /\ Cardinality(later) \in Nat
        BY OrdersCount
      <3>8. Cardinality(S \cup {o}) <= Cardinality(later) BY <3>4, <3>7, FS_Subset
      <3>9. Cardinality(later) <= LedgerPage BY <1>7 DEF Complete, PagesSuffice
      <3>10. Cardinality(S) # n /\ Cardinality(S) <= n BY <1>2, <3>1, <3>5, FS_Subset
      <3>11. LedgerPage \in Nat BY ReconciliationAssumption
      <3>12. Cardinality(S) = LedgerPage BY <1>2, <3>5, <3>10, <3>11, MinOfTwo
      <3>13. QED BY <3>5, <3>6, <3>7, <3>8, <3>9, <3>11, <3>12
    <2>2. T = Sold(c, d)
      <3>1. T \subseteq Sold(c, d) BY <1>4, <1>7 DEF Complete
      <3>2. Sold(c, d) \subseteq T BY <1>7, <2>1 DEF Complete
      <3>3. QED BY <3>1, <3>2
    <2>3. ASSUME NEW o \in T PROVE [p \in S |-> ledger[p].total][o] = price[o]
      BY <1>7, <2>2, <2>3 DEF Complete
    <2>4. [o \in T |-> [p \in S |-> ledger[p].total][o]] = [o \in Sold(c, d) |-> price[o]]
      BY <2>2, <2>3
    <2>5. reading = Sum(T, [p \in S |-> ledger[p].total]) BY <1>1
    <2> HIDE DEF T
    <2>6. QED BY <2>2, <2>4, <2>5 DEF Sum
  <1>8. QED BY <1>5, <1>6, <1>7

(* Where a sweep goes after it has written a snapshot.                     *)
LEMMA GoesOn ==
    ASSUME BooksInv, NEW s \in Sweepers, sweep[s].step = "upsert"
    PROVE  Knows(IF After(s) = Idle THEN Idle
                 ELSE [After(s) EXCEPT !.step = "aggregate", !.shopify = Nothing, !.ns = Nothing])
  <1> DEFINE at == sweep[s]
             after == After(s)
             next == [after EXCEPT !.step = "aggregate", !.shopify = Nothing, !.ns = Nothing]
  <1>1. Knows(at) BY DEF BooksInv
  <1>2. /\ IsSweep(at) /\ at.connection \in 1..Connections
        /\ at.began \in Nat /\ at.began <= today /\ at.back \in Nat \ {0} /\ at.back < at.began
    BY <1>1 DEF Knows
  <1>3. \/ after = [at EXCEPT !.back = at.back + 1] /\ at.back + 1 < at.began
        \/ after = [at EXCEPT !.connection = at.connection + 1, !.back = 1] /\ at.connection < Connections
        \/ after = Idle
    <2>1. CASE at.back < at.daysBack /\ at.back + 1 < at.began BY <2>1 DEF After
    <2>2. CASE ~(at.back < at.daysBack /\ at.back + 1 < at.began)
      <3>1. CASE (at.back = at.daysBack \/ at.back + 1 = at.began) /\ at.connection < Connections
        BY <2>2, <3>1 DEF After
      <3>2. CASE ~((at.back = at.daysBack \/ at.back + 1 = at.began) /\ at.connection < Connections)
        BY <2>2, <3>2 DEF After
      <3>3. QED BY <3>1, <3>2
    <2>3. QED BY <2>1, <2>2
  <1>4. ASSUME after # Idle PROVE Knows(next)
    <2>1. /\ IsSweep(after) /\ after.began = at.began /\ after.connection \in 1..Connections
          /\ after.back \in Nat \ {0} /\ after.back < at.began
      <3> HIDE DEF at, after
      <3>1. CASE after = [at EXCEPT !.back = at.back + 1] /\ at.back + 1 < at.began
        BY <1>2, <3>1 DEF IsSweep
      <3>2. CASE /\ after = [at EXCEPT !.connection = at.connection + 1, !.back = 1]
                 /\ at.connection < Connections
        <4>1. Connections \in Nat BY Numbers
        <4>2. at.connection + 1 \in 1..Connections BY <1>2, <3>2, <4>1
        <4>3. 1 < at.began BY <1>2
        <4>4. QED BY <1>2, <3>2, <4>2, <4>3 DEF IsSweep
      <3>3. QED BY <1>3, <1>4, <3>1, <3>2
    <2>2. /\ IsSweep(next) /\ next.step = "aggregate" /\ next.began = at.began
          /\ next.connection = after.connection /\ next.back = after.back
      <3> HIDE DEF at, after
      <3>1. QED BY <2>1 DEF IsSweep
    <2> HIDE DEF next, after, at
    <2>3. QED BY <1>2, <2>1, <2>2, KnowsNothing
  <1>5. QED BY <1>4, IdleKnows

(* A sweep takes one of its steps.                                         *)
LEMMA SweepMoves ==
    ASSUME BooksInv, NEW s \in Sweepers, Sweep(s)
    PROVE  \E at : Knows(at) /\ sweep' = [sweep EXCEPT ![s] = at]
  <1> DEFINE was == sweep[s]
             c == was.connection
             d == was.began - was.back
  <1>1. Knows(was) /\ sweep = [v \in Sweepers |-> sweep[v]] BY DEF BooksInv, BooksTypeOK
  <1>2. BusinessDate(s) = d BY DEF BusinessDate
  <1>3. CASE Aggregate(s)
    <2>1. /\ was.step = "aggregate"
          /\ \E reading \in Aggregates(was.connection, BusinessDate(s)) :
                sweep' = [sweep EXCEPT ![s].step = "list", ![s].shopify = reading]
      BY <1>3 DEF Aggregate
    <2>2. PICK reading \in Aggregates(c, d) :
             sweep' = [sweep EXCEPT ![s].step = "list", ![s].shopify = reading]
      BY <1>2, <2>1
    <2> DEFINE at == [was EXCEPT !.step = "list", !.shopify = reading]
    <2>3. sweep' = [sweep EXCEPT ![s] = at] BY <1>1, <2>2
    <2>4. /\ IsSweep(was) /\ c \in 1..Connections /\ was.began \in Nat /\ was.began <= today
          /\ was.back \in Nat \ {0} /\ was.back < was.began
      BY <1>1, <2>1 DEF Knows
    <2>5. /\ IsSweep(at) /\ at.step = "list" /\ at.shopify = reading /\ at.began = was.began
          /\ at.connection = was.connection /\ at.back = was.back
      <3> HIDE DEF was
      <3>1. QED BY <2>4 DEF IsSweep
    <2>6. Cardinality(Sold(c, d)) <= AggregatePage => reading = Sum(Sold(c, d), price)
      BY ShopifyAnswers
    <2>7. Complete(c, d) => Cardinality(Sold(c, d)) <= AggregatePage BY DEF Complete, PagesSuffice
    <2>8. Sum(Sold(c, d), price).count = Cardinality(Sold(c, d)) BY DEF Sum
    <2>9. Knows(at)
      <3> HIDE DEF was, at
      <3>1. QED BY <2>4, <2>5, <2>6, <2>7, <2>8 DEF Knows
    <2>10. QED BY <2>3, <2>9
  <1>4. CASE ListLedger(s)
    <2>1. /\ was.step = "list"
          /\ \E reading \in LedgerTotals(was.connection, BusinessDate(s)) :
                sweep' = [sweep EXCEPT ![s].step = "upsert", ![s].ns = reading]
      BY <1>4 DEF ListLedger
    <2>2. PICK reading \in LedgerTotals(c, d) :
             sweep' = [sweep EXCEPT ![s].step = "upsert", ![s].ns = reading]
      BY <1>2, <2>1
    <2> DEFINE at == [was EXCEPT !.step = "upsert", !.ns = reading]
    <2>3. sweep' = [sweep EXCEPT ![s] = at] BY <1>1, <2>2
    <2>4. /\ IsSweep(was) /\ c \in 1..Connections /\ was.began \in Nat /\ was.began <= today
          /\ was.back \in Nat \ {0} /\ was.back < was.began
          /\ Cardinality(Sold(c, d)) <= AggregatePage => was.shopify.count = Cardinality(Sold(c, d))
          /\ Complete(c, d) => was.shopify = Sum(Sold(c, d), price)
      BY <1>1, <2>1 DEF Knows
    <2>5. /\ IsSweep(at) /\ at.step = "upsert" /\ at.ns = reading /\ at.shopify = was.shopify
          /\ at.began = was.began /\ at.connection = was.connection /\ at.back = was.back
      <3> HIDE DEF was
      <3>1. QED BY <2>4 DEF IsSweep
    <2>6. /\ reading.count \in Nat /\ reading.count <= Cardinality(SyncedOn(c, d))
          /\ Complete(c, d) => reading = Sum(Sold(c, d), price)
      <3>1. d \in Nat BY <2>4
      <3>2. QED BY <3>1, LedgerAnswers
    <2>7. Knows(at)
      <3> HIDE DEF was, at
      <3>1. QED BY <2>4, <2>5, <2>6 DEF Knows
    <2>8. QED BY <2>3, <2>7
  <1>5. CASE UpsertSnapshot(s)
    <2>1. QED BY <1>5, GoesOn DEF UpsertSnapshot
  <1>6. CASE SweepThrows(s) BY <1>6, IdleKnows DEF SweepThrows
  <1>7. QED BY <1>3, <1>4, <1>5, <1>6 DEF Sweep

LEMMA SweepBegins ==
    ASSUME BooksInv, NEW s \in Sweepers, NEW daysBack, Begin(s, daysBack)
    PROVE  \E at : Knows(at) /\ sweep' = [sweep EXCEPT ![s] = at]
  <1> DEFINE at == [Idle EXCEPT !.step = "aggregate", !.began = today, !.daysBack = daysBack]
  <1>1. Knows(sweep[s]) /\ sweep = [v \in Sweepers |-> sweep[v]] BY DEF BooksInv, BooksTypeOK
  <1>2. /\ sweep[s] = Idle /\ today > 1
        /\ sweep' = [sweep EXCEPT ![s].step = "aggregate", ![s].began = today,
                                  ![s].daysBack = daysBack]
    BY <1>1 DEF Begin, Knows
  <1>3. sweep' = [sweep EXCEPT ![s] = at] BY <1>1, <1>2
  <1>4. /\ IsSweep(at) /\ at.step = "aggregate" /\ at.began = today
        /\ at.connection = 1 /\ at.back = 1
    BY DEF IsSweep, Idle
  <1>5. today \in Nat /\ 1 \in 1..Connections BY Numbers DEF BooksInv, BooksTypeOK
  <1> HIDE DEF at
  <1>6. Knows(at) BY <1>2, <1>4, <1>5, KnowsNothing
  <1>7. QED BY <1>3, <1>6

(* The snapshot that is written is what the two readings tell.             *)
LEMMA SnapshotTells ==
    ASSUME BooksInv, NEW s \in Sweepers, sweep[s].step = "upsert"
    PROVE  Tells(sweep[s].connection, BusinessDate(s),
                 IF Drifts(sweep[s].shopify, sweep[s].ns) THEN "drift" ELSE "agrees")
  <1> DEFINE at == sweep[s]
             c == at.connection
             d == at.began - at.back
  <1>1. /\ today \in Nat /\ at.began \in Nat /\ at.began <= today
        /\ at.back \in Nat \ {0} /\ at.back < at.began
        /\ Cardinality(Sold(c, d)) <= AggregatePage => at.shopify.count = Cardinality(Sold(c, d))
        /\ Complete(c, d) => at.shopify = Sum(Sold(c, d), price) /\ at.ns = Sum(Sold(c, d), price)
        /\ at.ns.count <= Cardinality(SyncedOn(c, d))
    <2>1. Knows(at) /\ at.step = "upsert" BY DEF BooksInv
    <2>2. QED BY <2>1 DEF Knows, BooksInv, BooksTypeOK
  <1>2. ~(d >= today) BY <1>1
  <1>3. BusinessDate(s) = d BY DEF BusinessDate
  <1> HIDE DEF c, d, at
  <1>4. Drifts(at.shopify, at.ns) => ~Complete(c, d) BY <1>1 DEF Drifts
  <1>5. ~Drifts(at.shopify, at.ns) /\ Cardinality(Sold(c, d)) <= AggregatePage =>
           Cardinality(Sold(c, d)) <= Cardinality(SyncedOn(c, d))
    BY <1>1 DEF Drifts
  <1>6. Tells(c, d, IF Drifts(at.shopify, at.ns) THEN "drift" ELSE "agrees")
    BY <1>2, <1>4, <1>5 DEF Tells
  <1>7. QED BY <1>3, <1>6 DEF at, c

LEMMA BooksStep == BooksInv /\ [Next]_vars => BooksInv'
  <1> SUFFICES ASSUME BooksInv, [Next]_vars PROVE BooksInv' OBVIOUS
  <1>1. /\ snapshots \in [1..Connections -> [Days -> Verdicts]]
        /\ sweep = [s \in Sweepers |-> sweep[s]]
    BY DEF BooksInv, BooksTypeOK
  <1>2. PastInv' /\ today' \in Nat \ {0} /\ OrdersTypeOK' BY PastStep, OrdersMove
  <1>3. ASSUME \/ UNCHANGED sweep
               \/ \E s \in Sweepers : \E at : Knows(at) /\ sweep' = [sweep EXCEPT ![s] = at]
        PROVE  /\ sweep' = [s \in Sweepers |-> sweep'[s]]
               /\ \A v \in Sweepers : Knows(sweep[v])'
    <2>1. \A at : Knows(at) => Knows(at)' BY KnowsStands
    <2>2. CASE UNCHANGED sweep
      <3>1. \A v \in Sweepers : Knows(sweep[v]) /\ sweep'[v] = sweep[v] BY <2>2 DEF BooksInv
      <3>2. QED BY <1>1, <2>1, <2>2, <3>1
    <2>3. CASE \E s \in Sweepers : \E at : Knows(at) /\ sweep' = [sweep EXCEPT ![s] = at]
      <3>0. PICK s \in Sweepers : \E at : Knows(at) /\ sweep' = [sweep EXCEPT ![s] = at] BY <2>3
      <3>1. PICK at : Knows(at) /\ sweep' = [sweep EXCEPT ![s] = at] BY <3>0
      <3>2. \A v \in Sweepers : sweep'[v] = IF v = s THEN at ELSE sweep[v] BY <1>1, <3>1
      <3>3. \A v \in Sweepers : Knows(sweep[v]) BY DEF BooksInv
      <3>4. \A v \in Sweepers : Knows(sweep[v])' BY <2>1, <3>1, <3>2, <3>3
      <3>5. QED BY <1>1, <3>1, <3>4
    <2>4. QED BY <1>3, <2>2, <2>3
  <1>4. ASSUME \/ UNCHANGED snapshots
               \/ \E c, d, verdict : /\ verdict \in Verdicts /\ Tells(c, d, verdict)
                                     /\ snapshots' = [snapshots EXCEPT ![c][d] = verdict]
        PROVE  /\ snapshots' \in [1..Connections -> [Days -> Verdicts]]
               /\ \A c \in 1..Connections, d \in Days : Tells(c, d, snapshots[c][d])'
    <2>1. \A c, verdict : \A d \in Days : Tells(c, d, verdict) => Tells(c, d, verdict)'
      BY TellsStands
    <2>2. \A c \in 1..Connections, d \in Days : Tells(c, d, snapshots[c][d]) BY DEF BooksInv
    <2>3. CASE UNCHANGED snapshots BY <1>1, <2>1, <2>2, <2>3
    <2>4. CASE \E c, d, verdict : /\ verdict \in Verdicts /\ Tells(c, d, verdict)
                                  /\ snapshots' = [snapshots EXCEPT ![c][d] = verdict]
      <3>1. PICK c, d, verdict : /\ verdict \in Verdicts /\ Tells(c, d, verdict)
                                 /\ snapshots' = [snapshots EXCEPT ![c][d] = verdict]
        BY <2>4
      <3>2. /\ snapshots' \in [1..Connections -> [Days -> Verdicts]]
            /\ \A b \in 1..Connections, e \in Days :
                  snapshots'[b][e] = IF b = c /\ e = d THEN verdict ELSE snapshots[b][e]
        BY <1>1, <3>1
      <3>3. ASSUME NEW b \in 1..Connections, NEW e \in Days
            PROVE  Tells(b, e, snapshots[b][e])'
        <4>1. CASE b = c /\ e = d
          <5>1. snapshots'[b][e] = verdict /\ Tells(b, e, verdict)' BY <2>1, <3>1, <3>2, <4>1
          <5>2. QED BY <5>1
        <4>2. CASE ~(b = c /\ e = d)
          <5>1. /\ snapshots'[b][e] = snapshots[b][e]
                /\ \A verdictNow : Tells(b, e, verdictNow) => Tells(b, e, verdictNow)'
            BY <2>1, <3>2, <4>2
          <5>2. QED BY <2>2, <5>1
        <4>3. QED BY <4>1, <4>2
      <3>4. QED BY <3>2, <3>3
    <2>5. QED BY <1>4, <2>3, <2>4
  <1>5. ASSUME \/ UNCHANGED sweep
               \/ \E s \in Sweepers : \E at : Knows(at) /\ sweep' = [sweep EXCEPT ![s] = at],
               \/ UNCHANGED snapshots
               \/ \E c, d, verdict : /\ verdict \in Verdicts /\ Tells(c, d, verdict)
                                     /\ snapshots' = [snapshots EXCEPT ![c][d] = verdict]
        PROVE  BooksInv'
    <2>1. /\ sweep' = [s \in Sweepers |-> sweep'[s]] /\ \A v \in Sweepers : Knows(sweep[v])'
      BY <1>3, <1>5
    <2>2. /\ snapshots' \in [1..Connections -> [Days -> Verdicts]]
          /\ \A c \in 1..Connections, d \in Days : Tells(c, d, snapshots[c][d])'
      BY <1>4, <1>5
    <2>3. BooksTypeOK' BY <1>2, <2>1, <2>2 DEF BooksTypeOK, OrdersTypeOK
    <2>4. QED BY <1>2, <2>1, <2>2, <2>3 DEF BooksInv
  <1>6. CASE \E o \in Orders : Sell(o) \/ Amend(o) \/ Import(o) \/ Park(o)
    BY <1>5, <1>6 DEF Sell, Amend, Import, Park
  <1>7. CASE Midnight BY <1>5, <1>7 DEF Midnight
  <1>8. CASE TimerFires
    <2>1. CASE Begin("timer", DaysBack)
      <3>1. "timer" \in Sweepers /\ UNCHANGED snapshots BY <2>1 DEF Sweepers, Begin
      <3>2. \E at : Knows(at) /\ sweep' = [sweep EXCEPT !["timer"] = at] BY <2>1, <3>1, SweepBegins
      <3>3. QED BY <1>5, <3>1, <3>2
    <2>2. CASE UNCHANGED <<today, orders, snapshots, sweep, left>> BY <1>5, <2>2
    <2>3. QED BY <1>8, <2>1, <2>2 DEF TimerFires
  <1>9. CASE \E asked \in ManualDaysBack : OperatorRuns(asked)
    <2>1. PICK daysBack : Begin("operator", daysBack) BY <1>9 DEF OperatorRuns
    <2>2. "operator" \in Sweepers /\ UNCHANGED snapshots BY <2>1 DEF Sweepers, Begin
    <2>3. \E at : Knows(at) /\ sweep' = [sweep EXCEPT !["operator"] = at] BY <2>1, <2>2, SweepBegins
    <2>4. QED BY <1>5, <2>2, <2>3
  <1>10. CASE \E s \in Sweepers : Sweep(s)
    <2>1. PICK s \in Sweepers : Sweep(s) BY <1>10
    <2>2. \E at : Knows(at) /\ sweep' = [sweep EXCEPT ![s] = at] BY <2>1, SweepMoves
    <2>3. CASE Aggregate(s) \/ ListLedger(s) \/ SweepThrows(s)
      <3>1. UNCHANGED snapshots BY <2>3 DEF Aggregate, ListLedger, SweepThrows
      <3>2. QED BY <1>5, <2>2, <3>1
    <2>4. CASE UpsertSnapshot(s)
      <3> DEFINE verdict == IF Drifts(sweep[s].shopify, sweep[s].ns) THEN "drift" ELSE "agrees"
      <3>1. /\ sweep[s].step = "upsert"
            /\ snapshots' = [snapshots EXCEPT ![sweep[s].connection][BusinessDate(s)] = verdict]
        BY <2>4 DEF UpsertSnapshot
      <3>2. Tells(sweep[s].connection, BusinessDate(s), verdict) BY <3>1, SnapshotTells
      <3>3. verdict \in Verdicts BY DEF Verdicts
      <3> HIDE DEF verdict
      <3>4. \E c, d, v : /\ v \in Verdicts /\ Tells(c, d, v)
                         /\ snapshots' = [snapshots EXCEPT ![c][d] = v]
        BY <3>1, <3>2, <3>3
      <3>5. QED BY <1>5, <2>2, <3>4
    <2>5. QED BY <2>1, <2>3, <2>4 DEF Sweep
  <1>11. CASE UNCHANGED vars BY <1>5, <1>11 DEF vars
  <1>12. QED BY <1>6, <1>7, <1>8, <1>9, <1>10, <1>11 DEF Next

LEMMA BooksInvHolds == Spec => []BooksInv
  <1>1. QED BY BooksInit, BooksStep, PTL DEF Spec

(***************************************************************************)
(* No sweep raises a false alarm, for any orders, connections, calendar,   *)
(* page sizes and sweeps, whatever happens between its three calls: a day  *)
(* that is complete is not a drift (reconcileOneDay).                      *)
(***************************************************************************)
THEOREM NoFalseAlarm == Spec => []CompleteDaysAgree
  <1>1. BooksInv => CompleteDaysAgree
    BY DEF BooksInv, Tells, Complete, CompleteDaysAgree
  <1>2. QED BY <1>1, BooksInvHolds, PTL

(***************************************************************************)
(* No sweep misses a loss: what was imported on a day, as far as the sweep *)
(* sees it, is less than what was sold, and the counts differ              *)
(* (reconcileOneDay and its count of rows synced on the business date).    *)
(***************************************************************************)
THEOREM LossesAreSeen == Spec => []LossesAreDrift
  <1>1. BooksInv => LossesAreDrift
    <2> SUFFICES ASSUME BooksInv, NEW c \in 1..Connections, NEW d \in Days,
                        SyncedOn(c, d) \subseteq Sold(c, d), SyncedOn(c, d) # Sold(c, d),
                        PagesSuffice(c, d), snapshots[c][d] = "agrees"
                 PROVE  FALSE
      BY DEF LossesAreDrift
    <2>1. Cardinality(Sold(c, d)) <= Cardinality(SyncedOn(c, d))
      BY DEF BooksInv, Tells, PagesSuffice
    <2>2. Sold(c, d) \in SUBSET Orders /\ SyncedOn(c, d) \in SUBSET Orders BY DEF Sold, SyncedOn
    <2>3. /\ IsFiniteSet(Sold(c, d)) /\ Cardinality(Sold(c, d)) \in Nat
          /\ Cardinality(SyncedOn(c, d)) \in Nat
      BY <2>2, OrdersCount
    <2>4. Cardinality(SyncedOn(c, d)) <= Cardinality(Sold(c, d)) BY <2>3, FS_Subset
    <2>5. Cardinality(Sold(c, d)) = Cardinality(SyncedOn(c, d)) BY <2>1, <2>3, <2>4
    <2>6. QED BY <2>3, <2>5, FS_Subset
  <1>2. QED BY <1>1, BooksInvHolds, PTL

=============================================================================
