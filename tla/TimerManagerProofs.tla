------------------------- MODULE TimerManagerProofs -------------------------
(***************************************************************************)
(* Theorems about TimerManager, for any timers, threads, delays and clock. *)
(*                                                                         *)
(* OneShotOnce is not inductive: the inductive invariant adds where a      *)
(* timer is in its life (not allocated, in flight, held) and that a spent  *)
(* one-shot timer has lost its callback for good.                          *)
(***************************************************************************)
EXTENDS TimerManager, TLAPS

\* The part of TypeOK that is about numbers.
NextCoversDelay == \A t \in Timers : m_ms[t] <= m_next[t]

\* What has not happened to a timer that is not in m_timers for the first time.
Untouched(t) ==
    /\ t \notin m_timers /\ t \notin cancelled /\ fired[t] = 0
    /\ \A th \in Threads : t \notin cbs[th]

UnusedFresh == \A t \in Timers : Unused(t) => Untouched(t) /\ ~m_cb[t]
InFlightFresh == \A t \in Timers : InFlight(t) => Untouched(t) /\ t \notin handles
InsertUnique == \A th, u \in Threads :
    (th # u /\ pc[th] = "insert" /\ pc[u] \in {"insert", "notify"})
        => self[th] # self[u]
ResetHeld == \A th \in Threads : pc[th] = "reset" => self[th] \in handles
Lifecycle == UnusedFresh /\ InFlightFresh /\ InsertUnique /\ ResetHeld

\* A one-shot timer that was listed, handed over or cancelled has no callback.
Spent(t) == fired[t] > 0 \/ t \in cancelled \/ \E th \in Threads : t \in cbs[th]
SpentIsDead == \A t \in Timers : ~m_recurring[t] /\ Spent(t) => ~m_cb[t]

LifeInv == CbIffQueued /\ Lifecycle /\ SpentIsDead /\ OneShotOnce
IInv == TypeOK /\ LifeInv

-----------------------------------------------------------------------------
\* Every thread of the pool starts with an empty manager.
LEMMA InitTypeOK == Init => TypeOK
<1> SUFFICES ASSUME Init PROVE TypeOK
  OBVIOUS
<1> USE DEF Init
<1>1. arg \in [Threads -> [ms : Nat, from_now : BOOLEAN]]
  BY DEF NoArg
<1>2. m_cb \in [Timers -> BOOLEAN] /\ m_recurring \in [Timers -> BOOLEAN]
      /\ announced \in [Threads -> BOOLEAN] /\ m_tickled \in BOOLEAN
  OBVIOUS
<1>3. pc \in [Threads -> PCs]
  BY DEF PCs
<1>4. QED
  BY <1>1, <1>2, <1>3, ClockAssumption DEF TypeOK, NextCoversDelay

\* Every operation keeps the types, and m_ms <= m_next: a timer's deadline is
\* always assigned as some clock value plus its delay.
LEMMA NextTypeOK == TypeOK /\ [Next]_vars => TypeOK'
<1> SUFFICES ASSUME TypeOK, [Next]_vars PROVE TypeOK'
  OBVIOUS
<1> USE DEF TypeOK, NextCoversDelay, PCs, fields, manager, locals,
        waiting, history
<1>1. CASE Tick
  BY <1>1 DEF Tick
<1>2. CASE SetClock
  BY <1>2, ClockAssumption DEF SetClock
<1>3. ASSUME NEW th \in Threads, NEW t \in Timers, NEW ms \in Delays,
             NEW recurring \in BOOLEAN, NewTimer(th, t, ms, recurring)
      PROVE TypeOK'
  BY <1>3, DelaysAssumption DEF NewTimer, Goto
<1>4. ASSUME NEW th \in Threads, addTimer(th) PROVE TypeOK'
  BY <1>4 DEF addTimer, InsertTimer, Goto, At
<1>5. ASSUME NEW th \in Threads, onTimerInsertedAtFront(th) PROVE TypeOK'
  BY <1>5 DEF onTimerInsertedAtFront, Goto, At
<1>6. ASSUME NEW th \in Threads, NEW t \in Timers, cancel(th, t) PROVE TypeOK'
  BY <1>6 DEF cancel
<1>7. ASSUME NEW th \in Threads, NEW t \in Timers, refresh(th, t) PROVE TypeOK'
  BY <1>7 DEF refresh
<1>8. ASSUME NEW th \in Threads, NEW t \in Timers, NEW ms \in Delays,
             NEW from_now \in BOOLEAN, reset(th, t, ms, from_now)
      PROVE TypeOK'
  BY <1>8, DelaysAssumption DEF reset, Goto
<1>9. ASSUME NEW th \in Threads, resetLocked(th) PROVE TypeOK'
  <2> DEFINE t == self[th]
             start == IF arg[th].from_now THEN now ELSE m_next[t] - m_ms[t]
             next == [m_next EXCEPT ![t] = start + arg[th].ms]
  <2>1. t \in Timers /\ arg[th].ms \in Nat /\ arg[th].from_now \in BOOLEAN
    BY <1>9 DEF resetLocked, At
  <2>2. start \in Nat
    BY <2>1
  <2>3. arg' \in [Threads -> [ms : Nat, from_now : BOOLEAN]]
    BY <1>9 DEF resetLocked, NoArg
  <2>4. CASE m_cb[t] /\ t \in m_timers
    <3> HIDE DEF start
    <3>1. /\ m_ms' = [m_ms EXCEPT ![t] = arg[th].ms]
          /\ m_next' = next
          /\ InsertTimer(th, t, next, m_timers \ {t})
      BY <1>9, <2>4 DEF resetLocked, start
    <3>2. m_next' \in [Timers -> Nat] /\ m_ms' \in [Timers -> Nat]
          /\ NextCoversDelay'
      BY <2>1, <2>2, <3>1
    <3> HIDE DEF next
    <3>3. QED
      BY <1>9, <2>1, <2>3, <3>1, <3>2 DEF resetLocked, InsertTimer, Goto
  <2>5. CASE ~(m_cb[t] /\ t \in m_timers)
    BY <1>9, <2>3, <2>5 DEF resetLocked, Goto
  <2>6. QED
    BY <2>4, <2>5
<1>10. ASSUME NEW th \in Threads, getNextTimer(th) PROVE TypeOK'
  BY <1>10 DEF getNextTimer, Goto, At
<1>11. ASSUME NEW th \in Threads, wake(th) PROVE TypeOK'
  BY <1>11 DEF wake, Goto, At
<1>12. ASSUME NEW th \in Threads, listEmptyCheck(th) PROVE TypeOK'
  BY <1>12 DEF listEmptyCheck, Goto, At
<1>13. ASSUME NEW th \in Threads, listExpiredTimer(th) PROVE TypeOK'
  <2> DEFINE n == now_ms[th]
             expired == IF Rollover(m_previouseTime, n) THEN m_timers ELSE Due(n)
             again == {t \in expired : m_recurring[t]}
  <2>1. expired \subseteq m_timers /\ again \subseteq m_timers
    BY DEF Due
  <2>2. CASE pc' = [pc EXCEPT ![th] = "segv"]
             /\ UNCHANGED <<m_timers, m_next, m_cb, cbs>>
    BY <1>13, <2>2 DEF listExpiredTimer, Reinserted, At
  <2>3. CASE /\ m_timers' = (m_timers \ expired) \union again
             /\ m_next' = [t \in Timers |->
                             IF t \in again THEN n + m_ms[t] ELSE m_next[t]]
             /\ m_cb' = [t \in Timers |-> m_cb[t] /\ t \notin expired \ again]
             /\ cbs' = [cbs EXCEPT ![th] = expired]
             /\ pc' = [pc EXCEPT ![th] = IF expired = {} THEN "ready" ELSE "fire"]
    <3> HIDE DEF n, expired, again
    <3>0. n \in Nat
      BY DEF n
    <3>1. m_next' \in [Timers -> Nat] /\ NextCoversDelay'
      BY <1>13, <2>3, <3>0 DEF listExpiredTimer, Reinserted
    <3>2. m_cb' \in [Timers -> BOOLEAN]
      BY <2>3, Zenon
    <3>3. m_timers' \subseteq Timers /\ cbs' \in [Threads -> SUBSET Timers]
      BY <2>1, <2>3
    <3>4. pc' \in [Threads -> PCs]
          /\ \A u \in Threads : pc'[u] \in {"insert", "reset", "notify"}
                                  => pc'[u] = pc[u]
      BY <2>3
    <3>5. now_ms' \in [Threads -> Nat] /\ m_previouseTime' \in Nat
      BY <1>13, <3>0 DEF listExpiredTimer, Reinserted, n
    <3>6. QED
      BY <1>13, <3>1, <3>2, <3>3, <3>4, <3>5 DEF listExpiredTimer, Reinserted
  <2>4. QED
    BY <1>13, <2>2, <2>3 DEF listExpiredTimer, Reinserted, Goto
<1>14. ASSUME NEW th \in Threads, fireCallbacks(th) PROVE TypeOK'
  BY <1>14 DEF fireCallbacks, Goto, At
<1>15. CASE UNCHANGED vars
  BY <1>15 DEF vars
<1>16. QED
  BY <1>1, <1>2, <1>3, <1>4, <1>5, <1>6, <1>7, <1>8, <1>9, <1>10, <1>11,
     <1>12, <1>13, <1>14, <1>15, SMTT(40)
  DEF Next, CallerStep, IdleLoop, Threads

\* A thread inside addTimer or reset works on a real Timer, no field or local
\* leaves its type, and reset()'s unsigned subtraction m_next - m_ms never
\* wraps, for any timers, threads, delays and clock.
THEOREM TypeCorrect == Spec => []TypeOK
BY InitTypeOK, NextTypeOK, PTL DEF Spec

-----------------------------------------------------------------------------
\* No timer exists yet.
LEMMA InitLifeInv == Init => LifeInv
BY DEF Init, LifeInv, CbIffQueued, InFlight, Lifecycle, UnusedFresh,
   InFlightFresh, InsertUnique, ResetHeld, Unused, Untouched, SpentIsDead, Spent, OneShotOnce, OneShot

\* Every operation keeps the life cycle of the timers: only NewTimer sets m_cb,
\* and what takes a one-shot timer out of m_timers clears it.
LEMMA NextLifeInv == TypeOK /\ TypeOK' /\ LifeInv /\ [Next]_vars => LifeInv'
<1> SUFFICES ASSUME TypeOK, TypeOK', LifeInv, [Next]_vars PROVE LifeInv'
  OBVIOUS
<1> USE DEF TypeOK, fields, manager, locals, waiting, history,
        LifeInv, Lifecycle
<1>1. CASE Tick
  BY <1>1 DEF Tick, CbIffQueued, InFlight, UnusedFresh, InFlightFresh,
     InsertUnique, ResetHeld, Unused, Untouched, SpentIsDead, Spent, OneShotOnce,
     OneShot
<1>2. CASE SetClock
  BY <1>2 DEF SetClock, CbIffQueued, InFlight, UnusedFresh, InFlightFresh,
     InsertUnique, ResetHeld, Unused, Untouched, SpentIsDead, Spent, OneShotOnce,
     OneShot
<1>3. ASSUME NEW th \in Threads, NEW t \in Timers, NEW ms \in Delays,
             NEW recurring \in BOOLEAN, NewTimer(th, t, ms, recurring)
      PROVE LifeInv'
  BY <1>3 DEF NewTimer, Goto, At, CbIffQueued, InFlight, UnusedFresh, InFlightFresh,
     InsertUnique, ResetHeld, Unused, Untouched, SpentIsDead, Spent, OneShotOnce,
     OneShot
<1>4. ASSUME NEW th \in Threads, addTimer(th) PROVE LifeInv'
  <2> DEFINE t == self[th]
             at_front == IsFront(m_next, m_timers \union {t}, t) /\ ~m_tickled
  <2>1. /\ t \in Timers /\ pc[th] = "insert"
        /\ m_timers' = m_timers \union {t}
        /\ pc' = [pc EXCEPT ![th] = IF at_front THEN "notify" ELSE "ready"]
        /\ self' = [self EXCEPT ![th] = IF at_front THEN t ELSE NoTimer]
        /\ handles' = IF at_front THEN handles ELSE handles \union {t}
    BY <1>4 DEF addTimer, InsertTimer, Goto, At
  <2>2. UNCHANGED <<m_cb, m_recurring, cbs, fired, cancelled>>
    BY <1>4 DEF addTimer
  <2>3. InFlight(t) /\ t \notin handles /\ Untouched(t) /\ m_cb[t]
    BY <2>1 DEF InFlight, InFlightFresh, CbIffQueued
  <2> HIDE DEF at_front
  <2>4. \A v \in Timers : InFlight(v)' <=> InFlight(v) /\ v # t
    BY <2>1 DEF InFlight, InsertUnique
  <2>5. \A v \in Timers : Unused(v)' => Unused(v) /\ v # t
    BY <2>1 DEF Unused
  <2>6. CbIffQueued'
    BY <2>1, <2>2, <2>3, <2>4 DEF CbIffQueued
  <2>7. UnusedFresh' /\ InFlightFresh'
    BY <2>1, <2>2, <2>4, <2>5 DEF UnusedFresh, InFlightFresh, Untouched
  <2>8. InsertUnique' /\ ResetHeld'
    BY <2>1 DEF InsertUnique, ResetHeld
  <2>9. SpentIsDead' /\ OneShotOnce'
    BY <2>2 DEF SpentIsDead, Spent, OneShotOnce, OneShot
  <2>10. QED
    BY <2>6, <2>7, <2>8, <2>9
<1>5. ASSUME NEW th \in Threads, onTimerInsertedAtFront(th) PROVE LifeInv'
  BY <1>5 DEF onTimerInsertedAtFront, Goto, At, CbIffQueued, InFlight, UnusedFresh, InFlightFresh,
     InsertUnique, ResetHeld, Unused, Untouched, SpentIsDead, Spent, OneShotOnce,
     OneShot
<1>6. ASSUME NEW th \in Threads, NEW t \in Timers, cancel(th, t) PROVE LifeInv'
  <2>1. m_cb' = [m_cb EXCEPT ![t] = FALSE] /\ m_timers' = m_timers \ {t}
        /\ cancelled' = cancelled \union {t} /\ t \in handles /\ m_cb[t]
        /\ UNCHANGED <<pc, self, handles, m_recurring, cbs, fired>>
    BY <1>6 DEF cancel
  <2>2. ~InFlight(t) /\ ~Unused(t) /\ t \in m_timers
    BY <2>1 DEF InFlightFresh, Unused, CbIffQueued
  <2>3. \A v \in Timers : (Unused(v)' <=> Unused(v)) /\ (InFlight(v)' <=> InFlight(v))
    BY <2>1 DEF Unused, InFlight
  <2>4. CbIffQueued'
    BY <2>1, <2>2, <2>3 DEF CbIffQueued
  <2>5. UnusedFresh' /\ InFlightFresh'
    BY <2>1, <2>2, <2>3 DEF UnusedFresh, InFlightFresh, Untouched
  <2>6. InsertUnique' /\ ResetHeld'
    BY <2>1 DEF InsertUnique, ResetHeld
  <2>7. SpentIsDead'
    BY <2>1 DEF SpentIsDead, Spent
  <2>8. OneShotOnce'
    <3>1. ~m_recurring[t] => ~Spent(t)
      BY <2>1 DEF SpentIsDead
    <3>2. SUFFICES ASSUME NEW v \in Timers, ~m_recurring[v] PROVE OneShot(v)'
      BY <2>1 DEF OneShotOnce
    <3>3. OneShot(v)
      BY <3>2 DEF OneShotOnce
    <3>4. CASE v = t
      <4>1. ~Spent(v)
        BY <3>1, <3>2, <3>4
      <4>2. fired[v] = 0 /\ \A u \in Threads : v \notin cbs[u]
        <5>1. fired[v] \in 0..2
          BY <3>2
        <5>2. ~(fired[v] > 0) /\ \A u \in Threads : v \notin cbs[u]
          BY ONLY <4>1 DEF Spent
        <5>3. QED
          BY ONLY <5>1, <5>2
      <4>3. fired'[v] = 0 /\ \A u \in Threads : v \notin cbs'[u]
        BY <2>1, <4>2
      <4>4. QED
        BY <4>3 DEF OneShot
    <3>5. CASE v # t
      BY <2>1, <3>3, <3>5 DEF OneShot
    <3>6. QED
      BY <3>4, <3>5
  <2>9. QED
    BY <2>4, <2>5, <2>6, <2>7, <2>8
<1>7. ASSUME NEW th \in Threads, NEW t \in Timers, refresh(th, t) PROVE LifeInv'
  BY <1>7 DEF refresh, CbIffQueued, InFlight, UnusedFresh, InFlightFresh,
     InsertUnique, ResetHeld, Unused, Untouched, SpentIsDead, Spent, OneShotOnce,
     OneShot
<1>8. ASSUME NEW th \in Threads, NEW t \in Timers, NEW ms \in Delays,
             NEW from_now \in BOOLEAN, reset(th, t, ms, from_now)
      PROVE LifeInv'
  <2>1. pc[th] = "ready" /\ pc' = [pc EXCEPT ![th] = "reset"]
        /\ self' = [self EXCEPT ![th] = t] /\ t \in handles
        /\ UNCHANGED <<m_timers, m_cb, m_recurring, handles, cbs, fired, cancelled>>
    BY <1>8 DEF reset, Goto, At
  <2>2. \A v \in Timers : (Unused(v)' <=> Unused(v)) /\ (InFlight(v)' <=> InFlight(v))
    BY <2>1 DEF Unused, InFlight
  <2>3. CbIffQueued' /\ UnusedFresh' /\ InFlightFresh'
    BY <2>1, <2>2 DEF CbIffQueued, UnusedFresh, InFlightFresh, Untouched
  <2>4. InsertUnique' /\ ResetHeld'
    BY <2>1 DEF InsertUnique, ResetHeld
  <2>5. SpentIsDead' /\ OneShotOnce'
    BY <2>1 DEF SpentIsDead, Spent, OneShotOnce, OneShot
  <2>6. QED
    BY <2>3, <2>4, <2>5
<1>9. ASSUME NEW th \in Threads, resetLocked(th) PROVE LifeInv'
  <2>1. /\ pc[th] = "reset" /\ self[th] \in handles
        /\ UNCHANGED <<m_cb, m_recurring, cbs, fired, cancelled>>
    BY <1>9 DEF resetLocked, At, ResetHeld
  <2>2. m_timers' = m_timers /\ handles' = handles
    <3> DEFINE t == self[th]
    <3>1. \/ m_timers' = m_timers /\ handles' = handles
          \/ /\ t \in m_timers /\ m_timers' = (m_timers \ {t}) \union {t}
             /\ handles' \in {handles, handles \union {t}}
      BY <1>9 DEF resetLocked, InsertTimer
    <3>2. QED
      BY <2>1, <3>1
  <2>3. \/ /\ pc' = [pc EXCEPT ![th] = "notify"]
           /\ self' = [self EXCEPT ![th] = self[th]]
        \/ /\ pc' = [pc EXCEPT ![th] = "ready"]
           /\ self' = [self EXCEPT ![th] = NoTimer]
    BY <1>9 DEF resetLocked, InsertTimer, Goto
  <2>4. \A v \in Timers : InFlight(v)' <=> InFlight(v)
    BY <2>1, <2>3, ZenonT(60) DEF InFlight
  <2>5. \A v \in Timers : Unused(v)' => Unused(v)
    BY <2>1, <2>2, <2>3 DEF Unused
  <2>6. CbIffQueued' /\ UnusedFresh' /\ InFlightFresh'
    BY <2>1, <2>2, <2>4, <2>5 DEF CbIffQueued, UnusedFresh, InFlightFresh, Untouched
  <2>7. InsertUnique'
    <3>1. \A u \in Threads : pc[u] = "insert" => self[u] # self[th]
      BY <2>1 DEF InFlightFresh, InFlight
    <3>2. \A u \in Threads : u # th => pc'[u] = pc[u] /\ self'[u] = self[u]
      BY <2>3
    <3>3. pc'[th] # "insert" /\ (pc'[th] = "notify" => self'[th] = self[th])
      BY <2>3
    <3>4. QED
      BY <3>1, <3>2, <3>3, ZenonT(60) DEF InsertUnique
  <2>8. ResetHeld'
    BY <2>2, <2>3 DEF ResetHeld
  <2>9. SpentIsDead' /\ OneShotOnce'
    BY <2>1 DEF SpentIsDead, Spent, OneShotOnce, OneShot
  <2>10. QED
    BY <2>6, <2>7, <2>8, <2>9
<1>10. ASSUME NEW th \in Threads, getNextTimer(th) PROVE LifeInv'
  BY <1>10 DEF getNextTimer, Goto, At, CbIffQueued, InFlight, UnusedFresh, InFlightFresh,
     InsertUnique, ResetHeld, Unused, Untouched, SpentIsDead, Spent, OneShotOnce,
     OneShot
<1>11. ASSUME NEW th \in Threads, wake(th) PROVE LifeInv'
  BY <1>11 DEF wake, Goto, At, CbIffQueued, InFlight, UnusedFresh, InFlightFresh,
     InsertUnique, ResetHeld, Unused, Untouched, SpentIsDead, Spent, OneShotOnce,
     OneShot
<1>12. ASSUME NEW th \in Threads, listEmptyCheck(th) PROVE LifeInv'
  BY <1>12 DEF listEmptyCheck, Goto, At, CbIffQueued, InFlight, UnusedFresh, InFlightFresh,
     InsertUnique, ResetHeld, Unused, Untouched, SpentIsDead, Spent, OneShotOnce,
     OneShot
<1>13. ASSUME NEW th \in Threads, listExpiredTimer(th) PROVE LifeInv'
  <2> DEFINE n == now_ms[th]
             expired == IF Rollover(m_previouseTime, n) THEN m_timers ELSE Due(n)
             again == {t \in expired : m_recurring[t]}
  <2>1. /\ pc[th] = "expire"
        /\ UNCHANGED <<self, handles, m_recurring, fired, cancelled>>
        /\ \E x \in {"segv", "ready", "fire"} : pc' = [pc EXCEPT ![th] = x]
    BY <1>13 DEF listExpiredTimer, Reinserted, Goto, At
  <2>2. \A v \in Timers : (Unused(v)' <=> Unused(v)) /\ (InFlight(v)' <=> InFlight(v))
    BY <2>1 DEF Unused, InFlight
  <2>3. InsertUnique' /\ ResetHeld'
    BY <2>1 DEF InsertUnique, ResetHeld
  <2>4. CASE UNCHANGED <<m_timers, m_cb, cbs>>
    BY <2>1, <2>2, <2>3, <2>4 DEF CbIffQueued, UnusedFresh, InFlightFresh,
       Untouched, SpentIsDead, Spent, OneShotOnce, OneShot
  <2>5. CASE /\ m_timers' = (m_timers \ expired) \union again
             /\ m_cb' = [t \in Timers |-> m_cb[t] /\ t \notin expired \ again]
             /\ cbs' = [cbs EXCEPT ![th] = expired]
    <3>1. expired \subseteq m_timers
      BY DEF Due
    <3>2. \A v \in Timers : v \in again <=> v \in expired /\ m_recurring[v]
      BY <3>1
    <3>3. \A v \in m_timers : m_cb[v] /\ ~Unused(v) /\ ~InFlight(v)
      BY DEF CbIffQueued, UnusedFresh, InFlightFresh, Untouched
    <3>4. \A v \in m_timers : ~m_recurring[v] => ~Spent(v)
      BY <3>3 DEF SpentIsDead
    <3> HIDE DEF n, expired, again
    <3>5. \A v \in Timers : m_cb'[v] <=> m_cb[v] /\ (v \in expired => v \in again)
      BY <2>5
    <3>6. CbIffQueued'
      BY <2>2, <2>5, <3>1, <3>2, <3>3, <3>5 DEF CbIffQueued
    <3>7. UnusedFresh' /\ InFlightFresh'
      BY <2>1, <2>2, <2>5, <3>1, <3>2, <3>3, <3>5
      DEF UnusedFresh, InFlightFresh, Untouched
    <3>8. SpentIsDead'
      BY <2>1, <2>5, <3>1, <3>2, <3>5 DEF SpentIsDead, Spent
    <3>9. OneShotOnce'
      <4>1. SUFFICES ASSUME NEW v \in Timers, ~m_recurring[v] PROVE OneShot(v)'
        BY <2>1 DEF OneShotOnce
      <4>2. OneShot(v)
        BY <4>1 DEF OneShotOnce
      <4>3. CASE v \in expired
        <5>1. ~Spent(v)
          BY <3>1, <3>4, <4>1, <4>3
        <5>2. fired[v] = 0
          <6>1. ~(fired[v] > 0)
            BY <5>1, Zenon DEF Spent
          <6>2. fired[v] \in 0..2
            OBVIOUS
          <6>3. QED
            BY <6>1, <6>2
        <5>3. v \notin cancelled /\ \A u \in Threads : v \notin cbs[u]
          BY <5>1, Zenon DEF Spent
        <5>4. \A u \in Threads \ {th} : cbs'[u] = cbs[u]
          BY <2>5
        <5>5. fired'[v] = 0 /\ v \notin cancelled'
              /\ \A u \in Threads \ {th} : v \notin cbs'[u]
          BY <2>1, <5>2, <5>3, <5>4
        <5>6. QED
          BY <5>5 DEF OneShot
      <4>4. CASE v \notin expired
        BY <2>1, <2>5, <4>2, <4>4 DEF OneShot
      <4>5. QED
        BY <4>3, <4>4
    <3>10. QED
      BY <2>3, <3>6, <3>7, <3>8, <3>9
  <2>6. QED
    BY <1>13, <2>4, <2>5 DEF listExpiredTimer, Reinserted
<1>14. ASSUME NEW th \in Threads, fireCallbacks(th) PROVE LifeInv'
  BY <1>14 DEF fireCallbacks, Goto, At, CbIffQueued, InFlight, UnusedFresh, InFlightFresh,
     InsertUnique, ResetHeld, Unused, Untouched, SpentIsDead, Spent, OneShotOnce,
     OneShot
<1>15. CASE UNCHANGED vars
  BY <1>15 DEF vars, CbIffQueued, InFlight, UnusedFresh, InFlightFresh,
     InsertUnique, ResetHeld, Unused, Untouched, SpentIsDead, Spent, OneShotOnce,
     OneShot
<1>16. QED
  BY <1>1, <1>2, <1>3, <1>4, <1>5, <1>6, <1>7, <1>8, <1>9, <1>10, <1>11,
     <1>12, <1>13, <1>14, <1>15
  DEF Next, CallerStep, IdleLoop, Threads

\* The inductive invariant holds in every reachable state.
THEOREM Inductive == Spec => []IInv
<1>1. Init => IInv
  BY InitTypeOK, InitLifeInv DEF IInv
<1>2. IInv /\ [Next]_vars => IInv'
  BY NextTypeOK, NextLifeInv DEF IInv
<1>3. QED
  BY <1>1, <1>2, PTL DEF Spec

\* Timer::cancel's erase(find(this)) is safe: a timer with a callback is in
\* m_timers unless its addTimer has not inserted it yet.
THEOREM CbIffQueuedAlways == Spec => []CbIffQueued
<1>1. IInv => CbIffQueued
  BY DEF IInv, LifeInv
<1>2. QED
  BY <1>1, Inductive, PTL

\* cancel() returning true and listExpiredTimer() exclude each other for a
\* one-shot timer, for any number of threads and any clock.
THEOREM OneShotOnceAlways == Spec => []OneShotOnce
<1>1. IInv => OneShotOnce
  BY DEF IInv, LifeInv
<1>2. QED
  BY <1>1, Inductive, PTL

-----------------------------------------------------------------------------
(* Calls of onTimerInsertedAtFront, when the clock is not set.             *)

\* A deadline is at most the delay away, a worker has read a clock of the past.
StartPast == \A t \in Timers : m_next[t] <= now + m_ms[t]
ClockRead == \A th \in Threads : now_ms[th] <= now
\* While m_tickled suppresses the call it was made since everyone's deadline.
Told(th) == announced[th] \/ \E u \in Threads : pc[u] = "notify"
TickledTold == m_tickled => \A th \in Threads : pc[th] = "wait" => Told(th)
FrontInv == StartPast /\ ClockRead /\ TickledTold /\ FrontAnnounced

\* No worker takes the lock of listExpiredTimer so late that another worker's
\* reading makes its own look like a clock set back by an hour.
NoRollover == \A th \in Threads : pc[th] = "expire" => ~Rollover(m_previouseTime, now_ms[th])

\* A timer put behind the front disturbs nobody, one put in front of it is
\* announced unless everyone was told already.
LEMMA InsertFront ==
    ASSUME TypeOK, FrontInv, NEW th \in Threads, NEW t \in Timers, NEW others \in SUBSET m_timers,
           NEW next \in [Timers -> Nat], \A u \in others : next[u] = m_next[u],
           m_next' = next, InsertTimer(th, t, next, others),
           pc[th] \notin {"wait", "notify"}, UNCHANGED <<deadline, announced>>
    PROVE  TickledTold' /\ FrontAnnounced'
<1> DEFINE at_front == IsFront(next, others \union {t}, t) /\ ~m_tickled
<1>1. /\ m_timers' = others \union {t} /\ m_tickled' = (m_tickled \/ at_front)
      /\ pc' = [pc EXCEPT ![th] = IF at_front THEN "notify" ELSE "ready"]
  BY DEF InsertTimer, Goto
<1>2. /\ pc \in [Threads -> PCs] /\ m_timers \subseteq Timers /\ m_next \in [Timers -> Nat]
      /\ Timers \subseteq Nat /\ m_tickled \in BOOLEAN
  BY TimersAssumption DEF TypeOK
<1>3. CASE at_front
  <2>1. pc'[th] = "notify"
    BY <1>1, <1>2, <1>3
  <2>2. \A w \in Threads : Told(w)'
    BY <2>1 DEF Told
  <2>3. QED
    BY <2>2 DEF Told, TickledTold, FrontAnnounced
<1>4. CASE ~at_front
  <2>1. /\ \A w \in Threads : w # th => pc'[w] = pc[w]
        /\ pc'[th] = "ready" /\ m_tickled' = m_tickled
    BY <1>1, <1>2, <1>4
  <2>2. \A w \in Threads : (pc'[w] = "wait" => pc[w] = "wait") /\ (Told(w) => Told(w)')
    BY <2>1 DEF Told
  <2>3. TickledTold'
    BY <2>1, <2>2 DEF FrontInv, TickledTold
  <2>4. ASSUME NEW w \in Threads, Oversleeps(w)' PROVE Told(w)'
    <3>1. pc[w] = "wait" /\ \E v \in others \union {t} : deadline[w] = Never \/ next[v] < deadline[w]
      BY <1>1, <2>2, <2>4 DEF Oversleeps
    <3>2. CASE m_tickled
      BY <2>2, <3>1, <3>2 DEF FrontInv, TickledTold
    <3>3. CASE ~m_tickled
      <4>1. PICK u \in others : u # t /\ ~Before(next, t, u)
        BY <1>4, <3>3 DEF IsFront
      <4>2. next[u] <= next[t] /\ next[u] = m_next[u] /\ u \in m_timers
        <5>1. u \in Timers /\ next[u] \in Nat /\ next[t] \in Nat
          BY <1>2
        <5>2. ~(next[t] < next[u])
          BY <4>1 DEF Before
        <5>3. QED
          BY <5>1, <5>2
      <4>3. PICK v \in others \union {t} : deadline[w] = Never \/ next[v] < deadline[w]
        BY <3>1
      <4>4. deadline[w] \in Nat \union {Never} /\ Never \in Int
        BY DEF TypeOK, Never
      <4>5. \E z \in m_timers : deadline[w] = Never \/ m_next[z] < deadline[w]
        <5>1. CASE v \in others
          BY <4>3, <5>1
        <5>2. CASE v = t
          <6>1. deadline[w] = Never \/ next[u] < deadline[w]
            BY <1>2, <4>2, <4>3, <4>4, <5>2
          <6>2. QED
            BY <4>2, <6>1
        <5>3. QED
          BY <5>1, <5>2
      <4>6. Told(w)
        BY <3>1, <4>5 DEF FrontInv, FrontAnnounced, Oversleeps, Told
      <4>7. QED
        BY <2>2, <4>6
    <3>4. QED
      BY <3>2, <3>3
  <2>5. QED
    BY <2>3, <2>4 DEF FrontAnnounced, Told
<1>5. QED
  BY <1>3, <1>4

\* What is announced stays announced while deadlines only move away.
Later == /\ \A t \in m_timers' : t \in m_timers /\ m_next[t] <= m_next'[t]
         /\ m_tickled' => m_tickled
         /\ UNCHANGED <<deadline, announced>>
         /\ \A w \in Threads : (pc'[w] = "wait" <=> pc[w] = "wait")
                               /\ (pc[w] = "notify" => pc'[w] = "notify")

\* Such steps need no call.
LEMMA LaterFront ==
    ASSUME TypeOK, TypeOK', FrontInv, Later
    PROVE  TickledTold' /\ FrontAnnounced'
<1>1. \A w \in Threads : (pc'[w] = "wait" => pc[w] = "wait") /\ (Told(w) => Told(w)')
  BY DEF Later, Told
<1>2. TickledTold'
  BY <1>1 DEF Later, FrontInv, TickledTold
<1>3. ASSUME NEW w \in Threads, Oversleeps(w)' PROVE Told(w)'
  <2>1. PICK t \in m_timers' : deadline[w] = Never \/ m_next'[t] < deadline[w]
    BY <1>3 DEF Oversleeps, Later
  <2>2. /\ t \in m_timers /\ m_next[t] <= m_next'[t] /\ m_next[t] \in Nat /\ m_next'[t] \in Nat
        /\ deadline[w] \in Nat \union {Never} /\ Never \in Int
    BY DEF Later, TypeOK, Never
  <2>3. deadline[w] = Never \/ m_next[t] < deadline[w]
    BY <2>1, <2>2
  <2>4. Oversleeps(w)
    BY <1>1, <1>3, <2>2, <2>3 DEF Oversleeps
  <2>5. QED
    BY <1>1, <2>4 DEF FrontInv, FrontAnnounced, Told
<1>4. QED
  BY <1>2, <1>3 DEF FrontAnnounced, Told

\* Nobody waits at the start.
LEMMA InitFront == Init => FrontInv
BY ClockAssumption DEF Init, FrontInv, StartPast, ClockRead, TickledTold, FrontAnnounced, Oversleeps

\* Every operation keeps the calls that were made.
LEMMA NextFront ==
    ASSUME ClockSets = {}
    PROVE  IInv /\ IInv' /\ NoRollover /\ FrontInv /\ [Next]_vars => FrontInv'
<1> SUFFICES ASSUME IInv, IInv', NoRollover, FrontInv, [Next]_vars PROVE FrontInv'
  OBVIOUS
<1>a. TypeOK /\ TypeOK' /\ NextCoversDelay
  BY DEF IInv, TypeOK, NextCoversDelay
<1>b. /\ now \in Nat /\ m_next \in [Timers -> Nat] /\ m_ms \in [Timers -> Nat]
      /\ now_ms \in [Threads -> Nat] /\ pc \in [Threads -> PCs] /\ m_timers \subseteq Timers
      /\ self \in [Threads -> Timers \union {NoTimer}]
      /\ deadline \in [Threads -> Nat \union {Never}] /\ announced \in [Threads -> BOOLEAN]
      /\ Delays \subseteq Nat
  BY <1>a, DelaysAssumption DEF TypeOK
<1>c. StartPast /\ ClockRead
  BY DEF FrontInv
<1>d. UNCHANGED <<now, m_next, m_ms, now_ms>> => StartPast' /\ ClockRead'
  BY <1>c DEF StartPast, ClockRead
<1>1. CASE Tick
  <2>1. Later
    BY <1>1, <1>b DEF Tick, Later, fields, manager, waiting
  <2>2. StartPast' /\ ClockRead'
    BY <1>1, <1>b, <1>c DEF Tick, StartPast, ClockRead, fields, locals
  <2>3. QED
    BY <1>a, <2>1, <2>2, LaterFront DEF FrontInv
<1>2. ~SetClock
  BY DEF SetClock
<1>3. ASSUME NEW th \in Threads, NEW t \in Timers, NEW ms \in Delays,
             NEW recurring \in BOOLEAN, NewTimer(th, t, ms, recurring)
      PROVE FrontInv'
  <2>1. /\ m_next' = [m_next EXCEPT ![t] = now + ms] /\ m_ms' = [m_ms EXCEPT ![t] = ms]
        /\ pc' = [pc EXCEPT ![th] = "insert"] /\ pc[th] = "ready" /\ Unused(t)
        /\ UNCHANGED <<now, now_ms, m_timers, m_tickled, deadline, announced>>
    BY <1>3 DEF NewTimer, Goto, At, manager, waiting
  <2>2. t \notin m_timers
    BY <2>1 DEF IInv, LifeInv, Lifecycle, UnusedFresh, Untouched
  <2>3. Later
    BY <1>b, <2>1, <2>2 DEF Later
  <2>4. StartPast' /\ ClockRead'
    BY <1>b, <1>c, <2>1 DEF StartPast, ClockRead
  <2>5. QED
    BY <1>a, <2>3, <2>4, LaterFront DEF FrontInv
<1>4. ASSUME NEW th \in Threads, addTimer(th) PROVE FrontInv'
  <2>1. /\ pc[th] = "insert" /\ InsertTimer(th, self[th], m_next, m_timers)
        /\ UNCHANGED <<now, m_next, m_ms, now_ms, deadline, announced>>
    BY <1>4 DEF addTimer, At, fields, waiting
  <2>2. self[th] \in Timers
    BY <1>a, <2>1 DEF TypeOK
  <2>3. TickledTold' /\ FrontAnnounced'
    BY <1>a, <1>b, <2>1, <2>2, InsertFront
  <2>4. QED
    BY <1>d, <2>1, <2>3 DEF FrontInv
<1>5. ASSUME NEW th \in Threads, onTimerInsertedAtFront(th) PROVE FrontInv'
  <2>1. /\ announced' = [w \in Threads |-> announced[w] \/ pc[w] = "wait"]
        /\ pc' = [pc EXCEPT ![th] = "ready"] /\ UNCHANGED <<now, m_next, m_ms, now_ms>>
    BY <1>5 DEF onTimerInsertedAtFront, Goto, fields
  <2>2. \A w \in Threads : pc'[w] = "wait" => announced'[w]
    BY <1>b, <2>1
  <2>3. TickledTold' /\ FrontAnnounced'
    BY <2>2 DEF TickledTold, Told, FrontAnnounced, Oversleeps
  <2>4. QED
    BY <1>d, <2>1, <2>3 DEF FrontInv
<1>6. ASSUME NEW th \in Threads, NEW t \in Timers, cancel(th, t) PROVE FrontInv'
  <2>1. /\ m_timers' = m_timers \ {t}
        /\ UNCHANGED <<now, m_next, m_ms, now_ms, m_tickled, pc, deadline, announced>>
    BY <1>6 DEF cancel, locals, waiting
  <2>2. Later
    BY <1>b, <2>1 DEF Later
  <2>3. QED
    BY <1>a, <1>d, <2>1, <2>2, LaterFront DEF FrontInv
<1>7. ASSUME NEW th \in Threads, NEW t \in Timers, refresh(th, t) PROVE FrontInv'
  <2>1. /\ m_next' = [m_next EXCEPT ![t] = now + m_ms[t]]
        /\ UNCHANGED <<now, m_ms, now_ms, m_timers, m_tickled, pc, deadline, announced>>
    BY <1>7 DEF refresh, locals, waiting, manager
  <2>2. m_next[t] <= now + m_ms[t]
    BY <1>c DEF StartPast
  <2>3. \A v \in Timers : m_next[v] <= m_next'[v]
    BY <1>b, <2>1, <2>2
  <2>4. Later
    BY <1>b, <2>1, <2>3 DEF Later
  <2>5. StartPast' /\ ClockRead'
    BY <1>b, <1>c, <2>1 DEF StartPast, ClockRead
  <2>6. QED
    BY <1>a, <2>4, <2>5, LaterFront DEF FrontInv
<1>8. ASSUME NEW th \in Threads, NEW t \in Timers, NEW ms \in Delays,
             NEW from_now \in BOOLEAN, reset(th, t, ms, from_now)
      PROVE FrontInv'
  <2>1. /\ pc' = [pc EXCEPT ![th] = "reset"] /\ pc[th] = "ready"
        /\ UNCHANGED <<now, m_next, m_ms, now_ms, m_timers, m_tickled, deadline, announced>>
    BY <1>8 DEF reset, Goto, At, fields, manager, waiting
  <2>2. Later
    BY <1>b, <2>1 DEF Later
  <2>3. QED
    BY <1>a, <1>d, <2>1, <2>2, LaterFront DEF FrontInv
<1>9. ASSUME NEW th \in Threads, resetLocked(th) PROVE FrontInv'
  <2> DEFINE t == self[th]
             start == IF arg[th].from_now THEN now ELSE m_next[t] - m_ms[t]
             next == [m_next EXCEPT ![t] = start + arg[th].ms]
  <2>1. /\ pc[th] = "reset" /\ t \in Timers /\ arg[th].ms \in Nat
        /\ UNCHANGED <<now, now_ms, deadline, announced>>
    BY <1>9, <1>a DEF resetLocked, At, TypeOK, waiting
  <2>2. start \in Nat /\ start <= now
    <3>1. m_ms[t] <= m_next[t] /\ m_next[t] <= now + m_ms[t]
      BY <1>a, <1>c, <2>1 DEF NextCoversDelay, StartPast
    <3>2. m_ms[t] \in Nat /\ m_next[t] \in Nat
      BY <1>b, <2>1
    <3>3. QED
      BY <1>b, <3>1, <3>2
  <2>3. CASE m_cb[t] /\ t \in m_timers
    <3>1. /\ m_ms' = [m_ms EXCEPT ![t] = arg[th].ms] /\ m_next' = next
          /\ InsertTimer(th, t, next, m_timers \ {t})
      BY <1>9, <2>3 DEF resetLocked
    <3>2. next \in [Timers -> Nat] /\ \A u \in m_timers \ {t} : next[u] = m_next[u]
      BY <1>b, <2>1, <2>2
    <3>3. StartPast' /\ ClockRead'
      <4>1. next[t] <= now + arg[th].ms
        BY <1>b, <2>1, <2>2
      <4>2. ASSUME NEW v \in Timers PROVE next[v] <= now + m_ms'[v]
        BY <1>b, <1>c, <2>1, <3>1, <4>1 DEF StartPast
      <4>3. QED
        BY <1>c, <2>1, <3>1, <4>2 DEF StartPast, ClockRead
    <3> HIDE DEF next, t
    <3>4. TickledTold' /\ FrontAnnounced'
      BY <1>a, <2>1, <3>1, <3>2, InsertFront
    <3>5. QED
      BY <3>3, <3>4 DEF FrontInv
  <2>4. CASE ~(m_cb[t] /\ t \in m_timers)
    <3>1. /\ pc' = [pc EXCEPT ![th] = "ready"]
          /\ UNCHANGED <<m_ms, m_next, m_timers, m_tickled>>
      BY <1>9, <2>4 DEF resetLocked, Goto
    <3>2. Later
      BY <1>b, <2>1, <3>1 DEF Later
    <3>3. QED
      BY <1>a, <1>d, <2>1, <3>1, <3>2, LaterFront DEF FrontInv
  <2>5. QED
    BY <2>3, <2>4
<1>10. ASSUME NEW th \in Threads, getNextTimer(th) PROVE FrontInv'
  <2>1. /\ pc[th] = "ready" /\ pc' = [pc EXCEPT ![th] = "wait"] /\ m_tickled' = FALSE
        /\ announced' = [announced EXCEPT ![th] = FALSE]
        /\ UNCHANGED <<now, m_next, m_ms, now_ms, m_timers>>
    BY <1>10 DEF getNextTimer, Goto, At, fields, locals
  <2>2. \A w \in Threads : w # th => deadline'[w] = deadline[w]
    BY <1>10, <1>b DEF getNextTimer
  <2>3. ~Oversleeps(th)'
    <3>1. CASE m_timers = {}
      BY <2>1, <3>1 DEF Oversleeps
    <3>2. CASE m_timers # {}
      <4>1. PICK t \in m_timers : IsFront(m_next, m_timers, t)
                                  /\ deadline' = [deadline EXCEPT ![th] = m_next[t]]
        BY <1>10, <3>2 DEF getNextTimer
      <4>2. deadline'[th] = m_next[t] /\ m_next[t] \in Nat
        BY <1>b, <4>1
      <4>3. \A u \in m_timers : m_next[t] <= m_next[u]
        BY <1>b, <4>1 DEF IsFront, Before
      <4>4. \A u \in m_timers : m_next[u] \in Nat
        BY <1>b
      <4>5. QED
        BY <2>1, <4>2, <4>3, <4>4 DEF Oversleeps, Never
    <3>3. QED
      BY <3>1, <3>2
  <2>4. ASSUME NEW w \in Threads, w # th, Oversleeps(w)' PROVE Told(w)'
    <3>1. Oversleeps(w)
      BY <1>b, <2>1, <2>2, <2>4 DEF Oversleeps
    <3>2. Told(w)
      BY <3>1 DEF FrontInv, FrontAnnounced, Told
    <3>3. QED
      BY <1>b, <2>1, <2>4, <3>2 DEF Told
  <2>5. TickledTold' /\ FrontAnnounced'
    BY <2>1, <2>3, <2>4 DEF TickledTold, FrontAnnounced, Told
  <2>6. QED
    BY <1>d, <2>1, <2>5 DEF FrontInv
<1>11. ASSUME NEW th \in Threads, wake(th) PROVE FrontInv'
  <2>1. /\ pc[th] = "wait" /\ pc' = [pc EXCEPT ![th] = "list"]
        /\ now_ms' = [now_ms EXCEPT ![th] = now]
        /\ announced' = [announced EXCEPT ![th] = FALSE]
        /\ deadline' = [deadline EXCEPT ![th] = Never]
        /\ UNCHANGED <<now, m_next, m_ms, m_timers, m_tickled>>
    BY <1>11 DEF wake, Goto, At, fields, manager
  <2>2. StartPast' /\ ClockRead'
    BY <1>b, <1>c, <2>1 DEF StartPast, ClockRead
  <2>3. \A w \in Threads : pc'[w] = "wait" =>
            w # th /\ pc[w] = "wait" /\ announced'[w] = announced[w] /\ deadline'[w] = deadline[w]
    BY <1>b, <2>1
  <2>4. \A w \in Threads : w # th /\ Told(w) => Told(w)'
    BY <1>b, <2>1 DEF Told
  <2>5. TickledTold'
    BY <2>1, <2>3, <2>4 DEF FrontInv, TickledTold
  <2>6. FrontAnnounced'
    <3>1. ASSUME NEW w \in Threads, Oversleeps(w)' PROVE Told(w)'
      <4>1. w # th /\ Oversleeps(w)
        BY <2>1, <2>3, <3>1 DEF Oversleeps
      <4>2. QED
        BY <2>4, <4>1 DEF FrontInv, FrontAnnounced, Told
    <3>2. QED
      BY <3>1 DEF FrontAnnounced, Told
  <2>7. QED
    BY <2>2, <2>5, <2>6 DEF FrontInv
<1>12. ASSUME NEW th \in Threads, listEmptyCheck(th) PROVE FrontInv'
  <2>1. /\ pc[th] = "list" /\ \E p \in {"ready", "expire"} : pc' = [pc EXCEPT ![th] = p]
        /\ \E n \in {0, now_ms[th]} : now_ms' = [now_ms EXCEPT ![th] = n]
        /\ UNCHANGED <<now, m_next, m_ms, m_timers, m_tickled, deadline, announced>>
    BY <1>12, <1>b DEF listEmptyCheck, Goto, At, fields, manager, waiting
  <2>2. StartPast' /\ ClockRead'
    BY <1>b, <1>c, <2>1 DEF StartPast, ClockRead
  <2>3. Later
    BY <1>b, <2>1 DEF Later
  <2>4. QED
    BY <1>a, <2>2, <2>3, LaterFront DEF FrontInv
<1>13. ASSUME NEW th \in Threads, listExpiredTimer(th) PROVE FrontInv'
  <2> DEFINE n == now_ms[th]
  <2>1. /\ pc[th] = "expire" /\ now_ms' = [now_ms EXCEPT ![th] = 0]
        /\ \E p \in {"ready", "fire", "segv"} : pc' = [pc EXCEPT ![th] = p]
        /\ UNCHANGED <<now, m_ms, m_tickled, deadline, announced>>
    BY <1>13 DEF listExpiredTimer, Goto, At, waiting
  <2>2. n \in Nat /\ n <= now /\ ~Rollover(m_previouseTime, n)
    BY <1>b, <1>c, <2>1 DEF NoRollover, ClockRead
  <2>3. \A v \in Timers :
           /\ m_next'[v] = m_next[v] \/ (m_next[v] <= n /\ m_next'[v] = n + m_ms[v])
           /\ v \in m_timers' => v \in m_timers
    <3>1. CASE m_timers = {}
      BY <1>13, <2>2, <3>1 DEF listExpiredTimer
    <3>2. CASE m_timers # {}
      <4>1. /\ m_timers' = (m_timers \ Due(n)) \union Reinserted(Due(n))
            /\ m_next' = [v \in Timers |->
                            IF v \in Reinserted(Due(n)) THEN n + m_ms[v] ELSE m_next[v]]
        BY <1>13, <2>2, <3>2 DEF listExpiredTimer
      <4>2. QED
        BY <1>b, <4>1 DEF Due, Reinserted
    <3>3. QED
      BY <3>1, <3>2
  <2>4. ASSUME NEW v \in Timers PROVE m_next[v] <= m_next'[v] /\ m_next'[v] <= now + m_ms[v]
    <3>1. m_next[v] \in Nat /\ m_ms[v] \in Nat /\ m_next[v] <= now + m_ms[v]
      BY <1>b, <1>c DEF StartPast
    <3>2. QED
      BY <1>b, <2>2, <2>3, <3>1
  <2>5. Later
    BY <1>b, <1>a, <2>1, <2>3, <2>4 DEF Later, TypeOK
  <2>6. StartPast' /\ ClockRead'
    BY <1>b, <1>c, <2>1, <2>4 DEF StartPast, ClockRead
  <2>7. QED
    BY <1>a, <2>5, <2>6, LaterFront DEF FrontInv
<1>14. ASSUME NEW th \in Threads, fireCallbacks(th) PROVE FrontInv'
  <2>1. /\ pc[th] = "fire" /\ pc' = [pc EXCEPT ![th] = "ready"]
        /\ UNCHANGED <<now, m_next, m_ms, now_ms, m_timers, m_tickled, deadline, announced>>
    BY <1>14 DEF fireCallbacks, Goto, At, fields, manager, waiting
  <2>2. Later
    BY <1>b, <2>1 DEF Later
  <2>3. QED
    BY <1>a, <1>d, <2>1, <2>2, LaterFront DEF FrontInv
<1>15. CASE UNCHANGED vars
  <2>1. UNCHANGED <<now, m_next, m_ms, now_ms, m_timers, m_tickled, pc, deadline, announced>>
    BY <1>15 DEF vars, fields, manager, locals, waiting
  <2>2. Later
    BY <1>b, <2>1 DEF Later
  <2>3. QED
    BY <1>a, <1>d, <2>1, <2>2, LaterFront DEF FrontInv
<1>16. QED
  BY <1>1, <1>2, <1>3, <1>4, <1>5, <1>6, <1>7, <1>8, <1>9, <1>10, <1>11,
     <1>12, <1>13, <1>14, <1>15
  DEF Next, CallerStep, IdleLoop, Threads

\* m_tickled never swallows the only call of onTimerInsertedAtFront: when a
\* worker waits past the front of m_timers, the call was made since it asked
\* for its deadline or is about to be, for any threads, timers and delays, as
\* long as the clock is not set and no worker is an hour late in
\* listExpiredTimer.
THEOREM FrontAnnouncedAlways ==
    ASSUME ClockSets = {}
    PROVE  Spec /\ []NoRollover => []FrontAnnounced
<1>1. Init => FrontInv
  BY InitFront
<1>2. IInv /\ IInv' /\ NoRollover /\ FrontInv /\ [Next]_vars => FrontInv'
  BY NextFront
<1>3. FrontInv => FrontAnnounced
  BY DEF FrontInv
<1>4. QED
  BY <1>1, <1>2, <1>3, Inductive, PTL DEF Spec
=============================================================================
