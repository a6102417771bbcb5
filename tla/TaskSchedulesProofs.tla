------------------------ MODULE TaskSchedulesProofs ------------------------
(* Proofs about TaskSchedules, for any schedules, periods, invocations and  *)
(* bounds; those about periods and counts for calls of claimDue that do not *)
(* overlap.                                                                 *)
EXTENDS TaskSchedules, FiniteSetTheorems, FunctionTheorems, TLAPS

-----------------------------------------------------------------------------
(* The cadence. *)

\* How many whole periods fit into a gap.
LEMMA Division ==
  ASSUME NEW gap \in Nat, NEW p \in Nat \ {0}
  PROVE  gap \div p \in Nat /\ (gap \div p) * p <= gap /\ gap < (gap \div p) * p + p
OBVIOUS

\* computeNextRun gives an instant in the future, after the run it follows, and one of the
\* cadence, as near as the period allows.
LEMMA NextRunGap ==
  ASSUME NEW from \in Nat, NEW p \in Nat \ {0}, NEW at \in Nat
  PROVE  /\ NextRun(from, p, at) \in Nat
         /\ NextRun(from, p, at) > at /\ NextRun(from, p, at) > from
         /\ from <= at => NextRun(from, p, at) <= at + p
<1>1. CASE from + p > at  BY <1>1 DEF NextRun
<1>2. CASE from + p <= at
  <2> DEFINE gap == at - (from + p)
             q   == gap \div p
  <2>1. gap \in Nat  BY <1>2
  <2> HIDE DEF gap
  <2>2. q \in Nat /\ q * p <= gap /\ gap < q * p + p  BY <2>1, Division
  <2>3. NextRun(from, p, at) = (from + p) + (q + 1) * p  BY <1>2 DEF NextRun, gap
  <2> HIDE DEF q
  <2>4. (q + 1) * p = q * p + p /\ q * p \in Nat  BY <2>2
  <2>5. at = gap + (from + p)  BY <1>2 DEF gap
  <2> QED  BY <2>1, <2>2, <2>3, <2>4, <2>5
<1> QED  BY <1>1, <1>2

-----------------------------------------------------------------------------
(* Types. *)

Table ==
  /\ row \in [Schedule -> {"absent", "live", "deleted"}] /\ enabled \in [Schedule -> BOOLEAN]
  /\ next \in [Schedule -> Nat] /\ runCount \in [Schedule -> Nat] /\ edit \in [Schedule -> Nat]

Hands ==
  /\ pc \in [Invocation -> {"idle", "advance", "fire", "record"}]
  /\ now \in [Invocation -> Time]
  /\ todo \in [Invocation -> SUBSET Claim] /\ due \in [Invocation -> SUBSET Claim]
  /\ \A k \in Invocation :
       /\ (pc[k] = "advance") <=> (todo[k] # {})
       /\ pc[k] = "fire" => due[k] # {}
       /\ pc[k] = "idle" => due[k] = {}

Past == tasks \in Seq([claim : Claim, at : Time]) /\ dropped \subseteq Claim

Bounds == clock \in Time /\ edits \in 0..MaxEdits /\ faults \in 0..MaxFaults

Types == Table /\ Hands /\ Past /\ Bounds

LEMMA TypesInit == Init => Types
<1> SUFFICES ASSUME Init PROVE Types
  OBVIOUS
<1> USE BoundAssumption
<1>1. 0 \in Time  BY DEF Time
<1>2. Hands  BY <1>1 DEF Init, Hands
<1> QED  BY <1>1, <1>2 DEF Init, Types, Table, Past, Bounds

LEMMA TableStep == Types /\ [Next]_vars => Table'
<1> SUFFICES ASSUME Types, [Next]_vars PROVE Table'
  OBVIOUS
<1>1. ASSUME NEW s \in Schedule, Create(s)  PROVE Table'
  BY <1>1, FirstAssumption DEF Types, Table, Create, history, Time
<1>2. ASSUME NEW s \in Schedule, NEW on \in BOOLEAN, Pause(s, on)  PROVE Table'
  BY <1>2 DEF Types, Table, Pause
<1>3. ASSUME NEW s \in Schedule, NEW t \in Time, Move(s, t)  PROVE Table'
  BY <1>3 DEF Types, Table, Move, Time
<1>4. ASSUME NEW s \in Schedule, Remove(s)  PROVE Table'
  BY <1>4 DEF Types, Table, Remove
<1>5. ASSUME NEW k \in Invocation, NEW c \in todo[k], Advance(k, c)  PROVE Table'
  <2>1. c \in Claim /\ c.due \in Nat /\ now[k] \in Nat  BY DEF Types, Hands, Claim, Time
  <2>2. Period[c.schedule] # 0 => NextRun(c.due, Period[c.schedule], now[k]) \in Nat
    <3> SUFFICES ASSUME Period[c.schedule] # 0
                 PROVE  NextRun(c.due, Period[c.schedule], now[k]) \in Nat
      OBVIOUS
    <3>1. Period[c.schedule] \in Nat \ {0}  BY <2>1, PeriodAssumption DEF Claim
    <3> QED  BY <2>1, <3>1, NextRunGap, Zenon
  <2>3. row' = row /\ edit' = edit  BY <1>5 DEF Advance, history
  <2>4. CASE row[c.schedule] = "live"
    <3>1. runCount' \in [Schedule -> Nat]
      BY <1>5, <2>4 DEF Types, Table, Advance
    <3>2. enabled' \in [Schedule -> BOOLEAN]
      <4>1. (Period[c.schedule] # 0) \in BOOLEAN  OBVIOUS
      <4> QED  BY <1>5, <2>4, <4>1, Zenon DEF Types, Table, Advance
    <3>3. next' \in [Schedule -> Nat]
      BY <1>5, <2>2, <2>4 DEF Types, Table, Advance
    <3> QED  BY <2>3, <3>1, <3>2, <3>3 DEF Types, Table
  <2>5. CASE row[c.schedule] # "live"
    BY <1>5, <2>3, <2>5 DEF Types, Table, Advance
  <2> QED  BY <2>4, <2>5
<1>6. CASE UNCHANGED <<rows, edit>>  BY <1>6 DEF Types, Table, rows
<1>7. CASE ClockTicks \/ Crash  BY <1>6, <1>7 DEF ClockTicks, Crash, history
<1>8. ASSUME NEW k \in Invocation,
             \/ \E s \in Schedule : RunNow(k, s)
             \/ SelectDue(k) \/ Record(k) \/ AdvanceFails(k)
             \/ \E c \in due[k] : Fire(k, c) \/ CannotFire(k, c)
      PROVE  Table'
  BY <1>6, <1>8 DEF RunNow, SelectDue, Record, AdvanceFails, Fire, CannotFire, history
<1>9. CASE UNCHANGED vars  BY <1>6, <1>9 DEF vars, history
<1> QED  BY <1>1, <1>2, <1>3, <1>4, <1>5, <1>7, <1>8, <1>9 DEF Next, Operator, Step

LEMMA HandsStep == Types /\ [Next]_vars => Hands'
<1> SUFFICES ASSUME Types, [Next]_vars PROVE Hands'
  OBVIOUS
<1>0. 0 \in Time  BY BoundAssumption DEF Time
<1>1. CASE UNCHANGED invocations  BY <1>1 DEF Types, Hands, invocations
<1>2. ASSUME NEW s \in Schedule, NEW k \in Invocation, RunNow(k, s)  PROVE Hands'
  <2> DEFINE c == [schedule |-> s, due |-> next[s], edit |-> edit[s], manual |-> TRUE]
  <2>1. c \in Claim  BY DEF Types, Table, Claim
  <2>2. due' = [due EXCEPT ![k] = {c}]  BY <1>2 DEF RunNow
  <2> HIDE DEF c
  <2> QED  BY <1>2, <2>1, <2>2 DEF Types, Hands, Bounds, RunNow
<1>3. ASSUME NEW k \in Invocation, SelectDue(k)  PROVE Hands'
  <2> DEFINE S == {[schedule |-> s, due |-> next[s], edit |-> edit[s], manual |-> FALSE] :
                     s \in {x \in Schedule : IsDue(x)}}
  <2>0. \A s \in Schedule :
          [schedule |-> s, due |-> next[s], edit |-> edit[s], manual |-> FALSE] \in Claim
    BY DEF Types, Table, Claim
  <2>1. S \subseteq Claim  BY <2>0
  <2>2. S # {}  BY <1>3 DEF SelectDue
  <2>3. todo' = [todo EXCEPT ![k] = S]  BY <1>3 DEF SelectDue
  <2> HIDE DEF S
  <2> QED  BY <1>3, <2>1, <2>2, <2>3 DEF Types, Hands, Bounds, SelectDue
<1>4. ASSUME NEW k \in Invocation, NEW c \in todo[k], Advance(k, c)  PROVE Hands'
  BY <1>4 DEF Types, Hands, Advance
<1>5. ASSUME NEW k \in Invocation, NEW c \in due[k], Fire(k, c)  PROVE Hands'
  BY <1>5 DEF Types, Hands, Fire
<1>6. ASSUME NEW k \in Invocation, NEW c \in due[k], CannotFire(k, c)  PROVE Hands'
  BY <1>0, <1>6 DEF Types, Hands, CannotFire, Returns
<1>7. ASSUME NEW k \in Invocation, Record(k)  PROVE Hands'
  BY <1>0, <1>7 DEF Types, Hands, Record, Returns
<1>8. ASSUME NEW k \in Invocation, AdvanceFails(k)  PROVE Hands'
  BY <1>0, <1>8 DEF Types, Hands, AdvanceFails, Returns
<1>9. CASE Crash  BY <1>0, <1>9 DEF Hands, Crash
<1>10. ASSUME NEW s \in Schedule,
              \/ Create(s) \/ Remove(s)
              \/ \E on \in BOOLEAN : Pause(s, on)
              \/ \E t \in Time : Move(s, t)
       PROVE  Hands'
  BY <1>1, <1>10 DEF Create, Remove, Pause, Move
<1>11. CASE ClockTicks \/ UNCHANGED vars  BY <1>1, <1>11 DEF ClockTicks, vars
<1> QED  BY <1>2, <1>3, <1>4, <1>5, <1>6, <1>7, <1>8, <1>9, <1>10, <1>11 DEF Next, Operator, Step

LEMMA PastStep == Types /\ [Next]_vars => Past'
<1> SUFFICES ASSUME Types, [Next]_vars PROVE Past'
  OBVIOUS
<1>1. CASE UNCHANGED <<tasks, dropped>>  BY <1>1 DEF Types, Past
<1>2. ASSUME NEW k \in Invocation, NEW c \in due[k], Fire(k, c)  PROVE Past'
  <2>1. [claim |-> c, at |-> now[k]] \in [claim : Claim, at : Time]  BY DEF Types, Hands
  <2> QED  BY <1>2, <2>1 DEF Types, Past, Fire
<1>3. ASSUME NEW k \in Invocation, NEW c \in due[k], CannotFire(k, c)  PROVE Past'
  BY <1>3 DEF Types, Past, Hands, CannotFire, Scheduled
<1>4. ASSUME NEW k \in Invocation, AdvanceFails(k)  PROVE Past'
  BY <1>4 DEF Types, Past, Hands, AdvanceFails, Scheduled, Unfired
<1>5. CASE Crash  BY <1>5 DEF Types, Past, Hands, Crash, Scheduled, Unfired
<1>6. ASSUME NEW s \in Schedule, Operator(s)  PROVE Past'
  BY <1>1, <1>6 DEF Operator, Create, Remove, Pause, Move, RunNow, history
<1>7. ASSUME NEW k \in Invocation, SelectDue(k) \/ Record(k) \/ \E c \in todo[k] : Advance(k, c)
      PROVE  Past'
  BY <1>1, <1>7 DEF SelectDue, Record, Advance, history
<1>8. CASE ClockTicks \/ UNCHANGED vars  BY <1>1, <1>8 DEF ClockTicks, vars, history
<1> QED  BY <1>2, <1>3, <1>4, <1>5, <1>6, <1>7, <1>8 DEF Next, Step

LEMMA BoundsStep == Types /\ [Next]_vars => Bounds'
<1> SUFFICES ASSUME Types, [Next]_vars PROVE Bounds'
  OBVIOUS
<1> USE BoundAssumption
<1>1. CASE UNCHANGED <<clock, edits, faults>>  BY <1>1 DEF Types, Bounds
<1>2. CASE ClockTicks  BY <1>2 DEF Types, Bounds, ClockTicks, Time
<1>3. ASSUME NEW s \in Schedule, Operator(s)  PROVE Bounds'
  BY <1>3 DEF Types, Bounds, Operator, Create, Edit, Remove, Pause, Move, RunNow
<1>4. ASSUME NEW k \in Invocation, AdvanceFails(k)  PROVE Bounds'
  BY <1>4 DEF Types, Bounds, AdvanceFails
<1>5. CASE Crash  BY <1>5 DEF Types, Bounds, Crash
<1>6. ASSUME NEW k \in Invocation, SelectDue(k) \/ Step(k)  PROVE Bounds'
  BY <1>1, <1>6 DEF SelectDue, Step, Advance, Fire, CannotFire, Record
<1>7. CASE UNCHANGED vars  BY <1>1, <1>7 DEF vars
<1> QED  BY <1>2, <1>3, <1>4, <1>5, <1>6, <1>7 DEF Next

LEMMA TypesStep == Types /\ [Next]_vars => Types'
BY TableStep, HandsStep, PastStep, BoundsStep DEF Types

\* Every row, claim and task is of its kind, and a call holds claims exactly while it works on
\* them (task-schedule-store.ts, tickSchedules).
THEOREM TypeCorrect == Spec => []TypeOK
<1>1. Types => TypeOK  BY DEF Types, Table, Hands, Past, Bounds, TypeOK
<1> QED  BY <1>1, TypesInit, TypesStep, PTL DEF Spec

-----------------------------------------------------------------------------
(* One task per period, when calls of claimDue do not overlap. *)

\* A due run that has been claimed: it has its task, is in the hands of a call, or was lost.
\* What counts of its instant is that the cadence had come so far.
IsRun(c, t) ==
  /\ ~c.manual
  /\ \/ \E i \in 1..Len(tasks) : tasks[i].claim = c /\ tasks[i].at = t
     \/ \E k \in Invocation : c \in due[k] /\ now[k] = t
     \/ c \in dropped /\ t = c.due

\* A row whose last edit a run has seen is past that run.
Ahead ==
  \A c \in Claim, t \in Nat : IsRun(c, t) =>
    LET s == c.schedule
    IN  /\ c.due <= t /\ c.edit <= edit[s] /\ row[s] # "absent"
        /\ (row[s] = "live" /\ c.edit = edit[s] /\ Period[s] = 0) => ~enabled[s]
        /\ (row[s] = "live" /\ c.edit = edit[s] /\ Period[s] # 0) => t < next[s]

\* One call selects at a time; what it has selected is what the rows say, unless edited.
Chosen ==
  /\ \A j, k \in Invocation : pc[j] = "advance" /\ pc[k] = "advance" => j = k
  /\ \A k \in Invocation : \A c \in todo[k] :
       /\ ~c.manual /\ c.due <= now[k] /\ row[c.schedule] # "absent"
       /\ c.edit <= edit[c.schedule]
       /\ c.edit = edit[c.schedule] => c.due = next[c.schedule]
       /\ \A d \in todo[k] : d.schedule = c.schedule => d = c

\* A selected run comes after all runs of its schedule that were claimed.
After(c, d, t) ==
  d.schedule = c.schedule => /\ d.edit <= c.edit
                             /\ d.edit = c.edit => Period[c.schedule] # 0 /\ t < c.due
InOrder ==
  \A k \in Invocation : \A c \in todo[k] :
    \A d \in Claim, t \in Nat : IsRun(d, t) => After(c, d, t)

\* Two runs of a schedule that nobody edited between them are periods apart.
Apart ==
  \A c, d \in Claim, t, u \in Nat :
    /\ IsRun(c, t) /\ IsRun(d, u)
    /\ c.schedule = d.schedule /\ c.edit = d.edit /\ c # d
    => Period[c.schedule] # 0 /\ (t < d.due \/ u < c.due)

\* A run is in one place.
OnePlace ==
  /\ \A i, j \in 1..Len(tasks) :
       tasks[i].claim = tasks[j].claim /\ ~tasks[i].claim.manual => i = j
  /\ \A i \in 1..Len(tasks) : ~tasks[i].claim.manual =>
       tasks[i].claim \notin dropped /\ \A k \in Invocation : tasks[i].claim \notin due[k]
  /\ \A k \in Invocation : \A c \in due[k] : ~c.manual =>
       c \notin dropped /\ \A j \in Invocation : c \in due[j] => j = k
  /\ \A c \in dropped : ~c.manual

Cadence == Ahead /\ Chosen /\ InOrder /\ Apart /\ OnePlace

Advances == \E k \in Invocation : \E c \in todo[k] : Advance(k, c)

\* Only Advance makes a run of a claim.
LEMMA NoNewRuns ==
  ASSUME Types, Ahead, [Next]_vars, ~Advances, NEW c \in Claim, NEW t \in Nat, IsRun(c, t)'
  PROVE  \E u \in Nat : t <= u /\ (t = u \/ t = c.due) /\ IsRun(c, u)
<1>1. \A k \in Invocation : now[k] \in Nat  BY DEF Types, Hands, Time
<1>2. c.due \in Nat  BY DEF Claim
<1>3. CASE UNCHANGED <<tasks, due, dropped, now>>  BY <1>3 DEF IsRun
<1>4. ASSUME NEW s \in Schedule, NEW k \in Invocation, RunNow(k, s)
      PROVE  \E u \in Nat : t <= u /\ (t = u \/ t = c.due) /\ IsRun(c, u)
  <2>1. \A j \in Invocation : c \in due'[j] => j # k  BY <1>4 DEF RunNow, IsRun, Types, Hands
  <2>2. \A j \in Invocation : j # k => due'[j] = due[j] /\ now'[j] = now[j]
    BY <1>4 DEF RunNow, Types, Hands
  <2> QED  BY <1>4, <2>1, <2>2 DEF RunNow, IsRun, history
<1>5. ASSUME NEW k \in Invocation, NEW d \in due[k], Fire(k, d)
      PROVE  \E u \in Nat : t <= u /\ (t = u \/ t = c.due) /\ IsRun(c, u)
  <2>1. \A j \in Invocation : due'[j] \subseteq due[j]  BY <1>5 DEF Fire, Types, Hands
  <2>2. \A i \in 1..Len(tasks') : \/ i \in 1..Len(tasks) /\ tasks'[i] = tasks[i]
                                  \/ tasks'[i] = [claim |-> d, at |-> now[k]]
    BY <1>5 DEF Fire, Types, Past
  <2>3. IsRun(c, t)
    <3>1. now' = now /\ dropped' = dropped  BY <1>5 DEF Fire
    <3> QED  BY <2>1, <2>2, <3>1 DEF IsRun
  <2> QED  BY <2>3
<1>6. ASSUME UNCHANGED tasks,
             \A d \in dropped' : d \in dropped \/ \E k \in Invocation : d \in Unfired(k),
             \A j \in Invocation : \A d \in due'[j] : d \in due[j] /\ now'[j] = now[j]
      PROVE  \E u \in Nat : t <= u /\ (t = u \/ t = c.due) /\ IsRun(c, u)
  <2>1. CASE IsRun(c, t)  BY <2>1
  <2>2. CASE ~IsRun(c, t)
    <3>1. c \in dropped' /\ t = c.due /\ c \notin dropped  BY <1>6, <2>2 DEF IsRun
    <3>2. PICK k \in Invocation : c \in Unfired(k)  BY <1>6, <3>1
    <3>3. IsRun(c, now[k])  BY <3>2 DEF Unfired, Scheduled, IsRun
    <3>4. c.due <= now[k]  BY <1>1, <3>3 DEF Ahead
    <3> QED  BY <1>1, <3>1, <3>3, <3>4
  <2> QED  BY <2>1, <2>2
<1>7. ASSUME NEW k \in Invocation, NEW d \in due[k], CannotFire(k, d)
      PROVE  \E u \in Nat : t <= u /\ (t = u \/ t = c.due) /\ IsRun(c, u)
  <2>1. \A e \in dropped' : e \in dropped \/ e \in Unfired(k)
    BY <1>7 DEF CannotFire, Unfired, Scheduled
  <2>2. \A j \in Invocation : \A e \in due'[j] : e \in due[j] /\ now'[j] = now[j]
    BY <1>7 DEF CannotFire, Returns, Types, Hands
  <2> QED  BY <1>6, <1>7, <2>1, <2>2 DEF CannotFire
<1>8. ASSUME NEW k \in Invocation, AdvanceFails(k)
      PROVE  \E u \in Nat : t <= u /\ (t = u \/ t = c.due) /\ IsRun(c, u)
  <2>1. \A j \in Invocation : \A e \in due'[j] : e \in due[j] /\ now'[j] = now[j]
    BY <1>8 DEF AdvanceFails, Returns, Types, Hands
  <2> QED  BY <1>6, <1>8, <2>1 DEF AdvanceFails
<1>9. CASE Crash
  <2>1. \A j \in Invocation : due'[j] = {}  BY <1>9 DEF Crash
  <2> QED  BY <1>6, <1>9, <2>1 DEF Crash
<1>10. ASSUME NEW k \in Invocation, SelectDue(k) \/ Record(k)
       PROVE  \E u \in Nat : t <= u /\ (t = u \/ t = c.due) /\ IsRun(c, u)
  <2>1. \A j \in Invocation : \A e \in due'[j] : e \in due[j] /\ now'[j] = now[j]
    BY <1>10 DEF SelectDue, Record, Returns, Types, Hands
  <2>2. UNCHANGED <<tasks, dropped>>  BY <1>10 DEF SelectDue, Record, history
  <2> QED  BY <1>6, <2>1, <2>2
<1>11. ASSUME NEW s \in Schedule,
              \/ Create(s) \/ Remove(s)
              \/ \E on \in BOOLEAN : Pause(s, on)
              \/ \E m \in Time : Move(s, m)
       PROVE  \E u \in Nat : t <= u /\ (t = u \/ t = c.due) /\ IsRun(c, u)
  BY <1>3, <1>11 DEF Create, Remove, Pause, Move, invocations, history
<1>12. CASE ClockTicks \/ UNCHANGED vars
  BY <1>3, <1>12 DEF ClockTicks, vars, invocations, history
<1> QED
  BY <1>4, <1>5, <1>7, <1>8, <1>9, <1>10, <1>11, <1>12 DEF Next, Operator, Step, Advances

\* Advance makes one run, of the claim it takes.
LEMMA OneNewRun ==
  ASSUME Types, NEW k \in Invocation, NEW d \in todo[k], Advance(k, d),
         NEW c, NEW t, IsRun(c, t)'
  PROVE  IsRun(c, t) \/ (c = d /\ t = now[k])
<1>1. now' = now /\ UNCHANGED <<tasks, dropped>>  BY DEF Advance, history
<1>2. \A j \in Invocation : \A e \in due'[j] : e \in due[j] \/ (e = d /\ j = k)
  BY DEF Advance, Types, Hands
<1> QED  BY <1>1, <1>2 DEF IsRun

\* A claim that is selected is no run yet.
LEMMA NotYet ==
  ASSUME Types, Ahead, InOrder, NEW k \in Invocation, NEW c \in todo[k], NEW t \in Nat
  PROVE  ~IsRun(c, t)
<1>1. c \in Claim /\ c.due \in Nat  BY DEF Types, Hands, Claim
<1> QED  BY <1>1 DEF Ahead, InOrder, After

\* What Advance writes is past the run it follows and past the instant of its claim.
LEMMA AdvanceWrites ==
  ASSUME Types, NEW k \in Invocation, NEW d \in todo[k], Advance(k, d), Chosen,
         row[d.schedule] = "live"
  PROVE  /\ Period[d.schedule] = 0 => enabled'[d.schedule] = FALSE
         /\ Period[d.schedule] # 0 => next'[d.schedule] > now[k]
<1>1. d.schedule \in Schedule /\ d.due \in Nat /\ now[k] \in Nat
  BY DEF Types, Hands, Claim, Time
<1>2. Period[d.schedule] = 0 => enabled'[d.schedule] = FALSE
  BY <1>1 DEF Advance, Types, Table
<1>3. ASSUME Period[d.schedule] # 0  PROVE next'[d.schedule] > now[k]
  <2>1. next'[d.schedule] = NextRun(d.due, Period[d.schedule], now[k])
    BY <1>1, <1>3 DEF Advance, Types, Table
  <2>2. Period[d.schedule] \in Nat \ {0}  BY <1>1, <1>3, PeriodAssumption
  <2>3. NextRun(d.due, Period[d.schedule], now[k]) > now[k]  BY <1>1, <2>2, NextRunGap, Zenon
  <2> QED  BY <2>1, <2>3
<1> QED  BY <1>2, <1>3

\* What a step does to the row of a schedule that has runs.
LEMMA RowStep ==
  ASSUME Types, [Next]_vars, ~Advances, NEW s \in Schedule, row[s] # "absent"
  PROVE  /\ row'[s] # "absent" /\ (row'[s] = "live" => row[s] = "live")
         /\ \/ edit'[s] = edit[s] /\ enabled'[s] = enabled[s] /\ next'[s] = next[s]
            \/ edit'[s] = edit[s] + 1
<1>1. CASE UNCHANGED <<rows, edit>>  BY <1>1 DEF rows
<1>2. ASSUME NEW x \in Schedule, Create(x)
      PROVE  row'[s] = row[s] /\ edit'[s] = edit[s] /\ enabled'[s] = enabled[s] /\ next'[s] = next[s]
  BY <1>2 DEF Types, Table, Create, history
<1>3. ASSUME NEW x \in Schedule, NEW on \in BOOLEAN, Pause(x, on)
      PROVE  /\ row'[s] = row[s]
             /\ \/ edit'[s] = edit[s] /\ enabled'[s] = enabled[s] /\ next'[s] = next[s]
                \/ edit'[s] = edit[s] + 1
  BY <1>3 DEF Types, Table, Pause
<1>4. ASSUME NEW x \in Schedule, NEW m \in Time, Move(x, m)
      PROVE  /\ row'[s] = row[s]
             /\ \/ edit'[s] = edit[s] /\ enabled'[s] = enabled[s] /\ next'[s] = next[s]
                \/ edit'[s] = edit[s] + 1
  BY <1>4 DEF Types, Table, Move
<1>5. ASSUME NEW x \in Schedule, Remove(x)
      PROVE  /\ row'[s] # "absent" /\ (row'[s] = "live" => row[s] = "live")
             /\ edit'[s] = edit[s] /\ enabled'[s] = enabled[s] /\ next'[s] = next[s]
  BY <1>5 DEF Types, Table, Remove
<1>6. ASSUME \/ \E k \in Invocation :
                  \/ \E x \in Schedule : RunNow(k, x)
                  \/ SelectDue(k) \/ Record(k) \/ AdvanceFails(k)
                  \/ \E c \in due[k] : Fire(k, c) \/ CannotFire(k, c)
             \/ ClockTicks \/ Crash \/ UNCHANGED vars
      PROVE  UNCHANGED <<rows, edit>>
  BY <1>6 DEF RunNow, SelectDue, Record, AdvanceFails, Fire, CannotFire, ClockTicks, Crash,
              vars, history
<1> QED  BY <1>1, <1>2, <1>3, <1>4, <1>5, <1>6 DEF Next, Operator, Step, Advances

LEMMA AheadStep == Types /\ Cadence /\ [Next]_vars => Ahead'
<1> SUFFICES ASSUME Types, Cadence, [Next]_vars, NEW c \in Claim, NEW t \in Nat, IsRun(c, t)'
             PROVE  LET s == c.schedule
                    IN  /\ c.due <= t /\ c.edit <= edit'[s] /\ row'[s] # "absent"
                        /\ (row'[s] = "live" /\ c.edit = edit'[s] /\ Period[s] = 0) => ~enabled'[s]
                        /\ (row'[s] = "live" /\ c.edit = edit'[s] /\ Period[s] # 0) => t < next'[s]
  BY DEF Ahead
<1> DEFINE s == c.schedule
<1>1. s \in Schedule /\ c.due \in Nat /\ c.edit \in Nat /\ edit[s] \in Nat /\ next[s] \in Nat
  BY DEF Claim, Types, Table
<1> HIDE DEF s
<1>2. CASE ~Advances
  <2>1. PICK u \in Nat : t <= u /\ (t = u \/ t = c.due) /\ IsRun(c, u)  BY <1>2, NoNewRuns DEF Cadence
  <2>2. /\ c.due <= u /\ c.edit <= edit[s] /\ row[s] # "absent"
        /\ (row[s] = "live" /\ c.edit = edit[s] /\ Period[s] = 0) => ~enabled[s]
        /\ (row[s] = "live" /\ c.edit = edit[s] /\ Period[s] # 0) => u < next[s]
    BY <2>1 DEF Cadence, Ahead, s
  <2>3. c.due <= t  BY <1>1, <2>1, <2>2
  <2>4. /\ row'[s] # "absent" /\ (row'[s] = "live" => row[s] = "live")
        /\ \/ edit'[s] = edit[s] /\ enabled'[s] = enabled[s] /\ next'[s] = next[s]
           \/ edit'[s] = edit[s] + 1
    BY <1>1, <1>2, <2>2, RowStep
  <2>5. c.edit <= edit'[s]  BY <1>1, <2>2, <2>4
  <2>6. (row'[s] = "live" /\ c.edit = edit'[s] /\ Period[s] = 0) => ~enabled'[s]
    BY <1>1, <2>2, <2>4
  <2>7. (row'[s] = "live" /\ c.edit = edit'[s] /\ Period[s] # 0) => t < next'[s]
    BY <1>1, <2>1, <2>2, <2>4
  <2> QED  BY <2>3, <2>4, <2>5, <2>6, <2>7 DEF s
<1>3. ASSUME NEW k \in Invocation, NEW d \in todo[k], Advance(k, d)
      PROVE  /\ c.due <= t /\ c.edit <= edit'[s] /\ row'[s] # "absent"
             /\ (row'[s] = "live" /\ c.edit = edit'[s] /\ Period[s] = 0) => ~enabled'[s]
             /\ (row'[s] = "live" /\ c.edit = edit'[s] /\ Period[s] # 0) => t < next'[s]
  <2>1. row' = row /\ edit' = edit  BY <1>3 DEF Advance, history
  <2>2. d \in Claim /\ d.due \in Nat /\ d.edit \in Nat /\ d.schedule \in Schedule /\ now[k] \in Nat
    BY DEF Types, Hands, Claim, Time
  <2>3. /\ d.due <= now[k] /\ row[d.schedule] # "absent" /\ d.edit <= edit[d.schedule]
    BY DEF Cadence, Chosen
  <2>4. CASE s # d.schedule
    <3>1. c # d  BY <2>4 DEF s
    <3>2. IsRun(c, t)  BY <1>3, <3>1, OneNewRun
    <3>3. next'[s] = next[s] /\ enabled'[s] = enabled[s]
      BY <1>1, <1>3, <2>2, <2>4 DEF Advance, Types, Table
    <3> QED  BY <2>1, <3>2, <3>3 DEF Cadence, Ahead, s
  <2>5. CASE s = d.schedule
    <3>1. IsRun(c, t) \/ (c = d /\ t = now[k])  BY <1>3, OneNewRun
    <3>2. c.due <= t /\ c.edit <= edit[s] /\ row[s] # "absent"
      BY <2>3, <2>5, <3>1 DEF Cadence, Ahead, s
    <3>3. c.edit = edit[s] /\ Period[s] # 0 => t <= now[k]
      <4>1. IsRun(c, t) => After(d, c, t)  BY DEF Cadence, InOrder
      <4> QED  BY <1>1, <2>2, <2>3, <2>5, <3>1, <4>1 DEF After, s
    <3>4. row[s] = "live" => /\ Period[s] = 0 => enabled'[s] = FALSE
                             /\ Period[s] # 0 => next'[s] > now[k]
      BY <1>3, <2>5, AdvanceWrites DEF Cadence
    <3>5. next'[s] \in Nat  BY <1>1, TableStep DEF Table
    <3>6. (row'[s] = "live" /\ c.edit = edit'[s] /\ Period[s] = 0) => ~enabled'[s]
      BY <2>1, <3>4
    <3>7. (row'[s] = "live" /\ c.edit = edit'[s] /\ Period[s] # 0) => t < next'[s]
      BY <2>1, <2>2, <3>3, <3>4, <3>5
    <3> QED  BY <2>1, <3>2, <3>6, <3>7
  <2> QED  BY <2>4, <2>5
<1> QED  BY <1>2, <1>3 DEF Advances, s

\* Other steps select nothing.
LEMMA NoSelection ==
  ASSUME Types, [Next]_vars, ~Advances, ~\E k \in Invocation : SelectDue(k)
  PROVE  /\ \A j \in Invocation : pc'[j] = "advance" => pc[j] = "advance"
         /\ \A j \in Invocation : \A c \in todo'[j] : c \in todo[j] /\ now'[j] = now[j]
<1>1. \/ \E k \in Invocation :
           \/ \E x \in Schedule : RunNow(k, x)
           \/ Record(k) \/ AdvanceFails(k)
           \/ \E c \in due[k] : Fire(k, c) \/ CannotFire(k, c)
      \/ ClockTicks \/ Crash \/ UNCHANGED vars
      \/ \E s \in Schedule : \/ Create(s) \/ Remove(s)
                             \/ \E on \in BOOLEAN : Pause(s, on)
                             \/ \E m \in Time : Move(s, m)
  BY DEF Next, Operator, Step, Advances
<1> QED
  BY <1>1 DEF RunNow, Record, Returns, AdvanceFails, Fire, CannotFire, ClockTicks, Crash,
              vars, Create, Remove, Pause, Move, invocations, Types, Hands

\* What SelectDue takes is what the rows say, once for each schedule.
LEMMA Selection ==
  ASSUME Types, NEW k \in Invocation, SelectDue(k)
  PROVE  /\ \A c \in todo'[k] : /\ ~c.manual /\ c.due <= clock /\ IsDue(c.schedule)
                                /\ c.schedule \in Schedule
                                /\ c.edit = edit[c.schedule] /\ c.due = next[c.schedule]
                                /\ \A d \in todo'[k] : d.schedule = c.schedule => d = c
         /\ \A j \in Invocation \ {k} : todo'[j] = todo[j]
<1> DEFINE S == {[schedule |-> s, due |-> next[s], edit |-> edit[s], manual |-> FALSE] :
                   s \in {x \in Schedule : IsDue(x)}}
<1>1. todo' = [todo EXCEPT ![k] = S]  BY DEF SelectDue
<1>2. todo'[k] = S /\ \A j \in Invocation \ {k} : todo'[j] = todo[j]
  BY <1>1 DEF Types, Hands
<1>3. \A c \in S : /\ ~c.manual /\ c.due <= clock /\ IsDue(c.schedule) /\ c.schedule \in Schedule
                   /\ c.edit = edit[c.schedule] /\ c.due = next[c.schedule]
                   /\ \A d \in S : d.schedule = c.schedule => d = c
  <2> SUFFICES ASSUME NEW c \in S
               PROVE  /\ ~c.manual /\ c.due <= clock /\ IsDue(c.schedule) /\ c.schedule \in Schedule
                      /\ c.edit = edit[c.schedule] /\ c.due = next[c.schedule]
                      /\ \A d \in S : d.schedule = c.schedule => d = c
    OBVIOUS
  <2>1. \A d \in S : /\ d = [schedule |-> d.schedule, due |-> next[d.schedule],
                             edit |-> edit[d.schedule], manual |-> FALSE]
                     /\ IsDue(d.schedule) /\ d.schedule \in Schedule
    OBVIOUS
  <2>2. /\ ~c.manual /\ c.due = next[c.schedule] /\ c.edit = edit[c.schedule]
        /\ IsDue(c.schedule) /\ c.schedule \in Schedule
    BY <2>1
  <2>3. \A d \in S : d.schedule = c.schedule => d = c  BY <2>1
  <2> QED  BY <2>2, <2>3 DEF IsDue
<1> QED  BY <1>2, <1>3

LEMMA ChosenStep ==
  ASSUME ~OverlappingClaims PROVE Types /\ Cadence /\ [Next]_vars => Chosen'
<1> SUFFICES ASSUME Types, Cadence, [Next]_vars PROVE Chosen'
  OBVIOUS
<1>0. Chosen  BY DEF Cadence
<1>1. ASSUME NEW k \in Invocation, SelectDue(k)  PROVE Chosen'
  <2>1. now' = [now EXCEPT ![k] = clock] /\ pc' = [pc EXCEPT ![k] = "advance"]
        /\ row' = row /\ next' = next /\ edit' = edit
    BY <1>1 DEF SelectDue, rows, history
  <2>2. \A j \in Invocation : pc[j] # "advance" /\ todo[j] = {}
    BY <1>1 DEF SelectDue, Types, Hands
  <2>3. \A c \in todo'[k] : /\ ~c.manual /\ c.due <= clock /\ row[c.schedule] = "live"
                            /\ c.edit = edit[c.schedule] /\ c.due = next[c.schedule]
                            /\ edit[c.schedule] \in Nat
                            /\ \A d \in todo'[k] : d.schedule = c.schedule => d = c
    BY <1>1, Selection DEF IsDue, Types, Table
  <2>4. \A j \in Invocation \ {k} : todo'[j] = {} /\ pc'[j] # "advance"
    BY <1>1, <2>1, <2>2, Selection DEF Types, Hands
  <2>5. now'[k] = clock  BY <2>1 DEF Types, Hands
  <2> QED  BY <2>1, <2>3, <2>4, <2>5 DEF Chosen
<1>2. ASSUME NEW k \in Invocation, NEW d \in todo[k], Advance(k, d)  PROVE Chosen'
  <2>1. row' = row /\ edit' = edit /\ now' = now  BY <1>2 DEF Advance, history
  <2>2. pc[k] = "advance" /\ \A j \in Invocation : pc'[j] = "advance" => pc[j] = "advance"
    BY <1>2 DEF Advance, Types, Hands
  <2>3. \A j \in Invocation : j # k => todo'[j] = {}
    BY <1>0, <1>2, <2>2 DEF Advance, Types, Hands, Chosen
  <2>4. todo'[k] = todo[k] \ {d}  BY <1>2 DEF Advance, Types, Hands
  <2>5. \A c \in todo'[k] : c \in todo[k] /\ c.schedule # d.schedule /\ c.schedule \in Schedule
    BY <1>0, <2>4 DEF Chosen, Types, Hands, Claim
  <2>6. \A s \in Schedule : s # d.schedule => next'[s] = next[s]
    BY <1>2 DEF Advance, Types, Table
  <2> QED  BY <1>0, <2>1, <2>2, <2>3, <2>5, <2>6 DEF Chosen
<1>3. ASSUME ~Advances, \A j \in Invocation : pc'[j] = "advance" => pc[j] = "advance",
             \A j \in Invocation : \A c \in todo'[j] : c \in todo[j] /\ now'[j] = now[j]
      PROVE  Chosen'
  <2>1. ASSUME NEW k \in Invocation, NEW c \in todo'[k]
        PROVE  /\ ~c.manual /\ c.due <= now'[k] /\ row'[c.schedule] # "absent"
               /\ c.edit <= edit'[c.schedule]
               /\ c.edit = edit'[c.schedule] => c.due = next'[c.schedule]
               /\ \A d \in todo'[k] : d.schedule = c.schedule => d = c
    <3>1. c \in todo[k] /\ now'[k] = now[k]  BY <1>3, <2>1
    <3>2. /\ ~c.manual /\ c.due <= now[k] /\ row[c.schedule] # "absent"
          /\ c.edit <= edit[c.schedule]
          /\ c.edit = edit[c.schedule] => c.due = next[c.schedule]
          /\ \A d \in todo[k] : d.schedule = c.schedule => d = c
      BY <1>0, <3>1 DEF Chosen
    <3>3. c.schedule \in Schedule /\ c.edit \in Nat /\ edit[c.schedule] \in Nat
      BY <3>1 DEF Types, Hands, Table, Claim
    <3>4. /\ row'[c.schedule] # "absent"
          /\ \/ edit'[c.schedule] = edit[c.schedule] /\ next'[c.schedule] = next[c.schedule]
             \/ edit'[c.schedule] = edit[c.schedule] + 1
      BY <1>3, <3>2, <3>3, RowStep
    <3>5. /\ c.edit <= edit'[c.schedule]
          /\ c.edit = edit'[c.schedule] => c.due = next'[c.schedule]
      BY <3>2, <3>3, <3>4
    <3> QED  BY <1>3, <3>1, <3>2, <3>4, <3>5
  <2> QED  BY <1>0, <1>3, <2>1 DEF Chosen
<1>4. ASSUME ~Advances, ~\E k \in Invocation : SelectDue(k)
      PROVE  Chosen'
  BY <1>3, <1>4, NoSelection
<1> QED  BY <1>1, <1>2, <1>4 DEF Advances

LEMMA InOrderStep ==
  ASSUME ~OverlappingClaims PROVE Types /\ Cadence /\ [Next]_vars => InOrder'
<1> SUFFICES ASSUME Types, Cadence, [Next]_vars,
                    NEW k \in Invocation, NEW c \in todo'[k], NEW d \in Claim, NEW t \in Nat,
                    IsRun(d, t)'
             PROVE  After(c, d, t)
  BY DEF InOrder, After
<1>1. CASE ~Advances
  <2>1. PICK u \in Nat : t <= u /\ IsRun(d, u)  BY <1>1, NoNewRuns DEF Cadence
  <2>2. CASE c \in todo[k]
    <3>1. After(c, d, u)  BY <2>1, <2>2 DEF Cadence, InOrder
    <3>2. c.due \in Nat  BY <2>2 DEF Types, Hands, Claim
    <3> QED  BY <2>1, <3>1, <3>2 DEF After
  <2>3. CASE c \notin todo[k]
    <3>1. c.edit = edit[c.schedule] /\ c.due = next[c.schedule] /\ IsDue(c.schedule)
      <4>1. CASE \E j \in Invocation : SelectDue(j)
        <5>1. PICK j \in Invocation : SelectDue(j)  BY <4>1
        <5>2. j = k  BY <2>3, <5>1, Selection
        <5> QED  BY <5>1, <5>2, Selection
      <4> QED  BY <1>1, <2>3, <4>1, NoSelection
    <3>2. d.schedule = c.schedule =>
            /\ d.edit <= c.edit
            /\ d.edit = c.edit => Period[c.schedule] # 0 /\ u < c.due
      BY <2>1, <3>1 DEF Cadence, Ahead, IsDue
    <3>3. d.schedule = c.schedule => c.due \in Nat  BY <3>1 DEF Types, Table, Claim
    <3> QED  BY <2>1, <3>2, <3>3 DEF After
  <2> QED  BY <2>2, <2>3
<1>2. ASSUME NEW j \in Invocation, NEW e \in todo[j], Advance(j, e)  PROVE After(c, d, t)
  <2>1. c \in todo[k]  BY <1>2 DEF Advance, Types, Hands
  <2>2. pc[j] = "advance" /\ pc[k] = "advance"  BY <2>1, <1>2 DEF Advance, Types, Hands
  <2>3. k = j /\ c # e  BY <2>1, <2>2, <1>2 DEF Cadence, Chosen, Advance, Types, Hands
  <2>4. c.schedule # e.schedule  BY <2>1, <2>3 DEF Cadence, Chosen
  <2>5. IsRun(d, t) \/ d = e  BY <1>2, OneNewRun
  <2> QED  BY <2>1, <2>4, <2>5 DEF Cadence, InOrder, After
<1> QED  BY <1>1, <1>2 DEF Advances

LEMMA ApartStep == Types /\ Cadence /\ [Next]_vars => Apart'
<1> SUFFICES ASSUME Types, Cadence, [Next]_vars,
                    NEW c \in Claim, NEW d \in Claim, NEW t \in Nat, NEW u \in Nat,
                    IsRun(c, t)', IsRun(d, u)',
                    c.schedule = d.schedule, c.edit = d.edit, c # d
             PROVE  Period[c.schedule] # 0 /\ (t < d.due \/ u < c.due)
  BY DEF Apart
<1>0. c.due \in Nat /\ d.due \in Nat  BY DEF Claim
<1>1. CASE ~Advances
  <2>1. PICK v \in Nat : t <= v /\ IsRun(c, v)  BY <1>1, NoNewRuns DEF Cadence
  <2>2. PICK w \in Nat : u <= w /\ IsRun(d, w)  BY <1>1, NoNewRuns DEF Cadence
  <2>3. Period[c.schedule] # 0 /\ (v < d.due \/ w < c.due)
    BY <2>1, <2>2 DEF Cadence, Apart
  <2> QED  BY <1>0, <2>1, <2>2, <2>3
<1>2. ASSUME NEW j \in Invocation, NEW e \in todo[j], Advance(j, e)
      PROVE  Period[c.schedule] # 0 /\ (t < d.due \/ u < c.due)
  <2>1. IsRun(c, t) \/ c = e  BY <1>2, OneNewRun
  <2>2. IsRun(d, u) \/ d = e  BY <1>2, OneNewRun
  <2>3. CASE IsRun(c, t) /\ IsRun(d, u)  BY <2>3 DEF Cadence, Apart
  <2>4. CASE IsRun(c, t) /\ d = e
    <3>1. After(e, c, t)  BY <2>4 DEF Cadence, InOrder
    <3> QED  BY <2>4, <3>1 DEF After
  <2>5. CASE c = e /\ IsRun(d, u)
    <3>1. After(e, d, u)  BY <2>5 DEF Cadence, InOrder
    <3> QED  BY <2>5, <3>1 DEF After
  <2> QED  BY <2>1, <2>2, <2>3, <2>4, <2>5
<1> QED  BY <1>1, <1>2 DEF Advances

LEMMA TaskTyped ==
  ASSUME Types, NEW i \in 1..Len(tasks)
  PROVE  /\ tasks[i] = [claim |-> tasks[i].claim, at |-> tasks[i].at]
         /\ tasks[i].claim \in Claim /\ tasks[i].at \in Time
<1> DEFINE S == [claim : Claim, at : Time]
<1>1. tasks \in Seq(S)  BY DEF Types, Past
<1> HIDE DEF S
<1>2. tasks[i] \in S  BY <1>1
<1> QED  BY <1>2 DEF S

\* What a call holds goes nowhere else unless it is given up whole.
LEMMA OnePlaceStep == Types /\ Cadence /\ [Next]_vars => OnePlace'
<1> SUFFICES ASSUME Types, Cadence, [Next]_vars PROVE OnePlace'
  OBVIOUS
<1>0. OnePlace  BY DEF Cadence
<1>1. CASE UNCHANGED <<tasks, due, dropped>>  BY <1>0, <1>1 DEF OnePlace
<1>2. ASSUME NEW k \in Invocation, NEW s \in Schedule, RunNow(k, s)  PROVE OnePlace'
  <2>1. UNCHANGED <<tasks, dropped>>  BY <1>2 DEF RunNow, history
  <2>2. \A j \in Invocation : \A c \in due'[j] : ~c.manual => c \in due[j]
    BY <1>2 DEF RunNow, Types, Hands
  <2> QED  BY <1>0, <2>1, <2>2 DEF OnePlace
<1>3. ASSUME NEW k \in Invocation, NEW d \in todo[k], Advance(k, d)  PROVE OnePlace'
  <2>1. UNCHANGED <<tasks, dropped>>  BY <1>3 DEF Advance, history
  <2>2. \A j \in Invocation : \A c \in due'[j] : c \in due[j] \/ (c = d /\ j = k)
    BY <1>3 DEF Advance, Types, Hands
  <2>3. ~d.manual  BY DEF Cadence, Chosen
  <2>4. \A t \in Nat : ~IsRun(d, t)  BY NotYet DEF Cadence
  <2>5. d \notin dropped
    <3>1. d.due \in Nat  BY DEF Types, Hands, Claim
    <3> QED  BY <2>3, <2>4, <3>1 DEF IsRun
  <2>6. \A j \in Invocation : d \notin due[j]
    <3>1. \A j \in Invocation : now[j] \in Nat  BY DEF Types, Hands, Time
    <3> QED  BY <2>3, <2>4, <3>1 DEF IsRun
  <2>7. \A i \in 1..Len(tasks) : tasks[i].claim # d
    <3>0. \A i \in 1..Len(tasks) : tasks[i].at \in Time  BY TaskTyped
    <3>1. \A i \in 1..Len(tasks) : tasks[i].at \in Nat  BY <3>0 DEF Time
    <3> QED  BY <2>3, <2>4, <3>1 DEF IsRun
  <2> QED  BY <1>0, <2>1, <2>2, <2>5, <2>6, <2>7 DEF OnePlace
<1>4. ASSUME NEW k \in Invocation, NEW d \in due[k], Fire(k, d)  PROVE OnePlace'
  <2>1. dropped' = dropped  BY <1>4 DEF Fire
  <2>2. \A j \in Invocation : \A c \in due'[j] : c \in due[j] /\ (j = k => c # d)
    BY <1>4 DEF Fire, Types, Hands
  <2>3. Len(tasks) \in Nat /\ Len(tasks') = Len(tasks) + 1
        /\ tasks'[Len(tasks) + 1].claim = d
        /\ \A i \in 1..Len(tasks) : tasks'[i] = tasks[i]
    BY <1>4 DEF Fire, Types, Past
  <2>4. \A i \in 1..Len(tasks') : i \in 1..Len(tasks) \/ i = Len(tasks) + 1  BY <2>3
  <2>5. ~d.manual => d \notin dropped /\ (\A i \in 1..Len(tasks) : tasks[i].claim # d)
                     /\ \A j \in Invocation : d \in due[j] => j = k
    BY <1>0 DEF OnePlace
  <2>6. \A i, j \in 1..Len(tasks') :
          tasks'[i].claim = tasks'[j].claim /\ ~tasks'[i].claim.manual => i = j
    BY <1>0, <2>3, <2>4, <2>5 DEF OnePlace
  <2>7. \A i \in 1..Len(tasks') : ~tasks'[i].claim.manual =>
          tasks'[i].claim \notin dropped' /\ \A j \in Invocation : tasks'[i].claim \notin due'[j]
    BY <1>0, <2>1, <2>2, <2>3, <2>4, <2>5 DEF OnePlace
  <2>8. \A j \in Invocation : \A c \in due'[j] : ~c.manual =>
          c \notin dropped' /\ \A l \in Invocation : c \in due'[l] => l = j
    BY <1>0, <2>1, <2>2 DEF OnePlace
  <2>9. \A c \in dropped' : ~c.manual  BY <1>0, <2>1 DEF OnePlace
  <2> QED  BY <2>6, <2>7, <2>8, <2>9 DEF OnePlace
<1>5. ASSUME UNCHANGED tasks,
             \A d \in dropped' : d \in dropped \/ \E k \in Invocation : d \in Unfired(k) /\ d \notin due'[k],
             \A j \in Invocation : due'[j] \subseteq due[j]
      PROVE  OnePlace'
  BY <1>0, <1>5 DEF OnePlace, Unfired, Scheduled
<1>6. ASSUME NEW k \in Invocation, NEW d \in due[k], CannotFire(k, d)  PROVE OnePlace'
  <2>1. due'[k] = due[k] \ {d} /\ \A j \in Invocation : due'[j] \subseteq due[j]
    BY <1>6 DEF CannotFire, Types, Hands
  <2> QED  BY <1>5, <1>6, <2>1 DEF CannotFire, Unfired, Scheduled
<1>7. ASSUME NEW k \in Invocation, AdvanceFails(k)  PROVE OnePlace'
  <2>1. due'[k] = {} /\ \A j \in Invocation : due'[j] \subseteq due[j]
    BY <1>7 DEF AdvanceFails, Types, Hands
  <2> QED  BY <1>5, <1>7, <2>1 DEF AdvanceFails
<1>8. CASE Crash
  <2>1. \A j \in Invocation : due'[j] = {}  BY <1>8 DEF Crash
  <2> QED  BY <1>5, <1>8, <2>1 DEF Crash
<1>9. ASSUME \/ \E k \in Invocation : SelectDue(k) \/ Record(k)
             \/ ClockTicks \/ UNCHANGED vars
             \/ \E s \in Schedule : \/ Create(s) \/ Remove(s)
                                    \/ \E on \in BOOLEAN : Pause(s, on)
                                    \/ \E m \in Time : Move(s, m)
      PROVE  OnePlace'
  BY <1>1, <1>9 DEF SelectDue, Record, ClockTicks, vars, Create, Remove, Pause, Move, invocations,
     history
<1> QED  BY <1>2, <1>3, <1>4, <1>6, <1>7, <1>8, <1>9 DEF Next, Operator, Step

LEMMA CadenceInit == Init => Cadence
<1> SUFFICES ASSUME Init PROVE Cadence
  OBVIOUS
<1>1. tasks = <<>> /\ dropped = {} /\ \A k \in Invocation : due[k] = {} /\ todo[k] = {} /\ pc[k] = "idle"
  BY DEF Init
<1>2. \A c, t : ~IsRun(c, t)  BY <1>1 DEF IsRun
<1> QED  BY <1>1, <1>2 DEF Cadence, Ahead, Chosen, InOrder, Apart, OnePlace

LEMMA CadenceStep ==
  ASSUME ~OverlappingClaims PROVE Types /\ Cadence /\ [Next]_vars => Cadence'
BY AheadStep, ChosenStep, InOrderStep, ApartStep, OnePlaceStep DEF Cadence

\* A run's slot is the instant it was due or later, and not after its claim.
LEMMA SlotBounds ==
  ASSUME NEW c \in Claim, NEW t \in Time, c.due <= t
  PROVE  LET x == Slot([claim |-> c, at |-> t]) IN x \in Nat /\ c.due <= x /\ x <= t
<1> DEFINE p == Period[c.schedule]
<1>1. c.due \in Nat /\ t \in Nat /\ p \in Nat  BY PeriodAssumption DEF Claim, Time
<1>2. CASE p = 0  BY <1>1, <1>2 DEF Slot
<1>3. CASE p # 0
  <2>1. Slot([claim |-> c, at |-> t]) = c.due + ((t - c.due) \div p) * p
    BY <1>3 DEF Slot
  <2> HIDE DEF p
  <2> DEFINE gap == t - c.due
  <2>2. gap \in Nat  BY <1>1
  <2>3. t = c.due + gap  BY <1>1
  <2> HIDE DEF gap
  <2>4. gap \div p \in Nat /\ (gap \div p) * p <= gap  BY <1>1, <1>3, <2>2, Division
  <2> DEFINE q == gap \div p
  <2>5. q * p \in Nat  BY <1>1, <2>4
  <2>6. Slot([claim |-> c, at |-> t]) = c.due + q * p  BY <2>1 DEF gap
  <2> HIDE DEF q
  <2>7. q * p <= gap  BY <2>4 DEF q
  <2> QED  BY <1>1, <2>2, <2>3, <2>5, <2>6, <2>7
<1> QED  BY <1>2, <1>3

\* Whatever ticks, crashes, failures and edits come between, one period of a schedule gives
\* one task, if calls of claimDue do not overlap (task-schedule-store.ts: claimDue,
\* computeNextRun).
THEOREM TasksKeepTheirPeriod ==
  ASSUME ~OverlappingClaims PROVE Spec => []OncePerPeriod
<1>1. Types /\ Cadence => OncePerPeriod
  <2> SUFFICES ASSUME Types, Cadence, NEW i \in 1..Len(tasks), NEW j \in 1..Len(tasks),
                      tasks[i].claim.schedule = tasks[j].claim.schedule,
                      tasks[i].claim.edit = tasks[j].claim.edit,
                      ~tasks[i].claim.manual, ~tasks[j].claim.manual,
                      Slot(tasks[i]) = Slot(tasks[j])
               PROVE  i = j
    BY DEF OncePerPeriod
  <2> DEFINE c == tasks[i].claim
             t == tasks[i].at
             d == tasks[j].claim
             u == tasks[j].at
  <2>1. /\ tasks[i] = [claim |-> c, at |-> t] /\ c \in Claim /\ t \in Time
        /\ tasks[j] = [claim |-> d, at |-> u] /\ d \in Claim /\ u \in Time
    BY TaskTyped
  <2>2. t \in Nat /\ u \in Nat /\ c.due \in Nat /\ d.due \in Nat  BY <2>1 DEF Time, Claim
  <2>3. IsRun(c, t) /\ IsRun(d, u)  BY DEF IsRun
  <2>4. CASE c = d  BY <2>4 DEF Cadence, OnePlace
  <2>5. CASE c # d
    <3>1. t < d.due \/ u < c.due
      <4> HIDE DEF c, d, t, u
      <4>1. c.schedule = d.schedule /\ c.edit = d.edit  BY DEF c, d
      <4> QED  BY <2>1, <2>2, <2>3, <2>5, <4>1 DEF Cadence, Apart
    <3>2. c.due <= t /\ d.due <= u
      <4> HIDE DEF c, d, t, u
      <4> QED  BY <2>1, <2>2, <2>3 DEF Cadence, Ahead
    <3>3. Slot(tasks[i]) \in Nat /\ c.due <= Slot(tasks[i]) /\ Slot(tasks[i]) <= t
      <4> HIDE DEF c, t
      <4> QED  BY <2>1, <3>2, SlotBounds
    <3>4. Slot(tasks[j]) \in Nat /\ d.due <= Slot(tasks[j]) /\ Slot(tasks[j]) <= u
      <4> HIDE DEF d, u
      <4> QED  BY <2>1, <3>2, SlotBounds
    <3> HIDE DEF c, d, t, u
    <3> QED  BY <2>2, <3>1, <3>3, <3>4
  <2> QED  BY <2>4, <2>5
<1> QED  BY <1>1, TypesInit, CadenceInit, TypesStep, CadenceStep, PTL DEF Spec

-----------------------------------------------------------------------------
(* The count of runs. *)

Claimed(s) == {c \in Claim : c.schedule = s /\ \E t \in Nat : IsRun(c, t)}

Counts ==
  \A s \in Schedule :
    /\ IsFiniteSet(Claimed(s))
    /\ row[s] = "live" => runCount[s] = Cardinality(Claimed(s))
    /\ row[s] = "absent" => runCount[s] = 0

\* A run is given up by no step: it gets its task, or is counted as dropped.
LEMMA NoRunVanishes ==
  ASSUME Types, Cadence, [Next]_vars, NEW c \in Claim, NEW t \in Nat, IsRun(c, t)
  PROVE  \E u \in Nat : IsRun(c, u)'
<1>1. c.due \in Nat /\ (\A j \in Invocation : now'[j] \in Nat)
  BY HandsStep DEF Claim, Hands, Time
<1>2. CASE \E i \in 1..Len(tasks) : tasks[i].claim = c /\ tasks[i].at = t
  <2>1. PICK i \in 1..Len(tasks) : tasks[i].claim = c /\ tasks[i].at = t  BY <1>2
  <2>2. i \in 1..Len(tasks') /\ tasks'[i] = tasks[i]
    <3>1. CASE tasks' = tasks  BY <3>1
    <3>2. ASSUME NEW r, tasks' = Append(tasks, r)  PROVE i \in 1..Len(tasks') /\ tasks'[i] = tasks[i]
      BY <3>2 DEF Types, Past
    <3>3. tasks' = tasks \/ \E r : tasks' = Append(tasks, r)
      BY DEF Next, Operator, Step, RunNow, Record, Advance, AdvanceFails, Fire, CannotFire, ClockTicks,
         Crash, vars, Create, Remove, Pause, Move, SelectDue, history
    <3> QED  BY <3>1, <3>2, <3>3
  <2> QED  BY <2>1, <2>2 DEF IsRun
<1>3. CASE c \in dropped
  <2>1. c \in dropped'
    BY <1>3 DEF Next, Operator, Step, RunNow, Record, Advance, AdvanceFails, Fire, CannotFire, ClockTicks,
       Crash, vars, Create, Remove, Pause, Move, SelectDue, history
  <2> QED  BY <1>1, <2>1 DEF IsRun
<1>4. ASSUME NEW k \in Invocation, c \in due[k]  PROVE \E u \in Nat : IsRun(c, u)'
  <2>0. ~c.manual /\ c \in Unfired(k)  BY <1>4 DEF IsRun, Unfired, Scheduled
  <2>1. CASE c \in due'[k]  BY <1>1, <2>0, <2>1 DEF IsRun
  <2>2. CASE c \in dropped'  BY <1>1, <2>0, <2>2 DEF IsRun
  <2>3. ASSUME NEW j \in Invocation, Fire(j, c)  PROVE \E u \in Nat : IsRun(c, u)'
    <3>1. Len(tasks) + 1 \in 1..Len(tasks') /\ tasks'[Len(tasks) + 1] = [claim |-> c, at |-> now[j]]
      BY <2>3 DEF Fire, Types, Past
    <3>2. now[j] \in Nat  BY DEF Types, Hands, Time
    <3> QED  BY <2>0, <3>1, <3>2 DEF IsRun
  <2>4. ASSUME NEW j \in Invocation, NEW s \in Schedule, RunNow(j, s)  PROVE c \in due'[k]
    BY <1>4, <2>4 DEF RunNow, Types, Hands
  <2>5. ASSUME NEW j \in Invocation, NEW d \in todo[j], Advance(j, d)  PROVE c \in due'[k]
    BY <1>4, <2>5 DEF Advance, Types, Hands
  <2>6. ASSUME NEW j \in Invocation, NEW d \in due[j], Fire(j, d), d # c  PROVE c \in due'[k]
    BY <1>4, <2>6 DEF Fire, Types, Hands
  <2>7. ASSUME NEW j \in Invocation, NEW d \in due[j], CannotFire(j, d)
        PROVE  c \in due'[k] \/ c \in dropped'
    BY <1>4, <2>0, <2>7 DEF CannotFire, Scheduled, Types, Hands
  <2>8. ASSUME NEW j \in Invocation, AdvanceFails(j)  PROVE c \in due'[k] \/ c \in dropped'
    BY <1>4, <2>0, <2>8 DEF AdvanceFails, Types, Hands
  <2>9. CASE Crash  BY <2>0, <2>2, <2>9 DEF Crash
  <2>10. ASSUME \/ \E j \in Invocation : SelectDue(j) \/ Record(j)
                \/ ClockTicks \/ UNCHANGED vars
                \/ \E s \in Schedule : \/ Create(s) \/ Remove(s)
                                       \/ \E on \in BOOLEAN : Pause(s, on)
                                       \/ \E m \in Time : Move(s, m)
         PROVE  c \in due'[k]
    BY <1>4, <2>10 DEF SelectDue, Record, ClockTicks, vars, Create, Remove, Pause, Move, invocations
  <2> QED  BY <2>1, <2>2, <2>3, <2>4, <2>5, <2>6, <2>7, <2>8, <2>9, <2>10 DEF Next, Operator, Step
<1> QED  BY <1>2, <1>3, <1>4 DEF IsRun

LEMMA SameClaimed ==
  ASSUME Types, Cadence, [Next]_vars, ~Advances, NEW s PROVE Claimed(s)' = Claimed(s)
<1>1. \A c \in Claim : (\E t \in Nat : IsRun(c, t)') => \E t \in Nat : IsRun(c, t)
  BY NoNewRuns DEF Cadence
<1>2. \A c \in Claim : (\E t \in Nat : IsRun(c, t)) => \E t \in Nat : IsRun(c, t)'
  BY NoRunVanishes
<1> QED  BY <1>1, <1>2 DEF Claimed

LEMMA NewClaimed ==
  ASSUME Types, Cadence, NEW k \in Invocation, NEW d \in todo[k], Advance(k, d), NEW s
  PROVE  /\ s = d.schedule => Claimed(s)' = Claimed(s) \cup {d} /\ d \notin Claimed(s)
         /\ s # d.schedule => Claimed(s)' = Claimed(s)
<1>1. d \in Claim /\ now[k] \in Nat /\ ~d.manual
  BY DEF Types, Hands, Time, Cadence, Chosen
<1>2. \A c \in Claim : (\E t \in Nat : IsRun(c, t)') => (\E t \in Nat : IsRun(c, t)) \/ c = d
  BY OneNewRun
<1>3. [Next]_vars  BY DEF Next, Step
<1>4. \A c \in Claim : (\E t \in Nat : IsRun(c, t)) => \E t \in Nat : IsRun(c, t)'
  BY <1>3, NoRunVanishes
<1>5. \E t \in Nat : IsRun(d, t)'
  <2>1. d \in due'[k] /\ now'[k] = now[k]  BY DEF Advance, Types, Hands
  <2> QED  BY <1>1, <2>1 DEF IsRun
<1>6. \A t \in Nat : ~IsRun(d, t)  BY NotYet DEF Cadence
<1>7. \A c \in Claim : (\E t \in Nat : IsRun(c, t)') <=> (\E t \in Nat : IsRun(c, t)) \/ c = d
  BY <1>1, <1>2, <1>4, <1>5
<1>8. d \notin Claimed(s)  BY <1>6 DEF Claimed
<1>9. CASE s = d.schedule
  <2>1. \A c \in Claim : c \in Claimed(s)' <=> c \in Claimed(s) \/ c = d
    BY <1>7, <1>9 DEF Claimed
  <2>2. Claimed(s)' \subseteq Claim /\ Claimed(s) \subseteq Claim  BY DEF Claimed
  <2> QED  BY <1>1, <1>8, <1>9, <2>1, <2>2
<1>10. CASE s # d.schedule
  <2>1. \A c \in Claim : c \in Claimed(s)' <=> c \in Claimed(s)
    BY <1>7, <1>10 DEF Claimed
  <2>2. Claimed(s)' \subseteq Claim /\ Claimed(s) \subseteq Claim  BY DEF Claimed
  <2> QED  BY <1>10, <2>1, <2>2
<1> QED  BY <1>9, <1>10

LEMMA NothingClaimed ==
  ASSUME Ahead, NEW s \in Schedule, row[s] = "absent" PROVE Claimed(s) = {}
BY DEF Ahead, Claimed

LEMMA CountsInit == Init => Counts
<1> SUFFICES ASSUME Init PROVE Counts
  OBVIOUS
<1>1. Ahead  BY CadenceInit DEF Cadence
<1>2. \A s \in Schedule : row[s] = "absent" /\ runCount[s] = 0  BY DEF Init
<1>3. \A s \in Schedule : Claimed(s) = {}  BY <1>1, <1>2, NothingClaimed
<1> QED  BY <1>2, <1>3, FS_EmptySet DEF Counts

LEMMA CountsStep == Types /\ Cadence /\ Counts /\ [Next]_vars => Counts'
<1> SUFFICES ASSUME Types, Cadence, Counts, [Next]_vars, NEW s \in Schedule
             PROVE  /\ IsFiniteSet(Claimed(s)')
                    /\ row'[s] = "live" => runCount'[s] = Cardinality(Claimed(s)')
                    /\ row'[s] = "absent" => runCount'[s] = 0
  BY DEF Counts
<1>0. /\ IsFiniteSet(Claimed(s))
      /\ row[s] = "live" => runCount[s] = Cardinality(Claimed(s))
      /\ row[s] = "absent" => runCount[s] = 0
  BY DEF Counts
<1>1. CASE ~Advances
  <2>1. Claimed(s)' = Claimed(s)  BY <1>1, SameClaimed
  <2>2. runCount'[s] = runCount[s]
    BY <1>1 DEF Next, Operator, Step, Advances, RunNow, Record, AdvanceFails, Fire, CannotFire,
       ClockTicks, Crash, vars, Create, Remove, Pause, Move, SelectDue, rows
  <2>3. row'[s] = row[s] \/ row'[s] = "deleted" \/ (row[s] = "absent" /\ row'[s] = "live")
    BY <1>1 DEF Next, Operator, Step, Advances, RunNow, Record, AdvanceFails, Fire, CannotFire,
       ClockTicks, Crash, vars, Create, Remove, Pause, Move, SelectDue, rows, Types, Table
  <2>4. row[s] = "absent" => Cardinality(Claimed(s)) = 0
    BY NothingClaimed, FS_EmptySet DEF Cadence
  <2>5. IsFiniteSet(Claimed(s)')  BY <1>0, <2>1, Zenon
  <2>6. Cardinality(Claimed(s)') = Cardinality(Claimed(s))  BY <2>1, Zenon
  <2> QED  BY <1>0, <2>2, <2>3, <2>4, <2>5, <2>6
<1>2. ASSUME NEW k \in Invocation, NEW d \in todo[k], Advance(k, d)
      PROVE  /\ IsFiniteSet(Claimed(s)')
             /\ row'[s] = "live" => runCount'[s] = Cardinality(Claimed(s)')
             /\ row'[s] = "absent" => runCount'[s] = 0
  <2>1. row' = row  BY <1>2 DEF Advance
  <2>2. CASE s # d.schedule
    <3>1. Claimed(s)' = Claimed(s)  BY <1>2, <2>2, NewClaimed
    <3>2. runCount'[s] = runCount[s]  BY <1>2, <2>2 DEF Advance, Types, Table
    <3>3. IsFiniteSet(Claimed(s)')  BY <1>0, <3>1, Zenon
    <3>4. Cardinality(Claimed(s)') = Cardinality(Claimed(s))  BY <3>1, Zenon
    <3> QED  BY <1>0, <2>1, <3>2, <3>3, <3>4
  <2>3. CASE s = d.schedule
    <3>1. Claimed(s)' = Claimed(s) \cup {d} /\ d \notin Claimed(s)  BY <1>2, <2>3, NewClaimed
    <3>2. IsFiniteSet(Claimed(s)')
      <4>1. IsFiniteSet(Claimed(s) \cup {d})  BY <1>0, FS_AddElement
      <4> QED  BY <3>1, <4>1, Zenon
    <3>3. Cardinality(Claimed(s)') = Cardinality(Claimed(s)) + 1
      <4>1. Cardinality(Claimed(s) \cup {d}) = Cardinality(Claimed(s)) + 1
        BY <1>0, <3>1, FS_AddElement
      <4> QED  BY <3>1, <4>1, Zenon
    <3>4. row[s] = "live" => runCount'[s] = runCount[s] + 1
      BY <1>2, <2>3 DEF Advance, Types, Table
    <3>5. row[s] # "absent"  BY <2>3 DEF Cadence, Chosen
    <3> QED  BY <1>0, <2>1, <3>2, <3>3, <3>4, <3>5
  <2> QED  BY <2>2, <2>3
<1> QED  BY <1>1, <1>2 DEF Advances

-----------------------------------------------------------------------------
(* The three places where a claim can be. *)

WithTask(s) == {i \in 1..Len(tasks) : tasks[i].claim.schedule = s /\ ~tasks[i].claim.manual}
TaskClaims(s) == {tasks[i].claim : i \in WithTask(s)}
Lost(s) == {c \in dropped : c.schedule = s}
Held(s) == {c \in Claim : c.schedule = s /\ ~c.manual /\ \E k \in Invocation : c \in due[k]}

LEMMA Places ==
  ASSUME Types, Cadence, NEW s
  PROVE  /\ Claimed(s) = (TaskClaims(s) \cup Lost(s)) \cup Held(s)
         /\ TaskClaims(s) \cap Lost(s) = {}
         /\ (TaskClaims(s) \cup Lost(s)) \cap Held(s) = {}
<1>1. \A c \in Claim : c \in Claimed(s) <=> c \in TaskClaims(s) \cup Lost(s) \cup Held(s)
  <2> SUFFICES ASSUME NEW c \in Claim
               PROVE  c \in Claimed(s) <=> c \in TaskClaims(s) \cup Lost(s) \cup Held(s)
    OBVIOUS
  <2>1. c.due \in Nat /\ (\A k \in Invocation : now[k] \in Nat)  BY DEF Types, Hands, Claim, Time
  <2>2. \A i \in 1..Len(tasks) : tasks[i].at \in Nat
    <3>1. \A i \in 1..Len(tasks) : tasks[i].at \in Time  BY TaskTyped
    <3> QED  BY <3>1 DEF Time
  <2>3. c \in dropped => ~c.manual  BY DEF Cadence, OnePlace
  <2>4. c \in Claimed(s) => c \in TaskClaims(s) \cup Lost(s) \cup Held(s)
    BY DEF Claimed, IsRun, TaskClaims, WithTask, Lost, Held
  <2>5. c \in TaskClaims(s) => c \in Claimed(s)
    BY <2>2 DEF Claimed, IsRun, TaskClaims, WithTask
  <2>6. c \in Lost(s) => c \in Claimed(s)  BY <2>1, <2>3 DEF Claimed, IsRun, Lost
  <2>7. c \in Held(s) => c \in Claimed(s)  BY <2>1 DEF Claimed, IsRun, Held
  <2> QED  BY <2>4, <2>5, <2>6, <2>7
<1>2. Claimed(s) \subseteq Claim /\ Lost(s) \subseteq Claim /\ Held(s) \subseteq Claim
  BY DEF Claimed, Lost, Held, Types, Past
<1>3. TaskClaims(s) \subseteq Claim  BY TaskTyped DEF TaskClaims, WithTask
<1>4. TaskClaims(s) \cap Lost(s) = {}  BY DEF TaskClaims, WithTask, Lost, Cadence, OnePlace
<1>5. TaskClaims(s) \cap Held(s) = {}  BY DEF TaskClaims, WithTask, Held, Cadence, OnePlace
<1>6. Lost(s) \cap Held(s) = {}  BY DEF Lost, Held, Cadence, OnePlace
<1> QED  BY <1>1, <1>2, <1>3, <1>4, <1>5, <1>6

\* Tasks and their claims are as many, and so are claims in hands and their holders.
LEMMA TasksAndClaims ==
  ASSUME Types, Cadence, NEW s
  PROVE  IsFiniteSet(WithTask(s)) /\ Cardinality(TaskClaims(s)) = Cardinality(WithTask(s))
         /\ IsFiniteSet(TaskClaims(s))
<1> DEFINE F == [i \in WithTask(s) |-> tasks[i].claim]
<1>1. F \in [WithTask(s) -> TaskClaims(s)]  BY DEF TaskClaims
<1>2. \A i, j \in WithTask(s) : F[i] = F[j] => i = j  BY DEF WithTask, Cadence, OnePlace
<1>3. \A c \in TaskClaims(s) : \E i \in WithTask(s) : F[i] = c  BY DEF TaskClaims
<1> HIDE DEF F
<1>4. ExistsBijection(WithTask(s), TaskClaims(s))
  BY <1>1, <1>2, <1>3, Fun_IsBij, Fun_ExistsBij
<1>5. Len(tasks) \in Nat  BY DEF Types, Past
<1>6. IsFiniteSet(1..Len(tasks))  BY <1>5, FS_Interval
<1>7. WithTask(s) \in SUBSET (1..Len(tasks))  BY DEF WithTask
<1>8. IsFiniteSet(WithTask(s))  BY <1>6, <1>7, FS_Subset
<1> QED  BY <1>4, <1>8, FS_Bijection

LEMMA HoldersAndClaims ==
  ASSUME Types, Cadence, NEW s, IsFiniteSet(Held(s))
  PROVE  Cardinality(InFlight(s)) = Cardinality(Held(s))
<1> DEFINE G == [p \in InFlight(s) |-> p[2]]
<1>1. \A p \in InFlight(s) : \E k \in Invocation : \E c \in due[k] :
        p = <<k, c>> /\ ~c.manual /\ c.schedule = s
  BY DEF InFlight, Unfired, Scheduled
<1>2. \A k \in Invocation : \A c \in due[k] :
        ~c.manual /\ c.schedule = s => <<k, c>> \in InFlight(s) /\ c \in Held(s)
  BY DEF InFlight, Unfired, Scheduled, Held, Types, Hands
<1>3. G \in [InFlight(s) -> Held(s)]  BY <1>1, <1>2
<1>4. \A p, q \in InFlight(s) : G[p] = G[q] => p = q
  <2> SUFFICES ASSUME NEW p \in InFlight(s), NEW q \in InFlight(s), G[p] = G[q] PROVE p = q
    OBVIOUS
  <2>0. G[p] = p[2] /\ G[q] = q[2]  OBVIOUS
  <2>1. PICK j \in Invocation : \E c \in due[j] : p = <<j, c>> /\ ~c.manual  BY <1>1
  <2>2. PICK k \in Invocation : \E d \in due[k] : q = <<k, d>> /\ ~d.manual  BY <1>1
  <2>3. PICK c \in due[j] : p = <<j, c>> /\ ~c.manual  BY <2>1
  <2>4. c \in due[k] /\ q = <<k, c>>  BY <2>0, <2>2, <2>3
  <2>5. j = k  BY <2>3, <2>4 DEF Cadence, OnePlace
  <2> QED  BY <2>3, <2>4, <2>5
<1>5. \A c \in Held(s) : \E p \in InFlight(s) : G[p] = c
  <2> SUFFICES ASSUME NEW c \in Held(s) PROVE \E p \in InFlight(s) : G[p] = c
    OBVIOUS
  <2>1. PICK k \in Invocation : c \in due[k]  BY DEF Held
  <2>2. <<k, c>> \in InFlight(s)  BY <1>2, <2>1 DEF Held
  <2>3. G[<<k, c>>] = c  BY <2>2
  <2> QED  BY <2>2, <2>3
<1> HIDE DEF G
<1>6. ExistsBijection(InFlight(s), Held(s))
  BY <1>3, <1>4, <1>5, Fun_IsBij, Fun_ExistsBij
<1>7. ExistsBijection(Held(s), InFlight(s))  BY <1>6, Fun_ExistsBijSymmetric
<1> QED  BY <1>7, FS_Bijection

\* run_count is the number of claims of a row, and each of them became a task, failed, or is
\* in the hands of a call, whatever crashes and fails (task-schedule-store.ts: claimDue;
\* routes/tasks.ts: tickSchedules).
THEOREM ClaimsAreCounted ==
  ASSUME ~OverlappingClaims PROVE Spec => []RunCountExplained
<1>1. Types /\ Cadence /\ Counts => RunCountExplained
  <2> SUFFICES ASSUME Types, Cadence, Counts, NEW s \in Schedule, row[s] = "live"
               PROVE  runCount[s] = Cardinality(WithTask(s)) + Cardinality(Lost(s))
                                    + Cardinality(InFlight(s))
    BY DEF RunCountExplained, WithTask, Lost
  <2>1. IsFiniteSet(Claimed(s)) /\ runCount[s] = Cardinality(Claimed(s))  BY DEF Counts
  <2>2. /\ Claimed(s) = (TaskClaims(s) \cup Lost(s)) \cup Held(s)
        /\ TaskClaims(s) \cap Lost(s) = {}
        /\ (TaskClaims(s) \cup Lost(s)) \cap Held(s) = {}
    BY Places
  <2>3. /\ TaskClaims(s) \cup Lost(s) \in SUBSET Claimed(s)
        /\ Lost(s) \in SUBSET Claimed(s) /\ Held(s) \in SUBSET Claimed(s)
    BY <2>2
  <2>4. IsFiniteSet(TaskClaims(s) \cup Lost(s)) /\ IsFiniteSet(Lost(s)) /\ IsFiniteSet(Held(s))
    BY <2>1, <2>3, FS_Subset
  <2>5. IsFiniteSet(TaskClaims(s)) /\ Cardinality(TaskClaims(s)) = Cardinality(WithTask(s))
    BY TasksAndClaims
  <2>6. Cardinality(InFlight(s)) = Cardinality(Held(s))  BY <2>4, HoldersAndClaims
  <2>7. /\ Cardinality(TaskClaims(s)) \in Nat /\ Cardinality(Lost(s)) \in Nat
        /\ Cardinality(Held(s)) \in Nat /\ Cardinality({}) = 0
        /\ Cardinality(TaskClaims(s) \cup Lost(s)) \in Nat
    BY <2>4, <2>5, FS_CardinalityType, FS_EmptySet
  <2>8. Cardinality(TaskClaims(s) \cup Lost(s)) =
          Cardinality(TaskClaims(s)) + Cardinality(Lost(s)) - Cardinality(TaskClaims(s) \cap Lost(s))
    BY <2>4, <2>5, FS_Union
  <2>9. Cardinality((TaskClaims(s) \cup Lost(s)) \cup Held(s)) =
          Cardinality(TaskClaims(s) \cup Lost(s)) + Cardinality(Held(s))
          - Cardinality((TaskClaims(s) \cup Lost(s)) \cap Held(s))
    BY <2>4, FS_Union
  <2>10. Cardinality(TaskClaims(s) \cap Lost(s)) = 0
         /\ Cardinality((TaskClaims(s) \cup Lost(s)) \cap Held(s)) = 0
    BY <2>2, <2>7, Zenon
  <2>11. Cardinality(Claimed(s)) = Cardinality((TaskClaims(s) \cup Lost(s)) \cup Held(s))
    BY <2>2, Zenon
  <2> QED  BY <2>1, <2>5, <2>6, <2>7, <2>8, <2>9, <2>10, <2>11
<1> QED
  BY <1>1, TypesInit, CadenceInit, CountsInit, TypesStep, CadenceStep, CountsStep, PTL DEF Spec
=============================================================================
