------------------------- MODULE SessionClockProofs -------------------------
(***************************************************************************)
(* Theorems about SessionClock, for every lead, period, rate and position, *)
(* and without a bound on time, commands or objects.                       *)
(***************************************************************************)
EXTENDS SessionClock, TLAPS

-----------------------------------------------------------------------------
(* Lemmas about the anchor arithmetic. *)

\* A position is never negative, whatever the anchor and the instant.
LEMMA PositionIsNat ==
  ASSUME NEW a \in Anchor, NEW t \in Int
  PROVE  /\ Rate(a) \in Nat \ {0}
         /\ authoritativePosition(a, t) \in Nat
         /\ Held(a, t) \in Nat
<1>1. Rate(a) \in Nat \ {0} /\ a.pos \in Int /\ a.wall \in Int
  BY DEF Rate, Anchor
<1>2. Above0(t - a.wall) \in Nat /\ Above0(a.wall - t) \in Nat
  BY <1>1 DEF Above0
<1>3. Above0(t - a.wall) * Rate(a) \in Int
  BY <1>1, <1>2
<1>4. QED
  BY <1>1, <1>2, <1>3 DEF authoritativePosition, Held, Above0

\* Sampling an anchor shows the same film, with nothing left of the start lead.
LEMMA SampleFilm ==
  ASSUME NEW a \in Anchor, NEW t \in Int
  PROVE  /\ liveAnchor(a, t) \in Anchor
         /\ liveAnchor(a, t).pos >= 0
         /\ liveAnchor(a, t).wall = t
         /\ FilmAt(liveAnchor(a, t), t) = [FilmAt(a, t) EXCEPT !.wait = 0]
<1> DEFINE b == liveAnchor(a, t)
<1>1. /\ b.wall = t /\ b.pos = authoritativePosition(a, t)
      /\ b.state = a.state /\ b.rate = Rate(a)
      /\ b = [wall |-> b.wall, pos |-> b.pos, state |-> b.state, rate |-> b.rate]
  BY DEF liveAnchor
<1>2. b.pos \in Nat /\ b.rate \in Nat \ {0} /\ b.state \in {"playing", "paused"}
  BY <1>1, PositionIsNat DEF Anchor
<1>3. b \in Anchor
  BY <1>1, <1>2 DEF Anchor
<1>4. Rate(b) = Rate(a)
  BY <1>1, <1>2 DEF Rate
<1>5. authoritativePosition(b, t) = authoritativePosition(a, t) /\ Held(b, t) = 0
  BY <1>1, <1>2, <1>4 DEF authoritativePosition, Held, Above0
<1>6. FilmAt(b, t) = [pos |-> authoritativePosition(a, t), wait |-> 0,
                      state |-> a.state, rate |-> Rate(a)]
  BY <1>1, <1>4, <1>5 DEF FilmAt
<1>7. QED
  BY <1>1, <1>2, <1>3, <1>6 DEF FilmAt

\* One tick of the clock is one tick of the stopwatch.
LEMMA TickFilm ==
  ASSUME NEW a \in Anchor, a.pos >= 0, NEW t \in Int
  PROVE  FilmAt(a, t + 1) = Film!After(FilmAt(a, t))
<1>1. a.pos \in Nat /\ a.wall \in Int /\ Rate(a) \in Nat \ {0}
  BY PositionIsNat DEF Anchor
<1> DEFINE f == FilmAt(a, t)
           g == FilmAt(a, t + 1)
<1>2. /\ f.pos = authoritativePosition(a, t) /\ g.pos = authoritativePosition(a, t + 1)
      /\ f.wait = Held(a, t) /\ g.wait = Held(a, t + 1)
      /\ f.rate = Rate(a) /\ g.rate = Rate(a)
      /\ f.state = a.state /\ g.state = a.state
  BY DEF FilmAt
<1>3. CASE a.state = "paused"
  <2>1. g = f
    BY <1>3 DEF FilmAt, authoritativePosition, Held
  <2>2. QED
    BY <1>2, <1>3, <2>1 DEF Film!After
<1>4. CASE a.state = "playing" /\ a.wall > t
  <2>1. Held(a, t) = a.wall - t /\ Held(a, t + 1) = a.wall - (t + 1) /\ Held(a, t) > 0
    BY <1>1, <1>4 DEF Held, Above0
  <2>2. authoritativePosition(a, t) = a.pos /\ authoritativePosition(a, t + 1) = a.pos
    BY <1>1, <1>4 DEF authoritativePosition, Above0
  <2>3. g = [f EXCEPT !.wait = @ - 1]
    BY <1>1, <2>1, <2>2 DEF FilmAt
  <2>4. QED
    BY <1>2, <1>4, <2>1, <2>3 DEF Film!After
<1>5. CASE a.state = "playing" /\ a.wall <= t
  <2>1. Held(a, t) = 0 /\ Held(a, t + 1) = 0
    BY <1>1, <1>5 DEF Held, Above0
  <2>2. /\ Above0(t - a.wall) = t - a.wall /\ Above0(t + 1 - a.wall) = t - a.wall + 1
        /\ t - a.wall \in Nat
    BY <1>1, <1>5 DEF Above0
  <2>3. \A n, r \in Nat : n * r \in Nat /\ (n + 1) * r = n * r + r
    OBVIOUS
  <2>4. (t - a.wall + 1) * Rate(a) = (t - a.wall) * Rate(a) + Rate(a) /\ (t - a.wall) * Rate(a) \in Nat
    BY <1>1, <2>2, <2>3
  <2>5. authoritativePosition(a, t + 1) = authoritativePosition(a, t) + Rate(a)
    <3> DEFINE p == (t - a.wall) * Rate(a)
    <3>0. /\ Above0(t - a.wall) * Rate(a) = p
          /\ Above0(t + 1 - a.wall) * Rate(a) = p + Rate(a)
      BY <2>2, <2>4
    <3>1. /\ authoritativePosition(a, t) = Above0(a.pos + p)
          /\ authoritativePosition(a, t + 1) = Above0(a.pos + (p + Rate(a)))
      <4>1. /\ authoritativePosition(a, t) = Above0(a.pos + Above0(t - a.wall) * Rate(a))
            /\ authoritativePosition(a, t + 1) = Above0(a.pos + Above0(t + 1 - a.wall) * Rate(a))
        BY <1>1, <1>5 DEF authoritativePosition
      <4> HIDE DEF p
      <4>2. QED
        BY <3>0, <4>1, Zenon
    <3>2. p \in Nat
      BY <2>4
    <3> HIDE DEF p
    <3>3. QED
      BY <1>1, <3>1, <3>2 DEF Above0
  <2>6. g = [f EXCEPT !.pos = f.pos + f.rate]
    BY <2>1, <2>5 DEF FilmAt
  <2>7. f.state # "paused" /\ ~(f.wait > 0)
    BY <1>2, <1>5, <2>1
  <2> HIDE DEF f, g
  <2>8. Film!After(f) = [f EXCEPT !.pos = f.pos + f.rate]
    BY <2>7 DEF Film!After
  <2>9. QED
    BY <2>6, <2>8 DEF f, g
<1>6. QED
  BY <1>1, <1>3, <1>4, <1>5 DEF Anchor

-----------------------------------------------------------------------------
(* Types. *)

\* A command leaves everything well typed when the state it sets is.
LEMMA CommandTypes ==
  ASSUME TypeOK, NEW r, Command(r), room \in Obj => r \in State
  PROVE  TypeOK'
<1>1. room \in Obj /\ r \in State
  BY DEF Command, TypeOK
<1>2. [r EXCEPT !.seq = r.seq + 1] \in State
  BY <1>1 DEF State
<1>3. hot' \in [Obj -> State \cup {Null}]
  BY <1>1, <1>2 DEF Command, TypeOK
<1>4. unsaved' \in Nat \cup {Null}
  BY DEF Command, TypeOK
<1>5. QED
  BY <1>3, <1>4 DEF Command, TypeOK

\* So does one that sets an anchor in the room in the map.
LEMMA AnchoredTypes ==
  ASSUME TypeOK, room \in Obj => hot[room] \in State,
         NEW t \in Int, NEW p \in Int, NEW s \in {"playing", "paused"}, NEW r \in Int,
         Anchored(t, p, s, r)
  PROVE  TypeOK'
<1>1. [wall |-> t, pos |-> p, state |-> s, rate |-> r] \in Anchor
  BY DEF Anchor
<1>2. room \in Obj =>
        [hot[room] EXCEPT !.anchor = [wall |-> t, pos |-> p, state |-> s, rate |-> r]] \in State
  BY <1>1 DEF State
<1>3. QED
  BY <1>2, CommandTypes DEF Anchored

\* A room in the map is an object that was built.
InMap == room # 0 => hot[room] # Null

LEMMA SampledTypes ==
  ASSUME TypeOK, NEW o \in Obj, hot[o] # Null
  PROVE  Sampled(o) \in State /\ Sampled(o) \in SavedState
<1>1. hot[o] \in State /\ now \in Int
  BY DEF TypeOK
<1>2. hot[o].anchor \in Anchor
  BY <1>1 DEF State
<1>3. liveAnchor(hot[o].anchor, now) \in Anchor
  BY <1>1, <1>2, SampleFilm
<1>4. QED
  BY <1>1, <1>3 DEF Sampled, State, SavedState, SavedAnchor

LEMMA TypeStep == ASSUME TypeOK, InMap, [Next]_vars PROVE TypeOK' /\ InMap'
<1> USE SessionClockAssumption
<1>0. /\ room \in Obj => hot[room] \in State /\ Here \in Anchor
      /\ now \in Int
      /\ Null \notin State
      /\ 0 \notin Obj
  BY DEF TypeOK, InMap, State, Here, Obj
<1>1. CASE UNCHANGED vars
  BY <1>1 DEF vars, TypeOK, InMap
<1>2. ASSUME NEW l \in Loader, BeginLoad(l) PROVE TypeOK' /\ InMap'
  BY <1>2 DEF BeginLoad, TypeOK, InMap
<1>3. ASSUME NEW l \in Loader, EndLoad(l) PROVE TypeOK' /\ InMap'
  <2>1. PICK o \in Obj : /\ hot' = [hot EXCEPT ![o] = FromRow(load[l])]
                         /\ due' = [due EXCEPT ![o] = Period]
                         /\ room' = o
    BY <1>3 DEF EndLoad
  <2>2. load[l] \in SavedState
    BY <1>3 DEF EndLoad, TypeOK
  <2>3. FromRow(load[l]) \in State
    <3>1. load[l].anchor \in SavedAnchor
      BY <2>2 DEF SavedState
    <3>2. CASE load[l].anchor.wall = Null
      <4>1. [load[l].anchor EXCEPT !.wall = now] \in Anchor
        BY <1>0, <3>1, <3>2 DEF SavedAnchor, Anchor
      <4>2. QED
        BY <2>2, <3>2, <4>1 DEF FromRow, SavedState, State
    <3>3. CASE load[l].anchor.wall # Null
      <4>1. load[l].anchor \in Anchor
        BY <3>1, <3>3 DEF SavedAnchor
      <4>2. QED
        BY <2>2, <3>3, <4>1 DEF FromRow, SavedState, State
    <3>4. QED
      BY <3>2, <3>3
  <2>4. TypeOK'
    BY <1>3, <2>1, <2>3 DEF EndLoad, TypeOK
  <2>5. QED
    BY <1>0, <2>1, <2>3, <2>4 DEF InMap, TypeOK
<1>4. ASSUME NEW r, Command(r), r \in State PROVE TypeOK' /\ InMap'
  <2>1. [r EXCEPT !.seq = r.seq + 1] \in State
    BY <1>4 DEF State
  <2>2. InMap'
    BY <1>0, <1>4, <2>1 DEF Command, InMap, TypeOK
  <2>3. QED
    BY <1>4, <2>2, CommandTypes
<1>5. ASSUME NEW t \in Int, NEW p \in Int, NEW s \in {"playing", "paused"}, NEW r \in Int,
             Anchored(t, p, s, r)
      PROVE  TypeOK' /\ InMap'
  <2>1. room \in Obj
    BY <1>5 DEF Anchored, Command, TypeOK
  <2>2. [wall |-> t, pos |-> p, state |-> s, rate |-> r] \in Anchor
    BY DEF Anchor
  <2>3. [hot[room] EXCEPT !.anchor = [wall |-> t, pos |-> p, state |-> s, rate |-> r]] \in State
    BY <1>0, <2>1, <2>2 DEF State
  <2>4. QED
    BY <1>4, <1>5, <2>3 DEF Anchored
<1>6. ASSUME room \in Obj
      PROVE  /\ authoritativePosition(Here, now) \in Int /\ Here.rate \in Int
             /\ Here.state \in {"playing", "paused"}
  BY <1>0, <1>6, PositionIsNat DEF Anchor
<1>7. ASSUME NEW role \in Role, NEW raw \in RawPos, Play(role, raw) PROVE TypeOK' /\ InMap'
  <2>1. room \in Obj
    BY <1>7 DEF Play, Controls, TypeOK
  <2> DEFINE p == IF Here.state = "paused" THEN Above0(raw) ELSE authoritativePosition(Here, now)
  <2>2. p \in Int /\ now + Lead \in Int
    BY <1>0, <1>6, <2>1 DEF Above0
  <2>3. Anchored(now + Lead, p, "playing", Here.rate)
    BY <1>7 DEF Play
  <2> HIDE DEF p
  <2>4. QED
    BY <1>5, <1>6, <2>1, <2>2, <2>3
<1>8. ASSUME NEW role \in Role, Pause(role) PROVE TypeOK' /\ InMap'
  <2>1. room \in Obj
    BY <1>8 DEF Pause, Controls, TypeOK
  <2>2. QED
    BY <1>0, <1>5, <1>6, <1>8, <2>1 DEF Pause
<1>9. ASSUME NEW role \in Role, NEW raw \in RawPos, SeekTo(role, raw) PROVE TypeOK' /\ InMap'
  <2>1. room \in Obj
    BY <1>9 DEF SeekTo, Controls, TypeOK
  <2>2. Above0(raw) \in Int
    BY DEF Above0
  <2>3. QED
    BY <1>0, <1>5, <1>6, <1>9, <2>1, <2>2 DEF SeekTo
<1>10. ASSUME NEW role \in Role, NEW raw \in RawRates, SetRate(role, raw) PROVE TypeOK' /\ InMap'
  <2>1. room \in Obj
    BY <1>10 DEF SetRate, Controls, TypeOK
  <2>2. QED
    BY <1>0, <1>5, <1>6, <1>10, <2>1 DEF SetRate
<1>11. ASSUME NEW role \in Role, Announce(role) PROVE TypeOK' /\ InMap'
  BY <1>0, <1>4, <1>11 DEF Announce, Command, TypeOK
<1>12. ASSUME NEW role \in Role, NEW mode \in Mode, NEW holder \in Role,
              ControlModeCmd(role, mode, holder)
       PROVE  TypeOK' /\ InMap'
  <2>1. room \in Obj
    BY <1>12 DEF ControlModeCmd, TypeOK
  <2>2. [hot[room] EXCEPT !.controlMode = mode, !.remoteHolder = holder] \in State
    BY <1>0, <2>1 DEF State
  <2>3. QED
    BY <1>4, <1>12, <2>2 DEF ControlModeCmd
<1>13. CASE HandOver
  <2>1. room \in Obj
    BY <1>13 DEF HandOver, TypeOK
  <2>2. [hot[room] EXCEPT !.controlMode = "host_only", !.remoteHolder = "host"] \in State
    BY <1>0, <2>1 DEF State, Mode, Role
  <2>3. QED
    BY <1>4, <1>13, <2>2 DEF HandOver
<1>14. ASSUME NEW o \in Obj, TimerCheckpoint(o) PROVE TypeOK' /\ InMap'
  <2>1. Sampled(o) \in State /\ Sampled(o) \in SavedState
    BY <1>14, SampledTypes DEF TimerCheckpoint
  <2>2. hot' = [hot EXCEPT ![o] = Sampled(o)] /\ saved' = Sampled(o)
        /\ due' = [due EXCEPT ![o] = Period] /\ unsaved' \in {unsaved, Null}
        /\ UNCHANGED <<now, room, load>>
    BY <1>14 DEF TimerCheckpoint, Save
  <2> HIDE DEF Sampled
  <2>3. TypeOK'
    BY <2>1, <2>2 DEF TypeOK
  <2>4. InMap'
    BY <1>0, <2>1, <2>2 DEF InMap, TypeOK
  <2>5. QED
    BY <2>3, <2>4
<1>15. CASE EmptyCheckpoint
  <2>1. room \in Obj /\ hot[room] # Null
    BY <1>15 DEF EmptyCheckpoint, TypeOK, InMap
  <2>2. Sampled(room) \in State /\ Sampled(room) \in SavedState
    BY <2>1, SampledTypes
  <2>3. hot' = [hot EXCEPT ![room] = Sampled(room)] /\ saved' \in {saved, Sampled(room)}
        /\ due' = due /\ unsaved' \in {unsaved, Null}
        /\ UNCHANGED <<now, room, load>>
    BY <1>15 DEF EmptyCheckpoint, Save
  <2>4. TypeOK'
    BY <2>1, <2>2, <2>3 DEF TypeOK
  <2>5. InMap'
    BY <1>0, <2>1, <2>2, <2>3 DEF InMap, TypeOK
  <2>6. QED
    BY <2>4, <2>5
<1>16. CASE Tick
  <2>1. now' \in Nat
    BY <1>16 DEF Tick, TypeOK
  <2>2. due' \in [Obj -> 0..Period]
    BY <1>16 DEF Tick, TypeOK
  <2>3. QED
    BY <1>16, <2>1, <2>2 DEF Tick, TypeOK, InMap
<1>17. CASE Crash
  BY <1>17 DEF Crash, TypeOK, InMap
<1>18. QED
  BY <1>1, <1>2, <1>3, <1>7, <1>8, <1>9, <1>10, <1>11, <1>12, <1>13, <1>14, <1>15, <1>16, <1>17
  DEF Next, Commands

LEMMA TypeInit == Init => TypeOK /\ InMap
<1> SUFFICES ASSUME Init PROVE TypeOK /\ InMap
  OBVIOUS
<1>1. saved \in SavedState
  <2>1. [wall |-> Null, pos |-> 0, state |-> "paused", rate |-> 1] \in SavedAnchor
    BY DEF SavedAnchor
  <2>2. QED
    BY <2>1 DEF Init, SavedState, Mode, Role
<1>2. QED
  BY <1>1, SessionClockAssumption DEF Init, TypeOK, InMap

LEMMA TypeAlways == Spec => [](TypeOK /\ InMap)
<1>1. Init => TypeOK /\ InMap
  BY TypeInit
<1>2. TypeOK /\ InMap /\ [Next]_vars => TypeOK' /\ InMap'
  BY TypeStep
<1>3. QED
  BY <1>1, <1>2, PTL DEF Spec

\* The room objects and the row of table rooms keep their types: no command, however odd the
\* rate or the position it carries, makes a clock the arithmetic cannot go on with.
THEOREM ClockTypeCorrect == Spec => []TypeOK
BY TypeAlways, PTL

-----------------------------------------------------------------------------
(* With one load at a time, the anchors implement the two stopwatches. *)

\* No load of the room begins while another is under way. The lookup of loadState has no such
\* lock: MCSessionClock's run has one loader, and these theorems take it as a condition on the
\* behaviour.
OneLoad == \A l, m \in Loader : load[l] # Null /\ load[m] # Null => l = m

\* The only object is the one in the map; a load holds the row as it is; and the row was
\* sampled in the past, unless it was never written.
Alone ==
  /\ \A o \in Obj : hot[o] # Null => o = room
  /\ \A l \in Loader : load[l] # Null => room = 0 /\ load[l] = saved

Sane ==
  /\ \A o \in Obj : hot[o] # Null => hot[o].anchor.pos >= 0
  /\ \/ saved.anchor = [wall |-> Null, pos |-> 0, state |-> "paused", rate |-> 1]
     \/ saved.anchor \in Anchor /\ saved.anchor.pos >= 0

ClockInv == TypeOK /\ InMap /\ Alone /\ Sane

LEMMA AloneStep == ASSUME OneLoad, ClockInv, [Next]_vars PROVE Alone'
<1> USE DEF ClockInv
<1>0. 0 \notin Obj
  BY DEF Obj
<1>1. CASE UNCHANGED vars
  BY <1>1 DEF vars, Alone
<1>2. ASSUME NEW l \in Loader, BeginLoad(l) PROVE Alone'
  BY <1>2 DEF BeginLoad, Alone, TypeOK
<1>3. ASSUME NEW l \in Loader, EndLoad(l) PROVE Alone'
  <2>1. PICK o \in Obj : /\ hot' = [hot EXCEPT ![o] = FromRow(load[l])]
                         /\ room' = o
    BY <1>3 DEF EndLoad
  <2>2. room = 0 /\ \A m \in Loader : load[m] # Null => m = l
    BY <1>3 DEF EndLoad, Alone, OneLoad
  <2>3. \A q \in Obj : hot[q] = Null
    BY <1>0, <2>2 DEF Alone
  <2>4. \A m \in Loader : load'[m] = Null
    BY <1>3, <2>2 DEF EndLoad, TypeOK
  <2>5. \A q \in Obj : hot'[q] # Null => q = room'
    BY <2>1, <2>3 DEF TypeOK
  <2>6. QED
    BY <2>4, <2>5 DEF Alone
<1>4. ASSUME NEW r, Command(r) PROVE Alone'
  <2>1. room # 0 /\ \E v : hot' = [hot EXCEPT ![room] = v]
    BY <1>4 DEF Command
  <2>2. UNCHANGED <<room, load, saved>>
    BY <1>4 DEF Command
  <2>3. QED
    BY <2>1, <2>2 DEF Alone, TypeOK
<1>5. CASE Commands
  BY <1>4, <1>5 DEF Commands, Play, Pause, SeekTo, SetRate, Announce, ControlModeCmd, HandOver, Anchored
<1>6. ASSUME NEW o \in Obj, hot[o] # Null, NEW v, hot' = [hot EXCEPT ![o] = v], UNCHANGED <<room, load>>
      PROVE  Alone'
  <2>1. o = room /\ room # 0
    BY <1>0, <1>6 DEF Alone
  <2>2. QED
    BY <1>6, <2>1 DEF Alone, TypeOK
<1>7. ASSUME NEW o \in Obj, TimerCheckpoint(o) PROVE Alone'
  BY <1>6, <1>7 DEF TimerCheckpoint, Save
<1>8. CASE EmptyCheckpoint
  <2>1. room \in Obj /\ hot[room] # Null
    BY <1>8 DEF EmptyCheckpoint, TypeOK, InMap
  <2>2. QED
    BY <1>6, <1>8, <2>1 DEF EmptyCheckpoint, Save
<1>9. CASE Tick
  BY <1>9 DEF Tick, Alone
<1>10. CASE Crash
  BY <1>10 DEF Crash, Alone
<1>11. QED
  BY <1>1, <1>2, <1>3, <1>5, <1>7, <1>8, <1>9, <1>10 DEF Next

\* What the live stopwatch shows.
LiveFilm == IF room = 0 THEN Null ELSE FilmOf(hot[room].anchor)

StoredFilm == FilmOf(saved.anchor)

LEMMA NullRow ==
  ASSUME NEW t \in Int
  PROVE  FilmAt([wall |-> Null, pos |-> 0, state |-> "paused", rate |-> 1], t) = Film!Zero
BY DEF FilmAt, authoritativePosition, Held, Rate, Above0, Film!Zero

\* Loading the row restores the stored film.
LEMMA RestoreFilm ==
  ASSUME ClockInv, NEW l \in Loader, EndLoad(l)
  PROVE  /\ Film!Restore
         /\ Sane'
<1> USE SessionClockAssumption DEF ClockInv
<1>1. PICK o \in Obj : /\ hot' = [hot EXCEPT ![o] = FromRow(saved)]
                       /\ room' = o /\ o # 0
  <2>1. load[l] = saved
    BY DEF EndLoad, Alone
  <2>2. PICK o \in Obj : hot' = [hot EXCEPT ![o] = FromRow(load[l])] /\ room' = o
    BY DEF EndLoad
  <2>3. 0 \notin Obj
    BY DEF Obj
  <2>4. QED
    BY <2>1, <2>2, <2>3
<1>2. room = 0 /\ UNCHANGED <<now, saved>> /\ now \in Int
  BY DEF EndLoad, Alone, TypeOK
<1> DEFINE a == FromRow(saved).anchor
<1>3. a \in Anchor /\ a.pos >= 0 /\ FilmAt(a, now) = FilmAt(saved.anchor, now)
  <2>1. CASE saved.anchor = [wall |-> Null, pos |-> 0, state |-> "paused", rate |-> 1]
    <3>1. a = [wall |-> now, pos |-> 0, state |-> "paused", rate |-> 1]
      BY <2>1 DEF FromRow, TypeOK, SavedState
    <3>2. FilmAt(a, now) = Film!Zero
      BY <3>1 DEF FilmAt, authoritativePosition, Held, Rate, Above0, Film!Zero
    <3>3. a \in Anchor /\ a.pos >= 0
      BY <1>2, <3>1 DEF Anchor
    <3>4. QED
      BY <1>2, <2>1, <3>2, <3>3, NullRow
  <2>2. CASE saved.anchor \in Anchor /\ saved.anchor.pos >= 0
    <3>1. saved.anchor.wall # Null
      BY <2>2 DEF Anchor
    <3>2. a = saved.anchor
      BY <3>1 DEF FromRow
    <3>3. QED
      BY <2>2, <3>2
  <2>3. QED
    BY <2>1, <2>2 DEF Sane
<1>4. hot'[room'] = FromRow(saved) /\ room' # 0
  BY <1>1 DEF TypeOK
<1>5. LiveFilm' = FilmAt(saved.anchor, now)
  BY <1>2, <1>3, <1>4 DEF LiveFilm, FilmOf
<1>6. Sane'
  BY <1>1, <1>2, <1>3 DEF Sane, TypeOK
<1>7. QED
  BY <1>2, <1>5, <1>6 DEF Film!Restore, LiveFilm, FilmOf

\* An anchor set at p shows the film at p, held until the anchor's instant.
LEMMA FreshFilm ==
  ASSUME NEW t \in Int, NEW d \in Nat, NEW p \in Nat, NEW s \in {"playing", "paused"}, NEW r \in Int
  PROVE  FilmAt([wall |-> t + d, pos |-> p, state |-> s, rate |-> r], t)
           = [pos |-> p, wait |-> IF s = "playing" THEN d ELSE 0, state |-> s,
              rate |-> IF r > 0 THEN r ELSE 1]
<1> DEFINE a == [wall |-> t + d, pos |-> p, state |-> s, rate |-> r]
<1>1. Rate(a) \in Nat /\ Rate(a) = (IF r > 0 THEN r ELSE 1)
  BY DEF Rate
<1>2. Above0(t - (t + d)) = 0 /\ Above0((t + d) - t) = d /\ Above0(p) = p
  BY DEF Above0
<1>3. authoritativePosition(a, t) = p
  BY <1>1, <1>2 DEF authoritativePosition
<1>4. Held(a, t) = IF s = "playing" THEN d ELSE 0
  BY <1>2 DEF Held
<1>5. QED
  BY <1>1, <1>3, <1>4 DEF FilmAt

\* What an anchored command does to the two stopwatches.
LEMMA AnchoredFilm ==
  ASSUME ClockInv, NEW d \in Nat, NEW p \in Nat, NEW s \in {"playing", "paused"}, NEW r \in Int,
         Anchored(now + d, p, s, r)
  PROVE  /\ LiveFilm' = [pos |-> p, wait |-> IF s = "playing" THEN d ELSE 0, state |-> s,
                         rate |-> IF r > 0 THEN r ELSE 1]
         /\ LiveFilm' # Null
         /\ UNCHANGED StoredFilm
         /\ Sane'
<1> USE SessionClockAssumption DEF ClockInv
<1> DEFINE a == [wall |-> now + d, pos |-> p, state |-> s, rate |-> r]
           new == [[hot[room] EXCEPT !.anchor = a] EXCEPT !.seq = @ + 1]
<1>1. /\ room \in Obj /\ room # 0 /\ hot' = [hot EXCEPT ![room] = new]
      /\ UNCHANGED <<now, room, saved>>
  BY DEF Anchored, Command, TypeOK
<1>2. hot[room] \in State /\ now \in Int
  BY <1>1 DEF TypeOK, InMap
<1>3. new.anchor = a
  BY <1>2 DEF State
<1>4. hot'[room'].anchor = a
  BY <1>1, <1>3 DEF TypeOK
<1>5. LiveFilm' = FilmAt(a, now)
  BY <1>1, <1>4 DEF LiveFilm, FilmOf
<1>6. UNCHANGED StoredFilm
  BY <1>1 DEF StoredFilm, FilmOf
<1>7. Sane'
  BY <1>1, <1>3 DEF Sane, TypeOK
<1>8. [pos |-> p, wait |-> IF s = "playing" THEN d ELSE 0, state |-> s,
       rate |-> IF r > 0 THEN r ELSE 1] \in Films
  BY DEF Films
<1>9. FilmAt(a, now) = [pos |-> p, wait |-> IF s = "playing" THEN d ELSE 0, state |-> s,
                        rate |-> IF r > 0 THEN r ELSE 1]
  <2>1. PICK t \in Int : t = now
    BY <1>2
  <2>2. FilmAt([wall |-> t + d, pos |-> p, state |-> s, rate |-> r], t)
          = [pos |-> p, wait |-> IF s = "playing" THEN d ELSE 0, state |-> s,
             rate |-> IF r > 0 THEN r ELSE 1]
    BY FreshFilm
  <2>3. QED
    BY <2>1, <2>2
<1>10. QED
  BY <1>5, <1>6, <1>7, <1>8, <1>9

\* What the live stopwatch shows, taken apart.
LEMMA LiveParts ==
  ASSUME ClockInv, room # 0
  PROVE  /\ LiveFilm \in Films
         /\ LiveFilm # Null
         /\ LiveFilm.pos = authoritativePosition(Here, now)
         /\ LiveFilm.wait = Held(Here, now)
         /\ LiveFilm.state = Here.state
         /\ LiveFilm.rate = IF Here.rate > 0 THEN Here.rate ELSE 1
         /\ Here \in Anchor
         /\ authoritativePosition(Here, now) \in Nat
<1>1. Here \in Anchor /\ now \in Int
  BY DEF ClockInv, TypeOK, InMap, State, Here
<1>2. LiveFilm = [pos |-> authoritativePosition(Here, now), wait |-> Held(Here, now),
                  state |-> Here.state, rate |-> Rate(Here)]
  BY DEF LiveFilm, FilmOf, FilmAt, Here
<1>3. Here.state \in {"playing", "paused"} /\ Rate(Here) = IF Here.rate > 0 THEN Here.rate ELSE 1
  BY <1>1 DEF Anchor, Rate
<1>4. LiveFilm \in Films
  BY <1>1, <1>2, <1>3, PositionIsNat DEF Films
<1>5. QED
  BY <1>1, <1>2, <1>3, <1>4, PositionIsNat, SessionClockAssumption

\* Setting one part of a stopwatch, and of a stopwatch written out.
LEMMA FilmSet ==
  ASSUME NEW f \in Films, NEW x
  PROVE  /\ [f EXCEPT !.wait = x] = [pos |-> f.pos, wait |-> x, state |-> f.state, rate |-> f.rate]
         /\ [f EXCEPT !.state = x] = [pos |-> f.pos, wait |-> f.wait, state |-> x, rate |-> f.rate]
BY DEF Films

LEMMA FilmReset ==
  ASSUME NEW p, NEW w, NEW s, NEW r, NEW x
  PROVE  LET f == [pos |-> p, wait |-> w, state |-> s, rate |-> r]
         IN  /\ [f EXCEPT !.pos = x] = [pos |-> x, wait |-> w, state |-> s, rate |-> r]
             /\ [f EXCEPT !.wait = x] = [pos |-> p, wait |-> x, state |-> s, rate |-> r]
             /\ [f EXCEPT !.state = x] = [pos |-> p, wait |-> w, state |-> x, rate |-> r]
             /\ [f EXCEPT !.rate = x] = [pos |-> p, wait |-> w, state |-> s, rate |-> x]
OBVIOUS

LEMMA FilmStart ==
  ASSUME NEW f \in Films, NEW x, NEW y, NEW z
  PROVE  [f EXCEPT !.state = y, !.wait = z, !.pos = IF f.state = y THEN @ ELSE x]
           = [pos |-> IF f.state = y THEN f.pos ELSE x, wait |-> z, state |-> y, rate |-> f.rate]
<1> DEFINE g == [pos |-> f.pos, wait |-> f.wait, state |-> y, rate |-> f.rate]
           h == [pos |-> f.pos, wait |-> z, state |-> y, rate |-> f.rate]
           q == IF f.state = y THEN h.pos ELSE x
<1>1. [f EXCEPT !.state = y] = g
  BY FilmSet
<1>2. [g EXCEPT !.wait = z] = h
  BY FilmReset
<1>3. [h EXCEPT !.pos = q] = [pos |-> q, wait |-> z, state |-> y, rate |-> f.rate]
  <2> HIDE DEF q
  <2> QED BY FilmReset
<1>4. h.pos = f.pos
  OBVIOUS
<1> HIDE DEF g, h
<1>5. [f EXCEPT !.state = y, !.wait = z, !.pos = IF f.state = y THEN @ ELSE x] = [h EXCEPT !.pos = q]
  BY <1>1, <1>2, Zenon
<1>6. QED
  BY <1>3, <1>4, <1>5, Zenon

\* Setting parts of a stopwatch.
LEMMA FilmWith ==
  ASSUME NEW f \in Films, NEW x
  PROVE  /\ [[f EXCEPT !.wait = 0] EXCEPT !.state = "paused"]
              = [pos |-> f.pos, wait |-> 0, state |-> "paused", rate |-> f.rate]
         /\ [[f EXCEPT !.wait = 0] EXCEPT !.pos = x]
              = [pos |-> x, wait |-> 0, state |-> f.state, rate |-> f.rate]
         /\ [[f EXCEPT !.wait = 0] EXCEPT !.rate = x]
              = [pos |-> f.pos, wait |-> 0, state |-> f.state, rate |-> x]
         /\ [f EXCEPT !.state = "playing", !.wait = Lead,
                      !.pos = IF f.state = "playing" THEN @ ELSE x]
              = [pos |-> IF f.state = "playing" THEN f.pos ELSE x, wait |-> Lead,
                 state |-> "playing", rate |-> f.rate]
<1>1. PICK w, y : w = 0 /\ y = "paused"
  OBVIOUS
<1>2. ASSUME NEW z
      PROVE  /\ [[f EXCEPT !.wait = w] EXCEPT !.state = z]
                  = [pos |-> f.pos, wait |-> w, state |-> z, rate |-> f.rate]
             /\ [[f EXCEPT !.wait = w] EXCEPT !.pos = z]
                  = [pos |-> z, wait |-> w, state |-> f.state, rate |-> f.rate]
             /\ [[f EXCEPT !.wait = w] EXCEPT !.rate = z]
                  = [pos |-> f.pos, wait |-> w, state |-> f.state, rate |-> z]
  <2> DEFINE g == [pos |-> f.pos, wait |-> w, state |-> f.state, rate |-> f.rate]
  <2>1. [f EXCEPT !.wait = w] = g
    BY FilmSet
  <2>2. /\ [g EXCEPT !.state = z] = [pos |-> f.pos, wait |-> w, state |-> z, rate |-> f.rate]
        /\ [g EXCEPT !.pos = z] = [pos |-> z, wait |-> w, state |-> f.state, rate |-> f.rate]
        /\ [g EXCEPT !.rate = z] = [pos |-> f.pos, wait |-> w, state |-> f.state, rate |-> z]
    OBVIOUS
  <2> HIDE DEF g
  <2>3. QED
    BY <2>1, <2>2, Zenon
<1>3. /\ [[f EXCEPT !.wait = 0] EXCEPT !.state = "paused"]
           = [pos |-> f.pos, wait |-> 0, state |-> "paused", rate |-> f.rate]
      /\ [[f EXCEPT !.wait = 0] EXCEPT !.pos = x]
           = [pos |-> x, wait |-> 0, state |-> f.state, rate |-> f.rate]
      /\ [[f EXCEPT !.wait = 0] EXCEPT !.rate = x]
           = [pos |-> f.pos, wait |-> 0, state |-> f.state, rate |-> x]
  BY <1>1, <1>2, Zenon
<1>4. [f EXCEPT !.state = "playing", !.wait = Lead, !.pos = IF f.state = "playing" THEN @ ELSE x]
        = [pos |-> IF f.state = "playing" THEN f.pos ELSE x, wait |-> Lead,
           state |-> "playing", rate |-> f.rate]
  BY FilmStart, Zenon
<1>5. QED
  BY <1>3, <1>4, Zenon

\* Each command is the stopwatch command it stands for.
LEMMA CommandFilm ==
  ASSUME ClockInv, Commands
  PROVE  /\ [Film!Next]_<<LiveFilm, StoredFilm>>
         /\ Sane'
<1> USE SessionClockAssumption
<1> DEFINE Goal == [Film!Next]_<<LiveFilm, StoredFilm>> /\ Sane'
<1>0. room # 0 /\ room \in Obj
  BY DEF Commands, Play, Pause, SeekTo, SetRate, Announce, ControlModeCmd, HandOver, Controls,
         ClockInv, TypeOK
<1>1. /\ LiveFilm \in Films /\ LiveFilm # Null
      /\ LiveFilm.pos = authoritativePosition(Here, now)
      /\ LiveFilm.wait = Held(Here, now)
      /\ LiveFilm.state = Here.state
      /\ LiveFilm.rate = IF Here.rate > 0 THEN Here.rate ELSE 1
      /\ Here \in Anchor /\ authoritativePosition(Here, now) \in Nat
  BY <1>0, LiveParts
<1>2. /\ Here.state \in {"playing", "paused"} /\ Here.rate \in Int
      /\ now \in Int /\ hot[room] \in State
      /\ now + 0 = now /\ 0 \in Nat
  BY <1>0, <1>1 DEF Anchor, ClockInv, TypeOK, InMap
<1>3. ASSUME NEW role \in Role, NEW raw \in RawPos, Play(role, raw) PROVE Goal
  <2> DEFINE p == IF Here.state = "paused" THEN Above0(raw) ELSE authoritativePosition(Here, now)
  <2>1. p \in Nat /\ Above0(raw) \in Positions
    BY <1>1 DEF Above0, Positions
  <2>2. Anchored(now + Lead, p, "playing", Here.rate)
    BY <1>3 DEF Play
  <2>3. p = IF LiveFilm.state = "playing" THEN LiveFilm.pos ELSE Above0(raw)
    BY <1>1, <1>2
  <2> HIDE DEF p
  <2>4. /\ LiveFilm' = [pos |-> p, wait |-> Lead, state |-> "playing", rate |-> LiveFilm.rate]
        /\ UNCHANGED StoredFilm /\ Sane'
    BY <1>1, <1>2, <2>1, <2>2, AnchoredFilm
  <2>5. LiveFilm' = [LiveFilm EXCEPT !.state = "playing", !.wait = Lead,
                       !.pos = IF LiveFilm.state = "playing" THEN @ ELSE Above0(raw)]
    BY <1>1, <2>3, <2>4, FilmWith
  <2>6. Film!Start(Above0(raw))
    BY <1>1, <2>4, <2>5 DEF Film!Start, Film!On, LiveFilm, StoredFilm
  <2>7. QED
    BY <2>1, <2>4, <2>6 DEF Film!Next
<1>4. ASSUME NEW role \in Role, Pause(role) PROVE Goal
  <2>1. Anchored(now + 0, authoritativePosition(Here, now), "paused", Here.rate)
    BY <1>2, <1>4 DEF Pause
  <2>2. /\ LiveFilm' = [pos |-> LiveFilm.pos, wait |-> 0, state |-> "paused", rate |-> LiveFilm.rate]
        /\ UNCHANGED StoredFilm /\ Sane'
    BY <1>1, <1>2, <2>1, AnchoredFilm
  <2>3. LiveFilm' = [[LiveFilm EXCEPT !.wait = 0] EXCEPT !.state = "paused"]
    BY <1>1, <2>2, FilmWith
  <2>4. Film!Stop
    BY <1>1, <2>2, <2>3 DEF Film!Stop, Film!On, Film!Unheld, LiveFilm, StoredFilm
  <2>5. QED
    BY <2>2, <2>4 DEF Film!Next
<1>5. ASSUME NEW role \in Role, NEW raw \in RawPos, SeekTo(role, raw) PROVE Goal
  <2>1. Above0(raw) \in Nat /\ Above0(raw) \in Positions
    BY DEF Above0, Positions
  <2>2. Anchored(now + 0, Above0(raw), Here.state, Here.rate)
    BY <1>2, <1>5 DEF SeekTo
  <2>3. /\ LiveFilm' = [pos |-> Above0(raw), wait |-> 0, state |-> LiveFilm.state, rate |-> LiveFilm.rate]
        /\ UNCHANGED StoredFilm /\ Sane'
    BY <1>1, <1>2, <2>1, <2>2, AnchoredFilm
  <2>4. LiveFilm' = [[LiveFilm EXCEPT !.wait = 0] EXCEPT !.pos = Above0(raw)]
    BY <1>1, <2>3, FilmWith
  <2>5. Film!Seek(Above0(raw))
    BY <1>1, <2>3, <2>4 DEF Film!Seek, Film!On, Film!Unheld, LiveFilm, StoredFilm
  <2>6. QED
    BY <2>1, <2>3, <2>5 DEF Film!Next
<1>6. ASSUME NEW role \in Role, NEW raw \in RawRates, SetRate(role, raw) PROVE Goal
  <2> DEFINE r == IF raw > 0 THEN raw ELSE 1
  <2>1. r \in Rates /\ raw \in Int
    BY DEF Rates, Rate
  <2>2. Anchored(now + 0, authoritativePosition(Here, now), Here.state, raw)
    BY <1>2, <1>6 DEF SetRate
  <2>3. /\ LiveFilm' = [pos |-> LiveFilm.pos, wait |-> 0, state |-> LiveFilm.state, rate |-> r]
        /\ UNCHANGED StoredFilm /\ Sane'
    BY <1>1, <1>2, <2>1, <2>2, AnchoredFilm
  <2>4. LiveFilm' = [[LiveFilm EXCEPT !.wait = 0] EXCEPT !.rate = r]
    BY <1>1, <2>3, FilmWith
  <2> HIDE DEF r
  <2>5. Film!SetRate(r)
    BY <1>1, <2>3, <2>4 DEF Film!SetRate, Film!On, Film!Unheld, LiveFilm, StoredFilm
  <2>6. QED
    BY <2>1, <2>3, <2>5 DEF Film!Next
\* The other commands leave the anchor alone.
<1>7. ASSUME NEW r, r \in State, r.anchor = Here, Command(r) PROVE Goal
  <2>1. /\ hot' = [hot EXCEPT ![room] = [r EXCEPT !.seq = r.seq + 1]]
        /\ UNCHANGED <<now, room, saved>>
    BY <1>7 DEF Command
  <2>2. [r EXCEPT !.seq = r.seq + 1].anchor = Here
    BY <1>7 DEF State
  <2>3. hot'[room].anchor = Here
    BY <1>0, <2>1, <2>2 DEF ClockInv, TypeOK
  <2>4. UNCHANGED <<LiveFilm, StoredFilm>>
    BY <1>0, <2>1, <2>3 DEF LiveFilm, StoredFilm, FilmOf, Here
  <2>5. Sane'
    <3>1. Here.pos >= 0
      BY <1>0 DEF ClockInv, Sane, InMap, Here
    <3>2. hot' = [hot EXCEPT ![room] = [r EXCEPT !.seq = r.seq + 1]] /\ hot \in [Obj -> State \cup {Null}]
      BY <2>1 DEF ClockInv, TypeOK
    <3>3. \A o \in Obj : hot'[o] # Null => hot'[o].anchor.pos >= 0
      BY <1>0, <2>2, <3>1, <3>2 DEF ClockInv, Sane
    <3>4. QED
      BY <2>1, <3>3 DEF ClockInv, Sane
  <2>6. QED
    BY <2>4, <2>5
<1>8. ASSUME NEW role \in Role, Announce(role) PROVE Goal
  BY <1>2, <1>7, <1>8 DEF Announce, Here
<1>9. ASSUME NEW role \in Role, NEW mode \in Mode, NEW holder \in Role, ControlModeCmd(role, mode, holder)
      PROVE  Goal
  <2> DEFINE r == [hot[room] EXCEPT !.controlMode = mode, !.remoteHolder = holder]
  <2>1. r \in State /\ r.anchor = Here
    BY <1>2 DEF State, Here
  <2>2. QED
    BY <1>7, <1>9, <2>1 DEF ControlModeCmd
<1>10. CASE HandOver
  <2> DEFINE r == [hot[room] EXCEPT !.controlMode = "host_only", !.remoteHolder = "host"]
  <2>1. r \in State /\ r.anchor = Here
    BY <1>2 DEF State, Here, Mode, Role
  <2>2. QED
    BY <1>7, <1>10, <2>1 DEF HandOver
<1>11. QED
  BY <1>3, <1>4, <1>5, <1>6, <1>8, <1>9, <1>10 DEF Commands

\* Sampling the room's clock drops what is left of the hold.
LEMMA SampledFilm ==
  ASSUME ClockInv, room # 0, hot' = [hot EXCEPT ![room] = Sampled(room)], UNCHANGED <<now, room>>
  PROVE  /\ LiveFilm' = Film!Unheld(LiveFilm)
         /\ LiveFilm' = FilmAt(Sampled(room).anchor, now)
         /\ Sampled(room).anchor \in Anchor /\ Sampled(room).anchor.pos >= 0
         /\ \A o \in Obj : hot'[o] # Null => hot'[o].anchor.pos >= 0
<1>1. /\ room \in Obj /\ hot[room] \in State /\ now \in Int
      /\ hot \in [Obj -> State \cup {Null}]
  BY DEF ClockInv, TypeOK, InMap
<1>2. PICK a \in Anchor, t \in Int : a = hot[room].anchor /\ t = now
  BY <1>1 DEF State
<1>3. Sampled(room).anchor = liveAnchor(a, t)
  BY <1>1, <1>2 DEF Sampled, State
<1>4. /\ liveAnchor(a, t) \in Anchor /\ liveAnchor(a, t).pos >= 0
      /\ FilmAt(liveAnchor(a, t), t) = [FilmAt(a, t) EXCEPT !.wait = 0]
  BY SampleFilm
<1>5. hot'[room] = Sampled(room) /\ \A o \in Obj : o # room => hot'[o] = hot[o]
  BY <1>1
<1>6. LiveFilm = FilmAt(a, t)
  BY <1>2 DEF LiveFilm, FilmOf
<1>7. LiveFilm' = FilmAt(liveAnchor(a, t), t)
  BY <1>2, <1>3, <1>5 DEF LiveFilm, FilmOf
<1>8. \A o \in Obj : hot'[o] # Null => hot'[o].anchor.pos >= 0
  BY <1>3, <1>4, <1>5 DEF ClockInv, Sane
<1>9. QED
  BY <1>2, <1>3, <1>4, <1>6, <1>7, <1>8 DEF Film!Unheld

\* A checkpoint that is written saves the film, and one that is not only samples it.
LEMMA SaveFilm ==
  ASSUME ClockInv, NEW o \in Obj, hot[o] # Null, Save(o)
  PROVE  Film!Save /\ Sane'
<1>1. o = room /\ room # 0
  BY DEF ClockInv, Alone, Obj
<1>2. /\ hot' = [hot EXCEPT ![room] = Sampled(room)] /\ saved' = Sampled(room)
      /\ UNCHANGED <<now, room>>
  BY <1>1 DEF Save
<1>3. /\ LiveFilm' = Film!Unheld(LiveFilm)
      /\ LiveFilm' = FilmAt(Sampled(room).anchor, now)
      /\ Sampled(room).anchor \in Anchor /\ Sampled(room).anchor.pos >= 0
      /\ \A q \in Obj : hot'[q] # Null => hot'[q].anchor.pos >= 0
  BY <1>1, <1>2, SampledFilm
<1>4. StoredFilm' = LiveFilm'
  BY <1>2, <1>3 DEF StoredFilm, FilmOf
<1>5. LiveFilm # Null
  BY <1>1, LiveParts
<1>6. Film!Save
  BY <1>3, <1>4, <1>5 DEF Film!Save, LiveFilm, StoredFilm
<1>7. QED
  BY <1>2, <1>3, <1>6 DEF Sane

LEMMA CheckpointFilm ==
  ASSUME ClockInv, EmptyCheckpoint
  PROVE  (Film!Save \/ Film!Sample) /\ Sane'
<1>1. room # 0 /\ room \in Obj /\ hot[room] # Null
  BY DEF EmptyCheckpoint, ClockInv, TypeOK, InMap
<1>2. CASE Save(room)
  BY <1>1, <1>2, SaveFilm
<1>3. CASE hot' = [hot EXCEPT ![room] = Sampled(room)] /\ UNCHANGED <<now, room, saved>>
  <2>1. /\ LiveFilm' = Film!Unheld(LiveFilm)
        /\ \A q \in Obj : hot'[q] # Null => hot'[q].anchor.pos >= 0
    BY <1>1, <1>3, SampledFilm
  <2>2. UNCHANGED StoredFilm
    BY <1>3 DEF StoredFilm, FilmOf
  <2>3. LiveFilm # Null
    BY <1>1, LiveParts
  <2>4. Film!Sample
    BY <2>1, <2>2, <2>3 DEF Film!Sample, Film!On, LiveFilm, StoredFilm
  <2>5. QED
    BY <1>3, <2>1, <2>4 DEF ClockInv, Sane
<1>4. QED
  BY <1>2, <1>3 DEF EmptyCheckpoint

\* A tick of the clock is a tick of both stopwatches.
LEMMA BothTick ==
  ASSUME ClockInv, Tick
  PROVE  Film!Tick /\ Sane'
<1>1. UNCHANGED <<room, hot, saved>> /\ now' = now + 1 /\ now \in Int
  BY DEF Tick, ClockInv, TypeOK
<1>2. PICK t \in Int : t = now
  BY <1>1
<1>3. LiveFilm' = IF LiveFilm = Null THEN Null ELSE Film!After(LiveFilm)
  <2>1. CASE room = 0
    BY <1>1, <2>1 DEF LiveFilm
  <2>2. CASE room # 0
    <3>1. hot[room] \in State /\ hot[room].anchor.pos >= 0
      BY <2>2 DEF ClockInv, TypeOK, InMap, Sane
    <3>2. PICK a \in Anchor : a = hot[room].anchor
      BY <3>1 DEF State
    <3>3. FilmAt(a, t + 1) = Film!After(FilmAt(a, t))
      BY <3>1, <3>2, TickFilm
    <3>4. LiveFilm = FilmAt(a, t) /\ LiveFilm' = FilmAt(a, t + 1)
      BY <1>1, <1>2, <2>2, <3>2 DEF LiveFilm, FilmOf
    <3>5. LiveFilm # Null
      BY <2>2, LiveParts
    <3>6. QED
      BY <3>3, <3>4, <3>5
  <2>3. QED
    BY <2>1, <2>2
<1>4. StoredFilm' = Film!After(StoredFilm)
  <2>1. StoredFilm = FilmAt(saved.anchor, t) /\ StoredFilm' = FilmAt(saved.anchor, t + 1)
    BY <1>1, <1>2 DEF StoredFilm, FilmOf
  <2>2. CASE saved.anchor = [wall |-> Null, pos |-> 0, state |-> "paused", rate |-> 1]
    <3>1. FilmAt(saved.anchor, t) = Film!Zero /\ FilmAt(saved.anchor, t + 1) = Film!Zero
      BY <2>2, NullRow
    <3>2. QED
      BY <2>1, <3>1 DEF Film!After, Film!Zero
  <2>3. CASE saved.anchor \in Anchor /\ saved.anchor.pos >= 0
    <3>1. PICK a \in Anchor : a = saved.anchor
      BY <2>3
    <3>2. FilmAt(a, t + 1) = Film!After(FilmAt(a, t))
      BY <2>3, <3>1, TickFilm
    <3>3. QED
      BY <2>1, <3>1, <3>2
  <2>4. QED
    BY <2>2, <2>3 DEF ClockInv, Sane
<1>5. Film!Tick
  BY <1>3, <1>4 DEF Film!Tick, LiveFilm, StoredFilm
<1>6. QED
  BY <1>1, <1>5 DEF ClockInv, Sane

\* Every step of the room's clock is a step of the stopwatches, or none.
LEMMA FilmStep ==
  ASSUME ClockInv, [Next]_vars
  PROVE  /\ [Film!Next]_<<LiveFilm, StoredFilm>>
         /\ Sane'
<1> DEFINE Goal == [Film!Next]_<<LiveFilm, StoredFilm>> /\ Sane'
<1>1. ASSUME UNCHANGED <<now, room, hot, saved>> PROVE Goal
  BY <1>1 DEF LiveFilm, StoredFilm, FilmOf, ClockInv, Sane
<1>2. CASE UNCHANGED vars
  BY <1>1, <1>2 DEF vars
<1>3. ASSUME NEW l \in Loader, BeginLoad(l) PROVE Goal
  BY <1>1, <1>3 DEF BeginLoad
<1>4. ASSUME NEW l \in Loader, EndLoad(l) PROVE Goal
  BY <1>4, RestoreFilm DEF Film!Next
<1>5. CASE Commands
  BY <1>5, CommandFilm
<1>6. ASSUME NEW o \in Obj, TimerCheckpoint(o) PROVE Goal
  BY <1>6, SaveFilm DEF TimerCheckpoint, Film!Next
<1>7. CASE EmptyCheckpoint
  BY <1>7, CheckpointFilm DEF Film!Next
<1>8. CASE Tick
  BY <1>8, BothTick DEF Film!Next
<1>9. CASE Crash
  <2>1. Film!Lose
    BY <1>9 DEF Crash, Film!Lose, FilmOf
  <2>2. Sane'
    BY <1>9 DEF Crash, Sane, ClockInv
  <2>3. QED
    BY <2>1, <2>2 DEF Film!Next
<1>10. QED
  BY <1>2, <1>3, <1>4, <1>5, <1>6, <1>7, <1>8, <1>9 DEF Next

\* With one load at a time the anchors of a room implement two stopwatches: the film jumps
\* for nobody's command but a seek, or a play in a paused room; a checkpoint stores what the
\* members see; and a restart comes back to what the stored clock has run on to.
THEOREM ClockImplementsFilm ==
  Spec /\ []OneLoad => ShowsTheFilm
<1>1. Init => ClockInv /\ Film!Init
  <2>1. Init => TypeOK /\ InMap
    BY TypeInit
  <2>2. Init => Alone /\ Sane
    BY DEF Init, Alone, Sane
  <2>3. Init => Film!Init
    <3>1. Init => FilmAt(saved.anchor, 0) = Film!Zero
      BY NullRow DEF Init
    <3>2. QED
      BY <3>1 DEF Init, Film!Init, FilmOf
  <2>4. QED
    BY <2>1, <2>2, <2>3 DEF ClockInv
<1>2. ClockInv /\ OneLoad /\ [Next]_vars => ClockInv' /\ [Film!Next]_<<LiveFilm, StoredFilm>>
  BY TypeStep, AloneStep, FilmStep DEF ClockInv
<1>3. QED
  BY <1>1, <1>2, PTL DEF Spec, ShowsTheFilm, Film!Spec, LiveFilm, StoredFilm

-----------------------------------------------------------------------------
(* What the row knows of the room. *)

\* The row was sampled when it was written, so nothing of a start lead is left in it.
Past == SavedIsPast /\ StoredFilm.wait = 0

\* A command takes the next number, and leaves the row as it is.
LEMMA CommandPast ==
  ASSUME ClockInv, Past, Commands
  PROVE  Past' /\ UNCHANGED saved
<1>0. /\ room # 0 /\ room \in Obj /\ hot[room] \in State /\ saved \in SavedState
      /\ hot \in [Obj -> State \cup {Null}]
  BY DEF Commands, Play, Pause, SeekTo, SetRate, Announce, ControlModeCmd, HandOver, Controls,
         ClockInv, TypeOK, InMap
<1>1. hot[room].seq \in Nat /\ saved.seq \in Nat /\ saved.seq <= hot[room].seq
  BY <1>0 DEF State, SavedState, Past, SavedIsPast
<1>2. ASSUME NEW r \in State, r.seq = hot[room].seq, Command(r)
      PROVE  Past' /\ UNCHANGED saved
  <2>1. UNCHANGED <<now, room, saved>> /\ hot'[room] = [r EXCEPT !.seq = r.seq + 1]
    BY <1>0, <1>2 DEF Command
  <2>2. hot'[room].seq = hot[room].seq + 1
    BY <1>2, <2>1 DEF State
  <2>3. ~(saved.seq = hot'[room].seq) /\ saved.seq <= hot'[room].seq
    BY <1>1, <2>2
  <2>4. SavedIsPast'
    BY <2>1, <2>3 DEF SavedIsPast
  <2>5. UNCHANGED StoredFilm
    BY <2>1 DEF StoredFilm, FilmOf
  <2>6. QED
    BY <2>1, <2>4, <2>5 DEF Past
<1>3. ASSUME NEW t \in Int, NEW p \in Int, NEW s \in {"playing", "paused"}, NEW x \in Int,
             Anchored(t, p, s, x)
      PROVE  Past' /\ UNCHANGED saved
  <2>1. [wall |-> t, pos |-> p, state |-> s, rate |-> x] \in Anchor
    BY DEF Anchor
  <2>2. PICK a \in Anchor : a = [wall |-> t, pos |-> p, state |-> s, rate |-> x]
    BY <2>1
  <2>3. [hot[room] EXCEPT !.anchor = a] \in State /\ [hot[room] EXCEPT !.anchor = a].seq = hot[room].seq
    BY <1>0 DEF State
  <2>4. QED
    BY <1>2, <1>3, <2>2, <2>3 DEF Anchored
<1>4. /\ Here \in Anchor /\ now \in Int /\ now + Lead \in Int
      /\ authoritativePosition(Here, now) \in Int
      /\ Here.state \in {"playing", "paused"} /\ Here.rate \in Int
      /\ \A x \in Int : Above0(x) \in Int
  BY <1>0, LiveParts, SessionClockAssumption DEF Anchor, ClockInv, TypeOK, Above0
<1>5. ASSUME NEW m \in Mode, NEW h \in Role,
             Command([hot[room] EXCEPT !.controlMode = m, !.remoteHolder = h])
      PROVE  Past' /\ UNCHANGED saved
  <2>1. /\ [hot[room] EXCEPT !.controlMode = m, !.remoteHolder = h] \in State
        /\ [hot[room] EXCEPT !.controlMode = m, !.remoteHolder = h].seq = hot[room].seq
    BY <1>0 DEF State
  <2>2. QED
    BY <1>2, <1>5, <2>1
<1>6. ASSUME NEW role \in Role, NEW raw \in RawPos, Play(role, raw) \/ SeekTo(role, raw)
      PROVE  Past' /\ UNCHANGED saved
  <2>1. raw \in Int
    BY SessionClockAssumption
  <2>2. CASE Play(role, raw)
    <3> DEFINE p == IF Here.state = "paused" THEN Above0(raw) ELSE authoritativePosition(Here, now)
    <3>1. p \in Int
      BY <1>4, <2>1
    <3>2. Anchored(now + Lead, p, "playing", Here.rate)
      BY <2>2 DEF Play
    <3> HIDE DEF p
    <3>3. QED
      BY <1>3, <1>4, <3>1, <3>2
  <2>3. CASE SeekTo(role, raw)
    BY <1>3, <1>4, <2>1, <2>3 DEF SeekTo
  <2>4. QED
    BY <1>6, <2>2, <2>3
<1>7. ASSUME NEW role \in Role, NEW raw \in RawRates, SetRate(role, raw)
      PROVE  Past' /\ UNCHANGED saved
  BY <1>3, <1>4, <1>7, SessionClockAssumption DEF SetRate
<1>8. ASSUME NEW role \in Role, Pause(role) \/ Announce(role) PROVE Past' /\ UNCHANGED saved
  <2>1. CASE Pause(role)
    BY <1>3, <1>4, <2>1 DEF Pause
  <2>2. CASE Announce(role)
    BY <1>0, <1>2, <2>2 DEF Announce
  <2>3. QED
    BY <1>8, <2>1, <2>2
<1>9. ASSUME NEW role \in Role, NEW m \in Mode, NEW h \in Role, ControlModeCmd(role, m, h)
      PROVE  Past' /\ UNCHANGED saved
  BY <1>5, <1>9 DEF ControlModeCmd
<1>10. CASE HandOver
  BY <1>5, <1>10 DEF HandOver, Mode, Role
<1>11. QED
  BY <1>6, <1>7, <1>8, <1>9, <1>10 DEF Commands

\* What a load puts in memory is the row, whatever the instant.
LEMMA RestorePast ==
  ASSUME ClockInv, Past, NEW l \in Loader, EndLoad(l)
  PROVE  Past' /\ UNCHANGED saved
<1>1. Film!Restore
  BY RestoreFilm
<1>2. PICK o \in Obj : hot' = [hot EXCEPT ![o] = FromRow(load[l])] /\ room' = o
  BY DEF EndLoad
<1>3. load[l] = saved /\ saved \in SavedState /\ hot \in [Obj -> State \cup {Null}]
      /\ UNCHANGED <<now, saved>>
  BY DEF EndLoad, ClockInv, Alone, TypeOK
<1>4. hot'[room'] = FromRow(saved) /\ room' # 0
  BY <1>2, <1>3 DEF Obj
<1>5. /\ FromRow(saved).seq = saved.seq
      /\ FromRow(saved).controlMode = saved.controlMode
      /\ FromRow(saved).remoteHolder = saved.remoteHolder
  BY <1>3 DEF FromRow, SavedState
<1>6. FilmOf(saved.anchor)' = FilmOf(saved.anchor)
  BY <1>3 DEF FilmOf
<1>7. FilmOf(hot[room].anchor)' = FilmOf(saved.anchor)
  BY <1>1, <1>4 DEF Film!Restore
<1>8. saved.seq <= saved.seq
  BY <1>3 DEF SavedState
<1>9. SavedIsPast'
  BY <1>3, <1>4, <1>5, <1>6, <1>7, <1>8 DEF SavedIsPast
<1>10. QED
  BY <1>3, <1>6, <1>9 DEF Past, StoredFilm

\* A checkpoint that is written makes the row what the room is, and one that fails samples
\* a clock the row agrees with.
LEMMA SavePast ==
  ASSUME ClockInv, Past, room # 0, hot' = [hot EXCEPT ![room] = Sampled(room)],
         UNCHANGED <<now, room>>, saved' = Sampled(room) \/ UNCHANGED saved
  PROVE  Past' /\ saved'.seq >= saved.seq
<1>1. /\ room \in Obj /\ hot[room] \in State /\ saved \in SavedState /\ now \in Int
      /\ hot \in [Obj -> State \cup {Null}]
  BY DEF ClockInv, TypeOK, InMap
<1>2. /\ hot'[room] = Sampled(room)
      /\ Sampled(room).seq = hot[room].seq
      /\ Sampled(room).controlMode = hot[room].controlMode
      /\ Sampled(room).remoteHolder = hot[room].remoteHolder
  BY <1>1 DEF Sampled, State
<1>3. hot[room].seq \in Nat /\ saved.seq \in Nat /\ saved.seq <= hot[room].seq
  BY <1>1 DEF State, SavedState, Past, SavedIsPast
<1>4. /\ LiveFilm' = Film!Unheld(LiveFilm)
      /\ LiveFilm' = FilmAt(Sampled(room).anchor, now)
  BY SampledFilm
<1>5. LiveFilm \in Films /\ LiveFilm = FilmOf(hot[room].anchor)
  BY LiveParts DEF LiveFilm
<1>6. FilmOf(hot[room].anchor)' = LiveFilm'
  BY DEF LiveFilm
<1>7. CASE saved' = Sampled(room)
  <2>1. FilmOf(saved.anchor)' = LiveFilm'
    BY <1>4, <1>7 DEF FilmOf
  <2>2. SavedIsPast'
    BY <1>2, <1>3, <1>6, <1>7, <2>1 DEF SavedIsPast
  <2>3. LiveFilm'.wait = 0
    BY <1>4, <1>5 DEF Film!Unheld, Films
  <2>4. QED
    BY <1>2, <1>3, <1>7, <2>1, <2>2, <2>3 DEF Past, StoredFilm
<1>8. CASE UNCHANGED saved
  <2>1. UNCHANGED StoredFilm /\ FilmOf(saved.anchor)' = FilmOf(saved.anchor)
    BY <1>8 DEF StoredFilm, FilmOf
  <2>2. ASSUME saved.seq = hot[room].seq
        PROVE  /\ FilmOf(saved.anchor)' = FilmOf(hot[room].anchor)'
               /\ saved.controlMode = hot[room].controlMode
               /\ saved.remoteHolder = hot[room].remoteHolder
    <3>1. /\ StoredFilm = LiveFilm
          /\ saved.controlMode = hot[room].controlMode
          /\ saved.remoteHolder = hot[room].remoteHolder
      BY <1>5, <2>2 DEF Past, SavedIsPast, StoredFilm
    <3>2. LiveFilm.wait = 0
      BY <3>1 DEF Past
    <3>3. Film!Unheld(LiveFilm) = LiveFilm
      BY <1>5, <3>2 DEF Film!Unheld, Films
    <3>4. QED
      BY <1>4, <1>6, <2>1, <3>1, <3>3 DEF StoredFilm
  <2>3. SavedIsPast'
    BY <1>2, <1>3, <1>8, <2>2 DEF SavedIsPast
  <2>4. QED
    BY <1>3, <1>8, <2>1, <2>3 DEF Past
<1>9. QED
  BY <1>7, <1>8

\* Time moves both films alike.
LEMMA TickPast ==
  ASSUME ClockInv, Past, Tick
  PROVE  Past' /\ UNCHANGED saved
<1>1. Film!Tick
  BY BothTick
<1>2. UNCHANGED <<room, hot, saved>>
  BY DEF Tick
<1>3. StoredFilm' = Film!After(StoredFilm) /\ (room # 0 => LiveFilm' = Film!After(LiveFilm))
  <2>1. room # 0 => LiveFilm # Null
    BY LiveParts
  <2>2. QED
    BY <1>1, <2>1 DEF Film!Tick, LiveFilm, StoredFilm
<1>4. room # 0 => LiveFilm' = FilmOf(hot[room].anchor)' /\ LiveFilm = FilmOf(hot[room].anchor)
  BY <1>2 DEF LiveFilm
<1>5. SavedIsPast'
  BY <1>2, <1>3, <1>4 DEF Past, SavedIsPast, StoredFilm
<1>6. StoredFilm'.wait = 0
  <2>1. StoredFilm = [pos |-> StoredFilm.pos, wait |-> StoredFilm.wait,
                      state |-> StoredFilm.state, rate |-> StoredFilm.rate]
    BY DEF StoredFilm, FilmOf, FilmAt
  <2>2. PICK f : f = StoredFilm
    OBVIOUS
  <2>3. f = [pos |-> f.pos, wait |-> f.wait, state |-> f.state, rate |-> f.rate] /\ f.wait = 0
    BY <2>1, <2>2 DEF Past
  <2>4. Film!After(f).wait = 0
    BY <2>3 DEF Film!After
  <2>5. QED
    BY <1>3, <2>2, <2>4
<1>7. QED
  BY <1>2, <1>5, <1>6 DEF Past

LEMMA PastStep ==
  ASSUME ClockInv, Past, [Next]_vars
  PROVE  Past' /\ saved'.seq >= saved.seq
<1>0. saved.seq \in Nat /\ saved.seq >= saved.seq
  BY DEF ClockInv, TypeOK, SavedState
<1>1. ASSUME UNCHANGED <<now, room, hot, saved>> PROVE Past' /\ saved'.seq >= saved.seq
  BY <1>0, <1>1 DEF Past, SavedIsPast, StoredFilm, FilmOf
<1>2. CASE UNCHANGED vars
  BY <1>1, <1>2 DEF vars
<1>3. ASSUME NEW l \in Loader, BeginLoad(l) PROVE Past' /\ saved'.seq >= saved.seq
  BY <1>1, <1>3 DEF BeginLoad
<1>4. ASSUME NEW l \in Loader, EndLoad(l) PROVE Past' /\ saved'.seq >= saved.seq
  BY <1>0, <1>4, RestorePast
<1>5. CASE Commands
  BY <1>0, <1>5, CommandPast
<1>6. ASSUME NEW o \in Obj, TimerCheckpoint(o) PROVE Past' /\ saved'.seq >= saved.seq
  <2>1. o = room /\ room # 0 /\ Save(o)
    BY <1>6 DEF TimerCheckpoint, ClockInv, Alone, Obj
  <2>2. QED
    BY <2>1, SavePast DEF Save
<1>7. CASE EmptyCheckpoint
  BY <1>7, SavePast DEF EmptyCheckpoint, Save
<1>8. CASE Tick
  BY <1>0, <1>8, TickPast
<1>9. CASE Crash
  BY <1>0, <1>9 DEF Crash, Past, SavedIsPast, StoredFilm, FilmOf
<1>10. QED
  BY <1>2, <1>3, <1>4, <1>5, <1>6, <1>7, <1>8, <1>9 DEF Next

LEMMA PastAlways ==
  Spec /\ []OneLoad => [](ClockInv /\ Past) /\ [][saved'.seq >= saved.seq]_vars
<1>1. Init => ClockInv /\ Past
  <2>1. Init => ClockInv
    BY TypeInit DEF Init, ClockInv, Alone, Sane
  <2>2. Init => StoredFilm.wait = 0
    <3>1. FilmAt([wall |-> Null, pos |-> 0, state |-> "paused", rate |-> 1], 0).wait = 0
      BY DEF FilmAt, Held
    <3>2. QED
      BY <3>1 DEF Init, StoredFilm, FilmOf
  <2>3. QED
    BY <2>1, <2>2 DEF Init, Past, SavedIsPast
<1>2. ClockInv /\ Past /\ OneLoad /\ [Next]_vars => (ClockInv /\ Past)' /\ saved'.seq >= saved.seq
  BY TypeStep, AloneStep, FilmStep, PastStep DEF ClockInv
<1>3. QED
  BY <1>1, <1>2, PTL DEF Spec

\* With one load at a time, what a command number stands for is settled: the row is never
\* ahead of the room in memory, and at the same command both show the same film.
THEOREM RowIsPast == Spec /\ []OneLoad => []SavedIsPast
<1>1. Past => SavedIsPast
  BY DEF Past
<1>2. QED
  BY <1>1, PastAlways, PTL

\* With one load at a time, the command sequence in the row never goes back, whatever
\* crashes, reloads and failing checkpoints there are.
THEOREM RowNeverBack == Spec /\ []OneLoad => SeqNeverBack
BY PastAlways, PTL DEF SeqNeverBack

-----------------------------------------------------------------------------
(* When the row learns of a command. *)

\* The timer of the room in the map fires while its oldest unsaved command is younger than a
\* period.
Timely ==
  unsaved # Null =>
    /\ unsaved \in Nat /\ room \in Obj
    /\ now + due[room] <= unsaved + Period

LEMMA TimelyStep ==
  ASSUME TypeOK, InMap, Timely, [Next]_vars
  PROVE  Timely'
<1> USE SessionClockAssumption
<1>0. /\ now \in Nat /\ Period \in Nat /\ due \in [Obj -> 0..Period]
      /\ room \in Obj \cup {0} /\ 0 \notin Obj
      /\ \A n \in Nat : n # Null
  BY DEF TypeOK, Obj
<1>1. ASSUME UNCHANGED <<now, room, due, unsaved>> PROVE Timely'
  BY <1>1 DEF Timely
<1>2. CASE UNCHANGED vars
  BY <1>1, <1>2 DEF vars
<1>3. ASSUME NEW l \in Loader, BeginLoad(l) PROVE Timely'
  BY <1>1, <1>3 DEF BeginLoad
<1>4. ASSUME NEW l \in Loader, EndLoad(l) PROVE Timely'
  BY <1>4 DEF EndLoad, Timely
<1>5. ASSUME NEW r, Command(r) PROVE Timely'
  <2>1. /\ UNCHANGED <<now, room, due>> /\ room \in Obj
        /\ unsaved' = IF unsaved = Null THEN now ELSE unsaved
    BY <1>0, <1>5 DEF Command
  <2>2. CASE unsaved = Null
    <3>1. due[room] \in Nat /\ due[room] <= Period
      BY <1>0, <2>1
    <3>2. now + due[room] <= now + Period
      BY <1>0, <3>1
    <3>3. QED
      BY <1>0, <2>1, <2>2, <3>2 DEF Timely
  <2>3. CASE unsaved # Null
    BY <1>1, <2>1, <2>3
  <2>4. QED
    BY <2>2, <2>3
<1>6. CASE Commands
  BY <1>5, <1>6 DEF Commands, Play, Pause, SeekTo, SetRate, Announce, ControlModeCmd, HandOver, Anchored
<1>7. ASSUME NEW o \in Obj, TimerCheckpoint(o) PROVE Timely'
  <2>1. CASE o = room
    BY <1>7, <2>1 DEF TimerCheckpoint, Save, Timely
  <2>2. CASE o # room
    BY <1>0, <1>7, <2>2 DEF TimerCheckpoint, Save, Timely
  <2>3. QED
    BY <2>1, <2>2
<1>8. CASE EmptyCheckpoint
  <2>1. CASE Save(room)
    BY <2>1 DEF Save, Timely
  <2>2. CASE ~Save(room)
    BY <1>1, <1>8, <2>2 DEF EmptyCheckpoint
  <2>3. QED
    BY <2>1, <2>2
<1>9. CASE Tick
  <2>1. /\ now' = now + 1 /\ UNCHANGED <<room, hot, unsaved>>
        /\ due' = [o \in Obj |-> IF o \in Built THEN due[o] - 1 ELSE due[o]]
    BY <1>9 DEF Tick
  <2>2. ASSUME unsaved # Null PROVE now' + due'[room] <= unsaved + Period
    <3>1. unsaved \in Nat /\ room \in Obj /\ now + due[room] <= unsaved + Period
      BY <2>2 DEF Timely
    <3>2. room \in Built
      BY <1>0, <3>1 DEF Built, InMap
    <3>3. due'[room] = due[room] - 1 /\ due[room] \in Nat
      BY <1>0, <2>1, <3>1, <3>2
    <3>4. QED
      BY <1>0, <2>1, <3>1, <3>3
  <2>3. QED
    BY <2>1, <2>2 DEF Timely
<1>10. CASE Crash
  BY <1>10 DEF Crash, Timely
<1>11. QED
  BY <1>2, <1>3, <1>4, <1>6, <1>7, <1>8, <1>9, <1>10 DEF Next

\* A command is in the row one checkpoint period after it was taken, at the latest, whatever
\* loads and failing checkpoints there are; only a crash loses it.
THEOREM CommandsReachTheRow == Spec => []SavedInTime
<1>1. Init => TypeOK /\ InMap /\ Timely
  BY TypeInit DEF Init, Timely
<1>2. TypeOK /\ InMap /\ Timely /\ [Next]_vars => (TypeOK /\ InMap /\ Timely)'
  BY TypeStep, TimelyStep
<1>3. TypeOK /\ Timely => SavedInTime
  <2>1. ASSUME TypeOK, Timely, unsaved # Null PROVE now <= unsaved + Period
    <3>1. unsaved \in Nat /\ room \in Obj /\ now + due[room] <= unsaved + Period
      BY <2>1 DEF Timely
    <3>2. due[room] \in Nat /\ now \in Nat /\ Period \in Nat
      BY <2>1, <3>1, SessionClockAssumption DEF TypeOK
    <3>3. QED
      BY <3>1, <3>2
  <2>2. QED
    BY <2>1 DEF SavedInTime
<1>4. QED
  BY <1>1, <1>2, <1>3, PTL DEF Spec

=============================================================================
