---------------------------- MODULE ScreenProofs ----------------------------
(***************************************************************************)
(* Proofs about Screen, for any outputs, images, sizes, blur settings,     *)
(* transition lengths and any number of changes.                           *)
(***************************************************************************)
EXTENDS Screen, WellFoundedInduction, TLAPS

USE DEF outputVars, cacheVars, screenVars

(* What dividing an integer by a positive one is.                          *)
LEMMA DivDef ==
  ASSUME NEW x \in Int, NEW u \in Nat \ {0}
  PROVE /\ x \div u \in Int
        /\ u * (x \div u) <= x
        /\ x < u * (x \div u) + u
OBVIOUS

(* A quotient lies where the dividend does.                                *)
LEMMA DivBounds ==
  ASSUME NEW x \in Int, NEW a \in Int, NEW b \in Int, NEW u \in Nat \ {0}, a * u <= x, x <= b * u
  PROVE x \div u \in a..b
<1> DEFINE q == x \div u
<1>1. q \in Int /\ u * q <= x /\ x < u * q + u
  BY DivDef
<1> HIDE DEF q
<1>2. ~(q < a)
  <2> SUFFICES ASSUME q < a PROVE FALSE
    OBVIOUS
  <2>1. q + 1 <= a
    BY <1>1
  <2>2. (q + 1) * u <= a * u
    BY <1>1, <2>1
  <2>. QED BY <1>1, <2>2
<1>3. ~(b < q)
  <2> SUFFICES ASSUME b < q PROVE FALSE
    OBVIOUS
  <2>1. b + 1 <= q
    BY <1>1
  <2>2. (b + 1) * u <= q * u
    BY <1>1, <2>1
  <2>. QED BY <1>1, <2>2
<1>4. q \in a..b
  BY <1>1, <1>2, <1>3
<1>. QED BY <1>4 DEF q

(* A multiple divides back.                                                *)
LEMMA DivExact ==
  ASSUME NEW a \in Int, NEW u \in Nat \ {0}
  PROVE (a * u) \div u = a
<1>1. (a * u) \div u \in a..a
  BY DivBounds
<1>. QED BY <1>1

(* An eased value stays between nothing and full, and is exact at both     *)
(* ends, whatever the unit and the length.                                 *)
LEMMA LinearFacts ==
  ASSUME NEW d \in Nat \ {0}, NEW e \in 0..d
  PROVE /\ Eval("linear", e, d) = (Unit * e) \div d
        /\ Eval("linear", e, d) \in 0..Unit
        /\ e = 0 => Eval("linear", e, d) = 0
        /\ e = d => Eval("linear", e, d) = Unit
<1>1. Unit \in Nat \ {0}
  BY ScreenAssumption DEF UnitAssumption
<1>2. Eval("linear", e, d) = (Unit * e) \div d
  BY DEF Eval
<1>3. 0 * d <= Unit * e /\ Unit * e <= Unit * d
  <2>1. e <= d /\ e \in Nat
    OBVIOUS
  <2>. QED BY <1>1, <2>1
<1>4. (Unit * e) \div d \in 0..Unit
  <2>1. Unit * e \in Int
    BY <1>1
  <2>. QED BY <1>1, <1>3, <2>1, DivBounds
<1>5. ASSUME e = 0 PROVE (Unit * e) \div d = 0
  <2>1. Unit * e = 0 * d
    BY <1>1, <1>5
  <2>. QED BY <2>1, DivExact
<1>6. ASSUME e = d PROVE (Unit * e) \div d = Unit
  BY <1>1, <1>6, DivExact
<1>. QED BY <1>2, <1>4, <1>5, <1>6

(* The value of an animation lies in its range, and an animation that      *)
(* rests is where it was going.                                            *)
LEMMA ValueFacts ==
  ASSUME NEW time \in Nat, NEW a \in Animations(time)
  PROVE /\ Value(a) \in 0..Unit
        /\ Rests(a) => Value(a) = a.to
        /\ a.elapsed = 0 /\ ~IsInstant(a.tween) => Value(a) = a.from
<1>1. Unit \in Nat \ {0}
  BY ScreenAssumption DEF UnitAssumption
<1>2. /\ a.from \in 0..Unit /\ a.to \in 0..Unit /\ a.elapsed \in 0..time
      /\ a.tween \in {Instant, Tween(time, "linear")}
  BY DEF Animations
<1>3. CASE a.tween = Instant
  <2>1. Value(a) = a.to
    BY <1>3 DEF Value, IsInstant, Instant, Tween
  <2>. QED BY <1>2, <1>3, <2>1 DEF IsInstant, Instant, Tween
<1>4. CASE a.tween = Tween(time, "linear") /\ time = 0
  <2>1. Value(a) = a.to
    BY <1>4 DEF Value, IsInstant, Tween
  <2>. QED BY <1>2, <1>4, <2>1 DEF IsInstant, Tween
<1>5. CASE a.tween = Tween(time, "linear") /\ time # 0
  <2> DEFINE v == Eval("linear", a.elapsed, time)
  <2>1. Value(a) = a.from + ((a.to - a.from) * v) \div Unit
    BY <1>5 DEF Value, IsInstant, Tween
  <2>2. /\ v \in 0..Unit
        /\ a.elapsed = 0 => v = 0
        /\ a.elapsed = time => v = Unit
    BY <1>2, <1>5, LinearFacts
  <2> HIDE DEF v
  <2>3. Value(a) \in 0..Unit
    <3> DEFINE s == a.to - a.from
               low == IF s < 0 THEN s ELSE 0
               high == IF s < 0 THEN 0 ELSE s
    <3>1. s \in Int /\ v \in Nat /\ s * v \in Int /\ low \in Int /\ high \in Int
      BY <1>1, <1>2, <2>2
    <3>2. low * Unit <= s * v /\ s * v <= high * Unit
      <4>1. CASE s < 0
        <5>1. s * Unit <= s * v
          BY <1>1, <2>2, <3>1, <4>1
        <5>2. s * v <= 0
          BY <2>2, <3>1, <4>1
        <5>. QED BY <4>1, <5>1, <5>2, <1>1
      <4>2. CASE s >= 0
        <5>1. s * v <= s * Unit
          BY <1>1, <2>2, <3>1, <4>2
        <5>2. 0 <= s * v
          BY <2>2, <3>1, <4>2
        <5>. QED BY <4>2, <5>1, <5>2, <1>1, <3>1
      <4>. QED BY <4>1, <4>2, <3>1
    <3>3. (s * v) \div Unit \in low..high
      BY <1>1, <3>1, <3>2, DivBounds
    <3>. QED BY <1>1, <1>2, <2>1, <3>1, <3>3
  <2>4. ASSUME Rests(a) PROVE Value(a) = a.to
    <3>1. v = Unit
      BY <1>2, <1>5, <2>2, <2>4 DEF Rests, Tween
    <3>2. ((a.to - a.from) * Unit) \div Unit = a.to - a.from
      BY <1>1, <1>2, DivExact
    <3>. QED BY <1>2, <2>1, <3>1, <3>2
  <2>5. ASSUME a.elapsed = 0 PROVE Value(a) = a.from
    <3>1. (a.to - a.from) * v = 0 * Unit
      BY <1>1, <1>2, <2>2, <2>5
    <3>2. (0 * Unit) \div Unit = 0
      BY <1>1, DivExact
    <3>. QED BY <1>2, <2>1, <3>1, <3>2
  <2>. QED BY <2>3, <2>4, <2>5
<1>. QED BY <1>2, <1>3, <1>4, <1>5

-----------------------------------------------------------------------------
(* What was placed without moving rests where it was put.                  *)
LEMMA AtFacts ==
  ASSUME NEW time \in Nat, NEW v \in 0..Unit
  PROVE /\ At(v) \in Animations(time)
        /\ At(v).to = v
        /\ Value(At(v)) = v
        /\ Rests(At(v))
BY DEF At, Animations, Instant, Tween, Value, IsInstant, Rests

(* A retargeted animation heads for its new target; one that takes time    *)
(* starts from the value it had, and it reports a move whenever its target *)
(* changed.                                                                *)
LEMMA RetargetFacts ==
  ASSUME NEW time \in Nat, NEW a \in Animations(time), NEW to \in 0..Unit
  PROVE LET r == Retarget(a, to, Tween(time, "linear"))
        IN /\ r.is \in Animations(time)
           /\ r.is.to = to
           /\ a.to # to => r.move # NoMove
           /\ time > 0 => Value(r.is) = Value(a)
           /\ time > 0 /\ Value(a) # to => r.is = a \/ ~Rests(r.is)
<1> DEFINE tween == Tween(time, "linear")
           r == Retarget(a, to, tween)
           moving == [from |-> Value(a), to |-> to, elapsed |-> 0, tween |-> tween]
<1>1. /\ a.from \in 0..Unit /\ a.to \in 0..Unit /\ a.elapsed \in 0..time
      /\ a.tween \in {Instant, tween} /\ Value(a) \in 0..Unit
      /\ Rests(a) => Value(a) = a.to
  BY ValueFacts DEF Animations
<1>2. a.tween.easing = "linear" /\ tween.easing = "linear" /\ tween.duration = time
  BY <1>1 DEF Instant, Tween
<1>3. IsInstant(tween) <=> time = 0
  BY DEF IsInstant, Tween
<1>4. \A v, w, t : Move(v, w, t) # NoMove
  <2> SUFFICES ASSUME NEW v, NEW w, NEW t, Move(v, w, t) = NoMove PROVE FALSE
    OBVIOUS
  <2>1. "from" \in DOMAIN Move(v, w, t) /\ "from" \notin DOMAIN NoMove
    BY DEF Move, NoMove
  <2>. QED BY <2>1
<1>5. CASE a.to = to
  <2>1. r.is = a
    BY <1>2, <1>5 DEF Retarget
  <2>. QED BY <1>5, <2>1
<1>6. CASE a.to # to /\ (IsInstant(tween) \/ Value(a) = to)
  <2>1. /\ r.is = At(to)
        /\ r.move = IF Value(a) # to \/ ~Rests(a) THEN Move(Value(a), to, Instant) ELSE NoMove
    BY <1>6 DEF Retarget
  <2>2. r.move # NoMove
    BY <1>1, <1>4, <1>6, <2>1
  <2>3. time > 0 => Value(a) = to
    BY <1>3, <1>6
  <2>. QED BY <2>1, <2>2, <2>3, AtFacts
<1>7. CASE a.to # to /\ ~IsInstant(tween) /\ Value(a) # to
  <2>1. r.is = moving /\ r.move = Move(Value(a), to, tween)
    BY <1>7 DEF Retarget
  <2>2. moving \in Animations(time)
    BY <1>1 DEF Animations
  <2>3. Value(moving) = Value(a)
    BY <1>7, <2>2, ValueFacts
  <2>4. ~Rests(moving)
    BY <1>3, <1>7, <1>2 DEF Rests
  <2>. QED BY <1>4, <2>1, <2>2, <2>3, <2>4
<1>. QED BY <1>5, <1>6, <1>7

(* Time moves an animation on, and does not change where it is going.      *)
LEMMA TickedFacts ==
  ASSUME NEW time \in Nat, NEW a \in Animations(time)
  PROVE /\ Ticked(a, 1) \in Animations(time)
        /\ Ticked(a, 1).to = a.to
<1>1. /\ a.from \in 0..Unit /\ a.to \in 0..Unit /\ a.elapsed \in 0..time
      /\ a.tween \in {Instant, Tween(time, "linear")}
      /\ a = [from |-> a.from, to |-> a.to, elapsed |-> a.elapsed, tween |-> a.tween]
  BY DEF Animations
<1>2. CASE Rests(a)
  BY <1>2 DEF Ticked
<1>3. CASE ~Rests(a)
  <2>1. a.tween.duration = time
    BY <1>1, <1>3 DEF Rests, Instant, Tween
  <2> DEFINE e == IF a.elapsed + 1 < a.tween.duration THEN a.elapsed + 1 ELSE a.tween.duration
  <2>2. Ticked(a, 1) = [a EXCEPT !.elapsed = e]
    BY <1>3 DEF Ticked
  <2>3. e \in 0..time
    BY <1>1, <2>1
  <2> HIDE DEF e
  <2>. QED BY <2>2, <2>3 DEF Animations
<1>. QED BY <1>2, <1>3

-----------------------------------------------------------------------------
(* What a slot can be: an image that has arrived is whole and has left     *)
(* nothing behind, and a slot without one is on its way out or empty.      *)
SlotOK(s) ==
  /\ s.current # NoImage => s.fade.to = Unit /\ s.opacity.to = Unit
  /\ s.current # NoImage /\ Rests(s.fade) => s.outgoing = NoImage
  /\ s.current = NoImage => s.outgoing = NoImage \/ s.opacity.to = 0

(* An output begins with an empty slot.                                    *)
LEMMA EmptySlotFacts == EmptySlot \in SlotStates /\ SlotOK(EmptySlot)
<1>1. Unit \in 0..Unit /\ Fade \in Nat
  BY ScreenAssumption DEF UnitAssumption
<1>. QED BY <1>1, AtFacts DEF EmptySlot, SlotStates, SlotOK, Pics

(* An appearance or a disappearance is an opacity on its way to full or to *)
(* nothing.                                                                *)
LEMMA PresentFacts ==
  ASSUME NEW a \in Animations(Fade), NEW arriving \in BOOLEAN, NEW leaving \in BOOLEAN
  PROVE LET p == Presence(a, arriving, leaving, Transition)
        IN p \in Animations(Fade) /\ p.to = IF leaving THEN 0 ELSE Unit
<1>1. Unit \in Nat \ {0} /\ 0 \in 0..Unit /\ Unit \in 0..Unit /\ Fade \in Nat
  BY ScreenAssumption DEF UnitAssumption
<1> DEFINE start == IF arriving THEN At(0) ELSE a
           aim == IF leaving THEN 0 ELSE Unit
<1>2. start \in Animations(Fade) /\ aim \in 0..Unit
  BY <1>1, AtFacts
<1>3. Presence(a, arriving, leaving, Transition) =
        IF start.to = aim THEN start ELSE Retarget(start, aim, Transition).is
  BY DEF Presence
<1> HIDE DEF start
<1>. QED BY <1>1, <1>2, <1>3, RetargetFacts DEF Transition

(* Another image in a slot keeps the slot in order, whatever was on its    *)
(* way, and what it leaves is what was shown or nothing. The new one has   *)
(* not arrived when a transition takes time.                               *)
LEMMA SetSlotFacts ==
  ASSUME NEW s \in SlotStates, NEW next \in Pics, next # s.current
  PROVE LET t == SetSlot(s, next, Transition)
        IN /\ t \in SlotStates
           /\ SlotOK(t)
           /\ t.current = next
           /\ t.outgoing \in {s.current, s.outgoing, NoImage}
           /\ Fade > 0 /\ s.current # NoImage /\ next # NoImage => ~Rests(t.fade)
<1> DEFINE crossed == Crossed(s, next, Transition)
           opacity == Presence(s.opacity, IsArriving(s, next), next = NoImage, Transition)
           t == SetSlot(s, next, Transition)
<1>1. Unit \in Nat \ {0} /\ 0 \in 0..Unit /\ Unit \in 0..Unit /\ Fade \in Nat
  BY ScreenAssumption DEF UnitAssumption
<1>2. /\ s.current \in Pics /\ s.outgoing \in Pics /\ NoImage \in Pics
      /\ s.fade \in Animations(Fade) /\ s.opacity \in Animations(Fade)
  BY DEF SlotStates, Pics
<1>3. At(0) \in Animations(Fade) /\ At(Unit) \in Animations(Fade)
  BY <1>1, AtFacts
<1>4. opacity \in Animations(Fade) /\ opacity.to = IF next = NoImage THEN 0 ELSE Unit
  BY <1>2, PresentFacts DEF IsArriving
<1> DEFINE start == Retarget(At(0), Unit, Transition).is
<1>5. start \in Animations(Fade) /\ start.to = Unit
  BY <1>1, <1>3, RetargetFacts DEF Transition
<1>6. Fade > 0 => ~Rests(start)
  <2>1. start = At(0) \/ ~Rests(start) \/ ~(Fade > 0)
    BY <1>1, <1>3, AtFacts, RetargetFacts DEF Transition
  <2>2. start # At(0)
    BY <1>1, <1>5, AtFacts
  <2>. QED BY <2>1, <2>2
<1>7. IsInstant(Transition) <=> Fade = 0
  BY DEF IsInstant, Transition, Tween
<1>8. /\ crossed \in SlotStates
      /\ crossed.current = next
      /\ crossed.outgoing \in {s.current, s.outgoing, NoImage}
      /\ next # NoImage => crossed.fade.to = Unit
      /\ next # NoImage /\ Rests(crossed.fade) => crossed.outgoing = NoImage
      /\ Fade > 0 /\ s.current # NoImage /\ next # NoImage => ~Rests(crossed.fade)
  <2>1. Leaving(s) \in {s.current, s.outgoing}
    BY DEF Leaving
  <2>2. CASE next = NoImage
    <3>1. crossed = [s EXCEPT !.outgoing = Leaving(s), !.current = NoImage, !.fade = At(0)]
      BY <2>2 DEF Crossed
    <3>. QED BY <1>2, <1>3, <2>1, <2>2, <3>1 DEF SlotStates
  <2>3. CASE next # NoImage /\ (IsArriving(s, next) \/ IsInstant(Transition))
    <3>1. crossed = [s EXCEPT !.outgoing = NoImage, !.current = next, !.fade = At(Unit)]
      BY <2>3 DEF Crossed
    <3>2. ~(Fade > 0 /\ s.current # NoImage)
      BY <1>7, <2>3 DEF IsArriving
    <3>. QED BY <1>1, <1>2, <1>3, <2>3, <3>1, <3>2, AtFacts DEF SlotStates
  <2>4. CASE next # NoImage /\ ~(IsArriving(s, next) \/ IsInstant(Transition))
    <3>1. crossed = [s EXCEPT !.outgoing = Leaving(s), !.current = next, !.fade = start]
      BY <2>4 DEF Crossed
    <3>2. ~Rests(start)
      BY <1>1, <1>6, <1>7, <2>4
    <3> HIDE DEF start
    <3>. QED BY <1>2, <1>5, <2>1, <3>1, <3>2 DEF SlotStates
  <2>. QED BY <2>2, <2>3, <2>4
<1> HIDE DEF crossed, opacity
<1>9. t = [crossed EXCEPT !.opacity = opacity]
  BY DEF SetSlot, crossed, opacity
<1>10. t \in SlotStates
  BY <1>4, <1>8, <1>9 DEF SlotStates
<1>11. /\ t.current = crossed.current /\ t.outgoing = crossed.outgoing
       /\ t.fade = crossed.fade /\ t.opacity = opacity
  BY <1>8, <1>9 DEF SlotStates
<1>. QED BY <1>4, <1>8, <1>10, <1>11 DEF SlotOK

(* Time keeps a slot in order and changes no image but the one that has    *)
(* left.                                                                   *)
LEMMA TickSlotFacts ==
  ASSUME NEW s \in SlotStates, SlotOK(s)
  PROVE LET t == TickSlot(s, 1)
        IN t \in SlotStates /\ SlotOK(t) /\ t.current = s.current
<1> DEFINE u == [s EXCEPT !.fade = Ticked(@, 1), !.opacity = Ticked(@, 1)]
           t == TickSlot(s, 1)
<1>1. /\ s.current \in Pics /\ s.outgoing \in Pics /\ NoImage \in Pics /\ Fade \in Nat
      /\ s.fade \in Animations(Fade) /\ s.opacity \in Animations(Fade)
  BY ScreenAssumption DEF SlotStates, Pics
<1>2. /\ Ticked(s.fade, 1) \in Animations(Fade) /\ Ticked(s.fade, 1).to = s.fade.to
      /\ Ticked(s.opacity, 1) \in Animations(Fade) /\ Ticked(s.opacity, 1).to = s.opacity.to
  BY <1>1, TickedFacts
<1>3. u = [s EXCEPT !.fade = Ticked(s.fade, 1), !.opacity = Ticked(s.opacity, 1)]
  BY DEF SlotStates
<1>4. /\ u \in SlotStates
      /\ u.current = s.current /\ u.outgoing = s.outgoing
      /\ u.fade.to = s.fade.to /\ u.opacity.to = s.opacity.to
  BY <1>1, <1>2, <1>3 DEF SlotStates
<1>5. t = IF Rests(u.fade) /\ ~IsDeparting(u) THEN [u EXCEPT !.outgoing = NoImage] ELSE u
  BY DEF TickSlot
<1> HIDE DEF u
<1>6. CASE Rests(u.fade) /\ ~IsDeparting(u)
  <2>1. /\ t \in SlotStates /\ t.outgoing = NoImage /\ t.current = u.current
        /\ t.fade = u.fade /\ t.opacity = u.opacity
    BY <1>1, <1>4, <1>5, <1>6 DEF SlotStates
  <2>. QED BY <1>4, <2>1 DEF SlotOK
<1>7. CASE ~(Rests(u.fade) /\ ~IsDeparting(u))
  <2>1. t = u
    BY <1>5, <1>7
  <2>. QED BY <1>4, <1>7, <2>1 DEF SlotOK, IsDeparting
<1>. QED BY <1>6, <1>7

-----------------------------------------------------------------------------
(* Every slot is in order.                                                 *)
SlotInv == \A o \in Outputs : SlotOK(slot[o])

(* Only an image that does not decode is reported as failed, and there is  *)
(* a report only while a pass handles it.                                  *)
EventsInv ==
  /\ \A w \in Wallpapers : landed[w] = -1 => w \in Broken
  /\ events.failed \subseteq Broken
  /\ phase \in {"poll", "sync"} => events = NoEvents
  /\ phase = "resolved" => events # NoEvents

(* Changing a function at one point.                                       *)
LEMMA Update ==
  ASSUME NEW S, NEW T, NEW f \in [S -> T], NEW x \in S, NEW v \in T
  PROVE /\ [f EXCEPT ![x] = v] \in [S -> T]
        /\ [f EXCEPT ![x] = v][x] = v
        /\ \A y \in S \ {x} : [f EXCEPT ![x] = v][y] = f[y]
OBVIOUS

(* The assumptions on the constants, spelled out.                          *)
LEMMA Constants ==
  /\ Unit \in Nat \ {0} /\ 0 \in 0..Unit /\ Unit \in 0..Unit
  /\ Fade \in Nat /\ Blurring \in Nat /\ MaxSize \in Nat
  /\ NoImage \in Pics /\ NoImage \notin Wallpapers /\ Fallback \in Pics /\ Fallback \notin Broken
  /\ \A w \in Wallpapers : Native[w] \in Nat \ {0}
  /\ Opaque \subseteq Wallpapers /\ Broken \subseteq Wallpapers
  /\ Radii \subseteq Nat
BY ScreenAssumption DEF UnitAssumption, Pics

(* A set of naturals that is not empty has a least element.                *)
LEMMA Smallest ==
  \A S \in SUBSET Nat : S # {} => \E m \in S : \A k \in S : m <= k
<1> DEFINE R == OpToRel(<, Nat)
<1>1. IsWellFoundedOn(R, Nat)
  BY NatLessThanWellFounded, Zenon
<1>2. \A x, y \in Nat : <<x, y>> \in R <=> x < y
  BY Zenon DEF OpToRel
<1> HIDE DEF R
<1>. SUFFICES ASSUME NEW S \in SUBSET Nat, S # {}
              PROVE \E m \in S : \A k \in S : m <= k
  OBVIOUS
<1>3. PICK m \in S : \A k \in S : ~(<<k, m>> \in R)
  BY <1>1, WFMin
<1>4. \A k \in S : ~(k < m)
  BY <1>2, <1>3
<1>. QED BY <1>4

(* The largest of some sizes is one of them and no smaller than any.       *)
LEMMA LargestFacts ==
  ASSUME NEW S \in SUBSET Sizes, S # {}
  PROVE Largest(S) \in S /\ \A t \in S : t <= Largest(S)
<1> DEFINE D == {MaxSize - t : t \in S}
<1>1. MaxSize \in Nat /\ \A t \in S : t \in Nat /\ t <= MaxSize
  BY Constants DEF Sizes
<1>2. D \in SUBSET Nat /\ D # {}
  BY <1>1
<1>3. \E d \in D : \A e \in D : d <= e
  <2> HIDE DEF D
  <2>. QED BY <1>2, Smallest, Zenon
<1>4. PICK s \in S : \A e \in D : MaxSize - s <= e
  BY <1>3
<1>5. \A t \in S : MaxSize - t \in D
  OBVIOUS
<1> HIDE DEF D
<1>6. \A t \in S : t <= s
  BY <1>1, <1>4, <1>5
<1>. QED BY <1>6 DEF Largest

(* The size an image is asked for is enough for every output that shows    *)
(* it.                                                                     *)
LEMMA NeededFacts ==
  ASSUME TypeOK, NEW w \in Wanted
  PROVE /\ Needed(w) \in Sizes
        /\ \A o \in Outputs : slot[o].current = w => need[o] <= Needed(w)
<1> DEFINE S == {need[o] : o \in {p \in Outputs : slot[p].current = w}}
<1>1. S \in SUBSET Sizes
  BY DEF TypeOK
<1>2. S # {}
  BY DEF Wanted
<1>3. Needed(w) \in S /\ \A t \in S : t <= Needed(w)
  BY <1>1, <1>2, LargestFacts DEF Needed
<1>. QED BY <1>1, <1>3

(* Types of what a pass asks for, holds and bakes.                         *)
LEMMA CacheTypes ==
  ASSUME TypeOK
  PROVE /\ Accepted \in [Wallpapers -> Sizes \cup {0}]
        /\ Requests \in [Wallpapers -> Sizes \cup {0}]
        /\ \A w \in Wallpapers : texture[w] # 0 => Accepted[w] # 0
<1>1. /\ texture \in [Wallpapers -> Sizes \cup {0}] /\ asked \in [Wallpapers -> Sizes \cup {0}]
      /\ landed \in [Wallpapers -> Sizes \cup {0, -1}]
  BY DEF TypeOK
<1>2. \A w \in Ready : landed[w] \in Sizes
  BY <1>1 DEF Ready
<1>3. Accepted \in [Wallpapers -> Sizes \cup {0}]
  BY <1>1, <1>2 DEF Accepted
<1>4. \A w \in Wanted : Needed(w) \in Sizes
  BY NeededFacts
<1>5. Requests \in [Wallpapers -> Sizes \cup {0}]
  BY <1>1, <1>4 DEF Requests
<1>6. 0 \notin Sizes
  BY DEF Sizes
<1>. QED BY <1>2, <1>3, <1>5, <1>6 DEF Accepted

(* A bake has a size.                                                      *)
LEMMA BakesTypes ==
  ASSUME TypeOK, NEW held \in [Wallpapers -> Sizes \cup {0}]
  PROVE Bakes(held) \in [Keys -> Nat]
<1>1. baked \in [Keys -> Nat]
  BY DEF TypeOK
<1>2. \A k \in Keys : Least(held[k[1]], Native[k[1]]) \in Nat
  BY Constants DEF Keys, Least, Sizes
<1>. QED BY <1>1, <1>2 DEF Bakes

(* The initial states have their types.                                    *)
LEMMA InitType ==
  ASSUME Init
  PROVE TypeOK /\ SlotInv
<1>1. \A v \in {0, Unit} : At(v) \in Animations(Blurring)
  BY Constants, AtFacts
<1>2. Nothing \in Frames
  BY Constants DEF Nothing, Frames
<1>3. NewFlags \in Flags
  BY DEF NewFlags, Flags
<1>4. 0 \in 0..MaxChanges
  BY ScreenAssumption
<1>5. NoEvents \in [ready: SUBSET Wallpapers, failed: SUBSET Wallpapers]
  BY DEF NoEvents
<1>6. blur \in [Outputs -> Animations(Blurring)]
  BY <1>1 DEF Init, Target
<1>. QED BY <1>2, <1>3, <1>4, <1>5, <1>6, EmptySlotFacts, Constants DEF Init, TypeOK, SlotInv

(* What one settle-starting change does to a slot.                         *)
LEMMA SlotChange ==
  ASSUME TypeOK, SlotInv, NEW on \in SUBSET Outputs, NEW w \in Pics, SetWallpaper(on, w)
  PROVE slot' \in [Outputs -> SlotStates] /\ SlotInv'
<1>1. slot \in [Outputs -> SlotStates]
  BY DEF TypeOK
<1> DEFINE chosen(o) == IF o \in on /\ slot[o].current # w
                        THEN SetSlot(slot[o], w, Transition) ELSE slot[o]
<1>2. slot' = [o \in Outputs |-> chosen(o)]
  BY DEF SetWallpaper
<1>3. ASSUME NEW o \in Outputs PROVE chosen(o) \in SlotStates /\ SlotOK(chosen(o))
  <2>1. slot[o] \in SlotStates /\ SlotOK(slot[o])
    BY <1>1 DEF SlotInv
  <2>2. ASSUME slot[o].current # w
        PROVE SetSlot(slot[o], w, Transition) \in SlotStates
              /\ SlotOK(SetSlot(slot[o], w, Transition))
    BY <2>1, <2>2, SetSlotFacts
  <2>. QED BY <2>1, <2>2
<1> HIDE DEF chosen
<1>. QED BY <1>2, <1>3 DEF SlotInv

(* What a failure does to a slot.                                          *)
LEMMA FellBackFacts ==
  ASSUME EventsInv, NEW s \in SlotStates, SlotOK(s)
  PROVE /\ FellBack(s) \in SlotStates /\ SlotOK(FellBack(s))
        /\ FellBack(s).outgoing \in {s.outgoing, s.current, NoImage}
        /\ FellBack(s) # s =>
             /\ s.current \in Broken /\ s.current # NoImage /\ s.current # Fallback
             /\ FellBack(s).current = Fallback
             /\ Fade > 0 /\ Fallback # NoImage => ~Rests(FellBack(s).fade)
<1>1. CASE s.current \in events.failed
  <2>1. s.current \in Broken /\ s.current # NoImage /\ s.current # Fallback
    BY <1>1, Constants DEF EventsInv
  <2>2. FellBack(s) = SetSlot(s, Fallback, Transition)
    BY <1>1 DEF FellBack
  <2>. QED BY <2>1, <2>2, Constants, SetSlotFacts
<1>2. CASE s.current \notin events.failed
  <2>1. FellBack(s) = s
    BY <1>2 DEF FellBack
  <2>. QED BY <2>1
<1>. QED BY <1>1, <1>2

(* A resolve sends a blur to its target, says so, and does not make it     *)
(* jump when it takes time.                                                *)
LEMMA RetargetedFacts ==
  ASSUME TypeOK, NEW o \in Outputs
  PROVE /\ Retargeted(o).is \in Animations(Blurring)
        /\ Retargeted(o).is.to = Target(o)
        /\ blur[o].to # Target(o) => Retargeted(o).move # NoMove
        /\ Blurring > 0 => Value(Retargeted(o).is) = Value(blur[o])
<1>1. blur[o] \in Animations(Blurring) /\ Target(o) \in 0..Unit
  BY Constants DEF TypeOK, Target
<1>. QED BY <1>1, Constants, RetargetFacts DEF Retargeted

(* A layer is of the image asked for, or empty.                            *)
LEMMA LayerType ==
  ASSUME TypeOK, NEW o \in Outputs, NEW w \in Pics
  PROVE /\ Layer(o, w) \in [pic: Pics, size: Nat, source: Nat]
        /\ Layer(o, w).pic \in {w, NoImage}
        /\ Layer(o, w).pic = NoImage => Layer(o, w).size = 0 /\ Layer(o, w).source = 0
<1>1. CASE w = NoImage \/ ~Resident(w)
  BY <1>1, Constants DEF Layer
<1>2. CASE ~(w = NoImage \/ ~Resident(w))
  <2>1. w \in Wallpapers /\ w # NoImage
    BY <1>2 DEF Pics
  <2>2. SizeOf(w) \in Nat
    BY <2>1, Constants DEF TypeOK, SizeOf, Least, Sizes
  <2>3. ASSUME radius[o] # 0 PROVE baked[<<w, radius[o]>>] \in Nat
    BY <2>1, <2>3 DEF TypeOK, Keys
  <2>4. Layer(o, w) = [pic |-> w, size |-> SizeOf(w),
                       source |-> IF radius[o] = 0 THEN 0 ELSE baked[<<w, radius[o]>>]]
    BY <1>2 DEF Layer
  <2>. QED BY <2>1, <2>2, <2>3, <2>4 DEF Pics
<1>. QED BY <1>1, <1>2

(* The layer of what is being left is empty when the crossfade is over.    *)
LEMMA OutgoingType ==
  ASSUME TypeOK, NEW o \in Outputs
  PROVE /\ Outgoing(o) \in [pic: Pics, size: Nat, source: Nat]
        /\ Outgoing(o).pic \in {slot[o].outgoing, NoImage}
        /\ Outgoing(o).pic = NoImage => Outgoing(o).size = 0 /\ Outgoing(o).source = 0
        /\ Rests(slot[o].fade) /\ slot[o].fade.to = Unit => Outgoing(o).pic = NoImage
        /\ Sampled(o) \in {Outgoing(o), Layer(o, NoImage)}
<1>1. slot[o].outgoing \in Pics /\ slot[o].fade \in Animations(Fade)
  BY DEF TypeOK, SlotStates
<1>2. Rests(slot[o].fade) /\ slot[o].fade.to = Unit => Value(slot[o].fade) = Unit
  BY <1>1, Constants, ValueFacts
<1>. QED BY <1>1, <1>2, Constants, LayerType DEF Outgoing, Sampled

(* A composed frame is a frame.                                            *)
LEMMA FrameType ==
  ASSUME TypeOK, NEW o \in Outputs
  PROVE Frame(o) \in Frames
<1> DEFINE now == Layer(o, slot[o].current)
           old == Sampled(o)
<1>1. now \in [pic: Pics, size: Nat, source: Nat]
  BY LayerType DEF TypeOK, SlotStates
<1>2. old \in [pic: Pics, size: Nat, source: Nat]
  BY Constants, OutgoingType, LayerType
<1>3. /\ Value(slot[o].fade) \in 0..Unit /\ Value(slot[o].opacity) \in 0..Unit
      /\ Value(blur[o]) \in 0..Unit
  BY Constants, ValueFacts DEF TypeOK, SlotStates
<1>4. IsOpaque(o) \in BOOLEAN
  BY DEF IsOpaque
<1> HIDE DEF now, old
<1>5. Frame(o) = [pic |-> now.pic, size |-> now.size, source |-> now.source,
        previous |-> old.pic, previousSize |-> old.size, previousSource |-> old.source,
        mix |-> IF old.pic # NoImage THEN Value(slot[o].fade) ELSE Unit,
        blur |-> IF FrameBakes(o) THEN Value(blur[o]) ELSE 0,
        opacity |-> Value(slot[o].opacity),
        opaque |-> IsOpaque(o)]
  BY DEF Frame, now, old
<1>. QED BY <1>1, <1>2, <1>3, <1>4, <1>5, Constants DEF Frames

(* What each operation of the pacing does to the flags.                    *)
LEMMA FlagFacts ==
  ASSUME NEW f \in Flags, NEW settled \in BOOLEAN
  PROVE /\ Dirtied(f) \in Flags /\ Dirtied(f).dirty
        /\ (Dirtied(f).awaiting <=> f.awaiting) /\ (Dirtied(f).running <=> f.running)
        /\ Answered(f) \in Flags /\ ~Answered(f).awaiting
        /\ (Answered(f).dirty <=> f.dirty) /\ (Answered(f).running <=> f.running)
        /\ Submitted(f, settled) \in Flags /\ Submitted(f, settled).awaiting
        /\ ~Submitted(f, settled).dirty /\ (Submitted(f, settled).running <=> ~settled)
BY DEF Flags, Dirtied, Answered, Submitted

(* A surface that shows another image than was presented owes a frame.     *)
LEMMA MarkedFacts ==
  ASSUME TypeOK, NEW o \in Outputs
  PROVE /\ Marked(o) \in Flags
        /\ (Marked(o).awaiting <=> flags[o].awaiting) /\ (Marked(o).running <=> flags[o].running)
        /\ flags[o].dirty => Marked(o).dirty
        /\ presented[o] # slot[o].current => Marked(o).dirty
<1>1. flags[o] \in Flags
  BY DEF TypeOK
<1>. QED BY <1>1, FlagFacts DEF Marked

-----------------------------------------------------------------------------
(* Taking in the decodes keeps the types.                                  *)
LEMMA SyncType ==
  ASSUME TypeOK, Sync
  PROVE TypeOK'
<1>1. texture' \in [Wallpapers -> Sizes \cup {0}]
  BY CacheTypes DEF Sync
<1>2. baked' \in [Keys -> Nat]
  BY <1>1, BakesTypes DEF Sync
<1>3. asked' \in [Wallpapers -> Sizes \cup {0}]
  BY CacheTypes DEF Sync
<1>4. events' \in [ready: SUBSET Wallpapers, failed: SUBSET Wallpapers]
  BY DEF Sync, Ready, Failed
<1>5. failed' \subseteq Wallpapers
  BY DEF Sync, GivenUp, Failed, TypeOK
<1>. QED BY <1>1, <1>2, <1>3, <1>4, <1>5 DEF Sync, TypeOK

(* Placing what decoded keeps the types and the slots.                     *)
LEMMA ConsumeType ==
  ASSUME TypeOK, SlotInv, EventsInv, Consume
  PROVE TypeOK' /\ SlotInv'
<1>1. slot \in [Outputs -> SlotStates]
  BY DEF TypeOK
<1>2. slot' = [o \in Outputs |-> FellBack(slot[o])]
  BY DEF Consume
<1>3. \A o \in Outputs : FellBack(slot[o]) \in SlotStates /\ SlotOK(FellBack(slot[o]))
  BY <1>1, FellBackFacts DEF SlotInv
<1>4. slot' \in [Outputs -> SlotStates] /\ SlotInv'
  BY <1>2, <1>3 DEF SlotInv
<1>5. stale' \in BOOLEAN
  BY DEF Consume, TypeOK, Unresolved
<1>. QED BY <1>4, <1>5 DEF Consume, TypeOK

(* A resolve keeps the types.                                              *)
LEMMA ResolveType ==
  ASSUME TypeOK, Resolve
  PROVE TypeOK'
<1>1. blur' \in [Outputs -> Animations(Blurring)]
  BY RetargetedFacts DEF Resolve, TypeOK
<1>2. flags' \in [Outputs -> Flags]
  BY FlagFacts DEF Resolve, TypeOK
<1>. QED BY <1>1, <1>2 DEF Resolve, TypeOK

(* What a pass does to the flags of one output. *)
LEMMA DrawFlags ==
  ASSUME TypeOK, Draw, NEW o \in Outputs
  PROVE /\ flags'[o] \in Flags
        /\ o \in Drawn =>
             /\ flags'[o].awaiting
             /\ ~flags'[o].dirty
             /\ flags'[o].running <=> ~Settled(o)
        /\ o \notin Drawn =>
             /\ flags'[o].awaiting <=> flags[o].awaiting
             /\ flags'[o].running <=> flags[o].running
             /\ Marked(o).dirty => flags'[o].dirty
<1>1. Settled(o) \in BOOLEAN /\ Marked(o) \in Flags
  BY MarkedFacts DEF Settled, SlotRests, Rests
<1>2. flags'[o] = IF o \in Drawn THEN Submitted(Marked(o), Settled(o))
                  ELSE IF PassOf(o) = "Defer" THEN Dirtied(Marked(o)) ELSE Marked(o)
  BY DEF Draw
<1>3. /\ Marked(o).awaiting <=> flags[o].awaiting
      /\ Marked(o).running <=> flags[o].running
  BY MarkedFacts
<1>4. CASE o \in Drawn
  <2>1. flags'[o] = Submitted(Marked(o), Settled(o))
    BY <1>2, <1>4
  <2>2. /\ Submitted(Marked(o), Settled(o)) \in Flags
        /\ Submitted(Marked(o), Settled(o)).awaiting
        /\ ~Submitted(Marked(o), Settled(o)).dirty
        /\ Submitted(Marked(o), Settled(o)).running <=> ~Settled(o)
    BY <1>1, FlagFacts
  <2>. QED BY <1>4, <2>1, <2>2
<1>5. CASE o \notin Drawn /\ PassOf(o) = "Defer"
  <2>1. flags'[o] = Dirtied(Marked(o))
    BY <1>2, <1>5
  <2>. QED BY <1>1, <1>3, <1>5, <2>1, FlagFacts
<1>6. CASE o \notin Drawn /\ PassOf(o) # "Defer"
  <2>1. flags'[o] = Marked(o)
    BY <1>2, <1>6
  <2>2. flags[o] \in Flags
    BY DEF TypeOK
  <2>. QED BY <1>1, <1>3, <1>6, <2>1, <2>2 DEF Flags
<1>. QED BY <1>4, <1>5, <1>6

(* A drawing pass keeps the types.                                         *)
LEMMA DrawType ==
  ASSUME TypeOK, Draw
  PROVE TypeOK'
<1> DEFINE flagsOf(o) == IF o \in Drawn THEN Submitted(Marked(o), Settled(o))
                         ELSE IF PassOf(o) = "Defer" THEN Dirtied(Marked(o)) ELSE Marked(o)
<1>1. flags' = [o \in Outputs |-> flagsOf(o)]
  BY DEF Draw
<1>2. flags' \in [Outputs -> Flags]
  <2>1. \A o \in Outputs : flags'[o] \in Flags
    BY DrawFlags
  <2>2. \A o \in Outputs : flagsOf(o) \in Flags
    BY <1>1, <2>1
  <2> HIDE DEF flagsOf
  <2>. QED BY <1>1, <2>2
<1>3. frame' \in [Outputs -> Frames]
  <2>1. \A o \in Outputs : Frame(o) \in Frames
    BY FrameType
  <2>. QED BY <2>1 DEF Draw, TypeOK
<1>4. presented' \in [Outputs -> Pics]
  BY DEF Draw, TypeOK, SlotStates
<1>5. events' \in [ready: SUBSET Wallpapers, failed: SUBSET Wallpapers]
  BY DEF Draw, NoEvents
<1>. QED BY <1>2, <1>3, <1>4, <1>5 DEF Draw, TypeOK

(* A frame callback keeps the types and the slots.                         *)
LEMMA FrameDueType ==
  ASSUME TypeOK, SlotInv, NEW o \in Outputs, FrameDue(o)
  PROVE TypeOK' /\ SlotInv'
<1>1. /\ slot \in [Outputs -> SlotStates] /\ SlotOK(slot[o])
      /\ blur \in [Outputs -> Animations(Blurring)] /\ flags \in [Outputs -> Flags]
  BY DEF TypeOK, SlotInv
<1>2. /\ TickSlot(slot[o], 1) \in SlotStates /\ SlotOK(TickSlot(slot[o], 1))
      /\ Ticked(blur[o], 1) \in Animations(Blurring)
      /\ Answered(flags[o]) \in Flags
  BY <1>1, Constants, TickSlotFacts, TickedFacts, FlagFacts
<1>3. /\ slot' = [slot EXCEPT ![o] = TickSlot(slot[o], 1)]
      /\ blur' = [blur EXCEPT ![o] = Ticked(blur[o], 1)]
      /\ flags' = [flags EXCEPT ![o] = Answered(flags[o])]
  BY DEF FrameDue
<1>4. /\ slot' \in [Outputs -> SlotStates] /\ SlotInv'
      /\ blur' \in [Outputs -> Animations(Blurring)] /\ flags' \in [Outputs -> Flags]
  BY <1>1, <1>2, <1>3, Update DEF SlotInv
<1>. QED BY <1>4 DEF FrameDue, TypeOK

(* The changes from outside and the decode thread.                         *)
LEMMA OutsideType ==
  ASSUME TypeOK, NEW o \in Outputs, AskBlur(o) \/ Resize(o) \/ Reload(o)
  PROVE TypeOK'
<1>1. changes \in 0..MaxChanges /\ flags \in [Outputs -> Flags]
      /\ \A p \in Outputs : Dirtied(flags[p]) \in Flags
  BY FlagFacts DEF TypeOK
<1>2. Change => changes' \in 0..MaxChanges
  BY <1>1, ScreenAssumption DEF Change
<1>3. CASE AskBlur(o)
  BY <1>2, <1>3 DEF AskBlur, Change, TypeOK
<1>4. CASE Resize(o)
  <2>1. need' \in [Outputs -> Sizes] /\ flags' \in [Outputs -> Flags]
    BY <1>1, <1>4, Update DEF Resize, TypeOK
  <2>. QED BY <1>2, <1>4, <2>1 DEF Resize, Change, TypeOK
<1>5. CASE Reload(o)
  <2>1. radius' \in [Outputs -> Radii] /\ flags' \in [Outputs -> Flags]
    BY <1>1, <1>5, Update DEF Reload, TypeOK
  <2>. QED BY <1>2, <1>5, <2>1 DEF Reload, Change, TypeOK
<1>. QED BY <1>3, <1>4, <1>5

(* A new wallpaper keeps the types and the slots.                          *)
LEMMA SetWallpaperType ==
  ASSUME TypeOK, SlotInv, NEW on \in SUBSET Outputs, NEW w \in Pics, SetWallpaper(on, w)
  PROVE TypeOK' /\ SlotInv'
<1>1. slot' \in [Outputs -> SlotStates] /\ SlotInv'
  BY SlotChange
<1>2. changes' \in 0..MaxChanges
  BY ScreenAssumption DEF SetWallpaper, Change, TypeOK
<1>. QED BY <1>1, <1>2 DEF SetWallpaper, Change, TypeOK

(* The decode thread keeps the types.                                      *)
LEMMA DecodeType ==
  ASSUME TypeOK, NEW w \in Wallpapers, DecodeLands(w)
  PROVE TypeOK'
<1>1. /\ asked \in [Wallpapers -> Sizes \cup {0}] /\ landed \in [Wallpapers -> Sizes \cup {0, -1}]
      /\ asked[w] \in Sizes \cup {0, -1}
  BY DEF TypeOK
<1>2. /\ asked' = [asked EXCEPT ![w] = 0]
      /\ landed' = [landed EXCEPT ![w] = IF w \in Broken THEN -1 ELSE asked[w]]
  BY DEF DecodeLands
<1>3. asked' \in [Wallpapers -> Sizes \cup {0}] /\ landed' \in [Wallpapers -> Sizes \cup {0, -1}]
  BY <1>1, <1>2
<1>. QED BY <1>3 DEF DecodeLands, TypeOK

-----------------------------------------------------------------------------
(* What every step that starts a settle has in common.                     *)
Woken ==
  /\ phase = "poll" /\ phase' = "sync"
  /\ UNCHANGED <<texture, baked, failed, asked, landed, presented, frame, events>>
  /\ ~stale' => UNCHANGED <<stale, radius, told>>
  /\ \A o \in Outputs :
       /\ blur'[o].to = blur[o].to
       /\ flags'[o].running <=> flags[o].running
       /\ flags[o].dirty => flags'[o].dirty

(* Everything that happens between two settles is of that kind.            *)
LEMMA WokenFacts ==
  ASSUME TypeOK,
         \/ \E w \in Pics : SetWallpaper(Outputs, w) \/ \E o \in Outputs : SetWallpaper({o}, w)
         \/ \E o \in Outputs : AskBlur(o) \/ Resize(o) \/ Reload(o) \/ FrameDue(o)
         \/ NoticedDecode
  PROVE Woken
<1>1. /\ flags \in [Outputs -> Flags] /\ blur \in [Outputs -> Animations(Blurring)]
  BY DEF TypeOK
<1>2. \A o \in Outputs : /\ Dirtied(flags[o]).dirty
                         /\ Dirtied(flags[o]).running <=> flags[o].running
                         /\ Answered(flags[o]).dirty <=> flags[o].dirty
                         /\ Answered(flags[o]).running <=> flags[o].running
  BY <1>1, FlagFacts
<1>3. \A o \in Outputs : Ticked(blur[o], 1).to = blur[o].to
  BY <1>1, Constants, TickedFacts
<1>4. ASSUME NEW on \in SUBSET Outputs, NEW w \in Pics, SetWallpaper(on, w) PROVE Woken
  BY <1>4 DEF SetWallpaper, Change, Woken
<1>5. ASSUME NEW o \in Outputs, AskBlur(o) PROVE Woken
  BY <1>5 DEF AskBlur, Change, Woken
<1>6. ASSUME NEW o \in Outputs, Resize(o) PROVE Woken
  <2>1. flags' = [flags EXCEPT ![o] = Dirtied(flags[o])]
    BY <1>6 DEF Resize
  <2>2. ASSUME NEW p \in Outputs PROVE flags'[p] = IF p = o THEN Dirtied(flags[p]) ELSE flags[p]
    BY <1>1, <2>1
  <2>. QED BY <1>2, <1>6, <2>2 DEF Resize, Change, Woken
<1>7. ASSUME NEW o \in Outputs, Reload(o) PROVE Woken
  <2>1. \A p \in Outputs : flags'[p] = Dirtied(flags[p])
    BY <1>7 DEF Reload
  <2>. QED BY <1>2, <1>7, <2>1 DEF Reload, Change, Woken
<1>8. ASSUME NEW o \in Outputs, FrameDue(o) PROVE Woken
  <2>1. /\ flags' = [flags EXCEPT ![o] = Answered(flags[o])]
        /\ blur' = [blur EXCEPT ![o] = Ticked(blur[o], 1)]
    BY <1>8 DEF FrameDue
  <2>2. ASSUME NEW p \in Outputs
        PROVE /\ flags'[p] = IF p = o THEN Answered(flags[p]) ELSE flags[p]
              /\ blur'[p] = IF p = o THEN Ticked(blur[p], 1) ELSE blur[p]
    BY <1>1, <2>1
  <2>. QED BY <1>2, <1>3, <1>8, <2>2 DEF FrameDue, Woken
<1>9. ASSUME NoticedDecode PROVE Woken
  BY <1>9 DEF NoticedDecode, Woken
<1>. QED BY <1>4, <1>5, <1>6, <1>7, <1>8, <1>9

(* The steps there are.                                                    *)
LEMMA Steps ==
  ASSUME TypeOK, Next
  PROVE \/ Woken
        \/ \E w \in Wallpapers : DecodeLands(w)
        \/ Sync \/ Consume \/ Resolve \/ Draw
<1> USE DEF Next
<1>1. CASE \E w \in Pics : SetWallpaper(Outputs, w) \/ \E o \in Outputs : SetWallpaper({o}, w)
  BY <1>1, WokenFacts
<1>2. CASE \E o \in Outputs : AskBlur(o) \/ Resize(o) \/ Reload(o) \/ FrameDue(o)
  BY <1>2, WokenFacts
<1>3. CASE NoticedDecode
  BY <1>3, WokenFacts
<1>. QED BY <1>1, <1>2, <1>3

(* Every step keeps the types and the slots.                               *)
LEMMA TypeStep ==
  ASSUME TypeOK, SlotInv, EventsInv, Next
  PROVE TypeOK' /\ SlotInv'
<1>1. ASSUME NEW on \in SUBSET Outputs, NEW w \in Pics, SetWallpaper(on, w)
      PROVE TypeOK' /\ SlotInv'
  BY <1>1, SetWallpaperType
<1>2. ASSUME NEW o \in Outputs, AskBlur(o) \/ Resize(o) \/ Reload(o) PROVE TypeOK' /\ SlotInv'
  <2>1. TypeOK'
    BY <1>2, OutsideType
  <2>2. slot' = slot
    BY <1>2 DEF AskBlur, Resize, Reload
  <2>. QED BY <2>1, <2>2 DEF SlotInv
<1>3. ASSUME NEW o \in Outputs, FrameDue(o) PROVE TypeOK' /\ SlotInv'
  BY <1>3, FrameDueType
<1>4. ASSUME NEW w \in Wallpapers, DecodeLands(w) PROVE TypeOK' /\ SlotInv'
  <2>1. TypeOK'
    BY <1>4, DecodeType
  <2>2. slot' = slot
    BY <1>4 DEF DecodeLands
  <2>. QED BY <2>1, <2>2 DEF SlotInv
<1>5. CASE NoticedDecode
  BY <1>5 DEF NoticedDecode, TypeOK, SlotInv
<1>6. CASE Sync
  <2>1. TypeOK'
    BY <1>6, SyncType
  <2>2. slot' = slot
    BY <1>6 DEF Sync
  <2>. QED BY <2>1, <2>2 DEF SlotInv
<1>7. CASE Consume
  BY <1>7, ConsumeType
<1>8. CASE Resolve
  <2>1. TypeOK'
    BY <1>8, ResolveType
  <2>2. slot' = slot
    BY <1>8 DEF Resolve
  <2>. QED BY <2>1, <2>2 DEF SlotInv
<1>9. CASE Draw
  <2>1. TypeOK'
    BY <1>9, DrawType
  <2>2. slot' = slot
    BY <1>9 DEF Draw
  <2>. QED BY <2>1, <2>2 DEF SlotInv
<1>. QED BY <1>1, <1>2, <1>3, <1>4, <1>5, <1>6, <1>7, <1>8, <1>9 DEF Next

(* Every step keeps what is known of the reports.                          *)
LEMMA EventsStep ==
  ASSUME TypeOK, EventsInv, Next
  PROVE EventsInv'
<1>1. CASE Woken
  BY <1>1 DEF Woken, EventsInv
<1>2. ASSUME NEW w \in Wallpapers, DecodeLands(w) PROVE EventsInv'
  <2>1. landed \in [Wallpapers -> Sizes \cup {0, -1}] /\ asked[w] \in Sizes \cup {0}
    BY DEF TypeOK
  <2>2. asked[w] # -1
    BY <2>1 DEF Sizes
  <2>3. landed' = [landed EXCEPT ![w] = IF w \in Broken THEN -1 ELSE asked[w]]
    BY <1>2 DEF DecodeLands
  <2>4. \A x \in Wallpapers : landed'[x] = -1 => x \in Broken
    BY <2>1, <2>2, <2>3 DEF EventsInv
  <2>. QED BY <1>2, <2>4 DEF DecodeLands, EventsInv
<1>3. CASE Sync
  <2>1. events'.failed = Failed /\ \A w \in Wallpapers : landed'[w] = 0
    BY <1>3 DEF Sync
  <2>2. Failed \subseteq Broken
    BY DEF Failed, EventsInv
  <2>. QED BY <1>3, <2>1, <2>2 DEF Sync, EventsInv
<1>4. CASE Consume
  BY <1>4 DEF Consume, EventsInv
<1>5. CASE Resolve
  BY <1>5 DEF Resolve, EventsInv
<1>6. CASE Draw
  BY <1>6 DEF Draw, EventsInv, NoEvents
<1>. QED BY <1>1, <1>2, <1>3, <1>4, <1>5, <1>6, Steps

-----------------------------------------------------------------------------
(* What is resolved, and when.                                             *)
ResolvedInv ==
  /\ ~stale => \A o \in Outputs : blur[o].to = Target(o)
  /\ phase \in {"draw", "poll"} => ~stale

(* What is held.                                                           *)
Held ==
  /\ \A w \in Wallpapers : Resident(w) => w \in InUse
  /\ \A k \in Keys : baked[k] # 0 => k \in Configured
  /\ failed \subseteq InUse

(* It is all that is held once a pass has let go of the rest.              *)
HeldInv == phase = "resolve" \/ (phase \in {"draw", "poll"} /\ events = NoEvents) => Held

(* A blur made from the copy that is held.                                 *)
Fresh(o, w) ==
  radius[o] # 0 /\ w # NoImage /\ Resident(w) => baked[<<w, radius[o]>>] = SizeOf(w)

(* What another output left of an image may have a bake of another size,   *)
(* and an output falls back onto it without asking first.                  *)
Exempt(o) ==
  slot[o].current = Fallback /\ Outputs # {o} /\ (Fade = 0 \/ ~Rests(slot[o].fade))

(* Everything a slot is drawn with is baked from what is held.             *)
FreshSlot(o) == Fresh(o, slot[o].outgoing) /\ (Fresh(o, slot[o].current) \/ Exempt(o))

(* A blur that shows, or is on its way, has been made by the time the      *)
(* frame is composed.                                                      *)
BakedInv ==
  /\ phase \in {"resolve", "resolved"} => \A o \in Outputs : WantsBlur(o) => FreshSlot(o)
  /\ phase = "draw" /\ Blurring > 0 => \A o \in Outputs : Value(blur[o]) > 0 => FreshSlot(o)

(* What is chosen and not held is coming, unless it was given up on.       *)
ComingInv ==
  phase = "poll" \/ (phase \in {"resolve", "draw"} /\ events = NoEvents) =>
    \A o \in Outputs :
      LET w == slot[o].current
      IN w # NoImage /\ ~Resident(w) /\ w \notin failed => asked[w] # 0 \/ landed[w] # 0

(* What a surface that owes nothing has on it.                             *)
Final(o) ==
  LET p == presented[o]
      f == frame[o]
  IN /\ f.pic = p
     /\ p = NoImage => f.previous = NoImage \/ f.opacity = 0
     /\ p # NoImage => /\ f.previous = NoImage /\ f.opacity = Unit
                       /\ MadeInTime(o) => f.blur = blur[o].to
                       /\ f.opaque <=> p \in Opaque

(* Every surface that owes nothing has it.                                 *)
FinalInv == \A o \in Outputs : ~flags[o].dirty /\ ~flags[o].running => Final(o)

(* When the loop sleeps, what does not wait for the compositor owes        *)
(* nothing, or waits for its image.                                        *)
Clean(o) ==
  presented[o] = slot[o].current /\ ~flags[o].dirty /\ ~flags[o].running /\ Settled(o)

(* The loop goes to sleep on nothing else.                                 *)
QuietInv ==
  phase = "poll" => \A o \in Outputs : ~flags[o].awaiting => Clean(o) \/ ~Drawable(o)

(* Every step keeps what is known of the resolves.                         *)
LEMMA ResolvedStep ==
  ASSUME TypeOK, ResolvedInv, Next
  PROVE ResolvedInv'
<1>1. CASE Woken
  BY <1>1 DEF Woken, ResolvedInv, Target
<1>2. ASSUME NEW w \in Wallpapers, DecodeLands(w) PROVE ResolvedInv'
  BY <1>2 DEF DecodeLands, ResolvedInv, Target
<1>3. CASE Sync
  BY <1>3 DEF Sync, ResolvedInv, Target
<1>4. CASE Consume
  BY <1>4 DEF Consume, ResolvedInv, Target
<1>5. CASE Resolve
  <2>1. ASSUME NEW o \in Outputs PROVE blur'[o].to = Target(o)
    <3>1. CASE stale
      BY <1>5, <3>1, RetargetedFacts DEF Resolve
    <3>2. CASE ~stale
      BY <1>5, <3>2 DEF Resolve, ResolvedInv
    <3>. QED BY <3>1, <3>2
  <2>2. \A o \in Outputs : Target(o)' = Target(o)
    BY <1>5 DEF Resolve, Target
  <2>. QED BY <1>5, <2>1, <2>2 DEF Resolve, ResolvedInv
<1>6. CASE Draw
  BY <1>6 DEF Draw, ResolvedInv, Target
<1>. QED BY <1>1, <1>2, <1>3, <1>4, <1>5, <1>6, Steps

(* Every step keeps what is held to what is shown.                         *)
LEMMA HeldStep ==
  ASSUME TypeOK, EventsInv, HeldInv, Next
  PROVE HeldInv'
<1>1. ASSUME UNCHANGED <<slot, radius, texture, baked, failed>>, Held PROVE Held'
  BY <1>1 DEF Held, Resident, InUse, InSlot, Configured, KeysOf
<1>2. CASE Woken
  BY <1>2 DEF Woken, HeldInv
<1>3. ASSUME NEW w \in Wallpapers, DecodeLands(w) PROVE HeldInv'
  BY <1>1, <1>3 DEF DecodeLands, HeldInv
<1>4. CASE Sync
  <2>1. InUse' = InUse /\ Configured' = Configured
    BY <1>4 DEF Sync, InUse, InSlot, Configured, KeysOf
  <2>2. \A w \in Wallpapers : texture'[w] # 0 => w \in InUse
    BY <1>4 DEF Sync
  <2>3. \A k \in Keys : baked'[k] # 0 => k \in Configured
    BY <1>4 DEF Sync, Bakes
  <2>4. failed' \subseteq InUse
    BY <1>4 DEF Sync
  <2>. QED BY <2>1, <2>2, <2>3, <2>4 DEF HeldInv, Held, Resident
<1>5. CASE Consume
  BY <1>5 DEF Consume, HeldInv
<1>6. CASE Resolve
  BY <1>1, <1>6 DEF Resolve, HeldInv, EventsInv
<1>7. CASE Draw
  BY <1>1, <1>7 DEF Draw, HeldInv
<1>. QED BY <1>2, <1>3, <1>4, <1>5, <1>6, <1>7, Steps

(* Every step keeps the bakes in time.                                     *)
LEMMA BakedStep ==
  ASSUME TypeOK, SlotInv, EventsInv, HeldInv, BakedInv, Next
  PROVE BakedInv'
<1>1. ASSUME UNCHANGED <<slot, radius, texture, baked>>, NEW o \in Outputs
      PROVE FreshSlot(o)' <=> FreshSlot(o)
  BY <1>1 DEF FreshSlot, Fresh, Exempt, Resident, SizeOf
<1>2. CASE Woken
  BY <1>2 DEF Woken, BakedInv
<1>3. ASSUME NEW w \in Wallpapers, DecodeLands(w) PROVE BakedInv'
  <2>1. UNCHANGED <<slot, radius, texture, baked, blur, phase>>
    BY <1>3 DEF DecodeLands
  <2>. QED BY <1>1, <2>1 DEF BakedInv, WantsBlur
<1>4. CASE Sync
  <2>1. UNCHANGED <<slot, radius, blur>> /\ baked' = Bakes(texture') /\ phase' = "resolve"
    BY <1>4 DEF Sync
  <2>2. ASSUME NEW o \in Outputs, WantsBlur(o), NEW w \in {slot[o].outgoing, slot[o].current}
        PROVE Fresh(o, w)'
    <3> SUFFICES ASSUME radius[o] # 0, w # NoImage, texture'[w] # 0
                 PROVE baked'[<<w, radius[o]>>] = Least(texture'[w], Native[w])
      BY <2>1 DEF Fresh, Resident, SizeOf
    <3> DEFINE k == <<w, radius[o]>>
    <3>1. w \in InSlot(o)
      BY DEF InSlot
    <3>2. w \in Wallpapers /\ radius[o] \in Radii
      BY DEF TypeOK, SlotStates, Pics
    <3>3. k \in Keys
      BY <3>2 DEF Keys
    <3>4. k \in KeysOf(o)
      BY <3>1 DEF KeysOf
    <3>5. k \in Configured /\ k \in ToBake
      BY <2>2, <3>4 DEF Configured, ToBake
    <3>6. k[1] = w
      OBVIOUS
    <3>. QED BY <2>1, <3>3, <3>5, <3>6 DEF Bakes
  <2>3. \A o \in Outputs : WantsBlur(o) => FreshSlot(o)'
    BY <2>1, <2>2 DEF FreshSlot
  <2>. QED BY <2>1, <2>3 DEF BakedInv, WantsBlur
<1>5. CASE Consume
  <2>1. /\ UNCHANGED <<radius, texture, baked, blur>> /\ phase = "resolve" /\ phase' = "resolved"
        /\ \A o \in Outputs : slot'[o] = FellBack(slot[o])
    BY <1>5 DEF Consume
  <2>2. ASSUME NEW o \in Outputs, FreshSlot(o) PROVE FreshSlot(o)'
    <3> DEFINE s == slot[o]
               t == FellBack(s)
    <3>1. s \in SlotStates /\ SlotOK(s) /\ slot'[o] = t
      BY <2>1 DEF TypeOK, SlotInv
    <3>2. \A w : Fresh(o, w)' <=> Fresh(o, w)
      BY <2>1 DEF Fresh, Resident, SizeOf
    <3> HIDE DEF s, t
    <3>3. CASE t = s
      BY <2>2, <3>1, <3>2, <3>3 DEF FreshSlot, Exempt, s
    <3>4. CASE t # s
      <4>1. /\ t.outgoing \in {s.outgoing, s.current, NoImage} /\ t.current = Fallback
            /\ s.current # Fallback
            /\ Fade > 0 /\ Fallback # NoImage => ~Rests(t.fade)
        BY <3>1, <3>4, FellBackFacts DEF t
      <4>2. Fresh(o, s.outgoing) /\ Fresh(o, s.current)
        BY <2>2, <4>1 DEF FreshSlot, Exempt, s
      <4>3. Fresh(o, t.outgoing)
        BY <4>1, <4>2 DEF Fresh
      <4>4. Fresh(o, Fallback) \/ Exempt(o)'
        <5>1. CASE Fallback = NoImage \/ ~Resident(Fallback)
          BY <5>1 DEF Fresh
        <5>2. CASE Fallback # NoImage /\ Resident(Fallback) /\ Outputs = {o}
          <6>1. Fallback \in Wallpapers
            BY <5>2, Constants DEF Pics
          <6>2. Fallback \in InUse
            BY <2>1, <5>2, <6>1 DEF HeldInv, Held
          <6>3. Fallback \in InSlot(o)
            BY <5>2, <6>2 DEF InUse
          <6>4. Fallback = s.outgoing
            BY <4>1, <6>3 DEF InSlot, s
          <6>. QED BY <4>2, <6>4
        <5>3. CASE Fallback # NoImage /\ Outputs # {o}
          BY <3>1, <4>1, <5>3, Constants DEF Exempt
        <5>. QED BY <5>1, <5>2, <5>3
      <4>. QED BY <3>1, <3>2, <4>1, <4>3, <4>4 DEF FreshSlot
    <3>. QED BY <3>3, <3>4
  <2>. QED BY <2>1, <2>2 DEF BakedInv, WantsBlur
<1>6. CASE Resolve
  <2>1. UNCHANGED <<slot, radius, texture, baked>> /\ phase \in {"resolve", "resolved"} /\ phase' = "draw"
    BY <1>6 DEF Resolve
  <2>2. ASSUME NEW o \in Outputs, Blurring > 0, Value(blur'[o]) > 0 PROVE WantsBlur(o)
    <3>1. Value(blur'[o]) = Value(blur[o])
      BY <1>6, <2>2, RetargetedFacts DEF Resolve
    <3>. QED BY <2>2, <3>1 DEF WantsBlur
  <2>3. ASSUME NEW o \in Outputs, Blurring > 0, Value(blur'[o]) > 0 PROVE FreshSlot(o)'
    <3>1. FreshSlot(o)
      BY <2>1, <2>2, <2>3 DEF BakedInv
    <3>. QED BY <1>1, <2>1, <3>1
  <2>. QED BY <2>1, <2>3 DEF BakedInv
<1>7. CASE Draw
  BY <1>7 DEF Draw, BakedInv
<1>. QED BY <1>2, <1>3, <1>4, <1>5, <1>6, <1>7, Steps

(* Every step keeps what is chosen coming.                                 *)
LEMMA ComingStep ==
  ASSUME TypeOK, EventsInv, ComingInv, Next
  PROVE ComingInv'
<1>1. CASE Woken
  BY <1>1 DEF Woken, ComingInv
<1>2. ASSUME NEW w \in Wallpapers, DecodeLands(w) PROVE ComingInv'
  <2>1. /\ asked \in [Wallpapers -> Sizes \cup {0}] /\ landed \in [Wallpapers -> Sizes \cup {0, -1}]
    BY DEF TypeOK
  <2>2. /\ asked[w] # 0
        /\ asked' = [asked EXCEPT ![w] = 0]
        /\ landed' = [landed EXCEPT ![w] = IF w \in Broken THEN -1 ELSE asked[w]]
        /\ UNCHANGED <<slot, texture, failed, phase, events>>
    BY <1>2 DEF DecodeLands
  <2>3. landed'[w] # 0
    BY <2>1, <2>2
  <2>4. \A x \in Wallpapers : asked[x] # 0 \/ landed[x] # 0 => asked'[x] # 0 \/ landed'[x] # 0
    BY <2>1, <2>2, <2>3
  <2>5. \A o \in Outputs : slot[o].current # NoImage => slot[o].current \in Wallpapers
    BY DEF TypeOK, SlotStates, Pics
  <2>. QED BY <2>2, <2>4, <2>5 DEF ComingInv, Resident
<1>3. CASE Sync
  <2> SUFFICES ASSUME events' = NoEvents, NEW o \in Outputs, slot[o].current # NoImage,
                      texture'[slot[o].current] = 0, slot[o].current \notin failed'
               PROVE asked'[slot[o].current] # 0
    BY <1>3 DEF Sync, ComingInv, Resident
  <2> DEFINE w == slot[o].current
  <2>1. w \in Wallpapers /\ w \in Wanted /\ w \in InUse
    BY DEF TypeOK, SlotStates, Pics, Wanted, InUse, InSlot
  <2>2. w \notin GivenUp
    BY <1>3, <2>1 DEF Sync
  <2> HIDE DEF w
  <2>3. Accepted[w] = 0
    BY <1>3, <2>1 DEF Sync, w
  <2>4. Needed(w) \in Sizes /\ asked[w] \in Sizes \cup {0} /\ Needed(w) > 0
    BY <2>1, NeededFacts DEF TypeOK, Sizes
  <2>5. asked'[w] = IF asked[w] < Needed(w) THEN Needed(w) ELSE asked[w]
    BY <1>3, <2>1, <2>2, <2>3, <2>4 DEF Sync, Requests
  <2>6. asked'[w] # 0
    BY <2>4, <2>5 DEF Sizes
  <2>. QED BY <2>6 DEF w
<1>4. CASE Consume
  BY <1>4 DEF Consume, ComingInv
<1>5. CASE Resolve
  BY <1>5 DEF Resolve, ComingInv, Resident, EventsInv
<1>6. CASE Draw
  BY <1>6 DEF Draw, ComingInv, Resident
<1>. QED BY <1>1, <1>2, <1>3, <1>4, <1>5, <1>6, Steps

(* What a frame is made of, when it is drawn. *)
LEMMA DrawnFrame ==
  ASSUME TypeOK, NEW o \in Outputs, Draw, o \in Drawn
  PROVE /\ frame'[o].pic = slot[o].current
        /\ frame'[o].previous \in {slot[o].outgoing, NoImage}
        /\ Rests(slot[o].fade) /\ slot[o].fade.to = Unit => frame'[o].previous = NoImage
        /\ frame'[o].previous # NoImage => Resident(frame'[o].previous)
        /\ frame'[o].opacity = Value(slot[o].opacity)
        /\ frame'[o].opaque <=> IsOpaque(o)
        /\ frame'[o].blur = IF FrameBakes(o) THEN Value(blur[o]) ELSE 0
        /\ frame'[o].size = Layer(o, slot[o].current).size
        /\ frame'[o].source = Layer(o, slot[o].current).source
        /\ frame'[o].previousSize = Sampled(o).size
        /\ frame'[o].previousSource = Sampled(o).source
        /\ presented'[o] = slot[o].current
<1>1. frame'[o] = Frame(o) /\ presented'[o] = slot[o].current
  BY DEF Draw
<1>2. Layer(o, slot[o].current).pic = slot[o].current
  BY DEF Drawn, Drawable, Layer
<1>3. Layer(o, NoImage).pic = NoImage
  BY DEF Layer
<1>4. Sampled(o).pic \in {slot[o].outgoing, NoImage}
  BY <1>3, OutgoingType
<1>5. Rests(slot[o].fade) /\ slot[o].fade.to = Unit => Sampled(o).pic = NoImage
  BY <1>3, OutgoingType
<1>6. Sampled(o).pic # NoImage => Resident(Sampled(o).pic)
  BY DEF Sampled, Outgoing, Layer
<1>. QED BY <1>1, <1>2, <1>4, <1>5, <1>6 DEF Frame

(* A blur that rests on an output has been made. *)
LEMMA BlurMade ==
  ASSUME TypeOK, SlotInv, BakedInv, phase = "draw", NEW o \in Outputs, MadeInTime(o), Settled(o),
         slot[o].current # NoImage, Resident(slot[o].current), blur[o].to = Target(o),
         blur[o].to # 0
  PROVE FrameBakes(o)
<1> DEFINE w == slot[o].current
           k == <<w, radius[o]>>
<1>1. /\ blur[o] \in Animations(Blurring) /\ blur[o].to \in 0..Unit
      /\ w \in Wallpapers /\ w # NoImage /\ radius[o] \in Radii
  BY DEF TypeOK, Animations, SlotStates, Pics
<1>2. Value(blur[o]) = blur[o].to /\ Value(blur[o]) > 0
  BY <1>1, Constants, ValueFacts DEF Settled
<1>3. radius[o] # 0
  BY DEF Target
<1>4. FreshSlot(o)
  BY <1>2 DEF BakedInv, MadeInTime
<1>5. ~Exempt(o)
  BY <1>1 DEF Exempt, MadeInTime, Settled, SlotRests
<1>6. baked[k] = SizeOf(w)
  BY <1>1, <1>3, <1>4, <1>5 DEF FreshSlot, Fresh
<1>7. SizeOf(w) # 0
  BY <1>1, Constants DEF SizeOf, Least, Resident, TypeOK, Sizes
<1>8. Layer(o, w).pic = w /\ Layer(o, w).source = baked[k]
  BY <1>1, <1>3 DEF Layer
<1>. QED BY <1>1, <1>6, <1>7, <1>8 DEF FrameBakes

(* A surface that owes nothing keeps what it should have on it.            *)
LEMMA FinalStep ==
  ASSUME TypeOK, SlotInv, ResolvedInv, BakedInv, FinalInv, Next
  PROVE FinalInv'
<1>1. ASSUME UNCHANGED <<presented, frame>>, NEW o \in Outputs, blur'[o].to = blur[o].to, Final(o)
      PROVE Final(o)'
  BY <1>1 DEF Final, MadeInTime
<1>2. CASE Woken
  BY <1>1, <1>2 DEF Woken, FinalInv
<1>3. ASSUME NEW w \in Wallpapers, DecodeLands(w) PROVE FinalInv'
  BY <1>1, <1>3 DEF DecodeLands, FinalInv
<1>4. CASE Sync
  BY <1>1, <1>4 DEF Sync, FinalInv
<1>5. CASE Consume
  BY <1>1, <1>5 DEF Consume, FinalInv
<1>6. CASE Resolve
  <2> SUFFICES ASSUME NEW o \in Outputs, ~flags'[o].dirty, ~flags'[o].running PROVE Final(o)'
    BY DEF FinalInv
  <2>1. /\ flags'[o] = IF stale /\ Retargeted(o).move # NoMove THEN Dirtied(flags[o]) ELSE flags[o]
        /\ blur'[o] = IF stale THEN Retargeted(o).is ELSE blur[o]
        /\ UNCHANGED <<presented, frame>>
    BY <1>6 DEF Resolve, TypeOK
  <2>2. ~(stale /\ Retargeted(o).move # NoMove)
    BY <2>1, FlagFacts DEF TypeOK
  <2>3. Final(o)
    BY <2>1, <2>2 DEF FinalInv
  <2>4. blur'[o].to = blur[o].to
    BY <2>1, <2>2, RetargetedFacts
  <2>. QED BY <1>1, <2>1, <2>3, <2>4
<1>7. CASE Draw
  <2> SUFFICES ASSUME NEW o \in Outputs, ~flags'[o].dirty, ~flags'[o].running PROVE Final(o)'
    BY DEF FinalInv
  <2>1. blur' = blur /\ slot' = slot
    BY <1>7 DEF Draw
  <2>2. CASE o \notin Drawn
    <3>1. ~flags[o].dirty /\ ~flags[o].running
      BY <1>7, <2>2, DrawFlags, MarkedFacts
    <3>2. Final(o)
      BY <3>1 DEF FinalInv
    <3>3. frame'[o] = frame[o] /\ presented'[o] = presented[o]
      BY <1>7, <2>2 DEF Draw
    <3>. QED BY <2>1, <3>2, <3>3 DEF Final, MadeInTime
  <2>3. CASE o \in Drawn
    <3> DEFINE s == slot[o]
               p == s.current
    <3>1. Settled(o)
      BY <1>7, <2>3, DrawFlags
    <3>2. s \in SlotStates /\ SlotOK(s) /\ s.opacity \in Animations(Fade) /\ Value(s.opacity) = s.opacity.to
      BY <3>1, Constants, ValueFacts DEF TypeOK, SlotInv, SlotStates, Settled, SlotRests
    <3>3. /\ presented'[o] = p /\ frame'[o].pic = p
          /\ frame'[o].previous \in {s.outgoing, NoImage}
          /\ frame'[o].opacity = s.opacity.to
          /\ frame'[o].opaque <=> IsOpaque(o)
          /\ frame'[o].blur = IF FrameBakes(o) THEN Value(blur[o]) ELSE 0
      BY <1>7, <2>3, <3>2, DrawnFrame
    <3>4. ASSUME p = NoImage PROVE frame'[o].previous = NoImage \/ frame'[o].opacity = 0
      BY <3>2, <3>3, <3>4 DEF SlotOK
    <3>5. ASSUME p # NoImage
          PROVE /\ frame'[o].previous = NoImage /\ frame'[o].opacity = Unit
                /\ frame'[o].opaque <=> p \in Opaque
      <4>1. s.outgoing = NoImage /\ s.opacity.to = Unit
        BY <3>1, <3>2, <3>5 DEF SlotOK, Settled, SlotRests
      <4>2. Resident(p)
        BY <2>3, <3>5 DEF Drawn, Drawable
      <4>3. IsOpaque(o) <=> p \in Opaque
        BY <3>2, <3>5, <4>1, <4>2 DEF IsOpaque, ReadsOpaque
      <4>. QED BY <3>3, <4>1, <4>3
    <3>6. ASSUME p # NoImage, MadeInTime(o) PROVE frame'[o].blur = blur[o].to
      <4>1. phase = "draw" /\ blur[o].to = Target(o)
        BY <1>7 DEF Draw, ResolvedInv
      <4>2. Resident(p)
        BY <2>3, <3>6 DEF Drawn, Drawable
      <4>3. blur[o].to # 0 => FrameBakes(o)
        BY <3>1, <3>6, <4>1, <4>2, BlurMade
      <4>4. Value(blur[o]) = blur[o].to
        BY <3>1, Constants, ValueFacts DEF Settled, TypeOK
      <4>. QED BY <3>3, <4>3, <4>4
    <3> HIDE DEF s, p
    <3>. QED BY <2>1, <3>3, <3>4, <3>5, <3>6 DEF Final, MadeInTime
  <2>. QED BY <2>2, <2>3
<1>. QED BY <1>2, <1>3, <1>4, <1>5, <1>6, <1>7, Steps

(* The loop does not go to sleep with a surface in debt.                   *)
LEMMA QuietStep ==
  ASSUME TypeOK, QuietInv, Next
  PROVE QuietInv'
<1>1. CASE phase' # "poll"
  BY <1>1 DEF QuietInv
<1>2. ASSUME NEW w \in Wallpapers, DecodeLands(w) PROVE QuietInv'
  BY <1>2 DEF DecodeLands, QuietInv, Clean, Settled, Drawable, Resident
<1>3. CASE Draw /\ phase' = "poll"
  <2> SUFFICES ASSUME NEW o \in Outputs, ~flags'[o].awaiting, Drawable(o) PROVE Clean(o)'
    BY <1>3 DEF Draw, QuietInv, Drawable, Resident
  <2>1. o \notin Drawn /\ ~flags[o].awaiting
    BY <1>3, DrawFlags
  <2>2. PassOf(o) = "Skip"
    <3>1. ~Marked(o).awaiting
      BY <2>1, MarkedFacts
    <3>2. PassOf(o) # "Draw"
      BY <2>1 DEF Drawn
    <3>. QED BY <3>1, <3>2 DEF PassOf, Plan
  <2>3. ~Marked(o).dirty /\ ~Marked(o).running /\ Settled(o)
    BY <2>2 DEF PassOf, Plan, Owed
  <2>4. presented[o] = slot[o].current
    BY <2>3, MarkedFacts
  <2>5. flags'[o] = Marked(o)
    BY <1>3, <2>1, <2>2 DEF Draw
  <2>6. presented'[o] = presented[o] /\ UNCHANGED <<slot, blur>>
    BY <1>3, <2>1 DEF Draw
  <2>. QED BY <2>3, <2>4, <2>5, <2>6 DEF Clean, Settled
<1>. QED BY <1>1, <1>2, <1>3, Steps DEF Woken, Sync, Consume, Resolve

(* No step makes a frame claim more than it covers.                        *)
LEMMA OpaqueStep ==
  ASSUME TypeOK, HonestlyOpaque, Next
  PROVE HonestlyOpaque'
<1>1. CASE Draw
  <2> SUFFICES ASSUME NEW o \in Outputs, frame'[o].opaque
               PROVE /\ frame'[o].opacity = Unit
                     /\ frame'[o].pic \in Opaque
                     /\ frame'[o].previous \in Opaque \cup {NoImage}
    BY DEF HonestlyOpaque
  <2>1. CASE o \in Drawn
    <3>1. /\ IsOpaque(o)
          /\ frame'[o].pic = slot[o].current
          /\ frame'[o].previous \in {slot[o].outgoing, NoImage}
          /\ frame'[o].previous # NoImage => Resident(frame'[o].previous)
          /\ frame'[o].opacity = Value(slot[o].opacity)
      BY <1>1, <2>1, DrawnFrame
    <3>2. Resident(slot[o].current)
      BY <2>1, <3>1 DEF Drawn, Drawable, IsOpaque
    <3>. QED BY <3>1, <3>2 DEF IsOpaque, ReadsOpaque
  <2>2. CASE o \notin Drawn
    <3>1. frame'[o] = frame[o]
      BY <1>1, <2>2 DEF Draw
    <3>. QED BY <3>1 DEF HonestlyOpaque
  <2>. QED BY <2>1, <2>2
<1>2. CASE frame' = frame
  BY <1>2 DEF HonestlyOpaque
<1>. QED BY <1>1, <1>2, Steps DEF Woken, DecodeLands, Sync, Consume, Resolve

(* An image that is sampled blurred is sampled from the copy that is held. *)
LEMMA FreshLayer ==
  ASSUME TypeOK, NEW o \in Outputs, NEW w \in Pics, radius[o] # 0, Fresh(o, w)
  PROVE Layer(o, w).source = Layer(o, w).size
<1>1. CASE w = NoImage \/ ~Resident(w)
  BY <1>1 DEF Layer
<1>2. CASE w # NoImage /\ Resident(w)
  BY <1>2 DEF Layer, Fresh
<1>. QED BY <1>1, <1>2

(* No step mixes two sizes in a frame.                                     *)
LEMMA EvenlyStep ==
  ASSUME TypeOK, BakedInv, EvenlyBlurred, Next
  PROVE EvenlyBlurred'
<1>1. CASE Draw
  <2> SUFFICES ASSUME Blurring > 0, NEW o \in Outputs, frame'[o].blur > 0
               PROVE /\ frame'[o].source = frame'[o].size
                        \/ (frame'[o].pic = Fallback /\ Outputs # {o})
                     /\ frame'[o].previousSource = frame'[o].previousSize
    BY DEF EvenlyBlurred
  <2>1. CASE o \notin Drawn
    <3>1. frame'[o] = frame[o]
      BY <1>1, <2>1 DEF Draw
    <3>. QED BY <3>1 DEF EvenlyBlurred
  <2>2. CASE o \in Drawn
    <3>1. /\ frame'[o].pic = slot[o].current
          /\ frame'[o].blur = IF FrameBakes(o) THEN Value(blur[o]) ELSE 0
          /\ frame'[o].size = Layer(o, slot[o].current).size
          /\ frame'[o].source = Layer(o, slot[o].current).source
          /\ frame'[o].previousSize = Sampled(o).size
          /\ frame'[o].previousSource = Sampled(o).source
      BY <1>1, <2>2, DrawnFrame
    <3>2. FrameBakes(o) /\ Value(blur[o]) > 0
      BY <3>1
    <3>3. FreshSlot(o)
      BY <1>1, <3>2 DEF Draw, BakedInv
    <3>4. slot[o].current \in Pics /\ slot[o].outgoing \in Pics /\ NoImage \in Pics
      BY DEF TypeOK, SlotStates, Pics
    <3>5. radius[o] # 0
      BY <3>2, <3>4 DEF FrameBakes, Outgoing, Layer
    <3>6. frame'[o].source = frame'[o].size \/ (frame'[o].pic = Fallback /\ Outputs # {o})
      BY <3>1, <3>3, <3>4, <3>5, FreshLayer DEF FreshSlot, Exempt
    <3>7. Layer(o, NoImage).source = Layer(o, NoImage).size
      BY DEF Layer
    <3>8. Sampled(o) \in {Layer(o, slot[o].outgoing), Layer(o, NoImage)}
      BY DEF Sampled, Outgoing
    <3>9. frame'[o].previousSource = frame'[o].previousSize
      BY <3>1, <3>3, <3>4, <3>5, <3>7, <3>8, FreshLayer DEF FreshSlot
    <3>. QED BY <3>6, <3>9
  <2>. QED BY <2>1, <2>2
<1>2. CASE frame' = frame
  BY <1>2 DEF EvenlyBlurred
<1>. QED BY <1>1, <1>2, Steps DEF Woken, DecodeLands, Sync, Consume, Resolve

-----------------------------------------------------------------------------
(* The inductive invariant.                                                *)
ScreenInv ==
  /\ TypeOK /\ SlotInv /\ EventsInv /\ ResolvedInv /\ HeldInv /\ BakedInv /\ ComingInv
  /\ FinalInv /\ QuietInv /\ HonestlyOpaque /\ EvenlyBlurred

(* It holds at first.                                                      *)
LEMMA InitInv ==
  ASSUME Init
  PROVE ScreenInv
<1>1. TypeOK /\ SlotInv
  BY InitType
<1>2. EventsInv
  BY DEF Init, EventsInv, NoEvents
<1>3. ResolvedInv
  BY DEF Init, ResolvedInv, At
<1>4. HeldInv /\ BakedInv /\ ComingInv /\ QuietInv
  BY DEF Init, HeldInv, BakedInv, ComingInv, QuietInv, NoEvents
<1>5. FinalInv
  BY DEF Init, FinalInv, NewFlags
<1>6. HonestlyOpaque /\ EvenlyBlurred
  BY DEF Init, HonestlyOpaque, EvenlyBlurred, Nothing
<1>. QED BY <1>1, <1>2, <1>3, <1>4, <1>5, <1>6 DEF ScreenInv

(* Every step keeps it.                                                    *)
LEMMA StepInv ==
  ASSUME ScreenInv, [Next]_vars
  PROVE ScreenInv'
<1>1. CASE Next
  <2> USE <1>1 DEF ScreenInv
  <2>1. TypeOK' /\ SlotInv'
    BY TypeStep
  <2>2. EventsInv' /\ ResolvedInv' /\ HeldInv'
    BY EventsStep, ResolvedStep, HeldStep
  <2>3. BakedInv' /\ ComingInv'
    BY BakedStep, ComingStep
  <2>4. FinalInv' /\ QuietInv'
    BY FinalStep, QuietStep
  <2>5. HonestlyOpaque' /\ EvenlyBlurred'
    BY OpaqueStep, EvenlyStep
  <2>. QED BY <2>1, <2>2, <2>3, <2>4, <2>5
<1>2. CASE UNCHANGED vars
  <2> USE <1>2 DEF vars
  <2>1. TypeOK' <=> TypeOK
    BY DEF TypeOK
  <2>2. (SlotInv' <=> SlotInv) /\ (EventsInv' <=> EventsInv)
    BY DEF SlotInv, EventsInv
  <2>3. (ResolvedInv' <=> ResolvedInv) /\ (ComingInv' <=> ComingInv)
    BY DEF ResolvedInv, Target, ComingInv, Resident
  <2>4. HeldInv' <=> HeldInv
    BY DEF HeldInv, Held, Resident, InUse, InSlot, Configured, KeysOf
  <2>5. BakedInv' <=> BakedInv
    BY DEF BakedInv, WantsBlur, FreshSlot, Fresh, Exempt, Resident, SizeOf
  <2>6. FinalInv' <=> FinalInv
    BY DEF FinalInv, Final, MadeInTime
  <2>7. QuietInv' <=> QuietInv
    BY DEF QuietInv, Clean, Settled, Drawable, Resident
  <2>8. (HonestlyOpaque' <=> HonestlyOpaque) /\ (EvenlyBlurred' <=> EvenlyBlurred)
    BY DEF HonestlyOpaque, EvenlyBlurred
  <2>. QED BY <2>1, <2>2, <2>3, <2>4, <2>5, <2>6, <2>7, <2>8 DEF ScreenInv
<1>. QED BY <1>1, <1>2

(* The inductive invariant holds in every reachable state: the slots are   *)
(* in order, a blur is made before it is drawn, what is chosen and not     *)
(* held is on its way from the decode thread, and a surface without a debt *)
(* has its state on it.                                                    *)
THEOREM Safe == Spec => []ScreenInv
<1>1. Init => ScreenInv
  BY InitInv
<1>2. ScreenInv /\ [Next]_vars => ScreenInv'
  BY StepInv
<1>. QED BY <1>1, <1>2, PTL DEF Spec

(* Every variable always has its type.                                     *)
THEOREM Typed == Spec => []TypeOK
<1>1. ScreenInv => TypeOK
  BY DEF ScreenInv
<1>. QED BY <1>1, Safe, PTL

(* `Renderer::draw` never mixes a blurred and a sharp image, or blurs of   *)
(* two sizes, in one frame: `sync` has made the bakes of what the next     *)
(* frame samples, whatever order the decodes and the changes came in.      *)
THEOREM Even == Spec => []EvenlyBlurred
<1>1. ScreenInv => EvenlyBlurred
  BY DEF ScreenInv
<1>. QED BY <1>1, Safe, PTL

(* The opaque region `draw` gives the compositor is claimed only by frames *)
(* in which every image that is sampled, and the opacity, cover what is    *)
(* below, though it is read from the slot, where an image that is not      *)
(* resident counts as covering.                                            *)
THEOREM Honest == Spec => []HonestlyOpaque
<1>1. ScreenInv => HonestlyOpaque
  BY DEF ScreenInv
<1>. QED BY <1>1, Safe, PTL

(* When the loop sleeps, `TextureCache::retain`, `BlurCache::retain` and   *)
(* `Loader::retain` have left nothing that no slot shows.                  *)
THEOREM NothingElseHeld == Spec => []HeldIsShown
<1>1. ScreenInv => HeldIsShown
  BY DEF ScreenInv, EventsInv, HeldInv, Held, HeldIsShown
<1>. QED BY <1>1, Safe, PTL

(* An output at rest shows its state, in every state of the invariant.     *)
LEMMA RestShows ==
  ASSUME ScreenInv
  PROVE ShowsTheState
<1> USE DEF ScreenInv
<1> SUFFICES ASSUME NEW o \in Outputs, AtRest(o), slot[o].current \notin failed
             PROVE /\ Settled(o) /\ Drawable(o)
                   /\ frame[o].pic = slot[o].current
                   /\ slot[o].current = NoImage => frame[o].previous = NoImage \/ frame[o].opacity = 0
                   /\ slot[o].current # NoImage =>
                        /\ frame[o].previous = NoImage
                        /\ frame[o].opacity = Unit
                        /\ MadeInTime(o) => frame[o].blur = Target(o)
                        /\ frame[o].opaque <=> slot[o].current \in Opaque
  BY DEF ShowsTheState
<1>1. phase = "poll" /\ ~flags[o].awaiting /\ \A w \in Wallpapers : asked[w] = 0 /\ landed[w] = 0
  BY DEF AtRest
<1>2. slot[o].current # NoImage => slot[o].current \in Wallpapers
  BY DEF TypeOK, SlotStates, Pics
<1>3. Drawable(o)
  BY <1>1, <1>2 DEF ComingInv, Drawable
<1>4. Clean(o)
  BY <1>1, <1>3 DEF QuietInv
<1>5. Final(o)
  BY <1>4 DEF FinalInv, Clean
<1>6. blur[o].to = Target(o)
  BY <1>1 DEF ResolvedInv
<1>. QED BY <1>3, <1>4, <1>5, <1>6 DEF Final, Clean

(* An output nothing more will be drawn on by itself shows its wallpaper   *)
(* at full, without what it replaced, and with the blur it was resolved    *)
(* to: no order of decodes, answers and changes makes the daemon sleep on  *)
(* an old frame, except where the loader gave up on the wallpaper and a    *)
(* slot has kept it from being tried again.                                *)
THEOREM Shown == Spec => []ShowsTheState
<1>1. ScreenInv => ShowsTheState
  BY RestShows
<1>. QED BY <1>1, Safe, PTL

(* No step drops what is in use.                                           *)
LEMMA StepHolds ==
  ASSUME TypeOK, Next
  PROVE DropsUnused /\ DropsOldBakes
<1>1. CASE Sync
  <2>1. DropsUnused
    <3> SUFFICES ASSUME NEW w \in Wallpapers, texture[w] # 0, texture'[w] = 0, NEW o \in Outputs
                 PROVE w \notin InSlot(o)'
      BY DEF DropsUnused, Resident
    <3>1. w \notin InUse
      BY <1>1, CacheTypes DEF Sync
    <3>. QED BY <1>1, <3>1 DEF Sync, InUse, InSlot
  <2>2. DropsOldBakes
    <3> SUFFICES ASSUME NEW k \in Keys, baked[k] # 0, baked'[k] = 0, k \in Configured
                 PROVE FALSE
      BY <1>1 DEF DropsOldBakes, Sync, Configured, KeysOf, InSlot
    <3>1. baked'[k] = IF k \in ToBake /\ texture'[k[1]] # 0
                      THEN Least(texture'[k[1]], Native[k[1]]) ELSE baked[k]
      BY <1>1 DEF Sync, Bakes
    <3>2. k[1] \in Wallpapers
      BY DEF Keys
    <3>3. texture'[k[1]] \in Sizes \cup {0}
      BY <1>1, <3>2, CacheTypes DEF Sync
    <3>. QED BY <3>1, <3>2, <3>3, Constants DEF Least, Sizes
  <2>. QED BY <2>1, <2>2
<1>2. CASE UNCHANGED <<texture, baked>>
  BY <1>2 DEF DropsUnused, DropsOldBakes, Resident
<1>. QED BY <1>1, <1>2, Steps DEF Woken, DecodeLands, Consume, Resolve, Draw

(* No pass drops a texture while a slot has it, or a bake while its        *)
(* settings are configured.                                                *)
THEOREM Stays == Spec => StaysHeld
<1>1. ScreenInv /\ [Next]_vars => [DropsUnused /\ DropsOldBakes]_vars
  BY StepHolds DEF ScreenInv
<1>. QED BY <1>1, Safe, PTL DEF Spec, StaysHeld
=============================================================================
