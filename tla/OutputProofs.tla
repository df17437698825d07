---------------------------- MODULE OutputProofs ----------------------------
(***************************************************************************)
(* Proofs about Announcing and Crossfade, for any outputs, images,         *)
(* viewports, travels, configurations, transitions and any number of       *)
(* changes.                                                                *)
(***************************************************************************)
EXTENDS Announcing, Crossfade, TLAPS

(* What dividing an integer by a positive one is.                          *)
LEMMA DivDef ==
  ASSUME NEW x \in Int, NEW u \in Nat \ {0}
  PROVE /\ x \div u \in Int
        /\ u * (x \div u) <= x
        /\ x < u * (x \div u) + u
OBVIOUS

(* A quotient lies where the dividend does.                                *)
LEMMA DivBounds ==
  ASSUME NEW x \in Int, NEW a \in Int, NEW b \in Int, NEW u \in Nat \ {0}, a * u <= x, x <= b * u
  PROVE x \div u \in a..b
<1> DEFINE q == x \div u
<1>1. q \in Int /\ u * q <= x /\ x < u * q + u
  BY DivDef
<1> HIDE DEF q
<1>2. ~(q < a)
  <2> SUFFICES ASSUME q < a PROVE FALSE
    OBVIOUS
  <2>1. q + 1 <= a
    BY <1>1
  <2>2. (q + 1) * u <= a * u
    BY <1>1, <2>1
  <2>. QED BY <1>1, <2>2
<1>3. ~(b < q)
  <2> SUFFICES ASSUME b < q PROVE FALSE
    OBVIOUS
  <2>1. b + 1 <= q
    BY <1>1
  <2>2. (b + 1) * u <= q * u
    BY <1>1, <2>1
  <2>. QED BY <1>1, <2>2
<1>4. q \in a..b
  BY <1>1, <1>2, <1>3
<1>. QED BY <1>4 DEF q

(* A product of naturals grows with its factors. *)
LEMMA ProductGrows ==
  ASSUME NEW a \in Nat, NEW b \in Nat, NEW c \in Nat, NEW d \in Nat, a <= b, c <= d
  PROVE a * c \in Nat /\ b * d \in Nat /\ a * c <= b * d
<1>1. a * c <= b * c
  OBVIOUS
<1>2. b * c <= b * d
  OBVIOUS
<1>. QED BY <1>1, <1>2

(* The powers an easing takes are naturals, and grow with what is raised.  *)
LEMMA PowerFacts ==
  ASSUME NEW x \in Nat, NEW y \in Nat, x <= y, NEW n \in {1, 2, 3, 5}
  PROVE Power(x, n) \in Nat /\ Power(y, n) \in Nat /\ Power(x, n) <= Power(y, n)
<1>1. x * x \in Nat /\ y * y \in Nat /\ x * x <= y * y
  BY ProductGrows
<1>2. x * x * x \in Nat /\ y * y * y \in Nat /\ x * x * x <= y * y * y
  BY <1>1, ProductGrows
<1>3. x * x * x * x \in Nat /\ y * y * y * y \in Nat /\ x * x * x * x <= y * y * y * y
  BY <1>2, ProductGrows
<1>4. x * x * x * x * x \in Nat /\ y * y * y * y * y \in Nat
      /\ x * x * x * x * x <= y * y * y * y * y
  BY <1>3, ProductGrows
<1>. QED BY <1>1, <1>2, <1>4 DEF Power

(* A power of what is positive is positive.                                *)
LEMMA PowerPositive ==
  ASSUME NEW x \in Nat \ {0}, NEW n \in {1, 2, 3, 5}
  PROVE Power(x, n) \in Nat \ {0}
<1>1. Power(1, n) = 1
  BY DEF Power
<1>2. 1 <= x /\ x \in Nat
  OBVIOUS
<1>3. Power(x, n) \in Nat /\ Power(1, n) <= Power(x, n)
  BY <1>2, PowerFacts
<1>. QED BY <1>1, <1>3

(* A power of a natural is one.                                            *)
LEMMA PowerNat ==
  ASSUME NEW x \in Nat, NEW n \in {1, 2, 3, 5}
  PROVE Power(x, n) \in Nat
<1>1. x <= x
  OBVIOUS
<1>. QED BY <1>1, PowerFacts

(* The first half of an easing that runs both ways stays below half of its *)
(* end.                                                                    *)
LEMMA HalfPower ==
  ASSUME NEW x \in Nat, NEW d \in Nat, 2 * x <= d, NEW n \in {2, 3}
  PROVE Power(2, n - 1) * Power(x, n) <= Power(d, n)
<1>1. Power(2 * x, n) \in Nat /\ Power(2 * x, n) <= Power(d, n) /\ Power(d, n) \in Nat
  <2>1. 2 * x \in Nat /\ n \in {1, 2, 3, 5}
    OBVIOUS
  <2>. QED BY <2>1, PowerFacts
<1>2. Power(x, n) \in Nat
  BY PowerNat
<1>3. CASE n = 2
  <2>1. Power(2, n - 1) = 2
    BY <1>3 DEF Power
  <2>2. Power(2 * x, n) = 4 * Power(x, n)
    BY <1>3 DEF Power
  <2>. QED BY <1>1, <1>2, <2>1, <2>2
<1>4. CASE n = 3
  <2>1. Power(2, n - 1) = 4
    BY <1>4 DEF Power
  <2>2. Power(2 * x, n) = 8 * Power(x, n)
    BY <1>4 DEF Power
  <2>. QED BY <1>1, <1>2, <2>1, <2>2
<1>. QED BY <1>3, <1>4

(* A part of a whole is between nothing and full.                          *)
LEMMA Portion ==
  ASSUME NEW p \in Nat, NEW w \in Nat \ {0}, p <= w, Unit \in Nat \ {0}
  PROVE (Unit * p) \div w \in 0..Unit
<1>1. 0 * w <= Unit * p /\ Unit * p <= Unit * w
  OBVIOUS
<1>. QED BY <1>1, DivBounds

(* No easing leaves the range of its two ends, whatever the unit and the   *)
(* length.                                                                 *)
LEMMA EvalFacts ==
  ASSUME NEW easing \in Easings, NEW d \in Nat \ {0}, NEW e \in 0..d
  PROVE Eval(easing, e, d) \in 0..Unit
<1> DEFINE left == d - e
<1>1. Unit \in Nat \ {0} /\ left \in Nat /\ left <= d /\ e \in Nat /\ e <= d
  BY AnnouncingAssumption DEF UnitAssumption
<1> HIDE DEF left
<1>2. ASSUME NEW n \in {2, 3, 5}
      PROVE (Unit * (Power(d, n) - Power(left, n))) \div Power(d, n) \in 0..Unit
  <2>1. Power(d, n) \in Nat \ {0}
    BY PowerPositive
  <2>2. Power(left, n) \in Nat /\ Power(left, n) <= Power(d, n)
    BY <1>1, PowerFacts
  <2>3. Power(d, n) - Power(left, n) \in Nat /\ Power(d, n) - Power(left, n) <= Power(d, n)
    BY <2>1, <2>2
  <2>. QED BY <1>1, <2>1, <2>3, Portion
<1>3. ASSUME NEW n \in {2, 3}, NEW x \in Nat, 2 * x <= d
      PROVE (Power(2, n - 1) * Unit * Power(x, n)) \div Power(d, n) \in 0..Unit
  <2>1. Power(d, n) \in Nat \ {0} /\ Power(x, n) \in Nat
    BY PowerPositive, PowerNat
  <2>2. Power(2, n - 1) \in Nat
    BY DEF Power
  <2>3. Power(2, n - 1) * Power(x, n) <= Power(d, n)
    BY <1>3, HalfPower
  <2>4. Power(2, n - 1) * Unit * Power(x, n) = Unit * (Power(2, n - 1) * Power(x, n))
    BY <1>1, <2>1, <2>2
  <2>5. Power(2, n - 1) * Power(x, n) \in Nat
    BY <2>1, <2>2
  <2>. QED BY <1>1, <2>1, <2>3, <2>4, <2>5, Portion
<1>4. (Unit * e) \div d \in 0..Unit
  BY <1>1, Portion
<1>5. ASSUME NEW n \in {2, 3}
      PROVE (IF 2 * e < d THEN (Power(2, n - 1) * Unit * Power(e, n)) \div Power(d, n)
             ELSE Unit - (Power(2, n - 1) * Unit * Power(left, n)) \div Power(d, n)) \in 0..Unit
  <2>1. CASE 2 * e < d
    BY <1>1, <1>3, <2>1
  <2>2. CASE ~(2 * e < d)
    <3>1. 2 * left <= d
      BY <1>1, <2>2 DEF left
    <3>2. (Power(2, n - 1) * Unit * Power(left, n)) \div Power(d, n) \in 0..Unit
      BY <1>1, <1>3, <3>1
    <3>. QED BY <1>1, <2>2, <3>2
  <2>. QED BY <2>1, <2>2
<1>. QED
  BY <1>2, <1>4, <1>5 DEF Eval, Easings, left

(* Every easing starts where it starts from and ends where it heads.       *)
LEMMA EvalEnds ==
  ASSUME NEW easing \in Easings, NEW d \in Nat \ {0}
  PROVE Eval(easing, 0, d) = 0 /\ Eval(easing, d, d) = Unit
<1>1. Unit \in Nat \ {0}
  BY AnnouncingAssumption DEF UnitAssumption
<1>2. ASSUME NEW w \in Nat \ {0} PROVE 0 \div w = 0 /\ (Unit * w) \div w = Unit
  <2>1. 0 \div w \in 0..0
    <3>1. 0 * w <= 0
      OBVIOUS
    <3>. QED BY <3>1, DivBounds
  <2>2. (Unit * w) \div w \in Unit..Unit
    <3>1. Unit * w \in Int /\ Unit * w <= Unit * w
      BY <1>1
    <3>. QED BY <1>1, <3>1, DivBounds
  <2>. QED BY <1>1, <2>1, <2>2
<1>3. ASSUME NEW n \in {2, 3, 5} PROVE Power(d, n) \in Nat \ {0} /\ Power(0, n) = 0
  <2>1. Power(0, n) = 0
    BY DEF Power
  <2>. QED BY <2>1, PowerPositive
<1>4. d - 0 = d /\ d - d = 0 /\ 2 * 0 < d /\ ~(2 * d < d)
  OBVIOUS
<1>5. ASSUME NEW n \in {2, 3, 5}
      PROVE /\ (Unit * (Power(d, n) - Power(d, n))) \div Power(d, n) = 0
            /\ (Unit * (Power(d, n) - Power(0, n))) \div Power(d, n) = Unit
            /\ \A m \in Nat : (m * Power(0, n)) \div Power(d, n) = 0
  <2> DEFINE w == Power(d, n)
  <2>1. w \in Nat \ {0} /\ Power(0, n) = 0
    BY <1>3
  <2> HIDE DEF w
  <2>2. Unit * (w - w) = 0 /\ Unit * (w - 0) = Unit * w /\ \A m \in Nat : m * 0 = 0
    BY <1>1, <2>1
  <2>3. 0 \div w = 0 /\ (Unit * w) \div w = Unit
    BY <1>2, <2>1
  <2>. QED BY <2>1, <2>2, <2>3 DEF w
<1>6. Unit * 0 = 0 /\ 0 \div d = 0 /\ (Unit * d) \div d = Unit /\ Unit - 0 = Unit
  BY <1>1, <1>2
<1>7. CASE easing = "linear"
  BY <1>6, <1>7 DEF Eval
<1>8. CASE easing \in {"out-quad", "out-cubic", "out-quint"}
  BY <1>4, <1>5, <1>8 DEF Eval
<1>9. CASE easing \in {"in-out-quad", "in-out-cubic"}
  <2>1. ASSUME NEW n \in {2, 3}
        PROVE (Power(2, n - 1) * Unit * Power(0, n)) \div Power(d, n) = 0
    <3>1. Power(2, n - 1) * Unit \in Nat
      BY <1>1 DEF Power
    <3>. QED BY <1>5, <3>1
  <2>. QED BY <1>4, <1>6, <1>9, <2>1 DEF Eval
<1>. QED BY <1>7, <1>8, <1>9 DEF Easings

(* The value of an animation lies between the two ends it runs between.    *)
LEMMA ValueBetween ==
  ASSUME NEW lo \in Int, NEW hi \in Int, NEW a, a.from \in lo..hi, a.to \in lo..hi,
         a.elapsed \in Nat, a.tween.duration \in Nat, a.tween.easing \in Easings,
         a.elapsed <= a.tween.duration
  PROVE Value(a) \in lo..hi
<1>1. /\ a.from \in lo..hi /\ a.to \in lo..hi /\ a.elapsed \in Nat
      /\ a.tween.duration \in Nat /\ a.tween.easing \in Easings /\ a.elapsed <= a.tween.duration
  OBVIOUS
<1>2. CASE IsInstant(a.tween)
  BY <1>1, <1>2 DEF Value
<1>3. CASE ~IsInstant(a.tween)
  <2> DEFINE v == Eval(a.tween.easing, a.elapsed, a.tween.duration)
             s == a.to - a.from
             low == IF s < 0 THEN s ELSE 0
             high == IF s < 0 THEN 0 ELSE s
  <2>1. Value(a) = a.from + (s * v) \div Unit
    BY <1>3 DEF Value
  <2>2. v \in 0..Unit
    <3>1. a.tween.duration \in Nat \ {0} /\ a.elapsed \in 0..a.tween.duration
      BY <1>1, <1>3 DEF IsInstant
    <3>. QED BY <1>1, <3>1, EvalFacts
  <2> HIDE DEF v
  <2>3. Unit \in Nat \ {0}
    BY AnnouncingAssumption DEF UnitAssumption
  <2>4. s \in Int /\ v \in Nat /\ v <= Unit /\ s * v \in Int /\ low \in Int /\ high \in Int
    BY <1>1, <2>2, <2>3
  <2>5. low * Unit <= s * v /\ s * v <= high * Unit
    <3>1. CASE s < 0
      <4>1. s * Unit <= s * v
        BY <2>3, <2>4, <3>1
      <4>2. s * v <= 0
        BY <2>4, <3>1
      <4>. QED BY <2>3, <3>1, <4>1, <4>2
    <3>2. CASE s >= 0
      <4>1. s * v <= s * Unit
        BY <2>3, <2>4, <3>2
      <4>2. 0 <= s * v
        BY <2>4, <3>2
      <4>. QED BY <2>3, <2>4, <3>2, <4>1, <4>2
    <3>. QED BY <2>4, <3>1, <3>2
  <2>6. (s * v) \div Unit \in low..high
    <3> DEFINE x == s * v
    <3>1. x \in Int /\ low * Unit <= x /\ x <= high * Unit
      BY <2>4, <2>5
    <3> HIDE DEF x, low, high
    <3>2. x \div Unit \in low..high
      BY <2>3, <2>4, <3>1, DivBounds
    <3>. QED BY <3>2 DEF x
  <2> DEFINE y == (s * v) \div Unit
  <2>7. y \in low..high /\ Value(a) = a.from + y
    BY <2>1, <2>6
  <2> HIDE DEF y
  <2>8. CASE s < 0
    BY <1>1, <2>7, <2>8
  <2>9. CASE ~(s < 0)
    BY <1>1, <2>7, <2>9
  <2>. QED BY <2>8, <2>9
<1>. QED BY <1>2, <1>3

-----------------------------------------------------------------------------
(* The assumptions on the constants, spelled out.                          *)
LEMMA Constants ==
  /\ Unit \in Nat \ {0} /\ NoPic \notin Pics
  /\ MaxShift \in Nat \ {0} /\ MaxChanges \in Nat
  /\ \A t \in Tweens : t \in [duration: Nat, easing: Easings]
  /\ \A c \in Configs : c.tween \in Tweens /\ c.fallback \in Slot /\ c.blur \in BOOLEAN
  /\ Instant \in Tweens /\ Instant.duration = 0
BY AnnouncingAssumption DEF UnitAssumption, Tweens, Instant, Tween, Easings, Slot

(* What an animation is made of.                                           *)
LEMMA MovingFacts ==
  ASSUME NEW values, NEW a \in Moving(values)
  PROVE /\ a.from \in values /\ a.to \in values /\ a.elapsed \in Nat
        /\ a.tween \in Tweens /\ a.tween.duration \in Nat /\ a.tween.easing \in Easings
        /\ a.elapsed <= a.tween.duration
        /\ a = [from |-> a.from, to |-> a.to, elapsed |-> a.elapsed, tween |-> a.tween]
<1>1. a \in [from: values, to: values, elapsed: Nat, tween: Tweens]
      /\ a.elapsed <= a.tween.duration
  BY DEF Moving
<1>. QED BY <1>1, Constants

(* So does one of those that Announcing has.                               *)
LEMMA ValueFacts ==
  ASSUME NEW lo \in Int, NEW hi \in Int, NEW a \in Moving(lo..hi)
  PROVE Value(a) \in lo..hi
<1>1. /\ a.from \in lo..hi /\ a.to \in lo..hi /\ a.elapsed \in Nat
      /\ a.tween.duration \in Nat /\ a.tween.easing \in Easings /\ a.elapsed <= a.tween.duration
  BY MovingFacts
<1> HIDE DEF Moving
<1>. QED BY <1>1, ValueBetween

(* What was placed without moving rests where it was put.                  *)
LEMMA AtFacts ==
  ASSUME NEW values, NEW v \in values
  PROVE At(v) \in Moving(values) /\ At(v).to = v /\ Value(At(v)) = v /\ Rests(At(v))
<1>1. /\ At(v) = [from |-> v, to |-> v, elapsed |-> 0, tween |-> Instant]
      /\ Instant \in Tweens /\ Instant.duration = 0
  BY Constants DEF At
<1>. QED BY <1>1 DEF Moving, Value, IsInstant, Rests

(* A reported move is one.                                                 *)
LEMMA MoveIsOne == \A v, w, t : Move(v, w, t) # NoMove
<1> SUFFICES ASSUME NEW v, NEW w, NEW t, Move(v, w, t) = NoMove PROVE FALSE
  OBVIOUS
<1>1. "from" \in DOMAIN Move(v, w, t) /\ "from" \notin DOMAIN NoMove
  BY DEF Move, NoMove
<1>. QED BY <1>1

(* What a listener makes of a reported move.                               *)
LEMMA FollowsMove ==
  ASSUME NEW k, NEW v, NEW w, NEW t
  PROVE Follows(k, Move(v, w, t)) =
          IF IsInstant(t) THEN At(w) ELSE [from |-> v, to |-> w, elapsed |-> 0, tween |-> t]
BY MoveIsOne DEF Follows, Move

(* A listener that mirrors a value follows what becomes of it; so does one *)
(* that is told of a move, whatever it had.                                *)
Followed(a, r) ==
  \A k : /\ r.move # NoMove => Follows(k, r.move) = r.is
         /\ Mirrors(k, a) => Mirrors(Follows(k, r.move), r.is)

(* A listener follows what it is told of, and what is not reported does    *)
(* not show.                                                               *)
LEMMA FollowedWhenTold ==
  ASSUME NEW a, NEW r, \A k : r.move # NoMove => Follows(k, r.move) = r.is,
         r.move = NoMove => r.is = a \/ (Rests(a) /\ Rests(r.is) /\ Value(r.is) = Value(a))
  PROVE Followed(a, r)
<1> SUFFICES ASSUME NEW k, Mirrors(k, a) PROVE Mirrors(Follows(k, r.move), r.is)
  BY DEF Followed
<1>1. CASE r.move # NoMove
  BY <1>1 DEF Mirrors
<1>2. CASE r.move = NoMove
  <2>1. Follows(k, r.move) = k
    BY <1>2 DEF Follows
  <2>. QED BY <1>2, <2>1 DEF Mirrors
<1>. QED BY <1>1, <1>2

(* A retargeted animation heads for its new target, and a listener follows *)
(* it.                                                                     *)
LEMMA RetargetFacts ==
  ASSUME NEW lo \in Int, NEW hi \in Int, NEW a \in Moving(lo..hi), NEW to \in lo..hi,
         NEW tween \in Tweens
  PROVE /\ Retarget(a, to, tween).is \in Moving(lo..hi)
        /\ Retarget(a, to, tween).is.to = to
        /\ Followed(a, Retarget(a, to, tween))
<1> DEFINE r == Retarget(a, to, tween)
           moving == [from |-> Value(a), to |-> to, elapsed |-> 0, tween |-> tween]
<1>1. Value(a) \in lo..hi /\ tween.duration \in Nat
  BY ValueFacts, Constants
<1>2. CASE a.to = to /\ a.tween.easing = tween.easing
  <2>1. r.is = a /\ r.move = NoMove
    BY <1>2 DEF Retarget
  <2>. QED BY <1>2, <2>1, FollowedWhenTold
<1>3. CASE ~(a.to = to /\ a.tween.easing = tween.easing) /\ (IsInstant(tween) \/ Value(a) = to)
  <2>1. /\ r.is = At(to)
        /\ r.move = IF Value(a) # to \/ ~Rests(a) THEN Move(Value(a), to, Instant) ELSE NoMove
    BY <1>3 DEF Retarget
  <2>2. At(to) \in Moving(lo..hi) /\ At(to).to = to /\ Value(At(to)) = to /\ Rests(At(to))
    BY AtFacts
  <2>3. \A k : r.move # NoMove => Follows(k, r.move) = r.is
    BY <2>1, FollowsMove, Constants DEF IsInstant
  <2>4. r.move = NoMove => Rests(a) /\ Value(a) = to
    BY <2>1, MoveIsOne
  <2> HIDE DEF r
  <2>5. Followed(a, r)
    BY <2>1, <2>2, <2>3, <2>4, FollowedWhenTold
  <2>. QED BY <2>1, <2>2, <2>5 DEF r
<1>4. CASE ~(a.to = to /\ a.tween.easing = tween.easing) /\ ~(IsInstant(tween) \/ Value(a) = to)
  <2>1. r.is = moving /\ r.move = Move(Value(a), to, tween)
    BY <1>4 DEF Retarget
  <2>2. moving \in Moving(lo..hi) /\ moving.to = to
    BY <1>1 DEF Moving
  <2>3. \A k : Follows(k, r.move) = r.is
    BY <1>4, <2>1, FollowsMove
  <2>4. r.move # NoMove
    BY <2>1, MoveIsOne
  <2> HIDE DEF r
  <2>5. Followed(a, r)
    BY <2>3, <2>4, FollowedWhenTold
  <2>. QED BY <2>1, <2>2, <2>5 DEF r
<1>. QED BY <1>2, <1>3, <1>4

(* A placed animation is where it was put, and a listener follows it.      *)
LEMMA PlaceFacts ==
  ASSUME NEW lo \in Int, NEW hi \in Int, NEW a \in Moving(lo..hi), NEW to \in lo..hi
  PROVE Place(a, to).is \in Moving(lo..hi) /\ Followed(a, Place(a, to))
<1> DEFINE r == Place(a, to)
<1>1. CASE Value(a) = to
  <2>1. r.is = a /\ r.move = NoMove
    BY <1>1 DEF Place
  <2>. QED BY <2>1, FollowedWhenTold
<1>2. CASE Value(a) # to
  <2>1. r.is = At(to) /\ r.move = Move(Value(a), to, Instant)
    BY <1>2 DEF Place
  <2>2. \A k : Follows(k, r.move) = r.is
    BY <2>1, FollowsMove, Constants DEF IsInstant
  <2>3. r.move # NoMove
    BY <2>1, MoveIsOne
  <2> HIDE DEF r
  <2>4. Followed(a, r)
    BY <2>2, <2>3, FollowedWhenTold
  <2>. QED BY <2>1, <2>4, AtFacts DEF r
<1>. QED BY <1>1, <1>2

(* What a listener makes of a move has its type.                           *)
LEMMA FollowsType ==
  ASSUME NEW values, NEW a, NEW r, NEW k \in Moving(values), r.is \in Moving(values), Followed(a, r)
  PROVE Follows(k, r.move) \in Moving(values)
<1>1. CASE r.move = NoMove
  BY <1>1 DEF Follows
<1>2. CASE r.move # NoMove
  BY <1>2 DEF Followed
<1>. QED BY <1>1, <1>2

(* Time moves an animation on, does not change where it is going, and      *)
(* leaves one that rests.                                                  *)
LEMMA TickedFacts ==
  ASSUME NEW values, NEW a \in Moving(values)
  PROVE /\ Ticked(a, 1) \in Moving(values) /\ Ticked(a, 1).to = a.to
        /\ Rests(a) => Ticked(a, 1) = a
<1>1. /\ a.from \in values /\ a.to \in values /\ a.elapsed \in Nat
      /\ a.tween \in Tweens /\ a.tween.duration \in Nat
      /\ a.elapsed <= a.tween.duration
      /\ a = [from |-> a.from, to |-> a.to, elapsed |-> a.elapsed, tween |-> a.tween]
  BY MovingFacts
<1>2. CASE Rests(a)
  BY <1>2 DEF Ticked
<1>3. CASE ~Rests(a)
  <2> DEFINE e == IF a.elapsed + 1 < a.tween.duration THEN a.elapsed + 1 ELSE a.tween.duration
  <2>1. Ticked(a, 1) = [a EXCEPT !.elapsed = e]
    BY <1>3 DEF Ticked
  <2>2. e \in Nat /\ e <= a.tween.duration
    BY <1>1
  <2> HIDE DEF e
  <2>3. Ticked(a, 1) = [from |-> a.from, to |-> a.to, elapsed |-> e, tween |-> a.tween]
    BY <1>1, <2>1
  <2>. QED BY <1>1, <1>3, <2>2, <2>3 DEF Moving
<1>. QED BY <1>2, <1>3

-----------------------------------------------------------------------------
(* An output that is gone is neither a state nor a description.            *)
LEMMA GoneFacts == Gone \notin States /\ Gone \notin Known
<1>1. "view" \notin DOMAIN Gone /\ "scroll" \notin DOMAIN Gone
  BY DEF Gone
<1>2. \A s \in States : "view" \in DOMAIN s
  BY DEF States
<1>3. \A k \in Known : "scroll" \in DOMAIN k
  BY DEF Known
<1>. QED BY <1>1, <1>2, <1>3

(* Types of what an output that is there keeps.                            *)
LEMMA OutFacts ==
  ASSUME TypeOK, NEW o \in Present
  PROVE /\ o \in Outputs /\ out[o] \in States
        /\ out[o].pic \in Slot /\ out[o].view \in Views
        /\ out[o].scroll \in Moving(Scrolls) /\ out[o].blur \in Moving(0..Unit)
BY DEF TypeOK, Present, States

(* A listener knows every output that is there, and no other. That it does *)
(* is part of what it mirrors.                                             *)
LEMMA HeardFacts ==
  ASSUME TypeOK, Mirrored, Listening, NEW o \in Outputs
  PROVE /\ heard \in [Outputs -> Known \cup {Gone}]
        /\ o \in Present => heard[o] \in Known
        /\ o \notin Present => heard[o] = Gone
BY DEF TypeOK, Mirrored, Listening, Present

(* A description carries the image, and mirrors every value that rests.    *)
LEMMA DescribedFacts ==
  ASSUME NEW s \in States
  PROVE AsDescribed(s) \in Known /\ AsDescribed(s).pic = s.pic
        /\ \A x \in Properties : Rests(s[x]) => Mirrors(AsDescribed(s)[x], s[x])
<1>1. s.pic \in Slot /\ s.scroll \in Moving(Scrolls) /\ s.blur \in Moving(0..Unit)
  BY DEF States
<1>2. Unit \in Nat
  BY Constants
<1>3. Value(s.scroll) \in Scrolls /\ Value(s.blur) \in 0..Unit
  BY <1>1, <1>2, ValueFacts DEF Scrolls
<1>4. At(Value(s.scroll)) \in Moving(Scrolls) /\ At(Value(s.blur)) \in Moving(0..Unit)
  BY <1>3, AtFacts
<1>5. AsDescribed(s) \in Known /\ AsDescribed(s).pic = s.pic
      /\ AsDescribed(s).scroll = At(Value(s.scroll)) /\ AsDescribed(s).blur = At(Value(s.blur))
  BY <1>1, <1>4 DEF AsDescribed, Known
<1>6. \A v : Rests(At(v)) /\ Value(At(v)) = v
  BY AtFacts
<1>7. \A x \in Properties : AsDescribed(s)[x] = At(Value(s[x]))
  BY <1>5 DEF Properties
<1>. QED BY <1>5, <1>6, <1>7 DEF Mirrors

(* The travel of an output is a distance.                                  *)
LEMMA TravelFacts ==
  ASSUME NEW s, s.of \in {Unmeasured} \cup (Pics \X Views \X {c.crop : c \in Configs})
  PROVE TravelOf(s) \in Nat
<1>1. CASE s.of = Unmeasured
  BY <1>1 DEF TravelOf
<1>2. CASE s.of # Unmeasured
  <2>1. PICK p \in Pics, v \in Views, c \in Configs : s.of = <<p, v, c.crop>>
    BY <1>2
  <2>2. TravelOf(s) = Geometry(p, v, c.crop)
    BY <1>2, <2>1 DEF TravelOf
  <2>. QED BY <2>2, AnnouncingAssumption
<1>. QED BY <1>1, <1>2

(* The cap becomes a share of the travel.                                  *)
LEMMA ShareFacts ==
  ASSUME NEW travel \in Nat
  PROVE Share(travel) \in 0..Unit
<1>1. Unit \in Nat /\ MaxShift \in Nat
  BY Constants
<1>2. CASE travel # 0
  <2> DEFINE q == MaxShift \div travel
  <2>1. q \in Int /\ travel * q <= MaxShift /\ MaxShift < travel * q + travel
    BY <1>1, <1>2, DivDef
  <2> HIDE DEF q
  <2>2. 0 <= q
    <3> SUFFICES ASSUME q < 0 PROVE FALSE
      BY <2>1
    <3>1. q + 1 <= 0
      BY <2>1
    <3>2. travel * (q + 1) <= 0
      BY <2>1, <3>1, <1>2
    <3>3. travel * (q + 1) = travel * q + travel
      BY <2>1
    <3>. QED BY <1>1, <2>1, <3>2, <3>3
  <2>3. Share(travel) = IF q > Unit THEN Unit ELSE q
    BY <1>2 DEF Share, q
  <2>. QED BY <1>1, <2>1, <2>2, <2>3
<1>3. CASE travel = 0
  BY <1>1, <1>3 DEF Share
<1>. QED BY <1>2, <1>3

(* What policy asks for is in the range of its property.                   *)
LEMMA TargetsFacts ==
  ASSUME TypeOK, NEW o \in Outputs, NEW s,
         s.of \in {Unmeasured} \cup (Pics \X Views \X {c.crop : c \in Configs})
  PROVE Targets(o, s).scroll \in Scrolls /\ Targets(o, s).blur \in 0..Unit
<1>1. Share(TravelOf(s)) \in 0..Unit /\ Unit \in Nat
  BY TravelFacts, ShareFacts, Constants
<1>2. driven[o].at \in -1..1
  BY DEF TypeOK
<1>3. driven[o].at * Share(TravelOf(s)) \in Scrolls
  BY <1>1, <1>2 DEF Scrolls
<1>. QED BY <1>1, <1>3 DEF Targets

(* What policy chooses is an image, or none.                               *)
LEMMA ChosenFacts ==
  ASSUME NEW slots \in SlotsOf(Slot), NEW o \in Outputs, NEW cfg \in Configs
  PROVE Chosen(slots, o, cfg) \in Slot
BY Constants DEF Chosen, WallpaperFor, Holds, SlotsOf, Slot

(* An image is measured where it is resident, at the viewport and the crop *)
(* in force.                                                               *)
LEMMA MeasuredFacts ==
  ASSUME NEW s, s.pic \in Slot, s.view \in Views, config \in Configs
  PROVE /\ Measured(s, config) \in {Unmeasured} \cup (Pics \X Views \X {c.crop : c \in Configs})
        /\ Resident(s.pic) <=> Measured(s, config) # Unmeasured
        /\ Resident(s.pic) => Measured(s, config) = <<s.pic, s.view, config.crop>>
BY DEF Measured, Resident, Slot, Unmeasured

(* What is put in the slots and what is forgotten leaves slots.            *)
LEMMA SlotFacts ==
  /\ Empty \in SlotsOf(Slot)
  /\ \A s \in SlotsOf(Slot), at \in Addresses, p \in Slot :
       Put(s, at, p) \in SlotsOf(Slot) /\ Forget(s, p) \in SlotsOf(Slot)
<1>1. NoPic \in Slot
  BY DEF Slot
<1>2. ASSUME NEW s \in SlotsOf(Slot), NEW at \in Addresses, NEW p \in Slot
      PROVE Put(s, at, p) \in SlotsOf(Slot) /\ Forget(s, p) \in SlotsOf(Slot)
  BY <1>1 DEF Put, Forget, SlotsOf, Addresses
<1>. QED BY <1>1, <1>2 DEF Empty, SlotsOf

-----------------------------------------------------------------------------
(* What a travel can have been measured at.                                *)
Ofs == {Unmeasured} \cup (Pics \X Views \X {c.crop : c \in Configs})

(* What an output is when it is resolved: the same image and viewport,     *)
(* measured again when there is something to measure.                      *)
LEMMA SeenFacts ==
  ASSUME TypeOK, NEW o \in Present
  PROVE /\ Seen(o) \in States
        /\ Seen(o).pic = out[o].pic /\ Seen(o).view = out[o].view
        /\ Resident(out[o].pic) => Seen(o).of = <<out[o].pic, out[o].view, config.crop>>
        /\ Aim(o).scroll \in Scrolls /\ Aim(o).blur \in 0..Unit
<1>1. out[o] \in States /\ out[o].pic \in Slot /\ out[o].view \in Views /\ o \in Outputs
      /\ config \in Configs
  BY OutFacts DEF TypeOK
<1> DEFINE m == Measured(out[o], config)
<1>2. /\ m \in Ofs
      /\ Resident(out[o].pic) => m # Unmeasured /\ m = <<out[o].pic, out[o].view, config.crop>>
  BY <1>1, MeasuredFacts DEF Ofs
<1>3. Seen(o) = [out[o] EXCEPT !.of = IF m = Unmeasured THEN out[o].of ELSE m]
  BY <1>1 DEF Seen, States
<1> HIDE DEF m
<1>4. /\ Seen(o) \in States /\ Seen(o).of \in Ofs
      /\ Seen(o).pic = out[o].pic /\ Seen(o).view = out[o].view
      /\ Seen(o).of = IF m = Unmeasured THEN out[o].of ELSE m
  BY <1>1, <1>2, <1>3 DEF States, Ofs
<1>5. Aim(o).scroll \in Scrolls /\ Aim(o).blur \in 0..Unit
  BY <1>1, <1>4, TargetsFacts DEF Aim, Ofs
<1>. QED BY <1>2, <1>4, <1>5

(* A resolve sends every value to its target, and a listener follows each. *)
LEMMA MovedFacts ==
  ASSUME TypeOK, NEW o \in Present
  PROVE /\ Placed(o).is \in Moving(Scrolls) /\ Followed(out[o].scroll, Placed(o))
        /\ Scrolled(o).is \in Moving(Scrolls) /\ Scrolled(o).is.to = Aim(o).scroll
        /\ Followed(Placed(o).is, Scrolled(o))
        /\ Blurred(o).is \in Moving(0..Unit) /\ Blurred(o).is.to = Aim(o).blur
        /\ Followed(out[o].blur, Blurred(o))
<1>1. /\ out[o].scroll \in Moving(Scrolls) /\ out[o].blur \in Moving(0..Unit)
      /\ Aim(o).scroll \in Scrolls /\ Aim(o).blur \in 0..Unit
  BY OutFacts, SeenFacts
<1>2. config.tween \in Tweens /\ Unit \in Nat
  BY Constants DEF TypeOK
<1>3. Scrolls = (-Unit)..Unit /\ -Unit \in Int /\ Unit \in Int /\ 0 \in Int
  BY <1>2 DEF Scrolls
<1>4. Placed(o).is \in Moving(Scrolls) /\ Followed(out[o].scroll, Placed(o))
  <2>1. CASE o \in to_place
    BY <1>1, <1>3, <2>1, PlaceFacts DEF Placed
  <2>2. CASE o \notin to_place
    <3>1. Placed(o).is = out[o].scroll /\ Placed(o).move = NoMove
      BY <2>2 DEF Placed
    <3>2. Followed(out[o].scroll, Placed(o))
      BY <3>1, FollowedWhenTold
    <3>. QED BY <1>1, <3>1, <3>2
  <2>. QED BY <2>1, <2>2
<1>5. /\ Scrolled(o).is \in Moving(Scrolls) /\ Scrolled(o).is.to = Aim(o).scroll
      /\ Followed(Placed(o).is, Scrolled(o))
  <2> DEFINE a == Placed(o).is
             to == Aim(o).scroll
  <2>1. a \in Moving((-Unit)..Unit) /\ to \in (-Unit)..Unit
    BY <1>1, <1>3, <1>4
  <2>2. Scrolled(o) = Retarget(a, to, config.tween)
    BY DEF Scrolled
  <2> HIDE DEF a, to
  <2>3. /\ Retarget(a, to, config.tween).is \in Moving((-Unit)..Unit)
        /\ Retarget(a, to, config.tween).is.to = to
        /\ Followed(a, Retarget(a, to, config.tween))
    BY <1>2, <1>3, <2>1, RetargetFacts
  <2>. QED BY <1>3, <2>2, <2>3 DEF a, to
<1>6. /\ Blurred(o).is \in Moving(0..Unit) /\ Blurred(o).is.to = Aim(o).blur
      /\ Followed(out[o].blur, Blurred(o))
  <2> DEFINE a == out[o].blur
             to == Aim(o).blur
  <2>1. a \in Moving(0..Unit) /\ to \in 0..Unit
    BY <1>1, <1>3
  <2>2. Blurred(o) = Retarget(a, to, config.tween)
    BY DEF Blurred
  <2> HIDE DEF a, to
  <2>3. /\ Retarget(a, to, config.tween).is \in Moving(0..Unit)
        /\ Retarget(a, to, config.tween).is.to = to
        /\ Followed(a, Retarget(a, to, config.tween))
    BY <1>2, <1>3, <2>1, RetargetFacts
  <2>. QED BY <2>2, <2>3 DEF a, to
<1>. QED BY <1>4, <1>5, <1>6

(* A resolved output keeps its image and has its values where they were    *)
(* sent.                                                                   *)
LEMMA ResolvedFacts ==
  ASSUME TypeOK, NEW o \in Present
  PROVE /\ Resolved(o) \in States
        /\ Resolved(o).pic = out[o].pic /\ Resolved(o).view = out[o].view
        /\ Resolved(o).of = Seen(o).of
        /\ Resolved(o).scroll = Scrolled(o).is /\ Resolved(o).blur = Blurred(o).is
BY SeenFacts, MovedFacts DEF Resolved, States

(* What a listener is told of a resolve is enough: a value that is         *)
(* reported or that it mirrored, it mirrors.                               *)
LEMMA ToldFacts ==
  ASSUME TypeOK, NEW o \in Present, heard[o] \in Known
  PROVE /\ Told(o) \in Known /\ Told(o).pic = heard[o].pic
        /\ \A x \in Properties :
             x \in Reported(o) \/ Mirrors(heard[o][x], out[o][x])
               => Mirrors(Told(o)[x], Resolved(o)[x])
<1>1. /\ heard[o].scroll \in Moving(Scrolls) /\ heard[o].blur \in Moving(0..Unit)
  BY DEF Known
<1> DEFINE placed == Follows(heard[o].scroll, Placed(o).move)
           scrolled == Follows(placed, Scrolled(o).move)
           blurred == Follows(heard[o].blur, Blurred(o).move)
<1>2. placed \in Moving(Scrolls)
  BY <1>1, MovedFacts, FollowsType
<1>3. scrolled \in Moving(Scrolls)
  BY <1>2, MovedFacts, FollowsType
<1>4. blurred \in Moving(0..Unit)
  BY <1>1, MovedFacts, FollowsType
<1>5. Told(o) = [heard[o] EXCEPT !.scroll = scrolled, !.blur = blurred]
  BY DEF Told, Known
<1>6. /\ Placed(o).move # NoMove => placed = Placed(o).is
      /\ Mirrors(heard[o].scroll, out[o].scroll) => Mirrors(placed, Placed(o).is)
  BY MovedFacts DEF Followed
<1>7. /\ Scrolled(o).move # NoMove => scrolled = Scrolled(o).is
      /\ Mirrors(placed, Placed(o).is) => Mirrors(scrolled, Scrolled(o).is)
  BY MovedFacts DEF Followed
<1>8. /\ Blurred(o).move # NoMove => blurred = Blurred(o).is
      /\ Mirrors(heard[o].blur, out[o].blur) => Mirrors(blurred, Blurred(o).is)
  BY MovedFacts DEF Followed
<1> HIDE DEF placed, scrolled, blurred
<1>9. /\ Told(o) \in Known /\ Told(o).pic = heard[o].pic
      /\ Told(o).scroll = scrolled /\ Told(o).blur = blurred
  BY <1>3, <1>4, <1>5 DEF Known
<1>10. \A a : Mirrors(a, a)
  BY DEF Mirrors
<1>11. "scroll" \in Reported(o) \/ Mirrors(heard[o].scroll, out[o].scroll)
         => Mirrors(Told(o).scroll, Resolved(o).scroll)
  <2>1. "scroll" \in Reported(o) => Placed(o).move # NoMove \/ Scrolled(o).move # NoMove
    BY DEF Reported
  <2>. QED BY <1>6, <1>7, <1>9, <1>10, <2>1, ResolvedFacts
<1>12. "blur" \in Reported(o) \/ Mirrors(heard[o].blur, out[o].blur)
         => Mirrors(Told(o).blur, Resolved(o).blur)
  <2>1. "blur" \in Reported(o) => Blurred(o).move # NoMove
    BY DEF Reported
  <2>. QED BY <1>8, <1>9, <1>10, <2>1, ResolvedFacts
<1>. QED BY <1>9, <1>11, <1>12 DEF Properties

(* The inductive invariant. That the values have their types needs the     *)
(* travels to be those of the sources, and what a listener keeps has its   *)
(* type only because it mirrors an output.                                 *)
AnnouncingInv == TypeOK /\ SourcesResolved /\ Mirrored

(* A resolve pays what is owed, and reports what changes.                  *)
LEMMA ResolveStep ==
  ASSUME AnnouncingInv, Resolve
  PROVE AnnouncingInv'
<1> USE DEF AnnouncingInv
<1>1. /\ UNCHANGED <<asks, decoded, changes>> /\ stale' = FALSE
      /\ out' = [o \in Outputs |-> IF o \in Present THEN Resolved(o) ELSE Gone]
      /\ to_place' = to_place \ Present
      /\ midway' = {m \in midway : m[2] \notin Reported(m[1])}
  BY DEF Resolve
<1>2. /\ Present' = Present
      /\ \A o \in Present : o \in Outputs /\ out'[o] = Resolved(o) /\ Resolved(o) \in States
      /\ \A o \in Outputs \ Present : out'[o] = Gone
  BY <1>1, ResolvedFacts, GoneFacts DEF Present
<1>3. TypeOK'
  <2>1. out' \in [Outputs -> States \cup {Gone}]
    BY <1>1, <1>2
  <2>2. heard' = Deaf \/ heard' \in [Outputs -> Known \cup {Gone}]
    <3>1. CASE Listening
      <4>1. heard' = [o \in Outputs |-> IF o \in Present THEN Told(o) ELSE Gone]
        BY <3>1 DEF Resolve, Hears
      <4>2. \A o \in Present : Told(o) \in Known
        BY <1>2, <3>1, HeardFacts, ToldFacts
      <4>. QED BY <4>1, <4>2
    <3>2. CASE ~Listening
      BY <3>2 DEF Resolve, Hears
    <3>. QED BY <3>1, <3>2
  <2>3. midway' \subseteq Outputs \X Properties /\ to_place' \subseteq Outputs /\ stale' \in BOOLEAN
    BY <1>1 DEF TypeOK
  <2>. QED BY <1>1, <2>1, <2>2, <2>3 DEF TypeOK, asks
<1>4. SourcesResolved'
  <2>1. \A o \in Present, x \in Properties : out'[o][x].to = Targets(o, out[o])'[x]
    <3> SUFFICES ASSUME NEW o \in Present
                 PROVE \A x \in Properties : Resolved(o)[x].to = Targets(o, out[o])'[x]
      BY <1>2
    <3>1. Targets(o, out[o])' = Aim(o)
      BY <1>1, <1>2, ResolvedFacts DEF Targets, Aim, TravelOf, Blurs, asks
    <3>2. Resolved(o).scroll.to = Aim(o).scroll /\ Resolved(o).blur.to = Aim(o).blur
      BY ResolvedFacts, MovedFacts
    <3>. QED BY <3>1, <3>2 DEF Properties
  <2>2. AimsAtTarget'
    BY <1>2, <2>1 DEF AimsAtTarget
  <2>3. ResolvedAgainstShown'
    BY <1>1, <1>2, ResolvedFacts, SeenFacts DEF ResolvedAgainstShown, Resident, asks
  <2>4. PlacementPending'
    BY <1>1, <1>2 DEF SourcesResolved, PlacementPending
  <2>. QED BY <2>2, <2>3, <2>4 DEF SourcesResolved
<1>5. Mirrored'
  <2> SUFFICES ASSUME Listening', NEW o \in Outputs
               PROVE /\ (heard'[o] = Gone) <=> (out'[o] = Gone)
                     /\ o \in Present' =>
                          /\ heard'[o].pic = out'[o].pic
                          /\ \A x \in Properties : <<o, x>> \in midway'
                                                   \/ Mirrors(heard'[o][x], out'[o][x])
    BY DEF Mirrored, Mirrors, Rests, Value
  <2>1. Listening
    BY DEF Resolve, Hears, Listening
  <2>2. heard' = [p \in Outputs |-> IF p \in Present THEN Told(p) ELSE Gone]
    BY <2>1 DEF Resolve, Hears
  <2>3. CASE o \notin Present
    BY <1>2, <2>2, <2>3
  <2>4. CASE o \in Present
    <3>1. heard[o] \in Known
      BY <2>1, <2>4, HeardFacts
    <3>2. heard'[o] = Told(o) /\ out'[o] = Resolved(o)
      BY <1>2, <2>2, <2>4
    <3>3. heard'[o] # Gone /\ out'[o] # Gone
      BY <1>2, <2>4, <3>1, <3>2, ToldFacts, GoneFacts
    <3>4. heard'[o].pic = out'[o].pic
      BY <2>1, <2>4, <3>1, <3>2, ToldFacts, ResolvedFacts DEF Mirrored
    <3>5. ASSUME NEW x \in Properties, <<o, x>> \notin midway' PROVE Mirrors(heard'[o][x], out'[o][x])
      <4>1. <<o, x>> \notin midway \/ x \in Reported(o)
        BY <1>1, <3>5
      <4>2. x \in Reported(o) \/ Mirrors(heard[o][x], out[o][x])
        BY <2>1, <2>4, <4>1 DEF Mirrored
      <4>. QED BY <2>4, <3>1, <3>2, <4>2, ToldFacts
    <3>. QED BY <3>3, <3>4, <3>5
  <2>. QED BY <2>3, <2>4
<1>. QED BY <1>3, <1>4, <1>5

-----------------------------------------------------------------------------
(* What swapping the images changes of the outputs: the image alone, and a *)
(* resolve is owed when one does.                                          *)
LEMMA SwapFacts ==
  ASSUME TypeOK, NEW slots \in SlotsOf(Slot), NEW cfg \in Configs, NEW unusable \in Slot,
         NEW owed \in BOOLEAN, ResolveWallpapers(slots, cfg, unusable, owed)
  PROVE /\ out' \in [Outputs -> States \cup {Gone}] /\ Present' = Present
        /\ stale' \in BOOLEAN /\ (~stale' => out' = out /\ ~stale /\ ~owed) /\ (stale => stale')
        /\ \A o \in Present : \A x \in Properties : out'[o][x] = out[o][x]
<1> DEFINE pics == Swapped(slots, cfg, unusable)
           swapped == {o \in Present : pics[o] # out[o].pic}
<1>1. pics \in [Outputs -> Slot]
  BY ChosenFacts DEF Swapped, Slot
<1>2. /\ out' = [o \in Outputs |-> IF o \in swapped THEN [out[o] EXCEPT !.pic = pics[o]] ELSE out[o]]
      /\ stale' = (stale \/ swapped # {} \/ owed)
  BY DEF ResolveWallpapers
<1> HIDE DEF pics
<1>3. ASSUME NEW o \in swapped
      PROVE /\ o \in Outputs
            /\ out'[o] \in States
            /\ out'[o].scroll = out[o].scroll /\ out'[o].blur = out[o].blur
  <2>1. o \in Outputs /\ out[o] \in States /\ pics[o] \in Slot
    BY <1>1, OutFacts
  <2>2. out'[o] = [out[o] EXCEPT !.pic = pics[o]]
    BY <1>2, <2>1
  <2>. QED BY <2>1, <2>2 DEF States
<1>4. \A o \in Outputs \ swapped : out'[o] = out[o]
  BY <1>2
<1>5. out' \in [Outputs -> States \cup {Gone}]
  BY <1>2, <1>3, <1>4 DEF TypeOK
<1>6. Present' = Present
  BY <1>3, <1>4, GoneFacts DEF Present
<1>7. \A o \in Present : \A x \in Properties : out'[o][x] = out[o][x]
  BY <1>3, <1>4 DEF Properties, Present
<1>8. ~stale' => out' = out
  BY <1>2 DEF TypeOK
<1>. QED BY <1>2, <1>5, <1>6, <1>7, <1>8 DEF TypeOK

(* A listener is told of every image that is swapped.                      *)
LEMMA SwapHeard ==
  ASSUME TypeOK, Mirrored, NEW slots \in SlotsOf(Slot), NEW cfg \in Configs, NEW unusable \in Slot,
         NEW owed \in BOOLEAN, ResolveWallpapers(slots, cfg, unusable, owed), UNCHANGED midway
  PROVE /\ heard' = Deaf \/ heard' \in [Outputs -> Known \cup {Gone}]
        /\ Mirrored'
<1> DEFINE pics == Swapped(slots, cfg, unusable)
           swapped == {o \in Present : pics[o] # out[o].pic}
<1>1. pics \in [Outputs -> Slot]
  BY ChosenFacts DEF Swapped, Slot
<1>2. /\ out' = [o \in Outputs |-> IF o \in swapped THEN [out[o] EXCEPT !.pic = pics[o]] ELSE out[o]]
      /\ Listening => heard' = [o \in Outputs |-> IF o \in swapped THEN [heard[o] EXCEPT !.pic = pics[o]]
                                                  ELSE heard[o]]
      /\ ~Listening => heard' = Deaf
  BY DEF ResolveWallpapers, Hears
<1> HIDE DEF pics
<1>3. CASE ~Listening
  BY <1>2, <1>3 DEF Mirrored, Listening
<1>4. CASE Listening
  <2>1. ASSUME NEW o \in swapped
        PROVE /\ o \in Outputs /\ o \in Present
              /\ heard'[o] \in Known /\ heard'[o].pic = out'[o].pic
              /\ \A x \in Properties : heard'[o][x] = heard[o][x]
    <3>1. o \in Outputs /\ out[o] \in States /\ pics[o] \in Slot /\ heard[o] \in Known
      BY <1>1, <1>4, OutFacts, HeardFacts
    <3>2. heard'[o] = [heard[o] EXCEPT !.pic = pics[o]] /\ out'[o] = [out[o] EXCEPT !.pic = pics[o]]
      BY <1>2, <1>4, <3>1
    <3>. QED BY <3>1, <3>2 DEF States, Known, Properties
  <2>2. \A o \in Outputs \ swapped : heard'[o] = heard[o] /\ out'[o] = out[o]
    BY <1>2, <1>4
  <2>3. heard' \in [Outputs -> Known \cup {Gone}]
    BY <1>2, <1>4, <2>1, <2>2, HeardFacts
  <2>4. Mirrored'
    <3> SUFFICES ASSUME NEW o \in Outputs
                 PROVE /\ (heard'[o] = Gone) <=> (out'[o] = Gone)
                       /\ o \in Present' =>
                            /\ heard'[o].pic = out'[o].pic
                            /\ \A x \in Properties : <<o, x>> \in midway
                                                     \/ Mirrors(heard'[o][x], out'[o][x])
      BY DEF Mirrored, Mirrors, Rests, Value
    <3>1. Present' = Present /\ \A p \in Present, x \in Properties : out'[p][x] = out[p][x]
      BY SwapFacts
    <3>2. CASE o \in swapped
      <4>1. heard'[o] # Gone /\ out'[o] # Gone
        BY <2>1, <3>1, <3>2, GoneFacts DEF Present
      <4>. QED BY <1>4, <2>1, <3>1, <3>2, <4>1 DEF Mirrored
    <3>3. CASE o \notin swapped
      BY <1>4, <2>2, <3>1, <3>3 DEF Mirrored
    <3>. QED BY <3>2, <3>3
  <2>. QED BY <2>3, <2>4
<1>. QED BY <1>3, <1>4

(* What a listener has to know of the next state.                          *)
LEMMA MirroredNow ==
  ASSUME Listening' => \A o \in Outputs :
           /\ (heard'[o] = Gone) <=> (out'[o] = Gone)
           /\ o \in Present' =>
                /\ heard'[o].pic = out'[o].pic
                /\ \A x \in Properties : \/ <<o, x>> \in midway'
                                         \/ Mirrors(heard'[o][x], out'[o][x])
  PROVE Mirrored'
<1>1. ASSUME NEW o \in Outputs, NEW x \in Properties
      PROVE Mirrors(heard'[o][x], out'[o][x]) = Mirrors(heard[o][x], out[o][x])'
  BY DEF Mirrors, Rests, Value
<1>. QED BY <1>1 DEF Mirrored

(* What leaves the outputs as they are and owes a resolve, or changes      *)
(* nothing policy looks at.                                                *)
LEMMA StillMirrored ==
  ASSUME Mirrored, UNCHANGED <<out, heard, midway>>
  PROVE Mirrored'
<1>1. Listening' = Listening /\ Present' = Present
  BY DEF Listening, Present
<1>. QED BY <1>1, MirroredNow DEF Mirrored

(* Nothing is said of the sources while a resolve is owed.                 *)
LEMMA OwedResolve ==
  ASSUME stale', to_place' \subseteq Present'
  PROVE SourcesResolved'
BY DEF SourcesResolved, AimsAtTarget, ResolvedAgainstShown, PlacementPending

(* A change from outside is counted.                                       *)
LEMMA OutsideFacts ==
  ASSUME TypeOK, Outside
  PROVE changes' \in 0..MaxChanges
<1>1. changes \in 0..MaxChanges
  BY DEF TypeOK
<1>. QED BY <1>1, Constants DEF Outside

(* A new wallpaper keeps the invariant.                                    *)
LEMMA SetWallpaperStep ==
  ASSUME AnnouncingInv, NEW at \in Addresses, NEW pic \in Slot, OnSetWallpaper(at, pic)
  PROVE AnnouncingInv'
<1> USE DEF AnnouncingInv
<1>1. /\ ResolveWallpapers(Put(asked, at, pic), config, NoPic, FALSE)
      /\ asked' = Put(asked, at, pic) /\ changes' \in 0..MaxChanges
      /\ UNCHANGED <<driven, blurs, config, decoded, to_place, midway>>
  BY OutsideFacts DEF OnSetWallpaper
<1>2. Put(asked, at, pic) \in SlotsOf(Slot) /\ config \in Configs /\ NoPic \in Slot
  BY SlotFacts DEF TypeOK, Slot
<1>3. /\ out' \in [Outputs -> States \cup {Gone}] /\ Present' = Present
      /\ stale' \in BOOLEAN /\ (~stale' => out' = out /\ ~stale) /\ (stale => stale')
  BY <1>1, <1>2, SwapFacts
<1>4. (heard' = Deaf \/ heard' \in [Outputs -> Known \cup {Gone}]) /\ Mirrored'
  BY <1>1, <1>2, SwapHeard
<1>5. TypeOK'
  BY <1>1, <1>2, <1>3, <1>4 DEF TypeOK
<1>6. SourcesResolved'
  <2>1. CASE stale'
    BY <1>1, <1>3, <2>1, OwedResolve DEF SourcesResolved, PlacementPending
  <2>2. CASE ~stale'
    BY <1>1, <1>3, <2>2 DEF SourcesResolved, AimsAtTarget, ResolvedAgainstShown, PlacementPending,
       Targets, TravelOf, Blurs, Resident
  <2>. QED BY <2>1, <2>2
<1>. QED BY <1>4, <1>5, <1>6

(* Another configuration keeps it.                                         *)
LEMMA ReloadStep ==
  ASSUME AnnouncingInv, NEW cfg \in Configs, Reload(cfg)
  PROVE AnnouncingInv'
<1> USE DEF AnnouncingInv
<1>1. /\ ResolveWallpapers(asked, cfg, NoPic, TRUE)
      /\ config' = cfg /\ changes' \in 0..MaxChanges
      /\ UNCHANGED <<driven, asked, blurs, decoded, to_place, midway>>
  BY OutsideFacts DEF Reload
<1>2. asked \in SlotsOf(Slot) /\ NoPic \in Slot
  BY DEF TypeOK, Slot
<1>3. /\ out' \in [Outputs -> States \cup {Gone}] /\ Present' = Present
      /\ stale' \in BOOLEAN /\ stale'
  BY <1>1, <1>2, SwapFacts
<1>4. (heard' = Deaf \/ heard' \in [Outputs -> Known \cup {Gone}]) /\ Mirrored'
  BY <1>1, <1>2, SwapHeard
<1>5. TypeOK'
  BY <1>1, <1>2, <1>3, <1>4 DEF TypeOK
<1>6. SourcesResolved'
  BY <1>1, <1>3, OwedResolve DEF SourcesResolved, PlacementPending
<1>. QED BY <1>4, <1>5, <1>6

(* So does an image that does not decode.                                  *)
LEMMA FailedStep ==
  ASSUME AnnouncingInv, NEW pic \in Pics, Failed(pic)
  PROVE AnnouncingInv'
<1> USE DEF AnnouncingInv
<1>1. /\ ResolveWallpapers(Forget(asked, pic), config, pic, FALSE)
      /\ asked' = Forget(asked, pic) /\ changes' \in 0..MaxChanges
      /\ UNCHANGED <<driven, blurs, config, decoded, to_place, midway>>
  BY OutsideFacts DEF Failed
<1>2. Forget(asked, pic) \in SlotsOf(Slot) /\ config \in Configs /\ pic \in Slot
  BY SlotFacts DEF TypeOK, Slot, Addresses
<1>3. /\ out' \in [Outputs -> States \cup {Gone}] /\ Present' = Present
      /\ stale' \in BOOLEAN /\ (~stale' => out' = out /\ ~stale) /\ (stale => stale')
  BY <1>1, <1>2, SwapFacts
<1>4. (heard' = Deaf \/ heard' \in [Outputs -> Known \cup {Gone}]) /\ Mirrored'
  BY <1>1, <1>2, SwapHeard
<1>5. TypeOK'
  BY <1>1, <1>2, <1>3, <1>4 DEF TypeOK
<1>6. SourcesResolved'
  <2>1. CASE stale'
    BY <1>1, <1>3, <2>1, OwedResolve DEF SourcesResolved, PlacementPending
  <2>2. CASE ~stale'
    BY <1>1, <1>3, <2>2 DEF SourcesResolved, AimsAtTarget, ResolvedAgainstShown, PlacementPending,
       Targets, TravelOf, Blurs, Resident
  <2>. QED BY <2>1, <2>2
<1>. QED BY <1>4, <1>5, <1>6

(* So does a focus, a scroll or a blur that is asked for.                  *)
LEMMA SourceStep ==
  ASSUME AnnouncingInv,
         \/ \E o \in Outputs, at \in Positions, on \in BOOLEAN : OnCompositor(o, [at |-> at, blur |-> on])
         \/ \E at \in Addresses, on \in BOOLEAN : OnSetBlur(at, on)
  PROVE AnnouncingInv'
<1> USE DEF AnnouncingInv
<1>1. /\ UNCHANGED <<asked, config, out, decoded, to_place, heard, midway>>
      /\ stale' = TRUE /\ Outside
  BY DEF OnCompositor, OnSetBlur
<1>2. /\ driven' \in [Outputs -> [at: -1..1, blur: BOOLEAN]]
      /\ blurs' \in [all: BOOLEAN, own: [Outputs -> BOOLEAN]]
  <2>1. /\ driven \in [Outputs -> [at: -1..1, blur: BOOLEAN]]
        /\ blurs \in [all: BOOLEAN, own: [Outputs -> BOOLEAN]]
    BY DEF TypeOK
  <2>2. CASE \E o \in Outputs, at \in Positions, on \in BOOLEAN :
               OnCompositor(o, [at |-> at, blur |-> on])
    <3>1. PICK o \in Outputs, at \in Positions, on \in BOOLEAN :
            OnCompositor(o, [at |-> at, blur |-> on])
      BY <2>2
    <3>2. [at |-> at, blur |-> on] \in [at: -1..1, blur: BOOLEAN]
      BY AnnouncingAssumption
    <3>3. driven' = [driven EXCEPT ![o] = [at |-> at, blur |-> on]] /\ blurs' = blurs
      BY <3>1 DEF OnCompositor
    <3>. QED BY <2>1, <3>2, <3>3
  <2>3. CASE \E at \in Addresses, on \in BOOLEAN : OnSetBlur(at, on)
    <3>1. PICK at \in Addresses, on \in BOOLEAN : OnSetBlur(at, on)
      BY <2>3
    <3>2. /\ driven' = driven
          /\ blurs' = IF at = All THEN [all |-> on, own |-> [o \in Outputs |-> FALSE]]
                      ELSE [blurs EXCEPT !.own[at] = on]
      BY <3>1 DEF OnSetBlur
    <3>3. CASE at = All
      BY <2>1, <3>2, <3>3
    <3>4. CASE at # All
      BY <2>1, <3>2, <3>4 DEF Addresses
    <3>. QED BY <3>3, <3>4
  <2>. QED BY <2>2, <2>3
<1>3. TypeOK'
  BY <1>1, <1>2, OutsideFacts DEF TypeOK
<1>4. Mirrored'
  BY <1>1, StillMirrored
<1>5. SourcesResolved'
  BY <1>1, OwedResolve DEF SourcesResolved, PlacementPending, Present
<1>. QED BY <1>3, <1>4, <1>5

(* So does an image that arrives, and one that is let go of.               *)
LEMMA TextureStep ==
  ASSUME AnnouncingInv, NEW pic \in Pics, Landed(pic) \/ Released(pic)
  PROVE AnnouncingInv'
<1> USE DEF AnnouncingInv
<1>1. UNCHANGED <<asks, out, heard, midway, changes>>
  BY DEF Landed, Released
<1>2. /\ decoded' \in [Pics -> SUBSET Views] /\ stale' \in BOOLEAN
      /\ to_place' \subseteq Present /\ (to_place' # {} => stale')
      /\ \A p \in Pics \ {pic} : decoded'[p] = decoded[p]
  <2>1. /\ decoded \in [Pics -> SUBSET Views] /\ stale \in BOOLEAN
        /\ to_place \subseteq Present /\ (to_place # {} => stale)
    BY DEF TypeOK, SourcesResolved, PlacementPending
  <2>2. CASE Landed(pic)
    <3>1. PICK view \in Views : /\ decoded' = [decoded EXCEPT ![pic] = @ \cup {view}]
                               /\ to_place' = to_place \cup Showing(pic)
                               /\ stale' = (stale \/ Showing(pic) # {})
      BY <2>2 DEF Landed
    <3>2. Showing(pic) \subseteq Present
      BY DEF Showing
    <3>. QED BY <2>1, <3>1, <3>2
  <2>3. CASE Released(pic)
    BY <2>1, <2>3 DEF Released
  <2>. QED BY <2>2, <2>3
<1>3. TypeOK'
  BY <1>1, <1>2 DEF TypeOK, asks, Present
<1>4. Mirrored'
  BY <1>1, StillMirrored
<1>5. ~stale' => ~stale /\ Showing(pic) = {}
  BY DEF Landed, Released, TypeOK
<1>6. AimsAtTarget'
  BY <1>1, <1>5 DEF SourcesResolved, AimsAtTarget, Targets, TravelOf, Blurs, asks, Present
<1>7. ResolvedAgainstShown'
  BY <1>1, <1>2, <1>5 DEF SourcesResolved, ResolvedAgainstShown, Resident, asks, Present, Showing
<1>8. PlacementPending'
  BY <1>1, <1>2 DEF PlacementPending, Present
<1>. QED BY <1>3, <1>4, <1>6, <1>7, <1>8 DEF SourcesResolved

(* Time moves both values of an output on, and nothing else of it.         *)
LEMMA AdvancedFacts ==
  ASSUME NEW k, k.scroll \in Moving(Scrolls), k.blur \in Moving(0..Unit)
  PROVE /\ k \in States => Advanced(k) \in States /\ Advanced(k).of = k.of
                           /\ Advanced(k).pic = k.pic /\ Advanced(k).view = k.view
        /\ k \in Known => Advanced(k) \in Known /\ Advanced(k).pic = k.pic
        /\ k \in States \cup Known => Advanced(k).scroll = Ticked(k.scroll, 1)
                                      /\ Advanced(k).blur = Ticked(k.blur, 1)
<1>1. Ticked(k.scroll, 1) \in Moving(Scrolls) /\ Ticked(k.blur, 1) \in Moving(0..Unit)
  BY TickedFacts
<1>2. CASE k \in States
  <2>1. Advanced(k) = [k EXCEPT !.scroll = Ticked(k.scroll, 1), !.blur = Ticked(k.blur, 1)]
    BY <1>2 DEF Advanced, States
  <2>2. k \notin Known \/ k \in Known
    OBVIOUS
  <2>. QED BY <1>1, <1>2, <2>1 DEF States, Known
<1>3. CASE k \in Known
  <2>1. Advanced(k) = [k EXCEPT !.scroll = Ticked(k.scroll, 1), !.blur = Ticked(k.blur, 1)]
    BY <1>3 DEF Advanced, Known
  <2>. QED BY <1>1, <1>3, <2>1 DEF States, Known
<1>. QED BY <1>2, <1>3

(* A listener that runs the curve it was told stays with the output.       *)
LEMMA TickMirrors ==
  ASSUME NEW values, NEW k \in Moving(values), NEW a \in Moving(values), Mirrors(k, a)
  PROVE Mirrors(Ticked(k, 1), Ticked(a, 1))
BY TickedFacts DEF Mirrors

(* A tick keeps the invariant.                                             *)
LEMMA TickStep ==
  ASSUME AnnouncingInv, NEW o \in Outputs, Tick(o)
  PROVE AnnouncingInv'
<1> USE DEF AnnouncingInv
<1>1. /\ o \in Present /\ UNCHANGED <<asks, decoded, to_place, stale, midway, changes>>
      /\ out' = [out EXCEPT ![o] = Advanced(out[o])]
      /\ Listening => heard' = [p \in Outputs |-> IF p = o THEN Advanced(heard[o]) ELSE heard[p]]
      /\ ~Listening => heard' = Deaf
  <2>1. Listening => heard \in [Outputs -> Known \cup {Gone}]
    BY HeardFacts
  <2>. QED BY <2>1 DEF Tick, Hears
<1>2. /\ out[o] \in States /\ out[o].scroll \in Moving(Scrolls) /\ out[o].blur \in Moving(0..Unit)
  BY <1>1, OutFacts
<1>3. /\ out'[o] = Advanced(out[o])
      /\ out'[o] \in States /\ out'[o].of = out[o].of
      /\ out'[o].pic = out[o].pic /\ out'[o].view = out[o].view
      /\ out'[o].scroll = Ticked(out[o].scroll, 1) /\ out'[o].blur = Ticked(out[o].blur, 1)
  BY <1>1, <1>2, AdvancedFacts DEF TypeOK
<1>4. out' \in [Outputs -> States \cup {Gone}] /\ \A p \in Outputs \ {o} : out'[p] = out[p]
  BY <1>1, <1>3 DEF TypeOK
<1>5. Present' = Present
  BY <1>1, <1>3, <1>4, GoneFacts DEF Present
<1>6. Listening => /\ heard[o] \in Known /\ heard[o].scroll \in Moving(Scrolls)
                   /\ heard[o].blur \in Moving(0..Unit)
                   /\ heard'[o] \in Known /\ heard'[o].pic = heard[o].pic
                   /\ heard'[o].scroll = Ticked(heard[o].scroll, 1)
                   /\ heard'[o].blur = Ticked(heard[o].blur, 1)
  <2> SUFFICES ASSUME Listening
               PROVE /\ heard[o] \in Known /\ heard[o].scroll \in Moving(Scrolls)
                     /\ heard[o].blur \in Moving(0..Unit)
                     /\ heard'[o] \in Known /\ heard'[o].pic = heard[o].pic
                     /\ heard'[o].scroll = Ticked(heard[o].scroll, 1)
                     /\ heard'[o].blur = Ticked(heard[o].blur, 1)
    OBVIOUS
  <2>1. heard[o] \in Known
    BY <1>1, HeardFacts
  <2>2. heard[o].scroll \in Moving(Scrolls) /\ heard[o].blur \in Moving(0..Unit)
    BY <2>1 DEF Known
  <2>3. heard'[o] = Advanced(heard[o])
    BY <1>1
  <2>. QED BY <2>1, <2>2, <2>3, AdvancedFacts
<1>7. Listening => /\ heard' \in [Outputs -> Known \cup {Gone}]
                   /\ \A p \in Outputs \ {o} : heard'[p] = heard[p]
  BY <1>1, <1>6, HeardFacts
<1>8. TypeOK'
  BY <1>1, <1>4, <1>7 DEF TypeOK, asks
<1>9. SourcesResolved'
  <2>1. \A p \in Present : /\ out'[p].of = out[p].of /\ out'[p].pic = out[p].pic
                           /\ out'[p].view = out[p].view
                           /\ out'[p].scroll.to = out[p].scroll.to
                           /\ out'[p].blur.to = out[p].blur.to
    BY <1>2, <1>3, <1>4, TickedFacts DEF Present
  <2>2. AimsAtTarget'
    BY <1>1, <1>5, <2>1 DEF SourcesResolved, AimsAtTarget, Targets, TravelOf, Blurs, asks, Properties
  <2>3. ResolvedAgainstShown'
    BY <1>1, <1>5, <2>1 DEF SourcesResolved, ResolvedAgainstShown, Resident, asks
  <2>4. PlacementPending'
    BY <1>1, <1>5 DEF SourcesResolved, PlacementPending
  <2>. QED BY <2>2, <2>3, <2>4 DEF SourcesResolved
<1>10. Mirrored'
  <2> SUFFICES ASSUME Listening', NEW p \in Outputs
               PROVE /\ (heard'[p] = Gone) <=> (out'[p] = Gone)
                     /\ p \in Present' =>
                          /\ heard'[p].pic = out'[p].pic
                          /\ \A x \in Properties : <<p, x>> \in midway
                                                   \/ Mirrors(heard'[p][x], out'[p][x])
    BY <1>1 DEF Mirrored, Mirrors, Rests, Value
  <2>1. Listening
    BY <1>1 DEF Listening
  <2>2. CASE p = o
    <3>1. heard'[o] # Gone /\ out'[o] # Gone /\ heard'[o].pic = out'[o].pic
      BY <1>1, <1>3, <1>6, <2>1, GoneFacts DEF Mirrored
    <3>2. Mirrors(heard[o].scroll, out[o].scroll) => Mirrors(heard'[o].scroll, out'[o].scroll)
      BY <1>2, <1>3, <1>6, <2>1, TickMirrors
    <3>3. Mirrors(heard[o].blur, out[o].blur) => Mirrors(heard'[o].blur, out'[o].blur)
      BY <1>2, <1>3, <1>6, <2>1, TickMirrors
    <3>4. \A x \in Properties : <<o, x>> \in midway \/ Mirrors(heard[o][x], out[o][x])
      BY <1>1, <2>1 DEF Mirrored
    <3>. QED BY <2>2, <3>1, <3>2, <3>3, <3>4 DEF Properties
  <2>3. CASE p # o
    BY <1>4, <1>5, <1>7, <2>1, <2>3 DEF Mirrored
  <2>. QED BY <2>2, <2>3
<1>. QED BY <1>8, <1>9, <1>10

(* So does an output that appears.                                         *)
LEMMA ReadyStep ==
  ASSUME AnnouncingInv, NEW o \in Outputs, NEW view \in Views, OutputReady(o, view)
  PROVE AnnouncingInv'
<1> USE DEF AnnouncingInv
<1> DEFINE pic == Chosen(asked, o, config)
           m == Measured([pic |-> pic, view |-> view], config)
           new == [pic |-> pic, view |-> view, of |-> m]
           t == Targets(o, new)
           state == [pic |-> pic, view |-> view, of |-> m, scroll |-> At(t.scroll), blur |-> At(t.blur)]
<1>1. /\ o \notin Present /\ Outside
      /\ out' = [out EXCEPT ![o] = state]
      /\ Listening => heard' = [p \in Outputs |-> IF p = o THEN AsDescribed(state) ELSE heard[p]]
      /\ ~Listening => heard' = Deaf
      /\ UNCHANGED <<asks, decoded, to_place, stale, midway>>
  <2>1. Listening => heard \in [Outputs -> Known \cup {Gone}]
    BY HeardFacts
  <2>. QED BY <2>1 DEF OutputReady, Hears
<1>2. pic \in Slot /\ config \in Configs
  BY ChosenFacts DEF TypeOK
<1>3. /\ m \in Ofs
      /\ Resident(pic) => m = <<pic, view, config.crop>>
  BY <1>2, MeasuredFacts DEF Ofs
<1> HIDE DEF pic, m
<1>4. t.scroll \in Scrolls /\ t.blur \in 0..Unit
  BY <1>3, TargetsFacts DEF Ofs
<1>5. \A s : s.of = m => Targets(o, s) = t
  BY DEF Targets, TravelOf
<1> HIDE DEF t
<1>6. /\ At(t.scroll) \in Moving(Scrolls) /\ At(t.scroll).to = t.scroll /\ Rests(At(t.scroll))
      /\ At(t.blur) \in Moving(0..Unit) /\ At(t.blur).to = t.blur /\ Rests(At(t.blur))
  BY <1>4, AtFacts
<1>7. /\ state \in States /\ state.pic = pic /\ state.of = m /\ state.view = view
      /\ state.scroll = At(t.scroll) /\ state.blur = At(t.blur)
  BY <1>2, <1>3, <1>6 DEF States, Ofs
<1> HIDE DEF state
<1>8. /\ AsDescribed(state) \in Known /\ AsDescribed(state).pic = state.pic
      /\ \A x \in Properties : Mirrors(AsDescribed(state)[x], state[x])
  BY <1>6, <1>7, DescribedFacts DEF Properties
<1>9. /\ out' \in [Outputs -> States \cup {Gone}] /\ out'[o] = state
      /\ \A p \in Outputs \ {o} : out'[p] = out[p]
  BY <1>1, <1>7 DEF TypeOK
<1>10. Present' = Present \cup {o}
  BY <1>7, <1>9, GoneFacts DEF Present
<1>11. TypeOK'
  <2>1. heard' = Deaf \/ heard' \in [Outputs -> Known \cup {Gone}]
    BY <1>1, <1>8, HeardFacts
  <2>. QED BY <1>1, <1>9, <2>1, OutsideFacts DEF TypeOK, asks
<1>12. SourcesResolved'
  <2>1. \A p \in Present : out'[p] = out[p]
    BY <1>1, <1>9 DEF Present
  <2>2. ASSUME ~stale, NEW p \in Present', NEW x \in Properties
        PROVE out'[p][x].to = Targets(p, out[p])'[x]
    <3>1. CASE p = o
      <4>1. Targets(o, out[o])' = Targets(o, state)
        BY <1>1, <1>9 DEF Targets, TravelOf, Blurs, asks
      <4>2. Targets(o, state) = t
        BY <1>5, <1>7
      <4>3. state[x].to = t[x]
        BY <1>6, <1>7, <2>2 DEF Properties
      <4>. QED BY <1>9, <3>1, <4>1, <4>2, <4>3
    <3>2. CASE p # o
      <4>1. p \in Present /\ out'[p] = out[p]
        BY <1>10, <2>1, <2>2, <3>2
      <4>2. Targets(p, out[p])' = Targets(p, out[p])
        BY <1>1, <4>1 DEF Targets, TravelOf, Blurs, asks
      <4>. QED BY <2>2, <4>1, <4>2 DEF SourcesResolved, AimsAtTarget
    <3>. QED BY <3>1, <3>2
  <2>3. AimsAtTarget'
    BY <1>1, <2>2 DEF AimsAtTarget
  <2>4. ResolvedAgainstShown'
    BY <1>1, <1>3, <1>7, <1>9, <1>10, <2>1 DEF SourcesResolved, ResolvedAgainstShown, Resident, asks
  <2>5. PlacementPending'
    BY <1>1, <1>10 DEF SourcesResolved, PlacementPending
  <2>. QED BY <2>3, <2>4, <2>5 DEF SourcesResolved
<1>13. Mirrored'
  <2> SUFFICES ASSUME Listening', NEW p \in Outputs
               PROVE /\ (heard'[p] = Gone) <=> (out'[p] = Gone)
                     /\ p \in Present' =>
                          /\ heard'[p].pic = out'[p].pic
                          /\ \A x \in Properties : <<p, x>> \in midway
                                                   \/ Mirrors(heard'[p][x], out'[p][x])
    BY <1>1 DEF Mirrored, Mirrors, Rests, Value
  <2>1. Listening
    BY <1>1 DEF Listening
  <2>2. CASE p = o
    BY <1>1, <1>7, <1>8, <1>9, <2>1, <2>2, GoneFacts
  <2>3. CASE p # o
    BY <1>1, <1>9, <1>10, <2>1, <2>3 DEF Mirrored
  <2>. QED BY <2>2, <2>3
<1>. QED BY <1>11, <1>12, <1>13

(* So does another viewport.                                               *)
LEMMA ResizedStep ==
  ASSUME AnnouncingInv, NEW o \in Outputs, NEW view \in Views, Resized(o, view)
  PROVE AnnouncingInv'
<1> USE DEF AnnouncingInv
<1>1. /\ o \in Present /\ Outside /\ stale' = TRUE
      /\ out' = [out EXCEPT ![o].view = view] /\ to_place' = to_place \cup {o}
      /\ UNCHANGED <<asks, decoded, heard, midway>>
  BY DEF Resized
<1>2. /\ out[o] \in States
      /\ out'[o] = [out[o] EXCEPT !.view = view]
      /\ \A p \in Outputs \ {o} : out'[p] = out[p]
  BY <1>1, OutFacts DEF TypeOK
<1>3. /\ out'[o] \in States /\ out'[o].pic = out[o].pic
      /\ \A x \in Properties : out'[o][x] = out[o][x]
  BY <1>2 DEF States, Properties
<1>4. out' \in [Outputs -> States \cup {Gone}]
  BY <1>1, <1>3 DEF TypeOK
<1>5. Present' = Present
  BY <1>1, <1>2, <1>3, GoneFacts DEF Present
<1>6. TypeOK'
  BY <1>1, <1>4, OutsideFacts DEF TypeOK, asks
<1>7. SourcesResolved'
  BY <1>1, <1>5, OwedResolve DEF SourcesResolved, PlacementPending
<1>8. Mirrored'
  <2>0. heard' = heard /\ midway' = midway
    BY <1>1
  <2> SUFFICES ASSUME Listening, NEW p \in Outputs
               PROVE /\ (heard[p] = Gone) <=> (out'[p] = Gone)
                     /\ p \in Present' =>
                          /\ heard[p].pic = out'[p].pic
                          /\ \A x \in Properties : <<p, x>> \in midway
                                                   \/ Mirrors(heard[p][x], out'[p][x])
    BY <2>0, MirroredNow DEF Listening
  <2>1. CASE p = o
    <3>1. heard[o] # Gone /\ out'[o] # Gone
      <4>1. (heard[o] = Gone) <=> (out[o] = Gone)
        BY DEF Mirrored
      <4>. QED BY <1>2, <1>3, <4>1, GoneFacts
    <3>2. heard[o].pic = out[o].pic
      BY <1>1 DEF Mirrored
    <3>3. \A x \in Properties : <<o, x>> \in midway \/ Mirrors(heard[o][x], out[o][x])
      BY <1>1 DEF Mirrored
    <3>. QED BY <1>3, <2>1, <3>1, <3>2, <3>3
  <2>2. CASE p # o
    BY <1>2, <1>5, <2>2 DEF Mirrored
  <2>. QED BY <2>1, <2>2
<1>. QED BY <1>6, <1>7, <1>8

(* So does an output that leaves.                                          *)
LEMMA GoneStep ==
  ASSUME AnnouncingInv, NEW o \in Outputs, OutputGone(o)
  PROVE AnnouncingInv'
<1> USE DEF AnnouncingInv
<1>1. /\ o \in Present /\ Outside
      /\ out' = [out EXCEPT ![o] = Gone] /\ to_place' = to_place \ {o}
      /\ midway' = {m \in midway : m[1] # o}
      /\ Listening => heard' = [p \in Outputs |-> IF p = o THEN Gone ELSE heard[p]]
      /\ ~Listening => heard' = Deaf
      /\ UNCHANGED <<asks, decoded, stale>>
  <2>1. Listening => heard \in [Outputs -> Known \cup {Gone}]
    BY HeardFacts
  <2>. QED BY <2>1 DEF OutputGone, Hears
<1>2. /\ out' \in [Outputs -> States \cup {Gone}] /\ out'[o] = Gone
      /\ \A p \in Outputs \ {o} : out'[p] = out[p]
  BY <1>1 DEF TypeOK
<1>3. Present' = Present \ {o}
  BY <1>2 DEF Present
<1>4. TypeOK'
  <2>1. heard' = Deaf \/ heard' \in [Outputs -> Known \cup {Gone}]
    BY <1>1, HeardFacts
  <2>2. out' \in [Outputs -> States \cup {Gone}]
    BY <1>2
  <2>3. to_place' \subseteq Outputs /\ midway' \subseteq Outputs \X Properties
    BY <1>1 DEF TypeOK
  <2>. QED BY <1>1, <2>1, <2>2, <2>3, OutsideFacts DEF TypeOK, asks
<1>5. SourcesResolved'
  <2>1. \A p \in Present' : p \in Present /\ out'[p] = out[p]
    BY <1>2, <1>3 DEF Present
  <2>2. AimsAtTarget'
    <3>1. \A p \in Present' : Targets(p, out[p])' = Targets(p, out[p])
      BY <1>1, <2>1 DEF Targets, TravelOf, Blurs, asks
    <3>2. stale' = stale
      BY <1>1
    <3>. QED BY <2>1, <3>1, <3>2 DEF SourcesResolved, AimsAtTarget
  <2>3. ResolvedAgainstShown'
    BY <1>1, <2>1 DEF SourcesResolved, ResolvedAgainstShown, Resident, asks
  <2>4. PlacementPending'
    BY <1>1, <1>3 DEF SourcesResolved, PlacementPending
  <2>. QED BY <2>2, <2>3, <2>4 DEF SourcesResolved
<1>6. Mirrored'
  <2> SUFFICES ASSUME Listening', NEW p \in Outputs
               PROVE /\ (heard'[p] = Gone) <=> (out'[p] = Gone)
                     /\ p \in Present' =>
                          /\ heard'[p].pic = out'[p].pic
                          /\ \A x \in Properties : <<p, x>> \in midway'
                                                   \/ Mirrors(heard'[p][x], out'[p][x])
    BY DEF Mirrored, Mirrors, Rests, Value
  <2>1. Listening
    BY <1>1 DEF Listening
  <2>2. CASE p = o
    BY <1>1, <1>2, <1>3, <2>1, <2>2
  <2>3. CASE p # o
    <3>1. \A x \in Properties : <<p, x>> \in midway => <<p, x>> \in midway'
      BY <1>1, <2>3
    <3>2. heard'[p] = heard[p]
      BY <1>1, <2>1, <2>3
    <3>3. out'[p] = out[p] /\ (p \in Present' <=> p \in Present)
      BY <1>2, <1>3, <2>3
    <3>4. (heard[p] = Gone) <=> (out[p] = Gone)
      BY <2>1 DEF Mirrored
    <3>5. p \in Present =>
            /\ heard[p].pic = out[p].pic
            /\ \A x \in Properties : <<p, x>> \in midway \/ Mirrors(heard[p][x], out[p][x])
      BY <2>1 DEF Mirrored
    <3>. QED BY <3>1, <3>2, <3>3, <3>4, <3>5
  <2>. QED BY <2>2, <2>3
<1>. QED BY <1>4, <1>5, <1>6

(* So does a listener that subscribes.                                     *)
LEMMA SubscribeStep ==
  ASSUME AnnouncingInv, Subscribe
  PROVE AnnouncingInv'
<1> USE DEF AnnouncingInv
<1>1. /\ Outside /\ UNCHANGED <<asks, out, decoded, to_place, stale>>
      /\ heard' = [o \in Outputs |-> IF o \in Present THEN AsDescribed(out[o]) ELSE Gone]
      /\ midway' = UNION {{o} \X InFlight(out[o]) : o \in Present}
  BY DEF Subscribe
<1>2. \A o \in Present :
        /\ AsDescribed(out[o]) \in Known /\ AsDescribed(out[o]).pic = out[o].pic
        /\ \A x \in Properties : Rests(out[o][x]) => Mirrors(AsDescribed(out[o])[x], out[o][x])
  BY OutFacts, DescribedFacts
<1>3. Present' = Present
  BY <1>1 DEF Present
<1>4. TypeOK'
  <2>1. heard' \in [Outputs -> Known \cup {Gone}]
    BY <1>1, <1>2
  <2>2. midway' \subseteq Outputs \X Properties
    BY <1>1 DEF InFlight, Present
  <2>. QED BY <1>1, <2>1, <2>2, OutsideFacts DEF TypeOK, asks
<1>5. SourcesResolved'
  BY <1>1, <1>3 DEF SourcesResolved, AimsAtTarget, ResolvedAgainstShown, PlacementPending,
     Targets, TravelOf, Blurs, Resident, asks
<1>6. Mirrored'
  <2>0. out' = out
    BY <1>1
  <2> SUFFICES ASSUME NEW p \in Outputs
               PROVE /\ (heard'[p] = Gone) <=> (out[p] = Gone)
                     /\ p \in Present =>
                          /\ heard'[p].pic = out[p].pic
                          /\ \A x \in Properties : <<p, x>> \in midway'
                                                   \/ Mirrors(heard'[p][x], out[p][x])
    BY <1>3, <2>0, MirroredNow
  <2>1. CASE p \notin Present
    BY <1>1, <2>1 DEF Present
  <2>2. CASE p \in Present
    <3>1. heard'[p] = AsDescribed(out[p])
      BY <1>1, <2>2
    <3>2. heard'[p] # Gone /\ out[p] # Gone
      BY <1>2, <2>2, <3>1, GoneFacts DEF Present
    <3>3. \A x \in Properties : ~Rests(out[p][x]) => <<p, x>> \in midway'
      BY <1>1, <2>2 DEF InFlight
    <3>. QED BY <1>2, <2>2, <3>1, <3>2, <3>3
  <2>. QED BY <2>1, <2>2
<1>. QED BY <1>4, <1>5, <1>6

(* The invariant holds at first.                                           *)
LEMMA InitInv ==
  ASSUME Init
  PROVE AnnouncingInv
<1>1. Present = {} /\ ~Listening
  BY DEF Init, Present, Listening
<1>2. TypeOK
  <2>1. changes \in 0..MaxChanges
    BY Constants DEF Init
  <2>2. asked \in SlotsOf(Slot)
    BY SlotFacts DEF Init
  <2>3. driven \in [Outputs -> [at: -1..1, blur: BOOLEAN]]
    BY DEF Init
  <2>. QED BY <2>1, <2>2, <2>3 DEF Init, TypeOK
<1>. QED BY <1>1, <1>2 DEF AnnouncingInv, SourcesResolved, AimsAtTarget, ResolvedAgainstShown,
         PlacementPending, Mirrored, Init

(* Every step keeps it.                                                    *)
LEMMA StepInv ==
  ASSUME AnnouncingInv, [Next]_vars
  PROVE AnnouncingInv'
<1>1. CASE Resolve
  BY <1>1, ResolveStep
<1>2. CASE Subscribe
  BY <1>2, SubscribeStep
<1>3. ASSUME NEW o \in Outputs, NEW v \in Views, OutputReady(o, v) \/ Resized(o, v)
      PROVE AnnouncingInv'
  BY <1>3, ReadyStep, ResizedStep
<1>4. ASSUME NEW o \in Outputs, OutputGone(o) \/ Tick(o)
      PROVE AnnouncingInv'
  BY <1>4, GoneStep, TickStep
<1>5. ASSUME NEW at \in Addresses, NEW p \in Slot, OnSetWallpaper(at, p)
      PROVE AnnouncingInv'
  BY <1>5, SetWallpaperStep
<1>6. ASSUME NEW cfg \in Configs, Reload(cfg)
      PROVE AnnouncingInv'
  BY <1>6, ReloadStep
<1>7. ASSUME NEW p \in Pics, Landed(p) \/ Failed(p) \/ Released(p)
      PROVE AnnouncingInv'
  BY <1>7, TextureStep, FailedStep
<1>8. CASE \/ \E o \in Outputs, at \in Positions, on \in BOOLEAN :
                OnCompositor(o, [at |-> at, blur |-> on])
           \/ \E at \in Addresses, on \in BOOLEAN : OnSetBlur(at, on)
  BY <1>8, SourceStep
<1>9. CASE UNCHANGED vars
  <2>1. UNCHANGED <<driven, asked, blurs, config, out, decoded, to_place, stale, heard, midway, changes>>
    BY <1>9 DEF vars, asks
  <2>2. Mirrored'
    BY <2>1, StillMirrored DEF AnnouncingInv
  <2>3. TypeOK'
    BY <2>1 DEF AnnouncingInv, TypeOK
  <2>4. SourcesResolved'
    BY <2>1 DEF AnnouncingInv, SourcesResolved, AimsAtTarget, ResolvedAgainstShown, PlacementPending,
       Targets, TravelOf, Blurs, Resident, Present
  <2>. QED BY <2>2, <2>3, <2>4 DEF AnnouncingInv
<1>. QED BY <1>1, <1>2, <1>3, <1>4, <1>5, <1>6, <1>7, <1>8, <1>9 DEF Next

(* The inductive invariant holds in every reachable state.                 *)
THEOREM Safe == Spec => []AnnouncingInv
<1>1. Init => AnnouncingInv
  BY InitInv
<1>2. AnnouncingInv /\ [Next]_vars => AnnouncingInv'
  BY StepInv
<1>. QED BY <1>1, <1>2, PTL DEF Spec

(* Every variable always has its type: in particular no value leaves the   *)
(* range of its property, under every easing, interruption and reload.     *)
THEOREM Typed == Spec => []TypeOK
<1>1. AnnouncingInv => TypeOK
  BY DEF AnnouncingInv
<1>. QED BY <1>1, Safe, PTL

(* Unless `Daemon::resolve` is owed every output heads for what            *)
(* `policy::resolve` makes of the sources as they are, by the travel of    *)
(* the image it has; and `to_place` holds only outputs there are, for the  *)
(* resolve that is owed. No order of decodes, swaps, viewports and         *)
(* requests makes the daemon forget one.                                   *)
THEOREM Sources == Spec => []SourcesResolved
<1>1. AnnouncingInv => SourcesResolved
  BY DEF AnnouncingInv
<1>. QED BY <1>1, Safe, PTL

(* A listener that runs every curve an event described has every output,   *)
(* its wallpaper and every value of it, but for one that was moving when   *)
(* it subscribed: no change of `Daemon::resolve`, `resolve_wallpapers` or  *)
(* `consume` goes without its event.                                       *)
THEOREM Listeners == Spec => []Mirrored
<1>1. AnnouncingInv => Mirrored
  BY DEF AnnouncingInv
<1>. QED BY <1>1, Safe, PTL

-----------------------------------------------------------------------------
(***************************************************************************)
(* Crossfade.                                                              *)
(***************************************************************************)
(* What an animation of a slot is made of, and what it shows: a value      *)
(* between nothing and full, and where it heads once it rests.             *)
LEMMA AnimationFacts ==
  ASSUME NEW a \in Animations(0..Unit)
  PROVE /\ a.from \in 0..Unit /\ a.to \in 0..Unit /\ a.elapsed \in Nat
        /\ a.tween.duration \in Nat /\ a.tween.easing \in Easings
        /\ a.elapsed <= a.tween.duration
        /\ Value(a) \in 0..Unit /\ (Rests(a) => Value(a) = a.to)
<1>0. Unit \in Nat \ {0} /\ 0 \in Int /\ Unit \in Int
  BY AnnouncingAssumption DEF UnitAssumption
<1>1. /\ a.from \in 0..Unit /\ a.to \in 0..Unit /\ a.elapsed \in Nat
      /\ a.tween \in Transitions \cup {Instant} /\ a.elapsed <= a.tween.duration
  BY DEF Animations
<1>2. a.tween.duration \in Nat /\ a.tween.easing \in Easings
  BY <1>1, CrossfadeAssumption DEF Instant, Tween, Easings
<1>3. Value(a) \in 0..Unit
  BY <1>0, <1>1, <1>2, ValueBetween
<1>4. ASSUME Rests(a), ~IsInstant(a.tween) PROVE Value(a) = a.to
  <2>1. a.elapsed = a.tween.duration /\ a.tween.duration \in Nat \ {0}
    BY <1>1, <1>2, <1>4 DEF Rests, IsInstant
  <2>2. Value(a) = a.from + ((a.to - a.from) * Unit) \div Unit
    BY <1>2, <1>4, <2>1, EvalEnds DEF Value
  <2> DEFINE x == a.to - a.from
  <2>3. x \in Int /\ a.from + x = a.to
    BY <1>1
  <2> HIDE DEF x
  <2>4. (x * Unit) \div Unit \in x..x
    BY <1>0, <2>3, DivBounds
  <2>5. Value(a) = a.from + x
    BY <2>2, <2>3, <2>4 DEF x
  <2>. QED BY <2>3, <2>5
<1>. QED BY <1>1, <1>2, <1>3, <1>4 DEF Value

(* A value that was put where it is rests there.                           *)
LEMMA AtRests ==
  ASSUME NEW v \in 0..Unit
  PROVE At(v) \in Animations(0..Unit) /\ At(v).to = v /\ Value(At(v)) = v /\ Rests(At(v))
BY DEF At, Animations, Value, IsInstant, Instant, Tween, Rests

(* A value retargeted in its movement goes on from where it is.            *)
LEMMA RetargetGoesOn ==
  ASSUME NEW a \in Animations(0..Unit), NEW to \in 0..Unit, a.to # to, NEW tween \in Transitions
  PROVE /\ Retarget(a, to, tween).is \in Animations(0..Unit)
        /\ Retarget(a, to, tween).is.to = to
        /\ ~IsInstant(tween) => Value(Retarget(a, to, tween).is) = Value(a)
<1> DEFINE moving == [from |-> Value(a), to |-> to, elapsed |-> 0, tween |-> tween]
<1>0. Unit \in Nat \ {0}
  BY AnnouncingAssumption DEF UnitAssumption
<1>1. Value(a) \in 0..Unit /\ tween.duration \in Nat /\ tween.easing \in Easings
  BY AnimationFacts, CrossfadeAssumption
<1>2. CASE IsInstant(tween) \/ Value(a) = to
  <2>1. Retarget(a, to, tween).is = At(to)
    BY <1>2 DEF Retarget
  <2>. QED BY <1>2, <2>1, AtRests
<1>3. CASE ~IsInstant(tween) /\ Value(a) # to
  <2>1. Retarget(a, to, tween).is = moving
    BY <1>3 DEF Retarget
  <2>2. moving \in Animations(0..Unit) /\ moving.to = to
    BY <1>1 DEF Animations
  <2>3. Value(moving) = Value(a)
    <3>1. tween.duration \in Nat \ {0}
      BY <1>1, <1>3 DEF IsInstant
    <3>2. Eval(tween.easing, 0, tween.duration) = 0
      BY <1>1, <3>1, EvalEnds
    <3>3. Value(moving) = Value(a) + ((to - Value(a)) * 0) \div Unit
      BY <1>3, <3>2 DEF Value
    <3> DEFINE v == Value(a)
    <3>4. v \in Int /\ (to - v) * 0 = 0
      BY <1>1
    <3>5. 0 \div Unit = 0
      BY <1>0
    <3> HIDE DEF v
    <3>6. v + ((to - v) * 0) \div Unit = v
      BY <3>4, <3>5
    <3>. QED BY <3>3, <3>6 DEF v
  <2>. QED BY <2>1, <2>2, <2>3
<1>. QED BY <1>2, <1>3

(* The presence of a frame goes on from where it is, or from nothing when  *)
(* something arrives on an empty one.                                      *)
LEMMA PresenceFacts ==
  ASSUME NEW a \in Animations(0..Unit), NEW arriving \in BOOLEAN, NEW leaving \in BOOLEAN,
         NEW tween \in Transitions
  PROVE /\ Presence(a, arriving, leaving, tween) \in Animations(0..Unit)
        /\ Presence(a, arriving, leaving, tween).to = IF leaving THEN 0 ELSE Unit
        /\ ~IsInstant(tween) =>
             Value(Presence(a, arriving, leaving, tween)) = IF arriving THEN 0 ELSE Value(a)
<1> DEFINE start == IF arriving THEN At(0) ELSE a
           aim == IF leaving THEN 0 ELSE Unit
<1>0. Unit \in Nat \ {0} /\ 0 \in 0..Unit /\ aim \in 0..Unit
  BY AnnouncingAssumption DEF UnitAssumption
<1>1. start \in Animations(0..Unit) /\ Value(start) = IF arriving THEN 0 ELSE Value(a)
  BY <1>0, AtRests
<1>2. Presence(a, arriving, leaving, tween) =
        IF start.to = aim THEN start ELSE Retarget(start, aim, tween).is
  BY DEF Presence
<1> HIDE DEF start, aim
<1>3. CASE start.to = aim
  BY <1>1, <1>2, <1>3 DEF aim
<1>4. CASE start.to # aim
  <2>1. /\ Retarget(start, aim, tween).is \in Animations(0..Unit)
        /\ Retarget(start, aim, tween).is.to = aim
        /\ ~IsInstant(tween) => Value(Retarget(start, aim, tween).is) = Value(start)
    BY <1>0, <1>1, <1>4, RetargetGoesOn
  <2>. QED BY <1>1, <1>2, <1>4, <2>1 DEF aim
<1>. QED BY <1>3, <1>4

(* What a slot is.                                                         *)
LEMMA SlotParts ==
  ASSUME SlotTypeOK
  PROVE /\ slot.outgoing \in Images /\ slot.current \in Images
        /\ slot.fade \in Animations(0..Unit) /\ slot.opacity \in Animations(0..Unit)
        /\ slot = [outgoing |-> slot.outgoing, current |-> slot.current,
                   fade |-> slot.fade, opacity |-> slot.opacity]
        /\ transition \in Transitions /\ share \in Shares /\ kept \in SharesKept
BY DEF SlotTypeOK

(* What a slot is after a set: the image wanted, the one that leaves if    *)
(* there is time for it, a crossfade from its beginning, and a presence    *)
(* that goes on.                                                           *)
LEMMA SetFacts ==
  ASSUME SlotTypeOK, NEW next \in Images, NEW s, s = SetSlot(slot, next, transition)
  PROVE /\ s = [outgoing |-> s.outgoing, current |-> next, fade |-> s.fade, opacity |-> s.opacity]
        /\ s.outgoing = IF next # NoImage /\ (IsArriving(slot, next) \/ IsInstant(transition))
                        THEN NoImage ELSE Leaving(slot)
        /\ s.fade \in Animations(0..Unit) /\ s.opacity \in Animations(0..Unit)
        /\ s.fade.to = IF next = NoImage THEN 0 ELSE Unit
        /\ s.opacity.to = IF next = NoImage THEN 0 ELSE Unit
        /\ ~IsInstant(transition) =>
             /\ Value(s.fade) = IF IsArriving(slot, next) THEN Unit ELSE 0
             /\ Value(s.opacity) = IF IsArriving(slot, next) THEN 0 ELSE Value(slot.opacity)
<1> DEFINE c == Crossed(slot, next, transition)
           p == Presence(slot.opacity, IsArriving(slot, next), next = NoImage, transition)
           full == At(Unit)
           none == At(0)
           over == Retarget(At(0), Unit, transition).is
<1>0. Unit \in Nat \ {0} /\ 0 \in 0..Unit /\ Unit \in 0..Unit /\ 0 # Unit
  BY AnnouncingAssumption DEF UnitAssumption
<1>1. /\ slot = [outgoing |-> slot.outgoing, current |-> slot.current,
                 fade |-> slot.fade, opacity |-> slot.opacity]
      /\ slot.opacity \in Animations(0..Unit) /\ transition \in Transitions
  BY SlotParts
<1>2. /\ p \in Animations(0..Unit) /\ p.to = IF next = NoImage THEN 0 ELSE Unit
      /\ ~IsInstant(transition) =>
           Value(p) = IF IsArriving(slot, next) THEN 0 ELSE Value(slot.opacity)
  <2> DEFINE arriving == IsArriving(slot, next)
             leaving == next = NoImage
             q == Presence(slot.opacity, arriving, leaving, transition)
  <2>1. arriving \in BOOLEAN /\ leaving \in BOOLEAN
    BY DEF IsArriving
  <2>2. leaving <=> next = NoImage
    OBVIOUS
  <2>3. p = q
    OBVIOUS
  <2> HIDE DEF p, leaving, arriving
  <2>4. /\ q \in Animations(0..Unit) /\ q.to = IF leaving THEN 0 ELSE Unit
        /\ ~IsInstant(transition) =>
             Value(q) = IF arriving THEN 0 ELSE Value(slot.opacity)
    BY <1>1, <2>1, PresenceFacts
  <2> HIDE DEF q
  <2>5. Value(p) = Value(q)
    BY <2>3
  <2>. QED BY <2>2, <2>3, <2>4, <2>5 DEF arriving
<1>3. /\ full \in Animations(0..Unit) /\ full.to = Unit /\ Value(full) = Unit
      /\ none \in Animations(0..Unit) /\ none.to = 0 /\ Value(none) = 0
  BY <1>0, AtRests
<1>4. /\ over \in Animations(0..Unit) /\ over.to = Unit
      /\ ~IsInstant(transition) => Value(over) = 0
  BY <1>0, <1>1, <1>3, RetargetGoesOn
<1>5. s = [c EXCEPT !.opacity = p]
  BY DEF SetSlot
<1>6. IsArriving(slot, next) => next # NoImage
  BY DEF IsArriving
<1> HIDE DEF p, full, none, over
<1>7. CASE next = NoImage
  <2>1. c = [outgoing |-> Leaving(slot), current |-> NoImage, fade |-> none,
             opacity |-> slot.opacity]
    BY <1>1, <1>7 DEF Crossed, none
  <2>. QED BY <1>2, <1>3, <1>5, <1>6, <1>7, <2>1
<1>8. CASE next # NoImage /\ (IsArriving(slot, next) \/ IsInstant(transition))
  <2>1. c = [outgoing |-> NoImage, current |-> next, fade |-> full, opacity |-> slot.opacity]
    BY <1>1, <1>8 DEF Crossed, full
  <2>. QED BY <1>2, <1>3, <1>5, <1>8, <2>1
<1>9. CASE next # NoImage /\ ~(IsArriving(slot, next) \/ IsInstant(transition))
  <2>1. c = [outgoing |-> Leaving(slot), current |-> next, fade |-> over,
             opacity |-> slot.opacity]
    BY <1>1, <1>9 DEF Crossed, over
  <2>. QED BY <1>2, <1>4, <1>5, <1>9, <2>1
<1>. QED BY <1>7, <1>8, <1>9

(* What a slot is after a frame: both animations a frame further, and the  *)
(* image that left dropped when the crossfade is done with it.             *)
LEMMA TickFacts ==
  ASSUME SlotTypeOK, NEW s, s = TickSlot(slot, 1)
  PROVE /\ s = [outgoing |-> s.outgoing, current |-> slot.current,
                fade |-> s.fade, opacity |-> s.opacity]
        /\ s.fade \in Animations(0..Unit) /\ s.opacity \in Animations(0..Unit)
        /\ s.fade.to = slot.fade.to /\ s.opacity.to = slot.opacity.to
        /\ s.outgoing = IF Rests(s.fade) /\ (slot.current # NoImage \/ Rests(s.opacity))
                        THEN NoImage ELSE slot.outgoing
<1>1. ASSUME NEW a \in Animations(0..Unit)
      PROVE Ticked(a, 1) \in Animations(0..Unit) /\ Ticked(a, 1).to = a.to
  <2>1. /\ a \in [from: 0..Unit, to: 0..Unit, elapsed: Nat, tween: Transitions \cup {Instant}]
        /\ a.elapsed <= a.tween.duration
    BY DEF Animations
  <2>2. a.tween.duration \in Nat /\ a.elapsed \in Nat
    BY AnimationFacts
  <2>3. CASE Rests(a)
    BY <2>3 DEF Ticked
  <2>4. CASE ~Rests(a)
    <3> DEFINE e == IF a.elapsed + 1 < a.tween.duration THEN a.elapsed + 1 ELSE a.tween.duration
    <3>1. Ticked(a, 1) = [a EXCEPT !.elapsed = e]
      BY <2>4 DEF Ticked
    <3>2. e \in Nat /\ e <= a.tween.duration
      BY <2>2
    <3> HIDE DEF e
    <3>. QED BY <2>1, <3>1, <3>2 DEF Animations
  <2>. QED BY <2>3, <2>4
<1> DEFINE f == Ticked(slot.fade, 1)
           p == Ticked(slot.opacity, 1)
<1>2. /\ f \in Animations(0..Unit) /\ f.to = slot.fade.to
      /\ p \in Animations(0..Unit) /\ p.to = slot.opacity.to
  BY <1>1, SlotParts
<1> DEFINE t == [outgoing |-> slot.outgoing, current |-> slot.current, fade |-> f, opacity |-> p]
           t0 == [slot EXCEPT !.fade = Ticked(@, 1), !.opacity = Ticked(@, 1)]
<1>3. s = IF Rests(t0.fade) /\ ~IsDeparting(t0) THEN [t0 EXCEPT !.outgoing = NoImage] ELSE t0
  BY DEF TickSlot
<1>4. t0 = t
  <2> DEFINE t1 == [slot EXCEPT !.fade = f]
  <2>1. slot = [outgoing |-> slot.outgoing, current |-> slot.current,
                fade |-> slot.fade, opacity |-> slot.opacity]
    BY SlotParts
  <2>2. t0 = [t1 EXCEPT !.opacity = p]
    BY <2>1
  <2> HIDE DEF f, p
  <2>3. t1 = [outgoing |-> slot.outgoing, current |-> slot.current, fade |-> f,
              opacity |-> slot.opacity]
    BY <2>1
  <2> HIDE DEF t0, t1
  <2>. QED BY <2>2, <2>3
<1> HIDE DEF f, p, t0
<1>5. IsDeparting(t) <=> slot.current = NoImage /\ ~Rests(p)
  BY DEF IsDeparting
<1>6. t.fade = f /\ t.opacity = p
  OBVIOUS
<1> HIDE DEF t
<1>7. s = IF Rests(f) /\ ~IsDeparting(t) THEN [t EXCEPT !.outgoing = NoImage] ELSE t
  BY <1>3, <1>4, <1>6
<1>8. s = [outgoing |-> IF Rests(f) /\ ~IsDeparting(t) THEN NoImage ELSE slot.outgoing,
           current |-> slot.current, fade |-> f, opacity |-> p]
  BY <1>7 DEF t
<1>. QED BY <1>2, <1>5, <1>8

-----------------------------------------------------------------------------
(* The invariant is inductive.                                             *)
LEMMA CrossfadeStarts == SlotInit => CrossfadeInv
<1> SUFFICES ASSUME SlotInit PROVE CrossfadeInv
  OBVIOUS
<1>0. Unit \in Nat \ {0} /\ Unit \in 0..Unit
  BY AnnouncingAssumption DEF UnitAssumption
<1>1. At(Unit) \in Animations(0..Unit) /\ At(Unit).to = Unit
  BY <1>0, AtRests
<1>2. /\ slot = [outgoing |-> NoImage, current |-> NoImage, fade |-> At(Unit), opacity |-> At(Unit)]
      /\ transition \in Transitions /\ share \in Shares /\ kept = Unset /\ due = FALSE
      /\ swap = [from |-> NoImage, to |-> NoImage, tween |-> Instant] /\ sets = 0
  BY DEF SlotInit, EmptySlot
<1> DEFINE still == At(Unit)
<1> HIDE DEF still
<1>3. SlotTypeOK
  <2>1. NoImage \in Images /\ Unset \in SharesKept
    BY DEF Images, SharesKept
  <2>2. swap \in [from: Images, to: Images, tween: Transitions \cup {Instant}]
    BY <1>2, <2>1
  <2>3. sets \in 0..MaxSets /\ due \in BOOLEAN
    <3>1. MaxSets \in Nat
      BY CrossfadeAssumption
    <3>2. sets \in 0..MaxSets
      BY <1>2, <3>1
    <3>3. due \in BOOLEAN
      BY <1>2
    <3>. QED BY <3>2, <3>3
  <2>4. /\ slot.outgoing = NoImage /\ slot.current = NoImage
        /\ slot.fade = still /\ slot.opacity = still
        /\ slot = [outgoing |-> slot.outgoing, current |-> slot.current,
                   fade |-> slot.fade, opacity |-> slot.opacity]
    BY <1>2 DEF still
  <2>5. still \in Animations(0..Unit)
    BY <1>1 DEF still
  <2>. QED BY <1>2, <2>1, <2>2, <2>3, <2>4, <2>5 DEF SlotTypeOK
<1>. QED BY <1>1, <1>2, <1>3 DEF CrossfadeInv

(* A set.                                                                  *)
LEMMA SetKeeps ==
  ASSUME CrossfadeInv, NEW next \in Images, SetWallpaper(next)
  PROVE CrossfadeInv'
<1>1. /\ sets < MaxSets /\ next # slot.current /\ slot' = SetSlot(slot, next, transition)
      /\ swap' = SwapOf(slot, next, transition) /\ kept' = Kept(slot, slot')
      /\ due' = TRUE /\ sets' = sets + 1 /\ UNCHANGED <<transition, share>>
  BY DEF SetWallpaper
<1>2. SlotTypeOK
  BY DEF CrossfadeInv
<1>3. /\ slot' = [outgoing |-> slot'.outgoing, current |-> next,
                  fade |-> slot'.fade, opacity |-> slot'.opacity]
      /\ slot'.outgoing = IF next # NoImage /\ (IsArriving(slot, next) \/ IsInstant(transition))
                          THEN NoImage ELSE Leaving(slot)
      /\ slot'.fade \in Animations(0..Unit) /\ slot'.opacity \in Animations(0..Unit)
      /\ slot'.fade.to = IF next = NoImage THEN 0 ELSE Unit
      /\ slot'.opacity.to = IF next = NoImage THEN 0 ELSE Unit
  BY <1>1, <1>2, SetFacts
<1>4. /\ slot.outgoing \in Images /\ slot.current \in Images /\ Leaving(slot) \in Images
      /\ NoImage \in Images /\ transition \in Transitions /\ share \in Shares /\ kept \in SharesKept
  BY <1>2, SlotParts DEF Leaving, Images
<1>5. slot'.outgoing \in Images /\ slot'.current = next
  BY <1>3, <1>4
<1>6. /\ kept' \in SharesKept
      /\ kept' = Unset <=> slot'.outgoing = NoImage
  <2>1. share # Unset
    BY <1>4, CrossfadeAssumption
  <2>. QED BY <1>1, <1>4, <2>1 DEF CrossfadeInv, Kept, SharesKept
<1>7. swap' \in [from: Images, to: Images, tween: Transitions \cup {Instant}]
  <2>1. Crossed(slot, next, transition).outgoing \in Images
    <3>1. Crossed(slot, next, transition).outgoing = slot'.outgoing
      <4>1. slot' = [Crossed(slot, next, transition) EXCEPT !.opacity =
                Presence(slot.opacity, IsArriving(slot, next), next = NoImage, transition)]
        BY <1>1 DEF SetSlot
      <4>2. "outgoing" \in DOMAIN Crossed(slot, next, transition)
        BY <1>2, SlotParts DEF Crossed
      <4>. QED BY <4>1, <4>2
    <3>. QED BY <1>5, <3>1
  <2>. QED BY <1>1, <1>4, <2>1 DEF SwapOf
<1>8. sets' \in 0..MaxSets
  BY <1>1, <1>2, CrossfadeAssumption DEF SlotTypeOK
<1>9. SlotTypeOK'
  BY <1>1, <1>3, <1>4, <1>5, <1>6, <1>7, <1>8 DEF SlotTypeOK
<1>10. slot'.fade.to # Unit => slot'.current = NoImage /\ slot'.opacity.to = 0
  BY <1>3
<1>. QED BY <1>6, <1>9, <1>10 DEF CrossfadeInv

(* A frame.                                                                *)
LEMMA TickKeeps == ASSUME CrossfadeInv, TickFrame PROVE CrossfadeInv'
<1>1. /\ slot' = TickSlot(slot, 1) /\ kept' = (IF slot'.outgoing = NoImage THEN Unset ELSE kept)
      /\ due' = ~SlotRests(slot) /\ UNCHANGED <<transition, share, swap, sets>>
  BY DEF TickFrame
<1>2. SlotTypeOK
  BY DEF CrossfadeInv
<1>3. /\ slot' = [outgoing |-> slot'.outgoing, current |-> slot.current,
                  fade |-> slot'.fade, opacity |-> slot'.opacity]
      /\ slot'.fade \in Animations(0..Unit) /\ slot'.opacity \in Animations(0..Unit)
      /\ slot'.fade.to = slot.fade.to /\ slot'.opacity.to = slot.opacity.to
      /\ slot'.outgoing \in {NoImage, slot.outgoing}
  BY <1>1, <1>2, TickFacts
<1>4. slot'.outgoing \in Images /\ slot'.current = slot.current /\ slot.current \in Images
  BY <1>2, <1>3, SlotParts DEF Images
<1>5. kept' \in SharesKept /\ due' \in BOOLEAN
  BY <1>1, <1>2 DEF SlotTypeOK, SharesKept, SlotRests
<1>6. SlotTypeOK'
  BY <1>1, <1>2, <1>3, <1>4, <1>5 DEF SlotTypeOK
<1>7. slot'.fade.to # Unit => slot'.current = NoImage /\ slot'.opacity.to = 0
  BY <1>3, <1>4 DEF CrossfadeInv
<1>8. kept' = Unset <=> slot'.outgoing = NoImage
  BY <1>1, <1>3 DEF CrossfadeInv
<1>. QED BY <1>6, <1>7, <1>8 DEF CrossfadeInv

(* In every reachable state a crossfade ends at the image that was set, a  *)
(* frame is left to nothing only after its image was removed, and a place  *)
(* is kept exactly of an image that is leaving (wallpaper.rs:91-168,       *)
(* monitor.rs:95-135).                                                     *)
THEOREM CrossfadeInvariance == SlotSpec => []CrossfadeInv
<1>1. CrossfadeInv /\ [SlotNext]_slotVars => CrossfadeInv'
  <2> SUFFICES ASSUME CrossfadeInv, [SlotNext]_slotVars PROVE CrossfadeInv'
    OBVIOUS
  <2>1. CASE UNCHANGED slotVars
    BY <2>1 DEF slotVars, CrossfadeInv, SlotTypeOK
  <2>2. CASE ReloadTransition
    <3>1. /\ transition' \in Transitions /\ sets < MaxSets /\ sets' = sets + 1
          /\ UNCHANGED <<slot, share, kept, due, swap>>
      BY <2>2 DEF ReloadTransition
    <3>2. sets' \in 0..MaxSets
      BY <3>1, CrossfadeAssumption DEF CrossfadeInv, SlotTypeOK
    <3>. QED BY <3>1, <3>2 DEF CrossfadeInv, SlotTypeOK
  <2>3. CASE Scroll
    BY <2>3 DEF Scroll, CrossfadeInv, SlotTypeOK
  <2>. QED BY <2>1, <2>2, <2>3, SetKeeps, TickKeeps DEF SlotNext
<1>. QED BY <1>1, CrossfadeStarts, PTL DEF SlotSpec

-----------------------------------------------------------------------------
(* Half of a frame, of something that is at most half there.               *)
LEMMA HalfOf ==
  ASSUME NEW u \in Nat, NEW o \in 0..u, NEW g \in 0..u, 2 * g <= u
  PROVE 2 * (o * g) <= u * u
<1>1. o \in Nat /\ 2 * g \in Nat /\ o <= u
  OBVIOUS
<1>2. o * (2 * g) <= u * u
  BY <1>1, ProductGrows
<1>3. o * (2 * g) = 2 * (o * g)
  BY <1>1
<1>. QED BY <1>2, <1>3

(* A crossfade shares the frame between its two images.                    *)
LEMMA Blend ==
  ASSUME NEW u \in Nat, NEW o \in 0..u, NEW f \in 0..u
  PROVE /\ o * f \in Nat /\ o * (u - f) \in Nat /\ o * f + o * (u - f) = o * u
        /\ o * u \in Nat /\ u * u \in Nat
        /\ 2 * f >= u => 2 * (o * (u - f)) <= u * u
        /\ ~(2 * f >= u) => 2 * (o * f) <= u * u
<1>1. o \in Nat /\ f \in Nat /\ u - f \in 0..u /\ u \in Nat
  OBVIOUS
<1>2. o * f \in Nat /\ o * (u - f) \in Nat /\ o * u \in Nat /\ u * u \in Nat
  BY <1>1, ProductGrows
<1>3. o * f + o * (u - f) = o * u
  BY <1>1
<1>4. ASSUME 2 * f >= u PROVE 2 * (o * (u - f)) <= u * u
  <2>1. 2 * (u - f) <= u
    BY <1>1, <1>4
  <2>. QED BY <1>1, <2>1, HalfOf
<1>5. ASSUME ~(2 * f >= u) PROVE 2 * (o * f) <= u * u
  <2>1. 2 * f <= u
    BY <1>1, <1>5
  <2>. QED BY <1>1, <2>1, HalfOf
<1>. QED BY <1>2, <1>3, <1>4, <1>5

(* Whatever a set interrupts, no image jumps by more than half of a frame. *)
LEMMA SetJumps ==
  ASSUME SlotTypeOK, NEW next \in Images, SetWallpaper(next), ~IsInstant(transition),
         NEW w \in Wallpapers
  PROVE 2 * Jump(w) <= Unit * Unit
<1> DEFINE o == Value(slot.opacity)
           f == Value(slot.fade)
           shown == o * f
           left == o * (Unit - f)
           all == o * Unit
           before == Weight(slot, w)
           after == Weight(slot', w)
<1>0. Unit \in Nat \ {0} /\ w # NoImage
  BY AnnouncingAssumption, CrossfadeAssumption DEF UnitAssumption
<1>1. slot' = SetSlot(slot, next, transition)
  BY DEF SetWallpaper
<1>2. /\ slot'.current = next
      /\ slot'.outgoing = IF IsArriving(slot, next) THEN NoImage ELSE Leaving(slot)
      /\ Value(slot'.fade) = IF IsArriving(slot, next) THEN Unit ELSE 0
      /\ Value(slot'.opacity) = IF IsArriving(slot, next) THEN 0 ELSE o
  <2>1. IsArriving(slot, next) => next # NoImage
    BY DEF IsArriving
  <2>. QED BY <1>1, <2>1, SetFacts
<1>3. o \in 0..Unit /\ f \in 0..Unit
  BY SlotParts, AnimationFacts
<1>4. Half(slot.fade) <=> 2 * f >= Unit
  BY DEF Half
<1>5. before = (IF slot.current = w THEN shown ELSE 0) + (IF slot.outgoing = w THEN left ELSE 0)
  BY DEF Weight
<1>6. after = (IF slot'.current = w THEN Value(slot'.opacity) * Value(slot'.fade) ELSE 0)
              + (IF slot'.outgoing = w THEN Value(slot'.opacity) * (Unit - Value(slot'.fade)) ELSE 0)
  BY DEF Weight
<1>7. Jump(w) = IF after > before THEN after - before ELSE before - after
  BY DEF Jump
<1> HIDE DEF o, f, before, after
<1>8. /\ shown \in Nat /\ left \in Nat /\ shown + left = all /\ all \in Nat
      /\ Unit * Unit \in Nat
      /\ 2 * f >= Unit => 2 * left <= Unit * Unit
      /\ ~(2 * f >= Unit) => 2 * shown <= Unit * Unit
  BY <1>0, <1>3, Blend
<1>9. CASE IsArriving(slot, next)
  <2>1. slot.current # w /\ slot.outgoing # w
    BY <1>0, <1>9 DEF IsArriving
  <2>2. before = 0
    BY <1>5, <2>1
  <2>3. Value(slot'.opacity) = 0 /\ Value(slot'.fade) = Unit
    BY <1>2, <1>9
  <2>4. 0 * Unit = 0 /\ 0 * (Unit - Unit) = 0
    BY <1>0
  <2>5. after = 0
    BY <1>6, <2>3, <2>4
  <2>. QED BY <1>7, <1>8, <2>2, <2>5
<1>10. CASE ~IsArriving(slot, next)
  <2>1. slot'.outgoing = Leaving(slot) /\ Value(slot'.fade) = 0 /\ Value(slot'.opacity) = o
    BY <1>2, <1>10
  <2>2. o * 0 = 0 /\ o * (Unit - 0) = all
    BY <1>0, <1>3
  <2>3. after = IF Leaving(slot) = w THEN all ELSE 0
    <3>1. after = (IF slot'.current = w THEN o * 0 ELSE 0)
                  + (IF Leaving(slot) = w THEN o * (Unit - 0) ELSE 0)
      BY <1>6, <2>1
    <3> HIDE DEF all
    <3>. QED BY <1>8, <2>2, <3>1
  <2>4. Leaving(slot) = IF 2 * f >= Unit THEN slot.current ELSE slot.outgoing
    BY <1>4 DEF Leaving
  <2> DEFINE square == Unit * Unit
  <2>5. 2 * Jump(w) <= square
    <3> HIDE DEF shown, left, all, square
    <3>0. square \in Nat
      BY <1>8 DEF square
    <3>1. CASE 2 * f >= Unit
      <4>1. 2 * left <= square
        BY <1>8, <3>1 DEF square
      <4>2. after = IF slot.current = w THEN all ELSE 0
        BY <2>3, <2>4, <3>1
      <4>3. CASE slot.current = w
        BY <1>5, <1>7, <1>8, <3>0, <4>1, <4>2, <4>3
      <4>4. CASE slot.current # w
        BY <1>5, <1>7, <1>8, <3>0, <4>1, <4>2, <4>4
      <4>. QED BY <4>3, <4>4
    <3>2. CASE ~(2 * f >= Unit)
      <4>1. 2 * shown <= square
        BY <1>8, <3>2 DEF square
      <4>2. after = IF slot.outgoing = w THEN all ELSE 0
        BY <2>3, <2>4, <3>2
      <4>3. CASE slot.outgoing = w
        BY <1>5, <1>7, <1>8, <3>0, <4>1, <4>2, <4>3
      <4>4. CASE slot.outgoing # w
        BY <1>5, <1>7, <1>8, <3>0, <4>1, <4>2, <4>4
      <4>. QED BY <4>3, <4>4
    <3>. QED BY <3>1, <3>2
  <2>. QED BY <2>5 DEF square
<1>. QED BY <1>9, <1>10

(* The image a set leaves stays where it was drawn.                        *)
LEMMA SetHolds ==
  ASSUME CrossfadeInv, NEW next \in Images, SetWallpaper(next), slot.current # slot.outgoing
  PROVE StaysInPlace
<1> SUFFICES ASSUME slot'.outgoing # NoImage
             PROVE OutgoingAt' = IF slot'.current # slot.current /\ Half(slot.fade)
                                 THEN share ELSE OutgoingAt
  BY DEF StaysInPlace
<1>1. /\ next # slot.current /\ slot' = SetSlot(slot, next, transition)
      /\ kept' = Kept(slot, slot') /\ share' = share
  BY DEF SetWallpaper
<1>2. SlotTypeOK /\ (kept = Unset <=> slot.outgoing = NoImage)
  BY DEF CrossfadeInv
<1>3. slot'.current = next /\ slot'.outgoing = Leaving(slot)
  <2>1. /\ slot'.current = next
        /\ slot'.outgoing = IF next # NoImage /\ (IsArriving(slot, next) \/ IsInstant(transition))
                            THEN NoImage ELSE Leaving(slot)
    BY <1>1, <1>2, SetFacts
  <2>. QED BY <2>1
<1>4. share # Unset
  BY <1>2, SlotParts, CrossfadeAssumption
<1>5. CASE Half(slot.fade)
  <2>1. slot'.outgoing = slot.current
    BY <1>3, <1>5 DEF Leaving
  <2>2. kept' = share
    BY <1>1, <2>1 DEF Kept
  <2>. QED BY <1>1, <1>3, <1>4, <1>5, <2>2 DEF OutgoingAt
<1>6. CASE ~Half(slot.fade)
  <2>1. slot'.outgoing = slot.outgoing
    BY <1>3, <1>6 DEF Leaving
  <2>2. kept' = kept /\ kept # Unset
    BY <1>1, <1>2, <2>1 DEF Kept
  <2>. QED BY <1>6, <2>2 DEF OutgoingAt
<1>. QED BY <1>5, <1>6

(* A frame that releases an image showed nothing of it.                    *)
LEMMA TickDropsUnseen == ASSUME CrossfadeInv, TickFrame PROVE DropsUnseen
<1> SUFFICES ASSUME slot'.current = slot.current, slot'.outgoing # slot.outgoing
             PROVE Weight([slot EXCEPT !.fade = slot'.fade, !.opacity = slot'.opacity,
                                       !.current = NoImage], slot.outgoing) = 0
  BY DEF DropsUnseen
<1> DEFINE seen == [slot EXCEPT !.fade = slot'.fade, !.opacity = slot'.opacity,
                                !.current = NoImage]
           o == Value(slot'.opacity)
           f == Value(slot'.fade)
<1>0. Unit \in Nat \ {0}
  BY AnnouncingAssumption DEF UnitAssumption
<1>1. SlotTypeOK /\ slot' = TickSlot(slot, 1)
  BY DEF CrossfadeInv, TickFrame
<1>2. /\ slot'.fade \in Animations(0..Unit) /\ slot'.opacity \in Animations(0..Unit)
      /\ slot'.fade.to = slot.fade.to /\ slot'.opacity.to = slot.opacity.to
      /\ slot'.outgoing = IF Rests(slot'.fade) /\ (slot.current # NoImage \/ Rests(slot'.opacity))
                          THEN NoImage ELSE slot.outgoing
  BY <1>1, TickFacts
<1>3. /\ slot'.outgoing = NoImage /\ slot.outgoing # NoImage /\ Rests(slot'.fade)
      /\ slot.current # NoImage \/ Rests(slot'.opacity)
  BY <1>2
<1>4. /\ o \in 0..Unit /\ f \in 0..Unit /\ f = slot.fade.to
      /\ Rests(slot'.opacity) => o = slot.opacity.to
  BY <1>2, <1>3, AnimationFacts
<1>5. f = Unit \/ o = 0
  BY <1>3, <1>4 DEF CrossfadeInv
<1>6. o * (Unit - f) = 0
  <2> HIDE DEF o, f
  <2>1. CASE f = Unit
    BY <1>0, <1>4, <2>1
  <2>2. CASE o = 0
    BY <1>0, <1>4, <2>2
  <2>. QED BY <1>5, <2>1, <2>2
<1>7. /\ seen.current = NoImage /\ seen.outgoing = slot.outgoing
      /\ seen.fade = slot'.fade /\ seen.opacity = slot'.opacity
  <2>1. slot = [outgoing |-> slot.outgoing, current |-> slot.current,
                fade |-> slot.fade, opacity |-> slot.opacity]
    BY <1>1, SlotParts
  <2>. QED BY <2>1
<1> HIDE DEF seen
<1>8. Weight(seen, slot.outgoing) = 0 + o * (Unit - f)
  BY <1>3, <1>7 DEF Weight
<1>9. Weight(seen, slot.outgoing) = 0
  BY <1>6, <1>8
<1>. QED BY <1>9 DEF seen

(* Whatever interrupts a movement - an arrival, a crossfade, a departure,  *)
(* a reload or a scroll - no image jumps by more than half of the frame,   *)
(* none is dropped while something of it is seen, and the one leaving      *)
(* stays where it was drawn, for every transition, at every precision of   *)
(* the values (wallpaper.rs:91-168, monitor.rs:95-135).                    *)
THEOREM Gentle == SlotSpec => InterruptedGently
<1> DEFINE Step == HalfJump /\ DropsUnseen /\ (slot.current # slot.outgoing => StaysInPlace)
<1>1. CrossfadeInv /\ [SlotNext]_slotVars => [Step]_slotVars
  <2> SUFFICES ASSUME CrossfadeInv, SlotNext PROVE Step
    OBVIOUS
  <2>1. ASSUME NEW next \in Images, SetWallpaper(next) PROVE Step
    <3>1. slot'.current # slot.current
      <4>1. SlotTypeOK /\ next # slot.current /\ slot' = SetSlot(slot, next, transition)
        BY <2>1 DEF SetWallpaper, CrossfadeInv
      <4>2. slot'.current = next
        BY <4>1, SetFacts
      <4>. QED BY <4>1, <4>2
    <3>2. HalfJump
      <4>1. SlotTypeOK
        BY DEF CrossfadeInv
      <4>. QED BY <2>1, <4>1, SetJumps DEF HalfJump
    <3>3. DropsUnseen
      BY <3>1 DEF DropsUnseen
    <3>4. slot.current # slot.outgoing => StaysInPlace
      BY <2>1, SetHolds
    <3>. QED BY <3>2, <3>3, <3>4
  <2>2. CASE TickFrame
    <3>1. SlotTypeOK /\ slot' = TickSlot(slot, 1)
          /\ kept' = (IF slot'.outgoing = NoImage THEN Unset ELSE kept)
          /\ (kept = Unset <=> slot.outgoing = NoImage)
      BY <2>2 DEF TickFrame, CrossfadeInv
    <3>2. slot'.current = slot.current /\ slot'.outgoing \in {NoImage, slot.outgoing}
      BY <3>1, TickFacts
    <3>3. StaysInPlace
      BY <3>1, <3>2 DEF StaysInPlace, OutgoingAt
    <3>. QED BY <2>2, <3>2, <3>3, TickDropsUnseen DEF HalfJump
  <2>3. CASE ReloadTransition \/ Scroll
    <3>1. slot' = slot /\ kept' = kept /\ (share' = share \/ share' \in Shares)
      BY <2>3 DEF ReloadTransition, Scroll
    <3>2. kept = Unset <=> slot.outgoing = NoImage
      BY DEF CrossfadeInv
    <3>3. slot.outgoing # NoImage => OutgoingAt' = OutgoingAt
      BY <3>1, <3>2 DEF OutgoingAt
    <3>. QED BY <3>1, <3>3 DEF HalfJump, DropsUnseen, StaysInPlace
  <2>. QED BY <2>1, <2>2, <2>3 DEF SlotNext
<1>. QED BY <1>1, CrossfadeInvariance, PTL DEF SlotSpec, InterruptedGently

-----------------------------------------------------------------------------
(* Where the transition stays: what an image removed leaves behind ...     *)
LEMMA SetBehind ==
  ASSUME SlotTypeOK, NEW next \in Images, NEW s, s = SetSlot(slot, next, transition)
  PROVE /\ next = NoImage => s.fade = At(0)
        /\ IsInstant(transition) /\ IsInstant(slot.opacity.tween) => IsInstant(s.opacity.tween)
<1> DEFINE p == Presence(slot.opacity, IsArriving(slot, next), next = NoImage, transition)
           c == Crossed(slot, next, transition)
<1>1. slot = [outgoing |-> slot.outgoing, current |-> slot.current,
              fade |-> slot.fade, opacity |-> slot.opacity]
  BY SlotParts
<1>2. s = [c EXCEPT !.opacity = p]
  BY DEF SetSlot
<1>3. c = [outgoing |-> c.outgoing, current |-> c.current, fade |-> c.fade,
           opacity |-> slot.opacity]
  <2> DEFINE none == At(0)
             full == At(Unit)
             over == Retarget(At(0), Unit, transition).is
             left == Leaving(slot)
             cross(one, shown, fade) ==
               [outgoing |-> one, current |-> shown, fade |-> fade, opacity |-> slot.opacity]
  <2>1. \/ c = [slot EXCEPT !.outgoing = left, !.current = NoImage, !.fade = none]
        \/ c = [slot EXCEPT !.outgoing = NoImage, !.current = next, !.fade = full]
        \/ c = [slot EXCEPT !.outgoing = left, !.current = next, !.fade = over]
    BY DEF Crossed
  <2> HIDE DEF c, none, full, over, left
  <2>2. c \in {cross(left, NoImage, none), cross(NoImage, next, full), cross(left, next, over)}
    BY <1>1, <2>1
  <2>. QED BY <2>2
<1>4. s.opacity = p /\ s.fade = c.fade
  <2> HIDE DEF p, c
  <2>. QED BY <1>2, <1>3
<1>5. next = NoImage => c.fade = At(0)
  <2> DEFINE none == At(0)
  <2> HIDE DEF none
  <2>1. next = NoImage => c = [slot EXCEPT !.outgoing = Leaving(slot), !.current = NoImage,
                                           !.fade = none]
    BY DEF Crossed, none
  <2> HIDE DEF c
  <2>2. next = NoImage => c.fade = none
    BY <1>1, <2>1
  <2>. QED BY <2>2 DEF none
<1>6. ASSUME IsInstant(transition), IsInstant(slot.opacity.tween) PROVE IsInstant(p.tween)
  <2>1. \A v : IsInstant(At(v).tween)
    BY DEF At, IsInstant, Instant, Tween
  <2>2. \A a, to : IsInstant(a.tween) => IsInstant(Retarget(a, to, transition).is.tween)
    BY <1>6, <2>1, Zenon DEF Retarget
  <2>. QED BY <1>6, <2>1, <2>2 DEF Presence
<1>. QED BY <1>4, <1>5, <1>6

(* ... and a frame does not touch: what rests goes on resting.             *)
LEMMA TickBehind ==
  ASSUME SlotTypeOK, NEW s, s = TickSlot(slot, 1)
  PROVE /\ slot.fade = At(0) => s.fade = At(0)
        /\ IsInstant(slot.opacity.tween) => s.opacity = slot.opacity
<1> DEFINE f == Ticked(slot.fade, 1)
           p == Ticked(slot.opacity, 1)
           t == [slot EXCEPT !.fade = Ticked(@, 1), !.opacity = Ticked(@, 1)]
<1>1. /\ slot = [outgoing |-> slot.outgoing, current |-> slot.current,
                 fade |-> slot.fade, opacity |-> slot.opacity]
      /\ slot.opacity \in Animations(0..Unit)
  BY SlotParts
<1>2. t = [outgoing |-> slot.outgoing, current |-> slot.current, fade |-> f, opacity |-> p]
  <2> DEFINE t1 == [slot EXCEPT !.fade = f]
  <2>1. t = [t1 EXCEPT !.opacity = p]
    BY <1>1
  <2> HIDE DEF f, p
  <2>2. t1 = [outgoing |-> slot.outgoing, current |-> slot.current, fade |-> f,
              opacity |-> slot.opacity]
    BY <1>1
  <2> HIDE DEF t, t1
  <2>. QED BY <2>1, <2>2
<1>3. s \in {t, [t EXCEPT !.outgoing = NoImage]}
  BY DEF TickSlot
<1>4. s.fade = f /\ s.opacity = p
  <2> HIDE DEF f, p, t
  <2>. QED BY <1>2, <1>3
<1>5. slot.fade = At(0) => f = slot.fade
  BY DEF Ticked, Rests, At, Instant, Tween
<1>6. IsInstant(slot.opacity.tween) => p = slot.opacity
  <2>1. slot.opacity.elapsed \in Nat
    BY <1>1, AnimationFacts
  <2>. QED BY <2>1 DEF Ticked, Rests, IsInstant
<1>. QED BY <1>4, <1>5, <1>6

(* The invariant holds of an empty slot ...                                *)
LEMMA SteadyStarts == SlotInit => SteadyInv
<1> SUFFICES ASSUME SlotInit PROVE SteadyInv
  OBVIOUS
<1>1. slot = [outgoing |-> NoImage, current |-> NoImage, fade |-> At(Unit), opacity |-> At(Unit)]
  BY DEF SlotInit, EmptySlot
<1>2. slot.outgoing = NoImage /\ IsInstant(slot.opacity.tween)
  BY <1>1 DEF At, IsInstant, Instant, Tween
<1>. QED BY <1>2, CrossfadeStarts DEF SteadyInv

(* ... and is inductive where the transition stays.                        *)
LEMMA SteadyStep ==
  ASSUME SteadyInv, [SteadyNext]_slotVars
  PROVE SteadyInv'
<1>0. CrossfadeInv /\ SlotTypeOK
  BY DEF SteadyInv, CrossfadeInv
<1>1. ASSUME NEW next \in Images, SetWallpaper(next) PROVE SteadyInv'
  <2>1. slot' = SetSlot(slot, next, transition) /\ transition' = transition
    BY <1>1 DEF SetWallpaper
  <2>2. CrossfadeInv'
    BY <1>0, <1>1, SetKeeps
  <2>3. /\ slot'.current = next
        /\ slot'.outgoing = IF next # NoImage /\ (IsArriving(slot, next) \/ IsInstant(transition))
                            THEN NoImage ELSE Leaving(slot)
        /\ slot'.opacity.to = IF next = NoImage THEN 0 ELSE Unit
    BY <1>0, <2>1, SetFacts
  <2>4. /\ next = NoImage => slot'.fade = At(0)
        /\ IsInstant(transition) /\ IsInstant(slot.opacity.tween) => IsInstant(slot'.opacity.tween)
    BY <1>0, <2>1, SetBehind
  <2>. QED BY <2>1, <2>2, <2>3, <2>4 DEF SteadyInv
<1>2. CASE TickFrame
  <2>1. slot' = TickSlot(slot, 1) /\ transition' = transition
    BY <1>2 DEF TickFrame
  <2>2. CrossfadeInv'
    BY <1>0, <1>2, TickKeeps
  <2>3. slot'.current = slot.current /\ slot'.outgoing \in {NoImage, slot.outgoing}
    BY <1>0, <2>1, TickFacts
  <2>4. /\ slot.fade = At(0) => slot'.fade = At(0)
        /\ IsInstant(slot.opacity.tween) => slot'.opacity = slot.opacity
    BY <1>0, <2>1, TickBehind
  <2>. QED BY <2>1, <2>2, <2>3, <2>4 DEF SteadyInv
<1>3. CASE Scroll \/ UNCHANGED slotVars
  <2>1. UNCHANGED <<slot, transition, kept, due, swap, sets>> /\ share' \in Shares
    BY <1>0, <1>3 DEF Scroll, slotVars, SlotTypeOK
  <2>. QED BY <2>1 DEF SteadyInv, CrossfadeInv, SlotTypeOK
<1>4. ~(ReloadTransition /\ UNCHANGED transition)
  BY DEF ReloadTransition
<1>. QED BY <1>1, <1>2, <1>3, <1>4 DEF SlotNext, SteadyNext

(* Of the two images of a frame the nearer to its end has more of it.      *)
LEMMA MoreSeen ==
  ASSUME NEW u \in Nat, NEW o \in 0..u, NEW f \in 0..u
  PROVE /\ 2 * f >= u => o * (u - f) <= o * f
        /\ ~(2 * f >= u) => o * f <= o * (u - f)
<1>1. o \in Nat /\ f \in Nat /\ u - f \in Nat
  OBVIOUS
<1>2. 2 * f >= u => u - f <= f
  OBVIOUS
<1>3. ~(2 * f >= u) => f <= u - f
  OBVIOUS
<1>. QED BY <1>1, <1>2, <1>3, ProductGrows

(* A set reports the image seen most.                                      *)
LEMMA SetSays ==
  ASSUME SteadyInv, NEW next \in Images, SetWallpaper(next)
  PROVE SaysWhatLeaves
<1> DEFINE o == Value(slot.opacity)
           f == Value(slot.fade)
           here(w) == IF slot.current = w THEN o * f ELSE 0
           gone(w) == IF slot.outgoing = w THEN o * (Unit - f) ELSE 0
           from == IF slot'.outgoing # NoImage THEN slot'.outgoing ELSE slot.current
<1>0. Unit \in Nat \ {0}
  BY AnnouncingAssumption DEF UnitAssumption
<1>1. /\ SlotTypeOK /\ next # slot.current /\ slot' = SetSlot(slot, next, transition)
      /\ swap' = SwapOf(slot, next, transition)
  BY DEF SteadyInv, CrossfadeInv, SetWallpaper
<1>2. slot'.outgoing = IF next # NoImage /\ (IsArriving(slot, next) \/ IsInstant(transition))
                       THEN NoImage ELSE Leaving(slot)
  BY <1>1, SetFacts
<1>3. swap'.from = from
  <2>1. Crossed(slot, next, transition).outgoing = slot'.outgoing
    <3>1. slot' = [Crossed(slot, next, transition) EXCEPT !.opacity =
              Presence(slot.opacity, IsArriving(slot, next), next = NoImage, transition)]
      BY <1>1 DEF SetSlot
    <3>2. "outgoing" \in DOMAIN Crossed(slot, next, transition)
      BY <1>1, SlotParts DEF Crossed
    <3>. QED BY <3>1, <3>2
  <2>. QED BY <1>1, <2>1 DEF SwapOf
<1>4. o \in 0..Unit /\ f \in 0..Unit
  BY <1>1, SlotParts, AnimationFacts
<1>5. /\ o * f \in Nat /\ o * (Unit - f) \in Nat
      /\ 2 * f >= Unit => o * (Unit - f) <= o * f
      /\ ~(2 * f >= Unit) => o * f <= o * (Unit - f)
  <2> HIDE DEF o, f
  <2>. QED BY <1>0, <1>4, Blend, MoreSeen
<1>6. o = 0 => o * f = 0 /\ o * (Unit - f) = 0
  <2> HIDE DEF o, f
  <2>. QED BY <1>0, <1>4
<1>7. \A w \in Wallpapers : Weight(slot, w) = here(w) + gone(w) /\ w # NoImage
  BY CrossfadeAssumption DEF Weight
<1>8. slot.current = NoImage /\ slot.outgoing # NoImage => f = 0
  <2>1. Value(At(0)) = 0
    BY <1>0, AtRests
  <2>. QED BY <2>1 DEF SteadyInv
<1>9. IsInstant(transition) /\ slot.outgoing # NoImage => o = 0
  <2>1. IsInstant(slot.opacity.tween) => o = slot.opacity.to
    BY DEF Value
  <2>. QED BY <2>1 DEF SteadyInv
<1>10. Half(slot.fade) <=> 2 * f >= Unit
  BY DEF Half
<1> DEFINE a == o * f
           b == o * (Unit - f)
<1>11. /\ a \in Nat /\ b \in Nat
       /\ 2 * f >= Unit => b <= a
       /\ ~(2 * f >= Unit) => a <= b
       /\ o = 0 => a = 0 /\ b = 0
       /\ \A w \in Wallpapers : /\ w # NoImage
                                /\ Weight(slot, w) = (IF slot.current = w THEN a ELSE 0)
                                                       + (IF slot.outgoing = w THEN b ELSE 0)
  BY <1>5, <1>6, <1>7
<1> HIDE DEF o, f, a, b, from
<1>12. /\ \A w \in Wallpapers : Weight(slot, w) > 0 => from # NoImage
       /\ from # NoImage => \A w \in Wallpapers : Weight(slot, w) <= Weight(slot, from)
  <2>1. Unit - f \in Nat /\ (f = 0 => ~(2 * f >= Unit))
    BY <1>0, <1>4
  <2>2. slot.current \in Images /\ slot.outgoing \in Images
    BY <1>1, SlotParts
  <2>3. CASE slot.current = NoImage /\ slot.outgoing = NoImage
    <3>1. slot'.outgoing = NoImage
      BY <1>2, <2>3 DEF Leaving
    <3>2. \A w \in Wallpapers : Weight(slot, w) = 0
      BY <1>11, <2>3
    <3>. QED BY <2>3, <3>1, <3>2 DEF from
  <2>4. CASE slot.current = NoImage /\ slot.outgoing # NoImage /\ IsInstant(transition)
    <3>1. a = 0 /\ b = 0
      BY <1>9, <1>11, <2>4
    <3>2. from \in Images
      BY <1>2, <2>2 DEF from, Leaving, Images
    <3>3. \A w \in Wallpapers : Weight(slot, w) = 0
      BY <1>11, <3>1
    <3>. QED BY <3>2, <3>3 DEF Images
  <2>5. CASE slot.current = NoImage /\ slot.outgoing # NoImage /\ ~IsInstant(transition)
    <3>1. ~Half(slot.fade) /\ ~IsArriving(slot, next)
      BY <1>8, <1>10, <2>1, <2>5 DEF IsArriving
    <3>2. from = slot.outgoing
      BY <1>2, <2>5, <3>1 DEF from, Leaving
    <3>3. \A w \in Wallpapers : Weight(slot, w) = IF slot.outgoing = w THEN b ELSE 0
      BY <1>11, <2>5
    <3>. QED BY <1>11, <2>2, <2>5, <3>2, <3>3 DEF Images
  <2>6. CASE slot.current # NoImage /\ (slot.outgoing = NoImage \/ (next # NoImage /\ IsInstant(transition)))
    <3>1. from = slot.current
      BY <1>2, <2>6 DEF from, Leaving, IsArriving
    <3>2. \A w \in Wallpapers : Weight(slot, w) = IF slot.current = w THEN a ELSE 0
      BY <1>9, <1>11, <2>6
    <3>. QED BY <1>11, <2>2, <2>6, <3>1, <3>2 DEF Images
  <2>7. CASE slot.current # NoImage /\ slot.outgoing # NoImage /\ ~(next # NoImage /\ IsInstant(transition))
    <3>1. from = IF 2 * f >= Unit THEN slot.current ELSE slot.outgoing
      BY <1>2, <1>10, <2>7 DEF from, Leaving, IsArriving
    <3>. QED BY <1>11, <2>2, <2>7, <3>1 DEF Images
  <2>. QED BY <2>3, <2>4, <2>5, <2>6, <2>7
<1>. QED BY <1>3, <1>12 DEF SaysWhatLeaves

(* Nothing but a set reports anything.                                     *)
LEMMA StepSays ==
  ASSUME SteadyInv, [SteadyNext]_slotVars
  PROVE [SaysWhatLeaves]_slotVars
<1> SUFFICES ASSUME SteadyNext PROVE SaysWhatLeaves
  OBVIOUS
<1>1. CASE TickFrame
  <2>1. SlotTypeOK /\ slot' = TickSlot(slot, 1)
    BY <1>1 DEF TickFrame, SteadyInv, CrossfadeInv
  <2>2. slot'.current = slot.current
    BY <2>1, TickFacts
  <2>. QED BY <2>2 DEF SaysWhatLeaves
<1>2. CASE ReloadTransition \/ Scroll
  BY <1>2 DEF ReloadTransition, Scroll, SaysWhatLeaves
<1>. QED BY <1>1, <1>2, SetSays DEF SlotNext, SteadyNext

(* Under a transition that is not reloaded, the image a change of          *)
(* wallpaper reports as leaving is the one that has most of the frame, and *)
(* one is reported whenever something is seen, whatever the change         *)
(* interrupts (wallpaper.rs:95-152).                                       *)
THEOREM SeenReported == SteadySlotSpec => ReportsTheSeen
<1>1. SlotInit => SteadyInv
  BY SteadyStarts
<1>2. SteadyInv /\ [SteadyNext]_slotVars => SteadyInv'
  BY SteadyStep
<1>3. SteadyInv /\ [SteadyNext]_slotVars => [SaysWhatLeaves]_slotVars
  BY StepSays
<1>. QED BY <1>1, <1>2, <1>3, PTL DEF SteadySlotSpec, ReportsTheSeen
=============================================================================
