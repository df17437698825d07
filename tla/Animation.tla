------------------------------ MODULE Animation ------------------------------
(***************************************************************************)
(* `Easing`, `Tween` and `Animated` (crates/domain/src/anim.rs): a value   *)
(* that eases to a target over a duration, on a clock it is ticked by.     *)
(* Operators only.  A value is an integer and time a natural number;       *)
(* progress is counted in Units, so what the program rounds to a float is  *)
(* rounded to an integer here.                                             *)
(***************************************************************************)
EXTENDS Integers

CONSTANT Unit        (* progress that is complete: 1.0                     *)

UnitAssumption == Unit \in Nat \ {0}

Easings == {"linear", "out-quad", "in-out-quad", "out-cubic", "in-out-cubic", "out-quint"}

(* `powi`, of the degrees there are.                                       *)
Power(x, n) ==
  CASE n = 1 -> x [] n = 2 -> x * x [] n = 3 -> x * x * x [] n = 5 -> x * x * x * x * x

(* `Easing::eval` of elapsed / duration.                                   *)
Eval(easing, elapsed, duration) ==
  LET d == duration
      e == elapsed
      left == d - e
      OutBy(n) == (Unit * (Power(d, n) - Power(left, n))) \div Power(d, n)
      Early(n) == (Power(2, n - 1) * Unit * Power(e, n)) \div Power(d, n)
      Late(n) == (Power(2, n - 1) * Unit * Power(left, n)) \div Power(d, n)
      InOutBy(n) == IF 2 * e < d THEN Early(n) ELSE Unit - Late(n)
  IN CASE easing = "linear" -> (Unit * e) \div d
       [] easing = "out-quad" -> OutBy(2)
       [] easing = "in-out-quad" -> InOutBy(2)
       [] easing = "out-cubic" -> OutBy(3)
       [] easing = "in-out-cubic" -> InOutBy(3)
       [] easing = "out-quint" -> OutBy(5)

Tween(duration, easing) == [duration |-> duration, easing |-> easing]
Instant == Tween(0, "linear")
IsInstant(tween) == tween.duration = 0

(* `Animated::new` and `snap`. *)
At(value) == [from |-> value, to |-> value, elapsed |-> 0, tween |-> Instant]

Value(a) ==
  IF IsInstant(a.tween) THEN a.to
  ELSE a.from + ((a.to - a.from) * Eval(a.tween.easing, a.elapsed, a.tween.duration)) \div Unit

Rests(a) == a.elapsed >= a.tween.duration

NoMove == [to |-> "none"]
Move(from, to, tween) == [from |-> from, to |-> to, tween |-> tween]

(* `Animated::retarget`: the animation it leaves, and the move it reports. *)
Retarget(a, to, tween) ==
  IF a.to = to /\ a.tween.easing = tween.easing
  THEN [is |-> a, move |-> NoMove]
  ELSE IF IsInstant(tween) \/ Value(a) = to
  THEN [is |-> At(to), move |-> IF Value(a) # to \/ ~Rests(a) THEN Move(Value(a), to, Instant)
                                ELSE NoMove]
  ELSE [is |-> [from |-> Value(a), to |-> to, elapsed |-> 0, tween |-> tween],
        move |-> Move(Value(a), to, tween)]

(* `monitor::place`: a jump, reported as one unless it is none.            *)
Place(a, to) ==
  IF Value(a) = to THEN [is |-> a, move |-> NoMove]
  ELSE [is |-> At(to), move |-> Move(Value(a), to, Instant)]

(* `Animated::tick`. *)
Ticked(a, dt) ==
  IF Rests(a) THEN a
  ELSE [a EXCEPT !.elapsed = IF @ + dt < a.tween.duration THEN @ + dt ELSE a.tween.duration]
=============================================================================
