------------------------------- MODULE Chrono -------------------------------
(***************************************************************************)
(* The arithmetic of the formatters of std::chrono durations and time      *)
(* points (src/src/stl/std_chrono_formatter.cpp).                          *)
(*                                                                         *)
(* A unit is its number in the list nanosecond, microsecond, millisecond,  *)
(* second, minute, hour, day, week, month, year; its length is given in    *)
(* nanoseconds, the resolution of the host's system clock.                 *)
(***************************************************************************)
EXTENDS Integers, Sequences

CONSTANTS
    UnitLength,  \* the lengths of the units, ascending
    CountLimit   \* 2^63: counts wrap beyond this

ASSUME UnitsAssumption ==
    /\ CountLimit \in Nat \ {0}
    /\ UnitLength \in Seq(Nat \ {0}) /\ Len(UnitLength) = 10
    /\ UnitLength[1] = 1
    /\ \A i \in 1 .. 9 : UnitLength[i] < UnitLength[i + 1]
    /\ \A i \in 1 .. 7 : UnitLength[i + 1] % UnitLength[i] = 0
    /\ UnitLength[10] % UnitLength[9] = 0

Nanosecond == 1
Second == 4
Day == 7
Week == 8
Month == 9
Year == 10
Units == 1 .. 10

(* Two's complement, and division towards zero *)
Wrap(x) == ((x + CountLimit) % (2 * CountLimit)) - CountLimit

Quotient(a, b)  == IF a >= 0 THEN a \div b ELSE -((-a) \div b)
Remainder(a, b) == a - b * Quotient(a, b)

CommonDivisor(a, b) ==
    CHOOSE d \in 1 .. b : /\ a % d = 0 /\ b % d = 0
                          /\ \A e \in d + 1 .. b : ~(a % e = 0 /\ b % e = 0)

Numerator(from, to) ==
    UnitLength[from] \div CommonDivisor(UnitLength[from], UnitLength[to])

Denominator(from, to) ==
    UnitLength[to] \div CommonDivisor(UnitLength[from], UnitLength[to])

(* std::chrono::duration_cast multiplies before it divides *)
Cast(c, from, to) == Quotient(Wrap(c * Numerator(from, to)), Denominator(from, to))

(* get_duration_value *)
DurationValue(c, u, result) == Cast(c, u, result)

(* get_duration_component: what is left of the larger unit norm *)
Component(c, u, result, norm) ==
    Wrap(Cast(c, u, result) - Cast(Cast(c, u, norm), norm, result))

(* write_normalized_duration: year, month, day, hour, ... nanosecond.      *)
(* Weeks are not written.                                                  *)
Written == <<Year, Month, Day, 6, 5, 4, 3, 2, 1>>

Normalized(c, u) ==
    [i \in 1 .. 9 |-> IF i = 1 THEN DurationValue(c, u, Year)
                      ELSE Component(c, u, Written[i], Written[i - 1])]

(* make_duration_and_apply: the type that stands for a ratio *)
AppliedUnit(u) == IF u \in {Week, Month} THEN Day ELSE u

(* to_time_t and format_tm: whole seconds, and nanoseconds of a second *)
TimeTSlip(c, u) == Cast(c, u, Nanosecond) \div UnitLength[Second]

TimeT(c, u) == Cast(Cast(c, u, Nanosecond), Nanosecond, Second)

Fraction(c, u) == Remainder(Cast(c, u, Nanosecond), UnitLength[Second])

(* The [millisecond], [microsecond] and [nanosecond] of a time point *)
SubSecond(c, u) ==
    [i \in 1 .. 3 |->
        Remainder(Cast(c, u, Second - i), UnitLength[Second - i + 1] \div UnitLength[Second - i])]

(* Nothing above overflows *)
Fits(c, u) == \A i \in Units : Wrap(c * Numerator(u, i)) = c * Numerator(u, i)

Sum(s, lengths) ==
    LET total[i \in 0 .. Len(s)] == IF i = 0 THEN 0 ELSE total[i - 1] + s[i] * lengths[i]
    IN  total[Len(s)]
=============================================================================
