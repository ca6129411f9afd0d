--------------------------- MODULE ValidityPeriod ---------------------------
(***************************************************************************)
(* The validity period of a new share: the settings it is bounded by, as   *)
(* read from the configuration file, the two fields of the creation form   *)
(* (ShareCreateFormModel), their validator, the check of the store, and    *)
(* the time until the share expires.                                       *)
(*                                                                         *)
(* The form works with a number and a unit and bounds the number; the      *)
(* store works with a duration and bounds that.  They must agree, because  *)
(* the store only looks when the uploads have already been taken over.     *)
(* The settings may be anything; the bound and the seconds are put into an *)
(* int, which has two's complement.                                        *)
(***************************************************************************)
EXTENDS Integers

CONSTANTS
    Settings,      \* what the configuration file says of each setting in days
    NotAnInteger,  \* a setting that is missing or of another type
    IntLimit,      \* the first number that is too large for an int
    Inputs         \* the numbers a user types

ASSUME PeriodAssumption ==
    /\ IntLimit \in Nat /\ IntLimit > 100
    /\ Settings \subseteq (-IntLimit..IntLimit - 1) \cup {NotAnInteger}
    /\ Inputs \subseteq Int

VARIABLES
    maxPeriod,      \* _maxValidityPeriod, in hours
    defaultPeriod,  \* _defaultValidityPeriod, in hours
    canBeSet,       \* _canValidityPeriodBeSet: the fields are shown
    value,          \* ValidityPeriodField
    unit,           \* ValidityPeriodUnitField
    top,            \* the upper bound of the validator of the value
    touched,        \* the user has changed a field
    outcome,        \* "editing", "created", or "refused" by the store
    lasts           \* the seconds until the share created expires

vars == <<maxPeriod, defaultPeriod, canBeSet, value, unit, top, touched, outcome, lasts>>

settings == <<maxPeriod, defaultPeriod, canBeSet>>
-----------------------------------------------------------------------------
\* Config::getULong, through libconfig: an unsigned int of a negative integer is 0.
GetULong(setting, default) ==
    IF setting = NotAnInteger THEN default
    ELSE IF setting < 0 THEN 0 ELSE setting

\* A number that is put into an int.
ToInt(n) == ((n + IntLimit) % (2 * IntLimit)) - IntLimit

HoursIn == [hours |-> 1, days |-> 24, weeks |-> 24 * 7, months |-> 24 * 31,
            years |-> 24 * 365]

Units == DOMAIN HoursIn

\* initializeModels: hours and days always, the others if the maximum allows one.
Offered == {"hours", "days"} \cup {u \in {"weeks", "months", "years"} : maxPeriod >= HoursIn[u]}

Least(x, y) == IF x < y THEN x ELSE y

\* updateValidityPeriod: the largest unit that the days are a multiple of.
DefaultUnit(days) ==
    IF days % 365 = 0 THEN "years"
    ELSE IF days % 31 = 0 THEN "months"
    ELSE IF days % 7 = 0 THEN "weeks"
    ELSE "days"

\* updateValidityPeriod: how many of them.
DefaultValue(days) ==
    days \div [years |-> 365, months |-> 31, weeks |-> 7, days |-> 1][DefaultUnit(days)]

\* updatePeriodValidator: the largest value of a unit.
MaxValue(u) == ToInt(maxPeriod \div HoursIn[u])

\* getValidityPeriod
ValidityPeriod(v, u) == v * HoursIn[u]

\* Bug: only one of the two settings is looked at.
AcceptsMax(max, default) == max > 0

\* The constructor of ShareManager throws otherwise, and the server does not start.
Accepts(max, default) == max > 0 /\ default > 0 /\ max >= default

\* The settings of a server that runs, and the form as its constructors leave it.
Init ==
    /\ \E maxDays, defaultDays \in Settings :
          LET max     == GetULong(maxDays, 100)
              default == GetULong(defaultDays, 7)
          IN  /\ Accepts(max, default)
              /\ maxPeriod = 24 * max /\ defaultPeriod = 24 * default
              /\ unit = DefaultUnit(Least(default, max))
              /\ top = MaxValue(unit)
              /\ value = Least(DefaultValue(Least(default, max)), top)
    /\ canBeSet \in BOOLEAN
    /\ touched = FALSE /\ outcome = "editing" /\ lasts = 0
-----------------------------------------------------------------------------
TypeValue(v) ==
    /\ outcome = "editing" /\ canBeSet
    /\ value' = v /\ touched' = TRUE
    /\ UNCHANGED <<settings, unit, top, outcome, lasts>>

\* Bug: the validator keeps the bound of the unit before.
SelectUnitOnly(u) ==
    /\ outcome = "editing" /\ canBeSet
    /\ unit' = u /\ touched' = TRUE
    /\ UNCHANGED <<settings, value, top, outcome, lasts>>

\* The changed handler of the unit: the bound follows, and so does a value above it.
SelectUnit(u) ==
    /\ outcome = "editing" /\ canBeSet
    /\ unit' = u /\ touched' = TRUE
    /\ top' = MaxValue(u)
    /\ value' = Least(value, top')
    /\ UNCHANGED <<settings, outcome, lasts>>

\* Bug: the lower bound is not set.
IsValidNoBottom == value <= top

\* WIntValidator
IsValid == 1 <= value /\ value <= top

\* The create button: an invalid form stays, a valid one goes to the store, which adds
\* the seconds to the time of the day (WDateTime::addSecs takes an int).
Create ==
    /\ outcome = "editing"
    /\ outcome' = IF ~IsValid THEN "editing"
                  ELSE IF ValidityPeriod(value, unit) > maxPeriod THEN "refused" ELSE "created"
    /\ lasts' = IF outcome' = "created" THEN ToInt(3600 * ValidityPeriod(value, unit)) ELSE 0
    /\ UNCHANGED <<settings, value, unit, top, touched>>

Next == \/ \E v \in Inputs : TypeValue(v)
        \/ \E u \in Offered : SelectUnit(u)
        \/ Create

Spec == Init /\ [][Next]_vars
-----------------------------------------------------------------------------
\* In each unit the form offers or presets, at least one value is valid, if the maximum
\* in hours is an int.
TypeOK ==
    /\ maxPeriod \in Nat /\ defaultPeriod \in Nat
    /\ canBeSet \in BOOLEAN /\ touched \in BOOLEAN
    /\ value \in Int /\ unit \in Offered /\ top \in Int
    /\ maxPeriod < IntLimit => top > 0
    /\ lasts \in Int
    /\ outcome \in {"editing", "created", "refused"}

\* The form starts with the configured default, whatever unit it is shown in.
PresetIsDefault == ~touched => ValidityPeriod(value, unit) = defaultPeriod

\* The store never refuses a period the form accepts: its uploads have been taken
\* over by then, and nobody would own them.
NeverRefused == outcome # "refused"

\* "Period of validity, from one hour": a share is created for at least an hour and
\* at most the maximum, after any sequence of changes of the two fields; and it lasts
\* as long as the fields say, if the seconds of the maximum are an int.
PeriodInBounds ==
    outcome = "created" =>
        /\ ValidityPeriod(value, unit) \in 1..maxPeriod
        /\ 3600 * maxPeriod < IntLimit => lasts = 3600 * ValidityPeriod(value, unit)
=============================================================================
