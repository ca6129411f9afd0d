------------------------ MODULE ValidityPeriodProofs ------------------------
(* Theorems about ValidityPeriod, for any settings and any input. *)
EXTENDS ValidityPeriod, TLAPS

\* The bound of the validator is the one of the unit shown, and the settings are in
\* order: what the handlers of the form maintain together.
InStep ==
    /\ TypeOK
    /\ defaultPeriod <= maxPeriod /\ 24 <= maxPeriod
    /\ top = MaxValue(unit)
    /\ PresetIsDefault /\ NeverRefused /\ PeriodInBounds

\* A multiple of a positive number is not less than it, or not positive.
LEMMA MultipleBound ==
    ASSUME NEW m \in Nat, m > 0, NEW q \in Int
    PROVE  /\ q >= 1 => m * q >= m
           /\ q <= 0 => m * q <= 0
           /\ q <= -1 => m * q <= -m
<1>1. q >= 1 => m * (q - 1) >= 0
  OBVIOUS
<1>2. q <= -1 => m * (q + 1) <= 0
  OBVIOUS
<1>3. m * (q - 1) = m * q - m /\ m * (q + 1) = m * q + m
  OBVIOUS
<1>4. q <= 0 => m * q <= 0
  OBVIOUS
<1> QED BY <1>1, <1>2, <1>3, <1>4

\* An int is never more than the natural number that was put into it, and is the
\* number if that fits.
LEMMA IntOfNumber ==
    ASSUME NEW n \in Nat
    PROVE  /\ ToInt(n) \in Int /\ ToInt(n) <= n
           /\ n < IntLimit => ToInt(n) = n
<1> DEFINE m == 2 * IntLimit
           y == n + IntLimit
<1>1. IntLimit \in Nat /\ IntLimit > 100
  BY PeriodAssumption
<1>2. m \in Nat /\ m > 0 /\ y \in Nat
  BY <1>1
<1> HIDE DEF m, y
<1>3. /\ y % m \in 0..m - 1 /\ y \div m \in Int
      /\ y = m * (y \div m) + (y % m)
  BY <1>2
<1>4. y \div m >= 0
  BY <1>2, <1>3, MultipleBound
<1>5. y % m <= y
  <2>1. m * (y \div m) >= 0
    BY <1>2, <1>3, <1>4
  <2> QED BY <1>2, <1>3, <2>1
<1>6. y < m => y % m = y
  <2>1. y < m => y \div m <= 0
    BY <1>2, <1>3, MultipleBound
  <2>2. y < m => y \div m = 0
    BY <1>3, <1>4, <2>1
  <2> QED BY <1>2, <1>3, <2>2
<1>7. ToInt(n) = (y % m) - IntLimit
  BY DEF ToInt, m, y
<1> QED BY <1>1, <1>2, <1>3, <1>5, <1>6, <1>7 DEF m, y

\* The hours of a unit.
LEMMA UnitHours ==
    /\ Units = {"hours", "days", "weeks", "months", "years"}
    /\ HoursIn["hours"] = 1 /\ HoursIn["days"] = 24 /\ HoursIn["weeks"] = 168
    /\ HoursIn["months"] = 744 /\ HoursIn["years"] = 8760
BY DEF Units, HoursIn

\* Each unit on offer fits into the maximum, and as many of it as fit stay within.
LEMMA FitsOfUnit ==
    ASSUME maxPeriod \in Nat, maxPeriod >= 24, NEW u \in Offered
    PROVE  /\ u \in Units
           /\ maxPeriod \div HoursIn[u] \in 1..maxPeriod
           /\ \A v \in Int : ValidityPeriod(v, u) \in Int
           /\ \A v \in Int : v <= maxPeriod \div HoursIn[u] => ValidityPeriod(v, u) <= maxPeriod
           /\ \A v \in Int : 1 <= v => 1 <= ValidityPeriod(v, u)
<1>1. CASE u = "hours"
  BY <1>1, UnitHours DEF ValidityPeriod
<1>2. CASE u = "days"
  BY <1>2, UnitHours DEF ValidityPeriod
<1>3. CASE u = "weeks"
  BY <1>3, UnitHours DEF ValidityPeriod, Offered
<1>4. CASE u = "months"
  BY <1>4, UnitHours DEF ValidityPeriod, Offered
<1>5. CASE u = "years"
  BY <1>5, UnitHours DEF ValidityPeriod, Offered
<1> QED BY <1>1, <1>2, <1>3, <1>4, <1>5 DEF Offered

\* A value up to the bound of its unit stays within the maximum, also if the bound was
\* too large for an int.
LEMMA BoundOfUnit ==
    ASSUME maxPeriod \in Nat, maxPeriod >= 24, NEW u \in Offered
    PROVE  /\ u \in Units
           /\ MaxValue(u) \in Int
           /\ maxPeriod < IntLimit => MaxValue(u) > 0
           /\ \A v \in Int : ValidityPeriod(v, u) \in Int
           /\ \A v \in Int : v <= MaxValue(u) => ValidityPeriod(v, u) <= maxPeriod
           /\ \A v \in Int : 1 <= v => 1 <= ValidityPeriod(v, u)
<1> DEFINE fits == maxPeriod \div HoursIn[u]
<1>1. fits \in 1..maxPeriod
  BY FitsOfUnit
<1>2. /\ MaxValue(u) \in Int /\ MaxValue(u) <= fits
      /\ fits < IntLimit => MaxValue(u) = fits
  BY <1>1, IntOfNumber DEF MaxValue
<1> HIDE DEF fits
<1>3. maxPeriod < IntLimit => MaxValue(u) > 0
  BY <1>1, <1>2, PeriodAssumption
<1>4. /\ u \in Units
      /\ \A v \in Int : ValidityPeriod(v, u) \in Int
      /\ \A v \in Int : v <= fits => ValidityPeriod(v, u) <= maxPeriod
      /\ \A v \in Int : 1 <= v => 1 <= ValidityPeriod(v, u)
  BY FitsOfUnit DEF fits
<1> QED BY <1>1, <1>2, <1>3, <1>4

\* The unit chosen for a number of days divides it, and fits if the days do.
LEMMA DefaultIsExact ==
    ASSUME NEW days \in Nat \ {0}
    PROVE  /\ DefaultUnit(days) \in Units \ {"hours"}
           /\ DefaultValue(days) \in Nat \ {0}
           /\ ValidityPeriod(DefaultValue(days), DefaultUnit(days)) = 24 * days
           /\ HoursIn[DefaultUnit(days)] <= 24 * days
<1>1. CASE DefaultUnit(days) = "years"
  <2>1. days % 365 = 0
    BY <1>1 DEF DefaultUnit
  <2>2. DefaultValue(days) = days \div 365
    BY <1>1 DEF DefaultValue
  <2> QED BY <1>1, <2>1, <2>2, UnitHours DEF ValidityPeriod
<1>2. CASE DefaultUnit(days) = "months"
  <2>1. days % 31 = 0
    BY <1>2 DEF DefaultUnit
  <2>2. DefaultValue(days) = days \div 31
    BY <1>2 DEF DefaultValue
  <2> QED BY <1>2, <2>1, <2>2, UnitHours DEF ValidityPeriod
<1>3. CASE DefaultUnit(days) = "weeks"
  <2>1. days % 7 = 0
    BY <1>3 DEF DefaultUnit
  <2>2. DefaultValue(days) = days \div 7
    BY <1>3 DEF DefaultValue
  <2> QED BY <1>3, <2>1, <2>2, UnitHours DEF ValidityPeriod
<1>4. CASE DefaultUnit(days) = "days"
  <2>1. DefaultValue(days) = days \div 1
    BY <1>4 DEF DefaultValue
  <2> QED BY <1>4, <2>1, UnitHours DEF ValidityPeriod
<1> QED BY <1>1, <1>2, <1>3, <1>4 DEF DefaultUnit

\* A unit of days: the default fits below the bound of the validator.
LEMMA DefaultFits ==
    ASSUME NEW days \in Nat \ {0}, NEW max \in Nat, days <= max, max < IntLimit,
           maxPeriod = 24 * max
    PROVE  DefaultValue(days) <= MaxValue(DefaultUnit(days))
<1> DEFINE u == DefaultUnit(days)
           v == DefaultValue(days)
<1>1. /\ u \in Units \ {"hours"} /\ v \in Nat \ {0}
      /\ ValidityPeriod(v, u) = 24 * days
  BY DefaultIsExact
<1> HIDE DEF u, v
<1>2. /\ v <= maxPeriod \div HoursIn[u]
      /\ maxPeriod \div HoursIn[u] \in Nat /\ maxPeriod \div HoursIn[u] <= max
  <2>1. CASE u = "days"
    BY <1>1, <2>1, UnitHours DEF ValidityPeriod
  <2>2. CASE u = "weeks"
    BY <1>1, <2>2, UnitHours DEF ValidityPeriod
  <2>3. CASE u = "months"
    BY <1>1, <2>3, UnitHours DEF ValidityPeriod
  <2>4. CASE u = "years"
    BY <1>1, <2>4, UnitHours DEF ValidityPeriod
  <2> QED BY <1>1, <2>1, <2>2, <2>3, <2>4, UnitHours
<1>3. MaxValue(u) = maxPeriod \div HoursIn[u]
  BY <1>2, IntOfNumber, PeriodAssumption DEF MaxValue
<1> QED BY <1>2, <1>3 DEF u, v

\* Every number getULong returns is natural and fits into an int.
LEMMA SettingIsNumber ==
    ASSUME NEW setting \in Settings, NEW default \in {7, 100}
    PROVE  GetULong(setting, default) \in Nat /\ GetULong(setting, default) < IntLimit
BY PeriodAssumption DEF GetULong

\* The constructor starts in step.
LEMMA InitInStep == Init => InStep
<1> SUFFICES ASSUME Init PROVE InStep
  OBVIOUS
<1>1. PICK maxDays \in Settings, defaultDays \in Settings :
        LET max     == GetULong(maxDays, 100)
            default == GetULong(defaultDays, 7)
        IN  /\ Accepts(max, default)
            /\ maxPeriod = 24 * max /\ defaultPeriod = 24 * default
            /\ unit = DefaultUnit(Least(default, max))
            /\ top = MaxValue(unit)
            /\ value = Least(DefaultValue(Least(default, max)), top)
  BY DEF Init
<1> DEFINE max     == GetULong(maxDays, 100)
           default == GetULong(defaultDays, 7)
<1>2. /\ max \in Nat \ {0} /\ default \in Nat \ {0}
      /\ default <= max /\ max < IntLimit
      /\ Least(default, max) = default
  BY <1>1, SettingIsNumber DEF Least, Accepts
<1>3. /\ maxPeriod = 24 * max /\ defaultPeriod = 24 * default
      /\ unit = DefaultUnit(default) /\ top = MaxValue(unit)
      /\ value = Least(DefaultValue(default), top)
  BY <1>1, <1>2
<1> HIDE DEF max, default
<1>4. /\ unit \in Units \ {"hours"} /\ DefaultValue(default) \in Nat
      /\ ValidityPeriod(DefaultValue(default), unit) = defaultPeriod
      /\ HoursIn[unit] <= maxPeriod
      /\ maxPeriod \in Nat /\ maxPeriod >= 24 /\ defaultPeriod \in Nat
      /\ defaultPeriod <= maxPeriod
  BY <1>2, <1>3, DefaultIsExact, UnitHours
<1>5. unit \in Offered
  BY <1>4, UnitHours DEF Offered
<1>6. top \in Int /\ (maxPeriod < IntLimit => top > 0)
  BY <1>3, <1>4, <1>5, BoundOfUnit
<1>7. value = DefaultValue(default)
  BY <1>2, <1>3, <1>4, <1>6, DefaultFits DEF Least
<1>8. TypeOK
  <2>1. canBeSet \in BOOLEAN /\ touched \in BOOLEAN
    BY Zenon DEF Init
  <2>2. outcome \in {"editing", "created", "refused"} /\ lasts \in Int
    BY DEF Init
  <2>3. value \in Int
    BY <1>4, <1>7
  <2> QED BY <1>4, <1>5, <1>6, <2>1, <2>2, <2>3, Zenon DEF TypeOK
<1>9. PresetIsDefault /\ NeverRefused /\ PeriodInBounds
  BY <1>4, <1>7 DEF Init, PresetIsDefault, NeverRefused, PeriodInBounds
<1> QED BY <1>3, <1>4, <1>8, <1>9 DEF InStep

\* Every action keeps the form in step.
LEMMA NextInStep == InStep /\ [Next]_vars => InStep'
<1> SUFFICES ASSUME InStep, [Next]_vars PROVE InStep'
  OBVIOUS
<1>0. /\ maxPeriod \in Nat /\ maxPeriod >= 24
      /\ unit \in Offered /\ top = MaxValue(unit) /\ value \in Int
      /\ TypeOK /\ PresetIsDefault /\ NeverRefused /\ PeriodInBounds
      /\ defaultPeriod <= maxPeriod
  BY DEF InStep, TypeOK
<1>1. ASSUME NEW v \in Inputs, TypeValue(v) PROVE InStep'
  <2>1. /\ UNCHANGED <<settings, unit, top, outcome, lasts>>
        /\ outcome = "editing" /\ touched' = TRUE /\ value' \in Int
    BY <1>1, PeriodAssumption DEF TypeValue
  <2>2. TypeOK'
    BY <1>0, <2>1 DEF TypeOK, Offered, settings
  <2>3. top' = MaxValue(unit)'
    BY <1>0, <2>1 DEF MaxValue, settings
  <2> QED BY <1>0, <2>1, <2>2, <2>3
          DEF InStep, settings, PresetIsDefault, NeverRefused, PeriodInBounds
<1>2. ASSUME NEW u \in Offered, SelectUnit(u) PROVE InStep'
  <2>1. /\ UNCHANGED <<settings, outcome, lasts>>
        /\ outcome = "editing" /\ touched' = TRUE /\ unit' = u
        /\ top' = MaxValue(u) /\ value' = Least(value, top')
    BY <1>2 DEF SelectUnit
  <2>2. top' \in Int /\ (maxPeriod < IntLimit => top' > 0)
    BY <1>0, <2>1, BoundOfUnit
  <2>3. value' \in Int
    BY <1>0, <2>1, <2>2 DEF Least
  <2>4. TypeOK'
    BY <1>0, <2>1, <2>2, <2>3 DEF TypeOK, Offered, settings
  <2>5. top' = MaxValue(unit)'
    BY <2>1 DEF MaxValue, settings
  <2> QED BY <1>0, <2>1, <2>4, <2>5
          DEF InStep, settings, PresetIsDefault, NeverRefused, PeriodInBounds
<1>3. CASE Create
  <2>1. /\ UNCHANGED <<settings, value, unit, top, touched>>
        /\ outcome = "editing"
        /\ outcome' = IF ~IsValid THEN "editing"
                      ELSE IF ValidityPeriod(value, unit) > maxPeriod
                      THEN "refused" ELSE "created"
        /\ lasts' = IF outcome' = "created" THEN ToInt(3600 * ValidityPeriod(value, unit)) ELSE 0
    BY <1>3 DEF Create
  <2>2. IsValid => 1 <= value /\ value <= MaxValue(unit)
    BY <1>0 DEF IsValid
  <2>3. ValidityPeriod(value, unit) \in Int
    BY <1>0, BoundOfUnit
  <2>4. IsValid => ValidityPeriod(value, unit) \in 1..maxPeriod
    BY <1>0, <2>2, <2>3, BoundOfUnit
  <2>5. outcome' # "refused" /\ (outcome' = "created" => IsValid)
    BY <1>0, <2>1, <2>4
  <2>6. IsValid => /\ ToInt(3600 * ValidityPeriod(value, unit)) \in Int
                   /\ 3600 * maxPeriod < IntLimit =>
                          ToInt(3600 * ValidityPeriod(value, unit)) = 3600 * ValidityPeriod(value, unit)
    <3> DEFINE seconds == 3600 * ValidityPeriod(value, unit)
    <3>1. IsValid => seconds \in Nat /\ seconds <= 3600 * maxPeriod
      BY <1>0, <2>4
    <3> HIDE DEF seconds
    <3>2. IsValid => ToInt(seconds) \in Int /\ (seconds < IntLimit => ToInt(seconds) = seconds)
      BY <3>1, IntOfNumber
    <3>3. IsValid => ToInt(seconds) \in Int /\ (3600 * maxPeriod < IntLimit => ToInt(seconds) = seconds)
      BY <1>0, <3>1, <3>2, PeriodAssumption
    <3> QED BY <3>3 DEF seconds
  <2>7. lasts' \in Int
    BY <2>1, <2>5, <2>6
  <2>8. TypeOK'
    BY <1>0, <2>1, <2>7 DEF TypeOK, Offered, settings
  <2>9. top' = MaxValue(unit)' /\ PresetIsDefault'
    BY <1>0, <2>1 DEF MaxValue, settings, PresetIsDefault, ValidityPeriod
  <2>10. PeriodInBounds'
    BY <2>1, <2>4, <2>5, <2>6 DEF settings, PeriodInBounds, ValidityPeriod
  <2> QED BY <1>0, <2>1, <2>5, <2>8, <2>9, <2>10 DEF InStep, settings, NeverRefused
<1>4. CASE UNCHANGED vars
  BY <1>0, <1>4 DEF vars, InStep, TypeOK, Offered, MaxValue, PresetIsDefault, NeverRefused,
                    PeriodInBounds, ValidityPeriod
<1> QED BY <1>1, <1>2, <1>3, <1>4 DEF Next

\* The form stays in step: the validator has the bound of the unit shown and the
\* fields satisfy all of the invariants, for any settings and inputs.
THEOREM FormInStep == Spec => []InStep
BY InitInStep, NextInStep, PTL DEF Spec

\* updateValidityPeriod and getValidityPeriod: the preset fields are the default.
THEOREM DefaultIsPreset == Spec => []PresetIsDefault
<1>1. InStep => PresetIsDefault
  BY DEF InStep
<1> QED BY <1>1, FormInStep, PTL

\* createShare never throws OutOfRangeValidityPeriod at a form.
THEOREM StoreNeverRefuses == Spec => []NeverRefused
<1>1. InStep => NeverRefused
  BY DEF InStep
<1> QED BY <1>1, FormInStep, PTL

\* A share created by the form is valid for an hour at least, the maximum at most.
THEOREM PeriodsInBounds == Spec => []PeriodInBounds
<1>1. InStep => PeriodInBounds
  BY DEF InStep
<1> QED BY <1>1, FormInStep, PTL
=============================================================================
