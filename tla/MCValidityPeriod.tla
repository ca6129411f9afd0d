-------------------------- MODULE MCValidityPeriod --------------------------
(* Instances of ValidityPeriod for TLC: settings around one week, one month, *)
(* one year, multiples of several units, one whose hours exceed an int, and  *)
(* those the constructor refuses or replaces.                                *)
EXTENDS ValidityPeriod

DaysSettings == {NotAnInteger, -1, 0, 1, 3, 6, 7, 8, 30, 31, 62, 100, 217, 364, 365, 366, 730, 11315}

Typed == {-1, 0, 1, 2, 24, 25, 100, 8760, 8761, 271560, 271561}
=============================================================================
