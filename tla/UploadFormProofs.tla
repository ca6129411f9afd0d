--------------------------- MODULE UploadFormProofs ---------------------------
(* Theorems about UploadForm, for any files, names, sizes and limit, and any *)
(* way in which the user and the browser go on.                              *)
EXTENDS UploadForm, FiniteSetTheorems, SequenceTheorems, WellFoundedInduction, TLAPS

-----------------------------------------------------------------------------
(* Sums of the sizes of finitely many files.  Total picks the files in an  *)
(* order that nothing is known of; the lemmas say that it does not matter. *)
(* A fact about all finite sets is proved from a smallest counterexample.  *)

\* A non-empty set of finite sets has a smallest member.
LEMMA SmallestSet ==
    ASSUME NEW S, IsFiniteSet(S), NEW B \in SUBSET SUBSET S, B # {}
    PROVE  \E T \in B : \A U \in B : U \subseteq T => U = T
<1>1. FiniteSubsetsOf(S) = SUBSET S
  BY FS_FiniteSubsetsOfFinite
<1>2. IsWellFoundedOn(StrictSubsetOrdering(S), SUBSET S)
  BY <1>1, FS_StrictSubsetOrderingWellFounded
<1>3. PICK T \in B : \A U \in B : <<U, T>> \notin StrictSubsetOrdering(S)
  BY <1>2, WFMin
<1> QED BY <1>3 DEF StrictSubsetOrdering

\* A file of a set that is not empty: the one Total takes first.
Pick(s) == CHOOSE f \in s : TRUE

\* sums[s] is the total of each part s of S.
IsSums(sums, S) ==
    sums = [s \in SUBSET S |-> IF s = {} THEN 0 ELSE Size[Pick(s)] + sums[s \ {Pick(s)}]]

LEMMA PickIn == \A s : s # {} => Pick(s) \in s
  BY DEF Pick

LEMMA TotalBySums ==
    ASSUME NEW S
    PROVE  Total(S) = (CHOOSE sums : IsSums(sums, S))[S]
  BY DEF Total, MapThenSumSet, MapThenFoldSet, IsSums, Pick

LEMMA SumsOfPart ==
    ASSUME NEW S, NEW sums, IsSums(sums, S), NEW s \in SUBSET S
    PROVE  /\ s = {} => sums[s] = 0
           /\ s # {} => sums[s] = Size[Pick(s)] + sums[s \ {Pick(s)}]
<1>1. sums[s] = IF s = {} THEN 0 ELSE Size[Pick(s)] + sums[s \ {Pick(s)}]
  BY DEF IsSums
<1> QED BY <1>1

\* The parts that two sets share have the same sums in both.
LEMMA SumsAgree ==
    ASSUME NEW S, IsFiniteSet(S), NEW T, NEW f, NEW g, IsSums(f, S), IsSums(g, T),
           NEW s \in SUBSET S, s \in SUBSET T
    PROVE  f[s] = g[s]
<1> DEFINE Bad == {u \in SUBSET S : u \subseteq T /\ f[u] # g[u]}
<1> SUFFICES ASSUME Bad # {} PROVE FALSE
  OBVIOUS
<1>0. Bad \in SUBSET SUBSET S
  OBVIOUS
<1>1. PICK u \in Bad : \A v \in Bad : v \subseteq u => v = u
  <2> HIDE DEF Bad
  <2> QED BY <1>0, SmallestSet
<1>2. u # {}
  BY <1>1, SumsOfPart
<1>3. Pick(u) \in u
  BY <1>2, PickIn
<1>4. u \ {Pick(u)} \notin Bad
  BY <1>1, <1>3
<1>5. f[u \ {Pick(u)}] = g[u \ {Pick(u)}]
  BY <1>1, <1>4
<1>6. f[u] = Size[Pick(u)] + f[u \ {Pick(u)}] /\ g[u] = Size[Pick(u)] + g[u \ {Pick(u)}]
  BY <1>1, <1>2, SumsOfPart
<1> QED BY <1>1, <1>5, <1>6

\* Total is defined for every finite set.
LEMMA SumsExist ==
    ASSUME NEW S, IsFiniteSet(S)
    PROVE  \E sums : IsSums(sums, S)
<1> DEFINE Bad == {T \in SUBSET S : ~\E sums : IsSums(sums, T)}
<1> SUFFICES ASSUME Bad # {} PROVE FALSE
  BY DEF Bad
<1>0. Bad \in SUBSET SUBSET S
  OBVIOUS
<1>1. PICK T \in Bad : \A U \in Bad : U \subseteq T => U = T
  <2> HIDE DEF Bad
  <2> QED BY <1>0, SmallestSet
<1> DEFINE Sums(u) == CHOOSE sums : IsSums(sums, u)
           new == [u \in SUBSET T |-> IF u = {} THEN 0
                                      ELSE Size[Pick(u)] + Sums(u \ {Pick(u)})[u \ {Pick(u)}]]
<1>2. ASSUME NEW u \in SUBSET T, u # T
      PROVE  IsSums(Sums(u), u)
  <2>1. \E sums : IsSums(sums, u)
    BY <1>1, <1>2
  <2> QED BY <2>1
<1>3. ASSUME NEW u \in SUBSET T, u # T
      PROVE  new[u] = Sums(u)[u]
  <2>1. CASE u = {}
    BY <1>2, <1>3, <2>1, SumsOfPart
  <2>2. CASE u # {}
    <3> DEFINE v == u \ {Pick(u)}
    <3>1. Pick(u) \in u
      BY <2>2, PickIn
    <3>2. v \in SUBSET T /\ v # T /\ v \in SUBSET u
      BY <1>3, <3>1
    <3>3. IsSums(Sums(u), u) /\ IsSums(Sums(v), v)
      BY <1>2, <1>3, <3>2
    <3>4. IsFiniteSet(u)
      BY FS_Subset, <1>1
    <3>5. Sums(u)[v] = Sums(v)[v]
      <4> HIDE DEF Sums, v
      <4> QED BY <3>2, <3>3, <3>4, SumsAgree
    <3>6. Sums(u)[u] = Size[Pick(u)] + Sums(u)[v]
      <4>1. u \in SUBSET u
        OBVIOUS
      <4> HIDE DEF Sums
      <4> QED BY <2>2, <3>3, <4>1, SumsOfPart
    <3>7. new[u] = Size[Pick(u)] + Sums(v)[v]
      BY <2>2
    <3> QED BY <3>5, <3>6, <3>7
  <2> QED BY <2>1, <2>2
<1>4. new = [u \in SUBSET T |-> IF u = {} THEN 0 ELSE Size[Pick(u)] + new[u \ {Pick(u)}]]
  <2>1. ASSUME NEW u \in SUBSET T, u # {}
        PROVE  new[u \ {Pick(u)}] = Sums(u \ {Pick(u)})[u \ {Pick(u)}]
    <3>1. u \ {Pick(u)} \in SUBSET T /\ u \ {Pick(u)} # T
      BY <2>1, PickIn
    <3> HIDE DEF new, Sums
    <3> QED BY <1>3, <3>1
  <2>2. \A u \in SUBSET T : new[u] = IF u = {} THEN 0 ELSE Size[Pick(u)] + new[u \ {Pick(u)}]
    <3>1. \A u \in SUBSET T :
             new[u] = IF u = {} THEN 0 ELSE Size[Pick(u)] + Sums(u \ {Pick(u)})[u \ {Pick(u)}]
      OBVIOUS
    <3> HIDE DEF new, Sums
    <3> QED BY <2>1, <3>1
  <2>3. new = [u \in SUBSET T |-> new[u]]
    OBVIOUS
  <2> HIDE DEF new
  <2> QED BY <2>2, <2>3
<1>5. IsSums(new, T)
  <2> HIDE DEF new
  <2> QED BY <1>4 DEF IsSums
<1> QED BY <1>1, <1>5

-----------------------------------------------------------------------------
\* The equations of Total.
LEMMA TotalDef ==
    ASSUME NEW S, IsFiniteSet(S)
    PROVE  /\ S = {} => Total(S) = 0
           /\ S # {} => Total(S) = Size[Pick(S)] + Total(S \ {Pick(S)})
<1> DEFINE Sums(u) == CHOOSE sums : IsSums(sums, u)
           R == S \ {Pick(S)}
<1>1. IsFiniteSet(R)
  BY FS_RemoveElement
<1>2. IsSums(Sums(S), S) /\ IsSums(Sums(R), R)
  BY <1>1, SumsExist
<1>3. Total(S) = Sums(S)[S] /\ Total(R) = Sums(R)[R]
  BY TotalBySums
<1>4. R \in SUBSET S /\ R \in SUBSET R /\ S \in SUBSET S
  OBVIOUS
<1> HIDE DEF Sums
<1>5. Sums(S)[R] = Sums(R)[R]
  <2> HIDE DEF R
  <2> QED BY <1>1, <1>2, <1>4, SumsAgree
<1> QED BY <1>2, <1>3, <1>4, <1>5, SumsOfPart

LEMMA TotalOfNone == Total({}) = 0
  BY TotalDef, FS_EmptySet

\* The sizes of files are numbers, and so is their total.
LEMMA TotalIsNat ==
    ASSUME NEW S \in SUBSET Files, IsFiniteSet(S)
    PROVE  Total(S) \in Nat
<1> DEFINE Bad == {T \in SUBSET S : Total(T) \notin Nat}
<1> SUFFICES ASSUME Bad # {} PROVE FALSE
  OBVIOUS
<1>0. Bad \in SUBSET SUBSET S
  OBVIOUS
<1>1. PICK T \in Bad : \A U \in Bad : U \subseteq T => U = T
  <2> HIDE DEF Bad
  <2> QED BY <1>0, SmallestSet
<1>2. IsFiniteSet(T) /\ T # {}
  <2>1. IsFiniteSet(T)
    BY <1>1, FS_Subset
  <2>2. T # {}
    <3>1. Total(T) \notin Nat
      BY <1>1
    <3> HIDE DEF Bad
    <3> QED BY <3>1, TotalOfNone
  <2> QED BY <2>1, <2>2
<1>3. Pick(T) \in T /\ Size[Pick(T)] \in Nat
  BY <1>1, <1>2, PickIn, FormAssumption
<1>4. Total(T \ {Pick(T)}) \in Nat
  BY <1>1, <1>3
<1>5. Total(T) = Size[Pick(T)] + Total(T \ {Pick(T)})
  BY <1>2, TotalDef
<1> QED BY <1>1, <1>3, <1>4, <1>5

\* Any file may be taken first.
LEMMA TotalWithout ==
    ASSUME NEW S \in SUBSET Files, IsFiniteSet(S), NEW f \in S
    PROVE  Total(S) = Size[f] + Total(S \ {f})
<1> DEFINE Bad == {T \in SUBSET S : \E g \in T : Total(T) # Size[g] + Total(T \ {g})}
<1> SUFFICES ASSUME Bad # {} PROVE FALSE
  OBVIOUS
<1>0. Bad \in SUBSET SUBSET S
  OBVIOUS
<1>1. PICK T \in Bad : \A U \in Bad : U \subseteq T => U = T
  <2> HIDE DEF Bad
  <2> QED BY <1>0, SmallestSet
<1>2. PICK g \in T : Total(T) # Size[g] + Total(T \ {g})
  BY <1>1
<1> DEFINE p == Pick(T)
<1>3. p \in T
  BY <1>2, PickIn
<1>4. IsFiniteSet(T) /\ \A U \in SUBSET T : IsFiniteSet(U) /\ U \in SUBSET Files
  BY <1>1, FS_Subset
<1>5. Total(T) = Size[p] + Total(T \ {p})
  BY <1>2, <1>4, TotalDef
<1>6. p # g
  BY <1>2, <1>5
<1>7. Total(T \ {p}) = Size[g] + Total((T \ {p}) \ {g})
  <2>1. T \ {p} \notin Bad /\ g \in T \ {p}
    BY <1>1, <1>2, <1>3, <1>6
  <2> QED BY <1>1, <2>1
<1>8. Total(T \ {g}) = Size[p] + Total((T \ {g}) \ {p})
  <2>1. T \ {g} \notin Bad /\ p \in T \ {g}
    BY <1>1, <1>2, <1>3, <1>6
  <2> QED BY <1>1, <2>1
<1>9. (T \ {p}) \ {g} = (T \ {g}) \ {p}
  OBVIOUS
<1>10. Size[p] \in Nat /\ Size[g] \in Nat /\ Total((T \ {g}) \ {p}) \in Nat
  <2>1. p \in Files /\ g \in Files
    BY <1>1, <1>2, <1>3
  <2>2. (T \ {g}) \ {p} \in SUBSET T
    OBVIOUS
  <2> QED BY <1>4, <2>1, <2>2, TotalIsNat, FormAssumption
<1> HIDE DEF p, Bad
<1>11. Total(T \ {p}) = Size[g] + Total((T \ {g}) \ {p})
  BY <1>7, <1>9
<1> QED BY <1>2, <1>5, <1>8, <1>10, <1>11

\* More files are not smaller, and as large only if those that are more are empty.
LEMMA TotalOfPart ==
    ASSUME NEW S \in SUBSET Files, IsFiniteSet(S), NEW T \in SUBSET S
    PROVE  /\ Total(T) <= Total(S)
           /\ \A f \in S \ T : Total(T) + Size[f] <= Total(S)
<1>1. ASSUME NEW V \in SUBSET S PROVE Total(V) <= Total(S)
  <2> DEFINE Bad == {U \in SUBSET S : V \subseteq U /\ ~(Total(V) <= Total(U))}
  <2> SUFFICES ASSUME Bad # {} PROVE FALSE
    OBVIOUS
  <2>0. Bad \in SUBSET SUBSET S
    OBVIOUS
  <2>1. PICK U \in Bad : \A W \in Bad : W \subseteq U => W = U
    <3> HIDE DEF Bad
    <3> QED BY <2>0, SmallestSet
  <2>2. /\ IsFiniteSet(U) /\ IsFiniteSet(V)
        /\ Total(U) \in Nat /\ Total(V) \in Nat
    <3>1. IsFiniteSet(U) /\ IsFiniteSet(V)
      BY <2>1, FS_Subset
    <3> QED BY <2>1, <3>1, TotalIsNat
  <2>3. PICK f \in U : f \notin V
    <3>1. V \subseteq U /\ ~(Total(V) <= Total(U))
      BY <2>1
    <3> HIDE DEF Bad
    <3>2. U # V
      BY <2>2, <3>1
    <3> QED BY <3>1, <3>2
  <2>4. Total(U) = Size[f] + Total(U \ {f})
    BY <2>1, <2>2, TotalWithout
  <2>5. Total(U \ {f}) \in Nat /\ Size[f] \in Nat
    <3>1. IsFiniteSet(U \ {f})
      BY <2>2, FS_RemoveElement
    <3> QED BY <2>1, <3>1, TotalIsNat, FormAssumption
  <2>6. Total(V) <= Total(U \ {f})
    BY <2>1, <2>3
  <2> QED BY <2>1, <2>2, <2>4, <2>5, <2>6
<1>2. ASSUME NEW f \in S \ T PROVE Total(T) + Size[f] <= Total(S)
  <2>1. Total(S) = Size[f] + Total(S \ {f})
    BY TotalWithout
  <2>2. IsFiniteSet(S \ {f}) /\ IsFiniteSet(T \cup {f}) /\ IsFiniteSet(T)
    BY FS_Subset
  <2>3. Total(T \cup {f}) = Size[f] + Total(T)
    <3>1. (T \cup {f}) \ {f} = T
      BY <1>2
    <3> QED BY <2>2, <3>1, TotalWithout
  <2>4. Total(T) \in Nat /\ Size[f] \in Nat
    BY <2>2, TotalIsNat, FormAssumption
  <2>5. Total(T \cup {f}) <= Total(S)
    BY <1>1
  <2> QED BY <2>3, <2>4, <2>5
<1> QED BY <1>1, <1>2

\* The totals of files that have nothing in common add up.
LEMMA TotalOfUnion ==
    ASSUME NEW S \in SUBSET Files, IsFiniteSet(S), NEW N \in SUBSET Files, IsFiniteSet(N),
           S \cap N = {}
    PROVE  Total(S \cup N) = Total(S) + Total(N)
<1> DEFINE Bad == {T \in SUBSET N : Total(S \cup T) # Total(S) + Total(T)}
<1> SUFFICES ASSUME Bad # {} PROVE FALSE
  OBVIOUS
<1>0. Bad \in SUBSET SUBSET N
  OBVIOUS
<1>1. PICK T \in Bad : \A U \in Bad : U \subseteq T => U = T
  <2> HIDE DEF Bad
  <2> QED BY <1>0, SmallestSet
<1>2. Total(S) \in Nat /\ Total({}) = 0 /\ S \cup {} = S
  BY TotalIsNat, TotalOfNone
<1>3. PICK f \in T : TRUE
  <2>1. Total(S \cup T) # Total(S) + Total(T)
    BY <1>1
  <2> HIDE DEF Bad
  <2>2. T # {}
    <3>1. T = {} => Total(S \cup T) = Total(S) + Total(T)
      <4> SUFFICES ASSUME T = {} PROVE Total(S) = Total(S) + Total({})
        BY <1>2
      <4> QED BY <1>2
    <3> QED BY <2>1, <3>1
  <2> QED BY <2>2
<1>4. IsFiniteSet(T) /\ IsFiniteSet(T \ {f}) /\ IsFiniteSet(S \cup T)
  <2>1. IsFiniteSet(T)
    BY <1>1, FS_Subset
  <2> QED BY <2>1, FS_RemoveElement, FS_Union
<1>5. Total(S \cup (T \ {f})) = Total(S) + Total(T \ {f})
  BY <1>1, <1>3
<1>6. Total(T) = Size[f] + Total(T \ {f})
  BY <1>1, <1>3, <1>4, TotalWithout
<1>7. Total(S \cup T) = Size[f] + Total(S \cup (T \ {f}))
  <2>1. (S \cup T) \ {f} = S \cup (T \ {f})
    BY <1>1, <1>3
  <2>2. S \cup T \in SUBSET Files /\ f \in S \cup T
    BY <1>1, <1>3
  <2> QED BY <1>4, <2>1, <2>2, TotalWithout
<1>8. Size[f] \in Nat /\ Total(T \ {f}) \in Nat
  BY <1>1, <1>3, <1>4, TotalIsNat, FormAssumption
<1> QED BY <1>1, <1>2, <1>5, <1>6, <1>7, <1>8

-----------------------------------------------------------------------------
(* The sequence of the uploads.                                            *)

\* The files of the widget are a finite set, whatever the user may drop.
LEMMA UploadsFinite ==
    ASSUME NEW s \in Seq(Files)
    PROVE  ToSet(s) \in SUBSET Files /\ IsFiniteSet(ToSet(s))
<1>1. s \in [1..Len(s) -> Files] /\ Len(s) \in Nat
  OBVIOUS
<1>2. ToSet(s) \in SUBSET Files
  BY <1>1 DEF ToSet
<1>3. s \in Surjection(1..Len(s), ToSet(s))
  BY <1>1 DEF ToSet, Surjection
<1> QED BY <1>1, <1>2, <1>3, FS_Interval, FS_Surjection

\* remove() takes one file out of the widget's list and leaves the others.
LEMMA RemovesOne ==
    ASSUME NEW s \in Seq(Files), IsInjective(s), NEW f \in ToSet(s)
    PROVE  /\ RemoveFirst(s, f) \in Seq(Files) /\ IsInjective(RemoveFirst(s, f))
           /\ ToSet(RemoveFirst(s, f)) = ToSet(s) \ {f}
<1> DEFINE I == {j \in 1..Len(s) : s[j] = f}
<1>1. s \in [1..Len(s) -> Files] /\ Len(s) \in Nat
  OBVIOUS
<1>2. PICK i \in 1..Len(s) : s[i] = f
  BY <1>1 DEF ToSet
<1>3. I = {i}
  BY <1>1, <1>2 DEF IsInjective
<1>4. Min(I) = i
  BY <1>3 DEF Min
<1>5. RemoveFirst(s, f) = SubSeq(s, 1, i - 1) \o SubSeq(s, i + 1, Len(s))
  BY <1>2, <1>3, <1>4 DEF RemoveFirst, RemoveAt, SelectInSeq
<1> DEFINE t == RemoveFirst(s, f)
<1> DEFINE before == SubSeq(s, 1, i - 1)
           after  == SubSeq(s, i + 1, Len(s))
<1>a. /\ before \in Seq(Files) /\ Len(before) = i - 1
      /\ \A j \in 1..i - 1 : before[j] = s[j]
  <2>1. \A j \in 1..i - 1 : s[j] \in Files
    BY <1>1, <1>2
  <2>2. i - 1 \in Int /\ 1 \in Int /\ Len(before) = i - 1
    BY <1>1, <1>2
  <2> QED BY <1>1, <1>2, <2>1, <2>2, SubSeqProperties
<1>b. /\ after \in Seq(Files) /\ Len(after) = Len(s) - i
      /\ \A j \in 1..Len(s) - i : after[j] = s[i + j]
  <2>1. \A j \in i + 1..Len(s) : s[j] \in Files
    BY <1>1, <1>2
  <2>2. i + 1 \in Int /\ Len(s) \in Int
    BY <1>1, <1>2
  <2>3. after \in Seq(Files) /\ Len(after) = Len(s) - i
    BY <1>1, <1>2, <2>1, <2>2, SubSeqProperties
  <2>4. \A j \in 1..Len(s) - (i + 1) + 1 : after[j] = s[(i + 1) + j - 1]
    BY <1>1, <1>2, <2>1, <2>2, SubSeqProperties
  <2>5. Len(s) - (i + 1) + 1 = Len(s) - i /\ \A j \in 1..Len(s) - i : (i + 1) + j - 1 = i + j
    BY <1>1, <1>2
  <2> HIDE DEF after
  <2> QED BY <2>3, <2>4, <2>5
<1> HIDE DEF before, after
<1>c. t = before \o after
  BY <1>5 DEF before, after
<1>6. t \in Seq(Files) /\ Len(t) = Len(s) - 1
  <2> HIDE DEF t
  <2>1. t \in Seq(Files) /\ Len(t) = Len(before) + Len(after)
    BY <1>a, <1>b, <1>c, ConcatProperties
  <2> QED BY <1>1, <1>2, <1>a, <1>b, <2>1
<1>7. \A j \in 1..Len(t) : t[j] = IF j < i THEN s[j] ELSE s[j + 1]
  <2> HIDE DEF t
  <2> SUFFICES ASSUME NEW j \in 1..Len(t)
               PROVE  t[j] = IF j < i THEN s[j] ELSE s[j + 1]
    OBVIOUS
  <2>1. t[j] = IF j <= Len(before) THEN before[j] ELSE after[j - Len(before)]
    BY <1>1, <1>2, <1>6, <1>a, <1>b, <1>c, ConcatProperties
  <2>2. CASE j < i
    BY <1>1, <1>2, <1>6, <1>a, <2>1, <2>2
  <2>3. CASE ~(j < i)
    <3>1. j - (i - 1) \in 1..Len(s) - i /\ i + (j - (i - 1)) = j + 1
      BY <1>1, <1>2, <1>6, <2>3
    <3>2. t[j] = after[j - (i - 1)]
      BY <1>1, <1>2, <1>6, <1>a, <2>1, <2>3
    <3> QED BY <1>b, <2>3, <3>1, <3>2
  <2> QED BY <2>2, <2>3
<1> HIDE DEF t
<1>8. t \in [1..Len(t) -> Files] /\ Len(t) \in Nat
  BY <1>6
<1>9. IsInjective(t)
  <2> SUFFICES ASSUME NEW a \in 1..Len(t), NEW b \in 1..Len(t), t[a] = t[b]
               PROVE  a = b
    BY <1>8 DEF IsInjective
  <2> DEFINE at(j) == IF j < i THEN j ELSE j + 1
  <2>1. at(a) \in 1..Len(s) /\ at(b) \in 1..Len(s)
    BY <1>1, <1>2, <1>6
  <2>2. s[at(a)] = s[at(b)]
    BY <1>7
  <2>3. at(a) = at(b)
    BY <1>1, <2>1, <2>2 DEF IsInjective
  <2> QED BY <1>2, <1>6, <2>3
<1>10. ToSet(t) = ToSet(s) \ {f}
  <2>1. ASSUME NEW a \in 1..Len(t) PROVE t[a] \in ToSet(s) \ {f}
    <3>1. CASE a < i
      BY <1>1, <1>2, <1>6, <1>7, <3>1 DEF ToSet, IsInjective
    <3>2. CASE ~(a < i)
      BY <1>1, <1>2, <1>6, <1>7, <3>2 DEF ToSet, IsInjective
    <3> QED BY <3>1, <3>2
  <2>2. ASSUME NEW a \in 1..Len(s), s[a] # f PROVE s[a] \in ToSet(t)
    <3>1. CASE a < i
      <4>1. a \in 1..Len(t) /\ t[a] = s[a]
        BY <1>1, <1>2, <1>6, <1>7, <3>1
      <4> QED BY <1>8, <4>1 DEF ToSet
    <3>2. CASE a > i
      <4>1. a - 1 \in 1..Len(t) /\ t[a - 1] = s[a]
        BY <1>1, <1>2, <1>6, <1>7, <3>2
      <4> QED BY <1>8, <4>1 DEF ToSet
    <3> QED BY <1>2, <2>2, <3>1, <3>2
  <2> QED BY <1>1, <1>8, <2>1, <2>2 DEF ToSet
<1> QED BY <1>6, <1>9, <1>10 DEF t

\* addFile for each of the new files.
LEMMA AddsAll ==
    ASSUME NEW s \in Seq(Files), IsInjective(s), NEW new \in Seq(Files), IsInjective(new),
           ToSet(new) \cap ToSet(s) = {}
    PROVE  /\ s \o new \in Seq(Files) /\ IsInjective(s \o new)
           /\ ToSet(s \o new) = ToSet(s) \cup ToSet(new)
<1> DEFINE t == s \o new
<1>1. /\ s \in [1..Len(s) -> Files] /\ Len(s) \in Nat
      /\ new \in [1..Len(new) -> Files] /\ Len(new) \in Nat
  OBVIOUS
<1>2. t \in Seq(Files) /\ Len(t) = Len(s) + Len(new) /\ t \in [1..Len(t) -> Files]
  <2>1. t \in Seq(Files) /\ Len(t) = Len(s) + Len(new)
    BY ConcatProperties
  <2> HIDE DEF t
  <2> QED BY <2>1
<1>3. \A j \in 1..Len(t) : t[j] = IF j <= Len(s) THEN s[j] ELSE new[j - Len(s)]
  BY <1>1
<1> HIDE DEF t
<1>4. IsInjective(t)
  <2> SUFFICES ASSUME NEW a \in 1..Len(t), NEW b \in 1..Len(t), t[a] = t[b]
               PROVE  a = b
    BY <1>2 DEF IsInjective
  <2>1. CASE a <= Len(s) /\ b <= Len(s)
    BY <1>1, <1>3, <2>1 DEF IsInjective
  <2>2. CASE a > Len(s) /\ b > Len(s)
    <3>1. a - Len(s) \in 1..Len(new) /\ b - Len(s) \in 1..Len(new)
      BY <1>1, <1>2, <2>2
    <3>2. new[a - Len(s)] = new[b - Len(s)]
      BY <1>1, <1>3, <2>2
    <3>3. a - Len(s) = b - Len(s)
      BY <1>1, <3>1, <3>2 DEF IsInjective
    <3> QED BY <1>1, <1>2, <3>3
  <2>3. ASSUME NEW x \in 1..Len(t), NEW y \in 1..Len(t), x <= Len(s), y > Len(s), t[x] = t[y]
        PROVE  FALSE
    <3>1. t[x] \in ToSet(s)
      BY <1>1, <1>3, <2>3 DEF ToSet
    <3>2. y - Len(s) \in 1..Len(new) /\ t[y] = new[y - Len(s)]
      BY <1>1, <1>2, <1>3, <2>3
    <3>3. t[y] \in ToSet(new)
      BY <1>1, <3>2 DEF ToSet
    <3> QED BY <2>3, <3>1, <3>3
  <2> QED BY <1>1, <1>2, <2>1, <2>2, <2>3
<1>5. ToSet(t) = ToSet(s) \cup ToSet(new)
  <2>1. ASSUME NEW a \in 1..Len(t) PROVE t[a] \in ToSet(s) \cup ToSet(new)
    <3>1. CASE a <= Len(s)
      BY <1>1, <1>3, <3>1 DEF ToSet
    <3>2. CASE a > Len(s)
      <4>1. a - Len(s) \in 1..Len(new) /\ t[a] = new[a - Len(s)]
        BY <1>1, <1>2, <1>3, <3>2
      <4> QED BY <1>1, <4>1 DEF ToSet
    <3> QED BY <1>1, <1>2, <3>1, <3>2
  <2>2. ASSUME NEW a \in 1..Len(s) PROVE s[a] \in ToSet(t)
    <3>1. a \in 1..Len(t) /\ t[a] = s[a]
      BY <1>1, <1>2, <1>3
    <3> QED BY <1>2, <3>1 DEF ToSet
  <2>3. ASSUME NEW a \in 1..Len(new) PROVE new[a] \in ToSet(t)
    <3>1. a + Len(s) \in 1..Len(t) /\ t[a + Len(s)] = new[a]
      BY <1>1, <1>2, <1>3
    <3> QED BY <1>2, <3>1 DEF ToSet
  <2> QED BY <1>1, <1>2, <2>1, <2>2, <2>3 DEF ToSet
<1> QED BY <1>2, <1>4, <1>5 DEF t
-----------------------------------------------------------------------------
(* The invariant.                                                          *)

\* The widget has every file once, and keeps those that it could not remove.
Sorted ==
    /\ IsInjective(uploads)
    /\ deletedFiles \subseteq ToSet(uploads)

\* What the flags and the page say of the files: the button is enabled, and the form
\* is in progress, with files that pass the checks; a form emits its files once, and
\* its files no longer change.
Stages ==
    /\ enabled => FilesPass(LiveFiles)
    /\ page = "form" => ~validated
    /\ page = "progress" => FilesPass(LiveFiles)
    /\ page = "created" => FilesPass(LiveFiles) /\ emitted = LiveFiles /\ LiveFiles \subseteq finished
    /\ page = "error" => LiveFiles \subseteq finished \/ Total(LiveFiles \ finished) = Total(Late)

\* As long as nothing was deleted or has failed, the bytes of the current upload are
\* bytes of one file that is not finished.
Received ==
    deletedFiles = {} /\ failed = {} =>
        currentReceived = 0 \/ \E f \in LiveFiles \ finished : currentReceived <= Size[f]

FormInv == TypeOK /\ Sorted /\ TotalsAgree /\ Stages /\ Received

LEMMA LiveFinite ==
    TypeOK => /\ LiveFiles \in SUBSET Files /\ IsFiniteSet(LiveFiles)
              /\ LiveFiles \cap finished \in SUBSET Files /\ IsFiniteSet(LiveFiles \cap finished)
              /\ Total(LiveFiles) \in Nat /\ Total(LiveFiles \cap finished) \in Nat
<1> SUFFICES ASSUME TypeOK PROVE /\ LiveFiles \in SUBSET Files /\ IsFiniteSet(LiveFiles)
                                 /\ LiveFiles \cap finished \in SUBSET Files
                                 /\ IsFiniteSet(LiveFiles \cap finished)
  BY TotalIsNat
<1>1. ToSet(uploads) \in SUBSET Files /\ IsFiniteSet(ToSet(uploads))
  BY UploadsFinite DEF TypeOK
<1>2. LiveFiles \in SUBSET ToSet(uploads) /\ LiveFiles \cap finished \in SUBSET ToSet(uploads)
  BY DEF LiveFiles, Live
<1>3. IsFiniteSet(LiveFiles) /\ IsFiniteSet(LiveFiles \cap finished)
  BY <1>1, <1>2, FS_Subset
<1> QED BY <1>1, <1>2, <1>3

\* So are those whose upload ended too late.
LEMMA LateFinite ==
    TypeOK /\ Sorted => Late \in SUBSET Files /\ IsFiniteSet(Late) /\ Total(Late) \in Nat
<1> SUFFICES ASSUME TypeOK, Sorted PROVE Late \in SUBSET Files /\ IsFiniteSet(Late)
  BY TotalIsNat
<1>1. ToSet(uploads) \in SUBSET Files /\ IsFiniteSet(ToSet(uploads))
  BY UploadsFinite DEF TypeOK
<1>2. Late \in SUBSET ToSet(uploads)
  BY DEF Late, Sorted
<1> QED BY <1>1, <1>2, FS_Subset

LEMMA FormInit == Init => FormInv
<1> SUFFICES ASSUME Init PROVE FormInv
  OBVIOUS
<1> USE DEF Init
<1>1. ToSet(uploads) = {} /\ LiveFiles = {}
  BY DEF ToSet, LiveFiles, Live
<1>2. TypeOK
  <2>1. uploads \in Seq(Files)
    BY EmptySeq
  <2>2. totalSize \in Nat /\ totalReceived \in Nat /\ currentReceived \in Nat
    OBVIOUS
  <2>3. /\ finished \subseteq Files /\ failed \subseteq CanFail /\ deletedFiles \subseteq Files
        /\ cancelled \subseteq deletedFiles
        /\ emitted \subseteq Files /\ page \in {"form", "progress", "created", "error"}
        /\ enabled \in BOOLEAN /\ validated \in BOOLEAN
    OBVIOUS
  <2> HIDE DEF Init
  <2> QED BY <2>1, <2>2, <2>3 DEF TypeOK
<1>3. Sorted
  BY DEF Sorted, IsInjective
<1>4. TotalsAgree
  <2>1. LiveFiles \cap finished = {} /\ Late = {}
    BY <1>1 DEF Late
  <2> QED BY <1>1, <2>1, TotalOfNone DEF TotalsAgree
<1>5. Stages /\ Received
  BY DEF Stages, Received
<1> QED BY <1>2, <1>3, <1>4, <1>5 DEF FormInv

\* New files add to the live ones; they are neither finished nor deleted.
LEMMA DropKeeps == ASSUME FormInv, NEW new \in Batches, Drop(new) PROVE FormInv'
<1> USE DEF FormInv
<1> DEFINE N == ToSet(new)
<1>1. new \in Seq(Files) /\ IsInjective(new) /\ N \cap ToSet(uploads) = {}
      /\ N \cap finished = {} /\ N \cap deletedFiles = {}
  <2> DEFINE Fresh == Files \ (ToSet(uploads) \cup finished \cup deletedFiles)
  <2>1. PICK m \in 0..2 : new \in [1..m -> Fresh]
    BY DEF Batches, SeqOf
  <2>2. new \in Seq(Fresh)
    BY <2>1
  <2>3. N \subseteq Fresh
    BY <2>1 DEF ToSet
  <2>4. new \in Seq(Files)
    BY <2>1
  <2> QED BY <2>3, <2>4 DEF Batches
<1>2. /\ uploads' \in Seq(Files) /\ IsInjective(uploads')
      /\ ToSet(uploads') = ToSet(uploads) \cup N
  BY <1>1, AddsAll DEF Drop, TypeOK, Sorted
<1>3. N \in SUBSET Files /\ IsFiniteSet(N)
  BY <1>1, UploadsFinite
<1>4. LiveFiles' = LiveFiles \cup N /\ LiveFiles \cap N = {}
      /\ LiveFiles' \cap finished' = LiveFiles \cap finished
      /\ Live(uploads', deletedFiles) = LiveFiles' /\ Late' = Late
  BY <1>1, <1>2 DEF LiveFiles, Live, Late, Drop
<1>5. Total(LiveFiles') = Total(LiveFiles) + Total(N) /\ Total(N) \in Nat
  BY <1>3, <1>4, LiveFinite, TotalOfUnion, TotalIsNat
<1>6. TypeOK'
  <2>1. enabled' \in BOOLEAN
    BY DEF Drop, FilesPass, HasDuplicateNames, IsShareSizeOverflow
  <2>2. totalSize' \in Nat
    BY <1>5 DEF Drop, TypeOK
  <2> QED BY <1>2, <2>1, <2>2 DEF TypeOK, Drop
<1>7. Sorted'
  BY <1>2 DEF Sorted, Drop
<1>8. TotalsAgree'
  BY <1>4, <1>5 DEF TotalsAgree, Drop
<1>9. Stages'
  BY <1>4 DEF Stages, Drop
<1>10. Received'
  BY <1>4 DEF Received, Drop
<1> QED BY <1>6, <1>7, <1>8, <1>9, <1>10

\* A file that is in leaves the widget, another one is marked; the live files lose it.
LEMMA DeleteKeeps == ASSUME FormInv, NEW f \in Files, DeleteFile(f) PROVE FormInv'
<1> USE DEF FormInv
<1>1. f \in LiveFiles /\ f \in ToSet(uploads) /\ f \notin deletedFiles
  BY DEF DeleteFile, LiveFiles, Live
<1>2. /\ uploads' \in Seq(Files) /\ IsInjective(uploads')
      /\ LiveFiles' = LiveFiles \ {f}
  <2>1. CASE f \in finished
    <3>1. uploads' = RemoveFirst(uploads, f) /\ deletedFiles' = deletedFiles
      BY <2>1 DEF DeleteFile
    <3>2. /\ uploads' \in Seq(Files) /\ IsInjective(uploads')
          /\ ToSet(uploads') = ToSet(uploads) \ {f}
      BY <1>1, <3>1, RemovesOne DEF TypeOK, Sorted
    <3> QED BY <3>1, <3>2 DEF LiveFiles, Live
  <2>2. CASE f \notin finished
    BY <2>2 DEF DeleteFile, TypeOK, Sorted, LiveFiles, Live
  <2> QED BY <2>1, <2>2
<1>3. /\ finished' = finished /\ failed' = failed /\ Live(uploads', deletedFiles') = LiveFiles'
      /\ Late' = Late
  BY DEF DeleteFile, LiveFiles, Late
<1>4. Total(LiveFiles) = Size[f] + Total(LiveFiles')
      /\ Total(LiveFiles') \in Nat /\ Size[f] \in Nat
  <2>1. LiveFiles' \in SUBSET LiveFiles
    BY <1>2
  <2>2. IsFiniteSet(LiveFiles') /\ LiveFiles' \in SUBSET Files
    BY <2>1, LiveFinite, FS_Subset
  <2> QED BY <1>1, <1>2, <2>2, LiveFinite, TotalWithout, TotalIsNat, FormAssumption
<1>5. f \in finished =>
         /\ Total(LiveFiles \cap finished) = Size[f] + Total(LiveFiles' \cap finished')
         /\ Total(LiveFiles' \cap finished') \in Nat
  <2> SUFFICES ASSUME f \in finished
               PROVE  /\ Total(LiveFiles \cap finished) = Size[f] + Total(LiveFiles' \cap finished')
                      /\ Total(LiveFiles' \cap finished') \in Nat
    OBVIOUS
  <2>1. LiveFiles' \cap finished' = (LiveFiles \cap finished) \ {f}
    BY <1>2, <1>3
  <2>2. IsFiniteSet((LiveFiles \cap finished) \ {f})
    BY LiveFinite, FS_RemoveElement
  <2> QED BY <1>1, <2>1, <2>2, LiveFinite, TotalWithout, TotalIsNat
<1>6. f \notin finished => LiveFiles' \cap finished' = LiveFiles \cap finished
  BY <1>2, <1>3
<1>7. totalSize' = Total(LiveFiles') /\ totalSize' \in Nat
  BY <1>4 DEF TotalsAgree, DeleteFile
<1>8. totalReceived' = Total(LiveFiles' \cap finished') + Total(Late) /\ totalReceived' \in Nat
  <2>0. Total(Late) \in Nat
    BY LateFinite
  <2>1. CASE f \in finished
    <3>1. totalReceived' = totalReceived - Size[f]
      BY <2>1 DEF DeleteFile
    <3> QED BY <1>4, <1>5, <2>0, <2>1, <3>1 DEF TotalsAgree
  <2>2. CASE f \notin finished
    BY <1>6, <2>0, <2>2, LiveFinite DEF TotalsAgree, DeleteFile
  <2> QED BY <2>1, <2>2
<1>9. TypeOK'
  <2>1. enabled' \in BOOLEAN
    BY DEF DeleteFile, FilesPass, HasDuplicateNames, IsShareSizeOverflow
  <2>2. deletedFiles' \subseteq Files /\ cancelled' \subseteq deletedFiles'
    BY DEF DeleteFile, TypeOK
  <2> QED BY <1>2, <1>7, <1>8, <2>1, <2>2 DEF TypeOK, DeleteFile
<1>10. Sorted'
  <2>1. CASE f \in finished
    <3>1. uploads' = RemoveFirst(uploads, f) /\ deletedFiles' = deletedFiles
      BY <2>1 DEF DeleteFile
    <3>2. ToSet(uploads') = ToSet(uploads) \ {f}
      BY <1>1, <3>1, RemovesOne DEF TypeOK, Sorted
    <3> QED BY <1>1, <1>2, <3>1, <3>2 DEF Sorted
  <2>2. CASE f \notin finished
    BY <1>1, <2>2 DEF Sorted, DeleteFile
  <2> QED BY <2>1, <2>2
<1>11. Stages'
  BY <1>3 DEF Stages, DeleteFile
<1>12. Received'
  BY <1>2 DEF Received, DeleteFile
<1>13. TotalsAgree'
  BY <1>3, <1>7, <1>8 DEF TotalsAgree
<1> QED BY <1>9, <1>10, <1>11, <1>12, <1>13

\* The browser learns of a deletion: no file, flag or total changes.
LEMMA CancelKeeps == ASSUME FormInv, NEW f \in Files, CancelArrives(f) PROVE FormInv'
<1> USE DEF FormInv
<1>1. /\ UNCHANGED <<uploads, finished, failed, deletedFiles, totalSize, totalReceived,
                     currentReceived, enabled, validated, page, emitted>>
      /\ LiveFiles' = LiveFiles /\ Late' = Late /\ cancelled' \subseteq deletedFiles
  BY DEF CancelArrives, widget, LiveFiles, Live, Late, TypeOK
<1>2. TypeOK'
  BY <1>1 DEF TypeOK
<1>3. Sorted' /\ TotalsAgree' /\ Stages' /\ Received'
  BY <1>1 DEF Sorted, TotalsAgree, Stages, Received, FilesPass, IsShareSizeOverflow,
              HasDuplicateNames
<1> QED BY <1>2, <1>3

\* The current file is one that is not in yet, live or deleted.
LEMMA CurrentIsNotIn ==
    ASSUME TypeOK, NEW f \in Files, IsCurrent(f)
    PROVE  f \notin finished /\ (f \in LiveFiles \/ f \in deletedFiles)
  BY DEF IsCurrent, Over, LiveFiles, Live, ToSet

\* Part of a file changes no total and no file.
LEMMA DataKeeps == ASSUME FormInv, NEW f \in Files, DataReceived(f) PROVE FormInv'
<1> USE DEF FormInv
<1>1. deletedFiles = {} => f \in LiveFiles \ finished
  BY CurrentIsNotIn DEF DataReceived
<1>2. /\ uploads' = uploads /\ finished' = finished /\ failed' = failed
      /\ deletedFiles' = deletedFiles /\ LiveFiles' = LiveFiles /\ Late' = Late
  BY DEF DataReceived, widget, LiveFiles, Live, Late
<1>3. currentReceived' \in Nat /\ currentReceived' <= Size[f]
  BY FormAssumption DEF DataReceived
<1>4. TypeOK'
  BY <1>2, <1>3 DEF TypeOK, DataReceived
<1>5. Sorted' /\ TotalsAgree' /\ Stages'
  BY <1>2 DEF Sorted, TotalsAgree, Stages, DataReceived
<1>6. Received'
  BY <1>1, <1>2, <1>3 DEF Received
<1> QED BY <1>4, <1>5, <1>6

\* A form that passes the checks emits its files once all of them are in, or ends the
\* session: late uploads make up for what is missing.
LEMMA EmitKeeps ==
    ASSUME NEW done, FilesPass(LiveFiles), EmitDone(LiveFiles, done), LiveFiles' = LiveFiles,
           finished' = done, LiveFiles \subseteq done \/ Total(LiveFiles \ done) = Total(Late'),
           enabled' => FilesPass(LiveFiles)
    PROVE  Stages'
<1>1. CASE LiveFiles \subseteq done
  BY <1>1 DEF EmitDone, Stages, FilesPass, IsShareSizeOverflow, HasDuplicateNames
<1>2. CASE ~(LiveFiles \subseteq done)
  BY <1>2 DEF EmitDone, Stages, FilesPass, IsShareSizeOverflow, HasDuplicateNames
<1> QED BY <1>1, <1>2

LEMMA EmitType ==
    ASSUME TypeOK, NEW done, EmitDone(LiveFiles, done)
    PROVE  page' \in {"created", "error"} /\ emitted' \subseteq Files
<1>1. LiveFiles \subseteq Files /\ emitted \subseteq Files
  BY LiveFinite DEF TypeOK
<1> QED BY <1>1 DEF EmitDone

\* The file counts as received once, among the live files or the late ones.
LEMMA UploadCounts ==
    ASSUME FormInv, NEW f \in Files, Uploaded(f)
    PROVE  TotalsAgree' /\ totalReceived' \in Nat
<1> USE DEF FormInv
<1>1. f \notin finished /\ (f \in LiveFiles \/ f \in deletedFiles)
  BY CurrentIsNotIn DEF Uploaded
<1>2. /\ finished' = finished \cup {f} /\ deletedFiles' = deletedFiles /\ LiveFiles' = LiveFiles
      /\ totalSize' = totalSize /\ totalReceived' = totalReceived + Size[f] /\ uploads' = uploads
  BY DEF Uploaded, LiveFiles, Live
<1> DEFINE in   == LiveFiles \cap finished
           new  == LiveFiles \cap finished'
           late == Late'
<1>3. /\ in \in SUBSET Files /\ IsFiniteSet(in) /\ Total(in) \in Nat
      /\ Late \in SUBSET Files /\ IsFiniteSet(Late) /\ Total(Late) \in Nat
      /\ Size[f] \in Nat /\ totalReceived = Total(in) + Total(Late)
  BY LiveFinite, LateFinite, FormAssumption DEF TotalsAgree
<1>4. totalReceived + Size[f] = Total(new) + Total(late)
      /\ Total(new) \in Nat /\ Total(late) \in Nat
  <2>1. CASE f \in LiveFiles
    <3>1. late = Late /\ new \ {f} = in /\ f \in new /\ new = in \cup {f}
      BY <1>1, <1>2, <2>1 DEF Late, LiveFiles, Live
    <3> HIDE DEF in, new, late
    <3>2. new \in SUBSET Files /\ IsFiniteSet(new)
      BY <1>3, <3>1, FS_AddElement
    <3>3. Total(new) = Size[f] + Total(in) /\ Total(new) \in Nat
      BY <3>1, <3>2, TotalWithout, TotalIsNat
    <3> QED BY <1>3, <3>1, <3>3
  <2>2. CASE f \notin LiveFiles
    <3>1. new = in /\ late \ {f} = Late /\ f \in late /\ late = Late \cup {f}
      BY <1>1, <1>2, <2>2 DEF Late
    <3> HIDE DEF in, new, late
    <3>2. late \in SUBSET Files /\ IsFiniteSet(late)
      BY <1>3, <3>1, FS_AddElement
    <3>3. Total(late) = Size[f] + Total(Late) /\ Total(late) \in Nat
      BY <3>1, <3>2, TotalWithout, TotalIsNat
    <3> QED BY <1>3, <3>1, <3>3
  <2> QED BY <2>1, <2>2
<1>5. totalSize' = Total(LiveFiles')
  BY <1>2 DEF TotalsAgree
<1>6. new = LiveFiles' \cap finished'
  BY <1>2
<1> HIDE DEF in, new, late
<1>7. totalReceived' = Total(LiveFiles' \cap finished') + Total(late)
  BY <1>2, <1>4, <1>6
<1> QED BY <1>2, <1>4, <1>5, <1>7 DEF TotalsAgree, late

\* If the totals agree then, late files have the size of those that are missing.
LEMMA UploadedKeeps == ASSUME FormInv, NEW f \in Files, Uploaded(f) PROVE FormInv'
<1> USE DEF FormInv
<1>1. /\ uploads' = uploads /\ finished' = finished \cup {f} /\ failed' = failed
      /\ deletedFiles' = deletedFiles /\ cancelled' = cancelled /\ LiveFiles' = LiveFiles
      /\ totalSize' = totalSize
  BY DEF Uploaded, LiveFiles, Live
<1>2. TotalsAgree' /\ totalReceived' \in Nat
  BY UploadCounts
<1>3. Sorted' /\ finished' \subseteq Files
  BY <1>1 DEF Sorted, TypeOK
<1>4. ASSUME totalReceived' = totalSize PROVE Total(LiveFiles \ finished') = Total(Late')
  <2> DEFINE new == LiveFiles \cap finished'
             out == LiveFiles \ finished'
             late == Late'
  <2>1. new \in SUBSET LiveFiles /\ out \in SUBSET LiveFiles /\ new \cap out = {}
        /\ new \cup out = LiveFiles
    OBVIOUS
  <2>2. late \in SUBSET ToSet(uploads)
    BY <1>1 DEF Late, Sorted
  <2>3. totalSize = Total(LiveFiles)
    BY DEF TotalsAgree
  <2>4. totalReceived' = Total(LiveFiles' \cap finished') + Total(late)
    BY <1>2 DEF TotalsAgree
  <2>5. totalReceived' = Total(new) + Total(late)
    BY <1>1, <2>4
  <2>6. late \subseteq Files /\ ToSet(uploads) \in SUBSET Files /\ IsFiniteSet(ToSet(uploads))
    BY <2>2, UploadsFinite DEF TypeOK
  <2> HIDE DEF new, out, late
  <2>7. IsFiniteSet(new) /\ IsFiniteSet(out) /\ new \in SUBSET Files /\ out \in SUBSET Files
    BY <2>1, LiveFinite, FS_Subset
  <2>8. IsFiniteSet(late)
    BY <2>2, <2>6, FS_Subset
  <2>9. Total(new) \in Nat /\ Total(out) \in Nat /\ Total(late) \in Nat
    BY <2>6, <2>7, <2>8, TotalIsNat
  <2>10. Total(new \cup out) = Total(new) + Total(out)
    BY <2>1, <2>7, TotalOfUnion
  <2>11. Total(LiveFiles) = Total(new \cup out)
    BY <2>1
  <2>12. Total(new) + Total(out) = Total(new) + Total(late)
    BY <1>4, <2>3, <2>5, <2>10, <2>11
  <2>13. Total(out) = Total(late)
    BY <2>9, <2>12
  <2> QED BY <2>13 DEF out, late
<1>5. Stages' /\ page' \in {"form", "progress", "created", "error"} /\ emitted' \subseteq Files
  <2>1. CASE validated /\ totalReceived' = totalSize
    <3>1. EmitDone(LiveFiles, finished') /\ enabled' = enabled
      BY <2>1 DEF Uploaded
    <3>2. FilesPass(LiveFiles)
      BY <2>1 DEF Stages, Uploaded
    <3>3. Stages'
      BY <1>1, <1>4, <2>1, <3>1, <3>2, EmitKeeps
    <3>4. page' \in {"created", "error"} /\ emitted' \subseteq Files
      BY <3>1, EmitType
    <3> QED BY <3>3, <3>4
  <2>2. CASE ~(validated /\ totalReceived' = totalSize)
    <3>1. page' = page /\ emitted' = emitted /\ validated' = validated /\ enabled' = enabled
      BY <2>2 DEF Uploaded
    <3>2. page \in {"form", "progress"}
      BY DEF Uploaded
    <3>3. Stages'
      BY <1>1, <3>1, <3>2 DEF Stages, FilesPass, IsShareSizeOverflow, HasDuplicateNames
    <3> QED BY <3>1, <3>2, <3>3 DEF TypeOK
  <2> QED BY <2>1, <2>2
<1>6. TypeOK'
  BY <1>1, <1>3, <1>2, <1>5 DEF TypeOK, Uploaded
<1>7. Received'
  BY DEF Received, Uploaded
<1> QED BY <1>3, <1>2, <1>5, <1>6, <1>7

\* Only the button changes.
LEMMA FailKeeps == ASSUME FormInv, NEW f \in Files, UploadFails(f) PROVE FormInv'
<1> USE DEF FormInv
<1>1. /\ uploads' = uploads /\ finished' = finished /\ deletedFiles' = deletedFiles
      /\ page' = page /\ emitted' = emitted /\ validated' = validated
      /\ LiveFiles' = LiveFiles /\ failed' = failed \cup {f} /\ enabled' = FilesPass(LiveFiles)
      /\ cancelled' = cancelled /\ Late' = Late
  BY DEF UploadFails, LiveFiles, Live, Late
<1>2. TypeOK'
  <2>1. enabled' \in BOOLEAN
    BY <1>1 DEF FilesPass, HasDuplicateNames, IsShareSizeOverflow
  <2> QED BY <1>1, <2>1 DEF TypeOK, UploadFails
<1>3. Sorted' /\ TotalsAgree'
  BY <1>1 DEF Sorted, TotalsAgree, UploadFails
<1>4. Stages'
  BY <1>1 DEF Stages
<1>5. Received'
  BY <1>1 DEF Received
<1> QED BY <1>2, <1>3, <1>4, <1>5

\* The button is enabled for files that pass the checks.
LEMMA ClickKeeps == ASSUME FormInv, NEW valid \in BOOLEAN, ClickCreate(valid) PROVE FormInv'
<1> USE DEF FormInv
<1>1. /\ uploads' = uploads /\ finished' = finished /\ failed' = failed
      /\ deletedFiles' = deletedFiles /\ LiveFiles' = LiveFiles
      /\ totalSize' = totalSize /\ totalReceived' = totalReceived
      /\ currentReceived' = currentReceived /\ validated' = valid
      /\ cancelled' = cancelled /\ Late' = Late
  BY DEF ClickCreate, widget, LiveFiles, Live, Late
<1>2. FilesPass(LiveFiles) /\ page = "form"
  BY DEF ClickCreate, Stages
<1>3. /\ Stages' /\ enabled' \in BOOLEAN /\ emitted' \subseteq Files
      /\ page' \in {"form", "progress", "created", "error"}
  <2>1. CASE valid /\ IsUploadComplete(LiveFiles)
    <3>1. EmitDone(LiveFiles, finished) /\ enabled' = FALSE
      BY <2>1 DEF ClickCreate
    <3>2. Stages'
      BY <1>1, <1>2, <2>1, <3>1, EmitKeeps DEF IsUploadComplete
    <3>3. page' \in {"created", "error"} /\ emitted' \subseteq Files
      BY <3>1, EmitType
    <3> QED BY <3>1, <3>2, <3>3
  <2>2. CASE valid /\ ~IsUploadComplete(LiveFiles)
    BY <1>1, <1>2, <2>2 DEF ClickCreate, Stages, TypeOK
  <2>3. CASE ~valid
    BY <1>1, <1>2, <2>3 DEF ClickCreate, Stages, TypeOK
  <2> QED BY <2>1, <2>2, <2>3
<1>4. TypeOK'
  BY <1>1, <1>3 DEF TypeOK
<1>5. Sorted' /\ TotalsAgree' /\ Received'
  BY <1>1 DEF Sorted, TotalsAgree, Received
<1> QED BY <1>3, <1>4, <1>5

LEMMA FormStep == FormInv /\ [Next]_vars => FormInv'
<1> SUFFICES ASSUME FormInv, [Next]_vars PROVE FormInv'
  OBVIOUS
<1>1. CASE UNCHANGED vars
  BY <1>1 DEF vars, FormInv, TypeOK, Sorted, TotalsAgree, Stages, Received, LiveFiles, Live,
              Late, FilesPass, IsShareSizeOverflow, HasDuplicateNames
<1>2. ASSUME NEW new \in Batches, Drop(new) PROVE FormInv'
  BY <1>2, DropKeeps
<1>3. ASSUME NEW f \in Files, DeleteFile(f) PROVE FormInv'
  BY <1>3, DeleteKeeps
<1>4. ASSUME NEW f \in Files, DataReceived(f) PROVE FormInv'
  BY <1>4, DataKeeps
<1>5. ASSUME NEW f \in Files, Uploaded(f) PROVE FormInv'
  BY <1>5, UploadedKeeps
<1>6. ASSUME NEW f \in Files, UploadFails(f) PROVE FormInv'
  BY <1>6, FailKeeps
<1>7. ASSUME NEW valid \in BOOLEAN, ClickCreate(valid) PROVE FormInv'
  BY <1>7, ClickKeeps
<1>8. ASSUME NEW f \in Files, CancelArrives(f) PROVE FormInv'
  BY <1>8, CancelKeeps
<1> QED BY <1>1, <1>2, <1>3, <1>4, <1>5, <1>6, <1>7, <1>8 DEF Next

\* The inductive invariant holds in every state of a form.
THEOREM FormInvariant == Spec => []FormInv
<1> QED BY FormInit, FormStep, PTL DEF Spec

-----------------------------------------------------------------------------
\* The totals of the form (_totalSize, _totalReceivedSize) are those of its live files,
\* and of the deleted ones whose upload could not be stopped (onFileUploaded counts
\* them as received), whatever the user does and whenever a cancellation arrives.
THEOREM TotalsAlwaysAgree == Spec => []TotalsAgree
<1>1. FormInv => TotalsAgree
  BY DEF FormInv
<1> QED BY <1>1, FormInvariant, PTL

\* What emitDone hands to the store passed checkFiles.
THEOREM EmittedFilesAlwaysPass == Spec => []EmittedFilesPass
<1>1. FormInv => EmittedFilesPass
  BY DEF FormInv, Stages, EmittedFilesPass
<1> QED BY <1>1, FormInvariant, PTL

\* A share is created with all of its files.  A form whose session ends instead had
\* them all, too, or the sizes of those missing were made up for by late uploads of
\* deleted files (onFileUploaded compares totals): emitDone throws, nothing is created.
THEOREM AlwaysCompleteWhenEmitted == Spec => []CompleteWhenEmitted
<1>1. FormInv => CompleteWhenEmitted
  BY DEF FormInv, Stages, CompleteWhenEmitted, IsUploadComplete
<1> QED BY <1>1, FormInvariant, PTL

\* A part of a whole is at most 100 percent of it.
LEMMA Percentage ==
    ASSUME NEW part \in Nat, NEW whole \in Nat \ {0}, part <= whole
    PROVE  (part * 100) \div whole <= 100
<1> DEFINE n == part * 100
<1>1. n \in Nat /\ n <= 100 * whole
  OBVIOUS
<1> HIDE DEF n
<1> SUFFICES n \div whole <= 100
  BY DEF n
<1> DEFINE q == n \div whole
<1>2. q \in Int /\ q * whole <= n
  BY <1>1
<1>3. ASSUME q >= 101 PROVE FALSE
  <2> HIDE DEF q
  <2>1. q * whole >= 101 * whole
    BY <1>2, <1>3
  <2>2. q * whole \in Int
    BY <1>2
  <2> QED BY <1>1, <1>2, <2>1, <2>2
<1> HIDE DEF q
<1> QED BY <1>2, <1>3 DEF q

\* The progress bar of a form in which nothing is deleted or fails stays below 100.
THEOREM ProgressAlwaysBounded == Spec => []ProgressBounded
<1>1. FormInv => ProgressBounded
  <2> SUFFICES ASSUME FormInv, deletedFiles = {}, failed = {}, totalSize # 0
               PROVE  Progress <= 100
    BY DEF ProgressBounded, Progress
  <2>1. totalReceived + currentReceived <= totalSize
    <3>1. LiveFiles \cap finished \in SUBSET LiveFiles
      OBVIOUS
    <3>2. /\ Total(LiveFiles \cap finished) <= Total(LiveFiles)
          /\ \A f \in LiveFiles \ finished : Total(LiveFiles \cap finished) + Size[f] <= Total(LiveFiles)
      <4> DEFINE part == LiveFiles \cap finished
      <4>1. \A f \in LiveFiles \ finished : f \in LiveFiles \ part
        OBVIOUS
      <4> HIDE DEF part
      <4>2. /\ Total(part) <= Total(LiveFiles)
            /\ \A f \in LiveFiles \ part : Total(part) + Size[f] <= Total(LiveFiles)
        BY <3>1, LiveFinite, TotalOfPart DEF FormInv, part
      <4> QED BY <4>1, <4>2 DEF part
    <3>3. \A f \in LiveFiles \ finished : Size[f] \in Nat
      BY LiveFinite, FormAssumption DEF FormInv
    <3>0. Total(Late) = 0
      <4>1. Late = {}
        BY DEF Late
      <4> QED BY <4>1, TotalOfNone
    <3>4. CASE currentReceived = 0
      BY <3>0, <3>2, <3>4, LiveFinite DEF FormInv, TotalsAgree, TypeOK
    <3>5. CASE \E f \in LiveFiles \ finished : currentReceived <= Size[f]
      <4>1. PICK f \in LiveFiles \ finished : currentReceived <= Size[f]
        BY <3>5
      <4>0. totalReceived = Total(LiveFiles \cap finished) /\ totalSize = Total(LiveFiles)
        BY <3>0, LiveFinite DEF FormInv, TotalsAgree
      <4>2. /\ totalReceived + Size[f] <= totalSize /\ Size[f] \in Nat
            /\ totalReceived \in Nat /\ totalSize \in Nat /\ currentReceived \in Nat
        BY <3>2, <3>3, <4>0, <4>1 DEF FormInv, TypeOK
      <4> QED BY <4>1, <4>2
    <3> QED BY <3>4, <3>5 DEF FormInv, Received
  <2>2. totalReceived + currentReceived \in Nat /\ totalSize \in Nat \ {0}
    BY DEF FormInv, TypeOK
  <2>3. ((totalReceived + currentReceived) * 100) \div totalSize <= 100
    BY <2>1, <2>2, Percentage
  <2> QED BY <2>3 DEF Progress
<1> QED BY <1>1, FormInvariant, PTL
=============================================================================
