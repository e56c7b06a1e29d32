---------------------------- MODULE SplashProofs ----------------------------
(* Theorems about Splash, for any screens, themes, commands and orders of   *)
(* the timeouts.                                                            *)
EXTENDS Splash, FiniteSetTheorems, SequenceTheorems, WellFoundedInduction,
        TLAPS

-----------------------------------------------------------------------------
(* The inductive invariant                                                  *)

(* The themes that have something to stop, and those with a timer for it.   *)
StopTheme == {"two-step", "fade-throbber", "space-flares", "script"}
TimerTheme == {"fade-throbber", "space-flares", "script"}

(* What every function of a plugin keeps: the stop trigger waits for the    *)
(* pulls that are owed, and timeouts run only while the plugin animates,    *)
(* on views that it has, but for end animations that it was asked for when  *)
(* it had stopped.                                                          *)
Paired(s) == s.stop + 1 = s.lost + OwedIn(s.view, Display)

Runs(v) == v.pays => v.anim \in {"running", "stopping"}

Calm(s) ==
    /\ \A d \in Display :
           /\ Runs(s.view[d])
           /\ s.view[d].spinning =>
                  d \in s.views /\ s.animating /\ s.theme = "two-step"
           /\ s.view[d].anim = "running" =>
                  /\ d \in s.views /\ s.theme = "two-step"
                  /\ s.animating \/ s.view[d].still
    /\ s.timer => s.animating /\ s.theme \in TimerTheme
    /\ s.theme \in StopTheme /\ s.animating => s.loop
    /\ s.theme \notin TextTheme => s.kernel
    /\ s.theme \in TextTheme => s.views = {}

Sound(s) == s \in SplashObject /\ Paired(s) /\ Calm(s)

(* While a two-step splash animates each view has its throbber or its end   *)
(* animation.                                                               *)
AllTakePart(s) ==
    s.theme = "two-step" /\ s.animating /\ s.throbber /\ s.useEnd
        => \A d \in s.views : s.view[d].spinning \/ s.view[d].anim # "stopped"

TakesPart(s) == s.visible => AllTakePart(s)

(* The script plugin listens to the keyboard of the shell, while it plays.  *)
Listens(s) == s.listening => s.keyboard /\ s.animating /\ s.theme = "script"

(* What the shell keeps: displays and frame timer.                          *)
Held(s) ==
    /\ s.frames = s.shown
    /\ s.left \subseteq {"orphan"}
    /\ \A d \in Display :
           s.paused[d] = IF s.shown /\ d \in s.views THEN 1 ELSE 0

(* Messages wait for the end of a prompt only.                              *)
Waits(s) == s.theme = "details" /\ ~s.prompt => s.queue = <<>>

(* A splash that was shown once.                                            *)
Up(s) ==
    /\ s.mode # "invalid"
    /\ s.theme \in {"two-step", "fade-throbber", "space-flares"} => s.loop

Fit(s) ==
    Sound(s) /\ TakesPart(s) /\ Listens(s) /\ Held(s) /\ Waits(s) /\ Up(s)

Fresh == NewSplash("text", FALSE, FALSE)

(* While a splash is there, it fits, and a details splash has what it was   *)
(* given.                                                                   *)
Plays ==
    /\ Fit(splash)
    /\ splash.views \subseteq plugged
    /\ splash.theme = "details" => splash.written \o splash.queue = accepted

IInv ==
    /\ TypeOK
    /\ Sound(splash) /\ TakesPart(splash)
    /\ phase = "none" => splash = Fresh /\ accepted = <<>>
    /\ phase \notin {"none", "gone"} => Plays
    /\ GoneLeavesNothing
-----------------------------------------------------------------------------
(* Sums over the subsets of a finite set                                    *)

(* What holds of a set if it holds of its smaller subsets holds of all.     *)
LEMMA SubsetsInduction ==
  ASSUME NEW S, IsFiniteSet(S), NEW P,
         \A s \in SUBSET S : (\A r \in SUBSET s : r # s => r \in P) => s \in P
  PROVE  S \in P
<1>1. SUFFICES ASSUME S \notin P PROVE FALSE
  OBVIOUS
<1>2. PICK T : T = (SUBSET S) \ P
  OBVIOUS
<1>3. T # {} /\ T \subseteq FiniteSubsetsOf(S)
  BY <1>1, <1>2, FS_Subset DEF FiniteSubsetsOf
<1>4. PICK s \in T : \A r \in T : <<r, s>> \notin StrictSubsetOrdering(S)
  <2>1. IsWellFoundedOn(StrictSubsetOrdering(S), FiniteSubsetsOf(S))
    BY FS_StrictSubsetOrderingWellFounded
  <2> QED
    BY <1>3, <2>1, WFMin
<1>5. ASSUME NEW r \in SUBSET s, r # s PROVE r \in P
  <2>1. <<r, s>> \in StrictSubsetOrdering(S)
    BY <1>2, <1>5 DEF StrictSubsetOrdering
  <2> QED
    BY <1>2, <1>4, <2>1
<1> QED
  BY <1>2, <1>4, <1>5

LEMMA LeastIs ==
  ASSUME NEW T \in SUBSET Nat, T # {}
  PROVE  \E n \in T : \A m \in T : n <= m
<1>1. PICK B : B = {1..n : n \in T}
  OBVIOUS
<1>2. B # {} /\ B \subseteq FiniteSubsetsOf(Nat)
  <2> SUFFICES ASSUME NEW n \in T PROVE 1..n \in FiniteSubsetsOf(Nat)
    BY <1>1
  <2>1. IsFiniteSet(1..n)
    BY FS_Interval
  <2> QED BY <2>1 DEF FiniteSubsetsOf
<1>3. PICK b \in B : \A c \in B : <<c, b>> \notin StrictSubsetOrdering(Nat)
  BY <1>2, FS_StrictSubsetOrderingWellFounded, WFMin
<1>4. PICK n \in T : b = 1..n
  BY <1>1
<1>5. ASSUME NEW m \in T, m < n PROVE FALSE
  <2>1. n \in 1..n /\ n \notin 1..m /\ 1..m \subseteq 1..n
    BY <1>5
  <2>2. <<1..m, 1..n>> \in StrictSubsetOrdering(Nat)
    BY <2>1 DEF StrictSubsetOrdering
  <2> QED BY <1>1, <1>3, <1>4, <2>2
<1> QED
  BY <1>4, <1>5

Pick(s) == CHOOSE x \in s : TRUE

(* sum[s] is the sum of the numbers c[x] of the elements x of s.            *)
SumOf(sum, c, s) == IF s = {} THEN 0 ELSE c[Pick(s)] + sum[s \ {Pick(s)}]

Sums(sum, c, S) == \A s \in SUBSET S : sum[s] = SumOf(sum, c, s)

LEMMA SumExists ==
  ASSUME NEW S, IsFiniteSet(S), NEW c \in [S -> Nat]
  PROVE  \E sum \in [SUBSET S -> Nat] : Sums(sum, c, S)
<1> DEFINE Then1(sum) == [s \in SUBSET S |-> SumOf(sum, c, s)]
           UpTo(n, sum) == \A s \in SUBSET S :
                               Cardinality(s) <= n => sum[s] = SumOf(sum, c, s)
           Reached == {n \in Nat : \E sum \in [SUBSET S -> Nat] : UpTo(n, sum)}
<1>1. \A s \in SUBSET S : IsFiniteSet(s) /\ Cardinality(s) \in Nat
  BY FS_Subset, FS_CardinalityType
<1>2. ASSUME NEW s \in SUBSET S, s # {}
      PROVE  /\ Pick(s) \in s
             /\ s \ {Pick(s)} \in SUBSET S
             /\ Cardinality(s \ {Pick(s)}) = Cardinality(s) - 1
  <2>1. Pick(s) \in s
    BY <1>2 DEF Pick
  <2> QED
    BY <1>1, <2>1, FS_RemoveElement
<1>3. ASSUME NEW sum \in [SUBSET S -> Nat] PROVE Then1(sum) \in [SUBSET S -> Nat]
  <2>1. ASSUME NEW s \in SUBSET S PROVE SumOf(sum, c, s) \in Nat
    <3>1. CASE s = {}
      BY <3>1 DEF SumOf
    <3>2. CASE s # {}
      <4>1. c[Pick(s)] \in Nat /\ sum[s \ {Pick(s)}] \in Nat
        BY <1>2, <1>3, <3>2
      <4> QED
        BY <3>2, <4>1 DEF SumOf
    <3> QED
      BY <3>1, <3>2
  <2> QED
    BY <2>1
<1>4. 0 \in Reached
  <2>1. PICK sum : sum = [s \in SUBSET S |-> 0]
    OBVIOUS
  <2>2. sum \in [SUBSET S -> Nat]
    BY <2>1
  <2>3. ASSUME NEW s \in SUBSET S, Cardinality(s) <= 0 PROVE s = {}
    BY <1>1, <2>3, FS_EmptySet
  <2> QED
    BY <2>1, <2>2, <2>3 DEF SumOf
<1>5. ASSUME NEW n \in Reached PROVE n + 1 \in Reached
  <2>1. PICK sum \in [SUBSET S -> Nat] : UpTo(n, sum)
    OBVIOUS
  <2>2. PICK tum : tum = Then1(sum)
    OBVIOUS
  <2>3. ASSUME NEW s \in SUBSET S, Cardinality(s) <= n + 1
        PROVE  tum[s] = SumOf(tum, c, s)
    <3>1. CASE s = {}
      BY <2>2, <3>1 DEF SumOf
    <3>2. CASE s # {}
      <4>1. Cardinality(s \ {Pick(s)}) <= n
        <5>1. n \in Nat /\ Cardinality(s) \in Nat
          BY <1>1, <1>5
        <5>2. PICK m : m = Cardinality(s)
          OBVIOUS
        <5>3. Cardinality(s \ {Pick(s)}) = m - 1 /\ m <= n + 1 /\ m \in Nat
          BY <1>2, <2>3, <3>2, <5>1, <5>2
        <5> QED
          BY <5>1, <5>3
      <4>2. tum[s \ {Pick(s)}] = sum[s \ {Pick(s)}]
        BY <1>2, <2>1, <2>2, <3>2, <4>1
      <4> QED
        BY <2>2, <3>2, <4>2 DEF SumOf
    <3> QED
      BY <3>1, <3>2
  <2>4. tum \in [SUBSET S -> Nat] /\ n + 1 \in Nat
    <3>1. n \in Nat
      BY <1>5
    <3>2. Then1(sum) \in [SUBSET S -> Nat]
      BY <1>3, <2>1
    <3> HIDE DEF Then1
    <3> QED
      BY <3>1, <3>2, <2>2
  <2>5. UpTo(n + 1, tum)
    BY <2>3, <2>4
  <2>6. \E kt \in [SUBSET S -> Nat] : UpTo(n + 1, kt)
    BY <2>4, <2>5
  <2> QED
    BY <2>4, <2>6
<1>6. Reached = Nat
  <2>1. PICK R : R = Reached
    OBVIOUS
  <2>2. R \subseteq Nat /\ 0 \in R /\ \A n \in R : n + 1 \in R
    <3> HIDE DEF Reached
    <3>1. Reached \subseteq Nat
      BY DEF Reached
    <3> QED
      BY <1>4, <1>5, <2>1, <3>1
  <2>3. ASSUME NEW n \in Nat \ R, \A m \in Nat \ R : n <= m PROVE FALSE
    <3>1. n # 0
      BY <2>2
    <3>2. n - 1 \in Nat /\ (n - 1) + 1 = n /\ ~(n <= n - 1)
      BY <3>1
    <3> QED
      BY <2>2, <2>3, <3>2
  <2>4. Nat \ R = {}
    BY <2>3, LeastIs
  <2> HIDE DEF Reached
  <2> QED
    BY <2>1, <2>2, <2>4
<1>7. PICK n : n = Cardinality(S) /\ n \in Nat
  BY <1>1
<1>8. PICK sum \in [SUBSET S -> Nat] : UpTo(n, sum)
  BY <1>6, <1>7
<1>9. \A s \in SUBSET S : Cardinality(s) <= n
  BY <1>7, FS_Subset
<1> QED
  BY <1>8, <1>9 DEF Sums

(* There is one such function only.                                         *)
LEMMA SumIsUnique ==
  ASSUME NEW S, IsFiniteSet(S), NEW c, NEW sum, NEW tum,
         Sums(sum, c, S), Sums(tum, c, S)
  PROVE  sum[S] = tum[S]
<1>1. PICK P : P = {s \in SUBSET S : sum[s] = tum[s]}
  OBVIOUS
<1>2. ASSUME NEW s \in SUBSET S, \A r \in SUBSET s : r # s => r \in P
      PROVE  s \in P
  <2>1. CASE s = {}
    BY <1>1, <2>1 DEF Sums, SumOf
  <2>2. CASE s # {}
    <3>1. Pick(s) \in s
      BY <2>2 DEF Pick
    <3>2. s \ {Pick(s)} \in P
      BY <1>2, <3>1
    <3>3. sum[s \ {Pick(s)}] = tum[s \ {Pick(s)}]
      BY <1>1, <3>2
    <3> QED
      BY <1>1, <2>2, <3>3 DEF Sums, SumOf
  <2> QED
    BY <2>1, <2>2
<1>3. S \in P
  BY <1>2, SubsetsInduction
<1> QED
  BY <1>1, <1>3

Adds(sum, c, S) ==
    /\ IsFiniteSet(S)
    /\ c \in [S -> Nat]
    /\ sum \in [SUBSET S -> Nat]
    /\ Sums(sum, c, S)

(* Any element can be taken out of a sum.                                   *)
LEMMA SumTakesOut ==
  ASSUME NEW S, NEW c, NEW sum, Adds(sum, c, S)
  PROVE  \A s \in SUBSET S : \A x \in s : sum[s] = c[x] + sum[s \ {x}]
<1> /\ IsFiniteSet(S) /\ c \in [S -> Nat] /\ sum \in [SUBSET S -> Nat]
    /\ Sums(sum, c, S)
  BY DEF Adds
<1>1. PICK P : P = {s \in SUBSET S : \A y \in s : sum[s] = c[y] + sum[s \ {y}]}
  OBVIOUS
<1>2. ASSUME NEW s \in SUBSET S, \A r \in SUBSET s : r # s => r \in P
      PROVE  s \in P
  <2>1. SUFFICES ASSUME NEW y \in s PROVE sum[s] = c[y] + sum[s \ {y}]
    BY <1>1
  <2>2. PICK p : p = Pick(s)
    OBVIOUS
  <2>3. p \in s /\ sum[s] = c[p] + sum[s \ {p}]
    BY <2>1, <2>2 DEF Sums, SumOf, Pick
  <2>4. CASE y = p
    BY <2>3, <2>4
  <2>5. CASE y # p
    <3>1. s \ {p} \in P /\ s \ {y} \in P
      BY <1>2, <2>1, <2>3
    <3>2. /\ sum[s \ {p}] = c[y] + sum[(s \ {p}) \ {y}]
          /\ sum[s \ {y}] = c[p] + sum[(s \ {y}) \ {p}]
      BY <1>1, <2>1, <2>3, <2>5, <3>1
    <3>3. (s \ {p}) \ {y} = (s \ {y}) \ {p}
      OBVIOUS
    <3>4. PICK q : q = (s \ {y}) \ {p}
      OBVIOUS
    <3>5. PICK a, b, e : a = c[y] /\ b = c[p] /\ e = sum[q]
      OBVIOUS
    <3>6. a \in Nat /\ b \in Nat /\ e \in Nat
      BY <2>1, <2>3, <3>4, <3>5
    <3>7. sum[s \ {p}] = a + e /\ sum[s \ {y}] = b + e
      BY <3>2, <3>3, <3>4, <3>5
    <3>8. sum[s] = b + (a + e)
      BY <2>3, <3>5, <3>7
    <3>9. b + (a + e) = a + (b + e)
      BY <3>6
    <3> QED
      BY <3>5, <3>7, <3>8, <3>9
  <2> QED
    BY <2>4, <2>5
<1>3. ASSUME NEW s \in SUBSET S PROVE s \in P
  <2>1. IsFiniteSet(s)
    BY FS_Subset
  <2>2. ASSUME NEW t \in SUBSET s, \A r \in SUBSET t : r # t => r \in P
        PROVE  t \in P
    BY <1>2, <2>2
  <2> QED
    BY <2>1, <2>2, SubsetsInduction
<1> QED
  BY <1>1, <1>3

-----------------------------------------------------------------------------
(* The pulls that are owed                                                  *)

OwedTo(view, sum, s) ==
    IF s = {} THEN 0
    ELSE LET x == CHOOSE x \in s : TRUE IN Owes(view[x]) + sum[s \ {x}]

Owed(view, ds) == CHOOSE sum : sum = [s \in SUBSET ds |-> OwedTo(view, sum, s)]

LEMMA OwesIsNatural ==
  ASSUME NEW v \in View
  PROVE  Owes(v) \in Nat
BY DEF View, Owes

(* One function gives what is owed by every set of views.                   *)
LEMMA OwedInIs ==
  ASSUME NEW view \in [Display -> View]
  PROVE  \E sum \in [SUBSET Display -> Nat], c \in [Display -> Nat] :
             /\ Sums(sum, c, Display)
             /\ c = [d \in Display |-> Owes(view[d])]
             /\ \A ds \in SUBSET Display : OwedIn(view, ds) = sum[ds]
<1>1. PICK c : c = [d \in Display |-> Owes(view[d])]
  OBVIOUS
<1>2. c \in [Display -> Nat] /\ IsFiniteSet(Display)
  BY <1>1, OwesIsNatural, TwoStepAssumption
<1>3. PICK sum \in [SUBSET Display -> Nat] : Sums(sum, c, Display)
  BY <1>2, SumExists
<1>4. ASSUME NEW ds \in SUBSET Display PROVE OwedIn(view, ds) = sum[ds]
  <2> DEFINE It(it) == it = [s \in SUBSET ds |-> OwedTo(view, it, s)]
  <2>1. ASSUME NEW it, NEW s \in SUBSET ds PROVE OwedTo(view, it, s) = SumOf(it, c, s)
    <3>1. CASE s = {}
      BY <3>1 DEF OwedTo, SumOf
    <3>2. CASE s # {}
      <4>1. Pick(s) \in s
        BY <3>2 DEF Pick
      <4>2. c[Pick(s)] = Owes(view[Pick(s)])
        BY <1>1, <4>1
      <4> QED
        BY <3>2, <4>2 DEF OwedTo, SumOf, Pick
    <3> QED
      BY <3>1, <3>2
  <2>2. PICK it : it = [s \in SUBSET ds |-> sum[s]]
    OBVIOUS
  <2>3. It(it)
    <3>1. ASSUME NEW s \in SUBSET ds PROVE it[s] = OwedTo(view, it, s)
      <4>1. sum[s] = SumOf(sum, c, s)
        BY <1>3 DEF Sums
      <4>2. SumOf(sum, c, s) = SumOf(it, c, s)
        BY <2>2 DEF SumOf
      <4> QED
        BY <2>1, <2>2, <4>1, <4>2
    <3> QED
      BY <2>2, <3>1
  <2>4. It(Owed(view, ds))
    <3>1. Owed(view, ds) = CHOOSE sum1 : It(sum1)
      BY DEF Owed
    <3> HIDE DEF It
    <3> QED
      BY <2>3, <3>1
  <2>5. PICK g : g = Owed(view, ds)
    OBVIOUS
  <2>6. Sums(g, c, ds)
    <3>1. ASSUME NEW s \in SUBSET ds PROVE g[s] = SumOf(g, c, s)
      BY <2>1, <2>4, <2>5
    <3> QED
      BY <3>1 DEF Sums
  <2>7. Sums(sum, c, ds) /\ IsFiniteSet(ds)
    BY <1>2, <1>3, FS_Subset DEF Sums
  <2>8. g[ds] = sum[ds]
    BY <2>6, <2>7, SumIsUnique
  <2>9. OwedIn(view, ds) = Owed(view, ds)[ds]
    BY DEF OwedIn, MapThenSumSet, MapThenFoldSet, Owed, OwedTo
  <2> QED
    BY <2>5, <2>8, <2>9
<1> QED
  BY <1>1, <1>2, <1>3, <1>4

LEMMA OwedInTakesOut ==
  ASSUME NEW view \in [Display -> View], NEW ds \in SUBSET Display
  PROVE  /\ OwedIn(view, ds) \in Nat
         /\ ds = {} => OwedIn(view, ds) = 0
         /\ \A d \in ds : OwedIn(view, ds) = Owes(view[d]) + OwedIn(view, ds \ {d})
<1>1. PICK sum \in [SUBSET Display -> Nat], c \in [Display -> Nat] :
          /\ Sums(sum, c, Display)
          /\ c = [d \in Display |-> Owes(view[d])]
          /\ \A e \in SUBSET Display : OwedIn(view, e) = sum[e]
  BY OwedInIs
<1>2. Adds(sum, c, Display)
  BY <1>1, TwoStepAssumption DEF Adds
<1>3. ASSUME NEW d \in ds PROVE sum[ds] = c[d] + sum[ds \ {d}]
  BY <1>1, <1>2, SumTakesOut
<1>4. ds = {} => sum[ds] = 0
  BY <1>1 DEF Sums, SumOf
<1> QED
  BY <1>1, <1>3, <1>4

(* Views that owe one more pull each, if they are in C.                     *)
OneMore(v, w, C) ==
    /\ v \in [Display -> View] /\ w \in [Display -> View]
    /\ C \in SUBSET Display
    /\ \A d \in Display : Owes(w[d]) = Owes(v[d]) + (IF d \in C THEN 1 ELSE 0)

LEMMA OwedInGrows ==
  ASSUME NEW v, NEW w, NEW C, OneMore(v, w, C)
  PROVE  OwedIn(w, Display) = OwedIn(v, Display) + Cardinality(C)
<1> /\ v \in [Display -> View] /\ w \in [Display -> View] /\ C \in SUBSET Display
  BY DEF OneMore
<1>1. PICK P : P = {ds \in SUBSET Display :
                       OwedIn(w, ds) = OwedIn(v, ds) + Cardinality(C \cap ds)}
  OBVIOUS
<1>2. ASSUME NEW ds \in SUBSET Display, \A r \in SUBSET ds : r # ds => r \in P
      PROVE  ds \in P
  <2>1. CASE ds = {}
    <3>1. OwedIn(w, ds) = 0 /\ OwedIn(v, ds) = 0
      BY <2>1, OwedInTakesOut
    <3>2. Cardinality(C \cap ds) = 0
      BY <2>1, FS_EmptySet
    <3> QED
      BY <1>1, <3>1, <3>2
  <2>2. CASE ds # {}
    <3>1. PICK d \in ds : TRUE
      BY <2>2
    <3>2. PICK e : e = ds \ {d}
      OBVIOUS
    <3>3. e \in P /\ e \in SUBSET Display
      BY <1>2, <3>1, <3>2
    <3>4. PICK a, b, f, g, n, m :
              /\ a = Owes(v[d]) /\ b = Owes(w[d])
              /\ f = OwedIn(v, e) /\ g = OwedIn(w, e)
              /\ n = Cardinality(C \cap e) /\ m = Cardinality(C \cap ds)
      OBVIOUS
    <3>5. IsFiniteSet(C \cap ds) /\ IsFiniteSet(C \cap e)
      BY TwoStepAssumption, FS_Subset
    <3>6. a \in Nat /\ f \in Nat /\ n \in Nat
      BY <3>3, <3>4, <3>5, OwesIsNatural, OwedInTakesOut, FS_CardinalityType
    <3>7. OwedIn(v, ds) = a + f /\ OwedIn(w, ds) = b + g
      BY <3>2, <3>4, OwedInTakesOut
    <3>8. g = f + n
      BY <1>1, <3>3, <3>4
    <3>9. CASE d \in C
      <4>1. C \cap e = (C \cap ds) \ {d} /\ d \in C \cap ds
        BY <3>2, <3>9
      <4>2. m \in Nat /\ n = m - 1
        <5>1. m \in Nat
          BY <3>4, <3>5, FS_CardinalityType
        <5>2. PICK x : x = C \cap ds
          OBVIOUS
        <5>3. Cardinality(x \ {d}) = Cardinality(x) - 1
          BY <3>5, <4>1, <5>2, FS_RemoveElement
        <5> QED
          BY <3>4, <4>1, <5>1, <5>2, <5>3
      <4>3. b = a + 1
        BY <3>4, <3>9 DEF OneMore
      <4>4. b + g = (a + f) + m
        BY <3>6, <3>8, <4>2, <4>3
      <4> QED
        BY <1>1, <3>4, <3>7, <4>4
    <3>10. CASE d \notin C
      <4>1. C \cap e = C \cap ds
        BY <3>2, <3>10
      <4>2. b = a + 0
        BY <3>4, <3>10 DEF OneMore
      <4>3. b + g = (a + f) + m
        BY <3>4, <3>6, <3>8, <4>1, <4>2
      <4> QED
        BY <1>1, <3>4, <3>7, <4>3
    <3> QED
      BY <3>9, <3>10
  <2> QED
    BY <2>1, <2>2
<1>3. Display \in P
  BY <1>2, SubsetsInduction, TwoStepAssumption
<1>4. C \cap Display = C
  OBVIOUS
<1> QED
  BY <1>1, <1>3, <1>4

LEMMA OwedInStays ==
  ASSUME NEW v, NEW w, OneMore(v, w, {})
  PROVE  OwedIn(w, Display) = OwedIn(v, Display)
<1>1. OwedIn(w, Display) = OwedIn(v, Display) + Cardinality({})
  BY OwedInGrows
<1>2. OwedIn(v, Display) \in Nat
  BY OwedInTakesOut DEF OneMore
<1> QED
  BY <1>1, <1>2, FS_EmptySet

LEMMA OwedInShrinks ==
  ASSUME NEW v, NEW w, NEW d, OneMore(w, v, {d})
  PROVE  OwedIn(v, Display) = OwedIn(w, Display) + 1
<1>1. OwedIn(v, Display) = OwedIn(w, Display) + Cardinality({d})
  BY OwedInGrows
<1> QED
  BY <1>1, FS_Singleton

LEMMA NewViewOwesNothing == NewView \in View /\ Owes(NewView) = 0
BY TwoStepAssumption DEF NewView, View, Owes

(* What is forgotten with some views is not owed any more.                  *)
LEMMA OwedInSplits ==
  ASSUME NEW v \in [Display -> View], NEW ds \in SUBSET Display, NEW u,
         u = [d \in Display |-> IF d \in ds THEN NewView ELSE v[d]]
  PROVE  /\ u \in [Display -> View]
         /\ OwedIn(v, Display) = OwedIn(v, ds) + OwedIn(u, Display)
<1>1. u \in [Display -> View]
  BY NewViewOwesNothing
<1>2. PICK P : P = {e \in SUBSET Display :
                       OwedIn(v, e) = OwedIn(v, e \cap ds) + OwedIn(u, e)}
  OBVIOUS
<1>3. ASSUME NEW e \in SUBSET Display, \A r \in SUBSET e : r # e => r \in P
      PROVE  e \in P
  <2>1. CASE e = {}
    <3>1. OwedIn(v, e) = 0 /\ OwedIn(u, e) = 0 /\ OwedIn(v, e \cap ds) = 0
      BY <1>1, <2>1, OwedInTakesOut
    <3> QED
      BY <1>2, <3>1
  <2>2. CASE e # {}
    <3>1. PICK d \in e : TRUE
      BY <2>2
    <3>2. PICK r : r = e \ {d}
      OBVIOUS
    <3>3. r \in P /\ r \in SUBSET Display
      BY <1>3, <3>1, <3>2
    <3>4. PICK a, b, f, g, h :
              /\ a = Owes(v[d]) /\ b = Owes(u[d])
              /\ f = OwedIn(v, r) /\ g = OwedIn(u, r) /\ h = OwedIn(v, r \cap ds)
      OBVIOUS
    <3>5. v[d] \in View /\ u[d] \in View /\ r \cap ds \in SUBSET Display
      BY <1>1, <3>3
    <3>6. a \in Nat /\ b \in Nat /\ f \in Nat /\ g \in Nat /\ h \in Nat
      BY <1>1, <3>3, <3>4, <3>5, OwesIsNatural, OwedInTakesOut
    <3>7. OwedIn(v, e) = a + f /\ OwedIn(u, e) = b + g
      BY <1>1, <3>2, <3>4, OwedInTakesOut
    <3>8. f = h + g
      BY <1>2, <3>3, <3>4
    <3>9. CASE d \in ds
      <4>1. d \in e \cap ds /\ r \cap ds = (e \cap ds) \ {d}
        BY <3>1, <3>2, <3>9
      <4>2. OwedIn(v, e \cap ds) = a + h
        BY <3>4, <4>1, OwedInTakesOut
      <4>3. b = 0
        BY <3>4, <3>9, NewViewOwesNothing
      <4>4. a + f = (a + h) + (b + g)
        BY <3>6, <3>8, <4>3
      <4> QED
        BY <1>2, <3>7, <4>2, <4>4
    <3>10. CASE d \notin ds
      <4>1. r \cap ds = e \cap ds
        BY <3>2, <3>10
      <4>2. b = a
        BY <3>4, <3>10
      <4>3. a + f = h + (b + g)
        BY <3>6, <3>8, <4>2
      <4> QED
        BY <1>2, <3>4, <3>7, <4>1, <4>3
    <3> QED
      BY <3>9, <3>10
  <2> QED
    BY <2>1, <2>2
<1>4. Display \in P
  BY <1>3, SubsetsInduction, TwoStepAssumption
<1>5. Display \cap ds = ds
  OBVIOUS
<1> QED
  BY <1>1, <1>2, <1>4, <1>5

LEMMA NothingOwed ==
  ASSUME NEW v \in [Display -> View], OwedIn(v, Display) = 0, NEW d \in Display
  PROVE  Owes(v[d]) = 0
<1>1. PICK a, b : a = Owes(v[d]) /\ b = OwedIn(v, Display \ {d})
  OBVIOUS
<1>2. a \in Nat /\ b \in Nat
  BY <1>1, OwesIsNatural, OwedInTakesOut
<1>3. 0 = a + b
  BY <1>1, OwedInTakesOut
<1> QED
  BY <1>1, <1>2, <1>3

-----------------------------------------------------------------------------
(* The views                                                                *)

(* w is v after a step that owes as much.                                   *)
Keeps(v, w) == w \in View /\ Owes(w) = Owes(v) /\ (Runs(v) => Runs(w))

(* w differs from v in what is drawn.                                       *)
Alike(v, w) ==
    /\ w \in View /\ Owes(w) = Owes(v)
    /\ w.spinning = v.spinning /\ w.pays = v.pays /\ w.anim = v.anim
    /\ w.still = v.still

LEMMA AlikeKeeps ==
  ASSUME NEW v, NEW w, Alike(v, w)
  PROVE  Keeps(v, w)
BY DEF Alike, Keeps, Runs

LEMMA DrawingsAreAlike ==
  ASSUME NEW v \in View
  PROVE  /\ Alike(v, ViewRedraw(v))
         /\ Alike(v, ViewShowPrompt(v)) /\ Alike(v, ViewHidePrompt(v))
         /\ Alike(v, ViewShowConsole(v)) /\ Alike(v, ViewHideConsole(v))
         /\ Alike(v, ViewStartAnimation(v)) /\ Alike(v, ViewFreeSprites(v))
BY DEF View, Alike, Owes, ViewRedraw, ViewShowPrompt, ViewHidePrompt,
       ViewShowConsole, ViewHideConsole, ViewStartAnimation, ViewFreeSprites

LEMMA ViewNumbers ==
  ASSUME NEW v \in View
  PROVE  /\ v.due \in BOOLEAN /\ v.pays \in BOOLEAN
         /\ v.orphans \in Nat /\ v.forgot \in Nat
BY DEF View

(* Starting the end animation with a trigger makes it owe a pull, or the    *)
(* view forgets the trigger.                                                *)
LEMMA AnimationStartOwes ==
  ASSUME NEW v \in View, Runs(v), NEW trigger \in BOOLEAN, NEW w,
         w = AnimationStart(v, trigger)
  PROVE  /\ w \in View /\ Runs(w)
         /\ Owes(w) = Owes(v) + (IF trigger THEN 1 ELSE 0)
         /\ w.spinning = v.spinning /\ w.anim # "stopped"
<1>1. CASE v.anim # "stopped"
  BY <1>1 DEF AnimationStart, View, Runs, Owes
<1>2. CASE v.anim = "stopped"
  <2>1. w = [v EXCEPT !.anim = "running", !.pays = trigger] /\ ~v.pays
    BY <1>2 DEF AnimationStart, Runs
  <2>2. w \in View /\ w.spinning = v.spinning /\ w.anim = "running"
    BY <2>1 DEF View
  <2>3. /\ w.due = v.due /\ w.pays = trigger
        /\ w.orphans = v.orphans /\ w.forgot = v.forgot
    BY <2>1 DEF View
  <2>4. Owes(w) = Owes(v) + (IF trigger THEN 1 ELSE 0)
    BY <2>1, <2>3, ViewNumbers DEF Owes
  <2> QED
    BY <2>2, <2>4 DEF Runs
<1> QED
  BY <1>1, <1>2

LEMMA AnimationStopKeeps ==
  ASSUME NEW v \in View
  PROVE  /\ Keeps(v, AnimationStop(v)) /\ AnimationStop(v).spinning = v.spinning
         /\ AnimationStop(v).anim # "running"
BY DEF AnimationStop, Keeps, View, Runs, Owes

LEMMA ThrobberStoppedKeeps ==
  ASSUME NEW v \in View, Runs(v), NEW w, w = OnViewThrobberStopped(v)
  PROVE  /\ w \in View /\ Runs(w) /\ Owes(w) = Owes(v)
         /\ w.spinning = v.spinning /\ w.anim # "stopped"
<1>1. PICK u : u = [v EXCEPT !.due = FALSE]
  OBVIOUS
<1>2. u \in View /\ Runs(u) /\ u.spinning = v.spinning
  BY <1>1 DEF View, Runs
<1>3. v.due \in BOOLEAN /\ Owes(u) \in Nat
  BY <1>2, OwesIsNatural DEF View
<1>4. Owes(v) = Owes(u) + (IF v.due THEN 1 ELSE 0)
  BY <1>1 DEF View, Owes
<1>5. w = AnimationStart(u, v.due)
  BY <1>1 DEF OnViewThrobberStopped, ViewStartEndAnimation
<1> QED
  BY <1>2, <1>3, <1>4, <1>5, AnimationStartOwes

(* A throbber that is asked to stop owes the end animation.                 *)
LEMMA ThrobberStopOwes ==
  ASSUME NEW v \in View, Runs(v), ~v.due, NEW w,
         w = ThrobberStop([v EXCEPT !.due = TRUE])
  PROVE  /\ w \in View /\ Runs(w) /\ Owes(w) = Owes(v) + 1
         /\ w.spinning = v.spinning
         /\ w.spinning \/ w.anim # "stopped"
<1>1. PICK u : u = [v EXCEPT !.due = TRUE]
  OBVIOUS
<1>2. /\ u \in View /\ Runs(u) /\ u.spinning = v.spinning
      /\ Owes(u) = Owes(v) + 1
  <2>1. u \in View /\ Runs(u) /\ u.spinning = v.spinning
    BY <1>1 DEF View, Runs
  <2>2. /\ u.due /\ u.pays = v.pays
        /\ u.orphans = v.orphans /\ u.forgot = v.forgot
    BY <1>1 DEF View
  <2>3. Owes(u) = Owes(v) + 1
    BY <2>2, ViewNumbers DEF Owes
  <2> QED
    BY <2>1, <2>3
<1>3. CASE u.spinning
  <2>1. w = [u EXCEPT !.held = TRUE]
    BY <1>1, <1>3 DEF ThrobberStop
  <2>2. /\ w \in View /\ w.spinning = u.spinning
        /\ w.due = u.due /\ w.pays = u.pays /\ w.orphans = u.orphans
        /\ w.forgot = u.forgot /\ w.anim = u.anim
    BY <1>2, <2>1 DEF View
  <2> QED
    BY <1>2, <1>3, <2>2 DEF Runs, Owes
<1>4. CASE ~u.spinning
  <2>1. w = OnViewThrobberStopped(u)
    BY <1>1, <1>4 DEF ThrobberStop
  <2> QED
    BY <1>2, <2>1, ThrobberStoppedKeeps
<1> QED
  BY <1>3, <1>4

(* When an end animation was asked for is history. *)
LEMMA StillIsAlike ==
  ASSUME NEW v \in View, NEW b \in BOOLEAN, NEW w,
         w = [v EXCEPT !.still = b]
  PROVE  /\ w \in View /\ Owes(w) = Owes(v) /\ (Runs(v) => Runs(w))
         /\ w.spinning = v.spinning /\ w.anim = v.anim /\ w.still = b
BY DEF View, Owes, Runs

LEMMA ThrobberStopNowKeeps ==
  ASSUME NEW v \in View
  PROVE  /\ Keeps(v, ThrobberStopNow(v)) /\ ~ThrobberStopNow(v).spinning
         /\ ThrobberStopNow(v).anim = v.anim /\ ThrobberStopNow(v).still = v.still
BY DEF ThrobberStopNow, Keeps, View, Runs, Owes

LEMMA ThrobberTimeoutKeeps ==
  ASSUME NEW v \in View, Runs(v), v.spinning, NEW f \in 0 .. LastFrame, NEW w,
         w = ThrobberTimeout(v, f)
  PROVE  /\ w \in View /\ Runs(w) /\ Owes(w) = Owes(v)
         /\ w.spinning \/ w.anim # "stopped"
<1>1. PICK n : n = ThrobberFrame(v, f)
  OBVIOUS
<1>2. n \in 0 .. 2
  BY <1>1 DEF ThrobberFrame, LastFrame
<1>3. PICK stops : stops = (v.held /\ n = LastFrame)
  OBVIOUS
<1>4. PICK u : u = [v EXCEPT !.frame = n, !.spinning = ~stops, !.held = @ /\ ~stops]
  OBVIOUS
<1>5. w = IF stops THEN OnViewThrobberStopped(u) ELSE u
  BY <1>1, <1>3, <1>4 DEF ThrobberTimeout
<1>6. stops \in BOOLEAN /\ v.held \in BOOLEAN
  BY <1>3 DEF View
<1>7. /\ u \in View /\ Runs(u) /\ Owes(u) = Owes(v)
      /\ ~stops => u.spinning
  BY <1>2, <1>4, <1>6, ZenonT(60) DEF View, Runs, Owes
<1> QED
  BY <1>5, <1>6, <1>7, ThrobberStoppedKeeps

LEMMA LoadEndAnimationKeeps ==
  ASSUME NEW v \in View
  PROVE  /\ Keeps(v, LoadEndAnimation(v))
         /\ LoadEndAnimation(v).spinning = v.spinning
         /\ LoadEndAnimation(v).anim = "stopped"
<1>1. PICK w : w = LoadEndAnimation(v)
  OBVIOUS
<1>2. CASE v.pays
  <2>1. w = [v EXCEPT !.orphans = @ + 1,
                      !.anim = "stopped", !.step = 0, !.pays = FALSE]
    BY <1>1, <1>2 DEF LoadEndAnimation
  <2>2. /\ w \in View /\ w.spinning = v.spinning /\ ~w.pays
        /\ w.anim = "stopped"
    <3>1. 0 \in 0 .. EndFrames /\ v.orphans + 1 \in Nat
      BY ViewNumbers, TwoStepAssumption
    <3> QED
      BY <2>1, <3>1 DEF View
  <2>3. /\ w.due = v.due /\ w.forgot = v.forgot
        /\ w.orphans = v.orphans + 1
    BY <2>1 DEF View
  <2>4. Owes(w) = Owes(v)
    BY <1>2, <2>2, <2>3, ViewNumbers DEF Owes
  <2> QED
    BY <1>1, <2>2, <2>4 DEF Keeps, Runs
<1>3. CASE ~v.pays
  <2>1. w = [v EXCEPT !.orphans = @,
                      !.anim = "stopped", !.step = 0, !.pays = FALSE]
    BY <1>1, <1>3 DEF LoadEndAnimation
  <2>2. /\ w \in View /\ w.spinning = v.spinning /\ ~w.pays
        /\ w.anim = "stopped"
    <3>1. 0 \in 0 .. EndFrames /\ v.orphans + 1 \in Nat
      BY ViewNumbers, TwoStepAssumption
    <3> QED
      BY <2>1, <3>1 DEF View
  <2>3. /\ w.due = v.due /\ w.forgot = v.forgot
        /\ w.orphans = v.orphans
    BY <2>1 DEF View
  <2>4. Owes(w) = Owes(v)
    BY <1>3, <2>2, <2>3, ViewNumbers DEF Owes
  <2> QED
    BY <1>1, <2>2, <2>4 DEF Keeps, Runs
<1> QED
  BY <1>2, <1>3

LEMMA StartProgressKeeps ==
  ASSUME NEW v \in View, NEW throbber \in BOOLEAN, NEW w,
         w = ViewStartProgressAnimation(v, throbber)
  PROVE  /\ Keeps(v, w) /\ w.anim = v.anim /\ w.still = v.still
         /\ w.spinning = (v.spinning \/ throbber)
<1>1. PICK b : b = (v.spinning \/ throbber)
  OBVIOUS
<1>2. b \in BOOLEAN
  BY <1>1
<1>3. w = [v EXCEPT !.spinning = b, !.drawn = TRUE]
  BY <1>1 DEF ViewStartProgressAnimation
<1> QED
  BY <1>1, <1>2, <1>3 DEF Keeps, View, Runs, Owes

-----------------------------------------------------------------------------
(* The steps of the plugins                                                 *)

(* A splash is a record of its kind when it has the fields of one and each  *)
(* field its type.                                                          *)
Typed(t) ==
    /\ t.theme \in Plugin /\ t.useEnd \in BOOLEAN
    /\ t.throbber \in BOOLEAN /\ t.mode \in Mode \cup {"invalid"}
    /\ t.shown \in BOOLEAN /\ t.frames \in BOOLEAN /\ t.progress \in BOOLEAN
    /\ t.idle \in {"none", "waiting", "due", "dropped"}
    /\ t.paused \in [Display -> Int]
    /\ t.pluginMode \in Mode \cup {"invalid"} /\ t.loop \in BOOLEAN
    /\ t.visible \in BOOLEAN /\ t.animating \in BOOLEAN
    /\ t.isIdle \in BOOLEAN /\ t.console \in BOOLEAN /\ t.prompt \in BOOLEAN
    /\ t.stop \in Int /\ t.waiter \in BOOLEAN /\ t.timer \in BOOLEAN
    /\ t.keyboard \in BOOLEAN /\ t.listening \in BOOLEAN
    /\ t.views \in SUBSET Display /\ t.view \in [Display -> View]
    /\ t.tty \in BOOLEAN /\ t.screen \in {"blank", "splash", "prompt"}
    /\ t.kernel \in BOOLEAN /\ t.queue \in Messages /\ t.written \in Messages
    /\ t.failed \in BOOLEAN /\ t.replaced \in BOOLEAN /\ t.lost \in Nat
    /\ t.left \in SUBSET {"throbber", "orphan", "frame", "plugin", "input"}
    /\ t.fault \in SUBSET {"no_trigger", "two_triggers"}

Shaped(s, t) == t = [x \in DOMAIN s |-> t[x]]

LEMMA TypedIsSplash ==
  ASSUME NEW s \in SplashObject, NEW t, Shaped(s, t), Typed(t)
  PROVE  t \in SplashObject
BY DEF SplashObject, Typed, Shaped

LEMMA SplashViews ==
  ASSUME NEW s \in SplashObject
  PROVE  s.view \in [Display -> View] /\ s.views \in SUBSET Display
BY DEF SplashObject

(* What no function of a plugin changes.                                    *)
SameShell(s, t) ==
    /\ t.theme = s.theme /\ t.useEnd = s.useEnd /\ t.throbber = s.throbber
    /\ t.mode = s.mode /\ t.shown = s.shown /\ t.frames = s.frames
    /\ t.paused = s.paused /\ t.views = s.views /\ t.left = s.left
    /\ t.queue = s.queue /\ t.written = s.written
    /\ s.theme = "details" => t.prompt = s.prompt

(* Nor do those that neither show nor hide.                                 *)
Same(s, t) == SameShell(s, t) /\ t.loop = s.loop /\ t.visible = s.visible

Core(s) == Sound(s) /\ TakesPart(s) /\ Listens(s)

Steps(s, t) == Core(t) /\ Same(s, t)

LEMMA SameIsTransitive ==
  ASSUME NEW s, NEW t, NEW u, Same(s, t), Same(t, u)
  PROVE  Same(s, u)
BY DEF Same, SameShell

LEMMA ShellIsTransitive ==
  ASSUME NEW s, NEW t, NEW u, SameShell(s, t), SameShell(t, u)
  PROVE  SameShell(s, u)
BY DEF SameShell

LEMMA StepsAreTransitive ==
  ASSUME NEW s, NEW t, NEW u, Steps(s, t), Steps(t, u)
  PROVE  Steps(s, u)
BY SameIsTransitive DEF Steps

LEMMA NoStep ==
  ASSUME NEW s, Core(s)
  PROVE  Steps(s, s)
BY DEF Steps, Same, SameShell

LEMMA StepsKeepFit ==
  ASSUME NEW s, NEW t, Fit(s), Steps(s, t)
  PROVE  Fit(t)
<1> Core(t) /\ Same(s, t) /\ Held(s) /\ Waits(s) /\ Up(s)
  BY DEF Fit, Steps
<1>1. Held(t)
  BY DEF Held, Same, SameShell
<1>2. Waits(t) /\ Up(t)
  BY DEF Waits, Up, Same, SameShell
<1> QED
  BY <1>1, <1>2 DEF Fit, Core

(* The stop trigger stays and the views owe as much.                        *)
Moves(s, t) ==
    /\ t \in SplashObject
    /\ t.stop = s.stop /\ t.lost = s.lost
    /\ \A d \in Display : Keeps(s.view[d], t.view[d])


LEMMA MovesArePaired ==
  ASSUME NEW s, NEW t, Sound(s), Moves(s, t)
  PROVE  Paired(t)
<1>1. s.view \in [Display -> View] /\ t.view \in [Display -> View]
  BY SplashViews DEF Sound, Moves
<1>2. ASSUME NEW d \in Display
      PROVE  Owes(t.view[d]) = Owes(s.view[d]) + 0
  <2>1. Owes(t.view[d]) = Owes(s.view[d]) /\ Owes(s.view[d]) \in Nat
    BY <1>1, OwesIsNatural DEF Moves, Keeps
  <2> QED
    BY <2>1
<1>3. OneMore(s.view, t.view, {})
  BY <1>1, <1>2 DEF OneMore
<1>4. OwedIn(t.view, Display) = OwedIn(s.view, Display)
  BY <1>3, OwedInStays
<1> QED
  BY <1>4 DEF Sound, Moves, Paired

LEMMA MovesWithoutViews ==
  ASSUME NEW s, NEW t, Sound(s), t \in SplashObject,
         t.stop = s.stop, t.lost = s.lost, t.view = s.view
  PROVE  Paired(t)
BY DEF Sound, Paired

(* Drawing                                                                  *)
LEMMA DrawingSteps ==
  ASSUME NEW s, Core(s), NEW w,
         w = [d \in Display |-> w[d]],
         \A d \in Display : Alike(s.view[d], w[d]),
         NEW t, t = [s EXCEPT !.view = w]
  PROVE  Steps(s, t)
<1>1. w \in [Display -> View]
  BY DEF Alike
<1>2. Sound(s) /\ TakesPart(s) /\ Listens(s) /\ s \in SplashObject /\ Calm(s)
  BY DEF Core, Sound
<1>3. t \in SplashObject
  BY <1>1, <1>2 DEF SplashObject
<1>4. t.view = w
  BY <1>2 DEF SplashObject
<1>5. Same(s, t)
  BY <1>2 DEF SplashObject, Same, SameShell
<1>6. /\ t.stop = s.stop /\ t.lost = s.lost /\ t.animating = s.animating
      /\ t.timer = s.timer /\ t.kernel = s.kernel
      /\ t.listening = s.listening /\ t.keyboard = s.keyboard
  BY <1>2 DEF SplashObject
<1>7. Moves(s, t)
  BY <1>3, <1>4, <1>6, AlikeKeeps DEF Moves
<1>8. Calm(t)
  BY <1>2, <1>4, <1>5, <1>6 DEF Calm, Alike, Runs, Same, SameShell
<1>9. Listens(t)
  BY <1>2, <1>5, <1>6 DEF Listens, Same, SameShell
<1>10. TakesPart(t)
  <2>1. t.views \subseteq Display
    BY <1>3, SplashViews
  <2> QED
    BY <1>2, <1>4, <1>5, <1>6, <2>1
    DEF TakesPart, AllTakePart, Alike, Same, SameShell
<1> QED
  BY <1>2, <1>3, <1>5, <1>7, <1>8, <1>9, <1>10, MovesArePaired
  DEF Steps, Core, Sound

LEMMA DrawnSteps ==
  ASSUME NEW s, Core(s)
  PROVE  /\ Steps(s, ForViews(ViewRedraw, s))
         /\ Steps(s, ForViews(ViewShowPrompt, s))
         /\ Steps(s, ForViews(ViewHidePrompt, s))
         /\ Steps(s, ForViews(ViewShowConsole, s))
         /\ Steps(s, ForViews(ViewHideConsole, s))
         /\ Steps(s, ForViews(ViewStartAnimation, s))
         /\ Steps(s, ForViews(ViewFreeSprites, s))
<1> s.view \in [Display -> View]
  BY SplashViews DEF Core, Sound
<1>1. \A d \in Display : Alike(s.view[d], s.view[d])
  BY DEF Alike
<1>2. Steps(s, ForViews(ViewRedraw, s))
  <2>1. PICK w : w = [d \in Display |-> IF d \in s.views THEN ViewRedraw(s.view[d])
                                                         ELSE s.view[d]]
    OBVIOUS
  <2>2. \A d \in Display : Alike(s.view[d], w[d])
    BY <1>1, <2>1, DrawingsAreAlike
  <2>3. ForViews(ViewRedraw, s) = [s EXCEPT !.view = w]
    BY <2>1 DEF ForViews
  <2> QED
    BY <2>1, <2>2, <2>3, DrawingSteps
<1>3. Steps(s, ForViews(ViewShowPrompt, s))
  <2>1. PICK w : w = [d \in Display |-> IF d \in s.views THEN ViewShowPrompt(s.view[d])
                                                         ELSE s.view[d]]
    OBVIOUS
  <2>2. \A d \in Display : Alike(s.view[d], w[d])
    BY <1>1, <2>1, DrawingsAreAlike
  <2>3. ForViews(ViewShowPrompt, s) = [s EXCEPT !.view = w]
    BY <2>1 DEF ForViews
  <2> QED
    BY <2>1, <2>2, <2>3, DrawingSteps
<1>4. Steps(s, ForViews(ViewHidePrompt, s))
  <2>1. PICK w : w = [d \in Display |-> IF d \in s.views THEN ViewHidePrompt(s.view[d])
                                                         ELSE s.view[d]]
    OBVIOUS
  <2>2. \A d \in Display : Alike(s.view[d], w[d])
    BY <1>1, <2>1, DrawingsAreAlike
  <2>3. ForViews(ViewHidePrompt, s) = [s EXCEPT !.view = w]
    BY <2>1 DEF ForViews
  <2> QED
    BY <2>1, <2>2, <2>3, DrawingSteps
<1>5. Steps(s, ForViews(ViewShowConsole, s))
  <2>1. PICK w : w = [d \in Display |-> IF d \in s.views THEN ViewShowConsole(s.view[d])
                                                         ELSE s.view[d]]
    OBVIOUS
  <2>2. \A d \in Display : Alike(s.view[d], w[d])
    BY <1>1, <2>1, DrawingsAreAlike
  <2>3. ForViews(ViewShowConsole, s) = [s EXCEPT !.view = w]
    BY <2>1 DEF ForViews
  <2> QED
    BY <2>1, <2>2, <2>3, DrawingSteps
<1>6. Steps(s, ForViews(ViewHideConsole, s))
  <2>1. PICK w : w = [d \in Display |-> IF d \in s.views THEN ViewHideConsole(s.view[d])
                                                         ELSE s.view[d]]
    OBVIOUS
  <2>2. \A d \in Display : Alike(s.view[d], w[d])
    BY <1>1, <2>1, DrawingsAreAlike
  <2>3. ForViews(ViewHideConsole, s) = [s EXCEPT !.view = w]
    BY <2>1 DEF ForViews
  <2> QED
    BY <2>1, <2>2, <2>3, DrawingSteps
<1>7. Steps(s, ForViews(ViewStartAnimation, s))
  <2>1. PICK w : w = [d \in Display |-> IF d \in s.views THEN ViewStartAnimation(s.view[d])
                                                         ELSE s.view[d]]
    OBVIOUS
  <2>2. \A d \in Display : Alike(s.view[d], w[d])
    BY <1>1, <2>1, DrawingsAreAlike
  <2>3. ForViews(ViewStartAnimation, s) = [s EXCEPT !.view = w]
    BY <2>1 DEF ForViews
  <2> QED
    BY <2>1, <2>2, <2>3, DrawingSteps
<1>8. Steps(s, ForViews(ViewFreeSprites, s))
  <2>1. PICK w : w = [d \in Display |-> IF d \in s.views THEN ViewFreeSprites(s.view[d])
                                                         ELSE s.view[d]]
    OBVIOUS
  <2>2. \A d \in Display : Alike(s.view[d], w[d])
    BY <1>1, <2>1, DrawingsAreAlike
  <2>3. ForViews(ViewFreeSprites, s) = [s EXCEPT !.view = w]
    BY <2>1 DEF ForViews
  <2> QED
    BY <2>1, <2>2, <2>3, DrawingSteps
<1> QED
  BY <1>2, <1>3, <1>4, <1>5, <1>6, <1>7, <1>8

(* A step that changes nothing that the invariants look at.                 *)
Unmoved(s, t) ==
    /\ t \in SplashObject
    /\ t.stop = s.stop /\ t.lost = s.lost /\ t.view = s.view
    /\ t.animating = s.animating /\ t.timer = s.timer /\ t.kernel = s.kernel
    /\ t.listening = s.listening /\ t.keyboard = s.keyboard

LEMMA UnmovedSteps ==
  ASSUME NEW s, NEW t, Core(s), Same(s, t), Unmoved(s, t)
  PROVE  Steps(s, t) /\ (AllTakePart(s) => AllTakePart(t))
<1>1. Paired(t)
  BY MovesWithoutViews DEF Core, Unmoved
<1>2. Calm(t) /\ Listens(t) /\ TakesPart(t) /\ (AllTakePart(s) => AllTakePart(t))
  BY DEF Core, Sound, Unmoved, Calm, Listens, TakesPart, AllTakePart, Same,
         SameShell
<1> QED
  BY <1>1, <1>2 DEF Steps, Core, Sound, Unmoved

LEMMA FlagSteps ==
  ASSUME NEW s, Core(s), NEW b \in BOOLEAN
  PROVE  /\ Steps(s, [s EXCEPT !.console = b])
         /\ s.theme # "details" => Steps(s, [s EXCEPT !.prompt = b])
<1> s \in SplashObject
  BY DEF Core, Sound
<1>1. Steps(s, [s EXCEPT !.console = b])
  <2>1. PICK t : t = [s EXCEPT !.console = b]
    OBVIOUS
  <2>2. Unmoved(s, t) /\ Same(s, t)
    BY <2>1 DEF SplashObject, Unmoved, Same, SameShell
  <2> QED
    BY <2>1, <2>2, UnmovedSteps
<1>2. ASSUME s.theme # "details" PROVE Steps(s, [s EXCEPT !.prompt = b])
  <2>1. PICK t : t = [s EXCEPT !.prompt = b]
    OBVIOUS
  <2>2. Unmoved(s, t) /\ Same(s, t)
    BY <1>2, <2>1 DEF SplashObject, Unmoved, Same, SameShell
  <2> QED
    BY <2>1, <2>2, UnmovedSteps
<1> QED
  BY <1>1, <1>2

(* The idle trigger, and the assertion against a second one                 *)
LEMMA IdleSteps ==
  ASSUME NEW s, Core(s), NEW t,
         t = OnIdle(s) \/ t = Fault(s, "no_trigger")
         \/ t = Fault(s, "two_triggers")
         \/ t = [s EXCEPT !.idle = "none"] \/ t = [s EXCEPT !.idle = "waiting"]
  PROVE  Steps(s, t) /\ (AllTakePart(s) => AllTakePart(t))
<1> s \in SplashObject
  BY DEF Core, Sound
<1>1. ASSUME NEW i \in {"none", "waiting", "due", "dropped"},
             t = [s EXCEPT !.idle = i]
      PROVE  Unmoved(s, t) /\ Same(s, t)
  BY <1>1 DEF SplashObject, Unmoved, Same, SameShell
<1>2. ASSUME NEW what \in {"no_trigger", "two_triggers"},
             t = Fault(s, what)
      PROVE  Unmoved(s, t) /\ Same(s, t)
  BY <1>2 DEF SplashObject, Unmoved, Same, SameShell, Fault
<1>3. Unmoved(s, t) /\ Same(s, t)
  BY <1>1, <1>2 DEF OnIdle
<1> QED
  BY <1>3, UnmovedSteps

-----------------------------------------------------------------------------
(* The stop trigger and the two-step plugin                                 *)

(* One pull more is still to come than the trigger waits for.               *)
Pulled(s) == s.stop \in Nat /\ s.stop = s.lost + OwedIn(s.view, Display)

(* The end of the animation, without its effect on the screens.             *)
Ends(s, t) ==
    /\ Same(s, t) /\ Sound(t)
    /\ t.view = s.view /\ t.animating = s.animating
    /\ t.listening = s.listening /\ t.keyboard = s.keyboard

LEMMA PullPairs ==
  ASSUME NEW s \in SplashObject, Calm(s), Pulled(s), NEW t,
         t = PullStopTrigger(s)
  PROVE  Ends(s, t)
<1>1. t = IF s.stop > 0 THEN [s EXCEPT !.stop = @ - 1]
          ELSE [OnAnimationStopped(s) EXCEPT !.stop = -1]
  BY DEF PullStopTrigger, Then
<1>2. s.stop \in Nat
  BY DEF Pulled
<1>3. PICK n : n = s.stop - 1 /\ n \in Int
  BY <1>2
<1>4. n \in Int
  BY <1>3
<1>5. /\ t \in SplashObject /\ Same(s, t)
      /\ t.view = s.view /\ t.animating = s.animating
      /\ t.listening = s.listening /\ t.keyboard = s.keyboard
      /\ t.timer = s.timer /\ t.kernel = s.kernel
      /\ t.stop = n /\ t.lost = s.lost
  <2>1. CASE s.stop > 0
    <3>1. t = [s EXCEPT !.stop = n]
      BY <1>1, <1>3, <2>1
    <3>2. t \in SplashObject /\ t.stop = n
      BY <1>4, <3>1 DEF SplashObject
    <3>3. /\ Same(s, t)
         /\ t.view = s.view /\ t.animating = s.animating
         /\ t.listening = s.listening /\ t.keyboard = s.keyboard
         /\ t.timer = s.timer /\ t.kernel = s.kernel /\ t.lost = s.lost
      BY <3>1 DEF SplashObject, Same, SameShell
    <3> QED
      BY <3>2, <3>3
  <2>2. CASE ~(s.stop > 0)
    <3>1. n = -1
      BY <1>2, <1>3, <2>2
    <3>2. t = [OnAnimationStopped(s) EXCEPT !.stop = n]
      BY <1>1, <2>2, <3>1
    <3>3. CASE s.waiter
      <4>1. t = [s EXCEPT !.waiter = FALSE, !.isIdle = TRUE, !.idle = "due",
                          !.stop = n]
        BY <3>2, <3>3 DEF OnAnimationStopped, OnIdle, SplashObject
      <4>2. Typed(t) /\ t.stop = n
        BY <1>4, <4>1 DEF SplashObject, Typed
      <4>3. Shaped(s, t)
        BY <4>1, Zenon DEF Shaped
      <4>4. /\ Same(s, t)
           /\ t.view = s.view /\ t.animating = s.animating
           /\ t.listening = s.listening /\ t.keyboard = s.keyboard
           /\ t.timer = s.timer /\ t.kernel = s.kernel /\ t.lost = s.lost
        BY <4>1 DEF SplashObject, Same, SameShell
      <4> QED
        BY <4>2, <4>3, <4>4, TypedIsSplash
    <3>4. CASE ~s.waiter
      <4>1. t = [s EXCEPT !.waiter = FALSE, !.isIdle = TRUE, !.stop = n]
        BY <3>2, <3>4 DEF OnAnimationStopped, SplashObject
      <4>2. Typed(t) /\ t.stop = n
        BY <1>4, <4>1 DEF SplashObject, Typed
      <4>3. Shaped(s, t)
        BY <4>1, Zenon DEF Shaped
      <4>4. /\ Same(s, t)
           /\ t.view = s.view /\ t.animating = s.animating
           /\ t.listening = s.listening /\ t.keyboard = s.keyboard
           /\ t.timer = s.timer /\ t.kernel = s.kernel /\ t.lost = s.lost
        BY <4>1 DEF SplashObject, Same, SameShell
      <4> QED
        BY <4>2, <4>3, <4>4, TypedIsSplash
    <3> QED
      BY <3>3, <3>4
  <2> QED
    BY <2>1, <2>2
<1>6. Calm(t)
  BY <1>5 DEF Calm, Same, SameShell
<1>7. Paired(t)
  BY <1>3, <1>5 DEF Pulled, Paired
<1> QED
  BY <1>5, <1>6, <1>7 DEF Ends, Sound

(* start_end_animation, when nothing is owed: every view is asked once.     *)
LEMMA StartEndAnimationPairs ==
  ASSUME NEW s \in SplashObject, Calm(s), s.stop = 0,
         s.lost = 0, OwedIn(s.view, Display) = 0, s.theme = "two-step", NEW t,
         t = StartEndAnimation(s)
  PROVE  /\ Same(s, t) /\ Sound(t) /\ AllTakePart(t)
         /\ t.listening = s.listening
<1> s.view \in [Display -> View] /\ s.views \in SUBSET Display
  BY SplashViews
<1>1. \A d \in Display : Runs(s.view[d]) /\ s.view[d] \in View
  BY DEF Calm
<1>2. CASE s.useEnd
  <2>1. PICK n : n = Cardinality(s.views)
    OBVIOUS
  <2>2. n \in Nat
    BY <2>1, TwoStepAssumption, FS_Subset, FS_CardinalityType
  <2>3. PICK w : w = [d \in Display |->
            IF d \in s.views
            THEN [(IF s.throbber THEN ThrobberStop([s.view[d] EXCEPT !.due = TRUE])
                   ELSE ViewStartEndAnimation(s.view[d], TRUE))
                     EXCEPT !.still = ~s.animating]
            ELSE s.view[d]]
    OBVIOUS
  <2>4. PICK u : u = [s EXCEPT !.stop = n, !.view = w]
    OBVIOUS
  <2>5. t = PullStopTrigger(u)
    <3>1. PICK c : c = [s EXCEPT !.stop = @ + Cardinality(s.views)]
      OBVIOUS
    <3>2. c = [s EXCEPT !.stop = n]
      BY <2>1, <2>2, <3>1
    <3>3. /\ c.views = s.views /\ c.view = s.view
          /\ [c EXCEPT !.view = w] = u
      BY <2>4, <3>2 DEF SplashObject
    <3>4. ForViews(LAMBDA v :
                       [(IF s.throbber THEN ThrobberStop([v EXCEPT !.due = TRUE])
                         ELSE ViewStartEndAnimation(v, TRUE))
                            EXCEPT !.still = ~s.animating], c)
              = [c EXCEPT !.view = w]
      BY <2>3, <3>3 DEF ForViews
    <3> QED
      BY <1>2, <3>1, <3>3, <3>4 DEF StartEndAnimation
  <2>6. ASSUME NEW d \in Display
        PROVE  /\ w[d] \in View /\ Runs(w[d])
               /\ w[d].spinning = s.view[d].spinning
               /\ Owes(w[d]) = Owes(s.view[d]) + (IF d \in s.views THEN 1 ELSE 0)
               /\ d \in s.views => w[d].spinning \/ w[d].anim # "stopped"
               /\ d \in s.views => w[d].still = ~s.animating
               /\ d \notin s.views => w[d] = s.view[d]
    <3>1. PICK v : v = s.view[d] /\ v \in View /\ Runs(v)
      BY <1>1
    <3> s.animating \in BOOLEAN
      BY DEF SplashObject
    <3>2. CASE d \notin s.views
      <4>1. w[d] = v /\ Owes(v) \in Nat
        BY <2>3, <3>1, <3>2, OwesIsNatural
      <4> QED
        BY <3>1, <3>2, <4>1
    <3>3. CASE d \in s.views /\ s.throbber
      <4>1. PICK x : x = ThrobberStop([v EXCEPT !.due = TRUE])
        OBVIOUS
      <4>2. ~v.due
        <5>1. Owes(v) = 0
          BY <3>1, NothingOwed
        <5> QED
          BY <3>1, <5>1, ViewNumbers DEF Owes
      <4>3. /\ x \in View /\ Runs(x) /\ Owes(x) = Owes(v) + 1
            /\ x.spinning = v.spinning /\ (x.spinning \/ x.anim # "stopped")
        BY <3>1, <4>1, <4>2, ThrobberStopOwes
      <4>4. w[d] = [x EXCEPT !.still = ~s.animating]
        BY <2>3, <3>1, <3>3, <4>1
      <4> QED
        BY <3>1, <3>3, <4>3, <4>4, StillIsAlike
    <3>4. CASE d \in s.views /\ ~s.throbber
      <4>1. PICK x : x = AnimationStart(v, TRUE)
        OBVIOUS
      <4>2. Owes(x) = Owes(v) + (IF TRUE THEN 1 ELSE 0)
        BY <3>1, <4>1, AnimationStartOwes
      <4>3. /\ x \in View /\ Runs(x)
            /\ x.spinning = v.spinning /\ x.anim # "stopped"
        BY <3>1, <4>1, AnimationStartOwes
      <4>4. w[d] = [x EXCEPT !.still = ~s.animating]
        BY <2>3, <3>1, <3>4, <4>1 DEF ViewStartEndAnimation
      <4> QED
        BY <3>1, <3>4, <4>2, <4>3, <4>4, StillIsAlike
    <3> QED
      BY <3>2, <3>3, <3>4
  <2>7. w \in [Display -> View]
    BY <2>3, <2>6
  <2>8. OneMore(s.view, w, s.views)
    BY <2>6, <2>7 DEF OneMore
  <2>9. OwedIn(w, Display) = n
    <3>1. OwedIn(w, Display) = OwedIn(s.view, Display) + Cardinality(s.views)
      BY <2>8, OwedInGrows
    <3> QED
      BY <2>1, <2>2, <3>1
  <2>10. /\ u \in SplashObject /\ u.view = w /\ u.stop = n /\ u.lost = 0
         /\ Same(s, u) /\ u.animating = s.animating /\ u.timer = s.timer
         /\ u.kernel = s.kernel /\ u.listening = s.listening
    <3>1. n \in Int
      BY <2>2
    <3>2. u \in SplashObject /\ u.view = w /\ u.stop = n /\ u.lost = s.lost
      BY <2>4, <2>7, <3>1, ZenonT(60) DEF SplashObject
    <3>3. /\ Same(s, u) /\ u.animating = s.animating /\ u.timer = s.timer
          /\ u.kernel = s.kernel /\ u.listening = s.listening
      BY <2>4 DEF SplashObject, Same, SameShell
    <3> QED
      BY <3>2, <3>3
  <2>11. Calm(u)
    BY <2>6, <2>10 DEF Calm, Same, SameShell
  <2>12. Pulled(u)
    BY <2>2, <2>9, <2>10 DEF Pulled
  <2>13. Ends(u, t)
    BY <2>5, <2>10, <2>11, <2>12, PullPairs
  <2>14. Same(s, t) /\ Sound(t) /\ t.listening = s.listening
    BY <2>10, <2>13, SameIsTransitive DEF Ends
  <2>15. t.view = w /\ t.views = s.views
    BY <2>10, <2>13, <2>14 DEF Ends, Same, SameShell
  <2>16. AllTakePart(t)
    BY <2>6, <2>15 DEF AllTakePart
  <2> QED
    BY <2>14, <2>16
<1>3. CASE ~s.useEnd
  <2>1. PICK w : w = [d \in Display |-> IF d \in s.views
                          THEN ThrobberStopNow(s.view[d]) ELSE s.view[d]]
    OBVIOUS
  <2>2. PICK u : u = [s EXCEPT !.view = w]
    OBVIOUS
  <2>3. t = PullStopTrigger(u)
    BY <1>3, <2>1, <2>2 DEF StartEndAnimation, ForViews
  <2>4. ASSUME NEW d \in Display
        PROVE  /\ w[d] \in View /\ Runs(w[d]) /\ Keeps(s.view[d], w[d])
               /\ w[d].spinning => s.view[d].spinning
               /\ w[d].anim = s.view[d].anim /\ w[d].still = s.view[d].still
    BY <1>1, <2>1, ThrobberStopNowKeeps DEF Keeps
  <2>5. w \in [Display -> View]
    BY <2>1, <2>4
  <2>6. /\ u \in SplashObject /\ u.view = w /\ u.stop = 0 /\ u.lost = 0
        /\ Same(s, u) /\ u.animating = s.animating /\ u.timer = s.timer
        /\ u.kernel = s.kernel /\ u.listening = s.listening
    BY <2>2, <2>5 DEF SplashObject, Same, SameShell
  <2>7. Calm(u)
    BY <2>4, <2>6 DEF Calm, Same, SameShell
  <2>8. OwedIn(w, Display) = 0
    <3>1. ASSUME NEW d \in Display PROVE Owes(w[d]) = Owes(s.view[d]) + 0
      <4>1. Owes(w[d]) = Owes(s.view[d]) /\ Owes(s.view[d]) \in Nat
        BY <2>4, OwesIsNatural DEF Keeps
      <4> QED
        BY <4>1
    <3>2. OneMore(s.view, w, {})
      BY <2>5, <3>1 DEF OneMore
    <3> QED
      BY <3>2, OwedInStays
  <2>9. Pulled(u)
    BY <2>6, <2>8 DEF Pulled
  <2>10. Ends(u, t)
    BY <2>3, <2>6, <2>7, <2>9, PullPairs
  <2>11. Same(s, t) /\ Sound(t) /\ t.listening = s.listening
    BY <2>6, <2>10, SameIsTransitive DEF Ends
  <2> QED
    BY <1>3, <2>11 DEF AllTakePart, Same, SameShell
<1>4. s.useEnd \in BOOLEAN
  BY DEF SplashObject
<1> QED
  BY <1>2, <1>3, <1>4

LEMMA TrueFalse == TRUE \in BOOLEAN /\ FALSE \in BOOLEAN
OBVIOUS

(* start_end_animation of a splash that is not stopping yet                 *)
LEMMA EndStarts ==
  ASSUME NEW s, Core(s), s.theme = "two-step", s.stop = -1, NEW t,
         t = StartEndAnimation([s EXCEPT !.stop = 0])
  PROVE  Steps(s, t) /\ AllTakePart(t)
<1>1. /\ s \in SplashObject /\ Paired(s) /\ Calm(s) /\ Listens(s)
      /\ s.view \in [Display -> View]
  BY SplashViews DEF Core, Sound
<1>2. PICK u : u = [s EXCEPT !.stop = 0]
  OBVIOUS
<1>3. u \in SplashObject
  BY <1>1, <1>2 DEF SplashObject
<1>4. /\ u.stop = 0 /\ u.lost = s.lost /\ u.view = s.view
      /\ u.animating = s.animating /\ u.timer = s.timer /\ u.kernel = s.kernel
      /\ u.listening = s.listening /\ Same(s, u)
  BY <1>1, <1>2 DEF SplashObject, Same, SameShell
<1>5. s.lost = 0 /\ OwedIn(s.view, Display) = 0
  <2>1. s.lost \in Nat /\ OwedIn(s.view, Display) \in Nat
    BY <1>1, OwedInTakesOut DEF SplashObject
  <2> QED
    BY <1>1, <2>1 DEF Paired
<1>6. Calm(u) /\ u.theme = "two-step"
  BY <1>1, <1>4 DEF Calm, Same, SameShell
<1>7. Same(u, t) /\ Sound(t) /\ AllTakePart(t) /\ t.listening = u.listening
  BY <1>2, <1>3, <1>4, <1>5, <1>6, StartEndAnimationPairs
<1>8. Same(s, t)
  BY <1>4, <1>7, SameIsTransitive
<1>9. Listens(t) /\ TakesPart(t)
  BY <1>1, <1>4, <1>7 DEF Listens, TakesPart
<1> QED
  BY <1>7, <1>8, <1>9 DEF Steps, Core

LEMMA TwoStepBecomeIdleSteps ==
  ASSUME NEW s, Core(s), s.theme = "two-step", NEW trigger \in BOOLEAN, NEW t,
         t = TwoStepBecomeIdle(s, trigger)
  PROVE  Steps(s, t) /\ (AllTakePart(s) => AllTakePart(t))
<1>1. s \in SplashObject
  BY DEF Core, Sound
<1>2. CASE s.isIdle
  BY <1>2, IdleSteps DEF TwoStepBecomeIdle
<1>3. CASE ~s.isIdle
  <2>1. PICK b \in BOOLEAN : b = (s.replaced \/ s.waiter)
    OBVIOUS
  <2>2. PICK u : u = [s EXCEPT !.replaced = b, !.waiter = trigger]
    OBVIOUS
  <2>3. Unmoved(s, u) /\ Same(s, u)
    <3>1. b \in BOOLEAN
      BY <2>1
    <3>2. Shaped(s, u)
      BY <2>2, Zenon DEF Shaped
    <3>3. Typed(u)
      BY <1>1, <2>2, <3>1 DEF SplashObject, Typed
    <3>4. u \in SplashObject
      BY <1>1, <3>2, <3>3, TypedIsSplash
    <3> QED
      BY <1>1, <2>2, <3>4 DEF SplashObject, Unmoved, Same, SameShell
  <2>4. Steps(s, u) /\ (AllTakePart(s) => AllTakePart(u))
    BY <2>3, UnmovedSteps
  <2>5. t = IF s.stop = -1 THEN StartEndAnimation([u EXCEPT !.stop = 0]) ELSE u
    BY <1>3, <2>1, <2>2 DEF TwoStepBecomeIdle
  <2>6. Core(u) /\ u.theme = "two-step" /\ u.stop = s.stop
    BY <2>3, <2>4 DEF Steps, Unmoved, Same, SameShell
  <2>7. CASE s.stop = -1
    <3>1. Steps(u, t) /\ AllTakePart(t)
      BY <2>5, <2>6, <2>7, EndStarts
    <3> QED
      BY <2>4, <3>1, StepsAreTransitive
  <2>8. CASE s.stop # -1
    BY <2>4, <2>5, <2>8
  <2> QED
    BY <2>7, <2>8
<1> QED
  BY <1>2, <1>3

LEMMA TwoStepBootProgressSteps ==
  ASSUME NEW s, Core(s), s.theme = "two-step", NEW late
  PROVE  Steps(s, TwoStepBootProgress(s, late))
<1>1. CASE TwoStepBootProgress(s, late) = s
  BY <1>1, NoStep
<1>2. CASE TwoStepBootProgress(s, late) # s
  <2>1. /\ s.stop = -1
        /\ TwoStepBootProgress(s, late) = StartEndAnimation([s EXCEPT !.stop = 0])
    BY <1>2 DEF TwoStepBootProgress
  <2> QED
    BY <2>1, EndStarts
<1> QED
  BY <1>1, <1>2

(* A step that starts or stops the animation and its timeouts               *)
LEMMA AnimationSteps ==
  ASSUME NEW s, NEW t, Core(s), Moves(s, t), Calm(t), Listens(t), TakesPart(t),
         Same(s, t)
  PROVE  Steps(s, t)
<1>1. Paired(t)
  BY MovesArePaired DEF Core
<1> QED
  BY <1>1 DEF Steps, Core, Sound, Moves

LEMMA StopTwoStepSteps ==
  ASSUME NEW s, Core(s), s.theme = "two-step", NEW t, t = StopTwoStep(s)
  PROVE  Steps(s, t) /\ ~t.animating
<1>1. CASE ~s.animating
  BY <1>1, NoStep DEF StopTwoStep
<1>2. CASE s.animating
  <2>1. /\ s \in SplashObject /\ s.view \in [Display -> View] /\ Calm(s)
        /\ Listens(s)
    BY SplashViews DEF Core, Sound
  <2>2. PICK w : w = [d \in Display |-> IF d \in s.views
                         THEN AnimationStop(ThrobberStopNow(s.view[d]))
                         ELSE s.view[d]]
    OBVIOUS
  <2>3. t = [s EXCEPT !.animating = FALSE, !.view = w]
    <3>1. PICK u : u = [s EXCEPT !.animating = FALSE]
      OBVIOUS
    <3>2. u.views = s.views /\ u.view = s.view
      BY <2>1, <3>1 DEF SplashObject
    <3>3. t = [u EXCEPT !.view = w]
      BY <1>2, <2>2, <3>1, <3>2 DEF StopTwoStep, ForViews
    <3> QED
      BY <3>1, <3>3
  <2>4. ASSUME NEW d \in Display
        PROVE  /\ w[d] \in View /\ Keeps(s.view[d], w[d]) /\ Runs(w[d])
               /\ ~w[d].spinning /\ w[d].anim # "running"
    <3>1. PICK v : v = s.view[d] /\ v \in View /\ Runs(v)
      BY <2>1 DEF Calm
    <3>2. CASE d \in s.views
      <4>1. PICK x : x = ThrobberStopNow(v)
        OBVIOUS
      <4>2. w[d] = AnimationStop(x)
        BY <2>2, <3>1, <3>2, <4>1
      <4>3. Keeps(v, x) /\ ~x.spinning
        BY <3>1, <4>1, ThrobberStopNowKeeps
      <4>4. /\ Keeps(x, w[d]) /\ w[d].spinning = x.spinning
            /\ w[d].anim # "running"
        BY <4>2, <4>3, AnimationStopKeeps DEF Keeps
      <4> QED
        BY <3>1, <4>3, <4>4 DEF Keeps
    <3>3. CASE d \notin s.views
      BY <2>1, <2>2, <3>1, <3>3 DEF Calm, Keeps
    <3> QED
      BY <3>2, <3>3
  <2>5. w \in [Display -> View]
    BY <2>2, <2>4
  <2>6. /\ t.stop = s.stop /\ t.lost = s.lost /\ t.view = w
        /\ ~t.animating /\ t.timer = s.timer /\ t.kernel = s.kernel
        /\ t.listening = s.listening /\ Same(s, t)
    BY <2>1, <2>3 DEF SplashObject, Same, SameShell
  <2>7. t \in SplashObject
    <3>1. Shaped(s, t)
      BY <2>3, Zenon DEF Shaped
    <3>2. Typed(t)
      BY <2>1, <2>3, <2>5 DEF SplashObject, Typed
    <3> QED
      BY <2>1, <3>1, <3>2, TypedIsSplash
  <2>8. Moves(s, t)
    BY <2>4, <2>6, <2>7 DEF Moves
  <2>9. Calm(t)
    BY <2>1, <2>4, <2>6 DEF Calm, Same, SameShell, TimerTheme
  <2>10. Listens(t) /\ TakesPart(t)
    BY <2>1, <2>6 DEF Listens, TakesPart, AllTakePart
  <2> QED
    BY <2>6, <2>8, <2>9, <2>10, AnimationSteps
<1> QED
  BY <1>1, <1>2

LEMMA StartTwoStepSteps ==
  ASSUME NEW s, Core(s), s.theme = "two-step", s.loop, NEW t,
         t = StartProgressAnimation(s)
  PROVE  Steps(s, t) /\ (~s.animating => AllTakePart(t))
<1>1. CASE s.animating
  BY <1>1, NoStep DEF StartProgressAnimation
<1>2. CASE ~s.animating
  <2>1. /\ s \in SplashObject /\ s.view \in [Display -> View] /\ Calm(s)
        /\ Listens(s) /\ s.throbber \in BOOLEAN /\ s.views \in SUBSET Display
    BY SplashViews DEF Core, Sound, SplashObject
  <2>2. PICK w : w = [d \in Display |-> IF d \in s.views
                         THEN ViewStartProgressAnimation(s.view[d], s.throbber)
                         ELSE s.view[d]]
    OBVIOUS
  <2>3. PICK b \in BOOLEAN : b = (s.isIdle /\ s.views = {})
    OBVIOUS
  <2>4. PICK u : u = [s EXCEPT !.view = w, !.animating = TRUE, !.isIdle = b]
    OBVIOUS
  <2>5. t = IF s.useEnd /\ s.pluginMode \in ShutdownMode
            THEN TwoStepBecomeIdle(u, FALSE) ELSE u
    <3>1. PICK x : x = [s EXCEPT !.view = w]
      OBVIOUS
    <3>2. x.isIdle = s.isIdle
      BY <2>1, <3>1 DEF SplashObject
    <3>3. ForViews(LAMBDA v : ViewStartProgressAnimation(v, s.throbber), s) = x
      BY <2>2, <3>1 DEF ForViews
    <3>4. [x EXCEPT !.animating = TRUE, !.isIdle = @ /\ s.views = {}] = u
      BY <2>3, <2>4, <3>1, <3>2
    <3> QED
      BY <1>2, <3>3, <3>4 DEF StartProgressAnimation
  <2>6. ASSUME NEW d \in Display
        PROVE  /\ w[d] \in View /\ Keeps(s.view[d], w[d]) /\ Runs(w[d])
               /\ w[d].spinning => s.view[d].spinning \/ d \in s.views
               /\ d \in s.views /\ s.throbber => w[d].spinning
               /\ w[d].anim = s.view[d].anim
    <3>1. PICK v : v = s.view[d] /\ v \in View /\ Runs(v)
      BY <2>1 DEF Calm
    <3>2. CASE d \in s.views
      <4>1. w[d] = ViewStartProgressAnimation(v, s.throbber)
        BY <2>2, <3>1, <3>2
      <4>2. /\ Keeps(v, w[d]) /\ w[d].spinning = (v.spinning \/ s.throbber)
            /\ w[d].anim = v.anim
        BY <2>1, <3>1, <4>1, StartProgressKeeps
      <4> QED
        BY <3>1, <3>2, <4>2 DEF Keeps
    <3>3. CASE d \notin s.views
      BY <2>2, <3>1, <3>3 DEF Keeps
    <3> QED
      BY <3>2, <3>3
  <2>7. w \in [Display -> View]
    BY <2>2, <2>6
  <2>8. /\ u.stop = s.stop /\ u.lost = s.lost /\ u.view = w
        /\ u.animating /\ u.timer = s.timer /\ u.kernel = s.kernel
        /\ u.listening = s.listening /\ Same(s, u)
    BY <2>1, <2>4 DEF SplashObject, Same, SameShell
  <2>9. u \in SplashObject
    <3>1. Shaped(s, u)
      BY <2>4, Zenon DEF Shaped
    <3>2. b \in BOOLEAN
      BY <2>3
    <3>3. Typed(u)
      BY <2>1, <2>4, <2>7, <3>2 DEF SplashObject, Typed
    <3> QED
      BY <2>1, <3>1, <3>3, TypedIsSplash
  <2>10. Moves(s, u)
    BY <2>6, <2>8, <2>9 DEF Moves
  <2>11. Calm(u)
    BY <2>1, <2>6, <2>8 DEF Calm, Same, SameShell, TimerTheme
  <2>12. Listens(u) /\ AllTakePart(u) /\ TakesPart(u)
    BY <2>1, <2>6, <2>8 DEF Listens, TakesPart, AllTakePart, Same, SameShell
  <2>13. Steps(s, u) /\ Core(u) /\ u.theme = "two-step"
    BY <2>8, <2>10, <2>11, <2>12, AnimationSteps DEF Steps, Same, SameShell
  <2>14. CASE s.useEnd /\ s.pluginMode \in ShutdownMode
    <3>1. t = TwoStepBecomeIdle(u, FALSE)
      BY <2>5, <2>14
    <3>2. Steps(u, t) /\ AllTakePart(t)
      BY <2>12, <2>13, <3>1, TwoStepBecomeIdleSteps
    <3> QED
      BY <2>13, <3>2, StepsAreTransitive
  <2>15. CASE ~(s.useEnd /\ s.pluginMode \in ShutdownMode)
    BY <2>5, <2>12, <2>13, <2>15
  <2> QED
    BY <2>14, <2>15
<1> QED
  BY <1>1, <1>2

-----------------------------------------------------------------------------
(* The other plugins                                                        *)

(* The plugins with a timer of their own start and stop it with the         *)
(* animation.                                                               *)
LEMMA TimerSteps ==
  ASSUME NEW s, Core(s), s.theme \in TimerTheme, NEW t, t \in SplashObject,
         Same(s, t), t.stop = s.stop, t.lost = s.lost, t.view = s.view,
         t.kernel = s.kernel, t.timer => t.animating, t.animating => t.loop,
         Listens(t)
  PROVE  Steps(s, t)
<1>1. Paired(t)
  BY MovesWithoutViews DEF Core
<1>2. Calm(s) /\ s.theme # "two-step"
  BY DEF Core, Sound, TimerTheme
<1>3. Calm(t) /\ TakesPart(t)
  BY <1>2 DEF Calm, Same, SameShell, TakesPart, AllTakePart
<1> QED
  BY <1>1, <1>3 DEF Steps, Core, Sound

LEMMA TextSteps ==
  ASSUME NEW s, Core(s), s.theme \in TextTheme, NEW t, t \in SplashObject,
         Same(s, t), t.stop = s.stop, t.lost = s.lost, t.view = s.view,
         t.timer = s.timer, t.listening = s.listening
  PROVE  Steps(s, t)
<1>1. Paired(t)
  BY MovesWithoutViews DEF Core
<1>2. /\ Calm(s) /\ Listens(s) /\ s.theme # "two-step" /\ s.theme # "script"
      /\ s.theme \notin StopTheme /\ s.theme \notin TimerTheme
  BY DEF Core, Sound, TimerTheme, TextTheme, StopTheme
<1>3. Calm(t) /\ TakesPart(t) /\ Listens(t)
  BY <1>2 DEF Calm, Same, SameShell, TakesPart, AllTakePart, Listens
<1> QED
  BY <1>1, <1>3 DEF Steps, Core, Sound

LEMMA StartFadeSteps ==
  ASSUME NEW s, Core(s), s.theme = "fade-throbber", NEW t, t = StartFade(s)
  PROVE  s.loop => Steps(s, t)
<1>1. CASE s.animating
  BY <1>1, NoStep DEF StartFade
<1>2. CASE ~s.animating
  <2>1. PICK b \in BOOLEAN : b = (s.pluginMode \notin ShutdownMode)
    OBVIOUS
  <2>2. PICK v : v = ForViews(ViewRedraw, s)
    OBVIOUS
  <2>3. t = [v EXCEPT !.animating = TRUE, !.timer = b]
    BY <1>2, <2>1, <2>2 DEF StartFade
  <2>4. Steps(s, v) /\ Core(v) /\ v \in SplashObject /\ v.theme = "fade-throbber"
        /\ v.loop = s.loop
    BY <2>2, DrawnSteps DEF Steps, Core, Sound, Same, SameShell
  <2>5. t \in SplashObject
    <3>1. Shaped(v, t)
      BY <2>3, Zenon DEF Shaped
    <3>2. b \in BOOLEAN
      BY <2>1
    <3>3. Typed(t)
      BY <2>3, <2>4, <3>2 DEF SplashObject, Typed
    <3> QED
      BY <2>4, <3>1, <3>3, TypedIsSplash
  <2>6. /\ t.stop = v.stop /\ t.lost = v.lost /\ t.view = v.view
        /\ t.kernel = v.kernel /\ Same(v, t) /\ t.animating
        /\ t.listening = v.listening
    <3>1. /\ t.stop = v.stop /\ t.lost = v.lost /\ t.view = v.view
          /\ t.kernel = v.kernel /\ t.animating /\ t.listening = v.listening
      BY <2>3, <2>4 DEF SplashObject
    <3>2. Same(v, t)
      BY <2>3, <2>4 DEF SplashObject, Same, SameShell
    <3> QED
      BY <3>1, <3>2
  <2>7. Listens(t)
    BY <2>4, <2>6 DEF Core, Listens
  <2>8. ASSUME s.loop PROVE Steps(v, t)
    <3>1. t.loop
      BY <2>4, <2>6, <2>8 DEF Same
    <3> QED
      BY <2>4, <2>5, <2>6, <2>7, <3>1, TimerSteps DEF TimerTheme
  <2> QED
    BY <2>4, <2>8, StepsAreTransitive
<1> QED
  BY <1>1, <1>2

LEMMA StartFlaresSteps ==
  ASSUME NEW s, Core(s), s.theme = "space-flares", NEW t, t = StartFlares(s)
  PROVE  s.loop => Steps(s, t)
<1>1. CASE s.animating
  BY <1>1, NoStep DEF StartFlares
<1>2. CASE ~s.animating
  <2>1. PICK b \in BOOLEAN : b = (TRUE)
    OBVIOUS
  <2>2. PICK v : v = ForViews(ViewStartAnimation, s)
    OBVIOUS
  <2>3. t = [v EXCEPT !.animating = TRUE, !.timer = b]
    BY <1>2, <2>1, <2>2 DEF StartFlares
  <2>4. Steps(s, v) /\ Core(v) /\ v \in SplashObject /\ v.theme = "space-flares"
        /\ v.loop = s.loop
    BY <2>2, DrawnSteps DEF Steps, Core, Sound, Same, SameShell
  <2>5. t \in SplashObject
    <3>1. Shaped(v, t)
      BY <2>3, Zenon DEF Shaped
    <3>2. b \in BOOLEAN
      BY <2>1
    <3>3. Typed(t)
      BY <2>3, <2>4, <3>2 DEF SplashObject, Typed
    <3> QED
      BY <2>4, <3>1, <3>3, TypedIsSplash
  <2>6. /\ t.stop = v.stop /\ t.lost = v.lost /\ t.view = v.view
        /\ t.kernel = v.kernel /\ Same(v, t) /\ t.animating
        /\ t.listening = v.listening
    <3>1. /\ t.stop = v.stop /\ t.lost = v.lost /\ t.view = v.view
          /\ t.kernel = v.kernel /\ t.animating /\ t.listening = v.listening
      BY <2>3, <2>4 DEF SplashObject
    <3>2. Same(v, t)
      BY <2>3, <2>4 DEF SplashObject, Same, SameShell
    <3> QED
      BY <3>1, <3>2
  <2>7. Listens(t)
    BY <2>4, <2>6 DEF Core, Listens
  <2>8. ASSUME s.loop PROVE Steps(v, t)
    <3>1. t.loop
      BY <2>4, <2>6, <2>8 DEF Same
    <3> QED
      BY <2>4, <2>5, <2>6, <2>7, <3>1, TimerSteps DEF TimerTheme
  <2> QED
    BY <2>4, <2>8, StepsAreTransitive
<1> QED
  BY <1>1, <1>2

LEMMA StopFadeSteps ==
  ASSUME NEW s, Core(s), s.theme = "fade-throbber", NEW t, t = StopFade(s)
  PROVE  Steps(s, t) /\ ~t.animating
<1>1. CASE ~s.animating
  BY <1>1, NoStep DEF StopFade
<1>2. CASE s.animating
  <2>1. s \in SplashObject /\ Listens(s)
    BY DEF Core, Sound
  <2>2. PICK u : u = [s EXCEPT !.animating = FALSE, !.timer = FALSE]
    OBVIOUS
  <2>3. u \in SplashObject
    <3>1. Shaped(s, u)
      BY <2>2, Zenon DEF Shaped
    <3>2. Typed(u)
      BY <2>1, <2>2 DEF SplashObject, Typed
    <3> QED
      BY <2>1, <3>1, <3>2, TypedIsSplash
  <2>4. /\ u.stop = s.stop /\ u.lost = s.lost /\ u.view = s.view
        /\ u.kernel = s.kernel /\ Same(s, u) /\ ~u.animating /\ ~u.timer
        /\ u.listening = s.listening /\ u.theme = s.theme
    BY <2>1, <2>2 DEF SplashObject, Same, SameShell
  <2>5. Steps(s, u)
    BY <2>1, <2>3, <2>4, TimerSteps DEF TimerTheme, Listens
  <2>6. t = u
    BY <1>2, <2>2 DEF StopFade
  <2> QED
    BY <2>4, <2>5, <2>6
<1> QED
  BY <1>1, <1>2

LEMMA StopFlaresSteps ==
  ASSUME NEW s, Core(s), s.theme = "space-flares", NEW t, t = StopFlares(s)
  PROVE  Steps(s, t) /\ ~t.animating
<1>1. CASE ~s.animating
  BY <1>1, NoStep DEF StopFlares
<1>2. CASE s.animating
  <2>1. s \in SplashObject /\ Listens(s)
    BY DEF Core, Sound
  <2>2. PICK u : u = [s EXCEPT !.animating = FALSE, !.timer = FALSE]
    OBVIOUS
  <2>3. u \in SplashObject
    <3>1. Shaped(s, u)
      BY <2>2, Zenon DEF Shaped
    <3>2. Typed(u)
      BY <2>1, <2>2 DEF SplashObject, Typed
    <3> QED
      BY <2>1, <3>1, <3>2, TypedIsSplash
  <2>4. /\ u.stop = s.stop /\ u.lost = s.lost /\ u.view = s.view
        /\ u.kernel = s.kernel /\ Same(s, u) /\ ~u.animating /\ ~u.timer
        /\ u.listening = s.listening /\ u.theme = s.theme
    BY <2>1, <2>2 DEF SplashObject, Same, SameShell
  <2>5. Steps(s, u)
    BY <2>1, <2>3, <2>4, TimerSteps DEF TimerTheme, Listens
  <2>6. t = ForViews(ViewFreeSprites, u)
    BY <1>2, <2>2 DEF StopFlares
  <2>7. Steps(u, t)
    BY <2>5, <2>6, DrawnSteps DEF Steps
  <2>8. t.animating = u.animating
    BY <2>3, <2>6 DEF SplashObject, ForViews
  <2> QED
    BY <2>4, <2>5, <2>7, <2>8, StepsAreTransitive
<1> QED
  BY <1>1, <1>2

LEMMA StartScriptSteps ==
  ASSUME NEW s, Core(s), s.theme = "script", NEW t, t = StartScript(s)
  PROVE  s.loop => Steps(s, t)
<1>1. CASE s.animating
  BY <1>1, NoStep DEF StartScript
<1>2. CASE ~s.animating
  <2>1. s \in SplashObject /\ Listens(s)
    BY DEF Core, Sound
  <2>2. PICK b \in BOOLEAN : b = (s.listening \/ s.keyboard)
    OBVIOUS
  <2>3. t = [s EXCEPT !.animating = TRUE, !.timer = TRUE, !.listening = b]
    BY <1>2, <2>2 DEF StartScript
  <2>4. t \in SplashObject
    <3>1. Shaped(s, t)
      BY <2>3, Zenon DEF Shaped
    <3>2. b \in BOOLEAN
      BY <2>2
    <3>3. Typed(t)
      BY <2>1, <2>3, <3>2 DEF SplashObject, Typed
    <3> QED
      BY <2>1, <3>1, <3>3, TypedIsSplash
  <2>5. /\ t.stop = s.stop /\ t.lost = s.lost /\ t.view = s.view
        /\ t.kernel = s.kernel /\ Same(s, t) /\ t.animating
        /\ t.listening = b /\ t.keyboard = s.keyboard /\ t.theme = s.theme
    <3>1. /\ t.stop = s.stop /\ t.lost = s.lost /\ t.view = s.view
          /\ t.kernel = s.kernel /\ t.animating
          /\ t.listening = b /\ t.keyboard = s.keyboard /\ t.theme = s.theme
      BY <2>1, <2>3 DEF SplashObject
    <3>2. Same(s, t)
      BY <2>1, <2>3 DEF SplashObject, Same, SameShell
    <3> QED
      BY <3>1, <3>2
  <2>6. Listens(t)
    BY <2>1, <2>2, <2>5 DEF Listens
  <2>7. ASSUME s.loop PROVE t.loop
    BY <2>5, <2>7 DEF Same
  <2> QED
    BY <2>4, <2>5, <2>6, <2>7, TimerSteps DEF TimerTheme
<1> QED
  BY <1>1, <1>2

(* Stopping the script leaves the keyboard, if it has one.                  *)
LEMMA StopScriptSteps ==
  ASSUME NEW s, Core(s), s.theme = "script", NEW t, t = StopScript(s)
  PROVE  Steps(s, t) /\ ~t.animating
<1>1. CASE ~s.animating
  BY <1>1, NoStep DEF StopScript
<1>2. CASE s.animating
  <2>1. s \in SplashObject /\ Listens(s)
    BY DEF Core, Sound
  <2>2. PICK b \in BOOLEAN : b = (s.listening /\ ~s.keyboard)
    OBVIOUS
  <2>3. t = [s EXCEPT !.animating = FALSE, !.timer = FALSE, !.listening = b,
                      !.keyboard = FALSE]
    BY <1>2, <2>2 DEF StopScript
  <2>4. t \in SplashObject
    <3>1. Shaped(s, t)
      BY <2>3, Zenon DEF Shaped
    <3>2. b \in BOOLEAN
      BY <2>2
    <3>3. Typed(t)
      BY <2>1, <2>3, <3>2 DEF SplashObject, Typed
    <3> QED
      BY <2>1, <3>1, <3>3, TypedIsSplash
  <2>5. /\ t.stop = s.stop /\ t.lost = s.lost /\ t.view = s.view
        /\ t.kernel = s.kernel /\ Same(s, t) /\ ~t.animating /\ ~t.timer
        /\ t.listening = b /\ t.theme = s.theme
    BY <2>1, <2>3 DEF SplashObject, Same, SameShell
  <2>6. Listens(t)
    BY <2>1, <2>2, <2>5 DEF Listens
  <2> QED
    BY <2>4, <2>5, <2>6, TimerSteps DEF TimerTheme
<1> QED
  BY <1>1, <1>2

LEMMA StartTextSteps ==
  ASSUME NEW s, Core(s), s.theme \in TextTheme, NEW t,
         t = StartText(s) \/ t = StopText(s)
         \/ \E what \in {"blank", "splash", "prompt"} : t = OnScreen(s, what)
  PROVE  Steps(s, t)
<1>1. s \in SplashObject /\ s.screen \in {"blank", "splash", "prompt"}
      /\ s.animating \in BOOLEAN
  BY DEF Core, Sound, SplashObject
<1>2. ASSUME NEW what \in {"blank", "splash", "prompt"}, NEW a \in BOOLEAN,
             t = [s EXCEPT !.screen = what, !.animating = a]
      PROVE  Steps(s, t)
  <2>1. t \in SplashObject
    <3>1. Shaped(s, t)
      BY <1>2, Zenon DEF Shaped
    <3>2. Typed(t)
      BY <1>1, <1>2 DEF SplashObject, Typed
    <3> QED
      BY <1>1, <3>1, <3>2, TypedIsSplash
  <2>2. /\ t.stop = s.stop /\ t.lost = s.lost /\ t.view = s.view
        /\ t.timer = s.timer /\ t.listening = s.listening /\ Same(s, t)
    BY <1>1, <1>2 DEF SplashObject, Same, SameShell
  <2> QED
    BY <2>1, <2>2, TextSteps
<1>3. ASSUME NEW what \in {"blank", "splash", "prompt"}, NEW a \in BOOLEAN,
             t = [OnScreen(s, what) EXCEPT !.animating = a]
      PROVE  Steps(s, t)
  <2>1. PICK x : x = IF s.tty THEN what ELSE s.screen
    OBVIOUS
  <2>2. OnScreen(s, what) = [s EXCEPT !.screen = x]
    BY <2>1 DEF OnScreen
  <2>3. t = [s EXCEPT !.screen = x, !.animating = a]
    BY <1>3, <2>2
  <2>4. x \in {"blank", "splash", "prompt"}
    BY <1>1, <2>1
  <2> QED
    BY <1>2, <2>3, <2>4
<1>4. ASSUME NEW what \in {"blank", "splash", "prompt"}, t = OnScreen(s, what)
      PROVE  Steps(s, t)
  <2>1. PICK x : x = IF s.tty THEN what ELSE s.screen
    OBVIOUS
  <2>2. t = [s EXCEPT !.screen = x]
    BY <1>4, <2>1 DEF OnScreen
  <2>3. x \in {"blank", "splash", "prompt"}
    BY <1>1, <2>1
  <2>4. t \in SplashObject
    BY <1>1, <2>2, <2>3 DEF SplashObject
  <2>5. /\ t.stop = s.stop /\ t.lost = s.lost /\ t.view = s.view
        /\ t.timer = s.timer /\ t.listening = s.listening /\ Same(s, t)
    BY <1>1, <2>2 DEF SplashObject, Same, SameShell
  <2> QED
    BY <2>4, <2>5, TextSteps
<1>5. CASE t = StartText(s)
  BY <1>3, <1>5 DEF StartText
<1>6. CASE t = StopText(s)
  <2>1. CASE s.animating
    BY <1>3, <1>6, <2>1 DEF StopText
  <2>2. CASE ~s.animating
    BY <1>6, <2>2, NoStep DEF StopText
  <2> QED
    BY <2>1, <2>2
<1> QED
  BY <1>4, <1>5, <1>6

-----------------------------------------------------------------------------
(* Prompts, messages and ESC                                                *)

LEMMA TwoStepConsoleSteps ==
  ASSUME NEW s, Core(s), s.theme = "two-step"
  PROVE  Steps(s, DisplayConsole(s, StopTwoStep))
<1>1. PICK u : u = IF s.console THEN StopTwoStep(s) ELSE s
  OBVIOUS
<1>2. Steps(s, u)
  <2>1. CASE s.console
    BY <1>1, <2>1, StopTwoStepSteps
  <2>2. CASE ~s.console
    BY <1>1, <2>2, NoStep
  <2> QED
    BY <2>1, <2>2
<1>3. DisplayConsole(s, StopTwoStep) = ForViews(ViewShowConsole, u)
  BY <1>1 DEF DisplayConsole
<1>4. Steps(u, ForViews(ViewShowConsole, u))
  BY <1>2, DrawnSteps DEF Steps
<1> QED
  BY <1>2, <1>3, <1>4, StepsAreTransitive

LEMMA TwoStepPromptSteps ==
  ASSUME NEW s, Core(s), s.theme = "two-step"
  PROVE  Steps(s, TwoStepPrompt(s))
<1>1. PICK u, v, w : /\ u = IF s.prompt THEN s ELSE StopTwoStep(s)
                     /\ v = ForViews(ViewShowPrompt, u)
                     /\ w = [v EXCEPT !.prompt = TRUE]
  OBVIOUS
<1>2. Steps(s, u)
  <2>1. CASE s.prompt
    BY <1>1, <2>1, NoStep
  <2>2. CASE ~s.prompt
    BY <1>1, <2>2, StopTwoStepSteps
  <2> QED
    BY <2>1, <2>2
<1>3. Steps(u, v) /\ v.theme = "two-step"
  BY <1>1, <1>2, DrawnSteps DEF Steps, Same, SameShell
<1>4. Steps(v, w) /\ w.theme = "two-step"
  <2>1. Core(v) /\ v.theme # "details"
    BY <1>3 DEF Steps
  <2>2. Steps(v, w)
    BY <1>1, <2>1, TrueFalse, FlagSteps
  <2> QED
    BY <1>3, <2>2 DEF Steps, Same, SameShell
<1>5. Steps(w, DisplayConsole(w, StopTwoStep))
  BY <1>4, TwoStepConsoleSteps DEF Steps
<1>6. \/ TwoStepPrompt(s) = w
      \/ TwoStepPrompt(s) = DisplayConsole(w, StopTwoStep)
  BY <1>1 DEF TwoStepPrompt, DisplayPromptOver
<1>7. Steps(s, w)
  BY <1>2, <1>3, <1>4, StepsAreTransitive
<1> QED
  BY <1>5, <1>6, <1>7, StepsAreTransitive

LEMMA TwoStepNormalSteps ==
  ASSUME NEW s, Core(s), s.theme = "two-step", s.loop
  PROVE  Steps(s, TwoStepNormal(s))
<1>1. PICK u, w, x : /\ u = IF s.prompt THEN ForViews(ViewHidePrompt, s) ELSE s
                     /\ w = [u EXCEPT !.prompt = FALSE]
                     /\ x = StartProgressAnimation(w)
  OBVIOUS
<1>2. Steps(s, u) /\ u.theme = "two-step"
  <2>1. Steps(s, u)
    BY <1>1, NoStep, DrawnSteps
  <2> QED
    BY <2>1 DEF Steps, Same, SameShell
<1>3. Steps(u, w)
  <2>1. Core(u) /\ u.theme # "details"
    BY <1>2 DEF Steps
  <2> QED
    BY <1>1, <2>1, TrueFalse, FlagSteps
<1>4. Steps(s, w)
  BY <1>2, <1>3, StepsAreTransitive
<1>5. Core(w) /\ w.theme = "two-step" /\ w.loop
  BY <1>4 DEF Steps, Same, SameShell
<1>6. Steps(w, DisplayConsole(w, StopTwoStep))
  BY <1>5, TwoStepConsoleSteps
<1>7. Steps(w, x)
  BY <1>1, <1>5, StartTwoStepSteps
<1>8. Steps(x, ForViews(ViewRedraw, x))
  BY <1>7, DrawnSteps DEF Steps
<1>9. Steps(w, ForViews(ViewRedraw, x))
  BY <1>7, <1>8, StepsAreTransitive
<1>10. \/ TwoStepNormal(s) = ForViews(ViewRedraw, x)
       \/ TwoStepNormal(s) = DisplayConsole(w, StopTwoStep)
  BY <1>1 DEF TwoStepNormal, DisplayNormalOver
<1> QED
  BY <1>4, <1>6, <1>9, <1>10, StepsAreTransitive

LEMMA TwoStepEscapeSteps ==
  ASSUME NEW s, Core(s), s.theme = "two-step", s.loop
  PROVE  Steps(s, TwoStepEscape(s))
<1>1. PICK u, v, w : /\ u = [s EXCEPT !.console = TRUE]
                     /\ v = ForViews(ViewHideConsole, s)
                     /\ w = [v EXCEPT !.console = FALSE]
  OBVIOUS
<1>2. Steps(s, u) /\ u.theme = "two-step"
  BY <1>1, TrueFalse, FlagSteps DEF Steps, Same, SameShell
<1>3. Steps(u, DisplayConsole(u, StopTwoStep))
  BY <1>2, TwoStepConsoleSteps DEF Steps
<1>4. Steps(s, v) /\ Core(v)
  BY <1>1, DrawnSteps DEF Steps
<1>5. Steps(v, w)
  BY <1>1, <1>4, TrueFalse, FlagSteps
<1>6. Steps(s, w) /\ Core(w) /\ w.theme = "two-step" /\ w.loop
  BY <1>4, <1>5, StepsAreTransitive DEF Steps, Same, SameShell
<1>7. Steps(w, StartProgressAnimation(w))
  BY <1>6, StartTwoStepSteps
<1>8. \/ TwoStepEscape(s) = DisplayConsole(u, StopTwoStep)
      \/ TwoStepEscape(s) = w
      \/ TwoStepEscape(s) = StartProgressAnimation(w)
  BY <1>1 DEF TwoStepEscape, ToggleConsole
<1> QED
  BY <1>2, <1>3, <1>6, <1>7, <1>8, StepsAreTransitive

LEMMA FadeConsoleSteps ==
  ASSUME NEW s, Core(s), s.theme = "fade-throbber"
  PROVE  Steps(s, DisplayConsole(s, StopFade))
<1>1. PICK u : u = IF s.console THEN StopFade(s) ELSE s
  OBVIOUS
<1>2. Steps(s, u)
  <2>1. CASE s.console
    BY <1>1, <2>1, StopFadeSteps
  <2>2. CASE ~s.console
    BY <1>1, <2>2, NoStep
  <2> QED
    BY <2>1, <2>2
<1>3. DisplayConsole(s, StopFade) = ForViews(ViewShowConsole, u)
  BY <1>1 DEF DisplayConsole
<1>4. Steps(u, ForViews(ViewShowConsole, u))
  BY <1>2, DrawnSteps DEF Steps
<1> QED
  BY <1>2, <1>3, <1>4, StepsAreTransitive

LEMMA FadePromptSteps ==
  ASSUME NEW s, Core(s), s.theme = "fade-throbber"
  PROVE  Steps(s, FadePrompt(s))
<1>1. PICK u, v, w : /\ u = IF s.prompt THEN s ELSE StopFade(s)
                     /\ v = ForViews(ViewShowPrompt, u)
                     /\ w = [v EXCEPT !.prompt = TRUE]
  OBVIOUS
<1>2. Steps(s, u)
  <2>1. CASE s.prompt
    BY <1>1, <2>1, NoStep
  <2>2. CASE ~s.prompt
    BY <1>1, <2>2, StopFadeSteps
  <2> QED
    BY <2>1, <2>2
<1>3. Steps(u, v) /\ v.theme = "fade-throbber"
  BY <1>1, <1>2, DrawnSteps DEF Steps, Same, SameShell
<1>4. Steps(v, w) /\ w.theme = "fade-throbber"
  <2>1. Core(v) /\ v.theme # "details"
    BY <1>3 DEF Steps
  <2>2. Steps(v, w)
    BY <1>1, <2>1, TrueFalse, FlagSteps
  <2> QED
    BY <1>3, <2>2 DEF Steps, Same, SameShell
<1>5. Steps(w, DisplayConsole(w, StopFade))
  BY <1>4, FadeConsoleSteps DEF Steps
<1>6. \/ FadePrompt(s) = w
      \/ FadePrompt(s) = DisplayConsole(w, StopFade)
  BY <1>1 DEF FadePrompt, DisplayPromptOver
<1>7. Steps(s, w)
  BY <1>2, <1>3, <1>4, StepsAreTransitive
<1> QED
  BY <1>5, <1>6, <1>7, StepsAreTransitive

LEMMA FadeNormalSteps ==
  ASSUME NEW s, Core(s), s.theme = "fade-throbber", s.loop
  PROVE  Steps(s, FadeNormal(s))
<1>1. PICK u, w, x : /\ u = IF s.prompt THEN ForViews(ViewHidePrompt, s) ELSE s
                     /\ w = [u EXCEPT !.prompt = FALSE]
                     /\ x = StartFade(w)
  OBVIOUS
<1>2. Steps(s, u) /\ u.theme = "fade-throbber"
  <2>1. Steps(s, u)
    BY <1>1, NoStep, DrawnSteps
  <2> QED
    BY <2>1 DEF Steps, Same, SameShell
<1>3. Steps(u, w)
  <2>1. Core(u) /\ u.theme # "details"
    BY <1>2 DEF Steps
  <2> QED
    BY <1>1, <2>1, TrueFalse, FlagSteps
<1>4. Steps(s, w)
  BY <1>2, <1>3, StepsAreTransitive
<1>5. Core(w) /\ w.theme = "fade-throbber" /\ w.loop
  BY <1>4 DEF Steps, Same, SameShell
<1>6. Steps(w, DisplayConsole(w, StopFade))
  BY <1>5, FadeConsoleSteps
<1>7. Steps(w, x)
  BY <1>1, <1>5, StartFadeSteps
<1>8. Steps(x, ForViews(ViewRedraw, x))
  BY <1>7, DrawnSteps DEF Steps
<1>9. Steps(w, ForViews(ViewRedraw, x))
  BY <1>7, <1>8, StepsAreTransitive
<1>10. \/ FadeNormal(s) = ForViews(ViewRedraw, x)
       \/ FadeNormal(s) = DisplayConsole(w, StopFade)
  BY <1>1 DEF FadeNormal, DisplayNormalOver
<1> QED
  BY <1>4, <1>6, <1>9, <1>10, StepsAreTransitive

LEMMA FadeEscapeSteps ==
  ASSUME NEW s, Core(s), s.theme = "fade-throbber", s.loop
  PROVE  Steps(s, FadeEscape(s))
<1>1. PICK u, v, w : /\ u = [s EXCEPT !.console = TRUE]
                     /\ v = ForViews(ViewHideConsole, s)
                     /\ w = [v EXCEPT !.console = FALSE]
  OBVIOUS
<1>2. Steps(s, u) /\ u.theme = "fade-throbber"
  BY <1>1, TrueFalse, FlagSteps DEF Steps, Same, SameShell
<1>3. Steps(u, DisplayConsole(u, StopFade))
  BY <1>2, FadeConsoleSteps DEF Steps
<1>4. Steps(s, v) /\ Core(v)
  BY <1>1, DrawnSteps DEF Steps
<1>5. Steps(v, w)
  BY <1>1, <1>4, TrueFalse, FlagSteps
<1>6. Steps(s, w) /\ Core(w) /\ w.theme = "fade-throbber" /\ w.loop
  BY <1>4, <1>5, StepsAreTransitive DEF Steps, Same, SameShell
<1>7. Steps(w, StartFade(w))
  BY <1>6, StartFadeSteps
<1>8. \/ FadeEscape(s) = DisplayConsole(u, StopFade)
      \/ FadeEscape(s) = w
      \/ FadeEscape(s) = StartFade(w)
  BY <1>1 DEF FadeEscape, ToggleConsole
<1> QED
  BY <1>2, <1>3, <1>6, <1>7, <1>8, StepsAreTransitive

LEMMA FlaresConsoleSteps ==
  ASSUME NEW s, Core(s), s.theme = "space-flares"
  PROVE  Steps(s, DisplayConsole(s, StopFlares))
<1>1. PICK u : u = IF s.console THEN StopFlares(s) ELSE s
  OBVIOUS
<1>2. Steps(s, u)
  <2>1. CASE s.console
    BY <1>1, <2>1, StopFlaresSteps
  <2>2. CASE ~s.console
    BY <1>1, <2>2, NoStep
  <2> QED
    BY <2>1, <2>2
<1>3. DisplayConsole(s, StopFlares) = ForViews(ViewShowConsole, u)
  BY <1>1 DEF DisplayConsole
<1>4. Steps(u, ForViews(ViewShowConsole, u))
  BY <1>2, DrawnSteps DEF Steps
<1> QED
  BY <1>2, <1>3, <1>4, StepsAreTransitive

LEMMA FlaresPromptSteps ==
  ASSUME NEW s, Core(s), s.theme = "space-flares"
  PROVE  Steps(s, FlaresPrompt(s))
<1>1. PICK u, v, w : /\ u = IF s.prompt THEN s ELSE StopFlares(s)
                     /\ v = ForViews(ViewShowPrompt, u)
                     /\ w = [v EXCEPT !.prompt = TRUE]
  OBVIOUS
<1>2. Steps(s, u)
  <2>1. CASE s.prompt
    BY <1>1, <2>1, NoStep
  <2>2. CASE ~s.prompt
    BY <1>1, <2>2, StopFlaresSteps
  <2> QED
    BY <2>1, <2>2
<1>3. Steps(u, v) /\ v.theme = "space-flares"
  BY <1>1, <1>2, DrawnSteps DEF Steps, Same, SameShell
<1>4. Steps(v, w) /\ w.theme = "space-flares"
  <2>1. Core(v) /\ v.theme # "details"
    BY <1>3 DEF Steps
  <2>2. Steps(v, w)
    BY <1>1, <2>1, TrueFalse, FlagSteps
  <2> QED
    BY <1>3, <2>2 DEF Steps, Same, SameShell
<1>5. Steps(w, DisplayConsole(w, StopFlares))
  BY <1>4, FlaresConsoleSteps DEF Steps
<1>6. \/ FlaresPrompt(s) = w
      \/ FlaresPrompt(s) = DisplayConsole(w, StopFlares)
  BY <1>1 DEF FlaresPrompt, DisplayPromptOver
<1>7. Steps(s, w)
  BY <1>2, <1>3, <1>4, StepsAreTransitive
<1> QED
  BY <1>5, <1>6, <1>7, StepsAreTransitive

LEMMA FlaresNormalSteps ==
  ASSUME NEW s, Core(s), s.theme = "space-flares", s.loop
  PROVE  Steps(s, FlaresNormal(s))
<1>1. PICK u, w, x : /\ u = IF s.prompt THEN ForViews(ViewHidePrompt, s) ELSE s
                     /\ w = [u EXCEPT !.prompt = FALSE]
                     /\ x = StartFlares(w)
  OBVIOUS
<1>2. Steps(s, u) /\ u.theme = "space-flares"
  <2>1. Steps(s, u)
    BY <1>1, NoStep, DrawnSteps
  <2> QED
    BY <2>1 DEF Steps, Same, SameShell
<1>3. Steps(u, w)
  <2>1. Core(u) /\ u.theme # "details"
    BY <1>2 DEF Steps
  <2> QED
    BY <1>1, <2>1, TrueFalse, FlagSteps
<1>4. Steps(s, w)
  BY <1>2, <1>3, StepsAreTransitive
<1>5. Core(w) /\ w.theme = "space-flares" /\ w.loop
  BY <1>4 DEF Steps, Same, SameShell
<1>6. Steps(w, DisplayConsole(w, StopFlares))
  BY <1>5, FlaresConsoleSteps
<1>7. Steps(w, x)
  BY <1>1, <1>5, StartFlaresSteps
<1>8. Steps(x, ForViews(ViewRedraw, x))
  BY <1>7, DrawnSteps DEF Steps
<1>9. Steps(w, ForViews(ViewRedraw, x))
  BY <1>7, <1>8, StepsAreTransitive
<1>10. \/ FlaresNormal(s) = ForViews(ViewRedraw, x)
       \/ FlaresNormal(s) = DisplayConsole(w, StopFlares)
  BY <1>1 DEF FlaresNormal, DisplayNormalOver
<1> QED
  BY <1>4, <1>6, <1>9, <1>10, StepsAreTransitive

LEMMA FlaresEscapeSteps ==
  ASSUME NEW s, Core(s), s.theme = "space-flares", s.loop
  PROVE  Steps(s, FlaresEscape(s))
<1>1. PICK u, v, w : /\ u = [s EXCEPT !.console = TRUE]
                     /\ v = ForViews(ViewHideConsole, s)
                     /\ w = [v EXCEPT !.console = FALSE]
  OBVIOUS
<1>2. Steps(s, u) /\ u.theme = "space-flares"
  BY <1>1, TrueFalse, FlagSteps DEF Steps, Same, SameShell
<1>3. Steps(u, DisplayConsole(u, StopFlares))
  BY <1>2, FlaresConsoleSteps DEF Steps
<1>4. Steps(s, v) /\ Core(v)
  BY <1>1, DrawnSteps DEF Steps
<1>5. Steps(v, w)
  BY <1>1, <1>4, TrueFalse, FlagSteps
<1>6. Steps(s, w) /\ Core(w) /\ w.theme = "space-flares" /\ w.loop
  BY <1>4, <1>5, StepsAreTransitive DEF Steps, Same, SameShell
<1>7. Steps(w, StartFlares(w))
  BY <1>6, StartFlaresSteps
<1>8. \/ FlaresEscape(s) = DisplayConsole(u, StopFlares)
      \/ FlaresEscape(s) = w
      \/ FlaresEscape(s) = StartFlares(w)
  BY <1>1 DEF FlaresEscape, ToggleConsole
<1> QED
  BY <1>2, <1>3, <1>6, <1>7, <1>8, StepsAreTransitive

LEMMA ScriptSteps ==
  ASSUME NEW s, Core(s), s.theme = "script"
  PROVE  /\ Steps(s, ScriptPrompt(s)) /\ Steps(s, ScriptNormal(s))
         /\ Steps(s, ScriptEscape(s))
<1>1. PICK r, h, c : /\ r = ForViews(ViewRedraw, s)
                     /\ h = ForViews(ViewHideConsole, s)
                     /\ c = ForViews(ViewShowConsole, s)
  OBVIOUS
<1>2. Steps(s, r) /\ Steps(s, h) /\ Steps(s, c)
  BY <1>1, DrawnSteps
<1>3. /\ Core(r) /\ Core(h) /\ Core(c) /\ r.theme # "details"
  BY <1>2 DEF Steps, Same, SameShell
<1>4. /\ Steps(r, [r EXCEPT !.prompt = TRUE]) /\ Steps(r, [r EXCEPT !.prompt = FALSE])
      /\ Steps(h, [h EXCEPT !.console = FALSE]) /\ Steps(c, [c EXCEPT !.console = TRUE])
  BY <1>3, TrueFalse, FlagSteps
<1>5. /\ Steps(s, [r EXCEPT !.prompt = TRUE]) /\ Steps(s, [r EXCEPT !.prompt = FALSE])
      /\ Steps(s, [h EXCEPT !.console = FALSE]) /\ Steps(s, [c EXCEPT !.console = TRUE])
  BY <1>2, <1>4, StepsAreTransitive
<1>6. /\ ScriptPrompt(s) = [r EXCEPT !.prompt = TRUE]
      /\ ScriptNormal(s) = [r EXCEPT !.prompt = FALSE]
      /\ \/ ScriptEscape(s) = [h EXCEPT !.console = FALSE]
         \/ ScriptEscape(s) = [c EXCEPT !.console = TRUE]
  BY <1>1 DEF ScriptPrompt, ScriptNormal, ScriptEscape
<1> QED
  BY <1>5, <1>6

LEMMA ConsoleViewerSteps ==
  ASSUME NEW s, Core(s), s.theme = "console-viewer"
  PROVE  Steps(s, ConsoleViewerPrompt(s)) /\ Steps(s, ConsoleViewerNormal(s))
<1>1. PICK c : c = ForViews(ViewShowConsole, s)
  OBVIOUS
<1>2. Steps(s, c)
  BY <1>1, DrawnSteps
<1>3. Core(c) /\ c.theme # "details"
  BY <1>2 DEF Steps, Same, SameShell
<1>4. Steps(c, [c EXCEPT !.prompt = TRUE]) /\ Steps(c, [c EXCEPT !.prompt = FALSE])
  BY <1>3, TrueFalse, FlagSteps
<1>5. /\ ConsoleViewerPrompt(s) = [c EXCEPT !.prompt = TRUE]
      /\ ConsoleViewerNormal(s) = [c EXCEPT !.prompt = FALSE]
  BY <1>1 DEF ConsoleViewerPrompt, ConsoleViewerNormal
<1> QED
  BY <1>2, <1>4, <1>5, StepsAreTransitive

LEMMA TextDisplaySteps ==
  ASSUME NEW s, Core(s), s.theme = "text"
  PROVE  /\ Steps(s, TextDisplayPrompt(s)) /\ Steps(s, TextDisplayNormal(s))
         /\ Steps(s, TextDisplayMessage(s))
<1> s.theme \in TextTheme /\ s.theme # "details"
  BY DEF TextTheme
<1>1. Steps(s, StartText(s)) /\ Steps(s, StopText(s)) /\ Steps(s, s)
  BY StartTextSteps, NoStep
<1>2. Steps(s, TextDisplayNormal(s))
  <2>1. PICK t : t = StartText(s)
    OBVIOUS
  <2>2. Core(t) /\ t.theme # "details"
    BY <1>1, <2>1 DEF Steps, Same, SameShell
  <2>3. Steps(t, [t EXCEPT !.prompt = FALSE])
    BY <2>2, TrueFalse, FlagSteps
  <2>4. Steps(s, [t EXCEPT !.prompt = FALSE])
    BY <1>1, <2>1, <2>3, StepsAreTransitive
  <2>5. \/ TextDisplayNormal(s) = s
        \/ TextDisplayNormal(s) = [t EXCEPT !.prompt = FALSE]
    BY <2>1 DEF TextDisplayNormal
  <2> QED
    BY <1>1, <2>4, <2>5
<1>3. Steps(s, TextDisplayPrompt(s))
  <2>1. PICK t : t = IF s.prompt THEN s ELSE StopText(s)
    OBVIOUS
  <2>2. Steps(s, t)
    BY <1>1, <2>1
  <2>3. Core(t) /\ t.theme \in TextTheme
    BY <2>2 DEF Steps, Same, SameShell
  <2>4. PICK u : u = OnScreen(t, "prompt")
    OBVIOUS
  <2>5. Steps(t, u)
    BY <2>3, <2>4, StartTextSteps
  <2>6. Core(u) /\ u.theme # "details"
    BY <2>2, <2>5 DEF Steps, Same, SameShell
  <2>7. Steps(u, [u EXCEPT !.prompt = TRUE])
    BY <2>6, TrueFalse, FlagSteps
  <2>8. TextDisplayPrompt(s) = [u EXCEPT !.prompt = TRUE]
    BY <2>1, <2>4 DEF TextDisplayPrompt
  <2> QED
    BY <2>2, <2>5, <2>7, <2>8, StepsAreTransitive
<1> QED
  BY <1>1, <1>2, <1>3 DEF TextDisplayMessage

-----------------------------------------------------------------------------
(* The shell                                                                *)

LEMMA ThemeIs ==
  ASSUME NEW s \in SplashObject
  PROVE  s.theme \in {"two-step", "fade-throbber", "space-flares", "script",
                      "console-viewer", "text", "details"}
BY DEF SplashObject, Plugin

LEMMA DisplayPromptSteps ==
  ASSUME NEW s, Core(s), s.theme # "details"
  PROVE  Steps(s, DisplayPrompt(s))
<1>1. s.theme \in {"two-step", "fade-throbber", "space-flares", "script",
                   "console-viewer", "text"}
  BY ThemeIs DEF Core, Sound
<1>2. CASE s.theme = "two-step"
  BY <1>2, TwoStepPromptSteps DEF DisplayPrompt
<1>3. CASE s.theme = "fade-throbber"
  BY <1>3, FadePromptSteps DEF DisplayPrompt
<1>4. CASE s.theme = "space-flares"
  BY <1>4, FlaresPromptSteps DEF DisplayPrompt
<1>5. CASE s.theme = "script"
  BY <1>5, ScriptSteps DEF DisplayPrompt
<1>6. CASE s.theme = "console-viewer"
  BY <1>6, ConsoleViewerSteps DEF DisplayPrompt
<1>7. CASE s.theme = "text"
  BY <1>7, TextDisplaySteps DEF DisplayPrompt
<1> QED
  BY <1>1, <1>2, <1>3, <1>4, <1>5, <1>6, <1>7

LEMMA DisplayNormalSteps ==
  ASSUME NEW s, Core(s), Up(s), s.theme # "details"
  PROVE  Steps(s, DisplayNormal(s))
<1>1. s.theme \in {"two-step", "fade-throbber", "space-flares", "script",
                   "console-viewer", "text"}
  BY ThemeIs DEF Core, Sound
<1>2. CASE s.theme = "two-step"
  BY <1>2, TwoStepNormalSteps DEF DisplayNormal, Up
<1>3. CASE s.theme = "fade-throbber"
  BY <1>3, FadeNormalSteps DEF DisplayNormal, Up
<1>4. CASE s.theme = "space-flares"
  BY <1>4, FlaresNormalSteps DEF DisplayNormal, Up
<1>5. CASE s.theme = "script"
  BY <1>5, ScriptSteps DEF DisplayNormal
<1>6. CASE s.theme = "console-viewer"
  BY <1>6, ConsoleViewerSteps DEF DisplayNormal
<1>7. CASE s.theme = "text"
  BY <1>7, TextDisplaySteps DEF DisplayNormal
<1> QED
  BY <1>1, <1>2, <1>3, <1>4, <1>5, <1>6, <1>7

LEMMA ValidateEscapeSteps ==
  ASSUME NEW s, Core(s), Up(s), s.theme \in StopTheme
  PROVE  Steps(s, ValidateEscape(s))
<1>1. CASE s.theme = "two-step"
  BY <1>1, TwoStepEscapeSteps DEF ValidateEscape, Up
<1>2. CASE s.theme = "fade-throbber"
  BY <1>2, FadeEscapeSteps DEF ValidateEscape, Up
<1>3. CASE s.theme = "space-flares"
  BY <1>3, FlaresEscapeSteps DEF ValidateEscape, Up
<1>4. CASE s.theme = "script"
  BY <1>4, ScriptSteps DEF ValidateEscape
<1> QED
  BY <1>1, <1>2, <1>3, <1>4 DEF StopTheme

LEMMA OnBootProgressSteps ==
  ASSUME NEW s, Core(s), NEW late
  PROVE  Steps(s, OnBootProgress(s, late))
BY TwoStepBootProgressSteps, NoStep DEF OnBootProgress

LEMMA UpdateProgressSteps ==
  ASSUME NEW s, Core(s), NEW late
  PROVE  Steps(s, UpdateProgress(s, late))
<1>1. PICK u, t : u = OnBootProgress(s, late) /\ t = [u EXCEPT !.progress = TRUE]
  OBVIOUS
<1>2. Steps(s, u) /\ Core(u) /\ u \in SplashObject
  BY <1>1, OnBootProgressSteps DEF Steps, Core, Sound
<1>3. Unmoved(u, t) /\ Same(u, t)
  <2>1. t \in SplashObject
    <3>1. Shaped(u, t)
      BY <1>1, Zenon DEF Shaped
    <3>2. Typed(t)
      BY <1>1, <1>2 DEF SplashObject, Typed
    <3> QED
      BY <1>2, <3>1, <3>2, TypedIsSplash
  <2> QED
    BY <1>1, <1>2, <2>1 DEF SplashObject, Unmoved, Same, SameShell
<1>4. Steps(s, t)
  BY <1>2, <1>3, UnmovedSteps, StepsAreTransitive
<1>5. UpdateProgress(s, late) = s \/ UpdateProgress(s, late) = t
  BY <1>1 DEF UpdateProgress
<1> QED
  BY <1>4, <1>5, NoStep

LEMMA PluginBecomeIdleSteps ==
  ASSUME NEW s, Core(s), s.theme \in EndTheme
  PROVE  Steps(s, PluginBecomeIdle(s))
<1>1. CASE s.theme = "two-step"
  <2>1. Steps(s, TwoStepBecomeIdle(s, TRUE))
    BY <1>1, TrueFalse, TwoStepBecomeIdleSteps
  <2> QED
    BY <1>1, <2>1 DEF PluginBecomeIdle
<1>2. CASE s.theme = "space-flares"
  <2>1. PICK t : t = StopFlares(s)
    OBVIOUS
  <2>2. Steps(s, t)
    BY <1>2, <2>1, StopFlaresSteps
  <2>3. Steps(t, OnIdle(t))
    BY <2>2, IdleSteps DEF Steps
  <2> QED
    BY <1>2, <2>1, <2>2, <2>3, StepsAreTransitive
    DEF PluginBecomeIdle, FlaresBecomeIdle
<1>3. CASE s.theme = "script"
  BY <1>3, IdleSteps DEF PluginBecomeIdle, ScriptBecomeIdle
<1> QED
  BY <1>1, <1>2, <1>3 DEF EndTheme

LEMMA BecomeIdleSteps ==
  ASSUME NEW s, Core(s)
  PROVE  Steps(s, BecomeIdle(s))
<1>1. PICK u, v : /\ u = OnBootProgress(s, TRUE)
                  /\ v = [u EXCEPT !.idle = "waiting"]
  OBVIOUS
<1>2. Steps(s, u) /\ Core(u) /\ u.theme = s.theme
  BY <1>1, OnBootProgressSteps, ZenonT(60) DEF Steps, Same, SameShell
<1>3. Steps(u, OnIdle(u)) /\ Steps(u, v) /\ Steps(s, Fault(s, "two_triggers"))
  BY <1>1, <1>2, IdleSteps
<1>4. Core(v) /\ v.theme = s.theme
  BY <1>2, <1>3 DEF Steps, Same, SameShell
<1>5. s.theme \in EndTheme => Steps(v, PluginBecomeIdle(v))
  BY <1>4, PluginBecomeIdleSteps
<1>6. \/ BecomeIdle(s) = Fault(s, "two_triggers")
      \/ s.theme \notin EndTheme /\ BecomeIdle(s) = OnIdle(u)
      \/ s.theme \in EndTheme /\ BecomeIdle(s) = PluginBecomeIdle(v)
  BY <1>1 DEF BecomeIdle, Then
<1> QED
  BY <1>2, <1>3, <1>5, <1>6, StepsAreTransitive

(* What an operation keeps of a splash that is shown. The messages that it  *)
(* holds stay the same.                                                     *)
FitSteps(s, t) ==
    /\ Fit(t)
    /\ t.theme = s.theme /\ t.views = s.views
    /\ s.theme = "details" => t.written \o t.queue = s.written \o s.queue

LEMMA FitFromSteps ==
  ASSUME NEW s, NEW t, Fit(s), Steps(s, t)
  PROVE  FitSteps(s, t)
BY StepsKeepFit DEF FitSteps, Steps, Same, SameShell

(* An operation of the details plugin                                       *)
Writes(s, t) ==
    /\ t \in SplashObject
    /\ t.theme = s.theme /\ t.views = s.views /\ t.view = s.view
    /\ t.stop = s.stop /\ t.lost = s.lost /\ t.timer = s.timer
    /\ t.animating = s.animating /\ t.loop = s.loop /\ t.kernel = s.kernel
    /\ t.listening = s.listening /\ t.keyboard = s.keyboard
    /\ t.shown = s.shown /\ t.frames = s.frames /\ t.paused = s.paused
    /\ t.left = s.left /\ t.mode = s.mode

LEMMA WritesFit ==
  ASSUME NEW s, Fit(s), s.theme = "details", NEW t, Writes(s, t),
         ~t.prompt => t.queue = <<>>
  PROVE  Fit(t) /\ t.theme = s.theme /\ t.views = s.views
<1>1. Sound(s) /\ Calm(s) /\ Held(s) /\ Up(s) /\ Listens(s)
  BY DEF Fit, Sound
<1>2. Paired(t)
  BY <1>1, MovesWithoutViews DEF Writes
<1>3. Calm(t) /\ TakesPart(t) /\ Listens(t)
  BY <1>1 DEF Writes, Calm, TakesPart, AllTakePart, Listens
<1>4. Held(t) /\ Up(t) /\ Waits(t)
  BY <1>1 DEF Writes, Held, Up, Waits
<1> QED
  BY <1>2, <1>3, <1>4 DEF Writes, Fit, Sound

LEMMA SplashMessages ==
  ASSUME NEW s \in SplashObject
  PROVE  s.queue \in Messages /\ s.written \in Messages
BY DEF SplashObject

LEMMA DetailsPromptFits ==
  ASSUME NEW s, Fit(s), s.theme = "details"
  PROVE  /\ FitSteps(s, DetailsDisplayPrompt(s))
         /\ FitSteps(s, DetailsDisplayNormal(s))
<1>1. s \in SplashObject /\ s.queue \in Messages /\ s.written \in Messages
  BY SplashMessages DEF Fit, Sound
<1>2. PICK q, w : q = s.queue /\ w = s.written
  OBVIOUS
<1>3. q \in Seq(Message) /\ w \in Seq(Message)
  BY <1>1, <1>2 DEF Messages
<1>4. FitSteps(s, DetailsDisplayPrompt(s))
  <2>1. PICK t : t = [s EXCEPT !.prompt = TRUE]
    OBVIOUS
  <2>2. t \in SplashObject
    <3>1. Shaped(s, t)
      BY <2>1, Zenon DEF Shaped
    <3>2. Typed(t)
      BY <1>1, <2>1 DEF SplashObject, Typed
    <3> QED
      BY <1>1, <3>1, <3>2, TypedIsSplash
  <2>3. Writes(s, t)
    BY <1>1, <2>1, <2>2 DEF SplashObject, Writes
  <2>4. t.prompt /\ t.queue = s.queue /\ t.written = s.written
    BY <1>1, <2>1 DEF SplashObject
  <2>5. Fit(t) /\ t.theme = s.theme /\ t.views = s.views
    BY <2>3, <2>4, WritesFit
  <2> QED
    BY <2>1, <2>4, <2>5 DEF FitSteps, DetailsDisplayPrompt
<1>5. FitSteps(s, DetailsDisplayNormal(s))
  <2>1. PICK t, x : /\ x = w \o q
                    /\ t = [s EXCEPT !.prompt = FALSE, !.written = x, !.queue = <<>>]
    OBVIOUS
  <2>2. x \in Messages /\ <<>> \in Messages
    BY <1>3, <2>1 DEF Messages
  <2>3. t \in SplashObject
    <3>1. Shaped(s, t)
      BY <2>1, Zenon DEF Shaped
    <3>2. Typed(t)
      BY <1>1, <2>1, <2>2 DEF SplashObject, Typed
    <3> QED
      BY <1>1, <3>1, <3>2, TypedIsSplash
  <2>4. Writes(s, t)
    BY <1>1, <2>1, <2>3 DEF SplashObject, Writes
  <2>5. t.queue = <<>> /\ t.written = x
    BY <1>1, <2>1 DEF SplashObject
  <2>6. Fit(t) /\ t.theme = s.theme /\ t.views = s.views
    BY <2>4, <2>5, WritesFit
  <2>7. x \o <<>> = x
    BY <2>2, ConcatEmptySeq DEF Messages
  <2>8. DetailsDisplayNormal(s) = t
    BY <1>2, <2>1 DEF DetailsDisplayNormal
  <2> QED
    BY <1>2, <2>1, <2>5, <2>6, <2>7, <2>8 DEF FitSteps
<1> QED
  BY <1>4, <1>5

LEMMA PromptFits ==
  ASSUME NEW s, Fit(s)
  PROVE  FitSteps(s, DisplayPrompt(s)) /\ FitSteps(s, DisplayNormal(s))
<1>1. CASE s.theme = "details"
  <2>1. DisplayPrompt(s) = DetailsDisplayPrompt(s)
    BY <1>1 DEF DisplayPrompt
  <2>2. DisplayNormal(s) = DetailsDisplayNormal(s)
    BY <1>1 DEF DisplayNormal
  <2> QED
    BY <1>1, <2>1, <2>2, DetailsPromptFits
<1>2. CASE s.theme # "details"
  <2>1. Core(s) /\ Up(s)
    BY DEF Fit, Core
  <2> QED
    BY <1>2, <2>1, DisplayPromptSteps, DisplayNormalSteps, FitFromSteps
<1> QED
  BY <1>1, <1>2

LEMMA UpdateDisplayFits ==
  ASSUME NEW s, Fit(s)
  PROVE  FitSteps(s, UpdateDisplay(s))
BY PromptFits DEF UpdateDisplay

LEMMA TextMessageFits ==
  ASSUME NEW s, Fit(s), s.theme = "text", NEW msg
  PROVE  FitSteps(s, DisplayMessage(s, msg))
<1>1. Core(s)
  BY DEF Fit, Core
<1>2. DisplayMessage(s, msg) = TextDisplayMessage(s)
  BY DEF DisplayMessage
<1> QED
  BY <1>1, <1>2, TextDisplaySteps, FitFromSteps

(* A message is written, or waits for the end of the prompt.                *)
LEMMA DetailsMessageFits ==
  ASSUME NEW s, Fit(s), s.theme = "details", NEW msg \in Message, NEW t,
         t = DisplayMessage(s, msg)
  PROVE  /\ Fit(t) /\ t.theme = s.theme /\ t.views = s.views
         /\ t.written \o t.queue = Append(s.written \o s.queue, msg)
<1>1. /\ s \in SplashObject /\ s.queue \in Messages /\ s.written \in Messages
      /\ s.prompt \in BOOLEAN /\ Waits(s)
  BY SplashMessages DEF Fit, Sound, SplashObject
<1>2. PICK q, w, qm, wm : /\ q = s.queue /\ w = s.written
                          /\ qm = Append(q, msg) /\ wm = Append(w, msg)
  OBVIOUS
<1>3. /\ q \in Seq(Message) /\ w \in Seq(Message)
      /\ qm \in Seq(Message) /\ wm \in Seq(Message)
  <2>1. q \in Seq(Message) /\ w \in Seq(Message)
    BY <1>1, <1>2 DEF Messages
  <2> QED
    BY <1>2, <2>1
<1>4. t = DetailsDisplayMessage(s, msg)
  BY DEF DisplayMessage
<1>5. CASE s.prompt
  <2>1. t = [s EXCEPT !.queue = qm]
    BY <1>2, <1>4, <1>5 DEF DetailsDisplayMessage
  <2>2. qm \in Messages
    BY <1>3 DEF Messages
  <2>3. t \in SplashObject
    <3>1. Shaped(s, t)
      BY <2>1, Zenon DEF Shaped
    <3>2. Typed(t)
      BY <1>1, <2>1, <2>2 DEF SplashObject, Typed
    <3> QED
      BY <1>1, <3>1, <3>2, TypedIsSplash
  <2>4. Writes(s, t)
    BY <1>1, <2>1, <2>3 DEF SplashObject, Writes
  <2>5. t.queue = qm /\ t.written = w /\ t.prompt = s.prompt
    BY <1>1, <1>2, <2>1 DEF SplashObject
  <2>6. w \o qm = Append(w \o q, msg)
    <3>1. qm = q \o <<msg>> /\ w \o q \in Seq(Message) /\ <<msg>> \in Seq(Message)
      BY <1>2, <1>3, AppendIsConcat
    <3>2. w \o (q \o <<msg>>) = (w \o q) \o <<msg>>
      BY <1>3, <3>1, ConcatAssociative
    <3>3. Append(w \o q, msg) = (w \o q) \o <<msg>>
      BY <3>1, AppendIsConcat
    <3> QED
      BY <3>1, <3>2, <3>3
  <2> QED
    BY <1>2, <1>5, <2>4, <2>5, <2>6, WritesFit
<1>6. CASE ~s.prompt
  <2>1. t = [s EXCEPT !.written = wm]
    BY <1>2, <1>4, <1>6 DEF DetailsDisplayMessage
  <2>2. wm \in Messages
    BY <1>3 DEF Messages
  <2>3. t \in SplashObject
    <3>1. Shaped(s, t)
      BY <2>1, Zenon DEF Shaped
    <3>2. Typed(t)
      BY <1>1, <2>1, <2>2 DEF SplashObject, Typed
    <3> QED
      BY <1>1, <3>1, <3>2, TypedIsSplash
  <2>4. Writes(s, t)
    BY <1>1, <2>1, <2>3 DEF SplashObject, Writes
  <2>5. t.queue = s.queue /\ t.written = wm
    BY <1>1, <2>1 DEF SplashObject
  <2>6. s.queue = <<>>
    BY <1>1, <1>6 DEF Waits
  <2>7. wm \o <<>> = wm /\ w \o <<>> = w
    BY <1>3, ConcatEmptySeq
  <2> QED
    BY <1>2, <2>4, <2>5, <2>6, <2>7, WritesFit
<1> QED
  BY <1>1, <1>5, <1>6

-----------------------------------------------------------------------------
(* Showing and hiding                                                       *)

(* The settings of the plugin change, and not what it animates.             *)
Sets(s, t) ==
    /\ t \in SplashObject /\ SameShell(s, t)
    /\ t.stop = s.stop /\ t.lost = s.lost /\ t.view = s.view
    /\ t.animating = s.animating /\ t.timer = s.timer
    /\ t.listening = s.listening /\ t.keyboard = s.keyboard
    /\ s.theme \notin TextTheme => t.kernel = s.kernel
    /\ s.theme \in StopTheme /\ s.animating => t.loop
    /\ t.visible => s.visible \/ AllTakePart(s)

LEMMA SetsKeep ==
  ASSUME NEW s, NEW t, Core(s), Sets(s, t)
  PROVE  Core(t) /\ (AllTakePart(s) => AllTakePart(t))
<1>1. Paired(t)
  BY MovesWithoutViews DEF Core, Sets
<1>2. Calm(t)
  BY DEF Core, Sound, Sets, Calm, SameShell
<1>3. Listens(t) /\ (AllTakePart(s) => AllTakePart(t))
  BY DEF Core, Sets, Listens, AllTakePart, SameShell
<1>4. TakesPart(t)
  BY <1>3 DEF Core, Sets, TakesPart
<1> QED
  BY <1>1, <1>2, <1>3, <1>4 DEF Core, Sound, Sets

LEMMA SameIsShell ==
  ASSUME NEW s, NEW t, Steps(s, t)
  PROVE  SameShell(s, t) /\ Core(t)
BY DEF Steps, Same

(* A splash that is off, or that was never on                               *)
Off(s) == s.theme \in StopTheme => ~s.animating

Hides(s, t) == Core(t) /\ SameShell(s, t) /\ Off(t) /\ t.kernel

(* hide_splash_screen, once the animation is stopped                        *)
LEMMA HidingEnds ==
  ASSUME NEW s, NEW u, NEW t, Steps(s, u), Off(u), u.theme \notin TextTheme,
         \/ t = [u EXCEPT !.loop = FALSE, !.visible = FALSE]
         \/ t = [u EXCEPT !.loop = FALSE]
         \/ t = u
  PROVE  Hides(s, t)
<1>1. /\ Core(u) /\ u \in SplashObject /\ SameShell(s, u) /\ Calm(u)
  BY SameIsShell DEF Core, Sound
<1>2. Sets(u, t) /\ t.animating = u.animating
  <2>1. CASE t = u
    BY <1>1, <2>1 DEF Sets, SameShell, Calm
  <2>2. CASE t = [u EXCEPT !.loop = FALSE]
    <3>1. t \in SplashObject
      <4>1. Shaped(u, t)
        BY <2>2, Zenon DEF Shaped
      <4>2. Typed(t)
        BY <1>1, <2>2 DEF SplashObject, Typed
      <4> QED
        BY <1>1, <4>1, <4>2, TypedIsSplash
    <3>2. /\ SameShell(u, t) /\ t.stop = u.stop /\ t.lost = u.lost
          /\ t.view = u.view /\ t.animating = u.animating /\ t.timer = u.timer
          /\ t.listening = u.listening /\ t.keyboard = u.keyboard
          /\ t.kernel = u.kernel /\ t.visible = u.visible
      BY <1>1, <2>2 DEF SplashObject, SameShell
    <3> QED
      BY <3>1, <3>2 DEF Sets, Off
  <2>3. CASE t = [u EXCEPT !.loop = FALSE, !.visible = FALSE]
    <3>1. t \in SplashObject
      <4>1. Shaped(u, t)
        BY <2>3, Zenon DEF Shaped
      <4>2. Typed(t)
        BY <1>1, <2>3 DEF SplashObject, Typed
      <4> QED
        BY <1>1, <4>1, <4>2, TypedIsSplash
    <3>2. /\ SameShell(u, t) /\ t.stop = u.stop /\ t.lost = u.lost
          /\ t.view = u.view /\ t.animating = u.animating /\ t.timer = u.timer
          /\ t.listening = u.listening /\ t.keyboard = u.keyboard
          /\ t.kernel = u.kernel /\ ~t.visible
      BY <1>1, <2>3 DEF SplashObject, SameShell
    <3> QED
      BY <3>1, <3>2 DEF Sets, Off
  <2> QED
    BY <2>1, <2>2, <2>3
<1>3. Core(t) /\ SameShell(u, t)
  BY <1>1, <1>2, SetsKeep DEF Sets
<1>4. Off(t) /\ t.kernel
  BY <1>2, <1>3 DEF Off, SameShell, Core, Sound, Calm
<1> QED
  BY <1>1, <1>3, <1>4, ShellIsTransitive DEF Hides

LEMMA HideTextHides ==
  ASSUME NEW s, NEW u, NEW t, Steps(s, u), u.theme \in TextTheme,
         t = [u EXCEPT !.loop = FALSE, !.kernel = TRUE]
  PROVE  Hides(s, t)
<1>1. /\ Core(u) /\ u \in SplashObject /\ SameShell(s, u)
      /\ u.theme \notin StopTheme
  BY SameIsShell DEF Core, Sound, TextTheme, StopTheme
<1>2. t \in SplashObject
  <2>1. Shaped(u, t)
    BY Zenon DEF Shaped
  <2>2. Typed(t)
    BY <1>1 DEF SplashObject, Typed
  <2> QED
    BY <1>1, <2>1, <2>2, TypedIsSplash
<1>3. /\ SameShell(u, t) /\ t.stop = u.stop /\ t.lost = u.lost
      /\ t.view = u.view /\ t.animating = u.animating /\ t.timer = u.timer
      /\ t.listening = u.listening /\ t.keyboard = u.keyboard
      /\ t.kernel /\ t.visible = u.visible
  BY <1>1 DEF SplashObject, SameShell
<1>4. Core(t)
  BY <1>1, <1>2, <1>3, SetsKeep DEF Sets
<1> QED
  BY <1>1, <1>3, <1>4, ShellIsTransitive DEF Hides, Off, SameShell

(* While a plugin plays that has something to stop, its loop is set.        *)
LEMMA PluginHideHides ==
  ASSUME NEW s, Core(s), NEW t, t = PluginHide(s)
  PROVE  Hides(s, t)
<1>1. /\ s.theme \in {"two-step", "fade-throbber", "space-flares", "script",
                      "console-viewer", "text", "details"}
      /\ Steps(s, s) /\ Calm(s)
  BY ThemeIs, NoStep DEF Core, Sound
<1>2. ASSUME ~s.loop PROVE Off(s)
  BY <1>1, <1>2 DEF Calm, Off
<1>3. CASE s.theme = "two-step"
  <2>1. PICK u : u = IF s.loop THEN StopTwoStep(s) ELSE s
    OBVIOUS
  <2>2. Steps(s, u) /\ Off(u)
    <3>1. CASE s.loop
      BY <1>3, <2>1, <3>1, StopTwoStepSteps DEF Off
    <3>2. CASE ~s.loop
      BY <1>1, <1>2, <2>1, <3>2
    <3> QED
      BY <3>1, <3>2
  <2>3. t = [u EXCEPT !.loop = FALSE, !.visible = FALSE]
    BY <1>3, <2>1 DEF PluginHide, HideTwoStep, HideOver
  <2>4. u.theme \notin TextTheme
    BY <1>3, <2>2 DEF Steps, Same, SameShell, TextTheme
  <2> QED
    BY <2>2, <2>3, <2>4, HidingEnds
<1>4. CASE s.theme = "fade-throbber"
  <2>1. PICK u : u = IF s.loop THEN StopFade(s) ELSE s
    OBVIOUS
  <2>2. Steps(s, u) /\ Off(u)
    <3>1. CASE s.loop
      BY <1>4, <2>1, <3>1, StopFadeSteps DEF Off
    <3>2. CASE ~s.loop
      BY <1>1, <1>2, <2>1, <3>2
    <3> QED
      BY <3>1, <3>2
  <2>3. t = [u EXCEPT !.loop = FALSE, !.visible = FALSE]
    BY <1>4, <2>1 DEF PluginHide, HideFade, HideOver
  <2>4. u.theme \notin TextTheme
    BY <1>4, <2>2 DEF Steps, Same, SameShell, TextTheme
  <2> QED
    BY <2>2, <2>3, <2>4, HidingEnds
<1>5. CASE s.theme = "space-flares"
  <2>1. PICK u : u = IF s.loop THEN StopFlares(s) ELSE s
    OBVIOUS
  <2>2. Steps(s, u) /\ Off(u)
    <3>1. CASE s.loop
      BY <1>5, <2>1, <3>1, StopFlaresSteps DEF Off
    <3>2. CASE ~s.loop
      BY <1>1, <1>2, <2>1, <3>2
    <3> QED
      BY <3>1, <3>2
  <2>3. t = [u EXCEPT !.loop = FALSE, !.visible = FALSE]
    BY <1>5, <2>1 DEF PluginHide, HideFlares, HideOver
  <2>4. u.theme \notin TextTheme
    BY <1>5, <2>2 DEF Steps, Same, SameShell, TextTheme
  <2> QED
    BY <2>2, <2>3, <2>4, HidingEnds
<1>6. CASE s.theme = "script"
  <2>1. PICK u : u = IF s.loop THEN StopScript(s) ELSE s
    OBVIOUS
  <2>2. Steps(s, u) /\ Off(u)
    <3>1. CASE s.loop
      BY <1>6, <2>1, <3>1, StopScriptSteps DEF Off
    <3>2. CASE ~s.loop
      BY <1>1, <1>2, <2>1, <3>2
    <3> QED
      BY <3>1, <3>2
  <2>3. t = [u EXCEPT !.loop = FALSE] \/ t = u
    BY <1>6, <2>1 DEF PluginHide, HideScript
  <2>4. u.theme \notin TextTheme
    BY <1>6, <2>2 DEF Steps, Same, SameShell, TextTheme
  <2> QED
    BY <2>2, <2>3, <2>4, HidingEnds
<1>7. CASE s.theme = "console-viewer"
  <2>1. t = [s EXCEPT !.loop = FALSE, !.visible = FALSE]
    BY <1>7 DEF PluginHide, HideConsoleViewer
  <2>2. s.theme \notin TextTheme /\ Off(s)
    BY <1>7 DEF TextTheme, Off, StopTheme
  <2> QED
    BY <1>1, <2>1, <2>2, HidingEnds
<1>8. CASE s.theme = "text"
  <2>1. PICK u, v : /\ u = IF s.loop THEN StopText(s) ELSE s
                    /\ v = OnScreen(u, "blank")
    OBVIOUS
  <2>2. Steps(s, u)
    BY <1>1, <1>8, <2>1, StartTextSteps DEF TextTheme
  <2>3. Core(u) /\ u.theme \in TextTheme
    BY <1>8, <2>2 DEF Steps, Same, SameShell, TextTheme
  <2>4. Steps(u, v)
    BY <2>1, <2>3, StartTextSteps
  <2>5. Steps(s, v) /\ v.theme \in TextTheme
    BY <2>2, <2>3, <2>4, StepsAreTransitive DEF Steps, Same, SameShell
  <2>6. t = [v EXCEPT !.loop = FALSE, !.kernel = TRUE]
    BY <1>8, <2>1 DEF PluginHide, HideText
  <2> QED
    BY <2>5, <2>6, HideTextHides
<1>9. CASE s.theme = "details"
  <2>1. t = [s EXCEPT !.loop = FALSE, !.kernel = TRUE]
    BY <1>9 DEF PluginHide, HideDetails
  <2> QED
    BY <1>1, <1>9, <2>1, HideTextHides DEF TextTheme
<1> QED
  BY <1>1, <1>3, <1>4, <1>5, <1>6, <1>7, <1>8, <1>9

(* The settings of a plugin that shows                                      *)
LEMMA SetUpKeeps ==
  ASSUME NEW s, Core(s), NEW m \in Mode, NEW t,
         t = [s EXCEPT !.loop = TRUE, !.pluginMode = m]
  PROVE  /\ Core(t) /\ SameShell(s, t) /\ t.loop /\ t.failed = s.failed
         /\ t.animating = s.animating /\ t.visible = s.visible
<1>1. s \in SplashObject
  BY DEF Core, Sound
<1>2. t \in SplashObject
  <2>1. Shaped(s, t)
    BY Zenon DEF Shaped
  <2>2. Typed(t)
    BY <1>1 DEF SplashObject, Typed
  <2> QED
    BY <1>1, <2>1, <2>2, TypedIsSplash
<1>3. /\ SameShell(s, t) /\ t.stop = s.stop /\ t.lost = s.lost
      /\ t.view = s.view /\ t.animating = s.animating /\ t.timer = s.timer
      /\ t.listening = s.listening /\ t.keyboard = s.keyboard
      /\ t.kernel = s.kernel /\ t.loop /\ t.visible = s.visible
      /\ t.failed = s.failed
  BY <1>1 DEF SplashObject, SameShell
<1>4. Sets(s, t)
  BY <1>2, <1>3 DEF Sets
<1> QED
  BY <1>3, <1>4, SetsKeep

LEMMA FailSteps ==
  ASSUME NEW s, Core(s), NEW b \in BOOLEAN, NEW t, t = [s EXCEPT !.failed = b]
  PROVE  Steps(s, t) /\ t.failed = b /\ t.animating = s.animating
         /\ t.kernel = s.kernel
<1>1. s \in SplashObject
  BY DEF Core, Sound
<1>2. t.failed = b /\ Unmoved(s, t) /\ Same(s, t)
  BY <1>1 DEF SplashObject, Unmoved, Same, SameShell
<1> QED
  BY <1>2, UnmovedSteps DEF Unmoved

LEMMA VisibleKeeps ==
  ASSUME NEW s, Core(s), AllTakePart(s), NEW t, t = [s EXCEPT !.visible = TRUE]
  PROVE  Core(t) /\ SameShell(s, t) /\ t.loop = s.loop
<1>1. s \in SplashObject /\ Calm(s)
  BY DEF Core, Sound
<1>2. t \in SplashObject
  BY <1>1, ZenonT(60) DEF SplashObject
<1>3. /\ SameShell(s, t) /\ t.stop = s.stop /\ t.lost = s.lost
      /\ t.view = s.view /\ t.animating = s.animating /\ t.timer = s.timer
      /\ t.listening = s.listening /\ t.keyboard = s.keyboard
      /\ t.kernel = s.kernel /\ t.loop = s.loop
  BY <1>1 DEF SplashObject, SameShell
<1>4. Sets(s, t)
  BY <1>1, <1>2, <1>3 DEF Sets, Calm
<1> QED
  BY <1>3, <1>4, SetsKeep

LEMMA LoadingSteps ==
  ASSUME NEW s, Core(s), s.theme = "two-step", ~s.animating, NEW t,
         t = ForViews(LoadEndAnimation, s)
  PROVE  Steps(s, t) /\ ~t.animating
<1>1. /\ s \in SplashObject /\ s.view \in [Display -> View] /\ Calm(s)
      /\ Listens(s)
  BY SplashViews DEF Core, Sound
<1>2. PICK w : w = [d \in Display |-> IF d \in s.views
                       THEN LoadEndAnimation(s.view[d]) ELSE s.view[d]]
  OBVIOUS
<1>3. ASSUME NEW d \in Display
      PROVE  /\ w[d] \in View /\ Keeps(s.view[d], w[d]) /\ Runs(w[d])
             /\ w[d].spinning = s.view[d].spinning
             /\ d \in s.views => w[d].anim = "stopped"
             /\ d \notin s.views => w[d] = s.view[d]
  <2>1. s.view[d] \in View /\ Runs(s.view[d])
    BY <1>1 DEF Calm
  <2> QED
    BY <1>2, <2>1, LoadEndAnimationKeeps DEF Keeps
<1>4. w \in [Display -> View]
  BY <1>2, <1>3
<1>5. t = [s EXCEPT !.view = w]
  BY <1>2 DEF ForViews
<1>6. t \in SplashObject
  BY <1>1, <1>4, <1>5 DEF SplashObject
<1>7. /\ t.stop = s.stop /\ t.lost = s.lost /\ t.view = w
      /\ t.animating = s.animating /\ t.timer = s.timer /\ t.kernel = s.kernel
      /\ t.listening = s.listening /\ t.keyboard = s.keyboard /\ Same(s, t)
  BY <1>1, <1>5 DEF SplashObject, Same, SameShell
<1>8. Moves(s, t)
  BY <1>3, <1>6, <1>7 DEF Moves
<1>9. Calm(t)
  BY <1>1, <1>3, <1>7 DEF Calm, Same, SameShell
<1>10. Listens(t) /\ TakesPart(t)
  BY <1>1, <1>7 DEF Listens, TakesPart, AllTakePart, Same, SameShell
<1> QED
  BY <1>7, <1>8, <1>9, <1>10, AnimationSteps

(* What showing a plugin keeps and sets.                                    *)
Shows(h, p) ==
    /\ Core(p) /\ SameShell(h, p)
    /\ h.theme \in {"two-step", "fade-throbber", "space-flares"} => p.loop
    /\ h.theme \in TextTheme => p.failed = h.failed

LEMMA ShowTwoStepShows ==
  ASSUME NEW h, Core(h), h.theme = "two-step", ~h.animating, NEW m \in Mode,
         NEW loads, NEW p, p = ShowTwoStep(h, m, loads)
  PROVE  Shows(h, p)
<1> h.theme \notin TextTheme
  BY DEF TextTheme
<1>1. PICK t : t = [h EXCEPT !.loop = TRUE, !.pluginMode = m]
  OBVIOUS
<1>2. /\ Core(t) /\ SameShell(h, t) /\ t.loop /\ t.animating = h.animating
  BY <1>1, SetUpKeeps
<1>3. t.theme = "two-step" /\ t.useEnd = h.useEnd /\ t.views = h.views
  BY <1>2 DEF SameShell
<1>4. CASE ~loads \/ h.views = {}
  <2>1. p = [t EXCEPT !.failed = TRUE]
    BY <1>1, <1>4 DEF ShowTwoStep
  <2>2. Steps(t, p)
    BY <1>2, <2>1, FailSteps, TrueFalse
  <2> QED
    BY <1>2, <2>2, ShellIsTransitive DEF Shows, Steps, Same
<1>5. CASE ~(~loads \/ h.views = {})
  <2>1. PICK u, v : /\ u = IF h.useEnd THEN ForViews(LoadEndAnimation, t) ELSE t
                    /\ v = StartProgressAnimation(u)
    OBVIOUS
  <2>2. p = [v EXCEPT !.visible = TRUE]
    BY <1>1, <1>5, <2>1 DEF ShowTwoStep
  <2>3. Steps(t, u) /\ ~u.animating
    BY <1>2, <1>3, <2>1, LoadingSteps, NoStep
  <2>4. Core(u) /\ u.theme = "two-step" /\ u.loop
    BY <1>2, <1>3, <2>3 DEF Steps, Same, SameShell
  <2>5. Steps(u, v) /\ AllTakePart(v)
    BY <2>1, <2>3, <2>4, StartTwoStepSteps
  <2>6. Core(p) /\ SameShell(v, p) /\ p.loop = v.loop
    BY <2>2, <2>5, VisibleKeeps DEF Steps
  <2>7. SameShell(h, v) /\ v.loop
    BY <1>2, <2>3, <2>4, <2>5, ShellIsTransitive DEF Steps, Same
  <2> QED
    BY <2>6, <2>7, ShellIsTransitive DEF Shows
<1> QED
  BY <1>4, <1>5

LEMMA ShowFadeShows ==
  ASSUME NEW h, Core(h), h.theme = "fade-throbber", NEW m \in Mode,
         NEW loads, NEW p, p = ShowFade(h, m, loads)
  PROVE  Shows(h, p)
<1> h.theme \notin TextTheme
  BY DEF TextTheme
<1>1. PICK t : t = [h EXCEPT !.loop = TRUE, !.pluginMode = m]
  OBVIOUS
<1>2. /\ Core(t) /\ SameShell(h, t) /\ t.loop /\ t.views = h.views
      /\ t.theme = "fade-throbber" /\ AllTakePart(t)
  <2>1. Core(t) /\ SameShell(h, t) /\ t.loop
    BY <1>1, SetUpKeeps
  <2> QED
    BY <2>1 DEF SameShell, AllTakePart
<1>3. CASE ~loads \/ h.views = {}
  <2>1. p = [t EXCEPT !.failed = TRUE]
    BY <1>1, <1>3 DEF ShowFade
  <2>2. Steps(t, p)
    BY <1>2, <2>1, FailSteps, TrueFalse
  <2> QED
    BY <1>2, <2>2, ShellIsTransitive DEF Shows, Steps, Same
<1>4. CASE ~(~loads \/ h.views = {})
  <2>1. PICK u : u = [t EXCEPT !.visible = TRUE]
    OBVIOUS
  <2>2. p = StartFade(u)
    BY <1>1, <1>4, <2>1 DEF ShowFade
  <2>3. Core(u) /\ SameShell(t, u) /\ u.loop
    BY <1>2, <2>1, VisibleKeeps
  <2>4. Steps(u, p)
    BY <1>2, <2>2, <2>3, StartFadeSteps DEF SameShell
  <2> QED
    BY <1>2, <2>3, <2>4, ShellIsTransitive DEF Shows, Steps, Same
<1> QED
  BY <1>3, <1>4

LEMMA ShowFlaresShows ==
  ASSUME NEW h, Core(h), h.theme = "space-flares", NEW m \in Mode,
         NEW loads, NEW p, p = ShowFlares(h, m, loads)
  PROVE  Shows(h, p)
<1> h.theme \notin TextTheme
  BY DEF TextTheme
<1>1. PICK t : t = [h EXCEPT !.loop = TRUE, !.pluginMode = m]
  OBVIOUS
<1>2. /\ Core(t) /\ SameShell(h, t) /\ t.loop /\ t.views = h.views
      /\ t.theme = "space-flares"
  <2>1. Core(t) /\ SameShell(h, t) /\ t.loop
    BY <1>1, SetUpKeeps
  <2> QED
    BY <2>1 DEF SameShell
<1>3. CASE ~loads \/ h.views = {}
  <2>1. p = [t EXCEPT !.failed = TRUE]
    BY <1>1, <1>3 DEF ShowFlares
  <2>2. Steps(t, p)
    BY <1>2, <2>1, FailSteps, TrueFalse
  <2> QED
    BY <1>2, <2>2, ShellIsTransitive DEF Shows, Steps, Same
<1>4. CASE ~(~loads \/ h.views = {})
  <2>1. PICK u : u = StartFlares(t)
    OBVIOUS
  <2>2. p = [u EXCEPT !.visible = TRUE]
    BY <1>1, <1>4, <2>1 DEF ShowFlares
  <2>3. Steps(t, u)
    BY <1>2, <2>1, StartFlaresSteps
  <2>4. Core(u) /\ SameShell(t, u) /\ u.loop /\ AllTakePart(u)
    BY <1>2, <2>3 DEF Steps, Same, SameShell, AllTakePart
  <2>5. Core(p) /\ SameShell(u, p) /\ p.loop = u.loop
    BY <2>2, <2>4, VisibleKeeps
  <2> QED
    BY <1>2, <2>4, <2>5, ShellIsTransitive DEF Shows
<1> QED
  BY <1>3, <1>4

LEMMA ShowScriptShows ==
  ASSUME NEW h, Core(h), h.theme = "script", NEW m \in Mode, NEW p,
         p = ShowScript(h, m)
  PROVE  Shows(h, p)
<1> h.theme \notin TextTheme
  BY DEF TextTheme
<1>1. CASE h.views = {}
  <2>1. p = [h EXCEPT !.failed = TRUE]
    BY <1>1 DEF ShowScript
  <2>2. Steps(h, p)
    BY <2>1, FailSteps, TrueFalse
  <2> QED
    BY <2>2 DEF Shows, Steps, Same
<1>2. CASE h.views # {}
  <2>1. PICK t, u : /\ t = [h EXCEPT !.loop = TRUE, !.pluginMode = m]
                    /\ u = [t EXCEPT !.console = FALSE]
    OBVIOUS
  <2>2. Core(t) /\ SameShell(h, t) /\ t.loop
    BY <2>1, SetUpKeeps
  <2>3. Steps(t, u)
    BY <2>1, <2>2, FlagSteps, TrueFalse
  <2>4. p = StartScript(u)
    BY <1>2, <2>1 DEF ShowScript
  <2>5. Core(u) /\ u.loop /\ u.theme = "script" /\ SameShell(h, u)
    BY <2>2, <2>3, ShellIsTransitive DEF Steps, Same, SameShell
  <2>6. Steps(u, p)
    BY <2>4, <2>5, StartScriptSteps
  <2> QED
    BY <2>5, <2>6, ShellIsTransitive DEF Shows, Steps, Same
<1> QED
  BY <1>1, <1>2

LEMMA ShowConsoleViewerShows ==
  ASSUME NEW h, Core(h), h.theme = "console-viewer", NEW m \in Mode, NEW p,
         p = ShowConsoleViewer(h, m)
  PROVE  Shows(h, p)
<1> h.theme \notin TextTheme
  BY DEF TextTheme
<1>1. PICK t : t = [h EXCEPT !.loop = TRUE, !.pluginMode = m]
  OBVIOUS
<1>2. Core(t) /\ SameShell(h, t) /\ AllTakePart(t)
  <2>1. Core(t) /\ SameShell(h, t)
    BY <1>1, SetUpKeeps
  <2> QED
    BY <2>1 DEF SameShell, AllTakePart
<1>3. p = [t EXCEPT !.visible = TRUE]
  BY <1>1 DEF ShowConsoleViewer
<1> QED
  BY <1>2, <1>3, VisibleKeeps, ShellIsTransitive DEF Shows

(* The text plugins take the console from the kernel.                       *)
LEMMA ShowTextShows ==
  ASSUME NEW h, Core(h), h.theme \in TextTheme, NEW m \in Mode, NEW p,
         p = (IF h.theme = "text" THEN ShowText(h, m) ELSE ShowDetails(h, m))
  PROVE  Shows(h, p)
<1>1. h \in SplashObject /\ h.theme \notin StopTheme
      /\ h.theme \notin {"two-step", "fade-throbber", "space-flares"}
  BY DEF Core, Sound, TextTheme, StopTheme
<1>2. PICK t : t = [h EXCEPT !.loop = TRUE, !.pluginMode = m, !.kernel = FALSE]
  OBVIOUS
<1>3. t \in SplashObject
  <2>1. Shaped(h, t)
    BY <1>2, Zenon DEF Shaped
  <2>2. Typed(t)
    BY <1>1, <1>2 DEF SplashObject, Typed
  <2> QED
    BY <1>1, <2>1, <2>2, TypedIsSplash
<1>4. /\ SameShell(h, t) /\ t.stop = h.stop /\ t.lost = h.lost
      /\ t.view = h.view /\ t.animating = h.animating /\ t.timer = h.timer
      /\ t.listening = h.listening /\ t.keyboard = h.keyboard
      /\ t.visible = h.visible /\ t.failed = h.failed
  BY <1>1, <1>2 DEF SplashObject, SameShell
<1>5. Core(t)
  BY <1>1, <1>3, <1>4, SetsKeep DEF Sets
<1>6. CASE h.theme = "details"
  <2>1. p = t
    BY <1>2, <1>6 DEF ShowDetails
  <2> QED
    BY <1>1, <1>4, <1>5, <2>1 DEF Shows
<1>7. CASE h.theme = "text"
  <2>1. p = StartText(t)
    BY <1>2, <1>7 DEF ShowText
  <2>2. Steps(t, p)
    BY <1>4, <1>5, <2>1, StartTextSteps DEF SameShell
  <2>3. p.failed = t.failed
    BY <1>3, <2>1 DEF StartText, OnScreen, SplashObject
  <2> QED
    BY <1>1, <1>4, <2>2, <2>3, ShellIsTransitive DEF Shows, Steps, Same
<1> QED
  BY <1>6, <1>7 DEF TextTheme

LEMMA PluginShowShows ==
  ASSUME NEW h, Core(h), Off(h), NEW m \in Mode, NEW loads, NEW p,
         p = PluginShow(h, m, loads)
  PROVE  Shows(h, p)
<1>1. h.theme \in {"two-step", "fade-throbber", "space-flares", "script",
                   "console-viewer", "text", "details"}
  BY ThemeIs DEF Core, Sound
<1>2. CASE h.theme = "two-step"
  BY <1>2, ShowTwoStepShows DEF PluginShow, Off, StopTheme
<1>3. CASE h.theme = "fade-throbber"
  BY <1>3, ShowFadeShows DEF PluginShow
<1>4. CASE h.theme = "space-flares"
  BY <1>4, ShowFlaresShows DEF PluginShow
<1>5. CASE h.theme = "script"
  BY <1>5, ShowScriptShows DEF PluginShow
<1>6. CASE h.theme = "console-viewer"
  BY <1>6, ShowConsoleViewerShows DEF PluginShow
<1>7. CASE h.theme = "text"
  BY <1>7, ShowTextShows DEF PluginShow, TextTheme
<1>8. CASE h.theme = "details"
  BY <1>8, ShowTextShows DEF PluginShow, TextTheme
<1> QED
  BY <1>1, <1>2, <1>3, <1>4, <1>5, <1>6, <1>7, <1>8

-----------------------------------------------------------------------------
(* The shell holds and releases the displays                                *)

(* A change of what the shell keeps, and of nothing that the plugin has     *)
ShellSets(s, t) ==
    /\ t \in SplashObject
    /\ t.theme = s.theme /\ t.useEnd = s.useEnd /\ t.throbber = s.throbber
    /\ t.stop = s.stop /\ t.lost = s.lost /\ t.view = s.view
    /\ t.animating = s.animating /\ t.timer = s.timer /\ t.kernel = s.kernel
    /\ t.listening = s.listening /\ t.keyboard = s.keyboard
    /\ t.loop = s.loop /\ t.visible = s.visible /\ t.views = s.views

LEMMA ShellSetsKeep ==
  ASSUME NEW s, NEW t, Core(s), ShellSets(s, t)
  PROVE  Core(t)
<1>1. Paired(t)
  BY MovesWithoutViews DEF Core, ShellSets
<1>2. Calm(t) /\ Listens(t) /\ TakesPart(t)
  BY DEF Core, Sound, ShellSets, Calm, Listens, TakesPart, AllTakePart
<1> QED
  BY <1>1, <1>2 DEF Core, Sound, ShellSets

(* What a function of the shell leaves alone                                *)
Leaves(s, t) ==
    /\ t.theme = s.theme /\ t.views = s.views /\ t.left = s.left
    /\ t.queue = s.queue /\ t.written = s.written
    /\ s.theme = "details" => t.prompt = s.prompt

LEMMA LeavesIsTransitive ==
  ASSUME NEW s, NEW t, NEW u, Leaves(s, t), Leaves(t, u)
  PROVE  Leaves(s, u)
BY DEF Leaves

LEMMA ShellLeaves ==
  ASSUME NEW s, NEW t, SameShell(s, t)
  PROVE  Leaves(s, t) /\ (Held(s) => Held(t))
BY DEF SameShell, Leaves, Held

LEMMA WaitsStays ==
  ASSUME NEW s, NEW t, Leaves(s, t), Waits(s)
  PROVE  Waits(t)
BY DEF Leaves, Waits

(* ply_boot_splash_show pauses the displays once.                           *)
LEMMA PausingHolds ==
  ASSUME NEW s, Core(s), Held(s), NEW t,
         t = HoldDisplays(s)
  PROVE  /\ Core(t) /\ Held(t) /\ Leaves(s, t)
         /\ t.loop = s.loop /\ t.mode = s.mode /\ t.failed = s.failed
<1>1. s \in SplashObject /\ s.paused \in [Display -> Int]
  BY DEF Core, Sound, SplashObject
<1>2. CASE s.shown
  BY <1>2 DEF Leaves, HoldDisplays
<1>3. CASE ~s.shown
  <2>1. PICK p : p = [d \in Display |->
                         IF d \in s.views THEN s.paused[d] + 1 ELSE s.paused[d]]
    OBVIOUS
  <2>2. p \in [Display -> Int]
    BY <1>1, <2>1
  <2>3. t = [s EXCEPT !.paused = p, !.frames = TRUE, !.shown = TRUE]
    BY <1>3, <2>1 DEF HoldDisplays, PausePixelDisplays
  <2>4. t \in SplashObject
    <3>1. Shaped(s, t)
      BY <2>3, Zenon DEF Shaped
    <3>2. Typed(t)
      BY <1>1, <2>2, <2>3 DEF SplashObject, Typed
    <3> QED
      BY <1>1, <3>1, <3>2, TypedIsSplash
  <2>5. /\ ShellSets(s, t) /\ Leaves(s, t)
        /\ t.loop = s.loop /\ t.mode = s.mode /\ t.failed = s.failed
    <3>1. ShellSets(s, t)
      BY <1>1, <2>3, <2>4 DEF SplashObject, ShellSets
    <3>2. Leaves(s, t) /\ t.loop = s.loop /\ t.mode = s.mode /\ t.failed = s.failed
      BY <1>1, <2>3 DEF SplashObject, Leaves
    <3> QED
      BY <3>1, <3>2
  <2>6. t.paused = p /\ t.frames = TRUE /\ t.shown = TRUE
    BY <1>1, <2>3 DEF SplashObject
  <2>7. \A d \in Display : p[d] = IF d \in s.views THEN 1 ELSE 0
    <3>1. \A d \in Display : s.paused[d] = 0
      BY <1>3 DEF Held
    <3> QED
      BY <2>1, <3>1
  <2>8. Held(t)
    BY <2>5, <2>6, <2>7 DEF Held, Leaves
  <2> QED
    BY <2>5, <2>8, ShellSetsKeep
<1> QED
  BY <1>2, <1>3

(* A change of mode, and of whether progress is reported                    *)
LEMMA ModeHolds ==
  ASSUME NEW s, Core(s), NEW m \in Mode \cup {"invalid"}, NEW t,
         t = [s EXCEPT !.mode = m]
  PROVE  /\ Core(t) /\ (Held(s) => Held(t)) /\ Leaves(s, t)
         /\ t.loop = s.loop /\ t.mode = m /\ t.failed = s.failed
         /\ t.animating = s.animating /\ t.kernel = s.kernel
<1>1. s \in SplashObject
  BY DEF Core, Sound
<1>2. t \in SplashObject /\ t.mode = m
  BY <1>1 DEF SplashObject
<1>3. ShellSets(s, t)
  BY <1>1, <1>2 DEF SplashObject, ShellSets
<1>4. /\ Leaves(s, t) /\ t.loop = s.loop /\ t.failed = s.failed
      /\ t.animating = s.animating /\ t.kernel = s.kernel
      /\ t.frames = s.frames /\ t.shown = s.shown /\ t.paused = s.paused
  BY <1>1 DEF SplashObject, Leaves
<1>5. Held(s) => Held(t)
  BY <1>4 DEF Held, Leaves
<1> QED
  BY <1>2, <1>3, <1>4, <1>5, ShellSetsKeep

LEMMA ProgressHolds ==
  ASSUME NEW s, Core(s), NEW t, t = [s EXCEPT !.progress = FALSE]
  PROVE  /\ Core(t) /\ (Held(s) => Held(t)) /\ Leaves(s, t)
         /\ t.loop = s.loop /\ t.mode = s.mode /\ t.failed = s.failed
         /\ t.animating = s.animating /\ t.kernel = s.kernel
<1>1. s \in SplashObject
  BY DEF Core, Sound
<1>2. t \in SplashObject /\ t.mode = s.mode
  BY <1>1, ZenonT(60) DEF SplashObject
<1>3. ShellSets(s, t)
  BY <1>1, <1>2 DEF SplashObject, ShellSets
<1>4. /\ Leaves(s, t) /\ t.loop = s.loop /\ t.failed = s.failed
      /\ t.animating = s.animating /\ t.kernel = s.kernel
      /\ t.frames = s.frames /\ t.shown = s.shown /\ t.paused = s.paused
  BY <1>1 DEF SplashObject, Leaves
<1>5. Held(s) => Held(t)
  BY <1>4 DEF Held, Leaves
<1> QED
  BY <1>2, <1>3, <1>4, <1>5, ShellSetsKeep

(* ply_boot_splash_show: a splash that is up stays up, and one that was     *)
(* never shown is up if its plugin could be shown.                          *)
LEMMA ShowSplashHolds ==
  ASSUME NEW s, Core(s), Held(s), s.mode = "invalid" => Off(s),
         s.mode # "invalid" => Up(s), NEW m \in Mode, NEW loads,
         NEW t, t = ShowSplash(s, m, loads)
  PROVE  /\ Core(t) /\ Held(t) /\ Leaves(s, t)
         /\ s.mode # "invalid" \/ ~t.failed => Up(t)
         /\ s.mode = "invalid" /\ s.theme \in TextTheme => ~t.failed
<1> s \in SplashObject
  BY DEF Core, Sound
<1>1. CASE s.mode = m
  <2>1. t = s /\ s.mode # "invalid"
    BY <1>1 DEF ShowSplash, Mode, ShutdownMode, UpdateMode
  <2> QED
    BY <2>1 DEF Leaves
<1>2. CASE s.mode # m
  <2>1. PICK g, h, p, f : /\ g = (IF s.mode = "invalid" THEN s
                                  ELSE [PluginHide(s) EXCEPT !.progress = FALSE])
                          /\ h = [g EXCEPT !.failed = FALSE]
                          /\ p = PluginShow(h, m, loads)
                          /\ f = HoldDisplays(p)
    OBVIOUS
  <2>2. t = IF p.failed THEN p ELSE [UpdateProgress(f, FALSE) EXCEPT !.mode = m]
    <3>1. (CHOOSE r \in {PluginShow(x, m, loads) : x \in {h}} : TRUE) = p
      BY <2>1
    <3>2. t = CHOOSE r \in {IF y.failed THEN y
                            ELSE [UpdateProgress(HoldDisplays(y), FALSE)
                                     EXCEPT !.mode = m] :
                y \in {CHOOSE r \in {PluginShow(x, m, loads) : x \in {h}} : TRUE}} : TRUE
      BY <1>2, <2>1 DEF ShowSplash, Then
    <3>3. t = CHOOSE r \in {IF y.failed THEN y
                            ELSE [UpdateProgress(HoldDisplays(y), FALSE)
                                     EXCEPT !.mode = m] : y \in {p}} : TRUE
      BY <3>1, <3>2
    <3> QED
      BY <2>1, <3>3
  <2>3. /\ Core(g) /\ Held(g) /\ Off(g) /\ Leaves(s, g) /\ g.mode = s.mode
    <3>1. CASE s.mode = "invalid"
      BY <2>1, <3>1 DEF Leaves
    <3>2. CASE s.mode # "invalid"
      <4>1. PICK x : x = PluginHide(s)
        OBVIOUS
      <4>2. Core(x) /\ SameShell(s, x) /\ Off(x) /\ x.mode \in Mode \cup {"invalid"}
        <5>1. Hides(s, x)
          BY <4>1, PluginHideHides
        <5> QED
          BY <5>1 DEF Hides, Core, Sound, SplashObject
      <4>3. g = [x EXCEPT !.progress = FALSE]
        BY <2>1, <3>2, <4>1
      <4>4. Core(g) /\ (Held(x) => Held(g)) /\ Leaves(x, g) /\ g.mode = x.mode
            /\ g.animating = x.animating
        BY <4>2, <4>3, ProgressHolds
      <4>5. Leaves(s, x) /\ Held(x) /\ x.mode = s.mode
        BY <4>2, ShellLeaves DEF SameShell
      <4> QED
        BY <4>2, <4>4, <4>5, LeavesIsTransitive DEF Off, Leaves
    <3> QED
      BY <3>1, <3>2
  <2>4. /\ Core(h) /\ Held(h) /\ Off(h) /\ Leaves(s, h) /\ h.mode = s.mode
        /\ ~h.failed
    <3>1. Steps(g, h) /\ h.failed = FALSE /\ h.animating = g.animating
      <4>1. Core(g) /\ h = [g EXCEPT !.failed = FALSE]
        BY <2>1, <2>3
      <4> QED
        BY <4>1, FailSteps, TrueFalse
    <3>2. Core(h) /\ SameShell(g, h)
      BY <3>1, SameIsShell
    <3>3. Leaves(g, h) /\ Held(h) /\ h.mode = g.mode /\ h.theme = g.theme
      BY <2>3, <3>2, ShellLeaves DEF SameShell
    <3> QED
      BY <2>3, <3>1, <3>2, <3>3, LeavesIsTransitive DEF Off
  <2>5. Shows(h, p)
    BY <2>1, <2>4, PluginShowShows
  <2>6. Core(p) /\ Held(p) /\ Leaves(s, p) /\ p.mode = s.mode
    <3>1. SameShell(h, p)
      BY <2>5 DEF Shows
    <3>2. Leaves(h, p) /\ Held(p) /\ p.mode = h.mode
      BY <2>4, <3>1, ShellLeaves DEF SameShell
    <3> QED
      BY <2>4, <2>5, <3>2, LeavesIsTransitive DEF Shows
  <2>7. s.theme \in {"two-step", "fade-throbber", "space-flares"} => p.loop
    BY <2>4, <2>5 DEF Shows, Leaves
  <2>8. s.theme \in TextTheme => ~p.failed
    BY <2>4, <2>5 DEF Shows, Leaves
  <2>9. s.mode # "invalid" => Up(p)
    BY <2>6, <2>7 DEF Up, Leaves
  <2>10. CASE p.failed
    BY <2>2, <2>6, <2>8, <2>9, <2>10
  <2>11. CASE ~p.failed
    <3>1. Core(f) /\ Held(f) /\ Leaves(p, f) /\ f.loop = p.loop
          /\ f.failed = p.failed
      <4>1. f = HoldDisplays(p)
        BY <2>1
      <4> QED
        BY <2>6, <4>1, PausingHolds
    <3>2. PICK x : x = UpdateProgress(f, FALSE)
      OBVIOUS
    <3>3. Steps(f, x)
      BY <3>1, <3>2, UpdateProgressSteps
    <3>4. Core(x) /\ Leaves(f, x) /\ Held(x) /\ x.loop = f.loop
      BY <3>1, <3>3, ShellLeaves DEF Steps, Same
    <3>5. t = [x EXCEPT !.mode = m]
      BY <2>2, <2>11, <3>2
    <3>6. Core(t) /\ Held(t) /\ Leaves(x, t) /\ t.loop = x.loop /\ t.mode = m
          /\ t.failed = x.failed
      <4>1. m \in Mode \cup {"invalid"}
        OBVIOUS
      <4> QED
        BY <3>4, <3>5, <4>1, ModeHolds
    <3>7. Leaves(s, t)
      BY <2>6, <3>1, <3>4, <3>6, LeavesIsTransitive
    <3>8. Up(t)
      BY <2>7, <3>1, <3>4, <3>6, <3>7
      DEF Up, Leaves, Mode, ShutdownMode, UpdateMode
    <3>9. s.theme \in TextTheme => x.failed = f.failed
      <4>1. f \in SplashObject /\ f.theme = s.theme
        BY <2>6, <3>1 DEF Core, Sound, Leaves
      <4> QED
        BY <3>2, <4>1 DEF UpdateProgress, OnBootProgress, TextTheme, SplashObject
    <3> QED
      BY <2>8, <2>11, <3>1, <3>6, <3>7, <3>8, <3>9
  <2> QED
    BY <2>10, <2>11
<1> QED
  BY <1>1, <1>2

-----------------------------------------------------------------------------
(* New splashes and new screens                                             *)

LEMMA NothingIsOwed ==
  ASSUME NEW v, v = [d \in Display |-> NewView]
  PROVE  v \in [Display -> View] /\ OwedIn(v, Display) = 0
<1>1. v \in [Display -> View]
  BY NewViewOwesNothing
<1>2. v = [d \in Display |-> IF d \in Display THEN NewView ELSE v[d]]
  OBVIOUS
<1>3. OwedIn(v, Display) = OwedIn(v, Display) + OwedIn(v, Display)
  BY <1>1, <1>2, OwedInSplits
<1>4. PICK n : n = OwedIn(v, Display)
  OBVIOUS
<1>5. n \in Nat /\ n = n + n
  BY <1>1, <1>3, <1>4, OwedInTakesOut
<1>6. n = 0
  BY <1>5
<1> QED
  BY <1>1, <1>4, <1>6

LEMMA NewSplashIsFit ==
  ASSUME NEW theme \in Plugin, NEW useEnd \in BOOLEAN,
         NEW throbber \in BOOLEAN, NEW s,
         s = NewSplash(theme, useEnd, throbber)
  PROVE  /\ Core(s) /\ Held(s) /\ Off(s) /\ s.theme = theme /\ s.views = {}
         /\ s.mode = "invalid" /\ s.queue = <<>> /\ s.written = <<>>
<1>1. PICK v, p : /\ v = [d \in Display |-> NewView]
                  /\ p = [d \in Display |-> 0]
  OBVIOUS
<1>2. v \in [Display -> View] /\ OwedIn(v, Display) = 0 /\ p \in [Display -> Int]
  BY <1>1, NothingIsOwed
<1>3. PICK script \in BOOLEAN : script = (theme = "script")
  OBVIOUS
<1>4. PICK text \in BOOLEAN : text = (theme \in TextTheme)
  <2>1. (theme \in TextTheme) \in BOOLEAN
    BY DEF TextTheme
  <2> QED
    BY <2>1, Zenon
<1>5. script \in BOOLEAN /\ text \in BOOLEAN /\ <<>> \in Messages
  BY <1>3, <1>4 DEF Messages
<1>6. s = [theme |-> theme, useEnd |-> useEnd, throbber |-> throbber,
           mode |-> "invalid", shown |-> FALSE, frames |-> FALSE,
           progress |-> FALSE, idle |-> "none", paused |-> p,
           pluginMode |-> "invalid", loop |-> FALSE, visible |-> FALSE,
           animating |-> FALSE, isIdle |-> FALSE, console |-> FALSE,
           prompt |-> FALSE, stop |-> -1, waiter |-> FALSE, timer |-> FALSE,
           keyboard |-> script, listening |-> FALSE,
           views |-> {}, view |-> v,
           tty |-> text, screen |-> "blank", kernel |-> TRUE,
           queue |-> <<>>, written |-> <<>>, failed |-> FALSE,
           replaced |-> FALSE, lost |-> 0, left |-> {}, fault |-> {}]
  BY <1>1, <1>3, <1>4 DEF NewSplash
<1>7. s \in SplashObject
  BY <1>2, <1>5, <1>6 DEF SplashObject
<1>8. /\ s.theme = theme /\ s.stop = -1 /\ s.lost = 0 /\ s.view = v
      /\ s.views = {} /\ ~s.timer /\ ~s.animating /\ s.kernel /\ ~s.listening
      /\ ~s.visible /\ ~s.shown /\ ~s.frames /\ s.left = {} /\ s.paused = p
      /\ s.frames = s.shown
      /\ s.mode = "invalid" /\ s.queue = <<>> /\ s.written = <<>>
  BY <1>6
<1>9. Paired(s)
  BY <1>2, <1>8 DEF Paired
<1>10. \A d \in Display :
           ~v[d].spinning /\ ~v[d].pays /\ v[d].anim = "stopped"
  BY <1>1 DEF NewView
<1>11. Calm(s) /\ TakesPart(s) /\ Listens(s)
  BY <1>8, <1>10 DEF Calm, Runs, TakesPart, Listens
<1>12. Held(s) /\ Off(s)
  BY <1>1, <1>8 DEF Held, Off
<1> QED
  BY <1>7, <1>8, <1>9, <1>11, <1>12 DEF Core, Sound

(* What a hotplugged screen leaves alone                                    *)
Attaches(s, t, ds) ==
    /\ Core(t) /\ Held(t)
    /\ t.theme = s.theme /\ t.loop = s.loop /\ t.mode = s.mode
    /\ t.animating = s.animating /\ t.prompt = s.prompt
    /\ t.queue = s.queue /\ t.written = s.written
    /\ t.views \subseteq s.views \cup ds

(* A screen is paused like those that the splash has already.               *)
LEMMA PausedTogether ==
  ASSUME NEW s, Held(s), s \in SplashObject, NEW ds \in SUBSET Display,
         ds \cap s.views = {}, NEW p,
         p = [d \in Display |->
                 IF s.shown /\ d \in ds THEN s.paused[d] + 1 ELSE s.paused[d]]
  PROVE  /\ p \in [Display -> Int]
         /\ \A d \in Display :
                p[d] = IF s.shown /\ d \in s.views \cup ds THEN 1 ELSE 0
<1>1. s.paused \in [Display -> Int]
  BY DEF SplashObject
<1>2. \A d \in Display :
          s.paused[d] = IF s.shown /\ d \in s.views THEN 1 ELSE 0
  BY DEF Held
<1>3. p \in [Display -> Int]
  BY <1>1
<1> QED
  BY <1>2, <1>3

LEMMA AddToTwoStepAttaches ==
  ASSUME NEW s, Core(s), Held(s), s.theme = "two-step",
         NEW ds \in SUBSET Display, ds \cap s.views = {}, NEW t,
         t = AddPixelDisplays(s, ds)
  PROVE  Attaches(s, t, ds)
<1>1. /\ s \in SplashObject /\ s.view \in [Display -> View]
      /\ s.views \in SUBSET Display /\ Calm(s) /\ Listens(s) /\ TakesPart(s)
      /\ s.throbber \in BOOLEAN
  <2>1. /\ s \in SplashObject /\ Calm(s) /\ Listens(s) /\ TakesPart(s)
    BY DEF Core, Sound
  <2>2. s.throbber \in BOOLEAN
    BY <2>1 DEF SplashObject
  <2> QED
    BY <2>1, <2>2, SplashViews
<1>2. PICK p : p = [d \in Display |->
                       IF s.shown /\ d \in ds THEN s.paused[d] + 1
                       ELSE s.paused[d]]
  OBVIOUS
<1>3. /\ p \in [Display -> Int]
      /\ \A d \in Display :
             p[d] = IF s.shown /\ d \in s.views \cup ds THEN 1 ELSE 0
  BY <1>1, <1>2, PausedTogether
<1>4. PICK starts \in BOOLEAN : starts = (s.visible /\ s.animating)
  OBVIOUS
<1>5. PICK i \in BOOLEAN : i = (s.isIdle /\ ~(starts /\ ds # {}))
  OBVIOUS
<1>6. PICK w : w = [d \in Display |->
                       IF starts /\ d \in ds
                       THEN ViewStartProgressAnimation(s.view[d], s.throbber)
                       ELSE s.view[d]]
  OBVIOUS
<1>7. PICK c : c = s.views \cup ds /\ c \in SUBSET Display
  BY <1>1
<1>8. t = [s EXCEPT !.paused = p, !.views = c, !.isIdle = i, !.view = w]
  <2>1. PICK u : u = [s EXCEPT !.paused = p]
    OBVIOUS
  <2>2. /\ u.visible = s.visible /\ u.animating = s.animating
        /\ u.isIdle = s.isIdle /\ u.view = s.view /\ u.views = s.views
        /\ u.throbber = s.throbber
    BY <1>1, <2>1 DEF SplashObject
  <2>3. t = AddToTwoStep(u, ds)
    BY <1>2, <2>1 DEF AddPixelDisplays, TextTheme
  <2>4. t = [u EXCEPT !.views = c, !.isIdle = i, !.view = w]
    BY <1>4, <1>5, <1>6, <1>7, <2>2, <2>3 DEF AddToTwoStep
  <2> QED
    BY <2>1, <2>4
<1>9. ASSUME NEW d \in Display
      PROVE  /\ w[d] \in View /\ Keeps(s.view[d], w[d]) /\ Runs(w[d])
             /\ w[d].anim = s.view[d].anim /\ w[d].still = s.view[d].still
             /\ w[d].spinning = (s.view[d].spinning
                                 \/ (starts /\ d \in ds /\ s.throbber))
  <2>1. PICK v : v = s.view[d] /\ v \in View /\ Runs(v)
    BY <1>1 DEF Calm
  <2>2. CASE starts /\ d \in ds
    <3>1. w[d] = ViewStartProgressAnimation(v, s.throbber)
      BY <1>6, <2>1, <2>2
    <3>2. /\ Keeps(v, w[d]) /\ w[d].anim = v.anim /\ w[d].still = v.still
          /\ w[d].spinning = (v.spinning \/ s.throbber)
      BY <1>1, <2>1, <3>1, StartProgressKeeps
    <3> QED
      BY <2>1, <2>2, <3>2 DEF Keeps
  <2>3. CASE ~(starts /\ d \in ds)
    <3>1. w[d] = v /\ v.spinning \in BOOLEAN
      BY <1>6, <2>1, <2>3 DEF View
    <3> QED
      BY <2>1, <2>3, <3>1 DEF Keeps
  <2> QED
    BY <2>2, <2>3
<1>10. w \in [Display -> View]
  BY <1>6, <1>9
<1>11. t \in SplashObject
  <2>1. Shaped(s, t)
    BY <1>8, Zenon DEF Shaped
  <2>2. i \in BOOLEAN
    BY <1>5
  <2>3. Typed(t)
    BY <1>1, <1>3, <1>7, <1>8, <1>10, <2>2 DEF SplashObject, Typed
  <2> QED
    BY <1>1, <2>1, <2>3, TypedIsSplash
<1>12. /\ t.theme = s.theme /\ t.loop = s.loop /\ t.mode = s.mode
       /\ t.animating = s.animating /\ t.prompt = s.prompt
       /\ t.queue = s.queue /\ t.written = s.written
       /\ t.views = c /\ t.view = w /\ t.paused = p
       /\ t.shown = s.shown /\ t.frames = s.frames /\ t.left = s.left
       /\ t.stop = s.stop /\ t.lost = s.lost /\ t.timer = s.timer
       /\ t.kernel = s.kernel /\ t.listening = s.listening
       /\ t.visible = s.visible /\ t.throbber = s.throbber
       /\ t.useEnd = s.useEnd
  BY <1>1, <1>8 DEF SplashObject
<1>13. Paired(t)
  <2>1. Moves(s, t)
    BY <1>9, <1>11, <1>12 DEF Moves
  <2> QED
    BY <2>1, MovesArePaired DEF Core
<1>14. Calm(t)
  <2>1. \A d \in Display :
            /\ Runs(t.view[d])
            /\ t.view[d].spinning =>
                  d \in t.views /\ t.animating /\ t.theme = "two-step"
            /\ t.view[d].anim = "running" =>
                  /\ d \in t.views /\ t.theme = "two-step"
                  /\ t.animating \/ t.view[d].still
    <3> SUFFICES ASSUME NEW d \in Display
                 PROVE  /\ Runs(w[d])
                        /\ w[d].spinning =>
                              d \in c /\ s.animating /\ s.theme = "two-step"
                        /\ w[d].anim = "running" =>
                              /\ d \in c /\ s.theme = "two-step"
                              /\ s.animating \/ w[d].still
      BY <1>12
    <3>1. /\ s.view[d].spinning =>
                 d \in s.views /\ s.animating /\ s.theme = "two-step"
          /\ s.view[d].anim = "running" =>
                 /\ d \in s.views /\ s.theme = "two-step"
                 /\ s.animating \/ s.view[d].still
      BY <1>1 DEF Calm
    <3> QED
      BY <1>4, <1>7, <1>9, <3>1
  <2> QED
    BY <1>1, <1>12, <2>1 DEF Calm, TimerTheme, TextTheme
<1>15. Listens(t)
  BY <1>1, <1>12 DEF Listens
<1>16. TakesPart(t)
  <2> SUFFICES ASSUME t.visible, t.animating, t.throbber, t.useEnd,
                      NEW d \in t.views
               PROVE  t.view[d].spinning \/ t.view[d].anim # "stopped"
    BY DEF TakesPart, AllTakePart
  <2>1. starts /\ d \in Display
    BY <1>4, <1>7, <1>12
  <2>2. CASE d \in ds
    BY <1>9, <1>12, <2>1, <2>2
  <2>3. CASE d \in s.views
    <3>1. s.view[d].spinning \/ s.view[d].anim # "stopped"
      BY <1>1, <1>12, <2>3 DEF TakesPart, AllTakePart
    <3> QED
      BY <1>9, <1>12, <2>1, <3>1
  <2> QED
    BY <1>7, <1>12, <2>2, <2>3
<1>17. Held(t)
  BY <1>3, <1>7, <1>12 DEF Held
<1> QED
  BY <1>7, <1>11, <1>12, <1>13, <1>14, <1>15, <1>16, <1>17
  DEF Attaches, Core, Sound

LEMMA AddPixelDisplaysAttach ==
  ASSUME NEW s, Core(s), Held(s), NEW ds \in SUBSET Display,
         ds \cap s.views = {}, NEW t, t = AddPixelDisplays(s, ds)
  PROVE  Attaches(s, t, ds)
<1>1. CASE s.theme \in TextTheme
  BY <1>1 DEF AddPixelDisplays, Attaches
<1>2. CASE s.theme = "two-step"
  BY <1>2, AddToTwoStepAttaches
<1>3. CASE s.theme \notin TextTheme /\ s.theme # "two-step"
  <2>1. /\ s \in SplashObject /\ s.views \in SUBSET Display
        /\ Calm(s) /\ Listens(s)
    BY SplashViews DEF Core, Sound
  <2>2. PICK p : p = [d \in Display |->
                         IF s.shown /\ d \in ds THEN s.paused[d] + 1
                         ELSE s.paused[d]]
    OBVIOUS
  <2>3. /\ p \in [Display -> Int]
        /\ \A d \in Display :
               p[d] = IF s.shown /\ d \in s.views \cup ds THEN 1 ELSE 0
    BY <2>1, <2>2, PausedTogether
  <2>4. PICK c : c = s.views \cup ds /\ c \in SUBSET Display
    BY <2>1
  <2>5. t = [s EXCEPT !.paused = p, !.views = c]
    <3>1. PICK u : u = [s EXCEPT !.paused = p]
      OBVIOUS
    <3>2. t = [u EXCEPT !.views = @ \cup ds]
      BY <1>3, <2>2, <3>1 DEF AddPixelDisplays
    <3>3. u.views = s.views
      BY <2>1, <3>1 DEF SplashObject
    <3> QED
      BY <2>4, <3>1, <3>2, <3>3
  <2>6. t \in SplashObject
    <3>1. Shaped(s, t)
      BY <2>5, Zenon DEF Shaped
    <3>2. Typed(t)
      BY <2>1, <2>3, <2>4, <2>5 DEF SplashObject, Typed
    <3> QED
      BY <2>1, <3>1, <3>2, TypedIsSplash
  <2>7. /\ t.theme = s.theme /\ t.loop = s.loop /\ t.mode = s.mode
        /\ t.animating = s.animating /\ t.prompt = s.prompt
        /\ t.queue = s.queue /\ t.written = s.written
        /\ t.views = c /\ t.view = s.view /\ t.paused = p
        /\ t.shown = s.shown /\ t.frames = s.frames /\ t.left = s.left
        /\ t.stop = s.stop /\ t.lost = s.lost /\ t.timer = s.timer
        /\ t.kernel = s.kernel /\ t.listening = s.listening
        /\ t.keyboard = s.keyboard
    BY <2>1, <2>5 DEF SplashObject
  <2>8. Paired(t)
    BY <2>6, <2>7, MovesWithoutViews DEF Core
  <2>9. Calm(t) /\ Listens(t)
    BY <1>3, <2>1, <2>7 DEF Calm, Listens
  <2>10. TakesPart(t) /\ Held(t)
    BY <1>3, <2>3, <2>4, <2>7 DEF TakesPart, AllTakePart, Held
  <2> QED
    BY <2>4, <2>6, <2>7, <2>8, <2>9, <2>10 DEF Attaches, Core, Sound
<1> QED
  BY <1>1, <1>2, <1>3

(* A new splash, if it could be shown: the text splashes always can         *)
Begins(t, theme, ds) ==
    /\ t.theme = theme /\ t.views \subseteq ds
    /\ t.queue = <<>> /\ t.written = <<>>
    /\ ~t.failed => Fit(t)
    /\ theme \in TextTheme => ~t.failed

(* show_theme on a new splash                                               *)
LEMMA ShowThemeHolds ==
  ASSUME NEW theme \in Plugin, NEW useEnd \in BOOLEAN,
         NEW throbber \in BOOLEAN, NEW ds \in SUBSET Display,
         NEW m \in Mode, NEW loads, NEW t,
         t = ShowTheme(theme, useEnd, throbber, ds, m, loads)
  PROVE  Begins(t, theme, ds)
<1>1. PICK n, a : /\ n = NewSplash(theme, useEnd, throbber)
                  /\ a = AddPixelDisplays(n, ds)
  OBVIOUS
<1>2. t = ShowSplash(a, m, loads)
  BY <1>1 DEF ShowTheme
<1>3. /\ Core(n) /\ Held(n) /\ Off(n) /\ n.theme = theme /\ n.views = {}
      /\ n.mode = "invalid" /\ n.queue = <<>> /\ n.written = <<>>
  BY <1>1, NewSplashIsFit
<1>4. Attaches(n, a, ds)
  <2>1. ds \cap n.views = {}
    BY <1>3
  <2> QED
    BY <1>1, <1>3, <2>1, AddPixelDisplaysAttach
<1>5. /\ Core(a) /\ Held(a) /\ Off(a) /\ a.theme = theme
      /\ a.views \subseteq ds /\ a.mode = "invalid"
      /\ a.queue = <<>> /\ a.written = <<>>
  BY <1>3, <1>4 DEF Attaches, Off
<1>6. /\ Core(t) /\ Held(t) /\ Leaves(a, t) /\ (~t.failed => Up(t))
      /\ a.theme \in TextTheme => ~t.failed
  <2>1. /\ Core(t) /\ Held(t) /\ Leaves(a, t)
        /\ a.mode # "invalid" \/ ~t.failed => Up(t)
        /\ a.mode = "invalid" /\ a.theme \in TextTheme => ~t.failed
    BY <1>2, <1>5, ShowSplashHolds
  <2> QED
    BY <1>5, <2>1
<1>7. Waits(t)
  BY <1>5, <1>6 DEF Waits, Leaves
<1> QED
  BY <1>5, <1>6, <1>7 DEF Leaves, Fit, Core, Begins

LEMMA ShowDefaultSplashFits ==
  ASSUME NEW theme \in Plugin, NEW useEnd \in BOOLEAN,
         NEW throbber \in BOOLEAN, NEW ds \in SUBSET Display,
         NEW m \in Mode, NEW loads, NEW t,
         t = ShowDefaultSplash(theme, useEnd, throbber, ds, m, loads)
  PROVE  /\ Fit(t) /\ t.views \subseteq ds
         /\ t.theme = "details" => t.written \o t.queue = <<>>
<1>1. PICK f, x : /\ f = ShowTheme(theme, useEnd, throbber, ds, m, loads)
                  /\ x = OrTextSplash(f, ds, m)
  OBVIOUS
<1>2. t = DisplayNormal(x)
  <2>1. (CHOOSE r \in {OrTextSplash(y, ds, m) : y \in {f}} : TRUE) = x
    BY <1>1
  <2>2. t = CHOOSE r \in {DisplayNormal(z) : z \in
                {CHOOSE r \in {OrTextSplash(y, ds, m) : y \in {f}} : TRUE}} : TRUE
    BY <1>1 DEF ShowDefaultSplash, Then
  <2>3. t = CHOOSE r \in {DisplayNormal(z) : z \in {x}} : TRUE
    BY <2>1, <2>2
  <2> QED
    BY <2>3
<1>3. Fit(x) /\ x.views \subseteq ds /\ x.queue = <<>> /\ x.written = <<>>
  <2>1. Begins(f, theme, ds)
    BY <1>1, ShowThemeHolds
  <2>2. CASE ~f.failed
    BY <1>1, <2>1, <2>2 DEF Begins, OrTextSplash
  <2>3. CASE f.failed
    <3>1. x = ShowTheme("text", FALSE, FALSE, ds, m, TRUE)
      BY <1>1, <2>3 DEF OrTextSplash
    <3>2. "text" \in TextTheme /\ "text" \in Plugin
      BY DEF TextTheme, Plugin
    <3>3. Begins(x, "text", ds)
      BY <3>1, <3>2, ShowThemeHolds, TrueFalse
    <3> QED
      BY <3>2, <3>3 DEF Begins
  <2> QED
    BY <2>2, <2>3
<1>4. FitSteps(x, t)
  BY <1>2, <1>3, PromptFits
<1>5. <<>> \o <<>> = <<>>
  <2>1. <<>> \in Seq(Message)
    OBVIOUS
  <2> QED
    BY <2>1, ConcatEmptySeq
<1> QED
  BY <1>3, <1>4, <1>5 DEF FitSteps

-----------------------------------------------------------------------------
(* Hiding, unplugging and freeing                                           *)

(* What is released with a splash that is hidden                            *)
Released(s) ==
    /\ ~s.timer /\ s.kernel /\ ~s.frames /\ ~s.shown
    /\ \A d \in Display : s.paused[d] = 0
    /\ s.left \subseteq {"orphan"}

Quiet(s) == Off(s) /\ s.kernel

LEMMA UnpausingReleases ==
  ASSUME NEW s, Core(s), Held(s), Quiet(s), NEW t,
         t = ReleaseDisplays(s)
  PROVE  Core(t) /\ Released(t) /\ Off(t) /\ Leaves(s, t)
<1>1. s \in SplashObject /\ s.paused \in [Display -> Int] /\ s.shown \in BOOLEAN
      /\ Calm(s)
  BY DEF Core, Sound, SplashObject
<1>2. ~s.timer
  BY <1>1 DEF Calm, Quiet, Off, TimerTheme, StopTheme
<1>3. CASE s.shown = FALSE
  <2>1. t = s
    BY <1>3 DEF ReleaseDisplays
  <2>2. s.frames = FALSE /\ \A d \in Display : s.paused[d] = 0
    BY <1>3 DEF Held
  <2> QED
    BY <1>2, <1>3, <2>1, <2>2 DEF Leaves, Released, Held, Quiet
<1>4. CASE s.shown = TRUE
  <2>1. PICK p : p = [d \in Display |->
                         IF d \in s.views THEN s.paused[d] - 1 ELSE s.paused[d]]
    OBVIOUS
  <2>2. p \in [Display -> Int]
    BY <1>1, <2>1
  <2>3. t = [s EXCEPT !.paused = p, !.frames = FALSE, !.shown = FALSE]
    BY <1>4, <2>1 DEF ReleaseDisplays, UnpausePixelDisplays
  <2>4. /\ t.paused = p /\ ShellSets(s, t) /\ Leaves(s, t)
        /\ t.frames = FALSE /\ t.shown = FALSE
        /\ t.kernel = s.kernel /\ t.timer = s.timer
        /\ t.animating = s.animating
    <3>1. t \in SplashObject
      <4>1. Shaped(s, t)
        BY <2>3, Zenon DEF Shaped
      <4>2. Typed(t)
        BY <1>1, <2>2, <2>3 DEF SplashObject, Typed
      <4> QED
        BY <1>1, <4>1, <4>2, TypedIsSplash
    <3>2. ShellSets(s, t)
      BY <1>1, <2>3, <3>1 DEF SplashObject, ShellSets
    <3> QED
      BY <1>1, <2>3, <3>2 DEF SplashObject, Leaves
  <2>5. \A d \in Display : p[d] = 0
    <3>1. \A d \in Display : s.paused[d] = IF d \in s.views THEN 1 ELSE 0
      BY <1>4 DEF Held
    <3> QED
      BY <2>1, <3>1
  <2>6. Released(t) /\ Off(t)
    BY <1>2, <2>4, <2>5 DEF Released, Held, Leaves, Quiet, Off
  <2> QED
    BY <2>4, <2>6, ShellSetsKeep
<1> QED
  BY <1>1, <1>3, <1>4

LEMMA HideSplashReleases ==
  ASSUME NEW s, Core(s), Held(s), NEW t, t = HideSplash(s)
  PROVE  Core(t) /\ Released(t) /\ Off(t) /\ Leaves(s, t)
<1>1. PICK h, m, n : /\ h = PluginHide(s)
                     /\ m = [h EXCEPT !.mode = "invalid"]
                     /\ n = [m EXCEPT !.progress = FALSE]
  OBVIOUS
<1>2. Hides(s, h)
  BY <1>1, PluginHideHides
<1>3. Core(h) /\ SameShell(s, h) /\ Off(h) /\ h.kernel
  BY <1>2 DEF Hides
<1>4. Leaves(s, h) /\ Held(h)
  BY <1>3, ShellLeaves
<1>5. /\ Core(m) /\ Held(m) /\ Leaves(h, m) /\ m.animating = h.animating
      /\ m.kernel = h.kernel
  <2>1. "invalid" \in Mode \cup {"invalid"}
    OBVIOUS
  <2> QED
    <3>1. Core(h) /\ m = [h EXCEPT !.mode = "invalid"]
      BY <1>1, <1>3
    <3>2. /\ Core(m) /\ (Held(h) => Held(m)) /\ Leaves(h, m)
          /\ m.animating = h.animating /\ m.kernel = h.kernel
      BY <2>1, <3>1, ModeHolds
    <3> QED
      BY <1>4, <3>2
<1>6. /\ Core(n) /\ Held(n) /\ Leaves(m, n) /\ n.animating = m.animating
      /\ n.kernel = m.kernel
  BY <1>1, <1>5, ProgressHolds
<1>7. Quiet(n) /\ Leaves(s, n)
  <2>1. Leaves(s, n)
    BY <1>4, <1>5, <1>6, LeavesIsTransitive
  <2> QED
    BY <1>3, <1>4, <1>5, <1>6, <2>1 DEF Quiet, Off, Leaves
<1>8. t = ReleaseDisplays(n)
  BY <1>1 DEF HideSplash
<1>9. Core(t) /\ Released(t) /\ Off(t) /\ Leaves(n, t)
  BY <1>6, <1>7, <1>8, UnpausingReleases
<1> QED
  BY <1>7, <1>9, LeavesIsTransitive

(* What is known of a splash without some of its views                      *)
Removes(s, t, ds) ==
    /\ t.theme = s.theme /\ t.loop = s.loop /\ t.mode = s.mode
    /\ t.animating = s.animating /\ t.prompt = s.prompt
    /\ t.queue = s.queue /\ t.written = s.written
    /\ t.shown = s.shown /\ t.frames = s.frames /\ t.paused = s.paused
    /\ t.timer = s.timer /\ t.kernel = s.kernel /\ t.listening = s.listening
    /\ t.visible = s.visible
    /\ t.views = s.views \ ds
    /\ t.left \subseteq s.left \cup {"orphan"}

(* The pulls of a view that is freed are lost.                              *)
LEMMA RemovingKeeps ==
  ASSUME NEW s, Core(s), NEW ds \in SUBSET Display, NEW t,
         t = RemovePixelDisplays(s, ds)
  PROVE  Core(t) /\ Removes(s, t, ds)
<1>1. /\ s \in SplashObject /\ s.view \in [Display -> View]
      /\ s.views \in SUBSET Display /\ Calm(s) /\ Listens(s) /\ TakesPart(s)
      /\ Paired(s)
  BY SplashViews DEF Core, Sound
<1>2. PICK es, w : /\ es = ds \cap s.views
                   /\ w = [d \in Display |-> IF d \in es THEN NewView
                                             ELSE s.view[d]]
  OBVIOUS
<1>3. es \in SUBSET Display
  BY <1>2
<1>4. /\ w \in [Display -> View]
      /\ OwedIn(s.view, Display) = OwedIn(s.view, es) + OwedIn(w, Display)
  BY <1>1, <1>2, <1>3, OwedInSplits
<1>5. PICK n, vs, f : /\ n = s.lost + OwedIn(s.view, es)
                      /\ vs = s.views \ ds
                      /\ f = (IF \E d \in es : s.view[d].orphans > 0
                              THEN s.left \cup {"orphan"} ELSE s.left)
  OBVIOUS
<1>6. /\ n \in Nat /\ vs \in SUBSET Display
      /\ f \in SUBSET {"throbber", "orphan", "frame", "plugin", "input"}
      /\ f \subseteq s.left \cup {"orphan"}
  <2>1. s.lost \in Nat /\ OwedIn(s.view, es) \in Nat
    BY <1>1, <1>3, OwedInTakesOut DEF SplashObject
  <2>2. s.left \in SUBSET {"throbber", "orphan", "frame", "plugin", "input"}
    BY <1>1 DEF SplashObject
  <2> QED
    BY <1>1, <1>5, <2>1, <2>2
<1>7. t = [s EXCEPT !.lost = n, !.view = w, !.left = f, !.views = vs]
  <2>1. PICK u, v : /\ u = [s EXCEPT !.lost = n, !.view = w]
                    /\ v = ViewFree(s, es)
    OBVIOUS
  <2>2. u = Forget(s, es)
    BY <1>2, <1>5, <2>1 DEF Forget
  <2>3. u.left = s.left /\ u.views = s.views
    BY <1>1, <2>1 DEF SplashObject
  <2>4. v = [u EXCEPT !.left = f]
    BY <1>5, <2>1, <2>2, <2>3 DEF ViewFree
  <2>5. t = [v EXCEPT !.views = vs]
    <3>1. v.views = s.views
      BY <1>1, <2>1, <2>4 DEF SplashObject
    <3> QED
      BY <1>2, <1>5, <2>1, <3>1 DEF RemovePixelDisplays
  <2> QED
    BY <2>1, <2>4, <2>5
<1>8. t \in SplashObject
  <2>1. Shaped(s, t)
    BY <1>7, Zenon DEF Shaped
  <2>2. Typed(t)
    BY <1>1, <1>4, <1>6, <1>7 DEF SplashObject, Typed
  <2> QED
    BY <1>1, <2>1, <2>2, TypedIsSplash
<1>9. t.lost = n /\ t.view = w /\ t.views = vs /\ t.left = f
  BY <1>1, <1>7 DEF SplashObject
<1>10. /\ t.theme = s.theme /\ t.loop = s.loop /\ t.mode = s.mode
       /\ t.animating = s.animating /\ t.prompt = s.prompt
       /\ t.queue = s.queue /\ t.written = s.written
       /\ t.shown = s.shown /\ t.frames = s.frames /\ t.paused = s.paused
       /\ t.timer = s.timer /\ t.kernel = s.kernel
       /\ t.listening = s.listening /\ t.keyboard = s.keyboard
       /\ t.visible = s.visible /\ t.stop = s.stop
       /\ t.useEnd = s.useEnd /\ t.throbber = s.throbber
  BY <1>1, <1>7 DEF SplashObject
<1>11. Paired(t)
  <2>1. PICK a, b, c : /\ a = OwedIn(s.view, es) /\ b = OwedIn(w, Display)
                       /\ c = s.lost
    OBVIOUS
  <2>2. a \in Nat /\ b \in Nat /\ c \in Nat
    BY <1>1, <1>3, <1>4, <2>1, OwedInTakesOut DEF SplashObject
  <2>3. s.stop + 1 = c + (a + b) /\ n = c + a
    BY <1>1, <1>4, <1>5, <2>1 DEF Paired
  <2>4. s.stop + 1 = n + b
    BY <2>2, <2>3
  <2> QED
    BY <1>9, <1>10, <2>1, <2>4 DEF Paired
<1>12. Calm(t)
  <2>1. \A d \in Display :
            /\ Runs(w[d])
            /\ w[d].spinning =>
                  d \in vs /\ s.animating /\ s.theme = "two-step"
            /\ w[d].anim = "running" =>
                  /\ d \in vs /\ s.theme = "two-step"
                  /\ s.animating \/ w[d].still
    BY <1>1, <1>2, <1>5 DEF Calm, Runs, NewView
  <2>2. s.theme \in TextTheme => vs = {}
    BY <1>1, <1>5 DEF Calm
  <2> QED
    BY <1>1, <1>9, <1>10, <2>1, <2>2 DEF Calm
<1>13. Listens(t) /\ TakesPart(t)
  BY <1>1, <1>2, <1>5, <1>9, <1>10 DEF Listens, TakesPart, AllTakePart
<1> QED
  BY <1>5, <1>6, <1>8, <1>9, <1>10, <1>11, <1>12, <1>13
  DEF Core, Sound, Removes

Repauses(s, t, p) ==
    /\ t.paused = p /\ ShellSets(s, t) /\ Leaves(s, t)
    /\ t.mode = s.mode /\ t.frames = s.frames
    /\ t.shown = s.shown /\ t.prompt = s.prompt

LEMMA PausedSets ==
  ASSUME NEW s \in SplashObject, NEW p \in [Display -> Int], NEW t,
         t = [s EXCEPT !.paused = p]
  PROVE  Repauses(s, t, p)
<1>1. t \in SplashObject
  BY DEF SplashObject
<1>2. t.paused = p /\ ShellSets(s, t)
  BY <1>1 DEF SplashObject, ShellSets
<1>3. /\ Leaves(s, t) /\ t.mode = s.mode /\ t.frames = s.frames
      /\ t.shown = s.shown /\ t.prompt = s.prompt
  BY DEF SplashObject, Leaves
<1> QED
  BY <1>2, <1>3 DEF Repauses

(* What the device manager does to a screen that is gone                    *)
Unheld(s, d) == [s EXCEPT !.paused[d] = 0]

LEMMA UnpluggingFits ==
  ASSUME NEW s, Fit(s), NEW d \in Display,
         NEW r, r = RemovePixelDisplays(s, {d}),
         NEW t, t = Unheld(r, d)
  PROVE  /\ Fit(t) /\ t.theme = s.theme /\ t.views = s.views \ {d}
         /\ t.written = s.written /\ t.queue = s.queue
<1>1. PICK p : p = [s.paused EXCEPT ![d] = 0]
  OBVIOUS
<1>2. Core(r) /\ Removes(s, r, {d}) /\ s \in SplashObject /\ Held(s)
  BY RemovingKeeps DEF Fit, Core, Sound
<1>3. r \in SplashObject /\ r.paused = s.paused /\ s.paused \in [Display -> Int]
  BY <1>2 DEF Core, Sound, Removes, SplashObject
<1>4. p \in [Display -> Int]
  BY <1>1, <1>3
<1>5. t = [r EXCEPT !.paused = p]
  BY <1>1, <1>3 DEF Unheld
<1>6. Repauses(r, t, p)
  BY <1>3, <1>4, <1>5, PausedSets
<1>7. t.paused = p /\ ShellSets(r, t)
  BY <1>6 DEF Repauses
<1>8. /\ Leaves(r, t) /\ t.mode = r.mode /\ t.frames = r.frames
      /\ t.shown = r.shown /\ t.prompt = r.prompt
  BY <1>6 DEF Repauses
<1>9. Core(t)
  BY <1>2, <1>7, ShellSetsKeep
<1>10. Held(t)
  <2>1. \A e \in Display :
            p[e] = IF s.shown /\ e \in s.views \ {d} THEN 1 ELSE 0
    BY <1>1, <1>2, <1>3 DEF Held
  <2>2. /\ t.frames = s.frames /\ t.shown = s.shown /\ t.left = r.left
        /\ t.views = s.views \ {d}
    BY <1>2, <1>8 DEF Removes, Leaves
  <2>3. r.left \subseteq {"orphan"} /\ s.frames = s.shown
    BY <1>2 DEF Removes, Held
  <2> QED
    BY <1>7, <2>1, <2>2, <2>3 DEF Held
<1>11. Waits(t) /\ Up(t)
  BY <1>2, <1>7, <1>8 DEF Fit, Waits, Up, Removes, Leaves, ShellSets
<1> QED
  BY <1>2, <1>8, <1>9, <1>10, <1>11 DEF Fit, Core, Removes, Leaves

-----------------------------------------------------------------------------
(* What a splash leaves behind                                              *)

(* destroy_plugin, when the views are gone                                  *)
Destroys(b, p) ==
    /\ Sound(p) /\ p.views = {}
    /\ p.left = b.left /\ p.paused = b.paused /\ p.frames = b.frames
    /\ p.timer => b.timer
    /\ p.listening => b.listening
    /\ b.kernel => p.kernel

(* A splash without views, whose keyboard the shell took away               *)
Bare(b) ==
    Sound(b) /\ b.views = {} /\ (b.listening => b.theme = "script")

LEMMA BareIsCore ==
  ASSUME NEW b, Bare(b), b.theme # "script"
  PROVE  Core(b)
BY DEF Bare, Core, TakesPart, AllTakePart, Listens

(* A step of the plugin that keeps all but its keyboard                     *)
LEMMA QuietlyDestroyed ==
  ASSUME NEW b, NEW p, Bare(b), p \in SplashObject,
         p.theme = b.theme, p.views = b.views, p.view = b.view,
         p.stop = b.stop, p.lost = b.lost, p.kernel = b.kernel,
         p.left = b.left, p.paused = b.paused, p.frames = b.frames,
         \/ p.timer = b.timer /\ p.animating = b.animating /\ p.loop = b.loop
         \/ b.theme = "script" /\ p.timer = FALSE /\ p.animating = FALSE
         \/ b.theme = "details" /\ p.timer = b.timer
            /\ p.animating = b.animating,
         p.listening => b.listening
  PROVE  Destroys(b, p)
<1>1. Sound(b) /\ Calm(b) /\ b.views = {}
  BY DEF Bare, Sound
<1>2. Paired(p)
  BY <1>1, MovesWithoutViews
<1>3. Calm(p)
  BY <1>1 DEF Calm, StopTheme, TimerTheme
<1> QED
  BY <1>1, <1>2, <1>3, Zenon DEF Destroys, Sound

LEMMA ScriptIsDestroyed ==
  ASSUME NEW b, Bare(b), b.theme = "script", NEW p, p = DestroyScript(b)
  PROVE  Destroys(b, p)
<1>1. b \in SplashObject
  BY DEF Bare, Sound
<1>2. CASE b.loop # TRUE
  <2>1. p = b
    BY <1>1, <1>2 DEF DestroyScript, HideScript, SplashObject
  <2> QED
    BY <1>1, <2>1, QuietlyDestroyed
<1>3. CASE b.loop = TRUE
  <2>1. PICK u : u = StopScript(b)
    OBVIOUS
  <2>2. p = [u EXCEPT !.loop = FALSE]
    BY <1>3, <2>1 DEF DestroyScript, HideScript
  <2>3. CASE b.animating # TRUE
    <3>1. u = b
      BY <1>1, <2>1, <2>3 DEF StopScript, SplashObject
    <3>2. p = [b EXCEPT !.loop = FALSE]
      BY <2>2, <3>1
    <3>3. p \in SplashObject
      <4>1. Shaped(b, p)
        BY <3>2, Zenon DEF Shaped
      <4>2. Typed(p)
        BY <1>1, <3>2 DEF SplashObject, Typed
      <4> QED
        BY <1>1, <4>1, <4>2, TypedIsSplash
    <3>4. /\ p.theme = b.theme /\ p.views = b.views /\ p.view = b.view
          /\ p.stop = b.stop /\ p.lost = b.lost /\ p.kernel = b.kernel
          /\ p.left = b.left /\ p.paused = b.paused /\ p.frames = b.frames
          /\ p.animating = b.animating /\ p.timer = b.timer
          /\ p.listening = b.listening
      BY <1>1, <3>2 DEF SplashObject
    <3>5. p.animating = FALSE /\ p.timer = FALSE
      <4>1. b.animating \in BOOLEAN /\ b.timer \in BOOLEAN
        BY <1>1 DEF SplashObject
      <4>2. b.animating = FALSE
        BY <2>3, <4>1
      <4>3. b.timer = FALSE
        BY <4>1, <4>2 DEF Bare, Sound, Calm
      <4> QED
        BY <3>4, <4>2, <4>3
    <3> QED
      BY <3>3, <3>4, <3>5, QuietlyDestroyed
  <2>4. CASE b.animating = TRUE
    <3>1. PICK l \in BOOLEAN : l = (b.listening /\ ~b.keyboard)
      OBVIOUS
    <3>2. p = [b EXCEPT !.animating = FALSE, !.timer = FALSE, !.listening = l,
                        !.keyboard = FALSE, !.loop = FALSE]
      BY <1>1, <2>1, <2>2, <2>4, <3>1 DEF StopScript
    <3>3. p \in SplashObject
      <4>1. Shaped(b, p)
        BY <3>2, Zenon DEF Shaped
      <4>2. l \in BOOLEAN
        BY <3>1
      <4>3. Typed(p)
        BY <1>1, <3>2, <4>2 DEF SplashObject, Typed
      <4> QED
        BY <1>1, <4>1, <4>3, TypedIsSplash
    <3>4. /\ p.theme = b.theme /\ p.views = b.views /\ p.view = b.view
          /\ p.stop = b.stop /\ p.lost = b.lost /\ p.kernel = b.kernel
          /\ p.left = b.left /\ p.paused = b.paused /\ p.frames = b.frames
          /\ p.animating = FALSE /\ p.timer = FALSE /\ p.listening = l
      BY <1>1, <3>2 DEF SplashObject
    <3> QED
      BY <3>1, <3>3, <3>4, QuietlyDestroyed
  <2> QED
    BY <2>3, <2>4
<1> QED
  BY <1>2, <1>3

LEMMA StepsDestroy ==
  ASSUME NEW b, NEW p, Bare(b), b.theme # "script", Core(p), SameShell(b, p),
         p.kernel \/ p.theme \notin TextTheme,
         p.timer => b.timer \/ b.theme \notin {"fade-throbber", "space-flares"}
  PROVE  Destroys(b, p)
<1>1. Sound(p) /\ Calm(p) /\ Listens(p) /\ p.theme = b.theme /\ p.views = {}
  BY DEF Bare, Core, Sound, SameShell
<1>2. ~p.listening
  BY <1>1 DEF Listens
<1>3. p.kernel
  BY <1>1 DEF Calm
<1>4. p.timer => b.timer
  BY <1>1 DEF Calm, TimerTheme
<1> QED
  BY <1>1, <1>2, <1>3, <1>4 DEF Destroys, SameShell

LEMMA PluginDestroyDestroys ==
  ASSUME NEW b, Bare(b), NEW p, p = PluginDestroy(b)
  PROVE  Destroys(b, p)
<1>1. /\ b \in SplashObject /\ Sound(b) /\ b.views = {}
      /\ b.theme \in {"two-step", "fade-throbber", "space-flares", "script",
                      "console-viewer", "text", "details"}
  BY ThemeIs DEF Bare, Sound
<1>2. ASSUME p = b PROVE Destroys(b, p)
  BY <1>1, <1>2 DEF Destroys
<1>3. CASE b.theme = "two-step"
  <2>1. Core(b)
    BY <1>3, BareIsCore
  <2>2. CASE b.loop = TRUE
    <3>1. p = StopTwoStep(b)
      BY <1>3, <2>2 DEF PluginDestroy, DestroyTwoStep
    <3>2. Core(p) /\ SameShell(b, p)
      BY <1>3, <2>1, <3>1, StopTwoStepSteps, SameIsShell
    <3>3. p.theme \notin TextTheme
      BY <1>3, <3>2 DEF SameShell, TextTheme
    <3> QED
      BY <1>3, <3>2, <3>3, StepsDestroy
  <2>3. CASE b.loop # TRUE
    <3>1. p = b
      BY <1>1, <1>3, <2>3 DEF PluginDestroy, DestroyTwoStep, SplashObject
    <3> QED
      BY <1>2, <3>1
  <2> QED
    BY <2>2, <2>3
<1>4. CASE b.theme \in {"fade-throbber", "space-flares", "console-viewer"}
  <2>1. p = b
    BY <1>4 DEF PluginDestroy, DestroyFade, DestroyFlares
  <2> QED
    BY <1>2, <2>1
<1>5. CASE b.theme = "script"
  BY <1>5, ScriptIsDestroyed DEF PluginDestroy
<1>6. CASE b.theme = "text"
  <2>1. p = PluginHide(b)
    BY <1>6 DEF PluginDestroy, PluginHide, DestroyText
  <2>2. Core(b)
    BY <1>6, BareIsCore
  <2>3. Hides(b, p)
    BY <2>1, <2>2, PluginHideHides
  <2>4. Core(p) /\ SameShell(b, p) /\ p.kernel
    BY <2>3 DEF Hides
  <2> QED
    BY <1>6, <2>4, StepsDestroy
<1>7. CASE b.theme = "details"
  <2>1. p = [b EXCEPT !.loop = FALSE, !.queue = <<>>]
    BY <1>7 DEF PluginDestroy, DestroyDetails
  <2>2. <<>> \in Messages
    BY DEF Messages
  <2>3. p \in SplashObject
    <3>1. Shaped(b, p)
      BY <2>1, Zenon DEF Shaped
    <3>2. Typed(p)
      BY <1>1, <2>1, <2>2 DEF SplashObject, Typed
    <3> QED
      BY <1>1, <3>1, <3>2, TypedIsSplash
  <2>4. /\ p.theme = b.theme /\ p.views = b.views /\ p.view = b.view
        /\ p.stop = b.stop /\ p.lost = b.lost /\ p.kernel = b.kernel
        /\ p.left = b.left /\ p.paused = b.paused /\ p.frames = b.frames
        /\ p.animating = b.animating /\ p.timer = b.timer
        /\ p.listening = b.listening
    BY <1>1, <2>1 DEF SplashObject
  <2> QED
    BY <1>7, <2>3, <2>4, QuietlyDestroyed
<1> QED
  BY <1>1, <1>3, <1>4, <1>5, <1>6, <1>7

(* What a freed splash is, and what it leaves if it was hidden first        *)
LeftBy(s, t) ==
    /\ Sound(t) /\ TakesPart(t)
    /\ t.left \subseteq s.left \cup {"orphan", "frame", "plugin", "input"}
    /\ Released(s) /\ Off(s) =>
           /\ t.left \subseteq {"orphan"} /\ t.kernel
           /\ \A d \in Display : t.paused[d] = 0

LEMMA LeavingBehind ==
  ASSUME NEW p, Sound(p), p.views = {}, NEW t, t = LeaveBehind(p)
  PROVE  /\ Sound(t) /\ TakesPart(t)
         /\ t.kernel = p.kernel /\ t.paused = p.paused
         /\ t.left = p.left \cup (IF p.frames THEN {"frame"} ELSE {})
                            \cup (IF p.timer THEN {"plugin"} ELSE {})
                            \cup (IF p.listening THEN {"input"} ELSE {})
<1>1. p \in SplashObject /\ Calm(p)
  BY DEF Sound
<1>2. PICK x, i : /\ x = p.left \cup (IF p.frames THEN {"frame"} ELSE {})
                                \cup (IF p.timer THEN {"plugin"} ELSE {})
                                \cup (IF p.listening THEN {"input"} ELSE {})
                  /\ i = (IF p.idle = "waiting" THEN "dropped" ELSE p.idle)
  OBVIOUS
<1>3. /\ x \in SUBSET {"throbber", "orphan", "frame", "plugin", "input"}
      /\ i \in {"none", "waiting", "due", "dropped"}
  <2>1. /\ p.left \in SUBSET {"throbber", "orphan", "frame", "plugin", "input"}
        /\ p.idle \in {"none", "waiting", "due", "dropped"}
    BY <1>1 DEF SplashObject
  <2> QED
    BY <1>2, <2>1
<1>4. t = [p EXCEPT !.idle = i, !.left = x]
  BY <1>2 DEF LeaveBehind
<1>5. t \in SplashObject
  <2>1. Shaped(p, t)
    BY <1>4, Zenon DEF Shaped
  <2>2. Typed(t)
    BY <1>1, <1>3, <1>4 DEF SplashObject, Typed
  <2> QED
    BY <1>1, <2>1, <2>2, TypedIsSplash
<1>6. /\ t.left = x /\ t.theme = p.theme /\ t.stop = p.stop /\ t.lost = p.lost
      /\ t.view = p.view /\ t.views = p.views /\ t.animating = p.animating
      /\ t.timer = p.timer /\ t.loop = p.loop /\ t.kernel = p.kernel
      /\ t.paused = p.paused
  BY <1>1, <1>4 DEF SplashObject
<1>7. Paired(t)
  BY <1>5, <1>6, MovesWithoutViews
<1>8. Calm(t) /\ TakesPart(t)
  BY <1>1, <1>6 DEF Calm, TakesPart, AllTakePart
<1> QED
  BY <1>2, <1>5, <1>6, <1>7, <1>8 DEF Sound

LEMMA FreeSplashLeaves ==
  ASSUME NEW s, Core(s), NEW t, t = FreeSplash(s)
  PROVE  LeftBy(s, t)
<1>1. PICK r, b, p : /\ r = RemovePixelDisplays(s, s.views)
                     /\ b = [r EXCEPT !.keyboard = FALSE, !.tty = FALSE,
                                      !.progress = FALSE]
                     /\ p = PluginDestroy(b)
  OBVIOUS
<1>2. t = LeaveBehind(p)
  <2>1. (CHOOSE x \in {PluginDestroy(y) : y \in {b}} : TRUE) = p
    BY <1>1
  <2>2. t = CHOOSE x \in {LeaveBehind(z) : z \in
                {CHOOSE x \in {PluginDestroy(y) : y \in {b}} : TRUE}} : TRUE
    BY <1>1 DEF FreeSplash, Then
  <2>3. t = CHOOSE x \in {LeaveBehind(z) : z \in {p}} : TRUE
    BY <2>1, <2>2
  <2> QED
    BY <2>3
<1>3. s.views \in SUBSET Display
  BY SplashViews DEF Core, Sound
<1>4. Core(r) /\ Removes(s, r, s.views)
  BY <1>1, <1>3, RemovingKeeps
<1>5. r \in SplashObject /\ r.views = {} /\ Calm(r) /\ Listens(r)
  BY <1>4 DEF Core, Sound, Removes
<1>6. b \in SplashObject
  <2>1. Shaped(r, b)
    BY <1>1, Zenon DEF Shaped
  <2>2. b = [r EXCEPT !.keyboard = FALSE, !.tty = FALSE, !.progress = FALSE]
    BY <1>1
  <2>3. Typed(b)
    BY <1>5, <2>2 DEF SplashObject, Typed
  <2> QED
    BY <1>5, <2>1, <2>3, TypedIsSplash
<1>7. /\ b.theme = r.theme /\ b.stop = r.stop /\ b.lost = r.lost
      /\ b.view = r.view /\ b.views = r.views /\ b.animating = r.animating
      /\ b.timer = r.timer /\ b.loop = r.loop /\ b.kernel = r.kernel
      /\ b.paused = r.paused /\ b.left = r.left /\ b.frames = r.frames
      /\ b.listening = r.listening
  <2>1. b = [r EXCEPT !.keyboard = FALSE, !.tty = FALSE, !.progress = FALSE]
    BY <1>1
  <2> QED
    BY <1>5, <2>1 DEF SplashObject
<1>8. Bare(b)
  <2>1. Paired(b)
    BY <1>4, <1>6, <1>7, MovesWithoutViews DEF Core
  <2>2. Calm(b)
    BY <1>5, <1>7 DEF Calm
  <2> QED
    BY <1>5, <1>6, <1>7, <2>1, <2>2 DEF Bare, Sound, Listens
<1>9. Destroys(b, p)
  BY <1>1, <1>8, PluginDestroyDestroys
<1>10. /\ Sound(t) /\ TakesPart(t)
       /\ t.kernel = p.kernel /\ t.paused = p.paused
       /\ t.left = p.left \cup (IF p.frames THEN {"frame"} ELSE {})
                          \cup (IF p.timer THEN {"plugin"} ELSE {})
                          \cup (IF p.listening THEN {"input"} ELSE {})
  BY <1>2, <1>9, LeavingBehind DEF Destroys
<1>11. /\ p.left \subseteq s.left \cup {"orphan"}
       /\ p.frames = s.frames /\ p.paused = s.paused
       /\ p.timer => s.timer
       /\ p.listening => s.listening
       /\ s.kernel => p.kernel
  BY <1>4, <1>7, <1>9 DEF Destroys, Removes
<1>12. ASSUME Released(s), Off(s)
       PROVE  /\ t.left \subseteq {"orphan"} /\ t.kernel
              /\ \A d \in Display : t.paused[d] = 0
  <2>1. ~p.frames /\ ~p.timer /\ p.kernel /\ p.left \subseteq {"orphan"}
    BY <1>11, <1>12 DEF Released
  <2>2. ~p.listening
    <3>1. Listens(s)
      BY DEF Core
    <3> QED
      BY <1>11, <1>12, <3>1 DEF Listens, Off, StopTheme
  <2>3. \A d \in Display : p.paused[d] = 0
    BY <1>11, <1>12 DEF Released
  <2> QED
    BY <1>10, <2>1, <2>2, <2>3
<1>13. t.left \subseteq s.left \cup {"orphan", "frame", "plugin", "input"}
  BY <1>10, <1>11
<1> QED
  BY <1>10, <1>12, <1>13 DEF LeftBy

(* A splash that is hidden and freed                                        *)
LEMMA HidingAndFreeing ==
  ASSUME NEW s, Core(s), Held(s), NEW t, t = FreeSplash(HideSplash(s))
  PROVE  /\ Sound(t) /\ TakesPart(t)
         /\ t.left \subseteq {"orphan"} /\ t.kernel
         /\ \A d \in Display : t.paused[d] = 0
<1>1. PICK h : h = HideSplash(s)
  OBVIOUS
<1>2. Core(h) /\ Released(h) /\ Off(h)
  BY <1>1, HideSplashReleases
<1>3. LeftBy(h, t)
  BY <1>1, <1>2, FreeSplashLeaves
<1> QED
  BY <1>2, <1>3 DEF LeftBy

-----------------------------------------------------------------------------
(* Timeouts of the views                                                    *)

(* One view changes, and owes as much.                                      *)
LEMMA OneViewMoves ==
  ASSUME NEW s, Fit(s), NEW d \in Display, s.view[d].spinning, NEW x,
         x \in View, Runs(x), Owes(x) = Owes(s.view[d]),
         x.spinning \/ x.anim # "stopped",
         NEW t, t = [s EXCEPT !.view[d] = x]
  PROVE  Steps(s, t)
<1>1. /\ s \in SplashObject /\ s.view \in [Display -> View]
      /\ Calm(s) /\ Listens(s) /\ TakesPart(s)
  BY SplashViews DEF Fit, Sound
<1>2. PICK w : w = [s.view EXCEPT ![d] = x]
  OBVIOUS
<1>3. t = [s EXCEPT !.view = w]
  BY <1>2
<1>4. w \in [Display -> View]
  BY <1>1, <1>2
<1>5. t \in SplashObject
  BY <1>1, <1>3, <1>4 DEF SplashObject
<1>6. /\ t.view = w /\ Same(s, t)
      /\ t.stop = s.stop /\ t.lost = s.lost /\ t.animating = s.animating
      /\ t.timer = s.timer /\ t.kernel = s.kernel
      /\ t.listening = s.listening /\ t.keyboard = s.keyboard
  BY <1>1, <1>3 DEF SplashObject, Same, SameShell
<1>7. d \in s.views /\ s.animating /\ s.theme = "two-step"
  BY <1>1 DEF Calm
<1>8. ASSUME NEW e \in Display
      PROVE  /\ Keeps(s.view[e], w[e]) /\ Runs(w[e])
             /\ w[e].spinning =>
                    e \in s.views /\ s.animating /\ s.theme = "two-step"
             /\ s.view[e].spinning \/ s.view[e].anim # "stopped"
                    => w[e].spinning \/ w[e].anim # "stopped"
  <2>1. CASE e = d
    <3>1. w[e] = x
      BY <1>1, <1>2, <2>1
    <3> QED
      BY <1>7, <2>1, <3>1 DEF Keeps
  <2>2. CASE e # d
    <3>1. w[e] = s.view[e] /\ w[e] \in View
      BY <1>1, <1>2, <2>2
    <3> QED
      BY <1>1, <3>1 DEF Keeps, Calm
  <2> QED
    BY <2>1, <2>2
<1>9. Moves(s, t)
  BY <1>5, <1>6, <1>8 DEF Moves
<1>10. Calm(t)
  BY <1>1, <1>6, <1>8 DEF Calm, Same, SameShell
<1>11. Listens(t)
  BY <1>1, <1>6 DEF Listens, Same, SameShell
<1>12. TakesPart(t)
  <2>1. s.views \in SUBSET Display
    BY <1>1, SplashViews
  <2> QED
    BY <1>1, <1>6, <1>8, <2>1 DEF TakesPart, AllTakePart, Same, SameShell
<1> QED
  BY <1>1, <1>6, <1>9, <1>10, <1>11, <1>12, AnimationSteps DEF Fit, Core

LEMMA ThrobberTimeoutFits ==
  ASSUME NEW s, Fit(s), NEW d \in Display, s.view[d].spinning,
         NEW f \in 0 .. LastFrame, NEW t,
         t = [s EXCEPT !.view[d] = ThrobberTimeout(@, f)]
  PROVE  FitSteps(s, t)
<1>1. PICK v, x : v = s.view[d] /\ x = ThrobberTimeout(v, f)
  OBVIOUS
<1>2. v \in View /\ Runs(v)
  BY <1>1, SplashViews DEF Fit, Sound, Calm
<1>3. /\ x \in View /\ Runs(x) /\ Owes(x) = Owes(v)
      /\ x.spinning \/ x.anim # "stopped"
  <2>1. v.spinning
    BY <1>1
  <2> QED
    BY <1>1, <1>2, <2>1, ThrobberTimeoutKeeps
<1>4. t = [s EXCEPT !.view[d] = x]
  BY <1>1
<1>5. Steps(s, t)
  BY <1>1, <1>3, <1>4, OneViewMoves
<1> QED
  BY <1>5, FitFromSteps

(* A pull that a view owes arrives.                                         *)
LEMMA PullArrives ==
  ASSUME NEW s, Fit(s), NEW d \in Display, NEW w \in [Display -> View],
         OneMore(w, s.view, {d}),
         \A e \in Display :
             /\ Runs(w[e]) /\ w[e].spinning = s.view[e].spinning
             /\ s.view[e].anim # "stopped" => w[e].anim # "stopped"
             /\ w[e].anim = "running" =>
                    s.view[e].anim = "running" /\ w[e].still = s.view[e].still,
         NEW u, u = [s EXCEPT !.view = w],
         NEW t, t = PullStopTrigger(u)
  PROVE  Steps(s, t)
<1>1. /\ s \in SplashObject /\ s.view \in [Display -> View] /\ Paired(s)
      /\ Calm(s) /\ Listens(s) /\ TakesPart(s)
  BY SplashViews DEF Fit, Sound
<1>2. u \in SplashObject
  BY <1>1 DEF SplashObject
<1>3. u.view = w /\ u.stop = s.stop /\ u.lost = s.lost
  BY <1>1 DEF SplashObject
<1>4. /\ Same(s, u) /\ u.animating = s.animating
      /\ u.timer = s.timer /\ u.kernel = s.kernel
      /\ u.listening = s.listening /\ u.keyboard = s.keyboard
  BY <1>1 DEF SplashObject, Same, SameShell
<1>5. Calm(u)
  BY <1>1, <1>3, <1>4 DEF Calm, Same, SameShell
<1>6. Pulled(u)
  <2>1. OwedIn(s.view, Display) = OwedIn(w, Display) + 1
    BY OwedInShrinks
  <2>2. PICK a, b, c : /\ a = OwedIn(s.view, Display)
                       /\ b = OwedIn(w, Display) /\ c = s.lost
    OBVIOUS
  <2>3. a \in Nat /\ b \in Nat /\ c \in Nat /\ s.stop \in Int
    <3>1. c \in Nat /\ s.stop \in Int
      BY <1>1, <2>2 DEF SplashObject
    <3> QED
      BY <1>1, <2>2, <3>1, OwedInTakesOut
  <2>4. PICK z : z = s.stop
    OBVIOUS
  <2>5. z + 1 = c + a /\ a = b + 1 /\ z \in Int
    BY <1>1, <2>1, <2>2, <2>3, <2>4 DEF Paired
  <2>6. z = c + b /\ z \in Nat
    BY <2>3, <2>5
  <2> QED
    BY <1>3, <2>2, <2>4, <2>6 DEF Pulled
<1>7. Ends(u, t)
  BY <1>2, <1>5, <1>6, PullPairs
<1>8. /\ Same(s, t) /\ Sound(t) /\ t.view = w
      /\ t.animating = s.animating
      /\ t.listening = s.listening /\ t.keyboard = s.keyboard
  BY <1>3, <1>4, <1>7, SameIsTransitive DEF Ends
<1>9. Listens(t)
  BY <1>1, <1>8 DEF Listens, Same, SameShell
<1>10. TakesPart(t)
  <2>1. s.views \in SUBSET Display
    BY <1>1, SplashViews
  <2> QED
    BY <1>1, <1>8, <2>1 DEF TakesPart, AllTakePart, Same, SameShell
<1> QED
  BY <1>8, <1>9, <1>10 DEF Steps, Core

LEMMA OrphanTimeoutFits ==
  ASSUME NEW s, Fit(s), NEW d \in Display, s.view[d].orphans > 0, NEW t,
         t = OrphanTimeout(s, d)
  PROVE  FitSteps(s, t)
<1>1. s \in SplashObject /\ s.view \in [Display -> View] /\ Calm(s)
  BY SplashViews DEF Fit, Sound
<1>2. PICK v, n : v = s.view[d] /\ n = v.orphans - 1
  OBVIOUS
<1>3. v \in View /\ v.orphans \in Nat /\ n \in Nat /\ v.orphans = n + 1
  <2>1. v \in View /\ v.orphans \in Nat
    BY <1>1, <1>2, ViewNumbers
  <2>2. PICK o : o = v.orphans
    OBVIOUS
  <2>3. o \in Nat /\ o > 0 /\ n = o - 1
    BY <1>2, <2>1, <2>2
  <2>4. n \in Nat /\ o = n + 1
    BY <2>3
  <2> QED
    BY <2>1, <2>2, <2>4
<1>4. PICK x, w : x = [v EXCEPT !.orphans = n] /\ w = [s.view EXCEPT ![d] = x]
  OBVIOUS
<1>5. /\ x \in View /\ x.pays = v.pays /\ x.anim = v.anim
      /\ x.spinning = v.spinning /\ x.due = v.due /\ x.forgot = v.forgot
      /\ x.orphans = n /\ x.still = v.still
  BY <1>3, <1>4 DEF View
<1>6. Owes(v) = Owes(x) + 1
  BY <1>3, <1>5, ViewNumbers DEF Owes
<1>7. w \in [Display -> View]
  BY <1>1, <1>4, <1>5
<1>8. ASSUME NEW e \in Display
      PROVE  /\ Runs(w[e]) /\ w[e].spinning = s.view[e].spinning
             /\ w[e].anim = s.view[e].anim /\ w[e].still = s.view[e].still
             /\ Owes(s.view[e]) = Owes(w[e]) + (IF e \in {d} THEN 1 ELSE 0)
  <2>1. CASE e = d
    <3>1. w[e] = x
      BY <1>1, <1>4, <2>1
    <3> QED
      BY <1>1, <1>2, <1>5, <1>6, <2>1, <3>1 DEF Calm, Runs
  <2>2. CASE e # d
    <3>1. w[e] = s.view[e] /\ Owes(w[e]) \in Nat
      BY <1>1, <1>4, <2>2, OwesIsNatural
    <3> QED
      BY <1>1, <2>2, <3>1 DEF Calm
  <2> QED
    BY <2>1, <2>2
<1>9. OneMore(w, s.view, {d})
  BY <1>1, <1>7, <1>8 DEF OneMore
<1>10. PICK u : u = [s EXCEPT !.view = w]
  OBVIOUS
<1>11. t = PullStopTrigger(u)
  <2>1. u = [s EXCEPT !.view[d].orphans = n]
    BY <1>1, <1>2, <1>4, <1>10
  <2> QED
    BY <1>2, <2>1 DEF OrphanTimeout
<1>12. Steps(s, t)
  BY <1>7, <1>8, <1>9, <1>10, <1>11, PullArrives
<1> QED
  BY <1>12, FitFromSteps

LEMMA AnimationStepOwes ==
  ASSUME NEW v \in View, Runs(v), v.anim \in {"running", "stopping"}, NEW x,
         x = AnimationStep(v)
  PROVE  /\ x \in View /\ Runs(x)
         /\ x.spinning = v.spinning /\ x.anim # "stopped"
         /\ x.anim = "running" => v.anim = "running" /\ x.still = v.still
         /\ Over(v) /\ v.pays => Owes(v) = Owes(x) + 1
         /\ ~(Over(v) /\ v.pays) => Owes(v) = Owes(x)
<1>1. PICK over \in BOOLEAN : over = Over(v)
  BY DEF Over
<1>2. PICK n, a : /\ n = (IF v.step = EndFrames THEN v.step ELSE v.step + 1)
                  /\ a = (IF over THEN "ended" ELSE v.anim)
  OBVIOUS
<1>3. PICK pays \in BOOLEAN : pays = (v.pays /\ ~over)
  OBVIOUS
<1>4. x = [v EXCEPT !.step = n, !.anim = a, !.pays = pays]
  BY <1>1, <1>2, <1>3 DEF AnimationStep
<1>5. /\ n \in 0 .. EndFrames /\ a \in {"stopped", "running", "stopping", "ended"}
      /\ a # "stopped"
  <2>1. EndFrames \in Nat /\ v.step \in 0 .. EndFrames
    BY TwoStepAssumption DEF View
  <2> QED
    BY <1>2, <2>1
<1>6. /\ x \in View /\ x.pays = pays /\ x.anim = a
      /\ x.spinning = v.spinning /\ x.due = v.due /\ x.forgot = v.forgot
      /\ x.orphans = v.orphans /\ x.still = v.still
  <2>1. pays \in BOOLEAN
    BY <1>3
  <2> QED
    BY <1>4, <1>5, <2>1, ZenonT(60) DEF View
<1>7. Runs(x)
  BY <1>2, <1>3, <1>6 DEF Runs
<1>8. v.orphans \in Nat /\ v.forgot \in Nat
  BY ViewNumbers
<1>9. CASE Over(v) /\ v.pays
  <2>1. ~pays /\ v.pays
    BY <1>1, <1>3, <1>9
  <2> QED
    BY <1>2, <1>5, <1>6, <1>7, <1>8, <1>9, <2>1 DEF Owes
<1>10. CASE ~(Over(v) /\ v.pays)
  <2>1. (IF pays THEN 1 ELSE 0) = (IF v.pays THEN 1 ELSE 0)
    BY <1>1, <1>3, <1>10
  <2>2. Owes(v) = Owes(x)
    BY <1>6, <2>1 DEF Owes
  <2> QED
    BY <1>2, <1>5, <1>6, <1>7, <1>10, <2>2
<1> QED
  BY <1>9, <1>10

LEMMA AnimationTimeoutFits ==
  ASSUME NEW s, Fit(s), NEW d \in Display,
         s.view[d].anim \in {"running", "stopping"}, NEW t,
         t = AnimationTimeout(s, d)
  PROVE  FitSteps(s, t)
<1>1. s \in SplashObject /\ s.view \in [Display -> View] /\ Calm(s)
  BY SplashViews DEF Fit, Sound
<1>2. PICK v, x, w, u : /\ v = s.view[d] /\ x = AnimationStep(v)
                        /\ w = [s.view EXCEPT ![d] = x]
                        /\ u = [s EXCEPT !.view = w]
  OBVIOUS
<1>3. v \in View /\ Runs(v) /\ v.anim \in {"running", "stopping"}
  BY <1>1, <1>2 DEF Calm
<1>4. /\ x \in View /\ Runs(x)
      /\ x.spinning = v.spinning /\ x.anim # "stopped"
      /\ x.anim = "running" => v.anim = "running" /\ x.still = v.still
      /\ Over(v) /\ v.pays => Owes(v) = Owes(x) + 1
      /\ ~(Over(v) /\ v.pays) => Owes(v) = Owes(x)
  BY <1>2, <1>3, AnimationStepOwes
<1>5. t = IF Over(v) /\ v.pays THEN PullStopTrigger(u) ELSE u
  BY <1>2 DEF AnimationTimeout
<1>6. w \in [Display -> View]
  BY <1>1, <1>2, <1>4
<1>7. /\ w[d] = x
      /\ \A e \in Display : e # d => w[e] = s.view[e]
  BY <1>1, <1>2
<1>8. \A e \in Display :
          /\ Runs(w[e]) /\ w[e].spinning = s.view[e].spinning
          /\ s.view[e].anim # "stopped" => w[e].anim # "stopped"
          /\ w[e].anim = "running" =>
                 s.view[e].anim = "running" /\ w[e].still = s.view[e].still
  BY <1>1, <1>2, <1>4, <1>7 DEF Calm
<1>9. CASE Over(v) /\ v.pays
  <2>1. t = PullStopTrigger(u)
    BY <1>5, <1>9
  <2>2. ASSUME NEW e \in Display
        PROVE  Owes(s.view[e]) = Owes(w[e]) + (IF e \in {d} THEN 1 ELSE 0)
    <3>1. CASE e = d
      BY <1>2, <1>4, <1>7, <1>9, <3>1
    <3>2. CASE e # d
      <4>1. w[e] = s.view[e] /\ Owes(w[e]) \in Nat
        BY <1>1, <1>7, <3>2, OwesIsNatural
      <4> QED
        BY <3>2, <4>1
    <3> QED
      BY <3>1, <3>2
  <2>3. OneMore(w, s.view, {d})
    BY <1>1, <1>6, <2>2 DEF OneMore
  <2>4. Steps(s, t)
    BY <1>2, <1>6, <1>8, <2>1, <2>3, PullArrives
  <2> QED
    BY <2>4, FitFromSteps
<1>10. CASE ~(Over(v) /\ v.pays)
  <2>1. t = [s EXCEPT !.view = w]
    BY <1>2, <1>5, <1>10
  <2>2. ASSUME NEW e \in Display
        PROVE  Keeps(s.view[e], w[e])
    <3>1. CASE e = d
      BY <1>2, <1>4, <1>7, <1>10, <3>1 DEF Keeps
    <3>2. CASE e # d
      BY <1>1, <1>7, <3>2 DEF Keeps
    <3> QED
      BY <3>1, <3>2
  <2>3. t \in SplashObject
    BY <1>1, <1>6, <2>1 DEF SplashObject
  <2>4. /\ t.view = w /\ Same(s, t)
        /\ t.stop = s.stop /\ t.lost = s.lost /\ t.animating = s.animating
        /\ t.timer = s.timer /\ t.kernel = s.kernel
        /\ t.listening = s.listening /\ t.keyboard = s.keyboard
    BY <1>1, <2>1 DEF SplashObject, Same, SameShell
  <2>5. Moves(s, t)
    BY <2>2, <2>3, <2>4 DEF Moves
  <2>6. Calm(t)
    BY <1>1, <1>8, <2>4 DEF Calm, Same, SameShell
  <2>7. Core(s) /\ Listens(s) /\ TakesPart(s)
    BY DEF Fit, Core
  <2>8. Listens(t)
    BY <2>4, <2>7 DEF Listens, Same, SameShell
  <2>9. TakesPart(t)
    <3>1. s.views \in SUBSET Display
      BY <1>1, SplashViews
    <3> QED
      BY <1>8, <2>4, <2>7, <3>1 DEF TakesPart, AllTakePart, Same, SameShell
  <2>10. Steps(s, t)
    BY <2>4, <2>5, <2>6, <2>7, <2>8, <2>9, AnimationSteps
  <2> QED
    BY <2>10, FitFromSteps
<1> QED
  BY <1>9, <1>10

(* ply_boot_splash_become_idle                                              *)
LEMMA BecomeIdleFits ==
  ASSUME NEW s, Fit(s)
  PROVE  FitSteps(s, BecomeIdle(s))
<1>1. Core(s)
  BY DEF Fit, Core
<1> QED
  BY <1>1, BecomeIdleSteps, FitFromSteps

-----------------------------------------------------------------------------
(* Toggling the details                                                     *)

(* The new splash with what the old one left                                *)
LEMMA InheritingFits ==
  ASSUME NEW x, Fit(x), NEW old \in SplashObject,
         old.left \subseteq {"orphan"}, \A d \in Display : old.paused[d] = 0,
         NEW t,
         t = [x EXCEPT !.left = old.left, !.fault = old.fault,
                       !.paused = [d \in Display |-> @[d] + old.paused[d]]]
  PROVE  /\ Fit(t) /\ t.theme = x.theme /\ t.views = x.views
         /\ t.written = x.written /\ t.queue = x.queue
<1>1. x \in SplashObject /\ x.paused \in [Display -> Int] /\ Held(x)
  BY DEF Fit, Sound, SplashObject
<1>2. PICK p : p = [d \in Display |-> x.paused[d] + old.paused[d]]
  OBVIOUS
<1>3. p = x.paused
  <2>1. \A d \in Display : x.paused[d] + old.paused[d] = x.paused[d]
    BY <1>1
  <2>2. p = [d \in Display |-> x.paused[d]]
    BY <1>2, <2>1
  <2> QED
    BY <1>1, <2>2
<1>4. PICK l, f : l = old.left /\ f = old.fault
  OBVIOUS
<1>5. /\ l \in SUBSET {"throbber", "orphan", "frame", "plugin", "input"}
      /\ f \in SUBSET {"no_trigger", "two_triggers"}
  BY <1>4 DEF SplashObject
<1>6. t = [x EXCEPT !.left = l, !.fault = f, !.paused = p]
  BY <1>2, <1>4
<1>7. t \in SplashObject
  <2>1. Shaped(x, t)
    BY <1>6, Zenon DEF Shaped
  <2>2. Typed(t)
    BY <1>1, <1>3, <1>5, <1>6 DEF SplashObject, Typed
  <2> QED
    BY <1>1, <2>1, <2>2, TypedIsSplash
<1>8. /\ t.left = l /\ t.paused = x.paused /\ t.frames = x.frames
      /\ t.shown = x.shown /\ t.mode = x.mode /\ t.prompt = x.prompt
      /\ t.queue = x.queue /\ t.written = x.written
  BY <1>1, <1>3, <1>6, ZenonT(60) DEF SplashObject
<1>9. ShellSets(x, t)
  <2>1. /\ t.theme = x.theme /\ t.useEnd = x.useEnd /\ t.throbber = x.throbber
        /\ t.stop = x.stop /\ t.lost = x.lost /\ t.view = x.view
        /\ t.animating = x.animating /\ t.timer = x.timer
        /\ t.kernel = x.kernel /\ t.listening = x.listening
        /\ t.keyboard = x.keyboard /\ t.loop = x.loop
        /\ t.visible = x.visible /\ t.views = x.views
    BY <1>1, <1>6 DEF SplashObject
  <2> QED
    BY <1>7, <2>1 DEF ShellSets
<1>10. Core(t)
  BY <1>9, ShellSetsKeep DEF Fit, Core
<1>11. Held(t)
  BY <1>1, <1>4, <1>8, <1>9 DEF Held, ShellSets
<1>12. Waits(t) /\ Up(t)
  BY <1>8, <1>9 DEF Fit, Waits, Up, ShellSets
<1> QED
  BY <1>8, <1>9, <1>10, <1>11, <1>12 DEF Fit, Core, ShellSets

-----------------------------------------------------------------------------
(* The steps of the daemon                                                  *)

LEMMA ShowSplashFits ==
  ASSUME NEW s, Fit(s), NEW m \in Mode, NEW loads
  PROVE  FitSteps(s, ShowSplash(s, m, loads))
<1>1. PICK t : t = ShowSplash(s, m, loads)
  OBVIOUS
<1>2. Core(s) /\ Held(s) /\ Waits(s) /\ Up(s) /\ s.mode # "invalid"
  BY DEF Fit, Core, Up
<1>3. Core(t) /\ Held(t) /\ Leaves(s, t) /\ Up(t)
  <2>1. /\ Core(t) /\ Held(t) /\ Leaves(s, t)
        /\ s.mode # "invalid" \/ ~t.failed => Up(t)
    BY <1>1, <1>2, ShowSplashHolds
  <2> QED
    BY <1>2, <2>1
<1>4. Waits(t)
  BY <1>2, <1>3, WaitsStays
<1> QED
  BY <1>1, <1>3, <1>4 DEF FitSteps, Fit, Core, Leaves

LEMMA PluggingFits ==
  ASSUME NEW s, Fit(s), NEW d \in Display, d \notin s.views, NEW t,
         t = Then(AddPixelDisplays(s, {d}), UpdateDisplay)
  PROVE  /\ Fit(t) /\ t.theme = s.theme /\ t.views \subseteq s.views \cup {d}
         /\ s.theme = "details" => t.written \o t.queue = s.written \o s.queue
<1>1. PICK a : a = AddPixelDisplays(s, {d})
  OBVIOUS
<1>2. t = UpdateDisplay(a)
  <2>1. t = CHOOSE r \in {UpdateDisplay(x) : x \in {a}} : TRUE
    BY <1>1 DEF Then
  <2> QED
    BY <2>1
<1>3. Core(s) /\ Held(s) /\ Waits(s) /\ Up(s) /\ {d} \cap s.views = {}
  BY DEF Fit, Core
<1>4. Attaches(s, a, {d})
  BY <1>1, <1>3, AddPixelDisplaysAttach
<1>5. Fit(a)
  BY <1>3, <1>4 DEF Attaches, Fit, Core, Waits, Up
<1>6. FitSteps(a, t)
  BY <1>2, <1>5, UpdateDisplayFits
<1> QED
  BY <1>4, <1>6 DEF FitSteps, Attaches

LEMMA EscapeFits ==
  ASSUME NEW s, Fit(s), s.theme \in StopTheme
  PROVE  FitSteps(s, ValidateEscape(s))
<1>1. Core(s) /\ Up(s)
  BY DEF Fit, Core
<1> QED
  BY <1>1, ValidateEscapeSteps, FitFromSteps

LEMMA ProgressFits ==
  ASSUME NEW s, Fit(s), NEW late
  PROVE  FitSteps(s, UpdateProgress(s, late))
<1>1. Core(s)
  BY DEF Fit, Core
<1> QED
  BY <1>1, UpdateProgressSteps, FitFromSteps

LEMMA FitTyped ==
  ASSUME NEW s, Fit(s)
  PROVE  s \in SplashObject /\ Sound(s) /\ TakesPart(s) /\ Core(s) /\ Held(s)
BY DEF Fit, Sound, Core

Playing == {"running", "deactivating", "quitting", "inactive"}

LEMMA AliveIsPlaying ==
  ASSUME IInv, Alive
  PROVE  Plays /\ phase \in Playing
BY DEF IInv, Alive, TypeOK, Playing

(* A step after which the daemon still has a splash                         *)
LEMMA PlaysOn ==
  ASSUME phase' \in Playing, Plays', plugged' \in SUBSET Display,
         mode' \in Mode, retain' \in BOOLEAN, accepted' \in Messages
  PROVE  IInv'
<1>1. Fit(splash')
  BY DEF Plays
<1>2. splash' \in SplashObject /\ Sound(splash') /\ TakesPart(splash')
  BY <1>1, FitTyped
<1>3. phase' \notin {"none", "gone"}
  BY DEF Playing
<1>4. TypeOK'
  BY <1>2 DEF TypeOK, Playing
<1> QED
  BY <1>2, <1>3, <1>4 DEF IInv, GoneLeavesNothing

(* Most steps change neither the screens nor the messages.                  *)
LEMMA FitStepKeeps ==
  ASSUME IInv, Alive, FitSteps(splash, splash'), UNCHANGED <<plugged, accepted>>,
         phase' \in Playing, mode' \in Mode, retain' \in BOOLEAN
  PROVE  IInv'
<1>1. Plays
  BY AliveIsPlaying
<1>2. Plays'
  BY <1>1 DEF Plays, FitSteps
<1>3. plugged' \in SUBSET Display /\ accepted' \in Messages
  BY DEF IInv, TypeOK
<1> QED
  BY <1>2, <1>3, PlaysOn

LEMMA GoneHolds ==
  ASSUME IInv, phase' = "gone", Sound(splash'), TakesPart(splash'),
         UNCHANGED <<plugged, mode, accepted>>, retain' \in BOOLEAN,
         GoneLeavesNothing'
  PROVE  IInv'
<1>1. TypeOK'
  BY DEF IInv, TypeOK, Sound
<1> QED
  BY <1>1 DEF IInv

(* The splash was hidden and freed.                                         *)
LEMMA HiddenAndGone ==
  ASSUME IInv, NEW s, Core(s), Held(s), splash' = Then(HideSplash(s), FreeSplash),
         phase' = "gone", UNCHANGED <<plugged, mode, accepted>>, retain' \in BOOLEAN
  PROVE  IInv'
<1>1. PICK h : h = HideSplash(s)
  OBVIOUS
<1>2. splash' = FreeSplash(h)
  <2>1. splash' = CHOOSE r \in {FreeSplash(x) : x \in {h}} : TRUE
    BY <1>1 DEF Then
  <2> QED
    BY <2>1
<1>3. /\ Sound(splash') /\ TakesPart(splash')
      /\ splash'.left \subseteq {"orphan"} /\ splash'.kernel
      /\ \A d \in Display : splash'.paused[d] = 0
  BY <1>1, <1>2, HidingAndFreeing
<1>4. plugged' \in SUBSET Display
  BY DEF IInv, TypeOK
<1>5. GoneLeavesNothing'
  BY <1>3, <1>4 DEF GoneLeavesNothing
<1> QED
  BY <1>3, <1>5, GoneHolds

LEMMA Became ==
  ASSUME NEW s, Become(s)
  PROVE  splash' = s
BY DEF Become

LEMMA TypedState ==
  ASSUME IInv
  PROVE  /\ plugged \in SUBSET Display /\ mode \in Mode
         /\ retain \in BOOLEAN /\ accepted \in Messages
BY DEF IInv, TypeOK

-----------------------------------------------------------------------------
(* The actions                                                              *)

LEMMA HandleShowSplashKeeps ==
  ASSUME IInv, HandleShowSplash
  PROVE  IInv'
<1>1. PICK theme \in Theme, useEnd \in BOOLEAN, throbber \in BOOLEAN,
           ds \in Attached, m \in Mode, loads \in BOOLEAN :
          /\ plugged' = ds /\ mode' = m
          /\ Become(ShowDefaultSplash(theme, useEnd, throbber, ds, m, loads))
  BY DEF HandleShowSplash
<1>2. /\ phase = "none" /\ phase' = "running"
      /\ retain' = retain /\ accepted' = accepted
  BY DEF HandleShowSplash
<1>3. splash' = ShowDefaultSplash(theme, useEnd, throbber, ds, m, loads)
  BY <1>1, Became
<1>4. ds \in SUBSET Display /\ theme \in Plugin
  BY SplashAssumption
<1>5. /\ Fit(splash') /\ splash'.views \subseteq ds
      /\ splash'.theme = "details" => splash'.written \o splash'.queue = <<>>
  BY <1>3, <1>4, ShowDefaultSplashFits
<1>6. accepted = <<>>
  BY <1>2 DEF IInv
<1>7. Plays'
  BY <1>1, <1>2, <1>5, <1>6 DEF Plays
<1> QED
  BY <1>1, <1>2, <1>4, <1>7, PlaysOn, TypedState DEF Playing

LEMMA HandleChangeModeKeeps ==
  ASSUME IInv, HandleChangeMode
  PROVE  IInv'
<1>1. PICK m \in Mode, loads \in BOOLEAN :
          mode' = m /\ Become(ShowSplash(splash, m, loads))
  BY DEF HandleChangeMode
<1>2. Alive /\ UNCHANGED <<plugged, phase, retain, accepted>>
  BY DEF HandleChangeMode
<1>3. Plays /\ phase \in Playing
  BY <1>2, AliveIsPlaying
<1>4. FitSteps(splash, splash')
  <2>1. splash' = ShowSplash(splash, m, loads)
    BY <1>1, Became
  <2> QED
    BY <1>3, <2>1, ShowSplashFits DEF Plays
<1> QED
  BY <1>1, <1>2, <1>3, <1>4, FitStepKeeps, TypedState

(* Prompts, keys, progress and the daemon's own requests                    *)
LEMMA PromptsKeep ==
  ASSUME IInv, AskForPassword \/ PromptEnds \/ HandleReactivate
  PROVE  IInv'
<1>1. /\ Alive /\ UNCHANGED <<plugged, mode, retain, accepted>>
      /\ phase' = phase \/ phase' = "running"
      /\ \/ Become(DisplayPrompt(splash)) \/ Become(DisplayNormal(splash))
         \/ Become(UpdateDisplay(splash))
  BY DEF AskForPassword, PromptEnds, HandleReactivate
<1>2. Plays /\ phase \in Playing
  BY <1>1, AliveIsPlaying
<1>3. FitSteps(splash, splash')
  BY <1>1, <1>2, Became, PromptFits, UpdateDisplayFits DEF Plays
<1>4. phase' \in Playing
  BY <1>1, <1>2 DEF Playing
<1> QED
  BY <1>1, <1>3, <1>4, FitStepKeeps, TypedState

LEMMA OnEscapeKeeps ==
  ASSUME IInv, OnEscape
  PROVE  IInv'
<1>1. /\ Alive /\ UNCHANGED <<plugged, phase, mode, retain, accepted>>
      /\ splash.theme \in StopTheme
      /\ Become(ValidateEscape(splash))
  BY DEF OnEscape, StopTheme
<1>2. Plays /\ phase \in Playing
  BY <1>1, AliveIsPlaying
<1>3. FitSteps(splash, splash')
  BY <1>1, <1>2, Became, EscapeFits DEF Plays
<1> QED
  BY <1>1, <1>2, <1>3, FitStepKeeps, TypedState

LEMMA OnUpdateProgressKeeps ==
  ASSUME IInv, OnUpdateProgress
  PROVE  IInv'
<1>1. /\ Alive /\ UNCHANGED <<plugged, phase, mode, retain, accepted>>
      /\ \E late \in BOOLEAN : Become(UpdateProgress(splash, late))
  BY DEF OnUpdateProgress
<1>2. Plays /\ phase \in Playing
  BY <1>1, AliveIsPlaying
<1>3. PICK late \in BOOLEAN : Become(UpdateProgress(splash, late))
  BY <1>1
<1>4. FitSteps(splash, splash')
  BY <1>2, <1>3, Became, ProgressFits DEF Plays
<1> QED
  BY <1>1, <1>2, <1>4, FitStepKeeps, TypedState

LEMMA HandleDisplayMessageKeeps ==
  ASSUME IInv, HandleDisplayMessage
  PROVE  IInv'
<1>1. /\ Alive /\ splash.theme \in TextTheme
      /\ UNCHANGED <<plugged, phase, mode, retain>>
  BY DEF HandleDisplayMessage
<1>2. PICK msg \in Message :
          /\ Become(DisplayMessage(splash, msg))
          /\ accepted' = IF splash.theme = "details"
                         THEN Append(accepted, msg) ELSE accepted
  BY DEF HandleDisplayMessage
<1>3. Plays /\ phase \in Playing
  BY <1>1, AliveIsPlaying
<1>4. splash' = DisplayMessage(splash, msg)
  BY <1>2, Became
<1>5. accepted \in Seq(Message)
  BY TypedState DEF Messages
<1>6. CASE splash.theme = "text"
  <2>1. FitSteps(splash, splash')
    BY <1>3, <1>4, <1>6, TextMessageFits DEF Plays
  <2>2. accepted' = accepted
    BY <1>2, <1>6
  <2> QED
    BY <1>1, <1>3, <2>1, <2>2, FitStepKeeps, TypedState
<1>7. CASE splash.theme = "details"
  <2>1. /\ Fit(splash') /\ splash'.theme = splash.theme
        /\ splash'.views = splash.views
        /\ splash'.written \o splash'.queue
               = Append(splash.written \o splash.queue, msg)
    BY <1>3, <1>4, <1>7, DetailsMessageFits DEF Plays
  <2>2. accepted' = Append(accepted, msg)
    BY <1>2, <1>7
  <2>3. accepted' \in Messages
    BY <1>5, <2>2 DEF Messages
  <2>4. Plays'
    BY <1>1, <1>3, <1>7, <2>1, <2>2 DEF Plays
  <2> QED
    BY <1>1, <1>3, <2>3, <2>4, PlaysOn, TypedState
<1> QED
  BY <1>1, <1>6, <1>7 DEF TextTheme

LEMMA ToggleDetailsKeeps ==
  ASSUME IInv, ToggleDetails
  PROVE  IInv'
<1>1. /\ Alive /\ accepted' = <<>> /\ UNCHANGED <<plugged, phase, mode, retain>>
  BY DEF ToggleDetails
<1>2. PICK old, new, y :
          /\ old = FreeSplash(HideSplash(splash))
          /\ new = (IF splash.theme = "details"
                    THEN ShowDefaultSplash("fade-throbber", FALSE, FALSE, plugged,
                                           mode, TRUE)
                    ELSE DisplayNormal(ShowTheme("details", FALSE, FALSE, plugged,
                                                 mode, TRUE)))
          /\ y = (IF splash.prompt THEN Then(new, DisplayPrompt) ELSE new)
  OBVIOUS
<1>3. splash' = [y EXCEPT !.left = old.left, !.fault = old.fault,
                          !.paused = [d \in Display |-> @[d] + old.paused[d]]]
  BY <1>2, Became DEF ToggleDetails
<1>4. Plays /\ phase \in Playing /\ Fit(splash)
  BY <1>1, AliveIsPlaying DEF Plays
<1>5. /\ old \in SplashObject /\ old.left \subseteq {"orphan"}
      /\ \A d \in Display : old.paused[d] = 0
  <2>1. /\ Sound(old) /\ old.left \subseteq {"orphan"}
        /\ \A d \in Display : old.paused[d] = 0
    BY <1>2, <1>4, FitTyped, HidingAndFreeing
  <2> QED
    BY <2>1 DEF Sound
<1>6. plugged \in SUBSET Display /\ mode \in Mode
  BY TypedState
<1>7. /\ Fit(new) /\ new.views \subseteq plugged
      /\ new.theme = "details" => new.written \o new.queue = <<>>
  <2>1. CASE splash.theme = "details"
    <3>1. new = ShowDefaultSplash("fade-throbber", FALSE, FALSE, plugged, mode,
                                  TRUE)
      BY <1>2, <2>1
    <3>2. "fade-throbber" \in Plugin
      BY DEF Plugin
    <3> QED
      BY <1>6, <3>1, <3>2, ShowDefaultSplashFits, TrueFalse, ZenonT(60)
  <2>2. CASE splash.theme # "details"
    <3>1. PICK x : x = ShowTheme("details", FALSE, FALSE, plugged, mode, TRUE)
      OBVIOUS
    <3>2. new = DisplayNormal(x)
      BY <1>2, <2>2, <3>1
    <3>3. "details" \in Plugin /\ "details" \in TextTheme
      BY DEF Plugin, TextTheme
    <3>4. Begins(x, "details", plugged)
      BY <1>6, <3>1, <3>3, ShowThemeHolds, TrueFalse
    <3>5. /\ Fit(x) /\ x.theme = "details" /\ x.views \subseteq plugged
          /\ x.queue = <<>> /\ x.written = <<>>
      BY <3>3, <3>4 DEF Begins
    <3>6. FitSteps(x, new)
      BY <3>2, <3>5, PromptFits
    <3>7. <<>> \o <<>> = <<>>
      <4>1. <<>> \in Seq(Message)
        OBVIOUS
      <4> QED
        BY <4>1, ConcatEmptySeq
    <3> QED
      BY <3>5, <3>6, <3>7 DEF FitSteps
  <2> QED
    BY <2>1, <2>2
<1>8. FitSteps(new, y)
  <2>1. PICK z : z = DisplayPrompt(new)
    OBVIOUS
  <2>2. Then(new, DisplayPrompt) = z
    <3>1. Then(new, DisplayPrompt)
              = CHOOSE r \in {DisplayPrompt(x) : x \in {new}} : TRUE
      BY DEF Then
    <3> QED
      BY <2>1, <3>1
  <2>3. FitSteps(new, z) /\ FitSteps(new, new)
    BY <1>7, <2>1, PromptFits DEF FitSteps
  <2> QED
    BY <1>2, <2>2, <2>3
<1>9. /\ Fit(splash') /\ splash'.theme = y.theme /\ splash'.views = y.views
      /\ splash'.written = y.written /\ splash'.queue = y.queue
  BY <1>3, <1>5, <1>8, InheritingFits, ZenonT(60) DEF FitSteps
<1>10. Plays'
  BY <1>1, <1>7, <1>8, <1>9 DEF Plays, FitSteps
<1>11. <<>> \in Messages
  BY DEF Messages
<1> QED
  BY <1>1, <1>4, <1>10, <1>11, PlaysOn, TypedState

LEMMA PlugScreenKeeps ==
  ASSUME IInv, NEW d \in Display, PlugScreen(d)
  PROVE  IInv'
<1>1. /\ Alive /\ d \notin plugged /\ plugged' = plugged \cup {d}
      /\ UNCHANGED <<phase, mode, retain, accepted>>
      /\ Become(Then(AddPixelDisplays(splash, {d}), UpdateDisplay))
  BY DEF PlugScreen, Watching
<1>2. Plays /\ phase \in Playing /\ plugged \in SUBSET Display
  BY <1>1, AliveIsPlaying, TypedState
<1>3. Fit(splash) /\ d \notin splash.views
  BY <1>1, <1>2 DEF Plays
<1>4. splash' = Then(AddPixelDisplays(splash, {d}), UpdateDisplay)
  BY <1>1, Became
<1>5. /\ Fit(splash') /\ splash'.theme = splash.theme
      /\ splash'.views \subseteq splash.views \cup {d}
      /\ splash.theme = "details"
             => splash'.written \o splash'.queue = splash.written \o splash.queue
  BY <1>3, <1>4, PluggingFits
<1>6. Plays'
  BY <1>1, <1>2, <1>5 DEF Plays
<1>7. plugged' \in SUBSET Display
  BY <1>1, <1>2
<1> QED
  BY <1>1, <1>2, <1>6, <1>7, PlaysOn, TypedState

LEMMA UnplugScreenKeeps ==
  ASSUME IInv, NEW d \in Display, UnplugScreen(d)
  PROVE  IInv'
<1>1. /\ Alive /\ plugged' = plugged \ {d}
      /\ UNCHANGED <<phase, mode, retain, accepted>>
      /\ Become([RemovePixelDisplays(splash, {d}) EXCEPT !.paused[d] = 0])
  BY DEF UnplugScreen, Watching
<1>2. Plays /\ phase \in Playing /\ plugged \in SUBSET Display
  BY <1>1, AliveIsPlaying, TypedState
<1>3. Fit(splash)
  BY <1>2 DEF Plays
<1>4. PICK r, t : /\ r = RemovePixelDisplays(splash, {d})
                  /\ t = Unheld(r, d)
  OBVIOUS
<1>5. /\ Fit(t) /\ t.theme = splash.theme /\ t.views = splash.views \ {d}
      /\ t.written = splash.written /\ t.queue = splash.queue
  BY <1>3, <1>4, UnpluggingFits
<1>6. splash' = t
  BY <1>1, <1>4, Became DEF Unheld
<1>7. Plays'
  BY <1>1, <1>2, <1>5, <1>6 DEF Plays
<1>8. plugged' \in SUBSET Display
  BY <1>1, <1>2
<1> QED
  BY <1>1, <1>2, <1>7, <1>8, PlaysOn, TypedState

LEMMA HandleDeactivateKeeps ==
  ASSUME IInv, HandleDeactivate
  PROVE  IInv'
<1>1. /\ Alive /\ phase' = "deactivating" /\ Become(BecomeIdle(splash))
      /\ UNCHANGED <<plugged, mode, retain, accepted>>
  BY DEF HandleDeactivate
<1>2. Plays
  BY <1>1, AliveIsPlaying
<1>3. FitSteps(splash, splash')
  BY <1>1, <1>2, Became, BecomeIdleFits DEF Plays
<1>4. phase' \in Playing
  BY <1>1 DEF Playing
<1> QED
  BY <1>1, <1>3, <1>4, FitStepKeeps, TypedState

LEMMA HandleHideSplashKeeps ==
  ASSUME IInv, HandleHideSplash
  PROVE  IInv'
<1>1. /\ Alive /\ phase' = "gone" /\ UNCHANGED <<plugged, mode, retain, accepted>>
      /\ Become(Then(HideSplash(splash), FreeSplash))
  BY DEF HandleHideSplash
<1>2. Core(splash) /\ Held(splash)
  BY <1>1, AliveIsPlaying, FitTyped DEF Plays
<1>3. splash' = Then(HideSplash(splash), FreeSplash)
  BY <1>1, Became
<1> QED
  BY <1>1, <1>2, <1>3, HiddenAndGone, TypedState

LEMMA HandleQuitKeeps ==
  ASSUME IInv, NEW keep \in BOOLEAN, HandleQuit(keep)
  PROVE  IInv'
<1>1. /\ Alive /\ retain' = keep /\ UNCHANGED <<plugged, mode, accepted>>
      /\ \/ Become(Then(HideSplash(splash), FreeSplash)) /\ phase' = "gone"
         \/ Become(splash) /\ phase' = "quitting"
         \/ Become(BecomeIdle(splash)) /\ phase' = "quitting"
  BY DEF HandleQuit
<1>2. Fit(splash)
  BY <1>1, AliveIsPlaying DEF Plays
<1>3. CASE Become(Then(HideSplash(splash), FreeSplash)) /\ phase' = "gone"
  <2>1. Core(splash) /\ Held(splash)
    BY <1>2, FitTyped
  <2>2. splash' = Then(HideSplash(splash), FreeSplash)
    BY <1>3, Became
  <2> QED
    BY <1>1, <1>3, <2>1, <2>2, HiddenAndGone
<1>4. CASE (Become(splash) \/ Become(BecomeIdle(splash))) /\ phase' = "quitting"
  <2>1. splash' = splash \/ splash' = BecomeIdle(splash)
    BY <1>4, Became
  <2>2. FitSteps(splash, splash)
    BY <1>2 DEF FitSteps
  <2>3. FitSteps(splash, BecomeIdle(splash))
    BY <1>2, BecomeIdleFits
  <2>4. FitSteps(splash, splash')
    BY <2>1, <2>2, <2>3
  <2>5. phase' \in Playing
    BY <1>4 DEF Playing
  <2> QED
    BY <1>1, <2>4, <2>5, FitStepKeeps, TypedState
<1> QED
  BY <1>1, <1>3, <1>4

LEMMA OnBootSplashIdleKeeps ==
  ASSUME IInv, OnBootSplashIdle
  PROVE  IInv'
<1>1. PICK s : s = [splash EXCEPT !.idle = "none"]
  OBVIOUS
<1>2. /\ Alive /\ UNCHANGED <<plugged, mode, retain, accepted>>
      /\ \/ Become(Then(HideSplash(s), FreeSplash)) /\ phase' = "gone"
         \/ retain /\ Become(Then(s, FreeSplash)) /\ phase' = "gone"
         \/ Become(s) /\ phase' = "inactive"
  BY <1>1 DEF OnBootSplashIdle
<1>3. Fit(splash) /\ Core(splash)
  BY <1>2, AliveIsPlaying, FitTyped DEF Plays
<1>4. FitSteps(splash, s)
  BY <1>1, <1>3, IdleSteps, FitFromSteps
<1>5. Core(s) /\ Held(s)
  BY <1>4, FitTyped DEF FitSteps
<1>6. CASE Become(Then(HideSplash(s), FreeSplash)) /\ phase' = "gone"
  <2>1. splash' = Then(HideSplash(s), FreeSplash)
    BY <1>6, Became
  <2> QED
    BY <1>2, <1>5, <1>6, <2>1, HiddenAndGone, TypedState
<1>7. CASE retain /\ Become(Then(s, FreeSplash)) /\ phase' = "gone"
  <2>1. splash' = FreeSplash(s)
    <3>1. splash' = CHOOSE r \in {FreeSplash(x) : x \in {s}} : TRUE
      BY <1>7, Became DEF Then
    <3> QED
      BY <3>1
  <2>2. LeftBy(s, splash')
    BY <1>5, <2>1, FreeSplashLeaves
  <2>3. /\ Sound(splash') /\ TakesPart(splash')
        /\ splash'.left \subseteq {"orphan", "frame", "plugin", "input"}
    BY <1>5, <2>2 DEF LeftBy, Held
  <2>4. GoneLeavesNothing'
    BY <1>2, <1>7, <2>3 DEF GoneLeavesNothing
  <2> QED
    BY <1>2, <1>7, <2>3, <2>4, GoneHolds, TypedState
<1>8. CASE Become(s) /\ phase' = "inactive"
  <2>1. FitSteps(splash, splash')
    BY <1>4, <1>8, Became
  <2>2. phase' \in Playing
    BY <1>8 DEF Playing
  <2> QED
    BY <1>2, <2>1, <2>2, FitStepKeeps, TypedState
<1> QED
  BY <1>2, <1>6, <1>7, <1>8

LEMMA ViewTimeoutsKeep ==
  ASSUME IInv, NEW d \in Display,
         OnThrobberTimeout(d) \/ OnAnimationTimeout(d) \/ OnOrphanTimeout(d)
  PROVE  IInv'
<1>1. Alive /\ UNCHANGED <<plugged, phase, mode, retain, accepted>>
  BY DEF OnThrobberTimeout, OnAnimationTimeout, OnOrphanTimeout
<1>2. Fit(splash) /\ phase \in Playing
  BY <1>1, AliveIsPlaying DEF Plays
<1>3. CASE OnThrobberTimeout(d)
  <2>1. PICK f \in 0 .. LastFrame :
            Become([splash EXCEPT !.view[d] = ThrobberTimeout(@, f)])
    BY <1>3 DEF OnThrobberTimeout
  <2>2. splash.view[d].spinning
    BY <1>3 DEF OnThrobberTimeout
  <2>3. splash' = [splash EXCEPT !.view[d] = ThrobberTimeout(@, f)]
    BY <2>1, Became
  <2>4. FitSteps(splash, splash')
    BY <1>2, <2>1, <2>2, <2>3, ThrobberTimeoutFits
  <2> QED
    BY <1>1, <1>2, <2>4, FitStepKeeps, TypedState
<1>4. CASE OnAnimationTimeout(d)
  <2>1. /\ splash.view[d].anim \in {"running", "stopping"}
        /\ Become(AnimationTimeout(splash, d))
    BY <1>4 DEF OnAnimationTimeout
  <2>2. FitSteps(splash, splash')
    BY <1>2, <2>1, Became, AnimationTimeoutFits
  <2> QED
    BY <1>1, <1>2, <2>2, FitStepKeeps, TypedState
<1>5. CASE OnOrphanTimeout(d)
  <2>1. splash.view[d].orphans > 0 /\ Become(OrphanTimeout(splash, d))
    BY <1>5 DEF OnOrphanTimeout
  <2>2. FitSteps(splash, splash')
    BY <1>2, <2>1, Became, OrphanTimeoutFits
  <2> QED
    BY <1>1, <1>2, <2>2, FitStepKeeps, TypedState
<1> QED
  BY <1>3, <1>4, <1>5

-----------------------------------------------------------------------------
(* The invariant                                                            *)

LEMMA InitHolds ==
  ASSUME Init
  PROVE  IInv
<1>1. "text" \in Plugin
  BY DEF Plugin
<1>2. splash = NewSplash("text", FALSE, FALSE)
  BY DEF Init
<1>3. Core(splash)
  BY <1>1, <1>2, NewSplashIsFit, TrueFalse
<1>4. splash = Fresh
  BY <1>2 DEF Fresh
<1>5. /\ phase = "none" /\ accepted = <<>> /\ plugged = {} /\ retain = FALSE
      /\ mode = "boot-up"
  BY DEF Init
<1>6. accepted \in Messages
  BY <1>5 DEF Messages
<1>7. mode \in Mode
  BY <1>5 DEF Mode
<1>8. TypeOK
  BY <1>3, <1>5, <1>6, <1>7 DEF TypeOK, Core, Sound
<1> QED
  BY <1>3, <1>4, <1>5, <1>8 DEF IInv, Core, GoneLeavesNothing

LEMMA StutteringKeeps ==
  ASSUME IInv, UNCHANGED vars
  PROVE  IInv'
BY DEF vars, IInv, TypeOK, Plays, GoneLeavesNothing

LEMMA NextKeeps ==
  ASSUME IInv, Next
  PROVE  IInv'
<1>1. CASE HandleShowSplash
  BY <1>1, HandleShowSplashKeeps
<1>2. CASE HandleChangeMode
  BY <1>2, HandleChangeModeKeeps
<1>3. CASE AskForPassword \/ PromptEnds \/ HandleReactivate
  BY <1>3, PromptsKeep
<1>4. CASE HandleDisplayMessage
  BY <1>4, HandleDisplayMessageKeeps
<1>5. CASE OnEscape
  BY <1>5, OnEscapeKeeps
<1>6. CASE OnUpdateProgress
  BY <1>6, OnUpdateProgressKeeps
<1>7. CASE ToggleDetails
  BY <1>7, ToggleDetailsKeeps
<1>8. CASE \E d \in Display : PlugScreen(d) \/ UnplugScreen(d)
  BY <1>8, PlugScreenKeeps, UnplugScreenKeeps
<1>9. CASE HandleDeactivate
  BY <1>9, HandleDeactivateKeeps
<1>10. CASE HandleHideSplash
  BY <1>10, HandleHideSplashKeeps
<1>11. CASE \E keep \in BOOLEAN : HandleQuit(keep)
  BY <1>11, HandleQuitKeeps
<1>12. CASE Timeout
  BY <1>12, OnBootSplashIdleKeeps, ViewTimeoutsKeep DEF Timeout
<1> QED
  BY <1>1, <1>2, <1>3, <1>4, <1>5, <1>6, <1>7, <1>8, <1>9, <1>10, <1>11, <1>12
  DEF Next

(* Whatever the screens, themes and bounds: the stop trigger waits for the  *)
(* pulls that are owed, timeouts run only while the plugin animates, the    *)
(* displays are held while the splash is shown, and messages wait for the   *)
(* end of a prompt only.                                                    *)
THEOREM IInvHolds == Spec => []IInv
<1>1. Init => IInv
  BY InitHolds
<1>2. IInv /\ [Next]_vars => IInv'
  BY NextKeeps, StutteringKeeps
<1> QED
  BY <1>1, <1>2, PTL DEF Spec

(* The trigger that two-step pulls when it is idle waits for exactly the    *)
(* pulls that its throbbers and end animations still owe, and a screen is   *)
(* held once while a splash is shown on it, through mode changes, prompts,  *)
(* reloads of the theme and every order of hotplugs and timeouts.           *)
THEOREM SplashIsAlwaysSound == Spec => []SplashIsSound
<1>1. IInv => SplashIsSound
  <2> SUFFICES ASSUME IInv
               PROVE  SplashIsSound
    OBVIOUS
  <2>1. TypeOK /\ Paired(splash) /\ plugged \in SUBSET Display
    BY DEF IInv, TypeOK, Sound
  <2>2. PullsArePaired
    BY <2>1 DEF PullsArePaired, Paired
  <2>3. phase # "gone" => Held(splash)
    <3>1. CASE phase = "none"
      <4>1. splash = NewSplash("text", FALSE, FALSE)
        BY <3>1 DEF IInv, Fresh
      <4>2. "text" \in Plugin
        BY DEF Plugin
      <4> QED
        BY <4>1, <4>2, NewSplashIsFit, TrueFalse
    <3>2. CASE phase \notin {"none", "gone"}
      BY <3>2, FitTyped DEF IInv, Plays
    <3> QED
      BY <3>1, <3>2
  <2>4. PausedWhileShown
    BY <2>1, <2>3 DEF PausedWhileShown, Held
  <2> QED
    BY <2>1, <2>2, <2>4 DEF SplashIsSound
<1> QED
  BY <1>1, IInvHolds, PTL

(* While a two-step splash animates, each of its screens has its throbber   *)
(* or its end animation, also one that is plugged in after the splash was   *)
(* asked to become idle.                                                    *)
THEOREM ScreensAlwaysTakePart == Spec => []ScreensTakePart
<1>1. IInv => ScreensTakePart
  BY DEF IInv, TakesPart, AllTakePart, ScreensTakePart
<1> QED
  BY <1>1, IInvHolds, PTL

(* A splash that is hidden, or that stopped for a prompt or the console,    *)
(* has no timer and no throbber that would draw, and no end animation runs  *)
(* on but those that it was asked for after it had stopped.                 *)
THEOREM HiddenStaysQuiet == Spec => []HiddenIsQuiet
<1>1. IInv => HiddenIsQuiet
  <2> SUFFICES ASSUME IInv
               PROVE  HiddenIsQuiet
    OBVIOUS
  <2>1. Calm(splash)
    BY DEF IInv, Sound
  <2> QED
    BY <2>1 DEF Calm, HiddenIsQuiet, StopTheme, TimerTheme
<1> QED
  BY <1>1, IInvHolds, PTL

(* A splash that was hidden and freed leaves only the timeouts of dropped   *)
(* end animations, holds no screen, and gives the console back.             *)
THEOREM GoneAlwaysLeavesNothing == Spec => []GoneLeavesNothing
<1>1. IInv => GoneLeavesNothing
  BY DEF IInv
<1> QED
  BY <1>1, IInvHolds, PTL

(* Every message that the details splash was given is on the console or     *)
(* waits, in order, for the end of the prompt that is open.                 *)
THEOREM MessagesAreAlwaysKept == Spec => []MessagesAreKept
<1>1. IInv => MessagesAreKept
  <2> SUFFICES ASSUME IInv, phase \notin {"none", "gone"},
                      splash.theme = "details"
               PROVE  /\ splash.written \o splash.queue = accepted
                      /\ ~splash.prompt => splash.queue = <<>>
    BY DEF MessagesAreKept
  <2>1. Plays
    BY DEF IInv
  <2>2. Waits(splash)
    BY <2>1 DEF Plays, Fit
  <2> QED
    BY <2>1, <2>2 DEF Plays, Waits
<1> QED
  BY <1>1, IInvHolds, PTL
=============================================================================
