-------------------------- MODULE EventLoopProofs --------------------------
(* Theorems about EventLoop, for any number of descriptors, registrations,  *)
(* timeouts and events, and any clock.                                      *)
EXTENDS EventLoop, FiniteSetTheorems, SequenceTheorems,
        WellFoundedInduction, TLAPS

-----------------------------------------------------------------------------
(* What the loop keeps between two of its steps.                            *)

(* The walk over the destinations of a source belongs to the dispatch of an *)
(* event of this pass, and never goes backwards.                            *)
ScanIsWellFormed ==
    /\ scan \in [type : {"none", "ready", "hangup"}, source : 0..Len(fd),
                 at : 0..Len(source), next : 0..Len(source)]
    /\ scan.type = "none" => scan = NoScan
    /\ scan # NoScan => /\ scan.source \in Source
                        /\ phase \in {"events", "calling"}
                        /\ batch # <<>>
    /\ phase = "calling" <=> scan.at # 0
    /\ scan.at # 0 => source[scan.at] = scan.source
    /\ scan.next # 0 => scan.next > scan.at

(* Outside of a pass no source is referenced for one.                       *)
PassIsPinned ==
    /\ phase \in {"start", "wait", "exited"} => pinned = {} /\ batch = <<>>
    /\ interrupted => /\ pinned = {} /\ batch = <<>>
                      /\ phase \in {"wait", "timeouts", "timing"}
    /\ \A i \in DOMAIN batch :
           /\ batch[i].source \in pinned
           /\ batch[i].type = "hangup" => batch[i].source # 1

(* What is registered hangs on a listed source, which is polled.            *)
RegisteredIsListed ==
    /\ listed \subseteq polled
    /\ watches \subseteq dests
    /\ \A r \in dests : source[r] \in listed
    /\ source # <<>> /\ source[1] = 1 /\ kind[1] = "deaf" /\ 1 \notin held

(* A source that is disconnected stays on the list only while it is being   *)
(* dispatched, and that of the signals never is.                            *)
LeavesByHangup ==
    /\ 1 \notin gone
    /\ scan.type = "hangup" => scan.source \in gone
    /\ \A s \in gone \intersect listed :
           scan.type = "hangup" /\ scan.source = s

(* A destination has a user, until its source hangs up: then those have one *)
(* that are still to be told, and of those that were none is left who wants *)
(* to be.                                                                   *)
DestinationsHaveUsers ==
    /\ \A r \in dests : \/ r = 1
                        \/ source[r] \in gone
                        \/ r \in held \intersect watches
    /\ scan.type = "hangup" =>
           /\ scan.next # 0 =>
                  \A r \in DestsOf(scan.source) :
                      r >= scan.next => r \in held \intersect watches
           /\ \A r \in held :
                  source[r] = scan.source =>
                      \/ kind[r] = "deaf" \/ r = scan.at
                      \/ scan.next # 0 /\ r >= scan.next

(* Every timeout is still to be looked at, or the loop wakes up for it; and *)
(* it wakes up for one that is set or was due when the walk began.          *)
TimeoutsAreMinded ==
    /\ \A t \in timeouts : t.id <= made
    /\ \A t, u \in timeouts : t.id = u.id => t = u
    /\ wakeup \in {t.deadline : t \in timeouts} \union {NoWakeup} \union 0..start
    /\ phase # "timing" =>
           \A t \in timeouts :
               \/ phase = "timeouts" /\ cursor # 0 /\ t.id >= cursor
               \/ wakeup # NoWakeup /\ wakeup <= t.deadline

IInv ==
    /\ TypeOK
    /\ ScanIsWellFormed
    /\ PassIsPinned
    /\ RegisteredIsListed
    /\ LeavesByHangup
    /\ DestinationsHaveUsers
    /\ TimeoutsAreMinded
    /\ SourcesAreCounted
    /\ WalksAreValid
    /\ HeldIsWatched

-----------------------------------------------------------------------------
(* The operators.                                                           *)

(* A set of natural numbers has a least one: among the intervals from 1 to  *)
(* one of them is one that no other is strictly contained in.               *)
LEMMA SmallestIs ==
  ASSUME NEW S \in SUBSET Nat, S # {}
  PROVE  Smallest(S) \in S /\ \A m \in S : Smallest(S) <= m
<1> DEFINE Below == {1..n : n \in S}
<1>1. Below \subseteq FiniteSubsetsOf(Nat)
  <2> SUFFICES ASSUME NEW n \in S PROVE 1..n \in FiniteSubsetsOf(Nat)
    OBVIOUS
  <2>1. IsFiniteSet(1..n)
    BY FS_Interval
  <2> QED BY <2>1 DEF FiniteSubsetsOf
<1>2. Below # {}
  OBVIOUS
<1>3. PICK b \in Below :
          \A c \in Below : <<c, b>> \notin StrictSubsetOrdering(Nat)
  <2> HIDE DEF Below
  <2> QED BY <1>1, <1>2, FS_StrictSubsetOrderingWellFounded, WFMin
<1>4. PICK n \in S : b = 1..n
  OBVIOUS
<1>5. ASSUME NEW m \in S, m < n PROVE FALSE
  <2>1. n \in 1..n /\ n \notin 1..m /\ 1..m \subseteq 1..n
    BY <1>5
  <2>2. <<1..m, 1..n>> \in StrictSubsetOrdering(Nat)
    BY <2>1 DEF StrictSubsetOrdering
  <2> QED BY <1>3, <1>4, <2>2
<1>6. \A m \in S : n <= m
  BY <1>5
<1> QED BY <1>6 DEF Smallest

LEMMA AfterIs ==
  ASSUME NEW S \in SUBSET Nat, 0 \notin S, NEW n \in Nat
  PROVE  /\ After(S, n) \in S \union {0}
         /\ After(S, n) \in Nat
         /\ After(S, n) # 0 => After(S, n) > n
         /\ \A m \in S : m > n => After(S, n) # 0 /\ After(S, n) <= m
<1> DEFINE later == {m \in S : m > n}
<1>1. CASE later = {}
  BY <1>1 DEF After
<1>2. CASE later # {}
  <2>1. Smallest(later) \in later /\ \A m \in later : Smallest(later) <= m
    BY <1>2, SmallestIs
  <2>2. After(S, n) = Smallest(later)
    BY <1>2 DEF After
  <2> QED BY <2>1, <2>2
<1> QED BY <1>1, <1>2

LEMMA AppendIs ==
  ASSUME NEW S, NEW q \in Seq(S), NEW e \in S
  PROVE  /\ Append(q, e) \in Seq(S)
         /\ Len(Append(q, e)) = Len(q) + 1
         /\ DOMAIN Append(q, e) = 1..Len(q) + 1
         /\ \A i \in 1..Len(q) : Append(q, e)[i] = q[i]
         /\ Append(q, e)[Len(q) + 1] = e
  OBVIOUS

LEMMA AppendToFunction ==
  ASSUME NEW S, NEW n \in Nat, NEW q \in [1..n -> S], NEW e \in S
  PROVE  Append(q, e) \in [1..n + 1 -> S]
<1>1. q \in Seq(S) /\ Len(q) = n
  OBVIOUS
<1>2. Append(q, e) \in Seq(S) /\ Len(Append(q, e)) = n + 1
  BY <1>1
<1> QED BY <1>2, LenProperties

(* Sources and registrations are numbers from 1.                            *)
LEMMA Numbers ==
  ASSUME TypeOK
  PROVE  /\ Len(fd) \in Nat /\ Source = 1..Len(fd)
         /\ Len(source) \in Nat /\ Registration = 1..Len(source)
         /\ source \in [Registration -> Source]
         /\ fd \in [Source -> Fd]
         /\ Source \subseteq Nat \ {0} /\ Registration \subseteq Nat \ {0}
         /\ dests \subseteq Registration /\ watches \subseteq Registration
  BY DEF TypeOK, Source, Registration

LEMMA RegistrationsAreFinite ==
  ASSUME TypeOK, NEW s
  PROVE  /\ IsFiniteSet(DestsOf(s)) /\ IsFiniteSet(WatchesOf(s))
         /\ Cardinality(DestsOf(s)) \in Nat
         /\ Cardinality(WatchesOf(s)) \in Nat
<1>1. IsFiniteSet(1..Len(source))
  BY Numbers, FS_Interval
<1>2. DestsOf(s) \subseteq 1..Len(source) /\ WatchesOf(s) \subseteq 1..Len(source)
  BY Numbers DEF DestsOf, WatchesOf
<1> QED BY <1>1, <1>2, FS_Subset, FS_CardinalityType

(* The identifiers of timeouts are positive numbers.                        *)
LEMMA TimeoutsAreNumbered ==
  ASSUME TypeOK
  PROVE  /\ {t.id : t \in timeouts} \in SUBSET Nat
         /\ 0 \notin {t.id : t \in timeouts}
         /\ {t.deadline : t \in timeouts} \in SUBSET Nat
  BY LoopAssumption DEF LoopAssumption, TypeOK, Timeout

-----------------------------------------------------------------------------
LEMMA InitEstablishes == Init => IInv
<1> SUFFICES ASSUME Init PROVE IInv
  OBVIOUS
<1> USE LoopAssumption DEF LoopAssumption, Init
<1>1. Source = {1} /\ Registration = {1} /\ Len(fd) = 1 /\ Len(source) = 1
  BY DEF Source, Registration
<1>2. TypeOK
  <2>1. fd \in Seq(Fd) /\ refs \in [Source -> Nat] /\ source \in Seq(Source)
        /\ kind \in [Registration -> Kind \union {"deaf"}]
    BY <1>1
  <2>2. Len(source) <= MaxWatches /\ batch \in Seq(Event) /\ Len(batch) <= MaxBatch
    BY <1>1
  <2>3. /\ made \in 0..MaxTimeouts /\ cursor \in 0..MaxTimeouts
        /\ start \in 0..MaxTime /\ now \in 0..MaxTime
    OBVIOUS
  <2> QED BY <1>1, <2>1, <2>2, <2>3, Zenon DEF TypeOK, NoScan
<1>3. DestsOf(1) = {1} /\ WatchesOf(1) = {1} /\ Cardinality({1}) = 1
  BY FS_Singleton DEF DestsOf, WatchesOf
<1>4. SourcesAreCounted
  <2>1. refs[1] = 3 /\ 1 \in listed /\ 1 \notin pinned
    OBVIOUS
  <2>2. Cardinality(DestsOf(1)) = 1 /\ Cardinality(WatchesOf(1)) = 1
    BY <1>3
  <2>3. \A s \in Source : s = 1
    BY <1>1
  <2> HIDE DEF Init
  <2> QED BY <2>1, <2>2, <2>3 DEF SourcesAreCounted
<1>5. ScanIsWellFormed /\ PassIsPinned /\ RegisteredIsListed /\ LeavesByHangup
  BY <1>1 DEF ScanIsWellFormed, PassIsPinned, RegisteredIsListed,
              LeavesByHangup, NoScan
<1>6. DestinationsHaveUsers /\ TimeoutsAreMinded
  BY DEF DestinationsHaveUsers, TimeoutsAreMinded, NoScan
<1>7. WalksAreValid /\ HeldIsWatched
  BY <1>1 DEF WalksAreValid, HeldIsWatched, NoScan
<1> QED BY <1>2, <1>4, <1>5, <1>6, <1>7 DEF IInv

-----------------------------------------------------------------------------
(* What users call.                                                         *)

LEMMA WatchFdKeeps ==
  ASSUME IInv, NEW f \in Fd, NEW k \in Kind, ~IsLeaving(f), WatchFd(f, k)
  PROVE  IInv'
<1> DEFINE r == Len(source) + 1
<1> USE DEF IInv
<1>1. /\ Len(fd) \in Nat /\ Source = 1..Len(fd)
      /\ Len(source) \in Nat /\ Registration = 1..Len(source)
      /\ source \in [Registration -> Source]
      /\ dests \subseteq Registration /\ watches \subseteq Registration
      /\ held \subseteq Registration
  BY Numbers DEF TypeOK
<1>2. PICK s \in 1..Len(fd) + 1 :
         /\ s \in Source => s \in listed /\ fd[s] = f
         /\ s \notin Source => s = Len(fd) + 1 /\ \A x \in listed : fd[x] # f
         /\ fd' = IF s \in Source THEN fd ELSE Append(fd, f)
         /\ refs' = IF s \in Source THEN [refs EXCEPT ![s] = @ + 2] ELSE Append(refs, 3)
         /\ listed' = listed \union {s} /\ polled' = polled \union {s}
         /\ source' = Append(source, s)
  <2>1. PICK t : t = IF \E x \in listed : fd[x] = f
                    THEN CHOOSE x \in listed : fd[x] = f ELSE Len(fd) + 1
    OBVIOUS
  <2>2. /\ fd' = IF t \in Source THEN fd ELSE Append(fd, f)
        /\ refs' = IF t \in Source THEN [refs EXCEPT ![t] = @ + 2] ELSE Append(refs, 3)
        /\ listed' = listed \union {t} /\ polled' = polled \union {t}
        /\ source' = Append(source, t)
    BY <2>1 DEF WatchFd
  <2>3. CASE \E x \in listed : fd[x] = f
    <3>1. t \in listed /\ fd[t] = f
      BY <2>1, <2>3
    <3>2. t \in Source /\ t \in 1..Len(fd) + 1
      BY <1>1, <3>1 DEF TypeOK
    <3> QED BY <2>2, <3>1, <3>2
  <2>4. CASE ~\E x \in listed : fd[x] = f
    <3>1. t = Len(fd) + 1 /\ t \notin Source /\ t \in 1..Len(fd) + 1
      BY <1>1, <2>1, <2>4
    <3> QED BY <2>2, <2>4, <3>1
  <2> QED BY <2>3, <2>4
<1>3. /\ UserRuns /\ Len(source) < MaxWatches
      /\ kind' = Append(kind, k)
      /\ dests' = dests \union {r} /\ watches' = watches \union {r}
      /\ held' = held \union {r}
      /\ UNCHANGED <<gone, timers, pass, now, shouldExit, phase>>
  BY DEF WatchFd
<1>4. s \notin gone
  BY <1>2 DEF IsLeaving, TypeOK
<1>5. /\ fd' \in Seq(Fd) /\ Source' = Source \union {s} /\ fd'[s] = f
      /\ \A x \in Source : fd'[x] = fd[x]
      /\ Len(fd) <= Len(fd)'
  <2>1. CASE s \in Source
    BY <1>2, <1>3, <2>1, <1>1 DEF TypeOK, Source
  <2>2. CASE s \notin Source
    BY <1>2, <1>3, <2>2, <1>1, AppendIs, SMTT(30) DEF TypeOK, Source
  <2> QED BY <2>1, <2>2
<1>6. /\ refs' \in [Source' -> Nat]
      /\ \A x \in Source : x # s => refs'[x] = refs[x]
      /\ refs'[s] = IF s \in Source THEN refs[s] + 2 ELSE 3
  <2>1. CASE s \in Source
    <3>1. /\ refs \in [Source -> Nat] /\ refs' = [refs EXCEPT ![s] = @ + 2]
          /\ Source' = Source
      BY <1>1, <1>2, <1>5, <2>1 DEF TypeOK
    <3>2. refs' \in [Source -> Nat]
      BY ONLY <2>1, <3>1
    <3>3. refs'[s] = refs[s] + 2
      BY ONLY <2>1, <3>1
    <3>4. \A x \in Source : x # s => refs'[x] = refs[x]
      BY ONLY <3>1
    <3> QED BY <2>1, <3>1, <3>2, <3>3, <3>4
  <2>2. CASE s \notin Source
    <3>1. refs \in [1..Len(fd) -> Nat] /\ refs' = Append(refs, 3)
      BY <1>1, <1>2, <2>2 DEF TypeOK
    <3>2. Source' = 1..Len(fd) + 1 /\ s = Len(fd) + 1
      BY <1>1, <1>2, <1>5, <2>2
    <3>3. /\ Append(refs, 3) \in [1..Len(fd) + 1 -> Nat]
          /\ \A x \in 1..Len(fd) : Append(refs, 3)[x] = refs[x]
          /\ Append(refs, 3)[Len(fd) + 1] = 3
      <4>1. PICK n \in Nat : n = Len(fd)
        BY <1>1
      <4>2. PICK q \in [1..n -> Nat] : q = refs
        BY <3>1, <4>1
      <4>3. Append(q, 3) \in [1..n + 1 -> Nat]
        BY AppendToFunction
      <4>4. q \in Seq(Nat) /\ Len(q) = n
        OBVIOUS
      <4>5. Append(q, 3)[n + 1] = 3 /\ \A x \in 1..n : Append(q, 3)[x] = q[x]
        BY <4>4
      <4> QED BY <4>1, <4>2, <4>3, <4>5
    <3> QED BY <1>1, <2>2, <3>1, <3>2, <3>3
  <2> QED BY <2>1, <2>2
<1>7. /\ source' \in Seq(Source') /\ Len(source') = r
      /\ Registration' = Registration \union {r} /\ r \notin Registration
      /\ source'[r] = s
      /\ \A x \in Registration : source'[x] = source[x]
  <2>1. source \in Seq(Source') /\ s \in Source'
    BY <1>5 DEF TypeOK
  <2> QED BY <1>2, <1>3, <2>1, <1>1, AppendIs DEF Registration
<1>8. /\ kind' \in [Registration' -> Kind \union {"deaf"}]
      /\ \A x \in Registration : kind'[x] = kind[x]
  <2>1. kind \in [1..Len(source) -> Kind \union {"deaf"}]
    BY <1>1 DEF TypeOK
  <2>2. Registration' = 1..Len(source) + 1
    BY <1>1, <1>7
  <2>3. k \in Kind \union {"deaf"}
    OBVIOUS
  <2>4. PICK n \in Nat : n = Len(source)
    BY <1>1
  <2>5. PICK q \in [1..n -> Kind \union {"deaf"}] : q = kind
    BY <2>1, <2>4
  <2>6. Append(q, k) \in [1..n + 1 -> Kind \union {"deaf"}]
    BY <2>3, AppendToFunction
  <2>7. q \in Seq(Kind \union {"deaf"}) /\ Len(q) = n
    OBVIOUS
  <2>8. \A x \in 1..n : Append(q, k)[x] = q[x]
    BY <2>3, <2>7
  <2> QED BY <1>1, <1>3, <2>2, <2>4, <2>5, <2>6, <2>8
<1>9. r \in Nat /\ \A x \in Registration : x \in Nat /\ 0 < x /\ x < r
  BY <1>1
<1> USE DEF timers, pass
<1>10. TypeOK'
  <2>1. /\ listed' \subseteq Source' /\ polled' \subseteq listed'
        /\ gone' \subseteq Source' /\ pinned' \subseteq Source'
    BY <1>2, <1>3, <1>5 DEF TypeOK
  <2>2. /\ dests' \subseteq Registration' /\ held' \subseteq Registration'
        /\ watches' \subseteq dests' \union held'
    BY <1>2, <1>3, <1>7 DEF TypeOK
  <2>3. batch' \in Seq(Event') /\ Len(batch') <= MaxBatch
    <3>1. Event \subseteq Event'
      BY <1>5 DEF Event
    <3> QED BY <1>2, <1>3, <3>1 DEF TypeOK
  <2>4. Len(source') <= MaxWatches
    BY <1>2, <1>3, <1>7, <1>1, LoopAssumption DEF LoopAssumption
  <2> QED BY <1>2, <1>3, <1>5, <1>6, <1>7, <1>8, <2>1, <2>2, <2>3, <2>4 DEF TypeOK, Timeout
<1>11. ASSUME NEW x \in Source'
       PROVE  /\ DestsOf(x)' = IF x = s THEN DestsOf(s) \union {r} ELSE DestsOf(x)
              /\ WatchesOf(x)' = IF x = s THEN WatchesOf(s) \union {r} ELSE WatchesOf(x)
  BY <1>2, <1>3, <1>7, <1>1 DEF DestsOf, WatchesOf
<1>12. ScanIsWellFormed'
  <2>1. scan' \in [type : {"none", "ready", "hangup"}, source : 0..Len(fd'),
                   at : 0..Len(source'), next : 0..Len(source')]
    BY <1>2, <1>3, <1>5, <1>7, <1>10, <1>1 DEF ScanIsWellFormed
  <2> QED BY <1>2, <1>3, <1>5, <2>1 DEF ScanIsWellFormed
<1>13. PassIsPinned'
  BY <1>2, <1>3 DEF PassIsPinned
<1>14. RegisteredIsListed'
  <2>1. 1 \in Registration /\ r # 1
    BY <1>9, <1>1 DEF RegisteredIsListed
  <2>2. source'[1] = 1 /\ kind'[1] = "deaf" /\ 1 \notin held'
    BY <1>2, <1>3, <1>7, <1>8, <2>1 DEF RegisteredIsListed
  <2>3. \A x \in dests' : source'[x] \in listed'
    BY <1>2, <1>3, <1>7, <1>1 DEF RegisteredIsListed
  <2>4. source' # <<>>
    BY <1>7, <1>9
  <2> QED BY <1>2, <1>3, <2>2, <2>3, <2>4 DEF RegisteredIsListed
<1>15. LeavesByHangup'
  BY <1>1, <1>2, <1>3, <1>4 DEF LeavesByHangup, TypeOK
<1>16. scan.type = "hangup" => scan.source \in Source /\ scan.source # s
  BY <1>2, <1>4 DEF LeavesByHangup, TypeOK
<1>17. DestinationsHaveUsers'
  <2>1. \A x \in dests' : x = 1 \/ source'[x] \in gone' \/ x \in held' \intersect watches'
    BY <1>2, <1>3, <1>7, <1>1 DEF DestinationsHaveUsers
  <2>2. ASSUME scan.type = "hangup"
        PROVE  /\ scan.next # 0 =>
                    \A x \in DestsOf(scan.source) :
                      x >= scan.next => x \in held' \intersect watches'
               /\ \A x \in held' : source'[x] = scan.source =>
                      \/ kind'[x] = "deaf" \/ x = scan.at
                      \/ scan.next # 0 /\ x >= scan.next
    BY <1>2, <1>3, <1>7, <1>8, <1>16, <2>2, <1>1 DEF DestinationsHaveUsers, TypeOK
  <2>3. scan.type = "hangup" => DestsOf(scan.source)' = DestsOf(scan.source)
    BY <1>2, <1>3, <1>5, <1>11, <1>16
  <2> QED BY <1>2, <1>3, <2>1, <2>2, <2>3 DEF DestinationsHaveUsers
<1>18. TimeoutsAreMinded'
  BY <1>2, <1>3 DEF TimeoutsAreMinded
<1>19. SourcesAreCounted'
  <2> SUFFICES ASSUME NEW x \in Source'
               PROVE  refs'[x] = (IF x \in listed' THEN 1 ELSE 0)
                          + Cardinality(DestsOf(x)') + Cardinality(WatchesOf(x)')
                          + (IF x \in pinned' THEN 1 ELSE 0)
    BY DEF SourcesAreCounted
  <2>1. CASE x # s
    BY <1>2, <1>3, <1>5, <1>6, <1>11, <2>1 DEF SourcesAreCounted
  <2>2. CASE x = s
    <3>1. r \notin DestsOf(s) /\ r \notin WatchesOf(s)
      BY <1>7, <1>1 DEF DestsOf, WatchesOf
    <3>2. /\ Cardinality(DestsOf(x)') = Cardinality(DestsOf(s)) + 1
          /\ Cardinality(WatchesOf(x)') = Cardinality(WatchesOf(s)) + 1
      BY <1>11, <2>2, <3>1, RegistrationsAreFinite, FS_AddElement
    <3>3. Cardinality(DestsOf(s)) \in Nat /\ Cardinality(WatchesOf(s)) \in Nat
      BY RegistrationsAreFinite
    <3>4. CASE s \in Source
      BY <1>2, <1>3, <1>6, <2>2, <3>2, <3>3, <3>4 DEF SourcesAreCounted
    <3>5. CASE s \notin Source
      <4>1. DestsOf(s) = {} /\ WatchesOf(s) = {}
        BY <1>2, <3>5, <1>1 DEF DestsOf, WatchesOf
      <4>2. Cardinality(DestsOf(s)) = 0 /\ Cardinality(WatchesOf(s)) = 0
        BY <4>1, FS_EmptySet
      <4>3. s \notin pinned
        BY <1>2, <3>5 DEF TypeOK
      <4> QED BY <1>2, <1>3, <1>6, <2>2, <3>2, <3>5, <4>2, <4>3
    <3> QED BY <3>4, <3>5
  <2> QED BY <2>1, <2>2
<1>20. WalksAreValid'
  <2>1. scan.next \in DestsOf(scan.source)' \union {0}
    BY <1>2, <1>3, <1>7, <1>1 DEF WalksAreValid, DestsOf
  <2>2. polled' \subseteq {x \in Source' : refs'[x] > 0}
    <3>1. \A x \in polled : x \in Source /\ refs[x] > 0 /\ refs[x] \in Nat
      BY DEF WalksAreValid, TypeOK
    <3>2. s \in Source' /\ refs'[s] > 0
      BY <1>5, <1>6 DEF TypeOK
    <3>3. ASSUME NEW x \in polled, x # s PROVE x \in Source' /\ refs'[x] > 0
      BY <1>5, <1>6, <3>1, <3>3
    <3> QED BY <1>2, <3>2, <3>3
  <2> QED BY <1>2, <1>3, <2>1, <2>2 DEF WalksAreValid
<1>21. HeldIsWatched'
  <2>1. \A x \in held' : kind'[x] # "deaf" =>
            x \in watches' /\ x \in dests' /\ source'[x] \in polled'
    BY <1>2, <1>3, <1>7, <1>8, <1>1 DEF HeldIsWatched, TypeOK
  <2>2. ASSUME NEW x \in listed', NEW y \in listed', fd'[x] = fd'[y] PROVE x = y
    BY <1>2, <1>3, <1>5, <2>2 DEF HeldIsWatched, TypeOK
  <2> QED BY <2>1, <2>2 DEF HeldIsWatched
<1> QED BY <1>10, <1>12, <1>13, <1>14, <1>15, <1>17, <1>18, <1>19, <1>20, <1>21

LEMMA StopWatchingFdKeeps ==
  ASSUME IInv, NEW r \in held, KeepsOff(r), StopWatchingFd(r)
  PROVE  IInv'
<1> USE DEF IInv
<1> DEFINE last == DestsOf(source[r]) = {r}
<1>1. /\ Len(source) \in Nat /\ Registration = 1..Len(source)
      /\ source \in [Registration -> Source]
      /\ dests \subseteq Registration /\ watches \subseteq dests
      /\ held \subseteq Registration /\ r \in Registration
  BY Numbers DEF TypeOK, RegisteredIsListed
<1>2. /\ UserRuns /\ r \in watches
      /\ watches' = watches \ {r} /\ held' = held \ {r}
      /\ UNCHANGED <<fd, gone, source, kind, timers, pass, now, shouldExit, phase>>
      /\ UNCHANGED <<Source, Registration, Event>>
  BY DEF StopWatchingFd, Source, Registration, Event
<1> USE DEF timers, pass
<1>3. PICK s \in Source : s = source[r]
  BY <1>1
<1>4. s \in listed /\ r \in dests
  BY <1>1, <1>2, <1>3 DEF RegisteredIsListed
<1>5. /\ dests' \subseteq dests
      /\ listed' \subseteq listed /\ polled' = polled \intersect listed'
      /\ r \notin dests' => s \notin gone
      /\ s \in gone => UNCHANGED <<dests, listed, polled>>
      /\ s \notin gone => dests' = dests \ {r}
      /\ s \in listed \ listed' => s \notin gone /\ last
      /\ listed \ listed' \subseteq {s}
  BY <1>1, <1>2, <1>3, <1>4 DEF StopWatchingFd, DropDestination, TypeOK, RegisteredIsListed
<1>6. \A x \in Source : WatchesOf(x)' = IF x = s THEN WatchesOf(s) \ {r} ELSE WatchesOf(x)
  BY <1>1, <1>2, <1>3 DEF WatchesOf
<1>7. \A x \in Source : DestsOf(x)' = IF x = s /\ s \notin gone THEN DestsOf(s) \ {r}
                                      ELSE DestsOf(x)
  BY <1>1, <1>2, <1>3, <1>5 DEF DestsOf
<1>8. /\ s \in listed' => refs' = [refs EXCEPT ![s] = @ - (IF s \in gone THEN 1 ELSE 2)]
      /\ s \notin listed' => refs' = [refs EXCEPT ![s] = @ - 3]
  BY <1>1, <1>2, <1>3, <1>4 DEF StopWatchingFd, DropDestination
<1>9. /\ r \in DestsOf(s) /\ r \in WatchesOf(s)
      /\ Cardinality(DestsOf(s) \ {r}) = Cardinality(DestsOf(s)) - 1
      /\ Cardinality(WatchesOf(s) \ {r}) = Cardinality(WatchesOf(s)) - 1
      /\ Cardinality(DestsOf(s)) \in Nat /\ Cardinality(WatchesOf(s)) \in Nat
      /\ Cardinality(DestsOf(s) \ {r}) \in Nat
      /\ Cardinality(WatchesOf(s) \ {r}) \in Nat
  <2>1. r \in DestsOf(s) /\ r \in WatchesOf(s)
    BY <1>2, <1>3, <1>4 DEF DestsOf, WatchesOf
  <2> QED BY <2>1, RegistrationsAreFinite, FS_RemoveElement, FS_CardinalityType
<1>10. refs' \in [Source -> Int] /\ DOMAIN refs' = Source
  BY <1>8 DEF TypeOK
<1>11. SourcesAreCounted'
  <2> SUFFICES ASSUME NEW x \in Source
               PROVE  refs'[x] = (IF x \in listed' THEN 1 ELSE 0)
                          + Cardinality(DestsOf(x)') + Cardinality(WatchesOf(x)')
                          + (IF x \in pinned' THEN 1 ELSE 0)
    BY <1>2 DEF SourcesAreCounted
  <2>1. CASE x # s
    <3>1. refs'[x] = refs[x] /\ (x \in listed' <=> x \in listed)
      BY <1>5, <1>8, <2>1 DEF TypeOK
    <3> QED BY <1>2, <1>6, <1>7, <2>1, <3>1 DEF SourcesAreCounted
  <2>2. CASE x = s
    <3>1. refs[s] = 1 + Cardinality(DestsOf(s)) + Cardinality(WatchesOf(s))
                    + (IF s \in pinned THEN 1 ELSE 0)
      BY <1>4 DEF SourcesAreCounted
    <3>2. refs'[s] = refs[s] - (IF s \notin listed' THEN 3
                                ELSE IF s \in gone THEN 1 ELSE 2)
      BY <1>8 DEF TypeOK
    <3>3. s \notin listed' => s \notin gone
      BY <1>4, <1>5
    <3> QED BY <1>2, <1>6, <1>7, <1>9, <2>2, <3>1, <3>2, <3>3, SMTT(30)
  <2> QED BY <2>1, <2>2
<1>12. refs' \in [Source -> Nat]
  <2> SUFFICES ASSUME NEW x \in Source PROVE refs'[x] \in Nat
    BY <1>10
  <2>1. Cardinality(DestsOf(x)') \in Nat /\ Cardinality(WatchesOf(x)') \in Nat
    BY <1>6, <1>7, <1>9, RegistrationsAreFinite
  <2> QED BY <1>2, <1>11, <2>1 DEF SourcesAreCounted
<1>13. TypeOK'
  <2>1. listed' \subseteq Source /\ polled' \subseteq listed'
    BY <1>5 DEF TypeOK
  <2>2. /\ dests' \subseteq Registration /\ held' \subseteq Registration
        /\ watches' \subseteq dests' \union held'
    BY <1>1, <1>2, <1>5
  <2> QED BY <1>2, <1>12, <2>1, <2>2 DEF TypeOK, Timeout
<1>14. ScanIsWellFormed'
  BY <1>2 DEF ScanIsWellFormed
<1>15. PassIsPinned'
  BY <1>2 DEF PassIsPinned
<1>16. RegisteredIsListed'
  <2>1. listed' \subseteq polled'
    BY <1>5 DEF RegisteredIsListed
  <2>2. watches' \subseteq dests'
    BY <1>1, <1>2, <1>5
  <2>3. ASSUME NEW x \in dests' PROVE source[x] \in listed'
    <3>1. x \in dests /\ source[x] \in listed
      BY <1>5 DEF RegisteredIsListed
    <3>2. source[x] = s /\ s \notin gone => x # r /\ ~last
      BY <1>3, <1>5, <3>1 DEF DestsOf
    <3> QED BY <1>5, <3>1, <3>2
  <2> QED BY <1>2, <2>1, <2>2, <2>3 DEF RegisteredIsListed
<1>17. LeavesByHangup'
  BY <1>2, <1>5 DEF LeavesByHangup
<1>18. scan.type = "hangup" => scan.source \in Source /\ scan.source \in gone
  BY DEF LeavesByHangup, TypeOK
<1>19. scan.next # 0 => scan.next # r
  <2>1. scan.next # 0 => source[scan.next] = scan.source
    BY DEF WalksAreValid, DestsOf
  <2>2. scan.next \in Nat /\ scan.at \in Nat /\ r \in Nat
    BY <1>1 DEF ScanIsWellFormed
  <2> QED BY <2>1, <2>2 DEF KeepsOff, ScanIsWellFormed
<1>20. DestinationsHaveUsers'
  <2>1. \A x \in dests' : x = 1 \/ source[x] \in gone \/ x \in held' \intersect watches'
    BY <1>1, <1>2, <1>3, <1>5 DEF DestinationsHaveUsers
  <2>2. ASSUME scan.type = "hangup"
        PROVE  /\ scan.next # 0 =>
                    \A x \in DestsOf(scan.source)' :
                      x >= scan.next => x \in held' \intersect watches'
               /\ \A x \in held' : source[x] = scan.source =>
                      \/ kind[x] = "deaf" \/ x = scan.at
                      \/ scan.next # 0 /\ x >= scan.next
    <3>1. DestsOf(scan.source)' \subseteq DestsOf(scan.source)
      BY <1>2, <1>5 DEF DestsOf
    <3>2. ASSUME scan.next # 0, NEW x \in DestsOf(scan.source), x >= scan.next
          PROVE  x # r
      <4>1. scan.next > scan.at /\ scan.next \in Nat /\ scan.at \in Nat /\ r \in Nat
        BY <1>1, <3>2 DEF ScanIsWellFormed
      <4>2. r = x => r <= scan.at
        BY DEF KeepsOff, DestsOf
      <4> QED BY <3>2, <4>1, <4>2
    <3> QED BY <1>2, <2>2, <3>1, <3>2 DEF DestinationsHaveUsers
  <2> QED BY <1>2, <2>1, <2>2 DEF DestinationsHaveUsers
<1>21. TimeoutsAreMinded'
  BY <1>2 DEF TimeoutsAreMinded
<1>22. WalksAreValid'
  <2>1. scan.next \in DestsOf(scan.source)' \union {0}
    BY <1>2, <1>5, <1>19 DEF WalksAreValid, DestsOf
  <2>2. ASSUME NEW x \in polled' PROVE x \in Source /\ refs'[x] > 0
    <3>1. x \in Source /\ x \in listed'
      BY <1>5, <1>13 DEF TypeOK
    <3>2. Cardinality(DestsOf(x)') \in Nat /\ Cardinality(WatchesOf(x)') \in Nat
      BY <1>6, <1>7, <1>9, <3>1, RegistrationsAreFinite
    <3> QED BY <1>2, <1>11, <3>1, <3>2 DEF SourcesAreCounted
  <2>3. scan.type = "hangup" => scan.source \in listed'
    BY <1>5, <1>18 DEF WalksAreValid
  <2> QED BY <1>2, <2>1, <2>2, <2>3 DEF WalksAreValid
<1>23. HeldIsWatched'
  <2>1. ASSUME NEW x \in held', kind[x] # "deaf"
        PROVE  x \in watches' /\ x \in dests' /\ source[x] \in polled'
    <3>1. x \in held /\ x # r /\ x \in watches /\ x \in dests
      BY <1>2, <2>1 DEF HeldIsWatched
    <3>2. x \in dests'
      BY <1>5, <3>1
    <3> QED BY <1>2, <1>16, <3>1, <3>2 DEF RegisteredIsListed
  <2>2. \A x, y \in listed' : fd[x] = fd[y] => x = y
    BY <1>5 DEF HeldIsWatched
  <2> QED BY <1>2, <2>1, <2>2 DEF HeldIsWatched
<1> QED BY <1>11, <1>13, <1>14, <1>15, <1>16, <1>17, <1>20, <1>21, <1>22, <1>23

(* What only depends on the registrations and the walk over them.           *)
SourcesAreSound ==
    /\ RegisteredIsListed
    /\ LeavesByHangup
    /\ DestinationsHaveUsers
    /\ SourcesAreCounted
    /\ HeldIsWatched

registry == <<fd, listed, polled, gone, source, kind, dests, watches, held>>

LEMMA RegistryKeeps ==
  ASSUME IInv, UNCHANGED <<registry, scan>>
  PROVE  /\ UNCHANGED <<Source, Registration, Event>>
         /\ \A s : DestsOf(s)' = DestsOf(s) /\ WatchesOf(s)' = WatchesOf(s)
         /\ RegisteredIsListed' /\ LeavesByHangup'
         /\ DestinationsHaveUsers' /\ HeldIsWatched'
<1> USE DEF IInv, registry
<1>1. UNCHANGED <<Source, Registration, Event>>
  BY DEF Source, Registration, Event
<1>2. \A s : DestsOf(s)' = DestsOf(s) /\ WatchesOf(s)' = WatchesOf(s)
  BY DEF DestsOf, WatchesOf
<1>3. RegisteredIsListed' /\ LeavesByHangup'
  BY <1>1 DEF RegisteredIsListed, LeavesByHangup
<1>4. DestinationsHaveUsers'
  BY <1>1, <1>2 DEF DestinationsHaveUsers
<1>5. HeldIsWatched'
  BY <1>1 DEF HeldIsWatched
<1> QED BY <1>1, <1>2, <1>3, <1>4, <1>5

LEMMA SourcesKeep ==
  ASSUME IInv, UNCHANGED <<sources, pinned, scan>>
  PROVE  /\ SourcesAreSound'
         /\ UNCHANGED <<Source, Registration, Event>>
         /\ \A s \in Source : DestsOf(s)' = DestsOf(s)
         /\ scan.next \in DestsOf(scan.source)' \union {0}
         /\ scan # NoScan => scan.source \in pinned
         /\ scan.type = "hangup" => scan.source \in listed
         /\ polled \subseteq {s \in Source : refs[s] > 0}
<1>1. UNCHANGED <<registry, scan, refs, pinned>>
  BY DEF registry, sources
<1>2. SourcesAreCounted'
  BY <1>1, RegistryKeeps DEF SourcesAreCounted, IInv, registry
<1> QED BY <1>1, <1>2, RegistryKeeps DEF SourcesAreSound, WalksAreValid, IInv

LEMMA WatchForTimeoutKeeps ==
  ASSUME IInv, NEW o \in Owner, NEW d \in now + 1..MaxTime + 1, WatchForTimeout(o, d)
  PROVE  IInv'
<1> USE LoopAssumption DEF IInv, LoopAssumption
<1>1. PICK t : t = [id |-> made + 1, owner |-> o, deadline |-> d]
  OBVIOUS
<1>2. /\ made \in Nat /\ made < MaxTimeouts /\ made' = made + 1
      /\ timeouts' = timeouts \union {t} /\ wakeup' = Earlier(wakeup, d)
      /\ UserRuns
      /\ UNCHANGED <<sources, pass, now, shouldExit, phase>>
  BY <1>1 DEF WatchForTimeout, TypeOK
<1> USE DEF pass
<1>3. SourcesAreSound' /\ UNCHANGED <<Source, Registration, Event>>
  BY <1>2, SourcesKeep
<1>4. /\ t \in Timeout /\ d \in Nat /\ d \in 0..MaxTime + 1
      /\ t.deadline = d /\ t.id = made + 1
  BY <1>1, <1>2 DEF Timeout, TypeOK
<1>5. /\ wakeup' \in {wakeup, d} /\ wakeup' # NoWakeup /\ wakeup' <= d
      /\ wakeup # NoWakeup => wakeup' <= wakeup
  BY <1>2, <1>4 DEF Earlier, TypeOK, NoWakeup
<1>6. TypeOK'
  <2>1. timeouts' \subseteq Timeout
    BY <1>2, <1>4 DEF TypeOK
  <2>2. wakeup' \in {NoWakeup} \union 0..MaxTime + 1 /\ made' \in 0..MaxTimeouts
    BY <1>2, <1>4, <1>5 DEF TypeOK
  <2> QED BY <1>2, <1>3, <2>1, <2>2 DEF TypeOK, sources
<1>7. ScanIsWellFormed' /\ PassIsPinned'
  BY <1>2, <1>3 DEF ScanIsWellFormed, PassIsPinned, sources
<1>8. TimeoutsAreMinded'
  <2>1. \A u \in timeouts' : u.id <= made'
    BY <1>2, <1>4, SMTT(30) DEF TimeoutsAreMinded, TypeOK, Timeout
  <2>2. \A u, v \in timeouts' : u.id = v.id => u = v
    <3>1. \A u \in timeouts : u.id # t.id /\ u.id \in Nat
      BY <1>2, <1>4 DEF TimeoutsAreMinded, TypeOK, Timeout
    <3>2. \A u, v \in timeouts : u.id = v.id => u = v
      BY DEF TimeoutsAreMinded
    <3>3. timeouts' = timeouts \union {t}
      BY <1>2
    <3> QED BY ONLY <3>1, <3>2, <3>3
  <2>3. wakeup' \in {u.deadline : u \in timeouts'} \union {NoWakeup} \union 0..start'
    <3>1. t \in timeouts' /\ timeouts \subseteq timeouts'
      BY <1>2
    <3>2. d \in {u.deadline : u \in timeouts'}
      BY <1>4, <3>1
    <3>3. wakeup \in {u.deadline : u \in timeouts'} \union {NoWakeup} \union 0..start
      BY <3>1 DEF TimeoutsAreMinded
    <3> QED BY <1>2, <1>5, <3>2, <3>3
  <2>4. ASSUME phase' # "timing", NEW u \in timeouts'
        PROVE  wakeup' # NoWakeup /\ wakeup' <= u.deadline
    <3>1. CASE u = t
      BY <1>4, <1>5, <3>1
    <3>2. CASE u \in timeouts
      <4>1. wakeup # NoWakeup /\ wakeup <= u.deadline
        <5>1. phase # "timing" /\ phase # "timeouts"
          BY <1>2, <2>4 DEF UserRuns
        <5> QED BY <3>2, <5>1 DEF TimeoutsAreMinded
      <4>2. wakeup \in Int /\ wakeup' \in Int /\ u.deadline \in Int /\ wakeup' <= wakeup
        <5>1. u.deadline \in Nat
          BY <3>2 DEF TypeOK, Timeout
        <5>2. wakeup \in Int /\ d \in Int
          BY <1>4 DEF TypeOK, NoWakeup
        <5> QED BY <1>5, <4>1, <5>1, <5>2
      <4> QED BY <1>5, <4>1, <4>2
    <3> QED BY <1>2, <3>1, <3>2
  <2> QED BY <2>1, <2>2, <2>3, <2>4 DEF TimeoutsAreMinded
<1>9. WalksAreValid'
  BY <1>2, SourcesKeep DEF WalksAreValid, sources, UserRuns
<1> QED BY <1>3, <1>6, <1>7, <1>8, <1>9 DEF SourcesAreSound

LEMMA StopWatchingForTimeoutKeeps ==
  ASSUME IInv, NEW o \in Owner, StopWatchingForTimeout(o)
  PROVE  IInv'
<1> USE DEF IInv
<1>1. /\ timeouts' = {t \in timeouts : t.owner # o}
      /\ wakeup' = IF timeouts' = {} THEN NoWakeup
                   ELSE Smallest({t.deadline : t \in timeouts'})
      /\ UserRuns
      /\ UNCHANGED <<sources, made, pass, now, shouldExit, phase>>
  BY DEF StopWatchingForTimeout
<1> USE DEF pass
<1>2. SourcesAreSound' /\ UNCHANGED <<Source, Registration, Event>>
  BY <1>1, SourcesKeep
<1>3. timeouts' # {} => /\ wakeup' \in {t.deadline : t \in timeouts'}
                        /\ \A t \in timeouts' : wakeup' <= t.deadline
  <2> SUFFICES ASSUME timeouts' # {}
               PROVE  /\ wakeup' \in {t.deadline : t \in timeouts'}
                      /\ \A t \in timeouts' : wakeup' <= t.deadline
    OBVIOUS
  <2>1. PICK S : S = {t.deadline : t \in timeouts'}
    OBVIOUS
  <2>2. S \in SUBSET Nat
    BY <1>1, <2>1, TimeoutsAreNumbered
  <2>3. S # {} /\ wakeup' = Smallest(S)
    BY <1>1, <2>1
  <2>4. wakeup' \in S /\ \A m \in S : wakeup' <= m
    BY <2>2, <2>3, SmallestIs
  <2> QED BY <2>1, <2>4
<1>4. timeouts' = {} => wakeup' = NoWakeup
  BY <1>1
<1>5. timeouts' \subseteq timeouts
  BY <1>1
<1>6. /\ wakeup' \in {NoWakeup} \union 0..MaxTime + 1
      /\ timeouts' # {} => wakeup' # NoWakeup
  <2>1. \A t \in timeouts : t.deadline \in 0..MaxTime + 1 /\ t.deadline # NoWakeup
    BY DEF TypeOK, Timeout, NoWakeup
  <2> QED BY <1>3, <1>4, <1>5, <2>1
<1>7. TypeOK'
  <2>1. timeouts' \subseteq Timeout
    BY <1>5 DEF TypeOK
  <2> QED BY <1>1, <1>2, <1>6, <2>1 DEF TypeOK, sources
<1>8. ScanIsWellFormed' /\ PassIsPinned'
  BY <1>1, <1>2 DEF ScanIsWellFormed, PassIsPinned, sources
<1>9. TimeoutsAreMinded'
  BY <1>1, <1>3, <1>4, <1>5, <1>6 DEF TimeoutsAreMinded
<1>10. WalksAreValid'
  BY <1>1, SourcesKeep DEF WalksAreValid, sources, UserRuns
<1> QED BY <1>2, <1>7, <1>8, <1>9, <1>10 DEF SourcesAreSound

LEMMA ExitKeeps == ASSUME IInv, Exit PROVE IInv'
<1> USE DEF IInv, timers, pass
<1>1. UNCHANGED <<sources, timers, pass, now, phase>> /\ shouldExit' = TRUE
  BY DEF Exit
<1>2. SourcesAreSound' /\ UNCHANGED <<Source, Registration, Event>>
  BY <1>1, SourcesKeep
<1>3. TypeOK'
  BY <1>1, <1>2 DEF TypeOK, sources, Timeout
<1>4. ScanIsWellFormed' /\ PassIsPinned' /\ TimeoutsAreMinded'
  BY <1>1, <1>2 DEF ScanIsWellFormed, PassIsPinned, TimeoutsAreMinded, sources
<1>5. WalksAreValid'
  BY <1>1, SourcesKeep DEF WalksAreValid, sources
<1> QED BY <1>2, <1>3, <1>4, <1>5 DEF SourcesAreSound

-----------------------------------------------------------------------------
(* The loop, its waits and its timeouts.                                    *)

LEMMA RunKeeps == ASSUME IInv, Run PROVE IInv'
<1> USE DEF IInv, timers, pass
<1>1. /\ UNCHANGED <<sources, timers, pass, now, shouldExit>>
      /\ phase = "start" /\ phase' \in {"exited", "wait"}
  BY DEF Run
<1>2. SourcesAreSound' /\ UNCHANGED <<Source, Registration, Event>>
  BY <1>1, SourcesKeep
<1>3. TypeOK'
  BY <1>1, <1>2 DEF TypeOK, sources, Timeout
<1>4. ScanIsWellFormed' /\ PassIsPinned' /\ TimeoutsAreMinded'
  BY <1>1, <1>2 DEF ScanIsWellFormed, PassIsPinned, TimeoutsAreMinded, sources
<1>5. WalksAreValid'
  BY <1>1, SourcesKeep DEF WalksAreValid, sources
<1> QED BY <1>2, <1>3, <1>4, <1>5 DEF SourcesAreSound

LEMMA TickKeeps == ASSUME IInv, Tick PROVE IInv'
<1> USE LoopAssumption DEF IInv, timers, pass, LoopAssumption
<1>1. /\ UNCHANGED <<sources, timers, pass, shouldExit, phase>>
      /\ now' = now + 1 /\ now < MaxTime
  BY DEF Tick
<1>2. SourcesAreSound' /\ UNCHANGED <<Source, Registration, Event>>
  BY <1>1, SourcesKeep
<1>3. TypeOK'
  BY <1>1, <1>2 DEF TypeOK, sources, Timeout
<1>4. ScanIsWellFormed' /\ PassIsPinned' /\ TimeoutsAreMinded'
  BY <1>1, <1>2 DEF ScanIsWellFormed, PassIsPinned, TimeoutsAreMinded, sources
<1>5. WalksAreValid'
  BY <1>1, SourcesKeep DEF WalksAreValid, sources
<1> QED BY <1>2, <1>3, <1>4, <1>5 DEF SourcesAreSound

LEMMA WokenKeeps ==
  ASSUME IInv, NEW events \in Seq(Event), Len(events) <= MaxBatch,
         \A i \in DOMAIN events : events[i].type = "hangup" => events[i].source # 1,
         interrupted' \in BOOLEAN, interrupted' => events = <<>>,
         Woken(events)
  PROVE  IInv'
<1> USE DEF IInv
<1> DEFINE ids == {t.id : t \in timeouts}
<1>1. /\ phase = "wait" /\ phase' = "timeouts" /\ batch' = events
      /\ pinned' = {events[i].source : i \in DOMAIN events}
      /\ refs' = [s \in Source |-> refs[s] + (IF s \in pinned' THEN 1 ELSE 0)]
      /\ cursor' = After(ids, 0) /\ start' = now /\ wakeup' = NoWakeup
      /\ UNCHANGED <<registry, scan, timeouts, made, now, shouldExit>>
  BY DEF Woken, registry
<1>2. /\ UNCHANGED <<Source, Registration, Event>>
      /\ \A s : DestsOf(s)' = DestsOf(s) /\ WatchesOf(s)' = WatchesOf(s)
      /\ RegisteredIsListed' /\ LeavesByHangup'
      /\ DestinationsHaveUsers' /\ HeldIsWatched'
  BY <1>1, RegistryKeeps
<1>3. pinned = {} /\ scan = NoScan /\ scan' = NoScan
  BY <1>1 DEF PassIsPinned, ScanIsWellFormed
<1>4. /\ cursor' \in ids \union {0} /\ cursor' \in 0..MaxTimeouts
      /\ \A t \in timeouts : cursor' # 0 /\ cursor' <= t.id
  <2>1. \A t \in timeouts : t.id \in 1..MaxTimeouts
    BY DEF TypeOK, Timeout
  <2>2. PICK S : S = ids
    OBVIOUS
  <2>3. S \in SUBSET Nat /\ 0 \notin S
    BY <2>2, TimeoutsAreNumbered
  <2>4. /\ cursor' \in S \union {0}
        /\ \A m \in S : m > 0 => cursor' # 0 /\ cursor' <= m
    BY <1>1, <2>2, <2>3, AfterIs
  <2>5. MaxTimeouts \in Nat
    BY LoopAssumption DEF LoopAssumption
  <2>6. \A m \in S : m \in 1..MaxTimeouts
    BY <2>1, <2>2
  <2>7. \A t \in timeouts : t.id \in S /\ t.id > 0
    BY <2>1, <2>2
  <2>8. cursor' \in 0..MaxTimeouts
    BY <2>4, <2>5, <2>6
  <2> QED BY <2>2, <2>4, <2>7, <2>8
<1>5. pinned' \subseteq Source
  <2>1. \A i \in DOMAIN events : events[i] \in Event
    OBVIOUS
  <2> QED BY <1>1, <2>1 DEF Event
<1>6. TypeOK'
  <2>1. refs' \in [Source -> Nat]
    BY <1>1 DEF TypeOK
  <2>2. wakeup' \in {NoWakeup} \union 0..MaxTime + 1
    BY <1>1
  <2>3. batch' \in Seq(Event) /\ Len(batch') <= MaxBatch
    BY <1>1
  <2>4. UNCHANGED registry /\ timeouts' = timeouts /\ made' = made /\ now' = now
        /\ shouldExit' = shouldExit /\ scan' = scan /\ start' = now
        /\ phase' = "timeouts"
    BY <1>1
  <2> QED BY <1>2, <1>4, <1>5, <2>1, <2>2, <2>3, <2>4 DEF TypeOK, registry
<1>7. ScanIsWellFormed'
  <2>1. scan' \in [type : {"none", "ready", "hangup"}, source : 0..Len(fd'),
                   at : 0..Len(source'), next : 0..Len(source')]
    BY <1>1 DEF ScanIsWellFormed, registry
  <2> QED BY <1>1, <1>3, <2>1 DEF ScanIsWellFormed, NoScan
<1>8. PassIsPinned'
  BY <1>1 DEF PassIsPinned
<1>9. TimeoutsAreMinded'
  <2>1. \A t \in timeouts' : cursor' # 0 /\ t.id >= cursor'
    <3>1. \A t \in timeouts : t.id \in Nat
      BY DEF TypeOK, Timeout
    <3> QED BY <1>1, <1>4, <3>1
  <2> QED BY <1>1, <2>1 DEF TimeoutsAreMinded
<1>10. SourcesAreCounted'
  <2> SUFFICES ASSUME NEW s \in Source
               PROVE  refs'[s] = (IF s \in listed' THEN 1 ELSE 0)
                          + Cardinality(DestsOf(s)') + Cardinality(WatchesOf(s)')
                          + (IF s \in pinned' THEN 1 ELSE 0)
    BY <1>2 DEF SourcesAreCounted
  <2>1. refs[s] = (IF s \in listed THEN 1 ELSE 0)
                  + Cardinality(DestsOf(s)) + Cardinality(WatchesOf(s))
    BY <1>3, RegistrationsAreFinite DEF SourcesAreCounted
  <2>2. refs'[s] = refs[s] + (IF s \in pinned' THEN 1 ELSE 0)
    BY <1>1
  <2>3. listed' = listed
    BY <1>1 DEF registry
  <2> QED BY <1>2, <2>1, <2>2, <2>3
<1>11. WalksAreValid'
  <2>1. polled' \subseteq {s \in Source : refs'[s] > 0}
    <3>1. \A s \in polled : s \in Source /\ refs[s] > 0 /\ refs[s] \in Nat
      BY DEF WalksAreValid, TypeOK
    <3>2. polled' = polled
      BY <1>1 DEF registry
    <3> QED BY <1>1, <3>1, <3>2
  <2>2. scan'.next = 0 /\ scan'.type = "none"
    BY <1>3 DEF NoScan
  <2>3. cursor' \in {t.id : t \in timeouts'} \union {0}
    BY <1>1, <1>4
  <2> QED BY <1>2, <1>3, <2>1, <2>2, <2>3 DEF WalksAreValid
<1> QED BY <1>2, <1>6, <1>7, <1>8, <1>9, <1>10, <1>11

LEMMA BatchesAreEvents ==
  ASSUME TypeOK, NEW b \in Batches
  PROVE  /\ b \in Seq(Event) /\ Len(b) <= MaxBatch
         /\ \A i \in DOMAIN b : b[i].type = "hangup" => b[i].source # 1
<1> DEFINE possible == {e \in Event :
            /\ e.source \in polled
            /\ IF e.type = "hangup" THEN e.source # 1
               ELSE \E r \in DestsOf(e.source) : kind[r] # "closer"}
<1>1. PICK n \in 1..MaxBatch : b \in [1..n -> possible]
  BY DEF Batches
<1>2. n \in Nat /\ n <= MaxBatch
  BY LoopAssumption DEF LoopAssumption
<1>3. b \in [1..n -> Event] /\ \A i \in 1..n : b[i] \in possible
  BY <1>1
<1> QED BY <1>2, <1>3

LEMMA WaitKeeps ==
  ASSUME IInv,
         \/ \E b \in Batches : WaitReturns(b)
         \/ WaitTimesOut \/ WaitInterrupted
  PROVE  IInv'
<1>1. TypeOK /\ interrupted \in BOOLEAN
  BY DEF IInv, TypeOK
<1>2. ASSUME NEW b \in Batches, WaitReturns(b) PROVE IInv'
  BY <1>1, <1>2, BatchesAreEvents, WokenKeeps DEF WaitReturns
<1>3. <<>> \in Seq(Event) /\ Len(<<>>) <= MaxBatch /\ DOMAIN <<>> = {}
  BY LoopAssumption DEF LoopAssumption
<1>4. CASE WaitTimesOut
  BY <1>1, <1>3, <1>4, WokenKeeps DEF WaitTimesOut
<1>5. CASE WaitInterrupted
  BY <1>1, <1>3, <1>5, WokenKeeps DEF WaitInterrupted
<1> QED BY <1>2, <1>4, <1>5

(* A walk over the timeouts is at one of them, the only one of its number.  *)
LEMMA CurrentIs ==
  ASSUME IInv, phase = "timeouts", cursor # 0
  PROVE  /\ CurrentTimeout \in timeouts /\ CurrentTimeout.id = cursor
         /\ \A t \in timeouts : t.id = cursor => t = CurrentTimeout
<1>1. \E t \in timeouts : t.id = cursor
  BY DEF IInv, WalksAreValid
<1>2. CurrentTimeout \in timeouts /\ CurrentTimeout.id = cursor
  BY <1>1 DEF CurrentTimeout
<1> QED BY <1>2 DEF IInv, TimeoutsAreMinded

LEMMA AfterTimeoutIs ==
  ASSUME TypeOK, NEW n \in Nat
  PROVE  LET c == After({t.id : t \in timeouts}, n)
         IN  /\ c \in {t.id : t \in timeouts} \union {0}
             /\ c \in 0..MaxTimeouts
             /\ \A t \in timeouts : t.id > n => c # 0 /\ t.id >= c
<1>1. PICK S : S = {t.id : t \in timeouts}
  OBVIOUS
<1>2. \A t \in timeouts : t.id \in S /\ t.id \in 1..MaxTimeouts
  BY <1>1 DEF TypeOK, Timeout
<1>3. \A m \in S : m \in 1..MaxTimeouts
  BY <1>1, <1>2
<1>4. S \in SUBSET Nat /\ 0 \notin S
  BY <1>1, TimeoutsAreNumbered
<1>5. PICK c : c = After(S, n)
  OBVIOUS
<1>6. /\ c \in S \union {0} /\ c \in Nat
      /\ \A m \in S : m > n => c # 0 /\ c <= m
  BY <1>4, <1>5, AfterIs
<1>7. c \in 0..MaxTimeouts
  BY <1>3, <1>6, LoopAssumption DEF LoopAssumption
<1>8. \A t \in timeouts : t.id > n => c # 0 /\ t.id >= c
  BY <1>2, <1>6
<1> QED BY <1>1, <1>5, <1>6, <1>7, <1>8

LEMMA RunTimeoutKeeps == ASSUME IInv, RunTimeout PROVE IInv'
<1> USE DEF IInv, pass
<1>1. /\ phase = "timeouts" /\ cursor # 0 /\ CurrentTimeout.deadline <= start
      /\ timeouts' = timeouts \ {CurrentTimeout} /\ phase' = "timing"
      /\ UNCHANGED <<sources, made, wakeup, pass, now, shouldExit>>
  BY DEF RunTimeout
<1>2. SourcesAreSound' /\ UNCHANGED <<Source, Registration, Event>>
  BY <1>1, SourcesKeep
<1>3. timeouts' \subseteq timeouts
  BY <1>1
<1>4. TypeOK'
  <2>1. timeouts' \subseteq Timeout
    BY <1>3 DEF TypeOK
  <2> QED BY <1>1, <1>2, <2>1 DEF TypeOK, sources
<1>5. ScanIsWellFormed' /\ PassIsPinned'
  BY <1>1, <1>2 DEF ScanIsWellFormed, PassIsPinned, sources
<1>6. TimeoutsAreMinded'
  <2>1. wakeup \in {t.deadline : t \in timeouts'} \union {NoWakeup} \union 0..start
    <3>1. PICK c : c = CurrentTimeout
      OBVIOUS
    <3>2. c \in timeouts /\ c.deadline \in Nat /\ start \in Nat
      BY <1>1, <3>1, CurrentIs DEF TypeOK, Timeout
    <3>3. c.deadline \in 0..start
      BY <1>1, <3>1, <3>2
    <3> QED BY <1>1, <3>1, <3>3 DEF TimeoutsAreMinded
  <2> QED BY <1>1, <1>3, <2>1 DEF TimeoutsAreMinded
<1>7. WalksAreValid'
  BY <1>1, SourcesKeep DEF WalksAreValid, sources
<1> QED BY <1>2, <1>4, <1>5, <1>6, <1>7 DEF SourcesAreSound

LEMMA SkipTimeoutKeeps == ASSUME IInv, SkipTimeout PROVE IInv'
<1> USE DEF IInv
<1>1. PICK c : c = CurrentTimeout
  OBVIOUS
<1>2. /\ phase = "timeouts" /\ cursor # 0 /\ c.deadline > start
      /\ wakeup' = Earlier(wakeup, c.deadline)
      /\ cursor' = After({t.id : t \in timeouts}, cursor)
      /\ UNCHANGED <<sources, timeouts, made, batch, pinned, scan, start,
                     interrupted, now, shouldExit, phase>>
  BY <1>1 DEF SkipTimeout
<1>3. SourcesAreSound' /\ UNCHANGED <<Source, Registration, Event>>
  BY <1>2, SourcesKeep
<1>4. /\ c \in timeouts /\ c.id = cursor /\ c.deadline \in 0..MaxTime + 1
      /\ \A t \in timeouts : t.id = cursor => t = c
      /\ \A t \in timeouts : t.id \in Nat /\ t.deadline \in Nat
      /\ cursor \in Nat
  BY <1>1, <1>2, CurrentIs DEF TypeOK, Timeout
<1>5. /\ cursor' \in {t.id : t \in timeouts} \union {0}
      /\ cursor' \in 0..MaxTimeouts
      /\ \A t \in timeouts : t.id > cursor => cursor' # 0 /\ t.id >= cursor'
  BY <1>2, <1>4, AfterTimeoutIs
<1>6. /\ wakeup' \in {wakeup, c.deadline} /\ wakeup' # NoWakeup
      /\ wakeup' <= c.deadline /\ wakeup' \in Int
      /\ wakeup # NoWakeup => wakeup' <= wakeup
  BY <1>2, <1>4 DEF Earlier, TypeOK, NoWakeup
<1>7. TypeOK'
  <2>1. wakeup' \in {NoWakeup} \union 0..MaxTime + 1
    BY <1>4, <1>6 DEF TypeOK
  <2> QED BY <1>2, <1>3, <1>5, <2>1 DEF TypeOK, sources
<1>8. ScanIsWellFormed' /\ PassIsPinned'
  BY <1>2, <1>3 DEF ScanIsWellFormed, PassIsPinned, sources
<1>9. TimeoutsAreMinded'
  <2>1. wakeup' \in {t.deadline : t \in timeouts'} \union {NoWakeup} \union 0..start'
    <3>1. c.deadline \in {t.deadline : t \in timeouts'}
      BY <1>2, <1>4
    <3> QED BY <1>2, <1>6, <3>1 DEF TimeoutsAreMinded
  <2>2. ASSUME NEW t \in timeouts
        PROVE  \/ cursor' # 0 /\ t.id >= cursor'
               \/ wakeup' <= t.deadline
    <3>1. CASE t.id > cursor
      BY <1>5, <3>1
    <3>2. CASE t.id = cursor
      BY <1>4, <1>6, <3>2
    <3>3. CASE t.id < cursor
      <4>1. wakeup # NoWakeup /\ wakeup <= t.deadline
        BY <1>2, <1>4, <3>3 DEF TimeoutsAreMinded
      <4>2. wakeup \in Int
        BY DEF TypeOK, NoWakeup
      <4> QED BY <1>4, <1>6, <4>1, <4>2
    <3> QED BY <1>4, <3>1, <3>2, <3>3
  <2> QED BY <1>2, <1>6, <2>1, <2>2 DEF TimeoutsAreMinded
<1>10. WalksAreValid'
  <2>1. phase' = "timeouts" => cursor' \in {t.id : t \in timeouts'} \union {0}
    BY <1>2, <1>5
  <2> QED BY <1>2, <2>1, SourcesKeep DEF WalksAreValid, sources
<1> QED BY <1>3, <1>7, <1>8, <1>9, <1>10 DEF SourcesAreSound

LEMMA TimeoutReturnsKeeps == ASSUME IInv, TimeoutReturns PROVE IInv'
<1> USE DEF IInv, timers
<1>1. /\ phase = "timing" /\ phase' = "timeouts"
      /\ cursor' = After({t.id : t \in timeouts}, 0)
      /\ UNCHANGED <<sources, timers, batch, pinned, scan, start, interrupted,
                     now, shouldExit>>
  BY DEF TimeoutReturns, NextAfterHandler
<1>2. SourcesAreSound' /\ UNCHANGED <<Source, Registration, Event>>
  BY <1>1, SourcesKeep
<1>3. /\ cursor' \in {t.id : t \in timeouts} \union {0}
      /\ cursor' \in 0..MaxTimeouts
      /\ \A t \in timeouts : t.id > 0 => cursor' # 0 /\ t.id >= cursor'
  BY <1>1, AfterTimeoutIs
<1>4. \A t \in timeouts : t.id > 0
  BY DEF TypeOK, Timeout
<1>5. TypeOK'
  BY <1>1, <1>2, <1>3 DEF TypeOK, sources
<1>6. ScanIsWellFormed' /\ PassIsPinned'
  BY <1>1, <1>2 DEF ScanIsWellFormed, PassIsPinned, sources
<1>7. TimeoutsAreMinded'
  BY <1>1, <1>3, <1>4 DEF TimeoutsAreMinded
<1>8. WalksAreValid'
  <2>1. cursor' \in {t.id : t \in timeouts'} \union {0}
    BY <1>1, <1>3
  <2> QED BY <1>1, <2>1, SourcesKeep DEF WalksAreValid, sources
<1> QED BY <1>2, <1>5, <1>6, <1>7, <1>8 DEF SourcesAreSound

LEMMA EndTimeoutsKeeps == ASSUME IInv, EndTimeouts PROVE IInv'
<1> USE DEF IInv, timers, pass
<1>1. /\ phase = "timeouts" /\ cursor = 0
      /\ phase' = IF interrupted THEN "wait" ELSE "events"
      /\ UNCHANGED <<sources, timers, pass, now, shouldExit>>
  BY DEF EndTimeouts
<1>2. SourcesAreSound' /\ UNCHANGED <<Source, Registration, Event>>
  BY <1>1, SourcesKeep
<1>3. TypeOK'
  BY <1>1, <1>2 DEF TypeOK, sources
<1>4. ScanIsWellFormed' /\ PassIsPinned'
  BY <1>1, <1>2 DEF ScanIsWellFormed, PassIsPinned, sources
<1>5. TimeoutsAreMinded'
  BY <1>1 DEF TimeoutsAreMinded
<1>6. WalksAreValid'
  BY <1>1, SourcesKeep DEF WalksAreValid, sources
<1> QED BY <1>2, <1>3, <1>4, <1>5, <1>6 DEF SourcesAreSound

-----------------------------------------------------------------------------
(* The loop and the events of a pass.                                       *)

LEMMA HeadIs ==
  ASSUME IInv, batch # <<>>
  PROVE  /\ Head(batch) \in Event /\ Head(batch).source \in pinned
         /\ Head(batch).type = "hangup" => Head(batch).source # 1
<1>1. 1 \in DOMAIN batch /\ Head(batch) = batch[1] /\ batch[1] \in Event
  BY DEF IInv, TypeOK
<1> QED BY <1>1 DEF IInv, PassIsPinned

LEMMA RestIs ==
  ASSUME IInv, batch # <<>>
  PROVE  /\ Rest \in Seq(Event) /\ Len(Rest) <= MaxBatch
         /\ \A i \in DOMAIN Rest : /\ Rest[i].source \in pinned
                                   /\ Rest[i].type = "hangup" => Rest[i].source # 1
<1>1. /\ batch \in Seq(Event) /\ Len(batch) \in Nat /\ Len(batch) <= MaxBatch
      /\ \A i \in 1..Len(batch) :
             /\ batch[i].source \in pinned
             /\ batch[i].type = "hangup" => batch[i].source # 1
  BY DEF IInv, TypeOK, PassIsPinned
<1>2. CASE shouldExit
  BY <1>2, LoopAssumption DEF Rest, LoopAssumption
<1>3. CASE ~shouldExit
  <2>1. Rest = Tail(batch)
    BY <1>3 DEF Rest
  <2>2. /\ Tail(batch) \in Seq(Event) /\ Len(Tail(batch)) = Len(batch) - 1
        /\ \A i \in 1..Len(batch) - 1 : Tail(batch)[i] = batch[i + 1]
    BY <1>1
  <2>3. Len(batch) # 0 /\ DOMAIN Tail(batch) = 1..Len(batch) - 1
    BY <1>1, <2>2
  <2>4. ASSUME NEW i \in DOMAIN Tail(batch)
        PROVE  i + 1 \in 1..Len(batch) /\ Tail(batch)[i] = batch[i + 1]
    BY <1>1, <2>2, <2>3
  <2>5. LoopAssumption /\ Len(batch) - 1 <= MaxBatch
    BY <1>1, LoopAssumption DEF LoopAssumption
  <2> QED BY <1>1, <2>1, <2>2, <2>4, <2>5
<1> QED BY <1>2, <1>3

LEMMA PassOverKeeps == ASSUME IInv, PassOver PROVE IInv'
<1> USE DEF IInv, timers
<1>1. /\ phase = "events" /\ scan = NoScan /\ batch # <<>> /\ batch' = Rest
      /\ UNCHANGED <<sources, timers, pinned, scan, cursor, start, interrupted,
                     now, shouldExit, phase>>
  BY DEF PassOver
<1>2. SourcesAreSound' /\ UNCHANGED <<Source, Registration, Event>>
  BY <1>1, SourcesKeep
<1>3. /\ batch' \in Seq(Event) /\ Len(batch') <= MaxBatch
      /\ \A i \in DOMAIN batch' : /\ batch'[i].source \in pinned
                                  /\ batch'[i].type = "hangup" => batch'[i].source # 1
  BY <1>1, RestIs
<1>4. TypeOK'
  BY <1>1, <1>2, <1>3 DEF TypeOK, sources
<1>5. ScanIsWellFormed'
  BY <1>1, <1>2 DEF ScanIsWellFormed, sources
<1>6. PassIsPinned'
  BY <1>1, <1>3 DEF PassIsPinned
<1>7. TimeoutsAreMinded'
  BY <1>1 DEF TimeoutsAreMinded
<1>8. WalksAreValid'
  BY <1>1, SourcesKeep DEF WalksAreValid, sources
<1> QED BY <1>2, <1>4, <1>5, <1>6, <1>7, <1>8 DEF SourcesAreSound

(* The destination that a walk goes to next.                                *)
LEMMA NextDestinationIs ==
  ASSUME TypeOK, NEW s, NEW n \in Nat
  PROVE  LET r == After(DestsOf(s), n)
         IN  /\ r \in DestsOf(s) \union {0} /\ r \in 0..Len(source)
             /\ r # 0 => r > n
             /\ \A x \in DestsOf(s) : x > n => r # 0 /\ x >= r
<1>1. PICK S : S = DestsOf(s)
  OBVIOUS
<1>2. S \subseteq 1..Len(source) /\ Len(source) \in Nat
  BY <1>1, Numbers DEF DestsOf
<1>3. S \in SUBSET Nat /\ 0 \notin S
  BY <1>2
<1>4. PICK r : r = After(S, n)
  OBVIOUS
<1>5. /\ r \in S \union {0} /\ r \in Nat
      /\ r # 0 => r > n
      /\ \A m \in S : m > n => r # 0 /\ r <= m
  BY <1>3, <1>4, AfterIs
<1>6. /\ r \in 0..Len(source)
      /\ \A x \in S : x > n => x >= r
  BY <1>2, <1>5
<1> QED BY <1>1, <1>4, <1>5, <1>6

LEMMA DispatchKeeps == ASSUME IInv, Dispatch PROVE IInv'
<1> USE DEF IInv
<1>1. PICK e : e = Head(batch)
  OBVIOUS
<1>2. PICK n : n = After(DestsOf(e.source), 0)
  OBVIOUS
<1>3. /\ phase = "events" /\ scan = NoScan /\ batch # <<>> /\ ~PassedOver(e)
      /\ gone' = IF e.type = "hangup" THEN gone \union {e.source} ELSE gone
      /\ scan' = [type |-> e.type, source |-> e.source, at |-> 0, next |-> n]
      /\ UNCHANGED <<fd, refs, listed, polled, source, kind, dests, watches,
                     held, timers, batch, pinned, cursor, start, interrupted,
                     now, shouldExit, phase>>
  BY <1>1, <1>2 DEF Dispatch
<1> USE DEF timers
<1>4. /\ e \in Event /\ e.source \in Source /\ e.type \in {"ready", "hangup"}
      /\ e.source \in pinned
      /\ e.type = "hangup" => e.source # 1
      /\ e.source \in polled /\ e.source \in listed
  <2>1. e \in Event /\ e.source \in pinned /\ (e.type = "hangup" => e.source # 1)
    BY <1>1, <1>3, HeadIs
  <2>2. e.source \in Source /\ e.type \in {"ready", "hangup"}
    BY <2>1 DEF Event
  <2>3. e.source \in polled /\ e.source \in listed
    BY <1>3 DEF PassedOver, TypeOK
  <2> QED BY <2>1, <2>2, <2>3
<1>5. /\ n \in DestsOf(e.source) \union {0} /\ n \in 0..Len(source)
      /\ n # 0 => n > 0
      /\ \A x \in DestsOf(e.source) : x > 0 => n # 0 /\ x >= n
  BY <1>2, NextDestinationIs
<1>6. /\ UNCHANGED <<Source, Registration, Event>>
      /\ \A s : DestsOf(s)' = DestsOf(s) /\ WatchesOf(s)' = WatchesOf(s)
  BY <1>3 DEF Source, Registration, Event, DestsOf, WatchesOf
<1>7. scan.type = "none" /\ \A s \in listed : s \notin gone
  BY <1>3 DEF NoScan, LeavesByHangup
<1>8. TypeOK'
  <2>1. gone' \subseteq Source
    BY <1>3, <1>4 DEF TypeOK
  <2>2. scan'.type \in {"none", "ready", "hangup"}
    BY <1>3, <1>4
  <2> QED BY <1>3, <1>6, <2>1, <2>2 DEF TypeOK
<1>9. ScanIsWellFormed'
  <2>1. /\ scan'.type = e.type /\ scan'.source = e.source /\ scan'.at = 0
        /\ scan'.next = n
    BY <1>3
  <2>2. scan' \in [type : {"none", "ready", "hangup"}, source : 0..Len(fd'),
                   at : 0..Len(source'), next : 0..Len(source')]
    <3>1. e.source \in 0..Len(fd) /\ 0 \in 0..Len(source)
      BY <1>4, Numbers
    <3>2. fd' = fd /\ source' = source
      BY <1>3
    <3> QED BY <1>3, <1>4, <1>5, <3>1, <3>2
  <2> QED BY <1>3, <1>4, <1>5, <1>6, <2>1, <2>2 DEF ScanIsWellFormed
<1>10. PassIsPinned'
  BY <1>3 DEF PassIsPinned
<1>11. RegisteredIsListed'
  BY <1>3 DEF RegisteredIsListed
<1>12. LeavesByHangup'
  <2>1. 1 \notin gone'
    BY <1>3, <1>4 DEF LeavesByHangup
  <2>2. scan'.type = e.type /\ scan'.source = e.source
    BY <1>3
  <2> QED BY <1>3, <1>7, <2>1, <2>2 DEF LeavesByHangup
<1>13. DestinationsHaveUsers'
  <2>1. \A r \in dests : r = 1 \/ source[r] \in gone' \/ r \in held \intersect watches
    BY <1>3 DEF DestinationsHaveUsers
  <2>2. ASSUME e.type = "hangup", NEW r \in DestsOf(e.source)
        PROVE  r \in held \intersect watches
    <3>1. r \in dests /\ source[r] = e.source
      BY DEF DestsOf
    <3>2. r # 1
      BY <1>4, <2>2, <3>1 DEF RegisteredIsListed
    <3> QED BY <1>4, <1>7, <3>1, <3>2 DEF DestinationsHaveUsers
  <2>3. ASSUME e.type = "hangup", NEW r \in held, source[r] = e.source, kind[r] # "deaf"
        PROVE  n # 0 /\ r >= n
    <3>1. r \in DestsOf(e.source) /\ r > 0
      BY <2>3, Numbers DEF HeldIsWatched, DestsOf
    <3> QED BY <1>5, <3>1
  <2>4. /\ scan'.type = e.type /\ scan'.source = e.source /\ scan'.at = 0
        /\ scan'.next = n
    BY <1>3
  <2> QED BY <1>3, <1>6, <2>1, <2>2, <2>3, <2>4 DEF DestinationsHaveUsers
<1>14. TimeoutsAreMinded'
  BY <1>3 DEF TimeoutsAreMinded
<1>15. SourcesAreCounted'
  BY <1>3, <1>6 DEF SourcesAreCounted
<1>16. WalksAreValid'
  <2>1. /\ scan'.type = e.type /\ scan'.source = e.source /\ scan'.next = n
    BY <1>3
  <2> QED BY <1>3, <1>4, <1>5, <1>6, <2>1 DEF WalksAreValid
<1>17. HeldIsWatched'
  BY <1>3, <1>6 DEF HeldIsWatched
<1> QED BY <1>8, <1>9, <1>10, <1>11, <1>12, <1>13, <1>14, <1>15, <1>16, <1>17

LEMMA CallNextKeeps == ASSUME IInv, CallNext PROVE IInv'
<1> USE DEF IInv, timers
<1>1. PICK r : r = scan.next
  OBVIOUS
<1>2. PICK n : n = After(DestsOf(scan.source), r)
  OBVIOUS
<1>3. PICK a : a = IF HasHandler(r) THEN r ELSE 0
  OBVIOUS
<1>4. /\ phase = "events" /\ r # 0
      /\ scan' = [scan EXCEPT !.next = n, !.at = a]
      /\ phase' = IF a = r THEN "calling" ELSE "events"
      /\ UNCHANGED <<registry, refs, timers, batch, pinned, cursor, start,
                     interrupted, now, shouldExit>>
  BY <1>1, <1>2, <1>3 DEF CallNext, registry, sources
<1>5. /\ scan.source \in 0..Len(fd) /\ r \in 0..Len(source) /\ scan.at = 0
      /\ scan.type \in {"none", "ready", "hangup"} /\ scan # NoScan
      /\ scan.source \in Source /\ batch # <<>> /\ scan.type # "none"
  BY <1>1, <1>4 DEF ScanIsWellFormed, NoScan
<1>6. /\ scan' = [type |-> scan.type, source |-> scan.source, at |-> a, next |-> n]
      /\ scan'.type = scan.type /\ scan'.source = scan.source
      /\ scan'.at = a /\ scan'.next = n
  BY <1>4 DEF ScanIsWellFormed
<1>7. /\ n \in DestsOf(scan.source) \union {0} /\ n \in 0..Len(source)
      /\ n # 0 => n > r
      /\ \A x \in DestsOf(scan.source) : x > r => n # 0 /\ x >= n
  <2>1. r \in Nat
    BY <1>5, Numbers
  <2> QED BY <1>2, <2>1, NextDestinationIs
<1>8. /\ UNCHANGED <<Source, Registration, Event>>
      /\ \A s : DestsOf(s)' = DestsOf(s) /\ WatchesOf(s)' = WatchesOf(s)
  BY <1>4 DEF Source, Registration, Event, DestsOf, WatchesOf, registry
<1>9. a \in 0..Len(source) /\ a \in {0, r} /\ (a = r \/ kind[r] = "deaf" \/ scan.type # "hangup")
  BY <1>3, <1>5 DEF HasHandler
<1>10. scan'.type \in {"none", "ready", "hangup"} /\ scan' # NoScan
  BY <1>5, <1>6 DEF NoScan
<1>11. TypeOK'
  <2>1. phase' \in {"events", "calling"}
    BY <1>4
  <2> QED BY <1>4, <1>8, <1>10, <2>1 DEF TypeOK, registry
<1>12. ScanIsWellFormed'
  <2>1. scan' \in [type : {"none", "ready", "hangup"}, source : 0..Len(fd'),
                   at : 0..Len(source'), next : 0..Len(source')]
    BY <1>4, <1>5, <1>6, <1>7, <1>9 DEF registry
  <2>2. phase' \in {"events", "calling"} /\ (phase' = "calling" <=> a # 0)
    BY <1>4, <1>9
  <2>3. n # 0 => n > a
    <3>1. r \in Nat /\ n \in Nat
      BY <1>5, <1>7, Numbers
    <3> QED BY <1>7, <1>9, <3>1
  <2>4. a # 0 => source[a] = scan.source
    BY <1>1, <1>4, <1>9 DEF WalksAreValid, DestsOf
  <2>5. source' = source /\ batch' = batch
    BY <1>4 DEF registry
  <2> QED BY <1>5, <1>6, <1>8, <1>10, <2>1, <2>2, <2>3, <2>4, <2>5
          DEF ScanIsWellFormed
<1>13. PassIsPinned'
  BY <1>4, <1>5 DEF PassIsPinned
<1>14. RegisteredIsListed' /\ LeavesByHangup'
  BY <1>4, <1>6 DEF RegisteredIsListed, LeavesByHangup, registry
<1>15. DestinationsHaveUsers'
  <2>1. ASSUME scan.type = "hangup", n # 0, NEW x \in DestsOf(scan.source), x >= n
        PROVE  x \in held \intersect watches
    <3>1. x >= r /\ r # 0
      <4>1. x \in Nat /\ n \in Nat /\ r \in Nat
        BY <1>5, <1>7, Numbers DEF DestsOf
      <4> QED BY <1>4, <1>7, <2>1, <4>1
    <3> QED BY <1>1, <2>1, <3>1 DEF DestinationsHaveUsers
  <2>2. ASSUME scan.type = "hangup", NEW x \in held, source[x] = scan.source,
               kind[x] # "deaf", x # a
        PROVE  n # 0 /\ x >= n
    <3>1. x \in DestsOf(scan.source) /\ x \in Nat /\ x # 0
      BY <2>2, Numbers DEF HeldIsWatched, DestsOf
    <3>2. x >= r
      BY <1>1, <1>5, <2>2, <3>1 DEF DestinationsHaveUsers
    <3>3. x # r
      BY <1>9, <2>2
    <3>4. x > r
      BY <1>5, <3>1, <3>2, <3>3, Numbers
    <3> QED BY <1>7, <3>1, <3>4
  <2> QED BY <1>4, <1>6, <1>8, <2>1, <2>2 DEF DestinationsHaveUsers, registry
<1>16. TimeoutsAreMinded'
  BY <1>4 DEF TimeoutsAreMinded
<1>17. SourcesAreCounted'
  BY <1>4, <1>8 DEF SourcesAreCounted, registry
<1>18. WalksAreValid'
  BY <1>4, <1>5, <1>6, <1>7, <1>8 DEF WalksAreValid, registry
<1>19. HeldIsWatched'
  BY <1>4, <1>8 DEF HeldIsWatched, registry
<1> QED BY <1>11, <1>12, <1>13, <1>14, <1>15, <1>16, <1>17, <1>18, <1>19

LEMMA HandlerReturnsKeeps == ASSUME IInv, HandlerReturns PROVE IInv'
<1> USE DEF IInv, timers
<1>1. /\ phase = "calling" /\ phase' = "events"
      /\ scan' = [scan EXCEPT !.at = 0]
      /\ held' = IF scan.type = "hangup" THEN held \ {scan.at} ELSE held
      /\ UNCHANGED <<fd, refs, listed, polled, gone, source, kind, dests, watches,
                     timers, batch, pinned, cursor, start, interrupted, now,
                     shouldExit>>
  BY DEF HandlerReturns
<1>2. /\ scan' = [type |-> scan.type, source |-> scan.source, at |-> 0,
                  next |-> scan.next]
      /\ scan'.type = scan.type /\ scan'.source = scan.source
      /\ scan'.at = 0 /\ scan'.next = scan.next
      /\ scan.type \in {"none", "ready", "hangup"}
      /\ scan.next \in 0..Len(source) /\ scan.source \in 0..Len(fd)
      /\ scan.at \in 0..Len(source)
  BY <1>1 DEF ScanIsWellFormed
<1>3. scan # NoScan /\ scan.source \in Source /\ batch # <<>> /\ scan.type # "none"
  BY <1>1 DEF ScanIsWellFormed, NoScan
<1>4. /\ UNCHANGED <<Source, Registration, Event>>
      /\ \A s : DestsOf(s)' = DestsOf(s) /\ WatchesOf(s)' = WatchesOf(s)
  BY <1>1 DEF Source, Registration, Event, DestsOf, WatchesOf
<1>5. held' \subseteq held
  BY <1>1
<1>6. TypeOK'
  <2>1. watches' \subseteq dests' \union held' /\ held' \subseteq Registration
    BY <1>1, <1>5 DEF TypeOK, RegisteredIsListed
  <2> QED BY <1>1, <1>2, <1>4, <2>1 DEF TypeOK
<1>7. ScanIsWellFormed'
  <2>1. scan' \in [type : {"none", "ready", "hangup"}, source : 0..Len(fd'),
                   at : 0..Len(source'), next : 0..Len(source')]
    <3>1. 0 \in 0..Len(source)
      BY Numbers
    <3> QED BY <1>1, <1>2, <3>1
  <2>2. scan.next # 0 => scan.next > 0
    BY <1>2, Numbers
  <2> QED BY <1>1, <1>2, <1>3, <1>4, <2>1, <2>2 DEF ScanIsWellFormed
<1>8. PassIsPinned'
  BY <1>1 DEF PassIsPinned
<1>9. RegisteredIsListed' /\ LeavesByHangup'
  BY <1>1, <1>2, <1>5 DEF RegisteredIsListed, LeavesByHangup
<1>10. DestinationsHaveUsers'
  <2>1. ASSUME NEW r \in dests PROVE r = 1 \/ source[r] \in gone \/ r \in held' \intersect watches
    <3>1. ASSUME scan.type = "hangup", r = scan.at, r \in held \intersect watches,
                 r # 1, source[r] \notin gone
          PROVE  FALSE
      <4>1. scan.source \in gone /\ scan.source \in listed
        BY <3>1 DEF LeavesByHangup, WalksAreValid
      <4>2. r # 0
        BY <1>1, <3>1 DEF ScanIsWellFormed
      <4>3. source[r] = scan.source
        BY <3>1, <4>2 DEF ScanIsWellFormed
      <4> QED BY <3>1, <4>1, <4>3
    <3> QED BY <1>1, <3>1 DEF DestinationsHaveUsers
  <2>2. ASSUME scan.type = "hangup", scan.next # 0, NEW r \in DestsOf(scan.source),
               r >= scan.next
        PROVE  r \in held' \intersect watches
    <3>1. r \in held \intersect watches
      BY <2>2 DEF DestinationsHaveUsers
    <3>2. r # scan.at
      <4>1. r \in Nat /\ scan.next \in Nat /\ scan.at \in Nat /\ scan.next > scan.at
        BY <1>2, <2>2, Numbers DEF DestsOf, ScanIsWellFormed
      <4> QED BY <2>2, <4>1
    <3> QED BY <1>1, <3>1, <3>2
  <2>3. ASSUME scan.type = "hangup", NEW r \in held', source[r] = scan.source,
               kind[r] # "deaf"
        PROVE  scan.next # 0 /\ r >= scan.next
    BY <1>1, <2>3 DEF DestinationsHaveUsers
  <2> QED BY <1>1, <1>2, <1>4, <2>1, <2>2, <2>3 DEF DestinationsHaveUsers
<1>11. TimeoutsAreMinded'
  BY <1>1 DEF TimeoutsAreMinded
<1>12. SourcesAreCounted'
  BY <1>1, <1>4 DEF SourcesAreCounted
<1>13. WalksAreValid'
  BY <1>1, <1>2, <1>3, <1>4 DEF WalksAreValid
<1>14. HeldIsWatched'
  BY <1>1, <1>4, <1>5 DEF HeldIsWatched
<1> QED BY <1>6, <1>7, <1>8, <1>9, <1>10, <1>11, <1>12, <1>13, <1>14

LEMMA EndDispatchKeeps == ASSUME IInv, EndDispatch PROVE IInv'
<1> USE DEF IInv, timers
<1>1. PICK s : s = scan.source
  OBVIOUS
<1>2. /\ phase = "events" /\ scan # NoScan /\ scan.next = 0
      /\ scan' = NoScan /\ batch' = Rest
      /\ UNCHANGED <<fd, gone, source, kind, held, timers, pinned, cursor, start,
                     interrupted, now, shouldExit, phase>>
  BY DEF EndDispatch
<1>3. s \in Source /\ batch # <<>> /\ scan.at = 0 /\ s \in pinned
  BY <1>1, <1>2 DEF ScanIsWellFormed, WalksAreValid
<1>4. /\ batch' \in Seq(Event) /\ Len(batch') <= MaxBatch
      /\ \A i \in DOMAIN batch' : /\ batch'[i].source \in pinned
                                  /\ batch'[i].type = "hangup" => batch'[i].source # 1
  BY <1>2, <1>3, RestIs
<1>5. UNCHANGED <<Source, Registration, Event>>
  BY <1>2 DEF Source, Registration, Event
<1>6. /\ scan'.type = "none" /\ scan'.next = 0 /\ scan'.at = 0 /\ scan'.source = 0
  BY <1>2 DEF NoScan
<1>7. ScanIsWellFormed'
  <2>1. scan' \in [type : {"none", "ready", "hangup"}, source : 0..Len(fd'),
                   at : 0..Len(source'), next : 0..Len(source')]
    <3>1. 0 \in 0..Len(source) /\ 0 \in 0..Len(fd)
      BY Numbers
    <3> QED BY <1>2, <3>1 DEF NoScan
  <2> QED BY <1>2, <1>6, <2>1 DEF ScanIsWellFormed, NoScan
<1>8. PassIsPinned'
  BY <1>2, <1>4 DEF PassIsPinned
<1>9. TimeoutsAreMinded'
  BY <1>2 DEF TimeoutsAreMinded
<1>10. CASE scan.type # "hangup"
  <2>1. /\ UNCHANGED <<refs, watches, dests, listed, polled>>
        /\ \A x : DestsOf(x)' = DestsOf(x) /\ WatchesOf(x)' = WatchesOf(x)
    BY <1>2, <1>10 DEF EndDispatch, DestsOf, WatchesOf
  <2>2. TypeOK'
    BY <1>2, <1>4, <1>5, <1>6, <2>1 DEF TypeOK
  <2>3. RegisteredIsListed' /\ LeavesByHangup'
    BY <1>2, <1>6, <1>10, <2>1 DEF RegisteredIsListed, LeavesByHangup
  <2>4. DestinationsHaveUsers' /\ SourcesAreCounted' /\ HeldIsWatched'
    BY <1>2, <1>5, <1>6, <2>1
       DEF DestinationsHaveUsers, SourcesAreCounted, HeldIsWatched
  <2>5. WalksAreValid'
    BY <1>2, <1>5, <1>6, <2>1 DEF WalksAreValid
  <2> QED BY <1>7, <1>8, <1>9, <2>2, <2>3, <2>4, <2>5
<1>11. CASE scan.type = "hangup"
  <2>1. /\ refs' = [refs EXCEPT ![s] = @ - Cardinality(DestsOf(s))
                                         - Cardinality(WatchesOf(s)) - 1]
        /\ watches' = watches \ WatchesOf(s) /\ dests' = dests \ DestsOf(s)
        /\ listed' = listed \ {s} /\ polled' = polled \ {s}
    BY <1>1, <1>2, <1>11 DEF EndDispatch, Disconnect
  <2>2. /\ s \in listed /\ s \in gone
        /\ \A x \in gone \intersect listed : x = s
    BY <1>1, <1>11 DEF WalksAreValid, LeavesByHangup
  <2>3. ASSUME NEW x \in Source
        PROVE  /\ DestsOf(x)' = IF x = s THEN {} ELSE DestsOf(x)
               /\ WatchesOf(x)' = IF x = s THEN {} ELSE WatchesOf(x)
    BY <1>2, <2>1 DEF DestsOf, WatchesOf
  <2>4. SourcesAreCounted'
    <3> SUFFICES ASSUME NEW x \in Source
                 PROVE  refs'[x] = (IF x \in listed' THEN 1 ELSE 0)
                            + Cardinality(DestsOf(x)') + Cardinality(WatchesOf(x)')
                            + (IF x \in pinned' THEN 1 ELSE 0)
      BY <1>5 DEF SourcesAreCounted
    <3>1. CASE x # s
      <4>1. refs'[x] = refs[x] /\ (x \in listed' <=> x \in listed)
        BY <2>1, <3>1 DEF TypeOK
      <4> QED BY <1>2, <2>3, <3>1, <4>1 DEF SourcesAreCounted
    <3>2. CASE x = s
      <4>1. /\ Cardinality(DestsOf(s)') = 0 /\ Cardinality(WatchesOf(s)') = 0
        BY <1>3, <2>3, FS_EmptySet
      <4>2. Cardinality(DestsOf(s)) \in Nat /\ Cardinality(WatchesOf(s)) \in Nat
        BY RegistrationsAreFinite
      <4>3. refs[s] = 2 + Cardinality(DestsOf(s)) + Cardinality(WatchesOf(s))
        BY <1>3, <2>2, <4>2 DEF SourcesAreCounted
      <4>4. refs'[s] = refs[s] - Cardinality(DestsOf(s)) - Cardinality(WatchesOf(s)) - 1
        BY <1>3, <2>1 DEF TypeOK
      <4>5. s \notin listed' /\ s \in pinned'
        BY <1>2, <1>3, <2>1
      <4> QED BY <3>2, <4>1, <4>2, <4>3, <4>4, <4>5
    <3> QED BY <3>1, <3>2
  <2>5. refs' \in [Source -> Nat]
    <3>1. refs' \in [Source -> Int]
      BY <1>3, <2>1, RegistrationsAreFinite DEF TypeOK
    <3>2. ASSUME NEW x \in Source PROVE refs'[x] \in Nat
      <4>1. Cardinality(DestsOf(x)') \in Nat /\ Cardinality(WatchesOf(x)') \in Nat
        BY <2>3, RegistrationsAreFinite, FS_EmptySet
      <4> QED BY <1>5, <2>4, <4>1 DEF SourcesAreCounted
    <3> QED BY <3>1, <3>2
  <2>6. watches' \subseteq dests'
    BY <2>1 DEF RegisteredIsListed, DestsOf, WatchesOf
  <2>7. TypeOK'
    <3>1. listed' \subseteq Source /\ polled' \subseteq listed' /\ dests' \subseteq Registration
      BY <2>1 DEF TypeOK
    <3>2. watches' \subseteq dests' \union held'
      BY <2>6
    <3> QED BY <1>2, <1>4, <1>5, <1>6, <2>5, <3>1, <3>2 DEF TypeOK
  <2>8. RegisteredIsListed'
    <3>1. \A r \in dests' : source[r] \in listed'
      BY <2>1 DEF RegisteredIsListed, DestsOf
    <3>2. listed' \subseteq polled'
      BY <2>1 DEF RegisteredIsListed
    <3> QED BY <1>2, <2>6, <3>1, <3>2 DEF RegisteredIsListed
  <2>9. LeavesByHangup'
    BY <1>2, <1>6, <2>1, <2>2 DEF LeavesByHangup
  <2>10. DestinationsHaveUsers'
    <3>1. ASSUME NEW r \in dests'
          PROVE  r = 1 \/ source[r] \in gone \/ r \in held \intersect watches'
      BY <2>1 DEF DestinationsHaveUsers, DestsOf, WatchesOf
    <3> QED BY <1>2, <1>6, <3>1 DEF DestinationsHaveUsers
  <2>11. WalksAreValid'
    <3>1. ASSUME NEW x \in polled' PROVE x \in Source /\ refs'[x] > 0
      <4>1. x \in polled /\ x # s /\ x \in Source
        BY <2>1 DEF TypeOK
      <4>2. refs'[x] = refs[x] /\ refs[x] > 0
        BY <2>1, <4>1 DEF WalksAreValid, TypeOK
      <4> QED BY <4>1, <4>2
    <3> QED BY <1>2, <1>5, <1>6, <3>1 DEF WalksAreValid
  <2>12. HeldIsWatched'
    <3>1. ASSUME NEW r \in held, kind[r] # "deaf"
          PROVE  r \in watches' /\ r \in dests' /\ source[r] \in polled'
      <4>1. r \in watches /\ r \in dests /\ source[r] \in polled
        BY <3>1 DEF HeldIsWatched
      <4>2. source[r] # s
        <5>1. r # 0
          BY Numbers DEF TypeOK
        <5> QED BY <1>1, <1>2, <1>3, <1>11, <3>1, <5>1 DEF DestinationsHaveUsers
      <4> QED BY <2>1, <4>1, <4>2 DEF DestsOf, WatchesOf
    <3>2. \A x, y \in listed' : fd[x] = fd[y] => x = y
      BY <2>1 DEF HeldIsWatched
    <3> QED BY <1>2, <3>1, <3>2 DEF HeldIsWatched
  <2> QED BY <1>7, <1>8, <1>9, <2>4, <2>7, <2>8, <2>9, <2>10, <2>11, <2>12
<1> QED BY <1>10, <1>11

LEMMA EndPassKeeps == ASSUME IInv, EndPass PROVE IInv'
<1> USE DEF IInv, timers
<1>1. /\ phase = "events" /\ scan = NoScan /\ batch = <<>>
      /\ refs' = [s \in Source |-> refs[s] - (IF s \in pinned THEN 1 ELSE 0)]
      /\ pinned' = {}
      /\ phase' = IF shouldExit THEN "exited" ELSE "wait"
      /\ UNCHANGED <<registry, timers, batch, scan, cursor, start, interrupted,
                     now, shouldExit>>
  BY DEF EndPass, registry
<1>2. /\ UNCHANGED <<Source, Registration, Event>>
      /\ \A s : DestsOf(s)' = DestsOf(s) /\ WatchesOf(s)' = WatchesOf(s)
      /\ RegisteredIsListed' /\ LeavesByHangup'
      /\ DestinationsHaveUsers' /\ HeldIsWatched'
  BY <1>1, RegistryKeeps
<1>3. ASSUME NEW s \in Source
      PROVE  /\ refs'[s] = (IF s \in listed THEN 1 ELSE 0)
                           + Cardinality(DestsOf(s)) + Cardinality(WatchesOf(s))
             /\ refs'[s] \in Nat
  <2>1. Cardinality(DestsOf(s)) \in Nat /\ Cardinality(WatchesOf(s)) \in Nat
    BY RegistrationsAreFinite
  <2>2. refs'[s] = refs[s] - (IF s \in pinned THEN 1 ELSE 0)
    BY <1>1
  <2> QED BY <2>1, <2>2 DEF SourcesAreCounted
<1>4. TypeOK'
  <2>1. refs' \in [Source -> Nat]
    BY <1>1, <1>3
  <2> QED BY <1>1, <1>2, <2>1 DEF TypeOK, registry
<1>5. SourcesAreCounted'
  <2> SUFFICES ASSUME NEW s \in Source
               PROVE  refs'[s] = (IF s \in listed' THEN 1 ELSE 0)
                          + Cardinality(DestsOf(s)') + Cardinality(WatchesOf(s)')
                          + (IF s \in pinned' THEN 1 ELSE 0)
    BY <1>2 DEF SourcesAreCounted
  <2>1. listed' = listed /\ pinned' = {}
    BY <1>1 DEF registry
  <2> QED BY <1>2, <1>3, <2>1, RegistrationsAreFinite
<1>6. ScanIsWellFormed' /\ TimeoutsAreMinded'
  BY <1>1, <1>2 DEF ScanIsWellFormed, TimeoutsAreMinded, registry
<1>7. PassIsPinned'
  BY <1>1 DEF PassIsPinned
<1>8. WalksAreValid'
  <2>1. \A s \in polled : s \in Source /\ s \in listed
    BY DEF TypeOK
  <2>2. \A s \in polled : refs'[s] > 0
    BY <1>3, <2>1, RegistrationsAreFinite
  <2> QED BY <1>1, <1>2, <2>1, <2>2 DEF WalksAreValid, registry, NoScan
<1> QED BY <1>2, <1>4, <1>5, <1>6, <1>7, <1>8

LEMMA FreeKeeps == ASSUME IInv, Free PROVE IInv'
<1> USE DEF IInv, pass
<1>1. /\ phase = "exited"
      /\ refs' = [s \in Source |-> refs[s] - Cardinality(DestsOf(s))
                    - Cardinality(WatchesOf(s)) - (IF s \in listed THEN 1 ELSE 0)]
      /\ listed' = {} /\ polled' = {} /\ dests' = {} /\ watches' = {}
      /\ timeouts' = {} /\ wakeup' = NoWakeup /\ held' = {}
      /\ UNCHANGED <<fd, gone, source, kind, made, pass, now, shouldExit, phase>>
  BY DEF Free
<1>2. pinned = {} /\ batch = <<>> /\ scan = NoScan
  BY <1>1 DEF PassIsPinned, ScanIsWellFormed
<1>3. UNCHANGED <<Source, Registration, Event>>
  BY <1>1 DEF Source, Registration, Event
<1>4. ASSUME NEW s \in Source PROVE refs'[s] = 0
  <2>1. refs'[s] = refs[s] - Cardinality(DestsOf(s)) - Cardinality(WatchesOf(s))
                           - (IF s \in listed THEN 1 ELSE 0)
    BY <1>1
  <2> QED BY <1>2, <2>1, RegistrationsAreFinite DEF SourcesAreCounted
<1>5. TypeOK'
  <2>1. refs' \in [Source -> Nat]
    BY <1>1, <1>4
  <2> QED BY <1>1, <1>3, <2>1 DEF TypeOK
<1>6. SourcesAreCounted'
  <2>1. \A s : DestsOf(s)' = {} /\ WatchesOf(s)' = {}
    BY <1>1 DEF DestsOf, WatchesOf
  <2>2. Cardinality({}) = 0
    BY FS_EmptySet
  <2>3. listed' = {} /\ pinned' = {}
    BY <1>1, <1>2
  <2> QED BY <1>3, <1>4, <2>1, <2>2, <2>3 DEF SourcesAreCounted
<1>7. ScanIsWellFormed' /\ PassIsPinned'
  BY <1>1, <1>3 DEF ScanIsWellFormed, PassIsPinned
<1>8. RegisteredIsListed' /\ LeavesByHangup' /\ DestinationsHaveUsers'
  BY <1>1, <1>2 DEF RegisteredIsListed, LeavesByHangup, DestinationsHaveUsers, NoScan
<1>9. TimeoutsAreMinded' /\ HeldIsWatched'
  BY <1>1 DEF TimeoutsAreMinded, HeldIsWatched
<1>10. WalksAreValid'
  BY <1>1, <1>2 DEF WalksAreValid, NoScan
<1> QED BY <1>5, <1>6, <1>7, <1>8, <1>9, <1>10

-----------------------------------------------------------------------------
(* The theorems.                                                            *)

LEMMA StepKeeps == IInv /\ [Next]_vars => IInv'
<1> SUFFICES ASSUME IInv, [Next]_vars PROVE IInv'
  OBVIOUS
<1>1. CASE User
  BY <1>1, WatchFdKeeps, StopWatchingFdKeeps, WatchForTimeoutKeeps,
     StopWatchingForTimeoutKeeps, ExitKeeps DEF User
<1>2. CASE Loop
  BY <1>2, WaitKeeps, RunTimeoutKeeps, SkipTimeoutKeeps, TimeoutReturnsKeeps,
     EndTimeoutsKeeps, PassOverKeeps, DispatchKeeps, CallNextKeeps,
     HandlerReturnsKeeps, EndDispatchKeeps, EndPassKeeps, FreeKeeps DEF Loop
<1>3. CASE Run \/ Tick
  BY <1>3, RunKeeps, TickKeeps
<1>4. CASE WaitInterrupted \/ \E b \in Batches : WaitReturns(b)
  BY <1>4, WaitKeeps
<1>5. CASE UNCHANGED vars
  <2>1. UNCHANGED <<registry, refs, timers, pass, now, shouldExit, phase>>
    BY <1>5 DEF vars, sources, registry
  <2>2. /\ UNCHANGED <<Source, Registration, Event>>
        /\ \A s : DestsOf(s)' = DestsOf(s) /\ WatchesOf(s)' = WatchesOf(s)
        /\ RegisteredIsListed' /\ LeavesByHangup'
        /\ DestinationsHaveUsers' /\ HeldIsWatched'
    BY <2>1, RegistryKeeps DEF pass
  <2>3. TypeOK'
    BY <2>1, <2>2 DEF IInv, TypeOK, registry, timers, pass
  <2>4. ScanIsWellFormed' /\ PassIsPinned' /\ TimeoutsAreMinded'
    BY <2>1, <2>2 DEF IInv, ScanIsWellFormed, PassIsPinned, TimeoutsAreMinded,
                      registry, timers, pass
  <2>5. SourcesAreCounted' /\ WalksAreValid'
    BY <2>1, <2>2 DEF IInv, SourcesAreCounted, WalksAreValid, registry, timers, pass
  <2> QED BY <2>2, <2>3, <2>4, <2>5 DEF IInv
<1> QED BY <1>1, <1>2, <1>3, <1>4, <1>5 DEF Next

(* While the loop waits no timeout is left to be looked at.                 *)
LEMMA InvariantImplies == IInv => LoopIsSound
<1> SUFFICES ASSUME IInv PROVE LoopIsSound
  OBVIOUS
<1>1. ASSUME phase = "wait", timeouts # {}
      PROVE  wakeup \in 0..Smallest({t.deadline : t \in timeouts})
  <2>1. PICK S : S = {t.deadline : t \in timeouts}
    OBVIOUS
  <2>2. S \in SUBSET Nat /\ S # {}
    BY <1>1, <2>1, TimeoutsAreNumbered DEF IInv
  <2>3. Smallest(S) \in S /\ Smallest(S) \in Nat
    BY <2>2, SmallestIs
  <2>4. \A d \in S : wakeup # NoWakeup /\ wakeup <= d
    BY <1>1, <2>1 DEF IInv, TimeoutsAreMinded
  <2>5. wakeup \in Nat
    BY <2>3, <2>4 DEF IInv, TypeOK, NoWakeup
  <2> QED BY <2>1, <2>3, <2>4, <2>5
<1>2. WakesUpInTime
  <2>1. {t.deadline : t \in timeouts} # {} => timeouts # {}
    OBVIOUS
  <2> QED BY <1>1, <2>1 DEF WakesUpInTime, IInv, TimeoutsAreMinded
<1> QED BY <1>2 DEF IInv, LoopIsSound

(* The loop counts its sources exactly, walks over nothing that was freed,  *)
(* keeps in force what a user holds and never sleeps past a deadline, for   *)
(* any number of descriptors, registrations, timeouts and events, and       *)
(* whatever the handlers start and stop (ply-event-loop.c).                 *)
THEOREM LoopIsAlwaysSound == Spec => []LoopIsSound
<1> USE DEF Spec
<1>1. Spec => []IInv
  BY InitEstablishes, StepKeeps, PTL
<1> QED BY <1>1, InvariantImplies, PTL

(* A handler is called only while its user holds the fd_watch, even if the  *)
(* event came before a timeout or another event stopped it.                 *)
THEOREM StoppedIsNeverCalled == Spec => StoppedIsNotCalled
<1> DEFINE Called == scan'.at \notin {scan.at, 0, 1} => scan'.at \in held
<1>1. Spec => []IInv
  BY InitEstablishes, StepKeeps, PTL DEF Spec
<1>2. ASSUME IInv, Next PROVE Called
  <2>1. CASE CallNext
    <3>1. PICK r : r = scan.next
      OBVIOUS
    <3>2. /\ r # 0 /\ r \in DestsOf(scan.source) /\ r \in dests
          /\ source[r] = scan.source
      BY <1>2, <2>1, <3>1 DEF CallNext, IInv, WalksAreValid, DestsOf
    <3>3. scan'.at = IF HasHandler(r) THEN r ELSE 0
      BY <1>2, <2>1, <3>1 DEF CallNext, IInv, ScanIsWellFormed
    <3>4. scan.type # "hangup" => source[r] \notin gone
      BY <1>2, <3>2 DEF IInv, RegisteredIsListed, LeavesByHangup
    <3>5. r \in Nat
      BY <1>2, <3>1, Numbers DEF IInv, ScanIsWellFormed
    <3>6. scan.type = "hangup" => r \in held
      BY <1>2, <3>1, <3>2, <3>5 DEF IInv, DestinationsHaveUsers
    <3> QED BY <1>2, <3>2, <3>3, <3>4, <3>6 DEF IInv, DestinationsHaveUsers
  <2>2. CASE UNCHANGED scan \/ Dispatch \/ HandlerReturns \/ EndDispatch
    <3>1. CASE Dispatch
      BY <3>1 DEF Dispatch
    <3>2. CASE HandlerReturns
      BY <1>2, <3>2 DEF HandlerReturns, IInv, ScanIsWellFormed
    <3>3. CASE EndDispatch
      BY <3>3 DEF EndDispatch, NoScan
    <3> QED BY <2>2, <3>1, <3>2, <3>3
  <2>3. UNCHANGED scan \/ Dispatch \/ HandlerReturns \/ EndDispatch \/ CallNext
    <3>1. User \/ Run \/ Tick => UNCHANGED scan
      BY DEF User, WatchFd, StopWatchingFd, WatchForTimeout,
             StopWatchingForTimeout, Exit, Run, Tick, pass
    <3>2. WaitInterrupted \/ WaitTimesOut \/ (\E b \in Batches : WaitReturns(b))
              => UNCHANGED scan
      BY DEF WaitInterrupted, WaitTimesOut, WaitReturns, Woken
    <3>3. (RunTimeout \/ SkipTimeout \/ TimeoutReturns \/ EndTimeouts
               \/ PassOver \/ EndPass \/ Free) => UNCHANGED scan
      BY DEF RunTimeout, SkipTimeout, TimeoutReturns, EndTimeouts, PassOver,
             EndPass, Free, pass
    <3> QED BY <1>2, <3>1, <3>2, <3>3 DEF Next, Loop
  <2> QED BY <2>1, <2>2, <2>3
<1>3. IInv /\ [Next]_vars => [Called]_vars
  BY <1>2
<1> HIDE DEF Called
<1>4. Spec => [][Called]_vars
  BY <1>1, <1>3, PTL DEF Spec
<1> QED BY <1>4 DEF StoppedIsNotCalled, Called

=============================================================================
