---------------------------- MODULE PromptsProofs ----------------------------
(* Theorems about Prompts, for any number of clients, requests, keys and    *)
(* characters.                                                              *)
EXTENDS Prompts, FiniteSetTheorems, SequenceTheorems, WellFoundedInduction,
        TLAPS

-----------------------------------------------------------------------------
(* What the books keep between two steps.                                   *)

(* The requests of a queue of prompts or of watches.                        *)
RequestsOf(q) == {q[i].request : i \in DOMAIN q}

(* No request is in a queue twice.                                          *)
Distinct(q) == \A i, j \in DOMAIN q : q[i].request = q[j].request => i = j

(* A request waits at one place: once in the queue of prompts, or once in   *)
(* that of watches, or among the quits and deactivates.                     *)
PlacesApart ==
    /\ Distinct(entries) /\ Distinct(watches)
    /\ Prompts \intersect Watching = {}
    /\ Prompts \intersect controls = {}
    /\ Watching \intersect controls = {}
    /\ IsFiniteSet(controls)

WaitsOnce == PlacesApart /\ \A r \in Waiting : IsSent(r)

(* A request that was sent waits or has its reply.                          *)
RepliesAreExact ==
    \A r \in Request :
        /\ Len(reply[r]) <= 1
        /\ reply[r] # <<>> => IsSent(r) /\ r \notin Waiting
        /\ IsSent(r) /\ link[Sender(r)] = "open"
               => r \in Waiting \/ reply[r] # <<>>
        /\ link[Sender(r)] # "open" => r \notin Prompts \union Watching

(* Nothing was read from a client that never connected.                     *)
NewIsSilent == \A c \in Client : link[c] = "new" => sent[c] = 0

IInv ==
    /\ TypeOK
    /\ WaitsOnce
    /\ RepliesAreExact
    /\ NewIsSilent
    /\ ReferencesCounted
    /\ ScreenIsCurrent
    /\ TypedForHead
    /\ PasswordsKeptApart

-----------------------------------------------------------------------------
(* Queues.                                                                  *)

(* What is appended comes last.                                             *)
LEMMA AppendIs ==
  ASSUME NEW S, NEW q \in Seq(S), NEW e \in S
  PROVE  /\ Append(q, e) \in Seq(S) /\ Append(q, e) # <<>>
         /\ Len(Append(q, e)) = Len(q) + 1
         /\ DOMAIN Append(q, e) = 1..Len(q) + 1 /\ Len(q) \in Nat
         /\ DOMAIN q = 1..Len(q)
         /\ \A i \in 1..Len(q) : Append(q, e)[i] = q[i]
         /\ Append(q, e)[Len(q) + 1] = e
         /\ q # <<>> => Head(Append(q, e)) = Head(q)
         /\ q = <<>> => Head(Append(q, e)) = e
  OBVIOUS

LEMMA AppendRequests ==
  ASSUME NEW S, NEW q \in Seq(S), NEW e \in S
  PROVE  /\ RequestsOf(Append(q, e)) = RequestsOf(q) \union {e.request}
         /\ Distinct(q) /\ e.request \notin RequestsOf(q) => Distinct(Append(q, e))
<1>1. PICK p : p = Append(q, e)
  OBVIOUS
<1>2. /\ DOMAIN p = 1..Len(q) + 1 /\ DOMAIN q = 1..Len(q) /\ Len(q) \in Nat
      /\ \A i \in 1..Len(q) : p[i] = q[i]
      /\ p[Len(q) + 1] = e
  BY <1>1, AppendIs
<1>3. RequestsOf(p) = RequestsOf(q) \union {e.request}
  BY <1>2 DEF RequestsOf
<1>4. ASSUME Distinct(q), e.request \notin RequestsOf(q),
             NEW i \in DOMAIN p, NEW j \in DOMAIN p, p[i].request = p[j].request
      PROVE  i = j
  BY <1>2, <1>4 DEF RequestsOf, Distinct
<1>5. Distinct(q) /\ e.request \notin RequestsOf(q) => Distinct(p)
  BY <1>4 DEF Distinct
<1> QED BY <1>1, <1>3, <1>5

LEMMA TailRequests ==
  ASSUME NEW S, NEW q \in Seq(S), q # <<>>, Distinct(q)
  PROVE  /\ Tail(q) \in Seq(S) /\ Head(q) \in S
         /\ Head(q).request \in RequestsOf(q)
         /\ RequestsOf(Tail(q)) = RequestsOf(q) \ {Head(q).request}
         /\ Distinct(Tail(q))
<1>1. PICK p : p = Tail(q)
  OBVIOUS
<1>2. /\ p \in Seq(S) /\ DOMAIN p = 1..Len(q) - 1
      /\ DOMAIN q = 1..Len(q) /\ Len(q) \in Nat /\ Len(q) >= 1
      /\ \A i \in 1..Len(q) - 1 : p[i] = q[i + 1]
      /\ Head(q) = q[1] /\ q[1] \in S
  BY <1>1, HeadTailProperties, EmptySeq, LenProperties
<1>3. RequestsOf(p) \subseteq RequestsOf(q) \ {Head(q).request}
  <2>1. ASSUME NEW i \in 1..Len(q) - 1
        PROVE  /\ i + 1 \in DOMAIN q /\ 1 \in DOMAIN q /\ i + 1 # 1
               /\ p[i] = q[i + 1]
    BY <1>2
  <2> QED BY <1>2, <2>1 DEF RequestsOf, Distinct
<1>4. RequestsOf(q) \ {Head(q).request} \subseteq RequestsOf(p)
  <2>1. ASSUME NEW i \in DOMAIN q, i # 1
        PROVE  i - 1 \in DOMAIN p /\ p[i - 1] = q[i]
    BY <1>2, <2>1
  <2> QED BY <1>2, <2>1 DEF RequestsOf
<1>5. Distinct(p)
  <2>1. ASSUME NEW i \in DOMAIN p, NEW j \in DOMAIN p, p[i].request = p[j].request
        PROVE  i = j
    <3>1. i + 1 \in DOMAIN q /\ j + 1 \in DOMAIN q /\ q[i + 1].request = q[j + 1].request
      BY <1>2, <2>1
    <3>2. i + 1 = j + 1
      BY <3>1 DEF Distinct
    <3> QED BY <1>2, <3>2
  <2> QED BY <2>1 DEF Distinct
<1>6. Head(q).request \in RequestsOf(q)
  BY <1>2 DEF RequestsOf
<1> QED BY <1>1, <1>2, <1>3, <1>4, <1>5, <1>6

(* A queue has as many requests as places.                                  *)
LEMMA CountRequests ==
  ASSUME NEW S, NEW q \in Seq(S), Distinct(q)
  PROVE  IsFiniteSet(RequestsOf(q)) /\ Cardinality(RequestsOf(q)) = Len(q)
<1> DEFINE f == [i \in 1..Len(q) |-> q[i].request]
<1>1. Len(q) \in Nat /\ DOMAIN q = 1..Len(q)
  BY LenProperties
<1>2. f \in Bijection(1..Len(q), RequestsOf(q))
  BY <1>1 DEF Distinct, RequestsOf, Bijection, Injection, IsInjective, Surjection
<1>3. ExistsBijection(1..Len(q), RequestsOf(q))
  BY <1>2 DEF ExistsBijection
<1>4. IsFiniteSet(1..Len(q)) /\ Cardinality(1..Len(q)) = Len(q)
  BY <1>1, FS_Interval, SMTT(30)
<1> QED BY <1>3, <1>4, FS_Bijection

(* A set of natural numbers has a least one: among the intervals from 1 to  *)
(* one of them is one that no other is strictly contained in.               *)
LEMMA MinIs ==
  ASSUME NEW S \in SUBSET Nat, S # {}
  PROVE  Min(S) \in S
<1> DEFINE Below == {1..n : n \in S}
<1>1. Below \subseteq FiniteSubsetsOf(Nat)
  <2> SUFFICES ASSUME NEW n \in S PROVE 1..n \in FiniteSubsetsOf(Nat)
    OBVIOUS
  <2>1. IsFiniteSet(1..n)
    BY FS_Interval
  <2> QED BY <2>1 DEF FiniteSubsetsOf
<1>2. Below # {}
  OBVIOUS
<1>3. PICK b \in Below :
          \A c \in Below : <<c, b>> \notin StrictSubsetOrdering(Nat)
  <2> HIDE DEF Below
  <2> QED BY <1>1, <1>2, FS_StrictSubsetOrderingWellFounded, WFMin
<1>4. PICK n \in S : b = 1..n
  OBVIOUS
<1>5. ASSUME NEW m \in S, m < n PROVE FALSE
  <2>1. n \in 1..n /\ n \notin 1..m /\ 1..m \subseteq 1..n
    BY <1>5
  <2>2. <<1..m, 1..n>> \in StrictSubsetOrdering(Nat)
    BY <2>1 DEF StrictSubsetOrdering
  <2> QED BY <1>3, <1>4, <2>2
<1>6. \A m \in S : n <= m
  BY <1>5
<1> QED BY <1>6 DEF Min

LEMMA RemoveRequests ==
  ASSUME NEW S, NEW q \in Seq(S), NEW i \in DOMAIN q, Distinct(q)
  PROVE  /\ RemoveAt(q, i) \in Seq(S)
         /\ RequestsOf(RemoveAt(q, i)) = RequestsOf(q) \ {q[i].request}
         /\ q[i].request \in RequestsOf(q)
         /\ Distinct(RemoveAt(q, i))
<1>1. Len(q) \in Nat /\ DOMAIN q = 1..Len(q) /\ i \in 1..Len(q)
  BY LenProperties
<1>2. PICK a : a = SubSeq(q, 1, i - 1)
  OBVIOUS
<1>3. PICK b : b = SubSeq(q, i + 1, Len(q))
  OBVIOUS
<1>4. /\ a \in Seq(S) /\ Len(a) = i - 1
      /\ \A k \in 1..i - 1 : a[k] = q[k]
  BY <1>1, <1>2
<1>5. /\ b \in Seq(S) /\ Len(b) = Len(q) - i
      /\ \A k \in 1..Len(q) - i : b[k] = q[i + k]
  BY <1>1, <1>3
<1>6. PICK p : p = RemoveAt(q, i)
  OBVIOUS
<1>7. p = a \o b
  BY <1>2, <1>3, <1>6 DEF RemoveAt
<1>8. /\ p \in Seq(S) /\ Len(p) = Len(q) - 1
      /\ \A k \in 1..i - 1 : p[k] = q[k]
      /\ \A k \in i..Len(q) - 1 : p[k] = q[k + 1]
  <2>1. /\ p \in Seq(S) /\ Len(p) = Len(a) + Len(b)
        /\ \A k \in 1..Len(p) : p[k] = IF k <= Len(a) THEN a[k] ELSE b[k - Len(a)]
    BY <1>4, <1>5, <1>7, ConcatProperties
  <2>2. Len(p) = Len(q) - 1
    BY <1>1, <1>4, <1>5, <2>1
  <2>3. ASSUME NEW k \in 1..i - 1 PROVE p[k] = q[k]
    BY <1>1, <1>4, <2>1, <2>2
  <2>4. ASSUME NEW k \in i..Len(q) - 1 PROVE p[k] = q[k + 1]
    <3>1. k \in 1..Len(p) /\ ~(k <= Len(a)) /\ k - Len(a) \in 1..Len(q) - i
      BY <1>1, <1>4, <2>2
    <3>2. p[k] = b[k - Len(a)] /\ b[k - Len(a)] = q[i + (k - Len(a))]
      BY <1>5, <2>1, <3>1
    <3>3. i + (k - Len(a)) = k + 1
      BY <1>1, <1>4
    <3> QED BY <3>2, <3>3
  <2> QED BY <2>1, <2>2, <2>3, <2>4
<1>9. DOMAIN p = 1..Len(q) - 1
  BY <1>8, LenProperties
<1> DEFINE old(k) == IF k < i THEN k ELSE k + 1
<1>10. ASSUME NEW k \in DOMAIN p
       PROVE  old(k) \in DOMAIN q /\ old(k) # i /\ p[k] = q[old(k)]
  BY <1>1, <1>8, <1>9
<1>11. ASSUME NEW k \in DOMAIN q, k # i
       PROVE  \E l \in DOMAIN p : k = old(l) /\ p[l] = q[k]
  <2>1. CASE k < i
    BY <1>1, <1>8, <1>9, <2>1
  <2>2. CASE ~(k < i)
    <3>1. k - 1 \in DOMAIN p /\ k = old(k - 1)
      BY <1>1, <1>9, <1>11, <2>2
    <3> QED BY <1>10, <3>1
  <2> QED BY <2>1, <2>2
<1>12. \A k, l \in DOMAIN p : old(k) = old(l) => k = l
  BY <1>1, <1>9
<1> HIDE DEF old
<1>13. RequestsOf(p) = RequestsOf(q) \ {q[i].request}
  BY <1>10, <1>11 DEF RequestsOf, Distinct
<1>14. Distinct(p)
  BY <1>10, <1>12 DEF Distinct
<1>15. q[i].request \in RequestsOf(q)
  BY DEF RequestsOf
<1> QED BY <1>6, <1>8, <1>13, <1>14, <1>15

KeptIn(q, c) == {i \in DOMAIN q : Sender(q[i].request) # c}

(* Counting those kept up to each that is kept puts them at the places from *)
(* 1 to their number, one at each.                                          *)
LEMMA OthersArePlaced ==
  ASSUME NEW S, NEW q \in Seq(S), NEW c
  PROVE  \E n \in Nat : \E ix \in Bijection(1..n, KeptIn(q, c)) :
            /\ OthersOf(q, c) = [k \in 1..n |-> q[ix[k]]]
            /\ 1 \in KeptIn(q, c) => n >= 1 /\ ix[1] = 1
<1>1. DOMAIN q = 1..Len(q) /\ Len(q) \in Nat
  BY LenProperties
<1>2. PICK kept : kept = KeptIn(q, c)
  OBVIOUS
<1>3. kept \subseteq 1..Len(q) /\ kept \subseteq Nat \ {0} /\ IsFiniteSet(kept)
  <2>1. kept \subseteq 1..Len(q)
    BY <1>1, <1>2 DEF KeptIn
  <2>2. IsFiniteSet(1..Len(q))
    BY <1>1, FS_Interval
  <2>3. kept \in SUBSET (1..Len(q))
    BY <2>1
  <2>4. IsFiniteSet(kept)
    BY <2>2, <2>3, FS_Subset
  <2>5. \A i \in 1..Len(q) : i \in Nat \ {0}
    BY <1>1
  <2> QED BY <2>1, <2>4, <2>5
<1>4. PICK n \in Nat : n = Cardinality(kept)
  BY <1>3, FS_CardinalityType
<1>5. PICK place : place = [i \in kept |-> Cardinality({j \in kept : j <= i})]
  OBVIOUS
<1>6. ASSUME NEW i \in kept
      PROVE  /\ IsFiniteSet({j \in kept : j <= i})
             /\ place[i] \in 1..n
  <2>1. {j \in kept : j <= i} \in SUBSET kept /\ i \in {j \in kept : j <= i}
    BY <1>3
  <2>2. IsFiniteSet({j \in kept : j <= i}) /\ Cardinality({j \in kept : j <= i}) <= n
    BY <1>3, <1>4, <2>1, FS_Subset
  <2>3. Cardinality({j \in kept : j <= i}) \in Nat /\ Cardinality({j \in kept : j <= i}) # 0
    BY <2>1, <2>2, FS_CardinalityType, FS_EmptySet
  <2>4. place[i] = Cardinality({j \in kept : j <= i})
    BY <1>5
  <2> QED BY <1>4, <2>2, <2>3, <2>4
<1>7. ASSUME NEW i \in kept, NEW k \in kept, i < k
      PROVE  place[i] # place[k]
  <2>1. PICK A : A = {j \in kept : j <= i}
    OBVIOUS
  <2>2. PICK B : B = {j \in kept : j <= k}
    OBVIOUS
  <2>3. /\ i \in Nat
        /\ k \in Nat
        /\ \A j \in kept : j \in Nat
    BY <1>3
  <2>4. \A j \in kept : j <= i => j <= k
    BY <1>7, <2>3
  <2>5. k <= k /\ ~(k <= i)
    BY <1>7, <2>3
  <2>6. A \in SUBSET B /\ k \in B /\ k \notin A
    BY <1>7, <2>1, <2>2, <2>4, <2>5
  <2>7. IsFiniteSet(B)
    BY <1>6, <2>2
  <2>8. Cardinality(A) # Cardinality(B)
    BY <2>6, <2>7, FS_Subset
  <2> QED BY <1>5, <2>1, <2>2, <2>8
<1>8. place \in Injection(kept, 1..n)
  <2>1. place \in [kept -> 1..n]
    BY <1>5, <1>6
  <2>2. \A i, k \in kept : place[i] = place[k] => i = k
    BY <1>3, <1>7
  <2> QED BY <2>1, <2>2 DEF Injection, IsInjective
<1>9. place \in Surjection(kept, 1..n)
  <2>1. IsFiniteSet(1..n) /\ Cardinality(1..n) = n
    BY FS_Interval
  <2> QED BY <1>4, <1>8, <2>1, FS_Injection
<1>10. PICK ix : ix = [k \in 1..n |->
                CHOOSE i \in kept : Cardinality({j \in kept : j <= i}) = k]
  OBVIOUS
<1>11. ASSUME NEW k \in 1..n PROVE ix[k] \in kept /\ place[ix[k]] = k
  <2>1. \E i \in kept : place[i] = k
    BY <1>9 DEF Surjection
  <2>2. \A i \in kept : place[i] = Cardinality({j \in kept : j <= i})
    BY <1>5
  <2>3. \E i \in kept : Cardinality({j \in kept : j <= i}) = k
    BY <2>1, <2>2
  <2>4. /\ (CHOOSE i \in kept : Cardinality({j \in kept : j <= i}) = k) \in kept
        /\ Cardinality({j \in kept :
                           j <= (CHOOSE i \in kept :
                                     Cardinality({a \in kept : a <= i}) = k)}) = k
    BY <2>3
  <2>5. ix[k] \in kept /\ Cardinality({j \in kept : j <= ix[k]}) = k
    BY <1>10, <2>4
  <2> QED BY <2>2, <2>5
<1>12. ASSUME NEW i \in kept PROVE place[i] \in 1..n /\ ix[place[i]] = i
  <2>1. place[i] \in 1..n
    BY <1>6
  <2>2. ix[place[i]] \in kept /\ place[ix[place[i]]] = place[i]
    BY <1>11, <2>1
  <2> QED BY <1>8, <2>1, <2>2 DEF Injection, IsInjective
<1>13. ix \in Bijection(1..n, kept)
  <2>1. ix \in [1..n -> kept]
    BY <1>10, <1>11
  <2>2. \A k, l \in 1..n : ix[k] = ix[l] => k = l
    BY <1>11
  <2>3. \A i \in kept : \E k \in 1..n : ix[k] = i
    BY <1>12
  <2> QED BY <2>1, <2>2, <2>3 DEF Bijection, Injection, IsInjective, Surjection
<1>14. OthersOf(q, c) = [k \in 1..n |-> q[ix[k]]]
  <2>1. OthersOf(q, c) =
            [k \in 1..Cardinality(kept) |->
                q[CHOOSE i \in kept : Cardinality({j \in kept : j <= i}) = k]]
    BY <1>2 DEF OthersOf, KeptIn
  <2>2. \A k \in 1..n : ix[k]
            = (CHOOSE i \in kept : Cardinality({j \in kept : j <= i}) = k)
    BY <1>10
  <2> QED BY <1>4, <2>1, <2>2
<1>15. ASSUME 1 \in kept PROVE n >= 1 /\ ix[1] = 1
  <2>1. \A j \in kept : j \in Nat /\ j # 0
    BY <1>3
  <2>2. \A j \in kept : j <= 1 <=> j = 1
    BY <2>1
  <2>3. {j \in kept : j <= 1} = {1}
    BY <1>15, <2>2
  <2>4. place[1] = 1
    BY <1>5, <1>15, <2>3, FS_Singleton
  <2> QED BY <1>6, <1>12, <1>15, <2>4
<1> QED BY <1>2, <1>13, <1>14, <1>15

LEMMA OthersRequests ==
  ASSUME NEW S, NEW q \in Seq(S), NEW c, Distinct(q)
  PROVE  /\ OthersOf(q, c) \in Seq(S)
         /\ RequestsOf(OthersOf(q, c)) = {r \in RequestsOf(q) : Sender(r) # c}
         /\ Distinct(OthersOf(q, c))
         /\ q # <<>> /\ Sender(Head(q).request) # c
                => OthersOf(q, c) # <<>> /\ Head(OthersOf(q, c)) = Head(q)
         /\ OthersOf(q, c) = q /\ q # <<>> => Sender(Head(q).request) # c
<1>1. DOMAIN q = 1..Len(q) /\ Len(q) \in Nat /\ q \in [1..Len(q) -> S]
  BY LenProperties
<1>2. PICK kept : kept = KeptIn(q, c)
  OBVIOUS
<1>3. PICK n \in Nat : \E f \in Bijection(1..n, KeptIn(q, c)) :
         /\ OthersOf(q, c) = [k \in 1..n |-> q[f[k]]]
         /\ 1 \in KeptIn(q, c) => n >= 1 /\ f[1] = 1
  BY OthersArePlaced
<1>4. PICK ix \in Bijection(1..n, kept) :
         /\ OthersOf(q, c) = [k \in 1..n |-> q[ix[k]]]
         /\ 1 \in kept => n >= 1 /\ ix[1] = 1
  BY <1>2, <1>3
<1>5. PICK p : p = OthersOf(q, c)
  OBVIOUS
<1>6. /\ \A k \in 1..n : ix[k] \in kept
      /\ \A k, l \in 1..n : ix[k] = ix[l] => k = l
      /\ \A i \in kept : \E k \in 1..n : ix[k] = i
  BY DEF Bijection, Injection, IsInjective, Surjection
<1>7. /\ DOMAIN p = 1..n
      /\ \A k \in 1..n : p[k] = q[ix[k]] /\ ix[k] \in DOMAIN q
  BY <1>2, <1>4, <1>5, <1>6 DEF KeptIn
<1>8. p \in Seq(S) /\ Len(p) = n
  <2>1. \A k \in 1..n : p[k] \in S
    BY <1>1, <1>7
  <2>2. p = [k \in 1..n |-> q[ix[k]]]
    BY <1>4, <1>5
  <2>3. p \in [1..n -> S]
    BY <1>7, <2>1, <2>2
  <2>4. p \in Seq(S)
    BY <2>3, IsASeq
  <2> QED BY <1>7, <2>4, LenProperties
<1>9. RequestsOf(p) = {r \in RequestsOf(q) : Sender(r) # c}
  <2>1. ASSUME NEW k \in DOMAIN p
        PROVE  /\ p[k].request \in RequestsOf(q)
               /\ Sender(p[k].request) # c
    BY <1>2, <1>6, <1>7 DEF RequestsOf, KeptIn
  <2>2. ASSUME NEW i \in DOMAIN q, Sender(q[i].request) # c
        PROVE  q[i].request \in RequestsOf(p)
    <3>1. i \in kept
      BY <1>2, <2>2 DEF KeptIn
    <3>2. PICK k \in 1..n : ix[k] = i
      BY <1>6, <3>1
    <3> QED BY <1>7, <3>2 DEF RequestsOf
  <2>3. RequestsOf(p) \subseteq {r \in RequestsOf(q) : Sender(r) # c}
    BY <2>1 DEF RequestsOf
  <2>4. {r \in RequestsOf(q) : Sender(r) # c} \subseteq RequestsOf(p)
    <3> SUFFICES ASSUME NEW r \in RequestsOf(q), Sender(r) # c
                 PROVE  r \in RequestsOf(p)
      OBVIOUS
    <3>1. PICK i \in DOMAIN q : r = q[i].request
      BY DEF RequestsOf
    <3> QED BY <2>2, <3>1
  <2> QED BY <2>3, <2>4
<1>10. Distinct(p)
  <2>1. ASSUME NEW k \in DOMAIN p, NEW l \in DOMAIN p, p[k].request = p[l].request
        PROVE  k = l
    <3>1. ix[k] \in DOMAIN q /\ ix[l] \in DOMAIN q /\ q[ix[k]].request = q[ix[l]].request
      BY <1>7, <2>1
    <3>2. ix[k] = ix[l]
      BY <3>1 DEF Distinct
    <3> QED BY <1>6, <1>7, <3>2
  <2> QED BY <2>1 DEF Distinct
<1>11. ASSUME q # <<>> PROVE 1 \in DOMAIN q /\ Head(q) = q[1]
  BY <1>1, <1>11
<1>12. ASSUME q # <<>>, Sender(Head(q).request) # c
       PROVE  p # <<>> /\ Head(p) = Head(q)
  <2>1. 1 \in kept
    BY <1>2, <1>11, <1>12 DEF KeptIn
  <2>2. n >= 1 /\ p[1] = q[1]
    BY <1>4, <1>7, <2>1
  <2>3. p # <<>> /\ Head(p) = p[1]
    BY <1>8, <2>2
  <2> QED BY <1>11, <1>12, <2>2, <2>3
<1>13. ASSUME p = q, q # <<>> PROVE Sender(Head(q).request) # c
  <2>1. Head(q).request \in RequestsOf(q)
    BY <1>11, <1>13 DEF RequestsOf
  <2> QED BY <1>9, <1>13, <2>1
<1> QED BY <1>5, <1>8, <1>9, <1>10, <1>12, <1>13

-----------------------------------------------------------------------------
(* Requests, references and replies.                                        *)

(* How many of the requests R are those of client c.                        *)
Count(R, c) == Cardinality({r \in R : Sender(r) = c})

LEMMA CountIs ==
  ASSUME NEW W, IsFiniteSet(W), NEW c
  PROVE  /\ Count(W, c) \in Nat
         /\ \A R \in SUBSET W :
               /\ Count(R, c) \in Nat /\ IsFiniteSet(R)
               /\ Count(W \ R, c) = Count(W, c) - Count(R, c)
         /\ \A r : r \notin W =>
               Count(W \union {r}, c)
                   = Count(W, c) + (IF Sender(r) = c THEN 1 ELSE 0)
<1>1. PICK A : A = {r \in W : Sender(r) = c}
  OBVIOUS
<1>2. A \in SUBSET W
  BY <1>1
<1>3. IsFiniteSet(A) /\ Cardinality(A) \in Nat /\ Count(W, c) = Cardinality(A)
  BY <1>1, <1>2, FS_Subset, FS_CardinalityType DEF Count
<1>4. ASSUME NEW R \in SUBSET W
      PROVE  /\ Count(R, c) \in Nat /\ IsFiniteSet(R)
             /\ Count(W \ R, c) = Count(W, c) - Count(R, c)
  <2>1. PICK B : B = {r \in R : Sender(r) = c}
    OBVIOUS
  <2>2. IsFiniteSet(R)
    BY FS_Subset
  <2>3. B \in SUBSET R /\ A \intersect B = B /\ A \ B = {r \in W \ R : Sender(r) = c}
    BY <1>1, <2>1
  <2>4. IsFiniteSet(B) /\ Cardinality(B) \in Nat
    BY <2>2, <2>3, FS_Subset, FS_CardinalityType
  <2>5. Cardinality(A \ B) = Cardinality(A) - Cardinality(A \intersect B)
    BY <1>3, FS_Difference
  <2>6. Count(R, c) = Cardinality(B) /\ Count(W \ R, c) = Cardinality(A \ B)
    BY <2>1, <2>3 DEF Count
  <2> QED BY <1>3, <2>2, <2>3, <2>4, <2>5, <2>6
<1>5. ASSUME NEW r, r \notin W
      PROVE  Count(W \union {r}, c)
                 = Count(W, c) + (IF Sender(r) = c THEN 1 ELSE 0)
  <2>1. r \notin A
    BY <1>2, <1>5
  <2>2. CASE Sender(r) = c
    <3>1. {x \in W \union {r} : Sender(x) = c} = A \union {r}
      BY <1>1, <2>2
    <3>2. Cardinality(A \union {r}) = Cardinality(A) + 1
      BY <1>3, <2>1, FS_AddElement
    <3>3. Count(W \union {r}, c) = Cardinality(A \union {r})
      BY <3>1 DEF Count
    <3> QED BY <1>3, <2>2, <3>2, <3>3
  <2>3. CASE Sender(r) # c
    <3>1. {x \in W \union {r} : Sender(x) = c} = A
      BY <1>1, <2>3
    <3>2. Count(W \union {r}, c) = Cardinality(A)
      BY <3>1 DEF Count
    <3> QED BY <1>3, <2>3, <3>2
  <2> QED BY <2>2, <2>3
<1> QED BY <1>3, <1>4, <1>5

LEMMA RequestIs ==
  ASSUME NEW r \in Request
  PROVE  /\ Sender(r) \in Client /\ r[2] \in 1..MaxRequests[Sender(r)]
         /\ r[2] \in Nat /\ r = <<Sender(r), r[2]>>
BY BoundAssumption DEF Request, Sender

(* What is received is the next request of its client.                      *)
LEMMA ReceivedIs ==
  ASSUME TypeOK, NEW c \in Client, Receive(c)
  PROVE  /\ Received(c) \in Request /\ Sender(Received(c)) = c
         /\ ~IsSent(Received(c)) /\ link[c] = "open"
         /\ \A r \in Request : IsSent(r)' <=> IsSent(r) \/ r = Received(c)
         /\ sent' \in [Client -> Nat]
         /\ \A d \in Client : sent'[d] <= MaxRequests[d]
<1>1. sent[c] \in Nat /\ MaxRequests[c] \in Nat /\ sent[c] + 1 <= MaxRequests[c]
  <2>1. sent[c] \in Nat /\ MaxRequests[c] \in Nat
    BY BoundAssumption DEF TypeOK
  <2>2. sent[c] < MaxRequests[c]
    BY DEF Receive
  <2> QED BY <2>1, <2>2
<1>2. Received(c) = <<c, sent[c] + 1>> /\ sent[c] + 1 \in 1..MaxRequests[c]
  BY <1>1 DEF Received
<1>3. Received(c) \in Request /\ Sender(Received(c)) = c
  BY <1>2 DEF Request, Sender
<1>4. sent' \in [Client -> Nat] /\ sent' = [sent EXCEPT ![c] = sent[c] + 1]
  BY <1>1 DEF TypeOK, Receive
<1>5. \A d \in Client : sent'[d] <= MaxRequests[d]
  BY <1>1, <1>4 DEF TypeOK
<1>6. ~IsSent(Received(c))
  BY <1>1, <1>2, <1>3 DEF IsSent
<1>7. ASSUME NEW r \in Request
      PROVE  IsSent(r)' <=> IsSent(r) \/ r = Received(c)
  <2>1. IsSent(r) <=> r[2] <= sent[Sender(r)]
    BY DEF IsSent
  <2>2. IsSent(r)' <=> r[2] <= sent'[Sender(r)]
    BY DEF IsSent, Sender
  <2>3. CASE Sender(r) = c
    <3>1. sent'[Sender(r)] = sent[c] + 1 /\ r = <<c, r[2]>> /\ r[2] \in Nat
      BY <1>4, <2>3, RequestIs DEF TypeOK
    <3>2. r = Received(c) <=> r[2] = sent[c] + 1
      BY <1>2, <3>1
    <3> QED BY <1>1, <2>1, <2>2, <2>3, <3>1, <3>2
  <2>4. CASE Sender(r) # c
    <3>1. sent'[Sender(r)] = sent[Sender(r)] /\ r # Received(c)
      BY <1>3, <1>4, <2>4, RequestIs DEF TypeOK
    <3> QED BY <2>1, <2>2, <3>1
  <2> QED BY <2>3, <2>4
<1> QED BY <1>3, <1>4, <1>5, <1>6, <1>7 DEF Receive

(* The messages new are the messages old, with one more for each of the     *)
(* requests R whose connection is open in l.                                *)
OneMore(new, old, R, l) ==
    /\ DOMAIN new = Request
    /\ \A r \in Request :
          /\ new[r] \in Seq(Message)
          /\ (r \in R /\ l[Sender(r)] = "open"
                 => new[r] # <<>> /\ (old[r] = <<>> => Len(new[r]) <= 1))
          /\ (~(r \in R /\ l[Sender(r)] = "open") => new[r] = old[r])

LEMMA AnsweredIs ==
  ASSUME NEW written, DOMAIN written = Request,
         \A r \in Request : written[r] \in Seq(Message),
         NEW m \in Message, NEW R, NEW l
  PROVE  OneMore(Answered(written, R, m, l), written, R, l)
<1>1. ASSUME NEW r \in Request
      PROVE  /\ Append(written[r], m) \in Seq(Message)
             /\ Append(written[r], m) # <<>>
             /\ written[r] = <<>> => Len(Append(written[r], m)) <= 1
  <2>1. PICK q \in Seq(Message) : q = written[r]
    OBVIOUS
  <2>2. Append(q, m) \in Seq(Message) /\ Append(q, m) # <<>>
    BY AppendIs
  <2>3. q = <<>> => Len(Append(q, m)) <= 1
    OBVIOUS
  <2> QED BY <2>1, <2>2, <2>3
<1>2. PICK w : w = Answered(written, R, m, l)
  OBVIOUS
<1>3. w = [r \in Request |-> IF r \in R /\ l[Sender(r)] = "open"
                             THEN Append(written[r], m) ELSE written[r]]
  BY <1>2 DEF Answered
<1>4. OneMore(w, written, R, l)
  BY <1>1, <1>3 DEF OneMore
<1> QED BY <1>2, <1>4

-----------------------------------------------------------------------------
(* The books of the connections: their references and what was written.     *)

LEMMA PlacesAre ==
  ASSUME TypeOK, WaitsOnce
  PROVE  /\ Prompts = RequestsOf(entries) /\ Watching = RequestsOf(watches)
         /\ Prompts \subseteq Request /\ Watching \subseteq Request
         /\ Waiting \subseteq Request /\ IsFiniteSet(Waiting)
         /\ Cardinality(Waiting)
                = Len(entries) + Len(watches) + Cardinality(controls)
<1>1. Prompts = RequestsOf(entries) /\ Watching = RequestsOf(watches)
  BY DEF Prompts, Watching, RequestsOf
<1>2. entries \in Seq(Entry) /\ watches \in Seq(Watch) /\ controls \subseteq Request
  BY DEF TypeOK
<1>3. \A i \in DOMAIN entries : entries[i].request \in Request
  <2>1. \A i \in DOMAIN entries : entries[i] \in Entry
    BY <1>2, LenProperties
  <2> QED BY <2>1 DEF Entry
<1>4. \A i \in DOMAIN watches : watches[i].request \in Request
  <2>1. \A i \in DOMAIN watches : watches[i] \in Watch
    BY <1>2, LenProperties
  <2> QED BY <2>1 DEF Watch
<1>5. Prompts \subseteq Request /\ Watching \subseteq Request
  BY <1>3, <1>4 DEF Prompts, Watching
<1>6. IsFiniteSet(Prompts) /\ Cardinality(Prompts) = Len(entries)
  BY <1>1, <1>2, CountRequests DEF WaitsOnce, PlacesApart
<1>7. IsFiniteSet(Watching) /\ Cardinality(Watching) = Len(watches)
  BY <1>1, <1>2, CountRequests DEF WaitsOnce, PlacesApart
<1>8. PICK A : A = Prompts
  OBVIOUS
<1>9. PICK B : B = Watching
  OBVIOUS
<1>10. PICK C : C = controls
  OBVIOUS
<1>11. /\ IsFiniteSet(A) /\ IsFiniteSet(B) /\ IsFiniteSet(C)
       /\ A \intersect B = {} /\ (A \union B) \intersect C = {}
  BY <1>6, <1>7, <1>8, <1>9, <1>10 DEF WaitsOnce, PlacesApart
<1>12. /\ Cardinality(A) \in Nat /\ Cardinality(B) \in Nat /\ Cardinality(C) \in Nat
       /\ Cardinality({}) = 0
  BY <1>11, FS_CardinalityType, FS_EmptySet
<1>13. /\ IsFiniteSet(A \union B)
       /\ Cardinality(A \union B)
              = Cardinality(A) + Cardinality(B) - Cardinality(A \intersect B)
  BY <1>11, FS_Union
<1>14. /\ IsFiniteSet((A \union B) \union C)
       /\ Cardinality((A \union B) \union C)
              = Cardinality(A \union B) + Cardinality(C)
                    - Cardinality((A \union B) \intersect C)
  BY <1>11, <1>13, FS_Union
<1>15. Cardinality((A \union B) \union C)
           = Cardinality(A) + Cardinality(B) + Cardinality(C)
  <2>1. /\ Cardinality(A \intersect B) = 0
        /\ Cardinality((A \union B) \intersect C) = 0
    BY <1>11, <1>12
  <2>2. Cardinality(A \union B) = Cardinality(A) + Cardinality(B)
    BY <1>12, <1>13, <2>1
  <2> QED BY <1>12, <1>14, <2>1, <2>2
<1>16. Waiting = (A \union B) \union C
  BY <1>8, <1>9, <1>10 DEF Waiting
<1>17. Waiting \subseteq Request
  BY <1>2, <1>5 DEF Waiting
<1> QED BY <1>1, <1>5, <1>6, <1>7, <1>8, <1>9, <1>10, <1>14, <1>15, <1>16, <1>17

(* A request that starts to wait takes a reference on its connection.       *)
LEMMA ReferencesTaken ==
  ASSUME TypeOK, WaitsOnce, ReferencesCounted, NEW c \in Client, Receive(c),
         TakeReference(c), link' = link, Waiting' = Waiting \union {Received(c)}
  PROVE  refs' \in [Client -> Nat] /\ ReferencesCounted'
<1>1. PICK W : W = Waiting
  OBVIOUS
<1>2. PICK r \in Request : r = Received(c)
  BY ReceivedIs
<1>3. IsFiniteSet(W) /\ r \notin W /\ Sender(r) = c
  BY <1>1, <1>2, PlacesAre, ReceivedIs DEF WaitsOnce, PlacesApart
<1>4. refs \in [Client -> Nat]
  BY DEF TypeOK
<1>5. refs' \in [Client -> Nat]
  BY <1>4 DEF TakeReference
<1>6. ASSUME NEW d \in Client
      PROVE  refs'[d] = (IF link'[d] = "open" THEN 1 ELSE 0)
                            + Cardinality({x \in Waiting' : Sender(x) = d})
  <2>1. refs[d] = (IF link[d] = "open" THEN 1 ELSE 0) + Count(W, d)
    BY <1>1 DEF ReferencesCounted, Count
  <2>2. Count(W, d) \in Nat
        /\ Count(W \union {r}, d) = Count(W, d) + (IF c = d THEN 1 ELSE 0)
    BY <1>3, CountIs
  <2>3. refs'[d] = refs[d] + (IF c = d THEN 1 ELSE 0)
    BY <1>4 DEF TakeReference
  <2>4. Cardinality({x \in Waiting' : Sender(x) = d}) = Count(W \union {r}, d)
    BY <1>1, <1>2 DEF Count
  <2>5. PICK n \in Nat : n = Count(W, d)
    BY <2>2
  <2> QED BY <2>1, <2>2, <2>3, <2>4, <2>5
<1>7. ReferencesCounted'
  BY <1>6 DEF ReferencesCounted, Sender
<1> QED BY <1>5, <1>7

(* Requests that end their wait drop theirs.                                *)
LEMMA ReferencesDropped ==
  ASSUME TypeOK, WaitsOnce, ReferencesCounted, NEW R \in SUBSET Waiting,
         refs' = Dropped(R), link' = link, Waiting' = Waiting \ R
  PROVE  refs' \in [Client -> Nat] /\ ReferencesCounted'
<1>1. PICK W : W = Waiting
  OBVIOUS
<1>2. IsFiniteSet(W) /\ R \in SUBSET W
  BY <1>1, PlacesAre
<1>3. refs \in [Client -> Nat]
  BY DEF TypeOK
<1>4. ASSUME NEW d \in Client
      PROVE  /\ refs'[d] \in Nat
             /\ refs'[d] = (IF link'[d] = "open" THEN 1 ELSE 0)
                               + Cardinality({x \in Waiting' : Sender(x) = d})
  <2>1. refs[d] = (IF link[d] = "open" THEN 1 ELSE 0) + Count(W, d)
    BY <1>1 DEF ReferencesCounted, Count
  <2>2. /\ Count(W, d) \in Nat /\ Count(R, d) \in Nat
        /\ Count(W \ R, d) = Count(W, d) - Count(R, d)
    BY <1>2, CountIs
  <2>3. refs'[d] = refs[d] - Count(R, d)
    BY DEF Dropped, Count
  <2>4. Cardinality({x \in Waiting' : Sender(x) = d}) = Count(W \ R, d)
    BY <1>1 DEF Count
  <2>5. Count(W \ R, d) \in Nat
    BY <1>2, CountIs, FS_Subset
  <2>6. PICK n \in Nat : n = Count(W, d)
    BY <2>2
  <2>7. PICK m \in Nat : m = Count(R, d)
    BY <2>2
  <2> QED BY <2>1, <2>2, <2>3, <2>4, <2>5, <2>6, <2>7
<1>5. refs' \in [Client -> Nat]
  BY <1>4 DEF Dropped
<1>6. ReferencesCounted'
  BY <1>4 DEF ReferencesCounted, Sender
<1> QED BY <1>5, <1>6

(* The replies of the sent requests that do not wait.                       *)
RepliesTyped ==
    DOMAIN reply = Request /\ \A r \in Request : reply[r] \in Seq(Message)

LEMMA RepliesStart ==
  ASSUME TypeOK, WaitsOnce, RepliesAreExact, NEW c \in Client, Receive(c),
         reply' = reply, link' = link, Waiting' = Waiting \union {Received(c)},
         (Prompts \union Watching)'
             \subseteq Prompts \union Watching \union {Received(c)}
  PROVE  RepliesTyped' /\ RepliesAreExact' /\ \A r \in Waiting' : IsSent(r)'
<1>1. /\ ~IsSent(Received(c)) /\ link[c] = "open" /\ Received(c) \in Request
      /\ \A r \in Request : IsSent(r)' <=> IsSent(r) \/ r = Received(c)
      /\ Sender(Received(c)) = c
  BY ReceivedIs
<1>2. \A r \in Waiting' : IsSent(r)'
  BY <1>1, PlacesAre DEF WaitsOnce, PlacesApart
<1>3. RepliesTyped'
  BY DEF TypeOK, RepliesTyped
<1>4. ASSUME NEW r \in Request
      PROVE  /\ Len(reply'[r]) <= 1
             /\ reply'[r] # <<>> => IsSent(r)' /\ r \notin Waiting'
             /\ IsSent(r)' /\ link'[Sender(r)] = "open"
                    => r \in Waiting' \/ reply'[r] # <<>>
             /\ link'[Sender(r)] # "open" => r \notin (Prompts \union Watching)'
  BY <1>1 DEF RepliesAreExact
<1>5. RepliesAreExact'
  BY <1>4 DEF RepliesAreExact, Sender
<1> QED BY <1>2, <1>3, <1>5

(* A request that is answered at once leaves the others as they wait, but   *)
(* for those of R, which are answered too.                                  *)
LEMMA RepliesAtOnce ==
  ASSUME TypeOK, WaitsOnce, RepliesAreExact, NEW c \in Client, Receive(c),
         NEW R \in SUBSET Waiting, NEW w, OneMore(w, reply, R, link),
         NEW n \in Message, reply' = Answered(w, {Received(c)}, n, link),
         link' = link, Waiting' = Waiting \ R,
         (Prompts \union Watching)' \subseteq Prompts \union Watching
  PROVE  RepliesTyped' /\ RepliesAreExact' /\ \A r \in Waiting' : IsSent(r)'
<1>1. /\ ~IsSent(Received(c)) /\ link[c] = "open" /\ Received(c) \in Request
      /\ \A r \in Request : IsSent(r)' <=> IsSent(r) \/ r = Received(c)
      /\ Sender(Received(c)) = c
  BY ReceivedIs
<1>2. Waiting \subseteq Request /\ \A r \in Waiting : IsSent(r)
  BY PlacesAre DEF WaitsOnce, PlacesApart
<1>3. OneMore(reply', w, {Received(c)}, link)
  <2>1. PICK v : v = {Received(c)}
    OBVIOUS
  <2>2. PICK l : l = link
    OBVIOUS
  <2>3. DOMAIN w = Request /\ \A r \in Request : w[r] \in Seq(Message)
    BY DEF OneMore
  <2>4. OneMore(Answered(w, v, n, l), w, v, l)
    BY <2>3, AnsweredIs
  <2> QED BY <2>1, <2>2, <2>4
<1>4. ASSUME NEW r \in Request
      PROVE  /\ Len(reply'[r]) <= 1
             /\ reply'[r] # <<>> => IsSent(r)' /\ r \notin Waiting'
             /\ IsSent(r)' /\ link'[Sender(r)] = "open"
                    => r \in Waiting' \/ reply'[r] # <<>>
             /\ link'[Sender(r)] # "open" => r \notin (Prompts \union Watching)'
  <2>1. /\ Len(reply[r]) <= 1
        /\ (reply[r] # <<>> => IsSent(r) /\ r \notin Waiting)
        /\ (IsSent(r) /\ link[Sender(r)] = "open" => r \in Waiting \/ reply[r] # <<>>)
        /\ (link[Sender(r)] # "open" => r \notin Prompts \union Watching)
    BY DEF RepliesAreExact
  <2>2. Len(<<>>) = 0
    OBVIOUS
  <2>3. CASE r = Received(c)
    <3>1. reply[r] = <<>> /\ r \notin R /\ r \notin Waiting
      BY <1>1, <1>2, <2>1, <2>3
    <3>2. w[r] = <<>>
      BY <3>1 DEF OneMore
    <3>3. reply'[r] # <<>> /\ Len(reply'[r]) <= 1
      BY <1>1, <1>3, <2>3, <3>2 DEF OneMore
    <3> QED BY <1>1, <2>3, <3>1, <3>3
  <2>4. CASE r # Received(c)
    <3>1. reply'[r] = w[r] /\ (IsSent(r)' <=> IsSent(r))
      BY <1>1, <1>3, <2>4 DEF OneMore
    <3>2. CASE r \in R /\ link[Sender(r)] = "open"
      <4>1. IsSent(r) /\ reply[r] = <<>>
        BY <1>2, <2>1, <3>2
      <4>2. w[r] # <<>> /\ Len(w[r]) <= 1
        BY <3>2, <4>1 DEF OneMore
      <4> QED BY <3>1, <3>2, <4>1, <4>2
    <3>3. CASE ~(r \in R /\ link[Sender(r)] = "open")
      <4>1. w[r] = reply[r]
        BY <3>3 DEF OneMore
      <4> QED BY <2>1, <3>1, <3>3, <4>1
    <3> QED BY <3>2, <3>3
  <2> QED BY <2>3, <2>4
<1>5. RepliesAreExact'
  BY <1>4 DEF RepliesAreExact, Sender
<1> QED BY <1>1, <1>2, <1>3, <1>5 DEF RepliesTyped, OneMore

(* The requests that end their wait are answered, or their client is gone.  *)
LEMMA RepliesEnd ==
  ASSUME TypeOK, WaitsOnce, RepliesAreExact,
         NEW R \in SUBSET Waiting, OneMore(reply', reply, R, link'),
         link' \in [Client -> {"new", "open", "hungup"}],
         \A d \in Client : link'[d] = "open" => link[d] = "open",
         sent' = sent, Waiting' = Waiting \ R,
         (Prompts \union Watching)' \subseteq Prompts \union Watching,
         \A r \in Request : link'[Sender(r)] # "open"
             => link[Sender(r)] # "open" \/ r \notin (Prompts \union Watching)'
  PROVE  RepliesTyped' /\ RepliesAreExact' /\ \A r \in Waiting' : IsSent(r)'
<1>1. \A r \in Request : IsSent(r)' <=> IsSent(r)
  BY DEF IsSent, Sender
<1>2. Waiting \subseteq Request /\ \A r \in Waiting : IsSent(r)
  BY PlacesAre DEF WaitsOnce, PlacesApart
<1>3. ASSUME NEW r \in Request
      PROVE  /\ Len(reply'[r]) <= 1
             /\ reply'[r] # <<>> => IsSent(r)' /\ r \notin Waiting'
             /\ IsSent(r)' /\ link'[Sender(r)] = "open"
                    => r \in Waiting' \/ reply'[r] # <<>>
             /\ link'[Sender(r)] # "open" => r \notin (Prompts \union Watching)'
  <2>1. /\ Len(reply[r]) <= 1
        /\ (reply[r] # <<>> => IsSent(r) /\ r \notin Waiting)
        /\ (IsSent(r) /\ link[Sender(r)] = "open" => r \in Waiting \/ reply[r] # <<>>)
        /\ (link[Sender(r)] # "open" => r \notin Prompts \union Watching)
    BY DEF RepliesAreExact
  <2>2. /\ Sender(r) \in Client
        /\ (link'[Sender(r)] = "open" => link[Sender(r)] = "open")
    BY RequestIs
  <2>3. CASE r \in R /\ link'[Sender(r)] = "open"
    <3>1. IsSent(r) /\ reply[r] = <<>>
      BY <1>2, <2>1, <2>3
    <3>2. reply'[r] # <<>> /\ Len(reply'[r]) <= 1
      BY <2>3, <3>1 DEF OneMore
    <3> QED BY <1>1, <2>3, <3>1, <3>2
  <2>4. CASE ~(r \in R /\ link'[Sender(r)] = "open")
    <3>1. reply'[r] = reply[r]
      BY <2>4 DEF OneMore
    <3> QED BY <1>1, <2>1, <2>2, <2>4, <3>1
  <2> QED BY <2>3, <2>4
<1>4. RepliesAreExact'
  BY <1>3 DEF RepliesAreExact, Sender
<1> QED BY <1>1, <1>2, <1>4 DEF RepliesTyped, OneMore

-----------------------------------------------------------------------------
(* The parts of the invariant, as the steps disturb them.                   *)

ConnectionsTyped ==
    /\ link \in [Client -> {"new", "open", "hungup"}]
    /\ refs \in [Client -> Nat]
    /\ sent \in [Client -> Nat] /\ \A c \in Client : sent[c] <= MaxRequests[c]
    /\ phase \in {"running", "freed", "crashed"}

QueuesTyped ==
    /\ controls \subseteq Request
    /\ entries \in Seq(Entry)
    /\ watches \in Seq(Watch)
    /\ buffer \in Text /\ Len(buffer) <= MaxText

OnlyBullets == \A i \in DOMAIN screen.text : screen.text[i].type = "question"

DisplayIsSound ==
    /\ shown \in BOOLEAN /\ splash \in BOOLEAN
    /\ screen \in [prompt : SUBSET Entry, bullets : 0..MaxText, text : Text]
    /\ ScreenIsCurrent
    /\ TypedForHead
    /\ OnlyBullets

CacheIsApart ==
    /\ cached \in Seq(Message)
    /\ \A m \in ToSet(cached), i, j \in 1..MaxText :
           {i, j} \subseteq DOMAIN m.text
               => m.text[i] = m.text[j] /\ m.text[i].type = "password"

LEMMA PartsOf ==
  ASSUME IInv
  PROVE  /\ TypeOK /\ ConnectionsTyped /\ QueuesTyped /\ RepliesTyped
         /\ DisplayIsSound /\ CacheIsApart
         /\ WaitsOnce /\ RepliesAreExact /\ ReferencesCounted /\ NewIsSilent
<1>1. TypeOK /\ ConnectionsTyped /\ QueuesTyped /\ RepliesTyped
  BY DEF IInv, TypeOK, ConnectionsTyped, QueuesTyped, RepliesTyped
<1>2. DisplayIsSound /\ CacheIsApart
  BY DEF IInv, TypeOK, DisplayIsSound, CacheIsApart, PasswordsKeptApart, OnlyBullets
<1> QED BY <1>1, <1>2 DEF IInv

LEMMA WholeNext ==
  ASSUME ConnectionsTyped', QueuesTyped', RepliesTyped',
         DisplayIsSound', CacheIsApart',
         WaitsOnce', RepliesAreExact', ReferencesCounted', NewIsSilent'
  PROVE  IInv'
<1>1. TypeOK'
  BY DEF TypeOK, ConnectionsTyped, QueuesTyped, RepliesTyped, DisplayIsSound,
         CacheIsApart
<1>2. PasswordsKeptApart'
  BY DEF DisplayIsSound, CacheIsApart, PasswordsKeptApart, OnlyBullets
<1> QED BY <1>1, <1>2 DEF IInv, DisplayIsSound

LEMMA PlainIs ==
  /\ \A t \in {"ack", "none", "interrupt", "key", "passwords"} :
         Plain(t) \in Message
  /\ \A b \in Text : Line(b) \in Message
BY DEF Plain, Line, Message, Text

(* A picture of what was typed for the head of the queue.                   *)
LEMMA PictureIs ==
  ASSUME NEW es \in Seq(Entry), NEW typed \in Text, Len(typed) <= MaxText,
         \A i \in DOMAIN typed : es # <<>> /\ typed[i] = Head(es)
  PROVE  /\ Picture(es, typed)
                \in [prompt : SUBSET Entry, bullets : 0..MaxText, text : Text]
         /\ \A i \in DOMAIN Picture(es, typed).text :
                Picture(es, typed).text[i].type = "question"
<1>1. /\ Len(typed) \in 0..MaxText /\ 0 \in 0..MaxText
      /\ <<>> \in Text /\ DOMAIN <<>> = {}
  BY BoundAssumption DEF Text
<1>2. CASE es = <<>>
  BY <1>1, <1>2 DEF Picture
<1>3. CASE es # <<>>
  <2>1. Head(es) \in Entry
    BY <1>3, HeadTailProperties
  <2>2. Head(es).type \in {"password", "question"}
    BY <2>1 DEF Entry
  <2>3. CASE Head(es).type = "password"
    BY <1>1, <1>3, <2>1, <2>3 DEF Picture
  <2>4. CASE Head(es).type # "password"
    BY <1>1, <1>3, <2>1, <2>2, <2>4 DEF Picture
  <2> QED BY <2>3, <2>4
<1> QED BY <1>2, <1>3

LEMMA NormalIs ==
  /\ Normal = [prompt |-> {}, bullets |-> 0, text |-> <<>>]
  /\ Normal \in [prompt : SUBSET Entry, bullets : 0..MaxText, text : Text]
  /\ DOMAIN Normal.text = {}
<1>1. Normal = [prompt |-> {}, bullets |-> 0, text |-> <<>>]
  BY DEF Normal, Picture
<1>2. 0 \in 0..MaxText /\ <<>> \in Text /\ DOMAIN <<>> = {}
  BY BoundAssumption DEF Text
<1> QED BY <1>1, <1>2

(* Updating the display keeps it sound, and so does leaving all alone.      *)
LEMMA DisplayUpdated ==
  ASSUME DisplayIsSound, QueuesTyped', TypedForHead',
         shown' \in BOOLEAN, splash' \in BOOLEAN,
         UpdateDisplay(entries', buffer', splash')
  PROVE  DisplayIsSound'
<1>1. PICK p : p = Picture(entries', buffer')
  OBVIOUS
<1>2. /\ p \in [prompt : SUBSET Entry, bullets : 0..MaxText, text : Text]
      /\ \A i \in DOMAIN p.text : p.text[i].type = "question"
  BY <1>1, PictureIs DEF QueuesTyped, TypedForHead
<1>3. splash' => screen' = p
  BY <1>1 DEF UpdateDisplay
<1>4. ~splash' => screen' = screen
  BY DEF UpdateDisplay
<1>5. ScreenIsCurrent'
  BY <1>1, <1>3 DEF ScreenIsCurrent, Picture
<1>6. /\ screen' \in [prompt : SUBSET Entry, bullets : 0..MaxText, text : Text]
      /\ \A i \in DOMAIN screen'.text : screen'.text[i].type = "question"
  BY <1>2, <1>3, <1>4 DEF DisplayIsSound, OnlyBullets
<1> QED BY <1>5, <1>6 DEF DisplayIsSound, OnlyBullets

LEMMA DisplayKept ==
  ASSUME DisplayIsSound, UNCHANGED <<entries, buffer, shown, splash, screen>>
  PROVE  DisplayIsSound'
BY DEF DisplayIsSound, OnlyBullets, ScreenIsCurrent, TypedForHead, Picture

LEMMA CacheKept ==
  ASSUME CacheIsApart, UNCHANGED cached
  PROVE  CacheIsApart'
BY DEF CacheIsApart, ToSet

LEMMA QueuesKept ==
  ASSUME QueuesTyped, PlacesApart, UNCHANGED <<entries, watches, controls, buffer>>
  PROVE  /\ QueuesTyped' /\ PlacesApart'
         /\ Prompts' = Prompts /\ Watching' = Watching /\ Waiting' = Waiting
<1>1. Prompts' = Prompts /\ Watching' = Watching
  BY DEF Prompts, Watching
<1>2. Waiting' = Waiting
  BY <1>1 DEF Waiting
<1>3. QueuesTyped'
  BY DEF QueuesTyped
<1>4. PlacesApart'
  BY <1>1 DEF PlacesApart, Distinct
<1> QED BY <1>1, <1>2, <1>3, <1>4

-----------------------------------------------------------------------------
(* Every step keeps the invariant: the steps that leave the queues alone.   *)

LEMMA StutterKeeps ==
  ASSUME IInv, UNCHANGED vars
  PROVE  IInv'
<1> USE DEF vars, connections, interaction, display
<1>1. DisplayIsSound' /\ CacheIsApart'
  BY PartsOf, DisplayKept, CacheKept
<1>2. QueuesTyped' /\ PlacesApart' /\ Prompts' = Prompts /\ Watching' = Watching
      /\ Waiting' = Waiting
  BY PartsOf, QueuesKept DEF WaitsOnce
<1>3. ConnectionsTyped' /\ RepliesTyped' /\ NewIsSilent'
  BY PartsOf DEF ConnectionsTyped, RepliesTyped, NewIsSilent
<1>4. \A r : IsSent(r)' <=> IsSent(r)
  BY DEF IsSent, Sender
<1>5. WaitsOnce'
  BY <1>2, <1>4, PartsOf DEF WaitsOnce
<1>6. RepliesAreExact'
  BY <1>2, <1>4, PartsOf DEF RepliesAreExact, Sender
<1>7. ReferencesCounted'
  BY <1>2, PartsOf DEF ReferencesCounted, Sender
<1> QED BY <1>1, <1>2, <1>3, <1>5, <1>6, <1>7, WholeNext

LEMMA NewConnectionKeeps ==
  ASSUME IInv, NEW c \in Client, OnNewConnection(c)
  PROVE  IInv'
<1> USE DEF interaction, display
<1>1. /\ phase' = phase /\ link[c] = "new"
      /\ link' = [link EXCEPT ![c] = "open"] /\ refs' = [refs EXCEPT ![c] = 1]
      /\ UNCHANGED <<sent, reply, cached, controls, entries, watches, buffer,
                     shown, splash, screen>>
  BY DEF OnNewConnection, Runs
<1>2. DisplayIsSound' /\ CacheIsApart'
  BY <1>1, PartsOf, DisplayKept, CacheKept
<1>3. /\ QueuesTyped' /\ PlacesApart'
      /\ Prompts' = Prompts /\ Watching' = Watching /\ Waiting' = Waiting
  BY <1>1, PartsOf, QueuesKept DEF WaitsOnce
<1>4. \A r : IsSent(r)' <=> IsSent(r)
  BY <1>1 DEF IsSent, Sender
<1>5. WaitsOnce'
  BY <1>3, <1>4, PartsOf DEF WaitsOnce
<1>6. ConnectionsTyped' /\ RepliesTyped' /\ NewIsSilent'
  BY <1>1, PartsOf DEF ConnectionsTyped, RepliesTyped, NewIsSilent
<1>7. \A r \in Request : Sender(r) = c => ~IsSent(r) /\ r \notin Waiting
  <2> SUFFICES ASSUME NEW r \in Request, Sender(r) = c
               PROVE  ~IsSent(r) /\ r \notin Waiting
    OBVIOUS
  <2>1. sent[c] = 0 /\ r[2] \in 1..MaxRequests[c] /\ MaxRequests[c] \in Nat
    BY <1>1, PartsOf, RequestIs, BoundAssumption DEF NewIsSilent
  <2>2. ~IsSent(r)
    BY <2>1 DEF IsSent
  <2> QED BY <2>2, PartsOf DEF WaitsOnce
<1>8. RepliesAreExact'
  <2> SUFFICES ASSUME NEW r \in Request
               PROVE  /\ Len(reply'[r]) <= 1
                      /\ (reply'[r] # <<>> => IsSent(r)' /\ r \notin Waiting')
                      /\ (IsSent(r)' /\ link'[Sender(r)] = "open"
                             => r \in Waiting' \/ reply'[r] # <<>>)
                      /\ (link'[Sender(r)] # "open"
                             => r \notin (Prompts \union Watching)')
    BY DEF RepliesAreExact, Sender
  <2>1. Sender(r) # c => link'[Sender(r)] = link[Sender(r)]
    BY <1>1, RequestIs, PartsOf DEF ConnectionsTyped
  <2>2. Sender(r) = c => link'[Sender(r)] = "open"
    BY <1>1, PartsOf DEF ConnectionsTyped
  <2> QED BY <1>1, <1>3, <1>4, <1>7, <2>1, <2>2, PartsOf DEF RepliesAreExact
<1>9. ReferencesCounted'
  <2>1. PICK W : W = Waiting
    OBVIOUS
  <2>2. IsFiniteSet(W) /\ W \subseteq Request
    BY <2>1, PartsOf, PlacesAre
  <2>3. {r \in W : Sender(r) = c} = {}
    BY <1>7, <2>1, <2>2
  <2>4. Cardinality({r \in W : Sender(r) = c}) = 0
    BY <2>3, FS_EmptySet
  <2>5. ASSUME NEW d \in Client
        PROVE  refs'[d] = (IF link'[d] = "open" THEN 1 ELSE 0)
                              + Cardinality({r \in Waiting' : Sender(r) = d})
    <3>1. refs \in [Client -> Nat] /\ link \in [Client -> {"new", "open", "hungup"}]
      BY PartsOf DEF ConnectionsTyped
    <3>2. CASE d = c
      <4>1. refs'[d] = 1 /\ link'[d] = "open"
        BY <1>1, <3>1, <3>2
      <4>2. Cardinality({r \in Waiting' : Sender(r) = d}) = 0
        BY <1>3, <2>1, <2>4, <3>2
      <4> QED BY <4>1, <4>2
    <3>3. CASE d # c
      <4>1. refs'[d] = refs[d] /\ link'[d] = link[d]
        BY <1>1, <3>1, <3>3
      <4> QED BY <1>3, <4>1, PartsOf DEF ReferencesCounted
    <3> QED BY <3>2, <3>3
  <2> QED BY <2>5 DEF ReferencesCounted, Sender
<1> QED BY <1>2, <1>3, <1>5, <1>6, <1>8, <1>9, WholeNext

(* A request that is answered at once.                                      *)
LEMMA AtOnceKeeps ==
  ASSUME IInv, NEW c \in Client, Receive(c), NEW n \in Message,
         Write(c, n), UNCHANGED <<link, refs, cached, controls, entries, watches,
                                  buffer, shown, splash, screen>>
  PROVE  IInv'
<1>1. DisplayIsSound' /\ CacheIsApart'
  BY PartsOf, DisplayKept, CacheKept
<1>2. /\ QueuesTyped' /\ PlacesApart'
      /\ Prompts' = Prompts /\ Watching' = Watching /\ Waiting' = Waiting
  BY PartsOf, QueuesKept DEF WaitsOnce
<1>3. phase' = phase /\ sent' = [sent EXCEPT ![c] = @ + 1] /\ link[c] = "open"
  BY DEF Receive, Runs
<1>4. ConnectionsTyped'
  BY <1>3, PartsOf, ReceivedIs DEF ConnectionsTyped
<1>5. NewIsSilent'
  BY <1>3, PartsOf DEF NewIsSilent, ConnectionsTyped
<1>6. OneMore(reply, reply, {}, link)
  BY PartsOf DEF OneMore, RepliesTyped
<1>7. RepliesTyped' /\ RepliesAreExact' /\ \A r \in Waiting' : IsSent(r)'
  <2>1. reply' = Answered(reply, {Received(c)}, n, link)
    BY DEF Write
  <2>2. {} \in SUBSET Waiting /\ Waiting' = Waiting \ {}
    BY <1>2
  <2> QED BY <1>2, <1>6, <2>1, <2>2, PartsOf, RepliesAtOnce
<1>8. ReferencesCounted'
  BY <1>2, PartsOf DEF ReferencesCounted, Sender
<1> QED BY <1>1, <1>2, <1>4, <1>5, <1>7, <1>8, WholeNext DEF WaitsOnce

LEMMA PlainRequestKeeps ==
  ASSUME IInv, NEW c \in Client, OnPlainRequest(c) \/ OnCachedPasswordRequest(c)
  PROVE  IInv'
BY AtOnceKeeps, PlainIs
   DEF OnPlainRequest, OnCachedPasswordRequest, interaction, display

-----------------------------------------------------------------------------
(* The steps that start a wait.                                             *)

LEMMA WaitKeeps ==
  ASSUME IInv, NEW c \in Client, Receive(c), TakeReference(c),
         UNCHANGED <<link, reply, cached>>,
         QueuesTyped', DisplayIsSound', PlacesApart',
         Waiting' = Waiting \union {Received(c)},
         (Prompts \union Watching)'
             \subseteq Prompts \union Watching \union {Received(c)}
  PROVE  IInv'
<1>1. CacheIsApart'
  BY PartsOf, CacheKept
<1>2. phase' = phase /\ sent' = [sent EXCEPT ![c] = @ + 1] /\ link[c] = "open"
  BY DEF Receive, Runs
<1>3. RepliesTyped' /\ RepliesAreExact' /\ WaitsOnce'
  BY PartsOf, RepliesStart DEF WaitsOnce
<1>4. refs' \in [Client -> Nat] /\ ReferencesCounted'
  BY PartsOf, ReferencesTaken
<1>5. ConnectionsTyped'
  BY <1>2, <1>4, PartsOf, ReceivedIs DEF ConnectionsTyped
<1>6. NewIsSilent'
  BY <1>2, PartsOf DEF NewIsSilent, ConnectionsTyped
<1> QED BY <1>1, <1>3, <1>4, <1>5, <1>6, WholeNext

(* What is received was nowhere before.                                     *)
LEMMA ReceivedIsFresh ==
  ASSUME IInv, NEW c \in Client, Receive(c)
  PROVE  /\ Received(c) \in Request
         /\ Received(c) \notin Prompts /\ Received(c) \notin Watching
         /\ Received(c) \notin controls
<1>1. Received(c) \in Request /\ ~IsSent(Received(c))
  BY PartsOf, ReceivedIs
<1> QED BY <1>1, PartsOf DEF WaitsOnce, Waiting

LEMMA ControlRequestKeeps ==
  ASSUME IInv, NEW c \in Client, OnControlRequest(c)
  PROVE  IInv'
<1> USE DEF interaction, display
<1>1. /\ Receive(c) /\ TakeReference(c)
      /\ controls' = controls \union {Received(c)}
      /\ UNCHANGED <<link, reply, cached, entries, watches, buffer, shown,
                     splash, screen>>
  BY DEF OnControlRequest
<1>2. DisplayIsSound'
  BY <1>1, PartsOf, DisplayKept
<1>3. Prompts' = Prompts /\ Watching' = Watching
  BY <1>1 DEF Prompts, Watching
<1>4. Waiting' = Waiting \union {Received(c)}
  BY <1>1, <1>3 DEF Waiting
<1>5. QueuesTyped'
  BY <1>1, PartsOf, ReceivedIsFresh DEF QueuesTyped
<1>6. IsFiniteSet(controls')
  BY <1>1, PartsOf, FS_AddElement DEF WaitsOnce, PlacesApart
<1>7. PlacesApart'
  BY <1>1, <1>3, <1>6, PartsOf, ReceivedIsFresh
     DEF WaitsOnce, PlacesApart, Distinct
<1> QED BY <1>1, <1>2, <1>3, <1>4, <1>5, <1>7, WaitKeeps

LEMMA KeystrokeRequestKeeps ==
  ASSUME IInv, NEW c \in Client, NEW keys \in KeyString,
         OnKeystrokeRequest(c, keys)
  PROVE  IInv'
<1> USE DEF display
<1>1. PICK w : w = [request |-> Received(c), keys |-> keys]
  OBVIOUS
<1>2. /\ Receive(c) /\ TakeReference(c)
      /\ watches' = Append(watches, w)
      /\ UNCHANGED <<link, reply, cached, controls, entries, buffer, shown,
                     splash, screen>>
  BY <1>1 DEF OnKeystrokeRequest
<1>3. DisplayIsSound'
  BY <1>2, PartsOf, DisplayKept
<1>4. w \in Watch /\ w.request = Received(c)
  BY <1>1, <1>2, ReceivedIsFresh DEF Watch
<1>5. watches \in Seq(Watch) /\ Distinct(watches) /\ Watching = RequestsOf(watches)
  BY PartsOf, PlacesAre DEF QueuesTyped, WaitsOnce, PlacesApart
<1>6. w.request \notin RequestsOf(watches)
  BY <1>2, <1>4, <1>5, ReceivedIsFresh
<1>7. /\ watches' \in Seq(Watch) /\ Distinct(watches')
      /\ RequestsOf(watches') = Watching \union {Received(c)}
  BY <1>2, <1>4, <1>5, <1>6, AppendIs, AppendRequests
<1>8. Prompts' = Prompts /\ Watching' = Watching \union {Received(c)}
  BY <1>2, <1>7 DEF Prompts, Watching, RequestsOf
<1>9. Waiting' = Waiting \union {Received(c)}
  BY <1>2, <1>8 DEF Waiting
<1>10. QueuesTyped'
  BY <1>2, <1>7, PartsOf DEF QueuesTyped
<1>11. PlacesApart'
  BY <1>2, <1>7, <1>8, PartsOf, ReceivedIsFresh
     DEF WaitsOnce, PlacesApart, Distinct
<1> QED BY <1>2, <1>3, <1>8, <1>9, <1>10, <1>11, WaitKeeps

LEMMA QueueEntryKeeps ==
  ASSUME IInv, NEW c \in Client, NEW type \in {"password", "question"},
         Receive(c), splash' \in BOOLEAN, QueueEntry(c, type, splash')
  PROVE  IInv'
<1>1. PICK e : e = [request |-> Received(c), type |-> type]
  OBVIOUS
<1>2. /\ TakeReference(c) /\ entries' = Append(entries, e)
      /\ UpdateDisplay(entries', buffer', splash')
      /\ UNCHANGED <<link, reply, cached, controls, watches, buffer, shown>>
  BY <1>1 DEF QueueEntry
<1>3. e \in Entry /\ e.request = Received(c)
  BY <1>1, <1>2, ReceivedIsFresh DEF Entry
<1>4. entries \in Seq(Entry) /\ Distinct(entries) /\ Prompts = RequestsOf(entries)
  BY PartsOf, PlacesAre DEF QueuesTyped, WaitsOnce, PlacesApart
<1>5. e.request \notin RequestsOf(entries)
  BY <1>2, <1>3, <1>4, ReceivedIsFresh
<1>6. /\ entries' \in Seq(Entry) /\ Distinct(entries')
      /\ RequestsOf(entries') = Prompts \union {Received(c)}
      /\ entries' # <<>> /\ (entries # <<>> => Head(entries') = Head(entries))
  BY <1>2, <1>3, <1>4, <1>5, AppendIs, AppendRequests
<1>7. Prompts' = Prompts \union {Received(c)} /\ Watching' = Watching
  BY <1>2, <1>6 DEF Prompts, Watching, RequestsOf
<1>8. Waiting' = Waiting \union {Received(c)}
  BY <1>2, <1>7 DEF Waiting
<1>9. QueuesTyped'
  BY <1>2, <1>6, PartsOf DEF QueuesTyped
<1>10. PlacesApart'
  BY <1>2, <1>6, <1>7, PartsOf, ReceivedIsFresh
     DEF WaitsOnce, PlacesApart, Distinct
<1>11. TypedForHead'
  BY <1>2, <1>6, PartsOf DEF DisplayIsSound, TypedForHead
<1>12. shown' \in BOOLEAN
  BY <1>2, PartsOf DEF DisplayIsSound
<1>13. DisplayIsSound'
  BY <1>2, <1>9, <1>11, <1>12, PartsOf, DisplayUpdated
<1> QED BY <1>2, <1>7, <1>8, <1>9, <1>10, <1>13, WaitKeeps

LEMMA PasswordRequestKeeps ==
  ASSUME IInv, NEW c \in Client, NEW comes \in BOOLEAN,
         OnPasswordRequest(c, comes)
  PROVE  IInv'
<1>1. Receive(c)
  BY DEF OnPasswordRequest
<1>2. CASE splash \/ shown
  <2>1. splash' \in BOOLEAN /\ QueueEntry(c, "password", splash')
    BY <1>2, PartsOf DEF OnPasswordRequest, DisplayIsSound
  <2> QED BY <1>1, <2>1, QueueEntryKeeps
<1>3. CASE ~(splash \/ shown)
  BY <1>1, <1>3, AtOnceKeeps, PlainIs DEF OnPasswordRequest, interaction, display
<1> QED BY <1>2, <1>3

LEMMA QuestionRequestKeeps ==
  ASSUME IInv, NEW c \in Client, OnQuestionRequest(c)
  PROVE  IInv'
<1>1. Receive(c) /\ QueueEntry(c, "question", splash') /\ splash' = splash
  BY DEF OnQuestionRequest
<1>2. splash' \in BOOLEAN
  BY <1>1, PartsOf DEF DisplayIsSound
<1> QED BY <1>1, <1>2, QueueEntryKeeps

-----------------------------------------------------------------------------
(* The steps that end waits.                                                *)

LEMMA EndKeeps ==
  ASSUME IInv, NEW R \in SUBSET Waiting, NEW m \in Message, Pull(R, m),
         UNCHANGED <<link, sent, phase>>,
         QueuesTyped', DisplayIsSound', CacheIsApart', PlacesApart',
         Waiting' = Waiting \ R,
         (Prompts \union Watching)' \subseteq Prompts \union Watching
  PROVE  IInv'
<1>1. refs' = Dropped(R) /\ OneMore(reply', reply, R, link')
  BY AnsweredIs, PartsOf DEF Pull, RepliesTyped
<1>2. refs' \in [Client -> Nat] /\ ReferencesCounted'
  BY <1>1, PartsOf, ReferencesDropped
<1>3. ConnectionsTyped' /\ NewIsSilent'
  BY <1>2, PartsOf DEF ConnectionsTyped, NewIsSilent
<1>4. RepliesTyped' /\ RepliesAreExact' /\ WaitsOnce'
  BY <1>1, PartsOf, RepliesEnd DEF WaitsOnce, ConnectionsTyped
<1> QED BY <1>2, <1>3, <1>4, WholeNext

LEMMA ControlCompleteKeeps ==
  ASSUME IInv, NEW R \in SUBSET controls, OnControlComplete(R)
  PROVE  IInv'
<1> USE DEF interaction, display
<1>1. /\ phase' = phase /\ controls' = controls \ R /\ Pull(R, Plain("ack"))
      /\ UNCHANGED <<link, sent, cached, entries, watches, buffer, shown,
                     splash, screen>>
  BY DEF OnControlComplete, Runs
<1>2. DisplayIsSound' /\ CacheIsApart'
  BY <1>1, PartsOf, DisplayKept, CacheKept
<1>3. Prompts' = Prompts /\ Watching' = Watching
  BY <1>1 DEF Prompts, Watching
<1>4. Waiting' = Waiting \ R /\ R \in SUBSET Waiting
  BY <1>1, <1>3, PartsOf DEF Waiting, WaitsOnce, PlacesApart
<1>5. QueuesTyped'
  BY <1>1, PartsOf DEF QueuesTyped
<1>6. IsFiniteSet(controls')
  BY <1>1, PartsOf, FS_Subset DEF WaitsOnce, PlacesApart
<1>7. PlacesApart'
  BY <1>1, <1>3, <1>6, PartsOf DEF WaitsOnce, PlacesApart, Distinct
<1>8. Plain("ack") \in Message
  BY PlainIs
<1> QED BY <1>1, <1>2, <1>3, <1>4, <1>5, <1>7, <1>8, EndKeeps

(* A watch that ends its wait leaves its place to the next.                 *)
LEMMA WatchRemoved ==
  ASSUME IInv, NEW i \in DOMAIN watches, watches' = RemoveAt(watches, i),
         UNCHANGED <<entries, controls, buffer>>
  PROVE  /\ {watches[i].request} \in SUBSET Waiting
         /\ QueuesTyped' /\ PlacesApart'
         /\ Prompts' = Prompts /\ Watching' \subseteq Watching
         /\ Waiting' = Waiting \ {watches[i].request}
<1>1. watches \in Seq(Watch) /\ Distinct(watches) /\ Watching = RequestsOf(watches)
  BY PartsOf, PlacesAre DEF QueuesTyped, WaitsOnce, PlacesApart
<1>2. /\ watches' \in Seq(Watch) /\ Distinct(watches')
      /\ RequestsOf(watches') = Watching \ {watches[i].request}
      /\ watches[i].request \in Watching
  BY <1>1, RemoveRequests
<1>3. Prompts' = Prompts /\ Watching' = Watching \ {watches[i].request}
  BY <1>2 DEF Prompts, Watching, RequestsOf
<1>4. Waiting' = Waiting \ {watches[i].request} /\ watches[i].request \in Waiting
  BY <1>2, <1>3, PartsOf DEF Waiting, WaitsOnce, PlacesApart
<1>5. QueuesTyped'
  BY <1>2, PartsOf DEF QueuesTyped
<1>6. PlacesApart'
  BY <1>2, <1>3, PartsOf DEF WaitsOnce, PlacesApart, Distinct
<1> QED BY <1>3, <1>4, <1>5, <1>6

LEMMA KeyKeeps ==
  ASSUME IInv, NEW k \in Key, OnKey(k)
  PROVE  IInv'
<1> USE DEF display
<1>1. PICK I : I = {i \in 1..Len(watches) : watches[i].keys = {} \/ k \in watches[i].keys}
  OBVIOUS
<1>2. PICK i : i = IF I # {} THEN Min(I) ELSE 0
  OBVIOUS
<1>3. /\ phase' = phase /\ i # 0
      /\ watches' = RemoveAt(watches, i)
      /\ Pull({watches[i].request}, Plain("key"))
      /\ UNCHANGED <<link, sent, cached, controls, entries, buffer, shown,
                     splash, screen>>
  BY <1>1, <1>2 DEF OnKey, SelectInSeq, Runs
<1>4. i \in DOMAIN watches
  <2>1. watches \in Seq(Watch)
    BY PartsOf DEF QueuesTyped
  <2>2. I \in SUBSET Nat /\ I \subseteq DOMAIN watches
    BY <1>1, <2>1
  <2> QED BY <1>2, <1>3, <2>2, MinIs
<1>5. DisplayIsSound' /\ CacheIsApart'
  BY <1>3, PartsOf, DisplayKept, CacheKept
<1>6. /\ {watches[i].request} \in SUBSET Waiting
      /\ QueuesTyped' /\ PlacesApart'
      /\ Prompts' = Prompts /\ Watching' \subseteq Watching
      /\ Waiting' = Waiting \ {watches[i].request}
  BY <1>3, <1>4, WatchRemoved
<1>7. Plain("key") \in Message
  BY PlainIs
<1> QED BY <1>3, <1>5, <1>6, <1>7, EndKeeps

LEMMA KeystrokeRemoveKeeps ==
  ASSUME IInv, NEW c \in Client, NEW keys \in KeyString,
         OnKeystrokeRemoveRequest(c, keys)
  PROVE  IInv'
<1> USE DEF display
<1>1. PICK I : I = {i \in 1..Len(watches) : watches[i].keys = keys}
  OBVIOUS
<1>2. PICK i : i = IF I # {} THEN Min(I) ELSE 0
  OBVIOUS
<1>3. PICK R : R = IF i = 0 THEN {} ELSE {watches[i].request}
  OBVIOUS
<1>4. PICK w : w = Answered(reply, R, Plain("none"), link)
  OBVIOUS
<1>5. /\ Receive(c)
      /\ watches' = IF i = 0 THEN watches ELSE RemoveAt(watches, i)
      /\ refs' = Dropped(R)
      /\ reply' = Answered(w, {Received(c)}, Plain("ack"), link)
      /\ UNCHANGED <<link, cached, controls, entries, buffer, shown, splash, screen>>
  BY <1>1, <1>2, <1>3, <1>4 DEF OnKeystrokeRemoveRequest, SelectInSeq
<1>6. DisplayIsSound' /\ CacheIsApart'
  BY <1>5, PartsOf, DisplayKept, CacheKept
<1>7. /\ R \in SUBSET Waiting /\ QueuesTyped' /\ PlacesApart'
      /\ Prompts' = Prompts /\ Watching' \subseteq Watching
      /\ Waiting' = Waiting \ R
  <2>1. CASE i = 0
    <3>1. R = {} /\ watches' = watches
      BY <1>3, <1>5, <2>1
    <3> QED BY <1>5, <3>1, PartsOf, QueuesKept DEF WaitsOnce
  <2>2. CASE i # 0
    <3>1. watches \in Seq(Watch)
      BY PartsOf DEF QueuesTyped
    <3>2. I \in SUBSET Nat /\ I \subseteq DOMAIN watches
      BY <1>1, <3>1
    <3>3. i \in DOMAIN watches
      BY <1>2, <2>2, <3>2, MinIs
    <3> QED BY <1>3, <1>5, <2>2, <3>3, WatchRemoved
  <2> QED BY <2>1, <2>2
<1>8. OneMore(w, reply, R, link)
  BY <1>4, PlainIs, PartsOf, AnsweredIs DEF RepliesTyped
<1>9. RepliesTyped' /\ RepliesAreExact' /\ \A r \in Waiting' : IsSent(r)'
  BY <1>5, <1>7, <1>8, PlainIs, PartsOf, RepliesAtOnce
<1>10. refs' \in [Client -> Nat] /\ ReferencesCounted'
  BY <1>5, <1>7, PartsOf, ReferencesDropped
<1>11. phase' = phase /\ sent' = [sent EXCEPT ![c] = @ + 1] /\ link[c] = "open"
  BY <1>5 DEF Receive, Runs
<1>12. ConnectionsTyped'
  BY <1>5, <1>10, <1>11, PartsOf, ReceivedIs DEF ConnectionsTyped
<1>13. NewIsSilent'
  BY <1>5, <1>11, PartsOf DEF NewIsSilent, ConnectionsTyped
<1> QED BY <1>6, <1>7, <1>9, <1>10, <1>12, <1>13, WholeNext DEF WaitsOnce

(* The answer to the head of the queue, be it a line or an interrupt.       *)
LEMMA AnswerKeeps ==
  ASSUME IInv, NEW m \in Message, AnswerEntry(m),
         \A i \in DOMAIN m.text : m.text[i] = Head(entries)
  PROVE  IInv'
<1>1. /\ phase' = phase /\ entries # <<>>
      /\ Pull({Head(entries).request}, m)
      /\ cached' = (IF Head(entries).type = "password" THEN Append(cached, m)
                    ELSE cached)
      /\ buffer' = <<>> /\ entries' = Tail(entries)
      /\ UpdateDisplay(entries', buffer', splash')
      /\ UNCHANGED <<link, sent, controls, watches, shown, splash>>
  BY DEF AnswerEntry, Runs
<1>2. entries \in Seq(Entry) /\ Distinct(entries) /\ Prompts = RequestsOf(entries)
  BY PartsOf, PlacesAre DEF QueuesTyped, WaitsOnce, PlacesApart
<1>3. PICK r : r = Head(entries).request
  OBVIOUS
<1>4. /\ entries' \in Seq(Entry) /\ Distinct(entries')
      /\ RequestsOf(entries') = Prompts \ {r} /\ r \in Prompts
  BY <1>1, <1>2, <1>3, TailRequests
<1>5. Prompts' = Prompts \ {r} /\ Watching' = Watching
  BY <1>1, <1>4 DEF Prompts, Watching, RequestsOf
<1>6. Waiting' = Waiting \ {r} /\ r \in Waiting
  BY <1>1, <1>4, <1>5, PartsOf DEF Waiting, WaitsOnce, PlacesApart
<1>7. <<>> \in Text /\ Len(<<>>) = 0 /\ DOMAIN <<>> = {}
  BY DEF Text
<1>8. QueuesTyped'
  BY <1>1, <1>4, <1>7, PartsOf, BoundAssumption DEF QueuesTyped
<1>9. PlacesApart'
  BY <1>1, <1>4, <1>5, PartsOf DEF WaitsOnce, PlacesApart, Distinct
<1>10. TypedForHead'
  BY <1>1, <1>7 DEF TypedForHead
<1>11. DisplayIsSound'
  BY <1>1, <1>8, <1>10, PartsOf, DisplayUpdated DEF DisplayIsSound
<1>12. CacheIsApart'
  <2>1. CASE Head(entries).type = "password"
    <3>1. PICK q : q = cached
      OBVIOUS
    <3>2. q \in Seq(Message) /\ cached' = Append(q, m)
      BY <1>1, <2>1, <3>1, PartsOf DEF CacheIsApart
    <3>3. PICK p : p = Append(q, m)
      OBVIOUS
    <3>4. /\ p \in Seq(Message) /\ DOMAIN p = 1..Len(q) + 1 /\ Len(q) \in Nat
          /\ DOMAIN q = 1..Len(q)
          /\ \A i \in 1..Len(q) : p[i] = q[i]
          /\ p[Len(q) + 1] = m
      BY <3>2, <3>3, AppendIs
    <3>5. ASSUME NEW x \in ToSet(p) PROVE x \in ToSet(q) \/ x = m
      BY <3>4 DEF ToSet
    <3>6. ASSUME NEW x \in ToSet(p), NEW i \in 1..MaxText, NEW j \in 1..MaxText,
                 {i, j} \subseteq DOMAIN x.text
          PROVE  x.text[i] = x.text[j] /\ x.text[i].type = "password"
      <4>1. CASE x \in ToSet(q)
        BY <3>1, <3>6, <4>1, PartsOf DEF CacheIsApart
      <4>2. CASE x = m
        BY <2>1, <3>6, <4>2
      <4> QED BY <3>5, <4>1, <4>2
    <3>7. cached' = p
      BY <3>2, <3>3
    <3> QED BY <3>4, <3>6, <3>7 DEF CacheIsApart
  <2>2. CASE Head(entries).type # "password"
    BY <1>1, <2>2, PartsOf, CacheKept
  <2> QED BY <2>1, <2>2
<1> QED BY <1>1, <1>3, <1>5, <1>6, <1>8, <1>9, <1>11, <1>12, EndKeeps

LEMMA EnterKeeps ==
  ASSUME IInv, OnEnter
  PROVE  IInv'
<1>1. Line(buffer) \in Message /\ Line(buffer).text = buffer
  BY PartsOf, PlainIs DEF QueuesTyped, Line
<1>2. \A i \in DOMAIN buffer : buffer[i] = Head(entries)
  BY PartsOf DEF DisplayIsSound, TypedForHead
<1> QED BY <1>1, <1>2, AnswerKeeps DEF OnEnter

LEMMA InterruptKeeps ==
  ASSUME IInv, OnInterrupt
  PROVE  IInv'
<1>1. Plain("interrupt") \in Message /\ DOMAIN Plain("interrupt").text = {}
  <2>1. DOMAIN <<>> = {}
    OBVIOUS
  <2> QED BY <2>1, PlainIs DEF Plain
<1> QED BY <1>1, AnswerKeeps DEF OnInterrupt

-----------------------------------------------------------------------------
(* The steps of the display and of what is typed.                           *)

LEMMA TypingKeeps ==
  ASSUME IInv, UNCHANGED <<link, refs, sent, reply, cached, controls, entries,
                           watches, phase>>,
         buffer' \in Text, Len(buffer') <= MaxText, DisplayIsSound'
  PROVE  IInv'
<1>1. Prompts' = Prompts /\ Watching' = Watching
  BY DEF Prompts, Watching
<1>2. Waiting' = Waiting
  BY <1>1 DEF Waiting
<1>3. QueuesTyped'
  BY PartsOf DEF QueuesTyped
<1>4. \A r : IsSent(r)' <=> IsSent(r)
  BY DEF IsSent, Sender
<1>5. PlacesApart'
  BY <1>1, PartsOf DEF WaitsOnce, PlacesApart, Distinct
<1>6. WaitsOnce'
  BY <1>2, <1>4, <1>5, PartsOf DEF WaitsOnce
<1>7. ConnectionsTyped' /\ RepliesTyped' /\ NewIsSilent'
  BY PartsOf DEF ConnectionsTyped, RepliesTyped, NewIsSilent
<1>8. RepliesAreExact'
  BY <1>1, <1>2, <1>4, PartsOf DEF RepliesAreExact, Sender
<1>9. ReferencesCounted'
  BY <1>2, PartsOf DEF ReferencesCounted, Sender
<1>10. CacheIsApart'
  BY PartsOf, CacheKept
<1> QED BY <1>3, <1>6, <1>7, <1>8, <1>9, <1>10, WholeNext

LEMMA InputKeeps ==
  ASSUME IInv, OnInput
  PROVE  IInv'
<1>1. PICK h : h = Head(entries)
  OBVIOUS
<1>2. /\ phase' = phase /\ entries # <<>> /\ Len(buffer) < MaxText
      /\ buffer' = Append(buffer, h)
      /\ UpdateDisplay(entries', buffer', splash')
      /\ UNCHANGED <<link, refs, sent, reply, cached, controls, entries,
                     watches, shown, splash>>
  BY <1>1 DEF OnInput, Runs, UpdateDisplay, Picture
<1>3. entries \in Seq(Entry) /\ buffer \in Seq(Entry)
  BY PartsOf DEF QueuesTyped, Text
<1>4. h \in Entry
  BY <1>1, <1>2, <1>3, HeadTailProperties
<1>5. PICK b : b = Append(buffer, h)
  OBVIOUS
<1>6. /\ b \in Seq(Entry) /\ Len(b) = Len(buffer) + 1 /\ Len(buffer) \in Nat
      /\ DOMAIN b = 1..Len(buffer) + 1 /\ DOMAIN buffer = 1..Len(buffer)
      /\ \A i \in 1..Len(buffer) : b[i] = buffer[i]
      /\ b[Len(buffer) + 1] = h
  BY <1>3, <1>4, <1>5, AppendIs
<1>7. buffer' = b
  BY <1>2, <1>5
<1>8. buffer' \in Text /\ Len(buffer') <= MaxText
  BY <1>2, <1>6, <1>7, BoundAssumption DEF Text
<1>9. \A i \in DOMAIN b : b[i] = h
  BY <1>1, <1>6, PartsOf DEF DisplayIsSound, TypedForHead
<1>10. TypedForHead'
  BY <1>1, <1>2, <1>7, <1>9 DEF TypedForHead
<1>11. QueuesTyped'
  BY <1>2, <1>8, PartsOf DEF QueuesTyped
<1>12. DisplayIsSound'
  BY <1>2, <1>10, <1>11, PartsOf, DisplayUpdated DEF DisplayIsSound
<1> QED BY <1>2, <1>8, <1>12, TypingKeeps

LEMMA BackspaceKeeps ==
  ASSUME IInv, OnBackspace
  PROVE  IInv'
<1>1. /\ phase' = phase /\ entries # <<>> /\ buffer # <<>>
      /\ buffer' = SubSeq(buffer, 1, Len(buffer) - 1)
      /\ UpdateDisplay(entries', buffer', splash')
      /\ UNCHANGED <<link, refs, sent, reply, cached, controls, entries,
                     watches, shown, splash>>
  BY DEF OnBackspace, Runs, UpdateDisplay, Picture, Front
<1>2. buffer \in Seq(Entry) /\ Len(buffer) <= MaxText
  BY PartsOf DEF QueuesTyped, Text
<1>3. PICK b : b = SubSeq(buffer, 1, Len(buffer) - 1)
  OBVIOUS
<1>4. Len(buffer) \in Nat /\ Len(buffer) >= 1 /\ DOMAIN buffer = 1..Len(buffer)
  BY <1>1, <1>2, EmptySeq, LenProperties
<1>5. /\ b \in Seq(Entry) /\ Len(b) = Len(buffer) - 1
      /\ \A i \in 1..Len(buffer) - 1 : b[i] = buffer[i]
  BY <1>2, <1>3, <1>4
<1>6. DOMAIN b = 1..Len(buffer) - 1
  BY <1>5, LenProperties
<1>7. buffer' = b
  BY <1>1, <1>3
<1>8. buffer' \in Text /\ Len(buffer') <= MaxText
  BY <1>2, <1>4, <1>5, <1>7, BoundAssumption DEF Text
<1>9. \A i \in DOMAIN b : b[i] = Head(entries)
  BY <1>4, <1>5, <1>6, PartsOf DEF DisplayIsSound, TypedForHead
<1>10. TypedForHead'
  BY <1>1, <1>7, <1>9 DEF TypedForHead
<1>11. QueuesTyped'
  BY <1>1, <1>8, PartsOf DEF QueuesTyped
<1>12. DisplayIsSound'
  BY <1>1, <1>10, <1>11, PartsOf, DisplayUpdated DEF DisplayIsSound
<1> QED BY <1>1, <1>8, <1>12, TypingKeeps

LEMMA SplashKeeps ==
  ASSUME IInv, OnSplashLoaded \/ OnSplashFreed \/ OnShownChanged
  PROVE  IInv'
<1> USE DEF connections, interaction
<1>1. /\ phase' = phase
      /\ UNCHANGED <<link, refs, sent, reply, cached, controls, entries,
                     watches, buffer>>
  BY DEF OnSplashLoaded, OnSplashFreed, OnShownChanged, Runs
<1>2. QueuesTyped'
  BY <1>1, PartsOf DEF QueuesTyped
<1>3. TypedForHead'
  BY <1>1, PartsOf DEF TypedForHead, DisplayIsSound
<1>4. CASE OnSplashLoaded
  <2>1. /\ UpdateDisplay(entries', buffer', splash')
        /\ splash' \in BOOLEAN /\ shown' \in BOOLEAN
    BY <1>1, <1>4, PartsOf
       DEF OnSplashLoaded, UpdateDisplay, Picture, DisplayIsSound
  <2>2. DisplayIsSound'
    BY <1>2, <1>3, <2>1, PartsOf, DisplayUpdated
  <2> QED BY <1>1, <2>2, PartsOf, TypingKeeps DEF QueuesTyped
<1>5. CASE OnSplashFreed
  <2>1. screen' = Normal /\ splash' = FALSE /\ shown' = shown
    BY <1>5 DEF OnSplashFreed
  <2>2. DisplayIsSound'
    BY <1>3, <2>1, PartsOf, NormalIs DEF DisplayIsSound, ScreenIsCurrent, OnlyBullets
  <2> QED BY <1>1, <2>2, PartsOf, TypingKeeps DEF QueuesTyped
<1>6. CASE OnShownChanged
  <2>1. screen' = screen /\ splash' = splash /\ shown' = ~shown
    BY <1>6 DEF OnShownChanged
  <2>2. shown' \in BOOLEAN
    BY <2>1, PartsOf DEF DisplayIsSound
  <2>3. ScreenIsCurrent'
    BY <1>1, <2>1, PartsOf DEF DisplayIsSound, ScreenIsCurrent, Picture
  <2>4. DisplayIsSound'
    BY <1>3, <2>1, <2>2, <2>3, PartsOf DEF DisplayIsSound, OnlyBullets
  <2> QED BY <1>1, <2>4, PartsOf, TypingKeeps DEF QueuesTyped
<1> QED BY <1>4, <1>5, <1>6

-----------------------------------------------------------------------------
(* Connections end, one by one or all at once.                              *)

(* The server's list drops its reference with those of the requests R.      *)
LEMMA ReferencesReturned ==
  ASSUME TypeOK, WaitsOnce, ReferencesCounted, NEW R \in SUBSET Waiting,
         link' \in [Client -> {"new", "open", "hungup"}],
         \A d \in Client : link'[d] = "open" => link[d] = "open",
         refs' = [d \in Client |-> Dropped(R)[d]
                     - (IF link[d] = "open" /\ link'[d] # "open" THEN 1 ELSE 0)],
         Waiting' = Waiting \ R
  PROVE  refs' \in [Client -> Nat] /\ ReferencesCounted'
<1>1. PICK W : W = Waiting
  OBVIOUS
<1>2. IsFiniteSet(W) /\ R \in SUBSET W
  BY <1>1, PlacesAre
<1>3. refs \in [Client -> Nat]
  BY DEF TypeOK
<1>4. ASSUME NEW d \in Client
      PROVE  /\ refs'[d] \in Nat
             /\ refs'[d] = (IF link'[d] = "open" THEN 1 ELSE 0)
                               + Cardinality({x \in Waiting' : Sender(x) = d})
  <2>1. refs[d] = (IF link[d] = "open" THEN 1 ELSE 0) + Count(W, d)
    BY <1>1 DEF ReferencesCounted, Count
  <2>2. /\ Count(W, d) \in Nat /\ Count(R, d) \in Nat
        /\ Count(W \ R, d) = Count(W, d) - Count(R, d)
    BY <1>2, CountIs
  <2>3. refs'[d] = (refs[d] - Count(R, d))
                - (IF link[d] = "open" /\ link'[d] # "open" THEN 1 ELSE 0)
    BY DEF Dropped, Count
  <2>4. Cardinality({x \in Waiting' : Sender(x) = d}) = Count(W \ R, d)
    BY <1>1 DEF Count
  <2>5. Count(W \ R, d) \in Nat
    BY <1>2, CountIs, FS_Subset
  <2>6. PICK n \in Nat : n = Count(W, d)
    BY <2>2
  <2>7. PICK m \in Nat : m = Count(R, d)
    BY <2>2
  <2>8. link'[d] = "open" => link[d] = "open"
    OBVIOUS
  <2>9. PICK k \in Nat : k = Count(W \ R, d)
    BY <2>5
  <2> QED BY <2>1, <2>2, <2>3, <2>4, <2>6, <2>7, <2>8, <2>9
<1>5. refs' \in [Client -> Nat]
  BY <1>4
<1>6. ReferencesCounted'
  BY <1>4 DEF ReferencesCounted, Sender
<1> QED BY <1>5, <1>6

LEMMA HangupKeeps ==
  ASSUME IInv, NEW c \in Client, OnHangup(c)
  PROVE  IInv'
<1>1. PICK R : R = {r \in Prompts \union Watching : Sender(r) = c}
  OBVIOUS
<1>2. /\ phase' = phase /\ link[c] = "open"
      /\ link' = [link EXCEPT ![c] = "hungup"]
      /\ CancelConnection(c)
      /\ reply' = Answered(reply, R, Plain("none"), link')
      /\ refs' = [Dropped(R) EXCEPT ![c] = @ - 1]
      /\ UNCHANGED <<sent, cached, controls, shown, splash>>
  BY <1>1 DEF OnHangup, Runs
<1>3. link \in [Client -> {"new", "open", "hungup"}]
  BY PartsOf DEF ConnectionsTyped
<1>4. /\ link' \in [Client -> {"new", "open", "hungup"}]
      /\ \A d \in Client : d # c => link'[d] = link[d]
      /\ link'[c] = "hungup"
  BY <1>2, <1>3
<1>5. /\ entries \in Seq(Entry) /\ Distinct(entries)
      /\ watches \in Seq(Watch) /\ Distinct(watches)
      /\ Prompts = RequestsOf(entries) /\ Watching = RequestsOf(watches)
  BY PartsOf, PlacesAre DEF QueuesTyped, WaitsOnce, PlacesApart
<1>6. /\ entries' \in Seq(Entry) /\ Distinct(entries')
      /\ RequestsOf(entries') = {r \in Prompts : Sender(r) # c}
      /\ (entries # <<>> /\ Sender(Head(entries).request) # c
             => entries' # <<>> /\ Head(entries') = Head(entries))
      /\ (entries' = entries /\ entries # <<>>
             => Sender(Head(entries).request) # c)
  BY <1>2, <1>5, OthersRequests DEF CancelConnection
<1>7. /\ watches' \in Seq(Watch) /\ Distinct(watches')
      /\ RequestsOf(watches') = {r \in Watching : Sender(r) # c}
  BY <1>2, <1>5, OthersRequests DEF CancelConnection
<1>8. /\ Prompts' = {r \in Prompts : Sender(r) # c}
      /\ Watching' = {r \in Watching : Sender(r) # c}
  BY <1>6, <1>7 DEF Prompts, Watching, RequestsOf
<1>9. Waiting' = Waiting \ R /\ R \in SUBSET Waiting
  BY <1>1, <1>2, <1>8, PartsOf DEF Waiting, WaitsOnce, PlacesApart
<1>10. /\ buffer' = (IF entries # <<>> /\ Sender(Head(entries).request) = c
                     THEN <<>> ELSE buffer)
       /\ entries' # entries => UpdateDisplay(entries', buffer', splash')
       /\ entries' = entries => screen' = screen
  BY <1>2 DEF CancelConnection
<1>11. QueuesTyped'
  <2>1. <<>> \in Text /\ Len(<<>>) <= MaxText
    BY BoundAssumption DEF Text
  <2> QED BY <1>2, <1>6, <1>7, <1>10, <2>1, PartsOf DEF QueuesTyped
<1>12. PlacesApart'
  BY <1>2, <1>6, <1>7, <1>8, PartsOf DEF WaitsOnce, PlacesApart, Distinct
<1>13. TypedForHead'
  <2>1. CASE entries # <<>> /\ Sender(Head(entries).request) = c
    <3>1. DOMAIN <<>> = {}
      OBVIOUS
    <3> QED BY <1>10, <2>1, <3>1 DEF TypedForHead
  <2>2. CASE ~(entries # <<>> /\ Sender(Head(entries).request) = c)
    BY <1>6, <1>10, <2>2, PartsOf DEF DisplayIsSound, TypedForHead
  <2> QED BY <2>1, <2>2
<1>14. DisplayIsSound'
  <2>1. CASE entries' = entries
    <3>1. buffer' = buffer /\ screen' = screen
      BY <1>6, <1>10, <2>1
    <3> QED BY <1>2, <2>1, <3>1, PartsOf, DisplayKept
  <2>2. CASE entries' # entries
    BY <1>2, <1>10, <1>11, <1>13, <2>2, PartsOf, DisplayUpdated DEF DisplayIsSound
  <2> QED BY <2>1, <2>2
<1>15. RepliesTyped' /\ RepliesAreExact' /\ \A r \in Waiting' : IsSent(r)'
  <2>1. PICK l : l = link'
    OBVIOUS
  <2>2. OneMore(Answered(reply, R, Plain("none"), l), reply, R, l)
    BY PlainIs, PartsOf, AnsweredIs DEF RepliesTyped
  <2>3. OneMore(reply', reply, R, link')
    BY <1>2, <2>1, <2>2
  <2>4. \A d \in Client : link'[d] = "open" => link[d] = "open"
    BY <1>2, <1>4
  <2>5. \A r \in Request : link'[Sender(r)] # "open"
            => link[Sender(r)] # "open" \/ r \notin (Prompts \union Watching)'
    BY <1>4, <1>8, RequestIs
  <2>6. (Prompts \union Watching)' \subseteq Prompts \union Watching
    BY <1>8
  <2> QED BY <1>2, <1>4, <1>9, <2>3, <2>4, <2>5, <2>6, PartsOf, RepliesEnd
<1>16. refs' \in [Client -> Nat] /\ ReferencesCounted'
  <2>1. refs' = [d \in Client |-> Dropped(R)[d]
                     - (IF link[d] = "open" /\ link'[d] # "open" THEN 1 ELSE 0)]
    <3>1. PICK D : D = Dropped(R)
      OBVIOUS
    <3>2. ASSUME NEW d \in Client PROVE D[d] \in Int
      <4>1. IsFiniteSet(Waiting) /\ refs[d] \in Nat
        BY PartsOf, PlacesAre DEF ConnectionsTyped
      <4>2. Count(R, d) \in Nat
        BY <1>9, <4>1, CountIs
      <4> QED BY <3>1, <4>1, <4>2 DEF Dropped, Count
    <3>3. D = [d \in Client |-> D[d]]
      BY <3>1 DEF Dropped
    <3>4. refs' = [d \in Client |-> IF d = c THEN D[d] - 1 ELSE D[d]]
      BY <1>2, <3>1, <3>3
    <3>5. ASSUME NEW d \in Client
          PROVE  (IF d = c THEN D[d] - 1 ELSE D[d]) = D[d]
                     - (IF link[d] = "open" /\ link'[d] # "open" THEN 1 ELSE 0)
      BY <1>2, <1>4, <3>2
    <3>6. refs' = [d \in Client |-> D[d]
                     - (IF link[d] = "open" /\ link'[d] # "open" THEN 1 ELSE 0)]
      BY <3>4, <3>5
    <3> QED BY <3>1, <3>6
  <2>2. \A d \in Client : link'[d] = "open" => link[d] = "open"
    BY <1>2, <1>4
  <2> QED BY <1>4, <1>9, <2>1, <2>2, PartsOf, ReferencesReturned
<1>17. ConnectionsTyped' /\ NewIsSilent'
  BY <1>2, <1>4, <1>16, PartsOf DEF ConnectionsTyped, NewIsSilent
<1>18. CacheIsApart'
  BY <1>2, PartsOf, CacheKept
<1> QED BY <1>11, <1>12, <1>14, <1>15, <1>16, <1>17, <1>18, WholeNext
        DEF WaitsOnce

LEMMA FreeKeeps ==
  ASSUME IInv, Free
  PROVE  IInv'
<1>1. /\ controls = {} /\ phase' \in {"freed", "crashed"}
      /\ splash' = FALSE /\ screen' = Normal
      /\ entries' = <<>> /\ watches' = <<>> /\ buffer' = <<>>
      /\ link' = [c \in Client |-> IF link[c] = "open" THEN "hungup" ELSE link[c]]
      /\ refs' = [c \in Client |-> Dropped(Prompts \union Watching)[c]
                                  - (IF link[c] = "open" THEN 1 ELSE 0)]
      /\ UNCHANGED <<sent, reply, cached, controls, shown>>
  BY DEF Free
<1>2. link \in [Client -> {"new", "open", "hungup"}]
  BY PartsOf DEF ConnectionsTyped
<1>3. /\ link' \in [Client -> {"new", "open", "hungup"}]
      /\ \A d \in Client : link'[d] # "open"
      /\ \A d \in Client : link'[d] = "new" => link[d] = "new"
  BY <1>1, <1>2
<1>4. DOMAIN <<>> = {} /\ <<>> \in Seq(Entry) /\ <<>> \in Seq(Watch) /\ Len(<<>>) = 0
  OBVIOUS
<1>5. Prompts' = {} /\ Watching' = {} /\ Waiting' = {}
  BY <1>1, <1>4 DEF Prompts, Watching, Waiting
<1>6. Waiting = Prompts \union Watching
  BY <1>1 DEF Waiting
<1>7. QueuesTyped'
  BY <1>1, <1>4, PartsOf, BoundAssumption DEF QueuesTyped, Text
<1>8. PlacesApart'
  BY <1>1, <1>4, <1>5, FS_EmptySet DEF PlacesApart, Distinct
<1>9. DisplayIsSound'
  <2>1. TypedForHead'
    BY <1>1, <1>4 DEF TypedForHead
  <2> QED BY <1>1, <2>1, PartsOf, NormalIs
          DEF DisplayIsSound, ScreenIsCurrent, OnlyBullets
<1>10. RepliesTyped' /\ RepliesAreExact' /\ \A r \in Waiting' : IsSent(r)'
  <2>1. OneMore(reply', reply, Waiting, link')
    BY <1>1, <1>3, RequestIs, PartsOf DEF OneMore, RepliesTyped
  <2>2. Waiting' = Waiting \ Waiting /\ Waiting \in SUBSET Waiting
    BY <1>5
  <2>3. (Prompts \union Watching)' = {}
    BY <1>5
  <2> QED BY <1>1, <1>3, <2>1, <2>2, <2>3, PartsOf, RepliesEnd
<1>11. refs' \in [Client -> Nat] /\ ReferencesCounted'
  <2>1. refs' = [d \in Client |-> Dropped(Waiting)[d]
                     - (IF link[d] = "open" /\ link'[d] # "open" THEN 1 ELSE 0)]
    BY <1>1, <1>3, <1>6
  <2>2. Waiting' = Waiting \ Waiting /\ Waiting \in SUBSET Waiting
    BY <1>5
  <2> QED BY <1>3, <2>1, <2>2, PartsOf, ReferencesReturned
<1>12. ConnectionsTyped' /\ NewIsSilent'
  BY <1>1, <1>3, <1>11, PartsOf DEF ConnectionsTyped, NewIsSilent
<1>13. CacheIsApart'
  BY <1>1, PartsOf, CacheKept
<1> QED BY <1>7, <1>8, <1>9, <1>10, <1>11, <1>12, <1>13, WholeNext DEF WaitsOnce

-----------------------------------------------------------------------------
(* The theorems.                                                            *)

LEMMA InitHolds == Init => IInv
<1> SUFFICES ASSUME Init PROVE IInv
  OBVIOUS
<1>1. DOMAIN <<>> = {} /\ Len(<<>>) = 0 /\ <<>> \in Seq(Message)
      /\ <<>> \in Seq(Entry) /\ <<>> \in Seq(Watch) /\ <<>> \in Text
  BY DEF Text
<1>2. /\ link = [c \in Client |-> "new"] /\ refs = [c \in Client |-> 0]
      /\ sent = [c \in Client |-> 0] /\ reply = [r \in Request |-> <<>>]
      /\ cached = <<>> /\ controls = {} /\ entries = <<>> /\ watches = <<>>
      /\ buffer = <<>> /\ shown = FALSE /\ splash = FALSE /\ screen = Normal
      /\ phase = "running"
  BY DEF Init
<1>3. Prompts = {} /\ Watching = {} /\ Waiting = {}
  BY <1>1, <1>2 DEF Prompts, Watching, Waiting
<1>4. TypeOK
  <2>1. /\ link \in [Client -> {"new", "open", "hungup"}]
        /\ refs \in [Client -> Nat] /\ sent \in [Client -> Nat]
        /\ phase \in {"running", "freed", "crashed"}
    BY <1>2
  <2>2. \A c \in Client : sent[c] <= MaxRequests[c]
    BY <1>2, BoundAssumption
  <2>3. DOMAIN reply = Request /\ \A r \in Request : reply[r] \in Seq(Message)
    BY <1>1, <1>2
  <2>4. screen \in [prompt : SUBSET Entry, bullets : 0..MaxText, text : Text]
    BY <1>2, NormalIs
  <2>5. Len(buffer) <= MaxText
    <3>1. MaxText \in Nat /\ Len(buffer) = 0
      BY <1>1, <1>2, BoundAssumption
    <3> QED BY <3>1
  <2>6. /\ cached \in Seq(Message) /\ entries \in Seq(Entry) /\ watches \in Seq(Watch)
        /\ buffer \in Text /\ controls \subseteq Request
        /\ shown \in BOOLEAN /\ splash \in BOOLEAN
    BY <1>1, <1>2
  <2> QED BY <2>1, <2>2, <2>3, <2>4, <2>5, <2>6 DEF TypeOK
<1>5. WaitsOnce
  BY <1>1, <1>2, <1>3, FS_EmptySet DEF WaitsOnce, PlacesApart, Distinct
<1>6. RepliesAreExact
  <2>1. ASSUME NEW r \in Request PROVE ~IsSent(r) /\ reply[r] = <<>>
    <3>1. sent[Sender(r)] = 0 /\ r[2] \in 1..MaxRequests[Sender(r)]
      BY <1>2, RequestIs
    <3>2. MaxRequests[Sender(r)] \in Nat
      BY RequestIs, BoundAssumption
    <3> QED BY <1>2, <3>1, <3>2 DEF IsSent
  <2> QED BY <1>1, <1>3, <2>1 DEF RepliesAreExact
<1>7. ReferencesCounted
  <2>1. ASSUME NEW c \in Client PROVE {r \in Waiting : Sender(r) = c} = {}
    BY <1>3
  <2>2. ASSUME NEW c \in Client
        PROVE  Cardinality({r \in Waiting : Sender(r) = c}) = 0
    BY <2>1, FS_EmptySet
  <2> QED BY <1>2, <2>2 DEF ReferencesCounted
<1>8. ScreenIsCurrent /\ TypedForHead /\ NewIsSilent
  BY <1>1, <1>2 DEF ScreenIsCurrent, TypedForHead, NewIsSilent
<1>9. PasswordsKeptApart
  BY <1>1, <1>2, NormalIs DEF PasswordsKeptApart, ToSet
<1> QED BY <1>4, <1>5, <1>6, <1>7, <1>8, <1>9 DEF IInv

LEMMA StepKeeps == IInv /\ [Next]_vars => IInv'
<1> SUFFICES ASSUME IInv, [Next]_vars PROVE IInv'
  OBVIOUS
<1>1. CASE UNCHANGED vars
  BY <1>1, StutterKeeps
<1>2. ASSUME NEW c \in Client, OnNewConnection(c) PROVE IInv'
  BY <1>2, NewConnectionKeeps
<1>3. ASSUME NEW c \in Client, Requests(c) PROVE IInv'
  BY <1>3, PlainRequestKeeps, ControlRequestKeeps, PasswordRequestKeeps,
     QuestionRequestKeeps, KeystrokeRequestKeeps, KeystrokeRemoveKeeps
     DEF Requests
<1>4. ASSUME NEW c \in Client, OnHangup(c) \/ OnUnreadableRequest(c) PROVE IInv'
  BY <1>4, HangupKeeps DEF OnUnreadableRequest
<1>5. ASSUME NEW R \in SUBSET controls, OnControlComplete(R) PROVE IInv'
  BY <1>5, ControlCompleteKeeps
<1>6. CASE Keyboard
  BY <1>6, EnterKeeps, InterruptKeeps, InputKeeps, BackspaceKeeps, KeyKeeps
     DEF Keyboard
<1>7. CASE OnSplashLoaded \/ OnSplashFreed \/ OnShownChanged
  BY <1>7, SplashKeeps
<1>8. CASE Free
  BY <1>8, FreeKeeps
<1> QED BY <1>1, <1>2, <1>3, <1>4, <1>5, <1>6, <1>7, <1>8 DEF Next

LEMMA InvariantHolds == Spec => []IInv
<1> QED BY InitHolds, StepKeeps, PTL DEF Spec

LEMMA InvariantIsSound == IInv => PromptsAreSound /\ PasswordsKeptApart
<1> SUFFICES ASSUME IInv PROVE PromptsAreSound /\ PasswordsKeptApart
  OBVIOUS
<1>1. Cardinality(Waiting) = Len(entries) + Len(watches) + Cardinality(controls)
  BY PartsOf, PlacesAre
<1>2. AnsweredOnce
  BY <1>1, PartsOf DEF AnsweredOnce, RepliesAreExact
<1> QED BY <1>2 DEF IInv, PromptsAreSound

(* Whatever clients ask, in which order they stop waiting or hang up, and   *)
(* whenever the process ends: every connection has the references that its  *)
(* list and its waiting requests hold, every request waits at one place or  *)
(* has its one reply, the display shows the prompt that would be answered,  *)
(* and what was typed is kept for it only.                                  *)
THEOREM PromptsAreAlwaysSound == Spec => []PromptsAreSound
<1> QED BY InvariantHolds, InvariantIsSound, PTL

(* Neither the display nor the cache of passwords ever mixes what was typed *)
(* for a password with anything else.                                       *)
THEOREM PasswordsStayApart == Spec => []PasswordsKeptApart
<1> QED BY InvariantHolds, InvariantIsSound, PTL

(* What Answered adds to what was written is the message m.                 *)
LEMMA AnsweredWrites ==
  ASSUME NEW written, DOMAIN written = Request,
         \A r \in Request : written[r] \in Seq(Message),
         NEW m \in Message, NEW R, NEW l, NEW r \in Request, NEW i,
         i \in DOMAIN Answered(written, R, m, l)[r] \ DOMAIN written[r]
  PROVE  r \in R /\ Answered(written, R, m, l)[r][i] = m
<1>1. PICK q \in Seq(Message) : q = written[r]
  OBVIOUS
<1>2. Answered(written, R, m, l)[r]
          = IF r \in R /\ l[Sender(r)] = "open" THEN Append(q, m) ELSE q
  BY <1>1 DEF Answered
<1>3. r \in R /\ Answered(written, R, m, l)[r] = Append(q, m)
  BY <1>1, <1>2
<1>4. /\ DOMAIN Append(q, m) = 1..Len(q) + 1 /\ DOMAIN q = 1..Len(q)
      /\ Append(q, m)[Len(q) + 1] = m /\ Len(q) \in Nat
  BY AppendIs
<1>5. i = Len(q) + 1
  BY <1>1, <1>3, <1>4
<1> QED BY <1>3, <1>4, <1>5

LEMMA AnsweredKeeps ==
  ASSUME NEW written, DOMAIN written = Request,
         \A r \in Request : written[r] \in Seq(Message),
         NEW m \in Message, NEW R, NEW l, NEW r \in Request,
         NEW i \in DOMAIN written[r]
  PROVE  Answered(written, R, m, l)[r][i] = written[r][i]
<1>1. PICK q \in Seq(Message) : q = written[r]
  OBVIOUS
<1>2. Answered(written, R, m, l)[r]
          = IF r \in R /\ l[Sender(r)] = "open" THEN Append(q, m) ELSE q
  BY <1>1 DEF Answered
<1>3. Append(q, m)[i] = q[i]
  BY <1>1, AppendIs
<1> QED BY <1>1, <1>2, <1>3

(* Only the enter key has a line of text written.                           *)
LEMMA OnlyEnterWrites ==
  ASSUME IInv, Next, NEW r \in Request, NEW i \in 1..2,
         i \in DOMAIN reply'[r] \ DOMAIN reply[r], reply'[r][i].type = "text"
  PROVE  OnEnter /\ r = Head(entries).request /\ reply'[r][i] = Line(buffer)
<1> DEFINE Silent == {"ack", "none", "interrupt", "key", "passwords"}
<1>1. ASSUME NEW R, NEW l, NEW t \in Silent,
             reply' = Answered(reply, R, Plain(t), l)
      PROVE  FALSE
  <2>1. Plain(t) \in Message /\ Plain(t).type = t
    BY PlainIs DEF Plain
  <2>2. reply'[r][i] = Plain(t)
    BY <1>1, <2>1, PartsOf, AnsweredWrites DEF RepliesTyped
  <2> QED BY <2>1, <2>2
<1>2. reply' # reply
  OBVIOUS
<1>3. ASSUME NEW c \in Client, Requests(c) PROVE FALSE
  <2>1. CASE OnPlainRequest(c) \/ OnCachedPasswordRequest(c)
    BY <1>1, <2>1 DEF OnPlainRequest, OnCachedPasswordRequest, Write
  <2>2. CASE OnControlRequest(c) \/ OnQuestionRequest(c)
             \/ \E keys \in KeyString : OnKeystrokeRequest(c, keys)
    BY <1>2, <2>2 DEF OnControlRequest, OnQuestionRequest, OnKeystrokeRequest,
                      QueueEntry
  <2>3. ASSUME NEW comes \in BOOLEAN, OnPasswordRequest(c, comes) PROVE FALSE
    BY <1>1, <1>2, <2>3 DEF OnPasswordRequest, QueueEntry, Write
  <2>4. ASSUME NEW keys \in KeyString, OnKeystrokeRemoveRequest(c, keys) PROVE FALSE
    <3>1. PICK R : \E v : v = Answered(reply, R, Plain("none"), link)
                        /\ reply' = Answered(v, {Received(c)}, Plain("ack"), link)
      BY <2>4 DEF OnKeystrokeRemoveRequest
    <3>2. PICK w : /\ w = Answered(reply, R, Plain("none"), link)
                   /\ reply' = Answered(w, {Received(c)}, Plain("ack"), link)
      BY <3>1
    <3>3. /\ Plain("none") \in Message /\ Plain("ack") \in Message
          /\ Plain("none").type = "none" /\ Plain("ack").type = "ack"
      BY PlainIs DEF Plain
    <3>4. OneMore(w, reply, R, link)
      BY <3>2, <3>3, PartsOf, AnsweredIs DEF RepliesTyped
    <3>5. DOMAIN w = Request /\ \A x \in Request : w[x] \in Seq(Message)
      BY <3>4 DEF OneMore
    <3>6. CASE i \in DOMAIN w[r]
      <4>1. w[r][i] = Plain("none")
        BY <3>2, <3>3, <3>6, PartsOf, AnsweredWrites DEF RepliesTyped
      <4>2. reply'[r][i] = w[r][i]
        BY <3>2, <3>3, <3>5, <3>6, AnsweredKeeps
      <4> QED BY <3>3, <4>1, <4>2
    <3>7. CASE i \notin DOMAIN w[r]
      <4>1. reply'[r][i] = Plain("ack")
        BY <3>2, <3>3, <3>5, <3>7, AnsweredWrites
      <4> QED BY <3>3, <4>1
    <3> QED BY <3>6, <3>7
  <2> QED BY <1>3, <2>1, <2>2, <2>3, <2>4 DEF Requests
<1>4. ASSUME NEW c \in Client, OnNewConnection(c) PROVE FALSE
  BY <1>2, <1>4 DEF OnNewConnection
<1>5. ASSUME NEW c \in Client, OnHangup(c) \/ OnUnreadableRequest(c) PROVE FALSE
  BY <1>1, <1>5 DEF OnHangup, OnUnreadableRequest
<1>6. ASSUME NEW R \in SUBSET controls, OnControlComplete(R) PROVE FALSE
  BY <1>1, <1>6 DEF OnControlComplete, Pull
<1>7. ~OnInterrupt
  BY <1>1 DEF OnInterrupt, AnswerEntry, Pull
<1>8. ~(OnInput \/ OnBackspace)
  BY <1>2 DEF OnInput, OnBackspace
<1>9. ASSUME NEW k \in Key, OnKey(k) PROVE FALSE
  BY <1>1, <1>9 DEF OnKey, Pull
<1>10. ~(OnSplashLoaded \/ OnSplashFreed \/ OnShownChanged \/ Free)
  BY <1>2 DEF OnSplashLoaded, OnSplashFreed, OnShownChanged, Free, connections
<1>11. OnEnter
  BY <1>3, <1>4, <1>5, <1>6, <1>7, <1>8, <1>9, <1>10 DEF Next, Keyboard
<1>12. Line(buffer) \in Message
  BY PartsOf, PlainIs DEF QueuesTyped
<1>13. reply' = Answered(reply, {Head(entries).request}, Line(buffer), link)
  BY <1>11 DEF OnEnter, AnswerEntry, Pull
<1> QED BY <1>11, <1>12, <1>13, PartsOf, AnsweredWrites DEF RepliesTyped

(* A client is sent a line of text only while its prompt is the one on      *)
(* display, if there is a splash, and only what was typed for that prompt.  *)
THEOREM AnswersWerePrompted == Spec => AnswerWasPrompted
<1> DEFINE Prompted ==
      \A r \in Request, i \in 1..2 :
          i \in DOMAIN reply'[r] \ DOMAIN reply[r]
              /\ reply'[r][i].type = "text"
          => /\ splash => \E e \in screen.prompt : e.request = r
             /\ \A j \in DOMAIN reply'[r][i].text :
                    reply'[r][i].text[j].request = r
<1>1. IInv /\ [Next]_vars => [Prompted]_vars
  <2> SUFFICES ASSUME IInv, Next, NEW r \in Request, NEW i \in 1..2,
                      i \in DOMAIN reply'[r] \ DOMAIN reply[r],
                      reply'[r][i].type = "text"
               PROVE  /\ splash => \E e \in screen.prompt : e.request = r
                      /\ \A j \in DOMAIN reply'[r][i].text :
                             reply'[r][i].text[j].request = r
    OBVIOUS
  <2>1. /\ OnEnter /\ r = Head(entries).request
        /\ reply'[r][i] = Line(buffer)
    BY OnlyEnterWrites
  <2>2. entries # <<>>
    BY <2>1 DEF OnEnter, AnswerEntry
  <2>3. splash => screen.prompt = {Head(entries)}
    BY <2>2, PartsOf DEF DisplayIsSound, ScreenIsCurrent, Picture
  <2>4. \A j \in DOMAIN buffer : buffer[j] = Head(entries)
    BY PartsOf DEF DisplayIsSound, TypedForHead
  <2>5. Line(buffer).text = buffer
    BY DEF Line
  <2> QED BY <2>1, <2>3, <2>4, <2>5
<1> QED BY <1>1, InvariantHolds, PTL DEF Spec, AnswerWasPrompted

=============================================================================
