---------------------------- MODULE LibplyProofs ----------------------------
(***************************************************************************)
(* Theorems about three parts of the program's libraries: Trigger, for any *)
(* number of handlers and nested pulls, Console, for any size of the       *)
(* viewer and of the buffer, and any texts and messages, and Region, for   *)
(* any rectangles.                                                         *)
(***************************************************************************)
EXTENDS Trigger, Console, Region, FiniteSetTheorems, SequenceTheorems,
        WellFoundedInduction, TLAPS

(* What ties the list to the closures allocated so far: no closure is on it *)
(* that was not, none is disabled outside of a pull, and a pull did not     *)
(* begin later than now.                                                    *)
ListIsOrdered ==
    /\ \A c \in closures : c <= last
    /\ disabled \subseteq closures
    /\ depth = 0 => disabled = {}
    /\ \A d \in Pulls : newest[d] <= last

IInv == TypeOK /\ ListIsOrdered /\ PointersAreValid /\ PullsReachEveryone

LEMMA InitEstablishes == Init => IInv
<1> SUFFICES ASSUME Init PROVE IInv
  OBVIOUS
<1> USE TriggerAssumption DEF TriggerAssumption, Init
<1>1. handler \in [1..last -> Handler]
  OBVIOUS
<1>2. /\ node \in [1..MaxDepth -> 0..MaxClosures]
      /\ next \in [1..MaxDepth -> 0..MaxClosures]
      /\ newest \in [1..MaxDepth -> 0..MaxClosures]
      /\ called \in [1..MaxDepth -> SUBSET Closure]
  OBVIOUS
<1>3. Pulls = {} /\ Enabled = {}
  BY DEF Pulls, Enabled
<1>4. last \in 0..MaxClosures /\ depth \in 0..MaxDepth
      /\ ignored \in 0..MaxIgnored
  OBVIOUS
<1>5. closures \subseteq Closure /\ disabled \subseteq Closure
  OBVIOUS
<1>6. TypeOK
  BY <1>1, <1>2, <1>4, <1>5, Zenon DEF TypeOK
<1> QED
  BY <1>3, <1>6 DEF IInv, ListIsOrdered, PointersAreValid, PullsReachEveryone

(* Closures and pulls are numbers.                                          *)
LEMMA Numbers ==
  ASSUME TypeOK
  PROVE  /\ closures \subseteq Nat /\ 0 \notin closures
         /\ depth \in Nat /\ last \in Nat /\ Pulls \subseteq 1..MaxDepth
         /\ \A d \in 1..MaxDepth :
                /\ next[d] \in Nat /\ newest[d] \in Nat
                /\ called[d] \subseteq Nat
  BY TriggerAssumption, SMTT(30) DEF TriggerAssumption, TypeOK, Closure, Pulls

-----------------------------------------------------------------------------
(* Handlers that are added and removed.                                     *)

LEMMA AddKeeps ==
  ASSUME IInv, NEW h \in Handler, AddHandler(h)
  PROVE  IInv'
<1> USE TriggerAssumption DEF TriggerAssumption, IInv, Pulls
<1>1. TypeOK'
  BY DEF AddHandler, PullsUnchanged, TypeOK, Closure, ListIsOrdered
<1>2. ListIsOrdered'
  BY SMTT(30) DEF AddHandler, PullsUnchanged, TypeOK, Closure, ListIsOrdered
<1>3. PointersAreValid'
  BY DEF AddHandler, PullsUnchanged, PointersAreValid
<1>4. PullsReachEveryone'
  BY SMTT(30) DEF AddHandler, PullsUnchanged, TypeOK, ListIsOrdered, PullsReachEveryone,
         Enabled
<1> QED BY <1>1, <1>2, <1>3, <1>4

LEMMA RemoveKeeps ==
  ASSUME IInv, NEW h \in Handler, RemoveHandler(h)
  PROVE  IInv'
<1> USE TriggerAssumption DEF TriggerAssumption, IInv, Pulls
<1>1. /\ closures' \subseteq closures
      /\ disabled' \subseteq closures'
      /\ Enabled' \subseteq Enabled
      /\ depth > 0 => closures' = closures
      /\ depth = 0 => disabled' = {}
  BY DEF RemoveHandler, Drop, IsFirst, TypeOK, ListIsOrdered, Enabled
<1>2. TypeOK'
  BY <1>1 DEF RemoveHandler, PullsUnchanged, TypeOK
<1>3. ListIsOrdered'
  BY <1>1 DEF RemoveHandler, PullsUnchanged, ListIsOrdered
<1>4. PointersAreValid'
  BY <1>1 DEF RemoveHandler, PullsUnchanged, PointersAreValid, TypeOK
<1>5. PullsReachEveryone'
  BY <1>1 DEF RemoveHandler, PullsUnchanged, PullsReachEveryone
<1> QED BY <1>2, <1>3, <1>4, <1>5

-----------------------------------------------------------------------------
(* Pulls.                                                                   *)

LEMMA PullKeeps == ASSUME IInv, Pull PROVE IInv'
<1> USE TriggerAssumption DEF TriggerAssumption, IInv, Pulls
<1>1. PICK n \in closures \union {0} :
          Follows(n, 0) /\ next' = [next EXCEPT ![depth + 1] = n]
  BY DEF Pull
<1>2. depth + 1 \in 1..MaxDepth /\ depth' = depth + 1
  BY DEF Pull, TypeOK
<1>3. TypeOK'
  <2>1. n \in 0..MaxClosures /\ 0 \in 0..MaxClosures /\ last \in 0..MaxClosures
    BY <1>1 DEF TypeOK, Closure
  <2>2. /\ next' \in [1..MaxDepth -> 0..MaxClosures]
        /\ node' \in [1..MaxDepth -> 0..MaxClosures]
        /\ newest' \in [1..MaxDepth -> 0..MaxClosures]
        /\ called' \in [1..MaxDepth -> SUBSET Closure]
    BY <1>1, <1>2, <2>1 DEF Pull, TypeOK
  <2>3. depth' \in 0..MaxDepth
    BY <1>2
  <2>4. UNCHANGED <<closures, last, handler, disabled, ignored, oneShot, freed,
                    wanted, orderly>>
    BY DEF Pull
  <2> QED BY <2>2, <2>3, <2>4, Zenon DEF TypeOK, Closure
<1>4. ListIsOrdered'
  BY <1>2 DEF Pull, TypeOK, ListIsOrdered
<1>5. PointersAreValid'
  BY <1>1, <1>2, SMTT(30) DEF Pull, UserRuns, TypeOK, PointersAreValid
<1>6. PullsReachEveryone'
  <2>1. ASSUME NEW d \in 1..depth
        PROVE  /\ next'[d] = next[d] /\ newest'[d] = newest[d]
               /\ called'[d] = called[d]
    BY <1>1, <1>2 DEF Pull, TypeOK
  <2>2. called'[depth + 1] = {} /\ next'[depth + 1] = n
    BY <1>1, <1>2 DEF Pull, TypeOK
  <2>3. \A c \in Enabled : n # 0 /\ n <= c
    BY <1>1 DEF Follows, Enabled, TypeOK, Closure
  <2>4. Enabled' = Enabled
    BY DEF Pull, Enabled
  <2>5. 1..depth' = 1..depth \union {depth + 1}
    BY <1>2, Numbers
  <2> QED BY <1>2, <2>1, <2>2, <2>3, <2>4, <2>5 DEF PullsReachEveryone
<1> QED BY <1>3, <1>4, <1>5, <1>6

LEMMA CallNextKeeps == ASSUME IInv, CallNext PROVE IInv'
<1> USE TriggerAssumption DEF TriggerAssumption, IInv, Pulls
<1> DEFINE c == next[depth]
<1>1. PICK n \in closures \union {0} :
          Follows(n, c) /\ next' = [next EXCEPT ![depth] = n]
  BY DEF CallNext, Advance
<1>2. depth \in 1..MaxDepth /\ c \in closures /\ depth' = depth
  BY DEF CallNext, TypeOK, PointersAreValid
<1>3. /\ closures \subseteq Closure
      /\ closures \subseteq Nat /\ 0 \notin closures /\ c \in Nat /\ n \in Nat
      /\ \A d \in Pulls : called[d] \subseteq Nat
  <2>1. /\ Closure \subseteq Nat /\ 0 \notin Closure /\ 0 \in Nat
    BY DEF Closure
  <2>2. closures \subseteq Closure
    BY DEF TypeOK
  <2>3. \A d \in Pulls : called[d] \subseteq Closure
    BY Numbers DEF TypeOK
  <2> QED BY <1>1, <1>2, <2>1, <2>2, <2>3
<1>4. /\ next' \in [1..MaxDepth -> 0..MaxClosures]
      /\ next'[depth] = n
      /\ \A d \in Pulls : d # depth => next'[d] = next[d]
  BY <1>1, <1>2, <1>3 DEF TypeOK, Closure
<1>5. /\ node' \in [1..MaxDepth -> 0..MaxClosures]
      /\ called' \in [1..MaxDepth -> SUBSET Closure]
      /\ \A d \in Pulls : node'[d] \in {node[d], c}
      /\ \A d \in Pulls : d # depth => called'[d] = called[d]
      /\ called'[depth] = IF c \in disabled THEN called[depth]
                          ELSE called[depth] \union {c}
  <2>1. CASE c \in disabled
    BY <1>2, <2>1 DEF CallNext, Call, TypeOK
  <2>2. CASE c \notin disabled
    <3>1. /\ node' = [node EXCEPT ![depth] = c]
          /\ called' = [called EXCEPT ![depth] = @ \union {c}]
      BY <2>2 DEF CallNext, Call
    <3>2. node' \in [1..MaxDepth -> 0..MaxClosures]
      BY <1>2, <1>3, <3>1 DEF TypeOK, Closure
    <3>3. called[depth] \union {c} \in SUBSET Closure
      BY <1>2, <1>3 DEF TypeOK
    <3>4. called' \in [1..MaxDepth -> SUBSET Closure]
      BY <1>2, <3>1, <3>3 DEF TypeOK
    <3> QED BY <1>2, <2>2, <3>1, <3>2, <3>4 DEF TypeOK
  <2> QED BY <2>1, <2>2
<1>6. TypeOK'
  BY <1>4, <1>5 DEF CallNext, TypeOK, Closure
<1>7. ListIsOrdered'
  BY DEF CallNext, ListIsOrdered
<1>8. PointersAreValid'
  <2>1. \A d \in Pulls : node'[d] \in closures \union {0}
    BY <1>2, <1>5 DEF PointersAreValid
  <2>2. \A d \in Pulls : next'[d] \in closures \union {0}
    BY <1>1, <1>4 DEF PointersAreValid
  <2> QED BY <1>2, <2>1, <2>2 DEF CallNext, PointersAreValid
<1>9. PullsReachEveryone'
  <2>1. Enabled' = Enabled /\ newest' = newest
    BY DEF CallNext, Enabled
  <2>2. \A k \in closures : k <= c \/ (n # 0 /\ n <= k)
    BY <1>1, <1>3 DEF Follows
  <2>3. n = 0 \/ c < n
    BY <1>1 DEF Follows
  <2>4. \A k \in called[depth] : k < c
    BY <1>2, <1>3 DEF PullsReachEveryone
  <2>5. \A k \in called'[depth] : n = 0 \/ k < n
    BY <1>2, <1>3, <1>5, <2>3, <2>4
  <2>6. \A k \in Enabled : k <= newest[depth]
            => k \in called'[depth] \/ (n # 0 /\ n <= k)
    BY <1>2, <1>3, <1>5, <2>2 DEF PullsReachEveryone, Enabled
  <2> QED
    BY <1>2, <1>4, <1>5, <2>1, <2>5, <2>6 DEF PullsReachEveryone
<1> QED BY <1>6, <1>7, <1>8, <1>9

LEMMA ReturnKeeps == ASSUME IInv, Return PROVE IInv'
<1> USE TriggerAssumption DEF TriggerAssumption, IInv, Pulls
<1>1. /\ node' = [node EXCEPT ![depth] = 0] /\ depth' = depth
      /\ UNCHANGED <<closures, last, handler, disabled, ignored, next, oneShot,
                     freed, wanted, orderly, newest, called>>
  BY DEF Return
<1>2. TypeOK'
  <2>1. node \in [1..MaxDepth -> 0..MaxClosures] /\ 0 \in 0..MaxClosures
    BY DEF TypeOK
  <2>2. node' \in [1..MaxDepth -> 0..MaxClosures]
    BY <1>1, <2>1, Zenon
  <2> QED BY <1>1, <2>2, Zenon DEF TypeOK, Closure
<1>3. ListIsOrdered'
  BY <1>1 DEF ListIsOrdered
<1>4. PointersAreValid'
  BY <1>1 DEF TypeOK, PointersAreValid
<1>5. PullsReachEveryone'
  BY <1>1 DEF PullsReachEveryone, Enabled
<1> QED BY <1>2, <1>3, <1>4, <1>5

(* Only the outermost pull tidies up, when no other pull is left.           *)
LEMMA EndPullKeeps == ASSUME IInv, EndPull PROVE IInv'
<1> USE TriggerAssumption DEF TriggerAssumption, IInv, Pulls
<1>1. depth \in 1..MaxDepth /\ depth' = depth - 1
  BY DEF EndPull, TypeOK
<1>2. CASE depth = 1
  BY <1>1, <1>2, SMTT(30) DEF EndPull, Tidy, TypeOK, ListIsOrdered, PointersAreValid,
                    PullsReachEveryone, Enabled
<1>3. CASE depth # 1
  <2>1. Pulls' \subseteq Pulls /\ depth' # 0 /\ depth' \in 0..MaxDepth
    BY <1>1, <1>3
  <2>2. UNCHANGED <<closures, disabled, freed, Enabled>>
    BY <1>3 DEF EndPull, Tidy, Enabled
  <2>3. TypeOK'
    BY <2>1, <2>2 DEF EndPull, TypeOK
  <2>4. ListIsOrdered' /\ PointersAreValid'
    BY <2>1, <2>2 DEF EndPull, ListIsOrdered, PointersAreValid
  <2>5. PullsReachEveryone'
    BY <2>1, <2>2 DEF EndPull, PullsReachEveryone
  <2> QED BY <2>3, <2>4, <2>5
<1> QED BY <1>2, <1>3

-----------------------------------------------------------------------------
LEMMA NextKeeps == ASSUME IInv, [Next]_vars PROVE IInv'
<1>1. CASE IgnoreNextPull \/ IgnoredPull
  <2>1. ignored' \in 0..MaxIgnored
    BY <1>1, TriggerAssumption
       DEF TriggerAssumption, IInv, TypeOK, IgnoreNextPull, IgnoredPull
  <2>2. UNCHANGED <<closures, last, handler, disabled, depth, node, next,
                    oneShot, freed, wanted, orderly, newest, called>>
    BY <1>1 DEF IgnoreNextPull, IgnoredPull, PullsUnchanged
  <2> QED
    BY <2>1, <2>2 DEF IInv, Pulls, TypeOK, ListIsOrdered, PointersAreValid,
                      PullsReachEveryone, Enabled, Closure
<1>2. CASE UNCHANGED vars
  BY <1>2 DEF vars, IInv, Pulls, TypeOK, ListIsOrdered, PointersAreValid,
              PullsReachEveryone, Enabled
<1>3. ASSUME NEW h \in Handler, AddHandler(h) \/ RemoveHandler(h) PROVE IInv'
  BY <1>3, AddKeeps, RemoveKeeps
<1> QED
  BY <1>1, <1>2, <1>3, PullKeeps, CallNextKeeps, ReturnKeeps, EndPullKeeps
     DEF Next

LEMMA AlwaysIInv == Spec => []IInv
  BY InitEstablishes, NextKeeps, PTL DEF Spec

(* The types of the trigger's state.                                        *)
THEOREM TriggerTypes == Spec => []TypeOK
<1>1. IInv => TypeOK BY DEF IInv
<1> QED BY <1>1, AlwaysIInv, PTL

(* No pull, however deep it is nested and whatever its handlers do to the   *)
(* trigger, follows a pointer to a closure that was freed.                  *)
THEOREM PullsAreSafe == Spec => []PointersAreValid
<1>1. IInv => PointersAreValid BY DEF IInv
<1> QED BY <1>1, AlwaysIInv, PTL

(* Every pull calls every handler it finds, once and in order.              *)
THEOREM PullsAreComplete == Spec => []PullsReachEveryone
<1>1. IInv => PullsReachEveryone BY DEF IInv
<1> QED BY <1>1, AlwaysIInv, PTL

(* Whatever handlers do to the trigger that calls them, a pull is safe and  *)
(* complete.                                                                *)
THEOREM PullsAreAlwaysSound == Spec => []PullsAreSound
<1>1. PullsAreSound <=> TypeOK /\ PointersAreValid /\ PullsReachEveryone
  BY DEF PullsAreSound
<1> QED BY <1>1, TriggerTypes, PullsAreSafe, PullsAreComplete, PTL

-----------------------------------------------------------------------------
(* Removed handlers.                                                        *)

(* As long as nobody adds a handler again that is still disabled, removing  *)
(* finds the closure that its user means: a handler that has a disabled     *)
(* closure has no other.                                                    *)
WantedAreEnabled ==
    orderly => /\ \A c \in Enabled : handler[c] \in wanted
               /\ \A c, k \in closures : handler[c] = handler[k] => c = k

OInv == IInv /\ WantedAreEnabled

LEMMA OrderlyKeeps ==
  ASSUME OInv, [Next]_vars
  PROVE  WantedAreEnabled'
<1> USE DEF OInv, IInv
<1> SUFFICES ASSUME orderly' PROVE WantedAreEnabled'
  BY DEF WantedAreEnabled
<1>0. orderly
  BY DEF Next, AddHandler, RemoveHandler, IgnoreNextPull, IgnoredPull, Pull, CallNext, Return,
         EndPull, vars
<1> USE <1>0
<1>1. ASSUME NEW h \in Handler, AddHandler(h)
      PROVE  WantedAreEnabled'
  <2>1. \A c \in closures : handler[c] # h
    BY <1>1 DEF AddHandler, WantedAreEnabled, Enabled
  <2>2. /\ last' \notin closures /\ handler'[last'] = h
        /\ \A c \in closures : handler'[c] = handler[c]
    BY <1>1, Numbers DEF AddHandler, TypeOK, ListIsOrdered
  <2> QED BY <1>1, <2>1, <2>2 DEF AddHandler, WantedAreEnabled, Enabled
<1>2. ASSUME NEW h \in Handler, RemoveHandler(h)
      PROVE  WantedAreEnabled'
  <2>1. CASE \A c \in closures : handler[c] # h
    BY <1>2, <2>1 DEF RemoveHandler, IsFirst, WantedAreEnabled, Enabled
  <2>2. CASE \E c \in closures : handler[c] = h
    <3>1. PICK c \in closures : IsFirst(c, h) /\ Drop(c)
      BY <1>2, <2>2 DEF RemoveHandler
    <3>2. \A k \in closures : handler[k] = h => k = c
      BY <3>1 DEF IsFirst, WantedAreEnabled
    <3> QED BY <1>2, <3>1, <3>2 DEF RemoveHandler, Drop, WantedAreEnabled, Enabled
  <2> QED BY <2>1, <2>2
<1>3. CASE IgnoreNextPull \/ IgnoredPull \/ Pull \/ Return \/ UNCHANGED vars
  BY <1>3 DEF IgnoreNextPull, IgnoredPull, Pull, Return, vars,
              WantedAreEnabled, Enabled
<1>4. CASE CallNext
  BY <1>4 DEF CallNext, WantedAreEnabled, Enabled
<1>5. CASE EndPull
  BY <1>5 DEF EndPull, Tidy, WantedAreEnabled, Enabled
<1> QED BY <1>1, <1>2, <1>3, <1>4, <1>5 DEF Next

(* No handler that was removed is called, as long as users are orderly.     *)
LEMMA OrderlyCalls ==
  ASSUME OInv, [Next]_vars
  PROVE  [ orderly => \A d \in Pulls :
             node'[d] \notin {node[d], 0} => handler[node'[d]] \in wanted ]_vars
<1> USE TriggerAssumption DEF TriggerAssumption, OInv, IInv, Pulls
<1> SUFFICES ASSUME orderly, NEW d \in Pulls, node'[d] \notin {node[d], 0}
             PROVE  handler[node'[d]] \in wanted
  OBVIOUS
<1>1. CASE CallNext
  <2>1. d = depth /\ node'[d] = next[depth] /\ next[depth] \notin disabled
    BY <1>1, SMTT(30) DEF CallNext, Call, TypeOK
  <2> QED BY <1>1, <2>1 DEF CallNext, PointersAreValid, WantedAreEnabled, Enabled
<1>2. CASE Pull
  BY <1>2 DEF Pull, TypeOK
<1>3. CASE Return
  BY <1>3 DEF Return, TypeOK
<1>4. CASE ~(CallNext \/ Pull \/ Return)
  BY <1>4 DEF Next, AddHandler, RemoveHandler, IgnoreNextPull, IgnoredPull, EndPull,
              PullsUnchanged, vars
<1> QED BY <1>1, <1>2, <1>3, <1>4

(* A handler that was removed is not called, not even by the pull in which  *)
(* it was removed, unless a handler was added again during such a pull.     *)
THEOREM RemovedIsNotCalled == Spec => OnlyWantedCalled
<1>1. Init => OInv
  BY InitEstablishes DEF OInv, Init, WantedAreEnabled, Enabled
<1>2. OInv /\ [Next]_vars => OInv'
  BY OrderlyKeeps, NextKeeps DEF OInv
<1>3. OInv /\ [Next]_vars
          => [ orderly => \A d \in Pulls :
                 node'[d] \notin {node[d], 0} => handler[node'[d]] \in wanted ]_vars
  BY OrderlyCalls
<1> QED BY <1>1, <1>2, <1>3, PTL DEF Spec, OnlyWantedCalled

-----------------------------------------------------------------------------
(* The session of the console.                                              *)

Sessions ==
    [terminal : BOOLEAN, attached : BOOLEAN, redirected : BOOLEAN,
     running : BOOLEAN, fd : BOOLEAN, created : BOOLEAN, console : BOOLEAN,
     watched : BOOLEAN, kmsg : BOOLEAN, asserts : BOOLEAN]

(* What SessionIsSound rests on: a descriptor is one that an attachment     *)
(* created, so that a detachment closes it.                                 *)
SessionFits ==
    /\ session \in Sessions
    /\ session.fd => session.created

SInv == SessionFits /\ SessionIsSound

(* What an attachment and a detachment make of a session whose shape is     *)
(* known, for each outcome.                                                 *)
LEMMA AttachOutcomes ==
  ASSUME NEW s \in Sessions, ~s.running, ~s.asserts,
         NEW redirect \in BOOLEAN, NEW o \in Outcomes
  PROVE  LET t == TerminalAttach(s, redirect, o)
         IN  /\ t \in Sessions /\ ~t.asserts
             /\ \A f \in {"attached", "redirected", "kmsg", "terminal"} :
                    t[f] = s[f]
             /\ \/ /\ t.running /\ t.fd /\ t.created /\ t.watched
                   /\ t.console = redirect
                \/ /\ ~t.running
                   /\ t.fd = s.fd /\ t.watched = s.watched
                   /\ t.console = s.console
<1>1. CASE o = "not opened"
  BY <1>1 DEF TerminalAttach, Sessions
<1>2. CASE o # "not opened" /\ o = "not redirected" /\ redirect
  BY <1>2 DEF TerminalAttach, Sessions
<1>3. CASE o # "not opened" /\ ~(o = "not redirected" /\ redirect)
  BY <1>3 DEF TerminalAttach, Sessions
<1> QED BY <1>1, <1>2, <1>3

LEMMA DetachOutcome ==
  ASSUME NEW s \in Sessions, s.fd => s.created
  PROVE  LET t == TerminalDetach(s)
         IN  /\ t \in Sessions
             /\ ~t.running /\ ~t.fd /\ ~t.watched /\ ~t.console
             /\ \A f \in {"attached", "redirected", "kmsg", "terminal", "asserts"} :
                    t[f] = s[f]
  BY DEF TerminalDetach, Sessions

LEMMA AttachKeepsSession ==
  ASSUME SInv, NEW redirect \in BOOLEAN, NEW kmsg \in BOOLEAN,
         NEW o \in Outcomes, Attach(redirect, o, kmsg)
  PROVE  SInv'
<1> DEFINE s == [session EXCEPT !.terminal = TRUE]
           t == TerminalAttach(s, redirect, o)
<1>1. /\ s \in Sessions /\ ~s.running /\ ~s.asserts
      /\ ~s.fd /\ ~s.watched /\ ~s.console /\ ~s.kmsg
  BY DEF SInv, SessionFits, Sessions, SessionIsSound, Attach
<1>2. /\ t \in Sessions /\ ~t.asserts /\ ~t.kmsg
      /\ \/ /\ t.running /\ t.fd /\ t.created /\ t.watched
            /\ t.console = redirect
         \/ ~t.running /\ ~t.fd /\ ~t.watched /\ ~t.console
  <2> HIDE DEF s
  <2> QED BY <1>1, AttachOutcomes
<1>3. session' = IF ~t.running
                 THEN [t EXCEPT !.terminal = FALSE, !.attached = FALSE,
                                !.redirected = FALSE, !.created = FALSE]
                 ELSE [t EXCEPT !.attached = TRUE, !.redirected = redirect,
                                !.kmsg = kmsg]
  BY DEF Attach, SessionAttach
<1> HIDE DEF t
<1>4. CASE t.running
  <2>1. /\ session' \in Sessions /\ session'.attached /\ session'.fd
        /\ session'.watched /\ session'.created /\ ~session'.asserts
        /\ session'.running /\ session'.console = session'.redirected
    BY <1>2, <1>3, <1>4 DEF Sessions
  <2> QED BY <2>1 DEF SInv, SessionFits, SessionIsSound, Sessions
<1>5. CASE ~t.running
  <2>1. /\ session' \in Sessions /\ ~session'.attached /\ ~session'.fd
        /\ ~session'.watched /\ ~session'.console /\ ~session'.asserts
        /\ ~session'.running /\ ~session'.kmsg
    BY <1>2, <1>3, <1>5 DEF Sessions
  <2> QED BY <2>1 DEF SInv, SessionFits, SessionIsSound, Sessions
<1> QED BY <1>4, <1>5

LEMMA HangupKeepsSession ==
  ASSUME SInv, NEW o \in Outcomes, OnHangup(o)
  PROVE  SInv'
<1> DEFINE s == TerminalDetach(session)
<1>1. /\ session \in Sessions /\ session.attached /\ ~session.asserts
      /\ session.redirected \in BOOLEAN
  BY DEF SInv, SessionFits, Sessions, SessionIsSound, OnHangup
<1>2. /\ s \in Sessions /\ ~s.running /\ ~s.fd /\ ~s.watched /\ ~s.console
      /\ s.attached /\ s.redirected = session.redirected /\ ~s.asserts
  BY <1>1, DetachOutcome DEF SInv, SessionFits
<1>3. session' = TerminalAttach(s, session.redirected, o)
  BY DEF OnHangup, SInv, SessionFits, SessionIsSound
<1> HIDE DEF s
<1>4. /\ session' \in Sessions /\ ~session'.asserts /\ session'.attached
      /\ session'.redirected = session.redirected
      /\ \/ /\ session'.running /\ session'.fd /\ session'.created
            /\ session'.watched /\ session'.console = session.redirected
         \/ /\ ~session'.running /\ ~session'.fd /\ ~session'.watched
            /\ ~session'.console
  BY <1>1, <1>2, <1>3, AttachOutcomes
<1> QED BY <1>1, <1>4 DEF SInv, SessionFits, SessionIsSound

LEMMA DetachKeepsSession ==
  ASSUME SInv, Detach \/ OnKmsgEnd
  PROVE  SInv'
<1>1. CASE Detach
  <2> DEFINE t == TerminalDetach(session)
  <2>1. /\ t \in Sessions /\ ~t.running /\ ~t.fd /\ ~t.watched /\ ~t.console
        /\ ~t.asserts
    BY DetachOutcome DEF SInv, SessionFits, SessionIsSound
  <2>2. session' = [t EXCEPT !.attached = FALSE, !.redirected = FALSE,
                             !.kmsg = FALSE]
    BY <1>1 DEF Detach, SessionDetach
  <2> HIDE DEF t
  <2>3. /\ session' \in Sessions /\ ~session'.running /\ ~session'.fd
        /\ ~session'.watched /\ ~session'.console /\ ~session'.asserts
        /\ ~session'.attached /\ ~session'.kmsg
    BY <2>1, <2>2 DEF Sessions
  <2> QED BY <2>3 DEF SInv, SessionFits, SessionIsSound
<1>2. CASE OnKmsgEnd
  <2>1. session' = [session EXCEPT !.kmsg = FALSE]
    BY <1>2 DEF OnKmsgEnd
  <2> QED BY <2>1 DEF SInv, SessionFits, Sessions, SessionIsSound
<1> QED BY <1>1, <1>2

LEMMA ConsoleKeepsSession ==
  ASSUME SInv, [ConsoleNext]_consoleVars
  PROVE  SInv'
<1>1. UNCHANGED session => SInv'
  BY DEF SInv, SessionFits, SessionIsSound
<1>2. SplashNext => UNCHANGED session
  BY DEF SplashNext, ShowSplash, ChangeMode, FreeSplash, AddDisplay,
         RemoveDisplay, DisplayPassword, DisplayQuestion, DisplayNormal,
         ShowMessage, DisplayConsole, HideConsole, OnUpdate, Unwatched
<1>3. \/ UNCHANGED session
      \/ \E redirect, kmsg \in BOOLEAN, o \in Outcomes : Attach(redirect, o, kmsg)
      \/ \E o \in Outcomes : OnHangup(o)
      \/ Detach \/ OnKmsgEnd
  BY <1>2 DEF ConsoleNext, SessionNext, Write, OnNewData, OnKmsg, consoleVars
<1> QED
  BY <1>1, <1>3, AttachKeepsSession, HangupKeepsSession, DetachKeepsSession

(* Whatever hangs up and fails to come back, a session that runs has all of *)
(* the console that it was asked for and one that does not has nothing of   *)
(* it (plymouthd_session_attach, ply_terminal_session_on_hangup).           *)
THEOREM SessionIsAlwaysSound == ConsoleSpec => []SessionIsSound
<1>1. ConsoleInit => SInv
  BY DEF ConsoleInit, NoSession, SInv, SessionFits, Sessions, SessionIsSound
<1>2. SInv /\ [ConsoleNext]_consoleVars => SInv'
  BY ConsoleKeepsSession
<1>3. SInv => SessionIsSound
  BY DEF SInv
<1> QED BY <1>1, <1>2, <1>3, PTL DEF ConsoleSpec

-----------------------------------------------------------------------------
(* Texts, and what is done one after another.                              *)

(* Induction over the numbers, for a set of them.                           *)
LEMMA NumbersInduction ==
  ASSUME NEW P, 0 \in P, \A n \in Nat : n \in P => n + 1 \in P
  PROVE  \A n \in Nat : n \in P
<1>1. SUFFICES ASSUME NEW k \in Nat, k \notin P PROVE FALSE
  OBVIOUS
<1> DEFINE T == Nat \ P
<1>2. PICK n \in T : \A m \in T : ~(<<m, n>> \in OpToRel(<, Nat))
  BY <1>1, NatLessThanWellFounded, WFMin
<1>3. n \in Nat /\ n # 0
  BY <1>2
<1>4. n - 1 \in Nat /\ n - 1 < n /\ (n - 1) + 1 = n
  BY <1>3
<1>5. n - 1 \notin T
  BY <1>2, <1>4 DEF OpToRel
<1> QED BY <1>2, <1>4, <1>5

(* A text is parsed, the commands of a sequence run, and the prints of a    *)
(* plugin are written, one after another: the function exists that ParseOn, *)
(* RunPending and PluginWrites are the last value of.                       *)
Act(kind, e, x) ==
    IF kind = "byte" THEN Continue(e, x)
    ELSE IF kind = "print" THEN PluginPrint(e, x) ELSE Dispatch(e, x)

Rule(kind, f, e, seq, n) ==
    f = [m \in 0..n |-> IF m = 0 THEN e ELSE Act(kind, f[m - 1], seq[m])]

LEMMA RuleIsFollowed ==
  ASSUME NEW kind, NEW e, NEW seq
  PROVE  \A n \in Nat : \E f : Rule(kind, f, e, seq, n)
<1> DEFINE P == {n \in Nat : \E f : Rule(kind, f, e, seq, n)}
<1>1. 0 \in P
  <2>1. Rule(kind, [m \in 0..0 |-> e], e, seq, 0)
    BY DEF Rule
  <2> QED BY <2>1
<1>2. ASSUME NEW n \in Nat, n \in P PROVE n + 1 \in P
  <2>1. PICK f : Rule(kind, f, e, seq, n)
    BY <1>2
  <2> DEFINE g == [m \in 0..(n + 1) |->
                IF m = n + 1 THEN Act(kind, f[n], seq[n + 1]) ELSE f[m]]
  <2>2. ASSUME NEW m \in 0..(n + 1)
        PROVE  g[m] = IF m = 0 THEN e ELSE Act(kind, g[m - 1], seq[m])
    <3>1. CASE m = n + 1
      BY <3>1
    <3>2. CASE m # n + 1 /\ m # 0
      <4>1. m \in 0..n /\ m - 1 \in 0..n /\ m - 1 # n + 1 /\ m - 1 \in 0..(n + 1)
        BY <3>2
      <4>2. f[m] = Act(kind, f[m - 1], seq[m])
        BY <2>1, <3>2, <4>1 DEF Rule
      <4> QED BY <3>2, <4>1, <4>2
    <3>3. CASE m # n + 1 /\ m = 0
      BY <2>1, <3>3 DEF Rule
    <3> QED BY <3>1, <3>2, <3>3
  <2> HIDE DEF g
  <2>3. g = [m \in 0..(n + 1) |-> g[m]]
    BY DEF g
  <2>4. Rule(kind, g, e, seq, n + 1)
    BY <2>2, <2>3 DEF Rule
  <2>5. \E f1 : Rule(kind, f1, e, seq, n + 1)
    BY <2>4
  <2> QED BY <2>5
<1> HIDE DEF P
<1>3. \A n \in Nat : n \in P
  BY <1>1, <1>2, NumbersInduction
<1> QED BY <1>3 DEF P

(* Texts are made of strings; the provers have to be told which of the      *)
(* literals are meant.                                                      *)
Bytes == STRING \cup {"none", "ESC", "[", "0", "1", "2", "3", "9", ";", "m",
                      "k", "NL", "K", "G", ":", " ", "_", "BS"}

LEMMA WritesFollow ==
  ASSUME NEW w, NEW texts \in Seq(Seq(Bytes))
  PROVE  \E f : /\ f[0] = w
                /\ \A n \in 1..Len(texts) : f[n] = PluginPrint(f[n - 1], texts[n])
                /\ PluginWrites(w, texts) = f[Len(texts)]
<1> DEFINE Is(f) == f = [n \in 0..Len(texts) |->
                IF n = 0 THEN w ELSE PluginPrint(f[n - 1], texts[n])]
<1> DEFINE after == CHOOSE f : Is(f)
<1>1. Len(texts) \in Nat
  BY LenProperties
<1>2. \E f : Is(f)
  <2>1. PICK f : Rule("print", f, w, texts, Len(texts))
    BY <1>1, RuleIsFollowed
  <2>2. \A n \in 0..Len(texts) :
            Act("print", f[n - 1], texts[n]) = PluginPrint(f[n - 1], texts[n])
    BY DEF Act
  <2>3. Is(f)
    BY <2>1, <2>2 DEF Rule
  <2> QED BY <2>3
<1>3. Is(after)
  <2> HIDE DEF Is
  <2> QED BY <1>2
<1>4. PluginWrites(w, texts) = after[Len(texts)]
  BY DEF PluginWrites
<1> HIDE DEF after
<1>5. after[0] = w
  BY <1>1, <1>3
<1>6. ASSUME NEW n \in 1..Len(texts)
      PROVE  after[n] = PluginPrint(after[n - 1], texts[n])
  <2>1. n \in 0..Len(texts) /\ n # 0
    BY <1>1
  <2> QED BY <1>3, <2>1
<1> QED BY <1>4, <1>5, <1>6

(* Texts of a few bytes.                                                    *)
LEMMA ShortTexts ==
  ASSUME NEW a \in Bytes, NEW b \in Bytes, NEW c \in Bytes, NEW d \in Bytes
  PROVE  /\ <<a>> \in Seq(Bytes) /\ <<a, b>> \in Seq(Bytes)
         /\ <<a, b, c, d>> \in Seq(Bytes)
<1> HIDE DEF Bytes
<1> QED OBVIOUS

LEMMA PhrasesAreTexts ==
  /\ \A text \in Phrases : text \in Seq(Bytes)
  /\ \A text \in Texts : text \in Seq(Bytes)
  /\ \A over \in Overs : over \in Seq(Bytes)
<1>1. STRING \subseteq Bytes /\ "BS" \in Bytes /\ " " \in Bytes
  BY DEF Bytes
<1> HIDE DEF Bytes
<1>2. <<"BS">> \in Seq(Bytes) /\ <<"BS", " ">> \in Seq(Bytes)
  BY ONLY <1>1, ShortTexts
<1>3. \A text \in Seq(STRING) : text \in Seq(Bytes)
  BY <1>1, SeqMonotonic
<1> QED BY <1>2, <1>3, ConsoleAssumption

(* What the plugin writes for a prompt, to hide it, and for a message.      *)
LEMMA PromptsAreTexts ==
  /\ \A text, entry \in Phrases \cup {<<>>}, n \in Nat :
        ShowPromptTexts(text, entry, n) \in Seq(Seq(Bytes))
  /\ \A state : \A over \in Overs :
        HidePromptTexts(state, over) \in Seq(Seq(Bytes))
  /\ \A text \in Phrases : <<MessageText(text)>> \in Seq(Seq(Bytes))
<1> DEFINE S == Seq(Bytes)
<1>1. /\ ClearLine \in S /\ <<":", " ">> \in S /\ <<" ">> \in S /\ <<"_">> \in S
      /\ <<"NL">> \in S /\ <<>> \in S
  <2>1. "ESC" \in Bytes /\ "[" \in Bytes /\ "2" \in Bytes /\ "K" \in Bytes
        /\ "0" \in Bytes /\ "G" \in Bytes /\ ":" \in Bytes /\ " " \in Bytes
        /\ "_" \in Bytes /\ "NL" \in Bytes
    BY DEF Bytes
  <2> HIDE DEF Bytes
  <2> DEFINE none == <<>>
  <2>2. ClearLine \in Seq(Bytes)
    <3> DEFINE left == <<"ESC", "[", "2", "K">>  right == <<"ESC", "[", "0", "G">>
    <3>1. left \in Seq(Bytes) /\ right \in Seq(Bytes)
      BY ONLY <2>1, ShortTexts
    <3>2. ClearLine = left \o right
      BY DEF ClearLine
    <3> HIDE DEF left, right
    <3> QED BY <3>1, <3>2, ConcatProperties
  <2>3. /\ <<":", " ">> \in Seq(Bytes) /\ <<" ">> \in Seq(Bytes)
        /\ <<"_">> \in Seq(Bytes) /\ <<"NL">> \in Seq(Bytes)
    BY ONLY <2>1, ShortTexts
  <2>4. none \in Seq(Bytes)
    OBVIOUS
  <2> QED BY <2>2, <2>3, <2>4
<1>2. ASSUME NEW text \in Phrases \cup {<<>>}, NEW entry \in Phrases \cup {<<>>},
             NEW n \in Nat
      PROVE  ShowPromptTexts(text, entry, n) \in Seq(S)
  <2> DEFINE a == ClearLine  c == <<":", " ">>  d == <<"_">>  b == <<" ">>
             head == <<a, text, c, entry>>
             bullets == [i \in 1..n |-> b]
             tail == <<d>>
  <2>1. a \in S /\ b \in S /\ c \in S /\ d \in S /\ text \in S /\ entry \in S
    BY <1>1, PhrasesAreTexts
  <2>2. ShowPromptTexts(text, entry, n) = (head \o bullets) \o tail
    BY DEF ShowPromptTexts
  <2> HIDE DEF a, b, c, d, S
  <2>3. head \in Seq(S) /\ tail \in Seq(S)
    BY <2>1
  <2>4. bullets \in Seq(S)
    BY <2>1, SeqDef
  <2> HIDE DEF head, bullets, tail
  <2>5. head \o bullets \in Seq(S)
    BY <2>3, <2>4, ConcatProperties
  <2> QED BY <2>2, <2>3, <2>5, ConcatProperties
<1>3. ASSUME NEW state, NEW over \in Overs
      PROVE  HidePromptTexts(state, over) \in Seq(S)
  <2> DEFINE a == IF state = "password" THEN ClearLine ELSE over
             b == <<"NL">>
  <2>1. a \in S /\ b \in S
    BY <1>1, PhrasesAreTexts
  <2>2. HidePromptTexts(state, over) = <<a, b>>
    BY DEF HidePromptTexts
  <2> HIDE DEF a, b, S
  <2> QED BY <2>1, <2>2
<1>4. ASSUME NEW text \in Phrases
      PROVE  <<MessageText(text)>> \in Seq(S)
  <2> DEFINE b == <<"NL">>
  <2>1. text \in S /\ b \in S
    BY <1>1, PhrasesAreTexts
  <2>2. MessageText(text) = (b \o text) \o b
    BY DEF MessageText
  <2> HIDE DEF b
  <2>3. b \o text \in S
    BY <2>1, ConcatProperties
  <2>4. MessageText(text) \in S
    BY <2>1, <2>2, <2>3, ConcatProperties
  <2> HIDE DEF S
  <2> QED BY <2>4
<1> QED BY <1>2, <1>3, <1>4

-----------------------------------------------------------------------------
(* The labels of a console viewer.                                          *)

(* A viewer has a label for each row.                                       *)
IsViewer(v) ==
    /\ v \in [made : BOOLEAN, emulator : {v.emulator}, hidden : BOOLEAN,
              queued : BOOLEAN, labels : {v.labels}]
    /\ v.labels = [i \in 0..(Rows - 1) |-> v.labels[i]]

Fresh(v) ==
    v.made /\ ~v.hidden /\ ~v.queued =>
        \A i \in 0..(Rows - 1) :
            i < v.emulator.count =>
                v.labels[i] = Visible(NthLine(v.emulator, First(v.emulator) + i))

Viewed(v) == IsViewer(v) /\ Fresh(v)

LEMMA NoViewIsViewed ==
  /\ Viewed(NoView)
  /\ Viewed([NoView EXCEPT !.made = TRUE])
  BY DEF Viewed, IsViewer, Fresh, NoView

(* The timer and the user's call bring the labels up to date.               *)
LEMMA UpdateIsViewed ==
  ASSUME NEW v, Viewed(v)
  PROVE  Viewed(Update(v)) /\ Viewed(ViewerShow(v))
<1>1. ASSUME NEW u, IsViewer(u)
      PROVE  Viewed(Update(u))
  BY <1>1 DEF Viewed, IsViewer, Fresh, Update
<1>2. IsViewer([v EXCEPT !.hidden = FALSE])
  BY DEF Viewed, IsViewer
<1> QED BY <1>1, <1>2 DEF Viewed, ViewerShow

LEMMA HideIsViewed ==
  ASSUME NEW v, Viewed(v)
  PROVE  Viewed(ViewerHide(v))
  BY DEF Viewed, IsViewer, Fresh, ViewerHide

(* Whatever the text does to the emulator, a viewer that can be seen has    *)
(* its timer started; no text does nothing.                                 *)
LEMMA WriteIsViewed ==
  ASSUME NEW v, NEW text, Viewed(v)
  PROVE  Viewed(ViewerWrite(v, text))
<1>1. CASE text = <<>>
  <2>1. Parse(v.emulator, text) = v.emulator
    BY <1>1 DEF Parse
  <2>2. (v.queued \/ (text # <<>> /\ ~v.hidden)) = v.queued
    BY <1>1 DEF Viewed, IsViewer
  <2>3. [v EXCEPT !.emulator = v.emulator, !.queued = v.queued] = v
    BY DEF Viewed, IsViewer
  <2>4. ViewerWrite(v, text) = v
    BY <2>1, <2>2, <2>3, Zenon DEF ViewerWrite
  <2> QED BY <2>4
<1>2. CASE text # <<>>
  BY <1>2 DEF Viewed, IsViewer, Fresh, ViewerWrite
<1> QED BY <1>1, <1>2

LEMMA OutputIsViewed ==
  ASSUME NEW w, NEW piece, Viewed(w.view)
  PROVE  Viewed(OutputAppend(w, piece).view)
  BY WriteIsViewed DEF OutputAppend

LEMMA PrintIsViewed ==
  ASSUME NEW w, NEW priority, Viewed(w.view)
  PROVE  Viewed(KmsgPrint(w, priority).view)
  BY OutputIsViewed DEF KmsgPrint

(* What the plugin prints.                                                  *)
LEMMA WritesAreViewed ==
  ASSUME NEW w, NEW texts \in Seq(Seq(Bytes)), Viewed(w.view)
  PROVE  Viewed(PluginWrites(w, texts).view)
<1>1. PICK f : /\ f[0] = w
               /\ \A n \in 1..Len(texts) : f[n] = PluginPrint(f[n - 1], texts[n])
               /\ PluginWrites(w, texts) = f[Len(texts)]
  BY WritesFollow
<1>2. ASSUME NEW u, NEW text, Viewed(u.view)
      PROVE  Viewed(PluginPrint(u, text).view)
  BY <1>2, WriteIsViewed DEF PluginPrint
<1>3. Len(texts) \in Nat
  BY LenProperties
<1> DEFINE P == {n \in Nat : n <= Len(texts) => Viewed(f[n].view)}
<1>4. 0 \in P
  BY <1>1
<1>5. ASSUME NEW n \in Nat, n \in P PROVE n + 1 \in P
  <2> SUFFICES ASSUME n + 1 <= Len(texts) PROVE Viewed(f[n + 1].view)
    OBVIOUS
  <2>1. n + 1 \in 1..Len(texts) /\ n <= Len(texts) /\ (n + 1) - 1 = n
    <3>1. PICK m \in Nat : m = Len(texts)
      BY <1>3
    <3> HIDE DEF P
    <3> QED BY <3>1
  <2>2. Viewed(f[n].view)
    BY <1>5, <2>1
  <2>3. f[n + 1] = PluginPrint(f[n], texts[n + 1])
    BY <1>1, <2>1
  <2> QED BY <1>2, <2>2, <2>3
<1> HIDE DEF P
<1>6. Len(texts) \in P
  BY <1>3, <1>4, <1>5, NumbersInduction
<1> QED BY <1>1, <1>3, <1>6 DEF P

LEMMA PrintsAreViewed ==
  ASSUME Viewed(view), NEW texts \in Seq(Seq(Bytes)), Prints(texts)
  PROVE  Viewed(view')
<1>1. Now.view = view
  BY DEF Now
<1>2. view' = PluginWrites(Now, texts).view \/ view' = view
  BY <1>1 DEF Prints, Views
<1> QED BY <1>1, <1>2, WritesAreViewed

(* The writers of a viewer that belong to the splash.                       *)
PluginPrinting ==
    \/ \E text \in Phrases, n \in 0..MaxBullets : DisplayPassword(text, n)
    \/ \E text, entry \in Phrases : DisplayQuestion(text, entry)
    \/ \E over \in Overs : DisplayNormal(over)
    \/ \E text \in Phrases : ShowMessage(text)

LEMMA PluginPrints ==
  ASSUME PluginPrinting
  PROVE  \E texts \in Seq(Seq(Bytes)) : Prints(texts)
<1>1. MaxBullets \in Nat
  BY ConsoleAssumption
<1>2. ASSUME NEW text \in Phrases, NEW n \in 0..MaxBullets, DisplayPassword(text, n)
      PROVE  \E texts \in Seq(Seq(Bytes)) : Prints(texts)
  <2> DEFINE none == <<>>
  <2>1. none \in Phrases \cup {<<>>} /\ n \in Nat
    BY <1>1
  <2> HIDE DEF none
  <2>2. ShowPromptTexts(text, none, n) \in Seq(Seq(Bytes))
    BY <2>1, PromptsAreTexts
  <2> QED BY <1>2, <2>2 DEF DisplayPassword, none
<1>3. ASSUME NEW text \in Phrases, NEW entry \in Phrases,
             DisplayQuestion(text, entry)
      PROVE  \E texts \in Seq(Seq(Bytes)) : Prints(texts)
  <2>1. ShowPromptTexts(text, entry, 0) \in Seq(Seq(Bytes))
    BY PromptsAreTexts
  <2> QED BY <1>3, <2>1 DEF DisplayQuestion
<1>4. ASSUME NEW over \in Overs, DisplayNormal(over)
      PROVE  \E texts \in Seq(Seq(Bytes)) : Prints(texts)
  <2>1. HidePromptTexts(prompt, over) \in Seq(Seq(Bytes))
    BY PromptsAreTexts
  <2> QED BY <1>4, <2>1 DEF DisplayNormal
<1>5. ASSUME NEW text \in Phrases, ShowMessage(text)
      PROVE  \E texts \in Seq(Seq(Bytes)) : Prints(texts)
  <2>1. <<MessageText(text)>> \in Seq(Seq(Bytes))
    BY PromptsAreTexts
  <2> QED BY <1>5, <2>1 DEF ShowMessage
<1> QED BY <1>2, <1>3, <1>4, <1>5 DEF PluginPrinting

LEMMA ConsoleKeepsViews ==
  ASSUME Viewed(view), [ConsoleNext]_consoleVars
  PROVE  Viewed(view)'
<1>1. ASSUME NEW n \in DOMAIN stream, OnNewData(n)
      PROVE  Viewed(view')
  <2>1. \/ view' = OutputAppend(Now, SubSeq(stream, 1, n)).view /\ Now.view = view
        \/ view' = view
    BY <1>1 DEF OnNewData, Becomes, UseMissing, Now
  <2> QED BY <2>1, OutputIsViewed
<1>2. ASSUME NEW p \in Priorities, NEW lines \in 1..2, NEW level \in {3, 7},
             OnKmsg(p, lines, level)
      PROVE  Viewed(view')
  <2>1. Viewed(Now.view) /\ Viewed(KmsgPrint(Now, p).view)
        /\ Viewed(KmsgPrint(KmsgPrint(Now, p), p).view)
    BY PrintIsViewed DEF Now
  <2>2. \/ view' = view
        \/ view' = KmsgPrint(Now, p).view
        \/ view' = KmsgPrint(KmsgPrint(Now, p), p).view
    <3>1. CASE lines = 1
      BY <1>2, <3>1 DEF OnKmsg, Becomes, UseMissing
    <3>2. CASE lines # 1
      BY <1>2, <3>2 DEF OnKmsg, Becomes, UseMissing
    <3> QED BY <3>1, <3>2
  <2> QED BY <2>1, <2>2
<1>3. CASE ShowSplash \/ AddDisplay \/ FreeSplash \/ RemoveDisplay
  <2> DEFINE v == [NoView EXCEPT !.made = TRUE]
  <2>1. Viewed(ViewerWrite(v, output.bytes)) /\ Viewed(NoView)
    BY NoViewIsViewed, WriteIsViewed
  <2> HIDE DEF v
  <2>2. view' \in {view, NoView, ViewerWrite(v, output.bytes)}
    BY <1>3 DEF ShowSplash, AddDisplay, FreeSplash, RemoveDisplay, LoadView,
                DropView, UseMissing, v
  <2> QED BY <2>1, <2>2
<1>4. CASE ChangeMode \/ DisplayConsole \/ HideConsole \/ OnUpdate
  <2>1. /\ Viewed(ViewerWrite(view, output.bytes)) /\ Viewed(Update(view))
        /\ Viewed(ViewerShow(view)) /\ Viewed(ViewerHide(view))
    BY WriteIsViewed, UpdateIsViewed, HideIsViewed
  <2>2. view' \in {view, ViewerWrite(view, output.bytes), Update(view),
                    ViewerShow(view), ViewerHide(view)}
    BY <1>4 DEF ChangeMode, DisplayConsole, HideConsole, OnUpdate, UseMissing
  <2> QED BY <2>1, <2>2
<1>5. ASSUME UNCHANGED view
      PROVE  Viewed(view')
  BY <1>5
<1>6. ASSUME PluginPrinting
      PROVE  Viewed(view')
  BY <1>6, PluginPrints, PrintsAreViewed
<1>7. \/ UNCHANGED view
      \/ \E n \in DOMAIN stream : OnNewData(n)
      \/ \E p \in Priorities, lines \in 1..2, level \in {3, 7} :
             OnKmsg(p, lines, level)
      \/ SplashNext
  BY DEF ConsoleNext, SessionNext, consoleVars, Attach, Detach, Write, OnHangup,
         OnKmsgEnd
<1> QED BY <1>1, <1>2, <1>3, <1>4, <1>5, <1>6, <1>7 DEF SplashNext, PluginPrinting

(* A console viewer that can be seen shows the last lines of its emulator,  *)
(* or its timer runs to bring them, whatever is written to it and however   *)
(* often it is hidden and shown (update_console_messages).                  *)
THEOREM LabelsAreAlwaysFresh == ConsoleSpec => []LabelsAreFresh
<1>1. ConsoleInit => Viewed(view)
  BY NoViewIsViewed DEF ConsoleInit
<1>2. Viewed(view) /\ [ConsoleNext]_consoleVars => Viewed(view)'
  BY ConsoleKeepsViews
<1>3. Viewed(view) => LabelsAreFresh
  BY DEF Viewed, Fresh, LabelsAreFresh
<1> QED BY <1>1, <1>2, <1>3, PTL DEF ConsoleSpec

-----------------------------------------------------------------------------
(* The output in the emulator of a viewer, for every text and every way to  *)
(* cut it.                                                                  *)

(* What the emulator queues: a control sequence has a parameter at least.   *)
Commands ==
    {c \in [type : {"sequence", "escape", "control"}, code : Bytes,
            parameters : Seq(Nat), valid : BOOLEAN] :
        c.type = "sequence" => c.parameters # <<>>}

LEMMA ParseFollows ==
  ASSUME NEW e, NEW text \in Seq(Bytes)
  PROVE  \E f : /\ f[0] = e
                /\ \A n \in 1..Len(text) : f[n] = Continue(f[n - 1], text[n])
                /\ ParseOn(e, text) = f[Len(text)]
<1> DEFINE Is(f) == f = [n \in 0..Len(text) |->
                IF n = 0 THEN e ELSE Continue(f[n - 1], text[n])]
<1> DEFINE after == CHOOSE f : Is(f)
<1>1. Len(text) \in Nat
  BY LenProperties
<1>2. \E f : Is(f)
  <2>1. PICK f : Rule("byte", f, e, text, Len(text))
    BY <1>1, RuleIsFollowed
  <2>2. \A n \in 0..Len(text) :
            Act("byte", f[n - 1], text[n]) = Continue(f[n - 1], text[n])
    BY DEF Act
  <2>3. Is(f)
    BY <2>1, <2>2 DEF Rule
  <2> QED BY <2>3
<1>3. Is(after)
  <2> HIDE DEF Is
  <2> QED BY <1>2
<1>4. ParseOn(e, text) = after[Len(text)]
  BY DEF ParseOn
<1> HIDE DEF after
<1>5. after[0] = e
  BY <1>1, <1>3
<1>6. ASSUME NEW n \in 1..Len(text)
      PROVE  after[n] = Continue(after[n - 1], text[n])
  <2>1. n \in 0..Len(text) /\ n # 0
    BY <1>1
  <2> QED BY <1>3, <2>1
<1> QED BY <1>4, <1>5, <1>6

LEMMA PendingFollows ==
  ASSUME NEW e, e.pending \in Seq(Commands), e.state = "unescaped"
  PROVE  \E f : /\ f[0] = e
                /\ \A n \in 1..Len(e.pending) :
                       f[n] = Dispatch(f[n - 1], e.pending[n])
                /\ RunPending(e) = [f[Len(e.pending)] EXCEPT !.pending = <<>>]
<1> DEFINE Is(f) == f = [n \in 0..Len(e.pending) |->
                IF n = 0 THEN e ELSE Dispatch(f[n - 1], e.pending[n])]
<1> DEFINE after == CHOOSE f : Is(f)
<1>1. Len(e.pending) \in Nat
  BY LenProperties
<1>2. \E f : Is(f)
  <2>1. PICK f : Rule("command", f, e, e.pending, Len(e.pending))
    BY <1>1, RuleIsFollowed
  <2>2. \A n \in 0..Len(e.pending) :
            Act("command", f[n - 1], e.pending[n]) = Dispatch(f[n - 1], e.pending[n])
    BY DEF Act
  <2>3. Is(f)
    BY <2>1, <2>2 DEF Rule
  <2> QED BY <2>3
<1>3. Is(after)
  <2> HIDE DEF Is
  <2> QED BY <1>2
<1>4. RunPending(e) = [after[Len(e.pending)] EXCEPT !.pending = <<>>]
  BY DEF RunPending
<1> HIDE DEF after
<1>5. after[0] = e
  BY <1>1, <1>3
<1>6. ASSUME NEW n \in 1..Len(e.pending)
      PROVE  after[n] = Dispatch(after[n - 1], e.pending[n])
  <2>1. n \in 0..Len(e.pending) /\ n # 0
    BY <1>1
  <2> QED BY <1>3, <2>1
<1> QED BY <1>4, <1>5, <1>6

LEMMA ParseEmpty ==
  ASSUME NEW e PROVE ParseOn(e, <<>>) = e
<1> DEFINE none == <<>>
<1>1. none \in Seq(Bytes) /\ Len(none) = 0
  OBVIOUS
<1> HIDE DEF none
<1>2. PICK f : /\ f[0] = e
               /\ \A n \in 1..Len(none) : f[n] = Continue(f[n - 1], none[n])
               /\ ParseOn(e, none) = f[Len(none)]
  BY <1>1, ParseFollows
<1> QED BY <1>1, <1>2 DEF none

LEMMA ParseAppend ==
  ASSUME NEW e, NEW text \in Seq(Bytes), NEW b \in Bytes
  PROVE  ParseOn(e, Append(text, b)) = Continue(ParseOn(e, text), b)
<1> DEFINE long == Append(text, b)
<1>1. /\ long \in Seq(Bytes) /\ Len(long) = Len(text) + 1 /\ Len(text) \in Nat
      /\ long[Len(text) + 1] = b
      /\ \A n \in 1..Len(text) : long[n] = text[n]
  <2>1. long \in Seq(Bytes) /\ Len(long) = Len(text) + 1 /\ Len(text) \in Nat
    BY AppendProperties, LenProperties
  <2>2. long[Len(text) + 1] = b
    BY AppendProperties
  <2>3. ASSUME NEW n \in 1..Len(text) PROVE long[n] = text[n]
    BY AppendProperties
  <2> QED BY <2>1, <2>2, <2>3
<1> HIDE DEF long
<1>2. PICK f : /\ f[0] = e
               /\ \A n \in 1..Len(text) : f[n] = Continue(f[n - 1], text[n])
               /\ ParseOn(e, text) = f[Len(text)]
  BY ParseFollows
<1>3. PICK g : /\ g[0] = e
               /\ \A n \in 1..Len(long) : g[n] = Continue(g[n - 1], long[n])
               /\ ParseOn(e, long) = g[Len(long)]
  BY <1>1, ParseFollows
<1> DEFINE P == {n \in Nat : n <= Len(text) => g[n] = f[n]}
<1>4. 0 \in P
  BY <1>2, <1>3
<1>5. ASSUME NEW n \in Nat, n \in P PROVE n + 1 \in P
  <2>1. SUFFICES ASSUME n + 1 <= Len(text) PROVE g[n + 1] = f[n + 1]
    OBVIOUS
  <2>2. n + 1 \in 1..Len(text) /\ n + 1 \in 1..Len(long) /\ (n + 1) - 1 = n
    BY <1>1, <2>1
  <2>3. g[n] = f[n]
    BY <1>1, <1>5, <2>1
  <2>4. g[n + 1] = Continue(g[n], long[n + 1]) /\ f[n + 1] = Continue(f[n], text[n + 1])
    BY <1>2, <1>3, <2>2
  <2> QED BY <1>1, <2>2, <2>3, <2>4
<1>6. g[Len(text)] = f[Len(text)]
  <2> HIDE DEF P
  <2>1. \A n \in Nat : n \in P
    BY <1>4, <1>5, NumbersInduction
  <2> QED BY <1>1, <2>1 DEF P
<1>7. g[Len(text) + 1] = Continue(g[Len(text)], b)
  <2>1. Len(text) + 1 \in 1..Len(long) /\ (Len(text) + 1) - 1 = Len(text)
    BY <1>1
  <2>2. g[Len(text) + 1] = Continue(g[(Len(text) + 1) - 1], long[Len(text) + 1])
    BY <1>3, <2>1
  <2> QED BY <1>1, <2>1, <2>2
<1> QED BY <1>1, <1>2, <1>3, <1>6, <1>7 DEF long

(* A text that is cut is parsed piece by piece.                             *)
LEMMA ParseConcat ==
  ASSUME NEW e, NEW s \in Seq(Bytes), NEW t \in Seq(Bytes)
  PROVE  ParseOn(e, s \o t) = ParseOn(ParseOn(e, s), t)
<1> DEFINE P == {n \in Nat : \A u \in Seq(Bytes) : Len(u) = n =>
                    ParseOn(e, s \o u) = ParseOn(ParseOn(e, s), u)}
<1>1. 0 \in P
  <2> SUFFICES ASSUME NEW u \in Seq(Bytes), Len(u) = 0
               PROVE  ParseOn(e, s \o u) = ParseOn(ParseOn(e, s), u)
    OBVIOUS
  <2>1. u = <<>> /\ s \o u = s
    BY EmptySeq, ConcatEmptySeq
  <2> QED BY <2>1, ParseEmpty
<1>2. ASSUME NEW n \in Nat, n \in P PROVE n + 1 \in P
  <2> SUFFICES ASSUME NEW u \in Seq(Bytes), Len(u) = n + 1
               PROVE  ParseOn(e, s \o u) = ParseOn(ParseOn(e, s), u)
    OBVIOUS
  <2>1. u # <<>>
    BY EmptySeq
  <2>2. PICK v \in Seq(Bytes), b \in Bytes : u = Append(v, b)
    BY <2>1, SequenceEmptyOrAppend
  <2>3. Len(v) = n
    BY <2>2, AppendProperties, LenProperties
  <2>4. ParseOn(e, s \o v) = ParseOn(ParseOn(e, s), v)
    BY <1>2, <2>3
  <2>5. s \o v \in Seq(Bytes) /\ <<b>> \in Seq(Bytes)
    BY <2>2, ConcatProperties
  <2> DEFINE one == <<b>>
  <2>6. u = v \o one
    BY <2>2, AppendIsConcat
  <2>7. Append(s \o v, b) = (s \o v) \o one
    BY <2>5, AppendIsConcat
  <2> HIDE DEF one
  <2>8. (s \o v) \o one = s \o (v \o one)
    BY <2>2, <2>5, ConcatAssociative DEF one
  <2>9. s \o u = Append(s \o v, b)
    <3>1. s \o u = s \o (v \o one)
      BY <2>6, Zenon
    <3> QED BY <2>7, <2>8, <3>1, Zenon
  <2>10. ParseOn(e, s \o u) = Continue(ParseOn(e, s \o v), b)
    <3>1. ParseOn(e, Append(s \o v, b)) = Continue(ParseOn(e, s \o v), b)
      BY <2>5, ParseAppend
    <3> QED BY <2>9, <3>1, Zenon
  <2>11. ParseOn(ParseOn(e, s), u) = Continue(ParseOn(ParseOn(e, s), v), b)
    BY <2>2, ParseAppend
  <2> QED BY <2>4, <2>10, <2>11
<1>3. \A n \in Nat : n \in P
  <2> HIDE DEF P
  <2> QED BY <1>1, <1>2, NumbersInduction
<1> QED BY <1>3, LenProperties

(* All that a text depends on is what its first byte makes of the emulator. *)
LEMMA ParseFirst ==
  ASSUME NEW d, NEW e, NEW text \in Seq(Bytes), text # <<>>,
         Continue(d, text[1]) = Continue(e, text[1])
  PROVE  ParseOn(d, text) = ParseOn(e, text)
<1>1. /\ text[1] \in Bytes /\ Tail(text) \in Seq(Bytes)
      /\ text = <<text[1]>> \o Tail(text)
      /\ <<text[1]>> \in Seq(Bytes)
  <2>1. Len(text) \in Nat /\ Len(text) # 0
    BY EmptySeq, LenProperties
  <2>2. text[1] \in Bytes
    BY <2>1, ElementOfSeq
  <2>3. text = SubSeq(text, 1, Len(text)) /\ Tail(text) = SubSeq(text, 2, Len(text))
    BY SubSeqFull, TailIsSubSeq
  <2>4. SubSeq(text, 1, Len(text)) = <<text[1]>> \o SubSeq(text, 2, Len(text))
    BY <2>1, SubSeqRecursiveFirst
  <2> QED BY <2>2, <2>3, <2>4, HeadTailProperties
<1>2. ASSUME NEW x PROVE ParseOn(x, <<text[1]>>) = Continue(x, text[1])
  <2>1. <<text[1]>> = Append(<<>>, text[1]) /\ <<>> \in Seq(Bytes)
    OBVIOUS
  <2>2. ParseOn(x, Append(<<>>, text[1])) = Continue(ParseOn(x, <<>>), text[1])
    BY <1>1, <2>1, ParseAppend
  <2> QED BY <2>1, <2>2, ParseEmpty
<1>3. ASSUME NEW x
      PROVE  ParseOn(x, text) = ParseOn(Continue(x, text[1]), Tail(text))
  <2>1. ParseOn(x, <<text[1]>> \o Tail(text))
            = ParseOn(ParseOn(x, <<text[1]>>), Tail(text))
    BY <1>1, ParseConcat
  <2> QED BY <1>1, <1>2, <2>1
<1> QED BY <1>3

-----------------------------------------------------------------------------
(* An emulator in the middle of a text. What it keeps has the types of the  *)
(* code; unless the line has just been broken, its cursor is on the line it *)
(* works on and in front of the margin, and a cursor that resets is at the  *)
(* start of the line.                                                       *)
Fields == {"state", "staged", "pending", "value", "integer", "bytes", "multi",
           "lines", "count", "row", "column", "resets", "style", "current",
           "broken"}

Staged == [type : {"none", "sequence"}, code : Bytes, parameters : Seq(Nat),
           valid : BOOLEAN]

Wellformed(e) ==
    /\ DOMAIN e = Fields /\ e = [x \in Fields |-> e[x]]
    /\ e.lines = [i \in DOMAIN e.lines |-> e.lines[i]]
    /\ e.state \in {"unescaped", "escaped", "parameter"}
    /\ e.staged \in Staged
    /\ e.state = "parameter" => e.staged.type = "sequence"
    /\ e.pending \in Seq(Commands)
    /\ e.value \in Nat /\ e.count \in Nat \ {0}
    /\ e.row \in Int /\ e.column \in Nat
    /\ e.broken \in BOOLEAN

Placed(e) ==
    /\ 1 - e.count <= e.row /\ e.row <= 0
    /\ e.current = (e.count - 1 + e.row) % Rows
    /\ e.column < Columns
    /\ e.resets => e.column = 0

Good(e) == Wellformed(e) /\ (~e.broken => Placed(e))

(* What the cursor does not depend on                                       *)
LEMMA OthersAreGood ==
  ASSUME NEW e, Good(e), NEW v
  PROVE  /\ Good([e EXCEPT !.integer = v]) /\ Good([e EXCEPT !.bytes = v])
         /\ Good([e EXCEPT !.multi = v]) /\ Good([e EXCEPT !.style = v])
<1>1. Good([e EXCEPT !.integer = v])
  BY DEF Good, Wellformed, Placed, Fields
<1>2. Good([e EXCEPT !.bytes = v])
  BY DEF Good, Wellformed, Placed, Fields
<1>3. Good([e EXCEPT !.multi = v])
  BY DEF Good, Wellformed, Placed, Fields
<1>4. Good([e EXCEPT !.style = v])
  BY DEF Good, Wellformed, Placed, Fields
<1> QED BY <1>1, <1>2, <1>3, <1>4

LEMMA OnLineIsGood ==
  ASSUME NEW e, Good(e), NEW line PROVE Good(OnLine(e, line))
BY DEF Good, Wellformed, Placed, Fields, OnLine

LEMMA FillIsGood ==
  ASSUME NEW e, Good(e), NEW start, NEW stop PROVE Good(Fill(e, start, stop))
<1>1. Fill(e, start, stop) = e
        \/ Fill(e, start, stop)
               = OnLine(e, SetCharacters(Line(e), start, stop, Blank))
  BY DEF Fill
<1> QED BY <1>1, OnLineIsGood

LEMMA MoveRowsIsGood ==
  ASSUME NEW e, Good(e), NEW n \in Int
  PROVE  Good(MoveRows(e, n, TRUE)) /\ Good(MoveRows(e, n, FALSE))
<1> SUFFICES ASSUME NEW resets PROVE Good(MoveRows(e, n, resets))
  BY Zenon
<1> DEFINE f == MoveRows(e, n, resets)
<1>1. DOMAIN f = Fields /\ f = [x \in Fields |-> f[x]]
  BY DEF Good, Wellformed, Fields, MoveRows
<1>2. f.row = e.row + n /\ f.broken = TRUE
  BY DEF Good, Wellformed, Fields, MoveRows
<1>3. /\ f.lines = e.lines /\ f.state = e.state /\ f.staged = e.staged
      /\ f.pending = e.pending /\ f.value = e.value /\ f.count = e.count
      /\ f.column = e.column
  BY DEF Good, Wellformed, Fields, MoveRows
<1> HIDE DEF f
<1>4. f.row \in Int
  BY <1>2 DEF Good, Wellformed
<1>5. Wellformed(f)
  <2>1. Wellformed(e) /\ f.broken \in BOOLEAN
    BY <1>2 DEF Good
  <2> QED BY <1>1, <1>3, <1>4, <2>1, Zenon DEF Wellformed
<1>6. Good(f)
  BY <1>2, <1>5, Zenon DEF Good
<1> QED BY <1>6 DEF f

(* The cursor moves to a column, beyond the margin only if the line breaks. *)
LEMMA ColumnIsGood ==
  ASSUME NEW e, Good(e), ~e.resets, NEW n \in Nat
  PROVE  /\ Good([e EXCEPT !.column = n, !.broken = TRUE])
         /\ n < Columns => Good([e EXCEPT !.column = n])
         /\ ~[e EXCEPT !.column = n].resets
BY DEF Good, Wellformed, Placed, Fields

LEMMA ResetsIsGood ==
  ASSUME NEW e, Good(e)
  PROVE  /\ Good([e EXCEPT !.resets = FALSE])
         /\ ~[e EXCEPT !.resets = FALSE].resets
         /\ Good([e EXCEPT !.column = 0, !.resets = TRUE])
<1>1. Good([e EXCEPT !.resets = FALSE]) /\ ~[e EXCEPT !.resets = FALSE].resets
  BY DEF Good, Wellformed, Placed, Fields
<1> DEFINE f == [e EXCEPT !.column = 0, !.resets = TRUE]
<1>2. Wellformed(f) /\ f.column = 0 /\ f.broken = e.broken
  BY DEF Good, Wellformed, Fields
<1>3. f.row = e.row /\ f.count = e.count /\ f.current = e.current
  BY DEF Good, Wellformed, Fields
<1> HIDE DEF f
<1>4. 0 < Columns
  BY SizeAssumption
<1>5. Good(f)
  BY <1>2, <1>3, <1>4 DEF Good, Placed
<1> QED BY <1>1, <1>5 DEF f

-----------------------------------------------------------------------------
(* The commands keep an emulator good.                                      *)

LEMMA AmountIsPositive ==
  ASSUME NEW c \in Commands, c.type = "sequence"
  PROVE  c.parameters[1] \in Nat /\ Amount(c) \in Nat \ {0}
<1>1. c.parameters \in Seq(Nat) /\ c.parameters # <<>>
  BY DEF Commands
<1>2. Len(c.parameters) \in Nat /\ Len(c.parameters) # 0
  BY <1>1, EmptySeq, LenProperties
<1>3. c.parameters[1] \in Nat
  BY <1>1, <1>2, ElementOfSeq
<1> QED BY <1>3 DEF Amount

LEMMA RowsAreGood ==
  ASSUME NEW e, Good(e), NEW c \in Commands, c.type = "sequence"
  PROVE  /\ Good(CursorUp(e, c)) /\ Good(CursorDown(e, c))
         /\ Good(DownToFirst(e, c)) /\ Good(UpToFirst(e, c))
<1>1. Amount(c) \in Int /\ 0 - Amount(c) \in Int
  BY AmountIsPositive
<1> QED BY <1>1, MoveRowsIsGood
        DEF CursorUp, CursorDown, DownToFirst, UpToFirst

LEMMA LinesAreGood ==
  ASSUME NEW e, Good(e), NEW c
  PROVE  /\ Good(InsertBlanks(e, c)) /\ Good(EraseLine(e, c))
         /\ Good(DeleteCharacters(e, c)) /\ Good(EraseCharacters(e, c))
<1>1. Good(InsertBlanks(e, c))
  BY OnLineIsGood, FillIsGood DEF InsertBlanks
<1>2. Good(EraseLine(e, c))
  BY OnLineIsGood DEF EraseLine
<1>3. Good(DeleteCharacters(e, c))
  BY OnLineIsGood DEF DeleteCharacters
<1>4. Good(EraseCharacters(e, c))
  BY OnLineIsGood DEF EraseCharacters
<1> QED BY <1>1, <1>2, <1>3, <1>4

LEMMA ColumnsAreGood ==
  ASSUME NEW e, Good(e), ~e.resets, NEW c \in Commands, c.type = "sequence"
  PROVE  /\ Good(MoveRight(e, c)) /\ Good(MoveLeft(e, c))
         /\ Good(MoveToColumn(e, c))
<1> DEFINE To(n) == [e EXCEPT !.column = n]
<1>1. Amount(c) \in Nat \ {0} /\ e.column \in Nat
  BY AmountIsPositive DEF Good, Wellformed
<1>2. ASSUME NEW n \in Nat PROVE To(n).column = n
  BY DEF Good, Wellformed, Fields
<1>3. Good(MoveRight(e, c))
  <2> DEFINE n == e.column + Amount(c)
  <2>1. n \in Nat
    BY <1>1
  <2>2. CASE n >= Columns
    <3>1. MoveRight(e, c) = [To(n) EXCEPT !.broken = TRUE]
      BY <1>2, <2>1, <2>2 DEF MoveRight
    <3> HIDE DEF n
    <3>2. [To(n) EXCEPT !.broken = TRUE] = [e EXCEPT !.column = n, !.broken = TRUE]
      BY DEF Good, Wellformed, Fields
    <3>3. Good([e EXCEPT !.column = n, !.broken = TRUE])
      BY <2>1, ColumnIsGood
    <3> QED BY <3>1, <3>2, <3>3
  <2>3. CASE ~(n >= Columns)
    <3>1. MoveRight(e, c) = Fill(To(n), Length(Line(e)), To(n).column)
      BY <1>2, <2>1, <2>3 DEF MoveRight
    <3>2. n < Columns
      BY <2>1, <2>3, SizeAssumption
    <3>3. Good(To(n))
      BY <2>1, <3>2, ColumnIsGood
    <3> QED BY <3>1, <3>3, FillIsGood
  <2> QED BY <2>2, <2>3
<1>4. Good(MoveLeft(e, c))
  <2> DEFINE n == IF Amount(c) > e.column THEN 0 ELSE e.column - Amount(c)
  <2>1. n \in Nat /\ n <= e.column
    BY <1>1
  <2>2. MoveLeft(e, c) = Fill(To(n), Length(Line(e)), To(n).column)
    BY DEF MoveLeft
  <2>3. Good(To(n))
    <3> HIDE DEF n
    <3>1. CASE e.broken
      BY <2>1, <3>1 DEF Good, Wellformed, Fields
    <3>2. CASE ~e.broken
      <4>1. n < Columns
        BY <1>1, <2>1, <3>2, SizeAssumption DEF Good, Placed
      <4> QED BY <2>1, <4>1, ColumnIsGood
    <3> QED BY <3>1, <3>2
  <2> QED BY <2>2, <2>3, FillIsGood
<1>5. Good(MoveToColumn(e, c))
  <2> DEFINE n == IF Amount(c) > Columns THEN 1 ELSE Amount(c) - 1
  <2>1. n \in Nat /\ n < Columns
    BY <1>1, SizeAssumption
  <2>2. MoveToColumn(e, c) = Fill(To(n), Length(Line(e)), To(n).column)
    BY DEF MoveToColumn
  <2>3. Good(To(n))
    BY <2>1, ColumnIsGood
  <2> QED BY <2>2, <2>3, FillIsGood
<1> QED BY <1>3, <1>4, <1>5

LEMMA StyleIsGood ==
  ASSUME NEW e, Good(e), NEW c PROVE Good(SetAttributes(e, c))
BY OthersAreGood, Zenon DEF SetAttributes

LEMMA TabIsGood ==
  ASSUME NEW e, Good(e), ~e.resets PROVE Good(Tab(e))
<1> DEFINE pad == 8 - (e.column % 8)
           n == IF e.column + pad >= Columns - 1 THEN Columns - 1
                ELSE e.column + pad
           f == [e EXCEPT !.column = n]
<1>1. e.column \in Nat /\ pad \in 1..8
  <2>1. e.column \in Nat
    BY DEF Good, Wellformed
  <2> QED BY <2>1
<1>2. n \in Nat /\ n < Columns
  <2> HIDE DEF pad
  <2> QED BY <1>1, SizeAssumption
<1> HIDE DEF n
<1>3. Good(f)
  BY <1>2, ColumnIsGood
<1>4. Tab(e) = f \/ \E line : Tab(e) = OnLine(f, line)
  BY DEF Tab, n
<1> QED BY <1>3, <1>4, OnLineIsGood

LEMMA NoCommandIsStaged == NoCommand \in Staged
<1> DEFINE none == <<>>
           no == FALSE
<1>1. none \in Seq(Nat) /\ no \in BOOLEAN
  OBVIOUS
<1>3. "none" \in Bytes
  BY DEF Bytes
<1>2. NoCommand = [type |-> "none", code |-> "none", parameters |-> none,
                   valid |-> no]
  BY DEF NoCommand
<1> HIDE DEF none, no
<1> QED BY <1>1, <1>2, <1>3 DEF Staged

LEMMA ControlSequenceIsGood ==
  ASSUME NEW e, Good(e), NEW c \in Commands, c.type = "sequence"
  PROVE  Good(ControlSequence(e, c))
<1> DEFINE f == [e EXCEPT !.resets = FALSE]
<1>1. Good(f) /\ ~f.resets
  BY ResetsIsGood
<1> HIDE DEF f
<1> DEFINE x == ControlSequence(e, c)
<1>2. /\ ~c.valid => x = e
      /\ c.valid /\ c.code \notin {"@", "A", "B", "C", "D", "E", "F", "G", "K",
                                  "P", "X", "m"} => x = e
  <2>1. ~c.valid => x = e
    BY Zenon DEF ControlSequence
  <2>2. ASSUME c.valid, c.code # "@", c.code # "A", c.code # "B", c.code # "C",
               c.code # "D", c.code # "E", c.code # "F", c.code # "G",
               c.code # "K", c.code # "P", c.code # "X", c.code # "m"
        PROVE  x = e
    BY <2>2, Zenon DEF ControlSequence
  <2> HIDE DEF x
  <2> QED BY <2>1, <2>2
<1>3. /\ c.valid /\ c.code = "@" => x = InsertBlanks(f, c)
      /\ c.valid /\ c.code = "A" => x = CursorUp(e, c)
      /\ c.valid /\ c.code = "B" => x = CursorDown(e, c)
      /\ c.valid /\ c.code = "C" => x = MoveRight(f, c)
      /\ c.valid /\ c.code = "D" => x = MoveLeft(f, c)
      /\ c.valid /\ c.code = "E" => x = DownToFirst(e, c)
  BY Zenon DEF ControlSequence, f
<1>4. /\ c.valid /\ c.code = "F" => x = UpToFirst(e, c)
      /\ c.valid /\ c.code = "G" => x = MoveToColumn(f, c)
      /\ c.valid /\ c.code = "K" => x = EraseLine(f, c)
      /\ c.valid /\ c.code = "P" => x = DeleteCharacters(f, c)
      /\ c.valid /\ c.code = "X" => x = EraseCharacters(f, c)
      /\ c.valid /\ c.code = "m" => x = SetAttributes(f, c)
  BY Zenon DEF ControlSequence, f
<1> HIDE DEF x
<1>5. Good(CursorUp(e, c)) /\ Good(CursorDown(e, c)) /\ Good(DownToFirst(e, c))
      /\ Good(UpToFirst(e, c))
  BY RowsAreGood
<1>6. Good(MoveRight(f, c)) /\ Good(MoveLeft(f, c)) /\ Good(MoveToColumn(f, c))
  BY <1>1, ColumnsAreGood
<1>7. /\ Good(InsertBlanks(f, c)) /\ Good(EraseLine(f, c))
      /\ Good(DeleteCharacters(f, c)) /\ Good(EraseCharacters(f, c))
      /\ Good(SetAttributes(f, c))
  BY <1>1, LinesAreGood, StyleIsGood
<1>8. Good(x)
  BY <1>2, <1>3, <1>4, <1>5, <1>6, <1>7, Zenon
<1> QED BY <1>8 DEF x

LEMMA EscapeSequenceIsGood ==
  ASSUME NEW e, Good(e), NEW c PROVE Good(EscapeSequence(e, c))
<1>1. EscapeSequence(e, c) \in
          {e, MoveRows(e, 1, FALSE), MoveRows(e, 1, TRUE), MoveRows(e, -1, FALSE)}
  BY Zenon DEF EscapeSequence
<1>2. /\ Good(MoveRows(e, 1, FALSE)) /\ Good(MoveRows(e, 1, TRUE))
      /\ Good(MoveRows(e, -1, FALSE))
  <2>1. 1 \in Int /\ -1 \in Int
    OBVIOUS
  <2> QED BY <2>1, MoveRowsIsGood, Zenon
<1> QED BY <1>1, <1>2, Zenon

LEMMA ControlCharacterIsGood ==
  ASSUME NEW e, Good(e), NEW c PROVE Good(ControlCharacter(e, c))
<1> DEFINE f == [e EXCEPT !.resets = FALSE]
           back == [e EXCEPT !.resets = FALSE,
                             !.column = IF @ = 0 THEN 0 ELSE @ - 1]
           home == [e EXCEPT !.column = 0, !.resets = TRUE]
<1>1. Good(f) /\ ~f.resets /\ Good(home)
  BY ResetsIsGood
<1>2. Good(back)
  <2>1. CASE e.column = 0
    <3>1. back = [e EXCEPT !.resets = FALSE]
      BY <2>1 DEF Good, Wellformed, Fields
    <3> QED BY <3>1, <1>1
  <2>2. CASE e.column # 0
    <3>1. e.column - 1 \in Nat /\ (e.column < Columns => e.column - 1 < Columns)
      BY <2>2, SizeAssumption DEF Good, Wellformed
    <3>2. back = [e EXCEPT !.resets = FALSE, !.column = e.column - 1]
      BY <2>2 DEF Good, Wellformed, Fields
    <3> DEFINE n == e.column - 1
    <3> HIDE DEF n
    <3>3. n \in Nat /\ (e.column < Columns => n < Columns)
      BY <3>1 DEF n
    <3>4. Good([e EXCEPT !.resets = FALSE, !.column = n])
      BY <3>3 DEF Good, Wellformed, Placed, Fields
    <3> QED BY <3>2, <3>4 DEF n
  <2> QED BY <2>1, <2>2
<1>3. Good(Tab(f))
  BY <1>1, TabIsGood
<1>4. Good(MoveRows(e, 1, TRUE))
  <2>1. 1 \in Int
    OBVIOUS
  <2> QED BY <2>1, MoveRowsIsGood, Zenon
<1>5. ControlCharacter(e, c) \in {e, back, Tab(f), MoveRows(e, 1, TRUE), home}
  BY Zenon DEF ControlCharacter
<1> QED BY <1>1, <1>2, <1>3, <1>4, <1>5, Zenon

LEMMA DispatchIsGood ==
  ASSUME NEW e, Good(e), NEW c \in Commands PROVE Good(Dispatch(e, c))
<1>1. c.type \in {"sequence", "escape", "control"}
  BY DEF Commands
<1>2. CASE c.type = "sequence"
  <2>1. Dispatch(e, c) = ControlSequence(e, c)
    BY <1>2 DEF Dispatch
  <2> QED BY <1>2, <2>1, ControlSequenceIsGood
<1>3. CASE c.type = "escape"
  <2>1. Dispatch(e, c) = EscapeSequence(e, c)
    BY <1>3 DEF Dispatch
  <2> QED BY <2>1, EscapeSequenceIsGood
<1>4. CASE c.type = "control"
  <2>1. Dispatch(e, c) = ControlCharacter(e, c)
    BY <1>4 DEF Dispatch
  <2> QED BY <2>1, ControlCharacterIsGood
<1> QED BY <1>1, <1>2, <1>3, <1>4

LEMMA RunPendingIsGood ==
  ASSUME NEW e, Good(e) PROVE Good(RunPending(e))
<1>1. CASE e.state # "unescaped"
  BY <1>1 DEF RunPending
<1>2. CASE e.state = "unescaped"
  <2>1. e.pending \in Seq(Commands) /\ Len(e.pending) \in Nat
    BY LenProperties DEF Good, Wellformed
  <2>2. PICK f : /\ f[0] = e
                 /\ \A n \in 1..Len(e.pending) :
                        f[n] = Dispatch(f[n - 1], e.pending[n])
                 /\ RunPending(e) = [f[Len(e.pending)] EXCEPT !.pending = <<>>]
    BY <1>2, <2>1, PendingFollows
  <2> DEFINE P == {n \in Nat : n <= Len(e.pending) => Good(f[n])}
  <2>3. 0 \in P
    BY <2>2
  <2>4. ASSUME NEW n \in Nat, n \in P PROVE n + 1 \in P
    <3>1. SUFFICES ASSUME n + 1 <= Len(e.pending) PROVE Good(f[n + 1])
      OBVIOUS
    <3>2. n + 1 \in 1..Len(e.pending) /\ (n + 1) - 1 = n /\ n <= Len(e.pending)
      BY <2>1, <3>1
    <3>3. f[n + 1] = Dispatch(f[n], e.pending[n + 1]) /\ Good(f[n])
      BY <2>2, <2>4, <3>2
    <3>4. e.pending[n + 1] \in Commands
      BY <2>1, <3>2, ElementOfSeq
    <3> QED BY <3>3, <3>4, DispatchIsGood
  <2>5. Good(f[Len(e.pending)])
    <3> HIDE DEF P
    <3>1. \A n \in Nat : n \in P
      BY <2>3, <2>4, NumbersInduction
    <3> QED BY <2>1, <3>1 DEF P
  <2> DEFINE g == f[Len(e.pending)]
  <2>6. Good([g EXCEPT !.pending = <<>>])
    <3> HIDE DEF g
    <3>1. Good(g)
      BY <2>5 DEF g
    <3>2. <<>> \in Seq(Commands)
      OBVIOUS
    <3> QED BY <3>1, <3>2 DEF Good, Wellformed, Placed, Fields
  <2> QED BY <2>2, <2>6
<1> QED BY <1>1, <1>2

-----------------------------------------------------------------------------
(* So do the bytes.                                                         *)

LEMMA FlushIsGood ==
  ASSUME NEW e, Good(e), e.broken \/ ~e.resets, NEW character
  PROVE  Good(Flush(e, character))
<1> DEFINE o == OnLine(e, SetCharacter(Line(e), e.column, <<character, e.style>>))
           f == [o EXCEPT !.bytes = <<>>, !.column = @ + 1]
<1>1. Good(o) /\ o.broken = e.broken /\ o.resets = e.resets
  <2>1. Good(o)
    BY OnLineIsGood
  <2> QED BY <2>1 DEF OnLine, Good, Wellformed, Fields
<1> HIDE DEF o
<1> DEFINE ahead == o.column + 1
<1>2. o.column \in Nat /\ ahead \in Nat
  BY <1>1 DEF Good, Wellformed
<1>3. Wellformed(f) /\ f.column = ahead /\ f.broken = o.broken
  <2> DEFINE x == [o EXCEPT !.bytes = <<>>]
  <2>1. f = [x EXCEPT !.column = ahead]
    BY <1>1 DEF Good, Wellformed, Fields
  <2>2. Wellformed(x)
    BY <1>1, OthersAreGood, Zenon DEF Good
  <2>3. x.broken = o.broken
    BY <1>1 DEF Good, Wellformed, Fields
  <2> HIDE DEF ahead, x
  <2>4. Wellformed([x EXCEPT !.column = ahead])
    BY <1>2, <2>2 DEF Wellformed, Fields
  <2>5. /\ [x EXCEPT !.column = ahead].column = ahead
        /\ [x EXCEPT !.column = ahead].broken = x.broken
    BY <2>2 DEF Wellformed, Fields
  <2> QED BY <2>1, <2>3, <2>4, <2>5
<1>4. f.row = o.row /\ f.count = o.count /\ f.current = o.current
      /\ f.resets = o.resets
  BY <1>1 DEF Good, Wellformed, Fields
<1>5. Flush(e, character) = IF f.column >= Columns THEN MoveRows(f, 1, TRUE) ELSE f
  BY DEF Flush, o
<1> HIDE DEF f
<1>6. CASE f.column >= Columns
  <2> DEFINE m == [f EXCEPT !.broken = TRUE]
  <2>1. Good(m) /\ m = [f EXCEPT !.broken = TRUE]
    BY <1>3 DEF Good, Wellformed, Fields
  <2>2. MoveRows(m, 1, TRUE) = MoveRows(f, 1, TRUE)
    BY <1>3 DEF MoveRows, Wellformed, Fields
  <2> HIDE DEF m
  <2>3. 1 \in Int
    OBVIOUS
  <2>4. Good(MoveRows(m, 1, TRUE))
    BY <2>1, <2>3, MoveRowsIsGood, Zenon
  <2> QED BY <1>5, <1>6, <2>2, <2>4, Zenon
<1>7. CASE ~(f.column >= Columns)
  <2>1. f.column < Columns
    BY <1>2, <1>3, <1>7, SizeAssumption
  <2>2. ~f.broken => Placed(f)
    BY <1>1, <1>3, <1>4, <2>1 DEF Good, Placed
  <2> QED BY <1>3, <1>5, <1>7, <2>2 DEF Good
<1> QED BY <1>6, <1>7

LEMMA FlushResets ==
  ASSUME NEW e, Good(e), ~e.resets, NEW character
  PROVE  Flush(e, character).broken \/ ~Flush(e, character).resets
BY DEF Flush, MoveRows, OnLine, Good, Wellformed, Fields

LEMMA QueueIsGood ==
  ASSUME NEW e, Good(e), NEW type \in {"escape", "control"}, NEW code \in Bytes
  PROVE  Good(Queue(e, type, code))
<1> DEFINE c == [NoCommand EXCEPT !.type = type, !.code = code]
<1>1. c \in Commands
  <2>1. NoCommand \in Staged
    BY NoCommandIsStaged
  <2> QED BY <2>1 DEF Staged, Commands
<1> HIDE DEF c
<1>2. Append(e.pending, c) \in Seq(Commands)
  BY <1>1, AppendProperties DEF Good, Wellformed
<1>3. Queue(e, type, code) = [e EXCEPT !.pending = Append(e.pending, c)]
  BY DEF Queue, c
<1> DEFINE p == Append(e.pending, c)
<1> HIDE DEF p
<1>4. Good([e EXCEPT !.pending = p])
  <2>1. p \in Seq(Commands)
    BY <1>2 DEF p
  <2> QED BY <2>1 DEF Good, Wellformed, Placed, Fields
<1> QED BY <1>3, <1>4 DEF p

LEMMA DigitsAreDigits ==
  ASSUME NEW b
  PROVE  /\ Contains(Digits, b) => \E d \in 0..9 : Digits[d + 1] = b
         /\ b \in Controls \cup {"ESC", " ", ";"} => ~Contains(Digits, b)
<1>1. Len(Digits) = 10 /\ \A i \in 1..10 : Digits[i] \notin Controls \cup {"ESC", " ", ";"}
  BY DEF Digits, Controls
<1>2. ASSUME NEW i \in 1..10, Digits[i] = b
      PROVE  \E d \in 0..9 : Digits[d + 1] = b
  <2>1. i - 1 \in 0..9 /\ (i - 1) + 1 = i
    OBVIOUS
  <2> QED BY <1>2, <2>1
<1> QED BY <1>1, <1>2 DEF Contains

LEMMA UnescapedIsGood ==
  ASSUME NEW e, Good(e), e.broken \/ ~e.resets, NEW b \in Bytes
  PROVE  Good(Unescaped(e, b))
<1>1. CASE b = "ESC"
  <2>1. Unescaped(e, b) = [e EXCEPT !.state = "escaped", !.staged = NoCommand]
    BY <1>1, Zenon DEF Unescaped, Controls
  <2> QED BY <2>1, NoCommandIsStaged DEF Good, Wellformed, Placed, Fields
<1>2. CASE b # "ESC" /\ b \in Controls
  <2>1. Unescaped(e, b) = Queue(e, "control", b)
    BY <1>2, Zenon DEF Unescaped
  <2> QED BY <2>1, QueueIsGood
<1>3. CASE b # "ESC" /\ b \notin Controls
  <2>1. Unescaped(e, b) = Flush(e, <<b>>)
    BY <1>3, Zenon DEF Unescaped
  <2> QED BY <2>1, FlushIsGood
<1> QED BY <1>1, <1>2, <1>3

LEMMA EscapedIsGood ==
  ASSUME NEW e, Good(e), NEW b \in Bytes PROVE Good(Escaped(e, b))
<1>1. CASE b = "["
  <2> DEFINE c == [NoCommand EXCEPT !.type = "sequence", !.valid = TRUE]
  <2>1. c \in Staged /\ c.type = "sequence"
    BY NoCommandIsStaged DEF Staged
  <2> DEFINE i == [e EXCEPT !.integer = FALSE]
  <2>2. Good(i)
    BY OthersAreGood, Zenon
  <2>3. Escaped(e, b) = [i EXCEPT !.state = "parameter", !.value = 0, !.staged = c]
    BY <1>1 DEF Escaped, Good, Wellformed, Fields
  <2> HIDE DEF c, i
  <2>4. Good([i EXCEPT !.state = "parameter", !.value = 0, !.staged = c])
    <3>1. Good([i EXCEPT !.state = "parameter", !.staged = c])
      BY <2>1, <2>2 DEF Good, Wellformed, Placed, Fields
    <3> DEFINE j == [i EXCEPT !.state = "parameter", !.staged = c]
    <3>2. [i EXCEPT !.state = "parameter", !.value = 0, !.staged = c]
              = [j EXCEPT !.value = 0]
      BY <2>2 DEF Good, Wellformed, Fields
    <3> HIDE DEF j
    <3>3. Good(j)
      BY <3>1 DEF j
    <3>4. Good([j EXCEPT !.value = 0])
      BY <3>3 DEF Good, Wellformed, Placed, Fields
    <3> QED BY <3>2, <3>4
  <2> QED BY <2>3, <2>4
<1>2. CASE b # "["
  <2> DEFINE q == Queue(e, "escape", b)
  <2>1. Escaped(e, b) = [q EXCEPT !.state = "unescaped", !.staged = NoCommand]
    BY <1>2 DEF Escaped
  <2>2. Good(q)
    BY QueueIsGood
  <2> HIDE DEF q
  <2>3. NoCommand \in Staged
    BY NoCommandIsStaged
  <2> DEFINE f == [q EXCEPT !.state = "unescaped", !.staged = NoCommand]
  <2>4. Wellformed(f)
    BY <2>2, <2>3 DEF Good, Wellformed, Fields
  <2>5. ~f.broken => Placed(f)
    BY <2>2 DEF Good, Wellformed, Placed, Fields
  <2> QED BY <2>1, <2>4, <2>5 DEF Good
<1> QED BY <1>1, <1>2

LEMMA ParameterIsGood ==
  ASSUME NEW e, Good(e), e.state = "parameter", NEW b \in Bytes
  PROVE  Good(Parameter(e, b))
<1>0. /\ e.staged \in Staged /\ e.staged.type = "sequence" /\ e.value \in Nat
      /\ e.staged.parameters \in Seq(Nat) /\ e.pending \in Seq(Commands)
  BY DEF Good, Wellformed, Staged
<1> DEFINE digit == CHOOSE d \in 0..9 : Digits[d + 1] = b
           read == IF e.integer THEN e.value ELSE 0
           whole == [e.staged EXCEPT !.code = b, !.parameters = Append(@, e.value)]
           ended == [e EXCEPT !.state = "unescaped", !.value = 0,
                              !.staged = NoCommand, !.pending = Append(@, whole)]
           counted == [e EXCEPT !.integer = TRUE, !.value = @ * 10 + digit]
           another == [e EXCEPT !.value = 0, !.integer = FALSE,
                                !.staged.parameters = Append(@, read)]
           invalid == [e EXCEPT !.staged.valid = FALSE]
<1>1. CASE b \in Controls
  <2>1. b \notin {"ESC", " ", ";"} /\ ~Contains(Digits, b)
    BY <1>1, DigitsAreDigits DEF Controls
  <2>2. Parameter(e, b) = Queue(e, "control", b)
    BY <1>1, <2>1, Zenon DEF Parameter
  <2> QED BY <2>2, QueueIsGood
<1>2. CASE b \in {"ESC", " "}
  <2>1. b \notin Controls /\ b # ";" /\ ~Contains(Digits, b)
    BY <1>2, DigitsAreDigits DEF Controls
  <2>2. Parameter(e, b) = invalid
    BY <1>2, <2>1, Zenon DEF Parameter
  <2> DEFINE c == [e.staged EXCEPT !.valid = FALSE]
  <2>3. c \in Staged /\ c.type = "sequence"
    BY <1>0 DEF Staged
  <2>4. invalid = [e EXCEPT !.staged = c]
    OBVIOUS
  <2> HIDE DEF c
  <2>5. Good([e EXCEPT !.staged = c])
    BY <2>3 DEF Good, Wellformed, Placed, Fields
  <2> QED BY <2>2, <2>4, <2>5
<1>3. CASE b \notin Controls \cup {"ESC", " "} /\ Contains(Digits, b)
  <2>1. b # ";"
    BY <1>3, DigitsAreDigits
  <2>2. Parameter(e, b) = counted
    BY <1>3, <2>1, Zenon DEF Parameter
  <2>3. digit \in 0..9
    BY <1>3, DigitsAreDigits
  <2> DEFINE v == e.value * 10 + digit
             i == [e EXCEPT !.integer = TRUE]
  <2>4. v \in Nat
    <3> HIDE DEF digit
    <3> QED BY <1>0, <2>3
  <2>5. Good(i)
    BY OthersAreGood, Zenon
  <2>6. counted = [i EXCEPT !.value = v]
    BY DEF Good, Wellformed, Fields
  <2> HIDE DEF v, i
  <2>7. Good([i EXCEPT !.value = v])
    BY <2>4, <2>5 DEF Good, Wellformed, Placed, Fields
  <2> QED BY <2>2, <2>6, <2>7
<1>4. CASE b = ";"
  <2>1. b \notin Controls \cup {"ESC", " "} /\ ~Contains(Digits, b)
    BY <1>4, DigitsAreDigits DEF Controls
  <2>2. Parameter(e, b) = another
    BY <1>4, <2>1, Zenon DEF Parameter
  <2> DEFINE p == Append(e.staged.parameters, read)
             c == [e.staged EXCEPT !.parameters = p]
             i == [e EXCEPT !.integer = FALSE]
  <2>3. read \in Nat
    BY <1>0
  <2>4. p \in Seq(Nat)
    <3> HIDE DEF read
    <3> QED BY <1>0, <2>3, AppendProperties
  <2>5. c \in Staged /\ c.type = "sequence"
    <3> HIDE DEF p
    <3> QED BY <1>0, <2>4 DEF Staged
  <2>6. Good(i)
    BY OthersAreGood, Zenon
  <2>7. another = [i EXCEPT !.value = 0, !.staged = c]
    BY DEF Good, Wellformed, Fields
  <2> HIDE DEF c, i
  <2>8. Good([i EXCEPT !.value = 0, !.staged = c])
    BY <2>5, <2>6 DEF Good, Wellformed, Placed, Fields
  <2> QED BY <2>2, <2>7, <2>8
<1>5. CASE b \notin Controls \cup {"ESC", " ", ";"} /\ ~Contains(Digits, b)
  <2>1. Parameter(e, b) = ended
    BY <1>5, Zenon DEF Parameter
  <2> DEFINE p == Append(e.staged.parameters, e.value)
             q == Append(e.pending, whole)
  <2>2. p \in Seq(Nat) /\ p # <<>>
    BY <1>0, AppendProperties
  <2>3. whole \in Commands
    <3>1. whole = [e.staged EXCEPT !.code = b, !.parameters = p]
      OBVIOUS
    <3> HIDE DEF p
    <3> QED BY <1>0, <2>2, <3>1 DEF Staged, Commands
  <2>4. q \in Seq(Commands)
    <3> HIDE DEF whole
    <3> QED BY <1>0, <2>3, AppendProperties
  <2>5. ended = [e EXCEPT !.state = "unescaped", !.value = 0,
                          !.staged = NoCommand, !.pending = q]
    OBVIOUS
  <2> HIDE DEF q
  <2>6. Good([e EXCEPT !.state = "unescaped", !.value = 0,
                       !.staged = NoCommand, !.pending = q])
    BY <2>4, NoCommandIsStaged DEF Good, Wellformed, Placed, Fields
  <2> QED BY <2>1, <2>5, <2>6
<1> QED BY <1>1, <1>2, <1>3, <1>4, <1>5

LEMMA SingleIsGood ==
  ASSUME NEW e, Good(e), e.broken \/ ~e.resets, NEW b \in Bytes
  PROVE  Good(Single(e, b))
<1>1. CASE e.state = "unescaped"
  <2>1. Single(e, b) = RunPending(Unescaped(e, b))
    BY <1>1, Zenon DEF Single
  <2> QED BY <2>1, UnescapedIsGood, RunPendingIsGood
<1>2. CASE e.state = "escaped"
  <2>1. Single(e, b) = RunPending(Escaped(e, b))
    BY <1>2, Zenon DEF Single
  <2> QED BY <2>1, EscapedIsGood, RunPendingIsGood
<1>3. CASE e.state = "parameter"
  <2>1. Single(e, b) = RunPending(Parameter(e, b))
    BY <1>3, Zenon DEF Single
  <2> QED BY <1>3, <2>1, ParameterIsGood, RunPendingIsGood
<1> QED BY <1>1, <1>2, <1>3 DEF Good, Wellformed

LEMMA ContinuationIsGood ==
  ASSUME NEW e, Good(e), ~e.resets PROVE Good(Continuation(e))
<1> DEFINE bytes == Append(e.bytes, "CONT")
           whole == [e EXCEPT !.multi = FALSE]
<1>1. Good([e EXCEPT !.bytes = bytes]) /\ Good([e EXCEPT !.bytes = <<>>])
  BY OthersAreGood, Zenon
<1>2. Good(whole) /\ ~whole.resets
  <2>1. Good(whole)
    BY OthersAreGood, Zenon
  <2> QED BY <2>1 DEF Good, Wellformed, Fields
<1>3. Good(Flush(whole, bytes))
  <2> HIDE DEF whole, bytes
  <2> QED BY <1>2, FlushIsGood
<1>4. Good(Flush(e, <<"?">>))
  BY FlushIsGood
<1>5. Continuation(e) \in {[e EXCEPT !.bytes = bytes], [e EXCEPT !.bytes = <<>>],
                           Flush(whole, bytes), Flush(e, <<"?">>)}
  BY Zenon DEF Continuation
<1> QED BY <1>1, <1>3, <1>4, <1>5, Zenon

LEMMA StepIsGood ==
  ASSUME NEW e, Good(e), NEW b \in Bytes PROVE Good(Step(e, b))
<1> DEFINE f == [e EXCEPT !.resets = FALSE]
           cut == e.multi /\ e.state = "unescaped"
           g == IF cut THEN Flush(f, <<"?">>) ELSE [f EXCEPT !.bytes = <<>>]
           lead == [g EXCEPT !.multi = TRUE, !.bytes = <<b>>]
           plain == [g EXCEPT !.multi = FALSE]
<1>1. Good(f) /\ ~f.resets
  BY ResetsIsGood
<1>2. Good(g) /\ (g.broken \/ ~g.resets)
  <2> HIDE DEF f
  <2>1. CASE cut
    <3> DEFINE x == Flush(f, <<"?">>)
    <3>1. Good(x)
      BY <1>1, FlushIsGood
    <3>2. x.broken \/ ~x.resets
      BY <1>1, FlushResets
    <3> HIDE DEF x
    <3> QED BY <2>1, <3>1, <3>2 DEF x
  <2>2. CASE ~cut
    <3> DEFINE x == [f EXCEPT !.bytes = <<>>]
    <3>1. Good(x)
      BY <1>1, OthersAreGood, Zenon
    <3>2. ~x.resets
      BY <1>1 DEF Good, Wellformed, Fields
    <3> HIDE DEF x
    <3> QED BY <2>2, <3>1, <3>2 DEF x
  <2> QED BY <2>1, <2>2
<1>3. Step(e, b) \in {Continuation(f), lead, g, Single(plain, b)}
  <2>1. ByteType(b) \in {"LEAD", "CONT", "BAD", "single"}
    BY DEF ByteType
  <2>2. ByteType(b) = "CONT" => Step(e, b) = Continuation(f)
    BY Zenon DEF Step
  <2>3. ByteType(b) = "LEAD" => Step(e, b) = lead
    BY Zenon DEF Step
  <2>4. ByteType(b) = "BAD" => Step(e, b) = g
    BY Zenon DEF Step
  <2>5. ByteType(b) = "single" => Step(e, b) = Single(plain, b)
    BY Zenon DEF Step
  <2> HIDE DEF f, g, lead, plain
  <2> QED BY <2>1, <2>2, <2>3, <2>4, <2>5
<1> HIDE DEF f, g
<1>4. Good(Continuation(f))
  BY <1>1, ContinuationIsGood
<1>5. Good(lead)
  <2> DEFINE h == [g EXCEPT !.multi = TRUE]
  <2>1. Good(h)
    BY <1>2, OthersAreGood, Zenon
  <2>2. Good([h EXCEPT !.bytes = <<b>>])
    <3> HIDE DEF h
    <3> QED BY <2>1, OthersAreGood, Zenon
  <2>3. lead = [h EXCEPT !.bytes = <<b>>]
    BY <1>2 DEF Good, Wellformed, Fields
  <2> QED BY <2>2, <2>3
<1>6. Good(Single(plain, b))
  <2>1. Good(plain)
    BY <1>2, OthersAreGood, Zenon
  <2>2. plain.broken \/ ~plain.resets
    BY <1>2 DEF Good, Wellformed, Fields
  <2> HIDE DEF plain
  <2> QED BY <2>1, <2>2, SingleIsGood
<1> HIDE DEF lead, plain
<1> QED BY <1>2, <1>3, <1>4, <1>5, <1>6, Zenon

-----------------------------------------------------------------------------
(* A line starts, and it ends.                                              *)

LEMMA StartIsGood ==
  ASSUME NEW e, Wellformed(e), e.row <= 0, e.resets => e.column = 0
  PROVE  Good(Start(e))
<1> DEFINE top == 1 - e.count
           row == IF e.row < top THEN top ELSE e.row
           column == IF e.column >= Columns THEN 0 ELSE e.column
           current == (e.count - 1 + row) % Rows
           f == [e EXCEPT !.row = row, !.broken = FALSE, !.current = current,
                          !.column = column]
<1>1. row \in Int /\ 1 - e.count <= row /\ row <= 0
  BY DEF Wellformed
<1>2. column \in Nat /\ column < Columns /\ (e.resets => column = 0)
  BY SizeAssumption DEF Wellformed
<1>3. Start(e) = Fill(f, Length(Line(f)), f.column)
  BY Zenon DEF Start
<1>4. current = (e.count - 1 + row) % Rows
  OBVIOUS
<1> HIDE DEF row, column, current
<1>5. Wellformed(f) /\ f.row = row /\ f.column = column /\ f.current = current
      /\ f.count = e.count /\ f.resets = e.resets
  BY <1>1, <1>2 DEF Wellformed, Fields
<1> HIDE DEF f
<1>6. Good(f)
  BY <1>1, <1>2, <1>4, <1>5 DEF Good, Placed
<1> QED BY <1>3, <1>6, FillIsGood

LEMMA EndIsWellformed ==
  ASSUME NEW e, Wellformed(e)
  PROVE  /\ Wellformed(End(e)) /\ End(e).row <= 0
         /\ End(e).resets => End(e).column = 0
<1> DEFINE new == IF e.row > 0 THEN e.row ELSE 0
           row == e.row - new
           count == e.count + new
           lines == [i \in DOMAIN e.lines |->
                        IF \E n \in 0..(new - 1) : i = (e.count + n) % Rows
                        THEN <<>> ELSE e.lines[i]]
           column == IF e.resets THEN 0 ELSE e.column
           f == [e EXCEPT !.row = row, !.count = count, !.lines = lines,
                          !.column = column, !.current = 0, !.broken = FALSE]
<1>1. row \in Int /\ row <= 0 /\ count \in Nat \ {0}
  BY DEF Wellformed
<1>2. column \in Nat /\ (e.resets => column = 0)
  BY DEF Wellformed
<1>3. lines = [i \in DOMAIN lines |-> lines[i]]
  OBVIOUS
<1>4. End(e) = f
  BY Zenon DEF End
<1> HIDE DEF row, column, count, lines
<1>5. /\ f.row = row /\ f.column = column /\ f.resets = e.resets
      /\ f.count = count /\ f.lines = lines /\ f.broken = FALSE
  BY DEF Wellformed, Fields
<1>6. DOMAIN f = Fields /\ f = [x \in Fields |-> f[x]]
  BY DEF Wellformed, Fields
<1>7. /\ f.state = e.state /\ f.staged = e.staged
      /\ f.pending = e.pending /\ f.value = e.value
  BY DEF Wellformed, Fields
<1>8. f.broken \in BOOLEAN
  BY <1>5, Zenon
<1> HIDE DEF f
<1>9. Wellformed(f)
  BY <1>1, <1>2, <1>3, <1>5, <1>6, <1>7, <1>8, Zenon DEF Wellformed
<1> QED BY <1>1, <1>2, <1>4, <1>5, <1>9 DEF f

LEMMA ContinueIsGood ==
  ASSUME NEW e, Good(e), NEW b \in Bytes PROVE Good(Continue(e, b))
<1>1. Good(Start(End(e)))
  BY StartIsGood, EndIsWellformed DEF Good
<1> QED BY <1>1, StepIsGood DEF Continue

(* After every text the cursor of an emulator whose line is not broken is   *)
(* on a row that was written to, in front of the margin, and its line is    *)
(* the one the row stands for (ply_terminal_emulator_parse_substring).      *)
THEOREM ParseOnIsGood ==
  ASSUME NEW e, Good(e), NEW text \in Seq(Bytes) PROVE Good(ParseOn(e, text))
<1>1. PICK f : /\ f[0] = e
               /\ \A n \in 1..Len(text) : f[n] = Continue(f[n - 1], text[n])
               /\ ParseOn(e, text) = f[Len(text)]
  BY ParseFollows
<1>2. Len(text) \in Nat
  BY LenProperties
<1> DEFINE P == {n \in Nat : n <= Len(text) => Good(f[n])}
<1>3. 0 \in P
  BY <1>1
<1>4. ASSUME NEW n \in Nat, n \in P PROVE n + 1 \in P
  <2>1. SUFFICES ASSUME n + 1 <= Len(text) PROVE Good(f[n + 1])
    OBVIOUS
  <2>2. n + 1 \in 1..Len(text) /\ (n + 1) - 1 = n /\ n <= Len(text)
    BY <1>2, <2>1
  <2>3. f[n + 1] = Continue(f[n], text[n + 1]) /\ Good(f[n])
    BY <1>1, <1>4, <2>2
  <2>4. text[n + 1] \in Bytes
    BY <1>2, <2>2, ElementOfSeq
  <2> QED BY <2>3, <2>4, ContinueIsGood
<1>5. Good(f[Len(text)])
  <2> HIDE DEF P
  <2>1. \A n \in Nat : n \in P
    BY <1>3, <1>4, NumbersInduction
  <2> QED BY <1>2, <2>1 DEF P
<1> QED BY <1>1, <1>5

(* A line that is not broken ends where it is, and when it goes up to its   *)
(* cursor, starts again where it is: a cut of the text changes nothing.     *)
LEMMA EndIsInPlace ==
  ASSUME NEW e, Good(e), ~e.broken
  PROVE  End(e) = [e EXCEPT !.current = 0]
<1>0. /\ Wellformed(e) /\ Placed(e) /\ e.broken = FALSE /\ e.row \in Int
      /\ e.count \in Nat \ {0} /\ e.column \in Nat
  BY DEF Good, Wellformed
<1>1. ~(e.row > 0) /\ e.row - 0 = e.row /\ e.count + 0 = e.count
  BY <1>0 DEF Placed
<1> DEFINE new == IF e.row > 0 THEN e.row ELSE 0
           lines == [i \in DOMAIN e.lines |->
                        IF \E n \in 0..(new - 1) : i = (e.count + n) % Rows
                        THEN <<>> ELSE e.lines[i]]
           column == IF e.resets THEN 0 ELSE e.column
<1>2. new = 0
  BY <1>1
<1>3. lines = e.lines
  <2>1. 0..(new - 1) = {}
    BY <1>2
  <2> HIDE DEF new
  <2>2. lines = [i \in DOMAIN e.lines |-> e.lines[i]]
    BY <2>1
  <2> HIDE DEF lines
  <2> QED BY <1>0, <2>2 DEF Wellformed
<1>4. column = e.column
  BY <1>0 DEF Placed
<1>5. End(e) = [e EXCEPT !.row = @ - new, !.count = @ + new, !.lines = lines,
                         !.column = column, !.current = 0, !.broken = FALSE]
  BY Zenon DEF End
<1> HIDE DEF new, lines, column
<1>6. End(e) = [e EXCEPT !.row = e.row, !.count = e.count, !.lines = e.lines,
                         !.column = e.column, !.current = 0, !.broken = FALSE]
  BY <1>1, <1>2, <1>3, <1>4, <1>5
<1> QED BY <1>0, <1>6 DEF Wellformed, Fields

LEMMA RestartIsInPlace ==
  ASSUME NEW e, Good(e), ~e.broken, e.column <= Length(Line(e))
  PROVE  Start(End(e)) = e
<1> DEFINE f == [e EXCEPT !.current = 0]
           g == [f EXCEPT !.current = e.current]
<1>1. /\ Wellformed(e) /\ Placed(e) /\ e.broken = FALSE /\ e.row \in Int
      /\ e.count \in Nat \ {0} /\ e.column \in Nat
  BY DEF Good, Wellformed
<1>2. End(e) = f
  BY EndIsInPlace
<1>3. g = e
  BY <1>1 DEF Wellformed, Fields
<1>4. Start(f) = Fill(g, Length(Line(g)), g.column)
  <2>1. /\ f.row = e.row /\ f.count = e.count /\ f.column = e.column
        /\ f.broken = e.broken
    BY <1>1 DEF Wellformed, Fields
  <2>2. ~(e.row < 1 - e.count) /\ ~(e.column >= Columns)
    BY <1>1, SizeAssumption DEF Placed
  <2> DEFINE row == IF f.row < 1 - f.count THEN 1 - f.count ELSE f.row
             column == IF f.column >= Columns THEN 0 ELSE f.column
             h == [f EXCEPT !.row = row, !.broken = FALSE,
                            !.current = (f.count - 1 + row) % Rows,
                            !.column = column]
  <2>3. Start(f) = Fill(h, Length(Line(h)), h.column)
    BY Zenon DEF Start
  <2>4. row = e.row /\ column = e.column
    BY <2>1, <2>2
  <2>5. (f.count - 1 + row) % Rows = e.current
    BY <1>1, <2>1, <2>4 DEF Placed
  <2>6. h = g
    <3> DEFINE current == (f.count - 1 + row) % Rows
    <3>1. current = e.current
      BY <2>5
    <3>2. h = [f EXCEPT !.row = row, !.broken = FALSE, !.current = current,
                        !.column = column]
      OBVIOUS
    <3> HIDE DEF row, column, current
    <3>3. h = [f EXCEPT !.row = e.row, !.broken = FALSE, !.current = e.current,
                        !.column = e.column]
      BY <2>4, <3>1, <3>2
    <3> QED BY <1>1, <2>1, <3>3 DEF Wellformed, Fields
  <2> QED BY <2>3, <2>6
<1> QED BY <1>2, <1>3, <1>4 DEF Fill

LEMMA StartIsNotBroken ==
  ASSUME NEW e, Wellformed(e) PROVE Start(e).broken = FALSE
BY DEF Start, Fill, OnLine, Wellformed, Fields

LEMMA CutChangesNothing ==
  ASSUME NEW e, Good(e), ~Beyond(e), NEW b
  PROVE  Continue(Start(End(e)), b) = Continue(e, b)
<1>1. CASE e.broken
  <2>1. e.state = "unescaped"
    BY <1>1 DEF Beyond
  <2>2. Start(End(e)).broken = FALSE
    BY EndIsWellformed, StartIsNotBroken DEF Good
  <2> QED BY <1>1, <2>1, <2>2 DEF Continue
<1>2. CASE ~e.broken
  <2>1. e.column <= Length(Line(e))
    BY <1>2 DEF Beyond
  <2> QED BY <1>2, <2>1, RestartIsInPlace
<1> QED BY <1>1, <1>2

(* A text that goes on after a cut is parsed as if there had been no cut:   *)
(* all the emulator kept of the text before it, an unfinished character or  *)
(* control sequence, the commands and the style, is enough                  *)
(* (ply_terminal_emulator_parse_lines).                                     *)
THEOREM PieceByPiece ==
  ASSUME NEW e, Good(e), ~Beyond(e), NEW piece \in Seq(Bytes)
  PROVE  Parse(End(e), piece) = End(ParseOn(e, piece))
<1>1. CASE piece = <<>>
  BY <1>1, ParseEmpty DEF Parse
<1>2. CASE piece # <<>>
  <2>1. ParseOn(Start(End(e)), piece) = ParseOn(e, piece)
    BY <1>2, CutChangesNothing, ParseFirst
  <2> QED BY <1>2, <2>1 DEF Parse
<1> QED BY <1>1, <1>2

LEMMA NewIsWellformed ==
  Wellformed(New) /\ New.row = 0 /\ New.column = 0 /\ ~New.resets /\ ~New.broken
<1> DEFINE none == <<>>
           lines == [i \in 0..(Rows - 1) |-> <<>>]
<1>1. none \in Seq(Commands)
  OBVIOUS
<1>2. lines = [i \in DOMAIN lines |-> lines[i]]
  OBVIOUS
<1>3. New = [state |-> "unescaped", staged |-> NoCommand, pending |-> none,
     value |-> 0, integer |-> FALSE,
     bytes |-> <<>>, multi |-> FALSE,
     lines |-> lines, count |-> 1,
     row |-> 0, column |-> 0, resets |-> FALSE, style |-> Plain,
     current |-> 0, broken |-> FALSE]
  BY DEF New
<1> HIDE DEF none, lines
<1>4. DOMAIN New = Fields /\ New = [x \in Fields |-> New[x]]
  BY <1>3 DEF Fields
<1>5. /\ New.lines = lines /\ New.state = "unescaped" /\ New.staged = NoCommand
      /\ New.pending = none /\ New.value = 0 /\ New.count = 1 /\ New.row = 0
      /\ New.column = 0 /\ New.resets = FALSE /\ New.broken = FALSE
  BY <1>3
<1>6. New.value \in Nat /\ New.count \in Nat \ {0} /\ New.row \in Int
      /\ New.column \in Nat /\ New.broken \in BOOLEAN
      /\ New.state # "parameter"
  <2>1. New.broken \in BOOLEAN
    BY <1>5, Zenon
  <2> QED BY <1>5, <2>1
<1>7. Wellformed(New)
  BY <1>1, <1>2, <1>4, <1>5, <1>6, NoCommandIsStaged, Zenon DEF Wellformed
<1>8. ~New.resets /\ ~New.broken
  BY <1>5, Zenon
<1> QED BY <1>5, <1>7, <1>8

LEMMA NewIsGood ==
  Good(New) /\ ~Beyond(New) /\ Start(New) = New /\ End(New) = New
<1>1. New.current = 0 /\ Line(New) = <<>> /\ New.count = 1
  BY SizeAssumption DEF New, Line
<1>2. Good(New)
  <2>1. (New.count - 1 + New.row) % Rows = 0
    BY <1>1, NewIsWellformed, SizeAssumption
  <2> QED BY <1>1, <2>1, NewIsWellformed, SizeAssumption DEF Good, Placed
<1>3. New.column <= Length(Line(New))
  <2>1. Length(<<>>) = 0
    BY DEF Length
  <2> QED BY <1>1, <2>1, NewIsWellformed
<1>4. End(New) = New
  <2>1. End(New) = [New EXCEPT !.current = 0]
    BY <1>2, NewIsWellformed, EndIsInPlace
  <2> QED BY <1>1, <2>1, NewIsWellformed DEF Wellformed, Fields
<1>5. Start(New) = New
  BY <1>2, <1>3, <1>4, NewIsWellformed, RestartIsInPlace
<1> QED BY <1>2, <1>3, <1>4, <1>5, NewIsWellformed DEF Beyond

-----------------------------------------------------------------------------
(* The output on its way to a viewer.                                       *)

IsHistory(h) ==
    h \in [read : {h.read}, lost : BOOLEAN, ideal : {h.ideal},
           gap : BOOLEAN, exact : BOOLEAN]

(* The emulator in the middle of the output has parsed what the buffer      *)
(* holds, and a viewer that was given all of it is at the end of what the   *)
(* one beside it parsed.                                                    *)
Shows(bytes, v, h) ==
    /\ Good(h.read) /\ Good(h.ideal)
    /\ ~h.lost => bytes \in Seq(Bytes) /\ h.read = ParseOn(New, bytes)
    /\ ~h.gap => ~Beyond(h.ideal)
    /\ v.made /\ h.exact /\ ~h.gap => v.emulator = End(h.ideal)

Fed(w) == IsViewer(w.view) /\ IsHistory(w.history)
              /\ Shows(w.output, w.view, w.history)

ShowInv ==
    /\ stream \in Seq(Bytes)
    /\ output = [alive |-> output.alive, bytes |-> output.bytes,
                 used |-> output.used]
    /\ IsViewer(view) /\ IsHistory(history)
    /\ Shows(output.bytes, view, history)

LEMMA WriteGoesOn ==
  ASSUME NEW v, IsViewer(v), NEW text
  PROVE  LET u == ViewerWrite(v, text)
         IN  IsViewer(u) /\ u.made = v.made /\ u.emulator = Parse(v.emulator, text)
BY DEF IsViewer, ViewerWrite

LEMMA BufferHolds ==
  ASSUME NEW buffer \in Seq(Bytes), NEW piece \in Seq(Bytes),
         ~(Len(buffer) + Len(piece) >= MaxBuffer)
  PROVE  BufferAppend(buffer, piece) = buffer \o piece
<1>1. Len(buffer) \in Nat /\ Len(piece) \in Nat /\ MaxBuffer \in Nat
  BY LenProperties, ConsoleAssumption
<1>2. ~(Len(piece) > MaxBuffer) /\ Len(buffer) + Len(piece) < MaxBuffer
  BY <1>1
<1> QED BY <1>2 DEF BufferAppend

(* A text goes on from where the viewer and the emulator beside it are.     *)
LEMMA RecordGoesOn ==
  ASSUME NEW v, NEW h, NEW bytes, NEW text \in Seq(Bytes),
         IsViewer(v), IsHistory(h), Shows(bytes, v, h)
  PROVE  LET u == ViewerWrite(v, text)
             k == Record(h, text)
         IN  /\ IsHistory(k) /\ k.read = h.read /\ k.lost = h.lost
             /\ k.exact = h.exact
             /\ IsViewer(u) /\ u.made = v.made
             /\ Good(k.ideal) /\ (~k.gap => ~Beyond(k.ideal))
             /\ v.made /\ k.exact /\ ~k.gap => u.emulator = End(k.ideal)
<1> DEFINE u == ViewerWrite(v, text)
           k == Record(h, text)
           e == ParseOn(h.ideal, text)
<1>1. /\ IsHistory(k) /\ k.read = h.read /\ k.lost = h.lost /\ k.exact = h.exact
      /\ k.ideal = e
      /\ k.gap <=> h.gap \/ Beyond(e)
  BY DEF IsHistory, Record, Recorded
<1>2. IsViewer(u) /\ u.made = v.made /\ u.emulator = Parse(v.emulator, text)
  BY WriteGoesOn
<1>3. Good(h.ideal) /\ Good(e)
  BY ParseOnIsGood DEF Shows
<1>4. ASSUME v.made, k.exact, ~k.gap
      PROVE  u.emulator = End(e)
  <2>1. ~Beyond(h.ideal) /\ v.emulator = End(h.ideal)
    BY <1>1, <1>4 DEF Shows
  <2> QED BY <1>2, <1>3, <2>1, PieceByPiece
<1> HIDE DEF u, k, e
<1>5. /\ IsHistory(k) /\ k.read = h.read /\ k.lost = h.lost /\ k.exact = h.exact
      /\ IsViewer(u) /\ u.made = v.made
      /\ Good(k.ideal) /\ (~k.gap => ~Beyond(k.ideal))
      /\ v.made /\ k.exact /\ ~k.gap => u.emulator = End(k.ideal)
  BY <1>1, <1>2, <1>3, <1>4
<1> QED BY <1>5 DEF u, k

LEMMA OutputFeeds ==
  ASSUME NEW w, Fed(w), NEW piece \in Seq(Bytes)
  PROVE  Fed(OutputAppend(w, piece))
<1> DEFINE h == w.history
           g == Record(h, piece)
           lost == h.lost \/ Len(w.output) + Len(piece) >= MaxBuffer
           e == ParseOn(h.read, piece)
           k == [g EXCEPT !.read = ParseOn(@, piece),
                          !.lost = @ \/ Len(w.output) + Len(piece) >= MaxBuffer]
           v == IF w.view.made THEN ViewerWrite(w.view, piece) ELSE w.view
           bytes == BufferAppend(w.output, piece)
<1>1. IsHistory(h) /\ IsViewer(w.view) /\ Shows(w.output, w.view, h)
  BY DEF Fed
<1>2. /\ OutputAppend(w, piece).history = k /\ OutputAppend(w, piece).view = v
      /\ OutputAppend(w, piece).output = bytes
  BY DEF OutputAppend
<1>3. /\ IsHistory(g) /\ g.read = h.read /\ g.lost = h.lost /\ g.exact = h.exact
      /\ IsViewer(v) /\ v.made = w.view.made
      /\ Good(g.ideal) /\ (~g.gap => ~Beyond(g.ideal))
      /\ v.made /\ g.exact /\ ~g.gap => v.emulator = End(g.ideal)
  <2> DEFINE u == ViewerWrite(w.view, piece)
  <2>1. /\ IsHistory(g) /\ g.read = h.read /\ g.lost = h.lost /\ g.exact = h.exact
        /\ IsViewer(u) /\ u.made = w.view.made
        /\ Good(g.ideal) /\ (~g.gap => ~Beyond(g.ideal))
        /\ w.view.made /\ g.exact /\ ~g.gap => u.emulator = End(g.ideal)
    BY <1>1, RecordGoesOn
  <2>2. v = IF w.view.made THEN u ELSE w.view
    OBVIOUS
  <2> HIDE DEF u, v, g, h
  <2> QED BY <1>1, <2>1, <2>2
<1> HIDE DEF g, v
<1>4. /\ IsHistory(k) /\ k.read = e /\ k.lost = lost /\ k.ideal = g.ideal
      /\ k.gap = g.gap /\ k.exact = g.exact
  BY <1>1, <1>3 DEF IsHistory
<1>5. Good(h.read) /\ Good(e)
  BY <1>1, ParseOnIsGood DEF Shows
<1>6. ASSUME ~k.lost
      PROVE  bytes \in Seq(Bytes) /\ e = ParseOn(New, bytes)
  <2>1. /\ w.output \in Seq(Bytes) /\ h.read = ParseOn(New, w.output)
        /\ ~(Len(w.output) + Len(piece) >= MaxBuffer)
    BY <1>1, <1>4, <1>6 DEF Shows
  <2>2. bytes = w.output \o piece
    BY <2>1, BufferHolds
  <2> QED BY <2>1, <2>2, ConcatProperties, ParseConcat
<1> HIDE DEF h, e, k, bytes, lost
<1>7. Shows(bytes, v, k)
  BY <1>3, <1>4, <1>5, <1>6 DEF Shows
<1> QED BY <1>2, <1>3, <1>4, <1>7 DEF Fed

(* What the plugin prints leaves the output alone.                          *)
LEMMA PluginPrintFeeds ==
  ASSUME NEW w, Fed(w), w.view.made, NEW text \in Seq(Bytes)
  PROVE  Fed(PluginPrint(w, text)) /\ PluginPrint(w, text).view.made
         /\ PluginPrint(w, text).output = w.output
<1> DEFINE h == w.history
           k == Record(h, text)
           u == w.view
           v == ViewerWrite(u, text)
           bytes == w.output
<1>1. IsHistory(h) /\ IsViewer(u) /\ Shows(bytes, u, h)
  BY DEF Fed
<1>2. /\ PluginPrint(w, text).history = k /\ PluginPrint(w, text).view = v
      /\ PluginPrint(w, text).output = bytes
  BY DEF PluginPrint
<1>3. /\ IsHistory(k) /\ k.read = h.read /\ k.lost = h.lost /\ k.exact = h.exact
      /\ IsViewer(v) /\ v.made = u.made
      /\ Good(k.ideal) /\ (~k.gap => ~Beyond(k.ideal))
      /\ v.made /\ k.exact /\ ~k.gap => v.emulator = End(k.ideal)
  <2> HIDE DEF h, u, bytes
  <2>1. u.made /\ k.exact /\ ~k.gap => v.emulator = End(k.ideal)
    BY <1>1, RecordGoesOn
  <2>2. /\ IsHistory(k) /\ k.read = h.read /\ k.lost = h.lost /\ k.exact = h.exact
        /\ IsViewer(v) /\ v.made = u.made
    BY <1>1, RecordGoesOn
  <2>3. Good(k.ideal) /\ (~k.gap => ~Beyond(k.ideal))
    BY <1>1, RecordGoesOn
  <2> QED BY <2>1, <2>2, <2>3
<1> HIDE DEF h, k, v, bytes
<1>4. Shows(bytes, v, k)
  BY <1>1, <1>3 DEF Shows
<1>5. bytes = w.output /\ u = w.view
  BY DEF bytes
<1> HIDE DEF u
<1> QED BY <1>2, <1>3, <1>4, <1>5 DEF Fed

LEMMA WritesFeed ==
  ASSUME NEW w, Fed(w), w.view.made, NEW texts \in Seq(Seq(Bytes))
  PROVE  Fed(PluginWrites(w, texts)) /\ PluginWrites(w, texts).output = w.output
<1> DEFINE Is(u) == Fed(u) /\ u.view.made /\ u.output = w.output
<1>1. PICK f : /\ f[0] = w
               /\ \A n \in 1..Len(texts) : f[n] = PluginPrint(f[n - 1], texts[n])
               /\ PluginWrites(w, texts) = f[Len(texts)]
  BY WritesFollow
<1>2. ASSUME NEW u, NEW text \in Seq(Bytes), Is(u)
      PROVE  Is(PluginPrint(u, text))
  BY <1>2, PluginPrintFeeds
<1>3. Len(texts) \in Nat /\ \A n \in 1..Len(texts) : texts[n] \in Seq(Bytes)
  BY LenProperties, ElementOfSeq
<1> DEFINE P == {n \in Nat : n <= Len(texts) => Is(f[n])}
<1>4. 0 \in P
  BY <1>1
<1> HIDE DEF Is
<1>5. ASSUME NEW n \in Nat, n \in P PROVE n + 1 \in P
  <2> SUFFICES ASSUME n + 1 <= Len(texts) PROVE Is(f[n + 1])
    OBVIOUS
  <2>1. n + 1 \in 1..Len(texts) /\ n <= Len(texts) /\ (n + 1) - 1 = n
    <3>1. PICK m \in Nat : m = Len(texts)
      BY <1>3
    <3> HIDE DEF P
    <3> QED BY <3>1
  <2>2. Is(f[n])
    BY <1>5, <2>1
  <2>3. f[n + 1] = PluginPrint(f[n], texts[n + 1])
    BY <1>1, <2>1
  <2>4. texts[n + 1] \in Seq(Bytes)
    BY <1>3, <2>1
  <2> QED BY <1>2, <2>2, <2>3, <2>4
<1> HIDE DEF P
<1>6. Len(texts) \in P
  BY <1>3, <1>4, <1>5, NumbersInduction
<1> QED BY <1>1, <1>3, <1>6 DEF P, Is

LEMMA PrintFeeds ==
  ASSUME NEW w, Fed(w), NEW priority PROVE Fed(KmsgPrint(w, priority))
<1>1. <<"NL">> \in Seq(Bytes) /\ <<"1", ";">> \in Seq(Bytes) /\ <<>> \in Seq(Bytes)
      /\ <<"ESC", "[", "0", ";">> \in Seq(Bytes)
      /\ <<"m", "k", "ESC", "[", "0", "m">> \in Seq(Bytes)
  BY DEF Bytes
<1>2. Colour(priority) \in Seq(Bytes)
  <2>1. Colour(priority) \in {<<"3", "1">>, <<"3", "3">>, <<"3", "2">>, <<"3", "9">>}
    BY Zenon DEF Colour
  <2>2. /\ <<"3", "1">> \in Seq(Bytes) /\ <<"3", "3">> \in Seq(Bytes)
        /\ <<"3", "2">> \in Seq(Bytes) /\ <<"3", "9">> \in Seq(Bytes)
    BY DEF Bytes
  <2> QED BY <2>1, <2>2, Zenon
<1>3. KmsgLine(priority) \in Seq(Bytes)
  <2> DEFINE start == <<"ESC", "[", "0", ";">>
             bold == IF priority < 1 THEN <<"1", ";">> ELSE <<>>
             end == <<"m", "k", "ESC", "[", "0", "m">>
             c == Colour(priority)
  <2>1. start \in Seq(Bytes) /\ bold \in Seq(Bytes) /\ end \in Seq(Bytes)
        /\ c \in Seq(Bytes)
    BY <1>1, <1>2
  <2>2. KmsgLine(priority) = start \o bold \o c \o end
    BY DEF KmsgLine
  <2> HIDE DEF start, bold, end, c
  <2>3. start \o bold \in Seq(Bytes)
    BY <2>1, ConcatProperties
  <2>4. start \o bold \o c \in Seq(Bytes)
    BY <2>1, <2>3, ConcatProperties
  <2>5. start \o bold \o c \o end \in Seq(Bytes)
    BY <2>1, <2>4, ConcatProperties
  <2> QED BY <2>2, <2>5
<1> QED BY <1>1, <1>3, OutputFeeds DEF KmsgPrint

(* The output that is not there any more.                                   *)
LEMMA MissingShows ==
  ASSUME ShowInv, UseMissing, stream' \in Seq(Bytes)
  PROVE  ShowInv'
BY DEF ShowInv, UseMissing

LEMMA FedKeepsOutput ==
  ASSUME ShowInv, NEW w, Fed(w), Becomes(w), stream' \in Seq(Bytes)
  PROVE  ShowInv'
<1>1. CASE UseMissing
  BY <1>1, MissingShows
<1>2. CASE ~UseMissing
  BY <1>2 DEF ShowInv, Fed, Becomes
<1> QED BY <1>1, <1>2

LEMMA PrintsShow ==
  ASSUME ShowInv, NEW texts \in Seq(Seq(Bytes)), Prints(texts),
         UNCHANGED <<stream, output>>
  PROVE  ShowInv'
<1> DEFINE w == IF view.made THEN PluginWrites(Now, texts) ELSE Now
<1>1. Fed(Now) /\ Now.view = view /\ Now.output = output.bytes
  BY DEF ShowInv, Fed, Now
<1>2. Fed(w) /\ w.output = output.bytes
  BY <1>1, WritesFeed
<1>3. view' = w.view /\ history' = w.history
  BY DEF Prints, Views
<1> HIDE DEF w
<1> QED BY <1>2, <1>3 DEF ShowInv, Fed

LEMMA LoadGivesTheOutput ==
  ASSUME ShowInv, LoadView, UNCHANGED stream
  PROVE  ShowInv'
<1> DEFINE v == [NoView EXCEPT !.made = TRUE]
<1>0. SUFFICES ASSUME ~UseMissing PROVE ShowInv'
  BY MissingShows DEF ShowInv
<1>1. IsViewer(v) /\ v.emulator = New
  BY DEF IsViewer, NoView
<1>2. UNCHANGED <<stream, output>> /\ view' = ViewerWrite(v, output.bytes)
  BY <1>0 DEF LoadView
<1> HIDE DEF v
<1>3. IsViewer(view') /\ view'.emulator = Parse(New, output.bytes)
  BY <1>1, <1>2, WriteGoesOn
<1>4. /\ IsHistory(history') /\ history'.read = history.read
      /\ history'.ideal = history.read /\ history'.lost = history.lost
      /\ history'.gap = Beyond(history.read)
      /\ history'.exact <=> ~history.lost
  BY <1>0 DEF LoadView, ShowInv, IsHistory, Beyond
<1>5. ASSUME ~history.lost
      PROVE  Parse(New, output.bytes) = End(history.read)
  <2>1. output.bytes \in Seq(Bytes) /\ history.read = ParseOn(New, output.bytes)
    BY <1>5 DEF ShowInv, Shows
  <2>2. Parse(End(New), output.bytes) = End(ParseOn(New, output.bytes))
    BY <2>1, NewIsGood, PieceByPiece
  <2> QED BY <2>1, <2>2, NewIsGood
<1> QED BY <1>2, <1>3, <1>4, <1>5 DEF ShowInv, Shows

LEMMA DropGivesNothing ==
  ASSUME ShowInv, DropView, UNCHANGED stream
  PROVE  ShowInv'
<1>1. IsViewer(view') /\ ~view'.made
  BY DEF IsViewer, NoView, DropView
<1>2. /\ IsHistory(history') /\ history'.ideal = history.ideal
      /\ history'.read = history.read
      /\ history'.lost = history.lost /\ history'.gap = history.gap
  BY DEF DropView, ShowInv, IsHistory
<1> QED BY <1>1, <1>2 DEF ShowInv, Shows, DropView

(* The viewer shows and hides, or brings its labels up to date.             *)
LEMMA LabelsLeaveTheOutput ==
  ASSUME ShowInv, DisplayConsole \/ HideConsole \/ OnUpdate
  PROVE  ShowInv'
<1>1. UNCHANGED <<history, stream, output>>
  BY DEF DisplayConsole, HideConsole, OnUpdate, Unwatched
<1>2. ASSUME NEW u, IsViewer(u)
      PROVE  LET x == Update(u) IN
             IsViewer(x) /\ x.made = u.made /\ x.emulator = u.emulator
  BY <1>2 DEF IsViewer, Update
<1>3. ASSUME NEW b \in BOOLEAN
      PROVE  LET x == [view EXCEPT !.hidden = b] IN
             IsViewer(x) /\ x.made = view.made /\ x.emulator = view.emulator
  BY DEF ShowInv, IsViewer
<1>4. IsViewer(view') /\ view'.made = view.made /\ view'.emulator = view.emulator
  <2>1. CASE DisplayConsole
    <3> DEFINE x == [view EXCEPT !.hidden = FALSE]
    <3>1. IsViewer(x) /\ x.made = view.made /\ x.emulator = view.emulator
      BY <1>3
    <3>2. view' = Update(x)
      BY <2>1 DEF DisplayConsole, ViewerShow
    <3> HIDE DEF x
    <3> QED BY <1>2, <3>1, <3>2
  <2>2. CASE HideConsole
    BY <1>3, <2>2 DEF HideConsole, ViewerHide
  <2>3. CASE OnUpdate
    BY <1>2, <2>3 DEF OnUpdate, ShowInv
  <2> QED BY <2>1, <2>2, <2>3
<1> QED BY <1>1, <1>4 DEF ShowInv, Shows

LEMMA ChangeGivesItTwice ==
  ASSUME ShowInv, ChangeMode PROVE ShowInv'
<1>0. SUFFICES ASSUME ~UseMissing PROVE ShowInv'
  BY MissingShows DEF ChangeMode, ShowInv
<1>1. UNCHANGED <<stream, output>> /\ view' = ViewerWrite(view, output.bytes)
  BY <1>0 DEF ChangeMode
<1>2. IsViewer(view') /\ view'.made = view.made
      /\ view'.emulator = Parse(view.emulator, output.bytes)
  BY <1>1, WriteGoesOn DEF ShowInv
<1>3. /\ IsHistory(history') /\ history'.ideal = history.ideal
      /\ history'.read = history.read
      /\ history'.lost = history.lost /\ history'.gap = history.gap
      /\ history'.exact <=> history.exact /\ output.bytes = <<>>
  BY <1>0 DEF ChangeMode, ShowInv, IsHistory
<1>4. output.bytes = <<>> => Parse(view.emulator, output.bytes) = view.emulator
  BY DEF Parse
<1> QED BY <1>1, <1>2, <1>3, <1>4 DEF ShowInv, Shows

LEMMA StreamGoesOn ==
  ASSUME ShowInv, NEW n \in DOMAIN stream
  PROVE  /\ SubSeq(stream, 1, n) \in Seq(Bytes)
         /\ SubSeq(stream, n + 1, Len(stream)) \in Seq(Bytes)
<1>1. stream \in Seq(Bytes) /\ Len(stream) \in Nat /\ DOMAIN stream = 1..Len(stream)
  BY LenProperties DEF ShowInv
<1>2. \A i \in 1..Len(stream) : stream[i] \in Bytes
  BY <1>1, ElementOfSeq
<1>3. n \in Int /\ 1 \in Int /\ n + 1 \in Int /\ 1 <= n /\ n <= Len(stream)
  BY <1>1
<1>4. \A i \in 1..n : stream[i] \in Bytes
  BY <1>1, <1>2, <1>3
<1>5. \A i \in (n + 1)..Len(stream) : stream[i] \in Bytes
  BY <1>1, <1>2, <1>3
<1> QED BY <1>1, <1>3, <1>4, <1>5, SubSeqProperties

LEMMA ConsoleKeepsOutput ==
  ASSUME ShowInv, [ConsoleNext]_consoleVars PROVE ShowInv'
<1>0. Fed(Now) /\ <<>> \in Seq(Bytes)
  BY DEF ShowInv, Fed, Now
<1>1. ASSUME NEW n \in DOMAIN stream, OnNewData(n) PROVE ShowInv'
  <2>1. /\ Becomes(OutputAppend(Now, SubSeq(stream, 1, n)))
        /\ stream' = SubSeq(stream, n + 1, Len(stream))
    BY <1>1 DEF OnNewData
  <2> QED BY <1>0, <2>1, StreamGoesOn, OutputFeeds, FedKeepsOutput
<1>2. ASSUME NEW p \in Priorities, NEW lines \in 1..2, NEW level \in {3, 7},
             OnKmsg(p, lines, level)
      PROVE  ShowInv'
  <2>1. Fed(KmsgPrint(Now, p)) /\ Fed(KmsgPrint(KmsgPrint(Now, p), p))
    BY <1>0, PrintFeeds
  <2>2. stream' = stream /\ stream \in Seq(Bytes)
    BY <1>2 DEF OnKmsg, ShowInv
  <2>3. \/ UNCHANGED <<output, view, history>>
        \/ Becomes(KmsgPrint(Now, p))
        \/ Becomes(KmsgPrint(KmsgPrint(Now, p), p))
    <3>1. CASE lines = 1
      BY <1>2, <3>1 DEF OnKmsg
    <3>2. CASE lines # 1
      BY <1>2, <3>2 DEF OnKmsg
    <3> QED BY <3>1, <3>2
  <2>4. UNCHANGED <<output, view, history>> => ShowInv'
    BY <2>2 DEF ShowInv
  <2> QED BY <1>0, <2>1, <2>2, <2>3, <2>4, FedKeepsOutput
<1>3. ASSUME NEW text \in Texts, Write(text) PROVE ShowInv'
  <2>1. text \in Seq(Bytes)
    BY PhrasesAreTexts
  <2> QED BY <1>3, <2>1 DEF Write, ShowInv, Shows
<1>4. CASE ShowSplash \/ AddDisplay
  BY <1>4, LoadGivesTheOutput DEF ShowSplash, AddDisplay, Unwatched
<1>5. CASE FreeSplash \/ RemoveDisplay
  BY <1>5, DropGivesNothing DEF FreeSplash, RemoveDisplay, Unwatched
<1>6. ASSUME UNCHANGED <<view, history>>, stream' \in {stream, <<>>},
             \/ UNCHANGED output
             \/ \E a : output' = [output EXCEPT !.alive = a]
      PROVE  ShowInv'
  <2>1. stream' \in Seq(Bytes)
    BY <1>0, <1>6 DEF ShowInv
  <2>2. output' = [alive |-> output'.alive, bytes |-> output.bytes,
                   used |-> output'.used]
    BY <1>6 DEF ShowInv
  <2> QED BY <1>6, <2>1, <2>2 DEF ShowInv, Shows
<1>7. ASSUME NEW redirect, NEW kmsg, NEW o, Attach(redirect, o, kmsg) PROVE ShowInv'
  BY <1>6, <1>7 DEF Attach
<1>8. ASSUME \/ Detach \/ OnKmsgEnd \/ \E o \in Outcomes : OnHangup(o)
             \/ UNCHANGED consoleVars
      PROVE  ShowInv'
  BY <1>6, <1>8 DEF Detach, OnHangup, OnKmsgEnd, consoleVars
<1>9. \/ \E n \in DOMAIN stream : OnNewData(n)
      \/ \E p \in Priorities, lines \in 1..2, level \in {3, 7} :
             OnKmsg(p, lines, level)
      \/ \E text \in Texts : Write(text)
      \/ ShowSplash \/ AddDisplay
      \/ FreeSplash \/ RemoveDisplay
      \/ \E redirect, kmsg \in BOOLEAN, o \in Outcomes : Attach(redirect, o, kmsg)
      \/ Detach \/ OnKmsgEnd \/ \E o \in Outcomes : OnHangup(o)
      \/ UNCHANGED consoleVars
      \/ ChangeMode \/ DisplayConsole \/ HideConsole \/ OnUpdate
      \/ PluginPrinting
  BY DEF ConsoleNext, SessionNext, SplashNext, PluginPrinting
<1>10. CASE \E redirect, kmsg \in BOOLEAN, o \in Outcomes : Attach(redirect, o, kmsg)
  BY <1>7, <1>10
<1>11. CASE PluginPrinting
  <2>1. UNCHANGED <<stream, output>>
    BY <1>11 DEF PluginPrinting, DisplayPassword, DisplayQuestion, DisplayNormal,
                 ShowMessage
  <2> QED BY <1>11, <2>1, PluginPrints, PrintsShow
<1> QED BY <1>1, <1>2, <1>3, <1>4, <1>5, <1>8, <1>9, <1>10, <1>11,
           ChangeGivesItTwice, LabelsLeaveTheOutput

(* However the output is cut by the reads, whether a viewer gets it in      *)
(* pieces or from the buffer, and whatever prompts and messages the plugin  *)
(* prints in between: its emulator is where it would be had it parsed all   *)
(* of that at once, in its order (ply_terminal_emulator_parse_lines).       *)
THEOREM ViewersAlwaysShowTheOutput == ConsoleSpec => []ViewersShowTheOutput
<1>1. ConsoleInit => ShowInv
  <2> SUFFICES ASSUME ConsoleInit PROVE ShowInv
    OBVIOUS
  <2> DEFINE none == <<>>
  <2>1. none \in Seq(Bytes)
    OBVIOUS
  <2>2. /\ stream = none
        /\ output = [alive |-> TRUE, bytes |-> none, used |-> FALSE]
    BY DEF ConsoleInit
  <2>3. IsViewer(view) /\ ~view.made
    BY DEF ConsoleInit, NoView, IsViewer
  <2>4. /\ IsHistory(history) /\ ~history.gap
        /\ history.read = Start(New) /\ history.ideal = Start(New)
    BY DEF ConsoleInit, IsHistory
  <2>5. ParseOn(New, none) = New
    BY ParseEmpty
  <2> HIDE DEF none
  <2>6. /\ output = [alive |-> output.alive, bytes |-> output.bytes,
                    used |-> output.used]
        /\ output.bytes = none
    BY <2>2
  <2> QED BY <2>1, <2>2, <2>3, <2>4, <2>5, <2>6, NewIsGood DEF ShowInv, Shows
<1>2. ShowInv /\ [ConsoleNext]_consoleVars => ShowInv'
  BY ConsoleKeepsOutput
<1>3. ShowInv => ViewersShowTheOutput
  BY DEF ShowInv, Shows, ViewersShowTheOutput
<1> QED BY <1>1, <1>2, <1>3, PTL DEF ConsoleSpec

-----------------------------------------------------------------------------
(* The regions of ply-region.c: what is merged into a list of rectangles.   *)

(* The pixel in column a and row b belongs to r.                            *)
At(r, a, b) == /\ r.x <= a /\ a < r.x + r.w
               /\ r.y <= b /\ b < r.y + r.h

LEMMA CellsAre ==
  ASSUME NEW r \in Rectangles
  PROVE  /\ \A a, b \in Int : <<a, b>> \in Cells(r) <=> At(r, a, b)
         /\ Cells(r) \subseteq Int \X Int
         /\ IsEmpty(r) <=> Cells(r) = {}
         /\ IsFiniteSet(Cells(r))
<1>1. r.x \in Int /\ r.y \in Int /\ r.w \in Nat /\ r.h \in Nat
  BY DEF Rectangles
<1> DEFINE X == r.x .. Right(r) - 1
           Y == r.y .. Bottom(r) - 1
<1>2. \A a, b \in Int : <<a, b>> \in Cells(r) <=> At(r, a, b)
  <2> SUFFICES ASSUME NEW a \in Int, NEW b \in Int
               PROVE  <<a, b>> \in Cells(r) <=> At(r, a, b)
    OBVIOUS
  <2>1. a \in X <=> r.x <= a /\ a < r.x + r.w
    BY <1>1 DEF Right
  <2>2. b \in Y <=> r.y <= b /\ b < r.y + r.h
    BY <1>1 DEF Bottom
  <2>3. <<a, b>> \in Cells(r) <=> a \in X /\ b \in Y
    BY DEF Cells
  <2> QED BY <2>1, <2>2, <2>3 DEF At
<1>3. Cells(r) \subseteq Int \X Int
  BY <1>1 DEF Cells, Right, Bottom
<1>4. ASSUME IsEmpty(r) PROVE Cells(r) = {}
  <2>1. X = {} \/ Y = {}
    BY <1>1, <1>4 DEF IsEmpty, Right, Bottom
  <2> QED BY <2>1 DEF Cells
<1>5. ASSUME ~IsEmpty(r) PROVE Cells(r) # {}
  <2>1. At(r, r.x, r.y)
    BY <1>1, <1>5 DEF IsEmpty, At
  <2> QED BY <1>1, <1>2, <2>1
<1>6. IsFiniteSet(X) /\ IsFiniteSet(Y)
  <2>1. Right(r) - 1 \in Int /\ Bottom(r) - 1 \in Int
    BY <1>1 DEF Right, Bottom
  <2> QED BY <1>1, <2>1, FS_Interval
<1>7. IsFiniteSet(Cells(r))
  BY <1>6, FS_Product DEF Cells
<1> QED BY <1>2, <1>3, <1>4, <1>5, <1>7

(* How two intervals lie that have pixels, for each way they meet.          *)
LEMMA CollisionsAre ==
  ASSUME NEW f1 \in Int, NEW t1 \in Int, NEW f2 \in Int, NEW t2 \in Int,
         f1 < t1, f2 < t2
  PROVE  LET c == Collision(f1, t1, f2, t2)
         IN  \/ c = "none" /\ (t2 <= f1 \/ t1 <= f2)
             \/ c = "start" /\ f2 < f1 /\ f1 < t2 /\ t2 < t1
             \/ c = "end" /\ f1 <= f2 /\ f2 < t1 /\ t1 < t2
             \/ c = "both" /\ f2 < f1 /\ t1 <= t2
             \/ c = "contained" /\ f1 <= f2 /\ t2 <= t1
             \/ c = "exact" /\ f1 = f2 /\ t1 = t2
BY DEF Collision

(* Two rectangles that have pixels, and the edges at which they meet.       *)
Meet(old, new, h, v) ==
    /\ old.x \in Int /\ old.y \in Int /\ new.x \in Int /\ new.y \in Int
    /\ old.w \in Nat /\ old.h \in Nat /\ new.w \in Nat /\ new.h \in Nat
    /\ 0 < old.w /\ 0 < old.h /\ 0 < new.w /\ 0 < new.h
    /\ h = "none" <=> v = "none"
    /\ \/ h = "none"
       \/ h = "start" /\ new.x < old.x /\ old.x < Right(new) /\ Right(new) < Right(old)
       \/ h = "end" /\ old.x <= new.x /\ new.x < Right(old) /\ Right(old) < Right(new)
       \/ h = "both" /\ new.x < old.x /\ Right(old) <= Right(new)
       \/ h = "contained" /\ old.x <= new.x /\ Right(new) <= Right(old)
       \/ h = "exact" /\ old.x = new.x /\ Right(old) = Right(new)
    /\ \/ v = "none"
       \/ v = "start" /\ new.y < old.y /\ old.y < Bottom(new) /\ Bottom(new) < Bottom(old)
       \/ v = "end" /\ old.y <= new.y /\ new.y < Bottom(old) /\ Bottom(old) < Bottom(new)
       \/ v = "both" /\ new.y < old.y /\ Bottom(old) <= Bottom(new)
       \/ v = "contained" /\ old.y <= new.y /\ Bottom(new) <= Bottom(old)
       \/ v = "exact" /\ old.y = new.y /\ Bottom(old) = Bottom(new)
    /\ h = "none" => \A a, b \in Int : ~(At(old, a, b) /\ At(new, a, b))

LEMMA OverlapsAre ==
  ASSUME NEW old \in Rectangles, NEW new \in Rectangles,
         ~IsEmpty(old), ~IsEmpty(new)
  PROVE  \E h, v : FindOverlap(old, new) = <<h, v>> /\ Meet(old, new, h, v)
<1>1. /\ old.x \in Int /\ old.y \in Int /\ new.x \in Int /\ new.y \in Int
      /\ old.w \in Nat /\ old.h \in Nat /\ new.w \in Nat /\ new.h \in Nat
      /\ 0 < old.w /\ 0 < old.h /\ 0 < new.w /\ 0 < new.h
  BY DEF Rectangles, IsEmpty
<1>2. /\ Right(old) \in Int /\ Right(new) \in Int /\ Bottom(old) \in Int
      /\ Bottom(new) \in Int /\ old.x < Right(old) /\ new.x < Right(new)
      /\ old.y < Bottom(old) /\ new.y < Bottom(new)
  BY <1>1 DEF Right, Bottom
<1> DEFINE h == Collision(old.x, Right(old), new.x, Right(new))
           v == Collision(old.y, Bottom(old), new.y, Bottom(new))
<1> HIDE DEF h, v
<1>3. \/ h = "none" /\ (Right(new) <= old.x \/ Right(old) <= new.x)
      \/ h = "start" /\ new.x < old.x /\ old.x < Right(new) /\ Right(new) < Right(old)
      \/ h = "end" /\ old.x <= new.x /\ new.x < Right(old) /\ Right(old) < Right(new)
      \/ h = "both" /\ new.x < old.x /\ Right(old) <= Right(new)
      \/ h = "contained" /\ old.x <= new.x /\ Right(new) <= Right(old)
      \/ h = "exact" /\ old.x = new.x /\ Right(old) = Right(new)
  BY <1>1, <1>2, CollisionsAre DEF h
<1>4. \/ v = "none" /\ (Bottom(new) <= old.y \/ Bottom(old) <= new.y)
      \/ v = "start" /\ new.y < old.y /\ old.y < Bottom(new) /\ Bottom(new) < Bottom(old)
      \/ v = "end" /\ old.y <= new.y /\ new.y < Bottom(old) /\ Bottom(old) < Bottom(new)
      \/ v = "both" /\ new.y < old.y /\ Bottom(old) <= Bottom(new)
      \/ v = "contained" /\ old.y <= new.y /\ Bottom(new) <= Bottom(old)
      \/ v = "exact" /\ old.y = new.y /\ Bottom(old) = Bottom(new)
  BY <1>1, <1>2, CollisionsAre DEF v
<1>5. FindOverlap(old, new) = IF h = "none" \/ v = "none" THEN <<"none", "none">> ELSE <<h, v>>
  BY DEF FindOverlap, h, v
<1>6. CASE h = "none" \/ v = "none"
  <2>1. ASSUME NEW a \in Int, NEW b \in Int, At(old, a, b), At(new, a, b)
        PROVE  FALSE
    BY <1>1, <1>3, <1>4, <1>6, <2>1 DEF At, Right, Bottom
  <2>2. Meet(old, new, "none", "none")
    BY <1>1, <2>1 DEF Meet
  <2> QED BY <1>5, <1>6, <2>2
<1>7. CASE ~(h = "none" \/ v = "none")
  <2>1. Meet(old, new, h, v)
    BY <1>1, <1>3, <1>4, <1>7 DEF Meet
  <2> QED BY <1>5, <1>7, <2>1
<1> QED BY <1>6, <1>7

(* What the edges say of the pixels.                                        *)
LEMMA InsideIsThere ==
  ASSUME NEW old, NEW new, NEW h, NEW v, Meet(old, new, h, v),
         <<h, v>> \in NoEdges, NEW a \in Int, NEW b \in Int, At(new, a, b)
  PROVE  At(old, a, b)
<1>1. h \in {"contained", "exact"} /\ v \in {"contained", "exact"}
  BY DEF NoEdges
<1> QED BY <1>1 DEF Meet, At, Right, Bottom

LEMMA CoveredIsThere ==
  ASSUME NEW old, NEW new, NEW h, NEW v, Meet(old, new, h, v),
         <<h, v>> \in AllEdges, NEW a \in Int, NEW b \in Int, At(old, a, b)
  PROVE  At(new, a, b)
<1>1. h \in {"both", "exact"} /\ v \in {"both", "exact"}
  BY DEF AllEdges
<1> QED BY <1>1 DEF Meet, At, Right, Bottom

LEMMA ExtendedIsBoth ==
  ASSUME NEW old \in Rectangles, NEW new \in Rectangles, NEW h, NEW v,
         Meet(old, new, h, v), <<h, v>> \in Exact
  PROVE  LET e == Extended(old, new, <<h, v>>)
         IN  /\ e \in Rectangles
             /\ \A a, b \in Int : At(e, a, b) <=> At(old, a, b) \/ At(new, a, b)
<1> DEFINE e == Extended(old, new, <<h, v>>)
<1>1. \/ h = "exact" /\ v = "start"
      \/ h = "exact" /\ v = "end"
      \/ h = "start" /\ v = "exact"
      \/ h = "end" /\ v = "exact"
  BY DEF Exact
<1>2. CASE h = "exact" /\ v = "start"
  <2>1. e = Rectangle(old.x, new.y, old.w, Bottom(old) - new.y)
    BY <1>2 DEF Extended
  <2> HIDE DEF e
  <2>2. e \in Rectangles
    BY <1>2, <2>1 DEF Meet, Rectangles, Rectangle, Right, Bottom
  <2>3. ASSUME NEW a \in Int, NEW b \in Int
        PROVE  At(e, a, b) <=> At(old, a, b) \/ At(new, a, b)
    BY <1>2, <2>1 DEF Meet, Rectangles, Rectangle, At, Right, Bottom
  <2> USE DEF e
  <2> QED BY <2>2, <2>3
<1>3. CASE h = "exact" /\ v = "end"
  <2>1. e = Rectangle(old.x, old.y, old.w, Bottom(new) - old.y)
    BY <1>3 DEF Extended
  <2> HIDE DEF e
  <2>2. e \in Rectangles
    BY <1>3, <2>1 DEF Meet, Rectangles, Rectangle, Right, Bottom
  <2>3. ASSUME NEW a \in Int, NEW b \in Int
        PROVE  At(e, a, b) <=> At(old, a, b) \/ At(new, a, b)
    BY <1>3, <2>1 DEF Meet, Rectangles, Rectangle, At, Right, Bottom
  <2> USE DEF e
  <2> QED BY <2>2, <2>3
<1>4. CASE h = "start" /\ v = "exact"
  <2>1. e = Rectangle(new.x, old.y, Right(old) - new.x, old.h)
    BY <1>4 DEF Extended
  <2> HIDE DEF e
  <2>2. e \in Rectangles
    BY <1>4, <2>1 DEF Meet, Rectangles, Rectangle, Right, Bottom
  <2>3. ASSUME NEW a \in Int, NEW b \in Int
        PROVE  At(e, a, b) <=> At(old, a, b) \/ At(new, a, b)
    BY <1>4, <2>1 DEF Meet, Rectangles, Rectangle, At, Right, Bottom
  <2> USE DEF e
  <2> QED BY <2>2, <2>3
<1>5. CASE h = "end" /\ v = "exact"
  <2>1. e = Rectangle(old.x, old.y, Right(new) - old.x, old.h)
    BY <1>5 DEF Extended
  <2> HIDE DEF e
  <2>2. e \in Rectangles
    BY <1>5, <2>1 DEF Meet, Rectangles, Rectangle, Right, Bottom
  <2>3. ASSUME NEW a \in Int, NEW b \in Int
        PROVE  At(e, a, b) <=> At(old, a, b) \/ At(new, a, b)
    BY <1>5, <2>1 DEF Meet, Rectangles, Rectangle, At, Right, Bottom
  <2> USE DEF e
  <2> QED BY <2>2, <2>3
<1> QED BY <1>1, <1>2, <1>3, <1>4, <1>5

(* The parts into which two rectangles are cut.                             *)
Cut(old, new, p, m, k) ==
    /\ p \in Rectangles /\ m \in Rectangles /\ k \in Rectangles
    /\ \A a, b \in Int :
           /\ At(p, a, b) \/ At(m, a, b) \/ At(k, a, b) <=> At(old, a, b) \/ At(new, a, b)
           /\ ~(At(p, a, b) /\ At(m, a, b))
           /\ ~(At(p, a, b) /\ At(k, a, b))
           /\ ~(At(m, a, b) /\ At(k, a, b))
           /\ At(k, a, b) => At(old, a, b)
    /\ IsEmpty(k) => IsEmpty(p)

LEMMA PartsAreCut ==
  ASSUME NEW old \in Rectangles, NEW new \in Rectangles, NEW h, NEW v,
         Meet(old, new, h, v), <<h, v>> \notin NoEdges,
         <<h, v>> \notin AllEdges, <<h, v>> \notin Exact
  PROVE  Cut(old, new, Piece(old, new, <<h, v>>), Remainder(old, new, <<h, v>>),
             Trimmed(old, new, <<h, v>>))
<1> DEFINE p == Piece(old, new, <<h, v>>)
           m == Remainder(old, new, <<h, v>>)
           k == Trimmed(old, new, <<h, v>>)
<1>1. \/ h = "none" /\ v = "none"
      \/ h = "start" /\ v = "start"
      \/ h = "end" /\ v = "start"
      \/ h = "contained" /\ v = "start"
      \/ h = "both" /\ v = "start"
      \/ h = "start" /\ v = "end"
      \/ h = "end" /\ v = "end"
      \/ h = "contained" /\ v = "end"
      \/ h = "both" /\ v = "end"
      \/ h = "start" /\ v = "both"
      \/ h = "end" /\ v = "both"
      \/ h = "contained" /\ v = "both"
      \/ h = "start" /\ v = "contained"
      \/ h = "end" /\ v = "contained"
      \/ h = "both" /\ v = "contained"
  BY DEF Meet, NoEdges, AllEdges, Exact
<1>2. CASE h = "none" /\ v = "none"
  <2>1. p = Rectangle(0, 0, 0, 0)
    BY <1>2 DEF Piece
  <2>2. m = new
    BY <1>2 DEF Remainder
  <2>3. k = old
    BY <1>2 DEF Trimmed
  <2> HIDE DEF p, m, k
  <2>4. p \in Rectangles /\ m \in Rectangles /\ k \in Rectangles
    BY <1>2, <2>1, <2>2, <2>3
       DEF Meet, Rectangles, Rectangle, Right, Bottom, LeftOf, RightOf, Above, Below
  <2>5. ASSUME NEW a \in Int, NEW b \in Int
        PROVE  /\ At(p, a, b) \/ At(m, a, b) \/ At(k, a, b)
                      <=> At(old, a, b) \/ At(new, a, b)
               /\ ~(At(p, a, b) /\ At(m, a, b))
               /\ ~(At(p, a, b) /\ At(k, a, b))
               /\ ~(At(m, a, b) /\ At(k, a, b))
               /\ At(k, a, b) => At(old, a, b)
    BY <1>2, <2>1, <2>2, <2>3
       DEF Meet, At, Rectangles, Rectangle, Right, Bottom, LeftOf, RightOf, Above, Below
  <2>6. IsEmpty(k) => IsEmpty(p)
    BY <1>2, <2>1, <2>3 DEF Meet, Rectangles, Rectangle, IsEmpty
  <2>7. Cut(old, new, p, m, k)
    BY <2>4, <2>5, <2>6 DEF Cut
  <2> QED BY <2>7 DEF p, m, k
<1>3. CASE h = "start" /\ v = "start"
  <2>1. p = LeftOf(old, Rectangle(new.x, old.y, new.w, Bottom(new) - old.y))
    BY <1>3 DEF Piece
  <2>2. m = Above(old, new)
    BY <1>3 DEF Remainder
  <2>3. k = old
    BY <1>3 DEF Trimmed
  <2> HIDE DEF p, m, k
  <2>4. p \in Rectangles /\ m \in Rectangles /\ k \in Rectangles
    BY <1>3, <2>1, <2>2, <2>3
       DEF Meet, Rectangles, Rectangle, Right, Bottom, LeftOf, RightOf, Above, Below
  <2>5. ASSUME NEW a \in Int, NEW b \in Int
        PROVE  /\ At(p, a, b) \/ At(m, a, b) \/ At(k, a, b)
                      <=> At(old, a, b) \/ At(new, a, b)
               /\ ~(At(p, a, b) /\ At(m, a, b))
               /\ ~(At(p, a, b) /\ At(k, a, b))
               /\ ~(At(m, a, b) /\ At(k, a, b))
               /\ At(k, a, b) => At(old, a, b)
    BY <1>3, <2>1, <2>2, <2>3
       DEF Meet, At, Rectangles, Rectangle, Right, Bottom, LeftOf, RightOf, Above, Below
  <2>6. IsEmpty(k) => IsEmpty(p)
    BY <1>3, <2>1, <2>3 DEF Meet, Rectangles, Rectangle, IsEmpty
  <2>7. Cut(old, new, p, m, k)
    BY <2>4, <2>5, <2>6 DEF Cut
  <2> QED BY <2>7 DEF p, m, k
<1>4. CASE h = "end" /\ v = "start"
  <2>1. p = RightOf(old, Rectangle(new.x, old.y, new.w, Bottom(new) - old.y))
    BY <1>4 DEF Piece
  <2>2. m = Above(old, new)
    BY <1>4 DEF Remainder
  <2>3. k = old
    BY <1>4 DEF Trimmed
  <2> HIDE DEF p, m, k
  <2>4. p \in Rectangles /\ m \in Rectangles /\ k \in Rectangles
    BY <1>4, <2>1, <2>2, <2>3
       DEF Meet, Rectangles, Rectangle, Right, Bottom, LeftOf, RightOf, Above, Below
  <2>5. ASSUME NEW a \in Int, NEW b \in Int
        PROVE  /\ At(p, a, b) \/ At(m, a, b) \/ At(k, a, b)
                      <=> At(old, a, b) \/ At(new, a, b)
               /\ ~(At(p, a, b) /\ At(m, a, b))
               /\ ~(At(p, a, b) /\ At(k, a, b))
               /\ ~(At(m, a, b) /\ At(k, a, b))
               /\ At(k, a, b) => At(old, a, b)
    BY <1>4, <2>1, <2>2, <2>3
       DEF Meet, At, Rectangles, Rectangle, Right, Bottom, LeftOf, RightOf, Above, Below
  <2>6. IsEmpty(k) => IsEmpty(p)
    BY <1>4, <2>1, <2>3 DEF Meet, Rectangles, Rectangle, IsEmpty
  <2>7. Cut(old, new, p, m, k)
    BY <2>4, <2>5, <2>6 DEF Cut
  <2> QED BY <2>7 DEF p, m, k
<1>5. CASE h = "contained" /\ v = "start"
  <2>1. p = Rectangle(0, 0, 0, 0)
    BY <1>5 DEF Piece
  <2>2. m = Above(old, new)
    BY <1>5 DEF Remainder
  <2>3. k = old
    BY <1>5 DEF Trimmed
  <2> HIDE DEF p, m, k
  <2>4. p \in Rectangles /\ m \in Rectangles /\ k \in Rectangles
    BY <1>5, <2>1, <2>2, <2>3
       DEF Meet, Rectangles, Rectangle, Right, Bottom, LeftOf, RightOf, Above, Below
  <2>5. ASSUME NEW a \in Int, NEW b \in Int
        PROVE  /\ At(p, a, b) \/ At(m, a, b) \/ At(k, a, b)
                      <=> At(old, a, b) \/ At(new, a, b)
               /\ ~(At(p, a, b) /\ At(m, a, b))
               /\ ~(At(p, a, b) /\ At(k, a, b))
               /\ ~(At(m, a, b) /\ At(k, a, b))
               /\ At(k, a, b) => At(old, a, b)
    BY <1>5, <2>1, <2>2, <2>3
       DEF Meet, At, Rectangles, Rectangle, Right, Bottom, LeftOf, RightOf, Above, Below
  <2>6. IsEmpty(k) => IsEmpty(p)
    BY <1>5, <2>1, <2>3 DEF Meet, Rectangles, Rectangle, IsEmpty
  <2>7. Cut(old, new, p, m, k)
    BY <2>4, <2>5, <2>6 DEF Cut
  <2> QED BY <2>7 DEF p, m, k
<1>6. CASE h = "both" /\ v = "start"
  <2>1. p = Rectangle(0, 0, 0, 0)
    BY <1>6 DEF Piece
  <2>2. m = new
    BY <1>6 DEF Remainder
  <2>3. k = Below(new, old)
    BY <1>6 DEF Trimmed
  <2> HIDE DEF p, m, k
  <2>4. p \in Rectangles /\ m \in Rectangles /\ k \in Rectangles
    BY <1>6, <2>1, <2>2, <2>3
       DEF Meet, Rectangles, Rectangle, Right, Bottom, LeftOf, RightOf, Above, Below
  <2>5. ASSUME NEW a \in Int, NEW b \in Int
        PROVE  /\ At(p, a, b) \/ At(m, a, b) \/ At(k, a, b)
                      <=> At(old, a, b) \/ At(new, a, b)
               /\ ~(At(p, a, b) /\ At(m, a, b))
               /\ ~(At(p, a, b) /\ At(k, a, b))
               /\ ~(At(m, a, b) /\ At(k, a, b))
               /\ At(k, a, b) => At(old, a, b)
    BY <1>6, <2>1, <2>2, <2>3
       DEF Meet, At, Rectangles, Rectangle, Right, Bottom, LeftOf, RightOf, Above, Below
  <2>6. IsEmpty(k) => IsEmpty(p)
    BY <1>6, <2>1, <2>3 DEF Meet, Rectangles, Rectangle, IsEmpty
  <2>7. Cut(old, new, p, m, k)
    BY <2>4, <2>5, <2>6 DEF Cut
  <2> QED BY <2>7 DEF p, m, k
<1>7. CASE h = "start" /\ v = "end"
  <2>1. p = LeftOf(old, Rectangle(new.x, new.y, new.w, Bottom(old) - new.y))
    BY <1>7 DEF Piece
  <2>2. m = Below(old, new)
    BY <1>7 DEF Remainder
  <2>3. k = old
    BY <1>7 DEF Trimmed
  <2> HIDE DEF p, m, k
  <2>4. p \in Rectangles /\ m \in Rectangles /\ k \in Rectangles
    BY <1>7, <2>1, <2>2, <2>3
       DEF Meet, Rectangles, Rectangle, Right, Bottom, LeftOf, RightOf, Above, Below
  <2>5. ASSUME NEW a \in Int, NEW b \in Int
        PROVE  /\ At(p, a, b) \/ At(m, a, b) \/ At(k, a, b)
                      <=> At(old, a, b) \/ At(new, a, b)
               /\ ~(At(p, a, b) /\ At(m, a, b))
               /\ ~(At(p, a, b) /\ At(k, a, b))
               /\ ~(At(m, a, b) /\ At(k, a, b))
               /\ At(k, a, b) => At(old, a, b)
    BY <1>7, <2>1, <2>2, <2>3
       DEF Meet, At, Rectangles, Rectangle, Right, Bottom, LeftOf, RightOf, Above, Below
  <2>6. IsEmpty(k) => IsEmpty(p)
    BY <1>7, <2>1, <2>3 DEF Meet, Rectangles, Rectangle, IsEmpty
  <2>7. Cut(old, new, p, m, k)
    BY <2>4, <2>5, <2>6 DEF Cut
  <2> QED BY <2>7 DEF p, m, k
<1>8. CASE h = "end" /\ v = "end"
  <2>1. p = RightOf(old, Rectangle(new.x, new.y, new.w, Bottom(old) - new.y))
    BY <1>8 DEF Piece
  <2>2. m = Below(old, new)
    BY <1>8 DEF Remainder
  <2>3. k = old
    BY <1>8 DEF Trimmed
  <2> HIDE DEF p, m, k
  <2>4. p \in Rectangles /\ m \in Rectangles /\ k \in Rectangles
    BY <1>8, <2>1, <2>2, <2>3
       DEF Meet, Rectangles, Rectangle, Right, Bottom, LeftOf, RightOf, Above, Below
  <2>5. ASSUME NEW a \in Int, NEW b \in Int
        PROVE  /\ At(p, a, b) \/ At(m, a, b) \/ At(k, a, b)
                      <=> At(old, a, b) \/ At(new, a, b)
               /\ ~(At(p, a, b) /\ At(m, a, b))
               /\ ~(At(p, a, b) /\ At(k, a, b))
               /\ ~(At(m, a, b) /\ At(k, a, b))
               /\ At(k, a, b) => At(old, a, b)
    BY <1>8, <2>1, <2>2, <2>3
       DEF Meet, At, Rectangles, Rectangle, Right, Bottom, LeftOf, RightOf, Above, Below
  <2>6. IsEmpty(k) => IsEmpty(p)
    BY <1>8, <2>1, <2>3 DEF Meet, Rectangles, Rectangle, IsEmpty
  <2>7. Cut(old, new, p, m, k)
    BY <2>4, <2>5, <2>6 DEF Cut
  <2> QED BY <2>7 DEF p, m, k
<1>9. CASE h = "contained" /\ v = "end"
  <2>1. p = Rectangle(0, 0, 0, 0)
    BY <1>9 DEF Piece
  <2>2. m = Below(old, new)
    BY <1>9 DEF Remainder
  <2>3. k = old
    BY <1>9 DEF Trimmed
  <2> HIDE DEF p, m, k
  <2>4. p \in Rectangles /\ m \in Rectangles /\ k \in Rectangles
    BY <1>9, <2>1, <2>2, <2>3
       DEF Meet, Rectangles, Rectangle, Right, Bottom, LeftOf, RightOf, Above, Below
  <2>5. ASSUME NEW a \in Int, NEW b \in Int
        PROVE  /\ At(p, a, b) \/ At(m, a, b) \/ At(k, a, b)
                      <=> At(old, a, b) \/ At(new, a, b)
               /\ ~(At(p, a, b) /\ At(m, a, b))
               /\ ~(At(p, a, b) /\ At(k, a, b))
               /\ ~(At(m, a, b) /\ At(k, a, b))
               /\ At(k, a, b) => At(old, a, b)
    BY <1>9, <2>1, <2>2, <2>3
       DEF Meet, At, Rectangles, Rectangle, Right, Bottom, LeftOf, RightOf, Above, Below
  <2>6. IsEmpty(k) => IsEmpty(p)
    BY <1>9, <2>1, <2>3 DEF Meet, Rectangles, Rectangle, IsEmpty
  <2>7. Cut(old, new, p, m, k)
    BY <2>4, <2>5, <2>6 DEF Cut
  <2> QED BY <2>7 DEF p, m, k
<1>10. CASE h = "both" /\ v = "end"
  <2>1. p = Rectangle(0, 0, 0, 0)
    BY <1>10 DEF Piece
  <2>2. m = new
    BY <1>10 DEF Remainder
  <2>3. k = Above(new, old)
    BY <1>10 DEF Trimmed
  <2> HIDE DEF p, m, k
  <2>4. p \in Rectangles /\ m \in Rectangles /\ k \in Rectangles
    BY <1>10, <2>1, <2>2, <2>3
       DEF Meet, Rectangles, Rectangle, Right, Bottom, LeftOf, RightOf, Above, Below
  <2>5. ASSUME NEW a \in Int, NEW b \in Int
        PROVE  /\ At(p, a, b) \/ At(m, a, b) \/ At(k, a, b)
                      <=> At(old, a, b) \/ At(new, a, b)
               /\ ~(At(p, a, b) /\ At(m, a, b))
               /\ ~(At(p, a, b) /\ At(k, a, b))
               /\ ~(At(m, a, b) /\ At(k, a, b))
               /\ At(k, a, b) => At(old, a, b)
    BY <1>10, <2>1, <2>2, <2>3
       DEF Meet, At, Rectangles, Rectangle, Right, Bottom, LeftOf, RightOf, Above, Below
  <2>6. IsEmpty(k) => IsEmpty(p)
    BY <1>10, <2>1, <2>3 DEF Meet, Rectangles, Rectangle, IsEmpty
  <2>7. Cut(old, new, p, m, k)
    BY <2>4, <2>5, <2>6 DEF Cut
  <2> QED BY <2>7 DEF p, m, k
<1>11. CASE h = "start" /\ v = "both"
  <2>1. p = Rectangle(0, 0, 0, 0)
    BY <1>11 DEF Piece
  <2>2. m = new
    BY <1>11 DEF Remainder
  <2>3. k = RightOf(new, old)
    BY <1>11 DEF Trimmed
  <2> HIDE DEF p, m, k
  <2>4. p \in Rectangles /\ m \in Rectangles /\ k \in Rectangles
    BY <1>11, <2>1, <2>2, <2>3
       DEF Meet, Rectangles, Rectangle, Right, Bottom, LeftOf, RightOf, Above, Below
  <2>5. ASSUME NEW a \in Int, NEW b \in Int
        PROVE  /\ At(p, a, b) \/ At(m, a, b) \/ At(k, a, b)
                      <=> At(old, a, b) \/ At(new, a, b)
               /\ ~(At(p, a, b) /\ At(m, a, b))
               /\ ~(At(p, a, b) /\ At(k, a, b))
               /\ ~(At(m, a, b) /\ At(k, a, b))
               /\ At(k, a, b) => At(old, a, b)
    BY <1>11, <2>1, <2>2, <2>3
       DEF Meet, At, Rectangles, Rectangle, Right, Bottom, LeftOf, RightOf, Above, Below
  <2>6. IsEmpty(k) => IsEmpty(p)
    BY <1>11, <2>1, <2>3 DEF Meet, Rectangles, Rectangle, IsEmpty
  <2>7. Cut(old, new, p, m, k)
    BY <2>4, <2>5, <2>6 DEF Cut
  <2> QED BY <2>7 DEF p, m, k
<1>12. CASE h = "end" /\ v = "both"
  <2>1. p = Rectangle(0, 0, 0, 0)
    BY <1>12 DEF Piece
  <2>2. m = new
    BY <1>12 DEF Remainder
  <2>3. k = LeftOf(new, old)
    BY <1>12 DEF Trimmed
  <2> HIDE DEF p, m, k
  <2>4. p \in Rectangles /\ m \in Rectangles /\ k \in Rectangles
    BY <1>12, <2>1, <2>2, <2>3
       DEF Meet, Rectangles, Rectangle, Right, Bottom, LeftOf, RightOf, Above, Below
  <2>5. ASSUME NEW a \in Int, NEW b \in Int
        PROVE  /\ At(p, a, b) \/ At(m, a, b) \/ At(k, a, b)
                      <=> At(old, a, b) \/ At(new, a, b)
               /\ ~(At(p, a, b) /\ At(m, a, b))
               /\ ~(At(p, a, b) /\ At(k, a, b))
               /\ ~(At(m, a, b) /\ At(k, a, b))
               /\ At(k, a, b) => At(old, a, b)
    BY <1>12, <2>1, <2>2, <2>3
       DEF Meet, At, Rectangles, Rectangle, Right, Bottom, LeftOf, RightOf, Above, Below
  <2>6. IsEmpty(k) => IsEmpty(p)
    BY <1>12, <2>1, <2>3 DEF Meet, Rectangles, Rectangle, IsEmpty
  <2>7. Cut(old, new, p, m, k)
    BY <2>4, <2>5, <2>6 DEF Cut
  <2> QED BY <2>7 DEF p, m, k
<1>13. CASE h = "contained" /\ v = "both"
  <2>1. p = Below(old, new)
    BY <1>13 DEF Piece
  <2>2. m = Above(old, new)
    BY <1>13 DEF Remainder
  <2>3. k = old
    BY <1>13 DEF Trimmed
  <2> HIDE DEF p, m, k
  <2>4. p \in Rectangles /\ m \in Rectangles /\ k \in Rectangles
    BY <1>13, <2>1, <2>2, <2>3
       DEF Meet, Rectangles, Rectangle, Right, Bottom, LeftOf, RightOf, Above, Below
  <2>5. ASSUME NEW a \in Int, NEW b \in Int
        PROVE  /\ At(p, a, b) \/ At(m, a, b) \/ At(k, a, b)
                      <=> At(old, a, b) \/ At(new, a, b)
               /\ ~(At(p, a, b) /\ At(m, a, b))
               /\ ~(At(p, a, b) /\ At(k, a, b))
               /\ ~(At(m, a, b) /\ At(k, a, b))
               /\ At(k, a, b) => At(old, a, b)
    BY <1>13, <2>1, <2>2, <2>3
       DEF Meet, At, Rectangles, Rectangle, Right, Bottom, LeftOf, RightOf, Above, Below
  <2>6. IsEmpty(k) => IsEmpty(p)
    BY <1>13, <2>1, <2>3 DEF Meet, Rectangles, Rectangle, IsEmpty
  <2>7. Cut(old, new, p, m, k)
    BY <2>4, <2>5, <2>6 DEF Cut
  <2> QED BY <2>7 DEF p, m, k
<1>14. CASE h = "start" /\ v = "contained"
  <2>1. p = Rectangle(0, 0, 0, 0)
    BY <1>14 DEF Piece
  <2>2. m = LeftOf(old, new)
    BY <1>14 DEF Remainder
  <2>3. k = old
    BY <1>14 DEF Trimmed
  <2> HIDE DEF p, m, k
  <2>4. p \in Rectangles /\ m \in Rectangles /\ k \in Rectangles
    BY <1>14, <2>1, <2>2, <2>3
       DEF Meet, Rectangles, Rectangle, Right, Bottom, LeftOf, RightOf, Above, Below
  <2>5. ASSUME NEW a \in Int, NEW b \in Int
        PROVE  /\ At(p, a, b) \/ At(m, a, b) \/ At(k, a, b)
                      <=> At(old, a, b) \/ At(new, a, b)
               /\ ~(At(p, a, b) /\ At(m, a, b))
               /\ ~(At(p, a, b) /\ At(k, a, b))
               /\ ~(At(m, a, b) /\ At(k, a, b))
               /\ At(k, a, b) => At(old, a, b)
    BY <1>14, <2>1, <2>2, <2>3
       DEF Meet, At, Rectangles, Rectangle, Right, Bottom, LeftOf, RightOf, Above, Below
  <2>6. IsEmpty(k) => IsEmpty(p)
    BY <1>14, <2>1, <2>3 DEF Meet, Rectangles, Rectangle, IsEmpty
  <2>7. Cut(old, new, p, m, k)
    BY <2>4, <2>5, <2>6 DEF Cut
  <2> QED BY <2>7 DEF p, m, k
<1>15. CASE h = "end" /\ v = "contained"
  <2>1. p = Rectangle(0, 0, 0, 0)
    BY <1>15 DEF Piece
  <2>2. m = RightOf(old, new)
    BY <1>15 DEF Remainder
  <2>3. k = old
    BY <1>15 DEF Trimmed
  <2> HIDE DEF p, m, k
  <2>4. p \in Rectangles /\ m \in Rectangles /\ k \in Rectangles
    BY <1>15, <2>1, <2>2, <2>3
       DEF Meet, Rectangles, Rectangle, Right, Bottom, LeftOf, RightOf, Above, Below
  <2>5. ASSUME NEW a \in Int, NEW b \in Int
        PROVE  /\ At(p, a, b) \/ At(m, a, b) \/ At(k, a, b)
                      <=> At(old, a, b) \/ At(new, a, b)
               /\ ~(At(p, a, b) /\ At(m, a, b))
               /\ ~(At(p, a, b) /\ At(k, a, b))
               /\ ~(At(m, a, b) /\ At(k, a, b))
               /\ At(k, a, b) => At(old, a, b)
    BY <1>15, <2>1, <2>2, <2>3
       DEF Meet, At, Rectangles, Rectangle, Right, Bottom, LeftOf, RightOf, Above, Below
  <2>6. IsEmpty(k) => IsEmpty(p)
    BY <1>15, <2>1, <2>3 DEF Meet, Rectangles, Rectangle, IsEmpty
  <2>7. Cut(old, new, p, m, k)
    BY <2>4, <2>5, <2>6 DEF Cut
  <2> QED BY <2>7 DEF p, m, k
<1>16. CASE h = "both" /\ v = "contained"
  <2>1. p = RightOf(old, new)
    BY <1>16 DEF Piece
  <2>2. m = LeftOf(old, new)
    BY <1>16 DEF Remainder
  <2>3. k = old
    BY <1>16 DEF Trimmed
  <2> HIDE DEF p, m, k
  <2>4. p \in Rectangles /\ m \in Rectangles /\ k \in Rectangles
    BY <1>16, <2>1, <2>2, <2>3
       DEF Meet, Rectangles, Rectangle, Right, Bottom, LeftOf, RightOf, Above, Below
  <2>5. ASSUME NEW a \in Int, NEW b \in Int
        PROVE  /\ At(p, a, b) \/ At(m, a, b) \/ At(k, a, b)
                      <=> At(old, a, b) \/ At(new, a, b)
               /\ ~(At(p, a, b) /\ At(m, a, b))
               /\ ~(At(p, a, b) /\ At(k, a, b))
               /\ ~(At(m, a, b) /\ At(k, a, b))
               /\ At(k, a, b) => At(old, a, b)
    BY <1>16, <2>1, <2>2, <2>3
       DEF Meet, At, Rectangles, Rectangle, Right, Bottom, LeftOf, RightOf, Above, Below
  <2>6. IsEmpty(k) => IsEmpty(p)
    BY <1>16, <2>1, <2>3 DEF Meet, Rectangles, Rectangle, IsEmpty
  <2>7. Cut(old, new, p, m, k)
    BY <2>4, <2>5, <2>6 DEF Cut
  <2> QED BY <2>7 DEF p, m, k
<1> QED
  BY <1>1, <1>2, <1>3, <1>4, <1>5, <1>6, <1>7, <1>8, <1>9, <1>10, <1>11, <1>12, <1>13, <1>14, <1>15, <1>16
(* Lists of rectangles that do not overlap, without their first one and     *)
(* with another one before them.                                            *)
LEMMA RestOfList ==
  ASSUME NEW list \in Lists, list # <<>>
  PROVE  /\ Head(list) \in Rectangles /\ Tail(list) \in Lists
         /\ Len(list) \in Nat /\ Len(Tail(list)) = Len(list) - 1
         /\ Pixels(list) = Cells(Head(list)) \cup Pixels(Tail(list))
         /\ Cells(Head(list)) \cap Pixels(Tail(list)) = {}
<1>1. list \in Seq(Rectangles) /\ Disjoint(list)
  BY DEF Lists
<1> DEFINE rest == Tail(list)
<1>2. /\ Len(list) \in Nat /\ Len(list) > 0 /\ DOMAIN list = 1..Len(list)
      /\ Head(list) = list[1] /\ list[1] \in Rectangles
      /\ rest \in Seq(Rectangles) /\ Len(rest) = Len(list) - 1
      /\ DOMAIN rest = 1..(Len(list) - 1)
      /\ \A k \in 1..(Len(list) - 1) : rest[k] = list[k + 1]
  BY <1>1
<1> HIDE DEF rest
<1>3. Disjoint(rest)
  <2> SUFFICES ASSUME NEW j \in DOMAIN rest, NEW k \in DOMAIN rest, j # k
               PROVE  Cells(rest[j]) \cap Cells(rest[k]) = {}
    BY DEF Disjoint
  <2>1. j + 1 \in DOMAIN list /\ k + 1 \in DOMAIN list /\ j + 1 # k + 1
    BY <1>2
  <2>2. rest[j] = list[j + 1] /\ rest[k] = list[k + 1]
    BY <1>2
  <2> QED BY <1>1, <2>1, <2>2 DEF Disjoint
<1>4. \A k \in DOMAIN list : k = 1 \/ (k - 1 \in DOMAIN rest /\ rest[k - 1] = list[k])
  BY <1>2
<1>5. \A k \in DOMAIN rest : k + 1 \in DOMAIN list /\ k + 1 # 1 /\ rest[k] = list[k + 1]
  BY <1>2
<1>6. 1 \in DOMAIN list
  BY <1>2
<1>7. Pixels(list) = Cells(Head(list)) \cup Pixels(rest)
  <2>1. ASSUME NEW c \in Pixels(list) PROVE c \in Cells(Head(list)) \cup Pixels(rest)
    <3>1. PICK k \in DOMAIN list : c \in Cells(list[k])
      BY <2>1 DEF Pixels
    <3> QED BY <3>1, <1>4, <1>2 DEF Pixels
  <2>2. ASSUME NEW c \in Cells(Head(list)) \cup Pixels(rest) PROVE c \in Pixels(list)
    <3>1. CASE c \in Cells(Head(list))
      BY <3>1, <1>2, <1>6 DEF Pixels
    <3>2. CASE c \in Pixels(rest)
      <4>1. PICK k \in DOMAIN rest : c \in Cells(rest[k])
        BY <3>2 DEF Pixels
      <4> QED BY <4>1, <1>5 DEF Pixels
    <3> QED BY <3>1, <3>2, <2>2
  <2> QED BY <2>1, <2>2
<1>8. Cells(Head(list)) \cap Pixels(rest) = {}
  <2> SUFFICES ASSUME NEW c, c \in Cells(Head(list)), c \in Pixels(rest) PROVE FALSE
    OBVIOUS
  <2>1. PICK k \in DOMAIN rest : c \in Cells(rest[k])
    BY DEF Pixels
  <2>2. Cells(list[1]) \cap Cells(list[k + 1]) = {}
    BY <1>1, <1>5, <1>6 DEF Disjoint
  <2> QED BY <2>1, <2>2, <1>2, <1>5
<1> QED BY <1>1, <1>2, <1>3, <1>7, <1>8 DEF Lists, rest

LEMMA ListWithFirst ==
  ASSUME NEW r \in Rectangles, NEW list \in Lists, Cells(r) \cap Pixels(list) = {}
  PROVE  /\ <<r>> \o list \in Lists
         /\ Pixels(<<r>> \o list) = Cells(r) \cup Pixels(list)
<1> DEFINE all == <<r>> \o list
<1>1. list \in Seq(Rectangles) /\ Disjoint(list) /\ Len(list) \in Nat
      /\ DOMAIN list = 1..Len(list)
  BY DEF Lists
<1>2. /\ all \in Seq(Rectangles) /\ Len(all) = Len(list) + 1
      /\ DOMAIN all = 1..(Len(list) + 1) /\ all[1] = r
      /\ \A k \in 1..Len(list) : all[k + 1] = list[k]
  BY <1>1
<1> HIDE DEF all
<1>3. \A k \in DOMAIN all :
          k = 1 \/ (k # 1 /\ k - 1 \in DOMAIN list /\ all[k] = list[k - 1])
  <2> SUFFICES ASSUME NEW k \in DOMAIN all, k # 1
               PROVE  k - 1 \in DOMAIN list /\ all[k] = list[k - 1]
    OBVIOUS
  <2>1. k - 1 \in 1..Len(list) /\ (k - 1) + 1 = k
    BY <1>1, <1>2
  <2> QED BY <2>1, <1>1, <1>2
<1>4. \A k \in DOMAIN list : k + 1 \in DOMAIN all /\ all[k + 1] = list[k]
  BY <1>1, <1>2
<1>5. 1 \in DOMAIN all
  BY <1>1, <1>2
<1>6. \A k \in DOMAIN list : Cells(list[k]) \subseteq Pixels(list)
  BY DEF Pixels
<1>7. Disjoint(all)
  <2> SUFFICES ASSUME NEW j \in DOMAIN all, NEW k \in DOMAIN all, j # k
               PROVE  Cells(all[j]) \cap Cells(all[k]) = {}
    BY DEF Disjoint
  <2>1. CASE j = 1
    BY <2>1, <1>2, <1>3, <1>6
  <2>2. CASE k = 1
    BY <2>2, <1>2, <1>3, <1>6
  <2>3. CASE j # 1 /\ k # 1
    <3>1. j - 1 \in DOMAIN list /\ k - 1 \in DOMAIN list
          /\ all[j] = list[j - 1] /\ all[k] = list[k - 1]
      BY <2>3, <1>3
    <3>2. j - 1 # k - 1
      BY <1>2
    <3> QED BY <3>1, <3>2, <1>1 DEF Disjoint
  <2> QED BY <2>1, <2>2, <2>3
<1>8. Pixels(all) = Cells(r) \cup Pixels(list)
  <2>1. ASSUME NEW c \in Pixels(all) PROVE c \in Cells(r) \cup Pixels(list)
    <3>1. PICK k \in DOMAIN all : c \in Cells(all[k])
      BY <2>1 DEF Pixels
    <3> QED BY <3>1, <1>2, <1>3, <1>6
  <2>2. ASSUME NEW c \in Cells(r) PROVE c \in Pixels(all)
    BY <2>2, <1>2, <1>5 DEF Pixels
  <2>3. ASSUME NEW c \in Pixels(list) PROVE c \in Pixels(all)
    <3>1. PICK k \in DOMAIN list : c \in Cells(list[k])
      BY <2>3 DEF Pixels
    <3> QED BY <3>1, <1>4 DEF Pixels
  <2> QED BY <2>1, <2>2, <2>3
<1> QED BY <1>2, <1>7, <1>8 DEF Lists, all

LEMMA EmptyList == <<>> \in Lists /\ Pixels(<<>>) = {}
<1>1. DOMAIN <<>> = {}
  OBVIOUS
<1> QED BY <1>1 DEF Lists, Disjoint, Pixels

LEMMA PixelsAreFinite == \A list \in Lists : IsFiniteSet(Pixels(list))
<1> DEFINE P == {n \in Nat : \A list \in Lists : Len(list) = n => IsFiniteSet(Pixels(list))}
<1>1. 0 \in P
  <2> SUFFICES ASSUME NEW list \in Lists, Len(list) = 0 PROVE IsFiniteSet(Pixels(list))
    OBVIOUS
  <2>1. list = <<>>
    BY DEF Lists
  <2> QED BY <2>1, EmptyList, FS_EmptySet
<1>2. ASSUME NEW n \in Nat, n \in P PROVE n + 1 \in P
  <2> SUFFICES ASSUME NEW list \in Lists, Len(list) = n + 1 PROVE IsFiniteSet(Pixels(list))
    OBVIOUS
  <2>1. list # <<>>
    BY DEF Lists
  <2>2. Tail(list) \in Lists /\ Len(Tail(list)) = n /\ Head(list) \in Rectangles
        /\ Pixels(list) = Cells(Head(list)) \cup Pixels(Tail(list))
    BY <2>1, RestOfList
  <2>3. IsFiniteSet(Cells(Head(list))) /\ IsFiniteSet(Pixels(Tail(list)))
    BY <2>2, <1>2, CellsAre
  <2> QED BY <2>2, <2>3, FS_Union
<1> HIDE DEF P
<1>3. \A n \in Nat : n \in P
  BY <1>1, <1>2, NumbersInduction
<1>4. \A list \in Lists : Len(list) \in Nat
  BY DEF Lists
<1> QED BY <1>3, <1>4 DEF P

(* The order in which a merge ends: its recursive calls are about fewer     *)
(* pixels, or about no more of them and a shorter list.                     *)
Size(list, r) == Cardinality(Pixels(list) \cup Cells(r))

Less(l, q, list, r) ==
    \/ Size(l, q) < Size(list, r)
    \/ Size(l, q) <= Size(list, r) /\ Len(l) < Len(list)

LEMMA SizesAre ==
  ASSUME NEW list \in Lists, NEW r \in Rectangles
  PROVE  Size(list, r) \in Nat /\ Len(list) \in Nat /\ IsFiniteSet(Pixels(list) \cup Cells(r))
<1>1. IsFiniteSet(Pixels(list)) /\ IsFiniteSet(Cells(r))
  BY PixelsAreFinite, CellsAre
<1>2. IsFiniteSet(Pixels(list) \cup Cells(r))
  BY <1>1, FS_Union
<1>3. Len(list) \in Nat
  BY DEF Lists
<1> QED BY <1>2, <1>3, FS_CardinalityType DEF Size

LEMMA FewerPixels ==
  ASSUME NEW list \in Lists, NEW r \in Rectangles, NEW l \in Lists, NEW q \in Rectangles,
         Pixels(l) \cup Cells(q) \subseteq Pixels(list) \cup Cells(r)
  PROVE  /\ Size(l, q) <= Size(list, r)
         /\ Pixels(l) \cup Cells(q) # Pixels(list) \cup Cells(r) => Size(l, q) < Size(list, r)
<1>1. /\ Size(l, q) \in Nat /\ Size(list, r) \in Nat
      /\ IsFiniteSet(Pixels(list) \cup Cells(r))
  BY SizesAre
<1> DEFINE S == Pixels(list) \cup Cells(r)
           T == Pixels(l) \cup Cells(q)
<1>2. IsFiniteSet(S) /\ T \in SUBSET S /\ Size(l, q) = Cardinality(T)
      /\ Size(list, r) = Cardinality(S)
  BY <1>1 DEF Size
<1> HIDE DEF S, T
<1>3. Cardinality(T) <= Cardinality(S) /\ (Cardinality(S) = Cardinality(T) => S = T)
  BY <1>2, FS_Subset
<1>4. T = Pixels(l) \cup Cells(q) /\ S = Pixels(list) \cup Cells(r)
  BY DEF S, T
<1> QED BY <1>1, <1>2, <1>3, <1>4

(* What a merge is to give: the pixels of both, each once.                  *)
Merged(list, r, t) ==
    /\ t \in Lists
    /\ Pixels(t) = Pixels(list) \cup Cells(r)
    /\ IsEmpty(r) => t = list

LEMMA CellsOfCut ==
  ASSUME NEW old \in Rectangles, NEW new \in Rectangles, NEW p, NEW m, NEW k,
         Cut(old, new, p, m, k)
  PROVE  /\ Cells(p) \cup Cells(m) \cup Cells(k) = Cells(old) \cup Cells(new)
         /\ Cells(p) \cap Cells(m) = {} /\ Cells(p) \cap Cells(k) = {}
         /\ Cells(m) \cap Cells(k) = {} /\ Cells(k) \subseteq Cells(old)
<1>1. p \in Rectangles /\ m \in Rectangles /\ k \in Rectangles
  BY DEF Cut
<1>2. \A r \in {old, new, p, m, k} :
          /\ Cells(r) \subseteq Int \X Int
          /\ \A a, b \in Int : <<a, b>> \in Cells(r) <=> At(r, a, b)
  BY <1>1, CellsAre
<1>3. \A r \in {old, new, p, m, k} : Cells(r) \subseteq Int \X Int
  BY <1>2
<1>4. ASSUME NEW a \in Int, NEW b \in Int
      PROVE  LET c == <<a, b>>
             IN  /\ c \in Cells(p) \/ c \in Cells(m) \/ c \in Cells(k)
                        <=> c \in Cells(old) \/ c \in Cells(new)
                 /\ ~(c \in Cells(p) /\ c \in Cells(m))
                 /\ ~(c \in Cells(p) /\ c \in Cells(k))
                 /\ ~(c \in Cells(m) /\ c \in Cells(k))
                 /\ c \in Cells(k) => c \in Cells(old)
  BY <1>2, <1>4 DEF Cut
<1>5. ASSUME NEW c \in Int \X Int
      PROVE  /\ c \in Cells(p) \/ c \in Cells(m) \/ c \in Cells(k)
                    <=> c \in Cells(old) \/ c \in Cells(new)
             /\ ~(c \in Cells(p) /\ c \in Cells(m))
             /\ ~(c \in Cells(p) /\ c \in Cells(k))
             /\ ~(c \in Cells(m) /\ c \in Cells(k))
             /\ c \in Cells(k) => c \in Cells(old)
  <2>1. PICK a \in Int, b \in Int : c = <<a, b>>
    OBVIOUS
  <2> QED BY <2>1, <1>4
<1> QED BY <1>3, <1>5

LEMMA CoveredCells ==
  ASSUME NEW r \in Rectangles, NEW q \in Rectangles,
         \A a, b \in Int : At(r, a, b) => At(q, a, b)
  PROVE  Cells(r) \subseteq Cells(q)
<1> SUFFICES ASSUME NEW c, c \in Cells(r) PROVE c \in Cells(q)
  OBVIOUS
<1>1. PICK a \in Int, b \in Int : c = <<a, b>>
  BY CellsAre
<1>2. At(r, a, b)
  BY <1>1, CellsAre
<1> QED BY <1>1, <1>2, CellsAre

(* The arms of the call, by the edges.                                      *)
Arms(merge, list, new, old, rest, edges) ==
    /\ edges \in NoEdges => MergeBy(merge, list, new) = list
    /\ edges \notin NoEdges /\ edges \in AllEdges
           => MergeBy(merge, list, new) = merge[<<rest, new>>]
    /\ edges \notin NoEdges /\ edges \notin AllEdges /\ edges \in Exact
           => MergeBy(merge, list, new) = merge[<<rest, Extended(old, new, edges)>>]
    /\ edges \notin NoEdges /\ edges \notin AllEdges /\ edges \notin Exact
           => MergeBy(merge, list, new) =
                  <<Trimmed(old, new, edges)>>
                      \o merge[<<merge[<<rest, Piece(old, new, edges)>>],
                                 Remainder(old, new, edges)>>]

LEMMA ArmsOfMerge ==
  ASSUME NEW f, NEW list, NEW new, ~IsEmpty(new), list # <<>>,
         NEW old, old = Head(list), NEW rest, rest = Tail(list), NEW edges,
         edges = IF IsEmpty(old) THEN <<"both", "both">> ELSE FindOverlap(old, new)
  PROVE  Arms(f, list, new, old, rest, edges)
<1> DEFINE a == f[<<rest, new>>]
           b == f[<<rest, Extended(old, new, edges)>>]
           c == <<Trimmed(old, new, edges)>>
                    \o f[<<f[<<rest, Piece(old, new, edges)>>],
                           Remainder(old, new, edges)>>]
           merged == MergeBy(f, list, new)
<1>1. merged = CASE edges \in NoEdges  -> list
                 [] edges \in AllEdges -> a
                 [] edges \in Exact    -> b
                 [] OTHER              -> c
  BY DEF MergeBy
<1>2. ~(edges \in AllEdges /\ edges \in Exact) /\ ~(edges \in AllEdges /\ edges \in NoEdges)
      /\ ~(edges \in NoEdges /\ edges \in Exact)
  BY DEF AllEdges, Exact, NoEdges
<1> HIDE DEF a, b, c, merged
<1>3. /\ edges \in NoEdges => merged = list
      /\ edges \notin NoEdges /\ edges \in AllEdges => merged = a
      /\ edges \notin NoEdges /\ edges \notin AllEdges /\ edges \in Exact => merged = b
      /\ edges \notin NoEdges /\ edges \notin AllEdges /\ edges \notin Exact => merged = c
  BY <1>1, <1>2
<1> QED BY <1>3 DEF Arms, a, b, c, merged

(* One call of merge_rectangle_with_sub_list: it gives what it is to give,  *)
(* if the calls that it makes do, and depends on no others.                 *)
LEMMA MergeGoesOn ==
  ASSUME NEW list \in Lists, NEW new \in Rectangles, NEW f, NEW g,
         \A l \in Lists, q \in Rectangles : Less(l, q, list, new) =>
             f[<<l, q>>] = g[<<l, q>>] /\ Merged(l, q, f[<<l, q>>])
  PROVE  /\ MergeBy(f, list, new) = MergeBy(g, list, new)
         /\ Merged(list, new, MergeBy(f, list, new))
<1>1. CASE IsEmpty(new)
  <2>1. MergeBy(f, list, new) = list /\ MergeBy(g, list, new) = list
    BY <1>1 DEF MergeBy
  <2>2. Cells(new) = {}
    BY <1>1, CellsAre
  <2> QED BY <2>1, <2>2 DEF Merged
<1>2. CASE ~IsEmpty(new) /\ list = <<>>
  <2>1. MergeBy(f, list, new) = <<new>> /\ MergeBy(g, list, new) = <<new>>
    BY <1>2 DEF MergeBy
  <2>2. <<new>> \o <<>> = <<new>>
    BY ConcatEmptySeq, <<new>> \in Seq(Rectangles)
  <2>3. <<new>> \in Lists /\ Pixels(<<new>>) = Cells(new) \cup {}
    BY <2>2, EmptyList, ListWithFirst
  <2> QED BY <1>2, <2>1, <2>3, EmptyList DEF Merged
<1>3. CASE ~IsEmpty(new) /\ list # <<>>
  <2> DEFINE old == Head(list)
             rest == Tail(list)
  <2>1. /\ old \in Rectangles /\ rest \in Lists
        /\ Len(list) \in Nat /\ Len(rest) = Len(list) - 1
        /\ Pixels(list) = Cells(old) \cup Pixels(rest)
        /\ Cells(old) \cap Pixels(rest) = {}
    BY <1>3, RestOfList
  <2> DEFINE edges == IF IsEmpty(old) THEN <<"both", "both">> ELSE FindOverlap(old, new)
  <2>11. /\ old = Head(list) /\ rest = Tail(list)
         /\ edges = IF IsEmpty(old) THEN <<"both", "both">> ELSE FindOverlap(old, new)
    OBVIOUS
  <2> HIDE DEF old, rest, edges
  <2>12. Arms(f, list, new, old, rest, edges) /\ Arms(g, list, new, old, rest, edges)
    BY <1>3, <2>11, ArmsOfMerge
  <2>2. Len(rest) < Len(list)
    BY <2>1
  <2>3. ASSUME NEW q \in Rectangles, Cells(q) \subseteq Cells(old) \cup Cells(new)
        PROVE  f[<<rest, q>>] = g[<<rest, q>>] /\ Merged(rest, q, f[<<rest, q>>])
    <3>1. Pixels(rest) \cup Cells(q) \subseteq Pixels(list) \cup Cells(new)
      BY <2>1, <2>3
    <3>2. Less(rest, q, list, new)
      BY <3>1, <2>1, <2>2, FewerPixels DEF Less
    <3> QED BY <3>2, <2>1
  <2>4. CASE IsEmpty(old)
    <3>1. MergeBy(f, list, new) = f[<<rest, new>>] /\ MergeBy(g, list, new) = g[<<rest, new>>]
      <4>1. edges \in AllEdges /\ edges \notin NoEdges
        BY <2>4, <2>11 DEF AllEdges, NoEdges
      <4> QED BY <4>1, <2>12 DEF Arms
    <3>2. Cells(old) = {}
      BY <2>1, <2>4, CellsAre
    <3> QED BY <1>3, <2>1, <2>3, <3>1, <3>2 DEF Merged
  <2>5. CASE ~IsEmpty(old)
    <3>1. PICK h, v : edges = <<h, v>> /\ Meet(old, new, h, v)
      BY <1>3, <2>1, <2>5, <2>11, OverlapsAre
    <3>2. CASE <<h, v>> \in NoEdges
      <4>1. MergeBy(f, list, new) = list /\ MergeBy(g, list, new) = list
        BY <2>12, <3>1, <3>2 DEF Arms
      <4>2. \A a, b \in Int : At(new, a, b) => At(old, a, b)
        BY <3>1, <3>2, InsideIsThere
      <4>3. Cells(new) \subseteq Cells(old)
        BY <2>1, <4>2, CoveredCells
      <4> QED BY <2>1, <4>1, <4>3 DEF Merged
    <3>3. CASE <<h, v>> \in AllEdges
      <4>1. <<h, v>> \notin NoEdges
        BY <3>3 DEF AllEdges, NoEdges
      <4>2. MergeBy(f, list, new) = f[<<rest, new>>] /\ MergeBy(g, list, new) = g[<<rest, new>>]
        BY <2>12, <3>1, <3>3, <4>1 DEF Arms
      <4>3. \A a, b \in Int : At(old, a, b) => At(new, a, b)
        BY <3>1, <3>3, CoveredIsThere
      <4>4. Cells(old) \subseteq Cells(new)
        BY <2>1, <4>3, CoveredCells
      <4> QED BY <1>3, <2>1, <2>3, <4>2, <4>4 DEF Merged
    <3>4. CASE <<h, v>> \in Exact
      <4> DEFINE e == Extended(old, new, <<h, v>>)
      <4>1. <<h, v>> \notin NoEdges /\ <<h, v>> \notin AllEdges
        BY <3>4 DEF AllEdges, NoEdges, Exact
      <4>2. MergeBy(f, list, new) = f[<<rest, e>>] /\ MergeBy(g, list, new) = g[<<rest, e>>]
        BY <2>12, <3>1, <3>4, <4>1 DEF Arms
      <4>3. e \in Rectangles /\ \A a, b \in Int : At(e, a, b) <=> At(old, a, b) \/ At(new, a, b)
        BY <2>1, <3>1, <3>4, ExtendedIsBoth
      <4> HIDE DEF e
      <4>4. Cells(e) = Cells(old) \cup Cells(new)
        <5>1. Cells(old) \subseteq Cells(e) /\ Cells(new) \subseteq Cells(e)
          BY <2>1, <4>3, CoveredCells
        <5>2. ASSUME NEW c \in Cells(e) PROVE c \in Cells(old) \cup Cells(new)
          <6>1. PICK a \in Int, b \in Int : c = <<a, b>>
            BY <4>3, CellsAre
          <6>2. At(old, a, b) \/ At(new, a, b)
            BY <6>1, <4>3, CellsAre
          <6> QED BY <6>1, <6>2, <2>1, CellsAre
        <5> QED BY <5>1, <5>2
      <4> QED BY <1>3, <2>1, <2>3, <4>2, <4>3, <4>4 DEF Merged
    <3>5. CASE <<h, v>> \notin NoEdges /\ <<h, v>> \notin AllEdges /\ <<h, v>> \notin Exact
      <4> DEFINE p == Piece(old, new, <<h, v>>)
                 m == Remainder(old, new, <<h, v>>)
                 k == Trimmed(old, new, <<h, v>>)
                 t == f[<<rest, p>>]
      <4>1. /\ MergeBy(f, list, new) = <<k>> \o f[<<f[<<rest, p>>], m>>]
            /\ MergeBy(g, list, new) = <<k>> \o g[<<g[<<rest, p>>], m>>]
        BY <2>12, <3>1, <3>5 DEF Arms
      <4>2. Cut(old, new, p, m, k)
        BY <2>1, <3>1, <3>5, PartsAreCut
      <4> HIDE DEF p, m, k
      <4>3. p \in Rectangles /\ m \in Rectangles /\ k \in Rectangles
            /\ (IsEmpty(k) => IsEmpty(p))
        BY <4>2 DEF Cut
      <4>4. /\ Cells(p) \cup Cells(m) \cup Cells(k) = Cells(old) \cup Cells(new)
            /\ Cells(p) \cap Cells(m) = {} /\ Cells(p) \cap Cells(k) = {}
            /\ Cells(m) \cap Cells(k) = {} /\ Cells(k) \subseteq Cells(old)
        BY <2>1, <4>2, CellsOfCut
      <4>5. t = g[<<rest, p>>] /\ Merged(rest, p, t)
        BY <2>3, <4>3, <4>4
      <4> HIDE DEF t
      <4>6. t \in Lists /\ Pixels(t) = Pixels(rest) \cup Cells(p)
        BY <4>5 DEF Merged
      <4>7. Pixels(t) \cup Cells(m) \subseteq Pixels(list) \cup Cells(new)
        BY <2>1, <4>4, <4>6
      <4>8. Less(t, m, list, new)
        <5>1. Size(t, m) <= Size(list, new)
          BY <4>3, <4>6, <4>7, FewerPixels
        <5>2. CASE IsEmpty(k)
          <6>1. t = rest
            BY <4>3, <4>5, <5>2 DEF Merged
          <6> QED BY <2>2, <5>1, <6>1 DEF Less
        <5>3. CASE ~IsEmpty(k)
          <6>1. Cells(k) # {}
            BY <4>3, <5>3, CellsAre
          <6>2. Pixels(t) \cup Cells(m) # Pixels(list) \cup Cells(new)
            BY <6>1, <2>1, <4>4, <4>6
          <6>3. Size(t, m) < Size(list, new)
            BY <4>3, <4>6, <4>7, <6>2, FewerPixels
          <6> QED BY <6>3 DEF Less
        <5> QED BY <5>2, <5>3
      <4> DEFINE u == f[<<t, m>>]
      <4>9. u = g[<<t, m>>] /\ Merged(t, m, u)
        BY <4>3, <4>6, <4>8
      <4>10. MergeBy(f, list, new) = <<k>> \o u /\ MergeBy(g, list, new) = <<k>> \o u
        BY <4>1, <4>5, <4>9 DEF t
      <4> HIDE DEF u
      <4>11. u \in Lists /\ Pixels(u) = Pixels(rest) \cup Cells(p) \cup Cells(m)
        BY <4>6, <4>9 DEF Merged
      <4>12. Cells(k) \cap Pixels(u) = {}
        BY <2>1, <4>4, <4>11
      <4>13. /\ <<k>> \o u \in Lists
             /\ Pixels(<<k>> \o u) = Cells(k) \cup Pixels(u)
        BY <4>3, <4>11, <4>12, ListWithFirst
      <4>14. Pixels(<<k>> \o u) = Pixels(list) \cup Cells(new)
        BY <2>1, <4>4, <4>11, <4>13
      <4> QED BY <1>3, <4>10, <4>13, <4>14 DEF Merged
    <3> QED BY <3>2, <3>3, <3>4, <3>5
  <2> QED BY <2>4, <2>5
<1> QED BY <1>1, <1>2, <1>3

(* The recursion of a merge is well-founded, so that there is a function    *)
(* that does what merge_rectangle_with_sub_list does.                       *)
Calls == Lists \X Rectangles

Before(d, c) == Less(d[1], d[2], c[1], c[2])

Upto(c) == {d \in Calls : d = c \/ Before(d, c)}

Solves(f, c) == f = [d \in Upto(c) |-> MergeBy(f, d[1], d[2])]

LEMMA LeastNumber ==
  ASSUME NEW N \in SUBSET Nat, N # {}
  PROVE  \E n \in N : \A m \in N : n <= m
<1>1. PICK n \in N : \A m \in N : ~(<<m, n>> \in OpToRel(<, Nat))
  BY NatLessThanWellFounded, WFMin
<1>2. ASSUME NEW m \in N, m < n PROVE FALSE
  <2>1. <<m, n>> \in OpToRel(<, Nat)
    BY <1>2 DEF OpToRel
  <2> QED BY <2>1, <1>1
<1>3. \A m \in N : ~(m < n)
  BY <1>2
<1>4. \A m \in N : m \in Nat /\ n \in Nat
  OBVIOUS
<1> QED BY <1>3, <1>4

LEMMA CallsAre ==
  ASSUME NEW c \in Calls
  PROVE  /\ c[1] \in Lists /\ c[2] \in Rectangles /\ c = <<c[1], c[2]>>
         /\ Size(c[1], c[2]) \in Nat /\ Len(c[1]) \in Nat
<1>1. c[1] \in Lists /\ c[2] \in Rectangles /\ c = <<c[1], c[2]>>
  BY DEF Calls
<1> QED BY <1>1, SizesAre

LEMMA BeforeIsTransitive ==
  ASSUME NEW c \in Calls, NEW d \in Calls, NEW e \in Calls, Before(e, d), Before(d, c)
  PROVE  Before(e, c)
<1> DEFINE S(x) == Size(x[1], x[2])
           L(x) == Len(x[1])
<1>1. /\ S(c) \in Nat /\ S(d) \in Nat /\ S(e) \in Nat
      /\ L(c) \in Nat /\ L(d) \in Nat /\ L(e) \in Nat
  BY CallsAre
<1>2. /\ S(e) < S(d) \/ (S(e) <= S(d) /\ L(e) < L(d))
      /\ S(d) < S(c) \/ (S(d) <= S(c) /\ L(d) < L(c))
  BY DEF Before, Less
<1>3. Before(e, c) <=> S(e) < S(c) \/ (S(e) <= S(c) /\ L(e) < L(c))
  BY DEF Before, Less
<1> HIDE DEF S, L
<1> QED BY <1>1, <1>2, <1>3

LEMMA LeastCall ==
  ASSUME NEW B \in SUBSET Calls, B # {}
  PROVE  \E c \in B : \A d \in B : ~Before(d, c)
<1> DEFINE S(x) == Size(x[1], x[2])
           L(x) == Len(x[1])
<1>1. \A c \in B : S(c) \in Nat /\ L(c) \in Nat
  BY CallsAre
<1>2. \A c, d \in B : Before(d, c) => S(d) < S(c) \/ (S(d) <= S(c) /\ L(d) < L(c))
  BY DEF Before, Less
<1> HIDE DEF S, L
<1> DEFINE N == {S(c) : c \in B}
<1>3. PICK n \in N : \A m \in N : n <= m
  <2>1. N \in SUBSET Nat /\ N # {}
    BY <1>1
  <2> QED BY <2>1, LeastNumber
<1> DEFINE M == {L(c) : c \in {d \in B : S(d) = n}}
<1>4. PICK k \in M : \A m \in M : k <= m
  <2>1. M \in SUBSET Nat /\ M # {}
    BY <1>1, <1>3
  <2> QED BY <2>1, LeastNumber
<1>5. PICK c \in B : S(c) = n /\ L(c) = k
  BY <1>4
<1>6. ASSUME NEW d \in B, Before(d, c) PROVE FALSE
  <2>1. n <= S(d) /\ S(d) \in Nat /\ L(d) \in Nat /\ n \in Nat /\ k \in Nat
    BY <1>1, <1>3, <1>5
  <2>2. S(d) < n \/ (S(d) <= n /\ L(d) < k)
    BY <1>2, <1>5, <1>6
  <2>3. S(d) = n /\ L(d) < k
    BY <2>1, <2>2
  <2>4. k <= L(d)
    BY <1>4, <2>3
  <2> QED BY <2>1, <2>3, <2>4
<1> QED BY <1>5, <1>6

(* A function that solves the recursion where it is called gives the        *)
(* pixels, and two of them agree.                                           *)
LEMMA SolutionsAgree ==
  ASSUME NEW D \in SUBSET Calls, \A c \in D, d \in Calls : Before(d, c) => d \in D,
         NEW f, \A c \in D : f[c] = MergeBy(f, c[1], c[2]),
         NEW g, \A c \in D : g[c] = MergeBy(g, c[1], c[2])
  PROVE  \A c \in D : f[c] = g[c] /\ Merged(c[1], c[2], f[c])
<1> DEFINE B == {c \in D : ~(f[c] = g[c] /\ Merged(c[1], c[2], f[c]))}
<1>1. SUFFICES ASSUME B # {} PROVE FALSE
  OBVIOUS
<1>2. PICK c \in B : \A d \in B : ~Before(d, c)
  BY <1>1, LeastCall
<1>3. c \in D /\ c \in Calls
  BY <1>2
<1>4. ASSUME NEW l \in Lists, NEW q \in Rectangles, Less(l, q, c[1], c[2])
      PROVE  f[<<l, q>>] = g[<<l, q>>] /\ Merged(l, q, f[<<l, q>>])
  <2> DEFINE d == <<l, q>>
  <2>1. d \in Calls /\ d[1] = l /\ d[2] = q
    BY DEF Calls
  <2>2. Before(d, c)
    BY <1>4, <2>1 DEF Before
  <2>3. d \in D /\ d \notin B
    BY <1>2, <1>3, <2>1, <2>2
  <2> QED BY <2>1, <2>3
<1>5. c[1] \in Lists /\ c[2] \in Rectangles
  BY <1>3, CallsAre
<1>6. /\ MergeBy(f, c[1], c[2]) = MergeBy(g, c[1], c[2])
      /\ Merged(c[1], c[2], MergeBy(f, c[1], c[2]))
  BY <1>4, <1>5, MergeGoesOn
<1>7. f[c] = g[c] /\ Merged(c[1], c[2], f[c])
  BY <1>3, <1>6
<1> QED BY <1>2, <1>7

LEMMA SolutionsMerge ==
  ASSUME NEW D \in SUBSET Calls, \A c \in D, d \in Calls : Before(d, c) => d \in D,
         NEW f, \A c \in D : f[c] = MergeBy(f, c[1], c[2])
  PROVE  \A c \in D : Merged(c[1], c[2], f[c])
<1>1. \A c \in D : f[c] = f[c] /\ Merged(c[1], c[2], f[c])
  BY SolutionsAgree
<1> QED BY <1>1

LEMMA UptoIsClosed ==
  ASSUME NEW c \in Calls
  PROVE  /\ c \in Upto(c) /\ Upto(c) \in SUBSET Calls
         /\ \A d \in Upto(c), e \in Calls : Before(e, d) => e \in Upto(c)
         /\ \A d \in Calls : Before(d, c) => d \in Upto(c) /\ Upto(d) \subseteq Upto(c)
BY BeforeIsTransitive DEF Upto

LEMMA SolutionsSolve ==
  ASSUME NEW c \in Calls, NEW f, Solves(f, c)
  PROVE  \A d \in Upto(c) : f[d] = MergeBy(f, d[1], d[2])
<1> DEFINE h == [d \in Upto(c) |-> MergeBy(f, d[1], d[2])]
<1>1. f = h
  BY DEF Solves
<1>2. \A d \in Upto(c) : h[d] = MergeBy(f, d[1], d[2])
  OBVIOUS
<1> HIDE DEF h
<1> QED BY <1>1, <1>2

(* What the solutions for the calls before one come to.                     *)
Solution(c) == CHOOSE f : Solves(f, c)

LEMMA SolutionsFit ==
  ASSUME NEW c \in Calls, \A d \in Calls : Before(d, c) => \E f : Solves(f, d),
         NEW f, \A d \in Calls : Before(d, c) => f[d] = Solution(d)[d]
  PROVE  /\ \A d \in Calls : Before(d, c) => f[d] = MergeBy(f, d[1], d[2])
         /\ \A d \in Calls : Before(d, c) => Merged(d[1], d[2], f[d])
<1> SUFFICES ASSUME NEW d \in Calls, Before(d, c)
             PROVE  f[d] = MergeBy(f, d[1], d[2]) /\ Merged(d[1], d[2], f[d])
  OBVIOUS
<1> DEFINE s == Solution(d)
<1>1. Solves(s, d)
  BY DEF Solution
<1> HIDE DEF s
<1>2. /\ d \in Upto(d) /\ Upto(d) \in SUBSET Calls
      /\ \A x \in Upto(d), y \in Calls : Before(y, x) => y \in Upto(d)
  BY UptoIsClosed
<1>3. \A x \in Upto(d) : s[x] = MergeBy(s, x[1], x[2])
  BY <1>1, SolutionsSolve
<1>4. \A x \in Upto(d) : Merged(x[1], x[2], s[x])
  BY <1>2, <1>3, SolutionsMerge
<1>5. ASSUME NEW x \in Calls, x = d \/ Before(x, d) PROVE s[x] = f[x] /\ x \in Upto(d)
  <2>1. Before(x, c)
    BY <1>5, BeforeIsTransitive
  <2>2. x \in Upto(d)
    BY <1>5 DEF Upto
  <2> DEFINE u == Solution(x)
  <2>3. Solves(u, x)
    BY <2>1 DEF Solution
  <2>4. f[x] = u[x]
    BY <2>1
  <2> HIDE DEF u
  <2>5. \A y \in Upto(x) : u[y] = MergeBy(u, y[1], y[2])
    BY <2>3, SolutionsSolve
  <2>6. /\ x \in Upto(x) /\ Upto(x) \in SUBSET Calls
        /\ \A y \in Upto(x), z \in Calls : Before(z, y) => z \in Upto(x)
    BY UptoIsClosed
  <2>7. Upto(x) \subseteq Upto(d)
    BY <1>5, UptoIsClosed
  <2>8. \A y \in Upto(x) : s[y] = MergeBy(s, y[1], y[2])
    BY <1>3, <2>7
  <2>9. \A y \in Upto(x) : s[y] = u[y]
    <3> DEFINE D == Upto(x)
    <3> HIDE DEF D
    <3>1. D \in SUBSET Calls
      BY <2>6 DEF D
    <3>2. \A y \in D, z \in Calls : Before(z, y) => z \in D
      BY <2>6 DEF D
    <3>3. \A y \in D : s[y] = MergeBy(s, y[1], y[2])
      BY <2>8 DEF D
    <3>4. \A y \in D : u[y] = MergeBy(u, y[1], y[2])
      BY <2>5 DEF D
    <3>5. \A y \in D : s[y] = u[y] /\ Merged(y[1], y[2], s[y])
      BY ONLY <3>1, <3>2, <3>3, <3>4, SolutionsAgree
    <3> QED BY <3>5 DEF D
  <2> QED BY <2>2, <2>4, <2>6, <2>9
<1>6. d[1] \in Lists /\ d[2] \in Rectangles
  BY CallsAre
<1>7. ASSUME NEW l \in Lists, NEW q \in Rectangles, Less(l, q, d[1], d[2])
      PROVE  s[<<l, q>>] = f[<<l, q>>] /\ Merged(l, q, s[<<l, q>>])
  <2> DEFINE x == <<l, q>>
  <2>1. x \in Calls /\ x[1] = l /\ x[2] = q
    BY DEF Calls
  <2>2. Before(x, d)
    BY <1>7, <2>1 DEF Before
  <2>3. s[x] = f[x] /\ Merged(x[1], x[2], s[x])
    BY <1>4, <1>5, <2>1, <2>2
  <2> QED BY <2>1, <2>3
<1>8. MergeBy(s, d[1], d[2]) = MergeBy(f, d[1], d[2])
  BY <1>6, <1>7, MergeGoesOn
<1>9. s[d] = f[d] /\ s[d] = MergeBy(s, d[1], d[2]) /\ Merged(d[1], d[2], s[d])
  BY <1>2, <1>3, <1>4, <1>5
<1> QED BY <1>8, <1>9

LEMMA SolutionExists == \A c \in Calls : \E f : Solves(f, c)
<1> DEFINE B == {c \in Calls : ~\E f : Solves(f, c)}
<1>1. SUFFICES ASSUME B # {} PROVE FALSE
  OBVIOUS
<1>2. PICK c \in B : \A d \in B : ~Before(d, c)
  BY <1>1, LeastCall
<1>3. \A d \in Calls : Before(d, c) => \E f : Solves(f, d)
  BY <1>2
<1> DEFINE g == [d \in Upto(c) |-> Solution(d)[d]]
           h == [d \in Upto(c) |-> IF d = c THEN MergeBy(g, c[1], c[2]) ELSE g[d]]
<1>4. c \in Calls /\ c[1] \in Lists /\ c[2] \in Rectangles /\ c \in Upto(c)
  BY <1>2, CallsAre, UptoIsClosed
<1>5. ~Before(c, c)
  BY <1>2
<1>6. \A d \in Calls : Before(d, c) => d \in Upto(c) /\ d # c
  BY <1>4, <1>5, UptoIsClosed
<1>7. \A d \in Calls : Before(d, c) => g[d] = Solution(d)[d] /\ h[d] = g[d]
  BY <1>6
<1>8. h[c] = MergeBy(g, c[1], c[2])
  BY <1>4
<1>9. h = [d \in Upto(c) |-> h[d]]
  OBVIOUS
<1>10. \A d \in Upto(c) : d \in Calls /\ (d = c \/ Before(d, c))
  BY DEF Upto
<1> HIDE DEF g, h
<1>11. \A d \in Calls : Before(d, c) => h[d] = Solution(d)[d]
  BY <1>7
<1>12. \A d \in Calls : Before(d, c) =>
           h[d] = MergeBy(h, d[1], d[2]) /\ Merged(d[1], d[2], h[d])
  BY <1>3, <1>4, <1>11, SolutionsFit
<1>13. ASSUME NEW l \in Lists, NEW q \in Rectangles, Less(l, q, c[1], c[2])
       PROVE  h[<<l, q>>] = g[<<l, q>>] /\ Merged(l, q, h[<<l, q>>])
  <2> DEFINE x == <<l, q>>
  <2>1. x \in Calls /\ x[1] = l /\ x[2] = q
    BY DEF Calls
  <2>2. Before(x, c)
    BY <1>13, <2>1 DEF Before
  <2>3. h[x] = g[x] /\ Merged(x[1], x[2], h[x])
    BY <1>7, <1>12, <2>1, <2>2
  <2> QED BY <2>1, <2>3
<1>14. MergeBy(h, c[1], c[2]) = MergeBy(g, c[1], c[2])
  BY <1>4, <1>13, MergeGoesOn
<1>15. \A d \in Upto(c) : h[d] = MergeBy(h, d[1], d[2])
  BY <1>8, <1>10, <1>12, <1>14
<1>16. h = [d \in Upto(c) |-> MergeBy(h, d[1], d[2])]
  BY <1>9, <1>15
<1>17. Solves(h, c)
  BY <1>16 DEF Solves
<1> QED BY <1>2, <1>17

LEMMA MergeIsDefined ==
  \E f : f = [c \in Calls |-> MergeBy(f, c[1], c[2])]
<1> DEFINE f == [c \in Calls |-> Solution(c)[c]]
<1>1. \A d \in Calls : f[d] = Solution(d)[d]
  OBVIOUS
<1>2. f = [c \in Calls |-> f[c]]
  OBVIOUS
<1> HIDE DEF f
<1>3. ASSUME NEW c \in Calls PROVE f[c] = MergeBy(f, c[1], c[2])
  <2> DEFINE s == Solution(c)
  <2>1. Solves(s, c)
    BY SolutionExists DEF Solution
  <2>2. f[c] = s[c]
    BY <1>1
  <2> HIDE DEF s
  <2>3. \A d \in Upto(c) : s[d] = MergeBy(s, d[1], d[2])
    BY <2>1, SolutionsSolve
  <2>4. c \in Upto(c) /\ c[1] \in Lists /\ c[2] \in Rectangles
    BY UptoIsClosed, CallsAre
  <2>5. \A d \in Calls : Before(d, c) =>
            f[d] = MergeBy(f, d[1], d[2]) /\ Merged(d[1], d[2], f[d])
    BY <1>1, SolutionExists, SolutionsFit
  <2>6. ASSUME NEW l \in Lists, NEW q \in Rectangles, Less(l, q, c[1], c[2])
        PROVE  f[<<l, q>>] = s[<<l, q>>] /\ Merged(l, q, f[<<l, q>>])
    <3> DEFINE x == <<l, q>>
    <3>1. x \in Calls /\ x[1] = l /\ x[2] = q
      BY DEF Calls
    <3>2. Before(x, c)
      BY <2>6, <3>1 DEF Before
    <3> DEFINE D == {d \in Calls : Before(d, c)}
    <3>3. D \in SUBSET Calls /\ x \in D
          /\ \A d \in D, e \in Calls : Before(e, d) => e \in D
      BY <3>1, <3>2, BeforeIsTransitive
    <3>4. \A d \in D : f[d] = MergeBy(f, d[1], d[2]) /\ s[d] = MergeBy(s, d[1], d[2])
      BY <2>3, <2>5, UptoIsClosed
    <3> HIDE DEF D
    <3>5. \A d \in D : f[d] = s[d] /\ Merged(d[1], d[2], f[d])
      BY <3>3, <3>4, SolutionsAgree
    <3> QED BY <3>1, <3>3, <3>5
  <2>7. MergeBy(f, c[1], c[2]) = MergeBy(s, c[1], c[2])
    BY <2>4, <2>6, MergeGoesOn
  <2> QED BY <2>2, <2>3, <2>4, <2>7
<1> QED BY <1>2, <1>3

(* However a rectangle lies to those of a region, merging it terminates and *)
(* gives a region that covers the pixels of both, each of them once         *)
(* (merge_rectangle_with_sub_list).                                         *)
THEOREM MergingIsExact ==
  ASSUME NEW list \in Lists, NEW r \in Rectangles
  PROVE  /\ AddRectangle(list, r) \in Lists
         /\ Pixels(AddRectangle(list, r)) = Pixels(list) \cup Cells(r)
<1> DEFINE merge == CHOOSE f : f = [c \in Calls |-> MergeBy(f, c[1], c[2])]
<1>1. merge = [c \in Calls |-> MergeBy(merge, c[1], c[2])]
  BY MergeIsDefined
<1>2. AddRectangle(list, r) = merge[<<list, r>>]
  BY DEF AddRectangle, Merge, Calls
<1> HIDE DEF merge
<1>3. \A c \in Calls : merge[c] = MergeBy(merge, c[1], c[2])
  <2> DEFINE h == [c \in Calls |-> MergeBy(merge, c[1], c[2])]
  <2>1. \A c \in Calls : h[c] = MergeBy(merge, c[1], c[2])
    OBVIOUS
  <2>2. merge = h
    BY <1>1
  <2> HIDE DEF h
  <2> QED BY <2>1, <2>2
<1>4. \A c \in Calls : Merged(c[1], c[2], merge[c])
  <2>1. Calls \in SUBSET Calls /\ \A c \in Calls, d \in Calls : Before(d, c) => d \in Calls
    OBVIOUS
  <2> QED BY <1>3, <2>1, SolutionsMerge
<1>5. <<list, r>> \in Calls
  BY DEF Calls
<1>6. Merged(list, r, merge[<<list, r>>])
  BY <1>4, <1>5
<1> QED BY <1>2, <1>6 DEF Merged

(* Whatever rectangles are added to a region, and in whatever order, it     *)
(* consists of the pixels that were added, each of them once                *)
(* (ply_region_add_rectangle).                                              *)
THEOREM RegionIsAlwaysExact == RegionSpec => []RegionIsExact
<1> DEFINE IsRegion == region \in Lists /\ owed = Pixels(region)
<1>1. RegionInit => IsRegion
  BY EmptyList DEF RegionInit
<1>2. IsRegion /\ [RegionNext]_<<region, owed>> => IsRegion'
  <2>1. ASSUME IsRegion, NEW r \in Areas, AddTo(r) PROVE IsRegion'
    <3>1. r \in Rectangles
      BY AreasAssumption
    <3> QED BY <2>1, <3>1, MergingIsExact DEF AddTo
  <2>2. ASSUME IsRegion, UNCHANGED <<region, owed>> PROVE IsRegion'
    BY <2>2
  <2> QED BY <2>1, <2>2 DEF RegionNext
<1>3. IsRegion => RegionIsExact
  BY DEF RegionIsExact, Lists
<1> QED BY <1>1, <1>2, <1>3, PTL DEF RegionSpec

=============================================================================
