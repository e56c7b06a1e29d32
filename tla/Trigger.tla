------------------------------ MODULE Trigger ------------------------------
(***************************************************************************)
(* ply_trigger_t (src/src/libply/ply-trigger.c): a list of handlers that a  *)
(* pull calls in the order in which they were added.  A handler that runs   *)
(* may add and remove handlers of the trigger it is called by, have the     *)
(* next pull ignored, and pull the trigger again; so pulls nest, and each   *)
(* of them holds pointers into the list the others change.                  *)
(*                                                                          *)
(* A closure is known by the order of its allocation.  Closures are only    *)
(* ever appended, so this is also the order of the list.                    *)
(***************************************************************************)
EXTENDS Integers

CONSTANTS
    Handler,        \* pairs of a function and its user_data
    Aborter,        \* instance handlers, which may abort a pull
    MaxClosures,    \* bound: the handlers ever added
    MaxDepth,       \* bound: the pulls that nest
    MaxIgnored      \* bound: the pulls ignored at a time

ASSUME TriggerAssumption ==
    /\ Aborter \subseteq Handler
    /\ MaxClosures \in Nat /\ MaxDepth \in Nat /\ MaxIgnored \in Nat

VARIABLES
    closures,       \* trigger->closures, the closures that are on the list
    last,           \* the closure allocated last
    handler,        \* of each closure
    disabled,       \* is_disabled
    ignored,        \* ignore_count
    depth,          \* pull_count
    node,           \* of each pull: the closure that runs, or 0
    next,           \* of each pull: next_node, 0 for NULL
    oneShot,        \* free_address is not NULL
    freed,          \* the trigger was freed
    wanted,         \* the handlers added and not removed since, as users see it
    orderly,        \* no handler was added again in the pull that removed it
    newest,         \* of each pull: last when it began
    called          \* of each pull: the closures it called

vars == <<closures, last, handler, disabled, ignored, depth, node, next,
          oneShot, freed, wanted, orderly, newest, called>>

-----------------------------------------------------------------------------
Closure == 1..MaxClosures
Pulls   == 1..depth
Enabled == closures \ disabled

TypeOK ==
    /\ closures \subseteq Closure /\ disabled \subseteq Closure
    /\ last \in 0..MaxClosures
    /\ handler \in [1..last -> Handler]
    /\ ignored \in 0..MaxIgnored
    /\ depth \in 0..MaxDepth
    /\ node \in [1..MaxDepth -> 0..MaxClosures]
    /\ next \in [1..MaxDepth -> 0..MaxClosures]
    /\ oneShot \in BOOLEAN /\ freed \in BOOLEAN /\ orderly \in BOOLEAN
    /\ wanted \subseteq Handler
    /\ newest \in [1..MaxDepth -> 0..MaxClosures]
    /\ called \in [1..MaxDepth -> SUBSET Closure]

Init ==
    /\ closures = {} /\ disabled = {} /\ last = 0
    /\ handler = [c \in {} |-> c]
    /\ ignored = 0 /\ depth = 0 /\ freed = FALSE
    /\ node = [d \in 1..MaxDepth |-> 0]
    /\ next = [d \in 1..MaxDepth |-> 0]
    /\ oneShot \in BOOLEAN
    /\ wanted = {} /\ orderly = TRUE
    /\ newest = [d \in 1..MaxDepth |-> 0]
    /\ called = [d \in 1..MaxDepth |-> {}]

(* n is the closure on the list after c, or the first if c is 0; 0 is NULL. *)
Follows(n, c) ==
    IF n = 0 THEN \A k \in closures : k <= c
    ELSE /\ n \in closures /\ n > c
         /\ \A k \in closures : k > c => n <= k

(* Users of the trigger run outside of a pull, or in the handler that the   *)
(* innermost pull called.                                                   *)
UserRuns == ~freed /\ (depth > 0 => node[depth] # 0)

PullsUnchanged == UNCHANGED <<depth, node, next, newest, called>>

(* ply_trigger_add_handler, ply_trigger_add_instance_handler.  A user adds  *)
(* a handler again only after it removed it.                                *)
AddHandler(h) ==
    /\ UserRuns
    /\ last < MaxClosures /\ h \notin wanted
    /\ last' = last + 1
    /\ closures' = closures \union {last'}
    /\ handler' = [c \in 1..last' |-> IF c = last' THEN h ELSE handler[c]]
    /\ wanted' = wanted \union {h}
    /\ orderly' = (orderly /\ \A c \in disabled : handler[c] # h)
    /\ UNCHANGED <<disabled, ignored, oneShot, freed>> /\ PullsUnchanged

(* c is the first closure on the list that has the handler h.               *)
IsFirst(c, h) ==
    /\ c \in closures /\ handler[c] = h
    /\ \A k \in closures : handler[k] = h => c <= k

(* Bug: the closure is freed even when a pull may be at it.                 *)
DropNow(c) == closures' = closures \ {c} /\ UNCHANGED disabled

(* A closure that is removed during a pull is only disabled.                *)
Drop(c) ==
    IF depth > 0 THEN disabled' = disabled \union {c} /\ UNCHANGED closures
    ELSE closures' = closures \ {c} /\ UNCHANGED disabled

(* ply_trigger_remove_handler, ply_trigger_remove_instance_handler: the     *)
(* first closure that matches goes, disabled or not.                        *)
RemoveHandler(h) ==
    /\ UserRuns
    /\ \/ \E c \in closures : IsFirst(c, h) /\ Drop(c)
       \/ (\A c \in closures : handler[c] # h) /\ UNCHANGED <<closures, disabled>>
    /\ wanted' = wanted \ {h}
    /\ UNCHANGED <<last, handler, ignored, oneShot, freed, orderly>>
    /\ PullsUnchanged

IgnoreNextPull ==
    /\ UserRuns
    /\ ignored < MaxIgnored
    /\ ignored' = ignored + 1
    /\ UNCHANGED <<closures, last, handler, disabled, oneShot, freed, wanted,
                   orderly>>
    /\ PullsUnchanged

-----------------------------------------------------------------------------
(* ply_trigger_pull.                                                        *)

IgnoredPull ==
    /\ UserRuns
    /\ ignored > 0
    /\ ignored' = ignored - 1
    /\ UNCHANGED <<closures, last, handler, disabled, oneShot, freed, wanted,
                   orderly>>
    /\ PullsUnchanged

Pull ==
    /\ UserRuns
    /\ ignored = 0 /\ depth < MaxDepth
    /\ depth' = depth + 1
    /\ \E n \in closures \union {0} :
           Follows(n, 0) /\ next' = [next EXCEPT ![depth'] = n]
    /\ node' = [node EXCEPT ![depth'] = 0]
    /\ newest' = [newest EXCEPT ![depth'] = last]
    /\ called' = [called EXCEPT ![depth'] = {}]
    /\ UNCHANGED <<closures, last, handler, disabled, ignored, oneShot, freed,
                   wanted, orderly>>

(* Bug: a disabled closure is called.                                       *)
CallAny(c) ==
    /\ node' = [node EXCEPT ![depth] = c]
    /\ called' = [called EXCEPT ![depth] = @ \union {c}]

(* A closure that was disabled is passed over.                              *)
Call(c) ==
    IF c \in disabled THEN UNCHANGED <<node, called>>
    ELSE /\ node' = [node EXCEPT ![depth] = c]
         /\ called' = [called EXCEPT ![depth] = @ \union {c}]

(* next_node is read before the handler of c runs.                          *)
Advance(c) == \E n \in closures \union {0} :
    Follows(n, c) /\ next' = [next EXCEPT ![depth] = n]

CallNext ==
    /\ depth > 0 /\ node[depth] = 0 /\ next[depth] # 0
    /\ Advance(next[depth])
    /\ Call(next[depth])
    /\ UNCHANGED <<closures, last, handler, disabled, ignored, depth, oneShot,
                   freed, wanted, orderly, newest>>

Return ==
    /\ depth > 0 /\ node[depth] # 0
    /\ node' = [node EXCEPT ![depth] = 0]
    /\ UNCHANGED <<closures, last, handler, disabled, ignored, depth, next,
                   oneShot, freed, wanted, orderly, newest, called>>

(* The outermost pull frees what was disabled, and a trigger that has a     *)
(* free address itself.                                                     *)
Tidy ==
    IF depth = 1
    THEN closures' = Enabled /\ disabled' = {} /\ freed' = oneShot
    ELSE UNCHANGED <<closures, disabled, freed>>

(* The end of the list, or an instance handler that aborts the pull.        *)
EndPull ==
    /\ depth > 0
    /\ IF node[depth] = 0 THEN next[depth] = 0
       ELSE handler[node[depth]] \in Aborter
    /\ depth' = depth - 1
    /\ Tidy
    /\ UNCHANGED <<last, handler, ignored, node, next, oneShot, wanted, orderly,
                   newest, called>>

Next ==
    \/ \E h \in Handler : AddHandler(h) \/ RemoveHandler(h)
    \/ IgnoreNextPull \/ IgnoredPull
    \/ Pull \/ CallNext \/ Return \/ EndPull

Spec == Init /\ [][Next]_vars

-----------------------------------------------------------------------------
(* Properties.                                                              *)

(* Whatever the handlers add, remove and pull, the two pointers that each   *)
(* pull keeps into the list lead to closures that were not freed, and the   *)
(* trigger itself is not freed under a pull.                                *)
PointersAreValid ==
    \A d \in Pulls : {node[d], next[d]} \subseteq closures \union {0} /\ ~freed

(* Each pull calls each handler that it finds once and in order: the        *)
(* closures it called are behind it, and of those that were on the list     *)
(* when it began it passed none over that is still enabled.                 *)
PullsReachEveryone ==
    \A d \in Pulls :
        /\ \A c \in called[d] : next[d] = 0 \/ c < next[d]
        /\ \A c \in Enabled :
               c <= newest[d] => c \in called[d] \/ (next[d] # 0 /\ next[d] <= c)

(* Whatever its handlers do to a trigger, a pull of it is safe and misses   *)
(* nobody (ply_trigger_pull).                                               *)
PullsAreSound ==
    /\ TypeOK
    /\ PointersAreValid
    /\ PullsReachEveryone

(* A handler is only called while its user wants it: it was added, and not  *)
(* removed since, not even in the same pull.  This is what                  *)
(* test_callback_can_remove_later_handler asks of a handler that another    *)
(* handler removes.  It takes users that are orderly: a handler that is     *)
(* added again in the pull that removed it has two closures, of which its   *)
(* next removal finds the one that is disabled already.                     *)
OnlyWantedCalled ==
    [][ orderly => \A d \in Pulls :
          node'[d] \notin {node[d], 0} => handler[node'[d]] \in wanted ]_vars

=============================================================================
