----------------------------- MODULE EventLoop -----------------------------
(***************************************************************************)
(* ply_event_loop_t (src/src/libply/ply-event-loop.c): one thread that      *)
(* waits for file descriptors and deadlines, and calls handlers that may    *)
(* start and stop watching others while the loop walks over them.           *)
(*                                                                          *)
(* Sources (a watched descriptor), registrations (a destination and its     *)
(* ply_fd_watch_t) and timeouts are known by the order of their allocation, *)
(* which is the order of the lists they are appended to.                    *)
(***************************************************************************)
EXTENDS Integers, Sequences, FiniteSets

CONSTANTS
    Fd,             \* file descriptors
    SignalFd,       \* the one of the signal dispatcher
    Kind,           \* kinds of registration that users make
    Owner,          \* who sets timeouts: pairs of a handler and user_data
    MaxWatches,     \* bound: registrations ever made
    MaxTimeouts,    \* bound: timeouts ever set
    MaxBatch,       \* bound: events that epoll_wait returns
    MaxTime         \* bound: the clock

(* A reader has a handler for data and one for the disconnection, a closer  *)
(* only the latter, a deaf one only the former.                             *)
ASSUME LoopAssumption ==
    /\ SignalFd \in Fd
    /\ Kind \subseteq {"reader", "closer", "deaf"}
    /\ MaxWatches \in Nat \ {0} /\ MaxTimeouts \in Nat
    /\ MaxBatch \in Nat /\ MaxTime \in Nat

VARIABLES
    fd,             \* of each source
    refs,           \* reference_count of each source
    listed,         \* loop->sources
    polled,         \* is_getting_polled
    gone,           \* is_disconnected
    source,         \* of each registration
    kind,           \* of each registration
    dests,          \* the destinations that are on the list of their source
    watches,        \* the fd_watches that are allocated
    held,           \* the fd_watches that their users may still use
    batch,          \* what epoll_wait returned and is not dispatched yet
    pinned,         \* the sources referenced during this pass
    scan,           \* the dispatch under way
    timeouts,       \* loop->timeout_watches
    made,           \* how many timeouts were ever set
    cursor,         \* where ply_event_loop_handle_timeouts is
    start,          \* its now
    now,            \* the clock
    wakeup,         \* wakeup_time
    interrupted,    \* epoll_wait was interrupted by a signal
    shouldExit,
    phase

sources == <<fd, refs, listed, polled, gone, source, kind, dests, watches, held>>
timers  == <<timeouts, made, wakeup>>
pass    == <<batch, pinned, scan, cursor, start, interrupted>>
vars    == <<sources, timers, pass, now, shouldExit, phase>>

-----------------------------------------------------------------------------
Source       == DOMAIN fd
Registration == DOMAIN source
Event == [source : Source, type : {"ready", "hangup"}]
Timeout == [id : 1..MaxTimeouts, owner : Owner, deadline : 0..MaxTime + 1]

NoWakeup == -1      \* PLY_EVENT_LOOP_NO_TIMED_WAKEUP
NoScan   == [type |-> "none", source |-> 0, at |-> 0, next |-> 0]

DestsOf(s) == {r \in dests : source[r] = s}
WatchesOf(s) == {r \in watches : source[r] = s}

TypeOK ==
    /\ fd \in Seq(Fd) /\ refs \in [Source -> Nat]
    /\ listed \subseteq Source /\ polled \subseteq listed /\ gone \subseteq Source
    /\ source \in Seq(Source) /\ Len(source) <= MaxWatches
    /\ kind \in [Registration -> Kind \union {"deaf"}]
    /\ dests \subseteq Registration /\ watches \subseteq dests \union held
    /\ held \subseteq Registration
    /\ batch \in Seq(Event) /\ Len(batch) <= MaxBatch
    /\ pinned \subseteq Source
    /\ scan.type \in {"none", "ready", "hangup"}
    /\ timeouts \subseteq Timeout /\ made \in 0..MaxTimeouts
    /\ cursor \in 0..MaxTimeouts /\ start \in 0..MaxTime /\ now \in 0..MaxTime
    /\ wakeup \in {NoWakeup} \union 0..MaxTime + 1
    /\ interrupted \in BOOLEAN /\ shouldExit \in BOOLEAN
    /\ phase \in {"start", "wait", "timeouts", "timing", "events", "calling",
                  "exited"}

(* ply_event_loop_new, which watches the signal dispatcher.                 *)
Init ==
    /\ fd = <<SignalFd>> /\ refs = <<3>>
    /\ listed = {1} /\ polled = {1} /\ gone = {}
    /\ source = <<1>> /\ kind = <<"deaf">>
    /\ dests = {1} /\ watches = {1} /\ held = {}
    /\ batch = <<>> /\ pinned = {} /\ scan = NoScan
    /\ timeouts = {} /\ made = 0 /\ cursor = 0
    /\ start = 0 /\ now = 0 /\ wakeup = NoWakeup
    /\ interrupted = FALSE /\ shouldExit = FALSE
    /\ phase = "start"

Smallest(S) == CHOOSE n \in S : \A m \in S : n <= m

(* The number in S that follows n, 0 if there is none.                      *)
After(S, n) ==
    LET later == {m \in S : m > n} IN IF later = {} THEN 0 ELSE Smallest(later)

-----------------------------------------------------------------------------
(* What users call: before they run the loop, and in its handlers.          *)
UserRuns == phase \in {"start", "timing", "calling"}

(* ply_event_loop_watch_fd: a source that the loop lists for the descriptor *)
(* is shared, even one that is being disconnected.                          *)
WatchFd(f, k) ==
    LET s == IF \E x \in listed : fd[x] = f THEN CHOOSE x \in listed : fd[x] = f
             ELSE Len(fd) + 1
        r == Len(source) + 1
        old == s \in Source
    IN  /\ UserRuns
        /\ Len(source) < MaxWatches
        /\ fd' = IF old THEN fd ELSE Append(fd, f)
        /\ refs' = IF old THEN [refs EXCEPT ![s] = @ + 2] ELSE Append(refs, 3)
        /\ listed' = listed \union {s} /\ polled' = polled \union {s}
        /\ source' = Append(source, s) /\ kind' = Append(kind, k)
        /\ dests' = dests \union {r} /\ watches' = watches \union {r}
        /\ held' = held \union {r}
        /\ UNCHANGED <<gone, timers, pass, now, shouldExit, phase>>

(* Bug: a destination stays on the list of a source that others still use.  *)
DropDestinationOfLast(r) ==
    LET s == source[r]
        last == WatchesOf(s) = {r}
    IN  /\ dests' = IF last THEN dests \ DestsOf(s) ELSE dests
        /\ refs' = [refs EXCEPT ![s] = @ - (IF last THEN Cardinality(DestsOf(s)) + 2
                                            ELSE 1)]
        /\ listed' = IF last THEN listed \ {s} ELSE listed
        /\ polled' = IF last THEN polled \ {s} ELSE polled

(* Its last destination takes the source off the list.                      *)
DropDestination(r) ==
    LET s == source[r]
        last == DestsOf(s) = {r}
    IN  /\ dests' = dests \ {r}
        /\ refs' = [refs EXCEPT ![s] = @ - (IF last THEN 3 ELSE 2)]
        /\ listed' = IF last THEN listed \ {s} ELSE listed
        /\ polled' = IF last THEN polled \ {s} ELSE polled

(* ply_event_loop_stop_watching_fd: with the source disconnected only the   *)
(* fd_watch goes, the destination when the disconnection is over.           *)
StopWatchingFd(r) ==
    /\ UserRuns
    /\ r \in held \intersect watches
    /\ watches' = watches \ {r} /\ held' = held \ {r}
    /\ IF source[r] \in gone
       THEN /\ refs' = [refs EXCEPT ![source[r]] = @ - 1]
            /\ UNCHANGED <<dests, listed, polled>>
       ELSE DropDestination(r)
    /\ UNCHANGED <<fd, gone, source, kind, timers, pass, now, shouldExit, phase>>

Earlier(t, u) == IF t = NoWakeup \/ u < t THEN u ELSE t

(* Bug: a timeout that is set later replaces the wakeup time.               *)
WatchForTimeoutReplaces(o, d) ==
    /\ UserRuns
    /\ made < MaxTimeouts
    /\ made' = made + 1
    /\ timeouts' = timeouts \union {[id |-> made', owner |-> o, deadline |-> d]}
    /\ wakeup' = d
    /\ UNCHANGED <<sources, pass, now, shouldExit, phase>>

(* ply_event_loop_watch_for_timeout; the time to wait is positive.          *)
WatchForTimeout(o, d) ==
    /\ UserRuns
    /\ made < MaxTimeouts
    /\ made' = made + 1
    /\ timeouts' = timeouts \union {[id |-> made', owner |-> o, deadline |-> d]}
    /\ wakeup' = Earlier(wakeup, d)
    /\ UNCHANGED <<sources, pass, now, shouldExit, phase>>

(* ply_event_loop_stop_watching_for_timeout: all of the owner's timeouts go *)
(* and the wakeup time is computed anew.                                    *)
StopWatchingForTimeout(o) ==
    /\ UserRuns
    /\ timeouts' = {t \in timeouts : t.owner # o}
    /\ wakeup' = IF timeouts' = {} THEN NoWakeup
                 ELSE Smallest({t.deadline : t \in timeouts'})
    /\ UNCHANGED <<sources, made, pass, now, shouldExit, phase>>

(* ply_event_loop_exit.                                                     *)
Exit ==
    /\ UserRuns
    /\ shouldExit' = TRUE
    /\ UNCHANGED <<sources, timers, pass, now, phase>>

-----------------------------------------------------------------------------
(* The loop: ply_event_loop_run, ply_event_loop_process_pending_events.     *)

Run ==
    /\ phase = "start"
    /\ phase' = IF shouldExit THEN "exited" ELSE "wait"
    /\ UNCHANGED <<sources, timers, pass, now, shouldExit>>

(* Time passes while the loop waits or a handler runs.                      *)
Tick ==
    /\ phase \in {"wait", "timing", "calling"} /\ now < MaxTime
    /\ now' = now + 1
    /\ UNCHANGED <<sources, timers, pass, shouldExit, phase>>

(* epoll_wait returned events: every source is referenced until the end of  *)
(* the pass, and the timeouts come first.                                   *)
Woken(events) ==
    /\ phase = "wait"
    /\ batch' = events
    /\ pinned' = {events[i].source : i \in DOMAIN events}
    /\ refs' = [s \in Source |-> refs[s] + (IF s \in pinned' THEN 1 ELSE 0)]
    /\ cursor' = After({t.id : t \in timeouts}, 0)
    /\ start' = now
    /\ wakeup' = NoWakeup
    /\ phase' = "timeouts"
    /\ UNCHANGED <<fd, listed, polled, gone, source, kind, dests, watches, held,
                   scan, timeouts, made, now, shouldExit>>

(* Events of descriptors that somebody reads, or of any that hang up.  The  *)
(* dispatcher's end of the signal pipe is not closed.                       *)
Batches ==
    LET possible == {e \in Event :
            /\ e.source \in polled
            /\ IF e.type = "hangup" THEN e.source # 1
               ELSE \E r \in DestsOf(e.source) : kind[r] # "closer"}
    IN  UNION {{b \in [1..n -> possible] :
                   \A i, j \in 1..n : b[i].source = b[j].source => i = j}
               : n \in 1..MaxBatch}

WaitReturns(events) ==
    /\ interrupted => \E i \in DOMAIN events : events[i].source = 1
    /\ Woken(events) /\ interrupted' = FALSE

WaitTimesOut ==
    /\ ~interrupted /\ wakeup # NoWakeup /\ wakeup <= now
    /\ Woken(<<>>) /\ UNCHANGED interrupted

(* A signal interrupts the wait and leaves its number in the pipe: the      *)
(* timeouts run, and the loop waits again without a look at should_exit.    *)
WaitInterrupted ==
    ~interrupted /\ Woken(<<>>) /\ interrupted' = TRUE

CurrentTimeout == CHOOSE t \in timeouts : t.id = cursor

(* The walk starts over, in case the handler changed the list.              *)
NextAfterHandler == cursor' = After({t.id : t \in timeouts}, 0)

(* ply_event_loop_handle_timeouts, one timeout.                             *)
RunTimeout ==
    /\ phase = "timeouts" /\ cursor # 0
    /\ CurrentTimeout.deadline <= start
    /\ timeouts' = timeouts \ {CurrentTimeout}
    /\ phase' = "timing"
    /\ UNCHANGED <<sources, made, wakeup, pass, now, shouldExit>>

SkipTimeout ==
    /\ phase = "timeouts" /\ cursor # 0
    /\ CurrentTimeout.deadline > start
    /\ wakeup' = Earlier(wakeup, CurrentTimeout.deadline)
    /\ cursor' = After({t.id : t \in timeouts}, cursor)
    /\ UNCHANGED <<sources, timeouts, made, batch, pinned, scan, start,
                   interrupted, now, shouldExit, phase>>

TimeoutReturns ==
    /\ phase = "timing"
    /\ NextAfterHandler
    /\ phase' = "timeouts"
    /\ UNCHANGED <<sources, timers, batch, pinned, scan, start, interrupted,
                   now, shouldExit>>

EndTimeouts ==
    /\ phase = "timeouts" /\ cursor = 0
    /\ phase' = IF interrupted THEN "wait" ELSE "events"
    /\ UNCHANGED <<sources, timers, pass, now, shouldExit>>

-----------------------------------------------------------------------------
(* The events of a pass, in order; a pass that is told to exit leaves the   *)
(* rest of them alone.                                                      *)
Rest == IF shouldExit THEN <<>> ELSE Tail(batch)

(* Nobody wants the data any more.  Bug, if it is all that is asked: a      *)
(* source that is not polled any more is dispatched.                        *)
Ignored(e) == e.type = "ready" /\ \A r \in DestsOf(e.source) : kind[r] = "closer"

(* A source that a timeout or another event stopped is passed over as well. *)
PassedOver(e) == e.source \notin polled \/ Ignored(e)

PassOver ==
    /\ phase = "events" /\ scan = NoScan /\ batch # <<>>
    /\ PassedOver(Head(batch))
    /\ batch' = Rest
    /\ UNCHANGED <<sources, timers, pinned, scan, cursor, start, interrupted,
                   now, shouldExit, phase>>

Dispatch ==
    LET e == Head(batch)
    IN  /\ phase = "events" /\ scan = NoScan /\ batch # <<>>
        /\ ~PassedOver(e)
        /\ gone' = IF e.type = "hangup" THEN gone \union {e.source} ELSE gone
        /\ scan' = [type |-> e.type, source |-> e.source, at |-> 0,
                    next |-> After(DestsOf(e.source), 0)]
        /\ UNCHANGED <<fd, refs, listed, polled, source, kind, dests, watches,
                       held, timers, batch, pinned, cursor, start, interrupted,
                       now, shouldExit, phase>>

HasHandler(r) ==
    kind[r] # (IF scan.type = "ready" THEN "closer" ELSE "deaf")

(* next_node is read before the handler of the destination runs.            *)
CallNext ==
    LET r == scan.next
    IN  /\ phase = "events" /\ r # 0
        /\ scan' = [scan EXCEPT !.next = After(DestsOf(scan.source), r),
                                !.at = IF HasHandler(r) THEN r ELSE 0]
        /\ phase' = IF HasHandler(r) THEN "calling" ELSE phase
        /\ UNCHANGED <<sources, timers, batch, pinned, cursor, start,
                       interrupted, now, shouldExit>>

(* The user was told of the disconnection and forgets its fd_watch.         *)
HandlerReturns ==
    /\ phase = "calling"
    /\ scan' = [scan EXCEPT !.at = 0]
    /\ held' = IF scan.type = "hangup" THEN held \ {scan.at} ELSE held
    /\ phase' = "events"
    /\ UNCHANGED <<fd, refs, listed, polled, gone, source, kind, dests, watches,
                   timers, batch, pinned, cursor, start, interrupted, now,
                   shouldExit>>

(* The end of ply_event_loop_disconnect_source.                             *)
Disconnect(s) ==
    /\ refs' = [refs EXCEPT ![s] = @ - Cardinality(DestsOf(s))
                                     - Cardinality(WatchesOf(s)) - 1]
    /\ watches' = watches \ WatchesOf(s) /\ dests' = dests \ DestsOf(s)
    /\ listed' = listed \ {s} /\ polled' = polled \ {s}

EndDispatch ==
    /\ phase = "events" /\ scan # NoScan /\ scan.next = 0
    /\ IF scan.type = "hangup" THEN Disconnect(scan.source)
       ELSE UNCHANGED <<refs, watches, dests, listed, polled>>
    /\ scan' = NoScan
    /\ batch' = Rest
    /\ UNCHANGED <<fd, gone, source, kind, held, timers, pinned, cursor, start,
                   interrupted, now, shouldExit, phase>>

(* Bug: a pass without events is taken for one that nobody told to exit.    *)
EndPassIfEvents ==
    /\ phase = "events" /\ scan = NoScan /\ batch = <<>>
    /\ refs' = [s \in Source |-> refs[s] - (IF s \in pinned THEN 1 ELSE 0)]
    /\ pinned' = {}
    /\ phase' = IF shouldExit /\ pinned # {} THEN "exited" ELSE "wait"
    /\ UNCHANGED <<fd, listed, polled, gone, source, kind, dests, watches, held,
                   timers, batch, scan, cursor, start, interrupted, now,
                   shouldExit>>

(* The sources of the pass are dropped, and should_exit is looked at.       *)
EndPass ==
    /\ phase = "events" /\ scan = NoScan /\ batch = <<>>
    /\ refs' = [s \in Source |-> refs[s] - (IF s \in pinned THEN 1 ELSE 0)]
    /\ pinned' = {}
    /\ phase' = IF shouldExit THEN "exited" ELSE "wait"
    /\ UNCHANGED <<fd, listed, polled, gone, source, kind, dests, watches, held,
                   timers, batch, scan, cursor, start, interrupted, now,
                   shouldExit>>

(* ply_event_loop_run when the loop is over: everything is freed.           *)
Free ==
    /\ phase = "exited" /\ listed # {}
    /\ refs' = [s \in Source |-> refs[s] - Cardinality(DestsOf(s))
                    - Cardinality(WatchesOf(s)) - (IF s \in listed THEN 1 ELSE 0)]
    /\ listed' = {} /\ polled' = {} /\ dests' = {} /\ watches' = {}
    /\ timeouts' = {} /\ wakeup' = NoWakeup /\ held' = {}
    /\ UNCHANGED <<fd, gone, source, kind, made, pass, now, shouldExit, phase>>

(* Two rules that the users of the loop keep.  A handler of a descriptor    *)
(* stops no registration of the same descriptor that is still to be called, *)
(* and nobody watches a descriptor that is being disconnected.              *)
KeepsOff(r) == source[r] = scan.source => r <= scan.at
IsLeaving(f) == \E s \in gone \intersect listed : fd[s] = f

User ==
    \/ \E f \in Fd, k \in Kind : ~IsLeaving(f) /\ WatchFd(f, k)
    \/ \E r \in held : KeepsOff(r) /\ StopWatchingFd(r)
    \/ \E o \in Owner, d \in now + 1..MaxTime + 1 : WatchForTimeout(o, d)
    \/ \E o \in Owner : StopWatchingForTimeout(o)
    \/ Exit

Loop ==
    \/ WaitTimesOut
    \/ RunTimeout \/ SkipTimeout \/ TimeoutReturns \/ EndTimeouts
    \/ PassOver \/ Dispatch \/ CallNext \/ HandlerReturns \/ EndDispatch
    \/ EndPass \/ Free

Next ==
    \/ User \/ Run \/ Loop \/ Tick
    \/ WaitInterrupted
    \/ \E b \in Batches : WaitReturns(b)

Spec == Init /\ [][Next]_vars

(* The program runs the loop, which goes on as long as it can, and its      *)
(* handlers return.  Events may never come, except that a wait that follows *)
(* an interrupted one returns: the signal's number is in the pipe.          *)
FairSpec ==
    /\ Spec
    /\ WF_vars(Run \/ Loop)
    /\ WF_vars(interrupted /\ \E b \in Batches : WaitReturns(b))

-----------------------------------------------------------------------------
(* Properties.                                                              *)

(* A source is counted once for the loop's list, for each destination, for  *)
(* each fd_watch and for the pass that references it.  So it lives exactly  *)
(* as long as something points to it.                                       *)
SourcesAreCounted ==
    \A s \in Source :
        refs[s] = (IF s \in listed THEN 1 ELSE 0) + Cardinality(DestsOf(s))
                  + Cardinality(WatchesOf(s)) + (IF s \in pinned THEN 1 ELSE 0)

(* The pointers of a walk lead to what was not freed, whatever the handlers *)
(* stop: those to the destinations of the source that is dispatched, and    *)
(* the one to the timeouts.  A source that hangs up is still the loop's to  *)
(* remove, as ply_event_loop_remove_source asserts.                         *)
WalksAreValid ==
    /\ scan.next \in DestsOf(scan.source) \union {0}
    /\ scan # NoScan => scan.source \in pinned
    /\ scan.type = "hangup" => scan.source \in listed
    /\ phase = "timeouts" => cursor \in {t.id : t \in timeouts} \union {0}
    /\ polled \subseteq {s \in Source : refs[s] > 0}

(* As long as its user holds an fd_watch, the registration is in force: the *)
(* fd_watch is not freed, and its destination is on the list of a source    *)
(* that is polled for it, the only one listed for its descriptor.  A deaf   *)
(* user is not told when a disconnection frees its fd_watch.                *)
HeldIsWatched ==
    /\ \A r \in held : kind[r] # "deaf" =>
           r \in watches /\ r \in dests /\ source[r] \in polled
    /\ \A s, x \in listed : fd[s] = fd[x] => s = x

(* Whoever sets and stops timeouts while the loop walks over them, it never *)
(* sleeps past a deadline, and it wakes up for a timeout that is gone only  *)
(* if that one was due in the walk before: once, not over and over.         *)
WakesUpInTime ==
    phase = "wait" =>
        LET deadlines == {t.deadline : t \in timeouts}
        IN  /\ deadlines # {} => wakeup \in 0..Smallest(deadlines)
            /\ wakeup \in deadlines \union {NoWakeup} \union 0..start

(* The loop counts its sources, walks over nothing that was freed, keeps    *)
(* what a user holds, and sleeps no longer than its timeouts allow, while   *)
(* handlers change all of it (ply-event-loop.c).                            *)
LoopIsSound ==
    /\ TypeOK
    /\ SourcesAreCounted
    /\ WalksAreValid
    /\ HeldIsWatched
    /\ WakesUpInTime

(* A handler is called only while its user holds the fd_watch, even if the  *)
(* event came before a timeout or another event stopped it, as              *)
(* test_timeout_stops_ready_fd_before_dispatch asks.                        *)
StoppedIsNotCalled ==
    [][scan'.at \notin {scan.at, 0, 1} => scan'.at \in held]_vars

(* A timeout whose deadline passed runs, or is stopped, or the loop exits.  *)
TimeoutsRun ==
    \A i \in 1..MaxTimeouts :
        (\E t \in timeouts : t.id = i /\ t.deadline <= now)
            ~> (phase = "exited" \/ \A t \in timeouts : t.id # i)

(* Once a handler asked for it the loop exits, even if a signal interrupted *)
(* the wait before.                                                         *)
ExitIsHonoured == shouldExit ~> (phase = "exited" /\ listed = {})

(* What is due happens: a timeout, and the exit.                            *)
DueHappens == TimeoutsRun /\ ExitIsHonoured

=============================================================================
