------------------------------- MODULE Client -------------------------------
(***************************************************************************)
(* The plymouth command (src/src/client/plymouth.c) on the boot client      *)
(* library (src/src/client/ply-boot-client.c): it queues requests, writes   *)
(* them when the socket takes them, matches the daemon's replies to them in *)
(* the order of writing, asks for a password as often as it may, runs the   *)
(* program that wants it, and exits with a status.                          *)
(*                                                                          *)
(* The daemon is the environment: it replies to each request that it read   *)
(* once, or closes the connection (src/src/ply-boot-server.c; see Prompts). *)
(***************************************************************************)
EXTENDS Integers, Sequences, FiniteSets

CONSTANTS
    CommandLines    \* the command lines that are tried

Kind == {"plain", "ping", "quit", "password", "question", "keystroke"}

(* program: is there a --command; pause: is there no --dont-pause-progress. *)
(* A "quit" is a quit or a deactivate; "plain" are the other requests.      *)
Job == [kind : Kind, program : BOOLEAN, pause : BOOLEAN, tries : Nat \ {0}]

(* early: the first job is a main option, which is run before the loop; a   *)
(* password it asks for takes neither a program nor a pause.                *)
ASSUME ClientAssumption ==
    /\ CommandLines \subseteq [jobs : Seq(Job), early : BOOLEAN, wait : BOOLEAN]
    /\ \A l \in CommandLines : l.early => l.jobs # <<>>

VARIABLES
    line,           \* the command line
    client,         \* ply_boot_client_t and what plymouth.c keeps of each job
    daemon,         \* the other end of the socket
    event,          \* what epoll_wait reported of the socket
    phase           \* where the event loop is

vars == <<line, client, daemon, event, phase>>

-----------------------------------------------------------------------------
Jobs    == DOMAIN line.jobs
Outcome == {"none", "ok", "bad", "signal", "unread", "unstarted"}
Status  == {"ok", "failed"}
What    == {"plain", "ping", "quit", "password", "cached", "question",
            "keystroke", "pause", "unpause"}
Reply   == {"ack", "nak", "answer", "interrupt", "no_answer", "multiple"}

(* then: the status an unpause request ends with; calls: how often one of   *)
(* its two handlers was called; got: whose reply it was given, and which.   *)
Request == [job : Nat, what : What, then : Status, calls : Nat,
            got : [to : Nat, type : Reply \union {"none", "failed"}]]
NoReply == [to |-> 0, type |-> "none"]

TypeOK ==
    /\ line \in CommandLines
    /\ client.started \in 0..Len(line.jobs)
    /\ client.requests \in Seq(Request)
    /\ \A i \in DOMAIN client.requests : client.requests[i].job \in Jobs
    /\ client.toSend \in Seq(DOMAIN client.requests)
    /\ client.waiting \in Seq(DOMAIN client.requests)
    /\ client.canTake \in BOOLEAN /\ client.hasReply \in BOOLEAN
    /\ \A j \in Jobs : client.tries[j] \in 0..line.jobs[j].tries
    /\ client.ran \in [Jobs -> Outcome]
    /\ client.shouldExit \in BOOLEAN /\ client.code \in Status
    /\ client.dead \in {"no", "signal", "assert", "undefined"}
    /\ daemon.link \in {"none", "up", "closed"}
    /\ daemon.owed \subseteq DOMAIN client.requests
    /\ daemon.paused \in BOOLEAN /\ daemon.orderly \in BOOLEAN
    /\ event \subseteq {"out", "in", "hangup"}
    /\ phase \in {"start", "wait", "events", "over", "ended"}

(* ply_boot_client_connect may find no daemon.                              *)
Init ==
    /\ line \in CommandLines
    /\ client = [started |-> 0, requests |-> <<>>, toSend |-> <<>>,
                 waiting |-> <<>>, canTake |-> FALSE, hasReply |-> FALSE,
                 tries |-> [j \in Jobs |-> line.jobs[j].tries],
                 ran |-> [j \in Jobs |-> "none"],
                 shouldExit |-> FALSE, code |-> "ok", dead |-> "no"]
    /\ \E link \in {"none", "up"} :
           daemon = [link |-> link, inbox |-> <<>>, owed |-> {},
                     paused |-> FALSE, orderly |-> TRUE]
    /\ event = {} /\ phase = "start"

-----------------------------------------------------------------------------
(* plymouth.c.  Operators take the state of the client to the next one; o   *)
(* is what becomes of the program that a job runs.                          *)

(* ply_event_loop_exit; a later call overwrites the status.                 *)
Exit(s, code) == [s EXCEPT !.shouldExit = TRUE, !.code = code]

Die(s, how) == [s EXCEPT !.dead = how]

(* on_password_answer_failure: the program is run without a password, over  *)
(* and over until it succeeds or no tries are left.  A program that was     *)
(* never started leaves the raw status 127, which stands for the exit code  *)
(* 0.                                                                       *)
RunOnItsOwn(s, j, o) ==
    LET t == [s EXCEPT !.ran[j] = o[j],
                       !.tries[j] = IF o[j] = "ok" THEN @ ELSE 0]
    IN  IF o[j] = "signal" THEN Die(t, "signal")
        ELSE Exit(t, IF o[j] \in {"ok", "unstarted"} THEN "ok" ELSE "failed")

(* Does the failed handler of a request run the program?                    *)
FailureRuns(j, what) ==
    /\ line.jobs[j].kind = "password" /\ line.jobs[j].program
    /\ what # "unpause"

(* The failed handler of a request for what.                                *)
Fail(s, j, what, o) ==
    IF FailureRuns(j, what) THEN RunOnItsOwn(s, j, o) ELSE Exit(s, "failed")

(* ply_boot_client_queue_request.                                           *)
Queue(s, j, what, then, o) ==
    IF daemon.link = "none" THEN Fail(s, j, what, o)
    ELSE [s EXCEPT
            !.requests = Append(@, [job |-> j, what |-> what, then |-> then,
                                    calls |-> 0, got |-> NoReply]),
            !.toSend = Append(@, Len(s.requests) + 1),
            !.canTake = TRUE]

(* on_password_request_execute, on_question_request_execute.                *)
Ask(s, j, o) ==
    Queue(s, j, IF line.jobs[j].kind # "password" THEN line.jobs[j].kind
                ELSE IF line.jobs[j].program THEN "cached" ELSE "password",
          "ok", o)

(* The handlers of the commands, on_*_request.                              *)
StartJob(s, j, o) ==
    LET t == [s EXCEPT !.started = j]
    IN  IF line.jobs[j].pause THEN Queue(t, j, "pause", "ok", o)
        ELSE Ask(t, j, o)

(* Bug: only the end of a pause ends the program.                           *)
FinishPausedOnly(s, j, status, o) ==
    IF line.jobs[j].pause THEN Queue(s, j, "unpause", status, o) ELSE s

(* The end of a question, asked with progress paused or not.                *)
Finish(s, j, status, o) ==
    IF line.jobs[j].pause THEN Queue(s, j, "unpause", status, o)
    ELSE Exit(s, status)

(* The program did not like the password.                                   *)
TryAgain(s, j, o) ==
    LET t == [s EXCEPT !.tries[j] = @ - 1]
    IN  IF t.tries[j] > 0 THEN Queue(t, j, "password", "ok", o)
        ELSE IF o[j] = "signal" THEN Die(t, "signal")
        ELSE Finish(t, j, "failed", o)

(* on_password_answer.  A program that ends before it reads the password    *)
(* ("unread") is not tried again.  An interrupt, no answer and a program    *)
(* that was not started leave the raw status 127, the exit code 0.          *)
OnPasswordAnswer(s, j, type, o) ==
    LET t == [s EXCEPT !.ran[j] = o[j]]
    IN  IF type = "no_answer"
        THEN LET u == Fail(s, j, "password", o)
             IN  IF u.dead = "no" THEN Finish(u, j, "ok", o) ELSE u
        ELSE IF type = "interrupt" \/ ~line.jobs[j].program
        THEN Finish(s, j, "ok", o)
        ELSE CASE o[j] \in {"ok", "unstarted"} -> Finish(t, j, "ok", o)
               [] o[j] = "unread"              -> Finish(t, j, "failed", o)
               [] OTHER                        -> TryAgain(t, j, o)

(* on_multiple_password_answers: the program gets the cached passwords one  *)
(* after the other.                                                         *)
OnCachedPasswords(s, j, type, o) ==
    IF type = "no_answer" THEN Queue(s, j, "password", "ok", o)
    ELSE LET t == [s EXCEPT !.ran[j] = o[j]]
         IN  IF o[j] = "ok" THEN Exit(t, "ok")
             ELSE Queue(t, j, "password", "ok", o)

(* The replies that a handler can be called with: the client casts it to    *)
(* what the type of the reply asks for.                                     *)
Takes(what, type) ==
    CASE what \in {"plain", "ping", "quit", "unpause"} -> TRUE
      [] what = "pause"  -> type = "ack"
      [] what = "cached" -> type \in {"multiple", "no_answer"}
      [] OTHER           -> type \in {"answer", "interrupt", "no_answer"}

Handle(s, r, type, o) ==
    IF type = "nak" THEN Fail(s, r.job, r.what, o)
    ELSE IF ~Takes(r.what, type) THEN Die(s, "undefined")
    ELSE CASE r.what \in {"plain", "ping", "quit"} -> Exit(s, "ok")
           [] r.what = "unpause"   -> Exit(s, r.then)
           [] r.what = "pause"     -> Ask(s, r.job, o)
           [] r.what = "cached"    -> OnCachedPasswords(s, r.job, type, o)
           [] r.what = "password"  -> OnPasswordAnswer(s, r.job, type, o)
           [] r.what = "question"  ->
                  Finish(s, r.job, IF type = "no_answer" THEN "failed" ELSE "ok", o)
           [] r.what = "keystroke" ->
                  Exit(s, IF type = "no_answer" THEN "failed" ELSE "ok")

-----------------------------------------------------------------------------
(* ply-boot-client.c.                                                       *)

Resolve(s, i, got) ==
    [s EXCEPT !.requests[i].calls = @ + 1, !.requests[i].got = got]

(* The handlers of one source run one after the other, whichever watch was  *)
(* registered first.                                                        *)
Handles(status) ==
    /\ phase = "events" /\ status \in event /\ client.dead = "no"
    /\ event' = event \ {status}
    /\ UNCHANGED <<line, phase>>

(* With nothing to send the socket is not watched for room to write, unless *)
(* the one request failed.                                                  *)
StopSending(s) ==
    IF s.toSend = <<>> /\ s.hasReply THEN [s EXCEPT !.canTake = FALSE] ELSE s

(* ply_boot_client_process_pending_requests, one request for each event.    *)
SendNext(o) ==
    LET i == Head(client.toSend)
        r == client.requests[i]
        s == [client EXCEPT !.toSend = Tail(@)]
    IN  /\ Handles("out")
        /\ IF client.toSend = <<>>
           THEN client' = Die(client, "assert") /\ UNCHANGED daemon
           ELSE IF daemon.link = "closed"
           THEN /\ client' = StopSending(
                       Fail(Resolve(s, i, [to |-> 0, type |-> "failed"]),
                            r.job, r.what, o))
                /\ UNCHANGED daemon
           ELSE /\ client' = StopSending([s EXCEPT !.hasReply = TRUE,
                                                   !.waiting = Append(@, i)])
                /\ daemon' = [daemon EXCEPT !.owed = @ \union {i}]

(* A reply belongs to the first request that waits for one.                 *)
Whose == Head(client.waiting)

(* ply_boot_client_process_incoming_replies: the request leaves the queue   *)
(* when its handler is done.                                                *)
ReadReply(o) ==
    LET i == Whose
        reply == Head(daemon.inbox)
        s == Handle(Resolve(client, i, reply), client.requests[i], reply.type, o)
        left == Tail(s.waiting)
    IN  /\ Handles("in")
        /\ client' = [s EXCEPT !.waiting = left, !.hasReply = left # <<>>]
        /\ daemon' = [daemon EXCEPT !.inbox = Tail(@)]

(* The requests in ids are cancelled: their failed handlers are called.     *)
Cancel(s, ids, o) ==
    LET runs == {s.requests[i].job : i \in
                    {k \in ids : FailureRuns(s.requests[k].job, s.requests[k].what)}}
    IN  [s EXCEPT
            !.requests = [i \in DOMAIN s.requests |->
                IF i \in ids
                THEN [s.requests[i] EXCEPT !.calls = @ + 1,
                                           !.got = [to |-> 0, type |-> "failed"]]
                ELSE s.requests[i]],
            !.ran = [j \in Jobs |-> IF j \in runs THEN o[j] ELSE @[j]],
            !.dead = IF \E j \in runs : o[j] = "signal" THEN "signal" ELSE @]

Unresolved(s) ==
    {s.toSend[k] : k \in DOMAIN s.toSend} \union
    {s.waiting[k] : k \in DOMAIN s.waiting}

(* Bug: the requests that wait for replies are cancelled and not removed.   *)
CancelAllKeepsWaiting(s, o) ==
    [Cancel(s, Unresolved(s), o) EXCEPT !.toSend = <<>>, !.canTake = FALSE]

(* ply_boot_client_cancel_requests.                                         *)
CancelAll(s, o) ==
    [Cancel(s, Unresolved(s), o)
        EXCEPT !.toSend = <<>>, !.waiting = <<>>,
               !.canTake = @ /\ s.toSend = <<>>,
               !.hasReply = @ /\ s.waiting = <<>>]

(* ply_boot_client_on_hangup and on_disconnect of plymouth.c, whose status  *)
(* is the last.                                                             *)
OnHangup(o) ==
    /\ Handles("hangup")
    /\ client' = Exit(CancelAll(client, o), IF line.wait THEN "ok" ELSE "failed")
    /\ UNCHANGED daemon

-----------------------------------------------------------------------------
(* main and the event loop, whose only descriptor is the socket.            *)

Pings == line.early /\ line.jobs[1].kind = "ping"

(* The main option is run before the loop, which does not run if there is   *)
(* no daemon to wait for or to ping.                                        *)
Main(o) ==
    /\ phase = "start"
    /\ client' = IF daemon.link = "none" /\ (Pings \/ line.wait)
                 THEN Exit(client, IF Pings THEN "failed" ELSE "ok")
                 ELSE IF line.early THEN StartJob(client, 1, o) ELSE client
    /\ phase' = "wait"
    /\ UNCHANGED <<line, daemon, event>>

(* What epoll_wait reports; a closed socket is disconnected only when it    *)
(* was read empty.                                                          *)
Reported ==
    IF daemon.link = "closed" /\ daemon.inbox = <<>> THEN {"hangup"}
    ELSE (IF client.canTake THEN {"out"} ELSE {})
         \union (IF client.hasReply /\ daemon.inbox # <<>> THEN {"in"} ELSE {})

Runs == phase = "wait" /\ ~client.shouldExit /\ client.dead = "no"

(* A pass that the socket woke.                                             *)
Wake ==
    /\ Runs /\ Reported # {}
    /\ event' = Reported /\ phase' = "events"
    /\ UNCHANGED <<line, client, daemon>>

(* A pass in which on_command_dispatch_timeout runs the next command, which *)
(* is before the events that were reported.                                 *)
Dispatch(o) ==
    /\ Runs /\ client.started < Len(line.jobs)
    /\ client' = StartJob(client, client.started + 1, o)
    /\ event' = Reported /\ phase' = "events"
    /\ UNCHANGED <<line, daemon>>

(* A pass in which a ping times out.                                        *)
OnPingTimeout ==
    /\ Runs /\ Pings
    /\ client' = Exit(client, "failed")
    /\ event' = Reported /\ phase' = "events"
    /\ UNCHANGED <<line, daemon>>

EndPass ==
    /\ phase = "events" /\ event = {} /\ client.dead = "no"
    /\ phase' = "wait"
    /\ UNCHANGED <<line, client, daemon, event>>

(* The exit closures of the loop.                                           *)
LeaveLoop ==
    /\ phase = "wait" /\ client.shouldExit /\ client.dead = "no"
    /\ client' = [client EXCEPT !.canTake = FALSE, !.hasReply = FALSE]
    /\ phase' = "over"
    /\ UNCHANGED <<line, daemon, event>>

(* ply_boot_client_free: what is left is cancelled, and so a program that   *)
(* waits for a password is run without one.                                 *)
Free(o) ==
    /\ phase = "over" /\ client.dead = "no"
    /\ client' = CancelAll(client, o)
    /\ phase' = "ended"
    /\ UNCHANGED <<line, daemon, event>>

-----------------------------------------------------------------------------
(* The daemon.                                                              *)

Answers(what) ==
    {"nak"} \union CASE what = "cached" -> {"multiple", "no_answer"}
      [] what \in {"password", "question", "keystroke"} ->
             {"answer", "interrupt", "no_answer"}
      [] OTHER -> {"ack"}

(* Requests that are answered when the user or the splash is done; the      *)
(* others are when they are read.                                           *)
Deferred(what) == what \in {"quit", "password", "question", "keystroke"}

Answer(i, type) ==
    LET what == client.requests[i].what
    IN  /\ daemon.link = "up" /\ i \in daemon.owed /\ type \in Answers(what)
        /\ \A k \in daemon.owed : k < i => Deferred(client.requests[k].what)
        /\ daemon' = [daemon EXCEPT
               !.owed = @ \ {i},
               !.inbox = Append(@, [to |-> i, type |-> type]),
               !.orderly = @ /\ \A k \in daemon.owed : k >= i,
               !.paused = IF type # "ack" THEN @
                          ELSE (@ \/ what = "pause") /\ what # "unpause"]
        /\ UNCHANGED <<line, client, event, phase>>

Close ==
    /\ daemon.link = "up"
    /\ daemon' = [daemon EXCEPT !.link = "closed", !.owed = {}]
    /\ UNCHANGED <<line, client, event, phase>>

-----------------------------------------------------------------------------
Over == phase = "ended" \/ client.dead # "no"

Program ==
    \/ \E o \in [Jobs -> Outcome \ {"none"}] :
           \/ Main(o) \/ SendNext(o) \/ ReadReply(o) \/ OnHangup(o) \/ Free(o)
    \/ Wake \/ EndPass \/ LeaveLoop

Next ==
    \/ Program
    \/ \E o \in [Jobs -> Outcome \ {"none"}] : Dispatch(o)
    \/ OnPingTimeout
    \/ \E i \in DOMAIN client.requests : \E type \in Reply : Answer(i, type)
    \/ Close
    \/ Over /\ UNCHANGED vars

Spec == Init /\ [][Next]_vars

(* The loop goes on, the next command is dispatched after 10 ms, and the    *)
(* daemon answers each request sooner or later, unless it goes.             *)
FairSpec ==
    /\ Spec
    /\ WF_vars(Program)
    /\ WF_vars(\E o \in [Jobs -> Outcome \ {"none"}] : Dispatch(o))
    /\ WF_vars(\E i \in DOMAIN client.requests : \E type \in Reply : Answer(i, type))

-----------------------------------------------------------------------------
(* Properties.                                                              *)

(* While the loop waits it watches the socket for room to write exactly if  *)
(* there are requests to write, and for data exactly if requests wait for   *)
(* replies.  So neither assert of ply_boot_client_process_pending_requests  *)
(* fails, no reply is unexpected, and the loop does not spin.               *)
QueuesAreWatched ==
    /\ Runs => /\ client.canTake <=> client.toSend # <<>>
               /\ client.hasReply <=> client.waiting # <<>>
    /\ client.dead # "assert"
    /\ "in" \in event => client.waiting # <<>>

(* One of the two handlers of every request is called once, whether a reply *)
(* comes, a write fails, the daemon hangs up, or the program ends first.    *)
EachRequestResolvedOnce ==
    \A i \in DOMAIN client.requests :
        client.requests[i].calls =
            IF phase = "ended" \/ i \notin Unresolved(client) THEN 1 ELSE 0

(* The reply a request is given is the daemon's reply to this request, if   *)
(* the daemon replied in the order of the requests; it does unless several  *)
(* commands are given, of which one waits for the user or for the splash.   *)
RepliesMatch ==
    (daemon.orderly \/ Len(line.jobs) = 1) =>
        /\ client.dead # "undefined"
        /\ \A i \in DOMAIN client.requests : client.requests[i].got.to \in {0, i}

(* The user is asked for a password at most number-of-tries times           *)
(* (docs/plymouth1.xml: "Number of times to ask before giving up"), however *)
(* often the program failed on the cached ones.                             *)
TriesAreKept ==
    \A j \in Jobs :
        Cardinality({i \in DOMAIN client.requests :
                        /\ client.requests[i].job = j
                        /\ client.requests[i].what = "password"})
            <= line.jobs[j].tries

(* A status of 0 means that the program succeeded with a password or, with  *)
(* the daemon gone, without one.  There are three exceptions, in which the  *)
(* raw status 127 is taken for one of waitpid: the user interrupted, the    *)
(* daemon cannot ask, or the program could not be started.                  *)
SuccessWasEarned ==
    \A j \in Jobs :
        /\ phase = "over" /\ client.code = "ok"
        /\ Jobs = {j} /\ line.jobs[j].program /\ line.jobs[j].kind = "password"
        => \/ client.ran[j] \in {"ok", "unstarted"} \/ line.wait
           \/ \E i \in DOMAIN client.requests :
                  /\ client.requests[i].what = "password"
                  /\ client.requests[i].got.type \in {"interrupt", "no_answer"}

(* The client's queues, its requests and what it tells of them agree,       *)
(* whatever the daemon answers or fails to (ply-boot-client.c, plymouth.c). *)
ClientIsSound ==
    /\ TypeOK
    /\ QueuesAreWatched
    /\ EachRequestResolvedOnce
    /\ RepliesMatch
    /\ TriesAreKept
    /\ SuccessWasEarned

(* A command that asks something of the daemon ends: it never waits for a   *)
(* reply that was given, or sleeps with a request that it could write.      *)
ClientEnds == <>(Over \/ (Jobs = {} /\ daemon.link = "up"))

=============================================================================
