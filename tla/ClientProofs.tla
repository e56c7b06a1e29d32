---------------------------- MODULE ClientProofs ----------------------------
(* Theorems about Client, for any set of command lines.                     *)
EXTENDS Client, FiniteSetTheorems, SequenceTheorems, TLAPS

-----------------------------------------------------------------------------
(* The inductive invariant.  Its parts about the client alone are operators *)
(* on its record and on the jobs of the command line, so that the lemmas    *)
(* about the handlers can use them for a client between two calls.          *)

ClientRecord(jobs) ==
    [started : 0..Len(jobs), requests : Seq(Request), toSend : Seq(Nat),
     waiting : Seq(Nat), canTake : BOOLEAN, hasReply : BOOLEAN,
     tries : [DOMAIN jobs -> Nat], ran : [DOMAIN jobs -> Outcome],
     shouldExit : BOOLEAN, code : Status,
     dead : {"no", "signal", "assert", "undefined"}]

ReplyRecord == [to : Nat, type : Reply]

DaemonRecord ==
    [link : {"none", "up", "closed"}, inbox : Seq(ReplyRecord),
     owed : SUBSET Nat, paused : BOOLEAN, orderly : BOOLEAN]

Typed ==
    /\ line \in CommandLines
    /\ client \in ClientRecord(line.jobs)
    /\ daemon \in DaemonRecord
    /\ event \in SUBSET {"out", "in", "hangup"}
    /\ phase \in {"start", "wait", "events", "over", "ended"}

(* Requests are written and answered in the order they were queued in.      *)
Increasing(q) == \A a, b \in DOMAIN q : a < b => q[a] < q[b]

InOrder(s) ==
    /\ Increasing(s.waiting) /\ Increasing(s.toSend)
    /\ \A a \in DOMAIN s.waiting, b \in DOMAIN s.toSend : s.waiting[a] < s.toSend[b]
    /\ Unresolved(s) \subseteq DOMAIN s.requests

CalledOnce(s) ==
    \A i \in DOMAIN s.requests :
        IF i \in Unresolved(s)
        THEN s.requests[i].calls = 0 /\ s.requests[i].got = NoReply
        ELSE s.requests[i].calls = 1

(* A job asks for what its kind is about.                                   *)
Fits(jobs, j, what) ==
    \/ what \in {"pause", "unpause"}
    \/ jobs[j].kind = "password" /\ what \in {"cached", "password"}
    \/ jobs[j].kind # "password" /\ what = jobs[j].kind

OfItsJob(s, jobs) ==
    \A i \in DOMAIN s.requests :
        /\ s.requests[i].job \in 1..s.started
        /\ Fits(jobs, s.requests[i].job, s.requests[i].what)

OnePerJob(s) ==
    \A a, b \in Unresolved(s) : s.requests[a].job = s.requests[b].job => a = b

Passwords(s, j) ==
    {i \in DOMAIN s.requests : s.requests[i].job = j /\ s.requests[i].what = "password"}

(* Each password asked for costs a try, except the first.                   *)
Pending(s, jobs, i) ==
    LET r == s.requests[i]
    IN  /\ r.what \in {"pause", "cached"} =>
               Passwords(s, r.job) = {} /\ s.tries[r.job] = jobs[r.job].tries
        /\ r.what = "password" =>
               /\ s.tries[r.job] >= 1
               /\ Cardinality(Passwords(s, r.job)) + s.tries[r.job] <= jobs[r.job].tries + 1

TriesLast(s, jobs) ==
    /\ \A j \in DOMAIN jobs :
           /\ s.tries[j] <= jobs[j].tries
           /\ Cardinality(Passwords(s, j)) <= jobs[j].tries
           /\ j > s.started => s.tries[j] = jobs[j].tries
    /\ \A i \in Unresolved(s) : Pending(s, jobs, i)

QueuesFit(s, jobs) ==
    /\ InOrder(s) /\ CalledOnce(s) /\ OfItsJob(s, jobs) /\ OnePerJob(s)
    /\ TriesLast(s, jobs)

(* What the socket is watched for.                                          *)
Watched(s) ==
    ~s.shouldExit /\ s.dead = "no" =>
        /\ s.canTake <=> s.toSend # <<>>
        /\ s.hasReply <=> s.waiting # <<>>

EventsFit ==
    /\ client.dead # "assert"
    /\ "out" \in event => client.toSend # <<>>
    /\ "in" \in event => client.waiting # <<>> /\ daemon.inbox # <<>>
    /\ "hangup" \in event =>
           event = {"hangup"} /\ daemon.link = "closed" /\ daemon.inbox = <<>>
    /\ phase # "events" => event = {}
    /\ phase \in {"over", "ended"} => client.shouldExit
    /\ phase = "ended" => client.toSend = <<>> /\ client.waiting = <<>>
    /\ phase = "start" =>
           /\ client.started = 0 /\ client.requests = <<>>
           /\ ~client.shouldExit /\ client.dead = "no"
    /\ daemon.link = "none" =>
           client.requests = <<>> /\ daemon.inbox = <<>> /\ daemon.owed = {}

(* The replies that came and the requests that the daemon still has are     *)
(* together the requests that wait, in their order.                         *)
InStep ==
    /\ Len(daemon.inbox) <= Len(client.waiting)
    /\ \A k \in DOMAIN daemon.inbox : daemon.inbox[k].to = client.waiting[k]
    /\ daemon.owed = {client.waiting[k] : k \in
                         {k \in DOMAIN client.waiting :
                             daemon.link = "up" /\ k > Len(daemon.inbox)}}

RepliesFit ==
    /\ \A k \in DOMAIN daemon.inbox :
           /\ daemon.inbox[k].to \in DOMAIN client.requests
           /\ daemon.inbox[k].type \in Answers(client.requests[daemon.inbox[k].to].what)
    /\ daemon.owed \subseteq DOMAIN client.requests
    /\ Len(line.jobs) = 1 =>
           daemon.orderly /\ \A a, b \in daemon.owed : a = b
    /\ daemon.orderly =>
           /\ client.dead # "undefined"
           /\ \A i \in DOMAIN client.requests : client.requests[i].got.to \in {0, i}
           /\ phase # "ended" => InStep

(* The only job wants a password for a program.                             *)
Sole(jobs) == Len(jobs) = 1 /\ jobs[1].kind = "password" /\ jobs[1].program

Earned(s) ==
    \/ s.ran[1] \in {"ok", "unstarted"}
    \/ \E i \in DOMAIN s.requests :
           /\ s.requests[i].what = "password"
           /\ s.requests[i].got.type \in {"interrupt", "no_answer"}

Deserved ==
    Sole(line.jobs) /\ phase # "ended" =>
        /\ client.shouldExit => event = {}
        /\ client.shouldExit /\ client.code = "ok" => Earned(client) \/ line.wait
        /\ \A i \in DOMAIN client.requests :
               client.requests[i].what = "unpause" =>
                   /\ client.requests[i].then = "ok" => Earned(client)
                   /\ \A k \in Unresolved(client) : client.requests[k].what = "unpause"

IInv ==
    /\ Typed
    /\ QueuesFit(client, line.jobs)
    /\ Watched(client)
    /\ EventsFit
    /\ RepliesFit
    /\ Deserved

-----------------------------------------------------------------------------
(* Sequences.                                                               *)

LEMMA AppendIs ==
  ASSUME NEW S, NEW q \in Seq(S), NEW e \in S
  PROVE  /\ Append(q, e) \in Seq(S) /\ Append(q, e) # <<>>
         /\ Len(Append(q, e)) = Len(q) + 1 /\ Len(q) \in Nat
         /\ DOMAIN Append(q, e) = 1..Len(q) + 1
         /\ DOMAIN q = 1..Len(q)
         /\ \A k \in 1..Len(q) : Append(q, e)[k] = q[k]
         /\ Append(q, e)[Len(q) + 1] = e
  OBVIOUS

LEMMA TailIs ==
  ASSUME NEW S, NEW q \in Seq(S), q # <<>>
  PROVE  /\ Tail(q) \in Seq(S) /\ Head(q) = q[1] /\ Head(q) \in S
         /\ Len(q) \in Nat /\ Len(q) >= 1 /\ Len(Tail(q)) = Len(q) - 1
         /\ DOMAIN Tail(q) = 1..Len(q) - 1 /\ DOMAIN q = 1..Len(q)
         /\ \A k \in 1..Len(q) - 1 : Tail(q)[k] = q[k + 1]
  BY HeadTailProperties, EmptySeq, LenProperties

-----------------------------------------------------------------------------
(* What the handlers make of the client s, for a job j of the command line. *)

NewRequest(j, what, then) ==
    [job |-> j, what |-> what, then |-> then, calls |-> 0, got |-> NoReply]

(* A handler ends the program, and asks for nothing more ...                *)
Ends(s, t) ==
    /\ t.requests = s.requests /\ t.toSend = s.toSend /\ t.canTake = s.canTake
    /\ t.shouldExit \/ t.dead # "no"

(* ... or it asks for something.                                            *)
Asks(s, t, j, what, then) ==
    /\ t.requests = Append(s.requests, NewRequest(j, what, then))
    /\ t.toSend = Append(s.toSend, Len(s.requests) + 1)
    /\ t.canTake /\ t.dead = "no"

(* What it leaves alone.                                                    *)
Steady(s, t, j) ==
    /\ t.started = s.started /\ t.waiting = s.waiting /\ t.hasReply = s.hasReply
    /\ \A k \in DOMAIN s.tries : k # j => t.tries[k] = s.tries[k]
    /\ t.tries[j] <= s.tries[j]
    /\ s.shouldExit => t.shouldExit

Drawn == [Jobs -> Outcome \ {"none"}]

LEMMA ExitIs ==
  ASSUME NEW jobs, NEW s \in ClientRecord(jobs), NEW code \in Status, NEW j \in DOMAIN jobs
  PROVE  /\ Exit(s, code) \in ClientRecord(jobs)
         /\ Steady(s, Exit(s, code), j) /\ Ends(s, Exit(s, code))
         /\ Exit(s, code).shouldExit /\ Exit(s, code).code = code
         /\ Exit(s, code).ran = s.ran /\ Exit(s, code).dead = s.dead
         /\ Exit(s, code).tries = s.tries
<1>1. s.tries[j] \in Nat
  BY DEF ClientRecord
<1>2. Exit(s, code) \in ClientRecord(jobs)
  BY DEF ClientRecord, Exit
<1> QED
  BY <1>1, <1>2 DEF ClientRecord, Exit, Steady, Ends

LEMMA DieIs ==
  ASSUME NEW jobs, NEW s \in ClientRecord(jobs), NEW how \in {"signal", "undefined"},
         NEW j \in DOMAIN jobs
  PROVE  /\ Die(s, how) \in ClientRecord(jobs)
         /\ Steady(s, Die(s, how), j) /\ Ends(s, Die(s, how))
         /\ Die(s, how).shouldExit = s.shouldExit
         /\ Die(s, how).ran = s.ran /\ Die(s, how).dead = how
         /\ Die(s, how).tries = s.tries /\ Die(s, how).code = s.code
<1>1. s.tries[j] \in Nat
  BY DEF ClientRecord
<1>2. Die(s, how) \in ClientRecord(jobs)
  BY DEF ClientRecord, Die
<1>3. /\ how # "no" /\ Die(s, how).dead = how
      /\ Die(s, how).requests = s.requests /\ Die(s, how).toSend = s.toSend
      /\ Die(s, how).canTake = s.canTake /\ Die(s, how).started = s.started
      /\ Die(s, how).waiting = s.waiting /\ Die(s, how).hasReply = s.hasReply
      /\ Die(s, how).shouldExit = s.shouldExit /\ Die(s, how).ran = s.ran
      /\ Die(s, how).tries = s.tries /\ Die(s, how).code = s.code
  BY DEF ClientRecord, Die
<1> QED
  BY <1>1, <1>2, <1>3 DEF Steady, Ends

(* Of a program that was run without a password.                            *)
LEMMA RunIs ==
  ASSUME NEW s \in ClientRecord(line.jobs), NEW j \in Jobs, NEW o \in Drawn,
         NEW t, t = RunOnItsOwn(s, j, o)
  PROVE  /\ t \in ClientRecord(line.jobs) /\ Steady(s, t, j) /\ Ends(s, t)
         /\ t.dead \in {s.dead, "signal"}
         /\ t.dead # "signal" => t.shouldExit
         /\ t.shouldExit /\ ~s.shouldExit /\ t.code = "ok" =>
                t.ran[j] \in {"ok", "unstarted"}
<1>1. PICK u : u = [s EXCEPT !.ran[j] = o[j],
                             !.tries[j] = IF o[j] = "ok" THEN @ ELSE 0]
  OBVIOUS
<1>10. PICK ran, tries : /\ ran = [s.ran EXCEPT ![j] = o[j]]
                         /\ tries = [s.tries EXCEPT ![j] = IF o[j] = "ok" THEN @ ELSE 0]
  OBVIOUS
<1>11. u = [s EXCEPT !.ran = ran, !.tries = tries]
  BY <1>1, <1>10
<1>12. /\ o[j] \in Outcome /\ s.tries[j] \in Nat /\ j \in DOMAIN line.jobs
       /\ s.ran \in [DOMAIN line.jobs -> Outcome] /\ s.tries \in [DOMAIN line.jobs -> Nat]
  BY DEF Drawn, Jobs, ClientRecord
<1>2. /\ ran \in [DOMAIN line.jobs -> Outcome] /\ ran[j] = o[j]
      /\ tries \in [DOMAIN line.jobs -> Nat] /\ tries[j] <= s.tries[j]
      /\ \A k \in Jobs : k # j => tries[k] = s.tries[k] /\ ran[k] = s.ran[k]
  BY <1>10, <1>12 DEF Jobs
<1>3. /\ u \in ClientRecord(line.jobs) /\ u.ran[j] = o[j] /\ u.tries[j] <= s.tries[j]
      /\ \A k \in Jobs : k # j => u.tries[k] = s.tries[k]
  BY <1>11, <1>2 DEF ClientRecord, Jobs
<1>4. /\ u.requests = s.requests /\ u.toSend = s.toSend /\ u.canTake = s.canTake
      /\ u.started = s.started /\ u.waiting = s.waiting /\ u.hasReply = s.hasReply
      /\ u.shouldExit = s.shouldExit /\ u.dead = s.dead /\ u.code = s.code
  BY <1>11 DEF ClientRecord
<1>5. DOMAIN s.tries = Jobs
  BY DEF ClientRecord, Jobs
<1>6. CASE o[j] = "signal"
  <2>1. t = Die(u, "signal")
    BY <1>1, <1>6 DEF RunOnItsOwn
  <2>2. /\ t \in ClientRecord(line.jobs) /\ Steady(u, t, j) /\ Ends(u, t)
        /\ t.dead = "signal" /\ t.shouldExit = u.shouldExit
    BY <2>1, <1>3, DieIs DEF Jobs
  <2> QED
    BY <2>2, <1>3, <1>4, <1>5 DEF Steady, Ends, ClientRecord, Jobs
<1>7. CASE o[j] # "signal"
  <2>1. PICK code : code = IF o[j] \in {"ok", "unstarted"} THEN "ok" ELSE "failed"
    OBVIOUS
  <2>2. t = Exit(u, code) /\ code \in Status
    BY <1>1, <1>7, <2>1 DEF RunOnItsOwn, Status
  <2>3. /\ t \in ClientRecord(line.jobs) /\ Steady(u, t, j) /\ Ends(u, t)
        /\ t.dead = u.dead /\ t.shouldExit /\ t.code = code /\ t.ran = u.ran
    BY <2>2, <1>3, ExitIs DEF Jobs
  <2> QED
    BY <2>1, <2>3, <1>3, <1>4, <1>5 DEF Steady, Ends, ClientRecord, Jobs
<1> QED
  BY <1>6, <1>7

(* The failed handler of a request.                                         *)
LEMMA FailIs ==
  ASSUME NEW s \in ClientRecord(line.jobs), NEW j \in Jobs, NEW o \in Drawn,
         NEW what, NEW t, t = Fail(s, j, what, o)
  PROVE  /\ t \in ClientRecord(line.jobs) /\ Steady(s, t, j) /\ Ends(s, t)
         /\ t.dead \in {s.dead, "signal"}
         /\ t.dead # "signal" => t.shouldExit
         /\ t.shouldExit /\ ~s.shouldExit /\ t.code = "ok" =>
                t.ran[j] \in {"ok", "unstarted"}
         /\ what = "unpause" => t.ran = s.ran
<1>1. CASE FailureRuns(j, what)
  BY <1>1, RunIs DEF Fail, FailureRuns
<1>2. CASE ~FailureRuns(j, what)
  <2>1. t = Exit(s, "failed") /\ "failed" \in Status
    BY <1>2 DEF Fail, Status
  <2> QED
    BY <2>1, ExitIs DEF Jobs
<1> QED
  BY <1>1, <1>2

LEMMA QueueIs ==
  ASSUME NEW s \in ClientRecord(line.jobs), NEW j \in Jobs, NEW what \in What,
         NEW then \in Status, NEW o, daemon.link # "none", s.dead = "no",
         line.jobs \in Seq(Job),
         NEW t, t = Queue(s, j, what, then, o)
  PROVE  /\ t \in ClientRecord(line.jobs) /\ Steady(s, t, j)
         /\ Asks(s, t, j, what, then)
         /\ t.tries = s.tries /\ t.ran = s.ran
         /\ t.shouldExit = s.shouldExit /\ t.code = s.code
<1>1. PICK r : r = NewRequest(j, what, then)
  OBVIOUS
<1>2. j \in Nat
  BY DEF Jobs
<1>3. r \in Request
  BY <1>1, <1>2 DEF NewRequest, Request, NoReply
<1>4. Append(s.requests, r) \in Seq(Request) /\ Len(s.requests) + 1 \in Nat
  BY <1>3, AppendIs DEF ClientRecord
<1>5. Append(s.toSend, Len(s.requests) + 1) \in Seq(Nat)
  BY <1>4, AppendIs DEF ClientRecord
<1>6. t = [s EXCEPT !.requests = Append(s.requests, r),
                    !.toSend = Append(s.toSend, Len(s.requests) + 1),
                    !.canTake = TRUE]
  BY <1>1 DEF Queue, NewRequest
<1>7. t \in ClientRecord(line.jobs)
  BY <1>4, <1>5, <1>6 DEF ClientRecord
<1>8. /\ t.requests = Append(s.requests, r)
      /\ t.toSend = Append(s.toSend, Len(s.requests) + 1)
      /\ t.canTake /\ t.dead = s.dead
      /\ t.tries = s.tries /\ t.ran = s.ran
      /\ t.shouldExit = s.shouldExit /\ t.code = s.code
      /\ t.started = s.started /\ t.waiting = s.waiting /\ t.hasReply = s.hasReply
  BY <1>6 DEF ClientRecord
<1>9. s.tries[j] \in Nat
  BY DEF ClientRecord, Jobs
<1> QED
  BY <1>1, <1>7, <1>8, <1>9 DEF Asks, Steady

(* What the request says that a job asks, with progress paused or not.      *)
LEMMA AskIs ==
  ASSUME NEW s \in ClientRecord(line.jobs), NEW j \in Jobs, NEW o \in Drawn,
         daemon.link # "none", s.dead = "no", line.jobs \in Seq(Job),
         NEW t, t = Ask(s, j, o)
  PROVE  /\ t \in ClientRecord(line.jobs) /\ Steady(s, t, j)
         /\ t.tries = s.tries /\ t.ran = s.ran
         /\ t.shouldExit = s.shouldExit /\ t.code = s.code
         /\ \E what \in What \ {"pause", "unpause"} :
                Asks(s, t, j, what, "ok") /\ Fits(line.jobs, j, what)
<1>1. PICK what : what = IF line.jobs[j].kind # "password" THEN line.jobs[j].kind
                         ELSE IF line.jobs[j].program THEN "cached" ELSE "password"
  OBVIOUS
<1>2. line.jobs[j] \in Job
  BY DEF Jobs
<1>3. line.jobs[j].kind \in Kind
  BY <1>2 DEF Job
<1>4. what \in What \ {"pause", "unpause"} /\ "ok" \in Status /\ Fits(line.jobs, j, what)
  BY <1>1, <1>3 DEF Kind, What, Status, Fits
<1>5. t = Queue(s, j, what, "ok", o)
  BY <1>1 DEF Ask
<1> QED
  BY <1>4, <1>5, QueueIs

(* How the end of a question ends the program, or asks for progress.        *)
LEMMA FinishIs ==
  ASSUME NEW s \in ClientRecord(line.jobs), NEW j \in Jobs, NEW o,
         NEW status \in Status,
         daemon.link # "none", s.dead = "no", line.jobs \in Seq(Job),
         NEW t, t = Finish(s, j, status, o)
  PROVE  /\ t \in ClientRecord(line.jobs) /\ Steady(s, t, j)
         /\ t.tries = s.tries /\ t.ran = s.ran /\ t.dead = "no"
         /\ \/ Ends(s, t) /\ t.code = status
            \/ /\ Asks(s, t, j, "unpause", status)
               /\ t.shouldExit = s.shouldExit /\ t.code = s.code
<1>1. CASE line.jobs[j].pause
  <2>1. t = Queue(s, j, "unpause", status, o) /\ "unpause" \in What
    BY <1>1 DEF Finish, What
  <2> QED
    BY <2>1, QueueIs DEF Asks
<1>2. CASE ~line.jobs[j].pause
  <2>1. t = Exit(s, status)
    BY <1>2 DEF Finish
  <2> QED
    BY <2>1, ExitIs DEF Jobs
<1> QED
  BY <1>1, <1>2

(* The job asks for a password for a program.                               *)
WantsProgram(j) == line.jobs[j].kind = "password" /\ line.jobs[j].program

(* What a reply to the request r of s leads to: the status 0 was earned, a  *)
(* request that is made follows from the one that was replied to.           *)
Merited(t, r, type) ==
    \/ t.ran[r.job] \in {"ok", "unstarted"}
    \/ r.what = "password" /\ type \in {"interrupt", "no_answer"}

Follows(s, t, r, what) ==
    \/ what = "unpause" /\ r.what # "unpause"
    \/ /\ r.what = "pause" /\ what # "pause"
       /\ t.tries[r.job] = s.tries[r.job]
    \/ /\ r.what = "cached" /\ what = "password"
       /\ t.tries[r.job] = s.tries[r.job]
    \/ /\ r.what = "password" /\ what = "password"
       /\ t.tries[r.job] = s.tries[r.job] - 1 /\ t.tries[r.job] >= 1

Led(s, t, r, type, what, then) ==
    /\ Asks(s, t, r.job, what, then)
    /\ Fits(line.jobs, r.job, what) /\ Follows(s, t, r, what)
    /\ what = "unpause" /\ then = "ok" /\ WantsProgram(r.job)
           => Merited(t, r, type)

HandlerResult(s, t, r, type) ==
    /\ t \in ClientRecord(line.jobs) /\ Steady(s, t, r.job)
    /\ t.dead # "assert"
    /\ t.dead = "undefined" => type # "nak" /\ ~Takes(r.what, type)
    /\ \/ Ends(s, t)
       \/ \E what \in What, then \in Status : Led(s, t, r, type, what, then)
    /\ r.what = "unpause" => Ends(s, t) /\ t.ran = s.ran
    /\ t.shouldExit /\ ~s.shouldExit /\ t.code = "ok" /\ WantsProgram(r.job)
       => Merited(t, r, type) \/ (r.what = "unpause" /\ r.then = "ok")

LEMMA TryAgainIs ==
  ASSUME NEW s \in ClientRecord(line.jobs), NEW r \in Request, r.job \in Jobs,
         NEW o \in Drawn, NEW type,
         daemon.link # "none", s.dead = "no", line.jobs \in Seq(Job),
         r.what = "password", line.jobs[r.job].kind = "password",
         s.tries[r.job] >= 1,
         NEW t, t = TryAgain(s, r.job, o)
  PROVE  HandlerResult(s, t, r, type)
<1> DEFINE j == r.job
<1>1. PICK tries : tries = [s.tries EXCEPT ![j] = @ - 1]
  OBVIOUS
<1>2. PICK u : u = [s EXCEPT !.tries = tries]
  OBVIOUS
<1>3. s.tries \in [DOMAIN line.jobs -> Nat] /\ s.tries[j] \in Nat
  BY DEF ClientRecord, Jobs
<1>4. /\ tries \in [DOMAIN line.jobs -> Nat] /\ tries[j] = s.tries[j] - 1
      /\ tries[j] \in Nat /\ tries[j] <= s.tries[j]
      /\ \A k \in Jobs : k # j => tries[k] = s.tries[k]
  BY <1>1, <1>3 DEF Jobs
<1>5. /\ u \in ClientRecord(line.jobs) /\ u.tries = tries
      /\ u.requests = s.requests /\ u.toSend = s.toSend /\ u.canTake = s.canTake
      /\ u.started = s.started /\ u.waiting = s.waiting /\ u.hasReply = s.hasReply
      /\ u.shouldExit = s.shouldExit /\ u.dead = s.dead /\ u.code = s.code
      /\ u.ran = s.ran
  BY <1>2, <1>4 DEF ClientRecord
<1>6. DOMAIN s.tries = Jobs /\ DOMAIN u.tries = Jobs
  BY <1>3, <1>4, <1>5 DEF Jobs
<1>7. Fits(line.jobs, j, "password") /\ Fits(line.jobs, j, "unpause")
  BY DEF Fits
<1>8. u = [s EXCEPT !.tries[j] = @ - 1]
  BY <1>1, <1>2
<1>9. CASE u.tries[j] > 0
  <2>1. t = Queue(u, j, "password", "ok", o) /\ "password" \in What /\ "ok" \in Status
    BY <1>8, <1>9 DEF TryAgain, What, Status
  <2>2. /\ t \in ClientRecord(line.jobs) /\ Steady(u, t, j)
        /\ Asks(u, t, j, "password", "ok") /\ t.tries = u.tries /\ t.ran = u.ran
        /\ t.shouldExit = u.shouldExit /\ t.code = u.code
    BY <2>1, <1>5, QueueIs
  <2>3. Steady(s, t, j) /\ Asks(s, t, j, "password", "ok")
    BY <2>2, <1>3, <1>4, <1>5, <1>6 DEF Steady, Asks
  <2>4. Follows(s, t, r, "password")
    BY <2>2, <1>4, <1>5, <1>9 DEF Follows
  <2>5. Led(s, t, r, type, "password", "ok")
    BY <2>3, <2>4, <1>7 DEF Led
  <2> QED
    BY <2>1, <2>2, <2>3, <2>5, <1>5 DEF HandlerResult, Asks
<1>10. CASE ~(u.tries[j] > 0) /\ o[j] = "signal"
  <2>1. t = Die(u, "signal")
    BY <1>8, <1>10 DEF TryAgain
  <2>2. /\ t \in ClientRecord(line.jobs) /\ Steady(u, t, j) /\ Ends(u, t)
        /\ t.dead = "signal" /\ t.shouldExit = u.shouldExit /\ t.tries = u.tries
    BY <2>1, <1>5, DieIs DEF Jobs
  <2>3. Steady(s, t, j) /\ Ends(s, t)
    BY <2>2, <1>3, <1>4, <1>5, <1>6 DEF Steady, Ends
  <2> QED
    BY <2>2, <2>3, <1>5 DEF HandlerResult
<1>11. CASE ~(u.tries[j] > 0) /\ o[j] # "signal"
  <2>1. t = Finish(u, j, "failed", o) /\ "failed" \in Status /\ "unpause" \in What
    BY <1>8, <1>11 DEF TryAgain, Status, What
  <2>2. /\ t \in ClientRecord(line.jobs) /\ Steady(u, t, j)
        /\ t.tries = u.tries /\ t.ran = u.ran /\ t.dead = "no"
        /\ \/ Ends(u, t) /\ t.code = "failed"
           \/ /\ Asks(u, t, j, "unpause", "failed")
              /\ t.shouldExit = u.shouldExit /\ t.code = u.code
    BY <2>1, <1>5, FinishIs
  <2>3. Steady(s, t, j)
    BY <2>2, <1>3, <1>4, <1>5, <1>6 DEF Steady
  <2>4. CASE Ends(u, t) /\ t.code = "failed"
    <3>1. Ends(s, t)
      BY <2>4, <1>5 DEF Ends
    <3> QED
      BY <2>2, <2>3, <2>4, <3>1 DEF HandlerResult
  <2>5. CASE Asks(u, t, j, "unpause", "failed") /\ t.shouldExit = u.shouldExit
    <3>1. Led(s, t, r, type, "unpause", "failed")
      BY <2>5, <1>5, <1>7 DEF Led, Asks, Follows
    <3> QED
      BY <2>1, <2>2, <2>3, <2>5, <3>1, <1>5 DEF HandlerResult
  <2> QED
    BY <2>2, <2>4, <2>5
<1> QED
  BY <1>9, <1>10, <1>11

(* What a handler that has only noted how the program ended finishes with.  *)
LEMMA FinishLeads ==
  ASSUME NEW s \in ClientRecord(line.jobs), NEW u \in ClientRecord(line.jobs),
         NEW r \in Request, r.job \in Jobs,
         NEW o, NEW type, NEW status \in Status,
         daemon.link # "none", u.dead = "no", line.jobs \in Seq(Job),
         u.requests = s.requests, u.toSend = s.toSend, u.canTake = s.canTake,
         Steady(s, u, r.job), r.what # "unpause",
         status = "ok" /\ WantsProgram(r.job) => Merited(u, r, type),
         u.shouldExit /\ ~s.shouldExit /\ u.code = "ok"
             /\ WantsProgram(r.job) => Merited(u, r, type),
         NEW t, t = Finish(u, r.job, status, o)
  PROVE  HandlerResult(s, t, r, type)
<1> DEFINE j == r.job
<1>1. /\ t \in ClientRecord(line.jobs) /\ Steady(u, t, j)
      /\ t.tries = u.tries /\ t.ran = u.ran /\ t.dead = "no"
      /\ \/ Ends(u, t) /\ t.code = status
         \/ /\ Asks(u, t, j, "unpause", status)
            /\ t.shouldExit = u.shouldExit /\ t.code = u.code
  BY FinishIs
<1>2. DOMAIN s.tries = Jobs /\ DOMAIN u.tries = Jobs /\ s.tries[j] \in Nat
      /\ u.tries[j] \in Nat
  BY DEF ClientRecord, Jobs
<1>3. Steady(s, t, j)
  BY <1>1, <1>2 DEF Steady
<1>4. Merited(u, r, type) => Merited(t, r, type)
  BY <1>1 DEF Merited
<1>5. CASE Ends(u, t) /\ t.code = status
  <2>1. Ends(s, t)
    BY <1>5 DEF Ends
  <2> QED
    BY <1>1, <1>3, <1>4, <1>5, <2>1 DEF HandlerResult
<1>6. CASE Asks(u, t, j, "unpause", status) /\ t.shouldExit = u.shouldExit
           /\ t.code = u.code
  <2>1. Fits(line.jobs, j, "unpause") /\ "unpause" \in What
    BY DEF Fits, What
  <2>2. Led(s, t, r, type, "unpause", status)
    BY <1>4, <1>6, <2>1 DEF Led, Asks, Follows
  <2> QED
    BY <1>1, <1>3, <1>4, <1>6, <2>1, <2>2 DEF HandlerResult
<1> QED
  BY <1>1, <1>5, <1>6

(* A client that only noted how its program ended.                          *)
Noted(s, j, o) == [s EXCEPT !.ran[j] = o[j]]

LEMMA NotedIs ==
  ASSUME NEW s \in ClientRecord(line.jobs), NEW j \in Jobs, NEW o \in Drawn,
         NEW u, u = Noted(s, j, o)
  PROVE  /\ u \in ClientRecord(line.jobs) /\ Steady(s, u, j)
         /\ u.requests = s.requests /\ u.toSend = s.toSend /\ u.canTake = s.canTake
         /\ u.shouldExit = s.shouldExit /\ u.dead = s.dead /\ u.code = s.code
         /\ u.tries = s.tries /\ u.ran[j] = o[j]
<1>1. PICK ran : ran = [s.ran EXCEPT ![j] = o[j]]
  OBVIOUS
<1>2. /\ o[j] \in Outcome /\ s.ran \in [DOMAIN line.jobs -> Outcome]
      /\ j \in DOMAIN line.jobs /\ s.tries[j] \in Nat
  BY DEF Drawn, Jobs, ClientRecord
<1>3. /\ ran \in [DOMAIN line.jobs -> Outcome] /\ ran[j] = o[j]
      /\ \A k \in Jobs : k # j => ran[k] = s.ran[k]
  BY <1>1, <1>2 DEF Jobs
<1>4. u = [s EXCEPT !.ran = ran]
  BY <1>1 DEF Noted
<1>5. u \in ClientRecord(line.jobs)
  BY <1>3, <1>4 DEF ClientRecord
<1>6. /\ u.requests = s.requests /\ u.toSend = s.toSend /\ u.canTake = s.canTake
      /\ u.shouldExit = s.shouldExit /\ u.dead = s.dead /\ u.code = s.code
      /\ u.tries = s.tries /\ u.ran = ran
      /\ u.started = s.started /\ u.waiting = s.waiting /\ u.hasReply = s.hasReply
  BY <1>4 DEF ClientRecord
<1>7. DOMAIN s.tries = Jobs
  BY DEF ClientRecord, Jobs
<1> QED
  BY <1>2, <1>3, <1>5, <1>6, <1>7 DEF Steady

LEMMA OnPasswordAnswerIs ==
  ASSUME NEW s \in ClientRecord(line.jobs), NEW r \in Request, r.job \in Jobs,
         NEW o \in Drawn, NEW type,
         daemon.link # "none", s.dead = "no", line.jobs \in Seq(Job),
         r.what = "password", line.jobs[r.job].kind = "password",
         s.tries[r.job] >= 1,
         NEW t, t = OnPasswordAnswer(s, r.job, type, o)
  PROVE  HandlerResult(s, t, r, type)
<1> DEFINE j == r.job
<1>1. "ok" \in Status /\ "failed" \in Status
  BY DEF Status
<1>2. CASE type = "no_answer"
  <2>1. PICK u : u = Fail(s, j, "password", o)
    OBVIOUS
  <2>2. /\ u \in ClientRecord(line.jobs) /\ Steady(s, u, j) /\ Ends(s, u)
        /\ u.dead \in {s.dead, "signal"}
    BY <2>1, FailIs
  <2>3. Merited(u, r, type)
    BY <1>2 DEF Merited
  <2>4. CASE u.dead = "no"
    <3>1. t = Finish(u, j, "ok", o)
      BY <1>2, <2>1, <2>4 DEF OnPasswordAnswer, Noted
    <3> QED
      BY <3>1, <1>1, <2>2, <2>3, <2>4, FinishLeads DEF Ends
  <2>5. CASE u.dead # "no"
    <3>1. t = u
      BY <1>2, <2>1, <2>5 DEF OnPasswordAnswer, Noted
    <3> QED
      BY <3>1, <2>2, <2>3, <2>5 DEF HandlerResult
  <2> QED
    BY <2>4, <2>5
<1>3. CASE type # "no_answer" /\ (type = "interrupt" \/ ~line.jobs[j].program)
  <2>1. t = Finish(s, j, "ok", o)
    BY <1>3 DEF OnPasswordAnswer
  <2>2. WantsProgram(j) => Merited(s, r, type)
    BY <1>3 DEF Merited, WantsProgram
  <2>3. s.tries[j] \in Nat
    BY DEF ClientRecord, Jobs
  <2>4. Steady(s, s, j)
    BY <2>3 DEF Steady
  <2> QED
    BY <2>1, <2>2, <2>4, <1>1, FinishLeads
<1>4. CASE type # "no_answer" /\ type # "interrupt" /\ line.jobs[j].program
  <2>1. PICK u : u = Noted(s, j, o)
    OBVIOUS
  <2>2. /\ u \in ClientRecord(line.jobs) /\ Steady(s, u, j)
        /\ u.requests = s.requests /\ u.toSend = s.toSend /\ u.canTake = s.canTake
        /\ u.shouldExit = s.shouldExit /\ u.dead = s.dead /\ u.code = s.code
        /\ u.tries = s.tries /\ u.ran[j] = o[j]
    BY <2>1, NotedIs
  <2>3. CASE o[j] \in {"ok", "unstarted"}
    <3>1. t = Finish(u, j, "ok", o)
      BY <1>4, <2>1, <2>3 DEF OnPasswordAnswer, Noted
    <3>2. Merited(u, r, type)
      BY <2>2, <2>3 DEF Merited
    <3> QED
      BY <3>1, <3>2, <2>2, <1>1, FinishLeads
  <2>4. CASE o[j] = "unread"
    <3>1. t = Finish(u, j, "failed", o)
      BY <1>4, <2>1, <2>4 DEF OnPasswordAnswer, Noted
    <3> QED
      BY <3>1, <2>2, <1>1, FinishLeads
  <2>5. CASE o[j] \notin {"ok", "unstarted", "unread"}
    <3>1. t = TryAgain(u, j, o)
      BY <1>4, <2>1, <2>5 DEF OnPasswordAnswer, Noted
    <3>2. HandlerResult(u, t, r, type)
      BY <3>1, <2>2, TryAgainIs
    <3>3. DOMAIN s.tries = Jobs /\ DOMAIN u.tries = Jobs
      BY <2>2 DEF ClientRecord, Jobs
    <3>4. Steady(s, t, j)
      BY <3>2, <3>3, <2>2 DEF HandlerResult, Steady
    <3>5. CASE Ends(u, t)
      <4>1. Ends(s, t)
        BY <3>5, <2>2 DEF Ends
      <4> QED
        BY <4>1, <3>2, <3>4, <2>2 DEF HandlerResult
    <3>6. ASSUME NEW what \in What, NEW then \in Status, Led(u, t, r, type, what, then)
          PROVE  HandlerResult(s, t, r, type)
      <4>1. Led(s, t, r, type, what, then)
        BY <3>6, <2>2 DEF Led, Asks, Follows
      <4> QED
        BY <4>1, <3>2, <3>4, <2>2 DEF HandlerResult
    <3> QED
      BY <3>2, <3>5, <3>6 DEF HandlerResult
  <2> QED
    BY <2>3, <2>4, <2>5
<1> QED
  BY <1>2, <1>3, <1>4

LEMMA OnCachedPasswordsIs ==
  ASSUME NEW s \in ClientRecord(line.jobs), NEW r \in Request, r.job \in Jobs,
         NEW o \in Drawn, NEW type,
         daemon.link # "none", s.dead = "no", line.jobs \in Seq(Job),
         r.what = "cached", line.jobs[r.job].kind = "password",
         NEW t, t = OnCachedPasswords(s, r.job, type, o)
  PROVE  HandlerResult(s, t, r, type)
<1> DEFINE j == r.job
<1>1. "ok" \in Status /\ "password" \in What /\ Fits(line.jobs, j, "password")
  BY DEF Status, What, Fits
<1>2. PICK u : u = Noted(s, j, o)
  OBVIOUS
<1>3. /\ u \in ClientRecord(line.jobs) /\ Steady(s, u, j)
      /\ u.requests = s.requests /\ u.toSend = s.toSend /\ u.canTake = s.canTake
      /\ u.shouldExit = s.shouldExit /\ u.dead = s.dead /\ u.code = s.code
      /\ u.tries = s.tries /\ u.ran[j] = o[j]
  BY <1>2, NotedIs
<1>4. /\ DOMAIN s.tries = Jobs /\ DOMAIN u.tries = Jobs
      /\ s.tries[j] \in Nat
  BY <1>3 DEF ClientRecord, Jobs
<1>5. Steady(s, s, j)
  BY <1>4 DEF Steady
<1>6. CASE type # "no_answer" /\ o[j] = "ok"
  <2>1. t = Exit(u, "ok")
    BY <1>2, <1>6 DEF OnCachedPasswords, Noted
  <2>2. /\ t \in ClientRecord(line.jobs) /\ Steady(u, t, j) /\ Ends(u, t)
        /\ t.dead = u.dead /\ t.ran = u.ran
    BY <2>1, <1>1, <1>3, ExitIs DEF Jobs
  <2>3. Steady(s, t, j) /\ Ends(s, t)
    BY <2>2, <1>3, <1>4 DEF Steady, Ends
  <2>4. Merited(t, r, type)
    BY <2>2, <1>3, <1>6 DEF Merited
  <2> QED
    BY <2>2, <2>3, <2>4, <1>3 DEF HandlerResult
<1>7. ASSUME NEW v \in {s, u}, t = Queue(v, j, "password", "ok", o)
      PROVE  HandlerResult(s, t, r, type)
  <2>1. /\ v \in ClientRecord(line.jobs) /\ Steady(s, v, j)
        /\ v.requests = s.requests /\ v.toSend = s.toSend
        /\ v.shouldExit = s.shouldExit /\ v.dead = "no" /\ v.tries = s.tries
    BY <1>3, <1>5
  <2>2. /\ t \in ClientRecord(line.jobs) /\ Steady(v, t, j)
        /\ Asks(v, t, j, "password", "ok")
        /\ t.tries = v.tries /\ t.shouldExit = v.shouldExit
    BY <1>7, <2>1, <1>1, QueueIs
  <2>3. Steady(s, t, j)
    BY <2>1, <2>2, <1>4 DEF Steady
  <2>4. Led(s, t, r, type, "password", "ok")
    BY <2>1, <2>2, <1>1 DEF Led, Asks, Follows
  <2> QED
    BY <2>1, <2>2, <2>3, <2>4, <1>1 DEF HandlerResult, Asks
<1>8. CASE ~(type # "no_answer" /\ o[j] = "ok")
  <2>1. t = Queue(s, j, "password", "ok", o) \/ t = Queue(u, j, "password", "ok", o)
    BY <1>2, <1>8 DEF OnCachedPasswords, Noted
  <2> QED
    BY <2>1, <1>7
<1> QED
  BY <1>6, <1>8

(* Of each request that the daemon replies to.                              *)
LEMMA HandleIs ==
  ASSUME NEW s \in ClientRecord(line.jobs), NEW r \in Request, r.job \in Jobs,
         NEW o \in Drawn, NEW type,
         daemon.link # "none", s.dead = "no", line.jobs \in Seq(Job),
         Fits(line.jobs, r.job, r.what),
         r.what = "password" => s.tries[r.job] >= 1,
         NEW t, t = Handle(s, r, type, o)
  PROVE  HandlerResult(s, t, r, type)
<1> DEFINE j == r.job
<1>1. /\ "ok" \in Status /\ "failed" \in Status
      /\ r.what \in What /\ r.then \in Status /\ line.jobs[j] \in Job
  BY DEF Status, Request, Jobs
<1>2. line.jobs[j].kind \in Kind
  BY <1>1 DEF Job
<1>3. /\ DOMAIN s.tries = Jobs /\ s.tries[j] \in Nat
  BY DEF ClientRecord, Jobs
<1>4. Steady(s, s, j)
  BY <1>3 DEF Steady
<1>5. CASE type = "nak"
  <2>1. t = Fail(s, j, r.what, o)
    BY <1>5 DEF Handle
  <2>2. /\ t \in ClientRecord(line.jobs) /\ Steady(s, t, j) /\ Ends(s, t)
        /\ t.dead \in {s.dead, "signal"}
        /\ t.shouldExit /\ ~s.shouldExit /\ t.code = "ok" =>
               t.ran[j] \in {"ok", "unstarted"}
        /\ r.what = "unpause" => t.ran = s.ran
    BY <2>1, FailIs
  <2> QED
    BY <2>2 DEF HandlerResult, Merited
<1>6. CASE type # "nak" /\ ~Takes(r.what, type)
  <2>1. t = Die(s, "undefined")
    BY <1>6 DEF Handle
  <2>2. /\ t \in ClientRecord(line.jobs) /\ Steady(s, t, j) /\ Ends(s, t)
        /\ t.dead = "undefined" /\ t.ran = s.ran /\ t.shouldExit = s.shouldExit
    BY <2>1, DieIs DEF Jobs
  <2> QED
    BY <2>2, <1>6 DEF HandlerResult
<1>7. CASE type # "nak" /\ Takes(r.what, type)
  <2>1. ASSUME NEW code \in Status, t = Exit(s, code),
               r.what \in {"plain", "ping", "quit", "unpause", "keystroke"},
               r.what = "unpause" => code = r.then
        PROVE  HandlerResult(s, t, r, type)
    <3>1. /\ t \in ClientRecord(line.jobs) /\ Steady(s, t, j) /\ Ends(s, t)
          /\ t.dead = s.dead /\ t.ran = s.ran /\ t.shouldExit /\ t.code = code
      BY <2>1, ExitIs DEF Jobs
    <3>2. r.what # "unpause" => ~WantsProgram(j)
      BY <2>1 DEF Fits, WantsProgram
    <3> QED
      BY <2>1, <3>1, <3>2 DEF HandlerResult
  <2>2. CASE r.what \in {"plain", "ping", "quit"}
    <3>1. t = Exit(s, "ok")
      BY <1>7, <2>2 DEF Handle
    <3> QED
      BY <3>1, <2>1, <2>2, <1>1
  <2>3. CASE r.what = "unpause"
    <3>1. t = Exit(s, r.then)
      BY <1>7, <2>3 DEF Handle
    <3> QED
      BY <3>1, <2>1, <2>3, <1>1
  <2>4. CASE r.what = "keystroke"
    <3>1. PICK code \in Status : t = Exit(s, code)
      BY <1>7, <2>4, <1>1 DEF Handle
    <3> QED
      BY <3>1, <2>1, <2>4
  <2>5. CASE r.what = "pause"
    <3>1. t = Ask(s, j, o)
      BY <1>7, <2>5 DEF Handle
    <3>2. /\ t \in ClientRecord(line.jobs) /\ Steady(s, t, j)
          /\ t.tries = s.tries /\ t.shouldExit = s.shouldExit
      BY <3>1, AskIs
    <3>3. PICK what \in What \ {"pause", "unpause"} :
              Asks(s, t, j, what, "ok") /\ Fits(line.jobs, j, what)
      BY <3>1, AskIs
    <3>4. Led(s, t, r, type, what, "ok")
      BY <2>5, <3>2, <3>3 DEF Led, Follows
    <3> QED
      BY <2>5, <3>2, <3>3, <3>4, <1>1 DEF HandlerResult, Asks
  <2>6. CASE r.what = "cached"
    <3>1. t = OnCachedPasswords(s, j, type, o) /\ line.jobs[j].kind = "password"
      BY <1>7, <2>6, <1>2 DEF Handle, Fits, Kind
    <3> QED
      BY <3>1, <2>6, OnCachedPasswordsIs
  <2>7. CASE r.what = "password"
    <3>1. t = OnPasswordAnswer(s, j, type, o) /\ line.jobs[j].kind = "password"
      BY <1>7, <2>7, <1>2 DEF Handle, Fits
    <3> QED
      BY <3>1, <2>7, OnPasswordAnswerIs
  <2>8. CASE r.what = "question"
    <3>1. PICK status \in Status : t = Finish(s, j, status, o)
      BY <1>7, <2>8, <1>1 DEF Handle
    <3>2. ~WantsProgram(j)
      BY <2>8 DEF Fits, WantsProgram
    <3> QED
      BY <3>1, <3>2, <2>8, <1>4, FinishLeads
  <2> QED
    BY <1>1, <2>2, <2>3, <2>4, <2>5, <2>6, <2>7, <2>8 DEF What
<1> QED
  BY <1>5, <1>6, <1>7

-----------------------------------------------------------------------------
(* The requests and the queues.                                             *)

(* The first request i of a queue of s leaves it.                           *)
LeavesQueue(s, m, i) ==
    \/ /\ s.waiting # <<>> /\ i = Head(s.waiting)
       /\ m.waiting = Tail(s.waiting) /\ m.toSend = s.toSend
    \/ /\ s.toSend # <<>> /\ i = Head(s.toSend)
       /\ m.toSend = Tail(s.toSend) /\ m.waiting = s.waiting

(* It is resolved.                                                          *)
Resolved(r, got) == [r EXCEPT !.calls = @ + 1, !.got = got]

ResolvedIn(s, m, i, got) ==
    /\ DOMAIN m.requests = DOMAIN s.requests
    /\ m.requests[i] = Resolved(s.requests[i], got)
    /\ \A k \in DOMAIN s.requests : k # i => m.requests[k] = s.requests[k]

LEMMA QueuesAre ==
  ASSUME NEW jobs, NEW s \in ClientRecord(jobs)
  PROVE  /\ s.requests \in Seq(Request) /\ s.toSend \in Seq(Nat)
         /\ s.waiting \in Seq(Nat)
         /\ DOMAIN s.requests = 1..Len(s.requests) /\ Len(s.requests) \in Nat
         /\ DOMAIN s.toSend = 1..Len(s.toSend) /\ Len(s.toSend) \in Nat
         /\ DOMAIN s.waiting = 1..Len(s.waiting) /\ Len(s.waiting) \in Nat
         /\ \A k \in DOMAIN s.requests : s.requests[k] \in Request
         /\ \A k \in DOMAIN s.toSend : s.toSend[k] \in Nat /\ s.toSend[k] \in Unresolved(s)
         /\ \A k \in DOMAIN s.waiting : s.waiting[k] \in Nat /\ s.waiting[k] \in Unresolved(s)
         /\ s.started \in Nat
         /\ \A j \in DOMAIN jobs : s.tries[j] \in Nat
<1>1. /\ s.requests \in Seq(Request) /\ s.toSend \in Seq(Nat) /\ s.waiting \in Seq(Nat)
      /\ s.started \in 0..Len(jobs) /\ s.tries \in [DOMAIN jobs -> Nat]
  BY DEF ClientRecord
<1> QED
  BY <1>1, LenProperties, SMTT(30) DEF Unresolved

LEMMA RequestIs ==
  ASSUME NEW r \in Request
  PROVE  /\ r.job \in Nat /\ r.what \in What /\ r.then \in Status /\ r.calls \in Nat
         /\ r.got.to \in Nat
         /\ \A got : /\ Resolved(r, got).job = r.job
                     /\ Resolved(r, got).what = r.what
                     /\ Resolved(r, got).then = r.then
                     /\ Resolved(r, got).calls = r.calls + 1
                     /\ Resolved(r, got).got = got
  BY DEF Request, Resolved

Elements(q) == {q[k] : k \in DOMAIN q}

(* The first of a strictly ordered queue is in it once.                     *)
LEMMA TailOrder ==
  ASSUME NEW q \in Seq(Nat), Increasing(q), q # <<>>, NEW p, p = Tail(q),
         NEW h, h = Head(q)
  PROVE  /\ h \in Elements(q) /\ Elements(p) = Elements(q) \ {h}
         /\ Increasing(p)
<1>1. PICK n : n = Len(q)
  OBVIOUS
<1>2. /\ DOMAIN q = 1..n /\ n \in Nat /\ n >= 1 /\ h = q[1]
      /\ DOMAIN p = 1..n - 1
      /\ \A k \in 1..n - 1 : p[k] = q[k + 1]
  BY <1>1, TailIs
<1>3. \A k \in 1..n : q[k] \in Nat
  BY <1>2
<1>4. \A k, l \in 1..n : k < l => q[k] < q[l]
  BY <1>2 DEF Increasing
<1>5. \A k \in 1..n - 1 : k + 1 \in 1..n /\ 1 < k + 1
  BY <1>2
<1>6. 1 \in 1..n
  BY <1>2
<1>7. \A k \in 1..n - 1 : q[k + 1] # h
  BY <1>2, <1>3, <1>4, <1>5, <1>6
<1>8. \A k \in 1..n : k # 1 => k - 1 \in 1..n - 1 /\ (k - 1) + 1 = k
  BY <1>2
<1>9. \A k \in DOMAIN p : p[k] \in Elements(q) \ {h}
  BY <1>2, <1>5, <1>7 DEF Elements
<1>10. ASSUME NEW k \in DOMAIN q, q[k] # h PROVE q[k] \in Elements(p)
  <2>1. k - 1 \in DOMAIN p /\ p[k - 1] = q[k]
    BY <1>2, <1>8, <1>10
  <2> QED
    BY <2>1 DEF Elements
<1>11. Elements(p) = Elements(q) \ {h}
  BY <1>9, <1>10, SMTT(30) DEF Elements
<1>12. ASSUME NEW a \in DOMAIN p, NEW b \in DOMAIN p, a < b PROVE p[a] < p[b]
  <2>1. a + 1 \in 1..n /\ b + 1 \in 1..n /\ a + 1 < b + 1
    BY <1>2, <1>12
  <2> QED
    BY <2>1, <1>2, <1>4
<1> QED
  BY <1>2, <1>6, <1>11, <1>12 DEF Increasing, Elements

LEMMA OrderIs ==
  ASSUME NEW jobs, NEW s \in ClientRecord(jobs)
  PROVE  /\ Unresolved(s) = Elements(s.toSend) \union Elements(s.waiting)
         /\ InOrder(s) <=>
                /\ Increasing(s.waiting) /\ Increasing(s.toSend)
                /\ \A a \in Elements(s.waiting), b \in Elements(s.toSend) : a < b
                /\ Unresolved(s) \subseteq DOMAIN s.requests
         /\ Elements(s.toSend) \subseteq Nat /\ Elements(s.waiting) \subseteq Nat
  BY QueuesAre, ZenonT(60) DEF Unresolved, Elements, InOrder

(* A request is in one of the two queues once.                              *)
LEMMA LeavingRemoves ==
  ASSUME NEW jobs, NEW s \in ClientRecord(jobs), NEW m \in ClientRecord(jobs),
         InOrder(s), NEW i, LeavesQueue(s, m, i)
  PROVE  /\ i \in Unresolved(s) /\ Unresolved(m) = Unresolved(s) \ {i}
         /\ Increasing(m.waiting) /\ Increasing(m.toSend)
         /\ \A a \in Elements(m.waiting), b \in Elements(m.toSend) : a < b
<1>1. /\ Increasing(s.waiting) /\ Increasing(s.toSend)
      /\ \A a \in Elements(s.waiting), b \in Elements(s.toSend) : a < b
      /\ Unresolved(s) = Elements(s.toSend) \union Elements(s.waiting)
      /\ Unresolved(m) = Elements(m.toSend) \union Elements(m.waiting)
      /\ Elements(s.toSend) \subseteq Nat /\ Elements(s.waiting) \subseteq Nat
  BY OrderIs
<1>2. s.waiting \in Seq(Nat) /\ s.toSend \in Seq(Nat)
  BY QueuesAre
<1>3. CASE s.waiting # <<>> /\ i = Head(s.waiting)
           /\ m.waiting = Tail(s.waiting) /\ m.toSend = s.toSend
  <2>1. /\ i \in Elements(s.waiting) /\ Elements(m.waiting) = Elements(s.waiting) \ {i}
        /\ Increasing(m.waiting)
    BY <1>1, <1>2, <1>3, TailOrder
  <2>2. i \notin Elements(s.toSend)
    BY <1>1, <2>1
  <2> QED
    BY <1>1, <1>3, <2>1, <2>2
<1>4. CASE s.toSend # <<>> /\ i = Head(s.toSend)
           /\ m.toSend = Tail(s.toSend) /\ m.waiting = s.waiting
  <2>1. /\ i \in Elements(s.toSend) /\ Elements(m.toSend) = Elements(s.toSend) \ {i}
        /\ Increasing(m.toSend)
    BY <1>1, <1>2, <1>4, TailOrder
  <2>2. i \notin Elements(s.waiting)
    BY <1>1, <2>1
  <2> QED
    BY <1>1, <1>4, <2>1, <2>2
<1> QED
  BY <1>3, <1>4 DEF LeavesQueue

(* A request that is resolved leaves the others as they are.                *)
LEMMA RemovalFits ==
  ASSUME NEW jobs \in Seq(Job), NEW s \in ClientRecord(jobs), NEW m \in ClientRecord(jobs),
         QueuesFit(s, jobs), NEW i, LeavesQueue(s, m, i),
         NEW got, ResolvedIn(s, m, i, got), m.started = s.started,
         \A j \in DOMAIN jobs :
             /\ m.tries[j] <= s.tries[j]
             /\ j # s.requests[i].job => m.tries[j] = s.tries[j]
  PROVE  /\ QueuesFit(m, jobs) /\ Unresolved(m) = Unresolved(s) \ {i}
         /\ i \in Unresolved(s) /\ i \in DOMAIN s.requests
         /\ \A a \in Unresolved(m) : m.requests[a].job # s.requests[i].job
         /\ \A j : Passwords(m, j) = Passwords(s, j)
<1>1. /\ i \in Unresolved(s) /\ Unresolved(m) = Unresolved(s) \ {i}
      /\ Increasing(m.waiting) /\ Increasing(m.toSend)
      /\ \A a \in Elements(m.waiting), b \in Elements(m.toSend) : a < b
  BY LeavingRemoves DEF QueuesFit
<1>2. Unresolved(s) \subseteq DOMAIN s.requests
  BY DEF QueuesFit, InOrder
<1>3. InOrder(m)
  BY <1>1, <1>2, OrderIs DEF ResolvedIn
<1>40. s.requests[i] \in Request /\ s.requests[i].calls = 0
  BY <1>1, <1>2, QueuesAre DEF CalledOnce, QueuesFit
<1>4. /\ m.requests[i].job = s.requests[i].job
      /\ m.requests[i].what = s.requests[i].what
      /\ m.requests[i].calls = 1
  BY <1>1, <1>2, <1>40, RequestIs DEF ResolvedIn
<1>5. CalledOnce(m)
  BY <1>1, <1>2, <1>4 DEF CalledOnce, QueuesFit, ResolvedIn
<1>6. \A k \in DOMAIN s.requests : /\ m.requests[k].job = s.requests[k].job
                                   /\ m.requests[k].what = s.requests[k].what
  BY <1>4 DEF ResolvedIn
<1>7. OfItsJob(m, jobs)
  BY <1>6 DEF OfItsJob, QueuesFit, ResolvedIn
<1>8. OnePerJob(m) /\ \A a \in Unresolved(m) : m.requests[a].job # s.requests[i].job
  BY <1>1, <1>2, <1>6 DEF OnePerJob, QueuesFit
<1>9. ASSUME NEW j PROVE Passwords(m, j) = Passwords(s, j)
  BY <1>6 DEF Passwords, ResolvedIn
<1>10. ASSUME NEW j \in DOMAIN jobs
       PROVE  /\ m.tries[j] <= jobs[j].tries
              /\ Cardinality(Passwords(m, j)) <= jobs[j].tries
              /\ j > m.started => m.tries[j] = jobs[j].tries
  <2>1. jobs[j].tries \in Nat /\ j \in Nat
    <3>1. jobs[j] \in Job /\ j \in Nat
      OBVIOUS
    <3> QED
      BY <3>1 DEF Job
  <2>2. s.requests[i].job <= s.started /\ s.requests[i].job \in Nat
    BY <1>1, <1>2, QueuesAre DEF QueuesFit, OfItsJob
  <2>3. s.tries[j] \in Nat /\ m.tries[j] \in Nat /\ s.started \in Nat
    BY QueuesAre
  <2>4. /\ s.tries[j] <= jobs[j].tries
        /\ Cardinality(Passwords(s, j)) <= jobs[j].tries
        /\ j > s.started => s.tries[j] = jobs[j].tries
    BY DEF QueuesFit, TriesLast
  <2> QED
    BY <2>1, <2>2, <2>3, <2>4, <1>9
<1>11. ASSUME NEW a \in Unresolved(m) PROVE Pending(m, jobs, a)
  <2>1. a \in Unresolved(s) /\ a # i /\ a \in DOMAIN s.requests
    BY <1>1, <1>2
  <2>2. Pending(s, jobs, a) /\ m.requests[a] = s.requests[a]
    BY <2>1 DEF QueuesFit, TriesLast, ResolvedIn
  <2>3. s.requests[a].job \in DOMAIN jobs
    <3>1. s.requests[a].job \in 1..s.started
      BY <2>1 DEF QueuesFit, OfItsJob
    <3>2. s.started \in 0..Len(jobs) /\ DOMAIN jobs = 1..Len(jobs) /\ Len(jobs) \in Nat
      BY LenProperties DEF ClientRecord
    <3> QED
      BY <3>1, <3>2
  <2>4. m.tries[s.requests[a].job] = s.tries[s.requests[a].job]
    BY <2>2, <2>3, <1>8
  <2> QED
    BY <2>2, <2>4, <1>9 DEF Pending
<1> QED
  BY <1>1, <1>2, <1>3, <1>5, <1>7, <1>8, <1>9, <1>10, <1>11 DEF QueuesFit, TriesLast

LEMMA AppendOrder ==
  ASSUME NEW q \in Seq(Nat), Increasing(q), NEW n \in Nat,
         \A x \in Elements(q) : x < n, NEW p, p = Append(q, n)
  PROVE  Increasing(p) /\ Elements(p) = Elements(q) \union {n}
<1>1. PICK l : l = Len(q)
  OBVIOUS
<1>2. /\ DOMAIN q = 1..l /\ l \in Nat /\ DOMAIN p = 1..l + 1
      /\ \A k \in 1..l : p[k] = q[k]
      /\ p[l + 1] = n
  BY <1>1, AppendIs
<1>3. 1..l + 1 = (1..l) \union {l + 1}
  BY <1>2
<1>4. Elements(p) = Elements(q) \union {n}
  BY <1>2, <1>3 DEF Elements
<1>5. \A k \in 1..l : q[k] < n
  BY <1>2 DEF Elements
<1>6. ASSUME NEW a \in DOMAIN p, NEW b \in DOMAIN p, a < b PROVE p[a] < p[b]
  <2>1. a \in 1..l
    BY <1>2, <1>6
  <2>2. CASE b = l + 1
    BY <1>2, <1>5, <2>1, <2>2
  <2>3. CASE b \in 1..l
    BY <1>2, <1>6, <2>1, <2>3 DEF Increasing
  <2> QED
    BY <1>2, <1>3, <2>2, <2>3
<1> QED
  BY <1>4, <1>6 DEF Increasing

LEMMA PasswordsAre ==
  ASSUME NEW jobs, NEW s \in ClientRecord(jobs), NEW j
  PROVE  /\ IsFiniteSet(Passwords(s, j)) /\ Cardinality(Passwords(s, j)) \in Nat
         /\ Passwords(s, j) = {} => Cardinality(Passwords(s, j)) = 0
<1>1. IsFiniteSet(1..Len(s.requests)) /\ DOMAIN s.requests = 1..Len(s.requests)
  BY QueuesAre, FS_Interval
<1>2. Passwords(s, j) \subseteq 1..Len(s.requests)
  BY <1>1 DEF Passwords
<1>3. IsFiniteSet(Passwords(s, j))
  BY <1>1, <1>2, FS_Subset
<1> QED
  BY <1>3, FS_CardinalityType, FS_EmptySet

(* A request that is made is the last, and the only one of its job.         *)
LEMMA AskFits ==
  ASSUME NEW jobs \in Seq(Job), NEW m \in ClientRecord(jobs), NEW t \in ClientRecord(jobs),
         QueuesFit(m, jobs), NEW j \in DOMAIN jobs, j <= m.started,
         NEW what \in What, NEW then \in Status, Fits(jobs, j, what),
         t.requests = Append(m.requests, NewRequest(j, what, then)),
         t.toSend = Append(m.toSend, Len(m.requests) + 1),
         t.waiting = m.waiting, t.started = m.started, t.tries = m.tries,
         \A a \in Unresolved(m) : m.requests[a].job # j,
         what \in {"pause", "cached"} =>
             Passwords(m, j) = {} /\ m.tries[j] = jobs[j].tries,
         what = "password" =>
             /\ m.tries[j] >= 1
             /\ Cardinality(Passwords(m, j)) + m.tries[j] <= jobs[j].tries
  PROVE  /\ QueuesFit(t, jobs)
         /\ Unresolved(t) = Unresolved(m) \union {Len(m.requests) + 1}
<1>1. PICK n, r : n = Len(m.requests) /\ r = NewRequest(j, what, then)
  OBVIOUS
<1>2. /\ r.job = j /\ r.what = what /\ r.then = then /\ r.calls = 0 /\ r.got = NoReply
      /\ r \in Request
  BY <1>1 DEF NewRequest, Request, NoReply
<1>3. /\ DOMAIN m.requests = 1..n /\ n \in Nat /\ DOMAIN t.requests = 1..n + 1
      /\ \A k \in 1..n : t.requests[k] = m.requests[k]
      /\ t.requests[n + 1] = r
  BY <1>1, <1>2, AppendIs, QueuesAre
<1>4. 1..n + 1 = (1..n) \union {n + 1} /\ n + 1 \notin 1..n
  BY <1>3
<1>5. /\ Increasing(m.waiting) /\ Increasing(m.toSend)
      /\ \A a \in Elements(m.waiting), b \in Elements(m.toSend) : a < b
      /\ Unresolved(m) = Elements(m.toSend) \union Elements(m.waiting)
      /\ Unresolved(t) = Elements(t.toSend) \union Elements(t.waiting)
      /\ Unresolved(m) \subseteq 1..n
  BY <1>3, OrderIs DEF QueuesFit
<1>6. \A x \in Unresolved(m) : x < n + 1
  BY <1>3, <1>5
<1>7. Increasing(t.toSend) /\ Elements(t.toSend) = Elements(m.toSend) \union {n + 1}
  <2>1. m.toSend \in Seq(Nat) /\ n + 1 \in Nat /\ t.toSend = Append(m.toSend, n + 1)
    BY <1>1, <1>3, QueuesAre
  <2>2. \A x \in Elements(m.toSend) : x < n + 1
    BY <1>5, <1>6
  <2> QED
    BY <2>1, <2>2, <1>5, AppendOrder
<1>8. Unresolved(t) = Unresolved(m) \union {n + 1}
  BY <1>5, <1>7
<1>9. InOrder(t)
  <2>1. \A a \in Elements(t.waiting), b \in Elements(t.toSend) : a < b
    BY <1>5, <1>6, <1>7
  <2>2. Unresolved(t) \subseteq DOMAIN t.requests
    BY <1>3, <1>4, <1>5, <1>8
  <2> QED
    BY <2>1, <2>2, <1>5, <1>7, OrderIs
<1>10. CalledOnce(t)
  BY <1>2, <1>3, <1>4, <1>5, <1>8 DEF CalledOnce, QueuesFit
<1>11. OfItsJob(t, jobs)
  <2>1. j \in 1..m.started
    BY QueuesAre
  <2> QED
    BY <1>2, <1>3, <1>4, <2>1 DEF OfItsJob, QueuesFit
<1>12. OnePerJob(t)
  BY <1>2, <1>3, <1>4, <1>5, <1>8, SMTT(30) DEF OnePerJob, QueuesFit
<1>13. \A x : Passwords(t, x) = IF x = j /\ what = "password"
                                THEN Passwords(m, x) \union {n + 1} ELSE Passwords(m, x)
  BY <1>2, <1>3, <1>4 DEF Passwords
<1>14. n + 1 \notin Passwords(m, j)
  BY <1>3, <1>4 DEF Passwords
<1>15. \A x : Cardinality(Passwords(t, x)) =
                  Cardinality(Passwords(m, x)) +
                      (IF x = j /\ what = "password" THEN 1 ELSE 0)
  <2>1. \A x : IsFiniteSet(Passwords(m, x)) /\ Cardinality(Passwords(m, x)) \in Nat
    BY PasswordsAre
  <2>2. Cardinality(Passwords(m, j) \union {n + 1}) = Cardinality(Passwords(m, j)) + 1
    BY <2>1, <1>14, FS_AddElement
  <2>3. ASSUME NEW x, ~(x = j /\ what = "password")
        PROVE  Cardinality(Passwords(t, x)) = Cardinality(Passwords(m, x)) + 0
    BY <2>1, <2>3, <1>13
  <2>4. CASE what = "password"
    <3>1. Cardinality(Passwords(t, j)) = Cardinality(Passwords(m, j)) + 1
      BY <2>2, <2>4, <1>13
    <3> QED
      BY <2>3, <2>4, <3>1
  <2>5. CASE what # "password"
    BY <2>3, <2>5
  <2> QED
    BY <2>4, <2>5
<1>16. ASSUME NEW x \in DOMAIN jobs
       PROVE  /\ t.tries[x] <= jobs[x].tries
              /\ Cardinality(Passwords(t, x)) <= jobs[x].tries
              /\ x > t.started => t.tries[x] = jobs[x].tries
  <2>1. jobs[x] \in Job
    OBVIOUS
  <2>2. jobs[x].tries \in Nat
    BY <2>1 DEF Job
  <2>3. m.tries[x] \in Nat /\ Cardinality(Passwords(m, x)) \in Nat
    BY QueuesAre, PasswordsAre
  <2>4. /\ m.tries[x] <= jobs[x].tries
        /\ Cardinality(Passwords(m, x)) <= jobs[x].tries
        /\ x > m.started => m.tries[x] = jobs[x].tries
    BY DEF QueuesFit, TriesLast
  <2> QED
    BY <2>2, <2>3, <2>4, <1>15
<1>17. ASSUME NEW a \in Unresolved(m) PROVE Pending(t, jobs, a)
  <2>1. /\ t.requests[a] = m.requests[a] /\ m.requests[a].job # j
        /\ Pending(m, jobs, a)
    BY <1>3, <1>5 DEF QueuesFit, TriesLast
  <2> QED
    BY <2>1, <1>13 DEF Pending
<1>18. Pending(t, jobs, n + 1)
  <2>1. jobs[j] \in Job /\ m.tries[j] \in Nat /\ Cardinality(Passwords(m, j)) \in Nat
    BY QueuesAre, PasswordsAre
  <2>2. jobs[j].tries \in Nat
    BY <2>1 DEF Job
  <2>3. t.requests[n + 1].job = j /\ t.requests[n + 1].what = what
    BY <1>2, <1>3
  <2>4. CASE what \in {"pause", "cached"}
    <3>1. what # "password"
      BY <2>4
    <3>2. Passwords(t, j) = {} /\ t.tries[j] = jobs[j].tries
      BY <2>4, <3>1, <1>13
    <3> QED
      BY <2>3, <3>1, <3>2 DEF Pending
  <2>5. CASE what = "password"
    <3>1. /\ t.tries[j] >= 1
          /\ Cardinality(Passwords(t, j)) + t.tries[j] <= jobs[j].tries + 1
      BY <2>1, <2>2, <2>5, <1>15
    <3> QED
      BY <2>3, <2>5, <3>1 DEF Pending
  <2>6. CASE what \notin {"pause", "cached", "password"}
    BY <2>3, <2>6 DEF Pending
  <2> QED
    BY <2>4, <2>5, <2>6
<1> QED
  BY <1>1, <1>8, <1>9, <1>10, <1>11, <1>12, <1>16, <1>17, <1>18 DEF QueuesFit, TriesLast

(* A job that starts has asked for nothing.                                 *)
Begun(s, m, j) ==
    /\ m.requests = s.requests /\ m.toSend = s.toSend /\ m.waiting = s.waiting
    /\ m.tries = s.tries /\ m.started = j /\ j = s.started + 1

LEMMA StartFits ==
  ASSUME NEW jobs \in Seq(Job), NEW s \in ClientRecord(jobs), NEW m \in ClientRecord(jobs),
         QueuesFit(s, jobs), NEW j \in DOMAIN jobs, Begun(s, m, j)
  PROVE  /\ QueuesFit(m, jobs) /\ Unresolved(m) = Unresolved(s)
         /\ \A a \in Unresolved(m) : m.requests[a].job # j
         /\ Passwords(m, j) = {} /\ m.tries[j] = jobs[j].tries
<1>1. /\ m.requests = s.requests /\ m.toSend = s.toSend /\ m.waiting = s.waiting
      /\ m.tries = s.tries /\ m.started = s.started + 1 /\ s.started \in Nat
      /\ m.started = j
  BY QueuesAre DEF Begun
<1>2. Unresolved(m) = Unresolved(s) /\ \A x : Passwords(m, x) = Passwords(s, x)
  BY <1>1 DEF Unresolved, Passwords
<1>3. \A i \in DOMAIN s.requests : s.requests[i].job # j
                                   /\ s.requests[i].job \in 1..m.started
  BY <1>1 DEF QueuesFit, OfItsJob
<1>4. Unresolved(s) \subseteq DOMAIN s.requests
  BY DEF QueuesFit, InOrder
<1>5. InOrder(m) /\ CalledOnce(m) /\ OnePerJob(m)
  BY <1>1, <1>2 DEF QueuesFit, InOrder, CalledOnce, OnePerJob
<1>6. OfItsJob(m, jobs)
  BY <1>1, <1>3 DEF QueuesFit, OfItsJob
<1>7. ASSUME NEW a \in Unresolved(m) PROVE Pending(m, jobs, a)
  <2>1. Pending(s, jobs, a)
    BY <1>2 DEF QueuesFit, TriesLast
  <2>2. m.requests[a] = s.requests[a]
    BY <1>1
  <2> QED
    BY <2>1, <2>2, <1>1, <1>2 DEF Pending
<1>8. ASSUME NEW x \in DOMAIN jobs
      PROVE  /\ m.tries[x] <= jobs[x].tries
             /\ Cardinality(Passwords(m, x)) <= jobs[x].tries
             /\ x > m.started => m.tries[x] = jobs[x].tries
  BY <1>1, <1>2 DEF QueuesFit, TriesLast
<1>9. m.tries[j] = jobs[j].tries
  BY <1>1 DEF QueuesFit, TriesLast
<1>10. Passwords(m, j) = {}
  <2>1. Passwords(s, j) = {}
    BY <1>3 DEF Passwords
  <2> QED
    BY <2>1, <1>2
<1> QED
  BY <1>1, <1>2, <1>3, <1>4, <1>5, <1>6, <1>7, <1>8, <1>9, <1>10 DEF QueuesFit, TriesLast

LEMMA SameFits ==
  ASSUME NEW jobs, NEW s, NEW t, QueuesFit(s, jobs),
         t.requests = s.requests, t.toSend = s.toSend, t.waiting = s.waiting,
         t.tries = s.tries, t.started = s.started
  PROVE  QueuesFit(t, jobs) /\ Unresolved(t) = Unresolved(s)
<1>1. Unresolved(t) = Unresolved(s) /\ \A x : Passwords(t, x) = Passwords(s, x)
  BY DEF Unresolved, Passwords
<1>2. InOrder(t) /\ CalledOnce(t) /\ OnePerJob(t) /\ OfItsJob(t, jobs)
  BY <1>1 DEF QueuesFit, InOrder, CalledOnce, OnePerJob, OfItsJob
<1>3. TriesLast(t, jobs)
  BY <1>1 DEF QueuesFit, TriesLast, Pending
<1> QED
  BY <1>1, <1>2, <1>3 DEF QueuesFit

(* A request that is written waits for its reply, behind the others.        *)
LEMMA SentFits ==
  ASSUME NEW jobs, NEW s \in ClientRecord(jobs), NEW t \in ClientRecord(jobs),
         QueuesFit(s, jobs), s.toSend # <<>>,
         t.toSend = Tail(s.toSend), t.waiting = Append(s.waiting, Head(s.toSend)),
         t.requests = s.requests, t.tries = s.tries, t.started = s.started
  PROVE  QueuesFit(t, jobs) /\ Unresolved(t) = Unresolved(s)
<1>1. PICK h : h = Head(s.toSend)
  OBVIOUS
<1>2. /\ Increasing(s.waiting) /\ Increasing(s.toSend)
      /\ \A a \in Elements(s.waiting), b \in Elements(s.toSend) : a < b
      /\ Unresolved(s) \subseteq DOMAIN s.requests
      /\ Unresolved(s) = Elements(s.toSend) \union Elements(s.waiting)
      /\ Unresolved(t) = Elements(t.toSend) \union Elements(t.waiting)
      /\ Elements(s.toSend) \subseteq Nat /\ Elements(s.waiting) \subseteq Nat
      /\ s.toSend \in Seq(Nat) /\ s.waiting \in Seq(Nat)
  BY OrderIs, QueuesAre DEF QueuesFit
<1>3. /\ h \in Elements(s.toSend) /\ Elements(t.toSend) = Elements(s.toSend) \ {h}
      /\ Increasing(t.toSend)
  BY <1>1, <1>2, TailOrder
<1>4. /\ Elements(t.waiting) = Elements(s.waiting) \union {h} /\ Increasing(t.waiting)
  BY <1>1, <1>2, <1>3, AppendOrder
<1>5. \A b \in Elements(t.toSend) : h < b
  <2>1. /\ DOMAIN s.toSend = 1..Len(s.toSend) /\ Len(s.toSend) \in Nat
        /\ h = s.toSend[1] /\ Len(s.toSend) >= 1
    BY <1>1, <1>2, TailIs
  <2>2. ASSUME NEW k \in DOMAIN s.toSend, s.toSend[k] # h PROVE h < s.toSend[k]
    <3>1. 1 \in DOMAIN s.toSend /\ 1 < k
      BY <2>1, <2>2
    <3> QED
      BY <3>1, <2>1, <1>2 DEF Increasing
  <2> QED
    BY <2>2, <1>3 DEF Elements
<1>6. Unresolved(t) = Unresolved(s)
  BY <1>2, <1>3, <1>4
<1>7. \A a \in Elements(t.waiting), b \in Elements(t.toSend) : a < b
  BY <1>2, <1>3, <1>4, <1>5
<1>8. InOrder(t)
  BY <1>2, <1>3, <1>4, <1>6, <1>7, OrderIs
<1>9. \A x : Passwords(t, x) = Passwords(s, x)
  BY DEF Passwords
<1>10. CalledOnce(t) /\ OnePerJob(t) /\ OfItsJob(t, jobs)
  BY <1>6 DEF QueuesFit, CalledOnce, OnePerJob, OfItsJob
<1>11. TriesLast(t, jobs)
  BY <1>6, <1>9 DEF QueuesFit, TriesLast, Pending
<1> QED
  BY <1>6, <1>8, <1>10, <1>11 DEF QueuesFit

(* What cancelling all requests comes to.                                   *)
LEMMA CancelAllIs ==
  ASSUME NEW s \in ClientRecord(line.jobs), InOrder(s), CalledOnce(s),
         NEW o \in Drawn, NEW t, t = CancelAll(s, o)
  PROVE  /\ t \in ClientRecord(line.jobs)
         /\ t.toSend = <<>> /\ t.waiting = <<>> /\ Unresolved(t) = {}
         /\ t.tries = s.tries /\ t.started = s.started
         /\ t.shouldExit = s.shouldExit /\ t.code = s.code
         /\ t.dead \in {s.dead, "signal"}
         /\ DOMAIN t.requests = DOMAIN s.requests
         /\ \A i \in DOMAIN s.requests :
                /\ t.requests[i].job = s.requests[i].job
                /\ t.requests[i].what = s.requests[i].what
                /\ t.requests[i].then = s.requests[i].then
                /\ i \notin Unresolved(s) => t.requests[i] = s.requests[i]
                /\ i \in Unresolved(s) =>
                       t.requests[i].calls = 1 /\ t.requests[i].got.to = 0
         /\ (\A i \in Unresolved(s) : s.requests[i].what = "unpause") => t.ran = s.ran
<1> DEFINE ids == Unresolved(s)
           Got == [to |-> 0, type |-> "failed"]
           Runs0 == {s.requests[i].job : i \in
                       {k \in ids : FailureRuns(s.requests[k].job, s.requests[k].what)}}
           Requests0 == [i \in DOMAIN s.requests |->
                           IF i \in ids
                           THEN [s.requests[i] EXCEPT !.calls = @ + 1, !.got = Got]
                           ELSE s.requests[i]]
           Ran0 == [j \in Jobs |-> IF j \in Runs0 THEN o[j] ELSE s.ran[j]]
           Dead0 == IF \E j \in Runs0 : o[j] = "signal" THEN "signal" ELSE s.dead
<1>1. Cancel(s, ids, o) = [s EXCEPT !.requests = Requests0, !.ran = Ran0, !.dead = Dead0]
  BY DEF Cancel
<1>2. PICK requests : requests = Requests0
  OBVIOUS
<1>22. requests = [i \in DOMAIN s.requests |->
                       IF i \in ids
                       THEN [s.requests[i] EXCEPT !.calls = @ + 1, !.got = Got]
                       ELSE s.requests[i]]
  BY <1>2
<1>20. PICK runs : runs = Runs0
  OBVIOUS
<1>3. PICK ran : ran = Ran0
  OBVIOUS
<1>4. PICK dead : dead = Dead0
  OBVIOUS
<1>21. /\ ran = [j \in Jobs |-> IF j \in runs THEN o[j] ELSE s.ran[j]]
       /\ dead \in {s.dead, "signal"}
  BY <1>20, <1>3, <1>4
<1>5. PICK canTake, hasReply : /\ canTake = (s.canTake /\ s.toSend = <<>>)
                               /\ hasReply = (s.hasReply /\ s.waiting = <<>>)
  OBVIOUS
<1> HIDE DEF Requests0, Ran0, Dead0, Runs0
<1>6. Cancel(s, ids, o) = [s EXCEPT !.requests = requests, !.ran = ran, !.dead = dead]
  BY <1>1, <1>2, <1>3, <1>4
<1>7. t = [[s EXCEPT !.requests = requests, !.ran = ran, !.dead = dead]
              EXCEPT !.toSend = <<>>, !.waiting = <<>>,
                     !.canTake = s.canTake /\ s.toSend = <<>>,
                     !.hasReply = s.hasReply /\ s.waiting = <<>>]
  <2>1. PICK u : u = Cancel(s, ids, o)
    OBVIOUS
  <2>2. u.canTake = s.canTake /\ u.hasReply = s.hasReply
    BY <2>1, <1>6 DEF ClientRecord
  <2>3. t = [u EXCEPT !.toSend = <<>>, !.waiting = <<>>,
                      !.canTake = u.canTake /\ s.toSend = <<>>,
                      !.hasReply = u.hasReply /\ s.waiting = <<>>]
    BY <2>1 DEF CancelAll
  <2> QED
    BY <2>1, <2>2, <2>3, <1>6
<1>8. canTake \in BOOLEAN /\ hasReply \in BOOLEAN
  BY <1>5
<1>9. ran \in [DOMAIN line.jobs -> Outcome]
  <2>1. s.ran \in [DOMAIN line.jobs -> Outcome]
    BY DEF ClientRecord
  <2> QED
    BY <2>1, <1>21 DEF Jobs, Drawn
<1>10. dead \in {s.dead, "signal"} /\ s.dead \in {"no", "signal", "assert", "undefined"}
  BY <1>21 DEF ClientRecord
<1>11. ids \subseteq DOMAIN s.requests
  BY DEF InOrder
<1>12. ASSUME NEW i \in DOMAIN s.requests
       PROVE  /\ requests[i] \in Request
              /\ requests[i].job = s.requests[i].job
              /\ requests[i].what = s.requests[i].what
              /\ requests[i].then = s.requests[i].then
              /\ i \notin ids => requests[i] = s.requests[i]
              /\ i \in ids => requests[i].calls = 1 /\ requests[i].got.to = 0
  <2>1. s.requests[i] \in Request
    BY QueuesAre
  <2>2. CASE i \notin ids
    BY <2>1, <2>2, <1>22
  <2>3. CASE i \in ids
    <3>1. requests[i] = [s.requests[i] EXCEPT !.calls = @ + 1, !.got = Got]
      BY <2>3, <1>22
    <3>2. s.requests[i].calls = 0
      BY <2>3 DEF CalledOnce
    <3>3. Got \in [to : Nat, type : Reply \union {"none", "failed"}] /\ Got.to = 0
      OBVIOUS
    <3>4. /\ requests[i].job = s.requests[i].job
          /\ requests[i].what = s.requests[i].what
          /\ requests[i].then = s.requests[i].then
          /\ requests[i].calls = 1 /\ requests[i].got = Got
      BY <3>1, <3>2, <2>1, RequestIs DEF Resolved
    <3>5. requests[i] \in Request
      <4>1. PICK got : got = Got
        OBVIOUS
      <4>2. PICK r, n : r = s.requests[i] /\ n = r.calls + 1
        OBVIOUS
      <4>3. n \in Nat /\ r \in Request
        BY <4>2, <3>2, <2>1
      <4>4. got \in [to : Nat, type : Reply \union {"none", "failed"}]
        BY <4>1
      <4>5. requests[i] = [r EXCEPT !.calls = n, !.got = got]
        BY <4>1, <4>2, <3>1
      <4> QED
        BY <4>3, <4>4, <4>5 DEF Request
    <3> QED
      BY <2>3, <3>3, <3>4, <3>5
  <2> QED
    BY <2>2, <2>3
<1>13. requests \in Seq(Request) /\ DOMAIN requests = DOMAIN s.requests
  <2>1. DOMAIN s.requests = 1..Len(s.requests) /\ Len(s.requests) \in Nat
    BY QueuesAre
  <2>2. requests \in [1..Len(s.requests) -> Request]
    BY <2>1, <1>22, <1>12
  <2> QED
    BY <2>1, <2>2, IsASeq
<1>14. <<>> \in Seq(Nat)
  OBVIOUS
<1>15. t = [s EXCEPT !.requests = requests, !.ran = ran, !.dead = dead,
                     !.toSend = <<>>, !.waiting = <<>>,
                     !.canTake = canTake, !.hasReply = hasReply]
  BY <1>5, <1>7
<1>16. t \in ClientRecord(line.jobs)
  BY <1>8, <1>9, <1>10, <1>13, <1>14, <1>15 DEF ClientRecord
<1>17. /\ t.toSend = <<>> /\ t.waiting = <<>> /\ t.requests = requests /\ t.dead = dead
       /\ t.tries = s.tries /\ t.started = s.started
       /\ t.shouldExit = s.shouldExit /\ t.code = s.code
  BY <1>15 DEF ClientRecord
<1>18. Unresolved(t) = {}
  BY <1>17 DEF Unresolved
<1>19. ASSUME \A i \in ids : s.requests[i].what = "unpause" PROVE t.ran = s.ran
  <2>1. runs = {}
    BY <1>19, <1>20 DEF FailureRuns, Runs0
  <2>2. s.ran \in [Jobs -> Outcome]
    BY DEF ClientRecord, Jobs
  <2>3. ran = s.ran
    BY <2>1, <2>2, <1>21
  <2> QED
    BY <2>3, <1>15 DEF ClientRecord
<1> QED
  BY <1>10, <1>12, <1>13, <1>16, <1>17, <1>18, <1>19

LEMMA CancelFits ==
  ASSUME NEW jobs, NEW s \in ClientRecord(jobs), NEW t \in ClientRecord(jobs),
         QueuesFit(s, jobs), t.toSend = <<>>, t.waiting = <<>>,
         t.tries = s.tries, t.started = s.started,
         DOMAIN t.requests = DOMAIN s.requests,
         \A i \in DOMAIN s.requests :
             /\ t.requests[i].job = s.requests[i].job
             /\ t.requests[i].what = s.requests[i].what
             /\ i \notin Unresolved(s) => t.requests[i] = s.requests[i]
             /\ i \in Unresolved(s) => t.requests[i].calls = 1
  PROVE  QueuesFit(t, jobs)
<1>1. Unresolved(t) = {} /\ \A x : Passwords(t, x) = Passwords(s, x)
  BY DEF Unresolved, Passwords
<1>2. InOrder(t)
  BY <1>1 DEF InOrder, Increasing
<1>3. CalledOnce(t) /\ OnePerJob(t) /\ OfItsJob(t, jobs)
  BY <1>1 DEF QueuesFit, CalledOnce, OnePerJob, OfItsJob
<1>4. TriesLast(t, jobs)
  BY <1>1 DEF QueuesFit, TriesLast
<1> QED
  BY <1>2, <1>3, <1>4 DEF QueuesFit

(* A handler that asks for nothing.                                         *)
LEMMA EndFits ==
  ASSUME NEW jobs \in Seq(Job), NEW m \in ClientRecord(jobs), NEW t \in ClientRecord(jobs),
         QueuesFit(m, jobs), NEW j \in DOMAIN jobs, j <= m.started,
         t.requests = m.requests, t.toSend = m.toSend, t.waiting = m.waiting,
         t.started = m.started, t.tries[j] <= m.tries[j],
         \A k \in DOMAIN jobs : k # j => t.tries[k] = m.tries[k],
         \A a \in Unresolved(m) : m.requests[a].job # j
  PROVE  QueuesFit(t, jobs) /\ Unresolved(t) = Unresolved(m)
<1>1. Unresolved(t) = Unresolved(m) /\ \A x : Passwords(t, x) = Passwords(m, x)
  BY DEF Unresolved, Passwords
<1>2. InOrder(t) /\ CalledOnce(t) /\ OnePerJob(t) /\ OfItsJob(t, jobs)
  BY <1>1 DEF QueuesFit, InOrder, CalledOnce, OnePerJob, OfItsJob
<1>3. ASSUME NEW x \in DOMAIN jobs
      PROVE  /\ t.tries[x] <= jobs[x].tries
             /\ Cardinality(Passwords(t, x)) <= jobs[x].tries
             /\ x > t.started => t.tries[x] = jobs[x].tries
  <2>1. jobs[x] \in Job /\ x \in Nat
    OBVIOUS
  <2>2. jobs[x].tries \in Nat
    BY <2>1 DEF Job
  <2>3. m.tries[x] \in Nat /\ t.tries[x] \in Nat /\ m.started \in Nat
    BY QueuesAre
  <2>4. /\ m.tries[x] <= jobs[x].tries
        /\ Cardinality(Passwords(m, x)) <= jobs[x].tries
        /\ x > m.started => m.tries[x] = jobs[x].tries
    BY DEF QueuesFit, TriesLast
  <2>6. t.tries[x] <= m.tries[x]
    BY <2>3
  <2>7. x > m.started => t.tries[x] = m.tries[x]
    BY <2>1, <2>3
  <2> QED
    BY <2>2, <2>3, <2>4, <2>6, <2>7, <1>1
<1>4. ASSUME NEW a \in Unresolved(m) PROVE Pending(t, jobs, a)
  <2>1. Pending(m, jobs, a) /\ m.requests[a].job # j /\ t.requests[a] = m.requests[a]
    BY DEF QueuesFit, TriesLast
  <2>2. m.requests[a].job \in DOMAIN jobs
    <3>1. m.requests[a].job \in 1..m.started
      BY DEF QueuesFit, OfItsJob, InOrder
    <3>2. m.started \in 0..Len(jobs) /\ DOMAIN jobs = 1..Len(jobs) /\ Len(jobs) \in Nat
      BY LenProperties DEF ClientRecord
    <3> QED
      BY <3>1, <3>2
  <2>3. t.tries[m.requests[a].job] = m.tries[m.requests[a].job]
    BY <2>1, <2>2
  <2> QED
    BY <2>1, <2>3, <1>1 DEF Pending
<1> QED
  BY <1>1, <1>2, <1>3, <1>4 DEF QueuesFit, TriesLast

-----------------------------------------------------------------------------
(* The steps.                                                               *)

LEMMA JobsAre ==
  ASSUME Typed
  PROVE  /\ line.jobs \in Seq(Job) /\ line.early \in BOOLEAN /\ line.wait \in BOOLEAN
         /\ DOMAIN line.jobs = 1..Len(line.jobs) /\ Len(line.jobs) \in Nat
         /\ line.early => line.jobs # <<>> /\ 1 \in Jobs
         /\ \A j \in Jobs : line.jobs[j] \in Job /\ line.jobs[j].tries \in Nat
<1>1. /\ line \in [jobs : Seq(Job), early : BOOLEAN, wait : BOOLEAN]
      /\ line.early => line.jobs # <<>>
  BY ClientAssumption DEF Typed
<1>2. /\ line.jobs \in Seq(Job) /\ line.early \in BOOLEAN /\ line.wait \in BOOLEAN
      /\ DOMAIN line.jobs = 1..Len(line.jobs) /\ Len(line.jobs) \in Nat
  BY <1>1, LenProperties
<1>3. line.jobs # <<>> => 1 \in Jobs
  BY <1>2, EmptySeq DEF Jobs
<1>4. \A j \in Jobs : line.jobs[j] \in Job
  BY <1>2 DEF Jobs
<1>5. \A j \in Jobs : line.jobs[j].tries \in Nat
  BY <1>4 DEF Job
<1> QED
  BY <1>1, <1>2, <1>3, <1>4, <1>5

LEMMA ClientIs ==
  ASSUME Typed
  PROVE  /\ client \in ClientRecord(line.jobs) /\ daemon \in DaemonRecord
         /\ daemon.inbox \in Seq(ReplyRecord)
         /\ DOMAIN daemon.inbox = 1..Len(daemon.inbox) /\ Len(daemon.inbox) \in Nat
         /\ daemon.link \in {"none", "up", "closed"}
<1>1. daemon.inbox \in Seq(ReplyRecord)
  BY DEF Typed, DaemonRecord
<1> QED
  BY <1>1, LenProperties DEF Typed, DaemonRecord

(* No requests, no queues.                                                  *)
LEMMA NothingIsQueued ==
  ASSUME NEW jobs, NEW s \in ClientRecord(jobs), InOrder(s), s.requests = <<>>
  PROVE  s.toSend = <<>> /\ s.waiting = <<>>
<1>1. Unresolved(s) = {}
  BY DEF InOrder
<1>2. DOMAIN s.toSend = {} /\ DOMAIN s.waiting = {}
  BY <1>1, QueuesAre
<1> QED
  BY <1>2, QueuesAre, EmptySeq

LEMMA InitHolds == Init => IInv
<1> SUFFICES ASSUME Init PROVE IInv
  OBVIOUS
<1>1. /\ line \in [jobs : Seq(Job), early : BOOLEAN, wait : BOOLEAN]
  BY ClientAssumption DEF Init
<1>2. line.jobs \in Seq(Job) /\ DOMAIN line.jobs = 1..Len(line.jobs) /\ Len(line.jobs) \in Nat
  BY <1>1, LenProperties
<1>3. \A j \in Jobs : line.jobs[j] \in Job
  BY <1>2 DEF Jobs
<1>4. \A j \in Jobs : line.jobs[j].tries \in Nat /\ line.jobs[j].tries >= 1
  BY <1>3 DEF Job
<1>5. PICK tries, ran : /\ tries = [j \in Jobs |-> line.jobs[j].tries]
                        /\ ran = [j \in Jobs |-> "none"]
  OBVIOUS
<1>6. tries \in [DOMAIN line.jobs -> Nat] /\ ran \in [DOMAIN line.jobs -> Outcome]
  BY <1>4, <1>5 DEF Jobs, Outcome
<1>7. client = [started |-> 0, requests |-> <<>>, toSend |-> <<>>,
                waiting |-> <<>>, canTake |-> FALSE, hasReply |-> FALSE,
                tries |-> tries, ran |-> ran,
                shouldExit |-> FALSE, code |-> "ok", dead |-> "no"]
  BY <1>5 DEF Init
<1>8. /\ <<>> \in Seq(Request) /\ <<>> \in Seq(Nat) /\ <<>> \in Seq(ReplyRecord)
      /\ 0 \in 0..Len(line.jobs) /\ "ok" \in Status
  BY <1>2 DEF Status
<1>9. client \in ClientRecord(line.jobs)
  BY <1>6, <1>7, <1>8 DEF ClientRecord
<1>10. PICK link \in {"none", "up"} :
           daemon = [link |-> link, inbox |-> <<>>, owed |-> {},
                     paused |-> FALSE, orderly |-> TRUE]
  BY DEF Init
<1>11. Typed
  BY <1>8, <1>9, <1>10 DEF Typed, Init, DaemonRecord
<1>12. /\ client.requests = <<>> /\ client.toSend = <<>> /\ client.waiting = <<>>
       /\ client.tries = tries /\ client.started = 0 /\ ~client.shouldExit
       /\ client.dead = "no" /\ ~client.canTake /\ ~client.hasReply
  BY <1>7
<1>13. DOMAIN client.requests = {} /\ Unresolved(client) = {}
  BY <1>12 DEF Unresolved
<1>14. InOrder(client) /\ CalledOnce(client) /\ OfItsJob(client, line.jobs)
       /\ OnePerJob(client)
  BY <1>12, <1>13 DEF InOrder, Increasing, CalledOnce, OfItsJob, OnePerJob
<1>15. ASSUME NEW j \in DOMAIN line.jobs
       PROVE  /\ client.tries[j] <= line.jobs[j].tries
              /\ Cardinality(Passwords(client, j)) <= line.jobs[j].tries
              /\ j > client.started => client.tries[j] = line.jobs[j].tries
  <2>1. Passwords(client, j) = {}
    BY <1>13 DEF Passwords
  <2>2. Cardinality(Passwords(client, j)) = 0
    BY <2>1, FS_EmptySet
  <2>3. client.tries[j] = line.jobs[j].tries /\ line.jobs[j].tries \in Nat
    BY <1>4, <1>5, <1>12 DEF Jobs
  <2> QED
    BY <2>2, <2>3
<1>16. QueuesFit(client, line.jobs)
  BY <1>13, <1>14, <1>15 DEF QueuesFit, TriesLast
<1>17. Watched(client)
  BY <1>12 DEF Watched
<1>18. daemon.inbox = <<>> /\ daemon.owed = {} /\ daemon.orderly
  BY <1>10
<1>19. EventsFit
  BY <1>12, <1>18 DEF EventsFit, Init
<1>20. InStep
  BY <1>12, <1>18 DEF InStep
<1>21. RepliesFit
  BY <1>12, <1>13, <1>18, <1>20 DEF RepliesFit
<1>22. Deserved
  BY <1>12, <1>13 DEF Deserved
<1> QED
  BY <1>11, <1>16, <1>17, <1>19, <1>21, <1>22 DEF IInv

(* The next job starts: it ends the program if there is no daemon, or else  *)
(* makes its first request.                                                 *)
LEMMA StartIs ==
  ASSUME NEW s \in ClientRecord(line.jobs), line.jobs \in Seq(Job),
         QueuesFit(s, line.jobs), s.dead = "no",
         NEW j \in Jobs, j = s.started + 1, NEW o \in Drawn,
         NEW t, t = StartJob(s, j, o)
  PROVE  /\ t \in ClientRecord(line.jobs) /\ QueuesFit(t, line.jobs)
         /\ t.started = j /\ t.waiting = s.waiting /\ t.hasReply = s.hasReply
         /\ s.shouldExit => t.shouldExit
         /\ \/ /\ daemon.link = "none"
               /\ t.requests = s.requests /\ t.toSend = s.toSend
               /\ t.dead \in {"no", "signal"} /\ (t.shouldExit \/ t.dead # "no")
               /\ t.shouldExit /\ ~s.shouldExit /\ t.code = "ok" =>
                      t.ran[j] \in {"ok", "unstarted"}
            \/ /\ daemon.link # "none"
               /\ t.canTake /\ t.dead = "no" /\ t.toSend # <<>>
               /\ t.shouldExit = s.shouldExit /\ t.code = s.code /\ t.ran = s.ran
               /\ \E what \in What \ {"unpause"} :
                      t.requests = Append(s.requests, NewRequest(j, what, "ok"))
<1>1. PICK m : m = [s EXCEPT !.started = j]
  OBVIOUS
<1>2. j \in 0..Len(line.jobs) /\ j \in DOMAIN line.jobs
  BY LenProperties DEF Jobs
<1>3. /\ m \in ClientRecord(line.jobs) /\ m.started = j
      /\ m.requests = s.requests /\ m.toSend = s.toSend /\ m.waiting = s.waiting
      /\ m.canTake = s.canTake /\ m.hasReply = s.hasReply /\ m.tries = s.tries
      /\ m.ran = s.ran /\ m.shouldExit = s.shouldExit /\ m.code = s.code
      /\ m.dead = s.dead
  BY <1>1, <1>2 DEF ClientRecord
<1>30. Begun(s, m, j)
  BY <1>3 DEF Begun
<1>4. /\ QueuesFit(m, line.jobs)
      /\ \A a \in Unresolved(m) : m.requests[a].job # j
      /\ Passwords(m, j) = {} /\ m.tries[j] = line.jobs[j].tries
  BY <1>2, <1>3, <1>30, StartFits
<1>5. j <= m.started
  BY <1>3
<1>6. DOMAIN m.tries = Jobs
  BY <1>3 DEF ClientRecord, Jobs
<1>7. PICK what : /\ what \in What \ {"unpause"} /\ Fits(line.jobs, j, what)
                  /\ t = Queue(m, j, what, "ok", o)
  <2>1. CASE line.jobs[j].pause
    BY <1>1, <2>1 DEF StartJob, What, Fits
  <2>2. CASE ~line.jobs[j].pause
    <3>1. PICK what : what = IF line.jobs[j].kind # "password" THEN line.jobs[j].kind
                             ELSE IF line.jobs[j].program THEN "cached" ELSE "password"
      OBVIOUS
    <3>2. line.jobs[j] \in Job
      BY <1>2
    <3>3. line.jobs[j].kind \in Kind
      BY <3>2 DEF Job
    <3>4. what \in What \ {"unpause"} /\ Fits(line.jobs, j, what)
      BY <3>1, <3>3 DEF Kind, What, Fits
    <3>5. t = Queue(m, j, what, "ok", o)
      BY <1>1, <2>2, <3>1 DEF StartJob, Ask
    <3> QED
      BY <3>4, <3>5
  <2> QED
    BY <2>1, <2>2
<1>8. CASE daemon.link = "none"
  <2>1. t = Fail(m, j, what, o)
    BY <1>7, <1>8 DEF Queue
  <2>2. /\ t \in ClientRecord(line.jobs) /\ Steady(m, t, j) /\ Ends(m, t)
        /\ t.dead \in {m.dead, "signal"}
        /\ t.shouldExit /\ ~m.shouldExit /\ t.code = "ok" =>
               t.ran[j] \in {"ok", "unstarted"}
    BY <2>1, <1>3, FailIs
  <2>3. QueuesFit(t, line.jobs)
    BY <2>2, <1>2, <1>3, <1>4, <1>5, <1>6, EndFits, SMTT(30) DEF Steady, Ends, Jobs
  <2> QED
    BY <2>2, <2>3, <1>3, <1>8 DEF Steady, Ends
<1>9. CASE daemon.link # "none"
  <2>1. "ok" \in Status /\ what \in What
    BY <1>7 DEF Status
  <2>2. /\ t \in ClientRecord(line.jobs) /\ Steady(m, t, j)
        /\ Asks(m, t, j, what, "ok") /\ t.tries = m.tries /\ t.ran = m.ran
        /\ t.shouldExit = m.shouldExit /\ t.code = m.code
    BY <1>3, <1>7, <1>9, <2>1, QueueIs
  <2>3. Cardinality(Passwords(m, j)) = 0
    BY <1>3, <1>4, PasswordsAre
  <2>4. line.jobs[j] \in Job
    BY <1>2
  <2>5. line.jobs[j].tries \in Nat \ {0}
    BY <2>4 DEF Job
  <2>6. /\ m.tries[j] >= 1
        /\ Cardinality(Passwords(m, j)) + m.tries[j] <= line.jobs[j].tries
    BY <2>3, <2>5, <1>4
  <2>7. QueuesFit(t, line.jobs)
    BY <2>1, <2>2, <2>6, <1>2, <1>3, <1>4, <1>5, <1>7, AskFits, ZenonT(60) DEF Asks, Steady
  <2>8. t.toSend # <<>>
    <3>1. m.toSend \in Seq(Nat) /\ Len(m.requests) + 1 \in Nat
      BY <1>3, QueuesAre
    <3> QED
      BY <3>1, <2>2, AppendIs DEF Asks
  <2> QED
    BY <2>1, <2>2, <2>7, <2>8, <1>3, <1>7, <1>9 DEF Asks, Steady
<1> QED
  BY <1>8, <1>9

(* The replies still fit when the client asks for more, or nothing.         *)
LEMMA RepliesKept ==
  ASSUME Typed, RepliesFit, UNCHANGED <<line, daemon>>,
         client'.dead # "undefined", client'.waiting = client.waiting, phase' # "ended",
         phase # "ended",
         \/ client'.requests = client.requests
         \/ \E r \in Request : r.got.to = 0 /\ client'.requests = Append(client.requests, r)
  PROVE  RepliesFit'
<1>1. PICK q : q = client'.requests
  OBVIOUS
<1>2. /\ DOMAIN client.requests \subseteq DOMAIN q
      /\ \A k \in DOMAIN client.requests : q[k] = client.requests[k]
      /\ \A k \in DOMAIN q : k \notin DOMAIN client.requests => q[k].got.to = 0
  <2>1. CASE q = client.requests
    BY <2>1
  <2>2. ASSUME NEW r \in Request, r.got.to = 0, q = Append(client.requests, r)
        PROVE  <1>2!1 /\ <1>2!2 /\ <1>2!3
    <3>1. client.requests \in Seq(Request)
      BY ClientIs, QueuesAre
    <3>2. PICK n : n = Len(client.requests)
      OBVIOUS
    <3>3. /\ DOMAIN client.requests = 1..n /\ n \in Nat /\ DOMAIN q = 1..n + 1
          /\ \A k \in 1..n : q[k] = client.requests[k]
          /\ q[n + 1] = r
      BY <2>2, <3>1, <3>2, AppendIs
    <3>4. 1..n + 1 = (1..n) \union {n + 1}
      BY <3>3
    <3> QED
      BY <2>2, <3>3, <3>4
  <2> QED
    BY <1>1, <2>1, <2>2
<1>3. \A k \in DOMAIN daemon.inbox :
          /\ daemon.inbox[k].to \in DOMAIN client.requests
          /\ daemon.inbox[k].type \in Answers(client.requests[daemon.inbox[k].to].what)
  BY DEF RepliesFit
<1>4. \A k \in DOMAIN daemon.inbox :
          /\ daemon.inbox[k].to \in DOMAIN q
          /\ daemon.inbox[k].type \in Answers(q[daemon.inbox[k].to].what)
  BY <1>2, <1>3
<1>5. /\ daemon.owed \subseteq DOMAIN q
      /\ Len(line.jobs) = 1 => daemon.orderly /\ \A a, b \in daemon.owed : a = b
  BY <1>2 DEF RepliesFit
<1>6. ASSUME daemon.orderly
      PROVE  (\A i \in DOMAIN q : q[i].got.to \in {0, i}) /\ InStep
  BY <1>2, <1>6 DEF RepliesFit
<1>7. InStep => InStep'
  BY DEF InStep
<1> QED
  BY <1>1, <1>4, <1>5, <1>6, <1>7 DEF RepliesFit

(* What the loop may be told while the client is as it is.                  *)
MayReport(ev) ==
    /\ ev \in SUBSET {"out", "in", "hangup"}
    /\ "out" \in ev => client.toSend # <<>>
    /\ "in" \in ev => client.waiting # <<>> /\ daemon.inbox # <<>>
    /\ "hangup" \in ev =>
           ev = {"hangup"} /\ daemon.link = "closed" /\ daemon.inbox = <<>>
    /\ daemon.link = "none" => ev = {}

LEMMA ReportedIs ==
  ASSUME IInv, Runs
  PROVE  MayReport(Reported)
<1>1. client \in ClientRecord(line.jobs)
  BY ClientIs DEF IInv
<1>2. /\ client.canTake => client.toSend # <<>>
      /\ client.hasReply => client.waiting # <<>>
  BY DEF IInv, Watched, Runs
<1>3. daemon.link = "none" => client.requests = <<>>
  BY DEF IInv, EventsFit
<1>4. daemon.link = "none" => client.toSend = <<>> /\ client.waiting = <<>>
  BY <1>1, <1>3, NothingIsQueued DEF IInv, QueuesFit
<1> QED
  BY <1>2, <1>4 DEF MayReport, Reported

(* A sole job that was not started asked for nothing.                       *)
LEMMA NothingIsAsked ==
  ASSUME IInv, client.started = 0
  PROVE  client.requests = <<>>
<1>1. DOMAIN client.requests = {}
  BY DEF IInv, QueuesFit, OfItsJob
<1>2. client.requests \in Seq(Request)
  BY ClientIs, QueuesAre DEF IInv
<1>3. Len(client.requests) = 0
  <2>1. /\ Len(client.requests) \in Nat
        /\ DOMAIN client.requests = 1..Len(client.requests)
    BY <1>2, LenProperties
  <2>2. Len(client.requests) # 0 => 1 \in 1..Len(client.requests)
    BY <2>1
  <2> QED
    BY <1>1, <2>1, <2>2
<1> QED
  BY <1>2, <1>3, EmptySeq

(* A step that starts the next job.                                         *)
LEMMA StartKeeps ==
  ASSUME IInv, NEW o \in Drawn, NEW j \in Jobs, j = client.started + 1,
         client' = StartJob(client, j, o), UNCHANGED <<line, daemon>>,
         ~client.shouldExit, client.dead = "no", phase # "ended",
         phase' \in {"wait", "events"}, MayReport(event'),
         phase' = "wait" => event' = {}
  PROVE  IInv'
<1>1. PICK s, t : s = client /\ t = client'
  OBVIOUS
<1>2. /\ s \in ClientRecord(line.jobs) /\ line.jobs \in Seq(Job) /\ Typed
      /\ QueuesFit(s, line.jobs) /\ s.dead = "no" /\ ~s.shouldExit
  BY <1>1, ClientIs, JobsAre DEF IInv
<1>3. t = StartJob(s, j, o) /\ j = s.started + 1
  BY <1>1
<1>4. /\ t \in ClientRecord(line.jobs) /\ QueuesFit(t, line.jobs)
      /\ t.started = j /\ t.waiting = s.waiting /\ t.hasReply = s.hasReply
  BY <1>2, <1>3, StartIs
<1>5. \/ /\ daemon.link = "none"
         /\ t.requests = s.requests /\ t.toSend = s.toSend
         /\ t.dead \in {"no", "signal"} /\ (t.shouldExit \/ t.dead # "no")
         /\ t.shouldExit /\ t.code = "ok" => t.ran[j] \in {"ok", "unstarted"}
      \/ /\ daemon.link # "none"
         /\ t.canTake /\ t.dead = "no" /\ t.toSend # <<>> /\ ~t.shouldExit
         /\ \E what \in What \ {"unpause"} :
                t.requests = Append(s.requests, NewRequest(j, what, "ok"))
  BY <1>2, <1>3, StartIs
<1>6. Typed'
  BY <1>1, <1>2, <1>4 DEF Typed, MayReport
<1>7. QueuesFit(client, line.jobs)'
  BY <1>1, <1>4
<1>8. Watched(s)
  BY <1>1 DEF IInv
<1>9. Watched(t)
  BY <1>2, <1>4, <1>5, <1>8 DEF Watched
<1>10. Watched(client)'
  BY <1>1, <1>9
<1>11. "out" \in event' => t.toSend # <<>>
  BY <1>1, <1>5 DEF MayReport
<1>12. daemon.link = "none" => t.requests = <<>> /\ daemon.inbox = <<>> /\ daemon.owed = {}
  BY <1>1, <1>5 DEF IInv, EventsFit
<1>13. EventsFit'
  BY <1>1, <1>4, <1>5, <1>11, <1>12 DEF EventsFit, MayReport
<1>14. ASSUME NEW what \in What PROVE NewRequest(j, what, "ok") \in Request
                                       /\ NewRequest(j, what, "ok").got.to = 0
                                       /\ NewRequest(j, what, "ok").what = what
  <2>1. j \in Nat
    BY <1>2 DEF Jobs
  <2> QED
    BY <2>1 DEF NewRequest, Request, NoReply, Status
<1>15. RepliesFit'
  <2>1. RepliesFit
    BY DEF IInv
  <2>2. \/ client'.requests = client.requests
        \/ \E r \in Request : r.got.to = 0 /\ client'.requests = Append(client.requests, r)
    BY <1>1, <1>5, <1>14
  <2>3. client'.dead # "undefined" /\ client'.waiting = client.waiting /\ phase' # "ended"
    BY <1>1, <1>4, <1>5
  <2> QED
    BY <1>2, <2>1, <2>2, <2>3, RepliesKept
<1>16. ASSUME Sole(line.jobs)
       PROVE  /\ t.shouldExit => event' = {}
              /\ t.shouldExit /\ t.code = "ok" => Earned(t)
              /\ \A i \in DOMAIN t.requests : t.requests[i].what # "unpause"
  <2>1. j = 1 /\ client.started = 0
    <3>1. j \in 1..1 /\ client.started \in Nat
      BY <1>1, <1>2, <1>16, JobsAre, QueuesAre DEF Sole, Jobs
    <3> QED
      BY <3>1
  <2>2. s.requests = <<>>
    BY <1>1, <2>1, NothingIsAsked
  <2>3. CASE daemon.link = "none"
    BY <1>5, <2>1, <2>2, <2>3 DEF MayReport, Earned
  <2>4. CASE daemon.link # "none"
    <3>1. PICK what \in What \ {"unpause"} :
              t.requests = Append(<<>>, NewRequest(j, what, "ok"))
      BY <1>5, <2>2, <2>4
    <3>2. PICK r : r = NewRequest(j, what, "ok")
      OBVIOUS
    <3>3. t.requests = <<r>> /\ r.what # "unpause"
      BY <3>1, <3>2, <1>14
    <3> QED
      BY <1>5, <2>4, <3>3
  <2> QED
    BY <2>3, <2>4
<1>17. Deserved'
  BY <1>1, <1>16 DEF Deserved
<1> QED
  BY <1>6, <1>7, <1>10, <1>13, <1>15, <1>17 DEF IInv

(* A step that leaves the requests as they are.                             *)
LEMMA IdleKeeps ==
  ASSUME IInv, UNCHANGED <<line, daemon>>, client' \in ClientRecord(line.jobs),
         client'.requests = client.requests, client'.toSend = client.toSend,
         client'.waiting = client.waiting, client'.tries = client.tries,
         client'.started = client.started, client'.ran = client.ran,
         client'.dead = client.dead,
         event' \in SUBSET {"out", "in", "hangup"},
         phase' \in {"start", "wait", "events", "over"}, phase # "ended",
         Watched(client'), EventsFit',
         Sole(line.jobs) =>
             /\ client'.shouldExit => event' = {}
             /\ client'.shouldExit /\ client'.code = "ok" => Earned(client) \/ line.wait
  PROVE  IInv'
<1>1. PICK s, t : s = client /\ t = client'
  OBVIOUS
<1>2. Typed /\ QueuesFit(s, line.jobs)
  BY <1>1 DEF IInv
<1>3. Typed'
  BY <1>2 DEF Typed
<1>4. QueuesFit(t, line.jobs) /\ Unresolved(t) = Unresolved(s)
  BY <1>1, <1>2, SameFits
<1>5. QueuesFit(client, line.jobs)' /\ Watched(client)'
  BY <1>1, <1>4
<1>6. RepliesFit'
  <2>2. RepliesFit
    BY DEF IInv
  <2> QED
    BY <2>2 DEF RepliesFit, InStep
<1>7. Earned(t) <=> Earned(s)
  BY <1>1 DEF Earned
<1>8. Deserved
  BY DEF IInv
<1>9. Deserved'
  BY <1>1, <1>4, <1>7, <1>8 DEF Deserved
<1> QED
  BY <1>3, <1>5, <1>6, <1>9 DEF IInv

LEMMA MainKeeps ==
  ASSUME IInv, NEW o \in Drawn, Main(o)
  PROVE  IInv'
<1>1. /\ phase = "start" /\ phase' = "wait" /\ event = {} /\ event' = {}
      /\ UNCHANGED <<line, daemon>>
      /\ client.started = 0 /\ ~client.shouldExit /\ client.dead = "no"
  BY DEF Main, IInv, EventsFit
<1>2. client \in ClientRecord(line.jobs) /\ line.early \in BOOLEAN
  BY ClientIs, JobsAre DEF IInv
<1>3. MayReport({})
  BY DEF MayReport
<1>4. CASE daemon.link = "none" /\ (Pings \/ line.wait)
  <2>1. PICK code : code = IF Pings THEN "failed" ELSE "ok"
    OBVIOUS
  <2>2. client' = Exit(client, code) /\ code \in Status
    BY <1>4, <2>1 DEF Main, Status
  <2>3. /\ client' \in ClientRecord(line.jobs) /\ client'.shouldExit
        /\ client'.code = code
        /\ client'.requests = client.requests /\ client'.toSend = client.toSend
        /\ client'.waiting = client.waiting /\ client'.tries = client.tries
        /\ client'.started = client.started /\ client'.ran = client.ran
        /\ client'.dead = client.dead
    BY <1>2, <2>2 DEF Exit, ClientRecord
  <2>4. Watched(client') /\ EventsFit'
    BY <1>1, <2>3 DEF Watched, EventsFit, IInv
  <2>5. code = "ok" => line.wait
    BY <1>4, <2>1
  <2> QED
    BY <1>1, <2>3, <2>4, <2>5, IdleKeeps
<1>5. CASE ~(daemon.link = "none" /\ (Pings \/ line.wait)) /\ line.early
  <2>1. client' = StartJob(client, 1, o)
    BY <1>5 DEF Main
  <2>2. 1 \in Jobs
    BY <1>5, JobsAre DEF IInv
  <2> QED
    BY <1>1, <1>3, <2>1, <2>2, StartKeeps
<1>6. CASE ~(daemon.link = "none" /\ (Pings \/ line.wait)) /\ ~line.early
  <2>1. client' = client
    BY <1>6 DEF Main
  <2>2. Watched(client') /\ EventsFit'
    BY <1>1, <2>1 DEF Watched, EventsFit, IInv
  <2> QED
    BY <1>1, <1>2, <2>1, <2>2, IdleKeeps
<1> QED
  BY <1>4, <1>5, <1>6

LEMMA DispatchKeeps ==
  ASSUME IInv, NEW o \in Drawn, Dispatch(o)
  PROVE  IInv'
<1>1. /\ client' = StartJob(client, client.started + 1, o)
      /\ event' = Reported /\ phase' = "events"
      /\ UNCHANGED <<line, daemon>>
      /\ phase # "ended" /\ ~client.shouldExit /\ client.dead = "no"
      /\ client.started < Len(line.jobs)
  BY DEF Dispatch, Runs
<1>2. MayReport(event')
  BY <1>1, ReportedIs DEF Dispatch
<1>3. PICK j : j = client.started + 1
  OBVIOUS
<1>4. j \in Jobs
  <2>1. client.started \in Nat /\ Len(line.jobs) \in Nat
        /\ DOMAIN line.jobs = 1..Len(line.jobs)
    BY ClientIs, QueuesAre, JobsAre DEF IInv
  <2> QED
    BY <1>1, <1>3, <2>1 DEF Jobs
<1> QED
  BY <1>1, <1>2, <1>3, <1>4, StartKeeps

LEMMA WakeKeeps ==
  ASSUME IInv, Wake
  PROVE  IInv'
<1>1. /\ UNCHANGED <<line, client, daemon>> /\ event' = Reported /\ phase' = "events"
      /\ phase # "ended" /\ ~client.shouldExit /\ client.dead = "no"
  BY DEF Wake, Runs
<1>2. MayReport(event')
  BY <1>1, ReportedIs DEF Wake
<1>3. client \in ClientRecord(line.jobs)
  BY ClientIs DEF IInv
<1>4. Watched(client') /\ EventsFit'
  BY <1>1, <1>2 DEF IInv, EventsFit, MayReport
<1> QED
  BY <1>1, <1>2, <1>3, <1>4, IdleKeeps DEF MayReport

LEMMA OnPingTimeoutKeeps ==
  ASSUME IInv, OnPingTimeout
  PROVE  IInv'
<1>1. /\ UNCHANGED <<line, daemon>> /\ event' = Reported /\ phase' = "events"
      /\ client' = Exit(client, "failed") /\ Pings
      /\ phase # "ended" /\ ~client.shouldExit /\ client.dead = "no"
  BY DEF OnPingTimeout, Runs
<1>2. MayReport(event')
  BY <1>1, ReportedIs DEF OnPingTimeout
<1>3. client \in ClientRecord(line.jobs) /\ "failed" \in Status
  BY ClientIs DEF IInv, Status
<1>4. /\ client' \in ClientRecord(line.jobs) /\ client'.shouldExit
      /\ client'.requests = client.requests /\ client'.toSend = client.toSend
      /\ client'.waiting = client.waiting /\ client'.tries = client.tries
      /\ client'.started = client.started /\ client'.ran = client.ran
      /\ client'.dead = client.dead
  BY <1>1, <1>3 DEF Exit, ClientRecord
<1>5. Watched(client') /\ EventsFit'
  BY <1>1, <1>2, <1>4 DEF IInv, EventsFit, MayReport, Watched
<1>6. ~Sole(line.jobs)
  BY <1>1 DEF Pings, Sole
<1> QED
  BY <1>1, <1>2, <1>4, <1>5, <1>6, IdleKeeps DEF MayReport

LEMMA EndPassKeeps ==
  ASSUME IInv, EndPass
  PROVE  IInv'
<1>1. /\ UNCHANGED <<line, client, daemon, event>> /\ event = {}
      /\ phase = "events" /\ phase' = "wait"
  BY DEF EndPass
<1>2. client \in ClientRecord(line.jobs) /\ Deserved
  BY ClientIs DEF IInv
<1>3. Watched(client') /\ EventsFit'
  BY <1>1 DEF IInv, EventsFit
<1>4. Sole(line.jobs) /\ client.shouldExit /\ client.code = "ok" =>
          Earned(client) \/ line.wait
  BY <1>1, <1>2 DEF Deserved
<1> QED
  BY <1>1, <1>2, <1>3, <1>4, IdleKeeps

LEMMA LeaveLoopKeeps ==
  ASSUME IInv, LeaveLoop
  PROVE  IInv'
<1>1. /\ UNCHANGED <<line, daemon, event>> /\ event = {}
      /\ phase = "wait" /\ phase' = "over" /\ client.shouldExit
      /\ client' = [client EXCEPT !.canTake = FALSE, !.hasReply = FALSE]
  BY DEF LeaveLoop, IInv, EventsFit
<1>2. client \in ClientRecord(line.jobs) /\ Deserved
  BY ClientIs DEF IInv
<1>3. /\ client' \in ClientRecord(line.jobs) /\ client'.shouldExit
      /\ client'.requests = client.requests /\ client'.toSend = client.toSend
      /\ client'.waiting = client.waiting /\ client'.tries = client.tries
      /\ client'.started = client.started /\ client'.ran = client.ran
      /\ client'.dead = client.dead /\ client'.code = client.code
  BY <1>1, <1>2 DEF ClientRecord
<1>4. Watched(client') /\ EventsFit'
  BY <1>1, <1>3 DEF IInv, EventsFit, Watched
<1>5. Sole(line.jobs) /\ client.code = "ok" => Earned(client) \/ line.wait
  BY <1>1, <1>2 DEF Deserved
<1> QED
  BY <1>1, <1>3, <1>4, <1>5, IdleKeeps

LEMMA StutterKeeps ==
  ASSUME IInv, UNCHANGED vars
  PROVE  IInv'
<1>1. UNCHANGED <<line, client, daemon, event, phase>>
  BY DEF vars
<1>2. Typed' /\ EventsFit'
  BY <1>1 DEF IInv, Typed, EventsFit
<1>3. QueuesFit(client, line.jobs)' /\ Watched(client)'
  BY <1>1 DEF IInv
<1>4. RepliesFit'
  BY <1>1 DEF IInv, RepliesFit, InStep
<1>5. Deserved'
  BY <1>1 DEF IInv, Deserved
<1> QED
  BY <1>2, <1>3, <1>4, <1>5 DEF IInv

(* The daemon goes.                                                         *)
LEMMA CloseKeeps ==
  ASSUME IInv, Close
  PROVE  IInv'
<1>1. /\ UNCHANGED <<line, client, event, phase>> /\ daemon.link = "up"
      /\ daemon' = [daemon EXCEPT !.link = "closed", !.owed = {}]
  BY DEF Close
<1>2. daemon \in DaemonRecord
  BY ClientIs DEF IInv
<1>3. /\ daemon' \in DaemonRecord /\ daemon'.link = "closed" /\ daemon'.owed = {}
      /\ daemon'.inbox = daemon.inbox /\ daemon'.orderly = daemon.orderly
  BY <1>1, <1>2 DEF DaemonRecord
<1>4. Typed'
  BY <1>1, <1>3 DEF IInv, Typed
<1>5. QueuesFit(client, line.jobs)' /\ Watched(client)'
  BY <1>1 DEF IInv
<1>6. EventsFit'
  BY <1>1, <1>3 DEF IInv, EventsFit
<1>7. InStep => InStep'
  BY <1>1, <1>3 DEF InStep
<1>8. RepliesFit'
  BY <1>1, <1>3, <1>7 DEF IInv, RepliesFit
<1>9. Deserved'
  BY <1>1 DEF IInv, Deserved
<1> QED
  BY <1>4, <1>5, <1>6, <1>8, <1>9 DEF IInv

(* The only job has at most one request that is not resolved.               *)
LEMMA OneIsUnresolved ==
  ASSUME Typed, Len(line.jobs) = 1, NEW s \in ClientRecord(line.jobs),
         QueuesFit(s, line.jobs)
  PROVE  /\ \A a, b \in Unresolved(s) : a = b
         /\ \A k \in DOMAIN s.requests : s.requests[k].job = 1
         /\ ~(s.toSend # <<>> /\ s.waiting # <<>>)
<1>1. s.started \in 0..1
  BY DEF ClientRecord
<1>2. ASSUME NEW k \in DOMAIN s.requests PROVE s.requests[k].job = 1
  <2>1. s.requests[k].job \in 1..s.started
    BY DEF QueuesFit, OfItsJob
  <2> QED
    BY <1>1, <2>1
<1>3. \A a, b \in Unresolved(s) : a = b
  BY <1>2 DEF QueuesFit, OnePerJob, InOrder
<1>4. ASSUME s.toSend # <<>>, s.waiting # <<>> PROVE FALSE
  <2>1. /\ 1 \in DOMAIN s.toSend /\ 1 \in DOMAIN s.waiting
    BY <1>4, QueuesAre, TailIs
  <2>2. s.waiting[1] < s.toSend[1] /\ s.waiting[1] \in Nat /\ s.toSend[1] \in Nat
        /\ s.waiting[1] \in Unresolved(s) /\ s.toSend[1] \in Unresolved(s)
    BY <2>1, QueuesAre DEF QueuesFit, InOrder
  <2> QED
    BY <2>2, <1>3
<1> QED
  BY <1>2, <1>3, <1>4

(* The daemon replies; if it does so in order, this is the reply to the     *)
(* first request that it still has.                                         *)
LEMMA AnswerKeeps ==
  ASSUME IInv, NEW i \in DOMAIN client.requests, NEW type \in Reply, Answer(i, type)
  PROVE  IInv'
<1>1. /\ UNCHANGED <<line, client, event, phase>> /\ daemon.link = "up"
      /\ i \in daemon.owed /\ type \in Answers(client.requests[i].what)
  BY DEF Answer
<1>2. PICK n, q, e : /\ q = daemon.inbox /\ n = Len(q)
                     /\ e = [to |-> i, type |-> type]
  OBVIOUS
<1>3. PICK orderly \in BOOLEAN :
          orderly = (daemon.orderly /\ \A k \in daemon.owed : k >= i)
  OBVIOUS
<1>4. PICK paused \in BOOLEAN :
          daemon' = [daemon EXCEPT !.owed = @ \ {i}, !.inbox = Append(q, e),
                                   !.orderly = orderly, !.paused = paused]
  <2>1. daemon.paused \in BOOLEAN
    BY ClientIs DEF IInv, DaemonRecord
  <2>2. PICK paused : paused = IF type # "ack" THEN daemon.paused
                               ELSE (daemon.paused \/ client.requests[i].what = "pause")
                                    /\ client.requests[i].what # "unpause"
    OBVIOUS
  <2>3. paused \in BOOLEAN
    BY <2>1, <2>2
  <2>4. daemon' = [daemon EXCEPT !.owed = @ \ {i}, !.inbox = Append(@, e),
                                 !.orderly = @ /\ \A k \in daemon.owed : k >= i,
                                 !.paused = paused]
    BY <1>2, <2>2 DEF Answer
  <2> QED
    BY <1>2, <1>3, <2>3, <2>4
<1>5. /\ Typed /\ client \in ClientRecord(line.jobs) /\ daemon \in DaemonRecord
      /\ q \in Seq(ReplyRecord) /\ DOMAIN q = 1..n /\ n \in Nat
      /\ QueuesFit(client, line.jobs)
  BY <1>2, ClientIs DEF IInv
<1>6. i \in Nat /\ e \in ReplyRecord /\ e.to = i /\ e.type = type
  <2>1. i \in Nat
    BY <1>5, QueuesAre
  <2> QED
    BY <2>1, <1>2 DEF ReplyRecord
<1>7. /\ Append(q, e) \in Seq(ReplyRecord) /\ Append(q, e) # <<>>
      /\ Len(Append(q, e)) = n + 1 /\ DOMAIN Append(q, e) = 1..n + 1
      /\ \A k \in 1..n : Append(q, e)[k] = q[k]
      /\ Append(q, e)[n + 1] = e
  BY <1>2, <1>5, <1>6, AppendIs
<1>8. PICK p : p = Append(q, e)
  OBVIOUS
<1>9. /\ daemon' \in DaemonRecord /\ daemon'.inbox = p /\ daemon'.link = "up"
      /\ daemon'.owed = daemon.owed \ {i} /\ daemon'.orderly = orderly
  BY <1>1, <1>4, <1>5, <1>7, <1>8 DEF DaemonRecord
<1>10. 1..n + 1 = (1..n) \union {n + 1}
  BY <1>5
<1>11. Typed'
  BY <1>1, <1>5, <1>9 DEF Typed
<1>12. QueuesFit(client, line.jobs)' /\ Watched(client)'
  BY <1>1 DEF IInv
<1>13. EventsFit'
  BY <1>1, <1>7, <1>8, <1>9 DEF IInv, EventsFit
<1>14. Deserved'
  BY <1>1 DEF IInv, Deserved
<1>15. RepliesFit
  BY DEF IInv
<1>16. \A k \in DOMAIN p :
           /\ p[k].to \in DOMAIN client.requests
           /\ p[k].type \in Answers(client.requests[p[k].to].what)
  BY <1>1, <1>2, <1>6, <1>7, <1>8, <1>10, <1>15 DEF RepliesFit
<1>17. Len(line.jobs) = 1 => orderly /\ \A a, b \in daemon'.owed : a = b
  <2>1. SUFFICES ASSUME Len(line.jobs) = 1
                 PROVE  orderly /\ \A a, b \in daemon'.owed : a = b
    OBVIOUS
  <2>2. daemon.orderly /\ \A a, b \in daemon.owed : a = b
    BY <2>1, <1>15 DEF RepliesFit
  <2>3. \A k \in daemon.owed : k >= i
    BY <2>2, <1>1, <1>6
  <2> QED
    BY <2>2, <2>3, <1>3, <1>9
<1>18. ASSUME orderly, phase # "ended" PROVE InStep'
  <2>1. InStep
    BY <1>3, <1>15, <1>18 DEF RepliesFit
  <2>2. PICK w, l : w = client.waiting /\ l = Len(w)
    OBVIOUS
  <2>3. /\ DOMAIN w = 1..l /\ l \in Nat /\ n <= l
        /\ \A k \in 1..l : w[k] \in Nat
        /\ \A a, b \in 1..l : a < b => w[a] < w[b]
        /\ \A k \in 1..n : q[k].to = w[k]
        /\ daemon.owed = {w[k] : k \in {k \in 1..l : k > n}}
    <3>1. DOMAIN w = 1..l /\ l \in Nat /\ \A k \in 1..l : w[k] \in Nat
      BY <1>5, <2>2, QueuesAre
    <3>2. \A a, b \in 1..l : a < b => w[a] < w[b]
      BY <1>5, <2>2, <3>1 DEF QueuesFit, InOrder, Increasing
    <3>3. n <= l /\ \A k \in 1..n : q[k].to = w[k]
      BY <1>2, <1>5, <2>1, <2>2 DEF InStep
    <3>4. daemon.owed = {w[k] : k \in {k \in 1..l : k > n}}
      BY <1>1, <1>2, <2>1, <2>2, <3>1 DEF InStep
    <3> QED
      BY <3>1, <3>2, <3>3, <3>4
  <2>4. PICK k \in 1..l : k > n /\ i = w[k]
    BY <1>1, <2>3
  <2>5. n + 1 \in 1..l
    BY <2>3, <2>4, <1>5
  <2>6. w[n + 1] >= i
    <3>1. w[n + 1] \in daemon.owed
      BY <2>3, <2>5, <1>5
    <3> QED
      BY <3>1, <1>3, <1>18
  <2>7. k = n + 1
    BY <2>3, <2>4, <2>5, <2>6, <1>5
  <2>8. n + 1 <= l /\ \A m \in 1..n + 1 : p[m].to = w[m]
    BY <1>6, <1>7, <1>8, <1>10, <2>3, <2>4, <2>5, <2>7
  <2>9. daemon.owed \ {i} = {w[m] : m \in {m \in 1..l : m > n + 1}}
    <3>1. ASSUME NEW m \in 1..l, m > n, w[m] # i PROVE m > n + 1
      BY <3>1, <2>4, <2>7, <1>5
    <3>2. ASSUME NEW m \in 1..l, m > n + 1 PROVE m > n /\ w[m] # i
      <4>1. w[n + 1] < w[m]
        BY <3>2, <2>3, <2>5
      <4> QED
        BY <3>2, <4>1, <2>3, <2>4, <2>5, <2>7, <1>5
    <3> QED
      BY <3>1, <3>2, <2>3
  <2>10. /\ client'.waiting = w /\ daemon'.inbox = p /\ Len(p) = n + 1 /\ Len(w) = l
         /\ DOMAIN p = 1..n + 1 /\ DOMAIN w = 1..l
         /\ daemon'.link = "up" /\ daemon'.owed = daemon.owed \ {i}
    BY <1>1, <1>7, <1>8, <1>9, <2>2, <2>3
  <2>11. daemon'.owed = {w[m] : m \in {m \in DOMAIN w : daemon'.link = "up" /\ m > Len(p)}}
    BY <2>9, <2>10
  <2> QED
    BY <2>8, <2>10, <2>11 DEF InStep
<1>19. RepliesFit'
  BY <1>1, <1>3, <1>9, <1>15, <1>16, <1>17, <1>18 DEF RepliesFit
<1> QED
  BY <1>11, <1>12, <1>13, <1>14, <1>19 DEF IInv

(* A request is resolved: it leaves the queue s had it in, and the handler  *)
(* makes h of a, the client in which it is marked as resolved.              *)
ResolvedBy(s, a, h, t, i, got, type) ==
    /\ HandlerResult(a, h, s.requests[i], type)
    /\ ResolvedIn(s, a, i, got)
    /\ a.started = s.started /\ a.tries = s.tries /\ a.ran = s.ran
    /\ a.shouldExit = s.shouldExit /\ a.code = s.code /\ a.dead = s.dead
    /\ t.requests = h.requests /\ t.toSend = h.toSend /\ t.started = h.started
    /\ t.tries = h.tries /\ t.ran = h.ran /\ t.shouldExit = h.shouldExit
    /\ t.code = h.code /\ t.dead = h.dead
    /\ LeavesQueue(s, [a EXCEPT !.waiting = t.waiting], i)

LEMMA ResolvedFits ==
  ASSUME Typed, NEW s \in ClientRecord(line.jobs), QueuesFit(s, line.jobs),
         NEW a \in ClientRecord(line.jobs), NEW t \in ClientRecord(line.jobs),
         NEW h, NEW i, NEW got, NEW type, ResolvedBy(s, a, h, t, i, got, type)
  PROVE  /\ QueuesFit(t, line.jobs) /\ i \in Unresolved(s)
         /\ i \in DOMAIN s.requests /\ s.requests[i] \in Request
         /\ \/ /\ Ends(a, h) /\ DOMAIN t.requests = DOMAIN s.requests
               /\ Unresolved(t) = Unresolved(s) \ {i}
            \/ /\ DOMAIN t.requests = DOMAIN s.requests \union {Len(s.requests) + 1}
               /\ Unresolved(t) = (Unresolved(s) \ {i}) \union {Len(s.requests) + 1}
               /\ Len(s.requests) + 1 \notin DOMAIN s.requests
               /\ \E what \in What, then \in Status :
                      /\ Led(a, h, s.requests[i], type, what, then)
                      /\ t.requests[Len(s.requests) + 1] =
                             NewRequest(s.requests[i].job, what, then)
         /\ \A k \in DOMAIN s.requests :
                t.requests[k] = IF k = i THEN Resolved(s.requests[i], got)
                                ELSE s.requests[k]
<1>1. PICK m : m = [a EXCEPT !.waiting = t.waiting, !.tries = t.tries]
  OBVIOUS
<1>2. /\ m \in ClientRecord(line.jobs)
      /\ m.requests = a.requests /\ m.toSend = a.toSend /\ m.waiting = t.waiting
      /\ m.tries = t.tries /\ m.started = a.started
  BY <1>1 DEF ClientRecord
<1>3. PICK w : w = [a EXCEPT !.waiting = t.waiting]
  OBVIOUS
<1>4. LeavesQueue(s, w, i) /\ w.waiting = m.waiting /\ w.toSend = m.toSend
  BY <1>2, <1>3 DEF ResolvedBy, ClientRecord
<1>5. LeavesQueue(s, m, i)
  BY <1>4 DEF LeavesQueue
<1>6. w \in ClientRecord(line.jobs)
  BY <1>3 DEF ClientRecord
<1>7. i \in Unresolved(s) /\ Unresolved(s) \subseteq DOMAIN s.requests
  BY <1>4, <1>6, LeavingRemoves DEF QueuesFit, InOrder
<1>8. PICK r, j : r = s.requests[i] /\ j = r.job
  OBVIOUS
<1>9. /\ r \in Request /\ j \in 1..s.started /\ s.started \in 0..Len(line.jobs)
      /\ s.started \in Nat
  BY <1>7, <1>8, QueuesAre DEF QueuesFit, OfItsJob, ClientRecord
<1>10. /\ line.jobs \in Seq(Job) /\ DOMAIN line.jobs = 1..Len(line.jobs)
       /\ Len(line.jobs) \in Nat
  BY JobsAre
<1>11. j \in DOMAIN line.jobs /\ j <= s.started
  BY <1>9, <1>10
<1>12. /\ Steady(a, h, j) /\ DOMAIN a.tries = DOMAIN line.jobs
       /\ HandlerResult(a, h, r, type)
  BY <1>8 DEF ResolvedBy, HandlerResult, ClientRecord
<1>13. \A k \in DOMAIN line.jobs :
           /\ m.tries[k] <= s.tries[k]
           /\ k # j => m.tries[k] = s.tries[k]
  <2>1. m.tries = h.tries /\ s.tries = a.tries
    BY <1>2 DEF ResolvedBy
  <2>2. \A k \in DOMAIN line.jobs : s.tries[k] \in Nat
    BY QueuesAre
  <2> QED
    BY <1>12, <2>1, <2>2 DEF Steady
<1>14. m.started = s.started /\ ResolvedIn(s, m, i, got)
  BY <1>2 DEF ResolvedBy, ResolvedIn
<1>15. /\ QueuesFit(m, line.jobs) /\ Unresolved(m) = Unresolved(s) \ {i}
       /\ \A x \in Unresolved(m) : m.requests[x].job # j
       /\ \A x : Passwords(m, x) = Passwords(s, x)
  BY <1>2, <1>5, <1>8, <1>10, <1>13, <1>14, RemovalFits
<1>16. t.started = m.started
  BY <1>2, <1>12 DEF ResolvedBy, Steady
<1>17. \A k \in DOMAIN s.requests :
           m.requests[k] = IF k = i THEN Resolved(s.requests[i], got)
                           ELSE s.requests[k]
  BY <1>14 DEF ResolvedIn
<1>18. DOMAIN m.requests = DOMAIN s.requests
  BY <1>14 DEF ResolvedIn
<1>19. CASE Ends(a, h)
  <2>1. t.requests = m.requests /\ t.toSend = m.toSend
    BY <1>2, <1>19 DEF ResolvedBy, Ends
  <2>2. QueuesFit(t, line.jobs) /\ Unresolved(t) = Unresolved(m)
    BY <2>1, <1>2, <1>15, <1>16, SameFits
  <2> QED
    BY <2>1, <2>2, <1>7, <1>8, <1>9, <1>15, <1>17, <1>18, <1>19
<1>20. ASSUME NEW what \in What, NEW then \in Status, Led(a, h, r, type, what, then)
       PROVE  /\ QueuesFit(t, line.jobs)
              /\ DOMAIN t.requests = DOMAIN s.requests \union {Len(s.requests) + 1}
              /\ Unresolved(t) = (Unresolved(s) \ {i}) \union {Len(s.requests) + 1}
              /\ Len(s.requests) + 1 \notin DOMAIN s.requests
              /\ t.requests[Len(s.requests) + 1] = NewRequest(j, what, then)
              /\ \A k \in DOMAIN s.requests : t.requests[k] = m.requests[k]
  <2>1. PICK n, e : n = Len(m.requests) /\ e = NewRequest(j, what, then)
    OBVIOUS
  <2>2. /\ t.requests = Append(m.requests, e)
        /\ t.toSend = Append(m.toSend, n + 1)
    BY <1>2, <1>8, <1>20, <2>1 DEF ResolvedBy, Led, Asks
  <2>3. e \in Request
    BY <1>9, <2>1 DEF NewRequest, Request, NoReply
  <2>4. /\ DOMAIN m.requests = 1..n /\ n \in Nat /\ DOMAIN t.requests = 1..n + 1
        /\ \A k \in 1..n : t.requests[k] = m.requests[k]
        /\ t.requests[n + 1] = e
    BY <1>2, <2>1, <2>2, <2>3, AppendIs, QueuesAre
  <2>5. Len(s.requests) = n
    <3>1. PICK l : l = Len(s.requests)
      OBVIOUS
    <3>2. l \in Nat /\ 1..l = 1..n
      BY <1>18, <2>4, <3>1, QueuesAre
    <3>3. /\ l < n => n \in 1..n /\ n \notin 1..l
          /\ n < l => l \in 1..l /\ l \notin 1..n
      BY <2>4, <3>2
    <3> QED
      BY <2>4, <3>1, <3>2, <3>3
  <2>6. Fits(line.jobs, j, what) /\ Follows(a, h, r, what)
    BY <1>8, <1>20 DEF Led
  <2>7. /\ line.jobs[j] \in Job /\ line.jobs[j].tries \in Nat
        /\ s.tries[j] \in Nat /\ Cardinality(Passwords(s, j)) \in Nat
        /\ m.tries[j] \in Nat
    BY <1>2, <1>11, JobsAre, QueuesAre, PasswordsAre DEF Jobs
  <2>8. /\ r.what \in {"pause", "cached"} =>
               Passwords(s, j) = {} /\ s.tries[j] = line.jobs[j].tries
        /\ r.what = "password" =>
               /\ s.tries[j] >= 1
               /\ Cardinality(Passwords(s, j)) + s.tries[j] <= line.jobs[j].tries + 1
    BY <1>7, <1>8 DEF QueuesFit, TriesLast, Pending
  <2>9. m.tries[j] = h.tries[j] /\ a.tries[j] = s.tries[j]
    BY <1>2 DEF ResolvedBy
  <2>10. Cardinality(Passwords(s, j)) = 0 \/ Passwords(s, j) # {}
    BY PasswordsAre
  <2>11. line.jobs[j].tries >= 1
    BY <2>7 DEF Job
  <2>12. what \in {"pause", "cached"} =>
             Passwords(m, j) = {} /\ m.tries[j] = line.jobs[j].tries
    BY <2>6, <2>8, <2>9, <1>8, <1>15 DEF Follows
  <2>13. what = "password" =>
             /\ m.tries[j] >= 1
             /\ Cardinality(Passwords(m, j)) + m.tries[j] <= line.jobs[j].tries
    BY <2>6, <2>7, <2>8, <2>9, <2>10, <2>11, <1>8, <1>15, SMTT(30) DEF Follows
  <2>14. /\ QueuesFit(t, line.jobs)
         /\ Unresolved(t) = Unresolved(m) \union {n + 1}
    <3>1. /\ t.requests = Append(m.requests, NewRequest(j, what, then))
          /\ t.toSend = Append(m.toSend, Len(m.requests) + 1)
      BY <2>1, <2>2
    <3>2. /\ t.waiting = m.waiting /\ t.started = m.started /\ t.tries = m.tries
          /\ j \in DOMAIN line.jobs /\ j <= m.started /\ what \in What /\ then \in Status
      BY <1>2, <1>11, <1>14, <1>16, <1>20
    <3>3. /\ m \in ClientRecord(line.jobs) /\ QueuesFit(m, line.jobs)
          /\ \A x \in Unresolved(m) : m.requests[x].job # j
          /\ line.jobs \in Seq(Job) /\ Fits(line.jobs, j, what)
      BY <1>2, <1>10, <1>15, <2>6
    <3>4. /\ QueuesFit(t, line.jobs)
          /\ Unresolved(t) = Unresolved(m) \union {Len(m.requests) + 1}
      BY <2>12, <2>13, <3>1, <3>2, <3>3, AskFits, SMTT(30)
    <3> QED
      BY <2>1, <3>4
  <2>15. 1..n + 1 = (1..n) \union {n + 1} /\ n + 1 \notin 1..n
    BY <2>4
  <2> QED
    BY <2>1, <2>4, <2>5, <2>14, <2>15, <1>15, <1>18
<1> QED
  BY <1>7, <1>8, <1>9, <1>12, <1>17, <1>19, <1>20 DEF HandlerResult

(* What the invariant says of the requests to resume progress.              *)
EndsWell(s) ==
    \A i \in DOMAIN s.requests :
        s.requests[i].what = "unpause" =>
            /\ s.requests[i].then = "ok" => Earned(s)
            /\ \A k \in Unresolved(s) : s.requests[k].what = "unpause"

(* A reply that ends the only job well was one that it may end well with.   *)
LEMMA ResolvedDeserves ==
  ASSUME Typed, Sole(line.jobs), NEW s \in ClientRecord(line.jobs),
         QueuesFit(s, line.jobs), EndsWell(s), ~s.shouldExit,
         NEW a \in ClientRecord(line.jobs), NEW t \in ClientRecord(line.jobs),
         NEW h, NEW i, NEW got, NEW type, ResolvedBy(s, a, h, t, i, got, type),
         type \in {"interrupt", "no_answer"} => got.type = type
  PROVE  EndsWell(t) /\ (t.shouldExit /\ t.code = "ok" => Earned(t))
<1>1. PICK r, n : r = s.requests[i] /\ n = Len(s.requests) + 1
  OBVIOUS
<1>2. /\ i \in Unresolved(s) /\ i \in DOMAIN s.requests /\ r \in Request
      /\ \/ /\ Ends(a, h) /\ DOMAIN t.requests = DOMAIN s.requests
            /\ Unresolved(t) = Unresolved(s) \ {i}
         \/ /\ DOMAIN t.requests = DOMAIN s.requests \union {n}
            /\ Unresolved(t) = (Unresolved(s) \ {i}) \union {n}
            /\ n \notin DOMAIN s.requests
            /\ \E what \in What, then \in Status :
                   /\ Led(a, h, r, type, what, then)
                   /\ t.requests[n] = NewRequest(r.job, what, then)
      /\ \A k \in DOMAIN s.requests :
             t.requests[k] = IF k = i THEN Resolved(r, got) ELSE s.requests[k]
  <2>1. ResolvedBy(s, a, h, t, i, got, type)
    OBVIOUS
  <2> QED
    BY <1>1, <2>1, ResolvedFits
<1>3. \A k \in DOMAIN s.requests :
          /\ t.requests[k].what = s.requests[k].what
          /\ t.requests[k].then = s.requests[k].then
          /\ k # i => t.requests[k] = s.requests[k]
  BY <1>1, <1>2, RequestIs
<1>4. t.requests[i].what = r.what /\ t.requests[i].got = got
  BY <1>1, <1>2, RequestIs
<1>5. DOMAIN s.requests \subseteq DOMAIN t.requests
  BY <1>2
<1>6. r.job = 1 /\ WantsProgram(1) /\ \A x, y \in Unresolved(s) : x = y
  BY <1>1, <1>2, OneIsUnresolved DEF Sole, WantsProgram
<1>7. HandlerResult(a, h, r, type) /\ a.ran = s.ran /\ t.ran = h.ran
      /\ a.shouldExit = s.shouldExit /\ t.shouldExit = h.shouldExit /\ t.code = h.code
  BY <1>1 DEF ResolvedBy
<1>8. ASSUME Merited(h, r, type) PROVE Earned(t)
  <2>1. CASE h.ran[1] \in {"ok", "unstarted"}
    BY <2>1, <1>7 DEF Earned
  <2>2. CASE r.what = "password" /\ type \in {"interrupt", "no_answer"}
    BY <2>2, <1>2, <1>4, <1>5 DEF Earned
  <2> QED
    BY <1>6, <1>8, <2>1, <2>2 DEF Merited
<1>9. ASSUME r.what = "unpause", Earned(s) PROVE Earned(t)
  <2>1. t.ran = s.ran
    BY <1>7, <1>9 DEF HandlerResult
  <2>2. ASSUME NEW k \in DOMAIN s.requests, s.requests[k].what = "password",
               s.requests[k].got.type \in {"interrupt", "no_answer"}
        PROVE  Earned(t)
    <3>1. t.requests[k] = s.requests[k] /\ k \in DOMAIN t.requests
      BY <1>1, <1>3, <1>5, <1>9, <2>2
    <3> QED
      BY <2>2, <3>1 DEF Earned
  <2> QED
    BY <1>9, <2>1, <2>2 DEF Earned
<1>10. r.what = "unpause" /\ r.then = "ok" => Earned(s)
  BY <1>1, <1>2 DEF EndsWell
<1>11. t.shouldExit /\ t.code = "ok" => Earned(t)
  BY <1>6, <1>7, <1>8, <1>9, <1>10 DEF HandlerResult
<1>12. CASE r.what = "unpause"
  <2>1. Ends(a, h)
    BY <1>7, <1>12 DEF HandlerResult
  <2>2. ~ \E what \in What, then \in Status : Led(a, h, r, type, what, then)
    BY <1>12 DEF Led, Follows
  <2>3. DOMAIN t.requests = DOMAIN s.requests /\ Unresolved(t) = Unresolved(s) \ {i}
    BY <1>2, <2>2
  <2>4. Unresolved(t) = {}
    BY <1>2, <1>6, <2>3
  <2>5. EndsWell(t)
    BY <1>3, <1>9, <1>12, <2>3, <2>4 DEF EndsWell
  <2> QED
    BY <1>11, <2>5
<1>13. CASE r.what # "unpause"
  <2>1. \A k \in DOMAIN s.requests : s.requests[k].what # "unpause"
    BY <1>1, <1>2, <1>13 DEF EndsWell
  <2>2. CASE DOMAIN t.requests = DOMAIN s.requests
    BY <1>3, <1>11, <2>1, <2>2 DEF EndsWell
  <2>3. ASSUME DOMAIN t.requests = DOMAIN s.requests \union {n},
               Unresolved(t) = (Unresolved(s) \ {i}) \union {n},
               NEW what \in What, NEW then \in Status,
               Led(a, h, r, type, what, then),
               t.requests[n] = NewRequest(r.job, what, then)
        PROVE  EndsWell(t)
    <3>1. t.requests[n].what = what /\ t.requests[n].then = then
      BY <2>3 DEF NewRequest
    <3>2. Unresolved(t) = {n}
      BY <1>2, <1>6, <2>3
    <3>3. what = "unpause" /\ then = "ok" => Earned(t)
      BY <1>6, <1>8, <2>3 DEF Led
    <3> QED
      BY <1>3, <2>1, <2>3, <3>1, <3>2, <3>3 DEF EndsWell
  <2> QED
    BY <1>2, <1>11, <2>2, <2>3
<1> QED
  BY <1>12, <1>13

(* The only job is told of one event at a time.                             *)
LEMMA OneEvent ==
  ASSUME IInv, Sole(line.jobs), NEW status \in event, status # "hangup"
  PROVE  event \ {status} = {}
<1>1. ~(client.toSend # <<>> /\ client.waiting # <<>>)
  BY ClientIs, OneIsUnresolved DEF IInv, Sole
<1>2. ~("out" \in event /\ "in" \in event) /\ "hangup" \notin event
      /\ event \in SUBSET {"out", "in", "hangup"}
  BY <1>1 DEF IInv, EventsFit, Typed
<1> QED
  BY <1>2

Given == [to : Nat, type : Reply \union {"none", "failed"}]

LEMMA ResolveIs ==
  ASSUME NEW jobs, NEW s \in ClientRecord(jobs), NEW i \in DOMAIN s.requests,
         NEW got \in Given, NEW a, a = Resolve(s, i, got)
  PROVE  /\ a \in ClientRecord(jobs) /\ ResolvedIn(s, a, i, got)
         /\ a.toSend = s.toSend /\ a.waiting = s.waiting
         /\ a.canTake = s.canTake /\ a.hasReply = s.hasReply
         /\ a.started = s.started /\ a.tries = s.tries /\ a.ran = s.ran
         /\ a.shouldExit = s.shouldExit /\ a.code = s.code /\ a.dead = s.dead
<1>1. PICK n : n = Len(s.requests)
  OBVIOUS
<1>2. /\ s.requests \in Seq(Request) /\ DOMAIN s.requests = 1..n /\ n \in Nat
      /\ s.requests[i] \in Request
  BY <1>1, QueuesAre
<1>3. PICK r : r = Resolved(s.requests[i], got)
  OBVIOUS
<1>4. r \in Request
  <2>1. PICK e, c : e = s.requests[i] /\ c = e.calls + 1
    OBVIOUS
  <2>2. e \in Request /\ c \in Nat
    BY <2>1, <1>2, RequestIs
  <2>3. r = [e EXCEPT !.calls = c, !.got = got]
    BY <2>1, <1>3 DEF Resolved
  <2> QED
    BY <2>2, <2>3 DEF Request, Given
<1>5. PICK q : q = [s.requests EXCEPT ![i] = r]
  OBVIOUS
<1>6. q \in Seq(Request) /\ DOMAIN q = DOMAIN s.requests /\ q[i] = r
      /\ \A k \in DOMAIN s.requests : k # i => q[k] = s.requests[k]
  <2>1. s.requests \in [1..n -> Request]
    BY <1>2
  <2>2. q \in [1..n -> Request]
    BY <2>1, <1>2, <1>4, <1>5
  <2> QED
    BY <2>1, <2>2, <1>2, <1>5, IsASeq
<1>7. a = [s EXCEPT !.requests = q]
  BY <1>2, <1>3, <1>5 DEF Resolve, Resolved, ClientRecord
<1>8. /\ a \in ClientRecord(jobs) /\ a.requests = q
      /\ a.toSend = s.toSend /\ a.waiting = s.waiting
      /\ a.canTake = s.canTake /\ a.hasReply = s.hasReply
      /\ a.started = s.started /\ a.tries = s.tries /\ a.ran = s.ran
      /\ a.shouldExit = s.shouldExit /\ a.code = s.code /\ a.dead = s.dead
  BY <1>6, <1>7 DEF ClientRecord
<1> QED
  BY <1>3, <1>6, <1>8 DEF ResolvedIn

(* What the client keeps of a reply.                                        *)
LEMMA ResolvedReplies ==
  ASSUME Typed, NEW s \in ClientRecord(line.jobs), QueuesFit(s, line.jobs),
         NEW a \in ClientRecord(line.jobs), NEW t \in ClientRecord(line.jobs),
         NEW h, NEW i, NEW got, NEW type, ResolvedBy(s, a, h, t, i, got, type)
  PROVE  /\ DOMAIN s.requests \subseteq DOMAIN t.requests
         /\ \A k \in DOMAIN s.requests : t.requests[k].what = s.requests[k].what
         /\ got.to \in {0, i} /\ (\A k \in DOMAIN s.requests : s.requests[k].got.to \in {0, k})
            => \A k \in DOMAIN t.requests : t.requests[k].got.to \in {0, k}
<1>1. PICK r, n : r = s.requests[i] /\ n = Len(s.requests) + 1
  OBVIOUS
<1>2. /\ i \in DOMAIN s.requests /\ r \in Request
      /\ \/ DOMAIN t.requests = DOMAIN s.requests
         \/ /\ DOMAIN t.requests = DOMAIN s.requests \union {n}
            /\ \E what \in What, then \in Status :
                   t.requests[n] = NewRequest(r.job, what, then)
      /\ \A k \in DOMAIN s.requests :
             t.requests[k] = IF k = i THEN Resolved(r, got) ELSE s.requests[k]
  <2>1. ResolvedBy(s, a, h, t, i, got, type)
    OBVIOUS
  <2> QED
    BY <1>1, <2>1, ResolvedFits
<1>3. \A what, then : NewRequest(r.job, what, then).got.to = 0
  BY DEF NewRequest, NoReply
<1>4. DOMAIN t.requests = DOMAIN s.requests
      \/ (DOMAIN t.requests = DOMAIN s.requests \union {n} /\ t.requests[n].got.to = 0)
  BY <1>2, <1>3
<1>5. Resolved(r, got).what = r.what /\ Resolved(r, got).got = got
  BY <1>2, RequestIs
<1> QED
  BY <1>1, <1>2, <1>4, <1>5

(* A request is written, or, when the daemon is gone, fails.                *)
LEMMA SendNextKeeps ==
  ASSUME IInv, NEW o \in Drawn, SendNext(o)
  PROVE  IInv'
<1>1. PICK s, t, i, r : s = client /\ t = client' /\ i = Head(s.toSend)
                        /\ r = s.requests[i]
  OBVIOUS
<1>2. /\ phase = "events" /\ "out" \in event /\ s.dead = "no"
      /\ event' = event \ {"out"} /\ UNCHANGED <<line, phase>>
  BY <1>1 DEF SendNext, Handles
<1>3. /\ Typed /\ s \in ClientRecord(line.jobs) /\ daemon \in DaemonRecord
      /\ QueuesFit(s, line.jobs) /\ line.jobs \in Seq(Job) /\ s.toSend # <<>>
      /\ Watched(s) /\ EventsFit /\ RepliesFit /\ Deserved
  BY <1>1, <1>2, ClientIs, JobsAre DEF IInv, EventsFit
<1>4. /\ Tail(s.toSend) \in Seq(Nat) /\ i \in Nat
      /\ i \in Unresolved(s) /\ i \in DOMAIN s.requests
  <2>1. s.toSend \in Seq(Nat) /\ \A k \in DOMAIN s.toSend : s.toSend[k] \in Unresolved(s)
    BY <1>3, QueuesAre
  <2>2. i = s.toSend[1] /\ 1 \in DOMAIN s.toSend
    BY <1>1, <1>3, <2>1, TailIs
  <2> QED
    BY <1>1, <1>3, <2>1, <2>2, TailIs DEF QueuesFit, InOrder
<1>5. PICK u : u = [s EXCEPT !.toSend = Tail(s.toSend)]
  OBVIOUS
<1>6. /\ u \in ClientRecord(line.jobs) /\ u.requests = s.requests
      /\ u.toSend = Tail(s.toSend) /\ u.waiting = s.waiting
      /\ u.canTake = s.canTake /\ u.hasReply = s.hasReply
      /\ u.started = s.started /\ u.tries = s.tries /\ u.ran = s.ran
      /\ u.shouldExit = s.shouldExit /\ u.code = s.code /\ u.dead = s.dead
  BY <1>3, <1>4, <1>5 DEF ClientRecord
<1>7. daemon.link # "none"
  <2>1. s.requests # <<>>
    BY <1>4
  <2> QED
    BY <1>1, <1>3, <2>1 DEF EventsFit
<1>8. Sole(line.jobs) => event' = {} /\ ~s.shouldExit
  BY <1>1, <1>2, <1>3, OneEvent DEF Deserved
<1>9. CASE daemon.link = "closed"
  <2>1. PICK a, h : /\ a = Resolve(u, i, [to |-> 0, type |-> "failed"])
                    /\ h = Fail(a, r.job, r.what, o)
    OBVIOUS
  <2>2. t = StopSending(h) /\ daemon' = daemon
    BY <1>1, <1>3, <1>5, <1>9, <2>1 DEF SendNext
  <2>3. PICK got : got = [to |-> 0, type |-> "failed"]
    OBVIOUS
  <2>4. got \in Given /\ got.to = 0
    BY <2>3 DEF Given
  <2>5. /\ a \in ClientRecord(line.jobs) /\ ResolvedIn(u, a, i, got)
        /\ a.toSend = u.toSend /\ a.waiting = u.waiting
        /\ a.started = u.started /\ a.tries = u.tries /\ a.ran = u.ran
        /\ a.shouldExit = u.shouldExit /\ a.code = u.code /\ a.dead = u.dead
    BY <1>4, <1>6, <2>1, <2>3, <2>4, ResolveIs
  <2>6. /\ r \in Request /\ r.job \in Jobs /\ Fits(line.jobs, r.job, r.what)
        /\ r.what = "password" => a.tries[r.job] >= 1
    <3>1. r \in Request /\ r.job \in 1..s.started /\ Fits(line.jobs, r.job, r.what)
      BY <1>1, <1>3, <1>4, QueuesAre DEF QueuesFit, OfItsJob
    <3>2. s.started \in 0..Len(line.jobs) /\ DOMAIN line.jobs = 1..Len(line.jobs)
          /\ Len(line.jobs) \in Nat
      BY <1>3, JobsAre DEF ClientRecord
    <3>3. r.what = "password" => s.tries[r.job] >= 1
      BY <1>1, <1>3, <1>4 DEF QueuesFit, TriesLast, Pending
    <3> QED
      BY <3>1, <3>2, <3>3, <1>6, <2>5 DEF Jobs
  <2>7. h = Handle(a, r, "nak", o)
    BY <2>1 DEF Handle
  <2>8. HandlerResult(a, h, r, "nak")
    BY <1>2, <1>3, <1>6, <1>7, <2>5, <2>6, <2>7, HandleIs
  <2>9. /\ h \in ClientRecord(line.jobs) /\ Steady(a, h, r.job) /\ Ends(a, h)
        /\ h.dead \in {a.dead, "signal"}
    BY <2>1, <2>5, <2>6, FailIs
  <2>10. /\ t \in ClientRecord(line.jobs) /\ t.requests = h.requests /\ t.toSend = h.toSend
         /\ t.waiting = h.waiting /\ t.started = h.started /\ t.tries = h.tries
         /\ t.ran = h.ran /\ t.shouldExit = h.shouldExit /\ t.code = h.code
         /\ t.dead = h.dead
    BY <2>2, <2>9 DEF StopSending, ClientRecord
  <2>11. t.waiting = s.waiting /\ t.toSend = Tail(s.toSend) /\ t.started = s.started
    BY <1>6, <2>5, <2>9, <2>10 DEF Steady, Ends
  <2>12. ResolvedBy(s, a, h, t, i, got, "nak")
    <3>1. PICK w : w = [a EXCEPT !.waiting = t.waiting]
      OBVIOUS
    <3>2. w.waiting = s.waiting /\ w.toSend = Tail(s.toSend)
      BY <1>6, <2>5, <2>11, <3>1 DEF ClientRecord
    <3>3. LeavesQueue(s, w, i)
      BY <1>1, <1>3, <3>2 DEF LeavesQueue
    <3>4. ResolvedIn(s, a, i, got)
      BY <1>6, <2>5 DEF ResolvedIn
    <3> QED
      BY <1>1, <1>6, <2>5, <2>8, <2>10, <3>1, <3>3, <3>4 DEF ResolvedBy
  <2>13. QueuesFit(t, line.jobs)
    BY <1>3, <2>5, <2>10, <2>12, ResolvedFits
  <2>14. Typed'
    BY <1>1, <1>2, <1>3, <2>2, <2>10 DEF Typed
  <2>15. QueuesFit(client, line.jobs)' /\ Watched(client)'
    BY <1>1, <1>2, <2>9, <2>10, <2>13 DEF Watched, Ends
  <2>16. EventsFit'
    BY <1>1, <1>2, <1>3, <1>6, <1>9, <2>2, <2>5, <2>9, <2>10, <2>11 DEF EventsFit
  <2>17. /\ DOMAIN s.requests \subseteq DOMAIN t.requests
         /\ \A k \in DOMAIN s.requests : t.requests[k].what = s.requests[k].what
         /\ (\A k \in DOMAIN s.requests : s.requests[k].got.to \in {0, k})
            => \A k \in DOMAIN t.requests : t.requests[k].got.to \in {0, k}
    BY <1>3, <2>4, <2>5, <2>10, <2>12, ResolvedReplies
  <2>18. InStep => InStep'
    BY <1>1, <2>2, <2>11 DEF InStep
  <2>19. t.dead # "undefined"
    BY <1>2, <1>6, <2>5, <2>9, <2>10
  <2>20. RepliesFit'
    BY <1>1, <1>2, <1>3, <2>2, <2>17, <2>18, <2>19 DEF RepliesFit
  <2>21. ASSUME Sole(line.jobs)
         PROVE  EndsWell(t) /\ (t.shouldExit /\ t.code = "ok" => Earned(t))
    <3>1. EndsWell(s)
      BY <1>1, <1>2, <1>3, <2>21 DEF Deserved, EndsWell
    <3> QED
      BY <1>3, <1>8, <2>5, <2>10, <2>12, <2>21, <3>1, ResolvedDeserves
  <2>22. Deserved'
    BY <1>1, <1>2, <1>8, <2>21 DEF Deserved, EndsWell
  <2> QED
    BY <2>14, <2>15, <2>16, <2>20, <2>22 DEF IInv
<1>10. CASE daemon.link = "up"
  <2>1. PICK v : v = [u EXCEPT !.hasReply = TRUE, !.waiting = Append(s.waiting, i)]
    OBVIOUS
  <2>2. /\ t = StopSending(v)
        /\ daemon' = [daemon EXCEPT !.owed = @ \union {i}]
    BY <1>1, <1>3, <1>5, <1>6, <1>10, <2>1 DEF SendNext
  <2>3. PICK w, l : w = s.waiting /\ l = Len(w)
    OBVIOUS
  <2>4. PICK p : p = Append(w, i)
    OBVIOUS
  <2>5. /\ w \in Seq(Nat) /\ DOMAIN w = 1..l /\ l \in Nat /\ p \in Seq(Nat)
        /\ DOMAIN p = 1..l + 1 /\ Len(p) = l + 1 /\ p # <<>>
        /\ \A k \in 1..l : p[k] = w[k]
        /\ p[l + 1] = i
    BY <1>3, <1>4, <2>3, <2>4, QueuesAre, AppendIs
  <2>6. /\ v \in ClientRecord(line.jobs) /\ v.waiting = p /\ v.hasReply
        /\ v.requests = s.requests /\ v.toSend = Tail(s.toSend)
        /\ v.started = s.started /\ v.tries = s.tries /\ v.ran = s.ran
        /\ v.shouldExit = s.shouldExit /\ v.code = s.code /\ v.dead = s.dead
        /\ v.canTake = s.canTake
    BY <1>6, <2>1, <2>3, <2>4, <2>5 DEF ClientRecord
  <2>7. /\ t \in ClientRecord(line.jobs) /\ t.waiting = p /\ t.hasReply
        /\ t.requests = s.requests /\ t.toSend = Tail(s.toSend)
        /\ t.started = s.started /\ t.tries = s.tries /\ t.ran = s.ran
        /\ t.shouldExit = s.shouldExit /\ t.code = s.code /\ t.dead = s.dead
        /\ t.canTake = (s.canTake /\ t.toSend # <<>>)
    BY <2>2, <2>6 DEF StopSending, ClientRecord
  <2>8. QueuesFit(t, line.jobs) /\ Unresolved(t) = Unresolved(s)
    BY <1>1, <1>3, <2>3, <2>4, <2>7, SentFits
  <2>9. /\ daemon' \in DaemonRecord /\ daemon'.inbox = daemon.inbox
        /\ daemon'.link = "up" /\ daemon'.orderly = daemon.orderly
        /\ daemon'.owed = daemon.owed \union {i}
    BY <1>3, <1>4, <1>10, <2>2 DEF DaemonRecord
  <2>10. Typed'
    BY <1>1, <1>2, <1>3, <2>7, <2>9 DEF Typed
  <2>11. Watched(t)
    BY <1>3, <2>5, <2>7 DEF Watched
  <2>12. QueuesFit(client, line.jobs)' /\ Watched(client)'
    BY <1>1, <1>2, <2>8, <2>11
  <2>13. EventsFit'
    BY <1>1, <1>2, <1>3, <2>5, <2>7, <2>9 DEF EventsFit
  <2>14. ASSUME InStep PROVE InStep'
    <3>1. PICK q, n : q = daemon.inbox /\ n = Len(q)
      OBVIOUS
    <3>2. /\ n <= l /\ n \in Nat /\ DOMAIN q = 1..n
          /\ \A k \in 1..n : q[k].to = w[k]
          /\ daemon.owed = {w[k] : k \in {k \in 1..l : k > n}}
      BY <1>1, <1>3, <1>10, <2>3, <2>5, <2>14, <3>1, ClientIs DEF InStep
    <3>3. 1..l + 1 = (1..l) \union {l + 1} /\ l + 1 > n
      BY <2>5, <3>2
    <3>4. n <= l + 1 /\ \A k \in 1..n : q[k].to = p[k]
      BY <2>5, <3>2
    <3>5. daemon'.owed = {p[k] : k \in {k \in 1..l + 1 : k > n}}
      BY <2>5, <2>9, <3>2, <3>3
    <3>6. /\ client'.waiting = p /\ daemon'.inbox = q /\ Len(p) = l + 1 /\ Len(q) = n
          /\ DOMAIN p = 1..l + 1 /\ DOMAIN q = 1..n /\ daemon'.link = "up"
      BY <1>1, <2>5, <2>7, <2>9, <3>1, <3>2
    <3>7. daemon'.owed = {p[k] : k \in {k \in DOMAIN p : daemon'.link = "up" /\ k > Len(q)}}
      BY <3>5, <3>6
    <3> QED
      BY <3>4, <3>6, <3>7 DEF InStep
  <2>15. ASSUME Len(line.jobs) = 1 PROVE \A x, y \in daemon'.owed : x = y
    <3>1. InStep
      BY <1>2, <1>3, <2>15 DEF RepliesFit
    <3>2. \A x \in daemon.owed : x \in Unresolved(s)
      BY <1>1, <1>3, <3>1, QueuesAre DEF InStep
    <3>3. \A x, y \in Unresolved(s) : x = y
      BY <1>3, <2>15, OneIsUnresolved
    <3> QED
      BY <1>4, <2>9, <3>2, <3>3
  <2>16. RepliesFit'
    BY <1>1, <1>2, <1>3, <1>4, <2>7, <2>9, <2>14, <2>15 DEF RepliesFit
  <2>17. Earned(t) <=> Earned(s)
    BY <2>7 DEF Earned
  <2>18. Deserved'
    BY <1>1, <1>2, <1>3, <1>8, <2>7, <2>8, <2>17 DEF Deserved
  <2> QED
    BY <2>10, <2>12, <2>13, <2>16, <2>18 DEF IInv
<1> QED
  BY <1>3, <1>7, <1>9, <1>10 DEF DaemonRecord

(* A reply is read.                                                         *)
LEMMA ReadReplyKeeps ==
  ASSUME IInv, NEW o \in Drawn, ReadReply(o)
  PROVE  IInv'
<1>1. PICK s, t, i, r, reply : /\ s = client /\ t = client' /\ i = Head(s.waiting)
                               /\ r = s.requests[i] /\ reply = Head(daemon.inbox)
  OBVIOUS
<1>2. /\ phase = "events" /\ "in" \in event /\ s.dead = "no"
      /\ event' = event \ {"in"} /\ UNCHANGED <<line, phase>>
  BY <1>1 DEF ReadReply, Handles
<1>3. /\ Typed /\ s \in ClientRecord(line.jobs) /\ daemon \in DaemonRecord
      /\ QueuesFit(s, line.jobs) /\ line.jobs \in Seq(Job) /\ s.waiting # <<>>
      /\ daemon.inbox # <<>> /\ daemon.inbox \in Seq(ReplyRecord)
      /\ Watched(s) /\ EventsFit /\ RepliesFit /\ Deserved
  BY <1>1, <1>2, ClientIs, JobsAre DEF IInv, EventsFit
<1>4. PICK w, l, q, n : /\ w = s.waiting /\ l = Len(w)
                        /\ q = daemon.inbox /\ n = Len(q)
  OBVIOUS
<1>5. PICK v, p : v = Tail(w) /\ p = Tail(q)
  OBVIOUS
<1>6. /\ w \in Seq(Nat) /\ DOMAIN w = 1..l /\ l \in Nat /\ l >= 1 /\ i = w[1]
      /\ v \in Seq(Nat) /\ DOMAIN v = 1..l - 1 /\ Len(v) = l - 1
      /\ \A k \in 1..l - 1 : v[k] = w[k + 1]
      /\ i \in Nat
  BY <1>1, <1>3, <1>4, <1>5, QueuesAre, TailIs, SMTT(30)
<1>7. /\ DOMAIN q = 1..n /\ n \in Nat /\ n >= 1 /\ reply = q[1] /\ reply \in ReplyRecord
      /\ p \in Seq(ReplyRecord) /\ DOMAIN p = 1..n - 1 /\ Len(p) = n - 1
      /\ \A k \in 1..n - 1 : p[k] = q[k + 1]
  BY <1>1, <1>3, <1>4, <1>5, TailIs
<1>8. i \in Unresolved(s) /\ i \in DOMAIN s.requests
  <2>1. 1 \in DOMAIN w
    BY <1>6
  <2> QED
    BY <2>1, <1>3, <1>4, <1>6, QueuesAre DEF QueuesFit, InOrder
<1>9. daemon.link # "none"
  BY <1>3 DEF EventsFit
<1>10. PICK a, h : a = Resolve(s, i, reply) /\ h = Handle(a, r, reply.type, o)
  OBVIOUS
<1>11. /\ t = [h EXCEPT !.waiting = Tail(h.waiting), !.hasReply = Tail(h.waiting) # <<>>]
       /\ daemon' = [daemon EXCEPT !.inbox = p]
  BY <1>1, <1>4, <1>5, <1>10 DEF ReadReply, Whose
<1>12. reply \in Given
  BY <1>7 DEF ReplyRecord, Given
<1>13. /\ a \in ClientRecord(line.jobs) /\ ResolvedIn(s, a, i, reply)
       /\ a.toSend = s.toSend /\ a.waiting = s.waiting
       /\ a.canTake = s.canTake /\ a.hasReply = s.hasReply
       /\ a.started = s.started /\ a.tries = s.tries /\ a.ran = s.ran
       /\ a.shouldExit = s.shouldExit /\ a.code = s.code /\ a.dead = s.dead
  BY <1>3, <1>8, <1>10, <1>12, ResolveIs
<1>14. /\ r \in Request /\ r.job \in Jobs /\ Fits(line.jobs, r.job, r.what)
       /\ r.what = "password" => a.tries[r.job] >= 1
  <2>1. r \in Request /\ r.job \in 1..s.started /\ Fits(line.jobs, r.job, r.what)
    BY <1>1, <1>3, <1>8, QueuesAre DEF QueuesFit, OfItsJob
  <2>2. s.started \in 0..Len(line.jobs) /\ DOMAIN line.jobs = 1..Len(line.jobs)
        /\ Len(line.jobs) \in Nat
    BY <1>3, JobsAre DEF ClientRecord
  <2>3. r.what = "password" => s.tries[r.job] >= 1
    BY <1>1, <1>3, <1>8 DEF QueuesFit, TriesLast, Pending
  <2> QED
    BY <2>1, <2>2, <2>3, <1>13 DEF Jobs
<1>15. HandlerResult(a, h, r, reply.type)
  BY <1>2, <1>3, <1>9, <1>10, <1>13, <1>14, HandleIs
<1>16. h \in ClientRecord(line.jobs) /\ Steady(a, h, r.job)
  BY <1>15 DEF HandlerResult
<1>17. h.waiting = w
  BY <1>4, <1>13, <1>16 DEF Steady
<1>18. /\ t \in ClientRecord(line.jobs) /\ t.waiting = v /\ t.hasReply = (v # <<>>)
       /\ t.requests = h.requests /\ t.toSend = h.toSend /\ t.canTake = h.canTake
       /\ t.started = h.started /\ t.tries = h.tries /\ t.ran = h.ran
       /\ t.shouldExit = h.shouldExit /\ t.code = h.code /\ t.dead = h.dead
  <2>1. PICK some \in BOOLEAN : some = (v # <<>>)
    OBVIOUS
  <2>2. t = [h EXCEPT !.waiting = v, !.hasReply = some]
    BY <2>1, <1>5, <1>11, <1>17
  <2> QED
    BY <2>1, <2>2, <1>6, <1>16 DEF ClientRecord
<1>19. ResolvedBy(s, a, h, t, i, reply, reply.type)
  <2>1. PICK u : u = [a EXCEPT !.waiting = t.waiting]
    OBVIOUS
  <2>2. u.waiting = Tail(s.waiting) /\ u.toSend = s.toSend
    BY <2>1, <1>4, <1>5, <1>13, <1>18 DEF ClientRecord
  <2>3. LeavesQueue(s, u, i)
    BY <2>2, <1>1, <1>3 DEF LeavesQueue
  <2> QED
    BY <2>1, <2>3, <1>1, <1>13, <1>15, <1>18 DEF ResolvedBy
<1>20. QueuesFit(t, line.jobs)
  BY <1>3, <1>13, <1>18, <1>19, ResolvedFits
<1>21. /\ daemon' \in DaemonRecord /\ daemon'.inbox = p
       /\ daemon'.link = daemon.link /\ daemon'.orderly = daemon.orderly
       /\ daemon'.owed = daemon.owed
  BY <1>3, <1>7, <1>11 DEF DaemonRecord
<1>22. Typed'
  BY <1>1, <1>2, <1>3, <1>18, <1>21 DEF Typed
<1>23. Ends(a, h) \/ (h.toSend # <<>> /\ h.canTake)
  <2>1. ASSUME NEW what, NEW then, Asks(a, h, r.job, what, then)
        PROVE  h.toSend # <<>> /\ h.canTake
    <3>1. PICK q0, x : q0 = a.toSend /\ x = Len(a.requests) + 1
      OBVIOUS
    <3>2. q0 \in Seq(Nat) /\ x \in Nat
      BY <1>13, <3>1, QueuesAre
    <3>3. Append(q0, x) # <<>>
      BY <3>2, AppendIs
    <3>4. h.toSend = Append(q0, x) /\ h.canTake
      BY <2>1, <3>1 DEF Asks
    <3> QED
      BY <3>3, <3>4
  <2> QED
    BY <2>1, <1>15 DEF HandlerResult, Led
<1>24. QueuesFit(client, line.jobs)' /\ Watched(client)'
  BY <1>1, <1>2, <1>18, <1>20, <1>23 DEF Watched, Ends
<1>25. EventsFit'
  <2>1. "out" \in event' => t.toSend # <<>>
    BY <1>1, <1>2, <1>3, <1>13, <1>18, <1>23 DEF EventsFit, Ends
  <2>2. "in" \notin event' /\ "hangup" \notin event'
    BY <1>2, <1>3 DEF EventsFit
  <2>3. t.dead # "assert"
    BY <1>15, <1>18 DEF HandlerResult
  <2> QED
    BY <1>1, <1>2, <1>9, <1>21, <2>1, <2>2, <2>3 DEF EventsFit
<1>26. /\ DOMAIN s.requests \subseteq DOMAIN t.requests
       /\ \A k \in DOMAIN s.requests : t.requests[k].what = s.requests[k].what
       /\ reply.to \in {0, i} /\ (\A k \in DOMAIN s.requests : s.requests[k].got.to \in {0, k})
          => \A k \in DOMAIN t.requests : t.requests[k].got.to \in {0, k}
  BY <1>3, <1>13, <1>18, <1>19, ResolvedReplies
<1>27. \A k \in DOMAIN p :
           /\ p[k].to \in DOMAIN t.requests
           /\ p[k].type \in Answers(t.requests[p[k].to].what)
  <2>1. \A k \in DOMAIN q :
            /\ q[k].to \in DOMAIN s.requests
            /\ q[k].type \in Answers(s.requests[q[k].to].what)
    BY <1>1, <1>3, <1>4 DEF RepliesFit
  <2>2. SUFFICES ASSUME NEW k \in 1..n - 1
                 PROVE  /\ p[k].to \in DOMAIN t.requests
                        /\ p[k].type \in Answers(t.requests[p[k].to].what)
    BY <1>7
  <2>3. k + 1 \in 1..n
    BY <1>7
  <2>4. p[k] = q[k + 1]
    BY <1>7
  <2>5. PICK e : e = q[k + 1]
    OBVIOUS
  <2>6. e.to \in DOMAIN s.requests /\ e.type \in Answers(s.requests[e.to].what)
    BY <2>1, <2>3, <2>5, <1>7
  <2> QED
    BY <2>4, <2>5, <2>6, <1>26
<1>28. ASSUME InStep PROVE InStep' /\ reply.to = i
  <2>1. /\ n <= l /\ \A k \in 1..n : q[k].to = w[k]
        /\ daemon.owed = {w[k] : k \in {k \in 1..l : daemon.link = "up" /\ k > n}}
    <3>1. n <= l /\ \A k \in 1..n : q[k].to = w[k]
      BY <1>1, <1>4, <1>7, <1>28 DEF InStep
    <3>2. daemon.owed = {w[k] : k \in {k \in 1..l : daemon.link = "up" /\ k > n}}
      BY <1>1, <1>4, <1>6, <1>28 DEF InStep
    <3> QED
      BY <3>1, <3>2
  <2>2. n - 1 <= l - 1 /\ \A k \in 1..n - 1 : p[k].to = v[k]
    <3>1. n <= l
      BY <2>1
    <3>2. n - 1 <= l - 1
      BY <3>1, <1>6, <1>7
    <3>3. ASSUME NEW k \in 1..n - 1 PROVE p[k].to = v[k]
      <4>1. k + 1 \in 1..n /\ k \in 1..l - 1
        BY <3>1, <1>6, <1>7
      <4>2. p[k] = q[k + 1] /\ v[k] = w[k + 1]
        BY <4>1, <1>6, <1>7
      <4>3. q[k + 1].to = w[k + 1]
        BY <4>1, <2>1
      <4> QED
        BY <4>2, <4>3
    <3> QED
      BY <3>2, <3>3
  <2>3. daemon.owed = {v[k] : k \in {k \in 1..l - 1 : daemon.link = "up" /\ k > n - 1}}
    <3>1. ASSUME NEW k \in 1..l, k > n
          PROVE  k - 1 \in 1..l - 1 /\ k - 1 > n - 1 /\ v[k - 1] = w[k]
      <4>1. k - 1 \in 1..l - 1 /\ k - 1 > n - 1 /\ (k - 1) + 1 = k
        BY <3>1, <1>6, <1>7
      <4> QED
        BY <4>1, <1>6
    <3>2. ASSUME NEW k \in 1..l - 1, k > n - 1
          PROVE  k + 1 \in 1..l /\ k + 1 > n /\ v[k] = w[k + 1]
      BY <3>2, <1>6, <1>7
    <3> QED
      BY <2>1, <3>1, <3>2
  <2>4. /\ client'.waiting = v /\ daemon'.inbox = p /\ Len(v) = l - 1 /\ Len(p) = n - 1
        /\ DOMAIN p = 1..n - 1 /\ DOMAIN v = 1..l - 1
        /\ daemon'.link = daemon.link /\ daemon'.owed = daemon.owed
    BY <1>1, <1>6, <1>7, <1>18, <1>21
  <2>5. daemon'.owed = {v[k] : k \in {k \in DOMAIN v : daemon'.link = "up" /\ k > Len(p)}}
    BY <2>3, <2>4
  <2>6. InStep'
    BY <2>2, <2>4, <2>5 DEF InStep
  <2>7. reply.to = i
    BY <2>1, <1>6, <1>7
  <2> QED
    BY <2>6, <2>7
<1>29. ASSUME daemon.orderly PROVE t.dead # "undefined"
  <2>1. InStep
    BY <1>2, <1>3, <1>29 DEF RepliesFit
  <2>2. reply.to = i
    BY <2>1, <1>28
  <2>3. 1 \in DOMAIN daemon.inbox /\ reply = daemon.inbox[1]
    BY <1>4, <1>7
  <2>4. reply.type \in Answers(r.what)
    BY <1>1, <1>3, <2>2, <2>3 DEF RepliesFit
  <2>5. reply.type = "nak" \/ Takes(r.what, reply.type)
    BY <2>4, <1>14 DEF Answers, Takes, Request, What
  <2> QED
    BY <2>5, <1>15, <1>18 DEF HandlerResult
<1>30. RepliesFit'
  <2>1. daemon'.owed \subseteq DOMAIN t.requests
    BY <1>1, <1>3, <1>21, <1>26 DEF RepliesFit
  <2>2. Len(line.jobs) = 1 => daemon.orderly /\ \A x, y \in daemon.owed : x = y
    BY <1>3 DEF RepliesFit
  <2>3. ASSUME daemon.orderly
        PROVE  InStep' /\ \A k \in DOMAIN t.requests : t.requests[k].got.to \in {0, k}
    BY <1>1, <1>2, <1>3, <1>26, <1>28, <2>3 DEF RepliesFit
  <2> QED
    BY <1>1, <1>2, <1>21, <1>27, <1>29, <2>1, <2>2, <2>3 DEF RepliesFit
<1>31. ASSUME Sole(line.jobs)
       PROVE  EndsWell(t) /\ (t.shouldExit /\ t.code = "ok" => Earned(t)) /\ event' = {}
  <2>1. event' = {} /\ ~s.shouldExit
    BY <1>1, <1>2, <1>3, <1>31, OneEvent DEF Deserved
  <2>2. EndsWell(s)
    BY <1>1, <1>2, <1>3, <1>31 DEF Deserved, EndsWell
  <2> QED
    BY <2>1, <2>2, <1>3, <1>13, <1>18, <1>19, <1>31, ResolvedDeserves
<1>32. Deserved'
  BY <1>1, <1>2, <1>31 DEF Deserved, EndsWell
<1> QED
  BY <1>22, <1>24, <1>25, <1>30, <1>32 DEF IInv

(* Everything is cancelled.                                                 *)
LEMMA CancelledIs ==
  ASSUME IInv, NEW o \in Drawn, NEW c, c = CancelAll(client, o)
  PROVE  /\ c \in ClientRecord(line.jobs) /\ QueuesFit(c, line.jobs)
         /\ c.toSend = <<>> /\ c.waiting = <<>> /\ Unresolved(c) = {}
         /\ c.started = client.started /\ c.shouldExit = client.shouldExit
         /\ c.dead \in {client.dead, "signal"} /\ c.code = client.code
         /\ DOMAIN c.requests = DOMAIN client.requests
         /\ \A k \in DOMAIN client.requests :
                c.requests[k].what = client.requests[k].what
         /\ (\A k \in DOMAIN client.requests : client.requests[k].got.to \in {0, k})
            => \A k \in DOMAIN c.requests : c.requests[k].got.to \in {0, k}
         /\ Sole(line.jobs) /\ phase # "ended" => EndsWell(c)
<1>1. PICK s : s = client
  OBVIOUS
<1>2. /\ s \in ClientRecord(line.jobs) /\ QueuesFit(s, line.jobs)
      /\ InOrder(s) /\ CalledOnce(s) /\ Deserved
  BY <1>1, ClientIs DEF IInv, QueuesFit
<1>3. /\ c \in ClientRecord(line.jobs)
      /\ c.toSend = <<>> /\ c.waiting = <<>> /\ Unresolved(c) = {}
      /\ c.tries = s.tries /\ c.started = s.started
      /\ c.shouldExit = s.shouldExit /\ c.code = s.code
      /\ c.dead \in {s.dead, "signal"}
      /\ DOMAIN c.requests = DOMAIN s.requests
      /\ \A i \in DOMAIN s.requests :
             /\ c.requests[i].job = s.requests[i].job
             /\ c.requests[i].what = s.requests[i].what
             /\ c.requests[i].then = s.requests[i].then
             /\ i \notin Unresolved(s) => c.requests[i] = s.requests[i]
             /\ i \in Unresolved(s) =>
                    c.requests[i].calls = 1 /\ c.requests[i].got.to = 0
      /\ (\A i \in Unresolved(s) : s.requests[i].what = "unpause") => c.ran = s.ran
  BY <1>1, <1>2, CancelAllIs
<1>4. QueuesFit(c, line.jobs)
  BY <1>2, <1>3, CancelFits
<1>5. ASSUME Sole(line.jobs), phase # "ended" PROVE EndsWell(c)
  <2>1. SUFFICES ASSUME NEW i \in DOMAIN s.requests, s.requests[i].what = "unpause",
                        s.requests[i].then = "ok"
                 PROVE  Earned(c)
    BY <1>3 DEF EndsWell
  <2>2. Earned(s) /\ \A k \in Unresolved(s) : s.requests[k].what = "unpause"
    BY <1>1, <1>2, <1>5, <2>1 DEF Deserved
  <2>3. c.ran = s.ran
    BY <1>3, <2>2
  <2>4. \A k \in DOMAIN s.requests :
            s.requests[k].what = "password" => c.requests[k] = s.requests[k]
    BY <1>3, <2>2
  <2> QED
    BY <1>3, <2>2, <2>3, <2>4 DEF Earned
<1> QED
  BY <1>1, <1>3, <1>4, <1>5

(* The daemon hangs up.                                                     *)
LEMMA OnHangupKeeps ==
  ASSUME IInv, NEW o \in Drawn, OnHangup(o)
  PROVE  IInv'
<1>1. PICK s, t, c, code : /\ s = client /\ t = client' /\ c = CancelAll(client, o)
                           /\ code = IF line.wait THEN "ok" ELSE "failed"
  OBVIOUS
<1>2. /\ phase = "events" /\ "hangup" \in event /\ s.dead = "no"
      /\ event' = event \ {"hangup"} /\ UNCHANGED <<line, phase, daemon>>
      /\ t = Exit(c, code) /\ code \in Status
  BY <1>1 DEF OnHangup, Handles, Status
<1>3. /\ event = {"hangup"} /\ daemon.link = "closed" /\ daemon.inbox = <<>>
      /\ Typed /\ RepliesFit
  BY <1>2 DEF IInv, EventsFit
<1>4. event' = {}
  BY <1>2, <1>3
<1>5. /\ c \in ClientRecord(line.jobs) /\ QueuesFit(c, line.jobs)
      /\ c.toSend = <<>> /\ c.waiting = <<>> /\ Unresolved(c) = {}
      /\ c.started = s.started /\ c.dead \in {s.dead, "signal"}
      /\ DOMAIN c.requests = DOMAIN s.requests
      /\ \A k \in DOMAIN s.requests : c.requests[k].what = s.requests[k].what
      /\ (\A k \in DOMAIN s.requests : s.requests[k].got.to \in {0, k})
         => \A k \in DOMAIN c.requests : c.requests[k].got.to \in {0, k}
      /\ Sole(line.jobs) => EndsWell(c)
  BY <1>1, <1>2, CancelledIs
<1>6. /\ t \in ClientRecord(line.jobs) /\ t.shouldExit /\ t.code = code
      /\ t.requests = c.requests /\ t.toSend = c.toSend /\ t.waiting = c.waiting
      /\ t.started = c.started /\ t.tries = c.tries /\ t.ran = c.ran /\ t.dead = c.dead
  BY <1>2, <1>5 DEF Exit, ClientRecord
<1>7. QueuesFit(t, line.jobs) /\ Unresolved(t) = {}
  BY <1>5, <1>6, SameFits
<1>8. Typed'
  BY <1>1, <1>2, <1>3, <1>4, <1>6 DEF Typed
<1>9. QueuesFit(client, line.jobs)' /\ Watched(client)'
  BY <1>1, <1>2, <1>6, <1>7 DEF Watched
<1>10. EventsFit'
  BY <1>1, <1>2, <1>3, <1>4, <1>5, <1>6 DEF EventsFit
<1>11. InStep => InStep'
  BY <1>1, <1>2, <1>3, <1>5, <1>6 DEF InStep
<1>12. RepliesFit'
  BY <1>1, <1>2, <1>3, <1>5, <1>6, <1>11 DEF RepliesFit
<1>13. Earned(t) <=> Earned(c)
  BY <1>6 DEF Earned
<1>14. code = "ok" => line.wait
  BY <1>1
<1>15. Deserved'
  BY <1>1, <1>2, <1>4, <1>5, <1>6, <1>7, <1>13, <1>14 DEF Deserved, EndsWell
<1> QED
  BY <1>8, <1>9, <1>10, <1>12, <1>15 DEF IInv

(* The client is freed.                                                     *)
LEMMA FreeKeeps ==
  ASSUME IInv, NEW o \in Drawn, Free(o)
  PROVE  IInv'
<1>1. PICK s, t : s = client /\ t = client'
  OBVIOUS
<1>2. /\ phase = "over" /\ phase' = "ended" /\ s.dead = "no"
      /\ UNCHANGED <<line, event, daemon>> /\ t = CancelAll(client, o)
  BY <1>1 DEF Free
<1>3. Typed /\ RepliesFit /\ EventsFit
  BY DEF IInv
<1>4. /\ t \in ClientRecord(line.jobs) /\ QueuesFit(t, line.jobs)
      /\ t.toSend = <<>> /\ t.waiting = <<>>
      /\ t.shouldExit = s.shouldExit /\ t.dead \in {s.dead, "signal"}
      /\ DOMAIN t.requests = DOMAIN s.requests
      /\ \A k \in DOMAIN s.requests : t.requests[k].what = s.requests[k].what
      /\ (\A k \in DOMAIN s.requests : s.requests[k].got.to \in {0, k})
         => \A k \in DOMAIN t.requests : t.requests[k].got.to \in {0, k}
  BY <1>1, <1>2, CancelledIs
<1>5. Typed'
  BY <1>1, <1>2, <1>3, <1>4 DEF Typed
<1>6. s.shouldExit /\ event = {}
  BY <1>1, <1>2, <1>3 DEF EventsFit
<1>7. QueuesFit(client, line.jobs)' /\ Watched(client)'
  BY <1>1, <1>2, <1>4, <1>6 DEF Watched
<1>8. daemon.link = "none" => t.requests = <<>>
  <2>1. t.requests \in Seq(Request) /\ s.requests \in Seq(Request)
    BY <1>1, <1>3, <1>4, ClientIs, QueuesAre
  <2>2. daemon.link = "none" => DOMAIN t.requests = {}
    BY <1>1, <1>3, <1>4 DEF EventsFit
  <2>3. ASSUME daemon.link = "none" PROVE Len(t.requests) = 0
    <3>1. DOMAIN t.requests = 1..Len(t.requests) /\ Len(t.requests) \in Nat
      BY <2>1, LenProperties
    <3>2. Len(t.requests) # 0 => 1 \in 1..Len(t.requests)
      BY <3>1
    <3> QED
      BY <2>2, <2>3, <3>1, <3>2
  <2> QED
    BY <2>1, <2>3, EmptySeq
<1>9. EventsFit'
  BY <1>1, <1>2, <1>3, <1>4, <1>6, <1>8 DEF EventsFit
<1>10. RepliesFit'
  BY <1>1, <1>2, <1>3, <1>4 DEF RepliesFit
<1>11. Deserved'
  BY <1>2 DEF Deserved
<1> QED
  BY <1>5, <1>7, <1>9, <1>10, <1>11 DEF IInv

LEMMA StepKeeps == IInv /\ [Next]_vars => IInv'
<1>1. SUFFICES ASSUME IInv, [Next]_vars PROVE IInv'
  OBVIOUS
<1>2. ASSUME NEW o \in Drawn, Main(o) PROVE IInv'
  BY <1>1, <1>2, MainKeeps
<1>3. ASSUME NEW o \in Drawn, SendNext(o) PROVE IInv'
  BY <1>1, <1>3, SendNextKeeps
<1>4. ASSUME NEW o \in Drawn, ReadReply(o) PROVE IInv'
  BY <1>1, <1>4, ReadReplyKeeps
<1>5. ASSUME NEW o \in Drawn, OnHangup(o) PROVE IInv'
  BY <1>1, <1>5, OnHangupKeeps
<1>6. ASSUME NEW o \in Drawn, Free(o) PROVE IInv'
  BY <1>1, <1>6, FreeKeeps
<1>7. ASSUME NEW o \in Drawn, Dispatch(o) PROVE IInv'
  BY <1>1, <1>7, DispatchKeeps
<1>8. CASE Wake
  BY <1>1, <1>8, WakeKeeps
<1>9. CASE EndPass
  BY <1>1, <1>9, EndPassKeeps
<1>10. CASE LeaveLoop
  BY <1>1, <1>10, LeaveLoopKeeps
<1>11. CASE OnPingTimeout
  BY <1>1, <1>11, OnPingTimeoutKeeps
<1>12. CASE Close
  BY <1>1, <1>12, CloseKeeps
<1>13. CASE UNCHANGED vars
  BY <1>1, <1>13, StutterKeeps
<1>14. ASSUME NEW i \in DOMAIN client.requests, NEW type \in Reply, Answer(i, type)
       PROVE  IInv'
  BY <1>1, <1>14, AnswerKeeps
<1>15. CASE Program
  BY <1>2, <1>3, <1>4, <1>5, <1>6, <1>8, <1>9, <1>10, <1>15 DEF Program, Drawn
<1>16. CASE \E o \in [Jobs -> Outcome \ {"none"}] : Dispatch(o)
  BY <1>7, <1>16 DEF Drawn
<1> QED
  BY <1>1, <1>11, <1>12, <1>13, <1>14, <1>15, <1>16 DEF Next

-----------------------------------------------------------------------------
(* What the invariant is for.                                               *)

LEMMA InvariantTypes == IInv => TypeOK
<1>1. SUFFICES ASSUME IInv PROVE TypeOK
  OBVIOUS
<1>2. PICK s, jobs : s = client /\ jobs = line.jobs
  OBVIOUS
<1>3. /\ Typed /\ RepliesFit /\ s \in ClientRecord(jobs) /\ QueuesFit(s, jobs)
      /\ daemon \in DaemonRecord
  BY <1>1, <1>2, ClientIs DEF IInv
<1>4. /\ s.started \in 0..Len(jobs) /\ s.requests \in Seq(Request)
      /\ s.canTake \in BOOLEAN /\ s.hasReply \in BOOLEAN
      /\ s.ran \in [Jobs -> Outcome] /\ s.shouldExit \in BOOLEAN /\ s.code \in Status
      /\ s.dead \in {"no", "signal", "assert", "undefined"}
  BY <1>2, <1>3 DEF ClientRecord, Jobs
<1>5. \A i \in DOMAIN s.requests : s.requests[i].job \in Jobs
  <2>1. DOMAIN jobs = 1..Len(jobs) /\ Len(jobs) \in Nat
    BY <1>2, <1>3, JobsAre
  <2>2. \A i \in DOMAIN s.requests : s.requests[i].job \in 1..s.started
    BY <1>3 DEF QueuesFit, OfItsJob
  <2> QED
    BY <2>1, <2>2, <1>2, <1>4 DEF Jobs
<1>6. s.toSend \in Seq(DOMAIN s.requests) /\ s.waiting \in Seq(DOMAIN s.requests)
  <2>1. Unresolved(s) \subseteq DOMAIN s.requests
    BY <1>3 DEF QueuesFit, InOrder
  <2>2. ASSUME NEW q \in Seq(Nat), NEW S, \A k \in DOMAIN q : q[k] \in S
        PROVE  q \in Seq(S)
    <3>1. Len(q) \in Nat /\ q \in [1..Len(q) -> S]
      BY <2>2, LenProperties
    <3> QED
      BY <3>1, SeqDef
  <2>3. /\ \A k \in DOMAIN s.toSend : s.toSend[k] \in DOMAIN s.requests
        /\ \A k \in DOMAIN s.waiting : s.waiting[k] \in DOMAIN s.requests
    BY <2>1, <1>3, QueuesAre
  <2> QED
    BY <2>2, <2>3, <1>3, QueuesAre
<1>7. \A j \in Jobs : s.tries[j] \in 0..line.jobs[j].tries
  <2>1. SUFFICES ASSUME NEW j \in Jobs PROVE s.tries[j] \in 0..line.jobs[j].tries
    OBVIOUS
  <2>2. s.tries[j] \in Nat /\ line.jobs[j].tries \in Nat
    BY <1>2, <1>3, QueuesAre, JobsAre DEF Jobs
  <2>3. s.tries[j] <= line.jobs[j].tries
    BY <1>2, <1>3 DEF QueuesFit, TriesLast, Jobs
  <2> QED
    BY <2>2, <2>3
<1>8. /\ daemon.link \in {"none", "up", "closed"}
      /\ daemon.owed \subseteq DOMAIN client.requests
      /\ daemon.paused \in BOOLEAN /\ daemon.orderly \in BOOLEAN
  BY <1>3 DEF DaemonRecord, RepliesFit
<1>9. /\ line \in CommandLines /\ event \subseteq {"out", "in", "hangup"}
      /\ phase \in {"start", "wait", "events", "over", "ended"}
  BY <1>3 DEF Typed
<1> QED
  BY <1>2, <1>4, <1>5, <1>6, <1>7, <1>8, <1>9 DEF TypeOK

LEMMA InvariantResolves == IInv => EachRequestResolvedOnce
<1>1. SUFFICES ASSUME IInv, NEW i \in DOMAIN client.requests
               PROVE  client.requests[i].calls =
                          IF phase = "ended" \/ i \notin Unresolved(client) THEN 1 ELSE 0
  BY DEF EachRequestResolvedOnce
<1>2. PICK s : s = client
  OBVIOUS
<1>3. CalledOnce(s)
  BY <1>1, <1>2 DEF IInv, QueuesFit
<1>4. phase = "ended" => Unresolved(s) = {}
  <2>1. phase = "ended" => s.toSend = <<>> /\ s.waiting = <<>>
    BY <1>1, <1>2 DEF IInv, EventsFit
  <2> QED
    BY <2>1 DEF Unresolved
<1> QED
  BY <1>1, <1>2, <1>3, <1>4 DEF CalledOnce

LEMMA InvariantLasts == IInv => TriesAreKept
<1>1. SUFFICES ASSUME IInv, NEW j \in Jobs
               PROVE  Cardinality(Passwords(client, j)) <= line.jobs[j].tries
  BY DEF TriesAreKept, Passwords
<1> QED
  BY <1>1 DEF IInv, QueuesFit, TriesLast, Jobs

LEMMA InvariantEarns == IInv => SuccessWasEarned
<1>1. SUFFICES ASSUME IInv, NEW j \in Jobs, phase = "over", client.code = "ok",
                      Jobs = {j}, line.jobs[j].program, line.jobs[j].kind = "password"
               PROVE  \/ client.ran[j] \in {"ok", "unstarted"} \/ line.wait
                      \/ \E i \in DOMAIN client.requests :
                             /\ client.requests[i].what = "password"
                             /\ client.requests[i].got.type \in {"interrupt", "no_answer"}
  BY DEF SuccessWasEarned
<1>2. j = 1 /\ Len(line.jobs) = 1
  <2>1. DOMAIN line.jobs = 1..Len(line.jobs) /\ Len(line.jobs) \in Nat
    BY <1>1, JobsAre DEF IInv
  <2>2. 1..Len(line.jobs) = {j}
    BY <2>1, <1>1 DEF Jobs
  <2>3. Len(line.jobs) \in 1..Len(line.jobs) /\ 1 \in 1..Len(line.jobs)
    BY <2>1, <2>2
  <2> QED
    BY <2>2, <2>3
<1>3. Sole(line.jobs)
  BY <1>1, <1>2 DEF Sole
<1>4. client.shouldExit
  BY <1>1 DEF IInv, EventsFit
<1>5. Earned(client) \/ line.wait
  BY <1>1, <1>3, <1>4 DEF IInv, Deserved
<1> QED
  BY <1>2, <1>5 DEF Earned

LEMMA InvariantIsSound == IInv => ClientIsSound
<1>1. IInv => QueuesAreWatched
  BY DEF IInv, Watched, EventsFit, QueuesAreWatched, Runs
<1>2. IInv => RepliesMatch
  BY DEF IInv, RepliesFit, RepliesMatch
<1> QED
  BY <1>1, <1>2, InvariantTypes, InvariantResolves, InvariantLasts, InvariantEarns
  DEF ClientIsSound

-----------------------------------------------------------------------------
(* Whatever the command line, the daemon's answers and their order, closed   *)
(* connections and the fates of programs: the socket is watched for what the *)
(* queues need, every request is resolved exactly once, a reply reaches the  *)
(* request it answers while the daemon answers in order, a password is asked *)
(* for at most as often as it may, and a status of 0 was earned              *)
(* (ply-boot-client.c, plymouth.c).                                          *)
THEOREM ClientIsAlwaysSound == Spec => []ClientIsSound
<1> QED
  BY InitHolds, StepKeeps, InvariantIsSound, PTL DEF Spec

=============================================================================
