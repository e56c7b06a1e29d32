------------------------- MODULE TransitionService --------------------------
(***************************************************************************)
(* What plymouthd promises to those who ask it to quit or to deactivate    *)
(* (the boot protocol's "Q" and "D", SIGTERM, and newroot), whatever it    *)
(* does with splash, devices and console meanwhile: a request waits until  *)
(* all requests of its kind are answered together, and the daemon has by   *)
(* then become what they asked for.  Daemon implements this specification. *)
(***************************************************************************)
EXTENDS Naturals

CONSTANT Request    \* the requests that are ever made

VARIABLES
    quitting,       \* the requests that wait for the daemon to quit
    deactivating,   \* the requests that wait for it to be inactive
    answers,        \* how often each request was answered
    status          \* "active", "inactive", or "gone" when told to exit

service == <<quitting, deactivating, answers, status>>

Init ==
    /\ quitting = {} /\ deactivating = {}
    /\ answers = [r \in Request |-> 0]
    /\ status = "active"

New(r) == r \notin quitting \union deactivating /\ answers[r] = 0

(* A handler answers those who wait, and perhaps the request it was called  *)
(* for.                                                                     *)
Asking == {{}} \union {{r} : r \in {q \in Request : New(q)}}

Answer(S) == answers' = [r \in Request |->
                             IF r \in S THEN answers[r] + 1 ELSE answers[r]]

(* A request waits: a quit as long as the daemon is there, a deactivation   *)
(* as long as it is active.                                                 *)
AskToQuit(r) ==
    /\ status # "gone" /\ New(r)
    /\ quitting' = quitting \union {r}
    /\ UNCHANGED <<deactivating, answers, status>>

AskToDeactivate(r) ==
    /\ status = "active" /\ New(r)
    /\ deactivating' = deactivating \union {r}
    /\ UNCHANGED <<quitting, answers, status>>

(* The daemon becomes inactive and tells everybody who asked it to.         *)
Deactivate(new) ==
    /\ status = "active" /\ deactivating \union new # {}
    /\ status' = "inactive" /\ deactivating' = {}
    /\ Answer(deactivating \union new)
    /\ UNCHANGED quitting

(* It is inactive already.                                                  *)
Confirm(r) ==
    /\ status = "inactive" /\ New(r)
    /\ Answer({r})
    /\ UNCHANGED <<quitting, deactivating, status>>

Reactivate ==
    /\ status = "inactive"
    /\ status' = "active"
    /\ UNCHANGED <<quitting, deactivating, answers>>

(* The daemon quits, but only if it was asked to, and tells everybody who   *)
(* waits, for whatever.                                                     *)
Quit(new) ==
    /\ status # "gone" /\ quitting \union new # {}
    /\ status' = "gone" /\ quitting' = {} /\ deactivating' = {}
    /\ Answer(quitting \union deactivating \union new)

Next ==
    \/ Reactivate
    \/ \E r \in Request : AskToQuit(r) \/ AskToDeactivate(r) \/ Confirm(r)
    \/ \E new \in Asking : Deactivate(new) \/ Quit(new)

Spec == Init /\ [][Next]_service

=============================================================================
